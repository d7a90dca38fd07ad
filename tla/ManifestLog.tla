----------------------------- MODULE ManifestLog -----------------------------
(***************************************************************************)
(* What the manifest promises: an append-only log of recordings, one entry *)
(* per recordingId.  Nothing that was ever in it is changed or lost,       *)
(* whatever power cut, I/O error or repair the store behind it goes        *)
(* through.                                                                *)
(***************************************************************************)
EXTENDS Naturals, Sequences

CONSTANT Entries    \* records with a field id
VARIABLE log

Init == log = <<>>

Extend(e) ==
    /\ \A k \in 1..Len(log) : log[k].id # e.id
    /\ log' = Append(log, e)

Next == \E e \in Entries : Extend(e)

Spec == Init /\ [][Next]_log

=============================================================================
