--------------------------- MODULE MediumOwnership ---------------------------
(***************************************************************************)
(* What the device promises about its memory card: the recorder and the    *)
(* USB host take turns, each turn ends before the next one starts, and the *)
(* mark that says the host may have written the card is on flash before    *)
(* the host can, and stays until the host has asked for the release and    *)
(* the card is back.  Losing the power ends the recorder's use and forgets *)
(* a request; it changes neither the owner nor the mark.                   *)
(***************************************************************************)

VARIABLES
    owner,      \* whose the card is: "device" or "host"
    inUse,      \* recorder tasks are running
    marked,     \* the durable mark: the host may have written the card
    asked       \* the host has asked for the release

Init == owner = "device" /\ ~inUse /\ ~marked /\ ~asked

Begin ==
    /\ owner = "device" /\ ~marked
    /\ inUse' = TRUE
    /\ UNCHANGED <<owner, marked, asked>>

End ==
    /\ inUse' = FALSE
    /\ UNCHANGED <<owner, marked, asked>>

Mark ==
    /\ owner = "device" /\ ~inUse
    /\ marked' = TRUE
    /\ UNCHANGED <<owner, inUse, asked>>

HandOver ==
    /\ ~inUse /\ marked /\ ~asked
    /\ owner' = "host"
    /\ UNCHANGED <<inUse, marked, asked>>

Ask ==
    /\ owner = "host" /\ marked
    /\ asked' = TRUE
    /\ UNCHANGED <<owner, inUse, marked>>

TakeBack ==
    /\ owner = "host" /\ asked
    /\ owner' = "device"
    /\ UNCHANGED <<inUse, marked, asked>>

(* The request is done with when the mark is known to be gone; a write that *)
(* failed may have removed it all the same.                                 *)
Resolve ==
    /\ owner = "device" /\ asked /\ ~inUse
    /\ marked' = FALSE
    /\ asked' \in BOOLEAN
    /\ UNCHANGED <<owner, inUse>>

LosePower ==
    /\ inUse' = FALSE /\ asked' = FALSE
    /\ UNCHANGED <<owner, marked>>

Next == \/ Begin \/ End \/ Mark \/ HandOver \/ Ask \/ TakeBack \/ Resolve
        \/ LosePower

Spec == Init /\ [][Next]_<<owner, inUse, marked, asked>>

=============================================================================
