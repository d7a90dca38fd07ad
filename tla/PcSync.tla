------------------------------- MODULE PcSync -------------------------------
(****************************************************************************)
(* The raw synchronisation of the PC package, pc/src/m5daylog/sync.py:      *)
(* sync_device copies the recordings a device's manifest lists into the     *)
(* library, one verified partial file each, publishes them without          *)
(* replacing anything, and marks them SYNCED in SQLite.                     *)
(*                                                                          *)
(* A file is [by, n]: n chunks of the recording as device by holds it, or   *)
(* other bytes.  The manifest's size and digest of a recording on device d  *)
(* are those of Whole(d), so comparing them is comparing the file with it.  *)
(* The drive letter is read afresh by every step that names a path on it;   *)
(* an open source stays on its device.  A process that is killed leaves the *)
(* library and the database as they are.                                    *)
(****************************************************************************)
EXTENDS Naturals, Sequences, FiniteSets

CONSTANTS Devices,     \* the M5Daylog devices that may be plugged in
          Recordings,  \* recording identities
          Holds,       \* the manifest of each device, in its order
          Chunks,      \* reads that a recording's bytes take
          MaxFault,    \* bound on failing calls of the operating system
          MaxForeign   \* bound on files that others put into the library

CONSTANTS None, Foreign

Files == [by : Devices \cup {Foreign}, n : 0..Chunks]
Rows == [dev : Devices, status : {"SYNCED", "CONFLICT"}]

ASSUME SyncAssumption ==
    /\ Holds \in [Devices -> Seq(Recordings)]
    /\ Chunks \in Nat \ {0} /\ {MaxFault, MaxForeign} \subseteq Nat
    /\ None \notin Devices \cup {Foreign} /\ Foreign \notin Devices
    /\ None \notin Files \cup Rows

VARIABLES
    platform,  \* os.name: "nt" or "posix"
    bus,       \* present devices, and those the drive letter and COM name
    row,       \* the recordings table: None or [dev, status]
    final,     \* <recordingId>.wav in the library: None or a file
    partial,   \* its .partial
    placed,    \* history: the file somebody else put at the final path
    sync,      \* sync_device: program point and locals
    faults

library == <<row, final, partial, placed>>
syncVars == <<platform, bus, library, sync, faults>>

Whole(d) == [by |-> d, n |-> Chunks]
mount == bus.letter
rec == Head(sync.todo)
NotSyncing == [at |-> "out", dev |-> None, src |-> None, todo |-> <<>>,
               conflicts |-> 0]

SyncInit ==
    /\ platform \in {"nt", "posix"}
    /\ row = [r \in Recordings |-> None]
    /\ final = [r \in Recordings |-> None]
    /\ partial = [r \in Recordings |-> None]
    /\ placed = [r \in Recordings |-> None]
    /\ sync = NotSyncing

At(p) == sync.at = p
Go(p) == sync' = [sync EXCEPT !.at = p]
Raise == sync' = [sync EXCEPT !.at = "failed", !.src = None]
NextRecording ==
    sync' = [sync EXCEPT !.at = "row", !.todo = Tail(sync.todo)]
NextAfterConflict ==
    sync' = [sync EXCEPT !.at = "row", !.todo = Tail(sync.todo),
                         !.conflicts = @ + 1]
Keep == UNCHANGED <<platform, bus, placed>>
Same == UNCHANGED <<row, final, partial>>
NoFault == UNCHANGED faults
Fault == faults < MaxFault /\ faults' = faults + 1

(* _write_recording with SYNCED, and _mark_conflict, which leaves the key   *)
(* of an existing row alone.  Both commit.                                  *)
WriteSynced == row' = [row EXCEPT ![rec] = [dev |-> sync.dev,
                                            status |-> "SYNCED"]]
MarkConflict ==
    row' = [row EXCEPT ![rec] =
              [dev |-> IF @ = None THEN sync.dev ELSE @.dev,
               status |-> "CONFLICT"]]

(* _file_matches of the final file; one that cannot be read does not match. *)
FileMatches == final[rec] = Whole(sync.dev)
Matches == FileMatches /\ NoFault
Differs == IF FileMatches THEN Fault ELSE NoFault

-----------------------------------------------------------------------------
(* inspect_device reads device.json; then the manifest is read, which must  *)
(* carry the same deviceId, its recordings are resolved on the mount, the   *)
(* database is opened and the device's row upserted.                        *)
Inspect ==
    /\ At("inspect")
    /\ \/ mount # None /\ sync' = [sync EXCEPT !.at = "preflight",
                                               !.dev = mount]
       \/ mount = None /\ Raise
    /\ Same /\ Keep /\ NoFault

Preflight ==
    /\ At("preflight")
    /\ \/ mount = sync.dev /\ sync' = [sync EXCEPT !.at = "row",
                                                   !.todo = Holds[mount]]
       \/ mount # sync.dev /\ Raise
    /\ Same /\ Keep /\ NoFault

(* A row of the same recording with another device or digest is a conflict. *)
CheckRow ==
    /\ At("row") /\ sync.todo # <<>>
    /\ \/ /\ row[rec] # None /\ row[rec].dev # sync.dev
          /\ MarkConflict /\ NextAfterConflict
       \/ /\ row[rec] # None => row[rec].dev = sync.dev
          /\ Go("final") /\ UNCHANGED row
    /\ UNCHANGED <<final, partial>> /\ Keep /\ NoFault

(* A file at the final path is hashed: adopted when it is the recording,    *)
(* left alone and marked otherwise, also one that could not be read.        *)
CheckFinal ==
    /\ At("final")
    /\ \/ final[rec] = None /\ Go("open") /\ UNCHANGED row /\ NoFault
       \/ /\ final[rec] # None /\ Matches
          /\ WriteSynced /\ Go("tidy")
       \/ /\ final[rec] # None /\ Differs
          /\ MarkConflict /\ NextAfterConflict
    /\ UNCHANGED <<final, partial>> /\ Keep

Tidy ==
    /\ At("tidy") /\ partial' = [partial EXCEPT ![rec] = None]
    /\ NextRecording /\ UNCHANGED <<row, final>> /\ Keep /\ NoFault

(* The source is opened on whatever the drive letter names by now, and a    *)
(* stale partial replaced by a fresh one (_open_fresh_partial).             *)
HasSource ==
    mount # None /\ \E k \in 1..Len(Holds[mount]) : Holds[mount][k] = rec
OpenFresh ==
    /\ At("open")
    /\ \/ /\ HasSource
          /\ partial' = [partial EXCEPT ![rec] = [by |-> mount, n |-> 0]]
          /\ sync' = [sync EXCEPT !.at = "copy", !.src = mount]
       \/ ~HasSource /\ Raise /\ UNCHANGED partial
    /\ UNCHANGED <<row, final>> /\ Keep /\ NoFault

(* One read and write of copy_verified_stream.  The medium may return other *)
(* bytes than were recorded.                                                *)
CopyChunk ==
    /\ At("copy") /\ sync.src # None /\ partial[rec].n < Chunks
    /\ \E by \in {partial[rec].by, Foreign} :
          /\ partial' = [partial EXCEPT ![rec] = [by |-> by, n |-> @.n + 1]]
          /\ IF by = partial[rec].by THEN NoFault ELSE Fault
    /\ UNCHANGED <<sync, row, final>> /\ Keep

(* The end of the source, which may come early: flush, fsync, and the size  *)
(* and digest of what was copied against the manifest.                      *)
Verified(f) == f = Whole(sync.dev)
VerifyCopy ==
    /\ At("copy") /\ sync.src # None
    /\ \/ partial[rec].n = Chunks /\ NoFault
       \/ partial[rec].n < Chunks /\ Fault
    /\ \/ /\ Verified(partial[rec])
          /\ sync' = [sync EXCEPT !.at = "publish", !.src = None]
       \/ ~Verified(partial[rec]) /\ Raise
    /\ Same /\ Keep

SourceLost ==
    /\ At("copy") /\ sync.src = None /\ Raise
    /\ Same /\ Keep /\ NoFault

(* Faulty variant: it replaces what it finds.                              *)
OccupiedNever(r) == FALSE

(* publish_no_clobber: a rename on Windows, a link and then an unlink       *)
(* elsewhere; FileExistsError goes to its handler.                          *)
Occupied(r) == final[r] # None
Publish ==
    /\ At("publish") /\ UNCHANGED row
    /\ \/ Occupied(rec) /\ Go("exists") /\ UNCHANGED <<final, partial>>
       \/ /\ ~Occupied(rec) /\ final' = [final EXCEPT ![rec] = partial[rec]]
          /\ \/ /\ platform = "nt" /\ Go("recheck")
                /\ partial' = [partial EXCEPT ![rec] = None]
             \/ platform = "posix" /\ Go("unlink") /\ UNCHANGED partial
    /\ Keep /\ NoFault

(* A failing unlink withdraws the final file, if that can be removed.       *)
UnlinkPartial ==
    /\ At("unlink") /\ UNCHANGED row
    /\ \/ /\ partial' = [partial EXCEPT ![rec] = None] /\ Go("recheck")
          /\ UNCHANGED final /\ NoFault
       \/ /\ Fault /\ Raise /\ UNCHANGED partial
          /\ \E f \in {None, final[rec]} : final' = [final EXCEPT ![rec] = f]
    /\ Keep

FileExists ==
    /\ At("exists") /\ partial' = [partial EXCEPT ![rec] = None]
    /\ \/ Matches /\ Go("record")
       \/ Differs /\ Go("mark")
    /\ UNCHANGED <<row, final>> /\ Keep

RecordConflict ==
    /\ At("mark") /\ MarkConflict /\ NextAfterConflict
    /\ UNCHANGED <<final, partial>> /\ Keep /\ NoFault

(* The published file is read again before the row says SYNCED.             *)
Recheck ==
    /\ At("recheck")
    /\ \/ Matches /\ Go("record")
       \/ Differs /\ Raise
    /\ Same /\ Keep

RecordSynced ==
    /\ At("record") /\ WriteSynced /\ NextRecording
    /\ UNCHANGED <<final, partial>> /\ Keep /\ NoFault

Summarise ==
    /\ At("row") /\ sync.todo = <<>> /\ Go("done")
    /\ Same /\ Keep /\ NoFault

(* Any read, write, hash, rename, unlink or SQL statement may raise.        *)
SyncRaises ==
    /\ sync.at \in {"inspect", "preflight", "row", "final", "tidy", "open",
                    "copy", "publish", "exists", "mark", "recheck", "record"}
    /\ Raise /\ Fault /\ Same /\ Keep

SyncStep ==
    \/ Inspect \/ Preflight \/ CheckRow \/ CheckFinal \/ Tidy \/ OpenFresh
    \/ CopyChunk \/ VerifyCopy \/ SourceLost \/ Publish \/ UnlinkPartial
    \/ FileExists \/ RecordConflict \/ Recheck \/ RecordSynced \/ Summarise

(* Somebody else puts a file where a recording would be published: another  *)
(* program's, or a copy of the recording made by hand.                      *)
PlaceFile(r, f) ==
    /\ final[r] = None
    /\ Cardinality({q \in Recordings : placed[q] # None}) < MaxForeign
    /\ final' = [final EXCEPT ![r] = f] /\ placed' = [placed EXCEPT ![r] = f]
    /\ UNCHANGED <<platform, bus, row, partial, sync, faults>>

-----------------------------------------------------------------------------
(* Every recording of the manifest of d is in the library and recorded so.  *)
Synced(d) ==
    \A k \in 1..Len(Holds[d]) :
        LET r == Holds[d][k] IN row[r] = [dev |-> d, status |-> "SYNCED"]
                                /\ final[r] = Whole(d)

SyncPoints == {"out", "done", "failed", "unlink", "inspect", "preflight", "row",
               "final", "tidy", "open", "copy", "publish", "exists", "mark",
               "recheck", "record"}

SyncTypeOK ==
    /\ platform \in {"nt", "posix"}
    /\ bus \in [present : SUBSET Devices, letter : Devices \cup {None},
                com : Devices \cup {None}]
    /\ row \in [Recordings -> Rows \cup {None}]
    /\ final \in [Recordings -> Files \cup {None}]
    /\ partial \in [Recordings -> Files \cup {None}]
    /\ placed \in [Recordings -> Files \cup {None}]
    /\ sync \in [at : SyncPoints, dev : Devices \cup {None}, src : Devices \cup {None},
                 todo : Seq(Recordings), conflicts : Nat]
    /\ sync.dev # None =>
           sync.conflicts + Len(sync.todo) <= Len(Holds[sync.dev])
    /\ faults \in 0..MaxFault

(* pc/README.md, "The DB is marked SYNCED only after the final file exists  *)
(* and passes size/SHA-256 verification": a row that says SYNCED has its    *)
(* device's bytes at the final path, whatever was unplugged, swapped,       *)
(* misread or killed, and "remains byte-for-byte unchanged": a file others  *)
(* put there, before the check or between the check and the publication,    *)
(* is still what they put there.                                            *)
LibraryIsSound ==
    \A r \in Recordings :
        /\ row[r] # None /\ row[r].status = "SYNCED"
               => final[r] = Whole(row[r].dev)
        /\ placed[r] # None => final[r] = placed[r]
=============================================================================
