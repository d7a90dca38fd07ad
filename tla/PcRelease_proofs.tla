--------------------------- MODULE PcRelease_proofs ---------------------------
(***************************************************************************)
(* Proofs about PcSync and PcRelease, for any devices, manifests and        *)
(* numbers of commands, moves, kills and failing calls.                    *)
(***************************************************************************)
EXTENDS PcRelease, Integers, TLAPS

(* Points of sync_device at which it works on the first recording of todo.  *)
OnRecording == {"final", "tidy", "open", "copy", "publish", "unlink", "exists",
                "mark", "recheck", "record"}
Listed == OnRecording \cup {"row", "done"}

IsSynced(r, d) == row[r] = [dev |-> d, status |-> "SYNCED"] /\ final[r] = Whole(d)
Behind == Len(Holds[sync.dev]) - Len(sync.todo)

(* sync_device goes through the manifest of the device it inspected.        *)
TodoIsRest ==
    /\ sync.at \in Listed \cup {"preflight"} => sync.dev \in Devices
    /\ sync.at \in Listed =>
          \A k \in 1..Len(sync.todo) : sync.todo[k] = Holds[sync.dev][Behind + k]
    /\ sync.at \in OnRecording => sync.todo # <<>>
    /\ sync.at = "done" => sync.todo = <<>>
    /\ sync.at \in {"inspect", "preflight"} => sync.conflicts = 0 /\ sync.todo = <<>>

(* What it has established of the recording it works on: an unpublished     *)
(* partial is a file, a published one may be withdrawn because nobody else  *)
(* put it there and no row relies on it, and a row is due to good bytes.    *)
RecordingState ==
    /\ sync.at \in {"copy", "publish"} => partial[rec] # None
    /\ sync.at = "unlink" =>
          /\ placed[rec] = None /\ final[rec] # None
          /\ row[rec] # None => row[rec].status # "SYNCED"
    /\ sync.at = "record" => final[rec] = Whole(sync.dev)
    /\ sync.at = "tidy" => row[rec] = [dev |-> sync.dev, status |-> "SYNCED"]

(* ... and of those behind it.                                              *)
BehindSynced ==
    sync.at \in Listed /\ sync.conflicts = 0 =>
        \A k \in 1..Behind : IsSynced(Holds[sync.dev][k], sync.dev)

Library == TodoIsRest /\ RecordingState /\ BehindSynced /\ LibraryIsSound

-----------------------------------------------------------------------------
Copied == {"hooks", "resolve", "identity", "topology", "endpoint", "available",
           "seal", "drain", "lock", "bound", "before", "open", "after", "write",
           "reply", "pollDisk", "pollMount", "deadline"}
Resolved == Copied \ {"hooks", "resolve"}
Compared == Resolved \ {"identity", "topology"}
Frozen == Compared \ {"endpoint"}
Sent == {"reply", "pollDisk", "pollMount", "deadline"}
Granted == {"pollDisk", "pollMount", "deadline"}

(* The letter and the COM name are those of devices that are there, and one *)
(* that is away has no request before it.                                   *)
BusIsTrue ==
    /\ {bus.letter, bus.com} \subseteq bus.present \cup {None}
    /\ \A d \in Devices : d \notin bus.present =>
          cdc[d].req = None /\ cdc[d].reply = None /\ accepted[d] \subseteq gone

(* The program point and the rest of the command.                           *)
CommandState ==
    /\ cli.pc # "sync" => sync.at = "out"
    /\ outcome # None => cli.pc = "idle" /\ runs \in Attempts
    /\ cli.pc # "idle" => runs \in Attempts
    /\ cli.pc \in Copied \cup {"id"} => cli.mode = "release"
    /\ cli.pc = "sync" => cli.mode # "none"

(* The readings of the drive letter.  As long as it was given away n times  *)
(* only, the device x that had it after the n-th time is the last reading.  *)
PassedOn(e) == LetterWentRound \/ (swaps = 1 /\ bus.letter # e)
Held(x, n) == swaps >= n /\ (swaps = n => bus.letter \in {x, None})
Readings ==
    LET e == cli.expected IN
    cli.pc # "idle" /\ cli.mode = "release" =>
        /\ cli.pc # "id" => e \in Devices /\ Held(e, 0)
        /\ cli.pc # "id" /\ sync.dev \notin {e, None} => PassedOn(e)
        /\ cli.pc \in Copied => Synced(e) \/ PassedOn(e)
        /\ cli.pc \in Resolved => cli.target \in Devices
        /\ cli.pc \in Resolved /\ cli.target # e => Held(cli.target, 1)
        /\ cli.pc \in Compared \cup {"topology"} => Synced(e) \/ LetterWentRound
        /\ cli.pc \in Compared \cup {"topology"} /\ cli.target # e => Held(e, 2)
        /\ cli.pc \in Compared /\ cli.target # e => LetterWentOn
        /\ cli.pc \in Frozen => cli.binding = cli.target

(* The gate at each point.                                                  *)
GateState ==
    /\ cli.pc \in {"id", "sync", "hooks", "resolve", "identity", "topology",
                   "endpoint", "available", "seal"} /\ cli.mode = "release"
          => gate.state = "OPEN"
    /\ cli.pc \in {"drain", "lock", "bound", "before", "open", "after", "write"} \cup Sent
          => gate.state # "OPEN"
    /\ cli.pc \in {"lock", "bound", "before", "open", "after", "write"} \cup Sent
          => gate.ordinary = {}

(* The lock, once taken, is lost only with the device, whose coming back is *)
(* noted; an open port is that of a device that has not left since.         *)
HandlesState ==
    /\ cli.pc \in {"bound", "before", "open"} =>
          cli.locked \/ reborn \/ cli.target \notin bus.present
    /\ cli.port => /\ cli.pc \in {"after", "write"} \cup Sent
                   /\ cli.target \in bus.present /\ (cli.locked \/ reborn)

(* Where the current attempt can be: nowhere before it is written, then at  *)
(* the frozen interface only, and what is answered to it is what happened.  *)
Unsent(d) ==
    /\ runs \notin accepted[d] /\ cdc[d].req # runs
    /\ cdc[d].reply # None => cdc[d].reply.id # runs
Bounded(d) ==
    /\ \A i \in Attempts : i \in accepted[d] \/ cdc[d].req = i => i <= runs
    /\ cdc[d].reply # None => cdc[d].reply.id <= runs
Honest(d) ==
    /\ cdc[d].req = runs => /\ runs \notin accepted[d]
                            /\ cdc[d].reply # None => cdc[d].reply.id # runs
    /\ cdc[d].reply # None /\ cdc[d].reply.id = runs =>
          IF cdc[d].reply.ok THEN runs \in accepted[d]
          ELSE runs \notin accepted[d] /\ cdc[d].req # runs
AttemptState ==
    /\ \A d \in Devices : Bounded(d)
    /\ cli.pc \notin Sent \cup {"idle"} => \A d \in Devices : Unsent(d)
    /\ cli.pc \in Sent => \A d \in Devices : d # cli.binding => Unsent(d)
    /\ cli.pc = "reply" => \A d \in Devices : Honest(d)
    /\ cli.pc \in Granted => runs \in accepted[cli.target]
    /\ cli.pc = "pollMount" => runs \in gone

IInv ==
    /\ TypeOK /\ Library /\ BusIsTrue /\ CommandState /\ Readings /\ GateState
    /\ HandlesState /\ AttemptState /\ ReasonIsTrue

-----------------------------------------------------------------------------
(* The recording sync_device works on is one.                               *)
LEMMA RecType ==
    ASSUME IInv, sync.todo # <<>>
    PROVE  /\ rec \in Recordings /\ Tail(sync.todo) \in Seq(Recordings)
           /\ Len(Tail(sync.todo)) = Len(sync.todo) - 1 /\ Len(sync.todo) \in Nat
           /\ Len(sync.todo) > 0
<1>1. sync.todo \in Seq(Recordings)
  BY DEF IInv, TypeOK, SyncTypeOK
<1>. QED BY <1>1 DEF rec

LEMMA HoldsType ==
    ASSUME NEW d \in Devices
    PROVE  Holds[d] \in Seq(Recordings) /\ Len(Holds[d]) \in Nat
<1>1. Holds[d] \in Seq(Recordings)
  BY SyncAssumption
<1>. QED BY <1>1

(* Each step of sync_device, as what it does to its locals.                 *)
SyncMoves ==
    \/ \E p \in OnRecording :
          /\ sync.todo # <<>> /\ sync.at \in OnRecording \cup {"row"}
          /\ sync' = [sync EXCEPT !.at = p]
    \/ At("row") /\ sync.todo = <<>> /\ sync' = [sync EXCEPT !.at = "done"]
    \/ sync' = [sync EXCEPT !.at = "failed", !.src = None]
    \/ At("copy") /\ sync' = [sync EXCEPT !.at = "publish", !.src = None]
    \/ /\ sync.todo # <<>> /\ sync.at \in OnRecording \cup {"row"}
       /\ NextRecording \/ NextAfterConflict
    \/ At("open") /\ bus.letter # None
       /\ sync' = [sync EXCEPT !.at = "copy", !.src = bus.letter]
    \/ At("inspect") /\ bus.letter # None
       /\ sync' = [sync EXCEPT !.at = "preflight", !.dev = bus.letter]
    \/ At("preflight") /\ bus.letter = sync.dev
       /\ sync' = [sync EXCEPT !.at = "row", !.todo = Holds[bus.letter]]

LEMMA SyncLocals == ASSUME IInv, SyncStep \/ SyncRaises PROVE SyncMoves \/ sync' = sync
<1>. USE DEF Go, Raise, At, mount, SyncMoves
<1>0. sync.at \in OnRecording => sync.todo # <<>>
  BY DEF IInv, Library, TodoIsRest
<1>1. SyncRaises \/ Inspect \/ Preflight \/ OpenFresh \/ VerifyCopy \/ SourceLost => SyncMoves
  BY DEF SyncRaises, Inspect, Preflight, OpenFresh, VerifyCopy, SourceLost, HasSource
<1>2. CheckRow \/ Tidy \/ RecordConflict \/ RecordSynced => SyncMoves
  BY <1>0 DEF CheckRow, Tidy, RecordConflict, RecordSynced, OnRecording
<1>3. CheckFinal => SyncMoves
  BY <1>0 DEF CheckFinal, OnRecording
<1>4. Publish \/ UnlinkPartial \/ FileExists \/ Recheck \/ Summarise => SyncMoves
  BY <1>0 DEF Publish, UnlinkPartial, FileExists, Recheck, Summarise, OnRecording
<1>5. CopyChunk => sync' = sync
  BY DEF CopyChunk
<1>. QED BY <1>1, <1>2, <1>3, <1>4, <1>5 DEF SyncStep

(* ... to the rows, to the final files and to the partial ones.             *)
LEMMA RowMoves ==
    ASSUME IInv, SyncStep \/ SyncRaises
    PROVE  \/ row' = row
           \/ /\ sync.todo # <<>> /\ sync.dev \in Devices
              /\ final[rec] = Whole(sync.dev) /\ WriteSynced
           \/ /\ sync.todo # <<>> /\ sync.dev \in Devices
              /\ NextAfterConflict /\ MarkConflict
<1>0. sync.at \in OnRecording => sync.todo # <<>>
  BY DEF IInv, Library, TodoIsRest
<1>1. sync.at = "record" => final[rec] = Whole(sync.dev)
  BY DEF IInv, Library, RecordingState
<1>d. sync.at \in Listed => sync.dev \in Devices
  BY DEF IInv, Library, TodoIsRest
<1>. USE DEF At, Same, Listed
<1>2. CASE CheckRow
  BY <1>2, <1>d DEF CheckRow
<1>3. CASE CheckFinal
  BY <1>0, <1>d, <1>3 DEF CheckFinal, OnRecording, Matches, FileMatches
<1>4. CASE RecordConflict \/ RecordSynced
  BY <1>0, <1>1, <1>d, <1>4 DEF RecordConflict, RecordSynced, OnRecording
<1>5. CheckRow \/ CheckFinal \/ RecordConflict \/ RecordSynced \/ row' = row
  BY DEF SyncStep, SyncRaises, Inspect, Preflight, Tidy, OpenFresh, CopyChunk,
     VerifyCopy, SourceLost, Publish, UnlinkPartial, FileExists, Recheck, Summarise
<1>. QED BY <1>2, <1>3, <1>4, <1>5

LEMMA FinalMoves ==
    ASSUME SyncStep \/ SyncRaises
    PROVE  \/ final' = final
           \/ /\ At("publish") /\ final[rec] = None /\ row' = row
              /\ final' = [final EXCEPT ![rec] = partial[rec]]
           \/ /\ At("unlink") /\ Raise /\ row' = row
              /\ final' = [final EXCEPT ![rec] = None]
           \/ /\ At("unlink") /\ Raise /\ row' = row
              /\ final' = [final EXCEPT ![rec] = final[rec]]
  BY DEF SyncStep, SyncRaises, Inspect, Preflight, CheckRow, CheckFinal, Tidy, OpenFresh,
     CopyChunk, VerifyCopy, SourceLost, Publish, UnlinkPartial, FileExists,
     RecordConflict, Recheck, RecordSynced, Summarise, Same, Occupied

LEMMA PartialMoves ==
    ASSUME SyncStep \/ SyncRaises
    PROVE  \/ partial' = partial
           \/ sync.at \in OnRecording /\ partial' = [partial EXCEPT ![rec] = None]
           \/ /\ At("open") /\ bus.letter # None
              /\ partial' = [partial EXCEPT ![rec] = [by |-> bus.letter, n |-> 0]]
           \/ /\ At("copy") /\ partial[rec].n < Chunks
              /\ \E by \in {partial[rec].by, Foreign} :
                    partial' = [partial EXCEPT ![rec] = [by |-> by, n |-> @.n + 1]]
  BY DEF SyncStep, SyncRaises, Inspect, Preflight, CheckRow, CheckFinal, Tidy, OpenFresh,
     CopyChunk, VerifyCopy, SourceLost, Publish, UnlinkPartial, FileExists,
     RecordConflict, Recheck, RecordSynced, Summarise, Same, HasSource, mount, At,
     OnRecording

LEMMA SyncFrame ==
    ASSUME SyncStep \/ SyncRaises
    PROVE  /\ UNCHANGED <<platform, bus, placed>>
           /\ faults' = faults \/ Fault
  BY DEF SyncStep, SyncRaises, Inspect, Preflight, CheckRow, CheckFinal, Tidy, OpenFresh,
     CopyChunk, VerifyCopy, SourceLost, Publish, UnlinkPartial, FileExists,
     RecordConflict, Recheck, RecordSynced, Summarise, Keep, NoFault, Matches, Differs

LEMMA SyncTypeStep == ASSUME IInv, SyncStep \/ SyncRaises PROVE SyncTypeOK'
<1>0. SyncTypeOK
  BY DEF IInv, TypeOK
<1>1. platform' \in {"nt", "posix"} /\ placed' \in [Recordings -> Files \cup {None}]
  BY <1>0, SyncFrame DEF SyncTypeOK
<1>2. bus' \in [present : SUBSET Devices, letter : Devices \cup {None},
                com : Devices \cup {None}]
  BY <1>0, SyncFrame DEF SyncTypeOK
<1>3. faults' \in 0..MaxFault
  BY <1>0, SyncFrame, SyncAssumption DEF SyncTypeOK, Fault
<1>4. row' \in [Recordings -> Rows \cup {None}]
  <2>1. CASE /\ sync.todo # <<>> /\ sync.dev \in Devices
             /\ final[rec] = Whole(sync.dev) /\ WriteSynced
    <3>1. [dev |-> sync.dev, status |-> "SYNCED"] \in Rows
      BY <2>1 DEF Rows
    <3>. QED BY <1>0, <2>1, <3>1, RecType DEF SyncTypeOK, WriteSynced
  <2>2. CASE /\ sync.todo # <<>> /\ sync.dev \in Devices
             /\ NextAfterConflict /\ MarkConflict
    <3>1. row[rec] \in Rows \cup {None} /\ rec \in Recordings
      BY <1>0, <2>2, RecType DEF SyncTypeOK
    <3>2. [dev |-> IF row[rec] = None THEN sync.dev ELSE row[rec].dev,
           status |-> "CONFLICT"] \in Rows
      BY <2>2, <3>1 DEF Rows
    <3>. QED BY <1>0, <2>2, <3>1, <3>2 DEF SyncTypeOK, MarkConflict
  <2>. QED BY <1>0, <2>1, <2>2, RowMoves DEF SyncTypeOK
<1>5. partial' \in [Recordings -> Files \cup {None}]
  <2>0. sync.at \in OnRecording => rec \in Recordings /\ partial[rec] \in Files \cup {None}
    BY <1>0, RecType DEF IInv, Library, TodoIsRest, SyncTypeOK
  <2>1. CASE At("open") /\ bus.letter # None
             /\ partial' = [partial EXCEPT ![rec] = [by |-> bus.letter, n |-> 0]]
    <3>1. [by |-> bus.letter, n |-> 0] \in Files
      BY <1>0, <2>1, SyncAssumption DEF SyncTypeOK, Files
    <3>. QED BY <1>0, <2>0, <2>1, <3>1 DEF SyncTypeOK, At, OnRecording
  <2>2. ASSUME At("copy"), partial[rec].n < Chunks, NEW by \in {partial[rec].by, Foreign},
               partial' = [partial EXCEPT ![rec] = [by |-> by, n |-> @.n + 1]]
        PROVE  partial' \in [Recordings -> Files \cup {None}]
    <3>1. partial[rec] \in Files
      BY <2>0, <2>2 DEF At, OnRecording, IInv, Library, RecordingState
    <3>2. [by |-> by, n |-> partial[rec].n + 1] \in Files
      BY <2>2, <3>1, SyncAssumption DEF Files
    <3>. QED BY <1>0, <2>0, <2>2, <3>2 DEF SyncTypeOK, At, OnRecording
  <2>4. CASE partial' = partial \/ (sync.at \in OnRecording /\ partial' = [partial EXCEPT ![rec] = None])
    BY <1>0, <2>0, <2>4 DEF SyncTypeOK
  <2>. QED BY <2>1, <2>2, <2>4, PartialMoves
<1>6. final' \in [Recordings -> Files \cup {None}]
  <2>0. sync.at \in OnRecording =>
          /\ rec \in Recordings /\ partial[rec] \in Files \cup {None}
          /\ final[rec] \in Files \cup {None}
    BY <1>0, RecType DEF IInv, Library, TodoIsRest, SyncTypeOK
  <2>. QED BY <1>0, <2>0, FinalMoves DEF SyncTypeOK, At, OnRecording
<1>7. sync' \in [at : SyncPoints, dev : Devices \cup {None}, src : Devices \cup {None},
                 todo : Seq(Recordings), conflicts : Nat]
  <2>1. /\ sync \in [at : SyncPoints, dev : Devices \cup {None}, src : Devices \cup {None},
                     todo : Seq(Recordings), conflicts : Nat]
        /\ bus.letter \in Devices \cup {None}
    BY <1>0 DEF SyncTypeOK
  <2>2. bus.letter # None => Holds[bus.letter] \in Seq(Recordings)
    BY <2>1, HoldsType
  <2>3. sync.todo # <<>> => Tail(sync.todo) \in Seq(Recordings)
    BY RecType
  <2>4. CASE sync.todo # <<>> /\ (NextRecording \/ NextAfterConflict)
    <3>1. sync.conflicts + 1 \in Nat
      BY <2>1
    <3>2. CASE NextRecording
      BY <2>1, <2>3, <2>4, <3>2 DEF NextRecording, SyncPoints
    <3>3. CASE NextAfterConflict
      BY <2>1, <2>3, <2>4, <3>1, <3>3 DEF NextAfterConflict, SyncPoints
    <3>. QED BY <2>4, <3>2, <3>3
  <2>5. CASE At("preflight") /\ bus.letter = sync.dev
             /\ sync' = [sync EXCEPT !.at = "row", !.todo = Holds[bus.letter]]
    <3>1. sync.dev \in Devices
      BY <2>5 DEF IInv, Library, TodoIsRest, At
    <3>2. Holds[bus.letter] \in Seq(Recordings)
      BY <2>5, <3>1, HoldsType
    <3>. QED BY <2>1, <2>5, <3>2 DEF SyncPoints
  <2>. QED BY <2>1, <2>4, <2>5, SyncLocals, ZenonT(60) DEF SyncMoves, SyncPoints, OnRecording
<1>8. sync'.dev # None => sync'.conflicts + Len(sync'.todo) <= Len(Holds[sync'.dev])
  <2>1. /\ sync \in [at : SyncPoints, dev : Devices \cup {None}, src : Devices \cup {None},
                     todo : Seq(Recordings), conflicts : Nat]
        /\ bus.letter \in Devices \cup {None}
        /\ sync.dev # None => sync.conflicts + Len(sync.todo) <= Len(Holds[sync.dev])
    BY <1>0 DEF SyncTypeOK
  <2>2. \A d \in Devices : Len(Holds[d]) \in Nat
    BY HoldsType
  <2>3. CASE sync.todo # <<>> /\ (NextRecording \/ NextAfterConflict)
    <3>1. /\ sync'.dev = sync.dev /\ sync'.todo = Tail(sync.todo)
          /\ sync'.conflicts \in {sync.conflicts, sync.conflicts + 1}
      BY <2>1, <2>3 DEF NextRecording, NextAfterConflict
    <3>2. Len(Tail(sync.todo)) = Len(sync.todo) - 1 /\ Len(sync.todo) \in Nat
      BY <2>3, RecType
    <3>3. Len(sync'.todo) = Len(sync.todo) - 1
      BY <3>1, <3>2
    <3>4. ASSUME sync.dev # None
          PROVE  /\ Len(Holds[sync'.dev]) = Len(Holds[sync.dev])
                 /\ Len(Holds[sync.dev]) \in Nat /\ sync.conflicts \in Nat
                 /\ sync.conflicts + Len(sync.todo) <= Len(Holds[sync.dev])
      BY <2>1, <2>2, <3>1, <3>4
    <3>. HIDE <2>3
    <3>. QED BY <3>1, <3>2, <3>3, <3>4, SMTT(30)
  <2>4. CASE At("preflight") /\ bus.letter = sync.dev
             /\ sync' = [sync EXCEPT !.at = "row", !.todo = Holds[bus.letter]]
    <3>1. sync.conflicts = 0 /\ sync.dev \in Devices
      BY <2>4 DEF IInv, Library, TodoIsRest, At
    <3>. QED BY <2>1, <2>2, <2>4, <3>1
  <2>5. CASE At("inspect") /\ bus.letter # None
             /\ sync' = [sync EXCEPT !.at = "preflight", !.dev = bus.letter]
    <3>1. sync.conflicts = 0 /\ sync.todo = <<>>
      BY <2>5 DEF IInv, Library, TodoIsRest, At
    <3>2. sync'.dev = bus.letter /\ sync'.conflicts = 0 /\ sync'.todo = <<>>
      BY <2>1, <2>5, <3>1
    <3>3. Len(sync'.todo) = 0
      BY <3>2
    <3>4. Len(Holds[sync'.dev]) \in Nat
      BY <2>1, <2>2, <2>5, <3>2
    <3>. QED BY <3>2, <3>3, <3>4
  <2>. QED BY <2>1, <2>3, <2>4, <2>5, SyncLocals DEF SyncMoves
<1>. QED BY <1>1, <1>2, <1>3, <1>4, <1>5, <1>6, <1>7, <1>8 DEF SyncTypeOK

LEMMA WholeIsFile == \A d \in Devices : Whole(d) \in Files /\ Whole(d) # None
  BY SyncAssumption DEF Whole, Files

(* No step of sync_device makes the library unsound.                        *)
LEMMA SoundStep == ASSUME IInv, SyncStep \/ SyncRaises PROVE LibraryIsSound'
<1>. SUFFICES ASSUME NEW r \in Recordings
              PROVE  /\ row'[r] # None /\ row'[r].status = "SYNCED"
                            => final'[r] = Whole(row'[r].dev)
                     /\ placed'[r] # None => final'[r] = placed'[r]
  BY DEF LibraryIsSound
<1>0. /\ row[r] # None /\ row[r].status = "SYNCED"
            => row[r].dev \in Devices /\ final[r] = Whole(row[r].dev) /\ final[r] # None
      /\ placed[r] # None => final[r] = placed[r]
  <2>1. row[r] \in Rows \cup {None}
    BY DEF IInv, TypeOK, SyncTypeOK
  <2>2. row[r] # None => row[r].dev \in Devices
    BY <2>1 DEF Rows
  <2>. QED BY <2>2, WholeIsFile DEF IInv, Library, LibraryIsSound
<1>1. placed' = placed
  BY SyncFrame
<1>2. /\ final \in [Recordings -> Files \cup {None}]
      /\ row \in [Recordings -> Rows \cup {None}]
  BY DEF IInv, TypeOK, SyncTypeOK
<1>3. At("publish") \/ At("unlink") => rec \in Recordings
  BY RecType DEF IInv, Library, TodoIsRest, OnRecording, At
<1>4. CASE final' = final
  <2>1. CASE sync.todo # <<>> /\ final[rec] = Whole(sync.dev) /\ WriteSynced
    <3>1. rec \in Recordings
      BY <2>1, RecType
    <3>. QED BY <1>0, <1>1, <1>2, <1>4, <2>1, <3>1 DEF WriteSynced
  <2>2. CASE sync.todo # <<>> /\ MarkConflict
    <3>1. rec \in Recordings
      BY <2>2, RecType
    <3>. QED BY <1>0, <1>1, <1>2, <1>4, <2>2, <3>1 DEF MarkConflict
  <2>. QED BY <1>0, <1>1, <1>4, <2>1, <2>2, RowMoves
<1>5. CASE At("publish") /\ final[rec] = None /\ row' = row
           /\ final' = [final EXCEPT ![rec] = partial[rec]]
  BY <1>0, <1>1, <1>2, <1>3, <1>5
<1>6. CASE At("unlink") /\ row' = row /\ final' = [final EXCEPT ![rec] = None]
  <2>1. /\ placed[rec] = None
        /\ row[rec] # None => row[rec].status # "SYNCED"
    BY <1>6 DEF IInv, Library, RecordingState, At
  <2>. QED BY <1>0, <1>1, <1>2, <1>3, <1>6, <2>1
<1>7. CASE At("unlink") /\ row' = row /\ final' = [final EXCEPT ![rec] = final[rec]]
  BY <1>0, <1>1, <1>2, <1>3, <1>7
<1>. QED BY <1>4, <1>5, <1>6, <1>7, FinalMoves

(* It goes through the manifest in its order.                               *)
LEMMA TodoStep == ASSUME IInv, SyncStep \/ SyncRaises PROVE TodoIsRest'
<1>1. /\ sync \in [at : SyncPoints, dev : Devices \cup {None}, src : Devices \cup {None},
                   todo : Seq(Recordings), conflicts : Nat]
      /\ bus.letter \in Devices \cup {None}
  BY DEF IInv, TypeOK, SyncTypeOK
<1>2. TodoIsRest
  BY DEF IInv, Library
<1>3. CASE \E p \in OnRecording : /\ sync.todo # <<>> /\ sync.at \in OnRecording \cup {"row"}
                                 /\ sync' = [sync EXCEPT !.at = p]
  <2>. PICK p \in OnRecording : /\ sync.todo # <<>> /\ sync.at \in OnRecording \cup {"row"}
                               /\ sync' = [sync EXCEPT !.at = p]
    BY <1>3
  <2>1. /\ sync'.at = p /\ sync'.dev = sync.dev /\ sync'.todo = sync.todo
        /\ p \notin {"done", "inspect", "preflight"} /\ sync.at \in Listed
    BY <1>1 DEF OnRecording, Listed
  <2>. QED BY <1>2, <2>1 DEF TodoIsRest, Behind
<1>4. CASE At("row") /\ sync.todo = <<>> /\ sync' = [sync EXCEPT !.at = "done"]
  <2>1. /\ sync'.at = "done" /\ sync'.dev = sync.dev /\ sync'.todo = sync.todo
        /\ sync'.at \notin OnRecording /\ sync.at \in Listed
    BY <1>1, <1>4 DEF OnRecording, Listed, At
  <2>. QED BY <1>2, <1>4, <2>1 DEF TodoIsRest, Behind
<1>5. CASE sync' = [sync EXCEPT !.at = "failed", !.src = None]
  BY <1>1, <1>5 DEF TodoIsRest, OnRecording, Listed
<1>6. CASE At("copy") /\ sync' = [sync EXCEPT !.at = "publish", !.src = None]
  <2>1. /\ sync'.at = "publish" /\ sync'.dev = sync.dev /\ sync'.todo = sync.todo
        /\ sync.at \in OnRecording /\ sync.at \in Listed
    BY <1>1, <1>6 DEF OnRecording, Listed, At
  <2>. QED BY <1>2, <1>6, <2>1 DEF TodoIsRest, Behind
<1>7. CASE At("open") /\ bus.letter # None
           /\ sync' = [sync EXCEPT !.at = "copy", !.src = bus.letter]
  <2>1. /\ sync'.at = "copy" /\ sync'.dev = sync.dev /\ sync'.todo = sync.todo
        /\ sync.at \in OnRecording /\ sync.at \in Listed
    BY <1>1, <1>7 DEF OnRecording, Listed, At
  <2>. QED BY <1>2, <1>7, <2>1 DEF TodoIsRest, Behind
<1>8. CASE At("inspect") /\ bus.letter # None
           /\ sync' = [sync EXCEPT !.at = "preflight", !.dev = bus.letter]
  <2>1. /\ sync'.at = "preflight" /\ sync'.dev = bus.letter /\ sync'.todo = sync.todo
        /\ sync'.conflicts = sync.conflicts /\ sync'.at \notin Listed \cup OnRecording
    BY <1>1, <1>8 DEF OnRecording, Listed
  <2>. QED BY <1>1, <1>2, <1>8, <2>1 DEF TodoIsRest, At
<1>9. CASE At("preflight") /\ bus.letter = sync.dev
           /\ sync' = [sync EXCEPT !.at = "row", !.todo = Holds[bus.letter]]
  <2>1. /\ sync'.at = "row" /\ sync'.dev = sync.dev /\ sync'.todo = Holds[sync.dev]
        /\ sync'.at \notin OnRecording /\ sync.dev \in Devices
    BY <1>1, <1>2, <1>9 DEF OnRecording, TodoIsRest, At
  <2>2. Len(Holds[sync.dev]) \in Nat
    BY <2>1, HoldsType
  <2>. QED BY <2>1, <2>2 DEF TodoIsRest, Behind
<1>10. CASE /\ sync.todo # <<>> /\ sync.at \in OnRecording \cup {"row"}
            /\ NextRecording \/ NextAfterConflict
  <2>1. /\ sync'.at = "row" /\ sync'.dev = sync.dev /\ sync'.todo = Tail(sync.todo)
        /\ sync'.at \notin OnRecording /\ sync.at \in Listed
    BY <1>1, <1>10 DEF OnRecording, Listed, NextRecording, NextAfterConflict
  <2>2. /\ sync.dev \in Devices
        /\ \A k \in 1..Len(sync.todo) : sync.todo[k] = Holds[sync.dev][Behind + k]
    BY <1>2, <2>1 DEF TodoIsRest
  <2>3. /\ Len(sync.todo) \in Nat \ {0} /\ Len(Tail(sync.todo)) = Len(sync.todo) - 1
        /\ \A k \in 1..(Len(sync.todo) - 1) : Tail(sync.todo)[k] = sync.todo[k + 1]
    BY <1>1, <1>10
  <2>4. Len(Holds[sync.dev]) \in Nat
    BY <2>2, HoldsType
  <2>5. Behind' = Behind + 1 /\ Behind \in Int
    <3>1. /\ Len(sync'.todo) = Len(sync.todo) - 1
          /\ Len(Holds[sync'.dev]) = Len(Holds[sync.dev])
      BY <2>1, <2>3
    <3>. HIDE <1>10
    <3>. QED BY <2>3, <2>4, <3>1 DEF Behind
  <2>6. ASSUME NEW k \in 1..Len(sync'.todo)
        PROVE  sync'.todo[k] = Holds[sync'.dev][Behind' + k]
    <3>1. k \in 1..(Len(sync.todo) - 1) /\ k + 1 \in 1..Len(sync.todo)
      BY <2>1, <2>3
    <3>2. sync'.todo[k] = sync.todo[k + 1]
      BY <2>1, <2>3, <3>1
    <3>3. Behind' + k = Behind + (k + 1)
      BY <2>5, <3>1
    <3>. QED BY <2>1, <2>2, <3>1, <3>2, <3>3
  <2>. QED BY <2>1, <2>2, <2>6 DEF TodoIsRest
<1>11. CASE sync' = sync
  BY <1>2, <1>11 DEF TodoIsRest, Behind
<1>. QED BY <1>3, <1>4, <1>5, <1>6, <1>7, <1>8, <1>9, <1>10, <1>11, SyncLocals DEF SyncMoves

(* It knows of the recording it works on what RecordingState says.          *)
LEMMA RecordingStep == ASSUME IInv, SyncStep \/ SyncRaises PROVE RecordingState'
<1>. USE DEF At, Go, Raise, NextRecording, NextAfterConflict
<1>0. /\ sync \in [at : SyncPoints, dev : Devices \cup {None}, src : Devices \cup {None},
                   todo : Seq(Recordings), conflicts : Nat]
      /\ partial \in [Recordings -> Files \cup {None}]
      /\ final \in [Recordings -> Files \cup {None}]
      /\ row \in [Recordings -> Rows \cup {None}]
      /\ bus.letter \in Devices \cup {None}
  BY DEF IInv, TypeOK, SyncTypeOK
<1>1. sync.at \in OnRecording => rec \in Recordings /\ sync.dev \in Devices
  BY RecType DEF IInv, Library, TodoIsRest, Listed
<1>2. sync'.todo = sync.todo => rec' = rec
  BY DEF rec
<1>3. sync'.at \in {"copy", "publish"} => partial'[rec'] # None
  <2>1. CASE OpenFresh
    <3>1. bus.letter # None => [by |-> bus.letter, n |-> 0] \in Files
      BY <1>0, SyncAssumption DEF Files
    <3>2. sync'.at = "copy" => /\ sync'.todo = sync.todo /\ bus.letter # None
                              /\ partial'[rec] = [by |-> bus.letter, n |-> 0]
      BY <1>0, <1>1, <2>1 DEF OpenFresh, HasSource, mount, OnRecording
    <3>3. sync'.at # "publish"
      BY <1>0, <2>1 DEF OpenFresh
    <3>. QED BY <1>2, <3>1, <3>2, <3>3, SyncAssumption
  <2>2. CASE CopyChunk
    <3>1. partial[rec] \in Files /\ rec \in Recordings
      BY <1>0, <1>1, <2>2 DEF CopyChunk, OnRecording, IInv, Library, RecordingState
    <3>2. PICK by \in {partial[rec].by, Foreign} :
             partial' = [partial EXCEPT ![rec] = [by |-> by, n |-> @.n + 1]]
      BY <2>2 DEF CopyChunk
    <3>3. [by |-> by, n |-> partial[rec].n + 1] \in Files
      BY <2>2, <3>1, SyncAssumption DEF Files, CopyChunk
    <3>4. partial'[rec] # None /\ sync' = sync
      BY <1>0, <2>2, <3>1, <3>2, <3>3, SyncAssumption DEF CopyChunk
    <3>. QED BY <1>2, <3>4
  <2>3. CASE VerifyCopy
    <3>1. partial[rec] # None /\ partial' = partial
      BY <2>3 DEF VerifyCopy, Same, IInv, Library, RecordingState
    <3>2. sync'.todo = sync.todo
      BY <1>0, <2>3 DEF VerifyCopy
    <3>. QED BY <1>2, <3>1, <3>2
  <2>4. sync'.at \in {"copy", "publish"} => OpenFresh \/ CopyChunk \/ VerifyCopy
    BY <1>0 DEF SyncStep, SyncRaises, Inspect, Preflight, CheckRow, CheckFinal, Tidy,
       SourceLost, Publish, UnlinkPartial, FileExists, RecordConflict, Recheck,
       RecordSynced, Summarise
  <2>. QED BY <2>1, <2>2, <2>3, <2>4
<1>4. sync'.at = "unlink" =>
          /\ placed'[rec'] = None /\ final'[rec'] # None
          /\ row'[rec'] # None => row'[rec'].status # "SYNCED"
  <2>1. sync'.at = "unlink" =>
           /\ At("publish") /\ final[rec] = None /\ sync'.todo = sync.todo
           /\ final' = [final EXCEPT ![rec] = partial[rec]]
           /\ row' = row /\ placed' = placed
    BY <1>0 DEF SyncStep, SyncRaises, Inspect, Preflight, CheckRow, CheckFinal, Tidy,
       SourceLost, Publish, UnlinkPartial, FileExists, RecordConflict, Recheck,
       RecordSynced, Summarise, OpenFresh, CopyChunk, VerifyCopy, Keep, Occupied
  <2>. SUFFICES ASSUME sync'.at = "unlink" PROVE
          /\ placed'[rec'] = None /\ final'[rec'] # None
          /\ row'[rec'] # None => row'[rec'].status # "SYNCED"
    OBVIOUS
  <2>2. rec' = rec /\ rec \in Recordings /\ partial[rec] # None
    BY <1>1, <1>2, <2>1 DEF OnRecording, IInv, Library, RecordingState
  <2>3. final'[rec'] # None
    BY <1>0, <2>1, <2>2
  <2>4. LibraryIsSound
    BY DEF IInv, Library
  <2>5. row[rec] # None => row[rec].dev \in Devices
    BY <1>0, <2>2 DEF Rows
  <2>6. /\ placed[rec] = None
        /\ row[rec] # None => row[rec].status # "SYNCED"
    BY <2>1, <2>2, <2>4, <2>5, WholeIsFile DEF LibraryIsSound
  <2>. QED BY <2>1, <2>2, <2>3, <2>6
<1>5. sync'.at = "record" => final'[rec'] = Whole(sync'.dev)
  <2>1. sync'.at = "record" =>
           /\ sync'.todo = sync.todo /\ sync'.dev = sync.dev
           /\ final' = final /\ final[rec] = Whole(sync.dev)
    BY <1>0 DEF SyncStep, SyncRaises, Inspect, Preflight, CheckRow, CheckFinal, Tidy,
       SourceLost, Publish, UnlinkPartial, FileExists, RecordConflict, Recheck,
       RecordSynced, Summarise, OpenFresh, CopyChunk, VerifyCopy, Matches, FileMatches, Same
  <2>2. Whole(sync'.dev) = Whole(sync.dev) \/ sync'.dev # sync.dev
    BY DEF Whole
  <2>. QED BY <1>2, <2>1, <2>2
<1>6. sync'.at = "tidy" => row'[rec'] = [dev |-> sync'.dev, status |-> "SYNCED"]
  <2>1. sync'.at = "tidy" =>
           /\ sync'.todo = sync.todo /\ sync'.dev = sync.dev
           /\ At("final") /\ WriteSynced
    BY <1>0 DEF SyncStep, SyncRaises, Inspect, Preflight, CheckRow, CheckFinal, Tidy,
       SourceLost, Publish, UnlinkPartial, FileExists, RecordConflict, Recheck,
       RecordSynced, Summarise, OpenFresh, CopyChunk, VerifyCopy
  <2>. QED BY <1>0, <1>1, <1>2, <2>1 DEF WriteSynced, OnRecording
<1>. QED BY <1>3, <1>4, <1>5, <1>6 DEF RecordingState

(* A recording once in the library and marked so stays so for the rest of   *)
(* the run, unless the run reports a conflict or fails.                     *)
LEMMA SyncedStays ==
    ASSUME IInv, SyncStep \/ SyncRaises, sync.dev \in Devices,
           NEW r \in Recordings, IsSynced(r, sync.dev)
    PROVE  \/ row'[r] = [dev |-> sync.dev, status |-> "SYNCED"] /\ final'[r] = Whole(sync.dev)
           \/ sync'.conflicts = sync.conflicts + 1 \/ sync'.at = "failed"
<1>0. /\ sync \in [at : SyncPoints, dev : Devices \cup {None}, src : Devices \cup {None},
                   todo : Seq(Recordings), conflicts : Nat]
      /\ final \in [Recordings -> Files \cup {None}]
      /\ row \in [Recordings -> Rows \cup {None}]
  BY DEF IInv, TypeOK, SyncTypeOK
<1>1. /\ row[r] = [dev |-> sync.dev, status |-> "SYNCED"]
      /\ final[r] = Whole(sync.dev) /\ final[r] # None
  BY WholeIsFile DEF IsSynced
<1>2. At("publish") \/ At("unlink") => rec \in Recordings
  BY RecType DEF IInv, Library, TodoIsRest, OnRecording, At
<1>3. final'[r] = Whole(sync.dev) \/ sync'.at = "failed"
  <2>1. Raise => sync'.at = "failed"
    BY <1>0 DEF Raise
  <2>. QED BY <1>0, <1>1, <1>2, <2>1, FinalMoves
<1>4. \/ row'[r] = [dev |-> sync.dev, status |-> "SYNCED"]
      \/ sync'.conflicts = sync.conflicts + 1
  <2>1. NextAfterConflict => sync'.conflicts = sync.conflicts + 1
    BY <1>0 DEF NextAfterConflict
  <2>2. sync.todo # <<>> /\ WriteSynced => row'[r] = [dev |-> sync.dev, status |-> "SYNCED"]
    BY <1>0, <1>1, RecType DEF WriteSynced
  <2>. QED BY <1>1, <2>1, <2>2, RowMoves
<1>. QED BY <1>3, <1>4

(* What becomes the last recording behind is in the library.                *)
LEMMA RecordingDone ==
    ASSUME IInv, Tidy \/ RecordSynced
    PROVE  /\ row'[rec] = [dev |-> sync.dev, status |-> "SYNCED"]
           /\ final'[rec] = Whole(sync.dev)
<1>0. rec \in Recordings /\ sync.dev \in Devices /\ row \in [Recordings -> Rows \cup {None}]
  BY RecType DEF IInv, TypeOK, SyncTypeOK, Library, TodoIsRest, OnRecording, Listed, At,
     Tidy, RecordSynced
<1>1. CASE Tidy
  <2>1. row[rec] = [dev |-> sync.dev, status |-> "SYNCED"] /\ row' = row /\ final' = final
    BY <1>1 DEF Tidy, At, IInv, Library, RecordingState
  <2>2. final[rec] = Whole(row[rec].dev) \/ row[rec] = None
    BY <1>0, <2>1 DEF IInv, Library, LibraryIsSound
  <2>3. row[rec] \in Rows /\ row[rec].dev = sync.dev
    BY <1>0, <2>1 DEF Rows
  <2>. QED BY <2>1, <2>2, <2>3, SyncAssumption
<1>2. CASE RecordSynced
  <2>1. final[rec] = Whole(sync.dev) /\ WriteSynced /\ final' = final
    BY <1>2 DEF RecordSynced, At, IInv, Library, RecordingState
  <2>. QED BY <1>0, <2>1 DEF WriteSynced
<1>. QED BY <1>1, <1>2

LEMMA BehindStep == ASSUME IInv, SyncStep \/ SyncRaises PROVE BehindSynced'
<1>0. /\ sync \in [at : SyncPoints, dev : Devices \cup {None}, src : Devices \cup {None},
                   todo : Seq(Recordings), conflicts : Nat]
      /\ sync.dev # None => sync.conflicts + Len(sync.todo) <= Len(Holds[sync.dev])
  BY DEF IInv, TypeOK, SyncTypeOK
<1>. SUFFICES ASSUME sync'.at \in Listed, sync'.conflicts = 0, NEW k \in 1..Behind'
              PROVE  /\ row'[Holds[sync'.dev][k]] = [dev |-> sync'.dev, status |-> "SYNCED"]
                     /\ final'[Holds[sync'.dev][k]] = Whole(sync'.dev)
  <2>1. Whole(sync.dev)' = Whole(sync'.dev)
    BY DEF Whole
  <2>. QED BY <2>1 DEF BehindSynced, IsSynced
<1>1. sync.at \in Listed => sync.dev \in Devices
  BY DEF IInv, Library, TodoIsRest
<1>2. ASSUME sync.at \in Listed, sync'.dev = sync.dev, sync'.conflicts = sync.conflicts,
             k \in 1..Behind
      PROVE  /\ row'[Holds[sync'.dev][k]] = [dev |-> sync'.dev, status |-> "SYNCED"]
             /\ final'[Holds[sync'.dev][k]] = Whole(sync'.dev)
  <2>1. IsSynced(Holds[sync.dev][k], sync.dev) /\ sync.dev \in Devices
    BY <1>1, <1>2 DEF IInv, Library, BehindSynced
  <2>2. Holds[sync.dev] \in Seq(Recordings) /\ Len(Holds[sync.dev]) \in Nat
    BY <2>1, HoldsType
  <2>3. k \in 1..Len(Holds[sync.dev])
    BY <1>0, <1>2, <2>1, <2>2 DEF Behind
  <2>4. Holds[sync.dev][k] \in Recordings
    BY <2>2, <2>3
  <2>5. sync'.at # "failed" /\ sync'.conflicts # sync.conflicts + 1
    BY <1>0, <1>2 DEF Listed, OnRecording
  <2>. QED BY <1>2, <2>1, <2>4, <2>5, SyncedStays
<1>3. sync'.at = "row" => Preflight \/ NextAfterConflict \/ Tidy \/ RecordSynced
  BY <1>0 DEF SyncStep, SyncRaises, Inspect, CheckRow, CheckFinal, SourceLost, Publish,
     UnlinkPartial, FileExists, RecordConflict, Recheck, Summarise, OpenFresh, CopyChunk,
     VerifyCopy, At, Go, Raise
<1>4. CASE sync'.at = "row" /\ Preflight
  <2>1. /\ sync'.dev = sync.dev /\ sync'.todo = Holds[sync.dev] /\ sync.dev \in Devices
    BY <1>0, <1>4 DEF Preflight, mount, Raise, IInv, Library, TodoIsRest, At
  <2>2. Len(sync'.todo) = Len(Holds[sync'.dev]) /\ Len(Holds[sync'.dev]) \in Nat
    BY <2>1, HoldsType
  <2>3. Behind' = 0
    BY <2>2 DEF Behind
  <2>. QED BY <2>3
<1>5. CASE NextAfterConflict
  BY <1>0, <1>5 DEF NextAfterConflict
<1>6. CASE Tidy \/ RecordSynced
  <2>1. /\ sync'.dev = sync.dev /\ sync'.todo = Tail(sync.todo)
        /\ sync'.conflicts = sync.conflicts /\ sync.at \in OnRecording /\ sync.at \in Listed
    BY <1>0, <1>6 DEF Tidy, RecordSynced, NextRecording, At, OnRecording, Listed
  <2>2. /\ sync.dev \in Devices /\ sync.todo # <<>>
        /\ \A j \in 1..Len(sync.todo) : sync.todo[j] = Holds[sync.dev][Behind + j]
    BY <2>1 DEF IInv, Library, TodoIsRest
  <2>3. /\ Len(sync.todo) \in Nat \ {0} /\ Len(Tail(sync.todo)) = Len(sync.todo) - 1
        /\ rec = sync.todo[1]
    BY <1>0, <2>2 DEF rec
  <2>4. Len(Holds[sync.dev]) \in Nat
    BY <2>2, HoldsType
  <2>5. Behind' = Behind + 1 /\ Behind \in Int
    <3>1. /\ Len(sync'.todo) = Len(sync.todo) - 1
          /\ Len(Holds[sync'.dev]) = Len(Holds[sync.dev])
      BY <2>1, <2>3
    <3>. HIDE <1>6
    <3>. QED BY <2>3, <2>4, <3>1 DEF Behind
  <2>6. k \in 1..Behind \/ k = Behind + 1
    BY <2>5
  <2>7. Holds[sync.dev][Behind + 1] = rec
    BY <2>2, <2>3
  <2>. QED BY <1>2, <1>6, <2>1, <2>6, <2>7, RecordingDone
<1>7. CASE sync'.at # "row"
  <2>1. /\ sync'.dev = sync.dev /\ sync'.todo = sync.todo
        /\ sync'.conflicts = sync.conflicts /\ sync.at \in Listed
    <3>1. SyncMoves \/ sync' = sync
      BY SyncLocals
    <3>. QED BY <1>0, <1>7, <3>1 DEF SyncMoves, NextRecording, NextAfterConflict, At,
                OnRecording, Listed
  <2>2. Behind' = Behind
    BY <2>1 DEF Behind
  <2>. QED BY <1>2, <2>1, <2>2
<1>. QED BY <1>3, <1>4, <1>5, <1>6, <1>7

LEMMA LibraryStep == ASSUME IInv, SyncStep \/ SyncRaises PROVE Library'
  BY SoundStep, TodoStep, RecordingStep, BehindStep DEF Library

-----------------------------------------------------------------------------
USE DEF Pc, To, Wait, KeepSync, Quiet, End, Continue, Lease, Unlease, Check, NoFault,
        mount, library, device, bounds

Actions == <<gate, cli, outcome, device, bounds>>
SyncRuns == Pc("sync") /\ (SyncStep \/ SyncRaises) /\ UNCHANGED Actions
FilePlaced ==
    /\ \E r \in Recordings, d \in Devices \cup {Foreign} : PlaceFile(r, Whole(d))
    /\ UNCHANGED Actions

(* Steps of the command outside sync_device, and of others.                 *)
Steps1 ==
    \/ DeviceId \/ SyncReturns \/ Hooks \/ Resolve \/ Identity \/ Topology \/ Endpoint
    \/ Available \/ Seal \/ Drain \/ DrainTimeout \/ LockAndDismount \/ Bound \/ Before
    \/ OpenPort \/ After \/ NoReply \/ PollDisk \/ PollMount \/ Deadline \/ HooksFail
    \/ ResolveFails \/ LockFails \/ TimeoutsFail \/ PollFails \/ DeadlinePasses
    \/ OtherEnters \/ OtherLeaves
Talks == WriteRequest \/ ReadReply \/ WriteFails \/ Garbled
Starts == (\E m \in {"sync", "release"} : Command(m)) \/ Killed
Moves == \E d \in Devices : DiskGoes(d) \/ Unplug(d) \/ Plug(d)

LEMMA Kinds ==
    ASSUME Next
    PROVE  \/ SyncRuns \/ FilePlaced \/ Steps1 \/ Talks \/ Starts \/ Moves
           \/ \E d \in Devices : Handle(d)
  BY DEF Next, Process, Failing, Steps1, Talks, Starts, Moves, SyncRuns, FilePlaced,
     Actions, Syncing, SyncBreaks

(* What such steps leave of sync_device's state.                            *)
Resets ==
    /\ UNCHANGED <<platform, row, final, partial, placed>>
    /\ \/ UNCHANGED sync \/ sync' = NotSyncing
       \/ sync' = [NotSyncing EXCEPT !.at = "inspect"]
       \/ \E d \in Devices : sync' = [sync EXCEPT !.src = IF @ = d THEN None ELSE @]
    /\ faults' = faults \/ Fault

LEMMA StepsReset == ASSUME Steps1 PROVE Resets /\ bus' = bus /\ UNCHANGED <<device, bounds>>
  BY DEF Steps1, Resets, DeviceId, SyncReturns, Hooks, Resolve, Identity, Topology, Endpoint,
     Available, Seal, Drain, DrainTimeout, LockAndDismount, Bound, Before, OpenPort, After,
     NoReply, PollDisk, PollMount, Deadline, HooksFail, ResolveFails, LockFails,
     TimeoutsFail, PollFails, DeadlinePasses, OtherEnters, OtherLeaves

LEMMA OthersReset ==
    ASSUME Talks \/ Starts \/ Moves \/ \E d \in Devices : Handle(d)
    PROVE  Resets
  BY DEF Resets, Talks, Starts, Moves, WriteRequest, ReadReply, WriteFails, Garbled, Command,
     Killed, DiskGoes, Unplug, Plug, Leave, Handle

LEMMA ResetsFields ==
    ASSUME IInv, Resets
    PROVE  /\ \/ /\ sync'.at = sync.at /\ sync'.dev = sync.dev /\ sync'.todo = sync.todo
                 /\ sync'.conflicts = sync.conflicts
              \/ /\ sync'.at \in {"out", "inspect"} /\ sync'.dev = None
                 /\ sync'.todo = <<>> /\ sync'.conflicts = 0
           /\ sync' \in [at : SyncPoints, dev : Devices \cup {None}, src : Devices \cup {None},
                          todo : Seq(Recordings), conflicts : Nat]
<1>1. sync \in [at : SyncPoints, dev : Devices \cup {None}, src : Devices \cup {None},
                todo : Seq(Recordings), conflicts : Nat]
  BY DEF IInv, TypeOK, SyncTypeOK
<1>2. NotSyncing \in [at : SyncPoints, dev : Devices \cup {None}, src : Devices \cup {None},
                      todo : Seq(Recordings), conflicts : Nat]
  <2>1. <<>> \in Seq(Recordings)
    OBVIOUS
  <2>. QED BY <2>1 DEF NotSyncing, SyncPoints
<1>3. CASE sync' = sync
  BY <1>1, <1>3
<1>4. CASE sync' = NotSyncing
  BY <1>2, <1>4 DEF NotSyncing
<1>5. CASE sync' = [NotSyncing EXCEPT !.at = "inspect"]
  <2>1. "inspect" \in SyncPoints
    BY DEF SyncPoints
  <2>2. sync' \in [at : SyncPoints, dev : Devices \cup {None}, src : Devices \cup {None},
                   todo : Seq(Recordings), conflicts : Nat]
    BY <1>2, <1>5, <2>1
  <2>3. /\ sync'.at = "inspect" /\ sync'.dev = None /\ sync'.todo = <<>>
        /\ sync'.conflicts = 0
    BY <1>5 DEF NotSyncing
  <2>. QED BY <2>2, <2>3
<1>6. ASSUME NEW d \in Devices, sync' = [sync EXCEPT !.src = IF @ = d THEN None ELSE @]
      PROVE  /\ sync'.at = sync.at /\ sync'.dev = sync.dev /\ sync'.todo = sync.todo
             /\ sync'.conflicts = sync.conflicts
             /\ sync' \in [at : SyncPoints, dev : Devices \cup {None}, src : Devices \cup {None},
                            todo : Seq(Recordings), conflicts : Nat]
  BY <1>1, <1>6
<1>. QED BY <1>3, <1>4, <1>5, <1>6 DEF Resets

LEMMA ResetsLibrary == ASSUME IInv, Resets PROVE Library'
<1>0. Library
  BY DEF IInv
<1>1. UNCHANGED <<row, final, partial, placed>>
  BY DEF Resets
<1>2. CASE /\ sync'.at = sync.at /\ sync'.dev = sync.dev /\ sync'.todo = sync.todo
           /\ sync'.conflicts = sync.conflicts
  <2>1. rec' = rec /\ Behind' = Behind /\ Whole(sync.dev)' = Whole(sync.dev)
    BY <1>2 DEF rec, Behind, Whole
  <2>2. TodoIsRest'
    BY <1>0, <1>2, <2>1 DEF Library, TodoIsRest
  <2>3. RecordingState'
    BY <1>0, <1>1, <1>2, <2>1 DEF Library, RecordingState
  <2>4. BehindSynced'
    BY <1>0, <1>1, <1>2, <2>1 DEF Library, BehindSynced, IsSynced
  <2>5. LibraryIsSound'
    BY <1>0, <1>1 DEF Library, LibraryIsSound, Whole
  <2>. QED BY <2>2, <2>3, <2>4, <2>5 DEF Library
<1>3. CASE /\ sync'.at \in {"out", "inspect"} /\ sync'.dev = None
           /\ sync'.todo = <<>> /\ sync'.conflicts = 0
  <2>1. LibraryIsSound'
    BY <1>0, <1>1 DEF Library, LibraryIsSound, Whole
  <2>2. TodoIsRest' /\ RecordingState' /\ BehindSynced'
    BY <1>3 DEF TodoIsRest, RecordingState, BehindSynced, Listed, OnRecording
  <2>. QED BY <2>1, <2>2 DEF Library
<1>. QED BY <1>2, <1>3, ResetsFields

(* A file that somebody puts at a free path disturbs nothing.               *)
LEMMA PlacedLibrary == ASSUME IInv, FilePlaced PROVE Library' /\ SyncTypeOK'
<1>0. Library /\ SyncTypeOK
  BY DEF IInv, TypeOK
<1>1. PICK r \in Recordings, d \in Devices \cup {Foreign} : PlaceFile(r, Whole(d))
  BY DEF FilePlaced
<1>2. /\ UNCHANGED <<platform, bus, row, partial, sync, faults>> /\ final[r] = None
      /\ final' = [final EXCEPT ![r] = Whole(d)] /\ placed' = [placed EXCEPT ![r] = Whole(d)]
  BY <1>1 DEF PlaceFile
<1>3. Whole(d) \in Files
  BY SyncAssumption DEF Whole, Files
<1>4. rec' = rec /\ Behind' = Behind
  BY <1>2 DEF rec, Behind
<1>5. /\ final \in [Recordings -> Files \cup {None}] /\ placed \in [Recordings -> Files \cup {None}]
      /\ row \in [Recordings -> Rows \cup {None}]
  BY <1>0 DEF SyncTypeOK
<1>6. SyncTypeOK'
  BY <1>0, <1>2, <1>3 DEF SyncTypeOK
<1>7. TodoIsRest'
  BY <1>0, <1>2, <1>4 DEF Library, TodoIsRest
<1>8. RecordingState'
  <2>1. sync.at \in OnRecording => rec \in Recordings /\ sync.dev \in Devices
    BY <1>0, RecType DEF Library, TodoIsRest, Listed
  <2>2. \A q \in Recordings : final[q] # None => final'[q] = final[q] /\ placed'[q] = placed[q]
    BY <1>2, <1>5
  <2>3. sync.at \in {"unlink", "record"} => sync.at \in OnRecording
    BY DEF OnRecording
  <2>. QED BY <1>0, <1>2, <1>4, <2>1, <2>2, <2>3, WholeIsFile DEF Library, RecordingState, Whole
<1>9. LibraryIsSound'
  <2>. SUFFICES ASSUME NEW q \in Recordings
                PROVE  /\ row'[q] # None /\ row'[q].status = "SYNCED"
                              => final'[q] = Whole(row'[q].dev)
                       /\ placed'[q] # None => final'[q] = placed'[q]
    BY DEF LibraryIsSound, Whole
  <2>1. row[q] # None => row[q].dev \in Devices
    BY <1>5 DEF Rows
  <2>2. /\ row[q] # None /\ row[q].status = "SYNCED" => final[q] = Whole(row[q].dev) /\ q # r
        /\ placed[q] # None => final[q] = placed[q]
    BY <1>0, <1>2, <2>1, WholeIsFile DEF Library, LibraryIsSound
  <2>. QED BY <1>2, <1>5, <2>2
<1>10. BehindSynced'
  <2>. SUFFICES ASSUME sync.at \in Listed, sync.conflicts = 0, NEW k \in 1..Behind
                PROVE  /\ row[Holds[sync.dev][k]] = [dev |-> sync.dev, status |-> "SYNCED"]
                       /\ final'[Holds[sync.dev][k]] = Whole(sync.dev)
    BY <1>2, <1>4 DEF BehindSynced, IsSynced, Whole
  <2>1. IsSynced(Holds[sync.dev][k], sync.dev) /\ sync.dev \in Devices
    BY <1>0 DEF Library, BehindSynced, TodoIsRest
  <2>. QED BY <1>2, <1>5, <2>1, WholeIsFile DEF IsSynced
<1>. QED BY <1>6, <1>7, <1>8, <1>9, <1>10 DEF Library

-----------------------------------------------------------------------------
BusType == [present : SUBSET Devices, letter : Devices \cup {None}, com : Devices \cup {None}]
GateType == [state : {"OPEN", "SEALED_FOR_RELEASE", "HOST_QUIESCED", "RELEASE_ACCEPTED",
                      "RELEASED"},
             ordinary : SUBSET {"self", "other"}, control : BOOLEAN, drained : BOOLEAN]
CliType == [pc : Points, mode : {"none", "sync", "release"},
            expected : Devices \cup {None}, target : Devices \cup {None},
            binding : Devices \cup {None}, locked : BOOLEAN,
                port : BOOLEAN, late : BOOLEAN]
WireType == [req : Attempts \cup {None}, reply : Replies \cup {None}, shut : BOOLEAN]

LEMMA Typed ==
    ASSUME IInv
    PROVE  /\ bus \in BusType /\ gate \in GateType /\ cli \in CliType
           /\ cdc \in [Devices -> WireType] /\ accepted \in [Devices -> SUBSET Attempts]
           /\ gone \subseteq Attempts /\ runs \in Nat /\ runs \in 0..MaxRuns
           /\ swaps \in 0..moves /\ moves \in 0..MaxMoves /\ crashes \in 0..MaxCrash
           /\ MaxRuns \in Nat /\ MaxMoves \in Nat /\ MaxCrash \in Nat
           /\ swaps \in Nat /\ moves \in Nat /\ crashes \in Nat /\ reborn \in BOOLEAN
  BY ReleaseAssumption DEF IInv, TypeOK, SyncTypeOK, BusType, GateType, CliType, WireType

(* The lines to and from the devices, field by field.                       *)
LEMMA Delivered ==
    ASSUME IInv, cli.binding \in Devices, Deliver, runs \in Attempts
    PROVE  /\ cdc' \in [Devices -> WireType]
           /\ cdc'[cli.binding].req = runs
           /\ cdc'[cli.binding].reply = cdc[cli.binding].reply
           /\ cdc'[cli.binding].shut = cdc[cli.binding].shut
           /\ \A d \in Devices : d # cli.binding => cdc'[d] = cdc[d]
  BY Typed DEF Deliver, WireType

LEMMA ReplyRead ==
    ASSUME IInv, cli.binding \in Devices, cdc' = [cdc EXCEPT ![cli.binding].reply = None]
    PROVE  /\ cdc' \in [Devices -> WireType]
           /\ cdc'[cli.binding].req = cdc[cli.binding].req
           /\ cdc'[cli.binding].reply = None
           /\ cdc'[cli.binding].shut = cdc[cli.binding].shut
           /\ \A d \in Devices : d # cli.binding => cdc'[d] = cdc[d]
  BY Typed DEF WireType

LEMMA Left ==
    ASSUME IInv, NEW d \in Devices, Leave(d)
    PROVE  /\ cdc' \in [Devices -> WireType]
           /\ cdc'[d].req = None /\ cdc'[d].reply = None /\ cdc'[d].shut = cdc[d].shut
           /\ \A e \in Devices : e # d => cdc'[e] = cdc[e]
  BY Typed DEF Leave, WireType

LEMMA Plugs ==
    ASSUME IInv, NEW d \in Devices, Plug(d)
    PROVE  /\ cdc' \in [Devices -> WireType]
           /\ cdc'[d].req = cdc[d].req /\ cdc'[d].reply = cdc[d].reply /\ cdc'[d].shut = FALSE
           /\ \A e \in Devices : e # d => cdc'[e] = cdc[e]
  BY Typed DEF Plug, WireType

LEMMA Handled ==
    ASSUME IInv, NEW d \in Devices, Handle(d)
    PROVE  /\ cdc' \in [Devices -> WireType] /\ accepted' \in [Devices -> SUBSET Attempts]
           /\ cdc[d].req \in Attempts /\ cdc'[d].req = None /\ d \in bus.present
           /\ \A e \in Devices : e # d => cdc'[e] = cdc[e] /\ accepted'[e] = accepted[e]
           /\ \E yes \in BOOLEAN :
                 /\ accepted'[d] = IF yes THEN accepted[d] \cup {cdc[d].req} ELSE accepted[d]
                 /\ \/ cdc'[d].reply = [id |-> cdc[d].req, ok |-> yes]
                    \/ cdc'[d].reply = cdc[d].reply
<1>0. PICK yes \in BOOLEAN, said \in BOOLEAN :
        /\ accepted' = IF yes
              THEN [accepted EXCEPT ![d] = @ \cup {cdc[d].req}] ELSE accepted
        /\ cdc' = [cdc EXCEPT ![d] =
              [req |-> None, shut |-> @.shut \/ yes, reply |->
                 IF said THEN [id |-> @.req, ok |-> yes] ELSE @.reply]]
  BY DEF Handle
<1>1. cdc[d] \in WireType /\ cdc[d].req \in Attempts /\ d \in bus.present
  BY Typed DEF Handle, WireType
<1>2. [id |-> cdc[d].req, ok |-> yes] \in Replies
  BY <1>1 DEF Replies
<1>3. [req |-> None, shut |-> cdc[d].shut \/ yes, reply |->
         IF said THEN [id |-> cdc[d].req, ok |-> yes] ELSE cdc[d].reply] \in WireType
  BY <1>1, <1>2 DEF WireType
<1>. QED BY <1>0, <1>1, <1>3, Typed

LEMMA BusTypeStep == ASSUME IInv, Next PROVE bus' \in BusType
<1>1. CASE SyncRuns \/ FilePlaced
  BY <1>1, Typed, SyncFrame DEF SyncRuns, FilePlaced, PlaceFile
<1>2. CASE Steps1 \/ Talks \/ Starts \/ \E d \in Devices : Handle(d)
  <2>1. bus' = bus
    BY <1>2, StepsReset DEF Talks, Starts, WriteRequest, ReadReply, WriteFails, Garbled,
       Command, Killed, Handle
  <2>. QED BY <2>1, Typed
<1>3. CASE Moves
  BY <1>3, Typed DEF Moves, DiskGoes, Unplug, Leave, Plug, BusType
<1>. QED BY <1>1, <1>2, <1>3, Kinds

LEMMA SyncTypes == ASSUME IInv, Next PROVE SyncTypeOK'
<1>1. CASE SyncRuns
  BY <1>1, SyncTypeStep DEF SyncRuns
<1>2. CASE Resets
  <2>1. SyncTypeOK
    BY DEF IInv, TypeOK
  <2>2. UNCHANGED <<platform, row, final, partial, placed>> /\ faults' \in 0..MaxFault
    BY <1>2, <2>1, SyncAssumption DEF Resets, SyncTypeOK, Fault
  <2>3. bus' \in [present : SUBSET Devices, letter : Devices \cup {None},
                  com : Devices \cup {None}]
    BY BusTypeStep DEF BusType
  <2>4. sync'.dev # None => sync'.conflicts + Len(sync'.todo) <= Len(Holds[sync'.dev])
    BY <1>2, <2>1, ResetsFields DEF SyncTypeOK
  <2>. QED BY <1>2, <2>1, <2>2, <2>3, <2>4, ResetsFields DEF SyncTypeOK
<1>. QED BY <1>1, <1>2, Kinds, PlacedLibrary, StepsReset, OthersReset

(* Neither sync_device nor anybody else touches the command's own state,    *)
(* but for the handles that die with a device.                              *)
LEMMA Outside ==
    ASSUME SyncRuns \/ FilePlaced \/ Moves \/ \E d \in Devices : Handle(d)
    PROVE  /\ UNCHANGED <<gate, outcome>>
           /\ cli' = cli \/ \E d \in Devices : HandlesDie(d)
<1>1. CASE SyncRuns \/ FilePlaced
  BY <1>1 DEF SyncRuns, FilePlaced, Actions
<1>2. ASSUME NEW d \in Devices, Leave(d) PROVE UNCHANGED <<gate, outcome>> /\ HandlesDie(d)
  BY <1>2 DEF Leave
<1>3. ASSUME NEW d \in Devices, Plug(d) PROVE UNCHANGED <<gate, cli, outcome>>
  BY <1>3 DEF Plug
<1>4. ASSUME NEW d \in Devices, Handle(d) PROVE UNCHANGED <<gate, cli, outcome>>
  BY <1>4 DEF Handle
<1>. QED BY <1>1, <1>2, <1>3, <1>4 DEF Moves, DiskGoes, Unplug

LEMMA Dying ==
    ASSUME IInv, NEW d \in Devices, HandlesDie(d)
    PROVE  /\ cli' \in CliType /\ cli'.pc = cli.pc /\ cli'.mode = cli.mode
           /\ cli'.expected = cli.expected /\ cli'.target = cli.target
           /\ cli'.binding = cli.binding
           /\ cli'.locked = (cli.locked /\ d # cli.target)
           /\ cli'.port = (cli.port /\ d # cli.binding)
<1>1. cli \in CliType
  BY Typed
<1>2. (cli.locked /\ d # cli.target) \in BOOLEAN /\ (cli.port /\ d # cli.binding) \in BOOLEAN
  OBVIOUS
<1>. QED BY <1>1, <1>2 DEF HandlesDie, CliType

LEMMA OutsideLocals ==
    ASSUME IInv, SyncRuns \/ FilePlaced \/ Moves \/ \E d \in Devices : Handle(d)
    PROVE  /\ cli'.pc = cli.pc /\ cli'.mode = cli.mode /\ cli'.expected = cli.expected
           /\ cli'.target = cli.target /\ cli'.binding = cli.binding
  BY Outside, Dying

(* How the command's locals change.                                         *)
CliMoves ==
    \/ cli' = cli \/ cli' = NoCommand \/ cli' = [cli EXCEPT !.late = TRUE]
    \/ \E d \in Devices : HandlesDie(d)
    \/ /\ Pc("open") /\ cli.binding \in bus.present
       /\ cli' = [cli EXCEPT !.pc = "after", !.port = TRUE]
    \/ \E p \in Points :
          \/ cli' = [cli EXCEPT !.pc = p] \/ cli' = [cli EXCEPT !.pc = p, !.late = FALSE]
          \/ cli' = [cli EXCEPT !.pc = p, !.locked = TRUE]
          \/ \E m \in {"sync", "release"} : cli' = [NoCommand EXCEPT !.pc = p, !.mode = m]
          \/ bus.letter # None /\ cli' = [cli EXCEPT !.pc = p, !.expected = bus.letter]
          \/ Pc("resolve") /\ cli' = [cli EXCEPT !.pc = p, !.target = bus.letter]
          \/ cli' = [cli EXCEPT !.pc = p, !.binding = bus.com]

LEMMA CliForms == ASSUME Next PROVE CliMoves
<1>1. CASE SyncRuns \/ FilePlaced \/ Moves \/ \E d \in Devices : Handle(d)
  <2>1. cli' = cli \/ \E d \in Devices : HandlesDie(d)
    BY <1>1, Outside
  <2>. QED BY <2>1 DEF CliMoves
<1>2. CASE Starts
  BY <1>2 DEF Starts, Command, Killed, CliMoves, Points
<1>3. CASE Talks
  BY <1>3 DEF Talks, WriteRequest, ReadReply, WriteFails, Garbled, CliMoves, Points
<1>4. CASE Steps1
  <2>1. CASE DeviceId \/ Resolve \/ Endpoint \/ LockAndDismount
    BY <2>1 DEF DeviceId, Resolve, Endpoint, LockAndDismount, CliMoves, Points
  <2>2. CASE SyncReturns \/ Hooks \/ Identity \/ Topology \/ Available \/ Seal \/ Drain
             \/ DrainTimeout
    BY <2>2 DEF SyncReturns, Hooks, Identity, Topology, Available, Seal, Drain,
       DrainTimeout, CliMoves, Points
  <2>5. CASE OpenPort
    BY <2>5 DEF OpenPort, CliMoves
  <2>3. CASE Bound \/ Before \/ After \/ NoReply \/ PollDisk \/ PollMount
             \/ Deadline
    BY <2>3 DEF Bound, Before, After, NoReply, PollDisk, PollMount, Deadline,
       CliMoves, Points
  <2>4. CASE HooksFail \/ ResolveFails \/ LockFails \/ TimeoutsFail \/ PollFails
             \/ DeadlinePasses \/ OtherEnters \/ OtherLeaves
    <3>1. HooksFail \/ LockFails \/ TimeoutsFail \/ PollFails => cli' = NoCommand
      BY DEF HooksFail, LockFails, TimeoutsFail, PollFails
    <3>2. ResolveFails => cli' = NoCommand
      BY DEF ResolveFails
    <3>3. DeadlinePasses => cli' = [cli EXCEPT !.late = TRUE]
      BY DEF DeadlinePasses
    <3>4. OtherEnters \/ OtherLeaves => cli' = cli
      BY DEF OtherEnters, OtherLeaves
    <3>. QED BY <2>4, <3>1, <3>2, <3>3, <3>4, Zenon DEF CliMoves
  <2>. QED BY <1>4, <2>1, <2>2, <2>3, <2>4, <2>5 DEF Steps1
<1>. QED BY <1>1, <1>2, <1>3, <1>4, Kinds

LEMMA CliTypeStep == ASSUME IInv, Next PROVE cli' \in CliType
<1>0. cli \in CliType /\ bus \in BusType
  BY Typed
<1>1. NoCommand \in CliType
  BY DEF NoCommand, CliType, Points
<1>2. CASE cli' = cli \/ cli' = NoCommand \/ cli' = [cli EXCEPT !.late = TRUE]
  BY <1>0, <1>1, <1>2, ZenonT(60) DEF CliType
<1>3. ASSUME NEW p \in Points,
             \/ cli' = [cli EXCEPT !.pc = p] \/ cli' = [cli EXCEPT !.pc = p, !.late = FALSE]
             \/ cli' = [cli EXCEPT !.pc = p, !.locked = TRUE]
      PROVE  cli' \in CliType
  BY <1>0, <1>3 DEF CliType
<1>4. ASSUME NEW p \in Points, NEW m \in {"sync", "release"},
             cli' = [NoCommand EXCEPT !.pc = p, !.mode = m]
      PROVE  cli' \in CliType
  BY <1>1, <1>4 DEF CliType
<1>5. ASSUME NEW p \in Points, cli' = [cli EXCEPT !.pc = p, !.expected = bus.letter]
      PROVE  cli' \in CliType
  BY <1>0, <1>5 DEF CliType, BusType
<1>6. ASSUME NEW p \in Points, cli' = [cli EXCEPT !.pc = p, !.target = bus.letter]
      PROVE  cli' \in CliType
  BY <1>0, <1>6 DEF CliType, BusType
<1>7. ASSUME NEW p \in Points, cli' = [cli EXCEPT !.pc = p, !.binding = bus.com]
      PROVE  cli' \in CliType
  BY <1>0, <1>7 DEF CliType, BusType
<1>8. CASE cli' \in {cli, NoCommand, [cli EXCEPT !.late = TRUE]}
  BY <1>2, <1>8
<1>10. CASE \E d \in Devices : HandlesDie(d)
  BY <1>10, Dying
<1>11. CASE cli' = [cli EXCEPT !.pc = "after", !.port = TRUE]
  BY <1>0, <1>11 DEF CliType, Points
<1>9. CASE /\ cli' \notin {cli, NoCommand, [cli EXCEPT !.late = TRUE]}
           /\ ~\E d \in Devices : HandlesDie(d)
           /\ cli' # [cli EXCEPT !.pc = "after", !.port = TRUE]
  <2>1. PICK p \in Points :
          \/ cli' = [cli EXCEPT !.pc = p] \/ cli' = [cli EXCEPT !.pc = p, !.late = FALSE]
          \/ cli' = [cli EXCEPT !.pc = p, !.locked = TRUE]
          \/ \E m \in {"sync", "release"} : cli' = [NoCommand EXCEPT !.pc = p, !.mode = m]
          \/ bus.letter # None /\ cli' = [cli EXCEPT !.pc = p, !.expected = bus.letter]
          \/ Pc("resolve") /\ cli' = [cli EXCEPT !.pc = p, !.target = bus.letter]
          \/ cli' = [cli EXCEPT !.pc = p, !.binding = bus.com]
    BY <1>9, CliForms, Zenon DEF CliMoves
  <2>. QED BY <1>3, <1>4, <1>5, <1>6, <1>7, <2>1, Zenon
<1>. QED BY <1>8, <1>9, <1>10, <1>11

(* ... and the gate's.                                                      *)
GateMoves ==
    \/ gate' = gate \/ gate' = FreshGate
    \/ \E o \in SUBSET {"self", "other"} : gate' = [FreshGate EXCEPT !.ordinary = o]
    \/ gate' = [gate EXCEPT !.ordinary = @ \ {"self"}, !.control = FALSE]
    \/ gate' = [gate EXCEPT !.ordinary = @ \ {"self"}]
    \/ gate' = [gate EXCEPT !.ordinary = @ \ {"other"}]
    \/ gate' = [gate EXCEPT !.ordinary = @ \cup {"self"}]
    \/ gate' = [gate EXCEPT !.ordinary = @ \cup {"other"}]
    \/ gate' = [gate EXCEPT !.drained = TRUE, !.control = TRUE]
    \/ gate' = [gate EXCEPT !.state = "SEALED_FOR_RELEASE"]
    \/ gate' = [gate EXCEPT !.state = "HOST_QUIESCED"]
    \/ gate' = [gate EXCEPT !.state = "RELEASE_ACCEPTED"]
    \/ gate' = [gate EXCEPT !.state = "RELEASED", !.control = FALSE]

LEMMA GateForms == ASSUME Next PROVE GateMoves
<1>1. CASE SyncRuns \/ FilePlaced \/ Moves \/ \E d \in Devices : Handle(d)
  <2>1. gate' = gate
    BY <1>1, Outside
  <2>. QED BY <2>1 DEF GateMoves
<1>2. CASE Starts
  BY <1>2 DEF Starts, Command, Killed, GateMoves
<1>3. CASE Talks
  BY <1>3 DEF Talks, WriteRequest, ReadReply, WriteFails, Garbled, GateMoves
<1>4. CASE Steps1
  BY <1>4 DEF Steps1, GateMoves, DeviceId, SyncReturns, Hooks, Resolve, Identity,
     Topology, Endpoint, Available, Seal, Drain, DrainTimeout, LockAndDismount, Bound, Before,
     OpenPort, After, NoReply, PollDisk, PollMount, Deadline, HooksFail, ResolveFails,
     LockFails, TimeoutsFail, PollFails, DeadlinePasses, OtherEnters, OtherLeaves
<1>. QED BY <1>1, <1>2, <1>3, <1>4, Kinds

LEMMA GateTypeStep == ASSUME IInv, Next PROVE gate' \in GateType
<1>0. gate \in GateType
  BY Typed
<1>1. FreshGate \in GateType
  BY DEF FreshGate, GateType
<1>2. CASE \E o \in SUBSET {"self", "other"} : gate' = [FreshGate EXCEPT !.ordinary = o]
  BY <1>1, <1>2 DEF GateType
<1>3. CASE \/ gate' = gate \/ gate' = FreshGate
           \/ gate' = [gate EXCEPT !.ordinary = @ \ {"self"}, !.control = FALSE]
           \/ gate' = [gate EXCEPT !.ordinary = @ \ {"self"}]
           \/ gate' = [gate EXCEPT !.ordinary = @ \ {"other"}]
  <2>1. gate.ordinary \ {"self"} \in SUBSET {"self", "other"}
        /\ gate.ordinary \ {"other"} \in SUBSET {"self", "other"}
    BY <1>0 DEF GateType
  <2>2. CASE gate' = [gate EXCEPT !.ordinary = @ \ {"self"}, !.control = FALSE]
    BY <1>0, <2>1, <2>2 DEF GateType
  <2>3. CASE gate' = [gate EXCEPT !.ordinary = @ \ {"self"}]
    BY <1>0, <2>1, <2>3 DEF GateType
  <2>4. CASE gate' = [gate EXCEPT !.ordinary = @ \ {"other"}]
    BY <1>0, <2>1, <2>4 DEF GateType
  <2>. QED BY <1>0, <1>1, <1>3, <2>2, <2>3, <2>4
<1>4. CASE \/ gate' = [gate EXCEPT !.ordinary = @ \cup {"self"}]
           \/ gate' = [gate EXCEPT !.ordinary = @ \cup {"other"}]
           \/ gate' = [gate EXCEPT !.drained = TRUE, !.control = TRUE]
  BY <1>0, <1>4, ZenonT(60) DEF GateType
<1>5. CASE \/ gate' = [gate EXCEPT !.state = "SEALED_FOR_RELEASE"]
           \/ gate' = [gate EXCEPT !.state = "HOST_QUIESCED"]
           \/ gate' = [gate EXCEPT !.state = "RELEASE_ACCEPTED"]
           \/ gate' = [gate EXCEPT !.state = "RELEASED", !.control = FALSE]
  BY <1>0, <1>5 DEF GateType
<1>. QED BY <1>2, <1>3, <1>4, <1>5, GateForms, Zenon DEF GateMoves

LEMMA OutcomeTypeStep == ASSUME IInv, Next PROVE outcome' \in Reasons \cup {None}
<1>0. outcome \in Reasons \cup {None}
  BY DEF IInv, TypeOK
<1>. USE DEF Reasons, Failures, Unproven, SyncOnly
<1>1. CASE SyncRuns \/ FilePlaced \/ Moves \/ \E d \in Devices : Handle(d)
  <2>1. outcome' = outcome
    BY <1>1, Outside
  <2>. QED BY <1>0, <2>1
<1>2. CASE Starts
  BY <1>0, <1>2 DEF Starts, Command, Killed
<1>3. CASE Talks
  BY <1>0, <1>3 DEF Talks, WriteRequest, ReadReply, WriteFails, Garbled, Verdict
<1>4. CASE Steps1
  BY <1>0, <1>4 DEF Steps1, DeviceId, SyncReturns, Hooks, Resolve, Identity,
     Topology, Endpoint, Available, Seal, Drain, DrainTimeout, LockAndDismount, Bound, Before,
     OpenPort, After, NoReply, PollDisk, PollMount, Deadline, HooksFail, ResolveFails,
     LockFails, TimeoutsFail, PollFails, DeadlinePasses, OtherEnters, OtherLeaves
<1>. QED BY <1>1, <1>2, <1>3, <1>4, Kinds

-----------------------------------------------------------------------------
Control == {"lock", "bound", "before", "open", "after", "write"} \cup Sent

(* A command that ends leaves the gate without a holder of its own.         *)
Ends == /\ cli.pc # "idle" /\ cli' = NoCommand /\ gate'.control = FALSE
        /\ UNCHANGED bounds

(* One that goes on goes from p to q ...                                    *)
Flows(p, q) ==
    /\ cli.pc \in p /\ cli'.pc = q /\ cli'.mode = cli.mode
    /\ (cli.locked => cli'.locked) /\ outcome' = outcome /\ UNCHANGED bounds

(* ... and what that does to the gate.                                      *)
PlainFlow ==
    /\ \/ Flows({"id"}, "sync") \/ Flows({"hooks"}, "resolve") \/ Flows({"identity"}, "topology")
       \/ Flows({"topology"}, "endpoint") \/ Flows({"endpoint"}, "available")
    /\ gate' = gate
LeaseFlow ==
    /\ \/ Flows({"sync"}, "hooks") /\ cli.mode = "release"
       \/ Flows({"resolve"}, "identity") \/ Flows({"available"}, "seal")
    /\ gate'.state = gate.state /\ gate'.control = gate.control
SealFlow ==
    /\ Flows({"seal"}, "drain")
    /\ gate'.state = "SEALED_FOR_RELEASE" /\ gate'.control = gate.control
DrainFlow ==
    /\ Flows({"drain"}, "lock") /\ gate.ordinary = {}
    /\ gate'.state = gate.state /\ gate'.ordinary = gate.ordinary /\ gate'.control = TRUE
LockFlow ==
    /\ Flows({"lock"}, "bound") /\ cli'.locked
    /\ gate'.state = "HOST_QUIESCED" /\ gate'.ordinary = gate.ordinary
    /\ gate'.control = gate.control
PortFlow ==
    /\ \/ Flows({"bound"}, "before") \/ Flows({"before"}, "open") \/ Flows({"open"}, "after")
       \/ Flows({"after"}, "write") \/ Flows({"write"}, "reply")
       \/ Flows({"pollDisk"}, "pollMount") \/ Flows({"deadline"}, "pollDisk")
       \/ Flows({"pollDisk", "pollMount"}, "deadline")
    /\ gate' = gate
GrantFlow ==
    /\ Flows({"reply"}, "pollDisk")
    /\ gate'.state = "RELEASE_ACCEPTED" /\ gate'.ordinary = gate.ordinary
    /\ gate'.control = gate.control
(* A clock or another user of the gate leaves the point as it is.           *)
WaitFlow ==
    /\ Flows({cli.pc}, cli.pc)
    /\ gate'.state = gate.state /\ gate'.control = gate.control
    /\ gate'.ordinary \subseteq gate.ordinary \/ gate.state = "OPEN"
GateFlow ==
    \/ PlainFlow \/ LeaseFlow \/ SealFlow \/ DrainFlow \/ LockFlow \/ PortFlow \/ GrantFlow
    \/ WaitFlow

LEMMA Flow == ASSUME IInv, Steps1 \/ Talks PROVE Ends \/ GateFlow
<1>0. cli \in CliType /\ gate \in GateType
  BY Typed
<1>. USE DEF Flows, CliType, GateType
<1>1. CASE Hooks \/ Identity \/ Topology \/ DeviceId \/ Endpoint
  BY <1>0, <1>1, ZenonT(60) DEF Hooks, Identity, Topology, DeviceId, Endpoint, Ends, GateFlow, PlainFlow
<1>2. CASE SyncReturns \/ Resolve \/ Available
  BY <1>0, <1>2, ZenonT(60) DEF SyncReturns, Resolve, Available, Ends, GateFlow, LeaseFlow
<1>3. CASE Seal \/ Drain \/ DrainTimeout \/ LockAndDismount
  BY <1>0, <1>3, ZenonT(60) DEF Seal, Drain, Drained, DrainTimeout, LockAndDismount, Ends, GateFlow,
     SealFlow, DrainFlow, LockFlow
<1>4. CASE Bound \/ Before \/ OpenPort \/ After
  BY <1>0, <1>4, ZenonT(60) DEF Bound, Before, OpenPort, After, Ends, GateFlow, PortFlow
<1>5. CASE NoReply \/ PollDisk \/ PollMount \/ Deadline
  BY <1>0, <1>5 DEF NoReply, PollDisk, PollMount, Deadline, Ends, GateFlow, PortFlow
<1>6. CASE HooksFail \/ ResolveFails \/ LockFails \/ TimeoutsFail \/ PollFails
  BY <1>0, <1>6 DEF HooksFail, ResolveFails, LockFails, TimeoutsFail, PollFails, Ends
<1>7. CASE DeadlinePasses \/ OtherEnters \/ OtherLeaves
  BY <1>0, <1>7 DEF DeadlinePasses, OtherEnters, OtherLeaves, Admit, GateFlow, WaitFlow
<1>8. CASE Talks
  BY <1>0, <1>8, ZenonT(60) DEF Talks, WriteRequest, ReadReply, WriteFails, Garbled, Ends, GateFlow,
     PortFlow, GrantFlow
<1>. QED BY <1>1, <1>2, <1>3, <1>4, <1>5, <1>6, <1>7, <1>8 DEF Steps1

(* Only three steps of the command reach into sync_device.                  *)
LEMMA Calls ==
    ASSUME IInv, Steps1 \/ Talks
    PROVE  sync' = NotSyncing \/ cli'.pc = "sync" \/ (sync' = sync /\ ~Pc("sync"))
<1>0. cli \in CliType
  BY Typed
<1>1. CASE DeviceId \/ SyncReturns
  BY <1>0, <1>1 DEF DeviceId, SyncReturns, CliType
<1>2. CASE OtherEnters \/ OtherLeaves
  BY <1>2 DEF OtherEnters, OtherLeaves
<1>3. CASE Hooks \/ Resolve \/ Identity \/ Topology \/ Endpoint \/ Available \/ Seal \/ Drain
           \/ DrainTimeout \/ LockAndDismount \/ Bound \/ Before \/ OpenPort \/ After
  BY <1>3 DEF Hooks, Resolve, Identity, Topology, Endpoint, Available, Seal, Drain,
     DrainTimeout, LockAndDismount, Bound, Before, OpenPort, After
<1>4. CASE Talks \/ NoReply \/ PollDisk \/ PollMount \/ Deadline \/ HooksFail \/ ResolveFails
           \/ LockFails \/ TimeoutsFail \/ PollFails \/ DeadlinePasses
  BY <1>4 DEF Talks, WriteRequest, ReadReply, WriteFails, Garbled, NoReply, PollDisk, PollMount,
     Deadline, HooksFail, ResolveFails, LockFails, TimeoutsFail, PollFails, DeadlinePasses
<1>. QED BY <1>1, <1>2, <1>3, <1>4 DEF Steps1

LEMMA FlowPoints ==
    ASSUME GateFlow
    PROVE  /\ UNCHANGED <<outcome, runs>> /\ cli'.mode = cli.mode
           /\ cli.pc = "idle" <=> cli'.pc = "idle"
           /\ cli'.pc \in Copied =>
                 cli.pc \in Copied \/ (cli.pc = "sync" /\ cli.mode = "release")
           /\ cli'.pc = "id" => cli.pc = "id"
           /\ cli'.pc = "sync" => cli.pc \in {"sync", "id"}
<1>. USE DEF Flows, Copied
<1>1. CASE PlainFlow \/ LeaseFlow
  BY <1>1 DEF PlainFlow, LeaseFlow
<1>2. CASE SealFlow \/ DrainFlow \/ LockFlow \/ GrantFlow \/ WaitFlow
  BY <1>2 DEF SealFlow, DrainFlow, LockFlow, GrantFlow, WaitFlow
<1>3. CASE PortFlow
  BY <1>3 DEF PortFlow
<1>. QED BY <1>1, <1>2, <1>3 DEF GateFlow

(* The program point goes with the state of the command ...                 *)
LEMMA CommandStep == ASSUME IInv, Next PROVE CommandState'
<1>0. CommandState /\ runs \in 0..MaxRuns /\ MaxRuns \in Nat
  BY Typed DEF IInv
<1>1. CASE SyncRuns
  <2>1. cli.pc = "sync" /\ UNCHANGED <<cli, outcome, runs>>
    BY <1>1 DEF SyncRuns, Actions
  <2>. QED BY <1>0, <2>1 DEF CommandState
<1>2. CASE FilePlaced
  BY <1>0, <1>2 DEF FilePlaced, PlaceFile, Actions, CommandState
<1>3. CASE Moves \/ \E d \in Devices : Handle(d)
  <2>1. outcome' = outcome /\ cli'.pc = cli.pc /\ cli'.mode = cli.mode
    BY <1>3, Outside, OutsideLocals
  <2>2. runs' = runs
    BY <1>3 DEF Moves, DiskGoes, Unplug, Leave, Plug, Handle
  <2>3. sync'.at = sync.at
    <3>1. sync \in [at : SyncPoints, dev : Devices \cup {None}, src : Devices \cup {None},
                    todo : Seq(Recordings), conflicts : Nat]
      BY DEF IInv, TypeOK, SyncTypeOK
    <3>. QED BY <1>3, <3>1 DEF Moves, DiskGoes, Unplug, Leave, Plug, Handle
  <2>. QED BY <1>0, <2>1, <2>2, <2>3 DEF CommandState
<1>4. CASE Starts
  <2>1. CASE Killed
    BY <1>0, <2>1 DEF Killed, CommandState, NoCommand, NotSyncing, Copied
  <2>2. ASSUME NEW m \in {"sync", "release"}, Command(m) PROVE CommandState'
    <3>1. runs' \in Attempts /\ outcome' = None
      BY <1>0, <2>2 DEF Command, Attempts
    <3>2. /\ cli'.pc = (IF m = "sync" THEN "sync" ELSE "id") /\ cli'.mode = m
      BY <2>2 DEF Command, NoCommand
    <3>3. m = "release" => sync'.at = "out"
      BY <2>2 DEF Command, NotSyncing
    <3>. QED BY <3>1, <3>2, <3>3 DEF CommandState, Copied
  <2>. QED BY <1>4, <2>1, <2>2 DEF Starts
<1>5. CASE Ends /\ (Steps1 \/ Talks)
  <2>1. cli'.pc = "idle" /\ runs' \in Attempts
    BY <1>0, <1>5 DEF Ends, NoCommand, CommandState
  <2>2. sync'.at = "out"
    BY <1>0, <1>5, <2>1, Calls DEF CommandState, NotSyncing
  <2>. QED BY <2>1, <2>2 DEF CommandState, Copied
<1>6. CASE GateFlow /\ (Steps1 \/ Talks)
  <2>1. /\ UNCHANGED <<outcome, runs>> /\ cli'.mode = cli.mode
        /\ cli.pc = "idle" <=> cli'.pc = "idle"
        /\ cli'.pc \in Copied => cli.pc \in Copied \/ (cli.pc = "sync" /\ cli.mode = "release")
        /\ cli'.pc = "id" => cli.pc = "id"
        /\ cli'.pc = "sync" => cli.pc \in {"sync", "id"}
    BY <1>6, FlowPoints
  <2>2. cli'.pc # "sync" => sync'.at = "out"
    BY <1>0, <1>6, Calls DEF CommandState, NotSyncing
  <2>. QED BY <1>0, <2>1, <2>2 DEF CommandState
<1>. QED BY <1>1, <1>2, <1>3, <1>4, <1>5, <1>6, Kinds, Flow

(* ... and with the gate.                                                   *)
LEMMA GateStep ==
    ASSUME IInv, Next
    PROVE  GateState' /\ (gate'.control <=> cli'.pc \in Control)
<1>0. /\ GateState /\ (gate.control <=> cli.pc \in Control)
      /\ cli \in CliType /\ gate \in GateType /\ gate' \in GateType
      /\ (cli.pc \in Copied \cup {"id"} => cli.mode = "release")
  <2>1. gate.control <=> cli.pc \in Control
    BY DEF IInv, TypeOK, Control, Sent
  <2>. QED BY <2>1, Typed, GateTypeStep DEF IInv, CommandState
<1>. USE DEF Control, Sent, GateState
<1>1. CASE SyncRuns \/ FilePlaced \/ Moves \/ \E d \in Devices : Handle(d)
  <2>1. gate' = gate /\ cli'.pc = cli.pc /\ cli'.mode = cli.mode
    BY <1>1, Outside, OutsideLocals
  <2>. QED BY <1>0, <2>1
<1>2. CASE Killed
  BY <1>2 DEF Killed, NoCommand, FreshGate
<1>3. ASSUME NEW m \in {"sync", "release"}, Command(m)
      PROVE  GateState' /\ (gate'.control <=> cli'.pc \in Control)
  <2>1. cli'.pc \in {"sync", "id"} /\ gate'.state = "OPEN" /\ gate'.control = FALSE
    BY <1>3 DEF Command, NoCommand, FreshGate
  <2>. QED BY <2>1
<1>4. CASE Ends
  BY <1>4 DEF Ends, NoCommand
<1>5. CASE PlainFlow \/ LeaseFlow
  BY <1>0, <1>5 DEF PlainFlow, LeaseFlow, Flows
<1>6. CASE SealFlow \/ DrainFlow
  BY <1>0, <1>6 DEF SealFlow, DrainFlow, Flows
<1>7. CASE LockFlow \/ GrantFlow
  BY <1>0, <1>7 DEF LockFlow, GrantFlow, Flows
<1>8. CASE PortFlow
  BY <1>0, <1>8 DEF PortFlow, Flows
<1>9. CASE WaitFlow
  BY <1>0, <1>9 DEF WaitFlow, Flows
<1>. HIDE DEF Control, Sent, GateState
<1>. QED BY <1>1, <1>2, <1>3, <1>4, <1>5, <1>6, <1>7, <1>8, <1>9, Kinds, Flow
         DEF Starts, GateFlow

-----------------------------------------------------------------------------
(* From the endpoint check on the interface is frozen to the target's.      *)
LEMMA AtPort ==
    ASSUME IInv, cli.pc \in Frozen
    PROVE  /\ cli.binding \in Devices /\ cli.binding = cli.target
           /\ runs \in Attempts /\ cli.mode = "release"
<1>1. cli.pc # "idle" /\ cli.pc \in Copied /\ cli.pc \in Resolved
  BY DEF Frozen, Compared, Resolved, Copied
<1>2. cli.mode = "release" /\ runs \in Attempts
  BY <1>1 DEF IInv, CommandState
<1>. QED BY <1>1, <1>2 DEF IInv, Readings

(* The target is set by resolve_target alone, the port opened by OpenPort.  *)
LEMMA Locals ==
    ASSUME IInv, Steps1 \/ Talks, cli' # NoCommand
    PROVE  /\ cli'.target = cli.target \/ Pc("resolve")
           /\ cli'.port /\ ~cli.port =>
                 cli.pc = "open" /\ cli'.pc = "after" /\ cli.binding \in bus.present
<1>0. cli \in CliType
  BY Typed
<1>. USE DEF CliType
<1>1. CASE DeviceId \/ Resolve \/ Endpoint \/ LockAndDismount \/ OpenPort
  <2>1. CASE DeviceId
    BY <1>0, <2>1 DEF DeviceId
  <2>2. CASE Resolve
    BY <1>0, <2>2 DEF Resolve
  <2>3. CASE Endpoint
    BY <1>0, <2>3 DEF Endpoint
  <2>4. CASE LockAndDismount \/ OpenPort
    BY <1>0, <2>4 DEF LockAndDismount, OpenPort
  <2>. QED BY <1>1, <2>1, <2>2, <2>3, <2>4
<1>2. CASE SyncReturns \/ Hooks \/ Identity \/ Topology \/ Available \/ Seal \/ Drain
           \/ DrainTimeout
  BY <1>0, <1>2 DEF SyncReturns, Hooks, Identity, Topology, Available, Seal, Drain, DrainTimeout
<1>3. CASE Bound \/ Before \/ After \/ NoReply \/ PollDisk \/ PollMount \/ Deadline
  BY <1>0, <1>3 DEF Bound, Before, After, NoReply, PollDisk, PollMount, Deadline
<1>4. CASE HooksFail \/ ResolveFails \/ LockFails \/ TimeoutsFail \/ PollFails
  BY <1>4 DEF HooksFail, ResolveFails, LockFails, TimeoutsFail, PollFails
<1>5. CASE DeadlinePasses \/ OtherEnters \/ OtherLeaves
  BY <1>0, <1>5 DEF DeadlinePasses, OtherEnters, OtherLeaves
<1>6. CASE Talks
  BY <1>0, <1>6 DEF Talks, WriteRequest, ReadReply, WriteFails, Garbled
<1>. QED BY <1>1, <1>2, <1>3, <1>4, <1>5, <1>6 DEF Steps1

(* What the command does to the lines.                                      *)
LEMMA TalksMove ==
    ASSUME IInv, Talks
    PROVE  /\ UNCHANGED <<accepted, gone, bounds, bus>> /\ cli.pc \in {"write", "reply"}
           /\ cli.pc \in Frozen
           /\ \/ cdc' = cdc /\ cli' = NoCommand
              \/ Pc("write") /\ cli.port /\ Deliver
              \/ Pc("reply") /\ cdc' = [cdc EXCEPT ![cli.binding].reply = None]
  BY DEF Talks, WriteRequest, ReadReply, WriteFails, Garbled, Frozen, Compared, Resolved, Copied

(* The volume lock and the port go with the device they are on, and a port  *)
(* is opened only on a device that is there.                                *)
LEMMA HandlesStep == ASSUME IInv, Next PROVE HandlesState'
<1>0. /\ HandlesState /\ cli \in CliType /\ bus \in BusType
      /\ cli.pc \in {"after", "write"} \cup Sent => cli.binding = cli.target
  <2>1. cli.pc \in {"after", "write"} \cup Sent => cli.pc \in Frozen
    BY DEF Sent, Frozen, Compared, Resolved, Copied
  <2>. QED BY <2>1, Typed, AtPort DEF IInv
<1>1. CASE SyncRuns \/ FilePlaced \/ \E d \in Devices : Handle(d)
  <2>1. UNCHANGED <<cli, bus, reborn>>
    BY <1>1, SyncFrame DEF SyncRuns, FilePlaced, PlaceFile, Actions, Handle
  <2>. QED BY <1>0, <2>1 DEF HandlesState
<1>2. CASE Starts
  <2>1. cli'.port = FALSE /\ cli'.pc \in {"idle", "sync", "id"}
    <3>1. CASE Killed
      BY <3>1 DEF Killed, NoCommand
    <3>2. ASSUME NEW m \in {"sync", "release"}, Command(m)
          PROVE  cli'.port = FALSE /\ cli'.pc \in {"idle", "sync", "id"}
      BY <3>2 DEF Command, NoCommand
    <3>. QED BY <1>2, <3>1, <3>2 DEF Starts
  <2>. QED BY <2>1 DEF HandlesState, Sent
<1>3. CASE cli' = NoCommand
  BY <1>3 DEF NoCommand, HandlesState
<1>4. CASE GateFlow /\ (Steps1 \/ Talks) /\ cli' # NoCommand
  <2>1. UNCHANGED <<bus, reborn>>
    BY <1>4, StepsReset, TalksMove
  <2>2. /\ cli'.target = cli.target \/ Pc("resolve")
        /\ cli'.port /\ ~cli.port =>
                 cli.pc = "open" /\ cli'.pc = "after" /\ cli.binding \in bus.present
    BY <1>4, Locals
  <2>3. CASE PlainFlow \/ LeaseFlow \/ SealFlow \/ DrainFlow
    BY <1>0, <2>2, <2>3 DEF PlainFlow, LeaseFlow, SealFlow, DrainFlow, Flows, HandlesState, Sent
  <2>4. CASE LockFlow \/ GrantFlow \/ WaitFlow
    BY <1>0, <2>1, <2>2, <2>4 DEF LockFlow, GrantFlow, WaitFlow, Flows, HandlesState, Sent
  <2>5. CASE PortFlow
    <3>1. cli.pc = "open" => cli.binding = cli.target
      BY AtPort DEF Frozen, Compared, Resolved, Copied
    <3>. QED BY <1>0, <2>1, <2>2, <2>5, <3>1 DEF PortFlow, Flows, HandlesState, Sent
  <2>. QED BY <1>4, <2>3, <2>4, <2>5 DEF GateFlow
<1>5. ASSUME NEW d \in Devices, Leave(d) PROVE HandlesState'
  <2>1. bus'.present = bus.present \ {d} /\ reborn' = reborn /\ HandlesDie(d)
    BY <1>5 DEF Leave
  <2>. QED BY <1>0, <2>1, Dying DEF HandlesState
<1>6. ASSUME NEW d \in Devices, Plug(d) PROVE HandlesState'
  <2>1. /\ bus'.present = bus.present \cup {d} /\ cli' = cli
        /\ reborn' = (reborn \/ (d = cli.target /\ cli.pc \in {"bound", "before", "open"}))
    BY <1>6 DEF Plug
  <2>. QED BY <1>0, <2>1 DEF HandlesState
<1>. QED BY <1>1, <1>2, <1>3, <1>4, <1>5, <1>6, Kinds, Flow DEF Ends, Moves, DiskGoes, Unplug

LEMMA WireTypeStep ==
    ASSUME IInv, Next
    PROVE  /\ cdc' \in [Devices -> WireType] /\ accepted' \in [Devices -> SUBSET Attempts]
           /\ gone' \subseteq Attempts
<1>0. /\ cdc \in [Devices -> WireType] /\ accepted \in [Devices -> SUBSET Attempts]
      /\ gone \subseteq Attempts
  BY Typed
<1>1. CASE SyncRuns \/ FilePlaced
  BY <1>0, <1>1 DEF SyncRuns, FilePlaced, Actions
<1>2. CASE Steps1 \/ Starts
  BY <1>0, <1>2, StepsReset DEF Starts, Command, Killed
<1>3. CASE Talks
  BY <1>0, <1>3, TalksMove, AtPort, Delivered, ReplyRead
<1>4. ASSUME NEW d \in Devices, Handle(d)
      PROVE  /\ cdc' \in [Devices -> WireType] /\ accepted' \in [Devices -> SUBSET Attempts]
             /\ gone' \subseteq Attempts
  BY <1>0, <1>4, Handled DEF Handle
<1>5. ASSUME NEW d \in Devices, Leave(d)
      PROVE  /\ cdc' \in [Devices -> WireType] /\ accepted' \in [Devices -> SUBSET Attempts]
             /\ gone' \subseteq Attempts
  <2>1. accepted' = accepted /\ gone' = gone \cup accepted[d]
    BY <1>5 DEF Leave
  <2>2. accepted[d] \subseteq Attempts
    BY <1>0
  <2>. QED BY <1>0, <1>5, <2>1, <2>2, Left
<1>6. ASSUME NEW d \in Devices, Plug(d)
      PROVE  /\ cdc' \in [Devices -> WireType] /\ accepted' \in [Devices -> SUBSET Attempts]
             /\ gone' \subseteq Attempts
  BY <1>0, <1>6, Plugs DEF Plug
<1>7. Moves => \E d \in Devices : Leave(d) \/ Plug(d)
  BY DEF Moves, DiskGoes, Unplug
<1>. QED BY <1>1, <1>2, <1>3, <1>4, <1>5, <1>6, <1>7, Kinds

LEMMA BoundsStep ==
    ASSUME IInv, Next
    PROVE  /\ swaps' \in 0..moves' /\ runs' \in 0..MaxRuns /\ moves' \in 0..MaxMoves
           /\ crashes' \in 0..MaxCrash /\ reborn' \in BOOLEAN
<1>1. CASE SyncRuns \/ FilePlaced
  BY <1>1, Typed DEF SyncRuns, FilePlaced, Actions
<1>2. CASE Steps1 \/ Talks
  BY <1>2, Typed, StepsReset, TalksMove
<1>3. CASE Starts
  <2>1. CASE Killed
    BY <2>1, Typed DEF Killed
  <2>2. ASSUME NEW m \in {"sync", "release"}, Command(m)
        PROVE  /\ swaps' \in 0..moves' /\ runs' \in 0..MaxRuns /\ moves' \in 0..MaxMoves
               /\ crashes' \in 0..MaxCrash /\ reborn' \in BOOLEAN
    <3>1. swaps' = 0 /\ runs' \in 0..MaxRuns /\ UNCHANGED <<moves, crashes>>
      BY <2>2, Typed DEF Command
    <3>2. reborn' \in BOOLEAN
      BY <2>2 DEF Command
    <3>. QED BY <3>1, <3>2, Typed
  <2>. QED BY <1>3, <2>1, <2>2 DEF Starts
<1>4. ASSUME NEW d \in Devices, Handle(d) \/ DiskGoes(d)
      PROVE  UNCHANGED bounds
  BY <1>4 DEF DiskGoes, Leave, Handle
<1>5. ASSUME NEW d \in Devices, Unplug(d) \/ Plug(d)
      PROVE  /\ moves < MaxMoves /\ moves' = moves + 1 /\ swaps' \in {swaps, swaps + 1}
             /\ UNCHANGED <<runs, crashes>> /\ reborn' \in BOOLEAN
  BY <1>5, Typed DEF Unplug, Leave, Plug
<1>6. CASE Moves \/ \E d \in Devices : Handle(d)
  <2>1. CASE UNCHANGED bounds
    BY <2>1, Typed
  <2>2. CASE /\ moves < MaxMoves /\ moves' = moves + 1 /\ swaps' \in {swaps, swaps + 1}
             /\ UNCHANGED <<runs, crashes>> /\ reborn' \in BOOLEAN
    BY <2>2, Typed
  <2>. QED BY <1>4, <1>5, <1>6, <2>1, <2>2 DEF Moves
<1>. QED BY <1>1, <1>2, <1>3, <1>6, Kinds

LEMMA TypeStep == ASSUME IInv, Next PROVE TypeOK'
<1>1. /\ cli' \in [pc : Points, mode : {"none", "sync", "release"},
                expected : Devices \cup {None}, target : Devices \cup {None},
                binding : Devices \cup {None}, locked : BOOLEAN,
                port : BOOLEAN, late : BOOLEAN]
  BY CliTypeStep DEF CliType
<1>2. gate' \in [state : {"OPEN", "SEALED_FOR_RELEASE", "HOST_QUIESCED",
                         "RELEASE_ACCEPTED", "RELEASED"},
                 ordinary : SUBSET {"self", "other"}, control : BOOLEAN,
                 drained : BOOLEAN]
  BY GateTypeStep DEF GateType
<1>3. /\ cdc' \in [Devices -> [req : Attempts \cup {None}, reply : Replies \cup {None},
                           shut : BOOLEAN]]
      /\ accepted' \in [Devices -> SUBSET Attempts] /\ gone' \subseteq Attempts
  BY WireTypeStep DEF WireType
<1>4. cli'.mode = "release" /\ cli'.pc \in {"id", "hooks", "resolve", "seal"}
           => gate'.state = "OPEN"
  BY GateStep DEF GateState
<1>5. gate'.control <=> cli'.pc \in {"lock", "bound", "before", "open", "after",
                          "write", "reply", "pollDisk", "pollMount", "deadline"}
  BY GateStep DEF Control, Sent
<1>. QED BY <1>1, <1>2, <1>3, <1>4, <1>5, SyncTypes, OutcomeTypeStep, BoundsStep, Zenon
         DEF TypeOK

LEMMA BusStep == ASSUME IInv, Next PROVE BusIsTrue'
<1>0. BusIsTrue /\ bus \in BusType /\ accepted \in [Devices -> SUBSET Attempts]
  BY Typed DEF IInv
<1>1. CASE SyncRuns \/ FilePlaced
  <2>1. UNCHANGED <<bus, cdc, accepted, gone>>
    BY <1>1, SyncFrame DEF SyncRuns, FilePlaced, Actions, PlaceFile
  <2>. QED BY <1>0, <2>1 DEF BusIsTrue
<1>2. CASE Steps1 \/ Starts
  <2>1. UNCHANGED <<bus, cdc, accepted, gone>>
    BY <1>2, StepsReset DEF Starts, Command, Killed
  <2>. QED BY <1>0, <2>1 DEF BusIsTrue
<1>3. CASE Talks
  <2>1. Pc("write") /\ cli.port => cli.binding \in bus.present
    BY <1>3, TalksMove, AtPort DEF IInv, HandlesState
  <2>. QED BY <1>0, <1>3, <2>1, TalksMove, AtPort, Delivered, ReplyRead DEF BusIsTrue
<1>4. ASSUME NEW d \in Devices, Handle(d) PROVE BusIsTrue'
  <2>1. bus' = bus /\ gone' = gone /\ d \in bus.present
    BY <1>4 DEF Handle
  <2>. QED BY <1>0, <1>4, <2>1, Handled DEF BusIsTrue
<1>5. ASSUME NEW d \in Devices, Leave(d) PROVE BusIsTrue'
  <2>1. /\ bus'.present = bus.present \ {d} /\ bus'.letter \in {bus.letter, None} \ {d}
        /\ bus'.com \in {bus.com, None} \ {d}
        /\ accepted' = accepted /\ gone' = gone \cup accepted[d]
    BY <1>5, SyncAssumption DEF Leave
  <2>. QED BY <1>0, <1>5, <2>1, Left DEF BusIsTrue
<1>6. ASSUME NEW d \in Devices, Plug(d) PROVE BusIsTrue'
  <2>1. /\ bus'.present = bus.present \cup {d} /\ bus'.letter \in {bus.letter, d}
        /\ bus'.com \in {bus.com, d}
        /\ accepted' = accepted /\ gone' = gone
    BY <1>6 DEF Plug
  <2>. QED BY <1>0, <1>6, <2>1, Plugs, ZenonT(60) DEF BusIsTrue
<1>. QED BY <1>1, <1>2, <1>3, <1>4, <1>5, <1>6, Kinds DEF Moves, DiskGoes, Unplug

-----------------------------------------------------------------------------
(* Rows and files of the library matter to Synced, and only they.           *)
LEMMA SyncedFrame ==
    ASSUME IInv, NEW d \in Devices, Synced(d),
           UNCHANGED <<row, final>> \/ FilePlaced
    PROVE  Synced(d)'
<1>1. CASE UNCHANGED <<row, final>>
  BY <1>1 DEF Synced, Whole
<1>2. CASE FilePlaced
  <2>1. PICK r \in Recordings, e \in Devices \cup {Foreign} : PlaceFile(r, Whole(e))
    BY <1>2 DEF FilePlaced
  <2>2. /\ row' = row /\ final[r] = None /\ final' = [final EXCEPT ![r] = Whole(e)]
    BY <2>1 DEF PlaceFile
  <2>3. final \in [Recordings -> Files \cup {None}]
    BY DEF IInv, TypeOK, SyncTypeOK
  <2>. SUFFICES ASSUME NEW k \in 1..Len(Holds[d])
                PROVE  /\ row'[Holds[d][k]] = [dev |-> d, status |-> "SYNCED"]
                       /\ final'[Holds[d][k]] = Whole(d)
    BY DEF Synced, Whole
  <2>4. /\ row[Holds[d][k]] = [dev |-> d, status |-> "SYNCED"]
        /\ final[Holds[d][k]] = Whole(d)
    BY DEF Synced
  <2>. QED BY <2>2, <2>3, <2>4, WholeIsFile
<1>. QED BY <1>1, <1>2

(* sync_device that ends without a conflict has copied all of the device it *)
(* inspected.                                                               *)
LEMMA DoneIsSynced ==
    ASSUME IInv, sync.at = "done", sync.conflicts = 0
    PROVE  sync.dev \in Devices /\ Synced(sync.dev)
<1>1. sync.at \in Listed
  BY DEF Listed
<1>2. sync.dev \in Devices /\ sync.todo = <<>>
  BY <1>1 DEF IInv, Library, TodoIsRest
<1>3. Len(Holds[sync.dev]) \in Nat /\ Len(sync.todo) = 0
  BY <1>2, HoldsType
<1>4. Behind = Len(Holds[sync.dev])
  BY <1>3 DEF Behind
<1>. QED BY <1>1, <1>2, <1>4 DEF IInv, Library, BehindSynced, IsSynced, Synced

Fixed == /\ cli'.expected = cli.expected /\ cli'.target = cli.target
         /\ cli'.binding = cli.binding /\ cli'.mode = cli.mode
         /\ cli'.pc # "idle" /\ cli.pc # "idle" /\ sync' = sync

(* A step that neither reads the letter nor compares it.                    *)
KeepsReading ==
    /\ cli'.expected = cli.expected /\ cli'.target = cli.target /\ cli'.binding = cli.binding
    /\ cli'.mode = cli.mode /\ cli.pc # "idle" /\ sync'.dev = sync.dev
    /\ cli'.pc # "id" => cli.pc # "id"
    /\ cli'.pc \in Copied => cli.pc \in Copied
    /\ cli'.pc \in Resolved => cli.pc \in Resolved
    /\ cli'.pc \in Compared \cup {"topology"} => cli.pc \in Compared \cup {"topology"}
    /\ cli'.pc \in Compared => cli.pc \in Compared
    /\ cli'.pc \in Frozen => cli.pc \in Frozen

LEMMA ReadingKinds ==
    ASSUME IInv, Steps1 \/ Talks, cli'.pc # "idle"
    PROVE  \/ DeviceId \/ SyncReturns \/ Resolve \/ Identity \/ Topology \/ Endpoint
           \/ KeepsReading
<1>0. cli \in CliType
  BY Typed
<1>1. CASE Hooks
  <2>1. Fixed /\ cli.pc = "hooks" /\ cli'.pc = "resolve"
    BY <1>0, <1>1 DEF Hooks, Fixed, CliType, NoCommand
  <2>. QED BY <2>1 DEF Fixed, KeepsReading, Copied, Resolved, Compared, Frozen
<1>2. CASE Available \/ Seal
  <2>1. ASSUME Available PROVE Fixed /\ cli.pc = "available" /\ cli'.pc = "seal"
    <3>1. /\ cli.pc = "available" /\ sync' = sync
          /\ cli' = NoCommand \/ cli' = [cli EXCEPT !.pc = "seal"]
      BY <2>1 DEF Available
    <3>. QED BY <1>0, <3>1 DEF Fixed, CliType, NoCommand
  <2>2. ASSUME Seal PROVE Fixed /\ cli.pc = "seal" /\ cli'.pc = "drain"
    <3>1. /\ cli.pc = "seal" /\ sync' = sync
          /\ cli' = NoCommand \/ cli' = [cli EXCEPT !.pc = "drain", !.late = FALSE]
      BY <2>2 DEF Seal
    <3>2. cli' = [cli EXCEPT !.pc = "drain", !.late = FALSE]
      BY <3>1 DEF NoCommand
    <3>3. /\ cli'.pc = "drain" /\ cli'.mode = cli.mode /\ cli'.expected = cli.expected
          /\ cli'.target = cli.target /\ cli'.binding = cli.binding
      BY <1>0, <3>2 DEF CliType
    <3>. QED BY <3>1, <3>3 DEF Fixed
  <2>. QED BY <1>2, <2>1, <2>2 DEF Fixed, KeepsReading, Copied, Resolved, Compared, Frozen
<1>3. CASE Drain \/ LockAndDismount
  <2>1. ASSUME Drain PROVE Fixed /\ cli.pc = "drain" /\ cli'.pc = "lock"
    <3>1. /\ cli.pc = "drain" /\ sync' = sync
          /\ cli' = NoCommand \/ cli' = [cli EXCEPT !.pc = "lock"]
      BY <2>1 DEF Drain
    <3>. QED BY <1>0, <3>1 DEF Fixed, CliType, NoCommand
  <2>2. ASSUME LockAndDismount PROVE Fixed /\ cli.pc = "lock" /\ cli'.pc = "bound"
    <3>1. /\ cli.pc = "lock" /\ sync' = sync
          /\ cli' = NoCommand \/ cli' = [cli EXCEPT !.pc = "bound", !.locked = TRUE]
      BY <2>2 DEF LockAndDismount
    <3>2. cli' = [cli EXCEPT !.pc = "bound", !.locked = TRUE]
      BY <3>1 DEF NoCommand
    <3>3. /\ cli'.pc = "bound" /\ cli'.mode = cli.mode /\ cli'.expected = cli.expected
          /\ cli'.target = cli.target /\ cli'.binding = cli.binding
      BY <1>0, <3>2 DEF CliType
    <3>. QED BY <3>1, <3>3 DEF Fixed
  <2>. QED BY <1>3, <2>1, <2>2 DEF Fixed, KeepsReading, Copied, Resolved, Compared, Frozen
<1>4. CASE Bound \/ Before \/ OpenPort \/ After
  <2>1. Bound \/ Before \/ After =>
          Fixed /\ <<cli.pc, cli'.pc>> \in {<<"bound", "before">>, <<"before", "open">>,
                                           <<"after", "write">>}
    BY <1>0 DEF Bound, Before, After, Fixed, CliType, NoCommand
  <2>2. ASSUME OpenPort PROVE Fixed /\ cli.pc = "open" /\ cli'.pc = "after"
    <3>1. /\ cli.pc = "open" /\ sync' = sync
          /\ cli' = NoCommand \/ cli' = [cli EXCEPT !.pc = "after", !.port = TRUE]
      BY <2>2 DEF OpenPort
    <3>2. cli' = [cli EXCEPT !.pc = "after", !.port = TRUE]
      BY <3>1 DEF NoCommand
    <3>3. /\ cli'.pc = "after" /\ cli'.mode = cli.mode /\ cli'.expected = cli.expected
          /\ cli'.target = cli.target /\ cli'.binding = cli.binding
      BY <1>0, <3>2 DEF CliType
    <3>. QED BY <3>1, <3>3 DEF Fixed
  <2>. QED BY <1>4, <2>1, <2>2 DEF Fixed, KeepsReading, Copied, Resolved, Compared, Frozen
<1>5. CASE PollDisk \/ PollMount \/ Deadline
  <2>1. Fixed /\ cli.pc \in Granted /\ cli'.pc \in Granted
    BY <1>0, <1>5 DEF PollDisk, PollMount, Deadline, Fixed, CliType, NoCommand, Granted
  <2>. QED BY <2>1 DEF Fixed, KeepsReading, Copied, Resolved, Compared, Frozen, Granted
<1>6. CASE HooksFail \/ ResolveFails \/ LockFails \/ TimeoutsFail \/ PollFails
           \/ WriteFails \/ Garbled \/ NoReply \/ DrainTimeout
  <2>1. cli' = NoCommand
    BY <1>6 DEF HooksFail, ResolveFails, LockFails, TimeoutsFail, PollFails, WriteFails,
       Garbled, NoReply, DrainTimeout
  <2>. QED BY <2>1 DEF NoCommand
<1>7. CASE DeadlinePasses \/ OtherEnters \/ OtherLeaves
  <2>1. Fixed /\ cli'.pc = cli.pc
    BY <1>0, <1>7 DEF DeadlinePasses, OtherEnters, OtherLeaves, Fixed, CliType
  <2>. QED BY <2>1 DEF Fixed, KeepsReading
<1>8. CASE WriteRequest \/ ReadReply
  <2>1. ASSUME WriteRequest PROVE Fixed /\ cli.pc = "write" /\ cli'.pc = "reply"
    <3>1. /\ cli.pc = "write" /\ sync' = sync
          /\ cli' = NoCommand \/ cli' = [cli EXCEPT !.pc = "reply", !.late = FALSE]
      BY <2>1 DEF WriteRequest
    <3>2. cli' = [cli EXCEPT !.pc = "reply", !.late = FALSE]
      BY <3>1 DEF NoCommand
    <3>3. /\ cli'.pc = "reply" /\ cli'.mode = cli.mode /\ cli'.expected = cli.expected
          /\ cli'.target = cli.target /\ cli'.binding = cli.binding
      BY <1>0, <3>2 DEF CliType
    <3>. QED BY <3>1, <3>3 DEF Fixed
  <2>2. ASSUME ReadReply PROVE Fixed /\ cli.pc = "reply" /\ cli'.pc = "pollDisk"
    <3>1. /\ cli.pc = "reply" /\ sync' = sync
          /\ cli' = NoCommand \/ cli' = [cli EXCEPT !.pc = "pollDisk", !.late = FALSE]
      BY <2>2 DEF ReadReply
    <3>2. cli' = [cli EXCEPT !.pc = "pollDisk", !.late = FALSE]
      BY <3>1 DEF NoCommand
    <3>3. /\ cli'.pc = "pollDisk" /\ cli'.mode = cli.mode /\ cli'.expected = cli.expected
          /\ cli'.target = cli.target /\ cli'.binding = cli.binding
      BY <1>0, <3>2 DEF CliType
    <3>. QED BY <3>1, <3>3 DEF Fixed
  <2>. QED BY <1>8, <2>1, <2>2 DEF Fixed, KeepsReading, Copied, Resolved, Compared, Frozen
<1>. QED BY <1>1, <1>2, <1>3, <1>4, <1>5, <1>6, <1>7, <1>8 DEF Steps1, Talks

(* What was read of the letter is worth as much after such a step: a letter *)
(* that goes to another device during the command is counted.               *)
ReadingHolds ==
    /\ swaps \in Nat /\ swaps' \in Nat /\ swaps' >= swaps
    /\ swaps' = swaps => bus'.letter \in {bus.letter, None}
    /\ \A e \in Devices : Synced(e) => Synced(e)'

LEMMA HeldHolds ==
    ASSUME ReadingHolds, NEW x \in Devices, NEW n \in Nat
    PROVE  /\ Held(x, n) => swaps' >= n /\ (swaps' = n => bus'.letter \in {x, None})
           /\ PassedOn(x) => swaps' >= 2 \/ (swaps' = 1 /\ bus'.letter # x)
  BY SyncAssumption DEF ReadingHolds, Held, PassedOn, LetterWentRound

LEMMA StillSynced ==
    ASSUME ReadingHolds, cli'.expected = cli.expected, cli.expected \in Devices,
           Synced(cli.expected)
    PROVE  Synced(cli.expected)'
<1>1. Synced(cli.expected)' <=> (\A k \in 1..Len(Holds[cli.expected]) :
         LET r == Holds[cli.expected][k] IN row'[r] = [dev |-> cli.expected, status |-> "SYNCED"]
                              /\ final'[r] = Whole(cli.expected))
  BY DEF Synced, Whole
<1>. QED BY <1>1 DEF ReadingHolds, Synced, Whole

LEMMA ReadingsKept ==
    ASSUME IInv, KeepsReading, ReadingHolds, cli'.mode = "release"
    PROVE  Readings'
<1>1. /\ cli'.expected = cli.expected /\ cli'.target = cli.target
      /\ cli'.binding = cli.binding /\ sync'.dev = sync.dev
      /\ cli.pc # "idle" /\ cli.mode = "release"
  BY DEF KeepsReading
<1>2. Readings
  BY DEF IInv
<1>3. cli'.pc \in Copied \cup Resolved \cup Compared \cup {"topology"} \cup Frozen => cli'.pc # "id"
  BY DEF Copied, Resolved, Compared, Frozen
<1>4. cli'.pc # "id" => cli.expected \in Devices
  BY <1>1, <1>2 DEF Readings, KeepsReading
<1>5. cli'.pc # "id" => swaps' >= 0 /\ (swaps' = 0 => bus'.letter \in {cli.expected, None})
  <2>1. cli'.pc # "id" => Held(cli.expected, 0)
    BY <1>1, <1>2 DEF Readings, KeepsReading
  <2>. QED BY <1>4, <2>1, HeldHolds
<1>6. ASSUME cli'.pc # "id", sync'.dev \notin {cli.expected, None}
      PROVE  swaps' >= 2 \/ (swaps' = 1 /\ bus'.letter # cli.expected)
  <2>1. PassedOn(cli.expected)
    BY <1>1, <1>2, <1>6 DEF Readings, KeepsReading
  <2>. QED BY <1>4, <1>6, <2>1, HeldHolds
<1>7. ASSUME cli'.pc \in Copied
      PROVE  Synced(cli.expected)' \/ swaps' >= 2 \/ (swaps' = 1 /\ bus'.letter # cli.expected)
  <2>1. Synced(cli.expected) \/ PassedOn(cli.expected)
    BY <1>1, <1>2, <1>7 DEF Readings, KeepsReading
  <2>2. cli.expected \in Devices
    BY <1>3, <1>4, <1>7
  <2>. QED BY <1>1, <2>1, <2>2, StillSynced, HeldHolds
<1>8. ASSUME cli'.pc \in Resolved
      PROVE  /\ cli.target \in Devices
             /\ cli.target # cli.expected =>
                   swaps' >= 1 /\ (swaps' = 1 => bus'.letter \in {cli.target, None})
  <2>1. cli.target \in Devices /\ (cli.target # cli.expected => Held(cli.target, 1))
    BY <1>1, <1>2, <1>8 DEF Readings, KeepsReading
  <2>. QED BY <2>1, HeldHolds
<1>9. ASSUME cli'.pc \in Compared \cup {"topology"}
      PROVE  /\ Synced(cli.expected)' \/ swaps' >= 2
             /\ cli.target # cli.expected =>
                   swaps' >= 2 /\ (swaps' = 2 => bus'.letter \in {cli.expected, None})
  <2>1. /\ Synced(cli.expected) \/ swaps >= 2
        /\ cli.target # cli.expected => Held(cli.expected, 2)
    BY <1>1, <1>2, <1>9 DEF Readings, KeepsReading, LetterWentRound
  <2>2. cli.expected \in Devices
    BY <1>3, <1>4, <1>9
  <2>3. swaps >= 2 => swaps' >= 2
    BY DEF ReadingHolds
  <2>. QED BY <1>1, <2>1, <2>2, <2>3, StillSynced, HeldHolds
<1>10. ASSUME cli'.pc \in Compared, cli.target # cli.expected
       PROVE  swaps' >= 3
  <2>1. swaps >= 3
    BY <1>1, <1>2, <1>10 DEF Readings, KeepsReading, LetterWentOn
  <2>. QED BY <2>1 DEF ReadingHolds
<1>11. cli'.pc \in Frozen => cli'.binding = cli'.target
  BY <1>1, <1>2 DEF Readings, KeepsReading
<1>. QED BY <1>1, <1>4, <1>5, <1>6, <1>7, <1>8, <1>9, <1>10, <1>11
         DEF Readings, PassedOn, Held, LetterWentRound, LetterWentOn

LEMMA StillHolds ==
    ASSUME IInv, cli.mode = "release",
           FilePlaced \/ Steps1 \/ Talks \/ Moves \/ \E d \in Devices : Handle(d)
    PROVE  ReadingHolds
<1>1. \A e \in Devices : Synced(e) => Synced(e)'
  <2>1. FilePlaced \/ UNCHANGED <<row, final>>
    BY StepsReset, OthersReset DEF Resets
  <2>. QED BY <2>1, SyncedFrame
<1>2. CASE swaps' = swaps /\ bus'.letter \in {bus.letter, None}
  BY <1>1, <1>2, Typed DEF ReadingHolds
<1>3. CASE FilePlaced \/ Steps1 \/ Talks \/ \E d \in Devices : Handle(d)
  <2>1. swaps' = swaps /\ bus' = bus
    BY <1>3, StepsReset, TalksMove DEF FilePlaced, PlaceFile, Actions, Handle
  <2>. QED BY <1>2, <2>1
<1>4. ASSUME NEW d \in Devices, Leave(d) PROVE ReadingHolds
  <2>1. swaps' = swaps /\ bus'.letter \in {bus.letter, None}
    BY <1>4 DEF Leave
  <2>. QED BY <1>2, <2>1
<1>5. ASSUME NEW d \in Devices, Plug(d) PROVE ReadingHolds
  <2>1. /\ bus.letter = None => bus'.letter = d /\ swaps' = swaps + 1
        /\ bus.letter # None => bus'.letter = bus.letter /\ swaps' = swaps
    BY <1>5 DEF Plug
  <2>2. swaps \in Nat
    BY Typed
  <2>3. CASE bus.letter = None
    BY <1>1, <2>1, <2>2, <2>3 DEF ReadingHolds
  <2>. QED BY <1>2, <2>1, <2>3
<1>. QED BY <1>3, <1>4, <1>5 DEF Moves, DiskGoes, Unplug

LEMMA ReadingsStep == ASSUME IInv, Next PROVE Readings'
<1>0. cli \in CliType /\ bus \in BusType /\ swaps \in Nat
  BY Typed
<1>. SUFFICES ASSUME cli'.pc # "idle", cli'.mode = "release" PROVE Readings'
  BY DEF Readings
<1>i. Readings /\ CommandState
  BY DEF IInv
<1>1. CASE SyncRuns
  <2>1. cli' = cli /\ cli.pc = "sync" /\ bus' = bus /\ swaps' = swaps
    BY <1>1, SyncFrame DEF SyncRuns, Actions
  <2>2. sync'.dev \in {sync.dev, bus.letter}
    <3>1. sync \in [at : SyncPoints, dev : Devices \cup {None}, src : Devices \cup {None},
                    todo : Seq(Recordings), conflicts : Nat]
      BY DEF IInv, TypeOK, SyncTypeOK
    <3>. QED BY <1>1, <3>1, SyncLocals DEF SyncRuns, SyncMoves, NextRecording, NextAfterConflict
  <2>3. /\ cli.expected \in Devices
        /\ Held(cli.expected, 0)
        /\ sync.dev \notin {cli.expected, None} => PassedOn(cli.expected)
    BY <1>i, <2>1 DEF Readings
  <2>4. bus.letter \notin {cli.expected, None} => PassedOn(cli.expected)
    BY <1>0, <2>3 DEF PassedOn, Held, LetterWentRound
  <2>5. "sync" \notin Copied \cup Resolved \cup Compared \cup {"topology"} \cup Frozen
    BY DEF Copied, Resolved, Compared, Frozen
  <2>. QED BY <2>1, <2>2, <2>3, <2>4, <2>5 DEF Readings, PassedOn, Held, LetterWentRound
<1>2. CASE FilePlaced \/ Moves \/ \E d \in Devices : Handle(d)
  <2>1. /\ cli'.pc = cli.pc /\ cli'.mode = cli.mode /\ cli'.expected = cli.expected
        /\ cli'.target = cli.target /\ cli'.binding = cli.binding
    BY <1>2, OutsideLocals
  <2>2. sync'.dev = sync.dev
    <3>1. sync \in [at : SyncPoints, dev : Devices \cup {None}, src : Devices \cup {None},
                    todo : Seq(Recordings), conflicts : Nat]
      BY DEF IInv, TypeOK, SyncTypeOK
    <3>. QED BY <1>2, <3>1 DEF FilePlaced, PlaceFile, Moves, DiskGoes, Unplug, Leave, Plug, Handle
  <2>3. KeepsReading
    BY <2>1, <2>2 DEF KeepsReading
  <2>. QED BY <1>2, <2>1, <2>3, StillHolds, ReadingsKept
<1>3. CASE Starts
  <2>1. cli'.pc = "id"
    <3>1. ~Killed
      BY DEF Killed, NoCommand
    <3>2. PICK m \in {"sync", "release"} : Command(m)
      BY <1>3, <3>1 DEF Starts
    <3>3. /\ cli'.pc = (IF m = "sync" THEN "sync" ELSE "id") /\ cli'.mode = m
      BY <3>2 DEF Command, NoCommand
    <3>. QED BY <3>3
  <2>. QED BY <2>1 DEF Readings, Copied, Resolved, Compared, Frozen
<1>4. CASE Steps1 \/ Talks
  <2>0. UNCHANGED <<bus, swaps, row, final>>
    BY <1>4, StepsReset, TalksMove, OthersReset DEF Resets
  <2>e. "sync" \notin Copied \cup Resolved \cup Compared \cup {"topology"} \cup Frozen
    BY DEF Copied, Resolved, Compared, Frozen
  <2>1. CASE DeviceId
    <3>1. /\ cli' = [cli EXCEPT !.pc = "sync", !.expected = bus.letter]
          /\ bus.letter # None /\ sync' = [NotSyncing EXCEPT !.at = "inspect"]
      BY <2>1 DEF DeviceId, NoCommand
    <3>2. /\ cli'.pc = "sync" /\ cli'.expected = bus.letter /\ bus.letter \in Devices
      BY <1>0, <3>1 DEF CliType, BusType
    <3>3. sync'.dev = None
      BY <3>1 DEF NotSyncing
    <3>4. swaps >= 0
      BY <1>0
    <3>. QED BY <2>0, <2>e, <3>2, <3>3, <3>4 DEF Readings, Held
  <2>h. cli.mode = "release" => ReadingHolds
    BY <1>4, StillHolds
  <2>2. CASE SyncReturns
    <3>0. sync'.dev = None
      BY <2>2 DEF SyncReturns, NotSyncing
    <3>1. /\ cli.pc = "sync" /\ cli' = [cli EXCEPT !.pc = "hooks"]
          /\ cli.mode = "release" /\ sync.at = "done" /\ sync.conflicts = 0
      BY <2>2 DEF SyncReturns, NoCommand
    <3>2. cli'.pc = "hooks" /\ cli'.expected = cli.expected
      BY <1>0, <3>1 DEF CliType
    <3>3. /\ cli.expected \in Devices
          /\ Held(cli.expected, 0)
          /\ sync.dev \notin {cli.expected, None} => PassedOn(cli.expected)
      BY <1>i, <3>1 DEF Readings
    <3>4. Synced(cli.expected) \/ PassedOn(cli.expected)
      BY <3>1, <3>3, DoneIsSynced, SyncAssumption
    <3>5. Synced(cli.expected)' \/ PassedOn(cli.expected)
      BY <2>h, <3>1, <3>2, <3>3, <3>4, StillSynced
    <3>6. "hooks" \notin Resolved \cup Compared \cup {"topology"} \cup Frozen
      BY DEF Resolved, Compared, Frozen
    <3>. QED BY <2>0, <3>0, <3>2, <3>3, <3>5, <3>6 DEF Readings, PassedOn, Held, LetterWentRound
  <2>3. CASE Resolve
    <3>1. /\ cli.pc = "resolve" /\ cli' = [cli EXCEPT !.pc = "identity", !.target = bus.letter]
          /\ bus.letter # None /\ sync' = sync
      BY <2>3 DEF Resolve, NoCommand
    <3>2. /\ cli'.pc = "identity" /\ cli'.expected = cli.expected /\ cli'.target = bus.letter
          /\ cli'.mode = cli.mode /\ bus.letter \in Devices
      BY <1>0, <3>1 DEF CliType, BusType
    <3>3. /\ cli.expected \in Devices
          /\ Held(cli.expected, 0)
          /\ sync.dev \notin {cli.expected, None} => PassedOn(cli.expected)
          /\ Synced(cli.expected) \/ PassedOn(cli.expected)
      BY <1>i, <3>1, <3>2 DEF Readings, Copied
    <3>4. Synced(cli.expected)' \/ PassedOn(cli.expected)
      BY <2>h, <3>2, <3>3, StillSynced
    <3>5. bus.letter # cli.expected => Held(bus.letter, 1)
      BY <1>0, <3>1, <3>3 DEF Held
    <3>6. "identity" \notin Compared \cup {"topology"} \cup Frozen
      BY DEF Compared, Frozen
    <3>. QED BY <2>0, <3>1, <3>2, <3>3, <3>4, <3>5, <3>6 DEF Readings, PassedOn, Held, LetterWentRound
  <2>4. CASE Identity
    <3>1. /\ cli.pc = "identity" /\ cli' = [cli EXCEPT !.pc = "topology"]
          /\ bus.letter = cli.expected /\ sync' = sync
      BY <2>4 DEF Identity, SameIdentity, NoCommand
    <3>2. /\ cli'.pc = "topology" /\ cli'.expected = cli.expected /\ cli'.target = cli.target
          /\ cli'.mode = cli.mode
      BY <1>0, <3>1 DEF CliType
    <3>3. /\ cli.expected \in Devices /\ cli.target \in Devices /\ Held(cli.expected, 0)
          /\ sync.dev \notin {cli.expected, None} => PassedOn(cli.expected)
          /\ Synced(cli.expected) \/ PassedOn(cli.expected)
          /\ cli.target # cli.expected => Held(cli.target, 1)
      BY <1>i, <3>1, <3>2 DEF Readings, Copied, Resolved
    <3>4. PassedOn(cli.expected) => swaps >= 2
      BY <3>1 DEF PassedOn, LetterWentRound
    <3>5. Synced(cli.expected)' \/ swaps >= 2
      BY <2>h, <3>2, <3>3, <3>4, StillSynced
    <3>6. cli.target # cli.expected => Held(cli.expected, 2)
      BY <1>0, <3>1, <3>3, SyncAssumption DEF Held
    <3>7. "topology" \notin Frozen \cup Compared
      BY DEF Compared, Frozen
    <3>. QED BY <2>0, <3>1, <3>2, <3>3, <3>4, <3>5, <3>6, <3>7
             DEF Readings, PassedOn, Held, LetterWentRound
  <2>7. CASE Topology
    <3>1. /\ cli.pc = "topology" /\ cli' = [cli EXCEPT !.pc = "endpoint"]
          /\ bus.letter = cli.target /\ sync' = sync
      BY <2>7 DEF Topology, SameTopology, NoCommand
    <3>2. /\ cli'.pc = "endpoint" /\ cli'.expected = cli.expected /\ cli'.target = cli.target
          /\ cli'.mode = cli.mode
      BY <1>0, <3>1 DEF CliType
    <3>3. /\ cli.expected \in Devices /\ cli.target \in Devices /\ Held(cli.expected, 0)
          /\ sync.dev \notin {cli.expected, None} => PassedOn(cli.expected)
          /\ Synced(cli.expected) \/ PassedOn(cli.expected)
          /\ Synced(cli.expected) \/ LetterWentRound
          /\ cli.target # cli.expected => Held(cli.target, 1) /\ Held(cli.expected, 2)
      BY <1>i, <3>1, <3>2 DEF Readings, Copied, Resolved
    <3>4. Synced(cli.expected)' \/ LetterWentRound
      BY <2>h, <3>2, <3>3, StillSynced
    <3>5. cli.target # cli.expected => swaps >= 3
      BY <1>0, <3>1, <3>3, SyncAssumption DEF Held
    <3>6. "endpoint" \notin Frozen
      BY DEF Frozen
    <3>. QED BY <2>0, <3>1, <3>2, <3>3, <3>4, <3>5, <3>6
             DEF Readings, PassedOn, Held, LetterWentRound, LetterWentOn
  <2>5. CASE Endpoint
    <3>1. /\ cli.pc = "endpoint" /\ cli' = [cli EXCEPT !.pc = "available", !.binding = bus.com]
          /\ bus.com = cli.target /\ sync' = sync
      BY <2>5 DEF Endpoint, OnTarget, NoCommand
    <3>2. /\ cli'.pc = "available" /\ cli'.expected = cli.expected /\ cli'.target = cli.target
          /\ cli'.mode = cli.mode /\ cli'.binding = bus.com
      BY <1>0, <3>1 DEF CliType
    <3>3. /\ cli.expected \in Devices /\ cli.target \in Devices /\ Held(cli.expected, 0)
          /\ sync.dev \notin {cli.expected, None} => PassedOn(cli.expected)
          /\ Synced(cli.expected) \/ PassedOn(cli.expected)
          /\ Synced(cli.expected) \/ LetterWentRound
          /\ cli.target # cli.expected =>
                Held(cli.target, 1) /\ Held(cli.expected, 2) /\ LetterWentOn
      BY <1>i, <3>1, <3>2 DEF Readings, Resolved, Copied, Compared
    <3>4. Synced(cli.expected)' \/ LetterWentRound
      BY <2>h, <3>2, <3>3, StillSynced
    <3>. QED BY <2>0, <3>1, <3>2, <3>3, <3>4
             DEF Readings, PassedOn, Held, LetterWentRound, LetterWentOn
  <2>6. CASE KeepsReading
    <3>1. cli.mode = "release"
      BY <2>6 DEF KeepsReading
    <3>. QED BY <1>4, <2>6, <3>1, StillHolds, ReadingsKept
  <2>. QED BY <1>4, <2>1, <2>2, <2>3, <2>4, <2>5, <2>6, <2>7, ReadingKinds
<1>. QED BY <1>1, <1>2, <1>3, <1>4, Kinds

-----------------------------------------------------------------------------
(* What the lines say of a device is the same as before.                    *)
SameLine(d) ==
    /\ cdc'[d].req = cdc[d].req /\ cdc'[d].reply = cdc[d].reply
    /\ accepted'[d] = accepted[d] /\ runs' = runs

LEMMA LineKept ==
    ASSUME NEW d \in Devices, SameLine(d)
    PROVE  /\ Bounded(d) => Bounded(d)'
           /\ Unsent(d) => Unsent(d)'
           /\ Honest(d) => Honest(d)'
  BY DEF SameLine, Bounded, Unsent, Honest

(* A step that changes no line and stays before, or behind, the request.    *)
LEMMA AttemptKept ==
    ASSUME IInv, \A d \in Devices : SameLine(d), runs' = runs, gone \subseteq gone',
           cli'.pc \in Sent => cli.pc \in Sent /\ cli'.binding = cli.binding
                                            /\ cli'.target = cli.target,
           cli'.pc \notin Sent \cup {"idle"} => cli.pc \notin Sent \cup {"idle"},
           cli'.pc = "reply" => cli.pc = "reply",
           cli'.pc \in Granted => cli.pc \in Granted,
           cli'.pc = "pollMount" => runs \in gone
    PROVE  AttemptState'
<1>0. AttemptState
  BY DEF IInv
<1>1. \A d \in Devices : Bounded(d)'
  BY <1>0, LineKept DEF AttemptState
<1>2. cli'.pc \notin Sent \cup {"idle"} => \A d \in Devices : Unsent(d)'
  BY <1>0, LineKept DEF AttemptState
<1>3. cli'.pc \in Sent => \A d \in Devices : d # cli'.binding => Unsent(d)'
  BY <1>0, LineKept DEF AttemptState
<1>4. cli'.pc = "reply" => \A d \in Devices : Honest(d)'
  BY <1>0, LineKept DEF AttemptState
<1>5. cli'.pc \in Granted => runs' \in accepted'[cli'.target]
  <2>1. cli'.pc \in Granted => cli'.pc \in Sent /\ cli.pc \in Frozen
    BY DEF Granted, Sent, Frozen, Compared, Resolved, Copied
  <2>2. cli.pc \in Frozen => cli.target \in Devices
    BY AtPort
  <2>. QED BY <1>0, <2>1, <2>2 DEF AttemptState, SameLine
<1>. QED BY <1>1, <1>2, <1>3, <1>4, <1>5 DEF AttemptState

LEMMA StepsAttempt == ASSUME IInv, Steps1 PROVE AttemptState'
<1>0. cli \in CliType /\ AttemptState /\ BusIsTrue
  BY Typed DEF IInv
<1>1. /\ \A d \in Devices : SameLine(d)
      /\ runs' = runs /\ gone \subseteq gone'
  BY StepsReset DEF SameLine
<1>2. CASE cli'.pc = "idle"
  BY <1>1, <1>2, AttemptKept DEF Sent, Granted
<1>3. CASE cli'.pc # "idle" /\ cli.pc \notin Sent \cup {"idle"} /\ cli'.pc \notin Sent
  BY <1>1, <1>3, AttemptKept DEF Sent, Granted
<1>4. CASE DeviceId \/ SyncReturns \/ Resolve \/ Identity \/ Endpoint
  <2>1. CASE DeviceId
    <3>1. cli.pc = "id" /\ cli' \in {NoCommand, [cli EXCEPT !.pc = "sync", !.expected = bus.letter]}
      BY <2>1 DEF DeviceId
    <3>2. cli'.pc \in {"idle", "sync"}
      <4>1. CASE cli' = [cli EXCEPT !.pc = "sync", !.expected = bus.letter]
        BY <1>0, <4>1 DEF CliType
      <4>2. CASE cli' = NoCommand
        BY <4>2 DEF NoCommand
      <4>. QED BY <3>1, <4>1, <4>2
    <3>. QED BY <1>2, <1>3, <3>1, <3>2 DEF Sent
  <2>2. CASE SyncReturns
    <3>1. cli.pc = "sync" /\ cli' \in {NoCommand, [cli EXCEPT !.pc = "hooks"]}
      BY <2>2 DEF SyncReturns
    <3>2. cli'.pc \in {"idle", "hooks"}
      BY <1>0, <3>1 DEF CliType, NoCommand
    <3>. QED BY <1>2, <1>3, <3>1, <3>2 DEF Sent
  <2>3. CASE Resolve
    <3>1. cli.pc = "resolve" /\ cli' \in {NoCommand, [cli EXCEPT !.pc = "identity", !.target = bus.letter]}
      BY <2>3 DEF Resolve
    <3>2. cli'.pc \in {"idle", "identity"}
      <4>1. CASE cli' = [cli EXCEPT !.pc = "identity", !.target = bus.letter]
        BY <1>0, <4>1 DEF CliType
      <4>2. CASE cli' = NoCommand
        BY <4>2 DEF NoCommand
      <4>. QED BY <3>1, <4>1, <4>2
    <3>. QED BY <1>2, <1>3, <3>1, <3>2 DEF Sent
  <2>4. CASE Identity
    <3>1. cli.pc = "identity" /\ cli' \in {NoCommand, [cli EXCEPT !.pc = "topology"]}
      BY <2>4 DEF Identity
    <3>2. cli'.pc \in {"idle", "topology"}
      BY <1>0, <3>1 DEF CliType, NoCommand
    <3>. QED BY <1>2, <1>3, <3>1, <3>2 DEF Sent
  <2>5. CASE Endpoint
    <3>1. cli.pc = "endpoint" /\ cli' \in {NoCommand, [cli EXCEPT !.pc = "available", !.binding = bus.com]}
      BY <2>5 DEF Endpoint
    <3>2. cli'.pc \in {"idle", "available"}
      <4>1. CASE cli' = [cli EXCEPT !.pc = "available", !.binding = bus.com]
        BY <1>0, <4>1 DEF CliType
      <4>2. CASE cli' = NoCommand
        BY <4>2 DEF NoCommand
      <4>. QED BY <3>1, <4>1, <4>2
    <3>. QED BY <1>2, <1>3, <3>1, <3>2 DEF Sent
  <2>. QED BY <1>4, <2>1, <2>2, <2>3, <2>4, <2>5
<1>5. CASE Hooks \/ Topology \/ Bound \/ Before \/ OpenPort \/ After
  <2>1. CASE Hooks
    <3>1. cli.pc = "hooks" /\ cli' \in {NoCommand, [cli EXCEPT !.pc = "resolve"]}
      BY <2>1 DEF Hooks
    <3>2. cli'.pc \in {"idle", "resolve"}
      BY <1>0, <3>1 DEF CliType, NoCommand
    <3>. QED BY <1>2, <1>3, <3>1, <3>2 DEF Sent
  <2>2. CASE Topology
    <3>1. cli.pc = "topology" /\ cli' \in {NoCommand, [cli EXCEPT !.pc = "endpoint"]}
      BY <2>2 DEF Topology
    <3>2. cli'.pc \in {"idle", "endpoint"}
      BY <1>0, <3>1 DEF CliType, NoCommand
    <3>. QED BY <1>2, <1>3, <3>1, <3>2 DEF Sent
  <2>3. CASE Bound
    <3>1. cli.pc = "bound" /\ cli' \in {NoCommand, [cli EXCEPT !.pc = "before"]}
      BY <2>3 DEF Bound
    <3>2. cli'.pc \in {"idle", "before"}
      BY <1>0, <3>1 DEF CliType, NoCommand
    <3>. QED BY <1>2, <1>3, <3>1, <3>2 DEF Sent
  <2>4. CASE Before
    <3>1. cli.pc = "before" /\ cli' \in {NoCommand, [cli EXCEPT !.pc = "open"]}
      BY <2>4 DEF Before
    <3>2. cli'.pc \in {"idle", "open"}
      BY <1>0, <3>1 DEF CliType, NoCommand
    <3>. QED BY <1>2, <1>3, <3>1, <3>2 DEF Sent
  <2>5. CASE OpenPort
    <3>1. cli.pc = "open" /\ cli' \in {NoCommand, [cli EXCEPT !.pc = "after", !.port = TRUE]}
      BY <2>5 DEF OpenPort
    <3>2. cli'.pc \in {"idle", "after"}
      <4>1. CASE cli' = [cli EXCEPT !.pc = "after", !.port = TRUE]
        BY <1>0, <4>1 DEF CliType
      <4>2. CASE cli' = NoCommand
        BY <4>2 DEF NoCommand
      <4>. QED BY <3>1, <4>1, <4>2
    <3>. QED BY <1>2, <1>3, <3>1, <3>2 DEF Sent
  <2>6. CASE After
    <3>1. cli.pc = "after" /\ cli' \in {NoCommand, [cli EXCEPT !.pc = "write"]}
      BY <2>6 DEF After
    <3>2. cli'.pc \in {"idle", "write"}
      BY <1>0, <3>1 DEF CliType, NoCommand
    <3>. QED BY <1>2, <1>3, <3>1, <3>2 DEF Sent
  <2>. QED BY <1>5, <2>1, <2>2, <2>3, <2>4, <2>5, <2>6
<1>6. CASE Available \/ Seal \/ Drain \/ LockAndDismount
  <2>1. CASE Available
    <3>1. cli.pc = "available" /\ cli' \in {NoCommand, [cli EXCEPT !.pc = "seal"]}
      BY <2>1 DEF Available
    <3>2. cli'.pc \in {"idle", "seal"}
      BY <1>0, <3>1 DEF CliType, NoCommand
    <3>. QED BY <1>2, <1>3, <3>1, <3>2 DEF Sent
  <2>2. CASE Seal
    <3>1. cli.pc = "seal" /\ cli' \in {NoCommand, [cli EXCEPT !.pc = "drain", !.late = FALSE]}
      BY <2>2 DEF Seal
    <3>2. cli'.pc \in {"idle", "drain"}
      <4>1. CASE cli' = [cli EXCEPT !.pc = "drain", !.late = FALSE]
        BY <1>0, <4>1 DEF CliType
      <4>2. CASE cli' = NoCommand
        BY <4>2 DEF NoCommand
      <4>. QED BY <3>1, <4>1, <4>2
    <3>. QED BY <1>2, <1>3, <3>1, <3>2 DEF Sent
  <2>3. CASE Drain
    <3>1. cli.pc = "drain" /\ cli' \in {NoCommand, [cli EXCEPT !.pc = "lock"]}
      BY <2>3 DEF Drain
    <3>2. cli'.pc \in {"idle", "lock"}
      BY <1>0, <3>1 DEF CliType, NoCommand
    <3>. QED BY <1>2, <1>3, <3>1, <3>2 DEF Sent
  <2>4. CASE LockAndDismount
    <3>1. cli.pc = "lock" /\ cli' \in {NoCommand, [cli EXCEPT !.pc = "bound", !.locked = TRUE]}
      BY <2>4 DEF LockAndDismount
    <3>2. cli'.pc \in {"idle", "bound"}
      <4>1. CASE cli' = [cli EXCEPT !.pc = "bound", !.locked = TRUE]
        BY <1>0, <4>1 DEF CliType
      <4>2. CASE cli' = NoCommand
        BY <4>2 DEF NoCommand
      <4>. QED BY <3>1, <4>1, <4>2
    <3>. QED BY <1>2, <1>3, <3>1, <3>2 DEF Sent
  <2>. QED BY <1>6, <2>1, <2>2, <2>3, <2>4
<1>7. CASE cli'.pc # "idle" /\ KeepsReading /\ (PollDisk \/ PollMount \/ Deadline)
  <2>1. /\ cli.pc \in Granted /\ cli'.pc \in Granted
        /\ cli'.pc = "pollMount" => cli.target \notin bus.present
    BY <1>0, <1>7 DEF PollDisk, PollMount, Deadline, CliType, NoCommand, Granted
  <2>2. cli.pc \in Frozen
    BY <2>1 DEF Granted, Frozen, Compared, Resolved, Copied
  <2>3. cli'.pc = "pollMount" => runs \in gone
    BY <1>0, <2>1, <2>2, AtPort DEF BusIsTrue, AttemptState
  <2>4. cli'.binding = cli.binding /\ cli'.target = cli.target
    BY <1>7 DEF KeepsReading
  <2>5. cli.pc \in Sent /\ cli'.pc \in Sent /\ cli'.pc # "reply"
    BY <2>1 DEF Granted, Sent
  <2>. QED BY <1>1, <2>1, <2>3, <2>4, <2>5, AttemptKept
<1>8. CASE DeadlinePasses \/ OtherEnters \/ OtherLeaves
  <2>1. cli'.pc = cli.pc /\ cli'.binding = cli.binding /\ cli'.target = cli.target
    BY <1>0, <1>8 DEF DeadlinePasses, OtherEnters, OtherLeaves, CliType
  <2>. QED BY <1>0, <1>1, <2>1, AttemptKept DEF AttemptState
<1>9. CASE HooksFail \/ ResolveFails \/ LockFails \/ TimeoutsFail \/ PollFails
           \/ NoReply \/ DrainTimeout
  <2>1. cli' = NoCommand
    BY <1>9 DEF HooksFail, ResolveFails, LockFails, TimeoutsFail, PollFails, NoReply, DrainTimeout
  <2>. QED BY <1>2, <2>1 DEF NoCommand
<1>10. PollDisk \/ PollMount \/ Deadline =>
         ~(DeviceId \/ SyncReturns \/ Resolve \/ Identity \/ Topology \/ Endpoint)
  BY DEF PollDisk, PollMount, Deadline, DeviceId, SyncReturns, Resolve, Identity, Topology, Endpoint
<1>. QED BY <1>2, <1>4, <1>5, <1>6, <1>7, <1>8, <1>9, <1>10, ReadingKinds DEF Steps1

(* A device that handles a request keeps the account honest.                *)
LEMMA HandleAttempt == ASSUME IInv, NEW d \in Devices, Handle(d) PROVE AttemptState'
<1>0. /\ AttemptState /\ accepted \in [Devices -> SUBSET Attempts]
      /\ cdc \in [Devices -> WireType]
  BY Typed DEF IInv
<1>1. UNCHANGED <<cli, gone, runs>>
  BY DEF Handle
<1>2. \A e \in Devices : e # d => SameLine(e)
  BY <1>1, Handled DEF SameLine
<1>3. PICK yes \in BOOLEAN :
        /\ accepted'[d] = IF yes THEN accepted[d] \cup {cdc[d].req} ELSE accepted[d]
        /\ \/ cdc'[d].reply = [id |-> cdc[d].req, ok |-> yes]
           \/ cdc'[d].reply = cdc[d].reply
  BY Handled
<1>4. cdc[d].req \in Attempts /\ cdc'[d].req = None /\ None \notin Attempts
      /\ [id |-> cdc[d].req, ok |-> yes] # None
  <2>1. [id |-> cdc[d].req, ok |-> yes] \in Replies
    BY Handled DEF Replies
  <2>. QED BY <2>1, Handled, ReleaseAssumption
<1>5. Bounded(d)'
  BY <1>0, <1>1, <1>3, <1>4 DEF AttemptState, Bounded
<1>6. runs \in Attempts /\ Unsent(d) => Unsent(d)'
  BY <1>1, <1>3, <1>4 DEF Unsent
<1>7. runs \in Attempts /\ Honest(d) => Honest(d)'
  <2>1. CASE cdc[d].req = runs
    BY <1>1, <1>3, <1>4, <2>1 DEF Honest
  <2>2. CASE cdc[d].req # runs
    BY <1>1, <1>3, <1>4, <2>2 DEF Honest
  <2>. QED BY <2>1, <2>2
<1>8. cli.pc # "idle" => runs \in Attempts
  BY DEF IInv, CommandState
<1>9. \A e \in Devices : Bounded(e)'
  BY <1>0, <1>2, <1>5, LineKept DEF AttemptState
<1>10. cli.pc # "idle" => \A e \in Devices : Unsent(e) => Unsent(e)'
  BY <1>2, <1>6, <1>8, LineKept
<1>11. cli.pc # "idle" => \A e \in Devices : Honest(e) => Honest(e)'
  BY <1>2, <1>7, <1>8, LineKept
<1>12. \A e \in Devices : accepted[e] \subseteq accepted'[e]
  BY <1>2, <1>3 DEF SameLine
<1>13. cli.pc \in Granted => cli.target \in Devices
  BY AtPort DEF Granted, Frozen, Compared, Resolved, Copied
<1>. QED BY <1>0, <1>1, <1>9, <1>10, <1>11, <1>12, <1>13 DEF AttemptState, Sent, Granted

LEMMA TalksAttempt == ASSUME IInv, Talks PROVE AttemptState'
<1>0. /\ AttemptState /\ cli \in CliType /\ cli.binding \in Devices /\ cli.binding = cli.target
      /\ runs \in Attempts /\ runs \in Nat
  BY TalksMove, AtPort, Typed DEF IInv
<1>1. UNCHANGED <<accepted, gone, runs>>
  BY TalksMove
<1>2. CASE cdc' = cdc /\ cli' = NoCommand
  <2>1. \A d \in Devices : SameLine(d)
    BY <1>1, <1>2 DEF SameLine
  <2>. QED BY <1>1, <1>2, <2>1, AttemptKept DEF NoCommand, Sent, Granted
<1>3. CASE Pc("write") /\ Deliver
  <2>1. \A d \in Devices : Unsent(d)
    BY <1>0, <1>3 DEF AttemptState, Sent
  <2>2. \A d \in Devices : d # cli.binding => SameLine(d)
    BY <1>0, <1>1, <1>3, Delivered DEF SameLine
  <2>3. Bounded(cli.binding) /\ Unsent(cli.binding)
    BY <1>0, <2>1 DEF AttemptState
  <2>4. /\ cdc'[cli.binding].req = runs /\ cdc'[cli.binding].reply = cdc[cli.binding].reply
        /\ accepted'[cli.binding] = accepted[cli.binding]
    BY <1>0, <1>1, <1>3, Delivered
  <2>5. ASSUME NEW d \in Devices, d = cli.binding PROVE Bounded(d)'
    <3>1. /\ cdc'[d].req = runs /\ cdc'[d].reply = cdc[d].reply /\ accepted'[d] = accepted[d]
          /\ Bounded(d) /\ runs <= runs
      BY <1>0, <2>3, <2>4, <2>5
    <3>2. \A i \in Attempts : i \in accepted[d] => i <= runs
      BY <3>1 DEF Bounded
    <3>. QED BY <1>1, <3>1, <3>2 DEF Bounded
  <2>6. \A d \in Devices : d = cli.binding => Honest(d)'
    BY <1>0, <1>1, <2>3, <2>4 DEF Honest, Unsent
  <2>7. \A d \in Devices : Bounded(d)'
    BY <1>0, <2>2, <2>5, LineKept DEF AttemptState
  <2>8. \A d \in Devices : d # cli.binding => Unsent(d)'
    BY <2>1, <2>2, LineKept
  <2>9. \A d \in Devices : Honest(d)'
    <3>1. \A d \in Devices : Unsent(d)' => Honest(d)'
      BY DEF Unsent, Honest
    <3>. QED BY <2>6, <2>8, <3>1
  <2>10. cli'.pc \in {"idle", "reply"} /\ (cli'.pc = "reply" => cli'.binding = cli.binding)
    <3>1. cli' \in {NoCommand, [cli EXCEPT !.pc = "reply", !.late = FALSE]}
      BY <1>3 DEF Talks, WriteRequest, ReadReply, WriteFails, Garbled
    <3>2. CASE cli' = NoCommand
      BY <3>2 DEF NoCommand
    <3>3. CASE cli' = [cli EXCEPT !.pc = "reply", !.late = FALSE]
      BY <1>0, <3>3 DEF CliType
    <3>. QED BY <3>1, <3>2, <3>3
  <2>. QED BY <2>7, <2>8, <2>9, <2>10 DEF AttemptState, Sent, Granted
<1>4. CASE Pc("reply") /\ cdc' = [cdc EXCEPT ![cli.binding].reply = None]
  <2>1. \A d \in Devices : d # cli.binding => SameLine(d)
    BY <1>0, <1>1, <1>4, ReplyRead DEF SameLine
  <2>2. /\ cdc'[cli.binding].req = cdc[cli.binding].req /\ cdc'[cli.binding].reply = None
        /\ accepted'[cli.binding] = accepted[cli.binding]
    BY <1>0, <1>1, <1>4, ReplyRead
  <2>3. Bounded(cli.binding)
    BY <1>0 DEF AttemptState
  <2>4. \A d \in Devices : d = cli.binding => Bounded(d)'
    BY <1>0, <1>1, <2>2, <2>3 DEF Bounded
  <2>5. \A d \in Devices : Bounded(d)'
    BY <1>0, <2>1, <2>4, LineKept DEF AttemptState
  <2>6. \A d \in Devices : d # cli.binding => Unsent(d)'
    BY <1>0, <1>4, <2>1, LineKept DEF AttemptState, Sent
  <2>7. CASE cli' = NoCommand
    BY <2>5, <2>7 DEF AttemptState, Sent, Granted, NoCommand
  <2>8. CASE cli' # NoCommand
    <3>1. /\ cli' = [cli EXCEPT !.pc = "pollDisk", !.late = FALSE]
          /\ cdc[cli.binding].reply # None /\ Verdict = "ACCEPTED"
      BY <1>4, <2>8 DEF Talks, WriteRequest, ReadReply, WriteFails, Garbled, answer
    <3>2. cli'.pc = "pollDisk" /\ cli'.binding = cli.binding /\ cli'.target = cli.target
      BY <1>0, <3>1 DEF CliType
    <3>3. cdc[cli.binding].reply.id = runs /\ cdc[cli.binding].reply.ok
      BY <3>1 DEF Verdict, answer
    <3>4. runs \in accepted[cli.binding]
      BY <1>0, <1>4, <3>1, <3>3 DEF AttemptState, Honest
    <3>. QED BY <1>0, <1>1, <2>5, <2>6, <3>2, <3>4 DEF AttemptState, Sent, Granted
  <2>. QED BY <2>7, <2>8
<1>. QED BY <1>2, <1>3, <1>4, TalksMove

LEMMA MovesAttempt == ASSUME IInv, Moves PROVE AttemptState'
<1>0. /\ AttemptState /\ CommandState
      /\ cli'.pc = cli.pc /\ cli'.target = cli.target /\ cli'.binding = cli.binding
  BY OutsideLocals DEF IInv
<1>1. ASSUME NEW d \in Devices, Leave(d) PROVE AttemptState'
  <2>1. UNCHANGED <<accepted, runs>> /\ gone \subseteq gone'
    BY <1>1 DEF Leave
  <2>2. \A e \in Devices : e # d => SameLine(e)
    BY <1>1, <2>1, Left DEF SameLine
  <2>3. cdc'[d].req = None /\ cdc'[d].reply = None /\ accepted'[d] = accepted[d]
    BY <1>1, <2>1, Left
  <2>n. None \notin Attempts
    BY ReleaseAssumption
  <2>4. Bounded(d)'
    BY <1>0, <2>1, <2>3, <2>n DEF AttemptState, Bounded
  <2>5. runs \in Attempts /\ Unsent(d) => Unsent(d)'
    BY <2>1, <2>3, <2>n DEF Unsent
  <2>6. runs \in Attempts => Honest(d)'
    BY <2>1, <2>3, <2>n DEF Honest
  <2>7. cli.pc # "idle" => runs \in Attempts
    BY <1>0 DEF CommandState
  <2>8. \A e \in Devices : Bounded(e)'
    BY <1>0, <2>2, <2>4, LineKept DEF AttemptState
  <2>9. cli.pc # "idle" => \A e \in Devices : Unsent(e) => Unsent(e)'
    BY <2>2, <2>5, <2>7, LineKept
  <2>10. cli.pc # "idle" => \A e \in Devices : Honest(e) => Honest(e)'
    BY <2>2, <2>6, <2>7, LineKept
  <2>. QED BY <1>0, <2>1, <2>8, <2>9, <2>10 DEF AttemptState, Sent, Granted
<1>2. ASSUME NEW d \in Devices, Plug(d) PROVE AttemptState'
  <2>1. UNCHANGED <<accepted, runs, gone>>
    BY <1>2 DEF Plug
  <2>2. \A e \in Devices : SameLine(e)
    BY <1>2, <2>1, Plugs DEF SameLine
  <2>. QED BY <1>0, <2>1, <2>2, AttemptKept DEF AttemptState
<1>. QED BY <1>1, <1>2 DEF Moves, DiskGoes, Unplug

LEMMA StartsAttempt == ASSUME IInv, Starts PROVE AttemptState'
<1>0. AttemptState
  BY DEF IInv
<1>1. UNCHANGED <<cdc, accepted, gone>>
  BY DEF Starts, Command, Killed
<1>2. CASE Killed
  <2>1. cli'.pc = "idle" /\ runs' = runs
    BY <1>2 DEF Killed, NoCommand
  <2>2. \A d \in Devices : SameLine(d)
    BY <1>1, <2>1 DEF SameLine
  <2>. QED BY <1>1, <2>1, <2>2, AttemptKept DEF Sent, Granted
<1>3. ASSUME NEW m \in {"sync", "release"}, Command(m) PROVE AttemptState'
  <2>1. cli'.pc \in {"sync", "id"} /\ runs' = runs + 1 /\ runs + 1 \in Attempts /\ runs \in Nat
    BY <1>3, Typed DEF Command, NoCommand, Attempts
  <2>2. ASSUME NEW d \in Devices PROVE Bounded(d)' /\ Unsent(d)'
    <3>1. /\ cdc[d].reply # None => cdc[d].reply \in Replies
          /\ Bounded(d) /\ \A i \in Attempts : i \in Nat
      BY <1>0, Typed DEF WireType, AttemptState, Attempts
    <3>2. cdc[d].reply # None => cdc[d].reply.id \in Attempts
      BY <3>1 DEF Replies
    <3>3. Bounded(d)'
      BY <1>1, <2>1, <3>1, <3>2 DEF Bounded
    <3>4. Unsent(d)'
      BY <1>1, <2>1, <3>1, <3>2 DEF Bounded, Unsent
    <3>. QED BY <3>3, <3>4
  <2>. QED BY <2>1, <2>2 DEF AttemptState, Sent, Granted
<1>. QED BY <1>2, <1>3 DEF Starts

LEMMA AttemptStep == ASSUME IInv, Next PROVE AttemptState'
<1>1. CASE SyncRuns \/ FilePlaced
  <2>1. UNCHANGED <<cli, cdc, accepted, gone, runs>>
    BY <1>1 DEF SyncRuns, FilePlaced, Actions
  <2>2. \A d \in Devices : SameLine(d)
    BY <2>1 DEF SameLine
  <2>. QED BY <2>1, <2>2, AttemptKept DEF IInv, AttemptState
<1>. QED BY <1>1, Kinds, StepsAttempt, TalksAttempt, MovesAttempt, StartsAttempt, HandleAttempt

-----------------------------------------------------------------------------
(* With which reason a command ends, and where.                             *)
LEMMA EndReasons ==
    ASSUME Steps1
    PROVE  \/ outcome' = outcome \/ outcome' \in Unproven
           \/ outcome' # "RELEASED" /\ cli.pc \notin Sent \cup {"idle"}
           \/ outcome' = "RELEASED" /\ Pc("pollMount")
<1>. USE DEF Sent, Unproven
<1>1. CASE DeviceId \/ SyncReturns \/ Hooks \/ Resolve \/ Identity \/ Topology \/ Endpoint
  BY <1>1 DEF DeviceId, SyncReturns, Hooks, Resolve, Identity, Topology, Endpoint
<1>2. CASE Available \/ Seal \/ Drain \/ DrainTimeout \/ LockAndDismount \/ Bound \/ Before
           \/ OpenPort \/ After
  BY <1>2 DEF Available, Seal, Drain, DrainTimeout, LockAndDismount, Bound, Before, OpenPort, After
<1>3. CASE NoReply \/ PollDisk \/ PollMount \/ Deadline \/ DeadlinePasses \/ OtherEnters
           \/ OtherLeaves
  BY <1>3 DEF NoReply, PollDisk, PollMount, Deadline, DeadlinePasses, OtherEnters, OtherLeaves
<1>4. CASE HooksFail \/ ResolveFails \/ LockFails \/ TimeoutsFail \/ PollFails
  BY <1>4 DEF HooksFail, ResolveFails, LockFails, TimeoutsFail, PollFails
<1>. QED BY <1>1, <1>2, <1>3, <1>4 DEF Steps1

(* An outcome printed earlier stays true.                                   *)
LEMMA ReasonKept ==
    ASSUME IInv, outcome' = outcome, runs' = runs, gone \subseteq gone', swaps >= 2 => swaps' >= 2,
           \A d \in Devices : accepted[d] \subseteq accepted'[d],
           \A d \in Devices : Synced(d) => Synced(d)',
           \A d \in Devices : runs \notin accepted[d] /\ cdc[d].req # runs
                               => runs \notin accepted'[d] /\ cdc'[d].req # runs
    PROVE  ReasonIsTrue'
  BY DEF IInv, ReasonIsTrue, LetterWentRound

LEMMA ReasonStep == ASSUME IInv, Next PROVE ReasonIsTrue'
<1>0. /\ CommandState /\ AttemptState /\ Readings /\ swaps \in Nat
      /\ None \notin Reasons /\ None \notin Attempts
  BY Typed, ReleaseAssumption DEF IInv
<1>n. outcome' \notin Failures \cup SyncOnly \cup {"RELEASED"} => ReasonIsTrue'
  BY DEF ReasonIsTrue
<1>1. outcome' \in {None} \cup Unproven => ReasonIsTrue'
  BY <1>0, <1>n DEF Reasons, Unproven, Failures, SyncOnly
<1>2. outcome' = outcome /\ cli.pc # "idle" => ReasonIsTrue'
  BY <1>0, <1>1 DEF CommandState
<1>3. CASE SyncRuns
  BY <1>2, <1>3 DEF SyncRuns, Actions
<1>4. CASE FilePlaced
  <2>1. UNCHANGED <<outcome, cdc, accepted, gone, swaps, runs>>
    BY <1>4 DEF FilePlaced, Actions
  <2>2. \A d \in Devices : Synced(d) => Synced(d)'
    BY <1>4, SyncedFrame
  <2>. QED BY <2>1, <2>2, ReasonKept
<1>5. CASE Starts
  BY <1>1, <1>5 DEF Starts, Command, Killed
<1>6. CASE outcome' = outcome /\ Steps1
  <2>1. UNCHANGED <<cdc, accepted, gone, swaps, runs, row, final>>
    BY <1>6, StepsReset DEF Resets
  <2>2. \A d \in Devices : Synced(d) => Synced(d)'
    BY <2>1, SyncedFrame
  <2>. QED BY <1>6, <2>1, <2>2, ReasonKept
<1>7. CASE Steps1 /\ outcome' # "RELEASED" /\ cli.pc \notin Sent \cup {"idle"}
  <2>1. UNCHANGED <<cdc, accepted, runs>>
    BY <1>7, StepsReset
  <2>2. \A d \in Devices : Unsent(d)
    BY <1>0, <1>7 DEF AttemptState
  <2>. QED BY <1>7, <2>1, <2>2 DEF ReasonIsTrue, Unsent
<1>8. CASE Steps1 /\ outcome' = "RELEASED" /\ Pc("pollMount")
  <2>1. UNCHANGED <<accepted, gone, runs, swaps, row, final>>
    BY <1>8, StepsReset DEF Resets
  <2>2. cli.pc \in Frozen /\ cli.pc \in Compared
    BY <1>8 DEF Frozen, Compared, Resolved, Copied
  <2>3. /\ runs \in gone /\ runs \in accepted[cli.target] /\ cli.target \in Devices
        /\ cli.mode = "release" /\ cli.pc # "idle"
    BY <1>0, <1>8, <2>2, AtPort DEF AttemptState, Granted
  <2>4. Synced(cli.target) \/ LetterWentRound
    BY <1>0, <2>2, <2>3 DEF Readings, LetterWentRound, LetterWentOn
  <2>5. \E d \in Devices : runs \in accepted[d] /\ (Synced(d) \/ LetterWentRound)
    BY <2>3, <2>4
  <2>6. \A d \in Devices : Synced(d) => Synced(d)'
    BY <2>1, SyncedFrame
  <2>7. \E d \in Devices : runs' \in accepted'[d] /\ (Synced(d)' \/ LetterWentRound')
    BY <2>1, <2>5, <2>6 DEF LetterWentRound
  <2>8. outcome' \notin Failures \cup SyncOnly
    BY <1>8 DEF Failures, SyncOnly
  <2>. QED BY <2>1, <2>3, <2>7, <2>8 DEF ReasonIsTrue
<1>9. CASE Talks
  <2>1. cli.pc # "idle" /\ UNCHANGED <<accepted, runs>>
    BY <1>9, TalksMove
  <2>2. CASE outcome' \in {outcome} \cup Unproven
    BY <1>1, <1>2, <2>1, <2>2
  <2>3. CASE outcome' \notin {outcome} \cup Unproven
    <3>1. /\ ReadReply /\ outcome' = Verdict /\ Verdict # "ACCEPTED"
      BY <1>9, <2>3 DEF Talks, WriteRequest, ReadReply, WriteFails, Garbled, Unproven
    <3>2. /\ Pc("reply") /\ cdc[cli.binding].reply # None
          /\ cdc' = [cdc EXCEPT ![cli.binding].reply = None]
      BY <3>1 DEF ReadReply, answer
    <3>3. /\ outcome' = "RELEASE_REJECTED" /\ cdc[cli.binding].reply.id = runs
          /\ ~cdc[cli.binding].reply.ok
      BY <2>3, <3>1 DEF Verdict, answer, Unproven
    <3>4. cli.binding \in Devices
      BY <1>9, TalksMove, AtPort
    <3>5. \A d \in Devices : cdc'[d].req = cdc[d].req
      BY <3>2, <3>4, ReplyRead
    <3>6. runs \notin accepted[cli.binding] /\ cdc[cli.binding].req # runs
      BY <1>0, <3>2, <3>3, <3>4 DEF AttemptState, Honest
    <3>7. \A d \in Devices : d # cli.binding => runs \notin accepted[d] /\ cdc[d].req # runs
      BY <1>0, <3>2 DEF AttemptState, Unsent, Sent
    <3>. QED BY <2>1, <3>3, <3>4, <3>5, <3>6, <3>7 DEF ReasonIsTrue
  <2>. QED BY <2>2, <2>3
<1>10. ASSUME NEW d \in Devices, Handle(d) PROVE ReasonIsTrue'
  <2>1. UNCHANGED <<outcome, gone, swaps, runs, row, final>>
    BY <1>10 DEF Handle
  <2>2. \A e \in Devices : Synced(e) => Synced(e)'
    BY <2>1, SyncedFrame
  <2>3. PICK yes \in BOOLEAN :
          accepted'[d] = IF yes THEN accepted[d] \cup {cdc[d].req} ELSE accepted[d]
    BY <1>10, Handled
  <2>4. /\ cdc[d].req \in Attempts /\ cdc'[d].req = None
        /\ \A e \in Devices : e # d => cdc'[e] = cdc[e] /\ accepted'[e] = accepted[e]
    BY <1>10, Handled
  <2>5. \A e \in Devices : accepted[e] \subseteq accepted'[e]
    BY <2>3, <2>4
  <2>6. runs \in Attempts => \A e \in Devices : runs \notin accepted[e] /\ cdc[e].req # runs
                               => runs \notin accepted'[e] /\ cdc'[e].req # runs
    BY <1>0, <2>3, <2>4
  <2>7. CASE runs \in Attempts
    BY <2>1, <2>2, <2>5, <2>6, <2>7, ReasonKept
  <2>8. CASE runs \notin Attempts
    BY <1>0, <1>1, <2>1, <2>8 DEF CommandState
  <2>. QED BY <2>7, <2>8
<1>11. ASSUME NEW d \in Devices, Leave(d) \/ Plug(d) PROVE ReasonIsTrue'
  <2>1. /\ UNCHANGED <<outcome, runs, row, final, accepted>> /\ gone \subseteq gone'
        /\ swaps' \in {swaps, swaps + 1}
    BY <1>11 DEF Leave, Plug
  <2>2. \A e \in Devices : Synced(e) => Synced(e)'
    BY <2>1, SyncedFrame
  <2>3. \A e \in Devices : cdc'[e].req \in {cdc[e].req, None}
    BY <1>11, Left, Plugs
  <2>4. CASE runs \in Attempts
    BY <1>0, <2>1, <2>2, <2>3, <2>4, ReasonKept
  <2>5. CASE runs \notin Attempts
    BY <1>0, <1>1, <2>1, <2>5 DEF CommandState
  <2>. QED BY <2>4, <2>5
<1>12. CASE Steps1
  BY <1>1, <1>6, <1>7, <1>8, <1>12, EndReasons
<1>13. CASE Moves
  BY <1>11, <1>13 DEF Moves, DiskGoes, Unplug
<1>. QED BY <1>3, <1>4, <1>5, <1>9, <1>10, <1>12, <1>13, Kinds

-----------------------------------------------------------------------------
LEMMA LibraryAll == ASSUME IInv, Next PROVE Library'
<1>1. SyncRuns => Library'
  BY LibraryStep DEF SyncRuns
<1>. QED BY <1>1, Kinds, StepsReset, OthersReset, ResetsLibrary, PlacedLibrary

(* The initial states satisfy the invariant.                                *)
LEMMA InitInv == ASSUME Init PROVE IInv
<1>1. PICK c \in Devices :
         bus = [present |-> {Plugged, c}, letter |-> Plugged, com |-> c]
  BY DEF Init, StartState
<1>b. Plugged \in Devices /\ bus.present = {Plugged, c} /\ bus.letter = Plugged
      /\ bus.com = c /\ None \notin Devices
  BY <1>1, ReleaseAssumption, SyncAssumption
<1>s. /\ sync.at = "out" /\ sync.dev = None /\ sync.src = None /\ sync.todo = <<>>
      /\ sync.conflicts = 0
  BY DEF Init, StartState, SyncInit, NotSyncing
<1>c. /\ cli.pc = "idle" /\ cli.mode = "none" /\ gate.control = FALSE
      /\ cli.port = FALSE /\ outcome = None
  BY DEF Init, StartState, NoCommand, FreshGate
<1>d. \A d \in Devices : /\ cdc[d].req = None /\ cdc[d].reply = None
                         /\ accepted[d] = {}
  BY DEF Init, StartState
<1>2. SyncTypeOK
  <2>1. bus \in [present : SUBSET Devices, letter : Devices \cup {None},
                 com : Devices \cup {None}]
    BY <1>1, <1>b
  <2>2. sync \in [at : SyncPoints, dev : Devices \cup {None},
                  src : Devices \cup {None}, todo : Seq(Recordings),
                  conflicts : Nat]
    BY DEF Init, StartState, SyncInit, NotSyncing, SyncPoints
  <2>3. faults \in 0..MaxFault
    BY SyncAssumption DEF Init, StartState, SyncInit
  <2>. QED BY <1>s, <2>1, <2>2, <2>3 DEF Init, StartState, SyncInit, SyncTypeOK
<1>3. cli \in CliType /\ gate \in GateType
  BY DEF Init, StartState, NoCommand, FreshGate, CliType, GateType, Points
<1>4. cdc \in [Devices -> WireType] /\ accepted \in [Devices -> SUBSET Attempts]
  BY DEF Init, StartState, WireType
<1>5. /\ swaps = 0 /\ reborn = FALSE /\ runs = 0 /\ moves = 0 /\ crashes = 0 /\ gone = {}
      /\ MaxRuns \in Nat /\ MaxMoves \in Nat /\ MaxCrash \in Nat
  BY ReleaseAssumption DEF Init, StartState
<1>6. TypeOK
  <2>1. /\ cli \in [pc : Points, mode : {"none", "sync", "release"},
                expected : Devices \cup {None}, target : Devices \cup {None},
                binding : Devices \cup {None}, locked : BOOLEAN,
                port : BOOLEAN, late : BOOLEAN]
    BY <1>3 DEF CliType
  <2>2. gate \in [state : {"OPEN", "SEALED_FOR_RELEASE", "HOST_QUIESCED",
                         "RELEASE_ACCEPTED", "RELEASED"},
                 ordinary : SUBSET {"self", "other"}, control : BOOLEAN,
                 drained : BOOLEAN]
    BY <1>3 DEF GateType
  <2>3. cdc \in [Devices -> [req : Attempts \cup {None},
                            reply : Replies \cup {None}, shut : BOOLEAN]]
    BY <1>4 DEF WireType
  <2>4. reborn \in BOOLEAN
    BY <1>5
  <2>. QED BY <1>2, <1>4, <1>5, <1>c, <2>1, <2>2, <2>3, <2>4 DEF TypeOK
<1>7. Library
  <2>1. TodoIsRest /\ RecordingState /\ BehindSynced
    BY <1>s DEF TodoIsRest, RecordingState, BehindSynced, Listed, OnRecording
  <2>2. LibraryIsSound
    BY DEF LibraryIsSound, Init, StartState, SyncInit
  <2>. QED BY <2>1, <2>2 DEF Library
<1>8. BusIsTrue
  BY <1>b, <1>d DEF BusIsTrue
<1>9. CommandState /\ Readings /\ GateState /\ HandlesState
  BY <1>c, <1>s DEF CommandState, Readings, GateState, HandlesState, Copied, Sent
<1>10. AttemptState
  <2>1. \A d \in Devices : Bounded(d)
    BY <1>d, ReleaseAssumption DEF Bounded
  <2>. QED BY <1>c, <2>1 DEF AttemptState, Sent, Granted
<1>11. ReasonIsTrue
  BY <1>c, ReleaseAssumption DEF ReasonIsTrue, Reasons
<1>. QED BY <1>6, <1>7, <1>8, <1>9, <1>10, <1>11 DEF IInv

LEMMA StutterInv == ASSUME IInv, UNCHANGED vars PROVE IInv'
<1>. USE DEF vars, syncVars, library, device, bounds
<1>1. TypeOK'
  BY DEF IInv, TypeOK, SyncTypeOK
<1>2. Library'
  <2>1. Library
    BY DEF IInv
  <2>2. TodoIsRest' /\ RecordingState'
    BY <2>1 DEF Library, TodoIsRest, RecordingState, Behind, rec
  <2>3. BehindSynced' /\ LibraryIsSound'
    BY <2>1 DEF Library, BehindSynced, Behind, IsSynced, LibraryIsSound
  <2>. QED BY <2>2, <2>3 DEF Library
<1>3. BusIsTrue' /\ CommandState' /\ GateState' /\ HandlesState'
  BY DEF IInv, BusIsTrue, CommandState, GateState, HandlesState
<1>4. Readings'
  BY DEF IInv, Readings, PassedOn, Held, LetterWentRound, LetterWentOn, Synced
<1>5. AttemptState'
  BY DEF IInv, AttemptState, Bounded, Honest, Unsent
<1>6. ReasonIsTrue'
  BY DEF IInv, ReasonIsTrue, LetterWentRound, Synced
<1>. QED BY <1>1, <1>2, <1>3, <1>4, <1>5, <1>6 DEF IInv

LEMMA NextInv == ASSUME IInv, [Next]_vars PROVE IInv'
<1>1. CASE Next
  BY <1>1, TypeStep, LibraryAll, BusStep, CommandStep, ReadingsStep, GateStep,
     HandlesStep, AttemptStep, ReasonStep DEF IInv
<1>2. CASE UNCHANGED vars
  BY <1>2, StutterInv
<1>. QED BY <1>1, <1>2

LEMMA Invariance == Spec => []IInv
<1>1. Init => IInv
  BY InitInv
<1>2. IInv /\ [Next]_vars => IInv'
  BY NextInv
<1>. QED BY <1>1, <1>2, PTL DEF Spec

(* The types of all state, and GateClosed is never raised in a command: the *)
(* phase of the gate goes with the program point, and release control is    *)
(* taken exactly from the drain to the end of the command.                  *)
THEOREM TypesAndGate == Spec => []TypeOK
<1>1. IInv => TypeOK
  BY DEF IInv
<1>. QED BY <1>1, Invariance, PTL

(* A row that says SYNCED has its device's bytes at the final path, and a   *)
(* file that somebody else put there is never replaced: for any number of   *)
(* devices, recordings, runs, kills, failing calls and moves of the letter. *)
THEOREM LibraryStaysSound == Spec => []LibraryIsSound
<1>1. IInv => LibraryIsSound
  BY DEF IInv, Library
<1>. QED BY <1>1, Invariance, PTL

(* The reason of an outcome can be believed: RELEASED only after this very  *)
(* attempt was accepted and the disk went, and a definite failure only when *)
(* no device has accepted this attempt or will.                             *)
THEOREM ReasonIsBelievable == Spec => []ReasonIsTrue
<1>1. IInv => ReasonIsTrue
  BY DEF IInv
<1>. QED BY <1>1, Invariance, PTL

(* A request is written to the device that was resolved, compared, drained  *)
(* and locked, and to no other.                                             *)
LEMMA WriteIsSafe ==
    ASSUME IInv, Next, NEW d \in Devices, cdc'[d].req # None, cdc'[d].req # cdc[d].req
    PROVE  /\ d = cli.target /\ d \in bus.present /\ gate.ordinary = {}
           /\ cli.locked \/ reborn
           /\ d = cli.expected \/ LetterWentOn
           /\ Synced(d) \/ LetterWentRound
<1>1. Talks
  <2>1. ~(SyncRuns \/ FilePlaced \/ Steps1 \/ Starts)
    BY StepsReset DEF SyncRuns, FilePlaced, Actions, Starts, Command, Killed, device
  <2>2. ~Moves
    BY Left, Plugs DEF Moves, DiskGoes, Unplug
  <2>3. ~\E e \in Devices : Handle(e)
    BY Handled
  <2>. QED BY <2>1, <2>2, <2>3, Kinds
<1>2. Pc("write") /\ cli.port /\ Deliver
  BY <1>1, Typed DEF Talks, WriteRequest, ReadReply, WriteFails, Garbled, WireType
<1>3. cli.pc \in Frozen /\ cli.pc \in Compared /\ cli.pc # "idle"
  BY <1>2 DEF Frozen, Compared, Resolved, Copied
<1>4. d = cli.binding /\ d = cli.target
  <2>1. cli.binding \in Devices /\ cli.binding = cli.target
    BY <1>3, AtPort
  <2>. QED BY <1>2, <2>1, Typed DEF Deliver, WireType
<1>5. gate.ordinary = {}
  BY <1>2 DEF IInv, GateState
<1>6. d \in bus.present /\ (cli.locked \/ reborn)
  BY <1>2, <1>4 DEF IInv, HandlesState
<1>7. d = cli.expected \/ LetterWentOn
  BY <1>3, <1>4, AtPort DEF IInv, Readings
<1>8. Synced(d) \/ LetterWentRound
  <2>1. LetterWentOn => LetterWentRound
    BY Typed DEF LetterWentOn, LetterWentRound
  <2>. QED BY <1>3, <1>4, <1>7, <2>1, AtPort DEF IInv, Readings
<1>. QED BY <1>4, <1>5, <1>6, <1>7, <1>8

(* Whatever moved to the drive letter or to the COM name while the command  *)
(* ran, and whatever was unplugged and plugged in again: a request to       *)
(* release goes only to the device that was resolved and frozen, over a     *)
(* handle that has not died with it, with nobody holding a lease.  The lock *)
(* of its volume holds, unless that device came back between the lock and   *)
(* the opening of the port.  It is the device identified at the start       *)
(* unless the letter was given away three times, and it is wholly copied    *)
(* unless the letter was given away twice.                                  *)
THEOREM RequestGoesToTheCopied == Spec => RequestIsSafe
<1>1. ASSUME IInv, [Next]_vars
      PROVE  [\A d \in Devices : cdc'[d].req # None /\ cdc'[d].req # cdc[d].req =>
                 /\ d = cli.target /\ d \in bus.present /\ gate.ordinary = {}
                 /\ cli.locked \/ reborn
                 /\ d = cli.expected \/ LetterWentOn
                 /\ Synced(d) \/ LetterWentRound]_vars
  <2>1. CASE Next
    BY <1>1, <2>1, WriteIsSafe
  <2>. QED BY <1>1, <2>1
<1>. QED BY <1>1, Invariance, PTL DEF Spec, RequestIsSafe
=============================================================================
