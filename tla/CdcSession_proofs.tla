-------------------------- MODULE CdcSession_proofs --------------------------
(***************************************************************************)
(* Proofs about CdcSession, for any number of bytes, connections and line  *)
(* changes: what the session gate guarantees in every interleaving of the  *)
(* TinyUSB task, the coordinator, the main task and the worker.            *)
(***************************************************************************)
EXTENDS CdcSession, Integers, FiniteSetTheorems, TLAPS

Clearing   == {"tcLoad", "tcEpoch", "tcPending", "tcCas"}
Marking    == {"mbReg", "mbEpoch", "mbDone"}
Noting     == {"nrReg", "nrEpoch", "nrDirty", "nrDone"}
RegLabels  == {"nrEpoch", "nrDirty", "nrDone", "mbEpoch", "mbDone"}
ExecLabels == {"wkExec", "wkQueue", "wkEndpoint", "wkFinal", "wkEnd"}
JoinLabels == ExecLabels \cup {"wkBegin2", "wkLeave"}

(* A primitive of the gate returns to a point of the context it runs in.    *)
ReturnsHome ==
    /\ ret[Usb] \in {"idle", "rxNotify"}
    /\ ret[Coord] \in {"idle", "rsGen", "rsNotify", "osNotify"}
    /\ ret[Main] \in {"idle", "osNotify"}
    /\ pc[Main] \in {"coCas"} \cup Marking \cup Clearing => ret[Main] = "osNotify"
    /\ ret[Worker] \in {"idle", "wkWait"}
    /\ pc[Worker] \in Clearing => ret[Worker] = "wkWait"

(* A start that can still fail finds a worker that has read nothing.        *)
WorkerUnread ==
    pc[Main] \in {"msCreate", "msInit"} =>
        /\ ~acmReady
        /\ pc[Worker] \in {"wkWait", "wkSnap", "wkSnap1", "wkSnap2", "wkEpoch",
                           "wkRead"}

(* The gate counts the one command the worker can be in.                    *)
ActiveIsJoined == active = IF Joined THEN 1 ELSE 0

(* A command that has passed its second test of the generation is no older  *)
(* than the last reset, unless that reset is waiting for it.                *)
Rechecked ==
    \/ pc[Worker] \in ExecLabels
    \/ pc[Worker] = "wkBegin2" /\ wk.k > 2
FreshCommand ==
    /\ cut <= generation
    /\ pc[Worker] = "wkJoin" => wk.k <= 2
    /\ Rechecked /\ pc[Coord] # "rsWait" => wk.frameGen >= cut

(* No command is on its way into the gate once a release was accepted.      *)
ReleaseShuts ==
    own.release => pc[Worker] \notin {"wkBegin1", "wkJoin", "wkBegin2", "wkExec"}

(* The worker works on a chunk that is not used up.                         *)
ChunkLeft == pc[Worker] \in {"wkReset", "wkBatch", "wkByte"} => wk.chunk # <<>>

IInv == /\ TypeOK /\ ReturnsHome /\ WorkerUnread /\ ActiveIsJoined
        /\ AdmissionIsExact /\ FreshCommand /\ ReleaseShuts /\ ChunkLeft

-----------------------------------------------------------------------------
(* Counting the contexts inside a registration.                             *)
InReg(f) == {p \in Proc : f[p] \in RegLabels}

LEMMA RegisteredSet == {p \in Proc : Registered(p)} = InReg(pc)
  BY DEF Registered, InReg, RegLabels

(* When one context moves, the number of registered ones changes by that    *)
(* context alone.                                                           *)
LEMMA CountMoves ==
    ASSUME NEW f, NEW g, NEW p \in Proc, \A q \in Proc \ {p} : g[q] = f[q]
    PROVE  /\ Cardinality(InReg(f)) \in Nat /\ Cardinality(InReg(g)) \in Nat
           /\ f[p] \in RegLabels => Cardinality(InReg(f)) >= 1
           /\ (f[p] \in RegLabels <=> g[p] \in RegLabels)
                => Cardinality(InReg(g)) = Cardinality(InReg(f))
           /\ f[p] \notin RegLabels /\ g[p] \in RegLabels
                => Cardinality(InReg(g)) = Cardinality(InReg(f)) + 1
           /\ f[p] \in RegLabels /\ g[p] \notin RegLabels
                => Cardinality(InReg(g)) = Cardinality(InReg(f)) - 1
<1>1. IsFiniteSet(Proc)
  <2>1. Proc = (({Usb} \cup {Coord}) \cup {Main}) \cup {Worker}
    BY DEF Proc
  <2>2. IsFiniteSet({Usb} \cup {Coord})
    BY FS_Singleton, FS_AddElement
  <2>3. IsFiniteSet(({Usb} \cup {Coord}) \cup {Main})
    BY <2>2, FS_AddElement
  <2>. QED  BY <2>1, <2>3, FS_AddElement
<1>2. IsFiniteSet(InReg(f)) /\ IsFiniteSet(InReg(g))
  <2>1. InReg(f) \subseteq Proc /\ InReg(g) \subseteq Proc
    BY DEF InReg
  <2>. QED  BY <1>1, <2>1, FS_Subset
<1>3. Cardinality(InReg(f)) \in Nat /\ Cardinality(InReg(g)) \in Nat
  BY <1>2, FS_CardinalityType
<1>4. ASSUME f[p] \in RegLabels <=> g[p] \in RegLabels
      PROVE  InReg(g) = InReg(f)
  BY <1>4 DEF InReg
<1>5. ASSUME f[p] \notin RegLabels, g[p] \in RegLabels
      PROVE  p \notin InReg(f) /\ InReg(g) = InReg(f) \cup {p}
  BY <1>5 DEF InReg
<1>6. ASSUME f[p] \in RegLabels, g[p] \notin RegLabels
      PROVE  p \in InReg(f) /\ InReg(g) = InReg(f) \ {p}
  BY <1>6 DEF InReg
<1>7. f[p] \in RegLabels => p \in InReg(f)
  BY DEF InReg
<1>8. p \in InReg(f) => Cardinality(InReg(f)) # 0
  BY <1>2, FS_EmptySet
<1>. QED
  BY <1>2, <1>3, <1>4, <1>5, <1>6, <1>7, <1>8, FS_AddElement, FS_RemoveElement

-----------------------------------------------------------------------------
USE DEF Usb, Coord, Main, Worker, Proc, At, Go, Call, Return, OnlyRx, NextEpoch,
        OnlyPhase, NextGeneration, OnlyActive, NoData, Quiet, vars, gate, past,
        flags, env

(* The parts of the type invariant.                                         *)
AnyLabel == UsbLabels \cup CoordLabels \cup MainLabels \cup WorkerLabels
AnyReturn == {"idle", "rxNotify", "rsGen", "rsNotify", "osNotify", "wkWait"}
GateTypes ==
    /\ phase \in {"CLOSED", "OPEN", "RESETTING"}
    /\ generation \in Nat /\ active \in Nat /\ discard \in Nat /\ drained \in Nat
    /\ rx \in RxWord /\ cut \in Nat /\ crossed \in BOOLEAN
FlagTypes ==
    /\ connected \in BOOLEAN /\ resetLine \in BOOLEAN /\ openRequested \in BOOLEAN
    /\ workerUp \in BOOLEAN /\ acmReady \in BOOLEAN /\ notified \in BOOLEAN
HostTypes == host \in [attached : BOOLEAN, conn : Nat, sent : Nat, lines : Nat]
OwnTypes ==
    own \in [hostOwned : BOOLEAN, detached : BOOLEAN, release : BOOLEAN,
             waiting : BOOLEAN, events : SUBSET Events, error : BOOLEAN,
             job : {"none", "attach", "publish", "reattach", "release"}]
FifoTypes == fifo \in Seq(Byte)
WkTypes ==
    wk \in [snapGen : Nat, admitted : BOOLEAN, epoch : Nat,
            chunk : Seq(Byte), line : Seq(Byte), frame : Seq(Byte),
            frameGen : Nat, k : Nat, accepted : BOOLEAN, complete : BOOLEAN]
SeenTypes == seen \in [Proc -> Nat]
PointTypes == pc \in [Proc -> AnyLabel] /\ ret \in [Proc -> AnyReturn]
OwnPoints == /\ pc[Usb] \in UsbLabels /\ pc[Coord] \in CoordLabels
             /\ pc[Main] \in MainLabels /\ pc[Worker] \in WorkerLabels

LEMMA TypeParts ==
    TypeOK <=> /\ GateTypes /\ FlagTypes /\ HostTypes /\ OwnTypes /\ FifoTypes
               /\ WkTypes /\ SeenTypes /\ PointTypes /\ OwnPoints
<1>1. {connected, resetLine, openRequested, workerUp, acmReady, notified}
          \subseteq BOOLEAN <=> FlagTypes
  BY Zenon DEF FlagTypes
<1>. QED
  BY <1>1, Zenon DEF TypeOK, GateTypes, HostTypes, OwnTypes, FifoTypes, WkTypes,
              SeenTypes, PointTypes, OwnPoints, AnyLabel, AnyReturn

-----------------------------------------------------------------------------
(* A step of one context: the others stay where they are, and the admission *)
(* word stays exact, its count moving with that context's registration.     *)
Weight(l) == IF l \in RegLabels THEN 1 ELSE 0
Alone(p) == /\ pc' = [pc EXCEPT ![p] = pc'[p]]
            /\ ret' = [ret EXCEPT ![p] = ret'[p]]
Exact(p) == /\ rx'.open => rx' = RxOpen
            /\ rx'.count + Weight(pc[p]) = rx.count + Weight(pc'[p])

LEMMA ExactAlone ==
    ASSUME AdmissionIsExact, PointTypes, rx \in RxWord, rx' \in RxWord,
           NEW p \in Proc, Alone(p), Exact(p)
    PROVE  AdmissionIsExact'
<1>1. \A q \in Proc \ {p} : pc'[q] = pc[q]
  BY DEF Alone, PointTypes
<1>2. rx.count = Cardinality(InReg(pc))
  BY RegisteredSet DEF AdmissionIsExact
<1>3. rx.count \in Nat /\ rx'.count \in Nat
  BY DEF RxWord
<1>4. rx'.count = Cardinality(InReg(pc'))
  <2>1. CASE pc[p] \in RegLabels /\ pc'[p] \in RegLabels
    BY <1>1, <1>2, <1>3, <2>1, CountMoves DEF Exact, Weight
  <2>2. CASE pc[p] \in RegLabels /\ pc'[p] \notin RegLabels
    BY <1>1, <1>2, <1>3, <2>2, CountMoves DEF Exact, Weight
  <2>3. CASE pc[p] \notin RegLabels /\ pc'[p] \in RegLabels
    BY <1>1, <1>2, <1>3, <2>3, CountMoves DEF Exact, Weight
  <2>4. CASE pc[p] \notin RegLabels /\ pc'[p] \notin RegLabels
    BY <1>1, <1>2, <1>3, <2>4, CountMoves DEF Exact, Weight
  <2>. QED  BY <2>1, <2>2, <2>3, <2>4
<1>5. {q \in Proc : Registered(q)}' = InReg(pc')
  BY DEF Registered, InReg, RegLabels
<1>. QED
  BY <1>4, <1>5 DEF Exact, AdmissionIsExact

(* The words the gate compares with.                                        *)
LEMMA RxWords ==
    /\ {RxZero, RxOpening, RxOpen, RxDirty} \subseteq RxWord
    /\ \A w \in {RxZero, RxOpening, RxOpen, RxDirty} : w.count = 0
    /\ ~RxZero.open /\ ~RxOpening.open /\ RxOpen.open /\ ~RxDirty.open
    /\ ~RxZero.opening /\ RxOpening.opening /\ ~RxOpen.opening /\ ~RxDirty.opening
  BY DEF RxWord, Word, RxZero, RxOpening, RxOpen, RxDirty

(* What a context may rely on inside the gate.                              *)
InGate(p) ==
    /\ GateTypes /\ SeenTypes /\ PointTypes
    /\ rx.open => rx = RxOpen
    /\ pc[p] \in RegLabels => rx.count >= 1
    /\ ret[p] \notin RegLabels

LEMMA Inside ==
    ASSUME TypeOK, AdmissionIsExact, NEW p \in Proc
    PROVE  InGate(p)
<1>1. rx.count = Cardinality(InReg(pc))
  BY RegisteredSet DEF AdmissionIsExact
<1>2. pc[p] \in RegLabels => rx.count >= 1
  BY <1>1, CountMoves
<1>3. ret[p] \in AnyReturn
  BY TypeParts DEF PointTypes
<1>. QED
  BY <1>2, <1>3, TypeParts DEF InGate, AdmissionIsExact, AnyReturn, RegLabels

-----------------------------------------------------------------------------
(* The primitives of the gate, in any context: where they go, and that they *)
(* keep the admission word exact.                                           *)
Keeps == UNCHANGED <<generation, active, drained, past, flags, env, wk>>
Inner(p) == pc'[p] \in Clearing /\ ret'[p] = ret[p]
Done(p)  == pc'[p] = ret[p] /\ ret'[p] = "idle"
GateStep(p) == /\ Alone(p) /\ Exact(p) /\ rx' \in RxWord /\ discard' \in Nat
               /\ SeenTypes'

LEMMA ClearSteps ==
    ASSUME NEW p \in Proc, InGate(p), ClearDirty(p)
    PROVE  /\ GateStep(p) /\ Keeps /\ phase' = phase
           /\ pc[p] \in Clearing /\ (Inner(p) \/ Done(p))
<1>1. Alone(p) /\ pc[p] \in Clearing /\ (Inner(p) \/ Done(p))
  <2>. USE DEF InGate, PointTypes, Alone, Inner, Done, Clearing
  <2>1. CASE ClearLoad(p)     BY <2>1 DEF ClearLoad
  <2>2. CASE ClearEpoch(p)    BY <2>2 DEF ClearEpoch
  <2>3. CASE ClearPending(p)  BY <2>3 DEF ClearPending
  <2>4. CASE ClearCas(p)      BY <2>4 DEF ClearCas
  <2>. QED  BY <2>1, <2>2, <2>3, <2>4 DEF ClearDirty
<1>2. /\ rx' \in RxWord /\ (rx'.open => rx' = RxOpen) /\ rx'.count = rx.count
      /\ discard' = discard /\ SeenTypes' /\ Keeps /\ phase' = phase
  <2>. USE DEF InGate, GateTypes, SeenTypes, Keeps
  <2>1. CASE ClearLoad(p)     BY <2>1 DEF ClearLoad
  <2>2. CASE ClearEpoch(p)    BY <2>2 DEF ClearEpoch
  <2>3. CASE ClearPending(p)  BY <2>3 DEF ClearPending
  <2>4. CASE ClearCas(p)
    <3>1. \/ rx' = rx
          \/ rx = RxDirty /\ rx' = RxZero
      BY <2>4 DEF ClearCas
    <3>2. rx' \in RxWord /\ (rx'.open => rx' = RxOpen) /\ rx'.count = rx.count
      BY <3>1, RxWords
    <3>. QED  BY <2>4, <3>2 DEF ClearCas
  <2>. QED  BY <2>1, <2>2, <2>3, <2>4 DEF ClearDirty
<1>3. pc[p] \notin RegLabels /\ pc'[p] \notin RegLabels
  BY <1>1 DEF InGate, Inner, Done, Clearing, RegLabels
<1>. QED
  BY <1>1, <1>2, <1>3 DEF GateStep, Exact, Weight, InGate, GateTypes

LEMMA CancelSteps ==
    ASSUME NEW p \in Proc, InGate(p), CancelOpening(p) \/ CloseRxAdmission(p)
    PROVE  /\ GateStep(p) /\ Keeps /\ phase' = phase
           /\ pc[p] \in {"coCas", "caCas"} /\ (Inner(p) \/ Done(p))
<1>. USE DEF CancelOpening, CloseRxAdmission
<1>1. Alone(p) /\ pc[p] \in {"coCas", "caCas"} /\ (Inner(p) \/ Done(p))
  BY DEF InGate, PointTypes, Alone, Inner, Done, Clearing
<1>2. \/ rx' = rx
      \/ rx.opening /\ rx' = [rx EXCEPT !.opening = FALSE]
      \/ rx' = [rx EXCEPT !.open = FALSE, !.opening = FALSE]
  OBVIOUS
<1>3. rx' \in RxWord /\ (rx'.open => rx' = RxOpen) /\ rx'.count = rx.count
  <2>1. rx \in RxWord /\ (rx.open => rx = RxOpen)
    BY DEF InGate, GateTypes
  <2>2. CASE rx' = rx
    BY <2>1, <2>2
  <2>3. CASE rx.opening /\ rx' = [rx EXCEPT !.opening = FALSE]
    BY <2>1, <2>3, RxWords DEF RxWord
  <2>4. CASE rx' = [rx EXCEPT !.open = FALSE, !.opening = FALSE]
    BY <2>1, <2>4 DEF RxWord
  <2>. QED  BY <1>2, <2>2, <2>3, <2>4
<1>4. discard' = discard /\ SeenTypes' /\ Keeps /\ phase' = phase
  BY DEF Keeps, InGate, SeenTypes
<1>5. pc[p] \notin RegLabels /\ pc'[p] \notin RegLabels
  BY <1>1 DEF InGate, Inner, Done, Clearing, RegLabels
<1>. QED
  BY <1>1, <1>3, <1>4, <1>5 DEF GateStep, Exact, Weight, InGate, GateTypes

LEMMA BoundarySteps ==
    ASSUME NEW p \in Proc, InGate(p), Boundary(p)
    PROVE  /\ GateStep(p) /\ Keeps /\ phase' = phase
           /\ pc[p] \in Marking /\ pc'[p] \in Marking \cup {"tcLoad"}
           /\ ret'[p] = ret[p]
<1>. USE DEF InGate, GateTypes, PointTypes
<1>1. CASE BoundaryRegister(p)
  <2>1. /\ pc[p] = "mbReg" /\ Alone(p) /\ pc'[p] = "mbEpoch" /\ ret'[p] = ret[p]
        /\ discard' = discard /\ SeenTypes' /\ Keeps /\ phase' = phase
    BY <1>1 DEF BoundaryRegister, Alone, SeenTypes, Keeps
  <2>2. rx' \in RxWord /\ rx'.count = rx.count + 1 /\ ~rx'.open
    BY <1>1 DEF BoundaryRegister, RxWord
  <2>. QED
    BY <2>1, <2>2 DEF GateStep, Exact, Weight, RegLabels, Marking, RxWord
<1>2. CASE BoundaryEpoch(p)
  <2>1. /\ pc[p] = "mbEpoch" /\ Alone(p) /\ pc'[p] = "mbDone" /\ ret'[p] = ret[p]
        /\ discard' = discard + 1 /\ SeenTypes' /\ Keeps /\ phase' = phase
        /\ rx' = rx
    BY <1>2 DEF BoundaryEpoch, Alone, SeenTypes, Keeps
  <2>. QED
    BY <2>1 DEF GateStep, Exact, Weight, RegLabels, Marking, RxWord
<1>3. CASE BoundaryDone(p)
  <2>1. /\ pc[p] = "mbDone" /\ Alone(p) /\ pc'[p] = "tcLoad" /\ ret'[p] = ret[p]
        /\ discard' = discard /\ SeenTypes' /\ Keeps /\ phase' = phase
    BY <1>3 DEF BoundaryDone, Alone, SeenTypes, Keeps
  <2>2. rx.count >= 1 /\ ~rx.open
    BY <2>1, RxWords DEF RegLabels
  <2>3. rx' \in RxWord /\ rx'.count = rx.count - 1 /\ ~rx'.open
    BY <1>3, <2>2 DEF BoundaryDone, RxWord
  <2>. QED
    BY <2>1, <2>3 DEF GateStep, Exact, Weight, RegLabels, Marking, RxWord
<1>. QED  BY <1>1, <1>2, <1>3 DEF Boundary

LEMMA NoteSteps ==
    ASSUME NEW p \in Proc, InGate(p), NoteRx(p)
    PROVE  /\ GateStep(p) /\ Keeps /\ phase' = phase
           /\ pc[p] \in Noting
           /\ Done(p) \/ (pc'[p] \in Noting /\ ret'[p] = ret[p])
<1>. USE DEF InGate, GateTypes, PointTypes
<1>1. CASE NoteRegister(p) /\ rx = RxOpen
  <2>1. /\ pc[p] = "nrReg" /\ Alone(p) /\ Done(p) /\ rx' = rx
        /\ discard' = discard /\ SeenTypes' /\ Keeps /\ phase' = phase
    BY <1>1 DEF NoteRegister, Alone, Done, SeenTypes, Keeps
  <2>. QED
    BY <2>1 DEF GateStep, Exact, Weight, RegLabels, Noting, RxWord, Done
<1>2. CASE NoteRegister(p) /\ rx # RxOpen
  <2>1. /\ pc[p] = "nrReg" /\ Alone(p) /\ pc'[p] = "nrEpoch" /\ ret'[p] = ret[p]
        /\ discard' = discard /\ SeenTypes' /\ Keeps /\ phase' = phase
    BY <1>2 DEF NoteRegister, Alone, SeenTypes, Keeps
  <2>2. rx' \in RxWord /\ rx'.count = rx.count + 1 /\ ~rx'.open
    BY <1>2 DEF NoteRegister, RxWord
  <2>. QED
    BY <2>1, <2>2 DEF GateStep, Exact, Weight, RegLabels, Noting, RxWord
<1>3. CASE NoteEpoch(p)
  <2>1. /\ pc[p] = "nrEpoch" /\ Alone(p) /\ pc'[p] = "nrDirty" /\ ret'[p] = ret[p]
        /\ discard' = discard + 1 /\ SeenTypes' /\ Keeps /\ phase' = phase
        /\ rx' = rx
    BY <1>3 DEF NoteEpoch, Alone, SeenTypes, Keeps
  <2>. QED
    BY <2>1 DEF GateStep, Exact, Weight, RegLabels, Noting, RxWord
<1>4. CASE NoteDirty(p)
  <2>1. /\ pc[p] = "nrDirty" /\ Alone(p) /\ pc'[p] = "nrDone" /\ ret'[p] = ret[p]
        /\ discard' = discard /\ SeenTypes' /\ Keeps /\ phase' = phase
    BY <1>4 DEF NoteDirty, Alone, SeenTypes, Keeps
  <2>2. rx.count >= 1 /\ ~rx.open
    BY <2>1, RxWords DEF RegLabels
  <2>3. rx' \in RxWord /\ rx'.count = rx.count /\ ~rx'.open
    BY <1>4, <2>2 DEF NoteDirty, RxWord
  <2>. QED
    BY <2>1, <2>3 DEF GateStep, Exact, Weight, RegLabels, Noting, RxWord
<1>5. CASE NoteDone(p)
  <2>1. /\ pc[p] = "nrDone" /\ Alone(p) /\ Done(p)
        /\ discard' = discard /\ SeenTypes' /\ Keeps /\ phase' = phase
    BY <1>5 DEF NoteDone, Alone, Done, SeenTypes, Keeps
  <2>2. rx.count >= 1 /\ ~rx.open
    BY <2>1, RxWords DEF RegLabels
  <2>3. rx' \in RxWord /\ rx'.count = rx.count - 1 /\ ~rx'.open
    BY <1>5, <2>2 DEF NoteDone, RxWord
  <2>. QED
    BY <2>1, <2>3 DEF GateStep, Exact, Weight, RegLabels, Noting, RxWord, Done
<1>. QED  BY <1>1, <1>2, <1>3, <1>4, <1>5 DEF NoteRx, NoteRegister

(* Opening a session, on the coordinator and on the main task.              *)
OpenOnly == {"osRequest", "osLoop", "osNotify", "opPhase", "opRx", "opEpoch",
             "opPending", "opReserve", "opEnter", "opRecheck", "opPublish",
             "opRevoke"}
OpenKeeps == UNCHANGED <<generation, active, drained, cut, connected, workerUp,
                         acmReady, env, wk>>
OpenFlags == /\ openRequested' \in BOOLEAN /\ resetLine' \in BOOLEAN
             /\ notified' \in BOOLEAN /\ crossed' \in BOOLEAN
             /\ phase' \in {"CLOSED", "OPEN", "RESETTING"}
OpenGoes(p) == \/ pc'[p] \in OpenOnly \cup {After(p)} /\ ret'[p] = ret[p]
               \/ pc'[p] \in {"coCas", "mbReg"} /\ ret'[p] = "osNotify"

LEMMA OpenSteps ==
    ASSUME NEW p \in {Coord, Main}, InGate(p), FlagTypes, Open(p)
    PROVE  GateStep(p) /\ OpenKeeps /\ OpenFlags /\ pc[p] \in OpenOnly /\ OpenGoes(p)
<1>1. Alone(p) /\ pc[p] \in OpenOnly /\ OpenGoes(p)
  <2>. USE DEF InGate, PointTypes, Alone, OpenGoes, OpenOnly, After
  <2>1. CASE OpenRequest(p)  BY <2>1 DEF OpenRequest
  <2>2. CASE OpenLoop(p)     BY <2>2 DEF OpenLoop
  <2>3. CASE OpenRetry(p)    BY <2>3 DEF OpenRetry
  <2>4. CASE OpenPhase(p)    BY <2>4 DEF OpenPhase
  <2>5. CASE OpenAlready(p)  BY <2>5 DEF OpenAlready
  <2>6. CASE OpenEpoch(p)    BY <2>6 DEF OpenEpoch
  <2>7. CASE OpenPending(p)  BY <2>7 DEF OpenPending
  <2>8. CASE OpenReserve(p)  BY <2>8 DEF OpenReserve
  <2>9. CASE OpenEnter(p)    BY <2>9 DEF OpenEnter
  <2>10. CASE OpenRecheck(p) BY <2>10 DEF OpenRecheck
  <2>11. CASE OpenPublish(p) BY <2>11 DEF OpenPublish
  <2>12. CASE OpenRevoke(p)  BY <2>12 DEF OpenRevoke
  <2>. QED
    BY <2>1, <2>2, <2>3, <2>4, <2>5, <2>6, <2>7, <2>8, <2>9, <2>10, <2>11, <2>12
       DEF Open
<1>2. /\ rx' \in RxWord /\ (rx'.open => rx' = RxOpen) /\ rx'.count = rx.count
      /\ SeenTypes' /\ OpenKeeps /\ discard' = discard
  <2>1. /\ SeenTypes' /\ OpenKeeps /\ discard' = discard
        /\ \/ rx' = rx
           \/ rx = RxZero /\ rx' = RxOpening
           \/ rx = RxOpening /\ rx' = RxOpen
    <3>. USE DEF InGate, GateTypes, SeenTypes, OpenKeeps
    <3>1. CASE OpenRequest(p)  BY <3>1 DEF OpenRequest
    <3>2. CASE OpenLoop(p)     BY <3>2 DEF OpenLoop
    <3>3. CASE OpenRetry(p)    BY <3>3 DEF OpenRetry
    <3>4. CASE OpenPhase(p)    BY <3>4 DEF OpenPhase
    <3>5. CASE OpenAlready(p)  BY <3>5 DEF OpenAlready
    <3>6. CASE OpenEpoch(p)    BY <3>6 DEF OpenEpoch
    <3>7. CASE OpenPending(p)  BY <3>7 DEF OpenPending
    <3>8. CASE OpenReserve(p)  BY <3>8 DEF OpenReserve
    <3>9. CASE OpenEnter(p)    BY <3>9 DEF OpenEnter
    <3>10. CASE OpenRecheck(p) BY <3>10 DEF OpenRecheck
    <3>11. CASE OpenPublish(p) BY <3>11 DEF OpenPublish
    <3>12. CASE OpenRevoke(p)  BY <3>12 DEF OpenRevoke
    <3>. QED
      BY <3>1, <3>2, <3>3, <3>4, <3>5, <3>6, <3>7, <3>8, <3>9, <3>10, <3>11, <3>12
         DEF Open
  <2>2. rx \in RxWord /\ (rx.open => rx = RxOpen)
    BY DEF InGate, GateTypes
  <2>. QED  BY <2>1, <2>2, RxWords
<1>3. OpenFlags
  <2>. USE DEF InGate, GateTypes, FlagTypes, OpenFlags
  <2>1. CASE OpenRequest(p)  BY <2>1 DEF OpenRequest
  <2>2. CASE OpenLoop(p)     BY <2>2 DEF OpenLoop
  <2>3. CASE OpenRetry(p)    BY <2>3 DEF OpenRetry
  <2>4. CASE OpenPhase(p)    BY <2>4 DEF OpenPhase
  <2>5. CASE OpenAlready(p)  BY <2>5 DEF OpenAlready
  <2>6. CASE OpenEpoch(p)    BY <2>6 DEF OpenEpoch
  <2>7. CASE OpenPending(p)  BY <2>7 DEF OpenPending
  <2>8. CASE OpenReserve(p)  BY <2>8 DEF OpenReserve
  <2>9. CASE OpenEnter(p)    BY <2>9 DEF OpenEnter
  <2>10. CASE OpenRecheck(p) BY <2>10 DEF OpenRecheck
  <2>11. CASE OpenPublish(p) BY <2>11 DEF OpenPublish
  <2>12. CASE OpenRevoke(p)  BY <2>12 DEF OpenRevoke
  <2>. QED
    BY <2>1, <2>2, <2>3, <2>4, <2>5, <2>6, <2>7, <2>8, <2>9, <2>10, <2>11, <2>12
       DEF Open
<1>4. pc[p] \notin RegLabels /\ pc'[p] \notin RegLabels
  BY <1>1 DEF OpenGoes, OpenOnly, After, RegLabels
<1>. QED
  BY <1>1, <1>2, <1>3, <1>4 DEF GateStep, Exact, Weight, InGate, GateTypes

-----------------------------------------------------------------------------
(* A step of a context other than the worker, and what it must respect for  *)
(* the invariant: it leaves the worker's command alone, and a reset that    *)
(* began a generation waits for that command.                               *)
Typed == FlagTypes' /\ HostTypes' /\ OwnTypes' /\ FifoTypes'
Counters == /\ phase' \in {"CLOSED", "OPEN", "RESETTING"} /\ crossed' \in BOOLEAN
            /\ generation' \in {generation, generation + 1}
            /\ cut' \in {cut, generation'}
OtherStep(p) == /\ GateStep(p) /\ Typed /\ Counters
                /\ UNCHANGED <<active, drained, wk>> /\ own'.release = own.release

UsbMoves == /\ pc'[Usb] \in UsbLabels /\ ret'[Usb] \in {"idle", "rxNotify"}
            /\ UNCHANGED <<acmReady, cut>>
CoordMoves == /\ pc'[Coord] \in CoordLabels
              /\ ret'[Coord] \in {"idle", "rsGen", "rsNotify", "osNotify"}
              /\ cut' # cut => pc'[Coord] = "rsWait"
              /\ pc[Coord] = "rsWait" => active = 0
              /\ UNCHANGED acmReady
MainMoves == /\ pc'[Main] \in MainLabels /\ ret'[Main] \in {"idle", "osNotify"}
             /\ pc'[Main] \in {"coCas"} \cup Marking \cup Clearing
                    => ret'[Main] = "osNotify"
             /\ pc'[Main] \in {"msCreate", "msInit"}
                    => pc[Main] \in {"msCreate", "msInit"} /\ acmReady' = acmReady
             /\ UNCHANGED cut

LEMMA OthersKeepIInv ==
    ASSUME IInv, NEW p \in {Usb, Coord, Main}, OtherStep(p),
           p = Usb => UsbMoves, p = Coord => CoordMoves, p = Main => MainMoves
    PROVE  IInv'
<1>1. /\ GateTypes /\ WkTypes /\ PointTypes /\ OwnPoints
      /\ ReturnsHome /\ WorkerUnread /\ ActiveIsJoined /\ AdmissionIsExact
      /\ FreshCommand /\ ReleaseShuts /\ ChunkLeft
  BY TypeParts, Zenon DEF IInv
<1>2. /\ Alone(p) /\ Exact(p) /\ rx' \in RxWord /\ discard' \in Nat
      /\ SeenTypes' /\ Typed /\ Counters /\ UNCHANGED <<active, drained, wk>>
      /\ own'.release = own.release
  BY Zenon DEF OtherStep, GateStep
<1>3. /\ \A q \in Proc \ {p} : pc'[q] = pc[q] /\ ret'[q] = ret[q]
      /\ pc'[Worker] = pc[Worker] /\ ret'[Worker] = ret[Worker]
  BY <1>1, <1>2 DEF PointTypes, Alone
<1>4. OwnPoints' /\ ReturnsHome'
  <2>1. CASE p = Usb
    BY <1>1, <1>3, <2>1 DEF OwnPoints, ReturnsHome, UsbMoves
  <2>2. CASE p = Coord
    BY <1>1, <1>3, <2>2 DEF OwnPoints, ReturnsHome, CoordMoves
  <2>3. CASE p = Main
    BY <1>1, <1>3, <2>3 DEF OwnPoints, ReturnsHome, MainMoves
  <2>. QED  BY <2>1, <2>2, <2>3
<1>5. PointTypes'
  <2>1. pc'[p] \in AnyLabel
    BY <1>4 DEF OwnPoints, AnyLabel
  <2>2. ret'[p] \in AnyReturn
    BY <1>4 DEF ReturnsHome, AnyReturn
  <2>. QED  BY <1>1, <1>2, <2>1, <2>2 DEF PointTypes, Alone
<1>6. GateTypes'
  BY <1>1, <1>2 DEF GateTypes, Counters
<1>7. TypeOK'
  <2>1. WkTypes'
    BY <1>1, <1>2 DEF WkTypes
  <2>2. FlagTypes' /\ HostTypes' /\ OwnTypes' /\ FifoTypes' /\ SeenTypes'
    BY <1>2, Zenon DEF Typed
  <2>3. (GateTypes /\ FlagTypes /\ HostTypes /\ OwnTypes /\ FifoTypes
         /\ WkTypes /\ SeenTypes /\ PointTypes /\ OwnPoints)'
    BY <1>4, <1>5, <1>6, <2>1, <2>2
  <2>. QED  BY <2>3, TypeParts, PTL
<1>8. WorkerUnread'
  BY <1>1, <1>3 DEF WorkerUnread, UsbMoves, CoordMoves, MainMoves
<1>9. ActiveIsJoined'
  BY <1>1, <1>2, <1>3 DEF ActiveIsJoined, Joined, Executing
<1>10. AdmissionIsExact'
  BY <1>1, <1>2, ExactAlone DEF GateTypes
<1>11. FreshCommand'
  <2>1. cut' <= generation'
    BY <1>1, <1>2 DEF FreshCommand, Counters, GateTypes
  <2>2. pc'[Worker] = "wkJoin" => wk'.k <= 2
    BY <1>1, <1>2, <1>3 DEF FreshCommand
  <2>3. Rechecked' => Rechecked
    BY <1>2, <1>3 DEF Rechecked
  <2>4. CASE cut' = cut /\ pc[Coord] # "rsWait"
    BY <1>1, <1>2, <2>1, <2>2, <2>3, <2>4 DEF FreshCommand
  <2>5. CASE p # Coord
    <3>1. cut' = cut /\ pc'[Coord] = pc[Coord]
      BY <1>3, <2>5 DEF UsbMoves, MainMoves
    <3>. QED  BY <1>1, <1>2, <2>1, <2>2, <2>3, <3>1 DEF FreshCommand
  <2>6. CASE p = Coord /\ cut' # cut
    BY <2>1, <2>2, <2>6 DEF FreshCommand, CoordMoves
  <2>7. CASE p = Coord /\ pc[Coord] = "rsWait"
    <3>1. ~Rechecked
      BY <1>1, <2>7 DEF CoordMoves, ActiveIsJoined, Joined, Executing, Rechecked,
                        ExecLabels
    <3>. QED  BY <2>1, <2>2, <2>3, <3>1 DEF FreshCommand
  <2>. QED  BY <2>4, <2>5, <2>6, <2>7
<1>12. ReleaseShuts'
  BY <1>1, <1>2, <1>3 DEF ReleaseShuts
<1>13. ChunkLeft'
  BY <1>1, <1>2, <1>3 DEF ChunkLeft
<1>. QED
  BY <1>4, <1>7, <1>8, <1>9, <1>10, <1>11, <1>12, <1>13, Zenon DEF IInv

-----------------------------------------------------------------------------
(* Where the changes of the host and of its FIFO end up.                     *)
HostRecord == [attached : BOOLEAN, conn : Nat, sent : Nat, lines : Nat]
LEMMA HostSides ==
    /\ \A s \in Seq(Byte) : \A t \in {s, <<>>} : t \in Seq(Byte)
    /\ \A h \in HostRecord : [h EXCEPT !.attached = TRUE, !.conn = @ + 1] \in HostRecord
<1>1. <<>> \in Seq(Byte)
  OBVIOUS
<1>2. ASSUME NEW h \in HostRecord
      PROVE  [h EXCEPT !.attached = TRUE, !.conn = @ + 1] \in HostRecord
  <2>. DEFINE a == [h EXCEPT !.attached = TRUE]
  <2>1. a \in HostRecord
    BY DEF HostRecord
  <2>. HIDE DEF a
  <2>2. [a EXCEPT !.conn = @ + 1] \in HostRecord
    BY <2>1 DEF HostRecord
  <2>. QED  BY <2>2 DEF a
<1>. QED  BY <1>1, <1>2

(* A step that leaves the admission word to the others.                     *)
LEMMA OutsideGate ==
    ASSUME NEW p \in Proc, InGate(p), Alone(p), UNCHANGED <<rx, discard, seen>>,
           pc[p] \notin RegLabels, pc'[p] \notin RegLabels
    PROVE  GateStep(p)
  BY DEF GateStep, InGate, GateTypes, SeenTypes, Exact, Weight, RxWord

(* A primitive of the gate disturbs nothing else.                           *)
LEMMA PrimitiveStep ==
    ASSUME TypeOK, NEW p \in Proc, GateStep(p), Keeps, phase' = phase
    PROVE  OtherStep(p) /\ UNCHANGED <<acmReady, cut>>
<1>1. GateTypes /\ FlagTypes /\ HostTypes /\ OwnTypes /\ FifoTypes
  BY TypeParts, Zenon
<1>2. Typed
  BY <1>1 DEF Typed, Keeps, FlagTypes, HostTypes, OwnTypes, FifoTypes
<1>3. Counters /\ own'.release = own.release
  BY <1>1 DEF Counters, Keeps, GateTypes
<1>. QED  BY <1>2, <1>3 DEF OtherStep, Keeps

(* The TinyUSB task.                                                        *)
LEMMA UsbTaskSteps ==
    ASSUME TypeOK, ReturnsHome, InGate(Usb), UsbTask
    PROVE  OtherStep(Usb) /\ UsbMoves
<1>1. /\ GateTypes /\ FlagTypes /\ HostTypes /\ OwnTypes /\ FifoTypes /\ PointTypes
      /\ OwnPoints
  BY TypeParts, Zenon
<1>2. /\ Alone(Usb) /\ UNCHANGED <<rx, discard, seen, drained, active, wk>>
      /\ UNCHANGED <<acmReady, cut>>
      /\ pc[Usb] \in {"idle", "rxFlag", "rxNotify", "csPhase", "csGen"}
      /\ pc'[Usb] \in {"idle", "rxFlag", "nrReg", "csPhase", "csGen", "mbReg"}
      /\ ret'[Usb] \in {"idle", "rxNotify"}
  <2>. USE <1>1 DEF PointTypes, Alone, ReturnsHome
  <2>1. CASE \E k \in Kinds : HostSends(k)  BY <2>1 DEF HostSends, UsbIdle
  <2>2. CASE RxCallback       BY <2>2 DEF RxCallback
  <2>3. CASE RxNotify         BY <2>3 DEF RxNotify
  <2>4. CASE \E c \in BOOLEAN : LineState(c)  BY <2>4 DEF LineState, UsbIdle
  <2>5. CASE HostConfigures   BY <2>5 DEF HostConfigures, UsbIdle
  <2>6. CASE Detach           BY <2>6 DEF Detach, UsbIdle
  <2>7. CASE ClosePhase       BY <2>7 DEF ClosePhase
  <2>8. CASE CloseGeneration  BY <2>8 DEF CloseGeneration
  <2>9. CASE Reattach         BY <2>9 DEF Reattach, UsbIdle
  <2>10. CASE ScsiComplete    BY <2>10 DEF ScsiComplete, UsbIdle
  <2>. QED
    BY <2>1, <2>2, <2>3, <2>4, <2>5, <2>6, <2>7, <2>8, <2>9, <2>10 DEF UsbTask
<1>3. GateStep(Usb)
  BY <1>2, OutsideGate DEF RegLabels
<1>4. Counters
  <2>. USE <1>1 DEF GateTypes, Counters
  <2>1. CASE \E k \in Kinds : HostSends(k)  BY <2>1 DEF HostSends
  <2>2. CASE RxCallback       BY <2>2 DEF RxCallback
  <2>3. CASE RxNotify         BY <2>3 DEF RxNotify
  <2>4. CASE \E c \in BOOLEAN : LineState(c)  BY <2>4 DEF LineState
  <2>5. CASE HostConfigures   BY <2>5 DEF HostConfigures
  <2>6. CASE Detach           BY <2>6 DEF Detach
  <2>7. CASE ClosePhase       BY <2>7 DEF ClosePhase
  <2>8. CASE CloseGeneration  BY <2>8 DEF CloseGeneration
  <2>9. CASE Reattach         BY <2>9 DEF Reattach
  <2>10. CASE ScsiComplete    BY <2>10 DEF ScsiComplete
  <2>. QED
    BY <2>1, <2>2, <2>3, <2>4, <2>5, <2>6, <2>7, <2>8, <2>9, <2>10 DEF UsbTask
<1>5. Typed /\ own'.release = own.release
  <2>. USE <1>1
  <2>1. CASE UNCHANGED <<host, own, fifo>> /\ FlagTypes'
    BY <2>1 DEF Typed, HostTypes, OwnTypes, FifoTypes
  <2>2. CASE UNCHANGED flags /\ HostTypes' /\ OwnTypes' /\ FifoTypes'
             /\ own'.release = own.release
    BY <2>2 DEF Typed, FlagTypes
  <2>3. CASE \E k \in Kinds : HostSends(k)
    <3>1. PICK k \in Kinds : HostSends(k)
      BY <2>3
    <3>2. [kind |-> k, gen |-> generation, conn |-> host.conn] \in Byte
      BY DEF Byte, GateTypes, HostTypes
    <3>3. FifoTypes'
      BY <3>1, <3>2 DEF HostSends, FifoTypes
    <3>4. HostTypes'
      BY <3>1, SMTT(60) DEF HostSends, HostTypes
    <3>. QED  BY <2>2, <3>1, <3>3, <3>4 DEF HostSends, OwnTypes
  <2>4. CASE RxCallback       BY <2>1, <2>4 DEF RxCallback, FlagTypes
  <2>5. CASE RxNotify         BY <2>1, <2>5 DEF RxNotify, FlagTypes
  <2>6. CASE \E c \in BOOLEAN : LineState(c)
    <3>1. PICK c \in BOOLEAN : LineState(c)
      BY <2>6
    <3>2. HostTypes'
      BY <3>1 DEF LineState, HostTypes
    <3>3. FlagTypes'
      BY <3>1 DEF LineState, FlagTypes
    <3>. QED  BY <3>1, <3>2, <3>3 DEF LineState, Typed, OwnTypes, FifoTypes
  <2>7. CASE HostConfigures
    <3>1. HostTypes'
      <4>1. host' = [host EXCEPT !.attached = TRUE, !.conn = @ + 1]
        BY <2>7 DEF HostConfigures
      <4>. QED  BY <4>1, HostSides DEF HostTypes, HostRecord
    <3>2. OwnTypes' /\ own'.release = own.release
      BY <2>7 DEF HostConfigures, OwnTypes, Events
    <3>3. FifoTypes'
      <4>1. fifo' \in {fifo, <<>>}
        BY <2>7 DEF HostConfigures
      <4>. QED  BY <4>1, HostSides DEF FifoTypes
    <3>. QED  BY <2>2, <2>7, <3>1, <3>2, <3>3 DEF HostConfigures
  <2>8. CASE Detach
    <3>1. HostTypes'
      BY <2>8 DEF Detach, HostTypes
    <3>2. OwnTypes' /\ own'.release = own.release
      BY <2>8 DEF Detach, OwnTypes
    <3>3. FifoTypes' /\ FlagTypes'
      <4>1. fifo' \in {fifo, <<>>}
        BY <2>8 DEF Detach
      <4>2. FlagTypes'
        BY <2>8 DEF Detach, FlagTypes
      <4>. QED  BY <4>1, <4>2, HostSides DEF FifoTypes
    <3>. QED  BY <3>1, <3>2, <3>3 DEF Typed
  <2>9. CASE ClosePhase       BY <2>1, <2>9 DEF ClosePhase, FlagTypes
  <2>10. CASE CloseGeneration BY <2>1, <2>10 DEF CloseGeneration, FlagTypes
  <2>11. CASE Reattach
    <3>1. HostTypes'
      <4>1. \/ host' = host
            \/ host' = [host EXCEPT !.attached = TRUE, !.conn = @ + 1]
        BY <2>11 DEF Reattach
      <4>. QED  BY <4>1, HostSides DEF HostTypes, HostRecord
    <3>2. OwnTypes' /\ own'.release = own.release
      BY <2>11 DEF Reattach, OwnTypes, Events
    <3>. QED  BY <2>2, <2>11, <3>1, <3>2 DEF Reattach, FifoTypes
  <2>12. CASE ScsiComplete
    <3>1. OwnTypes' /\ own'.release = own.release
      BY <2>12 DEF ScsiComplete, OwnTypes, Events
    <3>. QED  BY <2>2, <2>12, <3>1 DEF ScsiComplete, FifoTypes, HostTypes
  <2>. QED
    BY <2>3, <2>4, <2>5, <2>6, <2>7, <2>8, <2>9, <2>10, <2>11, <2>12 DEF UsbTask
<1>. QED
  BY <1>2, <1>3, <1>4, <1>5 DEF OtherStep, UsbMoves, UsbLabels

LEMMA UsbKeepsIInv ==
    ASSUME IInv, UsbTask \/ NoteRx(Usb) \/ Boundary(Usb) \/ ClearDirty(Usb)
    PROVE  IInv'
<1>1. TypeOK /\ ReturnsHome /\ InGate(Usb)
  BY Inside DEF IInv
<1>2. CASE UsbTask
  BY <1>1, <1>2, UsbTaskSteps, OthersKeepIInv
<1>3. CASE ~UsbTask
  <2>1. /\ GateStep(Usb) /\ Keeps /\ phase' = phase
        /\ \/ pc'[Usb] \in Noting \cup Marking \cup Clearing /\ ret'[Usb] = ret[Usb]
           \/ pc'[Usb] = ret[Usb] /\ ret'[Usb] = "idle"
    BY <1>1, <1>3, NoteSteps, BoundarySteps, ClearSteps
       DEF Inner, Done, Marking, Clearing
  <2>2. OtherStep(Usb) /\ UNCHANGED <<acmReady, cut>>
    BY <1>1, <2>1, PrimitiveStep
  <2>3. UsbMoves
    BY <1>1, <2>1, <2>2
       DEF UsbMoves, UsbLabels, ReturnsHome, Noting, Marking, Clearing
  <2>. QED  BY <2>2, <2>3, OthersKeepIInv
<1>. QED  BY <1>2, <1>3

-----------------------------------------------------------------------------
(* The coordinator.                                                         *)
LEMMA ResetSteps ==
    ASSUME TypeOK, ReturnsHome, InGate(Coord), Reset
    PROVE  OtherStep(Coord) /\ CoordMoves
<1>1. /\ GateTypes /\ FlagTypes /\ HostTypes /\ OwnTypes /\ FifoTypes /\ PointTypes
      /\ OwnPoints
  BY TypeParts, Zenon
<1>2. /\ Alone(Coord) /\ UNCHANGED <<rx, discard, seen, drained, active, wk>>
      /\ UNCHANGED <<acmReady, fifo>>
      /\ pc[Coord] \in {"rsFlags", "rsPhase", "rsGen", "rsWait", "rsClosed",
                        "rsNotify"}
      /\ pc'[Coord] \in {"rsPhase", "caCas", "rsWait", "rsClosed", "nrReg", "idle",
                         "osRequest", "released"}
      /\ ret'[Coord] \in {"idle", "rsGen", "rsNotify", "osNotify"}
      /\ pc[Coord] = "rsWait" => active = 0
  <2>. USE <1>1 DEF PointTypes, Alone, ReturnsHome
  <2>1. CASE ResetFlags       BY <2>1 DEF ResetFlags
  <2>2. CASE ResetPhase       BY <2>2 DEF ResetPhase
  <2>3. CASE ResetGeneration  BY <2>3 DEF ResetGeneration
  <2>4. CASE ResetWait        BY <2>4 DEF ResetWait
  <2>5. CASE ResetClosed      BY <2>5 DEF ResetClosed
  <2>6. CASE ResetNotify      BY <2>6 DEF ResetNotify
  <2>. QED  BY <2>1, <2>2, <2>3, <2>4, <2>5, <2>6 DEF Reset
<1>3. GateStep(Coord)
  BY <1>2, OutsideGate DEF RegLabels
<1>4. Counters /\ (cut' # cut => pc'[Coord] = "rsWait")
  <2>. USE <1>1 DEF GateTypes, Counters, PointTypes
  <2>1. CASE ResetFlags       BY <2>1 DEF ResetFlags
  <2>2. CASE ResetPhase       BY <2>2 DEF ResetPhase
  <2>3. CASE ResetGeneration  BY <2>3 DEF ResetGeneration
  <2>4. CASE ResetWait        BY <2>4 DEF ResetWait
  <2>5. CASE ResetClosed      BY <2>5 DEF ResetClosed
  <2>6. CASE ResetNotify      BY <2>6 DEF ResetNotify
  <2>. QED  BY <2>1, <2>2, <2>3, <2>4, <2>5, <2>6 DEF Reset
<1>5. FlagTypes'
  <2>. USE <1>1 DEF FlagTypes
  <2>1. CASE ResetFlags       BY <2>1 DEF ResetFlags
  <2>2. CASE ResetPhase       BY <2>2 DEF ResetPhase
  <2>3. CASE ResetGeneration  BY <2>3 DEF ResetGeneration
  <2>4. CASE ResetWait        BY <2>4 DEF ResetWait
  <2>5. CASE ResetClosed      BY <2>5 DEF ResetClosed
  <2>6. CASE ResetNotify      BY <2>6 DEF ResetNotify
  <2>. QED  BY <2>1, <2>2, <2>3, <2>4, <2>5, <2>6 DEF Reset
<1>6. HostTypes' /\ OwnTypes' /\ own'.release = own.release
  <2>1. CASE UNCHANGED <<host, own>>
    BY <1>1, <2>1 DEF HostTypes, OwnTypes
  <2>2. CASE ResetNotify
    <3>1. (host.attached /\ ~Publishes /\ own.job # "release") \in BOOLEAN
      BY Zenon
    <3>2. HostTypes'
      BY <1>1, <2>2, <3>1 DEF ResetNotify, HostTypes
    <3>3. own' = [own EXCEPT !.job = "publish"] \/ own' = [own EXCEPT !.job = "none"]
      BY <2>2 DEF ResetNotify
    <3>4. OwnTypes' /\ own'.release = own.release
      BY <1>1, <3>3 DEF OwnTypes
    <3>. QED  BY <3>2, <3>4
  <2>3. CASE Reset /\ ~ResetNotify
    BY <2>1, <2>3 DEF Reset, ResetFlags, ResetPhase, ResetGeneration, ResetWait,
                      ResetClosed
  <2>. QED  BY <2>2, <2>3
<1>7. Typed
  BY <1>1, <1>2, <1>5, <1>6 DEF Typed, FifoTypes
<1>. QED
  BY <1>2, <1>3, <1>4, <1>6, <1>7 DEF OtherStep, CoordMoves, CoordLabels, OpenLabels

LEMMA HandlerSteps ==
    ASSUME TypeOK, ReturnsHome, InGate(Coord), NEW e \in Events, HandleEvent(e)
    PROVE  OtherStep(Coord) /\ CoordMoves
<1>1. /\ GateTypes /\ FlagTypes /\ HostTypes /\ OwnTypes /\ FifoTypes /\ PointTypes
      /\ OwnPoints
  BY TypeParts, Zenon
<1>2. /\ Alone(Coord) /\ UNCHANGED <<gate, flags, host, fifo, seen, wk>>
      /\ pc[Coord] = "idle" /\ pc'[Coord] \in {"idle", "osRequest", "rsFlags"}
      /\ ret'[Coord] = ret[Coord]
  BY <1>1 DEF PointTypes, Alone, HandleEvent
<1>3. GateStep(Coord)
  BY <1>2, OutsideGate DEF RegLabels
<1>4. OwnTypes' /\ own'.release = own.release
  <2>1. \/ own' = [own EXCEPT !.events = @ \ {e}, !.error = TRUE]
        \/ own' = [own EXCEPT !.events = @ \ {e}, !.job = HandlerJob(e)]
    BY DEF HandleEvent
  <2>2. HandlerJob(e) \in {"none", "attach", "publish", "reattach", "release"}
    BY <1>1 DEF HandlerJob, OwnTypes
  <2>3. CASE own' = [own EXCEPT !.events = @ \ {e}, !.error = TRUE]
    BY <1>1, <2>3 DEF OwnTypes
  <2>4. CASE own' = [own EXCEPT !.events = @ \ {e}, !.job = HandlerJob(e)]
    BY <1>1, <2>2, <2>4 DEF OwnTypes
  <2>. QED  BY <2>1, <2>3, <2>4
<1>5. Typed /\ Counters
  BY <1>1, <1>2, <1>4 DEF Typed, Counters, FlagTypes, HostTypes, FifoTypes, GateTypes
<1>. QED
  BY <1>2, <1>3, <1>4, <1>5
     DEF OtherStep, CoordMoves, CoordLabels, OpenLabels, ReturnsHome

(* Opening and its primitives on the coordinator and on the main task.      *)
LEMMA OpenerSteps ==
    ASSUME TypeOK, NEW p \in {Coord, Main}, InGate(p), Opener(p)
    PROVE  /\ OtherStep(p) /\ UNCHANGED <<acmReady, cut>> /\ pc[p] \in OpenLabels
           /\ \/ OpenGoes(p)
              \/ pc'[p] \in Marking \cup Clearing /\ ret'[p] = ret[p]
                 /\ pc[p] \in {"coCas"} \cup Marking \cup Clearing
              \/ pc'[p] = ret[p] /\ ret'[p] = "idle"
                 /\ pc[p] \in {"coCas"} \cup Marking \cup Clearing
<1>1. /\ GateTypes /\ FlagTypes /\ HostTypes /\ OwnTypes /\ FifoTypes
  BY TypeParts, Zenon
<1>2. CASE Open(p)
  <2>1. GateStep(p) /\ OpenKeeps /\ OpenFlags /\ pc[p] \in OpenOnly /\ OpenGoes(p)
    BY <1>1, <1>2, OpenSteps
  <2>2. Typed /\ Counters /\ own'.release = own.release
    BY <1>1, <2>1 DEF Typed, Counters, OpenKeeps, OpenFlags, FlagTypes, HostTypes,
                      OwnTypes, FifoTypes, GateTypes
  <2>. QED
    BY <2>1, <2>2 DEF OtherStep, OpenKeeps, OpenOnly, OpenLabels
<1>3. CASE CancelOpening(p) \/ Boundary(p) \/ ClearDirty(p)
  <2>1. /\ GateStep(p) /\ Keeps /\ phase' = phase
        /\ pc[p] \in {"coCas", "caCas"} \cup Marking \cup Clearing
        /\ \/ pc'[p] \in Marking \cup Clearing /\ ret'[p] = ret[p]
           \/ pc'[p] = ret[p] /\ ret'[p] = "idle"
    BY <1>3, CancelSteps, BoundarySteps, ClearSteps
       DEF Inner, Done, Marking, Clearing
  <2>2. pc[p] # "caCas"
    BY <1>3, BoundarySteps, ClearSteps DEF CancelOpening, Marking, Clearing
  <2>3. OtherStep(p) /\ UNCHANGED <<acmReady, cut>>
    BY <2>1, PrimitiveStep
  <2>. QED  BY <2>1, <2>2, <2>3 DEF OpenLabels, Marking, Clearing
<1>. QED  BY <1>2, <1>3 DEF Opener

LEMMA CoordKeepsIInv ==
    ASSUME IInv, CoordTask \/ Opener(Coord)
    PROVE  IInv'
<1>1. TypeOK /\ ReturnsHome /\ InGate(Coord)
  BY Inside DEF IInv
<1>2. CASE Reset
  BY <1>1, <1>2, ResetSteps, OthersKeepIInv
<1>3. CASE \E e \in Events : HandleEvent(e)
  BY <1>1, <1>3, HandlerSteps, OthersKeepIInv
<1>4. CASE CloseRxAdmission(Coord) \/ NoteRx(Coord)
  <2>1. /\ GateStep(Coord) /\ Keeps /\ phase' = phase
        /\ pc[Coord] # "rsWait"
        /\ \/ pc'[Coord] \in Noting \cup Clearing /\ ret'[Coord] = ret[Coord]
           \/ pc'[Coord] = ret[Coord] /\ ret'[Coord] = "idle"
    BY <1>1, <1>4, NoteSteps, CancelSteps DEF Inner, Done, Noting
  <2>2. OtherStep(Coord) /\ UNCHANGED <<acmReady, cut>>
    BY <1>1, <2>1, PrimitiveStep
  <2>3. CoordMoves
    BY <1>1, <2>1, <2>2
       DEF CoordMoves, CoordLabels, OpenLabels, ReturnsHome, Noting, Clearing
  <2>. QED  BY <2>2, <2>3, OthersKeepIInv
<1>5. CASE Opener(Coord)
  <2>1. /\ OtherStep(Coord) /\ UNCHANGED <<acmReady, cut>> /\ pc[Coord] \in OpenLabels
        /\ \/ OpenGoes(Coord)
           \/ pc'[Coord] \in Marking \cup Clearing /\ ret'[Coord] = ret[Coord]
           \/ pc'[Coord] = ret[Coord] /\ ret'[Coord] = "idle"
    BY <1>1, <1>5, OpenerSteps
  <2>2. CoordMoves
    BY <1>1, <2>1 DEF CoordMoves, CoordLabels, OpenLabels, ReturnsHome, Marking,
                      Clearing, OpenGoes, OpenOnly, After
  <2>. QED  BY <2>1, <2>2, OthersKeepIInv
<1>. QED  BY <1>2, <1>3, <1>4, <1>5 DEF CoordTask

-----------------------------------------------------------------------------
(* The main task.  A failed start also takes the worker away, which is then *)
(* neither registered nor inside a command.                                 *)
LEMMA StartSteps ==
    ASSUME TypeOK, ReturnsHome, InGate(Main), StartWorker \/ StartAcm \/ StartOpen
    PROVE  OtherStep(Main) /\ MainMoves
<1>1. /\ GateTypes /\ FlagTypes /\ HostTypes /\ OwnTypes /\ FifoTypes /\ PointTypes
      /\ OwnPoints
  BY TypeParts, Zenon
<1>2. /\ Alone(Main) /\ UNCHANGED <<gate, env, seen, wk>>
      /\ pc[Main] \in {"msCreate", "msInit", "msOpen"}
      /\ pc'[Main] \in {"msInit", "msOpen", "osRequest", "done"}
      /\ ret'[Main] = ret[Main]
      /\ pc'[Main] = "msInit" => pc[Main] = "msCreate" /\ acmReady' = acmReady
  BY <1>1 DEF PointTypes, Alone, StartWorker, StartAcm, StartOpen
<1>3. FlagTypes'
  BY <1>1 DEF FlagTypes, StartWorker, StartAcm, StartOpen
<1>4. GateStep(Main)
  BY <1>2, OutsideGate DEF RegLabels
<1>5. Typed /\ Counters /\ own'.release = own.release
  BY <1>1, <1>2, <1>3 DEF Typed, Counters, HostTypes, OwnTypes, FifoTypes, GateTypes
<1>. QED
  BY <1>2, <1>4, <1>5 DEF OtherStep, MainMoves, MainLabels, OpenLabels, ReturnsHome,
                          Marking, Clearing

LEMMA StartFailsKeepsIInv ==
    ASSUME IInv, StartFails
    PROVE  IInv'
<1>1. /\ GateTypes /\ FlagTypes /\ HostTypes /\ OwnTypes /\ FifoTypes /\ WkTypes
      /\ SeenTypes /\ PointTypes /\ OwnPoints
      /\ ReturnsHome /\ WorkerUnread /\ ActiveIsJoined /\ AdmissionIsExact
      /\ FreshCommand /\ ReleaseShuts /\ ChunkLeft
  BY TypeParts, Zenon DEF IInv
<1>2. /\ pc[Main] \in {"msCreate", "msInit"}
      /\ pc' = [[pc EXCEPT ![Main] = "done"] EXCEPT ![Worker] = "wkWait"]
      /\ UNCHANGED <<gate, connected, resetLine, openRequested, acmReady, notified,
                     host, fifo, wk, seen, ret>>
      /\ workerUp' = FALSE /\ own' = [own EXCEPT !.error = TRUE]
  BY DEF StartFails
<1>3. /\ pc'[Usb] = pc[Usb] /\ pc'[Coord] = pc[Coord] /\ pc'[Main] = "done"
      /\ pc'[Worker] = "wkWait"
  BY <1>1, <1>2 DEF PointTypes
<1>4. pc[Worker] \in {"wkWait", "wkSnap", "wkSnap1", "wkSnap2", "wkEpoch", "wkRead"}
  BY <1>1, <1>2 DEF WorkerUnread
<1>5. TypeOK'
  <2>1. OwnPoints'
    BY <1>1, <1>3 DEF OwnPoints, MainLabels, WorkerLabels
  <2>2. "done" \in AnyLabel /\ "wkWait" \in AnyLabel
    BY DEF AnyLabel, MainLabels, WorkerLabels
  <2>3. PointTypes'
    BY <1>1, <1>2, <2>2 DEF PointTypes
  <2>4. OwnTypes'
    BY <1>1, <1>2 DEF OwnTypes
  <2>5. GateTypes' /\ FlagTypes'
    BY <1>1, <1>2 DEF GateTypes, FlagTypes
  <2>6. HostTypes' /\ FifoTypes' /\ WkTypes' /\ SeenTypes'
    BY <1>1, <1>2 DEF HostTypes, FifoTypes, WkTypes, SeenTypes
  <2>7. (GateTypes /\ FlagTypes /\ HostTypes /\ OwnTypes /\ FifoTypes
         /\ WkTypes /\ SeenTypes /\ PointTypes /\ OwnPoints)'
    BY <2>1, <2>3, <2>4, <2>5, <2>6
  <2>. QED  BY <2>7, TypeParts, PTL
<1>6. ReturnsHome' /\ WorkerUnread'
  BY <1>1, <1>2, <1>3 DEF ReturnsHome, WorkerUnread, Marking, Clearing
<1>7. ActiveIsJoined'
  BY <1>1, <1>2, <1>3, <1>4 DEF ActiveIsJoined, Joined, Executing
<1>8. AdmissionIsExact'
  <2>1. {p \in Proc : Registered(p)}' = {p \in Proc : Registered(p)}
    BY <1>2, <1>3, <1>4 DEF Registered
  <2>. QED  BY <1>1, <1>2, <2>1 DEF AdmissionIsExact
<1>9. FreshCommand'
  BY <1>1, <1>2, <1>3 DEF FreshCommand, Rechecked, ExecLabels
<1>10. ReleaseShuts' /\ ChunkLeft'
  BY <1>3 DEF ReleaseShuts, ChunkLeft
<1>. QED
  BY <1>5, <1>6, <1>7, <1>8, <1>9, <1>10, Zenon DEF IInv

LEMMA MainKeepsIInv ==
    ASSUME IInv, MainTask \/ Opener(Main)
    PROVE  IInv'
<1>1. TypeOK /\ ReturnsHome /\ InGate(Main)
  BY Inside DEF IInv
<1>2. CASE StartWorker \/ StartAcm \/ StartOpen
  BY <1>1, <1>2, StartSteps, OthersKeepIInv
<1>3. CASE StartFails
  BY <1>3, StartFailsKeepsIInv
<1>4. CASE Opener(Main)
  <2>1. /\ OtherStep(Main) /\ UNCHANGED <<acmReady, cut>> /\ pc[Main] \in OpenLabels
        /\ \/ OpenGoes(Main)
           \/ pc'[Main] \in Marking \cup Clearing /\ ret'[Main] = ret[Main]
              /\ pc[Main] \in {"coCas"} \cup Marking \cup Clearing
           \/ pc'[Main] = ret[Main] /\ ret'[Main] = "idle"
              /\ pc[Main] \in {"coCas"} \cup Marking \cup Clearing
    BY <1>1, <1>4, OpenerSteps
  <2>2. MainMoves
    BY <1>1, <2>1 DEF MainMoves, MainLabels, OpenLabels, ReturnsHome, Marking,
                      Clearing, OpenGoes, OpenOnly, After
  <2>. QED  BY <2>1, <2>2, OthersKeepIInv
<1>. QED  BY <1>2, <1>3, <1>4 DEF MainTask

-----------------------------------------------------------------------------
(* The worker's own steps: where they lead,                                 *)
Unread == {"wkWait", "wkSnap", "wkSnap1", "wkSnap2", "wkEpoch", "wkRead"}
Door == {"wkBegin1", "wkJoin", "wkBegin2", "wkExec"}
Joins(l) == IF l \in JoinLabels THEN 1 ELSE 0
WorkerGoes ==
    /\ Alone(Worker) /\ pc'[Worker] \in WorkerLabels
    /\ pc[Worker] \notin RegLabels /\ pc'[Worker] \notin RegLabels
    /\ UNCHANGED <<phase, generation, rx, discard, past, connected, openRequested,
                   workerUp, acmReady, host, seen>>
    /\ ret'[Worker] \in {ret[Worker], "wkWait"}
    /\ pc'[Worker] \in Clearing => ret'[Worker] = "wkWait"

(* and what that does to the command in the gate.                           *)
WorkerCommand ==
    /\ active' \in {active - 1, active, active + 1}
    /\ active' + Joins(pc[Worker]) = active + Joins(pc'[Worker])
    /\ pc'[Worker] = "wkJoin" => wk'.k = 1
    /\ Rechecked' => /\ wk'.frameGen = wk.frameGen
                     /\ Rechecked \/ wk.frameGen = generation
    /\ pc'[Worker] \in Door /\ own'.release => pc[Worker] \in Door /\ own.release
    /\ pc'[Worker] \in {"wkReset", "wkBatch", "wkByte"} => wk'.chunk # <<>>
    /\ ~acmReady /\ pc[Worker] \in Unread => pc'[Worker] \in Unread

WorkerTypes == WkTypes' /\ drained' \in Nat /\ OwnTypes' /\ FifoTypes'
               /\ resetLine' \in BOOLEAN /\ notified' \in BOOLEAN

LEMMA WorkerControl ==
    ASSUME PointTypes, WorkerTask
    PROVE  WorkerGoes
<1>. USE DEF PointTypes, WorkerGoes, Alone, WorkerLabels, CheckLabels, RegLabels,
             Clearing
<1>1. CASE CheckMore           BY <1>1 DEF CheckMore
<1>2. CASE WorkerWait          BY <1>2 DEF WorkerWait
<1>3. CASE SnapshotGeneration  BY <1>3 DEF SnapshotGeneration
<1>4. CASE SnapshotFirst       BY <1>4 DEF SnapshotFirst
<1>5. CASE SnapshotRecheck     BY <1>5 DEF SnapshotRecheck, Passed, Failed
<1>6. CASE LoadDiscardEpoch    BY <1>6 DEF LoadDiscardEpoch
<1>7. CASE ReadChunk           BY <1>7 DEF ReadChunk
<1>8. CASE MarkDrained         BY <1>8 DEF MarkDrained
<1>9. CASE ResetFramer         BY <1>9 DEF ResetFramer
<1>10. CASE AdmitBatch         BY <1>10 DEF AdmitBatch, Passed, Failed
<1>11. CASE FeedByte           BY <1>11 DEF FeedByte, NextByte, Passed
<1>12. CASE DropChunk          BY <1>12 DEF DropChunk, Failed
<1>13. CASE CommandBegin       BY <1>13 DEF CommandBegin, DropFrame, NextByte, Passed, Failed
<1>14. CASE CommandJoin        BY <1>14 DEF CommandJoin
<1>15. CASE CommandRecheck     BY <1>15 DEF CommandRecheck, Passed, Failed
<1>16. CASE CommandLeave       BY <1>16 DEF CommandLeave, DropFrame, NextByte
<1>17. CASE ProcessLine        BY <1>17 DEF ProcessLine
<1>18. CASE WriteResponse      BY <1>18 DEF WriteResponse, Fail, Passed, Failed
<1>19. CASE ResponseComplete   BY <1>19 DEF ResponseComplete, Passed
<1>20. CASE CommandEnd         BY <1>20 DEF CommandEnd
<1>21. CASE SignalRelease      BY <1>21 DEF SignalRelease
<1>22. CASE AfterCommand       BY <1>22 DEF AfterCommand, NextByte
<1>. QED
  BY <1>1, <1>2, <1>3, <1>4, <1>5, <1>6, <1>7, <1>8, <1>9, <1>10, <1>11, <1>12,
     <1>13, <1>14, <1>15, <1>16, <1>17, <1>18, <1>19, <1>20, <1>21, <1>22
     DEF WorkerTask

LEMMA WorkerData ==
    ASSUME GateTypes, FlagTypes, WkTypes, OwnTypes, FifoTypes, ChunkLeft, WorkerTask
    PROVE  WorkerTypes
<1>. <<>> \in Seq(Byte)
  OBVIOUS
<1>1. CASE /\ UNCHANGED <<drained, own, fifo, resetLine, notified>> /\ WkTypes'
  BY <1>1 DEF WorkerTypes, GateTypes, FlagTypes, OwnTypes, FifoTypes
<1>2. CASE CheckMore           BY <1>1, <1>2, SMTT(60) DEF CheckMore, WkTypes
<1>3. CASE WorkerWait
  BY <1>3, ZenonT(60) DEF WorkerWait, WorkerTypes, GateTypes, FlagTypes, OwnTypes, FifoTypes,
              WkTypes
<1>4. CASE SnapshotGeneration
  BY <1>1, <1>4 DEF SnapshotGeneration, WkTypes, GateTypes
<1>5. CASE SnapshotFirst       BY <1>1, <1>5 DEF SnapshotFirst, WkTypes
<1>6. CASE SnapshotRecheck
  <2>1. \/ wk' = [wk EXCEPT !.admitted = TRUE, !.k = 1]
        \/ wk' = [wk EXCEPT !.k = 1]
    BY <1>6 DEF SnapshotRecheck
  <2>2. WkTypes'
    <3>1. CASE wk' = [wk EXCEPT !.admitted = TRUE, !.k = 1]
      BY <3>1 DEF WkTypes
    <3>2. CASE wk' = [wk EXCEPT !.k = 1]
      BY <3>2 DEF WkTypes
    <3>. QED  BY <2>1, <3>1, <3>2
  <2>. QED  BY <1>1, <1>6, <2>2 DEF SnapshotRecheck
<1>7. CASE LoadDiscardEpoch
  BY <1>1, <1>7 DEF LoadDiscardEpoch, WkTypes, GateTypes
<1>8. CASE ReadChunk
  <2>1. /\ \/ UNCHANGED <<wk, fifo>>
           \/ wk' = [wk EXCEPT !.chunk = fifo, !.epoch = 0] /\ fifo' = <<>>
        /\ UNCHANGED <<drained, own, resetLine, notified>>
    BY <1>8 DEF ReadChunk
  <2>2. WkTypes' /\ FifoTypes'
    <3>1. CASE UNCHANGED <<wk, fifo>>
      BY <3>1 DEF WkTypes, FifoTypes
    <3>2. CASE wk' = [wk EXCEPT !.chunk = fifo, !.epoch = 0] /\ fifo' = <<>>
      BY <3>2 DEF WkTypes, FifoTypes
    <3>. QED  BY <2>1, <3>1, <3>2
  <2>. QED  BY <2>1, <2>2 DEF WorkerTypes, GateTypes, FlagTypes, OwnTypes
<1>9. CASE MarkDrained
  BY <1>9, ZenonT(60) DEF MarkDrained, WorkerTypes, GateTypes, FlagTypes, OwnTypes, FifoTypes,
              WkTypes
<1>10. CASE ResetFramer
  BY <1>10, ZenonT(60) DEF ResetFramer, WorkerTypes, GateTypes, FlagTypes, OwnTypes, FifoTypes,
               WkTypes
<1>11. CASE AdmitBatch
  <2>1. \/ wk' = [wk EXCEPT !.k = 1]
        \/ wk' = [wk EXCEPT !.line = <<>>, !.frameGen = 0, !.chunk = <<>>, !.k = 1]
    BY <1>11 DEF AdmitBatch
  <2>2. WkTypes'
    <3>1. CASE wk' = [wk EXCEPT !.k = 1]
      BY <3>1 DEF WkTypes
    <3>2. CASE wk' = [wk EXCEPT !.line = <<>>, !.frameGen = 0, !.chunk = <<>>, !.k = 1]
      BY <3>2 DEF WkTypes
    <3>. QED  BY <2>1, <3>1, <3>2
  <2>. QED  BY <1>1, <1>11, <2>2 DEF AdmitBatch
<1>12. CASE FeedByte
  <2>1. wk.chunk # <<>> /\ wk.chunk \in Seq(Byte)
    BY <1>12 DEF FeedByte, Passed, ChunkLeft, WkTypes
  <2>2. Head(wk.chunk) \in Byte /\ Tail(wk.chunk) \in Seq(Byte)
    BY <2>1
  <2>3. /\ (IF wk.line = <<>> THEN wk.snapGen ELSE wk.frameGen) \in Nat
        /\ Append(wk.line, Head(wk.chunk)) \in Seq(Byte)
    BY <2>2, SMTT(60) DEF WkTypes
  <2>4. PICK g \in Nat, l \in Seq(Byte), c \in Seq(Byte) :
           \/ wk' = [wk EXCEPT !.chunk = c, !.frame = l, !.line = <<>>,
                               !.frameGen = g, !.k = 1]
           \/ wk' = [wk EXCEPT !.chunk = c, !.line = l, !.frameGen = g, !.k = 1]
    BY <1>12, <2>2, <2>3 DEF FeedByte
  <2>5. WkTypes'
    <3>1. CASE wk' = [wk EXCEPT !.chunk = c, !.frame = l, !.line = <<>>,
                                !.frameGen = g, !.k = 1]
      BY <3>1 DEF WkTypes
    <3>2. CASE wk' = [wk EXCEPT !.chunk = c, !.line = l, !.frameGen = g, !.k = 1]
      BY <3>2 DEF WkTypes
    <3>. QED  BY <2>4, <3>1, <3>2
  <2>. QED  BY <1>1, <1>12, <2>5 DEF FeedByte
<1>13. CASE DropChunk
  BY <1>13 DEF DropChunk, WorkerTypes, GateTypes, FlagTypes, OwnTypes, FifoTypes,
               WkTypes
<1>14. CASE CommandBegin
  <2>1. \/ wk' = [wk EXCEPT !.k = 1]
        \/ wk' = [wk EXCEPT !.frame = <<>>, !.frameGen = 0, !.k = 1]
    BY <1>14 DEF CommandBegin, DropFrame
  <2>2. WkTypes'
    <3>1. CASE wk' = [wk EXCEPT !.k = 1]
      BY <3>1 DEF WkTypes
    <3>2. CASE wk' = [wk EXCEPT !.frame = <<>>, !.frameGen = 0, !.k = 1]
      BY <3>2 DEF WkTypes
    <3>. QED  BY <2>1, <3>1, <3>2
  <2>. QED  BY <1>1, <1>14, <2>2 DEF CommandBegin
<1>15. CASE CommandJoin        BY <1>1, <1>15 DEF CommandJoin, WkTypes
<1>16. CASE CommandRecheck     BY <1>1, <1>16 DEF CommandRecheck, WkTypes
<1>17. CASE CommandLeave       BY <1>1, <1>17 DEF CommandLeave, DropFrame, WkTypes
<1>18. CASE ProcessLine
  BY <1>18, ZenonT(60) DEF ProcessLine, WorkerTypes, GateTypes, FlagTypes, OwnTypes, FifoTypes,
               WkTypes
<1>19. CASE WriteResponse      BY <1>1, <1>19 DEF WriteResponse, WkTypes
<1>20. CASE ResponseComplete   BY <1>1, <1>20 DEF ResponseComplete, WkTypes
<1>21. CASE CommandEnd         BY <1>1, <1>21 DEF CommandEnd, WkTypes
<1>22. CASE SignalRelease
  <2>1. OwnTypes'
    BY <1>22 DEF SignalRelease, OwnTypes, Events
  <2>. QED
    BY <1>22, <2>1 DEF SignalRelease, WorkerTypes, GateTypes, FlagTypes, FifoTypes,
                       WkTypes
<1>23. CASE AfterCommand       BY <1>1, <1>23 DEF AfterCommand, WkTypes
<1>. QED
  BY <1>2, <1>3, <1>4, <1>5, <1>6, <1>7, <1>8, <1>9, <1>10, <1>11, <1>12,
     <1>13, <1>14, <1>15, <1>16, <1>17, <1>18, <1>19, <1>20, <1>21, <1>22, <1>23
     DEF WorkerTask

(* The tests the worker makes before a byte and before a command.           *)
LEMMA CheckFacts ==
    /\ Len(Checks("wkByte")) = 6 /\ Checks("wkByte")[6] = "lifecycle"
    /\ Len(Checks("wkBegin2")) = 4 /\ Checks("wkBegin2")[2] = "generation"
<1>1. /\ Checks("wkByte") = <<"line", "phase", "generation", "rx", "drained",
                              "lifecycle">>
      /\ Checks("wkBegin2") = <<"phase", "generation", "rx", "drained">>
  BY DEF Checks, Session
<1>. QED  BY <1>1

LEMMA WorkerKeepsCommand ==
    ASSUME GateTypes, WkTypes, PointTypes, FifoTypes, ChunkLeft, ActiveIsJoined,
           FreshCommand, WorkerTask
    PROVE  WorkerCommand
<1>. USE DEF PointTypes, GateTypes, WorkerCommand, Joins, JoinLabels, ExecLabels,
             Rechecked, Door, Unread
<1>1. CASE CheckMore
  <2>1. PICK l \in CheckLabels : /\ pc[Worker] = l /\ wk.k < Len(Checks(l))
                                 /\ LoadPasses(l)
                                 /\ wk' = [wk EXCEPT !.k = @ + 1]
    BY <1>1 DEF CheckMore
  <2>2. UNCHANGED <<active, own, pc, generation, acmReady>>
    BY <1>1 DEF CheckMore
  <2>3. /\ wk'.frameGen = wk.frameGen /\ wk'.chunk = wk.chunk /\ wk'.k = wk.k + 1
        /\ wk.k \in Nat
    BY <2>1 DEF WkTypes
  <2>4. pc[Worker] # "wkJoin"
    BY <2>1 DEF CheckLabels
  <2>5. Rechecked' => Rechecked \/ wk.frameGen = generation
    <3>1. CASE pc[Worker] = "wkBegin2" /\ wk.k = 2
      <4>1. Passes("generation", "wkBegin2")
        BY <2>1, <3>1, CheckFacts DEF LoadPasses
      <4>. QED  BY <4>1 DEF Passes, Expected
    <3>. QED  BY <2>2, <2>3, <3>1
  <2>. QED  BY <2>2, <2>3, <2>4, <2>5 DEF ChunkLeft
<1>2. CASE WorkerWait          BY <1>2 DEF WorkerWait
<1>3. CASE SnapshotGeneration  BY <1>3 DEF SnapshotGeneration
<1>4. CASE SnapshotFirst       BY <1>4 DEF SnapshotFirst
<1>5. CASE SnapshotRecheck     BY <1>5 DEF SnapshotRecheck, Passed, Failed
<1>6. CASE LoadDiscardEpoch    BY <1>6 DEF LoadDiscardEpoch
<1>7. CASE ReadChunk
  <2>1. /\ pc[Worker] = "wkRead" /\ UNCHANGED <<active, own>>
        /\ \/ ~acmReady /\ pc'[Worker] = "wkWait"
           \/ acmReady /\ pc'[Worker] = "wkDrained"
           \/ acmReady /\ pc'[Worker] = "wkReset" /\ wk'.chunk # <<>>
    BY <1>7 DEF ReadChunk, WkTypes
  <2>. QED  BY <2>1
<1>8. CASE MarkDrained         BY <1>8 DEF MarkDrained
<1>9. CASE ResetFramer         BY <1>9 DEF ResetFramer, ChunkLeft, WkTypes
<1>10. CASE AdmitBatch         BY <1>10, SMTT(60) DEF AdmitBatch, Passed, Failed, ChunkLeft, WkTypes
<1>11. CASE FeedByte
  <2>1. ~own.release
    BY <1>11, CheckFacts DEF FeedByte, Passed, LoadPasses, Passes, Lifecycle
  <2>2. /\ pc[Worker] = "wkByte" /\ UNCHANGED <<active, own, generation>>
        /\ wk'.chunk = Tail(wk.chunk)
        /\ \/ pc'[Worker] = "wkBegin1"
           \/ pc'[Worker] = "wkSnap"
           \/ pc'[Worker] = "wkByte" /\ Tail(wk.chunk) # <<>>
    BY <1>11 DEF FeedByte, Passed, NextByte, WkTypes
  <2>. QED  BY <2>1, <2>2
<1>12. CASE DropChunk          BY <1>12 DEF DropChunk, Failed
<1>13. CASE CommandBegin
  BY <1>13 DEF CommandBegin, DropFrame, NextByte, Passed, Failed, WkTypes
<1>14. CASE CommandJoin
  <2>1. wk.k <= 2 /\ wk.k \in Nat
    BY <1>14 DEF CommandJoin, FreshCommand, WkTypes
  <2>2. /\ pc[Worker] = "wkJoin" /\ pc'[Worker] = "wkBegin2"
        /\ active' = active + 1 /\ UNCHANGED <<own, wk>>
    BY <1>14 DEF CommandJoin
  <2>. QED  BY <2>1, <2>2
<1>15. CASE CommandRecheck
  <2>1. /\ pc[Worker] = "wkBegin2" /\ UNCHANGED <<active, own>>
        /\ wk'.frameGen = wk.frameGen
        /\ pc'[Worker] = "wkLeave" \/ (pc'[Worker] = "wkExec" /\ wk.k = 4)
    BY <1>15, CheckFacts DEF CommandRecheck, Passed, Failed, WkTypes
  <2>. QED  BY <2>1
<1>16. CASE CommandLeave       BY <1>16 DEF CommandLeave, DropFrame, NextByte, WkTypes
<1>17. CASE ProcessLine        BY <1>17 DEF ProcessLine, WkTypes
<1>18. CASE WriteResponse      BY <1>18 DEF WriteResponse, Fail, Passed, Failed, WkTypes
<1>19. CASE ResponseComplete   BY <1>19 DEF ResponseComplete, Passed, WkTypes
<1>20. CASE CommandEnd         BY <1>20 DEF CommandEnd
<1>21. CASE SignalRelease      BY <1>21 DEF SignalRelease
<1>22. CASE AfterCommand       BY <1>22 DEF AfterCommand, NextByte, WkTypes
<1>. QED
  BY <1>1, <1>2, <1>3, <1>4, <1>5, <1>6, <1>7, <1>8, <1>9, <1>10, <1>11, <1>12,
     <1>13, <1>14, <1>15, <1>16, <1>17, <1>18, <1>19, <1>20, <1>21, <1>22
     DEF WorkerTask

LEMMA WorkerKeepsIInv ==
    ASSUME IInv, WorkerTask
    PROVE  IInv'
<1>1. /\ GateTypes /\ FlagTypes /\ HostTypes /\ OwnTypes /\ FifoTypes /\ WkTypes
      /\ SeenTypes /\ PointTypes /\ OwnPoints
      /\ ReturnsHome /\ WorkerUnread /\ ActiveIsJoined /\ AdmissionIsExact
      /\ FreshCommand /\ ReleaseShuts /\ ChunkLeft
  BY TypeParts, Zenon DEF IInv
<1>2. WorkerGoes /\ WorkerTypes /\ WorkerCommand
  BY <1>1, WorkerControl, WorkerData, WorkerKeepsCommand
<1>3. /\ pc'[Usb] = pc[Usb] /\ pc'[Coord] = pc[Coord] /\ pc'[Main] = pc[Main]
      /\ ret'[Usb] = ret[Usb] /\ ret'[Coord] = ret[Coord] /\ ret'[Main] = ret[Main]
  BY <1>1, <1>2 DEF WorkerGoes, Alone, PointTypes
<1>4. active' \in Nat /\ ActiveIsJoined'
  BY <1>1, <1>2 DEF WorkerCommand, ActiveIsJoined, Joins, JoinLabels, ExecLabels,
                    Joined, Executing, GateTypes
<1>5. OwnPoints' /\ ReturnsHome'
  BY <1>1, <1>2, <1>3 DEF OwnPoints, ReturnsHome, WorkerGoes
<1>6. TypeOK'
  <2>1. pc'[Worker] \in AnyLabel
    BY <1>5 DEF OwnPoints, AnyLabel
  <2>2. ret'[Worker] \in AnyReturn
    BY <1>5 DEF ReturnsHome, AnyReturn
  <2>3. PointTypes'
    BY <1>1, <1>2, <2>1, <2>2 DEF PointTypes, WorkerGoes, Alone
  <2>4. GateTypes' /\ FlagTypes'
    BY <1>1, <1>2, <1>4 DEF GateTypes, FlagTypes, WorkerGoes, WorkerTypes
  <2>5. HostTypes' /\ SeenTypes' /\ WkTypes' /\ OwnTypes' /\ FifoTypes'
    BY <1>1, <1>2 DEF HostTypes, SeenTypes, WorkerGoes, WorkerTypes
  <2>6. (GateTypes /\ FlagTypes /\ HostTypes /\ OwnTypes /\ FifoTypes
         /\ WkTypes /\ SeenTypes /\ PointTypes /\ OwnPoints)'
    BY <1>5, <2>3, <2>4, <2>5
  <2>. QED  BY <2>6, TypeParts, PTL
<1>7. WorkerUnread'
  BY <1>1, <1>2, <1>3 DEF WorkerUnread, WorkerCommand, WorkerGoes, Unread
<1>8. AdmissionIsExact'
  <2>1. Exact(Worker)
    BY <1>1, <1>2 DEF WorkerGoes, Exact, Weight, AdmissionIsExact, GateTypes, RxWord
  <2>. QED
    BY <1>1, <1>2, <2>1, ExactAlone DEF WorkerGoes, GateTypes
<1>9. FreshCommand'
  BY <1>1, <1>2, <1>3 DEF FreshCommand, WorkerCommand, WorkerGoes, GateTypes
<1>10. ReleaseShuts' /\ ChunkLeft'
  BY <1>1, <1>2 DEF ReleaseShuts, ChunkLeft, WorkerCommand, Door
<1>. QED
  BY <1>4, <1>5, <1>6, <1>7, <1>8, <1>9, <1>10, Zenon DEF IInv

(* The worker after a drain, inside the gate's ClearDirty.                  *)
LEMMA DrainKeepsIInv ==
    ASSUME IInv, ClearDirty(Worker)
    PROVE  IInv'
<1>1. /\ GateTypes /\ FlagTypes /\ HostTypes /\ OwnTypes /\ FifoTypes /\ WkTypes
      /\ SeenTypes /\ PointTypes /\ OwnPoints
      /\ ReturnsHome /\ WorkerUnread /\ ActiveIsJoined /\ AdmissionIsExact
      /\ FreshCommand /\ ReleaseShuts /\ ChunkLeft
  BY TypeParts, Zenon DEF IInv
<1>2. /\ GateStep(Worker) /\ Keeps /\ phase' = phase
      /\ pc[Worker] \in Clearing /\ (Inner(Worker) \/ Done(Worker))
  BY Inside, ClearSteps DEF IInv
<1>3. /\ pc'[Usb] = pc[Usb] /\ pc'[Coord] = pc[Coord] /\ pc'[Main] = pc[Main]
      /\ ret'[Usb] = ret[Usb] /\ ret'[Coord] = ret[Coord] /\ ret'[Main] = ret[Main]
  BY <1>1, <1>2 DEF GateStep, Alone, PointTypes
<1>4. /\ pc[Worker] \in Clearing /\ pc'[Worker] \in Clearing \cup {"wkWait"}
      /\ ret'[Worker] \in {"idle", "wkWait"}
      /\ pc'[Worker] \in Clearing => ret'[Worker] = "wkWait"
  BY <1>1, <1>2 DEF ReturnsHome, Inner, Done, Clearing
<1>5. OwnPoints' /\ ReturnsHome'
  BY <1>1, <1>3, <1>4 DEF OwnPoints, ReturnsHome, WorkerLabels, Clearing
<1>6. TypeOK'
  <2>1. pc'[Worker] \in AnyLabel
    BY <1>5 DEF OwnPoints, AnyLabel
  <2>2. ret'[Worker] \in AnyReturn
    BY <1>5 DEF ReturnsHome, AnyReturn
  <2>3. PointTypes'
    BY <1>1, <1>2, <2>1, <2>2 DEF PointTypes, GateStep, Alone
  <2>4. GateTypes' /\ FlagTypes'
    BY <1>1, <1>2 DEF GateTypes, FlagTypes, GateStep, Keeps
  <2>5. HostTypes' /\ SeenTypes' /\ WkTypes' /\ OwnTypes' /\ FifoTypes'
    BY <1>1, <1>2 DEF HostTypes, GateStep, Keeps, WkTypes, OwnTypes, FifoTypes
  <2>6. (GateTypes /\ FlagTypes /\ HostTypes /\ OwnTypes /\ FifoTypes
         /\ WkTypes /\ SeenTypes /\ PointTypes /\ OwnPoints)'
    BY <1>5, <2>3, <2>4, <2>5
  <2>. QED  BY <2>6, TypeParts, PTL
<1>7. WorkerUnread' /\ ActiveIsJoined'
  BY <1>1, <1>2, <1>3, <1>4
     DEF WorkerUnread, ActiveIsJoined, Joined, Executing, Keeps, Clearing
<1>8. AdmissionIsExact'
  BY <1>1, <1>2, ExactAlone DEF GateStep, GateTypes
<1>9. FreshCommand' /\ ReleaseShuts' /\ ChunkLeft'
  BY <1>1, <1>2, <1>3, <1>4
     DEF FreshCommand, Rechecked, ExecLabels, ReleaseShuts, ChunkLeft, Keeps, Clearing
<1>. QED
  BY <1>5, <1>6, <1>7, <1>8, <1>9, Zenon DEF IInv

-----------------------------------------------------------------------------
LEMMA InitIInv == Init => IInv
<1>. SUFFICES ASSUME Init PROVE IInv
  OBVIOUS
<1>. USE DEF Init, StartState, Host
<1>1. GateTypes /\ FlagTypes
  BY DEF GateTypes, FlagTypes, RxWord, RxZero, Word
<1>2. HostTypes /\ OwnTypes
  BY DEF HostTypes, OwnTypes, Events
<1>3. FifoTypes /\ WkTypes /\ SeenTypes
  <2>1. <<>> \in Seq(Byte)
    OBVIOUS
  <2>. QED  BY <2>1 DEF FifoTypes, WkTypes, SeenTypes
<1>4. /\ pc[Usb] = "idle" /\ pc[Coord] = "idle" /\ pc[Main] = "msCreate"
      /\ pc[Worker] = "wkWait" /\ \A p \in Proc : ret[p] = "idle"
  OBVIOUS
<1>5. OwnPoints
  BY <1>4 DEF OwnPoints, UsbLabels, CoordLabels, MainLabels, WorkerLabels
<1>6. PointTypes
  <2>1. {"idle", "msCreate", "wkWait"} \subseteq AnyLabel
    BY DEF AnyLabel, UsbLabels, MainLabels, WorkerLabels
  <2>2. "idle" \in AnyReturn
    BY DEF AnyReturn
  <2>. QED  BY <2>1, <2>2 DEF PointTypes
<1>7. TypeOK
  BY <1>1, <1>2, <1>3, <1>5, <1>6, TypeParts
<1>8. AdmissionIsExact
  <2>1. InReg(pc) = {}
    BY <1>4 DEF InReg, RegLabels
  <2>2. Cardinality(InReg(pc)) = 0
    BY <2>1, FS_EmptySet
  <2>. QED  BY <2>2, RegisteredSet, RxWords DEF AdmissionIsExact
<1>9. ReturnsHome /\ WorkerUnread /\ ActiveIsJoined
  BY <1>4 DEF ReturnsHome, WorkerUnread, ActiveIsJoined, Joined, Executing, Marking,
              Clearing
<1>10. FreshCommand /\ ReleaseShuts /\ ChunkLeft
  BY <1>4 DEF FreshCommand, Rechecked, ExecLabels, ReleaseShuts, ChunkLeft
<1>. QED  BY <1>7, <1>8, <1>9, <1>10 DEF IInv

LEMMA StutterIInv == ASSUME IInv, UNCHANGED vars PROVE IInv'
<1>1. /\ TypeOK /\ ReturnsHome /\ WorkerUnread /\ ActiveIsJoined /\ AdmissionIsExact
      /\ FreshCommand /\ ReleaseShuts /\ ChunkLeft
  BY Zenon DEF IInv
<1>2. TypeOK'
  BY <1>1 DEF TypeOK
<1>3. AdmissionIsExact'
  BY <1>1 DEF AdmissionIsExact, Registered
<1>4. ReturnsHome' /\ WorkerUnread' /\ ActiveIsJoined'
  BY <1>1 DEF ReturnsHome, WorkerUnread, ActiveIsJoined, Joined, Executing
<1>5. FreshCommand' /\ ReleaseShuts' /\ ChunkLeft'
  BY <1>1 DEF FreshCommand, Rechecked, ReleaseShuts, ChunkLeft
<1>. QED  BY <1>2, <1>3, <1>4, <1>5, Zenon DEF IInv

(* The invariant holds in every interleaving.                               *)
THEOREM SessionInvariant == Spec => []IInv
<1>1. IInv /\ [Next]_vars => IInv'
  <2>. SUFFICES ASSUME IInv, [Next]_vars PROVE IInv'
    OBVIOUS
  <2>1. CASE UNCHANGED vars
    BY <2>1, StutterIInv
  <2>2. CASE UsbTask \/ NoteRx(Usb) \/ Boundary(Usb) \/ ClearDirty(Usb)
    BY <2>2, UsbKeepsIInv
  <2>3. CASE CoordTask \/ Opener(Coord)
    BY <2>3, CoordKeepsIInv
  <2>4. CASE MainTask \/ Opener(Main)
    BY <2>4, MainKeepsIInv
  <2>5. CASE WorkerTask
    BY <2>5, WorkerKeepsIInv
  <2>6. CASE ClearDirty(Worker)
    BY <2>6, DrainKeepsIInv
  <2>. QED  BY <2>1, <2>2, <2>3, <2>4, <2>5, <2>6, Zenon DEF Next
<1>. QED  BY <1>1, InitIInv, PTL DEF Spec

(* Every context stays at its own program points with a return address of   *)
(* its own, and every variable keeps its type.                              *)
THEOREM ContextsStayHome == Spec => []TypeOK
<1>1. IInv => TypeOK
  BY Zenon DEF IInv
<1>. QED  BY <1>1, SessionInvariant, PTL

(* usb_cdc_session_gate.c: a visible session is the exact word OPEN, and    *)
(* the callback count is the number of contexts inside a registration, so   *)
(* it neither saturates nor underflows.                                     *)
THEOREM AdmissionStaysExact == Spec => []AdmissionIsExact
<1>1. IInv => AdmissionIsExact
  BY Zenon DEF IInv
<1>. QED  BY <1>1, SessionInvariant, PTL

(* usb_cdc_session_gate_reset: once a reset has waited out the active       *)
(* commands, nothing of a generation before it executes any more, whoever   *)
(* reopens the gate meanwhile.                                              *)
THEOREM ResetStopsCommands == Spec => []ResetIsBarrier
<1>1. IInv => ResetIsBarrier
  BY DEF IInv, FreshCommand, Rechecked, ExecLabels, ResetIsBarrier, Executing
<1>. QED  BY <1>1, SessionInvariant, PTL

(* usb_cdc_protocol.c: no command executes after an accepted release.       *)
THEOREM ReleaseIsLast == Spec => []NothingAfterRelease
<1>1. IInv => NothingAfterRelease
  BY DEF IInv, ReleaseShuts, NothingAfterRelease
<1>. QED  BY <1>1, SessionInvariant, PTL

=============================================================================
