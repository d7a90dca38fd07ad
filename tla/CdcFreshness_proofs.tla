------------------------ MODULE CdcFreshness_proofs ------------------------
(***************************************************************************)
(* Proof that a command of CdcSession is made of bytes of its own session  *)
(* and connection only, unless two contexts opened at once: where bytes of *)
(* an earlier session can be, and what keeps the worker from them there.   *)
(***************************************************************************)
EXTENDS CdcSession_proofs

-----------------------------------------------------------------------------
(* The contexts that open and cut sessions.                                 *)

(* A reset before and after it has begun the next generation, and a close   *)
(* that has not marked its boundary.                                        *)
Ending == \/ pc[Coord] \in {"caCas", "rsGen"}
          \/ pc[Coord] \in Clearing /\ ret[Coord] = "rsGen"
Cutting == pc[Coord] \in {"rsWait", "rsClosed", "nrReg"}
Closing == pc[Usb] \in {"csGen", "mbReg"}
Released == pc[Coord] = "released"

(* Where the primitives of the gate return to.                              *)
Returns ==
    /\ pc[Coord] = "caCas" => ret[Coord] = "rsGen"
    /\ pc[Coord] \in Noting => ret[Coord] = "rsNotify"
    /\ pc[Coord] \in {"coCas"} \cup Marking => ret[Coord] = "osNotify"
    /\ pc[Coord] \in Clearing => ret[Coord] \in {"rsGen", "osNotify"}
    /\ pc[Usb] \in Marking \cup Clearing => ret[Usb] = "idle"
    /\ pc[Usb] \in Noting => ret[Usb] = "rxNotify"

(* Nobody but the reset leaves RESETTING, and an opener that reserved       *)
(* during a reset takes its reservation back.                               *)
ResetShuts ==
    /\ phase = "RESETTING" <=> (Ending \/ pc[Coord] \in {"rsWait", "rsClosed"})
    /\ (Ending /\ pc[Coord] # "caCas") \/ pc[Coord] \in {"rsWait", "rsClosed"}
          => ~rx.open /\ (rx.opening => pc[Main] \in {"opEnter", "coCas"})
    /\ pc[Coord] = "nrReg" /\ ~crossed => ~rx.open

(* A reservation in a closed phase is of an opener that has not entered, so *)
(* that publishing it there is a crossing.                                  *)
Reserved ==
    rx.opening /\ phase = "CLOSED" /\ ~Closing =>
       \/ pc[Coord] = "opEnter" \/ pc[Main] = "opEnter"
       \/ /\ pc[Main] = "coCas"
          /\ pc[Coord] \in {"nrReg", "nrEpoch", "nrDirty"} \/ rx.dirty
OpenInPhase == ~crossed /\ phase = "CLOSED" /\ rx.open => Closing

(* Nothing is opened before the medium is the host's, which takes a reset.  *)
Provisional ==
    /\ ~own.hostOwned =>
          /\ phase # "OPEN" /\ ~rx.open /\ ~rx.opening /\ ~openRequested
          /\ pc[Main] \notin OpenOnly \cup {"coCas"} \cup Marking \cup Clearing
          /\ pc[Coord] \notin OpenOnly \cup {"coCas", "released"} \cup Marking
          /\ pc[Coord] \in Clearing => ret[Coord] = "rsGen"
          /\ own.job \notin {"reattach", "release"}
          /\ pc[Usb] \notin {"csPhase", "csGen"} \cup Marking \cup Clearing
    /\ own.hostOwned => own.job \notin {"attach", "publish"}
    /\ own.hostOwned \/ own.job \in {"attach", "publish"}
          => "ATTACH" \notin own.events
HasJob ==
    pc[Coord] \in {"rsFlags", "rsPhase", "rsNotify"} \cup Noting \/ Ending \/ Cutting
        => own.job \in {"attach", "reattach", "release"}
FirstReset ==
    /\ generation >= 1
    /\ own.hostOwned \/ own.job = "publish" => generation >= 2
    /\ pc[Coord] \in {"rsWait", "rsClosed", "rsNotify"} \cup Noting
          => generation >= 2

(* A callback runs on an attached host, and a close finds and leaves the    *)
(* host disconnected.                                                       *)
Attached ==
    /\ pc[Usb] \in {"rxFlag", "rxNotify"} \cup Noting /\ own.hostOwned
          => host.attached \/ Released
    /\ pc[Usb] \in {"csPhase", "csGen", "mbReg"} => ~connected

Openers == /\ Returns /\ ResetShuts /\ Reserved /\ OpenInPhase
           /\ Provisional /\ HasJob /\ FirstReset /\ Attached

-----------------------------------------------------------------------------
USE DEF Usb, Coord, Main, Worker, Proc, At, Go, Call, Return, OnlyRx, NextEpoch,
        OnlyPhase, NextGeneration, OnlyActive, NoData, Quiet, vars, gate, past,
        flags, env

LEMMA Fields ==
    ASSUME IInv
    PROVE  /\ rx \in RxWord /\ (rx.open => rx = RxOpen)
           /\ rx.open \in BOOLEAN /\ rx.opening \in BOOLEAN /\ rx.dirty \in BOOLEAN
           /\ rx.count \in Nat /\ generation \in Nat /\ crossed \in BOOLEAN
           /\ connected \in BOOLEAN /\ openRequested \in BOOLEAN
           /\ pc \in [Proc -> AnyLabel] /\ ret \in [Proc -> AnyReturn]
           /\ own.hostOwned \in BOOLEAN /\ own.error \in BOOLEAN
           /\ host.attached \in BOOLEAN /\ host.conn \in Nat
           /\ own.events \subseteq Events
           /\ OwnPoints /\ ReturnsHome
<1>1. /\ GateTypes /\ FlagTypes /\ HostTypes /\ OwnTypes /\ PointTypes /\ OwnPoints
      /\ ReturnsHome /\ AdmissionIsExact
  BY TypeParts, Zenon DEF IInv
<1> QED
  BY <1>1 DEF GateTypes, FlagTypes, HostTypes, OwnTypes, PointTypes,
              AdmissionIsExact, RxWord

(* A step of one context, as the others see it.                             *)
Still(q) == pc'[q] = pc[q] /\ ret'[q] = ret[q]
LEMMA Others ==
    ASSUME IInv, NEW p \in Proc, Alone(p)
    PROVE  \A q \in Proc : q # p => Still(q)
  BY Fields DEF Alone, Still

-----------------------------------------------------------------------------
(* What the primitives of the gate do, in any context: to that context, to  *)
(* the flags of the admission word and to the discard epoch.                *)
SameWord == /\ rx'.open = rx.open /\ rx'.opening = rx.opening
            /\ rx'.dirty = rx.dirty
Moves(p, l, m) == pc[p] = l /\ pc'[p] = m /\ ret'[p] = ret[p]
Leaves(p, l) == pc[p] = l /\ pc'[p] = ret[p] /\ ret'[p] = "idle"

NoteEffect(p) ==
    \/ Leaves(p, "nrReg") /\ rx.open /\ SameWord /\ discard' = discard
    \/ Moves(p, "nrReg", "nrEpoch") /\ ~rx.open /\ SameWord /\ discard' = discard
    \/ Moves(p, "nrEpoch", "nrDirty") /\ SameWord /\ discard' = discard + 1
    \/ /\ Moves(p, "nrDirty", "nrDone") /\ discard' = discard
       /\ rx'.open = rx.open /\ rx'.opening = rx.opening /\ rx'.dirty
    \/ Leaves(p, "nrDone") /\ SameWord /\ discard' = discard
BoundaryEffect(p) ==
    \/ /\ Moves(p, "mbReg", "mbEpoch") /\ discard' = discard
       /\ ~rx'.open /\ ~rx'.opening
    \/ Moves(p, "mbEpoch", "mbDone") /\ SameWord /\ discard' = discard + 1
    \/ Moves(p, "mbDone", "tcLoad") /\ SameWord /\ discard' = discard
ClearEffect(p) ==
    /\ pc[p] \in Clearing
    /\ (pc'[p] \in Clearing /\ ret'[p] = ret[p]) \/ (pc'[p] = ret[p] /\ ret'[p] = "idle")
    /\ SameWord \/ (~rx.opening /\ ~rx'.opening /\ ~rx'.open)
    /\ discard' = discard
CancelEffect(p) ==
    /\ discard' = discard
    /\ \/ Leaves(p, "coCas") /\ ~rx.opening /\ SameWord
       \/ /\ Moves(p, "coCas", "tcLoad") /\ ~rx'.opening
          /\ rx'.open = rx.open /\ rx'.dirty = rx.dirty

LEMMA NoteDoes ==
    ASSUME IInv, NEW p \in Proc, NoteRx(p)
    PROVE  NoteEffect(p) /\ Keeps /\ phase' = phase /\ Alone(p)
<1>1. Keeps /\ phase' = phase /\ Alone(p) /\ GateStep(p)
  BY Inside, NoteSteps DEF IInv, GateStep
<1>2. pc \in [Proc -> AnyLabel] /\ ret \in [Proc -> AnyReturn]
  BY Fields
<1>3. rx \in RxWord /\ (rx.open <=> rx = RxOpen)
  BY Fields, RxWords
<1>4. NoteEffect(p)
  <2>1. CASE NoteRegister(p)
    BY <1>2, <1>3, <2>1 DEF NoteRegister, NoteEffect, Moves, Leaves, SameWord, RxWord
  <2>2. CASE NoteEpoch(p)
    BY <1>2, <2>2 DEF NoteEpoch, NoteEffect, Moves, SameWord
  <2>3. CASE NoteDirty(p)
    BY <1>2, <1>3, <2>3 DEF NoteDirty, NoteEffect, Moves, RxWord
  <2>4. CASE NoteDone(p)
    BY <1>2, <1>3, <2>4 DEF NoteDone, NoteEffect, Leaves, SameWord, RxWord
  <2> QED BY <2>1, <2>2, <2>3, <2>4 DEF NoteRx
<1> QED BY <1>1, <1>4

LEMMA BoundaryDoes ==
    ASSUME IInv, NEW p \in Proc, Boundary(p)
    PROVE  BoundaryEffect(p) /\ Keeps /\ phase' = phase /\ Alone(p)
<1>1. Keeps /\ phase' = phase /\ Alone(p) /\ GateStep(p)
  BY Inside, BoundarySteps DEF IInv, GateStep
<1>2. pc \in [Proc -> AnyLabel] /\ ret \in [Proc -> AnyReturn] /\ rx \in RxWord
  BY Fields
<1>3. BoundaryEffect(p)
  <2>1. CASE BoundaryRegister(p)
    BY <1>2, <2>1 DEF BoundaryRegister, BoundaryEffect, Moves
  <2>2. CASE BoundaryEpoch(p)
    BY <1>2, <2>2 DEF BoundaryEpoch, BoundaryEffect, Moves, SameWord
  <2>3. CASE BoundaryDone(p)
    BY <1>2, <2>3 DEF BoundaryDone, BoundaryEffect, Moves, SameWord, RxWord
  <2> QED BY <2>1, <2>2, <2>3 DEF Boundary
<1> QED BY <1>1, <1>3

LEMMA ClearDoes ==
    ASSUME IInv, NEW p \in Proc, ClearDirty(p)
    PROVE  ClearEffect(p) /\ Keeps /\ phase' = phase /\ Alone(p)
<1>1. /\ Keeps /\ phase' = phase /\ Alone(p) /\ GateStep(p)
      /\ pc[p] \in Clearing /\ (Inner(p) \/ Done(p))
  BY Inside, ClearSteps DEF IInv, GateStep
<1>2. rx' = rx \/ (rx = RxDirty /\ rx' = RxZero)
  BY DEF ClearDirty, ClearLoad, ClearEpoch, ClearPending, ClearCas
<1>3. SameWord \/ (~rx.opening /\ ~rx'.opening /\ ~rx'.open)
  BY <1>2, RxWords DEF SameWord
<1>4. discard' = discard
  BY DEF ClearDirty, ClearLoad, ClearEpoch, ClearPending, ClearCas
<1> QED BY <1>1, <1>3, <1>4 DEF ClearEffect, Inner, Done

LEMMA CancelDoes ==
    ASSUME IInv, NEW p \in Proc, CancelOpening(p)
    PROVE  CancelEffect(p) /\ Keeps /\ phase' = phase /\ Alone(p)
<1>1. Keeps /\ phase' = phase /\ Alone(p) /\ GateStep(p)
  BY Inside, CancelSteps DEF IInv, GateStep
<1>2. pc \in [Proc -> AnyLabel] /\ ret \in [Proc -> AnyReturn] /\ rx \in RxWord
  BY Fields
<1>3. CancelEffect(p)
  BY <1>2 DEF CancelOpening, CancelEffect, Moves, Leaves, SameWord, RxWord
<1> QED BY <1>1, <1>3

(* What opening does, in either context.                                    *)
GateSame == SameWord /\ UNCHANGED <<phase, crossed>>
OpenEffect(p) ==
    /\ discard' = discard /\ (openRequested => openRequested')
    /\ \/ /\ pc[p] \in OpenOnly \ {"opEnter"}
          /\ pc'[p] \in (OpenOnly \ {"opEnter"}) \cup {After(p)}
          /\ ret'[p] = ret[p] /\ GateSame
       \/ /\ Moves(p, "opReserve", "opEnter") /\ UNCHANGED <<phase, crossed>>
          /\ ~rx.open /\ ~rx.opening /\ ~rx'.open /\ rx'.opening
       \/ /\ Moves(p, "opEnter", "opRecheck") /\ SameWord /\ crossed' = crossed
          /\ phase # "RESETTING" /\ phase' = "OPEN"
       \/ /\ pc[p] \in {"opEnter", "opRecheck", "opPublish"} /\ GateSame
          /\ pc'[p] = "coCas" /\ ret'[p] = "osNotify"
          /\ pc[p] = "opEnter" => phase = "RESETTING"
       \/ /\ Moves(p, "opPublish", "opRevoke") /\ phase' = phase
          /\ crossed \/ Crosses(p) => crossed'
          /\ rx.opening /\ ~rx.open /\ ~rx.dirty /\ rx'.open /\ ~rx'.opening
       \/ /\ pc[p] = "opRevoke" /\ pc'[p] = "mbReg" /\ ret'[p] = "osNotify"
          /\ GateSame

LEMMA OpenDoes ==
    ASSUME IInv, NEW p \in {Coord, Main}, Open(p)
    PROVE  OpenEffect(p) /\ OpenKeeps /\ Alone(p)
<1>1. OpenKeeps /\ Alone(p)
  <2>1. FlagTypes /\ InGate(p)
    BY Inside, TypeParts, Zenon DEF IInv
  <2> QED BY <2>1, OpenSteps DEF GateStep
<1>2. pc \in [Proc -> AnyLabel] /\ ret \in [Proc -> AnyReturn]
  BY Fields
<1> USE DEF OpenEffect, GateSame, SameWord, Moves, OpenOnly, After
<1>3. CASE OpenRequest(p)  BY <1>1, <1>2, <1>3 DEF OpenRequest
<1>4. CASE OpenLoop(p)     BY <1>1, <1>2, <1>4 DEF OpenLoop
<1>5. CASE OpenRetry(p)    BY <1>1, <1>2, <1>5 DEF OpenRetry
<1>6. CASE OpenPhase(p)    BY <1>1, <1>2, <1>6 DEF OpenPhase
<1>7. CASE OpenAlready(p)  BY <1>1, <1>2, <1>7 DEF OpenAlready
<1>8. CASE OpenEpoch(p)    BY <1>1, <1>2, <1>8 DEF OpenEpoch
<1>9. CASE OpenPending(p)  BY <1>1, <1>2, <1>9 DEF OpenPending
<1>10. CASE OpenReserve(p)
  BY <1>1, <1>2, <1>10, RxWords DEF OpenReserve
<1>11. CASE OpenEnter(p)   BY <1>1, <1>2, <1>11 DEF OpenEnter
<1>12. CASE OpenRecheck(p) BY <1>1, <1>2, <1>12 DEF OpenRecheck
<1>13. CASE OpenPublish(p)
  <2>1. ~RxOpening.dirty
    BY DEF RxOpening, Word
  <2>2. Crosses(p) \in BOOLEAN
    BY DEF Crosses
  <2>3. crossed \/ Crosses(p) => crossed' \/ rx' = rx
    BY <1>13, <2>2 DEF OpenPublish
  <2> QED BY <1>1, <1>2, <1>13, <2>1, <2>3, RxWords DEF OpenPublish
<1>14. CASE OpenRevoke(p)  BY <1>1, <1>2, <1>14 DEF OpenRevoke
<1> QED
  BY <1>3, <1>4, <1>5, <1>6, <1>7, <1>8, <1>9, <1>10, <1>11, <1>12, <1>13, <1>14
     DEF Open

-----------------------------------------------------------------------------
(* Opening keeps the invariant of the openers.                              *)
LEMMA OpenKeepsOpeners ==
    ASSUME IInv, Openers, NEW p \in {Coord, Main}, Open(p)
    PROVE  Openers'
<1>1. OpenEffect(p) /\ OpenKeeps /\ \A q \in Proc : q # p => Still(q)
  BY OpenDoes, Others
<1>2. /\ Still(Usb) /\ (p = Main => Still(Coord)) /\ (p = Coord => Still(Main))
      /\ UNCHANGED <<generation, connected, own, host>>
  BY <1>1 DEF OpenKeeps
<1>3. own.hostOwned
  BY <1>1 DEF OpenEffect, Moves, Openers, Provisional, OpenOnly
<1>4. Returns'
  BY <1>1, <1>2 DEF OpenEffect, Moves, Openers, Returns, Still, OpenOnly, After, Noting,
                    Marking, Clearing
<1>5. ResetShuts'
  <2>1. CASE p = Coord
    BY <1>1, <1>2, <2>1 DEF OpenEffect, Moves, Openers, ResetShuts, Still, OpenOnly, After,
                   GateSame, SameWord, Ending, Clearing
  <2>2. CASE p = Main
    BY <1>1, <1>2, <2>2 DEF OpenEffect, Moves, Openers, ResetShuts, Still, OpenOnly, After,
                   GateSame, SameWord, Ending, Clearing, Crosses
  <2> QED BY <2>1, <2>2
<1>6. Reserved'
  <2>1. CASE p = Coord
    BY <1>1, <1>2, <2>1 DEF OpenEffect, Moves, Openers, Reserved, Still, OpenOnly, After,
                   GateSame, SameWord, Closing
  <2>2. CASE p = Main
    BY <1>1, <1>2, <2>2 DEF OpenEffect, Moves, Openers, Reserved, Still, OpenOnly, After,
                   GateSame, SameWord, Closing
  <2> QED BY <2>1, <2>2
<1>7. OpenInPhase'
  <2>1. CASE /\ Moves(p, "opPublish", "opRevoke") /\ phase' = phase
             /\ crossed \/ Crosses(p) => crossed'
             /\ rx.opening /\ ~rx.open /\ ~rx.dirty /\ rx'.open /\ ~rx'.opening
    <3>1. phase = "CLOSED" /\ ~Closing => Crosses(p)
      <4>1. CASE p = Coord
        BY <2>1, <4>1 DEF Openers, Reserved, Moves, Crosses
      <4>2. CASE p = Main
        BY <2>1, <4>2 DEF Openers, Reserved, Moves, Crosses
      <4> QED BY <4>1, <4>2
    <3> QED BY <1>2, <2>1, <3>1 DEF OpenInPhase, Closing, Still
  <2>2. CASE \/ rx'.open = rx.open /\ UNCHANGED <<phase, crossed>>
             \/ ~rx'.open \/ phase' = "OPEN"
    BY <1>2, <2>2 DEF Openers, OpenInPhase, Closing, Still
  <2> QED BY <1>1, <2>1, <2>2 DEF OpenEffect, GateSame, SameWord
<1>8. Provisional'
  BY <1>2, <1>3 DEF Openers, Provisional
<1>9. FirstReset'
  BY <1>1, <1>2 DEF OpenEffect, Moves, Openers, FirstReset, Still, OpenOnly, After, Noting
<1>10. Attached'
  BY <1>1, <1>2 DEF OpenEffect, Moves, Openers, Attached, Still, OpenOnly, After, Released
<1>11. HasJob'
  BY <1>1, <1>2 DEF OpenEffect, Moves, Openers, HasJob, Still, OpenOnly, After,
                    Noting, Ending, Cutting, Clearing
<1> QED BY <1>4, <1>5, <1>6, <1>7, <1>8, <1>9, <1>10, <1>11 DEF Openers

(* The primitives of the gate keep it, in every context that calls them.    *)
LEMMA NoteKeepsOpeners ==
    ASSUME IInv, Openers, NEW p \in {Usb, Coord}, NoteRx(p)
    PROVE  Openers'
<1>1. NoteEffect(p) /\ Keeps /\ phase' = phase /\ \A q \in Proc : q # p => Still(q)
  BY NoteDoes, Others
<1>2. /\ Still(Main) /\ (p = Usb => Still(Coord)) /\ (p = Coord => Still(Usb))
      /\ UNCHANGED <<generation, connected, own, host, crossed, openRequested>>
  BY <1>1 DEF Keeps
<1>3. rx.open => ~rx.opening
  BY Fields, RxWords
<1> USE DEF NoteEffect, Moves, Leaves, SameWord, Still, Openers
<1>4. Returns'
  BY <1>1, <1>2 DEF Returns, Noting, Marking, Clearing
<1>5. ResetShuts'
  BY <1>1, <1>2 DEF ResetShuts, Ending, Clearing, Returns, Noting
<1>6. Reserved'
  BY <1>1, <1>2, <1>3 DEF Reserved, Closing, Returns, Noting
<1>7. OpenInPhase'
  BY <1>1, <1>2 DEF OpenInPhase, Closing, Returns, Noting
<1>8. Provisional'
  BY <1>1, <1>2 DEF Provisional, OpenOnly, Marking, Clearing, Returns, Noting
<1>9. FirstReset'
  BY <1>1, <1>2 DEF FirstReset, Noting, Returns
<1>10. Attached'
  BY <1>1, <1>2 DEF Attached, Released, Noting, Returns
<1>11. HasJob'
  BY <1>1, <1>2 DEF HasJob, Ending, Cutting, Noting, Marking, Clearing, Returns
<1> QED BY <1>4, <1>5, <1>6, <1>7, <1>8, <1>9, <1>10, <1>11

LEMMA BoundaryKeepsOpeners ==
    ASSUME IInv, Openers, NEW p \in {Usb, Coord, Main}, Boundary(p)
    PROVE  Openers'
<1>1. /\ BoundaryEffect(p) /\ Keeps /\ phase' = phase
      /\ \A q \in Proc : q # p => Still(q)
  BY BoundaryDoes, Others
<1>2. /\ p # Main => Still(Main)
      /\ p # Coord => Still(Coord)
      /\ p # Usb => Still(Usb)
      /\ UNCHANGED <<generation, connected, own, host, crossed, openRequested>>
  BY <1>1 DEF Keeps
<1> USE DEF BoundaryEffect, Moves, SameWord, Still, Openers
<1>3. own.hostOwned
  BY <1>1 DEF Provisional, Marking
<1>4. Returns'
  BY <1>1, <1>2 DEF Returns, Noting, Marking, Clearing
<1>5. ResetShuts'
  BY <1>1, <1>2 DEF ResetShuts, Ending, Clearing, Returns, Marking
<1>6. Reserved'
  BY <1>1, <1>2 DEF Reserved, Closing
<1>7. OpenInPhase'
  BY <1>1, <1>2 DEF OpenInPhase, Closing
<1>8. Provisional'
  BY <1>2, <1>3 DEF Provisional
<1>9. FirstReset'
  BY <1>1, <1>2 DEF FirstReset, Noting
<1>10. Attached'
  BY <1>1, <1>2 DEF Attached, Released, Noting
<1>11. HasJob'
  BY <1>1, <1>2 DEF HasJob, Ending, Cutting, Noting, Marking, Clearing, Returns
<1> QED BY <1>4, <1>5, <1>6, <1>7, <1>8, <1>9, <1>10, <1>11

LEMMA ClearKeepsOpeners ==
    ASSUME IInv, Openers, NEW p \in Proc, ClearDirty(p)
    PROVE  Openers'
<1>1. ClearEffect(p) /\ Keeps /\ phase' = phase /\ \A q \in Proc : q # p => Still(q)
  BY ClearDoes, Others
<1>2. /\ p # Main => Still(Main)
      /\ p # Coord => Still(Coord)
      /\ p # Usb => Still(Usb)
      /\ UNCHANGED <<generation, connected, own, host, crossed, openRequested>>
  BY <1>1 DEF Keeps
<1>3. ret[Main] \in {"idle", "osNotify"} /\ (pc[Main] \in Clearing => ret[Main] = "osNotify")
  BY Fields DEF ReturnsHome
<1> USE DEF ClearEffect, SameWord, Still, Openers, Clearing
<1>4. Returns'
  BY <1>1, <1>2 DEF Returns, Noting, Marking
<1>5. ResetShuts'
  BY <1>1, <1>2, <1>3 DEF ResetShuts, Ending, Returns
<1>6. Reserved'
  BY <1>1, <1>2 DEF Reserved, Closing, Returns
<1>7. OpenInPhase'
  BY <1>1, <1>2 DEF OpenInPhase, Closing, Returns
<1>8. Provisional'
  BY <1>1, <1>2 DEF Provisional, OpenOnly, Marking, Returns
<1>9. FirstReset'
  BY <1>1, <1>2 DEF FirstReset, Noting, Returns
<1>10. Attached'
  BY <1>1, <1>2 DEF Attached, Released, Noting, Returns
<1>11. HasJob'
  BY <1>1, <1>2 DEF HasJob, Ending, Cutting, Noting, Marking, Clearing, Returns
<1> QED BY <1>4, <1>5, <1>6, <1>7, <1>8, <1>9, <1>10, <1>11

LEMMA CancelKeepsOpeners ==
    ASSUME IInv, Openers, NEW p \in {Coord, Main}, CancelOpening(p)
    PROVE  Openers'
<1>1. CancelEffect(p) /\ Keeps /\ phase' = phase /\ \A q \in Proc : q # p => Still(q)
  BY CancelDoes, Others
<1>2. /\ p # Main => Still(Main)
      /\ p # Coord => Still(Coord)
      /\ Still(Usb)
      /\ UNCHANGED <<generation, connected, own, host, crossed, openRequested>>
  BY <1>1 DEF Keeps
<1>3. ReturnsHome
  BY Fields
<1> USE DEF CancelEffect, Moves, Leaves, SameWord, Still, Openers
<1>4. own.hostOwned
  BY <1>1 DEF Provisional
<1>5. Returns'
  BY <1>1, <1>2 DEF Returns, Noting, Marking, Clearing
<1>6. ResetShuts'
  BY <1>1, <1>2 DEF ResetShuts, Ending, Clearing, Returns
<1>7. Reserved'
  BY <1>1, <1>2 DEF Reserved, Closing
<1>8. OpenInPhase'
  BY <1>1, <1>2 DEF OpenInPhase, Closing
<1>9. Provisional'
  BY <1>2, <1>4 DEF Provisional
<1>10. FirstReset'
  BY <1>1, <1>2, <1>3 DEF FirstReset, Noting, Returns
<1>11. Attached'
  BY <1>1, <1>2, <1>3 DEF Attached, Released, Noting, Returns
<1>12. HasJob'
  BY <1>1, <1>2, <1>3 DEF HasJob, Ending, Cutting, Noting, Marking, Clearing, Returns
<1> QED BY <1>5, <1>6, <1>7, <1>8, <1>9, <1>10, <1>11, <1>12

(* The reset's own closing of the admission.                                *)
CloseEffect ==
    /\ pc[Coord] = "caCas" /\ discard' = discard /\ ~rx'.open /\ ~rx'.opening
    /\ \/ pc'[Coord] = "tcLoad" /\ ret'[Coord] = ret[Coord]
       \/ pc'[Coord] = ret[Coord] /\ ret'[Coord] = "idle"
LEMMA CloseDoes ==
    ASSUME IInv, CloseRxAdmission(Coord)
    PROVE  CloseEffect /\ Keeps /\ phase' = phase /\ Alone(Coord)
<1>1. Keeps /\ phase' = phase /\ Alone(Coord) /\ GateStep(Coord)
  BY Inside, CancelSteps DEF IInv, GateStep
<1>2. pc \in [Proc -> AnyLabel] /\ ret \in [Proc -> AnyReturn] /\ rx \in RxWord
  BY Fields
<1>3. CloseEffect
  BY <1>2 DEF CloseRxAdmission, CloseEffect, RxWord
<1> QED BY <1>1, <1>3

LEMMA CloseKeepsOpeners ==
    ASSUME IInv, Openers, CloseRxAdmission(Coord)
    PROVE  Openers'
<1>1. CloseEffect /\ Keeps /\ phase' = phase /\ \A q \in Proc : q # Coord => Still(q)
  BY CloseDoes, Others
<1>2. /\ Still(Main) /\ Still(Usb)
      /\ UNCHANGED <<generation, connected, own, host, crossed, openRequested>>
  BY <1>1 DEF Keeps
<1> USE DEF CloseEffect, Still, Openers, Returns
<1>3. Returns'
  BY <1>1, <1>2 DEF Noting, Marking, Clearing
<1>4. ResetShuts'
  BY <1>1, <1>2 DEF ResetShuts, Ending, Clearing
<1>5. Reserved' /\ OpenInPhase'
  BY <1>1, <1>2 DEF Reserved, OpenInPhase
<1>6. Provisional'
  BY <1>1, <1>2 DEF Provisional, OpenOnly, Marking, Clearing
<1>7. FirstReset'
  BY <1>1, <1>2 DEF FirstReset, Noting
<1>8. Attached'
  BY <1>1, <1>2 DEF Attached, Released
<1>9. HasJob'
  BY <1>1, <1>2 DEF HasJob, Ending, Cutting, Noting, Marking, Clearing, Returns
<1> QED BY <1>3, <1>4, <1>5, <1>6, <1>7, <1>8, <1>9

(* The coordinator's own steps.                                             *)
LEMMA ResetKeepsOpeners ==
    ASSUME IInv, Openers, Reset
    PROVE  Openers'
<1>1. Alone(Coord)
  <2>1. TypeOK /\ ReturnsHome /\ InGate(Coord)
    BY Inside DEF IInv
  <2> QED BY <2>1, ResetSteps DEF OtherStep, GateStep
<1>2. \A q \in Proc : q # Coord => Still(q)
  BY <1>1, Others
<1>3. Still(Main) /\ Still(Usb)
  BY <1>2
<1>4. pc \in [Proc -> AnyLabel] /\ ret \in [Proc -> AnyReturn] /\ generation \in Nat
  BY Fields
<1> USE DEF Openers, Still
<1>5. CASE ResetFlags
  <2>1. /\ pc[Coord] = "rsFlags" /\ pc'[Coord] = "rsPhase" /\ ret'[Coord] = ret[Coord]
        /\ ~openRequested' /\ ~connected' /\ UNCHANGED <<gate, env>>
    BY <1>4, <1>5 DEF ResetFlags
  <2> QED
    BY <1>3, <2>1, SMTT(30) DEF Returns, ResetShuts, Reserved, OpenInPhase, Provisional,
       HasJob, Cutting, FirstReset, Attached, Ending, Closing, Released, Noting, Marking, Clearing, OpenOnly
<1>6. CASE ResetPhase
  <2>1. /\ pc[Coord] = "rsPhase" /\ pc'[Coord] = "caCas" /\ ret'[Coord] = "rsGen"
        /\ phase' = "RESETTING"
        /\ UNCHANGED <<rx, generation, crossed, connected, openRequested, env>>
    BY <1>4, <1>6 DEF ResetPhase
  <2> QED
    BY <1>3, <2>1, SMTT(30) DEF Returns, ResetShuts, Reserved, OpenInPhase, Provisional,
       HasJob, Cutting, FirstReset, Attached, Ending, Closing, Released, Noting, Marking, Clearing, OpenOnly
<1>7. CASE ResetGeneration
  <2>1. /\ pc[Coord] = "rsGen" /\ pc'[Coord] = "rsWait" /\ ret'[Coord] = ret[Coord]
        /\ generation' = generation + 1
        /\ UNCHANGED <<rx, phase, crossed, connected, openRequested, env>>
    BY <1>4, <1>7 DEF ResetGeneration
  <2> QED
    BY <1>3, <1>4, <2>1, SMTT(30) DEF Returns, ResetShuts, Reserved, OpenInPhase, Provisional,
       HasJob, Cutting, FirstReset, Attached, Ending, Closing, Released, Noting, Marking, Clearing, OpenOnly
<1>8. CASE ResetWait
  <2>1. /\ pc[Coord] = "rsWait" /\ pc'[Coord] = "rsClosed" /\ ret'[Coord] = ret[Coord]
        /\ UNCHANGED <<gate, connected, openRequested, env>>
    BY <1>4, <1>8 DEF ResetWait
  <2> QED
    BY <1>3, <2>1, SMTT(30) DEF Returns, ResetShuts, Reserved, OpenInPhase, Provisional,
       HasJob, Cutting, FirstReset, Attached, Ending, Closing, Released, Noting, Marking, Clearing, OpenOnly
<1>9. CASE ResetClosed
  <2>1. /\ pc[Coord] = "rsClosed" /\ pc'[Coord] = "nrReg" /\ ret'[Coord] = "rsNotify"
        /\ phase' = "CLOSED"
        /\ UNCHANGED <<rx, generation, crossed, connected, openRequested, env>>
    BY <1>4, <1>9 DEF ResetClosed
  <2> QED
    BY <1>3, <2>1, SMTT(30) DEF Returns, ResetShuts, Reserved, OpenInPhase, Provisional,
       HasJob, Cutting, FirstReset, Attached, Ending, Closing, Released, Noting, Marking, Clearing, OpenOnly
<1>10. CASE ResetNotify
  <2>1. /\ pc[Coord] = "rsNotify" /\ ret'[Coord] = ret[Coord]
        /\ pc'[Coord] = IF own.job = "attach" THEN "idle"
                        ELSE IF own.job = "reattach" THEN "osRequest" ELSE "released"
        /\ UNCHANGED <<gate, connected, openRequested>>
    BY <1>4, <1>10 DEF ResetNotify
  <2>2. /\ own'.hostOwned = own.hostOwned /\ own'.events = own.events
        /\ own'.job = IF own.job = "attach" /\ ~own.error THEN "publish" ELSE "none"
        /\ host.attached /\ ~host'.attached
             => own.job = "release" \/ own.job = "attach"
        /\ generation >= 2
    <3>1. OwnTypes /\ HostTypes
      BY TypeParts, Zenon DEF IInv
    <3>2. host'.attached <=> host.attached /\ ~Publishes /\ own.job # "release"
      BY <1>10, <3>1 DEF ResetNotify, HostTypes
    <3> QED BY <1>10, <2>1, <3>1, <3>2 DEF ResetNotify, OwnTypes, Publishes, FirstReset
  <2>3. Returns' /\ ResetShuts' /\ Reserved' /\ OpenInPhase'
    BY <1>3, <2>1, SMTT(30) DEF Returns, ResetShuts, Reserved, OpenInPhase,
       Ending, Closing, Noting, Marking, Clearing
  <2>4. own.job \in {"attach", "reattach", "release"}
    BY <2>1 DEF HasJob
  <2>5. Provisional' /\ HasJob'
    BY <1>3, <2>1, <2>2, <2>4, SMTT(30) DEF Provisional, HasJob, Ending, Cutting, Noting, OpenOnly, Marking, Clearing
  <2>6. FirstReset'
    BY <1>3, <2>1, <2>2 DEF FirstReset, Noting
  <2>7. Attached'
    BY <1>3, <2>1, <2>2 DEF Attached, Provisional, Noting, Released
  <2> QED BY <2>3, <2>5, <2>6, <2>7
<1> QED BY <1>5, <1>6, <1>7, <1>8, <1>9, <1>10 DEF Reset

LEMMA HandlerKeepsOpeners ==
    ASSUME IInv, Openers, NEW e \in Events, HandleEvent(e)
    PROVE  Openers'
<1>1. Alone(Coord)
  <2>1. TypeOK /\ ReturnsHome /\ InGate(Coord)
    BY Inside DEF IInv
  <2> QED BY <2>1, HandlerSteps DEF OtherStep, GateStep
<1>2. Still(Main) /\ Still(Usb)
  BY <1>1, Others
<1>3. pc \in [Proc -> AnyLabel] /\ ret \in [Proc -> AnyReturn] /\ OwnTypes
  BY Fields, TypeParts, Zenon DEF IInv
<1>4. e \in own.events
  BY DEF HandleEvent, Selected
<1>5. /\ pc[Coord] = "idle" /\ ret'[Coord] = ret[Coord]
      /\ UNCHANGED <<gate, connected, openRequested, host>>
  BY <1>3 DEF HandleEvent
<1>6. /\ own'.hostOwned = own.hostOwned /\ own'.events = own.events \ {e}
      /\ \/ pc'[Coord] = "idle" /\ own'.job = own.job
         \/ /\ ~HandlerRejects(e) /\ own'.job = HandlerJob(e)
            /\ pc'[Coord] = IF e = "HOST_OWNED" THEN "osRequest" ELSE "rsFlags"
  BY <1>3 DEF HandleEvent, OwnTypes
<1> USE DEF Openers, Still
<1>7. \/ pc'[Coord] = "idle" /\ own'.job = own.job
      \/ pc'[Coord] = "rsFlags" /\ own'.job = "attach" /\ ~own.hostOwned
         /\ e = "ATTACH"
      \/ pc'[Coord] = "rsFlags" /\ own'.job \in {"reattach", "release"} /\ own.hostOwned
      \/ pc'[Coord] = "osRequest" /\ own'.job = own.job /\ own.hostOwned
  <2>1. e = "ATTACH" => ~own.hostOwned
    BY <1>4 DEF Provisional
  <2> QED BY <1>3, <1>6, <2>1 DEF HandlerRejects, HandlerJob, Events
<1>8. Returns' /\ ResetShuts' /\ Reserved' /\ OpenInPhase'
  BY <1>2, <1>5, <1>7, SMTT(30) DEF Returns, ResetShuts, Reserved, OpenInPhase, Ending,
     Closing, Noting, Marking, Clearing
<1>9. Provisional'
  BY <1>2, <1>5, <1>6, <1>7, SMTT(30) DEF Provisional, OpenOnly, Marking, Clearing
<1>10. HasJob'
  BY <1>2, <1>5, <1>7 DEF HasJob, Ending, Cutting, Noting, Clearing
<1>11. FirstReset' /\ Attached'
  BY <1>2, <1>5, <1>6, <1>7, SMTT(30) DEF FirstReset, Attached, Noting, Released
<1> QED BY <1>8, <1>9, <1>10, <1>11

(* The main task's start, and the worker, which opens and cuts nothing.     *)
LEMMA StartKeepsOpeners ==
    ASSUME IInv, Openers, MainTask
    PROVE  Openers'
<1>1. pc \in [Proc -> AnyLabel] /\ ret \in [Proc -> AnyReturn] /\ OwnTypes
  BY Fields, TypeParts, Zenon DEF IInv
<1>2. /\ Still(Coord) /\ Still(Usb)
      /\ ret' = ret /\ UNCHANGED <<gate, connected, openRequested, host>>
      /\ pc[Main] \in {"msCreate", "msInit", "msOpen"}
      /\ pc'[Main] \in {"msInit", "msOpen", "osRequest", "done"}
      /\ pc'[Main] = "osRequest" => openRequested
  BY <1>1 DEF MainTask, StartWorker, StartAcm, StartFails, StartOpen, Still
<1>3. /\ own'.hostOwned = own.hostOwned /\ own'.events = own.events
      /\ own'.job = own.job
  BY <1>1 DEF MainTask, StartWorker, StartAcm, StartFails, StartOpen, OwnTypes
<1> USE DEF Openers, Still
<1>4. Returns' /\ ResetShuts'
  BY <1>2 DEF Returns, ResetShuts, Ending, Clearing
<1>5. Reserved' /\ OpenInPhase'
  BY <1>2 DEF Reserved, OpenInPhase, Closing
<1>6. Provisional' /\ HasJob'
  BY <1>2, <1>3 DEF Provisional, HasJob, Ending, Cutting, OpenOnly, Marking, Clearing
<1>7. FirstReset' /\ Attached'
  BY <1>2, <1>3 DEF FirstReset, Attached, Released
<1> QED BY <1>4, <1>5, <1>6, <1>7

LEMMA WorkerKeepsOpeners ==
    ASSUME IInv, Openers, WorkerTask
    PROVE  Openers'
<1>1. PointTypes /\ OwnTypes
  BY TypeParts, Zenon DEF IInv
<1>2. /\ Still(Coord) /\ Still(Usb) /\ Still(Main)
      /\ UNCHANGED <<phase, generation, rx, past, connected, openRequested, host>>
  BY <1>1, WorkerControl, Others, Zenon DEF WorkerGoes
<1>3. /\ own'.hostOwned = own.hostOwned /\ own'.job = own.job
      /\ "ATTACH" \in own'.events => "ATTACH" \in own.events
  <2>1. CASE ProcessLine
    BY <1>1, <2>1 DEF ProcessLine, OwnTypes
  <2>2. CASE SignalRelease
    BY <1>1, <2>2 DEF SignalRelease, OwnTypes
  <2>3. CASE UNCHANGED own
    BY <2>3
  <2> QED
    BY <2>1, <2>2, <2>3 DEF WorkerTask, CheckMore, WorkerWait, SnapshotGeneration,
       SnapshotFirst, SnapshotRecheck, LoadDiscardEpoch, ReadChunk, MarkDrained,
       ResetFramer, AdmitBatch, FeedByte, DropChunk, CommandBegin, CommandJoin,
       CommandRecheck, CommandLeave, WriteResponse, ResponseComplete, CommandEnd,
       AfterCommand
<1> USE DEF Openers, Still
<1>4. Returns' /\ ResetShuts'
  BY <1>2 DEF Returns, ResetShuts, Ending, Clearing
<1>5. Reserved' /\ OpenInPhase'
  BY <1>2 DEF Reserved, OpenInPhase, Closing
<1>6. Provisional' /\ HasJob'
  BY <1>2, <1>3 DEF Provisional, HasJob, Ending, Cutting
<1>7. FirstReset' /\ Attached'
  BY <1>2, <1>3 DEF FirstReset, Attached, Released
<1> QED BY <1>4, <1>5, <1>6, <1>7

(* What the TinyUSB task's own steps do.                                    *)
HostStays == host'.attached = host.attached /\ host'.conn = host.conn
OwnStays == /\ own'.hostOwned = own.hostOwned /\ own'.job = own.job
            /\ "ATTACH" \in own'.events => "ATTACH" \in own.events
Arrives(k) == fifo' = Append(fifo, [kind |-> k, gen |-> generation, conn |-> host.conn])
UsbCommon ==
    SameWord /\ UNCHANGED <<discard, drained, crossed, acmReady, workerUp, wk>>
Sent == /\ pc[Usb] = "idle" /\ ~Released /\ host.attached /\ HostStays
        /\ pc'[Usb] = IF acmReady THEN "rxFlag" ELSE "idle"
        /\ ret'[Usb] = ret[Usb] /\ \E k \in Kinds : Arrives(k)
        /\ UNCHANGED <<phase, generation, connected, openRequested, own>>
Called == /\ pc[Usb] = "rxFlag" /\ pc'[Usb] = "nrReg" /\ ret'[Usb] = "rxNotify"
          /\ UNCHANGED <<phase, generation, openRequested, env>>
Informed == /\ Moves(Usb, "rxNotify", "idle")
            /\ UNCHANGED <<phase, generation, connected, openRequested, env>>
LineSet == /\ Moves(Usb, "idle", "idle") /\ HostStays
           /\ UNCHANGED <<phase, generation, openRequested, own, fifo>>
Configured == /\ Moves(Usb, "idle", "idle") /\ ~Released /\ own.job = "publish"
              /\ host'.attached /\ fifo' \in {fifo, <<>>}
              /\ own'.hostOwned /\ own'.job = "none"
              /\ "ATTACH" \in own'.events => "ATTACH" \in own.events
              /\ UNCHANGED <<phase, generation, connected, openRequested>>
Detached == /\ Moves(Usb, "idle", "csPhase") /\ host.attached /\ own.hostOwned
            /\ OwnStays /\ host'.conn = host.conn /\ fifo' \in {fifo, <<>>}
            /\ ~Released /\ ~openRequested' /\ ~connected'
            /\ UNCHANGED <<phase, generation>>
Shut == /\ pc[Usb] = "csPhase" /\ ret'[Usb] = ret[Usb]
        /\ \/ phase = "OPEN" /\ phase' = "CLOSED" /\ pc'[Usb] = "csGen"
           \/ phase # "OPEN" /\ phase' = phase /\ pc'[Usb] = "idle"
        /\ UNCHANGED <<generation, connected, openRequested, env>>
Begun == /\ pc[Usb] = "csGen" /\ pc'[Usb] = "mbReg" /\ ret'[Usb] = "idle"
         /\ generation' = generation + 1
         /\ UNCHANGED <<phase, connected, openRequested, env>>
Attaches == /\ Moves(Usb, "idle", "idle") /\ ~Released /\ ~host.attached
            /\ own.hostOwned /\ OwnStays
            /\ UNCHANGED <<phase, generation, connected, openRequested, fifo>>
Reported == /\ Moves(Usb, "idle", "idle") /\ OwnStays
            /\ UNCHANGED <<phase, generation, connected, openRequested, host, fifo>>
UsbEffect == /\ UsbCommon
             /\ \/ Sent \/ Called \/ Informed \/ LineSet \/ Configured \/ Detached
                \/ Shut \/ Begun \/ Attaches \/ Reported

LEMMA UsbDoes ==
    ASSUME IInv, UsbTask
    PROVE  UsbEffect /\ Alone(Usb)
<1>1. Alone(Usb)
  <2>1. TypeOK /\ ReturnsHome /\ InGate(Usb)
    BY Inside DEF IInv
  <2> QED BY <2>1, UsbTaskSteps DEF OtherStep, GateStep
<1>2. /\ pc \in [Proc -> AnyLabel] /\ ret \in [Proc -> AnyReturn]
      /\ OwnTypes /\ HostTypes
  BY Fields, TypeParts, Zenon DEF IInv
<1>3. UsbCommon
  BY DEF UsbCommon, SameWord, UsbTask, HostSends, RxCallback, RxNotify, LineState,
         HostConfigures, Detach, ClosePhase, CloseGeneration, Reattach, ScsiComplete
<1> USE <1>2 DEF Moves, UsbIdle, Released
<1>4. ASSUME NEW k \in Kinds, HostSends(k) PROVE Sent
  <2>1. HostStays /\ host.attached
    BY <1>4 DEF HostSends, HostStays, HostTypes
  <2> QED BY <1>4, <2>1 DEF HostSends, Arrives, Sent
<1>5. CASE RxCallback
  <2>1. Called
    BY <1>5 DEF RxCallback, Called
  <2> QED BY <1>1, <1>3, <2>1 DEF UsbEffect
<1>6. CASE RxNotify
  <2>1. Informed
    BY <1>6 DEF RxNotify, Informed
  <2> QED BY <1>1, <1>3, <2>1 DEF UsbEffect
<1>7. ASSUME NEW c \in BOOLEAN, LineState(c) PROVE LineSet
  <2>1. HostStays
    BY <1>7 DEF LineState, HostStays, HostTypes
  <2> QED BY <1>7, <2>1 DEF LineState, LineSet
<1>8. CASE HostConfigures
  <2>1. /\ host'.attached /\ own'.hostOwned /\ own'.job = "none"
        /\ "ATTACH" \in own'.events => "ATTACH" \in own.events
    BY <1>8 DEF HostConfigures, HostTypes, OwnTypes
  <2>2. Configured
    BY <1>8, <2>1 DEF HostConfigures, Configured
  <2> QED BY <1>1, <1>3, <2>2 DEF UsbEffect
<1>9. CASE Detach
  <2>1. OwnStays /\ host'.conn = host.conn
    BY <1>9 DEF Detach, OwnStays, HostTypes, OwnTypes
  <2>2. Detached
    BY <1>9, <2>1 DEF Detach, Detached
  <2> QED BY <1>1, <1>3, <2>2 DEF UsbEffect
<1>10. CASE ClosePhase
  <2>1. Shut
    BY <1>10 DEF ClosePhase, Shut
  <2> QED BY <1>1, <1>3, <2>1 DEF UsbEffect
<1>11. CASE CloseGeneration
  <2>1. Begun
    BY <1>11 DEF CloseGeneration, Begun
  <2> QED BY <1>1, <1>3, <2>1 DEF UsbEffect
<1>12. CASE Reattach
  <2>1. OwnStays
    <3>1. own' = own \/ own' = [own EXCEPT !.events = @ \cup {"FAILED"}]
      BY <1>12 DEF Reattach
    <3> QED BY <3>1 DEF OwnStays, OwnTypes
  <2>2. Attaches
    BY <1>12, <2>1 DEF Reattach, Attaches
  <2> QED BY <1>1, <1>3, <2>2 DEF UsbEffect
<1>13. CASE ScsiComplete
  <2>1. OwnStays
    BY <1>13 DEF ScsiComplete, OwnStays, OwnTypes
  <2>2. Reported
    BY <1>13, <2>1 DEF ScsiComplete, Reported
  <2> QED BY <1>1, <1>3, <2>2 DEF UsbEffect
<1>14. UsbEffect
  BY <1>3, <1>4, <1>5, <1>6, <1>7, <1>8, <1>9, <1>10, <1>11, <1>12, <1>13
     DEF UsbTask, UsbEffect
<1> QED BY <1>1, <1>14

LEMMA UsbKeepsOpeners ==
    ASSUME IInv, Openers, UsbTask
    PROVE  Openers'
<1>1. UsbEffect /\ Still(Coord) /\ Still(Main)
  BY UsbDoes, Others
<1>2. generation \in Nat
  BY Fields
<1> USE DEF UsbEffect, UsbCommon, HostStays, OwnStays, Moves, SameWord, Still, Openers,
            Sent, Called, Informed, LineSet, Configured, Detached, Shut, Begun, Attaches,
            Reported
<1>3. Returns' /\ ResetShuts'
  BY <1>1, SMTT(30) DEF Returns, ResetShuts, Ending, Noting, Marking, Clearing
<1>4. Reserved' /\ OpenInPhase'
  BY <1>1, SMTT(30) DEF Reserved, OpenInPhase, Closing
<1>5. Provisional'
  BY <1>1, SMTT(30) DEF Provisional, Marking, Clearing
<1>6. HasJob'
  BY <1>1, SMTT(30) DEF HasJob, Ending, Cutting
<1>7. FirstReset'
  BY <1>1, <1>2, SMTT(30) DEF FirstReset
<1>8. Attached'
  BY <1>1, SMTT(30) DEF Attached, Noting, Released, Provisional
<1> QED BY <1>3, <1>4, <1>5, <1>6, <1>7, <1>8

LEMMA InitOpeners == ASSUME Init PROVE Openers
<1>1. /\ pc[Usb] = "idle" /\ pc[Coord] = "idle" /\ pc[Main] = "msCreate"
      /\ generation = 1 /\ phase = "CLOSED" /\ ~rx.open /\ ~rx.opening
      /\ ~own.hostOwned /\ own.job = "none" /\ ~openRequested
  BY RxWords DEF Init, StartState
<1> QED
  BY <1>1 DEF Openers, Returns, ResetShuts, Reserved, OpenInPhase, Provisional, HasJob,
     FirstReset, Attached, Ending, Cutting, Closing, Released, Noting, Marking, Clearing,
     OpenOnly

LEMMA OpenersHold ==
    ASSUME IInv, Openers, [Next]_vars
    PROVE  Openers'
<1>1. CASE UNCHANGED vars
  BY <1>1 DEF Openers, Returns, ResetShuts, Reserved, OpenInPhase, Provisional, HasJob,
     FirstReset, Attached, Ending, Cutting, Closing, Released, Noting, Marking, Clearing,
     OpenOnly
<1>2. CASE UsbTask \/ NoteRx(Usb) \/ Boundary(Usb) \/ ClearDirty(Usb)
  BY <1>2, UsbKeepsOpeners, NoteKeepsOpeners, BoundaryKeepsOpeners, ClearKeepsOpeners
<1>3. CASE CoordTask
  BY <1>3, HandlerKeepsOpeners, ResetKeepsOpeners, CloseKeepsOpeners, NoteKeepsOpeners
     DEF CoordTask
<1>4. ASSUME NEW p \in {Coord, Main}, Opener(p) PROVE Openers'
  BY <1>4, OpenKeepsOpeners, CancelKeepsOpeners, BoundaryKeepsOpeners, ClearKeepsOpeners
     DEF Opener
<1>5. CASE MainTask
  BY <1>5, StartKeepsOpeners
<1>6. CASE WorkerTask \/ ClearDirty(Worker)
  BY <1>6, WorkerKeepsOpeners, ClearKeepsOpeners
<1> QED BY <1>1, <1>2, <1>3, <1>4, <1>5, <1>6 DEF Next

-----------------------------------------------------------------------------
(* What a step of a context other than the worker does to the session, as   *)
(* the worker's bytes see it.                                               *)
InMark == \/ pc[Usb] \in {"nrEpoch", "mbEpoch"}
          \/ pc[Coord] \in {"nrEpoch", "mbEpoch"}
          \/ pc[Main] = "mbEpoch"
(* The session of the current generation is open, or about to be cut; and   *)
(* its connection is the current one.                                       *)
Admitting == phase = "OPEN" \/ Ending \/ pc[Usb] = "csGen"
Up == \/ phase = "OPEN" /\ (host.attached \/ pc[Usb] = "csPhase" \/ Released)
      \/ pc[Usb] = "csGen"
Arriving == pc[Usb] \in {"rxFlag", "nrReg"} \/ Up

Apart == /\ UNCHANGED <<drained, wk>>
         /\ workerUp' => workerUp \/ (pc[Main] = "msCreate" /\ pc'[Main] # "msCreate")
         /\ pc'[Main] = "msCreate" => pc[Main] = "msCreate"
         /\ (acmReady => acmReady') /\ (crossed => crossed')
MarkLasts ==
    /\ discard \in Nat /\ discard' \in Nat /\ discard <= discard'
    /\ InMark => InMark' \/ discard < discard'
    /\ pc[Usb] = "mbReg" => pc'[Usb] = "mbReg" \/ InMark'
    /\ ~crossed' /\ Cutting => Cutting' \/ pc'[Coord] = "nrEpoch"
    /\ pc[Coord] = "nrEpoch" => pc'[Coord] = "nrEpoch" \/ discard < discard'
CutLasts ==
    /\ Ending => Ending' \/ Cutting'
    /\ \/ generation' = generation /\ (Ending => Ending')
       \/ /\ generation' = generation + 1
          /\ Cutting' \/ (pc'[Usb] = "mbReg" /\ generation >= 2)
UpLasts ==
    generation' = generation =>
        /\ Admitting => Admitting'
        /\ Up => (Up' /\ host'.conn = host.conn) \/ Ending'
FifoMoves ==
    \/ fifo' = <<>>
    \/ /\ fifo' = fifo
       /\ Arriving /\ ~crossed' =>
             \/ Arriving' /\ UNCHANGED generation /\ host'.conn = host.conn
             \/ Ending' \/ InMark' \/ pc'[Usb] = "mbReg" \/ Cutting'
    \/ /\ \E k \in Kinds : Arrives(k)
       /\ UNCHANGED <<generation, discard, acmReady>> /\ host'.conn = host.conn
       /\ (acmReady => Arriving') /\ (Arriving => Arriving')
Around == Apart /\ MarkLasts /\ CutLasts /\ UpLasts /\ FifoMoves

LEMMA NoteAround ==
    ASSUME IInv, Openers, NEW p \in {Usb, Coord}, NoteRx(p)
    PROVE  Around
<1>1. /\ NoteEffect(p) /\ Keeps /\ phase' = phase
      /\ \A q \in Proc : q # p => Still(q)
  BY NoteDoes, Others
<1>2. /\ Still(Main) /\ (p = Usb => Still(Coord)) /\ (p = Coord => Still(Usb))
      /\ discard \in Nat
      /\ UNCHANGED <<generation, drained, crossed, workerUp, acmReady, env, wk>>
  BY <1>1, TypeParts, Zenon DEF Keeps, IInv, GateTypes
<1>3. Returns /\ ResetShuts /\ OpenInPhase /\ Provisional /\ Attached
  BY DEF Openers
<1> USE DEF NoteEffect, Moves, Leaves, SameWord, Still
<1>4. Apart
  BY <1>2 DEF Apart
<1>5. MarkLasts
  BY <1>1, <1>2, <1>3 DEF MarkLasts, InMark, Cutting, ResetShuts, Returns, Noting
<1>6. CutLasts
  BY <1>1, <1>2, <1>3 DEF CutLasts, Ending, Cutting, Clearing
<1>7. UpLasts
  BY <1>1, <1>2, <1>3 DEF UpLasts, Admitting, Up, Ending, Released, Clearing, Returns, Noting
<1>8. FifoMoves
  <2>1. CASE p = Coord
    BY <1>1, <1>2, <1>3, <2>1 DEF FifoMoves, Arriving, Up, Released, Returns, Noting
  <2>2. CASE p = Usb /\ Leaves(Usb, "nrReg") /\ rx.open
    <3>1. phase = "RESETTING" => Ending
      BY <1>3, <2>2 DEF ResetShuts
    <3>2. phase = "CLOSED" => crossed
      BY <1>3, <2>2 DEF OpenInPhase, Closing
    <3>3. host.attached \/ Released
      BY <1>3, <2>2 DEF Provisional, Attached, Noting
    <3>4. phase \in {"CLOSED", "OPEN", "RESETTING"}
      BY TypeParts, Zenon DEF IInv, GateTypes
    <3>5. Ending => Ending'
      BY <1>2, <2>2 DEF Ending
    <3>6. Released => Released'
      BY <1>2, <2>2 DEF Released
    <3> QED
      BY <1>1, <1>2, <3>1, <3>2, <3>3, <3>4, <3>5, <3>6 DEF FifoMoves, Arriving, Up
  <2>3. CASE p = Usb /\ ~(Leaves(Usb, "nrReg") /\ rx.open)
    BY <1>1, <1>2, <1>3, <2>3 DEF FifoMoves, Arriving, Up, Released, InMark, Returns, Noting
  <2> QED BY <2>1, <2>2, <2>3
<1> QED BY <1>4, <1>5, <1>6, <1>7, <1>8 DEF Around

LEMMA BoundaryAround ==
    ASSUME IInv, Openers, NEW p \in {Usb, Coord, Main}, Boundary(p)
    PROVE  Around
<1>1. /\ BoundaryEffect(p) /\ Keeps /\ phase' = phase
      /\ \A q \in Proc : q # p => Still(q)
  BY BoundaryDoes, Others
<1>2. /\ (p # Main => Still(Main)) /\ (p # Coord => Still(Coord)) /\ (p # Usb => Still(Usb))
      /\ discard \in Nat
      /\ UNCHANGED <<generation, drained, crossed, workerUp, acmReady, env, wk>>
  BY <1>1, TypeParts, Zenon DEF Keeps, IInv, GateTypes
<1>3. Returns
  BY DEF Openers
<1> USE DEF BoundaryEffect, Moves, Still
<1>4. Apart
  BY <1>1, <1>2 DEF Apart
<1>5. MarkLasts
  BY <1>1, <1>2 DEF MarkLasts, InMark, Cutting
<1>6. CutLasts
  BY <1>1, <1>2 DEF CutLasts, Ending, Cutting, Clearing
<1>7. UpLasts
  BY <1>1, <1>2 DEF UpLasts, Admitting, Up, Ending, Released, Clearing
<1>8. FifoMoves
  BY <1>1, <1>2 DEF FifoMoves, Arriving, Up, Released
<1> QED BY <1>4, <1>5, <1>6, <1>7, <1>8 DEF Around

LEMMA ClearAround ==
    ASSUME IInv, Openers, NEW p \in {Usb, Coord, Main}, ClearDirty(p)
    PROVE  Around
<1>1. /\ ClearEffect(p) /\ Keeps /\ phase' = phase
      /\ \A q \in Proc : q # p => Still(q)
  BY ClearDoes, Others
<1>2. /\ (p # Main => Still(Main)) /\ (p # Coord => Still(Coord)) /\ (p # Usb => Still(Usb))
      /\ discard \in Nat
      /\ UNCHANGED <<generation, drained, crossed, workerUp, acmReady, env, wk>>
  BY <1>1, TypeParts, Zenon DEF Keeps, IInv, GateTypes
<1>3. /\ Returns
      /\ ret[Main] \in {"idle", "osNotify"}
  BY Fields DEF Openers, ReturnsHome
<1> USE DEF ClearEffect, Clearing, Still
<1>4. Apart
  BY <1>1, <1>2, <1>3 DEF Apart
<1>5. MarkLasts
  BY <1>1, <1>2 DEF MarkLasts, InMark, Cutting
<1>6. CutLasts
  BY <1>1, <1>2, <1>3 DEF CutLasts, Ending, Cutting, Returns
<1>7. UpLasts
  BY <1>1, <1>2, <1>3 DEF UpLasts, Admitting, Up, Ending, Released, Returns
<1>8. FifoMoves
  BY <1>1, <1>2, <1>3 DEF FifoMoves, Arriving, Up, Released, Returns
<1> QED BY <1>4, <1>5, <1>6, <1>7, <1>8 DEF Around

LEMMA CancelAround ==
    ASSUME IInv, Openers, NEW p \in {Coord, Main}, CancelOpening(p)
    PROVE  Around
<1>1. /\ CancelEffect(p) /\ Keeps /\ phase' = phase
      /\ \A q \in Proc : q # p => Still(q)
  BY CancelDoes, Others
<1>2. /\ (p # Main => Still(Main)) /\ (p # Coord => Still(Coord)) /\ Still(Usb)
      /\ discard \in Nat
      /\ UNCHANGED <<generation, drained, crossed, workerUp, acmReady, env, wk>>
  BY <1>1, TypeParts, Zenon DEF Keeps, IInv, GateTypes
<1>3. /\ Returns
      /\ ret[Main] \in {"idle", "osNotify"}
  BY Fields DEF Openers, ReturnsHome
<1> USE DEF CancelEffect, Moves, Leaves, Still
<1>4. Apart
  BY <1>1, <1>2, <1>3 DEF Apart
<1>5. MarkLasts
  BY <1>1, <1>2 DEF MarkLasts, InMark, Cutting
<1>6. CutLasts
  BY <1>1, <1>2, <1>3 DEF CutLasts, Ending, Cutting, Clearing, Returns
<1>7. UpLasts
  BY <1>1, <1>2, <1>3 DEF UpLasts, Admitting, Up, Ending, Released, Clearing, Returns
<1>8. FifoMoves
  BY <1>1, <1>2, <1>3 DEF FifoMoves, Arriving, Up, Released
<1> QED BY <1>4, <1>5, <1>6, <1>7, <1>8 DEF Around

LEMMA CloseAround ==
    ASSUME IInv, Openers, CloseRxAdmission(Coord)
    PROVE  Around
<1>1. /\ CloseEffect /\ Keeps /\ phase' = phase
      /\ \A q \in Proc : q # Coord => Still(q)
  BY CloseDoes, Others
<1>2. /\ Still(Main) /\ Still(Usb) /\ discard \in Nat
      /\ UNCHANGED <<generation, drained, crossed, workerUp, acmReady, env, wk>>
  BY <1>1, TypeParts, Zenon DEF Keeps, IInv, GateTypes
<1>3. Returns
  BY DEF Openers
<1> USE DEF CloseEffect, Still
<1>4. Apart
  BY <1>1, <1>2 DEF Apart
<1>5. MarkLasts
  BY <1>1, <1>2 DEF MarkLasts, InMark, Cutting
<1>6. CutLasts
  BY <1>1, <1>2, <1>3 DEF CutLasts, Ending, Cutting, Clearing, Returns
<1>7. UpLasts
  BY <1>1, <1>2, <1>3 DEF UpLasts, Admitting, Up, Ending, Released, Clearing, Returns
<1>8. FifoMoves
  BY <1>1, <1>2, <1>3 DEF FifoMoves, Arriving, Up, Released
<1> QED BY <1>4, <1>5, <1>6, <1>7, <1>8 DEF Around

LEMMA OpenAround ==
    ASSUME IInv, Openers, NEW p \in {Coord, Main}, Open(p)
    PROVE  Around
<1>1. OpenEffect(p) /\ OpenKeeps /\ \A q \in Proc : q # p => Still(q)
  BY OpenDoes, Others
<1>2. /\ Still(Usb) /\ (p = Main => Still(Coord)) /\ (p = Coord => Still(Main))
      /\ UNCHANGED <<generation, drained, workerUp, acmReady, env, wk>>
      /\ discard \in Nat
  BY <1>1, TypeParts, Zenon DEF OpenKeeps, IInv, GateTypes
<1> USE DEF OpenEffect, Moves, GateSame, Still, OpenOnly, After
<1>3. Apart
  BY <1>1, <1>2 DEF Apart
<1>4. MarkLasts
  BY <1>1, <1>2 DEF MarkLasts, InMark, Cutting
<1>5. CutLasts
  BY <1>1, <1>2 DEF CutLasts, Ending, Cutting, Clearing
<1>6. UpLasts
  BY <1>1, <1>2 DEF UpLasts, Admitting, Up, Ending, Released, Clearing
<1>7. FifoMoves
  BY <1>1, <1>2 DEF FifoMoves, Arriving, Up, Released
<1> QED BY <1>3, <1>4, <1>5, <1>6, <1>7 DEF Around

LEMMA ResetAround ==
    ASSUME IInv, Openers, Reset
    PROVE  Around
<1>1. OtherStep(Coord)
  <2>1. TypeOK /\ ReturnsHome /\ InGate(Coord)
    BY Inside DEF IInv
  <2> QED BY <2>1, ResetSteps
<1>2. \A q \in Proc : q # Coord => Still(q)
  BY <1>1, Others DEF OtherStep, GateStep
<1>3. /\ Still(Main) /\ Still(Usb)
      /\ pc \in [Proc -> AnyLabel] /\ generation \in Nat /\ discard \in Nat
  BY <1>2, Fields, TypeParts, Zenon DEF IInv, GateTypes
<1>4. /\ UNCHANGED <<drained, wk, discard, crossed, fifo, acmReady, workerUp>>
  BY DEF Reset, ResetFlags, ResetPhase, ResetGeneration, ResetWait, ResetClosed, ResetNotify
<1>5. Apart
  BY <1>3, <1>4 DEF Apart, Still
<1> USE DEF Still
<1>6. CASE ResetFlags \/ ResetWait
  <2>1. /\ \/ pc[Coord] = "rsFlags" /\ pc'[Coord] = "rsPhase"
           \/ pc[Coord] = "rsWait" /\ pc'[Coord] = "rsClosed"
        /\ UNCHANGED <<gate, env>>
    BY <1>3, <1>6 DEF ResetFlags, ResetWait
  <2> QED
    BY <1>3, <1>4, <1>5, <2>1 DEF Around, MarkLasts, CutLasts, UpLasts, FifoMoves, Arriving,
       Up, Admitting, Ending, Cutting, Released, InMark, Clearing
<1>7. CASE ResetPhase
  <2>1. /\ pc[Coord] = "rsPhase" /\ pc'[Coord] = "caCas"
        /\ UNCHANGED <<generation, env>>
    BY <1>3, <1>7 DEF ResetPhase
  <2> QED
    BY <1>3, <1>4, <1>5, <2>1 DEF Around, MarkLasts, CutLasts, UpLasts, FifoMoves, Arriving,
       Up, Admitting, Ending, Cutting, Released, InMark, Clearing
<1>8. CASE ResetGeneration
  <2>1. /\ pc[Coord] = "rsGen" /\ pc'[Coord] = "rsWait" /\ generation' = generation + 1
        /\ UNCHANGED <<phase, env>>
    BY <1>3, <1>8 DEF ResetGeneration
  <2> QED
    BY <1>3, <1>4, <1>5, <2>1 DEF Around, MarkLasts, CutLasts, UpLasts, FifoMoves,
       Ending, Cutting, InMark, Clearing
<1>9. CASE ResetClosed
  <2>1. /\ pc[Coord] = "rsClosed" /\ pc'[Coord] = "nrReg"
        /\ UNCHANGED <<generation, env>>
    BY <1>3, <1>9 DEF ResetClosed
  <2>2. phase = "RESETTING"
    BY <2>1 DEF Openers, ResetShuts
  <2> QED
    BY <1>3, <1>4, <1>5, <2>1, <2>2 DEF Around, MarkLasts, CutLasts, UpLasts, FifoMoves,
       Arriving, Up, Admitting, Ending, Cutting, Released, InMark, Clearing
<1>10. CASE ResetNotify
  <2>1. /\ pc[Coord] = "rsNotify" /\ UNCHANGED gate
        /\ pc'[Coord] = IF own.job = "attach" THEN "idle"
                        ELSE IF own.job = "reattach" THEN "osRequest" ELSE "released"
    BY <1>3, <1>10 DEF ResetNotify
  <2>2. /\ host'.conn = host.conn
        /\ host.attached /\ ~host'.attached
             => own.job = "release" \/ own.job = "attach"
    <3>1. HostTypes
      BY TypeParts, Zenon DEF IInv
    <3>2. host'.conn = host.conn
          /\ (host'.attached <=> host.attached /\ ~Publishes /\ own.job # "release")
      BY <1>10, <3>1 DEF ResetNotify, HostTypes
    <3> QED BY <3>2 DEF Publishes
  <2>3. own.job = "attach" => phase # "OPEN"
    BY DEF Openers, Provisional
  <2>4. MarkLasts /\ CutLasts
    BY <1>3, <1>4, <2>1 DEF MarkLasts, CutLasts, Ending, Cutting, InMark, Clearing
  <2>5. (Up => Up') /\ (Admitting => Admitting')
    BY <1>3, <2>1, <2>2, <2>3 DEF Up, Admitting, Ending, Released, Clearing
  <2> QED
    BY <1>3, <1>4, <1>5, <2>1, <2>2, <2>4, <2>5 DEF Around, UpLasts, FifoMoves, Arriving
<1> QED BY <1>6, <1>7, <1>8, <1>9, <1>10 DEF Reset

LEMMA HandlerAround ==
    ASSUME IInv, Openers, NEW e \in Events, HandleEvent(e)
    PROVE  Around
<1>1. Alone(Coord)
  <2>1. TypeOK /\ ReturnsHome /\ InGate(Coord)
    BY Inside DEF IInv
  <2> QED BY <2>1, HandlerSteps DEF OtherStep, GateStep
<1>2. Still(Main) /\ Still(Usb)
  BY <1>1, Others
<1>3. pc \in [Proc -> AnyLabel] /\ discard \in Nat /\ generation \in Nat
  BY Fields, TypeParts, Zenon DEF IInv, GateTypes
<1>4. /\ pc[Coord] = "idle" /\ pc'[Coord] \in {"idle", "osRequest", "rsFlags"}
      /\ UNCHANGED <<gate, flags, host, fifo, wk>>
  BY <1>3 DEF HandleEvent
<1> QED
  BY <1>2, <1>3, <1>4 DEF Around, Apart, MarkLasts, CutLasts, UpLasts, FifoMoves, Arriving,
     Up, Admitting, Ending, Cutting, Released, InMark, Clearing, Still

LEMMA StartAround ==
    ASSUME IInv, Openers, MainTask
    PROVE  Around
<1>1. pc \in [Proc -> AnyLabel] /\ FlagTypes /\ discard \in Nat /\ generation \in Nat
  BY Fields, TypeParts, Zenon DEF IInv, GateTypes
<1>2. /\ Still(Coord) /\ Still(Usb)
      /\ UNCHANGED <<gate, host, fifo, wk>>
      /\ pc[Main] \in {"msCreate", "msInit", "msOpen"}
      /\ pc'[Main] \in {"msInit", "msOpen", "osRequest", "done"}
      /\ acmReady => acmReady'
      /\ workerUp' => workerUp \/ (pc[Main] = "msCreate" /\ pc'[Main] # "msCreate")
  BY <1>1 DEF MainTask, StartWorker, StartAcm, StartFails, StartOpen, Still, FlagTypes
<1> QED
  BY <1>1, <1>2 DEF Around, Apart, MarkLasts, CutLasts, UpLasts, FifoMoves, Arriving,
     Up, Admitting, Ending, Cutting, Released, InMark, Clearing, Still

LEMMA UsbAround ==
    ASSUME IInv, Openers, UsbTask
    PROVE  Around
<1>1. UsbEffect /\ Still(Coord) /\ Still(Main)
  BY UsbDoes, Others
<1>2. /\ discard \in Nat /\ generation \in Nat
      /\ Returns /\ Provisional /\ FirstReset
  BY Fields, TypeParts, Zenon DEF IInv, GateTypes, Openers
<1> USE DEF UsbEffect, UsbCommon, HostStays, Moves, Still
<1>3. Apart
  BY <1>1 DEF Apart
<1>4. MarkLasts
  BY <1>1, <1>2 DEF MarkLasts, InMark, Cutting, Sent, Called, Informed, LineSet, Configured,
     Detached, Shut, Begun, Attaches, Reported
<1>5. CutLasts
  BY <1>1, <1>2 DEF CutLasts, Ending, Cutting, Sent, Called, Informed, LineSet, Configured,
     Detached, Shut, Begun, Attaches, Reported, Provisional, FirstReset
<1>6. UpLasts
  BY <1>1, <1>2 DEF UpLasts, Admitting, Up, Ending, Released, Provisional, Sent, Called,
     Informed, LineSet, Configured, Detached, Shut, Begun, Attaches, Reported
<1>7. FifoMoves
  BY <1>1, <1>2 DEF FifoMoves, Arriving, Up, Released, Provisional, Sent, Called,
     Informed, LineSet, Configured, Detached, Shut, Begun, Attaches, Reported
<1> QED BY <1>3, <1>4, <1>5, <1>6, <1>7 DEF Around

(* All of the above, for any step of another context.                       *)
AroundStep == \/ UsbTask \/ NoteRx(Usb) \/ Boundary(Usb) \/ ClearDirty(Usb)
              \/ CoordTask \/ Opener(Coord) \/ MainTask \/ Opener(Main)
LEMMA StepsAround ==
    ASSUME IInv, Openers, AroundStep
    PROVE  Around
<1>1. CASE UsbTask \/ NoteRx(Usb) \/ Boundary(Usb) \/ ClearDirty(Usb)
  BY <1>1, UsbAround, NoteAround, BoundaryAround, ClearAround
<1>2. CASE CoordTask
  BY <1>2, HandlerAround, ResetAround, CloseAround, NoteAround DEF CoordTask
<1>3. ASSUME NEW p \in {Coord, Main}, Opener(p) PROVE Around
  BY <1>3, OpenAround, CancelAround, BoundaryAround, ClearAround DEF Opener
<1>4. CASE MainTask
  BY <1>4, StartAround
<1> QED BY <1>1, <1>2, <1>3, <1>4 DEF AroundStep

-----------------------------------------------------------------------------
(* The worker's bytes.                                                      *)

(* A chunk that was read now is dropped: an epoch is due that the worker    *)
(* has not drained, or one is about to be.                                  *)
Marked == /\ drained < discard
          /\ pc[Worker] = "wkDrained" => wk.epoch < discard
Barrier == Marked \/ InMark \/ pc[Usb] = "mbReg" \/ Cutting

Same(s, g, c) == \A i \in 1..Len(s) : s[i].gen = g /\ s[i].conn = c

EpochsBound == drained <= discard /\ wk.epoch <= discard

(* A sequence of tests starts at its first load, even where a failed start  *)
(* took the worker away.                                                    *)
ChecksRestart ==
    /\ wk.k >= 1
    /\ pc[Worker] \notin CheckLabels /\ (pc[Worker] = "wkWait" => workerUp) => wk.k = 1
    /\ pc[Main] = "msCreate" => wk.k = 1 /\ pc[Worker] = "wkWait" /\ ~workerUp

(* Before the interface is ready nothing is drained, and the first session  *)
(* begins with an epoch that will be.                                       *)
NotReady ==
    ~acmReady =>
        /\ drained = 0 /\ pc[Worker] \in Unread
        /\ generation >= 2 /\ ~crossed
              => discard >= 1 \/ Cutting \/ pc[Coord] = "nrEpoch"

(* The FIFO holds bytes of the current generation and connection only,      *)
(* unless a barrier covers it.                                              *)
FifoOwn ==
    ~crossed /\ fifo # <<>> =>
        \/ Barrier \/ Ending \/ generation = 1
        \/ Same(fifo, generation, host.conn) /\ Arriving

Current == wk.snapGen = generation
Now(c)  == (c = host.conn /\ Up) \/ Ending

(* A snapshot that admits was taken of an open session.                     *)
SnapshotUp ==
    /\ wk.snapGen <= generation /\ wk.frameGen <= generation
    /\ Current /\ (wk.admitted \/ (pc[Worker] = "wkSnap2" /\ wk.k >= 2)) => Admitting
    /\ wk.line # <<>> /\ pc[Worker] \notin {"wkWait", "wkSnap"} \cup Clearing
          => wk.frameGen <= wk.snapGen
LineOwn ==
    ~crossed /\ wk.line # <<>> /\ wk.frameGen = generation
        => \E c \in Nat : Same(wk.line, wk.frameGen, c) /\ Now(c)

(* A chunk in hand is of one generation and connection, and so is the line  *)
(* it goes on, once the tests of the batch have passed the load that a      *)
(* barrier would fail.                                                      *)
Batch(c) == /\ Same(wk.chunk, wk.snapGen, c)
            /\ wk.line # <<>> /\ wk.frameGen = wk.snapGen => Same(wk.line, wk.snapGen, c)
OwnChunk == \E c \in Nat : Batch(c) /\ (Current => Now(c))
Load == IF pc[Worker] = "wkBatch" THEN wk.k ELSE 1
WillDrop == \/ Load <= 6 /\ Marked
            \/ Load <= 4 /\ (InMark \/ Cutting)
            \/ Load = 1 /\ pc[Usb] = "mbReg"
            \/ Load <= 3 /\ ~Current
            \/ Load <= 2 /\ (Ending \/ ~wk.admitted)
BatchOwn == ~crossed /\ pc[Worker] \in {"wkReset", "wkBatch"} => WillDrop \/ OwnChunk

Framed == {"wkBegin1", "wkJoin", "wkBegin2", "wkLeave", "wkExec", "wkQueue", "wkEndpoint",
           "wkFinal", "wkEnd", "wkSignal", "wkAdmit"}
ChunkOwn ==
    ~crossed /\ pc[Worker] \in Framed \cup {"wkByte"} /\ wk.chunk # <<>> => OwnChunk
LineTaken == pc[Worker] \in Framed => wk.line = <<>>

(* A frame is of one generation and connection from the test of the         *)
(* generation on.                                                           *)
OwnFrame == \E c \in Nat : Same(wk.frame, wk.frameGen, c)
FrameOwn ==
    /\ ~crossed /\ pc[Worker] \in {"wkBegin1", "wkJoin", "wkBegin2"}
         /\ wk.frameGen = generation => OwnFrame
    /\ ~crossed /\ (Executing \/ (pc[Worker] = "wkBegin2" /\ wk.k >= 3)) => OwnFrame

Fresh == /\ EpochsBound /\ ChecksRestart /\ NotReady /\ FifoOwn /\ SnapshotUp /\ LineOwn
         /\ BatchOwn /\ ChunkOwn /\ LineTaken /\ FrameOwn

LEMMA SameEmpty == \A g, c : Same(<<>>, g, c)
  BY DEF Same
LEMMA SameAppend ==
    ASSUME NEW s \in Seq(Byte), NEW b \in Byte, NEW c, Same(s, b.gen, c), b.conn = c
    PROVE  Same(Append(s, b), b.gen, c)
  BY DEF Same
LEMMA SameHead ==
    ASSUME NEW s \in Seq(Byte), s # <<>>, NEW g, NEW c, Same(s, g, c)
    PROVE  /\ Head(s) \in Byte /\ Head(s).gen = g /\ Head(s).conn = c
           /\ Tail(s) \in Seq(Byte) /\ Same(Tail(s), g, c)
<1>1. Len(s) \in Nat /\ Len(s) >= 1 /\ Head(s) = s[1] /\ Head(s) \in Byte
  OBVIOUS
<1>2. /\ Tail(s) \in Seq(Byte) /\ Len(Tail(s)) = Len(s) - 1
      /\ \A i \in 1..Len(Tail(s)) : Tail(s)[i] = s[i + 1]
  OBVIOUS
<1>3. \A i \in 1..Len(Tail(s)) : i + 1 \in 1..Len(s)
  BY <1>1, <1>2
<1> QED BY <1>1, <1>2, <1>3 DEF Same

(* What the worker's fields are.                                            *)
LEMMA WorkerFields ==
    ASSUME IInv
    PROVE  /\ wk.snapGen \in Nat /\ wk.frameGen \in Nat /\ wk.epoch \in Nat /\ wk.k \in Nat
           /\ wk.admitted \in BOOLEAN
           /\ wk.chunk \in Seq(Byte) /\ wk.line \in Seq(Byte) /\ wk.frame \in Seq(Byte)
           /\ generation \in Nat /\ discard \in Nat /\ drained \in Nat /\ host.conn \in Nat
           /\ fifo \in Seq(Byte) /\ acmReady \in BOOLEAN /\ workerUp \in BOOLEAN
           /\ phase \in {"CLOSED", "OPEN", "RESETTING"}
<1>1. GateTypes /\ WkTypes /\ FifoTypes /\ FlagTypes
  BY TypeParts, Zenon DEF IInv
<1> QED BY <1>1, Fields DEF GateTypes, WkTypes, FifoTypes, FlagTypes

(* The other contexts keep the worker's bytes fresh, and so does a failed   *)
(* start, which takes the worker away before it has read any.               *)
WorkerRests == \/ pc'[Worker] = pc[Worker]
               \/ pc[Worker] \in Unread /\ pc'[Worker] = "wkWait" /\ ~workerUp'
LEMMA AroundKeepsFresh ==
    ASSUME IInv, Openers, Fresh, Around, WorkerRests
    PROVE  Fresh'
<1>1. Apart /\ MarkLasts /\ CutLasts /\ UpLasts /\ FifoMoves
  BY DEF Around
<1>2. wk' = wk /\ WorkerRests /\ drained' = drained
  BY <1>1 DEF Apart
<1> USE DEF WorkerRests, Unread
<1>3. EpochsBound /\ ChecksRestart /\ NotReady /\ FifoOwn /\ SnapshotUp /\ LineOwn
      /\ BatchOwn /\ ChunkOwn /\ LineTaken /\ FrameOwn
  BY DEF Fresh
<1>4. crossed => crossed'
  BY <1>1 DEF Apart
<1>5. /\ Marked => Marked'
      /\ InMark => InMark' \/ Marked'
      /\ pc[Usb] = "mbReg" => pc'[Usb] = "mbReg" \/ InMark'
      /\ ~crossed' /\ Cutting => Cutting' \/ InMark'
  BY <1>1, <1>2, <1>3, WorkerFields, SMTT(30) DEF MarkLasts, Marked, EpochsBound, InMark
<1>6. ~crossed' /\ Barrier => Barrier'
  BY <1>5 DEF Barrier
<1>7. /\ generation \in Nat /\ generation' \in {generation, generation + 1}
      /\ generation' # generation => Cutting' \/ pc'[Usb] = "mbReg"
      /\ Ending => Ending' \/ Cutting'
      /\ generation' = generation /\ Ending => Ending'
  BY <1>1, WorkerFields DEF CutLasts
<1>8. generation' = generation =>
         /\ Admitting => Admitting'
         /\ \A c : Now(c) => Now(c)'
  BY <1>1, <1>7 DEF UpLasts, Now
<1>9. /\ Current' => Current /\ generation' = generation
      /\ wk.frameGen = generation' => wk.frameGen = generation /\ generation' = generation
  <2>1. wk.snapGen <= generation /\ wk.frameGen <= generation
    BY <1>3 DEF SnapshotUp
  <2> QED BY <1>2, <1>7, <2>1, WorkerFields, SMTT(30) DEF Current
<1>10. EpochsBound'
  BY <1>1, <1>2, <1>3, WorkerFields, SMTT(30) DEF EpochsBound, MarkLasts
<1>11. ChecksRestart'
  BY <1>1, <1>2, <1>3 DEF ChecksRestart, Apart
<1>12. NotReady'
  BY <1>1, <1>2, <1>3, <1>7, WorkerFields DEF NotReady, Apart, MarkLasts, CutLasts
<1>13. FifoOwn'
  <2> SUFFICES ASSUME ~crossed', fifo' # <<>>
               PROVE  (\/ Barrier \/ Ending \/ generation = 1
                       \/ Same(fifo, generation, host.conn) /\ Arriving)'
    BY DEF FifoOwn
  <2>1. CASE fifo # <<>> /\ (Barrier \/ Ending \/ generation = 1)
    BY <1>6, <1>7, <2>1 DEF Barrier
  <2>2. CASE fifo' = fifo /\ Same(fifo, generation, host.conn) /\ Arriving
    <3>1. \/ Arriving' /\ generation' = generation /\ host'.conn = host.conn
          \/ Ending' \/ Barrier'
      BY <1>1, <2>2 DEF FifoMoves, Barrier
    <3> QED BY <2>2, <3>1 DEF Same
  <2>3. ASSUME NEW k \in Kinds, Arrives(k), fifo = <<>> \/ Same(fifo, generation, host.conn),
               acmReady \/ Arriving => Arriving', UNCHANGED <<generation>>,
               host'.conn = host.conn
        PROVE  \/ Barrier' \/ generation' = 1
               \/ (Same(fifo, generation, host.conn) /\ Arriving)'
    <3> DEFINE b == [kind |-> k, gen |-> generation, conn |-> host.conn]
    <3>1. b \in Byte /\ b.gen = generation /\ b.conn = host.conn /\ fifo \in Seq(Byte)
          /\ fifo' = Append(fifo, b)
      BY <2>3, WorkerFields DEF Byte, Arrives
    <3> HIDE DEF b
    <3>2. Same(fifo, generation, host.conn)
      BY <2>3, SameEmpty
    <3>3. Same(fifo', generation', host'.conn)
      BY <2>3, <3>1, <3>2, SameAppend
    <3>4. ~acmReady => Barrier' \/ generation = 1
      <4>1. ~crossed /\ generation >= 1
        BY <1>4 DEF Openers, FirstReset
      <4>2. ~acmReady => Barrier \/ generation = 1
        <5> SUFFICES ASSUME ~acmReady, generation # 1 PROVE Barrier
          OBVIOUS
        <5>1. generation >= 2
          BY <4>1, WorkerFields
        <5>2. /\ drained = 0 /\ pc[Worker] # "wkDrained"
              /\ discard >= 1 \/ Cutting \/ pc[Coord] = "nrEpoch"
          BY <1>3, <4>1, <5>1 DEF NotReady
        <5>3. discard >= 1 => Marked
          BY <5>2, WorkerFields DEF Marked
        <5> QED BY <5>2, <5>3 DEF Barrier, InMark
      <4> QED BY <1>6, <4>2
    <3>5. (Same(fifo, generation, host.conn))'
      BY <3>3 DEF Same
    <3> QED BY <2>3, <3>4, <3>5
  <2>4. \/ fifo' = fifo
        \/ /\ \E k \in Kinds : Arrives(k)
           /\ UNCHANGED <<generation, discard, acmReady>> /\ host'.conn = host.conn
           /\ (acmReady => Arriving') /\ (Arriving => Arriving')
    BY <1>1 DEF FifoMoves
  <2>5. fifo # <<>> => Barrier \/ Ending \/ generation = 1
                       \/ (Same(fifo, generation, host.conn) /\ Arriving)
    BY <1>3, <1>4 DEF FifoOwn
  <2> QED BY <2>1, <2>2, <2>3, <2>4, <2>5
<1>14. SnapshotUp'
  <2>1. generation <= generation'
    BY <1>7
  <2>2. wk.snapGen <= generation' /\ wk.frameGen <= generation'
    BY <1>3, <1>7, <2>1, WorkerFields, SMTT(30) DEF SnapshotUp
  <2> QED BY <1>2, <1>3, <1>8, <1>9, <2>2 DEF SnapshotUp, Clearing
<1>15. LineOwn'
  BY <1>2, <1>3, <1>4, <1>8, <1>9 DEF LineOwn, Same
<1>16. OwnChunk => OwnChunk'
  <2> SUFFICES ASSUME NEW c \in Nat, Batch(c), Current => Now(c) PROVE OwnChunk'
    BY DEF OwnChunk
  <2>1. Batch(c)'
    BY <1>2 DEF Batch, Same
  <2>2. Current' => Now(c)'
    BY <1>8, <1>9
  <2> QED BY <2>1, <2>2 DEF OwnChunk
<1>17. BatchOwn'
  <2>1. Load' = Load
    BY <1>2 DEF Load
  <2>2. Load \in Nat
    BY WorkerFields DEF Load
  <2>3. ~Current => ~Current'
    BY <1>9
  <2>4. ~crossed' /\ WillDrop => WillDrop'
    BY <1>2, <1>5, <1>7, <2>1, <2>2, <2>3 DEF WillDrop
  <2> QED BY <1>2, <1>3, <1>4, <1>16, <2>4 DEF BatchOwn
<1>18. ChunkOwn' /\ LineTaken'
  BY <1>2, <1>3, <1>4, <1>16 DEF ChunkOwn, LineTaken, Framed
<1>19. FrameOwn'
  <2>1. OwnFrame => OwnFrame'
    BY <1>2 DEF OwnFrame, Same
  <2>2. Executing' => Executing
    BY <1>2 DEF Executing
  <2> QED BY <1>2, <1>3, <1>4, <1>9, <2>1, <2>2 DEF FrameOwn
<1> QED
  BY <1>10, <1>11, <1>12, <1>13, <1>14, <1>15, <1>17, <1>18, <1>19 DEF Fresh

LEMMA AroundStepKeepsFresh ==
    ASSUME IInv, Openers, Fresh, AroundStep
    PROVE  Fresh'
<1>1. Around
  BY StepsAround
<1>2. WorkerRests
  <2>1. CASE ~MainTask
    <3>1. \E p \in {Usb, Coord, Main} : Alone(p)
      <4>1. \A p \in {Coord, Main} : Opener(p) => Alone(p)
        BY OpenDoes, CancelDoes, BoundaryDoes, ClearDoes DEF Opener
      <4>2. UsbTask \/ NoteRx(Usb) \/ Boundary(Usb) \/ ClearDirty(Usb) => Alone(Usb)
        BY UsbDoes, NoteDoes, BoundaryDoes, ClearDoes
      <4>3. CoordTask => Alone(Coord)
        <5>1. TypeOK /\ ReturnsHome /\ InGate(Coord)
          BY Inside DEF IInv
        <5> QED
          BY <5>1, HandlerSteps, ResetSteps, CloseDoes, NoteDoes
             DEF CoordTask, OtherStep, GateStep
      <4> QED BY <2>1, <4>1, <4>2, <4>3 DEF AroundStep
    <3> QED BY <3>1, Others DEF WorkerRests, Still
  <2>2. CASE MainTask /\ ~StartFails
    BY <2>2, Fields DEF MainTask, StartWorker, StartAcm, StartOpen, WorkerRests
  <2>3. CASE StartFails
    <3>1. WorkerUnread
      BY Zenon DEF IInv
    <3> QED BY <2>3, <3>1, Fields DEF StartFails, WorkerUnread, WorkerRests, Unread
  <2> QED BY <2>1, <2>2, <2>3
<1> QED BY <1>1, <1>2, AroundKeepsFresh

-----------------------------------------------------------------------------
(* The worker's own steps leave the session to the others.                  *)
Outside == /\ UNCHANGED <<generation, discard, crossed, workerUp, acmReady, host>>
           /\ UNCHANGED <<phase, rx, connected>>
           /\ pc'[Usb] = pc[Usb] /\ pc'[Coord] = pc[Coord] /\ pc'[Main] = pc[Main]
           /\ (InMark' <=> InMark) /\ (Cutting' <=> Cutting) /\ (Ending' <=> Ending)
           /\ (Admitting' <=> Admitting) /\ (Up' <=> Up) /\ (Arriving' <=> Arriving)

LEMMA WorkerOutside ==
    ASSUME IInv, WorkerTask
    PROVE  Outside
<1>1. WorkerGoes
  BY TypeParts, WorkerControl, Zenon DEF IInv
<1>2. /\ pc'[Usb] = pc[Usb] /\ pc'[Coord] = pc[Coord] /\ pc'[Main] = pc[Main]
      /\ ret'[Coord] = ret[Coord]
      /\ UNCHANGED <<phase, generation, rx, discard, crossed, connected, workerUp,
                     acmReady, host>>
  BY <1>1, Others DEF WorkerGoes, Still
<1> QED
  BY <1>2 DEF Outside, InMark, Cutting, Ending, Admitting, Up, Arriving, Released

(* The epochs, the load at which the worker's tests are, and the FIFO.      *)
Counts ==
    /\ wk'.epoch \in {wk.epoch, 0, discard}
    /\ \/ drained' = drained
       \/ /\ pc[Worker] = "wkDrained" /\ pc'[Worker] # "wkDrained"
          /\ drained' = IF drained < wk.epoch THEN wk.epoch ELSE drained
    /\ fifo' = <<>> \/ (fifo' = fifo /\ pc'[Worker] # "wkDrained")
    /\ \/ wk'.k = 1
       \/ wk'.k = wk.k /\ pc[Worker] \notin CheckLabels
       \/ wk'.k = wk.k + 1 /\ pc'[Worker] = pc[Worker] /\ pc[Worker] \in CheckLabels
    /\ pc[Worker] = "wkWait" => workerUp

LEMMA WorkerCounts ==
    ASSUME IInv, WorkerTask
    PROVE  Counts
<1>1. pc \in [Proc -> AnyLabel] /\ WkTypes /\ ChunkLeft
  BY Fields, TypeParts, Zenon DEF IInv
<1> USE <1>1 DEF Counts, WkTypes, CheckLabels
<1>2. CASE CheckMore           BY <1>2 DEF CheckMore
<1>3. CASE WorkerWait          BY <1>3 DEF WorkerWait
<1>4. CASE SnapshotGeneration  BY <1>4 DEF SnapshotGeneration
<1>5. CASE SnapshotFirst       BY <1>5 DEF SnapshotFirst
<1>6. CASE SnapshotRecheck     BY <1>6 DEF SnapshotRecheck, Passed, Failed
<1>7. CASE LoadDiscardEpoch    BY <1>7 DEF LoadDiscardEpoch
<1>8. CASE ReadChunk           BY <1>8 DEF ReadChunk
<1>9. CASE MarkDrained         BY <1>9 DEF MarkDrained
<1>10. CASE ResetFramer        BY <1>10 DEF ResetFramer
<1>11. CASE AdmitBatch         BY <1>11 DEF AdmitBatch, Passed, Failed
<1>12. CASE FeedByte           BY <1>12, ZenonT(30) DEF FeedByte, NextByte, Passed
<1>13. CASE DropChunk          BY <1>13 DEF DropChunk, Failed
<1>14. CASE CommandBegin
  BY <1>14 DEF CommandBegin, DropFrame, NextByte, Passed, Failed
<1>15. CASE CommandJoin        BY <1>15 DEF CommandJoin
<1>16. CASE CommandRecheck     BY <1>16 DEF CommandRecheck, Passed, Failed
<1>17. CASE CommandLeave       BY <1>17 DEF CommandLeave, DropFrame, NextByte
<1>18. CASE ProcessLine        BY <1>18 DEF ProcessLine
<1>19. CASE WriteResponse      BY <1>19 DEF WriteResponse, Fail, Passed, Failed
<1>20. CASE ResponseComplete   BY <1>20 DEF ResponseComplete, Passed
<1>21. CASE CommandEnd         BY <1>21 DEF CommandEnd
<1>22. CASE SignalRelease      BY <1>22 DEF SignalRelease
<1>23. CASE AfterCommand       BY <1>23 DEF AfterCommand, NextByte
<1> QED
  BY <1>2, <1>3, <1>4, <1>5, <1>6, <1>7, <1>8, <1>9, <1>10, <1>11, <1>12, <1>13,
     <1>14, <1>15, <1>16, <1>17, <1>18, <1>19, <1>20, <1>21, <1>22, <1>23
     DEF WorkerTask

LEMMA CountsKeepFifo ==
    ASSUME IInv, Openers, Fresh, WorkerTask
    PROVE  EpochsBound' /\ ChecksRestart' /\ NotReady' /\ FifoOwn'
<1>1. Outside /\ Counts /\ EpochsBound /\ ChecksRestart /\ NotReady /\ FifoOwn
  BY WorkerOutside, WorkerCounts DEF Fresh
<1>2. ~acmReady /\ pc[Worker] \in Unread => pc'[Worker] \in Unread
  <2>1. /\ GateTypes /\ WkTypes /\ PointTypes /\ FifoTypes /\ ChunkLeft
        /\ ActiveIsJoined /\ FreshCommand
    BY TypeParts, Zenon DEF IInv
  <2> QED BY <2>1, WorkerKeepsCommand DEF WorkerCommand
<1>3. EpochsBound'
  BY <1>1, WorkerFields, SMTT(30) DEF EpochsBound, Counts, Outside
<1>4. ChecksRestart'
  <2>1. wk'.k >= 1
    BY <1>1, WorkerFields, SMTT(30) DEF ChecksRestart, Counts
  <2> QED BY <1>1, <2>1 DEF ChecksRestart, Counts, Outside
<1>5. NotReady'
  BY <1>1, <1>2 DEF NotReady, Counts, Outside, Unread
<1>6. FifoOwn'
  <2>1. CASE fifo' = <<>>
    BY <2>1 DEF FifoOwn
  <2>2. CASE fifo' = fifo /\ pc'[Worker] # "wkDrained"
    <3>1. Marked => Marked'
      BY <1>1, <2>2, WorkerFields DEF Marked, Counts, Outside
    <3>2. Same(fifo, generation, host.conn) => Same(fifo, generation, host.conn)'
      BY <1>1, <2>2 DEF Same, Outside
    <3> QED BY <1>1, <2>2, <3>1, <3>2 DEF FifoOwn, Barrier, Outside
  <2> QED BY <1>1, <2>1, <2>2 DEF Counts
<1> QED BY <1>3, <1>4, <1>5, <1>6

-----------------------------------------------------------------------------
(* What the worker's steps do to its bytes.                                 *)
Bytes == SnapshotUp /\ LineOwn /\ BatchOwn /\ ChunkOwn /\ LineTaken /\ FrameOwn

SameLine  == wk'.line = wk.line /\ wk'.frameGen = wk.frameGen
SameChunk == wk'.chunk = wk.chunk /\ wk'.snapGen = wk.snapGen
SameFrame == wk'.frame = wk.frame /\ wk'.frameGen = wk.frameGen

LEMMA KeptParts ==
    ASSUME Fresh, Outside
    PROVE  /\ \A c : Now(c)' <=> Now(c)
           /\ wk'.snapGen = wk.snapGen => (Current' <=> Current)
           /\ SameLine \/ wk'.line = <<>> => LineOwn'
           /\ SameChunk /\ (SameLine \/ wk'.line = <<>>) => (OwnChunk => OwnChunk')
           /\ SameFrame => (OwnFrame => OwnFrame')
<1>1. \A c : Now(c)' <=> Now(c)
  BY DEF Now, Outside
<1>2. wk'.snapGen = wk.snapGen => (Current' <=> Current)
  BY DEF Current, Outside
<1>3. SameLine \/ wk'.line = <<>> => LineOwn'
  BY <1>1 DEF Fresh, LineOwn, SameLine, Same, Outside
<1>4. ASSUME SameChunk, SameLine \/ wk'.line = <<>>, OwnChunk
      PROVE  OwnChunk'
  <2>1. PICK c \in Nat : Batch(c) /\ (Current => Now(c))
    BY <1>4 DEF OwnChunk
  <2>2. Batch(c)'
    BY <1>4, <2>1 DEF Batch, SameChunk, SameLine, Same
  <2>3. Current' => Now(c)'
    BY <1>1, <1>2, <1>4, <2>1 DEF SameChunk
  <2> QED BY <2>2, <2>3 DEF OwnChunk
<1>5. SameFrame => (OwnFrame => OwnFrame')
  BY DEF SameFrame, OwnFrame, Same
<1> QED BY <1>1, <1>2, <1>3, <1>4, <1>5

(* Between batches the worker has no chunk and no frame in hand.            *)
LEMMA BetweenBatches ==
    ASSUME pc'[Worker] \notin Framed \cup {"wkReset", "wkBatch", "wkByte"}
    PROVE  BatchOwn' /\ ChunkOwn' /\ LineTaken' /\ FrameOwn'
<1>1. BatchOwn' /\ ChunkOwn' /\ LineTaken'
  BY DEF BatchOwn, ChunkOwn, LineTaken
<1>2. FrameOwn'
  BY DEF FrameOwn, Executing, Framed
<1> QED BY <1>1, <1>2

(* While a command runs only the frame can become the session's own.        *)
LEMMA InCommand ==
    ASSUME IInv, Fresh, Outside, pc[Worker] \in Framed, pc'[Worker] \in Framed,
           SameLine, SameChunk, SameFrame, wk'.admitted = wk.admitted,
           ~crossed /\ (Executing' \/ (pc'[Worker] = "wkBegin2" /\ wk'.k >= 3))
               => OwnFrame,
           pc'[Worker] \in {"wkBegin1", "wkJoin", "wkBegin2"}
               => pc[Worker] \in {"wkBegin1", "wkJoin", "wkBegin2"}
    PROVE  Bytes'
<1>1. LineOwn' /\ (OwnChunk => OwnChunk') /\ (OwnFrame => OwnFrame')
      /\ (Current' <=> Current)
  BY KeptParts DEF SameChunk
<1>2. SnapshotUp'
  BY <1>1, WorkerFields
     DEF Fresh, SnapshotUp, Outside, SameLine, SameChunk, Framed, LineTaken
<1>3. BatchOwn' /\ ChunkOwn' /\ LineTaken'
  BY <1>1 DEF Fresh, BatchOwn, ChunkOwn, LineTaken, Framed, Outside, SameLine, SameChunk
<1>4. FrameOwn'
  BY <1>1 DEF Fresh, FrameOwn, Outside, SameFrame
<1> QED BY <1>1, <1>2, <1>3, <1>4 DEF Bytes

(* After it the worker goes on with what is left of the chunk, if anything. *)
LEMMA CommandOver ==
    ASSUME IInv, Fresh, Outside, pc[Worker] \in Framed, pc'[Worker] \in {"wkSnap", "wkByte"},
           wk'.line = wk.line, wk'.frameGen = 0, wk'.snapGen = wk.snapGen,
           wk'.admitted = wk.admitted,
           wk'.chunk = wk.chunk \/ (wk'.chunk = <<>> /\ pc'[Worker] = "wkSnap")
    PROVE  Bytes'
<1>1. wk'.line = <<>>
  BY DEF Fresh, LineTaken
<1>2. LineOwn' /\ (Current' <=> Current) /\ (SameChunk /\ OwnChunk => OwnChunk')
  BY <1>1, KeptParts
<1>3. SnapshotUp'
  BY <1>1, <1>2, WorkerFields DEF Fresh, SnapshotUp, Outside, Framed
<1>4. BatchOwn' /\ ChunkOwn' /\ LineTaken' /\ FrameOwn'
  BY <1>1, <1>2
     DEF Fresh, BatchOwn, ChunkOwn, LineTaken, FrameOwn, Executing, Framed, Outside, SameChunk
<1> QED BY <1>2, <1>3, <1>4 DEF Bytes

(* The tests the worker makes, load by load.                                *)
LEMMA Loads ==
    /\ Len(Checks("wkSnap2")) = 4 /\ Len(Checks("wkBatch")) = 7
    /\ Len(Checks("wkByte")) = 6 /\ Len(Checks("wkBegin1")) = 4
    /\ Len(Checks("wkBegin2")) = 4
    /\ Checks("wkSnap2")[1] = "phase" /\ Checks("wkBegin2")[2] = "generation"
    /\ Checks("wkBatch")[1] = "connected" /\ Checks("wkBatch")[2] = "phase"
    /\ Checks("wkBatch")[3] = "generation" /\ Checks("wkBatch")[4] = "rx"
    /\ Checks("wkBatch")[5] = "drained" /\ Checks("wkBatch")[6] = "drained"
    /\ Checks("wkBatch")[7] = "lifecycle"
<1>1. /\ Checks("wkSnap2") = <<"phase", "generation", "rx", "drained">>
      /\ Checks("wkBegin1") = <<"phase", "generation", "rx", "drained">>
      /\ Checks("wkBegin2") = <<"phase", "generation", "rx", "drained">>
      /\ Checks("wkByte") = <<"line", "phase", "generation", "rx", "drained",
                              "lifecycle">>
      /\ Checks("wkBatch") = <<"connected", "phase", "generation", "rx", "drained",
                               "drained", "lifecycle">>
  BY DEF Checks, Session
<1> QED BY <1>1

(* What a passed load of the batch's tests rules out.                       *)
LEMMA BatchLoad ==
    ASSUME IInv, Openers, Fresh, pc[Worker] = "wkBatch", wk.k \in 1..6, ~crossed,
           LoadPasses("wkBatch"), WillDrop
    PROVE  \/ wk.k + 1 <= 6 /\ Marked
           \/ wk.k + 1 <= 4 /\ (InMark \/ Cutting)
           \/ wk.k + 1 <= 3 /\ ~Current
           \/ wk.k + 1 <= 2 /\ (Ending \/ ~wk.admitted)
<1> USE DEF LoadPasses, Passes
<1>1. wk.k = 1 => connected
  BY Loads
<1>2. wk.k = 2 => phase = "OPEN" /\ wk.admitted
  BY Loads
<1>3. wk.k = 3 => Current
  BY Loads DEF Expected, Current
<1>4. wk.k = 4 => rx = RxOpen
  BY Loads
<1>5. wk.k = 6 => ~Pending
  BY Loads
<1>6. Marked => Pending
  BY WorkerFields DEF Marked, Pending
<1>7. pc[Usb] = "mbReg" => ~connected
  BY DEF Openers, Attached
<1>8. Ending => phase # "OPEN"
  BY DEF Openers, ResetShuts
<1>9. Cutting => ~rx.open
  BY DEF Openers, ResetShuts, Cutting
<1>10. InMark => rx.count >= 1
  <2>1. /\ pc[Usb] \in RegLabels => rx.count >= 1
        /\ pc[Coord] \in RegLabels => rx.count >= 1
        /\ pc[Main] \in RegLabels => rx.count >= 1
    BY Inside DEF IInv, InGate
  <2> QED BY <2>1 DEF InMark, RegLabels
<1>11. rx = RxOpen => ~InMark /\ ~Cutting
  BY <1>9, <1>10, RxWords
<1>12. Load = wk.k
  BY DEF Load
<1> QED
  BY <1>1, <1>2, <1>3, <1>4, <1>5, <1>6, <1>7, <1>8, <1>11, <1>12 DEF WillDrop

LEMMA CheckKeepsBytes ==
    ASSUME IInv, Openers, Fresh, Outside, CheckMore
    PROVE  Bytes'
<1>1. PICK l \in CheckLabels : /\ pc[Worker] = l /\ wk.k < Len(Checks(l))
                               /\ LoadPasses(l)
                               /\ wk' = [wk EXCEPT !.k = @ + 1]
                               /\ pc' = pc /\ drained' = drained
  BY DEF CheckMore
<1>2. /\ SameLine /\ SameChunk /\ SameFrame /\ wk'.admitted = wk.admitted
      /\ wk'.k = wk.k + 1 /\ wk.k \in Nat /\ wk'.epoch = wk.epoch
  BY <1>1, TypeParts, Zenon DEF IInv, WkTypes, SameLine, SameChunk, SameFrame
<1>3. LineOwn' /\ (OwnChunk => OwnChunk') /\ (Current' <=> Current)
  BY <1>2, KeptParts DEF SameChunk
<1>4. CASE l = "wkSnap2"
  <2>1. wk'.k >= 2 => Admitting \/ wk.k >= 2
    BY <1>1, <1>2, <1>4, Loads DEF LoadPasses, Passes, Admitting
  <2>2. SnapshotUp'
    BY <1>1, <1>2, <1>3, <1>4, <2>1
       DEF Fresh, SnapshotUp, Outside, SameLine, SameChunk
  <2> QED
    BY <1>1, <1>3, <1>4, <2>2, BetweenBatches DEF Framed, Bytes
<1>5. CASE l = "wkBatch"
  <2>1. SnapshotUp'
    BY <1>1, <1>2, <1>3, <1>5 DEF Fresh, SnapshotUp, Outside, SameLine, SameChunk
  <2>2. ASSUME ~crossed PROVE WillDrop' \/ OwnChunk'
    <3>1. CASE OwnChunk
      BY <1>3, <3>1
    <3>2. CASE WillDrop /\ wk.k \in 1..6
      <4>1. /\ Load' = wk.k + 1 /\ (Marked' <=> Marked)
            /\ wk'.admitted = wk.admitted
        BY <1>1, <1>2, <1>5 DEF Load, Marked, Outside
      <4>2. \/ wk.k + 1 <= 6 /\ Marked
            \/ wk.k + 1 <= 4 /\ (InMark \/ Cutting)
            \/ wk.k + 1 <= 3 /\ ~Current
            \/ wk.k + 1 <= 2 /\ (Ending \/ ~wk.admitted)
        BY <1>1, <1>5, <2>2, <3>2, BatchLoad
      <4> QED BY <1>3, <4>1, <4>2 DEF WillDrop, Outside
    <3>3. wk.k \in 1..6
      <4>1. wk.k < 7
        BY <1>1, <1>5, Loads
      <4>2. wk.k >= 1
        BY DEF Fresh, ChecksRestart
      <4> QED BY <1>2, <4>1, <4>2
    <3> QED BY <1>1, <1>5, <2>2, <3>1, <3>2, <3>3 DEF Fresh, BatchOwn
  <2>3. BatchOwn'
    BY <2>2 DEF BatchOwn, Outside
  <2>4. ChunkOwn' /\ LineTaken' /\ FrameOwn'
    BY <1>1, <1>5 DEF ChunkOwn, LineTaken, FrameOwn, Framed, Executing
  <2> QED BY <1>3, <2>1, <2>3, <2>4 DEF Bytes
<1>6. CASE l = "wkByte"
  <2>1. SnapshotUp'
    BY <1>1, <1>2, <1>3, <1>6 DEF Fresh, SnapshotUp, Outside, SameLine, SameChunk
  <2>2. BatchOwn' /\ ChunkOwn' /\ LineTaken' /\ FrameOwn'
    BY <1>1, <1>2, <1>3, <1>6
       DEF Fresh, BatchOwn, ChunkOwn, LineTaken, FrameOwn, Framed, Executing, Outside,
           SameChunk
  <2> QED BY <1>3, <2>1, <2>2 DEF Bytes
<1>7. CASE l \notin {"wkSnap2", "wkBatch", "wkByte"}
  <2>1. pc[Worker] \in Framed /\ pc'[Worker] = pc[Worker]
    BY <1>1, <1>7 DEF CheckLabels, Framed
  <2>2. ~crossed /\ (Executing' \/ (pc'[Worker] = "wkBegin2" /\ wk'.k >= 3)) => OwnFrame
    <3>1. pc[Worker] = "wkBegin2" /\ wk.k = 2 => wk.frameGen = generation
      BY <1>1, Loads DEF LoadPasses, Passes, Expected
    <3> QED BY <1>1, <1>2, <3>1 DEF Fresh, FrameOwn, Executing
  <2> QED BY <1>2, <2>1, <2>2, InCommand
<1> QED BY <1>4, <1>5, <1>6, <1>7

(* Waiting, and taking the snapshot.                                        *)
LEMMA SnapshotKeepsBytes ==
    ASSUME IInv, Openers, Fresh, Outside,
           \/ WorkerWait \/ SnapshotGeneration \/ SnapshotFirst \/ SnapshotRecheck
           \/ LoadDiscardEpoch
    PROVE  Bytes'
<1>1. pc \in [Proc -> AnyLabel] /\ WkTypes
  BY Fields, TypeParts, Zenon DEF IInv
<1>2. SnapshotUp /\ (SameLine \/ wk'.line = <<>> => LineOwn')
      /\ (wk'.snapGen = wk.snapGen => (Current' <=> Current))
  BY KeptParts DEF Fresh
<1> USE WorkerFields DEF SnapshotUp, Outside
<1>3. CASE WorkerWait
  <2>1. /\ pc[Worker] = "wkWait" /\ pc'[Worker] = "wkSnap"
        /\ wk'.snapGen = wk.snapGen /\ wk'.admitted = wk.admitted
        /\ SameLine \/ (wk'.line = <<>> /\ wk'.frameGen = 0)
    BY <1>1, <1>3 DEF WorkerWait, WkTypes, SameLine
  <2>2. SnapshotUp'
    BY <1>2, <2>1 DEF SameLine
  <2> QED BY <1>2, <2>1, <2>2, BetweenBatches DEF Framed, Bytes
<1>4. CASE SnapshotGeneration
  <2>1. /\ pc[Worker] = "wkSnap" /\ pc'[Worker] = "wkSnap1"
        /\ wk'.snapGen = generation /\ ~wk'.admitted /\ SameLine
    BY <1>1, <1>4 DEF SnapshotGeneration, WkTypes, SameLine
  <2>2. SnapshotUp'
    BY <1>2, <2>1 DEF SameLine
  <2> QED BY <1>2, <2>1, <2>2, BetweenBatches DEF Framed, Bytes
<1>5. CASE SnapshotFirst
  <2>1. /\ pc[Worker] = "wkSnap1" /\ pc'[Worker] \in {"wkSnap2", "wkEpoch"}
        /\ wk' = wk /\ wk.k = 1
    BY <1>1, <1>5 DEF SnapshotFirst, Fresh, ChecksRestart, CheckLabels
  <2>2. SnapshotUp'
    BY <1>2, <2>1 DEF Clearing
  <2> QED BY <1>2, <2>1, <2>2, BetweenBatches DEF Framed, Bytes, SameLine
<1>6. CASE SnapshotRecheck
  <2>1. /\ pc[Worker] = "wkSnap2" /\ pc'[Worker] = "wkEpoch"
        /\ wk'.snapGen = wk.snapGen /\ SameLine
        /\ wk'.admitted => wk.admitted \/ wk.k = 4
    BY <1>1, <1>6, Loads, ZenonT(30) DEF SnapshotRecheck, Passed, Failed, WkTypes, SameLine
  <2>2. SnapshotUp'
    BY <1>2, <2>1 DEF SameLine, Clearing
  <2> QED BY <1>2, <2>1, <2>2, BetweenBatches DEF Framed, Bytes
<1>7. CASE LoadDiscardEpoch
  <2>1. /\ pc[Worker] = "wkEpoch" /\ pc'[Worker] = "wkRead"
        /\ wk'.snapGen = wk.snapGen /\ wk'.admitted = wk.admitted /\ SameLine
    BY <1>1, <1>7 DEF LoadDiscardEpoch, WkTypes, SameLine
  <2>2. SnapshotUp'
    BY <1>2, <2>1 DEF SameLine, Clearing
  <2> QED BY <1>2, <2>1, <2>2, BetweenBatches DEF Framed, Bytes
<1> QED BY <1>3, <1>4, <1>5, <1>6, <1>7

(* Finding the FIFO empty, and dropping what the tests refused.             *)
LEMMA DropKeepsBytes ==
    ASSUME IInv, Openers, Fresh, Outside,
           \/ (ReadChunk /\ pc'[Worker] # "wkReset")
           \/ MarkDrained \/ DropChunk \/ (AdmitBatch /\ pc'[Worker] = "wkSnap")
    PROVE  Bytes'
<1>1. pc \in [Proc -> AnyLabel] /\ WkTypes
  BY Fields, TypeParts, Zenon DEF IInv
<1>2. SnapshotUp /\ (SameLine \/ wk'.line = <<>> => LineOwn')
      /\ (wk'.snapGen = wk.snapGen => (Current' <=> Current))
  BY KeptParts DEF Fresh
<1>3. /\ pc[Worker] \in {"wkRead", "wkDrained", "wkByte", "wkBatch"}
      /\ pc'[Worker] \in {"wkWait", "wkDrained", "wkSnap"} \cup Clearing
      /\ \/ wk'.snapGen = wk.snapGen /\ wk'.admitted = wk.admitted
         \/ wk'.snapGen = 0 /\ ~wk'.admitted
      /\ SameLine \/ (wk'.line = <<>> /\ wk'.frameGen = 0)
      /\ pc'[Worker] = "wkDrained" => pc[Worker] = "wkRead" /\ wk' = wk
  <2> USE DEF WkTypes, SameLine, Clearing
  <2>1. CASE ReadChunk /\ pc'[Worker] # "wkReset"
    BY <1>1, <2>1 DEF ReadChunk
  <2>2. CASE MarkDrained
    BY <1>1, <2>2 DEF MarkDrained
  <2>3. CASE DropChunk
    BY <1>1, <2>3 DEF DropChunk, Failed
  <2>4. CASE AdmitBatch /\ pc'[Worker] = "wkSnap"
    BY <1>1, <2>4 DEF AdmitBatch, Failed
  <2> QED BY <2>1, <2>2, <2>3, <2>4
<1>4. SnapshotUp'
  <2>1. wk'.snapGen <= generation' /\ wk'.frameGen <= generation'
    BY <1>2, <1>3, WorkerFields DEF SnapshotUp, SameLine, Outside
  <2>2. Current' /\ wk'.admitted => Admitting'
    BY <1>2, <1>3 DEF SnapshotUp, Outside
  <2>3. pc'[Worker] = "wkDrained" /\ wk'.line # <<>> => wk'.frameGen <= wk'.snapGen
    BY <1>2, <1>3 DEF SnapshotUp, Clearing
  <2> QED BY <1>3, <2>1, <2>2, <2>3 DEF SnapshotUp, Clearing
<1> QED
  BY <1>2, <1>3, <1>4, BetweenBatches DEF Framed, Bytes, Clearing

(* A chunk that is read is of the current session, or will be dropped.      *)
LEMMA ReadKeepsBytes ==
    ASSUME IInv, Openers, Fresh, Outside, ReadChunk, pc'[Worker] = "wkReset"
    PROVE  Bytes'
<1>1. pc \in [Proc -> AnyLabel] /\ WkTypes
  BY Fields, TypeParts, Zenon DEF IInv
<1>2. /\ SnapshotUp /\ LineOwn /\ FifoOwn
      /\ SameLine => LineOwn'
      /\ wk'.snapGen = wk.snapGen => (Current' <=> Current)
      /\ \A c : Now(c)' <=> Now(c)
  BY KeptParts DEF Fresh
<1>3. /\ pc[Worker] = "wkRead" /\ fifo # <<>> /\ wk'.chunk = fifo /\ SameLine
      /\ wk'.snapGen = wk.snapGen /\ wk'.admitted = wk.admitted /\ drained' = drained
  BY <1>1 DEF ReadChunk, WkTypes, SameLine
<1>4. SnapshotUp'
  BY <1>2, <1>3 DEF SnapshotUp, Outside, SameLine, Clearing
<1>5. ASSUME ~crossed, ~WillDrop' PROVE OwnChunk'
  <2>1. /\ ~Barrier /\ ~Ending /\ Current /\ wk.admitted
    BY <1>2, <1>3, <1>5 DEF WillDrop, Load, Marked, Barrier, Outside
  <2>2. phase = "OPEN" \/ pc[Usb] = "csGen"
    BY <1>2, <2>1 DEF SnapshotUp, Admitting
  <2>3. own.hostOwned /\ generation # 1
    BY <2>2, Fields DEF Openers, Provisional, FirstReset
  <2>4. Same(fifo, generation, host.conn) /\ Arriving
    BY <1>2, <1>3, <1>5, <2>1, <2>3 DEF FifoOwn
  <2>5. Up
    BY <2>2, <2>3, <2>4 DEF Arriving, Up, Openers, Attached, Noting
  <2>6. Now(host.conn) /\ host.conn \in Nat
    BY <2>5, WorkerFields DEF Now
  <2>7. wk.line # <<>> /\ wk.frameGen = wk.snapGen => Same(wk.line, wk.snapGen, host.conn)
    BY <1>2, <1>5, <2>1 DEF LineOwn, Now, Current
  <2>8. Batch(host.conn)'
    BY <1>3, <2>1, <2>4, <2>7 DEF Batch, Same, SameLine, Current, Outside
  <2>9. Now(host.conn)'
    BY <1>2, <2>6 DEF Now, Outside
  <2>10. host'.conn = host.conn
    BY DEF Outside
  <2> QED BY <2>6, <2>8, <2>9, <2>10 DEF OwnChunk
<1>6. BatchOwn'
  BY <1>5 DEF BatchOwn, Outside
<1>7. ChunkOwn' /\ LineTaken' /\ FrameOwn'
  BY DEF ChunkOwn, LineTaken, FrameOwn, Framed, Executing
<1> QED BY <1>2, <1>3, <1>4, <1>6, <1>7 DEF Bytes

LEMMA ResetKeepsBytes ==
    ASSUME IInv, Openers, Fresh, Outside, ResetFramer
    PROVE  Bytes'
<1>1. pc \in [Proc -> AnyLabel] /\ WkTypes
  BY Fields, TypeParts, Zenon DEF IInv
<1>2. /\ pc[Worker] = "wkReset" /\ pc'[Worker] = "wkBatch" /\ SameChunk
      /\ SameLine \/ (wk'.line = <<>> /\ wk'.frameGen = 0)
      /\ wk'.admitted = wk.admitted /\ wk'.k = wk.k /\ wk'.epoch = wk.epoch
      /\ drained' = drained
  BY <1>1 DEF ResetFramer, WkTypes, SameLine, SameChunk
<1>3. LineOwn' /\ (OwnChunk => OwnChunk') /\ (Current' <=> Current)
  BY <1>2, KeptParts DEF SameChunk
<1>4. SnapshotUp'
  BY <1>2, <1>3, WorkerFields
     DEF Fresh, SnapshotUp, Outside, SameLine, SameChunk, Clearing
<1>5. wk.k = 1
  BY <1>2 DEF Fresh, ChecksRestart, CheckLabels
<1>6. WillDrop => WillDrop'
  BY <1>2, <1>3, <1>5 DEF WillDrop, Load, Marked, Outside
<1>7. BatchOwn'
  BY <1>2, <1>3, <1>6 DEF Fresh, BatchOwn, Outside
<1>8. ChunkOwn' /\ LineTaken' /\ FrameOwn'
  BY <1>2 DEF ChunkOwn, LineTaken, FrameOwn, Framed, Executing
<1> QED BY <1>3, <1>4, <1>7, <1>8 DEF Bytes

LEMMA AdmitKeepsBytes ==
    ASSUME IInv, Openers, Fresh, Outside, AdmitBatch, pc'[Worker] # "wkSnap"
    PROVE  Bytes'
<1>1. pc \in [Proc -> AnyLabel] /\ WkTypes
  BY Fields, TypeParts, Zenon DEF IInv
<1>2. /\ pc[Worker] = "wkBatch" /\ pc'[Worker] = "wkByte" /\ SameChunk /\ SameLine
      /\ wk'.admitted = wk.admitted /\ wk.k = 7
  BY <1>1, Loads, ZenonT(30) DEF AdmitBatch, Passed, Failed, WkTypes, SameLine, SameChunk
<1>3. LineOwn' /\ (OwnChunk => OwnChunk') /\ (Current' <=> Current)
  BY <1>2, KeptParts DEF SameChunk
<1>4. SnapshotUp'
  BY <1>2, <1>3, WorkerFields
     DEF Fresh, SnapshotUp, Outside, SameLine, SameChunk, Clearing
<1>5. ~WillDrop
  BY <1>2 DEF WillDrop, Load
<1>6. ChunkOwn'
  BY <1>2, <1>3, <1>5 DEF Fresh, BatchOwn, ChunkOwn, Outside
<1>7. BatchOwn' /\ LineTaken' /\ FrameOwn'
  BY <1>2 DEF BatchOwn, LineTaken, FrameOwn, Framed, Executing
<1> QED BY <1>3, <1>4, <1>6, <1>7 DEF Bytes

(* Framing takes the chunk's bytes, one by one, to the line or the frame.   *)
LEMMA FeedKeepsBytes ==
    ASSUME IInv, Openers, Fresh, Outside, FeedByte
    PROVE  Bytes'
<1> DEFINE b == Head(wk.chunk)
           g == IF wk.line = <<>> THEN wk.snapGen ELSE wk.frameGen
           fed == Append(wk.line, b)
<1>1. pc \in [Proc -> AnyLabel] /\ WkTypes /\ ChunkLeft
  BY Fields, TypeParts, Zenon DEF IInv
<1>2. /\ pc[Worker] = "wkByte" /\ wk'.chunk = Tail(wk.chunk) /\ wk'.frameGen = g
      /\ wk'.snapGen = wk.snapGen /\ wk'.admitted = wk.admitted
      /\ \/ wk'.frame = fed /\ wk'.line = <<>> /\ pc'[Worker] = "wkBegin1"
         \/ wk'.line = fed /\ pc'[Worker] \in {"wkSnap", "wkByte"}
  <2>1. pc[Worker] = "wkByte"
    BY DEF FeedByte, Passed
  <2>2. CASE b.kind = "newline"
    BY <1>1, <2>1, <2>2, ZenonT(30) DEF FeedByte, WkTypes
  <2>3. CASE b.kind # "newline"
    BY <1>1, <2>1, <2>3, ZenonT(30) DEF FeedByte, NextByte, WkTypes
  <2> QED BY <2>2, <2>3
<1>3. wk.chunk \in Seq(Byte) /\ wk.chunk # <<>> /\ wk.line \in Seq(Byte)
  BY <1>1, <1>2, WorkerFields DEF ChunkLeft
<1>4. /\ SnapshotUp /\ (Current' <=> Current) /\ \A c : Now(c)' <=> Now(c)
      /\ wk'.line = <<>> => LineOwn'
  BY <1>2, KeptParts DEF Fresh
<1>5. /\ g <= wk.snapGen /\ g <= generation
      /\ g = generation => g = wk.snapGen /\ Current
  <2>1. wk.snapGen <= generation /\ (wk.line # <<>> => wk.frameGen <= wk.snapGen)
    BY <1>2, <1>4 DEF SnapshotUp, Clearing
  <2> QED BY <2>1, WorkerFields, SMTT(30) DEF Current
<1>6. SnapshotUp'
  BY <1>2, <1>4, <1>5 DEF SnapshotUp, Outside
<1>7. ASSUME ~crossed
      PROVE  \E c \in Nat : /\ Same(Tail(wk.chunk), wk.snapGen, c)
                            /\ g = wk.snapGen => Same(fed, wk.snapGen, c)
                            /\ Current => Now(c)
  <2>1. PICK c \in Nat : Batch(c) /\ (Current => Now(c))
    BY <1>2, <1>3, <1>7 DEF Fresh, ChunkOwn, OwnChunk
  <2>2. /\ b \in Byte /\ b.gen = wk.snapGen /\ b.conn = c
        /\ Same(Tail(wk.chunk), wk.snapGen, c)
    BY <1>3, <2>1, SameHead DEF Batch
  <2>3. g = wk.snapGen => Same(wk.line, wk.snapGen, c)
    BY <2>1, SameEmpty DEF Batch
  <2>4. g = wk.snapGen => Same(fed, wk.snapGen, c)
    <3> HIDE DEF b
    <3> QED BY <1>3, <2>2, <2>3, SameAppend
  <2> QED BY <2>1, <2>2, <2>4
<1> HIDE DEF b, g, fed
<1>8. CASE wk'.frame = fed /\ wk'.line = <<>> /\ pc'[Worker] = "wkBegin1"
  <2>1. ChunkOwn'
    <3> SUFFICES ASSUME ~crossed PROVE OwnChunk'
      BY DEF ChunkOwn, Outside
    <3>1. PICK c \in Nat : /\ Same(Tail(wk.chunk), wk.snapGen, c)
                           /\ Current => Now(c)
      BY <1>7
    <3>2. Batch(c)'
      BY <1>2, <1>8, <3>1 DEF Batch, Same
    <3> QED BY <1>4, <3>1, <3>2 DEF OwnChunk
  <2>2. FrameOwn'
    <3> SUFFICES ASSUME ~crossed, g = generation PROVE OwnFrame'
      BY <1>2, <1>8 DEF FrameOwn, Outside, Executing
    <3>1. PICK c \in Nat : Same(fed, wk.snapGen, c)
      BY <1>5, <1>7
    <3> QED BY <1>2, <1>5, <1>8, <3>1 DEF OwnFrame, Same
  <2>3. BatchOwn' /\ LineTaken'
    BY <1>8 DEF BatchOwn, LineTaken
  <2> QED BY <1>4, <1>6, <1>8, <2>1, <2>2, <2>3 DEF Bytes
<1>9. CASE wk'.line = fed /\ pc'[Worker] \in {"wkSnap", "wkByte"}
  <2>1. LineOwn'
    <3> SUFFICES ASSUME ~crossed, g = generation
                 PROVE  \E c \in Nat : Same(wk.line, wk.frameGen, c)' /\ Now(c)'
      BY <1>2 DEF LineOwn, Outside, Same
    <3>1. PICK c \in Nat : Same(fed, wk.snapGen, c) /\ Now(c)
      BY <1>5, <1>7
    <3> QED BY <1>2, <1>4, <1>5, <1>9, <3>1 DEF Same
  <2>2. ChunkOwn'
    <3> SUFFICES ASSUME ~crossed PROVE OwnChunk'
      BY DEF ChunkOwn, Outside
    <3>1. PICK c \in Nat : /\ Same(Tail(wk.chunk), wk.snapGen, c)
                           /\ g = wk.snapGen => Same(fed, wk.snapGen, c)
                           /\ Current => Now(c)
      BY <1>7
    <3>2. Batch(c)'
      BY <1>2, <1>9, <3>1 DEF Batch, Same
    <3> QED BY <1>4, <3>1, <3>2 DEF OwnChunk
  <2>3. BatchOwn' /\ LineTaken' /\ FrameOwn'
    BY <1>9 DEF BatchOwn, LineTaken, FrameOwn, Framed, Executing
  <2> QED BY <1>6, <2>1, <2>2, <2>3 DEF Bytes
<1> QED BY <1>2, <1>8, <1>9

(* From the test of a command to the point where its response is out.       *)
LEMMA CommandKeepsBytes ==
    ASSUME IInv, Openers, Fresh, Outside,
           \/ CommandBegin \/ CommandJoin \/ CommandRecheck \/ CommandLeave
           \/ ProcessLine \/ WriteResponse \/ ResponseComplete \/ CommandEnd
           \/ SignalRelease \/ AfterCommand
    PROVE  Bytes'
<1>1. pc \in [Proc -> AnyLabel] /\ WkTypes
  BY Fields, TypeParts, Zenon DEF IInv
<1> DEFINE Held == /\ SameLine /\ SameChunk /\ SameFrame
                   /\ wk'.admitted = wk.admitted
           Over == /\ pc[Worker] \in Framed /\ pc'[Worker] \in {"wkSnap", "wkByte"}
                   /\ wk'.line = wk.line /\ wk'.frameGen = 0
                   /\ wk'.snapGen = wk.snapGen /\ wk'.admitted = wk.admitted
                   /\ \/ wk'.chunk = wk.chunk
                      \/ wk'.chunk = <<>> /\ pc'[Worker] = "wkSnap"
           Runs == /\ pc[Worker] \in ExecLabels
                   /\ pc'[Worker] \in ExecLabels \cup {"wkSignal"} /\ Held
<1>2. Over => Bytes'
  BY CommandOver
<1>3. Runs => Bytes'
  BY InCommand DEF Fresh, FrameOwn, Executing, ExecLabels, Framed
<1>4. CASE CommandBegin
  <2>1. \/ /\ pc[Worker] = "wkBegin1" /\ pc'[Worker] = "wkJoin" /\ Held
        \/ Over
    BY <1>1, <1>4 DEF CommandBegin, DropFrame, NextByte, Passed, Failed, WkTypes, SameLine,
                      SameChunk, SameFrame, Framed
  <2>2. ASSUME pc[Worker] = "wkBegin1", pc'[Worker] = "wkJoin", Held PROVE Bytes'
    BY <2>2, InCommand DEF Framed, Executing
  <2> QED BY <1>2, <2>1, <2>2
<1>5. CASE CommandJoin
  <2>1. /\ pc[Worker] = "wkJoin" /\ pc'[Worker] = "wkBegin2" /\ wk' = wk /\ wk.k = 1
    BY <1>1, <1>5 DEF CommandJoin, Fresh, ChecksRestart, CheckLabels
  <2>2. Held
    BY <2>1 DEF SameLine, SameChunk, SameFrame
  <2> QED BY <2>1, <2>2, InCommand DEF Framed, Executing
<1>6. CASE CommandRecheck
  <2>1. /\ pc[Worker] = "wkBegin2" /\ Held
        /\ pc'[Worker] = "wkLeave" \/ (pc'[Worker] = "wkExec" /\ wk.k = 4)
    BY <1>1, <1>6, Loads, ZenonT(30) DEF CommandRecheck, Passed, Failed, WkTypes, SameLine, SameChunk,
                             SameFrame
  <2>2. pc'[Worker] = "wkExec" /\ ~crossed => OwnFrame
    BY <2>1 DEF Fresh, FrameOwn
  <2> QED BY <2>1, <2>2, InCommand DEF Framed, Executing
<1>7. CASE CommandLeave
  <2>1. Over
    BY <1>1, <1>7 DEF CommandLeave, DropFrame, NextByte, WkTypes, Framed
  <2> QED BY <1>2, <2>1
<1>8. CASE ProcessLine \/ ResponseComplete \/ CommandEnd
  <2>1. Runs
    BY <1>1, <1>8, ZenonT(30) DEF ProcessLine, ResponseComplete, CommandEnd, Passed, WkTypes, SameLine,
                      SameChunk, SameFrame, ExecLabels
  <2> QED BY <1>3, <2>1
<1>9. CASE WriteResponse
  <2>1. Runs
    BY <1>1, <1>9 DEF WriteResponse, Fail, Passed, Failed, WkTypes, SameLine, SameChunk,
                      SameFrame, ExecLabels
  <2> QED BY <1>3, <2>1
<1>10. CASE SignalRelease
  <2>1. pc[Worker] = "wkSignal" /\ pc'[Worker] = "wkAdmit" /\ wk' = wk
    BY <1>1, <1>10 DEF SignalRelease
  <2>2. Held
    BY <2>1 DEF SameLine, SameChunk, SameFrame
  <2> QED BY <2>1, <2>2, InCommand DEF Framed, Executing
<1>11. CASE AfterCommand
  <2>1. Over
    BY <1>1, <1>11 DEF AfterCommand, NextByte, WkTypes, Framed
  <2> QED BY <1>2, <2>1
<1> QED BY <1>4, <1>5, <1>6, <1>7, <1>8, <1>9, <1>10, <1>11

LEMMA WorkerKeepsFresh ==
    ASSUME IInv, Openers, Fresh, WorkerTask
    PROVE  Fresh'
<1>1. Outside /\ EpochsBound' /\ ChecksRestart' /\ NotReady' /\ FifoOwn'
  BY WorkerOutside, CountsKeepFifo
<1>2. Bytes'
  <2>1. CASE CheckMore
    BY <1>1, <2>1, CheckKeepsBytes
  <2>2. CASE \/ WorkerWait \/ SnapshotGeneration \/ SnapshotFirst \/ SnapshotRecheck
             \/ LoadDiscardEpoch
    BY <1>1, <2>2, SnapshotKeepsBytes
  <2>3. CASE ReadChunk \/ MarkDrained \/ DropChunk \/ AdmitBatch
    BY <1>1, <2>3, ReadKeepsBytes, DropKeepsBytes, AdmitKeepsBytes
  <2>4. CASE ResetFramer
    BY <1>1, <2>4, ResetKeepsBytes
  <2>5. CASE FeedByte
    BY <1>1, <2>5, FeedKeepsBytes
  <2>6. CASE \/ CommandBegin \/ CommandJoin \/ CommandRecheck \/ CommandLeave
             \/ ProcessLine \/ WriteResponse \/ ResponseComplete \/ CommandEnd
             \/ SignalRelease \/ AfterCommand
    BY <1>1, <2>6, CommandKeepsBytes
  <2> QED BY <2>1, <2>2, <2>3, <2>4, <2>5, <2>6 DEF WorkerTask
<1> QED BY <1>1, <1>2, Zenon DEF Fresh, Bytes

(* The worker after a drain, inside the gate's ClearDirty.                  *)
LEMMA DrainKeepsFresh ==
    ASSUME IInv, Openers, Fresh, ClearDirty(Worker)
    PROVE  Fresh'
<1>1. ClearEffect(Worker) /\ Keeps /\ phase' = phase /\ Alone(Worker)
  BY ClearDoes
<1>2. /\ pc[Worker] \in Clearing /\ pc'[Worker] \in Clearing \cup {"wkWait"}
      /\ discard' = discard
  BY <1>1, Fields DEF ClearEffect, ReturnsHome
<1>3. Still(Usb) /\ Still(Coord) /\ Still(Main)
  BY <1>1, Others
<1>4. /\ UNCHANGED <<generation, crossed, workerUp, acmReady, host, fifo, wk, drained>>
  BY <1>1 DEF Keeps
<1>5. /\ (InMark' <=> InMark) /\ (Cutting' <=> Cutting) /\ (Ending' <=> Ending)
      /\ (Admitting' <=> Admitting) /\ (Up' <=> Up) /\ (Arriving' <=> Arriving)
  BY <1>1, <1>3, <1>4 DEF InMark, Cutting, Ending, Admitting, Up, Arriving, Released, Still
<1>6. EpochsBound' /\ ChecksRestart' /\ NotReady'
  <2>1. pc[Worker] \notin CheckLabels /\ pc[Worker] # "wkWait" /\ pc[Worker] \notin Unread
    BY <1>2 DEF CheckLabels, Clearing, Unread
  <2>2. wk.k = 1 /\ pc[Main] # "msCreate" /\ acmReady
    BY <2>1 DEF Fresh, ChecksRestart, NotReady
  <2> QED
    BY <1>2, <1>3, <1>4, <2>2 DEF Fresh, EpochsBound, ChecksRestart, NotReady, Still
<1>7. FifoOwn'
  <2>1. Marked => Marked'
    BY <1>2, <1>4 DEF Marked, Clearing
  <2>2. Barrier => Barrier'
    BY <1>3, <1>5, <2>1 DEF Barrier, Still
  <2> QED BY <1>4, <1>5, <2>2 DEF Fresh, FifoOwn, Same
<1>8. SnapshotUp'
  BY <1>2, <1>4, <1>5 DEF Fresh, SnapshotUp, Current, Clearing
<1>9. LineOwn'
  BY <1>4, <1>5 DEF Fresh, LineOwn, Same, Now
<1> QED
  BY <1>2, <1>6, <1>7, <1>8, <1>9, BetweenBatches DEF Fresh, Framed, Clearing

LEMMA StutterFresh == ASSUME Fresh, UNCHANGED vars PROVE Fresh'
<1> USE DEF Fresh
<1>1. EpochsBound' /\ ChecksRestart' /\ NotReady' /\ LineTaken'
  BY DEF EpochsBound, ChecksRestart, NotReady, Cutting, LineTaken
<1>2. /\ (InMark' <=> InMark) /\ (Cutting' <=> Cutting) /\ (Ending' <=> Ending)
      /\ (Admitting' <=> Admitting) /\ (Up' <=> Up) /\ (Arriving' <=> Arriving)
  BY DEF InMark, Cutting, Ending, Admitting, Up, Arriving, Released
<1>3. FifoOwn'
  BY <1>2 DEF FifoOwn, Barrier, Marked, Same
<1>4. SnapshotUp' /\ LineOwn' /\ (OwnChunk => OwnChunk')
  BY <1>2 DEF SnapshotUp, Current, LineOwn, Same, Now, OwnChunk, Batch
<1>5. BatchOwn' /\ ChunkOwn'
  BY <1>2, <1>4 DEF BatchOwn, ChunkOwn, WillDrop, Load, Marked, Current
<1>6. FrameOwn'
  BY DEF FrameOwn, OwnFrame, Same, Executing
<1> QED BY <1>1, <1>3, <1>4, <1>5, <1>6

LEMMA InitFresh == ASSUME Init PROVE Fresh
<1>1. /\ pc[Main] = "msCreate" /\ pc[Worker] = "wkWait" /\ ~workerUp /\ fifo = <<>>
      /\ generation = 1 /\ discard = 0 /\ drained = 0 /\ wk.k = 1 /\ wk.epoch = 0
      /\ wk.snapGen = 0 /\ wk.frameGen = 0 /\ wk.line = <<>> /\ ~wk.admitted
  BY DEF Init, StartState
<1>2. EpochsBound /\ ChecksRestart /\ NotReady /\ FifoOwn /\ SnapshotUp /\ LineOwn
  BY <1>1 DEF EpochsBound, ChecksRestart, NotReady, FifoOwn, SnapshotUp, LineOwn, Unread
<1>3. BatchOwn /\ ChunkOwn /\ LineTaken /\ FrameOwn
  BY <1>1 DEF BatchOwn, ChunkOwn, LineTaken, FrameOwn, Framed, Executing
<1> QED BY <1>2, <1>3 DEF Fresh

-----------------------------------------------------------------------------
(* Where bytes of an earlier session can be, in every interleaving: in the  *)
(* FIFO behind a barrier, in a chunk the tests will drop, or in a line      *)
(* whose generation has passed.                                             *)
THEOREM StaleBytesAreBarred == Spec => [](IInv /\ Openers /\ Fresh)
<1>1. Init => IInv /\ Openers /\ Fresh
  BY InitIInv, InitOpeners, InitFresh
<1>2. IInv /\ Openers /\ Fresh /\ [Next]_vars => Openers' /\ Fresh'
  <2> SUFFICES ASSUME IInv, Openers, Fresh, [Next]_vars PROVE Openers' /\ Fresh'
    OBVIOUS
  <2>1. Openers'
    BY OpenersHold
  <2>2. CASE UNCHANGED vars
    BY <2>1, <2>2, StutterFresh
  <2>3. CASE AroundStep
    BY <2>1, <2>3, AroundStepKeepsFresh
  <2>4. CASE WorkerTask
    BY <2>1, <2>4, WorkerKeepsFresh
  <2>5. CASE ClearDirty(Worker)
    BY <2>1, <2>5, DrainKeepsFresh
  <2> QED BY <2>2, <2>3, <2>4, <2>5, Zenon DEF Next, AroundStep
<1> QED BY <1>1, <1>2, SessionInvariant, PTL DEF Spec

(* usb_cdc_protocol.c and usb_cdc_session_gate.c: a command that executes   *)
(* is made of bytes that reached the FIFO in the generation it executes in  *)
(* and over one physical connection, however cutoffs, callbacks and opens   *)
(* interleave, unless a late start of the interface crosses an open or a    *)
(* reset of the coordinator.                                                *)
THEOREM CommandsAreFresh == Spec => []NoStaleCommand
<1>1. IInv /\ Openers /\ Fresh => NoStaleCommand
  <2> SUFFICES ASSUME IInv, Fresh, Executing, ~crossed PROVE OwnBytes
    BY DEF NoStaleCommand
  <2>1. PICK c \in Nat : Same(wk.frame, wk.frameGen, c)
    BY DEF Fresh, FrameOwn, OwnFrame
  <2>2. \A i \in 1..Len(wk.frame) : 1 \in 1..Len(wk.frame)
    BY WorkerFields
  <2> QED BY <2>1, <2>2 DEF OwnBytes, Same
<1> QED BY <1>1, StaleBytesAreBarred, PTL
=============================================================================
