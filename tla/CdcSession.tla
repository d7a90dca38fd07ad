------------------------------ MODULE CdcSession ------------------------------
(***************************************************************************)
(* The CDC command session of the recorder: the lock-free session gate     *)
(* (usb_cdc_session_gate.c), the worker that frames and executes commands  *)
(* (usb_cdc_protocol.c, usb_cdc_tx.c) and the three contexts that open and *)
(* cut sessions: the TinyUSB task's callbacks, the recorder's USB          *)
(* coordinator (rec_usb) and the main task's late start.                   *)
(*                                                                         *)
(* Every atomic access of the gate is a step of its own.  A                *)
(* compare-exchange loop that retries until it succeeds is one step, and   *)
(* two plain stores nobody can tell apart are one step.                    *)
(***************************************************************************)
EXTENDS Naturals, Sequences, FiniteSets

CONSTANTS
    Commands,       \* the commands the host sends
    MaxBytes,       \* bytes the host sends
    MaxConn,        \* physical connections after the provisional one
    MaxLineState    \* DTR/RTS changes

ASSUME CommandsAssumption == Commands \subseteq {"SET_TIME", "RELEASE_STORAGE"}
ASSUME BoundsAssumption == {MaxBytes, MaxConn, MaxLineState} \subseteq Nat

Usb    == "usb"     \* the TinyUSB task
Coord  == "coord"   \* rec_usb, the recorder's USB coordinator
Main   == "main"    \* app_main, which starts the CDC interface
Worker == "worker"  \* cdc_json
Proc   == {Usb, Coord, Main, Worker}

VARIABLES
    phase,          \* gate: lifecycle phase
    generation,     \* gate: session generation
    active,         \* gate: commands executing
    rx,             \* gate: the RX admission word
    discard,        \* gate: rx_discard_epoch
    drained,        \* gate: rx_drained_epoch
    cut,            \* history: the generation the last reset began
    crossed,        \* history: two contexts opened at once, see Crosses
    connected,      \* s_connected
    resetLine,      \* s_reset_line
    openRequested,  \* s_open_requested
    workerUp,       \* s_worker # NULL
    acmReady,       \* tinyusb_cdcacm_init() has run
    notified,       \* the worker's task notification
    host,           \* the host side: its connection, what it may still do
    own,            \* usb_msc_ownership.c: what the session depends on
    fifo,           \* TinyUSB's CDC receive FIFO
    wk,             \* the worker's locals
    seen,           \* a context's loaded rx_discard_epoch
    pc, ret         \* where each context is, and where its call returns

past  == <<cut, crossed>>
gate  == <<phase, generation, active, rx, discard, drained, past>>
flags == <<connected, resetLine, openRequested, workerUp, acmReady, notified>>
env   == <<host, own, fifo>>
vars  == <<gate, flags, env, wk, seen, pc, ret>>

-----------------------------------------------------------------------------
(* The RX admission word: three flag bits and a count of callbacks that     *)
(* are classifying themselves.                                              *)
RxWord == [open : BOOLEAN, opening : BOOLEAN, dirty : BOOLEAN, count : Nat]

Word(o, g, d) == [open |-> o, opening |-> g, dirty |-> d, count |-> 0]
RxZero    == Word(FALSE, FALSE, FALSE)
RxOpening == Word(FALSE, TRUE, FALSE)
RxOpen    == Word(TRUE, FALSE, FALSE)
RxDirty   == Word(FALSE, FALSE, TRUE)

Pending == discard # drained

(* A byte carries where it came from: the generation and the physical       *)
(* connection at the moment it reached the FIFO.  A line is a head, which   *)
(* names the command, and a newline.                                        *)
Kinds == Commands \cup {"newline"}
Byte  == [kind : Kinds, gen : Nat, conn : Nat]

Events == {"FAILED", "ATTACH", "HOST_OWNED", "HOST_REATTACHED",
           "RELEASE_REQUESTED"}

-----------------------------------------------------------------------------
StartState ==
    /\ phase = "CLOSED" /\ generation = 1 /\ active = 0
    /\ rx = RxZero /\ discard = 0 /\ drained = 0
    /\ cut = 1 /\ crossed = FALSE
    /\ connected = FALSE /\ resetLine = FALSE /\ openRequested = FALSE
    /\ workerUp = FALSE /\ acmReady = FALSE /\ notified = FALSE
    /\ own = [hostOwned |-> FALSE, detached |-> FALSE, release |-> FALSE,
              waiting |-> FALSE, events |-> {"ATTACH"}, error |-> FALSE,
              job |-> "none"]
    /\ fifo = <<>>
    /\ wk = [snapGen |-> 0, admitted |-> FALSE, epoch |-> 0, chunk |-> <<>>,
             line |-> <<>>, frame |-> <<>>, frameGen |-> 0, k |-> 1,
             accepted |-> FALSE, complete |-> FALSE]
    /\ seen = [p \in Proc |-> 0]
    /\ pc = [p \in Proc |-> IF p = Main THEN "msCreate"
                            ELSE IF p = Worker THEN "wkWait" ELSE "idle"]
    /\ ret = [p \in Proc |-> "idle"]

(* A host that has used up this much of its bounds.                         *)
Host(c, s, l) == [attached |-> TRUE, conn |-> c, sent |-> s, lines |-> l]
Init == StartState /\ host = Host(0, 0, 0)

At(p, l)      == pc[p] = l
Go(p, l)      == pc' = [pc EXCEPT ![p] = l] /\ UNCHANGED ret
Call(p, l, r) == pc' = [pc EXCEPT ![p] = l] /\ ret' = [ret EXCEPT ![p] = r]
Return(p)     == Call(p, ret[p], "idle")

OnlyRx(w) == /\ rx' = w
             /\ UNCHANGED <<phase, generation, active, discard, drained, past>>
NextEpoch == /\ discard' = discard + 1
             /\ UNCHANGED <<phase, generation, active, rx, drained, past>>
OnlyPhase(f) == /\ phase' = f
                /\ UNCHANGED <<generation, active, rx, discard, drained, past>>
NextGeneration == /\ generation' = generation + 1
                  /\ UNCHANGED <<phase, active, rx, discard, drained, crossed>>
OnlyActive(n) == /\ active' = n
                 /\ UNCHANGED <<phase, generation, rx, discard, drained, past>>
NoData == UNCHANGED <<flags, env, wk, seen>>
-----------------------------------------------------------------------------
(* The gate's primitives, each called by several contexts.  The count field *)
(* has 29 bits and AdmissionIsExact bounds it by 3, so the branches for a   *)
(* saturated count cannot be taken and are left out.                        *)

(* gate_try_clear_rx_dirty: retire DIRTY once nothing is left to drain.     *)
ClearLoad(p) ==
    /\ At(p, "tcLoad")
    /\ IF rx = RxDirty THEN Go(p, "tcEpoch") ELSE Return(p)
    /\ NoData /\ UNCHANGED gate

ClearEpoch(p) ==
    /\ At(p, "tcEpoch")
    /\ seen' = [seen EXCEPT ![p] = discard]
    /\ Go(p, "tcPending")
    /\ UNCHANGED <<gate, flags, env, wk>>

ClearPending(p) ==
    /\ At(p, "tcPending")
    /\ IF seen[p] = drained THEN Go(p, "tcCas") ELSE Return(p)
    /\ seen' = [seen EXCEPT ![p] = 0]
    /\ UNCHANGED <<gate, flags, env, wk>>

ClearCas(p) ==
    /\ At(p, "tcCas")
    /\ \/ rx = RxDirty /\ OnlyRx(RxZero) /\ Return(p)
       \/ rx # RxDirty /\ UNCHANGED gate /\ Go(p, "tcLoad")
    /\ NoData

(* gate_cancel_rx_opening and gate_close_rx_admission.                      *)
CancelOpening(p) ==
    /\ At(p, "coCas")
    /\ \/ ~rx.opening /\ UNCHANGED gate /\ Return(p)
       \/ rx.opening /\ OnlyRx([rx EXCEPT !.opening = FALSE]) /\ Go(p, "tcLoad")
    /\ NoData

CloseRxAdmission(p) ==
    /\ At(p, "caCas")
    /\ \/ ~rx.open /\ ~rx.opening /\ UNCHANGED gate /\ Return(p)
       \/ /\ rx.open \/ rx.opening
          /\ OnlyRx([rx EXCEPT !.open = FALSE, !.opening = FALSE])
          /\ Go(p, "tcLoad")
    /\ NoData

(* gate_mark_rx_boundary_stale: a synthetic callback that also shuts the    *)
(* admission.                                                               *)
BoundaryRegister(p) ==
    /\ At(p, "mbReg")
    /\ OnlyRx([open |-> FALSE, opening |-> FALSE, dirty |-> TRUE,
               count |-> rx.count + 1])
    /\ Go(p, "mbEpoch") /\ NoData

BoundaryEpoch(p) == At(p, "mbEpoch") /\ NextEpoch /\ Go(p, "mbDone") /\ NoData

BoundaryDone(p) ==
    /\ At(p, "mbDone")
    /\ OnlyRx([rx EXCEPT !.count = @ - 1])
    /\ Go(p, "tcLoad") /\ NoData

(* usb_cdc_session_gate_note_rx: a callback classifies its bytes.           *)
NoteRegister(p) ==
    /\ At(p, "nrReg")
    /\ \/ rx = RxOpen /\ UNCHANGED gate /\ Return(p)
       \/ rx # RxOpen /\ OnlyRx([rx EXCEPT !.count = @ + 1]) /\ Go(p, "nrEpoch")
    /\ NoData

NoteEpoch(p) == At(p, "nrEpoch") /\ NextEpoch /\ Go(p, "nrDirty") /\ NoData

NoteDirty(p) ==
    /\ At(p, "nrDirty")
    /\ OnlyRx([rx EXCEPT !.dirty = TRUE])
    /\ Go(p, "nrDone") /\ NoData

(* Faulty variant: the registration is returned twice.                      *)
NoteDoneTwice(p) == /\ At(p, "nrDone")
                    /\ OnlyRx([rx EXCEPT !.count = @ - 2])
                    /\ Return(p) /\ NoData

NoteDone(p) ==
    /\ At(p, "nrDone")
    /\ OnlyRx([rx EXCEPT !.count = @ - 1])
    /\ Return(p) /\ NoData

ClearDirty(p) == ClearLoad(p) \/ ClearEpoch(p) \/ ClearPending(p) \/ ClearCas(p)
Boundary(p)   == BoundaryRegister(p) \/ BoundaryEpoch(p) \/ BoundaryDone(p)
NoteRx(p)     == NoteRegister(p) \/ NoteEpoch(p) \/ NoteDirty(p) \/ NoteDone(p)

-----------------------------------------------------------------------------
(* usb_cdc_protocol_open_session and the usb_cdc_session_gate_open it       *)
(* retries; a failed attempt is a return to "osNotify".                     *)
After(p) == IF p = Main THEN "done" ELSE "idle"

OpenRequest(p) ==
    /\ At(p, "osRequest")
    /\ openRequested' = TRUE /\ resetLine' = TRUE
    /\ notified' = (notified \/ workerUp)
    /\ Go(p, IF workerUp THEN "osLoop" ELSE After(p))
    /\ UNCHANGED <<gate, connected, workerUp, acmReady, env, wk, seen>>

OpenLoop(p) ==
    /\ At(p, "osLoop")
    /\ IF openRequested THEN Go(p, "opPhase") ELSE Go(p, After(p))
    /\ NoData /\ UNCHANGED gate

(* Notifying a worker whose start failed is an assertion failure.           *)
OpenRetry(p) ==
    /\ At(p, "osNotify") /\ workerUp
    /\ notified' = TRUE
    /\ Go(p, "osLoop")
    /\ UNCHANGED <<gate, connected, resetLine, openRequested, workerUp, acmReady,
                   env, wk, seen>>

OpenPhase(p) ==
    /\ At(p, "opPhase")
    /\ Go(p, IF phase = "RESETTING" THEN "osNotify"
             ELSE IF phase = "OPEN" THEN "opRx" ELSE "opReserve")
    /\ NoData /\ UNCHANGED gate

OpenAlready(p) ==
    /\ At(p, "opRx")
    /\ Go(p, IF rx = RxOpen THEN "opEpoch" ELSE "opReserve")
    /\ NoData /\ UNCHANGED gate

OpenEpoch(p) ==
    /\ At(p, "opEpoch")
    /\ seen' = [seen EXCEPT ![p] = discard]
    /\ Go(p, "opPending")
    /\ UNCHANGED <<gate, flags, env, wk>>

OpenPending(p) ==
    /\ At(p, "opPending")
    /\ Go(p, IF seen[p] = drained THEN After(p) ELSE "osNotify")
    /\ seen' = [seen EXCEPT ![p] = 0]
    /\ UNCHANGED <<gate, flags, env, wk>>

OpenReserve(p) ==
    /\ At(p, "opReserve")
    /\ \/ rx = RxZero /\ OnlyRx(RxOpening) /\ Go(p, "opEnter")
       \/ rx # RxZero /\ UNCHANGED gate /\ Go(p, "osNotify")
    /\ NoData

OpenEnter(p) ==
    /\ At(p, "opEnter")
    /\ \/ phase = "CLOSED" /\ OnlyPhase("OPEN") /\ Go(p, "opRecheck")
       \/ phase = "OPEN" /\ UNCHANGED gate /\ Go(p, "opRecheck")
       \/ phase = "RESETTING" /\ UNCHANGED gate /\ Call(p, "coCas", "osNotify")
    /\ NoData

OpenRecheck(p) ==
    /\ At(p, "opRecheck")
    /\ IF phase = "OPEN" THEN Go(p, "opPublish") ELSE Call(p, "coCas", "osNotify")
    /\ NoData /\ UNCHANGED gate

(* The main task's open races the coordinator: it publishes between the end *)
(* of a reset and the callback that marks what that reset cut off, or one   *)
(* of the two publishes the other's reservation, for which the phase is not *)
(* OPEN yet.                                                                *)
Crosses(p) ==
    \/ p = Main /\ At(Coord, "nrReg")
    \/ phase = "CLOSED" /\ \E q \in {Coord, Main} \ {p} : At(q, "opEnter")

(* Faulty variant: a callback that registered meanwhile is missed.          *)
OpenOver(p) == /\ At(p, "opPublish")
               /\ OnlyRx([rx EXCEPT !.opening = FALSE, !.open = TRUE])
               /\ Go(p, "opRevoke") /\ NoData

OpenPublish(p) ==
    /\ At(p, "opPublish")
    /\ \/ /\ rx = RxOpening /\ rx' = RxOpen /\ Go(p, "opRevoke")
          /\ crossed' = (crossed \/ Crosses(p))
          /\ UNCHANGED <<phase, generation, active, discard, drained, cut>>
       \/ rx # RxOpening /\ UNCHANGED gate /\ Call(p, "coCas", "osNotify")
    /\ NoData

OpenRevoke(p) ==
    /\ At(p, "opRevoke")
    /\ IF phase = "OPEN" THEN Go(p, After(p)) ELSE Call(p, "mbReg", "osNotify")
    /\ NoData /\ UNCHANGED gate

Open(p) ==
    \/ OpenRequest(p) \/ OpenLoop(p) \/ OpenRetry(p)
    \/ OpenPhase(p) \/ OpenAlready(p) \/ OpenEpoch(p) \/ OpenPending(p)
    \/ OpenReserve(p) \/ OpenEnter(p) \/ OpenRecheck(p) \/ OpenPublish(p)
    \/ OpenRevoke(p)

(* usb_cdc_protocol_start on the main task: the interface may start after   *)
(* HOST_OWNED has already asked for a session.                              *)
StartWorker ==
    /\ At(Main, "msCreate")
    /\ workerUp' = TRUE
    /\ Go(Main, "msInit")
    /\ UNCHANGED <<gate, connected, resetLine, openRequested, acmReady, notified,
                   env, wk, seen>>

StartAcm ==
    /\ At(Main, "msInit")
    /\ acmReady' = TRUE
    /\ Go(Main, "msOpen")
    /\ UNCHANGED <<gate, connected, resetLine, openRequested, workerUp, notified,
                   env, wk, seen>>

(* Neither the worker nor the interface is there after a failed start, and  *)
(* app_main raises ERROR.                                                   *)
StartFails ==
    /\ At(Main, "msCreate") \/ At(Main, "msInit")
    /\ workerUp' = FALSE
    /\ own' = [own EXCEPT !.error = TRUE]
    /\ pc' = [pc EXCEPT ![Main] = "done", ![Worker] = "wkWait"]
    /\ UNCHANGED <<gate, connected, resetLine, openRequested, acmReady, notified,
                   host, fifo, wk, seen, ret>>

StartOpen ==
    /\ At(Main, "msOpen")
    /\ Go(Main, IF openRequested THEN "osRequest" ELSE "done")
    /\ NoData /\ UNCHANGED gate

-----------------------------------------------------------------------------
(* usb_cdc_protocol_reset_session on the coordinator, with                  *)
(* usb_cdc_session_gate_reset inlined.                                      *)
ResetFlags ==
    /\ At(Coord, "rsFlags")
    /\ openRequested' = FALSE /\ connected' = FALSE /\ resetLine' = TRUE
    /\ Go(Coord, "rsPhase")
    /\ UNCHANGED <<gate, workerUp, acmReady, notified, env, wk, seen>>

ResetPhase ==
    /\ At(Coord, "rsPhase")
    /\ OnlyPhase("RESETTING")
    /\ Call(Coord, "caCas", "rsGen") /\ NoData

ResetGeneration ==
    /\ At(Coord, "rsGen") /\ NextGeneration /\ cut' = generation'
    /\ Go(Coord, "rsWait") /\ NoData

(* Faulty variant: the active commands are not waited for.                  *)
ResetNoWait == /\ At(Coord, "rsWait") /\ Go(Coord, "rsClosed")
               /\ NoData /\ UNCHANGED gate

ResetWait ==
    /\ At(Coord, "rsWait")
    /\ active = 0
    /\ Go(Coord, "rsClosed")
    /\ NoData /\ UNCHANGED gate

(* Faulty variant: what is in the FIFO is not marked stale.                 *)
ResetClosedQuiet == /\ At(Coord, "rsClosed") /\ OnlyPhase("CLOSED")
                    /\ Go(Coord, "rsNotify") /\ NoData

ResetClosed ==
    /\ At(Coord, "rsClosed")
    /\ OnlyPhase("CLOSED")
    /\ Call(Coord, "nrReg", "rsNotify") /\ NoData

(* The handler's continuation: an attach goes on to disconnect and publish  *)
(* the medium, a reattach opens a fresh session, a release tears USB down.  *)
Publishes == own.job = "attach" /\ ~own.error
ResetNotify ==
    /\ At(Coord, "rsNotify")
    /\ notified' = (notified \/ workerUp)
    /\ Go(Coord, IF own.job = "attach" THEN "idle"
                 ELSE IF own.job = "reattach" THEN "osRequest" ELSE "released")
    /\ own' = [own EXCEPT !.job = IF Publishes THEN "publish" ELSE "none"]
    /\ host' = [host EXCEPT !.attached = /\ @ /\ ~Publishes
                                         /\ own.job # "release"]
    /\ UNCHANGED <<gate, connected, resetLine, openRequested, workerUp, acmReady,
                   fifo, wk, seen>>

Reset == \/ ResetFlags \/ ResetPhase \/ ResetGeneration \/ ResetWait
         \/ ResetClosed \/ ResetNotify

(* recorder_usb_event_task: the pending event of highest priority, its      *)
(* handler's guards, and the CDC calls the handler makes.                   *)
Rank == <<"FAILED", "ATTACH", "HOST_OWNED", "HOST_REATTACHED",
          "RELEASE_REQUESTED">>
Selected(e) ==
    \E i \in 1..5 : /\ Rank[i] = e /\ e \in own.events
                    /\ \A j \in 1..(i - 1) : Rank[j] \notin own.events

Lifecycle == own.hostOwned /\ ~own.release

(* Faulty variant: the two session events are mixed up.                     *)
HandlerJobSwapped(e) == IF e = "ATTACH" THEN "attach"
                        ELSE IF e = "RELEASE_REQUESTED" THEN "reattach"
                        ELSE IF e = "HOST_REATTACHED" THEN "release" ELSE own.job

HandlerJob(e) == IF e = "ATTACH" THEN "attach"
                 ELSE IF e = "HOST_REATTACHED" THEN "reattach"
                 ELSE IF e = "RELEASE_REQUESTED" THEN "release" ELSE own.job

HandlerRejects(e) ==
    \/ e = "FAILED"
    \/ e # "ATTACH" /\ (own.error \/ ~own.hostOwned)
    \/ e = "HOST_REATTACHED" /\ ~Lifecycle

HandleEvent(e) ==
    /\ At(Coord, "idle") /\ Selected(e)
    /\ IF HandlerRejects(e)
       THEN /\ own' = [own EXCEPT !.events = @ \ {e}, !.error = TRUE]
            /\ UNCHANGED <<pc, ret>>
       ELSE /\ own' = [own EXCEPT !.events = @ \ {e}, !.job = HandlerJob(e)]
            /\ Go(Coord, IF e = "HOST_OWNED" THEN "osRequest" ELSE "rsFlags")
    /\ UNCHANGED <<gate, flags, host, fifo, wk, seen>>

-----------------------------------------------------------------------------
(* The TinyUSB task.  Bytes reach the FIFO before the class callback runs.  *)
(* The host sends whole lines, a head and a newline; cutoffs and discards   *)
(* are what break them.                                                     *)
UsbIdle == At(Usb, "idle") /\ ~At(Coord, "released")

HostSends(k) ==
    /\ UsbIdle /\ host.attached /\ host.sent < MaxBytes
    /\ (k = "newline") = (host.sent % 2 = 1)
    /\ host' = [host EXCEPT !.sent = @ + 1]
    /\ fifo' = Append(fifo, [kind |-> k, gen |-> generation, conn |-> host.conn])
    /\ Go(Usb, IF acmReady THEN "rxFlag" ELSE "idle")
    /\ UNCHANGED <<gate, flags, own, wk, seen>>

RxCallback ==
    /\ At(Usb, "rxFlag")
    /\ connected' = TRUE
    /\ Call(Usb, "nrReg", "rxNotify")
    /\ UNCHANGED <<gate, resetLine, openRequested, workerUp, acmReady, notified,
                   env, wk, seen>>

RxNotify ==
    /\ At(Usb, "rxNotify")
    /\ notified' = TRUE
    /\ Go(Usb, "idle")
    /\ UNCHANGED <<gate, connected, resetLine, openRequested, workerUp, acmReady,
                   env, wk, seen>>

LineState(c) ==
    /\ UsbIdle /\ host.attached /\ acmReady /\ host.lines < MaxLineState
    /\ host' = [host EXCEPT !.lines = @ + 1]
    /\ connected' = c /\ resetLine' = TRUE /\ notified' = TRUE
    /\ UNCHANGED <<gate, openRequested, workerUp, acmReady, own, fifo, wk, seen,
                   pc, ret>>

(* The second enumeration, after the coordinator published the medium.      *)
HostConfigures ==
    /\ UsbIdle /\ own.job = "publish"
    /\ host' = [host EXCEPT !.attached = TRUE, !.conn = @ + 1]
    /\ own' = [own EXCEPT !.hostOwned = TRUE, !.events = @ \cup {"HOST_OWNED"},
                          !.job = "none"]
    /\ fifo' \in {fifo, <<>>}
    /\ UNCHANGED <<gate, flags, wk, seen, pc, ret>>

(* DETACHED runs usb_cdc_protocol_close_session synchronously.              *)
Detach ==
    /\ UsbIdle /\ host.attached /\ own.hostOwned /\ host.conn < MaxConn
    /\ host' = [host EXCEPT !.attached = FALSE]
    /\ own' = [own EXCEPT !.detached = TRUE]
    /\ fifo' \in {fifo, <<>>}
    /\ openRequested' = FALSE /\ connected' = FALSE /\ resetLine' = TRUE
    /\ Go(Usb, "csPhase")
    /\ UNCHANGED <<gate, workerUp, acmReady, notified, wk, seen>>

ClosePhase ==
    /\ At(Usb, "csPhase")
    /\ \/ phase = "OPEN" /\ OnlyPhase("CLOSED") /\ Go(Usb, "csGen")
       \/ phase # "OPEN" /\ UNCHANGED gate /\ Go(Usb, "idle")
    /\ NoData

CloseGeneration ==
    /\ At(Usb, "csGen") /\ NextGeneration /\ UNCHANGED cut
    /\ Call(Usb, "mbReg", "idle") /\ NoData

(* ATTACHED after a detach only waits for MSC, unless a release is pending. *)
Reattach ==
    /\ UsbIdle /\ ~host.attached /\ own.hostOwned
    /\ \/ /\ own.release
          /\ own' = [own EXCEPT !.events = @ \cup {"FAILED"}]
          /\ UNCHANGED host
       \/ /\ ~own.release
          /\ host' = [host EXCEPT !.attached = TRUE, !.conn = @ + 1]
          /\ UNCHANGED own
    /\ UNCHANGED <<gate, flags, fifo, wk, seen, pc, ret>>

(* The first SCSI command completed after a reattach.                       *)
ScsiComplete ==
    /\ UsbIdle /\ host.attached /\ Lifecycle /\ own.detached
    /\ own' = [own EXCEPT !.detached = FALSE,
                          !.events = @ \cup {"HOST_REATTACHED"}]
    /\ UNCHANGED <<gate, flags, host, fifo, wk, seen, pc, ret>>

UsbTask ==
    \/ \E k \in Kinds : HostSends(k)
    \/ RxCallback \/ RxNotify
    \/ \E c \in BOOLEAN : LineState(c)
    \/ HostConfigures \/ Detach \/ ClosePhase \/ CloseGeneration
    \/ Reattach \/ ScsiComplete

-----------------------------------------------------------------------------
(* The worker.  Its admission tests are sequences of single loads that stop *)
(* at the first failure; wk.k is the load about to be made.                 *)
Session == <<"phase", "generation", "rx", "drained">>
(* Faulty variant: a byte is fed whatever the ownership lifecycle.          *)
ChecksNoLifecycle(l) ==
    IF l = "wkQueue" THEN <<"connected", "phase", "generation", "rx", "drained">>
    ELSE IF l = "wkByte" THEN <<"line", "phase", "generation", "rx", "drained">>
    ELSE Session
Checks(l) ==
    IF l = "wkBatch"
    THEN <<"connected", "phase", "generation", "rx", "drained", "drained",
           "lifecycle">>
    ELSE IF l = "wkByte"
    THEN <<"line", "phase", "generation", "rx", "drained", "lifecycle">>
    ELSE IF l = "wkQueue"
    THEN <<"connected", "phase", "generation", "rx", "drained">>
    ELSE Session

Expected(l) == IF l \in {"wkSnap2", "wkBatch", "wkByte"}
               THEN wk.snapGen ELSE wk.frameGen

Passes(c, l) ==
    /\ c = "phase" => phase = "OPEN" /\ (l = "wkBatch" => wk.admitted)
    /\ c = "generation" => generation = Expected(l)
    /\ c = "rx" => rx = RxOpen
    /\ c = "drained" => ~Pending
    /\ c = "connected" => connected
    /\ c = "line" => ~resetLine /\ connected
    /\ c = "lifecycle" => Lifecycle

CheckLabels == {"wkSnap2", "wkBatch", "wkByte", "wkBegin1", "wkBegin2",
                "wkQueue", "wkEndpoint", "wkFinal"}

LoadPasses(l) == Passes(Checks(l)[wk.k], l)
Failed(l) == At(Worker, l) /\ ~LoadPasses(l)
Passed(l) == At(Worker, l) /\ wk.k = Len(Checks(l)) /\ LoadPasses(l)

CheckMore ==
    \E l \in CheckLabels :
        /\ At(Worker, l) /\ wk.k < Len(Checks(l)) /\ LoadPasses(l)
        /\ wk' = [wk EXCEPT !.k = @ + 1]
        /\ UNCHANGED <<gate, flags, env, seen, pc, ret>>

Quiet == UNCHANGED <<gate, flags, env, seen>>

(* Waiting, and the snapshot a batch of bytes is admitted under.            *)
WorkerWait ==
    /\ At(Worker, "wkWait") /\ workerUp /\ notified
    /\ notified' = FALSE /\ resetLine' = FALSE
    /\ wk' = IF resetLine THEN [wk EXCEPT !.line = <<>>, !.frameGen = 0] ELSE wk
    /\ Go(Worker, "wkSnap")
    /\ UNCHANGED <<gate, connected, openRequested, workerUp, acmReady, env, seen>>

SnapshotGeneration ==
    /\ At(Worker, "wkSnap")
    /\ wk' = [wk EXCEPT !.snapGen = generation, !.admitted = FALSE]
    /\ Go(Worker, "wkSnap1") /\ Quiet

(* The first look only filters: whatever it lets through is tested again.   *)
SnapshotFirst ==
    /\ At(Worker, "wkSnap1")
    /\ Go(Worker, IF phase = "OPEN" /\ rx = RxOpen /\ ~Pending
                  THEN "wkSnap2" ELSE "wkEpoch")
    /\ UNCHANGED wk /\ Quiet

SnapshotRecheck ==
    /\ \/ Passed("wkSnap2") /\ wk' = [wk EXCEPT !.admitted = TRUE, !.k = 1]
       \/ Failed("wkSnap2") /\ wk' = [wk EXCEPT !.k = 1]
    /\ Go(Worker, "wkEpoch") /\ Quiet

LoadDiscardEpoch ==
    /\ At(Worker, "wkEpoch")
    /\ wk' = [wk EXCEPT !.epoch = discard]
    /\ Go(Worker, "wkRead") /\ Quiet

(* tinyusb_cdcacm_read: everything in the FIFO, an error before the init.   *)
ReadChunk ==
    /\ At(Worker, "wkRead")
    /\ \/ ~acmReady /\ Go(Worker, "wkWait") /\ UNCHANGED <<fifo, wk>>
       \/ acmReady /\ fifo = <<>> /\ Go(Worker, "wkDrained") /\ UNCHANGED <<fifo, wk>>
       \/ /\ acmReady /\ fifo # <<>>
          /\ wk' = [wk EXCEPT !.chunk = fifo, !.epoch = 0] /\ fifo' = <<>>
          /\ Go(Worker, "wkReset")
    /\ UNCHANGED <<gate, flags, host, own, seen>>

MarkDrained ==
    /\ At(Worker, "wkDrained")
    /\ drained' = IF drained < wk.epoch THEN wk.epoch ELSE drained
    /\ wk' = [wk EXCEPT !.snapGen = 0, !.admitted = FALSE, !.epoch = 0]
    /\ Call(Worker, "tcLoad", "wkWait")
    /\ UNCHANGED <<phase, generation, active, rx, discard, past, flags, env, seen>>

ResetFramer ==
    /\ At(Worker, "wkReset")
    /\ resetLine' = FALSE
    /\ wk' = IF resetLine THEN [wk EXCEPT !.line = <<>>, !.frameGen = 0] ELSE wk
    /\ Go(Worker, "wkBatch")
    /\ UNCHANGED <<gate, connected, openRequested, workerUp, acmReady, notified,
                   env, seen>>

AdmitBatch ==
    /\ \/ Passed("wkBatch") /\ wk' = [wk EXCEPT !.k = 1] /\ Go(Worker, "wkByte")
       \/ /\ Failed("wkBatch") /\ Go(Worker, "wkSnap")
          /\ wk' = [wk EXCEPT !.line = <<>>, !.frameGen = 0, !.chunk = <<>>, !.k = 1]
    /\ Quiet

-----------------------------------------------------------------------------
(* The loop over a chunk: framing, and one command inside the gate.         *)
NextByte(chunk) == Go(Worker, IF chunk = <<>> THEN "wkSnap" ELSE "wkByte")

FeedByte ==
    LET b == Head(wk.chunk)
        g == IF wk.line = <<>> THEN wk.snapGen ELSE wk.frameGen
        rest == Tail(wk.chunk)
    IN /\ Passed("wkByte")
       /\ IF b.kind = "newline"
          THEN /\ wk' = [wk EXCEPT !.chunk = rest, !.frame = Append(wk.line, b),
                                   !.line = <<>>, !.frameGen = g, !.k = 1]
               /\ Go(Worker, "wkBegin1")
          ELSE /\ wk' = [wk EXCEPT !.chunk = rest, !.line = Append(@, b),
                                   !.frameGen = g, !.k = 1]
               /\ NextByte(rest)
       /\ Quiet

DropChunk ==
    /\ Failed("wkByte")
    /\ resetLine' = FALSE
    /\ wk' = [wk EXCEPT !.line = <<>>, !.frameGen = 0, !.chunk = <<>>, !.k = 1]
    /\ Go(Worker, "wkSnap")
    /\ UNCHANGED <<gate, connected, openRequested, workerUp, acmReady, notified,
                   env, seen>>

(* usb_cdc_session_gate_command_begin: test, join, test again.              *)
DropFrame == /\ wk' = [wk EXCEPT !.frame = <<>>, !.frameGen = 0, !.k = 1]
             /\ NextByte(wk.chunk)

CommandBegin ==
    /\ \/ Passed("wkBegin1") /\ wk' = [wk EXCEPT !.k = 1] /\ Go(Worker, "wkJoin")
       \/ Failed("wkBegin1") /\ DropFrame
    /\ Quiet

CommandJoin ==
    /\ At(Worker, "wkJoin")
    /\ OnlyActive(active + 1)
    /\ Go(Worker, "wkBegin2") /\ NoData

CommandRecheck ==
    /\ \/ Passed("wkBegin2") /\ Go(Worker, "wkExec")
       \/ Failed("wkBegin2") /\ Go(Worker, "wkLeave")
    /\ wk' = [wk EXCEPT !.k = 1] /\ Quiet

CommandLeave ==
    /\ At(Worker, "wkLeave")
    /\ OnlyActive(active - 1)
    /\ DropFrame
    /\ UNCHANGED <<flags, env, seen>>

(* usb_cdc_protocol_process_line; a frame whose head was lost is refused.   *)
ProcessLine ==
    LET accept == /\ Len(wk.frame) = 2 /\ wk.frame[1].kind = "RELEASE_STORAGE"
                  /\ Lifecycle
    IN /\ At(Worker, "wkExec")
       /\ own' = [own EXCEPT !.release = @ \/ accept, !.waiting = @ \/ accept]
       /\ wk' = [wk EXCEPT !.accepted = accept, !.complete = FALSE, !.k = 1]
       /\ Go(Worker, "wkQueue")
       /\ UNCHANGED <<gate, flags, host, fifo, seen>>

(* usb_cdc_tx_write_response: each round tests the session and then queues  *)
(* what fits; the last one flushes, which may time out.  A release response *)
(* also waits for the final IN transfer.  The host decides how far it gets. *)
Fail == Go(Worker, "wkEnd")
WriteResponse ==
    /\ \/ Passed("wkQueue")
          /\ \/ Go(Worker, "wkQueue") \/ Fail
             \/ Go(Worker, IF wk.accepted THEN "wkEndpoint" ELSE "wkFinal")
       \/ Passed("wkEndpoint")
          /\ (Fail \/ Go(Worker, "wkEndpoint") \/ Go(Worker, "wkFinal"))
       \/ Failed("wkQueue") /\ Fail
       \/ Failed("wkEndpoint") /\ Fail
       \/ Failed("wkFinal") /\ Fail
    /\ wk' = [wk EXCEPT !.k = 1] /\ Quiet

ResponseComplete ==
    /\ Passed("wkFinal")
    /\ wk' = [wk EXCEPT !.complete = TRUE, !.k = 1]
    /\ Go(Worker, "wkEnd") /\ Quiet

(* Faulty variant: the command never leaves the gate.                       *)
CommandStays == /\ At(Worker, "wkEnd") /\ Go(Worker, "wkSignal")
                /\ UNCHANGED gate /\ NoData

CommandEnd ==
    /\ At(Worker, "wkEnd")
    /\ OnlyActive(active - 1)
    /\ Go(Worker, "wkSignal") /\ NoData

(* usb_cdc_tx_complete_accepted_release and                                 *)
(* usb_msc_ownership_release_response_complete.                             *)
SignalRelease ==
    /\ At(Worker, "wkSignal")
    /\ own' = IF wk.accepted /\ wk.complete /\ own.release /\ own.waiting
              THEN [own EXCEPT !.waiting = FALSE,
                               !.events = @ \cup {"RELEASE_REQUESTED"}]
              ELSE own
    /\ Go(Worker, "wkAdmit")
    /\ UNCHANGED <<gate, flags, host, fifo, wk, seen>>

AfterCommand ==
    /\ At(Worker, "wkAdmit")
    /\ LET rest == IF Lifecycle THEN wk.chunk ELSE <<>>
       IN /\ wk' = [wk EXCEPT !.frame = <<>>, !.frameGen = 0, !.accepted = FALSE,
                              !.complete = FALSE, !.chunk = rest]
          /\ NextByte(rest)
    /\ Quiet

WorkerTask ==
    \/ CheckMore \/ WorkerWait \/ SnapshotGeneration \/ SnapshotFirst
    \/ SnapshotRecheck \/ LoadDiscardEpoch \/ ReadChunk \/ MarkDrained
    \/ ResetFramer \/ AdmitBatch \/ FeedByte \/ DropChunk \/ CommandBegin
    \/ CommandJoin \/ CommandRecheck \/ CommandLeave \/ ProcessLine
    \/ WriteResponse \/ ResponseComplete \/ CommandEnd \/ SignalRelease
    \/ AfterCommand

-----------------------------------------------------------------------------
CoordTask == \/ \E e \in Events : HandleEvent(e)
             \/ Reset \/ CloseRxAdmission(Coord) \/ NoteRx(Coord)
Opener(p) == Open(p) \/ CancelOpening(p) \/ Boundary(p) \/ ClearDirty(p)
MainTask  == StartWorker \/ StartAcm \/ StartFails \/ StartOpen

Next == \/ UsbTask \/ NoteRx(Usb) \/ Boundary(Usb) \/ ClearDirty(Usb)
        \/ CoordTask \/ Opener(Coord)
        \/ MainTask \/ Opener(Main)
        \/ WorkerTask \/ ClearDirty(Worker)

Spec == Init /\ [][Next]_vars

-----------------------------------------------------------------------------
UsbLabels == {"idle", "rxFlag", "rxNotify", "csPhase", "csGen",
              "nrReg", "nrEpoch", "nrDirty", "nrDone",
              "mbReg", "mbEpoch", "mbDone",
              "tcLoad", "tcEpoch", "tcPending", "tcCas"}
OpenLabels == {"osRequest", "osLoop", "osNotify", "opPhase", "opRx",
               "opEpoch", "opPending", "opReserve", "opEnter", "opRecheck",
               "opPublish", "opRevoke", "coCas", "mbReg", "mbEpoch", "mbDone",
               "tcLoad", "tcEpoch", "tcPending", "tcCas"}
CoordLabels == OpenLabels \cup
               {"idle", "released", "rsFlags", "rsPhase", "rsGen", "rsWait",
                "rsClosed", "rsNotify", "caCas",
                "nrReg", "nrEpoch", "nrDirty", "nrDone"}
MainLabels == OpenLabels \cup {"msCreate", "msInit", "msOpen", "done"}
WorkerLabels == CheckLabels \cup
                {"wkWait", "wkSnap", "wkSnap1", "wkEpoch", "wkRead", "wkDrained", "wkReset",
                 "wkJoin", "wkLeave", "wkExec", "wkEnd", "wkSignal", "wkAdmit",
                 "tcLoad", "tcEpoch", "tcPending", "tcCas"}

(* Every variable keeps its C type, and every context is at one of its own  *)
(* program points with a return address of its own.                         *)
TypeOK ==
    /\ phase \in {"CLOSED", "OPEN", "RESETTING"}
    /\ generation \in Nat /\ active \in Nat /\ discard \in Nat /\ drained \in Nat
    /\ rx \in RxWord /\ cut \in Nat /\ crossed \in BOOLEAN
    /\ {connected, resetLine, openRequested, workerUp, acmReady, notified}
           \subseteq BOOLEAN
    /\ host \in [attached : BOOLEAN, conn : Nat, sent : Nat, lines : Nat]
    /\ own \in [hostOwned : BOOLEAN, detached : BOOLEAN, release : BOOLEAN,
                waiting : BOOLEAN, events : SUBSET Events, error : BOOLEAN,
                job : {"none", "attach", "publish", "reattach", "release"}]
    /\ fifo \in Seq(Byte)
    /\ wk \in [snapGen : Nat, admitted : BOOLEAN, epoch : Nat,
               chunk : Seq(Byte), line : Seq(Byte), frame : Seq(Byte),
               frameGen : Nat, k : Nat, accepted : BOOLEAN, complete : BOOLEAN]
    /\ seen \in [Proc -> Nat]
    /\ pc \in [Proc -> UsbLabels \cup CoordLabels \cup MainLabels \cup WorkerLabels]
    /\ pc[Usb] \in UsbLabels /\ pc[Coord] \in CoordLabels
    /\ pc[Main] \in MainLabels /\ pc[Worker] \in WorkerLabels
    /\ ret \in [Proc -> {"idle", "rxNotify", "rsGen", "rsNotify", "osNotify",
                         "wkWait"}]

(* Points at which a command holds the gate, and at which it may have run.  *)
Executing == pc[Worker] \in {"wkExec", "wkQueue", "wkEndpoint",
                             "wkFinal", "wkEnd"}
Joined == Executing \/ pc[Worker] \in {"wkBegin2", "wkLeave"}

(* A command that executes was sent whole in the session it executes in: no *)
(* byte that reached the FIFO before a cutoff, or over an earlier physical  *)
(* connection, is part of it.  The exception is an interface start that     *)
(* opens while the coordinator opens or resets, and crosses it: see Crosses *)
(* and RacingReopen.                                                        *)
OwnBytes ==
    \A i \in 1..Len(wk.frame) : /\ wk.frame[i].gen = wk.frameGen
                                /\ wk.frame[i].conn = wk.frame[1].conn
NoStaleCommand == Executing /\ ~crossed => OwnBytes

(* usb_cdc_session_gate.h:85, "Blocking physical-session teardown barrier.  *)
(* RESETTING is published before generation invalidation and remains        *)
(* published while active commands drain; therefore a racing reopen cannot  *)
(* defeat the cutoff."                                                      *)
RacingReopen == Executing => OwnBytes

(* A reset is a barrier, for good: once it has waited out the active        *)
(* commands, nothing of a generation before it executes any more.           *)
ResetIsBarrier == Executing /\ ~At(Coord, "rsWait") => wk.frameGen >= cut

(* An open admission word is exactly OPEN: no callback is between           *)
(* registering and publishing its discard epoch when a session is visible;  *)
(* and the callback count is the number of contexts inside a registration,  *)
(* so that it neither saturates nor underflows.                             *)
Registered(p) == pc[p] \in {"nrEpoch", "nrDirty", "nrDone", "mbEpoch", "mbDone"}
AdmissionIsExact ==
    /\ rx.open => rx = RxOpen
    /\ rx.count = Cardinality({p \in Proc : Registered(p)})

(* After RELEASE_STORAGE is accepted no other command executes              *)
(* (usb_cdc_protocol.c:361).                                                *)
NothingAfterRelease == At(Worker, "wkExec") => ~own.release

(* Fairness: every task is scheduled, and the TinyUSB task finishes the     *)
(* callback it is in.  Nothing is assumed of the host: it may stop sending, *)
(* reading or attaching for good.                                           *)
UsbCallback == \/ RxCallback \/ RxNotify \/ ClosePhase \/ CloseGeneration
               \/ NoteRx(Usb) \/ Boundary(Usb) \/ ClearDirty(Usb)
Fairness == /\ WF_vars(UsbCallback)
            /\ WF_vars(CoordTask \/ Opener(Coord))
            /\ WF_vars(MainTask \/ Opener(Main))
            /\ WF_vars(WorkerTask \/ ClearDirty(Worker))

(* The coordinator never stays in a reset or in open_session's retry loop:  *)
(* whatever the host does with the response it is being sent, the active    *)
(* command notices the cutoff and leaves the gate, and the worker drains    *)
(* what was marked stale, or a cutoff withdraws the request to open.        *)
CallsReturn ==
    /\ At(Coord, "rsFlags") ~> pc[Coord] \in {"osRequest", "released", "idle"}
    /\ At(Coord, "osRequest") ~> At(Coord, "idle")

(* A release whose response was delivered is handled: USB is torn down, or  *)
(* the recorder is in ERROR.                                                *)
ReleaseHandled == "RELEASE_REQUESTED" \in own.events
                      ~> (At(Coord, "released") \/ own.error)

=============================================================================
