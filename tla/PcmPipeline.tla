----------------------------- MODULE PcmPipeline -----------------------------
(***************************************************************************)
(* From the microphone to the card: the driver's queue of DMA descriptors  *)
(* and its overflow callback (i2s_pdm_capture.c), the two slots between    *)
(* the tasks (pcm_pipeline.c), the capture task and the writer's drain     *)
(* loop (main.c).                                                          *)
(*                                                                         *)
(* The capture task must keep up with the microphone and the writer with   *)
(* the capture task; where either does not, samples are gone, and the      *)
(* recording must then end in ERROR and hold nothing behind the gap.  The  *)
(* writer reads a slot outside the lock, and the driver drops descriptors  *)
(* in its interrupt, at any point of either task.                          *)
(*                                                                         *)
(* A sample stands for its number, 1 the first one the microphone gave.    *)
(* A descriptor holds one.  What the writer does to the files around the   *)
(* slots it writes is SegmentStore; here they may fail.                    *)
(***************************************************************************)
EXTENDS RecorderState, Integers, Sequences, FiniteSets

CONSTANTS
    SlotSize,     \* samples in a slot
    ReadSize,     \* samples the capture task asks for at a time
    DmaQueue,     \* descriptors the driver keeps for it
    MaxSample,    \* samples the microphone gives
    MaxFault      \* operations that fail

ASSUME PcmBounds ==
    /\ {SlotSize, ReadSize, DmaQueue} \subseteq Nat \ {0}
    /\ ReadSize <= SlotSize
    /\ {MaxSample, MaxFault} \subseteq Nat

VARIABLES
    mic,      \* samples given so far
    dma,      \* the driver's queue: the descriptors not read yet
    chan,     \* the RX channel: none, on, or disabled
    ovf,      \* s_ovf_armed, and the drops counted since the last drain
    lost,     \* the samples the driver dropped, in all
    buf,      \* s_dma_scratch: what the read in progress has got
    res,      \* its result
    snap,     \* the drops drained after it
    pipe,     \* s_pipeline
    cap,      \* the capture task's program point
    wrt,      \* the writer's program point
    cur,      \* the slot it is writing, and how much of that is written
    card,     \* the samples in the recording's files
    state,    \* s_rec_state
    log,      \* the state events whose append was begun
    evReady,  \* s_state_events_ready
    mounted,  \* the card
    owed,     \* the slots filled by the time a stop is asked for
    stop, slotFull, ready,  \* REC_BIT_STOP, REC_BIT_SLOT_FULL, REC_BIT_WRITER_READY
    faults

driver == <<mic, dma, chan, ovf, lost>>
capture == <<buf, res, snap, cap>>
writer == <<wrt, cur, card>>
status == <<state, log, owed>>
medium == <<evReady, mounted>>
bits == <<stop, slotFull, ready>>
vars == <<driver, capture, pipe, writer, status, medium, bits, faults>>

Slots == {0, 1}

(* pcm_pipeline_init.                                                       *)
EmptyPipe == [slot |-> [i \in Slots |-> <<>>], full |-> [i \in Slots |-> FALSE],
              r |-> 0, w |-> 0,
              captured |-> 0, chunks |-> 0, drop |-> 0, dma |-> 0,
              stall |-> FALSE, sd |-> FALSE]

Init ==
    /\ mic = 0 /\ dma = <<>> /\ chan = "none" /\ lost = 0
    /\ ovf = [armed |-> FALSE, n |-> 0]
    /\ buf = <<>> /\ res = "ok" /\ snap = 0 /\ pipe = EmptyPipe
    /\ cap = "wait" /\ wrt = "start" /\ cur = [i |-> 0, n |-> 0] /\ card = <<>>
    /\ state = "RECOVER" /\ log = <<>> /\ owed = 0 /\ evReady = TRUE /\ mounted = TRUE
    /\ stop = FALSE /\ slotFull = FALSE /\ ready = FALSE /\ faults = 0

Fault == faults < MaxFault /\ faults' = faults + 1
NoFault == UNCHANGED faults

-----------------------------------------------------------------------------
(* recorder_transition_state, under the state lock: the event is appended   *)
(* where events are ready, and a failed append ends in ERROR.               *)
Transition(to, result) ==
    /\ state' = IF TransitionAllowed(state, to) THEN result ELSE state
    /\ log' = IF TransitionAllowed(state, to) /\ state # to /\ evReady
              THEN Append(log, to) ELSE log

(* recorder_request_stop also wakes the writer.                             *)
RequestStop == stop' = TRUE /\ slotFull' = TRUE /\ UNCHANGED ready

EnterError == Transition("ERROR", "ERROR") /\ RequestStop /\ UNCHANGED owed

Quiet == UNCHANGED <<status, bits>>

(* The battery task or the USB coordinator ends the recording.              *)
AskStop(to) ==
    /\ state = "RECORDING" /\ to \in {"LOW_BATTERY_STOP", "USB_PREPARE"}
    /\ \/ Transition(to, to) /\ NoFault
       \/ evReady /\ Fault /\ Transition(to, "ERROR")
    /\ RequestStop /\ owed' = pipe.chunks + Cardinality({i \in Slots : pipe.full[i]})
    /\ UNCHANGED <<driver, capture, pipe, writer, medium>>

-----------------------------------------------------------------------------
(* The microphone, and the driver's interrupt: a descriptor that finds the  *)
(* queue full pushes the oldest one out, and recorder_rx_q_ovf_cb counts    *)
(* it.  One that is filled while nobody has armed the callback is not       *)
(* counted.                                                                 *)
Sample ==
    /\ chan = "on" /\ mic < MaxSample /\ mic' = mic + 1
    /\ IF Len(dma) < DmaQueue
       THEN dma' = Append(dma, mic') /\ UNCHANGED <<ovf, lost>>
       ELSE /\ dma' = Append(Tail(dma), mic') /\ lost' = lost + 1
            /\ ovf' = IF ovf.armed THEN [ovf EXCEPT !.n = @ + 1] ELSE ovf
    /\ UNCHANGED <<chan, capture, pipe, writer, status, medium, bits, faults>>

-----------------------------------------------------------------------------
(* pcm_pipeline.c, each called under s_rec_lock.                            *)
(* The slot pcm_pipeline_produce fills, past the active one if that is full.*)
Active(p) == IF p.full[p.w] THEN 1 - p.w ELSE p.w

(* Faulty variant: the room in the slot is not looked at.                   *)
TakeAll(p, rest) == Len(rest)

(* How much of what is left goes into it.                                   *)
Take(p, rest) ==
    IF Len(rest) < SlotSize - Len(p.slot[Active(p)])
    THEN Len(rest) ELSE SlotSize - Len(p.slot[Active(p)])

Copied(p, w, data) ==
    LET f == Len(p.slot[w]) + Len(data) = SlotSize
    IN [p EXCEPT !.slot[w] = @ \o data, !.full[w] = f,
                 !.captured = @ + Len(data), !.w = IF f THEN 1 - w ELSE w]

(* One round of its loop: what is left is dropped where both slots are      *)
(* full; else as much as there is room for is copied.                       *)
Round(st) ==
    LET p == st.pipe  n == Take(p, st.rest)
    IN IF st.rest = <<>> THEN st
       ELSE IF p.full[0] /\ p.full[1]
       THEN [pipe |-> [p EXCEPT !.drop = @ + Len(st.rest)], rest |-> <<>>]
       ELSE [pipe |-> Copied(p, Active(p), SubSeq(st.rest, 1, n)),
             rest |-> SubSeq(st.rest, n + 1, Len(st.rest))]

(* A read is never longer than a slot, so two rounds end the loop.          *)
pcm_pipeline_produce(p, data) == Round(Round([pipe |-> p, rest |-> data])).pipe

pcm_pipeline_has_full(p) == p.full[0] \/ p.full[1]

(* The slot that is read next: read_index, or else the other.               *)
NextFull(p) == IF p.full[p.r] THEN p.r ELSE 1 - p.r

(* pcm_pipeline_release_full looks for that slot again, after the write.    *)
pcm_pipeline_release_full(p) ==
    LET i == NextFull(p)
    IN [p EXCEPT !.slot[i] = <<>>, !.full[i] = FALSE, !.r = 1 - i, !.chunks = @ + 1]

NoteOverflow(p, n) == [p EXCEPT !.dma = @ + n]
NoteSdError(p) == [p EXCEPT !.sd = TRUE]

-----------------------------------------------------------------------------
(* recorder_capture_task.                                                   *)
At(l) == cap = l
Go(l) == cap' = l

CapWait ==
    /\ At("wait") /\ (stop \/ ready) /\ Go(IF stop THEN "end" ELSE "init")
    /\ UNCHANGED <<driver, buf, res, snap, pipe, writer, medium, faults>> /\ Quiet

(* pdm_capture_init: the counters are reset, the callback is registered and *)
(* armed, and the channel enabled last.                                     *)
CapInit ==
    /\ At("init") /\ UNCHANGED <<mic, dma, lost, buf, res, snap, pipe, writer, medium>>
    /\ \/ /\ chan' = "on" /\ ovf' = [armed |-> TRUE, n |-> 0]
          /\ Go("record") /\ Quiet /\ NoFault
       \/ Fault /\ UNCHANGED <<chan, ovf>> /\ Go("end") /\ EnterError

(* A refused transition enters the error: ERROR already, and a stop.        *)
CapRecord ==
    /\ At("record") /\ Go("loop")
    /\ UNCHANGED <<driver, buf, res, snap, pipe, writer, medium, owed>>
    /\ \/ /\ Transition("RECORDING", "RECORDING") /\ NoFault
          /\ IF TransitionAllowed(state, "RECORDING") THEN UNCHANGED bits
             ELSE RequestStop
       \/ Fault /\ evReady /\ Transition("RECORDING", "ERROR") /\ RequestStop

CapLoop ==
    /\ At("loop") /\ Go(IF stop THEN "disable" ELSE "read")
    /\ buf' = <<>> /\ res' = "ok" /\ snap' = 0
    /\ UNCHANGED <<driver, pipe, writer, medium, faults>> /\ Quiet

(* pdm_capture_read takes descriptor after descriptor until it has enough,  *)
(* until none has come for a second, or until the driver fails.             *)
CapRead ==
    /\ At("read") /\ dma # <<>>
    /\ buf' = Append(buf, Head(dma)) /\ dma' = Tail(dma)
    /\ Go(IF Len(buf') = ReadSize THEN "drain" ELSE "read")
    /\ UNCHANGED <<mic, chan, ovf, lost, res, snap, pipe, writer, medium, faults>>
    /\ Quiet

CapReadTimeout ==
    /\ At("read") /\ dma = <<>> /\ res' = "timeout" /\ Go("drain")
    /\ UNCHANGED <<driver, buf, snap, pipe, writer, medium, faults>> /\ Quiet

CapReadFails ==
    /\ At("read") /\ Fault /\ res' = "fail" /\ Go("drain")
    /\ UNCHANGED <<driver, buf, snap, pipe, writer, medium>> /\ Quiet

(* pdm_capture_drain_overflow.                                              *)
Drain == snap' = ovf.n /\ ovf' = [ovf EXCEPT !.n = 0]

CapDrain ==
    /\ At("drain") /\ Drain /\ Go(IF res = "fail" THEN "failed" ELSE "check")
    /\ UNCHANGED <<mic, dma, chan, lost, buf, res, pipe, writer, medium, faults>>
    /\ Quiet

CapFailed ==
    /\ At("failed") /\ pipe' = NoteOverflow(pipe, snap) /\ EnterError
    /\ Go("disable")
    /\ UNCHANGED <<driver, buf, res, snap, writer, medium, faults>>

CapCheck ==
    /\ At("check") /\ Go(IF stop THEN "stopped" ELSE "lock")
    /\ UNCHANGED <<driver, buf, res, snap, pipe, writer, medium, faults>> /\ Quiet

(* The drops are counted; where there are none a timeout is a stall.        *)
Noted == [NoteOverflow(pipe, snap) EXCEPT !.stall = @ \/ (res = "timeout" /\ snap = 0)]

(* A read that ended behind a stop is not staged, its drops are reported.   *)
CapStopped ==
    /\ At("stopped") /\ pipe' = Noted /\ Go("disable")
    /\ IF snap > 0 THEN EnterError ELSE Quiet
    /\ UNCHANGED <<driver, buf, res, snap, writer, medium, faults>>

(* Faulty variant: a read that came with drops is staged all the same.      *)
StagedAlways == pcm_pipeline_produce(Noted, buf)

(* Nothing of a read that came with drops is staged.                        *)
Staged == IF snap = 0 THEN pcm_pipeline_produce(Noted, buf) ELSE Noted

CapStage ==
    /\ At("lock") /\ pipe' = Staged
    /\ Go(IF snap > 0 \/ pipe'.drop > pipe.drop THEN "loss"
          ELSE IF pcm_pipeline_has_full(pipe') THEN "signal" ELSE "loop")
    /\ UNCHANGED <<driver, buf, res, snap, writer, medium, faults>> /\ Quiet

CapLoss ==
    /\ At("loss") /\ EnterError /\ Go("disable")
    /\ UNCHANGED <<driver, buf, res, snap, pipe, writer, medium, faults>>

CapSignal ==
    /\ At("signal") /\ slotFull' = TRUE /\ Go("loop")
    /\ UNCHANGED <<driver, buf, res, snap, pipe, writer, status, medium, stop,
                   ready, faults>>

(* pdm_capture_stop_and_drain_final: no callback comes after the channel is *)
(* disabled, so the drain that follows is the last one.                     *)
CapDisable ==
    /\ At("disable") /\ UNCHANGED <<mic, dma, ovf, lost, pipe>>
    /\ buf' = <<>> /\ res' = "ok" /\ snap' = 0
    /\ \/ chan' = "disabled" /\ Go("final") /\ NoFault
       \/ Fault /\ UNCHANGED chan /\ Go("interim")
    /\ UNCHANGED <<writer, medium>> /\ Quiet

(* Faulty variant: what the last drain finds is counted and not reported.   *)
FinalQuiet == FALSE

(* Whether the last drain is the end of the recording in ERROR.             *)
FinalLoss == snap' > 0

CapFinal ==
    /\ At("final") /\ Drain /\ pipe' = NoteOverflow(pipe, snap') /\ Go("halt")
    /\ IF FinalLoss THEN EnterError ELSE Quiet
    /\ UNCHANGED <<mic, dma, chan, lost, buf, res, writer, medium, faults>>

(* A channel that could not be disabled goes on dropping: what it has       *)
(* counted so far is counted, and the error covers the rest.                *)
CapInterim ==
    /\ At("interim") /\ Drain /\ pipe' = NoteOverflow(pipe, snap') /\ Go("halt")
    /\ EnterError
    /\ UNCHANGED <<mic, dma, chan, lost, buf, res, writer, medium, faults>>

CapHalt ==
    /\ At("halt") /\ RequestStop /\ Go("deinit")
    /\ UNCHANGED <<driver, buf, res, snap, pipe, writer, status, medium, faults>>

(* pdm_capture_deinit, until it succeeds: a channel still on is disabled,   *)
(* and only one that is deleted is disarmed.                                *)
CapDeinit ==
    /\ At("deinit") /\ UNCHANGED <<mic, dma, lost, buf, res, snap, pipe>>
    /\ \/ /\ chan' = "none" /\ ovf' = [ovf EXCEPT !.armed = FALSE]
          /\ RequestStop /\ UNCHANGED status /\ Go("end") /\ NoFault
       \/ Fault /\ chan' \in {chan, "disabled"} /\ UNCHANGED <<ovf, cap>>
          /\ EnterError
    /\ UNCHANGED <<writer, medium>>

Capture ==
    \/ CapWait \/ CapInit \/ CapRecord \/ CapLoop \/ CapRead \/ CapReadTimeout
    \/ CapDrain \/ CapFailed \/ CapCheck \/ CapStopped
    \/ CapStage \/ CapLoss \/ CapSignal \/ CapDisable \/ CapFinal \/ CapInterim
    \/ CapHalt \/ CapDeinit

-----------------------------------------------------------------------------
(* recorder_writer_task from its first segment on.                          *)
WrAt(l) == wrt = l
WrGo(l) == wrt' = l

(* An operation on the card fails: it is counted, and the task is through   *)
(* with its loop.                                                           *)
WrFails(next) == Fault /\ pipe' = NoteSdError(pipe) /\ EnterError /\ WrGo(next)

(* The first segment is opened; what fails here is not an SD error counted. *)
WrStart ==
    /\ WrAt("start")
    /\ \/ /\ ready' = TRUE /\ WrGo("sleep") /\ NoFault
          /\ UNCHANGED <<status, stop, slotFull>>
       \/ Fault /\ EnterError /\ WrGo("unready")
    /\ UNCHANGED <<driver, capture, pipe, cur, card, medium>>

(* The bit or a second, whichever comes first.                              *)
WrWake ==
    /\ WrAt("sleep") /\ slotFull' = FALSE /\ WrGo("peek")
    /\ UNCHANGED <<driver, capture, pipe, cur, card, status, medium, stop, ready,
                   faults>>

WrPeek ==
    /\ WrAt("peek")
    /\ IF pcm_pipeline_has_full(pipe)
       THEN cur' = [i |-> NextFull(pipe), n |-> 0] /\ WrGo("write")
       ELSE UNCHANGED cur /\ WrGo("check")
    /\ UNCHANGED <<driver, capture, pipe, card, medium, faults>> /\ Quiet

(* sd_pcm_sink_write_chunk reads the slot without the lock.                 *)
WrWrite ==
    /\ WrAt("write") /\ UNCHANGED <<driver, capture, medium>>
    /\ \/ /\ card' = Append(card, pipe.slot[cur.i][cur.n + 1])
          /\ cur' = [cur EXCEPT !.n = @ + 1]
          /\ WrGo(IF cur'.n = SlotSize THEN "release" ELSE "write")
          /\ UNCHANGED pipe /\ Quiet /\ NoFault
       \/ WrFails("finalize") /\ UNCHANGED <<cur, card>>

WrRelease ==
    /\ WrAt("release") /\ pipe' = pcm_pipeline_release_full(pipe) /\ WrGo("flush")
    /\ cur' = [i |-> 0, n |-> 0]
    /\ UNCHANGED <<driver, capture, card, medium, faults>> /\ Quiet

(* sd_pcm_sink_flush, every few chunks.                                     *)
WrFlush ==
    /\ WrAt("flush") /\ UNCHANGED <<driver, capture, cur, card, medium>>
    /\ \/ WrGo("peek") /\ UNCHANGED pipe /\ Quiet /\ NoFault
       \/ WrFails("finalize")

(* Faulty variant: the writer does not look for a stop.                     *)
StopUnseen == FALSE

(* recorder_stop_requested once no slot is full.                            *)
StopSeen == stop

WrCheck ==
    /\ WrAt("check") /\ WrGo(IF StopSeen THEN "finalize" ELSE "rotate")
    /\ UNCHANGED <<driver, capture, pipe, cur, card, medium, faults>> /\ Quiet

(* The segment may be due; any step of closing it and opening the next may  *)
(* fail, some of them counted as SD errors.                                 *)
WrRotate ==
    /\ WrAt("rotate") /\ UNCHANGED <<driver, capture, cur, card, medium>>
    /\ \/ UNCHANGED pipe /\ Quiet /\ NoFault
          /\ WrGo(IF StopSeen THEN "finalize" ELSE "sleep")
       \/ WrFails("finalize")
       \/ Fault /\ UNCHANGED pipe /\ EnterError /\ WrGo("finalize")

(* The last segment is closed and put into the manifest.                    *)
WrFinalize ==
    /\ WrAt("finalize") /\ UNCHANGED <<driver, capture, cur, card, medium>>
    /\ \/ WrGo("unready") /\ UNCHANGED pipe /\ Quiet /\ NoFault
       \/ WrFails("unready")

(* Faulty variant: the card is unmounted while events are still ready.      *)
UnmountFirst == mounted' = FALSE /\ UNCHANGED evReady

(* recorder_set_events_ready(false), under the state lock.                  *)
EventsOff == evReady' = FALSE /\ UNCHANGED mounted

WrUnready ==
    /\ WrAt("unready") /\ EventsOff /\ WrGo("unmount")
    /\ UNCHANGED <<driver, capture, pipe, cur, card, faults>> /\ Quiet

WrUnmount ==
    /\ WrAt("unmount") /\ mounted' = FALSE /\ UNCHANGED evReady /\ WrGo("end")
    /\ UNCHANGED <<driver, capture, pipe, cur, card, faults>> /\ Quiet

Writer ==
    \/ WrStart \/ WrWake \/ WrPeek \/ WrWrite \/ WrRelease \/ WrFlush \/ WrCheck
    \/ WrRotate \/ WrFinalize \/ WrUnready \/ WrUnmount

-----------------------------------------------------------------------------
Ended == cap = "end" /\ wrt = "end"

(* The tasks are deleted.                                                   *)
Done == Ended /\ UNCHANGED vars

Next ==
    \/ Sample \/ Capture \/ CapReadFails \/ Writer \/ Done
    \/ \E to \in RecorderStates : AskStop(to)

Spec == Init /\ [][Next]_vars

(* FreeRTOS runs a task that is ready, and a wait that has a timeout ends.  *)
(* Nothing is assumed of the microphone, nor that a stop is ever asked for. *)
FairSpec == Spec /\ WF_vars(Capture) /\ WF_vars(Writer)

-----------------------------------------------------------------------------
CapPoints == {"wait", "init", "record", "loop", "read", "drain", "failed", "check",
              "stopped", "lock", "loss", "signal", "disable", "final", "interim",
              "halt", "deinit", "end"}
WrPoints == {"start", "sleep", "peek", "write", "release", "flush", "check",
             "rotate", "finalize", "unready", "unmount", "end"}

Pipes == [slot : [Slots -> Seq(Nat)], full : [Slots -> BOOLEAN],
          r : Slots, w : Slots, captured : Nat, chunks : Nat, drop : Nat,
          dma : Nat, stall : BOOLEAN, sd : BOOLEAN]

(* Every variable has its type: a slot holds what fits into it and counts   *)
(* as full exactly then, and what was captured is in a slot or was released.*)
TypeOK ==
    /\ mic \in 0..MaxSample /\ lost \in 0..MaxSample /\ snap \in 0..MaxSample
    /\ ovf \in [armed : BOOLEAN, n : 0..MaxSample]
    /\ {dma, buf, card} \subseteq Seq(Nat)
    /\ Len(dma) <= DmaQueue /\ Len(buf) <= ReadSize
    /\ chan \in {"none", "on", "disabled"} /\ res \in {"ok", "timeout", "fail"}
    /\ pipe \in Pipes
    /\ \A i \in Slots : /\ Len(pipe.slot[i]) <= SlotSize
                        /\ pipe.full[i] <=> Len(pipe.slot[i]) = SlotSize
    /\ pipe.captured = pipe.chunks * SlotSize + Len(pipe.slot[0]) + Len(pipe.slot[1])
    /\ cap \in CapPoints /\ wrt \in WrPoints
    /\ cur \in [i : Slots, n : 0..SlotSize]
    /\ state \in RecorderStates
    /\ {evReady, mounted, stop, slotFull, ready} \subseteq BOOLEAN
    /\ faults \in 0..MaxFault

(* The recording is the microphone's samples from the first on: none is     *)
(* missing, none comes twice or out of order, and no slot is refilled or    *)
(* given back while the writer reads it.  What the card holds is what was   *)
(* released, and of the slot in hand what is written.                       *)
Gapless ==
    /\ \A k \in 1..Len(card) : card[k] = k
    /\ wrt \notin {"write", "release"} /\ ~pipe.sd =>
          Len(card) = pipe.chunks * SlotSize
    /\ wrt = "write" => Len(card) = pipe.chunks * SlotSize + cur.n

(* A recording that did not end in ERROR has no loss behind it: the driver  *)
(* dropped nothing up to the moment the channel was off, the slots          *)
(* overflowed nowhere and the card took everything.  And every drop is in   *)
(* the counters, unless the channel could not be turned off.                *)
LossEndsInError ==
    Ended =>
        /\ state # "ERROR" => lost = 0 /\ pipe.drop = 0 /\ ~pipe.sd
        /\ pipe.dma <= lost /\ (faults = 0 => pipe.dma = lost)

(* firmware/components/recorder/README.md, "STOP: drain-then-exit": a slot  *)
(* that was full when the stop was asked for is on the card when the tasks  *)
(* have ended, unless that is in ERROR.                                     *)
DrainThenExit == Ended /\ state # "ERROR" => pipe.chunks >= owed

(* The card is written to, by the recording or by a state event of either   *)
(* task, only while it is mounted.                                          *)
CardWhileMounted == [][card' # card \/ log' # log => mounted]_vars

(* Whoever asks for a stop is rid of both tasks: neither waits for the      *)
(* other, nor for a microphone that has gone quiet.                         *)
StopEnds == stop ~> Ended
=============================================================================
