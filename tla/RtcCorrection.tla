---------------------------- MODULE RtcCorrection ----------------------------
(***************************************************************************)
(* SET_TIME and its audit event (rtc_correction.c, rtc_correction_event.c).*)
(* A correction changes the hardware clock, then the process clock, then   *)
(* stores a pending record in NVS; the host is answered last.  The next    *)
(* manual wake appends the event to events.jsonl and only then erases the  *)
(* record.  Between the two the device is switched off, and the power can  *)
(* be cut at any step of either.                                           *)
(*                                                                         *)
(* events.jsonl has other writers: every boot appends its state changes    *)
(* (recorder_state.c) and the summary of its recovery (wav_recovery.c).    *)
(* Their lines matter here only for what they do to an incomplete tail.    *)
(***************************************************************************)
EXTENDS Calendar, FiniteSets

CONSTANTS
    Requests,    \* the times the host asks for: see Calendar
    MaxSet,      \* SET_TIME commands that reach the hardware
    MaxCrash,    \* power cuts
    FaultKinds,  \* which operations may fail: see Fault
    MaxFault     \* how many of them do

ASSUME RtcBounds ==
    /\ {MaxSet, MaxCrash, MaxFault} \subseteq Nat
    /\ FaultKinds \subseteq {"i2c", "nvs", "io", "tear", "clock"}

VARIABLES
    hw,        \* the BM8563: the correction whose time it holds; running or not
    sys,       \* the correction the process clock was last set from
    link,      \* the I2C transport: down, up, or half torn down
    nvs,       \* the durable pending record: a correctionId, or None
    pend,      \* s_pending and s_pending_record
    armed,     \* the durable shutdown marker: a release not yet woken from
    ev,        \* events.jsonl
    ids,       \* correctionIds drawn so far
    answered,  \* the corrections the host was told OK about
    reply,     \* the answer to the last SET_TIME
    pc,        \* the program point
    crashes, faults

clock == <<hw, sys, link>>
store == <<nvs, pend, armed, ev>>
host == <<ids, answered, reply>>
counts == <<crashes, faults>>
vars == <<hw, sys, link, nvs, pend, armed, ev, ids, answered, reply, pc,
          crashes, faults>>

None == 0
Ids == 1..MaxSet

(* lines: the correctionIds of the rtc_correction lines, in order.  junk: a *)
(* complete line does not parse.  torn: the file does not end in a newline. *)
NoEvents == [lines |-> <<>>, junk |-> FALSE, torn |-> FALSE]

Logged == {ev.lines[k] : k \in 1..Len(ev.lines)}

Init ==
    /\ hw = [time |-> None, run |-> TRUE] /\ sys = None /\ link = "down"
    /\ nvs = None /\ pend = None /\ armed = FALSE /\ ev = NoEvents
    /\ ids = 0 /\ answered = {} /\ reply = "none"
    /\ pc = "off" /\ crashes = 0 /\ faults = 0

At(l) == pc = l
Go(l) == pc' = l

(* An operation fails: "i2c" a transfer, "nvs" a record read, written or    *)
(* erased, "io" a file operation that leaves the file alone, "tear" a write *)
(* that stored some of its bytes, "clock" settimeofday.                     *)
Fault(k) == k \in FaultKinds /\ faults < MaxFault /\ faults' = faults + 1
            /\ UNCHANGED crashes
NoFault == UNCHANGED counts

-----------------------------------------------------------------------------
(* Faulty variant: a wake looks for the record after its recovery only.     *)
InitLateOnly == "recover"

(* Power.  Only the button starts an armed device, and then the boot is a   *)
(* manual wake.  RAM is empty: no lock, no pending flag, no transport, and  *)
(* the process clock starts over.                                           *)
FirstPoint == IF armed THEN "initFirst" ELSE "recover"

PowerOn ==
    /\ At("off") /\ Go(FirstPoint)
    /\ pend' = None /\ link' = "down" /\ sys' = None /\ reply' = "none"
    /\ UNCHANGED <<hw, nvs, armed, ev, ids, answered>> /\ NoFault

(* Points at which a line is on its way to the card.                        *)
Appending == {"recover", "summary", "append", "record", "error"}

PowerCut ==
    /\ ~At("off") /\ crashes < MaxCrash
    /\ crashes' = crashes + 1 /\ Go("off")
    /\ \/ UNCHANGED ev
       \/ pc \in Appending /\ "tear" \in FaultKinds
          /\ ev' = [ev EXCEPT !.torn = TRUE]
    /\ UNCHANGED <<clock, nvs, pend, armed, host, faults>>

(* recorder_shutdown_armed_now after a wake that failed; a normal boot that *)
(* failed waits in ERROR for the power to be switched.                      *)
ShutDown ==
    /\ At("dead") /\ Go("off")
    /\ UNCHANGED <<clock, store, host>> /\ NoFault

-----------------------------------------------------------------------------
(* The other writers of events.jsonl append, and a line that lands behind   *)
(* an incomplete tail completes one that does not parse.                    *)
Appended(e) == [e EXCEPT !.junk = @ \/ e.torn, !.torn = FALSE]

(* recorder_transition_state appends the event first and ends in ERROR, for *)
(* which it appends nothing more, when that fails.                          *)
AppendState(at, next) ==
    /\ At(at) /\ UNCHANGED <<clock, nvs, pend, armed, host>>
    /\ \/ ev' = Appended(ev) /\ Go(next) /\ NoFault
       \/ Fault("io") /\ UNCHANGED ev /\ Go("dead")
       \/ Fault("tear") /\ ev' = [ev EXCEPT !.torn = TRUE] /\ Go("dead")

(* BOOT to RECOVER: before the recovery scan, in either kind of boot.       *)
EnterRecover == AppendState("recover", "summary")

(* RECOVER to RECORDING; then recorder_wait_initial_recording completes a   *)
(* wake, and a normal boot reads the pending record.                        *)
EnterRecording == AppendState("record", IF armed THEN "woken" ELSE "initLate")

(* recorder_enter_error after a failed recovery step: the event is written  *)
(* when it can be.                                                          *)
EnterError == AppendState("error", "dead")

(* wav_recovery_append_summary_event: its result is not looked at.          *)
AppendSummary ==
    /\ At("summary") /\ Go(IF armed THEN "flush" ELSE "record")
    /\ UNCHANGED <<clock, nvs, pend, armed, host>>
    /\ \/ ev' = Appended(ev) /\ NoFault
       \/ Fault("io") /\ UNCHANGED ev
       \/ Fault("tear") /\ ev' = [ev EXCEPT !.torn = TRUE]

-----------------------------------------------------------------------------
(* rtc_load_pending_locked.  A record that is not valid is not there to be  *)
(* read: it counts as a failed read.                                        *)
Loaded == nvs

(* rtc_correction_init: first in a manual wake, which is given up when the  *)
(* record cannot be read; after the recording has started in a normal boot. *)
LoadPending ==
    /\ pc \in {"initFirst", "initLate"}
    /\ UNCHANGED <<clock, nvs, armed, ev, host>>
    /\ \/ pend' = Loaded /\ NoFault
          /\ Go(IF At("initFirst") THEN "recover" ELSE "session")
       \/ Fault("nvs") /\ UNCHANGED pend
          /\ Go(IF At("initFirst") THEN "dead" ELSE "error")

-----------------------------------------------------------------------------
(* Faulty variant: the flush does not look whether a correction is pending. *)
ScanAlways == "scan"

(* rtc_correction_flush_pending_event.  The process clock is restored from  *)
(* the hardware where that can be read, and the transport is taken down as  *)
(* far as it goes; neither is allowed to fail the recovery.                 *)
AfterSync == IF pend = None THEN "mark" ELSE "scan"

(* rtc_hw_init for a transport that is down.                                *)
LinkUp == IF link = "down" THEN "up" ELSE link

(* rtc_hw_deinit removes the device, then the bus, and stops at a failure.  *)
LinkLeft == {"up", "half"}

SyncClock ==
    /\ At("flush") /\ Go(AfterSync)
    /\ \/ sys' = hw.time /\ link' = "down" /\ NoFault
       \/ /\ Fault("i2c")
          /\ \/ sys' = sys /\ link' = "down"
             \/ sys' = hw.time /\ link' \in LinkLeft
       \/ Fault("clock") /\ sys' = sys /\ link' = "down"
    /\ UNCHANGED <<hw, store, host>>

Trimmed == [ev EXCEPT !.torn = FALSE]

(* Faulty variant: a line of the same correctionId is not recognised.       *)
FoundNever == FALSE

(* classify_complete_event_line for the pending correction.                 *)
Found == pend \in Logged

(* rtc_correction_recover_event: every complete line is read, one that does *)
(* not parse ends the recovery, and an incomplete tail is cut off.          *)
ScanEvents ==
    /\ At("scan") /\ UNCHANGED <<clock, nvs, pend, armed, host>>
    /\ \/ ev.junk /\ Go("error") /\ UNCHANGED ev /\ NoFault
       \/ ~ev.junk /\ ev' = Trimmed /\ NoFault
          /\ Go(IF Found THEN "clear" ELSE "append")
       \/ ~ev.junk /\ Fault("io") /\ ev' \in {ev, Trimmed} /\ Go("error")

(* The line, its fsync and the fclose are the durable boundary: a failure   *)
(* after the bytes are out leaves the whole line behind and the record set. *)
AppendEvent ==
    /\ At("append") /\ UNCHANGED <<clock, nvs, pend, armed, host>>
    /\ LET whole == [ev EXCEPT !.lines = Append(@, pend)] IN
       \/ ev' = whole /\ Go("clear") /\ NoFault
       \/ Fault("io") /\ ev' \in {ev, whole} /\ Go("error")
       \/ Fault("tear") /\ ev' = [ev EXCEPT !.torn = TRUE] /\ Go("error")

(* rtc_correction_clear_pending_nvs.  An erase that fails may have erased.  *)
ClearPending ==
    /\ At("clear") /\ UNCHANGED <<clock, armed, ev, host>>
    /\ \/ nvs' = None /\ pend' = None /\ Go("mark") /\ NoFault
       \/ Fault("nvs") /\ nvs' \in {nvs, None} /\ UNCHANGED pend /\ Go("error")

(* The durable marker follows the flush, in task87_wake_recovery.c: first   *)
(* the gate of a wake in progress, and normal once a recording has started. *)
MarkWake ==
    /\ At("mark") /\ UNCHANGED <<clock, store, host>>
    /\ \/ Go("record") /\ NoFault
       \/ Fault("nvs") /\ Go("error")

CompleteWake ==
    /\ At("woken") /\ UNCHANGED <<clock, nvs, pend, ev, host>>
    /\ \/ armed' = FALSE /\ Go("session") /\ NoFault
       \/ Fault("nvs") /\ Go("error") /\ UNCHANGED armed

-----------------------------------------------------------------------------
(* rtc_correction_apply, called for a SET_TIME of the open session.         *)
Refuse(r) == reply' = r /\ Go("session") /\ UNCHANGED <<ids, answered>>

(* Faulty variant: a second correction is let through.                      *)
BusyNever == FALSE

(* s_pending, read under the lock.                                          *)
AlreadyPending == pend # None

(* A request is judged before the pending flag is.                          *)
RejectRequest(r) ==
    /\ At("session") /\ Parse(r) # "ok" /\ Refuse(Parse(r))
    /\ UNCHANGED <<clock, store>> /\ NoFault

Busy(r) ==
    /\ At("session") /\ Parse(r) = "ok" /\ AlreadyPending /\ Refuse("busy")
    /\ UNCHANGED <<clock, store>> /\ NoFault

(* rtc_make_correction_id: a UUID never drawn before.                       *)
NextId == ids + 1

(* The transport comes up on first use.  One that is half torn down counts  *)
(* as up, and every transfer over it fails.                                 *)
BeginSetTime(r) ==
    /\ At("session") /\ Parse(r) = "ok" /\ ~AlreadyPending /\ ids < MaxSet
    /\ UNCHANGED <<hw, sys, store, answered>> /\ reply' = "none"
    /\ \/ ids' = NextId /\ link' = LinkUp /\ Go("stop") /\ NoFault
       \/ link = "down" /\ Fault("i2c") /\ UNCHANGED <<ids, link>>
          /\ Go("refused")

Refused ==
    /\ At("refused") /\ Refuse("error")
    /\ UNCHANGED <<clock, store>> /\ NoFault

(* Faulty variant: the chip's start is not checked.                         *)
StartUnchecked(at) ==
    IF at = "payload" THEN "restart" ELSE IF at = "start" THEN "settime" ELSE "refused"

AfterFailure(at) == IF at = "payload" THEN "restart" ELSE "refused"

(* rtc_hw_write_epoch: stop, write the registers, start.  A transfer that   *)
(* is reported failed may have reached the chip.                            *)
Transfer(at, next, effect) ==
    /\ At(at) /\ link = "up" /\ UNCHANGED <<sys, link, store, host>>
    /\ \/ hw' = effect /\ Go(next) /\ NoFault
       \/ Fault("i2c") /\ hw' \in {hw, effect} /\ Go(AfterFailure(at))

StopClock == Transfer("stop", "payload", [hw EXCEPT !.run = FALSE])
WriteClock == Transfer("payload", "start", [hw EXCEPT !.time = ids])
StartClock == Transfer("start", "settime", [hw EXCEPT !.run = TRUE])

TransferRefused ==
    /\ At("stop") /\ link = "half" /\ Go("refused")
    /\ UNCHANGED <<clock, store, host>> /\ NoFault

(* The chip is started again after a failed write, whatever that returns.   *)
RestartClock ==
    /\ At("restart") /\ Go("refused") /\ UNCHANGED <<sys, link, store, host>>
    /\ \/ hw' = [hw EXCEPT !.run = TRUE] /\ NoFault
       \/ Fault("i2c") /\ hw' \in {hw, [hw EXCEPT !.run = TRUE]}

(* settimeofday: when it fails the chip has its new time already.           *)
SetSystemTime ==
    /\ At("settime") /\ UNCHANGED <<hw, link, store, host>>
    /\ \/ sys' = ids /\ Go("commit") /\ NoFault
       \/ Fault("clock") /\ UNCHANGED sys /\ Go("refused")

(* The record is stored; a store that fails may have stored it.             *)
CommitPending ==
    /\ At("commit") /\ UNCHANGED <<clock, pend, armed, ev, host>>
    /\ \/ nvs' = ids /\ Go("publish") /\ NoFault
       \/ Fault("nvs") /\ nvs' \in {nvs, ids} /\ Go("refused")

Publish ==
    /\ At("publish") /\ Go("session")
    /\ pend' = ids /\ reply' = "ok" /\ answered' = answered \cup {ids}
    /\ UNCHANGED <<clock, nvs, armed, ev, ids>> /\ NoFault

(* The host releases the storage: the marker is armed and the device off.   *)
Release ==
    /\ At("session") /\ armed' = TRUE /\ Go("off")
    /\ UNCHANGED <<clock, nvs, pend, ev, host>> /\ NoFault

-----------------------------------------------------------------------------
Device ==
    \/ EnterRecover \/ AppendSummary \/ EnterRecording \/ EnterError
    \/ LoadPending \/ SyncClock \/ ScanEvents \/ AppendEvent \/ ClearPending
    \/ MarkWake \/ CompleteWake \/ Refused \/ TransferRefused \/ StopClock
    \/ WriteClock \/ StartClock \/ RestartClock \/ SetSystemTime
    \/ CommitPending \/ Publish

Operator == PowerOn \/ ShutDown \/ Release

Next ==
    \/ Device \/ Operator \/ PowerCut
    \/ \E r \in Requests : RejectRequest(r) \/ Busy(r) \/ BeginSetTime(r)

Spec == Init /\ [][Next]_vars

(* The device's steps are taken; its owner switches it on, presses the      *)
(* button and releases it again and again, and need not send a SET_TIME.    *)
Fairness == WF_vars(Device) /\ WF_vars(PowerOn) /\ WF_vars(ShutDown)
            /\ WF_vars(Release)
FairSpec == Spec /\ Fairness

-----------------------------------------------------------------------------
Points == {"off", "initFirst", "initLate", "recover", "summary", "flush",
           "scan", "append", "clear", "mark", "record", "woken", "error",
           "dead", "session", "refused", "stop", "payload", "start", "restart",
           "settime", "commit", "publish"}

(* Every variable has its type; the pending flag and its record are one.    *)
TypeOK ==
    /\ hw \in [time : Ids \cup {None}, run : BOOLEAN]
    /\ sys \in Ids \cup {None} /\ link \in {"down", "up", "half"}
    /\ {nvs, pend} \subseteq Ids \cup {None} /\ armed \in BOOLEAN
    /\ ev \in [lines : Seq(Ids), junk : BOOLEAN, torn : BOOLEAN]
    /\ ids \in 0..MaxSet /\ answered \subseteq Ids
    /\ reply \in {"none", "ok", "busy", "range", "invalid", "error"}
    /\ pc \in Points
    /\ crashes \in 0..MaxCrash /\ faults \in 0..MaxFault

(* rtc_correction.h, "append exactly one durable rtc_correction JSONL       *)
(* event": however often the flush is cut off and replayed, an event is in  *)
(* the log once.                                                            *)
OneEvent == \A j, k \in 1..Len(ev.lines) : ev.lines[j] = ev.lines[k] => j = k

(* A correction the host was told OK about, or that this boot holds as      *)
(* pending, is not forgotten: until its event is in the log its record      *)
(* stays in NVS, over power cuts, failed erasures and further SET_TIME      *)
(* commands, one of which may have been reported failed and still have      *)
(* stored its own record.                                                   *)
AnsweredIsKept ==
    answered \cup ({pend} \ {None}) \subseteq Logged \cup {nvs}

(* What the host was told of the clock stays true: after an OK the hardware *)
(* runs on the requested time, over power cuts and wakes, until another     *)
(* SET_TIME reaches it; and a wake that could read it has the process clock *)
(* on it before the recording it names by that clock.                       *)
ClockAsAnswered ==
    ids \in answered =>
        /\ hw = [time |-> ids, run |-> TRUE]
        /\ pc \in {"scan", "append", "clear", "mark", "woken"} =>
               sys = ids \/ faults > 0

(* The requested instant becomes the process clock twice, at once and from  *)
(* the registers in the next wake: for every instant a SET_TIME may set,    *)
(* leap days and the ends of the century included, both are that instant.   *)
RestoredExactly == pc \in {"settime", "flush"} => CalendarExact

(* Every correction the host was told OK about reaches the log: the wakes   *)
(* that follow append it, unless a line of events.jsonl does not parse.     *)
LoggedUnlessJunk ==
    \A i \in Ids : (i \in answered) ~> (i \in Logged \/ ev.junk)

(* rtc_correction_event.c, "Remove only that tail, preserving all complete  *)
(* prior JSONL records, then append the authoritative complete event        *)
(* below": an incomplete tail does not keep a correction from the log.      *)
LoggedInTheEnd == \A i \in Ids : (i \in answered) ~> (i \in Logged)
=============================================================================
