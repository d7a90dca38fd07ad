------------------------- MODULE RtcCorrection_proofs -------------------------
(***************************************************************************)
(* Proofs about RtcCorrection, for any requests and any number of          *)
(* corrections, power cuts and failing operations.                         *)
(***************************************************************************)
EXTENDS RtcCorrection, Calendar_proofs

(* Points of one SET_TIME, from the draw of its id to its answer.           *)
Setting == {"stop", "payload", "start", "restart", "settime", "commit", "publish"}

(* Points a boot reaches after it has read the pending record: a manual     *)
(* wake reads it first, a normal boot once the recording has started.       *)
Read ==
    \/ pc \in {"flush", "scan", "append", "clear", "mark", "woken", "session",
               "refused"} \cup Setting
    \/ armed /\ pc \in {"recover", "summary", "record"}

Alive == pc \notin {"off", "error", "dead"}

(* Ids are drawn in order, so a fresh one is nowhere yet.                   *)
DrawnSoFar ==
    /\ answered \subseteq 1..ids
    /\ pc \in Setting => pend = None /\ ids \in Ids /\ ids \notin answered

(* What this boot holds as pending is what is stored, as long as the boot   *)
(* may act on it; and where nothing is pending, nothing stored is owed.     *)
PendingIsStored ==
    /\ Alive /\ pend # None => nvs = pend
    /\ Read /\ pend = None /\ nvs \in answered => nvs \in Logged
    /\ pc = "publish" => nvs = ids

(* The flush: only a pending correction is looked for, appended where it is *)
(* not in the log and erased where it is.                                   *)
Flushing ==
    /\ pc \in {"scan", "append", "clear"} => pend # None
    /\ pc = "append" => pend \notin Logged
    /\ pc = "clear" => pend \in Logged

(* The hardware at each point of rtc_hw_write_epoch, and the process clock  *)
(* from its restoration in a wake to the recording.                         *)
ClockWritten ==
    /\ pc = "start" => hw.time = ids
    /\ pc \in {"settime", "commit", "publish"} => hw = [time |-> ids, run |-> TRUE]
    /\ ids \in answered =>
          /\ hw = [time |-> ids, run |-> TRUE]
          /\ \/ pc \in {"scan", "append", "clear", "mark", "woken"}
             \/ armed /\ pc = "record"
             => sys = ids \/ faults > 0

(* The inductive invariant.                                                 *)
IInv ==
    /\ TypeOK
    /\ DrawnSoFar /\ PendingIsStored /\ Flushing /\ ClockWritten
    /\ OneEvent /\ AnsweredIsKept
-----------------------------------------------------------------------------
(* Lemmas that look at every action: which step can touch what.             *)
USE RtcBounds DEF Ids, None, Next, Device, Operator, PowerOn, PowerCut, ShutDown,
    AppendState, EnterRecover, EnterRecording, EnterError, AppendSummary, LoadPending,
    SyncClock, ScanEvents, AppendEvent, ClearPending, MarkWake, CompleteWake,
    RejectRequest, Busy, BeginSetTime, Refused, Transfer, StopClock, WriteClock,
    StartClock, TransferRefused, RestartClock, SetSystemTime, CommitPending, Publish,
    Release, Refuse, Go, At, Fault, NoFault, clock, store, host, counts, FirstPoint,
    AfterSync, AfterFailure, NextId, AlreadyPending, Loaded

(* events.jsonl is left alone, completed, torn, trimmed or appended to.     *)
LEMMA LogStep ==
    ASSUME Next
    PROVE  \/ ev' \in {ev, Appended(ev), [ev EXCEPT !.torn = TRUE], Trimmed}
           \/ At("append") /\ ev' = [ev EXCEPT !.lines = Append(@, pend)]
  OBVIOUS

(* The registers of the chip change only while a SET_TIME is being written. *)
LEMMA HwStep ==
    ASSUME Next
    PROVE  \/ hw' = hw
           \/ At("stop") /\ hw' = [hw EXCEPT !.run = FALSE]
           \/ At("payload") /\ hw' = [hw EXCEPT !.time = ids]
           \/ pc \in {"start", "restart"} /\ hw' = [hw EXCEPT !.run = TRUE]
  OBVIOUS

HIDE DEF Next

(* The flush never appends the id of no correction.                         *)
LEMMA LogType ==
    ASSUME IInv, Next
    PROVE  ev' \in [lines : Seq(Ids), junk : BOOLEAN, torn : BOOLEAN]
<1>1. ev \in [lines : Seq(Ids), junk : BOOLEAN, torn : BOOLEAN]
  BY DEF IInv, TypeOK
<1>2. At("append") => pend \in Ids
  BY DEF IInv, TypeOK, Flushing, At
<1>3. CASE ev' \in {ev, Appended(ev), [ev EXCEPT !.torn = TRUE], Trimmed}
  BY <1>1, <1>3 DEF Appended, Trimmed
<1>4. CASE At("append") /\ ev' = [ev EXCEPT !.lines = Append(@, pend)]
  <2>1. Append(ev.lines, pend) \in Seq(Ids)
    BY <1>1, <1>2, <1>4
  <2>. QED BY <1>1, <1>4, <2>1
<1>. QED BY <1>3, <1>4, LogStep

(* A line is only ever added to the log, and only where the flush does it.  *)
LEMMA LinesStep ==
    ASSUME IInv, Next
    PROVE  \/ ev'.lines = ev.lines
           \/ At("append") /\ ev'.lines = Append(ev.lines, pend)
<1>1. ev \in [lines : Seq(Ids), junk : BOOLEAN, torn : BOOLEAN]
  BY DEF IInv, TypeOK
<1>. QED BY <1>1, LogStep DEF Appended, Trimmed

(* The events of a log with one more line.                                  *)
LEMMA LoggedAppended ==
    ASSUME IInv, ev'.lines = Append(ev.lines, pend)
    PROVE  Logged' = Logged \cup {pend}
<1>. DEFINE s == ev.lines
           t == Append(s, pend)
<1>1. /\ Len(s) \in Nat /\ Len(t) = Len(s) + 1 /\ t[Len(s) + 1] = pend
      /\ \A k \in 1..Len(s) : t[k] = s[k]
  BY DEF IInv, TypeOK
<1>2. Logged = {s[k] : k \in 1..Len(s)} /\ Logged' = {t[k] : k \in 1..Len(t)}
  BY DEF Logged
<1>. HIDE DEF s, t
<1>. QED BY <1>1, <1>2, SMTT(60)

(* So is an event.                                                          *)
LEMMA LoggedStep ==
    ASSUME IInv, Next
    PROVE  Logged' = Logged \/ (At("append") /\ Logged' = Logged \cup {pend})
<1>1. CASE ev'.lines = ev.lines
  BY <1>1 DEF Logged
<1>. QED BY <1>1, LinesStep, LoggedAppended

(* What is appended was not there.                                          *)
LEMMA OneEventStep == ASSUME IInv, Next PROVE OneEvent'
<1>1. ev.lines \in Seq(Ids) /\ OneEvent
  BY DEF IInv, TypeOK
<1>2. CASE ev'.lines = ev.lines
  BY <1>1, <1>2 DEF OneEvent
<1>3. CASE At("append") /\ ev'.lines = Append(ev.lines, pend)
  <2>. DEFINE s == ev.lines
             t == Append(s, pend)
  <2>1. /\ Len(s) \in Nat /\ Len(t) = Len(s) + 1 /\ t[Len(s) + 1] = pend
        /\ \A k \in 1..Len(s) : t[k] = s[k]
    BY <1>1
  <2>2. \A k \in 1..Len(s) : s[k] # pend
    BY <1>3 DEF IInv, Flushing, Logged, At
  <2>3. \A j, k \in 1..Len(s) : s[j] = s[k] => j = k
    BY <1>1 DEF OneEvent
  <2>4. OneEvent' = \A j, k \in 1..Len(t) : t[j] = t[k] => j = k
    BY <1>3 DEF OneEvent
  <2>. HIDE DEF s, t
  <2>. QED BY <2>1, <2>2, <2>3, <2>4
<1>. QED BY <1>2, <1>3, LinesStep

-----------------------------------------------------------------------------
(* Each part of the invariant, over every action.                           *)
USE DEF Next

LEMMA TypeStep == ASSUME IInv, Next PROVE TypeOK'
<1>1. hw' \in [time : Ids \cup {None}, run : BOOLEAN]
  <2>1. hw \in [time : Ids \cup {None}, run : BOOLEAN] /\ ids \in Ids \cup {None}
    BY DEF IInv, TypeOK
  <2>. HIDE DEF Next
  <2>. QED BY <2>1, HwStep
<1>2. sys' \in Ids \cup {None} /\ link' \in {"down", "up", "half"}
  BY DEF IInv, TypeOK, LinkUp, LinkLeft
<1>3. nvs' \in Ids \cup {None} /\ pend' \in Ids \cup {None}
  BY DEF IInv, TypeOK, Loaded
<1>4. armed' \in BOOLEAN
  BY DEF IInv, TypeOK
<1>5. ids' \in 0..MaxSet
  BY DEF IInv, TypeOK, NextId
<1>6. answered' \subseteq Ids
  BY DEF IInv, TypeOK, DrawnSoFar, Setting
<1>7. reply' \in {"none", "ok", "busy", "range", "invalid", "error"}
  BY DEF IInv, TypeOK, Parse
<1>8. pc' \in Points
  BY DEF IInv, TypeOK, Points, FirstPoint, AfterSync, AfterFailure
<1>9. crashes' \in 0..MaxCrash /\ faults' \in 0..MaxFault
  BY SMTT(60) DEF IInv, TypeOK
<1>. HIDE DEF Next
<1>. QED BY <1>1, <1>2, <1>3, <1>4, <1>5, <1>6, <1>7, <1>8, <1>9, LogType DEF TypeOK

(* An id is drawn once.                                                     *)
LEMMA DrawnStep == ASSUME IInv, Next PROVE DrawnSoFar'
<1>. USE DEF Setting
<1>1. (answered \subseteq 1..ids)'
  BY DEF IInv, TypeOK, DrawnSoFar
<1>2. pc' \in Setting => pend' = None /\ ids' \in Ids
  BY SMTT(60) DEF IInv, TypeOK, DrawnSoFar
<1>3. pc' \in Setting => ids' \notin answered'
  BY SMTT(60) DEF IInv, TypeOK, DrawnSoFar
<1>. QED BY <1>1, <1>2, <1>3 DEF DrawnSoFar

(* The record, over a store and an erase that may have happened.            *)
LEMMA StoredStep == ASSUME IInv, Next PROVE PendingIsStored'
<1>. USE DEF Setting, Read, Alive
<1>0. Logged \subseteq Logged'
  <2>. HIDE DEF Next
  <2>. QED BY LoggedStep
<1>1. Alive' /\ pend' # None => nvs' = pend'
  BY DEF IInv, TypeOK, DrawnSoFar, PendingIsStored
<1>2. Read' /\ pend' = None /\ nvs' \in answered' => nvs' \in Logged'
  BY <1>0, SMTT(60) DEF IInv, TypeOK, DrawnSoFar, PendingIsStored, Flushing
<1>3. pc' = "publish" => nvs' = ids'
  BY DEF IInv, TypeOK, DrawnSoFar, PendingIsStored
<1>. QED BY <1>1, <1>2, <1>3 DEF PendingIsStored

(* The flush acts on a pending record only, and as the log says.            *)
LEMMA FlushStep == ASSUME IInv, Next PROVE Flushing'
<1>. USE DEF Found
<1>0. Logged' = Logged \/ (At("append") /\ Logged' = Logged \cup {pend})
  <2>. HIDE DEF Next
  <2>. QED BY LoggedStep
<1>1. pc' \in {"scan", "append", "clear"} => pend' # None
  BY SMTT(60) DEF IInv, TypeOK, Flushing
<1>2. pc' = "append" => pend' \notin Logged'
  BY <1>0 DEF IInv, TypeOK, Flushing
<1>3. pc' = "clear" => pend' \in Logged'
  <2>1. CASE ScanEvents
    BY <1>0, <2>1 DEF IInv, TypeOK, Flushing
  <2>2. CASE AppendEvent
    <3>1. pc' = "clear" => ev'.lines = Append(ev.lines, pend) /\ pend' = pend
      BY <2>2 DEF IInv, TypeOK
    <3>. QED BY <3>1, LoggedAppended
  <2>. QED BY <2>1, <2>2, <1>0 DEF IInv, TypeOK, Flushing
<1>. QED BY <1>1, <1>2, <1>3 DEF Flushing

(* The hardware follows the answers, the process clock the hardware.        *)
LEMMA ClockStep == ASSUME IInv, Next PROVE ClockWritten'
<1>0. hw \in [time : Ids \cup {None}, run : BOOLEAN]
  BY DEF IInv, TypeOK
<1>1. pc' = "start" => hw'.time = ids'
  BY <1>0 DEF IInv, TypeOK, ClockWritten
<1>2. pc' \in {"settime", "commit", "publish"} => hw' = [time |-> ids', run |-> TRUE]
  BY <1>0, SMTT(60) DEF IInv, TypeOK, ClockWritten
<1>3. ids' \in answered' => hw' = [time |-> ids', run |-> TRUE]
  <2>1. CASE ids \in answered
    <3>1. pc \notin Setting /\ hw = [time |-> ids, run |-> TRUE]
      BY <2>1 DEF IInv, DrawnSoFar, ClockWritten
    <3>2. hw' = hw
      <4>. HIDE DEF Next
      <4>. QED BY <3>1, HwStep DEF Setting
    <3>3. ids' \in answered' => ids' = ids
      BY <3>1 DEF IInv, TypeOK, DrawnSoFar, Setting
    <3>. QED BY <3>1, <3>2, <3>3
  <2>2. CASE ids \notin answered
    <3>1. ids' \in answered' => Publish
      BY <2>2 DEF IInv, TypeOK, DrawnSoFar
    <3>. QED BY <3>1 DEF IInv, ClockWritten
  <2>. QED BY <2>1, <2>2
<1>4. ASSUME ids' \in answered',
             \/ pc' \in {"scan", "append", "clear", "mark", "woken"}
             \/ armed' /\ pc' = "record"
      PROVE  sys' = ids' \/ faults' > 0
  BY <1>0, <1>4 DEF IInv, TypeOK, DrawnSoFar, ClockWritten
<1>. QED BY <1>1, <1>2, <1>3, <1>4 DEF ClockWritten

(* A record is overwritten or erased only when nothing is owed for it.      *)
LEMMA KeptStep == ASSUME IInv, Next PROVE AnsweredIsKept'
<1>0. Logged \subseteq Logged'
  <2>. HIDE DEF Next
  <2>. QED BY LoggedStep
<1>1. ASSUME NEW i \in answered' PROVE i \in Logged' \/ i = nvs'
  <2>1. i \in answered => i \in Logged \/ i = nvs
    BY DEF IInv, AnsweredIsKept
  <2>2. CASE ClearPending
    BY <1>0, <1>1, <2>1, <2>2 DEF IInv, PendingIsStored, Flushing, Alive
  <2>3. CASE CommitPending
    BY <1>0, <1>1, <2>1, <2>3 DEF IInv, DrawnSoFar, PendingIsStored, Setting, Read
  <2>4. CASE Publish
    BY <1>0, <1>1, <2>1, <2>4 DEF IInv, DrawnSoFar, PendingIsStored, Setting
  <2>5. ClearPending \/ CommitPending \/ Publish \/ (answered' = answered /\ nvs' = nvs)
    OBVIOUS
  <2>. QED BY <1>0, <1>1, <2>1, <2>2, <2>3, <2>4, <2>5
<1>2. pend' # None => pend' \in Logged' \/ pend' = nvs'
  BY <1>0 DEF IInv, TypeOK, DrawnSoFar, PendingIsStored, Flushing, AnsweredIsKept,
     Setting
<1>. QED BY <1>1, <1>2 DEF AnsweredIsKept

HIDE RtcBounds DEF Ids, None, Next, Device, Operator, PowerOn, PowerCut, ShutDown,
    AppendState, EnterRecover, EnterRecording, EnterError, AppendSummary, LoadPending,
    SyncClock, ScanEvents, AppendEvent, ClearPending, MarkWake, CompleteWake,
    RejectRequest, Busy, BeginSetTime, Refused, Transfer, StopClock, WriteClock,
    StartClock, TransferRefused, RestartClock, SetSystemTime, CommitPending, Publish,
    Release, Refuse, Go, At, Fault, NoFault, clock, store, host, counts, FirstPoint,
    AfterSync, AfterFailure, NextId, AlreadyPending, Loaded

-----------------------------------------------------------------------------
(* The three facts of the invariant.                                        *)
LEMMA InitInv == Init => IInv
<1>. SUFFICES ASSUME Init PROVE IInv
  OBVIOUS
<1>1. ev.lines = <<>> /\ ev.lines \in Seq(Ids) /\ Logged = {}
  BY DEF Init, NoEvents, Logged
<1>2. TypeOK
  <2>1. ev \in [lines : Seq(Ids), junk : BOOLEAN, torn : BOOLEAN]
    BY <1>1 DEF Init, NoEvents
  <2>2. 0 \in 0..MaxSet /\ 0 \in 0..MaxCrash /\ 0 \in 0..MaxFault
    BY RtcBounds
  <2>. QED BY <2>1, <2>2 DEF Init, TypeOK, None, Points
<1>3. OneEvent
  BY <1>1 DEF OneEvent
<1>. QED BY <1>1, <1>2, <1>3 DEF Init, None, IInv, DrawnSoFar, PendingIsStored,
     Flushing, ClockWritten, AnsweredIsKept, Setting, Read, Alive

LEMMA NextInv == IInv /\ [Next]_vars => IInv'
<1>1. ASSUME IInv, Next PROVE IInv'
  BY <1>1, TypeStep, DrawnStep, StoredStep, FlushStep, ClockStep, OneEventStep,
     KeptStep DEF IInv
<1>2. ASSUME IInv, UNCHANGED vars PROVE IInv'
  BY <1>2 DEF vars, IInv, TypeOK, DrawnSoFar, PendingIsStored, Flushing, ClockWritten,
     OneEvent, AnsweredIsKept, Setting, Read, Alive, Logged
<1>. QED BY <1>1, <1>2

LEMMA Invariance == Spec => []IInv
  BY InitInv, NextInv, PTL DEF Spec

(* Every variable keeps its type: no correction of no id is ever appended,  *)
(* whatever fails and whenever the power goes.                              *)
THEOREM TypeSafety == Spec => []TypeOK
<1>1. IInv => TypeOK
  BY DEF IInv
<1>. QED BY <1>1, Invariance, PTL

(* However often the flush is cut off and replayed, an event is in the log  *)
(* once (OneEvent).                                                         *)
THEOREM EventsAreUnique == Spec => []OneEvent
<1>1. IInv => OneEvent
  BY DEF IInv
<1>. QED BY <1>1, Invariance, PTL

(* An answered or pending correction is in the log or in NVS                *)
(* (AnsweredIsKept), over any number of cuts and failures.                  *)
THEOREM AnswersAreKept == Spec => []AnsweredIsKept
<1>1. IInv => AnsweredIsKept
  BY DEF IInv
<1>. QED BY <1>1, Invariance, PTL

(* After an OK the hardware runs on that time until another SET_TIME        *)
(* reaches it, and a wake without a fault has the process clock on it       *)
(* (ClockAsAnswered).                                                       *)
THEOREM ClockIsAsAnswered == Spec => []ClockAsAnswered
<1>1. IInv => ClockAsAnswered
  BY DEF IInv, ClockWritten, ClockAsAnswered
<1>. QED BY <1>1, Invariance, PTL

(* Where a clock is set, the calendar is exact (RestoredExactly): the date  *)
(* arithmetic, the registers and the window, each for all its inputs.       *)
THEOREM ClockIsRestoredExactly == Spec => []RestoredExactly
<1>1. RestoredExactly
  BY CalendarIsExact DEF RestoredExactly
<1>. QED BY <1>1, PTL
=============================================================================
