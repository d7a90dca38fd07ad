------------------------- MODULE UsbOwnership_proofs -------------------------
(***************************************************************************)
(* Proofs about UsbOwnership, for any number of boots: who owns the medium *)
(* after any interleaving of the tasks and any power cut.                  *)
(***************************************************************************)
EXTENDS UsbOwnership, TLAPS

Teardown == {"withdraw", "unmount", "delete", "unmounted", "exit"}
Logging  == {"announce", "prepare", "wakeHook", "open", "record", "finalize",
             "withdraw"}
Started  == {"usbStart", "usbStarted", "done"}

(* With the power off nothing volatile is left, and before the recorder's   *)
(* tasks exist the main task is alone.                                      *)
ColdStart ==
    power = "off" \/ pc["main"] \in {"gate", "spawn"} =>
        /\ \A p \in Procs \ {"main"} : pc[p] = "none"
        /\ power = "off" => pc["main"] = "none" /\ wake = {}
        /\ done = {} /\ storage = "none" /\ sd = {} /\ usb = {} /\ rec = {}

(* Which task can do what: the coordinator exists only once the main task   *)
(* starts USB, an ended task does nothing, only the writer holds the log.   *)
Contexts ==
    /\ pc["coord"] # "none" => pc["main"] \in Started
    /\ \A p \in done : pc[p] = "none"
    /\ "eventsReady" \in rec => pc["writer"] \in Logging
    /\ "started" \in usb => pc["main"] = "done"
    /\ "starting" \in usb => pc["main"] = "usbStarted"

(* A writer that stopped without an ERROR has closed its last segment.      *)
ErrorOrFinalized ==
    pc["writer"] \in Teardown \/ "writer" \in done => state = "ERROR" \/ finalized

(* What the coordinator has established at each point of a publication.     *)
Publishing ==
    /\ pc["coord"] \in {"mark", "transfer"} => done = Tasks /\ finalized
    /\ pc["coord"] = "transfer" => nvs = "HOST_UNRESOLVED"
    /\ "usbOwned" \in usb => done = Tasks

(* ... and of a release.                                                    *)
Releasing ==
    /\ pc["coord"] \in {"delete", "arm"} =>
          /\ "usbOwned" \in usb /\ Clear({"started", "starting"}, usb)
          /\ pc["main"] = "done"
    /\ pc["coord"] = "delete" => "release" \in usb /\ "waiting" \notin usb
    /\ pc["coord"] = "arm" => storage = "none"
    /\ pc["coord"] \in {"arm", "sleep"} => ~exposed

(* No boot is on its way to mount an exposed medium.                        *)
NoMountAhead == exposed => pc["main"] # "spawn" /\ pc["writer"] # "mount"

(* A boot that goes on without a wake recovery found a NORMAL marker.       *)
BootProof ==
    \/ pc["main"] \in {"spawn", "waitRec"} /\ "pending" \notin wake
    \/ pc["main"] \in {"usbInit", "usbStart", "usbStarted"}
    \/ Driver
    => "pending" \notin wake /\ nvs \in {"NORMAL", "HOST_UNRESOLVED"}

Safe == /\ ColdStart /\ Contexts /\ ErrorOrFinalized /\ Publishing /\ Releasing
        /\ NoMountAhead /\ BootProof
        /\ OneOwner /\ ExposedStaysUnmounted /\ PublishedFinalized

(* The inductive invariant.                                                 *)
IInv == TypeOK /\ Safe

-----------------------------------------------------------------------------
(* Type correctness is inductive by itself: whatever a task does leaves     *)
(* every variable in its type.                                              *)
LEMMA TypeStep == ASSUME TypeOK, Next PROVE TypeOK'
<1> USE DEF TypeOK, Next, MainTask, WriterTask, OtherTasks, UsbTask, CdcTask,
    CoordTask, PublishMedium, ReleaseMedium, PowerCut, PowerOn, ShutdownNow,
    BootGate, SpawnTasks, SpawnWithoutSync, SpawnFails, WaitStopped,
    WaitRecording, UsbInit, UsbStart,
    UsbStarted, WriterMount, WriterRecover, WriterAnnounce, WriterPrepare,
    WriterWakeHook, WriterOpen, WriterRecord, WriterFinalize, WriterWithdraw,
    WriterUnmount, WriterDelete, WriterUnmounted, WriterExit, CaptureWait,
    CaptureInit, CaptureReady, CaptureRun, CaptureTeardown, BatteryWait,
    BatteryRun, BatteryStop, Attached, Detached, ScsiStartsPublication,
    ScsiEndsReconnect, HostWrite, HostWriteQueued, DeferredWrite,
    AcceptRelease, ReleaseResponse, TakeFailed, TakeQuiesced, TakeAttach,
    BeginPrepare, AnnouncePrepare, ReleaseForUsb, StopRecorder, JoinRecorder,
    MarkUnresolved, Publishable, TransferToUsb, Reconnect, TakeHostOwned, TakeReattached,
    ReopenSession, TakeRelease, ResetSession, QuiesceDriver,
    ReleaseUsbStorage, ArmShutdown, SleepNow, AttachProvisional,
    AttachPublished, AttachAgain, Raise, EndTask, Abandon, Signal, UsbFail,
    TransitionOk, TransitionFails, CoordRest, WriterOnly, TaskOnly,
    CallbackOnly, Take, WriteFailed, MarkWakePending, FinalizeFails,
    BatteryStops, MountedSd, Cold, PowerOff, DeleteFails, SleepFails, RecOnly,
    SdOnly, Durable, medium, recorder
<1>1. power' \in {"on", "off"} /\ boots' \in Nat
  OBVIOUS
<1>13. exposed' \in BOOLEAN
  OBVIOUS
<1>14. finalized' \in BOOLEAN
  OBVIOUS
<1>2. nvs' \in Lifecycles
  BY DEF Lifecycles
<1>3. storage' \in {"none", "app", "usb"}
  OBVIOUS
<1>4. sd' \subseteq SdFlags
  BY DEF SdFlags
<1>5. usb' \subseteq UsbFlags
  BY DEF UsbFlags
<1>6. bus' \subseteq BusFlags
  BY DEF BusFlags
<1>7. events' \subseteq Events
  BY DEF Events
<1>8. state' \in RecorderStates
  BY DEF RecorderStates
<1>9. rec' \subseteq RecFlags
  BY DEF RecFlags
<1>10. done' \subseteq Tasks
  BY DEF Tasks
<1>11. wake' \subseteq WakeFlags
  BY DEF WakeFlags
<1>12. pc' \in [Procs -> Labels]
  BY DEF Procs, Tasks, Go, Idle, AfterStop, Labels, MainLabels, WriterLabels,
       TaskLabels, CdcLabels, UsbLabels, CoordLabels
<1>. QED BY <1>1, <1>2, <1>3, <1>4, <1>5, <1>6, <1>7, <1>8, <1>9, <1>10,
     <1>11, <1>12, <1>13, <1>14
-----------------------------------------------------------------------------
(* Losing the power at any point keeps every promise: what is volatile is   *)
(* gone, and the durable marker is untouched (esp_deep_sleep_start, or a    *)
(* pulled battery).                                                         *)
LEMMA PowerOffKeeps == ASSUME IInv, PowerOff PROVE Safe'
  BY DEF IInv, Safe, TypeOK, ColdStart, Contexts, ErrorOrFinalized,
       Publishing, Releasing, NoMountAhead, BootProof, OneOwner,
       ExposedStaysUnmounted, PublishedFinalized, Teardown, Logging, Started,
       Procs, Tasks, Cold, Idle, PowerOff, Driver, Clear

(* Coming up again: the main task is alone in front of the gate (app_main). *)
LEMMA PowerOnKeeps == ASSUME IInv, PowerOn PROVE Safe'
  BY DEF IInv, Safe, TypeOK, ColdStart, Contexts, ErrorOrFinalized,
       Publishing, Releasing, NoMountAhead, BootProof, OneOwner,
       ExposedStaysUnmounted, PublishedFinalized, Teardown, Logging, Started,
       Procs, Tasks, Go, PowerOn, Driver, Clear, medium, recorder

(* What a step of the capture or the battery task may change.               *)
TaskFrame(p) ==
    /\ power = "on" /\ pc[p] # "none" /\ TaskOnly
    /\ \/ EndTask(p)
       \/ UNCHANGED done /\ \E l \in Labels : Go(p, l)
       \/ UNCHANGED <<done, pc>>
    /\ "eventsReady" \in rec' <=> "eventsReady" \in rec
    /\ state = "ERROR" => state' = "ERROR"

(* Such a step keeps the promises: the task is not done, so nothing is      *)
(* published yet (recorder_capture_task, recorder_battery_task, main.c).    *)
LEMMA TaskKeeps == ASSUME IInv, NEW p \in {"capture", "battery"}, TaskFrame(p)
                   PROVE Safe'
<1> USE DEF Durable, medium, recorder
<1>1. p \notin done /\ done # Tasks /\ pc["main"] \notin {"gate", "spawn"}
  BY DEF IInv, Safe, TypeOK, Contexts, ColdStart, TaskFrame, Tasks, Procs
<1>2. \A q \in Procs \ {p} : pc'[q] = pc[q]
  BY DEF IInv, Safe, TypeOK, TaskFrame, EndTask, Go, Tasks, Procs
<1>3. /\ "writer" \in done' <=> "writer" \in done
      /\ \A q \in done' : pc'[q] = "none"
  <2>1. CASE EndTask(p)
    BY <2>1, <1>2 DEF IInv, Safe, TypeOK, EndTask, Go, Contexts, Procs, Tasks
  <2>2. CASE UNCHANGED done /\ \E l \in Labels : Go(p, l)
    BY <2>2, <1>1, <1>2 DEF IInv, Safe, TypeOK, Contexts, Procs, Tasks
  <2>3. CASE UNCHANGED <<done, pc>>
    BY <2>3 DEF IInv, Safe, Contexts
  <2>. QED BY <2>1, <2>2, <2>3 DEF TaskFrame
<1>4. /\ storage # "usb" /\ "usbOwned" \notin usb
      /\ pc["coord"] \notin {"mark", "transfer", "delete", "arm"}
  BY <1>1 DEF IInv, Safe, OneOwner, Publishing, Releasing
<1>5. /\ pc'["main"] = pc["main"] /\ pc'["coord"] = pc["coord"]
      /\ pc'["writer"] = pc["writer"]
  BY <1>2 DEF Procs, Tasks
<1>6. UNCHANGED <<power, boots, nvs, exposed, storage, sd, usb, wake, finalized>>
  BY DEF TaskFrame, TaskOnly
<1>. QED
  BY <1>1, <1>3, <1>4, <1>5, <1>6
  DEF IInv, Safe, TaskFrame, ColdStart, Contexts, ErrorOrFinalized,
       Publishing, Releasing, NoMountAhead, BootProof, OneOwner,
       ExposedStaysUnmounted, PublishedFinalized, Driver, Clear

(* Every step of those two tasks is of that shape (main.c:600-813).         *)
LEMMA OtherKeeps == ASSUME IInv, OtherTasks PROVE Safe'
<1> USE DEF TaskFrame, At, Raise, RecOnly, TransitionOk, TransitionFails,
    TransitionAllowed, BatteryStops, Labels, TaskLabels, Durable, medium, recorder
<1>1. CaptureWait => TaskFrame("capture")
  BY DEF CaptureWait
<1>2. CaptureInit => TaskFrame("capture")
  BY DEF CaptureInit
<1>3. CaptureReady => TaskFrame("capture")
  BY DEF CaptureReady
<1>4. CaptureRun => TaskFrame("capture")
  BY DEF CaptureRun
<1>5. CaptureTeardown => TaskFrame("capture")
  BY DEF CaptureTeardown
<1>6. BatteryWait => TaskFrame("battery")
  BY DEF BatteryWait
<1>7. BatteryRun => TaskFrame("battery")
  BY DEF BatteryRun
<1>8. BatteryStop => TaskFrame("battery")
  BY DEF BatteryStop
<1>. QED BY <1>1, <1>2, <1>3, <1>4, <1>5, <1>6, <1>7, <1>8, TaskKeeps DEF
     OtherTasks

(* The main task: the boot gate mounts only what the marker allows, and the *)
(* USB stack starts only behind the wake proof (app_main, task49_runtime.c). *)
LEMMA MainKeeps == ASSUME IInv, MainTask PROVE Safe'
<1> USE DEF IInv, Safe, TypeOK, ColdStart, Contexts, ErrorOrFinalized,
    Publishing, Releasing, NoMountAhead, BootProof, OneOwner,
    ExposedStaysUnmounted, PublishedFinalized, Teardown, Logging, Started,
    At, Go, Tasks, Procs, Driver, Clear, Set, Durable, medium, recorder,
    Raise, AfterStop, UsbRearmAllowed, WriteFailed, MayCompleteWakeRecovery,
    BootAction
<1>1. CASE ShutdownNow
  <2>1. CASE PowerOff
    BY <2>1, PowerOffKeeps
  <2>2. CASE /\ At("main", "shutdown") /\ Go("main", "done") /\ Durable
             /\ UNCHANGED <<medium, usb, bus, events, recorder, done, wake,
                            finalized>>
    BY <2>2
  <2>. QED BY <1>1, <2>1, <2>2 DEF ShutdownNow
<1>2. CASE BootGate
  BY <1>2 DEF BootGate
<1>3. CASE SpawnTasks
  BY <1>3 DEF SpawnTasks
<1>9. CASE SpawnWithoutSync
  BY <1>9 DEF SpawnWithoutSync
<1>10. CASE SpawnFails
  BY <1>10 DEF SpawnFails
<1>4. CASE WaitStopped
  BY <1>4 DEF WaitStopped
<1>5. CASE WaitRecording
  BY <1>5 DEF WaitRecording
<1>6. CASE UsbInit
  BY <1>6 DEF UsbInit
<1>7. CASE UsbStart
  BY <1>7 DEF UsbStart
<1>8. CASE UsbStarted
  BY <1>8 DEF UsbStarted
<1>. QED BY <1>1, <1>2, <1>3, <1>4, <1>5, <1>6, <1>7, <1>8, <1>9, <1>10
     DEF MainTask

(* The writer: it mounts before anything is exposed, and stops without an   *)
(* error only with its last segment closed (recorder_writer_task, main.c).  *)
LEMMA WriterKeeps == ASSUME IInv, WriterTask PROVE Safe'
<1> USE DEF IInv, Safe, TypeOK, ColdStart, Contexts, ErrorOrFinalized,
    Publishing, Releasing, NoMountAhead, BootProof, OneOwner,
    ExposedStaysUnmounted, PublishedFinalized, Teardown, Logging, Started,
    At, Go, Tasks, Procs, Driver, Clear, Set, Durable, medium, recorder,
    Raise, EndTask, TransitionOk, TransitionFails, TransitionAllowed,
    WriterOnly, WriteFailed, MarkWakePending, MayMarkWakePending,
    FinalizeFails, MountedSd, RecOnly, SdOnly
<1>1. CASE WriterMount
  BY <1>1, ZenonT(60) DEF WriterMount
<1>2. CASE WriterRecover
  BY <1>2 DEF WriterRecover
<1>3. CASE WriterAnnounce
  BY <1>3 DEF WriterAnnounce
<1>4. CASE WriterPrepare
  BY <1>4 DEF WriterPrepare
<1>5. CASE WriterWakeHook
  BY <1>5 DEF WriterWakeHook
<1>6. CASE WriterOpen
  BY <1>6 DEF WriterOpen
<1>7. CASE WriterRecord
  BY <1>7 DEF WriterRecord
<1>8. CASE WriterFinalize
  BY <1>8 DEF WriterFinalize
<1>9. CASE WriterWithdraw
  BY <1>9 DEF WriterWithdraw
<1>10. CASE WriterUnmount
  BY <1>10 DEF WriterUnmount
<1>11. CASE WriterDelete
  BY <1>11 DEF WriterDelete
<1>12. CASE WriterUnmounted
  BY <1>12 DEF WriterUnmounted
<1>13. CASE WriterExit
  BY <1>13 DEF WriterExit
<1>. QED BY <1>1, <1>2, <1>3, <1>4, <1>5, <1>6, <1>7, <1>8, <1>9, <1>10,
       <1>11, <1>12, <1>13 DEF WriterTask

(* The TinyUSB callbacks move flags only; none of them moves the medium     *)
(* (device_event_cb, tud_msc_scsi_complete_cb, usb_msc_ownership.c).        *)
LEMMA UsbKeeps == ASSUME IInv, UsbTask PROVE Safe'
<1> USE DEF IInv, Safe, TypeOK, ColdStart, Contexts, ErrorOrFinalized,
    Publishing, Releasing, NoMountAhead, BootProof, OneOwner,
    ExposedStaysUnmounted, PublishedFinalized, Teardown, Logging, Started,
    At, Go, Tasks, Procs, Driver, Clear, Set, Durable, medium, recorder,
    AttachProvisional, AttachPublished, AttachAgain, CallbackOnly, Callback,
    SdOnly
<1>1. CASE Attached
  BY <1>1 DEF Attached
<1>2. CASE Detached
  BY <1>2 DEF Detached
<1>3. CASE ScsiStartsPublication
  BY <1>3 DEF ScsiStartsPublication
<1>4. CASE ScsiEndsReconnect
  BY <1>4 DEF ScsiEndsReconnect
<1>5. CASE HostWrite
  BY <1>5 DEF HostWrite
<1>6. CASE HostWriteQueued
  BY <1>6 DEF HostWriteQueued
<1>7. CASE DeferredWrite
  BY <1>7 DEF DeferredWrite
<1>. QED BY <1>1, <1>2, <1>3, <1>4, <1>5, <1>6, <1>7 DEF UsbTask

(* Accepting RELEASE_STORAGE raises a flag and leaves the medium alone      *)
(* (usb_msc_ownership_accept_release, usb_msc_ownership.c).                 *)
LEMMA CdcKeeps == ASSUME IInv, CdcTask PROVE Safe'
<1> USE DEF IInv, Safe, TypeOK, ColdStart, Contexts, ErrorOrFinalized,
    Publishing, Releasing, NoMountAhead, BootProof, OneOwner,
    ExposedStaysUnmounted, PublishedFinalized, Teardown, Logging, Started,
    At, Go, Tasks, Procs, Driver, Clear, Set, Durable, medium, recorder,
    AdmissionOpen
<1>1. CASE AcceptRelease
  BY <1>1 DEF AcceptRelease
<1>2. CASE ReleaseResponse
  BY <1>2 DEF ReleaseResponse
<1>. QED BY <1>1, <1>2 DEF CdcTask

(* The publication: the join and the marker come before the transfer        *)
(* (recorder_handle_usb_attach, usb_msc_publish).                           *)
LEMMA PublishKeeps == ASSUME IInv, PublishMedium PROVE Safe'
<1> USE DEF IInv, Safe, TypeOK, ColdStart, Contexts, ErrorOrFinalized,
    Publishing, Releasing, NoMountAhead, BootProof, OneOwner,
    ExposedStaysUnmounted, PublishedFinalized, Teardown, Logging, Started,
    At, Go, Tasks, Procs, Driver, Clear, Set, Durable, medium, recorder,
    Raise, Abandon, TransitionOk, TransitionFails, TransitionAllowed,
    CoordRest, Take, WriteFailed, AllDone, RecOnly, SdOnly
<1>1. CASE TakeAttach
  BY <1>1 DEF TakeAttach
<1>2. CASE BeginPrepare
  BY <1>2 DEF BeginPrepare
<1>3. CASE AnnouncePrepare
  BY <1>3 DEF AnnouncePrepare
<1>4. CASE ReleaseForUsb
  BY <1>4 DEF ReleaseForUsb
<1>5. CASE StopRecorder
  BY <1>5 DEF StopRecorder
<1>6. CASE JoinRecorder
  BY <1>6 DEF JoinRecorder
<1>7. CASE MarkUnresolved
  BY <1>7 DEF MarkUnresolved
<1>8. CASE TransferToUsb
  BY <1>8 DEF TransferToUsb
<1>9. CASE Reconnect
  BY <1>9 DEF Reconnect
<1>. QED BY <1>1, <1>2, <1>3, <1>4, <1>5, <1>6, <1>7, <1>8, <1>9 DEF
       PublishMedium

(* The release: the driver goes first, then the storage object, then the    *)
(* marker (usb_msc_ownership_complete_release_quiesce).                     *)
LEMMA ReleaseKeeps == ASSUME IInv, ReleaseMedium PROVE Safe'
<1> USE DEF IInv, Safe, TypeOK, ColdStart, Contexts, ErrorOrFinalized,
    Publishing, Releasing, NoMountAhead, BootProof, OneOwner,
    ExposedStaysUnmounted, PublishedFinalized, Teardown, Logging, Started,
    At, Go, Tasks, Procs, Driver, Clear, Set, Durable, medium, recorder,
    Raise, Abandon, CoordRest, Take, WriteFailed, Quiescable, Deletable,
    DeleteFails, SleepFails
<1>1. CASE TakeRelease
  BY <1>1 DEF TakeRelease
<1>2. CASE ResetSession
  BY <1>2 DEF ResetSession
<1>3. CASE QuiesceDriver
  BY <1>3 DEF QuiesceDriver
<1>4. CASE ReleaseUsbStorage
  BY <1>4 DEF ReleaseUsbStorage
<1>5. CASE ArmShutdown
  BY <1>5 DEF ArmShutdown
<1>6. CASE SleepNow
  <2>1. CASE PowerOff
    BY <2>1, PowerOffKeeps
  <2>2. CASE /\ At("coord", "sleep") /\ Abandon /\ Durable
             /\ UNCHANGED <<medium, usb, bus, events>> /\ CoordRest
    BY <2>2
  <2>. QED BY <1>6, <2>1, <2>2 DEF SleepNow
<1>. QED BY <1>1, <1>2, <1>3, <1>4, <1>5, <1>6 DEF ReleaseMedium

(* The coordinator's other events leave the medium where it is              *)
(* (recorder_usb_event_task, task49_runtime.c).                             *)
LEMMA SessionKeeps ==
    ASSUME IInv,
           \/ TakeFailed \/ TakeQuiesced \/ TakeHostOwned \/ TakeReattached
           \/ ReopenSession
    PROVE  Safe'
<1> USE DEF IInv, Safe, TypeOK, ColdStart, Contexts, ErrorOrFinalized,
    Publishing, Releasing, NoMountAhead, BootProof, OneOwner,
    ExposedStaysUnmounted, PublishedFinalized, Teardown, Logging, Started,
    At, Go, Tasks, Procs, Driver, Clear, Set, Durable, medium, recorder,
    Raise, TransitionOk, TransitionAllowed, CoordRest, Take, AdmissionOpen
<1>1. CASE TakeFailed
  BY <1>1 DEF TakeFailed
<1>2. CASE TakeQuiesced
  BY <1>2 DEF TakeQuiesced
<1>3. CASE TakeHostOwned
  BY <1>3 DEF TakeHostOwned
<1>4. CASE TakeReattached
  BY <1>4 DEF TakeReattached
<1>5. CASE ReopenSession
  BY <1>5 DEF ReopenSession
<1>. QED BY <1>1, <1>2, <1>3, <1>4, <1>5

-----------------------------------------------------------------------------
(* Every step of the system keeps the inductive invariant.                  *)
LEMMA Step == ASSUME IInv, [Next]_vars PROVE IInv'
<1>1. CASE Next
  <2>1. TypeOK'
    BY <1>1, TypeStep DEF IInv
  <2>2. Safe'
    BY <1>1, PowerOffKeeps, PowerOnKeeps, MainKeeps, WriterKeeps, OtherKeeps,
       UsbKeeps, CdcKeeps, PublishKeeps, ReleaseKeeps, SessionKeeps
       DEF Next, PowerCut, CoordTask
  <2>. QED BY <2>1, <2>2 DEF IInv
<1>2. CASE UNCHANGED vars
  BY <1>2 DEF vars, volatile, medium, recorder, IInv, Safe, TypeOK,
       ColdStart, Contexts, ErrorOrFinalized, Publishing, Releasing,
       NoMountAhead, BootProof, OneOwner, ExposedStaysUnmounted,
       PublishedFinalized, Driver
<1>. QED BY <1>1, <1>2

(* A factory-new device satisfies it.                                       *)
LEMMA Start == ASSUME Init PROVE IInv
<1>1. pc \in [Procs -> Labels] /\ \A p \in Procs : pc[p] = "none"
  BY DEF Init, Idle, Labels, MainLabels
<1>2. TypeOK
  BY <1>1 DEF Init, TypeOK, Lifecycles, RecorderStates
<1>3. Safe
  BY <1>1 DEF Init, Safe, ColdStart, Contexts, ErrorOrFinalized, Publishing,
       Releasing, NoMountAhead, BootProof, OneOwner, ExposedStaysUnmounted,
       PublishedFinalized, Procs, Tasks, Teardown, Logging, Started, Driver,
       Clear
<1>. QED BY <1>2, <1>3 DEF IInv

(* Every reachable state of the device, for any number of boots and power   *)
(* cuts, satisfies the inductive invariant (task49_runtime.c with main.c).  *)
THEOREM Inductive == Spec => []IInv
  BY Start, Step, PTL DEF Spec

(* Type correctness of the ownership state of usb_msc_ownership.c,          *)
(* sd_mount.c and the recorder's tasks.                                     *)
THEOREM TypeCorrect == Spec => []TypeOK
<1>1. IInv => TypeOK
  BY DEF IInv
<1>. QED BY Inductive, <1>1, PTL

(* The card never has two owners: the join in recorder_handle_usb_attach    *)
(* suffices in every interleaving.                                          *)
THEOREM MediumHasOneOwner == Spec => []OneOwner
<1>1. IInv => OneOwner
  BY DEF IInv, Safe
<1>. QED BY Inductive, <1>1, PTL

(* A card the host may have written is not mounted by any later boot, until *)
(* a release deletes the storage object (usb_msc_publish and                *)
(* shutdown_armed_boot_action).                                             *)
THEOREM ExposedNeverMounted == Spec => []ExposedStaysUnmounted
<1>1. IInv => ExposedStaysUnmounted
  BY DEF IInv, Safe
<1>. QED BY Inductive, <1>1, PTL

(* The constants wav_finalized and manifest_committed passed at             *)
(* task49_runtime.c:254 are true whenever the medium is transferred.        *)
THEOREM PublishedIsFinalized == Spec => []PublishedFinalized
<1>1. IInv => PublishedFinalized
  BY DEF IInv, Safe
<1>. QED BY Inductive, <1>1, PTL

(* The USB stack never runs before the wake proof nor after the shutdown is *)
(* armed (task87_wake_recovery_usb_rearm_allowed).                          *)
THEOREM UsbOnlyBehindProof == Spec => []UsbNeedsProof
<1>1. IInv => UsbNeedsProof
  BY DEF IInv, Safe, BootProof, UsbNeedsProof
<1>. QED BY Inductive, <1>1, PTL

(* Steps that take the card from the host, and steps that move the marker   *)
(* away from HOST_UNRESOLVED or to NORMAL, are few: every other task leaves *)
(* both alone.                                                              *)
LEMMA WhoMoves ==
    ASSUME Next
    PROVE  /\ ReleaseUsbStorage \/ TransferToUsb \/ exposed' = exposed
           /\ \/ WaitRecording \/ WriterWakeHook \/ MarkUnresolved \/ ArmShutdown
              \/ nvs' = nvs
<1> USE DEF Next, MainTask, WriterTask, OtherTasks, UsbTask, CdcTask, CoordTask,
    PublishMedium, ReleaseMedium, PowerCut, PowerOn, PowerOff, ShutdownNow,
    BootGate, SpawnTasks, SpawnWithoutSync, SpawnFails, WaitStopped, UsbInit,
    UsbStart, UsbStarted, WriterMount, WriterRecover, WriterAnnounce, WriterPrepare, WriterOpen,
    WriterRecord, WriterFinalize, WriterWithdraw, WriterUnmount,
    WriterDelete, WriterUnmounted, WriterExit, WriterOnly, CaptureWait,
    CaptureInit, CaptureReady, CaptureRun, CaptureTeardown, BatteryWait,
    BatteryRun, BatteryStop, TaskOnly, Attached, Detached,
    ScsiStartsPublication, ScsiEndsReconnect, HostWrite, HostWriteQueued,
    DeferredWrite, CallbackOnly, AcceptRelease, ReleaseResponse, TakeFailed,
    TakeQuiesced, TakeAttach, BeginPrepare, AnnouncePrepare, ReleaseForUsb,
    StopRecorder, JoinRecorder, Reconnect, TakeHostOwned, TakeReattached,
    ReopenSession, TakeRelease, ResetSession, QuiesceDriver, SleepNow, Durable
<1>1. ReleaseUsbStorage \/ TransferToUsb \/ exposed' = exposed
  BY DEF WaitRecording, WriterWakeHook, MarkUnresolved, ArmShutdown
<1>2. \/ WaitRecording \/ WriterWakeHook \/ MarkUnresolved \/ ArmShutdown
      \/ nvs' = nvs
  BY DEF ReleaseUsbStorage, TransferToUsb
<1>. QED BY <1>1, <1>2

(* The host loses the card only to an accepted and answered RELEASE_STORAGE *)
(* with the driver gone and nothing deferred; HOST_UNRESOLVED gives way     *)
(* only to ARMED, and only once the storage object and the driver are gone  *)
(* (usb_msc_ownership_complete_release_quiesce): no boot, no failed NVS     *)
(* write and no power cut resolves it.                                      *)
THEOREM OnlyCommandReleases == Spec => ReleaseOnlyByCommand
<1>1. ASSUME IInv, [Next]_vars, exposed, ~exposed'
      PROVE  /\ "release" \in usb /\ "waiting" \notin usb
             /\ "deferred" \notin sd /\ ~Driver
  <2>1. ReleaseUsbStorage
    BY <1>1, WhoMoves DEF vars, TransferToUsb
  <2>2. At("coord", "delete") /\ Deletable
    BY <1>1, <2>1 DEF ReleaseUsbStorage
  <2>. QED BY <1>1, <2>2 DEF IInv, Safe, Releasing, At, Deletable, Clear, Driver
<1>2. ASSUME IInv, [Next]_vars, nvs = "HOST_UNRESOLVED", nvs' # nvs
      PROVE  /\ nvs' = "ARMED" /\ ~exposed /\ ~Driver
             /\ power = "on" /\ storage = "none"
  <2>1. ArmShutdown
    BY <1>2, WhoMoves DEF vars, WaitRecording, WriterWakeHook, MarkUnresolved, Publishable,
         WriteFailed, MayCompleteWakeRecovery, MayMarkWakePending
  <2>2. At("coord", "arm") /\ nvs' = "ARMED"
    BY <1>2, <2>1 DEF ArmShutdown, WriteFailed
  <2>. QED BY <1>2, <2>2 DEF IInv, Safe, Releasing, At, Clear, Driver
<1>. QED BY Inductive, <1>1, <1>2, PTL DEF Spec, ReleaseOnlyByCommand

(* The marker becomes NORMAL again only by a wake whose device recovery is  *)
(* proved and whose recording runs under a fresh id                         *)
(* (task87_wake_recovery_note_recording_started): no other task, boot,      *)
(* failed NVS write or power cut makes it so.                               *)
THEOREM OnlyFreshRecordingWakes == Spec => WakeNeedsFreshRecording
<1>1. ASSUME [Next]_vars, nvs' = "NORMAL", nvs # "NORMAL"
      PROVE  /\ "pending" \in wake /\ "deviceDone" \in wake /\ "recId" \in rec
             /\ state \notin {"BOOT", "RECOVER"}
  <2>1. WaitRecording
    BY <1>1, WhoMoves DEF vars, WriterWakeHook, MarkWakePending, MarkUnresolved, ArmShutdown,
         WriteFailed
  <2>2. state = "RECORDING"
    BY <2>1 DEF WaitRecording
  <2>3. "pending" \in wake /\ "deviceDone" \in wake /\ "recId" \in rec
    BY <1>1, <2>1 DEF WaitRecording, WriteFailed
  <2>. QED BY <2>2, <2>3
<1>. QED BY <1>1, PTL DEF Spec, WakeNeedsFreshRecording

-----------------------------------------------------------------------------
(* The turns of the card.  Besides IInv, TurnsAreKept needs that the host   *)
(* has the card as long as nobody asked for it, that a transfer finds no    *)
(* request and an armed shutdown has one, and that a boot past the gate did *)
(* not find the card unresolved.                                            *)
Turns ==
    /\ "usbOwned" \in usb /\ "release" \notin usb => exposed
    /\ pc["coord"] = "transfer" => Clear({"usbOwned", "release"}, usb)
    /\ pc["coord"] = "arm" => "release" \in usb
    /\ pc["main"] = "spawn" => nvs # "HOST_UNRESOLVED"

(* A step that leaves the card, its mark and the request alone, starts no   *)
(* recorder task and goes past no point that Turns speaks of.               *)
Aside == /\ exposed' = exposed
         /\ nvs' = "HOST_UNRESOLVED" <=> nvs = "HOST_UNRESOLVED"
         /\ \A f \in {"release", "usbOwned"} : f \in usb' <=> f \in usb
         /\ \A p \in Tasks : pc[p] = "none" => pc'[p] = "none"
         /\ pc'["coord"] \in {"transfer", "arm"} => pc'["coord"] = pc["coord"]
         /\ pc'["main"] = "spawn" => pc["main"] = "spawn"

(* Most steps stand aside, whichever task takes them (task49_runtime.c,     *)
(* main.c and the callbacks of usb_msc_ownership.c).                        *)
LEMMA MainAside ==
    ASSUME TypeOK, MainTask
    PROVE  PowerOff \/ BootGate \/ SpawnTasks \/ Aside
<1> USE DEF TypeOK, Aside, At, Go, Tasks, Procs, Durable, medium, recorder
<1>1. CASE ShutdownNow
  BY <1>1 DEF ShutdownNow
<1>2. CASE WaitStopped
  BY <1>2 DEF WaitStopped, AfterStop
<1>3. CASE WaitRecording
  BY <1>3 DEF WaitRecording, MayCompleteWakeRecovery, WriteFailed
<1>4. CASE UsbInit
  BY <1>4 DEF UsbInit
<1>5. CASE UsbStart
  BY <1>5 DEF UsbStart
<1>6. CASE UsbStarted
  BY <1>6 DEF UsbStarted
<1>7. CASE SpawnWithoutSync
  BY <1>7 DEF SpawnWithoutSync
<1>8. CASE SpawnFails
  BY <1>8 DEF SpawnFails, AfterStop
<1>. QED BY <1>1, <1>2, <1>3, <1>4, <1>5, <1>6, <1>7, <1>8 DEF MainTask

LEMMA RecorderAside ==
    ASSUME TypeOK, WriterTask \/ OtherTasks
    PROVE  Aside
<1> USE DEF TypeOK, Aside, At, Go, Tasks, Procs, Durable, EndTask
<1>1. CASE WriterTask
  <2>1. CASE WriterWakeHook
    BY <2>1 DEF WriterWakeHook, MarkWakePending, MayMarkWakePending, WriteFailed
  <2>2. CASE ~WriterWakeHook
    BY <1>1, <2>2 DEF WriterTask, WriterOnly, WriterMount, WriterRecover,
        WriterAnnounce, WriterPrepare, WriterOpen, WriterRecord, WriterFinalize,
        WriterWithdraw, WriterUnmount, WriterDelete, WriterUnmounted, WriterExit
  <2>. QED BY <2>1, <2>2
<1>2. CASE OtherTasks
  BY <1>2 DEF OtherTasks, TaskOnly, CaptureWait, CaptureInit, CaptureReady,
      CaptureRun, CaptureTeardown, BatteryWait, BatteryRun, BatteryStop,
      BatteryStops
<1>. QED BY <1>1, <1>2

LEMMA HostAside ==
    ASSUME TypeOK, UsbTask \/ ReleaseResponse
    PROVE  Aside
<1> USE DEF TypeOK, Aside, At, Go, Tasks, Procs, Durable
<1>1. CASE UsbTask
  BY <1>1 DEF UsbTask, CallbackOnly, Attached, AttachProvisional, AttachPublished,
      AttachAgain, Detached, ScsiStartsPublication, ScsiEndsReconnect, HostWrite,
      HostWriteQueued, DeferredWrite
<1>2. CASE ReleaseResponse
  BY <1>2 DEF ReleaseResponse
<1>. QED BY <1>1, <1>2

LEMMA CoordAside ==
    ASSUME TypeOK, CoordTask
    PROVE  \/ MarkUnresolved \/ TransferToUsb \/ ReleaseUsbStorage \/ ArmShutdown
           \/ PowerOff \/ Aside
<1> USE DEF TypeOK, Aside, At, Go, Tasks, Procs, Durable, CoordRest, Abandon, Take
<1>1. CASE TakeFailed \/ TakeQuiesced
  BY <1>1 DEF TakeFailed, TakeQuiesced
<1>2. CASE TakeAttach \/ BeginPrepare \/ AnnouncePrepare
  BY <1>2 DEF TakeAttach, BeginPrepare, AnnouncePrepare
<1>3. CASE ReleaseForUsb \/ StopRecorder \/ JoinRecorder \/ Reconnect
  BY <1>3 DEF ReleaseForUsb, StopRecorder, JoinRecorder, Reconnect
<1>4. CASE TakeHostOwned \/ TakeReattached \/ ReopenSession
  BY <1>4 DEF TakeHostOwned, TakeReattached, ReopenSession
<1>5. CASE TakeRelease \/ ResetSession \/ QuiesceDriver
  BY <1>5 DEF TakeRelease, ResetSession, QuiesceDriver
<1>6. CASE SleepNow
  BY <1>6 DEF SleepNow, SleepFails
<1>. QED BY <1>1, <1>2, <1>3, <1>4, <1>5, <1>6
     DEF CoordTask, PublishMedium, ReleaseMedium

(* So the steps that matter for the turns are these.                        *)
LEMMA TurnsMove ==
    ASSUME TypeOK, Next
    PROVE  \/ PowerOff \/ PowerOn \/ BootGate \/ SpawnTasks \/ AcceptRelease
           \/ MarkUnresolved \/ TransferToUsb \/ ReleaseUsbStorage \/ ArmShutdown
           \/ Aside
  BY MainAside, RecorderAside, HostAside, CoordAside DEF Next, CdcTask, PowerCut

(* Each of them keeps Turns.                                                *)
LEMMA TurnsStep == ASSUME IInv, Turns, [Next]_vars PROVE Turns'
<1> USE DEF Turns, Clear
<1>1. CASE Aside
  BY <1>1 DEF Aside
<1>2. CASE PowerOff
  BY <1>2 DEF PowerOff, Cold, Idle, Procs, Tasks
<1>3. CASE PowerOn
  BY <1>3 DEF IInv, Safe, TypeOK, ColdStart, PowerOn, Go, Procs, Tasks
<1>4. CASE BootGate
  BY <1>4 DEF IInv, TypeOK, BootGate, BootAction, Durable, Go, Procs
<1>5. CASE SpawnTasks
  BY <1>5 DEF IInv, TypeOK, SpawnTasks, Durable, Procs, Tasks
<1>6. CASE AcceptRelease
  BY <1>6 DEF IInv, Safe, TypeOK, AcceptRelease, AdmissionOpen, Set, Durable, Go, Procs
<1>7. CASE MarkUnresolved
  BY <1>7 DEF IInv, Safe, TypeOK, Contexts, Started, MarkUnresolved, Publishable, At, Go,
      Abandon, WriteFailed, Procs
<1>8. CASE TransferToUsb
  BY <1>8 DEF IInv, TypeOK, TransferToUsb, At, Go, Abandon, Procs
<1>9. CASE ReleaseUsbStorage
  BY <1>9 DEF IInv, Safe, TypeOK, Releasing, ReleaseUsbStorage, DeleteFails, At, Go, Abandon,
      Procs
<1>10. CASE ArmShutdown
  BY <1>10 DEF IInv, Safe, TypeOK, Contexts, Started, ArmShutdown, At, Go, Abandon, Procs
<1>11. CASE UNCHANGED vars
  BY <1>11 DEF vars, volatile
<1>. QED BY <1>1, <1>2, <1>3, <1>4, <1>5, <1>6, <1>7, <1>8, <1>9, <1>10, <1>11, TurnsMove
     DEF IInv

(* The device implements MediumOwnership, for any number of boots and power *)
(* cuts: each step is a step of the turns or leaves them alone              *)
(* (usb_msc_publish, usb_msc_ownership_complete_release_quiesce,            *)
(* shutdown_armed_boot_action).                                             *)
THEOREM DeviceKeepsTurns == Spec => TurnsAreKept
<1> DEFINE owner  == IF exposed THEN "host" ELSE "device"
           inUse  == \E p \in Tasks : pc[p] # "none"
           marked == nvs = "HOST_UNRESOLVED"
           asked  == "release" \in usb
<1>1. Init => Medium!Init /\ Turns
  BY DEF Init, Medium!Init, Turns, Idle, Procs, Tasks, Clear
<1>2. ASSUME IInv, Turns, [Next]_vars
      PROVE  Medium!Next \/ UNCHANGED <<owner, inUse, marked, asked>>
  <2> USE DEF Medium!Next
  <2>0. TypeOK
    BY <1>2 DEF IInv
  <2>1. CASE Aside
    <3>1. owner' = owner /\ marked' = marked /\ asked' = asked /\ (inUse' => inUse)
      BY <2>1 DEF Aside
    <3>2. inUse' = inUse \/ inUse' = FALSE
      BY <3>1
    <3>. QED BY <3>1, <3>2 DEF Medium!End
  <2>2. CASE PowerOff
    <3>1. inUse' = FALSE /\ asked' = FALSE
      BY <2>2 DEF PowerOff, Cold, Idle, Procs, Tasks
    <3>2. owner' = owner /\ marked' = marked
      BY <2>2 DEF PowerOff
    <3>. QED BY <3>1, <3>2 DEF Medium!LosePower
  <2>3. CASE PowerOn \/ BootGate
    <3>1. \A p \in Tasks : pc'[p] = pc[p]
      BY <2>0, <2>3 DEF TypeOK, PowerOn, BootGate, Go, Procs, Tasks
    <3>2. usb' = usb /\ nvs' = nvs /\ exposed' = exposed
      BY <2>3 DEF PowerOn, BootGate, Durable
    <3>. QED BY <3>1, <3>2
  <2>4. CASE SpawnTasks
    <3>1. owner = "device" /\ ~marked
      BY <1>2, <2>4 DEF IInv, Safe, NoMountAhead, Turns, SpawnTasks, At
    <3>2. owner' = owner /\ marked' = marked /\ asked' = asked
      BY <2>4 DEF SpawnTasks, Durable
    <3>3. inUse' = TRUE \/ inUse' = FALSE
      OBVIOUS
    <3>. QED BY <3>1, <3>2, <3>3 DEF Medium!Begin, Medium!End
  <2>5. CASE AcceptRelease
    <3>1. owner = "host" /\ marked
      BY <1>2, <2>5 DEF IInv, Safe, ExposedStaysUnmounted, Turns, AcceptRelease,
          AdmissionOpen, Set
    <3>2. owner' = owner /\ marked' = marked /\ asked' = TRUE
      BY <2>5 DEF AcceptRelease, Durable
    <3>3. inUse' = inUse
      BY <2>0, <2>5 DEF TypeOK, AcceptRelease, Go, Procs, Tasks
    <3>. QED BY <3>1, <3>2, <3>3 DEF Medium!Ask
  <2>6. CASE MarkUnresolved
    <3>1. owner' = owner /\ asked' = asked /\ (marked' = marked \/ marked' = TRUE)
      BY <2>6 DEF MarkUnresolved, WriteFailed
    <3>2. inUse = FALSE /\ inUse' = inUse
      BY <1>2, <2>0, <2>6 DEF IInv, Safe, Publishing, Contexts, TypeOK, MarkUnresolved, At, Go,
          Abandon, Procs, Tasks
    <3>3. owner = "device" \/ marked
      BY <1>2 DEF IInv, Safe, ExposedStaysUnmounted
    <3>. QED BY <3>1, <3>2, <3>3 DEF Medium!Mark
  <2>7. CASE TransferToUsb
    <3>1. marked' = marked /\ asked' = asked /\ (owner' = owner \/ owner' = "host")
      BY <2>7 DEF TransferToUsb
    <3>2. inUse = FALSE /\ inUse' = inUse
      BY <1>2, <2>0, <2>7 DEF IInv, Safe, Publishing, Contexts, TypeOK, TransferToUsb, At, Go,
          Abandon, Procs, Tasks
    <3>3. marked /\ ~asked
      BY <1>2, <2>7 DEF IInv, Safe, Publishing, Turns, Clear, TransferToUsb, At
    <3>. QED BY <3>1, <3>2, <3>3 DEF Medium!HandOver
  <2>8. CASE ReleaseUsbStorage
    <3>1. marked' = marked /\ asked' = asked /\ (owner' = owner \/ owner' = "device")
      BY <2>8 DEF ReleaseUsbStorage, DeleteFails
    <3>2. inUse' = inUse
      BY <2>0, <2>8 DEF TypeOK, ReleaseUsbStorage, DeleteFails, Go, Abandon, Procs, Tasks
    <3>3. asked
      BY <1>2, <2>8 DEF IInv, Safe, Releasing, ReleaseUsbStorage, At
    <3>. QED BY <3>1, <3>2, <3>3 DEF Medium!TakeBack
  <2>9. CASE ArmShutdown
    <3>1. owner = "device" /\ owner' = owner /\ asked
      BY <1>2, <2>9 DEF IInv, Safe, Releasing, Turns, ArmShutdown, At
    <3>2. inUse = FALSE /\ inUse' = inUse
      BY <1>2, <2>0, <2>9 DEF IInv, Safe, Releasing, Publishing, Contexts, TypeOK, ArmShutdown,
          At, Go, Abandon, Procs, Tasks
    <3>3. \/ marked' = FALSE /\ asked' \in BOOLEAN
          \/ marked' = marked /\ asked' = asked
      BY <2>9 DEF ArmShutdown, WriteFailed
    <3>. QED BY <3>1, <3>2, <3>3 DEF Medium!Resolve
  <2>10. CASE UNCHANGED vars
    BY <2>10 DEF vars, volatile
  <2>. QED BY <1>2, <2>0, <2>1, <2>2, <2>3, <2>4, <2>5, <2>6, <2>7, <2>8, <2>9, <2>10, TurnsMove
<1>3. QED BY <1>1, <1>2, Inductive, TurnsStep, PTL DEF Spec, TurnsAreKept, Medium!Spec

=============================================================================
