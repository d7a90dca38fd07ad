----------------------------- MODULE UsbOwnership -----------------------------
(***************************************************************************)
(* Who owns the microSD medium: the boot gate (task49_runtime.c), the      *)
(* recorder's tasks (main.c), the storage object (sd_mount.c), the USB     *)
(* ownership flags and callbacks (usb_msc_ownership.c), the coordinator    *)
(* that publishes and releases the medium, and the durable marker that     *)
(* survives a power cut at any point.                                      *)
(*                                                                         *)
(* A handler is one step per call that another task can interleave with;   *)
(* a TinyUSB callback is one step.                                         *)
(***************************************************************************)
EXTENDS Naturals, RecorderState, ShutdownArmed

CONSTANT MaxBoots       \* power-ons explored
ASSUME MaxBootsAssumption == MaxBoots \in Nat

VARIABLES
    power,      \* "on" or "off" (deep sleep with every wakeup disabled is off)
    boots,      \* power-ons so far
    nvs,        \* the durable lifecycle marker
    storage,    \* the esp_tinyusb storage object: "none", or serving "app" or "usb"
    sd,         \* sd_mount.c: the flags that are set
    usb,        \* usb_msc_ownership.c: the volatile flags that are set
    bus,        \* the cable: soft-connected, configured by the host
    events,     \* the coordinator's pending event bits
    state,      \* s_rec_state
    rec,        \* s_state_events_ready, the recorder bits, a recording id
    done,       \* recorder tasks that have ended
    wake,       \* task87_wake_recovery_t and the button at boot
    pc,         \* where each task is
    exposed,    \* history: the host got the medium and has not released it
    finalized   \* history: this boot's last segment is closed and indexed

medium == <<storage, sd>>
recorder == <<state, rec>>
volatile == <<medium, usb, bus, events, recorder, done, wake, pc, finalized>>
vars == <<power, boots, nvs, exposed, volatile>>

Tasks == {"writer", "capture", "battery"}
Procs == Tasks \cup {"main", "coord", "cdc", "usb"}
Events == {"FAILED", "ATTACH", "HOST_OWNED", "HOST_REATTACHED",
           "RELEASE_REQUESTED", "RELEASE_QUIESCED"}

-----------------------------------------------------------------------------
(* Flags a component keeps; none is set when the power comes on.            *)
SdFlags   == {"mounted", "relReq", "fsReleased", "deferred"}
UsbFlags  == {"init", "starting", "started", "usbOwned", "hostOwned", "release",
              "waiting", "provisional", "triggered", "prepDisc", "detached",
              "session"}
BusFlags  == {"soft", "configured"}
RecFlags  == {"eventsReady", "stop", "writerReady", "recordingReady", "recId"}
WakeFlags == {"button", "pending", "deviceDone"}
Idle      == [p \in Procs |-> "none"]

Cold == /\ storage' = "none" /\ sd' = {} /\ usb' = {} /\ bus' = {} /\ events' = {}
        /\ state' = "BOOT" /\ rec' = {} /\ done' = {} /\ wake' = {}
        /\ pc' = Idle /\ finalized' = FALSE

Init == /\ power = "off" /\ boots = 0 /\ nvs = "NORMAL" /\ exposed = FALSE
        /\ storage = "none" /\ sd = {} /\ usb = {} /\ bus = {} /\ events = {}
        /\ state = "BOOT" /\ rec = {} /\ done = {} /\ wake = {}
        /\ pc = Idle /\ finalized = FALSE

At(p, l) == power = "on" /\ pc[p] = l
Go(p, l) == pc' = [pc EXCEPT ![p] = l]
Set(flags, f)   == flags \subseteq f
Clear(flags, f) == flags \cap f = {}
Durable  == UNCHANGED <<power, boots, nvs, exposed>>

(* recorder_enter_error, whatever the reason: ERROR, and everyone stops.    *)
Raise == state' = "ERROR" /\ rec' = rec \cup {"stop"}
RecOnly(flags) == rec' = flags /\ UNCHANGED state
SdOnly(flags)  == sd' = flags /\ UNCHANGED storage

(* recorder_transition_state, followed on failure by the caller's           *)
(* recorder_enter_error.  Appending the event to the card may fail.         *)
TransitionOk(s) == /\ TransitionAllowed(state, s)
                   /\ state' = s /\ UNCHANGED rec
TransitionFails(s) == /\ \/ ~TransitionAllowed(state, s)
                         \/ "eventsReady" \in rec /\ state # s
                      /\ Raise

-----------------------------------------------------------------------------
(* Power and the boot gate.                                                 *)
PowerOff == power' = "off" /\ Cold /\ UNCHANGED <<boots, nvs, exposed>>

PowerCut == power = "on" /\ PowerOff

PowerOn ==
    /\ power = "off" /\ boots < MaxBoots
    /\ power' = "on" /\ boots' = boots + 1
    /\ wake' \in {{}, {"button"}}
    /\ Go("main", "gate")
    /\ UNCHANGED <<nvs, exposed, medium, usb, bus, events, recorder, done, finalized>>

(* recorder_shutdown_armed_now: the shutdown itself may fail, and then the  *)
(* main task returns with nothing running.                                  *)
ShutdownNow ==
    /\ At("main", "shutdown")
    /\ \/ PowerOff
       \/ /\ Go("main", "done") /\ Durable
          /\ UNCHANGED <<medium, usb, bus, events, recorder, done, wake, finalized>>

(* app_main up to the creation of the recorder's tasks.  Any failed         *)
(* inspection of the persistent state shuts down.                           *)
BootGate ==
    /\ At("main", "gate")
    /\ LET action == BootAction(nvs, "button" \in wake)
       IN \/ Go("main", "shutdown") /\ UNCHANGED wake
          \/ /\ action # "stay"
             /\ wake' = IF action = "resume" THEN wake \cup {"pending"} ELSE wake
             /\ Go("main", "spawn")
    /\ Durable /\ UNCHANGED <<medium, usb, bus, events, recorder, done, finalized>>

(* task87_wake_recovery_requires_shutdown: where a failed start ends.       *)
AfterStop == IF "pending" \in wake THEN "shutdown" ELSE "done"

(* recorder_base_app_main creates writer, capture, battery in that order,   *)
(* after the state lock and the event group that they all use.              *)
SpawnTasks ==
    /\ At("main", "spawn")
    /\ \E created \in {{}, {"writer"}, {"writer", "capture"}, Tasks} :
         /\ pc' = [p \in Procs |->
                     CASE p \in created  -> IF p = "writer" THEN "mount" ELSE "wait"
                       [] p = "main"     -> "waitRec"
                       [] OTHER          -> "none"]
         /\ IF created = Tasks THEN UNCHANGED recorder ELSE Raise
    /\ Durable /\ UNCHANGED <<medium, usb, bus, events, done, wake, finalized>>

(* Without the state lock, or without the event group, no task is created,  *)
(* nobody can be asked to stop, and recorder_wait_initial_recording, which  *)
(* looks for the two before it looks at the state, polls for ever.          *)
SpawnWithoutSync ==
    /\ At("main", "spawn") /\ Go("main", "noSync")
    /\ state' \in {state, "ERROR"} /\ UNCHANGED rec
    /\ Durable /\ UNCHANGED <<medium, usb, bus, events, done, wake, finalized>>

(* The task that creates them, rec_base, cannot be created itself.          *)
SpawnFails ==
    /\ At("main", "spawn") /\ Go("main", AfterStop)
    /\ Durable
    /\ UNCHANGED <<medium, usb, bus, events, recorder, done, wake, finalized>>

(* recorder_wait_initial_recording and, after a manual wake,                *)
(* task87_wake_recovery_note_recording_started.                             *)
StoppedStates == {"ERROR", "LOW_BATTERY_STOP"}

(* Faulty variant: a pending wake recovery is not awaited.                  *)
AlwaysRearm == TRUE
UsbRearmAllowed == "pending" \notin wake

WaitStopped ==
    /\ At("main", "waitRec") /\ state \in StoppedStates
    /\ Go("main", AfterStop)
    /\ Durable /\ UNCHANGED <<medium, usb, bus, events, recorder, done, wake, finalized>>

WaitRecording ==
    /\ At("main", "waitRec") /\ state = "RECORDING"
    /\ \/ /\ UsbRearmAllowed
          /\ Go("main", "usbInit") /\ UNCHANGED <<nvs, wake, recorder>>
       \/ /\ "pending" \in wake /\ "deviceDone" \in wake /\ "recId" \in rec
          /\ MayCompleteWakeRecovery(nvs)
          /\ nvs' = "NORMAL"
          /\ wake' = wake \ {"pending"}
          /\ Go("main", "usbInit") /\ UNCHANGED recorder
       \/ /\ "pending" \in wake
          /\ \/ /\ "deviceDone" \in wake /\ "recId" \in rec
                /\ MayCompleteWakeRecovery(nvs)
                /\ nvs' \in WriteFailed(nvs, "NORMAL")
             \/ nvs' = nvs
          /\ Raise /\ Go("main", "shutdown") /\ UNCHANGED wake
    /\ UNCHANGED <<power, boots, exposed, medium, usb, bus, events, done, finalized>>

(* usb_msc_ownership_init, the CDC configuration and the coordinator task.  *)
UsbInit ==
    /\ At("main", "usbInit")
    /\ \/ /\ "mounted" \in sd
          /\ usb' = usb \cup {"init"}
          /\ pc' = [pc EXCEPT !["main"] = "usbStart", !["coord"] = "idle"]
          /\ UNCHANGED recorder
       \/ Raise /\ Go("main", "done") /\ UNCHANGED usb
    /\ Durable /\ UNCHANGED <<medium, bus, events, done, wake, finalized>>

(* usb_msc_ownership_start: callbacks run before the install returns.       *)
UsbStart ==
    /\ At("main", "usbStart")
    /\ \/ /\ "mounted" \in sd /\ Clear({"usbOwned", "hostOwned", "release"}, usb)
          /\ usb' = usb \cup {"starting"}
          /\ bus' = bus \cup {"soft"}
          /\ Go("main", "usbStarted") /\ UNCHANGED recorder
       \/ /\ Raise /\ UNCHANGED <<usb, bus>>
          /\ pc' = [pc EXCEPT !["main"] = "done", !["coord"] = "none"]
    /\ Durable /\ UNCHANGED <<medium, events, done, wake, finalized>>

UsbStarted ==
    /\ At("main", "usbStarted")
    /\ usb' = (usb \cup {"started"}) \ {"starting"}
    /\ \/ UNCHANGED recorder /\ pc' = [pc EXCEPT !["main"] = "done", !["cdc"] = "idle"]
       \/ Raise /\ Go("main", "done")
    /\ Durable /\ UNCHANGED <<medium, bus, events, done, wake, finalized>>

MainTask == \/ ShutdownNow \/ BootGate \/ SpawnTasks \/ SpawnWithoutSync
            \/ SpawnFails \/ WaitStopped \/ WaitRecording
            \/ UsbInit \/ UsbStart \/ UsbStarted

-----------------------------------------------------------------------------
(* recorder_writer_task.  Every early error raises ERROR, withdraws the     *)
(* event log, unmounts and ends.                                            *)
WriterOnly == Durable /\ UNCHANGED <<usb, bus, events, wake>>
EndTask(p) == done' = done \cup {p} /\ Go(p, "none")

(* sd_mount_recordings: no storage, or a storage whose directories cannot   *)
(* be made.                                                                 *)
MountedSd == /\ storage' = "app"
             /\ sd' = (sd \cup {"mounted"}) \ {"relReq", "fsReleased"}
WriterMount ==
    /\ At("writer", "mount")
    /\ \/ MountedSd /\ Go("writer", "recover") /\ UNCHANGED <<recorder, done>>
       \/ MountedSd /\ Raise /\ Go("writer", "unmount") /\ UNCHANGED done
       \/ Raise /\ EndTask("writer") /\ UNCHANGED medium
    /\ WriterOnly /\ UNCHANGED finalized

WriterRecover ==
    /\ At("writer", "recover")
    /\ RecOnly(rec \cup {"eventsReady"})
    /\ Go("writer", "announce")
    /\ WriterOnly /\ UNCHANGED <<medium, done, finalized>>

WriterAnnounce ==
    /\ At("writer", "announce")
    /\ \/ TransitionOk("RECOVER") /\ Go("writer", "prepare")
       \/ TransitionFails("RECOVER") /\ Go("writer", "withdraw")
    /\ WriterOnly /\ UNCHANGED <<medium, done, finalized>>

(* Identity, device.json, manifest, quarantine, recovery scan and index.    *)
WriterPrepare ==
    /\ At("writer", "prepare")
    /\ \/ /\ Go("writer", IF "pending" \in wake THEN "wakeHook" ELSE "open")
          /\ UNCHANGED recorder
       \/ Raise /\ Go("writer", "withdraw")
    /\ WriterOnly /\ UNCHANGED <<medium, done, finalized>>

(* Faulty variant: recovery alone makes the device NORMAL.                  *)
MarkNormal == nvs' = "NORMAL"
MarkWakePending == nvs' = "WAKE_RECOVERY_PENDING"

(* task87_wake_recovery_complete_device_recovery, after the scan.           *)
WriterWakeHook ==
    /\ At("writer", "wakeHook")
    /\ \/ /\ "pending" \in wake /\ "deviceDone" \notin wake /\ MayMarkWakePending(nvs)
          /\ MarkWakePending
          /\ wake' = wake \cup {"deviceDone"}
          /\ Go("writer", "open") /\ UNCHANGED recorder
       \/ /\ \/ nvs' = nvs
             \/ nvs' \in WriteFailed(nvs, "WAKE_RECOVERY_PENDING")
                /\ MayMarkWakePending(nvs)
          /\ Raise /\ Go("writer", "withdraw") /\ UNCHANGED wake
    /\ UNCHANGED <<power, boots, exposed, medium, usb, bus, events, done, finalized>>

WriterOpen ==
    /\ At("writer", "open")
    /\ \/ /\ RecOnly(rec \cup {"recId", "writerReady"})
          /\ Go("writer", "record")
       \/ /\ state' = "ERROR" /\ rec' = rec \cup {"stop", "recId"}
          /\ Go("writer", "withdraw")
       \/ Raise /\ Go("writer", "withdraw")
    /\ WriterOnly /\ UNCHANGED <<medium, done, finalized>>

(* The recording loop, with its rotations, ends on a stop or on an error.   *)
WriterRecord ==
    /\ At("writer", "record")
    /\ \/ "stop" \in rec /\ UNCHANGED recorder
       \/ Raise
    /\ Go("writer", "finalize")
    /\ WriterOnly /\ UNCHANGED <<medium, done, finalized>>

(* Faulty variant: a failed finalization raises no error.                   *)
FinalizeIgnored == finalized' = FALSE /\ UNCHANGED recorder
FinalizeFails   == finalized' = FALSE /\ Raise

WriterFinalize ==
    /\ At("writer", "finalize")
    /\ \/ finalized' = TRUE /\ UNCHANGED recorder
       \/ FinalizeFails
    /\ Go("writer", "withdraw")
    /\ WriterOnly /\ UNCHANGED <<medium, done>>

WriterWithdraw ==
    /\ At("writer", "withdraw")
    /\ RecOnly(rec \ {"eventsReady"})
    /\ Go("writer", "unmount")
    /\ WriterOnly /\ UNCHANGED <<medium, done, finalized>>

(* sd_mount_unmount: the release flag is read under the lock, the storage   *)
(* is deleted after it, and a failed deletion leaves s_mounted set.         *)
WriterUnmount ==
    /\ At("writer", "unmount")
    /\ IF "relReq" \in sd
       THEN SdOnly(sd \cup {"fsReleased"}) /\ Go("writer", "exit")
       ELSE UNCHANGED medium /\ Go("writer", "delete")
    /\ WriterOnly /\ UNCHANGED <<recorder, done, finalized>>

WriterDelete ==
    /\ At("writer", "delete")
    /\ \/ storage' = "none" /\ UNCHANGED sd /\ Go("writer", "unmounted")
       \/ storage' = "none" /\ UNCHANGED sd /\ Go("writer", "exit")
       \/ UNCHANGED medium /\ Go("writer", "exit")
    /\ WriterOnly /\ UNCHANGED <<recorder, done, finalized>>

WriterUnmounted ==
    /\ At("writer", "unmounted")
    /\ SdOnly((sd \cup {"fsReleased"}) \ {"mounted"})
    /\ Go("writer", "exit")
    /\ WriterOnly /\ UNCHANGED <<recorder, done, finalized>>

WriterExit ==
    /\ At("writer", "exit") /\ EndTask("writer")
    /\ WriterOnly /\ UNCHANGED <<medium, recorder, finalized>>

WriterTask ==
    \/ WriterMount \/ WriterRecover \/ WriterAnnounce \/ WriterPrepare
    \/ WriterWakeHook \/ WriterOpen \/ WriterRecord \/ WriterFinalize
    \/ WriterWithdraw \/ WriterUnmount \/ WriterDelete \/ WriterUnmounted
    \/ WriterExit

-----------------------------------------------------------------------------
(* recorder_capture_task and recorder_battery_task.                         *)
TaskOnly == Durable /\ UNCHANGED <<medium, usb, bus, events, wake, finalized>>

CaptureWait ==
    /\ At("capture", "wait")
    /\ \/ "stop" \in rec /\ EndTask("capture")
       \/ /\ "stop" \notin rec /\ "writerReady" \in rec
          /\ Go("capture", "init") /\ UNCHANGED done
    /\ UNCHANGED recorder /\ TaskOnly

CaptureInit ==
    /\ At("capture", "init")
    /\ \/ Raise /\ EndTask("capture")
       \/ TransitionOk("RECORDING") /\ Go("capture", "ready") /\ UNCHANGED done
       \/ TransitionFails("RECORDING") /\ Go("capture", "run") /\ UNCHANGED done
    /\ TaskOnly

CaptureReady ==
    /\ At("capture", "ready")
    /\ RecOnly(rec \cup {"recordingReady"})
    /\ Go("capture", "run") /\ UNCHANGED done /\ TaskOnly

CaptureRun ==
    /\ At("capture", "run")
    /\ \/ "stop" \in rec /\ UNCHANGED recorder
       \/ Raise
    /\ Go("capture", "teardown") /\ UNCHANGED done /\ TaskOnly

(* Stopping I2S may find lost samples; deinit is retried until it works.    *)
CaptureTeardown ==
    /\ At("capture", "teardown")
    /\ \/ RecOnly(rec \cup {"stop"}) /\ EndTask("capture")
       \/ Raise /\ EndTask("capture")
       \/ Raise /\ UNCHANGED <<done, pc>>
    /\ TaskOnly

(* Faulty variant: the task ends without its done bit.                      *)
BatteryVanishes == /\ "stop" \in rec /\ Go("battery", "none")
                   /\ UNCHANGED <<done, recorder>>
BatteryStops == "stop" \in rec /\ EndTask("battery") /\ UNCHANGED recorder

BatteryWait ==
    /\ At("battery", "wait")
    /\ \/ BatteryStops
       \/ "stop" \notin rec /\ "recordingReady" \in rec /\ Raise /\ EndTask("battery")
       \/ /\ "stop" \notin rec /\ "recordingReady" \in rec
          /\ Go("battery", "run") /\ UNCHANGED <<recorder, done>>
    /\ TaskOnly

(* A stop, a failed reading, or the confirmed low battery.                  *)
BatteryRun ==
    /\ At("battery", "run")
    /\ \/ BatteryStops
       \/ Raise /\ EndTask("battery")
       \/ /\ TransitionOk("LOW_BATTERY_STOP")
          /\ Go("battery", "stop") /\ UNCHANGED done
       \/ TransitionFails("LOW_BATTERY_STOP") /\ EndTask("battery")
    /\ TaskOnly

BatteryStop ==
    /\ At("battery", "stop")
    /\ RecOnly(rec \cup {"stop"})
    /\ EndTask("battery") /\ TaskOnly

OtherTasks == \/ CaptureWait \/ CaptureInit \/ CaptureReady \/ CaptureRun
              \/ CaptureTeardown \/ BatteryWait \/ BatteryRun \/ BatteryStop

-----------------------------------------------------------------------------
(* TinyUSB callbacks, while the driver is installed.                        *)
Driver == power = "on" /\ ("starting" \in usb \/ "started" \in usb)
Callback == Driver /\ pc["usb"] = "none"     \* the USB task is free
CallbackOnly == Durable /\ UNCHANGED <<medium, recorder, done, wake, pc, finalized>>
Signal(e) == events' = events \cup {e}
UsbFail == Signal("FAILED")

(* ATTACHED (the host configured the device): a provisional configuration,  *)
(* the second enumeration that makes the host owner, or a later reconnect.  *)
AttachProvisional ==
    /\ "usbOwned" \notin usb
    /\ IF /\ Clear({"hostOwned", "release", "triggered", "provisional"}, usb)
          /\ "mounted" \in sd
       THEN usb' = usb \cup {"provisional"} /\ UNCHANGED events
       ELSE UsbFail /\ UNCHANGED usb
    /\ bus' = bus \cup {"configured"}

AttachPublished ==
    /\ "usbOwned" \in usb /\ "hostOwned" \notin usb
    /\ IF /\ Set({"triggered", "prepDisc"}, usb) /\ "release" \notin usb
          /\ "mounted" \notin sd
       THEN /\ usb' = (usb \cup {"hostOwned"}) \ {"provisional", "prepDisc"}
            /\ Signal("HOST_OWNED")
            /\ bus' = bus \cup {"configured"}
       ELSE UsbFail /\ UNCHANGED usb /\ bus' = {}

AttachAgain ==
    /\ "usbOwned" \in usb /\ "hostOwned" \in usb
    /\ IF "release" \notin usb /\ "mounted" \notin sd
       THEN bus' = bus \cup {"configured"} /\ UNCHANGED events
       ELSE bus' = {} /\ UsbFail
    /\ UNCHANGED usb

Attached ==
    /\ Callback /\ "soft" \in bus /\ "configured" \notin bus
    /\ AttachProvisional \/ AttachPublished \/ AttachAgain
    /\ CallbackOnly

(* DETACHED never releases the medium; it cuts the CDC session.             *)
Detached ==
    /\ Callback /\ "configured" \in bus
    /\ bus' = bus \ {"configured"}
    /\ usb' = IF /\ "usbOwned" \notin usb /\ "hostOwned" \notin usb
                 /\ "provisional" \in usb /\ "triggered" \notin usb
              THEN usb \ {"provisional"}
              ELSE IF "hostOwned" \in usb
                   THEN (usb \cup {"detached"}) \ {"session"}
                   ELSE usb
    /\ UNCHANGED events /\ CallbackOnly

(* tud_msc_scsi_complete_cb for TEST UNIT READY: the proof that starts a    *)
(* publication, or that ends a reconnect.                                   *)
ScsiStartsPublication ==
    /\ Callback /\ "configured" \in bus
    /\ "provisional" \in usb /\ "mounted" \in sd
    /\ Clear({"usbOwned", "hostOwned", "release", "triggered"}, usb)
    /\ usb' = usb \cup {"triggered"}
    /\ Signal("ATTACH")
    /\ UNCHANGED bus /\ CallbackOnly

ScsiEndsReconnect ==
    /\ Callback /\ "configured" \in bus
    /\ "usbOwned" \in usb \/ "provisional" \notin usb \/ "triggered" \in usb
    /\ Set({"hostOwned", "detached"}, usb) /\ "release" \notin usb
    /\ "mounted" \notin sd
    /\ usb' = usb \ {"detached"}
    /\ Signal("HOST_REATTACHED")
    /\ UNCHANGED bus /\ CallbackOnly

(* WRITE(10) reads the release gate, then enters the backend, which defers  *)
(* the write to the card.                                                   *)
HostWrite ==
    /\ Callback /\ "configured" \in bus /\ storage = "usb" /\ "release" \notin usb
    /\ Go("usb", "writing")
    /\ Durable /\ UNCHANGED <<medium, usb, bus, events, recorder, done, wake, finalized>>

HostWriteQueued ==
    /\ At("usb", "writing")
    /\ SdOnly(sd \cup {"deferred"})
    /\ Go("usb", "none")
    /\ Durable /\ UNCHANGED <<usb, bus, events, recorder, done, wake, finalized>>

DeferredWrite ==
    /\ Callback /\ "deferred" \in sd
    /\ SdOnly(sd \ {"deferred"})
    /\ Durable /\ UNCHANGED <<usb, bus, events, recorder, done, wake, pc, finalized>>

UsbTask == \/ Attached \/ Detached \/ ScsiStartsPublication \/ ScsiEndsReconnect
           \/ HostWrite \/ HostWriteQueued \/ DeferredWrite

(* The CDC worker accepts RELEASE_STORAGE inside an open session            *)
(* (CdcSession.tla has the session itself) and answers; an answer that does *)
(* not complete signals nothing.                                            *)
AdmissionOpen == /\ Set({"init", "started", "usbOwned", "hostOwned"}, usb)
                 /\ "mounted" \notin sd /\ "release" \notin usb
AcceptRelease ==
    /\ At("cdc", "idle") /\ "session" \in usb
    /\ AdmissionOpen
    /\ usb' = usb \cup {"release", "waiting"}
    /\ Go("cdc", "respond")
    /\ Durable /\ UNCHANGED <<medium, bus, events, recorder, done, wake, finalized>>

ReleaseResponse ==
    /\ At("cdc", "respond")
    /\ \/ /\ Set({"release", "waiting", "init", "started", "hostOwned"}, usb)
          /\ usb' = usb \ {"waiting"}
          /\ Signal("RELEASE_REQUESTED")
       \/ UNCHANGED <<usb, events>>
    /\ Go("cdc", "idle")
    /\ Durable /\ UNCHANGED <<medium, bus, recorder, done, wake, finalized>>

CdcTask == AcceptRelease \/ ReleaseResponse

-----------------------------------------------------------------------------
(* recorder_usb_event_task.                                                 *)
Rank == <<"FAILED", "ATTACH", "HOST_OWNED", "HOST_REATTACHED",
          "RELEASE_REQUESTED", "RELEASE_QUIESCED">>
Selected(e) == \E i \in 1..6 : /\ Rank[i] = e /\ e \in events
                               /\ \A j \in 1..(i - 1) : Rank[j] \notin events
Take(e) == At("coord", "idle") /\ Selected(e) /\ events' = events \ {e}
Abandon == Raise /\ Go("coord", "idle")
CoordRest == UNCHANGED <<done, wake, finalized>>

TakeFailed ==
    /\ Take("FAILED") /\ Raise
    /\ Durable /\ UNCHANGED <<medium, usb, bus, pc>> /\ CoordRest

TakeQuiesced ==
    /\ Take("RELEASE_QUIESCED")
    /\ Durable /\ UNCHANGED <<medium, usb, bus, recorder, pc>> /\ CoordRest

(* recorder_handle_usb_attach, one step per call after the session reset.   *)
TakeAttach ==
    /\ Take("ATTACH") /\ pc["cdc"] # "respond"
    /\ usb' = usb \ {"session"}
    /\ IF state = "RECORDING" THEN Go("coord", "prepare") /\ UNCHANGED recorder
                              ELSE Raise /\ UNCHANGED pc
    /\ Durable /\ UNCHANGED <<medium, bus>> /\ CoordRest

Preparable == /\ Set({"init", "provisional", "triggered"}, usb) /\ Driver
              /\ Clear({"usbOwned", "hostOwned", "release"}, usb)
              /\ "mounted" \in sd
BeginPrepare ==
    /\ At("coord", "prepare")
    /\ \/ /\ Preparable
          /\ usb' = usb \cup {"prepDisc"}
          /\ bus' = {}
          /\ Go("coord", "announce") /\ UNCHANGED <<recorder, events>>
       \/ /\ Abandon /\ UNCHANGED <<usb, bus>>
          /\ IF Preparable THEN UsbFail ELSE UNCHANGED events
    /\ Durable /\ UNCHANGED medium /\ CoordRest

AnnouncePrepare ==
    /\ At("coord", "announce")
    /\ \/ TransitionOk("USB_PREPARE") /\ Go("coord", "releaseFs")
       \/ TransitionFails("USB_PREPARE") /\ Go("coord", "idle")
    /\ Durable /\ UNCHANGED <<medium, usb, bus, events>> /\ CoordRest

(* sd_mount_release_for_usb, then the stop that the recorder tasks see.     *)
ReleaseForUsb ==
    /\ At("coord", "releaseFs")
    /\ IF "mounted" \in sd /\ storage # "none" /\ "relReq" \notin sd
       THEN /\ SdOnly((sd \cup {"relReq"}) \ {"fsReleased"})
            /\ Go("coord", "stop") /\ UNCHANGED recorder
       ELSE Abandon /\ UNCHANGED medium
    /\ Durable /\ UNCHANGED <<usb, bus, events>> /\ CoordRest

StopRecorder ==
    /\ At("coord", "stop")
    /\ RecOnly(rec \cup {"stop"})
    /\ Go("coord", "join")
    /\ Durable /\ UNCHANGED <<medium, usb, bus, events>> /\ CoordRest

(* Faulty variant: the wait ends on the first done bit.                     *)
AnyDone == done # {}
AllDone == done = Tasks

JoinRecorder ==
    /\ At("coord", "join") /\ AllDone
    /\ IF state = "USB_PREPARE" /\ "fsReleased" \in sd
       THEN Go("coord", "mark") /\ UNCHANGED recorder
       ELSE Abandon
    /\ Durable /\ UNCHANGED <<medium, usb, bus, events>> /\ CoordRest

(* usb_msc_publish: the durable marker, the transfer, the reconnection.     *)
Publishable == /\ Clear({"usbOwned", "hostOwned", "release"}, usb)
               /\ Set({"provisional", "triggered", "prepDisc"}, usb)
               /\ "mounted" \in sd
MarkUnresolved ==
    /\ At("coord", "mark")
    /\ \/ /\ Publishable /\ nvs' = "HOST_UNRESOLVED"
          /\ Go("coord", "transfer") /\ UNCHANGED <<recorder, events>>
       \/ /\ nvs' \in IF Publishable THEN WriteFailed(nvs, "HOST_UNRESOLVED")
                                     ELSE {nvs}
          /\ UsbFail /\ Abandon
    /\ UNCHANGED <<power, boots, exposed, medium, usb, bus>> /\ CoordRest

TransferToUsb ==
    /\ At("coord", "transfer")
    /\ \/ /\ Set({"mounted", "relReq", "fsReleased"}, sd) /\ storage = "app"
          /\ storage' = "usb" /\ sd' = sd \ {"mounted"}
          /\ usb' = usb \cup {"usbOwned"}
          /\ exposed' = TRUE
          /\ Go("coord", "connect") /\ UNCHANGED <<recorder, events>>
       \/ UsbFail /\ Abandon /\ UNCHANGED <<medium, usb, exposed>>
    /\ UNCHANGED <<power, boots, nvs, bus>> /\ CoordRest

Reconnect ==
    /\ At("coord", "connect")
    /\ \/ /\ bus' = bus \cup {"soft"}
          /\ Go("coord", "idle") /\ UNCHANGED <<recorder, events>>
       \/ UsbFail /\ Abandon /\ UNCHANGED bus
    /\ Durable /\ UNCHANGED <<medium, usb>> /\ CoordRest

PublishMedium == \/ TakeAttach \/ BeginPrepare \/ AnnouncePrepare \/ ReleaseForUsb
                 \/ StopRecorder \/ JoinRecorder \/ MarkUnresolved
                 \/ TransferToUsb \/ Reconnect

(* recorder_handle_usb_host_owned and _host_reattached open a CDC session.  *)
TakeHostOwned ==
    /\ Take("HOST_OWNED")
    /\ IF state = "USB_PREPARE" /\ "mounted" \notin sd /\ "hostOwned" \in usb
       THEN TransitionOk("USB_SYNC") /\ usb' = usb \cup {"session"}
       ELSE Raise /\ UNCHANGED usb
    /\ Durable /\ UNCHANGED <<medium, bus, pc>> /\ CoordRest

TakeReattached ==
    /\ Take("HOST_REATTACHED")
    /\ IF state = "USB_SYNC" /\ AdmissionOpen
       THEN Go("coord", "reopen") /\ UNCHANGED recorder
       ELSE Raise /\ UNCHANGED pc
    /\ Durable /\ UNCHANGED <<medium, usb, bus>> /\ CoordRest

(* The session reset waits for a command in flight.                         *)
ReopenSession ==
    /\ At("coord", "reopen") /\ pc["cdc"] # "respond"
    /\ usb' = usb \cup {"session"}
    /\ Go("coord", "idle")
    /\ Durable /\ UNCHANGED <<medium, bus, events, recorder>> /\ CoordRest

(* recorder_handle_usb_release: the checks, the session reset, the teardown *)
(* of usb_msc_ownership_complete_release_quiesce, the shutdown.             *)
TakeRelease ==
    /\ Take("RELEASE_REQUESTED")
    /\ IF state = "USB_SYNC" /\ "mounted" \notin sd /\ "hostOwned" \in usb
       THEN Go("coord", "resetCdc") /\ UNCHANGED recorder
       ELSE Raise /\ UNCHANGED pc
    /\ Durable /\ UNCHANGED <<medium, usb, bus>> /\ CoordRest

ResetSession ==
    /\ At("coord", "resetCdc") /\ pc["cdc"] # "respond"
    /\ usb' = usb \ {"session"}
    /\ Go("coord", "quiesce")
    /\ Durable /\ UNCHANGED <<medium, bus, events, recorder>> /\ CoordRest

Quiescable == /\ Set({"init", "started", "usbOwned", "hostOwned", "release"}, usb)
              /\ "waiting" \notin usb /\ "mounted" \notin sd
QuiesceDriver ==
    /\ At("coord", "quiesce")
    /\ \/ /\ Quiescable
          /\ usb' = usb \ {"started"}
          /\ bus' = {}
          /\ pc' = [pc EXCEPT !["coord"] = "delete", !["usb"] = "none"]
          /\ UNCHANGED <<recorder, events>>
       \/ /\ Abandon /\ UNCHANGED <<usb, bus>>
          /\ IF Quiescable THEN UsbFail ELSE UNCHANGED events
    /\ Durable /\ UNCHANGED medium /\ CoordRest

(* sd_mount_release_usb_storage: esp_tinyusb refuses to delete a storage    *)
(* with deferred writes; the MSC driver may fail to uninstall after it.     *)
(* Faulty variants: a forced delete; a refused one that is ignored.         *)
DeletableForced == /\ Set({"relReq", "fsReleased"}, sd) /\ "mounted" \notin sd
                   /\ storage # "none"
Deletable == /\ Set({"relReq", "fsReleased"}, sd) /\ Clear({"mounted", "deferred"}, sd)
             /\ storage # "none"
DeleteIgnored == Go("coord", "arm") /\ UNCHANGED <<recorder, events>>
DeleteFails   == UsbFail /\ Abandon

ReleaseUsbStorage ==
    /\ At("coord", "delete")
    /\ \/ /\ Deletable
          /\ storage' = "none" /\ UNCHANGED sd
          /\ exposed' = FALSE
          /\ \/ Go("coord", "arm") /\ UNCHANGED <<recorder, events>>
             \/ UsbFail /\ Abandon
       \/ DeleteFails /\ UNCHANGED <<medium, exposed>>
    /\ UNCHANGED <<power, boots, nvs, usb, bus>> /\ CoordRest

ArmShutdown ==
    /\ At("coord", "arm")
    /\ \/ /\ nvs' = "ARMED"
          /\ usb' = usb \cap {"init", "session"}
          /\ events' = (events \cap {"FAILED"}) \cup {"RELEASE_QUIESCED"}
          /\ Go("coord", "sleep") /\ UNCHANGED recorder
       \/ /\ nvs' \in WriteFailed(nvs, "ARMED")
          /\ UsbFail /\ Abandon /\ UNCHANGED usb
    /\ UNCHANGED <<power, boots, exposed, medium, bus>> /\ CoordRest

(* Faulty variant: a refused shutdown raises no error.                      *)
SleepIgnored == Go("coord", "idle") /\ UNCHANGED recorder
SleepFails   == Abandon

SleepNow ==
    /\ At("coord", "sleep")
    /\ \/ PowerOff
       \/ SleepFails /\ Durable /\ UNCHANGED <<medium, usb, bus, events>> /\ CoordRest

ReleaseMedium == \/ TakeRelease \/ ResetSession \/ QuiesceDriver
                 \/ ReleaseUsbStorage \/ ArmShutdown \/ SleepNow

CoordTask == \/ TakeFailed \/ TakeQuiesced \/ PublishMedium \/ TakeHostOwned
             \/ TakeReattached \/ ReopenSession \/ ReleaseMedium

Next == \/ PowerCut \/ PowerOn \/ MainTask \/ WriterTask \/ OtherTasks
        \/ UsbTask \/ CdcTask \/ CoordTask

Spec == Init /\ [][Next]_vars

-----------------------------------------------------------------------------
MainLabels   == {"none", "gate", "shutdown", "spawn", "noSync", "waitRec",
                 "usbInit", "usbStart", "usbStarted", "done"}
WriterLabels == {"none", "mount", "recover", "announce", "prepare", "wakeHook",
                 "open", "record", "finalize", "withdraw", "unmount", "delete",
                 "unmounted", "exit"}
TaskLabels   == {"none", "wait", "init", "ready", "run", "teardown", "stop"}
CdcLabels    == {"none", "idle", "respond"}
UsbLabels    == {"none", "writing"}
CoordLabels  == {"none", "idle", "prepare", "announce", "releaseFs", "stop", "join",
                 "mark", "transfer", "connect", "reopen", "resetCdc", "quiesce",
                 "delete", "arm", "sleep"}

Labels == MainLabels \cup WriterLabels \cup TaskLabels \cup CdcLabels
             \cup UsbLabels \cup CoordLabels

(* Type correctness of the ownership state.                                 *)
TypeOK ==
    /\ power \in {"on", "off"} /\ boots \in Nat /\ nvs \in Lifecycles
    /\ storage \in {"none", "app", "usb"} /\ sd \subseteq SdFlags
    /\ usb \subseteq UsbFlags /\ bus \subseteq BusFlags /\ events \subseteq Events
    /\ state \in RecorderStates /\ rec \subseteq RecFlags
    /\ done \subseteq Tasks
    /\ wake \subseteq WakeFlags
    /\ pc \in [Procs -> Labels]
    /\ exposed \in BOOLEAN /\ finalized \in BOOLEAN

(* One owner: while the storage object serves the USB host, no recorder     *)
(* task is left that could write the card, the event log is withdrawn and   *)
(* the recordings directory is not mounted (the join in                     *)
(* recorder_handle_usb_attach, task49_runtime.c:244-256).                   *)
OneOwner == storage = "usb" => /\ done = Tasks /\ "eventsReady" \notin rec
                               /\ "mounted" \notin sd

(* From the moment the host could have written the card until the storage   *)
(* is deleted by an accepted release, across any power cut, the durable     *)
(* marker says HOST_UNRESOLVED and no boot mounts the card                  *)
(* (usb_msc_publish, usb_msc_ownership.c:304-312; boot gate,                *)
(* shutdown_armed.c:153-174).                                               *)
ExposedStaysUnmounted ==
    exposed => nvs = "HOST_UNRESOLVED" /\ storage # "app" /\ "mounted" \notin sd

(* What the host is given is complete: the last segment of this boot was    *)
(* closed and indexed, not abandoned by an error that raced the             *)
(* publication (recorder_handle_usb_attach passes wav_finalized and         *)
(* manifest_committed as constants, task49_runtime.c:254).                  *)
PublishedFinalized == storage = "usb" => finalized

(* The USB stack runs only after a normal boot or a completed wake          *)
(* recovery, and never again once the shutdown is armed                     *)
(* (task87_wake_recovery_usb_rearm_allowed, task49_runtime.c:462-466).      *)
UsbNeedsProof ==
    Driver => "pending" \notin wake /\ nvs \in {"NORMAL", "HOST_UNRESOLVED"}

(* The host loses the card only to an accepted RELEASE_STORAGE whose        *)
(* response completed, with the USB driver gone and no deferred write; and  *)
(* HOST_UNRESOLVED gives way only after that, to ARMED, with the storage    *)
(* object gone and the driver still uninstalled                             *)
(* (usb_msc_ownership_complete_release_quiesce, usb_msc_ownership.c:855-).  *)
ReleaseOnlyByCommand ==
    [][/\ exposed /\ ~exposed' =>
            /\ "release" \in usb /\ "waiting" \notin usb
            /\ "deferred" \notin sd /\ ~Driver
       /\ nvs = "HOST_UNRESOLVED" /\ nvs' # nvs =>
            /\ nvs' = "ARMED" /\ ~exposed /\ ~Driver
            /\ power = "on" /\ storage = "none"]_vars

(* An armed device becomes NORMAL again only once this boot has recovered   *)
(* the card and is recording under a fresh id                               *)
(* (task87_wake_recovery_note_recording_started).                           *)
WakeNeedsFreshRecording ==
    [][nvs' = "NORMAL" /\ nvs # "NORMAL" =>
         /\ "pending" \in wake /\ "deviceDone" \in wake /\ "recId" \in rec
         /\ state \notin {"BOOT", "RECOVER"}]_vars

(* The card as MediumOwnership has it: it is the host's from the transfer   *)
(* to the deletion of the storage object, in use while a recorder task      *)
(* runs, and asked for from the acceptance of RELEASE_STORAGE on.           *)
Medium == INSTANCE MediumOwnership WITH
    owner  <- IF exposed THEN "host" ELSE "device",
    inUse  <- \E p \in Tasks : pc[p] # "none",
    marked <- nvs = "HOST_UNRESOLVED",
    asked  <- "release" \in usb

(* Publication, release, boot gate, NVS marker and power cuts together keep *)
(* the turns of MediumOwnership: the marker is written before the transfer  *)
(* and after the join, resolved after the deletion, and nothing else, of    *)
(* any task or any boot, moves the card (usb_msc_publish,                   *)
(* usb_msc_ownership_complete_release_quiesce, shutdown_armed_boot_action). *)
TurnsAreKept == Medium!Spec

(* Every task keeps running; a recording loop ends only when it sees a      *)
(* stop, and I2S deinit is eventually accepted.  Nothing is assumed of the  *)
(* host, the cable, the button or the power.                                *)
Loops == [writer |-> "record", capture |-> "run", battery |-> "run"]
MayEnd(p) == pc[p] = Loops[p] => "stop" \in rec
Fairness ==
    /\ WF_vars(MainTask)
    /\ WF_vars(WriterTask /\ MayEnd("writer"))
    /\ WF_vars((CaptureWait \/ CaptureInit \/ CaptureReady \/ CaptureRun)
               /\ MayEnd("capture"))
    /\ WF_vars(CaptureTeardown /\ done' # done)
    /\ WF_vars((BatteryWait \/ BatteryRun \/ BatteryStop) /\ MayEnd("battery"))
    /\ WF_vars(ReleaseResponse) /\ WF_vars(CoordTask)

FairSpec == Spec /\ Fairness

(* The coordinator's unbounded wait for the recorder tasks                  *)
(* (task49_runtime.c:245) ends: each of them sees the stop wherever it is.  *)
JoinReturns == pc["coord"] = "join" ~> pc["coord"] # "join"

(* Where the main task polls for ever for the recorder's lock or event      *)
(* group (task49_runtime.c:189-191) after main.c could not create it        *)
(* (main.c:1274-1282): the battery is all that ends such a boot.            *)
BootHangs == pc["main"] = "noSync"

(* Nothing hangs half done: a completed RELEASE_STORAGE ends in the armed   *)
(* power-off or in a visible ERROR (recorder_handle_usb_release), and a     *)
(* manual wake with recovery proved, with the device off again, or with a   *)
(* refused shutdown (recorder_wait_initial_recording,                       *)
(* task49_runtime.c:186-213), unless that boot hangs as above.              *)
Resolves ==
    /\ "RELEASE_REQUESTED" \in events ~> power = "off" \/ state = "ERROR"
    /\ "pending" \in wake
          ~> "pending" \notin wake \/ pc["main"] = "done" \/ BootHangs
=============================================================================
