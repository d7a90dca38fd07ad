# m5daylog: TLA+ models of the recorder

m5daylog is a voice recorder on an M5Capsule (ESP32-S3). It records WAV segments to a
microSD card, hands the card to a PC over USB mass storage when a host attaches, takes
commands over USB CDC, and powers off after an accepted `RELEASE_STORAGE`. A PC program
copies, verifies and indexes the recordings. This directory holds TLA+ models of the parts
where concurrency and power loss make the code hard to test, the TLC configurations that
check them and TLAPS proofs.

Source paths below are relative to `src/firmware/components/recorder/` unless they name a
directory; `main/` is `src/firmware/main/`, `pc/` is `src/pc/src/m5daylog/`.

## 1. Inventory

| Component | State it keeps | Operations | Hard behaviour | What makes it correct |
|---|---|---|---|---|
| CDC session gate (`usb_cdc_session_gate.c`) | phase, generation, active commands, the RX word (OPEN, OPENING, DIRTY, count), discard and drained epochs | open, close, reset, note_rx, snapshot, mark_drained, command begin/end | lock-free; four contexts on two cores; compare-exchange with state read before it | no byte from before a cutoff is executed; a reset is a barrier |
| CDC worker (`usb_cdc_protocol.c`, `usb_cdc_tx.c`, `usb_cdc_protocol_core.c`) | framer, chunk, the frame's generation | read, frame, admit, execute, respond | host may never read; a cutoff at any point of a command | nothing executes after a release; resets and opens return |
| USB ownership (`usb_msc_ownership.c`) | a dozen volatile flags, event bits | TinyUSB callbacks, publish, accept, quiesce | callbacks race the coordinator; detach and reattach at any time | the host gets and loses the card only by protocol |
| Storage (`sd_mount.c`) | storage object, mounted / release requested / released | mount, release for USB, transfer, release, unmount | check-then-act between writer and coordinator | one owner of the card |
| Durable marker (`shutdown_armed.c`) | one NVS byte | mark unresolved, arm, wake pending, complete, boot action | power cut at any step, failed commit | marker is never more optimistic than the card |
| Wake recovery (`main/task87_wake_recovery.c`) | pending, device done | device recovery, note recording | a recorder that stops during recovery | no USB before a proved recovery |
| Recorder tasks (`main/main.c`) | state machine, stop and ready bits | writer, capture, battery | errors racing a stop; unbounded waits | every task ends once stopped; ERROR or a closed segment |
| Coordinator and boot (`main/task49_runtime.c`) | - | boot gate, attach, host owned, reattached, release | order of five calls, each of which can fail or lose power | as above |
| State machine (`recorder_state.c`), power (`recorder_power.c`) | state; HOLD pin | transition; shutdown | refused shutdown | terminal states stay terminal |
| Manifest, identity (`device_manifest.c`, `device_identity.c`) | JSON files with tmp and backup | load, merge, save, recover | crash between write, rename, remove | no entry lost or duplicated |
| RTC correction (`rtc_correction.c`, `rtc_correction_event.c`) | hardware clock, process clock, I2C transport, NVS pending record, `events.jsonl` | SET_TIME, load, flush event, clear | crash between clock, NVS, answer and event log; other writers of the log; calendar edges | a correction that was answered is logged, once; the clock is what was answered |
| WAV segments (`wav_*.c`, `sd_pcm_sink.c`) | current segment | open, write, checkpoint, rotate, finalize, recover | interrupted finalization and recovery | no half header, no checkpointed audio lost |
| PCM capture (`pcm_pipeline.c`, `i2s_pdm_capture.c`) | the driver's queue, overflow counters, two slots | callback, read, drain, produce, peek, release, stop | interrupt between any two steps, a slot read outside the lock, a stop at any point | no gap in the recording, no loss without ERROR |
| PC sync (`pc/sync.py`, `pc/db.py`) | partial files, published files, SQLite | copy, verify, publish, record | crash between any two, changed source | SYNCED means verified bytes; nothing of others is replaced |
| PC release (`pc/release.py`, `pc/windows_release.py`, `pc/cli.py`) | I/O gate, frozen target and COM binding, attempt | lease, seal, lock and dismount, `RELEASE_STORAGE`, observe | reused drive letters and COM names, lost or late answers, a killed process | only the synchronised, quiet device is asked; the reason printed is true |

Calls and shared state: TinyUSB's task runs the callbacks of `usb_msc_ownership.c` and
`usb_cdc_protocol.c`. They set flags and event bits and, on DETACHED, cut the CDC session.
The coordinator `rec_usb` takes event bits in a fixed priority and does all the slow work.
The CDC worker executes commands and accepts a release. The main task runs the boot gate,
waits for RECORDING and starts the USB stack. The writer, capture and battery tasks share the
recorder state, the stop bit and the storage object.

`PROJECT.json` lists every component and, under `hazards`, each line where these contexts
can go wrong.

## 2. Plan

Order of work, most important behaviour first.

1. `CdcSession`: the gate, the worker and the contexts that open and cut sessions. **Done**,
   safety proved.
2. `RecorderState`, `ShutdownArmed`, `UsbOwnership`: ownership of the card over boots and
   power cuts. **Done**, safety proved for all numbers of boots.
3. `MediumOwnership`: an abstract specification of the turns that recorder and host take with
   the card, which `UsbOwnership` implements. **Done**, the refinement proved.
4. `SegmentStore`: segments, manifest and `device.json` on the card, with a power cut or a
   failure at every file operation, implementing `ManifestLog`, an append-only log.
   **Done**, safety and the refinement proved.
5. `Calendar` and `RtcCorrection`: the clock and its audit event. **Done** and proved.
   `PcmPipeline`: from the microphone to the card. **Done**, safety proved.
6. `PcSync` and `PcRelease`, with the device's side of a release external. **Done**, safety
   proved.

Every safety invariant and action property that a passing run checks is proved. What is left is
liveness, which stays with TLC, and the parts listed in section 6.

`UsbOwnership` composes `RecorderState` and `ShutdownArmed` and implements `MediumOwnership`. It abstracts the CDC session
of `CdcSession` to a flag and a command in flight; `CdcSession` abstracts ownership to the
record `own`. The two cover the same coordinator from both sides. `SegmentStore` is what
`UsbOwnership` abstracts to "the recorder records and finalizes": the writer's file work.
`PcmPipeline` has the same writer from the side of the samples, with the file work a success
or a failure, and composes `RecorderState`. `RtcCorrection` is the flush hook that
`UsbOwnership` abstracts to a success or a failure, and extends `Calendar`. `PcRelease`
extends `PcSync`, which it runs inside its lease.

## 3. Modules

### CdcSession
Each variable of the gate and each `s_*` flag is a variable. `pc` holds the program point of
the TinyUSB task, the coordinator, the main task and the worker; `ret` is the return point of
a gate call. `cut` (the generation the last reset began) and `crossed` (the main task's late
start and the coordinator crossed in the gate: `Crosses`) are history variables.
**Each atomic access is one step**, except that a compare-exchange loop which
recomputes from the fresh value is the step at which it succeeds. `ClearLoad`, `ClearEpoch`,
`ClearPending`, `ClearCas` stay apart because the epochs are read between the load and the
exchange. The worker's admission tests are sequences of loads (`Checks`), taken one per step
(`CheckMore`), that stop at the first that fails.

A byte is a record of what the line says (a command head or a newline) and of the generation
and physical connection in which it entered the FIFO; the latter exist only for the
properties. The host sends whole lines; discards are what break them. JSON is abstracted to
the command a line names. What the host does with a response is a free choice of
`WriteResponse`. A failed start of the interface is `StartFails`.

`Init` is the state before the interface starts. `MCCdcSession` adds later states that
`Spec` reaches (`LiveState`, `OpenState`, `LateState`, `BusyInit`) and gives each of them the share of the
host's bytes, connections and line changes that is still to come (`Host`).

### RecorderState, ShutdownArmed
The transition table, and the four NVS values with the precondition of each write, the
outcomes of a failed one (`WriteFailed`: the old value or the new) and the boot action.

### UsbOwnership, MediumOwnership
State: power, the durable marker `nvs`, the storage object, one set of raised flags per
component (`sd`, `usb`, `rec`, `wake`, `bus`), the coordinator's event bits, the recorder
state, the set of ended tasks and a program counter per task. Two history variables serve
the properties: `exposed` (the host has had the card and has not released it) and
`finalized` (this boot's last segment is closed and indexed).

A handler is one action per call at which another task can interleave: a publication is
`TakeAttach`, `BeginPrepare`, `AnnouncePrepare`, `ReleaseForUsb`, `StopRecorder`,
`JoinRecorder`, `MarkUnresolved`, `TransferToUsb`, `Reconnect`; a release is `TakeRelease`,
`ResetSession`, `QuiesceDriver`, `ReleaseUsbStorage`, `ArmShutdown`, `SleepNow`. A TinyUSB
callback is one step, except WRITE(10), which tests the release gate and enters the backend
in two. Every call that can fail has a failing disjunct with the caller's error path.
`PowerCut` is possible in every step; `PowerOn` brings the device up cold with the button
pressed or not. The start of the recorder has three: a task after which the creation stops
(`SpawnTasks`), no `rec_base` task at all (`SpawnFails`), and no state lock or no event group
(`SpawnWithoutSync`), with which no task is created and the main task stays at `noSync`.

`MediumOwnership` is what all of this promises about the card. The card is the device's or the
host's; the recorder's use begins only on an unmarked card of the device's, and ends before
the durable mark is set; the card goes to the host only with the mark set and comes back only
after the host asked; the mark goes only then. Losing the power ends the use and forgets the
request, and nothing else. In the mapping, the card is the host's while `exposed`, in use while
a recorder task is at a program point, marked while the NVS says HOST_UNRESOLVED and asked for
while `s_release_pending` is set.

Abstractions: the recording loop is one step that ends on a stop or an error; mounting,
recovery and manifest work are a success or a failure; a card swap is not modelled. A failing
`tinyusb_driver_install` is taken to fail before any callback ran.

### SegmentStore, ManifestLog
The card is `man` (the three manifest files, each absent, torn or a sequence of entries),
`device` (`device.json`), `dated` (a date directory exists) and `wav` (for every recordingId
its file: none, `.wav.part`, `.wav` or quarantined; header, declared length, size, and
`durable`, how much of it was synced). `pc` is the writer's program point, `ram` its memory:
`seg` is `s_seg_rec_id`, `file` is `s_seg_wav`/`s_seg_part`, `called` and `fin` are the
finalize state, `pcm` is `pcm_bytes`, `job` says on whose behalf an upsert runs (boot scan,
rotation, final record). **Each file operation that leaves a trace is a step**; `PowerCut`
may follow any of them and `PowerOn` runs the boot sequence of `recorder_writer_task` again.
There is one thread, so nothing else interleaves.

`Fault(k)` fails an operation: `io` without an effect, `short` a write after some of its
bytes, `truncate` the best-effort truncate, `open` the first open of `device.json`, `full`
an admission for lack of memory or clusters. Each failing disjunct takes the code's error
path; `JobFails` is the fall-through from a failed rotation to the final finalize and record.

Abstractions. FAT: a rename moves a file whole and refuses an existing target; a file being
written survives a power cut with any length between the synced and the written one (the
recovery code is written for odd tails; FatFs may in fact keep only the synced length). A
document is valid or torn, as `manifest_snapshot_valid` accepts only the canonical form. A
digest is the size with a content tag that the host may change. recordingIds are fresh
UUIDs, so names never collide. A chunk is one two-byte sample. Timestamps, `events.jsonl` and
log lines are left out, and so is a stop that arrives during a rotation (it takes effect as a
stop in the next segment).

`ManifestLog` is what the manifest promises. The mapping takes for its log the entries of
`manifest.json`, or of the backup while there is no `manifest.json`.

### Calendar, RtcCorrection
`Calendar` has the pure arithmetic under the names of the code: leap years, days from a civil
date, the offset of a request, the accepted window, BCD and the clock's registers. A 64-bit
epoch is a pair of day and second. `CalendarExact` compares it with the calendar: 1970-01-01 is day 0
(`EpochIsZero`), every day from 1970 to 2100 has the number after that of the day before
(`DaysCounted`), a date comes back from the registers (`DatesRestored`), and requests around
the two ends of the window are judged by the instant they name (`RequestsJudged`).

`RtcCorrection`: `hw` is the BM8563 (which correction's time it holds, and whether it runs),
`sys` the process clock, `link` the I2C transport, `nvs` and `pend` the pending record and its
copy in RAM, `armed` the part of the durable marker that decides between a normal boot and a
wake, `ev` the event log: the corrections whose lines are in it, whether a complete line does
not parse, and whether the last line is incomplete. `pc` goes through a boot (load,
RECOVER event, summary, flush, RECORDING event) and through `rtc_correction_apply` one
durable effect at a time. A failing transfer, commit or erase may have taken effect; a
failing `settimeofday` (`Fault("clock")`) leaves the process clock as it was. The
lock of `rtc_correction.c` makes apply and flush one program point each; the host sends one
command at a time. The other lines of the log matter only for what they do to an incomplete
tail (`Appended`).

### PcmPipeline
A sample is its number, a DMA descriptor holds one. `dma` is the driver's queue, `ovf` the
counters that `recorder_rx_q_ovf_cb` fills while armed, `lost` what it really dropped, `buf`,
`res`, `snap` the locals of the capture loop, `pipe` is `s_pipeline` (both slots and all the
counters that say something was lost), `card` the samples written, `log` the state events
begun. `Sample` is the interrupt and can come between any two steps. Each section under
`s_rec_lock` is a step; the writer copies a slot sample by sample, outside the lock.
`AskStop` is the battery task or the coordinator. Rotation and finalization are a success or
a failure. A read is descriptor by descriptor and may time out with some of them taken; as in
the ESP-IDF driver, bytes of such a read are delivered. `pcm_pipeline_produce` copies what
fits into the active slot and goes on with the other; a read is no longer than a slot
(`ReadSize <= SlotSize`), so its loop is two `Round`s.

### PcSync, PcRelease
`PcSync` is `sync_device`: `row` the recordings table, `final` and `partial` the two files of
each recording, `sync` the program point and locals. A file is whose bytes it has and how
many chunks of them; the manifest's size and digest are those of the whole recording, so a
verification compares with it. The drive letter is looked up by each step that names a path;
an open source stays on its device, and is lost when that is pulled out. Every call may raise
(`SyncRaises`), a read may return other bytes (`CopyChunk`), and somebody may put a file at the
final path at any time (`PlaceFile`, and `placed` remembers which). Publication is one step on
Windows and two elsewhere. Schema validation, path containment, the `devices` table and
timestamps are a success or a failure.

`PcRelease` adds the commands (`cli`), the gate, the Windows port and the two devices' side of
CDC (`cdc`). A device stands for its PnP ids, volume GUID and deviceId. `bus` says which
devices are present and which of them the drive letter and the COM name lead to; `Unplug` and
`Plug` pass these on between any two steps. Each lookup is a step, in the code's order:
resolve, deviceId, topology, COM interface, availability, seal, drain, lock, and the three
comparisons of the COM binding around the opening of the port. With a device go its volume,
the lock on it and the handle of its port (`HandlesDie`); plugged in again it has the same
ids and the same interface, but neither lock nor open handle. A request without a port fails. The
device accepts, refuses or says nothing; after an acceptance its disk goes at some time or not (`Handle`, `DiskGoes`).
`Killed` ends the process at any step; handles and the gate go with it. `GATE_CLOSED` cannot
happen in a command, which `TypeOK` states. `accepted`, `gone`, `swaps` (how often the drive
letter was given to a device during the command) and `reborn` (the locked device was plugged in
again before its port was opened) are history variables.

Definitions marked "Faulty variant" are seeded bugs. They are used only to confirm that each
property detects one, and no specification refers to them.

## 4. Runs

| Run | Configuration | Question and result |
|---|---|---|
| `cdc` | `MCCdcSession.cfg` | A late interface start, also one that a reset runs into, a session that is left and resumed, two lines in a row, a DTR change: types, exact admission word and callback count, no stale command, reset is a barrier, nothing executes after a release. |
| `cdc_progress` | `MCCdcSession_fair.cfg` | A response being written, two detaches: reset and open return, a delivered release is handled. |
| `cdc_late_start` | `MCCdcSession_late.cfg` | **Violated**, see below. |
| `ownership` | `MCUsbOwnership.cfg` | Three boots: five invariants and two action properties hold, and `MediumOwnership` is implemented; the join returns, a delivered release resolves, and so does a wake in a boot with its lock and event group. |
| `store` | `MCSegmentStore.cfg` | Three segments, two faults of any kind, two power cuts, one host edit: the manifest implements `ManifestLog`, a certified inventory is exact, checkpointed audio is kept. |
| `store_cuts` | `MCSegmentStore_cuts.cfg` | Five recordingIds, four entries, two power cuts: no boot refuses the card, an append finds room, every segment is indexed or quarantined. |
| `store_ceiling` | `MCSegmentStore_ceiling.cfg` | **Violated** without any fault, see below. |
| `rtc` | `MCRtcCorrection.cfg` | Three corrections, two power cuts, three faults, the process clock's included: an answered correction is kept until it is logged, and logged once; the clock is what was answered; the calendar is exact. |
| `rtc_torn` | `MCRtcCorrection_torn.cfg` | **Violated** with one power cut, see below. |
| `pcm` | `MCPcmPipeline.cfg` | Five samples through a queue of one and two slots of two, one fault: no gap, no loss without ERROR, nothing written after the unmount, a stop ends both tasks. |
| `pcm_stop` | `MCPcmPipeline_stop.cfg` | **Violated** without any fault, see below. |
| `pc` | `MCPcRelease.cfg` | Two devices and a foreign file, with two commands, three moves, a kill and a fault, or one command and six moves: the library is sound, requests are safe up to exact exceptions, reasons are true, commands return. |

Bounds. `MaxBytes`: a line is two bytes, so 4 is a second command behind a release, and a
line that straddles a cutoff with another behind it. `MaxConn`: 1 is the published connection,
2 adds a reconnect and 3 (`cdc_progress`) a second one. `MaxLineState`: one DTR change, on
either side of a command. `SessionInit` starts each of the states of section 3 with the part
of these that its question needs. `MaxBoots`: 3 is what an armed wake needs (record and
release; a wake that is cut; the wake after it); the proofs hold for every value.
In `SegmentStore`, three segments give a rotation after a rotation and, with a `Ceiling` of 3,
a refused admission with two entries behind it; four bytes are a checkpoint and a chunk after
it; two faults are a failed rename with a failed rollback, or a fault in a recovery from
another one; a power cut on top of these and one in the recovery from it make two. `store_cuts`
has one recordingId more than the ceiling has entries, so that a rotation is refused. Running
out of recordingIds is `recorder_new_recording_id` failing (`err` is then `spent`).

In `RtcCorrection` two power cuts are one in a correction or its flush and one in the wake
after it; three corrections are one that was reported failed and stored its record, one
answered and one refused behind it. The requests are a valid one, one outside the window and
one with a bad offset; all other dates are `CalendarExact`'s. In `PcmPipeline` five samples
fill both slots with one to spare, so that a slot overflows, and a queue of one drops at the
second sample not read. In `PcRelease` two commands are one whose outcome was not proved and
its retry; three moves bring another device to the letter or the port in the middle of a
command and leave room for one more. Six moves are what three gifts of the letter take, and they
come with one command that nothing kills and no call of which fails; `MCInit` has one initial
state for either share of the bounds, and the properties are those of `Spec` for both. The second device holds one of the first one's recordingIds, so that a conflict and a
wrong adoption are possible.

`CHECK_DEADLOCK FALSE` in the USB and PC models: a powered-off device with no boots left, and an idle device whose
host has used up its actions, stop legitimately, and so does a PC with no command left.

Fairness. Weak fairness for every RTOS task and for the completion of a TinyUSB callback
that has begun: FreeRTOS schedules each of them, and every wait of theirs that is not on
another task has a timeout. The recording loops end only on a stop; the I2S deinit retry is
assumed to succeed at last. Nothing is assumed of the host, the cable, the button or the
power.

The writer of `SegmentStore` has weak fairness and the device is switched on again in the end;
faults and power cuts are bounded, not fair.

`RtcCorrection`: the device's steps are taken, and its owner switches it on, presses the
button and releases it again and again; nobody need send a SET_TIME. `PcmPipeline`: the two
tasks are scheduled and their waits time out; nothing is assumed of the microphone, nor that
a stop comes. `PcRelease`: the process runs and its clock passes each deadline; no device need
answer and no other holder of a lease need return it.

### Findings
`cdc_late_start`: `usb_cdc_session_gate.h:85` says that RESETTING "remains published while active
commands drain; therefore a racing reopen cannot defeat the cutoff." But the bytes that were
cut off are marked stale only afterwards, by the `usb_cdc_session_gate_note_rx` with which
`usb_cdc_protocol_reset_session` goes on (`usb_cdc_protocol.c:389`), when the gate is CLOSED
already. The main task's late `usb_cdc_protocol_start` may be inside
`usb_cdc_session_gate_open` at that time, past its test of `s_open_requested`: it reserves and
publishes the OPEN word between the two calls, `note_rx` takes the bytes for those of an open
session and marks nothing, and once a further byte has arrived the worker executes, in the new
generation, a line that the host sent before the reset. `ResetIsBarrier` holds even
then: the line executes as a command of the new generation.

`crossed` marks these behaviours and one relative of theirs, met while looking for the inductive
invariant of `NoStaleCommand`. `usb_cdc_session_gate_open` publishes OPENING without knowing
whose reservation it is. An opener that was overtaken by a close after its recheck of the phase
can publish the reservation the other opener has just made, for which the phase is still CLOSED.
A byte noted then counts as one of an open session; a detach finds the phase not OPEN and so
neither begins a generation nor marks a boundary, and a newline of the next connection completes
the line. It takes both openers inside `usb_cdc_session_gate_open`, a detach and a reattach, more
than the bounds of `cdc` hold. `NoStaleCommand` says that there is no third way.

`store_ceiling`: a rotation replaces `s_seg_rec_id` (`main/main.c:1158`) before the date
directory, the admission and the new part are secured. When one of them fails, and a full
manifest is enough, the final record enters the previous WAV again under the new id, because
`wav_rotation_finalize_once` repeats its cached success. `device_manifest.h:5` promises one
entry per `.wav`; every later boot stops with `MISSING_WAV`.

`rtc_torn`: `rtc_correction_event.c:106` removes an incomplete tail of `events.jsonl` before it
appends the event. But by the time of the flush the same boot has appended its RECOVER event
(`recorder_state.c:201`) and the recovery summary (`wav_recovery.c:408`), so the tail that a
power cut left is now the front of a complete line that does not parse.
`classify_complete_event_line` fails on it at this and every later wake: the correction is
never logged and no wake completes. `LoggedUnlessJunk` shows that this is the only way to
lose an event.

`pcm_stop`: `README.md:203` of the recorder says "STOP: drain-then-exit". The writer looks for
a stop behind its drain loop (`main/main.c:1092`) and again behind a rotation
(`main/main.c:1204`), which lasts seconds, and then leaves without another drain. Slots that
were full when the stop was asked for, up to both, stay unwritten in a clean stop.
`Gapless` and `LossEndsInError` hold all the same: what is on the card has no gap.

Without a run of their own, but in the model:

`usb_msc_ownership.c:444` says of a reconnect "Keep CDC generation closed until the first
completed SCSI command proves the reconfigured MSC transport is operational." A DETACHED
callback that runs after the coordinator took HOST_OWNED and before
`usb_cdc_protocol_open_session` sets `s_open_requested` finds the gate CLOSED, so
`usb_cdc_session_gate_close` does nothing and the cleared request is set again; the session
opens over a detached cable and is open when the host returns, before any SCSI command. The
next `HOST_REATTACHED` resets it, and the stale-byte and barrier properties hold all the
same.

A write that takes some of its bytes (`wav_part.c:168`) leaves them in a file that is then
finalized with the length before it. `finalized_wav_valid` refuses it, it is never indexed,
and every later boot stops with `WAV_UNREADABLE`: `EventuallyIndexed` fails with
`FaultKinds = {"short"}` and `MaxFault = 1`.

`device.json` is written in place. Cut or failed, it is refused by every later boot, where
`device_identity.c:5` says that a later boot retries.

The same happens after a recovery whose truncate fails and is ignored (`wav_recovery.c:312`),
although `wav_recovery.h:37` calls a recovered file valid; and because any failing open of
`device.json` counts as a missing file (`device_identity.c:276`), another device's file can
be overwritten.

`task87_wake_recovery.h:43` says "A manual-WAKE boot remains a shutdown-on-start-failure path
until a fresh recording session has been proven." But when `recorder_base_app_main` cannot
create the state lock or the event group (`main/main.c:1274-1282`) it creates no task and goes
idle, and `recorder_wait_initial_recording`, which asks for these two before it looks at the state
(`task49_runtime.c:189-191`), polls for ever, also where the state is ERROR already: the boot
neither shuts down nor ends. `Resolves` names the exception (`BootHangs`), and holds otherwise;
without the exception TLC finds the hang.

`windows_release.py:599` says "If the port disappeared or was re-enumerated between resolution
and handle opening, abort before any CDC protocol bytes are sent." and `pc/README.md:94` that the
adapter "holds `FSCTL_LOCK_VOLUME` through `FSCTL_DISMOUNT_VOLUME` and the CDC response". A device
that is pulled out and plugged in again behind `lock_and_dismount` has the same ids and the same
interface path, so the two comparisons of `release_cdc` pass; but the lock went with the old
volume, Windows may have mounted the new one, and the request is sent without a lock (`LockAndDismount`,
`Bound`, `Before`, `Unplug`, `Plug`, `OpenPort`, `After`, `WriteRequest`). `RequestIsSafe` allows
this (`reborn`) and nothing else: replugged once the port is open, the request does not arrive.

`pc/release.py:239` reads the deviceId and then synchronises, without comparing the two, and
`resolve_target` does not compare either. A drive letter that goes to another device and comes back
before the next comparison is not noticed. Given to a device twice during the command, it may lead
the synchronisation to the other device, so that the first one is asked to release although its
recordings were not copied (`LetterWentRound`); given three times, the device that is asked may not
be the one identified at the start (`LetterWentOn`). These are the exact numbers: with one gift
more in either exception, or none of the two, and likewise without `reborn`, TLC finds
`RequestIsSafe` violated within the bounds of `pc`.

`pc/README.md` speaks of the volume GUID becoming
inaccessible, where the code looks at the mount root, so that another volume on the letter
keeps the command from `RELEASED` (`PollMount`). A read error of a published file makes
`_file_matches` false, and a good recording is marked CONFLICT. Two synchronisations at the
same time would share one `.partial`; the model has one process.

Not a finding, but worth knowing: a power cut while the very first `manifest.tmp` is written
leaves an artifact that every later boot refuses. That is the stated policy of the gate, and
`CrashSafe` starts once a manifest exists. `RoomReserved` is for boots without failing
operations: parts that several boots in a row fail to recover are not in the reserve.

## 5. Proofs

`UsbOwnership_proofs` proves, for every `MaxBoots`, with the single assumption
`MaxBoots \in Nat`:

- `TypeCorrect`: `Spec => []TypeOK`
- `MediumHasOneOwner`: `Spec => []OneOwner`
- `ExposedNeverMounted`: `Spec => []ExposedStaysUnmounted`
- `PublishedIsFinalized`: `Spec => []PublishedFinalized`
- `UsbOnlyBehindProof`: `Spec => []UsbNeedsProof`
- `OnlyCommandReleases`, `OnlyFreshRecordingWakes`: the action properties
  `ReleaseOnlyByCommand` and `WakeNeedsFreshRecording`
- `DeviceKeepsTurns`: `Spec => TurnsAreKept`, the implementation of `MediumOwnership`

None of the three ownership invariants is inductive. `OneOwner` needs that the coordinator is
in `mark` or `transfer` only with all tasks done (`Publishing`), that a done task is at no
program point and that only a logging writer keeps the event log open (`Contexts`).
`PublishedFinalized` needs that a writer in its teardown left an ERROR or a closed segment
(`ErrorOrFinalized`), so that the join's test for USB_PREPARE is the test that matters.
`ExposedStaysUnmounted` needs that no boot is already past the gate (`NoMountAhead`,
`ColdStart`). The release needs that driver and storage are gone at `delete` and `arm`
(`Releasing`), and `UsbNeedsProof` that a boot past the wait has a NORMAL marker
(`BootProof`). `IInv` is the conjunction with `TypeOK`; every step keeps it (`Step`), one
lemma per task and one case per action. Steps of the capture and battery tasks all have one
shape (`TaskFrame`), and a single lemma covers them.

The refinement adds `Turns`: the host has the card as long as nobody asked for it, a transfer
finds no request, the marker is retired only with one, and a boot past the gate did not find the
card unresolved. Nine steps matter for the turns (`TurnsMove`); each is mapped to a step of
`MediumOwnership` or to none, and all others stand aside (`Aside`), at most ending the recorder's use.

`CdcSession_proofs` proves, for every set of commands and all bounds on bytes, connections and
line changes (the assumptions are that the bounds are natural numbers and that the commands are
known ones):

- `ContextsStayHome`: `Spec => []TypeOK`
- `AdmissionStaysExact`: `Spec => []AdmissionIsExact`
- `ResetStopsCommands`: `Spec => []ResetIsBarrier`
- `ReleaseIsLast`: `Spec => []NothingAfterRelease`

`IInv` adds to these: a primitive of the gate returns to a point of the context that called it
(`ReturnsHome`, without which `TypeOK` is not inductive); a start that can still fail, and take
the worker away, finds it with nothing read (`WorkerUnread`); the gate's `active` is 1 exactly
while the worker is joined (`ActiveIsJoined`), so that a reset that saw 0 saw no command; a
command past its second test of the generation is no older than `cut` unless the reset is still
waiting for it (`FreshCommand`); once a release is accepted no command is between its first
byte test and its execution (`ReleaseShuts`); and a chunk in hand is not empty (`ChunkLeft`).
The count in `AdmissionIsExact` moves by one because each step moves one context
(`CountMoves`); every primitive is shown once, for any context, to keep the word exact
(`ClearSteps`, `CancelSteps`, `BoundarySteps`, `NoteSteps`, `OpenSteps`), and then used for the
contexts that call it. TLC checked `IInv` on the instance of `cdc` first.

`CdcFreshness_proofs` goes on from there to `CommandsAreFresh`: `Spec => []NoStaleCommand`, under
the same assumptions. Its invariant has two sides. `Openers` is about the gate: where a primitive
returns to (`Returns`), that a reset keeps the session shut until it ends (`ResetShuts`), whose
a reservation is in a closed phase (`Reserved`) and that the word is open in a closed phase
only while a detach is closing it (`OpenInPhase`). `Fresh` is about the bytes. A byte in the FIFO
is of the current generation and connection, or a barrier that the worker has not passed yet
covers it (`FifoOwn`, with `Barrier`: the discard epoch is ahead of the drained one, or a cut or
a mark is under way). A batch is read under tests that drop it if any such barrier was up
(`BatchOwn`, `WillDrop`); a chunk, the line it goes on and the frame made of it are each of one
generation and one connection (`ChunkOwn`, `LineOwn`, `FrameOwn`), so that the test of the
generation that admits the frame is a test of all of its bytes. A step of another context leaves
the worker's data alone and takes no barrier away before the worker passed it (`Around`); `StaleBytesAreBarred` is the
invariant. `NoStaleCommand` leaves out the states after the main task's late start crossed the
coordinator (`crossed`), which `cdc_late_start` shows.

`Calendar_proofs` proves `CalendarIsExact` (with `DayAfterCounts`, `RegistersRoundTrip` and
`WindowIsTheCentury`) by arithmetic on the code's formulas, one case per month and kind of
year, with no assumption.

`RtcCorrection_proofs` proves, for all numbers of corrections, power cuts and faults,
`TypeSafety`, `EventsAreUnique` (`OneEvent`), `AnswersAreKept` (`AnsweredIsKept`),
`ClockIsAsAnswered` (`ClockAsAnswered`) and `ClockIsRestoredExactly` (`RestoredExactly`).
`OneEvent` needs that the correction about to be appended is not in the log (`Flushing`) and
that numbers are drawn in order (`DrawnSoFar`); `AnsweredIsKept` that the copy in RAM is what
the NVS holds once it was loaded (`PendingIsStored`); `ClockAsAnswered` what the clock holds at
each point of `rtc_correction_apply` (`ClockWritten`).

`PcRelease_proofs` proves, for any devices, manifests and bounds, `TypesAndGate` (`TypeOK`),
`LibraryStaysSound` (`LibraryIsSound`), `ReasonIsBelievable` (`ReasonIsTrue`) and the action
property `RequestGoesToTheCopied` (`RequestIsSafe`). The library part of the invariant says
that `todo` is the rest of the inspected device's manifest (`TodoIsRest`), what was established
of the recording in hand (`RecordingState`) and that everything behind it is SYNCED with the
right bytes (`BehindSynced`): a completed synchronisation therefore is one of the device that
was inspected. The release part says which device the letter and the port lead to
(`BusIsTrue`), what each point of the command has compared (`CommandState`), how many gifts of the
letter it takes for two readings to differ (`Readings`, from `Held`: a device read at the letter
has held it since, or it was given away again), that a lock is lost only with the locked device,
whose return before the opening of the port is noted, and that an open port is that of a device
which has not left since (`HandlesState`), that the gate is sealed and quiet from `drain` on
(`GateState`), and what an attempt's answer and a vanished disk prove (`AttemptState`).
`RequestGoesToTheCopied` has the three exceptions of `RequestIsSafe`, and is a theorem of `Spec`,
with `Init` and any bounds; the run's `MCInit` only has part of them used up.

`PcmPipeline_proofs` proves, for all sizes of queue, slot and read, any number of samples and
of faults (`PcmBounds`: they are natural numbers, queue, slot and read not 0, and a read no
longer than a slot, as the buffers of `main.c` are):

- `SlotsStayInBounds`: `Spec => []TypeOK`
- `RecordingIsGapless`: `Spec => []Gapless`
- `LossIsReported`: `Spec => []LossEndsInError`
- `NothingAfterUnmount`: the action property `CardWhileMounted`

`IInv` says where each sample is. The slots are used in turn: the one at `read_index` holds the
samples right after those released, the other those right after it and only behind a full one
(`InTurn`). As long as nothing was lost, slots, locals and queue together are the samples up to
the last one taken, without a gap; after a loss nothing more is staged (`Continuous`). The
drops are what was counted, what waits in the driver's counters and what the capture task holds
in `snap` (`Counted`); what is counted has ended in ERROR or is about to, and a channel turned
off counts nothing more (`Reported`). The slot the writer copies outside the lock is still the full one it peeked,
with the part already copied on the card (`InHand`), and a task at a point where it writes has
the card mounted (`CardInUse`). The lemmas on `Follow` (consecutive numbers) say what
concatenating and cutting such sequences gives; `CopyGrows` and `ProduceGrows` what one block
and one call of `pcm_pipeline_produce` do to the slots.

`SegmentStore_proofs` proves, for all numbers of segments, bytes, entries, power cuts, failing
operations and changes of the host (`BoundsAssumption`):

- `StoreTypes`: `Spec => []TypeOK`
- `CheckpointsAreKept`: the action property `CheckpointKept`
- `ManifestIsLog`: `Spec => AppendOnly`, the implementation of `ManifestLog`
- `InventoryIsComplete`: `Spec => []HealthyIsComplete`
- `RoomIsReserved`: `Spec => []RoomReserved`
- `PowerCutsAreSurvived`: `Spec => []CrashSafe`

The argument goes in layers, each an invariant under the ones before it. `FileInv` says which job
and which file every program point has (`Located`), that the bytes counted in RAM are those of
the part being recorded (`Counted`) and that a published WAV declares every whole sample
(`Published`): types and checkpoints follow. `LogInv` says which of the three manifest files
there are at each point of the replacement and of its recovery (`Protocol`) and that the
candidate is the log with one entry of a new id (`Replacing`): the only step that changes the log
is then `Install`, by one entry. `Surveyed` says that the scan has listed and counted what it is
through with; entries for different WAVs are different (`OneEach`), so that a manifest with as
many entries as the scan counted has exactly those. `Numbered` says that ids are drawn in order
and the id of the segment in hand is not in the log.

The last two layers are about runs without failing operations. `Fits`: a document is missing only
between its two renames (`Resolved`), and the entries there are with the recordings still to be
listed (`Pending`) fit the ceiling, with one or two to spare where a rotation is ahead (`Room`).
That sum is the reason why the reserve of two entries is enough, and `RoomReserved` alone is far
from inductive. `Sure`, which also wants the host to leave the files alone: every published file
is even, synced and truthful (`Sound`), and until the manifest is full it lists nothing else
(`Exact`). With ids listed once (`Distinct`) the count of entries and the count of WAVs agree at
the tally (`AllCounted`), so that a boot finds no reason to refuse (`Clean`, `Safe`).

Only model-checked: all liveness (`CallsReturn`, `ReleaseHandled`, `JoinReturns`, `Resolves`,
`EventuallyIndexed`, `LoggedUnlessJunk`, `StopEnds`, `CommandReturns`), because fairness and
ENABLED are outside what TLAPS proves.

## 6. Not modelled
The SCSI trace (diagnostic counters), the optional SCSI eject, the LED, ADC calibration,
SHA-256, the PC's JSON schema validator and path containment checks, its capacity report and
maintenance tooling, argument parsing, repository scanners, CI and operator scripts are not: they
are device output, pure functions or outside the running system. Counters do not wrap in the
models (a wrap needs 2^32 cutoffs within one command).
