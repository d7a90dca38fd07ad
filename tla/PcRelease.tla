------------------------------ MODULE PcRelease ------------------------------
(****************************************************************************)
(* The PC's sync and sync-release commands: cli.py, the session gate and    *)
(* the coordinator of release.py and the Windows port of                    *)
(* windows_release.py, around the synchronisation of PcSync.                *)
(*                                                                          *)
(* sync-release copies the device's recordings, resolves the volume and the *)
(* COM interface of the device, drains the process's own Device I/O, locks  *)
(* and dismounts the volume, asks the device over CDC to release its        *)
(* storage and waits for the disk to go.  Drive letters and COM names pass  *)
(* from one device to another between any two steps; the request or the     *)
(* answer may be lost; the process may be killed and run again.             *)
(*                                                                          *)
(* A device stands for its PnP instance ids, its volume GUID and its        *)
(* deviceId.  The device's side is external here: it accepts or refuses a   *)
(* request, answers, and takes the disk away after it accepted              *)
(* (UsbOwnership models that side).                                         *)
(****************************************************************************)
EXTENDS PcSync

CONSTANTS Plugged,    \* the device plugged in when the first command runs
          MaxRuns,    \* bound on commands
          MaxMoves,   \* bound on plugging and unplugging
          MaxCrash    \* bound on killed processes

Attempts == 1..MaxRuns
Replies == [id : Attempts, ok : BOOLEAN]
Failures == {"WRONG_TARGET", "UNSUPPORTED_TARGET", "ALREADY_REMOVED_UNPROVEN",
             "BUSY", "LOCK_FAILED", "DISMOUNT_FAILED", "RELEASE_REJECTED"}
Unproven == {"INDETERMINATE", "TIMEOUT", "RELEASE_ERROR"}
SyncOnly == {"SYNCED", "SYNC_ERROR", "SYNC_CONFLICT"}
Reasons == {"RELEASED"} \cup Failures \cup Unproven \cup SyncOnly

ASSUME ReleaseAssumption ==
    /\ Plugged \in Devices /\ {MaxRuns, MaxMoves, MaxCrash} \subseteq Nat
    /\ None \notin Attempts \cup Replies \cup Reasons

VARIABLES
    gate,      \* UsbSessionIoGate: state, lease holders, control, drained
    cli,       \* the command: program point and locals
    outcome,   \* None or the reason of the ReleaseOutcome
    cdc,       \* each device: the request, its answer, and whether it let go
    accepted,  \* history: attempts each device accepted
    gone,      \* history: accepted attempts whose disk went away afterwards
    swaps,     \* history: times the drive letter was given to a device during
               \*          the last sync-release
    reborn,    \* history: the locked device was plugged in again before that
               \*          sync-release had opened its port
    runs, moves, crashes

device == <<cdc, accepted, gone>>
bounds == <<swaps, reborn, runs, moves, crashes>>
vars == <<syncVars, gate, cli, outcome, device, bounds>>

FreshGate == [state |-> "OPEN", ordinary |-> {}, control |-> FALSE,
              drained |-> FALSE]
NoCommand == [pc |-> "idle", mode |-> "none", expected |-> None,
              target |-> None, binding |-> None, locked |-> FALSE,
              port |-> FALSE, late |-> FALSE]

(* Nothing copied, nothing asked, no command running.                       *)
StartState ==
    /\ SyncInit
    /\ \E c \in Devices :    \* the COM name given may be another device's
           bus = [present |-> {Plugged, c}, letter |-> Plugged, com |-> c]
    /\ gate = FreshGate /\ cli = NoCommand /\ outcome = None
    /\ cdc = [d \in Devices |-> [req |-> None, reply |-> None,
                             shut |-> FALSE]]
    /\ accepted = [d \in Devices |-> {}] /\ gone = {}
    /\ swaps = 0 /\ reborn = FALSE

Init == StartState /\ runs = 0 /\ moves = 0 /\ crashes = 0 /\ faults = 0

Pc(p) == cli.pc = p
To(p) == cli' = [cli EXCEPT !.pc = p]
Wait(p) == cli' = [cli EXCEPT !.pc = p, !.late = FALSE]
KeepSync == UNCHANGED <<platform, bus, library, sync>>
Quiet == UNCHANGED <<device, bounds>>

(* Faulty variant: the release control stays taken.                         *)
EndHolding(reason) ==
    /\ outcome' = reason /\ cli' = NoCommand
    /\ gate' = [gate EXCEPT !.ordinary = @ \ {"self"}]

(* The command ends: the with-statements give back the lease, the release   *)
(* control and the volume lock.                                             *)
End(reason) ==
    /\ outcome' = reason /\ cli' = NoCommand
    /\ gate' = [gate EXCEPT !.ordinary = @ \ {"self"}, !.control = FALSE]
Continue(p) == To(p) /\ UNCHANGED <<gate, outcome>>
Lease == gate' = [gate EXCEPT !.ordinary = @ \cup {"self"}]
Unlease == gate' = [gate EXCEPT !.ordinary = @ \ {"self"}]

(* A step that either goes on or ends the command with a reason.            *)
Check(ok, p, reason) ==
    /\ IF ok THEN Continue(p) ELSE End(reason)
    /\ KeepSync /\ NoFault /\ Quiet

-----------------------------------------------------------------------------
(* main: `sync' runs sync_device alone; `sync-release', which is refused    *)
(* elsewhere than on Windows, takes a lease of a new gate first.            *)
Command(m) ==
    /\ Pc("idle") /\ runs < MaxRuns /\ runs' = runs + 1
    /\ swaps' = 0 /\ reborn' = FALSE
    /\ m = "release" => platform = "nt"
    /\ cli' = [NoCommand EXCEPT !.pc = IF m = "sync" THEN "sync" ELSE "id",
                                !.mode = m]
    /\ gate' = [FreshGate EXCEPT !.ordinary =
                    IF m = "release" THEN {"self"} ELSE {}]
    /\ sync' = IF m = "sync" THEN [NotSyncing EXCEPT !.at = "inspect"]
               ELSE NotSyncing
    /\ outcome' = None
    /\ UNCHANGED <<platform, bus, library, device, moves, crashes>> /\ NoFault

(* device_id(): the identity the release will insist on.                    *)
DeviceId ==
    /\ Pc("id")
    /\ \/ /\ mount # None /\ cli' = [cli EXCEPT !.pc = "sync",
                                                !.expected = mount]
          /\ sync' = [NotSyncing EXCEPT !.at = "inspect"]
          /\ UNCHANGED <<gate, outcome>>
       \/ mount = None /\ End("SYNC_ERROR") /\ UNCHANGED sync
    /\ UNCHANGED <<platform, bus, library>> /\ NoFault /\ Quiet

SyncReturns ==
    /\ Pc("sync") /\ sync.at \in {"done", "failed"} /\ sync' = NotSyncing
    /\ \/ sync.at = "failed" /\ End("SYNC_ERROR")
       \/ sync.at = "done" /\ sync.conflicts > 0 /\ End("SYNC_CONFLICT")
       \/ /\ sync.at = "done" /\ sync.conflicts = 0
          /\ \/ cli.mode = "sync" /\ End("SYNCED")
             \/ cli.mode = "release" /\ To("hooks") /\ Unlease
                /\ UNCHANGED outcome
    /\ UNCHANGED <<platform, bus, library>> /\ NoFault /\ Quiet

Syncing ==
    /\ Pc("sync") /\ SyncStep
    /\ UNCHANGED <<gate, cli, outcome, device, bounds>>
SyncBreaks ==
    /\ Pc("sync") /\ SyncRaises
    /\ UNCHANGED <<gate, cli, outcome, device, bounds>>

(* The injected ACK flush and CDC mutations, each under a lease of its own. *)
Hooks ==
    /\ Pc("hooks") /\ Continue("resolve") /\ KeepSync /\ NoFault /\ Quiet
HooksFail ==
    /\ Pc("hooks") /\ Fault /\ End("RELEASE_ERROR") /\ KeepSync /\ Quiet

(* resolve_target: the drive letter to its volume, disk and USB device.     *)
Resolve ==
    /\ Pc("resolve")
    /\ \/ /\ mount # None /\ cli' = [cli EXCEPT !.pc = "identity",
                                                !.target = mount]
          /\ Lease /\ UNCHANGED outcome
       \/ mount = None /\ End("WRONG_TARGET")
    /\ KeepSync /\ NoFault /\ Quiet
ResolveFails ==
    /\ cli.pc \in {"resolve", "topology", "endpoint", "bound", "before",
                   "after"}
    /\ \E r \in {"UNSUPPORTED_TARGET", "WRONG_TARGET", "RELEASE_ERROR"} : End(r)
    /\ Fault /\ KeepSync /\ Quiet

(* Faulty variant: the drive letter is trusted.                             *)
IdentityTrusted == TRUE

(* revalidate_target, in the order it looks: device.json on the mount, the  *)
(* topology of the mount again, and the device behind the COM name, whose   *)
(* interface is then frozen.                                                *)
SameIdentity == mount = cli.expected
SameTopology == mount = cli.target
OnTarget == bus.com = cli.target
Identity == Pc("identity") /\ Check(SameIdentity, "topology", "WRONG_TARGET")
Topology == Pc("topology") /\ Check(SameTopology, "endpoint", "WRONG_TARGET")
Endpoint ==
    /\ Pc("endpoint")
    /\ \/ /\ OnTarget /\ cli' = [cli EXCEPT !.pc = "available",
                                            !.binding = bus.com]
          /\ UNCHANGED <<gate, outcome>>
       \/ ~OnTarget /\ End("WRONG_TARGET")
    /\ KeepSync /\ NoFault /\ Quiet

Available ==
    /\ Pc("available")
    /\ \/ cli.target \in bus.present /\ To("seal") /\ Unlease
          /\ UNCHANGED outcome
       \/ cli.target \notin bus.present /\ End("ALREADY_REMOVED_UNPROVEN")
    /\ KeepSync /\ NoFault /\ Quiet

-----------------------------------------------------------------------------
(* gate.seal: no new lease from here on, and the ones that are out must be  *)
(* returned in time.                                                        *)
Seal ==
    /\ Pc("seal") /\ gate.state = "OPEN" /\ Wait("drain")
    /\ gate' = [gate EXCEPT !.state = "SEALED_FOR_RELEASE"]
    /\ UNCHANGED outcome /\ KeepSync /\ NoFault /\ Quiet

Drained == gate.ordinary = {}
Drain ==
    /\ Pc("drain") /\ Drained
    /\ gate' = [gate EXCEPT !.drained = TRUE, !.control = TRUE]
    /\ To("lock") /\ UNCHANGED outcome /\ KeepSync /\ NoFault /\ Quiet

(* Faulty variant: the wait for the other users has no deadline.            *)
DrainForever == Pc("drain") /\ ~Drained /\ UNCHANGED vars

DrainTimeout ==
    /\ Pc("drain") /\ ~Drained /\ cli.late
    /\ End("TIMEOUT") /\ KeepSync /\ NoFault /\ Quiet

(* lock_and_dismount by volume GUID, then host_quiesced.  The handle that   *)
(* holds the lock stays open up to the end of the command, but the lock     *)
(* goes with the volume: see Leave.                                         *)
LockAndDismount ==
    /\ Pc("lock")
    /\ \/ /\ cli.target \in bus.present
          /\ cli' = [cli EXCEPT !.pc = "bound", !.locked = TRUE]
          /\ gate' = [gate EXCEPT !.state = "HOST_QUIESCED"]
          /\ UNCHANGED outcome
       \/ cli.target \notin bus.present /\ End("LOCK_FAILED")
    /\ KeepSync /\ NoFault /\ Quiet
LockFails ==
    /\ Pc("lock") /\ Fault /\ KeepSync /\ Quiet
    /\ \E r \in {"BUSY", "LOCK_FAILED", "DISMOUNT_FAILED"} : End(r)

(* release_storage compares the interface behind the COM name with the      *)
(* frozen one, release_cdc does so before and again after it opened the     *)
(* frozen interface by its own path.  A device that was away in between has *)
(* the same interface again; a handle that was open then is dead.           *)
StillBound == bus.com = cli.binding
Bound == Pc("bound") /\ Check(StillBound, "before", "WRONG_TARGET")
Before == Pc("before") /\ Check(StillBound, "open", "WRONG_TARGET")
OpenPort ==
    /\ Pc("open")
    /\ \/ /\ cli.binding \in bus.present
          /\ cli' = [cli EXCEPT !.pc = "after", !.port = TRUE]
          /\ UNCHANGED <<gate, outcome>>
       \/ cli.binding \notin bus.present /\ End("RELEASE_ERROR")
    /\ KeepSync /\ NoFault /\ Quiet
After == Pc("after") /\ Check(StillBound, "write", "WRONG_TARGET")
TimeoutsFail ==
    /\ Pc("write") /\ (Fault \/ (~cli.port /\ NoFault))
    /\ End("RELEASE_REJECTED") /\ KeepSync /\ Quiet

(* The request goes to the device the handle is open on.  A write that      *)
(* failed or was short may still have delivered it.                         *)
Deliver == cdc' = [cdc EXCEPT ![cli.binding].req = runs]
WriteRequest ==
    /\ Pc("write") /\ cli.port /\ Deliver /\ Wait("reply")
    /\ UNCHANGED <<gate, outcome, accepted, gone, bounds>>
    /\ KeepSync /\ NoFault
WriteFails ==
    /\ Pc("write")
    /\ \/ Fault /\ cli.port /\ Deliver
       \/ Fault /\ UNCHANGED cdc
       \/ ~cli.port /\ NoFault /\ UNCHANGED cdc
    /\ End("INDETERMINATE") /\ UNCHANGED <<accepted, gone, bounds>> /\ KeepSync

(* The line the open handle reads.                                          *)
answer == cdc[cli.binding].reply

(* Faulty variant: the request id of the reply is not compared.             *)
AnyReply == IF answer.ok THEN "ACCEPTED" ELSE "RELEASE_REJECTED"

(* The reply: only a line with this request's id tells; a negative one is a *)
(* rejection, the acceptance of this attempt is accepted(), all else proves *)
(* nothing.                                                                 *)
Verdict ==
    IF answer.id # runs THEN "INDETERMINATE"
    ELSE IF answer.ok THEN "ACCEPTED" ELSE "RELEASE_REJECTED"
ReadReply ==
    /\ Pc("reply") /\ answer # None
    /\ cdc' = [cdc EXCEPT ![cli.binding].reply = None]
    /\ \/ /\ Verdict = "ACCEPTED" /\ Wait("pollDisk") /\ UNCHANGED outcome
          /\ gate' = [gate EXCEPT !.state = "RELEASE_ACCEPTED"]
       \/ Verdict # "ACCEPTED" /\ End(Verdict)
    /\ UNCHANGED <<accepted, gone, bounds>> /\ KeepSync /\ NoFault
Garbled ==
    /\ Pc("reply") /\ answer # None /\ Fault
    /\ cdc' = [cdc EXCEPT ![cli.binding].reply = None]
    /\ End("INDETERMINATE") /\ UNCHANGED <<accepted, gone, bounds>> /\ KeepSync
NoReply ==
    /\ Pc("reply") /\ (cli.late \/ ~cli.port)
    /\ End("INDETERMINATE") /\ KeepSync /\ NoFault /\ Quiet

(* volume_disappeared: first the frozen disk instance, then the mount root. *)
PollDisk ==
    /\ Pc("pollDisk")
    /\ Continue(IF cli.target \in bus.present THEN "deadline" ELSE "pollMount")
    /\ KeepSync /\ NoFault /\ Quiet
PollMount ==
    /\ Pc("pollMount")
    /\ \/ mount # None /\ Continue("deadline")
       \/ /\ mount = None /\ outcome' = "RELEASED" /\ cli' = NoCommand
          /\ gate' = [gate EXCEPT !.state = "RELEASED", !.control = FALSE]
    /\ KeepSync /\ NoFault /\ Quiet
PollFails ==
    /\ cli.pc \in {"pollDisk", "pollMount"} /\ Fault
    /\ End("RELEASE_ERROR") /\ KeepSync /\ Quiet

(* The deadline is looked at after each poll.                               *)
Deadline ==
    /\ Pc("deadline") /\ Check(~cli.late, "pollDisk", "TIMEOUT")

(* The clock passes the deadline of the wait in progress.                   *)
DeadlinePasses ==
    /\ cli.pc \in {"drain", "reply", "pollDisk", "pollMount", "deadline"}
    /\ ~cli.late /\ cli' = [cli EXCEPT !.late = TRUE]
    /\ UNCHANGED <<gate, outcome>> /\ KeepSync /\ NoFault /\ Quiet

-----------------------------------------------------------------------------
(* Another user of the Device in the same process.                          *)
Admit == gate.state = "OPEN"
OtherEnters ==
    /\ ~Pc("idle") /\ cli.mode = "release" /\ Admit
    /\ "other" \notin gate.ordinary
    /\ gate' = [gate EXCEPT !.ordinary = @ \cup {"other"}]
    /\ UNCHANGED <<cli, outcome>> /\ KeepSync /\ NoFault /\ Quiet
OtherLeaves ==
    /\ "other" \in gate.ordinary
    /\ gate' = [gate EXCEPT !.ordinary = @ \ {"other"}]
    /\ UNCHANGED <<cli, outcome>> /\ KeepSync /\ NoFault /\ Quiet

(* The process is killed: Windows closes its handles.                       *)
Killed ==
    /\ ~Pc("idle") /\ crashes < MaxCrash /\ crashes' = crashes + 1
    /\ cli' = NoCommand /\ gate' = FreshGate /\ outcome' = None
    /\ sync' = NotSyncing
    /\ UNCHANGED <<platform, bus, library, device, swaps, reborn, runs,
                   moves>>
    /\ NoFault

(* The device accepts one request, and refuses one or leaves it unanswered; *)
(* after it accepted one the disk goes away.                                *)
Handle(d) ==
    /\ cdc[d].req # None /\ d \in bus.present
    /\ \E yes \in BOOLEAN, said \in BOOLEAN :
        /\ yes => ~cdc[d].shut
        /\ accepted' = IF yes
              THEN [accepted EXCEPT ![d] = @ \cup {cdc[d].req}] ELSE accepted
        /\ cdc' = [cdc EXCEPT ![d] =
              [req |-> None, shut |-> @.shut \/ yes, reply |->
                 IF said THEN [id |-> @.req, ok |-> yes] ELSE @.reply]]
    /\ UNCHANGED <<gate, cli, outcome, gone, bounds>> /\ KeepSync /\ NoFault

(* With the device go its volume, the lock on it and its port.              *)
HandlesDie(d) ==
    cli' = [cli EXCEPT !.locked = @ /\ d # cli.target,
                       !.port = @ /\ d # cli.binding]
Leave(d) ==
    /\ bus' = [present |-> bus.present \ {d},
               letter |-> IF bus.letter = d THEN None ELSE bus.letter,
               com |-> IF bus.com = d THEN None ELSE bus.com]
    /\ sync' = [sync EXCEPT !.src = IF @ = d THEN None ELSE @]
    /\ cdc' = [cdc EXCEPT ![d].req = None, ![d].reply = None]
    /\ gone' = gone \cup accepted[d]
    /\ HandlesDie(d)
    /\ UNCHANGED <<platform, library, gate, outcome, accepted, swaps, reborn,
                   runs, crashes>> /\ NoFault

DiskGoes(d) ==
    /\ cdc[d].shut /\ d \in bus.present
    /\ Leave(d) /\ UNCHANGED moves

(* A device is pulled out; one is plugged in and gets the drive letter and  *)
(* the COM name if they are free.                                           *)
Unplug(d) ==
    /\ d \in bus.present /\ moves < MaxMoves /\ moves' = moves + 1
    /\ Leave(d)
Plug(d) ==
    /\ d \notin bus.present /\ moves < MaxMoves /\ moves' = moves + 1
    /\ bus' = [present |-> bus.present \cup {d},
               letter |-> IF bus.letter = None THEN d ELSE bus.letter,
               com |-> IF bus.com = None THEN d ELSE bus.com]
    /\ cdc' = [cdc EXCEPT ![d].shut = FALSE]
    /\ swaps' = IF bus.letter = None /\ cli.mode = "release" THEN swaps + 1
                ELSE swaps
    /\ reborn' = (reborn \/ (/\ d = cli.target
                             /\ cli.pc \in {"bound", "before", "open"}))
    /\ UNCHANGED <<platform, library, sync, gate, cli, outcome, accepted, gone,
                   runs, crashes>> /\ NoFault

-----------------------------------------------------------------------------
(* The process's own steps.                                                 *)
Process ==
    \/ DeviceId \/ Syncing \/ SyncReturns \/ Hooks \/ Resolve \/ Identity
    \/ Topology \/ Endpoint \/ Available \/ Seal \/ Drain \/ DrainTimeout
    \/ LockAndDismount \/ Bound \/ Before \/ OpenPort \/ After \/ WriteRequest
    \/ ReadReply \/ NoReply \/ PollDisk \/ PollMount \/ Deadline

Failing ==
    \/ SyncBreaks \/ HooksFail \/ ResolveFails \/ LockFails \/ TimeoutsFail
    \/ WriteFails \/ Garbled \/ PollFails

Next ==
    \/ \E m \in {"sync", "release"} : Command(m)
    \/ Process \/ Failing \/ DeadlinePasses \/ OtherEnters \/ OtherLeaves
    \/ Killed
    \/ \E d \in Devices : Handle(d) \/ DiskGoes(d) \/ Unplug(d) \/ Plug(d)
    \/ /\ \E r \in Recordings, d \in Devices \cup {Foreign} :
              PlaceFile(r, Whole(d))
       /\ UNCHANGED <<gate, cli, outcome, device, bounds>>

Spec == Init /\ [][Next]_vars

(* The process runs and the clock advances.  No device need answer, no      *)
(* other user of the gate need leave it.                                    *)
Fairness == WF_vars(Process \/ WriteFails) /\ WF_vars(DeadlinePasses)
FairSpec == Spec /\ Fairness

-----------------------------------------------------------------------------
Points == {"idle", "id", "sync", "hooks", "resolve", "identity", "topology",
           "endpoint", "available", "seal", "drain", "lock", "bound", "before",
           "open", "after", "write", "reply", "pollDisk", "pollMount",
           "deadline"}

(* Every variable has its type, and the gate's phase goes with the program  *)
(* point: GateClosed is never raised in a command.                          *)
TypeOK ==
    /\ SyncTypeOK
    /\ gate \in [state : {"OPEN", "SEALED_FOR_RELEASE", "HOST_QUIESCED",
                         "RELEASE_ACCEPTED", "RELEASED"},
                 ordinary : SUBSET {"self", "other"}, control : BOOLEAN,
                 drained : BOOLEAN]
    /\ cli \in [pc : Points, mode : {"none", "sync", "release"},
                expected : Devices \cup {None}, target : Devices \cup {None},
                binding : Devices \cup {None}, locked : BOOLEAN,
                port : BOOLEAN, late : BOOLEAN]
    /\ outcome \in Reasons \cup {None}
    /\ cdc \in [Devices -> [req : Attempts \cup {None}, reply : Replies \cup {None},
                           shut : BOOLEAN]]
    /\ accepted \in [Devices -> SUBSET Attempts] /\ gone \subseteq Attempts
    /\ swaps \in 0..moves /\ reborn \in BOOLEAN
    /\ runs \in 0..MaxRuns /\ moves \in 0..MaxMoves /\ crashes \in 0..MaxCrash
    /\ cli.mode = "release" /\ cli.pc \in {"id", "hooks", "resolve", "seal"}
           => gate.state = "OPEN"
    /\ gate.control <=> cli.pc \in {"lock", "bound", "before", "open", "after",
                          "write", "reply", "pollDisk", "pollMount", "deadline"}

(* The letter is read again and again, and only some of the readings are    *)
(* compared: device_id() and sync() are not, nor the two devices that       *)
(* resolve_target and the identity check find.  A letter that passes to     *)
(* another device is noticed, one that comes back before the next           *)
(* comparison is not: it was given away twice during the command if the     *)
(* copies are another device's, and a third time if the target is.          *)
LetterWentRound == swaps >= 2
LetterWentOn == swaps >= 3

(* A request to release goes to no device but the one whose volume was      *)
(* resolved and whose interface was frozen, over a handle opened since that *)
(* device was last plugged in, with nobody in the process holding a lease.  *)
(* It is the device identified at the start, and its recordings, all of     *)
(* them, are in the library, whatever moved to its drive letter or COM name *)
(* meanwhile, but for a letter that came back as above.  Its volume is      *)
(* locked, unless that very device was unplugged and plugged in again       *)
(* between the lock and the opening of the port: the lock is gone then, and *)
(* the comparisons of release_cdc see the same interface.                   *)
RequestIsSafe ==
    [][\A d \in Devices : cdc'[d].req # None /\ cdc'[d].req # cdc[d].req =>
           /\ d = cli.target /\ d \in bus.present /\ gate.ordinary = {}
           /\ cli.locked \/ reborn
           /\ d = cli.expected \/ LetterWentOn
           /\ Synced(d) \/ LetterWentRound]_vars

(* The reason printed can be believed: RELEASED means that the device       *)
(* accepted this very attempt, its disk went away afterwards and its        *)
(* recordings are in the library, as above; a reason other than             *)
(* INDETERMINATE, TIMEOUT and RELEASE_ERROR means that no device accepted   *)
(* this attempt, nor will, so that running the command again is no second   *)
(* request.                                                                 *)
ReasonIsTrue ==
    /\ outcome = "RELEASED" =>
           runs \in gone /\ \E d \in Devices :
               runs \in accepted[d] /\ (Synced(d) \/ LetterWentRound)
    /\ outcome \in Failures \cup SyncOnly =>
           \A d \in Devices : runs \notin accepted[d] /\ cdc[d].req # runs

(* Every command returns: no lease that is never given back, device that    *)
(* never answers or disk that stays keeps it waiting.                       *)
CommandReturns == ~Pc("idle") ~> Pc("idle")
=============================================================================
