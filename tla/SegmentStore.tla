----------------------------- MODULE SegmentStore -----------------------------
(***************************************************************************)
(* The recordings on the card: WAV segments (wav_part.c, sd_pcm_sink.c,    *)
(* wav_rotation.c, wav_recovery.c), the manifest that lists them           *)
(* (device_manifest.c), device.json (device_identity.c) and the writer     *)
(* task of main.c that drives them, over power cuts and failing file       *)
(* operations.                                                             *)
(*                                                                         *)
(* There is one thread; what interleaves with it is the power.  Every file *)
(* operation that leaves a trace on the card is a step of its own.  The    *)
(* file system is FAT: a rename moves a file whole, refuses an existing    *)
(* target, and the size of an open file is durable up to its last sync.    *)
(***************************************************************************)
EXTENDS Naturals, Sequences, FiniteSets

CONSTANTS
    MaxSeg,      \* recordingIds that can be drawn
    MaxBytes,    \* PCM bytes of a segment; a chunk is one two-byte sample
    Ceiling,     \* entries the manifest may hold
    MaxCrash,    \* power cuts
    FaultKinds,  \* which operations may fail: see Fault
    MaxFault,    \* how many of them do
    MaxHost      \* changes the host makes to WAV files

ASSUME BoundsAssumption ==
    /\ {MaxSeg, MaxBytes, Ceiling, MaxCrash, MaxFault, MaxHost} \subseteq Nat
    /\ FaultKinds \subseteq {"io", "open", "short", "truncate", "full"}

VARIABLES
    man,      \* manifest.json, manifest.tmp and manifest.json.bak
    device,   \* device.json: absent, torn, ok, or another device's
    dated,    \* a YYYY-MM-DD directory exists
    wav,      \* the file of every recordingId
    used,     \* recordingIds drawn so far
    pc,       \* the writer's program point
    err,      \* none, error, or spent: out of recordingIds (MaxSeg)
    ram,      \* the writer's memory
    crashes, faults, edits

card == <<man, device, dated, wav>>
counts == <<crashes, faults, edits>>
vars == <<man, device, dated, wav, used, pc, err, ram, crashes, faults, edits>>

Ids == 1..MaxSeg

Entries == [id : Ids, file : Ids, size : 0..MaxBytes, tag : {0, 1}]
Files == {"final", "tmp", "bak"}

Absent == [kind |-> "absent", recs |-> <<>>]
Torn == [kind |-> "torn", recs |-> <<>>]
Doc(r) == [kind |-> "doc", recs |-> r]

Exists(f) == man[f] # Absent
(* manifest_snapshot_valid: a canonical document of one device.             *)
Valid(f) == man[f].kind = "doc"

(* manifest_file_extends: both are valid and new has old's entries first.   *)
Extends(new, old) ==
    /\ Valid(new) /\ Valid(old)
    /\ Len(man[old].recs) <= Len(man[new].recs)
    /\ SubSeq(man[new].recs, 1, Len(man[old].recs)) = man[old].recs

Moved(from, to) == [man EXCEPT ![to] = man[from], ![from] = Absent]
With(f, d) == [man EXCEPT ![f] = d]

(* head: the 44-byte header is there.  declared: what it says of the length.*)
(* size: the payload; durable: how much of it a power cut leaves for sure.  *)
NoWav == [place |-> "none", head |-> FALSE, declared |-> 0, size |-> 0,
          durable |-> 0, tag |-> 0]

Whole(n) == n - (n % 2)

(* finalized_wav_valid: what the manifest accepts as a recording.           *)
Indexable(w) == w.head /\ w.declared = w.size /\ w.size % 2 = 0

RamInit == [seg |-> 0, file |-> 0, called |-> FALSE, fin |-> FALSE, pcm |-> 0,
            todo |-> {}, before |-> 0, indexed |-> 0, cur |-> 0,
            cand |-> <<>>, job |-> "sync"]

Init ==
    /\ man = [f \in Files |-> Absent] /\ device \in {"absent", "fork"}
    /\ dated = FALSE
    /\ wav = [i \in Ids |-> NoWav] /\ used = 0
    /\ pc = "off" /\ err = "none" /\ ram = RamInit
    /\ crashes = 0 /\ faults = 0 /\ edits = 0

At(l) == pc = l
Go(l) == pc' = l

(* An operation fails: "io" without an effect, "open" the first look at     *)
(* device.json, "short" a write after some of its bytes, "truncate" the     *)
(* trimming of a recovered file, "full" the admission of a segment.         *)
Fault(k) == k \in FaultKinds /\ faults < MaxFault /\ faults' = faults + 1
             /\ UNCHANGED <<crashes, edits>>
NoFault == UNCHANGED counts

(* recorder_enter_error and the end of the task.                            *)
Halt(e) == err' = e /\ Go("done")
Continue(l) == UNCHANGED err /\ Go(l)

Same == UNCHANGED <<card, used, ram>>
ManOnly == UNCHANGED <<device, dated, wav, used, ram>>
WavOnly == UNCHANGED <<man, device, dated, used>>

-----------------------------------------------------------------------------
(* Power.  The file being written keeps what was synced and perhaps more.   *)
PowerOn ==
    /\ pc \in {"off", "done"}
    /\ err' = "none" /\ Go("device") /\ ram' = RamInit
    /\ UNCHANGED <<card, used>> /\ NoFault

Survives(w) == {[w EXCEPT !.size = n, !.durable = n] : n \in w.durable..w.size}

PowerCut ==
    /\ pc \notin {"off", "done"} /\ crashes < MaxCrash
    /\ crashes' = crashes + 1
    /\ IF ram.file \in Ids
       THEN \E w \in Survives(wav[ram.file]) :
                wav' = [wav EXCEPT ![ram.file] = w]
       ELSE UNCHANGED wav
    /\ err' = "none" /\ Go("off") /\ ram' = RamInit
    /\ UNCHANGED <<man, device, dated, used, faults, edits>>

(* A card that is off the device or exposed: its owner deletes or rewrites  *)
(* a recording.                                                             *)
HostChanges(i) ==
    /\ pc \in {"off", "done"} /\ edits < MaxHost /\ wav[i].place = "wav"
    /\ edits' = edits + 1
    /\ \/ wav' = [wav EXCEPT ![i] = NoWav]
       \/ wav[i].tag = 0 /\ wav' = [wav EXCEPT ![i].tag = 1]
    /\ UNCHANGED <<man, device, dated, used, pc, err, ram, crashes, faults>>

-----------------------------------------------------------------------------
(* device_identity_ensure_device_json.  A file that cannot be opened counts *)
(* as a missing one.                                                        *)
DeviceMatches == device = "ok"

EnsureDeviceJson ==
    /\ At("device") /\ UNCHANGED <<man, dated, wav, used, ram>>
    /\ \/ DeviceMatches /\ Continue("probe") /\ UNCHANGED device /\ NoFault
       \/ device \in {"torn", "fork"} /\ Halt("error") /\ UNCHANGED device /\ NoFault
       \/ /\ \/ device = "absent" /\ NoFault
             \/ device # "absent" /\ Fault("open")
          /\ device' = "torn" /\ Continue("deviceWrite")
       \/ Fault("io") /\ Halt("error") /\ UNCHANGED device

WriteDeviceJson ==
    /\ At("deviceWrite") /\ UNCHANGED <<man, dated, wav, used, ram>>
    /\ \/ device' = "ok" /\ Continue("probe") /\ NoFault
       \/ Fault("io") /\ Halt("error") /\ UNCHANGED device

-----------------------------------------------------------------------------
(* Faulty variant: a backup is no help without the manifest it came from.   *)
IgnoresLoneBackup ==
    IF Exists("bak")
    THEN IF Extends("final", "bak") THEN "retire" ELSE "gate"
    ELSE IF Exists("final") THEN "settle"
    ELSE IF Valid("tmp") THEN "promote" ELSE "gate"

(* device_manifest_recover_tmp.  "gate" is its false, "quarantine" its true.*)
RecoverStep ==
    IF Exists("bak")
    THEN IF ~Valid("bak") THEN "gate"
         ELSE IF ~Exists("final") THEN "restore"
         ELSE IF Extends("final", "bak") THEN "retire" ELSE "gate"
    ELSE IF Exists("final") THEN "settle"
    ELSE IF Valid("tmp") THEN "promote" ELSE "gate"

RecoverProbe ==
    /\ At("probe") /\ Same
    /\ \/ Continue(RecoverStep) /\ NoFault
       \/ Fault("io") /\ Continue("gate")

RecoverRestore ==
    /\ At("restore") /\ ManOnly
    /\ \/ man' = Moved("bak", "final") /\ Continue("settle") /\ NoFault
       \/ Fault("io") /\ Continue("gate") /\ UNCHANGED man

RecoverRetire ==
    /\ At("retire") /\ ManOnly
    /\ \/ man' = With("bak", Absent) /\ Continue("settle") /\ NoFault
       \/ Fault("io") /\ Continue("gate") /\ UNCHANGED man

RecoverSettle ==
    /\ At("settle") /\ ManOnly
    /\ \/ /\ man' = IF Valid("final") THEN With("tmp", Absent) ELSE man
          /\ Continue(IF Valid("final") THEN "quarantine" ELSE "gate") /\ NoFault
       \/ Fault("io") /\ Continue("gate") /\ UNCHANGED man

RecoverPromote ==
    /\ At("promote") /\ ManOnly
    /\ \/ man' = Moved("tmp", "final") /\ Continue("quarantine") /\ NoFault
       \/ Fault("io") /\ Continue("gate") /\ man' \in {man, Moved("tmp", "final")}

(* recorder_ensure_manifest_exists after a failed recovery: an empty        *)
(* manifest only where there is no artifact and no recording.               *)
Pristine == ~dated

(* Faulty variant: no manifest.json is taken for a first boot.              *)
EmptyWithoutFinal == ~Exists("final")
EmptyAllowed == (\A f \in Files : ~Exists(f)) /\ Pristine

CreateEmpty ==
    /\ At("gate") /\ ManOnly
    /\ \/ EmptyAllowed /\ man' = With("tmp", Torn) /\ Continue("emptyWrite") /\ NoFault
       \/ ~EmptyAllowed /\ Halt("error") /\ UNCHANGED man /\ NoFault
       \/ Fault("io") /\ Halt("error") /\ UNCHANGED man

WriteEmpty ==
    /\ At("emptyWrite") /\ ManOnly
    /\ \/ man' = With("tmp", Doc(<<>>)) /\ Continue("emptyRename") /\ NoFault
       \/ Fault("io") /\ Halt("error") /\ UNCHANGED man

RenameEmpty ==
    /\ At("emptyRename") /\ ManOnly
    /\ \/ man' = Moved("tmp", "final") /\ Continue("quarantine") /\ NoFault
       \/ Fault("io") /\ Halt("error") /\ UNCHANGED man

-----------------------------------------------------------------------------
(* wav_recovery_scan_recordings: what it cannot recover stays for a later   *)
(* boot, and a directory that cannot be read on ends the scan.              *)
Parts == {i \in Ids : wav[i].place = "part"}

(* wav_recovery_validate_header, of a file long enough to have one.         *)
HeaderValid(w) == w.head

StartScan ==
    /\ At("quarantine") /\ UNCHANGED <<card, used>>
    /\ \/ ram' = [ram EXCEPT !.todo = Parts] /\ Continue("scan") /\ NoFault
       \/ Fault("io") /\ Halt("error") /\ UNCHANGED ram

Rest == [ram EXCEPT !.todo = @ \ {ram.cur}]

ScanNext ==
    /\ At("scan") /\ UNCHANGED <<card, used>>
    /\ \/ ram.todo = {} /\ Continue("count") /\ UNCHANGED ram /\ NoFault
       \/ \E i \in ram.todo :
              /\ ram' = [ram EXCEPT !.cur = i]
              /\ Continue(IF HeaderValid(wav[i]) THEN "rebuild" ELSE "isolate") /\ NoFault
       \/ ram.todo # {} /\ Fault("io") /\ ram' = [ram EXCEPT !.todo = {}]
             /\ Continue("count")

(* quarantine_move of a file without a header.                              *)
Isolate ==
    /\ At("isolate") /\ WavOnly /\ ram' = Rest /\ Continue("scan")
    /\ \/ wav' = [wav EXCEPT ![ram.cur].place = "quarantine"] /\ NoFault
       \/ Fault("io") /\ UNCHANGED wav

(* rewrite_header_with_sync: the length comes from the file, not from the   *)
(* stale header.                                                            *)

(* Faulty variant: the length is taken from the header.                     *)
StaleLength(w) == w.declared
RecoveredLength(w) == Whole(w.size)

RebuildHeader ==
    /\ At("rebuild") /\ WavOnly
    /\ \/ /\ wav' = [wav EXCEPT ![ram.cur].declared = RecoveredLength(wav[ram.cur])]
          /\ UNCHANGED ram /\ Continue("trim") /\ NoFault
       \/ Fault("io") /\ UNCHANGED wav /\ ram' = Rest /\ Continue("scan")

(* The best-effort truncate.                                                *)
TrimTail ==
    /\ At("trim") /\ WavOnly /\ UNCHANGED ram /\ Continue("name")
    /\ \/ /\ wav' = [wav EXCEPT ![ram.cur].size = wav[ram.cur].declared,
                                ![ram.cur].durable = wav[ram.cur].declared]
          /\ NoFault
       \/ wav[ram.cur].size > wav[ram.cur].declared /\ Fault("truncate")
             /\ UNCHANGED wav

NameRecovered ==
    /\ At("name") /\ WavOnly /\ ram' = Rest /\ Continue("scan")
    /\ \/ wav' = [wav EXCEPT ![ram.cur].place = "wav"] /\ NoFault
       \/ Fault("io") /\ UNCHANGED wav

-----------------------------------------------------------------------------
(* device_manifest_sync_wav_dir: every WAV is indexed or already is, and    *)
(* there are as many entries as WAVs.                                       *)
Wavs == {i \in Ids : wav[i].place = "wav"}

CountBefore ==
    /\ At("count") /\ UNCHANGED <<card, used>>
    /\ \/ /\ ram' = [ram EXCEPT !.before = Len(man["final"].recs), !.indexed = 0,
                                !.todo = Wavs,
                                !.job = "sync"]
          /\ Continue("sync") /\ NoFault
       \/ Fault("io") /\ Halt("error") /\ UNCHANGED ram

EnsureOneWav ==
    /\ At("sync") /\ UNCHANGED <<card, used>>
    /\ \/ ram.todo = {} /\ Continue("tally") /\ UNCHANGED ram /\ NoFault
       \/ \E i \in ram.todo :
              /\ Indexable(wav[i]) /\ Continue("upsert") /\ NoFault
              /\ ram' = [ram EXCEPT !.cur = i, !.todo = @ \ {i}]
       \/ /\ \E i \in ram.todo : ~Indexable(wav[i])
          /\ Halt("error") /\ UNCHANGED ram /\ NoFault
       \/ Fault("io") /\ Halt("error") /\ UNCHANGED ram

(* Faulty variant: entries without a file go unnoticed.                     *)
TalliesLoosely == Len(man["final"].recs) >= ram.indexed
Tallies == /\ Len(man["final"].recs) = ram.indexed
           /\ Len(man["final"].recs) >= ram.before

CountAfter ==
    /\ At("tally") /\ Same
    /\ \/ Tallies /\ Continue("segment") /\ NoFault
       \/ ~Tallies /\ Halt("error") /\ NoFault
       \/ Fault("io") /\ Halt("error")

-----------------------------------------------------------------------------
(* device_manifest_upsert_file and write_tmp_and_rename.  The entry names   *)
(* the scanned file, or the current id and the current path.                *)
Entry ==
    LET i == IF ram.job = "sync" THEN ram.cur ELSE ram.seg
        f == IF ram.job = "sync" THEN ram.cur ELSE ram.file
    IN [id |-> i, file |-> f, size |-> wav[f].size, tag |-> wav[f].tag]

Listed(i) == \E k \in 1..Len(man["final"].recs) : man["final"].recs[k].id = i
IsListed(e) == \E k \in 1..Len(man["final"].recs) : man["final"].recs[k] = e

(* The old document with the entry spliced in, or a new one with only it.   *)
Appended == Append(man["final"].recs, Entry)

UpsertDone ==
    /\ UNCHANGED err
    /\ Go(CASE ram.job = "sync" -> "sync" [] ram.job = "rotate" -> "segment"
            [] OTHER -> "done")
    /\ ram' = IF ram.job = "sync" THEN [ram EXCEPT !.indexed = @ + 1] ELSE ram

(* A rotation that fails falls through to the final finalize and record.    *)
JobFails ==
    /\ err' = "error"
    /\ Go(IF ram.job = "rotate" THEN "finalize" ELSE "done")
    /\ ram' = [ram EXCEPT !.job = IF @ = "rotate" THEN "stop" ELSE @]

KeepOthers == UNCHANGED <<device, dated, wav, used>>

UpsertRead ==
    /\ At("upsert") /\ KeepOthers /\ UNCHANGED man
    /\ \/ IsListed(Entry) /\ UpsertDone /\ NoFault
       \/ /\ \/ Listed(Entry.id) /\ ~IsListed(Entry)
             \/ ~Listed(Entry.id) /\ Len(man["final"].recs) >= Ceiling
          /\ JobFails /\ NoFault
       \/ /\ ~Listed(Entry.id) /\ Len(man["final"].recs) < Ceiling
          /\ ram' = [ram EXCEPT !.cand = Appended]
          /\ Continue("backup") /\ NoFault
       \/ Fault("io") /\ JobFails

RetireBackup ==
    /\ At("backup") /\ KeepOthers
    /\ \/ /\ Exists("bak") => Extends("final", "bak")
          /\ man' = With("bak", Absent) /\ Continue("tmpOpen")
          /\ UNCHANGED ram /\ NoFault
       \/ /\ Exists("bak") /\ ~Extends("final", "bak")
          /\ JobFails /\ UNCHANGED man /\ NoFault
       \/ Exists("bak") /\ Fault("io") /\ JobFails /\ UNCHANGED man

OpenTmp ==
    /\ At("tmpOpen") /\ KeepOthers
    /\ \/ man' = With("tmp", Torn) /\ Continue("tmpWrite") /\ UNCHANGED ram /\ NoFault
       \/ Fault("io") /\ JobFails /\ UNCHANGED man

WriteTmp ==
    /\ At("tmpWrite") /\ KeepOthers
    /\ \/ /\ man' = With("tmp", Doc(ram.cand)) /\ Continue("publish")
          /\ UNCHANGED ram /\ NoFault
       \/ Fault("io") /\ JobFails /\ man' \in {man, With("tmp", Absent)}

(* FAT refuses to rename over manifest.json, which is there: without it the *)
(* backup is the only manifest, and RetireBackup has stopped the append.    *)
PublishTmp ==
    /\ At("publish") /\ KeepOthers /\ UNCHANGED man
    /\ \/ Exists("final") /\ Continue("aside") /\ UNCHANGED ram /\ NoFault
       \/ Fault("io") /\ JobFails

SetAside ==
    /\ At("aside") /\ KeepOthers
    /\ \/ man' = Moved("final", "bak") /\ Continue("install") /\ UNCHANGED ram /\ NoFault
       \/ Fault("io") /\ JobFails /\ UNCHANGED man

Install ==
    /\ At("install") /\ KeepOthers /\ UNCHANGED ram
    /\ \/ man' = Moved("tmp", "final") /\ Continue("verify") /\ NoFault
       \/ Fault("io") /\ Continue("rollback") /\ UNCHANGED man

Rollback ==
    /\ At("rollback") /\ KeepOthers /\ JobFails
    /\ \/ man' = Moved("bak", "final") /\ NoFault
       \/ Fault("io") /\ UNCHANGED man

Verify ==
    /\ At("verify") /\ KeepOthers /\ UNCHANGED man
    /\ \/ UpsertDone /\ NoFault
       \/ Fault("io") /\ JobFails

-----------------------------------------------------------------------------
(* A new segment: at boot, and at every rotation.  The id of the segment is *)
(* replaced first; the file that is open, or was, changes only once the new *)
(* one is open.  Out of recordingIds is recorder_new_recording_id failing.  *)
NewSegment ==
    /\ At("segment") /\ UNCHANGED card /\ NoFault
    /\ \/ /\ used < MaxSeg /\ used' = used + 1
          /\ ram' = [ram EXCEPT !.seg = used + 1] /\ Continue("mkdir")
       \/ /\ used = MaxSeg /\ UNCHANGED used /\ err' = "spent"
          /\ Go(IF ram.job = "rotate" THEN "finalize" ELSE "done")
          /\ ram' = [ram EXCEPT !.job = "stop"]

(* sd_mount_ensure_date_dir.                                                *)
MakeDateDir ==
    /\ At("mkdir") /\ UNCHANGED <<man, device, wav, used>>
    /\ \/ dated' = TRUE /\ Continue("admit") /\ UNCHANGED ram /\ NoFault
       \/ Fault("io") /\ JobFails /\ UNCHANGED dated

(* recorder_can_admit_segment: room for two more entries, and memory and    *)
(* clusters ("full" is a lack of these).                                    *)

(* Faulty variant: room for the one entry of the new segment.               *)
AppendRoomForOne == Len(man["final"].recs) + 1 <= Ceiling
AppendRoom == Len(man["final"].recs) + 2 <= Ceiling

Admit ==
    /\ At("admit") /\ UNCHANGED <<card, used>>
    /\ \/ AppendRoom /\ Continue("open") /\ UNCHANGED ram /\ NoFault
       \/ ~AppendRoom /\ JobFails /\ NoFault
       \/ Fault("full") /\ JobFails

(* wav_part_open: the file, then the placeholder header and its sync.       *)
OpenPart ==
    /\ At("open") /\ WavOnly
    /\ \/ /\ wav' = [wav EXCEPT ![ram.seg].place = "part"]
          /\ Continue("header") /\ UNCHANGED ram /\ NoFault
       \/ Fault("io") /\ JobFails /\ UNCHANGED wav

WriteHeader ==
    /\ At("header") /\ WavOnly
    /\ \/ /\ wav' = [wav EXCEPT ![ram.seg].head = TRUE]
          /\ ram' = [ram EXCEPT !.file = ram.seg, !.called = FALSE,
                                !.fin = FALSE, !.pcm = 0, !.job = "record"]
          /\ Continue("rec") /\ NoFault
       \/ /\ Fault("io") /\ JobFails
          /\ \E h \in BOOLEAN : wav' = [wav EXCEPT ![ram.seg].head = h]

-----------------------------------------------------------------------------
(* The recording loop of recorder_writer_task.                              *)
Leave(job) == ram' = [ram EXCEPT !.job = job] /\ Go("finalize")

WriteChunk ==
    /\ At("rec") /\ WavOnly /\ wav[ram.file].size + 2 <= MaxBytes
    /\ \/ /\ wav' = [wav EXCEPT ![ram.file].size = @ + 2]
          /\ ram' = [ram EXCEPT !.pcm = @ + 2] /\ Continue("rec") /\ NoFault
       \/ /\ \/ Fault("io") /\ UNCHANGED wav
             \/ Fault("short") /\ wav' = [wav EXCEPT ![ram.file].size = @ + 1]
          /\ err' = "error" /\ Leave("stop")

(* wav_part_rewrite_header: the length so far, synced to the card.          *)

(* Faulty variant: the header counts itself.                                *)
SyncedWithHeader(w) == [w EXCEPT !.declared = ram.pcm + 44, !.durable = w.size]
Synced(w) == [w EXCEPT !.declared = ram.pcm, !.durable = w.size]

Flush ==
    /\ At("rec") /\ WavOnly /\ wav[ram.file].declared < ram.pcm
    /\ \/ wav' = [wav EXCEPT ![ram.file] = Synced(@)]
             /\ UNCHANGED ram /\ Continue("rec") /\ NoFault
       \/ Fault("io") /\ err' = "error" /\ Leave("stop") /\ UNCHANGED wav

Rotate ==
    /\ At("rec") /\ UNCHANGED <<card, used, err>> /\ NoFault /\ Leave("rotate")

StopRequest ==
    /\ At("rec") /\ UNCHANGED <<card, used, err>> /\ NoFault /\ Leave("stop")

(* wav_rotation_finalize_once: the first call decides, later ones repeat    *)
(* its answer.                                                              *)
FinalizeOnce ==
    /\ At("finalize") /\ UNCHANGED <<card, used>> /\ NoFault
    /\ \/ /\ ~ram.called /\ Continue("close")
          /\ ram' = [ram EXCEPT !.called = TRUE, !.fin = FALSE]
       \/ ram.called /\ ram.fin /\ Continue("record") /\ UNCHANGED ram
       \/ ram.called /\ ~ram.fin /\ JobFails

CloseSink ==
    /\ At("close") /\ WavOnly
    /\ \/ wav' = [wav EXCEPT ![ram.file] = Synced(@)]
             /\ UNCHANGED ram /\ Continue("rename") /\ NoFault
       \/ /\ Fault("io") /\ JobFails
          /\ \E w \in Survives(wav[ram.file]) : wav' = [wav EXCEPT ![ram.file] = w]

RenamePart ==
    /\ At("rename") /\ WavOnly
    /\ \/ /\ wav' = [wav EXCEPT ![ram.file].place = "wav"]
          /\ ram' = [ram EXCEPT !.fin = TRUE] /\ Continue("record") /\ NoFault
       \/ Fault("io") /\ JobFails /\ UNCHANGED wav

(* recorder_manifest_record_wav up to its upsert.                           *)
RecordWav ==
    /\ At("record") /\ UNCHANGED <<card, used>>
    /\ \/ Indexable(wav[ram.file]) /\ Continue("upsert") /\ UNCHANGED ram /\ NoFault
       \/ ~Indexable(wav[ram.file]) /\ JobFails /\ NoFault
       \/ Fault("io") /\ JobFails

-----------------------------------------------------------------------------
Boot == \/ EnsureDeviceJson \/ WriteDeviceJson
        \/ RecoverProbe \/ RecoverRestore \/ RecoverRetire \/ RecoverSettle
        \/ RecoverPromote \/ CreateEmpty \/ WriteEmpty \/ RenameEmpty
        \/ StartScan \/ ScanNext \/ Isolate \/ RebuildHeader \/ TrimTail
        \/ NameRecovered \/ CountBefore \/ EnsureOneWav \/ CountAfter

Upsert == \/ UpsertRead \/ RetireBackup \/ OpenTmp \/ WriteTmp \/ PublishTmp
          \/ SetAside \/ Install \/ Rollback \/ Verify

Record == \/ NewSegment \/ MakeDateDir \/ Admit \/ OpenPart \/ WriteHeader
          \/ WriteChunk \/ Flush \/ Rotate \/ StopRequest \/ FinalizeOnce
          \/ CloseSink \/ RenamePart \/ RecordWav

Writer == Boot \/ Upsert \/ Record

Next == PowerOn \/ PowerCut \/ (\E i \in Ids : HostChanges(i)) \/ Writer

Spec == Init /\ [][Next]_vars

(* The writer is scheduled and the device is switched on again.  Nothing    *)
(* is assumed of power cuts, faults or the host.                            *)
FairSpec == Spec /\ WF_vars(Writer) /\ WF_vars(PowerOn)

-----------------------------------------------------------------------------
WavFile == [place : {"none", "part", "wav", "quarantine"}, head : BOOLEAN,
            declared : 0..MaxBytes, size : 0..MaxBytes, durable : 0..MaxBytes,
            tag : {0, 1}]

(* Every variable keeps its type; a manifest document is a sequence of      *)
(* entries that fits the ceiling.                                           *)
TypeOK ==
    /\ \A f \in Files : /\ man[f].kind \in {"absent", "torn", "doc"}
                        /\ Len(man[f].recs) <= Ceiling
                        /\ \A k \in 1..Len(man[f].recs) : man[f].recs[k] \in Entries
    /\ device \in {"absent", "torn", "ok", "fork"} /\ dated \in BOOLEAN
    /\ wav \in [Ids -> WavFile] /\ used \in 0..MaxSeg
    /\ err \in {"none", "error", "spent"}
    /\ ram.todo \subseteq Ids /\ {ram.seg, ram.file, ram.cur} \subseteq 0..MaxSeg
    /\ {ram.pcm, ram.before, ram.indexed} \subseteq Nat
    /\ ram.job \in {"sync", "record", "rotate", "stop"}
    /\ crashes <= MaxCrash /\ faults <= MaxFault /\ edits <= MaxHost

(* The manifest a reader or the next boot can get at: manifest.json, or the *)
(* backup while manifest.json is being replaced.                            *)
View == IF Exists("final") THEN man["final"].recs ELSE man["bak"].recs

Log == INSTANCE ManifestLog WITH log <- View

(* Across every rename, rollback, recovery, power cut and I/O error of the  *)
(* replacement protocol the manifest only grows, an entry at a time, and no *)
(* recordingId is entered twice (write_tmp_and_rename,                      *)
(* device_manifest_recover_tmp).                                            *)
AppendOnly == Log!Spec

(* When the boot scan lets recording start, the manifest lists exactly the  *)
(* WAV files on the card, each once, under its own recordingId and with the *)
(* bytes it has, whatever faults came before and whatever the host did      *)
(* (device_manifest_sync_wav_dir: the inventory it certifies is complete).  *)
HealthyIsComplete ==
    pc = "segment" /\ ram.job = "sync" =>
        LET r == man["final"].recs IN
        /\ {r[k].file : k \in 1..Len(r)} = Wavs
        /\ \A k \in 1..Len(r) :
              /\ r[k].id = r[k].file
              /\ r[k].size = wav[r[k].file].size /\ r[k].tag = wav[r[k].file].tag
        /\ \A j, k \in 1..Len(r) : r[j].file = r[k].file => j = k

(* No step of the firmware shortens recorded audio or makes a file vanish;  *)
(* a power cut or a failing close costs at most what was written after the  *)
(* last checkpoint; a published WAV declares all of it (wav_part_flush,     *)
(* wav_recovery_recover_file, "never deletes").                             *)
CheckpointKept ==
    [][edits' = edits =>
        \A i \in Ids :
            LET kept == IF crashes' = crashes /\ faults' = faults
                        THEN Whole(wav[i].size) ELSE Whole(wav[i].durable)
            IN /\ wav'[i].size >= kept
               /\ wav'[i].place = "wav" => wav'[i].declared >= kept
               /\ wav[i].place # "none" => wav'[i].place # "none"]_vars

(* The admission of a segment reserves what its entry needs: an append is   *)
(* never refused for lack of room, whether it is of a rotation, of a stop   *)
(* or of the recovery after a power cut, as long as no operation failed     *)
(* (device_manifest_has_append_room: two entries are reserved).             *)
RoomReserved ==
    faults = 0 /\ pc = "upsert" /\ ~Listed(Entry.id)
        => Len(man["final"].recs) < Ceiling

(* Power cuts alone never stop the recorder: once the first manifest is in  *)
(* place and until it is full, every boot gets through recovery, the scan   *)
(* and the tally (device_manifest_recover_tmp resolves every state the      *)
(* replacement protocol can be cut in).                                     *)
CrashSafe ==
    /\ faults = 0 /\ edits = 0 /\ device = "ok"
    /\ Exists("final") \/ Exists("bak")
    /\ Len(View) + 2 <= Ceiling
    => err # "error"

Indexed(i) == \E k \in 1..Len(View) : View[k].id = i /\ View[k].file = i

(* Every segment that was ever opened ends up listed under its own id, or   *)
(* in quarantine if it has no header, however often the power is cut in     *)
(* between, as long as the device is switched on again.                     *)
EventuallyIndexed ==
    \A i \in Ids : wav[i].place \in {"part", "wav"}
                      ~> Indexed(i) \/ wav[i].place = "quarantine"

(* "every finalized (rotation / safe-stop) or recovered (boot power-loss)   *)
(* `.wav` is reflected as one entry keyed by `recordingId`"                 *)
(* (device_manifest.h): no WAV is named by two entries.                     *)
OneEntryPerWav ==
    \A j, k \in 1..Len(View) : View[j].file = View[k].file => j = k
=============================================================================
