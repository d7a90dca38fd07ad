------------------------- MODULE SegmentStore_proofs -------------------------
(***************************************************************************)
(* Proofs about SegmentStore, for any number of segments, bytes, entries,  *)
(* power cuts, failing operations and changes of the host: the manifest is *)
(* an append-only log, what it certifies is on the card, what was synced   *)
(* stays, and power cuts alone never stop the recorder.                    *)
(***************************************************************************)
EXTENDS SegmentStore, Integers, SequenceTheorems, FiniteSetTheorems, TLAPS

(* The points of the writer: boot and its scan, the replacement of the      *)
(* manifest, the start of a segment and its end.                            *)
ScanPoints == {"isolate", "rebuild", "trim", "name"}
BootPoints == {"device", "deviceWrite", "probe", "restore", "retire", "settle",
               "promote", "gate", "emptyWrite", "emptyRename", "quarantine",
               "scan", "count", "sync", "tally"} \cup ScanPoints
UpsertPoints == {"upsert", "backup", "tmpOpen", "tmpWrite", "publish", "aside",
                 "install", "rollback", "verify"}
OpenPoints == {"mkdir", "admit", "open", "header"}
ClosePoints == {"finalize", "close", "rename", "record"}
Points == {"off", "done", "segment", "rec"} \cup BootPoints \cup UpsertPoints
              \cup OpenPoints \cup ClosePoints

Snapshots == [kind : {"absent", "torn", "doc"}, recs : Seq(Entries)]
Ram == [seg : 0..MaxSeg, file : 0..MaxSeg, called : BOOLEAN, fin : BOOLEAN,
        pcm : Nat, todo : SUBSET Ids, before : Nat, indexed : Nat,
        cur : 0..MaxSeg, cand : Seq(Entries),
        job : {"sync", "record", "rotate", "stop"}]

(* The types in full: only a document has entries, and no more than fit.    *)
Types ==
    /\ man \in [Files -> Snapshots]
    /\ \A f \in Files : man[f].kind # "doc" => man[f].recs = <<>>
    /\ \A f \in Files : Len(man[f].recs) <= Ceiling
    /\ device \in {"absent", "torn", "ok", "fork"} /\ dated \in BOOLEAN
    /\ wav \in [Ids -> WavFile] /\ used \in 0..MaxSeg
    /\ pc \in Points /\ err \in {"none", "error", "spent"}
    /\ ram \in Ram /\ Len(ram.cand) <= Ceiling
    /\ crashes \in 0..MaxCrash /\ faults \in 0..MaxFault /\ edits \in 0..MaxHost

(* Every point has the job it serves and the file it works on.              *)
Located ==
    /\ pc \in BootPoints => ram.job = "sync"
    /\ pc \in OpenPoints \cup {"segment"} => ram.job \in {"sync", "rotate"}
    /\ pc = "rec" => ram.job = "record"
    /\ pc \in ClosePoints => ram.job \in {"rotate", "stop"}
    /\ pc \in UpsertPoints => ram.job \in {"sync", "rotate", "stop"}
    /\ ram.job = "sync" => ram.file = 0
    /\ pc \in ScanPoints => ram.cur \in Ids
    /\ pc \in UpsertPoints /\ ram.job = "sync" => ram.cur \in Ids
    /\ pc \in OpenPoints => ram.seg \in Ids /\ ram.seg = used
    /\ ram.job \in {"record", "rotate"} => ram.seg \in Ids /\ ram.file \in Ids
    /\ pc \in ClosePoints \cup UpsertPoints /\ ram.job = "stop"
           => ram.seg \in Ids /\ ram.file \in Ids

(* A file of an id not drawn yet is not there; while a segment is recorded  *)
(* its bytes are those counted, but for an odd one of a failed write.       *)
Counted ==
    /\ \A i \in Ids : wav[i].durable <= wav[i].size
    /\ \A i \in Ids : i > used => wav[i] = NoWav
    /\ pc \in {"mkdir", "admit", "open"} => wav[ram.seg] = NoWav
    /\ pc = "header" => wav[ram.seg] = [NoWav EXCEPT !.place = "part"]
    /\ pc \in {"rec", "close"} \/ (pc = "finalize" /\ ~ram.called)
           => /\ wav[ram.file].place = "part"
              /\ Whole(wav[ram.file].size) = ram.pcm
    /\ pc = "rec" => wav[ram.file].size = ram.pcm /\ ~ram.called
    /\ ram.job = "rotate" /\ pc # "finalize" => ram.called
    /\ pc = "rename" => /\ wav[ram.file].place = "part"
                        /\ wav[ram.file].declared = Whole(wav[ram.file].size)

(* A published WAV declares every whole sample it has, and the scan         *)
(* publishes only what it has measured.                                     *)
Published ==
    /\ \A i \in Ids :
           wav[i].place = "wav" => wav[i].declared >= Whole(wav[i].size)
    /\ pc \in {"scan"} \cup ScanPoints => ram.todo \subseteq Parts
    /\ pc \in ScanPoints => ram.cur \in ram.todo
    /\ pc \in {"trim", "name"} =>
           wav[ram.cur].declared = Whole(wav[ram.cur].size)

FileInv == Types /\ Located /\ Counted /\ Published

-----------------------------------------------------------------------------
(* A whole number of samples: what Whole gives, and of what it gives it.    *)
LEMMA WholeBounds ==
    ASSUME NEW n \in Nat
    PROVE  /\ Whole(n) \in Nat /\ Whole(n) <= n /\ n <= Whole(n) + 1
           /\ Whole(n) % 2 = 0 /\ Whole(Whole(n)) = Whole(n)
           /\ n % 2 = 0 => Whole(n + 2) = Whole(n) + 2 /\ Whole(n + 1) = Whole(n)
           /\ (n % 2 = 0 <=> Whole(n) = n)
  BY DEF Whole

LEMMA WholeMonotone ==
    ASSUME NEW m \in Nat, NEW n \in Nat, m <= n
    PROVE  Whole(m) <= Whole(n)
  BY DEF Whole

(* The entry of an upsert is one the manifest can hold.                     *)
LEMMA EntryType ==
    ASSUME Types, Located, pc \in UpsertPoints
    PROVE  Entry \in Entries
  BY BoundsAssumption DEF Types, Located, UpsertPoints, Entry, Entries, Ids, WavFile, Ram


(* What a step leaves of the writer's memory, and of the files but one.     *)
SameSegment == /\ ram'.seg = ram.seg /\ ram'.file = ram.file /\ ram'.pcm = ram.pcm
               /\ ram'.called = ram.called /\ ram'.fin = ram.fin
SameScan == /\ ram'.todo = ram.todo /\ ram'.cur = ram.cur
            /\ ram'.before = ram.before /\ ram'.indexed = ram.indexed
SameJob == ram'.job = ram.job /\ ram'.cand = ram.cand
OnlyWav(i) == \A j \in Ids : j # i => wav'[j] = wav[j]

(* The documents after a rename and after a write.                          *)
LEMMA MovedIs ==
    ASSUME man \in [Files -> Snapshots]
    PROVE  \A f, g \in Files : f # g /\ man' = Moved(f, g) =>
               /\ man'[g] = man[f] /\ man'[f] = Absent
               /\ \A h \in Files \ {f, g} : man'[h] = man[h]
               /\ man' \in [Files -> Snapshots]
  <1>1. Absent \in Snapshots
    BY DEF Absent, Snapshots
  <1> QED
    BY <1>1 DEF Moved

LEMMA WithIs ==
    ASSUME man \in [Files -> Snapshots]
    PROVE  \A f \in Files, d \in Snapshots : man' = With(f, d) =>
               /\ man'[f] = d /\ \A h \in Files \ {f} : man'[h] = man[h]
               /\ man' \in [Files -> Snapshots]
  BY DEF With

LEMMA DocIs ==
    /\ Absent \in Snapshots /\ Absent.kind = "absent" /\ Absent.recs = <<>>
    /\ Torn \in Snapshots /\ Torn.kind = "torn" /\ Torn.recs = <<>>
    /\ \A r \in Seq(Entries) : /\ Doc(r) \in Snapshots /\ Doc(r).kind = "doc"
                               /\ Doc(r).recs = r
    /\ <<>> \in Seq(Entries)
  BY DEF Absent, Torn, Doc, Snapshots

(* An upsert that failed: a rotation goes on to close its file.             *)
Failed == /\ err' = "error" /\ ram' \in Ram
          /\ pc' = IF ram.job = "rotate" THEN "finalize" ELSE "done"
          /\ ram'.job = IF ram.job = "rotate" THEN "stop" ELSE ram.job
          /\ ram'.cand = ram.cand /\ SameSegment /\ SameScan

LEMMA JobFailsIs ==
    ASSUME ram \in Ram
    PROVE  JobFails => Failed
  <1> SUFFICES ASSUME JobFails PROVE Failed
    OBVIOUS
  <1>1. ram' = [ram EXCEPT !.job = IF ram.job = "rotate" THEN "stop" ELSE ram.job]
    BY DEF JobFails
  <1> QED
    BY <1>1 DEF JobFails, Go, Failed, SameSegment, SameScan, Ram

(* An upsert that succeeded, by the job it was for.                         *)
Upserted == /\ UNCHANGED err /\ ram' \in Ram /\ SameSegment /\ SameJob
            /\ ram'.todo = ram.todo /\ ram'.cur = ram.cur /\ ram'.before = ram.before
            /\ ram'.indexed = IF ram.job = "sync" THEN ram.indexed + 1 ELSE ram.indexed
            /\ pc' = IF ram.job = "sync" THEN "sync"
                     ELSE IF ram.job = "rotate" THEN "segment" ELSE "done"

LEMMA UpsertDoneIs ==
    ASSUME ram \in Ram
    PROVE  UpsertDone => Upserted
  <1> SUFFICES ASSUME UpsertDone PROVE Upserted
    OBVIOUS
  <1>1. CASE ram.job = "sync"
    <2>1. ram' = [ram EXCEPT !.indexed = ram.indexed + 1]
      BY <1>1 DEF UpsertDone
    <2> QED
      BY <1>1, <2>1, SMTT(30) DEF UpsertDone, Go, Upserted, SameSegment, SameJob, Ram
  <1>2. CASE ram.job # "sync"
    BY <1>2 DEF UpsertDone, Go, Upserted, SameSegment, SameJob, Ram
  <1> QED
    BY <1>1, <1>2

(* The memory of the writer after a step, field by field.                   *)
LEMMA PowerIs ==
    /\ RamInit \in Ram
    /\ PowerOn \/ PowerCut =>
          /\ ram' = RamInit /\ ram'.job = "sync" /\ ram'.file = 0 /\ ram'.seg = 0
          /\ ram'.cand = <<>> /\ ram'.todo = {}
  <1>1. RamInit \in Ram
    BY BoundsAssumption DEF RamInit, Ram, Ids
  <1> QED
    BY <1>1 DEF PowerOn, PowerCut, RamInit

LEMMA StartScanIs ==
    ASSUME ram \in Ram, StartScan
    PROVE  /\ ram' \in Ram /\ SameSegment /\ SameJob /\ ram'.cur = ram.cur
           /\ \/ pc' = "scan" /\ ram'.todo = Parts /\ err' = err /\ NoFault
              \/ pc' = "done" /\ ram' = ram /\ Fault("io")
  <1>1. CASE ram' = [ram EXCEPT !.todo = Parts] /\ Continue("scan") /\ NoFault
    BY <1>1 DEF Continue, Go, Parts, Ram, SameSegment, SameJob
  <1>2. CASE Fault("io") /\ Halt("error") /\ UNCHANGED ram
    BY <1>2 DEF Halt, Go, SameSegment, SameJob
  <1> QED
    BY <1>1, <1>2 DEF StartScan

LEMMA RestIs ==
    ASSUME ram \in Ram
    PROVE  ram' = Rest => /\ ram' \in Ram /\ SameSegment /\ SameJob /\ ram'.cur = ram.cur
                          /\ ram'.todo = ram.todo \ {ram.cur}
  BY DEF Rest, Ram, SameSegment, SameJob

LEMMA ScanNextIs ==
    ASSUME ram \in Ram, ScanNext
    PROVE  /\ ram' \in Ram /\ SameSegment /\ SameJob
           /\ \/ pc' = "count" /\ ram.todo = {} /\ ram' = ram /\ err' = err /\ NoFault
              \/ /\ pc' = IF HeaderValid(wav[ram'.cur]) THEN "rebuild" ELSE "isolate"
                 /\ ram'.cur \in ram.todo /\ ram'.todo = ram.todo /\ err' = err /\ NoFault
              \/ pc' = "count" /\ ram'.todo = {} /\ err' = err /\ Fault("io")
  <1>1. CASE ram.todo = {} /\ Continue("count") /\ UNCHANGED ram /\ NoFault
    BY <1>1 DEF Continue, Go, SameSegment, SameJob
  <1>2. ASSUME NEW i \in ram.todo, ram' = [ram EXCEPT !.cur = i], NoFault,
               Continue(IF HeaderValid(wav[i]) THEN "rebuild" ELSE "isolate")
        PROVE  /\ ram' \in Ram /\ SameSegment /\ SameJob
               /\ pc' = IF HeaderValid(wav[ram'.cur]) THEN "rebuild" ELSE "isolate"
               /\ ram'.cur \in ram.todo /\ ram'.todo = ram.todo /\ err' = err /\ NoFault
    <2>1. i \in 0..MaxSeg
      BY BoundsAssumption, SMTT(30) DEF Ram, Ids
    <2>2. ram'.cur = i
      BY <1>2 DEF Ram
    <2> QED
      BY <1>2, <2>1, <2>2 DEF Continue, Go, Ram, SameSegment, SameJob
  <1>3. CASE ram' = [ram EXCEPT !.todo = {}] /\ Fault("io") /\ Continue("count")
    BY <1>3 DEF Continue, Go, Ram, SameSegment, SameJob
  <1> QED
    BY <1>1, <1>2, <1>3 DEF ScanNext

LEMMA CountBeforeIs ==
    ASSUME ram \in Ram, man \in [Files -> Snapshots], CountBefore
    PROVE  /\ ram' \in Ram /\ SameSegment /\ ram'.cur = ram.cur /\ ram'.cand = ram.cand
           /\ \/ /\ pc' = "sync" /\ ram'.todo = Wavs /\ ram'.indexed = 0 /\ ram'.job = "sync"
                 /\ ram'.before = Len(man["final"].recs) /\ err' = err /\ NoFault
              \/ pc' = "done" /\ ram' = ram /\ Fault("io")
  <1>1. CASE /\ ram' = [ram EXCEPT !.before = Len(man["final"].recs), !.indexed = 0,
                                   !.todo = Wavs, !.job = "sync"]
             /\ Continue("sync") /\ NoFault
    <2>1. Len(man["final"].recs) \in Nat /\ Wavs \subseteq Ids
      BY DEF Files, Snapshots, Wavs
    <2> QED
      BY <1>1, <2>1 DEF Continue, Go, Ram, SameSegment
  <1>2. CASE Fault("io") /\ Halt("error") /\ UNCHANGED ram
    BY <1>2 DEF Halt, Go, SameSegment
  <1> QED
    BY <1>1, <1>2 DEF CountBefore

LEMMA EnsureOneWavIs ==
    ASSUME ram \in Ram, EnsureOneWav
    PROVE  /\ ram' \in Ram /\ SameSegment /\ SameJob
           /\ ram'.before = ram.before /\ ram'.indexed = ram.indexed
           /\ \/ pc' = "tally" /\ ram.todo = {} /\ ram' = ram /\ err' = err /\ NoFault
              \/ /\ pc' = "upsert" /\ ram'.cur \in ram.todo /\ err' = err /\ NoFault
                 /\ ram'.todo = ram.todo \ {ram'.cur} /\ Indexable(wav[ram'.cur])
              \/ /\ pc' = "done" /\ ram' = ram /\ NoFault
                 /\ \E i \in ram.todo : ~Indexable(wav[i])
              \/ pc' = "done" /\ ram' = ram /\ Fault("io")
  <1>1. CASE ram.todo = {} /\ Continue("tally") /\ UNCHANGED ram /\ NoFault
    BY <1>1 DEF Continue, Go, SameSegment, SameJob
  <1>2. ASSUME NEW i \in ram.todo, ram' = [ram EXCEPT !.cur = i, !.todo = @ \ {i}],
               Indexable(wav[i])
        PROVE  /\ ram' \in Ram /\ SameSegment /\ SameJob /\ ram'.cur \in ram.todo
               /\ ram'.before = ram.before /\ ram'.indexed = ram.indexed
               /\ ram'.todo = ram.todo \ {ram'.cur} /\ Indexable(wav[ram'.cur])
    <2>1. i \in 0..MaxSeg /\ ram.todo \ {i} \in SUBSET Ids
      BY BoundsAssumption, SMTT(30) DEF Ram, Ids
    <2>2. ram'.cur = i /\ ram'.todo = ram.todo \ {i}
      BY <1>2 DEF Ram
    <2>3. ram' \in Ram
      <3>1. ram' = [ram EXCEPT !.cur = i, !.todo = ram.todo \ {i}]
        BY <1>2
      <3> QED
        BY <3>1, <2>1 DEF Ram
    <2>4. SameSegment /\ SameJob /\ ram'.before = ram.before /\ ram'.indexed = ram.indexed
      BY <1>2 DEF Ram, SameSegment, SameJob
    <2> QED
      BY <1>2, <2>2, <2>3, <2>4
  <1>3. ASSUME Halt("error"), UNCHANGED ram
        PROVE  /\ ram' \in Ram /\ SameSegment /\ SameJob
               /\ ram'.before = ram.before /\ ram'.indexed = ram.indexed
               /\ pc' = "done" /\ ram' = ram
    BY <1>3 DEF Halt, Go, SameSegment, SameJob
  <1> QED
    BY <1>1, <1>2, <1>3 DEF EnsureOneWav, Continue, Go, Halt

LEMMA UpsertReadIs ==
    ASSUME ram \in Ram, Appended \in Seq(Entries), UpsertRead
    PROVE  \/ Upserted /\ IsListed(Entry) /\ NoFault
           \/ /\ Failed /\ NoFault
              /\ \/ Listed(Entry.id) /\ ~IsListed(Entry)
                 \/ ~Listed(Entry.id) /\ Len(man["final"].recs) >= Ceiling
           \/ /\ pc' = "backup" /\ ram' \in Ram /\ SameSegment /\ SameScan
              /\ ram'.job = ram.job /\ ram'.cand = Appended /\ NoFault /\ err' = err
              /\ ~Listed(Entry.id) /\ Len(man["final"].recs) < Ceiling
           \/ Failed /\ Fault("io")
  <1>1. CASE /\ ~Listed(Entry.id) /\ Len(man["final"].recs) < Ceiling
             /\ ram' = [ram EXCEPT !.cand = Appended]
             /\ Continue("backup") /\ NoFault
    BY <1>1 DEF Continue, Go, Ram, SameSegment, SameScan
  <1>2. CASE IsListed(Entry) /\ UpsertDone /\ NoFault
    BY <1>2, UpsertDoneIs
  <1>3. CASE /\ \/ Listed(Entry.id) /\ ~IsListed(Entry)
                \/ ~Listed(Entry.id) /\ Len(man["final"].recs) >= Ceiling
             /\ JobFails /\ NoFault
    BY <1>3, JobFailsIs
  <1>4. CASE Fault("io") /\ JobFails
    BY <1>4, JobFailsIs
  <1> QED
    BY <1>1, <1>2, <1>3, <1>4 DEF UpsertRead

LEMMA NewSegmentIs ==
    ASSUME ram \in Ram, used \in 0..MaxSeg, NewSegment
    PROVE  /\ ram' \in Ram /\ SameScan /\ ram'.cand = ram.cand
           /\ ram'.file = ram.file /\ ram'.pcm = ram.pcm
           /\ ram'.called = ram.called /\ ram'.fin = ram.fin
           /\ \/ /\ used < MaxSeg /\ used' = used + 1 /\ ram'.seg = used + 1
                 /\ pc' = "mkdir" /\ ram'.job = ram.job /\ err' = err
              \/ /\ used' = used /\ ram'.seg = ram.seg /\ ram'.job = "stop"
                 /\ err' = "spent"
                 /\ pc' = IF ram.job = "rotate" THEN "finalize" ELSE "done"
  <1>1. CASE /\ used < MaxSeg /\ used' = used + 1
             /\ ram' = [ram EXCEPT !.seg = used + 1] /\ Continue("mkdir")
    <2>1. used + 1 \in 0..MaxSeg
      BY <1>1, BoundsAssumption
    <2> QED
      BY <1>1, <2>1 DEF Continue, Go, Ram, SameScan
  <1>2. CASE /\ used = MaxSeg /\ UNCHANGED used /\ err' = "spent"
             /\ Go(IF ram.job = "rotate" THEN "finalize" ELSE "done")
             /\ ram' = [ram EXCEPT !.job = "stop"]
    BY <1>2 DEF Go, Ram, SameScan
  <1> QED
    BY <1>1, <1>2 DEF NewSegment

LEMMA LeaveIs ==
    ASSUME ram \in Ram
    PROVE  \A job \in {"rotate", "stop"} : Leave(job) =>
               /\ ram' \in Ram /\ SameSegment /\ SameScan /\ ram'.cand = ram.cand
               /\ ram'.job = job /\ pc' = "finalize"
  BY DEF Leave, Go, Ram, SameSegment, SameScan

LEMMA FinalizeOnceIs ==
    ASSUME ram \in Ram, FinalizeOnce
    PROVE  \/ /\ ~ram.called /\ pc' = "close" /\ err' = err /\ ram' \in Ram
              /\ ram'.called /\ ~ram'.fin /\ SameScan /\ SameJob
              /\ ram'.seg = ram.seg /\ ram'.file = ram.file /\ ram'.pcm = ram.pcm
           \/ ram.called /\ ram.fin /\ pc' = "record" /\ err' = err /\ ram' = ram
           \/ ram.called /\ ~ram.fin /\ Failed
  <1>1. CASE /\ ~ram.called /\ Continue("close")
             /\ ram' = [ram EXCEPT !.called = TRUE, !.fin = FALSE]
    BY <1>1 DEF Continue, Go, Ram, SameScan, SameJob
  <1>2. CASE ram.called /\ ram.fin /\ Continue("record") /\ UNCHANGED ram
    BY <1>2 DEF Continue, Go
  <1>3. CASE ram.called /\ ~ram.fin /\ JobFails
    BY <1>3, JobFailsIs
  <1> QED
    BY <1>1, <1>2, <1>3 DEF FinalizeOnce

-----------------------------------------------------------------------------
(* The files after a step, field by field.                                  *)
SameBytes(i) == /\ wav'[i].head = wav[i].head /\ wav'[i].declared = wav[i].declared
                /\ wav'[i].size = wav[i].size /\ wav'[i].durable = wav[i].durable
SameFile(i) == wav'[i].place = wav[i].place /\ wav'[i].tag = wav[i].tag

LEMMA PlaceIs ==
    ASSUME wav \in [Ids -> WavFile], NEW i \in Ids,
           NEW p \in {"part", "wav", "quarantine"}, wav' = [wav EXCEPT ![i].place = p]
    PROVE  /\ wav' \in [Ids -> WavFile] /\ OnlyWav(i) /\ SameBytes(i)
           /\ wav'[i].place = p /\ wav'[i].tag = wav[i].tag
  BY DEF WavFile, OnlyWav, SameBytes

LEMMA IsolateIs ==
    ASSUME FileInv, Isolate
    PROVE  \/ wav' = wav /\ Fault("io")
           \/ /\ wav' \in [Ids -> WavFile] /\ OnlyWav(ram.cur) /\ SameBytes(ram.cur)
              /\ wav'[ram.cur].place = "quarantine" /\ NoFault
              /\ wav'[ram.cur].tag = wav[ram.cur].tag
  <1>1. ram.cur \in Ids /\ wav \in [Ids -> WavFile]
    BY DEF FileInv, Types, Isolate, At, Located, ScanPoints
  <1> QED
    BY <1>1, PlaceIs DEF Isolate

LEMMA NameRecoveredIs ==
    ASSUME FileInv, NameRecovered
    PROVE  \/ wav' = wav /\ Fault("io")
           \/ /\ wav' \in [Ids -> WavFile] /\ OnlyWav(ram.cur) /\ SameBytes(ram.cur)
              /\ wav'[ram.cur].place = "wav" /\ NoFault
              /\ wav'[ram.cur].tag = wav[ram.cur].tag
  <1>1. ram.cur \in Ids /\ wav \in [Ids -> WavFile]
    BY DEF FileInv, Types, NameRecovered, At, Located, ScanPoints
  <1> QED
    BY <1>1, PlaceIs DEF NameRecovered

LEMMA RebuildHeaderIs ==
    ASSUME FileInv, RebuildHeader
    PROVE  \/ /\ wav' = wav /\ Fault("io") /\ ram' \in Ram /\ ram' = Rest
              /\ pc' = "scan" /\ err' = err
           \/ /\ wav' \in [Ids -> WavFile] /\ OnlyWav(ram.cur) /\ SameFile(ram.cur)
              /\ wav'[ram.cur].declared = Whole(wav[ram.cur].size)
              /\ wav'[ram.cur].head = wav[ram.cur].head
              /\ wav'[ram.cur].size = wav[ram.cur].size
              /\ wav'[ram.cur].durable = wav[ram.cur].durable
              /\ ram' = ram /\ pc' = "trim" /\ err' = err /\ NoFault
  <1>1. ram.cur \in Ids /\ wav \in [Ids -> WavFile] /\ ram \in Ram
    BY DEF FileInv, Types, RebuildHeader, At, Located, ScanPoints
  <1>2. Whole(wav[ram.cur].size) \in 0..MaxBytes
    <2>1. wav[ram.cur].size \in Nat /\ wav[ram.cur].size <= MaxBytes /\ MaxBytes \in Nat
      BY <1>1, BoundsAssumption DEF WavFile
    <2>2. Whole(wav[ram.cur].size) \in Nat /\ Whole(wav[ram.cur].size) <= wav[ram.cur].size
      BY <2>1, WholeBounds
    <2> QED
      BY <2>1, <2>2
  <1>3. CASE /\ wav' = [wav EXCEPT ![ram.cur].declared = RecoveredLength(wav[ram.cur])]
             /\ UNCHANGED ram /\ Continue("trim") /\ NoFault
    <2>1. wav' = [wav EXCEPT ![ram.cur].declared = Whole(wav[ram.cur].size)]
      BY <1>3 DEF RecoveredLength
    <2>2. /\ wav' \in [Ids -> WavFile] /\ OnlyWav(ram.cur) /\ SameFile(ram.cur)
          /\ wav'[ram.cur].declared = Whole(wav[ram.cur].size)
          /\ wav'[ram.cur].head = wav[ram.cur].head
          /\ wav'[ram.cur].size = wav[ram.cur].size
          /\ wav'[ram.cur].durable = wav[ram.cur].durable
      BY <1>1, <1>2, <2>1 DEF WavFile, OnlyWav, SameFile
    <2> QED
      BY <1>3, <2>2 DEF Continue, Go
  <1>4. CASE Fault("io") /\ UNCHANGED wav /\ ram' = Rest /\ Continue("scan")
    BY <1>1, <1>4, RestIs DEF Continue, Go
  <1> QED
    BY <1>3, <1>4 DEF RebuildHeader

LEMMA TrimTailIs ==
    ASSUME FileInv, TrimTail
    PROVE  \/ /\ wav' = wav /\ Fault("truncate")
              /\ wav[ram.cur].size > wav[ram.cur].declared
           \/ /\ wav' \in [Ids -> WavFile] /\ OnlyWav(ram.cur) /\ SameFile(ram.cur)
              /\ wav'[ram.cur].declared = wav[ram.cur].declared
              /\ wav'[ram.cur].head = wav[ram.cur].head
              /\ wav'[ram.cur].size = wav[ram.cur].declared
              /\ wav'[ram.cur].durable = wav[ram.cur].declared /\ NoFault
  <1>1. ram.cur \in Ids /\ wav \in [Ids -> WavFile]
    BY DEF FileInv, Types, TrimTail, At, Located, ScanPoints
  <1>2. CASE /\ wav' = [wav EXCEPT ![ram.cur].size = wav[ram.cur].declared,
                                   ![ram.cur].durable = wav[ram.cur].declared]
             /\ NoFault
    BY <1>1, <1>2 DEF WavFile, OnlyWav, SameFile
  <1> QED
    BY <1>2 DEF TrimTail

LEMMA OpenPartIs ==
    ASSUME FileInv, OpenPart
    PROVE  \/ wav' = wav /\ Failed /\ Fault("io")
           \/ /\ wav' \in [Ids -> WavFile] /\ OnlyWav(ram.seg) /\ SameBytes(ram.seg)
              /\ wav'[ram.seg] = [NoWav EXCEPT !.place = "part"]
              /\ pc' = "header" /\ ram' = ram /\ err' = err /\ NoFault
  <1>1. ram.seg \in Ids /\ wav \in [Ids -> WavFile] /\ ram \in Ram /\ wav[ram.seg] = NoWav
    BY DEF FileInv, Types, OpenPart, At, Located, Counted, OpenPoints
  <1>2. CASE /\ wav' = [wav EXCEPT ![ram.seg].place = "part"]
             /\ Continue("header") /\ UNCHANGED ram /\ NoFault
    <2>1. wav'[ram.seg] = [NoWav EXCEPT !.place = "part"]
      BY <1>1, <1>2 DEF NoWav
    <2> QED
      BY <1>1, <1>2, <2>1, PlaceIs DEF Continue, Go
  <1> QED
    BY <1>1, <1>2, JobFailsIs DEF OpenPart

LEMMA WriteHeaderIs ==
    ASSUME FileInv, WriteHeader
    PROVE  /\ wav' \in [Ids -> WavFile] /\ OnlyWav(ram.seg) /\ SameFile(ram.seg)
           /\ wav'[ram.seg].declared = 0 /\ wav'[ram.seg].size = 0
           /\ wav'[ram.seg].durable = 0 /\ wav'[ram.seg].place = "part"
           /\ \/ Failed /\ Fault("io")
              \/ /\ wav'[ram.seg].head /\ pc' = "rec" /\ ram' \in Ram /\ err' = err
                 /\ ram'.seg = ram.seg /\ ram'.file = ram.seg /\ ~ram'.called /\ ~ram'.fin
                 /\ ram'.pcm = 0 /\ ram'.job = "record" /\ NoFault
  <1>1. /\ ram.seg \in Ids /\ wav \in [Ids -> WavFile] /\ ram \in Ram
        /\ wav[ram.seg] = [NoWav EXCEPT !.place = "part"]
    BY DEF FileInv, Types, WriteHeader, At, Located, Counted, OpenPoints
  <1>2. PICK h \in BOOLEAN : wav' = [wav EXCEPT ![ram.seg].head = h]
    <2>1. CASE wav' = [wav EXCEPT ![ram.seg].head = TRUE]
      BY <2>1
    <2>2. CASE /\ Fault("io") /\ JobFails
               /\ \E h \in BOOLEAN : wav' = [wav EXCEPT ![ram.seg].head = h]
      BY <2>2
    <2> QED
      BY <2>1, <2>2 DEF WriteHeader
  <1>3. /\ wav' \in [Ids -> WavFile] /\ OnlyWav(ram.seg) /\ SameFile(ram.seg)
        /\ wav'[ram.seg].declared = 0 /\ wav'[ram.seg].size = 0
        /\ wav'[ram.seg].durable = 0 /\ wav'[ram.seg].place = "part"
        /\ wav'[ram.seg].head = h
    BY <1>1, <1>2 DEF NoWav, WavFile, OnlyWav, SameFile
  <1>4. CASE /\ ram' = [ram EXCEPT !.file = ram.seg, !.called = FALSE,
                                   !.fin = FALSE, !.pcm = 0, !.job = "record"]
             /\ Continue("rec") /\ NoFault
             /\ wav' = [wav EXCEPT ![ram.seg].head = TRUE]
    <2>0. wav'[ram.seg].head
      BY <1>1, <1>4 DEF WavFile
    <2>1. /\ ram' \in Ram /\ ram'.seg = ram.seg /\ ram'.file = ram.seg /\ ~ram'.called
          /\ ~ram'.fin /\ ram'.pcm = 0 /\ ram'.job = "record"
      BY <1>1, <1>4 DEF Ram
    <2> QED
      BY <1>3, <1>4, <2>0, <2>1 DEF Continue, Go
  <1>5. CASE Fault("io") /\ JobFails
    BY <1>1, <1>3, <1>5, JobFailsIs
  <1> QED
    BY <1>4, <1>5 DEF WriteHeader

LEMMA WriteChunkIs ==
    ASSUME FileInv, WriteChunk
    PROVE  /\ ram.file \in Ids
           /\ wav' \in [Ids -> WavFile] /\ OnlyWav(ram.file) /\ SameFile(ram.file)
           /\ wav'[ram.file].declared = wav[ram.file].declared
           /\ wav'[ram.file].head = wav[ram.file].head
           /\ wav'[ram.file].durable = wav[ram.file].durable
           /\ ram' \in Ram /\ SameScan /\ ram'.seg = ram.seg /\ ram'.file = ram.file
           /\ ram'.called = ram.called /\ ram'.fin = ram.fin
           /\ \/ /\ wav'[ram.file].size = wav[ram.file].size + 2 /\ ram'.pcm = ram.pcm + 2
                 /\ pc' = "rec" /\ ram'.job = ram.job /\ err' = err /\ NoFault
              \/ /\ wav'[ram.file].size \in {wav[ram.file].size, wav[ram.file].size + 1}
                 /\ pc' = "finalize" /\ ram'.job = "stop" /\ err' = "error"
                 /\ ram'.pcm = ram.pcm /\ (Fault("io") \/ Fault("short"))
  <1>1. ram.file \in Ids /\ wav \in [Ids -> WavFile] /\ ram \in Ram
    BY DEF FileInv, Types, WriteChunk, At, Located
  <1>2. /\ wav[ram.file].size \in Nat /\ wav[ram.file].size + 2 <= MaxBytes
        /\ MaxBytes \in Nat
    BY <1>1, BoundsAssumption DEF WriteChunk, WavFile
  <1>3. ASSUME NEW n \in {0, 1, 2}, wav' = [wav EXCEPT ![ram.file].size = @ + n]
        PROVE  /\ wav' \in [Ids -> WavFile] /\ OnlyWav(ram.file) /\ SameFile(ram.file)
               /\ wav'[ram.file].declared = wav[ram.file].declared
               /\ wav'[ram.file].head = wav[ram.file].head
               /\ wav'[ram.file].durable = wav[ram.file].durable
               /\ wav'[ram.file].size = wav[ram.file].size + n
    <2>1. wav[ram.file].size + n \in 0..MaxBytes
      BY <1>2
    <2> QED
      BY <1>1, <1>3, <2>1 DEF WavFile, OnlyWav, SameFile
  <1>4. CASE /\ wav' = [wav EXCEPT ![ram.file].size = @ + 2]
             /\ ram' = [ram EXCEPT !.pcm = @ + 2] /\ Continue("rec") /\ NoFault
    <2>1. /\ ram' \in Ram /\ SameScan /\ ram'.seg = ram.seg /\ ram'.file = ram.file
          /\ ram'.called = ram.called /\ ram'.fin = ram.fin
          /\ ram'.pcm = ram.pcm + 2 /\ ram'.job = ram.job
      <3>1. ram' = [ram EXCEPT !.pcm = ram.pcm + 2] /\ ram.pcm + 2 \in Nat
        BY <1>1, <1>4 DEF Ram
      <3> QED
        BY <1>1, <3>1 DEF Ram, SameScan
    <2>2. wav' = [wav EXCEPT ![ram.file].size = @ + 2]
      BY <1>4
    <2> QED
      BY <1>1, <1>3, <1>4, <2>1, <2>2 DEF Continue, Go
  <1>5. CASE /\ \/ Fault("io") /\ UNCHANGED wav
                \/ Fault("short") /\ wav' = [wav EXCEPT ![ram.file].size = @ + 1]
             /\ err' = "error" /\ Leave("stop")
    <2>1. /\ ram' \in Ram /\ SameSegment /\ SameScan /\ ram'.job = "stop" /\ pc' = "finalize"
      BY <1>1, <1>5, LeaveIs
    <2>2. CASE Fault("io") /\ UNCHANGED wav
      BY <1>1, <1>5, <2>1, <2>2 DEF SameSegment, SameFile, OnlyWav
    <2>3. CASE Fault("short") /\ wav' = [wav EXCEPT ![ram.file].size = @ + 1]
      BY <1>1, <1>3, <1>5, <2>1, <2>3 DEF SameSegment
    <2> QED
      BY <1>5, <2>2, <2>3
  <1> QED
    BY <1>4, <1>5 DEF WriteChunk

LEMMA SyncedIs ==
    ASSUME Types, ram.file \in Ids, ram.pcm <= MaxBytes,
           wav' = [wav EXCEPT ![ram.file] = Synced(@)]
    PROVE  /\ wav' \in [Ids -> WavFile] /\ OnlyWav(ram.file) /\ SameFile(ram.file)
           /\ wav'[ram.file].declared = ram.pcm
           /\ wav'[ram.file].size = wav[ram.file].size
           /\ wav'[ram.file].durable = wav[ram.file].size
           /\ wav'[ram.file].head = wav[ram.file].head
  <1>1. wav \in [Ids -> WavFile] /\ ram.pcm \in 0..MaxBytes
    BY BoundsAssumption DEF Types, Ram
  <1> QED
    BY <1>1, ZenonT(30) DEF Synced, WavFile, OnlyWav, SameFile

LEMMA FlushIs ==
    ASSUME FileInv, Flush
    PROVE  /\ ram.file \in Ids
           /\ \/ /\ wav' \in [Ids -> WavFile] /\ OnlyWav(ram.file) /\ SameFile(ram.file)
                 /\ wav'[ram.file].declared = ram.pcm
                 /\ wav'[ram.file].size = wav[ram.file].size
                 /\ wav'[ram.file].durable = wav[ram.file].size
                 /\ wav'[ram.file].head = wav[ram.file].head
                 /\ pc' = "rec" /\ ram' = ram /\ err' = err /\ NoFault
              \/ /\ wav' = wav /\ Fault("io") /\ err' = "error" /\ pc' = "finalize"
                 /\ ram' \in Ram /\ SameSegment /\ SameScan /\ ram'.job = "stop"
  <1>1. ram.file \in Ids /\ ram \in Ram /\ wav[ram.file].size = ram.pcm
    BY DEF FileInv, Types, Flush, At, Located, Counted
  <1>2. ram.pcm <= MaxBytes
    BY <1>1, BoundsAssumption DEF FileInv, Types, WavFile
  <1>3. CASE /\ wav' = [wav EXCEPT ![ram.file] = Synced(@)]
             /\ UNCHANGED ram /\ Continue("rec") /\ NoFault
    BY <1>1, <1>2, <1>3, SyncedIs DEF FileInv, Continue, Go
  <1>4. CASE Fault("io") /\ err' = "error" /\ Leave("stop") /\ UNCHANGED wav
    BY <1>1, <1>4, LeaveIs
  <1> QED
    BY <1>3, <1>4 DEF Flush

LEMMA SurvivesIs ==
    ASSUME NEW w \in WavFile, w.durable <= w.size, NEW v \in Survives(w)
    PROVE  /\ v \in WavFile /\ v.place = w.place /\ v.tag = w.tag /\ v.head = w.head
           /\ v.declared = w.declared /\ v.durable = v.size
           /\ w.durable <= v.size /\ v.size <= w.size
  <1>1. PICK n \in w.durable..w.size : v = [w EXCEPT !.size = n, !.durable = n]
    BY DEF Survives
  <1>2. n \in 0..MaxBytes /\ w.durable <= n /\ n <= w.size
    BY BoundsAssumption DEF WavFile
  <1> QED
    BY <1>1, <1>2 DEF WavFile

LEMMA CloseSinkIs ==
    ASSUME FileInv, CloseSink
    PROVE  /\ ram.file \in Ids /\ wav[ram.file].place = "part"
           /\ wav' \in [Ids -> WavFile] /\ OnlyWav(ram.file) /\ SameFile(ram.file)
           /\ wav'[ram.file].head = wav[ram.file].head
           /\ \/ /\ wav'[ram.file].declared = ram.pcm
                 /\ wav'[ram.file].size = wav[ram.file].size
                 /\ wav'[ram.file].durable = wav[ram.file].size
                 /\ pc' = "rename" /\ ram' = ram /\ err' = err /\ NoFault
              \/ /\ wav'[ram.file].durable = wav'[ram.file].size
                 /\ wav'[ram.file].size >= wav[ram.file].durable
                 /\ wav'[ram.file].declared = wav[ram.file].declared
                 /\ Failed /\ Fault("io")
  <1>1. /\ ram.file \in Ids /\ ram \in Ram /\ wav \in [Ids -> WavFile]
        /\ wav[ram.file].durable <= wav[ram.file].size
        /\ Whole(wav[ram.file].size) = ram.pcm /\ wav[ram.file].place = "part"
    BY DEF FileInv, Types, CloseSink, At, Located, Counted, ClosePoints
  <1>2. ram.pcm <= MaxBytes
    <2>1. wav[ram.file].size \in Nat /\ wav[ram.file].size <= MaxBytes /\ MaxBytes \in Nat
      BY <1>1, BoundsAssumption DEF WavFile
    <2>2. Whole(wav[ram.file].size) \in Nat /\ Whole(wav[ram.file].size) <= wav[ram.file].size
      BY <2>1, WholeBounds
    <2> QED
      BY <1>1, <2>1, <2>2
  <1>3. CASE /\ wav' = [wav EXCEPT ![ram.file] = Synced(@)]
             /\ UNCHANGED ram /\ Continue("rename") /\ NoFault
    BY <1>1, <1>2, <1>3, SyncedIs DEF FileInv, Continue, Go
  <1>4. CASE /\ Fault("io") /\ JobFails
             /\ \E w \in Survives(wav[ram.file]) : wav' = [wav EXCEPT ![ram.file] = w]
    <2>1. PICK w \in Survives(wav[ram.file]) : wav' = [wav EXCEPT ![ram.file] = w]
      BY <1>4
    <2>2. wav[ram.file] \in WavFile
      BY <1>1
    <2>3. /\ w \in WavFile /\ w.place = wav[ram.file].place /\ w.tag = wav[ram.file].tag
          /\ w.head = wav[ram.file].head /\ w.declared = wav[ram.file].declared
          /\ w.durable = w.size /\ wav[ram.file].durable <= w.size
      BY <1>1, <2>2, SurvivesIs
    <2>4. wav' \in [Ids -> WavFile] /\ OnlyWav(ram.file) /\ wav'[ram.file] = w
      BY <1>1, <2>1, <2>3 DEF OnlyWav
    <2>5. wav'[ram.file].size >= wav[ram.file].durable
      BY <2>2, <2>3, <2>4, BoundsAssumption DEF WavFile
    <2> QED
      BY <1>1, <1>4, <2>3, <2>4, <2>5, JobFailsIs DEF SameFile
  <1> QED
    BY <1>3, <1>4 DEF CloseSink

LEMMA RenamePartIs ==
    ASSUME FileInv, RenamePart
    PROVE  /\ ram.file \in Ids /\ wav[ram.file].place = "part"
           /\ \/ wav' = wav /\ Failed /\ Fault("io")
              \/ /\ wav' \in [Ids -> WavFile] /\ OnlyWav(ram.file) /\ SameBytes(ram.file)
                 /\ wav'[ram.file].place = "wav" /\ wav'[ram.file].tag = wav[ram.file].tag
                 /\ ram' \in Ram /\ SameScan /\ SameJob /\ ram'.seg = ram.seg
                 /\ ram'.file = ram.file /\ ram'.pcm = ram.pcm
                 /\ ram'.called = ram.called /\ ram'.fin
                 /\ pc' = "record" /\ err' = err /\ NoFault
  <1>1. /\ ram.file \in Ids /\ ram \in Ram /\ wav \in [Ids -> WavFile]
        /\ wav[ram.file].place = "part"
    BY DEF FileInv, Types, RenamePart, At, Located, Counted, ClosePoints
  <1>2. CASE /\ wav' = [wav EXCEPT ![ram.file].place = "wav"]
             /\ ram' = [ram EXCEPT !.fin = TRUE] /\ Continue("record") /\ NoFault
    <2>1. /\ ram' \in Ram /\ SameScan /\ SameJob /\ ram'.seg = ram.seg
          /\ ram'.file = ram.file /\ ram'.pcm = ram.pcm
          /\ ram'.called = ram.called /\ ram'.fin
      BY <1>1, <1>2 DEF Ram, SameScan, SameJob
    <2> QED
      BY <1>1, <1>2, <2>1, PlaceIs DEF Continue, Go
  <1>3. CASE Fault("io") /\ JobFails /\ UNCHANGED wav
    BY <1>1, <1>3, JobFailsIs
  <1> QED
    BY <1>2, <1>3 DEF RenamePart

(* A power cut costs the file that is being written at most what was not    *)
(* synced.                                                                  *)
LEMMA PowerCutIs ==
    ASSUME FileInv, PowerCut
    PROVE  /\ wav' \in [Ids -> WavFile] /\ faults' = faults /\ edits' = edits
           /\ crashes' = crashes + 1
           /\ \A i \in Ids :
                  /\ SameFile(i) /\ wav'[i].head = wav[i].head
                  /\ wav'[i].declared = wav[i].declared
                  /\ wav'[i].durable <= wav'[i].size
                  /\ wav[i].durable <= wav'[i].size /\ wav'[i].size <= wav[i].size
                  /\ wav'[i] = wav[i] \/ (i = ram.file /\ wav'[i].durable = wav'[i].size)
  <1>1. wav \in [Ids -> WavFile] /\ \A i \in Ids : wav[i].durable <= wav[i].size
    BY DEF FileInv, Types, Counted
  <1>2. \A i \in Ids : wav[i].durable \in Nat /\ wav[i].size \in Nat
    BY <1>1, BoundsAssumption DEF WavFile
  <1>3. CASE UNCHANGED wav
    BY <1>1, <1>2, <1>3 DEF PowerCut, SameFile
  <1>4. ASSUME ram.file \in Ids, NEW w \in Survives(wav[ram.file]),
               wav' = [wav EXCEPT ![ram.file] = w]
        PROVE  /\ wav' \in [Ids -> WavFile]
               /\ \A i \in Ids :
                      /\ SameFile(i) /\ wav'[i].head = wav[i].head
                      /\ wav'[i].declared = wav[i].declared
                      /\ wav'[i].durable <= wav'[i].size
                      /\ wav[i].durable <= wav'[i].size /\ wav'[i].size <= wav[i].size
                      /\ wav'[i] = wav[i] \/ (i = ram.file /\ wav'[i].durable = wav'[i].size)
    <2>1. wav[ram.file] \in WavFile
      BY <1>1, <1>4
    <2>2. /\ w \in WavFile /\ w.place = wav[ram.file].place /\ w.tag = wav[ram.file].tag
          /\ w.head = wav[ram.file].head /\ w.declared = wav[ram.file].declared
          /\ w.durable = w.size /\ wav[ram.file].durable <= w.size
          /\ w.size <= wav[ram.file].size
      BY <1>1, <1>4, <2>1, SurvivesIs
    <2>3. w.size \in Nat
      BY <2>2, BoundsAssumption DEF WavFile
    <2>4. wav' \in [Ids -> WavFile] /\ wav'[ram.file] = w
      BY <1>1, <1>4, <2>2
    <2>5. \A i \in Ids : i # ram.file => wav'[i] = wav[i]
      BY <1>1, <1>4
    <2> QED
      BY <1>1, <1>2, <2>2, <2>3, <2>4, <2>5 DEF SameFile
  <1> QED
    BY <1>3, <1>4 DEF PowerCut

LEMMA HostChangesIs ==
    ASSUME FileInv, NEW i \in Ids, HostChanges(i)
    PROVE  /\ wav' \in [Ids -> WavFile] /\ OnlyWav(i) /\ wav[i].place = "wav"
           /\ \/ wav'[i] = NoWav
              \/ /\ SameBytes(i) /\ wav'[i].place = "wav" /\ wav'[i].tag = 1
                 /\ wav[i].tag = 0
           /\ edits' = edits + 1 /\ crashes' = crashes /\ faults' = faults
  <1>1. wav \in [Ids -> WavFile] /\ NoWav \in WavFile
    BY BoundsAssumption DEF FileInv, Types, WavFile, NoWav
  <1>2. CASE wav' = [wav EXCEPT ![i] = NoWav]
    BY <1>1, <1>2 DEF HostChanges, OnlyWav
  <1>3. CASE wav[i].tag = 0 /\ wav' = [wav EXCEPT ![i].tag = 1]
    BY <1>1, <1>3 DEF HostChanges, OnlyWav, WavFile, SameBytes
  <1> QED
    BY <1>2, <1>3 DEF HostChanges

(* The manifest's files change by a rename or a write, one at a time.       *)
ManStep ==
    \/ man' = man
    \/ \E f, g \in Files : f # g /\ man' = Moved(f, g)
    \/ \E f \in Files : \E d \in {Absent, Torn, Doc(<<>>), Doc(ram.cand)} : man' = With(f, d)

LEMMA ManSteps ==
    ASSUME Next
    PROVE  ManStep
  <1>1. CASE PowerOn \/ PowerCut \/ \E i \in Ids : HostChanges(i)
    BY <1>1, SMTT(30) DEF PowerOn, PowerCut, HostChanges, card, ManStep
  <1>2. CASE Boot
    BY <1>2 DEF Boot, ManStep, Files, EnsureDeviceJson, WriteDeviceJson, RecoverProbe,
        RecoverRestore, RecoverRetire, RecoverSettle, RecoverPromote, CreateEmpty,
        WriteEmpty, RenameEmpty, StartScan, ScanNext, Isolate, RebuildHeader, TrimTail,
        NameRecovered, CountBefore, EnsureOneWav, CountAfter, Same, card, WavOnly
  <1>3. CASE Upsert
    BY <1>3 DEF Upsert, ManStep, Files, UpsertRead, RetireBackup, OpenTmp, WriteTmp,
        PublishTmp, SetAside, Install, Rollback, Verify
  <1>4. CASE Record
    BY <1>4 DEF Record, ManStep, NewSegment, MakeDateDir, Admit, OpenPart, WriteHeader,
        WriteChunk, Flush, Rotate, StopRequest, FinalizeOnce, CloseSink, RenamePart,
        RecordWav, card, WavOnly
  <1> QED
    BY <1>1, <1>2, <1>3, <1>4 DEF Next, Writer

LEMMA ManTypes ==
    ASSUME Types, ManStep
    PROVE  /\ man' \in [Files -> Snapshots]
           /\ \A f \in Files : man'[f].kind # "doc" => man'[f].recs = <<>>
           /\ \A f \in Files : Len(man'[f].recs) <= Ceiling
  <1>1. /\ man \in [Files -> Snapshots] /\ ram.cand \in Seq(Entries)
        /\ \A f \in Files : man[f].kind # "doc" => man[f].recs = <<>>
        /\ \A f \in Files : Len(man[f].recs) <= Ceiling
        /\ Len(ram.cand) <= Ceiling /\ Ceiling \in Nat
    BY BoundsAssumption DEF Types, Ram
  <1>2. Len(<<>>) <= Ceiling
    BY <1>1
  <1>3. CASE \E f, g \in Files : f # g /\ man' = Moved(f, g)
    BY <1>1, <1>2, <1>3, MovedIs, DocIs
  <1>4. CASE \E f \in Files : \E d \in {Absent, Torn, Doc(<<>>), Doc(ram.cand)} :
                 man' = With(f, d)
    <2>1. PICK f \in Files, d \in {Absent, Torn, Doc(<<>>), Doc(ram.cand)} : man' = With(f, d)
      BY <1>4
    <2>2. d \in Snapshots /\ (d.kind # "doc" => d.recs = <<>>) /\ Len(d.recs) <= Ceiling
      BY <1>1, <1>2, DocIs, ZenonT(30)
    <2> QED
      BY <1>1, <2>1, <2>2, WithIs
  <1> QED
    BY <1>1, <1>3, <1>4 DEF ManStep

LEMMA AppendedType ==
    ASSUME Types, Located, pc \in UpsertPoints
    PROVE  /\ Appended \in Seq(Entries)
           /\ Len(Appended) = Len(man["final"].recs) + 1
           /\ Appended[Len(Appended)] = Entry
           /\ \A k \in 1..Len(man["final"].recs) : Appended[k] = man["final"].recs[k]
  <1>1. man["final"].recs \in Seq(Entries)
    BY DEF Types, Files, Snapshots
  <1> QED
    BY <1>1, EntryType DEF Appended

LEMMA RamTypes ==
    ASSUME FileInv, Next
    PROVE  ram' \in Ram /\ Len(ram'.cand) <= Ceiling
  <1>1. ram \in Ram /\ Len(ram.cand) <= Ceiling /\ man \in [Files -> Snapshots]
        /\ used \in 0..MaxSeg /\ Ceiling \in Nat
    BY BoundsAssumption DEF FileInv, Types
  <1>2. CASE PowerOn \/ PowerCut
    BY <1>1, <1>2, PowerIs
  <1>3. CASE \E i \in Ids : HostChanges(i)
    BY <1>1, <1>3 DEF HostChanges
  <1>4. CASE Boot
    <2>1. CASE \/ EnsureDeviceJson \/ WriteDeviceJson \/ RecoverProbe \/ RecoverRestore
               \/ RecoverRetire \/ RecoverSettle \/ RecoverPromote \/ CreateEmpty
               \/ WriteEmpty \/ RenameEmpty \/ TrimTail \/ CountAfter
      BY <1>1, <2>1 DEF EnsureDeviceJson, WriteDeviceJson, RecoverProbe, RecoverRestore,
          RecoverRetire, RecoverSettle, RecoverPromote, CreateEmpty, WriteEmpty,
          RenameEmpty, TrimTail, CountAfter, Same, ManOnly
    <2>2. CASE StartScan \/ ScanNext \/ EnsureOneWav
      BY <1>1, <2>2, StartScanIs, ScanNextIs, EnsureOneWavIs DEF SameJob
    <2>3. CASE Isolate \/ NameRecovered
      BY <1>1, <2>3, RestIs DEF Isolate, NameRecovered, SameJob
    <2>4. CASE RebuildHeader
      BY <1>1, <2>4, RebuildHeaderIs, RestIs DEF SameJob
    <2>5. CASE CountBefore
      BY <1>1, <2>5, CountBeforeIs
    <2> QED
      BY <1>4, <2>1, <2>2, <2>3, <2>4, <2>5 DEF Boot
  <1>5. CASE Upsert
    <2>1. CASE UpsertRead
      <3>1. pc \in UpsertPoints /\ Types /\ Located
        BY <2>1 DEF UpsertRead, At, UpsertPoints, FileInv
      <3>2. Appended \in Seq(Entries) /\ Len(Appended) = Len(man["final"].recs) + 1
        BY <3>1, AppendedType
      <3>3. Len(man["final"].recs) \in Nat
        BY <1>1 DEF Files, Snapshots
      <3> QED
        BY <1>1, <2>1, <3>2, <3>3, UpsertReadIs DEF Upserted, Failed, SameJob
    <2>2. CASE \/ RetireBackup \/ OpenTmp \/ WriteTmp \/ PublishTmp \/ SetAside
               \/ Install \/ Rollback
      BY <1>1, <2>2, JobFailsIs DEF RetireBackup, OpenTmp, WriteTmp, PublishTmp, SetAside,
          Install, Rollback, Failed
    <2>3. CASE Verify
      BY <1>1, <2>3, JobFailsIs, UpsertDoneIs DEF Verify, Failed, Upserted, SameJob
    <2> QED
      BY <1>5, <2>1, <2>2, <2>3 DEF Upsert
  <1>6. CASE Record
    <2>1. CASE NewSegment \/ FinalizeOnce
      BY <1>1, <2>1, NewSegmentIs, FinalizeOnceIs DEF Failed, SameJob
    <2>2. CASE MakeDateDir \/ Admit \/ RecordWav
      BY <1>1, <2>2, JobFailsIs DEF MakeDateDir, Admit, RecordWav, Failed
    <2>3. CASE OpenPart \/ CloseSink \/ RenamePart
      BY <1>1, <2>3, OpenPartIs, CloseSinkIs, RenamePartIs DEF Failed, SameJob
    <2>4. CASE WriteHeader
      <3>1. ram'.cand = ram.cand
        BY <1>1, <2>4, JobFailsIs DEF WriteHeader, Failed, Ram
      <3> QED
        BY <1>1, <2>4, <3>1, WriteHeaderIs DEF Failed
    <2>5. CASE WriteChunk
      <3>1. ram'.cand = ram.cand
        BY <1>1, <2>5, LeaveIs DEF WriteChunk, Ram
      <3> QED
        BY <1>1, <2>5, <3>1, WriteChunkIs
    <2>6. CASE Flush \/ Rotate \/ StopRequest
      BY <1>1, <2>6, LeaveIs DEF Flush, Rotate, StopRequest
    <2> QED
      BY <1>6, <2>1, <2>2, <2>3, <2>4, <2>5, <2>6 DEF Record
  <1> QED
    BY <1>2, <1>3, <1>4, <1>5, <1>6 DEF Next, Writer

LEMMA WavTypes ==
    ASSUME FileInv, Next
    PROVE  wav' \in [Ids -> WavFile]
  <1>1. wav \in [Ids -> WavFile]
    BY DEF FileInv, Types
  <1>2. CASE PowerCut \/ \E i \in Ids : HostChanges(i)
    BY <1>2, PowerCutIs, HostChangesIs
  <1>3. CASE PowerOn \/ Upsert
    BY <1>1, <1>3 DEF PowerOn, card, Upsert, UpsertRead, RetireBackup, OpenTmp, WriteTmp,
        PublishTmp, SetAside, Install, Rollback, Verify, KeepOthers
  <1>4. CASE Boot
    <2>1. CASE Isolate \/ RebuildHeader \/ TrimTail \/ NameRecovered
      BY <1>1, <2>1, IsolateIs, RebuildHeaderIs, TrimTailIs, NameRecoveredIs
    <2> QED
      BY <1>1, <1>4, <2>1 DEF Boot, EnsureDeviceJson, WriteDeviceJson, RecoverProbe,
          RecoverRestore, RecoverRetire, RecoverSettle, RecoverPromote, CreateEmpty,
          WriteEmpty, RenameEmpty, StartScan, ScanNext, CountBefore, EnsureOneWav,
          CountAfter, Same, ManOnly, card
  <1>5. CASE Record
    <2>1. CASE OpenPart \/ WriteHeader \/ WriteChunk \/ Flush \/ CloseSink \/ RenamePart
      BY <1>1, <2>1, OpenPartIs, WriteHeaderIs, WriteChunkIs, FlushIs, CloseSinkIs,
          RenamePartIs
    <2> QED
      BY <1>1, <1>5, <2>1 DEF Record, NewSegment, MakeDateDir, Admit, Rotate, StopRequest,
          FinalizeOnce, RecordWav, card
  <1> QED
    BY <1>2, <1>3, <1>4, <1>5 DEF Next, Writer

LEMMA PlainTypes ==
    ASSUME FileInv, Next
    PROVE  /\ device' \in {"absent", "torn", "ok", "fork"} /\ dated' \in BOOLEAN
           /\ used' \in 0..MaxSeg /\ pc' \in Points /\ err' \in {"none", "error", "spent"}
           /\ crashes' \in 0..MaxCrash /\ faults' \in 0..MaxFault /\ edits' \in 0..MaxHost
  <1>1. /\ device \in {"absent", "torn", "ok", "fork"} /\ dated \in BOOLEAN
        /\ used \in 0..MaxSeg /\ pc \in Points /\ err \in {"none", "error", "spent"}
        /\ crashes \in 0..MaxCrash /\ faults \in 0..MaxFault /\ edits \in 0..MaxHost
        /\ {MaxSeg, MaxCrash, MaxFault, MaxHost} \subseteq Nat
    BY BoundsAssumption DEF FileInv, Types
  <1>2. CASE PowerOn \/ PowerCut
    <2>1. crashes' \in 0..MaxCrash /\ faults' = faults /\ edits' = edits
      BY <1>1, <1>2 DEF PowerOn, PowerCut, NoFault, counts
    <2>2. device' = device /\ dated' = dated /\ used' = used /\ err' = "none"
      BY <1>2 DEF PowerOn, PowerCut, card
    <2>3. pc' \in Points
      BY <1>2 DEF PowerOn, PowerCut, Go, Points, BootPoints
    <2> QED
      BY <1>1, <2>1, <2>2, <2>3
  <1>3. CASE \E i \in Ids : HostChanges(i)
    BY <1>1, <1>3 DEF HostChanges
  <1>4. ASSUME Writer
        PROVE  /\ device' \in {"absent", "torn", "ok", "fork"} /\ dated' \in BOOLEAN
               /\ used' \in 0..MaxSeg
    <2>1. CASE EnsureDeviceJson \/ WriteDeviceJson
      BY <1>1, <2>1 DEF EnsureDeviceJson, WriteDeviceJson
    <2>2. CASE NewSegment
      BY <1>1, <2>2, NewSegmentIs DEF NewSegment, card, FileInv, Types
    <2>3. CASE MakeDateDir
      BY <1>1, <2>3 DEF MakeDateDir
    <2>4. \/ EnsureDeviceJson \/ WriteDeviceJson \/ NewSegment \/ MakeDateDir
          \/ UNCHANGED <<device, dated, used>>
      BY <1>4 DEF Writer, Boot, Upsert, Record, RecoverProbe, RecoverRestore,
        RecoverRetire, RecoverSettle, RecoverPromote, CreateEmpty, WriteEmpty, RenameEmpty,
        StartScan, ScanNext, Isolate, RebuildHeader, TrimTail, NameRecovered, CountBefore,
        EnsureOneWav, CountAfter, UpsertRead, RetireBackup, OpenTmp, WriteTmp, PublishTmp,
        SetAside, Install, Rollback, Verify, Admit, OpenPart, WriteHeader, WriteChunk,
        Flush, Rotate, StopRequest, FinalizeOnce, CloseSink, RenamePart, RecordWav, Same,
        ManOnly, WavOnly, KeepOthers, card
    <2> QED
      BY <1>1, <2>1, <2>2, <2>3, <2>4
  <1>5. ASSUME Writer
        PROVE  /\ crashes' \in 0..MaxCrash /\ faults' \in 0..MaxFault
               /\ edits' \in 0..MaxHost
    <2>1. NoFault \/ \E k \in {"io", "open", "short", "truncate", "full"} : Fault(k)
      BY <1>5, ZenonT(30) DEF Writer, Boot, Upsert, Record, EnsureDeviceJson, WriteDeviceJson,
        RecoverProbe, RecoverRestore, RecoverRetire, RecoverSettle, RecoverPromote,
        CreateEmpty, WriteEmpty, RenameEmpty, StartScan, ScanNext, Isolate, RebuildHeader,
        TrimTail, NameRecovered, CountBefore, EnsureOneWav, CountAfter, UpsertRead,
        RetireBackup, OpenTmp, WriteTmp, PublishTmp, SetAside, Install, Rollback, Verify,
        NewSegment, MakeDateDir, Admit, OpenPart, WriteHeader, WriteChunk, Flush, Rotate,
        StopRequest, FinalizeOnce, CloseSink, RenamePart, RecordWav
    <2> QED
      BY <1>1, <2>1, SMTT(30) DEF NoFault, Fault, counts
  <1>6. ASSUME Boot PROVE pc' \in Points /\ err' \in {"none", "error", "spent"}
    BY <1>1, <1>6 DEF Boot, EnsureDeviceJson, WriteDeviceJson,
        RecoverProbe, RecoverStep, RecoverRestore, RecoverRetire, RecoverSettle,
        RecoverPromote, CreateEmpty, WriteEmpty, RenameEmpty, StartScan, ScanNext, Isolate,
        RebuildHeader, TrimTail, NameRecovered, CountBefore, EnsureOneWav, CountAfter,
        Continue, Halt, Go, Points, BootPoints, ScanPoints, UpsertPoints
  <1>7. ASSUME Upsert PROVE pc' \in Points /\ err' \in {"none", "error", "spent"}
    BY <1>1, <1>7 DEF Upsert, UpsertRead, RetireBackup, OpenTmp, WriteTmp,
        PublishTmp, SetAside, Install, Rollback, Verify, UpsertDone, JobFails, Continue,
        Halt, Go, Points, BootPoints, UpsertPoints, ClosePoints
  <1>8. ASSUME Record PROVE pc' \in Points /\ err' \in {"none", "error", "spent"}
    BY <1>1, <1>8 DEF Record, NewSegment, MakeDateDir, Admit, OpenPart,
        WriteHeader, WriteChunk, Flush, Rotate, StopRequest, FinalizeOnce, CloseSink,
        RenamePart, RecordWav, JobFails, Leave, Continue, Go, Points, UpsertPoints,
        OpenPoints, ClosePoints
  <1> QED
    BY <1>2, <1>3, <1>4, <1>5, <1>6, <1>7, <1>8 DEF Next, Writer

LEMMA TypesKept ==
    ASSUME FileInv, Next
    PROVE  Types'
  BY ManSteps, ManTypes, RamTypes, WavTypes, PlainTypes DEF FileInv, Types

-----------------------------------------------------------------------------
(* Located: a failed upsert, and a step within one job.                     *)
LEMMA FailedLocated ==
    ASSUME Located, Failed, used' = used
    PROVE  Located'
  <1>1. CASE ram.job = "rotate"
    BY <1>1 DEF Located, Failed, SameSegment, SameScan, BootPoints, ScanPoints, UpsertPoints,
        OpenPoints, ClosePoints
  <1>2. CASE ram.job # "rotate"
    BY <1>2 DEF Located, Failed, SameSegment, SameScan, BootPoints, ScanPoints, UpsertPoints,
        OpenPoints, ClosePoints
  <1> QED
    BY <1>1, <1>2

SamePlace == /\ ram'.job = ram.job /\ ram'.file = ram.file /\ ram'.seg = ram.seg
             /\ ram'.cur = ram.cur /\ used' = used

LEMMA UpsertedLocated ==
    ASSUME Located, Upserted, pc \in UpsertPoints, used' = used
    PROVE  Located'
  BY DEF Located, Upserted, SameSegment, SameJob, BootPoints, ScanPoints, UpsertPoints,
      OpenPoints, ClosePoints

LEMMA BootLocated ==
    ASSUME FileInv, Boot
    PROVE  Located'
  <1> USE DEF BootPoints, ScanPoints, UpsertPoints, OpenPoints, ClosePoints
  <1>1. ram \in Ram /\ man \in [Files -> Snapshots] /\ Located
    BY DEF FileInv, Types
  <1>2. CASE \/ EnsureDeviceJson \/ WriteDeviceJson \/ RecoverProbe \/ RecoverRestore
             \/ RecoverRetire \/ RecoverSettle \/ RecoverPromote \/ CreateEmpty
             \/ WriteEmpty \/ RenameEmpty \/ CountAfter
    <2>1. /\ pc \in BootPoints /\ ram' = ram /\ used' = used
          /\ pc' \in {"probe", "deviceWrite", "restore", "retire", "settle", "promote",
                      "gate", "emptyWrite", "emptyRename", "quarantine", "segment", "done"}
      BY <1>2 DEF EnsureDeviceJson, WriteDeviceJson, RecoverProbe, RecoverStep,
          RecoverRestore, RecoverRetire, RecoverSettle, RecoverPromote, CreateEmpty,
          WriteEmpty, RenameEmpty, CountAfter, At, Continue, Halt, Go, Same, ManOnly
    <2> QED
      BY <1>1, <2>1 DEF Located
  <1>3. CASE StartScan
    <2>1. pc = "quarantine" /\ used' = used
      BY <1>3 DEF StartScan, At
    <2> QED
      BY <1>1, <1>3, <2>1, StartScanIs DEF Located, SameSegment, SameJob
  <1>4. CASE ScanNext
    <2>1. pc = "scan" /\ used' = used /\ ram.todo \subseteq Ids
      BY <1>1, <1>4 DEF ScanNext, At, Ram
    <2>2. pc' \in {"count", "rebuild", "isolate"}
      BY <1>1, <1>4, ScanNextIs
    <2>3. ram'.job = ram.job /\ ram'.file = ram.file /\ ram'.seg = ram.seg
      BY <1>1, <1>4, ScanNextIs DEF SameSegment, SameJob
    <2>4. pc' # "count" => ram'.cur \in Ids
      BY <1>1, <1>4, <2>1, ScanNextIs
    <2> QED
      BY <1>1, <2>1, <2>2, <2>3, <2>4 DEF Located
  <1>5. CASE Isolate \/ NameRecovered
    <2>1. pc \in ScanPoints /\ pc' = "scan" /\ used' = used
      BY <1>5 DEF Isolate, NameRecovered, At, Continue, Go, WavOnly
    <2>2. ram' = Rest
      BY <1>5 DEF Isolate, NameRecovered
    <2> QED
      BY <1>1, <2>1, <2>2, RestIs DEF Located, SameSegment, SameJob
  <1>6. CASE RebuildHeader \/ TrimTail
    <2>1. pc \in ScanPoints /\ used' = used /\ pc' \in {"scan", "trim", "name"}
      BY <1>6 DEF RebuildHeader, TrimTail, At, Continue, Go, WavOnly
    <2>2. ram' = Rest \/ ram' = ram
      BY <1>6 DEF RebuildHeader, TrimTail
    <2> QED
      BY <1>1, <2>1, <2>2, RestIs DEF Located, SameSegment, SameJob
  <1>7. CASE CountBefore
    <2>1. pc = "count" /\ used' = used
      BY <1>7 DEF CountBefore, At
    <2> QED
      BY <1>1, <1>7, <2>1, CountBeforeIs DEF Located, SameSegment
  <1>8. CASE EnsureOneWav
    <2>1. pc = "sync" /\ used' = used /\ ram.todo \subseteq Ids
      BY <1>1, <1>8 DEF EnsureOneWav, At, Ram
    <2>2. pc' \in {"tally", "upsert", "done"}
      BY <1>1, <1>8, EnsureOneWavIs
    <2>3. ram'.job = ram.job /\ ram'.file = ram.file /\ ram'.seg = ram.seg
      BY <1>1, <1>8, EnsureOneWavIs DEF SameSegment, SameJob
    <2>4. pc' = "upsert" => ram'.cur \in Ids
      BY <1>1, <1>8, <2>1, EnsureOneWavIs
    <2> QED
      BY <1>1, <2>1, <2>2, <2>3, <2>4 DEF Located
  <1> QED
    BY <1>2, <1>3, <1>4, <1>5, <1>6, <1>7, <1>8 DEF Boot

LEMMA UpsertLocated ==
    ASSUME FileInv, Upsert
    PROVE  Located'
  <1>1. ram \in Ram /\ Located /\ used' = used /\ pc \in UpsertPoints
    BY DEF FileInv, Types, Upsert, UpsertRead, RetireBackup, OpenTmp, WriteTmp, PublishTmp,
        SetAside, Install, Rollback, Verify, KeepOthers, At, UpsertPoints
  <1>2. CASE Failed \/ Upserted
    BY <1>1, <1>2, FailedLocated, UpsertedLocated
  <1>3. CASE SameSegment /\ SameScan /\ ram'.job = ram.job /\ pc' \in UpsertPoints
    <2>1. pc' \notin BootPoints \cup OpenPoints \cup ClosePoints \cup {"segment", "rec"}
      BY <1>3 DEF BootPoints, ScanPoints, UpsertPoints, OpenPoints, ClosePoints
    <2> QED
      BY <1>1, <1>3, <2>1 DEF Located, SameSegment, SameScan, ScanPoints, BootPoints
  <1>4. CASE UpsertRead
    <2>1. Appended \in Seq(Entries)
      BY <1>1, AppendedType DEF FileInv
    <2> QED
      BY <1>1, <1>2, <1>3, <1>4, <2>1, UpsertReadIs DEF UpsertPoints
  <1>5. CASE \/ RetireBackup \/ OpenTmp \/ WriteTmp \/ PublishTmp \/ SetAside
             \/ Install \/ Rollback \/ Verify
    <2>1. Failed \/ Upserted \/ (ram' = ram /\ pc' \in UpsertPoints)
      BY <1>1, <1>5, JobFailsIs, UpsertDoneIs DEF RetireBackup, OpenTmp, WriteTmp,
          PublishTmp, SetAside, Install, Rollback, Verify, Continue, Go, UpsertPoints
    <2> QED
      BY <1>2, <1>3, <2>1 DEF SameSegment, SameScan
  <1> QED
    BY <1>4, <1>5 DEF Upsert

LEMMA RecordLocated ==
    ASSUME FileInv, Record
    PROVE  Located'
  <1> USE DEF BootPoints, ScanPoints, UpsertPoints, OpenPoints, ClosePoints
  <1>1. ram \in Ram /\ Located /\ used \in 0..MaxSeg
    BY DEF FileInv, Types
  <1>2. CASE NewSegment
    <2>1. pc = "segment"
      BY <1>2 DEF NewSegment, At
    <2>2. MaxSeg \in Nat
      BY BoundsAssumption
    <2> QED
      BY <1>1, <1>2, <2>1, <2>2, NewSegmentIs DEF Located, SameScan, Ids
  <1>3. CASE MakeDateDir \/ Admit \/ RecordWav
    <2>1. pc \in {"mkdir", "admit", "record"} /\ used' = used
      BY <1>3 DEF MakeDateDir, Admit, RecordWav, At
    <2>2. \/ Failed
          \/ /\ ram' = ram
             /\ \/ pc \in OpenPoints /\ pc' \in OpenPoints
                \/ pc = "record" /\ pc' = "upsert"
      BY <1>1, <1>3, JobFailsIs DEF MakeDateDir, Admit, RecordWav, At, Continue, Go
    <2> QED
      BY <1>1, <2>1, <2>2, FailedLocated DEF Located
  <1>4. CASE OpenPart
    <2>1. pc = "open" /\ used' = used
      BY <1>4 DEF OpenPart, At, WavOnly
    <2> QED
      BY <1>1, <1>4, <2>1, OpenPartIs, FailedLocated DEF Located
  <1>5. CASE WriteHeader
    <2>1. pc = "header" /\ used' = used
      BY <1>5 DEF WriteHeader, At, WavOnly
    <2>2. Failed \/ (/\ pc' = "rec" /\ ram'.job = "record" /\ ram'.seg = ram.seg
                     /\ ram'.file = ram.seg)
      BY <1>5, WriteHeaderIs
    <2> QED
      BY <1>1, <2>1, <2>2, FailedLocated DEF Located
  <1>6. CASE WriteChunk \/ Flush \/ Rotate \/ StopRequest
    <2>1. pc = "rec" /\ used' = used
      BY <1>6 DEF WriteChunk, Flush, Rotate, StopRequest, At, WavOnly
    <2>2. /\ ram'.seg = ram.seg /\ ram'.file = ram.file
          /\ \/ pc' = "rec" /\ ram'.job = ram.job
             \/ pc' = "finalize" /\ ram'.job \in {"rotate", "stop"}
      BY <1>1, <1>6, WriteChunkIs, FlushIs, LeaveIs DEF Rotate, StopRequest, SameSegment
    <2> QED
      BY <1>1, <2>1, <2>2 DEF Located
  <1>7. CASE FinalizeOnce \/ CloseSink \/ RenamePart
    <2>1. pc \in ClosePoints /\ used' = used
      BY <1>7 DEF FinalizeOnce, CloseSink, RenamePart, At, WavOnly
    <2>2. \/ Failed
          \/ /\ ram'.seg = ram.seg /\ ram'.file = ram.file /\ ram'.job = ram.job
             /\ pc' \in ClosePoints
      BY <1>1, <1>7, FinalizeOnceIs, CloseSinkIs, RenamePartIs DEF SameJob
    <2> QED
      BY <1>1, <2>1, <2>2, FailedLocated DEF Located
  <1> QED
    BY <1>2, <1>3, <1>4, <1>5, <1>6, <1>7 DEF Record

LEMMA LocatedKept ==
    ASSUME FileInv, Next
    PROVE  Located'
  <1>1. CASE PowerOn \/ PowerCut
    <2>1. pc' \in {"device", "off"} /\ ram'.job = "sync" /\ ram'.file = 0
      BY <1>1, PowerIs DEF PowerOn, PowerCut, Go
    <2> QED
      BY <2>1 DEF Located, BootPoints, ScanPoints, UpsertPoints, OpenPoints, ClosePoints
  <1>2. CASE \E i \in Ids : HostChanges(i)
    <2>1. pc' = pc /\ ram' = ram /\ used' = used
      BY <1>2 DEF HostChanges
    <2> QED
      BY <2>1 DEF FileInv, Located
  <1> QED
    BY <1>1, <1>2, BootLocated, UpsertLocated, RecordLocated DEF Next, Writer

-----------------------------------------------------------------------------
(* Counted and Published: steps that leave the files.                       *)
SameWav == wav' = wav /\ used' = used

LEMMA RestCounted ==
    ASSUME FileInv, SameWav, ram'.seg = ram.seg, ram'.file = ram.file, ram'.pcm = ram.pcm,
           ram'.called = ram.called,
           ram'.job = "rotate" /\ pc' # "finalize" => ram.job = "rotate" /\ pc # "finalize",
           pc' \in {"mkdir", "admit", "open"} => pc \in {"mkdir", "admit", "open"},
           pc' \notin {"header", "rename", "rec", "close"},
           pc' = "finalize" => pc = "finalize" \/ ram.called
    PROVE  Counted'
  BY DEF FileInv, Counted, SameWav

LEMMA RestPublished ==
    ASSUME FileInv, SameWav, pc' \notin {"scan"} \cup ScanPoints
    PROVE  Published'
  BY DEF FileInv, Published, SameWav, ScanPoints

LEMMA BootCounted ==
    ASSUME FileInv, Boot
    PROVE  Counted' /\ Published'
  <1> USE DEF BootPoints, ScanPoints
  <1>1. /\ ram \in Ram /\ man \in [Files -> Snapshots] /\ wav \in [Ids -> WavFile]
        /\ Located /\ Counted /\ Published /\ ram.job = "sync"
    BY DEF FileInv, Types, Located, Boot, EnsureDeviceJson, WriteDeviceJson, RecoverProbe,
        RecoverRestore, RecoverRetire, RecoverSettle, RecoverPromote, CreateEmpty,
        WriteEmpty, RenameEmpty, StartScan, ScanNext, Isolate, RebuildHeader, TrimTail,
        NameRecovered, CountBefore, EnsureOneWav, CountAfter, At
  <1>2. CASE \/ EnsureDeviceJson \/ WriteDeviceJson \/ RecoverProbe \/ RecoverRestore
             \/ RecoverRetire \/ RecoverSettle \/ RecoverPromote \/ CreateEmpty
             \/ WriteEmpty \/ RenameEmpty \/ CountAfter
    <2>1. /\ SameWav /\ ram' = ram
          /\ pc' \in {"probe", "deviceWrite", "restore", "retire", "settle", "promote",
                      "gate", "emptyWrite", "emptyRename", "quarantine", "segment", "done"}
      BY <1>2 DEF EnsureDeviceJson, WriteDeviceJson, RecoverProbe, RecoverStep,
          RecoverRestore, RecoverRetire, RecoverSettle, RecoverPromote, CreateEmpty,
          WriteEmpty, RenameEmpty, CountAfter, Continue, Halt, Go, Same, ManOnly, card,
          SameWav
    <2> QED
      BY <1>1, <2>1, RestCounted, RestPublished
  <1>3. CASE StartScan \/ CountBefore \/ EnsureOneWav
    <2>1. SameWav
      BY <1>3 DEF StartScan, CountBefore, EnsureOneWav, card, SameWav
    <2>2. /\ ram'.seg = ram.seg /\ ram'.file = ram.file /\ ram'.pcm = ram.pcm
          /\ ram'.called = ram.called /\ ram'.job = "sync"
          /\ pc' \in {"scan", "sync", "tally", "upsert", "done"}
          /\ pc' = "scan" => ram'.todo = Parts
      BY <1>1, <1>3, StartScanIs, CountBeforeIs, EnsureOneWavIs DEF SameSegment, SameJob
    <2>3. Counted'
      BY <2>1, <2>2, RestCounted
    <2>4. Published'
      BY <1>1, <2>1, <2>2 DEF Published, SameWav, Parts
    <2> QED
      BY <2>3, <2>4
  <1>4. CASE ScanNext
    <2>1. SameWav /\ pc = "scan"
      BY <1>4 DEF ScanNext, card, SameWav, At
    <2>2. /\ ram'.seg = ram.seg /\ ram'.file = ram.file /\ ram'.pcm = ram.pcm
          /\ ram'.called = ram.called /\ ram'.job = "sync"
          /\ pc' \in {"count", "rebuild", "isolate"}
          /\ pc' # "count" => ram'.todo = ram.todo /\ ram'.cur \in ram.todo
      BY <1>1, <1>4, ScanNextIs DEF SameSegment, SameJob
    <2>3. Counted'
      BY <2>1, <2>2, RestCounted
    <2>4. Published'
      BY <1>1, <2>1, <2>2 DEF Published, SameWav, Parts
    <2> QED
      BY <2>3, <2>4
  <1>5. CASE Isolate \/ RebuildHeader \/ TrimTail \/ NameRecovered
    <2> DEFINE c == ram.cur
    <2>1. /\ pc \in ScanPoints /\ c \in Ids /\ used' = used /\ ram.todo \subseteq Ids
          /\ wav[c].place = "part" /\ c \in ram.todo
      BY <1>1, <1>5 DEF Isolate, RebuildHeader, TrimTail, NameRecovered, At, WavOnly,
          Located, Published, Parts, Ram
    <2>2. wav[c] # NoWav
      BY <2>1 DEF NoWav
    <2>3. /\ pc' \in {"scan", "trim", "name"} /\ ram'.job = "sync"
          /\ ram'.seg = ram.seg /\ ram'.called = ram.called
          /\ ram'.cur = c /\ (pc' = "scan" => ram'.todo = ram.todo \ {c})
          /\ pc' # "scan" => ram'.todo = ram.todo
      BY <1>1, <1>5, RestIs DEF Isolate, RebuildHeader, TrimTail, NameRecovered, Continue,
          Go, SameSegment, SameJob
    <2>4. /\ wav' \in [Ids -> WavFile] /\ OnlyWav(c)
          /\ wav'[c].durable <= wav'[c].size
      <3>1. /\ wav[c].durable <= wav[c].size
            /\ wav[c].declared \in Nat
        BY <1>1, <2>1, BoundsAssumption DEF Counted, WavFile
      <3> QED
        BY <1>1, <1>5, <2>1, <3>1, IsolateIs, RebuildHeaderIs, TrimTailIs, NameRecoveredIs
        DEF OnlyWav, SameBytes
    <2>5. Counted'
      BY <1>1, <2>1, <2>2, <2>3, <2>4 DEF Counted, OnlyWav
    <2>6. /\ wav'[c].place = "wav" => /\ pc = "name"
                                      /\ wav'[c].declared >= Whole(wav'[c].size)
          /\ pc' \in {"trim", "name"} => /\ wav'[c].declared = Whole(wav'[c].size)
                                         /\ wav'[c].place = "part"
      <3>1. wav[c].size \in Nat /\ Whole(wav[c].size) \in Nat
        BY <1>1, <2>1, WholeBounds, BoundsAssumption DEF WavFile
      <3>2. CASE Isolate
        BY <2>1, <3>2, IsolateIs DEF Isolate, Continue, Go
      <3>3. CASE RebuildHeader
        BY <2>1, <3>3, RebuildHeaderIs DEF SameFile
      <3>4. CASE TrimTail
        <4>1. wav[c].declared = Whole(wav[c].size)
          BY <1>1, <3>4 DEF TrimTail, At, Published
        <4>2. Whole(Whole(wav[c].size)) = Whole(wav[c].size)
          BY <3>1, WholeBounds
        <4> QED
          BY <2>1, <3>4, <4>1, <4>2, TrimTailIs DEF SameFile
      <3>5. CASE NameRecovered
        <4>1. wav[c].declared = Whole(wav[c].size) /\ pc = "name" /\ pc' = "scan"
          BY <1>1, <3>5 DEF NameRecovered, At, Published, Continue, Go
        <4> QED
          BY <2>1, <3>1, <3>5, <4>1, NameRecoveredIs DEF SameBytes
      <3> QED
        BY <1>5, <3>2, <3>3, <3>4, <3>5
    <2>7. Published'
      BY <1>1, <2>1, <2>3, <2>4, <2>6 DEF Published, OnlyWav, Parts
    <2> QED
      BY <2>5, <2>7
  <1> QED
    BY <1>2, <1>3, <1>4, <1>5, SMTT(30) DEF Boot

LEMMA UpsertCounted ==
    ASSUME FileInv, Upsert
    PROVE  Counted' /\ Published'
  <1>1. /\ ram \in Ram /\ SameWav /\ Counted /\ Located /\ pc \in UpsertPoints
        /\ pc \notin {"finalize"}
    BY DEF FileInv, Types, Upsert, UpsertRead, RetireBackup, OpenTmp, WriteTmp, PublishTmp,
        SetAside, Install, Rollback, Verify, KeepOthers, SameWav, At, UpsertPoints
  <1>2. \/ Failed
        \/ Upserted
        \/ SameSegment /\ ram'.job = ram.job /\ pc' \in UpsertPoints
    <2>1. CASE UpsertRead
      <3>1. Appended \in Seq(Entries)
        BY <1>1, AppendedType DEF FileInv
      <3> QED
        BY <1>1, <2>1, <3>1, UpsertReadIs DEF UpsertPoints
    <2>2. CASE \/ RetireBackup \/ OpenTmp \/ WriteTmp \/ PublishTmp \/ SetAside
               \/ Install \/ Rollback \/ Verify
      BY <1>1, <2>2, JobFailsIs, UpsertDoneIs DEF RetireBackup, OpenTmp, WriteTmp,
          PublishTmp, SetAside, Install, Rollback, Verify, Continue, Go, UpsertPoints,
          SameSegment
    <2> QED
      BY <2>1, <2>2 DEF Upsert
  <1>3. /\ ram'.seg = ram.seg /\ ram'.file = ram.file /\ ram'.pcm = ram.pcm
        /\ (ram'.job = "rotate" => ram.job = "rotate")
        /\ pc' \in UpsertPoints \cup {"sync", "segment", "done", "finalize"}
        /\ (pc' = "finalize" => ram.called)
    <2>1. ram.job = "rotate" => ram.called
      BY <1>1 DEF Counted
    <2>2. CASE Failed
      BY <2>1, <2>2 DEF Failed, SameSegment
    <2>3. CASE Upserted
      BY <2>3 DEF Upserted, SameSegment, SameJob
    <2>4. CASE SameSegment /\ ram'.job = ram.job /\ pc' \in UpsertPoints
      BY <2>4 DEF SameSegment, UpsertPoints
    <2> QED
      BY <1>2, <2>2, <2>3, <2>4
  <1>4. ram'.called = ram.called
    BY <1>2 DEF Failed, Upserted, SameSegment
  <1> QED
    BY <1>1, <1>3, <1>4, RestCounted, RestPublished DEF UpsertPoints, ScanPoints

(* While a segment is recorded the steps change its file alone.             *)
LEMMA RecordCounted ==
    ASSUME FileInv, Record
    PROVE  Counted' /\ Published'
  <1> USE DEF ScanPoints, OpenPoints, ClosePoints
  <1>1. /\ ram \in Ram /\ wav \in [Ids -> WavFile] /\ used \in 0..MaxSeg
        /\ Located /\ Counted /\ Published /\ MaxSeg \in Nat
    BY BoundsAssumption DEF FileInv, Types
  <1>c. /\ \A i \in Ids : wav[i].durable <= wav[i].size
        /\ \A i \in Ids : i > used => wav[i] = NoWav
        /\ ram.job = "rotate" /\ pc # "finalize" => ram.called
    BY <1>1 DEF Counted
  <1>2. CASE NewSegment
    <2>1. pc = "segment" /\ wav' = wav
      BY <1>2 DEF NewSegment, At, card
    <2>2. Published'
      BY <1>1, <1>2, <2>1, NewSegmentIs DEF Published
    <2>3. CASE pc' = "mkdir"
      <3>1. used' = used + 1 /\ ram'.seg = used + 1 /\ used + 1 \in Ids
            /\ ram'.job = ram.job /\ ram'.called = ram.called
        BY <1>1, <1>2, <2>3, NewSegmentIs DEF Ids
      <3>2. wav[used + 1] = NoWav
        BY <1>1, <3>1 DEF Counted
      <3>3. \A i \in Ids : i > used + 1 => wav[i] = NoWav
        BY <1>1 DEF Counted, Ids
      <3> QED
        BY <1>1, <2>1, <2>2, <2>3, <3>1, <3>2, <3>3 DEF Counted
    <2>4. CASE pc' # "mkdir"
      <3>1. /\ used' = used /\ ram'.seg = ram.seg /\ ram'.job = "stop"
            /\ ram'.file = ram.file /\ ram'.pcm = ram.pcm /\ ram'.called = ram.called
            /\ pc' = IF ram.job = "rotate" THEN "finalize" ELSE "done"
        BY <1>1, <1>2, <2>4, NewSegmentIs
      <3>2. pc' = "finalize" => ram.called
        BY <1>1, <2>1, <3>1 DEF Counted
      <3>3. Counted'
        BY <1>1, <2>1, <3>1, <3>2, RestCounted DEF SameWav
      <3> QED
        BY <2>2, <3>3
    <2> QED
      BY <2>3, <2>4
  <1>3. CASE MakeDateDir \/ Admit \/ RecordWav
    <2>1. /\ SameWav
          /\ \/ pc = "mkdir" /\ (pc' = "admit" \/ Failed)
             \/ pc = "admit" /\ (pc' = "open" \/ Failed)
             \/ pc = "record" /\ (pc' = "upsert" \/ Failed)
          /\ Failed \/ ram' = ram
      BY <1>1, <1>3, JobFailsIs DEF MakeDateDir, Admit, RecordWav, At, Continue, Go, card,
          SameWav
    <2>2. /\ ram'.seg = ram.seg /\ ram'.file = ram.file /\ ram'.pcm = ram.pcm
          /\ ram'.called = ram.called
          /\ (ram'.job = "rotate" => ram.job = "rotate")
          /\ (pc' = "finalize" => ram.called)
          /\ pc' \in {"admit", "open", "upsert", "finalize", "done"}
          /\ (pc' \in {"admit", "open"} => pc \in {"mkdir", "admit"})
      BY <1>1, <2>1 DEF Failed, SameSegment, Counted
    <2> QED
      BY <2>1, <2>2, RestCounted, RestPublished
  <1>4. CASE OpenPart
    <2>1. pc = "open" /\ used' = used /\ ram.seg \in Ids /\ ram.seg = used
          /\ wav[ram.seg] = NoWav
      BY <1>1, <1>4 DEF OpenPart, At, WavOnly, Located, Counted
    <2>2. CASE wav' = wav /\ Failed
      <3>1. /\ SameWav /\ pc' \in {"finalize", "done"} /\ (pc' = "finalize" => ram.called)
            /\ ram'.job # "rotate"
        BY <1>1, <2>1, <2>2 DEF Failed, SameWav, Counted
      <3> QED
        BY <2>2, <3>1, RestCounted, RestPublished DEF Failed, SameSegment
    <2>3. CASE /\ wav' \in [Ids -> WavFile] /\ OnlyWav(ram.seg)
               /\ wav'[ram.seg] = [NoWav EXCEPT !.place = "part"]
               /\ pc' = "header" /\ ram' = ram
      <3>1. wav'[ram.seg].place = "part" /\ wav'[ram.seg].durable = 0 /\ wav'[ram.seg].size = 0
        BY <2>3 DEF NoWav
      <3>0. OnlyWav(ram.seg)
        BY <2>3
      <3>2. \A i \in Ids : wav'[i].durable <= wav'[i].size
        BY <1>c, <3>0, <3>1 DEF OnlyWav
      <3>3. \A i \in Ids : i > used' => wav'[i] = NoWav
        BY <1>1, <1>c, <2>1, <2>3 DEF OnlyWav, Ids
      <3>4. ram'.job = "rotate" => ram'.called
        BY <1>c, <2>1, <2>3
      <3>5. Counted'
        BY <2>1, <2>3, <3>2, <3>3, <3>4 DEF Counted
      <3>6. Published'
        BY <1>1, <2>1, <2>3, <3>1 DEF Published, OnlyWav
      <3> QED
        BY <3>5, <3>6
    <2> QED
      BY <1>4, <2>2, <2>3, OpenPartIs
  <1>5. CASE WriteHeader
    <2>1. pc = "header" /\ used' = used /\ ram.seg \in Ids /\ ram.seg = used
      BY <1>1, <1>5 DEF WriteHeader, At, WavOnly, Located
    <2>2. /\ wav' \in [Ids -> WavFile] /\ OnlyWav(ram.seg)
          /\ wav'[ram.seg].declared = 0 /\ wav'[ram.seg].size = 0
          /\ wav'[ram.seg].durable = 0 /\ wav'[ram.seg].place = "part"
          /\ \/ Failed
             \/ /\ pc' = "rec" /\ ram'.seg = ram.seg /\ ram'.file = ram.seg /\ ~ram'.called
                /\ ram'.pcm = 0 /\ ram'.job = "record"
      BY <1>5, WriteHeaderIs
    <2>3. pc' \in {"rec", "done", "finalize"} /\ ram'.job # "rotate"
          /\ (pc' = "finalize" => ram'.called)
      BY <1>1, <2>1, <2>2 DEF Failed, Counted, SameSegment
    <2>4. Whole(0) = 0
      BY DEF Whole
    <2>5. Counted'
      <3>1. \A i \in Ids : wav'[i].durable <= wav'[i].size
        BY <1>c, <2>1, <2>2 DEF OnlyWav
      <3>2. \A i \in Ids : i > used' => wav'[i] = NoWav
        BY <1>1, <1>c, <2>1, <2>2 DEF OnlyWav, Ids
      <3>3. CASE Failed
        BY <2>1, <2>3, <3>1, <3>2, <3>3 DEF Failed, Counted
      <3>4. CASE /\ pc' = "rec" /\ ram'.seg = ram.seg /\ ram'.file = ram.seg /\ ~ram'.called
                 /\ ram'.pcm = 0 /\ ram'.job = "record"
        BY <2>1, <2>2, <2>4, <3>1, <3>2, <3>4 DEF Counted
      <3> QED
        BY <2>2, <3>3, <3>4
    <2>6. Published'
      BY <1>1, <2>1, <2>2, <2>3 DEF Published, OnlyWav
    <2> QED
      BY <2>5, <2>6
  <1>6. CASE Rotate \/ StopRequest
    <2>1. pc = "rec" /\ SameWav
      BY <1>6 DEF Rotate, StopRequest, At, SameWav, card
    <2>2. pc' = "finalize" /\ SameSegment
      BY <1>1, <1>6, LeaveIs DEF Rotate, StopRequest
    <2>3. wav[ram.file].place = "part" /\ Whole(wav[ram.file].size) = ram.pcm
      BY <1>1, <2>1 DEF Counted
    <2> QED
      BY <1>1, <2>1, <2>2, <2>3 DEF Counted, Published, SameWav, SameSegment
  <1>7. CASE WriteChunk \/ Flush
    <2> DEFINE f == ram.file
    <2>1. /\ pc = "rec" /\ used' = used /\ f \in Ids /\ wav[f].size = ram.pcm
          /\ ~ram.called /\ wav[f].place = "part" /\ Whole(wav[f].size) = ram.pcm
          /\ wav[f].durable <= wav[f].size
      BY <1>1, <1>7 DEF WriteChunk, Flush, At, WavOnly, Located, Counted
    <2>2. wav[f].size \in Nat /\ wav[f].durable \in Nat /\ wav[f] # NoWav
      BY <1>1, <2>1, BoundsAssumption DEF WavFile, NoWav
    <2>3. ram.pcm % 2 = 0
      BY <2>1, <2>2, WholeBounds
    <2>4. Whole(wav[f].size + 2) = ram.pcm + 2 /\ Whole(wav[f].size + 1) = ram.pcm
      BY <2>1, <2>2, <2>3, WholeBounds
    <2>5. /\ wav' \in [Ids -> WavFile] /\ OnlyWav(f) /\ wav'[f].place = "part"
          /\ ram'.file = f /\ ram'.seg = ram.seg /\ ~ram'.called
          /\ wav'[f].durable <= wav'[f].size /\ Whole(wav'[f].size) = ram'.pcm
          /\ \/ pc' = "rec" /\ wav'[f].size = ram'.pcm /\ ram'.job = ram.job
             \/ pc' = "finalize"
      <3>1. CASE WriteChunk
        BY <2>1, <2>2, <2>4, <3>1, WriteChunkIs DEF SameFile
      <3>2. CASE Flush
        BY <1>1, <2>1, <2>2, <3>2, FlushIs DEF SameFile, SameSegment, OnlyWav
      <3> QED
        BY <1>7, <3>1, <3>2
    <2>6. Counted'
      BY <1>1, <2>1, <2>2, <2>5 DEF Counted, OnlyWav, Located
    <2>7. Published'
      BY <1>1, <2>1, <2>5 DEF Published, OnlyWav
    <2> QED
      BY <2>6, <2>7
  <1>8. CASE FinalizeOnce
    <2>1. pc = "finalize" /\ SameWav
      BY <1>8 DEF FinalizeOnce, At, SameWav, card
    <2>2. \/ ~ram.called /\ pc' = "close" /\ ram'.called /\ ram'.file = ram.file
             /\ ram'.pcm = ram.pcm
          \/ ram.called /\ pc' = "record" /\ ram' = ram
          \/ ram.called /\ Failed
      BY <1>1, <1>8, FinalizeOnceIs
    <2>3. Published'
      BY <1>1, <2>1, <2>2 DEF Published, SameWav, Failed
    <2>4. CASE ~ram.called /\ pc' = "close"
      <3>1. ram'.called /\ ram'.file = ram.file /\ ram'.pcm = ram.pcm
        BY <2>2, <2>4
      <3>2. wav[ram.file].place = "part" /\ Whole(wav[ram.file].size) = ram.pcm
        BY <1>1, <2>1, <2>4 DEF Counted
      <3>3. Counted'
        BY <1>1, <2>1, <2>4, <3>1, <3>2 DEF Counted, SameWav
      <3> QED
        BY <2>3, <3>3
    <2>5. CASE ram.called
      <3>1. ram'.called /\ pc' \in {"record", "finalize", "done"}
        BY <2>2, <2>5 DEF Failed, SameSegment
      <3>2. Counted'
        BY <1>1, <2>1, <3>1 DEF Counted, SameWav
      <3> QED
        BY <2>3, <3>2
    <2> QED
      BY <2>2, <2>3, <2>4, <2>5
  <1>9. CASE CloseSink \/ RenamePart
    <2> DEFINE f == ram.file
    <2>1. /\ f \in Ids /\ wav[f].place = "part" /\ used' = used
          /\ pc \in {"close", "rename"} /\ wav[f].durable <= wav[f].size
          /\ wav[f] # NoWav
      BY <1>1, <1>9, CloseSinkIs, RenamePartIs
      DEF CloseSink, RenamePart, At, WavOnly, Counted, NoWav
    <2>2. wav[f].size \in Nat /\ wav[f].durable \in Nat
      BY <1>1, <2>1, BoundsAssumption DEF WavFile
    <2>3. /\ wav' \in [Ids -> WavFile] /\ OnlyWav(f)
          /\ wav'[f].durable <= wav'[f].size
          /\ wav'[f].place = "wav" => wav'[f].declared >= Whole(wav'[f].size)
          /\ ram'.file = f /\ (ram'.job = "rotate" => ram.job = "rotate")
          /\ ram'.called = ram.called
          /\ \/ pc' \in {"finalize", "done"} /\ Failed
             \/ pc' = "record"
             \/ /\ pc' = "rename" /\ wav'[f].place = "part"
                /\ wav'[f].declared = Whole(wav'[f].size)
      <3>1. CASE CloseSink
        <4>1. Whole(wav[f].size) = ram.pcm
          BY <1>1, <3>1 DEF CloseSink, At, Counted
        <4>2. wav'[f].size \in Nat
          BY <2>1, <3>1, CloseSinkIs, BoundsAssumption DEF WavFile
        <4> QED
          BY <2>1, <2>2, <3>1, <4>1, <4>2, CloseSinkIs DEF SameFile, Failed, SameSegment
      <3>2. CASE RenamePart
        <4>1. wav[f].declared = Whole(wav[f].size) /\ Whole(wav[f].size) \in Nat
          BY <1>1, <2>2, <3>2, WholeBounds DEF RenamePart, At, Counted
        <4> QED
          BY <1>1, <2>1, <2>2, <3>2, <4>1, RenamePartIs
          DEF SameBytes, Failed, SameSegment, SameJob, OnlyWav
      <3> QED
        BY <1>9, <3>1, <3>2
    <2>4. pc' = "finalize" => ram'.called
      BY <1>1, <2>1, <2>3 DEF Failed, Counted
    <2>5. ram'.job = "rotate" => ram'.called
      BY <1>1, <2>1, <2>3 DEF Counted
    <2>6. Counted'
      BY <1>1, <2>1, <2>3, <2>4, <2>5 DEF Counted, OnlyWav
    <2>7. Published'
      BY <1>1, <2>1, <2>3 DEF Published, OnlyWav
    <2> QED
      BY <2>6, <2>7
  <1> QED
    BY <1>2, <1>3, <1>4, <1>5, <1>6, <1>7, <1>8, <1>9 DEF Record

LEMMA PowerCounted ==
    ASSUME FileInv, PowerOn \/ PowerCut \/ \E i \in Ids : HostChanges(i)
    PROVE  Counted' /\ Published'
  <1>1. /\ wav \in [Ids -> WavFile] /\ Counted /\ Published
        /\ \A i \in Ids : wav[i].durable <= wav[i].size
        /\ \A i \in Ids : i > used => wav[i] = NoWav
        /\ \A i \in Ids : wav[i].place = "wav" => wav[i].declared >= Whole(wav[i].size)
    BY DEF FileInv, Types, Counted, Published
  <1>2. CASE PowerOn
    <2>1. pc' = "device" /\ SameWav /\ ram'.job = "sync"
      BY <1>2, PowerIs DEF PowerOn, SameWav, card, Go
    <2> QED
      BY <1>1, <2>1 DEF Counted, Published, SameWav, ScanPoints
  <1>3. CASE PowerCut
    <2>1. pc' = "off" /\ used' = used /\ ram'.job = "sync"
      BY <1>3, PowerIs DEF PowerCut, Go
    <2>2. /\ wav' \in [Ids -> WavFile]
          /\ \A i \in Ids : /\ wav'[i].place = wav[i].place
                            /\ wav'[i].declared = wav[i].declared
                            /\ wav'[i].durable <= wav'[i].size /\ wav'[i].size <= wav[i].size
                            /\ wav[i].durable <= wav'[i].size
                            /\ wav'[i].head = wav[i].head /\ wav'[i].tag = wav[i].tag
                            /\ wav'[i] = wav[i] \/ wav'[i].durable = wav'[i].size
      BY <1>3, PowerCutIs DEF SameFile
    <2>3. \A i \in Ids : i > used => wav'[i] = NoWav
      <3> SUFFICES ASSUME NEW i \in Ids, i > used PROVE wav'[i] = NoWav
        OBVIOUS
      <3>1. wav[i] = NoWav
        BY <1>1
      <3>2. wav[i].size = 0 /\ wav[i].durable = 0
        BY <3>1 DEF NoWav
      <3>3. wav'[i].size \in Nat /\ wav'[i].durable \in Nat
        BY <2>2, BoundsAssumption DEF WavFile
      <3>4. wav'[i].size = 0
        BY <2>2, <3>2, <3>3
      <3>5. wav'[i].durable = 0
        BY <2>2, <3>2, <3>3, <3>4
      <3> QED
        BY <1>1, <2>2, <3>1, <3>2, <3>4, <3>5 DEF WavFile, NoWav
    <2>4. \A i \in Ids : wav'[i].place = "wav" => wav'[i].declared >= Whole(wav'[i].size)
      <3> SUFFICES ASSUME NEW i \in Ids, wav'[i].place = "wav"
                   PROVE  wav'[i].declared >= Whole(wav'[i].size)
        OBVIOUS
      <3>1. /\ wav[i].declared \in Nat /\ wav[i].size \in Nat /\ wav'[i].size \in Nat
            /\ wav'[i].size <= wav[i].size /\ wav[i].declared >= Whole(wav[i].size)
        BY <1>1, <2>2, BoundsAssumption DEF WavFile
      <3>2. Whole(wav'[i].size) <= Whole(wav[i].size)
        BY <3>1, WholeMonotone
      <3>3. Whole(wav'[i].size) \in Nat /\ Whole(wav[i].size) \in Nat
        BY <3>1, WholeBounds
      <3> QED
        BY <2>2, <3>1, <3>2, <3>3
    <2> QED
      BY <2>1, <2>2, <2>3, <2>4 DEF Counted, Published, ScanPoints
  <1>4. ASSUME NEW i \in Ids, HostChanges(i)
        PROVE  Counted' /\ Published'
    <2>1. /\ pc \in {"off", "done"} /\ pc' = pc /\ ram' = ram /\ used' = used
          /\ wav' \in [Ids -> WavFile] /\ OnlyWav(i) /\ wav[i].place = "wav"
          /\ wav'[i] = NoWav \/ SameBytes(i)
      BY <1>4, HostChangesIs DEF HostChanges
    <2>2. wav[i] # NoWav /\ NoWav.place = "none" /\ NoWav.durable = 0 /\ NoWav.size = 0
      BY <2>1 DEF NoWav
    <2>3. \A j \in Ids : wav'[j].durable <= wav'[j].size
      BY <1>1, <2>1, <2>2 DEF OnlyWav, SameBytes
    <2>4. \A j \in Ids : wav'[j].place = "wav" => wav'[j].declared >= Whole(wav'[j].size)
      BY <1>1, <2>1, <2>2 DEF OnlyWav, SameBytes
    <2>5. \A j \in Ids : j > used' => wav'[j] = NoWav
      BY <1>1, <2>1, <2>2 DEF OnlyWav
    <2> QED
      BY <1>1, <2>1, <2>3, <2>4, <2>5 DEF Counted, Published, ScanPoints
  <1> QED
    BY <1>2, <1>3, <1>4

LEMMA FileInvKept ==
    ASSUME FileInv, Next
    PROVE  FileInv'
  BY TypesKept, LocatedKept, BootCounted, UpsertCounted, RecordCounted, PowerCounted
  DEF FileInv, Next, Writer

LEMMA FileInvInit ==
    ASSUME Init
    PROVE  FileInv
  <1>1. RamInit \in Ram /\ RamInit.cand = <<>> /\ Len(<<>>) = 0
    BY PowerIs DEF RamInit
  <1>2. NoWav \in WavFile /\ NoWav.durable = 0 /\ NoWav.size = 0 /\ NoWav.place = "none"
    BY BoundsAssumption DEF NoWav, WavFile
  <1>3. Types
    <2>1. /\ man \in [Files -> Snapshots]
          /\ \A f \in Files : man[f].recs = <<>>
      BY DocIs DEF Init
    <2>2. wav \in [Ids -> WavFile] /\ ram \in Ram /\ ram.cand = <<>> /\ used = 0
      BY <1>1, <1>2 DEF Init
    <2>3. /\ 0 \in 0..MaxSeg /\ 0 \in 0..MaxCrash /\ 0 \in 0..MaxFault /\ 0 \in 0..MaxHost
          /\ 0 <= Ceiling
      BY BoundsAssumption
    <2>4. \A f \in Files : Len(man[f].recs) <= Ceiling
      BY <1>1, <2>1, <2>3
    <2>5. Len(ram.cand) <= Ceiling
      BY <1>1, <2>2, <2>3
    <2>6. /\ device \in {"absent", "torn", "ok", "fork"} /\ dated \in BOOLEAN
          /\ pc \in Points /\ err \in {"none", "error", "spent"}
          /\ crashes = 0 /\ faults = 0 /\ edits = 0
      BY DEF Init, Points
    <2> QED
      BY <2>1, <2>2, <2>3, <2>4, <2>5, <2>6 DEF Types
  <1>4. Located
    BY DEF Init, RamInit, Located, BootPoints, ScanPoints, UpsertPoints, OpenPoints,
        ClosePoints
  <1>5. Counted /\ Published
    BY <1>2 DEF Init, Counted, Published, RamInit, ScanPoints
  <1> QED
    BY <1>3, <1>4, <1>5 DEF FileInv

LEMMA FileInvAlways == Spec => []FileInv
  <1>1. FileInv /\ [Next]_vars => FileInv'
    <2>1. ASSUME FileInv, UNCHANGED vars PROVE FileInv'
      BY <2>1 DEF FileInv, Types, Located, Counted, Published, Parts, vars
    <2> QED
      BY <2>1, FileInvKept
  <1> QED
    BY <1>1, FileInvInit, PTL DEF Spec

(* Every variable keeps its type, and no document of the manifest outgrows  *)
(* the ceiling, in whatever way the replacement protocol is cut short.      *)
THEOREM StoreTypes == Spec => []TypeOK
  <1>1. FileInv => TypeOK
    <2> SUFFICES ASSUME FileInv PROVE TypeOK
      OBVIOUS
    <2>1. Types
      BY DEF FileInv
    <2>2. \A f \in Files : /\ man[f].kind \in {"absent", "torn", "doc"}
                           /\ \A k \in 1..Len(man[f].recs) : man[f].recs[k] \in Entries
      BY <2>1 DEF Types, Snapshots
    <2>3. \A f \in Files : Len(man[f].recs) <= Ceiling
      BY <2>1 DEF Types
    <2>4. /\ device \in {"absent", "torn", "ok", "fork"} /\ dated \in BOOLEAN
          /\ wav \in [Ids -> WavFile] /\ used \in 0..MaxSeg
          /\ err \in {"none", "error", "spent"}
      BY <2>1 DEF Types
    <2>5. ram \in Ram
      BY <2>1 DEF Types
    <2>6. /\ ram.todo \subseteq Ids /\ {ram.seg, ram.file, ram.cur} \subseteq 0..MaxSeg
          /\ {ram.pcm, ram.before, ram.indexed} \subseteq Nat
          /\ ram.job \in {"sync", "record", "rotate", "stop"}
      BY <2>5 DEF Ram
    <2>7. /\ crashes \in 0..MaxCrash /\ faults \in 0..MaxFault /\ edits \in 0..MaxHost
      BY <2>1 DEF Types
    <2>8. crashes <= MaxCrash /\ faults <= MaxFault /\ edits <= MaxHost
      BY <2>7, BoundsAssumption
    <2> QED
      BY <2>2, <2>3, <2>4, <2>6, <2>8 DEF TypeOK
  <1> QED
    BY <1>1, FileInvAlways, PTL

-----------------------------------------------------------------------------
(* What one step keeps of a file.                                           *)
KeptBytes(i) ==
    LET kept == IF crashes' = crashes /\ faults' = faults
                THEN Whole(wav[i].size) ELSE Whole(wav[i].durable)
    IN /\ wav'[i].size >= kept
       /\ wav'[i].place = "wav" => wav'[i].declared >= kept
       /\ wav[i].place # "none" => wav'[i].place # "none"

LEMMA KeptIf ==
    ASSUME FileInv, NEW i \in Ids,
           wav'[i].size \in Nat, wav'[i].declared \in Nat,
           \/ wav'[i].size >= Whole(wav[i].size)
           \/ /\ wav'[i].size >= wav[i].durable
              /\ crashes' # crashes \/ faults' # faults,
           wav'[i].place = "wav" => wav'[i].declared >= Whole(wav[i].size),
           wav[i].place # "none" => wav'[i].place # "none"
    PROVE  KeptBytes(i)
  <1>1. /\ wav[i].size \in Nat /\ wav[i].durable \in Nat
        /\ wav[i].durable <= wav[i].size
    BY BoundsAssumption DEF FileInv, Types, Counted, WavFile
  <1>2. /\ Whole(wav[i].durable) <= Whole(wav[i].size)
        /\ Whole(wav[i].durable) <= wav[i].durable
        /\ Whole(wav[i].durable) \in Nat /\ Whole(wav[i].size) \in Nat
    BY <1>1, WholeMonotone, WholeBounds
  <1> QED
    BY <1>1, <1>2 DEF KeptBytes

LEMMA SameKept ==
    ASSUME FileInv, NEW i \in Ids, wav'[i] = wav[i]
    PROVE  KeptBytes(i)
  <1>1. /\ wav[i].size \in Nat /\ wav[i].declared \in Nat
        /\ wav[i].place = "wav" => wav[i].declared >= Whole(wav[i].size)
    BY BoundsAssumption, SMTT(30) DEF FileInv, Types, Published, WavFile
  <1>2. wav[i].size >= Whole(wav[i].size)
    BY <1>1, WholeBounds
  <1> QED
    BY <1>1, <1>2, KeptIf

(* A step of the firmware that touches a file measures it, or leaves a part *)
(* of at least the size it had, or fails.                                   *)
LEMMA StepKept ==
    ASSUME FileInv, Next, edits' = edits, NEW i \in Ids
    PROVE  KeptBytes(i)
  <1>1. /\ wav \in [Ids -> WavFile] /\ wav' \in [Ids -> WavFile]
        /\ wav[i].durable <= wav[i].size /\ faults \in Nat /\ crashes \in Nat /\ edits \in Nat
        /\ wav[i].place = "wav" => wav[i].declared >= Whole(wav[i].size)
    BY WavTypes, BoundsAssumption DEF FileInv, Types, Counted, Published
  <1>2. /\ wav[i].size \in Nat /\ wav[i].durable \in Nat /\ wav[i].declared \in Nat
        /\ wav'[i].size \in Nat /\ wav'[i].declared \in Nat
        /\ wav[i].size >= Whole(wav[i].size)
    <2>1. /\ wav[i].size \in Nat /\ wav[i].durable \in Nat /\ wav[i].declared \in Nat
          /\ wav'[i].size \in Nat /\ wav'[i].declared \in Nat
      BY <1>1, BoundsAssumption DEF WavFile
    <2> QED
      BY <2>1, WholeBounds
  <1>3. CASE wav'[i] = wav[i]
    BY <1>3, SameKept
  <1>4. CASE PowerCut
    BY <1>1, <1>2, <1>4, PowerCutIs, KeptIf DEF SameFile
  <1>5. CASE \E j \in Ids : HostChanges(j)
    BY <1>1, <1>5, HostChangesIs
  <1>6. CASE PowerOn \/ Upsert
    <2>1. wav' = wav
      BY <1>6 DEF PowerOn, card, Upsert, UpsertRead, RetireBackup, OpenTmp, WriteTmp,
        PublishTmp, SetAside, Install, Rollback, Verify, KeepOthers
    <2> QED
      BY <1>3, <2>1
  <1>7. CASE Boot
    <2>1. CASE wav' = wav
      BY <1>3, <2>1
    <2>2. CASE /\ Isolate \/ RebuildHeader \/ TrimTail \/ NameRecovered
               /\ wav' # wav /\ i = ram.cur
      <3>1. /\ pc \in ScanPoints /\ wav[i].place = "part"
            /\ pc \in {"trim", "name"} => wav[i].declared = Whole(wav[i].size)
        BY <2>2 DEF Isolate, RebuildHeader, TrimTail, NameRecovered, At, FileInv, Published,
            Parts, ScanPoints
      <3>2. /\ wav'[i].place # "none"
            /\ wav'[i].size >= Whole(wav[i].size)
            /\ wav'[i].place = "wav" => wav'[i].declared >= Whole(wav[i].size)
        <4>1. CASE Isolate
          BY <1>2, <2>2, <4>1, IsolateIs DEF SameBytes
        <4>2. CASE RebuildHeader
          BY <1>2, <2>2, <3>1, <4>2, RebuildHeaderIs DEF SameFile
        <4>3. CASE TrimTail
          BY <1>2, <2>2, <3>1, <4>3, TrimTailIs DEF SameFile, TrimTail, At
        <4>4. CASE NameRecovered
          BY <1>2, <2>2, <3>1, <4>4, NameRecoveredIs DEF SameBytes, NameRecovered, At
        <4> QED
          BY <2>2, <4>1, <4>2, <4>3, <4>4
      <3> QED
        BY <1>2, <3>2, KeptIf
    <2>3. CASE /\ Isolate \/ RebuildHeader \/ TrimTail \/ NameRecovered
               /\ wav' # wav /\ i # ram.cur
      BY <1>3, <2>3, IsolateIs, RebuildHeaderIs, TrimTailIs, NameRecoveredIs DEF OnlyWav
    <2>4. Isolate \/ RebuildHeader \/ TrimTail \/ NameRecovered \/ wav' = wav
      BY <1>7 DEF Boot, EnsureDeviceJson, WriteDeviceJson, RecoverProbe,
          RecoverRestore, RecoverRetire, RecoverSettle, RecoverPromote, CreateEmpty,
          WriteEmpty, RenameEmpty, StartScan, ScanNext, CountBefore, EnsureOneWav,
          CountAfter, Same, ManOnly, card
    <2> QED
      BY <2>1, <2>2, <2>3, <2>4
  <1>8. CASE Record
    <2>1. CASE wav' = wav
      BY <1>3, <2>1
    <2>2. CASE OpenPart \/ WriteHeader
      <3>1. CASE i # ram.seg
        BY <1>3, <2>2, <3>1, OpenPartIs, WriteHeaderIs DEF OnlyWav
      <3>2. CASE i = ram.seg
        <4>1. wav[i].size = 0
          BY <2>2, <3>2 DEF OpenPart, WriteHeader, At, FileInv, Counted, NoWav
        <4>2. Whole(0) = 0
          BY DEF Whole
        <4>3. wav'[i].place = "part" \/ wav' = wav
          BY <2>2, <3>2, OpenPartIs, WriteHeaderIs DEF NoWav
        <4> QED
          BY <1>2, <2>1, <4>1, <4>2, <4>3, KeptIf
      <3> QED
        BY <3>1, <3>2
    <2>3. CASE WriteChunk \/ Flush \/ CloseSink \/ RenamePart
      <3>1. CASE i # ram.file
        BY <1>3, <2>3, <3>1, WriteChunkIs, FlushIs, CloseSinkIs, RenamePartIs DEF OnlyWav
      <3>2. CASE i = ram.file
        <4>1. wav[i].place = "part"
          BY <2>3, <3>2 DEF WriteChunk, Flush, CloseSink, RenamePart, At, FileInv, Counted
        <4>2. CASE WriteChunk
          <5>1. wav'[i].place = "part" /\ wav'[i].size >= wav[i].size
            BY <1>2, <3>2, <4>1, <4>2, WriteChunkIs DEF SameFile
          <5>2. wav'[i].size >= Whole(wav[i].size)
            <6>1. Whole(wav[i].size) \in Nat
              BY <1>2, WholeBounds
            <6> QED
              BY <1>2, <5>1, <6>1
          <5> QED
            BY <1>2, <5>1, <5>2, KeptIf
        <4>3. CASE Flush
          BY <1>2, <2>1, <3>2, <4>1, <4>3, FlushIs, KeptIf DEF SameFile
        <4>4. CASE CloseSink
          <5>1. \/ wav'[i].size >= Whole(wav[i].size)
                \/ wav'[i].size >= wav[i].durable /\ faults' # faults
            BY <1>1, <1>2, <3>2, <4>4, CloseSinkIs DEF Fault
          <5> QED
            BY <1>2, <3>2, <4>1, <4>4, <5>1, CloseSinkIs, KeptIf DEF SameFile
        <4>5. CASE RenamePart
          <5>1. wav[i].declared = Whole(wav[i].size)
            BY <3>2, <4>5 DEF RenamePart, At, FileInv, Counted
          <5>2. wav' # wav => /\ wav'[i].place = "wav" /\ wav'[i].size = wav[i].size
                              /\ wav'[i].declared = wav[i].declared
            BY <3>2, <4>5, RenamePartIs DEF SameBytes
          <5> QED
            BY <1>2, <2>1, <5>1, <5>2, KeptIf
        <4> QED
          BY <2>3, <4>2, <4>3, <4>4, <4>5
      <3> QED
        BY <3>1, <3>2
    <2> QED
      BY <1>8, <2>1, <2>2, <2>3 DEF Record, NewSegment, MakeDateDir, Admit, Rotate,
          StopRequest, FinalizeOnce, RecordWav, card
  <1> QED
    BY <1>4, <1>5, <1>6, <1>7, <1>8 DEF Next, Writer

(* No step of the firmware loses checkpointed audio, for any segments,      *)
(* faults and power cuts: it shortens no recording but by what a cut or a   *)
(* failing close leaves unsynced, deletes none, and publishes only what     *)
(* declares all of it (wav_part_flush, wav_recovery_recover_file).          *)
THEOREM CheckpointsAreKept == Spec => CheckpointKept
  <1> DEFINE Kept == edits' = edits =>
        \A i \in Ids :
            LET kept == IF crashes' = crashes /\ faults' = faults
                        THEN Whole(wav[i].size) ELSE Whole(wav[i].durable)
            IN /\ wav'[i].size >= kept
               /\ wav'[i].place = "wav" => wav'[i].declared >= kept
               /\ wav[i].place # "none" => wav'[i].place # "none"
  <1>1. FileInv /\ [Next]_vars => [Kept]_vars
    BY StepKept DEF KeptBytes
  <1> QED
    BY <1>1, FileInvAlways, PTL DEF Spec, CheckpointKept

-----------------------------------------------------------------------------
(* The replacement protocol.  Whatever it is cut in, manifest.json or the   *)
(* backup is a whole document once there is any, and each point of the      *)
(* recovery and of the replacement knows which.                             *)
InView(i) == \E k \in 1..Len(View) : View[k].id = i
Reaches(e) == \E k \in 1..Len(View) : View[k] = e

Protocol ==
    /\ \A f \in {"final", "bak"} : man[f].kind # "torn"
    /\ ~Exists("final") /\ ~Exists("bak") => man["tmp"].recs = <<>>
    /\ pc = "restore" => Exists("bak") /\ ~Exists("final")
    /\ pc = "retire" => Exists("final")
    /\ pc = "settle" => Exists("final") /\ ~Exists("bak")
    /\ pc \in {"promote", "emptyWrite", "emptyRename"} => ~Exists("bak") /\ ~Exists("final")
    /\ pc \in {"promote", "emptyRename"} => Exists("tmp") /\ man["tmp"].kind = "doc"
    /\ pc \in {"quarantine", "scan", "count", "sync", "tally"} \cup ScanPoints
           => Exists("final")
    /\ pc \in UpsertPoints \cup OpenPoints \cup ClosePoints \cup {"segment", "rec"}
           => Exists("final") \/ Exists("bak")

(* The candidate is the manifest there is with one entry more, of an id it  *)
(* does not have; manifest.json is away only while the backup stands in.    *)
Replacing ==
    /\ pc \in UpsertPoints \ {"install", "rollback"} /\ ram.job = "sync" => Exists("final")
    /\ pc = "backup" => ram.cand = Appended /\ ~Listed(Entry.id)
    /\ pc \in {"tmpOpen", "tmpWrite", "publish", "aside"} =>
           /\ Exists("final") /\ ~Exists("bak")
           /\ ram.cand = Appended /\ ~Listed(Entry.id)
    /\ pc \in {"publish", "aside", "install"} => man["tmp"] = Doc(ram.cand)
    /\ pc \in {"install", "rollback"} =>
           /\ Exists("bak") /\ ~Exists("final")
           /\ ram.cand = Append(man["bak"].recs, Entry) /\ ~InView(Entry.id)
    /\ pc = "verify" => Exists("final") /\ Reaches(Entry)

LogInv == Protocol /\ Replacing

LEMMA Kinds ==
    ASSUME Types
    PROVE  \A f \in Files : /\ man[f].kind \in {"absent", "torn", "doc"}
                            /\ man[f].recs \in Seq(Entries)
                            /\ Exists(f) <=> man[f].kind # "absent"
                            /\ man[f].kind # "doc" => man[f].recs = <<>>
  <1> SUFFICES ASSUME NEW f \in Files
               PROVE  /\ man[f].kind \in {"absent", "torn", "doc"}
                      /\ man[f].recs \in Seq(Entries)
                      /\ Exists(f) <=> man[f].kind # "absent"
                      /\ man[f].kind # "doc" => man[f].recs = <<>>
    OBVIOUS
  <1>1. man[f] \in Snapshots /\ (man[f].kind # "doc" => man[f].recs = <<>>)
    BY DEF Types
  <1> QED
    BY <1>1 DEF Snapshots, Exists, Absent

LEMMA ViewType ==
    ASSUME Types
    PROVE  View \in Seq(Entries) /\ Len(View) <= Ceiling
  BY Kinds DEF View, Files, Types

(* The entry of an upsert depends on nothing its steps change.              *)
LEMMA SameEntry ==
    ASSUME wav' = wav, ram'.job = ram.job, ram'.seg = ram.seg, ram'.file = ram.file,
           ram'.cur = ram.cur
    PROVE  Entry' = Entry
  BY DEF Entry

LEMMA SameLog ==
    ASSUME man' = man
    PROVE  /\ View' = View /\ \A f \in Files : Exists(f)' <=> Exists(f)
           /\ \A i : InView(i)' <=> InView(i)
           /\ \A i : Listed(i)' <=> Listed(i)
           /\ \A e : Reaches(e)' <=> Reaches(e)
  BY DEF View, Exists, InView, Listed, Reaches

LEMMA Renames ==
    ASSUME Types, NEW f \in Files, NEW g \in Files, f # g, man' = Moved(f, g)
    PROVE  /\ man'[g] = man[f] /\ man'[f] = Absent
           /\ \A h \in Files : h # f /\ h # g => man'[h] = man[h]
           /\ ~Exists(f)' /\ (Exists(g)' <=> Exists(f))
           /\ \A h \in Files : h # f /\ h # g => (Exists(h)' <=> Exists(h))
  BY MovedIs DEF Types, Exists

LEMMA Writes ==
    ASSUME Types, NEW f \in Files, NEW d \in Snapshots, man' = With(f, d)
    PROVE  /\ man'[f] = d /\ \A h \in Files : h # f => man'[h] = man[h]
           /\ Exists(f)' <=> d # Absent
           /\ \A h \in Files : h # f => (Exists(h)' <=> Exists(h))
  BY WithIs DEF Types, Exists

LEMMA BootProtocol ==
    ASSUME FileInv, LogInv, Boot
    PROVE  Protocol' /\ View' = View
  <1> USE DEF ScanPoints, UpsertPoints, OpenPoints, ClosePoints, Files
  <1>1. /\ Types /\ Protocol /\ ram \in Ram /\ man \in [Files -> Snapshots]
    BY DEF FileInv, Types, LogInv
  <1>2. \A f \in Files : /\ Exists(f) <=> man[f].kind # "absent"
                         /\ man[f].kind # "doc" => man[f].recs = <<>>
                         /\ man[f].kind \in {"absent", "torn", "doc"}
    BY <1>1, Kinds
  <1>3. Valid("final") <=> Exists("final")
    BY <1>1, <1>2 DEF Valid, Protocol
  <1>4. CASE RecoverProbe
    <2>1. man' = man /\ pc' \in {RecoverStep, "gate"}
      BY <1>4 DEF RecoverProbe, Same, card, Continue, Go
    <2>2. /\ RecoverStep \in {"gate", "restore", "retire", "settle", "promote"}
          /\ RecoverStep = "restore" => Exists("bak") /\ ~Exists("final")
          /\ RecoverStep = "retire" => Exists("final")
          /\ RecoverStep = "settle" => Exists("final") /\ ~Exists("bak")
          /\ RecoverStep = "promote" => /\ ~Exists("final") /\ ~Exists("bak")
                                        /\ man["tmp"].kind = "doc"
      BY DEF RecoverStep, Valid
    <2> QED
      BY <1>1, <1>2, <2>1, <2>2, SameLog DEF Protocol
  <1>5. CASE RecoverRestore
    <2>1. pc = "restore" /\ Exists("bak") /\ ~Exists("final")
      BY <1>1, <1>5 DEF RecoverRestore, At, Protocol
    <2>2. CASE man' = Moved("bak", "final") /\ pc' = "settle"
      <3>1. /\ man'["final"] = man["bak"] /\ man'["bak"] = Absent
            /\ Exists("final")' /\ ~Exists("bak")'
        BY <1>1, <2>1, <2>2, Renames
      <3> QED
        BY <1>1, <2>1, <2>2, <3>1, DocIs DEF Protocol, View
    <2>3. CASE man' = man /\ pc' = "gate"
      BY <1>1, <2>3, SameLog DEF Protocol
    <2> QED
      BY <1>5, <2>2, <2>3 DEF RecoverRestore, Continue, Go
  <1>6. CASE RecoverRetire
    <2>1. pc = "retire" /\ Exists("final")
      BY <1>1, <1>6 DEF RecoverRetire, At, Protocol
    <2>2. CASE man' = With("bak", Absent) /\ pc' = "settle"
      <3>1. /\ man'["final"] = man["final"] /\ man'["bak"] = Absent
            /\ Exists("final")' /\ ~Exists("bak")'
        BY <1>1, <2>1, <2>2, Writes, DocIs
      <3> QED
        BY <1>1, <2>1, <2>2, <3>1, DocIs DEF Protocol, View
    <2>3. CASE man' = man /\ pc' = "gate"
      BY <1>1, <2>3, SameLog DEF Protocol
    <2> QED
      BY <1>6, <2>2, <2>3 DEF RecoverRetire, Continue, Go
  <1>7. CASE RecoverSettle
    <2>1. pc = "settle" /\ Exists("final") /\ ~Exists("bak")
      BY <1>1, <1>7 DEF RecoverSettle, At, Protocol
    <2>2. CASE man' = With("tmp", Absent) /\ pc' = "quarantine"
      <3>1. /\ man'["final"] = man["final"] /\ man'["bak"] = man["bak"]
            /\ Exists("final")' /\ ~Exists("bak")'
        BY <1>1, <2>1, <2>2, Writes, DocIs
      <3> QED
        BY <1>1, <2>1, <2>2, <3>1 DEF Protocol, View
    <2>3. CASE man' = man /\ pc' = "gate"
      BY <1>1, <2>3, SameLog DEF Protocol
    <2> QED
      BY <1>3, <1>7, <2>1, <2>2, <2>3 DEF RecoverSettle, Continue, Go
  <1>8. CASE RecoverPromote \/ RenameEmpty
    <2>1. /\ pc \in {"promote", "emptyRename"} /\ ~Exists("bak") /\ ~Exists("final")
          /\ Exists("tmp") /\ man["tmp"].kind = "doc" /\ man["tmp"].recs = <<>>
          /\ man["bak"].recs = <<>>
      BY <1>1, <1>2, <1>8 DEF RecoverPromote, RenameEmpty, At, Protocol
    <2>2. CASE man' = Moved("tmp", "final") /\ pc' \in {"quarantine", "gate", "done"}
      <3>1. /\ man'["final"] = man["tmp"] /\ man'["tmp"] = Absent
            /\ man'["bak"] = man["bak"]
            /\ Exists("final")' /\ ~Exists("bak")'
        BY <1>1, <2>1, <2>2, Renames
      <3> QED
        BY <1>1, <2>1, <2>2, <3>1 DEF Protocol, View
    <2>3. CASE man' = man /\ pc' \in {"gate", "done"}
      BY <1>1, <2>3, SameLog DEF Protocol
    <2> QED
      BY <1>8, <2>2, <2>3 DEF RecoverPromote, RenameEmpty, Continue, Halt, Go
  <1>9. CASE CreateEmpty \/ WriteEmpty
    <2>1. CASE man' = man /\ pc' = "done"
      BY <1>1, <2>1, SameLog DEF Protocol
    <2>2. CASE /\ EmptyAllowed \/ pc = "emptyWrite"
               /\ \/ man' = With("tmp", Torn) /\ pc' = "emptyWrite"
                  \/ man' = With("tmp", Doc(<<>>)) /\ pc' = "emptyRename"
      <3>1. ~Exists("bak") /\ ~Exists("final")
        BY <1>1, <2>2 DEF EmptyAllowed, Protocol
      <3>2. /\ man'["final"] = man["final"] /\ man'["bak"] = man["bak"]
            /\ ~Exists("bak")' /\ ~Exists("final")'
            /\ man'["tmp"].recs = <<>>
            /\ pc' = "emptyRename" => man'["tmp"].kind = "doc" /\ Exists("tmp")'
        <4>1. Doc(<<>>) # Absent
          BY DocIs
        <4> QED
          BY <1>1, <2>2, <3>1, <4>1, Writes, DocIs, ZenonT(30)
      <3> QED
        BY <1>1, <2>2, <3>1, <3>2 DEF Protocol, View
    <2> QED
      BY <1>9, <2>1, <2>2 DEF CreateEmpty, WriteEmpty, At, Continue, Halt, Go
  <1>10. CASE \/ EnsureDeviceJson \/ WriteDeviceJson \/ StartScan \/ ScanNext \/ Isolate
              \/ RebuildHeader \/ TrimTail \/ NameRecovered \/ CountBefore \/ EnsureOneWav
              \/ CountAfter
    <2>1. man' = man
      BY <1>10 DEF EnsureDeviceJson, WriteDeviceJson, StartScan, ScanNext, Isolate,
          RebuildHeader, TrimTail, NameRecovered, CountBefore, EnsureOneWav, CountAfter,
          Same, WavOnly, card
    <2>2. \/ pc \in {"device", "deviceWrite"} /\ pc' \in {"deviceWrite", "probe", "done"}
          \/ /\ pc \in {"quarantine", "scan", "count", "sync", "tally"} \cup ScanPoints
             /\ pc' \in {"scan", "count", "sync", "tally", "upsert", "segment", "done"}
                            \cup ScanPoints
      <3>1. CASE \/ EnsureDeviceJson \/ WriteDeviceJson \/ Isolate \/ TrimTail
                 \/ NameRecovered \/ CountAfter
        BY <3>1 DEF EnsureDeviceJson, WriteDeviceJson, Isolate, TrimTail, NameRecovered,
            CountAfter, At, Continue, Halt, Go
      <3>2. CASE StartScan \/ ScanNext \/ RebuildHeader \/ CountBefore \/ EnsureOneWav
        BY <3>2 DEF StartScan, ScanNext, RebuildHeader, CountBefore, EnsureOneWav, At,
            Continue, Halt, Go
      <3> QED
        BY <1>10, <3>1, <3>2
    <2> QED
      BY <1>1, <2>1, <2>2, SameLog, SMTT(30) DEF Protocol
  <1> QED
    BY <1>4, <1>5, <1>6, <1>7, <1>8, <1>9, <1>10 DEF Boot

LEMMA BootReplacing ==
    ASSUME FileInv, LogInv, Boot
    PROVE  Replacing'
  <1>1. Types /\ Protocol /\ ram \in Ram
    BY DEF FileInv, Types, LogInv
  <1>2. CASE EnsureOneWav
    <2>1. pc' \in {"tally", "upsert", "done"} /\ man' = man /\ Exists("final")
      BY <1>1, <1>2, EnsureOneWavIs DEF EnsureOneWav, At, Protocol, card
    <2> QED
      BY <2>1, SameLog DEF Replacing, UpsertPoints, Files
  <1>3. CASE ~EnsureOneWav
    <2>1. pc' \notin UpsertPoints
      BY <1>1, <1>3, ScanNextIs, RebuildHeaderIs DEF Boot, EnsureDeviceJson,
          WriteDeviceJson, RecoverProbe, RecoverStep, RecoverRestore, RecoverRetire,
          RecoverSettle, RecoverPromote, CreateEmpty, WriteEmpty, RenameEmpty, StartScan,
          Isolate, TrimTail, NameRecovered, CountBefore, CountAfter, Continue, Halt, Go,
          UpsertPoints
    <2> QED
      BY <2>1 DEF Replacing, UpsertPoints
  <1> QED
    BY <1>2, <1>3

(* What a step does to the log: nothing, or one entry of a new id.          *)
Grows == /\ Install /\ View' = Append(View, Entry) /\ ~InView(Entry.id)
         /\ pc' = "verify" /\ Entry' = Entry

LEMMA FailedProtocol ==
    ASSUME Protocol, Exists("final") \/ Exists("bak"), man' = man,
           pc' \in {"finalize", "done", "sync", "segment"},
           pc' = "sync" => Exists("final")
    PROVE  LogInv' /\ View' = View
  BY SameLog DEF LogInv, Protocol, Replacing, ScanPoints, UpsertPoints, OpenPoints,
      ClosePoints, Files

LEMMA UpsertProtocol ==
    ASSUME FileInv, LogInv, Upsert
    PROVE  LogInv' /\ (View' = View \/ Grows)
  <1> USE DEF ScanPoints, UpsertPoints, OpenPoints, ClosePoints, Files
  <1>1. /\ Types /\ Located /\ Protocol /\ Replacing /\ ram \in Ram
        /\ man \in [Files -> Snapshots] /\ wav' = wav
        /\ (Exists("final") \/ Exists("bak")) /\ pc \in UpsertPoints
    BY DEF FileInv, Types, LogInv, Upsert, UpsertRead, RetireBackup, OpenTmp, WriteTmp,
        PublishTmp, SetAside, Install, Rollback, Verify, KeepOthers, At, Protocol
  <1>2. \A f \in Files : Exists(f) <=> man[f].kind # "absent"
    BY <1>1, Kinds
  <1>3. Valid("final") <=> Exists("final")
    BY <1>1, <1>2, Kinds DEF Valid, Protocol
  <1>4. ASSUME Failed, man' = man
        PROVE  LogInv' /\ View' = View
    BY <1>1, <1>2, <1>4, FailedProtocol DEF Failed
  <1>5. ASSUME Upserted, man' = man, Exists("final")
        PROVE  LogInv' /\ View' = View
    BY <1>1, <1>2, <1>5, FailedProtocol DEF Upserted
  <1>6. CASE UpsertRead
    <2>1. Appended \in Seq(Entries)
      BY <1>1, <1>2, AppendedType
    <2>2. pc = "upsert" /\ man' = man
      BY <1>6 DEF UpsertRead, At
    <2>3. CASE Upserted /\ IsListed(Entry)
      <3>1. man["final"].recs # <<>>
        BY <2>3 DEF IsListed
      <3>2. Exists("final")
        BY <1>1, <1>2, <3>1, Kinds
      <3> QED
        BY <1>5, <2>2, <2>3, <3>2
    <2>4. CASE /\ pc' = "backup" /\ SameSegment /\ SameScan /\ ram'.job = ram.job
               /\ ram'.cand = Appended /\ ~Listed(Entry.id)
      <3>1. Entry' = Entry
        BY <1>1, <2>4, SameEntry DEF SameSegment, SameScan
      <3>2. Appended' = Appended
        BY <2>2, <3>1 DEF Appended
      <3>3. Replacing'
        BY <1>1, <2>2, <2>4, <3>1, <3>2, SameLog DEF Replacing
      <3>4. Protocol' /\ View' = View
        BY <1>1, <1>2, <2>2, <2>4, SameLog DEF Protocol
      <3> QED
        BY <3>3, <3>4 DEF LogInv
    <2> QED
      BY <1>1, <1>4, <1>6, <2>1, <2>2, <2>3, <2>4, UpsertReadIs
  <1>7. CASE RetireBackup
    <2>1. pc = "backup" /\ ram.cand = Appended /\ ~Listed(Entry.id)
      BY <1>1, <1>7 DEF RetireBackup, At, Replacing
    <2>2. CASE /\ Exists("bak") => Extends("final", "bak")
               /\ man' = With("bak", Absent) /\ pc' = "tmpOpen" /\ ram' = ram
      <3>1. Exists("final")
        BY <1>1, <1>3, <2>2 DEF Extends
      <3>2. /\ man'["final"] = man["final"] /\ man'["bak"] = Absent
            /\ Exists("final")' /\ ~Exists("bak")'
        BY <1>1, <2>2, <3>1, Writes, DocIs
      <3>3. Entry' = Entry
        BY <1>1, <2>2, SameEntry
      <3>4. Appended' = Appended /\ (Listed(Entry.id)' <=> Listed(Entry.id))
        BY <3>2, <3>3 DEF Appended, Listed
      <3>5. Replacing'
        BY <2>1, <2>2, <3>2, <3>4 DEF Replacing
      <3>6. Protocol' /\ View' = View
        BY <1>1, <2>2, <3>1, <3>2, DocIs DEF Protocol, View
      <3> QED
        BY <3>5, <3>6 DEF LogInv
    <2>3. CASE JobFails /\ man' = man
      BY <1>1, <1>4, <2>3, JobFailsIs
    <2> QED
      BY <1>7, <2>2, <2>3 DEF RetireBackup, Continue, Go
  <1>8. CASE OpenTmp \/ WriteTmp
    <2>1. /\ Exists("final") /\ ~Exists("bak")
          /\ ram.cand = Appended /\ ~Listed(Entry.id)
      BY <1>1, <1>8 DEF OpenTmp, WriteTmp, At, Replacing
    <2>2. ASSUME NEW d \in {Torn, Absent, Doc(ram.cand)}, man' = With("tmp", d)
          PROVE  /\ man'["final"] = man["final"] /\ man'["bak"] = man["bak"]
                 /\ Exists("final")' /\ ~Exists("bak")' /\ man'["tmp"] = d
                 /\ View' = View
      <3>1. d \in Snapshots
        BY <1>1, DocIs DEF Ram
      <3>2. /\ man'["final"] = man["final"] /\ man'["bak"] = man["bak"]
            /\ Exists("final")' /\ ~Exists("bak")' /\ man'["tmp"] = d
        BY <1>1, <2>1, <2>2, <3>1, Writes
      <3> QED
        BY <2>1, <3>2 DEF View
    <2>3. CASE /\ \/ man' = With("tmp", Torn) /\ pc' = "tmpWrite"
                  \/ man' = With("tmp", Doc(ram.cand)) /\ pc' = "publish"
               /\ ram' = ram
      <3>1. Entry' = Entry
        BY <1>1, <2>3, SameEntry
      <3>2. Appended' = Appended /\ (Listed(Entry.id)' <=> Listed(Entry.id))
        BY <2>2, <2>3, <3>1 DEF Appended, Listed
      <3>3. Replacing'
        BY <2>1, <2>2, <2>3, <3>2 DEF Replacing
      <3>4. Protocol'
        BY <1>1, <2>1, <2>2, <2>3 DEF Protocol
      <3> QED
        BY <2>2, <2>3, <3>3, <3>4 DEF LogInv
    <2>4. CASE JobFails /\ man' \in {man, With("tmp", Absent)}
      <3>1. Failed
        BY <1>1, <2>4, JobFailsIs
      <3>2. CASE man' = With("tmp", Absent)
        <4>1. Protocol' /\ Replacing'
          BY <1>1, <2>1, <2>2, <3>1, <3>2 DEF Protocol, Failed, Replacing
        <4> QED
          BY <2>2, <3>2, <4>1 DEF LogInv
      <3> QED
        BY <1>4, <2>4, <3>1, <3>2
    <2> QED
      BY <1>8, <2>3, <2>4 DEF OpenTmp, WriteTmp, Continue, Go
  <1>9. CASE PublishTmp
    <2>1. /\ pc = "publish" /\ Exists("final") /\ ~Exists("bak")
          /\ ram.cand = Appended /\ ~Listed(Entry.id) /\ man["tmp"] = Doc(ram.cand)
          /\ man' = man
      BY <1>1, <1>9 DEF PublishTmp, At, Replacing
    <2>2. CASE ram' = ram /\ pc' = "aside"
      <3>1. Entry' = Entry
        BY <1>1, <2>2, SameEntry
      <3>2. Appended' = Appended /\ (Listed(Entry.id)' <=> Listed(Entry.id))
        BY <2>1, <3>1 DEF Appended, Listed
      <3> QED
        BY <1>1, <2>1, <2>2, <3>2, SameLog DEF LogInv, Protocol, Replacing
    <2> QED
      BY <1>1, <1>4, <1>9, <2>1, <2>2, JobFailsIs DEF PublishTmp, Continue, Go
  <1>10. CASE SetAside
    <2>1. /\ pc = "aside" /\ Exists("final") /\ ~Exists("bak")
          /\ ram.cand = Appended /\ ~Listed(Entry.id) /\ man["tmp"] = Doc(ram.cand)
      BY <1>1, <1>10 DEF SetAside, At, Replacing
    <2>2. CASE man' = Moved("final", "bak") /\ pc' = "install" /\ ram' = ram
      <3>1. /\ man'["bak"] = man["final"] /\ man'["final"] = Absent
            /\ man'["tmp"] = man["tmp"]
            /\ ~Exists("final")' /\ Exists("bak")'
        BY <1>1, <2>1, <2>2, Renames
      <3>2. View' = View /\ View = man["final"].recs
        BY <2>1, <3>1 DEF View
      <3>3. Entry' = Entry
        BY <1>1, <2>2, SameEntry
      <3>4. ~InView(Entry.id)'
        BY <2>1, <3>2, <3>3 DEF InView, Listed
      <3>5. Replacing'
        BY <2>1, <2>2, <3>1, <3>3, <3>4 DEF Replacing, Appended
      <3>6. Protocol'
        BY <1>1, <2>2, <3>1, DocIs DEF Protocol
      <3> QED
        BY <3>2, <3>5, <3>6 DEF LogInv
    <2> QED
      BY <1>1, <1>4, <1>10, <2>2, JobFailsIs DEF SetAside, Continue, Go
  <1>11. CASE Install \/ Rollback
    <2>1. /\ pc \in {"install", "rollback"} /\ Exists("bak") /\ ~Exists("final")
          /\ ram.cand = Append(man["bak"].recs, Entry) /\ ~InView(Entry.id)
          /\ pc = "install" => man["tmp"] = Doc(ram.cand)
          /\ View = man["bak"].recs
      BY <1>1, <1>11 DEF Install, Rollback, At, Replacing, View
    <2>2. CASE Install /\ man' = Moved("tmp", "final") /\ pc' = "verify"
      <3>0. man["tmp"] = Doc(ram.cand) /\ Doc(ram.cand) # Absent
            /\ Doc(ram.cand).recs = ram.cand /\ Doc(ram.cand).kind = "doc"
        BY <1>1, <2>1, <2>2, DocIs DEF Install, At, Ram
      <3>1. /\ man'["final"] = man["tmp"] /\ man'["bak"] = man["bak"]
            /\ Exists("final")' /\ Exists("bak")'
        <4>1. Exists("tmp")
          BY <3>0 DEF Exists
        <4> QED
          BY <1>1, <2>1, <2>2, <4>1, Renames
      <3>2. View' = Append(View, Entry)
        BY <2>1, <3>0, <3>1 DEF View
      <3>3. Entry' = Entry
        BY <1>1, <2>2, SameEntry DEF Install
      <3>4. Reaches(Entry)'
        <4>1. View \in Seq(Entries) /\ Entry \in Entries
          BY <1>1, ViewType, EntryType
        <4>2. Len(View') = Len(View) + 1 /\ View'[Len(View) + 1] = Entry /\ Len(View) \in Nat
          BY <3>2, <4>1
        <4>3. \E k \in 1..Len(View') : View'[k] = Entry'
          BY <3>3, <4>2
        <4> QED
          BY <4>3 DEF Reaches
      <3>5. Replacing'
        BY <2>2, <3>1, <3>4 DEF Replacing
      <3>6. Protocol'
        BY <1>1, <2>2, <3>0, <3>1 DEF Protocol
      <3> QED
        BY <2>1, <2>2, <3>2, <3>3, <3>5, <3>6 DEF LogInv, Grows
    <2>3. CASE Install /\ pc' = "rollback" /\ man' = man
      <3>1. Entry' = Entry /\ ram' = ram
        BY <1>1, <2>3, SameEntry DEF Install
      <3>2. ~InView(Entry.id)'
        BY <2>1, <2>3, <3>1, SameLog DEF InView
      <3> QED
        BY <1>1, <1>2, <2>1, <2>3, <3>1, <3>2, SameLog DEF LogInv, Protocol, Replacing
    <2>4. CASE Rollback /\ man' = Moved("bak", "final")
      <3>1. /\ man'["final"] = man["bak"] /\ man'["bak"] = Absent
            /\ Exists("final")' /\ ~Exists("bak")'
        BY <1>1, <2>1, <2>4, Renames
      <3>2. View' = View
        BY <2>1, <3>1 DEF View
      <3>3. pc' \in {"finalize", "done"}
        BY <1>1, <2>4, JobFailsIs DEF Rollback, Failed
      <3> QED
        BY <1>1, <3>1, <3>2, <3>3, DocIs DEF LogInv, Protocol, Replacing
    <2>5. CASE Rollback /\ man' = man
      BY <1>1, <1>4, <2>5, JobFailsIs DEF Rollback
    <2> QED
      BY <1>11, <2>2, <2>3, <2>4, <2>5 DEF Install, Rollback, Continue, Go
  <1>12. CASE Verify
    <2>1. Exists("final") /\ man' = man
      BY <1>1, <1>12 DEF Verify, At, Replacing
    <2> QED
      BY <1>1, <1>4, <1>5, <1>12, <2>1, JobFailsIs, UpsertDoneIs DEF Verify
  <1> QED
    BY <1>6, <1>7, <1>8, <1>9, <1>10, <1>11, <1>12 DEF Upsert

LEMMA RecordProtocol ==
    ASSUME FileInv, LogInv, Record
    PROVE  LogInv' /\ View' = View
  <1>1. Types /\ Located /\ Protocol /\ ram \in Ram
    BY DEF FileInv, Types, LogInv
  <1>2. man' = man
    BY DEF Record, NewSegment, MakeDateDir, Admit, OpenPart, WriteHeader, WriteChunk, Flush,
        Rotate, StopRequest, FinalizeOnce, CloseSink, RenamePart, RecordWav, card, WavOnly
  <1>3. pc \in OpenPoints \cup ClosePoints \cup {"segment", "rec"}
    BY DEF Record, NewSegment, MakeDateDir, Admit, OpenPart, WriteHeader, WriteChunk, Flush,
        Rotate, StopRequest, FinalizeOnce, CloseSink, RenamePart, RecordWav, At, OpenPoints,
        ClosePoints
  <1>4. /\ pc' \in OpenPoints \cup ClosePoints \cup {"rec", "upsert", "done"}
        /\ pc' = "upsert" => ram' = ram /\ pc = "record"
    BY DEF Record, NewSegment, MakeDateDir, Admit, OpenPart, WriteHeader, WriteChunk, Flush,
        Rotate, StopRequest, FinalizeOnce, CloseSink, RenamePart, RecordWav, At, Leave,
        JobFails, Continue, Go, OpenPoints, ClosePoints
  <1>5. pc' = "upsert" => ram'.job # "sync"
    BY <1>1, <1>4 DEF Located, ClosePoints
  <1>6. Protocol' /\ View' = View
    BY <1>1, <1>2, <1>3, <1>4, SameLog DEF Protocol, ScanPoints, UpsertPoints, OpenPoints,
        ClosePoints, Files
  <1>7. Replacing'
    BY <1>4, <1>5 DEF Replacing, UpsertPoints, OpenPoints, ClosePoints
  <1> QED
    BY <1>6, <1>7 DEF LogInv

LEMMA PowerProtocol ==
    ASSUME FileInv, LogInv, PowerOn \/ PowerCut \/ \E i \in Ids : HostChanges(i)
    PROVE  LogInv' /\ View' = View
  <1>1. man' = man /\ pc' \in {"device", "off", "done"} /\ Protocol
    BY DEF PowerOn, PowerCut, HostChanges, card, Go, LogInv
  <1>2. Protocol' /\ View' = View
    BY <1>1, SameLog DEF Protocol, ScanPoints, UpsertPoints, OpenPoints, ClosePoints, Files
  <1>3. Replacing'
    BY <1>1 DEF Replacing, UpsertPoints
  <1> QED
    BY <1>2, <1>3 DEF LogInv

LEMMA LogInvKept ==
    ASSUME FileInv, LogInv, Next
    PROVE  LogInv' /\ (View' = View \/ Grows)
  BY BootProtocol, BootReplacing, UpsertProtocol, RecordProtocol, PowerProtocol
  DEF Next, Writer, LogInv

LEMMA LogInvInit ==
    ASSUME Init
    PROVE  LogInv /\ View = <<>>
  <1>1. \A f \in Files : ~Exists(f) /\ man[f].recs = <<>> /\ man[f].kind = "absent"
    BY DocIs DEF Init, Exists
  <1> QED
    BY <1>1 DEF Init, LogInv, Protocol, Replacing, View, Files, ScanPoints, UpsertPoints,
        OpenPoints, ClosePoints

LEMMA LogInvAlways == Spec => [](FileInv /\ LogInv)
  <1>1. FileInv /\ LogInv /\ [Next]_vars => LogInv'
    <2>1. ASSUME LogInv, UNCHANGED vars PROVE LogInv'
      <3>1. man' = man /\ wav' = wav /\ ram' = ram /\ pc' = pc
        BY <2>1 DEF vars
      <3>2. Entry' = Entry
        BY <3>1, SameEntry
      <3>3. Appended' = Appended
        BY <3>1, <3>2 DEF Appended
      <3> QED
        BY <2>1, <3>1, <3>2, <3>3, SameLog DEF LogInv, Protocol, Replacing, Files
    <2> QED
      BY <2>1, LogInvKept
  <1> QED
    BY <1>1, FileInvAlways, LogInvInit, PTL DEF Spec

(* SegmentStore implements ManifestLog: whatever the replacement protocol,  *)
(* its rollback, the recovery, a power cut or a failing operation do to the *)
(* three files, what a reader gets at starts empty and grows by one entry   *)
(* of a new recordingId at a time (write_tmp_and_rename,                    *)
(* device_manifest_recover_tmp).                                            *)
THEOREM ManifestIsLog == Spec => AppendOnly
  <1>1. Init => Log!Init
    BY LogInvInit DEF Log!Init
  <1>2. FileInv /\ LogInv /\ [Next]_vars => [Log!Next]_View
    <2>1. ASSUME FileInv, LogInv, Next PROVE [Log!Next]_View
      <3>1. CASE View' = View
        BY <3>1
      <3>2. CASE Grows
        <4>1. Entry \in Entries
          BY <2>1, <3>2, EntryType DEF FileInv, Grows, Install, At, UpsertPoints
        <4>2. Log!Extend(Entry)
          BY <3>2 DEF Log!Extend, Grows, InView
        <4> QED
          BY <4>1, <4>2 DEF Log!Next
      <3> QED
        BY <2>1, <3>1, <3>2, LogInvKept
    <2>2. ASSUME UNCHANGED vars PROVE View' = View
      BY <2>2, SameLog DEF vars
    <2> QED
      BY <2>1, <2>2
  <1>3. Spec => Log!Spec
    BY <1>1, <1>2, LogInvAlways, PTL DEF Spec, Log!Spec
  <1> QED
    BY <1>3 DEF AppendOnly

-----------------------------------------------------------------------------
(* The inventory of the boot scan.  A recording and the entry it must have. *)
Recorded(i) == [id |-> i, file |-> i, size |-> wav[i].size, tag |-> wav[i].tag]

(* The recordings of S are listed with the bytes they have, and counted.    *)
Tells(S) == /\ ram.indexed = Cardinality(S)
            /\ \A i \in S : Reaches(Recorded(i))

(* The scan has listed and counted the WAVs it is through with, and lets    *)
(* recording start only when the manifest has as many entries as there are. *)
Surveyed ==
    /\ pc = "sync" => ram.todo \subseteq Wavs /\ Tells(Wavs \ ram.todo)
    /\ pc \in UpsertPoints /\ ram.job = "sync" =>
           /\ ram.todo \subseteq Wavs /\ ram.cur \in Wavs \ ram.todo
           /\ Tells(Wavs \ (ram.todo \cup {ram.cur}))
    /\ pc = "tally" => Tells(Wavs)
    /\ pc = "segment" /\ ram.job = "sync" =>
           Exists("final") /\ Len(View) = ram.indexed /\ Tells(Wavs)

(* The log never loses an entry.                                            *)
LEMMA LogKept ==
    ASSUME FileInv, View' = View \/ Grows
    PROVE  /\ \A e : Reaches(e) => Reaches(e)'
           /\ \A i : InView(i) => InView(i)'
           /\ Len(View') >= Len(View) /\ Len(View) \in Nat /\ Len(View') \in Nat
  <1>1. View \in Seq(Entries) /\ Len(View) \in Nat
    BY ViewType DEF FileInv
  <1>2. CASE View' = View
    BY <1>1, <1>2 DEF Reaches, InView
  <1>3. CASE Grows
    <2>1. View' = Append(View, Entry) /\ Entry \in Entries
      BY <1>3, EntryType DEF FileInv, Grows, Install, At, UpsertPoints
    <2>2. Len(View') = Len(View) + 1 /\ \A k \in 1..Len(View) : View'[k] = View[k]
      BY <1>1, <2>1
    <2>3. \A k \in 1..Len(View) : k \in 1..Len(View')
      BY <1>1, <2>2
    <2> QED
      BY <1>1, <2>2, <2>3 DEF Reaches, InView
  <1> QED
    BY <1>2, <1>3

(* An upsert fails, is done with its entry listed, or goes on.              *)
LEMMA UpsertIs ==
    ASSUME FileInv, LogInv, Upsert
    PROVE  /\ pc \in UpsertPoints /\ wav' = wav /\ used' = used
           /\ \/ Failed
              \/ Upserted /\ man' = man /\ Reaches(Entry)
              \/ /\ pc' \in UpsertPoints \ {"upsert"} /\ ram' \in Ram /\ err' = err
                 /\ SameSegment /\ SameScan /\ ram'.job = ram.job
  <1>1. Types /\ Located /\ Protocol /\ Replacing /\ ram \in Ram
    BY DEF FileInv, Types, LogInv
  <1>2. pc \in UpsertPoints /\ wav' = wav /\ used' = used
    BY DEF Upsert, UpsertRead, RetireBackup, OpenTmp, WriteTmp, PublishTmp, SetAside,
        Install, Rollback, Verify, KeepOthers, At, UpsertPoints
  <1>3. CASE UpsertRead
    <2>1. Appended \in Seq(Entries) /\ man' = man
      BY <1>1, <1>2, <1>3, AppendedType DEF UpsertRead
    <2>2. IsListed(Entry) => Reaches(Entry)
      <3>1. ASSUME ~Exists("final") PROVE man["final"].recs = <<>>
        BY <1>1, <3>1, Kinds DEF Files
      <3>2. ASSUME IsListed(Entry) PROVE Exists("final")
        BY <3>1, <3>2 DEF IsListed
      <3> QED
        BY <3>2 DEF IsListed, Reaches, View
    <2> QED
      BY <1>1, <1>2, <1>3, <2>1, <2>2, UpsertReadIs DEF UpsertPoints
  <1>4. CASE Verify
    BY <1>1, <1>2, <1>4, JobFailsIs, UpsertDoneIs DEF Verify, At, Replacing
  <1>5. CASE RetireBackup \/ OpenTmp \/ WriteTmp \/ PublishTmp \/ SetAside \/ Install \/ Rollback
    <2>1. JobFails \/ (ram' = ram /\ err' = err /\ pc' \in UpsertPoints \ {"upsert"})
      BY <1>5 DEF RetireBackup, OpenTmp, WriteTmp, PublishTmp, SetAside, Install, Rollback,
          Continue, Go, UpsertPoints
    <2> QED
      BY <1>1, <1>2, <2>1, JobFailsIs DEF SameSegment, SameScan
  <1> QED
    BY <1>3, <1>4, <1>5 DEF Upsert

LEMMA WavsFinite ==
    /\ IsFiniteSet(Wavs) /\ Wavs \subseteq Ids /\ IsFiniteSet(Ids)
    /\ \A S \in SUBSET Ids : IsFiniteSet(S) /\ Cardinality(S) \in Nat
  <1>1. IsFiniteSet(Ids)
    BY FS_Interval, BoundsAssumption DEF Ids
  <1> QED
    BY <1>1, FS_Subset, FS_CardinalityType DEF Wavs

LEMMA SurveyedKept ==
    ASSUME FileInv, LogInv, Surveyed, Next
    PROVE  Surveyed'
  <1>1. /\ ram \in Ram /\ man \in [Files -> Snapshots] /\ Located /\ Protocol
    BY DEF FileInv, Types, LogInv
  <1>2. \A e : Reaches(e) => Reaches(e)'
    BY LogInvKept, LogKept
  <1>3. ASSUME wav' = wav
        PROVE  /\ Wavs' = Wavs /\ \A i : Recorded(i)' = Recorded(i)
               /\ \A S : ram'.indexed = ram.indexed /\ Tells(S) => Tells(S)'
    BY <1>2, <1>3 DEF Wavs, Recorded, Tells
  <1>4. CASE CountBefore
    <2>1. wav' = wav /\ pc' \in {"sync", "done"}
          /\ (pc' = "sync" => ram'.todo = Wavs /\ ram'.indexed = 0)
      BY <1>1, <1>4, CountBeforeIs DEF CountBefore, card
    <2>2. Cardinality({}) = 0 /\ Wavs \ Wavs = {}
      BY FS_EmptySet
    <2> QED
      BY <1>3, <2>1, <2>2 DEF Surveyed, Tells, UpsertPoints
  <1>5. CASE EnsureOneWav
    <2>1. /\ wav' = wav /\ ram'.indexed = ram.indexed /\ ram.todo \subseteq Wavs
          /\ Tells(Wavs \ ram.todo)
      BY <1>1, <1>5, EnsureOneWavIs DEF EnsureOneWav, At, card, Surveyed
    <2>2. CASE pc' = "tally" /\ ram.todo = {}
      <3>1. Wavs \ ram.todo = Wavs
        BY <2>2
      <3> QED
        BY <1>3, <2>1, <2>2, <3>1 DEF Surveyed, UpsertPoints
    <2>3. CASE /\ pc' = "upsert" /\ ram'.cur \in ram.todo
               /\ ram'.todo = ram.todo \ {ram'.cur}
      <3>1. PICK T : T = Wavs \ ram.todo
        OBVIOUS
      <3>2. /\ ram'.todo \subseteq Wavs' /\ ram'.cur \in Wavs' \ ram'.todo
            /\ T = Wavs' \ (ram'.todo \cup {ram'.cur}) /\ Tells(T)'
        BY <1>3, <2>1, <2>3, <3>1
      <3> QED
        BY <2>3, <3>2 DEF Surveyed, UpsertPoints, Tells
    <2>4. CASE pc' = "done"
      BY <2>4 DEF Surveyed, UpsertPoints
    <2> QED
      BY <1>1, <1>5, <2>2, <2>3, <2>4, EnsureOneWavIs
  <1>6. CASE CountAfter
    <2>1. /\ pc = "tally" /\ wav' = wav /\ ram' = ram /\ man' = man /\ Tells(Wavs)
          /\ Exists("final") /\ pc' \in {"segment", "done"}
          /\ pc' = "segment" => Len(man["final"].recs) = ram.indexed
      BY <1>1, <1>6 DEF CountAfter, At, Same, card, Surveyed, Protocol, Continue, Halt, Go,
          Tallies
    <2>2. Exists("final")' /\ View' = man["final"].recs
      BY <2>1, SameLog DEF View, Files
    <2> QED
      BY <1>3, <2>1, <2>2 DEF Surveyed, UpsertPoints
  <1>7. CASE Upsert
    <2>1. pc \in UpsertPoints /\ wav' = wav
      BY <1>7, UpsertIs
    <2>2. CASE Failed
      BY <2>2 DEF Surveyed, Failed, UpsertPoints
    <2>3. CASE /\ pc' \in UpsertPoints /\ SameScan /\ ram'.job = ram.job
      <3>1. pc' \notin {"sync", "tally", "segment"}
        BY <2>3 DEF UpsertPoints
      <3>2. PICK T : T = Wavs \ (ram.todo \cup {ram.cur})
        OBVIOUS
      <3>3. ASSUME ram'.job = "sync"
            PROVE  /\ ram'.todo \subseteq Wavs' /\ ram'.cur \in Wavs' \ ram'.todo
                   /\ T = Wavs' \ (ram'.todo \cup {ram'.cur}) /\ Tells(T)'
        BY <1>3, <2>1, <2>3, <3>2, <3>3 DEF Surveyed, SameScan
      <3> QED
        BY <2>3, <3>1, <3>3 DEF Surveyed, Tells
    <2>4. CASE Upserted /\ man' = man /\ Reaches(Entry)
      <3>1. CASE ram.job # "sync"
        BY <2>4, <3>1 DEF Surveyed, Upserted, SameJob, UpsertPoints
      <3>2. CASE ram.job = "sync"
        <4> DEFINE S == Wavs \ (ram.todo \cup {ram.cur})
        <4>1. /\ ram.todo \subseteq Wavs /\ ram.cur \in Wavs \ ram.todo /\ Tells(S)
          BY <2>1, <3>2 DEF Surveyed
        <4>2. Wavs \ ram.todo = S \cup {ram.cur} /\ ram.cur \notin S
          BY <4>1
        <4>3. IsFiniteSet(S)
          BY WavsFinite, FS_Subset
        <4>4. Cardinality(Wavs \ ram.todo) = Cardinality(S) + 1
          BY <4>2, <4>3, FS_AddElement
        <4>5. Entry = Recorded(ram.cur)
          BY <3>2 DEF Entry, Recorded
        <4>6. \A i \in Wavs \ ram.todo : Reaches(Recorded(i))
          BY <2>4, <4>1, <4>2, <4>5 DEF Tells
        <4>7. \A i \in Wavs \ ram.todo : Reaches(Recorded(i))'
          BY <1>2, <1>3, <2>1, <4>6
        <4>8. /\ pc' = "sync" /\ ram'.todo = ram.todo /\ ram'.indexed = Cardinality(S) + 1
          BY <2>4, <3>2, <4>1 DEF Upserted, Tells
        <4> HIDE DEF S
        <4> QED
          BY <1>3, <2>1, <4>1, <4>4, <4>7, <4>8 DEF Surveyed, Tells, UpsertPoints
      <3> QED
        BY <3>1, <3>2
    <2> QED
      BY <1>7, <2>2, <2>3, <2>4, UpsertIs
  <1>8. CASE Record
    <2>1. /\ pc' \in OpenPoints \cup ClosePoints \cup {"rec", "upsert", "done"}
          /\ pc' = "upsert" => ram' = ram /\ pc = "record"
      BY <1>8 DEF Record, NewSegment, MakeDateDir, Admit, OpenPart, WriteHeader, WriteChunk,
          Flush, Rotate, StopRequest, FinalizeOnce, CloseSink, RenamePart, RecordWav, At,
          Leave, JobFails, Continue, Go, OpenPoints, ClosePoints
    <2>2. pc' = "upsert" => ram'.job # "sync"
      BY <1>1, <2>1 DEF Located, ClosePoints
    <2> QED
      BY <2>1, <2>2 DEF Surveyed, OpenPoints, ClosePoints, UpsertPoints
  <1>9. CASE PowerOn \/ PowerCut \/ \E i \in Ids : HostChanges(i)
    <2>1. pc' \in {"device", "off", "done"}
      BY <1>9 DEF PowerOn, PowerCut, HostChanges, Go
    <2> QED
      BY <2>1 DEF Surveyed, UpsertPoints
  <1>10. CASE Boot /\ ~CountBefore /\ ~EnsureOneWav /\ ~CountAfter
    <2>1. pc' \notin UpsertPoints \cup {"sync", "tally", "segment"}
      BY <1>1, <1>10, ScanNextIs, RebuildHeaderIs DEF Boot, EnsureDeviceJson,
          WriteDeviceJson, RecoverProbe, RecoverStep, RecoverRestore, RecoverRetire,
          RecoverSettle, RecoverPromote, CreateEmpty, WriteEmpty, RenameEmpty, StartScan,
          Isolate, TrimTail, NameRecovered, Continue, Halt, Go, UpsertPoints
    <2> QED
      BY <2>1 DEF Surveyed
  <1> QED
    BY <1>4, <1>5, <1>6, <1>7, <1>8, <1>9, <1>10 DEF Next, Writer

LEMMA SurveyedAlways == Spec => []Surveyed
  <1>1. Init => Surveyed
    BY DEF Init, Surveyed, UpsertPoints
  <1>2. FileInv /\ LogInv /\ Surveyed /\ [Next]_vars => Surveyed'
    <2>1. ASSUME Surveyed, UNCHANGED vars PROVE Surveyed'
      <3>1. man' = man /\ wav' = wav /\ ram' = ram /\ pc' = pc
        BY <2>1 DEF vars
      <3> QED
        BY <2>1, <3>1, SameLog DEF Surveyed, Tells, Recorded, Wavs, Files
    <2> QED
      BY <2>1, SurveyedKept
  <1> QED
    BY <1>1, <1>2, LogInvAlways, PTL DEF Spec

(* As many entries as recordings, and every recording listed under its own  *)
(* id: then there is nothing else in the list.                              *)
LEMMA OneEach ==
    ASSUME Types, Len(View) = Cardinality(Wavs), \A i \in Wavs : Reaches(Recorded(i))
    PROVE  /\ \A k \in 1..Len(View) : \E i \in Wavs : View[k] = Recorded(i)
           /\ \A j, k \in 1..Len(View) : View[j].id = View[k].id => j = k
  <1> DEFINE f == [i \in Wavs |-> CHOOSE k \in 1..Len(View) : View[k] = Recorded(i)]
  <1>1. f \in [Wavs -> 1..Len(View)] /\ \A i \in Wavs : View[f[i]] = Recorded(i)
    BY DEF Reaches
  <1>2. \A i : Recorded(i).id = i
    BY DEF Recorded
  <1>3. \A i, j \in Wavs : f[i] = f[j] => i = j
    <2>1. ASSUME NEW i \in Wavs, NEW j \in Wavs, f[i] = f[j] PROVE i = j
      <3>1. Recorded(i) = Recorded(j)
        BY <1>1, <2>1
      <3> QED
        BY <1>2, <3>1
    <2> QED
      BY <2>1
  <1> HIDE DEF f
  <1>4. f \in Injection(Wavs, 1..Len(View))
    BY <1>1, <1>3 DEF Injection, IsInjective
  <1>5. IsFiniteSet(1..Len(View)) /\ Cardinality(1..Len(View)) = Len(View)
    <2>1. Len(View) \in Nat
      BY ViewType
    <2> QED
      BY <2>1, FS_Interval
  <1>6. f \in Surjection(Wavs, 1..Len(View))
    BY <1>4, <1>5, FS_Injection
  <1>7. \A k \in 1..Len(View) : \E i \in Wavs : f[i] = k
    BY <1>6 DEF Surjection
  <1>8. ASSUME NEW k \in 1..Len(View) PROVE \E i \in Wavs : View[k] = Recorded(i) /\ f[i] = k
    BY <1>1, <1>7
  <1>9. ASSUME NEW j \in 1..Len(View), NEW k \in 1..Len(View), View[j].id = View[k].id
        PROVE  j = k
    <2>1. PICK i \in Wavs : View[j] = Recorded(i) /\ f[i] = j
      BY <1>8
    <2>2. PICK h \in Wavs : View[k] = Recorded(h) /\ f[h] = k
      BY <1>8
    <2>3. i = h
      BY <1>2, <1>9, <2>1, <2>2
    <2> QED
      BY <2>1, <2>2, <2>3
  <1> QED
    BY <1>8, <1>9

(* When the boot scan lets recording start, the manifest is the inventory   *)
(* of the card: every WAV once, under its own recordingId and with the      *)
(* bytes it has, and no other entry (device_manifest_sync_wav_dir).  The    *)
(* scan finds each WAV listed and the tally finds no more entries; the      *)
(* rest is counting.                                                        *)
THEOREM InventoryIsComplete == Spec => []HealthyIsComplete
  <1>1. ASSUME FileInv, Surveyed PROVE HealthyIsComplete
    <2> SUFFICES ASSUME pc = "segment", ram.job = "sync"
                 PROVE  HealthyIsComplete
      BY DEF HealthyIsComplete
    <2>1. Exists("final") /\ Len(View) = Cardinality(Wavs) /\ \A i \in Wavs : Reaches(Recorded(i))
      BY <1>1 DEF Surveyed, Tells
    <2>2. View = man["final"].recs
      BY <2>1 DEF View
    <2>3. /\ \A k \in 1..Len(View) : \E i \in Wavs : View[k] = Recorded(i)
          /\ \A j, k \in 1..Len(View) : View[j].id = View[k].id => j = k
      BY <1>1, <2>1, OneEach DEF FileInv
    <2>4. \A i : /\ Recorded(i).id = i /\ Recorded(i).file = i
                 /\ Recorded(i).size = wav[i].size /\ Recorded(i).tag = wav[i].tag
      BY DEF Recorded
    <2>5. \A k \in 1..Len(View) :
              /\ View[k].file \in Wavs /\ View[k].id = View[k].file
              /\ View[k].size = wav[View[k].file].size
              /\ View[k].tag = wav[View[k].file].tag
      BY <2>3, <2>4
    <2>6. {View[k].file : k \in 1..Len(View)} = Wavs
      <3>1. ASSUME NEW i \in Wavs PROVE \E k \in 1..Len(View) : View[k].file = i
        BY <2>1, <2>4 DEF Reaches
      <3> QED
        BY <2>5, <3>1
    <2>7. \A j, k \in 1..Len(View) : View[j].file = View[k].file => j = k
      BY <2>3, <2>5
    <2> QED
      BY <2>2, <2>5, <2>6, <2>7 DEF HealthyIsComplete
  <1> QED
    BY <1>1, LogInvAlways, SurveyedAlways, PTL

-----------------------------------------------------------------------------
(* Where a segment is being written, where the next one is being opened by  *)
(* a rotation, and where a segment is being closed and listed.              *)
Recording == pc \in {"rec", "close", "rename"} \/ (pc = "finalize" /\ ~ram.called)
Opening == pc \in OpenPoints \cup {"segment"} /\ ram.job = "rotate"
Closing == pc \in ClosePoints \cup UpsertPoints /\ ram.job # "sync"

(* Where the boot scan remembers how many entries there were before it.     *)
Surveying == pc \in {"sync", "tally"} \/ (pc \in UpsertPoints /\ ram.job = "sync")

(* Every id in the log was drawn, and that of the segment being written is  *)
(* not in it yet; the file of a segment that was finalized is a WAV, and    *)
(* nothing is entered that was not.                                         *)
Numbered ==
    /\ ram.seg <= used /\ \A k \in 1..Len(View) : View[k].id <= used
    /\ pc \in OpenPoints \/ Recording => ~InView(ram.seg)
    /\ Recording \/ (Closing /\ ram.job = "rotate") => ram.seg = ram.file
    /\ pc \notin {"off", "done"} /\ ram.fin => wav[ram.file].place = "wav"
    /\ ram.job = "sync" => ~ram.fin
    /\ pc \in {"close", "rename"} => ram.called
    /\ pc = "record" \/ (pc \in UpsertPoints /\ ram.job # "sync") \/ Opening
           => ram.called /\ ram.fin
    /\ pc = "segment" /\ ram.job = "rotate" => ram.seg = ram.file /\ Reaches(Entry)
    /\ Surveying => ram.before <= Len(View)

LEMMA BootIs ==
    ASSUME FileInv, LogInv, Boot
    PROVE  /\ pc \in BootPoints /\ pc' \in BootPoints \cup {"upsert", "segment", "done"}
           /\ ram' \in Ram /\ SameSegment /\ ram.job = "sync" /\ ram'.job = "sync"
           /\ used' = used /\ View' = View
  <1>1. ram \in Ram /\ man \in [Files -> Snapshots] /\ Located
    BY SMTT(30) DEF FileInv, Types
  <1>2. pc \in BootPoints /\ used' = used
    BY DEF Boot, EnsureDeviceJson, WriteDeviceJson, RecoverProbe, RecoverRestore,
        RecoverRetire, RecoverSettle, RecoverPromote, CreateEmpty, WriteEmpty, RenameEmpty,
        StartScan, ScanNext, Isolate, RebuildHeader, TrimTail, NameRecovered, CountBefore,
        EnsureOneWav, CountAfter, Same, ManOnly, WavOnly, At, BootPoints, ScanPoints
  <1>3. ram.job = "sync"
    BY <1>1, <1>2 DEF Located
  <1>0. View' = View
    BY BootProtocol
  <1>4. CASE \/ EnsureDeviceJson \/ WriteDeviceJson \/ RecoverProbe \/ RecoverRestore
             \/ RecoverRetire \/ RecoverSettle \/ RecoverPromote \/ CreateEmpty
             \/ WriteEmpty \/ RenameEmpty \/ TrimTail \/ CountAfter
    BY <1>0, <1>1, <1>2, <1>3, <1>4 DEF EnsureDeviceJson, WriteDeviceJson, RecoverProbe,
        RecoverStep, RecoverRestore, RecoverRetire, RecoverSettle, RecoverPromote,
        CreateEmpty, WriteEmpty, RenameEmpty, TrimTail, CountAfter, Same, ManOnly, Continue,
        Halt, Go, SameSegment, BootPoints, ScanPoints
  <1>5. CASE Isolate \/ NameRecovered
    BY <1>0, <1>1, <1>2, <1>3, <1>5, RestIs DEF Isolate, NameRecovered, Continue, Go, SameJob,
        BootPoints, ScanPoints
  <1>6. CASE StartScan \/ ScanNext \/ RebuildHeader
    BY <1>0, <1>1, <1>2, <1>3, <1>6, StartScanIs, ScanNextIs, RebuildHeaderIs, RestIs DEF SameJob,
        SameSegment, BootPoints, ScanPoints
  <1>7. CASE CountBefore \/ EnsureOneWav
    BY <1>0, <1>1, <1>2, <1>3, <1>7, CountBeforeIs, EnsureOneWavIs DEF SameJob, BootPoints
  <1> QED
    BY <1>4, <1>5, <1>6, <1>7 DEF Boot

(* The steps of a segment that leave every file and the log alone.          *)
LEMMA DirAdmitIs ==
    ASSUME FileInv, MakeDateDir \/ Admit
    PROVE  /\ pc \in {"mkdir", "admit"} /\ man' = man /\ wav' = wav /\ used' = used
           /\ \/ /\ pc' \in {"admit", "open"} /\ ram' = ram /\ err' = err /\ NoFault
                 /\ pc' = "open" => AppendRoom
              \/ Failed /\ NoFault /\ pc = "admit" /\ ~AppendRoom
              \/ Failed /\ (Fault("io") \/ Fault("full"))
  <1>1. ram \in Ram
    BY DEF FileInv, Types
  <1> QED
    BY <1>1, JobFailsIs DEF MakeDateDir, Admit, At, card, Continue, Go

LEMMA RecordWavIs ==
    ASSUME FileInv, RecordWav
    PROVE  /\ pc = "record" /\ man' = man /\ wav' = wav /\ used' = used
           /\ \/ /\ pc' = "upsert" /\ ram' = ram /\ err' = err /\ NoFault
                 /\ Indexable(wav[ram.file])
              \/ Failed /\ NoFault /\ ~Indexable(wav[ram.file])
              \/ Failed /\ Fault("io")
  <1>1. ram \in Ram
    BY DEF FileInv, Types
  <1> QED
    BY <1>1, JobFailsIs DEF RecordWav, At, card, Continue, Go

LEMMA LeavesIs ==
    ASSUME FileInv, Rotate \/ StopRequest
    PROVE  /\ pc = "rec" /\ man' = man /\ wav' = wav /\ used' = used /\ err' = err
           /\ ram' \in Ram /\ SameSegment /\ SameScan /\ ram'.cand = ram.cand /\ NoFault
           /\ ram'.job \in {"rotate", "stop"} /\ pc' = "finalize"
  <1>1. ram \in Ram
    BY DEF FileInv, Types
  <1> QED
    BY <1>1, LeaveIs DEF Rotate, StopRequest, At, card

(* An entry is of a recording, or of a segment, whose id was drawn.         *)
LEMMA EntryDrawn ==
    ASSUME FileInv, Surveyed, Numbered, pc \in UpsertPoints
    PROVE  Entry.id <= used
  <1>1. CASE ram.job = "sync"
    <2>1. ram.cur \in Wavs
      BY <1>1 DEF Surveyed
    <2>2. ram.cur \in Ids /\ wav[ram.cur].place = "wav"
      BY <2>1 DEF Wavs
    <2>3. wav[ram.cur] # NoWav
      BY <2>2 DEF NoWav
    <2>4. ~(ram.cur > used) /\ used \in Nat /\ ram.cur \in Nat
      BY <2>2, <2>3, BoundsAssumption DEF FileInv, Counted, Types, Ids
    <2> QED
      BY <1>1, <2>4 DEF Entry
  <1>2. CASE ram.job # "sync"
    BY <1>2 DEF Entry, Numbered
  <1> QED
    BY <1>1, <1>2

LEMMA NumberedKept ==
    ASSUME FileInv, LogInv, Surveyed, Numbered, Next
    PROVE  Numbered'
  <1> USE DEF BootPoints, ScanPoints, UpsertPoints, OpenPoints, ClosePoints
  <1>1. /\ ram \in Ram /\ Types /\ Located /\ Counted /\ View \in Seq(Entries)
        /\ used \in Nat /\ Located'
    BY ViewType, FileInvKept, BoundsAssumption, SMTT(30) DEF FileInv, Types
  <1>2. /\ \A e : Reaches(e) => Reaches(e)'
        /\ Len(View') >= Len(View) /\ Len(View) \in Nat /\ Len(View') \in Nat
    BY LogInvKept, LogKept
  <1>9. \A k \in 1..Len(View) : View[k].id \in Nat /\ View[k].id <= used
    <2>1. \A e \in Entries : e.id \in Nat
      BY BoundsAssumption DEF Entries, Ids
    <2> QED
      BY <1>1, <2>1 DEF Numbered
  <1>3. ASSUME View' = View, ram'.seg <= used', used' >= used, used' \in Nat
        PROVE  /\ ram'.seg <= used' /\ \A k \in 1..Len(View') : View'[k].id <= used'
               /\ \A i : InView(i)' <=> InView(i)
    BY <1>1, <1>3, <1>9 DEF InView
  <1>4. ASSUME Recording PROVE ~ram.fin
    BY <1>1, <1>4 DEF Recording, Numbered, Counted
  <1>5. CASE Boot
    <2>1. /\ pc' \in BootPoints \cup {"upsert", "segment", "done"}
          /\ SameSegment /\ ram.job = "sync" /\ ram'.job = "sync"
          /\ used' = used /\ View' = View
      BY <1>5, BootIs
    <2>2. ~ram'.fin
      BY <2>1 DEF Numbered, SameSegment
    <2>3. ~Recording' /\ pc' \notin OpenPoints /\ ~Opening'
      BY <2>1 DEF Recording, Opening
    <2>4. ram'.seg <= used'
      BY <2>1 DEF Numbered, SameSegment
    <2>5. Surveying' => ram'.before <= Len(View')
      <3>1. CASE CountBefore
        <4>1. pc' = "sync" => ram'.before = Len(View)
          BY <1>1, <3>1, CountBeforeIs DEF CountBefore, At, LogInv, Protocol, View, Types
        <4>2. pc' \in {"sync", "done"}
          BY <3>1 DEF CountBefore, Continue, Halt, Go
        <4> QED
          BY <1>2, <2>1, <4>1, <4>2 DEF Surveying
      <3>2. CASE EnsureOneWav
        BY <1>1, <1>2, <2>1, <3>2, EnsureOneWavIs DEF EnsureOneWav, At, Surveying, Numbered
      <3>3. CASE ~CountBefore /\ ~EnsureOneWav
        <4>1. pc' \notin UpsertPoints \cup {"sync", "tally"}
          BY <1>1, <1>5, <3>3, ScanNextIs, RebuildHeaderIs DEF Boot, EnsureDeviceJson,
              WriteDeviceJson, RecoverProbe, RecoverStep, RecoverRestore, RecoverRetire,
              RecoverSettle, RecoverPromote, CreateEmpty, WriteEmpty, RenameEmpty,
              StartScan, Isolate, TrimTail, NameRecovered, CountAfter, Continue, Halt, Go
        <4> QED
          BY <4>1 DEF Surveying
      <3> QED
        BY <3>1, <3>2, <3>3
    <2> QED
      BY <1>1, <1>3, <2>1, <2>2, <2>3, <2>4, <2>5 DEF Numbered, Closing
  <1>6. CASE PowerOn \/ PowerCut \/ \E i \in Ids : HostChanges(i)
    <2>1. /\ used' = used /\ View' = View /\ pc' \in {"off", "done", "device"}
          /\ (ram' = RamInit /\ ram'.job = "sync" /\ ram'.seg = 0) \/ ram' = ram
      BY <1>6, PowerIs, PowerProtocol DEF PowerOn, PowerCut, HostChanges, Go
    <2>2. ram'.seg <= used' /\ (ram'.job = "sync" => ~ram'.fin)
      <3>1. ~RamInit.fin
        BY DEF RamInit
      <3> QED
        BY <1>1, <2>1, <3>1 DEF Numbered
    <2>3. pc' = "device" => ram'.job = "sync"
      BY <1>1 DEF Located
    <2> QED
      BY <1>1, <1>3, <2>1, <2>2, <2>3 DEF Numbered, Recording, Closing, Opening, Surveying
  <1>7. CASE Upsert
    <2>1. pc \in UpsertPoints /\ wav' = wav /\ used' = used
      BY <1>7, UpsertIs
    <2>2. \A k \in 1..Len(View') : View'[k].id <= used'
      <3>1. CASE View' = View
        BY <2>1, <3>1 DEF Numbered
      <3>2. CASE Grows
        <4>1. View' = Append(View, Entry) /\ Entry.id <= used /\ Entry \in Entries
          BY <1>1, <2>1, <3>2, EntryDrawn, EntryType DEF Grows
        <4> QED
          BY <1>1, <2>1, <4>1 DEF Numbered
      <3> QED
        BY <3>1, <3>2, LogInvKept
    <2>3. CASE Failed
      <3>1. ram.seg <= used /\ (ram.job = "sync" => ~ram.fin)
        BY DEF Numbered
      <3>2. pc' \in {"finalize", "done"} /\ ram'.seg <= used'
            /\ (ram'.job = "sync" => ~ram'.fin)
        BY <2>1, <2>3, <3>1 DEF Failed, SameSegment
      <3>3. CASE pc' = "finalize"
        <4>1. /\ ram.job = "rotate" /\ ram'.job = "stop" /\ ram'.called = ram.called
              /\ ram'.fin = ram.fin /\ ram'.file = ram.file
          BY <2>3, <3>3 DEF Failed, SameSegment
        <4>2. ram'.called /\ wav'[ram'.file].place = "wav"
          BY <2>1, <4>1 DEF Numbered
        <4>3. ~Recording' /\ ~Opening' /\ ~Surveying' /\ ram'.job = "stop"
          BY <3>3, <4>1, <4>2 DEF Recording, Opening, Surveying
        <4> QED
          BY <2>2, <3>2, <3>3, <4>2, <4>3 DEF Numbered
      <3>4. CASE pc' = "done"
        BY <2>2, <3>2, <3>4 DEF Numbered, Recording, Opening, Closing, Surveying
      <3> QED
        BY <3>2, <3>3, <3>4
    <2>4. CASE /\ pc' \in UpsertPoints /\ SameSegment /\ SameScan /\ ram'.job = ram.job
      <3>1. /\ ram'.seg = ram.seg /\ ram'.file = ram.file /\ ram'.called = ram.called
            /\ ram'.fin = ram.fin /\ ram'.before = ram.before
        BY <2>4 DEF SameSegment, SameScan
      <3>2. ~Recording' /\ ~Opening' /\ pc' \notin OpenPoints
        BY <2>4 DEF Recording, Opening
      <3>3. Surveying' => Surveying
        BY <2>1, <2>4 DEF Surveying
      <3>4. Closing' => Closing
        BY <2>1, <2>4 DEF Closing
      <3>5. Surveying' => ram'.before <= Len(View')
        BY <1>1, <1>2, <3>1, <3>3 DEF Numbered, Ram
      <3> QED
        BY <2>1, <2>2, <2>4, <3>1, <3>2, <3>4, <3>5 DEF Numbered
    <2>5. CASE Upserted /\ man' = man /\ Reaches(Entry)
      <3>1. Reaches(Entry)'
        BY <1>2, <2>1, <2>5, SameEntry DEF Upserted, SameSegment, SameJob
      <3>2. /\ pc' = IF ram.job = "sync" THEN "sync"
                     ELSE IF ram.job = "rotate" THEN "segment" ELSE "done"
            /\ ram'.job = ram.job /\ ram'.before = ram.before /\ SameSegment
        BY <2>5 DEF Upserted, SameJob
      <3>3. ram.job = "rotate" => ram.seg = ram.file /\ ram.called /\ ram.fin
        BY <2>1 DEF Numbered, Closing
      <3>4. ram.job = "sync" => ram.before <= Len(View)
        BY <2>1 DEF Numbered, Surveying
      <3>5. Surveying' => ram'.before <= Len(View')
        BY <1>1, <1>2, <3>2, <3>4 DEF Surveying, Ram
      <3>6. ~Recording' /\ ~Closing' /\ pc' \notin OpenPoints /\ pc' # "record"
        BY <3>2 DEF Recording, Closing
      <3> QED
        BY <2>1, <2>2, <3>1, <3>2, <3>3, <3>5, <3>6 DEF Numbered, SameSegment, Opening
    <2> QED
      BY <1>7, <2>3, <2>4, <2>5, UpsertIs
  <1>8. CASE Record
    <2>1. /\ View' = View /\ used' >= used /\ used' \in Nat
          /\ pc \in OpenPoints \cup ClosePoints \cup {"segment", "rec"}
          /\ pc' \in OpenPoints \cup ClosePoints \cup {"rec", "upsert", "done"}
          /\ pc' = "upsert" => ram' = ram /\ pc = "record"
      <3>1. View' = View
        BY <1>8, RecordProtocol
      <3>2. used' \in {used, used + 1}
        BY <1>8 DEF Record, NewSegment, MakeDateDir, Admit, OpenPart, WriteHeader,
            WriteChunk, Flush, Rotate, StopRequest, FinalizeOnce, CloseSink, RenamePart,
            RecordWav, WavOnly
      <3>3. /\ pc \in OpenPoints \cup ClosePoints \cup {"segment", "rec"}
            /\ pc' \in OpenPoints \cup ClosePoints \cup {"rec", "upsert", "done"}
            /\ pc' = "upsert" => ram' = ram /\ pc = "record"
        BY <1>8 DEF Record, NewSegment, MakeDateDir, Admit, OpenPart, WriteHeader,
            WriteChunk, Flush, Rotate, StopRequest, FinalizeOnce, CloseSink, RenamePart,
            RecordWav, At, Leave, JobFails, Continue, Go
      <3> QED
        BY <1>1, <3>1, <3>2, <3>3
    <2>2. ~Surveying'
      BY <1>1, <2>1 DEF Surveying, Located
    <2>3. pc' # "segment"
      BY <2>1
    <2>4. ASSUME wav' = wav \/ ~ram.fin \/ ~ram'.fin, used' = used, Failed,
                 pc = "rec" \/ pc = "upsert" => FALSE,
                 ram.job = "rotate" => ram.called
          PROVE  Numbered'
      <3>1. ram'.seg <= used'
        BY <2>4 DEF Numbered, Failed, SameSegment
      <3>2. pc' = "finalize" => ram'.called /\ ram'.job = "stop"
        BY <2>4 DEF Failed, SameSegment
      <3>3. pc' # "done" => (ram'.fin => wav'[ram'.file].place = "wav")
        BY <2>1, <2>4 DEF Numbered, Failed, SameSegment
      <3> QED
        BY <1>1, <1>3, <2>1, <2>2, <2>4, <3>1, <3>2, <3>3 DEF Numbered, Failed, SameSegment,
            Recording, Closing, Opening
    <2>5. CASE NewSegment
      <3>1. /\ pc = "segment" /\ wav' = wav
            /\ ram'.file = ram.file /\ ram'.called = ram.called /\ ram'.fin = ram.fin
            /\ \/ /\ used' = used + 1 /\ ram'.seg = used + 1
                  /\ pc' = "mkdir" /\ ram'.job = ram.job
               \/ /\ used' = used /\ ram'.seg = ram.seg /\ ram'.job = "stop"
                  /\ pc' = IF ram.job = "rotate" THEN "finalize" ELSE "done"
        BY <1>1, <2>5, NewSegmentIs DEF NewSegment, At, card, Types
      <3>2. ram'.seg <= used'
        BY <1>1, <3>1 DEF Numbered
      <3>3. ~InView(used + 1)
        BY <1>1, <1>9 DEF InView
      <3>4. ram.job = "rotate" => ram.called /\ ram.fin
        BY <3>1 DEF Numbered, Opening
      <3> QED
        BY <1>1, <1>3, <2>1, <2>2, <3>1, <3>2, <3>3, <3>4 DEF Numbered, Recording, Closing,
            Opening
    <2>6. CASE MakeDateDir \/ Admit
      <3>1. /\ pc \in {"mkdir", "admit"} /\ man' = man /\ wav' = wav /\ used' = used
            /\ (pc' \in {"admit", "open"} /\ ram' = ram) \/ Failed
        BY <2>6, DirAdmitIs
      <3>2. ram.job = "rotate" => ram.called
        BY <3>1 DEF Numbered, Opening
      <3>3. CASE pc' \in {"admit", "open"} /\ ram' = ram
        BY <1>1, <1>3, <2>1, <2>2, <3>1, <3>3 DEF Numbered, Recording, Closing, Opening
      <3> QED
        BY <2>4, <3>1, <3>2, <3>3
    <2>7. CASE OpenPart
      <3>1. pc = "open" /\ used' = used /\ ram.seg \in Ids /\ wav[ram.seg] = NoWav
        BY <1>1, <2>7 DEF OpenPart, At, WavOnly, Located, Counted
      <3>2. ram.job = "rotate" => ram.called
        BY <3>1 DEF Numbered, Opening
      <3>3. CASE pc' = "header" /\ ram' = ram /\ OnlyWav(ram.seg)
        <4>1. ram.fin => ram.file # ram.seg /\ ram.file \in Ids
          <5>1. ram.fin => ram.job = "rotate"
            BY <1>1, <3>1 DEF Numbered, Located
          <5>2. wav[ram.seg].place # "wav"
            BY <3>1 DEF NoWav
          <5> QED
            BY <1>1, <3>1, <5>1, <5>2 DEF Numbered, Located
        <4>2. ram.fin => wav'[ram.file] = wav[ram.file]
          BY <3>3, <4>1 DEF OnlyWav
        <4> QED
          BY <1>1, <1>3, <2>1, <2>2, <3>1, <3>3, <4>2 DEF Numbered, Recording, Closing,
              Opening
      <3> QED
        BY <2>4, <2>7, <3>1, <3>2, <3>3, OpenPartIs
    <2>8. CASE WriteHeader
      <3>1. /\ pc = "header" /\ used' = used /\ ram.seg \in Ids /\ OnlyWav(ram.seg)
            /\ wav[ram.seg].place = "part"
        BY <1>1, <2>8, WriteHeaderIs DEF WriteHeader, At, WavOnly, Located, Counted, NoWav
      <3>2. ram.job = "rotate" => ram.called
        BY <3>1 DEF Numbered, Opening
      <3>3. CASE Failed
        <4>1. ram.fin => ram.file # ram.seg /\ ram.file \in Ids
          BY <1>1, <3>1 DEF Numbered, Located
        <4>2. ram.fin => wav'[ram.file] = wav[ram.file]
          BY <3>1, <4>1 DEF OnlyWav
        <4>3. pc' # "done" => (ram'.fin => wav'[ram'.file].place = "wav")
          BY <3>1, <3>3, <4>2 DEF Numbered, Failed, SameSegment
        <4>4. pc' = "finalize" => ram'.called /\ ram'.job = "stop"
          BY <3>2, <3>3 DEF Failed, SameSegment
        <4>5. ram'.seg <= used'
          BY <3>1, <3>3 DEF Numbered, Failed, SameSegment
        <4> QED
          BY <1>1, <1>3, <2>1, <2>2, <3>1, <3>3, <4>3, <4>4, <4>5 DEF Numbered, Failed,
              SameSegment, Recording, Closing, Opening
      <3>4. CASE /\ pc' = "rec" /\ ram'.seg = ram.seg /\ ram'.file = ram.seg
                 /\ ~ram'.called /\ ~ram'.fin /\ ram'.job = "record"
        BY <1>1, <1>3, <2>1, <2>2, <3>1, <3>4 DEF Numbered, Recording, Closing, Opening
      <3> QED
        BY <2>8, <3>3, <3>4, WriteHeaderIs
    <2>9. CASE WriteChunk \/ Flush \/ Rotate \/ StopRequest
      <3>1. /\ pc = "rec" /\ pc' \in {"rec", "finalize"} /\ used' = used
            /\ ram'.seg = ram.seg /\ ram'.file = ram.file /\ ram'.called = ram.called
            /\ ram'.fin = ram.fin /\ ram'.job # "sync"
        <4>1. CASE WriteChunk
          BY <1>1, <4>1, WriteChunkIs DEF WriteChunk, At, WavOnly, Located
        <4>2. CASE Flush
          BY <1>1, <4>2, FlushIs DEF Flush, At, WavOnly, Located, SameSegment
        <4>3. CASE Rotate \/ StopRequest
          BY <4>3, LeavesIs DEF SameSegment
        <4> QED
          BY <2>9, <4>1, <4>2, <4>3
      <3>2. Recording /\ ~ram.called /\ ~ram.fin /\ ram.seg = ram.file /\ ~InView(ram.seg)
        BY <1>1, <1>4, <3>1 DEF Recording, Counted, Numbered
      <3>3. ram'.seg <= used'
        BY <3>1 DEF Numbered
      <3> QED
        BY <1>1, <1>3, <2>1, <2>2, <3>1, <3>2, <3>3 DEF Numbered, Recording, Closing, Opening
    <2>10. CASE FinalizeOnce
      <3>1. pc = "finalize" /\ wav' = wav /\ used' = used
        BY <2>10 DEF FinalizeOnce, At, card
      <3>2. CASE /\ ~ram.called /\ pc' = "close" /\ ram'.called /\ ~ram'.fin /\ SameJob
                 /\ ram'.seg = ram.seg /\ ram'.file = ram.file
        <4>1. Recording /\ ram.seg = ram.file /\ ~InView(ram.seg) /\ ram.seg <= used
          BY <3>1, <3>2 DEF Recording, Numbered
        <4> QED
          BY <1>1, <1>3, <2>1, <2>2, <3>1, <3>2, <4>1 DEF Numbered, Recording, Closing,
              Opening, SameJob
      <3>3. CASE ram.called /\ ram.fin /\ pc' = "record" /\ ram' = ram
        <4>1. ram.seg <= used
          BY DEF Numbered
        <4> QED
          BY <1>1, <1>3, <2>1, <2>2, <3>1, <3>3, <4>1 DEF Numbered, Recording, Closing,
              Opening
      <3>4. CASE ram.called /\ ~ram.fin /\ Failed
        BY <2>4, <3>1, <3>4
      <3> QED
        BY <1>1, <2>10, <3>2, <3>3, <3>4, FinalizeOnceIs
    <2>11. CASE CloseSink \/ RenamePart
      <3>1. /\ pc \in {"close", "rename"} /\ used' = used /\ Recording /\ ~ram.fin
            /\ ram.called /\ ram.seg = ram.file /\ ~InView(ram.seg) /\ ram.seg <= used
        BY <1>4, <2>11 DEF CloseSink, RenamePart, At, WavOnly, Recording, Numbered
      <3>2. CASE Failed
        BY <2>4, <3>1, <3>2
      <3>3. CASE pc' = "rename" /\ ram' = ram
        BY <1>1, <1>3, <2>1, <2>2, <3>1, <3>3 DEF Numbered, Recording, Closing, Opening
      <3>4. CASE /\ pc' = "record" /\ wav'[ram.file].place = "wav" /\ ram'.seg = ram.seg
                 /\ ram'.file = ram.file /\ ram'.called = ram.called /\ ram'.fin /\ SameJob
        <4>1. ram.job # "sync"
          BY <1>1, <3>1 DEF Located
        <4> QED
          BY <1>1, <1>3, <2>1, <2>2, <3>1, <3>4, <4>1 DEF Numbered, Recording, Closing,
              Opening, SameJob
      <3> QED
        BY <2>11, <3>2, <3>3, <3>4, CloseSinkIs, RenamePartIs
    <2>12. CASE RecordWav
      <3>1. /\ pc = "record" /\ wav' = wav /\ used' = used /\ ram.called /\ ram.fin
            /\ (pc' = "upsert" /\ ram' = ram) \/ Failed
        BY <2>12, RecordWavIs DEF Numbered
      <3>2. CASE pc' = "upsert" /\ ram' = ram
        BY <1>1, <1>3, <2>1, <2>2, <3>1, <3>2 DEF Numbered, Recording, Closing, Opening
      <3> QED
        BY <2>4, <3>1, <3>2
    <2> QED
      BY <1>8, <2>5, <2>6, <2>7, <2>8, <2>9, <2>10, <2>11, <2>12 DEF Record
  <1> QED
    BY <1>5, <1>6, <1>7, <1>8 DEF Next, Writer

LEMMA NumberedAlways == Spec => [](FileInv /\ LogInv /\ Surveyed /\ Numbered)
  <1>1. Init => Numbered
    <2>1. ASSUME Init PROVE Numbered
      <3>1. View = <<>> /\ Len(View) = 0
        BY <2>1, LogInvInit
      <3>2. ram.seg = 0 /\ ~ram.fin /\ pc = "off" /\ used = 0 /\ ram.job = "sync"
        BY <2>1 DEF Init, RamInit
      <3> QED
        BY <3>1, <3>2 DEF Numbered, Recording, Closing, Opening, Surveying, OpenPoints,
            ClosePoints, UpsertPoints
    <2> QED
      BY <2>1
  <1>2. FileInv /\ LogInv /\ Surveyed /\ Numbered /\ [Next]_vars => Numbered'
    <2>1. ASSUME Numbered, UNCHANGED vars PROVE Numbered'
      <3>1. man' = man /\ wav' = wav /\ ram' = ram /\ pc' = pc /\ used' = used
        BY <2>1 DEF vars
      <3>2. Entry' = Entry
        BY <3>1, SameEntry
      <3> QED
        BY <2>1, <3>1, <3>2, SameLog DEF Numbered, Recording, Closing, Opening, Surveying
    <2> QED
      BY <2>1, NumberedKept
  <1> QED
    BY <1>1, <1>2, LogInvAlways, SurveyedAlways, PTL DEF Spec

-----------------------------------------------------------------------------
(* As long as no operation failed, a document is missing only between its   *)
(* two renames, and the backup is a prefix of the manifest: recovery always *)
(* finds its way, and the rollback is never needed.                         *)
Resolved ==
    /\ Exists("final") /\ Exists("bak") => Extends("final", "bak")
    /\ pc = "gate" => ~Exists("final") /\ ~Exists("bak")
    /\ pc # "rollback"
    /\ pc \in (UpsertPoints \ {"install"}) \cup OpenPoints \cup ClosePoints \cup {"segment", "rec"}
           => Exists("final")

(* The count of failed operations tells whether this step was one.          *)
LEMMA NoFaultYet ==
    ASSUME Types, Next, faults' = 0
    PROVE  faults = 0 /\ \A k : ~Fault(k)
  <1>1. faults \in Nat
    BY BoundsAssumption, SMTT(30) DEF Types
  <1>2. faults' = faults \/ faults' = faults + 1
    BY DEF Next, Writer, PowerOn, PowerCut, HostChanges, Boot, Upsert, Record,
        EnsureDeviceJson, WriteDeviceJson, RecoverProbe, RecoverRestore, RecoverRetire,
        RecoverSettle, RecoverPromote, CreateEmpty, WriteEmpty, RenameEmpty, StartScan,
        ScanNext, Isolate, RebuildHeader, TrimTail, NameRecovered, CountBefore, EnsureOneWav,
        CountAfter, UpsertRead, RetireBackup, OpenTmp, WriteTmp, PublishTmp, SetAside,
        Install, Rollback, Verify, NewSegment, MakeDateDir, Admit, OpenPart, WriteHeader,
        WriteChunk, Flush, Rotate, StopRequest, FinalizeOnce, CloseSink, RenamePart,
        RecordWav, NoFault, counts, Fault
  <1> QED
    BY <1>1, <1>2 DEF Fault

LEMMA SameExtends ==
    ASSUME man' = man
    PROVE  Extends("final", "bak")' <=> Extends("final", "bak")
  BY DEF Extends, Valid

LEMMA ResolvedKept ==
    ASSUME FileInv, LogInv, Resolved, Next, faults' = 0
    PROVE  Resolved'
  <1> USE DEF ScanPoints, UpsertPoints, OpenPoints, ClosePoints, Files
  <1>1. /\ Types /\ Protocol /\ Replacing /\ ram \in Ram /\ man \in [Files -> Snapshots]
        /\ \A k : ~Fault(k)
    BY NoFaultYet DEF FileInv, Types, LogInv
  <1>2. \A f \in Files : Exists(f) <=> man[f].kind # "absent"
    BY <1>1, Kinds
  <1>3. (Valid("final") <=> Exists("final")) /\ (Valid("bak") <=> Exists("bak"))
    BY <1>1, <1>2, Kinds DEF Valid, Protocol
  <1>4. ASSUME man' = man, pc' # "rollback", pc' = "gate" => ~Exists("final") /\ ~Exists("bak"),
               pc' \in (UpsertPoints \ {"install"}) \cup OpenPoints \cup ClosePoints \cup {"segment", "rec"}
                   => Exists("final")
        PROVE  Resolved'
    <2>1. \A f \in Files : Exists(f)' <=> Exists(f)
      BY <1>4, SameLog
    <2> QED
      BY <1>4, <2>1, SameExtends DEF Resolved
  <1>5. CASE PowerOn \/ PowerCut \/ \E i \in Ids : HostChanges(i)
    <2>1. man' = man /\ pc' \in {"off", "done", "device"}
      BY <1>5 DEF PowerOn, PowerCut, HostChanges, card, Go
    <2> QED
      BY <1>4, <2>1
  <1>6. CASE Record
    <2>1. man' = man
      BY <1>6 DEF Record, NewSegment, MakeDateDir, Admit, OpenPart, WriteHeader, WriteChunk,
          Flush, Rotate, StopRequest, FinalizeOnce, CloseSink, RenamePart, RecordWav, card,
          WavOnly
    <2>2. /\ pc \in OpenPoints \cup ClosePoints \cup {"segment", "rec"}
          /\ pc' \in OpenPoints \cup ClosePoints \cup {"rec", "upsert", "done"}
      BY <1>6 DEF Record, NewSegment, MakeDateDir, Admit, OpenPart, WriteHeader,
          WriteChunk, Flush, Rotate, StopRequest, FinalizeOnce, CloseSink, RenamePart,
          RecordWav, At, Leave, JobFails, Continue, Go
    <2> QED
      BY <1>4, <2>1, <2>2 DEF Resolved
  <1>7. CASE Upsert
    <2>1. pc \in UpsertPoints
      BY <1>7, UpsertIs
    <2>2. ASSUME JobFails, man' = man, pc # "install" PROVE Resolved'
      <3>1. pc' \in {"finalize", "done"} /\ Exists("final")
        BY <2>1, <2>2 DEF JobFails, Go, Resolved
      <3> QED
        BY <1>4, <2>2, <3>1
    <2>3. CASE UpsertRead \/ PublishTmp \/ Verify
      <3>1. pc \in {"upsert", "publish", "verify"} /\ Exists("final") /\ man' = man
        BY <2>3 DEF UpsertRead, PublishTmp, Verify, At, Resolved
      <3>2. pc' \in {"sync", "segment", "done", "finalize", "backup", "aside"}
        BY <2>3 DEF UpsertRead, PublishTmp, Verify, UpsertDone, JobFails, Continue, Go
      <3> QED
        BY <1>4, <3>1, <3>2
    <2>4. CASE RetireBackup
      <3>1. pc = "backup" /\ Exists("final")
        BY <2>4 DEF RetireBackup, At, Resolved
      <3>2. CASE man' = With("bak", Absent) /\ pc' = "tmpOpen"
        <4>1. man'["final"] = man["final"] /\ Exists("final")' /\ ~Exists("bak")'
          BY <1>1, <3>1, <3>2, Writes, DocIs
        <4> QED
          BY <3>2, <4>1 DEF Resolved
      <3> QED
        BY <2>2, <2>4, <3>1, <3>2 DEF RetireBackup, Continue, Go
    <2>5. CASE OpenTmp \/ WriteTmp
      <3>1. pc \in {"tmpOpen", "tmpWrite"} /\ Exists("final") /\ ~Exists("bak")
        BY <1>1, <2>5 DEF OpenTmp, WriteTmp, At, Replacing
      <3>2. PICK d \in {Torn, Doc(ram.cand)} : man' = With("tmp", d) /\ pc' \in {"tmpWrite", "publish"}
        BY <1>1, <2>5 DEF OpenTmp, WriteTmp, Continue, Go
      <3>3. d \in Snapshots
        BY <1>1, DocIs DEF Ram
      <3>4. Exists("final")' /\ ~Exists("bak")'
        BY <1>1, <3>1, <3>2, <3>3, Writes
      <3> QED
        BY <3>2, <3>4 DEF Resolved
    <2>6. CASE SetAside
      <3>1. man' = Moved("final", "bak") /\ pc' = "install"
        BY <1>1, <2>6 DEF SetAside, Continue, Go
      <3>2. ~Exists("final")'
        BY <1>1, <3>1, Renames
      <3> QED
        BY <3>1, <3>2 DEF Resolved
    <2>7. CASE Install
      <3>1. /\ pc = "install" /\ Exists("bak") /\ man' = Moved("tmp", "final") /\ pc' = "verify"
            /\ man["tmp"] = Doc(ram.cand) /\ ram.cand = Append(man["bak"].recs, Entry)
        BY <1>1, <2>7 DEF Install, At, Replacing, Continue, Go
      <3>2. /\ Doc(ram.cand).kind = "doc" /\ Doc(ram.cand).recs = ram.cand
            /\ Doc(ram.cand) # Absent
        BY <1>1, DocIs DEF Ram
      <3>3. man'["final"] = Doc(ram.cand) /\ man'["bak"] = man["bak"] /\ Exists("final")'
        <4>1. Exists("tmp")
          BY <3>1, <3>2 DEF Exists
        <4> QED
          BY <1>1, <3>1, <4>1, Renames
      <3>4. man["bak"].recs \in Seq(Entries) /\ Entry \in Entries
        BY <1>1, <2>1, Kinds, EntryType DEF FileInv
      <3>5. /\ Len(man["bak"].recs) <= Len(ram.cand)
            /\ SubSeq(ram.cand, 1, Len(man["bak"].recs)) = man["bak"].recs
        BY <3>1, <3>4
      <3>6. Extends("final", "bak")'
        BY <1>3, <3>1, <3>2, <3>3, <3>5 DEF Extends, Valid
      <3> QED
        BY <3>1, <3>3, <3>6 DEF Resolved
    <2> QED
      BY <1>7, <2>3, <2>4, <2>5, <2>6, <2>7 DEF Upsert, Rollback, At, Resolved
  <1>8. CASE Boot
    <2>1. CASE RecoverProbe
      <3>1. man' = man /\ pc' = RecoverStep
        BY <1>1, <2>1 DEF RecoverProbe, Same, card, Continue, Go
      <3>2. /\ RecoverStep \in {"gate", "restore", "retire", "settle", "promote"}
            /\ RecoverStep = "gate" => ~Exists("final") /\ ~Exists("bak")
        BY <1>3 DEF RecoverStep, Resolved
      <3> QED
        BY <1>4, <3>1, <3>2
    <2>2. CASE RecoverRestore \/ RecoverRetire
      <3>1. /\ pc' = "settle"
            /\ \/ man' = Moved("bak", "final")
               \/ man' = With("bak", Absent)
        BY <1>1, <2>2 DEF RecoverRestore, RecoverRetire, Continue, Go
      <3>2. ~Exists("bak")'
        BY <1>1, <3>1, Renames, Writes, DocIs
      <3> QED
        BY <3>1, <3>2 DEF Resolved
    <2>3. CASE RecoverSettle
      <3>1. Exists("final") /\ ~Exists("bak")
        BY <1>1, <2>3 DEF RecoverSettle, At, Protocol
      <3>2. man' = With("tmp", Absent) /\ pc' = "quarantine"
        BY <1>1, <1>3, <2>3, <3>1 DEF RecoverSettle, Continue, Go
      <3>3. ~Exists("bak")'
        BY <1>1, <3>1, <3>2, Writes, DocIs
      <3> QED
        BY <3>2, <3>3 DEF Resolved
    <2>4. CASE RecoverPromote \/ RenameEmpty
      <3>1. ~Exists("bak")
        BY <1>1, <2>4 DEF RecoverPromote, RenameEmpty, At, Protocol
      <3>2. man' = Moved("tmp", "final") /\ pc' = "quarantine"
        BY <1>1, <2>4 DEF RecoverPromote, RenameEmpty, Continue, Go
      <3>3. ~Exists("bak")'
        BY <1>1, <3>1, <3>2, Renames
      <3> QED
        BY <3>2, <3>3 DEF Resolved
    <2>5. CASE CreateEmpty \/ WriteEmpty
      <3>1. CASE man' = man /\ pc' = "done"
        BY <1>4, <3>1
      <3>2. CASE /\ man' \in {With("tmp", Torn), With("tmp", Doc(<<>>))}
                 /\ pc' \in {"emptyWrite", "emptyRename"}
                 /\ EmptyAllowed \/ pc = "emptyWrite"
        <4>1. ~Exists("bak")
          BY <1>1, <3>2 DEF EmptyAllowed, Protocol
        <4>2. ~Exists("bak")'
          BY <1>1, <3>2, <4>1, Writes, DocIs
        <4> QED
          BY <3>2, <4>2 DEF Resolved
      <3> QED
        BY <1>1, <2>5, <3>1, <3>2 DEF CreateEmpty, WriteEmpty, At, Continue, Halt, Go
    <2>6. CASE \/ EnsureDeviceJson \/ WriteDeviceJson \/ StartScan \/ ScanNext \/ Isolate
               \/ RebuildHeader \/ TrimTail \/ NameRecovered \/ CountBefore \/ EnsureOneWav
               \/ CountAfter
      <3>1. man' = man
        BY <2>6 DEF EnsureDeviceJson, WriteDeviceJson, StartScan, ScanNext, Isolate,
            RebuildHeader, TrimTail, NameRecovered, CountBefore, EnsureOneWav, CountAfter,
            Same, WavOnly, card
      <3>2. /\ pc' \in {"deviceWrite", "probe", "done", "scan", "count", "sync", "tally",
                        "upsert", "segment"} \cup ScanPoints
            /\ pc' \in {"upsert", "segment"} => pc \in {"sync", "tally"}
        <4>1. CASE \/ EnsureDeviceJson \/ WriteDeviceJson \/ Isolate \/ TrimTail
                   \/ NameRecovered \/ CountAfter
          BY <4>1 DEF EnsureDeviceJson, WriteDeviceJson, Isolate, TrimTail, NameRecovered,
              CountAfter, At, Continue, Halt, Go
        <4>2. CASE StartScan \/ ScanNext \/ RebuildHeader \/ CountBefore \/ EnsureOneWav
          BY <4>2 DEF StartScan, ScanNext, RebuildHeader, CountBefore, EnsureOneWav, At,
              Continue, Halt, Go
        <4> QED
          BY <2>6, <4>1, <4>2
      <3>3. pc \in {"sync", "tally"} => Exists("final")
        BY <1>1 DEF Protocol
      <3> QED
        BY <1>4, <3>1, <3>2, <3>3
    <2> QED
      BY <1>8, <2>1, <2>2, <2>3, <2>4, <2>5, <2>6 DEF Boot
  <1> QED
    BY <1>5, <1>6, <1>7, <1>8 DEF Next, Writer

-----------------------------------------------------------------------------
(* The recordings, finished or not, that the manifest still has to list.    *)
Pending == {i \in Ids : wav[i].place \in {"part", "wav"} /\ ~InView(i)}

(* As long as no operation failed there is room for every recording there   *)
(* is.  A rotation has room for its own entry and one more; a rotation that *)
(* was refused its next segment appends under the new id only what fits.    *)
Room ==
    /\ Len(View) + Cardinality(Pending) <= Ceiling
    /\ pc \in {"scan"} \cup ScanPoints => Parts \subseteq ram.todo
    /\ pc = "count" \/ Surveying => Parts = {}
    /\ pc \in {"segment", "mkdir", "admit", "open"} => Pending = {}
    /\ pc \in {"header", "rec"} \/ Closing => Pending \subseteq {ram.seg}
    /\ pc = "rec" \/ Closing => Pending \subseteq {ram.file}
    /\ pc \in {"open", "header", "rec"} => Len(View) + 2 <= Ceiling
    /\ Opening \/ (Closing /\ pc # "verify") => Len(View) + 1 <= Ceiling
    /\ Closing /\ ram.job = "rotate"
           => IF InView(ram.seg) THEN Len(View) + 1 <= Ceiling ELSE Len(View) + 2 <= Ceiling
    /\ Closing /\ pc \in {"finalize", "record", "upsert"}
           => ~InView(ram.seg) \/ Reaches(Entry)
    /\ Closing /\ ram.seg # ram.file => Len(View) + 2 > Ceiling

(* Only the opening of a segment adds a file, and only the scan and the     *)
(* closing name one.                                                        *)
LEMMA PlacesKept ==
    ASSUME FileInv, Next, ~OpenPart, NEW i \in Ids
    PROVE  /\ wav'[i].place = "part" => wav[i].place = "part"
           /\ wav'[i].place = "wav" => wav[i].place \in {"part", "wav"}
  <1>1. wav \in [Ids -> WavFile]
    BY DEF FileInv, Types
  <1>2. CASE wav' = wav
    BY <1>2
  <1>3. CASE Isolate \/ NameRecovered
    <2>1. ram.cur \in Ids /\ wav[ram.cur].place = "part"
      BY <1>3 DEF FileInv, Located, Published, Isolate, NameRecovered, At, ScanPoints, Parts
    <2> QED
      BY <1>3, <2>1, IsolateIs, NameRecoveredIs DEF OnlyWav
  <1>4. CASE RebuildHeader \/ TrimTail
    BY <1>4, RebuildHeaderIs, TrimTailIs DEF OnlyWav, SameFile
  <1>5. CASE WriteHeader
    <2>1. wav[ram.seg].place = "part"
      BY <1>5 DEF WriteHeader, At, FileInv, Counted, NoWav
    <2> QED
      BY <1>5, <2>1, WriteHeaderIs DEF OnlyWav
  <1>6. CASE WriteChunk \/ Flush \/ CloseSink \/ RenamePart
    BY <1>6, WriteChunkIs, FlushIs, CloseSinkIs, RenamePartIs DEF OnlyWav, SameFile
  <1>7. CASE PowerCut
    BY <1>7, PowerCutIs DEF SameFile
  <1>8. ASSUME NEW j \in Ids, HostChanges(j)
        PROVE  wav'[i] = wav[i] \/ wav'[i].place = "none" \/ wav'[i].place = wav[i].place
    <2>1. NoWav.place = "none"
      BY DEF NoWav
    <2> QED
      BY <1>8, <2>1, HostChangesIs DEF OnlyWav
  <1>9. \/ wav' = wav \/ Isolate \/ NameRecovered \/ RebuildHeader \/ TrimTail
        \/ WriteHeader \/ WriteChunk \/ Flush \/ CloseSink \/ RenamePart \/ PowerCut
        \/ \E j \in Ids : HostChanges(j)
    BY DEF Next, Writer, PowerOn, Boot, Upsert, Record, EnsureDeviceJson, WriteDeviceJson,
        RecoverProbe, RecoverRestore, RecoverRetire, RecoverSettle, RecoverPromote,
        CreateEmpty, WriteEmpty, RenameEmpty, StartScan, ScanNext, CountBefore,
        EnsureOneWav, CountAfter, UpsertRead, RetireBackup, OpenTmp, WriteTmp, PublishTmp,
        SetAside, Install, Rollback, Verify, NewSegment, MakeDateDir, Admit, Rotate,
        StopRequest, FinalizeOnce, RecordWav, Same, ManOnly, card, KeepOthers
  <1> QED
    BY <1>2, <1>3, <1>4, <1>5, <1>6, <1>7, <1>8, <1>9

LEMMA PendingKept ==
    ASSUME FileInv, LogInv, Next
    PROVE  /\ ~OpenPart => Pending' \subseteq Pending /\ Parts' \subseteq Parts
           /\ OpenPart => Pending' \subseteq Pending \cup {ram.seg}
           /\ Grows => Pending' \subseteq Pending \ {Entry.id}
           /\ IsFiniteSet(Pending) /\ Cardinality(Pending) \in Nat
           /\ IsFiniteSet(Pending') /\ Cardinality(Pending') \in Nat
  <1>1. \A i : InView(i) => InView(i)'
    BY LogInvKept, LogKept
  <1>2. ASSUME ~OpenPart PROVE Pending' \subseteq Pending /\ Parts' \subseteq Parts
    BY <1>1, <1>2, PlacesKept DEF Pending, Parts
  <1>3. ASSUME OpenPart PROVE Pending' \subseteq Pending \cup {ram.seg}
    <2>1. wav' = wav \/ OnlyWav(ram.seg)
      BY <1>3, OpenPartIs
    <2> QED
      BY <1>1, <2>1 DEF Pending, OnlyWav
  <1>4. ASSUME Grows PROVE Pending' \subseteq Pending \ {Entry.id}
    <2>1. ~OpenPart
      BY <1>4 DEF Grows, Install, OpenPart, At
    <2>2. InView(Entry.id)'
      <3>1. View \in Seq(Entries) /\ Entry \in Entries /\ View' = Append(View, Entry)
        BY <1>4, ViewType, EntryType DEF FileInv, Grows, Install, At, UpsertPoints
      <3>2. Len(View') = Len(View) + 1 /\ View'[Len(View) + 1] = Entry /\ Len(View) \in Nat
        BY <3>1
      <3>3. \E k \in 1..Len(View') : View'[k].id = Entry.id
        BY <3>2
      <3>4. Entry' = Entry
        BY <1>4 DEF Grows
      <3> QED
        BY <3>3, <3>4 DEF InView
    <2>3. Entry' = Entry
      BY <1>4 DEF Grows
    <2>4. Entry.id \notin Pending'
      BY <2>2, <2>3 DEF Pending
    <2> QED
      BY <1>2, <2>1, <2>4
  <1>5. Pending \in SUBSET Ids /\ Pending' \in SUBSET Ids
    BY DEF Pending
  <1> QED
    BY <1>2, <1>3, <1>4, <1>5, WavsFinite

(* The first part: the counts.                                              *)
LEMMA FitsKept ==
    ASSUME FileInv, LogInv, Surveyed, Resolved, Room, Next, faults' = 0
    PROVE  Len(View') + Cardinality(Pending') <= Ceiling
  <1>1. /\ Len(View) \in Nat /\ Len(View') \in Nat /\ Ceiling \in Nat
        /\ Cardinality(Pending) \in Nat /\ Cardinality(Pending') \in Nat
        /\ Len(View) + Cardinality(Pending) <= Ceiling
    <2>1. /\ Len(View) \in Nat /\ Len(View') \in Nat
      BY LogInvKept, LogKept
    <2>2. Cardinality(Pending) \in Nat /\ Cardinality(Pending') \in Nat
      BY PendingKept
    <2>3. Ceiling \in Nat /\ Len(View) + Cardinality(Pending) <= Ceiling
      BY BoundsAssumption DEF Room
    <2> QED
      BY <2>1, <2>2, <2>3
  <1>2. CASE OpenPart
    <2>1. pc = "open" /\ View' = View
      BY <1>2, RecordProtocol DEF OpenPart, At, Record
    <2>2. Pending' \subseteq {ram.seg} /\ Len(View) + 2 <= Ceiling
      BY <1>2, <2>1, PendingKept DEF Room
    <2>3. Cardinality(Pending') <= 1
      <3>1. IsFiniteSet({ram.seg}) /\ Cardinality({ram.seg}) = 1
        BY FS_Singleton
      <3>2. Pending' \in SUBSET {ram.seg}
        BY <2>2
      <3> HIDE DEF Pending
      <3> QED
        BY <3>1, <3>2, FS_Subset
    <2> QED
      BY <1>1, <2>1, <2>2, <2>3
  <1>3. CASE Grows
    <2>1. /\ View' = Append(View, Entry) /\ pc = "install" /\ ~InView(Entry.id)
          /\ Pending' \subseteq Pending \ {Entry.id} /\ IsFiniteSet(Pending)
      BY <1>3, PendingKept DEF Grows, Install, At
    <2>2. Len(View') = Len(View) + 1
      <3>1. View \in Seq(Entries) /\ Entry \in Entries
        BY <2>1, ViewType, EntryType DEF FileInv, UpsertPoints
      <3> QED
        BY <2>1, <3>1
    <2>3. /\ IsFiniteSet(Pending \ {Entry.id})
          /\ Cardinality(Pending \ {Entry.id}) =
                IF Entry.id \in Pending THEN Cardinality(Pending) - 1 ELSE Cardinality(Pending)
      BY <2>1, FS_RemoveElement
    <2>4. Cardinality(Pending') <= Cardinality(Pending \ {Entry.id})
      BY <2>1, <2>3, FS_Subset
    <2>5. CASE Entry.id \in Pending
      BY <1>1, <2>2, <2>3, <2>4, <2>5
    <2>6. CASE Entry.id \notin Pending
      <3>1. ram.job # "sync"
        <4>1. ASSUME ram.job = "sync" PROVE Entry.id \in Pending
          <5>1. ram.cur \in Wavs /\ Entry.id = ram.cur
            BY <2>1, <4>1 DEF Surveyed, UpsertPoints, Entry
          <5> QED
            BY <2>1, <5>1 DEF Wavs, Pending
        <4> QED
          BY <2>6, <4>1
      <3>2. Entry.id = ram.seg /\ Closing
        BY <2>1, <3>1 DEF Entry, Closing, UpsertPoints
      <3>3. Pending = {} /\ Len(View) + 1 <= Ceiling
        BY <2>1, <2>6, <3>2 DEF Room
      <3>4. Cardinality(Pending) = 0
        BY <3>3, FS_EmptySet
      <3> QED
        BY <1>1, <2>2, <2>3, <2>4, <2>6, <3>3, <3>4
    <2> QED
      BY <2>5, <2>6
  <1>4. CASE ~OpenPart /\ View' = View
    <2>1. Pending' \subseteq Pending /\ IsFiniteSet(Pending)
      BY <1>4, PendingKept
    <2>2. Cardinality(Pending') <= Cardinality(Pending)
      BY <2>1, FS_Subset
    <2> QED
      BY <1>1, <1>4, <2>2
  <1> QED
    BY <1>2, <1>3, <1>4, LogInvKept

(* A rotation that is refused, with no operation failing, is refused before *)
(* or with its append, and its file is finalized and listed after all.      *)
LEMMA RefusedRoom ==
    ASSUME Numbered, Room, Failed, View' = View, wav' = wav,
           Pending' \subseteq Pending, Len(View') + Cardinality(Pending') <= Ceiling,
           ram.job = "rotate" =>
               /\ Closing /\ pc \in {"finalize", "record", "upsert"}
               /\ ram.called
    PROVE  Room'
  <1> USE DEF BootPoints, ScanPoints, UpsertPoints, OpenPoints, ClosePoints
  <1>1. /\ pc' = IF ram.job = "rotate" THEN "finalize" ELSE "done"
        /\ ram'.seg = ram.seg /\ ram'.file = ram.file /\ ram'.called = ram.called
        /\ ram'.cur = ram.cur /\ ram'.job = IF ram.job = "rotate" THEN "stop" ELSE ram.job
    BY DEF Failed, SameSegment, SameScan
  <1>2. CASE ram.job # "rotate"
    BY <1>1, <1>2 DEF Room, Surveying, Opening, Closing
  <1>3. CASE ram.job = "rotate"
    <2>1. /\ pc' = "finalize" /\ ram'.job = "stop" /\ Closing'
          /\ ~Surveying' /\ ~Opening'
      BY <1>1, <1>3 DEF Surveying, Opening, Closing
    <2>2. /\ Pending \subseteq {ram.seg} /\ Pending \subseteq {ram.file}
          /\ Len(View) + 1 <= Ceiling /\ (~InView(ram.seg) \/ Reaches(Entry))
          /\ ram.seg = ram.file
      BY <1>3 DEF Room, Numbered
    <2>3. Entry' = Entry
      BY <1>1, <1>3 DEF Entry
    <2>4. ~InView(ram.seg)' \/ Reaches(Entry)'
      BY <1>1, <2>2, <2>3 DEF InView, Reaches
    <2> HIDE DEF Pending
    <2> QED
      BY <1>1, <2>1, <2>2, <2>4 DEF Room
  <1> QED
    BY <1>2, <1>3

LEMMA BootRoom ==
    ASSUME FileInv, LogInv, Surveyed, Resolved, Room, Boot, Next, faults' = 0
    PROVE  Room'
  <1> USE DEF BootPoints, ScanPoints, UpsertPoints, OpenPoints, ClosePoints
  <1>1. /\ ram \in Ram /\ Located /\ \A k : ~Fault(k)
        /\ Len(View') + Cardinality(Pending') <= Ceiling
    BY NoFaultYet, FitsKept DEF FileInv, Types
  <1>2. /\ pc \in BootPoints /\ pc' \in BootPoints \cup {"upsert", "segment", "done"}
        /\ ram'.job = "sync" /\ View' = View
    BY BootIs
  <1>3. Pending' \subseteq Pending /\ Parts' \subseteq Parts
    BY <1>2, PendingKept DEF OpenPart, At
  <1>4. ~Opening' /\ ~Closing' /\ pc' \notin OpenPoints \cup {"rec"}
    BY <1>2 DEF Opening, Closing
  <1> HIDE DEF Pending, Parts
  <1>5. SUFFICES /\ pc' \in {"scan"} \cup ScanPoints => Parts' \subseteq ram'.todo
                 /\ pc' = "count" \/ Surveying' => Parts' = {}
                 /\ pc' = "segment" => Pending' = {}
    BY <1>1, <1>4 DEF Room
  <1>6. CASE StartScan
    <2>1. pc' = "scan" /\ ram'.todo = Parts
      BY <1>1, <1>6, StartScanIs
    <2> QED
      BY <1>3, <2>1 DEF Surveying
  <1>7. CASE ScanNext
    <2>1. pc = "scan" /\ Parts \subseteq ram.todo
      BY <1>7 DEF ScanNext, At, Room
    <2>2. CASE pc' = "count" /\ ram.todo = {}
      BY <1>3, <2>1, <2>2 DEF Surveying
    <2>3. CASE pc' \in {"rebuild", "isolate"} /\ ram'.todo = ram.todo
      BY <1>3, <2>1, <2>3 DEF Surveying
    <2> QED
      BY <1>1, <1>7, <2>2, <2>3, ScanNextIs
  <1>8. CASE Isolate \/ NameRecovered
    <2>1. /\ pc' = "scan" /\ ram'.todo = ram.todo \ {ram.cur} /\ Parts \subseteq ram.todo
      BY <1>1, <1>8, RestIs DEF Isolate, NameRecovered, At, Continue, Go, Room
    <2>2. wav'[ram.cur].place # "part"
      BY <1>1, <1>8, IsolateIs, NameRecoveredIs
    <2>3. ram.cur \notin Parts'
      BY <2>2 DEF Parts
    <2> QED
      BY <1>3, <2>1, <2>3 DEF Surveying
  <1>9. CASE RebuildHeader \/ TrimTail
    <2>1. /\ pc \in {"rebuild", "trim"} /\ pc' \in {"trim", "name"} /\ ram' = ram
      BY <1>1, <1>9, RebuildHeaderIs DEF RebuildHeader, TrimTail, At, Continue, Go
    <2>2. Parts \subseteq ram.todo
      BY <2>1 DEF Room
    <2> QED
      BY <1>3, <2>1, <2>2 DEF Surveying
  <1>10. CASE CountBefore \/ EnsureOneWav
    <2>1. pc = "count" \/ Surveying
      BY <1>10 DEF CountBefore, EnsureOneWav, At, Surveying
    <2>2. Parts = {}
      BY <2>1 DEF Room
    <2>3. pc' \in {"sync", "tally", "upsert", "done"}
      BY <1>10 DEF CountBefore, EnsureOneWav, Continue, Halt, Go
    <2> QED
      BY <1>3, <2>2, <2>3 DEF Surveying
  <1>11. CASE CountAfter
    <2>1. pc = "tally" /\ pc' \in {"segment", "done"}
      BY <1>11 DEF CountAfter, At, Continue, Halt, Go
    <2>2. Parts = {}
      BY <2>1 DEF Room, Surveying
    <2>3. \A i \in Wavs : Reaches(Recorded(i))
      BY <2>1 DEF Surveyed, Tells
    <2>4. ASSUME NEW i \in Wavs PROVE InView(i)
      <3>1. Recorded(i).id = i
        BY DEF Recorded
      <3>2. PICK k \in 1..Len(View) : View[k] = Recorded(i)
        BY <2>3 DEF Reaches
      <3> QED
        BY <3>1, <3>2 DEF InView
    <2>5. Pending = {}
      BY <2>2, <2>4 DEF Pending, Parts, Wavs
    <2> QED
      BY <1>3, <2>1, <2>5 DEF Surveying
  <1>12. CASE \/ EnsureDeviceJson \/ WriteDeviceJson \/ RecoverProbe \/ RecoverRestore
              \/ RecoverRetire \/ RecoverSettle \/ RecoverPromote \/ CreateEmpty
              \/ WriteEmpty \/ RenameEmpty
    <2>1. pc' \in {"deviceWrite", "probe", "restore", "retire", "settle", "promote", "gate",
                   "emptyWrite", "emptyRename", "quarantine", "done"}
      BY <1>12 DEF EnsureDeviceJson, WriteDeviceJson, RecoverProbe, RecoverStep,
          RecoverRestore, RecoverRetire, RecoverSettle, RecoverPromote, CreateEmpty,
          WriteEmpty, RenameEmpty, Continue, Halt, Go
    <2> QED
      BY <2>1 DEF Surveying
  <1> QED
    BY <1>6, <1>7, <1>8, <1>9, <1>10, <1>11, <1>12 DEF Boot

LEMMA UpsertRoom ==
    ASSUME FileInv, LogInv, Surveyed, Numbered, Resolved, Room, Upsert, Next, faults' = 0
    PROVE  Room'
  <1> USE DEF BootPoints, ScanPoints, UpsertPoints, OpenPoints, ClosePoints
  <1>1. /\ ram \in Ram /\ Located /\ \A k : ~Fault(k)
        /\ Len(View') + Cardinality(Pending') <= Ceiling
    BY NoFaultYet, FitsKept DEF FileInv, Types
  <1>2. pc \in UpsertPoints /\ wav' = wav
    BY UpsertIs
  <1>3. Pending' \subseteq Pending /\ Parts' \subseteq Parts
    BY <1>2, PendingKept DEF OpenPart, At
  <1>4. /\ Len(View') >= Len(View) /\ Len(View) \in Nat /\ Len(View') \in Nat /\ Ceiling \in Nat
        /\ \A i : InView(i) => InView(i)'
    BY LogInvKept, LogKept, BoundsAssumption
  <1> HIDE DEF Pending, Parts
  <1>5. CASE Failed
    <2>1. ASSUME ram.job = "rotate" PROVE pc = "upsert"
      <3>1. pc' = "finalize"
        BY <1>5, <2>1 DEF Failed
      <3>2. CASE RetireBackup
        <4>1. pc = "backup" /\ Exists("final")
          BY <3>2 DEF RetireBackup, At, Resolved
        <4>2. pc' = "tmpOpen" \/ (Exists("bak") /\ ~Extends("final", "bak"))
          BY <1>1, <3>2 DEF RetireBackup, Continue, Go
        <4> QED
          BY <3>1, <4>1, <4>2 DEF Resolved
      <3>3. CASE Verify
        BY <1>1, <2>1, <3>1, <3>3 DEF Verify, UpsertDone, Go
      <3>4. CASE OpenTmp \/ WriteTmp \/ PublishTmp \/ SetAside \/ Install \/ Rollback
        BY <1>1, <3>1, <3>4 DEF OpenTmp, WriteTmp, PublishTmp, SetAside, Install, Rollback,
            Continue, Go, At, Resolved
      <3> QED
        BY <3>2, <3>3, <3>4 DEF Upsert, UpsertRead, At
    <2>2. View' = View
      BY <1>5, LogInvKept DEF Grows, Failed
    <2>3. ram.job = "rotate" => Closing /\ ram.called
      BY <1>2 DEF Closing, Numbered
    <2> QED
      BY <1>1, <1>2, <1>3, <1>5, <2>1, <2>2, <2>3, RefusedRoom
  <1>6. CASE Upserted /\ man' = man /\ Reaches(Entry)
    <2>1. /\ pc' = IF ram.job = "sync" THEN "sync"
                   ELSE IF ram.job = "rotate" THEN "segment" ELSE "done"
          /\ ram'.job = ram.job /\ View' = View
      BY <1>6, SameLog DEF Upserted, SameJob
    <2>2. ram.job = "sync" => Parts = {}
      BY <1>2 DEF Room, Surveying
    <2>3. ASSUME ram.job = "rotate" PROVE Pending = {} /\ Len(View) + 1 <= Ceiling
      <3>1. Closing
        BY <1>2, <2>3 DEF Closing
      <3>2. InView(ram.seg)
        BY <1>6, <2>3 DEF Reaches, InView, Entry
      <3>3. ram.seg \notin Pending
        BY <3>2 DEF Pending
      <3> QED
        BY <2>3, <3>1, <3>2, <3>3 DEF Room
    <2>4. ~Closing' /\ (Opening' => ram.job = "rotate") /\ (Surveying' => ram.job = "sync")
      BY <2>1 DEF Closing, Opening, Surveying
    <2> QED
      BY <1>1, <1>3, <2>1, <2>2, <2>3, <2>4 DEF Room
  <1>7. CASE /\ pc' \in UpsertPoints \ {"upsert"} /\ SameSegment /\ SameScan
             /\ ram'.job = ram.job
    <2>1. pc # "verify" /\ (View' = View \/ Grows)
      <3>1. pc # "verify"
        BY <1>7 DEF Upsert, UpsertRead, RetireBackup, OpenTmp, WriteTmp, PublishTmp,
            SetAside, Install, Rollback, Verify, UpsertDone, JobFails, At, Go
      <3> QED
        BY <3>1, LogInvKept
    <2>2. /\ ram'.seg = ram.seg /\ ram'.file = ram.file
          /\ (Surveying' => Surveying) /\ (Closing' <=> Closing) /\ ~Opening'
      BY <1>2, <1>7 DEF SameSegment, Surveying, Closing, Opening
    <2>3. /\ Surveying => Parts = {}
          /\ Closing => /\ Pending \subseteq {ram.seg} /\ Pending \subseteq {ram.file}
                        /\ Len(View) + 1 <= Ceiling
          /\ Closing /\ ram.seg # ram.file => Len(View) + 2 > Ceiling
          /\ Closing /\ ram.job = "rotate"
                => IF InView(ram.seg) THEN Len(View) + 1 <= Ceiling ELSE Len(View) + 2 <= Ceiling
      BY <2>1 DEF Room
    <2>4. CASE View' = View
      <3>1. InView(ram.seg)' <=> InView(ram.seg)
        BY <2>2, <2>4 DEF InView
      <3> QED
        BY <1>1, <1>3, <1>7, <2>2, <2>3, <2>4, <3>1 DEF Room
    <2>5. CASE Grows
      <3>1. /\ View' = Append(View, Entry) /\ pc' = "verify" /\ ~InView(Entry.id)
            /\ Entry' = Entry
        BY <2>5 DEF Grows
      <3>2. Len(View') = Len(View) + 1
        <4>1. View \in Seq(Entries) /\ Entry \in Entries
          BY <1>2, ViewType, EntryType DEF FileInv
        <4> QED
          BY <3>1, <4>1
      <3>3. Closing => ~InView(ram.seg)
        BY <3>1 DEF Closing, Entry
      <3>4. Closing /\ ram.job = "rotate" => Len(View') + 1 <= Ceiling
        BY <1>4, <2>3, <3>2, <3>3
      <3>5. Closing /\ ram.job = "rotate" =>
               IF InView(ram.seg)' THEN Len(View') + 1 <= Ceiling ELSE Len(View') + 2 <= Ceiling
        <4>1. ASSUME Closing PROVE InView(ram.seg)'
          <5>1. Reaches(Entry)'
            BY <3>1, LogInvKept DEF LogInv, Replacing
          <5>2. Entry.id = ram.seg
            BY <4>1 DEF Closing, Entry
          <5> QED
            BY <2>2, <3>1, <5>1, <5>2 DEF Reaches, InView
        <4> QED
          BY <3>4, <4>1
      <3>6. Closing /\ ram.seg # ram.file => Len(View') + 2 > Ceiling
        BY <1>4, <2>3, <3>2
      <3> QED
        BY <1>1, <1>3, <1>7, <2>2, <2>3, <3>1, <3>5, <3>6 DEF Room
    <2> QED
      BY <2>1, <2>4, <2>5
  <1> QED
    BY <1>5, <1>6, <1>7, UpsertIs

LEMMA RecordRoom ==
    ASSUME FileInv, LogInv, Surveyed, Numbered, Resolved, Room, Record, Next, faults' = 0
    PROVE  Room'
  <1> USE DEF BootPoints, ScanPoints, UpsertPoints, OpenPoints, ClosePoints
  <1>1. /\ ram \in Ram /\ Located /\ Counted /\ used \in 0..MaxSeg /\ \A k : ~Fault(k)
        /\ Len(View') + Cardinality(Pending') <= Ceiling
    BY NoFaultYet, FitsKept DEF FileInv, Types
  <1>2. View' = View /\ \A i : InView(i)' <=> InView(i)
    BY RecordProtocol DEF InView
  <1>3. /\ pc \in OpenPoints \cup ClosePoints \cup {"segment", "rec"}
        /\ pc' \in OpenPoints \cup ClosePoints \cup {"rec", "upsert", "done"}
        /\ pc' = "upsert" => pc = "record" /\ ram' = ram
        /\ pc' = "open" => ram' = ram
        /\ pc' \in {"header", "rec"} => pc \in {"open", "header", "rec"}
    BY DEF Record, NewSegment, MakeDateDir, Admit, OpenPart, WriteHeader,
        WriteChunk, Flush, Rotate, StopRequest, FinalizeOnce, CloseSink, RenamePart,
        RecordWav, At, Leave, JobFails, Continue, Go
  <1>4. ~Surveying' /\ pc' # "segment"
    BY <1>1, <1>3 DEF Surveying, Located
  <1>5. man["final"].recs = View
    BY <1>3 DEF Resolved, View
  <1>6. /\ ~OpenPart => Pending' \subseteq Pending /\ Parts' \subseteq Parts
        /\ OpenPart => Pending' \subseteq Pending \cup {ram.seg}
    BY PendingKept
  <1>7. ASSUME ram'.seg = ram.seg PROVE InView(ram.seg)' <=> InView(ram.seg)
    BY <1>2, <1>7 DEF InView
  <1>8. /\ Len(View) \in Nat /\ Ceiling \in Nat
    BY LogKept, BoundsAssumption
  <1> HIDE DEF Pending, Parts
  <1>9. CASE NewSegment
    <2>1. pc = "segment" /\ Pending = {} /\ wav' = wav /\ ~OpenPart
      BY <1>9 DEF NewSegment, OpenPart, At, card, Room
    <2>2. Pending' = {}
      BY <1>6, <2>1
    <2>3. CASE pc' = "mkdir" /\ ram'.job = ram.job
      <3>1. ~Closing' /\ (Opening' => Opening)
        BY <2>1, <2>3 DEF Closing, Opening
      <3> QED
        BY <1>1, <1>2, <1>4, <2>2, <2>3, <3>1 DEF Room
    <2>4. CASE /\ ram'.seg = ram.seg /\ ram'.file = ram.file /\ ram'.job = "stop"
               /\ pc' = IF ram.job = "rotate" THEN "finalize" ELSE "done"
      <3>1. CASE ram.job = "rotate"
        <4>1. /\ Opening /\ Len(View) + 1 <= Ceiling /\ ram.seg = ram.file /\ Reaches(Entry)
          BY <2>1, <3>1 DEF Opening, Room, Numbered
        <4>2. Entry' = Entry
          BY <2>1, <2>4, <3>1 DEF Entry
        <4>3. Reaches(Entry)'
          BY <1>2, <4>1, <4>2 DEF Reaches
        <4>4. ~Opening'
          BY <2>4 DEF Opening
        <4> QED
          BY <1>1, <1>2, <1>4, <2>2, <2>4, <3>1, <4>1, <4>3, <4>4 DEF Room
      <3>2. CASE ram.job # "rotate"
        BY <1>1, <1>4, <2>4, <3>2 DEF Room, Opening, Closing
      <3> QED
        BY <3>1, <3>2
    <2> QED
      BY <1>1, <1>9, <2>3, <2>4, NewSegmentIs
  <1>10. CASE MakeDateDir \/ Admit
    <2>1. /\ pc \in {"mkdir", "admit"} /\ Pending = {} /\ wav' = wav /\ ~OpenPart
          /\ Opening => Len(View) + 1 <= Ceiling
          /\ ~InView(ram.seg)
      BY <1>10, DirAdmitIs DEF OpenPart, At, Room, Numbered
    <2>2. Pending' = {}
      BY <1>6, <2>1
    <2>3. CASE pc' \in {"admit", "open"} /\ ram' = ram /\ (pc' = "open" => AppendRoom)
      <3>1. pc' = "open" => Len(View) + 2 <= Ceiling
        BY <1>5, <2>3 DEF AppendRoom
      <3>2. ~Closing' /\ (Opening' => Opening)
        BY <2>1, <2>3 DEF Closing, Opening
      <3> QED
        BY <1>1, <1>2, <1>4, <2>1, <2>2, <2>3, <3>1, <3>2 DEF Room
    <2>4. CASE Failed /\ ~AppendRoom
      <3>1. /\ pc' = IF ram.job = "rotate" THEN "finalize" ELSE "done"
            /\ ram'.seg = ram.seg /\ ram'.file = ram.file /\ ~Opening'
            /\ ram'.job = IF ram.job = "rotate" THEN "stop" ELSE ram.job
        BY <2>4 DEF Failed, SameSegment, Opening
      <3>2. Len(View) + 2 > Ceiling
        BY <1>5, <1>8, <2>4 DEF AppendRoom
      <3>3. ~InView(ram.seg)'
        BY <1>7, <2>1, <3>1
      <3>4. Closing' => Len(View) + 1 <= Ceiling /\ ram'.job = "stop"
        BY <2>1, <3>1 DEF Closing, Opening
      <3> QED
        BY <1>1, <1>2, <1>4, <2>2, <3>1, <3>2, <3>3, <3>4 DEF Room
    <2> QED
      BY <1>1, <1>10, <2>3, <2>4, DirAdmitIs
  <1>11. CASE OpenPart
    <2>1. /\ pc = "open" /\ Pending = {} /\ Len(View) + 2 <= Ceiling
          /\ pc' = "header" /\ ram' = ram /\ (Opening => Len(View) + 1 <= Ceiling)
      BY <1>1, <1>11, OpenPartIs DEF OpenPart, At, Room
    <2>2. Pending' \subseteq {ram.seg}
      BY <1>6, <1>11, <2>1
    <2>3. ~Closing' /\ (Opening' => Opening)
      BY <2>1 DEF Closing, Opening
    <2> QED
      BY <1>1, <1>2, <1>4, <2>1, <2>2, <2>3 DEF Room
  <1>12. CASE WriteHeader
    <2>1. /\ pc = "header" /\ ~OpenPart /\ Pending \subseteq {ram.seg} /\ Len(View) + 2 <= Ceiling
          /\ pc' = "rec" /\ ram'.seg = ram.seg /\ ram'.file = ram.seg /\ ram'.job = "record"
      BY <1>1, <1>12, WriteHeaderIs DEF WriteHeader, OpenPart, At, Room
    <2>2. ~Closing' /\ ~Opening'
      BY <2>1 DEF Closing, Opening
    <2> QED
      BY <1>1, <1>2, <1>4, <1>6, <2>1, <2>2 DEF Room
  <1>13. CASE WriteChunk \/ Flush \/ Rotate \/ StopRequest
    <2>1. /\ pc = "rec" /\ pc' \in {"rec", "finalize"} /\ ~OpenPart
          /\ ram'.seg = ram.seg /\ ram'.file = ram.file
      <3>1. CASE WriteChunk
        BY <1>1, <3>1, WriteChunkIs DEF WriteChunk, OpenPart, At
      <3>2. CASE Flush
        BY <1>1, <3>2, FlushIs DEF Flush, OpenPart, At
      <3>3. CASE Rotate \/ StopRequest
        BY <3>3, LeavesIs DEF SameSegment, OpenPart, At
      <3> QED
        BY <1>13, <3>1, <3>2, <3>3
    <2>2. /\ Pending \subseteq {ram.seg} /\ Pending \subseteq {ram.file}
          /\ Len(View) + 2 <= Ceiling /\ ram.seg = ram.file /\ ~InView(ram.seg)
      BY <2>1 DEF Room, Numbered, Recording
    <2>3. Len(View) + 1 <= Ceiling
      BY <1>8, <2>2
    <2>4. ~Opening' /\ ~InView(ram.seg)'
      BY <1>7, <2>1, <2>2 DEF Opening
    <2> QED
      BY <1>1, <1>2, <1>4, <1>6, <2>1, <2>2, <2>3, <2>4 DEF Room
  <1>14. CASE FinalizeOnce \/ CloseSink \/ RenamePart \/ RecordWav
    <2>1. /\ pc \in ClosePoints /\ Closing /\ ~OpenPart
          /\ pc' \notin {"rec", "verify"} \cup OpenPoints
      BY <1>1, <1>14 DEF FinalizeOnce, CloseSink, RenamePart, RecordWav, OpenPart, At, Closing,
          Located, Continue, Go, JobFails
    <2>2. /\ Pending \subseteq {ram.seg} /\ Pending \subseteq {ram.file} /\ Len(View) + 1 <= Ceiling
          /\ ram.job = "rotate"
                 => IF InView(ram.seg) THEN Len(View) + 1 <= Ceiling ELSE Len(View) + 2 <= Ceiling
          /\ ram.seg # ram.file => Len(View) + 2 > Ceiling
      BY <2>1 DEF Room
    <2>3. ASSUME Failed, pc \in {"finalize", "record"}, wav' = wav,
                 ram.job = "rotate" => ram.called
          PROVE  Room'
      BY <1>1, <1>2, <1>6, <2>1, <2>3, RefusedRoom
    <2>4. ASSUME pc' # "upsert" \/ pc = "record", pc' \in ClosePoints \cup UpsertPoints,
                 ram'.seg = ram.seg, ram'.file = ram.file, ram'.job = ram.job,
                 pc' \in {"record", "upsert"} => (~InView(ram.seg) \/ (Reaches(Entry) /\ wav' = wav /\ ram' = ram)),
                 pc' # "finalize"
          PROVE  Room'
      <3>1. ~InView(ram.seg)' <=> ~InView(ram.seg)
        BY <1>7, <2>4
      <3>2. Closing' /\ ~Opening'
        BY <2>1, <2>4 DEF Closing, Opening
      <3>3. pc' \in {"record", "upsert"} => ~InView(ram.seg)' \/ Reaches(Entry)'
        <4>1. wav' = wav /\ ram' = ram => Entry' = Entry
          BY SameEntry
        <4> QED
          BY <1>2, <2>4, <3>1, <4>1 DEF Reaches
      <3> QED
        BY <1>1, <1>2, <1>4, <1>6, <2>1, <2>2, <2>4, <3>1, <3>2, <3>3 DEF Room
    <2>5. CASE FinalizeOnce
      <3>1. pc = "finalize" /\ wav' = wav /\ (~InView(ram.seg) \/ Reaches(Entry))
        BY <2>1, <2>5 DEF FinalizeOnce, At, card, Room
      <3>2. CASE ~ram.called /\ pc' = "close" /\ SameJob /\ ram'.seg = ram.seg /\ ram'.file = ram.file
        BY <2>4, <3>2 DEF SameJob
      <3>3. CASE pc' = "record" /\ ram' = ram
        BY <2>4, <3>1, <3>3
      <3>4. CASE ram.called /\ Failed
        BY <2>3, <3>1, <3>4
      <3> QED
        BY <1>1, <2>5, <3>2, <3>3, <3>4, FinalizeOnceIs
    <2>6. CASE CloseSink \/ RenamePart
      <3>1. pc \in {"close", "rename"} /\ ~InView(ram.seg)
        BY <2>6 DEF CloseSink, RenamePart, At, Numbered, Recording
      <3>2. /\ pc' \in {"rename", "record"} /\ ram'.seg = ram.seg /\ ram'.file = ram.file
            /\ ram'.job = ram.job
        BY <1>1, <2>6, CloseSinkIs, RenamePartIs DEF SameJob
      <3> QED
        BY <2>4, <3>1, <3>2
    <2>7. CASE RecordWav
      <3>1. /\ pc = "record" /\ wav' = wav /\ ram.called /\ (~InView(ram.seg) \/ Reaches(Entry))
            /\ (pc' = "upsert" /\ ram' = ram) \/ Failed
        BY <2>1, <2>7, RecordWavIs DEF Numbered, Room
      <3>2. CASE pc' = "upsert" /\ ram' = ram
        BY <2>4, <3>1, <3>2
      <3> QED
        BY <2>3, <3>1, <3>2
    <2> QED
      BY <1>14, <2>5, <2>6, <2>7
  <1> QED
    BY <1>9, <1>10, <1>11, <1>12, <1>13, <1>14 DEF Record

LEMMA RoomKept ==
    ASSUME FileInv, LogInv, Surveyed, Numbered, Resolved, Room, Next, faults' = 0
    PROVE  Room'
  <1>1. CASE Boot
    BY <1>1, BootRoom
  <1>2. CASE Upsert
    BY <1>2, UpsertRoom
  <1>3. CASE Record
    BY <1>3, RecordRoom
  <1>4. CASE PowerOn \/ PowerCut \/ \E i \in Ids : HostChanges(i)
    <2>1. pc' \in {"off", "done", "device"}
      BY <1>4 DEF PowerOn, PowerCut, HostChanges, Go
    <2>2. Len(View') + Cardinality(Pending') <= Ceiling
      BY FitsKept
    <2> HIDE DEF Pending
    <2> QED
      BY <2>1, <2>2 DEF Room, Surveying, Opening, Closing, ScanPoints, UpsertPoints,
          OpenPoints, ClosePoints
  <1> QED
    BY <1>1, <1>2, <1>3, <1>4 DEF Next, Writer

Fits == faults = 0 => Resolved /\ Room

LEMMA FitsAlways == Spec => [](FileInv /\ LogInv /\ Surveyed /\ Numbered /\ Fits)
  <1>1. Init => Fits
    <2>1. ASSUME Init PROVE Fits
      <3>1. View = <<>> /\ pc = "off" /\ \A f \in Files : ~Exists(f)
        BY <2>1, LogInvInit DEF Init, Exists
      <3>2. Pending = {}
        BY <2>1 DEF Init, Pending, NoWav
      <3>3. Cardinality(Pending) = 0 /\ Len(View) = 0 /\ Ceiling \in Nat
        BY <3>1, <3>2, FS_EmptySet, BoundsAssumption
      <3>4. Resolved
        BY <3>1 DEF Resolved, Files, ScanPoints, UpsertPoints, OpenPoints, ClosePoints
      <3> HIDE DEF Pending
      <3> QED
        BY <3>1, <3>3, <3>4 DEF Fits, Room, Surveying, Opening, Closing, ScanPoints,
            UpsertPoints, OpenPoints, ClosePoints
    <2> QED
      BY <2>1
  <1>2. FileInv /\ LogInv /\ Surveyed /\ Numbered /\ Fits /\ [Next]_vars => Fits'
    <2>1. ASSUME Fits, UNCHANGED vars PROVE Fits'
      <3>1. man' = man /\ wav' = wav /\ ram' = ram /\ pc' = pc /\ faults' = faults
        BY <2>1 DEF vars
      <3>2. Entry' = Entry /\ Pending' = Pending /\ Parts' = Parts
        BY <3>1, SameEntry, SameLog DEF Pending, Parts
      <3>3. Resolved => Resolved'
        BY <3>1, SameLog, SameExtends, Zenon DEF Resolved, Files
      <3>4. Room => Room'
        <4>1. /\ View' = View /\ (InView(ram.seg)' <=> InView(ram.seg))
              /\ (Reaches(Entry)' <=> Reaches(Entry))
          BY <3>1, <3>2, SameLog DEF InView, Reaches
        <4>2. /\ Closing' <=> Closing
              /\ Opening' <=> Opening
              /\ Surveying' <=> Surveying
          BY <3>1 DEF Closing, Opening, Surveying
        <4> HIDE DEF Pending, Parts
        <4> QED
          BY <3>1, <3>2, <4>1, <4>2 DEF Room
      <3> QED
        BY <2>1, <3>1, <3>3, <3>4 DEF Fits
    <2>2. ASSUME FileInv, LogInv, Surveyed, Numbered, Fits, Next PROVE Fits'
      <3>1. ASSUME faults' = 0 PROVE faults = 0 /\ Resolved /\ Room
        BY <2>2, <3>1, NoFaultYet DEF FileInv, Fits
      <3> QED
        BY <2>2, <3>1, ResolvedKept, RoomKept DEF Fits
    <2> QED
      BY <2>1, <2>2
  <1> QED
    BY <1>1, <1>2, NumberedAlways, PTL DEF Spec

(* An append is never refused for lack of room as long as no operation      *)
(* failed, whether a rotation, a stop or the recovery after a power cut     *)
(* needs it: the admission of a segment (device_manifest_has_append_room)   *)
(* reserved the entry, and with it the one a refused rotation needs.        *)
THEOREM RoomIsReserved == Spec => []RoomReserved
  <1>1. FileInv /\ Surveyed /\ Fits => RoomReserved
    <2> SUFFICES ASSUME FileInv, Surveyed, Fits, faults = 0, pc = "upsert", ~Listed(Entry.id)
                 PROVE  Len(man["final"].recs) < Ceiling
      BY DEF RoomReserved
    <2>1. Resolved /\ Room /\ Exists("final")
      BY DEF Fits, Resolved, UpsertPoints
    <2>2. man["final"].recs = View /\ ~InView(Entry.id)
      BY <2>1 DEF View, Listed, InView
    <2>3. Len(View) \in Nat /\ Ceiling \in Nat /\ IsFiniteSet(Pending)
      <3>1. Pending \in SUBSET Ids
        BY DEF Pending
      <3> QED
        BY <3>1, ViewType, WavsFinite, BoundsAssumption DEF FileInv
    <2>4. CASE ram.job = "sync"
      <3>1. ram.cur \in Wavs /\ Entry.id = ram.cur
        BY <2>4 DEF Surveyed, UpsertPoints, Entry
      <3>2. Pending # {}
        BY <2>2, <3>1 DEF Wavs, Pending
      <3>3. Cardinality(Pending) \in Nat /\ Cardinality(Pending) # 0
        BY <2>3, <3>2, FS_EmptySet, FS_CardinalityType
      <3>4. Len(View) + Cardinality(Pending) <= Ceiling
        BY <2>1 DEF Room
      <3> QED
        BY <2>2, <2>3, <3>3, <3>4
    <2>5. CASE ram.job # "sync"
      <3>1. Closing
        BY <2>5 DEF Closing, UpsertPoints
      <3>2. Len(View) + 1 <= Ceiling
        BY <2>1, <3>1 DEF Room
      <3> QED
        BY <2>2, <2>3, <3>2
    <2> QED
      BY <2>4, <2>5
  <1> QED
    BY <1>1, FitsAlways, PTL

-----------------------------------------------------------------------------
(* Power cuts alone.  No recordingId is listed twice.                       *)
Distinct == \A j, k \in 1..Len(View) : View[j].id = View[k].id => j = k

LEMMA DistinctAlways == Spec => []Distinct
  <1>1. Init => Distinct
    <2>1. ASSUME Init PROVE Distinct
      <3>1. View = <<>> /\ Len(View) = 0
        BY <2>1, LogInvInit
      <3> QED
        BY <3>1 DEF Distinct
    <2> QED
      BY <2>1
  <1>2. FileInv /\ LogInv /\ Distinct /\ [Next]_vars => Distinct'
    <2>1. ASSUME Distinct, View' = View PROVE Distinct'
      BY <2>1 DEF Distinct
    <2>2. ASSUME FileInv, Distinct, Grows PROVE Distinct'
      <3>1. View \in Seq(Entries) /\ Entry \in Entries /\ Len(View) \in Nat
        BY <2>2, ViewType, EntryType DEF FileInv, Grows, Install, At, UpsertPoints
      <3>2. /\ Len(View') = Len(View) + 1 /\ View'[Len(View) + 1] = Entry
            /\ \A k \in 1..Len(View) : View'[k] = View[k] /\ View[k].id # Entry.id
        BY <2>2, <3>1 DEF Grows, InView
      <3>3. ASSUME NEW j \in 1..Len(View'), NEW k \in 1..Len(View'), View'[j].id = View'[k].id
            PROVE  j = k
        <4>1. /\ j \in 1..Len(View) \/ j = Len(View) + 1
              /\ k \in 1..Len(View) \/ k = Len(View) + 1
          BY <3>1, <3>2
        <4> QED
          BY <2>2, <3>2, <3>3, <4>1 DEF Distinct
      <3> QED
        BY <3>3 DEF Distinct
    <2>3. ASSUME UNCHANGED vars PROVE View' = View
      BY <2>3, SameLog DEF vars
    <2> QED
      BY <2>1, <2>2, <2>3, LogInvKept
  <1> QED
    BY <1>1, <1>2, LogInvAlways, PTL DEF Spec

(* A boot starts without an error, and stops at its first.                  *)
Clean ==
    pc \in BootPoints \cup {"off"} \/ (pc \in UpsertPoints /\ ram.job = "sync") => err = "none"

LEMMA CleanKept ==
    ASSUME FileInv, LogInv, Clean, Next
    PROVE  Clean'
  <1> USE DEF BootPoints, ScanPoints, UpsertPoints, OpenPoints, ClosePoints
  <1>1. CASE Boot
    <2>1. pc \in BootPoints
      BY <1>1, BootIs, SMTT(30)
    <2>2. pc' = "done" \/ err' = err
      BY <1>1 DEF Boot, EnsureDeviceJson, WriteDeviceJson, RecoverProbe, RecoverRestore,
          RecoverRetire, RecoverSettle, RecoverPromote, CreateEmpty, WriteEmpty, RenameEmpty,
          StartScan, ScanNext, Isolate, RebuildHeader, TrimTail, NameRecovered, CountBefore,
          EnsureOneWav, CountAfter, Continue, Halt, Go
    <2> QED
      BY <2>1, <2>2 DEF Clean
  <1>2. CASE Upsert
    <2>1. /\ pc \in UpsertPoints
          /\ pc' \in {"done", "finalize"} \/ (err' = err /\ ram'.job = ram.job)
      BY <1>2, UpsertIs DEF Failed, Upserted, SameJob
    <2>2. pc' = "sync" => ram.job = "sync"
      BY <1>2 DEF Upsert, UpsertRead, RetireBackup, OpenTmp, WriteTmp, PublishTmp, SetAside,
          Install, Rollback, Verify, UpsertDone, JobFails, Continue, Go
    <2>3. pc' \in {"sync", "segment", "done", "finalize"} \cup UpsertPoints
      BY <1>2 DEF Upsert, UpsertRead, RetireBackup, OpenTmp, WriteTmp, PublishTmp, SetAside,
          Install, Rollback, Verify, UpsertDone, JobFails, Continue, Go
    <2> QED
      BY <2>1, <2>2, <2>3 DEF Clean
  <1>3. CASE Record
    <2>1. /\ pc' \in OpenPoints \cup ClosePoints \cup {"rec", "upsert", "done"}
          /\ pc' = "upsert" => pc = "record" /\ ram' = ram
      BY <1>3 DEF Record, NewSegment, MakeDateDir, Admit, OpenPart, WriteHeader,
          WriteChunk, Flush, Rotate, StopRequest, FinalizeOnce, CloseSink, RenamePart,
          RecordWav, At, Leave, JobFails, Continue, Go
    <2>2. pc = "record" => ram.job # "sync"
      BY DEF FileInv, Located
    <2> QED
      BY <2>1, <2>2 DEF Clean
  <1>4. CASE PowerOn \/ PowerCut \/ \E i \in Ids : HostChanges(i)
    <2>1. err' = "none" \/ (pc' = pc /\ err' = err /\ pc \in {"off", "done"})
      BY <1>4 DEF PowerOn, PowerCut, HostChanges
    <2> QED
      BY <2>1 DEF Clean
  <1> QED
    BY <1>1, <1>2, <1>3, <1>4 DEF Next, Writer

(* Nor did the host change a file.                                          *)
LEMMA NoEditYet ==
    ASSUME Types, Next, edits' = 0
    PROVE  edits = 0 /\ \A i \in Ids : ~HostChanges(i)
  <1>1. edits \in Nat
    BY BoundsAssumption, SMTT(30) DEF Types
  <1>2. edits' = edits \/ \E i \in Ids : HostChanges(i)
    BY DEF Next, Writer, PowerOn, PowerCut, Boot, Upsert, Record,
        EnsureDeviceJson, WriteDeviceJson, RecoverProbe, RecoverRestore, RecoverRetire,
        RecoverSettle, RecoverPromote, CreateEmpty, WriteEmpty, RenameEmpty, StartScan,
        ScanNext, Isolate, RebuildHeader, TrimTail, NameRecovered, CountBefore, EnsureOneWav,
        CountAfter, UpsertRead, RetireBackup, OpenTmp, WriteTmp, PublishTmp, SetAside,
        Install, Rollback, Verify, NewSegment, MakeDateDir, Admit, OpenPart, WriteHeader,
        WriteChunk, Flush, Rotate, StopRequest, FinalizeOnce, CloseSink, RenamePart,
        RecordWav, NoFault, counts, Fault
  <1>3. \A i \in Ids : HostChanges(i) => edits' = edits + 1
    BY DEF HostChanges
  <1> QED
    BY <1>1, <1>2, <1>3

(* A published file that a recovery or a recording is done with: the header *)
(* tells the truth, no half sample follows, and all of it is on the card.   *)
Even(w) == w.head /\ w.declared = w.size /\ Whole(w.size) = w.size /\ w.durable = w.size

(* As long as no operation failed and the host changed nothing, every file  *)
(* with its final name is of that kind, and what is about to get one        *)
(* becomes so in time.                                                      *)
Sound ==
    /\ \A i \in Wavs : Even(wav[i])
    /\ Recording => wav[ram.file].head /\ Whole(wav[ram.file].size) = wav[ram.file].size
    /\ pc = "rename" => Even(wav[ram.file])
    /\ pc \in {"rebuild", "trim", "name"} => wav[ram.cur].head
    /\ pc = "name" => Even(wav[ram.cur])
    /\ pc = "finalize" /\ ram.called => ram.fin

SameRecording(i) == SameBytes(i) /\ SameFile(i)

(* Nothing changes a file with its final name but the host, and only the    *)
(* recovery and the closing of a segment give one.                          *)
LEMMA WavsKept ==
    ASSUME FileInv, Sound, Next, edits' = 0
    PROVE  /\ \A i \in Wavs : SameRecording(i) /\ i \in Wavs'
           /\ \A i \in Wavs' : \/ i \in Wavs
                               \/ NameRecovered /\ i = ram.cur
                               \/ RenamePart /\ i = ram.file
  <1>1. wav \in [Ids -> WavFile] /\ \A i \in Ids : ~HostChanges(i)
    BY NoEditYet DEF FileInv, Types
  <1>2. ASSUME wav' = wav \/ (\E j \in Ids \ Wavs : OnlyWav(j) /\ (SameFile(j) \/ wav'[j].place # "wav"))
        PROVE  /\ \A i \in Wavs : SameRecording(i) /\ i \in Wavs'
               /\ \A i \in Wavs' : i \in Wavs
    BY <1>2 DEF OnlyWav, SameRecording, SameBytes, SameFile, Wavs
  <1>3. CASE wav' = wav
    BY <1>2, <1>3
  <1>4. CASE Isolate \/ RebuildHeader \/ TrimTail
    <2>1. ram.cur \in Ids /\ wav[ram.cur].place = "part"
      BY <1>4 DEF FileInv, Located, Published, Isolate, RebuildHeader, TrimTail, At,
          ScanPoints, Parts
    <2>2. ram.cur \in Ids \ Wavs
      BY <2>1 DEF Wavs
    <2>3. \/ wav' = wav
          \/ OnlyWav(ram.cur) /\ (SameFile(ram.cur) \/ wav'[ram.cur].place # "wav")
      <3>1. CASE Isolate
        BY <3>1, IsolateIs
      <3>2. CASE RebuildHeader
        BY <3>2, RebuildHeaderIs
      <3>3. CASE TrimTail
        BY <3>3, TrimTailIs
      <3> QED
        BY <1>4, <3>1, <3>2, <3>3
    <2> QED
      BY <1>2, <2>2, <2>3
  <1>5. CASE NameRecovered
    <2>1. ram.cur \in Ids /\ wav[ram.cur].place = "part"
      BY <1>5 DEF FileInv, Located, Published, NameRecovered, At, ScanPoints, Parts
    <2>2. ram.cur \notin Wavs
      BY <2>1 DEF Wavs
    <2> QED
      BY <1>5, <2>1, <2>2, NameRecoveredIs DEF OnlyWav, SameRecording, SameBytes, SameFile, Wavs
  <1>6. CASE OpenPart \/ WriteHeader
    <2>1. ram.seg \in Ids /\ wav[ram.seg].place # "wav"
      BY <1>6 DEF FileInv, Located, Counted, OpenPart, WriteHeader, At, OpenPoints, NoWav
    <2>2. ram.seg \in Ids \ Wavs
      BY <2>1 DEF Wavs
    <2>3. \/ wav' = wav
          \/ OnlyWav(ram.seg) /\ wav'[ram.seg].place # "wav"
      <3>1. CASE OpenPart
        BY <3>1, OpenPartIs DEF NoWav
      <3>2. CASE WriteHeader
        BY <3>2, WriteHeaderIs
      <3> QED
        BY <1>6, <3>1, <3>2
    <2> QED
      BY <1>2, <2>2, <2>3
  <1>7. CASE WriteChunk \/ Flush \/ CloseSink
    <2>1. ram.file \in Ids /\ wav[ram.file].place # "wav"
      BY <1>7, WriteChunkIs, FlushIs, CloseSinkIs DEF FileInv, Counted, WriteChunk, Flush, At
    <2>2. ram.file \in Ids \ Wavs
      BY <2>1 DEF Wavs
    <2>3. \/ wav' = wav
          \/ OnlyWav(ram.file) /\ SameFile(ram.file)
      BY <1>7, WriteChunkIs, FlushIs, CloseSinkIs
    <2> QED
      BY <1>2, <2>2, <2>3
  <1>8. CASE RenamePart
    <2>1. ram.file \in Ids /\ wav[ram.file].place = "part"
      BY <1>8, RenamePartIs
    <2>2. ram.file \notin Wavs
      BY <2>1 DEF Wavs
    <2> QED
      BY <1>8, <2>1, <2>2, RenamePartIs DEF OnlyWav, SameRecording, SameBytes, SameFile, Wavs
  <1>9. CASE PowerCut
    <2>1. ASSUME NEW i \in Wavs PROVE SameRecording(i)
      <3>1. /\ i \in Ids /\ wav[i].durable = wav[i].size /\ wav[i].size \in Nat
            /\ wav[i].durable \in Nat
        BY <1>1, <2>1, BoundsAssumption DEF Wavs, WavFile, Sound, Even
      <3>2. wav' \in [Ids -> WavFile]
        BY <1>9, PowerCutIs
      <3>3. wav'[i].size \in Nat /\ wav'[i].durable \in Nat
        BY <3>1, <3>2, BoundsAssumption DEF WavFile
      <3>4. /\ SameFile(i) /\ wav'[i].head = wav[i].head
            /\ wav'[i].declared = wav[i].declared
            /\ wav[i].durable <= wav'[i].size /\ wav'[i].size <= wav[i].size
            /\ wav'[i] = wav[i] \/ wav'[i].durable = wav'[i].size
        BY <1>9, <3>1, PowerCutIs
      <3>5. wav'[i].size = wav[i].size
        BY <3>1, <3>3, <3>4
      <3> QED
        BY <3>1, <3>4, <3>5 DEF SameRecording, SameBytes
    <2>2. \A i \in Ids : SameFile(i)
      BY <1>9, PowerCutIs
    <2> QED
      BY <2>1, <2>2 DEF SameFile, Wavs
  <1>10. \/ wav' = wav \/ Isolate \/ NameRecovered \/ RebuildHeader \/ TrimTail
         \/ OpenPart \/ WriteHeader \/ WriteChunk \/ Flush \/ CloseSink \/ RenamePart \/ PowerCut
    BY <1>1 DEF Next, Writer, PowerOn, Boot, Upsert, Record, EnsureDeviceJson, WriteDeviceJson,
        RecoverProbe, RecoverRestore, RecoverRetire, RecoverSettle, RecoverPromote,
        CreateEmpty, WriteEmpty, RenameEmpty, StartScan, ScanNext, CountBefore,
        EnsureOneWav, CountAfter, UpsertRead, RetireBackup, OpenTmp, WriteTmp, PublishTmp,
        SetAside, Install, Rollback, Verify, NewSegment, MakeDateDir, Admit, Rotate,
        StopRequest, FinalizeOnce, RecordWav, Same, ManOnly, card, KeepOthers
  <1> QED
    BY <1>3, <1>4, <1>5, <1>6, <1>7, <1>8, <1>9, <1>10

LEMMA SameEven ==
    ASSUME NEW i, SameRecording(i), Even(wav[i])
    PROVE  Even(wav'[i])
  BY DEF SameRecording, SameBytes, Even

LEMMA SoundWavs ==
    ASSUME FileInv, Sound, Next, faults' = 0, edits' = 0
    PROVE  \A i \in Wavs' : Even(wav'[i])
  <1>1. \A k : ~Fault(k)
    BY NoFaultYet DEF FileInv
  <1>2. ASSUME NEW i \in Wavs PROVE Even(wav'[i])
    <2>1. Even(wav[i]) /\ SameRecording(i)
      BY <1>2, WavsKept DEF Sound
    <2> QED
      BY <2>1, SameEven
  <1>3. ASSUME NameRecovered PROVE Even(wav'[ram.cur])
    <2>1. Even(wav[ram.cur]) /\ SameBytes(ram.cur)
      BY <1>1, <1>3, NameRecoveredIs DEF NameRecovered, At, Sound
    <2> QED
      BY <2>1 DEF Even, SameBytes
  <1>4. ASSUME RenamePart PROVE Even(wav'[ram.file])
    <2>1. Even(wav[ram.file]) /\ SameBytes(ram.file)
      BY <1>1, <1>4, RenamePartIs DEF RenamePart, At, Sound
    <2> QED
      BY <2>1 DEF Even, SameBytes
  <1> QED
    BY <1>2, <1>3, <1>4, WavsKept

LEMMA SoundKept ==
    ASSUME FileInv, LogInv, Surveyed, Numbered, Sound, Next, faults' = 0, edits' = 0
    PROVE  Sound'
  <1> USE DEF BootPoints, ScanPoints, UpsertPoints, OpenPoints, ClosePoints
  <1>1. /\ ram \in Ram /\ Located /\ Counted /\ used \in 0..MaxSeg /\ \A k : ~Fault(k)
        /\ wav \in [Ids -> WavFile] /\ \A i \in Wavs' : Even(wav'[i])
    BY NoFaultYet, SoundWavs DEF FileInv, Types
  <1>2. ASSUME pc' \notin {"rec", "close", "rename", "finalize", "rebuild", "trim", "name"}
        PROVE  Sound'
    BY <1>1, <1>2 DEF Sound, Recording
  <1>3. ASSUME pc' = "finalize", ram'.called, ram'.fin PROVE Sound'
    BY <1>1, <1>3 DEF Sound, Recording
  <1>4. CASE PowerOn \/ PowerCut \/ \E i \in Ids : HostChanges(i)
    <2>1. pc' \in {"off", "done", "device"}
      BY <1>4 DEF PowerOn, PowerCut, HostChanges, Go
    <2> QED
      BY <1>2, <2>1
  <1>5. CASE Boot
    <2>1. pc' \in BootPoints \cup {"upsert", "segment", "done"}
      BY <1>5, BootIs
    <2>2. CASE ScanNext
      <3>1. wav' = wav
        BY <2>2 DEF ScanNext, card
      <3>2. CASE pc' = IF HeaderValid(wav[ram'.cur]) THEN "rebuild" ELSE "isolate"
        BY <1>1, <3>1, <3>2 DEF Sound, Recording, HeaderValid
      <3> QED
        BY <1>1, <1>2, <2>2, <3>2, ScanNextIs
    <2>3. CASE RebuildHeader
      <3>1. /\ pc' = "trim" /\ ram' = ram /\ pc = "rebuild"
            /\ wav'[ram.cur].head = wav[ram.cur].head
        BY <1>1, <2>3, RebuildHeaderIs DEF RebuildHeader, At
      <3> QED
        BY <1>1, <3>1 DEF Sound, Recording
    <2>4. CASE TrimTail
      <3>1. /\ pc' = "name" /\ ram' = ram /\ pc = "trim" /\ ram.cur \in Ids
            /\ wav[ram.cur].head /\ wav[ram.cur].declared = Whole(wav[ram.cur].size)
        BY <1>1, <2>4 DEF TrimTail, At, Continue, Go, Sound, Located, FileInv, Published
      <3>2. /\ wav'[ram.cur].declared = wav[ram.cur].declared
            /\ wav'[ram.cur].head = wav[ram.cur].head
            /\ wav'[ram.cur].size = wav[ram.cur].declared
            /\ wav'[ram.cur].durable = wav[ram.cur].declared
        BY <1>1, <2>4, TrimTailIs
      <3>3. Whole(Whole(wav[ram.cur].size)) = Whole(wav[ram.cur].size)
        <4>1. wav[ram.cur].size \in Nat
          BY <1>1, <3>1, BoundsAssumption DEF WavFile
        <4> QED
          BY <4>1, WholeBounds
      <3>4. Even(wav'[ram.cur])
        BY <3>1, <3>2, <3>3 DEF Even
      <3> QED
        BY <1>1, <3>1, <3>2, <3>4 DEF Sound, Recording
    <2>5. CASE Boot /\ ~ScanNext /\ ~RebuildHeader /\ ~TrimTail
      <3>1. pc' \notin {"rebuild", "trim", "name"}
        BY <2>5 DEF Boot, EnsureDeviceJson, WriteDeviceJson, RecoverProbe, RecoverStep,
            RecoverRestore, RecoverRetire, RecoverSettle, RecoverPromote, CreateEmpty,
            WriteEmpty, RenameEmpty, StartScan, Isolate, NameRecovered, CountBefore,
            EnsureOneWav, CountAfter, Continue, Halt, Go
      <3> QED
        BY <1>2, <2>1, <3>1
    <2> QED
      BY <1>5, <2>2, <2>3, <2>4, <2>5
  <1>6. CASE Upsert
    <2>1. CASE Failed
      <3>1. CASE ram.job = "rotate"
        <4>1. ram.called /\ ram.fin
          BY <1>6, <3>1, UpsertIs DEF Numbered
        <4> QED
          BY <1>3, <2>1, <3>1, <4>1 DEF Failed, SameSegment
      <3> QED
        BY <1>2, <2>1, <3>1 DEF Failed
    <2> QED
      BY <1>2, <1>6, <2>1, UpsertIs DEF Upserted
  <1>7. CASE Record
    <2>1. CASE NewSegment \/ MakeDateDir \/ Admit \/ OpenPart
      <3>1. pc \in OpenPoints \cup {"segment"}
        BY <2>1 DEF NewSegment, MakeDateDir, Admit, OpenPart, At
      <3>2. \/ pc' \in OpenPoints \cup {"done"}
            \/ /\ pc' = "finalize" /\ ram.job = "rotate" /\ ram'.called = ram.called
               /\ ram'.fin = ram.fin
        BY <1>1, <2>1, NewSegmentIs, DirAdmitIs, OpenPartIs DEF Failed, SameSegment
      <3>3. ram.job = "rotate" => ram.called /\ ram.fin
        BY <3>1 DEF Numbered, Opening
      <3> QED
        BY <1>2, <1>3, <3>2, <3>3
    <2>2. CASE WriteHeader
      <3>1. /\ pc' = "rec" /\ wav'[ram.seg].size = 0 /\ wav'[ram.seg].head
            /\ ram'.file = ram.seg
        BY <1>1, <2>2, WriteHeaderIs
      <3>2. Whole(0) = 0
        BY DEF Whole
      <3> QED
        BY <1>1, <3>1, <3>2 DEF Sound
    <2>3. CASE WriteChunk
      <3>1. /\ pc = "rec" /\ pc' = "rec" /\ ram'.file = ram.file /\ ram.file \in Ids
            /\ wav'[ram.file].size = wav[ram.file].size + 2
            /\ wav'[ram.file].head = wav[ram.file].head
        BY <1>1, <2>3, WriteChunkIs DEF WriteChunk, At
      <3>2. wav[ram.file].head /\ Whole(wav[ram.file].size) = wav[ram.file].size
        BY <3>1 DEF Sound, Recording
      <3>3. wav[ram.file].size \in Nat
        BY <1>1, <3>1, BoundsAssumption DEF WavFile
      <3>4. Whole(wav[ram.file].size + 2) = wav[ram.file].size + 2
        BY <3>2, <3>3, WholeBounds
      <3> QED
        BY <1>1, <3>1, <3>2, <3>4 DEF Sound
    <2>4. CASE Flush
      <3>1. /\ pc = "rec" /\ pc' = "rec" /\ ram' = ram
            /\ wav'[ram.file].size = wav[ram.file].size
            /\ wav'[ram.file].head = wav[ram.file].head
        BY <1>1, <2>4, FlushIs DEF Flush, At
      <3> QED
        BY <1>1, <3>1 DEF Sound, Recording
    <2>5. CASE Rotate \/ StopRequest
      <3>1. pc = "rec" /\ pc' = "finalize" /\ ram'.file = ram.file /\ wav' = wav
            /\ ram'.called = ram.called
        BY <2>5, LeavesIs DEF SameSegment
      <3>2. ~ram.called
        BY <1>1, <3>1 DEF Counted
      <3> QED
        BY <1>1, <3>1, <3>2 DEF Sound, Recording
    <2>6. CASE FinalizeOnce
      <3>1. pc = "finalize" /\ wav' = wav
        BY <2>6 DEF FinalizeOnce, At, card
      <3>2. CASE ~ram.called /\ pc' = "close" /\ ram'.file = ram.file
        BY <1>1, <3>1, <3>2 DEF Sound, Recording
      <3>3. CASE pc' = "record"
        BY <1>2, <3>3
      <3>4. CASE ram.called /\ ~ram.fin
        BY <3>1, <3>4 DEF Sound
      <3> QED
        BY <1>1, <2>6, <3>2, <3>3, <3>4, FinalizeOnceIs
    <2>7. CASE CloseSink
      <3>1. /\ pc = "close" /\ pc' = "rename" /\ ram' = ram
            /\ wav'[ram.file].declared = ram.pcm
            /\ wav'[ram.file].size = wav[ram.file].size
            /\ wav'[ram.file].durable = wav[ram.file].size
            /\ wav'[ram.file].head = wav[ram.file].head
        BY <1>1, <2>7, CloseSinkIs DEF CloseSink, At
      <3>2. /\ wav[ram.file].head /\ Whole(wav[ram.file].size) = wav[ram.file].size
            /\ ram.pcm = Whole(wav[ram.file].size)
        BY <1>1, <3>1 DEF Sound, Recording, Counted
      <3>3. Even(wav'[ram.file])
        BY <3>1, <3>2 DEF Even
      <3> QED
        BY <1>1, <3>1, <3>2, <3>3 DEF Sound
    <2>8. CASE RenamePart
      BY <1>1, <1>2, <2>8, RenamePartIs
    <2>9. CASE RecordWav
      <3>1. CASE pc' = "upsert"
        BY <1>2, <3>1
      <3>2. CASE Failed
        <4>1. ram.called /\ ram.fin
          BY <2>9, RecordWavIs DEF Numbered
        <4> QED
          BY <1>2, <1>3, <3>2, <4>1 DEF Failed, SameSegment
      <3> QED
        BY <2>9, <3>1, <3>2, RecordWavIs
    <2> QED
      BY <1>7, <2>1, <2>2, <2>3, <2>4, <2>5, <2>6, <2>7, <2>8, <2>9 DEF Record
  <1> QED
    BY <1>4, <1>5, <1>6, <1>7 DEF Next, Writer

(* Until the manifest is full, a quiet run lists nothing but what is on the *)
(* card, as it is there.                                                    *)
Exact ==
    Len(View) + 2 <= Ceiling =>
        \A k \in 1..Len(View) : View[k].id \in Wavs /\ View[k] = Recorded(View[k].id)

LEMMA ExactKept ==
    ASSUME FileInv, LogInv, Surveyed, Numbered, Room, Sound, Exact, Next,
           faults' = 0, edits' = 0
    PROVE  Exact'
  <1> SUFFICES ASSUME Len(View') + 2 <= Ceiling, NEW k \in 1..Len(View')
               PROVE  View'[k].id \in Wavs' /\ View'[k] = Recorded(View[k].id)'
    BY DEF Exact
  <1>1. /\ View \in Seq(Entries) /\ Len(View) \in Nat /\ Len(View') \in Nat
        /\ Len(View') >= Len(View) /\ Ceiling \in Nat
    BY ViewType, LogInvKept, LogKept, BoundsAssumption DEF FileInv
  <1>2. Len(View) + 2 <= Ceiling
    BY <1>1
  <1>3. \A i \in Wavs : i \in Wavs' /\ wav'[i].size = wav[i].size /\ wav'[i].tag = wav[i].tag
    BY WavsKept DEF SameRecording, SameBytes, SameFile
  <1>4. ASSUME NEW i \in Wavs, View'[k] = Recorded(i)
        PROVE  View'[k].id \in Wavs' /\ View'[k] = Recorded(View[k].id)'
    <2>1. i \in Wavs' /\ wav'[i].size = wav[i].size /\ wav'[i].tag = wav[i].tag
      BY <1>3
    <2>2. Recorded(i).id = i
      BY DEF Recorded
    <2>3. View'[k].id = i
      BY <1>4, <2>2
    <2>4. Recorded(View[k].id)' = [id |-> i, file |-> i, size |-> wav'[i].size, tag |-> wav'[i].tag]
      BY <2>3 DEF Recorded
    <2>5. Recorded(i) = [id |-> i, file |-> i, size |-> wav[i].size, tag |-> wav[i].tag]
      BY DEF Recorded
    <2> QED
      BY <1>4, <2>1, <2>3, <2>4, <2>5
  <1>5. CASE k \in 1..Len(View) /\ View'[k] = View[k]
    <2>1. View[k].id \in Wavs /\ View[k] = Recorded(View[k].id)
      BY <1>2, <1>5 DEF Exact
    <2> QED
      BY <1>4, <1>5, <2>1
  <1>6. CASE View' = View
    BY <1>5, <1>6
  <1>7. CASE Grows
    <2>1. /\ View' = Append(View, Entry) /\ pc = "install" /\ Entry \in Entries
      BY <1>7, EntryType DEF FileInv, Grows, Install, At, UpsertPoints
    <2>2. /\ Len(View') = Len(View) + 1 /\ View'[Len(View) + 1] = Entry
          /\ \A j \in 1..Len(View) : View'[j] = View[j]
      BY <1>1, <2>1
    <2>3. CASE k \in 1..Len(View)
      BY <1>5, <2>2, <2>3
    <2>4. CASE k = Len(View) + 1
      <3>1. PICK i \in Wavs : Entry = Recorded(i)
        <4>1. CASE ram.job = "sync"
          <5>1. ram.cur \in Wavs
            BY <2>1, <4>1 DEF Surveyed, UpsertPoints
          <5>2. Entry = Recorded(ram.cur)
            BY <4>1 DEF Entry, Recorded
          <5> QED
            BY <5>1, <5>2
        <4>2. CASE ram.job # "sync"
          <5>1. Closing
            BY <2>1, <4>2 DEF Closing, UpsertPoints
          <5>2. ram.seg = ram.file
            <6>1. ~(Len(View) + 2 > Ceiling)
              BY <1>1, <1>2
            <6> QED
              BY <5>1, <6>1 DEF Room
          <5>3. ram.file \in Ids
            BY <2>1, <4>2 DEF FileInv, Located, UpsertPoints, Types, Ram
          <5>4. wav[ram.file].place = "wav"
            BY <2>1, <4>2 DEF Numbered, UpsertPoints
          <5>5. ram.file \in Wavs
            BY <5>3, <5>4 DEF Wavs
          <5>6. Entry = Recorded(ram.file)
            BY <4>2, <5>2 DEF Entry, Recorded
          <5> QED
            BY <5>5, <5>6
        <4> QED
          BY <4>1, <4>2
      <3> QED
        BY <1>4, <2>2, <2>4, <3>1
    <2> QED
      BY <1>1, <2>2, <2>3, <2>4
  <1> QED
    BY <1>6, <1>7, LogInvKept

(* Nothing but the recordings, each once, and all of them: then there are   *)
(* as many entries as recordings.                                           *)
LEMMA AllCounted ==
    ASSUME Types, Distinct, \A i \in Wavs : Reaches(Recorded(i)),
           \A k \in 1..Len(View) : View[k].id \in Wavs
    PROVE  Len(View) = Cardinality(Wavs)
  <1> DEFINE f == [k \in 1..Len(View) |-> View[k].id]
  <1>1. f \in [1..Len(View) -> Wavs] /\ \A k \in 1..Len(View) : f[k] = View[k].id
    OBVIOUS
  <1>2. ASSUME NEW i \in Wavs PROVE \E k \in 1..Len(View) : f[k] = i
    <2>1. PICK k \in 1..Len(View) : View[k] = Recorded(i)
      BY DEF Reaches
    <2>2. Recorded(i).id = i
      BY DEF Recorded
    <2> QED
      BY <1>1, <2>1, <2>2
  <1> HIDE DEF f
  <1>3. f \in Injection(1..Len(View), Wavs)
    BY <1>1 DEF Injection, IsInjective, Distinct
  <1>4. f \in Surjection(1..Len(View), Wavs)
    BY <1>1, <1>2 DEF Surjection
  <1>5. Cardinality(1..Len(View)) = Len(View)
    <2>1. Len(View) \in Nat
      BY ViewType
    <2>2. ASSUME NEW n \in Nat PROVE Cardinality(1..n) = n
      <3>1. Cardinality(1..n) = IF 1 > n THEN 0 ELSE n - 1 + 1
        BY FS_Interval
      <3> QED
        BY <3>1
    <2> QED
      BY <2>1, <2>2
  <1>6. IsFiniteSet(Wavs)
    BY WavsFinite
  <1> HIDE DEF Wavs
  <1> QED
    BY <1>3, <1>4, <1>5, <1>6, FS_Injection

(* What CrashSafe says of a state of a quiet run.                           *)
Safe ==
    /\ device = "ok" /\ (Exists("final") \/ Exists("bak"))
    /\ Len(View) + 2 <= Ceiling
    => err # "error"

LEMMA SafeKept ==
    ASSUME FileInv, LogInv, Surveyed, Numbered, Distinct, Clean, Resolved, Room, Sound, Exact,
           Safe, Next, faults' = 0, edits' = 0
    PROVE  Safe'
  <1> USE DEF BootPoints, ScanPoints, UpsertPoints, OpenPoints, ClosePoints
  <1>1. /\ ram \in Ram /\ Located /\ used \in 0..MaxSeg /\ wav \in [Ids -> WavFile]
        /\ man \in [Files -> Snapshots] /\ \A k : ~Fault(k) /\ \A i \in Ids : ~HostChanges(i)
    BY NoFaultYet, NoEditYet DEF FileInv, Types
  <1>2. \A i \in Wavs : Indexable(wav[i])
    <2>1. ASSUME NEW i \in Wavs PROVE Indexable(wav[i])
      <3>1. Even(wav[i]) /\ wav[i].size \in Nat
        BY <1>1, BoundsAssumption DEF Sound, Wavs, WavFile
      <3> QED
        BY <3>1, WholeBounds DEF Even, Indexable
    <2> QED
      BY <2>1
  <1>3. /\ Len(View) \in Nat /\ Len(View') \in Nat /\ Len(View') >= Len(View) /\ Ceiling \in Nat
    BY LogInvKept, LogKept, BoundsAssumption
  <1> SUFFICES ASSUME device' = "ok", Exists("final")' \/ Exists("bak")',
                      Len(View') + 2 <= Ceiling
               PROVE  err' # "error"
    BY DEF Safe
  <1>4. Len(View) + 2 <= Ceiling
    BY <1>3
  <1>5. CASE Boot
    <2>1. err = "none"
      BY <1>5, BootIs DEF Clean
    <2>2. CASE EnsureDeviceJson \/ WriteDeviceJson
      BY <1>1, <2>1, <2>2 DEF EnsureDeviceJson, WriteDeviceJson, DeviceMatches, Continue
    <2>3. CASE CreateEmpty
      <3>1. pc = "gate" /\ ~Exists("final") /\ ~Exists("bak")
        BY <2>3 DEF CreateEmpty, At, Resolved
      <3>2. man' # man
        BY <3>1, SameLog DEF Files
      <3> QED
        BY <1>1, <2>1, <2>3, <3>2 DEF CreateEmpty, Continue
    <2>4. CASE EnsureOneWav
      <3>1. ram.todo \subseteq Wavs
        BY <2>4 DEF EnsureOneWav, At, Surveyed
      <3>2. \A i \in ram.todo : Indexable(wav[i])
        BY <1>2, <3>1
      <3> QED
        BY <1>1, <2>1, <2>4, <3>2, EnsureOneWavIs
    <2>5. CASE CountAfter
      <3>1. pc = "tally" /\ Tells(Wavs) /\ ram.before <= Len(View) /\ Exists("final")
        BY <2>5 DEF CountAfter, At, Surveyed, Numbered, Surveying, LogInv, Protocol
      <3>2. Len(View) = Cardinality(Wavs)
        BY <1>4, <3>1, AllCounted DEF FileInv, Exact, Tells
      <3>3. Tallies
        BY <1>1, <1>3, <3>1, <3>2 DEF Tallies, View, Tells, Ram
      <3> QED
        BY <1>1, <2>1, <2>5, <3>3 DEF CountAfter, Continue
    <2>6. CASE \/ RecoverProbe \/ RecoverRestore \/ RecoverRetire \/ RecoverSettle
               \/ RecoverPromote \/ WriteEmpty \/ RenameEmpty \/ StartScan \/ ScanNext
               \/ Isolate \/ RebuildHeader \/ TrimTail \/ NameRecovered \/ CountBefore
      BY <1>1, <2>1, <2>6 DEF RecoverProbe, RecoverRestore, RecoverRetire, RecoverSettle,
          RecoverPromote, WriteEmpty, RenameEmpty, StartScan, ScanNext, Isolate,
          RebuildHeader, TrimTail, NameRecovered, CountBefore, Continue
    <2> QED
      BY <1>5, <2>2, <2>3, <2>4, <2>5, <2>6 DEF Boot
  <1>6. CASE Upsert \/ Record
    <2>1. device' = device
      BY <1>6 DEF Upsert, Record, UpsertRead, RetireBackup, OpenTmp, WriteTmp, PublishTmp,
          SetAside, Install, Rollback, Verify, KeepOthers, NewSegment, MakeDateDir, Admit,
          OpenPart, WriteHeader, WriteChunk, Flush, Rotate, StopRequest, FinalizeOnce,
          CloseSink, RenamePart, RecordWav, card, WavOnly
    <2>2. pc \in UpsertPoints \cup OpenPoints \cup ClosePoints \cup {"segment", "rec"}
      BY <1>6 DEF Upsert, Record, UpsertRead, RetireBackup, OpenTmp, WriteTmp, PublishTmp,
          SetAside, Install, Rollback, Verify, NewSegment, MakeDateDir, Admit,
          OpenPart, WriteHeader, WriteChunk, Flush, Rotate, StopRequest, FinalizeOnce,
          CloseSink, RenamePart, RecordWav, At
    <2>3. err # "error"
      BY <1>4, <2>1, <2>2 DEF LogInv, Protocol, Safe
    <2>4. SUFFICES err' = err \/ err' = "spent"
      BY <2>3
    <2>5. pc \in (UpsertPoints \ {"install"}) \cup OpenPoints \cup ClosePoints =>
              man["final"].recs = View
      BY DEF Resolved, View
    <2>6. CASE UpsertRead
      <3>1. pc = "upsert" /\ man["final"].recs = View
        BY <2>5, <2>6 DEF UpsertRead, At
      <3>2. ~(~Listed(Entry.id) /\ Len(man["final"].recs) >= Ceiling)
        BY <1>3, <1>4, <3>1
      <3>3. ASSUME Listed(Entry.id) PROVE IsListed(Entry)
        <4>1. InView(Entry.id)
          BY <3>1, <3>3 DEF Listed, InView
        <4>2. Reaches(Entry)
          <5>1. CASE ram.job = "sync"
            <6>1. PICK k \in 1..Len(View) : View[k].id = Entry.id
              BY <4>1 DEF InView
            <6>2. View[k] = Recorded(Entry.id) /\ Entry.id = ram.cur
              BY <1>4, <5>1, <6>1 DEF Exact, Entry
            <6>3. Entry = Recorded(ram.cur)
              BY <5>1 DEF Entry, Recorded
            <6> QED
              BY <6>2, <6>3 DEF Reaches
          <5>2. CASE ram.job # "sync"
            <6>1. Closing /\ Entry.id = ram.seg
              BY <3>1, <5>2 DEF Closing, Entry
            <6> QED
              BY <3>1, <4>1, <6>1 DEF Room
          <5> QED
            BY <5>1, <5>2
        <4> QED
          BY <3>1, <4>2 DEF Reaches, IsListed
      <3> QED
        BY <1>1, <2>6, <3>2, <3>3 DEF UpsertRead, UpsertDone, Continue
    <2>7. CASE RetireBackup
      <3>1. Exists("final")
        BY <2>7 DEF RetireBackup, At, Resolved
      <3>2. Exists("bak") => Extends("final", "bak")
        BY <3>1 DEF Resolved
      <3> QED
        BY <1>1, <2>7, <3>2 DEF RetireBackup, Continue
    <2>8. CASE \/ OpenTmp \/ WriteTmp \/ PublishTmp \/ SetAside \/ Install \/ Rollback \/ Verify
      BY <1>1, <2>8 DEF OpenTmp, WriteTmp, PublishTmp, SetAside, Install, Rollback, Verify,
          UpsertDone, Continue, At, Resolved
    <2>9. CASE Admit
      <3>1. man["final"].recs = View
        BY <2>5, <2>9 DEF Admit, At
      <3>2. AppendRoom
        BY <1>4, <3>1 DEF AppendRoom
      <3> QED
        BY <1>1, <2>9, <3>2 DEF Admit, Continue
    <2>10. CASE FinalizeOnce
      <3>1. ram.called => ram.fin
        BY <2>10 DEF FinalizeOnce, At, Sound
      <3> QED
        BY <2>10, <3>1 DEF FinalizeOnce, Continue
    <2>11. CASE RecordWav
      <3>1. pc = "record"
        BY <2>11 DEF RecordWav, At
      <3>2. ram.file \in Ids /\ wav[ram.file].place = "wav"
        BY <1>1, <3>1 DEF Located, Numbered
      <3>3. Indexable(wav[ram.file])
        BY <1>2, <3>2 DEF Wavs
      <3> QED
        BY <1>1, <2>11, <3>3 DEF RecordWav, Continue
    <2>12. CASE \/ NewSegment \/ MakeDateDir \/ OpenPart \/ WriteHeader \/ WriteChunk \/ Flush
                \/ Rotate \/ StopRequest \/ CloseSink \/ RenamePart
      BY <1>1, <2>12 DEF NewSegment, MakeDateDir, OpenPart, WriteHeader, WriteChunk, Flush,
          Rotate, StopRequest, CloseSink, RenamePart, Continue
    <2> QED
      BY <1>6, <2>6, <2>7, <2>8, <2>9, <2>10, <2>11, <2>12 DEF Upsert, Record
  <1>7. CASE PowerOn \/ PowerCut \/ \E i \in Ids : HostChanges(i)
    BY <1>1, <1>7 DEF PowerOn, PowerCut
  <1> QED
    BY <1>5, <1>6, <1>7 DEF Next, Writer

Sure == faults = 0 /\ edits = 0 => Sound /\ Exact /\ Safe

LEMMA SureAlways == Spec => [](FileInv /\ Clean /\ Sure)
  <1>1. Init => Clean /\ Sure
    <2>1. ASSUME Init PROVE Clean /\ Sure
      <3>1. View = <<>> /\ Len(View) = 0 /\ err = "none" /\ pc = "off"
        BY <2>1, LogInvInit DEF Init
      <3>2. Wavs = {}
        BY <2>1 DEF Init, Wavs, NoWav
      <3>3. Sound
        BY <3>1, <3>2 DEF Sound, Recording
      <3>4. Exact /\ Safe /\ Clean
        BY <3>1 DEF Exact, Safe, Clean
      <3> QED
        BY <3>3, <3>4 DEF Sure
    <2> QED
      BY <2>1
  <1>2. /\ FileInv /\ LogInv /\ Surveyed /\ Numbered /\ Fits /\ Distinct /\ Clean /\ Sure
        /\ [Next]_vars
        => Clean' /\ Sure'
    <2>1. ASSUME FileInv, LogInv, Surveyed, Numbered, Fits, Distinct, Clean, Sure, Next
          PROVE  Clean' /\ Sure'
      <3>1. Clean'
        BY <2>1, CleanKept
      <3>2. ASSUME faults' = 0, edits' = 0 PROVE Sound' /\ Exact' /\ Safe'
        <4>1. Resolved /\ Room /\ Sound /\ Exact /\ Safe
          BY <2>1, <3>2, NoFaultYet, NoEditYet DEF FileInv, Fits, Sure
        <4>2. Sound'
          BY <2>1, <3>2, <4>1, SoundKept
        <4>3. Exact'
          BY <2>1, <3>2, <4>1, ExactKept
        <4>4. Safe'
          BY <2>1, <3>2, <4>1, SafeKept
        <4> QED
          BY <4>2, <4>3, <4>4
      <3> QED
        BY <3>1, <3>2 DEF Sure
    <2>2. ASSUME Clean, Sure, UNCHANGED vars PROVE Clean' /\ Sure'
      <3>1. /\ man' = man /\ wav' = wav /\ ram' = ram /\ pc' = pc /\ err' = err
            /\ device' = device /\ faults' = faults /\ edits' = edits
        BY <2>2 DEF vars
      <3>2. /\ View' = View /\ Wavs' = Wavs
            /\ \A f \in Files : Exists(f)' <=> Exists(f)
        BY <3>1, SameLog DEF Wavs
      <3>3. Clean'
        BY <2>2, <3>1 DEF Clean
      <3>4. Sound => Sound'
        BY <3>1, <3>2 DEF Sound, Recording
      <3>5. Exact => Exact'
        BY <3>1, <3>2 DEF Exact, Recorded
      <3>6. Safe => Safe'
        BY <3>1, <3>2 DEF Safe, Files
      <3> QED
        BY <2>2, <3>1, <3>3, <3>4, <3>5, <3>6 DEF Sure
    <2> QED
      BY <2>1, <2>2
  <1> QED
    BY <1>1, <1>2, FitsAlways, DistinctAlways, PTL DEF Spec

(* Power cuts alone never stop the recorder.  Once the first manifest is in *)
(* place and until it is full, with no failing operation and no change of   *)
(* the host, recovery resolves whatever state the replacement of the        *)
(* manifest was cut in, the scan makes every file a recording the manifest  *)
(* accepts, no upsert meets a conflicting entry and the tally comes out     *)
(* (device_manifest_recover_tmp, wav_recovery_recover_file,                 *)
(* device_manifest_sync_wav_dir).                                           *)
THEOREM PowerCutsAreSurvived == Spec => []CrashSafe
  <1>1. Sure => CrashSafe
    BY DEF Sure, Safe, CrashSafe
  <1> QED
    BY <1>1, SureAlways, PTL
=============================================================================
