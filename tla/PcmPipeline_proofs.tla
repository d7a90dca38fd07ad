------------------------- MODULE PcmPipeline_proofs -------------------------
(***************************************************************************)
(* Proofs about PcmPipeline, for slots, reads and driver queues of any     *)
(* size with a read that fits into a slot: whatever the microphone, the    *)
(* driver and the two tasks do, the card holds the samples without a gap.  *)
(***************************************************************************)
EXTENDS PcmPipeline, SequenceTheorems, TLAPS

(* The slots are filled in turn: the one that is read next holds the        *)
(* samples behind the released ones, the other those behind it, and only    *)
(* where the first is full.                                                 *)
InTurn(p) ==
    LET o == p.r  n == 1 - p.r  b == p.chunks * SlotSize
    IN /\ \A i \in Slots : /\ Len(p.slot[i]) <= SlotSize
                           /\ p.full[i] <=> Len(p.slot[i]) = SlotSize
       /\ Len(p.slot[n]) > 0 => p.full[o]
       /\ p.w = IF p.full[o] /\ ~p.full[n] THEN n ELSE o
       /\ p.captured = b + Len(p.slot[o]) + Len(p.slot[n])
       /\ \A k \in 1..Len(p.slot[o]) : p.slot[o][k] = b + k
       /\ \A k \in 1..Len(p.slot[n]) : p.slot[n][k] = b + SlotSize + k

(* The samples seq[1], seq[2], ... are those behind the first n.            *)
Follow(seq, n) == \A k \in 1..Len(seq) : seq[k] = n + k

(* What was read and not staged yet.                                        *)
Reading == {"read", "drain", "check", "lock"}
Held == IF cap \in Reading THEN Len(buf) ELSE 0

(* No drop happened while the read was being made.                          *)
ReadWhole ==
    \/ cap \in {"check", "lock"} /\ snap = 0
    \/ cap \in {"read", "drain"} /\ ovf.n = 0

(* No drop has been seen nor is one counted, and more will be read.         *)
Unbroken ==
    /\ cap \in {"wait", "init", "record", "loop", "signal"} \cup Reading
    /\ ovf.n = 0 /\ (cap \in {"check", "lock"} => snap = 0)

(* Then the driver's queue goes on where the read stopped, and the read     *)
(* where the slots do.                                                      *)
Continuous ==
    /\ ReadWhole => Follow(buf, pipe.captured)
    /\ Unbroken => /\ mic = pipe.captured + Held + Len(dma)
                   /\ Follow(dma, pipe.captured + Held)

(* Every drop is counted once: by the driver, in the capture task's hand,   *)
(* or in the pipeline's counters.                                           *)
Pending == IF cap \in {"failed", "check", "stopped", "lock"} THEN snap ELSE 0
Counted ==
    /\ pipe.dma + ovf.n + Pending = lost /\ lost <= mic
    /\ snap <= lost
    /\ chan = "on" => ovf.armed
    /\ cap \in {"wait", "init"} => chan = "none" /\ ovf.n = 0

(* What is counted, overflowed or failed has ended in ERROR, and a channel  *)
(* that is through counts nothing more unless it could not be turned off.   *)
Reported ==
    /\ pipe.dma > 0 \/ pipe.drop > 0 => state = "ERROR" \/ cap = "loss"
    /\ pipe.sd => /\ state = "ERROR"
                  /\ wrt \in {"finalize", "unready", "unmount", "end"}
    /\ cap = "final" => chan = "disabled"
    /\ cap = "interim" => faults > 0
    /\ cap \in {"halt", "deinit", "end"} =>
          \/ chan # "on" /\ ovf.n = 0
          \/ state = "ERROR" /\ faults > 0

(* The card holds the samples from the first on.  The writer's slot is the  *)
(* one that is read next, full until released, and the card is that far.    *)
InHand ==
    /\ Follow(card, 0)
    /\ wrt \in {"write", "release"} => cur.i = pipe.r /\ pipe.full[pipe.r]
    /\ wrt = "write" => /\ cur.n < SlotSize
                        /\ Len(card) = pipe.chunks * SlotSize + cur.n
    /\ wrt = "release" => Len(card) = pipe.chunks * SlotSize + SlotSize
    /\ wrt \notin {"write", "release"} /\ ~pipe.sd =>
          Len(card) = pipe.chunks * SlotSize

(* State events and the recording end before the card is unmounted.         *)
CardInUse ==
    /\ evReady => wrt \notin {"unmount", "end"}
    /\ wrt # "end" => mounted

(* The types, task by task.                                                 *)
CaptureOK ==
    /\ mic \in 0..MaxSample /\ lost \in Nat /\ snap \in Nat
    /\ ovf \in [armed : BOOLEAN, n : Nat]
    /\ dma \in Seq(Nat) /\ buf \in Seq(Nat)
    /\ Len(dma) <= DmaQueue /\ Len(buf) <= ReadSize
    /\ chan \in {"none", "on", "disabled"} /\ res \in {"ok", "timeout", "fail"}
    /\ cap \in CapPoints /\ (cap = "read" => Len(buf) < ReadSize)
WriterOK ==
    card \in Seq(Nat) /\ wrt \in WrPoints /\ cur \in [i : Slots, n : 0..SlotSize]
StatusOK ==
    /\ state \in RecorderStates /\ faults \in 0..MaxFault
    /\ {evReady, mounted, stop, slotFull, ready} \subseteq BOOLEAN
PipeOK == pipe \in Pipes /\ InTurn(pipe)

IInv == /\ CaptureOK /\ WriterOK /\ StatusOK /\ PipeOK
        /\ Continuous /\ Counted /\ Reported /\ InHand /\ CardInUse

-----------------------------------------------------------------------------
LEMMA ChunkSteps ==
    ASSUME NEW c \in Nat
    PROVE  /\ SlotSize \in Nat /\ SlotSize > 0
           /\ c * SlotSize \in Nat /\ (c + 1) * SlotSize = c * SlotSize + SlotSize
  BY PcmBounds

(* What a round of the loop in pcm_pipeline_produce may do to the pipeline. *)
Grown(p, q) ==
    /\ q \in Pipes /\ InTurn(q)
    /\ q.r = p.r /\ q.chunks = p.chunks /\ q.dma = p.dma /\ q.sd = p.sd
    /\ \A i \in Slots : p.full[i] => q.full[i] /\ q.slot[i] = p.slot[i]
    /\ q.drop >= p.drop

(* A slot that goes on behind b goes on there with what follows it.         *)
LEMMA FollowConcat ==
    ASSUME NEW s \in Seq(Nat), NEW t \in Seq(Nat), NEW b \in Nat,
           Follow(s, b), Follow(t, b + Len(s))
    PROVE  /\ s \o t \in Seq(Nat) /\ Len(s \o t) = Len(s) + Len(t)
           /\ Follow(s \o t, b)
<1>1. /\ s \o t \in Seq(Nat) /\ Len(s \o t) = Len(s) + Len(t)
      /\ \A i \in 1 .. Len(s) + Len(t) : (s \o t)[i] =
                     IF i <= Len(s) THEN s[i] ELSE t[i - Len(s)]
  BY ConcatProperties
<1>2. Len(s) \in Nat /\ Len(t) \in Nat
  OBVIOUS
<1>3. ASSUME NEW k \in 1 .. Len(s) + Len(t) PROVE (s \o t)[k] = b + k
  <2>1. CASE k <= Len(s)
    BY <1>1, <1>2, <2>1 DEF Follow
  <2>2. CASE k > Len(s)
    <3>1. k - Len(s) \in 1 .. Len(t)
      BY <1>2, <2>2
    <3>2. t[k - Len(s)] = (b + Len(s)) + (k - Len(s))
      BY <3>1 DEF Follow
    <3>3. (s \o t)[k] = t[k - Len(s)]
      BY <1>1, <1>2, <2>2
    <3> QED BY <1>2, <3>2, <3>3
  <2> QED BY <1>2, <2>1, <2>2
<1> QED BY <1>1, <1>3 DEF Follow

(* The two parts a sequence is cut into.                                    *)
LEMMA FollowCut ==
    ASSUME NEW d \in Seq(Nat), NEW b \in Nat, NEW n \in 0 .. Len(d), Follow(d, b)
    PROVE  LET x == SubSeq(d, 1, n)  y == SubSeq(d, n + 1, Len(d))
           IN /\ x \in Seq(Nat) /\ Len(x) = n /\ Follow(x, b)
              /\ y \in Seq(Nat) /\ Len(y) = Len(d) - n /\ Follow(y, b + n)
<1> DEFINE x == SubSeq(d, 1, n)  y == SubSeq(d, n + 1, Len(d))
<1>1. Len(d) \in Nat /\ n \in Nat /\ n <= Len(d)
  OBVIOUS
<1>2. \A i \in 1 .. Len(d) : d[i] \in Nat
  BY ElementOfSeq
<1>3. /\ x \in Seq(Nat) /\ Len(x) = IF 1 <= n THEN n - 1 + 1 ELSE 0
      /\ \A i \in 1 .. n - 1 + 1 : x[i] = d[1 + i - 1]
  <2>1. \A i \in 1 .. n : d[i] \in Nat
    BY <1>1, <1>2
  <2> QED BY <1>1, <2>1, SubSeqProperties
<1>4. /\ y \in Seq(Nat)
      /\ Len(y) = IF n + 1 <= Len(d) THEN Len(d) - (n + 1) + 1 ELSE 0
      /\ \A i \in 1 .. Len(d) - (n + 1) + 1 : y[i] = d[(n + 1) + i - 1]
  <2>1. \A i \in n + 1 .. Len(d) : d[i] \in Nat
    BY <1>1, <1>2
  <2>2. n + 1 \in Int /\ Len(d) \in Int
    BY <1>1
  <2> HIDE DEF y
  <2> QED BY <2>1, <2>2, SubSeqProperties DEF y
<1>5. Len(x) = n /\ Len(y) = Len(d) - n
  <2> HIDE DEF x, y
  <2> QED BY <1>1, <1>3, <1>4
<1>6. Follow(x, b)
  <2> SUFFICES ASSUME NEW k \in 1 .. n PROVE x[k] = b + k
    BY <1>5 DEF Follow
  <2> HIDE DEF x
  <2>1. x[k] = d[k] /\ k \in 1 .. Len(d)
    BY <1>1, <1>3
  <2> QED BY <2>1 DEF Follow
<1>7. Follow(y, b + n)
  <2> SUFFICES ASSUME NEW k \in 1 .. Len(d) - n PROVE y[k] = b + n + k
    BY <1>5 DEF Follow
  <2> HIDE DEF y
  <2>1. k \in 1 .. Len(d) - (n + 1) + 1 /\ n + k \in 1 .. Len(d)
        /\ (n + 1) + k - 1 = n + k
    BY <1>1
  <2>2. y[k] = d[n + k]
    BY <1>4, <2>1
  <2> QED BY <1>1, <2>1, <2>2 DEF Follow
<1> QED BY <1>3, <1>4, <1>5, <1>6, <1>7

(* InTurn in terms of Follow.                                               *)
LEMMA InTurnParts ==
    ASSUME NEW p \in Pipes
    PROVE  LET o == p.r  n == 1 - p.r  b == p.chunks * SlotSize
           IN /\ o \in Slots /\ n \in Slots /\ o # n /\ b \in Nat
              /\ p.slot[o] \in Seq(Nat) /\ p.slot[n] \in Seq(Nat)
              /\ Len(p.slot[o]) \in Nat /\ Len(p.slot[n]) \in Nat
              /\ InTurn(p) <=>
                    /\ \A i \in Slots : /\ Len(p.slot[i]) <= SlotSize
                                        /\ p.full[i] <=> Len(p.slot[i]) = SlotSize
                    /\ Len(p.slot[n]) > 0 => p.full[o]
                    /\ p.w = IF p.full[o] /\ ~p.full[n] THEN n ELSE o
                    /\ p.captured = b + Len(p.slot[o]) + Len(p.slot[n])
                    /\ Follow(p.slot[o], b) /\ Follow(p.slot[n], b + SlotSize)
<1>1. p.r \in Slots /\ p.chunks \in Nat /\ p.slot \in [Slots -> Seq(Nat)]
  BY DEF Pipes
<1>2. 1 - p.r \in Slots /\ 1 - p.r # p.r
  BY <1>1 DEF Slots
<1>3. p.chunks * SlotSize \in Nat
  BY <1>1, ChunkSteps
<1>4. p.slot[p.r] \in Seq(Nat) /\ p.slot[1 - p.r] \in Seq(Nat)
  BY <1>1, <1>2
<1>5. Len(p.slot[p.r]) \in Nat /\ Len(p.slot[1 - p.r]) \in Nat
  BY <1>4
<1> QED BY <1>1, <1>2, <1>3, <1>4, <1>5 DEF InTurn, Follow

(* Copying what follows into the slot that is not full.                     *)
LEMMA CopyGrows ==
    ASSUME NEW p \in Pipes, InTurn(p), ~(p.full[0] /\ p.full[1]),
           NEW x \in Seq(Nat), Follow(x, p.captured),
           Len(x) <= SlotSize - Len(p.slot[Active(p)])
    PROVE  LET q == Copied(p, Active(p), x)
           IN /\ Active(p) \in Slots /\ ~p.full[Active(p)]
              /\ Grown(p, q) /\ q.captured = p.captured + Len(x)
              /\ q.drop = p.drop
              /\ Len(x) = SlotSize - Len(p.slot[Active(p)])
                    => \/ q.full[0] /\ q.full[1]
                       \/ Len(q.slot[Active(q)]) = 0
<1>0. p.chunks * SlotSize \in Nat
  BY ChunkSteps DEF Pipes
<1>b. PICK b \in Nat : b = p.chunks * SlotSize
  BY <1>0
<1>c. PICK o \in Slots, n \in Slots : o = p.r /\ n = 1 - p.r /\ o # n
  BY DEF Pipes, Slots
<1> PICK w : w = Active(p)
  OBVIOUS
<1> DEFINE q == Copied(p, w, x)
           f == Len(p.slot[w]) + Len(x) = SlotSize
<1>1. /\ o \in Slots /\ n \in Slots /\ o # n /\ b \in Nat
      /\ p.slot[o] \in Seq(Nat) /\ p.slot[n] \in Seq(Nat)
      /\ Len(p.slot[o]) \in Nat /\ Len(p.slot[n]) \in Nat
      /\ \A i \in Slots : /\ Len(p.slot[i]) <= SlotSize
                          /\ p.full[i] <=> Len(p.slot[i]) = SlotSize
      /\ Len(p.slot[n]) > 0 => p.full[o]
      /\ p.w = IF p.full[o] /\ ~p.full[n] THEN n ELSE o
      /\ p.captured = b + Len(p.slot[o]) + Len(p.slot[n])
      /\ Follow(p.slot[o], b) /\ Follow(p.slot[n], b + SlotSize)
  BY <1>b, <1>c, InTurnParts
<1>2. SlotSize \in Nat /\ SlotSize > 0 /\ Len(x) \in Nat
  BY PcmBounds
<1>3. /\ w = p.w /\ ~p.full[w] /\ w \in Slots
      /\ \/ w = n /\ p.full[o] /\ ~p.full[n] /\ Len(p.slot[o]) = SlotSize
         \/ w = o /\ ~p.full[o] /\ ~p.full[n] /\ Len(p.slot[n]) = 0
  <2>1. CASE p.full[o]
    <3>1. ~p.full[n]
      BY <1>1, <2>1 DEF Slots
    <3> QED BY <1>1, <2>1, <3>1 DEF Active
  <2>2. CASE ~p.full[o]
    <3>1. Len(p.slot[n]) = 0 /\ p.w = o
      BY <1>1, <2>2
    <3>2. ~p.full[n]
      BY <1>1, <1>2, <3>1
    <3> QED BY <1>1, <2>2, <3>1, <3>2 DEF Active
  <2> QED BY <2>1, <2>2
<1>3a. Len(x) <= SlotSize - Len(p.slot[w]) /\ Len(p.slot[w]) \in Nat
  BY <1>1, <1>3
<1>4. /\ p.slot \in [Slots -> Seq(Nat)] /\ p.full \in [Slots -> BOOLEAN]
      /\ p.captured \in Nat /\ p.chunks \in Nat /\ p.drop \in Nat /\ p.dma \in Nat
      /\ p.sd \in BOOLEAN /\ p.stall \in BOOLEAN
  BY DEF Pipes
<1>5. /\ q.slot = [p.slot EXCEPT ![w] = p.slot[w] \o x]
      /\ q.full = [p.full EXCEPT ![w] = f]
      /\ q.captured = p.captured + Len(x) /\ q.w = IF f THEN 1 - w ELSE w
      /\ q.r = p.r /\ q.chunks = p.chunks /\ q.drop = p.drop /\ q.dma = p.dma
      /\ q.sd = p.sd /\ q.stall = p.stall
  BY DEF Copied, Pipes
<1>6. /\ p.slot[w] \o x \in Seq(Nat) /\ Len(p.slot[w] \o x) = Len(p.slot[w]) + Len(x)
      /\ Follow(p.slot[w] \o x, IF w = o THEN b ELSE b + SlotSize)
  <2>1. CASE w = o
    <3>1. p.captured = b + Len(p.slot[o])
      <4>1. Len(p.slot[n]) = 0
        BY <1>3, <2>1
      <4>2. /\ p.captured = b + Len(p.slot[o]) + Len(p.slot[n])
            /\ Len(p.slot[o]) \in Nat /\ p.captured \in Nat
        BY <1>1, <1>4
      <4> QED BY <4>1, <4>2
    <3>2. Follow(p.slot[o], b) /\ Follow(x, b + Len(p.slot[o]))
      BY <1>1, <3>1
    <3>3. p.slot[o] \in Seq(Nat)
      BY <1>1
    <3> QED BY <2>1, <3>2, <3>3, FollowConcat
  <2>2. CASE w # o
    <3>1. w = n /\ p.captured = (b + SlotSize) + Len(p.slot[n]) /\ b + SlotSize \in Nat
      <4>1. w = n /\ Len(p.slot[o]) = SlotSize
        BY <1>3, <2>2
      <4>2. /\ p.captured = b + Len(p.slot[o]) + Len(p.slot[n])
            /\ Len(p.slot[n]) \in Nat /\ p.captured \in Nat
        BY <1>1, <1>4
      <4> QED BY <1>2, <4>1, <4>2
    <3>2. Follow(p.slot[n], b + SlotSize) /\ Follow(x, (b + SlotSize) + Len(p.slot[n]))
      BY <1>1, <3>1
    <3>3. p.slot[n] \in Seq(Nat)
      BY <1>1
    <3> QED BY <2>2, <3>1, <3>2, <3>3, FollowConcat
  <2> QED BY <2>1, <2>2
<1>7. f \in BOOLEAN /\ 1 - w \in Slots /\ 1 - w # w
  BY <1>3 DEF Slots
<1>8. q \in Pipes
  <2>1. /\ [p.slot EXCEPT ![w] = p.slot[w] \o x] \in [Slots -> Seq(Nat)]
        /\ [p.full EXCEPT ![w] = f] \in [Slots -> BOOLEAN]
    <3> HIDE DEF f
    <3> QED BY <1>3, <1>4, <1>6, <1>7
  <2>2. p.captured + Len(x) \in Nat /\ (IF f THEN 1 - w ELSE w) \in Slots
    <3> HIDE DEF f
    <3> QED BY SMTT(60), <1>2, <1>3, <1>4, <1>7
  <2> QED BY <2>1, <2>2 DEF Copied, Pipes
<1>9. /\ q.slot[w] = p.slot[w] \o x /\ (q.full[w] <=> f)
      /\ \A i \in Slots :
            i # w => q.slot[i] = p.slot[i] /\ (q.full[i] <=> p.full[i])
  BY <1>3, <1>4, <1>5
<1> HIDE DEF q, f
<1>10. InTurn(q)
  <2>1. \A i \in Slots : /\ Len(q.slot[i]) <= SlotSize
                         /\ q.full[i] <=> Len(q.slot[i]) = SlotSize
    <3>1. ASSUME NEW i \in Slots, i # w
          PROVE  Len(q.slot[i]) <= SlotSize /\ (q.full[i] <=> Len(q.slot[i]) = SlotSize)
      BY <1>1, <1>9, <3>1
    <3>2. Len(q.slot[w]) <= SlotSize /\ (q.full[w] <=> Len(q.slot[w]) = SlotSize)
      BY <1>2, <1>3a, <1>6, <1>9 DEF f
    <3> QED BY <3>1, <3>2
  <2>2. CASE w = o
    <3>1. q.slot[n] = p.slot[n] /\ (q.full[n] <=> p.full[n]) /\ (q.full[o] <=> f)
      BY <1>1, <1>9, <2>2
    <3>2. Len(q.slot[n]) = 0 /\ ~q.full[n]
      BY <1>1, <1>3, <2>2, <3>1
    <3>3. q.w = IF q.full[o] /\ ~q.full[n] THEN n ELSE o
      BY <1>5, <1>c, <2>2, <3>1, <3>2
    <3>4. q.captured = b + Len(q.slot[o]) + Len(q.slot[n])
      <4>1. Len(q.slot[o]) = Len(p.slot[o]) + Len(x) /\ Len(p.slot[n]) = 0
        BY <1>6, <1>9, <2>2, <3>1, <3>2
      <4>2. /\ p.captured = b + Len(p.slot[o]) + Len(p.slot[n])
            /\ Len(p.slot[o]) \in Nat /\ Len(p.slot[n]) \in Nat /\ Len(x) \in Nat
            /\ p.captured \in Nat
        BY <1>1, <1>2, <1>4
      <4>3. q.captured = p.captured + Len(x) /\ Len(q.slot[n]) = Len(p.slot[n])
        BY <1>5, <3>1
      <4> QED BY <4>1, <4>2, <4>3
    <3>5. Follow(q.slot[o], b) /\ Follow(q.slot[n], b + SlotSize)
      BY <1>1, <1>6, <1>9, <2>2, <3>1
    <3>6. Len(q.slot[n]) > 0 => q.full[o]
      BY <3>2
    <3>7. q.r = o /\ q.chunks * SlotSize = b
      BY <1>5, <1>b, <1>c
    <3> QED BY ZenonT(60), <1>8, <2>1, <3>3, <3>4, <3>5, <3>6, <3>7, <1>c, InTurnParts
  <2>3. CASE w = n
    <3>1. q.slot[o] = p.slot[o] /\ (q.full[o] <=> p.full[o]) /\ (q.full[n] <=> f)
      BY <1>1, <1>9, <2>3
    <3>2. q.full[o] /\ Len(q.slot[o]) = SlotSize
      BY <1>1, <1>3, <2>3, <3>1
    <3>3. q.w = IF q.full[o] /\ ~q.full[n] THEN n ELSE o
      <4>1. 1 - n = o
        BY <1>c DEF Slots
      <4> QED BY <1>5, <2>3, <3>1, <3>2, <4>1
    <3>4. q.captured = b + Len(q.slot[o]) + Len(q.slot[n])
      <4>1. Len(q.slot[n]) = Len(p.slot[n]) + Len(x)
        BY <1>6, <1>9, <2>3
      <4>2. /\ p.captured = b + Len(p.slot[o]) + Len(p.slot[n])
            /\ Len(p.slot[o]) \in Nat /\ Len(p.slot[n]) \in Nat /\ Len(x) \in Nat
            /\ p.captured \in Nat
        BY <1>1, <1>2, <1>4
      <4>3. q.captured = p.captured + Len(x) /\ Len(q.slot[o]) = Len(p.slot[o])
        BY <1>5, <3>1
      <4>4. PICK i \in Nat, j \in Nat, k \in Nat :
                i = Len(p.slot[o]) /\ j = Len(p.slot[n]) /\ k = Len(x)
        BY <4>2
      <4>5. /\ p.captured = b + i + j /\ q.captured = p.captured + k
            /\ Len(q.slot[o]) = i /\ Len(q.slot[n]) = j + k
        BY <4>1, <4>2, <4>3, <4>4
      <4> QED BY <4>5
    <3>5. Follow(q.slot[o], b) /\ Follow(q.slot[n], b + SlotSize)
      BY <1>1, <1>6, <1>9, <2>3, <3>1
    <3>6. Len(q.slot[n]) > 0 => q.full[o]
      BY <3>2
    <3>7. q.r = o /\ q.chunks * SlotSize = b
      BY <1>5, <1>b, <1>c
    <3> QED BY ZenonT(60), <1>8, <2>1, <3>3, <3>4, <3>5, <3>6, <3>7, <1>c, InTurnParts
  <2> QED BY <1>3, <2>2, <2>3
<1>11. \A i \in Slots : p.full[i] => q.full[i] /\ q.slot[i] = p.slot[i]
  BY <1>3, <1>9
<1>12. ASSUME Len(x) = SlotSize - Len(p.slot[w])
       PROVE  (q.full[0] /\ q.full[1]) \/ Len(q.slot[Active(q)]) = 0
  <2>1. f /\ q.full[w]
    BY <1>2, <1>3a, <1>9, <1>12 DEF f
  <2>2. CASE w = n
    <3>1. q.full[o] /\ q.full[n]
      <4>1. p.full[o] /\ o # w /\ o \in Slots
        BY <1>1, <1>3, <2>2
      <4>2. q.full[o] <=> p.full[o]
        BY <1>9, <4>1
      <4> QED BY <2>1, <2>2, <4>1, <4>2
    <3> QED BY <1>1, <3>1 DEF Slots
  <2>3. CASE w = o
    <3>1. q.w = n /\ ~q.full[n] /\ Len(q.slot[n]) = 0
      <4>1. ~p.full[n] /\ Len(p.slot[n]) = 0
        BY <1>1, <1>3, <2>3
      <4>2. q.slot[n] = p.slot[n] /\ (q.full[n] <=> p.full[n])
        BY <1>1, <1>9, <2>3
      <4>3. 1 - w = n
        BY <1>c, <2>3 DEF Slots
      <4>4. q.w = n
        BY <1>5, <2>1, <4>3
      <4> QED BY <4>1, <4>2, <4>4
    <3> QED BY <3>1 DEF Active
  <2> QED BY <1>3, <2>2, <2>3
<1> QED
  BY <1>3, <1>4, <1>5, <1>8, <1>10, <1>11, <1>12 DEF Grown, q

(* What a round makes of the pipeline p and what is left d.                 *)
Rounded(p, d, st) ==
    /\ st = [pipe |-> st.pipe, rest |-> st.rest]
    /\ Grown(p, st.pipe)
    /\ st.rest \in Seq(Nat) /\ Len(st.rest) <= Len(d)
    /\ Follow(st.rest, st.pipe.captured)
    /\ st.pipe.drop = p.drop =>
          st.pipe.captured + Len(st.rest) = p.captured + Len(d)
    /\ \/ st.rest = <<>>
       \/ st.pipe.full[0] /\ st.pipe.full[1]
       \/ Len(st.pipe.slot[Active(st.pipe)]) = 0
    /\ p.full[0] /\ p.full[1] => st.rest = <<>>
    /\ Len(d) <= SlotSize /\ Len(p.slot[Active(p)]) = 0 => st.rest = <<>>

(* A round stages what follows, in order, or drops what is left.            *)
LEMMA RoundGrows ==
    ASSUME NEW p \in Pipes, InTurn(p), NEW d \in Seq(Nat), Follow(d, p.captured)
    PROVE  Rounded(p, d, Round([pipe |-> p, rest |-> d]))
<1> DEFINE st == Round([pipe |-> p, rest |-> d])
<1>1. Grown(p, p)
  BY DEF Grown, Pipes
<1>2. Len(d) \in Nat /\ p.captured \in Nat /\ p.drop \in Nat
  BY DEF Pipes
<1>3. CASE d = <<>>
  <2>1. st = [pipe |-> p, rest |-> d]
    BY <1>3 DEF Round
  <2> HIDE DEF st
  <2>2. Rounded(p, d, st)
    BY <1>1, <1>2, <1>3, <2>1 DEF Rounded
  <2> QED BY <2>2 DEF st
<1>4. CASE d # <<>> /\ p.full[0] /\ p.full[1]
  <2> DEFINE q == [p EXCEPT !.drop = @ + Len(d)]
  <2>1. st = [pipe |-> q, rest |-> <<>>]
    BY <1>4 DEF Round
  <2>2. /\ q.slot = p.slot /\ q.full = p.full /\ q.r = p.r /\ q.w = p.w
        /\ q.captured = p.captured /\ q.chunks = p.chunks /\ q.dma = p.dma
        /\ q.sd = p.sd /\ q.drop = p.drop + Len(d)
    BY DEF Pipes
  <2>3. q \in Pipes
    <3>1. p.drop + Len(d) \in Nat
      BY <1>2
    <3> QED BY <3>1 DEF Pipes
  <2>4. Len(d) > 0
    BY <1>2, <1>4, EmptySeq
  <2> HIDE DEF q
  <2>5. InTurn(q)
    BY <2>2 DEF InTurn
  <2>6. Grown(p, q) /\ q.drop # p.drop
    BY <1>2, <2>2, <2>3, <2>4, <2>5 DEF Grown
  <2>7. <<>> \in Seq(Nat) /\ Len(<<>>) = 0 /\ Follow(<<>>, q.captured)
    BY DEF Follow
  <2> HIDE DEF st
  <2>8. Rounded(p, d, st)
    BY <1>2, <2>1, <2>6, <2>7 DEF Rounded
  <2> QED BY <2>8 DEF st
<1>5. CASE d # <<>> /\ ~(p.full[0] /\ p.full[1])
  <2>1. PICK n : n = Take(p, d)
    OBVIOUS
  <2> DEFINE x == SubSeq(d, 1, n)  y == SubSeq(d, n + 1, Len(d))
             q == Copied(p, Active(p), x)
  <2>2. st = [pipe |-> q, rest |-> y]
    BY <1>5, <2>1 DEF Round
  <2>3. PICK room \in Nat : room = SlotSize - Len(p.slot[Active(p)])
    <3>1. p.w \in Slots /\ Active(p) \in Slots
      BY DEF Active, Pipes, Slots
    <3>2. Len(p.slot[Active(p)]) \in Nat
      BY <3>1 DEF Pipes
    <3>3. Len(p.slot[Active(p)]) <= SlotSize
      BY <3>1 DEF InTurn
    <3> QED BY <3>2, <3>3, PcmBounds
  <2>4. n = IF Len(d) < room THEN Len(d) ELSE room
    BY <2>1, <2>3 DEF Take
  <2>5. n \in 0 .. Len(d) /\ n <= room
    BY <1>2, <2>4
  <2>6. /\ x \in Seq(Nat) /\ Len(x) = n /\ Follow(x, p.captured)
        /\ y \in Seq(Nat) /\ Len(y) = Len(d) - n /\ Follow(y, p.captured + n)
    BY <1>2, <2>5, FollowCut
  <2> HIDE DEF x, y, q, st
  <2>7. /\ Grown(p, q) /\ q.captured = p.captured + n /\ q.drop = p.drop
        /\ n = room => \/ q.full[0] /\ q.full[1]
                       \/ Len(q.slot[Active(q)]) = 0
    BY <1>5, <2>3, <2>5, <2>6, CopyGrows DEF q
  <2>8. Len(y) = 0 => y = <<>>
    BY <2>6, EmptySeq
  <2>9. y = <<>> \/ n = room
    BY <1>2, <2>4, <2>6, <2>8
  <2>10. ASSUME Len(d) <= SlotSize, Len(p.slot[Active(p)]) = 0 PROVE y = <<>>
    <3>1. room = SlotSize /\ SlotSize \in Nat
      BY <2>3, <2>10, PcmBounds
    <3> QED BY <1>2, <2>4, <2>6, <2>8, <2>10, <3>1
  <2>11. q.captured + Len(y) = p.captured + Len(d) /\ Len(y) <= Len(d)
    BY <1>2, <2>5, <2>6, <2>7
  <2>12. Rounded(p, d, st)
    BY <1>5, <2>2, <2>6, <2>7, <2>9, <2>10, <2>11 DEF Rounded
  <2> QED BY <2>12 DEF st
<1> QED BY <1>3, <1>4, <1>5

LEMMA GrownTwice ==
    ASSUME NEW p \in Pipes, NEW q \in Pipes, NEW u \in Pipes, Grown(p, q), Grown(q, u)
    PROVE  Grown(p, u)
<1>1. p.drop \in Nat /\ q.drop \in Nat /\ u.drop \in Nat
  BY DEF Pipes
<1> QED BY <1>1 DEF Grown

(* pcm_pipeline_produce stages a read that follows what is staged, in order *)
(* and whole, or the loss is in the drop counter; two rounds end its loop.  *)
LEMMA ProduceGrows ==
    ASSUME NEW p \in Pipes, InTurn(p), NEW d \in Seq(Nat), Follow(d, p.captured),
           Len(d) <= ReadSize
    PROVE  LET q == pcm_pipeline_produce(p, d)
           IN /\ Grown(p, q)
              /\ q.drop = p.drop => q.captured = p.captured + Len(d)
              /\ Round(Round([pipe |-> p, rest |-> d])).rest = <<>>
<1> DEFINE s == Round([pipe |-> p, rest |-> d])  t == Round(s)
<1>1. Rounded(p, d, s)
  BY RoundGrows
<1>2. s.pipe \in Pipes /\ InTurn(s.pipe)
  BY <1>1 DEF Grown, Rounded
<1>3. Len(s.rest) <= SlotSize
  <2>1. Len(s.rest) \in Nat /\ Len(d) \in Nat
    BY <1>1 DEF Rounded
  <2> QED BY <1>1, <2>1, PcmBounds DEF Rounded
<1> HIDE DEF s
<1>4. Rounded(s.pipe, s.rest, t)
  <2>1. Rounded(s.pipe, s.rest, Round([pipe |-> s.pipe, rest |-> s.rest]))
    BY <1>1, <1>2, RoundGrows DEF Rounded
  <2>2. s = [pipe |-> s.pipe, rest |-> s.rest]
    BY <1>1 DEF Rounded
  <2> QED BY <2>1, <2>2
<1>5. t.rest = <<>>
  <2>1. CASE s.rest = <<>>
    BY <2>1 DEF Round
  <2> HIDE DEF t
  <2> QED BY <1>1, <1>3, <1>4, <2>1 DEF Rounded
<1> HIDE DEF t
<1>6. Grown(p, t.pipe)
  <2>1. t.pipe \in Pipes
    BY <1>4 DEF Grown, Rounded
  <2> QED BY <1>1, <1>2, <1>4, <2>1, GrownTwice DEF Rounded
<1>7. ASSUME t.pipe.drop = p.drop PROVE t.pipe.captured = p.captured + Len(d)
  <2>1. p.drop \in Nat /\ s.pipe.drop \in Nat /\ t.pipe.drop \in Nat
        /\ t.pipe.captured \in Nat
    BY <1>2, <1>4 DEF Grown, Pipes, Rounded
  <2>2. s.pipe.drop >= p.drop /\ t.pipe.drop >= s.pipe.drop
    BY <1>1, <1>4 DEF Grown, Rounded
  <2>3. s.pipe.drop = p.drop /\ t.pipe.drop = s.pipe.drop
    BY <1>7, <2>1, <2>2
  <2>4. Len(t.rest) = 0
    BY <1>5
  <2>5. t.pipe.captured + Len(t.rest) = p.captured + Len(d)
    BY <1>1, <1>4, <2>3 DEF Rounded
  <2> QED BY <2>1, <2>4, <2>5
<1> QED BY <1>5, <1>6, <1>7 DEF pcm_pipeline_produce, s, t

-----------------------------------------------------------------------------
(* Releasing the slot that is read next makes the other one the next.       *)
LEMMA ReleaseTurns ==
    ASSUME NEW p \in Pipes, InTurn(p), p.full[p.r]
    PROVE  LET q == pcm_pipeline_release_full(p)
           IN /\ q \in Pipes /\ InTurn(q) /\ q.chunks = p.chunks + 1
              /\ q.captured = p.captured /\ q.drop = p.drop /\ q.dma = p.dma
              /\ q.sd = p.sd
<1>0. p.chunks * SlotSize \in Nat /\ p.chunks \in Nat
  BY ChunkSteps DEF Pipes
<1>b. PICK b \in Nat : b = p.chunks * SlotSize
  BY <1>0
<1>c. PICK o \in Slots, n \in Slots : o = p.r /\ n = 1 - p.r /\ o # n
  BY DEF Pipes, Slots
<1> DEFINE q == pcm_pipeline_release_full(p)
<1>1. /\ p.slot[o] \in Seq(Nat) /\ p.slot[n] \in Seq(Nat)
      /\ \A i \in Slots : /\ Len(p.slot[i]) <= SlotSize
                          /\ p.full[i] <=> Len(p.slot[i]) = SlotSize
      /\ p.w = IF p.full[o] /\ ~p.full[n] THEN n ELSE o
      /\ p.captured = b + Len(p.slot[o]) + Len(p.slot[n])
      /\ Follow(p.slot[n], b + SlotSize)
  BY <1>b, <1>c, InTurnParts
<1>2. /\ p.slot \in [Slots -> Seq(Nat)] /\ p.full \in [Slots -> BOOLEAN]
      /\ p.captured \in Nat /\ p.full[o]
  BY <1>c DEF Pipes
<1>3. NextFull(p) = o
  BY <1>c DEF NextFull
<1>4. q = [p EXCEPT !.slot[o] = <<>>, !.full[o] = FALSE, !.r = 1 - o,
                    !.chunks = @ + 1]
  BY <1>3 DEF pcm_pipeline_release_full
<1>5. 1 - o = n /\ 1 - n = o
  BY <1>c DEF Slots
<1>6. q \in Pipes
  <2>1. /\ [p.slot EXCEPT ![o] = <<>>] \in [Slots -> Seq(Nat)]
        /\ [p.full EXCEPT ![o] = FALSE] \in [Slots -> BOOLEAN]
        /\ p.chunks + 1 \in Nat
    BY <1>0, <1>2
  <2> HIDE DEF q
  <2> QED BY <1>4, <1>5, <2>1 DEF Pipes
<1>7. /\ q.slot = [p.slot EXCEPT ![o] = <<>>]
      /\ q.full = [p.full EXCEPT ![o] = FALSE]
      /\ q.r = n /\ q.chunks = p.chunks + 1 /\ q.w = p.w
      /\ q.captured = p.captured /\ q.drop = p.drop /\ q.dma = p.dma
      /\ q.sd = p.sd
  <2> HIDE DEF q
  <2> QED BY <1>4, <1>5 DEF Pipes
<1> HIDE DEF q
<1>8. /\ q.slot[o] = <<>> /\ ~q.full[o]
      /\ q.slot[n] = p.slot[n] /\ (q.full[n] <=> p.full[n])
  BY <1>2, <1>7, <1>c
<1>9. InTurn(q)
  <2>1. \A i \in Slots : /\ Len(q.slot[i]) <= SlotSize
                         /\ q.full[i] <=> Len(q.slot[i]) = SlotSize
    <3>1. Len(q.slot[o]) <= SlotSize /\ (q.full[o] <=> Len(q.slot[o]) = SlotSize)
      BY <1>8, PcmBounds
    <3>2. Len(q.slot[n]) <= SlotSize /\ (q.full[n] <=> Len(q.slot[n]) = SlotSize)
      BY <1>1, <1>8
    <3>3. \A i \in Slots : i = o \/ i = n
      BY <1>c DEF Slots
    <3> QED BY <3>1, <3>2, <3>3
  <2>2. q.chunks * SlotSize = b + SlotSize
    BY <1>0, <1>b, <1>7, ChunkSteps
  <2>3. q.w = IF q.full[n] /\ ~q.full[o] THEN o ELSE n
    BY <1>1, <1>2, <1>7, <1>8
  <2>4. q.captured = (b + SlotSize) + Len(q.slot[n]) + Len(q.slot[o])
    <3>1. PICK i \in Nat : i = Len(p.slot[n])
      BY <1>1
    <3>2. /\ p.captured = b + SlotSize + i /\ q.captured = p.captured
          /\ Len(q.slot[n]) = i /\ Len(q.slot[o]) = 0 /\ SlotSize \in Nat
      BY <1>1, <1>2, <1>7, <1>8, <3>1, PcmBounds
    <3> QED BY <3>2
  <2>5. Follow(q.slot[n], b + SlotSize) /\ Follow(q.slot[o], (b + SlotSize) + SlotSize)
    BY SMTT(60), <1>1, <1>8 DEF Follow
  <2>6. Len(q.slot[o]) > 0 => q.full[n]
    BY <1>8
  <2>7. q.r = n /\ 1 - q.r = o
    BY <1>5, <1>7
  <2> QED BY <1>6, <2>1, <2>2, <2>3, <2>4, <2>5, <2>6, <2>7, InTurnParts
<1> QED BY <1>6, <1>7, <1>9 DEF q

(* Counters may change under the slots.                                     *)
SameSlots(p, q) ==
    /\ q \in Pipes /\ q.slot = p.slot /\ q.full = p.full /\ q.r = p.r /\ q.w = p.w
    /\ q.captured = p.captured /\ q.chunks = p.chunks /\ q.drop = p.drop

LEMMA SameSlotsInTurn ==
    ASSUME NEW p, NEW q, InTurn(p), SameSlots(p, q)
    PROVE  InTurn(q)
  BY DEF InTurn, SameSlots

LEMMA NotesKeepSlots ==
    ASSUME NEW p \in Pipes, NEW n \in Nat
    PROVE  /\ SameSlots(p, p)
           /\ SameSlots(p, NoteOverflow(p, n))
           /\ NoteOverflow(p, n).dma = p.dma + n /\ NoteOverflow(p, n).sd = p.sd
           /\ SameSlots(p, NoteSdError(p))
           /\ NoteSdError(p).dma = p.dma /\ NoteSdError(p).sd
<1>1. p.dma + n \in Nat
  BY DEF Pipes
<1>2. SameSlots(p, p)
  BY DEF SameSlots
<1>3. /\ SameSlots(p, NoteOverflow(p, n))
      /\ NoteOverflow(p, n).dma = p.dma + n /\ NoteOverflow(p, n).sd = p.sd
  BY <1>1 DEF SameSlots, NoteOverflow, Pipes
<1>4. /\ SameSlots(p, NoteSdError(p))
      /\ NoteSdError(p).dma = p.dma /\ NoteSdError(p).sd
  BY DEF SameSlots, NoteSdError, Pipes
<1> QED BY <1>2, <1>3, <1>4

-----------------------------------------------------------------------------
(* Who may change what.                                                     *)
Others == \/ \E to \in RecorderStates : AskStop(to)
          \/ Done \/ UNCHANGED vars

LEMMA WhoMoves ==
    ASSUME [Next]_vars
    PROVE  Sample \/ Capture \/ CapReadFails \/ Writer \/ Others
  BY DEF Next, Others

LEMMA CaptureFrame ==
    ASSUME Capture \/ CapReadFails
    PROVE  UNCHANGED <<writer, medium>>
  BY DEF Capture, CapReadFails, CapWait, CapInit, CapRecord, CapLoop, CapRead,
         CapReadTimeout, CapDrain, CapFailed, CapCheck, CapStopped, CapStage, CapLoss,
         CapSignal, CapDisable, CapFinal, CapInterim, CapHalt, CapDeinit, writer, medium

LEMMA SampleFrame ==
    ASSUME Sample
    PROVE  /\ UNCHANGED <<chan, capture, pipe, writer, status, medium, bits, faults>>
           /\ chan = "on" /\ mic < MaxSample /\ mic' = mic + 1
  BY DEF Sample

LEMMA OthersFrame ==
    ASSUME Others
    PROVE  UNCHANGED <<driver, capture, pipe, writer, medium>>
  BY DEF Others, AskStop, Done, vars

LEMMA WriterFrame ==
    ASSUME Writer
    PROVE  UNCHANGED <<driver, capture>>
  BY DEF Writer, WrStart, WrWake, WrPeek, WrWrite, WrRelease, WrFlush, WrCheck,
         WrRotate, WrFinalize, WrUnready, WrUnmount

LEMMA EntersError ==
    ASSUME EnterError
    PROVE  state' = "ERROR" /\ stop' = TRUE /\ slotFull' = TRUE /\ ready' = ready
           /\ (log' # log => evReady)
  BY DEF EnterError, Transition, TransitionAllowed, RequestStop

(* The card is unmounted behind the last event.                             *)
LEMMA CardStep ==
    ASSUME CardInUse, [Next]_vars
    PROVE  CardInUse'
<1>1. CASE Sample \/ Capture \/ CapReadFails \/ Others
  <2>1. UNCHANGED <<wrt, evReady, mounted>>
    BY <1>1, CaptureFrame, SampleFrame, OthersFrame DEF writer, medium
  <2> QED BY <2>1 DEF CardInUse
<1>2. CASE WrUnready
  BY <1>2 DEF CardInUse, WrUnready, WrAt, WrGo, EventsOff
<1>3. CASE WrUnmount
  BY <1>3 DEF CardInUse, WrUnmount, WrAt, WrGo
<1>4. CASE WrStart \/ WrWake \/ WrPeek \/ WrWrite \/ WrRelease \/ WrFlush
           \/ WrCheck \/ WrRotate \/ WrFinalize
  <2>1. UNCHANGED medium /\ wrt' \notin {"unmount", "end"} /\ wrt # "end"
    BY <1>4 DEF WrStart, WrWake, WrPeek, WrWrite, WrRelease, WrFlush, WrCheck,
         WrRotate, WrFinalize, WrAt, WrGo, WrFails
  <2> QED BY <2>1 DEF CardInUse, medium
<1> QED BY <1>1, <1>2, <1>3, <1>4, WhoMoves DEF Writer

(* The only appends to the log are made while events are ready.             *)
LEMMA LogStep ==
    ASSUME [Next]_vars, log' # log
    PROVE  evReady
<1>1. ASSUME NEW to, NEW result, Transition(to, result) PROVE log' # log => evReady
  BY <1>1 DEF Transition
<1>2. CASE Capture \/ CapReadFails
  BY <1>1, <1>2, EntersError DEF Capture, CapReadFails, CapWait, CapInit, CapRecord,
     CapLoop, CapRead, CapReadTimeout, CapDrain, CapFailed, CapCheck, CapStopped,
     CapStage, CapLoss, CapSignal, CapDisable, CapFinal, CapInterim, CapHalt, CapDeinit,
     Quiet, status
<1>3. CASE Writer
  BY <1>1, <1>3, EntersError DEF Writer, WrStart, WrWake, WrPeek, WrWrite, WrRelease,
     WrFlush, WrCheck, WrRotate, WrFinalize, WrUnready, WrUnmount, WrFails, Quiet, status
<1>4. CASE Sample
  BY <1>4, SampleFrame DEF status
<1>5. CASE Others
  BY <1>1, <1>5 DEF Others, AskStop, Done, vars, status
<1> QED BY <1>2, <1>3, <1>4, <1>5, WhoMoves

(* Only the writer writes, and only between two slots.                      *)
LEMMA CardFrame ==
    ASSUME [Next]_vars, card' # card
    PROVE  wrt = "write"
<1>1. CASE Sample \/ Capture \/ CapReadFails \/ Others
  BY <1>1, CaptureFrame, SampleFrame, OthersFrame DEF writer
<1>2. CASE Writer
  BY <1>2 DEF Writer, WrStart, WrWake, WrPeek, WrWrite, WrRelease,
     WrFlush, WrCheck, WrRotate, WrFinalize, WrUnready, WrUnmount, WrAt
<1> QED BY <1>1, <1>2, WhoMoves

(* No state event and no sample goes to a card that is not mounted, in any  *)
(* step of the writer, the capture task, the battery task or the USB        *)
(* coordinator (main.c, recorder_set_events_ready before the unmount).      *)
THEOREM NothingAfterUnmount == Spec => CardWhileMounted
<1>1. Init => CardInUse
  BY DEF Init, CardInUse
<1>2. CardInUse /\ [Next]_vars => CardInUse'
  BY CardStep
<1>3. CardInUse /\ [Next]_vars => [card' # card \/ log' # log => mounted]_vars
  BY LogStep, CardFrame DEF CardInUse
<1> QED BY <1>1, <1>2, <1>3, PTL DEF Spec, CardWhileMounted

-----------------------------------------------------------------------------
(* ERROR is never left.                                                     *)
LEMMA StateStep ==
    ASSUME state \in RecorderStates, [Next]_vars
    PROVE  state' \in RecorderStates /\ (state = "ERROR" => state' = "ERROR")
<1>1. ASSUME NEW to \in RecorderStates, NEW result \in RecorderStates,
             Transition(to, result)
      PROVE  state' \in RecorderStates /\ (state = "ERROR" => state' = "ERROR")
  BY <1>1 DEF Transition, TransitionAllowed
<1>2. "ERROR" \in RecorderStates /\ "RECORDING" \in RecorderStates
  BY DEF RecorderStates
<1>3. CASE Capture \/ CapReadFails
  BY <1>1, <1>2, <1>3, EntersError DEF Capture, CapReadFails, CapWait, CapInit, CapRecord,
     CapLoop, CapRead, CapReadTimeout, CapDrain, CapFailed, CapCheck, CapStopped,
     CapStage, CapLoss, CapSignal, CapDisable, CapFinal, CapInterim, CapHalt, CapDeinit, Quiet, status
<1>4. CASE Writer
  BY <1>2, <1>4, EntersError DEF Writer, WrStart, WrWake, WrPeek, WrWrite, WrRelease,
     WrFlush, WrCheck, WrRotate, WrFinalize, WrUnready, WrUnmount, WrFails, Quiet, status
<1>5. CASE Sample
  BY <1>5, SampleFrame DEF status
<1>6. CASE Others
  BY <1>1, <1>2, <1>6 DEF Others, AskStop, Done, vars, status
<1> QED BY <1>3, <1>4, <1>5, <1>6, WhoMoves

LEMMA FaultStep ==
    ASSUME [Next]_vars
    PROVE  faults' = faults \/ (faults < MaxFault /\ faults' = faults + 1)
<1>1. CASE Capture \/ CapReadFails
  BY <1>1 DEF Capture, CapReadFails, CapWait, CapInit, CapRecord,
     CapLoop, CapRead, CapReadTimeout, CapDrain, CapFailed, CapCheck, CapStopped,
     CapStage, CapLoss, CapSignal, CapDisable, CapFinal, CapInterim, CapHalt, CapDeinit, Fault, NoFault
<1>2. CASE Writer
  BY <1>2 DEF Writer, WrStart, WrWake, WrPeek, WrWrite, WrRelease,
     WrFlush, WrCheck, WrRotate, WrFinalize, WrUnready, WrUnmount, WrFails, Fault, NoFault
<1>3. CASE Sample
  BY <1>3, SampleFrame
<1>4. CASE Others
  BY <1>4 DEF Others, AskStop, Done, vars, Fault, NoFault
<1> QED BY <1>1, <1>2, <1>3, <1>4, WhoMoves

(* The event bits are set and cleared, never anything else.                 *)
BitsOK == stop \in BOOLEAN /\ slotFull \in BOOLEAN /\ ready \in BOOLEAN
MediumOK == evReady \in BOOLEAN /\ mounted \in BOOLEAN

LEMMA BitsStep ==
    ASSUME BitsOK, [Next]_vars
    PROVE  BitsOK'
<1>1. ASSUME RequestStop \/ EnterError \/ Quiet PROVE BitsOK'
  BY <1>1, EntersError DEF RequestStop, Quiet, bits, BitsOK
<1>2. CASE Capture \/ CapReadFails
  BY <1>1, <1>2 DEF Capture, CapReadFails, CapWait, CapInit, CapRecord,
     CapLoop, CapRead, CapReadTimeout, CapDrain, CapFailed, CapCheck, CapStopped,
     CapStage, CapLoss, CapSignal, CapDisable, CapFinal, CapInterim, CapHalt, CapDeinit, bits, BitsOK
<1>3. CASE Writer
  BY <1>1, <1>3 DEF Writer, WrStart, WrWake, WrPeek, WrWrite, WrRelease,
     WrFlush, WrCheck, WrRotate, WrFinalize, WrUnready, WrUnmount, WrFails, BitsOK
<1>4. CASE Sample
  BY <1>4, SampleFrame DEF bits, BitsOK
<1>5. CASE Others
  BY <1>1, <1>5 DEF Others, AskStop, Done, vars, bits, BitsOK
<1> QED BY <1>2, <1>3, <1>4, <1>5, WhoMoves

LEMMA MediumStep ==
    ASSUME MediumOK, [Next]_vars
    PROVE  MediumOK'
<1>1. CASE Sample \/ Capture \/ CapReadFails \/ Others
  BY <1>1, CaptureFrame, SampleFrame, OthersFrame DEF medium, MediumOK
<1>2. CASE Writer
  BY <1>2 DEF Writer, WrStart, WrWake, WrPeek, WrWrite, WrRelease,
     WrFlush, WrCheck, WrRotate, WrFinalize, WrUnready, WrUnmount, WrFails, EventsOff, medium, MediumOK
<1> QED BY <1>1, <1>2, WhoMoves

LEMMA StatusStep ==
    ASSUME StatusOK, [Next]_vars
    PROVE  StatusOK'
<1>1. state' \in RecorderStates
  BY StateStep DEF StatusOK
<1>2. faults' \in 0..MaxFault
  BY FaultStep, PcmBounds DEF StatusOK
<1>3. BitsOK /\ MediumOK
  BY DEF StatusOK, BitsOK, MediumOK
<1>4. BitsOK' /\ MediumOK'
  BY <1>3, BitsStep, MediumStep
<1> QED BY <1>1, <1>2, <1>4 DEF StatusOK, BitsOK, MediumOK

-----------------------------------------------------------------------------
(* What the capture task leaves to the writer: no full slot is touched.     *)
Kept(p, q) ==
    /\ q \in Pipes /\ InTurn(q) /\ q.r = p.r /\ q.chunks = p.chunks /\ q.sd = p.sd
    /\ \A i \in Slots : p.full[i] => q.full[i] /\ q.slot[i] = p.slot[i]

LEMMA SameIsKept ==
    ASSUME NEW p \in Pipes, InTurn(p), NEW q, SameSlots(p, q), q.sd = p.sd
    PROVE  Kept(p, q)
  BY SameSlotsInTurn DEF SameSlots, Kept

LEMMA NotedKeeps ==
    ASSUME CaptureOK, PipeOK
    PROVE  /\ SameSlots(pipe, Noted) /\ InTurn(Noted)
           /\ Noted.dma = pipe.dma + snap /\ Noted.sd = pipe.sd
<1>1. pipe \in Pipes /\ InTurn(pipe) /\ snap \in Nat
  BY DEF PipeOK, CaptureOK
<1>2. SameSlots(pipe, Noted) /\ Noted.dma = pipe.dma + snap /\ Noted.sd = pipe.sd
  <2>1. pipe.dma + snap \in Nat
    BY <1>1 DEF Pipes
  <2>2. (pipe.stall \/ (res = "timeout" /\ snap = 0)) \in BOOLEAN
    OBVIOUS
  <2> QED BY <1>1, <2>1, <2>2 DEF SameSlots, Noted, NoteOverflow, Pipes
<1> QED BY <1>1, <1>2, SameSlotsInTurn

(* The read that is staged goes on where the slots end, or is dropped.      *)
LEMMA StagedKeeps ==
    ASSUME CaptureOK, PipeOK, Continuous, cap = "lock"
    PROVE  /\ Kept(pipe, Staged) /\ Staged.dma = pipe.dma + snap
           /\ Staged.drop >= pipe.drop
           /\ snap = 0 /\ Staged.drop = pipe.drop =>
                 Staged.captured = pipe.captured + Len(buf)
<1>1. /\ SameSlots(pipe, Noted) /\ InTurn(Noted) /\ Noted \in Pipes
      /\ Noted.dma = pipe.dma + snap /\ Noted.sd = pipe.sd
  BY NotedKeeps DEF SameSlots
<1>2. pipe \in Pipes /\ InTurn(pipe) /\ pipe.drop \in Nat /\ pipe.dma \in Nat
  BY DEF PipeOK, Pipes
<1>3. Kept(pipe, Noted)
  BY <1>1, <1>2, SameIsKept
<1>4. CASE snap = 0
  <2> DEFINE q == pcm_pipeline_produce(Noted, buf)
  <2>1. /\ buf \in Seq(Nat) /\ Len(buf) <= ReadSize /\ Follow(buf, Noted.captured)
    BY <1>1, <1>4 DEF CaptureOK, Continuous, ReadWhole, SameSlots
  <2>2. Grown(Noted, q) /\ (q.drop = Noted.drop => q.captured = Noted.captured + Len(buf))
    BY <1>1, <2>1, ProduceGrows
  <2>3. Staged = q
    BY <1>4 DEF Staged
  <2> HIDE DEF q
  <2>4. Kept(pipe, q)
    BY <1>3, <2>2, <1>1 DEF Kept, Grown
  <2>5. q.dma = pipe.dma + snap /\ q.drop >= pipe.drop
        /\ (q.drop = pipe.drop => q.captured = pipe.captured + Len(buf))
    BY <1>1, <2>2 DEF Grown, SameSlots
  <2> QED BY <2>3, <2>4, <2>5
<1>5. CASE snap # 0
  <2>1. Staged = Noted
    BY <1>5 DEF Staged
  <2> QED BY <1>1, <1>2, <1>3, <1>5, <2>1 DEF SameSlots
<1> QED BY <1>4, <1>5

LEMMA CapturePipe ==
    ASSUME CaptureOK, PipeOK, Continuous, Capture \/ CapReadFails
    PROVE  Kept(pipe, pipe')
<1>1. pipe \in Pipes /\ InTurn(pipe) /\ snap \in Nat /\ ovf.n \in Nat
  BY DEF PipeOK, CaptureOK
<1>2. CASE pipe' = pipe
  BY <1>1, <1>2 DEF Kept
<1>3. CASE CapStage
  BY <1>3, StagedKeeps DEF CapStage, At
<1>4. CASE CapStopped
  BY <1>1, <1>4, NotedKeeps, SameIsKept DEF CapStopped
<1>5. ASSUME NEW n \in Nat, pipe' = NoteOverflow(pipe, n) PROVE Kept(pipe, pipe')
  <2>1. SameSlots(pipe, NoteOverflow(pipe, n)) /\ NoteOverflow(pipe, n).sd = pipe.sd
    BY <1>1, NotesKeepSlots
  <2> QED BY <1>1, <1>5, <2>1, SameIsKept
<1>6. CASE CapFailed \/ CapFinal \/ CapInterim
  BY <1>1, <1>5, <1>6 DEF CapFailed, CapFinal, CapInterim, Drain
<1>7. CASE \/ CapWait \/ CapInit \/ CapRecord \/ CapLoop \/ CapRead \/ CapReadTimeout
           \/ CapReadFails \/ CapDrain \/ CapCheck \/ CapLoss \/ CapSignal \/ CapDisable
           \/ CapHalt \/ CapDeinit
  BY <1>2, <1>7 DEF CapReadFails, CapWait, CapInit, CapRecord,
     CapLoop, CapRead, CapReadTimeout, CapDrain, CapFailed, CapCheck, CapStopped,
     CapStage, CapLoss, CapSignal, CapDisable, CapFinal, CapInterim, CapHalt, CapDeinit
<1> QED BY <1>3, <1>4, <1>6, <1>7 DEF Capture

(* What the writer does to the pipeline is no concern of the capture task.  *)
LEMMA WriterPipe ==
    ASSUME PipeOK, InHand, Writer
    PROVE  /\ PipeOK' /\ pipe'.captured = pipe.captured
           /\ pipe'.dma = pipe.dma /\ pipe'.drop = pipe.drop
<1>1. pipe \in Pipes /\ InTurn(pipe)
  BY DEF PipeOK
<1>2. CASE pipe' = pipe
  BY <1>1, <1>2 DEF PipeOK
<1>3. CASE pipe' = NoteSdError(pipe)
  <2>1. SameSlots(pipe, pipe') /\ pipe'.dma = pipe.dma
    BY <1>1, <1>3, NotesKeepSlots
  <2> QED BY <1>1, <2>1, SameSlotsInTurn DEF SameSlots, PipeOK
<1>4. CASE WrRelease
  <2>1. pipe.full[pipe.r] /\ pipe' = pcm_pipeline_release_full(pipe)
    BY <1>4 DEF WrRelease, WrAt, InHand
  <2> QED BY <1>1, <2>1, ReleaseTurns DEF PipeOK
<1> QED BY <1>2, <1>3, <1>4 DEF Writer, WrStart, WrWake, WrPeek, WrWrite,
     WrFlush, WrCheck, WrRotate, WrFinalize, WrUnready, WrUnmount, WrFails

LEMMA PipeStep ==
    ASSUME CaptureOK, PipeOK, Continuous, InHand, [Next]_vars
    PROVE  PipeOK'
<1>1. CASE Capture \/ CapReadFails
  BY <1>1, CapturePipe DEF Kept, PipeOK
<1>2. CASE Sample \/ Others
  BY <1>2, SampleFrame, OthersFrame DEF PipeOK
<1> QED BY <1>1, <1>2, WriterPipe, WhoMoves

-----------------------------------------------------------------------------
(* The slot the writer takes is the one that is read next.                  *)
LEMMA PeekIsNext ==
    ASSUME NEW p \in Pipes, InTurn(p), pcm_pipeline_has_full(p)
    PROVE  NextFull(p) = p.r /\ p.full[p.r] /\ p.r \in Slots
<1>1. PICK o \in Slots, n \in Slots : o = p.r /\ n = 1 - p.r /\ o # n
  BY DEF Pipes, Slots
<1>2. /\ p.full[n] <=> Len(p.slot[n]) = SlotSize
      /\ Len(p.slot[n]) > 0 => p.full[o]
  BY <1>1, InTurnParts
<1>3. p.full[o] \/ p.full[n]
  BY <1>1 DEF pcm_pipeline_has_full, Slots
<1>4. p.full[o]
  BY <1>2, <1>3, PcmBounds
<1> QED BY <1>1, <1>4 DEF NextFull

(* While the writer's place stays off the slots, so does the card.          *)
LEMMA CardStays ==
    ASSUME InHand, UNCHANGED <<card, pipe>>,
           wrt \notin {"write", "release"}, wrt' \notin {"write", "release"}
    PROVE  InHand'
  BY DEF InHand

LEMMA CardFails ==
    ASSUME InHand, card' = card, pipe' = NoteSdError(pipe), pipe \in Pipes,
           wrt' \notin {"write", "release"}
    PROVE  InHand'
<1>1. pipe'.sd
  BY NotesKeepSlots
<1> QED BY <1>1 DEF InHand

(* A sample is written behind the ones the card holds.                      *)
LEMMA WriteInHand ==
    ASSUME WriterOK, PipeOK, InHand, wrt = "write",
           card' = Append(card, pipe.slot[cur.i][cur.n + 1]),
           cur' = [cur EXCEPT !.n = @ + 1], pipe' = pipe,
           wrt' = IF cur'.n = SlotSize THEN "release" ELSE "write"
    PROVE  WriterOK' /\ InHand'
<1>1. pipe \in Pipes /\ InTurn(pipe) /\ pipe.chunks \in Nat
  BY DEF PipeOK, Pipes
<1>2. PICK b \in Nat : b = pipe.chunks * SlotSize
  BY <1>1, ChunkSteps
<1>3. PICK i \in Slots, n \in Nat : i = cur.i /\ n = cur.n /\ cur = [i |-> i, n |-> n]
  BY PcmBounds DEF WriterOK
<1>4. /\ SlotSize \in Nat /\ n < SlotSize /\ i = pipe.r /\ pipe.full[i]
      /\ Len(card) = b + n /\ card \in Seq(Nat) /\ Follow(card, 0)
  BY <1>2, <1>3, PcmBounds DEF InHand, WriterOK
<1>5. Len(pipe.slot[i]) = SlotSize /\ Follow(pipe.slot[i], b)
  BY <1>1, <1>2, <1>4, InTurnParts
<1>6. pipe.slot[i][n + 1] = b + (n + 1)
  <2>1. n + 1 \in 1 .. Len(pipe.slot[i])
    BY <1>4, <1>5
  <2> QED BY <1>5, <2>1 DEF Follow
<1>7. card' = Append(card, b + (n + 1)) /\ cur' = [i |-> i, n |-> n + 1]
  BY <1>3, <1>6
<1>8. /\ card' \in Seq(Nat) /\ Len(card') = b + (n + 1)
      /\ Follow(card', 0)
  <2>1. b + (n + 1) \in Nat
    OBVIOUS
  <2>2. /\ card' \in Seq(Nat) /\ Len(card') = Len(card) + 1
        /\ \A k \in 1 .. Len(card) + 1 :
              card'[k] = IF k <= Len(card) THEN card[k] ELSE b + (n + 1)
    BY <1>4, <1>7, <2>1
  <2>3. Len(card') = b + (n + 1)
    BY <1>4, <2>2
  <2>4. ASSUME NEW k \in 1 .. Len(card) + 1 PROVE card'[k] = k
    <3>1. CASE k <= Len(card)
      <4>1. k \in 1 .. Len(card) /\ card'[k] = card[k]
        BY <1>4, <2>2, <3>1
      <4> QED BY <1>4, <4>1 DEF Follow
    <3>2. CASE k > Len(card)
      <4>1. k = b + (n + 1)
        BY <1>4, <3>2
      <4> QED BY <2>2, <3>2, <4>1
    <3> QED BY <1>4, <3>1, <3>2
  <2> QED BY SMTT(60), <1>4, <2>2, <2>3, <2>4 DEF Follow
<1>9. WriterOK'
  <2>1. n + 1 \in 0 .. SlotSize
    BY <1>4
  <2>2. wrt' \in WrPoints
    BY DEF WrPoints
  <2> QED BY <1>7, <1>8, <2>1, <2>2 DEF WriterOK
<1>10. InHand'
  <2>1. pipe'.chunks * SlotSize = b /\ pipe'.r = i /\ pipe'.full[pipe'.r]
        /\ cur'.i = i /\ cur'.n = n + 1
    BY <1>2, <1>4, <1>7
  <2>2. CASE n + 1 = SlotSize
    BY <1>4, <1>8, <2>1, <2>2 DEF InHand
  <2>3. CASE n + 1 # SlotSize
    BY <1>4, <1>8, <2>1, <2>3 DEF InHand
  <2> QED BY <2>2, <2>3
<1> QED BY <1>9, <1>10

LEMMA WriterStep ==
    ASSUME WriterOK, CaptureOK, PipeOK, Continuous, Reported, InHand, [Next]_vars
    PROVE  WriterOK' /\ InHand'
<1>1. pipe \in Pipes /\ InTurn(pipe) /\ SlotSize \in Nat /\ SlotSize > 0
  BY PcmBounds DEF PipeOK
<1>2. CASE Sample \/ Capture \/ CapReadFails \/ Others
  <2>1. UNCHANGED <<wrt, cur, card>>
    BY <1>2, CaptureFrame, SampleFrame, OthersFrame DEF writer
  <2>2. Kept(pipe, pipe')
    <3>1. CASE Capture \/ CapReadFails
      BY <3>1, CapturePipe
    <3>2. CASE Sample \/ Others
      BY <1>1, <3>2, SampleFrame, OthersFrame DEF Kept
    <3> QED BY <1>2, <3>1, <3>2
  <2>3. pipe.r \in Slots
    BY <1>1 DEF Pipes
  <2> QED BY <2>1, <2>2, <2>3 DEF Kept, InHand, WriterOK
<1>3. CASE WrStart \/ WrWake \/ WrCheck \/ WrUnready \/ WrUnmount
  <2>1. /\ UNCHANGED <<card, pipe, cur>>
        /\ wrt \notin {"write", "release"} /\ wrt' \notin {"write", "release"}
        /\ wrt' \in WrPoints
    BY <1>3 DEF WrStart, WrWake, WrCheck, WrUnready, WrUnmount, WrAt, WrGo, WrPoints
  <2> QED BY <2>1, CardStays DEF WriterOK
<1>4. CASE WrPeek
  <2>1. wrt = "peek" /\ card' = card /\ pipe' = pipe
    BY <1>4 DEF WrPeek, WrAt
  <2>2. ~pipe.sd /\ Len(card) = pipe.chunks * SlotSize /\ Follow(card, 0)
    BY <2>1 DEF Reported, InHand
  <2>3. CASE pcm_pipeline_has_full(pipe)
    <3>1. cur' = [i |-> pipe.r, n |-> 0] /\ wrt' = "write" /\ pipe.full[pipe.r]
          /\ pipe.r \in Slots
      BY <1>1, <1>4, <2>3, PeekIsNext DEF WrPeek, WrGo
    <3>2. WriterOK'
      BY <1>1, <2>1, <3>1 DEF WriterOK, WrPoints
    <3>3. pipe.chunks * SlotSize \in Nat
      BY <1>1, ChunkSteps DEF Pipes
    <3>4. InHand'
      BY <1>1, <2>1, <2>2, <3>1, <3>3 DEF InHand
    <3> QED BY <3>2, <3>4
  <2>4. CASE ~pcm_pipeline_has_full(pipe)
    <3>1. cur' = cur /\ wrt' = "check"
      BY <1>4, <2>4 DEF WrPeek, WrGo
    <3> QED BY <2>1, <3>1, CardStays DEF WriterOK, WrPoints
  <2> QED BY <2>3, <2>4
<1>5. CASE WrWrite
  <2>1. CASE /\ card' = Append(card, pipe.slot[cur.i][cur.n + 1])
             /\ cur' = [cur EXCEPT !.n = @ + 1]
             /\ WrGo(IF cur'.n = SlotSize THEN "release" ELSE "write")
             /\ UNCHANGED pipe
    BY <1>5, <2>1, WriteInHand DEF WrWrite, WrAt, WrGo
  <2>2. CASE WrFails("finalize") /\ UNCHANGED <<cur, card>>
    BY <1>1, <2>2, CardFails DEF WrFails, WrGo, WriterOK, WrPoints
  <2> QED BY <1>5, <2>1, <2>2 DEF WrWrite
<1>6. CASE WrRelease
  <2>1. /\ wrt = "release" /\ wrt' = "flush" /\ card' = card
        /\ cur' = [i |-> 0, n |-> 0] /\ pipe' = pcm_pipeline_release_full(pipe)
    BY <1>6 DEF WrRelease, WrAt, WrGo
  <2>2. pipe.full[pipe.r] /\ Len(card) = pipe.chunks * SlotSize + SlotSize
    BY <2>1 DEF InHand
  <2>3. pipe'.chunks = pipe.chunks + 1 /\ pipe.chunks \in Nat
    BY <1>1, <2>1, <2>2, ReleaseTurns DEF Pipes
  <2>4. pipe'.chunks * SlotSize = pipe.chunks * SlotSize + SlotSize
    BY <2>3, ChunkSteps
  <2>5. WriterOK'
    BY <1>1, <2>1 DEF WriterOK, WrPoints, Slots
  <2>6. InHand'
    BY <2>1, <2>2, <2>4 DEF InHand
  <2> QED BY <2>5, <2>6
<1>7. CASE WrFlush \/ WrRotate \/ WrFinalize
  <2>1. /\ card' = card /\ cur' = cur /\ wrt \notin {"write", "release"}
        /\ wrt' \notin {"write", "release"} /\ wrt' \in WrPoints
        /\ pipe' = pipe \/ pipe' = NoteSdError(pipe)
    BY <1>7 DEF WrFlush, WrRotate, WrFinalize, WrAt, WrGo, WrFails, WrPoints
  <2>2. InHand'
    BY <1>1, <2>1, CardStays, CardFails
  <2> QED BY <2>1, <2>2 DEF WriterOK
<1> QED BY <1>2, <1>3, <1>4, <1>5, <1>6, <1>7, WhoMoves DEF Writer

-----------------------------------------------------------------------------
LEMMA FollowEmpty ==
    ASSUME NEW n
    PROVE  Follow(<<>>, n) /\ <<>> \in Seq(Nat) /\ Len(<<>>) = 0
  BY DEF Follow

(* The sample behind a sequence that follows n is put behind it.            *)
LEMMA FollowAppend ==
    ASSUME NEW s \in Seq(Nat), NEW n \in Nat
    PROVE  /\ Append(s, n + Len(s) + 1) \in Seq(Nat)
           /\ Follow(s, n) => Follow(Append(s, n + Len(s) + 1), n)
<1>1. Len(s) \in Nat /\ n + Len(s) + 1 \in Nat
  OBVIOUS
<1> DEFINE t == Append(s, n + Len(s) + 1)
<1>2. /\ t \in Seq(Nat) /\ Len(t) = Len(s) + 1
      /\ \A k \in 1 .. Len(s) + 1 :
            t[k] = IF k <= Len(s) THEN s[k] ELSE n + Len(s) + 1
  BY <1>1
<1> HIDE DEF t
<1>3. ASSUME Follow(s, n), NEW k \in 1 .. Len(s) + 1 PROVE t[k] = n + k
  <2>1. CASE k <= Len(s)
    <3>1. k \in 1 .. Len(s) /\ t[k] = s[k]
      BY <1>1, <1>2, <2>1
    <3> QED BY <1>3, <3>1 DEF Follow
  <2>2. CASE k > Len(s)
    <3>1. k = Len(s) + 1
      BY <1>1, <2>2
    <3> QED BY <1>1, <1>2, <3>1
  <2> QED BY <1>1, <2>1, <2>2
<1> QED BY <1>2, <1>3 DEF Follow, t

(* The head of a sequence that follows n is n + 1, its tail follows that.   *)
LEMMA FollowTail ==
    ASSUME NEW s \in Seq(Nat), NEW n \in Nat, s # <<>>
    PROVE  /\ Head(s) \in Nat /\ Tail(s) \in Seq(Nat) /\ Len(Tail(s)) = Len(s) - 1
           /\ Follow(s, n) => Head(s) = n + 1 /\ Follow(Tail(s), n + 1)
<1>1. /\ Head(s) \in Nat /\ Tail(s) \in Seq(Nat) /\ Len(Tail(s)) = Len(s) - 1
      /\ \A i \in 1 .. Len(Tail(s)) : Tail(s)[i] = s[i + 1]
  BY HeadTailProperties
<1>2. Len(s) \in Nat \ {0} /\ Head(s) = s[1]
  BY EmptySeq
<1>3. ASSUME Follow(s, n) PROVE Head(s) = n + 1 /\ Follow(Tail(s), n + 1)
  <2>1. 1 \in 1 .. Len(s)
    BY <1>2
  <2>2. Head(s) = n + 1
    BY <1>2, <1>3, <2>1 DEF Follow
  <2>3. ASSUME NEW k \in 1 .. Len(Tail(s)) PROVE Tail(s)[k] = (n + 1) + k
    <3>1. k + 1 \in 1 .. Len(s) /\ Tail(s)[k] = s[k + 1]
      BY <1>1, <1>2
    <3>2. s[k + 1] = n + (k + 1)
      BY <1>3, <3>1 DEF Follow
    <3> QED BY <3>1, <3>2
  <2> QED BY <2>2, <2>3 DEF Follow
<1> QED BY <1>1, <1>3

(* The microphone gives a sample, and the driver keeps or drops one.        *)
LEMMA SampleStep ==
    ASSUME CaptureOK, PipeOK, Continuous, Counted, Sample
    PROVE  CaptureOK' /\ Continuous' /\ Counted'
<1>1. /\ UNCHANGED <<chan, buf, res, snap, cap, pipe>> /\ chan = "on"
      /\ mic < MaxSample /\ mic' = mic + 1 /\ ovf.armed
  BY SampleFrame DEF capture, Counted
<1>2. /\ mic \in Nat /\ lost \in Nat /\ snap \in Nat /\ ovf \in [armed : BOOLEAN, n : Nat]
      /\ dma \in Seq(Nat) /\ Len(dma) \in Nat /\ DmaQueue \in Nat \ {0}
      /\ MaxSample \in Nat /\ Len(dma) <= DmaQueue
  BY PcmBounds DEF CaptureOK
<1>3. pipe.captured \in Nat /\ pipe.dma \in Nat /\ Held \in Nat /\ Held' = Held
  BY <1>1 DEF PipeOK, Pipes, Held, CaptureOK
<1>4. CASE Len(dma) < DmaQueue
  <2>1. dma' = Append(dma, mic + 1) /\ ovf' = ovf /\ lost' = lost
    BY <1>1, <1>4 DEF Sample
  <2>2. dma' \in Seq(Nat) /\ Len(dma') = Len(dma) + 1
    BY <1>2, <2>1
  <2>3. CaptureOK'
    BY <1>1, <1>2, <1>4, <2>1, <2>2 DEF CaptureOK
  <2>4. ASSUME Unbroken PROVE mic' = pipe.captured + Held + Len(dma')
                              /\ Follow(dma', pipe.captured + Held)
    <3>1. PICK h \in Nat : h = pipe.captured + Held
      BY <1>3
    <3>2. mic = h + Len(dma) /\ Follow(dma, h)
      BY <2>4, <3>1 DEF Continuous
    <3>3. dma' = Append(dma, h + Len(dma) + 1)
      BY <2>1, <3>2
    <3>4. Follow(dma', h)
      BY <1>2, <3>2, <3>3, FollowAppend
    <3>5. mic' = h + Len(dma')
      BY <1>1, <1>2, <2>2, <3>2
    <3> QED BY <3>1, <3>4, <3>5
  <2>5. Continuous'
    BY <1>1, <1>3, <2>1, <2>4 DEF Continuous, ReadWhole, Unbroken
  <2>6. Counted'
    BY <1>1, <1>2, <2>1 DEF Counted, Pending
  <2> QED BY <2>3, <2>5, <2>6
<1>5. CASE ~(Len(dma) < DmaQueue)
  <2>1. /\ dma' = Append(Tail(dma), mic + 1) /\ lost' = lost + 1
        /\ ovf' = [ovf EXCEPT !.n = @ + 1]
    BY <1>1, <1>5 DEF Sample
  <2>2. Len(dma) = DmaQueue /\ dma # <<>>
    BY <1>2, <1>5
  <2>3. dma' \in Seq(Nat) /\ Len(dma') = Len(dma)
    <3>1. Tail(dma) \in Seq(Nat) /\ Len(Tail(dma)) = Len(dma) - 1
      BY <1>2, <2>2, HeadTailProperties
    <3> QED BY <1>2, <2>1, <3>1
  <2>4. /\ ovf'.n = ovf.n + 1 /\ ovf'.armed
        /\ ovf' \in [armed : BOOLEAN, n : Nat]
    BY <1>1, <1>2, <2>1
  <2>5. CaptureOK'
    BY <1>1, <1>2, <2>1, <2>2, <2>3, <2>4 DEF CaptureOK
  <2>6. ovf'.n # 0
    BY <1>2, <2>4
  <2>7. Continuous'
    BY <1>1, <2>6 DEF Continuous, ReadWhole, Unbroken
  <2>8. Counted'
    <3>1. /\ pipe.dma + ovf.n + Pending = lost /\ lost <= mic /\ snap <= lost
          /\ cap \notin {"wait", "init"} /\ Pending' = Pending /\ Pending \in Nat
      BY <1>1, <1>2 DEF Counted, Pending
    <3>2. ovf.n \in Nat
      BY <1>2
    <3>3. pipe'.dma + ovf'.n + Pending' = lost' /\ lost' <= mic' /\ snap' <= lost'
      <4>1. PICK i \in Nat, j \in Nat, k \in Nat :
                i = pipe.dma /\ j = ovf.n /\ k = Pending
        BY <1>3, <3>1, <3>2
      <4>2. /\ pipe'.dma = i /\ ovf'.n = j + 1 /\ Pending' = k
            /\ lost = i + j + k /\ lost' = lost + 1 /\ mic' = mic + 1 /\ snap' = snap
        BY <1>1, <2>1, <2>4, <3>1, <4>1
      <4> QED BY <1>2, <3>1, <4>2
    <3> QED BY <1>1, <2>4, <3>1, <3>3 DEF Counted
  <2> QED BY <2>5, <2>7, <2>8
<1> QED BY <1>4, <1>5

(* A step that only moves the capture task's place keeps the stream, the    *)
(* count and the types.                                                     *)
LEMMA PlaceMoves ==
    ASSUME CaptureOK, Continuous, Counted,
           UNCHANGED <<mic, dma, chan, ovf, lost, buf, snap, pipe>>,
           res' \in {"ok", "timeout", "fail"}, cap' \in CapPoints \ {"wait", "read"},
           cap' = "init" => cap = "wait",
           cap' \in {"drain", "check"} => cap = "read",
           cap' \in {"failed", "stopped", "lock"} => cap = "check",
           cap' \in {"record", "loop", "signal"} =>
               cap \in {"init", "record", "loop", "signal"},
           cap = "check" => cap' \in {"stopped", "lock"},
           cap \notin {"failed", "stopped", "lock"}, cap' \notin {"failed", "check"}
    PROVE  CaptureOK' /\ Continuous' /\ Counted'
<1>1. CaptureOK'
  BY DEF CaptureOK
<1>2. Continuous'
  <2>1. ReadWhole' => ReadWhole
    BY DEF ReadWhole
  <2>2. Unbroken' => Unbroken /\ Held' = Held
    BY DEF Unbroken, Reading, Held
  <2> QED BY <2>1, <2>2 DEF Continuous
<1>3. Counted'
  <2>1. Pending' = Pending
    BY DEF Pending
  <2> QED BY <2>1 DEF Counted
<1> QED BY <1>1, <1>2, <1>3

LEMMA PlaceStep ==
    ASSUME CaptureOK, Continuous, Counted,
           \/ CapWait \/ CapRecord \/ CapReadTimeout \/ CapReadFails \/ CapCheck
           \/ CapLoss \/ CapSignal \/ CapHalt
    PROVE  CaptureOK' /\ Continuous' /\ Counted'
<1>1. res \in {"ok", "timeout", "fail"} /\ cap \in CapPoints
  BY DEF CaptureOK
<1>2. CASE CapWait \/ CapRecord \/ CapLoss \/ CapSignal \/ CapHalt
  <2>1. UNCHANGED <<mic, dma, chan, ovf, lost, buf, res, snap, pipe>>
    BY <1>2 DEF CapWait, CapRecord, CapLoss, CapSignal, CapHalt, driver
  <2>2. \/ cap = "wait" /\ cap' \in {"end", "init"}
        \/ cap = "record" /\ cap' = "loop"
        \/ cap = "loss" /\ cap' = "disable"
        \/ cap = "signal" /\ cap' = "loop"
        \/ cap = "halt" /\ cap' = "deinit"
    BY <1>2 DEF CapWait, CapRecord, CapLoss, CapSignal, CapHalt, At, Go
  <2> QED BY <1>1, <2>1, <2>2, PlaceMoves DEF CapPoints
<1>3. CASE CapReadTimeout \/ CapReadFails
  <2>1. /\ UNCHANGED <<mic, dma, chan, ovf, lost, buf, snap, pipe>>
        /\ res' \in {"timeout", "fail"} /\ cap = "read" /\ cap' = "drain"
    BY <1>3 DEF CapReadTimeout, CapReadFails, driver, At, Go
  <2> QED BY <2>1, PlaceMoves DEF CapPoints
<1>4. CASE CapCheck
  <2>1. /\ UNCHANGED <<mic, dma, chan, ovf, lost, buf, res, snap, pipe>>
        /\ cap = "check" /\ cap' \in {"stopped", "lock"}
    BY <1>4 DEF CapCheck, driver, At, Go
  <2> QED BY <1>1, <2>1, PlaceMoves DEF CapPoints
<1> QED BY <1>2, <1>3, <1>4

(* A read takes the oldest descriptor.                                      *)
LEMMA ReadStep ==
    ASSUME CaptureOK, PipeOK, Continuous, Counted, CapRead
    PROVE  CaptureOK' /\ Continuous' /\ Counted'
<1>1. /\ cap = "read" /\ dma # <<>> /\ buf' = Append(buf, Head(dma))
      /\ dma' = Tail(dma) /\ UNCHANGED <<mic, chan, ovf, lost, res, snap, pipe>>
      /\ cap' = IF Len(buf') = ReadSize THEN "drain" ELSE "read"
  BY DEF CapRead, At, Go
<1>2. /\ dma \in Seq(Nat) /\ buf \in Seq(Nat) /\ Len(dma) \in Nat /\ Len(buf) \in Nat
      /\ Len(dma) <= DmaQueue /\ Len(buf) < ReadSize /\ ReadSize \in Nat
      /\ DmaQueue \in Nat
  BY <1>1, PcmBounds DEF CaptureOK
<1>3. Head(dma) \in Nat /\ dma' \in Seq(Nat) /\ Len(dma') = Len(dma) - 1
  BY <1>1, <1>2, HeadTailProperties
<1>4. buf' \in Seq(Nat) /\ Len(buf') = Len(buf) + 1
  BY <1>1, <1>2, <1>3
<1>5. CaptureOK'
  <2>1. Len(dma') <= DmaQueue /\ Len(buf') <= ReadSize /\ (cap' = "read" => Len(buf') < ReadSize)
    BY <1>1, <1>2, <1>3, <1>4
  <2>2. cap' \in CapPoints
    BY <1>1 DEF CapPoints
  <2> QED BY <1>1, <1>3, <1>4, <2>1, <2>2 DEF CaptureOK
<1>6. ASSUME ovf.n = 0
      PROVE  /\ Follow(buf', pipe.captured)
             /\ mic = pipe.captured + Len(buf') + Len(dma')
             /\ Follow(dma', pipe.captured + Len(buf'))
  <2>1. PICK c \in Nat, i \in Nat, j \in Nat :
            c = pipe.captured /\ i = Len(buf) /\ j = Len(dma)
    BY <1>2 DEF PipeOK, Pipes
  <2>2. ReadWhole /\ Unbroken /\ Held = i
    BY <1>1, <1>6, <2>1 DEF ReadWhole, Unbroken, Held, Reading
  <2>3. Follow(buf, c) /\ mic = c + i + j /\ Follow(dma, c + i)
    BY <2>1, <2>2 DEF Continuous
  <2>4. Head(dma) = c + i + 1 /\ Follow(dma', c + i + 1)
    BY <1>1, <1>2, <2>3, FollowTail
  <2>5. Follow(buf', c)
    BY <1>1, <1>2, <2>1, <2>3, <2>4, FollowAppend
  <2>6. Len(buf') = i + 1 /\ Len(dma') = j - 1
    BY <1>3, <1>4, <2>1
  <2>7. mic = c + (i + 1) + (j - 1) /\ c + (i + 1) = c + i + 1
    BY <2>3
  <2>8. Follow(dma', c + (i + 1))
    BY <2>4, <2>7
  <2> QED BY <2>1, <2>5, <2>6, <2>7, <2>8
<1>7. Continuous'
  <2>1. cap' \in {"read", "drain"} /\ Held' = Len(buf')
    BY <1>1 DEF Held, Reading
  <2>2. ReadWhole' => ovf.n = 0
    BY <1>1, <2>1 DEF ReadWhole
  <2>3. Unbroken' => ovf.n = 0
    BY <1>1, <2>1 DEF Unbroken
  <2> QED BY <1>1, <1>6, <2>1, <2>2, <2>3 DEF Continuous
<1>8. Counted'
  <2>1. Pending' = Pending /\ cap' \notin {"wait", "init"}
    BY <1>1 DEF Pending
  <2> QED BY <1>1, <2>1 DEF Counted
<1> QED BY <1>5, <1>7, <1>8

(* The read is staged, and the stream goes on behind it.                    *)
LEMMA StageStep ==
    ASSUME CaptureOK, PipeOK, Continuous, Counted, CapStage
    PROVE  CaptureOK' /\ Continuous' /\ Counted'
<1>1. /\ cap = "lock" /\ pipe' = Staged
      /\ UNCHANGED <<mic, dma, chan, ovf, lost, buf, res, snap>>
      /\ cap' \in {"loss", "signal", "loop"}
      /\ cap' # "loss" => ~(snap > 0) /\ ~(pipe'.drop > pipe.drop)
  BY DEF CapStage, At, Go, driver
<1>2. /\ Staged.dma = pipe.dma + snap /\ Staged.drop >= pipe.drop /\ Staged \in Pipes
      /\ snap = 0 /\ Staged.drop = pipe.drop =>
            Staged.captured = pipe.captured + Len(buf)
  BY <1>1, StagedKeeps DEF Kept
<1>3. CaptureOK'
  BY <1>1 DEF CaptureOK, CapPoints
<1>4. /\ snap \in Nat /\ pipe.dma \in Nat /\ pipe.drop \in Nat /\ pipe'.drop \in Nat
      /\ ovf.n \in Nat
  BY <1>1, <1>2 DEF CaptureOK, PipeOK, Pipes
<1>5. Continuous'
  <2>1. ~ReadWhole'
    BY <1>1 DEF ReadWhole
  <2>2. ASSUME Unbroken'
        PROVE  /\ mic = pipe'.captured + 0 + Len(dma)
               /\ Follow(dma, pipe'.captured + 0) /\ Held' = 0
    <3>1. cap' # "loss" /\ ovf.n = 0
      BY <1>1, <2>2 DEF Unbroken, Reading
    <3>2. snap = 0 /\ pipe'.drop = pipe.drop
      BY <1>1, <1>2, <1>4, <3>1
    <3>3. pipe'.captured = pipe.captured + Len(buf)
      BY <1>1, <1>2, <3>2
    <3>4. Unbroken /\ Held = Len(buf) /\ Held' = 0
      BY <1>1, <3>1, <3>2 DEF Unbroken, Held, Reading
    <3>5. mic = pipe'.captured + Len(dma) /\ Follow(dma, pipe'.captured)
      BY <3>3, <3>4 DEF Continuous
    <3>6. pipe'.captured \in Nat
      BY <1>1, <1>2 DEF Pipes
    <3> QED BY <3>4, <3>5, <3>6
  <2> QED BY <1>1, <2>1, <2>2 DEF Continuous
<1>6. Counted'
  <2>1. Pending = snap /\ Pending' = 0 /\ cap' \notin {"wait", "init"}
    BY <1>1 DEF Pending
  <2>2. PICK i \in Nat, j \in Nat, k \in Nat : i = pipe.dma /\ j = ovf.n /\ k = snap
    BY <1>4
  <2>3. pipe'.dma = i + k /\ lost = i + j + k
    BY <1>1, <1>2, <2>1, <2>2 DEF Counted
  <2>4. (i + k) + j + 0 = lost
    BY <2>3
  <2> QED BY <1>1, <2>1, <2>2, <2>3, <2>4 DEF Counted
<1> QED BY <1>3, <1>5, <1>6

(* The drops in the capture task's hand go into the counters.               *)
LEMMA NoteStep ==
    ASSUME CaptureOK, PipeOK, Counted, CapFailed \/ CapStopped
    PROVE  CaptureOK' /\ Continuous' /\ Counted'
<1>1. /\ cap \in {"failed", "stopped"} /\ cap' = "disable"
      /\ UNCHANGED <<mic, dma, chan, ovf, lost, buf, res, snap>>
      /\ pipe' = NoteOverflow(pipe, snap) \/ pipe' = Noted
  BY DEF CapFailed, CapStopped, At, Go, driver
<1>2. snap \in Nat /\ pipe.dma \in Nat /\ ovf.n \in Nat /\ pipe \in Pipes
  BY DEF CaptureOK, PipeOK, Pipes
<1>3. pipe'.dma = pipe.dma + snap
  BY <1>1, <1>2, NotedKeeps, NotesKeepSlots
<1>4. CaptureOK'
  BY <1>1 DEF CaptureOK, CapPoints
<1>5. Continuous'
  BY <1>1 DEF Continuous, ReadWhole, Unbroken, Reading
<1>6. Counted'
  <2>1. Pending = snap /\ Pending' = 0 /\ cap' \notin {"wait", "init"}
    BY <1>1 DEF Pending
  <2>2. PICK i \in Nat, j \in Nat, k \in Nat : i = pipe.dma /\ j = ovf.n /\ k = snap
    BY <1>2
  <2>3. pipe'.dma = i + k /\ lost = i + j + k
    BY <1>3, <2>1, <2>2 DEF Counted
  <2>4. (i + k) + j + 0 = lost
    BY <2>3
  <2> QED BY <1>1, <2>1, <2>2, <2>3, <2>4 DEF Counted
<1> QED BY <1>4, <1>5, <1>6

(* The driver's counter is drained into the capture task's hand, at the end *)
(* of the task straight into the pipeline's counter.                        *)
LEMMA DrainStep ==
    ASSUME CaptureOK, PipeOK, Continuous, Counted, CapDrain \/ CapFinal \/ CapInterim
    PROVE  CaptureOK' /\ Continuous' /\ Counted'
<1>1. /\ UNCHANGED <<mic, dma, chan, lost, buf, res>>
      /\ snap' = ovf.n /\ ovf' = [ovf EXCEPT !.n = 0]
  BY DEF CapDrain, CapFinal, CapInterim, Drain
<1>2. ovf \in [armed : BOOLEAN, n : Nat] /\ pipe.dma \in Nat /\ ovf.n \in Nat
      /\ pipe \in Pipes /\ lost \in Nat
  BY DEF CaptureOK, PipeOK, Pipes
<1>3. ovf' \in [armed : BOOLEAN, n : Nat] /\ ovf'.n = 0 /\ (ovf'.armed <=> ovf.armed)
  BY <1>1, <1>2
<1>4. \/ cap = "drain" /\ cap' \in {"failed", "check"} /\ pipe' = pipe
      \/ /\ cap \in {"final", "interim"} /\ cap' = "halt"
         /\ pipe' = NoteOverflow(pipe, ovf.n)
  BY <1>1 DEF CapDrain, CapFinal, CapInterim, At, Go
<1>5. CaptureOK'
  BY <1>1, <1>2, <1>3, <1>4 DEF CaptureOK, CapPoints
<1>6. PICK i \in Nat, j \in Nat : i = pipe.dma /\ j = ovf.n
  BY <1>2
<1>7. Pending = 0 /\ lost = i + j + 0 /\ lost <= mic /\ (chan = "on" => ovf.armed)
  BY <1>4, <1>6 DEF Counted, Pending
<1>8. CASE cap = "drain"
  <2>1. cap' \in {"failed", "check"} /\ pipe' = pipe
    BY <1>4, <1>8
  <2>2. Continuous'
    <3>1. ReadWhole' => ReadWhole
      BY <1>1, <1>8, <2>1 DEF ReadWhole
    <3>2. Unbroken' => Unbroken /\ Held' = Held
      BY <1>1, <1>8, <2>1 DEF Unbroken, Held, Reading
    <3> QED BY <1>1, <2>1, <3>1, <3>2 DEF Continuous
  <2>3. Counted'
    <3>1. Pending' = j /\ pipe'.dma = i
      BY <1>1, <1>6, <2>1 DEF Pending
    <3>2. i + 0 + j = lost /\ j <= lost
      BY <1>7
    <3> QED BY <1>1, <1>3, <1>6, <1>7, <2>1, <3>1, <3>2 DEF Counted
  <2> QED BY <1>5, <2>2, <2>3
<1>9. CASE cap # "drain"
  <2>1. cap' = "halt" /\ pipe' = NoteOverflow(pipe, ovf.n)
    BY <1>4, <1>9
  <2>2. Continuous'
    BY <2>1 DEF Continuous, ReadWhole, Unbroken, Reading
  <2>3. Counted'
    <3>1. Pending' = 0 /\ pipe'.dma = i + j
      BY <1>2, <1>6, <2>1, NotesKeepSlots DEF Pending
    <3>2. (i + j) + 0 + 0 = lost /\ j <= lost
      BY <1>7
    <3> QED BY <1>1, <1>3, <1>6, <1>7, <2>1, <3>1, <3>2 DEF Counted
  <2> QED BY <1>5, <2>2, <2>3
<1> QED BY <1>8, <1>9

(* The channel is turned on, disabled and deleted.                          *)
LEMMA ChannelStep ==
    ASSUME CaptureOK, PipeOK, Continuous, Counted, CapInit \/ CapDisable \/ CapDeinit
    PROVE  CaptureOK' /\ Continuous' /\ Counted'
<1>1. ovf \in [armed : BOOLEAN, n : Nat] /\ lost \in Nat /\ ReadSize \in Nat
  BY PcmBounds DEF CaptureOK
<1>2. CASE CapInit
  <2>1. /\ UNCHANGED <<mic, dma, lost, buf, res, snap, pipe>> /\ cap = "init"
        /\ \/ chan' = "on" /\ ovf' = [armed |-> TRUE, n |-> 0] /\ cap' = "record"
           \/ UNCHANGED <<chan, ovf>> /\ cap' = "end"
    BY <1>2 DEF CapInit, At, Go
  <2>2. ovf.n = 0 /\ ovf'.n = 0 /\ (chan' = "on" => ovf'.armed)
    BY <2>1 DEF Counted
  <2>3. CaptureOK'
    <3>1. ovf' \in [armed : BOOLEAN, n : Nat]
      <4>1. [armed |-> TRUE, n |-> 0] \in [armed : BOOLEAN, n : Nat]
        OBVIOUS
      <4> QED BY <1>1, <2>1, <4>1
    <3>2. chan' \in {"none", "on", "disabled"} /\ cap' \in CapPoints /\ cap' # "read"
      BY <2>1 DEF CaptureOK, CapPoints
    <3> QED BY <2>1, <3>1, <3>2 DEF CaptureOK
  <2>4. Continuous'
    <3>1. ~ReadWhole' /\ (Unbroken' => Unbroken) /\ Held' = Held
      BY <2>1, <2>2 DEF ReadWhole, Unbroken, Held, Reading
    <3> QED BY <2>1, <3>1 DEF Continuous
  <2>5. Counted'
    <3>1. Pending' = Pending
      BY <2>1 DEF Pending
    <3> QED BY <2>1, <2>2, <3>1 DEF Counted
  <2> QED BY <2>3, <2>4, <2>5
<1>3. CASE CapDisable
  <2>1. /\ UNCHANGED <<mic, dma, ovf, lost, pipe>> /\ cap = "disable"
        /\ cap' \in {"final", "interim"} /\ buf' = <<>> /\ res' = "ok" /\ snap' = 0
        /\ chan' = "disabled" \/ chan' = chan
    BY <1>3 DEF CapDisable, At, Go
  <2>2. CaptureOK'
    BY <1>1, <2>1, FollowEmpty DEF CaptureOK, CapPoints
  <2>3. Continuous'
    BY <2>1 DEF Continuous, ReadWhole, Unbroken, Reading
  <2>4. Counted'
    <3>1. Pending' = Pending
      BY <2>1 DEF Pending
    <3> QED BY <1>1, <2>1, <3>1 DEF Counted
  <2> QED BY <2>2, <2>3, <2>4
<1>4. CASE CapDeinit
  <2>1. /\ UNCHANGED <<mic, dma, lost, buf, res, snap, pipe>> /\ cap = "deinit"
        /\ cap' \in {"deinit", "end"}
        /\ \/ chan' = "none" /\ ovf' = [ovf EXCEPT !.armed = FALSE]
           \/ chan' \in {chan, "disabled"} /\ ovf' = ovf
    BY <1>4 DEF CapDeinit, At, Go
  <2>2. /\ ovf' \in [armed : BOOLEAN, n : Nat] /\ ovf'.n = ovf.n
        /\ chan' = "on" => chan = "on" /\ ovf' = ovf
    BY <1>1, <2>1
  <2>3. CaptureOK'
    BY <1>1, <2>1, <2>2 DEF CaptureOK, CapPoints
  <2>4. Continuous'
    BY <2>1 DEF Continuous, ReadWhole, Unbroken, Reading
  <2>5. Counted'
    <3>1. Pending' = Pending
      BY <2>1 DEF Pending
    <3> QED BY <2>1, <2>2, <3>1 DEF Counted
  <2> QED BY <2>3, <2>4, <2>5
<1> QED BY <1>2, <1>3, <1>4

(* A new read begins.                                                       *)
LEMMA LoopStep ==
    ASSUME CaptureOK, PipeOK, Continuous, Counted, CapLoop
    PROVE  CaptureOK' /\ Continuous' /\ Counted'
<1>1. /\ UNCHANGED <<mic, dma, chan, ovf, lost, pipe>> /\ cap = "loop"
      /\ cap' \in {"disable", "read"} /\ buf' = <<>> /\ res' = "ok" /\ snap' = 0
  BY DEF CapLoop, At, Go, driver
<1>2. ReadSize \in Nat \ {0} /\ lost \in Nat
  BY PcmBounds DEF CaptureOK
<1>3. CaptureOK'
  BY <1>1, <1>2, FollowEmpty DEF CaptureOK, CapPoints
<1>4. Continuous'
  <2>1. Follow(buf', pipe'.captured)
    BY <1>1, FollowEmpty
  <2>2. Unbroken' => Unbroken
    BY <1>1 DEF Unbroken, Reading
  <2>3. Held' = 0 /\ Held = 0
    BY <1>1, FollowEmpty DEF Held, Reading
  <2> QED BY <1>1, <2>1, <2>2, <2>3 DEF Continuous
<1>5. Counted'
  <2>1. Pending' = Pending /\ cap' \notin {"wait", "init"}
    BY <1>1 DEF Pending
  <2> QED BY <1>1, <1>2, <2>1 DEF Counted
<1> QED BY <1>3, <1>4, <1>5

LEMMA CaptureStep ==
    ASSUME CaptureOK, PipeOK, Continuous, Counted, InHand, [Next]_vars
    PROVE  CaptureOK' /\ Continuous' /\ Counted'
<1>1. CASE Writer \/ Others
  <2>1. UNCHANGED <<mic, dma, chan, ovf, lost, buf, res, snap, cap>>
    BY <1>1, WriterFrame, OthersFrame DEF driver, capture
  <2>2. pipe'.captured = pipe.captured /\ pipe'.dma = pipe.dma
    BY <1>1, WriterPipe, OthersFrame
  <2>3. CaptureOK'
    BY <2>1 DEF CaptureOK
  <2>4. Continuous'
    BY <2>1, <2>2 DEF Continuous, ReadWhole, Unbroken, Held
  <2>5. Counted'
    BY <2>1, <2>2 DEF Counted, Pending
  <2> QED BY <2>3, <2>4, <2>5
<1>2. CASE Capture \/ CapReadFails
  BY <1>2, PlaceStep, ReadStep, StageStep, NoteStep, DrainStep, ChannelStep, LoopStep
     DEF Capture
<1> QED BY <1>1, <1>2, SampleStep, WhoMoves

-----------------------------------------------------------------------------
(* Nothing is lost, refused by the card or left counting in silence.        *)
LEMMA ReportStep ==
    ASSUME CaptureOK, PipeOK, StatusOK, Continuous, Counted, Reported, InHand, [Next]_vars
    PROVE  Reported'
<1>1. /\ state = "ERROR" => state' = "ERROR"
      /\ faults' = faults \/ faults' = faults + 1
      /\ faults \in Nat /\ (faults > 0 => faults' > 0)
  BY StateStep, FaultStep, PcmBounds DEF StatusOK
<1>2. pipe \in Pipes /\ InTurn(pipe) /\ snap \in Nat /\ ovf.n \in Nat
      /\ pipe.dma \in Nat /\ pipe.drop \in Nat
  BY DEF PipeOK, CaptureOK, Pipes
<1>3. CASE Sample
  <2>1. UNCHANGED <<chan, cap, pipe, wrt, state>> /\ chan = "on"
    BY <1>3, SampleFrame DEF capture, writer, status
  <2> QED BY <1>1, <2>1 DEF Reported
<1>4. CASE Others
  <2>1. UNCHANGED <<chan, ovf, cap, pipe, wrt>>
    BY <1>4, OthersFrame DEF driver, capture, writer
  <2> QED BY <1>1, <2>1 DEF Reported
<1>5. CASE Writer
  <2>1. UNCHANGED <<chan, ovf, cap>> /\ pipe'.dma = pipe.dma /\ pipe'.drop = pipe.drop
    BY <1>5, WriterFrame, WriterPipe DEF driver, capture
  <2>2. ASSUME pipe'.sd
        PROVE  /\ state' = "ERROR"
               /\ wrt' \in {"finalize", "unready", "unmount", "end"}
    <3>1. CASE WrFails("finalize") \/ WrFails("unready")
      BY <3>1, EntersError DEF WrFails, WrGo
    <3>2. CASE pipe'.sd = pipe.sd /\ WrUnready
      BY <1>1, <2>2, <3>2 DEF WrUnready, WrGo, Reported
    <3>3. CASE pipe'.sd = pipe.sd /\ WrUnmount
      BY <1>1, <2>2, <3>3 DEF WrUnmount, WrGo, Reported
    <3>4. CASE pipe' = pipe /\ WrFinalize
      BY <1>1, <2>2, <3>4 DEF WrFinalize, WrGo, WrFails, Reported, EnterError
    <3>5. CASE \/ WrStart \/ WrWake \/ WrPeek \/ WrRelease \/ WrCheck
               \/ pipe' = pipe /\ (WrWrite \/ WrFlush \/ WrRotate)
      <4>1. pipe'.sd = pipe.sd
        <5>1. CASE WrRelease
          <6>1. pipe.full[pipe.r]
            BY <5>1 DEF WrRelease, WrAt, InHand
          <6> QED BY <1>2, <5>1, <6>1, ReleaseTurns DEF WrRelease
        <5> QED BY <3>5, <5>1 DEF WrStart, WrWake, WrPeek, WrCheck
      <4>2. wrt \notin {"finalize", "unready", "unmount", "end"}
        BY <3>5 DEF WrStart, WrWake, WrPeek, WrRelease, WrCheck, WrWrite, WrFlush,
           WrRotate, WrAt
      <4> QED BY <2>2, <4>1, <4>2 DEF Reported
    <3> QED BY <1>5, <3>1, <3>2, <3>3, <3>4, <3>5 DEF Writer, WrWrite, WrFlush, WrRotate,
         WrFinalize, WrUnready, WrUnmount
  <2> QED BY <1>1, <2>1, <2>2 DEF Reported
<1>6. CASE Capture \/ CapReadFails
  <2>1. pipe'.sd = pipe.sd /\ wrt' = wrt
    BY <1>6, CapturePipe, CaptureFrame DEF Kept, writer
  <2>2. pipe'.sd => state' = "ERROR" /\ wrt' \in {"finalize", "unready", "unmount", "end"}
    BY <1>1, <2>1 DEF Reported
  <2>3. CASE \/ CapWait \/ CapRecord \/ CapLoop \/ CapRead \/ CapReadTimeout
             \/ CapReadFails \/ CapDrain \/ CapCheck \/ CapSignal
    <3>1. /\ pipe' = pipe /\ cap # "loss" /\ cap' \notin {"loss", "final", "interim"}
          /\ cap' \in {"halt", "deinit", "end"} =>
                cap = "wait" /\ cap' = "end" /\ UNCHANGED <<chan, ovf>>
      BY <2>3 DEF CapWait, CapRecord, CapLoop, CapRead, CapReadTimeout, CapReadFails,
         CapDrain, CapCheck, CapSignal, At, Go, driver
    <3>2. cap = "wait" => chan # "on" /\ ovf.n = 0
      BY DEF Counted
    <3> QED BY <1>1, <2>2, <3>1, <3>2 DEF Reported
  <2>4. CASE CapInit
    <3>1. /\ pipe' = pipe /\ cap = "init"
          /\ \/ cap' = "record"
             \/ cap' = "end" /\ UNCHANGED <<chan, ovf>>
      BY <2>4 DEF CapInit, At, Go
    <3>2. chan # "on" /\ ovf.n = 0
      BY <3>1 DEF Counted
    <3> QED BY <1>1, <2>2, <3>1, <3>2 DEF Reported
  <2>5. CASE CapFailed \/ CapLoss
    <3>1. state' = "ERROR" /\ cap' = "disable"
      BY <2>5, EntersError DEF CapFailed, CapLoss, Go
    <3> QED BY <2>2, <3>1 DEF Reported
  <2>6. CASE CapStopped
    <3>1. cap = "stopped" /\ cap' = "disable" /\ pipe' = Noted
          /\ (snap > 0 => state' = "ERROR")
      BY <2>6, EntersError DEF CapStopped, At, Go
    <3>2. pipe'.drop = pipe.drop /\ pipe'.dma = pipe.dma + snap
      BY <3>1, NotedKeeps DEF SameSlots
    <3>3. pipe'.dma > 0 \/ pipe'.drop > 0 => state' = "ERROR"
      <4>1. CASE snap = 0
        <5>1. pipe'.dma = pipe.dma
          BY <1>2, <3>2, <4>1
        <5> QED BY <1>1, <3>1, <3>2, <5>1 DEF Reported
      <4> QED BY <1>2, <3>1, <4>1
    <3> QED BY <2>2, <3>1, <3>3 DEF Reported
  <2>7. CASE CapStage
    <3>1. /\ cap = "lock" /\ pipe' = Staged /\ cap' \in {"loss", "signal", "loop"}
          /\ cap' # "loss" => ~(snap > 0) /\ ~(pipe'.drop > pipe.drop)
      BY <2>7 DEF CapStage, At, Go
    <3>2. pipe'.dma = pipe.dma + snap /\ pipe'.drop >= pipe.drop /\ pipe'.drop \in Nat
      BY <3>1, StagedKeeps DEF Kept, Pipes
    <3>3. cap' # "loss" => pipe'.dma = pipe.dma /\ pipe'.drop = pipe.drop
      BY <1>2, <3>1, <3>2
    <3> QED BY <1>1, <2>2, <3>1, <3>3 DEF Reported
  <2>8. CASE CapDisable
    <3>1. /\ pipe' = pipe /\ cap = "disable"
          /\ \/ chan' = "disabled" /\ cap' = "final"
             \/ faults' = faults + 1 /\ cap' = "interim"
      BY <2>8 DEF CapDisable, At, Go, Fault
    <3> QED BY <1>1, <2>2, <3>1 DEF Reported
  <2>9. CASE CapFinal
    <3>1. /\ cap = "final" /\ cap' = "halt" /\ chan' = chan /\ snap' = ovf.n
          /\ ovf'.n = 0 /\ pipe' = NoteOverflow(pipe, ovf.n)
          /\ (ovf.n > 0 => state' = "ERROR")
      BY <2>9, EntersError DEF CapFinal, At, Go, Drain, FinalLoss, CaptureOK
    <3>2. chan = "disabled"
      BY <3>1 DEF Reported
    <3>3. pipe'.dma = pipe.dma + ovf.n /\ pipe'.drop = pipe.drop
      BY <1>2, <3>1, NotesKeepSlots DEF SameSlots
    <3>4. pipe'.dma > 0 \/ pipe'.drop > 0 => state' = "ERROR"
      <4>1. CASE ovf.n = 0
        <5>1. pipe'.dma = pipe.dma
          BY <1>2, <3>3, <4>1
        <5> QED BY <1>1, <3>1, <3>3, <5>1 DEF Reported
      <4> QED BY <1>2, <3>1, <4>1
    <3> QED BY <2>2, <3>1, <3>2, <3>4 DEF Reported
  <2>10. CASE CapInterim
    <3>1. cap = "interim" /\ cap' = "halt" /\ state' = "ERROR"
      BY <2>10, EntersError DEF CapInterim, At, Go
    <3>2. faults' > 0
      BY <1>1, <3>1 DEF Reported
    <3> QED BY <2>2, <3>1, <3>2 DEF Reported
  <2>11. CASE CapHalt
    <3>1. cap = "halt" /\ cap' = "deinit" /\ UNCHANGED <<pipe, chan, ovf, state>>
      BY <2>11 DEF CapHalt, At, Go, driver, status
    <3> QED BY <1>1, <2>2, <3>1 DEF Reported
  <2>12. CASE CapDeinit
    <3>1. /\ cap = "deinit" /\ pipe' = pipe
          /\ \/ cap' = "end" /\ chan' = "none" /\ ovf'.n = ovf.n
             \/ cap' = "deinit" /\ state' = "ERROR" /\ faults' = faults + 1
      BY <2>12, EntersError DEF CapDeinit, At, Go, Fault, CaptureOK
    <3> QED BY <1>1, <2>2, <3>1 DEF Reported
  <2> QED BY <1>6, <2>3, <2>4, <2>5, <2>6, <2>7, <2>8, <2>9, <2>10, <2>11, <2>12
          DEF Capture
<1> QED BY <1>3, <1>4, <1>5, <1>6, WhoMoves

-----------------------------------------------------------------------------
LEMMA InitIInv == Init => IInv
<1> SUFFICES ASSUME Init PROVE IInv
  OBVIOUS
<1>1. /\ SlotSize \in Nat \ {0} /\ ReadSize \in Nat \ {0} /\ DmaQueue \in Nat \ {0}
      /\ MaxSample \in Nat /\ MaxFault \in Nat
  BY PcmBounds
<1>2. CaptureOK /\ WriterOK /\ StatusOK /\ CardInUse
  <2>1. [armed |-> FALSE, n |-> 0] \in [armed : BOOLEAN, n : Nat]
    OBVIOUS
  <2>2. CaptureOK
    BY <1>1, <2>1, FollowEmpty DEF Init, CaptureOK, CapPoints
  <2>3. WriterOK
    BY <1>1, FollowEmpty DEF Init, WriterOK, WrPoints, Slots
  <2>4. StatusOK /\ CardInUse
    <3>1. /\ state \in RecorderStates /\ faults \in 0..MaxFault /\ wrt = "start"
      BY <1>1 DEF Init, RecorderStates
    <3>2. {evReady, mounted, stop, slotFull, ready} \subseteq BOOLEAN /\ mounted
      BY DEF Init
    <3> QED BY <3>1, <3>2 DEF StatusOK, CardInUse
  <2> QED BY <2>2, <2>3, <2>4
<1>3. pipe \in Pipes
  BY DEF Init, EmptyPipe, Pipes, Slots
<1>4. /\ pipe.r = 0 /\ pipe.w = 0 /\ pipe.chunks = 0 /\ pipe.captured = 0
      /\ pipe.dma = 0 /\ pipe.drop = 0 /\ ~pipe.sd
      /\ \A i \in Slots : pipe.slot[i] = <<>> /\ ~pipe.full[i]
  BY DEF Init, EmptyPipe
<1>5. 0 \in Slots /\ 1 \in Slots /\ pipe.chunks * SlotSize = 0
  BY <1>1, <1>4 DEF Slots
<1>6. InTurn(pipe)
  <2>1. pipe.r = 0 /\ 1 - pipe.r = 1
    BY <1>4
  <2>2. pipe.slot[0] = <<>> /\ pipe.slot[1] = <<>> /\ ~pipe.full[0] /\ ~pipe.full[1]
    BY <1>4, <1>5
  <2>3. \A i \in Slots : /\ Len(pipe.slot[i]) <= SlotSize
                         /\ pipe.full[i] <=> Len(pipe.slot[i]) = SlotSize
    BY <1>1, <1>4
  <2>4. Len(pipe.slot[0]) = 0 /\ Len(pipe.slot[1]) = 0
        /\ Follow(pipe.slot[0], 0) /\ Follow(pipe.slot[1], 0 + SlotSize)
    BY <2>2, FollowEmpty
  <2>5. pipe.captured = 0 + Len(pipe.slot[0]) + Len(pipe.slot[1])
    BY <1>4, <2>4
  <2> QED BY <1>4, <1>5, <2>1, <2>2, <2>3, <2>4, <2>5 DEF InTurn, Follow
<1>7. Continuous /\ Counted /\ Reported
  BY <1>4, FollowEmpty DEF Init, Continuous, ReadWhole, Unbroken, Held, Reading, Counted,
     Pending, Reported
<1>8. InHand
  BY <1>5, FollowEmpty DEF Init, InHand
<1> QED BY <1>2, <1>3, <1>6, <1>7, <1>8 DEF IInv, PipeOK

LEMMA NextIInv == IInv /\ [Next]_vars => IInv'
  BY StatusStep, PipeStep, CaptureStep, ReportStep, WriterStep, CardStep DEF IInv

(* The inductive invariant of the microphone, the tasks and the card.       *)
THEOREM PcmInvariant == Spec => []IInv
  BY InitIInv, NextIInv, PTL DEF Spec

LEMMA IInvTypeOK == IInv => TypeOK
<1> SUFFICES ASSUME IInv PROVE TypeOK
  OBVIOUS
<1>1. /\ CaptureOK /\ WriterOK /\ StatusOK /\ PipeOK /\ Counted /\ MaxSample \in Nat
      /\ pipe \in Pipes /\ InTurn(pipe)
  BY PcmBounds DEF IInv, PipeOK
<1>2. lost \in 0..MaxSample /\ snap \in 0..MaxSample /\ ovf.n \in 0..MaxSample
  <2>1. /\ lost \in Nat /\ snap \in Nat /\ ovf.n \in Nat /\ pipe.dma \in Nat
        /\ mic \in 0..MaxSample
    BY <1>1 DEF CaptureOK, Pipes
  <2>2. Pending \in Nat
    BY <2>1 DEF Pending
  <2>3. PICK i \in Nat, j \in Nat, k \in Nat : i = pipe.dma /\ j = ovf.n /\ k = Pending
    BY <2>1, <2>2
  <2>4. i + j + k = lost /\ lost <= mic /\ snap <= lost
    BY <1>1, <2>3 DEF Counted
  <2> QED BY <1>1, <2>1, <2>3, <2>4
<1>3. ovf \in [armed : BOOLEAN, n : 0..MaxSample]
  BY <1>1, <1>2 DEF CaptureOK
<1>4. /\ \A i \in Slots : /\ Len(pipe.slot[i]) <= SlotSize
                          /\ pipe.full[i] <=> Len(pipe.slot[i]) = SlotSize
      /\ pipe.captured = pipe.chunks * SlotSize + Len(pipe.slot[0]) + Len(pipe.slot[1])
  <2>1. PICK o \in Slots, n \in Slots : o = pipe.r /\ n = 1 - pipe.r /\ o # n
    BY <1>1 DEF Pipes, Slots
  <2>2. PICK b \in Nat : b = pipe.chunks * SlotSize
    BY <1>1, ChunkSteps DEF Pipes
  <2>3. PICK i \in Nat, j \in Nat : i = Len(pipe.slot[o]) /\ j = Len(pipe.slot[n])
    BY <1>1, <2>1, InTurnParts
  <2>4. pipe.captured = b + i + j
    BY <1>1, <2>1, <2>2, <2>3, InTurnParts
  <2>5. \/ Len(pipe.slot[0]) = i /\ Len(pipe.slot[1]) = j
        \/ Len(pipe.slot[0]) = j /\ Len(pipe.slot[1]) = i
    BY <2>1, <2>3 DEF Slots
  <2>6. b + i + j = b + j + i
    OBVIOUS
  <2>7. pipe.captured = pipe.chunks * SlotSize + Len(pipe.slot[0]) + Len(pipe.slot[1])
    BY <2>2, <2>4, <2>5, <2>6
  <2> QED BY <1>1, <2>7 DEF InTurn
<1> QED BY <1>1, <1>2, <1>3, <1>4 DEF TypeOK, CaptureOK, WriterOK, StatusOK

LEMMA IInvGapless == IInv => Gapless
<1> SUFFICES ASSUME IInv PROVE Gapless
  OBVIOUS
<1>1. InHand /\ card \in Seq(Nat)
  BY DEF IInv, WriterOK
<1>2. \A k \in 1..Len(card) : card[k] = k
  BY <1>1 DEF InHand, Follow
<1> QED BY <1>1, <1>2 DEF Gapless, InHand

LEMMA IInvLoss == IInv => LossEndsInError
<1> SUFFICES ASSUME IInv, Ended PROVE
        /\ state # "ERROR" => lost = 0 /\ pipe.drop = 0 /\ ~pipe.sd
        /\ pipe.dma <= lost /\ (faults = 0 => pipe.dma = lost)
  BY DEF LossEndsInError
<1>1. cap = "end" /\ Counted /\ Reported
  BY DEF Ended, IInv
<1>2. pipe.dma \in Nat /\ pipe.drop \in Nat /\ ovf.n \in Nat
  BY DEF IInv, PipeOK, Pipes, CaptureOK
<1>3. PICK i \in Nat, j \in Nat : i = pipe.dma /\ j = ovf.n
  BY <1>2
<1>4. lost = i + j + 0
  BY <1>1, <1>3 DEF Counted, Pending
<1>5. (j = 0) \/ (state = "ERROR" /\ faults > 0)
  BY <1>1, <1>3 DEF Reported
<1>6. (i > 0 \/ pipe.drop > 0 => state = "ERROR") /\ (pipe.sd => state = "ERROR")
  BY <1>1, <1>3 DEF Reported
<1> QED BY <1>2, <1>3, <1>4, <1>5, <1>6

(* Every variable has its type, no slot is filled past its end, and what    *)
(* was captured is in a slot or was released (pcm_pipeline.c).              *)
THEOREM SlotsStayInBounds == Spec => []TypeOK
  BY PcmInvariant, IInvTypeOK, PTL

(* The card holds the microphone's samples from the first on, none missing, *)
(* twice or out of order, while the writer reads its slot outside the lock  *)
(* and the driver drops descriptors in its interrupt (main.c, pcm_pipeline.c*)
(* and i2s_pdm_capture.c).                                                  *)
THEOREM RecordingIsGapless == Spec => []Gapless
  BY PcmInvariant, IInvGapless, PTL

(* Both tasks end without ERROR only if nothing was lost, and every drop is *)
(* counted, once (the capture task's reports in main.c).                    *)
THEOREM LossIsReported == Spec => []LossEndsInError
  BY PcmInvariant, IInvLoss, PTL
=============================================================================
