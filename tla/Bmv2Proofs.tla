------------------------------ MODULE Bmv2Proofs ------------------------------
(***************************************************************************)
(* run_batch for any number of callers, batches, chunk size and padding:   *)
(* one switch at a time but for that of a failed batch, and every verdict  *)
(* at the place of its packet.                                             *)
(***************************************************************************)
EXTENDS Bmv2Poll, SequenceTheorems, TLAPS

Packet == Nat \ {0}

(***************************************************************************)
(* The inductive invariant.                                                *)
(***************************************************************************)

PollTypeOK ==
  /\ lock \in Callers \cup {Free}
  /\ at \in [Callers -> {"start", "chunk", "poll", "look", "wait", "done", "failed"}]
  /\ out \in [Callers -> Seq(Nat)]
  /\ pkts \in [Callers -> Seq(Packet)]
  /\ seen \in [Callers -> Nat] /\ age \in [Callers -> Nat] /\ idle \in [Callers -> Nat]
  /\ child \in [Callers -> {"none", "running", "killed", "zombie"}]
  /\ input \in [Callers -> Seq(Packet)]
  /\ emitted \in [Callers -> Nat] /\ flushed \in [Callers -> Nat]
  /\ torn \in [Callers -> BOOLEAN]

Inside(c) == at[c] \in {"chunk", "poll", "look", "wait"}
Polling(c) == at[c] \in {"poll", "look"}

\* The lock is held from the first chunk to the way out.
LockHeld(c) == Inside(c) => lock = c

\* A switch runs undisturbed exactly while its chunk is polled for, on the
\* chunk's input; what it wrote it has produced, and what it produced it was
\* given.  Between two chunks, before and after a batch there is no process.
SwitchServes(c) ==
  /\ Polling(c) <=> child[c] = "running"
  /\ at[c] \in {"start", "chunk", "done"} => child[c] = "none"
  /\ Polling(c) =>
       /\ Len(out[c]) < Len(Batch[c])
       /\ input[c] = Input(c)
       /\ flushed[c] <= emitted[c]
       /\ emitted[c] <= Len(input[c])

\* What was read is the beginning of what the switch was given.
ReadIsPrefix(c) ==
  at[c] = "look" => \E n \in 0 .. Len(input[c]) : pkts[c] = SubSeq(input[c], 1, n)

\* VerdictsBelong of one caller.
VerdictsOf(c) ==
  /\ Len(out[c]) <= Len(Batch[c])
  /\ \A i \in DOMAIN out[c] : out[c][i] \in {Batch[c][i], Lost}

CallerInv(c) == LockHeld(c) /\ SwitchServes(c) /\ ReadIsPrefix(c) /\ VerdictsOf(c)

PollInv == PollTypeOK /\ \A c \in Callers : CallerInv(c)

(***************************************************************************)
(* The chunk and the input made of it.                                     *)
(***************************************************************************)

\* A chunk is the next packets of the batch, at least one.
LEMMA ChunkIsNextPackets ==
  ASSUME PollTypeOK, NEW c \in Callers, Len(out[c]) < Len(Batch[c])
  PROVE  /\ Chunk(c) \in Seq(Packet)
         /\ Len(Chunk(c)) \in Packet
         /\ Len(out[c]) + Len(Chunk(c)) <= Len(Batch[c])
         /\ \A i \in 1 .. Len(Chunk(c)) : Chunk(c)[i] = Batch[c][Len(out[c]) + i]
<1> DEFINE m == Len(out[c]) + 1
           n == Smaller(Len(out[c]) + ChunkSize, Len(Batch[c]))
<1>1. Batch[c] \in Seq(Packet) /\ out[c] \in Seq(Nat)
  BY BatchAssumption DEF PollTypeOK, Packet
<1>2. Len(out[c]) \in Nat /\ Len(Batch[c]) \in Nat /\ ChunkSize \in Nat \ {0}
  BY <1>1, SizesAssumption
<1>3. m \in Nat /\ n \in Nat /\ 1 <= m /\ m <= n /\ n <= Len(Batch[c])
  BY <1>2 DEF Smaller
<1>4. \A i \in m .. n : Batch[c][i] \in Packet
  BY <1>1, <1>3
<1>5. Chunk(c) = SubSeq(Batch[c], m, n)
  BY DEF Chunk
<1> HIDE DEF n
<1>6. /\ SubSeq(Batch[c], m, n) \in Seq(Packet)
      /\ Len(SubSeq(Batch[c], m, n)) = n - m + 1
      /\ \A i \in 1 .. n - m + 1 : SubSeq(Batch[c], m, n)[i] = Batch[c][m + i - 1]
  <2> DEFINE b == Batch[c]
  <2>1. b \in Seq(Packet) /\ m \in Nat /\ n \in Nat /\ 1 <= m /\ m <= n /\ n <= Len(b)
    BY <1>1, <1>3
  <2> HIDE DEF b, m
  <2>2. /\ SubSeq(b, m, n) \in Seq(Packet)
        /\ Len(SubSeq(b, m, n)) = n - m + 1
        /\ \A i \in 1 .. n - m + 1 : SubSeq(b, m, n)[i] = b[m + i - 1]
    BY <2>1
  <2> QED BY <2>2 DEF b
<1>7. Len(Chunk(c)) = n - m + 1 /\ n - m + 1 \in Packet /\ Len(out[c]) + (n - m + 1) = n
  <2>1. Len(Chunk(c)) = n - m + 1
    BY <1>5, <1>6
  <2>2. n - m + 1 \in Packet
    BY <1>3 DEF Packet
  <2>3. Len(out[c]) + (n - (Len(out[c]) + 1) + 1) = n
    BY <1>2, <1>3
  <2> QED BY <2>1, <2>2, <2>3
<1>8. \A i \in 1 .. Len(Chunk(c)) : m + i - 1 = Len(out[c]) + i
  BY <1>2, <1>7
<1> QED BY <1>3, <1>5, <1>6, <1>7, <1>8

\* The input begins with the chunk and goes on with FlushPad packets.
LEMMA InputBeginsWithChunk ==
  ASSUME PollTypeOK, NEW c \in Callers, Len(out[c]) < Len(Batch[c])
  PROVE  /\ Input(c) \in Seq(Packet)
         /\ Len(Input(c)) = Len(Chunk(c)) + FlushPad
         /\ \A i \in 1 .. Len(Chunk(c)) : Input(c)[i] = Chunk(c)[i]
<1> DEFINE pad == Repeated(Last(Chunk(c)), FlushPad)
<1>1. Chunk(c) \in Seq(Packet) /\ Len(Chunk(c)) \in Packet
  BY ChunkIsNextPackets
<1>2. Last(Chunk(c)) \in Packet
  BY <1>1 DEF Last, Packet
<1>3. pad \in [1 .. FlushPad -> Packet] /\ FlushPad \in Nat
  BY <1>2, SizesAssumption DEF Repeated
<1>4. pad \in Seq(Packet) /\ Len(pad) = FlushPad
  BY <1>3
<1> HIDE DEF pad
<1>5. Input(c) = Chunk(c) \o pad
  BY DEF Input, pad
<1>6. /\ Chunk(c) \o pad \in Seq(Packet)
      /\ Len(Chunk(c) \o pad) = Len(Chunk(c)) + Len(pad)
      /\ \A i \in 1 .. Len(Chunk(c)) + Len(pad) :
           (Chunk(c) \o pad)[i] = IF i <= Len(Chunk(c)) THEN Chunk(c)[i] ELSE pad[i - Len(Chunk(c))]
  BY <1>1, <1>4, ConcatProperties
<1>7. \A i \in 1 .. Len(Chunk(c)) : i \in 1 .. Len(Chunk(c)) + Len(pad) /\ i <= Len(Chunk(c))
  BY <1>1, <1>3, <1>4 DEF Packet
<1> QED BY <1>4, <1>5, <1>6, <1>7

\* decode_into gives one verdict for every packet of the chunk, and none that
\* is another packet's.
LEMMA DecodedBelongs ==
  ASSUME PollTypeOK, NEW c \in Callers, CallerInv(c), at[c] = "look"
  PROVE  /\ Decoded(c) \in Seq(Nat)
         /\ Len(Decoded(c)) = Len(Chunk(c))
         /\ \A i \in 1 .. Len(Chunk(c)) : Decoded(c)[i] \in {Chunk(c)[i], Lost}
<1>1. Len(out[c]) < Len(Batch[c]) /\ input[c] = Input(c)
  BY DEF CallerInv, SwitchServes, Polling
<1>2. Chunk(c) \in Seq(Packet) /\ Len(Chunk(c)) \in Packet
  BY <1>1, ChunkIsNextPackets
<1>3. /\ Input(c) \in Seq(Packet)
      /\ \A i \in 1 .. Len(Chunk(c)) : Input(c)[i] = Chunk(c)[i]
  BY <1>1, InputBeginsWithChunk
<1>4. PICK n \in 0 .. Len(Input(c)) : pkts[c] = SubSeq(Input(c), 1, n)
  BY <1>1 DEF CallerInv, ReadIsPrefix
<1>5. Len(pkts[c]) = n /\ n \in Nat /\ \A i \in 1 .. n : pkts[c][i] = Input(c)[i]
  BY <1>3, <1>4
<1>6. ASSUME NEW i \in 1 .. Len(Chunk(c))
      PROVE  Decoded(c)[i] \in {Chunk(c)[i], Lost} /\ Decoded(c)[i] \in Nat
  <2>1. i \in Nat /\ i >= 1 /\ Chunk(c)[i] \in Nat
    BY <1>2 DEF Packet
  <2>2. (Decoded(c)[i] = pkts[c][i] /\ i <= Len(pkts[c])) \/ Decoded(c)[i] = Lost
    BY DEF Decoded
  <2>3. i <= Len(pkts[c]) => pkts[c][i] = Chunk(c)[i]
    BY <1>3, <1>5, <2>1
  <2> QED BY <2>1, <2>2, <2>3 DEF Lost
<1>7. Decoded(c) \in [1 .. Len(Chunk(c)) -> Nat]
  BY <1>6 DEF Decoded
<1> DEFINE d == Decoded(c)
           m == Len(Chunk(c))
<1>8. m \in Nat /\ d \in [1 .. m -> Nat]
  BY <1>2, <1>7 DEF Packet
<1> HIDE DEF d, m
<1>9. d \in Seq(Nat) /\ Len(d) = m
  BY <1>8
<1> QED BY <1>6, <1>9 DEF d, m

(***************************************************************************)
(* Type correctness.                                                       *)
(***************************************************************************)

LEMMA PollTypeInit == Init => PollTypeOK
BY DEF Init, PollTypeOK

\* What a caller reads is a sequence of packets.
LEMMA ReadableIsPrefix ==
  ASSUME PollTypeOK, NEW c \in Callers, CallerInv(c), Polling(c)
  PROVE  /\ Readable(c) \in Seq(Packet)
         /\ \E n \in 0 .. Len(input[c]) : Readable(c) = SubSeq(input[c], 1, n)
<1>1. input[c] \in Seq(Packet) /\ flushed[c] \in Nat /\ emitted[c] \in Nat
      /\ flushed[c] <= emitted[c] /\ emitted[c] <= Len(input[c])
  BY DEF CallerInv, SwitchServes, PollTypeOK
<1>2. CASE torn[c]
  <2>1. Readable(c) = <<>>
    BY <1>2 DEF Readable
  <2>2. <<>> = SubSeq(input[c], 1, 0) /\ 0 \in 0 .. Len(input[c])
    BY <1>1
  <2> QED BY <2>1, <2>2
<1>3. CASE ~ torn[c]
  <2>1. Readable(c) = SubSeq(input[c], 1, flushed[c]) /\ flushed[c] \in 0 .. Len(input[c])
    BY <1>1, <1>3 DEF Readable
  <2>2. SubSeq(input[c], 1, flushed[c]) \in Seq(Packet)
    BY <1>1, <2>1
  <2> QED BY <2>1, <2>2
<1> QED BY <1>2, <1>3

LEMMA PollTypeNext ==
  ASSUME PollInv, [Next]_vars
  PROVE  PollTypeOK'
<1> USE DEF PollTypeOK
<1>0. PollTypeOK /\ \A c \in Callers : CallerInv(c)
  BY DEF PollInv
<1>1. ASSUME NEW c \in Callers, Acquire(c)
      PROVE  PollTypeOK'
  BY <1>0, <1>1 DEF Acquire, switch
<1>2. ASSUME NEW c \in Callers, Spawn(c)
      PROVE  PollTypeOK'
  <2>1. Input(c) \in Seq(Packet)
    BY <1>0, <1>2, InputBeginsWithChunk DEF Spawn
  <2>2. /\ input' \in [Callers -> Seq(Packet)] /\ pkts' \in [Callers -> Seq(Packet)]
        /\ lock' = lock /\ out' = out
    <3> DEFINE given == Input(c)
               P == Seq(Packet)
    <3>1. /\ input' = [input EXCEPT ![c] = given] /\ pkts' = [pkts EXCEPT ![c] = <<>>]
          /\ lock' = lock /\ out' = out
      BY <1>2 DEF Spawn
    <3>2. input \in [Callers -> P] /\ pkts \in [Callers -> P] /\ given \in P
      BY <1>0, <2>1
    <3>3. <<>> \in P
      OBVIOUS
    <3> HIDE DEF given, P, PollTypeOK
    <3>4. input' \in [Callers -> P] /\ pkts' \in [Callers -> P]
      BY <3>1, <3>2, <3>3
    <3> QED BY <3>1, <3>4 DEF P
  <2>3. /\ emitted' \in [Callers -> Nat] /\ seen' \in [Callers -> Nat]
        /\ age' \in [Callers -> Nat] /\ idle' \in [Callers -> Nat]
    <3>1. /\ emitted' = [emitted EXCEPT ![c] = 0] /\ seen' = [seen EXCEPT ![c] = 0]
          /\ age' = [age EXCEPT ![c] = 0] /\ idle' = [idle EXCEPT ![c] = 0]
      BY <1>2 DEF Spawn
    <3>2. /\ emitted \in [Callers -> Nat] /\ seen \in [Callers -> Nat]
          /\ age \in [Callers -> Nat] /\ idle \in [Callers -> Nat]
      BY <1>0
    <3> HIDE DEF PollTypeOK
    <3> QED BY <3>1, <3>2
  <2>4. /\ flushed' \in [Callers -> Nat] /\ torn' \in [Callers -> BOOLEAN]
    BY <1>0, <1>2 DEF Spawn, CaptureRemoved
  <2>5. at' \in [Callers -> {"start", "chunk", "poll", "look", "wait", "done", "failed"}]
    BY <1>0, <1>2 DEF Spawn
  <2>6. child' \in [Callers -> {"none", "running", "killed", "zombie"}]
    BY <1>0, <1>2 DEF Spawn
  <2> QED BY <1>0, <2>2, <2>3, <2>4, <2>5, <2>6
<1>3. ASSUME NEW c \in Callers, Read(c)
      PROVE  PollTypeOK'
  <2>1. Readable(c) \in Seq(Packet) /\ Len(Readable(c)) \in Nat
    BY <1>0, <1>3, ReadableIsPrefix DEF Read, Polling
  <2>2. \/ /\ seen' = [seen EXCEPT ![c] = Len(Readable(c))]
           /\ idle' = [idle EXCEPT ![c] = 0]
        \/ seen' = seen /\ idle' = idle
    BY <1>3 DEF Read
  <2>3. seen' \in [Callers -> Nat] /\ idle' \in [Callers -> Nat]
    <3> DEFINE l == Len(Readable(c))
    <3>1. l \in Nat /\ seen \in [Callers -> Nat] /\ idle \in [Callers -> Nat]
      BY <1>0, <2>1
    <3>2. \/ seen' = [seen EXCEPT ![c] = l] /\ idle' = [idle EXCEPT ![c] = 0]
          \/ seen' = seen /\ idle' = idle
      BY <2>2
    <3> HIDE DEF l
    <3> QED BY <3>1, <3>2
  <2> QED BY <1>0, <1>3, <2>1, <2>3 DEF Read, switch
<1>4. ASSUME NEW c \in Callers, EndChunk(c), at[c] = "look"
      PROVE  PollTypeOK'
  <2>1. Decoded(c) \in Seq(Nat)
    BY <1>0, <1>4, DecodedBelongs
  <2>2. out[c] \o Decoded(c) \in Seq(Nat)
    BY <1>0, <2>1
  <2>3. out' \in [Callers -> Seq(Nat)]
        /\ UNCHANGED <<lock, pkts, seen, age, idle, input, emitted, flushed, torn>>
    <3> DEFINE longer == out[c] \o Decoded(c)
               O == Seq(Nat)
    <3>1. out' = [out EXCEPT ![c] = longer]
          /\ UNCHANGED <<lock, pkts, seen, age, idle, input, emitted, flushed, torn>>
      BY <1>4 DEF EndChunk, Deliver
    <3>2. longer \in O /\ out \in [Callers -> O]
      BY <1>0, <2>2
    <3> HIDE DEF longer, O
    <3>3. out' \in [Callers -> O]
      BY <3>1, <3>2
    <3> QED BY <3>1, <3>3 DEF O
  <2>4. child' \in [Callers -> {"none", "running", "killed", "zombie"}]
    BY <1>0, <1>4 DEF EndChunk, Deliver, Kill
  <2>5. at' \in [Callers -> {"start", "chunk", "poll", "look", "wait", "done", "failed"}]
    BY <1>0, <1>4 DEF EndChunk
  <2> QED BY <1>0, <2>3, <2>4, <2>5
<1>5. ASSUME NEW c \in Callers, DecodeFails(c)
      PROVE  PollTypeOK'
  BY <1>0, <1>5 DEF DecodeFails, KillOnError, Kill
<1>6. ASSUME NEW c \in Callers, Pass(c)
      PROVE  age' \in [Callers -> Nat] /\ idle' \in [Callers -> Nat]
  <2>1. \A a \in Nat : Smaller(a + 1, HardCap + 1) \in Nat /\ Smaller(a + 1, Stall + 1) \in Nat
    BY SizesAssumption DEF Smaller
  <2> QED BY <1>0, <1>6, <2>1 DEF Pass
<1>7. ASSUME NEW c \in Callers, Sleep(c) \/ Starve(c)
      PROVE  PollTypeOK'
  <2>1. Pass(c) /\ UNCHANGED <<lock, out, pkts, seen, switch>>
    BY <1>7 DEF Sleep, Starve
  <2>2. at' \in [Callers -> {"start", "chunk", "poll", "look", "wait", "done", "failed"}]
    BY <1>0, <1>7 DEF Sleep, Starve
  <2> QED BY <1>0, <1>6, <2>1, <2>2 DEF switch
<1>8. ASSUME NEW c \in Callers, Finish(c)
      PROVE  PollTypeOK'
  BY <1>0, <1>8 DEF Finish, switch
<1>9. ASSUME NEW c \in Callers, Switch(c)
      PROVE  PollTypeOK'
  <2>1. CASE Forward(c)
    <3>1. emitted' = [emitted EXCEPT ![c] = @ + 1] /\ UNCHANGED <<lock, at, out, pkts, seen, age, idle, child, input, flushed, torn>>
      BY <2>1 DEF Forward, caller
    <3>2. emitted \in [Callers -> Nat]
      BY <1>0
    <3>3. emitted' \in [Callers -> Nat]
      <4> HIDE DEF PollTypeOK
      <4>1. emitted[c] + 1 \in Nat
        BY <3>2
      <4> QED BY <3>1, <3>2, <4>1
    <3> QED BY <1>0, <3>1, <3>3
  <2>2. CASE WritePart(c)
    BY <1>0, <2>2 DEF WritePart, caller
  <2>3. CASE WriteFrame(c)
    <3>1. /\ torn' = [torn EXCEPT ![c] = FALSE] /\ flushed' = [flushed EXCEPT ![c] = @ + 1]
          /\ UNCHANGED <<lock, at, out, pkts, seen, age, idle, child, input, emitted>>
      BY <2>3 DEF WriteFrame, caller
    <3>2. flushed \in [Callers -> Nat] /\ torn \in [Callers -> BOOLEAN]
      BY <1>0
    <3>3. flushed' \in [Callers -> Nat] /\ torn' \in [Callers -> BOOLEAN]
      <4> HIDE DEF PollTypeOK
      <4>1. flushed[c] + 1 \in Nat
        BY <3>2
      <4>2. flushed' \in [Callers -> Nat]
        BY <3>1, <3>2, <4>1
      <4> QED BY <3>1, <3>2, <4>2
    <3> QED BY <1>0, <3>1, <3>3
  <2>4. CASE Die(c)
    BY <1>0, <2>4 DEF Die, caller
  <2> QED BY <1>9, <2>1, <2>2, <2>3, <2>4 DEF Switch
<1>10. ASSUME NEW c \in Callers, Wait(c)
       PROVE  PollTypeOK'
  BY <1>0, <1>10 DEF Wait
<1>11. CASE UNCHANGED vars
  BY <1>0, <1>11 DEF vars
<1> HIDE DEF PollTypeOK
<1>12. ASSUME NEW c \in Callers, Poll(c)
       PROVE  PollTypeOK'
  BY <1>1, <1>2, <1>3, <1>4, <1>5, <1>7, <1>8, <1>10, <1>12 DEF Poll, AllThere, GiveUp
<1> QED BY <1>7, <1>9, <1>11, <1>12 DEF Next, Over

(***************************************************************************)
(* The invariant of one caller.                                            *)
(***************************************************************************)

LEMMA CallersInit == Init => \A c \in Callers : CallerInv(c)
<1> SUFFICES ASSUME Init, NEW c \in Callers
             PROVE  CallerInv(c)
  OBVIOUS
<1>1. at[c] = "start" /\ out[c] = <<>> /\ child[c] = "none"
  BY DEF Init
<1>2. Batch[c] \in Seq(Packet)
  BY BatchAssumption DEF Packet
<1>3. VerdictsOf(c)
  BY <1>1, <1>2 DEF VerdictsOf
<1> QED BY <1>1, <1>3 DEF CallerInv, LockHeld, Inside, SwitchServes, Polling, ReadIsPrefix

Untouched(c) ==
  /\ at'[c] = at[c] /\ out'[c] = out[c] /\ pkts'[c] = pkts[c]
  /\ child'[c] = child[c] /\ input'[c] = input[c] /\ emitted'[c] = emitted[c] /\ flushed'[c] = flushed[c]

\* A caller is not disturbed by what is not its own, but for the lock.
LEMMA UntouchedKeeps ==
  ASSUME NEW c \in Callers, CallerInv(c), Untouched(c), Inside(c) => lock' = lock
  PROVE  CallerInv(c)'
<1>1. LockHeld(c)'
  BY DEF CallerInv, LockHeld, Inside, Untouched
<1>2. Input(c)' = Input(c)
  BY DEF Input, Chunk, Untouched
<1>3. SwitchServes(c)'
  BY <1>2 DEF CallerInv, SwitchServes, Polling, Untouched
<1>4. ReadIsPrefix(c)' /\ VerdictsOf(c)'
  BY DEF CallerInv, ReadIsPrefix, VerdictsOf, Untouched
<1> QED BY <1>1, <1>3, <1>4 DEF CallerInv

\* No action touches what belongs to another caller than its own.
LEMMA OthersUntouched ==
  ASSUME PollTypeOK, NEW c \in Callers, Poll(c) \/ Starve(c) \/ Switch(c),
         NEW d \in Callers, d # c
  PROVE  Untouched(d)
<1> USE DEF PollTypeOK, Untouched
<1>1. CASE Acquire(c) \/ Finish(c)
  BY <1>1 DEF Acquire, Finish, switch
<1>2. CASE Spawn(c)
  BY <1>2 DEF Spawn, CaptureRemoved
<1>3. CASE Read(c)
  BY <1>3 DEF Read, switch
<1>4. CASE EndChunk(c) \/ Wait(c)
  BY <1>4 DEF EndChunk, Deliver, Kill, Wait
<1>5. CASE DecodeFails(c)
  BY <1>5 DEF DecodeFails, KillOnError, Kill
<1>6. CASE Sleep(c) \/ Starve(c)
  BY <1>6 DEF Sleep, Starve, switch
<1>7. CASE Switch(c)
  BY <1>7 DEF Switch, Forward, WritePart, WriteFrame, Die, caller
<1> HIDE DEF PollTypeOK, Untouched
<1> QED BY <1>1, <1>2, <1>3, <1>4, <1>5, <1>6, <1>7 DEF Poll, AllThere, GiveUp

\* The lock changes hands only when it is free, or by the caller that is in.
LEMMA LockOfOthersKept ==
  ASSUME PollInv, NEW c \in Callers, Poll(c) \/ Starve(c) \/ Switch(c),
         NEW d \in Callers, d # c, Inside(d)
  PROVE  lock' = lock
<1>1. lock = d /\ lock # Free
  BY FreeAssumption DEF PollInv, CallerInv, LockHeld
<1>2. ~ Inside(c)
  BY <1>1 DEF PollInv, CallerInv, LockHeld
<1>3. ~ Acquire(c) /\ ~ Finish(c) /\ ~ DecodeFails(c)
  BY <1>1, <1>2 DEF Acquire, Finish, DecodeFails, Inside
<1>4. CASE Poll(c)
  BY <1>3, <1>4 DEF Poll, Spawn, Read, AllThere, GiveUp, EndChunk, Deliver, Wait, Sleep
<1>5. CASE Starve(c) \/ Switch(c)
  BY <1>5 DEF Starve, Switch, Forward, WritePart, WriteFrame, Die, caller
<1> QED BY <1>4, <1>5

\* The end of a chunk adds one verdict per packet of the chunk.
LEMMA EndChunkBelongs ==
  ASSUME PollTypeOK, NEW c \in Callers, CallerInv(c), at[c] = "look", EndChunk(c)
  PROVE  VerdictsOf(c)'
<1> DEFINE o == out[c]
           d == Decoded(c)
           b == Batch[c]
<1>1. o \in Seq(Nat) /\ b \in Seq(Packet)
  BY BatchAssumption DEF PollTypeOK, Packet
<1>2. Len(o) < Len(b) /\ (\A i \in 1 .. Len(o) : o[i] \in {b[i], Lost})
  BY <1>1 DEF CallerInv, SwitchServes, Polling, VerdictsOf
<1>3. d \in Seq(Nat) /\ Len(d) = Len(Chunk(c)) /\ \A i \in 1 .. Len(d) : d[i] \in {Chunk(c)[i], Lost}
  BY DecodedBelongs
<1>4. Len(o) + Len(d) <= Len(b) /\ \A i \in 1 .. Len(d) : Chunk(c)[i] = b[Len(o) + i]
  BY <1>2, <1>3, ChunkIsNextPackets
<1>5. out'[c] = o \o d
  BY DEF EndChunk, Deliver, PollTypeOK
<1>6. \A i \in 1 .. Len(d) : d[i] \in {b[Len(o) + i], Lost}
  BY <1>3, <1>4
<1> HIDE DEF o, d, b
<1>7. /\ Len(o \o d) = Len(o) + Len(d)
      /\ DOMAIN (o \o d) = 1 .. Len(o) + Len(d)
      /\ \A i \in 1 .. Len(o) + Len(d) : (o \o d)[i] = IF i <= Len(o) THEN o[i] ELSE d[i - Len(o)]
  <2>1. o \in Seq(Nat) /\ d \in Seq(Nat)
    BY <1>1, <1>3
  <2>2. /\ o \o d \in Seq(Nat)
        /\ Len(o \o d) = Len(o) + Len(d)
        /\ \A i \in 1 .. Len(o) + Len(d) : (o \o d)[i] = IF i <= Len(o) THEN o[i] ELSE d[i - Len(o)]
    BY <2>1, ConcatProperties
  <2> QED BY <2>2
<1>8. ASSUME NEW i \in 1 .. Len(o) + Len(d)
      PROVE  (o \o d)[i] \in {b[i], Lost}
  <2>1. CASE i <= Len(o)
    BY <1>1, <1>2, <1>7, <2>1
  <2>2. CASE i > Len(o)
    <3>1. i - Len(o) \in 1 .. Len(d) /\ Len(o) + (i - Len(o)) = i
      BY <1>1, <1>3, <2>2
    <3> QED BY <1>1, <1>6, <1>7, <2>2, <3>1
  <2> QED BY <1>1, <2>1, <2>2
<1>9. Len(out'[c]) <= Len(b) /\ \A i \in DOMAIN out'[c] : out'[c][i] \in {b[i], Lost}
  BY <1>4, <1>5, <1>7, <1>8
<1> QED BY <1>9 DEF VerdictsOf, b

\* A step of a caller or of its switch keeps what holds of that caller.
LEMMA OwnStepKeeps ==
  ASSUME PollTypeOK, NEW c \in Callers, CallerInv(c), Poll(c) \/ Starve(c) \/ Switch(c)
  PROVE  CallerInv(c)'
<1>0. /\ LockHeld(c) /\ SwitchServes(c) /\ ReadIsPrefix(c) /\ VerdictsOf(c)
      /\ input[c] \in Seq(Packet) /\ Len(input[c]) \in Nat
      /\ emitted[c] \in Nat /\ flushed[c] \in Nat
  BY DEF CallerInv, PollTypeOK
<1>1. ASSUME out'[c] = out[c]
      PROVE  VerdictsOf(c)' /\ Input(c)' = Input(c) /\ Len(out'[c]) = Len(out[c])
  BY <1>0, <1>1 DEF VerdictsOf, Input, Chunk
<1>2. CASE Acquire(c)
  <2>1. out'[c] = out[c] /\ at[c] = "start" /\ at'[c] = "chunk" /\ lock' = c /\ child' = child
    BY <1>2 DEF Acquire, switch, PollTypeOK
  <2> QED BY <1>0, <1>1, <2>1 DEF CallerInv, LockHeld, Inside, SwitchServes, Polling, ReadIsPrefix
<1>3. CASE Spawn(c)
  <2>1. /\ at[c] = "chunk" /\ at'[c] = "poll" /\ lock' = lock /\ out' = out
        /\ Len(out[c]) < Len(Batch[c]) /\ input'[c] = Input(c) /\ child'[c] = "running"
        /\ emitted'[c] = 0 /\ flushed'[c] = 0
    BY <1>3 DEF Spawn, CaptureRemoved, PollTypeOK
  <2>2. Len(Input(c)) \in Nat
    BY <2>1, InputBeginsWithChunk
  <2> QED BY <1>0, <1>1, <2>1, <2>2 DEF CallerInv, LockHeld, Inside, SwitchServes, Polling, ReadIsPrefix
<1>4. CASE Read(c)
  <2>1. /\ at[c] = "poll" /\ at'[c] = "look" /\ lock' = lock /\ out' = out
        /\ child' = child /\ input' = input /\ emitted' = emitted /\ flushed' = flushed
        /\ pkts'[c] = Readable(c)
    BY <1>4 DEF Read, switch, PollTypeOK
  <2>2. \E n \in 0 .. Len(input[c]) : Readable(c) = SubSeq(input[c], 1, n)
    BY <2>1, ReadableIsPrefix DEF Polling
  <2>3. SwitchServes(c)'
    BY <1>0, <1>1, <2>1 DEF SwitchServes, Polling
  <2>4. ReadIsPrefix(c)'
    BY <2>1, <2>2 DEF ReadIsPrefix
  <2> QED BY <1>0, <1>1, <2>1, <2>3, <2>4 DEF CallerInv, LockHeld, Inside
<1>5. CASE EndChunk(c) /\ at[c] = "look"
  <2>1. at'[c] = "wait" /\ lock' = lock /\ child'[c] = "killed"
    BY <1>5 DEF EndChunk, Deliver, Kill, PollTypeOK
  <2>2. VerdictsOf(c)'
    BY <1>5, EndChunkBelongs
  <2> QED BY <1>0, <1>5, <2>1, <2>2 DEF CallerInv, LockHeld, Inside, SwitchServes, Polling, ReadIsPrefix
<1>6. CASE DecodeFails(c)
  <2>1. at'[c] = "failed" /\ child'[c] = "killed" /\ out' = out
    BY <1>6 DEF DecodeFails, KillOnError, Kill, PollTypeOK
  <2> QED BY <1>1, <2>1 DEF CallerInv, LockHeld, Inside, SwitchServes, Polling, ReadIsPrefix
<1>7. CASE Sleep(c) \/ Starve(c)
  <2>1. /\ Polling(c) /\ Polling(c)' /\ lock' = lock /\ out' = out /\ pkts' = pkts
        /\ child' = child /\ input' = input /\ emitted' = emitted /\ flushed' = flushed
        /\ at'[c] = at[c] \/ at'[c] = "poll"
    BY <1>7 DEF Sleep, Starve, switch, Polling, PollTypeOK
  <2>2. SwitchServes(c)'
    BY <1>0, <1>1, <2>1 DEF SwitchServes, Polling
  <2>3. ReadIsPrefix(c)' /\ LockHeld(c)'
    BY <1>0, <2>1 DEF ReadIsPrefix, LockHeld, Inside, Polling
  <2> QED BY <1>1, <2>1, <2>2, <2>3 DEF CallerInv
<1>8. CASE Finish(c)
  <2>1. at[c] = "chunk" /\ at'[c] = "done" /\ out' = out /\ child' = child
    BY <1>8 DEF Finish, switch, PollTypeOK
  <2> QED BY <1>0, <1>1, <2>1 DEF CallerInv, LockHeld, Inside, SwitchServes, Polling, ReadIsPrefix
<1>9. CASE Switch(c)
  <2>1. /\ at' = at /\ lock' = lock /\ out' = out /\ pkts' = pkts /\ input' = input
        /\ child'[c] = child[c] \/ (child[c] = "killed" /\ child'[c] = "zombie")
    BY <1>9 DEF Switch, Forward, WritePart, WriteFrame, Die, caller, PollTypeOK
  <2>2. Polling(c) => flushed'[c] <= emitted'[c] /\ emitted'[c] <= Len(input[c])
    <3>1. CASE Forward(c)
      BY <1>0, <3>1 DEF Forward, SwitchServes, PollTypeOK
    <3>2. CASE WritePart(c) \/ Die(c)
      BY <1>0, <3>2 DEF WritePart, Die, SwitchServes
    <3>3. CASE WriteFrame(c)
      BY <1>0, <3>3 DEF WriteFrame, SwitchServes, PollTypeOK
    <3> QED BY <1>9, <3>1, <3>2, <3>3 DEF Switch
  <2>3. SwitchServes(c)'
    BY <1>0, <1>1, <2>1, <2>2 DEF SwitchServes, Polling
  <2>4. ReadIsPrefix(c)' /\ LockHeld(c)'
    BY <1>0, <2>1 DEF ReadIsPrefix, LockHeld, Inside
  <2> QED BY <1>1, <2>1, <2>3, <2>4 DEF CallerInv
<1>10. CASE Wait(c)
  <2>1. /\ at[c] = "wait" /\ at'[c] = "chunk" /\ child'[c] = "none"
        /\ lock' = lock /\ out' = out
    BY <1>10 DEF Wait, PollTypeOK
  <2> QED BY <1>0, <1>1, <2>1 DEF CallerInv, LockHeld, Inside, SwitchServes, Polling, ReadIsPrefix
<1> QED BY <1>2, <1>3, <1>4, <1>5, <1>6, <1>7, <1>8, <1>9, <1>10 DEF Poll, AllThere, GiveUp

(***************************************************************************)
(* The theorems.                                                           *)
(***************************************************************************)

LEMMA PollInvNext == PollInv /\ [Next]_vars => PollInv'
<1> SUFFICES ASSUME PollInv, [Next]_vars
             PROVE  PollInv'
  OBVIOUS
<1>1. PollTypeOK'
  BY PollTypeNext
<1>2. ASSUME NEW d \in Callers
      PROVE  CallerInv(d)'
  <2>1. CASE UNCHANGED vars
    BY <2>1, UntouchedKeeps DEF PollInv, vars, Untouched
  <2>2. ASSUME NEW c \in Callers, Poll(c) \/ Starve(c) \/ Switch(c)
        PROVE  CallerInv(d)'
    <3>1. CASE d = c
      BY <2>2, <3>1, OwnStepKeeps DEF PollInv
    <3>2. CASE d # c
      BY <2>2, <3>2, OthersUntouched, LockOfOthersKept, UntouchedKeeps DEF PollInv
    <3> QED BY <3>1, <3>2
  <2> QED BY <2>1, <2>2 DEF Next, Over
<1> QED BY <1>1, <1>2 DEF PollInv

LEMMA PollInvariant == Spec => []PollInv
<1>1. Init => PollInv
  BY PollTypeInit, CallersInit DEF PollInv
<1> QED BY <1>1, PollInvNext, PTL DEF Spec

\* Every value has its type (the state of run_batch and of the switches).
THEOREM PollTyped == Spec => []PollTypeOK
<1>1. PollInv => PollTypeOK
  BY DEF PollInv
<1> QED BY <1>1, PollInvariant, PTL

\* Two switches are alive at once only when one is that of a failed batch,
\* killed and on its way out; one that has not been killed is the lock holder's,
\* and a batch that succeeds leaves no process behind (run_batch, run_chunk).
THEOREM SwitchIsAlone == Spec => []OneSwitchUnlessFailed
<1>1. PollInv => OneSwitchUnlessFailed
  <2> SUFFICES ASSUME PollInv
               PROVE  OneSwitchUnlessFailed
    OBVIOUS
  <2>1. \A c \in Callers : child[c] = "running" => lock = c
    BY DEF PollInv, CallerInv, SwitchServes, LockHeld, Inside, Polling
  <2>2. \A c \in Callers : at[c] = "done" => child[c] = "none"
    BY DEF PollInv, CallerInv, SwitchServes
  <2>3. ASSUME NEW c \in Callers, Alive(c)
        PROVE  lock = c \/ (at[c] = "failed" /\ child[c] = "killed")
    <3>1. at[c] \in {"poll", "look", "wait", "failed"}
      BY <2>3 DEF PollInv, CallerInv, SwitchServes, PollTypeOK, Alive
    <3>2. CASE at[c] = "failed"
      BY <2>3, <3>2 DEF PollInv, CallerInv, SwitchServes, Polling, Alive
    <3>3. CASE at[c] # "failed"
      BY <3>1, <3>3 DEF PollInv, CallerInv, LockHeld, Inside
    <3> QED BY <3>2, <3>3
  <2> QED BY <2>1, <2>2, <2>3 DEF OneSwitchUnlessFailed
<1> QED BY <1>1, PollInvariant, PTL

\* Whatever is torn, late, padded or given up on, a verdict stands at the place
\* of its own packet (decode_into, run_batch).
THEOREM VerdictsAligned == Spec => []VerdictsBelong
<1>1. PollInv => VerdictsBelong
  BY DEF PollInv, CallerInv, VerdictsOf, VerdictsBelong
<1> QED BY <1>1, PollInvariant, PTL
================================================================================
