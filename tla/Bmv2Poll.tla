-------------------------------- MODULE Bmv2Poll --------------------------------
(***************************************************************************)
(* The bmv2 oracle's run_batch: batches of packets are run through a       *)
(* switch process, chunk by chunk, while the caller polls the capture the  *)
(* switch is writing.  The switch never exits and holds output back; it is *)
(* killed at the end of a chunk, and on the way out of a failed batch.     *)
(*                                                                         *)
(* Callers are the threads of one process (the test threads), each with a  *)
(* work directory of its own; a verdict stands for the packet it is about. *)
(***************************************************************************)
EXTENDS Integers, Sequences, FiniteSets

CONSTANTS
  Callers,
  Batch,        \* caller -> the packets it asks for
  ShortFrames,  \* packets whose output is no verdict (decode_verdict fails)
  ChunkSize,    \* CHUNK
  FlushPad,     \* FLUSH_PAD: copies of the last packet sent after a chunk
  Stall,        \* give up after this long without progress
  HardCap       \* and after this long in any case

ASSUME BatchAssumption == Batch \in [Callers -> Seq(Nat \ {0})]
ASSUME SizesAssumption ==
  /\ ChunkSize \in Nat \ {0} /\ FlushPad \in Nat
  /\ Stall \in Nat /\ HardCap \in Nat

VARIABLES
  lock,      \* SWITCH_LOCK
  at,        \* where a caller is in run_batch
  out,       \* the verdicts it has, Lost for a packet without one
  pkts,      \* what it read of the capture last
  seen,      \* the most frames it has read
  age, idle, \* time since the spawn, and since a read last grew (coarse)
  child,     \* the process of the switch it spawned: "none"; "running"; "killed",
             \* which is sent SIGKILL; "zombie", dead and not waited for
  input,     \* p0_in.pcap of the switch it spawned last
  emitted,   \* frames the switch has produced
  flushed,   \* frames that are complete in p1_out.pcap
  torn       \* whether a part of the next one is

vars == <<lock, at, out, pkts, seen, age, idle, child, input, emitted, flushed, torn>>
caller == <<lock, at, out, pkts, seen>>
switch == <<child, input, emitted, flushed, torn>>

Free == "free"
ASSUME FreeAssumption == Free \notin Callers

Lost == 0
Smaller(x, y) == IF x <= y THEN x ELSE y

\* The chunk a caller is at: the next ChunkSize packets without a verdict.
Chunk(c) == SubSeq(Batch[c], Len(out[c]) + 1, Smaller(Len(out[c]) + ChunkSize, Len(Batch[c])))
Last(s) == s[Len(s)]
Repeated(p, n) == [i \in 1 .. n |-> p]

(***************************************************************************)
(* The caller.                                                             *)
(***************************************************************************)

Acquire(c) ==
  /\ at[c] = "start"
  /\ lock = Free
  /\ lock' = c
  /\ at' = [at EXCEPT ![c] = "chunk"]
  /\ UNCHANGED <<out, pkts, seen, age, idle, switch>>

\* remove_dir_all, create_dir_all: the run directory is empty.
CaptureRemoved(c) ==
  /\ flushed' = [flushed EXCEPT ![c] = 0]
  /\ torn' = [torn EXCEPT ![c] = FALSE]

\* p0_in.pcap: the chunk, then copies of its last packet that make the switch
\* write the chunk's own frames.
Input(c) == Chunk(c) \o Repeated(Last(Chunk(c)), FlushPad)

Spawn(c) ==
  /\ at[c] = "chunk"
  /\ Len(out[c]) < Len(Batch[c])
  /\ CaptureRemoved(c)
  /\ child' = [child EXCEPT ![c] = "running"]
  /\ input' = [input EXCEPT ![c] = Input(c)]
  /\ emitted' = [emitted EXCEPT ![c] = 0]
  /\ pkts' = [pkts EXCEPT ![c] = <<>>]
  /\ seen' = [seen EXCEPT ![c] = 0]
  /\ age' = [age EXCEPT ![c] = 0]
  /\ idle' = [idle EXCEPT ![c] = 0]
  /\ at' = [at EXCEPT ![c] = "poll"]
  /\ UNCHANGED <<lock, out>>

\* read_packets fails on a record that ends early, and all of it is dropped.
Readable(c) == IF torn[c] THEN <<>> ELSE SubSeq(input[c], 1, flushed[c])

Read(c) ==
  /\ at[c] = "poll"
  /\ pkts' = [pkts EXCEPT ![c] = Readable(c)]
  /\ IF Len(Readable(c)) > seen[c]
       THEN seen' = [seen EXCEPT ![c] = Len(Readable(c))] /\ idle' = [idle EXCEPT ![c] = 0]
       ELSE UNCHANGED <<seen, idle>>
  /\ at' = [at EXCEPT ![c] = "look"]
  /\ UNCHANGED <<lock, out, age, switch>>

\* Mutant: the frames of the dummies are decoded too.
DecodedAll(c) == pkts[c] \o Repeated(Lost, Len(Chunk(c)) - Len(pkts[c]))

\* decode_into: the first n frames; what is missing stays undelivered, as
\* does everything from a frame on that is no verdict.
Decoded(c) ==
  [i \in 1 .. Len(Chunk(c)) |->
     IF i <= Len(pkts[c]) /\ \A j \in 1 .. i : pkts[c][j] \notin ShortFrames THEN pkts[c][i] ELSE Lost]

Complete(c) == Len(pkts[c]) >= Len(Chunk(c))

\* Mutant: the stall only counts once there was a frame.
GivesUpStarted(c) == idle[c] > Stall /\ seen[c] > 0

GivesUp(c) == age[c] > HardCap \/ idle[c] > Stall

\* child.kill(): the signal is sent, and nothing is waited for.
Kill(c) == child' = [child EXCEPT ![c] = "killed"]

\* The chunk's verdicts are there: all of them, or those of what was read last.
Deliver(c) ==
  /\ out' = [out EXCEPT ![c] = @ \o Decoded(c)]
  /\ Kill(c)
  /\ UNCHANGED <<lock, pkts, seen, age, idle, input, emitted, flushed, torn>>

\* Mutant: nobody waits for the child.
EndChunkUnwaited(c) == Deliver(c) /\ at' = [at EXCEPT ![c] = "chunk"]

EndChunk(c) == Deliver(c) /\ at' = [at EXCEPT ![c] = "wait"]

\* child.wait() returns when the child is dead, and reaps it.
Wait(c) ==
  /\ at[c] = "wait"
  /\ child[c] = "zombie"
  /\ child' = [child EXCEPT ![c] = "none"]
  /\ at' = [at EXCEPT ![c] = "chunk"]
  /\ UNCHANGED <<lock, out, pkts, seen, age, idle, input, emitted, flushed, torn>>

AllThere(c) ==
  /\ at[c] = "look"
  /\ Complete(c)
  /\ \A i \in 1 .. Len(Chunk(c)) : pkts[c][i] \notin ShortFrames
  /\ EndChunk(c)

\* Mutant: the switch is forgotten on this way out.
KillNot(c) == UNCHANGED child

\* The error ends the batch and frees the lock.  On this way out the switch is
\* killed and not waited for.
KillOnError(c) == Kill(c)

DecodeFails(c) ==
  /\ at[c] = "look"
  /\ Complete(c)
  /\ \E i \in 1 .. Len(Chunk(c)) : pkts[c][i] \in ShortFrames
  /\ KillOnError(c)
  /\ at' = [at EXCEPT ![c] = "failed"]
  /\ lock' = Free
  /\ UNCHANGED <<out, pkts, seen, age, idle, input, emitted, flushed, torn>>

GiveUp(c) ==
  /\ at[c] = "look"
  /\ ~ Complete(c)
  /\ GivesUp(c)
  /\ EndChunk(c)

\* Time is counted up to where it no longer matters.
Pass(c) ==
  /\ age' = [age EXCEPT ![c] = Smaller(@ + 1, HardCap + 1)]
  /\ idle' = [idle EXCEPT ![c] = Smaller(@ + 1, Stall + 1)]

Sleep(c) ==
  /\ at[c] = "look"
  /\ ~ Complete(c)
  /\ ~ GivesUp(c)
  /\ Pass(c)
  /\ at' = [at EXCEPT ![c] = "poll"]
  /\ UNCHANGED <<lock, out, pkts, seen, switch>>

\* The machine is busy: time passes between any two steps of the loop.
Starve(c) ==
  /\ at[c] \in {"poll", "look"}
  /\ age[c] <= HardCap
  /\ Pass(c)
  /\ UNCHANGED <<lock, at, out, pkts, seen, switch>>

Finish(c) ==
  /\ at[c] = "chunk"
  /\ Len(out[c]) = Len(Batch[c])
  /\ at' = [at EXCEPT ![c] = "done"]
  /\ lock' = Free
  /\ UNCHANGED <<out, pkts, seen, age, idle, switch>>

(***************************************************************************)
(* The switch: frames in input order; a write may stop inside a frame, and *)
(* any number of frames may stay in its buffer for good.  It goes on until *)
(* the signal reaches it.                                                  *)
(***************************************************************************)
Alive(c) == child[c] \in {"running", "killed"}

Forward(c) ==
  /\ Alive(c) /\ emitted[c] < Len(input[c])
  /\ emitted' = [emitted EXCEPT ![c] = @ + 1]
  /\ UNCHANGED <<caller, age, idle, child, input, flushed, torn>>

WritePart(c) ==
  /\ Alive(c) /\ flushed[c] < emitted[c] /\ ~ torn[c]
  /\ torn' = [torn EXCEPT ![c] = TRUE]
  /\ UNCHANGED <<caller, age, idle, child, input, emitted, flushed>>

WriteFrame(c) ==
  /\ Alive(c) /\ flushed[c] < emitted[c]
  /\ torn' = [torn EXCEPT ![c] = FALSE]
  /\ flushed' = [flushed EXCEPT ![c] = @ + 1]
  /\ UNCHANGED <<caller, age, idle, child, input, emitted>>

Die(c) ==
  /\ child[c] = "killed"
  /\ child' = [child EXCEPT ![c] = "zombie"]
  /\ UNCHANGED <<caller, age, idle, input, emitted, flushed, torn>>

(***************************************************************************)
(* The specification.                                                      *)
(***************************************************************************)
Init ==
  /\ lock = Free
  /\ at = [c \in Callers |-> "start"]
  /\ out = [c \in Callers |-> <<>>]
  /\ pkts = [c \in Callers |-> <<>>]
  /\ seen = [c \in Callers |-> 0]
  /\ age = [c \in Callers |-> 0]
  /\ idle = [c \in Callers |-> 0]
  /\ child = [c \in Callers |-> "none"]
  /\ input = [c \in Callers |-> <<>>]
  /\ emitted = [c \in Callers |-> 0]
  /\ flushed = [c \in Callers |-> 0]
  /\ torn = [c \in Callers |-> FALSE]

Poll(c) ==
  \/ Acquire(c) \/ Spawn(c) \/ Read(c) \/ AllThere(c) \/ DecodeFails(c)
  \/ GiveUp(c) \/ Wait(c) \/ Sleep(c) \/ Finish(c)
Switch(c) == Forward(c) \/ WritePart(c) \/ WriteFrame(c) \/ Die(c)
Over == (\A c \in Callers : at[c] \in {"done", "failed"}) /\ UNCHANGED vars

Next == (\E c \in Callers : Poll(c) \/ Starve(c) \/ Switch(c)) \/ Over

\* The callers run; all that is asked of a switch is that SIGKILL ends it.
Spec ==
  /\ Init /\ [][Next]_vars
  /\ \A c \in Callers : WF_vars(Poll(c)) /\ WF_vars(Die(c))

(***************************************************************************)
(* Properties.                                                             *)
(***************************************************************************)

\* A delivered verdict is the verdict of its own packet: whatever was torn,
\* late, padded or given up on in this chunk or in the ones before, results
\* stay aligned with the packets ("out[i] is packets[i]'s verdict").
VerdictsBelong ==
  \A c \in Callers :
    /\ Len(out[c]) <= Len(Batch[c])
    /\ \A i \in DOMAIN out[c] : out[c][i] \in {Batch[c][i], Lost}

\* "One switch at a time keeps the differential suite deterministic"
\* (bmv2.rs:69-70), as far as it goes.  Two switches are alive at once only when
\* one is that of a failed batch, killed and on its way out; one that has not
\* been killed is the lock holder's; and a batch that succeeds leaves no process
\* behind, not even a dead one.
OneSwitchUnlessFailed ==
  /\ \A c, d \in Callers :
       c # d /\ Alive(c) /\ Alive(d) => \E e \in {c, d} : at[e] = "failed" /\ child[e] = "killed"
  /\ \A c \in Callers : child[c] = "running" => lock = c
  /\ \A c \in Callers : at[c] = "done" => child[c] = "none"

\* The switch "never exits under --use-files" (bmv2.rs:138), so on every way
\* out, give-ups and failures included, somebody has to end it: none is left
\* running, whatever it was doing.
EverySwitchEnds == \A c \in Callers : child[c] = "running" ~> ~ Alive(c)

\* run_batch returns, though a switch may produce nothing, stop anywhere or be
\* starved: every wait is bounded.
BatchReturns == \A c \in Callers : <>(at[c] \in {"done", "failed"})
====================================================================================
