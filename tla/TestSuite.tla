-------------------------------- MODULE TestSuite --------------------------------
(***************************************************************************)
(* The life of a test suite: a solver model is written as a vector         *)
(* (z3solver.rs, testgen.rs), the JSON may be edited, and two consumers    *)
(* read it: replay, which runs each vector again, and the pcap export that *)
(* feeds the backends (testvec.rs).  A packet is bytes and a bit length.   *)
(*                                                                         *)
(* What a run returns of a packet is a function of its bits (TwoRuns), and *)
(* is left open: different packets may have the same result.               *)
(***************************************************************************)
EXTENDS Integers, Sequences, SequencesExt, FiniteSets

CONSTANTS
  ByteBits,     \* bits per byte
  WordBits,     \* bits of a solver term
  MaxWidth,     \* bound: bits of a packet variable
  EditedWires,  \* what an edited vector may hold
  MaxVectors,   \* bound: vectors of the suite
  Result(_)     \* what a vector records of a run on these bits: reason, or headers

ASSUME SizesAssumption == {ByteBits, WordBits, MaxWidth, MaxVectors} \subseteq Nat \ {0}

VARIABLES
  stage,       \* "solve", "write", "edit", "replay", "export", "over"
  model,       \* the solver's model: the packet variable, its width, the bits used
  suite,       \* the vectors: [wire, expected]
  seen,        \* what replay ran for each vector
  mismatches,  \* the vectors replay has something to say of
  exported     \* suite_to_packets: [index, bytes] in order

suitevars == <<stage, model, suite, seen, mismatches, exported>>

Bytewise(n) == (n + ByteBits - 1) \div ByteBits  \* div_ceil(8)

(***************************************************************************)
(* Terms over the packet variable, a number of width bits, first bit high. *)
(***************************************************************************)
Extract(packet, width, off, len) == (packet \div 2^(width - off - len)) % 2^len

\* Mutant: the offset counts from the low end.
ExtractAtLow(packet, width, off, len) ==
  LET offset == IF width < WordBits THEN off % 2^width ELSE off
  IN  (packet \div 2^offset) % 2^len

\* The offset is widened or cut to the packet's width, and the shift wraps there.
ExtractAt(packet, width, off, len) ==
  LET offset == IF width < WordBits THEN off % 2^width ELSE off
  IN  (packet \div 2^((width - len - offset) % 2^width)) % 2^len

\* Mutant: the last byte keeps its bits low.
ModelPacketLow(m) ==
  [i \in 1 .. Bytewise(m.bits) |->
     LET first == ByteBits * (i - 1)
         n == IF m.bits - first < ByteBits THEN m.bits - first ELSE ByteBits
     IN  Extract(m.packet, m.width, first, n)]

\* The top bits of the model, byte by byte.
ModelPacket(m) ==
  [i \in 1 .. Bytewise(m.bits) |->
     LET first == ByteBits * (i - 1)
         n == IF m.bits - first < ByteBits THEN m.bits - first ELSE ByteBits
     IN  Extract(m.packet, m.width, first, n) * 2^(ByteBits - n)]

(***************************************************************************)
(* Bits and its wire form.                                                 *)
(***************************************************************************)
BitsOf(b) ==
  [k \in 1 .. b.len |->
     (b.bytes[(k - 1) \div ByteBits + 1] \div 2^(ByteBits - 1 - ((k - 1) % ByteBits))) % 2]

ToPb(b) == [kind |-> "hex", data |-> b.bytes, len |-> b.len]

\* Mutant: the bits past the end are left as they are.
FromPbUnmasked(wire) ==
  LET want == Bytewise(wire.len)
      data == IF wire.kind = "bad" THEN <<>> ELSE wire.data
  IN  [bits |-> [bytes |-> [k \in 1 .. want |-> IF k <= Len(data) THEN data[k] ELSE 0], len |-> wire.len],
       canonical |-> wire.kind # "bad" /\ Len(data) = want]

\* Pad, truncate, and zero the bits past the end; canonical is "no warnings".
FromPb(wire) ==
  LET want == Bytewise(wire.len)
      data == IF wire.kind = "bad" THEN <<>> ELSE wire.data
      sized == [k \in 1 .. want |-> IF k <= Len(data) THEN data[k] ELSE 0]
      pad == want * ByteBits - wire.len
      rest == IF pad > 0 THEN sized[want] % 2^pad ELSE 0
  IN  [bits |-> [bytes |-> IF pad > 0 THEN [sized EXCEPT ![want] = @ - rest] ELSE sized,
                 len |-> wire.len],
       canonical |-> wire.kind # "bad" /\ Len(data) = want /\ rest = 0]

(***************************************************************************)
(* Actions.                                                                *)
(***************************************************************************)
NoModel == [packet |-> 0, width |-> 1, bits |-> 0]

\* solve_witness: any model; a packet without bits has a dummy one.
SolveWitness ==
  /\ stage = "solve"
  /\ \E w \in 1 .. MaxWidth : \E p \in 0 .. 2^w - 1 : \E n \in 0 .. w :
       model' = [packet |-> p, width |-> w, bits |-> n]
  /\ stage' = "write"
  /\ UNCHANGED <<suite, seen, mismatches, exported>>

Witness == [bytes |-> ModelPacket(model), len |-> model.bits]

WriteVector ==
  /\ stage = "write"
  /\ suite' = Append(suite, [wire |-> ToPb(Witness), expected |-> Result(BitsOf(Witness))])
  /\ model' = NoModel
  /\ stage' \in (IF Len(suite) + 1 < MaxVectors THEN {"solve", "edit"} ELSE {"edit"})
  /\ UNCHANGED <<seen, mismatches, exported>>

\* The suite is a file: a vector may be edited, or lose its packet.
EditVector ==
  /\ stage = "edit"
  /\ \E i \in DOMAIN suite : \E wire \in EditedWires : suite' = [suite EXCEPT ![i].wire = wire]
  /\ stage' = "replay"
  /\ UNCHANGED <<model, seen, mismatches, exported>>

KeepSuite == stage = "edit" /\ stage' = "replay" /\ UNCHANGED <<model, suite, seen, mismatches, exported>>

Next1(s) == Len(s) + 1
Unseen == [bits |-> <<>>, ran |-> FALSE]

ReplayVector ==
  /\ stage = "replay" /\ Len(seen) < Len(suite)
  /\ LET i == Next1(seen)
         wire == suite[i].wire
         got == FromPb(wire)
     IN  IF wire.kind = "absent"
           THEN /\ seen' = Append(seen, Unseen)
                /\ mismatches' = mismatches \cup {i}
           ELSE /\ seen' = Append(seen, [bits |-> BitsOf(got.bits), ran |-> TRUE])
                /\ mismatches' = mismatches \cup
                     {j \in {i} : ~ got.canonical \/ Result(BitsOf(got.bits)) # suite[i].expected}
  /\ UNCHANGED <<stage, model, suite, exported>>

Replayed ==
  /\ stage = "replay" /\ Len(seen) = Len(suite)
  /\ stage' = "export"
  /\ UNCHANGED <<model, suite, seen, mismatches, exported>>

\* Mutant: the data as it is in the file.
ExportedData(wire) == wire.data

ExportedBytes(wire) == FromPb(wire).bits.bytes

\* The vectors of whole bytes, in order, with their indices.
SuiteToPackets ==
  /\ stage = "export"
  /\ LET whole == SelectSeq([i \in DOMAIN suite |-> i],
                            LAMBDA i : suite[i].wire.kind # "absent" /\ suite[i].wire.len % ByteBits = 0)
     IN  exported' = [j \in DOMAIN whole |->
                        [index |-> whole[j], bytes |-> ExportedBytes(suite[whole[j]].wire)]]
  /\ stage' = "over"
  /\ UNCHANGED <<model, suite, seen, mismatches>>

Over == stage = "over" /\ UNCHANGED suitevars

SuiteInit ==
  /\ stage = "solve" /\ model = NoModel
  /\ suite = <<>> /\ seen = <<>> /\ mismatches = {} /\ exported = <<>>

SuiteNext ==
  \/ SolveWitness \/ WriteVector \/ EditVector \/ KeepSuite
  \/ ReplayVector \/ Replayed \/ SuiteToPackets \/ Over

SuiteSpec == SuiteInit /\ [][SuiteNext]_suitevars

(***************************************************************************)
(* Properties.                                                             *)
(***************************************************************************)
PacketBits(m) == [k \in 1 .. m.width |-> (m.packet \div 2^(m.width - k)) % 2]
Value(bits) == FoldLeft(LAMBDA n, b : 2 * n + b, 0, bits)

\* A read that fits the packet variable is a read of the field's bits, at a
\* concrete and at a symbolic offset alike, in packets narrower and wider than
\* a term ("the shift (w-len)-off does not wrap", z3solver.rs:42-43).
TermsReadFields ==
  stage = "write" =>
    \A off \in 0 .. model.width - 1 : \A len \in 1 .. model.width - off :
      LET field == Value(SubSeq(PacketBits(model), off + 1, off + len))
      IN  /\ Extract(model.packet, model.width, off, len) = field
          /\ ExtractAt(model.packet, model.width, off, len) = field

\* The one wire form of a bit string: its bits, then zeros to the end of a byte.
Canonical(bits) ==
  LET padded == bits \o [k \in 1 .. ByteBits * Bytewise(Len(bits)) - Len(bits) |-> 0]
  IN  [kind |-> "hex", len |-> Len(bits),
       data |-> [i \in 1 .. Bytewise(Len(bits)) |->
                   Value(SubSeq(padded, ByteBits * (i - 1) + 1, ByteBits * i))]]

\* A witness is written in the wire form of exactly the top bits of the model
\* that the length says ("canonical form by construction", z3solver.rs:107).
WrittenIsCanonical ==
  stage = "write" => ToPb(Witness) = Canonical(SubSeq(PacketBits(model), 1, model.bits))

\* Replay is green for a vector exactly if its wire is the canonical form of
\* some packet with the expected result: an edit of bits no interpreter reads
\* is noticed, one that leaves the result and the form alone is not complained of.
ReplayIsExact ==
  \A i \in DOMAIN seen :
    i \notin mismatches <=>
      \E bits \in [1 .. suite[i].wire.len -> {0, 1}] :
        suite[i].wire = Canonical(bits) /\ Result(bits) = suite[i].expected

\* The backends are tested on the packets that were replayed: each exported
\* packet is the bits replay ran for the vector of its index, edited or not,
\* and the indices are those of the vectors of whole bytes, none lost.
BackendsSeeWhatWasReplayed ==
  stage = "over" =>
    /\ \A j \in DOMAIN exported :
         BitsOf([bytes |-> exported[j].bytes, len |-> ByteBits * Len(exported[j].bytes)])
           = seen[exported[j].index].bits
    /\ \A i \in DOMAIN suite : seen[i].ran /\ Len(seen[i].bits) % ByteBits = 0 =>
         Cardinality({j \in DOMAIN exported : exported[j].index = i}) = 1
==================================================================================
