-------------------------------- MODULE BpfEntry --------------------------------
(***************************************************************************)
(* The eBPF variant generate_bpf emits: pk_entry reads the bit length from *)
(* the head of its memory, calls the same core as the portable C, and      *)
(* packs the verdict into the one word it can return.                      *)
(***************************************************************************)
EXTENDS CParse

CONSTANTS
  ReturnBits,  \* bits of the word pk_entry returns, apart from WordBits so that
               \* lanes can be tried that hold more than expressions need: 64
  LaneBits     \* bits of the outcome, and of the reason, in that word: 8

ASSUME LaneAssumption ==
  /\ ReturnBits \in Nat /\ LaneBits \in Nat
  /\ 2 * LaneBits < ReturnBits

VARIABLES
  mem,   \* the length, low byte first, and the packet behind it
  word   \* what pk_entry returned, or NoWord

bpfvars == <<vars, mem, word>>
NoWord == -1
ReturnWord(x) == x % 2^ReturnBits
ReturnOr(x, y) ==
  SumFunction([i \in 0 .. ReturnBits - 1 |-> Either(BitOf(x, i), BitOf(y, i)) * 2^i])

\* The harness: eight bytes of bit length, then the packet.
Framed(bits) ==
  [length |-> [i \in 1 .. ReturnBits \div ByteBits |-> (Len(bits) \div 2^(ByteBits * (i - 1))) % 2^ByteBits],
   packet |-> bits]

\* bit_len |= (uint64_t)m[i] << (8 * i)
ReadLength(bytes) ==
  FoldLeft(ReturnOr, 0, [i \in DOMAIN bytes |-> bytes[i] * 2^(ByteBits * (i - 1))])

BpfInit ==
  /\ mem \in {Framed(bits) : bits \in Packets}
  /\ packet = SubSeq(mem.packet, 1, ReadLength(mem.length))
  /\ Init
  /\ word = NoWord

ParseCore == Step /\ UNCHANGED <<mem, word>>

OutcomeCode(outcome) == IF outcome = "accept" THEN 0 ELSE 1
OutcomeShift == ReturnBits - LaneBits
ReasonShift == ReturnBits - 2 * LaneBits

\* Mutant: the reason's lane is counted from the outcome's end.
PackShifted(r) ==
  ReturnOr(ReturnWord(OutcomeCode(r.outcome) * 2^OutcomeShift),
            ReturnOr(ReturnWord(r.reason * 2^(OutcomeShift + 1 - LaneBits)), r.consumed % 2^ReasonShift))

\* (outcome << 56) | (reason << 48) | (consumed_bits & 0xFFFFFFFFFFFF)
Pack(r) ==
  ReturnOr(ReturnWord(OutcomeCode(r.outcome) * 2^OutcomeShift),
            ReturnOr(ReturnWord(r.reason * 2^ReasonShift), r.consumed % 2^ReasonShift))

PkEntry ==
  /\ pc = "returned" /\ word = NoWord
  /\ word' = Pack(ret)
  /\ UNCHANGED <<vars, mem>>

PkReturned == word # NoWord /\ UNCHANGED bpfvars

BpfNext == ParseCore \/ PkEntry \/ PkReturned

\* pk_entry runs to its return, as the core it calls does.
BpfSpec == BpfInit /\ [][BpfNext]_bpfvars /\ WF_bpfvars(ParseCore \/ PkEntry)

(***************************************************************************)
(* Properties.                                                             *)
(***************************************************************************)

\* "Returns outcome(8b) << 56 | reason(8b) << 48 | consumed_bits(48b)."
\* (c.rs:608): as long as the codes the reason table hands out, from 16 on,
\* end within the reason's lane, the caller takes the word apart again and has
\* the verdict of the core on the packet that was framed.  One reason more, and
\* the shifted code runs into the outcome.
VerdictUnpacksIfFew ==
  word # NoWord /\ Cardinality(Authored(ir) \ ToSet(BuiltIn)) + 15 < 2^LaneBits =>
    /\ packet = mem.packet
    /\ word \div 2^OutcomeShift = OutcomeCode(ret.outcome)
    /\ (word \div 2^ReasonShift) % 2^LaneBits = ret.reason
    /\ word % 2^ReasonShift = ret.consumed
=============================================================================
