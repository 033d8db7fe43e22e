-------------------------------- MODULE CParse --------------------------------
(***************************************************************************)
(* The parser generate_c emits (codegen/c.rs), as the C it is: one loop    *)
(* over depth, a switch over states, a result struct of plain integers     *)
(* that starts zeroed, and uint64_t arithmetic.                            *)
(***************************************************************************)
EXTENDS GivenIr, SequencesExt, FiniteSetsExt

CONSTANT Packets

VARIABLES
  packet,      \* buf with bit_len bits
  pc,          \* "head": the loop test; "body": a case; "returned"
  state,
  depth,
  ex, fld,     \* the extract and the field whose code runs next
  off,
  present,     \* the <instance>_present flags that are set
  members,     \* fixed-width members written so far, as bits
  spans,       \* <field>_bit_off and <field>_bit_len members written so far
  ret          \* outcome, reason code and consumed_bits

vars == <<ir, packet, pc, state, depth, ex, fld, off, present, members, spans, ret>>

UInt64(x) == x % 2^WordBits
BitLen == Len(packet)

(***************************************************************************)
(* What generation refuses, of descriptions that validate accepted (the    *)
(* command line generates no other).                                       *)
(***************************************************************************)
Complete(i, e) ==
  /\ i.exprs[e].op \notin {"empty", "unspecified"}
  /\ i.exprs[e].op \in BinOps => 0 \notin {i.exprs[e].l, i.exprs[e].r}

Generates(i) ==
  /\ \A e \in DOMAIN i.exprs : Complete(i, e)
  /\ \A s \in DOMAIN i.states :
       /\ i.states[s].trans.kind # "none"
       /\ \A x \in ToSet(i.states[s].extracts) :
            /\ x.type \in DOMAIN i.types
            /\ \A f \in ToSet(i.types[x.type]) : f.width # "none"
       /\ \A a \in ToSet(i.states[s].trans.arms) : a.next.kind \notin {"empty", "absent"}
       /\ i.states[s].trans.default.kind # "empty"

\* What the emitted C relies on of a description that validate accepted.
Resolves(i) ==
  /\ i.start \in DOMAIN i.states
  /\ \A s \in DOMAIN i.states : Successors(i.states[s].trans) \subseteq DOMAIN i.states
  /\ \A t \in DOMAIN i.types : \A f \in ToSet(i.types[t]) :
       f.width = "bits" => f.n \in 1 .. WordBits

ASSUME AcceptedAssumption == \A i \in Irs : Resolves(i)

\* No buffer is within one field of 2^WordBits bits: off + n does not wrap.
ASSUME BuffersAssumption ==
  /\ Packets \subseteq Seq(Bit)
  /\ \A p \in Packets : Len(p) + WordBits < 2^WordBits

(***************************************************************************)
(* Reject reasons: three built-in codes, then authored reasons from 16 on  *)
(* in the order of a sorted set (any order: only distinctness matters).    *)
(***************************************************************************)
BuiltIn == <<"out of bounds", "max depth exceeded", "no matching select arm">>
Authored(i) ==
  UNION {{t.to : t \in {u \in Targets(i.states[s].trans) : u.kind = "reject"}} :
         s \in DOMAIN i.states}
InSomeOrder(S) == FoldSet(LAMBDA r, rs : Append(rs, r), <<>>, S)
ReasonTable(i) ==
  LET own == InSomeOrder(Authored(i) \ ToSet(BuiltIn))
  IN  [c \in {1, 2, 3} \cup 16 .. 15 + Len(own) |-> IF c <= 3 THEN BuiltIn[c] ELSE own[c - 15]]
Code(reason) == CHOOSE c \in DOMAIN ReasonTable(ir) : ReasonTable(ir)[c] = reason

(***************************************************************************)
(* Expressions are C expressions over the struct.  Shifting by the word    *)
(* size or more is undefined: a variable count is masked by the machine, a *)
(* folded one gives 0.  CValues is the set of values the build may give.   *)
(***************************************************************************)
Member(key) == IF key \in DOMAIN members THEN Uint(members[key]) ELSE 0

\* Mutant: the casts to uint64_t are missing.
COpNarrow(op, x, y) == {Arith(op, x, y) % 2^(WordBits \div 2)}

COp(op, x, y) ==
  IF op \in {"shl", "shr"} /\ y >= WordBits THEN {Arith(op, x, y), 0} ELSE {Arith(op, x, y)}

CNode(x, val) ==
  CASE x.op = "const" -> {x.v}
    [] x.op = "field" -> {Member(<<x.h, x.f>>)}
    [] OTHER -> UNION {COp(x.op, p[1], p[2]) : p \in val[x.l] \X val[x.r]}

CValues(e) ==
  LET val[i \in 1 .. Len(ir.exprs)] == CNode(ir.exprs[i], val)
  IN  val[e]

(***************************************************************************)
(* The loop.                                                               *)
(***************************************************************************)
Return(outcome, reason) ==
  /\ pc' = "returned"
  /\ ret' = [outcome |-> outcome, reason |-> reason, consumed |-> off]
  /\ UNCHANGED <<ir, packet, state, depth, ex, fld, off, members, spans>>

Reject(reason) == Return("reject", Code(reason))

EnterCase ==
  /\ pc = "head"
  /\ depth < ir.max_depth
  /\ pc' = "body"
  /\ ex' = 1
  /\ fld' = 0
  /\ UNCHANGED <<ir, packet, state, depth, off, present, members, spans, ret>>

LoopEnds ==
  /\ pc = "head"
  /\ depth >= ir.max_depth
  /\ Reject("max depth exceeded")
  /\ UNCHANGED present

(***************************************************************************)
(* The straight-line code of a case: per extract, the presence flag and    *)
(* then each field.                                                        *)
(***************************************************************************)
Extracts == ir.states[state].extracts
X == Extracts[ex]
Fields == ir.types[X.type]
Fld == Fields[fld]
Key == <<Instance(X), Fld.name>>

AtFlag == pc = "body" /\ ex <= Len(Extracts) /\ fld = 0
AtField == pc = "body" /\ ex <= Len(Extracts) /\ fld \in 1 .. Len(Fields)

\* Mutant: the last field of a header is left out.
AdvanceEarly == IF fld + 1 < Len(Fields) THEN ex' = ex /\ fld' = fld + 1
                ELSE ex' = ex + 1 /\ fld' = 0

\* The statement after this one: the next field, the next extract's flag, or
\* the transition.
Advance == IF fld < Len(Fields) THEN ex' = ex /\ fld' = fld + 1
           ELSE ex' = ex + 1 /\ fld' = 0

SetPresent ==
  /\ AtFlag
  /\ present' = present \cup {Instance(X)}
  /\ Advance
  /\ UNCHANGED <<ir, packet, pc, state, depth, off, members, spans, ret>>

\* An assignment to a member of the struct.
Assign(struct, key, value) ==
  [k \in DOMAIN struct \cup {key} |-> IF k = key THEN value ELSE struct[k]]

ReadBits ==
  /\ AtField
  /\ Fld.width = "bits"
  /\ UNCHANGED present
  /\ IF UInt64(off + Fld.n) > BitLen THEN Reject("out of bounds")
     ELSE /\ members' = Assign(members, Key, SubSeq(packet, off + 1, off + Fld.n))
          /\ off' = UInt64(off + Fld.n)
          /\ Advance
          /\ UNCHANGED <<ir, packet, pc, state, depth, spans, ret>>

\* Mutant: the sum form of the bounds test, which wraps.
FitsInSum(vlen) == UInt64(off + vlen * ByteBits) <= BitLen

\* The division form of the bounds test: bit_len - off must not wrap.
Fits(vlen) == vlen <= UInt64(BitLen - off) \div ByteBits

ReadBytes ==
  /\ AtField
  /\ Fld.width = "bytes"
  /\ UNCHANGED present
  /\ \E vlen \in CValues(Fld.n) :
       IF ~ Fits(vlen) THEN Reject("out of bounds")
       ELSE /\ spans' = Assign(spans, Key, [off |-> off, len |-> UInt64(vlen * ByteBits)])
            /\ off' = UInt64(off + vlen * ByteBits)
            /\ Advance
            /\ UNCHANGED <<ir, packet, pc, state, depth, members, ret>>

(***************************************************************************)
(* The transition: an if-else chain over the keys.                         *)
(***************************************************************************)
Trans == ir.states[state].trans
AtTransition == pc = "body" /\ ex > Len(Extracts)

\* The values the key variables may have, one sequence per possibility.
KeyVectors == {ks \in [DOMAIN Trans.keys -> UNION {CValues(k) : k \in ToSet(Trans.keys)}] :
                 \A k \in DOMAIN Trans.keys : ks[k] \in CValues(Trans.keys[k])}

\* Mutant: the arms are ifs without else.
ChosenLast(ks) == LET hits == MatchingArms(Trans, ks)
                  IN  IF hits = {} THEN Trans.default ELSE Trans.arms[Max(hits)].next

Chosen(ks) == LET hits == MatchingArms(Trans, ks)
              IN  IF hits = {} THEN Trans.default ELSE Trans.arms[Min(hits)].next

Goto(target) ==
  CASE target.kind = "state" ->
         /\ state' = target.to
         /\ depth' = depth + 1
         /\ pc' = "head"
         /\ UNCHANGED <<ir, packet, ex, fld, off, members, spans, ret>>
    [] target.kind = "accept" -> Return("accept", 0)
    [] target.kind = "reject" -> Reject(target.to)
    [] OTHER -> Reject("no matching select arm")

TakeTransition ==
  /\ AtTransition
  /\ UNCHANGED present
  /\ IF Trans.kind = "direct" THEN Goto(Trans.default)
     ELSE \E ks \in KeyVectors : Goto(Chosen(ks))

(***************************************************************************)
(* The specification.                                                      *)
(***************************************************************************)
NotReturned == [outcome |-> "pending", reason |-> 0, consumed |-> 0]

Init ==
  /\ ir \in {i \in Irs : Generates(i)}
  /\ packet \in Packets
  /\ pc = "head"
  /\ state = ir.start
  /\ depth = 0
  /\ ex = 1
  /\ fld = 0
  /\ off = 0
  /\ present = {}
  /\ members = <<>>
  /\ spans = <<>>
  /\ ret = NotReturned

Step == EnterCase \/ LoopEnds \/ SetPresent \/ ReadBits \/ ReadBytes \/ TakeTransition
Returned == pc = "returned" /\ UNCHANGED vars
Next == Step \/ Returned

\* The emitted function runs to completion on its caller's thread.
Spec == Init /\ [][Next]_vars /\ WF_vars(Step)

(***************************************************************************)
(* Properties.                                                             *)
(***************************************************************************)

\* "off <= bit_len holds here" (codegen/c.rs:387-388): the unsigned
\* subtraction in the length test never wraps, so no length, wrapped or not,
\* moves the offset past the buffer; and the offsets handed to the caller for
\* variable-length fields lie within what was consumed.
OffsetsWithinBuffer ==
  /\ off <= BitLen
  /\ \A k \in DOMAIN spans : spans[k].off + spans[k].len <= off

\* Unless the packet was too short, an instance flagged present has every one
\* of its members written: the caller never reads the zeroes of the
\* initialiser as packet data (the flag is set before the fields are read).
PresentIsComplete ==
  ret.outcome # "pending" /\ ret.reason # 1 =>
    \A s \in DOMAIN ir.states : \A x \in ToSet(ir.states[s].extracts) :
      Instance(x) \in present =>
        \A f \in ToSet(ir.types[x.type]) :
          <<Instance(x), f.name>> \in DOMAIN members \cup DOMAIN spans

\* "u64 wrapping arithmetic matches reference semantics natively"
\* (codegen/c.rs:8): every length and key has one value, the reference's.
NativeArithmetic ==
  /\ AtField /\ Fld.width = "bytes" =>
       CValues(Fld.n) = {EvalExpr(ir, Fld.n, members)}
  /\ AtTransition => \A k \in DOMAIN Trans.keys :
       CValues(Trans.keys[k]) = {EvalExpr(ir, Trans.keys[k], members)}
=============================================================================
