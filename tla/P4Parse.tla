-------------------------------- MODULE P4Parse --------------------------------
(***************************************************************************)
(* The P4 program generate_p4 emits, as BMv2 runs it: the parser, and the  *)
(* verdict its ingress computes.                                           *)
(*                                                                         *)
(* A header instance is a struct member per segment of its type: the runs  *)
(* of fixed-width fields, and each variable-length field for itself.  A    *)
(* segment is extracted whole or not at all.  The members of an instance   *)
(* that a cycle extracts are stacks; elements counts what they hold, and   *)
(* last keeps the values of the element extracted last.                    *)
(***************************************************************************)
EXTENDS IrAnalysis

VARIABLES
  frame,     \* the packet, whole bytes
  p4pc,      \* "idle"; "refused": no program; "state": entering p4state;
             \* "extract"; "done"
  p4state,
  todo,      \* the segments the state has still to extract
  offset,    \* bits extracted
  elements,  \* <<instance, segment>> -> elements extracted
  last,      \* <<instance, field>> -> its bits in hdr.<member>.last
  perr       \* smeta.parser_error

p4vars == <<frame, p4pc, p4state, todo, offset, elements, last, perr>>

NoError == 0
PacketTooShort == 1
P4NoMatch == 2
StackOutOfBounds == 3
HeaderTooShort == 4
InvalidArgument == 6

(***************************************************************************)
(* What generate_p4 lays out.                                              *)
(***************************************************************************)

\* A header type split at its variable-length fields: a sequence of segments,
\* each a sequence of fields.
Segments(fields) ==
  LET add(segs, f) ==
        IF f.width = "bits" /\ segs # <<>> /\ segs[Len(segs)][1].width = "bits"
          THEN [segs EXCEPT ![Len(segs)] = Append(@, f)]
          ELSE Append(segs, <<f>>)
  IN  FoldLeft(add, <<>>, fields)

TypeOf(inst) == (CHOOSE ex \in ToSet(InstanceOrder) : Instance(ex) = inst).type
SegmentsOf(inst) == Segments(ir.types[TypeOf(inst)])
Members == UNION {{<<Instance(ex), i>> : i \in DOMAIN SegmentsOf(Instance(ex))} : ex \in ToSet(InstanceOrder)}

StackedInstances == {Instance(ex) : ex \in UNION {ToSet(ir.states[s].extracts) : s \in CyclicStates}}

\* The elements of an instance's members; a plain header is overwritten.
Capacity(inst) == IF inst \in StackedInstances THEN ir.max_depth ELSE 1

VarbitMax(e) == ByteBits * ExprRange(e).hi

MaxInstances == 16
MaxVarbit == 65535

\* When a program is emitted: instances for the verdict's bitmap, a last
\* segment for each, bounded varbits, and every target and operand there.
GeneratesP4 ==
  /\ Len(InstanceOrder) <= MaxInstances
  /\ \A ex \in ToSet(InstanceOrder) : Instance(ex) # "verdict" /\ ir.types[ex.type] # <<>>
  /\ \A m \in Members : LET f == SegmentsOf(m[1])[m[2]][1]
                        IN  f.width = "bytes" => ExprRange(f.n) # NoRange /\ VarbitMax(f.n) <= MaxVarbit
  /\ \A s \in DOMAIN ir.states :
       \A t \in Targets(ir.states[s].trans) : t.kind \notin {"absent", "empty"}

SumOfBits(seg) == FoldLeft(LAMBDA n, f : n + f.n, 0, seg)

\* What p4c-bm2-ss compiles: headers of whole bytes, and a key in each select.
Compiles ==
  /\ \A m \in Members : LET seg == SegmentsOf(m[1])[m[2]]
                        IN  seg[1].width = "bits" => SumOfBits(seg) % ByteBits = 0
  /\ \A s \in DOMAIN ir.states : ir.states[s].trans.kind = "select" => ir.states[s].trans.keys # <<>>

(***************************************************************************)
(* Expressions, in bit<64>.                                                *)
(***************************************************************************)

\* The count of a shift is cast to bit<8>, four words' worth of bits.
P4Arith(op, x, y) ==
  IF op \in {"shl", "shr"}
    THEN IF y % (4 * WordBits) >= WordBits THEN 0 ELSE Arith(op, x, y % (4 * WordBits))
    ELSE Arith(op, x, y)

P4Value(e) ==
  LET val[i \in 0 .. Len(ir.exprs)] ==
        IF i = 0 THEN Unresolved
        ELSE LET x == ir.exprs[i]
             IN  CASE x.op = "const" -> x.v
                   [] x.op = "field" /\ <<x.h, x.f>> \in DOMAIN last -> Uint(last[<<x.h, x.f>>])
                   [] x.op \in BinOps /\ Unresolved \notin {val[x.l], val[x.r]} ->
                        P4Arith(x.op, val[x.l], val[x.r])
                   [] OTHER -> Unresolved
  IN  val[e]

\* (bit<32>)(64w8 * e): the length of a varbit, in half a word.
VarbitLen(e) == Arith("mul", ByteBits, P4Value(e)) % 2^(WordBits \div 2)

(***************************************************************************)
(* The parser.                                                             *)
(***************************************************************************)
SegmentsToExtract(s) ==
  FlattenSeq([k \in DOMAIN ir.states[s].extracts |->
    LET inst == Instance(ir.states[s].extracts[k])
    IN  [i \in DOMAIN SegmentsOf(inst) |-> <<inst, i>>]])

\* The parser stops with an error; what it extracted stays valid.
Stop(e) ==
  /\ p4pc' = "done"
  /\ perr' = e
  /\ UNCHANGED <<ir, frame, p4state, todo, offset, elements, last>>

EnterP4 ==
  /\ p4pc = "state"
  /\ todo' = SegmentsToExtract(p4state)
  /\ p4pc' = "extract"
  /\ UNCHANGED <<ir, frame, p4state, offset, elements, last, perr>>

Extraction == p4pc = "extract" /\ todo # <<>>
Member == Head(todo)
Seg == SegmentsOf(Member[1])[Member[2]]
IsVar == Seg[1].width = "bytes"
Length == IF IsVar THEN VarbitLen(Seg[1].n) ELSE SumOfBits(Seg)
StackFull == Member[1] \in StackedInstances /\ elements[Member] = Capacity(Member[1])
TooLong == IsVar /\ Length > VarbitMax(Seg[1].n)
PastEnd == offset + Length > Len(frame)

\* The fields of a fixed segment read at the offset.
FieldsRead ==
  LET start(j) == offset + SumOfBits(SubSeq(Seg, 1, j - 1))
  IN  [p \in {<<Member[1], Seg[j].name>> : j \in DOMAIN Seg} |->
         LET j == CHOOSE k \in DOMAIN Seg : Seg[k].name = p[2]
         IN  SubSeq(frame, start(j) + 1, start(j) + Seg[j].n)]

\* Mutant: references go to element [0].
LastReadFirst == IF IsVar THEN last ELSE last @@ FieldsRead

LastRead == IF IsVar THEN last ELSE FieldsRead @@ last

ExtractSegment ==
  /\ Extraction /\ ~ StackFull /\ ~ TooLong /\ ~ PastEnd
  /\ elements' = [elements EXCEPT ![Member] =
                    IF Member[1] \in StackedInstances THEN @ + 1 ELSE 1]
  /\ last' = LastRead
  /\ offset' = offset + Length
  /\ todo' = Tail(todo)
  /\ UNCHANGED <<ir, frame, p4pc, p4state, perr>>

StackOverflows == Extraction /\ StackFull /\ Stop(StackOutOfBounds)

\* A length beyond the varbit's bound; targets differ in the error they raise.
VarbitOverflows ==
  Extraction /\ ~ StackFull /\ TooLong /\ \E e \in {HeaderTooShort, InvalidArgument} : Stop(e)

\* Whether the bound or the end of the packet is looked at first is the target's.
ExtractTooShort == Extraction /\ ~ StackFull /\ PastEnd /\ Stop(PacketTooShort)

\* An entry without a kind is emitted as default.
EntryMatches(entry, key) == entry.kind = "none" \/ EvalEntry(entry, key)

P4Trans == ir.states[p4state].trans
P4ArmMatches(arm) ==
  \A k \in DOMAIN arm.entries : EntryMatches(arm.entries[k], P4Value(P4Trans.keys[k]))
P4Arms == {i \in DOMAIN P4Trans.arms : P4ArmMatches(P4Trans.arms[i])}

\* st__reject verifies false; a select's reject default is left out, and BMv2
\* stops there with or without the error the language asks for.
GoTo(target, omitted) ==
  CASE target.kind = "state" ->
         /\ p4pc' = "state" /\ p4state' = target.to
         /\ UNCHANGED <<ir, frame, todo, offset, elements, last, perr>>
    [] target.kind = "accept" -> Stop(NoError)
    [] OTHER -> \E e \in (IF omitted THEN {NoError} ELSE {}) \cup {P4NoMatch} : Stop(e)

TransitionP4 ==
  /\ p4pc = "extract" /\ todo = <<>>
  /\ IF P4Trans.kind = "select" /\ P4Arms # {}
       THEN GoTo(P4Trans.arms[Min(P4Arms)].next, FALSE)
       ELSE GoTo(P4Trans.default, P4Trans.kind = "select")

(***************************************************************************)
(* The verdict: per instance, whether its last segment is valid - of a     *)
(* stack, in its first element - and the parser error.                     *)
(***************************************************************************)

ValidInstances ==
  {Instance(ex) : ex \in {x \in ToSet(InstanceOrder) :
     elements[<<Instance(x), Len(SegmentsOf(Instance(x)))>>] > 0}}

P4Init ==
  /\ frame = <<>>
  /\ p4pc = "idle" /\ p4state = ir.start
  /\ todo = <<>> /\ offset = 0
  /\ elements = [m \in Members |-> 0]
  /\ last = <<>>
  /\ perr = NoError

HasP4 == GeneratesP4 /\ Compiles

\* A description without a program is not sent anything.
P4Receives(bits) ==
  /\ p4pc = "idle"
  /\ p4pc' = IF HasP4 THEN "state" ELSE "refused"
  /\ frame' = bits
  /\ UNCHANGED <<p4state, todo, offset, elements, last, perr>>

P4Step ==
  \/ EnterP4 \/ ExtractSegment \/ StackOverflows \/ VarbitOverflows \/ ExtractTooShort
  \/ TransitionP4
================================================================================
