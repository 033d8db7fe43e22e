------------------------------- MODULE LuaDissect -------------------------------
(***************************************************************************)
(* The Wireshark dissector generate_lua emits, as Lua runs it on a frame.  *)
(*                                                                         *)
(* A state is a function of the bit cursor and the depth; the values a     *)
(* reference may name are locals of the function that extracted them.      *)
(* Numbers are Lua's: signed, and taken as exact here.  bit32 knows half   *)
(* of the interpreter's word.                                              *)
(***************************************************************************)
EXTENDS LuaAlign

VARIABLES
  buf,      \* the frame, whole bytes
  luapc,    \* "idle"; "refused": no dissector; "call": at the head of luastate;
            \* "fields"; "done"
  luastate,
  fields,   \* the fields the function has still to dissect
  off,      \* the bit cursor
  calls,    \* depth
  locals,   \* <<instance, field>> -> value, of the function running
  tree,     \* the subtrees and fields added, in order
  expert    \* the verdict: the expert info and where it is attached

luavars == <<buf, luapc, luastate, fields, off, calls, locals, tree, expert>>

Bit32 == 2^(WordBits \div 2)
Exactness == 2^((53 * WordBits) \div 64)  \* the bound on constants
Nowhere == "-"
NoExpert == [outcome |-> "running", reason |-> Nowhere, instance |-> Nowhere, field |-> Nowhere]

(***************************************************************************)
(* The loud caps: what generate_lua refuses.                               *)
(***************************************************************************)
\* The nodes of an expression, and of those a parser evaluates.
NodesOf(e) ==
  LET under[i \in 0 .. Len(ir.exprs)] ==
        IF i = 0 \/ ir.exprs[i].op \notin BinOps THEN {i}
        ELSE {i} \cup under[ir.exprs[i].l] \cup under[ir.exprs[i].r]
  IN  under[e]
LengthsOf(t) == {f.n : f \in {g \in ToSet(ir.types[t]) : g.width = "bytes"}}
KeysOfState(s) == ToSet(ir.states[s].trans.keys)
RefsIn(es) == {<<ir.exprs[i].h, ir.exprs[i].f>> : i \in {j \in UNION {NodesOf(e) : e \in es} :
                                                         ir.exprs[j].op = "field"}}
Evaluated == UNION {LengthsOf(t) : t \in DOMAIN ir.types} \cup UNION {KeysOfState(s) : s \in DOMAIN ir.states}
Referenced == RefsIn(Evaluated)

\* The first field of that name among those of a state.
PositionOf(fs, inst, name) == Min({j \in DOMAIN fs : fs[j].instance = inst /\ fs[j].field.name = name})

\* Mutant: the state is taken to be entered on a byte boundary.
FieldAlignmentInState(s, inst, name) ==
  BitsBefore(FieldsOf(s), PositionOf(FieldsOf(s), inst, name)) % ByteBits

\* field_alignment.
FieldAlignment(s, inst, name) ==
  IF s \notin DOMAIN align \/ align[s] = Conflict THEN Conflict
  ELSE (align[s] + BitsBefore(FieldsOf(s), PositionOf(FieldsOf(s), inst, name))) % ByteBits

\* key_bit_width of a plain field, by the first extraction of its instance.
KeyFits(e) ==
  /\ ir.exprs[e].op = "field"
  /\ \A f \in FixedFields(ir.exprs[e].h, ir.exprs[e].f) : 2^f.n <= Bit32
  /\ FixedFields(ir.exprs[e].h, ir.exprs[e].f) # {}

GeneratesLua ==
  /\ \A s \in DOMAIN ir.states : \A k \in DOMAIN FieldsOf(s) :
       LET x == FieldsOf(s)[k]
       IN  IF x.field.width = "bits"
             THEN <<x.instance, x.field.name>> \in Referenced => 2^x.field.n <= Bit32
             ELSE FieldAlignment(s, x.instance, x.field.name) = 0
  /\ \A e \in Evaluated : \A i \in NodesOf(e) : ir.exprs[i].op = "const" => ir.exprs[i].v <= Exactness
  /\ \A s \in DOMAIN ir.states : LET t == ir.states[s].trans IN
       /\ \A i \in DOMAIN t.arms : \A k \in DOMAIN t.arms[i].entries :
            t.arms[i].entries[k].kind = "masked" => KeyFits(t.keys[k])
       /\ t.kind # "none"
       /\ \A i \in DOMAIN t.arms : t.arms[i].next.kind # "absent"
       /\ \A u \in Targets(t) : u.kind # "empty"

\* What Lua loads: no condition is empty.
Loads == \A s \in DOMAIN ir.states : \A i \in DOMAIN ir.states[s].trans.arms :
           ir.states[s].trans.arms[i].entries # <<>>

(***************************************************************************)
(* Numbers.                                                                *)
(***************************************************************************)
LuaArith(op, x, y) ==
  CASE op = "add" -> x + y
    [] op = "sub" -> x - y
    [] op = "mul" -> x * y
    [] op = "shl" -> x * 2^y
    [] op = "shr" -> x \div 2^y
    [] op = "and" -> BitwiseAnd(x % Bit32, y % Bit32)
    [] op = "or"  -> BitwiseOr(x % Bit32, y % Bit32)

\* A reference that is no local of the function is the global nil.
Unbound(e) == RefsIn({e}) \ DOMAIN locals # {}

LuaValue(e) ==
  LET val[i \in 1 .. Len(ir.exprs)] ==
        LET x == ir.exprs[i]
        IN  CASE x.op = "const" -> x.v
              [] x.op = "field" -> locals[<<x.h, x.f>>]
              [] OTHER -> LuaArith(x.op, val[x.l], val[x.r])
  IN  val[e]

\* A condition of an arm: "true", "false", or "raise" - arithmetic, an order
\* or bit32 on nil.
Holds(b) == IF b THEN "true" ELSE "false"
EntryLua(entry, e) ==
  CASE entry.kind = "none" -> "false"
    [] Unbound(e) -> IF entry.kind = "value" /\ ir.exprs[e].op = "field" THEN "false" ELSE "raise"
    [] entry.kind = "value" -> Holds(LuaValue(e) = entry.a)
    [] entry.kind = "masked" ->
         Holds(LuaArith("and", LuaValue(e), entry.b) = BitwiseAnd(entry.a, entry.b))
    [] OTHER -> Holds(entry.a <= LuaValue(e) /\ LuaValue(e) <= entry.b)

\* The conjuncts are looked at until one is not true.
ArmLua(arm, keys) ==
  LET is(k) == EntryLua(arm.entries[k], keys[k])
      stops == {k \in DOMAIN arm.entries : is(k) # "true"}
  IN  IF stops = {} THEN "true" ELSE is(Min(stops))

(***************************************************************************)
(* The state functions.                                                    *)
(***************************************************************************)
Verdict(outcome, reason, inst, field) ==
  /\ luapc' = "done"
  /\ expert' = [outcome |-> outcome, reason |-> reason, instance |-> inst, field |-> field]
  /\ UNCHANGED <<ir, buf, luastate, fields, off, locals, tree>>

Raise == Verdict("raised", Nowhere, Nowhere, Nowhere) /\ UNCHANGED calls

\* The locals are those of the call.
Call ==
  /\ luapc = "call"
  /\ calls < ir.max_depth
  /\ calls' = calls + 1
  /\ luapc' = "fields"
  /\ locals' = <<>>
  /\ fields' = FieldsOf(luastate)
  /\ UNCHANGED <<ir, buf, luastate, off, tree, expert>>

CallTooDeep ==
  /\ luapc = "call"
  /\ calls >= ir.max_depth
  /\ calls' = calls + 1
  /\ Verdict("error", "max depth exceeded", Nowhere, Nowhere)

Dissecting == luapc = "fields" /\ fields # <<>>
This == Head(fields)
Key == <<This.instance, This.field.name>>
Variable == This.field.width = "bytes"
LuaLen == IF Variable THEN LuaValue(This.field.n) ELSE 0

\* Mutant: the sign is not looked at.
FitsUnsigned == IF Variable THEN off + LuaLen * ByteBits <= Len(buf) ELSE off + This.field.n <= Len(buf)

Fits ==
  IF Variable THEN LuaLen >= 0 /\ off + LuaLen * ByteBits <= Len(buf)
  ELSE off + This.field.n <= Len(buf)

Computable == Variable => ~ Unbound(This.field.n)
Extent == IF Variable THEN LuaLen * ByteBits ELSE This.field.n

\* buf(math.floor(off / 8), len) for a body, bitfield(off, n) for a number.
FirstBit == IF Variable THEN off - (off % ByteBits) ELSE off
Covered == SubSeq(buf, FirstBit + 1, FirstBit + Extent)

LocalsNow == IF Variable THEN locals ELSE (Key :> Uint(Covered)) @@ locals

\* An empty body is not added.
AddField ==
  /\ Dissecting /\ Computable /\ Fits
  /\ locals' = LocalsNow
  /\ tree' = IF Extent > 0 THEN Append(tree, [key |-> Key, bits |-> Covered]) ELSE tree
  /\ off' = off + Extent
  /\ fields' = Tail(fields)
  /\ UNCHANGED <<ir, buf, luapc, luastate, calls, expert>>

FieldOutside ==
  /\ Dissecting /\ Computable /\ ~ Fits
  /\ Verdict("error", "out of bounds", This.instance, This.field.name) /\ UNCHANGED calls

LengthRaises == Dissecting /\ ~ Computable /\ Raise

LuaTrans == ir.states[luastate].trans
Leave(target) ==
  CASE target.kind = "state" ->
         /\ luapc' = "call" /\ luastate' = target.to
         /\ UNCHANGED <<ir, buf, fields, off, calls, locals, tree, expert>>
    [] target.kind = "accept" -> Verdict("accept", Nowhere, Nowhere, Nowhere) /\ UNCHANGED calls
    [] target.kind = "reject" ->
         Verdict(IF target.info THEN "info" ELSE "error", target.to, Nowhere, Nowhere) /\ UNCHANGED calls
    [] OTHER -> Verdict("error", "no matching select arm", Nowhere, Nowhere) /\ UNCHANGED calls

\* The first arm whose condition is not false.
Reached == {i \in DOMAIN LuaTrans.arms : ArmLua(LuaTrans.arms[i], LuaTrans.keys) # "false"}

Elseif ==
  /\ luapc = "fields" /\ fields = <<>> /\ Reached # {}
  /\ IF ArmLua(LuaTrans.arms[Min(Reached)], LuaTrans.keys) = "true"
       THEN Leave(LuaTrans.arms[Min(Reached)].next)
       ELSE Raise

Else == luapc = "fields" /\ fields = <<>> /\ Reached = {} /\ Leave(LuaTrans.default)

LuaInit ==
  /\ AInit
  /\ buf = <<>>
  /\ luapc = "idle" /\ luastate = ir.start /\ fields = <<>>
  /\ off = 0 /\ calls = 0 /\ locals = <<>> /\ tree = <<>> /\ expert = NoExpert

HasLua == GeneratesLua /\ Loads

\* The caps are looked at when the alignments are known.
LuaReceives(bits) ==
  /\ work = <<>>
  /\ luapc = "idle"
  /\ luapc' = IF HasLua THEN "call" ELSE "refused"
  /\ buf' = bits
  /\ UNCHANGED <<luastate, fields, off, calls, locals, tree, expert, align, work>>

LuaStep ==
  /\ Call \/ CallTooDeep \/ AddField \/ FieldOutside \/ LengthRaises \/ Elseif \/ Else
  /\ UNCHANGED <<align, work>>
=================================================================================
