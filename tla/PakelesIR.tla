------------------------------ MODULE PakelesIR ------------------------------
(***************************************************************************)
(* The serializable parser description (proto/pakeles/ir/v1alpha1) as the  *)
(* Rust code sees it, and the two pure evaluators every consumer shares:   *)
(* eval_expr and eval_entry.                                               *)
(*                                                                         *)
(* A parser is a record                                                    *)
(*   exprs      the nodes of all operator trees, operands before operators *)
(*              (an expression is the position of its root, 0 is "absent") *)
(*   types      header type name -> sequence of fields                     *)
(*   states     state name -> [extracts, trans]                            *)
(*   order      the state names in the order the description lists them    *)
(*   start      the start state's name                                     *)
(*   max_depth  how many states a parse may enter                          *)
(* Names are strings; both maps are the HashMaps the interpreter builds.   *)
(***************************************************************************)
EXTENDS Integers, Sequences

CONSTANTS
  WordBits,  \* bits of an expression value: 64 in the code
  ByteBits   \* bits of a byte: 8 in the code

ASSUME WordBitsAssumption == WordBits \in Nat \ {0}
ASSUME ByteBitsAssumption == ByteBits \in Nat \ {0}

\* Arithmetic: what the provers do not know of powers.
ASSUME PowersAssumption == \A k \in 0 .. 2 * WordBits : 2^k \in Nat \ {0}

Bit == {0, 1}
Word == 0 .. 2^WordBits - 1

(***************************************************************************)
(* The message types.                                                      *)
(***************************************************************************)
BinOps == {"add", "sub", "mul", "shl", "shr", "and", "or"}

\* op = "const": v; op = "field": h.f; a binary op: operands l and r.
\* "unspecified" and "empty" are the oneofs and enum values nobody set.
Expr == [op : BinOps \cup {"const", "field", "unspecified", "empty"},
         v : Word, h : STRING, f : STRING, l : Nat, r : Nat]

\* width = "bits": n bits; "bytes": the value of expression n, in bytes.
Field == [name : STRING, width : {"bits", "bytes", "none"}, n : Nat]

\* An empty inst stands for the header type's own name.
Extract == [type : STRING, inst : STRING]

\* "state": go to state `to`; "reject": with reason `to` and severity info or
\* error; "empty": a Target whose oneof is unset; "absent": no Target at all.
Target == [kind : {"state", "accept", "reject", "empty", "absent"},
           to : STRING, info : BOOLEAN]

\* value a; masked a/b (value/mask); range a..b.
Entry == [kind : {"value", "masked", "range", "none"}, a : Word, b : Word]

Arm == [entries : Seq(Entry), next : Target]

\* "direct" uses `default` as its only target; "none" is an unset oneof.
Transition == [kind : {"direct", "select", "none"},
               keys : Seq(Nat), arms : Seq(Arm), default : Target]

State == [extracts : Seq(Extract), trans : Transition]

IsIr(ir) ==
  /\ DOMAIN ir = {"exprs", "types", "states", "order", "start", "max_depth"}
  /\ ir.exprs \in Seq(Expr)
  /\ DOMAIN ir.types \subseteq STRING
  /\ ir.types \in [DOMAIN ir.types -> Seq(Field)]
  /\ DOMAIN ir.states \subseteq STRING
  /\ ir.states \in [DOMAIN ir.states -> State]
  /\ ir.order \in Seq(DOMAIN ir.states)
  /\ \A s \in DOMAIN ir.states : \E k \in DOMAIN ir.order : ir.order[k] = s
  /\ ir.start \in STRING
  /\ ir.max_depth \in Nat
  /\ \A i \in DOMAIN ir.exprs : ir.exprs[i].op \in BinOps =>
                                 ir.exprs[i].l < i /\ ir.exprs[i].r < i
  \* a length and a key are messages: empty perhaps, but there
  /\ \A t \in DOMAIN ir.types : \A k \in DOMAIN ir.types[t] :
       ir.types[t][k].width = "bytes" => ir.types[t][k].n \in DOMAIN ir.exprs
  /\ \A s \in DOMAIN ir.states : \A k \in DOMAIN ir.states[s].trans.keys :
       ir.states[s].trans.keys[k] \in DOMAIN ir.exprs
  \* and so is the target of a direct transition
  /\ \A s \in DOMAIN ir.states :
       ir.states[s].trans.kind = "direct" => ir.states[s].trans.default.kind # "absent"

\* An extraction writes the instance it names, or the type's name by default.
Instance(ex) == IF ex.inst = "" THEN ex.type ELSE ex.inst

(***************************************************************************)
(* Values.  A field's value is kept as the bits it was read from, most     *)
(* significant first; Uint is the u64 the code shifts them into.           *)
(***************************************************************************)
Uint(bits) ==
  LET val[i \in 0 .. Len(bits)] ==
        IF i = 0 THEN 0 ELSE (2 * val[i - 1] + bits[i]) % 2^WordBits
  IN  val[Len(bits)]

BitOf(x, i) == (x \div 2^i) % 2

\* Bitwise AND and OR, bit by bit.
Both(a, b) == IF a = 1 /\ b = 1 THEN 1 ELSE 0
Either(a, b) == IF a = 1 \/ b = 1 THEN 1 ELSE 0
BitwiseAnd(x, y) == Uint([i \in 1 .. WordBits |->
                           Both(BitOf(x, WordBits - i), BitOf(y, WordBits - i))])
BitwiseOr(x, y) == Uint([i \in 1 .. WordBits |->
                          Either(BitOf(x, WordBits - i), BitOf(y, WordBits - i))])

\* u64 wrapping arithmetic: shifts take their count modulo the word size.
Arith(op, x, y) ==
  CASE op = "add" -> (x + y) % 2^WordBits
    [] op = "sub" -> (x - y) % 2^WordBits
    [] op = "mul" -> (x * y) % 2^WordBits
    [] op = "shl" -> (x * 2^(y % WordBits)) % 2^WordBits
    [] op = "shr" -> x \div 2^(y % WordBits)
    [] op = "and" -> BitwiseAnd(x, y)
    [] op = "or"  -> BitwiseOr(x, y)

(***************************************************************************)
(* eval_expr: Ok(v) is a Word, Err is Unresolved.  env maps an             *)
(* <<instance, field>> pair to the bits last read for it.                  *)
(***************************************************************************)
Unresolved == -1

\* The value of one node, given those of its operands.
EvalNode(x, env, val) ==
  CASE x.op = "const" -> x.v
    [] x.op = "field" -> IF <<x.h, x.f>> \in DOMAIN env THEN Uint(env[<<x.h, x.f>>])
                         ELSE Unresolved
    [] x.op \in BinOps -> IF Unresolved \in {val[x.l], val[x.r]} THEN Unresolved
                          ELSE Arith(x.op, val[x.l], val[x.r])
    [] OTHER -> Unresolved

EvalExpr(ir, e, env) ==
  LET val[i \in 0 .. Len(ir.exprs)] ==
        IF i = 0 THEN Unresolved ELSE EvalNode(ir.exprs[i], env, val)
  IN  val[e]

\* eval_entry: does the key fall in the keyset entry?
EvalEntry(entry, key) ==
  CASE entry.kind = "value"  -> key = entry.a
    [] entry.kind = "masked" -> BitwiseAnd(key, entry.b) = BitwiseAnd(entry.a, entry.b)
    [] entry.kind = "range"  -> entry.a <= key /\ key <= entry.b
    [] OTHER -> FALSE

(***************************************************************************)
(* Transitions.                                                            *)
(***************************************************************************)
Keys(ir, trans, env) == [k \in DOMAIN trans.keys |-> EvalExpr(ir, trans.keys[k], env)]

KeysResolve(ir, trans, env) ==
  \A k \in DOMAIN trans.keys : EvalExpr(ir, trans.keys[k], env) \in Word

ArmMatches(arm, keys) ==
  /\ Len(arm.entries) = Len(keys)
  /\ \A k \in DOMAIN keys : EvalEntry(arm.entries[k], keys[k])

MatchingArms(trans, keys) == {i \in DOMAIN trans.arms : ArmMatches(trans.arms[i], keys)}

\* The targets a state's transition can name.
Targets(trans) ==
  CASE trans.kind = "direct" -> {trans.default}
    [] trans.kind = "select" ->
         {trans.arms[i].next : i \in DOMAIN trans.arms} \cup {trans.default}
    [] OTHER -> {}

\* Mutant: the targets of the arms are forgotten.
SuccessorsByDefault(trans) == {t.to : t \in {u \in {trans.default} : u.kind = "state"}}

\* The states a state's transition can go to.
Successors(trans) == {t.to : t \in {u \in Targets(trans) : u.kind = "state"}}

\* Mutant: the first value stays (entry().or_insert).
InsertOnce(f, k, v) == [x \in DOMAIN f \cup {k} |-> IF x \in DOMAIN f THEN f[x] ELSE v]

\* HashMap::insert.
Insert(f, k, v) == [x \in DOMAIN f \cup {k} |-> IF x = k THEN v ELSE f[x]]
=============================================================================
