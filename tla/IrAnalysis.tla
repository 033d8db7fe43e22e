------------------------------ MODULE IrAnalysis ------------------------------
(***************************************************************************)
(* Static analyses of a description that the P4 generator and the symbolic *)
(* engine share: the order of the instances, the cycles of the state       *)
(* graph, and bounds of expressions by interval arithmetic.                *)
(***************************************************************************)
EXTENDS GivenIr, SequencesExt, FiniteSetsExt

\* The states that can reach themselves.
SuccessorsOf(ss) == UNION {Successors(ir.states[s].trans) : s \in ss}

CyclicStates ==
  LET from[s \in DOMAIN ir.states] ==
        LET after[n \in 0 .. Cardinality(DOMAIN ir.states)] ==
              IF n = 0 THEN SuccessorsOf({s}) ELSE after[n - 1] \cup SuccessorsOf(after[n - 1])
        IN  after[Cardinality(DOMAIN ir.states)]
  IN  {s \in DOMAIN ir.states : s \in from[s]}

\* The instances in the order of their first extraction, with their type.
InstanceOrder ==
  LET first(seen, ex) == IF \E x \in ToSet(seen) : Instance(x) = Instance(ex)
                         THEN seen ELSE Append(seen, ex)
  IN  FoldLeft(first, <<>>, FlattenSeq([i \in DOMAIN ir.order |-> ir.states[ir.order[i]].extracts]))

\* No state extracts an instance twice: what some names take for granted.
OncePerState ==
  \A s \in DOMAIN ir.states : LET xs == ir.states[s].extracts IN
    \A i, j \in DOMAIN xs : Instance(xs[i]) = Instance(xs[j]) => i = j

\* The fixed-width fields named f of the type the instance was first extracted as.
FixedFields(inst, f) ==
  {fld \in UNION {ToSet(ir.types[ex.type]) : ex \in {x \in ToSet(InstanceOrder) : Instance(x) = inst}} :
     fld.name = f /\ fld.width = "bits"}

(***************************************************************************)
(* expr_range of codegen/p4.rs: (min, max) by interval arithmetic on words *)
(* of twice the size, or NoRange for an error.                             *)
(***************************************************************************)
NoRange == [lo |-> 1, hi |-> 0]
Wide == 2^(2 * WordBits)
MinOf2(x, y) == Min({x, y})
ShiftedLeft(x, n) == (x * 2^MinOf2(n, WordBits)) % Wide
ShiftedRight(x, n) == x \div 2^MinOf2(n, 2 * WordBits - 1)

BinRange(op, l, r) ==
  IF NoRange \in {l, r} THEN NoRange ELSE
  CASE op = "add" -> [lo |-> l.lo + r.lo, hi |-> l.hi + r.hi]
    [] op = "sub" -> [lo |-> Max({0, l.lo - r.hi}), hi |-> Max({0, l.hi - r.lo})]
    [] op = "mul" -> IF l.hi * r.hi >= Wide THEN NoRange
                     ELSE [lo |-> l.lo * r.lo, hi |-> l.hi * r.hi]
    [] op = "shl" -> [lo |-> ShiftedLeft(l.lo, r.lo), hi |-> ShiftedLeft(l.hi, r.hi)]
    [] op = "shr" -> [lo |-> ShiftedRight(l.lo, r.hi), hi |-> ShiftedRight(l.hi, r.lo)]
    [] op = "and" -> [lo |-> 0, hi |-> MinOf2(l.hi, r.hi)]
    [] op = "or"  -> [lo |-> Max({l.lo, r.lo}), hi |-> l.hi + r.hi]

\* The range of one node, given those of its operands.
NodeRange(x, range) ==
  CASE x.op = "const" -> [lo |-> x.v, hi |-> x.v]
    [] x.op = "field" -> IF FixedFields(x.h, x.f) = {} THEN NoRange
         ELSE [lo |-> 0, hi |-> 2^(CHOOSE fld \in FixedFields(x.h, x.f) : TRUE).n - 1]
    [] x.op \in BinOps -> BinRange(x.op, range[x.l], range[x.r])
    [] OTHER -> NoRange

ExprRange(e) ==
  LET range[i \in 0 .. Len(ir.exprs)] ==
        IF i = 0 THEN NoRange ELSE NodeRange(ir.exprs[i], range)
  IN  range[e]
================================================================================
