------------------------------ MODULE EngineProofs ------------------------------
(***************************************************************************)
(* The symbolic engine keeps its paths apart and its widths wide enough,   *)
(* for every description that validate accepts and every unrolling.        *)
(*                                                                         *)
(* Both are about paths already emitted, which no later action looks at:   *)
(* the inductive invariants are about the frames that are left as well.    *)
(*   WorldsInv  no world of a frame begins one of another frame, or        *)
(*              another of its own, and no packet of a path goes on from a *)
(*              world; so what is emitted below a frame cannot meet what   *)
(*              was emitted before or will be below another                *)
(*   NamesInv   the same of the names, which a cut makes harder: its name  *)
(*              goes on from that of the frame it leaves behind, so it     *)
(*              has to be the name of a field that is no longer to be read *)
(* An action replaces the first frame by its children and adds paths.      *)
(* WorldsMove and NamesMove say what the children and the new paths have   *)
(* to do with that frame and with each other; WorldsMoved and NamesMoved   *)
(* carry it to the whole stack.  What is left is one lemma per action.     *)
(***************************************************************************)
EXTENDS Testgen, DataProofs

(***************************************************************************)
(* Sequences that begin others.                                            *)
(***************************************************************************)
Begins(s, t) == Len(s) <= Len(t) /\ \A i \in 1 .. Len(s) : s[i] = t[i]

\* One begins the other.
Clash(s, t) == Begins(s, t) \/ Begins(t, s)

\* A sequence begins what it is continued to.
LEMMA BeginsConcat ==
  ASSUME NEW S, NEW s \in Seq(S), NEW t \in Seq(S)
  PROVE  Begins(s, s \o t)
BY DEF Begins

\* What begins the beginning of a sequence begins the sequence.
LEMMA BeginsTransitive ==
  ASSUME NEW S, NEW s \in Seq(S), NEW t \in Seq(S), NEW u \in Seq(S), Begins(s, t), Begins(t, u)
  PROVE  Begins(s, u)
BY DEF Begins

\* Two sequences that begin a third agree as far as the shorter goes.
LEMMA BothBegin ==
  ASSUME NEW S, NEW s \in Seq(S), NEW t \in Seq(S), NEW u \in Seq(S), Begins(s, u), Begins(t, u)
  PROVE  Clash(s, t)
<1>1. Len(s) \in Nat /\ Len(t) \in Nat /\ Len(u) \in Nat
  OBVIOUS
<1>2. CASE Len(s) <= Len(t)
  BY <1>1, <1>2 DEF Begins, Clash
<1>3. CASE Len(t) <= Len(s)
  BY <1>1, <1>3 DEF Begins, Clash
<1> QED BY <1>1, <1>2, <1>3

\* What goes on from sequences that exclude each other excludes each other.
LEMMA StayApart ==
  ASSUME NEW S, NEW s \in Seq(S), NEW t \in Seq(S), NEW s2 \in Seq(S), NEW t2 \in Seq(S),
         ~ Clash(s, t), Begins(s, s2), Begins(t, t2)
  PROVE  ~ Clash(s2, t2)
<1>1. ~ Begins(s2, t2)
  BY BeginsTransitive, BothBegin
<1>2. ~ Begins(t2, s2)
  BY BeginsTransitive, BothBegin
<1> QED BY <1>1, <1>2 DEF Clash

\* Two continuations of one length differ only if they differ in what they add.
LEMMA SameLengthClash ==
  ASSUME NEW S, NEW s \in Seq(S), NEW b \in Seq(S), NEW c \in Seq(S), Len(b) = Len(c),
         Clash(s \o b, s \o c)
  PROVE  b = c
<1>1. Len(s) \in Nat /\ Len(b) \in Nat /\ Len(s \o b) = Len(s) + Len(b) /\ Len(s \o c) = Len(s) + Len(b)
  OBVIOUS
<1>2. \A i \in 1 .. Len(s) + Len(b) : (s \o b)[i] = (s \o c)[i]
  BY <1>1 DEF Clash, Begins
<1>3. ASSUME NEW i \in 1 .. Len(b)
      PROVE  b[i] = c[i]
  <2>1. Len(s) + i \in 1 .. Len(s) + Len(b)
    BY <1>1
  <2>2. (s \o b)[Len(s) + i] = b[i] /\ (s \o c)[Len(s) + i] = c[i]
    BY <1>1
  <2> QED BY <1>2, <2>1, <2>2
<1> QED BY <1>3

\* Adding one segment.
LEMMA AppendClash ==
  ASSUME NEW S, NEW s \in Seq(S), NEW t \in Seq(S), NEW x \in S, NEW y \in S
  PROVE  /\ Begins(s, Append(s, x)) /\ Begins(s, s)
         /\ Clash(Append(s, x), Append(s, y)) => x = y
         /\ Append(s, x) # s
         /\ Append(s, x) = Append(s, y) => x = y
         /\ Begins(t, Append(s, x)) => Begins(t, s) \/ t = Append(s, x)
<1>1. /\ Len(s) \in Nat /\ Len(t) \in Nat
      /\ Len(Append(s, x)) = Len(s) + 1 /\ Len(Append(s, y)) = Len(s) + 1
      /\ Append(s, x)[Len(s) + 1] = x /\ Append(s, y)[Len(s) + 1] = y
      /\ \A i \in 1 .. Len(s) : Append(s, x)[i] = s[i]
  OBVIOUS
<1>2. Begins(s, Append(s, x)) /\ Begins(s, s) /\ Append(s, x) # s
  BY <1>1 DEF Begins
<1>3. Clash(Append(s, x), Append(s, y)) => x = y
  <2>1. Len(s) + 1 \in 1 .. Len(s) + 1
    BY <1>1
  <2> QED BY <1>1, <2>1 DEF Clash, Begins
<1>4. Append(s, x) = Append(s, y) => x = y
  BY <1>1
<1>5. ASSUME Begins(t, Append(s, x))
      PROVE  Begins(t, s) \/ t = Append(s, x)
  <2>1. CASE Len(t) <= Len(s)
    BY <1>1, <1>5, <2>1 DEF Begins
  <2>2. CASE Len(t) = Len(s) + 1
    BY <1>1, <1>5, <2>2 DEF Begins
  <2> QED BY <1>1, <1>5, <2>1, <2>2 DEF Begins
<1> QED BY <1>2, <1>3, <1>4, <1>5

(***************************************************************************)
(* Where the elements of a flattened sequence come from.                   *)
(***************************************************************************)
\* The p-th element of flat is the pos[p]-th of the part[p]-th of the first m
\* sequences, and no two have the same place.
IsPlacing(seqs, m, flat, part, pos) ==
  /\ part \in [1 .. Len(flat) -> 1 .. m] /\ pos \in [1 .. Len(flat) -> Nat]
  /\ \A p \in 1 .. Len(flat) :
       pos[p] \in 1 .. Len(seqs[part[p]]) /\ flat[p] = seqs[part[p]][pos[p]]
  /\ \A p, q \in 1 .. Len(flat) : part[p] = part[q] /\ pos[p] = pos[q] => p = q

\* One more sequence is flattened.
LEMMA PlacingGrows ==
  ASSUME NEW S, NEW seqs \in Seq(Seq(S)), NEW m \in Nat, m + 1 \in 1 .. Len(seqs),
         NEW flat \in Seq(S), NEW part, NEW pos, IsPlacing(seqs, m, flat, part, pos)
  PROVE  \E part2, pos2 : IsPlacing(seqs, m + 1, flat \o seqs[m + 1], part2, pos2)
<1> DEFINE l == Len(flat)
           n == Len(seqs[m + 1])
           new == flat \o seqs[m + 1]
           part2 == [p \in 1 .. l + n |-> IF p <= l THEN part[p] ELSE m + 1]
           pos2 == [p \in 1 .. l + n |-> IF p <= l THEN pos[p] ELSE p - l]
<1>1. seqs[m + 1] \in Seq(S) /\ l \in Nat /\ n \in Nat /\ Len(new) = l + n
  OBVIOUS
<1>2. \A p \in 1 .. l : new[p] = flat[p]
  BY <1>1
<1>3. \A p \in 1 .. l + n : p > l => p - l \in 1 .. n /\ new[p] = seqs[m + 1][p - l]
  BY <1>1
<1>4. /\ part \in [1 .. l -> 1 .. m] /\ pos \in [1 .. l -> Nat]
      /\ \A p \in 1 .. l : pos[p] \in 1 .. Len(seqs[part[p]]) /\ flat[p] = seqs[part[p]][pos[p]]
      /\ \A p, q \in 1 .. l : part[p] = part[q] /\ pos[p] = pos[q] => p = q
  BY DEF IsPlacing
<1> HIDE DEF new, l, n
<1>5. part2 \in [1 .. l + n -> 1 .. m + 1] /\ pos2 \in [1 .. l + n -> Nat]
  <2>1. \A p \in 1 .. l + n : p <= l => p \in 1 .. l
    BY <1>1
  <2> QED BY <1>1, <1>3, <1>4, <2>1
<1>6. ASSUME NEW p \in 1 .. l + n
      PROVE  pos2[p] \in 1 .. Len(seqs[part2[p]]) /\ new[p] = seqs[part2[p]][pos2[p]]
  <2>1. CASE p <= l
    <3>1. p \in 1 .. l /\ part2[p] = part[p] /\ pos2[p] = pos[p]
      BY <1>1, <2>1
    <3> QED BY <1>2, <1>4, <3>1
  <2>2. CASE p > l
    <3>1. part2[p] = m + 1 /\ pos2[p] = p - l
      BY <1>1, <2>2
    <3> QED BY <1>3, <2>2, <3>1 DEF n
  <2> QED BY <1>1, <2>1, <2>2
<1>7. ASSUME NEW p \in 1 .. l + n, NEW q \in 1 .. l + n, part2[p] = part2[q], pos2[p] = pos2[q]
      PROVE  p = q
  <2>1. \A x \in 1 .. l + n : x <= l => x \in 1 .. l /\ part2[x] = part[x] /\ pos2[x] = pos[x] /\ part[x] \in 1 .. m
    BY <1>1, <1>4
  <2>2. \A x \in 1 .. l + n : x > l => part2[x] = m + 1 /\ pos2[x] = x - l
    BY <1>1
  <2>3. CASE p <= l /\ q <= l
    BY <1>4, <1>7, <2>1, <2>3
  <2>4. CASE p > l /\ q > l
    BY <1>1, <1>7, <2>2, <2>4
  <2>5. CASE (p <= l /\ q > l) \/ (p > l /\ q <= l)
    BY <1>1, <1>7, <2>1, <2>2, <2>5
  <2> QED BY <1>1, <2>3, <2>4, <2>5
<1> HIDE DEF part2, pos2
<1>8. IsPlacing(seqs, m + 1, new, part2, pos2)
  BY <1>1, <1>5, <1>6, <1>7 DEF IsPlacing
<1> QED BY <1>8 DEF new

\* FlattenSeq places every element of every sequence, one after the other.
LEMMA FlattenPlaces ==
  ASSUME NEW S, NEW seqs \in Seq(Seq(S))
  PROVE  \E part, pos : IsPlacing(seqs, Len(seqs), FlattenSeq(seqs), part, pos)
<1> DEFINE n == Len(seqs)
<1>1. n \in Nat /\ \A k \in 1 .. n : seqs[k] \in Seq(S)
  OBVIOUS
<1>2. PICK flat :
        /\ FlattenSeq(seqs) = IF seqs = <<>> THEN <<>> ELSE flat[n]
        /\ \A k \in 1 .. n :
             flat[k] \in Seq(S) /\ flat[k] = IF k = 1 THEN seqs[1] ELSE flat[k - 1] \o seqs[k]
  BY FlattenUnfolds
<1>3. ASSUME NEW m
      PROVE  IsPlacing(seqs, m, <<>>, <<>>, <<>>)
  BY DEF IsPlacing
<1> DEFINE U == {m \in Nat : m \in 1 .. n => \E part, pos : IsPlacing(seqs, m, flat[m], part, pos)}
<1>4. 0 \in U
  BY <1>1
<1>5. ASSUME NEW m \in Nat, m \in U
      PROVE  m + 1 \in U
  <2> SUFFICES ASSUME m + 1 \in 1 .. n
               PROVE  \E part, pos : IsPlacing(seqs, m + 1, flat[m + 1], part, pos)
    OBVIOUS
  <2>1. CASE m = 0
    <3>1. flat[m + 1] = <<>> \o seqs[m + 1] /\ <<>> \in Seq(S)
      BY <1>1, <1>2, <2>1
    <3> QED BY <1>3, <3>1, PlacingGrows
  <2>2. CASE m # 0
    <3>1. m \in 1 .. n /\ m + 1 # 1 /\ (m + 1) - 1 = m
      BY <1>1, <2>2
    <3>2. flat[m + 1] = flat[m] \o seqs[m + 1] /\ flat[m] \in Seq(S)
      BY <1>2, <3>1
    <3>3. PICK part, pos : IsPlacing(seqs, m, flat[m], part, pos)
      BY <1>5, <3>1
    <3> QED BY <3>2, <3>3, PlacingGrows
  <2> QED BY <2>1, <2>2
<1>6. \A m \in Nat : m \in U
  <2> HIDE DEF U
  <2> QED BY <1>4, <1>5, NatSetInduction
<1>7. CASE seqs = <<>>
  BY <1>2, <1>3, <1>7
<1>8. CASE seqs # <<>>
  <2>1. n \in 1 .. n
    BY <1>1, <1>8
  <2> QED BY <1>1, <1>2, <1>6, <1>8, <2>1
<1> QED BY <1>7, <1>8

(***************************************************************************)
(* Intervals of expressions.                                               *)
(***************************************************************************)
LEMMA MaxFacts ==
  ASSUME NEW n \in Nat, NEW T \in SUBSET (1 .. n), T # {}
  PROVE  Max(T) \in T
<1> DEFINE R == {n - y : y \in T}
<1>1. R \in SUBSET Nat /\ R # {}
  <2>1. \A y \in T : y \in 1 .. n
    OBVIOUS
  <2>2. \A y \in T : n - y \in Nat
    BY <2>1
  <2> QED BY <2>2
<1>2. PICK x \in R : \A y \in R : x <= y
  <2> HIDE DEF R
  <2> QED BY <1>1, LeastNatural
<1>3. PICK m \in T : x = n - m
  BY <1>2
<1>4. ASSUME NEW y \in T
      PROVE  m >= y
  <2>1. n - y \in R
    OBVIOUS
  <2>2. n - m <= n - y
    BY <1>2, <1>3, <2>1
  <2>3. m \in 1 .. n /\ y \in 1 .. n
    OBVIOUS
  <2> QED BY <2>2, <2>3
<1> QED BY <1>3, <1>4 DEF Max

\* The instances come from the extracts of the states.
LEMMA OrderTypes ==
  ASSUME IsIr(ir), Laid(ir)
  PROVE  \A x \in ToSet(InstanceOrder) : x.type \in DOMAIN ir.types
<1> DEFINE S == {x \in Extract : x.type \in DOMAIN ir.types}
           V == Seq(S)
           parts == [i \in DOMAIN ir.order |-> ir.states[ir.order[i]].extracts]
           E == FlattenSeq(parts)
           first(seen, x) == IF \E y \in ToSet(seen) : Instance(y) = Instance(x)
                             THEN seen ELSE Append(seen, x)
           Body(f, T) == IF T = {} THEN <<>> ELSE first(f[T \ {Max(T)}], E[Max(T)])
           it == CHOOSE f : f = [T \in SUBSET DOMAIN E |-> Body(f, T)]
<1>1. InstanceOrder = it[DOMAIN E]
  BY DEF InstanceOrder, FoldLeft, MapThenFoldSet
<1>2. E \in V
  <2>1. ASSUME NEW i \in DOMAIN ir.order
        PROVE  ir.states[ir.order[i]].extracts \in V
    <3>1. ir.order[i] \in DOMAIN ir.states
      BY DEF IsIr
    <3> DEFINE xs == ir.states[ir.order[i]].extracts
    <3>2. ir.states[ir.order[i]] \in State
      BY <3>1 DEF IsIr
    <3>3. xs \in Seq(Extract)
      BY <3>2 DEF State
    <3>4. \A x \in ToSet(xs) : x.type \in DOMAIN ir.types
      BY <3>1 DEF Laid
    <3> HIDE DEF xs
    <3>5. \A k \in 1 .. Len(xs) : xs[k] \in S
      BY <3>3, <3>4 DEF ToSet
    <3>6. xs \in Seq(S)
      BY <3>3, <3>5
    <3> QED BY <3>6 DEF xs
  <2>2. ir.order \in Seq(DOMAIN ir.states)
    BY DEF IsIr
  <2>3. parts \in Seq(Seq(S))
    <3>1. DOMAIN ir.order = 1 .. Len(ir.order) /\ Len(ir.order) \in Nat
      BY <2>2
    <3> HIDE DEF S
    <3> QED BY <2>1, <3>1
  <2> HIDE DEF parts, S
  <2> QED BY <2>3, FlattenIsSeq
<1>3. DOMAIN E = 1 .. Len(E) /\ Len(E) \in Nat /\ \A k \in DOMAIN E : E[k] \in S
  BY <1>2
<1> HIDE DEF E, parts
<1>4. IsFiniteSet(DOMAIN E)
  <2>1. IsFiniteSet(1 .. Len(E))
    BY <1>3, FS_Interval
  <2> QED BY <1>3, <2>1
<1> HIDE DEF S
<1>5. \A s \in V, x \in S : first(s, x) \in V
  OBVIOUS
<1>6. <<>> \in V
  OBVIOUS
<1> HIDE DEF first, V
<1>7. \A T \in SUBSET DOMAIN E : T # {} => Max(T) \in T /\ E[Max(T)] \in S /\ T \ {Max(T)} \in SUBSET DOMAIN E
  <2> SUFFICES ASSUME NEW T \in SUBSET DOMAIN E, T # {}
               PROVE  Max(T) \in T
    BY <1>3
  <2> QED BY <1>3, MaxFacts
<1> DEFINE D == SUBSET DOMAIN E
           step == [f \in [D -> V] |-> [T \in D |-> Body(f, T)]]
<1>8. \E f \in [D -> V] : \A T \in D : f[T] = step[f][T]
  <2>1. ASSUME NEW f \in [D -> V], NEW T \in D
        PROVE  step[f][T] \in V
    <3>1. T # {} => f[T \ {Max(T)}] \in V /\ E[Max(T)] \in S
      BY <1>7
    <3>2. Body(f, T) \in V
      BY <1>5, <1>6, <3>1
    <3> QED BY <3>2
  <2>2. ASSUME NEW f \in [D -> V], NEW g \in [D -> V], NEW T \in D,
               \A R \in SUBSET T : R # T => f[R] = g[R]
        PROVE  step[f][T] = step[g][T]
    <3>1. T # {} => f[T \ {Max(T)}] = g[T \ {Max(T)}]
      BY <1>7, <2>2
    <3> QED BY <3>1
  <2>3. IsSetStep(step, DOMAIN E, D, V)
    <3> HIDE DEF step
    <3> QED BY <1>4, <1>6, <2>1, <2>2 DEF IsSetStep
  <2> HIDE DEF step, D
  <2> QED BY <2>3, SetRecursion
<1>9. it = [T \in SUBSET DOMAIN E |-> Body(it, T)]
  <2>1. \E f : f = [T \in SUBSET DOMAIN E |-> Body(f, T)]
    BY <1>8
  <2> QED BY <2>1
<1> HIDE DEF it
<1>10. \A T \in SUBSET DOMAIN E : it[T] = Body(it, T)
  BY <1>9
<1> DEFINE U == {n \in Nat : \A T \in SUBSET DOMAIN E : Cardinality(T) = n => it[T] \in V}
<1>11. 0 \in U
  <2> SUFFICES ASSUME NEW T \in SUBSET DOMAIN E, Cardinality(T) = 0
               PROVE  it[T] \in V
    OBVIOUS
  <2>1. T = {}
    BY <1>4, FS_Subset, FS_EmptySet
  <2> QED BY <1>6, <1>10, <2>1
<1>12. ASSUME NEW n \in Nat, n \in U
       PROVE  n + 1 \in U
  <2> SUFFICES ASSUME NEW T \in SUBSET DOMAIN E, Cardinality(T) = n + 1
               PROVE  it[T] \in V
    OBVIOUS
  <2>1. T # {} /\ IsFiniteSet(T)
    BY <1>4, FS_Subset, FS_EmptySet
  <2>2. Cardinality(T \ {Max(T)}) = n
    <3>1. Cardinality(T \ {Max(T)}) = Cardinality(T) - 1
      BY <1>7, <2>1, FS_RemoveElement
    <3> QED BY <3>1
  <2>3. it[T \ {Max(T)}] \in V
    BY <1>7, <1>12, <2>1, <2>2
  <2> QED BY <1>5, <1>7, <1>10, <2>1, <2>3
<1>13. Cardinality(DOMAIN E) \in U
  <2>1. Cardinality(DOMAIN E) \in Nat
    BY <1>4, FS_CardinalityType
  <2> HIDE DEF U
  <2> QED BY <1>11, <1>12, <2>1, NatSetInduction
<1>14. InstanceOrder \in Seq(S)
  BY <1>1, <1>13 DEF V
<1>15. ASSUME NEW x \in ToSet(InstanceOrder)
       PROVE  x.type \in DOMAIN ir.types
  <2>1. x \in S
    BY <1>14 DEF ToSet
  <2> QED BY <2>1 DEF S
<1> QED BY <1>15

\* A fixed-width field has a width the words hold.
LEMMA FixedFieldWidth ==
  ASSUME IsIr(ir), Laid(ir), NEW h, NEW f, NEW fld \in FixedFields(h, f)
  PROVE  2^(fld.n) - 1 \in Nat
<1>1. PICK xt \in ToSet(InstanceOrder) : fld \in ToSet(ir.types[xt.type])
  BY DEF FixedFields
<1>2. fld.width = "bits"
  BY DEF FixedFields
<1>3. fld.n \in 1 .. WordBits
  BY <1>1, <1>2, OrderTypes DEF Laid
<1>4. 2^(fld.n) \in Nat \ {0}
  BY <1>3, PowersAssumption, WordBitsAssumption
<1> QED BY <1>4

\* The larger of two integers, as the code has it.
LEMMA MaxOfTwo ==
  ASSUME NEW a \in Int, NEW b \in Int
  PROVE  Max({a, b}) \in {a, b} /\ Max({a, b}) >= a /\ Max({a, b}) >= b
<1>1. \E x \in {a, b} : \A y \in {a, b} : x >= y
  OBVIOUS
<1> QED BY <1>1 DEF Max

\* The smaller of two.
LEMMA MinOfTwo ==
  ASSUME NEW a \in Int, NEW b \in Int
  PROVE  MinOf2(a, b) \in {a, b} /\ MinOf2(a, b) <= a /\ MinOf2(a, b) <= b
<1>1. \E x \in {a, b} : \A y \in {a, b} : x <= y
  OBVIOUS
<1> QED BY <1>1 DEF MinOf2, Min

Interval == [lo : Nat, hi : Nat]

\* Interval arithmetic stays in the intervals.
LEMMA BinRangeType ==
  ASSUME NEW op \in BinOps, NEW l \in Interval, NEW r \in Interval
  PROVE  BinRange(op, l, r) \in Interval
<1>1. l.lo \in Nat /\ l.hi \in Nat /\ r.lo \in Nat /\ r.hi \in Nat
  BY DEF Interval
<1>2. NoRange \in Interval
  BY DEF NoRange, Interval
<1>3. \A k \in 0 .. 2 * WordBits : 2^k \in Nat \ {0}
  BY PowersAssumption
<1>4. Wide \in Nat \ {0}
  BY <1>3, WordBitsAssumption DEF Wide
<1>5. ASSUME NEW x \in Nat, NEW n \in Nat
      PROVE  ShiftedLeft(x, n) \in Nat /\ ShiftedRight(x, n) \in Nat
  <2> DEFINE p == 2^MinOf2(n, WordBits)
             q == 2^MinOf2(n, 2 * WordBits - 1)
  <2>1. p \in Nat \ {0}
    <3>1. MinOf2(n, WordBits) \in 0 .. 2 * WordBits
      BY MinOfTwo, WordBitsAssumption
    <3> QED BY <1>3, <3>1
  <2>2. q \in Nat \ {0}
    <3>1. 2 * WordBits - 1 \in Int
      BY WordBitsAssumption
    <3>2. MinOf2(n, 2 * WordBits - 1) \in {n, 2 * WordBits - 1} /\ MinOf2(n, 2 * WordBits - 1) <= 2 * WordBits - 1
      BY <3>1, MinOfTwo
    <3>3. MinOf2(n, 2 * WordBits - 1) \in 0 .. 2 * WordBits
      BY <3>2, WordBitsAssumption
    <3> QED BY <1>3, <3>3
  <2> HIDE DEF p, q
  <2>3. x * p \in Nat
    BY <2>1
  <2>4. (x * p) % Wide \in Nat
    BY <1>4, <2>3
  <2>5. x \div q \in Nat
    BY <2>2
  <2> QED BY <2>4, <2>5 DEF p, q, ShiftedLeft, ShiftedRight
<1>6. \A a, b \in Nat : a * b \in Nat /\ a + b \in Nat
  OBVIOUS
<1>7. \A a, b \in Nat : MinOf2(a, b) \in Nat /\ Max({a, b}) \in Nat /\ Max({0, a - b}) \in Nat
  <2> SUFFICES ASSUME NEW a \in Nat, NEW b \in Nat
               PROVE  MinOf2(a, b) \in Nat /\ Max({a, b}) \in Nat /\ Max({0, a - b}) \in Nat
    OBVIOUS
  <2>1. a - b \in Int /\ 0 \in Int
    OBVIOUS
  <2>2. Max({0, a - b}) \in {0, a - b} /\ Max({0, a - b}) >= 0
    BY <2>1, MaxOfTwo
  <2>3. Max({0, a - b}) \in Nat
    BY <2>1, <2>2
  <2>4. a \in Int /\ b \in Int
    OBVIOUS
  <2>5. MinOf2(a, b) \in {a, b}
    BY <2>4, MinOfTwo
  <2>6. Max({a, b}) \in {a, b}
    BY <2>4, MaxOfTwo
  <2> QED BY <2>3, <2>5, <2>6
<1>8. CASE NoRange \in {l, r}
  BY <1>2, <1>8 DEF BinRange
<1>9. CASE NoRange \notin {l, r}
  <2> DEFINE R == BinRange(op, l, r)
  <2>1. CASE op = "add"
    <3>1. R = [lo |-> l.lo + r.lo, hi |-> l.hi + r.hi]
      BY <1>9, <2>1 DEF BinRange
    <3> HIDE DEF R
    <3>2. R \in Interval
      BY <1>1, <3>1 DEF Interval
    <3> QED BY <3>2 DEF R
  <2>2. CASE op = "sub"
    <3>1. R = [lo |-> Max({0, l.lo - r.hi}), hi |-> Max({0, l.hi - r.lo})]
      BY <1>9, <2>2 DEF BinRange
    <3> HIDE DEF R
    <3>2. Max({0, l.lo - r.hi}) \in Nat /\ Max({0, l.hi - r.lo}) \in Nat
      BY <1>1, <1>7
    <3>3. R \in Interval
      BY <3>1, <3>2 DEF Interval
    <3> QED BY <3>3 DEF R
  <2>3. CASE op = "mul"
    <3>1. R = IF l.hi * r.hi >= Wide THEN NoRange ELSE [lo |-> l.lo * r.lo, hi |-> l.hi * r.hi]
      BY <1>9, <2>3 DEF BinRange
    <3> HIDE DEF R
    <3>2. l.lo * r.lo \in Nat /\ l.hi * r.hi \in Nat
      BY <1>1, <1>6
    <3>3. R \in Interval
      BY <1>2, <3>1, <3>2 DEF Interval
    <3> QED BY <3>3 DEF R
  <2>4. CASE op = "shl"
    <3>1. R = [lo |-> ShiftedLeft(l.lo, r.lo), hi |-> ShiftedLeft(l.hi, r.hi)]
      BY <1>9, <2>4 DEF BinRange
    <3> HIDE DEF R
    <3>2. R \in Interval
      BY <1>1, <1>5, <3>1 DEF Interval
    <3> QED BY <3>2 DEF R
  <2>5. CASE op = "shr"
    <3>1. R = [lo |-> ShiftedRight(l.lo, r.hi), hi |-> ShiftedRight(l.hi, r.lo)]
      BY <1>9, <2>5 DEF BinRange
    <3> HIDE DEF R
    <3>2. R \in Interval
      BY <1>1, <1>5, <3>1 DEF Interval
    <3> QED BY <3>2 DEF R
  <2>6. CASE op = "and"
    <3>1. R = [lo |-> 0, hi |-> MinOf2(l.hi, r.hi)]
      BY <1>9, <2>6 DEF BinRange
    <3> HIDE DEF R
    <3>2. R \in Interval
      BY <1>1, <1>7, <3>1 DEF Interval
    <3> QED BY <3>2 DEF R
  <2>7. CASE op = "or"
    <3>1. R = [lo |-> Max({l.lo, r.lo}), hi |-> l.hi + r.hi]
      BY <1>9, <2>7 DEF BinRange
    <3> HIDE DEF R
    <3>2. l.lo \in Int /\ r.lo \in Int
      BY <1>1
    <3>3. Max({l.lo, r.lo}) \in {l.lo, r.lo}
      BY <3>2, MaxOfTwo
    <3>4. Max({l.lo, r.lo}) \in Nat
      BY <1>1, <3>3
    <3>5. l.hi + r.hi \in Nat
      BY <1>1
    <3>6. R \in Interval
      BY <3>1, <3>4, <3>5 DEF Interval
    <3> QED BY <3>6 DEF R
  <2> QED BY <2>1, <2>2, <2>3, <2>4, <2>5, <2>6, <2>7 DEF BinOps
<1> QED BY <1>8, <1>9

\* The range of one node is an interval if those of its operands are.
LEMMA NodeRangeType ==
  ASSUME IsIr(ir), Laid(ir), NEW e \in 1 .. Len(ir.exprs),
         NEW f, \A j \in 0 .. e - 1 : f[j] \in Interval
  PROVE  NodeRange(ir.exprs[e], f) \in Interval
<1> DEFINE x == ir.exprs[e]
           F == FixedFields(x.h, x.f)
           fld == CHOOSE g \in F : TRUE
<1>1. x \in Expr /\ (x.op \in BinOps => x.l \in 0 .. e - 1 /\ x.r \in 0 .. e - 1)
  BY ExprFacts
<1>2. x.v \in Nat
  BY <1>1, WordSize DEF Expr, Word
<1>3. F # {} => 2^(fld.n) - 1 \in Nat
  <2>1. F # {} => fld \in FixedFields(x.h, x.f)
    OBVIOUS
  <2> HIDE DEF x, fld
  <2> QED BY <2>1, FixedFieldWidth
<1>4. x.op \in BinOps => BinRange(x.op, f[x.l], f[x.r]) \in Interval
  BY <1>1, BinRangeType
<1>5. NoRange \in Interval
  BY DEF NoRange, Interval
<1>6. NodeRange(x, f) = CASE x.op = "const" -> [lo |-> x.v, hi |-> x.v]
                          [] x.op = "field" -> IF F = {} THEN NoRange ELSE [lo |-> 0, hi |-> 2^(fld.n) - 1]
                          [] x.op \in BinOps -> BinRange(x.op, f[x.l], f[x.r])
                          [] OTHER -> NoRange
  BY DEF NodeRange
<1> HIDE DEF x, F, fld
<1>7. F # {} => [lo |-> 0, hi |-> 2^(fld.n) - 1] \in Interval
  BY <1>3 DEF Interval
<1>8. [lo |-> x.v, hi |-> x.v] \in Interval
  BY <1>2 DEF Interval
<1>9. NodeRange(x, f) \in Interval
  BY <1>4, <1>5, <1>6, <1>7, <1>8
<1> QED BY <1>9 DEF x

\* Every expression has an interval (a constant one stands for an error).
LEMMA ExprRangeType ==
  ASSUME IsIr(ir), Laid(ir), NEW e \in 0 .. Len(ir.exprs)
  PROVE  ExprRange(e) \in Interval
<1> DEFINE n == Len(ir.exprs)
           Body(f, i) == IF i = 0 THEN NoRange ELSE NodeRange(ir.exprs[i], f)
           range == CHOOSE f : f = [i \in 0 .. Len(ir.exprs) |-> Body(f, i)]
           step == [f \in [0 .. n -> Interval] |-> [i \in 0 .. n |-> Body(f, i)]]
<1>1. ExprRange(e) = range[e]
  BY DEF ExprRange
<1>2. n \in Nat
  BY ExprFacts
<1>3. NoRange \in Interval
  BY DEF NoRange, Interval
<1>4. ASSUME NEW f, NEW i \in 0 .. n, \A j \in 0 .. i - 1 : f[j] \in Interval
      PROVE  Body(f, i) \in Interval
  <2>1. i # 0 => i \in 1 .. Len(ir.exprs)
    BY <1>2
  <2> QED BY <1>3, <1>4, <2>1, NodeRangeType
<1>5. ASSUME NEW f, NEW g, NEW i \in 0 .. n, \A j \in 0 .. i - 1 : f[j] = g[j]
      PROVE  Body(f, i) = Body(g, i)
  <2>1. CASE i = 0
    BY <2>1
  <2>2. CASE i # 0
    <3>1. i \in 1 .. Len(ir.exprs)
      BY <1>2, <2>2
    <3> DEFINE x == ir.exprs[i]
    <3>2. x.op \in BinOps => f[x.l] = g[x.l] /\ f[x.r] = g[x.r]
      BY <1>5, <3>1, ExprFacts
    <3> HIDE DEF x
    <3>3. NodeRange(x, f) = NodeRange(x, g)
      BY <3>2 DEF NodeRange
    <3> QED BY <2>2, <3>3 DEF x
  <2> QED BY <2>1, <2>2
<1> HIDE DEF Body
<1>6. \E f \in [0 .. n -> Interval] : \A i \in 0 .. n : f[i] = step[f][i]
  <2>1. ASSUME NEW f \in [0 .. n -> Interval], NEW i \in 0 .. n
        PROVE  step[f][i] \in Interval
    <3>1. \A j \in 0 .. i - 1 : j \in 0 .. n
      BY <1>2
    <3>2. \A j \in 0 .. i - 1 : f[j] \in Interval
      BY <3>1, Zenon
    <3>3. Body(f, i) \in Interval
      BY <1>4, <3>2
    <3> QED BY <3>3
  <2>2. \A f, g \in [0 .. n -> Interval] : \A i \in 0 .. n :
          (\A j \in 0 .. i - 1 : f[j] = g[j]) => step[f][i] = step[g][i]
    BY <1>5
  <2>3. IsStep(step, 0, n, Interval)
    BY <1>3, <2>1, <2>2 DEF IsStep
  <2> HIDE DEF step
  <2> QED BY <1>2, <2>3, Recursion
<1>7. range = [i \in 0 .. n |-> Body(range, i)]
  <2>1. \E f : f = [i \in 0 .. n |-> Body(f, i)]
    BY <1>6
  <2> QED BY <2>1
<1> HIDE DEF range
<1>8. \A i \in 0 .. n : range[i] = Body(range, i)
  BY <1>7
<1> DEFINE U == {m \in Nat : m <= n => range[m] \in Interval}
<1>9. ASSUME NEW m \in Nat, \A j \in 0 .. m - 1 : j \in U
      PROVE  m \in U
  BY <1>2, <1>4, <1>8, <1>9
<1>10. \A m \in Nat : m \in U
  <2> HIDE DEF U
  <2> QED BY <1>9, StrongSetInduction
<1> QED BY <1>1, <1>2, <1>10

\* The bound of a body is a number of bytes.
LEMMA BoundType ==
  ASSUME IsIr(ir), Laid(ir), NEW e \in 0 .. Len(ir.exprs)
  PROVE  BoundBytes(e) \in Nat
<1>1. ExprRange(e).hi \in Nat
  BY ExprRangeType DEF Interval
<1>2. SanityBytes \in Nat
  BY SanityAssumption
<1>3. MinOf2(ExprRange(e).hi, SanityBytes) \in {ExprRange(e).hi, SanityBytes}
  BY <1>1, <1>2, MinOfTwo
<1> QED BY <1>1, <1>2, <1>3 DEF BoundBytes

(***************************************************************************)
(* Types.                                                                  *)
(***************************************************************************)
Tags == {"state", "arm", "default", "!trunc", "!oob"}
Kinds == {"accept", "reject", "truncation"}
Reasons == {"", "max depth exceeded", "out of bounds", "no matching select arm"} \cup STRING
Segment == Seq(Tags \cup STRING \cup Nat)
ItemType == [inst : STRING, field : Field]
EnvType == UNION {[D -> Seq(Bit)] : D \in SUBSET (STRING \X STRING)}
WorldType == [bits : Seq(Bit), env : EnvType]
FrameType ==
  [at : {"state", "items"}, state : STRING, items : Seq(ItemType), segments : Seq(Segment),
   depth : Nat, counts : UNION {[D -> Nat] : D \in SUBSET STRING},
   placed : SUBSET (STRING \X STRING), width : Nat, worlds : SUBSET WorldType]
PathType ==
  [id : Seq(Segment), kind : Kinds, reason : Reasons, width : Nat, packets : SUBSET Seq(Bit)]

\* A frame is at a state of the description and lays out fields of its types.
IsKnown(f) ==
  /\ f.state \in DOMAIN ir.states
  /\ \A k \in DOMAIN f.items : \E t \in DOMAIN ir.types : f.items[k].field \in ToSet(ir.types[t])

ETypeOK ==
  /\ ir \in Irs
  /\ frames \in Seq(FrameType)
  /\ \A i \in DOMAIN frames : IsKnown(frames[i])
  /\ paths \subseteq PathType

(***************************************************************************)
(* The invariants.  Two frames, two worlds of a frame, and the paths there *)
(* are, exclude each other: nothing that goes on from one meets the other. *)
(* A path may lie before a world, as the cut before the field it cuts.     *)
(***************************************************************************)
OwnWorlds(f) ==
  /\ \A w \in f.worlds : Len(w.bits) <= f.width
  /\ \A v, w \in f.worlds : v # w => ~ Clash(v.bits, w.bits)
OwnPackets(p) == \A k \in p.packets : Len(k) <= p.width
WorldsApart(f, g) == \A v \in f.worlds, w \in g.worlds : ~ Clash(v.bits, w.bits)
PacketsOff(p, f) == \A k \in p.packets, w \in f.worlds : ~ Begins(w.bits, k)

WorldsInv ==
  /\ \A i \in DOMAIN frames : OwnWorlds(frames[i])
  /\ \A i, j \in DOMAIN frames : i # j => WorldsApart(frames[i], frames[j])
  /\ \A p \in paths : OwnPackets(p)
  /\ \A p \in paths : \A i \in DOMAIN frames : PacketsOff(p, frames[i])
  /\ \A p, q \in paths : p # q => p.packets \cap q.packets = {}

\* The names of the cuts of a field.
CutsOf(item) == {<<"!trunc", item.inst, item.field.name>>, <<"!oob", item.inst, item.field.name>>}
IsCut(seg) == seg[1] \in {"!trunc", "!oob"}
DistinctItems(f) ==
  f.at = "items" =>
    \A j, k \in DOMAIN f.items :
      f.items[j].inst = f.items[k].inst /\ f.items[j].field.name = f.items[k].field.name => j = k

\* A path whose name goes on from a frame's is one of its cuts, of a field that
\* has been laid out.
NameOff(id, f) ==
  Begins(f.segments, id) =>
    \E seg \in Segment :
      /\ id = Append(f.segments, seg)
      /\ IsCut(seg)
      /\ f.at = "items" => \A k \in DOMAIN f.items : seg \notin CutsOf(f.items[k])

NamesInv ==
  OncePerState =>
    /\ \A i \in DOMAIN frames : DistinctItems(frames[i])
    /\ \A i, j \in DOMAIN frames : i # j => ~ Clash(frames[i].segments, frames[j].segments)
    /\ \A p \in paths : \A i \in DOMAIN frames : NameOff(p.id, frames[i])
    /\ \A p, q \in paths : p # q => p.id # q.id

(***************************************************************************)
(* What an action makes of the stack: children in the place of the frame   *)
(* it took, and new paths.                                                 *)
(***************************************************************************)
Moved(children, new) ==
  /\ frames # <<>>
  /\ ir' = ir
  /\ frames' = children \o Tail(frames)
  /\ paths' = paths \cup new
  /\ children \in Seq(FrameType)
  /\ \A c \in DOMAIN children : IsKnown(children[c])
  /\ new \subseteq PathType

WorldsMove(children, new) ==
  /\ \A c \in DOMAIN children : OwnWorlds(children[c])
  /\ \A c \in DOMAIN children : \A w \in children[c].worlds :
       \E v \in Frame.worlds : Begins(v.bits, w.bits)
  /\ \A c, d \in DOMAIN children : c # d => WorldsApart(children[c], children[d])
  /\ \A p \in new : OwnPackets(p)
  /\ \A p \in new : \A k \in p.packets : \E v \in Frame.worlds : Begins(v.bits, k)
  /\ \A p \in new : \A c \in DOMAIN children : PacketsOff(p, children[c])
  /\ \A p, q \in new : p # q => p.packets \cap q.packets = {}

NamesMove(children, new) ==
  /\ \A c \in DOMAIN children : DistinctItems(children[c])
  /\ \A c \in DOMAIN children : Begins(Frame.segments, children[c].segments)
  /\ \A c, d \in DOMAIN children : c # d => ~ Clash(children[c].segments, children[d].segments)
  /\ \A p \in new : Begins(Frame.segments, p.id)
  /\ \A p \in new : \A q \in paths : p.id # q.id
  /\ \A p \in paths \cup new : \A c \in DOMAIN children : NameOff(p.id, children[c])
  /\ \A p, q \in new : p # q => p.id # q.id

\* A frame of the new stack is a child or was there before, below the first.
LEMMA StackSplits ==
  ASSUME NEW fs \in Seq(FrameType), fs # <<>>, NEW ch \in Seq(FrameType), NEW gs, gs = ch \o Tail(fs)
  PROVE  /\ gs \in Seq(FrameType)
         /\ \A i \in DOMAIN gs :
              \/ i \in DOMAIN ch /\ gs[i] = ch[i]
              \/ /\ i \notin DOMAIN ch
                 /\ i - Len(ch) + 1 \in DOMAIN fs /\ i - Len(ch) + 1 # 1
                 /\ gs[i] = fs[i - Len(ch) + 1]
<1> DEFINE F == FrameType
           rest == Tail(fs)
<1> HIDE DEF F
<1>0. fs \in Seq(F) /\ ch \in Seq(F)
  BY DEF F
<1>1. /\ Len(fs) \in Nat /\ Len(fs) >= 1 /\ Len(ch) \in Nat
      /\ rest \in Seq(F) /\ Len(rest) = Len(fs) - 1
      /\ DOMAIN fs = 1 .. Len(fs) /\ DOMAIN ch = 1 .. Len(ch)
      /\ \A k \in 1 .. Len(fs) - 1 : rest[k] = fs[k + 1]
  BY <1>0
<1> HIDE DEF rest
<1>2. /\ gs \in Seq(F) /\ Len(gs) = Len(ch) + Len(fs) - 1 /\ DOMAIN gs = 1 .. Len(gs)
      /\ \A i \in 1 .. Len(ch) : gs[i] = ch[i]
      /\ \A i \in 1 .. Len(gs) : i > Len(ch) => gs[i] = rest[i - Len(ch)]
  <2>1. gs = ch \o rest
    BY DEF rest
  <2>2. gs \in Seq(F) /\ Len(gs) = Len(ch) + Len(rest)
    BY <1>0, <1>1, <2>1
  <2>3. \A i \in 1 .. Len(gs) : gs[i] = IF i <= Len(ch) THEN ch[i] ELSE rest[i - Len(ch)]
    BY <1>0, <1>1, <2>1, <2>2
  <2> QED BY <1>1, <2>2, <2>3
<1>3. ASSUME NEW i \in DOMAIN gs
      PROVE  \/ i \in DOMAIN ch /\ gs[i] = ch[i]
             \/ /\ i \notin DOMAIN ch
                /\ i - Len(ch) + 1 \in DOMAIN fs /\ i - Len(ch) + 1 # 1
                /\ gs[i] = fs[i - Len(ch) + 1]
  <2>1. CASE i <= Len(ch)
    BY <1>1, <1>2, <2>1
  <2>2. CASE i > Len(ch)
    <3>1. i - Len(ch) \in 1 .. Len(fs) - 1
      BY <1>1, <1>2, <2>2
    <3>2. gs[i] = fs[(i - Len(ch)) + 1]
      BY <1>1, <1>2, <2>2, <3>1
    <3> QED BY <1>1, <1>2, <2>2, <3>1, <3>2
  <2> QED BY <1>1, <1>2, <2>1, <2>2
<1> QED BY <1>2, <1>3 DEF F

\* A move of typed frames and paths keeps the types.
LEMMA MoveTyped ==
  ASSUME ETypeOK, NEW children, NEW new, Moved(children, new)
  PROVE  ETypeOK'
<1>1. frames \in Seq(FrameType) /\ frames # <<>> /\ children \in Seq(FrameType) /\ frames' = children \o Tail(frames)
  BY DEF ETypeOK, Moved
<1>2. /\ frames' \in Seq(FrameType)
      /\ \A i \in DOMAIN frames' :
           \/ i \in DOMAIN children /\ frames'[i] = children[i]
           \/ i - Len(children) + 1 \in DOMAIN frames /\ frames'[i] = frames[i - Len(children) + 1]
  BY <1>1, StackSplits
<1>3. \A i \in DOMAIN frames' : IsKnown(frames'[i])
  BY <1>2 DEF ETypeOK, Moved
<1>4. ir' = ir /\ paths' \subseteq PathType /\ ir \in Irs
  BY DEF ETypeOK, Moved
<1> QED BY <1>2, <1>3, <1>4 DEF ETypeOK, IsKnown

\* The parts of a typed state.
LEMMA FrameShape ==
  ASSUME NEW f \in FrameType
  PROVE  /\ f.at \in {"state", "items"} /\ f.state \in STRING /\ f.items \in Seq(ItemType)
         /\ f.segments \in Seq(Segment) /\ f.depth \in Nat /\ f.width \in Nat
         /\ f.worlds \subseteq WorldType /\ \A w \in f.worlds : w.bits \in Seq(Bit) /\ w.env \in EnvType
<1>1. \A w \in WorldType : w.bits \in Seq(Bit) /\ w.env \in EnvType
  BY DEF WorldType
<1> QED BY <1>1 DEF FrameType

\* The parts of a path.
LEMMA PathShape ==
  ASSUME NEW p \in PathType
  PROVE  p.id \in Seq(Segment) /\ p.width \in Nat /\ p.packets \subseteq Seq(Bit)
BY DEF PathType

\* The first frame is one of the stack.
LEMMA FrameIs ==
  ASSUME ETypeOK, frames # <<>>
  PROVE  Frame = frames[1] /\ 1 \in DOMAIN frames /\ Frame \in FrameType /\ IsKnown(Frame)
<1>1. frames \in Seq(FrameType)
  BY DEF ETypeOK
<1>2. Frame = frames[1] /\ 1 \in DOMAIN frames /\ frames[1] \in FrameType
  <2> DEFINE F == FrameType
  <2> HIDE DEF F
  <2>1. frames \in Seq(F)
    BY <1>1 DEF F
  <2>2. Head(frames) = frames[1] /\ 1 \in DOMAIN frames /\ frames[1] \in F
    BY <2>1
  <2> QED BY <2>2 DEF F, Frame
<1> QED BY <1>2 DEF ETypeOK

\* What goes on from a frame stays apart from what the frame is apart from.
LEMMA WorldsGrow ==
  ASSUME NEW f \in FrameType, NEW c \in FrameType, NEW g \in FrameType, WorldsApart(f, g),
         \A w \in c.worlds : \E v \in f.worlds : Begins(v.bits, w.bits)
  PROVE  WorldsApart(c, g) /\ WorldsApart(g, c)
<1> SUFFICES ASSUME NEW w \in c.worlds, NEW u \in g.worlds
             PROVE  ~ Clash(w.bits, u.bits) /\ ~ Clash(u.bits, w.bits)
  BY DEF WorldsApart
<1>1. PICK v \in f.worlds : Begins(v.bits, w.bits)
  OBVIOUS
<1>2. ~ Clash(v.bits, u.bits)
  BY DEF WorldsApart
<1>3. v.bits \in Seq(Bit) /\ w.bits \in Seq(Bit) /\ u.bits \in Seq(Bit)
  BY FrameShape
<1>4. Begins(u.bits, u.bits)
  BY <1>3 DEF Begins
<1>5. ~ Clash(w.bits, u.bits)
  BY <1>1, <1>2, <1>3, <1>4, StayApart
<1> QED BY <1>5 DEF Clash

\* So does a path that is emitted below a frame.
LEMMA PacketsGrow ==
  ASSUME NEW f \in FrameType, NEW p \in PathType, NEW g \in FrameType, WorldsApart(f, g),
         \A k \in p.packets : \E v \in f.worlds : Begins(v.bits, k)
  PROVE  PacketsOff(p, g)
<1> SUFFICES ASSUME NEW k \in p.packets, NEW u \in g.worlds, Begins(u.bits, k)
             PROVE  FALSE
  BY DEF PacketsOff
<1>1. PICK v \in f.worlds : Begins(v.bits, k)
  OBVIOUS
<1>2. ~ Clash(v.bits, u.bits)
  BY DEF WorldsApart
<1>3. v.bits \in Seq(Bit) /\ u.bits \in Seq(Bit) /\ k \in Seq(Bit)
  BY FrameShape, PathShape
<1> QED BY <1>1, <1>2, <1>3, BothBegin

\* A packet that goes on from no world of a frame goes on from none below it.
LEMMA PacketsStayOff ==
  ASSUME NEW f \in FrameType, NEW c \in FrameType, NEW q \in PathType, PacketsOff(q, f),
         \A w \in c.worlds : \E v \in f.worlds : Begins(v.bits, w.bits)
  PROVE  PacketsOff(q, c)
<1> SUFFICES ASSUME NEW k \in q.packets, NEW w \in c.worlds, Begins(w.bits, k)
             PROVE  FALSE
  BY DEF PacketsOff
<1>1. PICK v \in f.worlds : Begins(v.bits, w.bits)
  OBVIOUS
<1>2. v.bits \in Seq(Bit) /\ w.bits \in Seq(Bit) /\ k \in Seq(Bit)
  BY FrameShape, PathShape
<1>3. Begins(v.bits, k)
  BY <1>1, <1>2, BeginsTransitive
<1> QED BY <1>3 DEF PacketsOff

\* A move of apart worlds keeps everything apart.
LEMMA WorldsMoved ==
  ASSUME ETypeOK, WorldsInv, NEW children, NEW new, Moved(children, new), WorldsMove(children, new)
  PROVE  WorldsInv'
<1> DEFINE New(i) == i \in DOMAIN children /\ frames'[i] = children[i]
           n == Len(children)
           Old(i) == /\ i - n + 1 \in DOMAIN frames /\ i - n + 1 # 1
                     /\ frames'[i] = frames[i - n + 1]
<1>1. /\ frames \in Seq(FrameType) /\ frames # <<>> /\ children \in Seq(FrameType)
      /\ frames' = children \o Tail(frames) /\ paths' = paths \cup new
      /\ new \subseteq PathType /\ paths \subseteq PathType
  BY DEF ETypeOK, Moved
<1>2. Frame = frames[1] /\ 1 \in DOMAIN frames /\ Frame \in FrameType
  BY <1>1, FrameIs
<1>3. \A i \in DOMAIN frames' : New(i) \/ (Old(i) /\ i \notin DOMAIN children)
  BY <1>1, StackSplits
<1>4. n \in Nat /\ (\A i \in DOMAIN frames' : i \in Int)
      /\ (\A c \in DOMAIN children : children[c] \in FrameType)
      /\ (\A i \in DOMAIN frames : frames[i] \in FrameType)
  <2>1. frames' \in Seq(FrameType)
    BY <1>1, StackSplits
  <2> DEFINE F == FrameType
  <2> HIDE DEF F
  <2>2. frames' \in Seq(F) /\ children \in Seq(F) /\ frames \in Seq(F)
    BY <1>1, <2>1 DEF F
  <2>3. /\ n \in Nat /\ (\A i \in DOMAIN frames' : i \in Int)
        /\ (\A c \in DOMAIN children : children[c] \in F)
        /\ (\A i \in DOMAIN frames : frames[i] \in F)
    BY <2>2
  <2> QED BY <2>3 DEF F
<1>5. ASSUME NEW i \in DOMAIN frames', NEW j \in DOMAIN frames', i # j
      PROVE  WorldsApart(frames'[i], frames'[j])
  <2>1. CASE New(i) /\ New(j)
    BY <1>5, <2>1 DEF WorldsMove
  <2>2. ASSUME NEW c \in DOMAIN children, NEW k \in DOMAIN frames, k # 1
        PROVE  WorldsApart(children[c], frames[k]) /\ WorldsApart(frames[k], children[c])
    <3>1. WorldsApart(Frame, frames[k])
      BY <1>2, <2>2 DEF WorldsInv
    <3>2. \A w \in children[c].worlds : \E v \in Frame.worlds : Begins(v.bits, w.bits)
      BY DEF WorldsMove
    <3> QED BY <1>2, <1>4, <3>1, <3>2, WorldsGrow
  <2>3. CASE New(i) /\ Old(j)
    BY <2>2, <2>3
  <2>4. CASE Old(i) /\ New(j)
    BY <2>2, <2>4
  <2>5. CASE Old(i) /\ Old(j)
    <3>1. i - n + 1 # j - n + 1
      BY <1>4, <1>5
    <3> QED BY <2>5, <3>1 DEF WorldsInv
  <2> QED BY <1>3, <2>1, <2>3, <2>4, <2>5
<1>6. ASSUME NEW i \in DOMAIN frames'
      PROVE  OwnWorlds(frames'[i])
  BY <1>3 DEF WorldsInv, WorldsMove
<1>7. ASSUME NEW p \in new, NEW k \in DOMAIN frames, k # 1
      PROVE  PacketsOff(p, frames[k])
  <2>1. WorldsApart(Frame, frames[k])
    BY <1>2, <1>7 DEF WorldsInv
  <2>2. \A x \in p.packets : \E v \in Frame.worlds : Begins(v.bits, x)
    BY DEF WorldsMove
  <2> QED BY <1>1, <1>2, <1>4, <2>1, <2>2, PacketsGrow
<1>8. ASSUME NEW q \in paths, NEW c \in DOMAIN children
      PROVE  PacketsOff(q, children[c])
  <2>1. PacketsOff(q, Frame)
    BY <1>2 DEF WorldsInv
  <2>2. \A w \in children[c].worlds : \E v \in Frame.worlds : Begins(v.bits, w.bits)
    BY DEF WorldsMove
  <2> QED BY <1>1, <1>2, <1>4, <2>1, <2>2, PacketsStayOff
<1>9. ASSUME NEW p \in paths', NEW i \in DOMAIN frames'
      PROVE  PacketsOff(p, frames'[i])
  <2>1. CASE p \in new /\ New(i)
    BY <2>1 DEF WorldsMove
  <2>2. CASE p \in new /\ Old(i)
    BY <1>7, <2>2
  <2>3. CASE p \in paths /\ New(i)
    BY <1>8, <2>3
  <2>4. CASE p \in paths /\ Old(i)
    BY <2>4 DEF WorldsInv
  <2> QED BY <1>1, <1>3, <2>1, <2>2, <2>3, <2>4
<1>10. ASSUME NEW p \in new, NEW q \in paths
       PROVE  p.packets \cap q.packets = {}
  <2> SUFFICES ASSUME NEW k \in p.packets, k \in q.packets
               PROVE  FALSE
    OBVIOUS
  <2>1. PICK v \in Frame.worlds : Begins(v.bits, k)
    BY DEF WorldsMove
  <2>2. PacketsOff(q, Frame)
    BY <1>2 DEF WorldsInv
  <2> QED BY <2>1, <2>2 DEF PacketsOff
<1>11. ASSUME NEW p \in paths', NEW q \in paths', p # q
       PROVE  p.packets \cap q.packets = {}
  <2>1. CASE p \in new /\ q \in new
    BY <1>11, <2>1 DEF WorldsMove
  <2>2. CASE p \in new /\ q \in paths
    BY <1>10, <2>2
  <2>3. CASE p \in paths /\ q \in new
    BY <1>10, <2>3
  <2>4. CASE p \in paths /\ q \in paths
    BY <1>11, <2>4 DEF WorldsInv
  <2> QED BY <1>1, <2>1, <2>2, <2>3, <2>4
<1>12. \A p \in paths' : OwnPackets(p)
  BY <1>1 DEF WorldsInv, WorldsMove
<1> HIDE DEF New, Old
<1> QED BY <1>5, <1>6, <1>9, <1>11, <1>12 DEF WorldsInv

\* A move of apart names keeps the names apart.
LEMMA NamesMoved ==
  ASSUME ETypeOK, NamesInv, NEW children, NEW new, Moved(children, new),
         OncePerState => NamesMove(children, new)
  PROVE  NamesInv'
<1> DEFINE New(i) == i \in DOMAIN children /\ frames'[i] = children[i]
           n == Len(children)
           Old(i) == /\ i - n + 1 \in DOMAIN frames /\ i - n + 1 # 1
                     /\ frames'[i] = frames[i - n + 1]
<1>0. OncePerState' = OncePerState
  BY DEF Moved, OncePerState
<1> SUFFICES ASSUME OncePerState
             PROVE  NamesInv'
  BY <1>0 DEF NamesInv
<1>1. /\ frames \in Seq(FrameType) /\ frames # <<>> /\ children \in Seq(FrameType)
      /\ frames' = children \o Tail(frames) /\ paths' = paths \cup new
      /\ new \subseteq PathType /\ paths \subseteq PathType
  BY DEF ETypeOK, Moved
<1>2. Frame = frames[1] /\ 1 \in DOMAIN frames /\ Frame \in FrameType
  BY <1>1, FrameIs
<1>3. \A i \in DOMAIN frames' : New(i) \/ (Old(i) /\ i \notin DOMAIN children)
  BY <1>1, StackSplits
<1>4. n \in Nat /\ (\A i \in DOMAIN frames' : i \in Int)
      /\ (\A c \in DOMAIN children : children[c].segments \in Seq(Segment))
      /\ (\A i \in DOMAIN frames : frames[i].segments \in Seq(Segment))
  <2>1. frames' \in Seq(FrameType)
    BY <1>1, StackSplits
  <2> DEFINE F == FrameType
  <2> HIDE DEF F
  <2>2. frames' \in Seq(F) /\ children \in Seq(F) /\ frames \in Seq(F)
    BY <1>1, <2>1 DEF F
  <2>3. /\ n \in Nat /\ (\A i \in DOMAIN frames' : i \in Int)
        /\ (\A c \in DOMAIN children : children[c] \in F)
        /\ (\A i \in DOMAIN frames : frames[i] \in F)
    BY <2>2
  <2> QED BY <2>3, FrameShape DEF F
<1>5. /\ \A i \in DOMAIN frames : DistinctItems(frames[i])
      /\ \A i, j \in DOMAIN frames : i # j => ~ Clash(frames[i].segments, frames[j].segments)
      /\ \A p \in paths : \A i \in DOMAIN frames : NameOff(p.id, frames[i])
      /\ \A p, q \in paths : p # q => p.id # q.id
  BY DEF NamesInv
<1>6. Frame.segments \in Seq(Segment) /\ \A p \in new : p.id \in Seq(Segment)
  BY <1>1, <1>2, FrameShape, PathShape
<1>7. ASSUME NEW c \in DOMAIN children, NEW k \in DOMAIN frames, k # 1
      PROVE  ~ Clash(children[c].segments, frames[k].segments)
  <2>1. ~ Clash(Frame.segments, frames[k].segments)
    BY <1>2, <1>5, <1>7
  <2>2. Begins(Frame.segments, children[c].segments)
    BY DEF NamesMove
  <2>3. Begins(frames[k].segments, frames[k].segments)
    BY <1>4 DEF Begins
  <2> QED BY <1>4, <1>6, <2>1, <2>2, <2>3, StayApart
<1>8. ASSUME NEW i \in DOMAIN frames', NEW j \in DOMAIN frames', i # j
      PROVE  ~ Clash(frames'[i].segments, frames'[j].segments)
  <2>1. CASE New(i) /\ New(j)
    BY <1>8, <2>1 DEF NamesMove
  <2>2. CASE New(i) /\ Old(j)
    BY <1>7, <2>2
  <2>3. CASE Old(i) /\ New(j)
    BY <1>7, <2>3 DEF Clash
  <2>4. CASE Old(i) /\ Old(j)
    <3>1. i - n + 1 # j - n + 1
      BY <1>4, <1>8
    <3> QED BY <1>5, <2>4, <3>1
  <2> QED BY <1>3, <2>1, <2>2, <2>3, <2>4
<1>9. \A i \in DOMAIN frames' : DistinctItems(frames'[i])
  BY <1>3, <1>5 DEF NamesMove
<1>10. ASSUME NEW p \in paths', NEW i \in DOMAIN frames'
       PROVE  NameOff(p.id, frames'[i])
  <2>1. CASE New(i)
    BY <1>1, <2>1 DEF NamesMove
  <2>2. CASE p \in paths /\ Old(i)
    BY <1>5, <2>2
  <2>3. CASE p \in new /\ Old(i)
    <3> DEFINE k == i - n + 1
    <3>1. k \in DOMAIN frames /\ k # 1 /\ frames'[i] = frames[k]
      BY <2>3
    <3> HIDE DEF k
    <3>2. ~ Clash(Frame.segments, frames[k].segments)
      BY <1>2, <1>5, <3>1
    <3>3. Begins(Frame.segments, p.id)
      BY <2>3 DEF NamesMove
    <3>4. frames[k].segments \in Seq(Segment) /\ p.id \in Seq(Segment)
      BY <1>4, <1>6, <2>3, <3>1
    <3>5. ~ Begins(frames[k].segments, p.id)
      BY <1>6, <3>2, <3>3, <3>4, BothBegin
    <3> QED BY <3>1, <3>5 DEF NameOff
  <2> QED BY <1>1, <1>3, <2>1, <2>2, <2>3
<1>11. ASSUME NEW p \in paths', NEW q \in paths', p # q
       PROVE  p.id # q.id
  <2>1. CASE p \in new /\ q \in new
    BY <1>11, <2>1 DEF NamesMove
  <2>2. CASE p \in new /\ q \in paths
    BY <2>2 DEF NamesMove
  <2>3. CASE p \in paths /\ q \in new
    BY <2>3 DEF NamesMove
  <2>4. CASE p \in paths /\ q \in paths
    BY <1>5, <1>11, <2>4
  <2> QED BY <1>1, <2>1, <2>2, <2>3, <2>4
<1> HIDE DEF New, Old
<1> QED BY <1>0, <1>8, <1>9, <1>10, <1>11 DEF NamesInv

(***************************************************************************)
(* The frames and the paths an action makes are typed.                     *)
(***************************************************************************)
LEMMA SegmentTypes ==
  ASSUME NEW a \in STRING, NEW b \in STRING, NEW i \in Nat
  PROVE  /\ <<"state", a>> \in Segment /\ <<"arm", i>> \in Segment /\ <<"default">> \in Segment
         /\ <<"!trunc", a, b>> \in Segment /\ <<"!oob", a, b>> \in Segment
         /\ ~ IsCut(<<"state", a>>) /\ ~ IsCut(<<"arm", i>>) /\ ~ IsCut(<<"default">>)
         /\ IsCut(<<"!trunc", a, b>>) /\ IsCut(<<"!oob", a, b>>)
<1> DEFINE S == Tags \cup STRING \cup Nat
<1>1. "state" \in S /\ "arm" \in S /\ "default" \in S /\ "!trunc" \in S /\ "!oob" \in S /\ a \in S /\ b \in S /\ i \in S
  BY DEF Tags
<1>2. /\ <<"state", a>>[1] = "state" /\ <<"arm", i>>[1] = "arm" /\ <<"default">>[1] = "default"
      /\ <<"!trunc", a, b>>[1] = "!trunc" /\ <<"!oob", a, b>>[1] = "!oob"
  OBVIOUS
<1> HIDE DEF S
<1>3. /\ <<"state", a>> \in Seq(S) /\ <<"arm", i>> \in Seq(S) /\ <<"default">> \in Seq(S)
      /\ <<"!trunc", a, b>> \in Seq(S) /\ <<"!oob", a, b>> \in Seq(S)
  BY <1>1
<1>4. "state" \notin {"!trunc", "!oob"} /\ "arm" \notin {"!trunc", "!oob"} /\ "default" \notin {"!trunc", "!oob"}
  OBVIOUS
<1> QED BY <1>2, <1>3, <1>4 DEF S, Segment, IsCut

\* A path of typed parts is typed.
LEMMA PathOfType ==
  ASSUME NEW s \in Seq(Segment), NEW kind \in Kinds, NEW reason \in Reasons, NEW n \in Nat,
         NEW packets \in SUBSET Seq(Bit)
  PROVE  LET p == PathOf(s, kind, reason, n, packets)
         IN  p \in PathType /\ p.id = s /\ p.width = n /\ p.packets = packets
BY DEF PathOf, PathType

\* The path that ends at a frame has the frame's name, width and packets.
LEMMA EndingShape ==
  ASSUME NEW f \in FrameType, NEW kind \in Kinds, NEW reason \in Reasons
  PROVE  LET p == Ending(f, kind, reason)
         IN  /\ p \in PathType /\ p.id = f.segments
             /\ \A k \in p.packets : \E w \in f.worlds : k = w.bits /\ Begins(w.bits, k)
             /\ OwnWorlds(f) => OwnPackets(p)
<1>1. f.segments \in Seq(Segment) /\ f.width \in Nat /\ PrefixesOf(f.worlds) \in SUBSET Seq(Bit)
  BY FrameShape DEF PrefixesOf
<1> DEFINE p == Ending(f, kind, reason)
<1>2. p \in PathType /\ p.id = f.segments /\ p.width = f.width /\ p.packets = PrefixesOf(f.worlds)
  BY <1>1, PathOfType DEF Ending
<1> HIDE DEF p
<1>3. \A k \in p.packets : \E w \in f.worlds : k = w.bits /\ Begins(w.bits, k)
  <2>1. \A w \in f.worlds : Begins(w.bits, w.bits)
    BY FrameShape DEF Begins
  <2> QED BY <1>2, <2>1 DEF PrefixesOf
<1>4. OwnWorlds(f) => OwnPackets(p)
  BY <1>2, <1>3 DEF OwnWorlds, OwnPackets
<1> QED BY <1>2, <1>3, <1>4 DEF p

\* The frame of a state that is entered.
LEMMA WalkedShape ==
  ASSUME Frame \in FrameType
  PROVE  /\ WalkedInto \in FrameType /\ WalkedInto.worlds = Frame.worlds /\ WalkedInto.width = Frame.width
         /\ WalkedInto.state = Frame.state
         /\ WalkedInto.segments = Append(Frame.segments, <<"state", Frame.state>>)
<1>0. Frame.segments \in Seq(Segment) /\ Frame.state \in STRING /\ Frame.depth \in Nat
  BY FrameShape
<1>1. Frame.segments \in Seq(Segment) /\ <<"state", Frame.state>> \in Segment /\ Frame.depth + 1 \in Nat
  <2> DEFINE a == Frame.state
  <2>1. a \in STRING /\ 0 \in Nat
    BY <1>0
  <2> HIDE DEF a
  <2>2. <<"state", a>> \in Segment
    BY <2>1, SegmentTypes
  <2> QED BY <1>0, <2>2 DEF a
<1>2. Append(Frame.segments, <<"state", Frame.state>>) \in Seq(Segment)
  BY <1>1
<1> DEFINE f == Frame
           d == Frame.depth + 1
           s == Append(Frame.segments, <<"state", Frame.state>>)
<1>3. WalkedInto = [f EXCEPT !.depth = d, !.segments = s]
  BY DEF WalkedInto
<1>4. f \in FrameType /\ d \in Nat /\ s \in Seq(Segment)
  BY <1>1, <1>2
<1> HIDE DEF f, d, s
<1>5. WalkedInto \in FrameType /\ WalkedInto.worlds = f.worlds /\ WalkedInto.width = f.width
      /\ WalkedInto.state = f.state /\ WalkedInto.segments = s
  BY <1>3, <1>4 DEF FrameType
<1> QED BY <1>5 DEF f, s

(***************************************************************************)
(* Every action of the engine is such a move.                              *)
(***************************************************************************)
Moves == \E children, new : /\ Moved(children, new)
                            /\ WorldsMove(children, new)
                            /\ OncePerState => NamesMove(children, new)

\* A move that ends the frame.
LEMMA NoChild ==
  ASSUME NEW new \in SUBSET PathType, frames # <<>>, ir' = ir,
         frames' = <<>> \o Tail(frames), paths' = paths \cup new,
         \A p \in new : OwnPackets(p),
         \A p \in new : \A k \in p.packets : \E v \in Frame.worlds : Begins(v.bits, k),
         \A p, q \in new : p # q => p.packets \cap q.packets = {},
         OncePerState => /\ \A p \in new : Begins(Frame.segments, p.id)
                         /\ \A p \in new : \A q \in paths : p.id # q.id
                         /\ \A p, q \in new : p # q => p.id # q.id
  PROVE  Moves
<1>1. <<>> \in Seq(FrameType) /\ DOMAIN <<>> = {}
  OBVIOUS
<1>2. Moved(<<>>, new)
  BY <1>1 DEF Moved
<1>3. WorldsMove(<<>>, new)
  BY <1>1 DEF WorldsMove
<1>4. OncePerState => NamesMove(<<>>, new)
  BY <1>1 DEF NamesMove
<1> QED BY <1>2, <1>3, <1>4 DEF Moves

\* A move that goes on with one frame.
LEMMA OneChild ==
  ASSUME NEW c \in FrameType, IsKnown(c), NEW new \in SUBSET PathType, frames # <<>>, ir' = ir,
         frames' = <<c>> \o Tail(frames), paths' = paths \cup new,
         OwnWorlds(c),
         \A w \in c.worlds : \E v \in Frame.worlds : Begins(v.bits, w.bits),
         \A p \in new : OwnPackets(p) /\ PacketsOff(p, c),
         \A p \in new : \A k \in p.packets : \E v \in Frame.worlds : Begins(v.bits, k),
         \A p, q \in new : p # q => p.packets \cap q.packets = {},
         OncePerState => /\ DistinctItems(c)
                         /\ Begins(Frame.segments, c.segments)
                         /\ \A p \in new : Begins(Frame.segments, p.id)
                         /\ \A p \in new : \A q \in paths : p.id # q.id
                         /\ \A p \in paths \cup new : NameOff(p.id, c)
                         /\ \A p, q \in new : p # q => p.id # q.id
  PROVE  Moves
<1> DEFINE ch == <<c>>
<1>1. ch \in Seq(FrameType) /\ DOMAIN ch = {1} /\ ch[1] = c
  <2> DEFINE F == FrameType
  <2>1. c \in F
    OBVIOUS
  <2> HIDE DEF F
  <2>2. <<c>> \in Seq(F)
    BY <2>1
  <2>3. DOMAIN <<c>> = 1 .. 1 /\ <<c>>[1] = c
    OBVIOUS
  <2> QED BY <2>2, <2>3 DEF F
<1>2. frames' = ch \o Tail(frames)
  OBVIOUS
<1> HIDE DEF ch
<1>3. Moved(ch, new)
  BY <1>1, <1>2 DEF Moved
<1>4. WorldsMove(ch, new)
  <2>1. /\ \A d \in DOMAIN ch : OwnWorlds(ch[d])
        /\ \A d \in DOMAIN ch : \A w \in ch[d].worlds : \E v \in Frame.worlds : Begins(v.bits, w.bits)
        /\ \A d, e \in DOMAIN ch : d # e => WorldsApart(ch[d], ch[e])
        /\ \A p \in new : \A d \in DOMAIN ch : PacketsOff(p, ch[d])
    BY <1>1
  <2> QED BY <2>1 DEF WorldsMove
<1>5. ASSUME OncePerState
      PROVE  NamesMove(ch, new)
  BY <1>1, <1>5 DEF NamesMove
<1> QED BY <1>3, <1>4, <1>5 DEF Moves

\* What a frame can be named that no path is named or is a cut of.
LEMMA FreshNames ==
  ASSUME ETypeOK, NamesInv, OncePerState, frames # <<>>, NEW q \in paths
  PROVE  /\ q.id # Frame.segments
         /\ \A seg \in Segment : ~ IsCut(seg) => ~ Begins(Append(Frame.segments, seg), q.id)
         /\ NameOff(q.id, Frame)
<1>1. Frame.segments \in Seq(Segment) /\ q.id \in Seq(Segment)
  BY FrameIs, FrameShape, PathShape DEF ETypeOK
<1>2. NameOff(q.id, Frame)
  BY FrameIs DEF NamesInv
<1> DEFINE s == Frame.segments
<1>3. Begins(s, q.id) => \E seg \in Segment : q.id = Append(s, seg) /\ IsCut(seg)
  BY <1>2 DEF NameOff
<1>4. s \in Seq(Segment)
  BY <1>1
<1> HIDE DEF s
<1>5. q.id # s
  <2> SUFFICES ASSUME q.id = s
               PROVE  FALSE
    OBVIOUS
  <2>1. Begins(s, q.id)
    BY <1>4 DEF Begins
  <2>2. PICK seg \in Segment : q.id = Append(s, seg)
    BY <1>3, <2>1
  <2> QED BY <1>4, <2>2, AppendClash
<1>6. ASSUME NEW seg \in Segment, ~ IsCut(seg), Begins(Append(s, seg), q.id)
      PROVE  FALSE
  <2>1. Append(s, seg) \in Seq(Segment) /\ Begins(s, Append(s, seg))
    BY <1>4, AppendClash
  <2>2. Begins(s, q.id)
    BY <1>1, <1>4, <1>6, <2>1, BeginsTransitive
  <2>3. PICK cut \in Segment : q.id = Append(s, cut) /\ IsCut(cut)
    BY <1>3, <2>2
  <2>4. seg = cut
    BY <1>4, <1>6, <2>3, AppendClash DEF Clash
  <2> QED BY <1>6, <2>3, <2>4
<1> QED BY <1>2, <1>5, <1>6 DEF s

\* Beyond the depth budget: one path, no frame.
LEMMA BeyondDepthMoves ==
  ASSUME ETypeOK, WorldsInv, NamesInv, WalkBeyondDepth
  PROVE  Moves
<1> DEFINE p == Ending(WalkedInto, "reject", "max depth exceeded")
           seg == <<"state", Frame.state>>
<1>1. frames # <<>> /\ ir' = ir /\ frames' = <<>> \o Tail(frames) /\ paths' = paths \cup {p}
  BY DEF WalkBeyondDepth, Walking, Emit, Continue
<1>2. Frame \in FrameType /\ Frame = frames[1] /\ 1 \in DOMAIN frames
  BY <1>1, FrameIs
<1>3. /\ WalkedInto \in FrameType /\ WalkedInto.worlds = Frame.worlds /\ WalkedInto.width = Frame.width
      /\ WalkedInto.segments = Append(Frame.segments, seg)
  BY <1>2, WalkedShape
<1>4. /\ p \in PathType /\ p.id = Append(Frame.segments, seg)
      /\ \A k \in p.packets : \E w \in Frame.worlds : Begins(w.bits, k)
      /\ OwnWorlds(WalkedInto) => OwnPackets(p)
  <2>1. "reject" \in Kinds /\ "max depth exceeded" \in Reasons
    BY DEF Kinds, Reasons
  <2> HIDE DEF seg
  <2> QED BY <1>3, <2>1, EndingShape
<1> HIDE DEF p
<1>5. OwnPackets(p)
  BY <1>2, <1>3, <1>4 DEF WorldsInv, OwnWorlds
<1>7. Frame.segments \in Seq(Segment) /\ seg \in Segment /\ ~ IsCut(seg)
  <2>1. Frame.state \in STRING /\ 0 \in Nat /\ Frame.segments \in Seq(Segment)
    BY <1>2, FrameShape
  <2> QED BY <2>1, SegmentTypes
<1> HIDE DEF seg
<1>8. Begins(Frame.segments, p.id) /\ Begins(p.id, p.id)
  <2>1. Append(Frame.segments, seg) \in Seq(Segment)
    BY <1>7
  <2> QED BY <1>4, <1>7, <2>1, AppendClash DEF Begins
<1>9. OncePerState => \A q \in paths : p.id # q.id
  BY <1>1, <1>4, <1>7, <1>8, FreshNames
<1> DEFINE new == {p}
<1>10. /\ new \in SUBSET PathType /\ paths' = paths \cup new
       /\ \A x \in new : x = p
       /\ \A x, y \in new : x = y
  BY <1>1, <1>4
<1> HIDE DEF new
<1> QED BY <1>1, <1>4, <1>5, <1>8, <1>9, <1>10, NoChild

\* An unrolled loop: nothing.
LEMMA PrunedMoves ==
  ASSUME ETypeOK, WalkPruned
  PROVE  Moves
<1>1. frames # <<>> /\ ir' = ir /\ frames' = <<>> \o Tail(frames) /\ paths' = paths \cup {}
  BY DEF WalkPruned, Walking, Continue
<1> QED BY <1>1, NoChild

\* The items of a state are typed, and their names tell them apart.
LEMMA ItemsFacts ==
  ASSUME IsIr(ir), Laid(ir), NEW s \in DOMAIN ir.states
  PROVE  LET items == ItemsOf(ir.states[s].extracts)
         IN  /\ items \in Seq(ItemType)
             /\ \A p \in DOMAIN items : \E t \in DOMAIN ir.types : items[p].field \in ToSet(ir.types[t])
             /\ OncePerState => \A p, q \in DOMAIN items :
                  items[p].inst = items[q].inst /\ items[p].field.name = items[q].field.name => p = q
<1> DEFINE xs == ir.states[s].extracts
           S == {x \in ItemType : \E t \in DOMAIN ir.types : x.field \in ToSet(ir.types[t])}
           fields(i) == ir.types[xs[i].type]
           seqs == [i \in DOMAIN xs |->
                     [j \in DOMAIN fields(i) |-> [inst |-> Instance(xs[i]), field |-> fields(i)[j]]]]
           items == FlattenSeq(seqs)
<1>1. ItemsOf(ir.states[s].extracts) = items
  BY DEF ItemsOf
<1>2. xs \in Seq(Extract) /\ DOMAIN xs = 1 .. Len(xs) /\ Len(xs) \in Nat
  <2>1. ir.states[s] \in State
    BY DEF IsIr
  <2>2. xs \in Seq(Extract)
    BY <2>1 DEF State
  <2> HIDE DEF xs
  <2> QED BY <2>2
<1>3. ASSUME NEW i \in DOMAIN xs
      PROVE  /\ xs[i].type \in DOMAIN ir.types
             /\ fields(i) \in Seq(Field)
             /\ Instance(xs[i]) \in STRING
  <2>1. xs[i] \in Extract /\ xs[i] \in ToSet(xs)
    BY <1>2 DEF ToSet
  <2>2. xs[i].type \in DOMAIN ir.types
    BY <2>1 DEF Laid
  <2>3. fields(i) \in Seq(Field)
    BY <2>2 DEF IsIr
  <2> HIDE DEF xs
  <2>4. Instance(xs[i]) \in STRING
    BY <2>1 DEF Instance, Extract
  <2> QED BY <2>2, <2>3, <2>4
<1>4. ASSUME NEW i \in DOMAIN xs
      PROVE  seqs[i] \in Seq(S)
  <2> DEFINE fs == fields(i)
             inst == Instance(xs[i])
             one == [j \in DOMAIN fs |-> [inst |-> inst, field |-> fs[j]]]
  <2>1. fs \in Seq(Field) /\ inst \in STRING
    BY <1>3
  <2>2. fs \in Seq(Field) /\ DOMAIN fs = 1 .. Len(fs) /\ Len(fs) \in Nat /\ \A j \in DOMAIN fs : fs[j] \in ToSet(fs)
    <3> HIDE DEF fs
    <3> QED BY <2>1 DEF ToSet
  <2>3. \E t \in DOMAIN ir.types : \A j \in DOMAIN fs : fs[j] \in ToSet(ir.types[t])
    BY <1>3, <2>2
  <2> HIDE DEF fs, inst
  <2>4. ASSUME NEW j \in DOMAIN fs
        PROVE  [inst |-> inst, field |-> fs[j]] \in S
    <3>1. [inst |-> inst, field |-> fs[j]] \in ItemType
      BY <2>1, <2>2 DEF ItemType
    <3>2. \E t \in DOMAIN ir.types : fs[j] \in ToSet(ir.types[t])
      BY <2>3
    <3> QED BY <3>1, <3>2
  <2> HIDE DEF S
  <2>5. one \in Seq(S)
    BY <2>2, <2>4
  <2> QED BY <2>5 DEF fs, inst
<1> HIDE DEF S
<1>5. seqs \in Seq(Seq(S)) /\ Len(seqs) = Len(xs)
  <2> DEFINE Q == Seq(S)
  <2>1. \A i \in DOMAIN xs : seqs[i] \in Q
    BY <1>4
  <2>2. DOMAIN seqs = 1 .. Len(xs)
    BY <1>2
  <2>3. seqs = [i \in 1 .. Len(xs) |-> seqs[i]]
    BY <1>2, Zenon
  <2> HIDE DEF seqs, Q
  <2>4. seqs \in Seq(Q) /\ Len(seqs) = Len(xs)
    BY <1>2, <2>1, <2>2, <2>3
  <2> QED BY <2>4 DEF Q
<1>6. items \in Seq(S)
  <2> HIDE DEF seqs
  <2> QED BY <1>5, FlattenIsSeq
<1>7. items \in Seq(ItemType) /\ \A p \in DOMAIN items : \E t \in DOMAIN ir.types : items[p].field \in ToSet(ir.types[t])
  <2> HIDE DEF items
  <2>1. \A p \in DOMAIN items : items[p] \in S
    BY <1>6
  <2>2. \A x \in S : x \in ItemType /\ \E t \in DOMAIN ir.types : x.field \in ToSet(ir.types[t])
    BY DEF S
  <2> DEFINE I == ItemType
  <2>3. \A x \in S : x \in I
    BY <2>2
  <2> HIDE DEF I
  <2>4. items \in Seq(I)
    BY <1>6, <2>3
  <2> QED BY <2>1, <2>2, <2>4 DEF I
<1>8. ASSUME OncePerState, NEW p \in DOMAIN items, NEW q \in DOMAIN items,
             items[p].inst = items[q].inst, items[p].field.name = items[q].field.name
      PROVE  p = q
  <2>1. PICK part, pos : IsPlacing(seqs, Len(seqs), items, part, pos)
    <3> HIDE DEF seqs
    <3> QED BY <1>5, FlattenPlaces
  <2>2. DOMAIN items = 1 .. Len(items)
    <3> HIDE DEF items
    <3> QED BY <1>6
  <2> HIDE DEF items
  <2>3. ASSUME NEW r \in DOMAIN items
        PROVE  /\ part[r] \in DOMAIN xs /\ pos[r] \in DOMAIN seqs[part[r]] /\ items[r] = seqs[part[r]][pos[r]]
    <3> HIDE DEF seqs
    <3>1. part[r] \in 1 .. Len(seqs) /\ pos[r] \in 1 .. Len(seqs[part[r]]) /\ items[r] = seqs[part[r]][pos[r]]
      BY <2>1, <2>2 DEF IsPlacing
    <3>2. seqs[part[r]] \in Seq(S)
      BY <1>5, <3>1
    <3>3. DOMAIN seqs[part[r]] = 1 .. Len(seqs[part[r]])
      BY <3>2
    <3> QED BY <1>2, <1>5, <3>1, <3>3
  <2> HIDE DEF xs
  <2>4. ASSUME NEW r \in DOMAIN items
        PROVE  /\ pos[r] \in DOMAIN fields(part[r])
               /\ items[r].inst = Instance(xs[part[r]])
               /\ items[r].field.name = fields(part[r])[pos[r]].name
    <3>1. part[r] \in DOMAIN xs /\ pos[r] \in DOMAIN seqs[part[r]] /\ items[r] = seqs[part[r]][pos[r]]
      BY <2>3
    <3>2. \A i \in DOMAIN xs :
            seqs[i] = [j \in DOMAIN fields(i) |-> [inst |-> Instance(xs[i]), field |-> fields(i)[j]]]
      OBVIOUS
    <3> QED BY <3>1, <3>2
  <2>5. Instance(xs[part[p]]) = Instance(xs[part[q]]) /\ part[p] \in DOMAIN xs /\ part[q] \in DOMAIN xs
    BY <1>8, <2>3, <2>4
  <2>6. part[p] = part[q]
    BY <1>8, <2>5 DEF OncePerState, xs
  <2>7. /\ pos[p] \in DOMAIN fields(part[p]) /\ pos[q] \in DOMAIN fields(part[p])
        /\ fields(part[p])[pos[p]].name = fields(part[p])[pos[q]].name
    BY <1>8, <2>4, <2>6
  <2>8. pos[p] = pos[q]
    BY <1>3, <2>5, <2>7 DEF Laid
  <2> QED BY <2>1, <2>2, <2>6, <2>8 DEF IsPlacing
<1> HIDE DEF items
<1> QED BY <1>1, <1>7, <1>8

\* What is known of the description.
LEMMA IrIs ==
  ASSUME ir \in Irs
  PROVE  IsIr(ir) /\ Laid(ir)
BY IrsAssumption, LaidAssumption

\* Names that no cut begins with are off every path there is.
LEMMA FreshIsOff ==
  ASSUME ETypeOK, NamesInv, OncePerState, frames # <<>>, NEW seg \in Segment, ~ IsCut(seg),
         NEW c \in FrameType, c.segments = Append(Frame.segments, seg), NEW q \in paths
  PROVE  NameOff(q.id, c)
BY FreshNames DEF NameOff

\* Entering a state: the same worlds, with the fields to lay out.
LEMMA StateMoves ==
  ASSUME ETypeOK, WorldsInv, NamesInv, WalkState
  PROVE  Moves
<1> DEFINE its == ItemsOf(ir.states[Frame.state].extracts)
           cts == [s \in DOMAIN WalkedInto.counts |->
                    IF s = Frame.state THEN WalkedInto.counts[s] + 1 ELSE WalkedInto.counts[s]]
           c == [WalkedInto EXCEPT !.at = "items", !.items = its, !.counts = cts]
           seg == <<"state", Frame.state>>
<1>1. frames # <<>> /\ ir' = ir /\ frames' = <<c>> \o Tail(frames) /\ paths' = paths \cup {}
  BY DEF WalkState, Walking, Continue
<1>2. Frame \in FrameType /\ Frame = frames[1] /\ 1 \in DOMAIN frames /\ IsKnown(Frame)
  BY <1>1, FrameIs
<1>3. /\ WalkedInto \in FrameType /\ WalkedInto.worlds = Frame.worlds /\ WalkedInto.width = Frame.width
      /\ WalkedInto.state = Frame.state
      /\ WalkedInto.segments = Append(Frame.segments, seg)
  BY <1>2, WalkedShape
<1>4. /\ its \in Seq(ItemType)
      /\ \A k \in DOMAIN its : \E t \in DOMAIN ir.types : its[k].field \in ToSet(ir.types[t])
      /\ OncePerState => \A j, k \in DOMAIN its :
           its[j].inst = its[k].inst /\ its[j].field.name = its[k].field.name => j = k
  <2>1. IsIr(ir) /\ Laid(ir)
    BY IrIs DEF ETypeOK
  <2>2. Frame.state \in DOMAIN ir.states
    BY <1>2 DEF IsKnown
  <2> QED BY <2>1, <2>2, ItemsFacts
<1>5. cts \in UNION {[D -> Nat] : D \in SUBSET STRING}
  <2>1. PICK D \in SUBSET STRING : WalkedInto.counts \in [D -> Nat]
    BY <1>3 DEF FrameType
  <2>2. cts \in [D -> Nat]
    BY <2>1
  <2> HIDE DEF cts
  <2> QED BY <2>2
<1> DEFINE f == WalkedInto
<1>6. f \in FrameType /\ c = [f EXCEPT !.at = "items", !.items = its, !.counts = cts]
  BY <1>3
<1> HIDE DEF its, cts, f, c
<1>7. /\ c \in FrameType /\ c.worlds = f.worlds /\ c.width = f.width /\ c.state = f.state
      /\ c.segments = f.segments /\ c.items = its
  BY <1>4, <1>5, <1>6 DEF FrameType
<1>8. IsKnown(c)
  BY <1>2, <1>3, <1>4, <1>7 DEF IsKnown, f
<1>9. c.worlds = Frame.worlds /\ c.width = Frame.width /\ c.segments = Append(Frame.segments, seg)
  BY <1>3, <1>7 DEF f
<1>10. OwnWorlds(c)
  BY <1>2, <1>9 DEF WorldsInv, OwnWorlds
<1>11. \A w \in c.worlds : \E v \in Frame.worlds : Begins(v.bits, w.bits)
  BY <1>2, <1>9, FrameShape DEF Begins
<1>12. Frame.segments \in Seq(Segment) /\ seg \in Segment /\ ~ IsCut(seg)
  <2>1. Frame.state \in STRING /\ 0 \in Nat /\ Frame.segments \in Seq(Segment)
    BY <1>2, FrameShape
  <2> QED BY <2>1, SegmentTypes
<1> HIDE DEF seg
<1>13. Begins(Frame.segments, c.segments)
  BY <1>9, <1>12, AppendClash
<1>14. ASSUME OncePerState
       PROVE  DistinctItems(c) /\ \A q \in paths : NameOff(q.id, c)
  <2>1. DistinctItems(c)
    BY <1>4, <1>7, <1>14 DEF DistinctItems
  <2>2. \A q \in paths : NameOff(q.id, c)
    BY <1>1, <1>7, <1>9, <1>12, <1>14, FreshIsOff
  <2> QED BY <2>1, <2>2
<1> DEFINE new == {}
<1>15. new \in SUBSET PathType /\ paths' = paths \cup new /\ paths \cup new = paths /\ \A p \in new : FALSE
  BY <1>1
<1> HIDE DEF new
<1> QED BY <1>1, <1>7, <1>8, <1>10, <1>11, <1>13, <1>14, <1>15, OneChild

\* The next field to lay out.
LEMMA ItemIs ==
  ASSUME ETypeOK, frames # <<>>, Frame.items # <<>>
  PROVE  /\ Item = Frame.items[1] /\ 1 \in DOMAIN Frame.items
         /\ Item.inst \in STRING /\ Item.field.name \in STRING /\ Item.field.n \in Nat
         /\ \E t \in DOMAIN ir.types : Item.field \in ToSet(ir.types[t])
         /\ Tail(Frame.items) \in Seq(ItemType)
         /\ \A k \in DOMAIN Tail(Frame.items) :
              /\ k + 1 \in DOMAIN Frame.items /\ k + 1 # 1
              /\ Tail(Frame.items)[k] = Frame.items[k + 1]
<1>1. Frame.items \in Seq(ItemType) /\ IsKnown(Frame)
  BY FrameIs, FrameShape
<1> DEFINE its == Frame.items
           I == ItemType
<1>2. its \in Seq(I) /\ its # <<>>
  BY <1>1
<1>3. Item = Head(its)
  BY DEF Item
<1>4. \A k \in DOMAIN its : \E t \in DOMAIN ir.types : its[k].field \in ToSet(ir.types[t])
  BY <1>1 DEF IsKnown
<1> HIDE DEF its, I
<1>5. /\ Head(its) = its[1] /\ 1 \in DOMAIN its /\ its[1] \in I /\ Tail(its) \in Seq(I)
      /\ \A k \in DOMAIN Tail(its) : k + 1 \in DOMAIN its /\ k + 1 # 1 /\ Tail(its)[k] = its[k + 1]
  BY <1>2
<1>6. \A x \in I : x.inst \in STRING /\ x.field \in Field
  BY DEF I, ItemType
<1>7. \A g \in Field : g.name \in STRING /\ g.n \in Nat
  BY DEF Field
<1> QED BY <1>3, <1>4, <1>5, <1>6, <1>7 DEF its, I

\* The name of a cut is new, and off the frame that has laid the field out.
LEMMA CutNames ==
  ASSUME ETypeOK, NamesInv, OncePerState, frames # <<>>, Frame.at = "items", Frame.items # <<>>,
         NEW c \in FrameType, c.segments = Frame.segments, c.items = Tail(Frame.items)
  PROVE  /\ DistinctItems(c)
         /\ \A q \in paths : NameOff(q.id, c)
         /\ \A seg \in CutsOf(Item) :
              /\ Append(Frame.segments, seg) \in Seq(Segment)
              /\ Begins(Frame.segments, Append(Frame.segments, seg))
              /\ \A q \in paths : Append(Frame.segments, seg) # q.id
              /\ NameOff(Append(Frame.segments, seg), c)
<1> DEFINE segs == Frame.segments
           its == Frame.items
           rest == Tail(its)
<1>1. /\ Item = its[1] /\ 1 \in DOMAIN its /\ Item.inst \in STRING /\ Item.field.name \in STRING
      /\ \A k \in DOMAIN rest : k + 1 \in DOMAIN its /\ k + 1 # 1 /\ rest[k] = its[k + 1]
  BY ItemIs
<1>2. segs \in Seq(Segment) /\ DistinctItems(Frame) /\ \A q \in paths : NameOff(q.id, Frame)
  BY FrameIs, FrameShape DEF NamesInv
<1>3. \A j, k \in DOMAIN its : its[j].inst = its[k].inst /\ its[j].field.name = its[k].field.name => j = k
  BY <1>2 DEF DistinctItems
<1>4. \A q \in paths : Begins(segs, q.id) =>
        \E seg \in Segment : q.id = Append(segs, seg) /\ IsCut(seg) /\ \A k \in DOMAIN its : seg \notin CutsOf(its[k])
  BY <1>2 DEF NameOff
<1>5. c.segments = segs /\ c.items = rest
  OBVIOUS
<1> HIDE DEF segs, its, rest
<1>6. DistinctItems(c)
  <2> SUFFICES ASSUME NEW j \in DOMAIN rest, NEW k \in DOMAIN rest,
                      rest[j].inst = rest[k].inst, rest[j].field.name = rest[k].field.name
               PROVE  j = k
    BY <1>5 DEF DistinctItems
  <2>1. j + 1 = k + 1
    BY <1>1, <1>3
  <2>2. DOMAIN rest = 1 .. Len(rest)
    BY ItemIs DEF rest, its
  <2> QED BY <2>1, <2>2
<1>7. \A k \in DOMAIN rest : \E j \in DOMAIN its : rest[k] = its[j]
  BY <1>1
<1>8. \A q \in paths : NameOff(q.id, c)
  BY <1>4, <1>5, <1>7 DEF NameOff
<1>9. ASSUME NEW seg \in CutsOf(Item)
      PROVE  /\ Append(segs, seg) \in Seq(Segment)
             /\ Begins(segs, Append(segs, seg))
             /\ \A q \in paths : Append(segs, seg) # q.id
             /\ NameOff(Append(segs, seg), c)
  <2>1. seg \in Segment /\ IsCut(seg)
    <3> DEFINE a == Item.inst
               b == Item.field.name
    <3>1. a \in STRING /\ b \in STRING /\ 0 \in Nat /\ seg \in {<<"!trunc", a, b>>, <<"!oob", a, b>>}
      BY <1>1 DEF CutsOf
    <3> HIDE DEF a, b
    <3> QED BY <3>1, SegmentTypes
  <2>2. Append(segs, seg) \in Seq(Segment) /\ Begins(segs, Append(segs, seg))
    BY <1>2, <2>1, AppendClash
  <2>3. ASSUME NEW q \in paths, Append(segs, seg) = q.id
        PROVE  FALSE
    <3>1. PICK old \in Segment : q.id = Append(segs, old) /\ \A k \in DOMAIN its : old \notin CutsOf(its[k])
      BY <1>4, <2>2, <2>3
    <3>2. old = seg
      BY <1>2, <2>1, <2>3, <3>1, AppendClash
    <3> QED BY <1>1, <1>9, <3>1, <3>2
  <2>4. ASSUME NEW k \in DOMAIN rest
        PROVE  seg \notin CutsOf(rest[k])
    <3>1. k + 1 \in DOMAIN its /\ k + 1 # 1 /\ rest[k] = its[k + 1]
      BY <1>1
    <3>2. its[1].inst # its[k + 1].inst \/ its[1].field.name # its[k + 1].field.name
      BY <1>1, <1>3, <3>1
    <3>3. CutsOf(its[1]) \cap CutsOf(its[k + 1]) = {}
      BY <3>2 DEF CutsOf
    <3> QED BY <1>1, <1>9, <3>1, <3>3
  <2>5. NameOff(Append(segs, seg), c)
    BY <1>5, <2>1, <2>4 DEF NameOff
  <2> QED BY <2>2, <2>3, <2>5
<1> QED BY <1>6, <1>8, <1>9 DEF segs, its, rest

\* The bits behind a cut.
LEMMA ZerosIsBits ==
  ASSUME NEW n \in Nat
  PROVE  Zeros(n) \in Seq(Bit) /\ Len(Zeros(n)) = n
BY DEF Zeros, Bit

\* Every value of the next n bits: the worlds grow apart, and a packet that ends
\* one bit before is none of them.
LEMMA OneRead ==
  ASSUME NEW f \in FrameType, OwnWorlds(f), NEW n \in Nat \ {0}, NEW v \in f.worlds, NEW w \in f.worlds,
         NEW b \in [1 .. n -> Bit], NEW d \in [1 .. n -> Bit]
  PROVE  /\ v.bits \o b \in Seq(Bit) /\ Len(v.bits \o b) <= f.width + n
         /\ Begins(v.bits, v.bits \o b)
         /\ Clash(v.bits \o b, w.bits \o d) => v = w /\ b = d
         /\ LET k == v.bits \o Zeros(OneBitShort(n))
            IN  /\ k \in Seq(Bit) /\ Len(k) <= f.width + n /\ Begins(v.bits, k)
                /\ ~ Begins(w.bits \o d, k)
<1>1. v.bits \in Seq(Bit) /\ w.bits \in Seq(Bit) /\ f.width \in Nat /\ Len(v.bits) <= f.width
  BY FrameShape DEF OwnWorlds
<1>2. b \in Seq(Bit) /\ d \in Seq(Bit) /\ Len(b) = n /\ Len(d) = n
  OBVIOUS
<1> DEFINE z == Zeros(OneBitShort(n))
<1>3. z \in Seq(Bit) /\ Len(z) = n - 1
  BY ZerosIsBits DEF OneBitShort
<1> DEFINE x == v.bits
           y == w.bits
<1>4. v # w => ~ Clash(x, y)
  BY DEF OwnWorlds
<1>5. x \in Seq(Bit) /\ y \in Seq(Bit) /\ Len(x) <= f.width /\ f.width \in Nat
  BY <1>1
<1> HIDE DEF z, x, y
<1>6. /\ x \o b \in Seq(Bit) /\ Len(x \o b) = Len(x) + n /\ y \o d \in Seq(Bit) /\ Len(y \o d) = Len(y) + n
      /\ x \o z \in Seq(Bit) /\ Len(x \o z) = Len(x) + n - 1 /\ Len(x) \in Nat /\ Len(y) \in Nat
  <2>1. \A r, t \in Seq(Bit) : r \o t \in Seq(Bit) /\ Len(r \o t) = Len(r) + Len(t) /\ Len(r) \in Nat
    OBVIOUS
  <2>2. x \o b \in Seq(Bit) /\ Len(x \o b) = Len(x) + n
    BY <1>2, <1>5, <2>1
  <2>3. y \o d \in Seq(Bit) /\ Len(y \o d) = Len(y) + n
    BY <1>2, <1>5, <2>1
  <2>4. x \o z \in Seq(Bit) /\ Len(x \o z) = Len(x) + Len(z) /\ Len(x) \in Nat /\ Len(y) \in Nat
    BY <1>3, <1>5, <2>1
  <2> QED BY <1>3, <2>2, <2>3, <2>4
<1>7. Begins(x, x \o b) /\ Begins(x, x \o z) /\ Begins(y, y \o d)
  BY <1>2, <1>3, <1>5, BeginsConcat
<1>8. v # w => ~ Clash(x \o b, y \o d) /\ ~ Clash(x \o z, y \o d)
  BY <1>4, <1>5, <1>6, <1>7, StayApart
<1>9. v = w => x = y
  BY DEF x, y
<1>10. Clash(x \o b, y \o d) => v = w /\ b = d
  BY <1>2, <1>5, <1>8, <1>9, SameLengthClash
<1>11. ~ Begins(y \o d, x \o z)
  <2>1. CASE v = w
    BY <1>6, <1>9, <2>1 DEF Begins
  <2>2. CASE v # w
    BY <1>8, <2>2 DEF Clash
  <2> QED BY <2>1, <2>2
<1> QED BY <1>5, <1>6, <1>7, <1>10, <1>11 DEF x, y, z

\* Reading a field keeps the environment typed.
LEMMA EnvGrows ==
  ASSUME NEW e \in EnvType, NEW key \in STRING \X STRING, NEW b \in Seq(Bit)
  PROVE  ReadInto(e, key, b) \in EnvType
<1>1. PICK D \in SUBSET (STRING \X STRING) : e \in [D -> Seq(Bit)]
  BY DEF EnvType
<1> DEFINE D2 == D \cup {key}
<1>2. ReadInto(e, key, b) \in [D2 -> Seq(Bit)]
  BY <1>1 DEF ReadInto
<1>3. D2 \in SUBSET (STRING \X STRING)
  OBVIOUS
<1> HIDE DEF D2
<1> QED BY <1>2, <1>3 DEF EnvType

\* Every world of the frame is read on and cut short; none of these meets another.
LEMMA AllReads ==
  ASSUME Frame \in FrameType, OwnWorlds(Frame), NEW n \in Nat \ {0}, NEW key \in STRING \X STRING
  PROVE  /\ Read(n, key) \in SUBSET WorldType
         /\ \A x \in Read(n, key) : Len(x.bits) <= Frame.width + n /\ \E v \in Frame.worlds : Begins(v.bits, x.bits)
         /\ \A x, y \in Read(n, key) : x # y => ~ Clash(x.bits, y.bits)
         /\ CutShort(n) \in SUBSET Seq(Bit)
         /\ \A k \in CutShort(n) : Len(k) <= Frame.width + n /\ \E v \in Frame.worlds : Begins(v.bits, k)
         /\ \A k \in CutShort(n), x \in Read(n, key) : ~ Begins(x.bits, k)
<1> DEFINE Short(w) == w.bits \o Zeros(OneBitShort(n))
<1>1. \A w \in Frame.worlds, b \in [1 .. n -> Bit] :
        /\ WithBits(w, key, b).bits \in Seq(Bit) /\ Len(WithBits(w, key, b).bits) <= Frame.width + n
        /\ Begins(w.bits, WithBits(w, key, b).bits)
  BY OneRead DEF WithBits
<1>2. ASSUME NEW v \in Frame.worlds, NEW w \in Frame.worlds, NEW b \in [1 .. n -> Bit], NEW d \in [1 .. n -> Bit],
             Clash(WithBits(v, key, b).bits, WithBits(w, key, d).bits)
      PROVE  WithBits(v, key, b) = WithBits(w, key, d)
  <2>1. Clash(v.bits \o b, w.bits \o d)
    BY <1>2 DEF WithBits
  <2>2. v = w /\ b = d
    BY <2>1, OneRead
  <2> QED BY <2>2
<1>3. ASSUME NEW w \in Frame.worlds, NEW b \in [1 .. n -> Bit]
      PROVE  WithBits(w, key, b) \in WorldType
  <2>1. w.env \in EnvType /\ b \in Seq(Bit)
    BY FrameShape
  <2>2. ReadInto(w.env, key, b) \in EnvType
    BY <2>1, EnvGrows
  <2>3. w.bits \o b \in Seq(Bit)
    BY <1>1 DEF WithBits
  <2> QED BY <2>2, <2>3 DEF WorldType, WithBits
<1>4. [i \in 1 .. n |-> 0] \in [1 .. n -> Bit]
  BY DEF Bit
<1>5. ASSUME NEW w \in Frame.worlds
      PROVE  Short(w) \in Seq(Bit) /\ Len(Short(w)) <= Frame.width + n /\ Begins(w.bits, Short(w))
  <2> DEFINE zeros == [i \in 1 .. n |-> 0]
  <2>1. zeros \in [1 .. n -> Bit]
    BY <1>4
  <2> HIDE DEF zeros
  <2> QED BY <2>1, OneRead
<1>6. ASSUME NEW v \in Frame.worlds, NEW w \in Frame.worlds, NEW d \in [1 .. n -> Bit]
      PROVE  ~ Begins(WithBits(w, key, d).bits, Short(v))
  <2>1. ~ Begins(w.bits \o d, Short(v))
    BY OneRead
  <2> QED BY <2>1 DEF WithBits
<1>7. \A x \in Read(n, key) : \E w \in Frame.worlds, b \in [1 .. n -> Bit] : x = WithBits(w, key, b)
  BY DEF Read
<1>8. \A k \in CutShort(n) : \E w \in Frame.worlds : k = Short(w)
  BY DEF CutShort
<1> HIDE DEF Short
<1>9. Read(n, key) \in SUBSET WorldType
  BY <1>3, <1>7
<1>10. \A x \in Read(n, key) : Len(x.bits) <= Frame.width + n /\ \E v \in Frame.worlds : Begins(v.bits, x.bits)
  BY <1>1, <1>7
<1>11. \A x, y \in Read(n, key) : x # y => ~ Clash(x.bits, y.bits)
  BY <1>2, <1>7
<1>12. /\ CutShort(n) \in SUBSET Seq(Bit)
       /\ \A k \in CutShort(n) : Len(k) <= Frame.width + n /\ \E v \in Frame.worlds : Begins(v.bits, k)
  BY <1>5, <1>8
<1>13. \A k \in CutShort(n), x \in Read(n, key) : ~ Begins(x.bits, k)
  BY <1>6, <1>7, <1>8
<1> QED BY <1>9, <1>10, <1>11, <1>12, <1>13

\* A frame that has laid out a field.
LEMMA LaidOutShape ==
  ASSUME ETypeOK, frames # <<>>, Frame.items # <<>>, NEW placed \in SUBSET (STRING \X STRING),
         NEW m \in Nat, NEW worlds \in SUBSET WorldType
  PROVE  LET c == LaidOut(placed, m, worlds)
         IN  /\ c \in FrameType /\ c.items = Tail(Frame.items) /\ c.width = m /\ c.worlds = worlds
             /\ c.segments = Frame.segments /\ c.state = Frame.state /\ IsKnown(c)
<1> DEFINE f == Frame
           items == Tail(Frame.items)
           c == [f EXCEPT !.items = items, !.placed = placed, !.width = m, !.worlds = worlds]
<1>1. f \in FrameType /\ items \in Seq(ItemType)
  BY FrameIs, ItemIs
<1>2. LaidOut(placed, m, worlds) = c
  BY DEF LaidOut
<1> HIDE DEF f, items
<1>3. c \in FrameType
  BY <1>1 DEF FrameType
<1>4. c.items = items /\ c.width = m /\ c.worlds = worlds /\ c.segments = f.segments /\ c.state = f.state
  BY <1>1 DEF FrameType
<1> HIDE DEF c
<1>5. \A k \in DOMAIN c.items : \E j \in DOMAIN Frame.items : c.items[k] = Frame.items[j]
  BY <1>4, ItemIs DEF items
<1>6. IsKnown(Frame)
  BY FrameIs
<1>7. IsKnown(c)
  BY <1>4, <1>5, <1>6 DEF IsKnown, f
<1> QED BY <1>2, <1>3, <1>4, <1>7 DEF f, items

\* The two paths of a field that is not read.
LEMMA CutPath ==
  ASSUME ETypeOK, frames # <<>>, Frame.items # <<>>, NEW m \in Nat, NEW packets \in SUBSET Seq(Bit)
  PROVE  /\ LET p == CutOff(m, packets)
            IN  p \in PathType /\ p.id = Cut /\ p.width = m /\ p.packets = packets
         /\ LET p == Refused(packets)
            IN  p \in PathType /\ p.id = OutOfRange /\ p.width = Frame.width /\ p.packets = packets
<1> DEFINE a == Item.inst
           b == Item.field.name
           segs == Frame.segments
<1>1. a \in STRING /\ b \in STRING /\ 0 \in Nat /\ segs \in Seq(Segment)
  BY ItemIs, FrameIs, FrameShape
<1>2. Cut = Append(segs, <<"!trunc", a, b>>) /\ OutOfRange = Append(segs, <<"!oob", a, b>>)
  BY DEF Cut, OutOfRange
<1> HIDE DEF a, b, segs
<1>3. <<"!trunc", a, b>> \in Segment /\ <<"!oob", a, b>> \in Segment
  BY <1>1, SegmentTypes
<1>4. Cut \in Seq(Segment) /\ OutOfRange \in Seq(Segment)
  BY <1>1, <1>2, <1>3
<1>5. "truncation" \in Kinds /\ "reject" \in Kinds /\ "out of bounds" \in Reasons
  BY DEF Kinds, Reasons
<1> HIDE DEF Cut, OutOfRange
<1> DEFINE p == CutOff(m, packets)
           q == Refused(packets)
<1>6. packets \in SUBSET Seq(Bit) /\ Frame.width \in Nat
  BY FrameIs, FrameShape
<1> DEFINE l == Frame.width
<1> HIDE DEF l
<1>9. l \in Nat
  BY <1>6 DEF l
<1>7. p \in PathType /\ p.id = Cut /\ p.width = m /\ p.packets = packets
  <2> DEFINE kind == "truncation"
             reason == "out of bounds"
  <2>1. kind \in Kinds /\ reason \in Reasons /\ p = PathOf(Cut, kind, reason, m, packets)
    BY <1>5 DEF CutOff
  <2>2. Cut \in Seq(Segment) /\ m \in Nat
    BY <1>4
  <2> HIDE DEF kind, reason, p
  <2>3. PathOf(Cut, kind, reason, m, packets) \in PathType
    BY <1>6, <2>1, <2>2, PathOfType
  <2>4. LET x == PathOf(Cut, kind, reason, m, packets)
        IN  x.id = Cut /\ x.width = m /\ x.packets = packets
    BY DEF PathOf
  <2> QED BY <2>1, <2>3, <2>4
<1>8. q \in PathType /\ q.id = OutOfRange /\ q.width = Frame.width /\ q.packets = packets
  <2> DEFINE kind == "reject"
             reason == "out of bounds"
  <2>1. kind \in Kinds /\ reason \in Reasons /\ q = PathOf(OutOfRange, kind, reason, l, packets)
    BY <1>5 DEF Refused, l
  <2> HIDE DEF kind, reason, q
  <2>2. q \in PathType /\ q.id = OutOfRange /\ q.width = l /\ q.packets = packets
    BY <1>4, <1>6, <1>9, <2>1, PathOfType
  <2> QED BY <2>2 DEF l
<1> QED BY <1>7, <1>8

\* A fixed-width field: the cut, and one world per value.
LEMMA BitsMoves ==
  ASSUME ETypeOK, WorldsInv, NamesInv, WalkBits
  PROVE  Moves
<1> DEFINE n == Item.field.n
           key == <<Item.inst, Item.field.name>>
           short == CutShort(n)
           longer == Read(n, key)
           rest == Tail(Frame.items)
           m == Frame.width + n
           places == Frame.placed \cup {key}
           p == CutOff(m, short)
           c == LaidOut(places, m, longer)
           new == {p}
<1>1. /\ frames # <<>> /\ ir' = ir /\ frames' = <<c>> \o Tail(frames) /\ paths' = paths \cup new
      /\ Frame.items # <<>> /\ Item.field.width = "bits" /\ Frame.at = "items"
  <2>1. Emit(new) /\ Continue(<<c>>)
    BY DEF WalkBits
  <2>2. LayingOut("bits") /\ ir' = ir
    BY DEF WalkBits
  <2> HIDE DEF new, c
  <2> QED BY <2>1, <2>2 DEF LayingOut, Emit, Continue
<1>2. Frame \in FrameType /\ Frame = frames[1] /\ 1 \in DOMAIN frames
  BY <1>1, FrameIs
<1>3. /\ Item.inst \in STRING /\ Item.field.name \in STRING /\ rest \in Seq(ItemType)
      /\ \E t \in DOMAIN ir.types : Item.field \in ToSet(ir.types[t])
  BY <1>1, ItemIs
<1>4. n \in Nat \ {0}
  <2>1. n \in 1 .. WordBits
    BY <1>1, <1>3, IrIs DEF Laid, ETypeOK
  <2> QED BY <2>1, WordBitsAssumption
<1>5. OwnWorlds(Frame)
  BY <1>2 DEF WorldsInv
<1>6. m \in Nat /\ key \in STRING \X STRING /\ places \in SUBSET (STRING \X STRING)
  <2>1. Frame.width \in Nat /\ Frame.placed \in SUBSET (STRING \X STRING)
    BY <1>2 DEF FrameType
  <2> QED BY <1>3, <1>4, <2>1
<1>7. /\ longer \in SUBSET WorldType
      /\ \A x \in longer : Len(x.bits) <= m /\ \E v \in Frame.worlds : Begins(v.bits, x.bits)
      /\ \A x, y \in longer : x # y => ~ Clash(x.bits, y.bits)
      /\ short \in SUBSET Seq(Bit)
      /\ \A k \in short : Len(k) <= m /\ \E v \in Frame.worlds : Begins(v.bits, k)
      /\ \A k \in short, x \in longer : ~ Begins(x.bits, k)
  <2> HIDE DEF n, key
  <2> QED BY <1>2, <1>4, <1>5, <1>6, AllReads
<1> HIDE DEF n, key, short, longer, rest, m, places
<1>8. /\ c \in FrameType /\ c.items = rest /\ c.width = m /\ c.worlds = longer
      /\ c.segments = Frame.segments /\ IsKnown(c)
  BY <1>1, <1>6, <1>7, LaidOutShape DEF rest
<1>9. p \in PathType /\ p.id = Cut /\ p.width = m /\ p.packets = short
  BY <1>1, <1>6, <1>7, CutPath
<1> HIDE DEF c, p
<1>11. OwnWorlds(c) /\ \A w \in c.worlds : \E v \in Frame.worlds : Begins(v.bits, w.bits)
  BY <1>7, <1>8 DEF OwnWorlds
<1>12. /\ OwnPackets(p) /\ PacketsOff(p, c)
       /\ \A k \in p.packets : \E v \in Frame.worlds : Begins(v.bits, k)
  BY <1>7, <1>8, <1>9 DEF OwnPackets, PacketsOff
<1>13. ASSUME OncePerState
       PROVE  /\ DistinctItems(c) /\ Begins(Frame.segments, c.segments) /\ Begins(Frame.segments, p.id)
              /\ \A q \in paths : p.id # q.id /\ NameOff(q.id, c)
              /\ NameOff(p.id, c)
  <2> DEFINE seg == <<"!trunc", Item.inst, Item.field.name>>
  <2>1. seg \in CutsOf(Item) /\ p.id = Append(Frame.segments, seg)
    BY <1>9 DEF CutsOf, Cut
  <2>2. Begins(Frame.segments, Frame.segments)
    BY <1>2, FrameShape DEF Begins
  <2> HIDE DEF seg
  <2> QED BY <1>1, <1>8, <1>13, <2>1, <2>2, CutNames DEF rest
<1>14. new \in SUBSET PathType /\ \A x \in new : x = p
  BY <1>9
<1> HIDE DEF new
<1> QED BY <1>1, <1>8, <1>11, <1>12, <1>13, <1>14, OneChild

\* One world of a body of l bytes, and the packet that is cut in it.
LEMMA OneBody ==
  ASSUME Frame \in FrameType, OwnWorlds(Frame), BodyBound \in Nat, NEW w \in WorldsWithin(0, BodyBound)
  PROVE  LET x == [w EXCEPT !.bits = @ \o Zeros(BodyBits(w))]
             k == w.bits \o Zeros(OneBitShort(BodyBits(w)))
         IN  /\ w \in Frame.worlds /\ w.bits \in Seq(Bit)
             /\ x \in WorldType /\ x.bits \in Seq(Bit) /\ Begins(w.bits, x.bits)
             /\ Len(x.bits) <= Frame.width + ByteBits * BodyBound
             /\ w \in WorldsWithin(1, BodyBound) =>
                  /\ k \in Seq(Bit) /\ Begins(w.bits, k) /\ Len(k) = Len(x.bits) - 1
                  /\ Len(k) <= Frame.width + ByteBits * BodyBound
<1> DEFINE t == TermValue(Item.field.n, w.env)
           B == BodyBound
           s == w.bits
           m == BodyBits(w)
           x == [w EXCEPT !.bits = s \o Zeros(m)]
<1>1. w \in Frame.worlds /\ t \in 0 .. B
  BY DEF WorldsWithin
<1>2. w \in WorldType /\ s \in Seq(Bit) /\ w.env \in EnvType /\ Frame.width \in Nat /\ Len(s) <= Frame.width
  BY <1>1, FrameShape DEF OwnWorlds
<1>3. m = ByteBits * t
  BY DEF BodyBits
<1>4. w \in WorldsWithin(1, BodyBound) => t >= 1
  BY DEF WorldsWithin
<1>5. ByteBits \in Nat \ {0} /\ B \in Nat
  BY ByteBitsAssumption
<1> HIDE DEF t, B, s
<1>6. m \in Nat /\ m <= ByteBits * B /\ (t >= 1 => m >= 1)
  <2>1. \A a \in Nat \ {0}, i, j \in Nat : i <= j => a * i \in Nat /\ a * i <= a * j /\ (i >= 1 => a * i >= 1)
    OBVIOUS
  <2>2. t \in Nat /\ t <= B
    BY <1>1, <1>5
  <2> QED BY <1>3, <1>5, <2>1, <2>2
<1> HIDE DEF m
<1>7. Zeros(m) \in Seq(Bit) /\ Len(Zeros(m)) = m
  BY <1>6, ZerosIsBits
<1>8. s \o Zeros(m) \in Seq(Bit) /\ Len(s \o Zeros(m)) = Len(s) + m /\ Len(s) \in Nat /\ Begins(s, s \o Zeros(m))
  BY <1>2, <1>7, BeginsConcat
<1>9. x \in WorldType /\ x.bits = s \o Zeros(m)
  BY <1>2, <1>8 DEF WorldType
<1>10. ByteBits * B \in Nat
  BY <1>5
<1>11. Len(x.bits) <= Frame.width + ByteBits * B
  BY <1>2, <1>6, <1>8, <1>9, <1>10
<1>12. ASSUME w \in WorldsWithin(1, BodyBound)
       PROVE  LET k == s \o Zeros(OneBitShort(m))
              IN  /\ k \in Seq(Bit) /\ Begins(s, k) /\ Len(k) = Len(x.bits) - 1
                  /\ Len(k) <= Frame.width + ByteBits * B
  <2>1. m - 1 \in Nat
    BY <1>4, <1>6, <1>12
  <2> DEFINE z == Zeros(OneBitShort(m))
  <2>2. z \in Seq(Bit) /\ Len(z) = m - 1
    BY <2>1, ZerosIsBits DEF OneBitShort
  <2> HIDE DEF z
  <2>3. s \o z \in Seq(Bit) /\ Len(s \o z) = Len(s) + (m - 1) /\ Begins(s, s \o z)
    BY <1>2, <2>2, BeginsConcat
  <2>4. Len(s \o z) = Len(x.bits) - 1
    <3>1. Len(x.bits) = Len(s) + m
      BY <1>8, <1>9
    <3> HIDE DEF x
    <3> QED BY <1>6, <1>8, <2>3, <3>1
  <2>5. Len(s \o z) <= Frame.width + ByteBits * B
    BY <1>2, <1>6, <1>8, <1>10, <2>3
  <2> QED BY <2>3, <2>4, <2>5 DEF z
<1> QED BY <1>1, <1>2, <1>8, <1>9, <1>11, <1>12 DEF s, m, B

\* The three ways of a body do not meet: beyond the bound, cut short, read over.
LEMMA AllBodies ==
  ASSUME Frame \in FrameType, OwnWorlds(Frame), BodyBound \in Nat
  PROVE  LET longer == ReadOver(InBound)
             short == BodyCutShort(WorldsWithin(1, BodyBound))
             over == PrefixesOf(WorldsWithin(BodyBound + 1, 2^WordBits - 1))
             widest == Frame.width + ByteBits * BodyBound
         IN  /\ longer \in SUBSET WorldType
             /\ \A x \in longer : Len(x.bits) <= widest /\ \E v \in Frame.worlds : Begins(v.bits, x.bits)
             /\ \A x, y \in longer : x # y => ~ Clash(x.bits, y.bits)
             /\ short \in SUBSET Seq(Bit)
             /\ \A k \in short : Len(k) <= widest /\ \E v \in Frame.worlds : Begins(v.bits, k)
             /\ \A k \in short, x \in longer : ~ Begins(x.bits, k)
             /\ over \in SUBSET Seq(Bit)
             /\ \A k \in over : Len(k) <= Frame.width /\ \E v \in Frame.worlds : Begins(v.bits, k)
             /\ \A k \in over, x \in longer : ~ Begins(x.bits, k)
             /\ over \cap short = {}
<1> DEFINE Long(w) == [w EXCEPT !.bits = @ \o Zeros(BodyBits(w))]
           Short(w) == w.bits \o Zeros(OneBitShort(BodyBits(w)))
           inside == WorldsWithin(0, BodyBound)
           some == WorldsWithin(1, BodyBound)
           beyond == WorldsWithin(BodyBound + 1, 2^WordBits - 1)
           widest == Frame.width + ByteBits * BodyBound
<1>1. \A w \in inside :
        /\ w \in Frame.worlds /\ w.bits \in Seq(Bit)
        /\ Long(w) \in WorldType /\ Long(w).bits \in Seq(Bit) /\ Begins(w.bits, Long(w).bits)
        /\ Len(Long(w).bits) <= widest
        /\ w \in some => /\ Short(w) \in Seq(Bit) /\ Begins(w.bits, Short(w))
                         /\ Len(Short(w)) = Len(Long(w).bits) - 1 /\ Len(Short(w)) <= widest
  BY OneBody
<1>2. some \subseteq inside
  BY DEF WorldsWithin
<1>3. ASSUME NEW w \in beyond
      PROVE  /\ w \in Frame.worlds /\ w \notin inside
             /\ w.bits \in Seq(Bit) /\ Begins(w.bits, w.bits) /\ Len(w.bits) <= Frame.width
  <2> DEFINE v == TermValue(Item.field.n, w.env)
  <2>1. w \in Frame.worlds /\ v \in BodyBound + 1 .. 2^WordBits - 1 /\ (w \in inside => v \in 0 .. BodyBound)
    BY DEF WorldsWithin
  <2> HIDE DEF v
  <2>2. w \notin inside
    BY <2>1
  <2>3. w.bits \in Seq(Bit) /\ Len(w.bits) <= Frame.width
    BY <2>1, FrameShape DEF OwnWorlds
  <2> QED BY <2>1, <2>2, <2>3 DEF Begins
<1>4. \A v, w \in Frame.worlds : v # w => ~ Clash(v.bits, w.bits)
  BY DEF OwnWorlds
<1>5. /\ \A x \in ReadOver(InBound) : \E w \in inside : x = Long(w)
      /\ \A k \in BodyCutShort(some) : \E w \in some : k = Short(w)
      /\ \A k \in PrefixesOf(beyond) : \E w \in beyond : k = w.bits
  BY DEF ReadOver, BodyCutShort, PrefixesOf, InBound
<1> HIDE DEF Long, Short, inside, some, beyond, widest
<1>6. ASSUME NEW v \in inside, NEW w \in inside, v # w
      PROVE  ~ Clash(Long(v).bits, Long(w).bits) /\ (v \in some => ~ Begins(Long(w).bits, Short(v)))
  <2>1. ~ Clash(v.bits, w.bits)
    BY <1>1, <1>4, <1>6
  <2>2. ~ Clash(Long(v).bits, Long(w).bits)
    BY <1>1, <2>1, StayApart
  <2>3. v \in some => ~ Clash(Short(v), Long(w).bits)
    BY <1>1, <2>1, StayApart
  <2> QED BY <2>2, <2>3 DEF Clash
<1>7. ASSUME NEW v \in some
      PROVE  ~ Begins(Long(v).bits, Short(v))
  <2>1. Len(Short(v)) = Len(Long(v).bits) - 1 /\ Len(Long(v).bits) \in Nat
    BY <1>1, <1>2
  <2> QED BY <2>1 DEF Begins
<1>8. ASSUME NEW v \in beyond, NEW w \in inside
      PROVE  ~ Begins(Long(w).bits, v.bits) /\ (w \in some => v.bits # Short(w))
  <2>1. ~ Clash(v.bits, w.bits)
    BY <1>1, <1>3, <1>4
  <2>2. ~ Clash(v.bits, Long(w).bits)
    BY <1>1, <1>3, <2>1, StayApart
  <2>3. w \in some => v.bits # Short(w)
    BY <1>1, <2>1 DEF Clash
  <2> QED BY <2>2, <2>3 DEF Clash
<1>9. ReadOver(InBound) \in SUBSET WorldType
  BY <1>1, <1>5
<1>10. \A x \in ReadOver(InBound) : Len(x.bits) <= widest /\ \E v \in Frame.worlds : Begins(v.bits, x.bits)
  BY <1>1, <1>5
<1>11. \A x, y \in ReadOver(InBound) : x # y => ~ Clash(x.bits, y.bits)
  BY <1>5, <1>6
<1>12. BodyCutShort(some) \in SUBSET Seq(Bit)
  BY <1>1, <1>2, <1>5
<1>13. \A k \in BodyCutShort(some) : Len(k) <= widest /\ \E v \in Frame.worlds : Begins(v.bits, k)
  BY <1>1, <1>2, <1>5
<1>14. ASSUME NEW k \in BodyCutShort(some), NEW x \in ReadOver(InBound)
       PROVE  ~ Begins(x.bits, k)
  <2>1. PICK v \in some : k = Short(v)
    BY <1>5
  <2>2. PICK w \in inside : x = Long(w)
    BY <1>5
  <2>3. v \in inside
    BY <1>2
  <2> QED BY <1>6, <1>7, <2>1, <2>2, <2>3
<1>15. PrefixesOf(beyond) \in SUBSET Seq(Bit)
  BY <1>3, <1>5
<1>16. \A k \in PrefixesOf(beyond) : Len(k) <= Frame.width /\ \E v \in Frame.worlds : Begins(v.bits, k)
  BY <1>3, <1>5
<1>17. \A k \in PrefixesOf(beyond), x \in ReadOver(InBound) : ~ Begins(x.bits, k)
  BY <1>5, <1>8
<1>18. PrefixesOf(beyond) \cap BodyCutShort(some) = {}
  BY <1>2, <1>5, <1>8
<1> QED BY <1>9, <1>10, <1>11, <1>12, <1>13, <1>14, <1>15, <1>16, <1>17, <1>18 DEF some, beyond, widest

\* A variable-length field: at most two paths, and the frame behind the body.
LEMMA BodyMoves ==
  ASSUME ETypeOK, WorldsInv, NamesInv, WalkBody
  PROVE  Moves
<1> DEFINE over == PrefixesOf(WorldsWithin(BodyBound + 1, 2^WordBits - 1))
           short == BodyCutShort(WorldsWithin(1, BodyBound))
           longer == ReadOver(InBound)
           m == Frame.width + ByteBits * BodyBound
           beyond == Refused(over)
           cutBody == CutOff(m, short)
           c == LaidOut(Frame.placed, m, longer)
           new == {p \in {beyond, cutBody} : Sat(p.packets)}
<1>1. /\ frames # <<>> /\ ir' = ir /\ frames' = <<c>> \o Tail(frames) /\ paths' = paths \cup new
      /\ Frame.items # <<>> /\ Item.field.width = "bytes" /\ Frame.at = "items"
  <2>1. Emit(new) /\ Continue(<<c>>)
    BY DEF WalkBody
  <2>2. LayingOut("bytes") /\ ir' = ir
    BY DEF WalkBody, LayingOutBody
  <2> HIDE DEF new, c
  <2> QED BY <2>1, <2>2 DEF LayingOut, Emit, Continue
<1>2. Frame \in FrameType /\ Frame = frames[1] /\ 1 \in DOMAIN frames
  BY <1>1, FrameIs
<1>3. BodyBound \in Nat
  <2>1. PICK t \in DOMAIN ir.types : Item.field \in ToSet(ir.types[t])
    BY <1>1, ItemIs
  <2>2. IsIr(ir) /\ Laid(ir)
    BY IrIs DEF ETypeOK
  <2>3. \E k \in DOMAIN ir.types[t] : Item.field = ir.types[t][k]
    <3>1. ir.types[t] \in Seq(Field)
      BY <2>2 DEF IsIr
    <3> QED BY <2>1, <3>1 DEF ToSet
  <2>4. Item.field.n \in DOMAIN ir.exprs
    BY <1>1, <2>2, <2>3 DEF IsIr
  <2>5. ir.exprs \in Seq(Expr)
    BY <2>2 DEF IsIr
  <2>6. Item.field.n \in 0 .. Len(ir.exprs)
    BY <2>4, <2>5
  <2> QED BY <2>2, <2>6, BoundType DEF BodyBound
<1>4. OwnWorlds(Frame)
  BY <1>2 DEF WorldsInv
<1>5. m \in Nat /\ Frame.width \in Nat /\ Frame.placed \in SUBSET (STRING \X STRING)
  <2>1. Frame.width \in Nat /\ Frame.placed \in SUBSET (STRING \X STRING)
    BY <1>2 DEF FrameType
  <2>2. ByteBits * BodyBound \in Nat
    BY <1>3, ByteBitsAssumption
  <2> QED BY <2>1, <2>2
<1>6. /\ longer \in SUBSET WorldType
      /\ \A x \in longer : Len(x.bits) <= m /\ \E v \in Frame.worlds : Begins(v.bits, x.bits)
      /\ \A x, y \in longer : x # y => ~ Clash(x.bits, y.bits)
      /\ short \in SUBSET Seq(Bit)
      /\ \A k \in short : Len(k) <= m /\ \E v \in Frame.worlds : Begins(v.bits, k)
      /\ \A k \in short, x \in longer : ~ Begins(x.bits, k)
      /\ over \in SUBSET Seq(Bit)
      /\ \A k \in over : Len(k) <= Frame.width /\ \E v \in Frame.worlds : Begins(v.bits, k)
      /\ \A k \in over, x \in longer : ~ Begins(x.bits, k)
      /\ over \cap short = {}
  BY <1>2, <1>3, <1>4, AllBodies
<1> HIDE DEF over, short, longer, m
<1>7. /\ c \in FrameType /\ c.items = Tail(Frame.items) /\ c.width = m /\ c.worlds = longer
      /\ c.segments = Frame.segments /\ IsKnown(c)
  BY <1>1, <1>5, <1>6, LaidOutShape
<1>8. /\ cutBody \in PathType /\ cutBody.id = Cut /\ cutBody.width = m /\ cutBody.packets = short
      /\ beyond \in PathType /\ beyond.id = OutOfRange /\ beyond.width = Frame.width /\ beyond.packets = over
  <2>1. cutBody \in PathType /\ cutBody.id = Cut /\ cutBody.width = m /\ cutBody.packets = short
    BY <1>1, <1>5, <1>6, CutPath
  <2>2. beyond \in PathType /\ beyond.id = OutOfRange /\ beyond.width = Frame.width /\ beyond.packets = over
    BY <1>1, <1>5, <1>6, CutPath
  <2> QED BY <2>1, <2>2
<1>9. new \in SUBSET PathType /\ \A p \in new : p = beyond \/ p = cutBody
  BY <1>8
<1> HIDE DEF c, beyond, cutBody, new
<1>10. OwnWorlds(c) /\ \A w \in c.worlds : \E v \in Frame.worlds : Begins(v.bits, w.bits)
  BY <1>6, <1>7 DEF OwnWorlds
<1>11. /\ OwnPackets(beyond) /\ PacketsOff(beyond, c)
       /\ \A k \in beyond.packets : \E v \in Frame.worlds : Begins(v.bits, k)
  BY <1>6, <1>7, <1>8 DEF OwnPackets, PacketsOff
<1>12. /\ OwnPackets(cutBody) /\ PacketsOff(cutBody, c)
       /\ \A k \in cutBody.packets : \E v \in Frame.worlds : Begins(v.bits, k)
  BY <1>6, <1>7, <1>8 DEF OwnPackets, PacketsOff
<1>13. beyond.packets \cap cutBody.packets = {}
  BY <1>6, <1>8
<1>14. ASSUME OncePerState
       PROVE  /\ DistinctItems(c) /\ Begins(Frame.segments, c.segments)
              /\ \A q \in paths : NameOff(q.id, c)
              /\ \A p \in {beyond, cutBody} :
                   /\ Begins(Frame.segments, p.id)
                   /\ \A q \in paths : p.id # q.id
                   /\ NameOff(p.id, c)
              /\ beyond.id # cutBody.id
  <2> DEFINE cut == <<"!trunc", Item.inst, Item.field.name>>
             oob == <<"!oob", Item.inst, Item.field.name>>
             segs == Frame.segments
  <2>1. /\ cut \in CutsOf(Item) /\ cutBody.id = Append(segs, cut)
        /\ oob \in CutsOf(Item) /\ beyond.id = Append(segs, oob)
        /\ cut # oob
    BY <1>8 DEF CutsOf, Cut, OutOfRange
  <2>2. Begins(segs, segs) /\ segs \in Seq(Segment)
    BY <1>2, FrameShape DEF Begins
  <2>3. cut \in Segment /\ oob \in Segment
    <3> DEFINE a == Item.inst
               b == Item.field.name
    <3>1. a \in STRING /\ b \in STRING /\ 0 \in Nat
      BY <1>1, ItemIs
    <3> HIDE DEF a, b
    <3>2. <<"!trunc", a, b>> \in Segment /\ <<"!oob", a, b>> \in Segment
      BY <3>1, SegmentTypes
    <3> QED BY <3>2 DEF a, b
  <2> HIDE DEF cut, oob
  <2>4. cutBody.id # beyond.id
    <3> HIDE DEF segs
    <3> QED BY <2>1, <2>2, <2>3, AppendClash
  <2>5. /\ DistinctItems(c)
        /\ \A q \in paths : NameOff(q.id, c)
        /\ \A seg \in CutsOf(Item) :
              /\ Begins(Frame.segments, Append(Frame.segments, seg))
              /\ \A q \in paths : Append(Frame.segments, seg) # q.id
              /\ NameOff(Append(Frame.segments, seg), c)
    BY <1>1, <1>7, <1>14, CutNames
  <2> QED BY <1>7, <2>1, <2>2, <2>4, <2>5
<1>15. \A p \in new : OwnPackets(p) /\ PacketsOff(p, c)
  BY <1>9, <1>11, <1>12
<1>16. \A p \in new : \A k \in p.packets : \E v \in Frame.worlds : Begins(v.bits, k)
  BY <1>9, <1>11, <1>12
<1>17. \A p, q \in new : p # q => p.packets \cap q.packets = {}
  BY <1>9, <1>13
<1>18. OncePerState => /\ DistinctItems(c)
                       /\ Begins(Frame.segments, c.segments)
                       /\ \A p \in new : Begins(Frame.segments, p.id)
                       /\ \A p \in new : \A q \in paths : p.id # q.id
                       /\ \A p \in paths \cup new : NameOff(p.id, c)
                       /\ \A p, q \in new : p # q => p.id # q.id
  BY <1>9, <1>14
<1> QED BY <1>1, <1>7, <1>9, <1>10, <1>15, <1>16, <1>17, <1>18, OneChild

(***************************************************************************)
(* Transitions.                                                            *)
(***************************************************************************)
LEMMA TransTypes ==
  ASSUME IsIr(ir), Laid(ir), NEW s \in DOMAIN ir.states
  PROVE  LET tr == ir.states[s].trans
         IN  /\ tr.arms \in Seq(Arm) /\ tr.default \in Target
             /\ \A i \in DOMAIN tr.arms : tr.arms[i].next \in Target
             /\ \A t \in Targets(tr) : t.kind = "state" => t.to \in DOMAIN ir.states
<1> DEFINE tr == ir.states[s].trans
<1>1. tr \in Transition
  <2>1. ir.states[s] \in State
    BY DEF IsIr
  <2> QED BY <2>1 DEF State
<1>2. Successors(tr) \subseteq DOMAIN ir.states
  BY DEF Laid
<1> HIDE DEF tr
<1>3. tr.arms \in Seq(Arm) /\ tr.default \in Target
  BY <1>1 DEF Transition
<1>4. ASSUME NEW i \in DOMAIN tr.arms
      PROVE  tr.arms[i].next \in Target
  <2>1. tr.arms[i] \in Arm
    BY <1>3
  <2> QED BY <2>1 DEF Arm
<1>5. \A t \in Targets(tr) : t.kind = "state" => t.to \in DOMAIN ir.states
  BY <1>2 DEF Successors
<1> QED BY <1>3, <1>4, <1>5 DEF tr

\* A target leads on, to the state it names, or ends the path there.
LEMMA TargetLeads ==
  ASSUME NEW f \in FrameType, NEW t \in Target
  PROVE  /\ t.kind = "state" =>
              /\ Outcome(t, f) = {}
              /\ \E g \in FrameType :
                   /\ Onward(t, f) = <<g>> /\ g.at = "state" /\ g.state = t.to /\ g.items = f.items
                   /\ g.segments = f.segments /\ g.worlds = f.worlds /\ g.width = f.width
         /\ t.kind # "state" => Onward(t, f) = <<>>
         /\ Outcome(t, f) \in SUBSET PathType
         /\ \A p, q \in Outcome(t, f) : p = q
         /\ \A p \in Outcome(t, f) :
              /\ p.id = f.segments
              /\ \A k \in p.packets : \E w \in f.worlds : k = w.bits /\ Begins(w.bits, k)
              /\ OwnWorlds(f) => OwnPackets(p)
<1>1. t.kind \in {"state", "accept", "reject", "empty", "absent"} /\ t.to \in STRING
  BY DEF Target
<1>2. /\ "accept" \in Kinds /\ "reject" \in Kinds /\ "" \in Reasons /\ t.to \in Reasons
      /\ "no matching select arm" \in Reasons
  BY <1>1 DEF Kinds, Reasons
<1>3. /\ t.kind = "accept" => Outcome(t, f) = {Ending(f, "accept", "")}
      /\ t.kind = "reject" => Outcome(t, f) = {Ending(f, "reject", t.to)}
      /\ t.kind = "absent" => Outcome(t, f) = {Ending(f, "reject", "no matching select arm")}
      /\ t.kind \in {"state", "empty"} => Outcome(t, f) = {}
  BY DEF Outcome
<1> DEFINE Good(p) == /\ p \in PathType /\ p.id = f.segments
                      /\ \A k \in p.packets : \E w \in f.worlds : k = w.bits /\ Begins(w.bits, k)
                      /\ OwnWorlds(f) => OwnPackets(p)
<1>4. \A kind \in Kinds, reason \in Reasons : Good(Ending(f, kind, reason))
  BY EndingShape
<1> HIDE DEF Good
<1>5. (\A p \in Outcome(t, f) : Good(p)) /\ (\A p, q \in Outcome(t, f) : p = q)
  <2>1. CASE t.kind = "accept"
    BY <1>2, <1>3, <1>4, <2>1
  <2>2. CASE t.kind = "reject"
    BY <1>2, <1>3, <1>4, <2>2
  <2>3. CASE t.kind = "absent"
    BY <1>2, <1>3, <1>4, <2>3
  <2>4. CASE t.kind \in {"state", "empty"}
    BY <1>3, <2>4
  <2> QED BY <1>1, <2>1, <2>2, <2>3, <2>4
<1>6. ASSUME t.kind = "state"
      PROVE  \E g \in FrameType :
               /\ Onward(t, f) = <<g>> /\ g.at = "state" /\ g.state = t.to /\ g.items = f.items
               /\ g.segments = f.segments /\ g.worlds = f.worlds /\ g.width = f.width
  <2> DEFINE to == t.to
             g == [f EXCEPT !.at = "state", !.state = to]
  <2>1. Onward(t, f) = <<g>>
    BY <1>6 DEF Onward
  <2>2. to \in STRING
    BY <1>1
  <2> HIDE DEF to
  <2>3. g \in FrameType
    BY <2>2 DEF FrameType
  <2>4. /\ g.at = "state" /\ g.state = to /\ g.items = f.items
        /\ g.segments = f.segments /\ g.worlds = f.worlds /\ g.width = f.width
    BY DEF FrameType
  <2> HIDE DEF g
  <2> QED BY <2>1, <2>3, <2>4 DEF to
<1>7. t.kind # "state" => Onward(t, f) = <<>>
  BY DEF Onward
<1> QED BY <1>3, <1>5, <1>6, <1>7 DEF Good

\* A direct transition: the frame, or a path of its packets.
LEMMA DirectMoves ==
  ASSUME ETypeOK, WorldsInv, NamesInv, WalkDirect
  PROVE  Moves
<1> DEFINE t == WalkTrans.default
           new == Outcome(t, Frame)
<1>1. /\ frames # <<>> /\ ir' = ir /\ frames' = Onward(t, Frame) \o Tail(frames) /\ paths' = paths \cup new
      /\ Frame.at = "items" /\ Frame.items = <<>> /\ WalkTrans.kind = "direct"
  BY DEF WalkDirect, Choosing, Emit, Continue
<1>2. Frame \in FrameType /\ Frame = frames[1] /\ 1 \in DOMAIN frames /\ IsKnown(Frame)
  BY <1>1, FrameIs
<1>3. t \in Target /\ (t.kind = "state" => t.to \in DOMAIN ir.states)
  <2>1. IsIr(ir) /\ Laid(ir) /\ Frame.state \in DOMAIN ir.states
    BY <1>2, IrIs DEF ETypeOK, IsKnown
  <2>2. WalkTrans.default \in Target /\ \A x \in Targets(WalkTrans) : x.kind = "state" => x.to \in DOMAIN ir.states
    BY <2>1, TransTypes DEF WalkTrans
  <2>3. WalkTrans.default \in Targets(WalkTrans)
    BY <1>1 DEF Targets
  <2> QED BY <2>2, <2>3
<1>4. OwnWorlds(Frame)
  BY <1>2 DEF WorldsInv
<1>5. Frame.segments \in Seq(Segment) /\ Begins(Frame.segments, Frame.segments)
      /\ \A w \in Frame.worlds : Begins(w.bits, w.bits)
  BY <1>2, FrameShape DEF Begins
<1> HIDE DEF t, new
<1>6. /\ new \in SUBSET PathType
      /\ \A p, q \in new : p = q
      /\ \A p \in new : /\ p.id = Frame.segments /\ OwnPackets(p)
                        /\ \A k \in p.packets : \E w \in Frame.worlds : Begins(w.bits, k)
  BY <1>2, <1>3, <1>4, TargetLeads DEF new
<1>7. CASE t.kind = "state"
  <2>1. new = {}
    BY <1>2, <1>3, <1>7, TargetLeads DEF new
  <2>2. PICK g \in FrameType :
          /\ Onward(t, Frame) = <<g>> /\ g.at = "state" /\ g.state = t.to /\ g.items = Frame.items
          /\ g.segments = Frame.segments /\ g.worlds = Frame.worlds /\ g.width = Frame.width
    BY <1>2, <1>3, <1>7, TargetLeads
  <2>3. IsKnown(g)
    BY <1>2, <1>3, <1>7, <2>2 DEF IsKnown
  <2>4. OwnWorlds(g) /\ \A w \in g.worlds : \E v \in Frame.worlds : Begins(v.bits, w.bits)
    BY <1>4, <1>5, <2>2 DEF OwnWorlds
  <2>5. OncePerState => \A q \in paths : NameOff(q.id, Frame)
    BY <1>1, FreshNames
  <2>6. \A q \in paths : NameOff(q.id, Frame) => NameOff(q.id, g)
    BY <2>2 DEF NameOff
  <2>7. DistinctItems(g)
    BY <2>2 DEF DistinctItems
  <2>8. frames' = <<g>> \o Tail(frames)
    BY <1>1, <2>2
  <2>9. paths \cup new = paths /\ \A p \in new : FALSE
    BY <2>1
  <2> QED BY <1>1, <1>5, <1>6, <2>2, <2>3, <2>4, <2>5, <2>6, <2>7, <2>8, <2>9, OneChild
<1>8. CASE t.kind # "state"
  <2>1. frames' = <<>> \o Tail(frames)
    BY <1>1, <1>2, <1>3, <1>8, TargetLeads
  <2>2. OncePerState => \A p \in new : \A q \in paths : p.id # q.id
    BY <1>1, <1>6, FreshNames
  <2> QED BY <1>1, <1>5, <1>6, <2>1, <2>2, NoChild
<1> QED BY <1>7, <1>8

\* The branches of a select exclude each other.
LEMMA BranchShape ==
  ASSUME ETypeOK, frames # <<>>, Choosing("select")
  PROVE  /\ DOMAIN BranchFrames = DOMAIN BranchTargets
         /\ DOMAIN BranchFrames = 1 .. Len(BranchFrames) /\ Len(BranchFrames) \in Nat
         /\ \A k \in DOMAIN BranchFrames :
              /\ BranchTargets[k] \in Target
              /\ BranchTargets[k].kind = "state" => BranchTargets[k].to \in DOMAIN ir.states
              /\ BranchFrames[k] \in FrameType
              /\ BranchFrames[k].worlds \subseteq Frame.worlds
              /\ BranchFrames[k].width = Frame.width /\ BranchFrames[k].items = Frame.items
              /\ \E seg \in Segment : ~ IsCut(seg) /\ BranchFrames[k].segments = Append(Frame.segments, seg)
         /\ \A j, k \in DOMAIN BranchFrames : j # k =>
              /\ BranchFrames[j].worlds \cap BranchFrames[k].worlds = {}
              /\ ~ Clash(BranchFrames[j].segments, BranchFrames[k].segments)
<1> DEFINE arms == WalkTrans.arms
           n == Len(arms)
           F == FrameType
           segs == Frame.segments
           Seg(k) == IF k <= n THEN <<"arm", k>> ELSE <<"default">>
           BW(k) == IF k <= n THEN {w \in Frame.worlds : TakesArm(k, w)}
                    ELSE {w \in Frame.worlds : \A j \in DOMAIN arms : ~ ArmHolds(j, w)}
           Fr(k) == Branch(Seg(k), BW(k))
<1>1. Frame \in FrameType /\ IsKnown(Frame) /\ segs \in Seq(Segment)
  BY FrameIs, FrameShape
<1>2. /\ arms \in Seq(Arm) /\ WalkTrans.default \in Target
      /\ \A i \in DOMAIN arms : arms[i].next \in Target
      /\ \A t \in Targets(WalkTrans) : t.kind = "state" => t.to \in DOMAIN ir.states
  <2>1. IsIr(ir) /\ Laid(ir) /\ Frame.state \in DOMAIN ir.states
    BY <1>1, IrIs DEF ETypeOK, IsKnown
  <2> QED BY <2>1, TransTypes DEF WalkTrans
<1>3. DOMAIN arms = 1 .. n /\ n \in Nat
  <2> HIDE DEF arms
  <2> QED BY <1>2
<1>4. ASSUME NEW k \in 1 .. n + 1
      PROVE  Seg(k) \in Segment /\ ~ IsCut(Seg(k))
  <2> HIDE DEF Fr, BW, F, segs, n, arms
  <2>1. k \in Nat
    BY <1>3
  <2>2. PICK a : a \in STRING
    BY <1>1, FrameShape
  <2>3. /\ <<"arm", k>> \in Segment /\ <<"default">> \in Segment
        /\ ~ IsCut(<<"arm", k>>) /\ ~ IsCut(<<"default">>)
    BY <2>1, <2>2, SegmentTypes
  <2> QED BY <2>3
<1>5. ASSUME NEW j \in 1 .. n + 1, NEW k \in 1 .. n + 1, Seg(j) = Seg(k)
      PROVE  j = k
  <2>1. \A i \in Nat : <<"arm", i>>[1] = "arm" /\ <<"arm", i>>[2] = i /\ <<"default">>[1] = "default"
    OBVIOUS
  <2>2. j \in Nat /\ k \in Nat
    BY <1>3
  <2>3. CASE j <= n /\ k <= n
    <3>1. <<"arm", j>> = <<"arm", k>>
      BY <1>5, <2>3
    <3> QED BY <3>1
  <2>4. CASE j > n /\ k > n
    BY <1>3, <2>4
  <2>5. CASE j <= n /\ k > n
    <3>1. <<"arm", j>> = <<"default">>
      BY <1>3, <1>5, <2>2, <2>5
    <3>2. "arm" = "default"
      BY <2>1, <2>2, <3>1
    <3> QED BY <3>2
  <2>6. CASE j > n /\ k <= n
    <3>1. <<"arm", k>> = <<"default">>
      BY <1>3, <1>5, <2>2, <2>6
    <3>2. "arm" = "default"
      BY <2>1, <2>2, <3>1
    <3> QED BY <3>2
  <2> QED BY <1>3, <2>2, <2>3, <2>4, <2>5, <2>6
<1>6. ASSUME NEW j \in 1 .. n + 1, NEW k \in 1 .. n + 1, j < k
      PROVE  BW(j) \cap BW(k) = {}
  <2>1. j \in DOMAIN arms /\ j <= n /\ j \in 1 .. k - 1
    BY <1>3, <1>6
  <2>2. \A w \in BW(j) : ArmHolds(j, w)
    BY <2>1 DEF TakesArm
  <2>3. \A w \in BW(k) : ~ ArmHolds(j, w)
    BY <2>1 DEF TakesArm
  <2> QED BY <2>2, <2>3
<1>7. \A k \in 1 .. n + 1 : BW(k) \in SUBSET Frame.worlds
  OBVIOUS
<1>8. ASSUME NEW k \in 1 .. n + 1
      PROVE  /\ Fr(k) \in F /\ Fr(k).worlds = BW(k) /\ Fr(k).width = Frame.width /\ Fr(k).items = Frame.items
             /\ Fr(k).segments = Append(segs, Seg(k))
  <2> DEFINE f == Frame
             s == Append(segs, Seg(k))
             ws == BW(k)
             g == [f EXCEPT !.segments = s, !.worlds = ws]
  <2>1. Fr(k) = g
    BY DEF Branch
  <2>2. s \in Seq(Segment)
    <3> HIDE DEF Seg, segs
    <3> QED BY <1>1, <1>4
  <2>3. ws \in SUBSET WorldType
    <3> HIDE DEF BW
    <3> QED BY <1>1, <1>7, FrameShape
  <2>4. f \in FrameType
    BY <1>1
  <2> HIDE DEF Fr, BW, Seg, segs, f, s, ws
  <2>5. g \in FrameType
    BY <2>2, <2>3, <2>4 DEF FrameType
  <2>6. g.worlds = ws /\ g.width = f.width /\ g.items = f.items /\ g.segments = s
    BY <2>4 DEF FrameType
  <2> HIDE DEF g
  <2> QED BY <2>1, <2>5, <2>6 DEF f, s, ws
<1>9. /\ \A k \in 1 .. n : ArmFrame(k) = Fr(k)
      /\ DefaultFrame = Fr(n + 1)
  <2>1. ASSUME NEW k \in 1 .. n
        PROVE  ArmFrame(k) = Fr(k)
    <3>1. k <= n
      BY <1>3
    <3> QED BY <3>1 DEF ArmFrame
  <2>2. ~ (n + 1 <= n)
    BY <1>3
  <2>3. DefaultFrame = Fr(n + 1)
    BY <2>2 DEF DefaultFrame
  <2> QED BY <2>1, <2>3
<1> HIDE DEF F, Fr
<1>10. /\ DOMAIN BranchFrames = 1 .. n + 1 /\ Len(BranchFrames) = n + 1
       /\ \A k \in 1 .. n + 1 : BranchFrames[k] = Fr(k)
  <2> DEFINE some == [i \in 1 .. n |-> ArmFrame(i)]
             last == DefaultFrame
  <2>1. BranchFrames = Append(some, last)
    BY <1>3 DEF BranchFrames
  <2>2. \A i \in 1 .. n : i \in 1 .. n + 1 /\ some[i] = Fr(i)
    BY <1>3, <1>9
  <2>3. some \in Seq(F) /\ Len(some) = n
    <3>1. \A i \in 1 .. n : ArmFrame(i) \in F
      BY <1>8, <1>9, <2>2
    <3> HIDE DEF n
    <3> QED BY <1>3, <3>1
  <2>4. last = Fr(n + 1) /\ last \in F
    <3>1. n + 1 \in 1 .. n + 1
      BY <1>3
    <3> QED BY <1>8, <1>9, <3>1
  <2> HIDE DEF some, last, n
  <2>5. Append(some, last) \in Seq(F) /\ Len(Append(some, last)) = n + 1
    BY <1>3, <2>3, <2>4
  <2>6. \A k \in 1 .. n + 1 : Append(some, last)[k] = IF k <= n THEN some[k] ELSE last
    BY <1>3, <2>3, <2>4
  <2>7. DOMAIN Append(some, last) = 1 .. n + 1
    BY <1>3, <2>5
  <2> HIDE DEF Seg, BW, segs, arms
  <2>8. ASSUME NEW k \in 1 .. n + 1
        PROVE  Append(some, last)[k] = Fr(k)
    <3>1. CASE k <= n
      <4>1. k \in 1 .. n
        BY <1>3, <3>1
      <4>2. Append(some, last)[k] = some[k]
        BY <2>6, <3>1
      <4> QED BY <2>2, <4>1, <4>2
    <3>2. CASE ~ (k <= n)
      <4>1. k = n + 1
        BY <1>3, <3>2
      <4>2. Append(some, last)[k] = last
        BY <2>6, <3>2
      <4> QED BY <2>4, <4>1, <4>2
    <3> QED BY <3>1, <3>2
  <2> QED BY <2>1, <2>5, <2>7, <2>8
<1>11. /\ DOMAIN BranchTargets = 1 .. n + 1
       /\ \A k \in 1 .. n + 1 : BranchTargets[k] \in Target /\ BranchTargets[k] \in Targets(WalkTrans)
  <2> DEFINE some == [i \in 1 .. n |-> arms[i].next]
             last == WalkTrans.default
             T == Target \cap Targets(WalkTrans)
  <2>1. BranchTargets = Append(some, last)
    BY <1>3 DEF BranchTargets
  <2>2. WalkTrans.kind = "select"
    BY DEF Choosing
  <2>3. last \in T /\ \A i \in 1 .. n : arms[i].next \in T
    BY <1>2, <1>3, <2>2 DEF Targets
  <2>4. some \in Seq(T) /\ Len(some) = n
    <3> HIDE DEF T, n, arms
    <3> QED BY <1>3, <2>3
  <2> HIDE DEF some, last, T, n
  <2>5. Append(some, last) \in Seq(T) /\ Len(Append(some, last)) = n + 1
    BY <1>3, <2>3, <2>4
  <2>6. DOMAIN Append(some, last) = 1 .. n + 1 /\ \A k \in 1 .. n + 1 : Append(some, last)[k] \in T
    BY <1>3, <2>5
  <2> QED BY <2>1, <2>6 DEF T
<1>12. ASSUME NEW j \in 1 .. n + 1, NEW k \in 1 .. n + 1, j # k
       PROVE  BW(j) \cap BW(k) = {} /\ ~ Clash(Append(segs, Seg(j)), Append(segs, Seg(k)))
  <2>1. BW(j) \cap BW(k) = {}
    <3>1. j < k \/ k < j
      BY <1>3, <1>12
    <3> HIDE DEF BW
    <3> QED BY <1>6, <3>1
  <2>2. Seg(j) # Seg(k)
    BY <1>5, <1>12
  <2> HIDE DEF Seg, BW, segs
  <2> QED BY <1>1, <1>4, <2>1, <2>2, AppendClash
<1>13. n + 1 \in Nat
  BY <1>3
<1> HIDE DEF Seg, BW, n, arms
<1>14. \A k \in 1 .. n + 1 :
         /\ BranchFrames[k] \in FrameType
         /\ BranchFrames[k].worlds \subseteq Frame.worlds
         /\ BranchFrames[k].width = Frame.width /\ BranchFrames[k].items = Frame.items
         /\ \E seg \in Segment : ~ IsCut(seg) /\ BranchFrames[k].segments = Append(Frame.segments, seg)
  BY <1>4, <1>7, <1>8, <1>10 DEF F
<1>15. \A j, k \in 1 .. n + 1 : j # k =>
         /\ BranchFrames[j].worlds \cap BranchFrames[k].worlds = {}
         /\ ~ Clash(BranchFrames[j].segments, BranchFrames[k].segments)
  BY <1>8, <1>10, <1>12
<1>16. \A k \in 1 .. n + 1 :
         /\ BranchTargets[k] \in Target
         /\ BranchTargets[k].kind = "state" => BranchTargets[k].to \in DOMAIN ir.states
  BY <1>2, <1>11
<1> QED BY <1>10, <1>11, <1>13, <1>14, <1>15, <1>16

\* A select divides the worlds of the frame among its branches, and every branch
\* has a name of its own.
LEMMA SelectMoves ==
  ASSUME ETypeOK, WorldsInv, NamesInv, WalkSelect
  PROVE  Moves
<1> DEFINE N == Len(BranchFrames)
           open == {k \in DOMAIN BranchFrames : Sat(BranchFrames[k].worlds)}
           seqs == [k \in DOMAIN BranchFrames |->
                     IF k \in open THEN Onward(BranchTargets[k], BranchFrames[k]) ELSE <<>>]
           ch == FlattenSeq(seqs)
           new == UNION {Outcome(BranchTargets[k], BranchFrames[k]) : k \in open}
           F == FrameType
           IsOn(g, k) == /\ k \in 1 .. N /\ BranchTargets[k].kind = "state"
                         /\ g \in F /\ IsKnown(g) /\ g.at = "state"
                         /\ g.segments = BranchFrames[k].segments
                         /\ g.worlds = BranchFrames[k].worlds /\ g.width = BranchFrames[k].width
           EndsAt(p, k) == /\ k \in 1 .. N /\ BranchTargets[k].kind # "state"
                           /\ p \in PathType /\ p.id = BranchFrames[k].segments /\ OwnPackets(p)
                           /\ \A x \in p.packets : \E w \in BranchFrames[k].worlds : x = w.bits
                           /\ \A q \in Outcome(BranchTargets[k], BranchFrames[k]) : q = p
<1>1. /\ Choosing("select") /\ ir' = ir /\ frames' = ch \o Tail(frames) /\ paths' = paths \cup new
  <2>1. Emit(new) /\ Continue(ch)
    BY DEF WalkSelect
  <2>2. Choosing("select") /\ ir' = ir
    BY DEF WalkSelect
  <2> HIDE DEF new, ch
  <2> QED BY <2>1, <2>2 DEF Emit, Continue
<1>2. frames # <<>> /\ Frame.items = <<>>
  BY <1>1 DEF Choosing
<1>3. Frame \in FrameType /\ Frame = frames[1] /\ 1 \in DOMAIN frames /\ OwnWorlds(Frame)
  BY <1>2, FrameIs DEF WorldsInv
<1>4. /\ DOMAIN BranchFrames = 1 .. N /\ N \in Nat
      /\ \A k \in 1 .. N :
           /\ BranchTargets[k] \in Target
           /\ BranchTargets[k].kind = "state" => BranchTargets[k].to \in DOMAIN ir.states
           /\ BranchFrames[k] \in FrameType
           /\ BranchFrames[k].worlds \subseteq Frame.worlds
           /\ BranchFrames[k].width = Frame.width /\ BranchFrames[k].items = <<>>
           /\ \E seg \in Segment : ~ IsCut(seg) /\ BranchFrames[k].segments = Append(Frame.segments, seg)
      /\ \A j, k \in 1 .. N : j # k =>
           /\ BranchFrames[j].worlds \cap BranchFrames[k].worlds = {}
           /\ ~ Clash(BranchFrames[j].segments, BranchFrames[k].segments)
  BY <1>1, <1>2, BranchShape
<1>5. \A v, w \in Frame.worlds : v # w => ~ Clash(v.bits, w.bits)
  BY <1>3 DEF OwnWorlds
<1>6. \A k \in 1 .. N : OwnWorlds(BranchFrames[k])
  BY <1>3, <1>4 DEF OwnWorlds
<1>7. ASSUME NEW k \in 1 .. N, BranchTargets[k].kind = "state"
      PROVE  \E g : Onward(BranchTargets[k], BranchFrames[k]) = <<g>> /\ IsOn(g, k)
  <2>1. PICK g \in FrameType :
          /\ Onward(BranchTargets[k], BranchFrames[k]) = <<g>> /\ g.at = "state" /\ g.state = BranchTargets[k].to
          /\ g.items = BranchFrames[k].items /\ g.segments = BranchFrames[k].segments
          /\ g.worlds = BranchFrames[k].worlds /\ g.width = BranchFrames[k].width
    BY <1>4, <1>7, TargetLeads
  <2>2. IsKnown(g)
    BY <1>4, <1>7, <2>1 DEF IsKnown
  <2> QED BY <1>7, <2>1, <2>2
<1>8. ASSUME NEW k \in 1 .. N, NEW p \in Outcome(BranchTargets[k], BranchFrames[k])
      PROVE  EndsAt(p, k)
  <2>1. BranchTargets[k].kind # "state"
    BY <1>4, TargetLeads
  <2>2. /\ p \in PathType /\ p.id = BranchFrames[k].segments
        /\ \A x \in p.packets : \E w \in BranchFrames[k].worlds : x = w.bits
        /\ OwnWorlds(BranchFrames[k]) => OwnPackets(p)
        /\ \A q \in Outcome(BranchTargets[k], BranchFrames[k]) : q = p
    BY <1>4, TargetLeads
  <2> QED BY <1>6, <2>1, <2>2
<1>9. ASSUME NEW k \in 1 .. N
      PROVE  seqs[k] \in Seq(F) /\ \A i \in 1 .. Len(seqs[k]) : i = 1 /\ IsOn(seqs[k][1], k)
  <2>1. CASE k \in open /\ BranchTargets[k].kind = "state"
    <3>1. PICK g : Onward(BranchTargets[k], BranchFrames[k]) = <<g>> /\ IsOn(g, k)
      BY <1>7, <2>1
    <3>2. seqs[k] = <<g>> /\ g \in F
      BY <1>4, <2>1, <3>1
    <3> HIDE DEF F, seqs, IsOn
    <3>3. seqs[k] \in Seq(F) /\ Len(seqs[k]) = 1 /\ seqs[k][1] = g
      BY <3>2
    <3> QED BY <3>1, <3>3
  <2>2. CASE ~ (k \in open /\ BranchTargets[k].kind = "state")
    <3>1. seqs[k] = <<>>
      BY <1>4, <2>2, TargetLeads
    <3> HIDE DEF seqs, F, IsOn
    <3> QED BY <3>1
  <2> QED BY <2>1, <2>2
<1>10. seqs \in Seq(Seq(F)) /\ Len(seqs) = N
  <2> DEFINE Q == Seq(F)
  <2>1. \A k \in 1 .. N : seqs[k] \in Q
    BY <1>9
  <2>2. seqs = [k \in 1 .. N |-> seqs[k]]
    BY <1>4, Zenon
  <2> HIDE DEF seqs, Q, N
  <2>3. seqs \in Seq(Q) /\ Len(seqs) = N
    BY <1>4, <2>1, <2>2
  <2> QED BY <2>3 DEF Q
<1> HIDE DEF seqs, F, IsOn, EndsAt
<1>11. ch \in Seq(F) /\ DOMAIN ch = 1 .. Len(ch)
  <2>1. ch \in Seq(F)
    BY <1>10, FlattenIsSeq
  <2> HIDE DEF ch
  <2> QED BY <2>1
<1>12. PICK part, pos : IsPlacing(seqs, Len(seqs), ch, part, pos)
  BY <1>10, FlattenPlaces
<1> HIDE DEF ch
<1>13. ASSUME NEW c \in DOMAIN ch
       PROVE  part[c] \in 1 .. N /\ pos[c] = 1 /\ IsOn(ch[c], part[c])
  <2>1. part[c] \in 1 .. N /\ pos[c] \in 1 .. Len(seqs[part[c]]) /\ ch[c] = seqs[part[c]][pos[c]]
    BY <1>10, <1>11, <1>12 DEF IsPlacing
  <2> QED BY <1>9, <2>1
<1>14. ASSUME NEW c \in DOMAIN ch, NEW d \in DOMAIN ch, c # d
       PROVE  part[c] # part[d]
  BY <1>11, <1>12, <1>13, <1>14 DEF IsPlacing
<1>15. \A p \in new : \E k \in 1 .. N : EndsAt(p, k)
  BY <1>4, <1>8
<1>16. \A p, q \in new : \A k \in 1 .. N : EndsAt(p, k) /\ EndsAt(q, k) => p = q
  <2> SUFFICES ASSUME NEW p \in new, NEW q \in new, NEW k \in 1 .. N, EndsAt(p, k), EndsAt(q, k)
               PROVE  p = q
    OBVIOUS
  <2>1. PICK j \in open : q \in Outcome(BranchTargets[j], BranchFrames[j])
    OBVIOUS
  <2>2. j \in 1 .. N /\ EndsAt(q, j)
    BY <1>4, <1>8, <2>1
  <2>3. BranchFrames[j].segments = BranchFrames[k].segments
    BY <2>2 DEF EndsAt
  <2>4. j = k
    <3>1. \A i \in 1 .. N : Begins(BranchFrames[i].segments, BranchFrames[i].segments)
      BY <1>4, FrameShape DEF Begins
    <3> QED BY <1>4, <2>2, <2>3, <3>1 DEF Clash
  <2> QED BY <2>1, <2>4 DEF EndsAt
<1>17. Moved(ch, new)
  <2>1. \A c \in DOMAIN ch : IsKnown(ch[c])
    BY <1>13 DEF IsOn
  <2>2. new \subseteq PathType
    BY <1>15 DEF EndsAt
  <2> HIDE DEF new
  <2> QED BY <1>1, <1>2, <1>11, <2>1, <2>2 DEF Moved, F
<1> HIDE DEF new, open
<1>18. \A w \in Frame.worlds : Begins(w.bits, w.bits)
  BY <1>3, FrameShape DEF Begins
<1>19. WorldsMove(ch, new)
  <2>1. \A c \in DOMAIN ch : OwnWorlds(ch[c])
    BY <1>6, <1>13 DEF IsOn, OwnWorlds
  <2>2. \A c \in DOMAIN ch : ch[c].worlds \subseteq Frame.worlds
    BY <1>4, <1>13 DEF IsOn
  <2>3. ASSUME NEW c \in DOMAIN ch, NEW d \in DOMAIN ch, c # d
        PROVE  WorldsApart(ch[c], ch[d])
    <3>1. ch[c].worlds \cap ch[d].worlds = {}
      BY <1>4, <1>13, <1>14, <2>3 DEF IsOn
    <3> QED BY <1>5, <2>2, <3>1 DEF WorldsApart
  <2>4. \A p \in new : OwnPackets(p)
    BY <1>15 DEF EndsAt
  <2>5. \A p \in new : \A x \in p.packets : \E v \in Frame.worlds : x = v.bits
    BY <1>4, <1>15 DEF EndsAt
  <2>6. ASSUME NEW p \in new, NEW c \in DOMAIN ch
        PROVE  PacketsOff(p, ch[c])
    <3>1. PICK k \in 1 .. N : EndsAt(p, k)
      BY <1>15
    <3>2. k # part[c] /\ ch[c].worlds = BranchFrames[part[c]].worlds /\ part[c] \in 1 .. N
      BY <1>13, <3>1 DEF EndsAt, IsOn
    <3>3. \A x \in p.packets : \E w \in BranchFrames[k].worlds : x = w.bits
      BY <3>1 DEF EndsAt
    <3>4. \A v \in BranchFrames[k].worlds, w \in ch[c].worlds : v # w /\ v \in Frame.worlds /\ w \in Frame.worlds
      BY <1>4, <3>2
    <3> QED BY <1>5, <3>3, <3>4 DEF PacketsOff, Clash
  <2>7. ASSUME NEW p \in new, NEW q \in new, p # q
        PROVE  p.packets \cap q.packets = {}
    <3>1. PICK j \in 1 .. N : EndsAt(p, j)
      BY <1>15
    <3>2. PICK k \in 1 .. N : EndsAt(q, k)
      BY <1>15
    <3>3. j # k
      BY <1>16, <2>7, <3>1, <3>2
    <3>4. /\ \A x \in p.packets : \E w \in BranchFrames[j].worlds : x = w.bits
          /\ \A x \in q.packets : \E w \in BranchFrames[k].worlds : x = w.bits
      BY <3>1, <3>2 DEF EndsAt
    <3>5. \A v \in BranchFrames[j].worlds, w \in BranchFrames[k].worlds : ~ Clash(v.bits, w.bits)
      BY <1>4, <1>5, <3>3
    <3>6. \A v \in BranchFrames[j].worlds : Begins(v.bits, v.bits)
      BY <1>4, <1>18
    <3>7. ASSUME NEW x \in p.packets, x \in q.packets
          PROVE  FALSE
      <4>1. PICK v \in BranchFrames[j].worlds : x = v.bits
        BY <3>4
      <4>2. PICK w \in BranchFrames[k].worlds : x = w.bits
        BY <3>4, <3>7
      <4> QED BY <3>5, <3>6, <4>1, <4>2 DEF Clash
    <3> QED BY <3>7
  <2>8. /\ \A c \in DOMAIN ch : \A w \in ch[c].worlds : \E v \in Frame.worlds : Begins(v.bits, w.bits)
        /\ \A p \in new : \A x \in p.packets : \E v \in Frame.worlds : Begins(v.bits, x)
    BY <1>18, <2>2, <2>5
  <2> QED BY <2>1, <2>3, <2>4, <2>6, <2>7, <2>8 DEF WorldsMove
<1>20. ASSUME OncePerState
       PROVE  NamesMove(ch, new)
  <2>1. \A c \in DOMAIN ch : ch[c] \in FrameType /\ ch[c].at = "state" /\ ch[c].segments = BranchFrames[part[c]].segments
    BY <1>13 DEF IsOn, F
  <2>2. Frame.segments \in Seq(Segment)
    BY <1>3, FrameShape
  <2>3. ASSUME NEW k \in 1 .. N
        PROVE  Begins(Frame.segments, BranchFrames[k].segments)
    <3>1. PICK seg \in Segment : BranchFrames[k].segments = Append(Frame.segments, seg)
      BY <1>4
    <3> DEFINE s == Frame.segments
    <3>2. s \in Seq(Segment)
      BY <2>2
    <3> HIDE DEF s
    <3>3. Begins(s, Append(s, seg))
      BY <3>2, AppendClash
    <3> QED BY <3>1, <3>3 DEF s
  <2>4. ASSUME NEW k \in 1 .. N, NEW q \in paths
        PROVE  BranchFrames[k].segments # q.id /\ ~ Begins(BranchFrames[k].segments, q.id)
    <3>1. PICK seg \in Segment : ~ IsCut(seg) /\ BranchFrames[k].segments = Append(Frame.segments, seg)
      BY <1>4
    <3>2. ~ Begins(BranchFrames[k].segments, q.id)
      BY <1>2, <1>20, <3>1, FreshNames
    <3>3. Begins(BranchFrames[k].segments, BranchFrames[k].segments)
      BY <1>4, FrameShape DEF Begins
    <3> QED BY <3>2, <3>3
  <2>5. \A c \in DOMAIN ch : DistinctItems(ch[c])
    BY <2>1 DEF DistinctItems
  <2>6. \A c \in DOMAIN ch : Begins(Frame.segments, ch[c].segments)
    BY <1>13, <2>1, <2>3
  <2>7. \A c, d \in DOMAIN ch : c # d => ~ Clash(ch[c].segments, ch[d].segments)
    BY <1>4, <1>13, <1>14, <2>1
  <2>8. \A p \in new : \E k \in 1 .. N : p.id = BranchFrames[k].segments /\ BranchTargets[k].kind # "state"
    BY <1>15 DEF EndsAt
  <2>9. \A c \in DOMAIN ch : BranchTargets[part[c]].kind = "state"
    BY <1>13 DEF IsOn
  <2>10. \A p \in new : Begins(Frame.segments, p.id) /\ \A q \in paths : p.id # q.id
    BY <2>3, <2>4, <2>8
  <2>11. ASSUME NEW p \in paths, NEW c \in DOMAIN ch
         PROVE  NameOff(p.id, ch[c])
    BY <1>13, <2>1, <2>4 DEF NameOff
  <2>12. ASSUME NEW p \in new, NEW c \in DOMAIN ch
         PROVE  NameOff(p.id, ch[c])
    <3>1. PICK k \in 1 .. N : p.id = BranchFrames[k].segments /\ k # part[c]
      BY <2>8, <2>9
    <3>2. ~ Begins(ch[c].segments, p.id)
      BY <1>4, <1>13, <2>1, <3>1 DEF Clash
    <3> QED BY <3>2 DEF NameOff
  <2>13. ASSUME NEW p \in new, NEW q \in new, p # q
         PROVE  p.id # q.id
    <3>1. PICK j \in 1 .. N : EndsAt(p, j)
      BY <1>15
    <3>2. PICK k \in 1 .. N : EndsAt(q, k)
      BY <1>15
    <3>3. j # k
      BY <1>16, <2>13, <3>1, <3>2
    <3>4. p.id = BranchFrames[j].segments /\ q.id = BranchFrames[k].segments
      BY <3>1, <3>2 DEF EndsAt
    <3>5. Begins(BranchFrames[j].segments, BranchFrames[j].segments)
      BY <1>4, FrameShape DEF Begins
    <3> QED BY <1>4, <3>3, <3>4, <3>5 DEF Clash
  <2>14. \A p \in paths \cup new : \A c \in DOMAIN ch : NameOff(p.id, ch[c])
    BY <2>11, <2>12
  <2> QED BY <2>5, <2>6, <2>7, <2>10, <2>13, <2>14 DEF NamesMove
<1> QED BY <1>17, <1>19, <1>20 DEF Moves

(***************************************************************************)
(* The three invariants are inductive.                                     *)
(***************************************************************************)
EngineInv == ETypeOK /\ WorldsInv /\ NamesInv

\* The frame the engine starts with.
LEMMA StartTyped ==
  ASSUME IsIr(ir), Laid(ir)
  PROVE  StartFrame \in FrameType /\ StartFrame.worlds = {[bits |-> <<>>, env |-> <<>>]}
         /\ StartFrame.at = "state" /\ StartFrame.state = ir.start /\ StartFrame.items = <<>>
         /\ StartFrame.width = 0
<1> DEFINE cts == [s \in CyclicStates |-> 0]
           ws == {[bits |-> <<>>, env |-> <<>>]}
<1>1. CyclicStates \subseteq STRING
  BY DEF CyclicStates, IsIr
<1>2. cts \in UNION {[D -> Nat] : D \in SUBSET STRING}
  <2> DEFINE C == CyclicStates
  <2>1. C \in SUBSET STRING
    BY <1>1
  <2> HIDE DEF C
  <2>2. [s \in C |-> 0] \in [C -> Nat]
    OBVIOUS
  <2>3. [s \in C |-> 0] \in UNION {[D -> Nat] : D \in SUBSET STRING}
    BY <2>1, <2>2
  <2> QED BY <2>3 DEF C
<1>3. <<>> \in EnvType
  <2>1. <<>> \in [{} -> Seq(Bit)] /\ {} \in SUBSET (STRING \X STRING)
    OBVIOUS
  <2> QED BY <2>1 DEF EnvType
<1>4. ws \in SUBSET WorldType
  <2> DEFINE E == EnvType
             B == Seq(Bit)
  <2>1. <<>> \in E /\ <<>> \in B
    BY <1>3
  <2> HIDE DEF E, B
  <2>2. [bits |-> <<>>, env |-> <<>>] \in [bits : B, env : E]
    BY <2>1
  <2> QED BY <2>2 DEF WorldType, E, B
<1>5. ir.start \in STRING
  BY DEF IsIr
<1>6. <<>> \in Seq(ItemType) /\ <<>> \in Seq(Segment) /\ 0 \in Nat
      /\ {} \in SUBSET (STRING \X STRING)
  OBVIOUS
<1>7. StartFrame = [at |-> "state", state |-> ir.start, items |-> <<>>, segments |-> <<>>,
                    depth |-> 0, counts |-> cts, placed |-> {}, width |-> 0, worlds |-> ws]
  BY DEF StartFrame
<1> HIDE DEF cts, ws
<1>8. StartFrame \in FrameType /\ StartFrame.worlds = ws /\ StartFrame.at = "state"
      /\ StartFrame.state = ir.start /\ StartFrame.items = <<>> /\ StartFrame.width = 0
  BY <1>2, <1>4, <1>5, <1>6, <1>7 DEF FrameType
<1> QED BY <1>8 DEF ws

\* The invariants hold at the start: one frame, one empty world.
LEMMA InvInit ==
  ASSUME EInit
  PROVE  EngineInv
<1>1. ir \in Irs /\ frames = <<StartFrame>> /\ paths = {}
  BY DEF EInit
<1>2. IsIr(ir) /\ Laid(ir)
  BY <1>1, IrIs
<1> DEFINE f == StartFrame
<1>3. f \in FrameType /\ f.worlds = {[bits |-> <<>>, env |-> <<>>]}
      /\ f.at = "state" /\ f.state = ir.start /\ f.items = <<>> /\ f.width = 0
  BY <1>2, StartTyped
<1>4. frames = <<f>>
  BY <1>1
<1> HIDE DEF f
<1>5. DOMAIN frames = {1} /\ frames[1] = f
  BY <1>4
<1>6. frames \in Seq(FrameType)
  <2> DEFINE F == FrameType
  <2>1. f \in F
    BY <1>3
  <2> HIDE DEF F
  <2>2. <<f>> \in Seq(F)
    BY <2>1
  <2> QED BY <1>4, <2>2 DEF F
<1>7. IsKnown(f)
  BY <1>2, <1>3 DEF IsKnown, Laid
<1>8. ETypeOK
  BY <1>1, <1>5, <1>6, <1>7 DEF ETypeOK
<1>9. OwnWorlds(f)
  BY <1>3 DEF OwnWorlds
<1>10. WorldsInv
  BY <1>1, <1>5, <1>9 DEF WorldsInv
<1>11. NamesInv
  BY <1>1, <1>3, <1>5 DEF NamesInv, DistinctItems
<1> QED BY <1>8, <1>10, <1>11 DEF EngineInv

\* They hold after every move.
LEMMA InvMoved ==
  ASSUME EngineInv, Moves
  PROVE  EngineInv'
<1>1. PICK children, new : /\ Moved(children, new)
                           /\ WorldsMove(children, new)
                           /\ OncePerState => NamesMove(children, new)
  BY DEF Moves
<1>2. ETypeOK /\ WorldsInv /\ NamesInv
  BY DEF EngineInv
<1>3. ETypeOK'
  BY <1>1, <1>2, MoveTyped
<1>4. WorldsInv'
  BY <1>1, <1>2, WorldsMoved
<1>5. NamesInv'
  BY <1>1, <1>2, NamesMoved
<1> QED BY <1>3, <1>4, <1>5 DEF EngineInv

\* A bail drops the frames.
LEMMA BailKeeps ==
  ASSUME EngineInv, EBail
  PROVE  EngineInv'
<1>1. frames' = <<>> /\ ir' = ir /\ paths' = paths
  BY DEF EBail
<1>2. DOMAIN frames' = {} /\ frames' \in Seq(FrameType)
  BY <1>1
<1>3. ETypeOK'
  BY <1>1, <1>2 DEF EngineInv, ETypeOK
<1>4. WorldsInv'
  BY <1>1, <1>2 DEF EngineInv, WorldsInv
<1>5. NamesInv'
  <2>1. OncePerState' = OncePerState
    BY <1>1 DEF OncePerState
  <2> QED BY <1>1, <1>2, <2>1 DEF EngineInv, NamesInv
<1> QED BY <1>3, <1>4, <1>5 DEF EngineInv

\* They are about the description, the frames and the paths alone.
LEMMA InvStutters ==
  ASSUME EngineInv, UNCHANGED <<ir, frames, paths>>
  PROVE  EngineInv'
<1>1. ETypeOK'
  BY DEF EngineInv, ETypeOK, IsKnown
<1>2. WorldsInv'
  BY DEF EngineInv, WorldsInv
<1>3. NamesInv'
  <2>1. OncePerState' = OncePerState
    BY DEF OncePerState
  <2>2. \A id, f : NameOff(id, f) => NameOff(id, f)'
    BY DEF NameOff
  <2> QED BY <2>1 DEF EngineInv, NamesInv
<1> QED BY <1>1, <1>2, <1>3 DEF EngineInv

\* One case per action of the engine.
LEMMA WalkKeeps ==
  ASSUME EngineInv, Walk
  PROVE  EngineInv'
<1>0. ETypeOK /\ WorldsInv /\ NamesInv
  BY DEF EngineInv
<1>1. CASE WalkBeyondDepth
  BY <1>0, <1>1, BeyondDepthMoves, InvMoved
<1>2. CASE WalkPruned
  BY <1>0, <1>2, PrunedMoves, InvMoved
<1>3. CASE WalkState
  BY <1>0, <1>3, StateMoves, InvMoved
<1>4. CASE WalkBits
  BY <1>0, <1>4, BitsMoves, InvMoved
<1>5. CASE WalkBody
  BY <1>0, <1>5, BodyMoves, InvMoved
<1>6. CASE WalkBodyFails
  BY <1>6, BailKeeps DEF WalkBodyFails
<1>7. CASE WalkDirect
  BY <1>0, <1>7, DirectMoves, InvMoved
<1>8. CASE WalkSelect
  BY <1>0, <1>8, SelectMoves, InvMoved
<1>9. CASE WalkDirectFails \/ WalkSelectFails
  BY <1>9, BailKeeps DEF WalkDirectFails, WalkSelectFails
<1> QED BY <1>1, <1>2, <1>3, <1>4, <1>5, <1>6, <1>7, <1>8, <1>9 DEF Walk

\* The interpreter does not write the description.
LEMMA StepKeepsIr ==
  ASSUME Step
  PROVE  ir' = ir
<1>1. CASE Enter
  BY <1>1 DEF Enter, EnterState, DepthExceeded, UnknownState
<1>2. CASE ExtractHeader
  BY <1>2 DEF ExtractHeader, BeginHeader, UnknownHeaderType, EndHeader
<1>3. CASE ReadField
  BY <1>3 DEF ReadField, ReadBits, ReadBitsOutOfBounds, ReadBytes, ReadBytesOutOfBounds, ReadBytesBails,
              FieldWithoutWidth, FieldOutOfBounds
<1>4. CASE TakeTransition
  BY <1>4 DEF TakeTransition, Direct, TakeArm, TakeDefault, NoMatchingArm, TransitionBails, Transit
<1> QED BY <1>1, <1>2, <1>3, <1>4 DEF Step

\* The engine's users leave its frames and paths alone.
LEMMA InvStep ==
  ASSUME EngineInv, [GNext]_gvars
  PROVE  EngineInv'
<1>1. CASE Enumerate
  BY <1>1, WalkKeeps DEF Enumerate
<1>2. CASE MakeVector
  BY <1>2, InvStutters DEF MakeVector, engine
<1>3. CASE Unsatisfiable
  BY <1>3, InvStutters DEF Unsatisfiable, engine, vars
<1>4. CASE CoverPacket
  BY <1>4, InvStutters DEF CoverPacket, engine
<1>5. CASE Interpret
  BY <1>5, StepKeepsIr, InvStutters DEF Interpret, engine
<1>6. CASE Over
  BY <1>6, InvStutters DEF Over, gvars, vars
<1>7. CASE UNCHANGED gvars
  BY <1>7, InvStutters DEF gvars, vars
<1> QED BY <1>1, <1>2, <1>3, <1>4, <1>5, <1>6, <1>7 DEF GNext

\* Every frame and path has the types of the code, is at a state of the
\* description, and the two invariants hold.
THEOREM EngineInvariant == GSpec => []EngineInv
<1>1. GInit => EngineInv
  BY InvInit DEF GInit
<1>2. EngineInv /\ [GNext]_gvars => EngineInv'
  BY InvStep
<1> QED BY <1>1, <1>2, PTL DEF GSpec

\* The width budget of the engine is enough on every path of every description
\* validate accepts, whatever the lengths of the bodies on the way.
THEOREM WidthSuffices == GSpec => []WithinWidth
<1>1. EngineInv => WithinWidth
  BY DEF EngineInv, WorldsInv, OwnWorlds, OwnPackets, WithinWidth
<1> QED BY <1>1, EngineInvariant, PTL

\* No packet is on two paths, and no two paths have one name.
THEOREM PathsExclude == GSpec => []PathsAreDisjoint
<1>1. EngineInv => PathsAreDisjoint
  BY DEF EngineInv, WorldsInv, NamesInv, PathsAreDisjoint
<1> QED BY <1>1, EngineInvariant, PTL
================================================================================
