------------------------------ MODULE DataProofs ------------------------------
(***************************************************************************)
(* Facts about the data the models are made of: functions defined by       *)
(* recursion over numbers and over finite sets, what eval_expr computes of *)
(* any expression table, flattened sequences, and the flat list of fields  *)
(* a state takes. A recursive function is a CHOOSE of some function that   *)
(* satisfies its equation; a lemma that one exists is what makes the       *)
(* equation usable. The library proves that for definitions given as       *)
(* operators; here the step is a function, and induction is over a set of  *)
(* numbers.                                                                *)
(***************************************************************************)
EXTENDS WireFields, FiniteSetTheorems, SequenceTheorems, TLAPS

(***************************************************************************)
(* Induction and recursion.                                                *)
(***************************************************************************)

\* A set of numbers that holds 0 and, with a number, the next, holds all: else the
\* successor function maps an interval into a smaller one.
LEMMA NatSetInduction ==
  ASSUME NEW U, 0 \in U, \A n \in Nat : n \in U => n + 1 \in U
  PROVE  \A n \in Nat : n \in U
<1> SUFFICES ASSUME NEW t \in Nat, t \notin U
             PROVE  FALSE
  OBVIOUS
<1> DEFINE g == [i \in 0 .. t |-> IF i \in U THEN i + 1 ELSE i]
<1>1. IsFiniteSet(0 .. t) /\ Cardinality(0 .. t) = t + 1
  BY FS_Interval
<1>2. IsFiniteSet(1 .. t) /\ Cardinality(1 .. t) = t
  BY FS_Interval
<1>3. g \in [0 .. t -> 1 .. t]
  <2> SUFFICES ASSUME NEW i \in 0 .. t
               PROVE  (IF i \in U THEN i + 1 ELSE i) \in 1 .. t
    OBVIOUS
  <2> QED OBVIOUS
<1>4. \E x, y \in 0 .. t : x # y /\ g[x] = g[y]
  <2>1. Cardinality(1 .. t) < Cardinality(0 .. t)
    BY <1>1, <1>2
  <2> HIDE DEF g
  <2> QED BY <1>1, <1>2, <1>3, <2>1, FS_PigeonHole, Zenon
<1> QED BY <1>4

\* So does a set that holds a number when it holds all smaller ones.
LEMMA StrongSetInduction ==
  ASSUME NEW U, \A n \in Nat : (\A m \in 0 .. n - 1 : m \in U) => n \in U
  PROVE  \A n \in Nat : n \in U
<1> DEFINE B == {n \in Nat : \A m \in 0 .. n - 1 : m \in U}
<1>1. 0 \in B
  OBVIOUS
<1>2. \A n \in Nat : n \in B => n + 1 \in B
  <2> SUFFICES ASSUME NEW n \in Nat, n \in B, NEW m \in 0 .. n
               PROVE  m \in U
    OBVIOUS
  <2>1. n \in U
    OBVIOUS
  <2>2. m = n \/ m \in 0 .. n - 1
    OBVIOUS
  <2> QED BY <2>1, <2>2
<1>3. \A n \in Nat : n \in B
  <2> HIDE DEF B
  <2> QED BY <1>1, <1>2, NatSetInduction
<1> QED BY <1>3

\* A set closed under adding an element holds every finite set.
LEMMA SetInduction ==
  ASSUME NEW S, IsFiniteSet(S), NEW U, {} \in U,
         \A T \in SUBSET S : \A x \in S \ T : T \in U => T \cup {x} \in U
  PROVE  S \in U
<1> DEFINE B == {n \in Nat : \A T \in SUBSET S : Cardinality(T) = n => T \in U}
<1>1. ASSUME NEW T \in SUBSET S
      PROVE  IsFiniteSet(T) /\ Cardinality(T) \in Nat
  <2>1. IsFiniteSet(T)
    BY FS_Subset
  <2> QED BY <2>1, FS_CardinalityType
<1>2. 0 \in B
  BY <1>1, FS_EmptySet
<1>3. ASSUME NEW n \in Nat, n \in B
      PROVE  n + 1 \in B
  <2> SUFFICES ASSUME NEW T \in SUBSET S, Cardinality(T) = n + 1
               PROVE  T \in U
    OBVIOUS
  <2>1. PICK x \in T : TRUE
    BY <1>1, FS_EmptySet
  <2>2. Cardinality(T \ {x}) = n
    <3>1. Cardinality(T \ {x}) = Cardinality(T) - 1
      BY <1>1, <2>1, FS_RemoveElement
    <3> QED BY <3>1
  <2>3. T \ {x} \in U
    BY <1>3, <2>2
  <2>4. (T \ {x}) \cup {x} = T
    BY <2>1
  <2>5. (T \ {x}) \cup {x} \in U
    BY <2>1, <2>3
  <2> QED BY <2>4, <2>5
<1>4. \A n \in Nat : n \in B
  <2> HIDE DEF B
  <2> QED BY <1>2, <1>3, NatSetInduction
<1> QED BY <1>1, <1>4

\* step gives the value at a point from a function's values at points of
\* smaller rank.
IsRankedStep(step, D, rank, V) ==
  /\ V # {}
  /\ \A f \in [D -> V] : \A i \in D : step[f][i] \in V
  /\ \A f, g \in [D -> V] : \A i \in D :
       (\A j \in D : rank[j] < rank[i] => f[j] = g[j]) => step[f][i] = step[g][i]

\* A function can be defined that way.
LEMMA RankedRecursion ==
  ASSUME NEW D, NEW n \in Nat, NEW rank \in [D -> 0 .. n], NEW V, NEW step,
         IsRankedStep(step, D, rank, V)
  PROVE  \E f \in [D -> V] : \A i \in D : f[i] = step[f][i]
<1> DEFINE Upto(m, f) == \A i \in D : rank[i] < m => f[i] = step[f][i]
           U == {m \in Nat : \E f \in [D -> V] : Upto(m, f)}
<1>0. /\ \A f \in [D -> V] : \A i \in D : step[f][i] \in V
      /\ \A f, g \in [D -> V] : \A i \in D :
           (\A j \in D : rank[j] < rank[i] => f[j] = g[j]) => step[f][i] = step[g][i]
  BY DEF IsRankedStep
<1>1. 0 \in U
  <2>1. PICK v \in V : TRUE
    BY DEF IsRankedStep
  <2>2. [i \in D |-> v] \in [D -> V] /\ \A i \in D : ~ rank[i] < 0
    OBVIOUS
  <2> QED BY <2>2
<1>2. ASSUME NEW m \in Nat, m \in U
      PROVE  m + 1 \in U
  <2>1. PICK f \in [D -> V] : Upto(m, f)
    BY <1>2
  <2> DEFINE h == [i \in D |-> IF rank[i] = m THEN step[f][i] ELSE f[i]]
  <2>2. h \in [D -> V] /\ \A i \in D : h[i] = IF rank[i] = m THEN step[f][i] ELSE f[i]
    BY <1>0
  <2> HIDE DEF h
  <2>3. ASSUME NEW i \in D, rank[i] < m + 1
        PROVE  h[i] = step[h][i]
    <3>1. \A j \in D : rank[j] < rank[i] => h[j] = f[j]
      BY <2>2, <2>3
    <3>2. step[h][i] = step[f][i]
      BY <1>0, <2>2, <3>1
    <3>3. rank[i] = m \/ rank[i] < m
      BY <2>3
    <3> QED BY <2>1, <2>2, <3>2, <3>3
  <2> QED BY <2>2, <2>3
<1>3. \A m \in Nat : m \in U
  <2> HIDE DEF U
  <2> QED BY <1>1, <1>2, NatSetInduction
<1>4. PICK f \in [D -> V] : Upto(n + 1, f)
  <2>1. n + 1 \in U
    <3>1. n + 1 \in Nat
      OBVIOUS
    <3> HIDE DEF U
    <3> QED BY <1>3, <3>1
  <2> QED BY <2>1
<1> QED BY <1>4

\* On an interval, from the values at smaller numbers.
IsStep(step, lo, n, V) ==
  /\ V # {}
  /\ \A f \in [lo .. n -> V] : \A i \in lo .. n : step[f][i] \in V
  /\ \A f, g \in [lo .. n -> V] : \A i \in lo .. n :
       (\A j \in lo .. i - 1 : f[j] = g[j]) => step[f][i] = step[g][i]

\* The case of numbers, ranked by themselves.
LEMMA Recursion ==
  ASSUME NEW lo \in Nat, NEW n \in Nat, NEW V, NEW step, IsStep(step, lo, n, V)
  PROVE  \E f \in [lo .. n -> V] : \A i \in lo .. n : f[i] = step[f][i]
<1> DEFINE D == lo .. n
           rank == [i \in D |-> i]
<1>1. rank \in [D -> 0 .. n]
  OBVIOUS
<1>2. IsRankedStep(step, D, rank, V)
  <2>1. ASSUME NEW f \in [D -> V], NEW g \in [D -> V], NEW i \in D,
               \A j \in D : rank[j] < rank[i] => f[j] = g[j]
        PROVE  step[f][i] = step[g][i]
    <3>1. \A j \in lo .. i - 1 : f[j] = g[j]
      BY <2>1
    <3> QED BY <3>1 DEF IsStep
  <2> QED BY <2>1 DEF IsStep, IsRankedStep
<1>3. \E f \in [D -> V] : \A i \in D : f[i] = step[f][i]
  <2> HIDE DEF D, rank
  <2> QED BY <1>1, <1>2, RankedRecursion
<1> QED BY <1>3

\* On the subsets of a finite set, from the values at smaller ones.
IsSetStep(step, S, D, V) ==
  /\ IsFiniteSet(S) /\ D = SUBSET S
  /\ V # {}
  /\ \A f \in [D -> V] : \A T \in D : step[f][T] \in V
  /\ \A f, g \in [D -> V] : \A T \in D :
       (\A R \in SUBSET T : R # T => f[R] = g[R]) => step[f][T] = step[g][T]

\* The case of finite sets, ranked by their size.
LEMMA SetRecursion ==
  ASSUME NEW S, NEW D, NEW V, NEW step, IsSetStep(step, S, D, V)
  PROVE  \E f \in [D -> V] : \A T \in D : f[T] = step[f][T]
<1> DEFINE n == Cardinality(S)
           rank == [T \in D |-> Cardinality(T)]
<1>0. IsFiniteSet(S) /\ D = SUBSET S
  BY DEF IsSetStep
<1>1. ASSUME NEW T \in D, NEW R \in SUBSET T
      PROVE  /\ IsFiniteSet(T) /\ Cardinality(T) \in Nat
             /\ Cardinality(R) \in Nat /\ Cardinality(R) <= Cardinality(T)
             /\ R # T => Cardinality(R) # Cardinality(T)
  <2>1. IsFiniteSet(T)
    BY <1>0, FS_Subset
  <2>2. IsFiniteSet(R) /\ Cardinality(R) <= Cardinality(T) /\ (R # T => Cardinality(R) # Cardinality(T))
    BY <2>1, FS_Subset
  <2> QED BY <2>1, <2>2, FS_CardinalityType
<1>2. n \in Nat /\ rank \in [D -> 0 .. n]
  <2>1. n \in Nat
    BY <1>0, FS_CardinalityType
  <2>2. \A T \in D : Cardinality(T) \in 0 .. n
    <3>1. S \in D
      BY <1>0
    <3>2. ASSUME NEW T \in D
          PROVE  Cardinality(T) \in Nat /\ Cardinality(T) <= n
      <4>1. T \in SUBSET S
        BY <1>0
      <4> QED BY <1>1, <3>1, <4>1
    <3> QED BY <3>2
  <2> QED BY <2>1, <2>2
<1>3. IsRankedStep(step, D, rank, V)
  <2>1. ASSUME NEW f \in [D -> V], NEW g \in [D -> V], NEW T \in D,
               \A R \in D : rank[R] < rank[T] => f[R] = g[R]
        PROVE  step[f][T] = step[g][T]
    <3>1. ASSUME NEW R \in SUBSET T, R # T
          PROVE  f[R] = g[R]
      <4>1. R \in D /\ Cardinality(R) < Cardinality(T)
        BY <1>0, <1>1, <3>1
      <4> QED BY <2>1, <4>1
    <3> QED BY <3>1 DEF IsSetStep
  <2> QED BY <2>1 DEF IsRankedStep, IsSetStep
<1>4. \E f \in [D -> V] : \A T \in D : f[T] = step[f][T]
  <2> HIDE DEF n, rank
  <2> QED BY <1>2, <1>3, RankedRecursion
<1> QED BY <1>4

\* A set of naturals has a least element.
LEMMA LeastNatural ==
  ASSUME NEW S \in SUBSET Nat, S # {}
  PROVE  \E x \in S : \A y \in S : x <= y
<1> SUFFICES ASSUME \A x \in S : \E y \in S : y < x
             PROVE  FALSE
  OBVIOUS
<1> DEFINE U == Nat \ S
<1>1. ASSUME NEW n \in Nat, \A m \in 0 .. n - 1 : m \in U
      PROVE  n \in U
  <2> SUFFICES ASSUME n \in S
               PROVE  FALSE
    OBVIOUS
  <2>1. PICK y \in S : y < n
    OBVIOUS
  <2> QED BY <1>1, <2>1
<1>2. \A n \in Nat : n \in U
  <2> HIDE DEF U
  <2> QED BY <1>1, StrongSetInduction
<1> QED BY <1>2

\* What a function makes of the elements of a finite set.
LEMMA ImageIsFinite ==
  ASSUME NEW S, IsFiniteSet(S), NEW f
  PROVE  IsFiniteSet({f[x] : x \in S})
<1> DEFINE T == {f[x] : x \in S}
           g == [x \in S |-> f[x]]
<1>1. g \in Surjection(S, T)
  BY DEF Surjection
<1> HIDE DEF T, g
<1>2. IsFiniteSet(T)
  BY <1>1, FS_Surjection
<1> QED BY <1>2 DEF T

(***************************************************************************)
(* Bits and words.                                                         *)
(***************************************************************************)

\* A part of a sequence of bits.
LEMMA PartOfBits ==
  ASSUME NEW s \in Seq(Bit), NEW from \in Nat, NEW to \in Nat, from <= to, to <= Len(s)
  PROVE  /\ SubSeq(s, from + 1, to) \in Seq(Bit)
         /\ Len(SubSeq(s, from + 1, to)) = to - from
         /\ \A i \in 1 .. to - from : SubSeq(s, from + 1, to)[i] = s[from + i]
<1>1. from + 1 \in Int /\ to \in Int
  OBVIOUS
<1> QED BY <1>1, SubSeqProperties

\* There is a word.
LEMMA WordSize == 2^WordBits \in Nat \ {0}
BY PowersAssumption, WordBitsAssumption

\* The u64 a field is shifted into is a word, whatever the field's width.
LEMMA UintIsWord ==
  ASSUME NEW bits \in Seq(Bit)
  PROVE  Uint(bits) \in Word
<1> DEFINE n == Len(bits)
           Next(f, i) == IF i = 0 THEN 0 ELSE (2 * f[i - 1] + bits[i]) % 2^WordBits
           val == CHOOSE v : v = [i \in 0 .. Len(bits) |->
                                   IF i = 0 THEN 0 ELSE (2 * v[i - 1] + bits[i]) % 2^WordBits]
           step == [f \in [0 .. n -> Word] |-> [i \in 0 .. n |-> Next(f, i)]]
<1>1. Uint(bits) = val[n]
  BY DEF Uint
<1>2. n \in Nat /\ \A i \in 1 .. n : bits[i] \in Nat
  BY DEF Bit
<1>3. ASSUME NEW w \in Word, NEW b \in Nat
      PROVE  (2 * w + b) % 2^WordBits \in Word
  BY WordSize DEF Word
<1>4. 0 \in Word
  BY WordSize DEF Word
<1>5. ASSUME NEW f, NEW i \in 0 .. n, i > 0 => f[i - 1] \in Word
      PROVE  Next(f, i) \in Word
  BY <1>2, <1>3, <1>4, <1>5
<1>6. \E f \in [0 .. n -> Word] : \A i \in 0 .. n : f[i] = step[f][i]
  <2>1. \A f \in [0 .. n -> Word] : \A i \in 0 .. n : step[f][i] \in Word
    BY <1>5
  <2>2. \A f, g \in [0 .. n -> Word] : \A i \in 0 .. n :
          (\A j \in 0 .. i - 1 : f[j] = g[j]) => step[f][i] = step[g][i]
    OBVIOUS
  <2>3. IsStep(step, 0, n, Word)
    BY <1>4, <2>1, <2>2 DEF IsStep
  <2> HIDE DEF step
  <2> QED BY <1>2, <2>3, Recursion
<1>7. val = [i \in 0 .. n |-> Next(val, i)]
  <2>1. \E v : v = [i \in 0 .. n |-> Next(v, i)]
    BY <1>6
  <2> QED BY <2>1
<1> HIDE DEF val
<1> DEFINE U == {m \in Nat : m <= n => val[m] \in Word}
<1>8. 0 \in U
  BY <1>2, <1>5, <1>7
<1>9. ASSUME NEW m \in Nat, m \in U
      PROVE  m + 1 \in U
  BY <1>2, <1>5, <1>7, <1>9
<1>10. n \in U
  <2> HIDE DEF U
  <2> QED BY <1>2, <1>8, <1>9, NatSetInduction
<1> QED BY <1>1, <1>2, <1>10

(***************************************************************************)
(* eval_expr.                                                              *)
(***************************************************************************)

\* The arithmetic of u64 stays in it.
LEMMA ArithIsWord ==
  ASSUME NEW op \in BinOps, NEW x \in Word, NEW y \in Word
  PROVE  Arith(op, x, y) \in Word
<1>1. x \in Nat /\ y \in Nat /\ x < 2^WordBits
  BY WordSize DEF Word
<1>2. \A z \in Int : z % 2^WordBits \in Word
  BY WordSize DEF Word
<1>3. y % WordBits \in 0 .. 2 * WordBits
  BY <1>1, WordBitsAssumption
<1> DEFINE p == 2^(y % WordBits)
<1>4. p \in Nat \ {0}
  BY <1>3, PowersAssumption
<1> HIDE DEF p
<1>5. x * p \in Int /\ x + y \in Int /\ x - y \in Int /\ x * y \in Int
  BY <1>1, <1>4
<1>6. x \div p \in Word
  <2>1. x \div p \in Nat /\ x \div p <= x
    BY <1>1, <1>4
  <2> QED BY <1>1, <2>1, WordSize DEF Word
<1>7. \A a, b \in Bit : Both(a, b) \in Bit /\ Either(a, b) \in Bit
  BY DEF Bit, Both, Either
<1>8. BitwiseAnd(x, y) \in Word /\ BitwiseOr(x, y) \in Word
  <2>1. \A b : Both(b, b) \in Bit
    BY DEF Both, Bit
  <2>2. /\ [i \in 1 .. WordBits |-> Both(BitOf(x, WordBits - i), BitOf(y, WordBits - i))] \in Seq(Bit)
        /\ [i \in 1 .. WordBits |-> Either(BitOf(x, WordBits - i), BitOf(y, WordBits - i))] \in Seq(Bit)
    BY WordBitsAssumption DEF Both, Either, Bit
  <2> QED BY <2>2, UintIsWord DEF BitwiseAnd, BitwiseOr
<1>9. Arith(op, x, y) \in {(x + y) % 2^WordBits, (x - y) % 2^WordBits, (x * y) % 2^WordBits,
                           (x * p) % 2^WordBits, x \div p, BitwiseAnd(x, y), BitwiseOr(x, y)}
  BY DEF Arith, BinOps, p
<1> QED BY <1>2, <1>5, <1>6, <1>8, <1>9

Value == Word \cup {Unresolved}

\* The operands of a node come before it.
LEMMA ExprFacts ==
  ASSUME NEW i, IsIr(i)
  PROVE  /\ Len(i.exprs) \in Nat
         /\ \A e \in 1 .. Len(i.exprs) :
              /\ i.exprs[e] \in Expr
              /\ i.exprs[e].op \in BinOps =>
                   i.exprs[e].l \in 0 .. e - 1 /\ i.exprs[e].r \in 0 .. e - 1
<1>1. i.exprs \in Seq(Expr) /\ DOMAIN i.exprs = 1 .. Len(i.exprs) /\ Len(i.exprs) \in Nat
  BY DEF IsIr
<1>2. ASSUME NEW e \in 1 .. Len(i.exprs)
      PROVE  i.exprs[e] \in Expr /\ i.exprs[e].l \in Nat /\ i.exprs[e].r \in Nat
  <2>1. i.exprs[e] \in Expr
    BY <1>1
  <2> QED BY <2>1 DEF Expr
<1>3. \A e \in 1 .. Len(i.exprs) : i.exprs[e].op \in BinOps =>
        i.exprs[e].l < e /\ i.exprs[e].r < e
  BY <1>1 DEF IsIr
<1> QED BY <1>1, <1>2, <1>3

\* A node's value is a word or unresolved when its operands' are.
LEMMA EvalNodeIsValue ==
  ASSUME NEW i, IsIr(i), NEW env, env \in [DOMAIN env -> Seq(Bit)], NEW e \in 1 .. Len(i.exprs),
         NEW f, \A j \in 0 .. e - 1 : f[j] \in Value
  PROVE  EvalNode(i.exprs[e], env, f) \in Value
<1> DEFINE x == i.exprs[e]
<1>1. x \in Expr /\ (x.op \in BinOps => x.l \in 0 .. e - 1 /\ x.r \in 0 .. e - 1)
  BY ExprFacts
<1>2. Unresolved \in Value /\ x.v \in Value
  BY <1>1 DEF Expr, Value
<1>3. <<x.h, x.f>> \in DOMAIN env => Uint(env[<<x.h, x.f>>]) \in Value
  BY UintIsWord DEF Value
<1>4. x.op \in BinOps /\ Unresolved \notin {f[x.l], f[x.r]} => Arith(x.op, f[x.l], f[x.r]) \in Value
  BY <1>1, ArithIsWord DEF Value
<1> HIDE DEF x
<1>5. EvalNode(x, env, f) \in Value
  BY <1>2, <1>3, <1>4 DEF EvalNode
<1> QED BY <1>5 DEF x

\* An expression's value is a word or unresolved, and is its node's, for the
\* values of the operands.
LEMMA EvalExprUnfolds ==
  ASSUME NEW i, IsIr(i), NEW env, env \in [DOMAIN env -> Seq(Bit)]
  PROVE  \E val : \A e \in 0 .. Len(i.exprs) :
           /\ EvalExpr(i, e, env) = val[e]
           /\ val[e] \in Value
           /\ val[e] = IF e = 0 THEN Unresolved ELSE EvalNode(i.exprs[e], env, val)
<1> DEFINE n == Len(i.exprs)
           Body(f, e) == IF e = 0 THEN Unresolved ELSE EvalNode(i.exprs[e], env, f)
           val == CHOOSE v : v = [e \in 0 .. Len(i.exprs) |-> Body(v, e)]
           step == [f \in [0 .. n -> Value] |-> [e \in 0 .. n |-> Body(f, e)]]
<1>1. \A e : EvalExpr(i, e, env) = val[e]
  BY DEF EvalExpr
<1>2. n \in Nat
  BY ExprFacts
<1>3. ASSUME NEW f, NEW e \in 0 .. n, \A j \in 0 .. e - 1 : f[j] \in Value
      PROVE  Body(f, e) \in Value
  BY <1>3, EvalNodeIsValue DEF Value
<1>4. ASSUME NEW f, NEW g, NEW e \in 0 .. n, \A j \in 0 .. e - 1 : f[j] = g[j]
      PROVE  Body(f, e) = Body(g, e)
  <2>1. CASE e = 0
    BY <2>1
  <2>2. CASE e # 0
    <3>1. e \in 1 .. Len(i.exprs)
      BY <1>2, <2>2
    <3> DEFINE x == i.exprs[e]
    <3>2. x.op \in BinOps => f[x.l] = g[x.l] /\ f[x.r] = g[x.r]
      BY <1>4, <3>1, ExprFacts
    <3> HIDE DEF x
    <3>3. EvalNode(x, env, f) = EvalNode(x, env, g)
      BY <3>2 DEF EvalNode
    <3> QED BY <2>2, <3>3 DEF x
  <2> QED BY <2>1, <2>2
<1>5. IsStep(step, 0, n, Value)
  <2> HIDE DEF Body
  <2>1. Value # {}
    BY DEF Value
  <2>2. \A f \in [0 .. n -> Value] : \A e \in 0 .. n : step[f][e] \in Value
    BY <1>2, <1>3
  <2>3. \A f, g \in [0 .. n -> Value] : \A e \in 0 .. n :
          (\A j \in 0 .. e - 1 : f[j] = g[j]) => step[f][e] = step[g][e]
    BY <1>4
  <2> QED BY <2>1, <2>2, <2>3 DEF IsStep
<1>6. \E f \in [0 .. n -> Value] : \A e \in 0 .. n : f[e] = step[f][e]
  <2> HIDE DEF step
  <2> QED BY <1>2, <1>5, Recursion
<1>7. val = [e \in 0 .. n |-> Body(val, e)]
  <2>1. \E v : v = [e \in 0 .. n |-> Body(v, e)]
    <3> HIDE DEF Body
    <3> QED BY <1>6
  <2> QED BY <2>1
<1> HIDE DEF val
<1>8. \A e \in 0 .. n : val[e] = Body(val, e)
  <2> HIDE DEF Body
  <2> QED BY <1>7
<1>9. \A e \in 0 .. n : val[e] \in Value
  <2> HIDE DEF Body
  <2> DEFINE U == {m \in Nat : m <= n => val[m] \in Value}
  <2>1. ASSUME NEW m \in Nat, \A j \in 0 .. m - 1 : j \in U
        PROVE  m \in U
    BY <1>2, <1>3, <1>8, <2>1
  <2>2. \A m \in Nat : m \in U
    <3> HIDE DEF U
    <3> QED BY <2>1, StrongSetInduction
  <2> QED BY <1>2, <2>2
<1> QED BY <1>1, <1>8, <1>9

(***************************************************************************)
(* Flattened sequences.                                                    *)
(***************************************************************************)

\* A flattened sequence is built from its parts from left to right.
LEMMA FlattenUnfolds ==
  ASSUME NEW S, NEW seqs \in Seq(Seq(S))
  PROVE  \E flat :
           /\ FlattenSeq(seqs) = IF seqs = <<>> THEN <<>> ELSE flat[Len(seqs)]
           /\ \A k \in 1 .. Len(seqs) :
                /\ flat[k] \in Seq(S)
                /\ flat[k] = IF k = 1 THEN seqs[1] ELSE flat[k - 1] \o seqs[k]
<1> DEFINE n == Len(seqs)
           V == Seq(S)
           Body(f, k) == IF k = 1 THEN seqs[k] ELSE f[k - 1] \o seqs[k]
           step == [f \in [1 .. n -> V] |-> [k \in 1 .. n |-> Body(f, k)]]
           flat == CHOOSE v : v = [k \in 1 .. Len(seqs) |-> Body(v, k)]
<1>1. n \in Nat /\ DOMAIN seqs = 1 .. n /\ (\A k \in 1 .. n : seqs[k] \in V) /\ V # {}
  OBVIOUS
<1>2. Len(seqs) = 0 <=> seqs = <<>>
  OBVIOUS
<1>3. Len(seqs) # 0 => FlattenSeq(seqs) = flat[n]
  BY DEF FlattenSeq
<1>4. \A s, t \in V : s \o t \in V
  OBVIOUS
<1> HIDE DEF V
<1>5. ASSUME NEW f, NEW k \in 1 .. n, \A j \in 1 .. k - 1 : f[j] \in V
      PROVE  Body(f, k) \in V
  <2>1. k # 1 => k - 1 \in 1 .. k - 1
    BY <1>1
  <2> QED BY <1>1, <1>4, <1>5, <2>1
<1>6. IsStep(step, 1, n, V)
  <2>1. ASSUME NEW f \in [1 .. n -> V], NEW k \in 1 .. n
        PROVE  step[f][k] \in V
    <3>0. \A j \in 1 .. k - 1 : j \in 1 .. n
      BY <1>1
    <3>1. \A j \in 1 .. k - 1 : f[j] \in V
      BY <3>0, Zenon
    <3>2. Body(f, k) \in V
      BY <1>5, <3>1
    <3> QED BY <3>2
  <2>2. ASSUME NEW f \in [1 .. n -> V], NEW g \in [1 .. n -> V], NEW k \in 1 .. n,
               \A j \in 1 .. k - 1 : f[j] = g[j]
        PROVE  step[f][k] = step[g][k]
    <3>1. k # 1 => k - 1 \in 1 .. k - 1
      BY <1>1
    <3> QED BY <2>2, <3>1
  <2> HIDE DEF step
  <2> QED BY <1>1, <2>1, <2>2 DEF IsStep
<1>7. \E f \in [1 .. n -> V] : \A k \in 1 .. n : f[k] = step[f][k]
  <2> HIDE DEF step
  <2> QED BY <1>1, <1>6, Recursion
<1>8. flat = [k \in 1 .. n |-> Body(flat, k)]
  <2>1. \E v : v = [k \in 1 .. n |-> Body(v, k)]
    <3> HIDE DEF Body
    <3> QED BY <1>7
  <2> QED BY <2>1
<1> HIDE DEF flat
<1>9. \A k \in 1 .. n : flat[k] = Body(flat, k)
  <2> HIDE DEF Body
  <2> QED BY <1>8
<1> DEFINE U == {m \in Nat : m \in 1 .. n => flat[m] \in V}
<1>10. ASSUME NEW m \in Nat, \A j \in 0 .. m - 1 : j \in U
       PROVE  m \in U
  <2> SUFFICES ASSUME m \in 1 .. n
               PROVE  flat[m] \in V
    OBVIOUS
  <2>1. \A j \in 1 .. m - 1 : j \in 0 .. m - 1 /\ j \in 1 .. n
    BY <1>1
  <2>2. \A j \in 1 .. m - 1 : flat[j] \in V
    BY <1>10, <2>1
  <2> HIDE DEF Body
  <2> QED BY <1>5, <1>9, <2>2
<1>11. \A m \in Nat : m \in U
  <2> HIDE DEF U
  <2> QED BY <1>10, StrongSetInduction
<1>12. \A k \in 1 .. n : flat[k] \in V
  BY <1>1, <1>11
<1>13. FlattenSeq(seqs) = IF seqs = <<>> THEN <<>> ELSE flat[n]
  BY <1>2, <1>3 DEF FlattenSeq
<1> QED BY <1>9, <1>12, <1>13 DEF V

\* It holds nothing but what its parts hold.
LEMMA FlattenIsSeq ==
  ASSUME NEW S, NEW seqs \in Seq(Seq(S))
  PROVE  FlattenSeq(seqs) \in Seq(S)
<1>1. PICK flat :
        /\ FlattenSeq(seqs) = IF seqs = <<>> THEN <<>> ELSE flat[Len(seqs)]
        /\ \A k \in 1 .. Len(seqs) : flat[k] \in Seq(S)
  BY FlattenUnfolds
<1>2. seqs # <<>> => Len(seqs) \in 1 .. Len(seqs)
  OBVIOUS
<1>3. <<>> \in Seq(S)
  OBVIOUS
<1> QED BY <1>1, <1>2, <1>3

\* And it is its first part followed by the others.
LEMMA FlattenHead ==
  ASSUME NEW S, NEW seqs \in Seq(Seq(S)), seqs # <<>>
  PROVE  FlattenSeq(seqs) = Head(seqs) \o FlattenSeq(Tail(seqs))
<1> DEFINE n == Len(seqs)
           V == Seq(S)
           rest == Tail(seqs)
<1>1. /\ n \in Nat /\ n >= 1 /\ rest \in Seq(V) /\ Len(rest) = n - 1
      /\ Head(seqs) = seqs[1] /\ seqs[1] \in V
      /\ \A k \in 1 .. n - 1 : rest[k] = seqs[k + 1] /\ rest[k] \in V
  OBVIOUS
<1>2. PICK flat :
        /\ FlattenSeq(seqs) = IF seqs = <<>> THEN <<>> ELSE flat[n]
        /\ \A k \in 1 .. n :
             flat[k] \in V /\ flat[k] = IF k = 1 THEN seqs[1] ELSE flat[k - 1] \o seqs[k]
  BY FlattenUnfolds
<1>3. PICK tail :
        /\ FlattenSeq(rest) = IF rest = <<>> THEN <<>> ELSE tail[Len(rest)]
        /\ \A k \in 1 .. Len(rest) :
             tail[k] \in V /\ tail[k] = IF k = 1 THEN rest[1] ELSE tail[k - 1] \o rest[k]
  <2>1. rest \in Seq(Seq(S))
    BY <1>1
  <2> HIDE DEF rest
  <2> QED BY <2>1, FlattenUnfolds
<1>4. \A s, t, u \in V : (s \o t) \o u = s \o (t \o u)
  BY ConcatAssociative
<1>5. seqs[1] \o <<>> = seqs[1]
  BY <1>1
<1>6. rest = <<>> <=> n = 1
  <2> HIDE DEF rest, V
  <2>1. rest = <<>> <=> Len(rest) = 0
    BY <1>1
  <2> QED BY <1>1, <2>1
<1> HIDE DEF V, rest
<1> DEFINE U == {m \in Nat : m \in 1 .. n - 1 => flat[m + 1] = seqs[1] \o tail[m]}
<1>7. ASSUME NEW m \in Nat, \A j \in 0 .. m - 1 : j \in U
      PROVE  m \in U
  <2> SUFFICES ASSUME m \in 1 .. n - 1
               PROVE  flat[m + 1] = seqs[1] \o tail[m]
    OBVIOUS
  <2>1. flat[m + 1] = flat[m] \o rest[m] /\ rest[m] \in V
    <3>1. m + 1 \in 1 .. n /\ m + 1 # 1 /\ (m + 1) - 1 = m
      BY <1>1
    <3> QED BY <1>1, <1>2, <3>1
  <2>2. CASE m = 1
    <3>1. tail[1] = rest[1] /\ flat[1] = seqs[1]
      BY <1>1, <1>2, <1>3, <2>2
    <3> QED BY <2>1, <2>2, <3>1
  <2>3. CASE m # 1
    <3>1. m - 1 \in 0 .. m - 1 /\ m - 1 \in 1 .. n - 1 /\ (m - 1) + 1 = m /\ m - 1 \in Nat
      BY <1>1, <2>3
    <3>2. flat[m] = seqs[1] \o tail[m - 1]
      BY <1>7, <3>1
    <3>3. tail[m] = tail[m - 1] \o rest[m] /\ tail[m - 1] \in V
      BY <1>1, <1>3, <2>3, <3>1
    <3>4. (seqs[1] \o tail[m - 1]) \o rest[m] = seqs[1] \o (tail[m - 1] \o rest[m])
      BY <1>1, <1>4, <2>1, <3>3
    <3> QED BY <2>1, <3>2, <3>3, <3>4, Zenon
  <2> QED BY <2>2, <2>3
<1>8. \A m \in Nat : m \in U
  <2> HIDE DEF U
  <2> QED BY <1>7, StrongSetInduction
<1>9. CASE n = 1
  <2>1. flat[n] = seqs[1]
    BY <1>2, <1>9
  <2> QED BY <1>1, <1>2, <1>3, <1>5, <1>6, <1>9, <2>1 DEF rest
<1>10. CASE n # 1
  <2>1. n - 1 \in 1 .. n - 1 /\ (n - 1) + 1 = n /\ n - 1 \in Nat
    BY <1>1, <1>10
  <2>2. flat[n] = seqs[1] \o tail[n - 1]
    BY <1>8, <2>1
  <2> QED BY <1>1, <1>2, <1>3, <1>6, <1>10, <2>2 DEF rest
<1> QED BY <1>9, <1>10

(***************************************************************************)
(* The flat view of a state's extracts.                                    *)
(***************************************************************************)
NoWidth == [name |-> "", width |-> "none", n |-> 0]
WireField == [instance : STRING, field : Field \cup {NoWidth}]

\* The fields one extract contributes.
OwnFields(i, e) ==
  [j \in DOMAIN TypeFields(i, e.type) |->
    [instance |-> Instance(e), field |-> TypeFields(i, e.type)[j]]]

LEMMA OwnFieldsType ==
  ASSUME NEW i, IsIr(i), NEW e \in Extract
  PROVE  OwnFields(i, e) \in Seq(WireField)
<1>1. TypeFields(i, e.type) \in Seq(Field \cup {NoWidth})
  <2>1. ASSUME NEW s \in Seq(Field) PROVE s \in Seq(Field \cup {NoWidth})
    <3> QED BY <2>1
  <2>2. <<NoWidth>> \in Seq(Field \cup {NoWidth})
    OBVIOUS
  <2>3. e.type \in DOMAIN i.types => i.types[e.type] \in Seq(Field)
    BY DEF IsIr
  <2> QED BY <2>1, <2>2, <2>3 DEF TypeFields, NoWidth
<1>2. Instance(e) \in STRING
  BY DEF Instance, Extract
<1> DEFINE fields == TypeFields(i, e.type)
<1>3. Len(fields) \in Nat /\ DOMAIN fields = 1 .. Len(fields)
  BY <1>1
<1>4. \A j \in 1 .. Len(fields) : [instance |-> Instance(e), field |-> fields[j]] \in WireField
  BY <1>1, <1>2 DEF WireField
<1> HIDE DEF fields
<1>5. QED
  BY <1>3, <1>4 DEF OwnFields, fields

LEMMA WireFieldsIs ==
  \A i, xs : WireFields(i, xs) = FlattenSeq([e \in DOMAIN xs |-> OwnFields(i, xs[e])])
BY DEF WireFields, OwnFields

LEMMA PartsType ==
  ASSUME NEW i, IsIr(i), NEW xs \in Seq(Extract)
  PROVE  [e \in DOMAIN xs |-> OwnFields(i, xs[e])] \in Seq(Seq(WireField))
<1>1. \A e \in DOMAIN xs : xs[e] \in Extract
  OBVIOUS
<1>2. \A e \in DOMAIN xs : OwnFields(i, xs[e]) \in Seq(WireField)
  BY <1>1, OwnFieldsType
<1>3. DOMAIN xs = 1 .. Len(xs) /\ Len(xs) \in Nat
  OBVIOUS
<1> QED BY <1>2, <1>3

LEMMA WireFieldsType ==
  ASSUME NEW i, IsIr(i), NEW xs \in Seq(Extract)
  PROVE  WireFields(i, xs) \in Seq(WireField)
BY PartsType, FlattenIsSeq, WireFieldsIs

LEMMA WireFieldsEmpty == \A i : WireFields(i, <<>>) = <<>>
<1> SUFFICES ASSUME NEW i PROVE WireFields(i, <<>>) = <<>>
  OBVIOUS
<1> DEFINE parts == [e \in DOMAIN <<>> |-> OwnFields(i, <<>>[e])]
<1>1. parts = <<>> /\ Len(parts) = 0
  OBVIOUS
<1> HIDE DEF parts
<1>2. FlattenSeq(parts) = parts
  BY <1>1 DEF FlattenSeq
<1> QED BY <1>1, <1>2, WireFieldsIs DEF parts

\* The first extract's fields come first.
LEMMA WireFieldsHead ==
  ASSUME NEW i, IsIr(i), NEW xs \in Seq(Extract), xs # <<>>
  PROVE  WireFields(i, xs) = OwnFields(i, Head(xs)) \o WireFields(i, Tail(xs))
<1> DEFINE parts == [e \in DOMAIN xs |-> OwnFields(i, xs[e])]
           rest == [e \in DOMAIN Tail(xs) |-> OwnFields(i, Tail(xs)[e])]
<1>1. parts \in Seq(Seq(WireField))
  BY PartsType
<1>2. /\ Len(xs) \in Nat \ {0} /\ DOMAIN xs = 1 .. Len(xs)
      /\ Tail(xs) \in Seq(Extract) /\ DOMAIN Tail(xs) = 1 .. Len(xs) - 1
      /\ Head(xs) = xs[1]
      /\ \A k \in 1 .. Len(xs) - 1 : Tail(xs)[k] = xs[k + 1]
  BY HeadTailProperties
<1>3. Len(parts) = Len(xs) /\ parts # <<>> /\ Head(parts) = OwnFields(i, xs[1])
  BY <1>2
<1>4. Tail(parts) = rest
  <2>1. rest \in Seq(Seq(WireField)) /\ Len(rest) = Len(xs) - 1
    <3>1. rest \in Seq(Seq(WireField))
      BY <1>2, PartsType
    <3> QED BY <1>2, <3>1
  <2>2. /\ Tail(parts) \in Seq(Seq(WireField)) /\ Len(Tail(parts)) = Len(xs) - 1
        /\ \A k \in 1 .. Len(xs) - 1 : Tail(parts)[k] = parts[k + 1]
    <3> HIDE DEF parts
    <3> QED BY <1>1, <1>2, <1>3, HeadTailProperties
  <2>3. \A k \in 1 .. Len(xs) - 1 : parts[k + 1] = OwnFields(i, xs[k + 1])
    BY <1>2
  <2>4. \A k \in 1 .. Len(xs) - 1 : rest[k] = OwnFields(i, xs[k + 1])
    BY <1>2
  <2> HIDE DEF parts, rest
  <2>5. \A k \in 1 .. Len(xs) - 1 : Tail(parts)[k] = rest[k]
    BY <2>2, <2>3, <2>4
  <2> QED BY <2>1, <2>2, <2>5, SeqEqual
<1> HIDE DEF parts, rest
<1>5. FlattenSeq(parts) = Head(parts) \o FlattenSeq(Tail(parts))
  BY <1>1, <1>3, FlattenHead
<1>6. WireFields(i, xs) = FlattenSeq(parts) /\ WireFields(i, Tail(xs)) = FlattenSeq(rest)
  BY WireFieldsIs DEF parts, rest
<1> QED BY <1>2, <1>3, <1>4, <1>5, <1>6

\* From the n-th extract on.
LEMMA WireFieldsFrom ==
  ASSUME NEW i, IsIr(i), NEW xs \in Seq(Extract), NEW n \in Nat, n < Len(xs)
  PROVE  WireFields(i, SubSeq(xs, n + 1, Len(xs)))
           = OwnFields(i, xs[n + 1]) \o WireFields(i, SubSeq(xs, n + 2, Len(xs)))
<1> DEFINE part == SubSeq(xs, n + 1, Len(xs))
<1>1. n + 1 \in 1 .. Len(xs) /\ Len(xs) \in (n + 1) .. Len(xs) /\ (n + 1) + 1 = n + 2
  OBVIOUS
<1>2. part \in Seq(Extract) /\ Len(part) = Len(xs) - n
  BY <1>1, SubSeqProperties
<1>3. part # <<>>
  <2>1. Len(part) # 0
    BY <1>2
  <2> HIDE DEF part
  <2> QED BY <2>1
<1>4. Head(part) = xs[n + 1] /\ Tail(part) = SubSeq(xs, n + 2, Len(xs))
  BY <1>1, HeadTailOfSubSeq
<1> HIDE DEF part
<1>5. WireFields(i, part) = OwnFields(i, Head(part)) \o WireFields(i, Tail(part))
  BY <1>2, <1>3, WireFieldsHead
<1> QED BY <1>4, <1>5 DEF part

LEMMA ConcatHeadTail ==
  ASSUME NEW S, NEW p \in Seq(S), NEW q \in Seq(S), p # <<>>
  PROVE  /\ p \o q # <<>>
         /\ Head(p \o q) = Head(p)
         /\ Tail(p \o q) = Tail(p) \o q
<1>1. /\ Len(p) \in Nat \ {0} /\ Len(q) \in Nat /\ p \o q \in Seq(S)
      /\ Len(p \o q) = Len(p) + Len(q)
  BY EmptySeq
<1>2. p \o q # <<>>
  BY <1>1
<1>3. Tail(p \o q) \in Seq(S) /\ Tail(p) \in Seq(S) /\ Tail(p) \o q \in Seq(S)
  BY <1>2, HeadTailProperties, ConcatProperties
<1>4. Len(Tail(p \o q)) = Len(Tail(p) \o q)
  BY <1>1
<1>5. \A k \in 1 .. Len(Tail(p \o q)) : Tail(p \o q)[k] = (Tail(p) \o q)[k]
  BY <1>1
<1>6. Tail(p \o q) = Tail(p) \o q
  BY <1>3, <1>4, <1>5, SeqEqual
<1> QED BY <1>1, <1>2, <1>6
================================================================================
