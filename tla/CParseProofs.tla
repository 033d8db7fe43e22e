----------------------------- MODULE CParseProofs -----------------------------
(***************************************************************************)
(* The emitted C parser, for every accepted description and every buffer:  *)
(* its offset stays within the buffer, so that the division form of the    *)
(* length test does not wrap; what the caller is told is present has been  *)
(* written; its arithmetic is the reference's but for shifts and fields    *)
(* that were never read; and where it is, the emitted parser implements    *)
(* the abstract one. The reason codes are a fold over a set of names,      *)
(* whose meaning comes first.                                              *)
(***************************************************************************)
EXTENDS CRefines, DataProofs

(***************************************************************************)
(* The reason table.                                                       *)
(***************************************************************************)

\* A set listed in some order: all of its elements, and no others.
LEMMA OrderFacts ==
  ASSUME NEW S, IsFiniteSet(S)
  PROVE  /\ InSomeOrder(S) \in Seq(S)
         /\ Len(InSomeOrder(S)) = Cardinality(S)
         /\ \A x \in S : \E k \in 1 .. Cardinality(S) : InSomeOrder(S)[k] = x
<1> DEFINE pick(T) == CHOOSE x \in T : TRUE
           Body(f, T) == IF T = {} THEN <<>> ELSE Append(f[T \ {pick(T)}], pick(T))
           it == CHOOSE f : f = [T \in SUBSET S |-> Body(f, T)]
           D == SUBSET S
           step == [f \in [SUBSET S -> Seq(S)] |-> [T \in SUBSET S |-> Body(f, T)]]
<1>1. InSomeOrder(S) = it[S]
  BY DEF InSomeOrder, FoldSet, MapThenFoldSet
<1>2. \A T \in SUBSET S : T # {} => pick(T) \in T
  OBVIOUS
<1> HIDE DEF pick
<1>5. \E f \in [D -> Seq(S)] : \A T \in D : f[T] = step[f][T]
  <2>1. ASSUME NEW f \in [D -> Seq(S)], NEW T \in D
        PROVE  step[f][T] \in Seq(S)
    <3>1. T # {} => f[T \ {pick(T)}] \in Seq(S) /\ pick(T) \in S
      BY <1>2
    <3>2. Body(f, T) \in Seq(S)
      BY <3>1
    <3> QED BY <3>2
  <2>2. ASSUME NEW f \in [D -> Seq(S)], NEW g \in [D -> Seq(S)], NEW T \in D,
               \A R \in SUBSET T : R # T => f[R] = g[R]
        PROVE  step[f][T] = step[g][T]
    <3>1. T # {} => f[T \ {pick(T)}] = g[T \ {pick(T)}]
      BY <1>2, <2>2
    <3> QED BY <3>1
  <2>3. Seq(S) # {}
    <3>1. <<>> \in Seq(S)
      OBVIOUS
    <3> QED BY <3>1
  <2>4. IsSetStep(step, S, D, Seq(S))
    <3> HIDE DEF step
    <3> QED BY <2>1, <2>2, <2>3 DEF IsSetStep
  <2> HIDE DEF step, D
  <2> QED BY <2>4, SetRecursion
<1>6. it = [T \in SUBSET S |-> Body(it, T)]
  <2>1. \E f : f = [T \in SUBSET S |-> Body(f, T)]
    BY <1>5
  <2> QED BY <2>1
<1> HIDE DEF it
<1>7. \A T \in SUBSET S : it[T] = Body(it, T)
  BY <1>6
<1> DEFINE Lists(T) == /\ it[T] \in Seq(S)
                       /\ Len(it[T]) = Cardinality(T)
                       /\ \A x \in T : \E k \in 1 .. Len(it[T]) : it[T][k] = x
           U == {n \in Nat : \A T \in SUBSET S : Cardinality(T) = n => Lists(T)}
<1>8. 0 \in U
  <2> SUFFICES ASSUME NEW T \in SUBSET S, Cardinality(T) = 0
               PROVE  Lists(T)
    OBVIOUS
  <2>1. T = {}
    BY FS_Subset, FS_EmptySet
  <2>2. it[T] = <<>>
    BY <1>7, <2>1
  <2> QED BY <2>1, <2>2
<1>9. ASSUME NEW n \in Nat, n \in U
      PROVE  n + 1 \in U
  <2> SUFFICES ASSUME NEW T \in SUBSET S, Cardinality(T) = n + 1
               PROVE  Lists(T)
    OBVIOUS
  <2> DEFINE R == T \ {pick(T)}
  <2>1. T # {} /\ IsFiniteSet(T)
    BY FS_Subset, FS_EmptySet
  <2>2. Cardinality(R) = n
    <3>1. Cardinality(R) = Cardinality(T) - 1
      BY <1>2, <2>1, FS_RemoveElement
    <3> QED BY <3>1
  <2>3. Lists(R)
    BY <1>9, <2>2
  <2>4. it[T] = Append(it[R], pick(T)) /\ pick(T) \in S /\ R \in SUBSET S
    BY <1>2, <1>7, <2>1
  <2> HIDE DEF R
  <2>5. it[T] \in Seq(S) /\ Len(it[T]) = n + 1 /\ it[T][n + 1] = pick(T)
    BY <2>2, <2>3, <2>4
  <2>6. ASSUME NEW x \in T
        PROVE  \E k \in 1 .. Len(it[T]) : it[T][k] = x
    <3>1. CASE x = pick(T)
      BY <2>5, <3>1
    <3>2. CASE x # pick(T)
      <4>1. x \in R
        BY <3>2 DEF R
      <4>2. PICK k \in 1 .. Len(it[R]) : it[R][k] = x
        BY <2>3, <4>1
      <4>3. k \in 1 .. n /\ it[T][k] = it[R][k]
        BY <2>2, <2>3, <2>4, <4>2
      <4> QED BY <2>5, <4>2, <4>3
    <3> QED BY <3>1, <3>2
  <2> QED BY <2>5, <2>6
<1>10. Cardinality(S) \in U
  <2>1. Cardinality(S) \in Nat
    BY FS_CardinalityType
  <2> HIDE DEF U
  <2> QED BY <1>8, <1>9, <2>1, NatSetInduction
<1> QED BY <1>1, <1>10

\* The authored reasons are finitely many.
LEMMA AuthoredIsFinite ==
  ASSUME NEW i, IsIr(i)
  PROVE  IsFiniteSet(Authored(i))
<1> DEFINE St == DOMAIN i.states
           own == [s \in St |-> {t.to : t \in {u \in Targets(i.states[s].trans) : u.kind = "reject"}}]
<1>1. IsFiniteSet(St)
  <2>1. i.order \in Seq(St) /\ \A s \in St : \E k \in DOMAIN i.order : i.order[k] = s
    BY DEF IsIr
  <2>2. IsFiniteSet(1 .. Len(i.order)) /\ DOMAIN i.order = 1 .. Len(i.order)
    BY <2>1, FS_Interval
  <2>3. St = {i.order[k] : k \in 1 .. Len(i.order)}
    BY <2>1, <2>2
  <2> HIDE DEF St
  <2> QED BY <2>2, <2>3, ImageIsFinite
<1>2. ASSUME NEW s \in St
      PROVE  IsFiniteSet(own[s])
  <2> DEFINE tr == i.states[s].trans
             Rejects == {u \in Targets(tr) : u.kind = "reject"}
             to == [t \in Rejects |-> t.to]
  <2>1. tr \in Transition
    BY DEF IsIr, State
  <2>2. IsFiniteSet(DOMAIN tr.arms)
    <3>1. DOMAIN tr.arms = 1 .. Len(tr.arms) /\ Len(tr.arms) \in Nat
      BY <2>1 DEF Transition
    <3> QED BY <3>1, FS_Interval
  <2>3. IsFiniteSet({tr.arms[a].next : a \in DOMAIN tr.arms})
    <3> DEFINE next == [a \in DOMAIN tr.arms |-> tr.arms[a].next]
    <3>1. IsFiniteSet({next[a] : a \in DOMAIN tr.arms})
      <4> HIDE DEF next
      <4> QED BY <2>2, ImageIsFinite
    <3>2. {next[a] : a \in DOMAIN tr.arms} = {tr.arms[a].next : a \in DOMAIN tr.arms}
      OBVIOUS
    <3> QED BY <3>1, <3>2
  <2> HIDE DEF tr
  <2>4. IsFiniteSet(Targets(tr))
    <3>1. IsFiniteSet({tr.default}) /\ IsFiniteSet({})
      BY FS_Singleton, FS_EmptySet
    <3>2. IsFiniteSet({tr.arms[a].next : a \in DOMAIN tr.arms} \cup {tr.default})
      BY <2>3, <3>1, FS_Union
    <3> QED BY <3>1, <3>2 DEF Targets
  <2>5. IsFiniteSet(Rejects)
    BY <2>4, FS_Subset
  <2>6. IsFiniteSet({to[t] : t \in Rejects})
    <3> HIDE DEF Rejects, to
    <3> QED BY <2>5, ImageIsFinite
  <2>7. {to[t] : t \in Rejects} = own[s]
    BY DEF tr
  <2> QED BY <2>6, <2>7
<1>3. IsFiniteSet({own[s] : s \in St})
  <2> HIDE DEF St, own
  <2> QED BY <1>1, ImageIsFinite
<1>4. Authored(i) = UNION {own[s] : s \in St}
  BY DEF Authored
<1>5. IsFiniteSet(UNION {own[s] : s \in St})
  <2> HIDE DEF St, own
  <2> QED BY <1>2, <1>3, FS_UNION
<1> QED BY <1>4, <1>5

\* How many reasons of its own a description has.
Own(i) == Cardinality(Authored(i) \ ToSet(BuiltIn))
Codes(i) == {1, 2, 3} \cup 16 .. 15 + Own(i)

\* Every reason the code can give has a code, and a built-in one its own.
LEMMA ReasonFacts ==
  ASSUME NEW i, IsIr(i)
  PROVE  /\ Own(i) \in Nat
         /\ DOMAIN ReasonTable(i) = Codes(i)
         /\ \A c \in Codes(i) : ReasonTable(i)[c] = BuiltIn[1] <=> c = 1
         /\ \A r \in ToSet(BuiltIn) \cup Authored(i) : \E c \in Codes(i) : ReasonTable(i)[c] = r
<1> DEFINE S == Authored(i) \ ToSet(BuiltIn)
           own == InSomeOrder(S)
           T == [c \in {1, 2, 3} \cup 16 .. 15 + Len(own) |-> IF c <= 3 THEN BuiltIn[c] ELSE own[c - 15]]
<1>1. IsFiniteSet(S)
  BY AuthoredIsFinite, FS_Difference
<1>2. own \in Seq(S) /\ Len(own) = Own(i) /\ \A x \in S : \E k \in 1 .. Own(i) : own[k] = x
  BY <1>1, OrderFacts DEF Own
<1>3. Own(i) \in Nat
  BY <1>2
<1>4. ReasonTable(i) = T
  BY DEF ReasonTable
<1>5. DOMAIN BuiltIn = {1, 2, 3} /\ ToSet(BuiltIn) = {BuiltIn[1], BuiltIn[2], BuiltIn[3]}
  <2>1. Len(BuiltIn) = 3 /\ DOMAIN BuiltIn = 1 .. 3
    BY DEF BuiltIn
  <2>2. DOMAIN BuiltIn = {1, 2, 3}
    BY <2>1
  <2> QED BY <2>2 DEF ToSet
<1>6. BuiltIn[1] # BuiltIn[2] /\ BuiltIn[1] # BuiltIn[3]
  BY DEF BuiltIn
<1>7. \A c \in 16 .. 15 + Own(i) : own[c - 15] \in S
  BY <1>2, <1>3
<1>8. \A r \in S : \E c \in 16 .. 15 + Own(i) : own[c - 15] = r
  <2> SUFFICES ASSUME NEW r \in S
               PROVE  \E c \in 16 .. 15 + Own(i) : own[c - 15] = r
    OBVIOUS
  <2>1. PICK k \in 1 .. Own(i) : own[k] = r
    BY <1>2
  <2>2. k + 15 \in 16 .. 15 + Own(i) /\ (k + 15) - 15 = k
    BY <1>3
  <2> QED BY <2>1, <2>2
<1>9. DOMAIN T = Codes(i) /\ \A c \in Codes(i) : T[c] = IF c <= 3 THEN BuiltIn[c] ELSE own[c - 15]
  BY <1>2 DEF Codes
<1>10. BuiltIn[1] \notin S
  BY <1>5
<1> HIDE DEF own, S, T
<1>11. \A c \in Codes(i) : T[c] = BuiltIn[1] <=> c = 1
  BY <1>3, <1>6, <1>7, <1>9, <1>10 DEF Codes
<1>12. \A r \in ToSet(BuiltIn) \cup S : \E c \in Codes(i) : T[c] = r
  <2>1. \A r \in ToSet(BuiltIn) : \E c \in {1, 2, 3} : T[c] = r
    BY <1>5, <1>9 DEF Codes
  <2>2. \A r \in S : \E c \in 16 .. 15 + Own(i) : T[c] = r
    BY <1>3, <1>8, <1>9 DEF Codes
  <2> QED BY <2>1, <2>2 DEF Codes
<1> QED BY <1>3, <1>4, <1>9, <1>11, <1>12 DEF S

(***************************************************************************)
(* Types.                                                                  *)
(***************************************************************************)

\* Where the emitted code may be.
AtPlace ==
  pc = "body" =>
    /\ ex \in 1 .. Len(Extracts) + 1
    /\ fld \in Nat
    /\ ex <= Len(Extracts) => fld <= Len(Fields)

RetType == [outcome : {"pending", "accept", "reject"}, reason : {0} \cup Codes(ir), consumed : Nat]

CTypeOK ==
  /\ ir \in Irs /\ Generates(ir) /\ packet \in Packets
  /\ pc \in {"head", "body", "returned"}
  /\ state \in DOMAIN ir.states
  /\ depth \in Nat
  /\ AtPlace
  /\ off \in 0 .. BitLen
  /\ present \subseteq STRING
  /\ members \in [DOMAIN members -> Seq(Bit)]
  /\ ret \in RetType
  /\ pc = "returned" <=> ret.outcome # "pending"
  /\ pc = "returned" => ret.consumed = off

\* The bodies handed out lie within what was consumed.
SpansConsumed ==
  \A k \in DOMAIN spans :
    /\ spans[k].off \in Nat /\ spans[k].len \in Nat
    /\ spans[k].off + spans[k].len <= off

\* What an accepted description says of the state the parser is in.
LEMMA StateShape ==
  ASSUME CTypeOK
  PROVE  /\ IsIr(ir) /\ Resolves(ir)
         /\ Extracts \in Seq(Extract) /\ Len(Extracts) \in Nat
         /\ DOMAIN Extracts = 1 .. Len(Extracts)
         /\ Trans \in Transition /\ Trans.kind # "none"
         /\ \A t \in DOMAIN ir.types : ir.types[t] \in Seq(Field)
         /\ BitLen \in Nat /\ packet \in Seq(Bit) /\ BitLen + WordBits < 2^WordBits
         /\ off \in Nat /\ off <= BitLen
<1>1. IsIr(ir) /\ Resolves(ir) /\ packet \in Seq(Bit) /\ BitLen + WordBits < 2^WordBits
  BY IrsAssumption, AcceptedAssumption, BuffersAssumption DEF CTypeOK, BitLen
<1>2. ir.states[state] \in State
  BY <1>1 DEF CTypeOK, IsIr
<1>3. Extracts \in Seq(Extract) /\ Trans \in Transition
  BY <1>2 DEF State, Extracts, Trans
<1>4. Trans.kind # "none"
  BY DEF CTypeOK, Generates, Trans
<1>5. \A t \in DOMAIN ir.types : ir.types[t] \in Seq(Field)
  BY <1>1 DEF IsIr
<1>6. BitLen \in Nat /\ off \in 0 .. BitLen
  BY <1>1 DEF BitLen, CTypeOK
<1> QED BY <1>1, <1>3, <1>4, <1>5, <1>6

\* The extract and the field whose code runs next.
LEMMA ExtractShape ==
  ASSUME CTypeOK, pc = "body", ex <= Len(Extracts)
  PROVE  /\ ex \in 1 .. Len(Extracts) /\ X \in Extract /\ Instance(X) \in STRING
         /\ X \in ToSet(Extracts)
         /\ X.type \in DOMAIN ir.types /\ Fields = ir.types[X.type]
         /\ Fields \in Seq(Field) /\ Len(Fields) \in Nat /\ DOMAIN Fields = 1 .. Len(Fields)
         /\ fld \in 0 .. Len(Fields)
<1>1. ex \in 1 .. Len(Extracts)
  BY StateShape DEF CTypeOK, AtPlace
<1>2. X \in Extract /\ X \in ToSet(Extracts)
  BY <1>1, StateShape DEF X, ToSet
<1>3. Instance(X) \in STRING
  BY <1>2 DEF Extract, Instance
<1>4. X.type \in DOMAIN ir.types
  BY <1>2 DEF CTypeOK, Generates, Extracts
<1>5. Fields \in Seq(Field)
  BY <1>4, StateShape DEF Fields
<1>6. fld \in 0 .. Len(Fields)
  BY <1>1, <1>5 DEF CTypeOK, AtPlace
<1> QED BY <1>1, <1>2, <1>3, <1>4, <1>5, <1>6 DEF Fields

\* And of the field it is at.
LEMMA FieldShape ==
  ASSUME CTypeOK, AtField
  PROVE  /\ Fld \in Field /\ Fld \in ToSet(Fields)
         /\ Fld.width = "bits" => Fld.n \in 1 .. WordBits
         /\ Fld.width = "bytes" => Fld.n \in DOMAIN ir.exprs
<1>1. pc = "body" /\ ex <= Len(Extracts) /\ fld \in 1 .. Len(Fields)
  BY DEF AtField
<1>2. Fld \in Field /\ Fld \in ToSet(Fields) /\ fld \in DOMAIN Fields
  BY <1>1, ExtractShape DEF Fld, ToSet
<1>3. X.type \in DOMAIN ir.types /\ Fields = ir.types[X.type]
  BY <1>1, ExtractShape
<1>4. Fld.width = "bits" => Fld.n \in 1 .. WordBits
  BY <1>2, <1>3, StateShape DEF Resolves
<1>5. Fld.width = "bytes" => Fld.n \in DOMAIN ir.exprs
  BY <1>2, <1>3, StateShape DEF IsIr, Fld
<1> QED BY <1>2, <1>4, <1>5

\* An offset the buffer has room for does not wrap.
LEMMA NoWrap ==
  ASSUME NEW x \in Nat, x < 2^WordBits
  PROVE  UInt64(x) = x
BY WordSize DEF UInt64

\* The values the build may give an expression are words, and those its node
\* gives for the values of the operands.
LEMMA CValuesUnfold ==
  ASSUME IsIr(ir), Generates(ir), members \in [DOMAIN members -> Seq(Bit)]
  PROVE  \E val : \A e \in DOMAIN ir.exprs :
           /\ CValues(e) = val[e]
           /\ val[e] \subseteq Word
           /\ val[e] = CNode(ir.exprs[e], val)
<1> DEFINE n == Len(ir.exprs)
           Body(f, k) == CNode(ir.exprs[k], f)
           val == CHOOSE v : v = [k \in 1 .. Len(ir.exprs) |-> Body(v, k)]
           V == SUBSET Word
           step == [f \in [1 .. n -> V] |-> [k \in 1 .. n |-> Body(f, k)]]
<1>1. \A e : CValues(e) = val[e]
  BY DEF CValues
<1>2. n \in Nat /\ DOMAIN ir.exprs = 1 .. n
  BY DEF IsIr
<1>3. ASSUME NEW k \in 1 .. n
      PROVE  /\ ir.exprs[k].op \in BinOps \cup {"const", "field"} /\ ir.exprs[k].v \in Word
             /\ ir.exprs[k].op \in BinOps =>
                  ir.exprs[k].l \in 1 .. k - 1 /\ ir.exprs[k].r \in 1 .. k - 1
  <2>1. Complete(ir, k)
    BY <1>2 DEF Generates
  <2>2. ir.exprs[k] \in Expr
    BY ExprFacts
  <2>3. ir.exprs[k].op \in BinOps => ir.exprs[k].l \in 0 .. k - 1 /\ ir.exprs[k].r \in 0 .. k - 1
    BY ExprFacts
  <2> QED BY <2>1, <2>2, <2>3 DEF Complete, Expr
<1>4. ASSUME NEW f, NEW k \in 1 .. n, \A j \in 1 .. k - 1 : f[j] \in SUBSET Word
      PROVE  Body(f, k) \in SUBSET Word
  <2> DEFINE x == ir.exprs[k]
  <2>1. x.v \in Word
    BY <1>3
  <2>2. Member(<<x.h, x.f>>) \in Word
    BY UintIsWord, WordSize DEF Member, Word
  <2>3. x.op \in BinOps => f[x.l] \in SUBSET Word /\ f[x.r] \in SUBSET Word
    BY <1>3, <1>4
  <2>4. 0 \in Word
    BY WordSize DEF Word
  <2>5. ASSUME x.op \in BinOps, NEW p \in f[x.l] \X f[x.r]
        PROVE  COp(x.op, p[1], p[2]) \subseteq Word
    <3>1. p[1] \in Word /\ p[2] \in Word
      BY <2>3, <2>5
    <3>2. Arith(x.op, p[1], p[2]) \in Word
      BY <2>5, <3>1, ArithIsWord
    <3> QED BY <2>4, <3>2 DEF COp
  <2>6. x.op \in BinOps \/ x.op = "const" \/ x.op = "field"
    BY <1>3
  <2>7. x.op \in BinOps => x.op # "const" /\ x.op # "field"
    BY DEF BinOps
  <2> HIDE DEF x
  <2>8. CNode(x, f) \in SUBSET Word
    BY <2>1, <2>2, <2>5, <2>6, <2>7 DEF CNode
  <2> QED BY <2>8 DEF x
<1>5. ASSUME NEW f, NEW g, NEW k \in 1 .. n, \A j \in 1 .. k - 1 : f[j] = g[j]
      PROVE  Body(f, k) = Body(g, k)
  <2> DEFINE x == ir.exprs[k]
  <2>1. x.op \in BinOps => f[x.l] = g[x.l] /\ f[x.r] = g[x.r]
    BY <1>3, <1>5
  <2>2. x.op \in BinOps \/ x.op = "const" \/ x.op = "field"
    BY <1>3
  <2> HIDE DEF x
  <2>3. CNode(x, f) = CNode(x, g)
    BY <2>1, <2>2 DEF CNode
  <2> QED BY <2>3 DEF x
<1>6. IsStep(step, 1, n, V)
  <2> HIDE DEF Body
  <2>1. V # {}
    OBVIOUS
  <2>2. \A f \in [1 .. n -> V] : \A k \in 1 .. n : step[f][k] \in V
    BY <1>2, <1>4
  <2>3. ASSUME NEW f \in [1 .. n -> V], NEW g \in [1 .. n -> V], NEW k \in 1 .. n,
               \A j \in 1 .. k - 1 : f[j] = g[j]
        PROVE  step[f][k] = step[g][k]
    <3> HIDE DEF V
    <3>1. Body(f, k) = Body(g, k)
      BY <1>5, <2>3
    <3> QED BY <3>1
  <2> HIDE DEF V
  <2> QED BY <2>1, <2>2, <2>3 DEF IsStep
<1>7. \E f \in [1 .. n -> V] : \A k \in 1 .. n : f[k] = step[f][k]
  <2> HIDE DEF step, V
  <2> QED BY <1>2, <1>6, Recursion
<1>8. val = [k \in 1 .. n |-> Body(val, k)]
  <2>1. \E v : v = [k \in 1 .. n |-> Body(v, k)]
    <3> HIDE DEF Body
    <3> QED BY <1>7
  <2> QED BY <2>1
<1> HIDE DEF val
<1>9. \A k \in 1 .. n : val[k] \in SUBSET Word
  <2>1. \A k \in 1 .. n : val[k] = Body(val, k)
    <3> HIDE DEF Body
    <3> QED BY <1>8
  <2> HIDE DEF Body
  <2> DEFINE U == {m \in Nat : m \in 1 .. n => val[m] \in SUBSET Word}
  <2>2. ASSUME NEW m \in Nat, \A j \in 0 .. m - 1 : j \in U
        PROVE  m \in U
    BY <1>2, <1>4, <2>1, <2>2
  <2>3. \A m \in Nat : m \in U
    <3> HIDE DEF U
    <3> QED BY <2>2, StrongSetInduction
  <2> QED BY <1>2, <2>3
<1>10. \A k \in 1 .. n : val[k] = Body(val, k)
  <2> HIDE DEF Body
  <2> QED BY <1>8
<1> QED BY <1>1, <1>2, <1>9, <1>10

LEMMA CValuesAreWords ==
  ASSUME IsIr(ir), Generates(ir), members \in [DOMAIN members -> Seq(Bit)],
         NEW e \in DOMAIN ir.exprs
  PROVE  CValues(e) \subseteq Word
BY CValuesUnfold

\* The count of every shift is below the word size: the one operation C
\* leaves undefined does not happen.
ShiftsBelowWord ==
  \A e \in DOMAIN ir.exprs :
    ir.exprs[e].op \in {"shl", "shr"} => EvalExpr(ir, ir.exprs[e].r, members) < WordBits

\* Then an expression whose fields have been read has one value, the
\* reference's.
LEMMA CValuesEval ==
  ASSUME IsIr(ir), Generates(ir), members \in [DOMAIN members -> Seq(Bit)], ShiftsBelowWord,
         NEW e \in DOMAIN ir.exprs, EvalExpr(ir, e, members) # Unresolved
  PROVE  CValues(e) = {EvalExpr(ir, e, members)}
<1> DEFINE n == Len(ir.exprs)
<1>1. n \in Nat /\ DOMAIN ir.exprs = 1 .. n
  BY DEF IsIr
<1>2. PICK val : \A k \in 1 .. n : CValues(k) = val[k] /\ val[k] = CNode(ir.exprs[k], val)
  BY <1>1, CValuesUnfold
<1>3. PICK ref : \A k \in 0 .. n :
        /\ EvalExpr(ir, k, members) = ref[k] /\ ref[k] \in Value
        /\ ref[k] = IF k = 0 THEN Unresolved ELSE EvalNode(ir.exprs[k], members, ref)
  BY EvalExprUnfolds
<1>4. ASSUME NEW k \in 1 .. n
      PROVE  /\ ir.exprs[k].op \in BinOps \cup {"const", "field"}
             /\ ir.exprs[k].op \in BinOps =>
                  ir.exprs[k].l \in 1 .. k - 1 /\ ir.exprs[k].r \in 1 .. k - 1
  <2>1. Complete(ir, k)
    BY <1>1 DEF Generates
  <2>2. ir.exprs[k] \in Expr
    BY ExprFacts
  <2>3. ir.exprs[k].op \in BinOps => ir.exprs[k].l \in 0 .. k - 1 /\ ir.exprs[k].r \in 0 .. k - 1
    BY ExprFacts
  <2> QED BY <2>1, <2>2, <2>3 DEF Complete, Expr
<1> DEFINE U == {m \in Nat : m \in 1 .. n /\ ref[m] # Unresolved => val[m] = {ref[m]}}
<1>5. ASSUME NEW m \in Nat, \A j \in 0 .. m - 1 : j \in U
      PROVE  m \in U
  <2> SUFFICES ASSUME m \in 1 .. n, ref[m] # Unresolved
               PROVE  val[m] = {ref[m]}
    OBVIOUS
  <2> DEFINE x == ir.exprs[m]
  <2>1. val[m] = CNode(x, val) /\ ref[m] = EvalNode(x, members, ref)
    <3>1. m \in 0 .. n /\ m # 0
      BY <1>1
    <3> QED BY <1>2, <1>3, <3>1
  <2>2. x.op \in BinOps \/ x.op = "const" \/ x.op = "field"
    BY <1>4
  <2>3. x.op \in BinOps => x.op # "const" /\ x.op # "field"
    BY DEF BinOps
  <2>4. x.op \in BinOps => x.l \in 1 .. m - 1 /\ x.r \in 1 .. m - 1
    BY <1>4
  <2>5. x.op \in {"shl", "shr"} => EvalExpr(ir, x.r, members) < WordBits
    BY <1>1 DEF ShiftsBelowWord
  <2> HIDE DEF x
  <2>6. CASE x.op = "const"
    BY <2>1, <2>3, <2>6 DEF CNode, EvalNode
  <2>7. CASE x.op = "field"
    <3>1. <<x.h, x.f>> \in DOMAIN members
      BY <2>1, <2>3, <2>7 DEF EvalNode
    <3>2. ref[m] = Uint(members[<<x.h, x.f>>])
      BY <2>1, <2>3, <2>7, <3>1 DEF EvalNode
    <3>3. val[m] = {Member(<<x.h, x.f>>)}
      BY <2>1, <2>7 DEF CNode
    <3> QED BY <3>1, <3>2, <3>3 DEF Member
  <2>8. CASE x.op \in BinOps
    <3> DEFINE a == ref[x.l]
               b == ref[x.r]
    <3>1. a # Unresolved /\ b # Unresolved /\ ref[m] = Arith(x.op, a, b)
      BY <2>1, <2>3, <2>8 DEF EvalNode
    <3>2. val[x.l] = {a} /\ val[x.r] = {b}
      <4>1. x.l \in 0 .. m - 1 /\ x.r \in 0 .. m - 1 /\ x.l \in 1 .. n /\ x.r \in 1 .. n
        BY <1>1, <2>4, <2>8
      <4> QED BY <1>5, <3>1, <4>1
    <3>3. val[m] = UNION {COp(x.op, p[1], p[2]) : p \in {a} \X {b}}
      BY <2>1, <2>3, <2>8, <3>2 DEF CNode
    <3>4. ~ (x.op \in {"shl", "shr"} /\ b >= WordBits)
      <4>1. x.r \in 0 .. n
        BY <1>1, <2>4, <2>8
      <4>2. EvalExpr(ir, x.r, members) = b /\ b \in Value
        BY <1>3, <4>1
      <4>3. b \in Int
        BY <4>2, WordSize DEF Value, Word, Unresolved
      <4> HIDE DEF b
      <4> QED BY <2>5, <4>2, <4>3, WordBitsAssumption
    <3> HIDE DEF a, b
    <3>5. val[m] = COp(x.op, a, b)
      <4>1. {a} \X {b} = {<<a, b>>}
        OBVIOUS
      <4> DEFINE part(p) == COp(x.op, p[1], p[2])
      <4>2. part(<<a, b>>) = COp(x.op, a, b)
        OBVIOUS
      <4>3. val[m] = UNION {part(p) : p \in {<<a, b>>}}
        BY <3>3, <4>1
      <4> HIDE DEF part
      <4>4. UNION {part(p) : p \in {<<a, b>>}} = part(<<a, b>>)
        OBVIOUS
      <4> QED BY <4>2, <4>3, <4>4
    <3>6. COp(x.op, a, b) = {Arith(x.op, a, b)}
      BY <3>4 DEF COp
    <3> QED BY <3>1, <3>5, <3>6
  <2> QED BY <2>2, <2>6, <2>7, <2>8
<1>6. \A m \in Nat : m \in U
  <2> HIDE DEF U
  <2> QED BY <1>5, StrongSetInduction
<1>7. e \in 1 .. n /\ e \in 0 .. n /\ e \in Nat
  BY <1>1
<1> QED BY <1>2, <1>3, <1>6, <1>7

\* Every reason of the description has a code that stands for it.
LEMMA CodeFacts ==
  ASSUME IsIr(ir)
  PROVE  /\ \A r \in ToSet(BuiltIn) \cup Authored(ir) : Code(r) \in Codes(ir)
         /\ Code("out of bounds") = 1
         /\ \A b \in {"out of bounds", "max depth exceeded", "no matching select arm"} :
              b \in ToSet(BuiltIn)
<1>1. \A r \in ToSet(BuiltIn) \cup Authored(ir) : Code(r) \in Codes(ir) /\ ReasonTable(ir)[Code(r)] = r
  BY ReasonFacts DEF Code
<1>2. 1 \in DOMAIN BuiltIn /\ 2 \in DOMAIN BuiltIn /\ 3 \in DOMAIN BuiltIn
  BY DEF BuiltIn
<1>3. BuiltIn[1] = "out of bounds" /\ BuiltIn[2] = "max depth exceeded" /\ BuiltIn[3] = "no matching select arm"
  BY DEF BuiltIn
<1>4. \A b \in {"out of bounds", "max depth exceeded", "no matching select arm"} : b \in ToSet(BuiltIn)
  BY <1>2, <1>3 DEF ToSet
<1>5. Code("out of bounds") = 1
  <2>1. BuiltIn[1] \in ToSet(BuiltIn)
    BY <1>3, <1>4
  <2>2. Code(BuiltIn[1]) \in Codes(ir) /\ ReasonTable(ir)[Code(BuiltIn[1])] = BuiltIn[1]
    BY <1>1, <2>1
  <2>3. Code(BuiltIn[1]) = 1
    BY <2>2, ReasonFacts
  <2> QED BY <1>3, <2>3
<1> QED BY <1>1, <1>4, <1>5

\* A step that returns leaves everything else as it is.
LEMMA ReturnTyped ==
  ASSUME CTypeOK, NEW outcome \in {"accept", "reject"}, NEW reason \in {0} \cup Codes(ir),
         Return(outcome, reason), UNCHANGED present
  PROVE  CTypeOK'
<1>1. /\ pc' = "returned" /\ ret' = [outcome |-> outcome, reason |-> reason, consumed |-> off]
      /\ UNCHANGED <<ir, packet, state, depth, ex, fld, off, members, spans, present>>
  BY DEF Return
<1>2. ret' \in RetType'
  BY <1>1, StateShape DEF RetType, Codes, Own
<1>3. AtPlace'
  BY <1>1 DEF AtPlace
<1>4. BitLen' = BitLen
  BY <1>1 DEF BitLen
<1> QED BY <1>1, <1>2, <1>3, <1>4 DEF CTypeOK

LEMMA RejectTyped ==
  ASSUME CTypeOK, NEW r \in ToSet(BuiltIn) \cup Authored(ir), Reject(r), UNCHANGED present
  PROVE  CTypeOK'
<1>1. Code(r) \in Codes(ir)
  BY CodeFacts, StateShape
<1> QED BY <1>1, ReturnTyped DEF Reject

\* Going on within the case.
LEMMA AdvanceTyped ==
  ASSUME CTypeOK, pc = "body", ex <= Len(Extracts), Advance, UNCHANGED <<ir, pc, state>>
  PROVE  AtPlace'
<1>1. Extracts' = Extracts
  BY DEF Extracts
<1>2. ex \in 1 .. Len(Extracts) /\ Len(Extracts) \in Nat /\ fld \in 0 .. Len(Fields) /\ Len(Fields) \in Nat
  BY ExtractShape, StateShape
<1>3. CASE fld < Len(Fields)
  <2>1. ex' = ex /\ fld' = fld + 1
    BY <1>3 DEF Advance
  <2>2. Fields' = Fields
    BY <1>1, <2>1 DEF Fields, X
  <2> QED BY <1>1, <1>2, <1>3, <2>1, <2>2 DEF AtPlace
<1>4. CASE ~ fld < Len(Fields)
  <2>1. ex' = ex + 1 /\ fld' = 0
    BY <1>4 DEF Advance
  <2>2. ex' <= Len(Extracts) => Len(Fields') \in Nat
    <3> SUFFICES ASSUME ex' <= Len(Extracts)
                 PROVE  Len(Fields') \in Nat
      OBVIOUS
    <3>1. Extracts[ex + 1] \in ToSet(Extracts)
      BY <1>2, <2>1, StateShape DEF ToSet
    <3>2. Extracts[ex + 1].type \in DOMAIN ir.types
      BY <3>1 DEF CTypeOK, Generates, Extracts
    <3>3. Fields' = ir.types[Extracts[ex + 1].type]
      BY <1>1, <2>1 DEF Fields, X
    <3> QED BY <3>2, <3>3, StateShape
  <2> QED BY <1>1, <1>2, <2>1, <2>2 DEF AtPlace
<1> QED BY <1>3, <1>4

LEMMA CTypeInit == Init => CTypeOK
<1> SUFFICES ASSUME Init
             PROVE  CTypeOK
  OBVIOUS
<1>1. ir \in Irs /\ Generates(ir) /\ packet \in Packets
  BY DEF Init
<1>2. state \in DOMAIN ir.states
  BY <1>1, AcceptedAssumption DEF Init, Resolves
<1>3. off \in 0 .. BitLen
  BY <1>1, BuffersAssumption DEF Init, BitLen
<1>4. members \in [DOMAIN members -> Seq(Bit)]
  BY DEF Init
<1>5. ret \in RetType /\ ret.outcome = "pending"
  BY DEF Init, NotReturned, RetType
<1>6. AtPlace
  BY DEF Init, AtPlace
<1> QED BY <1>1, <1>2, <1>3, <1>4, <1>5, <1>6 DEF Init, CTypeOK

LEMMA EnterTyped == CTypeOK /\ EnterCase => CTypeOK'
<1> SUFFICES ASSUME CTypeOK, EnterCase
             PROVE  CTypeOK'
  OBVIOUS
<1>1. /\ pc = "head" /\ pc' = "body" /\ ex' = 1 /\ fld' = 0
      /\ UNCHANGED <<ir, packet, state, depth, off, present, members, spans, ret>>
  BY DEF EnterCase
<1>2. Extracts' = Extracts /\ BitLen' = BitLen /\ Len(Extracts) \in Nat
  BY <1>1, StateShape DEF Extracts, BitLen
<1>3. 1 <= Len(Extracts) => Len(Fields') \in Nat
  <2> SUFFICES ASSUME 1 <= Len(Extracts)
               PROVE  Len(Fields') \in Nat
    OBVIOUS
  <2>1. Extracts[1] \in ToSet(Extracts)
    BY StateShape DEF ToSet
  <2>2. Extracts[1].type \in DOMAIN ir.types
    BY <2>1 DEF CTypeOK, Generates, Extracts
  <2>3. Fields' = ir.types[Extracts[1].type]
    BY <1>1, <1>2 DEF Fields, X
  <2> QED BY <2>2, <2>3, StateShape
<1>4. AtPlace'
  BY <1>1, <1>2, <1>3 DEF AtPlace
<1>5. RetType' = RetType
  BY <1>1 DEF RetType, Codes, Own
<1> QED BY <1>1, <1>2, <1>4, <1>5 DEF CTypeOK

LEMMA LoopEndsTyped == CTypeOK /\ LoopEnds => CTypeOK'
BY RejectTyped, CodeFacts, StateShape DEF LoopEnds

LEMMA PresentTyped == CTypeOK /\ SetPresent => CTypeOK'
<1> SUFFICES ASSUME CTypeOK, SetPresent
             PROVE  CTypeOK'
  OBVIOUS
<1>1. /\ pc = "body" /\ ex <= Len(Extracts) /\ Advance
      /\ present' = present \cup {Instance(X)}
      /\ UNCHANGED <<ir, packet, pc, state, depth, off, members, spans, ret>>
  BY DEF SetPresent, AtFlag
<1>2. AtPlace'
  BY <1>1, AdvanceTyped
<1>3. present' \subseteq STRING
  BY <1>1, ExtractShape DEF CTypeOK
<1>4. RetType' = RetType /\ BitLen' = BitLen
  BY <1>1 DEF RetType, BitLen, Codes, Own
<1> QED BY <1>1, <1>2, <1>3, <1>4 DEF CTypeOK

LEMMA ReadBitsTyped ==
  ASSUME CTypeOK, ReadBits
  PROVE  /\ CTypeOK'
         /\ spans' = spans
         /\ off \in Nat /\ off' \in Nat /\ off <= off'
<1>1. AtField /\ Fld.width = "bits" /\ UNCHANGED present
  BY DEF ReadBits
<1>2. pc = "body" /\ ex <= Len(Extracts) /\ Fld.n \in 1 .. WordBits
  BY <1>1, FieldShape DEF AtField
<1>3. BitLen \in Nat /\ off \in Nat /\ off <= BitLen /\ BitLen + WordBits < 2^WordBits
  BY StateShape
<1>4. UInt64(off + Fld.n) = off + Fld.n
  <2> DEFINE n == Fld.n
  <2>1. n \in 1 .. WordBits
    BY <1>2
  <2> HIDE DEF n
  <2>2. off + n \in Nat /\ off + n < 2^WordBits
    BY <1>3, <2>1, WordSize, WordBitsAssumption
  <2>3. UInt64(off + n) = off + n
    BY <2>2, NoWrap
  <2> QED BY <2>3 DEF n
<1>5. CASE UInt64(off + Fld.n) > BitLen
  <2>1. Reject("out of bounds")
    BY <1>5 DEF ReadBits
  <2>2. CTypeOK'
    BY <1>1, <2>1, RejectTyped, CodeFacts, StateShape
  <2>3. UNCHANGED <<off, spans>>
    BY <2>1 DEF Reject, Return
  <2> QED BY <1>3, <2>2, <2>3
<1>6. CASE ~ UInt64(off + Fld.n) > BitLen
  <2>1. /\ members' = Assign(members, Key, SubSeq(packet, off + 1, off + Fld.n))
        /\ off' = off + Fld.n /\ Advance
        /\ UNCHANGED <<ir, packet, pc, state, depth, present, spans, ret>>
    BY <1>1, <1>4, <1>6 DEF ReadBits
  <2>2. off' \in Nat /\ off' <= BitLen /\ off <= off'
    BY <1>2, <1>3, <1>4, <1>6, <2>1
  <2>3. AtPlace'
    BY <1>2, <2>1, AdvanceTyped
  <2>4. members' \in [DOMAIN members' -> Seq(Bit)]
    <3> DEFINE bits == SubSeq(packet, off + 1, off + Fld.n)
    <3>1. bits \in Seq(Bit)
      <4>1. off + Fld.n \in Nat /\ off <= off + Fld.n /\ off + Fld.n <= Len(packet)
        BY <1>2, <1>3, <2>1, <2>2 DEF BitLen
      <4> DEFINE to == off + Fld.n
      <4> HIDE DEF to
      <4>2. SubSeq(packet, off + 1, to) \in Seq(Bit)
        BY <1>3, <4>1, StateShape, PartOfBits DEF to
      <4> QED BY <4>2 DEF to
    <3> HIDE DEF bits
    <3>2. members' = Assign(members, Key, bits)
      BY <2>1 DEF bits
    <3>3. members \in [DOMAIN members -> Seq(Bit)]
      BY DEF CTypeOK
    <3> QED BY <3>1, <3>2, <3>3 DEF Assign
  <2>5. RetType' = RetType /\ BitLen' = BitLen
    BY <2>1 DEF RetType, BitLen, Codes, Own
  <2>6. pc # "returned"
    BY <1>2
  <2>7. CTypeOK'
    BY <1>3, <2>1, <2>2, <2>3, <2>4, <2>5, <2>6 DEF CTypeOK
  <2> QED BY <1>3, <2>1, <2>2, <2>7
<1> QED BY <1>5, <1>6

\* A body that fits ends within the buffer: nothing wraps.
LEMMA FitsWithin ==
  ASSUME CTypeOK, NEW vlen \in Word, Fits(vlen)
  PROVE  /\ vlen * ByteBits \in Nat
         /\ off + vlen * ByteBits <= BitLen
         /\ UInt64(vlen * ByteBits) = vlen * ByteBits
         /\ UInt64(off + vlen * ByteBits) = off + vlen * ByteBits
<1>1. BitLen \in Nat /\ off \in Nat /\ off <= BitLen /\ BitLen < 2^WordBits
  BY StateShape, WordSize, WordBitsAssumption
<1>2. UInt64(BitLen - off) = BitLen - off
  BY <1>1, WordSize, NoWrap
<1>3. vlen \in Nat
  BY DEF Word
<1>4. vlen <= (BitLen - off) \div ByteBits
  BY <1>2 DEF Fits
<1> DEFINE rest == BitLen - off
           q == rest \div ByteBits
<1>5. rest \in Nat /\ q \in Nat /\ q * ByteBits <= rest
  BY <1>1, ByteBitsAssumption
<1> DEFINE v == vlen * ByteBits
           p == q * ByteBits
<1>6. v \in Nat /\ v <= p /\ p <= rest
  BY <1>3, <1>4, <1>5, ByteBitsAssumption
<1>7. p \in Nat
  BY <1>5, ByteBitsAssumption
<1> HIDE DEF v, p
<1>10. off + v <= BitLen
  BY <1>1, <1>6, <1>7
<1>8. off + v \in Nat /\ off + v < 2^WordBits /\ v < 2^WordBits
  BY <1>1, <1>6, <1>10, WordSize
<1>9. UInt64(v) = v /\ UInt64(off + v) = off + v
  BY <1>6, <1>8, NoWrap
<1> QED BY <1>6, <1>10, <1>9 DEF v

LEMMA ReadBytesTyped ==
  ASSUME CTypeOK, SpansConsumed, ReadBytes
  PROVE  CTypeOK' /\ SpansConsumed'
<1>1. AtField /\ Fld.width = "bytes" /\ UNCHANGED present
  BY DEF ReadBytes
<1>2. pc = "body" /\ ex <= Len(Extracts) /\ Fld.n \in DOMAIN ir.exprs
  BY <1>1, FieldShape DEF AtField
<1>3. CValues(Fld.n) \subseteq Word
  BY <1>2, StateShape, CValuesAreWords DEF CTypeOK
<1>4. PICK vlen \in CValues(Fld.n) :
        IF ~ Fits(vlen) THEN Reject("out of bounds")
        ELSE /\ spans' = Assign(spans, Key, [off |-> off, len |-> UInt64(vlen * ByteBits)])
             /\ off' = UInt64(off + vlen * ByteBits)
             /\ Advance
             /\ UNCHANGED <<ir, packet, pc, state, depth, members, ret>>
  BY DEF ReadBytes
<1>5. CASE ~ Fits(vlen)
  <2>1. Reject("out of bounds")
    BY <1>4, <1>5
  <2>2. CTypeOK'
    BY <1>1, <2>1, RejectTyped, CodeFacts, StateShape
  <2>3. UNCHANGED <<off, spans>>
    BY <2>1 DEF Reject, Return
  <2> QED BY <2>2, <2>3 DEF SpansConsumed
<1>6. CASE Fits(vlen)
  <2> DEFINE v == vlen * ByteBits
  <2>1. v \in Nat /\ off + v <= BitLen /\ UInt64(v) = v /\ UInt64(off + v) = off + v
    BY <1>3, <1>6, FitsWithin
  <2>2. /\ spans' = Assign(spans, Key, [off |-> off, len |-> v])
        /\ off' = off + v /\ Advance
        /\ UNCHANGED <<ir, packet, pc, state, depth, present, members, ret>>
    BY <1>1, <1>4, <1>6, <2>1
  <2> HIDE DEF v
  <2>3. off \in Nat /\ off' \in Nat /\ off' <= BitLen /\ off <= off'
    BY <2>1, <2>2, StateShape
  <2>4. AtPlace'
    BY <1>2, <2>2, AdvanceTyped
  <2>5. RetType' = RetType /\ BitLen' = BitLen
    BY <2>2 DEF RetType, BitLen, Codes, Own
  <2>6. pc # "returned"
    BY <1>2
  <2>7. CTypeOK'
    BY <2>2, <2>3, <2>4, <2>5, <2>6, StateShape DEF CTypeOK
  <2>8. ASSUME NEW k \in DOMAIN spans'
        PROVE  /\ spans'[k].off \in Nat /\ spans'[k].len \in Nat
               /\ spans'[k].off + spans'[k].len <= off'
    <3>1. CASE k = Key
      <4>1. spans'[k] = [off |-> off, len |-> v]
        BY <2>2, <3>1 DEF Assign
      <4> QED BY <2>1, <2>2, <2>3, <4>1
    <3>2. CASE k # Key
      <4>1. k \in DOMAIN spans /\ spans'[k] = spans[k]
        BY <2>2, <2>8, <3>2 DEF Assign
      <4> QED BY <2>3, <4>1 DEF SpansConsumed
    <3> QED BY <3>1, <3>2
  <2> QED BY <2>7, <2>8 DEF SpansConsumed
<1> QED BY <1>5, <1>6

\* The target the if-else chain picks is one of the transition's.
LEMMA ChosenIsTarget ==
  ASSUME CTypeOK, Trans.kind = "select", NEW ks
  PROVE  Chosen(ks) \in Targets(Trans)
<1> DEFINE hits == MatchingArms(Trans, ks)
<1>1. Trans.arms \in Seq(Arm)
  BY StateShape DEF Transition
<1>2. hits \subseteq DOMAIN Trans.arms /\ hits \subseteq Nat
  BY <1>1 DEF MatchingArms
<1>3. hits # {} => Min(hits) \in hits
  <2> HIDE DEF hits
  <2> SUFFICES ASSUME hits # {}
               PROVE  Min(hits) \in hits
    OBVIOUS
  <2>1. \E x \in hits : \A y \in hits : x <= y
    BY <1>2, LeastNatural
  <2> QED BY <2>1 DEF Min
<1>4. CASE hits = {}
  BY <1>4 DEF Chosen, Targets
<1>5. CASE hits # {}
  BY <1>2, <1>3, <1>5 DEF Chosen, Targets
<1> QED BY <1>4, <1>5

\* A target whose state is unknown, or whose reason has no code, is not named.
LEMMA TargetShape ==
  ASSUME CTypeOK, NEW t \in Targets(Trans)
  PROVE  /\ t.kind = "state" => t.to \in DOMAIN ir.states
         /\ t.kind = "reject" => t.to \in Authored(ir)
<1>1. state \in DOMAIN ir.states /\ Trans = ir.states[state].trans
  BY DEF CTypeOK, Trans
<1>2. t.kind = "state" => t.to \in Successors(Trans)
  BY DEF Successors
<1>3. t.kind = "reject" => t.to \in Authored(ir)
  BY <1>1 DEF Authored
<1> QED BY <1>1, <1>2, <1>3, StateShape DEF Resolves

\* What a transition does to the state it was reached in.
LEMMA GotoShape ==
  ASSUME CTypeOK, pc = "body", NEW t \in Targets(Trans), Goto(t), UNCHANGED present
  PROVE  \/ /\ t.to \in DOMAIN ir.states
            /\ state' = t.to /\ depth' = depth + 1 /\ pc' = "head"
            /\ UNCHANGED <<ir, packet, ex, fld, off, present, members, spans, ret>>
         \/ \E outcome \in {"accept", "reject"}, reason \in {0} \cup Codes(ir) :
              Return(outcome, reason)
<1>1. CASE t.kind = "state"
  BY <1>1, TargetShape DEF Goto
<1>2. CASE t.kind = "accept"
  <2>1. Return("accept", 0)
    BY <1>2 DEF Goto
  <2> QED BY <2>1
<1>3. CASE t.kind = "reject"
  <2>1. Return("reject", Code(t.to))
    BY <1>3 DEF Goto, Reject
  <2>2. Code(t.to) \in Codes(ir)
    BY <1>3, TargetShape, CodeFacts, StateShape
  <2> QED BY <2>1, <2>2
<1>4. CASE t.kind \notin {"state", "accept", "reject"}
  <2>1. Return("reject", Code("no matching select arm"))
    BY <1>4 DEF Goto, Reject
  <2>2. Code("no matching select arm") \in Codes(ir)
    BY CodeFacts, StateShape
  <2> QED BY <2>1, <2>2
<1> QED BY <1>1, <1>2, <1>3, <1>4

LEMMA TransitionShape ==
  ASSUME CTypeOK, TakeTransition
  PROVE  /\ pc = "body" /\ ex > Len(Extracts)
         /\ UNCHANGED present
         /\ \E t \in Targets(Trans) : Goto(t)
<1>1. pc = "body" /\ ex > Len(Extracts) /\ UNCHANGED present
  BY DEF TakeTransition, AtTransition
<1>2. CASE Trans.kind = "direct"
  <2>1. Goto(Trans.default)
    BY <1>2 DEF TakeTransition
  <2>2. Trans.default \in Targets(Trans)
    BY <1>2 DEF Targets
  <2> QED BY <1>1, <2>1, <2>2
<1>3. CASE Trans.kind # "direct"
  <2>1. Trans.kind = "select"
    BY <1>3, StateShape DEF Transition
  <2>2. PICK ks \in KeyVectors : Goto(Chosen(ks))
    BY <1>3 DEF TakeTransition
  <2>3. Chosen(ks) \in Targets(Trans)
    BY <2>1, ChosenIsTarget
  <2> QED BY <1>1, <2>2, <2>3
<1> QED BY <1>2, <1>3

LEMMA TransitionTyped ==
  ASSUME CTypeOK, TakeTransition
  PROVE  CTypeOK' /\ UNCHANGED <<off, spans>>
<1>1. pc = "body" /\ UNCHANGED present
  BY TransitionShape
<1>2. PICK t \in Targets(Trans) : Goto(t)
  BY TransitionShape
<1>3. \/ /\ t.to \in DOMAIN ir.states
         /\ state' = t.to /\ depth' = depth + 1 /\ pc' = "head"
         /\ UNCHANGED <<ir, packet, ex, fld, off, present, members, spans, ret>>
      \/ \E outcome \in {"accept", "reject"}, reason \in {0} \cup Codes(ir) :
           Return(outcome, reason)
  BY <1>1, <1>2, GotoShape
<1>4. CASE /\ t.to \in DOMAIN ir.states
           /\ state' = t.to /\ depth' = depth + 1 /\ pc' = "head"
           /\ UNCHANGED <<ir, packet, ex, fld, off, present, members, spans, ret>>
  <2>1. BitLen' = BitLen /\ RetType' = RetType
    BY <1>4 DEF BitLen, RetType, Codes, Own
  <2>2. AtPlace'
    BY <1>4 DEF AtPlace
  <2> QED BY <1>1, <1>4, <2>1, <2>2 DEF CTypeOK
<1>5. CASE \E outcome \in {"accept", "reject"}, reason \in {0} \cup Codes(ir) :
             Return(outcome, reason)
  <2>1. PICK outcome \in {"accept", "reject"}, reason \in {0} \cup Codes(ir) :
          Return(outcome, reason)
    BY <1>5
  <2>2. UNCHANGED <<off, spans>>
    BY <2>1 DEF Return
  <2> QED BY <1>1, <2>1, <2>2, ReturnTyped
<1> QED BY <1>3, <1>4, <1>5

LEMMA CTypeStutter == CTypeOK /\ SpansConsumed /\ UNCHANGED vars => CTypeOK' /\ SpansConsumed'
<1> SUFFICES ASSUME CTypeOK, SpansConsumed, UNCHANGED vars
             PROVE  CTypeOK' /\ SpansConsumed'
  OBVIOUS
<1>1. UNCHANGED <<ir, packet, pc, state, depth, ex, fld, off, present, members, spans, ret>>
  BY DEF vars
<1>2. AtPlace' /\ BitLen' = BitLen /\ RetType' = RetType
  <2>1. Extracts' = Extracts /\ Fields' = Fields
    BY <1>1 DEF Extracts, Fields, X
  <2> QED BY <1>1, <2>1 DEF CTypeOK, AtPlace, BitLen, RetType, Codes, Own
<1> QED BY <1>1, <1>2 DEF CTypeOK, SpansConsumed

LEMMA CTypeNext == CTypeOK /\ SpansConsumed /\ [Next]_vars => CTypeOK' /\ SpansConsumed'
<1> SUFFICES ASSUME CTypeOK, SpansConsumed, [Next]_vars
             PROVE  CTypeOK' /\ SpansConsumed'
  OBVIOUS
<1>1. CASE EnterCase
  <2>1. UNCHANGED <<off, spans>>
    BY <1>1 DEF EnterCase
  <2> QED BY <1>1, <2>1, EnterTyped DEF SpansConsumed
<1>2. CASE LoopEnds
  <2>1. UNCHANGED <<off, spans>>
    BY <1>2 DEF LoopEnds, Reject, Return
  <2> QED BY <1>2, <2>1, LoopEndsTyped DEF SpansConsumed
<1>3. CASE SetPresent
  <2>1. UNCHANGED <<off, spans>>
    BY <1>3 DEF SetPresent
  <2> QED BY <1>3, <2>1, PresentTyped DEF SpansConsumed
<1>4. CASE ReadBits
  <2>1. CTypeOK' /\ spans' = spans /\ off \in Nat /\ off' \in Nat /\ off <= off'
    BY <1>4, ReadBitsTyped
  <2> QED BY <2>1 DEF SpansConsumed
<1>5. CASE ReadBytes
  BY <1>5, ReadBytesTyped
<1>6. CASE TakeTransition
  <2>1. CTypeOK' /\ UNCHANGED <<off, spans>>
    BY <1>6, TransitionTyped
  <2> QED BY <2>1 DEF SpansConsumed
<1>7. CASE UNCHANGED vars
  BY <1>7, CTypeStutter
<1> QED BY <1>1, <1>2, <1>3, <1>4, <1>5, <1>6, <1>7 DEF Next, Step, Returned

LEMMA CTypeInvariant == Spec => [](CTypeOK /\ SpansConsumed)
<1>1. Init => CTypeOK /\ SpansConsumed
  BY CTypeInit DEF Init, SpansConsumed
<1>2. (CTypeOK /\ SpansConsumed) /\ [Next]_vars => (CTypeOK /\ SpansConsumed)'
  BY CTypeNext
<1> QED BY <1>1, <1>2, PTL DEF Spec

\* The emitted parser's state is of its types in every run.
THEOREM CParseTyped == Spec => []CTypeOK
BY CTypeInvariant, PTL

\* The offset never passes the end of the buffer, so that the unsigned
\* bit_len - off of the length test never wraps, and every body handed to the
\* caller lies within what was consumed: for every buffer that leaves room for
\* one field below 2^64 bits, whatever lengths the packet asks for.
THEOREM OffsetsSafe == Spec => []OffsetsWithinBuffer
<1>1. CTypeOK /\ SpansConsumed => OffsetsWithinBuffer
  BY StateShape DEF OffsetsWithinBuffer, SpansConsumed
<1> QED BY <1>1, CTypeInvariant, PTL

(***************************************************************************)
(* Arithmetic.                                                             *)
(***************************************************************************)

\* Lengths and keys are asked for when the fields they are made of have been
\* read.  (The struct's zeroes stand for the others, where the reference has
\* no value.)
ExprsResolve ==
  /\ AtField /\ Fld.width = "bytes" => EvalExpr(ir, Fld.n, members) # Unresolved
  /\ AtTransition => \A k \in DOMAIN Trans.keys :
       EvalExpr(ir, Trans.keys[k], members) # Unresolved

\* "u64 wrapping arithmetic matches reference semantics natively"
\* (codegen/c.rs:8) but for two things: a shift by the word size or more, and
\* a field that is used before it is read.  Without them every length and key
\* has one value, the reference's, however the operators are nested.
THEOREM NativeUpToShifts == Spec /\ []ShiftsBelowWord /\ []ExprsResolve => []NativeArithmetic
<1>1. CTypeOK /\ ShiftsBelowWord /\ ExprsResolve => NativeArithmetic
  <2> SUFFICES ASSUME CTypeOK, ShiftsBelowWord, ExprsResolve
               PROVE  NativeArithmetic
    OBVIOUS
  <2>1. ASSUME NEW e \in DOMAIN ir.exprs, EvalExpr(ir, e, members) # Unresolved
        PROVE  CValues(e) = {EvalExpr(ir, e, members)}
    BY <2>1, StateShape, CValuesEval DEF CTypeOK
  <2>2. ASSUME AtField, Fld.width = "bytes"
        PROVE  CValues(Fld.n) = {EvalExpr(ir, Fld.n, members)}
    BY <2>1, <2>2, FieldShape DEF ExprsResolve
  <2>3. ASSUME AtTransition, NEW k \in DOMAIN Trans.keys
        PROVE  CValues(Trans.keys[k]) = {EvalExpr(ir, Trans.keys[k], members)}
    <3>1. Trans.keys[k] \in DOMAIN ir.exprs
      BY StateShape DEF IsIr, Trans, CTypeOK
    <3> QED BY <2>1, <2>3, <3>1 DEF ExprsResolve
  <2> QED BY <2>2, <2>3 DEF NativeArithmetic
<1> QED BY <1>1, CTypeInvariant, PTL

(***************************************************************************)
(* Presence.                                                               *)
(***************************************************************************)

\* Every instance is extracted as one header type: its struct has the members
\* of one type, and the code that fills it from another does not compile.
OneType(i) ==
  \A s, t \in DOMAIN i.states :
    \A x \in ToSet(i.states[s].extracts) : \A y \in ToSet(i.states[t].extracts) :
      Instance(x) = Instance(y) => x.type = y.type

Written == DOMAIN members \cup DOMAIN spans

\* Field k of extract x is about to be written.
ToWrite(x, k) == AtField /\ Instance(x) = Instance(X) /\ k >= fld

\* All fields of the present instances are written but those that the code
\* is just getting to.
WrittenSoFar ==
  \A s \in DOMAIN ir.states : \A x \in ToSet(ir.states[s].extracts) :
    Instance(x) \in present =>
      \A k \in DOMAIN ir.types[x.type] :
        ToWrite(x, k) \/ <<Instance(x), ir.types[x.type][k].name>> \in Written

WrittenInv == (pc = "returned" /\ ret.reason = 1) \/ WrittenSoFar

\* Between fields nothing is left to write, and a step that only goes
\* elsewhere leaves it so.
LEMMA WrittenKept ==
  ASSUME CTypeOK, WrittenInv, pc # "returned", ~ AtField,
         UNCHANGED <<ir, present, members, spans>>
  PROVE  WrittenInv'
<1>1. WrittenSoFar
  BY DEF WrittenInv
<1>2. WrittenSoFar'
  BY <1>1 DEF WrittenSoFar, ToWrite, Written
<1> QED BY <1>2 DEF WrittenInv

LEMMA WrittenFlag ==
  ASSUME CTypeOK, OneType(ir), WrittenInv, SetPresent
  PROVE  WrittenInv'
<1>1. /\ pc = "body" /\ ex <= Len(Extracts) /\ fld = 0
      /\ present' = present \cup {Instance(X)} /\ Advance
      /\ UNCHANGED <<ir, packet, pc, state, members, spans>>
  BY DEF SetPresent, AtFlag
<1>2. ~ AtField /\ WrittenSoFar
  BY <1>1 DEF AtField, WrittenInv
<1>3. /\ X \in ToSet(Extracts) /\ Fields = ir.types[X.type]
      /\ Len(Fields) \in Nat /\ DOMAIN Fields = 1 .. Len(Fields)
  BY <1>1, ExtractShape
<1>4. Extracts' = Extracts /\ Written' = Written
  BY <1>1 DEF Extracts, Written
<1>5. SUFFICES ASSUME NEW s \in DOMAIN ir.states, NEW x \in ToSet(ir.states[s].extracts),
                      Instance(x) \in present', NEW k \in DOMAIN ir.types[x.type]
               PROVE  ToWrite(x, k)' \/ <<Instance(x), ir.types[x.type][k].name>> \in Written
  BY <1>1, <1>4 DEF WrittenInv, WrittenSoFar
<1>6. CASE Instance(x) = Instance(X)
  <2>1. x.type = X.type
    BY <1>3, <1>6 DEF OneType, CTypeOK, Extracts
  <2>2. k \in 1 .. Len(Fields)
    BY <1>3, <2>1
  <2>3. ex' = ex /\ fld' = 1
    BY <1>1, <1>3, <2>2 DEF Advance
  <2>4. X' = X /\ Fields' = Fields
    BY <1>1, <1>4, <2>3 DEF X, Fields
  <2>5. AtField'
    BY <1>1, <1>3, <1>4, <2>2, <2>3, <2>4 DEF AtField
  <2>6. Instance(x)' = Instance(X)'
    BY <1>6, <2>4 DEF Instance
  <2>7. k >= fld'
    BY <1>3, <2>2, <2>3
  <2> QED BY <2>5, <2>6, <2>7 DEF ToWrite
<1>7. CASE Instance(x) # Instance(X)
  BY <1>1, <1>2, <1>5, <1>7 DEF WrittenSoFar, ToWrite
<1> QED BY <1>6, <1>7

\* A field written takes its place among the written ones.
LEMMA WrittenField ==
  ASSUME CTypeOK, OneType(ir), WrittenInv, AtField, Advance,
         UNCHANGED <<ir, pc, state, present>>, Written' = Written \cup {Key}
  PROVE  WrittenInv'
<1>1. pc = "body" /\ ex <= Len(Extracts) /\ fld \in 1 .. Len(Fields)
  BY DEF AtField
<1>2. /\ X \in ToSet(Extracts) /\ Fields = ir.types[X.type]
      /\ Len(Fields) \in Nat /\ DOMAIN Fields = 1 .. Len(Fields)
  BY <1>1, ExtractShape
<1>3. WrittenSoFar /\ Extracts' = Extracts
  BY <1>1 DEF WrittenInv, Extracts
<1>4. SUFFICES ASSUME NEW s \in DOMAIN ir.states, NEW x \in ToSet(ir.states[s].extracts),
                      Instance(x) \in present, NEW k \in DOMAIN ir.types[x.type],
                      <<Instance(x), ir.types[x.type][k].name>> \notin Written'
               PROVE  ToWrite(x, k)'
  BY DEF WrittenInv, WrittenSoFar
<1>5. Instance(x) = Instance(X) /\ k >= fld
  BY <1>3, <1>4 DEF WrittenSoFar, ToWrite
<1>6. x.type = X.type
  BY <1>2, <1>5 DEF OneType, CTypeOK, Extracts
<1>7. k \in 1 .. Len(Fields) /\ k # fld
  BY <1>2, <1>4, <1>5, <1>6 DEF Key, Fld
<1>8. fld < Len(Fields) /\ k >= fld + 1
  BY <1>1, <1>2, <1>5, <1>7
<1>9. ex' = ex /\ fld' = fld + 1
  BY <1>8 DEF Advance
<1>10. X' = X /\ Fields' = Fields
  BY <1>3, <1>9 DEF X, Fields
<1>11. AtField'
  BY <1>1, <1>2, <1>3, <1>8, <1>9, <1>10 DEF AtField
<1> QED BY <1>5, <1>8, <1>9, <1>10, <1>11 DEF ToWrite, Instance

LEMMA WrittenNext ==
  ASSUME CTypeOK, OneType(ir), WrittenInv, [Next]_vars
  PROVE  WrittenInv'
<1>1. CASE EnterCase
  BY <1>1, WrittenKept DEF EnterCase, AtField
<1>2. CASE LoopEnds
  BY <1>2, WrittenKept DEF LoopEnds, Reject, Return, AtField
<1>3. CASE SetPresent
  BY <1>3, WrittenFlag
<1>4. ASSUME pc = "body", Reject("out of bounds")
      PROVE  WrittenInv'
  <2>1. pc' = "returned" /\ ret'.reason = 1
    BY <1>4, CodeFacts, StateShape DEF Reject, Return
  <2> QED BY <2>1 DEF WrittenInv
<1>5. CASE ReadBits
  <2>1. AtField /\ pc = "body" /\ UNCHANGED present
    BY <1>5 DEF ReadBits, AtField
  <2>2. CASE UInt64(off + Fld.n) > BitLen
    BY <1>4, <1>5, <2>1, <2>2 DEF ReadBits
  <2>3. CASE ~ UInt64(off + Fld.n) > BitLen
    <3>1. /\ members' = Assign(members, Key, SubSeq(packet, off + 1, off + Fld.n))
          /\ Advance /\ UNCHANGED <<ir, pc, state, spans>>
      BY <1>5, <2>3 DEF ReadBits
    <3>2. Written' = Written \cup {Key}
      BY <3>1 DEF Written, Assign
    <3> QED BY <2>1, <3>1, <3>2, WrittenField
  <2> QED BY <2>2, <2>3
<1>6. CASE ReadBytes
  <2>1. AtField /\ pc = "body" /\ UNCHANGED present
    BY <1>6 DEF ReadBytes, AtField
  <2>2. PICK vlen \in CValues(Fld.n) :
          IF ~ Fits(vlen) THEN Reject("out of bounds")
          ELSE /\ spans' = Assign(spans, Key, [off |-> off, len |-> UInt64(vlen * ByteBits)])
               /\ off' = UInt64(off + vlen * ByteBits)
               /\ Advance
               /\ UNCHANGED <<ir, packet, pc, state, depth, members, ret>>
    BY <1>6 DEF ReadBytes
  <2>3. CASE ~ Fits(vlen)
    BY <1>4, <2>1, <2>2, <2>3
  <2>4. CASE Fits(vlen)
    <3>1. Written' = Written \cup {Key}
      BY <2>2, <2>4 DEF Written, Assign
    <3> QED BY <2>1, <2>2, <2>4, <3>1, WrittenField
  <2> QED BY <2>3, <2>4
<1>7. CASE TakeTransition
  <2>1. pc = "body" /\ ex > Len(Extracts) /\ UNCHANGED present
    BY <1>7, TransitionShape
  <2>2. PICK t \in Targets(Trans) : Goto(t)
    BY <1>7, TransitionShape
  <2>3. UNCHANGED <<ir, members, spans>>
    BY <2>1, <2>2, GotoShape DEF Return
  <2>4. ~ AtField
    BY <2>1, StateShape DEF AtField, CTypeOK, AtPlace
  <2> QED BY <2>1, <2>3, <2>4, WrittenKept
<1>8. CASE UNCHANGED vars
  <2>1. UNCHANGED <<ir, pc, state, ex, fld, present, members, spans, ret>>
    BY <1>8 DEF vars
  <2>2. UNCHANGED <<Extracts, X, Fields, Written>>
    BY <2>1 DEF Extracts, X, Fields, Written
  <2>3. AtField' = AtField
    BY <2>1, <2>2 DEF AtField
  <2>4. \A x, k : ToWrite(x, k)' = ToWrite(x, k)
    BY <2>1, <2>2, <2>3 DEF ToWrite, Instance
  <2>5. WrittenSoFar' = WrittenSoFar
    BY <2>1, <2>2, <2>4 DEF WrittenSoFar
  <2> QED BY <2>1, <2>5 DEF WrittenInv
<1> QED BY <1>1, <1>2, <1>3, <1>5, <1>6, <1>7, <1>8 DEF Next, Step, Returned

\* Unless the packet was too short, every member of every instance flagged
\* present was written: for every description that extracts each instance as
\* one header type, and every buffer.
THEOREM PresentMembersWritten ==
  ASSUME \A i \in Irs : OneType(i)
  PROVE  Spec => []PresentIsComplete
<1>1. Init => WrittenInv
  BY DEF Init, WrittenInv, WrittenSoFar
<1>2. CTypeOK /\ WrittenInv /\ [Next]_vars => WrittenInv'
  BY WrittenNext DEF CTypeOK
<1>3. CTypeOK /\ WrittenInv => PresentIsComplete
  <2> SUFFICES ASSUME CTypeOK, WrittenInv, ret.outcome # "pending", ret.reason # 1,
                      NEW s \in DOMAIN ir.states, NEW x \in ToSet(ir.states[s].extracts),
                      Instance(x) \in present, NEW f \in ToSet(ir.types[x.type])
               PROVE  <<Instance(x), f.name>> \in DOMAIN members \cup DOMAIN spans
    BY DEF PresentIsComplete
  <2>1. pc = "returned" /\ WrittenSoFar
    BY DEF CTypeOK, WrittenInv
  <2>2. ~ AtField
    BY <2>1 DEF AtField
  <2>3. PICK k \in DOMAIN ir.types[x.type] : f = ir.types[x.type][k]
    BY DEF ToSet
  <2> QED BY <2>1, <2>2, <2>3 DEF WrittenSoFar, ToWrite, Written
<1> QED BY <1>1, <1>2, <1>3, CTypeInvariant, PTL DEF Spec

(***************************************************************************)
(* The abstract parser. The mapping is that of CRefines: what is left to   *)
(* take off the packet is the rest of the header whose fields are being    *)
(* read, and the headers after it.                                         *)
(***************************************************************************)

\* An instance of a definition is the definition.
LEMMA SameEval == \A i, e, m : Promise!EvalExpr(i, e, m) = EvalExpr(i, e, m)
BY DEF Promise!EvalExpr, EvalExpr, Promise!EvalNode, EvalNode, Promise!Unresolved, Unresolved,
       Promise!BinOps, BinOps, Promise!Uint, Uint, Promise!Arith, Arith, Promise!BitwiseAnd, BitwiseAnd,
       Promise!BitwiseOr, BitwiseOr, Promise!Both, Both, Promise!Either, Either, Promise!BitOf, BitOf

LEMMA SameWireFields == \A i, xs : Promise!WireFields(i, xs) = WireFields(i, xs)
BY DEF Promise!WireFields, WireFields, Promise!TypeFields, TypeFields, Promise!Instance, Instance,
       Promise!FlattenSeq, FlattenSeq

LEMMA SameMatches == \A tr, keys : Promise!MatchingArms(tr, keys) = MatchingArms(tr, keys)
BY DEF Promise!MatchingArms, MatchingArms, Promise!ArmMatches, ArmMatches, Promise!EvalEntry, EvalEntry,
       Promise!BitwiseAnd, BitwiseAnd, Promise!Both, Both, Promise!BitOf, BitOf, Promise!Uint, Uint

LEMMA SameKeys ==
  /\ \A i, tr, e : Promise!Keys(i, tr, e) = Keys(i, tr, e)
  /\ \A i, tr, e : Promise!KeysResolve(i, tr, e) <=> KeysResolve(i, tr, e)
<1>1. \A i, tr, e : Promise!Keys(i, tr, e) = Keys(i, tr, e)
  BY SameEval DEF Promise!Keys, Keys
<1>2. \A i, tr, e : Promise!KeysResolve(i, tr, e) <=> KeysResolve(i, tr, e)
  BY SameEval DEF Promise!KeysResolve, KeysResolve, Promise!Word, Word
<1> QED BY <1>1, <1>2

\* The fields of the header being read from the k-th on, and those of the
\* extracts from the n-th on.
Rest(k) ==
  [j \in 1 .. Len(Fields) - k + 1 |-> [instance |-> Instance(X), field |-> Fields[k + j - 1]]]
From(n) == WireFields(ir, SubSeq(Extracts, n, Len(Extracts)))

\* What the code of the case has still to take.
Left ==
  IF ex > Len(Extracts) THEN <<>>
  ELSE IF fld = 0 THEN From(ex)
  ELSE Rest(fld) \o From(ex + 1)

LEMMA UnreadIs ==
  /\ Unread = IF InBody THEN Left ELSE <<>>
  /\ Unread' = IF InBody' THEN Left' ELSE <<>>
BY DEF Unread, Left, Rest, From

LEMMA FromFacts ==
  ASSUME CTypeOK
  PROVE  /\ \A n \in Nat \ {0} : From(n) \in Seq(WireField)
         /\ \A n \in 1 .. Len(Extracts) :
              /\ From(n) = OwnFields(ir, Extracts[n]) \o From(n + 1)
              /\ OwnFields(ir, Extracts[n]) \in Seq(WireField)
         /\ From(Len(Extracts) + 1) = <<>>
         /\ From(1) = WireFields(ir, Extracts)
<1>1. Extracts \in Seq(Extract) /\ IsIr(ir) /\ Len(Extracts) \in Nat /\ DOMAIN Extracts = 1 .. Len(Extracts)
  BY StateShape
<1>2. ASSUME NEW n \in Nat \ {0}
      PROVE  From(n) \in Seq(WireField)
  <2>1. SubSeq(Extracts, n, Len(Extracts)) \in Seq(Extract)
    BY <1>1, SubSeqProperties
  <2> QED BY <1>1, <2>1, WireFieldsType DEF From
<1>3. ASSUME NEW n \in 1 .. Len(Extracts)
      PROVE  /\ From(n) = OwnFields(ir, Extracts[n]) \o From(n + 1)
             /\ OwnFields(ir, Extracts[n]) \in Seq(WireField)
  <2> DEFINE m == n - 1
  <2>1. m \in Nat /\ m < Len(Extracts) /\ m + 1 = n /\ m + 2 = n + 1
    BY <1>1
  <2> HIDE DEF m
  <2>2. WireFields(ir, SubSeq(Extracts, m + 1, Len(Extracts)))
          = OwnFields(ir, Extracts[m + 1]) \o WireFields(ir, SubSeq(Extracts, m + 2, Len(Extracts)))
    BY <1>1, <2>1, WireFieldsFrom
  <2>3. OwnFields(ir, Extracts[n]) \in Seq(WireField)
    BY <1>1, OwnFieldsType
  <2> QED BY <2>1, <2>2, <2>3 DEF From
<1>4. From(Len(Extracts) + 1) = <<>>
  <2>1. SubSeq(Extracts, Len(Extracts) + 1, Len(Extracts)) = <<>>
    BY <1>1, SubSeqEmpty
  <2> QED BY <2>1, WireFieldsEmpty DEF From
<1>5. From(1) = WireFields(ir, Extracts)
  <2>1. SubSeq(Extracts, 1, Len(Extracts)) = Extracts
    BY <1>1, SubSeqFull
  <2> QED BY <2>1 DEF From
<1> QED BY <1>2, <1>3, <1>4, <1>5

LEMMA RestFacts ==
  ASSUME CTypeOK, pc = "body", ex <= Len(Extracts)
  PROVE  /\ Rest(1) = OwnFields(ir, X)
         /\ Rest(Len(Fields) + 1) = <<>>
         /\ \A k \in 1 .. Len(Fields) + 1 : Rest(k) \in Seq(WireField)
         /\ \A k \in 1 .. Len(Fields) :
              /\ Rest(k) # <<>>
              /\ Head(Rest(k)) = [instance |-> Instance(X), field |-> Fields[k]]
              /\ Tail(Rest(k)) = Rest(k + 1)
<1>1. /\ Fields \in Seq(Field) /\ Len(Fields) \in Nat /\ DOMAIN Fields = 1 .. Len(Fields)
      /\ Instance(X) \in STRING /\ X.type \in DOMAIN ir.types /\ Fields = ir.types[X.type]
  BY ExtractShape
<1>2. ASSUME NEW k \in 1 .. Len(Fields) + 1
      PROVE  Rest(k) \in Seq(WireField) /\ Len(Rest(k)) = Len(Fields) - k + 1
  <2>1. \A j \in 1 .. Len(Fields) - k + 1 : k + j - 1 \in 1 .. Len(Fields)
    BY <1>1
  <2>2. \A j \in 1 .. Len(Fields) - k + 1 :
          [instance |-> Instance(X), field |-> Fields[k + j - 1]] \in WireField
    BY <1>1, <2>1 DEF WireField
  <2> DEFINE m == Len(Fields) - k + 1
             item(j) == [instance |-> Instance(X), field |-> Fields[k + j - 1]]
  <2>3. m \in Nat
    BY <1>1
  <2>4. Rest(k) = [j \in 1 .. m |-> item(j)] /\ \A j \in 1 .. m : item(j) \in WireField
    BY <2>2 DEF Rest
  <2> HIDE DEF m, item
  <2>5. Rest(k) \in Seq(WireField) /\ Len(Rest(k)) = m
    BY <2>3, <2>4
  <2> QED BY <2>5 DEF m
<1>3. ASSUME NEW k \in 1 .. Len(Fields)
      PROVE  /\ Rest(k) # <<>>
             /\ Head(Rest(k)) = [instance |-> Instance(X), field |-> Fields[k]]
             /\ Tail(Rest(k)) = Rest(k + 1)
  <2>1. Rest(k) \in Seq(WireField) /\ Len(Rest(k)) = Len(Fields) - k + 1 /\ Rest(k) # <<>>
    BY <1>1, <1>2
  <2>2. Rest(k + 1) \in Seq(WireField) /\ Len(Rest(k + 1)) = Len(Fields) - k
    <3>1. k + 1 \in 1 .. Len(Fields) + 1 /\ Len(Fields) - (k + 1) + 1 = Len(Fields) - k
      BY <1>1
    <3> QED BY <1>2, <3>1
  <2>3. /\ Tail(Rest(k)) \in Seq(WireField) /\ Len(Tail(Rest(k))) = Len(Fields) - k
        /\ \A j \in 1 .. Len(Fields) - k : Tail(Rest(k))[j] = Rest(k)[j + 1]
        /\ Head(Rest(k)) = Rest(k)[1]
    <3> DEFINE p == Rest(k)
    <3>1. p \in Seq(WireField) /\ p # <<>> /\ Len(p) = Len(Fields) - k + 1
      BY <2>1
    <3> HIDE DEF p
    <3>2. /\ Tail(p) \in Seq(WireField) /\ Len(Tail(p)) = Len(p) - 1
          /\ \A j \in 1 .. Len(p) - 1 : Tail(p)[j] = p[j + 1]
          /\ Head(p) = p[1]
      BY <3>1, HeadTailProperties
    <3>3. Len(p) - 1 = Len(Fields) - k
      BY <1>1, <3>1
    <3> QED BY <3>2, <3>3 DEF p
  <2>4. ASSUME NEW j \in 1 .. Len(Fields) - k
        PROVE  Rest(k)[j + 1] = Rest(k + 1)[j]
    <3>1. /\ j + 1 \in 1 .. Len(Fields) - k + 1 /\ j \in 1 .. Len(Fields) - (k + 1) + 1
          /\ k + (j + 1) - 1 = (k + 1) + j - 1
      BY <1>1
    <3> QED BY <3>1 DEF Rest
  <2>5. Tail(Rest(k)) = Rest(k + 1)
    BY <2>2, <2>3, <2>4, SeqEqual
  <2>6. Rest(k)[1] = [instance |-> Instance(X), field |-> Fields[k]]
    <3>1. 1 \in 1 .. Len(Fields) - k + 1 /\ k + 1 - 1 = k
      BY <1>1
    <3> QED BY <3>1 DEF Rest
  <2> QED BY <2>1, <2>3, <2>5, <2>6
<1>4. Rest(Len(Fields) + 1) = <<>>
  <2>1. Rest(Len(Fields) + 1) \in Seq(WireField) /\ Len(Rest(Len(Fields) + 1)) = 0
    BY <1>1, <1>2
  <2> QED BY <2>1
<1>5. Rest(1) = OwnFields(ir, X)
  <2>1. TypeFields(ir, X.type) = Fields
    BY <1>1 DEF TypeFields
  <2>2. Len(Fields) - 1 + 1 = Len(Fields) /\ \A j \in 1 .. Len(Fields) : 1 + j - 1 = j
    BY <1>1
  <2>3. Rest(1) = [j \in 1 .. Len(Fields) |-> [instance |-> Instance(X), field |-> Fields[j]]]
    BY <2>2 DEF Rest
  <2> QED BY <1>1, <2>1, <2>3 DEF OwnFields
<1> QED BY <1>2, <1>3, <1>4, <1>5

\* Setting a presence flag takes nothing; reading a field takes the first of
\* what is left.
LEMMA AdvanceTakes ==
  ASSUME CTypeOK, pc = "body", ex <= Len(Extracts), Advance, UNCHANGED <<ir, state>>
  PROVE  Left' = IF fld = 0 THEN Left ELSE Tail(Left)
<1>1. /\ ex \in 1 .. Len(Extracts) /\ fld \in 0 .. Len(Fields) /\ Len(Fields) \in Nat
      /\ Len(Extracts) \in Nat /\ X = Extracts[ex]
  BY ExtractShape, StateShape DEF X
<1>2. Extracts' = Extracts
  BY DEF Extracts
<1>3. \A n : From(n)' = From(n)
  BY <1>2 DEF From
<1> DEFINE later == From(ex + 1)
<1>4. later \in Seq(WireField)
  BY <1>1, FromFacts
<1>5. Left' = Rest(fld + 1) \o later
  <2>1. CASE fld < Len(Fields)
    <3>1. ex' = ex /\ fld' = fld + 1 /\ fld' # 0
      BY <1>1, <2>1 DEF Advance
    <3>2. X' = X /\ Fields' = Fields
      BY <1>2, <3>1 DEF X, Fields
    <3>3. \A k : Rest(k)' = Rest(k)
      BY <3>2 DEF Rest
    <3>4. ~ ex' > Len(Extracts') /\ ex' + 1 = ex + 1
      BY <1>1, <1>2, <3>1
    <3>5. Left' = Rest(fld)' \o From(ex + 1)'
      BY <3>1, <3>4 DEF Left
    <3>6. From(ex + 1)' = From(ex + 1)
      BY <1>3, <3>4
    <3>7. Rest(fld)' = Rest(fld + 1)
      BY <3>1, <3>3
    <3> QED BY <3>5, <3>6, <3>7
  <2>2. CASE ~ fld < Len(Fields)
    <3>1. ex' = ex + 1 /\ fld' = 0 /\ fld + 1 = Len(Fields) + 1
      BY <1>1, <2>2 DEF Advance
    <3>2. Rest(fld + 1) = <<>>
      BY <1>1, <3>1, RestFacts
    <3>3. Rest(fld + 1) \o later = later
      BY <1>4, <3>2, ConcatEmptySeq
    <3>4. Left' = later
      <4>1. CASE ex + 1 > Len(Extracts)
        <5>1. ex + 1 = Len(Extracts) + 1
          BY <1>1, <4>1
        <5>2. later = <<>>
          BY <5>1, FromFacts
        <5> QED BY <1>2, <3>1, <4>1, <5>2 DEF Left
      <4>2. CASE ~ ex + 1 > Len(Extracts)
        BY <1>2, <1>3, <3>1, <4>2 DEF Left
      <4> QED BY <4>1, <4>2
    <3> QED BY <3>3, <3>4
  <2> QED BY <2>1, <2>2
<1>6. CASE fld = 0
  <2>1. Left = From(ex)
    BY <1>1, <1>6 DEF Left
  <2>2. From(ex) = OwnFields(ir, X) \o later
    BY <1>1, FromFacts
  <2>3. Rest(1) = OwnFields(ir, X) /\ fld + 1 = 1
    BY <1>6, RestFacts
  <2> QED BY <1>5, <1>6, <2>1, <2>2, <2>3
<1>7. CASE fld # 0
  <2>1. fld \in 1 .. Len(Fields) /\ fld \in 1 .. Len(Fields) + 1
    BY <1>1, <1>7
  <2>2. Left = Rest(fld) \o later
    BY <1>1, <1>7 DEF Left
  <2> DEFINE p == Rest(fld)
  <2>3. p \in Seq(WireField) /\ p # <<>> /\ Tail(p) = Rest(fld + 1)
    BY <2>1, RestFacts
  <2> HIDE DEF p, later
  <2>4. Tail(p \o later) = Tail(p) \o later
    BY <1>4, <2>3, ConcatHeadTail
  <2> QED BY <1>5, <1>7, <2>2, <2>3, <2>4 DEF p
<1> QED BY <1>6, <1>7

\* The field the code is at is the field to take next.
LEMMA FirstLeft ==
  ASSUME CTypeOK, AtField
  PROVE  Left # <<>> /\ Head(Left) = [instance |-> Instance(X), field |-> Fld]
<1>1. pc = "body" /\ ex <= Len(Extracts) /\ fld \in 1 .. Len(Fields)
  BY DEF AtField
<1>2. ex \in 1 .. Len(Extracts) /\ Len(Extracts) \in Nat /\ Len(Fields) \in Nat
  BY <1>1, ExtractShape, StateShape
<1> DEFINE p == Rest(fld)
           q == From(ex + 1)
<1>3. Left = p \o q
  BY <1>1, <1>2 DEF Left
<1>4. p \in Seq(WireField) /\ p # <<>> /\ Head(p) = [instance |-> Instance(X), field |-> Fld]
  BY <1>1, <1>2, RestFacts DEF Fld
<1>5. q \in Seq(WireField)
  BY <1>2, FromFacts
<1> HIDE DEF p, q
<1>6. p \o q # <<>> /\ Head(p \o q) = Head(p)
  BY <1>4, <1>5, ConcatHeadTail
<1> QED BY <1>3, <1>4, <1>6

(***************************************************************************)
(* The verdict.                                                            *)
(***************************************************************************)

\* A code stands for its reason.
LEMMA CodeMeans ==
  ASSUME IsIr(ir), NEW r \in ToSet(BuiltIn) \cup Authored(ir)
  PROVE  ReasonTable(ir)[Code(r)] = r
BY ReasonFacts DEF Code

LEMMA CVerdictIs ==
  /\ ret = NotReturned => CVerdict = Promise!Pending
  /\ ret' = ret /\ ir' = ir => CVerdict' = CVerdict
  /\ Return("accept", 0) => CVerdict' = [outcome |-> "accept", reason |-> "", consumed |-> off]
  /\ IsIr(ir) => \A r \in ToSet(BuiltIn) \cup Authored(ir) :
       Reject(r) => CVerdict' = [outcome |-> "reject", reason |-> r, consumed |-> off]
<1>1. ret = NotReturned => CVerdict = Promise!Pending
  BY DEF NotReturned, CVerdict, Promise!Pending
<1>2. ret' = ret /\ ir' = ir => CVerdict' = CVerdict
  BY DEF CVerdict
<1>3. Return("accept", 0) => CVerdict' = [outcome |-> "accept", reason |-> "", consumed |-> off]
  BY DEF Return, CVerdict
<1>4. ASSUME IsIr(ir), NEW r \in ToSet(BuiltIn) \cup Authored(ir), Reject(r)
      PROVE  CVerdict' = [outcome |-> "reject", reason |-> r, consumed |-> off]
  <2> DEFINE c == Code(r)
  <2>1. ReasonTable(ir)[c] = r
    BY <1>4, CodeMeans
  <2>2. ret' = [outcome |-> "reject", reason |-> c, consumed |-> off] /\ ir' = ir
    BY <1>4 DEF Reject, Return
  <2> HIDE DEF c
  <2>3. ReasonTable(ir') = ReasonTable(ir)
    BY <2>2
  <2> QED BY <2>1, <2>2, <2>3 DEF CVerdict
<1> QED BY <1>1, <1>2, <1>3, <1>4

(***************************************************************************)
(* The steps.                                                              *)
(***************************************************************************)

\* The loop stops at the limit, and nothing is returned before the return.
LoopBounded ==
  /\ depth <= ir.max_depth
  /\ pc = "body" => depth < ir.max_depth
  /\ pc # "returned" => ret = NotReturned

\* A length is asked for between bytes only.  (Inside a byte the interpreter
\* reports a broken description, and the emitted C, which does not look, goes on.)
LengthsAligned == AtField /\ Fld.width = "bytes" => off % ByteBits = 0

Reading == CTypeOK /\ LoopBounded /\ pc = "body"

LEMMA BoundedInit == Init => LoopBounded
<1> SUFFICES ASSUME Init
             PROVE  LoopBounded
  OBVIOUS
<1>1. ir.max_depth \in Nat /\ depth = 0 /\ pc = "head" /\ ret = NotReturned
  BY IrsAssumption DEF Init, IsIr
<1> QED BY <1>1 DEF LoopBounded

LEMMA BoundedNext == CTypeOK /\ LoopBounded /\ [Next]_vars => LoopBounded'
<1> SUFFICES ASSUME CTypeOK, LoopBounded, [Next]_vars
             PROVE  LoopBounded'
  OBVIOUS
<1>1. ir.max_depth \in Nat /\ depth \in Nat
  BY StateShape DEF CTypeOK, IsIr
<1>2. ASSUME UNCHANGED <<ir, depth>>, pc' = "returned"
      PROVE  LoopBounded'
  BY <1>2 DEF LoopBounded
<1>3. CASE EnterCase
  BY <1>1, <1>3 DEF EnterCase, LoopBounded
<1>4. CASE LoopEnds
  BY <1>2, <1>4 DEF LoopEnds, Reject, Return
<1>5. CASE SetPresent
  BY <1>5 DEF SetPresent, LoopBounded
<1>6. CASE ReadBits
  <2>1. CASE Reject("out of bounds")
    BY <1>2, <2>1 DEF Reject, Return
  <2>2. CASE UNCHANGED <<ir, pc, depth, ret>>
    BY <2>2 DEF LoopBounded
  <2> QED BY <1>6, <2>1, <2>2 DEF ReadBits
<1>7. CASE ReadBytes
  <2>1. CASE Reject("out of bounds")
    BY <1>2, <2>1 DEF Reject, Return
  <2>2. CASE UNCHANGED <<ir, pc, depth, ret>>
    BY <2>2 DEF LoopBounded
  <2> QED BY <1>7, <2>1, <2>2 DEF ReadBytes
<1>8. CASE TakeTransition
  <2>1. PICK t \in Targets(Trans) : Goto(t)
    BY <1>8, TransitionShape
  <2>2. pc = "body" /\ UNCHANGED present
    BY <1>8, TransitionShape
  <2>3. CASE \E outcome \in {"accept", "reject"}, reason \in {0} \cup Codes(ir) :
               Return(outcome, reason)
    BY <1>2, <2>3 DEF Return
  <2>4. CASE depth' = depth + 1 /\ pc' = "head" /\ UNCHANGED <<ir, ret>>
    <3>1. depth < ir.max_depth /\ ret = NotReturned
      BY <2>2 DEF LoopBounded
    <3> QED BY <1>1, <2>4, <3>1 DEF LoopBounded
  <2> QED BY <2>1, <2>2, <2>3, <2>4, GotoShape
<1>9. CASE UNCHANGED vars
  BY <1>9 DEF vars, LoopBounded
<1> QED BY <1>3, <1>4, <1>5, <1>6, <1>7, <1>8, <1>9 DEF Next, Step, Returned

\* What the promise sees of the code inside a case.
LEMMA InCase ==
  ASSUME Reading
  PROVE  /\ CTypeOK /\ depth < ir.max_depth /\ InBody
         /\ CVerdict = Promise!Pending
         /\ Unread = Left
<1>1. CTypeOK /\ depth < ir.max_depth /\ ret = NotReturned
  BY DEF Reading, LoopBounded
<1>2. InBody
  BY DEF Reading, InBody
<1> QED BY <1>1, <1>2, CVerdictIs, UnreadIs

\* A return from the case leaves all but the verdict.
LEMMA ReturnKeeps ==
  ASSUME Reading, NEW outcome, NEW reason, Return(outcome, reason)
  PROVE  /\ UNCHANGED <<ir, packet, state, depth, off, members>>
         /\ pc' = "returned" /\ InBody' /\ Unread' = Unread
<1>1. /\ pc' = "returned"
      /\ UNCHANGED <<ir, packet, state, depth, ex, fld, off, members>>
  BY DEF Return
<1>2. InBody' /\ InBody
  BY <1>1, InCase DEF InBody
<1>3. Extracts' = Extracts
  BY <1>1 DEF Extracts
<1>4. X' = X
  BY <1>1, <1>3 DEF X
<1>5. Fields' = Fields
  BY <1>1, <1>4 DEF Fields
<1>6. Unread' = Unread
  BY <1>1, <1>2, <1>3, <1>4, <1>5 DEF Unread
<1> QED BY <1>1, <1>2, <1>6

LEMMA PromiseInit == Init => Promise!Init
<1> SUFFICES ASSUME Init PROVE Promise!Init
  OBVIOUS
<1>1. ~ InBody /\ Unread = <<>> /\ CVerdict = Promise!Pending
  <2>1. pc = "head" /\ ret = NotReturned
    BY DEF Init
  <2> QED BY <2>1, CVerdictIs DEF InBody, Unread
<1> QED BY <1>1 DEF Init, Promise!Init

\* Entering a case is a visit.
LEMMA PromiseEnter == CTypeOK /\ LoopBounded /\ EnterCase => Promise!Next
<1> SUFFICES ASSUME CTypeOK, LoopBounded, EnterCase PROVE Promise!Next
  OBVIOUS
<1>1. /\ pc = "head" /\ depth < ir.max_depth /\ pc' = "body" /\ ex' = 1 /\ fld' = 0
      /\ UNCHANGED <<ir, packet, state, depth, off, members, ret>>
  BY DEF EnterCase
<1>2. ~ InBody /\ InBody'
  BY <1>1 DEF InBody
<1>3. CVerdict = Promise!Pending /\ CVerdict' = Promise!Pending
  BY <1>1, CVerdictIs DEF LoopBounded
<1>4. Unread' = WireFields(ir, Extracts)
  <2>1. Extracts' = Extracts /\ Len(Extracts) \in Nat
    BY <1>1, StateShape DEF Extracts
  <2>2. Left' = From(1)
    <3>1. From(ex)' = From(1)
      BY <1>1, <2>1 DEF From
    <3>2. CASE 1 > Len(Extracts)
      <4>1. Len(Extracts) + 1 = 1
        BY <2>1, <3>2
      <4>2. From(1) = <<>>
        BY <4>1, FromFacts
      <4> QED BY <1>1, <2>1, <3>2, <4>2 DEF Left
    <3>3. CASE ~ 1 > Len(Extracts)
      BY <1>1, <2>1, <3>1, <3>3 DEF Left
    <3> QED BY <3>2, <3>3
  <2> QED BY <1>2, <2>2, UnreadIs, FromFacts
<1>5. state \in DOMAIN ir.states
  BY DEF CTypeOK
<1>6. Promise!Visit
  BY <1>1, <1>2, <1>3, <1>4, <1>5, SameWireFields DEF Extracts, Promise!Visit
<1> QED BY <1>6 DEF Promise!Next

\* The loop's end is the rejection of a parse that is too deep.
LEMMA PromiseLoopEnds == CTypeOK /\ LoopBounded /\ LoopEnds => Promise!Next
<1> SUFFICES ASSUME CTypeOK, LoopBounded, LoopEnds PROVE Promise!Next
  OBVIOUS
<1>1. pc = "head" /\ depth >= ir.max_depth /\ Reject("max depth exceeded")
  BY DEF LoopEnds
<1>2. pc' = "returned" /\ UNCHANGED <<ir, packet, state, depth, off, members>>
  BY <1>1 DEF Reject, Return
<1> DEFINE most == ir.max_depth
<1>9. most \in Nat /\ depth \in Nat
  BY StateShape DEF CTypeOK, IsIr
<1>10. depth >= most /\ depth <= most /\ ir'.max_depth = most
  BY <1>1, <1>2 DEF LoopBounded
<1>11. depth = most
  <2> HIDE DEF most
  <2> QED BY <1>9, <1>10
<1>3. depth = ir.max_depth
  BY <1>11
<1>4. ~ InBody /\ ~ InBody'
  <2>1. ~ depth < most /\ ~ depth' < ir'.max_depth
    <3> HIDE DEF most
    <3> QED BY <1>2, <1>9, <1>10, <1>11
  <2> QED BY <1>1, <1>2, <2>1 DEF InBody
<1>5. Unread = <<>> /\ Unread' = <<>>
  BY <1>4 DEF Unread
<1>6. CVerdict = Promise!Pending
  BY <1>1, CVerdictIs DEF LoopBounded
<1>7. CVerdict' = [outcome |-> "reject", reason |-> "max depth exceeded", consumed |-> off]
  BY <1>1, CVerdictIs, CodeFacts, StateShape
<1>8. Promise!TooDeep
  <2>1. (IF pc = "head" THEN depth ELSE depth + 1) = depth
        /\ (IF pc = "head" THEN depth ELSE depth + 1)' = depth + 1
    BY <1>1, <1>2
  <2>2. InBody' = InBody
    BY <1>4 DEF InBody
  <2>3. Unread' = Unread
    BY <1>5
  <2>4. Promise!Verdict("reject", "max depth exceeded")
    BY <1>7 DEF Promise!Verdict
  <2> QED BY <1>2, <1>3, <1>4, <1>6, <2>1, <2>2, <2>3, <2>4 DEF Promise!TooDeep
<1> QED BY <1>8 DEF Promise!Next

\* Setting a flag is invisible.
LEMMA PromisePresent == Reading /\ SetPresent => UNCHANGED Promise!vars
<1> SUFFICES ASSUME Reading, SetPresent PROVE UNCHANGED Promise!vars
  OBVIOUS
<1>1. /\ pc = "body" /\ ex <= Len(Extracts) /\ fld = 0 /\ Advance
      /\ UNCHANGED <<ir, packet, pc, state, depth, off, members, ret>>
  BY DEF SetPresent, AtFlag
<1>2. InBody /\ InBody' /\ Unread = Left
  BY <1>1, InCase DEF InBody
<1>3. Left' = Left
  BY <1>1, AdvanceTakes DEF Reading
<1>4. Unread' = Unread
  BY <1>2, <1>3, UnreadIs
<1>5. CVerdict' = CVerdict
  BY <1>1, CVerdictIs
<1> QED BY <1>1, <1>2, <1>4, <1>5 DEF Promise!vars

\* The field and its width are the same on both sides.
LEMMA NextToTake ==
  ASSUME Reading, NativeArithmetic, LengthsAligned, AtField, Fld.width # "none"
  PROVE  /\ Promise!Taking /\ Promise!HasWidth
         /\ Head(Unread).instance = Instance(X) /\ Head(Unread).field = Fld
         /\ Fld.width = "bits" => Promise!Width = Fld.n
         /\ Fld.width = "bytes" =>
              \A vlen \in CValues(Fld.n) : vlen \in Word /\ Promise!Width = ByteBits * vlen
<1>1. /\ CTypeOK /\ InBody /\ Unread = Left /\ CVerdict = Promise!Pending
  BY InCase
<1>2. Unread # <<>> /\ Head(Unread) = [instance |-> Instance(X), field |-> Fld]
  BY <1>1, FirstLeft
<1>3. Head(Unread).instance = Instance(X) /\ Head(Unread).field = Fld
  BY <1>2
<1>4. Promise!Taking
  BY <1>1, <1>2 DEF Promise!Taking
<1>5. Fld.width = "bits" => Promise!Width = Fld.n
  BY <1>3 DEF Promise!Width
<1>6. ASSUME Fld.width = "bytes", NEW vlen \in CValues(Fld.n)
      PROVE  vlen \in Word /\ vlen = EvalExpr(ir, Fld.n, members)
  <2>1. CValues(Fld.n) = {EvalExpr(ir, Fld.n, members)}
    BY <1>6 DEF NativeArithmetic
  <2>2. CValues(Fld.n) \subseteq Word
    BY <1>1, <1>6, FieldShape, StateShape, CValuesAreWords DEF CTypeOK
  <2> QED BY <1>6, <2>1, <2>2
<1>7. ASSUME Fld.width = "bytes"
      PROVE  EvalExpr(ir, Fld.n, members) \in CValues(Fld.n)
  BY <1>7 DEF NativeArithmetic
<1>8. Promise!HasWidth
  <2>1. Fld.width \in {"bits", "bytes"}
    BY <1>1, FieldShape DEF Field
  <2>2. Fld.width = "bytes" => off % ByteBits = 0 /\ EvalExpr(ir, Fld.n, members) \in Word
    BY <1>6, <1>7 DEF LengthsAligned
  <2> QED BY <1>3, <2>1, <2>2, SameEval DEF Promise!HasWidth, Promise!Word, Word
<1>9. ASSUME Fld.width = "bytes", NEW vlen \in CValues(Fld.n)
      PROVE  vlen \in Word /\ Promise!Width = ByteBits * vlen
  BY <1>3, <1>6, <1>9, SameEval DEF Promise!Width
<1> QED BY <1>3, <1>4, <1>5, <1>8, <1>9

\* A field that fits is taken, one that does not is run off.
LEMMA PromiseRunOff ==
  ASSUME Reading, Promise!Taking, Promise!HasWidth, off + Promise!Width > BitLen,
         Reject("out of bounds")
  PROVE  Promise!Next
<1>1. CTypeOK /\ depth < ir.max_depth /\ InBody /\ CVerdict = Promise!Pending
  BY InCase
<1>2. /\ UNCHANGED <<ir, packet, state, depth, off, members>>
      /\ pc' = "returned" /\ InBody' /\ Unread' = Unread
  BY ReturnKeeps DEF Reject
<1>3. CVerdict' = [outcome |-> "reject", reason |-> "out of bounds", consumed |-> off]
  BY <1>1, CVerdictIs, CodeFacts, StateShape
<1>4. pc = "body"
  BY DEF Reading
<1>5. Promise!RunOff
  BY <1>1, <1>2, <1>3, <1>4 DEF Promise!RunOff, Promise!Verdict, BitLen
<1> QED BY <1>5 DEF Promise!Next

\* What reading a field of n bits does to what the promise sees.
LEMMA FieldRead ==
  ASSUME Reading, AtField, Advance, UNCHANGED <<ir, packet, pc, state, depth, ret>>
  PROVE  Unread' = Tail(Unread) /\ InBody' /\ InBody /\ CVerdict' = CVerdict
<1>1. pc = "body" /\ ex <= Len(Extracts) /\ fld # 0
  <2>1. pc = "body" /\ ex <= Len(Extracts) /\ fld \in 1 .. Len(Fields)
    BY DEF AtField
  <2>2. Len(Fields) \in Nat
    BY <2>1, ExtractShape DEF Reading
  <2> QED BY <2>1, <2>2
<1>2. InBody /\ InBody' /\ Unread = Left
  BY <1>1, InCase DEF InBody
<1>3. Left' = Tail(Left)
  BY <1>1, AdvanceTakes DEF Reading
<1> QED BY <1>2, <1>3, UnreadIs, CVerdictIs

LEMMA PromiseReadBits ==
  ASSUME Reading, NativeArithmetic, LengthsAligned, ReadBits
  PROVE  Promise!Next
<1>1. AtField /\ Fld.width = "bits" /\ CTypeOK /\ pc = "body"
  BY DEF ReadBits, Reading
<1>2. /\ Promise!Taking /\ Promise!HasWidth /\ Promise!Width = Fld.n
      /\ Head(Unread).instance = Instance(X) /\ Head(Unread).field = Fld
  BY <1>1, NextToTake
<1>3. CVerdict = Promise!Pending
  BY InCase
<1>4. UInt64(off + Fld.n) = off + Fld.n
  <2> DEFINE n == Fld.n
  <2>1. n \in 1 .. WordBits
    BY <1>1, FieldShape
  <2> HIDE DEF n
  <2>2. off + n \in Nat /\ off + n < 2^WordBits
    BY <1>1, <2>1, StateShape, WordSize, WordBitsAssumption
  <2> QED BY <2>2, NoWrap DEF n
<1>5. CASE off + Fld.n > BitLen
  <2>1. Reject("out of bounds")
    BY <1>4, <1>5 DEF ReadBits
  <2> QED BY <1>2, <1>5, <2>1, PromiseRunOff
<1>6. CASE ~ off + Fld.n > BitLen
  <2>1. /\ members' = Assign(members, Key, SubSeq(packet, off + 1, off + Fld.n))
        /\ off' = off + Fld.n /\ Advance
        /\ UNCHANGED <<ir, packet, pc, state, depth, ret>>
    BY <1>4, <1>6 DEF ReadBits
  <2>2. Unread' = Tail(Unread) /\ InBody' /\ InBody /\ CVerdict' = CVerdict
    BY <1>1, <2>1, FieldRead
  <2>3. <<Head(Unread).instance, Head(Unread).field.name>> = Key /\ Head(Unread).field.width = "bits"
    BY <1>1, <1>2 DEF Key
  <2>4. members' = [k \in DOMAIN members \cup {Key} |->
                     IF k = Key THEN SubSeq(packet, off + 1, off') ELSE members[k]]
    BY <2>1 DEF Assign
  <2>5. off + Fld.n <= Len(packet)
    <3>1. off \in Nat /\ Fld.n \in Nat /\ Len(packet) \in Nat /\ BitLen = Len(packet)
      BY <1>1, StateShape, FieldShape DEF BitLen
    <3> QED BY <1>6, <3>1
  <2>6. Promise!Take
    BY <1>1, <1>2, <1>3, <2>1, <2>2, <2>3, <2>4, <2>5 DEF Promise!Take
  <2> QED BY <2>6 DEF Promise!Next
<1> QED BY <1>5, <1>6

\* A body that does not fit ends behind the buffer.
LEMMA UnfitBeyond ==
  ASSUME CTypeOK, NEW vlen \in Word, ~ Fits(vlen)
  PROVE  off + ByteBits * vlen > BitLen
<1>1. BitLen \in Nat /\ off \in Nat /\ off <= BitLen /\ BitLen < 2^WordBits
  BY StateShape, WordSize, WordBitsAssumption
<1> DEFINE rest == BitLen - off
           q == rest \div ByteBits
<1>2. UInt64(rest) = rest /\ rest \in Nat
  BY <1>1, WordSize, NoWrap
<1>3. vlen \in Nat /\ vlen > q
  BY <1>2, ByteBitsAssumption DEF Fits, Word
<1>4. q \in Nat /\ rest < (q + 1) * ByteBits
  BY <1>2, ByteBitsAssumption
<1>5. (q + 1) * ByteBits <= vlen * ByteBits /\ vlen * ByteBits = ByteBits * vlen
  <2>1. vlen >= q + 1 /\ ByteBits \in Nat
    BY <1>3, <1>4, ByteBitsAssumption
  <2> HIDE DEF q
  <2> QED BY <1>3, <1>4, <2>1
<1>6. rest < ByteBits * vlen /\ ByteBits * vlen \in Nat
  BY <1>2, <1>3, <1>4, <1>5, ByteBitsAssumption
<1> DEFINE w == ByteBits * vlen
<1> HIDE DEF w, q
<1> QED BY <1>1, <1>6 DEF w

LEMMA PromiseReadBytes ==
  ASSUME Reading, NativeArithmetic, LengthsAligned, ReadBytes
  PROVE  Promise!Next
<1>1. AtField /\ Fld.width = "bytes" /\ CTypeOK /\ pc = "body"
  BY DEF ReadBytes, Reading
<1>2. PICK vlen \in CValues(Fld.n) :
        IF ~ Fits(vlen) THEN Reject("out of bounds")
        ELSE /\ spans' = Assign(spans, Key, [off |-> off, len |-> UInt64(vlen * ByteBits)])
             /\ off' = UInt64(off + vlen * ByteBits)
             /\ Advance
             /\ UNCHANGED <<ir, packet, pc, state, depth, members, ret>>
  BY DEF ReadBytes
<1>3. /\ Promise!Taking /\ Promise!HasWidth
      /\ vlen \in Word /\ Promise!Width = ByteBits * vlen
      /\ Head(Unread).field = Fld
  BY <1>1, NextToTake
<1>4. CVerdict = Promise!Pending
  BY InCase
<1>5. CASE ~ Fits(vlen)
  <2>1. off + Promise!Width > BitLen
    BY <1>1, <1>3, <1>5, UnfitBeyond
  <2>2. Reject("out of bounds")
    BY <1>2, <1>5
  <2> QED BY <1>3, <2>1, <2>2, PromiseRunOff
<1>6. CASE Fits(vlen)
  <2> DEFINE w == ByteBits * vlen
  <2>1. UInt64(off + w) = off + w /\ off + w <= Len(packet)
    <3>1. vlen * ByteBits = w
      BY <1>3, ByteBitsAssumption DEF Word
    <3> QED BY <1>1, <1>3, <1>6, <3>1, FitsWithin DEF BitLen
  <2>2. off' = off + w /\ Advance /\ UNCHANGED <<ir, packet, pc, state, depth, members, ret>>
    <3>1. vlen * ByteBits = w
      BY <1>3, ByteBitsAssumption DEF Word
    <3> QED BY <1>2, <1>6, <2>1, <3>1
  <2>3. Promise!Width = w
    BY <1>3
  <2> HIDE DEF w
  <2>4. Unread' = Tail(Unread) /\ InBody' /\ InBody /\ CVerdict' = CVerdict
    BY <1>1, <2>2, FieldRead
  <2>5. Promise!Take
    BY <1>1, <1>3, <1>4, <2>1, <2>2, <2>3, <2>4 DEF Promise!Take
  <2> QED BY <2>5 DEF Promise!Next
<1> QED BY <1>5, <1>6

\* Behind the last field nothing is left, and the target the if-else chain
\* goes to is the one the promise selects: one it knows, or none at all.
LEMMA ReadyToLeave ==
  ASSUME Reading, AtTransition
  PROVE  /\ CTypeOK /\ depth < ir.max_depth /\ InBody
         /\ CVerdict = Promise!Pending
         /\ Unread = <<>>
         /\ Promise!Leaving
         /\ Promise!Trans = Trans
<1>1. CTypeOK /\ depth < ir.max_depth /\ InBody /\ CVerdict = Promise!Pending /\ Unread = Left
  BY InCase
<1>2. Left = <<>>
  BY DEF AtTransition, Left
<1>3. Promise!Leaving
  BY <1>1, <1>2 DEF Promise!Leaving
<1>4. Promise!Trans = Trans
  BY DEF Promise!Trans, Trans
<1> QED BY <1>1, <1>2, <1>3, <1>4

\* The targets a generated transition has.
LEMMA Goals ==
  ASSUME CTypeOK
  PROVE  /\ Trans.arms \in Seq(Arm) /\ Trans.kind \in {"direct", "select"}
         /\ \A i \in DOMAIN Trans.arms : Trans.arms[i].next.kind \in {"state", "accept", "reject"}
         /\ Trans.default.kind \in {"state", "accept", "reject", "absent"}
         /\ Trans.kind = "direct" => Trans.default.kind # "absent"
<1>1. Trans \in Transition /\ Trans.kind # "none" /\ IsIr(ir) /\ state \in DOMAIN ir.states
  BY StateShape DEF CTypeOK
<1>2. Trans.arms \in Seq(Arm) /\ Trans.kind \in {"direct", "select"} /\ Trans.default \in Target
  BY <1>1 DEF Transition
<1>3. /\ \A a \in ToSet(Trans.arms) : a.next.kind \notin {"empty", "absent"}
      /\ Trans.default.kind # "empty"
  BY <1>1 DEF CTypeOK, Generates, Trans
<1>4. ASSUME NEW i \in DOMAIN Trans.arms
      PROVE  Trans.arms[i].next.kind \in {"state", "accept", "reject"}
  <2>1. Trans.arms[i] \in Arm /\ Trans.arms[i] \in ToSet(Trans.arms)
    BY <1>2 DEF ToSet
  <2>2. Trans.arms[i].next.kind \in {"state", "accept", "reject", "empty", "absent"}
    BY <2>1 DEF Arm, Target
  <2> QED BY <1>3, <2>1, <2>2
<1>5. Trans.default.kind \in {"state", "accept", "reject", "absent"}
  BY <1>2, <1>3 DEF Target
<1>6. Trans.kind = "direct" => Trans.default.kind # "absent"
  BY <1>1 DEF IsIr, Trans
<1> QED BY <1>2, <1>4, <1>5, <1>6

LEMMA SelectedIs ==
  ASSUME Reading, NativeArithmetic, TakeTransition
  PROVE  /\ AtTransition /\ Promise!HasKeys
         /\ Promise!Selected \in Targets(Trans) /\ Goto(Promise!Selected)
         /\ Promise!Selected.kind \in {"state", "accept", "reject"} \/ Promise!NothingMatches
         /\ Promise!NothingMatches => Promise!Selected.kind = "absent"
<1>1. AtTransition
  BY DEF TakeTransition
<1>2. CTypeOK /\ Promise!Trans = Trans
  BY <1>1, ReadyToLeave
<1>3. CASE Trans.kind = "direct"
  <2>1. Promise!HasKeys /\ Promise!Hits = {} /\ ~ Promise!NothingMatches
    BY <1>2, <1>3 DEF Promise!HasKeys, Promise!Hits, Promise!NothingMatches
  <2>2. Promise!Selected = Trans.default
    BY <1>2, <2>1 DEF Promise!Selected
  <2>3. Goto(Trans.default) /\ Trans.default \in Targets(Trans)
    BY <1>3 DEF TakeTransition, Targets
  <2>4. Trans.default.kind \in {"state", "accept", "reject"}
    BY <1>2, <1>3, Goals
  <2> QED BY <1>1, <2>1, <2>2, <2>3, <2>4
<1>4. CASE Trans.kind = "select"
  <2>1. PICK ks \in KeyVectors : Goto(Chosen(ks))
    BY <1>4 DEF TakeTransition
  <2>2. /\ DOMAIN ks = DOMAIN Trans.keys /\ ks = [k \in DOMAIN Trans.keys |-> ks[k]]
        /\ \A k \in DOMAIN Trans.keys : ks[k] \in CValues(Trans.keys[k])
    BY <2>1 DEF KeyVectors
  <2>3. \A k \in DOMAIN Trans.keys : ks[k] = EvalExpr(ir, Trans.keys[k], members)
    BY <1>1, <2>2 DEF NativeArithmetic
  <2>4. \A k \in DOMAIN Trans.keys : ks[k] \in Word
    <3>1. \A k \in DOMAIN Trans.keys : Trans.keys[k] \in DOMAIN ir.exprs
      BY <1>2, StateShape DEF IsIr, Trans, CTypeOK
    <3>2. \A k \in DOMAIN Trans.keys : CValues(Trans.keys[k]) \subseteq Word
      BY <1>2, <3>1, StateShape, CValuesAreWords DEF CTypeOK
    <3> QED BY <2>2, <3>2
  <2>5. KeysResolve(ir, Trans, members)
    BY <2>3, <2>4 DEF KeysResolve
  <2>6. Keys(ir, Trans, members) = ks
    <3>1. Keys(ir, Trans, members) = [k \in DOMAIN Trans.keys |-> ks[k]]
      BY <2>3 DEF Keys
    <3> QED BY <2>2, <3>1
  <2> DEFINE hits == MatchingArms(Trans, ks)
  <2>7. Promise!HasKeys
    BY <1>2, <1>4, <2>5, SameKeys DEF Promise!HasKeys
  <2>8. Promise!Hits = hits
    BY <1>2, <1>4, <2>6, SameKeys, SameMatches DEF Promise!Hits
  <2>9. hits \subseteq DOMAIN Trans.arms
    BY DEF MatchingArms
  <2>10. hits # {} => Min(hits) \in hits
    <3>1. hits \subseteq Nat
      BY <1>2, <2>9, Goals
    <3> HIDE DEF hits
    <3>2. hits # {} => \E x \in hits : \A y \in hits : x <= y
      BY <3>1, LeastNatural
    <3> QED BY <3>2 DEF Min
  <2>11. Chosen(ks) = IF hits = {} THEN Trans.default ELSE Trans.arms[Min(hits)].next
    BY DEF Chosen
  <2> HIDE DEF hits
  <2>12. Promise!First(hits) = Min(hits)
    BY DEF Promise!First, Min
  <2>13. Promise!Selected = Chosen(ks)
    BY <1>2, <2>8, <2>11, <2>12 DEF Promise!Selected
  <2>14. Chosen(ks) \in Targets(Trans)
    BY <1>2, <1>4, ChosenIsTarget
  <2>15. Promise!NothingMatches <=> hits = {} /\ Trans.default.kind = "absent"
    BY <1>2, <1>4, <2>8 DEF Promise!NothingMatches
  <2>16. CASE hits = {}
    <3>1. Chosen(ks) = Trans.default
      BY <2>11, <2>16
    <3>2. Trans.default.kind \in {"state", "accept", "reject", "absent"}
      BY <1>2, Goals
    <3> QED BY <1>1, <2>1, <2>7, <2>13, <2>14, <2>15, <2>16, <3>1, <3>2
  <2>17. CASE hits # {}
    <3>1. Min(hits) \in DOMAIN Trans.arms
      BY <2>9, <2>10, <2>17
    <3>2. Chosen(ks).kind \in {"state", "accept", "reject"}
      BY <1>2, <2>11, <2>17, <3>1, Goals
    <3> QED BY <1>1, <2>1, <2>7, <2>13, <2>14, <2>15, <2>17, <3>2
  <2> QED BY <2>16, <2>17
<1> QED BY <1>2, <1>3, <1>4, Goals

\* A transition leaves for the selected state, or stops.
LEMMA PromiseTransition ==
  ASSUME Reading, NativeArithmetic, TakeTransition
  PROVE  Promise!Next
<1> DEFINE t == Promise!Selected
<1>1. /\ AtTransition /\ Promise!HasKeys /\ t \in Targets(Trans) /\ Goto(t)
      /\ t.kind \in {"state", "accept", "reject"} \/ Promise!NothingMatches
      /\ Promise!NothingMatches => t.kind = "absent"
  BY SelectedIs
<1>2. /\ CTypeOK /\ depth < ir.max_depth /\ InBody /\ CVerdict = Promise!Pending
      /\ Unread = <<>> /\ Promise!Leaving /\ IsIr(ir) /\ pc = "body"
  BY <1>1, ReadyToLeave, StateShape DEF Reading
<1> HIDE DEF t
<1>3. ASSUME NEW outcome, NEW code, NEW reason, Return(outcome, code),
             CVerdict' = [outcome |-> outcome, reason |-> reason, consumed |-> off]
      PROVE  /\ Promise!Verdict(outcome, reason)
             /\ UNCHANGED <<ir, packet, state, off, members, InBody, Unread>>
             /\ (IF pc = "head" THEN depth ELSE depth + 1)' = IF pc = "head" THEN depth ELSE depth + 1
  <2>1. /\ UNCHANGED <<ir, packet, state, depth, off, members>>
        /\ pc' = "returned" /\ InBody' /\ Unread' = Unread
    BY <1>3, ReturnKeeps
  <2>2. InBody' = InBody
    BY <1>2, <2>1 DEF InBody
  <2>3. Promise!Verdict(outcome, reason)
    BY <1>3 DEF Promise!Verdict
  <2> QED BY <1>2, <2>1, <2>2, <2>3
<1>4. CASE t.kind = "state"
  <2>1. state' = t.to /\ depth' = depth + 1 /\ pc' = "head"
        /\ UNCHANGED <<ir, packet, off, members, ret>>
    BY <1>1, <1>4 DEF Goto
  <2>2. ~ InBody' /\ Unread' = <<>>
    <3>1. ~ InBody'
      BY <2>1 DEF InBody
    <3> QED BY <3>1 DEF Unread
  <2>3. CVerdict' = CVerdict
    BY <2>1, CVerdictIs
  <2>4. Promise!Leave
    BY <1>1, <1>2, <1>4, <2>1, <2>2, <2>3 DEF Promise!Leave, t
  <2> QED BY <2>4 DEF Promise!Next
<1>5. CASE t.kind = "accept"
  <2>1. Return("accept", 0)
    BY <1>1, <1>5 DEF Goto
  <2>2. CVerdict' = [outcome |-> "accept", reason |-> "", consumed |-> off]
    BY <2>1, CVerdictIs
  <2>3. Promise!Stop
    BY <1>1, <1>2, <1>3, <1>5, <2>1, <2>2 DEF Promise!Stop, t
  <2> QED BY <2>3 DEF Promise!Next
<1>6. CASE t.kind = "reject"
  <2>1. Reject(t.to) /\ t.to \in Authored(ir)
    BY <1>1, <1>2, <1>6, TargetShape DEF Goto
  <2>2. CVerdict' = [outcome |-> "reject", reason |-> t.to, consumed |-> off]
    BY <1>2, <2>1, CVerdictIs
  <2>3. Promise!Stop
    BY <1>1, <1>2, <1>3, <1>6, <2>1, <2>2 DEF Promise!Stop, Reject, t
  <2> QED BY <2>3 DEF Promise!Next
<1>7. CASE t.kind = "absent"
  <2>1. Reject("no matching select arm") /\ Promise!NothingMatches
    BY <1>1, <1>7 DEF Goto
  <2>2. "no matching select arm" \in ToSet(BuiltIn)
    BY <1>2, CodeFacts
  <2>3. CVerdict' = [outcome |-> "reject", reason |-> "no matching select arm", consumed |-> off]
    BY <1>2, <2>1, <2>2, CVerdictIs
  <2>4. Promise!Stop
    BY <1>1, <1>2, <1>3, <2>1, <2>3 DEF Promise!Stop, Reject
  <2> QED BY <2>4 DEF Promise!Next
<1> QED BY <1>1, <1>4, <1>5, <1>6, <1>7

LEMMA PromiseStutter == UNCHANGED vars => UNCHANGED Promise!vars
<1> SUFFICES ASSUME UNCHANGED vars PROVE UNCHANGED Promise!vars
  OBVIOUS
<1>1. UNCHANGED <<ir, packet, pc, state, depth, ex, fld, off, members, ret>>
  BY DEF vars
<1>2. InBody' = InBody /\ CVerdict' = CVerdict
  BY <1>1, CVerdictIs DEF InBody
<1>3. Unread' = Unread
  BY <1>1, <1>2 DEF Unread, Fields, Extracts, X
<1> QED BY <1>1, <1>2, <1>3 DEF Promise!vars

\* The safety of the promise: no step it does not allow.
PromiseSafe == Promise!Init /\ [][Promise!Next]_(Promise!vars)

\* Whatever the accepted description and the buffer, the emitted C does what
\* every consumer of a description promises, as long as its arithmetic is the
\* reference's and lengths stand between bytes: the same visits, the same bits
\* taken for the same fields, the same verdict, reason string and consumed
\* bits.  With InterpImplements: the two parsers take the same steps.
THEOREM CImplements == Spec /\ []NativeArithmetic /\ []LengthsAligned => PromiseSafe
<1>1. Init => CTypeOK /\ SpansConsumed /\ LoopBounded
  BY CTypeInit, BoundedInit DEF Init, SpansConsumed
<1>2. (CTypeOK /\ SpansConsumed /\ LoopBounded) /\ [Next]_vars
        => (CTypeOK /\ SpansConsumed /\ LoopBounded)'
  BY CTypeNext, BoundedNext
<1>3. (CTypeOK /\ LoopBounded) /\ (NativeArithmetic /\ LengthsAligned) /\ [Next]_vars
        => [Promise!Next]_(Promise!vars)
  <2> SUFFICES ASSUME CTypeOK, LoopBounded, NativeArithmetic, LengthsAligned, [Next]_vars
               PROVE  [Promise!Next]_(Promise!vars)
    OBVIOUS
  <2>1. CASE EnterCase
    BY <2>1, PromiseEnter
  <2>2. CASE LoopEnds
    BY <2>2, PromiseLoopEnds
  <2>3. CASE SetPresent
    BY <2>3, PromisePresent DEF Reading, SetPresent, AtFlag
  <2>4. CASE ReadBits
    BY <2>4, PromiseReadBits DEF Reading, ReadBits, AtField
  <2>5. CASE ReadBytes
    BY <2>5, PromiseReadBytes DEF Reading, ReadBytes, AtField
  <2>6. CASE TakeTransition
    BY <2>6, PromiseTransition DEF Reading, TakeTransition, AtTransition
  <2>7. CASE UNCHANGED vars
    BY <2>7, PromiseStutter
  <2> QED BY <2>1, <2>2, <2>3, <2>4, <2>5, <2>6, <2>7 DEF Next, Step, Returned
<1> QED BY <1>1, <1>2, <1>3, PromiseInit, PTL DEF Spec, PromiseSafe
===============================================================================
