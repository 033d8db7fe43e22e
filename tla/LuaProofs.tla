------------------------------ MODULE LuaProofs -------------------------------
(***************************************************************************)
(* Theorems about the alignments the Lua generator computes, for every set *)
(* of descriptions whose states exist and every byte size: the worklist    *)
(* ends in the residues all paths agree on, and what is accepted on the    *)
(* strength of them is aligned when the interpreter runs it.               *)
(***************************************************************************)
EXTENDS Backends, InterpProofs

(***************************************************************************)
(* Residues.                                                               *)
(***************************************************************************)
Residue == 0 .. ByteBits - 1

LEMMA ModFacts ==
  ASSUME NEW x \in Int
  PROVE  /\ x % ByteBits \in Residue
         /\ x \div ByteBits \in Int
         /\ x = ByteBits * (x \div ByteBits) + (x % ByteBits)
BY ByteBitsAssumption DEF Residue

\* A residue is the only one its number has.
LEMMA ModIs ==
  ASSUME NEW q \in Int, NEW r \in Residue
  PROVE  (ByteBits * q + r) % ByteBits = r
<1> DEFINE x == ByteBits * q + r
           p == x \div ByteBits
           m == x % ByteBits
<1>0. ByteBits \in Nat \ {0} /\ r \in Int /\ 0 <= r /\ r < ByteBits /\ x \in Int
  BY ByteBitsAssumption DEF Residue
<1>1. p \in Int /\ m \in Int /\ 0 <= m /\ m < ByteBits /\ x = ByteBits * p + m
  BY <1>0, ModFacts DEF Residue
<1>2. \A k \in Int : k >= 1 => ByteBits * k >= ByteBits
  BY <1>0
<1>3. ByteBits * (p - q) = r - m /\ ByteBits * (q - p) = m - r
  <2>1. ByteBits * p + m = ByteBits * q + r
    BY <1>1
  <2> HIDE DEF p, m, x
  <2>2. ByteBits * (p - q) = ByteBits * p - ByteBits * q
    BY <1>0, <1>1
  <2>3. ByteBits * (q - p) = ByteBits * q - ByteBits * p
    BY <1>0, <1>1
  <2> QED BY <1>0, <1>1, <2>1, <2>2, <2>3
<1> HIDE DEF p, m, x
<1>4. ~ p - q >= 1
  <2>1. p - q >= 1 => ByteBits * (p - q) >= ByteBits
    BY <1>1, <1>2
  <2> QED BY <1>0, <1>1, <1>3, <2>1
<1>5. ~ q - p >= 1
  <2>1. q - p >= 1 => ByteBits * (q - p) >= ByteBits
    BY <1>1, <1>2
  <2> QED BY <1>0, <1>1, <1>3, <2>1
<1>6. p = q
  BY <1>1, <1>4, <1>5
<1>7. m = r
  <2>1. p - q = 0
    BY <1>1, <1>6
  <2> QED BY <1>0, <1>1, <1>3, <2>1
<1> QED BY <1>7 DEF m, x

\* Adding is done with residues, and does not confuse two.
LEMMA ModAdds ==
  ASSUME NEW x \in Int, NEW y \in Int
  PROVE  ((x % ByteBits) + y) % ByteBits = (x + y) % ByteBits
<1> DEFINE p == x \div ByteBits
           z == (x % ByteBits) + y
<1>0. ByteBits \in Nat \ {0}
  BY ByteBitsAssumption
<1>1. p \in Int /\ x % ByteBits \in Int /\ x = ByteBits * p + (x % ByteBits)
  BY <1>0, ModFacts DEF Residue
<1>2. z \in Int /\ z \div ByteBits \in Int /\ z % ByteBits \in Residue
      /\ z = ByteBits * (z \div ByteBits) + (z % ByteBits)
  <2>1. z \in Int
    BY <1>1
  <2> HIDE DEF z
  <2> QED BY <2>1, ModFacts
<1>3. x + y = ByteBits * (p + z \div ByteBits) + (z % ByteBits)
  <2> DEFINE q == z \div ByteBits
             r == z % ByteBits
             w == x % ByteBits
  <2>1. q \in Int /\ r \in Int /\ z = ByteBits * q + r /\ z = w + y /\ x = ByteBits * p + w /\ w \in Int
    BY <1>1, <1>2 DEF Residue
  <2> HIDE DEF q, r, w, z, p
  <2>2. ByteBits * (p + q) = ByteBits * p + ByteBits * q
    BY <1>0, <1>1, <2>1
  <2>3. x + y = ByteBits * (p + q) + r
    BY <1>0, <1>1, <2>1, <2>2
  <2> QED BY <2>3 DEF q, r
<1>4. (x + y) % ByteBits = z % ByteBits
  <2> DEFINE q == p + z \div ByteBits
             r == z % ByteBits
  <2>1. q \in Int /\ r \in Residue /\ x + y = ByteBits * q + r
    BY <1>1, <1>2, <1>3
  <2> HIDE DEF q, r, z
  <2> QED BY <2>1, ModIs DEF r
<1> QED BY <1>4

LEMMA ModDiffers ==
  ASSUME NEW a \in Residue, NEW b \in Residue, NEW d \in Int, a # b
  PROVE  (a + d) % ByteBits # (b + d) % ByteBits
<1>0. ByteBits \in Nat \ {0} /\ a \in Int /\ b \in Int
  BY ByteBitsAssumption DEF Residue
<1>1. ASSUME NEW c \in Residue
      PROVE  (((c + d) % ByteBits) + (- d)) % ByteBits = c
  <2>1. c \in Int /\ c + d \in Int /\ - d \in Int /\ (c + d) + (- d) = c
    BY DEF Residue
  <2>2. (((c + d) % ByteBits) + (- d)) % ByteBits = ((c + d) + (- d)) % ByteBits
    BY <2>1, ModAdds
  <2>3. c % ByteBits = c
    BY <1>0, ModIs DEF Residue
  <2> QED BY <2>1, <2>2, <2>3
<1> QED BY <1>1

(***************************************************************************)
(* The bits of the fixed-width fields up to a place.                       *)
(***************************************************************************)
Fixed(f) == IF f.width = "bits" THEN f.n ELSE 0

LEMMA BitsBeforeFacts ==
  ASSUME NEW fs \in Seq(WireField)
  PROVE  /\ BitsBefore(fs, 1) = 0
         /\ \A k \in 1 .. Len(fs) : BitsBefore(fs, k + 1) = BitsBefore(fs, k) + Fixed(fs[k].field)
         /\ \A k \in 1 .. Len(fs) + 1 : BitsBefore(fs, k) \in Nat
<1> DEFINE n == Len(fs)
           Body(f, k) == IF k = 0 THEN 0 ELSE f[k - 1] + Fixed(fs[k].field)
           step == [f \in [0 .. n -> Nat] |-> [k \in 0 .. n |-> Body(f, k)]]
           sum == CHOOSE v : v = [k \in 0 .. n |-> Body(v, k)]
<1>1. \A k : BitsBefore(fs, k) = sum[k - 1]
  BY DEF BitsBefore, Fixed
<1>2. n \in Nat /\ \A k \in 1 .. n : Fixed(fs[k].field) \in Nat
  <2>1. \A x \in WireField : x.field \in Field \cup {NoWidth}
    BY DEF WireField
  <2>2. \A x \in Field \cup {NoWidth} : x.n \in Nat
    <3>1. \A x \in Field : x.n \in Nat
      BY DEF Field
    <3>2. NoWidth.n \in Nat
      BY DEF NoWidth
    <3> QED BY <3>1, <3>2
  <2>3. n \in Nat /\ \A k \in 1 .. n : fs[k] \in WireField
    OBVIOUS
  <2> QED BY <2>1, <2>2, <2>3 DEF Fixed
<1>3. ASSUME NEW f, NEW k \in 0 .. n, k > 0 => f[k - 1] \in Nat
      PROVE  Body(f, k) \in Nat
  BY <1>2, <1>3
<1>4. IsStep(step, 0, n, Nat)
  <2>1. ASSUME NEW f \in [0 .. n -> Nat], NEW k \in 0 .. n
        PROVE  step[f][k] \in Nat
    <3>1. n \in Nat /\ (k > 0 => k - 1 \in 0 .. n)
      BY <1>2
    <3>2. k > 0 => f[k - 1] \in Nat
      BY <3>1
    <3>3. Body(f, k) \in Nat
      BY <1>3, <3>2
    <3> QED BY <3>3
  <2>2. ASSUME NEW f \in [0 .. n -> Nat], NEW g \in [0 .. n -> Nat], NEW k \in 0 .. n,
               \A j \in 0 .. k - 1 : f[j] = g[j]
        PROVE  step[f][k] = step[g][k]
    BY <1>2, <2>2
  <2> HIDE DEF step
  <2> QED BY <2>1, <2>2 DEF IsStep
<1>5. \E f \in [0 .. n -> Nat] : \A k \in 0 .. n : f[k] = step[f][k]
  <2>1. n \in Nat /\ 0 \in Nat
    BY <1>2
  <2> HIDE DEF step, n
  <2> QED BY <2>1, <1>4, Recursion
<1>6. sum = [k \in 0 .. n |-> Body(sum, k)]
  <2>1. \E v : v = [k \in 0 .. n |-> Body(v, k)]
    <3> HIDE DEF Body
    <3> QED BY <1>5
  <2> QED BY <2>1
<1> HIDE DEF sum
<1>7. \A k \in 0 .. n : sum[k] = Body(sum, k)
  <2> HIDE DEF Body
  <2> QED BY <1>6
<1> DEFINE U == {m \in Nat : m <= n => sum[m] \in Nat}
<1>8. 0 \in U
  BY <1>2, <1>7
<1>9. ASSUME NEW m \in Nat, m \in U
      PROVE  m + 1 \in U
  BY <1>2, <1>3, <1>7, <1>9
<1>10. \A m \in Nat : m \in U
  <2> HIDE DEF U
  <2> QED BY <1>8, <1>9, NatSetInduction
<1>11. sum[0] = 0 /\ \A j \in 0 .. n : sum[j] \in Nat
  BY <1>2, <1>7, <1>10
<1>12. \A j \in 1 .. n : sum[j] = sum[j - 1] + Fixed(fs[j].field)
  BY <1>2, <1>7
<1>13. \A k \in 1 .. n : (k + 1) - 1 = k /\ k - 1 \in 0 .. n
  BY <1>2
<1> HIDE DEF Body, step, n
<1>14. \A k \in 1 .. n : BitsBefore(fs, k + 1) = BitsBefore(fs, k) + Fixed(fs[k].field)
  BY <1>1, <1>12, <1>13
<1>15. \A k \in 1 .. n + 1 : BitsBefore(fs, k) \in Nat
  BY <1>1, <1>2, <1>11
<1>16. BitsBefore(fs, 1) = 0
  BY <1>1, <1>11
<1> QED BY <1>14, <1>15, <1>16 DEF n

\* What a description lists is there.
LEMMA GraphFacts ==
  ASSUME ir \in Irs
  PROVE  /\ IsIr(ir) /\ Connected(ir)
         /\ IsFiniteSet(DOMAIN ir.states)
         /\ \A s \in DOMAIN ir.states :
              /\ FieldsOf(s) \in Seq(WireField)
              /\ Delta(s) \in Residue /\ Delta(s) \in Int
<1>1. IsIr(ir) /\ Connected(ir)
  BY IrsAssumption, ConnectedAssumption
<1>2. IsFiniteSet(DOMAIN ir.states)
  <2> DEFINE D == DOMAIN ir.order
             T == {ir.order[k] : k \in D}
  <2>1. IsFiniteSet(D)
    <3>1. D = 1 .. Len(ir.order) /\ Len(ir.order) \in Nat
      BY <1>1 DEF IsIr
    <3> QED BY <3>1, FS_Interval
  <2>2. IsFiniteSet(T)
    <3> DEFINE order == ir.order
    <3> HIDE DEF D
    <3>1. IsFiniteSet({order[k] : k \in D})
      <4> HIDE DEF order
      <4> QED BY <2>1, ImageIsFinite
    <3> QED BY <3>1
  <2>3. DOMAIN ir.states \in SUBSET T
    BY <1>1 DEF IsIr
  <2> HIDE DEF T
  <2> QED BY <2>2, <2>3, FS_Subset
<1>3. ASSUME NEW s \in DOMAIN ir.states
      PROVE  /\ FieldsOf(s) \in Seq(WireField)
             /\ Delta(s) \in Residue /\ Delta(s) \in Int
  <2>1. ir.states[s].extracts \in Seq(Extract)
    BY <1>1 DEF IsIr, State
  <2>2. FieldsOf(s) \in Seq(WireField)
    BY <1>1, <2>1, WireFieldsType DEF FieldsOf
  <2> DEFINE fs == FieldsOf(s)
             k == Len(fs) + 1
  <2>3. k \in 1 .. Len(fs) + 1
    BY <2>2
  <2> HIDE DEF k, fs
  <2>4. BitsBefore(fs, k) \in Nat
    BY <2>2, <2>3, BitsBeforeFacts DEF fs
  <2>5. Delta(s) = BitsBefore(fs, k) % ByteBits
    BY DEF Delta, fs, k
  <2> QED BY <2>2, <2>4, <2>5, ModFacts DEF Residue
<1> QED BY <1>1, <1>2, <1>3

(***************************************************************************)
(* The residues of all paths.                                              *)
(***************************************************************************)

\* A set that only grows, in steps that depend on it alone, has stopped after as
\* many steps as there are elements.
IsChain(f, g, N, U) ==
  /\ IsFiniteSet(U) /\ N \in Nat /\ Cardinality(U) <= N
  /\ g \in [SUBSET U -> SUBSET U]
  /\ \A R \in SUBSET U : R \subseteq g[R]
  /\ f[0] \in SUBSET U
  /\ \A n \in 1 .. N : f[n] = g[f[n - 1]]

LEMMA ChainSettles ==
  ASSUME NEW f, NEW g, NEW N, NEW U, IsChain(f, g, N, U)
  PROVE  f[N] \in SUBSET U /\ g[f[N]] = f[N]
<1>0. /\ IsFiniteSet(U) /\ N \in Nat /\ Cardinality(U) <= N
      /\ g \in [SUBSET U -> SUBSET U]
      /\ \A R \in SUBSET U : R \subseteq g[R]
      /\ f[0] \in SUBSET U
      /\ \A n \in 1 .. N : f[n] = g[f[n - 1]]
  BY DEF IsChain
<1> DEFINE Settled(n) == f[n] \in SUBSET U /\ (g[f[n]] = f[n] \/ Cardinality(f[n]) >= n)
           P == {n \in Nat : n <= N => Settled(n)}
<1>1. \A R \in SUBSET U : IsFiniteSet(R) /\ Cardinality(R) \in Nat /\ Cardinality(R) <= Cardinality(U)
                            /\ (Cardinality(R) = Cardinality(U) => R = U)
  <2>1. \A R \in SUBSET U : IsFiniteSet(R) /\ Cardinality(R) <= Cardinality(U)
                              /\ (Cardinality(U) = Cardinality(R) => U = R)
    BY <1>0, FS_Subset
  <2> QED BY <2>1, FS_CardinalityType
<1>2. 0 \in P
  BY <1>0, <1>1
<1>3. ASSUME NEW n \in Nat, n \in P, n + 1 <= N
      PROVE  Settled(n + 1)
  <2>1. n <= N /\ n + 1 \in 1 .. N /\ (n + 1) - 1 = n
    BY <1>0, <1>3
  <2>2. Settled(n) /\ f[n + 1] = g[f[n]]
    BY <1>0, <1>3, <2>1
  <2> DEFINE R == f[n]
             Q == f[n + 1]
  <2>3. R \in SUBSET U /\ Q \in SUBSET U /\ Q = g[R] /\ R \subseteq Q
    BY <1>0, <2>2
  <2>4. CASE g[R] = R
    BY <1>0, <2>2, <2>3, <2>4
  <2>5. CASE g[R] # R
    <3>1. Cardinality(R) >= n
      BY <2>2, <2>5
    <3>2. Cardinality(R) <= Cardinality(Q) /\ Cardinality(R) # Cardinality(Q)
      <4>1. IsFiniteSet(Q)
        BY <1>1, <2>3
      <4> HIDE DEF R, Q
      <4>2. Cardinality(R) <= Cardinality(Q) /\ (Cardinality(Q) = Cardinality(R) => Q = R)
        BY <2>3, <4>1, FS_Subset
      <4> QED BY <2>3, <2>5, <4>2
    <3>3. Cardinality(R) \in Nat /\ Cardinality(Q) \in Nat
      BY <1>1, <2>3
    <3>4. Cardinality(Q) >= n + 1
      <4> HIDE DEF R, Q
      <4> QED BY <3>1, <3>2, <3>3
    <3> QED BY <2>3, <3>4
  <2> QED BY <2>4, <2>5
<1>4. ASSUME NEW n \in Nat, n \in P
      PROVE  n + 1 \in P
  <2> HIDE DEF Settled
  <2> QED BY <1>3, <1>4, <1>0
<1>5. \A n \in Nat : n \in P
  <2> HIDE DEF P
  <2> QED BY <1>2, <1>4, NatSetInduction
<1>6. Settled(N)
  <2> HIDE DEF Settled
  <2> QED BY <1>0, <1>5
<1>7. CASE Cardinality(f[N]) >= N
  <2> DEFINE R == f[N]
  <2>1. R \in SUBSET U
    BY <1>6
  <2>2. Cardinality(R) = Cardinality(U)
    <3>1. Cardinality(R) \in Nat /\ Cardinality(U) \in Nat /\ Cardinality(R) <= Cardinality(U)
      BY <1>0, <1>1, <2>1, FS_CardinalityType
    <3> QED BY <1>0, <1>7, <3>1
  <2>3. R = U
    BY <1>1, <2>1, <2>2
  <2>4. U \in SUBSET U /\ g[U] \in SUBSET U /\ U \subseteq g[U]
    BY <1>0
  <2> QED BY <2>3, <2>4
<1> QED BY <1>6, <1>7

Onward(p) == {<<t, (p[2] + Delta(p[1])) % ByteBits>> : t \in Successors(ir.states[p[1]].trans)}
Entries == (DOMAIN ir.states) \X Residue

\* The least set of entries that has the start's and goes on along every edge.
EntryClosed(C) ==
  /\ C \in SUBSET Entries
  /\ <<ir.start, 0>> \in C
  /\ \A p \in C : Onward(p) \subseteq C

LEMMA OnwardType ==
  ASSUME ir \in Irs, NEW p \in Entries
  PROVE  Onward(p) \in SUBSET Entries
<1>1. p[1] \in DOMAIN ir.states /\ p[2] \in Residue /\ p[2] \in Int
  BY DEF Entries, Residue
<1>2. Delta(p[1]) \in Int /\ Successors(ir.states[p[1]].trans) \subseteq DOMAIN ir.states
  BY <1>1, GraphFacts DEF Connected
<1>3. (p[2] + Delta(p[1])) % ByteBits \in Residue
  <2> DEFINE d == Delta(p[1])
             x == p[2] + d
  <2>1. x \in Int
    BY <1>1, <1>2
  <2> HIDE DEF x
  <2>2. x % ByteBits \in Residue
    BY <2>1, ModFacts
  <2> QED BY <2>2 DEF x
<1> DEFINE r == (p[2] + Delta(p[1])) % ByteBits
<1> HIDE DEF r
<1>4. Onward(p) = {<<t, r>> : t \in Successors(ir.states[p[1]].trans)}
  BY DEF Onward, r
<1>5. r \in Residue
  BY <1>3 DEF r
<1> QED BY <1>2, <1>4, <1>5 DEF Entries

LEMMA ResiduesFacts ==
  ASSUME ir \in Irs
  PROVE  \E R : /\ EntryClosed(R)
                /\ \A C : EntryClosed(C) => R \subseteq C
                /\ DOMAIN Residues = DOMAIN ir.states
                /\ \A s \in DOMAIN ir.states : Residues[s] = {a \in Residue : <<s, a>> \in R}
<1> DEFINE N == ByteBits * Cardinality(DOMAIN ir.states)
           onward(Q) == UNION {Onward(p) : p \in Q}
           Body(v, n) == IF n = 0 THEN {<<ir.start, 0>>} ELSE v[n - 1] \cup onward(v[n - 1])
           reach == CHOOSE v : v = [n \in 0 .. N |-> Body(v, n)]
           R == reach[N]
           V == SUBSET Entries
           g == [Q \in V |-> Q \cup onward(Q)]
           step == [f \in [0 .. N -> V] |-> [n \in 0 .. N |-> Body(f, n)]]
<1>1. Residues = [s \in DOMAIN ir.states |-> {p[2] : p \in {q \in R : q[1] = s}}]
  BY DEF Residues, Onward
<1>2. IsFiniteSet(Entries) /\ N \in Nat /\ Cardinality(Entries) = N
  <2> DEFINE S == DOMAIN ir.states
  <2>1. IsFiniteSet(S) /\ Cardinality(S) \in Nat
    BY GraphFacts, FS_CardinalityType
  <2>2. ByteBits \in Nat \ {0}
    BY ByteBitsAssumption
  <2>3. IsFiniteSet(Residue) /\ Cardinality(Residue) = ByteBits
    <3>1. 0 \in Int /\ ByteBits - 1 \in Int /\ ~ 0 > ByteBits - 1 /\ (ByteBits - 1) - 0 + 1 = ByteBits
      BY <2>2
    <3> QED BY <3>1, FS_Interval DEF Residue
  <2> HIDE DEF S
  <2>4. IsFiniteSet(S \X Residue) /\ Cardinality(S \X Residue) = Cardinality(S) * Cardinality(Residue)
    BY <2>1, <2>3, FS_Product
  <2>5. Cardinality(S) * ByteBits = ByteBits * Cardinality(S) /\ ByteBits * Cardinality(S) \in Nat
    BY <2>1, <2>2
  <2> QED BY <2>3, <2>4, <2>5 DEF S, Entries
<1>3. ASSUME NEW Q \in V
      PROVE  Q \cup onward(Q) \in V
  <2>1. \A p \in Q : Onward(p) \in SUBSET Entries
    BY OnwardType
  <2> QED BY <2>1
<1>4. <<ir.start, 0>> \in Entries
  <2>1. ir.start \in DOMAIN ir.states
    BY GraphFacts DEF Connected
  <2>2. 0 \in Residue
    BY ByteBitsAssumption DEF Residue
  <2> QED BY <2>1, <2>2 DEF Entries
<1>5. IsStep(step, 0, N, V)
  <2>1. ASSUME NEW f \in [0 .. N -> V], NEW n \in 0 .. N
        PROVE  step[f][n] \in V
    <3>1. n # 0 => n - 1 \in 0 .. N
      BY <1>2
    <3>2. n # 0 => f[n - 1] \in V
      BY <3>1
    <3> HIDE DEF onward, V
    <3>3. {<<ir.start, 0>>} \in V
      BY <1>4 DEF V
    <3>4. Body(f, n) \in V
      BY <1>3, <3>2, <3>3
    <3> QED BY <3>4
  <2>2. ASSUME NEW f \in [0 .. N -> V], NEW h \in [0 .. N -> V], NEW n \in 0 .. N,
               \A j \in 0 .. n - 1 : f[j] = h[j]
        PROVE  step[f][n] = step[h][n]
    <3>1. n # 0 => n - 1 \in 0 .. n - 1
      BY <1>2
    <3>2. n # 0 => f[n - 1] = h[n - 1]
      BY <2>2, <3>1
    <3> HIDE DEF onward, V
    <3>3. Body(f, n) = Body(h, n)
      BY <3>2
    <3> QED BY <3>3
  <2>3. V # {}
    OBVIOUS
  <2> HIDE DEF step, V, N
  <2> QED BY <2>1, <2>2, <2>3 DEF IsStep
<1>6. PICK f \in [0 .. N -> V] : \A n \in 0 .. N : f[n] = step[f][n]
  <2>1. 0 \in Nat
    OBVIOUS
  <2> HIDE DEF step, V, N
  <2> QED BY <1>2, <1>5, <2>1, Recursion
<1>7. reach = [n \in 0 .. N |-> Body(reach, n)]
  <2>1. f = [n \in 0 .. N |-> Body(f, n)]
    <3> HIDE DEF Body, N, V
    <3> QED BY <1>6
  <2> HIDE DEF Body, N
  <2> QED BY <2>1
<1> HIDE DEF reach
<1>8. \A n \in 0 .. N : reach[n] = Body(reach, n)
  <2> HIDE DEF Body, N
  <2> QED BY <1>7
<1>0. reach[0] = {<<ir.start, 0>>}
  <2>1. 0 \in 0 .. N
    BY <1>2
  <2> HIDE DEF onward, N
  <2> QED BY <1>8, <2>1
<1>9. \A n \in Nat : n <= N => reach[n] \in V
  <2> DEFINE P == {n \in Nat : n <= N => reach[n] \in V}
  <2>1. 0 \in P
    BY <1>0, <1>4
  <2>2. ASSUME NEW n \in Nat, n \in P
        PROVE  n + 1 \in P
    <3> SUFFICES ASSUME n + 1 <= N PROVE reach[n + 1] \in V
      OBVIOUS
    <3>1. n + 1 \in 0 .. N /\ n + 1 # 0 /\ (n + 1) - 1 = n /\ n <= N
      BY <1>2
    <3>2. reach[n] \in V
      BY <2>2, <3>1
    <3> HIDE DEF onward, V, N
    <3>3. reach[n + 1] = reach[n] \cup onward(reach[n])
      BY <1>8, <3>1
    <3> QED BY <1>3, <3>2, <3>3
  <2> HIDE DEF P
  <2>3. \A n \in Nat : n \in P
    BY <2>1, <2>2, NatSetInduction
  <2> QED BY <2>3 DEF P
<1>10. R \in V /\ g[R] = R
  <2>1. g \in [V -> V] /\ \A Q \in V : Q \subseteq g[Q]
    <3> HIDE DEF onward, V
    <3> QED BY <1>3
  <2>2. reach[0] \in V
    BY <1>2, <1>9
  <2>3. ASSUME NEW n \in 1 .. N
        PROVE  reach[n] = g[reach[n - 1]]
    <3>1. n \in 0 .. N /\ n # 0 /\ n - 1 \in Nat /\ n - 1 <= N
      BY <1>2
    <3>2. reach[n - 1] \in V
      BY <1>9, <3>1
    <3> HIDE DEF onward, V, N
    <3> QED BY <1>8, <3>1, <3>2
  <2>4. Cardinality(Entries) <= N
    <3> HIDE DEF N
    <3> QED BY <1>2
  <2>5. IsFiniteSet(Entries) /\ N \in Nat
    BY <1>2
  <2> HIDE DEF g, N
  <2>6. IsChain(reach, g, N, Entries)
    <3> USE DEF V
    <3> QED BY <2>1, <2>2, <2>3, <2>4, <2>5 DEF IsChain
  <2>7. reach[N] \in SUBSET Entries /\ g[reach[N]] = reach[N]
    BY <2>6, ChainSettles
  <2> QED BY <2>7
<1>11. \A n \in Nat : n <= N => <<ir.start, 0>> \in reach[n]
  <2> DEFINE P == {n \in Nat : n <= N => <<ir.start, 0>> \in reach[n]}
  <2>1. 0 \in P
    BY <1>0
  <2>2. ASSUME NEW n \in Nat, n \in P
        PROVE  n + 1 \in P
    <3> SUFFICES ASSUME n + 1 <= N PROVE <<ir.start, 0>> \in reach[n + 1]
      OBVIOUS
    <3>1. n + 1 \in 0 .. N /\ n + 1 # 0 /\ (n + 1) - 1 = n /\ n <= N
      BY <1>2
    <3> HIDE DEF onward, V, N
    <3>2. reach[n + 1] = reach[n] \cup onward(reach[n])
      BY <1>8, <3>1
    <3> QED BY <2>2, <3>1, <3>2
  <2> HIDE DEF P
  <2>3. \A n \in Nat : n \in P
    BY <2>1, <2>2, NatSetInduction
  <2> QED BY <2>3 DEF P
<1>12. EntryClosed(R)
  <2>1. <<ir.start, 0>> \in R
    BY <1>2, <1>11
  <2>2. R \cup onward(R) = R
    <3> HIDE DEF onward, R, V
    <3> QED BY <1>10
  <2>3. \A p \in R : Onward(p) \subseteq R
    BY <2>2
  <2> QED BY <1>10, <2>1, <2>3 DEF EntryClosed
<1>13. ASSUME NEW C, EntryClosed(C)
       PROVE  R \subseteq C
  <2> DEFINE P == {n \in Nat : n <= N => reach[n] \subseteq C}
  <2>1. 0 \in P
    BY <1>0, <1>13 DEF EntryClosed
  <2>2. ASSUME NEW n \in Nat, n \in P
        PROVE  n + 1 \in P
    <3> SUFFICES ASSUME n + 1 <= N PROVE reach[n + 1] \subseteq C
      OBVIOUS
    <3>1. n + 1 \in 0 .. N /\ n + 1 # 0 /\ (n + 1) - 1 = n /\ n <= N
      BY <1>2
    <3>2. reach[n + 1] = reach[n] \cup onward(reach[n])
      <4> HIDE DEF onward, V, N
      <4> QED BY <1>8, <3>1
    <3>3. reach[n] \subseteq C
      BY <2>2, <3>1
    <3>4. onward(reach[n]) \subseteq C
      BY <1>13, <3>3 DEF EntryClosed
    <3> QED BY <3>2, <3>3, <3>4
  <2> HIDE DEF P
  <2>3. \A n \in Nat : n \in P
    BY <2>1, <2>2, NatSetInduction
  <2> QED BY <1>2, <2>3 DEF P
<1>14. ASSUME NEW s \in DOMAIN ir.states
       PROVE  {p[2] : p \in {q \in R : q[1] = s}} = {a \in Residue : <<s, a>> \in R}
  <2>1. R \in SUBSET Entries
    BY <1>10
  <2> HIDE DEF R
  <2>2. \A q \in R : q = <<q[1], q[2]>> /\ q[2] \in Residue
    BY <2>1 DEF Entries
  <2> QED BY <2>2
<1> HIDE DEF R
<1> QED BY <1>1, <1>12, <1>13, <1>14

(***************************************************************************)
(* The worklist.                                                           *)
(***************************************************************************)

\* A path enters s at residue a.
EnteredAt(s, a) == \A C : EntryClosed(C) => <<s, a>> \in C

InWork(wk, s) == \E k \in DOMAIN wk : wk[k] = s

ExitOf(al, s) == IF al[s] = Conflict THEN Conflict ELSE (al[s] + Delta(s)) % ByteBits

AlignTyped(al, wk) ==
  /\ DOMAIN al \subseteq DOMAIN ir.states
  /\ al \in [DOMAIN al -> Residue \cup {Conflict}]
  /\ wk \in Seq(DOMAIN al)

\* A residue is that of a path, and for a conflict there are two.
Founded(al) ==
  \A s \in DOMAIN al :
    IF al[s] = Conflict THEN \E a, b \in Residue : a # b /\ EnteredAt(s, a) /\ EnteredAt(s, b)
    ELSE EnteredAt(s, al[s])

\* What is left of a state reached the other, or made it a conflict.
Passed(al, s, t) == t \in DOMAIN al /\ al[t] \in {ExitOf(al, s), Conflict}

WorklistInv ==
  /\ ir \in Irs
  /\ AlignTyped(align, work)
  /\ Founded(align)
  /\ \A s \in DOMAIN align :
       InWork(work, s) \/ \A t \in Successors(ir.states[s].trans) : Passed(align, s, t)
  /\ ir.start \in DOMAIN align /\ align[ir.start] \in {0, Conflict}

LEMMA EnteredStart == EnteredAt(ir.start, 0)
BY DEF EnteredAt, EntryClosed

LEMMA EnteredOnward ==
  ASSUME NEW s, NEW a, EnteredAt(s, a), NEW t \in Successors(ir.states[s].trans)
  PROVE  EnteredAt(t, (a + Delta(s)) % ByteBits)
<1> DEFINE r == (a + Delta(s)) % ByteBits
<1> SUFFICES ASSUME NEW C, EntryClosed(C)
             PROVE  <<t, r>> \in C
  BY DEF EnteredAt
<1>1. <<s, a>> \in C
  BY DEF EnteredAt
<1>2. <<t, r>> \in Onward(<<s, a>>)
  BY DEF Onward
<1> HIDE DEF r
<1> QED BY <1>1, <1>2 DEF EntryClosed

\* Two residues stay two.
LEMMA ConflictOnward ==
  ASSUME ir \in Irs, NEW s \in DOMAIN ir.states, NEW a \in Residue, NEW b \in Residue, a # b,
         EnteredAt(s, a), EnteredAt(s, b), NEW t \in Successors(ir.states[s].trans)
  PROVE  \E c, d \in Residue : c # d /\ EnteredAt(t, c) /\ EnteredAt(t, d)
<1> DEFINE e == Delta(s)
           c == (a + e) % ByteBits
           d == (b + e) % ByteBits
<1>1. EnteredAt(t, c) /\ EnteredAt(t, d)
  BY EnteredOnward
<1>2. e \in Int
  BY GraphFacts
<1> HIDE DEF e
<1>3. c # d
  BY <1>2, ModDiffers
<1>4. c \in Residue /\ d \in Residue
  <2> DEFINE x == a + e
             y == b + e
  <2>1. x \in Int /\ y \in Int
    BY <1>2 DEF Residue
  <2> HIDE DEF x, y
  <2>2. x % ByteBits \in Residue /\ y % ByteBits \in Residue
    BY <2>1, ModFacts
  <2> QED BY <2>2 DEF x, y
<1> HIDE DEF c, d
<1> QED BY <1>1, <1>3, <1>4

Lists(ts, trans) ==
  /\ ts \in Seq(Target)
  /\ \A k \in 1 .. Len(ts) : ts[k].kind = "state" => ts[k].to \in Successors(trans)
  /\ \A t \in Successors(trans) : \E k \in 1 .. Len(ts) : ts[k].kind = "state" /\ ts[k].to = t

LEMMA TargetsListed ==
  ASSUME NEW trans \in Transition
  PROVE  Lists(TargetSeq(trans), trans)
<1> DEFINE ts == TargetSeq(trans)
           nexts == [i \in DOMAIN trans.arms |-> trans.arms[i].next]
<1>1. trans.default \in Target /\ trans.arms \in Seq(Arm)
  BY DEF Transition
<1>2. \A i \in DOMAIN trans.arms : trans.arms[i].next \in Target
  <2>1. \A i \in DOMAIN trans.arms : trans.arms[i] \in Arm
    BY <1>1
  <2> QED BY <2>1 DEF Arm
<1>3. CASE trans.kind = "direct"
  <2>1. ts = <<trans.default>> /\ Targets(trans) = {trans.default}
    BY <1>3 DEF TargetSeq, Targets
  <2>2. ts \in Seq(Target) /\ Len(ts) = 1 /\ ts[1] = trans.default
    BY <1>1, <2>1
  <2> HIDE DEF ts
  <2>3. \A t \in Successors(trans) : t = trans.default.to /\ trans.default.kind = "state"
    BY <2>1 DEF Successors
  <2>4. trans.default.kind = "state" => trans.default.to \in Successors(trans)
    BY <2>1 DEF Successors
  <2> QED BY <2>2, <2>3, <2>4 DEF ts, Lists
<1>4. CASE trans.kind = "select"
  <2>1. ts = Append(nexts, trans.default)
        /\ Targets(trans) = {trans.arms[i].next : i \in DOMAIN trans.arms} \cup {trans.default}
    BY <1>4 DEF TargetSeq, Targets
  <2>2. DOMAIN trans.arms = 1 .. Len(trans.arms) /\ Len(trans.arms) \in Nat
    BY <1>1
  <2>3. nexts \in Seq(Target) /\ Len(nexts) = Len(trans.arms)
    BY <1>2, <2>2
  <2>4. /\ ts \in Seq(Target) /\ Len(ts) = Len(trans.arms) + 1
        /\ \A i \in 1 .. Len(trans.arms) : ts[i] = trans.arms[i].next
        /\ ts[Len(trans.arms) + 1] = trans.default
    <3> HIDE DEF nexts, ts
    <3>1. /\ ts \in Seq(Target) /\ Len(ts) = Len(trans.arms) + 1
          /\ \A i \in 1 .. Len(trans.arms) : ts[i] = nexts[i]
          /\ ts[Len(trans.arms) + 1] = trans.default
      BY <1>1, <2>1, <2>3
    <3> QED BY <2>2, <3>1 DEF nexts
  <2> HIDE DEF ts
  <2>5. \A k \in 1 .. Len(ts) : ts[k] \in Targets(trans)
    BY <2>1, <2>2, <2>4
  <2>6. \A u \in Targets(trans) : \E k \in 1 .. Len(ts) : ts[k] = u
    <3> SUFFICES ASSUME NEW u \in Targets(trans) PROVE \E k \in 1 .. Len(ts) : ts[k] = u
      OBVIOUS
    <3>1. CASE u = trans.default
      BY <2>2, <2>4, <3>1
    <3>2. CASE \E i \in DOMAIN trans.arms : u = trans.arms[i].next
      BY <2>2, <2>4, <3>2
    <3> QED BY <2>1, <3>1, <3>2
  <2>7. \A k \in 1 .. Len(ts) : ts[k].kind = "state" => ts[k].to \in Successors(trans)
    BY <2>5 DEF Successors
  <2>8. \A t \in Successors(trans) : \E u \in Targets(trans) : u.kind = "state" /\ u.to = t
    BY DEF Successors
  <2> QED BY <2>4, <2>6, <2>7, <2>8 DEF ts, Lists
<1>5. CASE trans.kind = "none"
  <2>1. ts = <<>> /\ Targets(trans) = {}
    BY <1>5 DEF TargetSeq, Targets
  <2>2. Successors(trans) = {}
    BY <2>1 DEF Successors
  <2> QED BY <2>1, <2>2 DEF Lists
<1>6. trans.kind \in {"direct", "select", "none"}
  BY DEF Transition
<1> QED BY <1>3, <1>4, <1>5, <1>6

\* The state on top of the worklist, and its exit.
LEMMA TopFacts ==
  ASSUME WorklistInv, work # <<>>
  PROVE  /\ Top \in DOMAIN align /\ Top \in DOMAIN ir.states
         /\ Lists(TargetSeq(ir.states[Top].trans), ir.states[Top].trans)
         /\ Successors(ir.states[Top].trans) \subseteq DOMAIN ir.states
         /\ Exit = ExitOf(align, Top) /\ Exit \in Residue \cup {Conflict}
         /\ Front(work) \in Seq(DOMAIN align)
         /\ \A s : InWork(work, s) => InWork(Front(work), s) \/ s = Top
<1> DEFINE D == DOMAIN align
           n == Len(work)
<1>1. work \in Seq(D) /\ D \subseteq DOMAIN ir.states /\ ir \in Irs
      /\ \A s \in D : align[s] \in Residue \cup {Conflict}
  BY DEF WorklistInv, AlignTyped
<1> HIDE DEF D
<1>2. n \in Nat /\ n >= 1 /\ Top = work[n] /\ work[n] \in D
  BY <1>1 DEF Top, Last
<1>3. Front(work) = SubSeq(work, 1, n - 1)
  BY DEF Front
<1>4. Front(work) \in Seq(D) /\ Len(Front(work)) = n - 1
      /\ \A k \in 1 .. n - 1 : Front(work)[k] = work[k]
  <2>1. 1 \in Int /\ n - 1 \in Int /\ \A i \in 1 .. n - 1 : work[i] \in D
    BY <1>1, <1>2
  <2>2. /\ SubSeq(work, 1, n - 1) \in Seq(D)
        /\ Len(SubSeq(work, 1, n - 1)) = IF 1 <= n - 1 THEN (n - 1) - 1 + 1 ELSE 0
        /\ \A i \in 1 .. (n - 1) - 1 + 1 : SubSeq(work, 1, n - 1)[i] = work[1 + i - 1]
    BY <2>1, SubSeqProperties
  <2> HIDE DEF n
  <2> QED BY <1>2, <1>3, <2>2
<1>5. ASSUME NEW s, InWork(work, s)
      PROVE  InWork(Front(work), s) \/ s = Top
  <2>1. PICK k \in 1 .. n : work[k] = s
    BY <1>1, <1>5 DEF InWork
  <2>2. CASE k = n
    BY <1>2, <2>1, <2>2
  <2>3. CASE k # n
    <3>1. k \in 1 .. n - 1
      BY <1>2, <2>1, <2>3
    <3>2. k \in DOMAIN Front(work)
      BY <1>4, <3>1
    <3> QED BY <1>4, <2>1, <3>1, <3>2 DEF InWork
  <2> QED BY <2>2, <2>3
<1>6. Top \in DOMAIN ir.states
  BY <1>1, <1>2
<1>7. ir.states[Top].trans \in Transition
  BY <1>1, <1>6, GraphFacts DEF IsIr, State
<1>8. Exit = ExitOf(align, Top)
  BY DEF Exit, ExitOf
<1>9. Exit \in Residue \cup {Conflict}
  <2>1. CASE align[Top] = Conflict
    BY <2>1 DEF Exit
  <2>2. CASE align[Top] # Conflict
    <3> DEFINE x == align[Top] + Delta(Top)
    <3>1. x \in Int
      BY <1>1, <1>2, <1>6, <2>2, GraphFacts DEF Residue
    <3> HIDE DEF x
    <3>2. x % ByteBits \in Residue
      BY <3>1, ModFacts
    <3> QED BY <2>2, <3>2 DEF Exit, x
  <2> QED BY <2>1, <2>2
<1>10. Successors(ir.states[Top].trans) \subseteq DOMAIN ir.states
  BY <1>1, <1>6, GraphFacts DEF Connected
<1> QED BY <1>2, <1>4, <1>5, <1>6, <1>7, <1>8, <1>9, <1>10, TargetsListed DEF D

\* An exit that is a residue is that of a path; of a conflict there are two.
LEMMA ExitFounded ==
  ASSUME WorklistInv, work # <<>>, NEW t \in Successors(ir.states[Top].trans)
  PROVE  IF Exit = Conflict THEN \E a, b \in Residue : a # b /\ EnteredAt(t, a) /\ EnteredAt(t, b)
         ELSE EnteredAt(t, Exit)
<1>1. Founded(align) /\ Top \in DOMAIN align /\ Top \in DOMAIN ir.states /\ ir \in Irs
  BY TopFacts DEF WorklistInv
<1>2. CASE align[Top] = Conflict
  <2>1. PICK a \in Residue, b \in Residue : a # b /\ EnteredAt(Top, a) /\ EnteredAt(Top, b)
    BY <1>1, <1>2 DEF Founded
  <2>2. \E c, d \in Residue : c # d /\ EnteredAt(t, c) /\ EnteredAt(t, d)
    BY <1>1, <2>1, ConflictOnward
  <2> QED BY <1>2, <2>2 DEF Exit
<1>3. CASE align[Top] # Conflict
  <2>1. EnteredAt(Top, align[Top])
    BY <1>1, <1>3 DEF Founded
  <2>2. EnteredAt(t, (align[Top] + Delta(Top)) % ByteBits)
    BY <2>1, EnteredOnward
  <2>3. Exit = (align[Top] + Delta(Top)) % ByteBits
    BY <1>3 DEF Exit
  <2>4. Exit # Conflict
    <3>1. align[Top] \in Residue /\ Delta(Top) \in Int
      BY <1>1, <1>3, GraphFacts DEF WorklistInv, AlignTyped
    <3> DEFINE x == align[Top] + Delta(Top)
    <3>2. x \in Int
      BY <3>1 DEF Residue
    <3> HIDE DEF x
    <3>3. x % ByteBits \in Residue
      BY <3>2, ModFacts
    <3> QED BY <2>3, <3>3, ByteBitsAssumption DEF x, Residue, Conflict
  <2> QED BY <2>2, <2>3, <2>4
<1> QED BY <1>2, <1>3

LEMMA AppendedWork ==
  ASSUME NEW D, NEW wk \in Seq(D), NEW x
  PROVE  \A s : InWork(Append(wk, x), s) <=> (InWork(wk, s) \/ s = x)
<1>1. Len(wk) \in Nat /\ DOMAIN wk = 1 .. Len(wk) /\ wk \in Seq(D \cup {x}) /\ x \in D \cup {x}
  OBVIOUS
<1>2. /\ DOMAIN Append(wk, x) = 1 .. Len(wk) + 1
      /\ \A k \in 1 .. Len(wk) : Append(wk, x)[k] = wk[k]
      /\ Append(wk, x)[Len(wk) + 1] = x
  BY <1>1, AppendProperties
<1>3. \A k \in 1 .. Len(wk) + 1 : k \in 1 .. Len(wk) \/ k = Len(wk) + 1
  BY <1>1
<1>4. ASSUME NEW s
      PROVE  InWork(Append(wk, x), s) <=> (InWork(wk, s) \/ s = x)
  <2>1. ASSUME InWork(Append(wk, x), s) PROVE InWork(wk, s) \/ s = x
    BY <1>1, <1>2, <1>3, <2>1 DEF InWork
  <2>2. ASSUME InWork(wk, s) PROVE InWork(Append(wk, x), s)
    <3>1. PICK k \in 1 .. Len(wk) : wk[k] = s
      BY <1>1, <2>2 DEF InWork
    <3>2. k \in 1 .. Len(wk) + 1
      BY <1>1
    <3> QED BY <1>2, <3>1, <3>2 DEF InWork
  <2>3. InWork(Append(wk, x), x)
    <3>1. Len(wk) + 1 \in 1 .. Len(wk) + 1
      BY <1>1
    <3> QED BY <1>2, <3>1 DEF InWork
  <2> QED BY <2>1, <2>2, <2>3
<1> QED BY <1>4

\* After k targets.
MergedTo(aw, ts, k) ==
  /\ AlignTyped(aw.align, aw.work)
  /\ Founded(aw.align)
  /\ \A s \in DOMAIN align : s \in DOMAIN aw.align /\ aw.align[s] \in {align[s], Conflict}
  /\ \A s \in DOMAIN aw.align :
       ~ InWork(aw.work, s) => s \in DOMAIN align /\ aw.align[s] = align[s] /\ ~ InWork(Front(work), s)
  /\ \A j \in 1 .. k : ts[j].kind = "state" =>
       ts[j].to \in DOMAIN aw.align /\ aw.align[ts[j].to] \in {Exit, Conflict}

LEMMA MergeStep ==
  ASSUME WorklistInv, work # <<>>,
         NEW ts, Lists(ts, ir.states[Top].trans), NEW k \in 1 .. Len(ts),
         NEW aw, MergedTo(aw, ts, k - 1)
  PROVE  MergedTo(Merge(aw, ts[k]), ts, k)
<1> DEFINE t == ts[k]
           al == aw.align
           wk == aw.work
           v == IF t.to \in DOMAIN al THEN Conflict ELSE Exit
           al2 == Insert(al, t.to, v)
           wk2 == Append(wk, t.to)
<1>1. /\ AlignTyped(al, wk) /\ Founded(al)
      /\ \A s \in DOMAIN align : s \in DOMAIN al /\ al[s] \in {align[s], Conflict}
      /\ \A s \in DOMAIN al :
           ~ InWork(wk, s) => s \in DOMAIN align /\ al[s] = align[s] /\ ~ InWork(Front(work), s)
      /\ \A j \in 1 .. k - 1 : ts[j].kind = "state" =>
           ts[j].to \in DOMAIN al /\ al[ts[j].to] \in {Exit, Conflict}
  BY DEF MergedTo
<1>2. k \in Nat /\ \A j \in 1 .. k : j \in 1 .. k - 1 \/ j = k
  <2>1. Len(ts) \in Nat
    BY DEF Lists
  <2> QED BY <2>1
<1>3. CASE t.kind # "state"
  <2>1. Merge(aw, t) = aw
    BY <1>3 DEF Merge
  <2> QED BY <1>1, <1>2, <1>3, <2>1 DEF MergedTo
<1>4. CASE t.kind = "state" /\ t.to \in DOMAIN al /\ al[t.to] = Exit
  <2>1. Merge(aw, t) = aw
    BY <1>4 DEF Merge
  <2> QED BY <1>1, <1>2, <1>4, <2>1 DEF MergedTo
<1>5. CASE t.kind = "state" /\ ~ (t.to \in DOMAIN al /\ al[t.to] = Exit)
  <2> DEFINE D == DOMAIN al
             u == t.to
  <2>1. Merge(aw, t) = [align |-> al2, work |-> wk2]
    BY <1>5 DEF Merge
  <2>2. u \in Successors(ir.states[Top].trans) /\ u \in DOMAIN ir.states
    BY <1>5, TopFacts DEF Lists
  <2>3. /\ D \subseteq DOMAIN ir.states /\ \A s \in D : al[s] \in Residue \cup {Conflict}
        /\ wk \in Seq(D)
    BY <1>1 DEF AlignTyped
  <2>4. v \in {Exit, Conflict} /\ (u \in D => v = Conflict) /\ (u \notin D => v = Exit)
    OBVIOUS
  <2> HIDE DEF v
  <2>5. /\ DOMAIN al2 = D \cup {u}
        /\ al2[u] = v
        /\ \A s \in D : s # u => al2[s] = al[s]
        /\ al2 = [s \in D \cup {u} |-> al2[s]]
    BY DEF Insert
  <2> HIDE DEF al2
  <2>6. wk2 \in Seq(D \cup {u})
    <3>1. wk \in Seq(D \cup {u}) /\ u \in D \cup {u}
      BY <2>3
    <3> HIDE DEF D, u
    <3> QED BY <3>1, AppendProperties DEF u
  <2>7. \A s : InWork(wk2, s) <=> (InWork(wk, s) \/ s = u)
    BY <2>3, AppendedWork
  <2> HIDE DEF wk2
  <2>8. AlignTyped(al2, wk2)
    <3>1. v \in Residue \cup {Conflict}
      BY <2>4, TopFacts
    <3> HIDE DEF D, u
    <3>2. \A s \in D \cup {u} : al2[s] \in Residue \cup {Conflict}
      BY <2>3, <2>5, <3>1
    <3>3. al2 \in [D \cup {u} -> Residue \cup {Conflict}]
      BY <2>5, <3>2
    <3> QED BY <2>2, <2>3, <2>5, <2>6, <3>3 DEF AlignTyped
  <2>9. Founded(al2)
    <3>1. IF v = Conflict THEN \E a, b \in Residue : a # b /\ EnteredAt(u, a) /\ EnteredAt(u, b)
          ELSE EnteredAt(u, v)
      <4>1. IF Exit = Conflict THEN \E a, b \in Residue : a # b /\ EnteredAt(u, a) /\ EnteredAt(u, b)
            ELSE EnteredAt(u, Exit)
        BY <2>2, ExitFounded
      <4>2. CASE u \notin D
        BY <2>4, <4>1, <4>2
      <4>3. CASE u \in D
        <5>1. IF al[u] = Conflict THEN \E a, b \in Residue : a # b /\ EnteredAt(u, a) /\ EnteredAt(u, b)
              ELSE EnteredAt(u, al[u])
          BY <1>1, <4>3 DEF Founded
        <5>2. al[u] # Exit /\ al[u] \in Residue \cup {Conflict} /\ Exit \in Residue \cup {Conflict}
          BY <1>5, <2>3, <4>3, TopFacts
        <5>3. \E a, b \in Residue : a # b /\ EnteredAt(u, a) /\ EnteredAt(u, b)
          <6> HIDE DEF u, D, al
          <6>1. CASE al[u] = Conflict
            BY <5>1, <6>1
          <6>2. CASE Exit = Conflict
            BY <4>1, <6>2
          <6>3. CASE al[u] # Conflict /\ Exit # Conflict
            BY <4>1, <5>1, <5>2, <6>3
          <6> QED BY <6>1, <6>2, <6>3
        <5> QED BY <2>4, <4>3, <5>3
      <4> QED BY <4>2, <4>3
    <3>2. \A s \in D : IF al[s] = Conflict THEN \E a, b \in Residue : a # b /\ EnteredAt(s, a) /\ EnteredAt(s, b)
                       ELSE EnteredAt(s, al[s])
      BY <1>1 DEF Founded
    <3> HIDE DEF u, D, al
    <3>3. \A s \in D \cup {u} : IF al2[s] = Conflict THEN \E a, b \in Residue : a # b /\ EnteredAt(s, a) /\ EnteredAt(s, b)
                       ELSE EnteredAt(s, al2[s])
      BY <2>5, <3>1, <3>2
    <3> QED BY <2>5, <3>3 DEF Founded
  <2>10. \A s \in DOMAIN align : s \in DOMAIN al2 /\ al2[s] \in {align[s], Conflict}
    <3> SUFFICES ASSUME NEW s \in DOMAIN align
                 PROVE  s \in DOMAIN al2 /\ al2[s] \in {align[s], Conflict}
      OBVIOUS
    <3>1. s \in D /\ al[s] \in {align[s], Conflict}
      BY <1>1
    <3> HIDE DEF u, D, al
    <3>2. CASE s = u
      BY <2>4, <2>5, <3>1, <3>2
    <3>3. CASE s # u
      BY <2>5, <3>1, <3>3
    <3> QED BY <3>2, <3>3
  <2>11. \A s \in DOMAIN al2 :
           ~ InWork(wk2, s) => s \in DOMAIN align /\ al2[s] = align[s] /\ ~ InWork(Front(work), s)
    <3> SUFFICES ASSUME NEW s \in DOMAIN al2, ~ InWork(wk2, s)
                 PROVE  s \in DOMAIN align /\ al2[s] = align[s] /\ ~ InWork(Front(work), s)
      OBVIOUS
    <3>1. s # u /\ ~ InWork(wk, s)
      BY <2>7
    <3>2. s \in D
      BY <2>5, <3>1
    <3> QED BY <1>1, <2>5, <3>1, <3>2
  <2>12. \A j \in 1 .. k : ts[j].kind = "state" =>
           ts[j].to \in DOMAIN al2 /\ al2[ts[j].to] \in {Exit, Conflict}
    <3> SUFFICES ASSUME NEW j \in 1 .. k, ts[j].kind = "state"
                 PROVE  ts[j].to \in DOMAIN al2 /\ al2[ts[j].to] \in {Exit, Conflict}
      OBVIOUS
    <3>1. CASE ts[j].to = u
      BY <2>4, <2>5, <3>1
    <3>2. CASE ts[j].to # u
      <4>1. j \in 1 .. k - 1
        BY <1>2, <3>2
      <4> QED BY <1>1, <2>5, <3>2, <4>1
    <3> QED BY <3>1, <3>2
  <2> HIDE DEF t, al, wk, u, D
  <2>13. MergedTo([align |-> al2, work |-> wk2], ts, k)
    BY <2>8, <2>9, <2>10, <2>11, <2>12 DEF MergedTo
  <2> QED BY <2>1, <2>13 DEF t
<1> QED BY <1>3, <1>4, <1>5

\* The loop over the targets ends with all of them merged.
LEMMA MergedAll ==
  ASSUME WorklistInv, work # <<>>, Propagate
  PROVE  \E aw : /\ MergedTo(aw, TargetSeq(ir.states[Top].trans), Len(TargetSeq(ir.states[Top].trans)))
                 /\ align' = aw.align /\ work' = aw.work
<1> DEFINE ts == TargetSeq(ir.states[Top].trans)
           n == Len(ts)
           V == [align : [DOMAIN ir.states -> Int], work : Seq(STRING)]
           first == [align |-> align, work |-> Front(work)]
           Body(f, k) == IF k = 0 THEN first ELSE Merge(f[k - 1], ts[k])
           merged == CHOOSE v : v = [k \in 0 .. n |-> Body(v, k)]
<1>1. align' = merged[n].align /\ work' = merged[n].work
  BY DEF Propagate
<1>2. Lists(ts, ir.states[Top].trans) /\ n \in Nat
  BY TopFacts DEF Lists
<1> HIDE DEF ts
<1>3. \E f : \A k \in 0 .. n : f[k] = Body(f, k)
  <2> DEFINE P == {m \in Nat : m <= n => \E f : \A k \in 0 .. m : f[k] = Body(f, k)}
  <2>1. 0 \in P
    <3>1. \A k \in 0 .. 0 : k = 0
      OBVIOUS
    <3>2. LET f == [k \in {0} |-> first] IN \A k \in 0 .. 0 : f[k] = Body(f, k)
      <4> HIDE DEF first
      <4> QED BY <3>1
    <3>3. \E f : \A k \in 0 .. 0 : f[k] = Body(f, k)
      <4> DEFINE f0 == [k \in {0} |-> first]
      <4>1. \A k \in 0 .. 0 : f0[k] = Body(f0, k)
        BY <3>2
      <4> HIDE DEF f0, Body
      <4> QED BY <4>1
    <3> HIDE DEF Body
    <3> QED BY <3>3
  <2>2. ASSUME NEW m \in Nat, m \in P
        PROVE  m + 1 \in P
    <3> SUFFICES ASSUME m + 1 <= n
                 PROVE  \E f : \A k \in 0 .. m + 1 : f[k] = Body(f, k)
      OBVIOUS
    <3>1. m <= n
      BY <1>2
    <3>2. PICK f : \A k \in 0 .. m : f[k] = Body(f, k)
      <4> HIDE DEF Body
      <4> QED BY <2>2, <3>1
    <3> DEFINE x == Merge(f[m], ts[m + 1])
               h == [k \in 0 .. m + 1 |-> IF k = m + 1 THEN x ELSE f[k]]
    <3> HIDE DEF x, first
    <3>3. ASSUME NEW k \in 0 .. m + 1
          PROVE  h[k] = Body(h, k)
      <4>1. CASE k = m + 1
        <5>1. h[k] = x /\ h[k - 1] = f[m] /\ k # 0
          BY <4>1
        <5> HIDE DEF h
        <5> QED BY <4>1, <5>1 DEF x
      <4>2. CASE k # m + 1
        <5>1. k \in 0 .. m /\ h[k] = f[k] /\ (k # 0 => k - 1 \in 0 .. m + 1 /\ k - 1 # m + 1 /\ h[k - 1] = f[k - 1])
          BY <4>2
        <5> HIDE DEF h
        <5> QED BY <3>2, <5>1
      <4> QED BY <4>1, <4>2
    <3> HIDE DEF h, Body
    <3> QED BY <3>3
  <2> HIDE DEF P
  <2>3. \A m \in Nat : m \in P
    BY <2>1, <2>2, NatSetInduction
  <2>4. n \in P /\ n <= n
    BY <1>2, <2>3
  <2> HIDE DEF Body, n
  <2> QED BY <2>4 DEF P
<1>4. merged = [k \in 0 .. n |-> Body(merged, k)]
  <2>1. PICK f : \A k \in 0 .. n : f[k] = Body(f, k)
    <3> HIDE DEF Body
    <3> QED BY <1>3
  <2> DEFINE h == [k \in 0 .. n |-> f[k]]
  <2> HIDE DEF first
  <2>2. ASSUME NEW k \in 0 .. n
        PROVE  h[k] = Body(h, k)
    <3>1. h[k] = f[k] /\ (k # 0 => h[k - 1] = f[k - 1])
      BY <1>2
    <3> HIDE DEF h
    <3> QED BY <2>1, <3>1
  <2>3. h = [k \in 0 .. n |-> Body(h, k)]
    <3>1. h = [k \in 0 .. n |-> h[k]]
      OBVIOUS
    <3> HIDE DEF h, Body, n
    <3> QED BY <2>2, <3>1
  <2> HIDE DEF h, Body, n
  <2> QED BY <2>3
<1> HIDE DEF merged
<1>5. merged[0] = first /\ \A k \in 1 .. n : merged[k] = Merge(merged[k - 1], ts[k])
  <2>1. \A k \in 0 .. n : merged[k] = Body(merged, k)
    <3> HIDE DEF Body, n
    <3> QED BY <1>4
  <2> HIDE DEF first
  <2> QED BY <1>2, <2>1
<1> DEFINE P == {k \in Nat : k <= n => MergedTo(merged[k], ts, k)}
<1>6. 0 \in P
  <2> DEFINE fw == Front(work)
  <2>1. first.align = align /\ first.work = fw
    OBVIOUS
  <2>2. fw \in Seq(DOMAIN align) /\ AlignTyped(align, fw)
    BY TopFacts DEF WorklistInv, AlignTyped
  <2> HIDE DEF first
  <2>3. MergedTo(first, ts, 0)
    BY <2>1, <2>2 DEF MergedTo, WorklistInv
  <2> QED BY <1>5, <2>3
<1>7. ASSUME NEW k \in Nat, k \in P
      PROVE  k + 1 \in P
  <2> SUFFICES ASSUME k + 1 <= n
               PROVE  MergedTo(merged[k + 1], ts, k + 1)
    OBVIOUS
  <2> DEFINE j == k + 1
  <2>1. j \in 1 .. n /\ j - 1 = k /\ k <= n
    BY <1>2
  <2>2. MergedTo(merged[k], ts, j - 1)
    BY <1>7, <2>1
  <2> HIDE DEF j, first
  <2>3. MergedTo(Merge(merged[k], ts[j]), ts, j)
    BY <1>2, <2>1, <2>2, MergeStep
  <2>4. merged[j] = Merge(merged[k], ts[j])
    BY <1>5, <2>1
  <2> QED BY <2>3, <2>4 DEF j
<1>8. \A k \in Nat : k \in P
  <2> HIDE DEF P
  <2> QED BY <1>6, <1>7, NatSetInduction
<1>9. MergedTo(merged[n], ts, n)
  <2> HIDE DEF first
  <2> QED BY <1>2, <1>8
<1> HIDE DEF first
<1> QED BY <1>1, <1>9 DEF ts

\* What is said of the graph is said of it in the next state as well.
LEMMA SameGraph ==
  ASSUME ir' = ir
  PROVE  /\ \A s : FieldsOf(s)' = FieldsOf(s) /\ Delta(s)' = Delta(s)
         /\ \A al, s : ExitOf(al, s)' = ExitOf(al, s)
         /\ \A s, a : EnteredAt(s, a)' <=> EnteredAt(s, a)
<1>1. \A s : FieldsOf(s)' = FieldsOf(s)
  BY DEF FieldsOf
<1>2. \A s : Delta(s)' = Delta(s)
  BY <1>1 DEF Delta
<1>3. \A p : Onward(p)' = Onward(p)
  BY <1>2 DEF Onward
<1>4. \A C : EntryClosed(C)' <=> EntryClosed(C)
  BY <1>3 DEF EntryClosed, Entries
<1>5. \A s, a : EnteredAt(s, a)' <=> EnteredAt(s, a)
  BY <1>4 DEF EnteredAt
<1>6. \A al, s : ExitOf(al, s)' = ExitOf(al, s)
  BY <1>2 DEF ExitOf
<1> QED BY <1>1, <1>2, <1>5, <1>6

LEMMA WorklistStep ==
  ASSUME WorklistInv, Propagate
  PROVE  WorklistInv'
<1> DEFINE ts == TargetSeq(ir.states[Top].trans)
<1>1. work # <<>> /\ ir' = ir /\ ir \in Irs
  BY DEF Propagate, WorklistInv
<1>2. PICK aw : MergedTo(aw, ts, Len(ts)) /\ align' = aw.align /\ work' = aw.work
  BY <1>1, MergedAll
<1>3. Lists(ts, ir.states[Top].trans)
  BY <1>1, TopFacts
<1> HIDE DEF ts
<1>4. /\ AlignTyped(align', work') /\ Founded(align')
      /\ \A s \in DOMAIN align : s \in DOMAIN align' /\ align'[s] \in {align[s], Conflict}
      /\ \A s \in DOMAIN align' :
           ~ InWork(work', s) => s \in DOMAIN align /\ align'[s] = align[s] /\ ~ InWork(Front(work), s)
      /\ \A j \in 1 .. Len(ts) : ts[j].kind = "state" =>
           ts[j].to \in DOMAIN align' /\ align'[ts[j].to] \in {Exit, Conflict}
  BY <1>2 DEF MergedTo
<1>5. AlignTyped(align, work)'
  BY <1>1, <1>4 DEF AlignTyped
<1>6. Founded(align)'
  BY <1>1, <1>4, SameGraph DEF Founded
<1>7. ir.start \in DOMAIN align' /\ align'[ir.start] \in {0, Conflict}
  BY <1>4 DEF WorklistInv
<1>8. ASSUME NEW s \in DOMAIN align', ~ InWork(work', s), NEW t \in Successors(ir.states[s].trans)
      PROVE  t \in DOMAIN align' /\ align'[t] \in {ExitOf(align', s), Conflict}
  <2>1. s \in DOMAIN align /\ align'[s] = align[s] /\ ~ InWork(Front(work), s)
    BY <1>4, <1>8
  <2>2. ExitOf(align', s) = ExitOf(align, s)
    BY <2>1 DEF ExitOf
  <2>3. CASE s = Top
    <3>1. PICK j \in 1 .. Len(ts) : ts[j].kind = "state" /\ ts[j].to = t
      BY <1>3, <1>8, <2>3 DEF Lists
    <3>2. Exit = ExitOf(align, s)
      BY <1>1, <2>3, TopFacts
    <3> QED BY <1>4, <2>2, <3>1, <3>2
  <2>4. CASE s # Top
    <3>1. ~ InWork(work, s)
      BY <1>1, <2>1, <2>4, TopFacts
    <3>2. t \in DOMAIN align /\ align[t] \in {ExitOf(align, s), Conflict}
      BY <1>8, <2>1, <3>1 DEF WorklistInv, Passed
    <3> QED BY <1>4, <2>2, <3>2
  <2> QED BY <2>3, <2>4
<1>9. \A s \in DOMAIN align' :
        InWork(work, s)' \/ \A t \in Successors(ir.states[s].trans)' : Passed(align, s, t)'
  <2> SUFFICES ASSUME NEW s \in DOMAIN align', ~ InWork(work, s)', NEW t \in Successors(ir.states[s].trans)'
               PROVE  Passed(align, s, t)'
    OBVIOUS
  <2>1. ~ InWork(work', s)
    BY DEF InWork
  <2>2. t \in Successors(ir.states[s].trans)
    BY <1>1
  <2>3. t \in DOMAIN align' /\ align'[t] \in {ExitOf(align', s), Conflict}
    BY <1>8, <2>1, <2>2
  <2>4. ExitOf(align, s)' = ExitOf(align', s)
    BY <1>1, SameGraph DEF ExitOf
  <2> QED BY <2>3, <2>4 DEF Passed
<1> QED BY <1>1, <1>5, <1>6, <1>7, <1>9 DEF WorklistInv

LEMMA WorklistStart ==
  ASSUME ir \in Irs, AInit
  PROVE  WorklistInv
<1>1. ir.start \in DOMAIN ir.states
  BY GraphFacts DEF Connected
<1>2. /\ DOMAIN align = {ir.start} /\ align[ir.start] = 0 /\ work = <<ir.start>>
      /\ work \in Seq(DOMAIN align) /\ Len(work) = 1 /\ work[1] = ir.start
  BY DEF AInit
<1>3. 0 \in Residue /\ 0 # Conflict
  BY ByteBitsAssumption DEF Residue, Conflict
<1>4. AlignTyped(align, work)
  <2>1. align \in [DOMAIN align -> Residue \cup {Conflict}]
    BY <1>2, <1>3 DEF AInit
  <2> QED BY <1>1, <1>2, <2>1 DEF AlignTyped
<1>5. Founded(align)
  BY <1>2, <1>3, EnteredStart DEF Founded
<1>6. \A s \in DOMAIN align : InWork(work, s)
  BY <1>2 DEF InWork
<1> QED BY <1>2, <1>4, <1>5, <1>6 DEF WorklistInv

LEMMA WorklistStays ==
  ASSUME WorklistInv, UNCHANGED <<ir, align, work>>
  PROVE  WorklistInv'
<1>1. AlignTyped(align, work)'
  BY DEF WorklistInv, AlignTyped
<1>2. Founded(align)'
  BY SameGraph DEF WorklistInv, Founded
<1>3. \A s, t : Passed(align, s, t)' <=> Passed(align, s, t)
  BY SameGraph DEF Passed, ExitOf
<1>4. \A s : InWork(work, s)' <=> InWork(work, s)
  BY DEF InWork
<1> QED BY <1>1, <1>2, <1>3, <1>4 DEF WorklistInv

\* With nothing left to do, the entries the map allows for are closed: no path
\* enters a state otherwise.
LEMMA MapCovers ==
  ASSUME WorklistInv, work = <<>>
  PROVE  \A s, a : EnteredAt(s, a) => s \in DOMAIN align /\ align[s] \in {a, Conflict}
<1> DEFINE C == {p \in Entries : p[1] \in DOMAIN align /\ align[p[1]] \in {p[2], Conflict}}
<1>1. ir \in Irs /\ DOMAIN align \subseteq DOMAIN ir.states
  BY DEF WorklistInv, AlignTyped
<1>2. ASSUME NEW s \in DOMAIN align, NEW t \in Successors(ir.states[s].trans)
      PROVE  t \in DOMAIN align /\ align[t] \in {ExitOf(align, s), Conflict}
  <2>1. ~ InWork(work, s)
    BY DEF InWork
  <2> QED BY <1>2, <2>1 DEF WorklistInv, Passed
<1>3. <<ir.start, 0>> \in C
  <2>1. <<ir.start, 0>> \in Entries
    <3>1. 0 \in Residue /\ ir.start \in DOMAIN ir.states
      BY <1>1, GraphFacts, ByteBitsAssumption DEF Connected, Residue
    <3> QED BY <3>1 DEF Entries
  <2> QED BY <2>1 DEF WorklistInv
<1>4. ASSUME NEW p \in C
      PROVE  Onward(p) \subseteq C
  <2> DEFINE r == (p[2] + Delta(p[1])) % ByteBits
  <2>1. Onward(p) \in SUBSET Entries
    BY <1>1, OnwardType
  <2>2. p[1] \in DOMAIN align /\ align[p[1]] \in {p[2], Conflict}
    OBVIOUS
  <2>3. ExitOf(align, p[1]) \in {r, Conflict}
    BY <2>2 DEF ExitOf
  <2>4. Onward(p) = {<<t, r>> : t \in Successors(ir.states[p[1]].trans)}
    BY DEF Onward
  <2> HIDE DEF r
  <2>5. ASSUME NEW t \in Successors(ir.states[p[1]].trans)
        PROVE  <<t, r>> \in C
    <3>1. t \in DOMAIN align /\ align[t] \in {r, Conflict}
      BY <1>2, <2>2, <2>3
    <3>2. <<t, r>> \in Entries
      BY <2>1, <2>4
    <3> QED BY <3>1, <3>2
  <2> HIDE DEF C
  <2> QED BY <2>4, <2>5
<1>5. EntryClosed(C)
  <2>1. C \in SUBSET Entries
    OBVIOUS
  <2> HIDE DEF C
  <2> QED BY <1>3, <1>4, <2>1 DEF EntryClosed
<1>6. ASSUME NEW s, NEW a, EnteredAt(s, a)
      PROVE  s \in DOMAIN align /\ align[s] \in {a, Conflict}
  <2>1. <<s, a>> \in C
    BY <1>5, <1>6 DEF EnteredAt
  <2> QED BY <2>1
<1> QED BY <1>6

\* What the worklist has found is what the paths make of it.
LEMMA MapIsMeet ==
  ASSUME WorklistInv, work = <<>>
  PROVE  align = Alignment
<1>1. ir \in Irs /\ AlignTyped(align, work) /\ Founded(align)
  BY DEF WorklistInv
<1>2. PICK R : /\ EntryClosed(R)
               /\ \A C : EntryClosed(C) => R \subseteq C
               /\ DOMAIN Residues = DOMAIN ir.states
               /\ \A s \in DOMAIN ir.states : Residues[s] = {a \in Residue : <<s, a>> \in R}
  BY <1>1, ResiduesFacts
<1>3. \A s, a : <<s, a>> \in R <=> EnteredAt(s, a)
  BY <1>2 DEF EnteredAt
<1>4. ASSUME NEW s \in DOMAIN ir.states
      PROVE  Residues[s] = {a \in Residue : EnteredAt(s, a)}
  BY <1>2, <1>3
<1>5. IsFiniteSet(Residue)
  <2>1. 0 \in Int /\ ByteBits - 1 \in Int
    BY ByteBitsAssumption
  <2> QED BY <2>1, FS_Interval DEF Residue
<1> DEFINE meet(s) == IF Cardinality(Residues[s]) = 1 THEN CHOOSE a \in Residues[s] : TRUE ELSE Conflict
           D == {u \in DOMAIN ir.states : Residues[u] # {}}
<1>6. Alignment = [s \in D |-> meet(s)]
  BY DEF Alignment
<1> HIDE DEF D
<1>7. ASSUME NEW s \in DOMAIN align
      PROVE  Residues[s] # {} /\ meet(s) = align[s]
  <2>1. s \in DOMAIN ir.states /\ align[s] \in Residue \cup {Conflict}
    BY <1>1 DEF AlignTyped
  <2>2. CASE align[s] = Conflict
    <3>1. PICK a \in Residue, b \in Residue : a # b /\ EnteredAt(s, a) /\ EnteredAt(s, b)
      BY <1>1, <2>2 DEF Founded
    <3>2. a \in Residues[s] /\ b \in Residues[s]
      BY <1>4, <2>1, <3>1
    <3>3. IsFiniteSet(Residues[s])
      <4>1. Residues[s] \in SUBSET Residue
        BY <1>4, <2>1
      <4> QED BY <1>5, <4>1, FS_Subset
    <3>4. Cardinality(Residues[s]) # 1
      <4> DEFINE Q == Residues[s]
      <4> HIDE DEF Q
      <4>1. IsFiniteSet(Q) /\ a \in Q /\ b \in Q
        BY <3>2, <3>3 DEF Q
      <4>2. Cardinality(Q) # 1
        BY <3>1, <4>1, FS_Singleton
      <4> QED BY <4>2 DEF Q
    <3> QED BY <2>2, <3>2, <3>4
  <2>3. CASE align[s] # Conflict
    <3>1. EnteredAt(s, align[s]) /\ align[s] \in Residue
      BY <1>1, <2>1, <2>3 DEF Founded
    <3>2. \A a : EnteredAt(s, a) => a = align[s]
      BY <2>3, MapCovers
    <3>3. Residues[s] = {align[s]}
      BY <1>4, <2>1, <3>1, <3>2
    <3>4. Cardinality({align[s]}) = 1 /\ (CHOOSE a \in {align[s]} : TRUE) = align[s]
      BY FS_Singleton
    <3> QED BY <3>3, <3>4
  <2> QED BY <2>2, <2>3
<1>8. DOMAIN align = D
  <2>1. \A s \in DOMAIN align : s \in D
    BY <1>1, <1>7 DEF AlignTyped, D
  <2>2. ASSUME NEW s \in D
        PROVE  s \in DOMAIN align
    <3>1. PICK a : EnteredAt(s, a)
      BY <1>4 DEF D
    <3> QED BY <3>1, MapCovers
  <2> QED BY <2>1, <2>2
<1>9. align = [s \in DOMAIN align |-> align[s]]
  BY <1>1 DEF AlignTyped
<1> HIDE DEF meet
<1> QED BY <1>6, <1>7, <1>8, <1>9

(***************************************************************************)
(* The worklist among the other parts: no consumer changes the             *)
(* description it reads.                                                   *)
(***************************************************************************)
LEMMA StepsKeepIr == Step => ir' = ir
<1> SUFFICES ASSUME Step
             PROVE  ir' = ir
  OBVIOUS
<1>1. CASE Enter
  BY <1>1 DEF Enter, EnterState, DepthExceeded, UnknownState
<1>2. CASE ExtractHeader
  BY <1>2 DEF ExtractHeader, BeginHeader, UnknownHeaderType, EndHeader
<1>3. CASE ReadField
  BY <1>3 DEF ReadField, ReadBits, ReadBitsOutOfBounds, ReadBytes, ReadBytesOutOfBounds,
              ReadBytesBails, FieldWithoutWidth, FieldOutOfBounds
<1>4. CASE TakeTransition
  BY <1>4 DEF TakeTransition, Direct, TakeArm, TakeDefault, NoMatchingArm, TransitionBails, Transit
<1> QED BY <1>1, <1>2, <1>3, <1>4 DEF Step

LEMMA P4KeepsIr == P4Step => ir' = ir
<1>1. ASSUME NEW target, NEW omitted, GoTo(target, omitted)
      PROVE  ir' = ir
  BY <1>1 DEF GoTo, Stop
<1> QED BY <1>1 DEF P4Step, EnterP4, ExtractSegment, StackOverflows, VarbitOverflows,
                    ExtractTooShort, TransitionP4, Stop

LEMMA LuaKeepsIr == LuaStep => ir' = ir
<1>1. ASSUME NEW outcome, NEW reason, NEW inst, NEW field, Verdict(outcome, reason, inst, field)
      PROVE  ir' = ir
  BY <1>1 DEF Verdict
<1>2. ASSUME NEW target, Leave(target)
      PROVE  ir' = ir
  BY <1>1, <1>2 DEF Leave
<1> QED BY <1>1, <1>2 DEF LuaStep, Call, CallTooDeep, AddField, FieldOutside, LengthRaises,
                          Elseif, Else, Raise

LEMMA WorklistInvariant == BSpec => []WorklistInv
<1>1. BInit => WorklistInv
  BY WorklistStart DEF BInit, LuaInit
<1>2. WorklistInv /\ [BNext]_bvars => WorklistInv'
  <2> SUFFICES ASSUME WorklistInv, [BNext]_bvars
               PROVE  WorklistInv'
    OBVIOUS
  <2>1. CASE Generate
    BY <2>1, WorklistStep DEF Generate
  <2>2. CASE SendFrame
    BY <2>2, WorklistStays DEF SendFrame, LuaReceives
  <2>3. CASE Reference
    <3>1. ir' = ir
      BY <2>3, StepsKeepIr DEF Reference
    <3> QED BY <2>3, <3>1, WorklistStays DEF Reference
  <2>4. CASE Observe
    BY <2>4, WorklistStays, P4KeepsIr DEF Observe
  <2>5. CASE Dissect
    BY <2>5, WorklistStays, LuaKeepsIr DEF Dissect, LuaStep
  <2>6. CASE BDone \/ UNCHANGED bvars
    BY <2>6, WorklistStays DEF BDone, bvars
  <2> QED BY <2>1, <2>2, <2>3, <2>4, <2>5, <2>6 DEF BNext
<1> QED BY <1>1, <1>2, PTL DEF BSpec

\* entry_alignments computes, whatever the order in which states are taken
\* from the worklist, exactly the residues the paths of the graph agree on:
\* for every description whose states exist, however many, and however many bits
\* a byte has.
THEOREM AlignmentComputed == BSpec => []AlignmentExact
<1>1. WorklistInv => AlignmentExact
  BY MapIsMeet DEF AlignmentExact
<1> QED BY <1>1, WorklistInvariant, PTL

(***************************************************************************)
(* The caps.  That no body is misaligned needs what the interpreter has    *)
(* taken of the state it is in: the residue of its cursor is that of the   *)
(* state, moved by the fields taken so far.                                *)
(***************************************************************************)

\* What validate checks of types and extractions (validate.rs:23-192).
Unbroken ==
  /\ \A s \in DOMAIN ir.states : \A k \in DOMAIN ir.states[s].extracts :
       ir.states[s].extracts[k].type \in DOMAIN ir.types
  /\ \A t \in DOMAIN ir.types :
       /\ \A k \in DOMAIN ir.types[t] : ir.types[t][k].width # "none"
       /\ \A j, k \in DOMAIN ir.types[t] : ir.types[t][j].name = ir.types[t][k].name => j = k

\* A length and a key have a value when they are asked for (NeverBails of LoadAndRunProofs is
\* about that).
ExprsEvaluate ==
  /\ Reading("bytes") => LenBytes \in Word
  /\ Extracted /\ Trans.kind = "select" => KeysResolve(ir, Trans, env)

\* Of the caps, those the interpreter's errors depend on.
CapsHold ==
  /\ \A s \in DOMAIN ir.states : \A k \in DOMAIN FieldsOf(s) :
       FieldsOf(s)[k].field.width # "bits" =>
         FieldAlignment(s, FieldsOf(s)[k].instance, FieldsOf(s)[k].field.name) = 0
  /\ \A s \in DOMAIN ir.states : LET t == ir.states[s].trans IN
       /\ t.kind # "none"
       /\ \A i \in DOMAIN t.arms : t.arms[i].next.kind # "absent"
       /\ \A u \in Targets(t) : u.kind # "empty"

LEMMA CapsLookedAt == GeneratesLua => CapsHold
BY DEF GeneratesLua, CapsHold

LEMMA CapsStay ==
  UNCHANGED <<ir, align>> => (CapsHold' <=> CapsHold) /\ (OncePerState' <=> OncePerState)
BY DEF CapsHold, OncePerState, FieldsOf, FieldAlignment

\* The field was taken in an earlier header of the state, or earlier in the one under construction.
TakenEarlier(f) ==
  \/ \E i \in 1 .. ex : f.instance = Instance(Extracts[i])
  \/ /\ pc = "field" /\ f.instance = parsed.instance
     /\ \E m \in 1 .. Len(parsed.fields) : f.field = Fields[m]

\* The first k fields of the state are taken, and the cursor is where they end.
Taken(k) ==
  /\ k \in 0 .. Len(FieldsOf(current))
  /\ Unread = SubSeq(FieldsOf(current), k + 1, Len(FieldsOf(current)))
  /\ \/ align[current] = Conflict
     \/ cursor % ByteBits = (align[current] + BitsBefore(FieldsOf(current), k + 1)) % ByteBits
  /\ \A j \in 1 .. k : TakenEarlier(FieldsOf(current)[j])

VisitInv ==
  /\ TypeOK /\ PathInv /\ work = <<>>
  /\ pc # "done" => current \in DOMAIN align
  /\ pc = "enter" => align[current] \in {Conflict, cursor % ByteBits}
  /\ pc \in {"extract", "field"} => \E k : Taken(k)
  /\ pc = "field" => parsed.instance = Instance(Extracts[ex + 1])
  /\ CapsHold /\ OncePerState => ~ Bailed

\* The interpreter before it is given a frame.
Fresh ==
  /\ pc = "enter" /\ current = ir.start /\ depth = 0 /\ ex = 0
  /\ parsed = NoHeader /\ cursor = 0 /\ env = <<>> /\ headers = <<>> /\ trace = <<>>
  /\ result = Running

CapsInv ==
  /\ WorklistInv
  /\ IF p4pc = "idle" THEN luapc = "idle" /\ Fresh ELSE VisitInv
  /\ luapc \notin {"idle", "refused"} => CapsHold

LEMMA VisitStays ==
  ASSUME VisitInv, UNCHANGED <<ir, refvars, align, work>>
  PROVE  VisitInv'
<1>1. TypeOK' /\ PathInv'
  BY TypeStutter, PathStutter DEF VisitInv, refvars, vars
<1>2. Extracts' = Extracts /\ Fields' = Fields /\ Unread' = Unread
  BY DEF Extracts, Fields, Unread, OpenHeader, refvars
<1>3. \A s : FieldsOf(s)' = FieldsOf(s)
  BY DEF FieldsOf
<1>4. \A f : TakenEarlier(f)' <=> TakenEarlier(f)
  BY <1>2 DEF TakenEarlier, refvars
<1>5. \A k : Taken(k) => Taken(k)'
  BY <1>2, <1>3, <1>4 DEF Taken, refvars
<1>6. CapsHold' /\ OncePerState' => ~ Bailed'
  BY CapsStay DEF VisitInv, Bailed, refvars
<1> QED BY <1>1, <1>2, <1>5, <1>6 DEF VisitInv, refvars

\* A frame is sent when the worklist is done: the start state is entered where the map says.
LEMMA VisitBegins ==
  ASSUME WorklistInv, Fresh, SendFrame
  PROVE  VisitInv'
<1>1. /\ ir' = ir /\ align' = align /\ work' = <<>> /\ packet' \in Packets /\ Fresh'
      /\ pc' = "enter" /\ current' = ir.start /\ cursor' = 0 /\ result' = Running
  BY DEF SendFrame, LuaReceives, Fresh
<1>2. Init'
  BY <1>1 DEF Init, Fresh, WorklistInv
<1>3. TypeOK' /\ PathInv'
  BY <1>2, TypeInit, PathInit, PTL
<1>4. ir.start \in DOMAIN align /\ align[ir.start] \in {0, Conflict}
  BY DEF WorklistInv
<1>5. 0 % ByteBits = 0
  BY ByteBitsAssumption
<1>6. ~ Bailed'
  BY <1>1 DEF Bailed, Running
<1> QED BY <1>1, <1>3, <1>4, <1>5, <1>6 DEF VisitInv

\* A run that has returned has nothing left to take.
LEMMA VisitEnds ==
  ASSUME TypeOK', PathInv', work' = <<>>, pc' = "done", UNCHANGED <<ir, align>>,
         CapsHold /\ OncePerState => result'.outcome # "err"
  PROVE  VisitInv'
BY CapsStay DEF VisitInv, Bailed

\* While the run goes on it has not failed.
LEMMA VisitGoesOn ==
  ASSUME TypeOK, PathInv, pc # "done", result' = result
  PROVE  ~ Bailed'
BY DEF PathInv, Bailed, Running

\* What every step of a visit starts from.
LEMMA VisitFacts ==
  ASSUME VisitInv, WorklistInv, pc # "done"
  PROVE  /\ TypeOK /\ PathInv /\ work = <<>> /\ IsIr(ir)
         /\ current \in DOMAIN align /\ current \in DOMAIN ir.states
         /\ FieldsOf(current) \in Seq(WireField)
         /\ align[current] \in Residue \cup {Conflict}
         /\ cursor \in Int
<1>1. TypeOK /\ PathInv /\ work = <<>> /\ current \in DOMAIN align
  BY DEF VisitInv
<1>2. current \in DOMAIN ir.states /\ align[current] \in Residue \cup {Conflict}
  BY <1>1 DEF WorklistInv, AlignTyped
<1>3. cursor \in Int
  BY <1>1, IrFacts DEF TypeOK
<1> QED BY <1>1, <1>2, <1>3, GraphFacts DEF WorklistInv

LEMMA VisitEnter ==
  ASSUME VisitInv, WorklistInv, Enter, TypeOK', PathInv', UNCHANGED <<align, work>>
  PROVE  VisitInv'
<1> DEFINE fs == FieldsOf(current)
<1>1. pc = "enter" /\ ir' = ir
  BY DEF Enter, EnterState, DepthExceeded, UnknownState
<1>2. /\ TypeOK /\ PathInv /\ work = <<>> /\ current \in DOMAIN align /\ current \in DOMAIN ir.states
      /\ fs \in Seq(WireField) /\ align[current] \in Residue \cup {Conflict} /\ cursor \in Int
      /\ align[current] \in {Conflict, cursor % ByteBits}
  BY <1>1, VisitFacts DEF VisitInv
<1>3. CASE EnterState
  <2>1. /\ pc' = "extract" /\ current' = current /\ cursor' = cursor /\ result' = result /\ ex' = 0
    BY <1>3 DEF EnterState
  <2>2. fs' = fs /\ Unread' = fs
    BY <1>1, <1>2, <1>3, <2>1, UnreadOnEntry DEF FieldsOf, Extracts
  <2> HIDE DEF fs
  <2>3. SubSeq(fs, 0 + 1, Len(fs)) = fs /\ 0 \in 0 .. Len(fs) /\ 0 + 1 = 1
    BY <1>2, SubSeqFull
  <2>4. \/ align[current] = Conflict
        \/ cursor % ByteBits = (align[current] + BitsBefore(fs, 0 + 1)) % ByteBits
    <3>1. BitsBefore(fs, 0 + 1) = 0
      BY <1>2, <2>3, BitsBeforeFacts
    <3>2. ((cursor % ByteBits) + 0) % ByteBits = (cursor + 0) % ByteBits /\ cursor + 0 = cursor
      BY <1>2, ModAdds
    <3> QED BY <1>2, <3>1, <3>2
  <2>5. Taken(0)'
    BY <1>1, <2>1, <2>2, <2>3, <2>4 DEF Taken, fs
  <2>6. ~ Bailed'
    BY <1>1, <1>2, <2>1, VisitGoesOn
  <2> QED BY <1>2, <2>1, <2>5, <2>6 DEF VisitInv
<1>4. CASE DepthExceeded
  <2>1. pc' = "done" /\ result'.outcome # "err"
    BY <1>4 DEF DepthExceeded, Reject
  <2> QED BY <1>1, <1>2, <2>1, VisitEnds
<1>5. ~ UnknownState
  BY <1>2 DEF UnknownState, KnownState
<1> QED BY <1>3, <1>4, <1>5 DEF Enter

LEMMA VisitHeader ==
  ASSUME VisitInv, WorklistInv, Unbroken, ExtractHeader, TypeOK', PathInv', UNCHANGED <<align, work>>
  PROVE  VisitInv'
<1>1. pc \in {"extract", "field"} /\ ir' = ir
  BY DEF ExtractHeader, BeginHeader, UnknownHeaderType, EndHeader, Extracting
<1>2. /\ TypeOK /\ PathInv /\ work = <<>> /\ current \in DOMAIN align /\ current \in DOMAIN ir.states
      /\ IsIr(ir) /\ ex \in Nat
  BY <1>1, VisitFacts DEF TypeOK
<1>3. PICK k : Taken(k)
  BY <1>1 DEF VisitInv
<1>4. ASSUME UNCHANGED <<ir, current, cursor>>, Unread' = Unread,
             \A f : TakenEarlier(f) => TakenEarlier(f)'
      PROVE  Taken(k)'
  BY <1>3, <1>4 DEF Taken, FieldsOf
<1>5. CASE BeginHeader
  <2>1. /\ pc = "extract" /\ pc' = "field" /\ Unread' = Unread
        /\ parsed'.instance = Instance(Extracts[ex + 1])
        /\ UNCHANGED <<ir, current, cursor, ex, result>> /\ Extracts' = Extracts
    BY <1>2, <1>5, UnreadOnBegin DEF BeginHeader, Extracting, Extracts
  <2>2. \A f : TakenEarlier(f) => TakenEarlier(f)'
    BY <2>1 DEF TakenEarlier
  <2>3. ~ Bailed'
    BY <1>1, <1>2, <2>1, VisitGoesOn
  <2> QED BY <1>2, <1>4, <2>1, <2>2, <2>3 DEF VisitInv
<1>6. CASE EndHeader
  <2>1. /\ pc = "field" /\ pc' = "extract" /\ Unread' = Unread /\ ex' = ex + 1
        /\ UNCHANGED <<ir, current, cursor, result>> /\ Extracts' = Extracts
    BY <1>2, <1>6, UnreadOnEnd DEF EndHeader, Extracts
  <2>2. parsed.instance = Instance(Extracts[ex + 1])
    BY <2>1 DEF VisitInv
  <2>3. ASSUME NEW f, TakenEarlier(f)
        PROVE  TakenEarlier(f)'
    <3>1. \A i \in 1 .. ex : i \in 1 .. ex'
      BY <1>2, <2>1
    <3>2. ex + 1 \in 1 .. ex'
      BY <1>2, <2>1
    <3>3. CASE \E i \in 1 .. ex : f.instance = Instance(Extracts[i])
      BY <2>1, <3>1, <3>3 DEF TakenEarlier
    <3>4. CASE f.instance = parsed.instance
      BY <2>1, <2>2, <3>2, <3>4 DEF TakenEarlier
    <3> QED BY <2>3, <3>3, <3>4 DEF TakenEarlier
  <2>4. ~ Bailed'
    BY <1>1, <1>2, <2>1, VisitGoesOn
  <2> QED BY <1>2, <1>4, <2>1, <2>3, <2>4 DEF VisitInv
<1>7. ~ UnknownHeaderType
  <2> SUFFICES ASSUME Extracting PROVE Extracts[ex + 1].type \in DOMAIN ir.types
    BY DEF UnknownHeaderType
  <2>1. Extracts \in Seq(Extract) /\ ex + 1 \in DOMAIN Extracts
    BY <1>1, <1>2, StateFacts DEF Extracting
  <2> QED BY <1>2, <2>1 DEF Unbroken, Extracts
<1> QED BY <1>5, <1>6, <1>7 DEF ExtractHeader

\* Whole bytes leave the residue of a cursor alone.
LEMMA ModWhole ==
  ASSUME NEW x \in Int, NEW l \in Int
  PROVE  (x + l * ByteBits) % ByteBits = x % ByteBits
<1> DEFINE q == x \div ByteBits
           r == x % ByteBits
<1>1. q \in Int /\ r \in Residue /\ r \in Int /\ x = ByteBits * q + r /\ ByteBits \in Nat
  BY ModFacts, ByteBitsAssumption DEF Residue
<1> HIDE DEF q, r
<1>2. ByteBits * (q + l) = ByteBits * q + ByteBits * l /\ ByteBits * l = l * ByteBits
  BY <1>1
<1>3. x + l * ByteBits = ByteBits * (q + l) + r
  BY <1>1, <1>2
<1>4. (ByteBits * (q + l) + r) % ByteBits = r
  BY <1>1, ModIs
<1> QED BY <1>3, <1>4 DEF r

\* What is left of a sequence begins with the next of its elements.
LEMMA HeadOfRest ==
  ASSUME NEW fs \in Seq(WireField), NEW k \in 0 .. Len(fs), SubSeq(fs, k + 1, Len(fs)) # <<>>
  PROVE  /\ k + 1 \in 1 .. Len(fs)
         /\ Head(SubSeq(fs, k + 1, Len(fs))) = fs[k + 1]
         /\ Tail(SubSeq(fs, k + 1, Len(fs))) = SubSeq(fs, (k + 1) + 1, Len(fs))
<1> DEFINE n == Len(fs)
           rest == SubSeq(fs, k + 1, n)
           later == SubSeq(fs, (k + 1) + 1, n)
<1>1. n \in Nat /\ k \in Nat /\ k <= n
  OBVIOUS
<1>2. k < n
  BY <1>1, SubSeqEmpty
<1>3. rest \in Seq(WireField) /\ Len(rest) = n - k /\ \A i \in 1 .. n - k : rest[i] = fs[k + i]
  <2>1. \A i \in k + 1 .. n : fs[i] \in WireField
    BY <1>1
  <2>2. /\ rest \in Seq(WireField) /\ Len(rest) = (IF k + 1 <= n THEN n - (k + 1) + 1 ELSE 0)
        /\ \A i \in 1 .. n - (k + 1) + 1 : rest[i] = fs[(k + 1) + i - 1]
    BY <1>1, <2>1, SubSeqProperties
  <2>3. k + 1 <= n /\ n - (k + 1) + 1 = n - k
    BY <1>1, <1>2
  <2>4. Len(rest) = n - k
    BY <2>2, <2>3
  <2>5. ASSUME NEW i \in 1 .. n - k
        PROVE  rest[i] = fs[k + i]
    <3>1. i \in 1 .. n - (k + 1) + 1 /\ (k + 1) + i - 1 = k + i
      BY <1>1, <2>3
    <3> HIDE DEF rest
    <3> QED BY <2>2, <3>1
  <2> HIDE DEF rest
  <2> QED BY <2>2, <2>4, <2>5
<1>4. later \in Seq(WireField) /\ Len(later) = n - (k + 1)
      /\ \A i \in 1 .. n - (k + 1) : later[i] = fs[(k + 1) + i]
  <2>1. \A i \in (k + 1) + 1 .. n : fs[i] \in WireField
    BY <1>1
  <2>2. /\ later \in Seq(WireField) /\ Len(later) = (IF (k + 1) + 1 <= n THEN n - ((k + 1) + 1) + 1 ELSE 0)
        /\ \A i \in 1 .. n - ((k + 1) + 1) + 1 : later[i] = fs[((k + 1) + 1) + i - 1]
    BY <1>1, <2>1, SubSeqProperties
  <2>3. n - ((k + 1) + 1) + 1 = n - (k + 1)
    BY <1>1
  <2>4. Len(later) = n - (k + 1)
    <3>1. CASE (k + 1) + 1 <= n
      BY <2>2, <2>3, <3>1
    <3>2. CASE ~ (k + 1) + 1 <= n
      <4>1. n - (k + 1) = 0
        BY <1>1, <1>2, <3>2
      <4> HIDE DEF later
      <4> QED BY <2>2, <3>2, <4>1
    <3> QED BY <3>1, <3>2
  <2>5. ASSUME NEW i \in 1 .. n - (k + 1)
        PROVE  later[i] = fs[(k + 1) + i]
    <3>1. i \in 1 .. n - ((k + 1) + 1) + 1 /\ ((k + 1) + 1) + i - 1 = (k + 1) + i
      BY <1>1, <2>3
    <3> HIDE DEF later
    <3> QED BY <2>2, <3>1
  <2> HIDE DEF later
  <2> QED BY <2>2, <2>4, <2>5
<1> HIDE DEF rest, later
<1>5. rest # <<>> /\ Head(rest) = rest[1] /\ rest[1] = fs[k + 1]
  BY <1>1, <1>2, <1>3
<1>6. /\ Tail(rest) \in Seq(WireField) /\ Len(Tail(rest)) = n - (k + 1)
      /\ \A i \in 1 .. n - (k + 1) : Tail(rest)[i] = rest[i + 1]
  BY <1>1, <1>2, <1>3, <1>5, HeadTailProperties
<1>7. \A i \in 1 .. n - (k + 1) : rest[i + 1] = later[i]
  <2> SUFFICES ASSUME NEW i \in 1 .. n - (k + 1) PROVE rest[i + 1] = later[i]
    OBVIOUS
  <2>1. i + 1 \in 1 .. n - k /\ k + (i + 1) = (k + 1) + i
    BY <1>1
  <2> QED BY <1>3, <1>4, <2>1
<1>8. Tail(rest) = later
  BY <1>4, <1>6, <1>7, SeqEqual
<1> QED BY <1>1, <1>2, <1>5, <1>8 DEF rest, later

LEMMA RestEmpty ==
  ASSUME NEW fs \in Seq(WireField), NEW k \in 0 .. Len(fs), SubSeq(fs, k + 1, Len(fs)) = <<>>
  PROVE  k = Len(fs)
<1> DEFINE n == Len(fs)
<1>1. n \in Nat /\ k \in Nat /\ k <= n
  OBVIOUS
<1>2. ASSUME k < n
      PROVE  FALSE
  <2>1. \A i \in k + 1 .. n : fs[i] \in WireField
    BY <1>1
  <2>2. Len(SubSeq(fs, k + 1, n)) = n - (k + 1) + 1
    BY <1>1, <1>2, <2>1, SubSeqProperties
  <2>3. n - (k + 1) + 1 > 0
    BY <1>1, <1>2
  <2>4. Len(SubSeq(fs, k + 1, n)) = 0
    OBVIOUS
  <2> QED BY <2>2, <2>3, <2>4
<1> QED BY <1>1, <1>2

\* The field to read next is the next of its state.
LEMMA NextOfVisit ==
  ASSUME VisitInv, WorklistInv, pc = "field", Len(parsed.fields) < Len(Fields), NEW k, Taken(k)
  PROVE  /\ k + 1 \in 1 .. Len(FieldsOf(current))
         /\ FieldsOf(current)[k + 1] = [instance |-> parsed.instance, field |-> NextField]
         /\ Tail(Unread) = SubSeq(FieldsOf(current), (k + 1) + 1, Len(FieldsOf(current)))
<1> DEFINE fs == FieldsOf(current)
<1>1. TypeOK /\ fs \in Seq(WireField)
  BY VisitFacts
<1>2. Unread # <<>> /\ Head(Unread) = [instance |-> parsed.instance, field |-> NextField]
  BY <1>1, UnreadInField
<1>3. k \in 0 .. Len(fs) /\ Unread = SubSeq(fs, k + 1, Len(fs))
  BY DEF Taken
<1> HIDE DEF fs
<1> QED BY <1>1, <1>2, <1>3, HeadOfRest DEF fs

LEMMA VisitTakes ==
  ASSUME VisitInv, WorklistInv, pc = "field", Len(parsed.fields) < Len(Fields),
         NEW n \in Nat, cursor + n <= Avail, NEW fixed \in BOOLEAN, TakeField(n, fixed),
         (cursor + n) % ByteBits = (cursor + Fixed(NextField)) % ByteBits,
         UNCHANGED <<ir, packet, pc, current, depth, ex, result, align, work>>,
         TypeOK', PathInv'
  PROVE  VisitInv'
<1> DEFINE fs == FieldsOf(current)
           f == Fixed(NextField)
<1>1. /\ TypeOK /\ PathInv /\ work = <<>> /\ current \in DOMAIN align /\ fs \in Seq(WireField)
      /\ align[current] \in Residue \cup {Conflict} /\ cursor \in Int
  BY VisitFacts
<1>2. PICK k : Taken(k)
  BY DEF VisitInv
<1>3. /\ k + 1 \in 1 .. Len(fs) /\ fs[k + 1] = [instance |-> parsed.instance, field |-> NextField]
      /\ Tail(Unread) = SubSeq(fs, (k + 1) + 1, Len(fs)) /\ k \in Nat
  <2>1. Len(fs) \in Nat
    BY <1>1
  <2>2. k \in Nat
    BY <1>2, <2>1 DEF Taken
  <2> QED BY <1>2, <2>2, NextOfVisit
<1>4. /\ parsed'.instance = parsed.instance /\ Len(parsed'.fields) = Len(parsed.fields) + 1
      /\ Fields' = Fields /\ Extracts' = Extracts /\ Len(parsed.fields) \in Nat
      /\ Unread' = Tail(Unread) /\ fs' = fs /\ cursor' = cursor + n
  <2>1. parsed'.type = parsed.type /\ Len(parsed'.fields) = Len(parsed.fields) + 1
    BY <1>1, TakeFieldFacts
  <2>2. parsed'.instance = parsed.instance
    BY <1>1 DEF TakeField, TypeOK, ParsedHeader
  <2>3. Len(parsed.fields) \in Nat
    BY <1>1, FieldFacts
  <2>4. Unread' = Tail(Unread)
    BY <1>1, TakenOff
  <2> QED BY <2>1, <2>2, <2>3, <2>4 DEF Fields, Extracts, FieldsOf, TakeField
<1>5. f \in Int
  BY <1>1, FieldFacts DEF Field, Fixed
<1> HIDE DEF fs, f
<1>6. BitsBefore(fs, (k + 1) + 1) = BitsBefore(fs, k + 1) + f /\ BitsBefore(fs, k + 1) \in Int
  <2>1. Fixed(fs[k + 1].field) = f
    BY <1>3 DEF f
  <2>2. k + 1 \in 1 .. Len(fs) + 1
    BY <1>1, <1>3
  <2> QED BY <1>1, <1>3, <2>1, <2>2, BitsBeforeFacts
<1>7. ASSUME align[current] # Conflict
      PROVE  (cursor + n) % ByteBits = (align[current] + BitsBefore(fs, (k + 1) + 1)) % ByteBits
  <2> DEFINE a == align[current]
             b == BitsBefore(fs, k + 1)
  <2>1. a \in Int /\ b \in Int /\ cursor % ByteBits = (a + b) % ByteBits
    BY <1>1, <1>2, <1>6, <1>7 DEF Taken, Residue, fs
  <2> HIDE DEF a, b
  <2>2. ((cursor % ByteBits) + f) % ByteBits = (cursor + f) % ByteBits
    BY <1>1, <1>5, ModAdds
  <2>3. (((a + b) % ByteBits) + f) % ByteBits = ((a + b) + f) % ByteBits
    BY <1>5, <2>1, ModAdds
  <2>4. (a + b) + f = a + (b + f)
    BY <1>5, <2>1
  <2>5. (cursor + n) % ByteBits = (a + (b + f)) % ByteBits
    BY <2>1, <2>2, <2>3, <2>4 DEF f
  <2> QED BY <1>6, <2>5 DEF a, b
<1>8. ASSUME NEW j \in 1 .. k + 1
      PROVE  TakenEarlier(fs[j])'
  <2>1. CASE j = k + 1
    <3>1. Len(parsed.fields) + 1 \in 1 .. Len(parsed'.fields)
      BY <1>4
    <3>2. fs[j].instance = parsed.instance /\ fs[j].field = Fields[Len(parsed.fields) + 1]
      BY <1>3, <2>1 DEF NextField
    <3> QED BY <1>4, <3>1, <3>2 DEF TakenEarlier
  <2>2. CASE j # k + 1
    <3>1. j \in 1 .. k
      BY <1>3, <2>2
    <3>2. TakenEarlier(fs[j])
      BY <1>2, <3>1 DEF Taken, fs
    <3>3. \A m \in 1 .. Len(parsed.fields) : m \in 1 .. Len(parsed'.fields)
      BY <1>4
    <3> QED BY <1>4, <3>2, <3>3 DEF TakenEarlier
  <2> QED BY <2>1, <2>2
<1>9. Taken(k + 1)'
  <2>1. k + 1 \in 0 .. Len(fs)
    BY <1>3
  <2> QED BY <1>3, <1>4, <1>7, <1>8, <2>1 DEF Taken, fs
<1>10. ~ Bailed'
  BY <1>1, VisitGoesOn
<1>11. parsed'.instance = Instance(Extracts'[ex' + 1])
  BY <1>4 DEF VisitInv
<1> QED BY <1>1, <1>9, <1>10, <1>11 DEF VisitInv

\* What the generator looked up for the field is the place the cursor has reached.
LEMMA BodyAligned ==
  ASSUME VisitInv, WorklistInv, Unbroken, CapsHold, OncePerState, Reading("bytes")
  PROVE  Aligned
<1> DEFINE fs == FieldsOf(current)
           name == NextField.name
           inst == parsed.instance
           here == {j \in DOMAIN fs : fs[j].instance = inst /\ fs[j].field.name = name}
<1>1. /\ pc = "field" /\ Len(parsed.fields) < Len(Fields) /\ NextField.width = "bytes"
      /\ TypeOK /\ current \in DOMAIN ir.states /\ fs \in Seq(WireField)
      /\ inst = Instance(Extracts[ex + 1])
  BY VisitFacts DEF Reading, VisitInv
<1>2. PICK k : Taken(k)
  BY <1>1 DEF VisitInv
<1>3. k + 1 \in DOMAIN fs /\ fs[k + 1] = [instance |-> inst, field |-> NextField] /\ k \in Nat
  <2>1. Len(fs) \in Nat /\ DOMAIN fs = 1 .. Len(fs)
    BY <1>1
  <2>2. k \in Nat
    BY <1>2, <2>1 DEF Taken
  <2> QED BY <1>1, <1>2, <2>1, <2>2, NextOfVisit
<1>4. k + 1 \in here
  BY <1>3
<1>5. ASSUME NEW j \in 1 .. k, fs[j].instance = inst, fs[j].field.name = name
      PROVE  FALSE
  <2>1. TakenEarlier(fs[j])
    BY <1>2 DEF Taken
  <2>2. ASSUME NEW i \in 1 .. ex, fs[j].instance = Instance(Extracts[i])
        PROVE  FALSE
    <3>1. ex \in Nat /\ ex < Len(Extracts) /\ Extracts \in Seq(Extract)
      BY <1>1, StateFacts DEF TypeOK
    <3>2. i \in DOMAIN Extracts /\ ex + 1 \in DOMAIN Extracts /\ i # ex + 1
      BY <3>1
    <3>3. Instance(Extracts[i]) = Instance(Extracts[ex + 1])
      BY <1>1, <1>5, <2>2
    <3> QED BY <1>1, <3>2, <3>3 DEF OncePerState, Extracts
  <2>3. ASSUME NEW m \in 1 .. Len(parsed.fields), fs[j].field = Fields[m]
        PROVE  FALSE
    <3>1. Fields \in Seq(Field) /\ Len(parsed.fields) \in Nat /\ parsed.type \in DOMAIN ir.types
      BY <1>1, FieldFacts DEF TypeOK
    <3>2. m \in DOMAIN Fields /\ Len(parsed.fields) + 1 \in DOMAIN Fields /\ m # Len(parsed.fields) + 1
      BY <1>1, <3>1
    <3>3. Fields[m].name = Fields[Len(parsed.fields) + 1].name
      BY <1>5, <2>3 DEF NextField
    <3> QED BY <3>1, <3>2, <3>3 DEF Unbroken, Fields
  <2> QED BY <2>1, <2>2, <2>3 DEF TakenEarlier
<1>6. \A j \in here : k + 1 <= j
  <2> SUFFICES ASSUME NEW j \in here, ~ k + 1 <= j PROVE FALSE
    OBVIOUS
  <2>1. j \in 1 .. Len(fs) /\ Len(fs) \in Nat
    BY <1>1
  <2>2. j \in 1 .. k
    BY <1>3, <2>1
  <2> QED BY <1>5, <2>2
<1>7. PositionOf(fs, inst, name) = k + 1
  <2>1. \A x \in here : (\A y \in here : x <= y) => x = k + 1
    <3> SUFFICES ASSUME NEW x \in here, \A y \in here : x <= y PROVE x = k + 1
      OBVIOUS
    <3>1. x <= k + 1 /\ k + 1 <= x /\ x \in Nat
      BY <1>1, <1>4, <1>6
    <3> QED BY <1>3, <3>1
  <2> HIDE DEF here
  <2>2. Min(here) = k + 1
    BY <1>4, <1>6, <2>1 DEF Min
  <2> QED BY <2>2 DEF PositionOf, here
<1>8. FieldAlignment(current, inst, name) = 0
  <2>1. fs[k + 1].field.width # "bits" /\ fs[k + 1].instance = inst /\ fs[k + 1].field.name = name
    BY <1>1, <1>3
  <2> QED BY <1>1, <1>3, <2>1 DEF CapsHold
<1>9. align[current] # Conflict /\ (align[current] + BitsBefore(fs, k + 1)) % ByteBits = 0
  <2>1. 0 # Conflict
    BY DEF Conflict
  <2> HIDE DEF inst, name
  <2> QED BY <1>7, <1>8, <2>1 DEF FieldAlignment
<1> QED BY <1>2, <1>9 DEF Taken, Aligned

LEMMA VisitRead ==
  ASSUME VisitInv, WorklistInv, Unbroken, ExprsEvaluate, ReadField, TypeOK', PathInv',
         UNCHANGED <<align, work>>
  PROVE  VisitInv'
<1>1. pc = "field" /\ Len(parsed.fields) < Len(Fields) /\ ir' = ir
  BY DEF ReadField, ReadBits, ReadBitsOutOfBounds, ReadBytes, ReadBytesOutOfBounds,
         ReadBytesBails, FieldWithoutWidth, Reading, FieldOutOfBounds
<1>2. TypeOK /\ cursor \in Int /\ NextField \in Field /\ work' = <<>>
  BY <1>1, VisitFacts, FieldFacts
<1>3. CASE ReadBits
  <2>1. NextField.n \in Nat /\ Fixed(NextField) = NextField.n
    BY <1>2, <1>3 DEF ReadBits, Reading, Field, Fixed
  <2>2. /\ cursor + NextField.n <= Avail /\ TakeField(NextField.n, TRUE)
        /\ UNCHANGED <<ir, packet, pc, current, depth, ex, result>>
    BY <1>3 DEF ReadBits
  <2> QED BY <1>1, <2>1, <2>2, VisitTakes
<1>4. CASE ReadBytes
  <2> DEFINE n == LenBytes * ByteBits
  <2>1. LenBytes \in Word /\ LenBytes \in Int /\ LenBytes \in Nat
    BY <1>4 DEF ReadBytes, Word
  <2>2. n \in Nat
    BY <2>1, ByteBitsAssumption, ProductIsNat
  <2>3. Fixed(NextField) = 0 /\ cursor + 0 = cursor
    BY <1>2, <1>4 DEF ReadBytes, Reading, Fixed
  <2>4. (cursor + n) % ByteBits = cursor % ByteBits
    BY <1>2, <2>1, ModWhole
  <2>5. /\ cursor + n <= Avail /\ TakeField(n, FALSE)
        /\ UNCHANGED <<ir, packet, pc, current, depth, ex, result>>
    BY <1>4 DEF ReadBytes
  <2> HIDE DEF n
  <2> QED BY <1>1, <2>2, <2>3, <2>4, <2>5, VisitTakes
<1>5. CASE ReadBitsOutOfBounds \/ ReadBytesOutOfBounds
  <2>1. pc' = "done" /\ result'.outcome # "err"
    BY <1>5 DEF ReadBitsOutOfBounds, ReadBytesOutOfBounds, FieldOutOfBounds, Reject
  <2> QED BY <1>1, <1>2, <2>1, VisitEnds
<1>6. CASE ReadBytesBails
  <2>1. Reading("bytes") /\ ~ Aligned /\ pc' = "done"
    BY <1>6 DEF ReadBytesBails, ExprsEvaluate, Bail
  <2>2. ~ (CapsHold /\ OncePerState)
    BY <2>1, BodyAligned
  <2> QED BY <1>1, <1>2, <2>1, <2>2, VisitEnds
<1>7. ~ FieldWithoutWidth
  <2>1. parsed.type \in DOMAIN ir.types /\ Len(parsed.fields) + 1 \in DOMAIN Fields
    BY <1>1, <1>2, FieldFacts DEF TypeOK
  <2>2. NextField.width # "none"
    BY <2>1 DEF Unbroken, Fields, NextField
  <2> QED BY <2>2 DEF FieldWithoutWidth, Reading
<1> QED BY <1>3, <1>4, <1>5, <1>6, <1>7 DEF ReadField

\* All fields are taken when the transition is: the cursor has the state's exit.
LEMMA VisitExits ==
  ASSUME VisitInv, WorklistInv, Extracted
  PROVE  ExitOf(align, current) \in {Conflict, cursor % ByteBits}
<1> DEFINE fs == FieldsOf(current)
           n == Len(fs)
           b == BitsBefore(fs, n + 1)
           a == align[current]
<1>1. /\ pc = "extract" /\ TypeOK /\ PathInv /\ current \in DOMAIN align /\ fs \in Seq(WireField)
      /\ a \in Residue \cup {Conflict}
  BY VisitFacts DEF Extracted
<1>2. PICK k : Taken(k)
  BY <1>1 DEF VisitInv
<1>3. Unread = <<>>
  BY <1>1, AtTransition
<1>4. k = n
  <2>1. k \in 0 .. Len(fs) /\ Unread = SubSeq(fs, k + 1, Len(fs))
    BY <1>2 DEF Taken
  <2> HIDE DEF fs
  <2> QED BY <1>1, <1>3, <2>1, RestEmpty
<1> SUFFICES ASSUME a # Conflict
             PROVE  (a + Delta(current)) % ByteBits = cursor % ByteBits
  BY DEF ExitOf
<1>5. cursor % ByteBits = (a + b) % ByteBits
  BY <1>2, <1>4 DEF Taken
<1>6. a \in Int /\ b \in Nat
  <2>1. n + 1 \in 1 .. n + 1
    BY <1>1
  <2> HIDE DEF fs
  <2> QED BY <1>1, <2>1, BitsBeforeFacts DEF Residue
<1>7. Delta(current) = b % ByteBits
  BY DEF Delta
<1> HIDE DEF a, b
<1>8. ((b % ByteBits) + a) % ByteBits = (b + a) % ByteBits /\ b % ByteBits \in Int
  <2>1. b \in Int
    BY <1>6
  <2>2. ((b % ByteBits) + a) % ByteBits = (b + a) % ByteBits
    BY <1>6, <2>1, ModAdds
  <2>3. b % ByteBits \in Residue /\ \A r \in Residue : r \in Int
    BY <2>1, ModFacts, ByteBitsAssumption DEF Residue
  <2> QED BY <2>2, <2>3
<1>9. (b % ByteBits) + a = a + (b % ByteBits) /\ b + a = a + b
  BY <1>6, <1>8
<1> QED BY <1>5, <1>7, <1>8, <1>9

LEMMA VisitFollows ==
  ASSUME VisitInv, WorklistInv, Extracted, TypeOK', PathInv', UNCHANGED <<align, work>>,
         NEW kind, NEW arm, NEW target \in Targets(Trans), Transit(kind, arm, target),
         target \in Target, target.kind = "absent" => ~ CapsHold
  PROVE  VisitInv'
<1>1. /\ TypeOK /\ PathInv /\ work = <<>> /\ current \in DOMAIN align /\ pc # "done"
      /\ ir' = ir /\ cursor' = cursor /\ Follow(target)
  BY VisitFacts DEF Extracted, Transit
<1>2. CASE target.kind = "state"
  <2> DEFINE t == target.to
  <2>1. pc' = "enter" /\ current' = t /\ result' = result
    BY <1>1, <1>2 DEF Follow
  <2>2. t \in Successors(ir.states[current].trans)
    BY <1>2 DEF Successors, Trans
  <2>3. ~ InWork(work, current)
    BY <1>1 DEF InWork
  <2>4. t \in DOMAIN align /\ align[t] \in {ExitOf(align, current), Conflict}
    BY <1>1, <2>2, <2>3 DEF WorklistInv, Passed
  <2>5. align[t] \in {Conflict, cursor % ByteBits}
    BY <2>4, VisitExits
  <2>6. ~ Bailed'
    BY <1>1, <2>1, VisitGoesOn
  <2> QED BY <1>1, <2>1, <2>4, <2>5, <2>6 DEF VisitInv
<1>3. CASE target.kind \in {"accept", "reject"}
  <2>1. CASE target.kind = "accept"
    BY <1>1, <2>1, VisitEnds DEF Follow, Accept, Running
  <2>2. CASE target.kind = "reject"
    BY <1>1, <2>2, VisitEnds DEF Follow, Reject
  <2> QED BY <1>3, <2>1, <2>2
<1>4. CASE target.kind \in {"empty", "absent"}
  <2>1. pc' = "done"
    BY <1>1, <1>4 DEF Follow, Bail
  <2>2. current \in DOMAIN ir.states
    BY <1>1, VisitFacts
  <2>3. ~ CapsHold
    BY <1>4, <2>2 DEF CapsHold, Trans
  <2> QED BY <1>1, <2>1, <2>3, VisitEnds
<1>5. target.kind \in {"state", "accept", "reject", "empty", "absent"}
  BY DEF Target
<1> QED BY <1>2, <1>3, <1>4, <1>5

LEMMA VisitTransition ==
  ASSUME VisitInv, WorklistInv, ExprsEvaluate, TakeTransition, TypeOK', PathInv',
         UNCHANGED <<align, work>>
  PROVE  VisitInv'
<1>1. Extracted /\ ir' = ir
  BY DEF TakeTransition, Direct, TakeArm, TakeDefault, NoMatchingArm, TransitionBails, Transit
<1>2. /\ TypeOK /\ IsIr(ir) /\ current \in DOMAIN ir.states /\ work' = <<>>
      /\ Trans.default \in Target /\ \A i \in MatchedArms : Trans.arms[i].next \in Target
  BY <1>1, VisitFacts, TargetFacts DEF Extracted
<1>3. CASE Direct
  <2>1. Trans.default \in Targets(Trans) /\ Trans.default.kind # "absent"
    BY <1>2, <1>3 DEF Direct, Targets, IsIr, Trans
  <2> QED BY <1>1, <1>2, <1>3, <2>1, VisitFollows DEF Direct
<1>4. CASE TakeArm
  <2>1. PICK i \in MatchedArms : Transit("arm", i, Trans.arms[i].next)
    BY <1>4 DEF TakeArm
  <2>2. i \in DOMAIN Trans.arms
    BY DEF MatchedArms, MatchingArms
  <2>3. Trans.arms[i].next \in Targets(Trans)
    BY <1>4, <2>2 DEF TakeArm, Targets
  <2>4. Trans.arms[i].next.kind = "absent" => ~ CapsHold
    BY <1>2, <2>2 DEF CapsHold, Trans
  <2> QED BY <1>1, <1>2, <2>1, <2>3, <2>4, VisitFollows
<1>5. CASE TakeDefault
  <2>1. Trans.default \in Targets(Trans) /\ Trans.default.kind # "absent"
    BY <1>5 DEF TakeDefault, Targets
  <2> QED BY <1>1, <1>2, <1>5, <2>1, VisitFollows DEF TakeDefault
<1>6. CASE NoMatchingArm
  <2>1. pc' = "done" /\ result'.outcome # "err"
    BY <1>6 DEF NoMatchingArm, Reject
  <2> QED BY <1>1, <1>2, <2>1, VisitEnds
<1>7. CASE TransitionBails
  <2>1. Trans.kind = "none" /\ pc' = "done" /\ align' = align
    BY <1>1, <1>7 DEF TransitionBails, ExprsEvaluate, Bail
  <2>2. ~ CapsHold
    BY <1>2, <2>1 DEF CapsHold, Trans
  <2> QED BY <1>1, <1>2, <2>1, <2>2, VisitEnds
<1> QED BY <1>3, <1>4, <1>5, <1>6, <1>7 DEF TakeTransition

(***************************************************************************)
(* The visit among the other parts.                                        *)
(***************************************************************************)
LEMMA VisitSteps ==
  ASSUME VisitInv, WorklistInv, Unbroken, ExprsEvaluate, Step, UNCHANGED <<align, work>>
  PROVE  VisitInv'
<1>1. TypeOK' /\ PathInv'
  BY TypeNext, PathNext DEF VisitInv, Next
<1> QED BY <1>1, VisitEnter, VisitHeader, VisitRead, VisitTransition DEF Step

\* BMv2 does not go back to waiting for a frame, nor does Lua.
LEMMA P4IsSent == P4Step /\ p4pc # "idle" => p4pc' # "idle"
<1>1. ASSUME NEW target, NEW omitted, GoTo(target, omitted)
      PROVE  p4pc' # "idle"
  BY <1>1 DEF GoTo, Stop
<1> QED BY <1>1 DEF P4Step, EnterP4, ExtractSegment, StackOverflows, VarbitOverflows,
                    ExtractTooShort, TransitionP4, Stop

LEMMA LuaIsSent == LuaStep => luapc \in {"call", "fields"}
BY DEF LuaStep, Call, CallTooDeep, AddField, FieldOutside, LengthRaises, Dissecting, Elseif, Else

LEMMA CapsStart == BInit => CapsInv
<1> SUFFICES ASSUME BInit
             PROVE  CapsInv
  OBVIOUS
<1>1. WorklistInv
  BY WorklistStart DEF BInit, LuaInit
<1> QED BY <1>1 DEF BInit, P4Init, LuaInit, CapsInv, Fresh

LEMMA CapsNext ==
  ASSUME CapsInv, WorklistInv', Unbroken, ExprsEvaluate, [BNext]_bvars
  PROVE  CapsInv'
<1>1. WorklistInv
  BY DEF CapsInv
<1>2. CASE Generate
  <2>1. work # <<>> /\ UNCHANGED <<ir, refvars, p4vars, luavars>>
    BY <1>2 DEF Generate, Propagate
  <2>2. p4pc = "idle"
    BY <2>1 DEF CapsInv, VisitInv
  <2> QED BY <2>1, <2>2 DEF CapsInv, Fresh, refvars, p4vars, luavars
<1>3. CASE SendFrame
  <2>1. p4pc = "idle" /\ UNCHANGED <<ir, align, work>>
    BY <1>3 DEF SendFrame, LuaReceives
  <2>2. VisitInv'
    BY <1>1, <1>3, <2>1, VisitBegins DEF CapsInv
  <2>3. p4pc' # "idle"
    BY <1>3 DEF SendFrame, P4Receives
  <2>4. luapc' \notin {"idle", "refused"} => CapsHold'
    BY <1>3, <2>1, CapsLookedAt, CapsStay DEF SendFrame, LuaReceives, HasLua
  <2> QED BY <2>2, <2>3, <2>4 DEF CapsInv
<1>4. CASE Reference
  <2>1. VisitInv /\ p4pc # "idle" /\ UNCHANGED <<p4vars, luavars, align, work>> /\ Step
    BY <1>4 DEF Reference, CapsInv
  <2>2. VisitInv' /\ ir' = ir
    BY <1>1, <2>1, VisitSteps, StepsKeepIr
  <2> QED BY <2>1, <2>2, CapsStay DEF CapsInv, p4vars, luavars
<1>5. CASE Observe
  <2>1. P4Step /\ UNCHANGED <<refvars, luavars, align, work>> /\ pc = "done"
    BY <1>5 DEF Observe
  <2>2. p4pc # "idle"
    BY <2>1 DEF CapsInv, Fresh
  <2>3. ir' = ir /\ p4pc' # "idle"
    BY <2>1, <2>2, P4KeepsIr, P4IsSent
  <2>4. VisitInv'
    BY <2>1, <2>2, <2>3, VisitStays DEF CapsInv
  <2> QED BY <2>1, <2>3, <2>4, CapsStay DEF CapsInv, luavars
<1>6. CASE Dissect
  <2>1. LuaStep /\ UNCHANGED <<refvars, p4vars, align, work>> /\ ir' = ir
    BY <1>6, LuaKeepsIr DEF Dissect, LuaStep
  <2>2. luapc \in {"call", "fields"}
    BY <2>1, LuaIsSent
  <2>3. p4pc # "idle" /\ CapsHold
    BY <2>2 DEF CapsInv
  <2>4. VisitInv'
    BY <2>1, <2>3, VisitStays DEF CapsInv
  <2> QED BY <2>1, <2>3, <2>4, CapsStay DEF CapsInv, p4vars
<1>7. CASE BDone \/ UNCHANGED bvars
  <2>1. UNCHANGED bvars
    BY <1>7 DEF BDone
  <2>2. VisitInv => VisitInv'
    BY <2>1, VisitStays DEF bvars
  <2> QED BY <2>1, <2>2, CapsStay DEF CapsInv, Fresh, bvars, refvars, p4vars, luavars
<1> QED BY <1>2, <1>3, <1>4, <1>5, <1>6, <1>7 DEF BNext

\* What the generator accepts is aligned: where a dissector was emitted for a
\* description validate has nothing against, and lengths and keys have their
\* values, no run of the interpreter fails - whatever the graph, the widths of
\* the fields, the lengths and the number of bits of a byte.
THEOREM CapsSuffice == BSpec /\ []Unbroken /\ []ExprsEvaluate => []NeverMisaligned
<1>1. CapsInv => NeverMisaligned
  BY DEF CapsInv, VisitInv, NeverMisaligned
<1>2. CapsInv /\ WorklistInv' /\ Unbroken /\ ExprsEvaluate /\ [BNext]_bvars => CapsInv'
  BY CapsNext
<1> QED BY <1>1, <1>2, CapsStart, WorklistInvariant, PTL DEF BSpec
=============================================================================
