--------------------------- MODULE LoadAndRunProofs ---------------------------
(***************************************************************************)
(* Validation, and the interpreter behind it, for every set of well-formed *)
(* descriptions and every packet.                                          *)
(*                                                                         *)
(* First what the definite-extraction analysis computes: its sets are      *)
(* typed, are never narrowed too far, solve the dataflow inequations when  *)
(* the sweeps stop, and are then exactly the meet over all paths.  Then    *)
(* that it is sound for the interpreter: what validation counts as         *)
(* extracted, every run has extracted.  And an accepted and closed         *)
(* description never makes the interpreter fail.                           *)
(***************************************************************************)
EXTENDS LoadAndRun, InterpProofs, DataProofs

Analysing == vpc \in {"sweep", "check"}

(***************************************************************************)
(* Facts about descriptions.                                               *)
(***************************************************************************)

\* A description the structural checks accept starts in a state, and its
\* transitions go to states.
LEMMA AcceptedIsClosed ==
  ASSUME NEW i, StructuralErrors(i) = {}
  PROVE  /\ i.start \in DOMAIN i.states
         /\ \A s \in DOMAIN i.states : Successors(i.states[s].trans) \subseteq DOMAIN i.states
<1>1. StateNameErrors(i) = {}
  BY DEF StructuralErrors
<1>2. i.start \in DOMAIN i.states
  <2>1. SUFFICES ASSUME i.start \notin DOMAIN i.states
                 PROVE  FALSE
    OBVIOUS
  <2>2. <<"start state", i.start>> \in StateNameErrors(i)
    BY <2>1 DEF StateNameErrors
  <2> QED BY <2>2, <1>1
<1>3. ASSUME NEW s \in DOMAIN i.states
      PROVE  Successors(i.states[s].trans) \subseteq DOMAIN i.states
  <2>1. TransitionErrors(i, s) = {}
    BY DEF StructuralErrors
  <2>2. SUFFICES ASSUME NEW n \in Successors(i.states[s].trans), n \notin DOMAIN i.states
                 PROVE  FALSE
    OBVIOUS
  <2>3. <<"target", s, n>> \in TransitionErrors(i, s)
    BY <2>2 DEF TransitionErrors
  <2> QED BY <2>1, <2>3
<1> QED BY <1>2, <1>3

\* The listing order visits states, and every one of them.
LEMMA OrderListsStates ==
  ASSUME NEW i, IsIr(i)
  PROVE  /\ Len(i.order) \in Nat
         /\ \A k \in 1 .. Len(i.order) : i.order[k] \in DOMAIN i.states
         /\ \A s \in DOMAIN i.states : \E k \in 1 .. Len(i.order) : i.order[k] = s
<1>1. i.order \in Seq(DOMAIN i.states)
  BY DEF IsIr
<1>2. DOMAIN i.order = 1 .. Len(i.order) /\ Len(i.order) \in Nat
  BY <1>1
<1>3. \A s \in DOMAIN i.states : \E k \in DOMAIN i.order : i.order[k] = s
  BY DEF IsIr
<1> QED BY <1>1, <1>2, <1>3

LEMMA InstancesOfStateAreKnown ==
  ASSUME NEW i, NEW s \in DOMAIN i.states
  PROVE  StateInstances(i, s) \subseteq AllInstances(i)
BY DEF AllInstances

(***************************************************************************)
(* Type correctness.                                                       *)
(***************************************************************************)

LEMMA TypedInit == VInit => VTypeOK
<1> SUFFICES ASSUME VInit
             PROVE  VTypeOK
  OBVIOUS
<1>1. Len(ir.order) \in Nat
  BY IrsAssumption, OrderListsStates DEF VInit
<1>2. at = 1 /\ changed \in BOOLEAN
  BY DEF VInit
<1>3. \A n \in Nat : 1 \in 1 .. n + 1
  OBVIOUS
<1>4. at \in 1 .. Len(ir.order) + 1 /\ changed \in BOOLEAN
  BY <1>1, <1>2, <1>3
<1>5. ir \in Irs /\ vpc = "structure"
  BY DEF VInit
<1> QED BY <1>4, <1>5 DEF VTypeOK

LEMMA TypedNext == VTypeOK /\ [VNext]_vvars => VTypeOK'
<1> SUFFICES ASSUME VTypeOK, [VNext]_vvars
             PROVE  VTypeOK'
  OBVIOUS
<1>0. ir \in Irs /\ IsIr(ir) /\ Len(ir.order) \in Nat
  BY IrsAssumption, OrderListsStates DEF VTypeOK
<1>1. CASE CheckStructure
  <2>1. InitialSets(ir) \in [DOMAIN ir.states -> SUBSET AllInstances(ir)]
    BY DEF InitialSets
  <2> QED BY <1>0, <1>1, <2>1 DEF CheckStructure, VTypeOK
<1>2. CASE SweepState
  <2> DEFINE s == ir.order[at]
             out == inset[s] \cup StateInstances(ir, s)
             next == [t \in DOMAIN inset |->
                       IF t \in Successors(ir.states[s].trans) THEN inset[t] \cap out
                       ELSE inset[t]]
  <2>1. inset \in [DOMAIN ir.states -> SUBSET AllInstances(ir)]
    BY <1>2 DEF SweepState, VTypeOK
  <2>2. next \in [DOMAIN ir.states -> SUBSET AllInstances(ir)]
    <3> HIDE DEF s, out
    <3> QED BY <2>1
  <2>3. inset' = next /\ changed' = (changed \/ next # inset) /\ at' = at + 1
        /\ UNCHANGED <<ir, vpc, errs>> /\ vpc = "sweep" /\ at <= Len(ir.order)
    BY <1>2 DEF SweepState
  <2>4. changed' \in BOOLEAN
    BY <2>3 DEF VTypeOK
  <2>5. at' \in 1 .. Len(ir'.order) + 1
    BY <2>3, <1>0 DEF VTypeOK
  <2> HIDE DEF next
  <2> QED BY <2>2, <2>3, <2>4, <2>5 DEF VTypeOK
<1>3. CASE SweepEnds
  <2>1. changed \in BOOLEAN /\ at \in 1 .. Len(ir.order) + 1 /\ vpc = "sweep"
    BY <1>3 DEF SweepEnds, VTypeOK
  <2>2. 1 \in 1 .. Len(ir.order) + 1
    BY <1>0
  <2>3. CASE changed
    <3>1. at' = 1 /\ changed' = FALSE /\ vpc' = vpc
      BY <1>3, <2>3 DEF SweepEnds
    <3>2. ir' = ir /\ inset' = inset
      BY <1>3 DEF SweepEnds
    <3> QED BY <2>1, <2>2, <3>1, <3>2 DEF VTypeOK
  <2>4. CASE ~ changed
    <3>1. at' = at /\ changed' = changed /\ vpc' = "check"
      BY <1>3, <2>4 DEF SweepEnds
    <3>2. ir' = ir /\ inset' = inset
      BY <1>3 DEF SweepEnds
    <3> QED BY <2>1, <3>1, <3>2 DEF VTypeOK
  <2> QED BY <2>3, <2>4
<1>4. CASE CheckUses
  BY <1>0, <1>4 DEF CheckUses, VTypeOK
<1>5. CASE UNCHANGED vvars
  BY <1>5 DEF VTypeOK, vvars
<1> QED BY <1>1, <1>2, <1>3, <1>4, <1>5 DEF VNext, VStep, VReturned

\* The sets of a state stay sets of known instances through all sweeps
\* (definite_extraction_errors).
THEOREM ValidateTyped == VSpec => []VTypeOK
BY TypedInit, TypedNext, PTL DEF VSpec

(***************************************************************************)
(* The sweeps.                                                             *)
(***************************************************************************)

\* The inequations of one state's outgoing transitions.
Settled(s) ==
  \A t \in Successors(ir.states[s].trans) : inset[t] \subseteq inset[s] \cup StateInstances(ir, s)

\* FixpointSolves made inductive: only accepted descriptions are analysed,
\* nothing is certain at the start, and a sweep that has changed nothing so
\* far has found the states it visited settled.
SweepInv ==
  /\ vpc = "structure" => at = 1
  /\ Analysing => StructuralErrors(ir) = {} /\ inset[ir.start] = {}
  /\ vpc = "sweep" /\ ~ changed => \A k \in 1 .. at - 1 : Settled(ir.order[k])
  /\ FixpointSolves

\* What a sweep does to the set of one state.
LEMMA Narrowing ==
  ASSUME VTypeOK, SweepInv, SweepState
  PROVE  /\ ir.order[at] \in DOMAIN ir.states
         /\ inset' \in [DOMAIN ir.states -> SUBSET AllInstances(ir)]
         /\ \A t \in DOMAIN ir.states :
              inset'[t] = IF t \in Successors(ir.states[ir.order[at]].trans)
                            THEN inset[t] \cap (inset[ir.order[at]]
                                                \cup StateInstances(ir, ir.order[at]))
                            ELSE inset[t]
         /\ changed' = (changed \/ inset' # inset)
         /\ at' = at + 1 /\ vpc' = "sweep" /\ ir' = ir
         /\ at \in 1 .. Len(ir.order)
<1> DEFINE s == ir.order[at]
           out == inset[s] \cup StateInstances(ir, s)
           next == [t \in DOMAIN inset |->
                     IF t \in Successors(ir.states[s].trans) THEN inset[t] \cap out
                     ELSE inset[t]]
<1>1. inset' = next /\ changed' = (changed \/ next # inset) /\ at' = at + 1
      /\ UNCHANGED <<ir, vpc, errs>> /\ vpc = "sweep" /\ at <= Len(ir.order)
  BY DEF SweepState
<1>2. inset \in [DOMAIN ir.states -> SUBSET AllInstances(ir)]
  BY <1>1 DEF VTypeOK
<1>3. at \in 1 .. Len(ir.order) /\ s \in DOMAIN ir.states
  BY <1>1, IrsAssumption, OrderListsStates DEF VTypeOK
<1>4. next \in [DOMAIN ir.states -> SUBSET AllInstances(ir)]
      /\ \A t \in DOMAIN ir.states :
           next[t] = IF t \in Successors(ir.states[s].trans) THEN inset[t] \cap out ELSE inset[t]
  <2> HIDE DEF s, out
  <2> QED BY <1>2
<1>5. changed' = (changed \/ inset' # inset)
  BY <1>1
<1> HIDE DEF next
<1> QED BY <1>1, <1>3, <1>4, <1>5

LEMMA SweepInvInit == VInit => SweepInv
BY DEF VInit, SweepInv, Analysing, FixpointSolves

LEMMA SweepInvNext ==
  ASSUME VTypeOK, SweepInv, [VNext]_vvars
  PROVE  SweepInv'
<1>0. IsIr(ir) /\ Len(ir.order) \in Nat
  BY IrsAssumption, OrderListsStates DEF VTypeOK
<1>1. CASE CheckStructure
  <2>1. CASE StructuralErrors(ir) = {}
    <3>1. vpc' = "sweep" /\ inset' = InitialSets(ir) /\ ir' = ir /\ at' = at
      BY <1>1, <2>1 DEF CheckStructure
    <3>2. inset'[ir'.start] = {}
      BY <2>1, <3>1, AcceptedIsClosed DEF InitialSets
    <3>3. at = 1
      BY <1>1 DEF SweepInv, CheckStructure
    <3>4. 1 .. at' - 1 = {}
      BY <3>1, <3>3
    <3> QED BY <2>1, <3>1, <3>2, <3>4 DEF SweepInv, Analysing, FixpointSolves
  <2>2. CASE StructuralErrors(ir) # {}
    <3>1. vpc' = "done" /\ ir' = ir
      BY <1>1, <2>2 DEF CheckStructure
    <3> QED BY <2>2, <3>1 DEF SweepInv, Analysing, FixpointSolves
  <2> QED BY <2>1, <2>2
<1>2. CASE SweepState
  <2> DEFINE s == ir.order[at]
  <2>1. vpc = "sweep" /\ StructuralErrors(ir) = {} /\ inset[ir.start] = {}
    BY <1>2 DEF SweepState, SweepInv, Analysing
  <2>2. ir.start \in DOMAIN ir.states
    BY <2>1, AcceptedIsClosed
  <2>3. inset'[ir.start] = {}
    BY <1>2, <2>1, <2>2, Narrowing
  <2>4. ASSUME ~ changed'
        PROVE  \A k \in 1 .. at' - 1 : Settled(ir.order[k])'
    <3>1. ~ changed /\ inset' = inset
      BY <1>2, <2>4, Narrowing
    <3>2. \A k \in 1 .. at - 1 : Settled(ir.order[k])
      BY <2>1, <3>1 DEF SweepInv
    <3>3. Settled(s)
      <4> SUFFICES ASSUME NEW t \in Successors(ir.states[s].trans)
                   PROVE  inset[t] \subseteq inset[s] \cup StateInstances(ir, s)
        BY DEF Settled
      <4>1. t \in DOMAIN ir.states
        BY <1>2, <2>1, Narrowing, AcceptedIsClosed
      <4>2. inset[t] = inset[t] \cap (inset[s] \cup StateInstances(ir, s))
        BY <1>2, <3>1, <4>1, Narrowing
      <4> QED BY <4>2
    <3>4. \A k \in 1 .. at' - 1 : k \in 1 .. at - 1 \/ k = at
      BY <1>2, Narrowing, <1>0
    <3>5. \A k \in 1 .. at' - 1 : Settled(ir.order[k])
      BY <3>2, <3>3, <3>4
    <3>6. ir' = ir
      BY <1>2, Narrowing
    <3> QED BY <3>1, <3>5, <3>6 DEF Settled
  <2>5. vpc' = "sweep" /\ ir' = ir
    BY <1>2, Narrowing
  <2> QED BY <2>1, <2>3, <2>4, <2>5 DEF SweepInv, Analysing, FixpointSolves
<1>3. CASE SweepEnds
  <2>1. vpc = "sweep" /\ StructuralErrors(ir) = {} /\ inset[ir.start] = {}
    BY <1>3 DEF SweepEnds, SweepInv, Analysing
  <2>2. ir' = ir /\ inset' = inset
    BY <1>3 DEF SweepEnds
  <2>3. CASE changed
    <3>1. at' = 1 /\ vpc' = "sweep"
      BY <1>3, <2>1, <2>3 DEF SweepEnds
    <3>2. 1 .. at' - 1 = {}
      BY <3>1
    <3> QED BY <2>1, <2>2, <3>1, <3>2 DEF SweepInv, Analysing, FixpointSolves
  <2>4. CASE ~ changed
    <3>1. vpc' = "check" /\ at > Len(ir.order)
      BY <1>3, <2>4 DEF SweepEnds
    <3>2. \A k \in 1 .. Len(ir.order) : k \in 1 .. at - 1
      BY <3>1, <1>0 DEF VTypeOK
    <3>3. \A t \in DOMAIN ir.states : Settled(t)
      BY <1>0, <2>1, <2>4, <3>2, OrderListsStates DEF SweepInv
    <3>4. Solves(ir, inset)
      BY <2>1, <3>3 DEF Solves, Settled
    <3> QED BY <2>1, <2>2, <3>1, <3>4 DEF SweepInv, Analysing, FixpointSolves
  <2> QED BY <2>3, <2>4
<1>4. CASE CheckUses
  <2>1. vpc = "check" /\ vpc' = "done" /\ ir' = ir /\ inset' = inset
    BY <1>4 DEF CheckUses
  <2> QED BY <2>1 DEF SweepInv, Analysing, FixpointSolves
<1>5. CASE UNCHANGED vvars
  BY <1>5 DEF vvars, SweepInv, Analysing, FixpointSolves, Settled
<1> QED BY <1>1, <1>2, <1>3, <1>4, <1>5 DEF VNext, VStep, VReturned

LEMMA SweepInvariant == VSpec => []SweepInv
<1>1. VTypeOK /\ SweepInv /\ [VNext]_vvars => SweepInv'
  BY SweepInvNext
<1> QED BY <1>1, SweepInvInit, ValidateTyped, PTL DEF VSpec

\* When a sweep changes nothing, the sets solve the dataflow inequations of
\* validate.rs:219-222, and they still do when the uses are checked.
THEOREM SweepsSolve == VSpec => []FixpointSolves
<1>1. SweepInv => FixpointSolves
  BY DEF SweepInv
<1> QED BY <1>1, SweepInvariant, PTL

(***************************************************************************)
(* The meet over all paths.                                                *)
(***************************************************************************)

\* NeverTooNarrow, with its contraposition in reach: an instance missing from
\* a set is one the state can be entered without.
LEMMA NarrowSoundly ==
  ASSUME VTypeOK, SweepInv, NeverTooNarrow, [VNext]_vvars
  PROVE  NeverTooNarrow'
<1>1. CASE CheckStructure
  <2>1. CASE StructuralErrors(ir) = {}
    <3>1. vpc' = "sweep" /\ inset' = InitialSets(ir) /\ ir' = ir
      BY <1>1, <2>1 DEF CheckStructure
    <3>2. SUFFICES ASSUME NEW s \in DOMAIN ir.states, NEW n \in AllInstances(ir),
                          n \notin InitialSets(ir)[s]
                   PROVE  s \in EnteredWithout(ir, n)
      BY <3>1 DEF NeverTooNarrow
    <3>3. s = ir.start
      BY <3>2 DEF InitialSets
    <3> QED BY <3>2, <3>3 DEF EnteredWithout
  <2>2. CASE StructuralErrors(ir) # {}
    <3>1. vpc' = "done"
      BY <1>1, <2>2 DEF CheckStructure
    <3> QED BY <3>1 DEF NeverTooNarrow
  <2> QED BY <2>1, <2>2
<1>2. CASE SweepState
  <2> DEFINE p == ir.order[at]
  <2>1. vpc = "sweep" /\ ir' = ir
    BY <1>2, Narrowing DEF SweepState
  <2>2. SUFFICES ASSUME NEW s \in DOMAIN ir.states, NEW n \in AllInstances(ir),
                        n \notin inset'[s]
                 PROVE  s \in EnteredWithout(ir, n)
    BY <2>1 DEF NeverTooNarrow
  <2>3. CASE n \notin inset[s]
    BY <2>1, <2>2, <2>3 DEF NeverTooNarrow
  <2>4. CASE n \in inset[s]
    <3>1. s \in Successors(ir.states[p].trans) /\ n \notin inset[p] /\ n \notin StateInstances(ir, p)
      BY <1>2, <2>2, <2>4, Narrowing
    <3>2. p \in DOMAIN ir.states
      BY <1>2, Narrowing
    <3>3. p \in EnteredWithout(ir, n)
      BY <2>1, <3>1, <3>2 DEF NeverTooNarrow
    <3> QED BY <2>2, <3>1, <3>3 DEF EnteredWithout
  <2> QED BY <2>3, <2>4
<1>3. CASE SweepEnds
  <2>1. ir' = ir /\ inset' = inset /\ vpc = "sweep"
    BY <1>3 DEF SweepEnds
  <2> QED BY <2>1 DEF NeverTooNarrow
<1>4. CASE CheckUses
  BY <1>4 DEF CheckUses, NeverTooNarrow
<1>5. CASE UNCHANGED vvars
  BY <1>5 DEF vvars, NeverTooNarrow
<1> QED BY <1>1, <1>2, <1>3, <1>4, <1>5 DEF VNext, VStep, VReturned

\* No sweep ever drops an instance that every path to the state extracts.
THEOREM SweepsNeverTooNarrow == VSpec => []NeverTooNarrow
<1>1. VInit => NeverTooNarrow
  BY DEF VInit, NeverTooNarrow
<1>2. VTypeOK /\ SweepInv /\ NeverTooNarrow /\ [VNext]_vvars => NeverTooNarrow'
  BY NarrowSoundly
<1> QED BY <1>1, <1>2, ValidateTyped, SweepInvariant, PTL DEF VSpec

\* The states whose set lacks an instance are closed under going on without
\* extracting it.
LEMMA MissingIsClosed ==
  ASSUME NEW i, StructuralErrors(i) = {}, NEW ins, Solves(i, ins), NEW n,
         NEW s \in EnteredWithout(i, n)
  PROVE  n \notin ins[s]
<1> DEFINE R == {t \in DOMAIN i.states : n \notin ins[t]}
<1>1. R \in SUBSET DOMAIN i.states
  OBVIOUS
<1>2. i.start \in R
  BY AcceptedIsClosed DEF Solves
<1>3. ASSUME NEW t \in R, n \notin StateInstances(i, t)
      PROVE  Successors(i.states[t].trans) \subseteq R
  BY <1>3, AcceptedIsClosed DEF Solves
<1>4. s \in R
  <2> HIDE DEF R
  <2> QED BY <1>1, <1>2, <1>3 DEF EnteredWithout
<1> QED BY <1>4

\* When the sweeps stop, an instance is in a state's set exactly if every path
\* from the start state to that state extracts it (validate.rs:219-222).
THEOREM SweepsComputeMeet == VSpec => []MeetOverPaths
<1>1. ASSUME SweepInv, NeverTooNarrow
      PROVE  MeetOverPaths
  <2>1. SUFFICES ASSUME vpc = "check", NEW s \in DOMAIN ir.states, NEW n \in AllInstances(ir)
                 PROVE  n \in inset[s] <=> s \notin EnteredWithout(ir, n)
    BY DEF MeetOverPaths
  <2>2. StructuralErrors(ir) = {} /\ Solves(ir, inset)
    BY <1>1, <2>1 DEF SweepInv, Analysing, FixpointSolves
  <2>3. s \in EnteredWithout(ir, n) => n \notin inset[s]
    BY <2>2, MissingIsClosed
  <2>4. s \notin EnteredWithout(ir, n) => n \in inset[s]
    BY <1>1, <2>1 DEF NeverTooNarrow
  <2> QED BY <2>3, <2>4
<1>2. SweepInv /\ NeverTooNarrow => MeetOverPaths
  BY <1>1
<1> QED BY <1>2, SweepInvariant, SweepsNeverTooNarrow, PTL

(***************************************************************************)
(* The composition takes steps of its parts.                               *)
(***************************************************************************)
LEMMA StepKeepsIr == Step => ir' = ir
BY DEF Step, Enter, ExtractHeader, ReadField, TakeTransition, EnterState, DepthExceeded,
       UnknownState, BeginHeader, UnknownHeaderType, EndHeader, ReadBits, ReadBitsOutOfBounds,
       FieldOutOfBounds, ReadBytes, ReadBytesOutOfBounds, ReadBytesBails, FieldWithoutWidth,
       Direct, TakeArm, TakeDefault, NoMatchingArm, TransitionBails, Transit

LEMMA LoadKeepsIr == VStep => ir' = ir
BY DEF VStep, CheckStructure, SweepState, SweepEnds, CheckUses

LEMMA PartsStep == [LNext]_lvars => [Next]_vars /\ [VNext]_vvars
<1>1. CASE Load
  BY <1>1, LoadKeepsIr DEF Load, vars, VNext
<1>2. CASE Run
  BY <1>2, StepKeepsIr DEF Run, vvars, Next
<1>3. CASE UNCHANGED lvars
  BY <1>3 DEF lvars, vars, vvars
<1> QED BY <1>1, <1>2, <1>3 DEF LNext, Finished

LEMMA PartsTyped == LSpec => [](TypeOK /\ VTypeOK /\ SweepInv)
<1>1. LInit => TypeOK /\ VTypeOK /\ SweepInv
  BY TypeInit, TypedInit, SweepInvInit DEF LInit
<1>2. TypeOK /\ VTypeOK /\ SweepInv /\ [LNext]_lvars => TypeOK' /\ VTypeOK' /\ SweepInv'
  BY PartsStep, TypeNext, TypedNext, SweepInvNext
<1> QED BY <1>1, <1>2, PTL DEF LSpec

(***************************************************************************)
(* The inductive invariant: what is certain has a complete header behind   *)
(* it already when a state is about to be entered, and the header under    *)
(* construction is the one the state's next extract names.                 *)
(***************************************************************************)
Complete(n) ==
  \E i \in DOMAIN headers :
    /\ headers[i].instance = n
    /\ Len(headers[i].fields) = Len(ir.types[headers[i].type])

CertainInv ==
  /\ vpc # "done" => pc = "enter" /\ current = ir.start
  /\ Loaded => StructuralErrors(ir) = {}
  /\ Loaded /\ pc = "enter" =>
       current \in DOMAIN ir.states /\ \A n \in inset[current] : Complete(n)
  /\ Loaded /\ pc \in {"extract", "field"} => \A n \in Available(ir, inset, current, ex) : Complete(n)
  /\ pc = "field" => parsed.instance = Instance(Extracts[ex + 1])

LEMMA CertainInit == LInit => CertainInv
BY DEF LInit, Init, VInit, CertainInv, Loaded

\* Validation starts the interpreter at the start state, where nothing is
\* certain.
LEMMA CertainLoad ==
  ASSUME TypeOK, VTypeOK, SweepInv, CertainInv, Load, SweepInv'
  PROVE  CertainInv'
<1>1. vpc # "done" /\ ir' = ir /\ pc' = pc /\ current' = current
  BY LoadKeepsIr DEF Load, VStep, CheckStructure, SweepState, SweepEnds, CheckUses
<1>2. pc = "enter" /\ current = ir.start
  BY <1>1 DEF CertainInv
<1>3. ASSUME Loaded'
      PROVE  StructuralErrors(ir) = {} /\ Solves(ir, inset')
  <2>1. CASE CheckStructure
    BY <2>1, <1>3 DEF CheckStructure, Loaded
  <2>2. CASE SweepState
    BY <2>2, <1>3, <1>1 DEF SweepState, Loaded
  <2>3. CASE SweepEnds
    BY <2>3, <1>3 DEF SweepEnds, Loaded
  <2>4. CASE CheckUses
    <3>1. StructuralErrors(ir) = {} /\ vpc' = "done"
      BY <2>4 DEF CheckUses, SweepInv, Analysing
    <3> QED BY <3>1, <1>1 DEF SweepInv, FixpointSolves
  <2> QED BY <2>1, <2>2, <2>3, <2>4 DEF Load, VStep
<1>4. Loaded' => current' \in DOMAIN ir'.states /\ inset'[current'] = {}
  BY <1>1, <1>2, <1>3, AcceptedIsClosed DEF Solves
<1> QED BY <1>1, <1>2, <1>3, <1>4 DEF CertainInv, Complete

\* A header never disappears, and never changes, while the run goes on.
LEMMA CompleteStays ==
  ASSUME TypeOK, ir' = ir, NEW n, Complete(n),
         headers' = headers \/ \E h : headers' = Append(headers, h)
  PROVE  Complete(n)'
<1>1. headers \in Seq(ParsedHeader)
  BY DEF TypeOK
<1>2. PICK i \in DOMAIN headers : /\ headers[i].instance = n
                                  /\ Len(headers[i].fields) = Len(ir.types[headers[i].type])
  BY DEF Complete
<1>3. i \in DOMAIN headers' /\ headers'[i] = headers[i]
  <2>1. CASE headers' = headers
    BY <1>2, <2>1
  <2>2. ASSUME NEW h, headers' = Append(headers, h)
        PROVE  i \in DOMAIN headers' /\ headers'[i] = headers[i]
    BY <1>1, <1>2, <2>2
  <2> QED BY <2>1, <2>2
<1> QED BY <1>2, <1>3 DEF Complete

LEMMA CertainEnter ==
  ASSUME TypeOK, CertainInv, Loaded, Enter, UNCHANGED <<ir, vpc, errs, inset>>
  PROVE  CertainInv'
<1>1. Loaded' /\ headers' = headers /\ current' = current /\ StructuralErrors(ir) = {}
  BY DEF Enter, EnterState, DepthExceeded, UnknownState, Loaded, CertainInv
<1>2. CASE EnterState
  <2>1. pc = "enter" /\ pc' = "extract" /\ ex' = 0
    BY <1>2 DEF EnterState
  <2>2. Available(ir, inset, current, 0) = inset[current]
    BY DEF Available
  <2>3. \A n \in inset[current] : Complete(n)'
    BY <1>1, <2>1, CompleteStays DEF CertainInv
  <2>4. Available(ir, inset, current, ex)' = inset[current]
    BY <1>1, <2>1, <2>2
  <2> QED BY <1>1, <2>1, <2>3, <2>4 DEF CertainInv, Loaded
<1>3. CASE DepthExceeded \/ UnknownState
  <2>1. pc' = "done"
    BY <1>3 DEF DepthExceeded, UnknownState, Reject, Bail
  <2> QED BY <1>1, <2>1 DEF CertainInv, Loaded
<1> QED BY <1>2, <1>3 DEF Enter

LEMMA CertainExtractHeader ==
  ASSUME TypeOK, CertainInv, Loaded, ExtractHeader, UNCHANGED <<ir, vpc, errs, inset>>
  PROVE  CertainInv'
<1>1. Loaded' /\ current' = current /\ StructuralErrors(ir) = {}
  BY DEF ExtractHeader, BeginHeader, UnknownHeaderType, EndHeader, Loaded, CertainInv
<1>2. CASE BeginHeader
  <2>1. /\ pc = "extract" /\ pc' = "field" /\ ex' = ex /\ headers' = headers
        /\ parsed'.instance = Instance(Extracts[ex + 1])
    BY <1>2 DEF BeginHeader, Extracting
  <2>2. \A n \in Available(ir, inset, current, ex) : Complete(n)'
    BY <2>1, CompleteStays DEF CertainInv
  <2>3. Extracts' = Extracts
    BY <1>1 DEF Extracts
  <2> QED BY <1>1, <2>1, <2>2, <2>3 DEF CertainInv, Loaded
<1>3. CASE UnknownHeaderType
  <2>1. pc' = "done"
    BY <1>3 DEF UnknownHeaderType, Bail
  <2> QED BY <1>1, <2>1 DEF CertainInv, Loaded
<1>4. CASE EndHeader
  <2>1. /\ pc = "field" /\ pc' = "extract" /\ ex' = ex + 1
        /\ headers' = Append(headers, parsed) /\ Len(parsed.fields) = Len(Fields)
    BY <1>4 DEF EndHeader
  <2>2. headers \in Seq(ParsedHeader) /\ parsed \in ParsedHeader /\ ex \in Nat
    BY DEF TypeOK
  <2>3. ASSUME NEW n, n = parsed.instance
        PROVE  Complete(n)'
    <3>1. Len(headers) + 1 \in DOMAIN headers' /\ headers'[Len(headers) + 1] = parsed
      BY <2>1, <2>2
    <3>2. headers'[Len(headers) + 1].instance = n
          /\ Len(headers'[Len(headers) + 1].fields) = Len(ir.types[parsed.type])
      BY <2>1, <2>3, <3>1 DEF Fields
    <3> QED BY <3>1, <3>2 DEF Complete
  <2>4. parsed.instance = Instance(ir.states[current].extracts[ex + 1])
    BY <2>1 DEF CertainInv, Extracts
  <2>5. ASSUME NEW n \in Available(ir, inset, current, ex + 1)
        PROVE  Complete(n)'
    <3>1. n \in Available(ir, inset, current, ex) \/ n = parsed.instance
      <4>1. \A j \in 1 .. ex + 1 : j \in 1 .. ex \/ j = ex + 1
        BY <2>2
      <4> QED BY <2>4, <4>1 DEF Available
    <3>2. CASE n \in Available(ir, inset, current, ex)
      BY <2>1, <3>2, CompleteStays DEF CertainInv
    <3> QED BY <2>3, <3>1, <3>2
  <2>6. Available(ir, inset, current, ex)' = Available(ir, inset, current, ex + 1)
    BY <1>1, <2>1
  <2> QED BY <1>1, <2>1, <2>5, <2>6 DEF CertainInv, Loaded
<1> QED BY <1>2, <1>3, <1>4 DEF ExtractHeader

LEMMA CertainReadField ==
  ASSUME TypeOK, CertainInv, Loaded, ReadField, UNCHANGED <<ir, vpc, errs, inset>>
  PROVE  CertainInv'
<1>1. Loaded' /\ StructuralErrors(ir) = {}
  BY DEF Loaded, CertainInv
<1>2. CASE ReadBits \/ ReadBytes
  <2>1. /\ pc = "field" /\ pc' = pc /\ ex' = ex /\ headers' = headers /\ current' = current
        /\ \E n, fixed : TakeField(n, fixed)
    BY <1>2 DEF ReadBits, ReadBytes, Reading
  <2>2. parsed'.instance = parsed.instance
    BY <2>1 DEF TakeField, TypeOK, ParsedHeader
  <2>3. \A n \in Available(ir, inset, current, ex) : Complete(n)'
    BY <2>1, CompleteStays DEF CertainInv
  <2>4. Extracts' = Extracts
    BY <2>1 DEF Extracts
  <2> QED BY <1>1, <2>1, <2>2, <2>3, <2>4 DEF CertainInv, Loaded
<1>3. CASE ReadBitsOutOfBounds \/ ReadBytesOutOfBounds \/ ReadBytesBails \/ FieldWithoutWidth
  <2>1. pc' = "done"
    BY <1>3 DEF ReadBitsOutOfBounds, ReadBytesOutOfBounds, FieldOutOfBounds, ReadBytesBails,
                FieldWithoutWidth, Reject, Bail
  <2> QED BY <1>1, <2>1 DEF CertainInv, Loaded
<1> QED BY <1>2, <1>3 DEF ReadField

\* Leaving a state, everything certain there is complete, and what is certain
\* on entering the next one is part of that.
LEMMA CertainTakeTransition ==
  ASSUME TypeOK, VTypeOK, SweepInv, CertainInv, Loaded, TakeTransition,
         UNCHANGED <<ir, vpc, errs, inset>>
  PROVE  CertainInv'
<1>1. Loaded' /\ StructuralErrors(ir) = {}
  BY DEF Loaded, CertainInv
<1>2. CASE pc' = "done"
  BY <1>1, <1>2 DEF CertainInv, Loaded
<1>3. ASSUME pc' # "done"
      PROVE  /\ pc' = "enter" /\ headers' = headers
             /\ current' \in Successors(Trans)
  <2>1. PICK target \in Targets(Trans) : Follow(target) /\ headers' = headers
    <3>1. CASE Direct
      BY <3>1 DEF Direct, Transit, Targets
    <3>2. CASE TakeArm
      <4>1. PICK i \in MatchedArms : Follow(Trans.arms[i].next) /\ headers' = headers
        BY <3>2 DEF TakeArm, Transit
      <4>2. i \in DOMAIN Trans.arms /\ Trans.kind = "select"
        BY <3>2, <4>1 DEF TakeArm, MatchedArms, MatchingArms
      <4> QED BY <4>1, <4>2 DEF Targets
    <3>3. CASE TakeDefault
      BY <3>3 DEF TakeDefault, Transit, Targets
    <3>4. CASE NoMatchingArm \/ TransitionBails
      BY <1>3, <3>4 DEF NoMatchingArm, TransitionBails, Reject, Bail
    <3> QED BY <3>1, <3>2, <3>3, <3>4 DEF TakeTransition
  <2>2. target.kind = "state" /\ current' = target.to /\ pc' = "enter"
    BY <1>3, <2>1 DEF Follow, Accept, Reject, Bail
  <2> QED BY <2>1, <2>2 DEF Successors
<1>4. CASE pc' # "done"
  <2>1. pc = "extract" /\ ex = Len(Extracts) /\ current \in DOMAIN ir.states
    BY DEF TakeTransition, Direct, TakeArm, TakeDefault, NoMatchingArm, TransitionBails,
           Extracted, TypeOK
  <2>2. current' \in Successors(ir.states[current].trans) /\ current' \in DOMAIN ir.states
    BY <1>1, <1>3, <1>4, <2>1, AcceptedIsClosed DEF Trans
  <2>3. Solves(ir, inset)
    BY <1>1 DEF SweepInv, FixpointSolves, Loaded
  <2>4. inset[current'] \subseteq inset[current] \cup StateInstances(ir, current)
    BY <2>1, <2>2, <2>3 DEF Solves
  <2>5. StateInstances(ir, current) \subseteq Available(ir, inset, current, ex)
    <3>1. Extracts \in Seq(Extract)
      BY <2>1, StateFacts
    <3>2. \A x \in ToSet(Extracts) : \E j \in 1 .. ex : Extracts[j] = x
      BY <2>1, <3>1 DEF ToSet
    <3> QED BY <3>2 DEF StateInstances, Available, Extracts
  <2>6. inset[current] \subseteq Available(ir, inset, current, ex)
    BY DEF Available
  <2>7. \A n \in inset[current'] : Complete(n)'
    BY <1>3, <1>4, <2>1, <2>4, <2>5, <2>6, CompleteStays DEF CertainInv
  <2> QED BY <1>1, <1>3, <1>4, <2>2, <2>7 DEF CertainInv, Loaded
<1> QED BY <1>2, <1>4

LEMMA CertainNext ==
  ASSUME TypeOK, VTypeOK, SweepInv, CertainInv, [LNext]_lvars, SweepInv'
  PROVE  CertainInv'
<1>1. CASE Load
  BY <1>1, CertainLoad
<1>2. CASE Run
  <2>1. Loaded /\ Step /\ UNCHANGED <<ir, vpc, errs, inset>>
    BY <1>2, StepKeepsIr DEF Run, Loaded
  <2> QED BY <2>1, CertainEnter, CertainExtractHeader, CertainReadField, CertainTakeTransition
          DEF Step
<1>3. CASE UNCHANGED lvars
  BY <1>3 DEF lvars, vars, CertainInv, Loaded, Complete, Extracts
<1> QED BY <1>1, <1>2, <1>3 DEF LNext, Finished

\* The must-analysis of validate.rs is sound for run_bits: an instance counted
\* as definitely extracted has a complete header behind it, in every run over
\* every packet.
THEOREM AnalysisSound == LSpec => []DefinitelyExtracted
<1>1. LInit => CertainInv
  BY CertainInit
<1>2. TypeOK /\ VTypeOK /\ SweepInv /\ SweepInv' /\ CertainInv /\ [LNext]_lvars => CertainInv'
  BY CertainNext
<1>3. CertainInv => DefinitelyExtracted
  BY DEF CertainInv, DefinitelyExtracted, Complete
<1> QED BY <1>1, <1>2, <1>3, PartsTyped, PTL DEF LSpec

(***************************************************************************)
(* The references of an expression, and what they decide.                  *)
(***************************************************************************)

RefsOf(x, refs) ==
  IF x.op = "field" THEN {<<x.h, x.f>>}
  ELSE IF x.op \in BinOps THEN refs[x.l] \cup refs[x.r]
  ELSE {}

\* The references below a node are those of its operands, or its own.
LEMMA RefsUnfold ==
  ASSUME NEW i, IsIr(i)
  PROVE  \E refs : \A e \in 0 .. Len(i.exprs) :
           /\ Refs(i, e) = refs[e]
           /\ refs[e] = IF e = 0 THEN {} ELSE RefsOf(i.exprs[e], refs)
<1> DEFINE n == Len(i.exprs)
           Body(f, e) == IF e = 0 THEN {} ELSE RefsOf(i.exprs[e], f)
           V == SUBSET (STRING \X STRING)
           step == [f \in [0 .. n -> V] |-> [e \in 0 .. n |-> Body(f, e)]]
           refs == CHOOSE v : v = [e \in 0 .. Len(i.exprs) |-> Body(v, e)]
<1>1. \A e : Refs(i, e) = refs[e]
  BY DEF Refs, RefsOf
<1>2. n \in Nat
  BY ExprFacts
<1>3. ASSUME NEW f, NEW e \in 0 .. n, \A j \in 0 .. e - 1 : f[j] \in V
      PROVE  Body(f, e) \in V
  <2>1. CASE e = 0
    BY <2>1
  <2>2. CASE e \in 1 .. n
    <3> DEFINE x == i.exprs[e]
    <3>1. x \in Expr /\ (x.op \in BinOps => x.l \in 0 .. e - 1 /\ x.r \in 0 .. e - 1)
      BY <2>2, ExprFacts
    <3>2. /\ x.h \in STRING /\ x.f \in STRING
          /\ x.op \in BinOps => f[x.l] \in V /\ f[x.r] \in V
      BY <1>3, <3>1 DEF Expr
    <3> HIDE DEF x
    <3>3. RefsOf(x, f) \in V
      BY <3>2 DEF RefsOf
    <3> QED BY <2>2, <3>3 DEF x
  <2> QED BY <1>2, <2>1, <2>2
<1>4. ASSUME NEW f, NEW g, NEW e \in 0 .. n, \A j \in 0 .. e - 1 : f[j] = g[j]
      PROVE  Body(f, e) = Body(g, e)
  <2>1. CASE e = 0
    BY <2>1
  <2>2. CASE e \in 1 .. n
    <3> DEFINE x == i.exprs[e]
    <3>1. x.op \in BinOps => f[x.l] = g[x.l] /\ f[x.r] = g[x.r]
      BY <1>4, <2>2, ExprFacts
    <3> HIDE DEF x
    <3>2. RefsOf(x, f) = RefsOf(x, g)
      BY <3>1 DEF RefsOf
    <3> QED BY <2>2, <3>2 DEF x
  <2> QED BY <1>2, <2>1, <2>2
<1>5. V # {}
  OBVIOUS
<1>6. IsStep(step, 0, n, V)
  <2> HIDE DEF Body, V
  <2>1. ASSUME NEW f \in [0 .. n -> V], NEW e \in 0 .. n
        PROVE  step[f][e] \in V
    <3>1. \A j \in 0 .. e - 1 : f[j] \in V
      BY <1>2
    <3>2. Body(f, e) \in V
      BY <1>3, <3>1
    <3> QED BY <3>2
  <2>2. \A f, g \in [0 .. n -> V] : \A e \in 0 .. n :
          (\A j \in 0 .. e - 1 : f[j] = g[j]) => step[f][e] = step[g][e]
    BY <1>4
  <2> QED BY <1>5, <2>1, <2>2 DEF IsStep
<1>7. \E f \in [0 .. n -> V] : \A e \in 0 .. n : f[e] = step[f][e]
  <2> HIDE DEF step, V
  <2> QED BY <1>2, <1>6, Recursion
<1>8. refs = [e \in 0 .. n |-> Body(refs, e)]
  <2>1. \E v : v = [e \in 0 .. n |-> Body(v, e)]
    <3> HIDE DEF Body, V
    <3> QED BY <1>7
  <2> QED BY <2>1
<1> HIDE DEF refs
<1>9. \A e \in 0 .. n : refs[e] = Body(refs, e)
  <2> HIDE DEF Body
  <2> QED BY <1>8
<1> QED BY <1>1, <1>9

\* A reference below an expression is a field node of the description.
LEMMA RefsAreFields ==
  ASSUME NEW i, IsIr(i), NEW e \in 0 .. Len(i.exprs), NEW r \in Refs(i, e)
  PROVE  \E k \in 1 .. Len(i.exprs) :
           i.exprs[k].op = "field" /\ r = <<i.exprs[k].h, i.exprs[k].f>>
<1> DEFINE n == Len(i.exprs)
           IsField(q) == \E k \in 1 .. n : i.exprs[k].op = "field"
                                           /\ q = <<i.exprs[k].h, i.exprs[k].f>>
<1>1. PICK refs : \A d \in 0 .. n :
        /\ Refs(i, d) = refs[d]
        /\ refs[d] = IF d = 0 THEN {} ELSE RefsOf(i.exprs[d], refs)
  BY RefsUnfold
<1> DEFINE U == {d \in Nat : d <= n => \A q \in refs[d] : IsField(q)}
<1>2. n \in Nat
  BY ExprFacts
<1>3. ASSUME NEW d \in Nat, \A m \in 0 .. d - 1 : m \in U
      PROVE  d \in U
  <2> SUFFICES ASSUME d <= n, NEW q \in refs[d]
               PROVE  IsField(q)
    OBVIOUS
  <2> DEFINE x == i.exprs[d]
  <2>1. d \in 1 .. n /\ q \in RefsOf(x, refs)
    <3>1. d \in 0 .. n
      BY <1>2
    <3>2. d # 0
      BY <1>1, <3>1
    <3> QED BY <1>1, <3>1, <3>2
  <2>2. CASE x.op = "field"
    BY <2>1, <2>2 DEF RefsOf
  <2>3. CASE x.op \in BinOps /\ x.op # "field"
    <3>1. x.l \in 0 .. d - 1 /\ x.r \in 0 .. d - 1
      BY <2>1, <2>3, ExprFacts
    <3>2. \A m \in 0 .. d - 1 : m \in Nat /\ m <= n
      BY <1>2, <2>1
    <3>3. \A m \in 0 .. d - 1 : \A p \in refs[m] : IsField(p)
      <4> HIDE DEF IsField
      <4> QED BY <1>3, <3>2
    <3> HIDE DEF IsField, x
    <3>4. q \in refs[x.l] \cup refs[x.r]
      BY <2>1, <2>3 DEF RefsOf
    <3> QED BY <3>1, <3>3, <3>4
  <2>4. CASE x.op \notin BinOps \cup {"field"}
    <3> HIDE DEF x
    <3> QED BY <2>1, <2>4 DEF RefsOf
  <2> QED BY <2>2, <2>3, <2>4
<1>4. \A d \in Nat : d \in U
  <2> HIDE DEF U
  <2> QED BY <1>3, StrongSetInduction
<1> QED BY <1>1, <1>2, <1>4

\* An expression without holes whose references are all in the environment
\* has a value.
LEMMA EvalResolves ==
  ASSUME NEW i, IsIr(i), CompleteExprs(i), NEW env2, env2 \in [DOMAIN env2 -> Seq(Bit)],
         NEW e \in 1 .. Len(i.exprs), Refs(i, e) \subseteq DOMAIN env2
  PROVE  EvalExpr(i, e, env2) \in Word
<1> DEFINE n == Len(i.exprs)
<1>1. PICK refs : \A d \in 0 .. n :
        /\ Refs(i, d) = refs[d]
        /\ refs[d] = IF d = 0 THEN {} ELSE RefsOf(i.exprs[d], refs)
  BY RefsUnfold
<1>2. PICK val : \A d \in 0 .. n :
        /\ EvalExpr(i, d, env2) = val[d]
        /\ val[d] \in Value
        /\ val[d] = IF d = 0 THEN Unresolved ELSE EvalNode(i.exprs[d], env2, val)
  BY EvalExprUnfolds
<1> DEFINE U == {d \in Nat : d \in 1 .. n /\ refs[d] \subseteq DOMAIN env2 => val[d] \in Word}
<1>3. n \in Nat /\ DOMAIN i.exprs = 1 .. n
  BY ExprFacts DEF IsIr
<1>4. ASSUME NEW d \in Nat, \A m \in 0 .. d - 1 : m \in U
      PROVE  d \in U
  <2> SUFFICES ASSUME d \in 1 .. n, refs[d] \subseteq DOMAIN env2
               PROVE  val[d] \in Word
    OBVIOUS
  <2> DEFINE x == i.exprs[d]
  <2>1. /\ x \in Expr
        /\ x.op \in BinOps => x.l \in 0 .. d - 1 /\ x.r \in 0 .. d - 1
        /\ x.op \notin {"empty", "unspecified"}
        /\ x.op \in BinOps => 0 \notin {x.l, x.r}
    BY <1>3, ExprFacts DEF CompleteExprs
  <2>2. val[d] = EvalNode(x, env2, val) /\ refs[d] = RefsOf(x, refs)
    <3>1. d \in 0 .. n /\ d # 0
      BY <1>3
    <3> QED BY <1>1, <1>2, <3>1
  <2>3. CASE x.op = "const"
    <3>1. x.v \in Word
      BY <2>1 DEF Expr
    <3> HIDE DEF x
    <3> QED BY <2>2, <2>3, <3>1 DEF EvalNode, BinOps
  <2>4. CASE x.op = "field"
    <3>1. <<x.h, x.f>> \in DOMAIN env2
      <4> HIDE DEF x
      <4> QED BY <2>2, <2>4 DEF RefsOf
    <3>2. EvalNode(x, env2, val) = Uint(env2[<<x.h, x.f>>])
      <4> HIDE DEF x
      <4> QED BY <2>4, <3>1 DEF EvalNode, BinOps
    <3>3. env2[<<x.h, x.f>>] \in Seq(Bit)
      BY <3>1
    <3> QED BY <2>2, <3>2, <3>3, UintIsWord
  <2>5. CASE x.op \in BinOps
    <3>1. x.l \in 1 .. d - 1 /\ x.r \in 1 .. d - 1
      BY <2>1, <2>5
    <3>2. x.op # "field"
      BY <2>5 DEF BinOps
    <3>3. refs[x.l] \subseteq DOMAIN env2 /\ refs[x.r] \subseteq DOMAIN env2
      <4> HIDE DEF x
      <4> QED BY <2>2, <2>5, <3>2 DEF RefsOf
    <3>4. x.l \in 0 .. d - 1 /\ x.r \in 0 .. d - 1 /\ x.l \in 1 .. n /\ x.r \in 1 .. n
      BY <1>3, <3>1
    <3>5. val[x.l] \in Word /\ val[x.r] \in Word
      BY <1>4, <3>3, <3>4
    <3>6. Unresolved \notin Word
      BY WordSize DEF Unresolved, Word
    <3>7. EvalNode(x, env2, val) = Arith(x.op, val[x.l], val[x.r])
      <4>1. x.op # "const" /\ x.op # "field"
        BY <2>5 DEF BinOps
      <4> HIDE DEF x
      <4> QED BY <2>5, <3>5, <3>6, <4>1 DEF EvalNode
    <3> HIDE DEF x
    <3> QED BY <2>2, <2>5, <3>5, <3>7, ArithIsWord
  <2>6. x.op \in BinOps \cup {"const", "field"}
    BY <2>1 DEF Expr
  <2> QED BY <2>3, <2>4, <2>5, <2>6
<1>5. \A d \in Nat : d \in U
  <2> HIDE DEF U
  <2> QED BY <1>4, StrongSetInduction
<1>6. e \in Nat /\ e \in 0 .. n /\ e \in 1 .. n
  BY <1>3
<1>7. e \in U
  BY <1>5, <1>6
<1> QED BY <1>1, <1>2, <1>6, <1>7

(***************************************************************************)
(* The instances and their types.                                          *)
(***************************************************************************)

\* A non-empty set of places has a last one.
LEMMA MaxIsMember ==
  ASSUME NEW n \in Nat, NEW S \in SUBSET (1 .. n), S # {}
  PROVE  Max(S) \in S
<1> DEFINE T == {n - x : x \in S}
<1>1. T \in SUBSET Nat /\ T # {}
  <2>1. \A x \in S : n - x \in Nat
    BY SMT
  <2>2. T \subseteq Nat
    BY <2>1
  <2> QED BY <2>2
<1>2. PICK m \in T : \A y \in T : m <= y
  <2> HIDE DEF T
  <2> QED BY <1>1, LeastNatural
<1>3. PICK x \in S : m = n - x
  OBVIOUS
<1>4. \A y \in S : x >= y
  <2> SUFFICES ASSUME NEW y \in S
               PROVE  x >= y
    OBVIOUS
  <2>1. n - y \in T
    OBVIOUS
  <2>2. m <= n - y
    BY <1>2, <2>1
  <2> QED BY <1>3, <2>2
<1> QED BY <1>4 DEF Max

\* The extracts of a description.
AllExtracts(i) == UNION {ToSet(i.states[s].extracts) : s \in DOMAIN i.states}

\* The type an instance's fields are looked up in is the one of an extract.
LEMMA InstanceTypeIsExtracted ==
  ASSUME NEW i, IsIr(i), NEW n \in DOMAIN InstanceTypes(i)
  PROVE  \E x \in AllExtracts(i) : Instance(x) = n /\ InstanceTypes(i)[n] = x.type
<1> DEFINE X == AllExtracts(i)
           seqs == [k \in DOMAIN i.order |-> i.states[i.order[k]].extracts]
           all == Extractions(i)
           known == {k \in DOMAIN all : all[k].type \in DOMAIN i.types}
           S == {k \in known : Instance(all[k]) = n}
<1>1. /\ Len(i.order) \in Nat /\ DOMAIN i.order = 1 .. Len(i.order)
      /\ \A k \in DOMAIN i.order : i.order[k] \in DOMAIN i.states
  BY OrderListsStates DEF IsIr
<1>2. ASSUME NEW s \in DOMAIN i.states
      PROVE  i.states[s].extracts \in Seq(X)
  <2>1. i.states[s].extracts \in Seq(Extract)
    BY DEF IsIr, State
  <2>2. \A k \in DOMAIN i.states[s].extracts : i.states[s].extracts[k] \in X
    BY <2>1 DEF ToSet, AllExtracts
  <2> QED BY <2>1, <2>2
<1>3. seqs \in Seq(Seq(X))
  <2> DEFINE W == Seq(X)
  <2>1. \A k \in 1 .. Len(i.order) : i.states[i.order[k]].extracts \in W
    BY <1>1, <1>2
  <2> HIDE DEF W
  <2>2. seqs \in Seq(W)
    BY <1>1, <2>1
  <2> QED BY <2>2 DEF W
<1>4. all \in Seq(X)
  <2>1. FlattenSeq(seqs) \in Seq(X)
    <3> HIDE DEF X, seqs
    <3> QED BY <1>3, FlattenIsSeq
  <2> QED BY <2>1 DEF Extractions
<1>5. InstanceTypes(i) = [m \in {Instance(all[k]) : k \in known} |->
                           all[Max({k \in known : Instance(all[k]) = m})].type]
  BY DEF InstanceTypes
<1> HIDE DEF all, X
<1>6. InstanceTypes(i)[n] = all[Max(S)].type /\ S # {}
  BY <1>5
<1>7. Len(all) \in Nat /\ S \subseteq 1 .. Len(all) /\ \A k \in 1 .. Len(all) : all[k] \in X
  BY <1>4
<1>8. Max(S) \in S
  <2> HIDE DEF S
  <2> QED BY <1>6, <1>7, MaxIsMember
<1>9. all[Max(S)] \in X /\ Instance(all[Max(S)]) = n
  BY <1>7, <1>8
<1> QED BY <1>6, <1>9 DEF X

(***************************************************************************)
(* Whole bytes.                                                            *)
(***************************************************************************)
LEMMA FixedBitsUnfold ==
  ASSUME NEW fields \in Seq(Field)
  PROVE  /\ FixedBits(fields, 0) = 0
         /\ \A j \in 1 .. Len(fields) :
              FixedBits(fields, j) = FixedBits(fields, j - 1)
                                     + (IF fields[j].width = "bits" THEN fields[j].n ELSE 0)
         /\ \A j \in 0 .. Len(fields) : FixedBits(fields, j) \in Nat
<1> DEFINE n == Len(fields)
           own == [k \in 1 .. n |-> IF fields[k].width = "bits" THEN fields[k].n ELSE 0]
           Body(f, k) == IF k = 0 THEN 0
                         ELSE f[k - 1] + (IF fields[k].width = "bits" THEN fields[k].n ELSE 0)
           step == [f \in [0 .. n -> Nat] |-> [k \in 0 .. n |-> Body(f, k)]]
           sum == CHOOSE v : v = [k \in 0 .. Len(fields) |-> Body(v, k)]
<1>1. \A j : FixedBits(fields, j) = sum[j]
  BY DEF FixedBits
<1>2. n \in Nat /\ \A k \in 1 .. n : fields[k] \in Field
  OBVIOUS
<1>3. \A k \in 1 .. n : fields[k].n \in Nat
  BY <1>2 DEF Field
<1>4. ASSUME NEW f, NEW k \in 0 .. n, k > 0 => f[k - 1] \in Nat
      PROVE  Body(f, k) \in Nat
  BY <1>2, <1>3, <1>4
<1>5. IsStep(step, 0, n, Nat)
  <2>1. ASSUME NEW f \in [0 .. n -> Nat], NEW k \in 0 .. n
        PROVE  step[f][k] \in Nat
    <3>1. k > 0 => f[k - 1] \in Nat
      BY <1>2
    <3>2. Body(f, k) \in Nat
      BY <1>4, <3>1
    <3> QED BY <3>2
  <2>2. ASSUME NEW f \in [0 .. n -> Nat], NEW g \in [0 .. n -> Nat], NEW k \in 0 .. n,
               \A j \in 0 .. k - 1 : f[j] = g[j]
        PROVE  step[f][k] = step[g][k]
    BY <1>2, <2>2
  <2> HIDE DEF step
  <2> QED BY <2>1, <2>2 DEF IsStep
<1>6. \E f \in [0 .. n -> Nat] : \A k \in 0 .. n : f[k] = step[f][k]
  <2> HIDE DEF step
  <2> QED BY <1>2, <1>5, Recursion
<1>7. sum = [k \in 0 .. n |-> Body(sum, k)]
  <2>1. \E v : v = [k \in 0 .. n |-> Body(v, k)]
    <3> HIDE DEF Body
    <3> QED BY <1>6
  <2> QED BY <2>1
<1> HIDE DEF sum
<1>8. \A k \in 0 .. n : sum[k] = Body(sum, k)
  <2> HIDE DEF Body
  <2> QED BY <1>7
<1> DEFINE U == {m \in Nat : m <= n => sum[m] \in Nat}
<1>9. 0 \in U
  BY <1>2, <1>8
<1>10. ASSUME NEW m \in Nat, m \in U
       PROVE  m + 1 \in U
  BY <1>2, <1>4, <1>8, <1>10
<1>11. \A m \in Nat : m \in U
  <2> HIDE DEF U
  <2> QED BY <1>9, <1>10, NatSetInduction
<1>12. sum[0] = 0 /\ \A j \in 0 .. n : sum[j] \in Nat
  BY <1>2, <1>8, <1>11
<1>13. \A j \in 1 .. n : sum[j] = sum[j - 1] + (IF fields[j].width = "bits" THEN fields[j].n ELSE 0)
  BY <1>2, <1>8
<1> QED BY <1>1, <1>12, <1>13

Whole(x) == \E q \in Int : x = q * ByteBits

LEMMA WholeIsAligned == \A x \in Int : Whole(x) <=> x % ByteBits = 0
<1> SUFFICES ASSUME NEW x \in Int
             PROVE  Whole(x) <=> x % ByteBits = 0
  OBVIOUS
<1>1. ByteBits \in Nat \ {0}
  BY ByteBitsAssumption
<1>2. ASSUME x % ByteBits = 0
      PROVE  Whole(x)
  <2>1. x = (ByteBits * (x \div ByteBits)) + (x % ByteBits) /\ x \div ByteBits \in Int
    BY <1>1
  <2> DEFINE q == x \div ByteBits
  <2>2. q \in Int /\ x = q * ByteBits
    BY <1>1, <1>2, <2>1
  <2> QED BY <2>2 DEF Whole
<1>3. ASSUME NEW q \in Int, x = q * ByteBits
      PROVE  x % ByteBits = 0
  BY <1>1, <1>3
<1> QED BY <1>2, <1>3 DEF Whole

LEMMA WholeSums ==
  ASSUME NEW x \in Int, NEW y \in Int
  PROVE  /\ Whole(0)
         /\ Whole(x * ByteBits)
         /\ Whole(x) /\ Whole(y) => Whole(x + y)
<1>1. ByteBits \in Int
  BY ByteBitsAssumption
<1>2. 0 = 0 * ByteBits
  BY <1>1
<1>3. ASSUME NEW a \in Int, NEW b \in Int, x = a * ByteBits, y = b * ByteBits
      PROVE  x + y = (a + b) * ByteBits /\ a + b \in Int
  BY <1>1, <1>3
<1> QED BY <1>2, <1>3 DEF Whole

(***************************************************************************)
(* What a clean validation says.                                           *)
(***************************************************************************)

\* The structural checks: every field has a width, every length, every key
\* and every extract names something that is there, every state has a
\* transition.
LEMMA StructureIsSound ==
  ASSUME NEW i, StructuralErrors(i) = {}
  PROVE  /\ \A t \in DOMAIN i.types : \A f \in ToSet(i.types[t]) :
              /\ f.width # "none"
              /\ f.width = "bytes" => \A r \in Refs(i, f.n) : RefResolves(i, r)
         /\ \A s \in DOMAIN i.states :
              /\ \A x \in ToSet(i.states[s].extracts) : x.type \in DOMAIN i.types
              /\ i.states[s].trans.kind # "none"
              /\ i.states[s].trans.kind = "select" =>
                   \A k \in ToSet(i.states[s].trans.keys) :
                     \A r \in Refs(i, k) : RefResolves(i, r)
<1>1. FieldErrors(i) = {}
  BY DEF StructuralErrors
<1>2. ASSUME NEW t \in DOMAIN i.types, NEW f \in ToSet(i.types[t])
      PROVE  /\ f.width # "none"
             /\ f.width = "bytes" => \A r \in Refs(i, f.n) : RefResolves(i, r)
  <2>1. ASSUME f.width = "none"
        PROVE  FALSE
    <3>1. <<"width", t, f.name>> \in FieldErrors(i)
      BY <2>1 DEF FieldErrors
    <3> QED BY <1>1, <3>1
  <2>2. ASSUME f.width = "bytes", NEW r \in Refs(i, f.n), ~ RefResolves(i, r)
        PROVE  FALSE
    <3>1. <<"width ref", t, f.name>> \in FieldErrors(i)
      BY <2>2 DEF FieldErrors
    <3> QED BY <1>1, <3>1
  <2> QED BY <2>1, <2>2
<1>3. ASSUME NEW s \in DOMAIN i.states
      PROVE  /\ \A x \in ToSet(i.states[s].extracts) : x.type \in DOMAIN i.types
             /\ i.states[s].trans.kind # "none"
             /\ i.states[s].trans.kind = "select" =>
                  \A k \in ToSet(i.states[s].trans.keys) :
                    \A r \in Refs(i, k) : RefResolves(i, r)
  <2>1. ExtractErrors(i, s) = {} /\ TransitionErrors(i, s) = {}
    BY DEF StructuralErrors
  <2>2. ASSUME NEW x \in ToSet(i.states[s].extracts), x.type \notin DOMAIN i.types
        PROVE  FALSE
    <3>1. <<"header type", s, x.type>> \in ExtractErrors(i, s)
      BY <2>2 DEF ExtractErrors
    <3> QED BY <2>1, <3>1
  <2>3. ASSUME i.states[s].trans.kind = "none"
        PROVE  FALSE
    <3>1. <<"no transition", s>> \in TransitionErrors(i, s)
      BY <2>3 DEF TransitionErrors
    <3> QED BY <2>1, <3>1
  <2>4. ASSUME i.states[s].trans.kind = "select", NEW k \in ToSet(i.states[s].trans.keys),
               NEW r \in Refs(i, k), ~ RefResolves(i, r)
        PROVE  FALSE
    <3>1. <<"key ref", s, r[1], r[2]>> \in TransitionErrors(i, s)
      BY <2>4 DEF TransitionErrors
    <3> QED BY <2>1, <3>1
  <2> QED BY <2>2, <2>3, <2>4
<1> QED BY <1>2, <1>3

\* The definite-extraction check: what a length or a key refers to is
\* available where it is evaluated.
LEMMA UsesAreSound ==
  ASSUME NEW i, NEW ins, NEW s, UseErrors(i, ins, s) = {}
  PROVE  /\ \A k \in DOMAIN i.states[s].extracts :
              \A f \in ToSet(i.types[i.states[s].extracts[k].type]) : f.width = "bytes" =>
                \A r \in Refs(i, f.n) : r[1] \in Available(i, ins, s, k)
         /\ i.states[s].trans.kind = "select" =>
              \A k \in ToSet(i.states[s].trans.keys) : \A r \in Refs(i, k) :
                r[1] \in Available(i, ins, s, Len(i.states[s].extracts))
<1>1. ASSUME NEW k \in DOMAIN i.states[s].extracts,
             NEW f \in ToSet(i.types[i.states[s].extracts[k].type]), f.width = "bytes",
             NEW r \in Refs(i, f.n), r[1] \notin Available(i, ins, s, k)
      PROVE  FALSE
  <2> DEFINE xs == i.states[s].extracts
             lens == {g \in ToSet(i.types[xs[k].type]) : g.width = "bytes"}
             bad == {q \in UNION {Refs(i, g.n) : g \in lens} : q[1] \notin Available(i, ins, s, k)}
             errors == {<<"not definitely extracted", s, q[1], q[2]>> : q \in bad}
  <2>1. f \in lens
    BY <1>1
  <2>2. r \in bad
    <3> HIDE DEF lens
    <3> QED BY <1>1, <2>1
  <2>3. <<"not definitely extracted", s, r[1], r[2]>> \in errors
    <3> HIDE DEF bad
    <3> QED BY <2>2
  <2>4. errors \subseteq UseErrors(i, ins, s)
    BY <1>1 DEF UseErrors
  <2> HIDE DEF errors
  <2> QED BY <2>3, <2>4
<1>2. ASSUME i.states[s].trans.kind = "select", NEW k \in ToSet(i.states[s].trans.keys),
             NEW r \in Refs(i, k),
             r[1] \notin Available(i, ins, s, Len(i.states[s].extracts))
      PROVE  FALSE
  <2>1. <<"not definitely extracted", s, r[1], r[2]>> \in UseErrors(i, ins, s)
    BY <1>2 DEF UseErrors
  <2> QED BY <2>1
<1> QED BY <1>1, <1>2

(***************************************************************************)
(* An accepted and closed description never fails the interpreter.  The    *)
(* inductive invariant: headers are made of extracts and of their type's   *)
(* fields, and the cursor is off a byte boundary by the fixed-width fields *)
(* of the header under construction at most.                               *)
(***************************************************************************)
OfIr(i, h) ==
  /\ \E x \in AllExtracts(i) : h.instance = Instance(x) /\ h.type = x.type
  /\ h.type \in DOMAIN i.types
  /\ \A j \in DOMAIN h.fields :
       /\ j \in DOMAIN i.types[h.type]
       /\ h.fields[j].name = i.types[h.type][j].name
       /\ i.types[h.type][j].width = "bits" => h.fields[j].fixed

AlignedInv ==
  HasVarLength(ir) =>
    /\ pc \in {"enter", "extract"} => Whole(cursor)
    /\ pc = "field" => Whole(cursor - FixedBits(Fields, Len(parsed.fields)))

ShapeInv ==
  /\ \A k \in DOMAIN headers : OfIr(ir, headers[k])
  /\ pc = "field" => OfIr(ir, parsed) /\ parsed.type = Extracts[ex + 1].type

CleanInv ==
  /\ vpc # "done" => headers = <<>> /\ cursor = 0 /\ result = Running
  /\ Loaded => \A s \in DOMAIN ir.states : UseErrors(ir, inset, s) = {}
  /\ Loaded /\ Closed(ir) => ~ Bailed /\ ShapeInv /\ AlignedInv

\* A reference to an instance that is complete is in the environment.
LEMMA CompleteIsRead ==
  ASSUME TypeOK, EnvInv, pc \in {"extract", "field"}, ShapeInv, ~ Bailed, Closed(ir),
         NEW e \in 0 .. Len(ir.exprs), NEW r \in Refs(ir, e), RefResolves(ir, r), Complete(r[1])
  PROVE  r \in DOMAIN env
<1>0. IsIr(ir) /\ headers \in Seq(ParsedHeader)
  BY IrFacts DEF TypeOK
<1>1. PICK m \in 1 .. Len(ir.exprs) :
        ir.exprs[m].op = "field" /\ r = <<ir.exprs[m].h, ir.exprs[m].f>>
  BY <1>0, RefsAreFields
<1>2. PICK a \in DOMAIN headers : /\ headers[a].instance = r[1]
                                  /\ Len(headers[a].fields) = Len(ir.types[headers[a].type])
  BY DEF Complete
<1> DEFINE h == headers[a]
<1>3. OfIr(ir, h) /\ h \in ParsedHeader /\ a \in Nat
  BY <1>0 DEF ShapeInv
<1>4. h.type = InstanceTypes(ir)[r[1]]
  <2>1. PICK x \in AllExtracts(ir) : Instance(x) = r[1] /\ InstanceTypes(ir)[r[1]] = x.type
    BY <1>0, InstanceTypeIsExtracted DEF RefResolves
  <2>2. PICK y \in AllExtracts(ir) : Instance(y) = r[1] /\ h.type = y.type
    BY <1>2, <1>3 DEF OfIr
  <2>3. x.type = y.type
    BY <2>1, <2>2 DEF Closed, OneTypePerInstance, AllExtracts
  <2> QED BY <2>1, <2>2, <2>3
<1>5. PICK j \in DOMAIN ir.types[h.type] : ir.types[h.type][j].name = r[2]
  BY <1>4 DEF RefResolves, FieldNames, ToSet
<1>6. ir.types[h.type][j].width = "bits"
  <2>1. m \in DOMAIN ir.exprs
    BY <1>0 DEF IsIr
  <2> QED BY <1>1, <1>3, <1>5, <2>1 DEF Closed, CompleteExprs, OfIr
<1>7. j \in DOMAIN h.fields /\ j \in Nat
  <2>1. ir.types[h.type] \in Seq(Field)
    BY <1>0, <1>3 DEF IsIr, OfIr
  <2>2. h.fields \in Seq(ParsedField)
    BY <1>3 DEF ParsedHeader
  <2> QED BY <1>2, <2>1, <2>2
<1>8. h.fields[j].fixed /\ h.fields[j].name = r[2]
  BY <1>3, <1>5, <1>6, <1>7 DEF OfIr
<1>9. a \in DOMAIN HeadersSoFar /\ HeadersSoFar[a] = h
  BY <1>0, <1>2 DEF HeadersSoFar, TypeOK
<1>10. IsRead(HeadersSoFar, a, j) /\ NameAt(HeadersSoFar, a, j) = <<r[1], r[2]>>
  BY <1>2, <1>7, <1>8, <1>9 DEF IsRead, NameAt
<1>11. EnvSound(HeadersSoFar, env)
  BY DEF EnvInv
<1>12. <<r[1], r[2]>> \in DOMAIN env
  BY <1>3, <1>7, <1>10, <1>11 DEF EnvSound
<1> QED BY <1>1, <1>12

\* So is one to the header under construction: validation let it look back at
\* a field that is already read.
LEMMA OwnIsRead ==
  ASSUME TypeOK, EnvInv, ShapeInv, ~ Bailed, Closed(ir), Reading("bytes"),
         NEW r \in Refs(ir, NextField.n), RefResolves(ir, r), r[1] = parsed.instance
  PROVE  r \in DOMAIN env
<1> DEFINE t == parsed.type
           j == Len(parsed.fields) + 1
<1>0. IsIr(ir) /\ headers \in Seq(ParsedHeader) /\ parsed \in ParsedHeader /\ t \in DOMAIN ir.types
  BY IrFacts DEF TypeOK, Reading
<1>1. pc = "field" /\ OfIr(ir, parsed) /\ NextField = ir.types[t][j] /\ NextField.width = "bytes"
  BY DEF Reading, ShapeInv, NextField, Fields
<1>2. j \in DOMAIN ir.types[t] /\ NextField.n \in 0 .. Len(ir.exprs)
      /\ DOMAIN ir.exprs = 1 .. Len(ir.exprs)
  <2>1. Fields \in Seq(Field) /\ Len(parsed.fields) \in Nat /\ Len(parsed.fields) < Len(Fields)
    BY <1>1, FieldFacts DEF Reading
  <2>2. j \in DOMAIN ir.types[t]
    BY <2>1 DEF Fields
  <2>3. ir.exprs \in Seq(Expr)
    BY <1>0 DEF IsIr
  <2>4. NextField.n \in DOMAIN ir.exprs
    BY <1>0, <1>1, <2>2 DEF IsIr
  <2> QED BY <2>2, <2>3, <2>4
<1>3. PICK m \in 1 .. Len(ir.exprs) :
        ir.exprs[m].op = "field" /\ r = <<ir.exprs[m].h, ir.exprs[m].f>>
  BY <1>0, <1>2, RefsAreFields
<1>4. t = InstanceTypes(ir)[r[1]]
  <2>1. PICK x \in AllExtracts(ir) : Instance(x) = r[1] /\ InstanceTypes(ir)[r[1]] = x.type
    BY <1>0, InstanceTypeIsExtracted DEF RefResolves
  <2>2. PICK y \in AllExtracts(ir) : Instance(y) = r[1] /\ t = y.type
    BY <1>1 DEF OfIr
  <2>3. x.type = y.type
    BY <2>1, <2>2 DEF Closed, OneTypePerInstance, AllExtracts
  <2> QED BY <2>1, <2>2, <2>3
<1>5. LengthsLookBack(ir)
  <2>1. NextField \in ToSet(ir.types[t])
    BY <1>1, <1>2 DEF ToSet
  <2> QED BY <1>0, <1>1, <2>1 DEF Closed, HasVarLength
<1>6. PICK k \in 1 .. j - 1 : ir.types[t][k].name = r[2]
  BY <1>0, <1>1, <1>2, <1>4, <1>5 DEF LengthsLookBack
<1>7. k \in DOMAIN parsed.fields /\ k \in DOMAIN ir.types[t] /\ k \in Nat
  <2>1. parsed.fields \in Seq(ParsedField)
    BY <1>0 DEF ParsedHeader
  <2>2. ir.types[t] \in Seq(Field)
    BY <1>0 DEF IsIr
  <2> QED BY <1>2, <1>6, <2>1, <2>2
<1>8. ir.types[t][k].width = "bits"
  <2>1. m \in DOMAIN ir.exprs
    BY <1>2
  <2> QED BY <1>0, <1>3, <1>6, <1>7, <2>1 DEF Closed, CompleteExprs
<1>9. parsed.fields[k].fixed /\ parsed.fields[k].name = r[2]
  BY <1>1, <1>6, <1>7, <1>8 DEF OfIr
<1> DEFINE a == Len(headers) + 1
<1>10. a \in DOMAIN HeadersSoFar /\ HeadersSoFar[a] = parsed /\ a \in Nat
  BY <1>0, <1>1 DEF HeadersSoFar
<1>11. IsRead(HeadersSoFar, a, k) /\ NameAt(HeadersSoFar, a, k) = <<r[1], r[2]>>
  BY <1>7, <1>9, <1>10 DEF IsRead, NameAt
<1>12. EnvSound(HeadersSoFar, env)
  BY DEF EnvInv
<1>13. <<r[1], r[2]>> \in DOMAIN env
  <2> HIDE DEF a
  <2> QED BY <1>7, <1>10, <1>11, <1>12 DEF EnvSound
<1> QED BY <1>3, <1>13

\* A length evaluates, and its field starts on a byte boundary.
LEMMA LengthResolves ==
  ASSUME TypeOK, EnvInv, CertainInv, CleanInv, Loaded, Closed(ir), Reading("bytes")
  PROVE  LenBytes \in Word /\ Aligned
<1>0. /\ IsIr(ir) /\ pc = "field" /\ ex \in Nat /\ ex < Len(Extracts) /\ current \in DOMAIN ir.states
      /\ parsed \in ParsedHeader /\ parsed.type \in DOMAIN ir.types /\ cursor \in Int
  BY IrFacts DEF TypeOK, Reading, Avail
<1>1. /\ ~ Bailed /\ ShapeInv /\ AlignedInv
      /\ \A s \in DOMAIN ir.states : UseErrors(ir, inset, s) = {}
      /\ StructuralErrors(ir) = {}
  BY DEF CleanInv, CertainInv
<1> DEFINE j == Len(parsed.fields) + 1
           f == NextField
<1>2. /\ f = ir.types[parsed.type][j] /\ f.width = "bytes" /\ j \in DOMAIN ir.types[parsed.type]
      /\ j - 1 \in 0 .. Len(ir.types[parsed.type]) /\ Len(parsed.fields) = j - 1
      /\ Fields = ir.types[parsed.type] /\ Fields \in Seq(Field)
  <2>1. Fields \in Seq(Field) /\ Len(parsed.fields) \in Nat /\ Len(parsed.fields) < Len(Fields)
    BY <1>0, FieldFacts DEF Reading
  <2> QED BY <2>1 DEF Reading, NextField, Fields
<1>3. f \in ToSet(ir.types[parsed.type])
  BY <1>2 DEF ToSet
<1>4. f.n \in DOMAIN ir.exprs /\ DOMAIN ir.exprs = 1 .. Len(ir.exprs) /\ Len(ir.exprs) \in Nat
  BY <1>0, <1>2 DEF IsIr
<1>5. ASSUME NEW r \in Refs(ir, f.n)
      PROVE  r \in DOMAIN env
  <2>1. RefResolves(ir, r)
    BY <1>0, <1>1, <1>2, <1>3, StructureIsSound
  <2>2. ex + 1 \in DOMAIN Extracts
    <3>1. Extracts \in Seq(Extract)
      BY <1>0, StateFacts
    <3> QED BY <1>0, <3>1
  <2>3. parsed.type = Extracts[ex + 1].type
    BY <1>0, <1>1 DEF ShapeInv
  <2>4. r[1] \in Available(ir, inset, current, ex + 1)
    BY <1>0, <1>1, <1>2, <1>3, <2>2, <2>3, UsesAreSound DEF Extracts
  <2>5. r[1] \in Available(ir, inset, current, ex) \/ r[1] = Instance(Extracts[ex + 1])
    <3>1. \A k \in 1 .. ex + 1 : k \in 1 .. ex \/ k = ex + 1
      BY <1>0
    <3> QED BY <2>4, <3>1 DEF Available, Extracts
  <2>6. CASE r[1] \in Available(ir, inset, current, ex)
    <3>1. Complete(r[1])
      BY <1>0, <2>6 DEF CertainInv
    <3>2. f.n \in 0 .. Len(ir.exprs)
      BY <1>4
    <3> QED BY <1>0, <1>1, <2>1, <3>1, <3>2, CompleteIsRead
  <2>7. CASE r[1] = Instance(Extracts[ex + 1])
    <3>1. r[1] = parsed.instance
      BY <1>0, <2>7 DEF CertainInv
    <3> QED BY <1>1, <2>1, <3>1, OwnIsRead
  <2> QED BY <2>5, <2>6, <2>7
<1>6. LenBytes \in Word
  <2>1. CompleteExprs(ir)
    BY DEF Closed
  <2>2. env \in [DOMAIN env -> Seq(Bit)]
    BY DEF TypeOK
  <2>3. f.n \in 1 .. Len(ir.exprs) /\ Refs(ir, f.n) \subseteq DOMAIN env
    BY <1>4, <1>5
  <2>4. EvalExpr(ir, f.n, env) \in Word
    BY <1>0, <2>1, <2>2, <2>3, EvalResolves
  <2> QED BY <2>4 DEF LenBytes
<1>7. Aligned
  <2>1. HasVarLength(ir)
    BY <1>0, <1>2, <1>3 DEF HasVarLength
  <2>2. FixedBits(Fields, j - 1) % ByteBits = 0
    <3>1. ir.types[parsed.type][(j - 1) + 1].width = "bytes"
      BY <1>2
    <3>2. WholeBytes(ir)
      BY <2>1 DEF Closed
    <3> QED BY <1>0, <1>2, <3>1, <3>2 DEF WholeBytes
  <2>3. FixedBits(Fields, j - 1) \in Int
    BY <1>2, FixedBitsUnfold
  <2> DEFINE b == FixedBits(Fields, j - 1)
  <2>4. Whole(cursor - b) /\ Whole(b)
    <3>1. Whole(cursor - b)
      BY <1>0, <1>1, <1>2, <2>1 DEF AlignedInv
    <3>2. Whole(b)
      BY <2>2, <2>3, WholeIsAligned
    <3> QED BY <3>1, <3>2
  <2> HIDE DEF b
  <2>5. cursor - b \in Int /\ (cursor - b) + b = cursor /\ b \in Int
    <3>1. b \in Int
      BY <2>3 DEF b
    <3> QED BY <1>0, <3>1
  <2>6. Whole(cursor)
    BY <2>4, <2>5, WholeSums
  <2> QED BY <1>0, <2>6, WholeIsAligned DEF Aligned
<1> QED BY <1>6, <1>7

\* The keys of a select evaluate.
LEMMA SelectResolves ==
  ASSUME TypeOK, EnvInv, CertainInv, CleanInv, Loaded, Closed(ir), Extracted, Trans.kind = "select"
  PROVE  KeysResolve(ir, Trans, env)
<1>0. /\ IsIr(ir) /\ pc = "extract" /\ ex = Len(Extracts) /\ current \in DOMAIN ir.states
  BY IrFacts DEF TypeOK, Extracted
<1>1. /\ ~ Bailed /\ ShapeInv
      /\ \A s \in DOMAIN ir.states : UseErrors(ir, inset, s) = {}
      /\ StructuralErrors(ir) = {}
  BY DEF CleanInv, CertainInv
<1>2. SUFFICES ASSUME NEW k \in DOMAIN Trans.keys
               PROVE  EvalExpr(ir, Trans.keys[k], env) \in Word
  BY DEF KeysResolve
<1> DEFINE e == Trans.keys[k]
<1>3. e \in 1 .. Len(ir.exprs) /\ Len(ir.exprs) \in Nat /\ e \in ToSet(Trans.keys)
  <2>1. e \in DOMAIN ir.exprs
    BY <1>0 DEF IsIr, Trans
  <2>2. DOMAIN ir.exprs = 1 .. Len(ir.exprs) /\ Len(ir.exprs) \in Nat
    BY <1>0 DEF IsIr
  <2> QED BY <2>1, <2>2 DEF ToSet
<1>4. ASSUME NEW r \in Refs(ir, e)
      PROVE  r \in DOMAIN env
  <2>1. RefResolves(ir, r)
    BY <1>0, <1>1, <1>3, StructureIsSound DEF Trans
  <2>2. r[1] \in Available(ir, inset, current, ex)
    BY <1>0, <1>1, <1>3, UsesAreSound DEF Trans, Extracts
  <2>3. Complete(r[1])
    BY <1>0, <2>2 DEF CertainInv
  <2>4. e \in 0 .. Len(ir.exprs)
    BY <1>3
  <2> QED BY <1>0, <1>1, <2>1, <2>3, <2>4, CompleteIsRead
<1>5. CompleteExprs(ir) /\ env \in [DOMAIN env -> Seq(Bit)]
  BY DEF Closed, TypeOK
<1>6. Refs(ir, e) \subseteq DOMAIN env
  BY <1>4
<1> QED BY <1>0, <1>3, <1>5, <1>6, EvalResolves

LEMMA CleanInit == LInit => CleanInv
BY DEF LInit, Init, VInit, CleanInv, Loaded

LEMMA CleanLoad ==
  ASSUME CertainInv, CleanInv, Load
  PROVE  CleanInv'
<1>1. /\ vpc # "done" /\ ir' = ir /\ pc' = pc /\ pc = "enter"
      /\ headers' = headers /\ cursor' = cursor /\ result' = result
  BY LoadKeepsIr DEF Load, VStep, CheckStructure, SweepState, SweepEnds, CheckUses, CertainInv
<1>2. headers' = <<>> /\ cursor' = 0 /\ result' = Running
  BY <1>1 DEF CleanInv
<1>3. ASSUME Loaded', NEW s \in DOMAIN ir.states
      PROVE  UseErrors(ir, inset', s) = {}
  <2>1. CASE CheckStructure
    BY <2>1, <1>3 DEF CheckStructure, Loaded
  <2>2. CASE SweepState
    BY <2>2, <1>3, <1>1 DEF SweepState, Loaded
  <2>3. CASE SweepEnds
    BY <2>3, <1>3 DEF SweepEnds, Loaded
  <2>4. CASE CheckUses
    <3>1. UNION {UseErrors(ir, inset, t) : t \in DOMAIN ir.states} = {} /\ inset' = inset
      BY <2>4, <1>3 DEF CheckUses, Loaded
    <3> QED BY <3>1
  <2> QED BY <2>1, <2>2, <2>3, <2>4 DEF Load, VStep
<1>4. ~ Bailed' /\ ShapeInv'
  BY <1>1, <1>2 DEF Bailed, ShapeInv, Running
<1>5. AlignedInv'
  <2>1. Whole(0)
    BY WholeSums
  <2> QED BY <1>1, <1>2, <2>1 DEF AlignedInv, Whole
<1> QED BY <1>1, <1>2, <1>3, <1>4, <1>5 DEF CleanInv

\* What a step of the interpreter keeps.
LEMMA CleanRun ==
  ASSUME CleanInv, Loaded, UNCHANGED <<ir, vpc, errs, inset>>,
         Closed(ir) => ~ Bailed' /\ ShapeInv' /\ AlignedInv'
  PROVE  CleanInv'
BY DEF CleanInv, Loaded

LEMMA CleanEnter ==
  ASSUME CertainInv, CleanInv, Loaded, Closed(ir), Enter
  PROVE  ~ Bailed' /\ ShapeInv' /\ AlignedInv'
<1>1. ~ Bailed /\ ShapeInv /\ AlignedInv
  BY DEF CleanInv
<1>2. /\ pc = "enter" /\ pc' # "field" /\ pc' # "enter"
      /\ headers' = headers /\ cursor' = cursor /\ ir' = ir
  BY DEF Enter, EnterState, DepthExceeded, UnknownState, Reject, Bail
<1>3. KnownState
  BY <1>2 DEF CertainInv, KnownState
<1>4. ~ Bailed'
  BY <1>1, <1>3 DEF Enter, EnterState, DepthExceeded, UnknownState, Reject, Bailed
<1>5. ShapeInv'
  BY <1>1, <1>2 DEF ShapeInv
<1>6. AlignedInv'
  BY <1>1, <1>2 DEF AlignedInv, Whole, HasVarLength
<1> QED BY <1>4, <1>5, <1>6

LEMMA CleanBegin ==
  ASSUME TypeOK, CertainInv, CleanInv, Loaded, Closed(ir), BeginHeader
  PROVE  ~ Bailed' /\ ShapeInv' /\ AlignedInv'
<1>1. ~ Bailed /\ ShapeInv /\ AlignedInv
  BY DEF CleanInv
<1> DEFINE e == Extracts[ex + 1]
<1>2. /\ pc = "extract" /\ pc' = "field" /\ headers' = headers /\ cursor' = cursor /\ ir' = ir
      /\ current' = current /\ ex' = ex /\ result' = result /\ e.type \in DOMAIN ir.types
      /\ parsed' = [instance |-> Instance(e), type |-> e.type, start |-> cursor, fields |-> <<>>]
  BY DEF BeginHeader, Extracting
<1>3. e \in ToSet(Extracts) /\ current \in DOMAIN ir.states
  <2>1. Extracts \in Seq(Extract) /\ ex \in Nat /\ ex < Len(Extracts)
    BY <1>2, StateFacts DEF BeginHeader, Extracting, TypeOK
  <2>2. ex + 1 \in DOMAIN Extracts
    BY <2>1
  <2> QED BY <1>2, <2>2 DEF ToSet, TypeOK
<1>4. e \in AllExtracts(ir)
  BY <1>3 DEF AllExtracts, Extracts
<1>5. parsed'.instance = Instance(e) /\ parsed'.type = e.type /\ parsed'.fields = <<>>
  BY <1>2
<1>6. Extracts' = Extracts
  BY <1>2 DEF Extracts
<1>7. OfIr(ir, parsed')
  BY <1>2, <1>4, <1>5 DEF OfIr
<1>8. OfIr(ir, parsed)' /\ parsed'.type = Extracts'[ex' + 1].type
  BY <1>2, <1>5, <1>6, <1>7
<1>9. ShapeInv'
  BY <1>1, <1>2, <1>8 DEF ShapeInv
<1>10. AlignedInv'
  <2> SUFFICES ASSUME HasVarLength(ir)
               PROVE  Whole(cursor' - FixedBits(Fields', Len(parsed'.fields)))
    BY <1>2 DEF AlignedInv, HasVarLength, Whole
  <2>1. Whole(cursor) /\ cursor \in Int
    BY <1>1, <1>2 DEF AlignedInv, TypeOK, Avail
  <2>2. ir.types[e.type] \in Seq(Field)
    BY <1>2, IrFacts DEF IsIr
  <2>3. FixedBits(ir.types[e.type], 0) = 0
    BY <2>2, FixedBitsUnfold
  <2>4. FixedBits(Fields', Len(parsed'.fields)) = 0
    BY <1>2, <1>5, <2>3 DEF Fields
  <2>5. cursor' - 0 = cursor
    BY <1>2, <2>1
  <2> QED BY <2>1, <2>4, <2>5
<1> QED BY <1>1, <1>2, <1>9, <1>10 DEF Bailed

LEMMA CleanEnd ==
  ASSUME TypeOK, CleanInv, Loaded, Closed(ir), EndHeader
  PROVE  ~ Bailed' /\ ShapeInv' /\ AlignedInv'
<1>1. ~ Bailed /\ ShapeInv /\ AlignedInv
  BY DEF CleanInv
<1>2. /\ pc = "field" /\ pc' = "extract" /\ headers' = Append(headers, parsed)
      /\ cursor' = cursor /\ ir' = ir /\ result' = result
      /\ Len(parsed.fields) = Len(Fields)
  BY DEF EndHeader
<1>3. headers \in Seq(ParsedHeader) /\ Fields \in Seq(Field) /\ parsed.type \in DOMAIN ir.types
      /\ cursor \in Int
  BY <1>2, FieldFacts DEF TypeOK, Avail
<1>4. ASSUME NEW k \in DOMAIN headers'
      PROVE  OfIr(ir, headers'[k])
  <2>1. (k \in DOMAIN headers /\ headers'[k] = headers[k]) \/ headers'[k] = parsed
    BY <1>2, <1>3
  <2> QED BY <1>1, <1>2, <2>1 DEF ShapeInv
<1>5. ShapeInv'
  BY <1>2, <1>4 DEF ShapeInv
<1>6. AlignedInv'
  <2> SUFFICES ASSUME HasVarLength(ir)
               PROVE  Whole(cursor)
    BY <1>2 DEF AlignedInv, HasVarLength, Whole
  <2> DEFINE n == Len(Fields)
             b == FixedBits(Fields, n)
  <2>1. Whole(cursor - b)
    BY <1>1, <1>2 DEF AlignedInv
  <2>2. b \in Int
    BY <1>3, FixedBitsUnfold
  <2>3. b % ByteBits = 0
    <3>1. n \in 0 .. Len(Fields)
      BY <1>3
    <3> QED BY <1>3, <3>1 DEF Closed, WholeBytes, Fields
  <2>4. Whole(b)
    BY <2>2, <2>3, WholeIsAligned
  <2> HIDE DEF b
  <2>5. cursor - b \in Int /\ (cursor - b) + b = cursor
    BY <1>3, <2>2
  <2> QED BY <2>1, <2>2, <2>4, <2>5, WholeSums
<1> QED BY <1>1, <1>2, <1>5, <1>6 DEF Bailed

LEMMA CleanExtractHeader ==
  ASSUME TypeOK, CertainInv, CleanInv, Loaded, Closed(ir), ExtractHeader
  PROVE  ~ Bailed' /\ ShapeInv' /\ AlignedInv'
<1>1. ~ UnknownHeaderType
  <2> SUFFICES ASSUME UnknownHeaderType PROVE FALSE
    OBVIOUS
  <2>1. Extracts \in Seq(Extract) /\ ex \in Nat /\ ex < Len(Extracts)
        /\ current \in DOMAIN ir.states
    BY StateFacts DEF UnknownHeaderType, Extracting, TypeOK
  <2>2. ex + 1 \in DOMAIN Extracts
    BY <2>1
  <2>3. Extracts[ex + 1] \in ToSet(ir.states[current].extracts)
    BY <2>2 DEF ToSet, Extracts
  <2> QED BY <2>1, <2>3, StructureIsSound DEF CertainInv, UnknownHeaderType
<1> QED BY <1>1, CleanBegin, CleanEnd DEF ExtractHeader

\* Reading a field: the cursor moves by as much as the fixed-width fields
\* read so far, or by whole bytes.
LEMMA CleanTakeField ==
  ASSUME TypeOK, CleanInv, Loaded, Closed(ir), pc = "field", Len(parsed.fields) < Len(Fields),
         NEW m \in Int, NEW fixed, TakeField(m, fixed),
         NextField.width = "bits" => m = NextField.n /\ fixed,
         NextField.width # "bits" => Whole(m),
         UNCHANGED <<ir, pc, current, ex, headers, result>>
  PROVE  ~ Bailed' /\ ShapeInv' /\ AlignedInv'
<1>1. ~ Bailed /\ ShapeInv /\ AlignedInv
  BY DEF CleanInv
<1> DEFINE n == Len(parsed.fields)
           new == [name |-> NextField.name, offset |-> cursor, bits |-> Slice(cursor, m),
                   fixed |-> fixed]
<1>2. /\ parsed \in ParsedHeader /\ parsed.type \in DOMAIN ir.types /\ cursor \in Int
      /\ Fields \in Seq(Field) /\ n \in Nat /\ n < Len(Fields)
      /\ NextField = Fields[n + 1] /\ Fields = ir.types[parsed.type]
  BY FieldFacts DEF TypeOK, Avail, NextField, Fields
<1>3. parsed' = [parsed EXCEPT !.fields = Append(@, new)] /\ cursor' = cursor + m
  BY DEF TakeField
<1>4. parsed.fields \in Seq(ParsedField)
  BY <1>2 DEF ParsedHeader
<1>5. /\ parsed'.type = parsed.type /\ parsed'.instance = parsed.instance
      /\ parsed'.fields = Append(parsed.fields, new)
  BY <1>2, <1>3 DEF ParsedHeader
<1>6. new.name = NextField.name /\ new.fixed = fixed
  OBVIOUS
<1> HIDE DEF new
<1>7. Len(parsed'.fields) = n + 1 /\ DOMAIN parsed'.fields = 1 .. n + 1
      /\ parsed'.fields[n + 1] = new /\ \A j \in 1 .. n : parsed'.fields[j] = parsed.fields[j]
  BY <1>4, <1>5
<1>8. OfIr(ir, parsed) /\ parsed.type = Extracts[ex + 1].type
  BY <1>1 DEF ShapeInv
<1>9. ASSUME NEW j \in 1 .. n + 1
      PROVE  /\ j \in DOMAIN ir.types[parsed.type]
             /\ parsed'.fields[j].name = ir.types[parsed.type][j].name
             /\ ir.types[parsed.type][j].width = "bits" => parsed'.fields[j].fixed
  <2>1. CASE j = n + 1
    BY <1>2, <1>6, <1>7, <2>1
  <2>2. CASE j \in 1 .. n
    <3>1. j \in DOMAIN parsed.fields
      BY <1>4, <2>2
    <3> QED BY <1>7, <1>8, <2>2, <3>1 DEF OfIr
  <2> QED BY <1>2, <2>1, <2>2
<1>10. OfIr(ir, parsed')
  BY <1>5, <1>7, <1>8, <1>9 DEF OfIr
<1>11. ShapeInv'
  <2>1. OfIr(ir, parsed)' /\ Extracts' = Extracts
    BY <1>10 DEF Extracts
  <2> QED BY <1>1, <1>5, <1>8, <2>1 DEF ShapeInv
<1>12. AlignedInv'
  <2> SUFFICES ASSUME HasVarLength(ir)
               PROVE  Whole(cursor' - FixedBits(Fields', Len(parsed'.fields)))
    BY DEF AlignedInv, HasVarLength, Whole
  <2> DEFINE b == FixedBits(Fields, n)
             w == IF Fields[n + 1].width = "bits" THEN Fields[n + 1].n ELSE 0
  <2>1. Whole(cursor - b)
    BY <1>1 DEF AlignedInv
  <2>2. n + 1 \in 1 .. Len(Fields) /\ n \in 0 .. Len(Fields) /\ (n + 1) - 1 = n
    BY <1>2
  <2>3. FixedBits(Fields, n + 1) = b + w /\ b \in Int
    <3> DEFINE k == n + 1
    <3>1. k \in 1 .. Len(Fields) /\ k - 1 = n
      BY <2>2
    <3> HIDE DEF k
    <3>2. FixedBits(Fields, k)
          = FixedBits(Fields, k - 1) + (IF Fields[k].width = "bits" THEN Fields[k].n ELSE 0)
      BY <1>2, <3>1, FixedBitsUnfold
    <3>3. FixedBits(Fields, k)
          = FixedBits(Fields, n) + (IF Fields[k].width = "bits" THEN Fields[k].n ELSE 0)
      BY <3>1, <3>2
    <3>4. b \in Int
      BY <1>2, <2>2, FixedBitsUnfold
    <3> QED BY <3>3, <3>4 DEF k
  <2>4. w \in Int /\ m - w \in Int /\ Whole(m - w)
    <3>1. CASE NextField.width = "bits"
      <4>1. m - w = 0 /\ w \in Int
        BY <1>2, <3>1
      <4> QED BY <4>1, WholeSums
    <3>2. CASE NextField.width # "bits"
      <4>1. m - w = m /\ w = 0
        BY <1>2, <3>2
      <4> QED BY <4>1, <3>2
    <3> QED BY <3>1, <3>2
  <2> HIDE DEF b, w
  <2>5. cursor - b \in Int /\ (cursor - b) + (m - w) = (cursor + m) - (b + w)
    BY <1>2, <2>3, <2>4
  <2>6. Whole((cursor + m) - (b + w))
    BY <2>1, <2>4, <2>5, WholeSums
  <2>7. Fields' = Fields
    BY <1>5 DEF Fields
  <2> QED BY <1>3, <1>7, <2>3, <2>6, <2>7
<1> QED BY <1>1, <1>11, <1>12 DEF Bailed

\* A header cut short is a header of the description.
LEMMA CleanOutOfBounds ==
  ASSUME TypeOK, CleanInv, Loaded, Closed(ir), pc = "field", FieldOutOfBounds
  PROVE  ~ Bailed' /\ ShapeInv' /\ AlignedInv'
<1>1. ~ Bailed /\ ShapeInv
  BY DEF CleanInv
<1>2. pc' = "done" /\ headers' = Append(headers, parsed) /\ ir' = ir /\ result'.outcome = "reject"
  BY DEF FieldOutOfBounds, Reject
<1>3. headers \in Seq(ParsedHeader)
  BY DEF TypeOK
<1>4. ASSUME NEW k \in DOMAIN headers'
      PROVE  OfIr(ir, headers'[k])
  <2>1. (k \in DOMAIN headers /\ headers'[k] = headers[k]) \/ headers'[k] = parsed
    BY <1>2, <1>3
  <2> QED BY <1>1, <2>1 DEF ShapeInv
<1> QED BY <1>2, <1>4 DEF Bailed, ShapeInv, AlignedInv

LEMMA CleanReadField ==
  ASSUME TypeOK, EnvInv, CertainInv, CleanInv, Loaded, Closed(ir), ReadField
  PROVE  ~ Bailed' /\ ShapeInv' /\ AlignedInv'
<1>1. CASE ReadBits
  <2>1. /\ pc = "field" /\ Len(parsed.fields) < Len(Fields) /\ NextField.width = "bits"
        /\ TakeField(NextField.n, TRUE)
        /\ UNCHANGED <<ir, pc, current, ex, headers, result>>
    BY <1>1 DEF ReadBits, Reading
  <2>2. NextField.n \in Int
    BY <2>1, FieldFacts DEF Field
  <2> DEFINE m == NextField.n
  <2>3. TakeField(m, TRUE) /\ m \in Int
    BY <2>1, <2>2
  <2>4. NextField.width = "bits" => m = NextField.n /\ TRUE
    OBVIOUS
  <2>5. NextField.width # "bits" => Whole(m)
    BY <2>1
  <2> HIDE DEF m
  <2> QED BY <2>1, <2>3, <2>4, <2>5, CleanTakeField
<1>2. CASE ReadBytes
  <2>1. /\ pc = "field" /\ Len(parsed.fields) < Len(Fields) /\ NextField.width = "bytes"
        /\ TakeField(LenBytes * ByteBits, FALSE) /\ LenBytes \in Word
        /\ UNCHANGED <<ir, pc, current, ex, headers, result>>
    BY <1>2 DEF ReadBytes, Reading
  <2>2. LenBytes \in Int
    BY <2>1, WordSize DEF Word
  <2> DEFINE m == LenBytes * ByteBits
  <2>3. TakeField(m, FALSE) /\ m \in Int /\ Whole(m)
    <3>1. Whole(m)
      BY <2>2, WholeSums
    <3>2. m \in Int
      BY <2>2, ByteBitsAssumption
    <3> QED BY <2>1, <3>1, <3>2
  <2> HIDE DEF m
  <2>4. NextField.width = "bits" => m = NextField.n /\ FALSE
    BY <2>1
  <2> QED BY <2>1, <2>3, <2>4, CleanTakeField
<1>3. CASE ReadBitsOutOfBounds \/ ReadBytesOutOfBounds
  BY <1>3, CleanOutOfBounds DEF ReadBitsOutOfBounds, ReadBytesOutOfBounds, Reading
<1>4. ~ ReadBytesBails
  BY LengthResolves DEF ReadBytesBails
<1>5. ~ FieldWithoutWidth
  <2> SUFFICES ASSUME FieldWithoutWidth PROVE FALSE
    OBVIOUS
  <2>1. pc = "field" /\ Len(parsed.fields) < Len(Fields) /\ NextField.width = "none"
    BY DEF FieldWithoutWidth, Reading
  <2>2. Fields \in Seq(Field) /\ Len(parsed.fields) \in Nat
    BY <2>1, FieldFacts
  <2>3. parsed.type \in DOMAIN ir.types
    BY <2>1 DEF TypeOK
  <2>4. Len(parsed.fields) + 1 \in DOMAIN Fields /\ NextField = Fields[Len(parsed.fields) + 1]
    BY <2>1, <2>2 DEF NextField
  <2>5. NextField \in ToSet(ir.types[parsed.type])
    BY <2>4 DEF Fields, ToSet
  <2> QED BY <2>1, <2>3, <2>5, StructureIsSound DEF CertainInv
<1> QED BY <1>1, <1>2, <1>3, <1>4, <1>5 DEF ReadField

\* A target that is set is followed, or ends the run with a result.
LEMMA CleanFollow ==
  ASSUME CleanInv, Loaded, Closed(ir), pc = "extract",
         NEW kind, NEW arm, NEW target, Transit(kind, arm, target),
         target.kind \in {"state", "accept", "reject"}
  PROVE  ~ Bailed' /\ ShapeInv' /\ AlignedInv'
<1>1. ~ Bailed /\ ShapeInv /\ AlignedInv
  BY DEF CleanInv
<1>2. headers' = headers /\ cursor' = cursor /\ ir' = ir /\ Follow(target)
  BY DEF Transit
<1>3. pc' \in {"enter", "done"} /\ ~ Bailed'
  <2>1. CASE target.kind = "state"
    BY <1>1, <1>2, <2>1 DEF Follow, Bailed
  <2>2. CASE target.kind = "accept"
    BY <1>2, <2>2 DEF Follow, Accept, Bailed, Running
  <2>3. CASE target.kind = "reject"
    BY <1>2, <2>3 DEF Follow, Reject, Bailed
  <2> QED BY <2>1, <2>2, <2>3
<1>4. ShapeInv'
  BY <1>1, <1>2, <1>3 DEF ShapeInv
<1>5. AlignedInv'
  BY <1>1, <1>2, <1>3 DEF AlignedInv, HasVarLength, Whole
<1> QED BY <1>3, <1>4, <1>5

LEMMA CleanTakeTransition ==
  ASSUME TypeOK, EnvInv, CertainInv, CleanInv, Loaded, Closed(ir), TakeTransition
  PROVE  ~ Bailed' /\ ShapeInv' /\ AlignedInv'
<1>1. pc = "extract" /\ Extracted /\ current \in DOMAIN ir.states
  BY DEF TakeTransition, Direct, TakeArm, TakeDefault, NoMatchingArm, TransitionBails,
         Extracted, TypeOK
<1>2. ~ Bailed /\ ShapeInv /\ AlignedInv /\ NamesEveryTarget(ir)
  BY DEF CleanInv, Closed
<1>3. Trans \in Transition /\ IsIr(ir)
  BY <1>1, StateFacts, IrFacts
<1>4. Trans.default \in Target /\ Trans.arms \in Seq(Arm)
  BY <1>3 DEF Transition
<1>5. Trans.default.kind \in {"state", "accept", "reject", "absent"}
  <2>1. Trans.default.kind # "empty"
    BY <1>1, <1>2 DEF NamesEveryTarget, Trans
  <2> QED BY <1>4, <2>1 DEF Target
<1>6. CASE Direct
  <2>1. Trans.kind = "direct" /\ Transit("direct", 0, Trans.default)
    BY <1>6 DEF Direct
  <2>2. Trans.default.kind # "absent"
    BY <1>1, <1>3, <2>1 DEF IsIr, Trans
  <2> QED BY <1>1, <1>5, <2>1, <2>2, CleanFollow
<1>7. CASE TakeArm
  <2>1. PICK i \in MatchedArms : Transit("arm", i, Trans.arms[i].next)
    BY <1>7 DEF TakeArm
  <2>2. i \in DOMAIN Trans.arms
    BY <2>1 DEF MatchedArms, MatchingArms
  <2>3. Trans.arms[i] \in Arm /\ Trans.arms[i] \in ToSet(Trans.arms)
    BY <1>4, <2>2 DEF ToSet
  <2>4. Trans.arms[i].next \in Target
    BY <2>3 DEF Arm
  <2>5. Trans.arms[i].next.kind \notin {"empty", "absent"}
    BY <1>1, <1>2, <2>3 DEF NamesEveryTarget, Trans
  <2>6. Trans.arms[i].next.kind \in {"state", "accept", "reject"}
    BY <2>4, <2>5 DEF Target
  <2> QED BY <1>1, <2>1, <2>6, CleanFollow
<1>8. CASE TakeDefault
  <2>1. Transit("default", 0, Trans.default) /\ Trans.default.kind # "absent"
    BY <1>8 DEF TakeDefault
  <2> QED BY <1>1, <1>5, <2>1, CleanFollow
<1>9. CASE NoMatchingArm
  <2>1. pc' = "done" /\ result'.outcome = "reject" /\ headers' = headers /\ ir' = ir
    BY <1>9 DEF NoMatchingArm, Reject
  <2> QED BY <1>2, <2>1 DEF Bailed, ShapeInv, AlignedInv
<1>10. ~ TransitionBails
  <2>1. Trans.kind # "none"
    BY <1>1, StructureIsSound DEF CertainInv, Trans
  <2> QED BY <1>1, <2>1, SelectResolves DEF TransitionBails
<1> QED BY <1>6, <1>7, <1>8, <1>9, <1>10 DEF TakeTransition

LEMMA CleanNext ==
  ASSUME TypeOK, EnvInv, CertainInv, CleanInv, [LNext]_lvars
  PROVE  CleanInv'
<1>1. CASE Load
  BY <1>1, CleanLoad
<1>2. CASE Run
  <2>1. Loaded /\ Step /\ UNCHANGED <<ir, vpc, errs, inset>>
    BY <1>2, StepKeepsIr DEF Run, Loaded
  <2>2. Closed(ir) => ~ Bailed' /\ ShapeInv' /\ AlignedInv'
    BY <2>1, CleanEnter, CleanExtractHeader, CleanReadField, CleanTakeTransition DEF Step
  <2> QED BY <2>1, <2>2, CleanRun
<1>3. CASE UNCHANGED lvars
  <2>1. UNCHANGED <<ir, pc, current, ex, parsed, cursor, headers, result, vpc, errs, inset>>
    BY <1>3 DEF lvars, vars
  <2>2. Loaded' = Loaded /\ Bailed' = Bailed
    BY <2>1 DEF Loaded, Bailed
  <2>3. ShapeInv' = ShapeInv
    BY <2>1 DEF ShapeInv, Extracts
  <2>4. AlignedInv' = AlignedInv
    BY <2>1 DEF AlignedInv, Fields, HasVarLength, Whole
  <2> QED BY <2>1, <2>2, <2>3, <2>4 DEF CleanInv
<1> QED BY <1>1, <1>2, <1>3 DEF LNext, Finished

\* The checks of validate.rs leave run_bits no way to return Err but the four
\* that Closed names: an accepted description that is free of them is answered
\* with a result, on every packet.
THEOREM NeverBails == LSpec => []NeverBailsIfClosed
<1>1. LInit => TypeOK /\ EnvInv /\ CertainInv /\ CleanInv
  BY TypeInit, EnvInit, CertainInit, CleanInit DEF LInit
<1>2. TypeOK /\ VTypeOK /\ SweepInv /\ SweepInv' /\ EnvInv /\ CertainInv /\ CleanInv
      /\ [LNext]_lvars => EnvInv' /\ CertainInv' /\ CleanInv'
  BY PartsStep, EnvNext, CertainNext, CleanNext
<1>3. CleanInv => NeverBailsIfClosed
  BY DEF CleanInv, NeverBailsIfClosed
<1> QED BY <1>1, <1>2, <1>3, PartsTyped, PTL DEF LSpec
===============================================================================
