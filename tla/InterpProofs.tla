----------------------------- MODULE InterpProofs -----------------------------
(***************************************************************************)
(* Theorems about the interpreter, for every set of descriptions, every    *)
(* set of packets, every word size and every byte size; last, that it      *)
(* implements the abstract parser WireParse.                               *)
(***************************************************************************)
EXTENDS InterpRefines, DataProofs

(***************************************************************************)
(* What the assumptions say of the description being run.                  *)
(***************************************************************************)
LEMMA IrFacts ==
  ASSUME TypeOK
  PROVE  /\ IsIr(ir)
         /\ packet \in Seq(Bit)
         /\ Avail \in Nat
BY IrsAssumption, PacketsAssumption DEF TypeOK, Avail

LEMMA StateFacts ==
  ASSUME TypeOK, pc \in {"extract", "field"}
  PROVE  /\ Extracts \in Seq(Extract)
         /\ Trans \in Transition
         /\ trace # <<>>
BY IrFacts DEF TypeOK, IsIr, Extracts, Trans, State

LEMMA FieldFacts ==
  ASSUME TypeOK, pc = "field"
  PROVE  /\ Fields \in Seq(Field)
         /\ Len(parsed.fields) \in Nat
         /\ Len(parsed.fields) < Len(Fields) => NextField \in Field
<1>1. Fields \in Seq(Field)
  BY IrFacts DEF TypeOK, IsIr, Fields
<1>2. parsed.fields \in Seq(ParsedField)
  BY DEF TypeOK, ParsedHeader
<1>3. QED
  BY <1>1, <1>2 DEF NextField

LEMMA ProductIsNat == \A a, b \in Nat : a * b \in Nat
OBVIOUS

LEMMA SliceFacts ==
  ASSUME TypeOK, NEW n \in Nat, cursor + n <= Avail
  PROVE  /\ Slice(cursor, n) \in Seq(Bit)
         /\ Len(Slice(cursor, n)) = n
<1>1. cursor \in Nat /\ cursor + 1 \in Int /\ cursor + n \in Int
  BY DEF TypeOK, Avail
<1>2. packet \in Seq(Bit)
  BY IrFacts
<1>3. QED
  BY <1>1, <1>2, SubSeqProperties DEF Slice, Avail

LEMMA RejectIsResult ==
  ASSUME TypeOK, NEW reason \in STRING, NEW inst \in STRING, NEW field \in STRING,
         NEW info \in BOOLEAN, Reject(reason, inst, field, info)
  PROVE  pc' = "done" /\ result' \in Result
<1>1. cursor \in Nat /\ current \in STRING
  BY DEF TypeOK, Avail
<1>2. QED
  BY <1>1 DEF Reject, Result

LEMMA AcceptIsResult == TypeOK /\ Accept => pc' = "done" /\ result' \in Result
<1>1. TypeOK => cursor \in Nat
  BY DEF TypeOK, Avail
<1>2. Running \in Result
  BY NamesAreStrings DEF Running, Result
<1>3. QED
  BY <1>1, <1>2 DEF Accept, Result

LEMMA BailIsResult == Bail => pc' = "done" /\ result' \in Result
<1>1. Running \in Result
  BY NamesAreStrings DEF Running, Result
<1>2. QED
  BY <1>1 DEF Bail, Result

(***************************************************************************)
(* Type correctness.                                                       *)
(***************************************************************************)
LEMMA TypeInit == Init => TypeOK
<1> SUFFICES ASSUME Init PROVE TypeOK
  OBVIOUS
<1>1. IsIr(ir) /\ packet \in Seq(Bit)
  BY IrsAssumption, PacketsAssumption DEF Init
<1>2. cursor \in 0 .. Avail /\ current \in STRING
  BY <1>1 DEF Init, Avail, IsIr
<1>3. parsed \in ParsedHeader /\ result \in Result
  BY NamesAreStrings DEF Init, NoHeader, ParsedHeader, Running, Result
<1>4. DOMAIN env = {} /\ env \in [DOMAIN env -> Seq(Bit)]
  BY DEF Init
<1>5. headers \in Seq(ParsedHeader) /\ trace \in Seq(TraceStep)
  BY DEF Init
<1>6. QED
  BY <1>2, <1>3, <1>4, <1>5 DEF Init, TypeOK

\* One lemma per phase of the loop: entering, extracting, reading, leaving.
LEMMA TypeEnter == TypeOK /\ Enter => TypeOK'
<1> SUFFICES ASSUME TypeOK, Enter PROVE TypeOK'
  OBVIOUS
<1>1. Entered \in Seq(TraceStep) /\ Entered # <<>>
  <2>1. [state |-> current, decision |-> Undecided] \in TraceStep
    BY DEF TypeOK, TraceStep, Decision, Undecided
  <2>2. trace \in Seq(TraceStep)
    BY DEF TypeOK
  <2>3. QED
    BY <2>1, <2>2, AppendProperties DEF Entered
<1>2. CASE EnterState
  <2>1. 0 <= Len(Extracts')
    BY <1>2, IrFacts DEF EnterState, KnownState, Extracts, IsIr, State
  <2>2. QED
    BY <1>1, <1>2, <2>1 DEF EnterState, KnownState, TypeOK, Avail
<1>3. CASE DepthExceeded
  <2>1. pc' = "done" /\ result' \in Result
    BY <1>3, RejectIsResult, NamesAreStrings DEF DepthExceeded
  <2>2. QED
    BY <1>1, <1>3, <2>1 DEF DepthExceeded, TypeOK, Avail
<1>4. CASE UnknownState
  <2>1. pc' = "done" /\ result' \in Result
    BY <1>4, BailIsResult DEF UnknownState
  <2>2. QED
    BY <1>1, <1>4, <2>1 DEF UnknownState, TypeOK, Avail
<1>5. QED
  BY <1>2, <1>3, <1>4 DEF Enter

LEMMA TypeExtractHeader == TypeOK /\ ExtractHeader => TypeOK'
<1> SUFFICES ASSUME TypeOK, ExtractHeader PROVE TypeOK'
  OBVIOUS
<1>1. CASE BeginHeader
  <2> DEFINE e == Extracts[ex + 1]
  <2>1. e \in Extract /\ ex < Len(Extracts) /\ e.type \in DOMAIN ir.types
    BY <1>1, StateFacts DEF BeginHeader, Extracting, TypeOK
  <2>2. Instance(e) \in STRING /\ e.type \in STRING
    BY <2>1 DEF Instance, Extract
  <2>3. parsed' \in ParsedHeader /\ parsed'.type = e.type /\ Len(parsed'.fields) = 0
    BY <1>1, <2>2 DEF BeginHeader, ParsedHeader, TypeOK, Avail
  <2>4. Len(parsed'.fields) <= Len(Fields')
    <3>1. Fields' \in Seq(Field)
      BY <1>1, <2>1, <2>3, IrFacts DEF BeginHeader, Fields, IsIr
    <3>2. QED
      BY <2>3, <3>1
  <2>5. QED
    BY <1>1, <2>1, <2>3, <2>4 DEF BeginHeader, Extracting, TypeOK, Avail, Extracts
<1>2. CASE UnknownHeaderType
  <2>1. pc' = "done" /\ result' \in Result
    BY <1>2, BailIsResult DEF UnknownHeaderType
  <2>2. QED
    BY <1>2, <2>1 DEF UnknownHeaderType, TypeOK, Avail
<1>3. CASE EndHeader
  <2>1. headers' \in Seq(ParsedHeader)
    BY <1>3 DEF EndHeader, TypeOK
  <2>2. parsed' \in ParsedHeader
    BY <1>3, NamesAreStrings DEF EndHeader, NoHeader, ParsedHeader
  <2>3. ex' \in Nat /\ ex' <= Len(Extracts')
    BY <1>3, StateFacts DEF EndHeader, Extracts, TypeOK
  <2>4. QED
    BY <1>3, <2>1, <2>2, <2>3 DEF EndHeader, TypeOK, Avail
<1>4. QED
  BY <1>1, <1>2, <1>3 DEF ExtractHeader

LEMMA InsertFacts ==
  ASSUME TypeOK, NEW k \in STRING \X STRING, NEW v \in Seq(Bit), env' = Insert(env, k, v)
  PROVE  DOMAIN env' \subseteq STRING \X STRING /\ env' \in [DOMAIN env' -> Seq(Bit)]
BY DEF TypeOK, Insert

LEMMA TakeFieldFacts ==
  ASSUME TypeOK, pc = "field", Len(parsed.fields) < Len(Fields), ir' = ir, packet' = packet,
         NEW n \in Nat, cursor + n <= Avail, NEW fixed \in BOOLEAN, TakeField(n, fixed)
  PROVE  /\ parsed' \in ParsedHeader
         /\ parsed'.type = parsed.type
         /\ Len(parsed'.fields) = Len(parsed.fields) + 1
         /\ Len(parsed'.fields) <= Len(Fields')
         /\ cursor' \in 0 .. Avail'
<1> DEFINE read == [name |-> NextField.name, offset |-> cursor,
                    bits |-> Slice(cursor, n), fixed |-> fixed]
<1>1. cursor \in Nat /\ parsed \in ParsedHeader /\ parsed.fields \in Seq(ParsedField)
  BY DEF TypeOK, Avail, ParsedHeader
<1>2. read \in ParsedField
  BY <1>1, FieldFacts, SliceFacts DEF ParsedField, Field
<1>3. parsed' = [parsed EXCEPT !.fields = Append(parsed.fields, read)]
  BY DEF TakeField
<1>4. Append(parsed.fields, read) \in Seq(ParsedField)
  BY <1>1, <1>2
<1>5. /\ parsed' \in ParsedHeader
      /\ parsed'.type = parsed.type
      /\ parsed'.fields = Append(parsed.fields, read)
  BY <1>1, <1>3, <1>4 DEF ParsedHeader
<1>6. Len(parsed'.fields) = Len(parsed.fields) + 1
  BY <1>1, <1>2, <1>5
<1>7. Fields' = Fields
  BY <1>5 DEF Fields
<1>8. cursor' \in 0 .. Avail'
  BY <1>1, IrFacts DEF TakeField, Avail
<1>9. QED
  BY <1>5, <1>6, <1>7, <1>8, FieldFacts

LEMMA TypeReadField == TypeOK /\ ReadField => TypeOK'
<1> SUFFICES ASSUME TypeOK, ReadField PROVE TypeOK'
  OBVIOUS
<1>1. parsed \in ParsedHeader /\ cursor \in Nat
  BY DEF TypeOK, Avail
<1>2. ASSUME FieldOutOfBounds, Reading("bits") \/ Reading("bytes") PROVE TypeOK'
  <2>1. pc = "field" /\ NextField \in Field
    BY <1>2, FieldFacts DEF Reading
  <2>2. pc' = "done" /\ result' \in Result
    BY <1>1, <1>2, <2>1, RejectIsResult, NamesAreStrings DEF FieldOutOfBounds, Field, ParsedHeader
  <2>3. headers' \in Seq(ParsedHeader)
    BY <1>1, <1>2 DEF FieldOutOfBounds, TypeOK
  <2>4. QED
    BY <1>2, <2>2, <2>3 DEF FieldOutOfBounds, TypeOK, Avail
<1>3. CASE ReadBits
  <2>1. pc = "field" /\ Len(parsed.fields) < Len(Fields) /\ NextField \in Field
    BY <1>3, FieldFacts DEF ReadBits, Reading
  <2> DEFINE n == NextField.n
  <2>2. n \in Nat /\ NextField.name \in STRING /\ parsed.instance \in STRING
    BY <1>1, <2>1 DEF Field, ParsedHeader
  <2>3. /\ parsed' \in ParsedHeader
        /\ parsed'.type = parsed.type
        /\ Len(parsed'.fields) <= Len(Fields')
        /\ cursor' \in 0 .. Avail'
    BY <1>3, <2>1, <2>2, TakeFieldFacts DEF ReadBits
  <2>4. DOMAIN env' \subseteq STRING \X STRING /\ env' \in [DOMAIN env' -> Seq(Bit)]
    <3>1. Slice(cursor, n) \in Seq(Bit)
      BY <1>3, <2>2, SliceFacts DEF ReadBits
    <3>2. <<parsed.instance, NextField.name>> \in STRING \X STRING
      BY <2>2
    <3>3. env' = Insert(env, <<parsed.instance, NextField.name>>, Slice(cursor, n))
      BY <1>3 DEF ReadBits
    <3>4. QED
      BY <3>1, <3>2, <3>3, InsertFacts
  <2>5. QED
    BY <1>3, <2>1, <2>3, <2>4 DEF ReadBits, TypeOK, Extracts
<1>4. CASE ReadBitsOutOfBounds
  BY <1>2, <1>4 DEF ReadBitsOutOfBounds
<1>5. CASE ReadBytes
  <2>1. pc = "field" /\ Len(parsed.fields) < Len(Fields)
    BY <1>5 DEF ReadBytes, Reading
  <2>2. LenBytes * ByteBits \in Nat
    BY <1>5, ProductIsNat, ByteBitsAssumption DEF ReadBytes, Word
  <2>3. /\ parsed' \in ParsedHeader
        /\ parsed'.type = parsed.type
        /\ Len(parsed'.fields) <= Len(Fields')
        /\ cursor' \in 0 .. Avail'
    BY <1>5, <2>1, <2>2, TakeFieldFacts DEF ReadBytes
  <2>4. QED
    BY <1>5, <2>1, <2>3 DEF ReadBytes, TypeOK, Extracts
<1>6. CASE ReadBytesOutOfBounds
  BY <1>2, <1>6 DEF ReadBytesOutOfBounds
<1>7. CASE ReadBytesBails
  BY <1>7, BailIsResult DEF ReadBytesBails, TypeOK, Avail
<1>8. CASE FieldWithoutWidth
  BY <1>8, BailIsResult DEF FieldWithoutWidth, TypeOK, Avail
<1>9. QED
  BY <1>3, <1>4, <1>5, <1>6, <1>7, <1>8 DEF ReadField

LEMMA TargetFacts ==
  ASSUME TypeOK, Extracted
  PROVE  /\ Trans.default \in Target
         /\ \A i \in MatchedArms : i \in Nat /\ Trans.arms[i].next \in Target
<1>1. Trans \in Transition
  BY StateFacts DEF Extracted
<1>2. Trans.arms \in Seq(Arm)
  BY <1>1 DEF Transition
<1>3. \A i \in DOMAIN Trans.arms : i \in Nat /\ Trans.arms[i] \in Arm
  BY <1>2
<1>4. QED
  BY <1>1, <1>3 DEF Transition, Arm, MatchedArms, MatchingArms

LEMMA DecideFacts ==
  ASSUME TypeOK, trace # <<>>, NEW arm \in Nat,
         NEW kind \in {"arm", "default", "direct"}, Decide(kind, arm)
  PROVE  trace' \in Seq(TraceStep) /\ trace' # <<>>
<1> DEFINE last == Len(trace)
           decision == [kind |-> kind, arm |-> arm]
<1>1. trace \in Seq(TraceStep) /\ last \in Nat /\ last > 0
  BY DEF TypeOK
<1>2. trace[last] \in TraceStep
  BY <1>1
<1>3. decision \in Decision
  BY DEF Decision
<1>4. [trace[last] EXCEPT !.decision = decision] \in TraceStep
  BY <1>2, <1>3 DEF TraceStep
<1>5. trace' = [trace EXCEPT ![last] = [trace[last] EXCEPT !.decision = decision]]
  BY DEF Decide
<1>6. QED
  BY <1>1, <1>4, <1>5

LEMMA TypeTransit ==
  ASSUME TypeOK, trace # <<>>, NEW arm \in Nat, NEW kind \in {"arm", "default", "direct"},
         NEW target \in Target, Transit(kind, arm, target)
  PROVE  TypeOK'
<1>1. trace' \in Seq(TraceStep)
  BY DecideFacts DEF Transit
<1>2. target.to \in STRING /\ target.info \in BOOLEAN
  BY DEF Target
<1>3. /\ pc' \in {"enter", "done"}
      /\ current' \in STRING
      /\ result' \in Result
  <2>1. CASE target.kind = "state"
    BY <1>2, <2>1 DEF Transit, Follow, TypeOK
  <2>2. CASE target.kind = "accept"
    BY <2>2, AcceptIsResult DEF Transit, Follow, TypeOK
  <2>3. CASE target.kind = "reject"
    <3>1. Reject(target.to, None, None, target.info) /\ current' = current
      BY <2>3 DEF Transit, Follow
    <3>2. None \in STRING
      BY NamesAreStrings
    <3>3. QED
      BY <1>2, <3>1, <3>2, RejectIsResult DEF TypeOK
  <2>4. CASE target.kind \notin {"state", "accept", "reject"}
    BY <2>4, BailIsResult DEF Transit, Follow, TypeOK
  <2>5. QED
    BY <2>1, <2>2, <2>3, <2>4
<1>4. QED
  BY <1>1, <1>3 DEF Transit, TypeOK, Avail

LEMMA TypeTakeTransition == TypeOK /\ TakeTransition => TypeOK'
<1> SUFFICES ASSUME TypeOK, TakeTransition PROVE TypeOK'
  OBVIOUS
<1>1. Extracted /\ trace # <<>> /\ trace \in Seq(TraceStep)
  BY DEF TakeTransition, Direct, TakeArm, TakeDefault, NoMatchingArm, TransitionBails,
         Extracted, TypeOK
<1>2. CASE Direct
  BY <1>1, <1>2, TypeTransit, TargetFacts DEF Direct
<1>3. CASE TakeArm
  BY <1>1, <1>3, TypeTransit, TargetFacts DEF TakeArm
<1>4. CASE TakeDefault
  BY <1>1, <1>4, TypeTransit, TargetFacts DEF TakeDefault
<1>5. CASE NoMatchingArm
  <2>1. pc' = "done" /\ result' \in Result
    BY <1>5, RejectIsResult, NamesAreStrings DEF NoMatchingArm
  <2>2. trace' \in Seq(TraceStep)
    BY <1>1, <1>5, DecideFacts DEF NoMatchingArm
  <2>3. QED
    BY <1>5, <2>1, <2>2 DEF NoMatchingArm, TypeOK, Avail
<1>6. CASE TransitionBails
  BY <1>6, BailIsResult DEF TransitionBails, TypeOK, Avail
<1>7. QED
  BY <1>2, <1>3, <1>4, <1>5, <1>6 DEF TakeTransition

LEMMA TypeStutter == TypeOK /\ UNCHANGED vars => TypeOK'
BY DEF TypeOK, vars, Avail, Extracts, Fields

LEMMA TypeNext == TypeOK /\ [Next]_vars => TypeOK'
BY TypeEnter, TypeExtractHeader, TypeReadField, TypeTakeTransition, TypeStutter
   DEF Next, Step, Returned

\* The interpreter's state is well-typed at every step of every run: the
\* cursor never leaves the packet, and the loops never index a state, a
\* header type, an extract or a field that is not there (run_bits).
THEOREM TypeCorrect == Spec => []TypeOK
BY TypeInit, TypeNext, PTL DEF Spec

(***************************************************************************)
(* The trace.  TraceIsPath alone is not inductive: which state the last    *)
(* step belongs to, and where its decision leads, depend on pc.            *)
(***************************************************************************)
LeadsTo(step, state) ==
  step.decision # Undecided /\ TargetOf(step).kind = "state" /\ state = TargetOf(step).to

Linked(steps) == \A i \in 2 .. Len(steps) : LeadsTo(steps[i - 1], steps[i].state)

PathInv ==
  /\ Len(trace) = depth
  /\ depth <= ir.max_depth + 1
  /\ pc # "done" => depth <= ir.max_depth
  /\ trace # <<>> => trace[1].state = ir.start
  /\ Linked(trace)
  /\ pc = "enter" => IF trace = <<>> THEN current = ir.start
                     ELSE LeadsTo(trace[Len(trace)], current)
  /\ pc \in {"extract", "field"} => trace[Len(trace)].state = current
  /\ pc # "done" => result = Running
  /\ result.outcome = "accept" => TargetOf(trace[Len(trace)]).kind = "accept"

LEMMA PathInit == Init => PathInv
<1> SUFFICES ASSUME Init PROVE PathInv
  OBVIOUS
<1>1. ir.max_depth \in Nat
  BY IrsAssumption DEF Init, IsIr
<1>2. Len(trace) = 0 /\ trace = <<>>
  BY DEF Init
<1>3. result.outcome # "accept"
  BY DEF Init, Running
<1>4. QED
  BY <1>1, <1>2, <1>3 DEF Init, PathInv, Linked

\* A step that enters a state adds it to the path.
LEMMA PathGrows ==
  ASSUME TypeOK, PathInv, pc = "enter", trace' = Entered, ir' = ir
  PROVE  /\ trace' # <<>>
         /\ Len(trace') = depth + 1
         /\ trace'[1].state = ir.start
         /\ Linked(trace)'
         /\ trace'[Len(trace')].state = current
<1> DEFINE step == [state |-> current, decision |-> Undecided]
           n == Len(trace)
<1>1. trace \in Seq(TraceStep) /\ n \in Nat
  BY DEF TypeOK
<1>2. step \in TraceStep
  BY DEF TypeOK, TraceStep, Decision, Undecided
<1>3. /\ trace' # <<>>
      /\ Len(trace') = n + 1
      /\ \A i \in 1 .. n : trace'[i] = trace[i]
      /\ trace'[n + 1] = step
  BY <1>1, <1>2, AppendProperties DEF Entered
<1>4. trace'[1].state = ir.start
  BY <1>1, <1>3 DEF PathInv
<1>5. ASSUME NEW i \in 2 .. Len(trace')
      PROVE  LeadsTo(trace'[i - 1], trace'[i].state)
  <2>1. i \in Nat /\ i - 1 \in 1 .. n /\ (i = n + 1 \/ i \in 2 .. n)
    BY <1>1, <1>3
  <2>2. CASE i = n + 1
    <3>1. LeadsTo(trace[n], current)
      BY <1>1, <2>1, <2>2 DEF PathInv
    <3>2. QED
      BY <1>3, <2>1, <2>2, <3>1
  <2>3. CASE i \in 2 .. n
    <3>1. i \in 1 .. n
      BY <1>1, <2>3
    <3>2. QED
      BY <1>3, <2>1, <2>3, <3>1 DEF PathInv, Linked
  <2>4. QED
    BY <2>1, <2>2, <2>3
<1>6. Linked(trace)'
  BY <1>5 DEF Linked, LeadsTo, TargetOf
<1>7. QED
  BY <1>3, <1>4, <1>6 DEF PathInv

\* A decision changes neither the states of the path nor the steps before it.
LEMMA PathDecides ==
  ASSUME TypeOK, PathInv, Extracted, NEW arm \in Nat,
         NEW kind \in {"arm", "default", "direct"}, Decide(kind, arm), ir' = ir
  PROVE  /\ trace' # <<>>
         /\ Len(trace') = depth
         /\ trace'[1].state = ir.start
         /\ Linked(trace)'
         /\ trace'[Len(trace')].decision # Undecided
         /\ TargetOf(trace'[Len(trace')]) =
              IF kind = "arm" THEN Trans.arms[arm].next ELSE Trans.default
<1> DEFINE n == Len(trace)
           decision == [kind |-> kind, arm |-> arm]
           last == [trace[n] EXCEPT !.decision = decision]
<1>1. /\ trace \in Seq(TraceStep) /\ trace # <<>>
      /\ n \in Nat /\ n > 0
      /\ trace[n] \in TraceStep
      /\ trace[n].state = current
  BY DEF TypeOK, Extracted, PathInv
<1>2. decision # Undecided
  BY DEF Undecided
<1>3. last.state = current /\ last.decision = decision
  BY <1>1 DEF TraceStep
<1>4. trace' = [trace EXCEPT ![n] = last]
  BY DEF Decide
<1>5. /\ trace' # <<>>
      /\ Len(trace') = n
      /\ trace'[n] = last
      /\ \A i \in 1 .. n : trace'[i].state = trace[i].state
      /\ \A i \in 1 .. n : i # n => trace'[i] = trace[i]
  <2>1. DOMAIN trace = 1 .. n
    BY <1>1
  <2>2. /\ DOMAIN trace' = 1 .. n
        /\ trace'[n] = last
        /\ \A i \in 1 .. n : i # n => trace'[i] = trace[i]
    BY <1>1, <1>4, <2>1
  <2>3. trace' \in Seq(TraceStep)
    BY <1>1, DecideFacts
  <2>4. Len(trace') = n
    BY <1>1, <2>2, <2>3
  <2>5. ASSUME NEW i \in 1 .. n PROVE trace'[i].state = trace[i].state
    BY <1>1, <1>3, <2>2
  <2>6. trace' # <<>>
    BY <1>1, <2>4
  <2>7. QED
    BY <2>2, <2>4, <2>5, <2>6
<1>6. ASSUME NEW i \in 2 .. n
      PROVE  LeadsTo(trace'[i - 1], trace'[i].state)
  <2>1. i \in 1 .. n /\ i - 1 \in 1 .. n /\ i - 1 # n
    BY <1>1
  <2>2. LeadsTo(trace[i - 1], trace[i].state)
    BY DEF PathInv, Linked
  <2>3. QED
    BY <1>5, <2>1, <2>2
<1>7. Linked(trace)'
  BY <1>5, <1>6 DEF Linked, LeadsTo, TargetOf
<1>8. TargetOf(last) = IF kind = "arm" THEN Trans.arms[arm].next ELSE Trans.default
  BY <1>3 DEF TargetOf, Trans
<1>9. trace'[1].state = ir.start
  BY <1>1, <1>5 DEF PathInv
<1>10. QED
  BY <1>1, <1>2, <1>3, <1>5, <1>7, <1>8, <1>9 DEF PathInv

LEMMA PathTransit ==
  ASSUME TypeOK, PathInv, Extracted, NEW arm \in Nat,
         NEW kind \in {"arm", "default", "direct"},
         Transit(kind, arm, IF kind = "arm" THEN Trans.arms[arm].next ELSE Trans.default)
  PROVE  PathInv'
<1> DEFINE target == IF kind = "arm" THEN Trans.arms[arm].next ELSE Trans.default
           last == trace'[Len(trace')]
<1>1. Decide(kind, arm) /\ Follow(target) /\ ir' = ir /\ depth' = depth
  BY DEF Transit
<1>2. /\ trace' # <<>>
      /\ Len(trace') = depth
      /\ trace'[1].state = ir.start
      /\ Linked(trace)'
      /\ last.decision # Undecided
      /\ TargetOf(last) = target
  BY <1>1, PathDecides
<1>3. TargetOf(trace[Len(trace)])' = target
  BY <1>1, <1>2 DEF TargetOf
<1>4. result = Running /\ Running.outcome = "running"
  BY DEF PathInv, Extracted, Running
<1>5. CASE target.kind = "state"
  <2>1. pc' = "enter" /\ current' = target.to /\ result' = result
    BY <1>1, <1>5 DEF Follow
  <2>2. LeadsTo(trace[Len(trace)], current)'
    BY <1>2, <1>3, <1>5, <2>1 DEF LeadsTo
  <2>3. QED
    BY <1>1, <1>2, <1>4, <2>1, <2>2 DEF PathInv, Extracted
<1>6. CASE target.kind # "state"
  <2>1. pc' = "done" /\ (result'.outcome = "accept" => target.kind = "accept")
    BY <1>1, <1>6 DEF Follow, Accept, Reject, Bail, Running
  <2>2. result'.outcome = "accept" => (TargetOf(trace[Len(trace)]).kind = "accept")'
    BY <1>3, <2>1
  <2>3. QED
    BY <1>1, <1>2, <2>1, <2>2 DEF PathInv, Extracted
<1>7. QED
  BY <1>5, <1>6

\* The steps that leave the path alone: reading fields and failing to.
LEMMA PathStays ==
  ASSUME TypeOK, PathInv, pc \in {"extract", "field"},
         UNCHANGED <<ir, current, depth, trace>>,
         \/ pc' \in {"extract", "field"} /\ UNCHANGED result
         \/ pc' = "done" /\ result'.outcome # "accept"
  PROVE  PathInv'
BY DEF PathInv, Linked, LeadsTo, TargetOf, Running

LEMMA NotAccepted ==
  /\ \A reason, inst, field, info :
       Reject(reason, inst, field, info) => pc' = "done" /\ result'.outcome # "accept"
  /\ Bail => pc' = "done" /\ result'.outcome # "accept"
BY DEF Reject, Bail, Running

LEMMA PathEnter == TypeOK /\ PathInv /\ Enter => PathInv'
<1> SUFFICES ASSUME TypeOK, PathInv, Enter PROVE PathInv'
  OBVIOUS
<1>1. /\ pc = "enter" /\ trace' = Entered /\ ir' = ir /\ depth' = depth + 1
      /\ current' = current
  BY DEF Enter, EnterState, DepthExceeded, UnknownState
<1>2. /\ trace' # <<>>
      /\ Len(trace') = depth + 1
      /\ trace'[1].state = ir.start
      /\ Linked(trace)'
      /\ trace'[Len(trace')].state = current
  BY <1>1, PathGrows
<1>3. depth \in Nat /\ ir.max_depth \in Nat /\ depth <= ir.max_depth
  BY <1>1, IrFacts DEF PathInv, TypeOK, IsIr
<1>4. CASE EnterState
  <2>1. pc' = "extract" /\ result' = result /\ depth + 1 <= ir.max_depth
    BY <1>4 DEF EnterState, WithinDepth
  <2>2. QED
    BY <1>1, <1>2, <1>3, <2>1 DEF PathInv, Running
<1>5. CASE ~ EnterState
  <2>1. pc' = "done" /\ result'.outcome # "accept"
    BY <1>5, NotAccepted DEF Enter, DepthExceeded, UnknownState
  <2>2. QED
    BY <1>1, <1>2, <1>3, <2>1 DEF PathInv
<1>6. QED
  BY <1>4, <1>5

LEMMA PathExtractHeader == TypeOK /\ PathInv /\ ExtractHeader => PathInv'
<1> SUFFICES ASSUME TypeOK, PathInv, ExtractHeader PROVE PathInv'
  OBVIOUS
<1>1. CASE BeginHeader
  BY <1>1, PathStays DEF BeginHeader, Extracting
<1>2. CASE UnknownHeaderType
  BY <1>2, PathStays, NotAccepted DEF UnknownHeaderType, Extracting
<1>3. CASE EndHeader
  BY <1>3, PathStays DEF EndHeader
<1>4. QED
  BY <1>1, <1>2, <1>3 DEF ExtractHeader

LEMMA PathReadField == TypeOK /\ PathInv /\ ReadField => PathInv'
<1> SUFFICES ASSUME TypeOK, PathInv, ReadField PROVE PathInv'
  OBVIOUS
<1>1. ASSUME FieldOutOfBounds, pc = "field" PROVE PathInv'
  BY <1>1, PathStays, NotAccepted DEF FieldOutOfBounds
<1>2. CASE ReadBits \/ ReadBytes
  BY <1>2, PathStays DEF ReadBits, ReadBytes, Reading
<1>3. CASE ReadBitsOutOfBounds \/ ReadBytesOutOfBounds
  BY <1>1, <1>3 DEF ReadBitsOutOfBounds, ReadBytesOutOfBounds, Reading
<1>4. CASE ReadBytesBails \/ FieldWithoutWidth
  BY <1>4, PathStays, NotAccepted DEF ReadBytesBails, FieldWithoutWidth, Reading
<1>5. QED
  BY <1>2, <1>3, <1>4 DEF ReadField

LEMMA PathTakeTransition == TypeOK /\ PathInv /\ TakeTransition => PathInv'
<1> SUFFICES ASSUME TypeOK, PathInv, TakeTransition PROVE PathInv'
  OBVIOUS
<1>1. CASE Direct
  BY <1>1, PathTransit DEF Direct
<1>2. CASE TakeArm
  BY <1>2, PathTransit, TargetFacts DEF TakeArm
<1>3. CASE TakeDefault
  BY <1>3, PathTransit DEF TakeDefault
<1>4. CASE NoMatchingArm
  <2>1. /\ Extracted /\ Decide("default", 0)
        /\ ir' = ir /\ depth' = depth
        /\ pc' = "done" /\ result'.outcome # "accept"
    BY <1>4, NotAccepted DEF NoMatchingArm
  <2>2. QED
    BY <2>1, PathDecides DEF PathInv, Extracted
<1>5. CASE TransitionBails
  BY <1>5, PathStays, NotAccepted DEF TransitionBails, Extracted
<1>6. QED
  BY <1>1, <1>2, <1>3, <1>4, <1>5 DEF TakeTransition

LEMMA PathStutter == PathInv /\ UNCHANGED vars => PathInv'
BY DEF PathInv, Linked, LeadsTo, TargetOf, vars

LEMMA PathNext == TypeOK /\ PathInv /\ [Next]_vars => PathInv'
BY PathEnter, PathExtractHeader, PathReadField, PathTakeTransition, PathStutter
   DEF Next, Step, Returned

LEMMA PathImplies == PathInv => TraceIsPath
BY DEF PathInv, Linked, LeadsTo, TraceIsPath

\* Whatever the description and the packet, the recorded trace is the path
\* run_bits took through the states, and the depth bound cuts it.
THEOREM TraceCorrect == Spec => []TraceIsPath
<1>1. Init => TypeOK /\ PathInv
  BY TypeInit, PathInit
<1>2. TypeOK /\ PathInv /\ [Next]_vars => (TypeOK /\ PathInv)'
  BY TypeNext, PathNext
<1>3. QED
  BY <1>1, <1>2, PathImplies, PTL DEF Spec

(***************************************************************************)
(* The tiling of the packet.  The invariant adds that a run that has not   *)
(* returned has no result yet.                                             *)
(***************************************************************************)
TileInv == TilesPacket /\ (pc # "done" => result = Running)

Tiled(hs) ==
  \A i \in DOMAIN hs :
    /\ HeaderIsContiguous(hs[i])
    /\ hs[i].start = IF i = 1 THEN 0 ELSE EndOf(hs[i - 1])

EndOfAll(hs) == IF hs = <<>> THEN 0 ELSE EndOf(hs[Len(hs)])

LEMMA TiledAppend ==
  ASSUME NEW hs \in Seq(ParsedHeader), NEW h \in ParsedHeader
  PROVE  /\ Append(hs, h) \in Seq(ParsedHeader)
         /\ EndOfAll(Append(hs, h)) = EndOf(h)
         /\ Tiled(Append(hs, h)) <=> /\ Tiled(hs)
                                     /\ HeaderIsContiguous(h)
                                     /\ h.start = EndOfAll(hs)
<1> DEFINE n == Len(hs)
           longer == Append(hs, h)
<1>1. n \in Nat /\ DOMAIN hs = 1 .. n /\ (hs = <<>> <=> n = 0)
  BY EmptySeq
<1>2. /\ longer \in Seq(ParsedHeader) /\ longer # <<>>
      /\ Len(longer) = n + 1
      /\ DOMAIN longer = 1 .. n + 1
      /\ longer[n + 1] = h
      /\ \A i \in 1 .. n : longer[i] = hs[i]
  <2>1. /\ longer \in Seq(ParsedHeader) /\ longer # <<>>
        /\ Len(longer) = n + 1
        /\ longer[n + 1] = h
        /\ \A i \in 1 .. n : longer[i] = hs[i]
    BY AppendProperties
  <2>2. QED
    BY <2>1
<1>3. EndOfAll(longer) = EndOf(h)
  BY <1>2 DEF EndOfAll
<1>4. ASSUME NEW i \in 1 .. n + 1, i # 1 PROVE i - 1 \in 1 .. n
  BY <1>1, <1>4
<1>5. ASSUME NEW i \in 1 .. n
      PROVE  /\ longer[i] = hs[i]
             /\ i # 1 => longer[i - 1] = hs[i - 1]
  BY <1>1, <1>2
<1>6. EndOfAll(hs) = IF n + 1 = 1 THEN 0 ELSE EndOf(longer[n])
  <2>1. CASE hs = <<>>
    BY <1>1, <2>1 DEF EndOfAll
  <2>2. CASE hs # <<>>
    <3>1. n \in 1 .. n /\ n + 1 # 1
      BY <1>1, <2>2
    <3>2. longer[n] = hs[n]
      BY <1>2, <3>1
    <3>3. QED
      BY <2>2, <3>1, <3>2 DEF EndOfAll
  <2>3. QED
    BY <2>1, <2>2
<1> HIDE DEF longer
<1>7. ASSUME Tiled(longer)
      PROVE  Tiled(hs) /\ HeaderIsContiguous(h) /\ h.start = EndOfAll(hs)
  <2>1. HeaderIsContiguous(h) /\ h.start = EndOfAll(hs)
    <3>1. n + 1 \in DOMAIN longer
      BY <1>1, <1>2
    <3>2. /\ HeaderIsContiguous(longer[n + 1])
          /\ longer[n + 1].start = IF n + 1 = 1 THEN 0 ELSE EndOf(longer[n + 1 - 1])
      BY <1>7, <3>1 DEF Tiled
    <3>3. n + 1 - 1 = n
      BY <1>1
    <3>4. QED
      BY <1>2, <1>6, <3>2, <3>3
  <2>2. ASSUME NEW i \in 1 .. n
        PROVE  HeaderIsContiguous(hs[i])
               /\ hs[i].start = IF i = 1 THEN 0 ELSE EndOf(hs[i - 1])
    <3>1. i \in DOMAIN longer
      BY <1>1, <1>2
    <3>2. QED
      BY <1>5, <1>7, <3>1 DEF Tiled
  <2>3. QED
    BY <1>1, <2>1, <2>2 DEF Tiled
<1>8. ASSUME Tiled(hs), HeaderIsContiguous(h), h.start = EndOfAll(hs)
      PROVE  Tiled(longer)
  <2>1. ASSUME NEW i \in 1 .. n + 1
        PROVE  HeaderIsContiguous(longer[i])
               /\ longer[i].start = IF i = 1 THEN 0 ELSE EndOf(longer[i - 1])
    <3>1. CASE i \in 1 .. n
      BY <1>1, <1>5, <1>8, <3>1 DEF Tiled
    <3>2. CASE i = n + 1
      <4>1. i - 1 = n
        BY <1>1, <3>2
      <4>2. QED
        BY <1>2, <1>6, <1>8, <3>2, <4>1
    <3>3. QED
      BY <1>1, <3>1, <3>2
  <2>2. QED
    BY <1>2, <2>1 DEF Tiled
<1>9. QED
  BY <1>2, <1>3, <1>7, <1>8 DEF longer

LEMMA HeadersSoFarType == TypeOK => HeadersSoFar \in Seq(ParsedHeader)
BY AppendProperties DEF TypeOK, HeadersSoFar

LEMMA TilesPacketIs ==
  TilesPacket <=> (~ Bailed => /\ Tiled(HeadersSoFar)
                               /\ cursor = EndOfAll(HeadersSoFar)
                               /\ pc = "done" => result.consumed = cursor)
BY DEF TilesPacket, Tiled, EndOfAll

\* A step that returns, or only moves on in the loops, reads nothing.
LEMMA TileStays ==
  ASSUME TileInv, pc # "done", packet' = packet, cursor' = cursor,
         HeadersSoFar' = HeadersSoFar,
         \/ pc' # "done" /\ result' = result
         \/ pc' = "done" /\ (result'.outcome = "err" \/ result'.consumed = cursor)
  PROVE  TileInv'
<1>1. result = Running /\ ~ Bailed
  BY DEF TileInv, Bailed, Running
<1>2. Tiled(HeadersSoFar) /\ cursor = EndOfAll(HeadersSoFar)
  BY <1>1, TilesPacketIs DEF TileInv
<1>3. Tiled(HeadersSoFar)' /\ EndOfAll(HeadersSoFar)' = EndOfAll(HeadersSoFar)
  BY <1>2 DEF Tiled, EndOfAll, HeaderIsContiguous, EndOf, Slice, Avail
<1>4. TilesPacket'
  <2>1. TilesPacket' <=> (~ Bailed => /\ Tiled(HeadersSoFar)
                                      /\ cursor = EndOfAll(HeadersSoFar)
                                      /\ pc = "done" => result.consumed = cursor)'
    BY TilesPacketIs, PTL
  <2>2. QED
    BY <1>2, <1>3, <2>1 DEF Bailed
<1>5. QED
  BY <1>1, <1>4 DEF TileInv

\* A step that reads extends the header under construction, or begins it.
LEMMA TileGrows ==
  ASSUME TypeOK, TileInv, pc # "done", packet' = packet, headers' = headers,
         pc' = "field", result' = result, parsed' \in ParsedHeader,
         HeaderIsContiguous(parsed'), EndOf(parsed') = cursor',
         parsed'.start = EndOfAll(headers), Tiled(headers)
  PROVE  TileInv'
<1>1. result = Running /\ ~ Bailed'
  BY DEF TileInv, Bailed, Running
<1> DEFINE hs == Append(headers, parsed')
<1>2. headers \in Seq(ParsedHeader) /\ HeadersSoFar' = hs
  BY DEF TypeOK, HeadersSoFar
<1>3. Tiled(hs) /\ EndOfAll(hs) = cursor'
  BY <1>2, TiledAppend
<1> HIDE DEF hs
<1>4. Tiled(HeadersSoFar)' /\ EndOfAll(HeadersSoFar)' = cursor'
  <2>1. EndOfAll(HeadersSoFar)' = cursor'
    BY <1>2, <1>3 DEF EndOfAll, EndOf
  <2>2. ASSUME NEW i \in DOMAIN HeadersSoFar'
        PROVE  /\ HeaderIsContiguous(HeadersSoFar[i])'
               /\ (HeadersSoFar[i].start = IF i = 1 THEN 0 ELSE EndOf(HeadersSoFar[i - 1]))'
    <3>1. HeaderIsContiguous(hs[i])
      BY <1>2, <1>3, <2>2 DEF Tiled
    <3>2. HeaderIsContiguous(HeadersSoFar[i])'
      BY <1>2, <3>1 DEF HeaderIsContiguous, Slice, Avail
    <3>3. (HeadersSoFar[i].start = IF i = 1 THEN 0 ELSE EndOf(HeadersSoFar[i - 1]))'
      BY <1>2, <1>3, <2>2 DEF Tiled, EndOf
    <3>4. QED
      BY <3>2, <3>3
  <2>3. QED
    BY <2>1, <2>2 DEF Tiled
<1>5. TilesPacket'
  <2>1. TilesPacket' <=> (~ Bailed => /\ Tiled(HeadersSoFar)
                                      /\ cursor = EndOfAll(HeadersSoFar)
                                      /\ pc = "done" => result.consumed = cursor)'
    BY TilesPacketIs, PTL
  <2>2. QED
    BY <1>4, <2>1
<1>6. QED
  BY <1>1, <1>5 DEF TileInv

LEMMA TileTakeField ==
  ASSUME TypeOK, TileInv, pc = "field", Len(parsed.fields) < Len(Fields),
         UNCHANGED <<ir, packet, pc, headers, result>>,
         NEW n \in Nat, cursor + n <= Avail, NEW fixed \in BOOLEAN, TakeField(n, fixed)
  PROVE  TileInv'
<1> DEFINE read == [name |-> NextField.name, offset |-> cursor,
                    bits |-> Slice(cursor, n), fixed |-> fixed]
           k == Len(parsed.fields)
<1>1. /\ headers \in Seq(ParsedHeader)
      /\ parsed \in ParsedHeader
      /\ parsed.fields \in Seq(ParsedField) /\ k \in Nat
      /\ cursor \in Nat /\ cursor' = cursor + n
  BY DEF TypeOK, ParsedHeader, Avail, TakeField
<1>2. /\ parsed' \in ParsedHeader
      /\ parsed'.start = parsed.start
      /\ parsed'.fields = Append(parsed.fields, read)
  BY <1>1, TakeFieldFacts DEF TakeField, ParsedHeader
<1>3. /\ Tiled(headers)
      /\ HeaderIsContiguous(parsed)
      /\ parsed.start = EndOfAll(headers)
      /\ cursor = EndOf(parsed)
  <2>1. HeadersSoFar = Append(headers, parsed) /\ ~ Bailed
    BY DEF HeadersSoFar, TileInv, Bailed, Running
  <2>2. Tiled(Append(headers, parsed)) /\ cursor = EndOfAll(Append(headers, parsed))
    BY <2>1, TilesPacketIs DEF TileInv
  <2>3. QED
    BY <1>1, <2>2, TiledAppend
<1>4. read \in ParsedField /\ read.bits = Slice(cursor, n) /\ read.offset = cursor
      /\ Len(read.bits) = n
  BY <1>1, FieldFacts, SliceFacts DEF ParsedField, Field
<1>5. /\ DOMAIN parsed'.fields = 1 .. k + 1
      /\ Len(parsed'.fields) = k + 1
      /\ parsed'.fields # <<>>
      /\ parsed'.fields[k + 1] = read
      /\ \A j \in 1 .. k : parsed'.fields[j] = parsed.fields[j]
  <2>1. /\ Append(parsed.fields, read) \in Seq(ParsedField)
        /\ Append(parsed.fields, read) # <<>>
        /\ Len(Append(parsed.fields, read)) = k + 1
        /\ \A j \in 1 .. k : Append(parsed.fields, read)[j] = parsed.fields[j]
        /\ Append(parsed.fields, read)[k + 1] = read
    BY <1>1, <1>4, AppendProperties
  <2>2. QED
    BY <1>2, <2>1
<1>6. EndOf(parsed') = cursor'
  BY <1>1, <1>4, <1>5 DEF EndOf
<1>7. HeaderIsContiguous(parsed')
  <2> HIDE DEF read
  <2>1. ASSUME NEW j \in 1 .. k
        PROVE  /\ parsed'.fields[j] = parsed.fields[j]
               /\ j # 1 => parsed'.fields[j - 1] = parsed.fields[j - 1]
    <3>1. j # 1 => j - 1 \in 1 .. k
      BY <1>1
    <3>2. QED
      BY <1>5, <3>1
  <2>2. DOMAIN parsed.fields = 1 .. k
    BY <1>1
  <2>3. read.offset = IF k + 1 = 1 THEN parsed.start
                      ELSE parsed'.fields[k].offset + Len(parsed'.fields[k].bits)
    <3>1. CASE k = 0
      <4>1. parsed.fields = <<>>
        BY <1>1, <3>1
      <4>2. QED
        BY <1>3, <1>4, <3>1, <4>1 DEF EndOf
    <3>2. CASE k # 0
      <4>1. k \in 1 .. k /\ parsed.fields # <<>> /\ k + 1 # 1
        BY <1>1, <3>2
      <4>2. QED
        BY <1>3, <1>4, <2>1, <4>1 DEF EndOf
    <3>3. QED
      BY <3>1, <3>2
  <2>4. ASSUME NEW j \in 1 .. k + 1
        PROVE  /\ parsed'.fields[j].bits
                    = Slice(parsed'.fields[j].offset, Len(parsed'.fields[j].bits))
               /\ parsed'.fields[j].offset + Len(parsed'.fields[j].bits) <= Avail
               /\ parsed'.fields[j].offset =
                    IF j = 1 THEN parsed'.start
                    ELSE parsed'.fields[j - 1].offset + Len(parsed'.fields[j - 1].bits)
    <3>1. CASE j \in 1 .. k
      BY <1>2, <1>3, <2>1, <2>2, <3>1 DEF HeaderIsContiguous
    <3>2. CASE j = k + 1
      <4>1. j - 1 = k /\ parsed'.fields[j] = read
        BY <1>1, <1>5, <3>2
      <4>2. QED
        BY <1>2, <1>4, <2>3, <3>2, <4>1
    <3>3. QED
      BY <1>1, <3>1, <3>2
  <2>5. QED
    BY <1>5, <2>4 DEF HeaderIsContiguous
<1>8. QED
  BY <1>2, <1>3, <1>6, <1>7, TileGrows

LEMMA ReturnsCursor ==
  /\ \A reason, inst, field, info :
       Reject(reason, inst, field, info) => pc' = "done" /\ result'.consumed = cursor
  /\ Accept => pc' = "done" /\ result'.consumed = cursor
  /\ Bail => pc' = "done" /\ result'.outcome = "err"
<1>1. ASSUME NEW reason, NEW inst, NEW field, NEW info, Reject(reason, inst, field, info)
      PROVE  pc' = "done" /\ result'.consumed = cursor
  BY <1>1 DEF Reject
<1>2. Accept => pc' = "done" /\ result'.consumed = cursor
  BY DEF Accept, Running
<1>3. Bail => pc' = "done" /\ result'.outcome = "err"
  BY DEF Bail, Running
<1>4. QED
  BY <1>1, <1>2, <1>3

LEMMA TileInit == Init => TileInv
<1> SUFFICES ASSUME Init PROVE TileInv
  OBVIOUS
<1>1. HeadersSoFar = <<>> /\ cursor = 0 /\ pc # "done" /\ result = Running
  BY DEF Init, HeadersSoFar
<1>2. Tiled(<<>>) /\ EndOfAll(<<>>) = 0
  BY DEF Tiled, EndOfAll
<1>3. QED
  BY <1>1, <1>2, TilesPacketIs DEF TileInv

LEMMA TileEnter == TileInv /\ Enter => TileInv'
<1> SUFFICES ASSUME TileInv, Enter PROVE TileInv'
  OBVIOUS
<1>1. CASE EnterState
  BY <1>1, TileStays DEF EnterState, HeadersSoFar
<1>2. CASE DepthExceeded
  BY <1>2, TileStays, ReturnsCursor DEF DepthExceeded, HeadersSoFar
<1>3. CASE UnknownState
  BY <1>3, TileStays, ReturnsCursor DEF UnknownState, HeadersSoFar
<1>4. QED
  BY <1>1, <1>2, <1>3 DEF Enter

LEMMA TileExtractHeader == TypeOK /\ TileInv /\ ExtractHeader => TileInv'
<1> SUFFICES ASSUME TypeOK, TileInv, ExtractHeader PROVE TileInv'
  OBVIOUS
<1>1. CASE BeginHeader
  <2>1. /\ parsed' \in ParsedHeader /\ parsed'.start = cursor /\ parsed'.fields = <<>>
    <3>1. Extracts[ex + 1] \in Extract /\ cursor \in Nat
      BY <1>1, StateFacts DEF BeginHeader, Extracting, TypeOK, Avail
    <3>2. Instance(Extracts[ex + 1]) \in STRING /\ Extracts[ex + 1].type \in STRING
      BY <3>1 DEF Instance, Extract
    <3>3. QED
      BY <1>1, <3>1, <3>2 DEF BeginHeader, ParsedHeader
  <2>2. HeaderIsContiguous(parsed') /\ EndOf(parsed') = cursor
    BY <2>1 DEF HeaderIsContiguous, EndOf
  <2>3. HeadersSoFar = headers /\ ~ Bailed
    BY <1>1 DEF BeginHeader, Extracting, HeadersSoFar, TileInv, Bailed, Running
  <2>4. Tiled(headers) /\ cursor = EndOfAll(headers)
    BY <2>3, TilesPacketIs DEF TileInv
  <2>5. QED
    BY <1>1, <2>1, <2>2, <2>4, TileGrows DEF BeginHeader, Extracting
<1>2. CASE UnknownHeaderType
  BY <1>2, TileStays, ReturnsCursor DEF UnknownHeaderType, Extracting, HeadersSoFar
<1>3. CASE EndHeader
  BY <1>3, TileStays DEF EndHeader, HeadersSoFar
<1>4. QED
  BY <1>1, <1>2, <1>3 DEF ExtractHeader

LEMMA TileReadField == TypeOK /\ TileInv /\ ReadField => TileInv'
<1> SUFFICES ASSUME TypeOK, TileInv, ReadField PROVE TileInv'
  OBVIOUS
<1>1. ASSUME FieldOutOfBounds, pc = "field" PROVE TileInv'
  BY <1>1, TileStays, ReturnsCursor DEF FieldOutOfBounds, HeadersSoFar
<1>2. CASE ReadBits
  <2>1. NextField.n \in Nat
    BY <1>2, FieldFacts DEF ReadBits, Reading, Field
  <2>2. QED
    BY <1>2, <2>1, TileTakeField DEF ReadBits, Reading
<1>3. CASE ReadBytes
  <2>1. LenBytes * ByteBits \in Nat
    BY <1>3, ProductIsNat, ByteBitsAssumption DEF ReadBytes, Word
  <2>2. QED
    BY <1>3, <2>1, TileTakeField DEF ReadBytes, Reading
<1>4. CASE ReadBitsOutOfBounds \/ ReadBytesOutOfBounds
  BY <1>1, <1>4 DEF ReadBitsOutOfBounds, ReadBytesOutOfBounds, Reading
<1>5. CASE ReadBytesBails \/ FieldWithoutWidth
  <2>1. pc = "field" /\ Bail /\ UNCHANGED <<packet, cursor, parsed, headers>>
    BY <1>5 DEF ReadBytesBails, FieldWithoutWidth, Reading
  <2>2. result'.outcome = "err" /\ pc' = "done"
    BY <2>1, ReturnsCursor
  <2>3. Bailed' /\ TilesPacket'
    BY <2>2 DEF Bailed, TilesPacket
  <2>4. QED
    BY <2>2, <2>3 DEF TileInv
<1>6. QED
  BY <1>2, <1>3, <1>4, <1>5 DEF ReadField

LEMMA TileTakeTransition == TileInv /\ TakeTransition => TileInv'
<1> SUFFICES ASSUME TileInv, TakeTransition PROVE TileInv'
  OBVIOUS
<1>1. pc = "extract" /\ UNCHANGED <<packet, cursor, headers>>
  BY DEF TakeTransition, Direct, TakeArm, TakeDefault, NoMatchingArm, TransitionBails,
         Extracted, Transit
<1>2. ASSUME NEW target, Follow(target)
      PROVE  \/ pc' = "enter" /\ result' = result
             \/ pc' = "done" /\ (result'.outcome = "err" \/ result'.consumed = cursor)
  BY <1>2, ReturnsCursor DEF Follow
<1>3. \/ pc' = "enter" /\ result' = result
      \/ pc' = "done" /\ (result'.outcome = "err" \/ result'.consumed = cursor)
  BY <1>2, ReturnsCursor
     DEF TakeTransition, Direct, TakeArm, TakeDefault, NoMatchingArm, TransitionBails, Transit
<1>4. HeadersSoFar' = HeadersSoFar
  BY <1>1, <1>3 DEF HeadersSoFar
<1>5. QED
  BY <1>1, <1>3, <1>4, TileStays

LEMMA TileStutter == TileInv /\ UNCHANGED vars => TileInv'
<1> SUFFICES ASSUME TileInv, UNCHANGED vars PROVE TileInv'
  OBVIOUS
<1>1. UNCHANGED <<packet, pc, parsed, cursor, headers, result>>
  BY DEF vars
<1>2. HeadersSoFar' = HeadersSoFar /\ Bailed' = Bailed
  BY <1>1 DEF HeadersSoFar, Bailed
<1>3. ASSUME Tiled(HeadersSoFar) PROVE Tiled(HeadersSoFar)'
  BY <1>1, <1>2, <1>3 DEF Tiled, HeaderIsContiguous, EndOf, Slice, Avail
<1>4. EndOfAll(HeadersSoFar)' = EndOfAll(HeadersSoFar)
  BY <1>2 DEF EndOfAll, EndOf
<1>5. TilesPacket' <=> (~ Bailed => /\ Tiled(HeadersSoFar)
                                    /\ cursor = EndOfAll(HeadersSoFar)
                                    /\ pc = "done" => result.consumed = cursor)'
  BY TilesPacketIs, PTL
<1>6. TilesPacket'
  BY <1>1, <1>2, <1>3, <1>4, <1>5, TilesPacketIs DEF TileInv
<1>7. QED
  BY <1>1, <1>6 DEF TileInv

LEMMA TileNext == TypeOK /\ TileInv /\ [Next]_vars => TileInv'
BY TileEnter, TileExtractHeader, TileReadField, TileTakeTransition, TileStutter
   DEF Next, Step, Returned

\* Whatever the description and the packet, the fields run_bits reports tile
\* the packet from its first bit to consumed_bits, each with the bits there.
THEOREM TilingCorrect == Spec => []TilesPacket
<1>1. Init => TypeOK /\ TileInv
  BY TypeInit, TileInit
<1>2. TypeOK /\ TileInv /\ [Next]_vars => (TypeOK /\ TileInv)'
  BY TypeNext, TileNext
<1>3. TileInv => TilesPacket
  BY DEF TileInv
<1>4. QED
  BY <1>1, <1>2, <1>3, PTL DEF Spec

(***************************************************************************)
(* The environment.  A fixed-width read is named by the place of its       *)
(* header and its place there; the invariant says which reads there are    *)
(* and that each value of the environment is the one read last for its     *)
(* key, in a form that does not need the set of all last reads.            *)
(***************************************************************************)
IsRead(hs, i, j) == i \in DOMAIN hs /\ j \in DOMAIN hs[i].fields /\ hs[i].fields[j].fixed
NameAt(hs, i, j) == <<hs[i].instance, hs[i].fields[j].name>>
BitsAt(hs, i, j) == hs[i].fields[j].bits

IsLast(hs, i, j) ==
  \A a, b \in Nat :
    IsRead(hs, a, b) /\ NameAt(hs, a, b) = NameAt(hs, i, j) => a < i \/ (a = i /\ b <= j)

EnvSound(hs, e) ==
  /\ \A i, j \in Nat : IsRead(hs, i, j) => NameAt(hs, i, j) \in DOMAIN e
  /\ \A k \in DOMAIN e :
       \E i, j \in Nat : /\ IsRead(hs, i, j) /\ IsLast(hs, i, j)
                         /\ NameAt(hs, i, j) = k /\ BitsAt(hs, i, j) = e[k]

EnvInv ==
  /\ pc # "done" => result = Running
  /\ ~ Bailed => EnvSound(HeadersSoFar, env)

\* The list grows, but by no fixed-width field.
LEMMA EnvStays ==
  ASSUME NEW hs, NEW longer, NEW e, EnvSound(hs, e),
         \A i, j \in Nat : IsRead(longer, i, j) <=> IsRead(hs, i, j),
         \A i, j \in Nat : IsRead(hs, i, j) => /\ NameAt(longer, i, j) = NameAt(hs, i, j)
                                               /\ BitsAt(longer, i, j) = BitsAt(hs, i, j)
  PROVE  EnvSound(longer, e)
<1>1. ASSUME NEW i \in Nat, NEW j \in Nat, IsRead(hs, i, j), IsLast(hs, i, j)
      PROVE  IsLast(longer, i, j)
  BY <1>1 DEF IsLast
<1>2. ASSUME NEW k \in DOMAIN e
      PROVE  \E i, j \in Nat : /\ IsRead(longer, i, j) /\ IsLast(longer, i, j)
                               /\ NameAt(longer, i, j) = k /\ BitsAt(longer, i, j) = e[k]
  <2>1. PICK i \in Nat, j \in Nat :
          /\ IsRead(hs, i, j) /\ IsLast(hs, i, j)
          /\ NameAt(hs, i, j) = k /\ BitsAt(hs, i, j) = e[k]
    BY DEF EnvSound
  <2>2. QED
    BY <1>1, <2>1
<1>3. \A i, j \in Nat : IsRead(longer, i, j) => NameAt(longer, i, j) \in DOMAIN e
  BY DEF EnvSound
<1>4. QED
  BY <1>2, <1>3 DEF EnvSound

\* The list grows by one fixed-width field, which comes after all others.
LEMMA EnvGrows ==
  ASSUME NEW hs, NEW longer, NEW e, EnvSound(hs, e), NEW m \in Nat, NEW n \in Nat,
         \A i, j \in Nat : IsRead(longer, i, j) <=> IsRead(hs, i, j) \/ (i = m /\ j = n),
         \A i, j \in Nat : IsRead(hs, i, j) => /\ NameAt(longer, i, j) = NameAt(hs, i, j)
                                               /\ BitsAt(longer, i, j) = BitsAt(hs, i, j)
                                               /\ i < m \/ (i = m /\ j < n)
  PROVE  EnvSound(longer, Insert(e, NameAt(longer, m, n), BitsAt(longer, m, n)))
<1> DEFINE key == NameAt(longer, m, n)
           e2 == Insert(e, key, BitsAt(longer, m, n))
<1>1. /\ DOMAIN e2 = DOMAIN e \cup {key}
      /\ e2[key] = BitsAt(longer, m, n)
      /\ \A k \in DOMAIN e : k # key => e2[k] = e[k]
  BY DEF Insert
<1> HIDE DEF key, e2
<1>2. key = NameAt(longer, m, n)
  BY DEF key
<1>3. IsRead(longer, m, n)
  OBVIOUS
<1>4. IsLast(longer, m, n)
  BY DEF IsLast
<1>5. ASSUME NEW i \in Nat, NEW j \in Nat, IsRead(hs, i, j), IsLast(hs, i, j),
             NameAt(hs, i, j) # key
      PROVE  IsLast(longer, i, j)
  BY <1>2, <1>5 DEF IsLast
<1>6. ASSUME NEW k \in DOMAIN e2
      PROVE  \E i, j \in Nat : /\ IsRead(longer, i, j) /\ IsLast(longer, i, j)
                               /\ NameAt(longer, i, j) = k /\ BitsAt(longer, i, j) = e2[k]
  <2>1. CASE k = key
    BY <1>1, <1>2, <1>3, <1>4, <2>1
  <2>2. CASE k # key
    <3>1. k \in DOMAIN e /\ e2[k] = e[k]
      BY <1>1, <2>2
    <3>2. PICK i \in Nat, j \in Nat :
            /\ IsRead(hs, i, j) /\ IsLast(hs, i, j)
            /\ NameAt(hs, i, j) = k /\ BitsAt(hs, i, j) = e[k]
      BY <3>1 DEF EnvSound
    <3>3. QED
      BY <1>5, <2>2, <3>1, <3>2
  <2>3. QED
    BY <2>1, <2>2
<1>7. \A i, j \in Nat : IsRead(longer, i, j) => NameAt(longer, i, j) \in DOMAIN e2
  BY <1>1, <1>2 DEF EnvSound
<1>8. EnvSound(longer, e2)
  BY <1>6, <1>7 DEF EnvSound
<1>9. QED
  BY <1>8 DEF e2, key

\* The reads of a list are those before its last header and that header's.
LEMMA ReadsOfAppend ==
  ASSUME NEW hs \in Seq(ParsedHeader), NEW h \in ParsedHeader, NEW i \in Nat, NEW j \in Nat
  PROVE  LET n == Len(hs)
         IN  /\ IsRead(Append(hs, h), i, j) <=>
                  \/ i \in 1 .. n /\ IsRead(hs, i, j)
                  \/ i = n + 1 /\ j \in DOMAIN h.fields /\ h.fields[j].fixed
             /\ IsRead(hs, i, j) => i \in 1 .. n
             /\ i \in 1 .. n => /\ NameAt(Append(hs, h), i, j) = NameAt(hs, i, j)
                                /\ BitsAt(Append(hs, h), i, j) = BitsAt(hs, i, j)
             /\ i = n + 1 => /\ NameAt(Append(hs, h), i, j) = <<h.instance, h.fields[j].name>>
                             /\ BitsAt(Append(hs, h), i, j) = h.fields[j].bits
<1> DEFINE n == Len(hs)
           longer == Append(hs, h)
<1>1. n \in Nat /\ DOMAIN hs = 1 .. n
  OBVIOUS
<1>2. /\ longer \in Seq(ParsedHeader)
      /\ Len(longer) = n + 1
      /\ longer[n + 1] = h
      /\ \A a \in 1 .. n : longer[a] = hs[a]
  BY AppendProperties
<1>3. DOMAIN longer = 1 .. n + 1
  BY <1>2
<1> HIDE DEF longer, n
<1>4. i \in 1 .. n + 1 <=> i \in 1 .. n \/ i = n + 1
  BY <1>1
<1>5. ~ (i \in 1 .. n /\ i = n + 1)
  BY <1>1
<1>6. QED
  BY <1>1, <1>2, <1>3, <1>4, <1>5 DEF IsRead, NameAt, BitsAt, longer, n

LEMMA EnvInit == Init => EnvInv
<1> SUFFICES ASSUME Init PROVE EnvInv
  OBVIOUS
<1>1. HeadersSoFar = <<>> /\ env = <<>> /\ result = Running
  BY DEF Init, HeadersSoFar
<1>2. EnvSound(<<>>, <<>>)
  BY DEF EnvSound, IsRead
<1>3. QED
  BY <1>1, <1>2 DEF EnvInv

\* A step that reads nothing, of fixed width or at all.
LEMMA EnvUnmoved ==
  ASSUME EnvInv, pc # "done", env' = env,
         \/ pc' # "done" /\ result' = result
         \/ pc' = "done",
         \/ HeadersSoFar' = HeadersSoFar
         \/ Bailed'
  PROVE  EnvInv'
<1>1. result = Running /\ ~ Bailed
  BY DEF EnvInv, Bailed, Running
<1>2. EnvSound(HeadersSoFar, env)
  BY <1>1 DEF EnvInv
<1>3. ~ Bailed' => EnvSound(HeadersSoFar', env')
  BY <1>2
<1>4. QED
  BY <1>1, <1>3 DEF EnvInv

LEMMA EnvEnter == EnvInv /\ Enter => EnvInv'
<1> SUFFICES ASSUME EnvInv, Enter PROVE EnvInv'
  OBVIOUS
<1>1. pc = "enter" /\ pc' \in {"extract", "done"} /\ UNCHANGED <<env, headers, parsed>>
  BY DEF Enter, EnterState, DepthExceeded, UnknownState, Reject, Bail
<1>2. HeadersSoFar' = HeadersSoFar
  BY <1>1 DEF HeadersSoFar
<1>3. pc' = "extract" => result' = result
  BY DEF Enter, EnterState, DepthExceeded, UnknownState, Reject, Bail
<1>4. QED
  BY <1>1, <1>2, <1>3, EnvUnmoved

LEMMA EnvExtractHeader == TypeOK /\ EnvInv /\ ExtractHeader => EnvInv'
<1> SUFFICES ASSUME TypeOK, EnvInv, ExtractHeader PROVE EnvInv'
  OBVIOUS
<1>1. CASE BeginHeader
  <2>1. parsed' \in ParsedHeader /\ parsed'.fields = <<>>
    <3>1. Extracts[ex + 1] \in Extract /\ cursor \in Nat
      BY <1>1, StateFacts DEF BeginHeader, Extracting, TypeOK, Avail
    <3>2. Instance(Extracts[ex + 1]) \in STRING /\ Extracts[ex + 1].type \in STRING
      BY <3>1 DEF Instance, Extract
    <3>3. QED
      BY <1>1, <3>1, <3>2 DEF BeginHeader, ParsedHeader
  <2>2. headers \in Seq(ParsedHeader)
    BY DEF TypeOK
  <2>3. HeadersSoFar = headers /\ HeadersSoFar' = Append(headers, parsed')
    BY <1>1 DEF BeginHeader, Extracting, HeadersSoFar
  <2>4. result' = result /\ env' = env /\ result = Running /\ ~ Bailed
    BY <1>1 DEF BeginHeader, Extracting, EnvInv, Bailed, Running
  <2>5. EnvSound(headers, env)
    BY <2>3, <2>4 DEF EnvInv
  <2>6. ASSUME NEW i \in Nat, NEW j \in Nat
        PROVE  /\ IsRead(Append(headers, parsed'), i, j) <=> IsRead(headers, i, j)
               /\ IsRead(headers, i, j) =>
                    /\ NameAt(Append(headers, parsed'), i, j) = NameAt(headers, i, j)
                    /\ BitsAt(Append(headers, parsed'), i, j) = BitsAt(headers, i, j)
    <3>1. j \notin DOMAIN parsed'.fields
      BY <2>1
    <3>2. QED
      BY <2>1, <2>2, <3>1, ReadsOfAppend
  <2>7. EnvSound(Append(headers, parsed'), env)
    BY <2>5, <2>6, EnvStays
  <2>8. QED
    BY <2>3, <2>4, <2>7 DEF EnvInv
<1>2. CASE UnknownHeaderType
  BY <1>2, EnvUnmoved DEF UnknownHeaderType, Extracting, Bail, HeadersSoFar
<1>3. CASE EndHeader
  BY <1>3, EnvUnmoved DEF EndHeader, HeadersSoFar
<1>4. QED
  BY <1>1, <1>2, <1>3 DEF ExtractHeader

\* The header under construction gets one more field.
LEMMA EnvTakeField ==
  ASSUME TypeOK, EnvInv, pc = "field", Len(parsed.fields) < Len(Fields),
         UNCHANGED <<ir, packet, pc, headers, result>>,
         NEW n \in Nat, cursor + n <= Avail, NEW fixed \in BOOLEAN, TakeField(n, fixed),
         env' = IF fixed THEN Insert(env, <<parsed.instance, NextField.name>>, Slice(cursor, n))
                ELSE env
  PROVE  EnvInv'
<1> DEFINE read == [name |-> NextField.name, offset |-> cursor,
                    bits |-> Slice(cursor, n), fixed |-> fixed]
           k == Len(parsed.fields)
           m == Len(headers) + 1
           hs == Append(headers, parsed)
           longer == Append(headers, parsed')
<1>1. /\ headers \in Seq(ParsedHeader)
      /\ parsed \in ParsedHeader
      /\ parsed.fields \in Seq(ParsedField) /\ k \in Nat /\ m \in Nat
      /\ cursor \in Nat
  BY DEF TypeOK, ParsedHeader, Avail
<1>2. /\ parsed' \in ParsedHeader
      /\ parsed'.instance = parsed.instance
      /\ parsed'.fields = Append(parsed.fields, read)
  BY <1>1, TakeFieldFacts DEF TakeField, ParsedHeader
<1>3. read \in ParsedField
  BY <1>1, FieldFacts, SliceFacts DEF ParsedField, Field
<1>4. /\ DOMAIN parsed'.fields = 1 .. k + 1
      /\ parsed'.fields[k + 1] = read
      /\ \A j \in 1 .. k : parsed'.fields[j] = parsed.fields[j]
      /\ DOMAIN parsed.fields = 1 .. k
  <2>1. /\ Append(parsed.fields, read) \in Seq(ParsedField)
        /\ Len(Append(parsed.fields, read)) = k + 1
        /\ \A j \in 1 .. k : Append(parsed.fields, read)[j] = parsed.fields[j]
        /\ Append(parsed.fields, read)[k + 1] = read
    BY <1>1, <1>3, AppendProperties
  <2>2. QED
    BY <1>1, <1>2, <2>1
<1>5. read.fixed = fixed /\ read.name = NextField.name /\ read.bits = Slice(cursor, n)
  OBVIOUS
<1> HIDE DEF read
<1>6. HeadersSoFar = hs /\ HeadersSoFar' = longer /\ ~ Bailed /\ result' = result
  BY DEF HeadersSoFar, EnvInv, Bailed, Running
<1>7. EnvSound(hs, env)
  BY <1>6 DEF EnvInv
<1>8. ASSUME NEW i \in Nat, NEW j \in Nat
      PROVE  /\ IsRead(longer, i, j) <=>
                  IsRead(hs, i, j) \/ (fixed /\ i = m /\ j = k + 1)
             /\ IsRead(hs, i, j) => /\ NameAt(longer, i, j) = NameAt(hs, i, j)
                                    /\ BitsAt(longer, i, j) = BitsAt(hs, i, j)
                                    /\ i < m \/ (i = m /\ j < k + 1)
  <2>1. /\ j \in 1 .. k + 1 <=> j \in 1 .. k \/ j = k + 1
        /\ ~ (j \in 1 .. k /\ j = k + 1)
        /\ j \in 1 .. k => j < k + 1
        /\ i \in 1 .. Len(headers) => i < m
    BY <1>1
  <2>2. /\ IsRead(hs, i, j) <=> \/ i \in 1 .. Len(headers) /\ IsRead(headers, i, j)
                                \/ i = m /\ j \in 1 .. k /\ parsed.fields[j].fixed
        /\ i \in 1 .. Len(headers) => /\ NameAt(hs, i, j) = NameAt(headers, i, j)
                                      /\ BitsAt(hs, i, j) = BitsAt(headers, i, j)
        /\ i = m => /\ NameAt(hs, i, j) = <<parsed.instance, parsed.fields[j].name>>
                    /\ BitsAt(hs, i, j) = parsed.fields[j].bits
    BY <1>1, <1>4, ReadsOfAppend
  <2>3. /\ IsRead(longer, i, j) <=> \/ i \in 1 .. Len(headers) /\ IsRead(headers, i, j)
                                    \/ i = m /\ j \in 1 .. k + 1 /\ parsed'.fields[j].fixed
        /\ i \in 1 .. Len(headers) => /\ NameAt(longer, i, j) = NameAt(headers, i, j)
                                      /\ BitsAt(longer, i, j) = BitsAt(headers, i, j)
        /\ i = m => /\ NameAt(longer, i, j) = <<parsed'.instance, parsed'.fields[j].name>>
                    /\ BitsAt(longer, i, j) = parsed'.fields[j].bits
    <3>0. headers \in Seq(ParsedHeader)
      BY <1>1
    <3>1. ASSUME NEW h \in ParsedHeader
          PROVE  /\ IsRead(Append(headers, h), i, j) <=>
                      \/ i \in 1 .. Len(headers) /\ IsRead(headers, i, j)
                      \/ i = m /\ j \in DOMAIN h.fields /\ h.fields[j].fixed
                 /\ i \in 1 .. Len(headers) =>
                      /\ NameAt(Append(headers, h), i, j) = NameAt(headers, i, j)
                      /\ BitsAt(Append(headers, h), i, j) = BitsAt(headers, i, j)
                 /\ i = m =>
                      /\ NameAt(Append(headers, h), i, j) = <<h.instance, h.fields[j].name>>
                      /\ BitsAt(Append(headers, h), i, j) = h.fields[j].bits
      BY <3>0, ReadsOfAppend
    <3>2. parsed' \in ParsedHeader
      BY <1>2
    <3>3. /\ IsRead(longer, i, j) <=>
               \/ i \in 1 .. Len(headers) /\ IsRead(headers, i, j)
               \/ i = m /\ j \in DOMAIN parsed'.fields /\ parsed'.fields[j].fixed
          /\ i \in 1 .. Len(headers) => /\ NameAt(longer, i, j) = NameAt(headers, i, j)
                                        /\ BitsAt(longer, i, j) = BitsAt(headers, i, j)
          /\ i = m => /\ NameAt(longer, i, j) = <<parsed'.instance, parsed'.fields[j].name>>
                      /\ BitsAt(longer, i, j) = parsed'.fields[j].bits
      BY <3>1, <3>2
    <3>4. QED
      BY <1>4, <3>3
  <2> HIDE DEF hs, longer, m, k
  <2>4. ~ (i \in 1 .. Len(headers) /\ i = m)
    BY <1>1, <2>1
  <2>5. CASE i \in 1 .. Len(headers)
    BY <2>1, <2>2, <2>3, <2>4, <2>5
  <2>6. CASE i = m /\ j \in 1 .. k
    BY <1>2, <1>4, <2>1, <2>2, <2>3, <2>4, <2>6
  <2>7. CASE i = m /\ j = k + 1
    BY <1>2, <1>4, <1>5, <2>1, <2>2, <2>3, <2>4, <2>7
  <2>8. CASE i \notin 1 .. Len(headers) /\ ~ (i = m /\ j \in 1 .. k + 1)
    BY <2>1, <2>2, <2>3, <2>8
  <2>9. QED
    BY <2>1, <2>5, <2>6, <2>7, <2>8
<1>9. ~ Bailed'
  BY <1>6 DEF Bailed
<1>10. CASE fixed
  <2>1. /\ NameAt(longer, m, k + 1) = <<parsed.instance, NextField.name>>
        /\ BitsAt(longer, m, k + 1) = Slice(cursor, n)
    <3>1. m \in Nat /\ k + 1 \in Nat
      BY <1>1
    <3>2. /\ NameAt(longer, m, k + 1) = <<parsed'.instance, parsed'.fields[k + 1].name>>
          /\ BitsAt(longer, m, k + 1) = parsed'.fields[k + 1].bits
      BY <1>1, <1>2, <3>1, ReadsOfAppend
    <3>3. QED
      BY <1>2, <1>4, <1>5, <3>2
  <2> HIDE DEF hs, longer, m, k
  <2>2. EnvSound(longer, Insert(env, NameAt(longer, m, k + 1), BitsAt(longer, m, k + 1)))
    <3>1. k + 1 \in Nat /\ m \in Nat
      BY <1>1
    <3>2. QED
      BY <1>7, <1>8, <1>10, <3>1, EnvGrows
  <2>3. QED
    BY <1>6, <1>10, <2>1, <2>2 DEF EnvInv
<1>11. CASE ~ fixed
  <2> HIDE DEF hs, longer, m, k
  <2>1. EnvSound(longer, env)
    BY <1>7, <1>8, <1>11, EnvStays
  <2>2. QED
    BY <1>6, <1>11, <2>1 DEF EnvInv
<1>12. QED
  BY <1>10, <1>11

LEMMA EnvReadField == TypeOK /\ EnvInv /\ ReadField => EnvInv'
<1> SUFFICES ASSUME TypeOK, EnvInv, ReadField PROVE EnvInv'
  OBVIOUS
<1>1. ASSUME FieldOutOfBounds, pc = "field" PROVE EnvInv'
  BY <1>1, EnvUnmoved DEF FieldOutOfBounds, HeadersSoFar, Reject
<1>2. CASE ReadBits
  <2>1. NextField.n \in Nat
    BY <1>2, FieldFacts DEF ReadBits, Reading, Field
  <2>2. QED
    BY <1>2, <2>1, EnvTakeField DEF ReadBits, Reading
<1>3. CASE ReadBytes
  <2>1. LenBytes * ByteBits \in Nat
    BY <1>3, ProductIsNat, ByteBitsAssumption DEF ReadBytes, Word
  <2>2. QED
    BY <1>3, <2>1, EnvTakeField DEF ReadBytes, Reading
<1>4. CASE ReadBitsOutOfBounds \/ ReadBytesOutOfBounds
  BY <1>1, <1>4 DEF ReadBitsOutOfBounds, ReadBytesOutOfBounds, Reading
<1>5. CASE ReadBytesBails \/ FieldWithoutWidth
  <2>1. pc = "field" /\ Bail /\ env' = env
    BY <1>5 DEF ReadBytesBails, FieldWithoutWidth, Reading
  <2>2. pc' = "done" /\ Bailed'
    BY <2>1, ReturnsCursor DEF Bailed
  <2>3. QED
    BY <2>1, <2>2, EnvUnmoved
<1>6. QED
  BY <1>2, <1>3, <1>4, <1>5 DEF ReadField

LEMMA EnvTakeTransition == EnvInv /\ TakeTransition => EnvInv'
<1> SUFFICES ASSUME EnvInv, TakeTransition PROVE EnvInv'
  OBVIOUS
<1>1. pc = "extract" /\ UNCHANGED <<env, headers>>
  BY DEF TakeTransition, Direct, TakeArm, TakeDefault, NoMatchingArm, TransitionBails,
         Extracted, Transit
<1>2. ASSUME NEW target, Follow(target)
      PROVE  (pc' = "enter" /\ result' = result) \/ pc' = "done"
  BY <1>2 DEF Follow, Accept, Reject, Bail
<1>3. (pc' = "enter" /\ result' = result) \/ pc' = "done"
  BY <1>2 DEF TakeTransition, Direct, TakeArm, TakeDefault, NoMatchingArm, TransitionBails,
              Transit, Reject, Bail
<1>4. HeadersSoFar' = HeadersSoFar
  BY <1>1, <1>3 DEF HeadersSoFar
<1>5. QED
  BY <1>1, <1>3, <1>4, EnvUnmoved

LEMMA EnvStutter == EnvInv /\ UNCHANGED vars => EnvInv'
<1> SUFFICES ASSUME EnvInv, UNCHANGED vars PROVE EnvInv'
  OBVIOUS
<1>1. UNCHANGED <<pc, env, result>> /\ HeadersSoFar' = HeadersSoFar /\ Bailed' = Bailed
  BY DEF vars, HeadersSoFar, Bailed
<1>2. (~ Bailed => EnvSound(HeadersSoFar, env)) => (~ Bailed' => EnvSound(HeadersSoFar', env'))
  BY <1>1
<1>3. QED
  BY <1>1, <1>2 DEF EnvInv

LEMMA EnvNext == TypeOK /\ EnvInv /\ [Next]_vars => EnvInv'
BY EnvEnter, EnvExtractHeader, EnvReadField, EnvTakeTransition, EnvStutter
   DEF Next, Step, Returned

LEMMA EnvImplies == TypeOK /\ EnvInv => EnvIsLastRead
<1> SUFFICES ASSUME TypeOK, EnvInv, ~ Bailed PROVE EnvIsLastRead
  BY DEF EnvIsLastRead
<1> DEFINE hs == HeadersSoFar
<1>1. EnvSound(hs, env) /\ hs \in Seq(ParsedHeader)
  BY HeadersSoFarType DEF EnvInv
<1>2. ASSUME NEW i \in DOMAIN hs PROVE i \in Nat /\ hs[i].fields \in Seq(ParsedField)
  <2>1. i \in Nat /\ hs[i] \in ParsedHeader
    BY <1>1
  <2>2. QED
    BY <2>1 DEF ParsedHeader
<1>3. ASSUME NEW p
      PROVE  p \in FixedReads <=> \E i, j \in Nat : p = <<i, j>> /\ IsRead(hs, i, j)
  <2>1. p \in FixedReads <=> \E i \in DOMAIN hs : \E j \in DOMAIN hs[i].fields :
                               p = <<i, j>> /\ hs[i].fields[j].fixed
    BY DEF FixedReads
  <2>2. \A i \in DOMAIN hs : \A j \in DOMAIN hs[i].fields : j \in Nat
    BY <1>2
  <2>3. QED
    BY <1>2, <2>1, <2>2 DEF IsRead
<1> HIDE DEF hs
<1>4. ASSUME NEW i \in Nat, NEW j \in Nat, IsRead(hs, i, j)
      PROVE  KeyOf(<<i, j>>) = NameAt(hs, i, j)
  BY DEF KeyOf, NameAt, hs
<1>5. ASSUME NEW i \in Nat, NEW j \in Nat, NEW a \in Nat, NEW b \in Nat
      PROVE  Before(<<i, j>>, <<a, b>>) <=> ~ (a < i \/ (a = i /\ b <= j))
  BY DEF Before
<1>6. ASSUME NEW i \in Nat, NEW j \in Nat, IsRead(hs, i, j)
      PROVE  <<i, j>> \in LastReads <=> IsLast(hs, i, j)
  <2>1. ASSUME <<i, j>> \in LastReads PROVE IsLast(hs, i, j)
    <3>1. ASSUME NEW a \in Nat, NEW b \in Nat, IsRead(hs, a, b),
                 NameAt(hs, a, b) = NameAt(hs, i, j)
          PROVE  a < i \/ (a = i /\ b <= j)
      <4>1. <<a, b>> \in FixedReads
        BY <1>3, <3>1
      <4>2. KeyOf(<<a, b>>) = KeyOf(<<i, j>>)
        BY <1>4, <1>6, <3>1
      <4>3. QED
        BY <1>5, <2>1, <4>1, <4>2 DEF LastReads
    <3>2. QED
      BY <3>1 DEF IsLast
  <2>2. ASSUME IsLast(hs, i, j) PROVE <<i, j>> \in LastReads
    <3>1. <<i, j>> \in FixedReads
      BY <1>3, <1>6
    <3>2. ASSUME NEW q \in FixedReads, KeyOf(q) = KeyOf(<<i, j>>)
          PROVE  ~ Before(<<i, j>>, q)
      <4>1. PICK a \in Nat, b \in Nat : q = <<a, b>> /\ IsRead(hs, a, b)
        BY <1>3
      <4>2. NameAt(hs, a, b) = NameAt(hs, i, j)
        BY <1>4, <1>6, <3>2, <4>1
      <4>3. QED
        BY <1>5, <2>2, <4>1, <4>2 DEF IsLast
    <3>3. QED
      BY <3>1, <3>2 DEF LastReads
  <2>3. QED
    BY <2>1, <2>2
<1>7. ASSUME NEW p \in LastReads
      PROVE  KeyOf(p) \in DOMAIN env /\ env[KeyOf(p)] = HeadersSoFar[p[1]].fields[p[2]].bits
  <2>1. PICK i \in Nat, j \in Nat : p = <<i, j>> /\ IsRead(hs, i, j)
    BY <1>3 DEF LastReads
  <2>2. KeyOf(p) = NameAt(hs, i, j) /\ NameAt(hs, i, j) \in DOMAIN env /\ IsLast(hs, i, j)
    BY <1>1, <1>4, <1>6, <2>1 DEF EnvSound
  <2>3. PICK a \in Nat, b \in Nat :
          /\ IsRead(hs, a, b) /\ IsLast(hs, a, b)
          /\ NameAt(hs, a, b) = NameAt(hs, i, j) /\ BitsAt(hs, a, b) = env[NameAt(hs, i, j)]
    BY <1>1, <2>2 DEF EnvSound
  <2>4. a = i /\ b = j
    BY <2>1, <2>2, <2>3 DEF IsLast
  <2>5. QED
    BY <2>1, <2>2, <2>3, <2>4 DEF BitsAt, hs
<1>8. ASSUME NEW k \in DOMAIN env
      PROVE  \E p \in LastReads : k = KeyOf(p)
  <2>1. PICK i \in Nat, j \in Nat :
          IsRead(hs, i, j) /\ IsLast(hs, i, j) /\ NameAt(hs, i, j) = k
    BY <1>1 DEF EnvSound
  <2>2. QED
    BY <1>4, <1>6, <2>1
<1>9. DOMAIN env = {KeyOf(p) : p \in LastReads}
  BY <1>7, <1>8
<1>10. QED
  BY <1>7, <1>9 DEF EnvIsLastRead

\* Whatever the description and the packet, an expression reads for each
\* instance and field the value run_bits reported last: the environment and
\* the headers never drift apart.
THEOREM EnvironmentCorrect == Spec => []EnvIsLastRead
<1>1. Init => TypeOK /\ EnvInv
  BY TypeInit, EnvInit
<1>2. TypeOK /\ EnvInv /\ [Next]_vars => (TypeOK /\ EnvInv)'
  BY TypeNext, EnvNext
<1>3. QED
  BY <1>1, <1>2, EnvImplies, PTL DEF Spec

(***************************************************************************)
(* The forensics.  The invariant adds that the headers of a run that has   *)
(* not returned are full and that it has no result yet.                    *)
(***************************************************************************)
Full(h) == Len(h.fields) = Len(ir.types[h.type])
IsCut == result.outcome = "reject" /\ result.field # None

ReportInv ==
  /\ pc # "done" => result = Running /\ \A i \in DOMAIN headers : Full(headers[i])
  /\ ForensicsExact

LEMMA NotCut ==
  ASSUME ~ IsCut, \A i \in DOMAIN headers : Full(headers[i])
  PROVE  ForensicsExact
BY DEF ForensicsExact, IsCut, Full

LEMMA RunningIsNotCut == result = Running => ~ IsCut
BY DEF IsCut, Running

LEMMA ReportInit == Init => ReportInv
<1> SUFFICES ASSUME Init PROVE ReportInv
  OBVIOUS
<1>1. result = Running /\ \A i \in DOMAIN headers : Full(headers[i])
  BY DEF Init
<1>2. QED
  BY <1>1, NotCut, RunningIsNotCut DEF ReportInv

\* A step that finishes no header and cuts none short.
LEMMA ReportStays ==
  ASSUME ReportInv, pc # "done", ir' = ir, headers' = headers,
         result' = result \/ (pc' = "done" /\ ~ IsCut')
  PROVE  ReportInv'
<1>1. result = Running /\ \A i \in DOMAIN headers : Full(headers[i])
  BY DEF ReportInv
<1>2. (\A i \in DOMAIN headers : Full(headers[i]))'
  BY <1>1 DEF Full
<1>3. ~ IsCut'
  BY <1>1 DEF IsCut, Running
<1>4. ForensicsExact'
  BY <1>2, <1>3 DEF ForensicsExact, IsCut, Full
<1>5. QED
  BY <1>1, <1>2, <1>4 DEF ReportInv

LEMMA Uncut ==
  /\ \A reason, info, inst : Reject(reason, inst, None, info) => pc' = "done" /\ ~ IsCut'
  /\ Accept => pc' = "done" /\ ~ IsCut'
  /\ Bail => pc' = "done" /\ ~ IsCut'
<1>1. ASSUME NEW reason, NEW info, NEW inst, Reject(reason, inst, None, info)
      PROVE  pc' = "done" /\ ~ IsCut'
  BY <1>1 DEF Reject, IsCut
<1>2. Accept => pc' = "done" /\ ~ IsCut'
  BY DEF Accept, IsCut, Running
<1>3. Bail => pc' = "done" /\ ~ IsCut'
  BY DEF Bail, IsCut, Running
<1>4. QED
  BY <1>1, <1>2, <1>3

LEMMA ReportEnter == ReportInv /\ Enter => ReportInv'
BY ReportStays, Uncut DEF Enter, EnterState, DepthExceeded, UnknownState

LEMMA ReportExtractHeader == TypeOK /\ ReportInv /\ ExtractHeader => ReportInv'
<1> SUFFICES ASSUME TypeOK, ReportInv, ExtractHeader PROVE ReportInv'
  OBVIOUS
<1>1. CASE BeginHeader \/ UnknownHeaderType
  BY <1>1, ReportStays, Uncut DEF BeginHeader, UnknownHeaderType, Extracting
<1>2. CASE EndHeader
  <2>1. result = Running /\ \A i \in DOMAIN headers : Full(headers[i])
    BY <1>2 DEF ReportInv, EndHeader
  <2>2. Full(parsed)
    BY <1>2 DEF EndHeader, Full, Fields
  <2>3. headers \in Seq(ParsedHeader) /\ parsed \in ParsedHeader
    BY DEF TypeOK
  <2>4. \A i \in DOMAIN Append(headers, parsed) : Full(Append(headers, parsed)[i])
    BY <2>1, <2>2, <2>3
  <2>5. headers' = Append(headers, parsed) /\ ir' = ir /\ result' = result /\ pc' = "extract"
    BY <1>2 DEF EndHeader
  <2>6. (\A i \in DOMAIN headers : Full(headers[i]))'
    BY <2>4, <2>5 DEF Full
  <2>7. ~ IsCut'
    BY <2>1, <2>5 DEF IsCut, Running
  <2>8. ForensicsExact'
    BY <2>6, <2>7 DEF ForensicsExact, IsCut, Full
  <2>9. QED
    BY <2>1, <2>5, <2>6, <2>8 DEF ReportInv
<1>3. QED
  BY <1>1, <1>2 DEF ExtractHeader

\* The packet ends inside the field: the header is reported as it is.
LEMMA ReportOutOfBounds ==
  ASSUME TypeOK, ReportInv, Reading("bits") \/ Reading("bytes"), FieldOutOfBounds,
         cursor + (IF NextField.width = "bits" THEN NextField.n ELSE ByteBits * LenBytes) > Avail
  PROVE  ReportInv'
<1> DEFINE n == Len(headers)
           k == Len(parsed.fields)
           longer == Append(headers, parsed)
<1>1. pc = "field" /\ k < Len(Fields) /\ NextField \in Field
  BY FieldFacts DEF Reading
<1>2. headers \in Seq(ParsedHeader) /\ parsed \in ParsedHeader /\ n \in Nat
  BY DEF TypeOK
<1>3. \A i \in DOMAIN headers : Full(headers[i])
  BY <1>1 DEF ReportInv
<1>4. Len(longer) = n + 1 /\ longer[n + 1] = parsed /\ DOMAIN longer = 1 .. n + 1
      /\ \A i \in 1 .. n : longer[i] = headers[i]
  BY <1>2
<1>5. \A i \in DOMAIN longer : Full(longer[i]) \/ i = n + 1
  BY <1>2, <1>3, <1>4
<1>6. NextField.name # None
  <2>1. /\ ir \in Irs /\ IsIr(ir) /\ parsed.type \in DOMAIN ir.types
        /\ Fields \in Seq(Field) /\ k \in Nat
    BY <1>1, IrFacts, FieldFacts DEF TypeOK
  <2>2. k + 1 \in DOMAIN ir.types[parsed.type]
    BY <1>1, <2>1 DEF Fields
  <2>3. QED
    BY <2>1, <2>2, NoneAssumption DEF NextField, Fields
<1>7. /\ headers' = longer /\ ir' = ir /\ env' = env /\ packet' = packet
      /\ pc' = "done"
      /\ result' = [outcome |-> "reject", consumed |-> cursor, state |-> current,
                    instance |-> parsed.instance, field |-> NextField.name,
                    reason |-> OutOfBounds, info |-> FALSE]
  BY DEF FieldOutOfBounds, Reject
<1>8. IsCut'
  BY <1>6, <1>7 DEF IsCut
<1>9. (\A i \in DOMAIN headers : Full(headers[i]) \/ (IsCut /\ i = Len(headers)))'
  BY <1>4, <1>5, <1>7, <1>8 DEF Full
<1>10. /\ headers'[Len(headers')] = parsed
       /\ ir'.types[parsed.type][Len(parsed.fields) + 1] = NextField
  BY <1>4, <1>7 DEF NextField, Fields
<1>11. k # Len(ir.types[parsed.type])
  BY <1>1, FieldFacts DEF Fields
<1>12. Avail' = Avail /\ EvalExpr(ir, NextField.n, env) = LenBytes
  BY <1>7 DEF Avail, LenBytes
<1>13. ForensicsExact'
  <2> DEFINE h == headers'[Len(headers')]
             f == ir'.types[h.type][Len(h.fields) + 1]
  <2>1. h = parsed /\ f = NextField
    BY <1>10
  <2>2. Len(h.fields) # Len(ir'.types[h.type])
    BY <1>7, <1>11, <2>1
  <2>3. /\ result'.instance = h.instance
        /\ result'.field = f.name
        /\ result'.reason = OutOfBounds
        /\ result'.consumed = cursor
    BY <1>7, <2>1
  <2>4. result'.consumed + (IF f.width = "bits" THEN f.n
                            ELSE ByteBits * EvalExpr(ir', f.n, env')) > Avail'
    BY <1>7, <1>12, <2>1, <2>3
  <2>5. \A i \in DOMAIN headers' : \/ Len(headers'[i].fields) = Len(ir'.types[headers'[i].type])
                                   \/ IsCut' /\ i = Len(headers')
    BY <1>9 DEF Full
  <2> HIDE DEF h, f
  <2>6. QED
    BY <1>8, <2>2, <2>3, <2>4, <2>5 DEF ForensicsExact, IsCut, h, f
<1>14. QED
  BY <1>7, <1>13 DEF ReportInv

LEMMA ReportReadField == TypeOK /\ ReportInv /\ ReadField => ReportInv'
<1> SUFFICES ASSUME TypeOK, ReportInv, ReadField PROVE ReportInv'
  OBVIOUS
<1>1. CASE ReadBits \/ ReadBytes
  BY <1>1, ReportStays DEF ReadBits, ReadBytes, Reading
<1>2. CASE ReadBitsOutOfBounds
  BY <1>2, ReportOutOfBounds DEF ReadBitsOutOfBounds, Reading
<1>3. CASE ReadBytesOutOfBounds
  <2>1. LenBytes * ByteBits = ByteBits * LenBytes
    BY <1>3, ByteBitsAssumption DEF ReadBytesOutOfBounds, Word
  <2>2. QED
    BY <1>3, <2>1, ReportOutOfBounds DEF ReadBytesOutOfBounds, Reading
<1>4. CASE ReadBytesBails \/ FieldWithoutWidth
  BY <1>4, ReportStays, Uncut DEF ReadBytesBails, FieldWithoutWidth, Reading
<1>5. QED
  BY <1>1, <1>2, <1>3, <1>4 DEF ReadField

LEMMA ReportTakeTransition == ReportInv /\ TakeTransition => ReportInv'
<1> SUFFICES ASSUME ReportInv, TakeTransition PROVE ReportInv'
  OBVIOUS
<1>1. pc = "extract" /\ UNCHANGED <<ir, headers>>
  BY DEF TakeTransition, Direct, TakeArm, TakeDefault, NoMatchingArm, TransitionBails,
         Extracted, Transit
<1>2. ASSUME NEW target, Follow(target)
      PROVE  result' = result \/ (pc' = "done" /\ ~ IsCut')
  BY <1>2, Uncut DEF Follow
<1>3. result' = result \/ (pc' = "done" /\ ~ IsCut')
  BY <1>2, Uncut DEF TakeTransition, Direct, TakeArm, TakeDefault, NoMatchingArm,
                     TransitionBails, Transit
<1>4. QED
  BY <1>1, <1>3, ReportStays

LEMMA ReportStutter == ReportInv /\ UNCHANGED vars => ReportInv'
BY DEF ReportInv, ForensicsExact, Full, Avail, vars

LEMMA ReportNext == TypeOK /\ ReportInv /\ [Next]_vars => ReportInv'
BY ReportEnter, ReportExtractHeader, ReportReadField, ReportTakeTransition, ReportStutter
   DEF Next, Step, Returned

\* Whatever the description and the packet, the error run_bits returns for a
\* truncated packet names the very field the packet ends in.
THEOREM ForensicsCorrect == Spec => []ForensicsExact
<1>1. Init => TypeOK /\ ReportInv
  BY TypeInit, ReportInit
<1>2. TypeOK /\ ReportInv /\ [Next]_vars => (TypeOK /\ ReportInv)'
  BY TypeNext, ReportNext
<1>3. ReportInv => ForensicsExact
  BY DEF ReportInv
<1>4. QED
  BY <1>1, <1>2, <1>3, PTL DEF Spec

(***************************************************************************)
(* Refinement.  The first state of the interpreter is one of WireParse's,  *)
(* and each of its steps is one of WireParse's or leaves WireParse's       *)
(* variables alone. The mapping is that of InterpRefines. A step of        *)
(* WireParse takes a field off a flat list, where the interpreter walks    *)
(* extracts and the fields of each; the lemmas on what is left to take     *)
(* relate the two.                                                         *)
(***************************************************************************)

\* An instance of a definition is the definition.
LEMMA SameUint == \A b : Promise!Uint(b) = Uint(b)
BY DEF Promise!Uint, Uint

LEMMA SameEval == \A i, e, m : Promise!EvalExpr(i, e, m) = EvalExpr(i, e, m)
BY DEF Promise!EvalExpr, EvalExpr, Promise!EvalNode, EvalNode, Promise!Unresolved, Unresolved,
       Promise!BinOps, BinOps, Promise!Uint, Uint, Promise!Arith, Arith, Promise!BitwiseAnd, BitwiseAnd,
       Promise!BitwiseOr, BitwiseOr, Promise!Both, Both, Promise!Either, Either, Promise!BitOf, BitOf

LEMMA SameWireFields == \A i, xs : Promise!WireFields(i, xs) = WireFields(i, xs)
BY DEF Promise!WireFields, WireFields, Promise!TypeFields, TypeFields, Promise!Instance, Instance,
       Promise!FlattenSeq, FlattenSeq

LEMMA SameMatches == \A tr, keys : Promise!MatchingArms(tr, keys) = MatchingArms(tr, keys)
BY DEF Promise!MatchingArms, MatchingArms, Promise!ArmMatches, ArmMatches, Promise!EvalEntry, EvalEntry,
       Promise!BitwiseAnd, BitwiseAnd,  Promise!Both, Both, Promise!BitOf, BitOf, Promise!Uint, Uint

LEMMA SameKeys ==
  /\ \A i, tr, e : Promise!Keys(i, tr, e) = Keys(i, tr, e)
  /\ \A i, tr, e : Promise!KeysResolve(i, tr, e) <=> KeysResolve(i, tr, e)
<1>1. \A i, tr, e : Promise!Keys(i, tr, e) = Keys(i, tr, e)
  BY SameEval DEF Promise!Keys, Keys
<1>2. \A i, tr, e : Promise!KeysResolve(i, tr, e) <=> KeysResolve(i, tr, e)
  BY SameEval DEF Promise!KeysResolve, KeysResolve, Promise!Word, Word
<1> QED BY <1>1, <1>2

(***************************************************************************)
(* What is left to take.                                                   *)
(***************************************************************************)
\* The fields of the header under construction from the k-th on, and those of
\* the extracts after the n-th.
Part(k) ==
  [j \in 1 .. Len(Fields) - k |-> [instance |-> parsed.instance, field |-> Fields[k + j]]]
Later(n) == WireFields(ir, SubSeq(Extracts, n + 1, Len(Extracts)))

LEMMA UnreadIs ==
  ASSUME ex \in Nat
  PROVE  Unread = IF OpenHeader THEN Part(Len(parsed.fields)) \o Later(ex + 1)
                  ELSE IF pc = "extract" THEN Later(ex) ELSE <<>>
<1>1. (ex + 1) + 1 = ex + 2
  OBVIOUS
<1> QED BY <1>1 DEF Unread, Part, Later

LEMMA UnreadNext ==
  ASSUME ex' \in Nat
  PROVE  Unread' = IF OpenHeader' THEN Part(Len(parsed.fields))' \o Later(ex + 1)'
                   ELSE IF pc' = "extract" THEN Later(ex)' ELSE <<>>
<1>1. (ex' + 1) + 1 = ex' + 2
  OBVIOUS
<1> QED BY <1>1 DEF Unread, Part, Later

LEMMA LaterType ==
  ASSUME TypeOK, pc \in {"extract", "field"}, NEW n \in Nat
  PROVE  Later(n) \in Seq(WireField)
<1>1. Extracts \in Seq(Extract) /\ IsIr(ir)
  BY StateFacts, IrFacts
<1>2. SubSeq(Extracts, n + 1, Len(Extracts)) \in Seq(Extract)
  BY <1>1, SubSeqProperties
<1> QED BY <1>1, <1>2, WireFieldsType DEF Later

LEMMA LaterStep ==
  ASSUME TypeOK, pc \in {"extract", "field"}, NEW n \in Nat, n < Len(Extracts)
  PROVE  Later(n) = OwnFields(ir, Extracts[n + 1]) \o Later(n + 1)
<1>1. Extracts \in Seq(Extract) /\ IsIr(ir)
  BY StateFacts, IrFacts
<1>2. (n + 1) + 1 = n + 2
  OBVIOUS
<1> QED BY <1>1, <1>2, WireFieldsFrom DEF Later

LEMMA LaterEnds ==
  ASSUME TypeOK, pc \in {"extract", "field"}
  PROVE  Later(Len(Extracts)) = <<>>
<1>1. Extracts \in Seq(Extract)
  BY StateFacts
<1>2. SubSeq(Extracts, Len(Extracts) + 1, Len(Extracts)) = <<>>
  BY <1>1, SubSeqEmpty
<1> QED BY <1>2, WireFieldsEmpty DEF Later

LEMMA PartFacts ==
  ASSUME TypeOK, pc = "field", NEW k \in Nat, k <= Len(Fields)
  PROVE  /\ Part(k) \in Seq(WireField)
         /\ k < Len(Fields) => /\ Part(k) # <<>>
                               /\ Head(Part(k)) = [instance |-> parsed.instance, field |-> Fields[k + 1]]
                               /\ Tail(Part(k)) = Part(k + 1)
         /\ k = Len(Fields) => Part(k) = <<>>
<1>1. Fields \in Seq(Field) /\ parsed.instance \in STRING
  BY FieldFacts DEF TypeOK, ParsedHeader
<1>2. ASSUME NEW m \in Nat, m <= Len(Fields)
      PROVE  Part(m) \in Seq(WireField) /\ Len(Part(m)) = Len(Fields) - m
  <2>1. \A j \in 1 .. Len(Fields) - m : m + j \in 1 .. Len(Fields)
    BY <1>1, <1>2
  <2>2. \A j \in 1 .. Len(Fields) - m :
          [instance |-> parsed.instance, field |-> Fields[m + j]] \in WireField
    BY <1>1, <2>1 DEF WireField
  <2>3. Len(Fields) - m \in Nat
    BY <1>1, <1>2
  <2> QED BY <2>2, <2>3 DEF Part
<1>3. ASSUME k < Len(Fields)
      PROVE  /\ Part(k) # <<>>
             /\ Head(Part(k)) = [instance |-> parsed.instance, field |-> Fields[k + 1]]
             /\ Tail(Part(k)) = Part(k + 1)
  <2>1. Part(k) \in Seq(WireField) /\ Len(Part(k)) = Len(Fields) - k /\ Part(k) # <<>>
    BY <1>1, <1>2, <1>3
  <2>2. Part(k + 1) \in Seq(WireField) /\ Len(Part(k + 1)) = Len(Fields) - (k + 1)
    BY <1>1, <1>2, <1>3
  <2>3. Tail(Part(k)) \in Seq(WireField) /\ Len(Tail(Part(k))) = Len(Fields) - (k + 1)
        /\ \A j \in 1 .. Len(Fields) - (k + 1) : Tail(Part(k))[j] = Part(k)[j + 1]
        /\ Head(Part(k)) = Part(k)[1]
    BY <1>1, <1>3, <2>1, HeadTailProperties
  <2>4. ASSUME NEW j \in 1 .. Len(Fields) - (k + 1)
        PROVE  Part(k)[j + 1] = Part(k + 1)[j]
    <3>1. j + 1 \in 1 .. Len(Fields) - k /\ k + (j + 1) = (k + 1) + j
      BY <1>1
    <3> QED BY <3>1 DEF Part
  <2>5. Tail(Part(k)) = Part(k + 1)
    BY <2>2, <2>3, <2>4, SeqEqual
  <2>6. Part(k)[1] = [instance |-> parsed.instance, field |-> Fields[k + 1]]
    <3>1. 1 \in 1 .. Len(Fields) - k
      BY <1>1, <1>3
    <3> QED BY <3>1 DEF Part
  <2> QED BY <2>1, <2>3, <2>5, <2>6
<1>4. ASSUME k = Len(Fields) PROVE Part(k) = <<>>
  <2>1. Part(k) \in Seq(WireField) /\ Len(Part(k)) = 0
    BY <1>1, <1>2, <1>4
  <2> QED BY <2>1
<1> QED BY <1>2, <1>3, <1>4

\* Inside a header, the field to read next is the field to take next.
LEMMA UnreadInField ==
  ASSUME TypeOK, pc = "field", Len(parsed.fields) < Len(Fields)
  PROVE  /\ Unread # <<>>
         /\ Head(Unread) = [instance |-> parsed.instance, field |-> NextField]
         /\ Tail(Unread) = Part(Len(parsed.fields) + 1) \o Later(ex + 1)
<1> DEFINE k == Len(parsed.fields)
<1>1. k \in Nat /\ k <= Len(Fields) /\ ex + 1 \in Nat /\ ex \in Nat
  BY FieldFacts DEF TypeOK
<1>2. Unread = Part(k) \o Later(ex + 1)
  BY <1>1, UnreadIs DEF OpenHeader
<1>3. Part(k) \in Seq(WireField) /\ Part(k) # <<>> /\ Later(ex + 1) \in Seq(WireField)
  BY <1>1, PartFacts, LaterType
<1> DEFINE p == Part(k)
           q == Later(ex + 1)
<1> HIDE DEF p, q
<1>4. p \o q # <<>> /\ Head(p \o q) = Head(p) /\ Tail(p \o q) = Tail(p) \o q
  BY <1>3, ConcatHeadTail DEF p, q
<1>5. Head(p) = [instance |-> parsed.instance, field |-> NextField] /\ Tail(p) = Part(k + 1)
  BY <1>1, PartFacts DEF p, NextField
<1> QED BY <1>2, <1>4, <1>5 DEF p, q

\* On entry to a state all its fields are left.
LEMMA UnreadOnEntry ==
  ASSUME TypeOK, EnterState
  PROVE  Unread' = WireFields(ir, Extracts)
<1>1. pc' = "extract" /\ ex' = 0 /\ Extracts' = Extracts /\ ir' = ir
  BY DEF EnterState, Extracts
<1>2. Extracts \in Seq(Extract)
  BY IrFacts DEF EnterState, KnownState, Extracts, IsIr, State
<1>3. SubSeq(Extracts, 1, Len(Extracts)) = Extracts
  BY <1>2, SubSeqFull
<1>4. Unread' = Later(ex)'
  BY <1>1, UnreadNext DEF OpenHeader
<1>5. Later(ex)' = WireFields(ir', SubSeq(Extracts', ex' + 1, Len(Extracts')))
  BY DEF Later
<1>6. ex' + 1 = 1
  BY <1>1
<1> QED BY <1>1, <1>3, <1>4, <1>5, <1>6

\* Between headers the next one's fields come first.
LEMMA UnreadBetween ==
  ASSUME TypeOK, Extracting
  PROVE  /\ Unread = OwnFields(ir, Extracts[ex + 1]) \o Later(ex + 1)
         /\ OwnFields(ir, Extracts[ex + 1]) \in Seq(WireField)
         /\ Later(ex + 1) \in Seq(WireField)
<1>1. ex \in Nat /\ ex + 1 \in Nat /\ pc \in {"extract", "field"}
  BY DEF TypeOK, Extracting
<1>2. Unread = Later(ex) /\ ex < Len(Extracts)
  BY <1>1, UnreadIs DEF Extracting, OpenHeader
<1>3. Extracts[ex + 1] \in Extract /\ IsIr(ir)
  BY <1>1, <1>2, StateFacts, IrFacts
<1> QED BY <1>1, <1>2, <1>3, LaterStep, LaterType, OwnFieldsType

\* Beginning and ending a header takes nothing off.
LEMMA UnreadOnBegin ==
  ASSUME TypeOK, BeginHeader
  PROVE  Unread' = Unread
<1> DEFINE e == Extracts[ex + 1]
<1>1. /\ Extracting /\ e.type \in DOMAIN ir.types /\ pc' = "field"
      /\ parsed'.instance = Instance(e) /\ parsed'.type = e.type /\ Len(parsed'.fields) = 0
      /\ ir' = ir /\ current' = current /\ ex' = ex /\ ex \in Nat
  BY DEF BeginHeader, TypeOK
<1>2. Fields' = TypeFields(ir, e.type)
  BY <1>1 DEF Fields, TypeFields
<1>3. Fields' \in Seq(Field)
  BY <1>1, <1>2, IrFacts DEF TypeFields, IsIr
<1>4. Part(0)' = OwnFields(ir, e)
  <2>1. DOMAIN Fields' = 1 .. Len(Fields') - 0
    BY <1>3
  <2>2. \A j \in 1 .. Len(Fields') - 0 : 0 + j = j
    BY <1>3
  <2>3. Part(0)' = [j \in 1 .. Len(Fields') - 0 |->
                     [instance |-> parsed'.instance, field |-> (Fields')[0 + j]]]
    BY DEF Part
  <2>4. OwnFields(ir, e) = [j \in 1 .. Len(Fields') - 0 |->
                             [instance |-> parsed'.instance, field |-> (Fields')[j]]]
    BY <1>1, <1>2, <2>1 DEF OwnFields
  <2> HIDE DEF e
  <2> QED BY <2>2, <2>3, <2>4
<1>5. Unread' = Part(0)' \o Later(ex + 1)'
  <2>1. Unread' = Part(Len(parsed.fields))' \o Later(ex + 1)'
    BY <1>1, UnreadNext DEF OpenHeader
  <2>2. Part(Len(parsed.fields))' = Part(0)'
    BY <1>1 DEF Part
  <2> QED BY <2>1, <2>2
<1>6. Later(ex + 1)' = Later(ex + 1)
  BY <1>1 DEF Later, Extracts
<1> QED BY <1>1, <1>4, <1>5, <1>6, UnreadBetween

LEMMA UnreadOnEnd ==
  ASSUME TypeOK, EndHeader
  PROVE  Unread' = Unread
<1>1. /\ pc = "field" /\ pc' = "extract" /\ ir' = ir /\ current' = current /\ ex' = ex + 1
      /\ Len(parsed.fields) = Len(Fields) /\ ex \in Nat /\ ex + 1 \in Nat
  BY DEF EndHeader, TypeOK
<1>2. Unread = Part(Len(parsed.fields)) \o Later(ex + 1)
  BY <1>1, UnreadIs DEF OpenHeader
<1>3. Part(Len(parsed.fields)) = <<>> /\ Later(ex + 1) \in Seq(WireField)
  BY <1>1, FieldFacts, PartFacts, LaterType
<1>4. Unread = Later(ex + 1)
  BY <1>2, <1>3, ConcatEmptySeq
<1>5. Unread' = Later(ex)'
  BY <1>1, UnreadNext DEF OpenHeader
<1>6. Later(ex)' = Later(ex + 1)
  BY <1>1 DEF Later, Extracts
<1> QED BY <1>4, <1>5, <1>6

(***************************************************************************)
(* The verdict.                                                            *)
(***************************************************************************)
LEMMA VerdictIs ==
  /\ pc # "done" => InterpVerdict = Promise!Pending
  /\ \A reason, inst, field, info :
       Reject(reason, inst, field, info) =>
         InterpVerdict' = [outcome |-> "reject", reason |-> reason, consumed |-> cursor]
  /\ Accept => InterpVerdict' = [outcome |-> "accept", reason |-> "", consumed |-> cursor]
  /\ Bail => InterpVerdict' = [outcome |-> "err", reason |-> "", consumed |-> 0]
<1>1. pc # "done" => InterpVerdict = Promise!Pending
  BY DEF InterpVerdict, Promise!Pending
<1>2. ASSUME NEW reason, NEW inst, NEW field, NEW info, Reject(reason, inst, field, info)
      PROVE  InterpVerdict' = [outcome |-> "reject", reason |-> reason, consumed |-> cursor]
  BY <1>2 DEF InterpVerdict, Reject
<1>3. Accept => InterpVerdict' = [outcome |-> "accept", reason |-> "", consumed |-> cursor]
  BY DEF InterpVerdict, Accept, Running
<1>4. Bail => InterpVerdict' = [outcome |-> "err", reason |-> "", consumed |-> 0]
  BY DEF InterpVerdict, Bail, Running
<1> QED BY <1>1, <1>2, <1>3, <1>4

(***************************************************************************)
(* The steps.                                                              *)
(***************************************************************************)
Visiting == pc \in {"extract", "field"} \/ (pc = "done" /\ depth <= ir.max_depth /\ KnownState)

\* The initial states.
LEMMA PromiseInit == Init => Promise!Init
<1> SUFFICES ASSUME Init PROVE Promise!Init
  OBVIOUS
<1>1. InterpVerdict = Promise!Pending
  BY VerdictIs DEF Init
<1>2. Unread = <<>>
  BY DEF Init, Unread, OpenHeader
<1> QED BY <1>1, <1>2 DEF Init, Promise!Init

\* A step that returns without a field to name leaves nothing to take.
LEMMA NothingLeft == pc' = "done" /\ result'.field = None => Unread' = <<>>
BY DEF Unread, OpenHeader

\* Entering a state is a visit, or one of the stops that replace it.
LEMMA PromiseEnter == TypeOK /\ PathInv /\ Enter => Promise!Next
<1> SUFFICES ASSUME TypeOK, PathInv, Enter PROVE Promise!Next
  OBVIOUS
<1>1. pc = "enter" /\ InterpVerdict = Promise!Pending
  BY VerdictIs DEF Enter, EnterState, DepthExceeded, UnknownState
<1>2. Unread = <<>> /\ depth \in Nat /\ ir.max_depth \in Nat /\ depth <= ir.max_depth
  BY <1>1, IrFacts DEF Unread, OpenHeader, TypeOK, PathInv, IsIr
<1>3. CASE EnterState
  <2>1. pc' = "extract" /\ ir' = ir
    BY <1>3 DEF EnterState
  <2>2. Unread' = WireFields(ir, Extracts)
    BY <1>3, UnreadOnEntry
  <2>3. InterpVerdict' = Promise!Pending
    BY <2>1 DEF InterpVerdict, Promise!Pending
  <2>4. Promise!Visit
    BY <1>1, <1>2, <1>3, <2>1, <2>2, <2>3, SameWireFields
       DEF EnterState, WithinDepth, KnownState, Extracts, Promise!Visit
  <2> QED BY <2>4 DEF Promise!Next
<1>4. CASE DepthExceeded
  <2>1. depth = ir.max_depth /\ depth' = depth + 1 /\ ir' = ir /\ pc' = "done"
    BY <1>2, <1>4 DEF DepthExceeded, WithinDepth, Reject
  <2>2. InterpVerdict' = [outcome |-> "reject", reason |-> "max depth exceeded", consumed |-> cursor]
    BY <1>4, VerdictIs DEF DepthExceeded, MaxDepthExceeded
  <2>3. Unread' = <<>>
    BY <1>4, NothingLeft DEF DepthExceeded, Reject
  <2>4. ~ Visiting'
    BY <1>2, <2>1 DEF Visiting
  <2>5. Promise!TooDeep
    BY <1>1, <1>2, <1>4, <2>1, <2>2, <2>3, <2>4
       DEF DepthExceeded, Visiting, Promise!TooDeep, Promise!Verdict
  <2> QED BY <2>5 DEF Promise!Next
<1>5. CASE UnknownState
  <2>1. pc' = "done" /\ result'.field = None
    BY <1>5 DEF UnknownState, Bail, Running
  <2>2. InterpVerdict' = [outcome |-> "err", reason |-> "", consumed |-> 0]
    BY <1>5, VerdictIs DEF UnknownState
  <2>3. Unread' = <<>>
    BY <2>1, NothingLeft
  <2>4. ~ KnownState'
    BY <1>5 DEF UnknownState, KnownState
  <2>5. depth < ir.max_depth
    BY <1>2, <1>5 DEF UnknownState, WithinDepth
  <2>6. Promise!NoSuchState
    BY <1>1, <1>5, <2>5 DEF UnknownState, KnownState, Promise!NoSuchState
  <2>7. Promise!Fail
    BY <1>1, <1>5, <2>1, <2>2, <2>3, <2>4, <2>6 DEF UnknownState, Promise!Fail
  <2> QED BY <2>7 DEF Promise!Next
<1> QED BY <1>3, <1>4, <1>5 DEF Enter

\* Beginning and ending a header is invisible; an unknown type is an error.
LEMMA PromiseExtractHeader ==
  TypeOK /\ PathInv /\ ExtractHeader => Promise!Next \/ UNCHANGED Promise!vars
<1> SUFFICES ASSUME TypeOK, PathInv, ExtractHeader
             PROVE  Promise!Next \/ UNCHANGED Promise!vars
  OBVIOUS
<1>1. /\ pc \in {"extract", "field"} /\ InterpVerdict = Promise!Pending
      /\ ex \in Nat /\ ex + 1 \in Nat
  <2>1. pc \in {"extract", "field"}
    BY DEF ExtractHeader, BeginHeader, UnknownHeaderType, EndHeader, Extracting
  <2>2. ex \in Nat
    BY DEF TypeOK
  <2>3. InterpVerdict = Promise!Pending
    BY <2>1, VerdictIs
  <2>4. ex + 1 \in Nat
    BY <2>2
  <2> QED BY <2>1, <2>2, <2>3, <2>4
<1>2. depth <= ir.max_depth /\ current \in DOMAIN ir.states
  BY <1>1 DEF PathInv, TypeOK
<1>3. CASE BeginHeader
  <2>1. pc' = "field" /\ Unread' = Unread
    BY <1>3, UnreadOnBegin DEF BeginHeader
  <2>2. InterpVerdict' = InterpVerdict
    BY <1>1, <2>1 DEF InterpVerdict
  <2> QED BY <1>1, <1>3, <2>1, <2>2 DEF BeginHeader, Promise!vars
<1>4. CASE UnknownHeaderType
  <2> DEFINE e == Extracts[ex + 1]
             own == OwnFields(ir, e)
  <2>1. Extracting /\ e.type \notin DOMAIN ir.types
    BY <1>4 DEF UnknownHeaderType
  <2>2. own # <<>> /\ Head(own).field = NoWidth
    <3>1. TypeFields(ir, e.type) = <<NoWidth>>
      BY <2>1 DEF TypeFields, NoWidth
    <3> QED BY <3>1 DEF OwnFields
  <2>3. Unread # <<>> /\ Head(Unread).field = NoWidth
    <3>1. own \in Seq(WireField) /\ Later(ex + 1) \in Seq(WireField) /\ Unread = own \o Later(ex + 1)
      BY <2>1, UnreadBetween
    <3> HIDE DEF own
    <3> QED BY <2>2, <3>1, ConcatHeadTail
  <2>4. Promise!Taking
    BY <1>1, <2>3 DEF Promise!Taking
  <2>5. ~ Promise!HasWidth
    <3>1. Head(Unread).field.width = "none"
      <4>1. NoWidth.width = "none"
        BY DEF NoWidth
      <4> QED BY <2>3, <4>1
    <3> QED BY <3>1 DEF Promise!HasWidth
  <2>6. Promise!NoWayOn
    BY <2>4, <2>5 DEF Promise!NoWayOn
  <2>7. ~ Promise!NoSuchState
    BY <1>1 DEF Promise!NoSuchState
  <2>8. pc' = "done" /\ result'.field = None
    BY <1>4 DEF UnknownHeaderType, Bail, Running
  <2>9. Unread' = <<>> /\ InterpVerdict' = [outcome |-> "err", reason |-> "", consumed |-> 0]
    BY <1>4, <2>8, NothingLeft, VerdictIs DEF UnknownHeaderType
  <2>10. Promise!Fail
    BY <1>1, <1>2, <1>4, <2>6, <2>7, <2>8, <2>9 DEF UnknownHeaderType, KnownState, Promise!Fail
  <2> QED BY <2>10 DEF Promise!Next
<1>5. CASE EndHeader
  <2>1. pc' = "extract" /\ Unread' = Unread
    BY <1>5, UnreadOnEnd DEF EndHeader
  <2>2. InterpVerdict' = InterpVerdict
    BY <1>1, <2>1 DEF InterpVerdict
  <2> QED BY <1>1, <1>5, <2>1, <2>2 DEF EndHeader, Promise!vars
<1> QED BY <1>3, <1>4, <1>5 DEF ExtractHeader

\* The field and its width are the same on both sides.
LEMMA NextToTake ==
  ASSUME TypeOK, pc = "field", Len(parsed.fields) < Len(Fields)
  PROVE  /\ Promise!Taking
         /\ Head(Unread).field = NextField
         /\ Head(Unread).instance = parsed.instance
         /\ Promise!HasWidth <=> \/ NextField.width = "bits"
                                 \/ NextField.width = "bytes" /\ Aligned /\ LenBytes \in Word
         /\ Promise!Width = IF NextField.width = "bits" THEN NextField.n ELSE ByteBits * LenBytes
<1>1. Unread # <<>> /\ Head(Unread) = [instance |-> parsed.instance, field |-> NextField]
  BY UnreadInField
<1>2. Head(Unread).field = NextField /\ Head(Unread).instance = parsed.instance
  BY <1>1
<1>3. Promise!Taking
  BY <1>1, VerdictIs DEF Promise!Taking
<1>4. Promise!EvalExpr(ir, NextField.n, env) = LenBytes
  BY SameEval DEF LenBytes
<1>5. Promise!HasWidth <=> \/ NextField.width = "bits"
                           \/ NextField.width = "bytes" /\ Aligned /\ LenBytes \in Word
  BY <1>2, <1>4 DEF Promise!HasWidth, Promise!Word, Word, Aligned
<1>6. Promise!Width = IF NextField.width = "bits" THEN NextField.n ELSE ByteBits * LenBytes
  BY <1>2, <1>4 DEF Promise!Width
<1> QED BY <1>2, <1>3, <1>5, <1>6

LEMMA TakenOff ==
  ASSUME TypeOK, pc = "field", Len(parsed.fields) < Len(Fields),
         NEW n \in Nat, cursor + n <= Avail, NEW fixed \in BOOLEAN, TakeField(n, fixed),
         UNCHANGED <<ir, packet, pc, current, depth, ex, result>>
  PROVE  Unread' = Tail(Unread)
<1>1. Len(parsed'.fields) = Len(parsed.fields) + 1 /\ parsed'.type = parsed.type
  BY TakeFieldFacts
<1>2. parsed'.instance = parsed.instance
  BY DEF TakeField, TypeOK, ParsedHeader
<1>3. ex' \in Nat /\ OpenHeader'
  BY DEF TypeOK, OpenHeader
<1>4. Unread' = Part(Len(parsed.fields))' \o Later(ex + 1)'
  BY <1>3, UnreadNext
<1>5. Fields' = Fields /\ Extracts' = Extracts
  BY <1>1 DEF Fields, Extracts
<1>6. Part(Len(parsed.fields))' = Part(Len(parsed.fields) + 1)
  BY <1>1, <1>2, <1>5 DEF Part
<1>7. Later(ex + 1)' = Later(ex + 1)
  BY <1>5 DEF Later
<1> QED BY <1>4, <1>6, <1>7, UnreadInField

\* Reading a field takes the first of the list, or runs off the packet.
LEMMA PromiseReadField == TypeOK /\ PathInv /\ ReadField => Promise!Next
<1> SUFFICES ASSUME TypeOK, PathInv, ReadField PROVE Promise!Next
  OBVIOUS
<1>1. pc = "field" /\ Len(parsed.fields) < Len(Fields)
  BY DEF ReadField, ReadBits, ReadBitsOutOfBounds, ReadBytes, ReadBytesOutOfBounds,
         ReadBytesBails, FieldWithoutWidth, Reading
<1>2. NextField \in Field /\ cursor \in Nat /\ Avail \in Nat
  BY <1>1, FieldFacts, IrFacts DEF TypeOK
<1>3. depth <= ir.max_depth /\ current \in DOMAIN ir.states /\ InterpVerdict = Promise!Pending
  BY <1>1, VerdictIs DEF PathInv, TypeOK
<1>4. ~ Promise!NoSuchState
  BY <1>1 DEF Promise!NoSuchState
<1>5. ASSUME NEW n \in Nat, NEW fixed \in BOOLEAN, cursor + n <= Avail, TakeField(n, fixed),
             UNCHANGED <<ir, packet, pc, current, depth, ex, headers, trace, result>>
      PROVE  Unread' = Tail(Unread) /\ cursor' = cursor + n /\ InterpVerdict' = InterpVerdict
  <2>1. Unread' = Tail(Unread)
    BY <1>1, <1>5, TakenOff
  <2> QED BY <1>5, <2>1 DEF TakeField, InterpVerdict
<1>6. CASE ReadBits
  <2>1. NextField.width = "bits" /\ NextField.n \in Nat
    BY <1>2, <1>6 DEF ReadBits, Reading, Field
  <2>2. Unread' = Tail(Unread) /\ cursor' = cursor + NextField.n /\ InterpVerdict' = InterpVerdict
    BY <1>5, <1>6, <2>1 DEF ReadBits
  <2>3. Promise!Taking /\ Promise!HasWidth /\ Promise!Width = NextField.n
    BY <1>1, <2>1, NextToTake
  <2>4. Slice(cursor, NextField.n) = SubSeq(packet, cursor + 1, cursor')
    BY <2>2 DEF Slice
  <2>5. <<Head(Unread).instance, Head(Unread).field.name>> = <<parsed.instance, NextField.name>>
        /\ Head(Unread).field.width = "bits"
    BY <1>1, <2>1, NextToTake
  <2>6. env' = [x \in DOMAIN env \cup {<<parsed.instance, NextField.name>>} |->
                 IF x = <<parsed.instance, NextField.name>>
                   THEN SubSeq(packet, cursor + 1, cursor') ELSE env[x]]
    BY <1>6, <2>4 DEF ReadBits, Insert
  <2>7. cursor + NextField.n <= Len(packet) /\ UNCHANGED <<ir, packet, pc, current, depth>>
    BY <1>6 DEF ReadBits, Avail
  <2>8. Promise!Take
    BY <1>1, <1>3, <2>2, <2>3, <2>5, <2>6, <2>7 DEF Promise!Take
  <2> QED BY <2>8 DEF Promise!Next
<1>7. CASE ReadBytes
  <2> DEFINE n == LenBytes * ByteBits
  <2>1. NextField.width = "bytes" /\ LenBytes \in Word /\ Aligned
    BY <1>7 DEF ReadBytes, Reading
  <2>2. n \in Nat /\ n = ByteBits * LenBytes
    BY <2>1, ProductIsNat, ByteBitsAssumption DEF Word
  <2>3. cursor + n <= Avail /\ TakeField(n, FALSE) /\ env' = env
        /\ UNCHANGED <<ir, packet, pc, current, depth, ex, headers, trace, result>>
    BY <1>7 DEF ReadBytes
  <2> HIDE DEF n
  <2>4. Unread' = Tail(Unread) /\ cursor' = cursor + n /\ InterpVerdict' = InterpVerdict
    BY <1>5, <2>2, <2>3
  <2>5. Promise!Taking /\ Promise!HasWidth /\ Promise!Width = n /\ Head(Unread).field.width # "bits"
    BY <1>1, <2>1, <2>2, NextToTake
  <2>6. Promise!Take
    BY <1>1, <1>3, <2>3, <2>4, <2>5 DEF Promise!Take, Avail
  <2> QED BY <2>6 DEF Promise!Next
<1>8. ASSUME FieldOutOfBounds, Promise!HasWidth, cursor + Promise!Width > Avail
      PROVE  Promise!Next
  <2>1. /\ ir \in Irs /\ IsIr(ir) /\ parsed.type \in DOMAIN ir.types
        /\ Len(parsed.fields) + 1 \in DOMAIN ir.types[parsed.type]
    <3>1. ir \in Irs /\ IsIr(ir) /\ parsed.type \in DOMAIN ir.types /\ Fields \in Seq(Field)
          /\ Len(parsed.fields) \in Nat
      BY <1>1, IrFacts, FieldFacts DEF TypeOK
    <3> QED BY <1>1, <3>1 DEF Fields
  <2>2. NextField.name # None
    BY <2>1, NoneAssumption DEF NextField, Fields
  <2>3. pc' = "done" /\ result'.field = NextField.name
        /\ UNCHANGED <<ir, packet, current, depth, ex, parsed, cursor, env>>
    BY <1>8 DEF FieldOutOfBounds, Reject
  <2>4. Unread' = Unread
    <3>1. OpenHeader /\ OpenHeader'
      BY <1>1, <2>2, <2>3 DEF OpenHeader
    <3>2. Unread = Part(Len(parsed.fields)) \o Later(ex + 1)
      BY <3>1, UnreadIs DEF TypeOK
    <3>3. Unread' = Part(Len(parsed.fields))' \o Later(ex + 1)'
      BY <2>3, <3>1, UnreadNext DEF TypeOK
    <3> QED BY <2>3, <3>2, <3>3 DEF Part, Later, Fields, Extracts
  <2>5. InterpVerdict' = [outcome |-> "reject", reason |-> "out of bounds", consumed |-> cursor]
    BY <1>8, VerdictIs DEF FieldOutOfBounds, OutOfBounds
  <2>6. Promise!Taking
    BY <1>1, NextToTake
  <2>7. KnownState'
    BY <1>3, <2>3 DEF KnownState
  <2>8. Promise!RunOff
    BY <1>1, <1>3, <1>8, <2>3, <2>4, <2>5, <2>6, <2>7 DEF Promise!RunOff, Promise!Verdict, Avail
  <2> QED BY <2>8 DEF Promise!Next
<1>9. CASE ReadBitsOutOfBounds
  BY <1>1, <1>8, <1>9, NextToTake DEF ReadBitsOutOfBounds, Reading
<1>10. CASE ReadBytesOutOfBounds
  <2>1. LenBytes * ByteBits = ByteBits * LenBytes /\ LenBytes \in Word /\ NextField.width = "bytes"
        /\ FieldOutOfBounds /\ Aligned /\ cursor + LenBytes * ByteBits > Avail
    BY <1>10, ByteBitsAssumption DEF ReadBytesOutOfBounds, Reading, Word
  <2>2. Promise!HasWidth /\ Promise!Width = ByteBits * LenBytes
    BY <1>1, <2>1, NextToTake
  <2> QED BY <1>8, <2>1, <2>2
<1>11. CASE ReadBytesBails \/ FieldWithoutWidth
  <2>1. Bail /\ UNCHANGED <<ir, packet, current, depth, cursor, env>>
    BY <1>11 DEF ReadBytesBails, FieldWithoutWidth
  <2>2. ~ Promise!HasWidth /\ Promise!Taking
    <3>1. (NextField.width = "bytes" /\ ~ (Aligned /\ LenBytes \in Word)) \/ NextField.width = "none"
      BY <1>11 DEF ReadBytesBails, FieldWithoutWidth, Reading
    <3> QED BY <1>1, <3>1, NextToTake
  <2>3. Promise!NoWayOn
    BY <2>2 DEF Promise!NoWayOn
  <2>4. pc' = "done" /\ result'.field = None
    BY <2>1 DEF Bail, Running
  <2>5. Unread' = <<>> /\ InterpVerdict' = [outcome |-> "err", reason |-> "", consumed |-> 0]
    BY <2>1, <2>4, NothingLeft, VerdictIs
  <2>6. KnownState'
    BY <1>3, <2>1 DEF KnownState
  <2>7. Promise!Fail
    BY <1>1, <1>3, <1>4, <2>1, <2>3, <2>4, <2>5, <2>6 DEF Promise!Fail
  <2> QED BY <2>7 DEF Promise!Next
<1> QED BY <1>6, <1>7, <1>9, <1>10, <1>11 DEF ReadField

LEMMA AtTransition ==
  ASSUME TypeOK, PathInv, Extracted
  PROVE  /\ pc = "extract" /\ depth <= ir.max_depth /\ current \in DOMAIN ir.states
         /\ InterpVerdict = Promise!Pending
         /\ Unread = <<>>
         /\ Promise!Leaving
         /\ ~ Promise!NoSuchState
         /\ Promise!Trans = Trans
         /\ Promise!HasKeys <=> /\ Trans.kind # "none"
                                /\ Trans.kind = "select" => KeysResolve(ir, Trans, env)
         /\ Promise!Hits = IF Trans.kind = "select" THEN MatchedArms ELSE {}
<1>1. pc = "extract" /\ depth <= ir.max_depth /\ current \in DOMAIN ir.states
  BY DEF Extracted, PathInv, TypeOK
<1>2. InterpVerdict = Promise!Pending
  BY <1>1, VerdictIs
<1>3. Unread = <<>>
  <2>1. Unread = Later(ex)
    BY <1>1, UnreadIs DEF OpenHeader, TypeOK
  <2> QED BY <1>1, <2>1, LaterEnds DEF Extracted
<1>4. Promise!Leaving
  BY <1>1, <1>2, <1>3 DEF Promise!Leaving
<1>5. ~ Promise!NoSuchState
  BY <1>1 DEF Promise!NoSuchState
<1>6. Promise!Trans = Trans
  BY DEF Promise!Trans, Trans
<1>7. Promise!HasKeys <=> /\ Trans.kind # "none"
                          /\ Trans.kind = "select" => KeysResolve(ir, Trans, env)
  BY <1>6, SameKeys DEF Promise!HasKeys
<1>8. Promise!Hits = IF Trans.kind = "select" THEN MatchedArms ELSE {}
  BY <1>6, SameKeys, SameMatches DEF Promise!Hits, MatchedArms
<1> QED BY <1>1, <1>2, <1>3, <1>4, <1>5, <1>6, <1>7, <1>8

\* Following the target the promise selects.
LEMMA PromiseFollow ==
  ASSUME TypeOK, PathInv, Extracted, Promise!HasKeys, ~ Promise!NothingMatches,
         Follow(Promise!Selected), UNCHANGED <<ir, packet, depth, ex, parsed, cursor, env, headers>>
  PROVE  Promise!Next
<1> DEFINE target == Promise!Selected
<1>1. /\ pc = "extract" /\ depth <= ir.max_depth /\ current \in DOMAIN ir.states
      /\ InterpVerdict = Promise!Pending /\ Unread = <<>>
      /\ Promise!Leaving /\ ~ Promise!NoSuchState
  BY AtTransition
<1> HIDE DEF target
<1>2. Follow(target)
  BY DEF target
<1>3. CASE target.kind = "state"
  <2>1. current' = target.to /\ pc' = "enter" /\ result' = result
    BY <1>2, <1>3 DEF Follow
  <2>2. Unread' = <<>> /\ InterpVerdict' = InterpVerdict
    BY <1>1, <2>1 DEF Unread, OpenHeader, InterpVerdict
  <2>3. Promise!Leave
    BY <1>1, <1>3, <2>1, <2>2 DEF Promise!Leave, target
  <2> QED BY <2>3 DEF Promise!Next
<1>4. ASSUME pc' = "done", result'.field = None, current' = current
      PROVE  Unread' = <<>> /\ Visiting' /\ Visiting
  <2>1. Unread' = <<>>
    BY <1>4, NothingLeft
  <2> QED BY <1>1, <1>4, <2>1 DEF Visiting, KnownState
<1>5. CASE target.kind = "accept"
  <2>1. Accept /\ current' = current
    BY <1>2, <1>5 DEF Follow
  <2>2. pc' = "done" /\ result'.field = None
    BY <2>1 DEF Accept, Running
  <2>3. Unread' = <<>> /\ Visiting' /\ Visiting
    BY <1>4, <2>1, <2>2
  <2>4. InterpVerdict' = [outcome |-> "accept", reason |-> "", consumed |-> cursor]
    BY <2>1, VerdictIs
  <2>5. Promise!Stop
    BY <1>1, <1>5, <2>1, <2>3, <2>4 DEF Promise!Stop, Promise!Verdict, Visiting, target
  <2> QED BY <2>5 DEF Promise!Next
<1>6. CASE target.kind = "reject"
  <2>1. Reject(target.to, None, None, target.info) /\ current' = current
    BY <1>2, <1>6 DEF Follow
  <2>2. pc' = "done" /\ result'.field = None
    BY <2>1 DEF Reject
  <2>3. Unread' = <<>> /\ Visiting' /\ Visiting
    BY <1>4, <2>1, <2>2
  <2>4. InterpVerdict' = [outcome |-> "reject", reason |-> target.to, consumed |-> cursor]
    BY <2>1, VerdictIs
  <2>5. Promise!Stop
    BY <1>1, <1>6, <2>1, <2>3, <2>4 DEF Promise!Stop, Promise!Verdict, Visiting, target
  <2> QED BY <2>5 DEF Promise!Next
<1>7. CASE target.kind \notin {"state", "accept", "reject"}
  <2>1. Bail /\ current' = current
    BY <1>2, <1>7 DEF Follow
  <2>2. pc' = "done" /\ result'.field = None
    BY <2>1 DEF Bail, Running
  <2>3. Unread' = <<>> /\ Visiting' /\ Visiting
    BY <1>4, <2>1, <2>2
  <2>4. InterpVerdict' = [outcome |-> "err", reason |-> "", consumed |-> 0]
    BY <2>1, VerdictIs
  <2>5. Promise!NoWayOn
    BY <1>1, <1>7 DEF Promise!NoWayOn, target
  <2>6. Promise!Fail
    BY <1>1, <2>1, <2>3, <2>4, <2>5 DEF Promise!Fail, Visiting
  <2> QED BY <2>6 DEF Promise!Next
<1> QED BY <1>3, <1>5, <1>6, <1>7

\* A transition leaves for the selected state, stops, or fails.
LEMMA PromiseTakeTransition == TypeOK /\ PathInv /\ TakeTransition => Promise!Next
<1> SUFFICES ASSUME TypeOK, PathInv, TakeTransition PROVE Promise!Next
  OBVIOUS
<1>1. Extracted
  BY DEF TakeTransition, Direct, TakeArm, TakeDefault, NoMatchingArm, TransitionBails
<1>2. /\ pc = "extract" /\ depth <= ir.max_depth /\ current \in DOMAIN ir.states
      /\ InterpVerdict = Promise!Pending /\ Unread = <<>>
      /\ Promise!Leaving /\ ~ Promise!NoSuchState /\ Promise!Trans = Trans
  BY <1>1, AtTransition
<1>3. /\ Promise!HasKeys <=> /\ Trans.kind # "none"
                             /\ Trans.kind = "select" => KeysResolve(ir, Trans, env)
      /\ Promise!Hits = IF Trans.kind = "select" THEN MatchedArms ELSE {}
  BY <1>1, AtTransition
<1>4. CASE Direct
  <2>1. Trans.kind = "direct" /\ Transit("direct", 0, Trans.default)
    BY <1>4 DEF Direct
  <2>2. Promise!HasKeys /\ Promise!Hits = {} /\ ~ Promise!NothingMatches
    BY <1>2, <1>3, <2>1 DEF Promise!NothingMatches
  <2>3. Promise!Selected = Trans.default
    BY <1>2, <2>2 DEF Promise!Selected
  <2> QED BY <1>1, <2>1, <2>2, <2>3, PromiseFollow DEF Transit
<1>5. CASE TakeArm
  <2>1. Trans.kind = "select" /\ KeysResolve(ir, Trans, env)
    BY <1>5 DEF TakeArm
  <2>2. PICK i \in MatchedArms : (\A j \in MatchedArms : i <= j)
                                 /\ Transit("arm", i, Trans.arms[i].next)
    BY <1>5 DEF TakeArm
  <2>3. Promise!HasKeys /\ Promise!Hits = MatchedArms /\ ~ Promise!NothingMatches
    BY <1>2, <1>3, <2>1, <2>2 DEF Promise!NothingMatches
  <2>4. Promise!First(MatchedArms) = i
    <3>1. \A j \in MatchedArms : j \in Nat
      BY <1>1, TargetFacts
    <3>2. \A j \in MatchedArms : (\A k \in MatchedArms : j <= k) => j = i
      BY <2>2, <3>1
    <3> QED BY <2>2, <3>2 DEF Promise!First
  <2>5. Promise!Selected = Trans.arms[i].next
    BY <1>2, <2>2, <2>3, <2>4 DEF Promise!Selected
  <2> QED BY <1>1, <2>2, <2>3, <2>5, PromiseFollow DEF Transit
<1>6. CASE TakeDefault
  <2>1. /\ Trans.kind = "select" /\ KeysResolve(ir, Trans, env) /\ MatchedArms = {}
        /\ Trans.default.kind # "absent" /\ Transit("default", 0, Trans.default)
    BY <1>6 DEF TakeDefault
  <2>2. Promise!HasKeys /\ Promise!Hits = {} /\ ~ Promise!NothingMatches
    BY <1>2, <1>3, <2>1 DEF Promise!NothingMatches
  <2>3. Promise!Selected = Trans.default
    BY <1>2, <2>2 DEF Promise!Selected
  <2> QED BY <1>1, <2>1, <2>2, <2>3, PromiseFollow DEF Transit
<1>7. ASSUME pc' = "done", result'.field = None, UNCHANGED <<ir, current, depth>>
      PROVE  Unread' = <<>> /\ Visiting' /\ Visiting
  <2>1. Unread' = <<>>
    BY <1>7, NothingLeft
  <2> QED BY <1>2, <1>7, <2>1 DEF Visiting, KnownState
<1>8. CASE NoMatchingArm
  <2>1. /\ Trans.kind = "select" /\ KeysResolve(ir, Trans, env) /\ MatchedArms = {}
        /\ Trans.default.kind = "absent" /\ Reject(NoMatch, None, None, FALSE)
        /\ UNCHANGED <<ir, packet, current, depth, cursor, env>>
    BY <1>8 DEF NoMatchingArm
  <2>2. Promise!HasKeys /\ Promise!NothingMatches
    BY <1>2, <1>3, <2>1 DEF Promise!NothingMatches
  <2>3. InterpVerdict' = [outcome |-> "reject", reason |-> "no matching select arm", consumed |-> cursor]
    BY <2>1, VerdictIs DEF NoMatch
  <2>4. Unread' = <<>> /\ Visiting' /\ Visiting
    BY <1>7, <2>1 DEF Reject
  <2>5. Promise!Stop
    BY <1>2, <2>1, <2>2, <2>3, <2>4 DEF Promise!Stop, Promise!Verdict, Visiting
  <2> QED BY <2>5 DEF Promise!Next
<1>9. CASE TransitionBails
  <2>1. /\ \/ Trans.kind = "none"
           \/ Trans.kind = "select" /\ ~ KeysResolve(ir, Trans, env)
        /\ Bail /\ UNCHANGED <<ir, packet, current, depth, cursor, env>>
    BY <1>9 DEF TransitionBails
  <2>2. ~ Promise!HasKeys
    BY <1>3, <2>1
  <2>3. Promise!NoWayOn
    BY <1>2, <2>2 DEF Promise!NoWayOn
  <2>4. InterpVerdict' = [outcome |-> "err", reason |-> "", consumed |-> 0]
    BY <2>1, VerdictIs
  <2>5. Unread' = <<>> /\ Visiting' /\ Visiting
    <3>1. pc' = "done" /\ result'.field = None
      BY <2>1 DEF Bail, Running
    <3> QED BY <1>7, <2>1, <3>1
  <2>6. Promise!Fail
    BY <1>2, <2>1, <2>3, <2>4, <2>5 DEF Promise!Fail, Visiting
  <2> QED BY <2>6 DEF Promise!Next
<1> QED BY <1>4, <1>5, <1>6, <1>8, <1>9 DEF TakeTransition

LEMMA PromiseStutter == UNCHANGED vars => UNCHANGED Promise!vars
BY DEF vars, Promise!vars, Unread, OpenHeader, InterpVerdict, Fields, Extracts, KnownState

\* The safety of the promise: no step it does not allow.
PromiseSafe == Promise!Init /\ [][Promise!Next]_(Promise!vars)

\* Whatever the description and the packet, run_bits does what every consumer
\* of a description promises: the same visits, the same bits taken for the
\* same fields, the same verdict and reason, an error only where the
\* description is broken.  (That it answers at all is TLC's: Promise!Spec adds
\* fairness.)
THEOREM InterpImplements == Spec => PromiseSafe
<1>1. Init => TypeOK /\ PathInv
  BY TypeInit, PathInit
<1>2. TypeOK /\ PathInv /\ [Next]_vars => (TypeOK /\ PathInv)'
  BY TypeNext, PathNext
<1>3. TypeOK /\ PathInv /\ [Next]_vars => [Promise!Next]_(Promise!vars)
  <2> SUFFICES ASSUME TypeOK, PathInv, [Next]_vars PROVE [Promise!Next]_(Promise!vars)
    OBVIOUS
  <2>1. CASE Enter
    BY <2>1, PromiseEnter
  <2>2. CASE ExtractHeader
    BY <2>2, PromiseExtractHeader
  <2>3. CASE ReadField
    BY <2>3, PromiseReadField
  <2>4. CASE TakeTransition
    BY <2>4, PromiseTakeTransition
  <2>5. CASE UNCHANGED vars
    BY <2>5, PromiseStutter
  <2> QED BY <2>1, <2>2, <2>3, <2>4, <2>5 DEF Next, Step, Returned
<1> QED BY <1>1, <1>2, <1>3, PromiseInit, PTL DEF Spec, PromiseSafe
===============================================================================
