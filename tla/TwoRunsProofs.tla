----------------------------- MODULE TwoRunsProofs -----------------------------
(***************************************************************************)
(* Theorems about two calls of the interpreter, for every description, any *)
(* two packets that agree on what the first call consumed, and every word  *)
(* and byte size.                                                          *)
(*                                                                         *)
(* The specification keeps of the first call what it returned.  The proof  *)
(* has to speak of the moments it went through: each is a function of the  *)
(* one before it and of the bits that were asked for (Follows), so two     *)
(* calls go through the same moments until one of them lacks a bit.        *)
(***************************************************************************)
EXTENDS TwoRuns, InterpProofs, DataProofs

(***************************************************************************)
(* A moment of a call, and the one that follows it.                        *)
(***************************************************************************)
Moment(p, c, d, x, h, k, e, hs, t, r) ==
  [pc |-> p, current |-> c, depth |-> d, ex |-> x, parsed |-> h,
   cursor |-> k, env |-> e, headers |-> hs, trace |-> t, result |-> r]

Now == Moment(pc, current, depth, ex, parsed, cursor, env, headers, trace, result)

Begun(i) == Moment("enter", i.start, 0, 0, NoHeader, 0, <<>>, <<>>, <<>>, Running)

\* The ways a call goes on from s, and the ways it ends there.
Moved(s, to) ==
  Moment("enter", to, s.depth, s.ex, s.parsed, s.cursor, s.env, s.headers, s.trace, s.result)
Opened(s, pc1, depth1, ex1, trace1) ==
  Moment(pc1, s.current, depth1, ex1, s.parsed, s.cursor, s.env, s.headers, trace1, s.result)
InFields(s, pc1, ex1, parsed1, headers1) ==
  Moment(pc1, s.current, s.depth, ex1, parsed1, s.cursor, s.env, headers1, s.trace, s.result)
Took(s, parsed1, cursor1, env1) ==
  Moment(s.pc, s.current, s.depth, s.ex, parsed1, cursor1, env1, s.headers, s.trace, s.result)

Ended(s, r) ==
  Moment("done", s.current, s.depth, s.ex, s.parsed, s.cursor, s.env, s.headers, s.trace, r)
Accepted(s) == Ended(s, [Running EXCEPT !.outcome = "accept", !.consumed = s.cursor])
Rejected(s, reason, instance, field, info) ==
  Ended(s, [outcome |-> "reject", consumed |-> s.cursor, state |-> s.current,
            instance |-> instance, field |-> field, reason |-> reason, info |-> info])
Failed(s) == Ended(s, [Running EXCEPT !.outcome = "err"])

EntryOf(i, s) ==
  LET t == Append(s.trace, [state |-> s.current, decision |-> Undecided])
      u == Opened(s, s.pc, s.depth + 1, s.ex, t)
  IN  IF s.depth + 1 > i.max_depth THEN Rejected(u, MaxDepthExceeded, None, None, FALSE)
      ELSE IF s.current \notin DOMAIN i.states THEN Failed(u)
      ELSE Opened(s, "extract", s.depth + 1, 0, t)

ExtractsOf(i, s) == i.states[s.current].extracts
HeaderOf(i, s) ==
  LET e == ExtractsOf(i, s)[s.ex + 1]
  IN  IF e.type \notin DOMAIN i.types THEN Failed(s)
      ELSE InFields(s, "field", s.ex,
                    [instance |-> Instance(e), type |-> e.type, start |-> s.cursor, fields |-> <<>>], s.headers)

\* The field that is next, whether it asks the packet for bits, and for how many.
FieldsOf(i, s) == i.types[s.parsed.type]
FieldOf(i, s) == FieldsOf(i, s)[Len(s.parsed.fields) + 1]
LengthOf(i, s) == EvalExpr(i, FieldOf(i, s).n, s.env)
Asks(i, s) ==
  /\ s.pc = "field"
  /\ Len(s.parsed.fields) # Len(FieldsOf(i, s))
  /\ \/ FieldOf(i, s).width = "bits"
     \/ FieldOf(i, s).width = "bytes" /\ LengthOf(i, s) \in Word /\ s.cursor % ByteBits = 0
Wants(i, s) == IF FieldOf(i, s).width = "bits" THEN FieldOf(i, s).n ELSE LengthOf(i, s) * ByteBits
Lacks(i, p, s) == Asks(i, s) /\ s.cursor + Wants(i, s) > Len(p)
Given(i, p, s) == IF Asks(i, s) THEN SubSeq(p, s.cursor + 1, s.cursor + Wants(i, s)) ELSE <<>>

ReadOf(i, s, bits) ==
  LET fixed == FieldOf(i, s).width = "bits"
      new == [name |-> FieldOf(i, s).name, offset |-> s.cursor, bits |-> bits, fixed |-> fixed]
  IN  Took(s, [s.parsed EXCEPT !.fields = Append(s.parsed.fields, new)], s.cursor + Wants(i, s),
           IF fixed THEN Insert(s.env, <<s.parsed.instance, FieldOf(i, s).name>>, bits) ELSE s.env)
InHeader(i, s, bits) ==
  IF Asks(i, s) THEN ReadOf(i, s, bits)
  ELSE IF Len(s.parsed.fields) # Len(FieldsOf(i, s)) THEN Failed(s)
  ELSE InFields(s, "extract", s.ex + 1, NoHeader, Append(s.headers, s.parsed))
CutOf(i, s) ==
  Rejected(InFields(s, s.pc, s.ex, s.parsed, Append(s.headers, s.parsed)),
           OutOfBounds, s.parsed.instance, FieldOf(i, s).name, FALSE)

Decided(s, kind, arm) ==
  Opened(s, s.pc, s.depth, s.ex, [s.trace EXCEPT ![Len(s.trace)].decision = [kind |-> kind, arm |-> arm]])
Going(s, target) ==
  IF target.kind = "state" THEN Moved(s, target.to)
  ELSE IF target.kind = "accept" THEN Accepted(s)
  ELSE IF target.kind = "reject" THEN Rejected(s, target.to, None, None, target.info)
  ELSE Failed(s)
FirstArm(matched) == CHOOSE a \in matched : \A b \in matched : a <= b
ExitOf(i, s) ==
  LET tr == i.states[s.current].trans
      matched == MatchingArms(tr, Keys(i, tr, s.env))
      a == FirstArm(matched)
  IN  IF tr.kind = "direct" THEN Going(Decided(s, "direct", 0), tr.default)
      ELSE IF tr.kind = "none" \/ ~ KeysResolve(i, tr, s.env) THEN Failed(s)
      ELSE IF matched # {} THEN Going(Decided(s, "arm", a), tr.arms[a].next)
      ELSE IF tr.default.kind # "absent" THEN Going(Decided(s, "default", 0), tr.default)
      ELSE Rejected(Decided(s, "default", 0), NoMatch, None, None, FALSE)

NextOf(i, s, bits) ==
  IF s.pc = "enter" THEN EntryOf(i, s)
  ELSE IF s.pc = "field" THEN InHeader(i, s, bits)
  ELSE IF s.ex < Len(ExtractsOf(i, s)) THEN HeaderOf(i, s)
  ELSE ExitOf(i, s)

Follows(i, p, s, t) ==
  /\ s.pc # "done"
  /\ t = IF Lacks(i, p, s) THEN CutOf(i, s) ELSE NextOf(i, s, Given(i, p, s))

\* What the next moment takes over from t.
Carries(t) ==
  /\ depth' = t.depth /\ ex' = t.ex /\ parsed' = t.parsed /\ cursor' = t.cursor
  /\ env' = t.env /\ headers' = t.headers /\ trace' = t.trace

(***************************************************************************)
(* Every step of the interpreter goes to the moment that follows.          *)
(***************************************************************************)
\* The moments a call ends in, or goes on to a state in.
LEMMA MomentIs ==
  ASSUME NEW p, NEW c, NEW d, NEW x, NEW h, NEW k, NEW e, NEW hs, NEW t, NEW r
  PROVE  LET m == Moment(p, c, d, x, h, k, e, hs, t, r)
         IN  /\ m.pc = p /\ m.current = c /\ m.depth = d /\ m.ex = x /\ m.parsed = h
             /\ m.cursor = k /\ m.env = e /\ m.headers = hs /\ m.trace = t /\ m.result = r
BY DEF Moment

LEMMA InFieldsIs ==
  ASSUME NEW s, NEW p, NEW x, NEW h, NEW hs
  PROVE  LET m == InFields(s, p, x, h, hs)
         IN  /\ m.pc = p /\ m.current = s.current /\ m.depth = s.depth /\ m.ex = x /\ m.parsed = h
             /\ m.cursor = s.cursor /\ m.env = s.env /\ m.headers = hs /\ m.trace = s.trace
BY MomentIs DEF InFields

LEMMA RejectedIs ==
  ASSUME NEW s, NEW reason, NEW instance, NEW field, NEW info
  PROVE  LET m == Rejected(s, reason, instance, field, info)
         IN  /\ m.pc = "done" /\ m.cursor = s.cursor /\ m.headers = s.headers /\ m.trace = s.trace
             /\ m.result.outcome = "reject" /\ m.result.reason = reason /\ m.result.field = field
BY MomentIs DEF Rejected, Ended

LEMMA NowIs ==
  /\ Now.pc = pc /\ Now.current = current /\ Now.depth = depth /\ Now.ex = ex /\ Now.parsed = parsed
  /\ Now.cursor = cursor /\ Now.env = env /\ Now.headers = headers /\ Now.trace = trace /\ Now.result = result
BY MomentIs DEF Now

LEMMA NextIs ==
  Now' = Moment(pc', current', depth', ex', parsed', cursor', env', headers', trace', result')
BY DEF Now

LEMMA NextMoment ==
  /\ (Now.cursor)' = cursor' /\ (Now.trace)' = trace' /\ (Now.result)' = result'
  /\ (Now.pc)' = pc' /\ (Now.headers)' = headers' /\ (Now.parsed)' = parsed'
<1>1. (Now.cursor)' = (Now').cursor /\ (Now.trace)' = (Now').trace /\ (Now.result)' = (Now').result
  OBVIOUS
<1>2. (Now.pc)' = (Now').pc /\ (Now.headers)' = (Now').headers /\ (Now.parsed)' = (Now').parsed
  OBVIOUS
<1> QED BY <1>1, <1>2, NextIs, MomentIs

LEMMA EndIs ==
  ASSUME NEW t, Carries(t), pc' = "done", current' = t.current
  PROVE  Now' = Ended(t, result')
BY NextIs DEF Ended, Carries

LEMMA BailIs ==
  ASSUME NEW t, Carries(t), Bail, current' = t.current
  PROVE  Now' = Failed(t)
<1>1. Now' = Ended(t, result')
  BY EndIs DEF Bail
<1>2. result' = [Running EXCEPT !.outcome = "err"]
  BY DEF Bail
<1> QED BY <1>1, <1>2 DEF Failed

LEMMA RejectIs ==
  ASSUME NEW t, Carries(t), NEW reason, NEW instance, NEW field, NEW info,
         Reject(reason, instance, field, info),
         t.current = current, current' = current, t.cursor = cursor
  PROVE  Now' = Rejected(t, reason, instance, field, info)
<1>1. Now' = Ended(t, result')
  BY EndIs DEF Reject
<1>2. result' = [outcome |-> "reject", consumed |-> t.cursor, state |-> t.current,
                 instance |-> instance, field |-> field, reason |-> reason, info |-> info]
  BY DEF Reject
<1> QED BY <1>1, <1>2 DEF Rejected

LEMMA AcceptIs ==
  ASSUME NEW t, Carries(t), Accept, current' = t.current, t.cursor = cursor
  PROVE  Now' = Accepted(t)
<1>1. Now' = Ended(t, result')
  BY EndIs DEF Accept
<1>2. result' = [Running EXCEPT !.outcome = "accept", !.consumed = t.cursor]
  BY DEF Accept
<1> QED BY <1>1, <1>2 DEF Accepted

LEMMA MoveIs ==
  ASSUME NEW t, Carries(t), pc' = "enter", result' = t.result
  PROVE  Now' = Moved(t, current')
BY NextIs DEF Moved, Carries

LEMMA EnterFollows == TypeOK /\ Enter => Follows(ir, packet, Now, Now')
<1> SUFFICES ASSUME TypeOK, Enter
             PROVE  Follows(ir, packet, Now, Now')
  OBVIOUS
<1>1. Now.pc = "enter"
  BY NowIs DEF Enter, EnterState, DepthExceeded, UnknownState
<1>2. Now' = EntryOf(ir, Now)
  <2> DEFINE u == Opened(Now, Now.pc, depth + 1, ex, Entered)
  <2>0. depth \in Nat /\ ir.max_depth \in Nat
    BY IrFacts DEF TypeOK, IsIr
  <2>1. /\ Now.depth = depth /\ Now.current = current /\ Now.ex = ex
        /\ Append(Now.trace, [state |-> Now.current, decision |-> Undecided]) = Entered
    BY NowIs DEF Entered
  <2>2. /\ u.depth = depth + 1 /\ u.ex = ex /\ u.parsed = parsed /\ u.cursor = cursor /\ u.env = env
        /\ u.headers = headers /\ u.trace = Entered /\ u.current = current /\ u.result = result
    BY NowIs, MomentIs DEF Opened
  <2> HIDE DEF u
  <2>3. CASE EnterState
    <3>1. ~ depth + 1 > ir.max_depth /\ current \in DOMAIN ir.states
      BY <2>0, <2>3 DEF EnterState, WithinDepth, KnownState
    <3>2. Now' = Opened(Now, "extract", depth + 1, 0, Entered)
      BY <2>3, NowIs, NextIs DEF EnterState, Opened
    <3> QED BY <2>1, <3>1, <3>2 DEF EntryOf
  <2>4. CASE DepthExceeded
    <3>1. depth + 1 > ir.max_depth
      BY <2>0, <2>4 DEF DepthExceeded, WithinDepth
    <3>2. Carries(u) /\ current' = current
      BY <2>2, <2>4 DEF DepthExceeded, Carries
    <3>3. Now' = Rejected(u, MaxDepthExceeded, None, None, FALSE)
      BY <2>2, <2>4, <3>2, RejectIs DEF DepthExceeded
    <3> QED BY <2>1, <3>1, <3>3 DEF EntryOf, u
  <2>5. CASE UnknownState
    <3>1. ~ depth + 1 > ir.max_depth /\ current \notin DOMAIN ir.states
      BY <2>0, <2>5 DEF UnknownState, WithinDepth, KnownState
    <3>2. Carries(u) /\ current' = u.current /\ Bail
      BY <2>2, <2>5 DEF UnknownState, Carries
    <3>3. Now' = Failed(u)
      BY <3>2, BailIs
    <3> QED BY <2>1, <3>1, <3>3 DEF EntryOf, u
  <2> QED BY <2>3, <2>4, <2>5 DEF Enter
<1> QED BY <1>1, <1>2 DEF Follows, Lacks, Asks, NextOf

LEMMA ExtractHeaderFollows == TypeOK /\ ExtractHeader => Follows(ir, packet, Now, Now')
<1> SUFFICES ASSUME TypeOK, ExtractHeader
             PROVE  Follows(ir, packet, Now, Now')
  OBVIOUS
<1>1. CASE BeginHeader \/ UnknownHeaderType
  <2>1. pc = "extract" /\ ex < Len(Extracts)
    BY <1>1 DEF BeginHeader, UnknownHeaderType, Extracting
  <2>2. ExtractsOf(ir, Now) = Extracts /\ Now.pc = "extract" /\ Now.ex = ex
    BY <2>1, NowIs DEF ExtractsOf, Extracts
  <2> DEFINE e == Extracts[ex + 1]
  <2>3. Now' = HeaderOf(ir, Now)
    <3>1. CASE BeginHeader
      <4>1. parsed' = [instance |-> Instance(e), type |-> e.type, start |-> Now.cursor, fields |-> <<>>]
        BY <3>1, NowIs DEF BeginHeader
      <4>2. Now' = InFields(Now, "field", Now.ex, parsed', Now.headers)
        BY <3>1, NowIs, NextIs DEF BeginHeader, InFields
      <4>3. e.type \in DOMAIN ir.types
        BY <3>1 DEF BeginHeader
      <4> QED BY <2>2, <4>1, <4>2, <4>3 DEF HeaderOf
    <3>2. CASE UnknownHeaderType
      <4>1. Carries(Now) /\ current' = Now.current /\ Bail
        BY <3>2, NowIs DEF UnknownHeaderType, Carries
      <4>2. Now' = Failed(Now)
        BY <4>1, BailIs
      <4>3. e.type \notin DOMAIN ir.types
        BY <3>2 DEF UnknownHeaderType
      <4> QED BY <2>2, <4>2, <4>3 DEF HeaderOf
    <3> QED BY <1>1, <3>1, <3>2
  <2> QED BY <2>1, <2>2, <2>3 DEF Follows, Lacks, Asks, NextOf
<1>2. CASE EndHeader
  <2>1. Now.pc = "field" /\ Len(Now.parsed.fields) = Len(FieldsOf(ir, Now))
    BY <1>2, NowIs DEF EndHeader, FieldsOf, Fields
  <2>2. ~ Asks(ir, Now)
    BY <2>1 DEF Asks
  <2>3. Now' = InFields(Now, "extract", Now.ex + 1, NoHeader, Append(Now.headers, Now.parsed))
    BY <1>2, NowIs, NextIs DEF EndHeader, InFields
  <2>4. Now' = InHeader(ir, Now, Given(ir, packet, Now))
    BY <2>1, <2>2, <2>3 DEF InHeader
  <2> QED BY <2>1, <2>2, <2>4 DEF Follows, Lacks, NextOf
<1> QED BY <1>1, <1>2 DEF ExtractHeader

LEMMA ReadOfIs ==
  ASSUME NEW bits, NEW fixed, fixed = (NextField.width = "bits"),
         FieldOf(ir, Now) = NextField,
         bits = Slice(cursor, Wants(ir, Now)), TakeField(Wants(ir, Now), fixed),
         env' = IF fixed THEN Insert(env, <<parsed.instance, NextField.name>>, bits) ELSE env,
         UNCHANGED <<ir, packet, pc, current, depth, ex, headers, trace, result>>
  PROVE  Now' = ReadOf(ir, Now, bits)
<1> DEFINE new == [name |-> NextField.name, offset |-> cursor, bits |-> bits, fixed |-> fixed]
<1>1. parsed' = [parsed EXCEPT !.fields = Append(parsed.fields, new)]
  BY DEF TakeField
<1>2. cursor' = cursor + Wants(ir, Now)
  BY DEF TakeField
<1>3. Now' = Took(Now, parsed', cursor', env')
  BY NowIs, NextIs DEF Took
<1>4. /\ Now.parsed = parsed /\ Now.cursor = cursor /\ Now.env = env
      /\ new = [name |-> FieldOf(ir, Now).name, offset |-> Now.cursor, bits |-> bits,
                fixed |-> FieldOf(ir, Now).width = "bits"]
  BY NowIs
<1> QED BY <1>1, <1>2, <1>3, <1>4 DEF ReadOf

LEMMA ReadFieldFollows == TypeOK /\ ReadField => Follows(ir, packet, Now, Now')
<1> SUFFICES ASSUME TypeOK, ReadField
             PROVE  Follows(ir, packet, Now, Now')
  OBVIOUS
<1>1. /\ pc = "field" /\ Len(parsed.fields) \in Nat /\ Len(Fields) \in Nat
      /\ Len(parsed.fields) < Len(Fields)
      /\ NextField \in Field /\ cursor \in Nat /\ Len(packet) \in Nat
  <2>1. pc = "field" /\ Len(parsed.fields) < Len(Fields)
    BY DEF ReadField, ReadBits, ReadBitsOutOfBounds, ReadBytes, ReadBytesOutOfBounds, ReadBytesBails,
           FieldWithoutWidth, Reading
  <2>2. Len(Fields) \in Nat /\ Len(parsed.fields) \in Nat /\ NextField \in Field
    BY <2>1, FieldFacts
  <2>3. cursor \in Nat /\ Len(packet) \in Nat
    BY IrFacts DEF TypeOK, Avail
  <2> QED BY <2>1, <2>2, <2>3
<1>2. /\ Now.pc = "field" /\ Now.cursor = cursor /\ Now.parsed = parsed /\ Now.env = env
      /\ Len(Now.parsed.fields) # Len(FieldsOf(ir, Now))
      /\ FieldOf(ir, Now) = NextField /\ LengthOf(ir, Now) = LenBytes
  BY <1>1, NowIs DEF FieldsOf, FieldOf, LengthOf, Fields, NextField, LenBytes
<1>3. CASE ReadBits
  <2>1. /\ Asks(ir, Now) /\ Wants(ir, Now) = NextField.n /\ ~ Lacks(ir, packet, Now)
        /\ Given(ir, packet, Now) = Slice(cursor, NextField.n) /\ NextField.width = "bits"
    BY <1>1, <1>2, <1>3 DEF Asks, Wants, Lacks, Given, ReadBits, Reading, Avail, Slice, Field
  <2>2. Now' = ReadOf(ir, Now, Given(ir, packet, Now))
    BY <1>2, <1>3, <2>1, ReadOfIs DEF ReadBits
  <2> QED BY <1>2, <2>1, <2>2 DEF Follows, NextOf, InHeader
<1>4. CASE ReadBytes
  <2>0. LenBytes * ByteBits \in Nat
    BY <1>4, ProductIsNat, ByteBitsAssumption DEF ReadBytes, Word
  <2>1. /\ Asks(ir, Now) /\ Wants(ir, Now) = LenBytes * ByteBits /\ ~ Lacks(ir, packet, Now)
        /\ Given(ir, packet, Now) = Slice(cursor, LenBytes * ByteBits) /\ NextField.width # "bits"
    BY <1>1, <1>2, <1>4, <2>0 DEF Asks, Wants, Lacks, Given, ReadBytes, Reading, Aligned, Avail, Slice
  <2>2. Now' = ReadOf(ir, Now, Given(ir, packet, Now))
    BY <1>2, <1>4, <2>1, ReadOfIs DEF ReadBytes
  <2> QED BY <1>2, <2>1, <2>2 DEF Follows, NextOf, InHeader
<1>5. ASSUME Lacks(ir, packet, Now), FieldOutOfBounds
      PROVE  Follows(ir, packet, Now, Now')
  <2>1. Now' = CutOf(ir, Now)
    <3> DEFINE t == InFields(Now, Now.pc, Now.ex, Now.parsed, Append(Now.headers, Now.parsed))
    <3>1. /\ t.depth = depth /\ t.ex = ex /\ t.parsed = parsed /\ t.cursor = cursor /\ t.env = env
          /\ t.headers = Append(headers, parsed) /\ t.trace = trace /\ t.current = current
      <4>1. /\ t.current = Now.current /\ t.depth = Now.depth /\ t.ex = Now.ex /\ t.parsed = Now.parsed
            /\ t.cursor = Now.cursor /\ t.env = Now.env /\ t.trace = Now.trace
            /\ t.headers = Append(Now.headers, Now.parsed)
        <5> DEFINE hs == Append(Now.headers, Now.parsed)
        <5> HIDE DEF hs
        <5>1. LET u == InFields(Now, Now.pc, Now.ex, Now.parsed, hs)
              IN  /\ u.current = Now.current /\ u.depth = Now.depth /\ u.ex = Now.ex /\ u.parsed = Now.parsed
                  /\ u.cursor = Now.cursor /\ u.env = Now.env /\ u.trace = Now.trace /\ u.headers = hs
          BY InFieldsIs
        <5> QED BY <5>1 DEF hs
      <4> HIDE DEF t
      <4> QED BY <4>1, NowIs
    <3> HIDE DEF t
    <3>2. Now' = Rejected(t, OutOfBounds, parsed.instance, NextField.name, FALSE)
      <4>1. Carries(t) /\ current' = current
        BY <1>5, <3>1 DEF FieldOutOfBounds, Carries
      <4> QED BY <1>5, <3>1, <4>1, RejectIs DEF FieldOutOfBounds
    <3> QED BY <1>2, <3>2 DEF CutOf, t
  <2> QED BY <1>2, <1>5, <2>1 DEF Follows
<1>6. CASE ReadBitsOutOfBounds
  <2>1. Lacks(ir, packet, Now)
    BY <1>1, <1>2, <1>6 DEF Asks, Wants, Lacks, ReadBitsOutOfBounds, Reading, Avail, Field
  <2> QED BY <1>5, <1>6, <2>1 DEF ReadBitsOutOfBounds
<1>7. CASE ReadBytesOutOfBounds
  <2>1. Lacks(ir, packet, Now)
    BY <1>1, <1>2, <1>7 DEF Asks, Wants, Lacks, ReadBytesOutOfBounds, Reading, Aligned, Avail
  <2> QED BY <1>5, <1>7, <2>1 DEF ReadBytesOutOfBounds
<1>8. CASE ReadBytesBails \/ FieldWithoutWidth
  <2>1. ~ Asks(ir, Now)
    BY <1>2, <1>8 DEF Asks, ReadBytesBails, FieldWithoutWidth, Reading, Aligned
  <2>2. Now' = Failed(Now)
    <3>1. Carries(Now) /\ current' = Now.current /\ Bail
      BY <1>8, NowIs DEF ReadBytesBails, FieldWithoutWidth, Carries
    <3> QED BY <3>1, BailIs
  <2> QED BY <1>2, <2>1, <2>2 DEF Follows, Lacks, NextOf, InHeader
<1> QED BY <1>3, <1>4, <1>6, <1>7, <1>8 DEF ReadField

\* Where the targets go.
LEMMA DecidedIs ==
  ASSUME NEW kind, NEW arm, Decide(kind, arm), UNCHANGED <<depth, ex, parsed, cursor, env, headers>>
  PROVE  LET D == Decided(Now, kind, arm)
         IN  D.cursor = cursor /\ D.current = current /\ D.result = result /\ Carries(D)
<1> DEFINE D == Decided(Now, kind, arm)
<1>1. /\ D.depth = depth /\ D.ex = ex /\ D.parsed = parsed /\ D.cursor = cursor /\ D.env = env
      /\ D.headers = headers /\ D.current = current /\ D.result = result
      /\ D.trace = [trace EXCEPT ![Len(trace)].decision = [kind |-> kind, arm |-> arm]]
  BY NowIs, MomentIs DEF Decided, Opened
<1> HIDE DEF D
<1>2. Carries(D)
  BY <1>1 DEF Decide, Carries
<1> QED BY <1>1, <1>2 DEF D

LEMMA TransitGoes ==
  ASSUME NEW kind, NEW arm, NEW target, Transit(kind, arm, target)
  PROVE  Now' = Going(Decided(Now, kind, arm), target)
<1> DEFINE D == Decided(Now, kind, arm)
<1>1. Decide(kind, arm) /\ Follow(target) /\ UNCHANGED <<depth, ex, parsed, cursor, env, headers>>
  BY DEF Transit
<1>2. D.cursor = cursor /\ D.current = current /\ D.result = result /\ Carries(D)
  BY <1>1, DecidedIs
<1>3. Follow(target)
  BY <1>1
<1> SUFFICES Now' = Going(D, target)
  OBVIOUS
<1> HIDE DEF D
<1>4. CASE target.kind = "state"
  <2>1. current' = target.to /\ pc' = "enter" /\ result' = D.result
    BY <1>2, <1>3, <1>4 DEF Follow
  <2>2. Now' = Moved(D, target.to)
    BY <1>2, <2>1, MoveIs
  <2> QED BY <1>4, <2>2 DEF Going
<1>5. CASE target.kind = "accept"
  <2>1. Accept /\ current' = D.current
    BY <1>2, <1>3, <1>5 DEF Follow
  <2>2. Now' = Accepted(D)
    BY <1>2, <2>1, AcceptIs
  <2> QED BY <1>5, <2>2 DEF Going
<1>6. CASE target.kind = "reject"
  <2>1. Reject(target.to, None, None, target.info) /\ current' = current
    BY <1>3, <1>6 DEF Follow
  <2>2. Now' = Rejected(D, target.to, None, None, target.info)
    BY <1>2, <2>1, RejectIs
  <2> QED BY <1>6, <2>2 DEF Going
<1>7. CASE target.kind \notin {"state", "accept", "reject"}
  <2>1. Bail /\ current' = D.current
    BY <1>2, <1>3, <1>7 DEF Follow
  <2>2. Now' = Failed(D)
    BY <1>2, <2>1, BailIs
  <2> QED BY <1>7, <2>2 DEF Going
<1> QED BY <1>4, <1>5, <1>6, <1>7

LEMMA TakeTransitionFollows == TypeOK /\ TakeTransition => Follows(ir, packet, Now, Now')
<1> SUFFICES ASSUME TypeOK, TakeTransition
             PROVE  Follows(ir, packet, Now, Now')
  OBVIOUS
<1>1. pc = "extract" /\ ex = Len(Extracts) /\ Len(Extracts) \in Nat
  <2>1. Extracted
    BY DEF TakeTransition, Direct, TakeArm, TakeDefault, NoMatchingArm, TransitionBails
  <2>2. Extracts \in Seq(Extract)
    BY <2>1, StateFacts DEF Extracted
  <2> QED BY <2>1, <2>2 DEF Extracted
<1>2. /\ Now.pc = "extract" /\ Now.ex = ex /\ Now.current = current /\ Now.env = env
      /\ ExtractsOf(ir, Now) = Extracts
      /\ ir.states[Now.current].trans = Trans
      /\ MatchingArms(Trans, Keys(ir, Trans, env)) = MatchedArms
  BY <1>1, NowIs DEF ExtractsOf, Extracts, Trans, MatchedArms
<1>3. Now' = ExitOf(ir, Now)
  <2>1. CASE Direct
    BY <1>2, <2>1, TransitGoes DEF Direct, ExitOf
  <2>2. CASE TakeArm
    <3>1. PICK i \in MatchedArms : (\A j \in MatchedArms : i <= j) /\ Transit("arm", i, Trans.arms[i].next)
      BY <2>2 DEF TakeArm
    <3>2. FirstArm(MatchedArms) = i
      <4>1. \A a \in MatchedArms : a \in Nat
        BY <2>2, TargetFacts DEF TakeArm
      <4>2. \A a \in MatchedArms : (\A b \in MatchedArms : a <= b) => a = i
        BY <3>1, <4>1
      <4> QED BY <3>1, <4>2 DEF FirstArm
    <3> QED BY <1>2, <2>2, <3>1, <3>2, TransitGoes DEF TakeArm, ExitOf
  <2>3. CASE TakeDefault
    BY <1>2, <2>3, TransitGoes DEF TakeDefault, ExitOf
  <2>4. CASE NoMatchingArm
    <3> DEFINE D == Decided(Now, "default", 0)
    <3>1. Decide("default", 0) /\ UNCHANGED <<depth, ex, parsed, cursor, env, headers>>
      BY <2>4 DEF NoMatchingArm
    <3>2. D.cursor = cursor /\ D.current = current /\ Carries(D)
      BY <3>1, DecidedIs
    <3>3. current' = current /\ Reject(NoMatch, None, None, FALSE)
      BY <2>4 DEF NoMatchingArm
    <3> HIDE DEF D
    <3>4. Now' = Rejected(D, NoMatch, None, None, FALSE)
      BY <3>2, <3>3, RejectIs
    <3>5. /\ Trans.kind # "direct" /\ Trans.kind # "none" /\ KeysResolve(ir, Trans, env)
          /\ MatchedArms = {} /\ Trans.default.kind = "absent"
      BY <2>4 DEF NoMatchingArm
    <3> QED BY <1>2, <3>4, <3>5 DEF ExitOf, D
  <2>5. CASE TransitionBails
    <3>1. Now' = Failed(Now)
      <4>1. Carries(Now) /\ current' = Now.current /\ Bail
        BY <2>5, NowIs DEF TransitionBails, Carries
      <4> QED BY <4>1, BailIs
    <3>2. CASE Trans.kind = "none"
      BY <1>2, <3>1, <3>2 DEF ExitOf
    <3>3. CASE Trans.kind = "select" /\ ~ KeysResolve(ir, Trans, env)
      BY <1>2, <3>1, <3>3 DEF ExitOf
    <3> QED BY <2>5, <3>2, <3>3 DEF TransitionBails
  <2> QED BY <2>1, <2>2, <2>3, <2>4, <2>5 DEF TakeTransition
<1> QED BY <1>1, <1>2, <1>3 DEF Follows, Lacks, Asks, NextOf

LEMMA StepFollows == TypeOK /\ Step => Follows(ir, packet, Now, Now')
BY EnterFollows, ExtractHeaderFollows, ReadFieldFollows, TakeTransitionFollows DEF Step

(***************************************************************************)
(* Nothing that was read or recorded is taken back.                        *)
(***************************************************************************)
SoFar(s) == IF s.pc = "field" THEN Append(s.headers, s.parsed) ELSE s.headers

\* g is h, or goes on from it.
GoesOn(h, g) ==
  /\ g.instance = h.instance /\ g.start = h.start
  /\ Len(h.fields) <= Len(g.fields)
  /\ \A j \in DOMAIN h.fields : g.fields[j] = h.fields[j]

SameStates(tr, ts) == Len(tr) <= Len(ts) /\ \A k \in DOMAIN tr : ts[k].state = tr[k].state
AllGoOn(hs, gs) == Len(hs) <= Len(gs) /\ \A k \in DOMAIN hs : GoesOn(hs[k], gs[k])

\* A failed call drops what it read.
Grew(s, t) ==
  /\ s.cursor <= t.cursor
  /\ SameStates(s.trace, t.trace)
  /\ t.result.outcome # "err" => AllGoOn(SoFar(s), SoFar(t))

LEMMA GoesOnTransitive ==
  ASSUME NEW f \in ParsedHeader, NEW g \in ParsedHeader, NEW h \in ParsedHeader,
         GoesOn(f, g), GoesOn(g, h)
  PROVE  GoesOn(f, h)
<1>1. f.fields \in Seq(ParsedField) /\ g.fields \in Seq(ParsedField) /\ h.fields \in Seq(ParsedField)
  BY DEF ParsedHeader
<1>2. Len(f.fields) \in Nat /\ Len(g.fields) \in Nat /\ Len(h.fields) \in Nat
      /\ DOMAIN f.fields = 1 .. Len(f.fields) /\ DOMAIN g.fields = 1 .. Len(g.fields)
  BY <1>1
<1>3. DOMAIN f.fields \subseteq DOMAIN g.fields
  BY <1>2 DEF GoesOn
<1> QED BY <1>2, <1>3 DEF GoesOn

LEMMA AllGoOnTransitive ==
  ASSUME NEW hs \in Seq(ParsedHeader), NEW gs \in Seq(ParsedHeader), NEW fs \in Seq(ParsedHeader),
         AllGoOn(hs, gs), AllGoOn(gs, fs)
  PROVE  AllGoOn(hs, fs)
<1>1. /\ Len(hs) \in Nat /\ Len(gs) \in Nat /\ Len(fs) \in Nat
      /\ DOMAIN hs = 1 .. Len(hs) /\ DOMAIN gs = 1 .. Len(gs) /\ DOMAIN fs = 1 .. Len(fs)
  OBVIOUS
<1>2. Len(hs) <= Len(gs) /\ Len(gs) <= Len(fs)
  BY DEF AllGoOn
<1>3. ASSUME NEW k \in DOMAIN hs
      PROVE  GoesOn(hs[k], fs[k])
  <2>1. k \in DOMAIN gs /\ k \in DOMAIN fs
    BY <1>1, <1>2
  <2>2. GoesOn(hs[k], gs[k]) /\ GoesOn(gs[k], fs[k])
    BY <2>1 DEF AllGoOn
  <2>3. hs[k] \in ParsedHeader /\ gs[k] \in ParsedHeader /\ fs[k] \in ParsedHeader
    BY <2>1
  <2> QED BY <2>2, <2>3, GoesOnTransitive
<1> QED BY <1>1, <1>2, <1>3 DEF AllGoOn

LEMMA SameStatesTransitive ==
  ASSUME NEW tr \in Seq(TraceStep), NEW ts \in Seq(TraceStep), NEW tu \in Seq(TraceStep),
         SameStates(tr, ts), SameStates(ts, tu)
  PROVE  SameStates(tr, tu)
<1>1. /\ Len(tr) \in Nat /\ Len(ts) \in Nat /\ Len(tu) \in Nat
      /\ DOMAIN tr = 1 .. Len(tr) /\ DOMAIN ts = 1 .. Len(ts)
  OBVIOUS
<1>2. DOMAIN tr \subseteq DOMAIN ts
  BY <1>1 DEF SameStates
<1> QED BY <1>1, <1>2 DEF SameStates

LEMMA AllGoOnReflexive ==
  ASSUME NEW hs \in Seq(ParsedHeader)
  PROVE  AllGoOn(hs, hs)
<1>1. ASSUME NEW k \in DOMAIN hs
      PROVE  hs[k].fields \in Seq(ParsedField)
  <2>1. hs[k] \in ParsedHeader
    OBVIOUS
  <2> QED BY <2>1 DEF ParsedHeader
<1>2. Len(hs) \in Nat /\ \A k \in DOMAIN hs : Len(hs[k].fields) \in Nat
  BY <1>1
<1> QED BY <1>2 DEF AllGoOn, GoesOn

LEMMA AppendGoesOn ==
  ASSUME NEW hs \in Seq(ParsedHeader), NEW h \in ParsedHeader
  PROVE  AllGoOn(hs, Append(hs, h))
<1> DEFINE longer == Append(hs, h)
<1>1. Len(longer) = Len(hs) + 1 /\ Len(hs) \in Nat /\ \A k \in 1 .. Len(hs) : longer[k] = hs[k]
  BY AppendProperties
<1>2. AllGoOn(hs, hs) /\ DOMAIN hs = 1 .. Len(hs)
  BY AllGoOnReflexive
<1> HIDE DEF longer
<1>3. AllGoOn(hs, longer)
  BY <1>1, <1>2 DEF AllGoOn
<1> QED BY <1>3 DEF longer

LEMMA LastGoesOn ==
  ASSUME NEW hs \in Seq(ParsedHeader), NEW h \in ParsedHeader, NEW g \in ParsedHeader, GoesOn(h, g)
  PROVE  AllGoOn(Append(hs, h), Append(hs, g))
<1> DEFINE a == Append(hs, h)
           b == Append(hs, g)
           n == Len(hs) + 1
<1>1. /\ Len(a) = n /\ Len(b) = n /\ n \in Nat /\ a[n] = h /\ b[n] = g
      /\ \A k \in 1 .. Len(hs) : a[k] = hs[k] /\ b[k] = hs[k]
  BY AppendProperties
<1>2. DOMAIN a = 1 .. n /\ Len(hs) \in Nat /\ DOMAIN hs = 1 .. Len(hs)
  BY AppendProperties
<1>3. AllGoOn(hs, hs)
  BY AllGoOnReflexive
<1>4. ASSUME NEW k \in DOMAIN a
      PROVE  GoesOn(a[k], b[k])
  <2>1. k = n \/ k \in 1 .. Len(hs)
    BY <1>2
  <2> HIDE DEF a, b, n
  <2>2. CASE k = n
    BY <1>1, <2>2
  <2>3. CASE k \in 1 .. Len(hs)
    BY <1>1, <1>2, <1>3, <2>3 DEF AllGoOn
  <2> QED BY <2>1, <2>2, <2>3
<1>5. AllGoOn(a, b)
  <2> HIDE DEF a, b, n
  <2> QED BY <1>1, <1>4 DEF AllGoOn
<1> QED BY <1>5

LEMMA SoFarIs == SoFar(Now) = HeadersSoFar /\ (SoFar(Now))' = HeadersSoFar'
BY NowIs, NextMoment DEF SoFar, HeadersSoFar

LEMMA TraceGrows ==
  ASSUME TypeOK, trace' = trace \/ trace' = Entered \/ \E kind, arm : Decide(kind, arm)
  PROVE  SameStates(trace, trace')
<1>1. trace \in Seq(TraceStep) /\ Len(trace) \in Nat /\ DOMAIN trace = 1 .. Len(trace)
  BY DEF TypeOK
<1>2. CASE trace' = trace
  BY <1>1, <1>2 DEF SameStates
<1>3. CASE trace' = Entered
  <2> DEFINE new == [state |-> current, decision |-> Undecided]
  <2>1. new \in TraceStep
    BY DEF TypeOK, TraceStep, Decision, Undecided
  <2>2. Len(Append(trace, new)) = Len(trace) + 1 /\ \A k \in 1 .. Len(trace) : Append(trace, new)[k] = trace[k]
    BY <1>1, <2>1, AppendProperties
  <2> QED BY <1>1, <1>3, <2>2 DEF SameStates, Entered
<1>4. ASSUME NEW kind, NEW arm, Decide(kind, arm)
      PROVE  SameStates(trace, trace')
  <2> DEFINE n == Len(trace)
             now == [trace[n] EXCEPT !.decision = [kind |-> kind, arm |-> arm]]
  <2>1. trace' = [trace EXCEPT ![n] = now]
    BY <1>4 DEF Decide
  <2>2. n \in DOMAIN trace => now.state = trace[n].state
    BY <1>1 DEF TraceStep
  <2>3. DOMAIN trace' = DOMAIN trace /\ Len(trace') = Len(trace)
    BY <1>1, <2>1
  <2> HIDE DEF now
  <2> QED BY <1>1, <2>1, <2>2, <2>3 DEF SameStates
<1> QED BY <1>2, <1>3, <1>4

\* The steps that read nothing.
LEMMA StillGrows ==
  ASSUME TypeOK, TypeOK', cursor' = cursor,
         HeadersSoFar' = HeadersSoFar \/ result'.outcome = "err",
         trace' = trace \/ trace' = Entered \/ \E kind, arm : Decide(kind, arm)
  PROVE  Grew(Now, Now')
<1>1. Now.cursor = cursor /\ Now.trace = trace /\ (Now.result)' = result'
      /\ (Now.cursor)' = cursor' /\ (Now.trace)' = trace'
  BY NowIs, NextMoment
<1>2. HeadersSoFar \in Seq(ParsedHeader) /\ cursor \in Nat
  BY HeadersSoFarType DEF TypeOK, Avail
<1> QED BY <1>1, <1>2, TraceGrows, AllGoOnReflexive, SoFarIs DEF Grew

LEMMA ReadGrows ==
  ASSUME TypeOK, TypeOK', pc = "field", pc' = "field", headers' = headers, trace' = trace,
         NEW n \in Nat, NEW fixed \in BOOLEAN, TakeField(n, fixed)
  PROVE  Grew(Now, Now')
<1>1. Now.cursor = cursor /\ Now.trace = trace
      /\ (Now.cursor)' = cursor' /\ (Now.trace)' = trace'
  BY NowIs, NextMoment
<1>2. cursor \in Nat /\ headers \in Seq(ParsedHeader) /\ parsed \in ParsedHeader /\ parsed' \in ParsedHeader
  BY DEF TypeOK, Avail
<1>3. GoesOn(parsed, parsed')
  <2> DEFINE f == [name |-> NextField.name, offset |-> cursor, bits |-> Slice(cursor, n), fixed |-> fixed]
  <2>1. parsed' = [parsed EXCEPT !.fields = Append(parsed.fields, f)]
    BY DEF TakeField
  <2> HIDE DEF f
  <2>2. /\ parsed'.instance = parsed.instance /\ parsed'.start = parsed.start
        /\ parsed'.fields = Append(parsed.fields, f) /\ parsed.fields \in Seq(ParsedField)
    BY <1>2, <2>1 DEF ParsedHeader
  <2>3. /\ Len(Append(parsed.fields, f)) = Len(parsed.fields) + 1 /\ Len(parsed.fields) \in Nat
        /\ \A k \in 1 .. Len(parsed.fields) : Append(parsed.fields, f)[k] = parsed.fields[k]
        /\ DOMAIN parsed.fields = 1 .. Len(parsed.fields)
    BY <2>2
  <2> QED BY <2>2, <2>3 DEF GoesOn
<1>4. HeadersSoFar = Append(headers, parsed) /\ HeadersSoFar' = Append(headers, parsed')
  BY DEF HeadersSoFar
<1>5. AllGoOn(HeadersSoFar, HeadersSoFar')
  BY <1>2, <1>3, <1>4, LastGoesOn
<1>6. SameStates(trace, trace') /\ cursor <= cursor'
  BY <1>2, TraceGrows DEF TakeField
<1> QED BY <1>1, <1>5, <1>6, SoFarIs DEF Grew

LEMMA StepGrows == TypeOK /\ Step => Grew(Now, Now')
<1> SUFFICES ASSUME TypeOK, Step
             PROVE  Grew(Now, Now')
  OBVIOUS
<1>0. TypeOK'
  BY TypeNext DEF Next
<1>1. CASE Enter
  <2>1. cursor' = cursor /\ trace' = Entered
    BY <1>1 DEF Enter, EnterState, DepthExceeded, UnknownState
  <2>2. HeadersSoFar' = HeadersSoFar
    BY <1>1 DEF Enter, EnterState, DepthExceeded, UnknownState, Reject, Bail, HeadersSoFar
  <2> QED BY <1>0, <2>1, <2>2, StillGrows
<1>2. CASE TakeTransition
  <2>1. cursor' = cursor /\ headers' = headers /\ pc = "extract" /\ pc' # "field"
    BY <1>2 DEF TakeTransition, Direct, TakeArm, TakeDefault, NoMatchingArm, TransitionBails, Transit, Follow,
                Accept, Reject, Bail, Extracted
  <2>2. trace' = trace \/ \E kind, arm : Decide(kind, arm)
    BY <1>2 DEF TakeTransition, Direct, TakeArm, TakeDefault, NoMatchingArm, TransitionBails, Transit
  <2>3. HeadersSoFar' = HeadersSoFar
    BY <2>1 DEF HeadersSoFar
  <2> QED BY <1>0, <2>1, <2>2, <2>3, StillGrows
<1>3. CASE UnknownHeaderType \/ EndHeader
  <2>1. cursor' = cursor /\ trace' = trace /\ HeadersSoFar' = HeadersSoFar
    BY <1>3 DEF UnknownHeaderType, EndHeader, Extracting, Bail, HeadersSoFar
  <2> QED BY <1>0, <2>1, StillGrows
<1>4. CASE BeginHeader
  <2>1. cursor' = cursor /\ trace' = trace /\ headers' = headers /\ pc = "extract" /\ pc' = "field"
    BY <1>4 DEF BeginHeader, Extracting
  <2>2. HeadersSoFar = headers /\ HeadersSoFar' = Append(headers, parsed')
    BY <2>1 DEF HeadersSoFar
  <2>3. headers \in Seq(ParsedHeader) /\ parsed' \in ParsedHeader /\ cursor \in Nat
    BY <1>0 DEF TypeOK, Avail
  <2>4. AllGoOn(HeadersSoFar, HeadersSoFar')
    BY <2>2, <2>3, AppendGoesOn
  <2>5. SameStates(trace, trace')
    BY <2>1, TraceGrows
  <2>6. Now.cursor = cursor /\ Now.trace = trace /\ (Now.cursor)' = cursor' /\ (Now.trace)' = trace'
    BY NowIs, NextMoment
  <2> QED BY <2>1, <2>3, <2>4, <2>5, <2>6, SoFarIs DEF Grew
<1>5. CASE ReadBits
  <2>1. NextField.n \in Nat /\ pc = "field"
    BY <1>5, FieldFacts DEF ReadBits, Reading, Field
  <2> QED BY <1>0, <1>5, <2>1, ReadGrows DEF ReadBits
<1>6. CASE ReadBytes
  <2>1. LenBytes * ByteBits \in Nat /\ pc = "field"
    BY <1>6, ProductIsNat, ByteBitsAssumption DEF ReadBytes, Reading, Word
  <2> QED BY <1>0, <1>6, <2>1, ReadGrows DEF ReadBytes
<1>7. CASE ReadBitsOutOfBounds \/ ReadBytesOutOfBounds
  <2>1. cursor' = cursor /\ trace' = trace /\ HeadersSoFar' = HeadersSoFar
    BY <1>7 DEF ReadBitsOutOfBounds, ReadBytesOutOfBounds, Reading, FieldOutOfBounds, Reject, HeadersSoFar
  <2> QED BY <1>0, <2>1, StillGrows
<1>8. CASE ReadBytesBails \/ FieldWithoutWidth
  <2>1. cursor' = cursor /\ trace' = trace /\ result'.outcome = "err"
    BY <1>8, ReturnsCursor DEF ReadBytesBails, FieldWithoutWidth
  <2> QED BY <1>0, <2>1, StillGrows
<1> QED BY <1>1, <1>2, <1>3, <1>4, <1>5, <1>6, <1>7, <1>8 DEF Step, ExtractHeader, ReadField

(***************************************************************************)
(* The moments a call went through.                                        *)
(***************************************************************************)
WellMade(i, p, s) ==
  /\ DOMAIN s = {"pc", "current", "depth", "ex", "parsed", "cursor", "env", "headers", "trace", "result"}
  /\ s.cursor \in 0 .. Len(p)
  /\ s.trace \in Seq(TraceStep) /\ SoFar(s) \in Seq(ParsedHeader)
  /\ s.pc # "done" => s.result = Running
  /\ s.pc = "done" /\ s.result.outcome # "err" => s.result.consumed = s.cursor
  /\ Asks(i, s) => Wants(i, s) \in Nat /\ FieldOf(i, s).name # None

Ran(i, p, n, h) ==
  /\ h[1] = Begun(i)
  /\ \A k \in 1 .. n : WellMade(i, p, h[k])
  /\ \A k \in 1 .. n : \A j \in 1 .. k : Grew(h[j], h[k])
  /\ \A k \in 1 .. n - 1 : Follows(i, p, h[k], h[k + 1])

LEMMA NowIsWellMade == TypeOK /\ TileInv => WellMade(ir, packet, Now)
<1> SUFFICES ASSUME TypeOK, TileInv
             PROVE  WellMade(ir, packet, Now)
  OBVIOUS
<1>1. /\ DOMAIN Now = {"pc", "current", "depth", "ex", "parsed", "cursor", "env", "headers", "trace", "result"}
      /\ Now.pc = pc /\ Now.cursor = cursor /\ Now.trace = trace /\ Now.result = result
      /\ Now.parsed = parsed /\ Now.env = env
  BY NowIs DEF Now, Moment
<1>2. cursor \in 0 .. Len(packet) /\ trace \in Seq(TraceStep) /\ SoFar(Now) \in Seq(ParsedHeader)
  BY HeadersSoFarType, SoFarIs DEF TypeOK, Avail
<1>3. (pc # "done" => result = Running) /\ (pc = "done" /\ result.outcome # "err" => result.consumed = cursor)
  BY TilesPacketIs DEF TileInv, Bailed
<1>4. ASSUME Asks(ir, Now)
      PROVE  Wants(ir, Now) \in Nat /\ FieldOf(ir, Now).name # None
  <2>1. pc = "field" /\ Len(parsed.fields) # Len(Fields)
    BY <1>1, <1>4 DEF Asks, FieldsOf, Fields
  <2>2. Len(parsed.fields) < Len(Fields) /\ NextField \in Field
    BY <2>1, FieldFacts DEF TypeOK
  <2>3. FieldOf(ir, Now) = NextField /\ LengthOf(ir, Now) = LenBytes
    BY <1>1, <2>1 DEF FieldOf, FieldsOf, LengthOf, NextField, Fields, LenBytes
  <2>4. Wants(ir, Now) \in Nat
    <3>1. CASE NextField.width = "bits"
      BY <2>2, <2>3, <3>1 DEF Wants, Field
    <3>2. CASE NextField.width # "bits"
      BY <1>4, <2>3, <3>2, ProductIsNat, ByteBitsAssumption DEF Asks, Wants, Word
    <3> QED BY <3>1, <3>2
  <2>5. NextField.name # None
    <3> DEFINE k == Len(parsed.fields) + 1
    <3>1. k \in DOMAIN Fields
      BY <2>1, <2>2, FieldFacts
    <3>2. ir \in Irs /\ parsed.type \in DOMAIN ir.types
      BY <2>1 DEF TypeOK
    <3> QED BY <3>1, <3>2, NoneAssumption DEF NextField, Fields
  <2> QED BY <2>3, <2>4, <2>5
<1> QED BY <1>1, <1>2, <1>3, <1>4 DEF WellMade

LEMMA GrewReflexive ==
  ASSUME NEW i, NEW p, NEW s, WellMade(i, p, s), Len(p) \in Nat
  PROVE  Grew(s, s)
<1>1. s.cursor \in Nat /\ AllGoOn(SoFar(s), SoFar(s)) /\ Len(s.trace) \in Nat
  BY AllGoOnReflexive DEF WellMade
<1> QED BY <1>1 DEF Grew, SameStates

LEMMA GrewTransitive ==
  ASSUME NEW i, NEW p, NEW s, NEW t, NEW u, Len(p) \in Nat,
         WellMade(i, p, s), WellMade(i, p, t), WellMade(i, p, u),
         Grew(s, t), Grew(t, u), t.pc # "done"
  PROVE  Grew(s, u)
<1>1. s.cursor \in Nat /\ t.cursor \in Nat /\ u.cursor \in Nat
  BY DEF WellMade
<1>2. SameStates(s.trace, u.trace)
  BY SameStatesTransitive DEF WellMade, Grew
<1>3. t.result.outcome # "err"
  BY DEF WellMade, Running
<1>4. u.result.outcome # "err" => AllGoOn(SoFar(s), SoFar(u))
  BY <1>3, AllGoOnTransitive DEF WellMade, Grew
<1> QED BY <1>1, <1>2, <1>4 DEF Grew

LEMMA RanStarts ==
  ASSUME NEW i, NEW p, NEW s, WellMade(i, p, s), Len(p) \in Nat, s = Begun(i)
  PROVE  \E h : Ran(i, p, 1, h) /\ h[1] = s
<1> DEFINE h == [k \in {1} |-> s]
<1>1. h[1] = s /\ \A k \in 1 .. 1 : k = 1
  OBVIOUS
<1>2. Grew(s, s)
  BY GrewReflexive
<1> HIDE DEF h
<1>3. Ran(i, p, 1, h)
  BY <1>1, <1>2 DEF Ran
<1> QED BY <1>1, <1>3

LEMMA RanGoesOn ==
  ASSUME NEW i, NEW p, NEW n \in Nat \ {0}, NEW h, NEW t, Len(p) \in Nat, Ran(i, p, n, h),
         WellMade(i, p, t), Follows(i, p, h[n], t), Grew(h[n], t)
  PROVE  \E g : Ran(i, p, n + 1, g) /\ g[n + 1] = t
<1> DEFINE g == [k \in 1 .. n + 1 |-> IF k = n + 1 THEN t ELSE h[k]]
<1>1. g[n + 1] = t /\ \A k \in 1 .. n : g[k] = h[k]
  OBVIOUS
<1> HIDE DEF g
<1>2. g[1] = Begun(i)
  BY <1>1 DEF Ran
<1>3. ASSUME NEW k \in 1 .. n + 1
      PROVE  WellMade(i, p, g[k])
  <2>1. k = n + 1 \/ k \in 1 .. n
    OBVIOUS
  <2> QED BY <1>1, <2>1 DEF Ran
<1>4. ASSUME NEW k \in 1 .. n + 1, NEW j \in 1 .. k
      PROVE  Grew(g[j], g[k])
  <2>1. CASE k \in 1 .. n
    <3>1. j \in 1 .. n
      BY <2>1
    <3> QED BY <1>1, <2>1, <3>1 DEF Ran
  <2>2. CASE k = n + 1 /\ j = n + 1
    <3>1. Grew(t, t)
      BY GrewReflexive
    <3> QED BY <1>1, <2>2, <3>1
  <2>3. CASE k = n + 1 /\ j \in 1 .. n
    <3>1. Grew(h[j], h[n]) /\ WellMade(i, p, h[j]) /\ WellMade(i, p, h[n]) /\ h[n].pc # "done"
      BY <2>3 DEF Ran, Follows
    <3>2. Grew(h[j], t)
      BY <3>1, GrewTransitive
    <3> QED BY <1>1, <2>3, <3>2
  <2>4. k \in 1 .. n \/ (k = n + 1 /\ j \in 1 .. n) \/ (k = n + 1 /\ j = n + 1)
    OBVIOUS
  <2> QED BY <2>1, <2>2, <2>3, <2>4
<1>5. ASSUME NEW k \in 1 .. n
      PROVE  Follows(i, p, g[k], g[k + 1])
  <2>1. k = n \/ (k \in 1 .. n - 1 /\ k + 1 \in 1 .. n)
    OBVIOUS
  <2> QED BY <1>1, <2>1 DEF Ran
<1>6. \A k \in 1 .. (n + 1) - 1 : k \in 1 .. n
  OBVIOUS
<1>7. Ran(i, p, n + 1, g)
  BY <1>2, <1>3, <1>4, <1>5, <1>6 DEF Ran
<1> QED BY <1>1, <1>7

(***************************************************************************)
(* Two calls in step.                                                      *)
(***************************************************************************)

\* q has what p has of the first c bits, as far as it goes.
Agrees(q, p, c) == \A b \in 1 .. c : b <= Len(q) => q[b] = p[b]

\* No bit was missing before the k-th moment.
NoneLacked(i, p, h, k) == \A j \in 1 .. k - 1 : ~ Lacks(i, p, h[j])

\* What a cut leaves.
LEMMA CutLeaves ==
  ASSUME NEW i, NEW p, NEW s, WellMade(i, p, s), Asks(i, s)
  PROVE  LET c == CutOf(i, s)
         IN  /\ c.pc = "done" /\ c.cursor = s.cursor /\ c.trace = s.trace /\ c.headers = SoFar(s)
             /\ c.result.outcome = "reject" /\ c.result.reason = OutOfBounds
             /\ c.result.field = FieldOf(i, s).name
<1> DEFINE hs == Append(s.headers, s.parsed)
           t == InFields(s, s.pc, s.ex, s.parsed, hs)
<1>0. t.cursor = s.cursor /\ t.trace = s.trace /\ t.headers = hs
  <2> HIDE DEF hs
  <2> QED BY InFieldsIs
<1>1. t.cursor = s.cursor /\ t.trace = s.trace /\ t.headers = SoFar(s)
  BY <1>0 DEF Asks, SoFar
<1>2. CutOf(i, s) = Rejected(t, OutOfBounds, s.parsed.instance, FieldOf(i, s).name, FALSE)
  BY DEF CutOf
<1> HIDE DEF t
<1>3. LET c == Rejected(t, OutOfBounds, s.parsed.instance, FieldOf(i, s).name, FALSE)
      IN  /\ c.pc = "done" /\ c.cursor = t.cursor /\ c.headers = t.headers /\ c.trace = t.trace
          /\ c.result.outcome = "reject" /\ c.result.reason = OutOfBounds
          /\ c.result.field = FieldOf(i, s).name
  <2> DEFINE instance == s.parsed.instance
             field == FieldOf(i, s).name
             info == FALSE
  <2> HIDE DEF instance, field, info
  <2>1. LET c == Rejected(t, OutOfBounds, instance, field, info)
        IN  /\ c.pc = "done" /\ c.cursor = t.cursor /\ c.headers = t.headers /\ c.trace = t.trace
            /\ c.result.outcome = "reject" /\ c.result.reason = OutOfBounds /\ c.result.field = field
    BY RejectedIs
  <2> QED BY <2>1 DEF instance, field, info
<1> QED BY <1>1, <1>2, <1>3

\* A call ends where it is cut, and where it is done.
LEMMA LacksEnds ==
  ASSUME NEW i, NEW p, NEW n \in Nat \ {0}, NEW h, Ran(i, p, n, h),
         NEW k \in 1 .. n - 1, Lacks(i, p, h[k])
  PROVE  k + 1 = n /\ h[n] = CutOf(i, h[k])
<1>1. h[k + 1] = CutOf(i, h[k])
  BY DEF Ran, Follows
<1>2. h[k + 1].pc = "done"
  <2>1. k \in 1 .. n
    OBVIOUS
  <2>2. WellMade(i, p, h[k]) /\ Asks(i, h[k])
    BY <2>1 DEF Ran, Lacks
  <2> QED BY <1>1, <2>2, CutLeaves
<1>3. ~ k + 1 \in 1 .. n - 1
  BY <1>2 DEF Ran, Follows
<1> QED BY <1>1, <1>3

LEMMA DoneEnds ==
  ASSUME NEW i, NEW p, NEW n \in Nat \ {0}, NEW h, Ran(i, p, n, h),
         NEW k \in 1 .. n, h[k].pc = "done"
  PROVE  k = n
<1>1. ~ k \in 1 .. n - 1
  BY DEF Ran, Follows
<1> QED BY <1>1

LEMMA EarlierHad ==
  ASSUME NEW i, NEW p, NEW n \in Nat \ {0}, NEW h, Ran(i, p, n, h), NEW k \in Nat, k + 1 = n
  PROVE  NoneLacked(i, p, h, k)
<1> SUFFICES ASSUME NEW j \in 1 .. k - 1, Lacks(i, p, h[j])
             PROVE  FALSE
  BY DEF NoneLacked
<1>1. j \in 1 .. n - 1 /\ j + 1 # n
  OBVIOUS
<1> QED BY <1>1, LacksEnds

Consumes(i, s, t) == t.cursor = s.cursor + Wants(i, s)

\* What a field took is consumed by the next moment.
LEMMA TookBits ==
  ASSUME NEW i, NEW p, NEW n \in Nat \ {0}, NEW h, Ran(i, p, n, h),
         NEW k \in 1 .. n - 1, Asks(i, h[k]), ~ Lacks(i, p, h[k])
  PROVE  Consumes(i, h[k], h[k + 1])
<1>1. h[k + 1] = NextOf(i, h[k], Given(i, p, h[k]))
  BY DEF Ran, Follows
<1>2. NextOf(i, h[k], Given(i, p, h[k])) = ReadOf(i, h[k], Given(i, p, h[k]))
  BY DEF NextOf, InHeader, Asks
<1>3. \A bits : ReadOf(i, h[k], bits).cursor = h[k].cursor + Wants(i, h[k])
  BY MomentIs DEF ReadOf, Took
<1> QED BY <1>1, <1>2, <1>3 DEF Consumes

\* The same moment is followed by the same moment.
LEMMA InStep ==
  ASSUME NEW i, NEW p \in Seq(Bit), NEW q \in Seq(Bit),
         NEW m \in Nat \ {0}, NEW h, Ran(i, p, m, h),
         NEW n \in Nat \ {0}, NEW g, Ran(i, q, n, g),
         Agrees(q, p, h[m].cursor),
         NEW k \in Nat, k \in 1 .. m - 1, k \in 1 .. n - 1, g[k] = h[k],
         ~ Lacks(i, p, h[k]), ~ Lacks(i, q, h[k])
  PROVE  g[k + 1] = h[k + 1]
<1> DEFINE s == h[k]
<1>1. h[k + 1] = NextOf(i, s, Given(i, p, s)) /\ g[k + 1] = NextOf(i, s, Given(i, q, s))
  BY DEF Ran, Follows
<1>2. CASE ~ Asks(i, s)
  BY <1>1, <1>2 DEF Given
<1>3. CASE Asks(i, s)
  <2> DEFINE c == s.cursor
             w == Wants(i, s)
  <2>1. k \in 1 .. m /\ k + 1 \in 1 .. m /\ m \in 1 .. m
    OBVIOUS
  <2>2. c \in Nat /\ w \in Nat
    <3>1. WellMade(i, p, s)
      BY <2>1 DEF Ran
    <3>2. Len(p) \in Nat
      OBVIOUS
    <3> QED BY <1>3, <3>1, <3>2 DEF WellMade
  <2>3. c + w = h[k + 1].cursor /\ h[k + 1].cursor <= h[m].cursor
    <3>1. Grew(h[k + 1], h[m])
      BY <2>1 DEF Ran
    <3>2. Asks(i, h[k]) /\ ~ Lacks(i, p, h[k])
      BY <1>3
    <3>3. Consumes(i, h[k], h[k + 1])
      BY <3>2, TookBits
    <3> QED BY <3>1, <3>3 DEF Grew, Consumes
  <2>4. h[m].cursor \in Nat
    <3>1. WellMade(i, p, h[m])
      BY <2>1 DEF Ran
    <3>2. Len(p) \in Nat
      OBVIOUS
    <3> QED BY <3>1, <3>2 DEF WellMade
  <2>5. c + w <= Len(p) /\ c + w <= Len(q) /\ Len(p) \in Nat /\ Len(q) \in Nat
    <3>1. ~ c + w > Len(p) /\ ~ c + w > Len(q)
      BY <1>3 DEF Lacks
    <3>2. Len(p) \in Nat /\ Len(q) \in Nat /\ c + w \in Nat
      BY <2>2
    <3> HIDE DEF c, w
    <3> QED BY <3>1, <3>2
  <2>6. SubSeq(p, c + 1, c + w) = SubSeq(q, c + 1, c + w)
    <3> DEFINE d == c + w
    <3>1. d \in Nat /\ d <= h[m].cursor /\ d <= Len(p) /\ d <= Len(q)
      BY <2>2, <2>3, <2>5
    <3> HIDE DEF s, c, w, d
    <3>2. \A b \in c + 1 .. d : b \in 1 .. h[m].cursor /\ b \in DOMAIN p /\ b \in DOMAIN q /\ b <= Len(q)
      BY <2>2, <2>4, <2>5, <3>1
    <3>3. \A b \in c + 1 .. d : q[b] = p[b] /\ p[b] \in Bit /\ q[b] \in Bit
      BY <3>2 DEF Agrees
    <3> DEFINE x == SubSeq(p, c + 1, d)
               y == SubSeq(q, c + 1, d)
    <3>4. c + 1 \in Int /\ d \in Int
      BY <2>2, <3>1
    <3>5. /\ x \in Seq(Bit) /\ Len(x) = (IF c + 1 <= d THEN d - (c + 1) + 1 ELSE 0)
          /\ \A b \in 1 .. d - (c + 1) + 1 : x[b] = p[c + 1 + b - 1]
      BY <3>3, <3>4, SubSeqProperties
    <3>6. /\ y \in Seq(Bit) /\ Len(y) = (IF c + 1 <= d THEN d - (c + 1) + 1 ELSE 0)
          /\ \A b \in 1 .. d - (c + 1) + 1 : y[b] = q[c + 1 + b - 1]
      BY <3>3, <3>4, SubSeqProperties
    <3> HIDE DEF x, y
    <3>7. Len(x) = Len(y) /\ Len(x) \in Nat /\ DOMAIN x = 1 .. Len(x) /\ DOMAIN y = 1 .. Len(x)
      BY <3>5, <3>6
    <3>8. \A b \in 1 .. Len(x) : x[b] = y[b]
      <4> SUFFICES ASSUME NEW b \in 1 .. Len(x)
                   PROVE  x[b] = y[b]
        OBVIOUS
      <4>1. b \in 1 .. d - (c + 1) + 1 /\ c + 1 + b - 1 \in c + 1 .. d
        BY <2>2, <3>1, <3>5
      <4> QED BY <3>3, <3>5, <3>6, <4>1
    <3>9. x = y
      BY <3>5, <3>6, <3>7, <3>8
    <3> QED BY <3>9 DEF x, y, d
  <2> QED BY <1>1, <1>3, <2>6 DEF Given
<1> QED BY <1>2, <1>3

LEMMA SameMoments ==
  ASSUME NEW i, NEW p \in Seq(Bit), NEW q \in Seq(Bit),
         NEW m \in Nat \ {0}, NEW h, Ran(i, p, m, h),
         NEW n \in Nat \ {0}, NEW g, Ran(i, q, n, g),
         Agrees(q, p, h[m].cursor),
         NEW k \in Nat \ {0}, k <= m, k <= n,
         NoneLacked(i, p, h, k), NoneLacked(i, q, g, k)
  PROVE  g[k] = h[k]
<1> DEFINE U == {l \in Nat : l + 1 <= k => g[l + 1] = h[l + 1]}
<1>1. 0 \in U
  BY DEF Ran
<1>2. ASSUME NEW l \in Nat, l \in U
      PROVE  l + 1 \in U
  <2> SUFFICES ASSUME l + 2 <= k
               PROVE  g[l + 2] = h[l + 2]
    OBVIOUS
  <2> DEFINE j == l + 1
  <2>1. g[j] = h[j] /\ j \in Nat /\ j \in 1 .. k - 1 /\ j \in 1 .. m - 1 /\ j \in 1 .. n - 1 /\ l + 2 = j + 1
    BY <1>2
  <2> HIDE DEF j
  <2>2. ~ Lacks(i, p, h[j]) /\ ~ Lacks(i, q, h[j])
    BY <2>1 DEF NoneLacked
  <2>3. g[j + 1] = h[j + 1]
    BY <2>1, <2>2, InStep
  <2> QED BY <2>1, <2>3
<1>3. \A l \in Nat : l \in U
  <2> HIDE DEF U
  <2> QED BY <1>1, <1>2, NatSetInduction
<1>4. k - 1 \in U /\ k - 1 \in Nat
  <2>1. k - 1 \in Nat
    OBVIOUS
  <2> HIDE DEF U
  <2> QED BY <1>3, <2>1
<1> QED BY <1>4

\* A complete call, and one over a packet that has the bits it consumed.
LEMMA SameEnd ==
  ASSUME NEW i, NEW p \in Seq(Bit), NEW q \in Seq(Bit),
         NEW m \in Nat \ {0}, NEW h, Ran(i, p, m, h), h[m].pc = "done",
         NEW n \in Nat \ {0}, NEW g, Ran(i, q, n, g), g[n].pc = "done",
         Agrees(q, p, h[m].cursor),
         h[m].cursor <= Len(q), h[m].result.field = None
  PROVE  g[n] = h[m]
<1>0. m \in 1 .. m /\ n \in 1 .. n /\ Len(p) \in Nat /\ Len(q) \in Nat
  OBVIOUS
<1>1. ASSUME NEW j \in 1 .. m - 1
      PROVE  ~ Lacks(i, p, h[j])
  <2> SUFFICES ASSUME Lacks(i, p, h[j])
               PROVE  FALSE
    OBVIOUS
  <2>1. h[m] = CutOf(i, h[j]) /\ j \in 1 .. m
    BY LacksEnds
  <2>2. WellMade(i, p, h[j]) /\ Asks(i, h[j])
    BY <2>1 DEF Ran, Lacks
  <2>3. FieldOf(i, h[j]).name # None
    BY <2>2 DEF WellMade
  <2> QED BY <2>1, <2>2, <2>3, CutLeaves
<1>2. ASSUME NEW j \in 1 .. m - 1
      PROVE  ~ Lacks(i, q, h[j])
  <2> SUFFICES ASSUME Lacks(i, q, h[j])
               PROVE  FALSE
    OBVIOUS
  <2>0. ~ Lacks(i, p, h[j]) /\ Asks(i, h[j]) /\ j + 1 \in 1 .. m
    BY <1>1 DEF Lacks
  <2>1. Consumes(i, h[j], h[j + 1])
    BY <2>0, TookBits
  <2>2. WellMade(i, p, h[j + 1]) /\ WellMade(i, p, h[m]) /\ Grew(h[j + 1], h[m])
    BY <1>0, <2>0 DEF Ran
  <2>3. h[j + 1].cursor <= h[m].cursor
    BY <2>2 DEF Grew
  <2>4. h[j + 1].cursor \in Nat /\ h[m].cursor \in Nat
    BY <1>0, <2>2 DEF WellMade
  <2>5. h[j + 1].cursor > Len(q)
    BY <2>1 DEF Lacks, Consumes
  <2> QED BY <1>0, <2>3, <2>4, <2>5
<1>3. ASSUME NEW k \in Nat \ {0}, k <= m, k <= n, NoneLacked(i, q, g, k)
      PROVE  g[k] = h[k]
  <2>1. NoneLacked(i, p, h, k)
    BY <1>1, <1>3 DEF NoneLacked
  <2> QED BY <1>3, <2>1, SameMoments
<1>4. ASSUME m <= n, g[m] = h[m]
      PROVE  m = n
  <2>1. m \in 1 .. n /\ g[m].pc = "done"
    BY <1>4
  <2> QED BY <2>1, DoneEnds
<1>5. ASSUME NEW j \in 1 .. n - 1
      PROVE  ~ Lacks(i, q, g[j])
  <2> SUFFICES ASSUME Lacks(i, q, g[j])
               PROVE  FALSE
    OBVIOUS
  <2>0. j + 1 = n
    BY LacksEnds
  <2>1. j + 1 = n /\ j \in Nat \ {0} /\ j <= n
    BY <2>0
  <2>2. NoneLacked(i, q, g, j)
    BY <2>1, EarlierHad
  <2>3. CASE j < m
    <3>1. j \in 1 .. m - 1 /\ j <= m
      BY <2>1, <2>3
    <3>2. g[j] = h[j]
      BY <1>3, <2>1, <2>2, <3>1
    <3> QED BY <1>2, <3>1, <3>2
  <2>4. CASE j >= m
    <3>1. m <= m /\ m <= n /\ m <= j /\ m # n
      BY <2>1, <2>4
    <3>2. NoneLacked(i, q, g, m)
      BY <2>2, <3>1 DEF NoneLacked
    <3>3. g[m] = h[m]
      BY <1>3, <3>1, <3>2
    <3> QED BY <1>4, <3>1, <3>3
  <2> QED BY <2>1, <2>3, <2>4
<1>6. ASSUME NEW k \in Nat \ {0}, k <= m, k <= n
      PROVE  g[k] = h[k]
  <2>1. NoneLacked(i, q, g, k)
    BY <1>5, <1>6 DEF NoneLacked
  <2> QED BY <1>3, <1>6, <2>1
<1>7. m = n
  <2>1. CASE m <= n
    <3>1. g[m] = h[m]
      BY <1>6, <2>1
    <3> QED BY <1>4, <2>1, <3>1
  <2>2. CASE n <= m
    <3>1. h[n] = g[n]
      BY <1>6, <2>2
    <3>2. n \in 1 .. m /\ h[n].pc = "done"
      BY <2>2, <3>1
    <3> QED BY <3>2, DoneEnds
  <2> QED BY <2>1, <2>2
<1>8. g[m] = h[m]
  BY <1>6, <1>7
<1> QED BY <1>7, <1>8

\* A call over a packet that ends before what the first consumed is cut.
LEMMA CutOnTheWay ==
  ASSUME NEW i, NEW p \in Seq(Bit), NEW q \in Seq(Bit),
         NEW m \in Nat \ {0}, NEW h, Ran(i, p, m, h), h[m].pc = "done",
         NEW n \in Nat \ {0}, NEW g, Ran(i, q, n, g), g[n].pc = "done",
         Agrees(q, p, h[m].cursor),
         Len(q) < h[m].cursor
  PROVE  \E j \in 1 .. m : Lacks(i, q, h[j]) /\ g[n] = CutOf(i, h[j])
<1>0. m \in 1 .. m /\ n \in 1 .. n /\ Len(p) \in Nat /\ Len(q) \in Nat
  OBVIOUS
<1>1. ASSUME NEW k \in 1 .. n
      PROVE  g[k].cursor \in Nat /\ g[k].cursor <= Len(q)
  <2>1. WellMade(i, q, g[k])
    BY DEF Ran
  <2> QED BY <1>0, <2>1 DEF WellMade
<1>2. h[m].cursor \in Nat
  <2>1. WellMade(i, p, h[m])
    BY <1>0 DEF Ran
  <2> QED BY <1>0, <2>1 DEF WellMade
  \* As long as it is in step with the first, it has not come to where that was cut.
<1>3. ASSUME NEW j \in 1 .. m - 1, j <= n, NoneLacked(i, q, g, j)
      PROVE  ~ Lacks(i, p, h[j])
  <2> SUFFICES ASSUME Lacks(i, p, h[j])
               PROVE  FALSE
    OBVIOUS
  <2>1. j + 1 = m /\ h[m] = CutOf(i, h[j])
    BY LacksEnds
  <2>2. j \in 1 .. m /\ j \in 1 .. n /\ j \in Nat \ {0} /\ j <= m
    BY <1>3
  <2>3. NoneLacked(i, p, h, j)
    BY <2>1, <2>2, EarlierHad
  <2>4. g[j] = h[j]
    BY <1>3, <2>2, <2>3, SameMoments
  <2>5. h[m].cursor = h[j].cursor
    <3>1. WellMade(i, p, h[j]) /\ Asks(i, h[j])
      BY <2>2 DEF Ran, Lacks
    <3> QED BY <2>1, <3>1, CutLeaves
  <2>6. g[j].cursor \in Nat /\ g[j].cursor <= Len(q)
    BY <1>1, <2>2
  <2> QED BY <1>0, <1>2, <2>4, <2>5, <2>6
<1>4. ASSUME NEW k \in Nat \ {0}, k <= m, k <= n, NoneLacked(i, q, g, k)
      PROVE  g[k] = h[k]
  <2>1. ASSUME NEW l \in 1 .. k - 1
        PROVE  ~ Lacks(i, p, h[l])
    <3>1. l \in 1 .. m - 1 /\ l <= n
      BY <1>4
    <3>2. NoneLacked(i, q, g, l)
      BY <1>4 DEF NoneLacked
    <3> QED BY <1>3, <3>1, <3>2
  <2>2. NoneLacked(i, p, h, k)
    BY <2>1 DEF NoneLacked
  <2> QED BY <1>4, <2>2, SameMoments
<1>5. ASSUME m <= n, g[m] = h[m]
      PROVE  FALSE
  <2>1. m \in 1 .. n
    BY <1>5
  <2>2. g[m].cursor \in Nat /\ g[m].cursor <= Len(q)
    BY <1>1, <2>1
  <2> QED BY <1>0, <1>2, <1>5, <2>2
<1>6. CASE \E j \in 1 .. n - 1 : Lacks(i, q, g[j])
  <2>1. PICK j \in 1 .. n - 1 : Lacks(i, q, g[j])
    BY <1>6
  <2>2. j + 1 = n /\ g[n] = CutOf(i, g[j]) /\ j \in Nat \ {0} /\ j <= n
    BY <2>1, LacksEnds
  <2>3. NoneLacked(i, q, g, j)
    BY <2>1, <2>2, EarlierHad
  <2>4. CASE j <= m
    <3>1. g[j] = h[j]
      BY <1>4, <2>2, <2>3, <2>4
    <3>2. j \in 1 .. m
      BY <2>2, <2>4
    <3> QED BY <2>1, <2>2, <3>1, <3>2
  <2>5. CASE j > m
    <3>1. m <= n /\ m <= m /\ m <= j
      BY <2>2, <2>5
    <3>2. NoneLacked(i, q, g, m)
      BY <2>2, <2>3, <3>1 DEF NoneLacked
    <3>3. g[m] = h[m]
      BY <1>4, <3>1, <3>2
    <3> QED BY <1>5, <3>1, <3>3
  <2> QED BY <2>2, <2>4, <2>5
<1>7. CASE \A j \in 1 .. n - 1 : ~ Lacks(i, q, g[j])
  <2>1. ASSUME NEW k \in Nat \ {0}, k <= m, k <= n
        PROVE  g[k] = h[k]
    <3>1. NoneLacked(i, q, g, k)
      BY <1>7, <2>1 DEF NoneLacked
    <3> QED BY <1>4, <2>1, <3>1
  <2>2. CASE m <= n
    <3>1. g[m] = h[m]
      BY <2>1, <2>2
    <3> QED BY <1>5, <2>2, <3>1
  <2>3. CASE n <= m
    <3>1. g[n] = h[n]
      BY <2>1, <2>3
    <3>2. n \in 1 .. m /\ h[n].pc = "done"
      BY <2>3, <3>1
    <3>3. n = m
      BY <3>2, DoneEnds
    <3> QED BY <1>5, <3>1, <3>3
  <2> QED BY <2>2, <2>3
<1> QED BY <1>6, <1>7

(***************************************************************************)
(* The inductive invariant: there are moments behind the call that runs,   *)
(* and behind the one that is over.                                        *)
(***************************************************************************)
PresentInv == \E n \in Nat \ {0} : \E g : Ran(ir, packet, n, g) /\ g[n] = Now

PastInv ==
  earlier # <<>> =>
    /\ First.packet \in Seq(Bit)
    /\ First.result.outcome # "err"
    /\ Agrees(packet, First.packet, First.result.consumed)
    /\ \E m \in Nat \ {0} : \E h :
         /\ Ran(ir, First.packet, m, h)
         /\ h[m].pc = "done" /\ h[m].result = First.result
         /\ h[m].headers = First.headers /\ h[m].trace = First.trace

TwoInv == TypeOK /\ TileInv /\ PresentInv /\ PastInv

LEMMA Starts == TypeOK /\ TileInv /\ Now = Begun(ir) => PresentInv
<1> SUFFICES ASSUME TypeOK, TileInv, Now = Begun(ir)
             PROVE  PresentInv
  OBVIOUS
<1>1. WellMade(ir, packet, Now) /\ Len(packet) \in Nat
  BY NowIsWellMade, IrFacts DEF Avail
<1>2. \E g : Ran(ir, packet, 1, g) /\ g[1] = Now
  BY <1>1, RanStarts
<1> QED BY <1>2 DEF PresentInv

LEMMA InitBegins == Init => Now = Begun(ir)
BY DEF Init, Now, Begun

LEMMA TwoInit == TInit => TwoInv
<1>1. TInit => TypeOK /\ TileInv /\ Now = Begun(ir)
  BY TypeInit, TileInit, InitBegins DEF TInit
<1> QED BY <1>1, Starts DEF TInit, TwoInv, PastInv

\* The call that runs makes a step.
LEMMA RunGoesOn == TwoInv /\ FirstOrSecond => TwoInv'
<1> SUFFICES ASSUME TwoInv, FirstOrSecond
             PROVE  TwoInv'
  OBVIOUS
<1>1. TypeOK' /\ TileInv'
  BY TypeNext, TileNext DEF TwoInv, FirstOrSecond, Next
<1>2. ir' = ir /\ packet' = packet /\ earlier' = earlier
  BY DEF FirstOrSecond, Step, Enter, ExtractHeader, ReadField, TakeTransition, EnterState, DepthExceeded,
         UnknownState, BeginHeader, UnknownHeaderType, EndHeader, ReadBits, ReadBitsOutOfBounds,
         FieldOutOfBounds, ReadBytes, ReadBytesOutOfBounds, ReadBytesBails, FieldWithoutWidth,
         Direct, TakeArm, TakeDefault, NoMatchingArm, TransitionBails, Transit
<1>3. PresentInv'
  <2>1. PICK n, g : n \in Nat \ {0} /\ Ran(ir, packet, n, g) /\ g[n] = Now
    BY DEF TwoInv, PresentInv
  <2>2. Follows(ir, packet, g[n], Now') /\ Grew(g[n], Now')
    BY <2>1, StepFollows, StepGrows DEF TwoInv, FirstOrSecond
  <2>3. WellMade(ir, packet, Now') /\ Len(packet) \in Nat
    <3>1. (WellMade(ir, packet, Now))'
      BY <1>1, NowIsWellMade, PTL
    <3>2. Len(packet) \in Nat
      BY IrFacts DEF TwoInv, Avail
    <3> QED BY <1>2, <3>1, <3>2
  <2>4. \E f : Ran(ir, packet, n + 1, f) /\ f[n + 1] = Now'
    BY <2>1, <2>2, <2>3, RanGoesOn
  <2>5. n + 1 \in Nat \ {0}
    BY <2>1
  <2> QED BY <1>2, <2>4, <2>5 DEF PresentInv
<1>4. PastInv'
  BY <1>2 DEF TwoInv, PastInv, First
<1> QED BY <1>1, <1>3, <1>4 DEF TwoInv

\* The call that is over becomes the earlier one.
LEMMA CallsAgain == TwoInv /\ CallAgain => TwoInv'
<1> SUFFICES ASSUME TwoInv, CallAgain
             PROVE  TwoInv'
  OBVIOUS
<1>1. Init'
  BY DEF CallAgain, Init, TwoInv, TypeOK
<1>2. TypeOK' /\ TileInv' /\ (Now = Begun(ir))'
  BY <1>1, TypeInit, TileInit, InitBegins, PTL
<1>3. PresentInv'
  BY <1>2, Starts, PTL
<1>4. PastInv'
  <2>1. PICK n, g : n \in Nat \ {0} /\ Ran(ir, packet, n, g) /\ g[n] = Now
    BY DEF TwoInv, PresentInv
  <2>2. Now.pc = "done" /\ Now.result = result /\ Now.headers = headers /\ Now.trace = trace
    BY NowIs DEF CallAgain
  <2>3. packet \in Seq(Bit) /\ packet' \in Seq(Bit)
    BY PacketsAssumption DEF CallAgain, TwoInv, TypeOK
  <2>4. /\ First'.packet = packet /\ First'.result = result
        /\ First'.headers = headers /\ First'.trace = trace /\ ir' = ir
    BY DEF CallAgain, First
  <2>5. result.outcome # "err"
    BY DEF CallAgain, Bailed
  <2>6. Agrees(packet', packet, result.consumed)
    BY DEF CallAgain, Agrees
  <2> QED BY <2>1, <2>2, <2>3, <2>4, <2>5, <2>6 DEF PastInv
<1> QED BY <1>2, <1>3, <1>4 DEF TwoInv

LEMMA TwoStutter == TwoInv /\ UNCHANGED tvars => TwoInv'
<1> SUFFICES ASSUME TwoInv, UNCHANGED tvars
             PROVE  TwoInv'
  OBVIOUS
<1>1. UNCHANGED vars /\ earlier' = earlier
  BY DEF tvars
<1>2. TypeOK' /\ TileInv'
  BY <1>1, TypeStutter, TileStutter DEF TwoInv
<1>3. Now' = Now /\ ir' = ir /\ packet' = packet
  BY <1>1 DEF vars, Now
<1>4. PresentInv' /\ PastInv'
  BY <1>1, <1>3 DEF TwoInv, PresentInv, PastInv, First
<1> QED BY <1>2, <1>4 DEF TwoInv

LEMMA TwoInvariant == TSpec => []TwoInv
<1>1. TwoInv /\ [TNext]_tvars => TwoInv'
  BY RunGoesOn, CallsAgain, TwoStutter DEF TNext, BothReturned
<1> QED BY <1>1, TwoInit, PTL DEF TSpec

(***************************************************************************)
(* The theorems.                                                           *)
(***************************************************************************)

\* The moments behind two calls that are both over.
LEMMA BothRan ==
  ASSUME TwoInv, Compared
  PROVE  \E m, n \in Nat \ {0} : \E h, g :
           /\ Ran(ir, First.packet, m, h) /\ Ran(ir, packet, n, g) /\ g[n] = Now
           /\ h[m].pc = "done" /\ h[m].result = First.result
           /\ h[m].headers = First.headers /\ h[m].trace = First.trace
           /\ h[m].cursor = First.result.consumed /\ g[n].pc = "done"
           /\ Agrees(packet, First.packet, h[m].cursor)
<1>1. PICK n, g : n \in Nat \ {0} /\ Ran(ir, packet, n, g) /\ g[n] = Now
  BY DEF TwoInv, PresentInv
<1>2. PICK m, h :
        /\ m \in Nat \ {0}
        /\ Ran(ir, First.packet, m, h)
        /\ h[m].pc = "done" /\ h[m].result = First.result
        /\ h[m].headers = First.headers /\ h[m].trace = First.trace
  BY DEF TwoInv, PastInv, Compared
<1>3. Now.pc = "done"
  BY NowIs DEF Compared
<1>4. h[m].cursor = First.result.consumed
  <2>1. WellMade(ir, First.packet, h[m])
    BY <1>2 DEF Ran
  <2>2. First.result.outcome # "err"
    BY DEF TwoInv, PastInv, Compared
  <2> QED BY <1>2, <2>1, <2>2 DEF WellMade
<1>5. Agrees(packet, First.packet, h[m].cursor)
  BY <1>4 DEF TwoInv, PastInv, Compared
<1> QED BY <1>1, <1>2, <1>3, <1>4, <1>5

LEMMA TailDoesNotMatter == TwoInv => TailIsIgnored
<1> SUFFICES ASSUME TwoInv, Compared, ~ FirstWasCut, Avail >= First.result.consumed
             PROVE  result = First.result /\ headers = First.headers /\ trace = First.trace
  BY DEF TailIsIgnored
<1>1. PICK m, n, h, g :
        /\ m \in Nat \ {0} /\ n \in Nat \ {0}
        /\ Ran(ir, First.packet, m, h) /\ Ran(ir, packet, n, g) /\ g[n] = Now
        /\ h[m].pc = "done" /\ h[m].result = First.result
        /\ h[m].headers = First.headers /\ h[m].trace = First.trace
        /\ h[m].cursor = First.result.consumed /\ g[n].pc = "done"
        /\ Agrees(packet, First.packet, h[m].cursor)
  BY BothRan
<1>2. First.packet \in Seq(Bit) /\ packet \in Seq(Bit)
  BY IrFacts DEF TwoInv, PastInv, Compared
<1>3. h[m].result.field = None
  BY <1>1 DEF FirstWasCut
<1>4. h[m].cursor <= Len(packet)
  <2>1. h[m].cursor \in Nat
    <3>1. WellMade(ir, First.packet, h[m]) /\ Len(First.packet) \in Nat
      BY <1>1, <1>2 DEF Ran
    <3> QED BY <3>1 DEF WellMade
  <2> QED BY <1>1, <1>2, <2>1 DEF Avail
<1>5. Now = h[m]
  BY <1>1, <1>2, <1>3, <1>4, SameEnd
<1>6. Now.result = result /\ Now.headers = headers /\ Now.trace = trace
  BY NowIs
<1> QED BY <1>1, <1>5, <1>6

LEMMA GoesOnIsPart ==
  ASSUME NEW h \in ParsedHeader, NEW g \in ParsedHeader, GoesOn(h, g)
  PROVE  PartOf(h, g)
<1> DEFINE a == h.fields
           b == g.fields
           n == Len(h.fields)
<1>1. a \in Seq(ParsedField) /\ b \in Seq(ParsedField)
  BY DEF ParsedHeader
<1>2. n \in Nat /\ Len(b) \in Nat /\ n <= Len(b) /\ \A j \in 1 .. n : b[j] = a[j]
  BY <1>1 DEF GoesOn
<1> HIDE DEF a, b, n
<1>3. \A j \in 1 .. n : a[j] \in ParsedField /\ b[j] \in ParsedField
  <2>1. Len(a) = n
    BY DEF a, n
  <2> QED BY <1>1, <1>2, <2>1
<1> DEFINE x == SubSeq(a, 1, n)
           y == SubSeq(b, 1, n)
<1>4. x \in Seq(ParsedField) /\ Len(x) = n /\ \A j \in 1 .. n : x[j] = a[j]
  <2>1. 1 \in Int /\ n \in Int
    BY <1>2
  <2>2. /\ x \in Seq(ParsedField) /\ Len(x) = (IF 1 <= n THEN n - 1 + 1 ELSE 0)
        /\ \A j \in 1 .. n - 1 + 1 : x[j] = a[1 + j - 1]
    BY <1>3, <2>1, SubSeqProperties
  <2> HIDE DEF x
  <2>3. \A j \in 1 .. n : j \in 1 .. n - 1 + 1 /\ 1 + j - 1 = j
    BY <1>2
  <2> QED BY <1>2, <2>2, <2>3
<1>5. y \in Seq(ParsedField) /\ Len(y) = n /\ \A j \in 1 .. n : y[j] = b[j]
  <2>1. 1 \in Int /\ n \in Int
    BY <1>2
  <2>2. /\ y \in Seq(ParsedField) /\ Len(y) = (IF 1 <= n THEN n - 1 + 1 ELSE 0)
        /\ \A j \in 1 .. n - 1 + 1 : y[j] = b[1 + j - 1]
    BY <1>3, <2>1, SubSeqProperties
  <2> HIDE DEF y
  <2>3. \A j \in 1 .. n : j \in 1 .. n - 1 + 1 /\ 1 + j - 1 = j
    BY <1>2
  <2> QED BY <1>2, <2>2, <2>3
<1> HIDE DEF x, y
<1>6. x = y
  BY <1>2, <1>4, <1>5
<1>7. IsPrefix(a, b)
  BY <1>2, <1>6 DEF IsPrefix, x, y, n, a
<1> QED BY <1>7 DEF PartOf, GoesOn, a, b

LEMMA CutIsReported == TwoInv => TruncationIsCaught
<1> SUFFICES ASSUME TwoInv, Compared, Avail < First.result.consumed
             PROVE  /\ result.outcome = "reject" /\ result.reason = OutOfBounds /\ result.field # None
                    /\ Len(trace) <= Len(First.trace)
                    /\ \A i \in DOMAIN trace : trace[i].state = First.trace[i].state
                    /\ Len(headers) <= Len(First.headers)
                    /\ \A i \in DOMAIN headers : PartOf(headers[i], First.headers[i])
  BY DEF TruncationIsCaught
<1>1. PICK m, n, h, g :
        /\ m \in Nat \ {0} /\ n \in Nat \ {0}
        /\ Ran(ir, First.packet, m, h) /\ Ran(ir, packet, n, g) /\ g[n] = Now
        /\ h[m].pc = "done" /\ h[m].result = First.result
        /\ h[m].headers = First.headers /\ h[m].trace = First.trace
        /\ h[m].cursor = First.result.consumed /\ g[n].pc = "done"
        /\ Agrees(packet, First.packet, h[m].cursor)
  BY BothRan
<1>2. First.packet \in Seq(Bit) /\ packet \in Seq(Bit) /\ First.result.outcome # "err"
  BY IrFacts DEF TwoInv, PastInv, Compared
<1>3. Len(packet) < h[m].cursor
  BY <1>1 DEF Avail
<1>4. PICK j \in 1 .. m : Lacks(ir, packet, h[j]) /\ Now = CutOf(ir, h[j])
  BY <1>1, <1>2, <1>3, CutOnTheWay
<1>5. WellMade(ir, First.packet, h[j]) /\ WellMade(ir, First.packet, h[m]) /\ Grew(h[j], h[m])
  <2>1. m \in 1 .. m
    BY <1>1
  <2> QED BY <1>1, <2>1 DEF Ran
<1>6. h[j].pc = "field" /\ FieldOf(ir, h[j]).name # None
  BY <1>4, <1>5 DEF Lacks, Asks, WellMade
<1>7. /\ result.outcome = "reject" /\ result.reason = OutOfBounds /\ result.field = FieldOf(ir, h[j]).name
      /\ trace = h[j].trace /\ headers = SoFar(h[j])
  <2>1. Now.result = result /\ Now.trace = trace /\ Now.headers = headers
    BY NowIs
  <2>2. Asks(ir, h[j])
    BY <1>4 DEF Lacks
  <2> QED BY <1>4, <1>5, <2>1, <2>2, CutLeaves
<1>8. SoFar(h[m]) = First.headers
  BY <1>1 DEF SoFar
<1>9. SameStates(trace, First.trace) /\ AllGoOn(headers, First.headers)
  BY <1>1, <1>2, <1>5, <1>7, <1>8 DEF Grew
<1>10. ASSUME NEW i \in DOMAIN headers
       PROVE  PartOf(headers[i], First.headers[i])
  <2>1. headers \in Seq(ParsedHeader) /\ First.headers \in Seq(ParsedHeader)
    BY <1>5, <1>7, <1>8 DEF WellMade
  <2>2. i \in DOMAIN First.headers /\ GoesOn(headers[i], First.headers[i])
    BY <1>9, <2>1 DEF AllGoOn
  <2> QED BY <2>1, <2>2, GoesOnIsPart
<1> QED BY <1>6, <1>7, <1>9, <1>10 DEF SameStates, AllGoOn

\* What a complete parse did not consume has no influence on it: for every
\* description and any two packets, whatever follows, the verdict, the headers,
\* the trace and the forensics are the same (run_bits; the vectors' tails).
THEOREM TailsIgnored == TSpec => []TailIsIgnored
BY TwoInvariant, TailDoesNotMatter, PTL

\* A packet cut before the last bit that was consumed is always rejected as out
\* of bounds, with the states and headers the first call had by then.
THEOREM TruncationCaught == TSpec => []TruncationIsCaught
BY TwoInvariant, CutIsReported, PTL

=============================================================================
