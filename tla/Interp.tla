-------------------------------- MODULE Interp --------------------------------
(***************************************************************************)
(* The reference interpreter, interp::run_bits: one parser description is  *)
(* run over one packet.  "What this module does *is* what an IR            *)
(* description means" (src/src/interp/mod.rs:1-2).                         *)
(*                                                                         *)
(* The loop over states, the loop over a state's extracts and the loop     *)
(* over a header type's fields are unrolled into one action per iteration, *)
(* and every early return is an action of its own.                         *)
(*                                                                         *)
(* A definition marked "Mutant" is a plausible bug in the definition that  *)
(* follows it; no specification uses it (README, "Mutants").               *)
(***************************************************************************)
EXTENDS GivenIr, FiniteSets

CONSTANT Packets  \* the inputs: sequences of bits, of any bit length

ASSUME PacketsAssumption == Packets \subseteq Seq(Bit)

VARIABLES
  packet,      \* the argument beside ir; avail_bits is Len(packet)
  pc,          \* where in the loops the run is
  current,     \* the state being visited
  depth,       \* how many states were entered
  ex,          \* how many extracts of that state are finished
  parsed,      \* the header under construction
  cursor,      \* cursor_bits
  env,         \* <<instance, field>> -> the bits last read for it
  headers,     \* the headers finished so far
  trace,       \* one step per state entered, with the decision taken there
  result       \* what run_bits returned

vars == <<ir, packet, pc, current, depth, ex, parsed, cursor, env, headers, trace, result>>

None == "-"  \* no instance, field or header type

\* None is no name: it stands for the Nones of ParseError's options.
ASSUME NoneAssumption ==
  \A i \in Irs : \A t \in DOMAIN i.types : \A k \in DOMAIN i.types[t] :
    i.types[t][k].name # None

Avail == Len(packet)
Slice(from, n) == SubSeq(packet, from + 1, from + n)

(***************************************************************************)
(* What a run builds.                                                      *)
(***************************************************************************)
ParsedField == [name : STRING, offset : Nat, bits : Seq(Bit), fixed : BOOLEAN]
ParsedHeader == [instance : STRING, type : STRING, start : Nat, fields : Seq(ParsedField)]

Decision == [kind : {"arm", "default", "direct", "none"}, arm : Nat]
TraceStep == [state : STRING, decision : Decision]
Undecided == [kind |-> "none", arm |-> 0]

\* accept and reject are Ok(ParseResult); err is Err(_).  The error record is
\* ParseError, whose bit_offset is always consumed.
Result == [outcome : {"running", "accept", "reject", "err"}, consumed : Nat,
           state : STRING, instance : STRING, field : STRING,
           reason : STRING, info : BOOLEAN]

Running == [outcome |-> "running", consumed |-> 0, state |-> None, instance |-> None,
            field |-> None, reason |-> None, info |-> FALSE]

NoHeader == [instance |-> None, type |-> None, start |-> 0, fields |-> <<>>]

OutOfBounds == "out of bounds"
MaxDepthExceeded == "max depth exceeded"
NoMatch == "no matching select arm"

\* True of any strings; the provers do not know it of literals.
ASSUME NamesAreStrings == {None, OutOfBounds, MaxDepthExceeded, NoMatch} \subseteq STRING

(***************************************************************************)
(* Early returns.                                                          *)
(***************************************************************************)
Reject(reason, instance, field, info) ==
  /\ pc' = "done"
  /\ result' = [outcome |-> "reject", consumed |-> cursor, state |-> current,
                instance |-> instance, field |-> field, reason |-> reason, info |-> info]

\* Mutant: everything counts as consumed.
AcceptAll ==
  /\ pc' = "done"
  /\ result' = [Running EXCEPT !.outcome = "accept", !.consumed = Avail]

Accept ==
  /\ pc' = "done"
  /\ result' = [Running EXCEPT !.outcome = "accept", !.consumed = cursor]

\* Err(_): the result is dropped with everything in it.
Bail ==
  /\ pc' = "done"
  /\ result' = [Running EXCEPT !.outcome = "err"]

(***************************************************************************)
(* Entering a state.                                                       *)
(***************************************************************************)
Entered == Append(trace, [state |-> current, decision |-> Undecided])

\* Mutant: the depth is compared before it is counted.
WithinDepthUncounted == depth <= ir.max_depth

WithinDepth == depth + 1 <= ir.max_depth

\* Mutant: no check that the state exists.
AnyState == TRUE

KnownState == current \in DOMAIN ir.states

EnterState ==
  /\ pc = "enter"
  /\ WithinDepth
  /\ KnownState
  /\ depth' = depth + 1
  /\ trace' = Entered
  /\ ex' = 0
  /\ pc' = "extract"
  /\ UNCHANGED <<ir, packet, current, parsed, cursor, env, headers, result>>

DepthExceeded ==
  /\ pc = "enter"
  /\ ~ WithinDepth
  /\ depth' = depth + 1
  /\ trace' = Entered
  /\ Reject(MaxDepthExceeded, None, None, FALSE)
  /\ UNCHANGED <<ir, packet, current, ex, parsed, cursor, env, headers>>

UnknownState ==
  /\ pc = "enter"
  /\ WithinDepth
  /\ ~ KnownState
  /\ depth' = depth + 1
  /\ trace' = Entered
  /\ Bail
  /\ UNCHANGED <<ir, packet, current, ex, parsed, cursor, env, headers>>

(***************************************************************************)
(* Extracting the headers of the current state.                            *)
(***************************************************************************)
Extracts == ir.states[current].extracts
Extracting == pc = "extract" /\ ex < Len(Extracts)

BeginHeader ==
  /\ Extracting
  /\ LET e == Extracts[ex + 1]
     IN  /\ e.type \in DOMAIN ir.types
         /\ parsed' = [instance |-> Instance(e), type |-> e.type,
                       start |-> cursor, fields |-> <<>>]
  /\ pc' = "field"
  /\ UNCHANGED <<ir, packet, current, depth, ex, cursor, env, headers, trace, result>>

UnknownHeaderType ==
  /\ Extracting
  /\ Extracts[ex + 1].type \notin DOMAIN ir.types
  /\ Bail
  /\ UNCHANGED <<ir, packet, current, depth, ex, parsed, cursor, env, headers, trace>>

\* The field to read next, and the fields of the header that are left.
Fields == ir.types[parsed.type]
NextField == Fields[Len(parsed.fields) + 1]
Reading(width) ==
  /\ pc = "field"
  /\ Len(parsed.fields) < Len(Fields)
  /\ NextField.width = width

\* Mutant: the place is taken after the cursor has moved.
TakeFieldMoved(n, fixed) ==
  /\ parsed' = [parsed EXCEPT !.fields =
                  Append(@, [name |-> NextField.name, offset |-> cursor + n,
                             bits |-> Slice(cursor, n), fixed |-> fixed])]
  /\ cursor' = cursor + n

\* Both kinds of field are recorded with their place and their bits.
TakeField(n, fixed) ==
  /\ parsed' = [parsed EXCEPT !.fields =
                  Append(@, [name |-> NextField.name, offset |-> cursor,
                             bits |-> Slice(cursor, n), fixed |-> fixed])]
  /\ cursor' = cursor + n

\* Mutant: the forensics name the header type.
FieldOutOfBoundsOfType ==
  /\ headers' = Append(headers, parsed)
  /\ Reject(OutOfBounds, parsed.type, NextField.name, FALSE)
  /\ UNCHANGED <<ir, packet, current, depth, ex, parsed, cursor, env, trace>>

\* A header cut short is reported as far as it got.
FieldOutOfBounds ==
  /\ headers' = Append(headers, parsed)
  /\ Reject(OutOfBounds, parsed.instance, NextField.name, FALSE)
  /\ UNCHANGED <<ir, packet, current, depth, ex, parsed, cursor, env, trace>>

ReadBits ==
  /\ Reading("bits")
  /\ cursor + NextField.n <= Avail
  /\ TakeField(NextField.n, TRUE)
  /\ env' = Insert(env, <<parsed.instance, NextField.name>>, Slice(cursor, NextField.n))
  /\ UNCHANGED <<ir, packet, pc, current, depth, ex, headers, trace, result>>

ReadBitsOutOfBounds ==
  /\ Reading("bits")
  /\ cursor + NextField.n > Avail
  /\ FieldOutOfBounds

\* The length of a variable-length field, in bytes; only its feasibility is
\* checked against the packet, so a wrapped length is out of bounds.
LenBytes == EvalExpr(ir, NextField.n, env)
Aligned == cursor % ByteBits = 0

\* Mutant: a length past the end is clamped to what is there.
ReadBytesClamped ==
  /\ Reading("bytes")
  /\ LenBytes \in Word
  /\ Aligned
  /\ TakeField(IF cursor + LenBytes * ByteBits <= Avail THEN LenBytes * ByteBits
               ELSE Avail - cursor, FALSE)
  /\ UNCHANGED <<ir, packet, pc, current, depth, ex, env, headers, trace, result>>

ReadBytes ==
  /\ Reading("bytes")
  /\ LenBytes \in Word
  /\ Aligned
  /\ cursor + LenBytes * ByteBits <= Avail
  /\ TakeField(LenBytes * ByteBits, FALSE)
  /\ UNCHANGED <<ir, packet, pc, current, depth, ex, env, headers, trace, result>>

ReadBytesOutOfBounds ==
  /\ Reading("bytes")
  /\ LenBytes \in Word
  /\ Aligned
  /\ cursor + LenBytes * ByteBits > Avail
  /\ FieldOutOfBounds

\* Mutant: off a byte boundary the run stops without returning.
ReadBytesPanics ==
  /\ Reading("bytes")
  /\ LenBytes \notin Word
  /\ Bail
  /\ UNCHANGED <<ir, packet, current, depth, ex, parsed, cursor, env, headers, trace>>

\* eval_expr fails, or the field starts off a byte boundary.
ReadBytesBails ==
  /\ Reading("bytes")
  /\ LenBytes \notin Word \/ ~ Aligned
  /\ Bail
  /\ UNCHANGED <<ir, packet, current, depth, ex, parsed, cursor, env, headers, trace>>

FieldWithoutWidth ==
  /\ Reading("none")
  /\ Bail
  /\ UNCHANGED <<ir, packet, current, depth, ex, parsed, cursor, env, headers, trace>>

EndHeader ==
  /\ pc = "field"
  /\ Len(parsed.fields) = Len(Fields)
  /\ headers' = Append(headers, parsed)
  /\ ex' = ex + 1
  /\ parsed' = NoHeader
  /\ pc' = "extract"
  /\ UNCHANGED <<ir, packet, current, depth, cursor, env, trace, result>>

(***************************************************************************)
(* Taking the transition.                                                  *)
(***************************************************************************)
Trans == ir.states[current].trans
Extracted == pc = "extract" /\ ex = Len(Extracts)
MatchedArms == MatchingArms(Trans, Keys(ir, Trans, env))

\* trace.last_mut().decision is set before the target is looked at.
Decide(kind, arm) ==
  trace' = [trace EXCEPT ![Len(trace)].decision = [kind |-> kind, arm |-> arm]]

Follow(target) ==
  CASE target.kind = "state" ->
         current' = target.to /\ pc' = "enter" /\ UNCHANGED result
    [] target.kind = "accept" -> Accept /\ UNCHANGED current
    [] target.kind = "reject" -> Reject(target.to, None, None, target.info) /\ UNCHANGED current
    [] OTHER -> Bail /\ UNCHANGED current

Transit(kind, arm, target) ==
  /\ Decide(kind, arm)
  /\ Follow(target)
  /\ UNCHANGED <<ir, packet, depth, ex, parsed, cursor, env, headers>>

Direct ==
  /\ Extracted
  /\ Trans.kind = "direct"
  /\ Transit("direct", 0, Trans.default)

\* Mutant: the last arm that matches.
TakeLastArm ==
  /\ Extracted
  /\ Trans.kind = "select"
  /\ KeysResolve(ir, Trans, env)
  /\ \E i \in MatchedArms :
       /\ \A j \in MatchedArms : i >= j
       /\ Transit("arm", i, Trans.arms[i].next)

\* The first arm whose entries all match.
TakeArm ==
  /\ Extracted
  /\ Trans.kind = "select"
  /\ KeysResolve(ir, Trans, env)
  /\ \E i \in MatchedArms :
       /\ \A j \in MatchedArms : i <= j
       /\ Transit("arm", i, Trans.arms[i].next)

TakeDefault ==
  /\ Extracted
  /\ Trans.kind = "select"
  /\ KeysResolve(ir, Trans, env)
  /\ MatchedArms = {}
  /\ Trans.default.kind # "absent"
  /\ Transit("default", 0, Trans.default)

NoMatchingArm ==
  /\ Extracted
  /\ Trans.kind = "select"
  /\ KeysResolve(ir, Trans, env)
  /\ MatchedArms = {}
  /\ Trans.default.kind = "absent"
  /\ Decide("default", 0)
  /\ Reject(NoMatch, None, None, FALSE)
  /\ UNCHANGED <<ir, packet, current, depth, ex, parsed, cursor, env, headers>>

\* A key does not evaluate, or the state has no transition.
TransitionBails ==
  /\ Extracted
  /\ \/ Trans.kind = "none"
     \/ Trans.kind = "select" /\ ~ KeysResolve(ir, Trans, env)
  /\ Bail
  /\ UNCHANGED <<ir, packet, current, depth, ex, parsed, cursor, env, headers, trace>>

(***************************************************************************)
(* The specification.                                                      *)
(***************************************************************************)
Init ==
  /\ ir \in Irs
  /\ packet \in Packets
  /\ pc = "enter"
  /\ current = ir.start
  /\ depth = 0
  /\ ex = 0
  /\ parsed = NoHeader
  /\ cursor = 0
  /\ env = <<>>
  /\ headers = <<>>
  /\ trace = <<>>
  /\ result = Running

Enter == EnterState \/ DepthExceeded \/ UnknownState
ExtractHeader == BeginHeader \/ UnknownHeaderType \/ EndHeader
ReadField ==
  \/ ReadBits \/ ReadBitsOutOfBounds
  \/ ReadBytes \/ ReadBytesOutOfBounds \/ ReadBytesBails
  \/ FieldWithoutWidth
TakeTransition == Direct \/ TakeArm \/ TakeDefault \/ NoMatchingArm \/ TransitionBails

Step == Enter \/ ExtractHeader \/ ReadField \/ TakeTransition

\* run_bits has returned.
Returned == pc = "done" /\ UNCHANGED vars

Next == Step \/ Returned

\* The interpreter runs on its caller's thread and never waits.
Spec == Init /\ [][Next]_vars /\ WF_vars(Step)

(***************************************************************************)
(* Properties.                                                             *)
(***************************************************************************)

\* Every variable has the type the code gives it; the header under
\* construction is one of the description's exactly while its fields are read.
TypeOK ==
  /\ ir \in Irs
  /\ packet \in Packets
  /\ pc \in {"enter", "extract", "field", "done"}
  /\ current \in STRING
  /\ depth \in Nat
  /\ ex \in Nat
  /\ parsed \in ParsedHeader
  /\ cursor \in 0 .. Avail
  /\ DOMAIN env \subseteq STRING \X STRING
  /\ env \in [DOMAIN env -> Seq(Bit)]
  /\ headers \in Seq(ParsedHeader)
  /\ trace \in Seq(TraceStep)
  /\ result \in Result
  /\ pc \in {"extract", "field"} => current \in DOMAIN ir.states /\ trace # <<>>
  /\ pc = "field" => /\ ex < Len(Extracts)
                     /\ parsed.type \in DOMAIN ir.types
                     /\ Len(parsed.fields) <= Len(Fields)
  /\ pc = "extract" => ex <= Len(Extracts)

\* Err(_) returns no headers: the properties below are about the others.
Bailed == result.outcome = "err"

\* The headers as far as they are read, the unfinished one included.
HeadersSoFar == IF pc = "field" THEN Append(headers, parsed) ELSE headers

EndOf(h) == IF h.fields = <<>> THEN h.start
            ELSE LET f == h.fields[Len(h.fields)] IN f.offset + Len(f.bits)

\* Within a header, each field starts where the one before it ended and holds
\* the packet's bits at that place.
HeaderIsContiguous(h) ==
  \A j \in DOMAIN h.fields :
    LET f == h.fields[j]
    IN  /\ f.offset + Len(f.bits) <= Avail
        /\ f.bits = Slice(f.offset, Len(f.bits))
        /\ f.offset = IF j = 1 THEN h.start
                      ELSE h.fields[j - 1].offset + Len(h.fields[j - 1].bits)

\* The extracted fields tile the packet from bit 0 to the cursor: no bit is
\* skipped, read twice or reported with another value, whatever mix of
\* fixed and variable-length fields, loops and truncation produced them
\* (the offsets and values of ParsedField and consumed_bits).
TilesPacket ==
  ~ Bailed =>
    /\ \A i \in DOMAIN HeadersSoFar :
         /\ HeaderIsContiguous(HeadersSoFar[i])
         /\ HeadersSoFar[i].start = IF i = 1 THEN 0 ELSE EndOf(HeadersSoFar[i - 1])
    /\ cursor = IF HeadersSoFar = <<>> THEN 0 ELSE EndOf(HeadersSoFar[Len(HeadersSoFar)])
    /\ pc = "done" => result.consumed = cursor

\* The places of fixed-width fields read so far, and the one read last for a
\* given <<instance, field>>.
FixedReads == {p \in UNION {{<<i, j>> : j \in DOMAIN HeadersSoFar[i].fields} :
                              i \in DOMAIN HeadersSoFar} :
                 HeadersSoFar[p[1]].fields[p[2]].fixed}
KeyOf(p) == <<HeadersSoFar[p[1]].instance, HeadersSoFar[p[1]].fields[p[2]].name>>
Before(p, q) == p[1] < q[1] \/ (p[1] = q[1] /\ p[2] < q[2])
LastReads == {p \in FixedReads : \A q \in FixedReads : KeyOf(q) = KeyOf(p) => ~ Before(p, q)}

\* Expressions see, for each instance and field, exactly the value the result
\* reports last: the environment and the header list never drift apart, also
\* when a loop extracts an instance again and is cut short half way.
EnvIsLastRead ==
  ~ Bailed =>
    /\ DOMAIN env = {KeyOf(p) : p \in LastReads}
    /\ \A p \in LastReads : env[KeyOf(p)] = HeadersSoFar[p[1]].fields[p[2]].bits

\* Only the last header may lack fields, and only if the run ended inside it:
\* then the error names that header's instance and its first missing field,
\* and the packet really ends before the end of that field.
ForensicsExact ==
  LET cut == result.outcome = "reject" /\ result.field # None
      full(h) == Len(h.fields) = Len(ir.types[h.type])
  IN  /\ \A i \in DOMAIN headers : full(headers[i]) \/ (cut /\ i = Len(headers))
      /\ cut =>
           LET h == headers[Len(headers)]
               f == ir.types[h.type][Len(h.fields) + 1]
           IN  /\ ~ full(h)
               /\ result.instance = h.instance
               /\ result.field = f.name
               /\ result.reason = OutOfBounds
               /\ result.consumed + (IF f.width = "bits" THEN f.n
                                     ELSE ByteBits * EvalExpr(ir, f.n, env)) > Avail

\* The target a decision recorded in the trace stands for.
TargetOf(step) ==
  LET trans == ir.states[step.state].trans
  IN  IF step.decision.kind = "arm" THEN trans.arms[step.decision.arm].next
      ELSE trans.default

\* The trace is the path the run took: it starts at the start state, each
\* decision in it leads to the next state of it, only its last step may be
\* undecided, and it has one step for each state entered, never more than
\* one beyond the description's depth bound.
TraceIsPath ==
  /\ Len(trace) = depth
  /\ depth <= ir.max_depth + 1
  /\ trace # <<>> => trace[1].state = ir.start
  /\ \A i \in 2 .. Len(trace) :
       /\ trace[i - 1].decision # Undecided
       /\ TargetOf(trace[i - 1]).kind = "state"
       /\ trace[i].state = TargetOf(trace[i - 1]).to
  /\ result.outcome = "accept" => TargetOf(trace[Len(trace)]).kind = "accept"

\* Every run returns: the depth bound cuts every loop of the description.
Terminates == <>(pc = "done")
===============================================================================
