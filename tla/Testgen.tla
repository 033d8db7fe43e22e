-------------------------------- MODULE Testgen --------------------------------
(***************************************************************************)
(* The three users of the engine's enumeration, each with the interpreter: *)
(*   testgen  a witness packet of each path is run and has to end the way  *)
(*            the path says (vector_for; replay runs it again)             *)
(*   cov      a captured packet is run and has to be on an enumerated path *)
(*   lint     states and arms without a feasible path are reported         *)
(* The paths, and the packets of a capture, are independent of each other: *)
(* one of them is tried in a behaviour.                                    *)
(***************************************************************************)
EXTENDS Interp, SymEngine

VARIABLE job  \* what is being run, once the paths are enumerated

gvars == <<vars, frames, paths, reached, attempted, feasible, failed, job>>
engine == <<frames, paths, reached, attempted, feasible, failed>>

NoPath == PathOf(<<>>, "none", "", 0, {})
Idle == [kind |-> "none", path |-> NoPath]

GInit ==
  /\ EInit
  /\ packet = <<>> /\ pc = "enter" /\ current = ir.start /\ depth = 0 /\ ex = 0
  /\ parsed = NoHeader /\ cursor = 0 /\ env = <<>> /\ headers = <<>> /\ trace = <<>>
  /\ result = Running
  /\ job = Idle

Enumerate ==
  /\ Walk
  /\ UNCHANGED <<packet, pc, current, depth, ex, parsed, cursor, env, headers, trace, result, job>>

Ready == frames = <<>> /\ ~ failed /\ job = Idle

\* opt.minimize(bit_len): the witnesses the solver may return.
Minimal(packets) == {p \in packets : \A q \in packets : Len(p) <= Len(q)}

\* vector_for a path: the witness is written as bits and run.
MakeVector ==
  /\ Ready
  /\ \E p \in paths : \E w \in Minimal(p.packets) :
       job' = [kind |-> "vector", path |-> p] /\ packet' = w
  /\ UNCHANGED <<ir, pc, current, depth, ex, parsed, cursor, env, headers, trace, result>>
  /\ UNCHANGED engine

\* "engine bug: enumerated path is UNSAT"
Unsatisfiable ==
  /\ Ready
  /\ \E p \in paths : p.packets = {} /\ job' = [kind |-> "unsat", path |-> p]
  /\ UNCHANGED vars
  /\ UNCHANGED engine

\* A capture holds whole bytes.
CoverPacket ==
  /\ Ready
  /\ packet' \in {p \in Packets : Len(p) % ByteBits = 0}
  /\ job' = [Idle EXCEPT !.kind = "packet"]
  /\ UNCHANGED <<ir, pc, current, depth, ex, parsed, cursor, env, headers, trace, result>>
  /\ UNCHANGED engine

Interpret ==
  /\ job.kind \in {"vector", "packet"}
  /\ Step
  /\ UNCHANGED job
  /\ UNCHANGED engine

Over ==
  /\ frames = <<>> /\ (pc = "done" \/ failed \/ job.kind = "unsat")
  /\ UNCHANGED gvars

GNext == Enumerate \/ MakeVector \/ Unsatisfiable \/ CoverPacket \/ Interpret \/ Over
GSpec == GInit /\ [][GNext]_gvars /\ WF_gvars(Enumerate \/ MakeVector \/ Unsatisfiable \/ Interpret)

(***************************************************************************)
(* pathid::path_id: the path of an interpreter run, from its result.  The  *)
(* code rebuilds the environment from the headers; EnvIsLastRead is what   *)
(* makes that the interpreter's own.                                       *)
(***************************************************************************)
StepWalked(i) ==
  ~ (i = Len(trace) /\ trace[i].decision = Undecided /\ result.reason = MaxDepthExceeded)

\* The extractions of the walked steps, in order, with the step they belong to.
TracedExtracts ==
  FlattenSeq([i \in DOMAIN trace |->
    IF ~ StepWalked(i) THEN <<>>
    ELSE [k \in DOMAIN ir.states[trace[i].state].extracts |->
            [step |-> i, ext |-> ir.states[trace[i].state].extracts[k]]]])

\* The fields of the extractions that the k-th header does not have.
MissingFields ==
  LET fields == [k \in DOMAIN TracedExtracts |-> ir.types[TracedExtracts[k].ext.type]]
      missing == [k \in DOMAIN fields |->
        {j \in DOMAIN fields[k] :
           k \in DOMAIN headers => \A f \in ToSet(headers[k].fields) : f.name # fields[k][j].name}]
  IN  UNION {{<<k, j>> : j \in missing[k]} : k \in DOMAIN fields}
FirstMissing == CHOOSE p \in MissingFields : \A q \in MissingFields : p = q \/ Before(p, q)

\* Mutant: the boundary depends on the cursor.
MissedSegmentByPosition(ext, fld) ==
  <<IF fld.width = "bytes" /\ cursor + ByteBits * EvalExpr(ir, fld.n, env) > ByteBits * BoundBytes(fld.n)
    THEN "!oob" ELSE "!trunc", Instance(ext), fld.name>>

\* The segment of a field that was not read.
MissedSegment(ext, fld) ==
  <<IF fld.width = "bytes" /\ EvalExpr(ir, fld.n, env) > BoundBytes(fld.n) THEN "!oob" ELSE "!trunc",
    Instance(ext), fld.name>>

DecisionSegment(d) ==
  CASE d.kind = "arm" -> <<<<"arm", d.arm>>>>
    [] d.kind = "default" -> <<<<"default">>>>
    [] OTHER -> <<>>

StepSegments(i) ==
  <<<<"state", trace[i].state>>>> \o DecisionSegment(trace[i].decision)

PathId ==
  IF MissingFields = {} THEN FlattenSeq([i \in DOMAIN trace |-> StepSegments(i)])
  ELSE LET x == TracedExtracts[FirstMissing[1]]
       IN  FlattenSeq([i \in 1 .. x.step - 1 |-> StepSegments(i)])
             \o <<<<"state", trace[x.step].state>>,
                  MissedSegment(x.ext, ir.types[x.ext.type][FirstMissing[2]])>>

(***************************************************************************)
(* lint: its findings, from the log of the enumeration.                    *)
(***************************************************************************)
UnreachableStates == DOMAIN ir.states \ reached
UnsatisfiableArms == attempted \ feasible

(***************************************************************************)
(* Properties.                                                             *)
(***************************************************************************)
Ran(kind) == job.kind = kind /\ pc = "done" /\ ~ Bailed

\* The interpreter agrees with the path's own expectation.
Agrees ==
  /\ result.outcome = IF job.path.kind = "accept" THEN "accept" ELSE "reject"
  /\ job.path.kind # "accept" => result.reason = job.path.reason

\* "The interpreter must agree with the path's own expectation - any mismatch
\* is a soundness bug in engine or interpreter" (testgen.rs:37-38).  And not by
\* chance: a witness goes through exactly the states, arms and cut that name
\* its path, with a shortest packet of all that do, however the solver chooses
\* the bits it is free to choose.
WitnessTakesItsPath == Ran("vector") => Agrees /\ PathId = job.path.id

\* No state is entered more often than the engine unrolls it.
WithinUnrolling ==
  \A s \in CyclicStates : Cardinality({i \in DOMAIN trace : trace[i].state = s}) <= LoopUnroll

\* The engine is complete up to its unrolling: a captured packet is on a path
\* it enumerated ("packet mapped to unknown path - pathid/engine divergence",
\* cov.rs:30).  path_id of the run and the segments of the engine agree on every
\* cut, bound, arm and loop.
PacketIsCoveredIfUnrolled ==
  WithinUnrolling /\ Ran("packet") => PathId \in {p.id : p \in paths}

\* As far as loops are unrolled, what lint calls unreachable or unsatisfiable no
\* packet reaches or takes.
LintIsSoundIfUnrolled ==
  WithinUnrolling /\ job.kind = "packet" =>
    \A i \in DOMAIN trace :
      /\ trace[i].state \in UnreachableStates => i = Len(trace) /\ result.reason = MaxDepthExceeded
      /\ trace[i].decision.kind = "arm" =>
           <<trace[i].state, trace[i].decision.arm>> \notin UnsatisfiableArms
================================================================================
