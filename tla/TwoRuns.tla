-------------------------------- MODULE TwoRuns --------------------------------
(***************************************************************************)
(* Two calls of run_bits with one description: the second packet agrees    *)
(* with the first on the bits the first parse consumed, as far as the      *)
(* second is long enough.  It may be cut anywhere and go on in any way     *)
(* after them: a capture's snap length, padding, another payload.  The CLI *)
(* and the test-vector suites run packet after packet like this, and       *)
(* testgen's truncated vectors rest on what is claimed here.               *)
(***************************************************************************)
EXTENDS Interp, SequencesExt

VARIABLE earlier  \* <<>>, or what the first call was given and returned

tvars == <<vars, earlier>>

TInit == Init /\ earlier = <<>>

FirstOrSecond == Step /\ UNCHANGED earlier

\* run_bits keeps nothing between calls: the second starts as the first did.
CallAgain ==
  /\ pc = "done"
  /\ earlier = <<>>
  /\ ~ Bailed
  /\ earlier' = <<[packet |-> packet, headers |-> headers, trace |-> trace, result |-> result]>>
  /\ packet' \in {p \in Packets : \A i \in 1 .. result.consumed : i <= Len(p) => p[i] = packet[i]}
  /\ pc' = "enter" /\ current' = ir.start /\ depth' = 0 /\ ex' = 0
  /\ parsed' = NoHeader /\ cursor' = 0 /\ env' = <<>>
  /\ headers' = <<>> /\ trace' = <<>> /\ result' = Running
  /\ UNCHANGED ir

BothReturned ==
  /\ pc = "done" /\ (earlier # <<>> \/ Bailed)
  /\ UNCHANGED tvars

TNext == FirstOrSecond \/ CallAgain \/ BothReturned

\* A call runs to its return, and the next packet is taken.
TSpec == TInit /\ [][TNext]_tvars /\ WF_tvars(FirstOrSecond \/ CallAgain)

(***************************************************************************)
(* Properties of the second call, compared with the first.                 *)
(***************************************************************************)
Compared == earlier # <<>> /\ pc = "done" /\ ~ Bailed
First == earlier[1]
FirstWasCut == First.result.field # None

\* The headers two parses have in common: h is as much of g as was read.
PartOf(h, g) ==
  /\ h.instance = g.instance /\ h.start = g.start
  /\ IsPrefix(h.fields, g.fields)

\* What a complete parse did not consume, it did not look at: any other tail,
\* or none, gives the same verdict, headers, trace and forensics.
TailIsIgnored ==
  Compared /\ ~ FirstWasCut /\ Avail >= First.result.consumed =>
    /\ result = First.result
    /\ headers = First.headers
    /\ trace = First.trace

\* Every bit a parse consumed was needed: cut the packet before the last of
\* them, at any bit, and the parse is rejected as out of bounds in a state the
\* first one went through, having read part of the same headers.  With the
\* calls exchanged: more bits only continue a parse that was cut.
TruncationIsCaught ==
  Compared /\ Avail < First.result.consumed =>
    /\ result.outcome = "reject" /\ result.reason = OutOfBounds /\ result.field # None
    /\ Len(trace) <= Len(First.trace)
    /\ \A i \in DOMAIN trace : trace[i].state = First.trace[i].state
    /\ Len(headers) <= Len(First.headers)
    /\ \A i \in DOMAIN headers : PartOf(headers[i], First.headers[i])

=============================================================================
