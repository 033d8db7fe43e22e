----------------------------- MODULE MCLoadAndRun -----------------------------
(***************************************************************************)
(* LoadAndRun over the samples, the broken ones included, a family of      *)
(* two-state descriptions where an instance is or is not certain, and all  *)
(* three-state graphs of a few extractions and a few transitions, cyclic   *)
(* ones and dead states among them.                                        *)
(***************************************************************************)
EXTENDS LoadAndRun, SampleIrs

CONSTANT MaxBits

MCPackets == UNION {[1 .. n -> Bit] : n \in 0 .. MaxBits}

Moves2 == {Go(To("b")), Select(<<1>>, <<ArmOf(<<V(1)>>, To("b"))>>, To("a")),
           Select(<<2>>, <<ArmOf(<<V(1)>>, Acc)>>, Absent)}
Loads2 == {<<>>, <<Ex("h")>>, <<Ex("h"), Ex("g")>>, <<ExAs("h", "g")>>}

TwoStates ==
  {[exprs |-> <<F("h", "x"), F("g", "y")>>,
    types |-> [h |-> <<Bits("x", 1)>>, g |-> <<Bits("y", 1)>>],
    states |-> sts, order |-> <<"b", "a">>, start |-> "a", max_depth |-> 3] :
   sts \in {[a |-> sa, b |-> sb] : sa, sb \in {St(x, m) : x \in Loads2, m \in Moves2}}}

Moves3 == {Go(Acc), Go(To("a")), Go(To("b")),
           Select(<<1>>, <<ArmOf(<<V(1)>>, To("b"))>>, To("c")),
           Select(<<>>, <<ArmOf(<<>>, To("c"))>>, Acc)}
Loads3 == [a |-> {<<>>, <<Ex("h")>>, <<Ex("g")>>}, b |-> {<<>>, <<Ex("h")>>},
           c |-> {<<>>, <<Ex("h")>>}]

\* The listing order is not the order of the paths, so that one sweep is not
\* enough.
ThreeStates ==
  {[exprs |-> <<F("h", "x")>>,
    types |-> [h |-> <<Bits("x", 1)>>, g |-> <<Bits("y", 1)>>],
    states |-> sts, order |-> <<"c", "a", "b">>, start |-> "a", max_depth |-> 3] :
   sts \in {[a |-> sa, b |-> sb, c |-> sc] :
              sa \in {St(x, m) : x \in Loads3.a, m \in Moves3},
              sb \in {St(x, m) : x \in Loads3.b, m \in Moves3},
              sc \in {St(x, m) : x \in Loads3.c, m \in Moves3}}}

MCIrs == TwoStates \cup ThreeStates \cup GoodIrs \cup BadIrs
         \cup {Misaligned, Forward, Confused, WideShift}
MCConfused == {Confused, Mini}

\* The three-state graphs are there for the sweeps: they are run over two
\* packets only, which take different arms.
MCInit == Init /\ (Len(ir.order) = 3 => packet \in {<<0, 1>>, <<1, 0>>}) /\ VInit
MCSpec == MCInit /\ [][LNext]_lvars /\ WF_lvars(Load \/ Run)
===============================================================================
