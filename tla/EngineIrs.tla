------------------------------- MODULE EngineIrs -------------------------------
(***************************************************************************)
(* Descriptions for the symbolic engine and the backends: a family of      *)
(* two-state loops, and some that the engine has to give up on.            *)
(***************************************************************************)
EXTENDS SampleIrs

\* A length that a select forces to wrap: no packet gets over the body.
Hollow == IrOf(<<F("h", "n"), C(1), B("sub", 1, 2)>>,
  [h |-> <<Bits("n", 2)>>, o |-> <<Bytes("body", 3), Bits("p", 2)>>],
  [s |-> St(<<Ex("h")>>, Select(<<1>>, <<ArmOf(<<V(0)>>, To("t"))>>, Acc)),
   t |-> St(<<Ex("o")>>, Go(Acc))],
  <<"s", "t">>, 2)

\* A key and a length that name a field nobody extracted.
NoKey == OneState(<<F("g", "x")>>, H2, St(<<Ex("h")>>, Select(<<1>>, <<ArmOf(<<V(1)>>, Acc)>>, Rej("no"))), 1)
NoLength == OneState(<<F("h", "y")>>, [h |-> <<Bits("x", 2), Bytes("y", 1)>>], St(<<Ex("h")>>, Go(Acc)), 1)

\* One instance extracted twice in a state: two cuts have one name.
Twice == OneState(<<>>, [h |-> <<Bits("x", 1)>>], St(<<Ex("h"), Ex("h")>>, Go(Acc)), 1)

\* Arms without a target, and targets nobody set, some of them where no packet
\* gets to.
Untargeted == {OneState(<<F("h", "x")>>, H2, St(<<Ex("h")>>, tr), 1) : tr \in {
  Select(<<1>>, <<ArmOf(<<V(1)>>, Absent)>>, Acc),
  Select(<<1>>, <<ArmOf(<<V(1)>>, EmptyTarget)>>, Absent),
  Select(<<1>>, <<ArmOf(<<V(1)>>, Acc)>>, EmptyTarget),
  Select(<<1>>, <<ArmOf(<<V(1)>>, Acc), ArmOf(<<V(1)>>, Absent)>>, Rej("no")),
  Select(<<1>>, <<ArmOf(<<Masked(0, 0)>>, Acc)>>, EmptyTarget),
  Go(EmptyTarget)}}

Moves == {Go(Acc), Go(To("a")), Go(To("b")),
          Select(<<1>>, <<ArmOf(<<V(1)>>, To("b")), ArmOf(<<Range2(1, 2)>>, Acc)>>, Absent),
          Select(<<1, 2>>, <<ArmOf(<<V(3), V(1)>>, To("a")), ArmOf(<<Masked(1, 1), V(0)>>, Rej("odd"))>>,
                 To("b"))}

\* Two states in any arrangement; y, of n bits, is last read in a or in b.
FamilyOf(n) == {IrOf(<<F("h", "x"), F("g", "y"), F("h", "x"), C(1), B("shr", 3, 4)>>,
    [h |-> <<Bits("x", 2), Bytes("body", e)>>, g |-> <<Bits("y", n)>>],
    [a |-> St(<<Ex("h"), Ex("g")>>, ma), b |-> St(xb, mb)], <<"a", "b">>, 3) :
  e \in {4, 5}, ma \in Moves, mb \in Moves, xb \in {<<>>, <<Ex("g")>>, <<Ex("h")>>}}
Family == FamilyOf(1)
================================================================================
