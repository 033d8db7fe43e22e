------------------------------ MODULE MCBackends ------------------------------
(***************************************************************************)
(* Backends over frames of up to MaxBytes bytes, and the descriptions that *)
(* the generators accept or refuse for one reason or another.              *)
(***************************************************************************)
EXTENDS Backends, EngineIrs

CONSTANT MaxBytes

MCFrames == UNION {[1 .. ByteBits * n -> Bit] : n \in 0 .. MaxBytes}

\* Two fixed segments around a body, in a header cut into three members.
Three == IrOf(<<F("h", "n")>>,
  [h |-> <<Bits("n", 2), Bytes("body", 1), Bits("u", 1), Bits("v", 1)>>, g |-> <<Bits("y", 2)>>],
  [a |-> St(<<Ex("h")>>, Select(<<1>>, <<ArmOf(<<V(2)>>, Rej("two"))>>, To("b"))),
   b |-> St(<<Ex("g")>>, Go(Acc))],
  <<"a", "b">>, 2)

\* A loop with a reject as default, deep enough for every frame, or not.
Tags == IrOf(<<F("t", "m")>>, [tag |-> <<Bits("m", 1), Bits("v", 1)>>],
  [loop |-> St(<<ExAs("tag", "t")>>, Select(<<1>>, <<ArmOf(<<V(1)>>, To("loop"))>>, Rej("end")))],
  <<"loop">>, 4)

\* Every operator in a length or a key of its own state.
Keyed == IrOf(<<F("h", "x"), F("h", "y"), C(1), C(2),
                B("shl", 3, 2), B("or", 5, 4), B("add", 2, 1), B("and", 7, 4), B("shr", 2, 3)>>,
  [h |-> <<Bits("x", 2), Bits("y", 2), Bytes("body", 9)>>],
  [a |-> St(<<Ex("h")>>, Select(<<6, 8>>, <<ArmOf(<<Range2(2, 6), V(2)>>, Acc)>>, RejInfo("rest")))],
  <<"a">>, 2)

\* The second state selects on a range of a field of the first one's header.
Ordered == IrOf(<<F("h", "x")>>, [h |-> <<Bits("x", 2)>>],
  [a |-> St(<<Ex("h")>>, Go(To("b"))),
   b |-> St(<<>>, Select(<<1>>, <<ArmOf(<<Range2(1, 2)>>, Acc)>>, RejInfo("other")))],
  <<"a", "b">>, 2)

\* Graphs of three states that are entered at any bit of a byte; only c has a
\* variable-length field.
Ways == {Go(To("b")), Go(To("c")),
         Select(<<1>>, <<ArmOf(<<V(1)>>, To("a")), ArmOf(<<V(0)>>, To("c"))>>, Absent),
         Select(<<1>>, <<ArmOf(<<V(1)>>, To("b"))>>, To("c")),
         Select(<<1>>, <<ArmOf(<<V(1)>>, To("a"))>>, Acc)}

Graphs == {IrOf(<<F("h", "x")>>,
    [h |-> <<Bits("x", 1)>>, g |-> <<Bits("y", 1)>>, o |-> <<Bits("z", 1), Bytes("body", 1)>>],
    [a |-> St(xs[1], w[1]), b |-> St(xs[2], w[2]), c |-> St(<<Ex("h"), Ex("o")>>, w[3])],
    <<"a", "b", "c">>, 3) :
  xs \in [1 .. 2 -> {<<Ex("h")>>, <<Ex("h"), Ex("g")>>}], w \in [1 .. 3 -> Ways]}

MCIrs == GoodIrs \cup Family \cup FamilyOf(2) \cup Graphs \cup Untargeted
         \cup {Hollow, Three, Tags, [Tags EXCEPT !.max_depth = 2], Keyed, Ordered}
===============================================================================
