------------------------------ MODULE SampleIrs ------------------------------
(***************************************************************************)
(* Small parser descriptions for the model checker, after the ones the     *)
(* repository's own tests build, with two-bit bytes and fields of one to   *)
(* three bits so that every packet of a few bits can be tried.             *)
(***************************************************************************)
EXTENDS PakelesIR

\* Constructors, named after builder.rs.
C(v) == [op |-> "const", v |-> v, h |-> "", f |-> "", l |-> 0, r |-> 0]
F(h, f) == [op |-> "field", v |-> 0, h |-> h, f |-> f, l |-> 0, r |-> 0]
B(op, l, r) == [op |-> op, v |-> 0, h |-> "", f |-> "", l |-> l, r |-> r]
Bits(name, n) == [name |-> name, width |-> "bits", n |-> n]
Bytes(name, e) == [name |-> name, width |-> "bytes", n |-> e]
Ex(type) == [type |-> type, inst |-> ""]
ExAs(type, inst) == [type |-> type, inst |-> inst]
To(s) == [kind |-> "state", to |-> s, info |-> FALSE]
Acc == [kind |-> "accept", to |-> "", info |-> FALSE]
Rej(reason) == [kind |-> "reject", to |-> reason, info |-> FALSE]
RejInfo(reason) == [kind |-> "reject", to |-> reason, info |-> TRUE]
Absent == [kind |-> "absent", to |-> "", info |-> FALSE]
EmptyTarget == [kind |-> "empty", to |-> "", info |-> FALSE]
V(v) == [kind |-> "value", a |-> v, b |-> 0]
Masked(v, m) == [kind |-> "masked", a |-> v, b |-> m]
Range2(lo, hi) == [kind |-> "range", a |-> lo, b |-> hi]
ArmOf(entries, next) == [entries |-> entries, next |-> next]
Go(t) == [kind |-> "direct", keys |-> <<>>, arms |-> <<>>, default |-> t]
Select(keys, arms, default) ==
  [kind |-> "select", keys |-> keys, arms |-> arms, default |-> default]
NoTransition == [kind |-> "none", keys |-> <<>>, arms |-> <<>>, default |-> Absent]
St(extracts, trans) == [extracts |-> extracts, trans |-> trans]
IrOf(exprs, types, states, order, depth) ==
  [exprs |-> exprs, types |-> types, states |-> states, order |-> order,
   start |-> order[1], max_depth |-> depth]

\* mini() of interp/mod.rs: a tag selects a second header, or an info reject.
Mini == IrOf(<<F("a", "tag")>>,
  [a |-> <<Bits("tag", 2)>>, b |-> <<Bits("x", 1), Bits("y", 2)>>],
  [s0 |-> St(<<Ex("a")>>,
             Select(<<1>>, <<ArmOf(<<V(1)>>, To("s1"))>>, RejInfo("unknown tag"))),
   s1 |-> St(<<Ex("b")>>, Go(Acc))],
  <<"s0", "s1">>, 3)

\* depth_bound_respected: a state that goes to itself and reads nothing.
Spin == IrOf(<<>>, [a |-> <<>>], [s |-> St(<<Ex("a")>>, Go(To("s")))], <<"s">>, 3)

\* The IPv4 options idiom: a header of n * 2 bytes in all, one of them fixed.
\* n = 0 wraps to the length that leads back to the start of the header.
Ihl == IrOf(<<F("ip", "n"), C(2), B("mul", 1, 2), C(1), B("sub", 3, 4)>>,
  [ip |-> <<Bits("n", 2), Bytes("opts", 5)>>, l4 |-> <<Bits("p", 2)>>],
  [ip |-> St(<<Ex("ip")>>, Go(To("l4"))), l4 |-> St(<<Ex("l4")>>, Go(Acc))],
  <<"ip", "l4">>, 2)

\* A stacked header (VLAN tags, IPv6 extensions): each element says whether
\* another follows and how; the last arm is always shadowed by one before it.
Stack == IrOf(<<F("t", "m"), F("t", "v")>>,
  [tag |-> <<Bits("m", 1), Bits("v", 1)>>],
  [loop |-> St(<<ExAs("tag", "t")>>,
               Select(<<1, 2>>, <<ArmOf(<<V(1), Range2(0, 1)>>, To("loop")),
                                  ArmOf(<<Masked(0, 1), V(1)>>, Acc),
                                  ArmOf(<<Masked(0, 0), V(1)>>, Rej("never"))>>,
                      Absent))],
  <<"loop">>, 3)

\* A chain of options with their own lengths, parsed in a loop.
Options == IrOf(<<F("o", "n")>>,
  [opt |-> <<Bits("n", 2), Bytes("body", 1)>>],
  [loop |-> St(<<ExAs("opt", "o")>>,
               Select(<<1>>, <<ArmOf(<<V(0)>>, Acc), ArmOf(<<V(3)>>, Rej("bad option"))>>,
                      To("loop")))],
  <<"loop">>, 3)

\* Every operator, in two keys; the length of the bodies is a field another
\* state extracted.
Ops == IrOf(<<F("h", "x"), F("h", "y"), C(1), C(5),
              B("shl", 3, 2), B("or", 5, 4), B("add", 2, 1), B("and", 7, 4), B("shr", 2, 3)>>,
  [h |-> <<Bits("x", 2), Bits("y", 2)>>, p |-> <<Bytes("body", 9)>>],
  [a |-> St(<<Ex("h")>>, Select(<<6, 8>>, <<ArmOf(<<Range2(4, 7), V(1)>>, To("b"))>>, Rej("no"))),
   b |-> St(<<Ex("p"), ExAs("p", "q")>>, Go(Acc))],
  <<"a", "b">>, 2)

GoodIrs == {Mini, Spin, Ihl, Stack, Options, Ops}

(***************************************************************************)
(* Descriptions that no consumer can run to the end on every packet.       *)
(***************************************************************************)
OneState(exprs, types, st, depth) == IrOf(exprs, types, [s |-> st], <<"s">>, depth)
H2 == [h |-> <<Bits("x", 2)>>]

BadIrs == {
  \* an unknown state, header type, width, transition and target
  OneState(<<>>, H2, St(<<Ex("h")>>, Go(To("t"))), 2),
  OneState(<<>>, H2, St(<<Ex("h"), Ex("g")>>, Go(Acc)), 1),
  OneState(<<>>, [h |-> <<Bits("x", 2), [name |-> "y", width |-> "none", n |-> 0]>>],
           St(<<Ex("h")>>, Go(Acc)), 1),
  OneState(<<>>, H2, St(<<Ex("h")>>, NoTransition), 1),
  OneState(<<F("h", "x")>>, H2,
           St(<<Ex("h")>>, Select(<<1>>, <<ArmOf(<<V(1)>>, Absent)>>, EmptyTarget)), 1),
  \* a key and a length nobody extracted, an empty expression
  OneState(<<F("g", "x")>>, H2, St(<<Ex("h")>>, Select(<<1>>, <<>>, Acc)), 1),
  OneState(<<F("h", "y"), C(1), B("add", 1, 2)>>,
           [h |-> <<Bits("x", 2), Bytes("y", 3)>>], St(<<Ex("h")>>, Go(Acc)), 1),
  OneState(<<[C(0) EXCEPT !.op = "empty"]>>, H2,
           St(<<Ex("h")>>, Select(<<1>>, <<>>, Acc)), 1)}

\* Accepted by validate, although the variable-length field starts off a byte
\* boundary.
Misaligned == OneState(<<F("h", "x")>>, [h |-> <<Bits("x", 1), Bytes("y", 1)>>],
                       St(<<Ex("h")>>, Go(Acc)), 1)

\* Accepted by validate, although the key can shift by the word size.
WideShift == OneState(<<C(1), F("h", "x"), B("shl", 1, 2)>>, [h |-> <<Bits("x", 3)>>],
                      St(<<Ex("h")>>, Select(<<3>>, <<ArmOf(<<V(1)>>, Acc)>>, Rej("no"))), 1)

\* Accepted by validate: instance p is extracted on every path to s3, but as
\* t1 on one of them and as t2 on the other, and only t2 has the key's field.
Confused == IrOf(<<F("a", "x"), F("p", "w")>>,
  [a |-> <<Bits("x", 1)>>, t1 |-> <<Bits("u", 1)>>, t2 |-> <<Bits("w", 1)>>],
  [s0 |-> St(<<Ex("a")>>, Select(<<1>>, <<ArmOf(<<V(1)>>, To("s1"))>>, To("s2"))),
   s1 |-> St(<<ExAs("t1", "p")>>, Go(To("s3"))),
   s2 |-> St(<<ExAs("t2", "p")>>, Go(To("s3"))),
   s3 |-> St(<<>>, Select(<<2>>, <<>>, Acc))],
  <<"s0", "s1", "s2", "s3">>, 4)

\* Accepted by validate: a length read from a later field of its own header.
Forward == OneState(<<F("h", "n")>>, [h |-> <<Bytes("body", 1), Bits("n", 2)>>],
                    St(<<Ex("h")>>, Go(Acc)), 1)
=============================================================================
