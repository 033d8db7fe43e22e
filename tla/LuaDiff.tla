--------------------------------- MODULE LuaDiff ---------------------------------
(***************************************************************************)
(* The conformance test of the Lua backend: the dissector's tree and       *)
(* verdict are compared with a run of the interpreter over the same frame. *)
(***************************************************************************)
EXTENDS Interp, LuaDissect

Dissected == pc = "done" /\ luapc = "done"

\* headers_to_expected: the fields of all headers, but for empty bodies.
Shown ==
  LET items(h) == [k \in DOMAIN h.fields |->
                     [key |-> <<h.instance, h.fields[k].name>>, bits |-> h.fields[k].bits]]
  IN  SelectSeq(FlattenSeq([i \in DOMAIN headers |-> items(headers[i])]), LAMBDA f : f.bits # <<>>)

Outcome ==
  CASE result.outcome = "accept" -> "accept"
    [] result.outcome = "reject" -> IF result.info THEN "info" ELSE "error"
    [] OTHER -> "bails"

(***************************************************************************)
(* Properties.                                                             *)
(***************************************************************************)

\* A plain field as a key, compared for equality, is a local of its state; on
\* anything else nil is loud.
NilIsLoud ==
  \A s \in DOMAIN ir.states :
    LET t == ir.states[s].trans
        local == {<<x.instance, x.field.name>> : x \in ToSet(FieldsOf(s))}
    IN  \A i \in DOMAIN t.arms : \A k \in DOMAIN t.arms[i].entries :
          LET e == ir.exprs[t.keys[k]]
          IN  t.arms[i].entries[k].kind = "value" /\ e.op = "field" => <<e.h, e.f>> \in local

\* Lua's numbers are the interpreter's words: nothing overflows, and a
\* difference is a length, not part of one.
NumbersAgree ==
  \A e \in Evaluated : \A i \in NodesOf(e) :
    /\ ExprRange(i).hi < 2^WordBits
    /\ ir.exprs[i].op = "sub" => i = e /\ \A s \in DOMAIN ir.states : e \notin KeysOfState(s)

\* The dissector shows what the interpreter parses, field by field up to where
\* it stops, with the interpreter's reason at the interpreter's place ("matching
\* the reference interpreter's outcome", lua.rs:50).  A Lua error is loud: then
\* what it has shown is a beginning of that.
DissectionAgrees ==
  Dissected /\ NilIsLoud /\ NumbersAgree =>
    IF expert.outcome = "raised" THEN IsPrefix(tree, Shown)
    ELSE /\ tree = Shown
         /\ off = cursor
         /\ expert = [outcome |-> Outcome, reason |-> result.reason,
                      instance |-> result.instance, field |-> result.field]

\* What the generator lets through is aligned: "variable-length fields at
\* non-byte-aligned offsets" are a generation error, "never silent"
\* (lua.rs:8-11), however states and loops bring them there; so an accepted
\* description, whose states extract each instance once, never bails.
NeverMisaligned == luapc \notin {"idle", "refused"} /\ Bailed => ~ OncePerState
=================================================================================
