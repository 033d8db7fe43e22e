------------------------------- MODULE CRefines -------------------------------
(***************************************************************************)
(* The generated C parser implements WireParse, as the interpreter does    *)
(* (InterpRefines): so the two agree on every packet.                      *)
(***************************************************************************)
EXTENDS CParse, WireFields

\* Inside the loop body, or returned from it.
InBody == pc = "body" \/ (pc = "returned" /\ depth < ir.max_depth)

\* Setting a presence flag takes nothing off the packet.
Unread ==
  IF ~ InBody \/ ex > Len(Extracts) THEN <<>>
  ELSE IF fld = 0 THEN WireFields(ir, SubSeq(Extracts, ex, Len(Extracts)))
  ELSE [j \in 1 .. Len(Fields) - fld + 1 |->
         [instance |-> Instance(X), field |-> Fields[fld + j - 1]]]
       \o WireFields(ir, SubSeq(Extracts, ex + 1, Len(Extracts)))

CVerdict ==
  [outcome |-> ret.outcome, consumed |-> ret.consumed,
   reason |-> IF ret.outcome = "reject" THEN ReasonTable(ir)[ret.reason] ELSE ""]

Promise ==
  INSTANCE WireParse WITH
    at       <- state,
    visited  <- IF pc = "head" THEN depth ELSE depth + 1,
    visiting <- InBody,
    todo     <- Unread,
    env      <- members,
    cursor   <- off,
    verdict  <- CVerdict

\* The C parser is a parser in the sense of WireParse: it enters the same
\* states, takes the same bits for the same fields, leaves the same last
\* values in its struct, and returns the same outcome, reason string and
\* consumed_bits.
PromiseKept == Promise!Spec
=============================================================================
