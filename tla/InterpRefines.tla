---------------------------- MODULE InterpRefines ----------------------------
(***************************************************************************)
(* The interpreter implements WireParse.  Beginning and ending a header    *)
(* are stuttering steps of the promise, all its other steps are steps of   *)
(* the promise.                                                            *)
(***************************************************************************)
EXTENDS Interp, WireFields

\* The fields the visit has still to take; a run cut short inside a header
\* keeps that header's.
OpenHeader == pc = "field" \/ (pc = "done" /\ result.field # None)

Unread ==
  IF OpenHeader
    THEN [j \in 1 .. Len(Fields) - Len(parsed.fields) |->
           [instance |-> parsed.instance, field |-> Fields[Len(parsed.fields) + j]]]
         \o WireFields(ir, SubSeq(Extracts, ex + 2, Len(Extracts)))
  ELSE IF pc = "extract" THEN WireFields(ir, SubSeq(Extracts, ex + 1, Len(Extracts)))
  ELSE <<>>

InterpVerdict ==
  IF pc # "done" THEN [outcome |-> "pending", reason |-> "", consumed |-> 0]
  ELSE [outcome |-> result.outcome, consumed |-> result.consumed,
        reason |-> IF result.outcome = "reject" THEN result.reason ELSE ""]

Promise ==
  INSTANCE WireParse WITH
    at       <- current,
    visited  <- depth,
    visiting <- pc \in {"extract", "field"} \/ (pc = "done" /\ depth <= ir.max_depth /\ KnownState),
    todo     <- Unread,
    verdict  <- InterpVerdict

\* The interpreter is a parser in the sense of WireParse: same visits, same
\* bits taken for the same fields, same verdict and reason, an error only and
\* always where the description is broken, and an answer in the end.
PromiseKept == Promise!Spec
=============================================================================
