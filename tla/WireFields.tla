----------------------------- MODULE WireFields -----------------------------
(***************************************************************************)
(* The flat view of a state's extracts: the fields in wire order.  A header *)
(* type that does not exist counts as a field without a width.             *)
(***************************************************************************)
EXTENDS PakelesIR, SequencesExt

TypeFields(ir, type) ==
  IF type \in DOMAIN ir.types THEN ir.types[type]
  ELSE <<[name |-> "", width |-> "none", n |-> 0]>>

WireFields(ir, extracts) ==
  FlattenSeq([e \in DOMAIN extracts |->
    LET fields == TypeFields(ir, extracts[e].type)
    IN  [j \in DOMAIN fields |-> [instance |-> Instance(extracts[e]), field |-> fields[j]]]])
=============================================================================
