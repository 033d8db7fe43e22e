-------------------------------- MODULE GivenIr --------------------------------
(***************************************************************************)
(* The description a component is given, one of those it may be given.     *)
(***************************************************************************)
EXTENDS PakelesIR

CONSTANT Irs  \* every description has the shape of the schema, no more

ASSUME IrsAssumption == \A i \in Irs : IsIr(i)

VARIABLE ir
================================================================================
