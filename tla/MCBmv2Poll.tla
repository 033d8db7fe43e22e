------------------------------ MODULE MCBmv2Poll ------------------------------
(***************************************************************************)
(* Two callers: one with a full chunk and a rest, and one with a single    *)
(* packet that comes back as a frame that is no verdict.                   *)
(***************************************************************************)
EXTENDS Bmv2Poll

MCBatch == [c \in Callers |-> IF c = "suite" THEN <<1, 2, 3>> ELSE <<4>>]
===============================================================================
