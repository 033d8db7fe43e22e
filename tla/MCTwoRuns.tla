------------------------------ MODULE MCTwoRuns ------------------------------
(* TwoRuns over the sample descriptions, the broken ones included, and packets *)
(* of up to MaxBits bits. *)
EXTENDS TwoRuns, SampleIrs

CONSTANT MaxBits

MCPackets == UNION {[1 .. n -> Bit] : n \in 0 .. MaxBits}
MCAll == GoodIrs \cup BadIrs \cup {Misaligned}
=============================================================================
