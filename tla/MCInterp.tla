------------------------------ MODULE MCInterp ------------------------------
(* Interp over the sample descriptions and every packet of up to MaxBits bits. *)
EXTENDS InterpRefines, SampleIrs

CONSTANT MaxBits

MCPackets == UNION {[1 .. n -> Bit] : n \in 0 .. MaxBits}
MCAll == GoodIrs \cup BadIrs \cup {Misaligned}
=============================================================================
