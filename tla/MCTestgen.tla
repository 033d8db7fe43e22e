------------------------------ MODULE MCTestgen ------------------------------
(* Testgen over the engine's descriptions and captures of up to MaxBits bits. *)
EXTENDS Testgen, EngineIrs

CONSTANT MaxBits

MCPackets == UNION {[1 .. n -> Bit] : n \in 0 .. MaxBits}

NoEnd == OneState(<<>>, H2, St(<<Ex("h")>>, NoTransition), 1)

MCIrs == GoodIrs \cup Family \cup Untargeted \cup {Hollow, NoKey, NoLength, Twice, NoEnd}
==============================================================================
