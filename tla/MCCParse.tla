------------------------------ MODULE MCCParse ------------------------------
(* CParse, called by pk_entry, over the sample descriptions, one with as many *)
(* reasons as the reason's lane holds, and every packet of up to MaxBits bits. *)
EXTENDS CRefines, BpfEntry, SampleIrs

CONSTANT MaxBits

MCPackets == UNION {[1 .. n -> Bit] : n \in 0 .. MaxBits}

Reasons == <<"r0", "r1", "r2", "r3", "r4", "r5", "r6", "r7",
             "r8", "r9", "ra", "rb", "rc", "rd", "re", "rf">>

\* An arm for every value of the key, each with a reason of its own.
Many == OneState(<<F("h", "x")>>, [h |-> <<Bits("x", 4)>>],
  St(<<Ex("h")>>, Select(<<1>>, [i \in 1 .. 16 |-> ArmOf(<<V(i - 1)>>, Rej(Reasons[i]))], Acc)), 1)

MCGood == GoodIrs \cup {Many}
MCShifts == {WideShift}
=============================================================================
