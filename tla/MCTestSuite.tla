------------------------------ MODULE MCTestSuite ------------------------------
(* TestSuite with edits of up to two bytes under any bit length, and a     *)
(* parser of one tag bit and one value bit that only accepts a zero tag.   *)
EXTENDS TestSuite

MCResult(bits) ==
  IF Len(bits) < 2 THEN [reason |-> "out of bounds"]
  ELSE IF bits[1] = 1 THEN [reason |-> "unknown tag"]
  ELSE [value |-> bits[2]]

Byte == 0 .. 2^ByteBits - 1
MCWires ==
  {[kind |-> k, data |-> <<>>, len |-> n] : k \in {"bad", "absent"}, n \in 0 .. 3} \cup
  {[kind |-> "hex", data |-> d, len |-> n] : d \in UNION {[1 .. m -> Byte] : m \in 0 .. 2}, n \in 0 .. 5}
================================================================================
