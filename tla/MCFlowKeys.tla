------------------------------ MODULE MCFlowKeys ------------------------------
(***************************************************************************)
(* FlowKeys with the linux_flow_dissector description.                     *)
(***************************************************************************)
EXTENDS FlowKeys, SequencesExt

(***************************************************************************)
(* The frames, as sequences of bytes: any two bytes after each stack of     *)
(* link headers, every IPv4 header with up to three bytes behind it, and    *)
(* every chain of three extension headers.                                 *)
(***************************************************************************)
Byte == 0 .. 15
Links == {<<>>} \cup {<<e>> : e \in 0 .. 7} \cup {<<e, v>> : e \in {Q, AD}, v \in 0 .. 7}
           \cup {<<AD, Q, v>> : v \in 0 .. 7}
Shallow == {<<>>} \cup {<<x>> : x \in Byte} \cup {<<x, y>> : x \in Byte, y \in Byte}
             \cup {<<x, y, 5>> : x \in Byte, y \in Byte}
Deep == {<<IPv6, n, x, y, z, 5>> : n \in {HopOpts, Fragment, Tcp + 8}, x \in Byte, y \in Byte, z \in {2, 4, 5}}
Tails == {<<>>} \cup {<<x>> : x \in Byte} \cup {<<5, x>> : x \in Byte} \cup {<<x, 5, 5>> : x \in Byte}
V4 == {<<IPv4, x, p>> \o t : x \in Byte, p \in 0 .. 7, t \in Tails}
BytesToFrames == {l \o s : l \in Links, s \in Shallow} \cup V4 \cup Deep

ToBits(bytes) == FlattenSeq([i \in DOMAIN bytes |-> [j \in 1 .. ByteBits |-> BitOf(bytes[i], ByteBits - j)]])
MCFrames == {ToBits(b) : b \in BytesToFrames}
MCIrs == {LinuxFlowDissector}
================================================================================
