--------------------------------- MODULE FlowIr ---------------------------------
(***************************************************************************)
(* The linux_flow_dissector description, state by state and arm by arm,    *)
(* scaled to bytes of four bits: each header's fixed part is one byte, that *)
(* of IPv4 two, and lengths are in bytes.                                  *)
(***************************************************************************)
EXTENDS SampleIrs

CONSTANTS
  IPv4, IPv6, Q, AD, MPLS,    \* EtherTypes
  HopOpts, Fragment, Tcp, Udp \* next headers

\* Select arms from a sequence of <<value, target>> pairs.
Demux(e, pairs, default) ==
  Select(<<e>>, [i \in DOMAIN pairs |-> ArmOf(<<V(pairs[i][1])>>, pairs[i][2])], default)

L4 == <<<<Tcp, To("parse_tcp")>>, <<Udp, To("parse_udp")>>>>
L3 == <<<<IPv4, To("parse_ipv4")>>, <<IPv6, To("parse_ipv6")>>, <<MPLS, To("parse_mpls")>>>>

\* Extension headers may follow each other.
Chain6 == <<<<HopOpts, To("parse_ipv6_opt")>>, <<Fragment, To("parse_ipv6_frag")>>>> \o L4
Unsupported == RejInfo("unsupported")

LinuxFlowDissector == IrOf(
  <<F("ethernet", "ethertype"), F("vlan_ad", "encapsulated_proto"), F("vlan_q", "encapsulated_proto"),
    F("ipv4", "protocol"), F("ipv6", "next_header"), F("ext_opt", "next_header"),
    C(1), C(2), F("ipv4", "ihl"), B("sub", 9, 8), F("ext_opt", "hdr_ext_len"), B("add", 7, 11), B("sub", 12, 7),
    F("tcp", "data_offset"), B("sub", 14, 7)>>,
  [ethernet |-> <<Bits("dst", 1), Bits("ethertype", 3)>>,
   vlan     |-> <<Bits("vid", 1), Bits("encapsulated_proto", 3)>>,
   mpls     |-> <<Bits("label", 3), Bits("s", 1)>>,
   ipv4     |-> <<Bits("ihl", 2), Bits("mf", 1), Bits("frag_offset", 1), Bits("protocol", 4),
                Bytes("options", 10)>>,
   ipv6     |-> <<Bits("flow_label", 1), Bits("next_header", 3)>>,
   opt      |-> <<Bits("next_header", 3), Bits("hdr_ext_len", 1), Bytes("body", 13)>>,
   frag     |-> <<Bits("next_header", 3), Bits("frag_off", 1)>>,
   tcp      |-> <<Bits("sport", 2), Bits("data_offset", 2), Bytes("options", 15)>>,
   udp      |-> <<Bits("sport", 2), Bits("dport", 2)>>],
  [parse_ethernet  |-> St(<<Ex("ethernet")>>,
     Demux(1, L3 \o <<<<Q, To("parse_vlan_q")>>, <<AD, To("parse_vlan_ad")>>>>, Unsupported)),
   parse_vlan_ad   |-> St(<<ExAs("vlan", "vlan_ad")>>,
     Demux(2, <<<<Q, To("parse_vlan_q")>>>>, Rej("802.1AD must be followed by 802.1Q"))),
   parse_vlan_q    |-> St(<<ExAs("vlan", "vlan_q")>>,
     Demux(3, L3 \o <<<<Q, Rej("beyond depth")>>, <<AD, Rej("beyond depth")>>>>, Unsupported)),
   parse_ipv4      |-> St(<<Ex("ipv4")>>, Demux(4, L4, Unsupported)),
   parse_ipv6      |-> St(<<Ex("ipv6")>>, Demux(5, Chain6, Unsupported)),
   parse_ipv6_opt  |-> St(<<ExAs("opt", "ext_opt")>>, Demux(6, Chain6, Unsupported)),
   parse_ipv6_frag |-> St(<<ExAs("frag", "ext_frag")>>, Go(Acc)),
   parse_mpls      |-> St(<<Ex("mpls")>>, Go(Acc)),
   parse_tcp       |-> St(<<Ex("tcp")>>, Go(Acc)),
   parse_udp       |-> St(<<Ex("udp")>>, Go(Acc))],
  <<"parse_ethernet", "parse_vlan_ad", "parse_vlan_q", "parse_ipv4", "parse_ipv6", "parse_ipv6_opt",
    "parse_ipv6_frag", "parse_mpls", "parse_tcp", "parse_udp">>, 5)
=================================================================================
