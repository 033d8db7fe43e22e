-------------------------------- MODULE FlowKeys --------------------------------
(***************************************************************************)
(* The flow-dissector oracle: a parse by the linux_flow_dissector          *)
(* description, projected to the kernel's flow keys after the fact, and    *)
(* the kernel's dissector, which updates its keys as it goes.              *)
(*                                                                         *)
(* The kernel is external: its programs are modelled as far as the         *)
(* repository describes them (linux_flow_dissector.py, its README), under  *)
(* default flags; what it does with an encapsulated packet is left open.   *)
(* Left out on both sides: the addresses and the destination port.         *)
(***************************************************************************)
EXTENDS Interp, FlowIr, FiniteSetsExt

CONSTANTS
  FragBytes,            \* the length of a fragment header, 8 in the code
  Icmp, UdpLite, Encap  \* protocols that only the kernel dissects; Encap is GRE or IPIP

VARIABLES
  kprog,   \* the kernel program to run next; "ok" and "drop" are its verdicts
  kproto,  \* the protocol it was called for
  kkeys    \* its flow keys

kvars == <<kprog, kproto, kkeys>>

NoKeys == [nhoff |-> 0, thoff |-> 0, n_proto |-> 0, addr_proto |-> 0, ip_proto |-> 0,
           sport |-> 0, flow_label |-> 0, is_frag |-> FALSE, is_first_frag |-> FALSE]

(***************************************************************************)
(* project().                                                              *)
(***************************************************************************)

Positions(inst) == {i \in DOMAIN headers : headers[i].instance = inst}
Has(inst) == Positions(inst) # {}
Header(i) == headers[i]
FirstOf(inst) == Header(Min(Positions(inst)))
LastOf(inst) == Header(Max(Positions(inst)))

\* The value of a field of a header.
Value(h, f) == Uint(h.fields[Min({k \in DOMAIN h.fields : h.fields[k].name = f})].bits)
ByteOf(h) == h.start \div ByteBits

NProto == IF Has("vlan_q") THEN Value(FirstOf("vlan_q"), "encapsulated_proto")
          ELSE Value(FirstOf("ethernet"), "ethertype")

\* Mutant: the first option decides.
ChainProtoFirst ==
  IF Has("ext_frag") THEN Value(LastOf("ext_frag"), "next_header")
  ELSE IF Has("ext_opt") THEN Value(FirstOf("ext_opt"), "next_header")
  ELSE Value(FirstOf("ipv6"), "next_header")
\* The end of the extension headers names the protocol.
ChainProto ==
  IF Has("ext_frag") THEN Value(LastOf("ext_frag"), "next_header")
  ELSE IF Has("ext_opt") THEN Value(LastOf("ext_opt"), "next_header")
  ELSE Value(FirstOf("ipv6"), "next_header")

Transport == IF Has("tcp") THEN "tcp" ELSE "udp"
WithTransport(keys) ==
  IF Has(Transport)
    THEN [keys EXCEPT !.thoff = ByteOf(FirstOf(Transport)), !.sport = Value(FirstOf(Transport), "sport")]
    ELSE keys

Linked == [NoKeys EXCEPT !.n_proto = NProto]
At(keys, h) == [keys EXCEPT !.nhoff = ByteOf(h)]

FlowV4 == WithTransport([At(Linked, FirstOf("ipv4")) EXCEPT
            !.addr_proto = IPv4, !.ip_proto = Value(FirstOf("ipv4"), "protocol")])
FlowV6 == [At(Linked, FirstOf("ipv6")) EXCEPT
            !.addr_proto = IPv6, !.ip_proto = ChainProto,
            !.flow_label = Value(FirstOf("ipv6"), "flow_label")]
FlowFragment == [FlowV6 EXCEPT
            !.is_frag = TRUE,
            !.is_first_frag = Value(LastOf("ext_frag"), "frag_off") = 0,
            !.thoff = ByteOf(LastOf("ext_frag")) + FragBytes]
FlowMpls == [At(Linked, FirstOf("mpls")) EXCEPT !.thoff = ByteOf(FirstOf("mpls"))]

Project ==
  CASE Has("ipv4") -> FlowV4
    [] Has("ipv6") /\ Has("ext_frag") -> FlowFragment
    [] Has("ipv6") /\ ~ Has("ext_frag") -> WithTransport(FlowV6)
    [] ~ Has("ipv4") /\ ~ Has("ipv6") /\ Has("mpls") -> FlowMpls
    [] OTHER -> WithTransport(Linked)

(***************************************************************************)
(* The kernel's programs (external).  Each reads its header at thoff.      *)
(***************************************************************************)
KNum(from, n) == Uint(Slice(kkeys.thoff * ByteBits + from, n))
InFrame(bytes) == (kkeys.thoff + bytes) * ByteBits <= Avail

Drop == kprog' = "drop" /\ UNCHANGED <<kproto, kkeys>>
RunNext(prog, proto, keys) == kprog' = prog /\ kproto' = proto /\ kkeys' = keys
KOk(keys) == RunNext("ok", kproto, keys)

EthProg(proto) ==
  CASE proto = IPv4 -> "ip" [] proto = IPv6 -> "ipv6" [] proto = MPLS -> "mpls"
    [] proto \in {Q, AD} -> "vlan" [] OTHER -> "drop"
IpProg(proto) ==
  CASE proto = Tcp -> "tcp" [] proto \in {Udp, UdpLite} -> "udp"
    [] proto = Icmp -> "icmp" [] proto = Encap -> "encap" [] OTHER -> "drop"
Ipv6Prog(proto) ==
  CASE proto = HopOpts -> "ipv6op" [] proto = Fragment -> "ipv6fr" [] OTHER -> IpProg(proto)

Beyond(keys, bytes) == [keys EXCEPT !.thoff = @ + bytes]
Past(keys, bytes) == [keys EXCEPT !.thoff = @ + bytes, !.nhoff = @ + bytes]

\* An outer 802.1AD tag must be followed by a 802.1Q tag, and that by no tag.
KVlan ==
  /\ kprog = "vlan"
  /\ LET encap == KNum(1, 3)
     IN  IF ~ InFrame(1) \/ (kproto = AD /\ encap # Q) \/ (kproto = Q /\ encap \in {Q, AD}) THEN Drop
         ELSE IF kproto = AD THEN RunNext("vlan", Q, Past(kkeys, 1))
         ELSE RunNext(EthProg(encap), encap, [Past(kkeys, 1) EXCEPT !.n_proto = encap])

\* A fragment, first or later, ends here: its ports stay zero.
KIp ==
  /\ kprog = "ip"
  /\ LET ihl   == KNum(0, 2)
         mf    == KNum(2, 1) = 1
         first == KNum(3, 1) = 0
         proto == KNum(4, 4)
         keys  == Beyond([kkeys EXCEPT !.addr_proto = IPv4, !.ip_proto = proto], ihl)
     IN  IF ~ InFrame(2) \/ ihl < 2 \/ ~ InFrame(ihl) THEN Drop
         ELSE IF mf \/ ~ first THEN KOk([keys EXCEPT !.is_frag = TRUE, !.is_first_frag = first])
         ELSE RunNext(IpProg(proto), proto, keys)

KIpv6 ==
  /\ kprog = "ipv6"
  /\ IF ~ InFrame(1) THEN Drop
     ELSE RunNext(Ipv6Prog(KNum(1, 3)), KNum(1, 3),
            Beyond([kkeys EXCEPT !.addr_proto = IPv6, !.ip_proto = KNum(1, 3),
                                 !.flow_label = KNum(0, 1)], 1))

KOption ==
  /\ kprog = "ipv6op"
  /\ IF ~ InFrame(1) THEN Drop
     ELSE RunNext(Ipv6Prog(KNum(0, 3)), KNum(0, 3),
            Beyond([kkeys EXCEPT !.ip_proto = KNum(0, 3)], 1 + KNum(3, 1)))

KFragment ==
  /\ kprog = "ipv6fr"
  /\ IF ~ InFrame(1) THEN Drop
     ELSE KOk(Beyond([kkeys EXCEPT !.ip_proto = KNum(0, 3), !.is_frag = TRUE,
                                   !.is_first_frag = KNum(3, 1) = 0], FragBytes))

KMpls == kprog = "mpls" /\ IF InFrame(1) THEN KOk(kkeys) ELSE Drop

\* doff below the header's own length, or beyond the frame, is dropped.
KTcp ==
  /\ kprog = "tcp"
  /\ IF ~ InFrame(1) \/ KNum(2, 2) < 1 \/ ~ InFrame(KNum(2, 2)) THEN Drop
     ELSE KOk([kkeys EXCEPT !.sport = KNum(0, 2)])

KUdp == kprog = "udp" /\ IF InFrame(1) THEN KOk([kkeys EXCEPT !.sport = KNum(0, 2)]) ELSE Drop

KIcmp == kprog = "icmp" /\ IF InFrame(1) THEN KOk(kkeys) ELSE Drop

\* The repository does not say which packets within a tunnel it accepts.
KEncap == kprog = "encap" /\ (KOk(kkeys) \/ Drop)

Kernel == KVlan \/ KIp \/ KIpv6 \/ KOption \/ KFragment \/ KMpls \/ KTcp \/ KUdp \/ KIcmp \/ KEncap
KernelDone == kprog \in {"ok", "drop"}

\* A frame without its Ethernet header never reaches the programs.
FInit ==
  /\ Init
  /\ LET type == IF Avail < ByteBits THEN 0 ELSE Uint(Slice(1, 3))
     IN  /\ kprog = IF Avail < ByteBits THEN "drop" ELSE EthProg(type)
         /\ kproto = type
         /\ kkeys = [NoKeys EXCEPT !.nhoff = 1, !.thoff = 1, !.n_proto = type]

Parse == Step /\ UNCHANGED kvars
Capture == pc = "done" /\ Kernel /\ UNCHANGED vars
DiffDone == pc = "done" /\ KernelDone /\ UNCHANGED <<vars, kvars>>

FNext == Parse \/ Capture \/ DiffDone
FSpec == FInit /\ [][FNext]_<<vars, kvars>>

(***************************************************************************)
(* diff_goldens, and what project() takes for granted.                     *)
(***************************************************************************)
Captured == pc = "done" /\ KernelDone /\ ~ Bailed
Accepted == result.outcome = "accept"

\* The divergences the example's README names ("deliberate rung boundaries, not
\* bugs").
FragmentedV4 == kkeys.is_frag /\ kkeys.addr_proto = IPv4
BeyondTcpUdp == ~ kkeys.is_frag /\ kkeys.ip_proto \in {Icmp, UdpLite, Encap}
TooManyOptions == result.reason = MaxDepthExceeded

\* The definition of done of the example ("Pakeles's projected flow_keys agree
\* with the kernel-captured goldens", flow_dissector.rs:639), on every frame and
\* not only on the corpus, with the README's divergence classes (77-100) as the
\* only ones.  What we accept the kernel accepts, with the same keys but for the
\* ports and the fragment flags of an IPv4 fragment.  What it accepts and we
\* reject is an IPv4 fragment, a protocol beyond TCP and UDP, or an option chain
\* beyond max_depth.
KeysAgree ==
  Captured =>
    /\ Accepted =>
         /\ kprog = "ok"
         /\ IF FragmentedV4
              THEN [Project EXCEPT !.sport = 0] =
                   [kkeys EXCEPT !.is_frag = FALSE, !.is_first_frag = FALSE]
              ELSE Project = kkeys
    /\ kprog = "ok" /\ ~ Accepted => FragmentedV4 \/ BeyondTcpUdp \/ TooManyOptions

==================================================================================
