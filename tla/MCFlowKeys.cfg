CONSTANTS
  WordBits = 6
  ByteBits = 4
  IPv4 = 1
  IPv6 = 2
  Q = 3
  AD = 4
  MPLS = 5
  HopOpts = 0
  Fragment = 1
  Tcp = 2
  Udp = 3
  Icmp = 4
  UdpLite = 5
  Encap = 6
  FragBytes = 1
  Irs <- MCIrs
  Packets <- MCFrames
SPECIFICATION FSpec
INVARIANT KeysAgree
