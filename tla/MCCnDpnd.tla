------------------------------ MODULE MCCnDpnd ------------------------------
(* Frames and bounds for checking CnDpnd with TLC.                         *)
EXTENDS CnDpnd

\* What the 16 bytes after the IP packet may hold: the hint a transit
\* appended, or Ethernet padding.
TransitHint == [flags |-> "SIG", vni |-> "v1", saddr |-> "h1", smac |-> "hm1",
                from |-> "transit"]
Padding     == [flags |-> "ZERO", vni |-> "0", saddr |-> "0", smac |-> "0",
                from |-> "junk"]
OtherVni    == [TransitHint EXCEPT !.vni = "v2"]

\* A VXLAN frame a transit forwarded with a hint: 100 bytes of IP packet
\* and the 16-byte hint after it.
Good == [cut |-> "none", eth |-> "IP", ttl |-> 63, proto |-> "UDP",
         dport |-> "VXL_DSTPORT", ineth |-> "IP", iproto |-> "TCP",
         tot_len |-> 100, len |-> 116, tail |-> TransitHint, vni |-> "v1",
         isrc |-> "t1", idst |-> "t2", ismac |-> "tm1"]

\* One frame for each way _transit can end.
MCFrames ==
  { Good,
    [Good EXCEPT !.iproto = "UDP", !.isrc = "t3"],
    [Good EXCEPT !.cut = "eth"], [Good EXCEPT !.eth = "ARP"],
    [Good EXCEPT !.cut = "ip"], [Good EXCEPT !.ttl = 0],
    [Good EXCEPT !.proto = "TCP"], [Good EXCEPT !.cut = "udp"],
    [Good EXCEPT !.dport = "GEN_DSTPORT"], [Good EXCEPT !.cut = "vxlan"],
    [Good EXCEPT !.ineth = "ARP"], [Good EXCEPT !.cut = "l4"],
    [Good EXCEPT !.iproto = "ICMP"], [Good EXCEPT !.tot_len = 1],
    [Good EXCEPT !.len = 100, !.tail = Padding],
    [Good EXCEPT !.len = 130, !.tail = Padding],
    [Good EXCEPT !.tail = OtherVni] }
=============================================================================
