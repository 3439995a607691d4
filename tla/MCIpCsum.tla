------------------------------ MODULE MCIpCsum ------------------------------
(* Bounded inputs for checking IpCsum with TLC.                            *)
EXTENDS IpCsum

\* Addresses with all-ones, all-zero and mixed 16-bit halves; written as
\* source 255.255.255.255 and destination 104.104.0.0 into a UDP header of
\* tot_len 84 and TTL 64, the sum is 0x2FFFE, whose first fold carries again.
MCAddrs == { <<255, 255, 255, 255>>, <<0, 0, 0, 0>>, <<10, 0, 0, 1>>,
             <<192, 168, 1, 254>>, <<104, 104, 0, 0>> }

\* Version/IHL 0x45, id 54321 and DF as cn_dpnd_xdp.c:257-263 sets them;
\* tot_len short or maximal, TTL at 0, 1, IPDEFTTL and 255, TCP or UDP, a
\* zero or a stale checksum, and any old addresses.
MCHeaders ==
  { <<69, 0>> \o tl \o <<212, 49, 64, 0, ttl, proto>> \o ck \o s \o d :
      tl \in {<<0, 84>>, <<255, 255>>}, ttl \in {0, 1, 64, 255},
      proto \in {6, 17}, ck \in {<<0, 0>>, <<255, 255>>},
      s \in MCAddrs, d \in MCAddrs }
=============================================================================
