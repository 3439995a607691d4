------------------------------- MODULE IpCsum -------------------------------
(***************************************************************************)
(* trn_set_src_dst_ip_csum of src/cn/cn_dpnd/cn_dpnd_xdp.c (lines 93-156)  *)
(* and the helpers it calls: rewrite the source and destination of an IPv4 *)
(* header, decrement its TTL, and recompute its checksum.  The transit     *)
(* program calls the same function, from trn_kern.h, on every frame it      *)
(* forwards; cn_dpnd calls it on the header of each direct-path request.   *)
(*                                                                         *)
(* The header is its 20 bytes in wire order.  The code sums it as ten      *)
(* __u16 loads on a little-endian CPU, folds the carries at most four      *)
(* times, and stores the complement as a __u16; the reference is the       *)
(* receiver's check of RFC 1071, done in network byte order.               *)
(***************************************************************************)
EXTENDS Naturals, Sequences, SequencesExt

CONSTANTS
  Headers,       \* IPv4 headers the function may be given, 20 bytes each
  Addrs          \* addresses it may be asked to write, 4 bytes each

VARIABLES
  ip,            \* the header
  pc             \* "in" before the call, "out" after it

vars == <<ip, pc>>

SumOf(s) == FoldLeft(LAMBDA a, b : a + b, 0, s)

\* bs written over h from byte i on.
SetBytes(h, i, bs) ==
  [j \in DOMAIN h |-> IF i <= j /\ j < i + Len(bs) THEN bs[j - i + 1] ELSE h[j]]

\* trn_set_src_ip / trn_set_dst_ip: store the address at offsetof(saddr)
\* (byte 13) or offsetof(daddr) (byte 17).  Their bounds check compares the
\* start of the field with data_end, which both callers place beyond the
\* header, so the store always happens.
trn_set_src_ip(h, s) == SetBytes(h, 13, s)
trn_set_dst_ip(h, d) == SetBytes(h, 17, d)

\* The ten words *next_iph_u16++ loads: byte 2i-1 is the low byte.
LoadWords(h) == [i \in 1 .. 10 |-> h[2 * i - 1] + 256 * h[2 * i]]

RECURSIVE FoldRounds(_, _)
\* n rounds of: if (csum >> 16) csum = (csum & 0xffff) + (csum >> 16).
FoldRounds(c, n) ==
  IF n = 0 THEN c
  ELSE FoldRounds(IF c \div 65536 # 0 THEN (c % 65536) + (c \div 65536) ELSE c, n - 1)

\* Mutant: the loop runs once.
trn_csum_fold_helper_once(c) == 65535 - (FoldRounds(c, 1) % 65536)

\* return ~csum, truncated to the __u16 return type.
trn_csum_fold_helper(c) == 65535 - (FoldRounds(c, 4) % 65536)

\* csum starts at 0, adds the ten loads, and is folded.
trn_ipv4_csum_inline(h) == trn_csum_fold_helper(SumOf(LoadWords(h)))

\* ip->ttl-- (a __u8), the two stores, ip->check = 0, the sum, and
\* ip->check = csum stored as a little-endian __u16 at bytes 11-12.
SetSrcDstIpCsum(h, s, d) ==
  LET h1 == [h EXCEPT ![9] = (h[9] + 255) % 256]
      h2 == SetBytes(trn_set_dst_ip(trn_set_src_ip(h1, s), d), 11, <<0, 0>>)
      c  == trn_ipv4_csum_inline(h2)
  IN  SetBytes(h2, 11, <<c % 256, c \div 256>>)

Init ==
  /\ ip \in Headers
  /\ pc = "in"

trn_set_src_dst_ip_csum ==
  /\ pc = "in"
  /\ \E s, d \in Addrs : ip' = SetSrcDstIpCsum(ip, s, d)
  /\ pc' = "out"

\* The function has returned; nothing more happens to this header.
Done == pc = "out" /\ UNCHANGED vars

Next == trn_set_src_dst_ip_csum \/ Done

Spec == Init /\ [][Next]_vars

-----------------------------------------------------------------------------
(* The reference: RFC 1071 as a receiver applies it.                       *)

\* The header as ten 16-bit words in network byte order.
NetWords(h) == [i \in 1 .. 10 |-> 256 * h[2 * i - 1] + h[2 * i]]

RECURSIVE OnesFold(_)
\* End-around carry until the sum fits in 16 bits.
OnesFold(x) == IF x < 65536 THEN x ELSE OnesFold((x % 65536) + (x \div 65536))

\* A receiver accepts the header: the ones'-complement sum of its words,
\* checksum included, is all ones.
HeaderChecksumOk(h) == OnesFold(SumOf(NetWords(h))) = 65535

TypeOK ==
  /\ Len(ip) = 20
  /\ \A i \in 1 .. 20 : ip[i] \in 0 .. 255
  /\ pc \in {"in", "out"}

\* Whatever the header held before, including a stale checksum, and
\* whatever addresses are written, the header the function leaves is one a
\* receiver accepts: the little-endian sum, the bounded fold and the __u16
\* store together compute the wire checksum.
CsumVerifies == pc = "out" => HeaderChecksumOk(ip)
=============================================================================
