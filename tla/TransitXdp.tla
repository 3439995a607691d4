----------------------------- MODULE TransitXdp -----------------------------
(***************************************************************************)
(* The transit XDP program of src/src/xdp/trn_transit_xdp.c and the RPC   *)
(* handlers of src/src/dmn/trn_rpc_protocol_handlers_1.c that write the   *)
(* maps it reads.                                                          *)
(*                                                                         *)
(* Every CPU runs _transit on its own frame.  One invocation is split into *)
(* one action per trn_process_* function, at the points where the code     *)
(* reads memory other CPUs or the control plane write: the interface       *)
(* config (a pointer into the if_config_map ARRAY value, read again by     *)
(* each function), the endpoints map, the global pkt_not_add_tail, the     *)
(* jump table and the AF_XDP socket map.  The frame itself is private to   *)
(* its invocation, so the header fields each function parses are chosen   *)
(* with \E when that function reads them.                                  *)
(***************************************************************************)
EXTENDS Integers, Sequences, SequencesExt

CONSTANTS
  CPUs,           \* execution contexts running _transit concurrently
  RxQueues,       \* receive queue indices (ctx->rx_queue_index)
  Vnis,           \* tenant network identifiers
  TenantIps,      \* inner (overlay) IPv4 addresses
  TenantMacs,     \* inner (overlay) MAC addresses carried by frames
  EpVals,         \* endpoint_t values: records [hip, mac, hmac]
  NoEp,           \* model value: no entry in endpoints_map
  HostIps,        \* underlay IPs of other hosts (never an entrance)
  HostMacs,       \* underlay MACs of other hosts (never an entrance)
  EntranceIps,    \* underlay IPs an interface may own as entrances
  EntranceMacs,   \* underlay MACs an interface may own as entrances
  Droplets,       \* entrance lists update_droplet_1 may receive (sequences)
  StackGarbage,   \* what itf.entrances holds on the handler's stack before
                  \* its loop runs (functions 0 .. MaxEntrances - 1 -> entrance)
  InitConfigs,    \* if_config_map entries the program may be attached with
  MaxEntrances,   \* TRAN_MAX_ZGC_ENTRANCES
  MaxTtl,         \* largest outer TTL in the frames we enumerate
  TotLens,        \* outer IPv4 tot_len values of the frames we enumerate
  OptLens,        \* Geneve opt_len values (in 4-byte units)
  RtsOptSize,     \* sizeof(struct trn_gnv_rts_opt)
  SepOptSize,     \* sizeof(struct trn_gnv_scaled_ep_opt)
  AppendTail,     \* build flag appendTail
  SgSupport,      \* build flag sgSupport
  SgRules,        \* keys present in sg_cidr_map
  Ports,          \* inner L4 destination ports
  Batches,        \* endpoint batches update_ep_1 may receive
  StageKeys,      \* jmp_table slots the control plane may populate
  None            \* model value: a field the frame has not reached yet

ASSUME MaxEntrances \in Nat \ {0} /\ MaxTtl \in Nat

VARIABLES
  itf,            \* if_config_map[ingress ifindex]
  eps,            \* endpoints_map
  jmp,            \* populated jmp_table slots
  xsks,           \* rx queues with a bound AF_XDP socket (xsks_map)
  pkt_not_add_tail, \* the program's global variable of that name
  pc,             \* per CPU: which function of _transit runs next
  pkt,            \* per CPU: struct transit_packet and the verdict
  rpc,            \* the RPC server thread (one request at a time)
  cfgSeen         \* history: every config the interface has held

vars == <<itf, eps, jmp, xsks, pkt_not_add_tail, pc, pkt, rpc, cfgSeen>>
ctl  == <<itf, eps, jmp, xsks, rpc, cfgSeen>>

-----------------------------------------------------------------------------
(* Data.                                                                   *)

Roles == {"XDP_FWD", "XDP_FTN"}
Actions == {"ABORTED", "DROP", "PASS", "TX", "REDIRECT", "EP_NOT_FOUND"}
EpKeys == Vnis \X TenantIps
\* endpoint_t fields: host IP, endpoint MAC, host MAC.
Hip(e)  == e.hip
Mac(e)  == e.mac
Hmac(e) == e.hmac
EthHdrLen == 14
IpHdrLen  == 20
HintsLen  == 16             \* sizeof(struct xdp_hints_src)
\* Bytes of outer IP packet needed to reach the inner L4 header (VXLAN).
MinIpBytes == IpHdrLen + 8 + 8 + EthHdrLen + IpHdrLen

\* struct tunnel_iface_t entrance records (ip, mac); announced is always 0.
Entrances == [ip : EntranceIps, mac : EntranceMacs]

\* Mutant: the scan is bounded by TRAN_MAX_ZGC_ENTRANCES only.
EntIdxMaxOnly(cfg) == 0 .. (MaxEntrances - 1)

\* Entrance slots trn_process_eth scans: i < num_entrances, i < MAX.
EntIdx(cfg) == 0 .. (Min({cfg.num_entrances, MaxEntrances}) - 1)

\* The address the uninitialised-to-zero tip holds: 0.0.0.0.
ZeroIp == "0.0.0.0"

\* The endpoint key built from a vni and an inner IP.
EpKey(vni, ip) == <<vni, ip>>

Blank == [tail |-> FALSE, rxq |-> None, ent_idx |-> 0,
          in |-> None, out |-> None, tunnel |-> None, vni |-> None,
          path |-> None, inner |-> None, arp |-> None, ep |-> NoEp,
          tip |-> None, addTail |-> None, trailer |-> None,
          action |-> None, final |-> None]

-----------------------------------------------------------------------------
(* Initial state: program just attached, interface config as given.        *)

Init ==
  /\ itf \in InitConfigs
  /\ eps = [k \in EpKeys |-> NoEp]
  /\ jmp = {}
  /\ xsks = {}
  /\ pkt_not_add_tail = 1
  /\ pc = [c \in CPUs |-> "idle"]
  /\ pkt = [c \in CPUs |-> Blank]
  /\ rpc = [op |-> "idle", todo |-> <<>>, batch |-> <<>>,
            pre |-> [k \in EpKeys |-> NoEp], result |-> None]
  /\ cfgSeen = {itf}

-----------------------------------------------------------------------------
(* Data plane.                                                             *)

\* A trn_process_* function returns verdict a to _transit.
Verdict(c, a) ==
  /\ pkt' = [pkt EXCEPT ![c].action = a]
  /\ pc' = [pc EXCEPT ![c] = "dispatch"]

Goto(c, next, p) ==
  /\ pkt' = [pkt EXCEPT ![c] = p]
  /\ pc' = [pc EXCEPT ![c] = next]

\* _transit, up to the call of trn_process_eth: grow the tail (writing the
\* shared global with this frame's result), then look up the interface.
\* if_config_map is an array of TRAN_MAX_ITF entries indexed by the ingress
\* ifindex: an index past it misses, and the frame is XDP_ABORTED at once.
Receive(c) ==
  /\ pc[c] \in {"idle", "done"}
  /\ \E grown \in BOOLEAN, q \in RxQueues :
       LET p == [Blank EXCEPT !.tail = AppendTail /\ grown, !.rxq = q] IN
       /\ pkt_not_add_tail' = IF AppendTail THEN (IF grown THEN 0 ELSE 1)
                                            ELSE pkt_not_add_tail
       /\ \/ Goto(c, "eth", p)
          \/ Goto(c, "done", [p EXCEPT !.final = [via |-> "return", act |-> "ABORTED"]])
  /\ UNCHANGED ctl

\* Ethernet header: pass non-IPv4, else find the entrance owning h_dest.
trn_process_eth(c) ==
  /\ pc[c] = "eth"
  /\ \/ Verdict(c, "ABORTED")                    \* header overruns data_end
     \/ Verdict(c, "PASS")                       \* h_proto is not IPv4
     \/ \E dmac \in EntranceMacs \cup HostMacs, smac \in HostMacs :
          LET hits == {i \in EntIdx(itf) : itf.entrances[i].mac = dmac}
          IN  \/ /\ hits = {}
                 /\ Verdict(c, "ABORTED")        \* frame not for us
              \/ /\ hits # {}
                 /\ Goto(c, "ip", [pkt[c] EXCEPT !.ent_idx = Min(hits),
                                     !.in = [dmac |-> dmac, smac |-> smac]])
  /\ UNCHANGED <<pkt_not_add_tail>>
  /\ UNCHANGED ctl

\* Mutant: the TTL test is left out.
TtlExpiredUnchecked(ttl) == FALSE

\* trn_process_ip's test "if (!pkt->ip->ttl)": the TTL as received, before
\* any decrement.
TtlExpired(ttl) == ttl = 0

\* Outer IPv4 header: must be addressed to the matched entrance, TTL > 0,
\* and UDP to go further.
trn_process_ip(c) ==
  /\ pc[c] = "ip"
  /\ \/ Verdict(c, "ABORTED")                    \* header overruns data_end
     \/ \E daddr \in EntranceIps \cup HostIps, saddr \in HostIps,
           ttl \in 0 .. MaxTtl, udp \in BOOLEAN, totLen \in TotLens,
           len \in {l \in TotLens : l >= MinIpBytes} :
          \* tot_len is the header's claim; len is how many bytes of IP packet
          \* the frame really holds (nothing compares the two).
          LET p == [pkt[c] EXCEPT !.in = [daddr |-> daddr, saddr |-> saddr,
                                  ttl |-> ttl, tot_len |-> totLen,
                                  len |-> len] @@ @]
          IN  \/ /\ daddr # itf.entrances[pkt[c].ent_idx].ip
                 /\ Verdict(c, "ABORTED")
              \/ /\ daddr = itf.entrances[pkt[c].ent_idx].ip
                 /\ TtlExpired(ttl)
                 /\ Verdict(c, "DROP")
              \/ /\ daddr = itf.entrances[pkt[c].ent_idx].ip
                 /\ ~TtlExpired(ttl)
                 /\ ~udp
                 /\ Verdict(c, "PASS")
              \/ /\ daddr = itf.entrances[pkt[c].ent_idx].ip
                 /\ ~TtlExpired(ttl)
                 /\ udp
                 /\ Goto(c, "udp", p)
  /\ UNCHANGED <<pkt_not_add_tail>>
  /\ UNCHANGED ctl

\* UDP header: the destination port and the interface role select the
\* tunnel; anything else is left to the host.
trn_process_udp(c) ==
  /\ pc[c] = "udp"
  /\ \/ Verdict(c, "ABORTED")                    \* header overruns data_end
     \/ \E dport \in {"GEN_DSTPORT", "VXL_DSTPORT", "OTHER"} :
          \/ /\ dport = "GEN_DSTPORT" /\ itf.role = "XDP_FTN"
             /\ Goto(c, "geneve", [pkt[c] EXCEPT !.tunnel = "geneve"])
          \/ /\ dport = "VXL_DSTPORT" /\ itf.role = "XDP_FWD"
             /\ Goto(c, "vxlan", [pkt[c] EXCEPT !.tunnel = "vxlan"])
          \/ /\ ~(dport = "GEN_DSTPORT" /\ itf.role = "XDP_FTN")
             /\ ~(dport = "VXL_DSTPORT" /\ itf.role = "XDP_FWD")
             /\ Verdict(c, "PASS")
  /\ UNCHANGED <<pkt_not_add_tail>>
  /\ UNCHANGED ctl

\* The option length the Geneve header declares must equal the two fixed
\* options trn_process_geneve walks.
GeneveOptLenOk(optLen) == RtsOptSize + SepOptSize = optLen * 4

\* Geneve header with its RTS and scaled-endpoint options.
trn_process_geneve(c) ==
  /\ pc[c] = "geneve"
  /\ \/ Verdict(c, "ABORTED")   \* header or an option overruns data_end,
                                \* proto_type is not TEB, or an option class
                                \* is not TRN_GNV_OPT_CLASS
     \/ \E optLen \in OptLens, vni \in Vnis :
          \/ /\ ~GeneveOptLenOk(optLen)
             /\ Verdict(c, "ABORTED")
          \/ /\ GeneveOptLenOk(optLen)
             /\ Goto(c, "inner_eth", [pkt[c] EXCEPT !.vni = vni])
  /\ UNCHANGED <<pkt_not_add_tail>>
  /\ UNCHANGED ctl

\* VXLAN header: only the VNI is read.
trn_process_vxlan(c) ==
  /\ pc[c] = "vxlan"
  /\ \/ Verdict(c, "ABORTED")                    \* header overruns data_end
     \/ \E vni \in Vnis : Goto(c, "inner_eth", [pkt[c] EXCEPT !.vni = vni])
  /\ UNCHANGED <<pkt_not_add_tail>>
  /\ UNCHANGED ctl

\* Inner Ethernet header: ARP goes to the proxy on a forwarder (the role is
\* read again here), IPv4 to forwarding, anything else is dropped.
trn_process_inner_eth(c) ==
  /\ pc[c] = "inner_eth"
  /\ \/ Verdict(c, "ABORTED")                    \* header overruns data_end
     \/ \E proto \in {"IP", "ARP", "OTHER"} :
          \/ /\ itf.role = "XDP_FWD" /\ proto = "ARP"
             /\ Goto(c, "inner_arp", [pkt[c] EXCEPT !.path = "arp"])
          \/ /\ ~(itf.role = "XDP_FWD" /\ proto = "ARP")
             /\ proto # "IP"
             /\ Verdict(c, "DROP")
          \/ /\ proto = "IP"
             /\ Goto(c, "inner_ip", [pkt[c] EXCEPT !.path = "ip"])
  /\ UNCHANGED <<pkt_not_add_tail>>
  /\ UNCHANGED ctl


\* trn_sg_check: the egress rule is looked up with the port fixed to 30011;
\* the ingress rule with source and destination swapped and the inner L4
\* destination port.  A protocol other than TCP or UDP returns XDP_PASS after
\* the egress lookup alone.
trn_sg_check(vni, src, dst, proto, l4ok, dport) ==
  CASE <<vni, src, dst, proto, 30011, 0>> \notin SgRules -> "DROP"
    [] proto \notin {"TCP", "UDP"}                       -> "PASS"
    [] ~l4ok                                             -> "ABORTED"
    [] <<vni, dst, src, proto, dport, 1>> \notin SgRules -> "DROP"
    [] OTHER                                             -> "PASS"

\* The flag trn_process_inner_ip reads (twice) to decide on the source hint.
AddTail(proto) == AppendTail /\ proto # "ICMP" /\ pkt_not_add_tail = 0

\* trn_process_inner_ip up to the first read of pkt_not_add_tail: security
\* check, endpoint lookup, L4 header, inner destination MAC, saved source.
trn_process_inner_ip(c) ==
  /\ pc[c] = "inner_ip"
  /\ \/ Verdict(c, "ABORTED")                    \* inner IP overruns data_end
     \/ \E src \in TenantIps, dst \in TenantIps, proto \in {"TCP", "UDP", "ICMP"},
           l4ok \in BOOLEAN, dport \in Ports :
          LET p  == pkt[c]
              sg == IF SgSupport THEN trn_sg_check(p.vni, src, dst, proto, l4ok, dport)
                                 ELSE "PASS"
              ep == eps[EpKey(p.vni, dst)]
              l4 == proto \in {"TCP", "UDP"}
              flow == [src |-> src, dst |-> dst, proto |-> proto,
                       dport |-> IF l4 THEN dport ELSE None, dmac |-> None]
          IN  \/ /\ sg # "PASS"
                 /\ Verdict(c, sg)
              \/ /\ sg = "PASS" /\ ep = NoEp
                 /\ Goto(c, "dispatch", [p EXCEPT !.action = "EP_NOT_FOUND",
                                                  !.inner = flow])
              \/ /\ sg = "PASS" /\ ep # NoEp /\ l4 /\ ~l4ok
                 /\ Verdict(c, "ABORTED")        \* TCP/UDP header overruns
              \/ /\ sg = "PASS" /\ ep # NoEp /\ (l4 => l4ok)
                 /\ Goto(c, "inner_ip_tx",
                         [p EXCEPT !.ep = ep,
                                   !.inner = [flow EXCEPT !.dmac = Mac(ep)],
                                   !.tip = IF AddTail(proto) THEN p.in.saddr ELSE ZeroIp])
  /\ UNCHANGED <<pkt_not_add_tail>>
  /\ UNCHANGED ctl

\* The outer header after trn_set_src_dst_ip_csum (TTL decremented as __u8,
\* addresses set, checksum recomputed) and trn_set_src_mac/trn_set_dst_mac.
ForwardedOuter(p) ==
  [smac |-> p.in.dmac, dmac |-> Hmac(p.ep),
   saddr |-> p.in.daddr, daddr |-> Hip(p.ep), ttl |-> (p.in.ttl - 1) % 256]

\* Where the source hint goes: after tot_len & 0xFFF bytes of IP packet.
HintOffset(p) == EthHdrLen + (p.in.tot_len % 4096)
\* data_end: the frame's IP bytes, plus what adjust_tail added to it.
FrameEnd(p) == EthHdrLen + p.in.len + (IF p.tail THEN HintsLen ELSE 0)

\* trn_process_inner_ip from the outer rewrite on: the second read of
\* pkt_not_add_tail decides whether the source hint is written.
trn_process_inner_ip_tx(c) ==
  /\ pc[c] = "inner_ip_tx"
  /\ LET p   == [pkt[c] EXCEPT !.out = ForwardedOuter(pkt[c]),
                               !.addTail = AddTail(pkt[c].inner.proto)]
         hint == [vni |-> p.vni, saddr |-> p.tip, smac |-> p.out.smac,
                  at |-> HintOffset(p)]
     IN  \/ /\ ~p.addTail
            /\ Goto(c, "dispatch", [p EXCEPT !.action = "TX"])
         \/ /\ p.addTail /\ p.in.tot_len < 2
            /\ Goto(c, "dispatch", [p EXCEPT !.action = "DROP"])
         \/ /\ p.addTail /\ p.in.tot_len >= 2
            /\ HintOffset(p) + HintsLen > FrameEnd(p)
            /\ Goto(c, "dispatch", [p EXCEPT !.action = "ABORTED"])
         \/ /\ p.addTail /\ p.in.tot_len >= 2
            /\ HintOffset(p) + HintsLen <= FrameEnd(p)
            /\ Goto(c, "dispatch", [p EXCEPT !.trailer = hint, !.action = "TX"])
  /\ UNCHANGED <<pkt_not_add_tail>>
  /\ UNCHANGED ctl

\* The ARP reply trn_process_inner_arp builds from request req for endpoint
\* e: opcode flipped, target MAC <- sender MAC, sender MAC <- endpoint MAC,
\* sender and target IPs swapped.
ArpReply(req, e) ==
  [op |-> "REPLY", tha |-> req.sha, sha |-> Mac(e), sip |-> req.tip, tip |-> req.sip]

\* Inner ARP request for an endpoint: answered in place, sent back out.
trn_process_inner_arp(c) ==
  /\ pc[c] = "inner_arp"
  /\ \/ Verdict(c, "ABORTED")   \* ARP header, sha, sip, tha or tip overruns
     \/ Verdict(c, "DROP")      \* not IPv4-over-Ethernet, or not a REQUEST
     \/ \E ismac \in TenantMacs, sha \in TenantMacs, sip \in TenantIps,
           tip \in TenantIps :
          LET p   == pkt[c]
              ep  == eps[EpKey(p.vni, tip)]
              req == [op |-> "REQUEST", sha |-> sha, sip |-> sip, tha |-> None,
                      tip |-> tip]
          IN  \/ /\ ep = NoEp
                 /\ Verdict(c, "EP_NOT_FOUND")
              \/ /\ ep # NoEp
                 /\ Goto(c, "dispatch",
                      [p EXCEPT !.ep = ep, !.action = "TX",
                         !.arp = [req |-> req, rep |-> ArpReply(req, ep)],
                         !.inner = [smac_in |-> ismac,
                                    dmac |-> ismac, smac |-> Mac(ep)],
                         !.out = [smac |-> p.in.dmac, dmac |-> p.in.smac,
                                  saddr |-> p.in.daddr, daddr |-> p.in.saddr,
                                  ttl |-> (p.in.ttl - 1) % 256]])
  /\ UNCHANGED <<pkt_not_add_tail>>
  /\ UNCHANGED ctl

\* What _transit does with a verdict other than EP_NOT_FOUND: tail-call the
\* verdict's stage if jmp_table holds one, else return it through xdpcap.
DispatchResult(a) ==
  CASE a \in {"PASS", "DROP", "TX", "REDIRECT"} ->
         IF a \in jmp THEN [via |-> "tail", act |-> a]
                      ELSE [via |-> "exit", act |-> a]
    [] a = "ABORTED" -> [via |-> "exit", act |-> "ABORTED"]
    [] OTHER         -> [via |-> "exit", act |-> "PASS"]

\* Mutant: "action = XDP_DROP" is missing; EP_NOT_FOUND falls through.
NoSocketVerdictKept == "EP_NOT_FOUND"

\* The verdict an unknown endpoint becomes when no AF_XDP socket is bound.
NoSocketVerdict == "DROP"

Final(c, f) ==
  /\ pkt' = [pkt EXCEPT ![c].final = f]
  /\ pc' = [pc EXCEPT ![c] = "done"]

\* _transit after trn_process_eth returned.
transit_dispatch(c) ==
  /\ pc[c] = "dispatch"
  /\ LET a == pkt[c].action IN
       \/ /\ a = "EP_NOT_FOUND" /\ pkt[c].rxq \in xsks
          /\ pc' = [pc EXCEPT ![c] = "xsk_redirect"]
          /\ UNCHANGED pkt
       \/ /\ a = "EP_NOT_FOUND" /\ pkt[c].rxq \notin xsks
          /\ Final(c, DispatchResult(NoSocketVerdict))
       \/ /\ a # "EP_NOT_FOUND"
          /\ Final(c, DispatchResult(a))
  /\ UNCHANGED <<pkt_not_add_tail>>
  /\ UNCHANGED ctl

\* bpf_redirect_map(&xsks_map, rx_q_index, 0): looks the socket up again.
xsk_redirect(c) ==
  /\ pc[c] = "xsk_redirect"
  /\ Final(c, IF pkt[c].rxq \in xsks THEN [via |-> "xsk", act |-> "REDIRECT"]
                                     ELSE [via |-> "return", act |-> "ABORTED"])
  /\ UNCHANGED <<pkt_not_add_tail>>
  /\ UNCHANGED ctl

-----------------------------------------------------------------------------
(* Control plane: the RPC handlers, served one request at a time.          *)

RpcFree == rpc.op \in {"idle", "replied"}

\* The endpoints map after writing the <<key, value>> pairs of s in order.
ApplyBatch(m, s) == FoldLeft(LAMBDA acc, kv : [acc EXCEPT ![kv[1]] = kv[2]], m, s)

\* update_ep_1_svc: get the map context, or fail with RPC_TRN_ERROR.
update_ep_1_svc ==
  /\ RpcFree
  /\ \E b \in Batches :
       \/ rpc' = [op |-> "update_ep", todo |-> b, batch |-> b, pre |-> eps,
                  result |-> None]
       \/ rpc' = [op |-> "replied", todo |-> b, batch |-> b, pre |-> eps,
                  result |-> "RPC_TRN_ERROR"]          \* ctx < 0
  /\ UNCHANGED <<itf, eps, jmp, xsks, cfgSeen, pkt_not_add_tail, pc, pkt>>

\* Mutant: a failed element is skipped and the loop goes on.
update_ep_loop_skip ==
  /\ rpc.op = "update_ep"
  /\ \/ /\ rpc.todo = <<>>
        /\ rpc' = [rpc EXCEPT !.op = "replied", !.result = "OK"]
        /\ UNCHANGED eps
     \/ /\ rpc.todo # <<>>
        /\ eps' = [eps EXCEPT ![Head(rpc.todo)[1]] = Head(rpc.todo)[2]]
        /\ rpc' = [rpc EXCEPT !.todo = Tail(@)]
     \/ /\ rpc.todo # <<>>
        /\ rpc' = [rpc EXCEPT !.todo = Tail(@)]
        /\ UNCHANGED eps
  /\ UNCHANGED <<itf, jmp, xsks, cfgSeen, pkt_not_add_tail, pc, pkt>>

\* One iteration of the batch loop: trn_update_endpoint writes one entry, or
\* fails and the handler gives up on the rest of the batch.

update_ep_loop ==
  /\ rpc.op = "update_ep"
  /\ \/ /\ rpc.todo = <<>>
        /\ rpc' = [rpc EXCEPT !.op = "replied", !.result = "OK"]
        /\ UNCHANGED eps
     \/ /\ rpc.todo # <<>>
        /\ eps' = [eps EXCEPT ![Head(rpc.todo)[1]] = Head(rpc.todo)[2]]
        /\ rpc' = [rpc EXCEPT !.todo = Tail(@)]
     \/ /\ rpc.todo # <<>>
        /\ rpc' = [rpc EXCEPT !.op = "replied", !.result = "RPC_TRN_ERROR"]
        /\ UNCHANGED eps
  /\ UNCHANGED <<itf, jmp, xsks, cfgSeen, pkt_not_add_tail, pc, pkt>>

\* A handler other than update_ep_1_svc replies with result r.
Reply(r) == rpc' = [rpc EXCEPT !.op = "idle", !.result = r]

\* delete_ep_1_svc: trn_delete_endpoint removes the key; an absent key is an
\* error that changes nothing.
delete_ep_1_svc ==
  /\ RpcFree
  /\ \E k \in EpKeys :
       \/ /\ eps[k] # NoEp
          /\ eps' = [eps EXCEPT ![k] = NoEp]
          /\ Reply("OK")
       \/ /\ eps[k] = NoEp
          /\ Reply("RPC_TRN_ERROR")
          /\ UNCHANGED eps
  /\ UNCHANGED <<itf, jmp, xsks, cfgSeen, pkt_not_add_tail, pc, pkt>>

\* The tunnel_iface_t update_droplet_1_svc builds on its stack: entrance i
\* for i < num_entrances copied from the droplet, the slots above left as
\* the stack held them (g), num_entrances = the droplet's count, and the
\* role of the interface context (the one the interface was loaded with).
DropletConfig(role, d, g) ==
  [role |-> role, num_entrances |-> Len(d),
   entrances |-> [i \in 0 .. MaxEntrances - 1 |-> IF i < Len(d) THEN d[i + 1] ELSE g[i]]]

\* update_droplet_1_svc: look up the interface context (failing with
\* RPC_TRN_ERROR), copy the droplet into the stack tunnel_iface_t and write
\* it whole into if_config_map (a failed write changes nothing).  Nothing
\* bounds the loop by TRAN_MAX_ZGC_ENTRANCES: with more entrances than that
\* it writes past itf.entrances on the stack.  That is undefined; the build
\* writes the config either way (the slots that fit hold the first
\* entrances, num_entrances the full count), and then either returns or,
\* its stack canary clobbered, the daemon aborts and serves no more RPCs.
update_droplet_1_svc ==
  /\ RpcFree
  /\ \/ \E d \in Droplets, g \in StackGarbage :
          LET cfg == DropletConfig(itf.role, d, g) IN
          \/ /\ itf' = cfg
             /\ cfgSeen' = cfgSeen \cup {cfg}
             /\ Reply("OK")
          \/ /\ Len(d) > MaxEntrances               \* aborts on return
             /\ itf' = cfg
             /\ cfgSeen' = cfgSeen \cup {cfg}
             /\ rpc' = [rpc EXCEPT !.op = "crashed"]
     \/ /\ Reply("RPC_TRN_ERROR")   \* no interface context, or the map write fails
        /\ UNCHANGED <<itf, cfgSeen>>
  /\ UNCHANGED <<eps, jmp, xsks, pkt_not_add_tail, pc, pkt>>

\* load_transit_xdp_ebpf_1_svc / unload_transit_xdp_ebpf_1_svc: install or
\* remove the stage program of one jmp_table slot; on failure the slot is
\* left as it was.
load_transit_xdp_ebpf_1_svc ==
  /\ RpcFree
  /\ \E k \in StageKeys :
       \/ /\ jmp' = jmp \cup {k}
          /\ Reply("OK")
       \/ /\ Reply("RPC_TRN_ERROR")
          /\ UNCHANGED jmp
  /\ UNCHANGED <<itf, eps, xsks, cfgSeen, pkt_not_add_tail, pc, pkt>>

unload_transit_xdp_ebpf_1_svc ==
  /\ RpcFree
  /\ \E k \in StageKeys :
       \/ /\ k \in jmp
          /\ jmp' = jmp \ {k}
          /\ Reply("OK")
       \/ /\ Reply("RPC_TRN_ERROR")
          /\ UNCHANGED jmp
  /\ UNCHANGED <<itf, eps, xsks, cfgSeen, pkt_not_add_tail, pc, pkt>>

\* A user-space AF_XDP consumer binds or closes its socket on a queue.
XskBind ==
  /\ \E q \in RxQueues \ xsks : xsks' = xsks \cup {q}
  /\ UNCHANGED <<itf, eps, jmp, rpc, cfgSeen, pkt_not_add_tail, pc, pkt>>

XskUnbind ==
  /\ \E q \in xsks : xsks' = xsks \ {q}
  /\ UNCHANGED <<itf, eps, jmp, rpc, cfgSeen, pkt_not_add_tail, pc, pkt>>

-----------------------------------------------------------------------------

DataPlane(c) ==
  \/ Receive(c)
  \/ trn_process_eth(c)
  \/ trn_process_ip(c)
  \/ trn_process_udp(c)
  \/ trn_process_geneve(c)
  \/ trn_process_vxlan(c)
  \/ trn_process_inner_eth(c)
  \/ trn_process_inner_ip(c)
  \/ trn_process_inner_ip_tx(c)
  \/ trn_process_inner_arp(c)
  \/ transit_dispatch(c)
  \/ xsk_redirect(c)

ControlPlane ==
  \/ update_ep_1_svc
  \/ update_ep_loop
  \/ delete_ep_1_svc
  \/ update_droplet_1_svc
  \/ load_transit_xdp_ebpf_1_svc
  \/ unload_transit_xdp_ebpf_1_svc
  \/ XskBind
  \/ XskUnbind

Next == (\E c \in CPUs : DataPlane(c)) \/ ControlPlane

Spec == Init /\ [][Next]_vars

-----------------------------------------------------------------------------
(* Properties.                                                             *)

Addr(S) == S \cup {Hip(e) : e \in EpVals}
MacAddr(S) == S \cup {Hmac(e) : e \in EpVals} \cup {Mac(e) : e \in EpVals}
Finals == [via : {"exit", "tail", "xsk", "return"}, act : Actions]

TypeOK ==
  /\ itf.role \in Roles
  /\ itf.num_entrances \in Nat
  /\ itf.entrances \in [0 .. MaxEntrances - 1 -> Entrances]
  /\ eps \in [EpKeys -> EpVals \cup {NoEp}]
  /\ jmp \subseteq StageKeys
  /\ xsks \subseteq RxQueues
  /\ pkt_not_add_tail \in {0, 1}
  /\ pc \in [CPUs -> {"idle", "eth", "ip", "udp", "geneve", "vxlan",
                      "inner_eth", "inner_ip", "inner_ip_tx", "inner_arp",
                      "dispatch", "xsk_redirect", "done"}]
  /\ \A c \in CPUs :
       /\ pkt[c].action \in Actions \cup {None}
       /\ pkt[c].final \in Finals \cup {None}
       /\ pkt[c].out # None =>
            /\ pkt[c].out.ttl \in 0 .. MaxTtl
            /\ pkt[c].out.saddr \in Addr(EntranceIps \cup HostIps)
            /\ pkt[c].out.daddr \in Addr(EntranceIps \cup HostIps)
            /\ pkt[c].out.dmac \in MacAddr(EntranceMacs \cup HostMacs)
  /\ rpc.op \in {"idle", "update_ep", "replied", "crashed"}
  /\ rpc.result \in {None, "OK", "RPC_TRN_ERROR"}

\* A frame whose endpoint is unknown (EP_NOT_FOUND from either inner
\* handler) goes to the slow-path AF_XDP socket or is dropped; _transit never
\* hands it to the host stack nor sends it back out.
NoEndpointNeverDelivered ==
  \A c \in CPUs :
    (pc[c] = "done" /\ pkt[c].action = "EP_NOT_FOUND") =>
      pkt[c].final.act \in {"REDIRECT", "DROP", "ABORTED"}

\* When update_ep_1_svc replies, the endpoints map is the map it started
\* from with a prefix of the batch written, and it replies success exactly
\* when the whole batch was written.
BatchAppliesPrefix ==
  rpc.op = "replied" =>
    \E n \in 0 .. Len(rpc.batch) :
      /\ eps = ApplyBatch(rpc.pre, SubSeq(rpc.batch, 1, n))
      /\ (rpc.result = "OK") = (n = Len(rpc.batch))

\* A frame trn_process_inner_ip or trn_process_inner_arp rewrites and sends
\* back out leaves with a TTL of at least 1 (spec 4.4: a TTL that reaches
\* zero after the decrement is dropped).
TtlNeverExpiresInFlight ==
  \A c \in CPUs :
    (pc[c] = "done" /\ pkt[c].final.act = "TX" /\ pkt[c].out # None) =>
      pkt[c].out.ttl >= 1

\* The entrance a frame is accepted on is one entrance of one config the
\* interface actually held: trn_process_eth matches its MAC and
\* trn_process_ip its IP, each reading if_config_map anew.
ConfigSnapshotConsistent ==
  \A c \in CPUs :
    (pc[c] = "done" /\ pkt[c].in # None /\ "daddr" \in DOMAIN pkt[c].in
       /\ pkt[c].action # "ABORTED") =>
      \E cfg \in cfgSeen :
        /\ \E i \in EntIdx(cfg) :
             cfg.entrances[i] = [ip |-> pkt[c].in.daddr, mac |-> pkt[c].in.dmac]

\* The entrances a config holds because a droplet (or the attach) put them
\* there: its first num_entrances slots, as far as the array reaches.
Announced(cfg) ==
  {cfg.entrances[i] : i \in 0 .. Min({cfg.num_entrances, MaxEntrances}) - 1}

\* A frame trn_process_eth and trn_process_ip accept arrived on a MAC and an
\* IP that some droplet announced to this interface: never on what
\* update_droplet_1_svc left uninitialised on its stack above num_entrances,
\* nor on what an over-long droplet wrote past the array, even while
\* update_droplet_1_svc rewrites the config between the two checks.
EntranceAnnounced ==
  \A c \in CPUs :
    (pc[c] = "done" /\ pkt[c].in # None /\ "daddr" \in DOMAIN pkt[c].in
       /\ pkt[c].action # "ABORTED") =>
      LET seen == UNION {Announced(cfg) : cfg \in cfgSeen} IN
        /\ pkt[c].in.dmac \in {e.mac : e \in seen}
        /\ pkt[c].in.daddr \in {e.ip : e \in seen}

\* The source hint is this frame's own: it is written exactly when this
\* frame's bpf_xdp_adjust_tail grew it (and it is not ICMP), and it names
\* the frame's original outer source IP.
TrailerOwnTail ==
  \A c \in CPUs :
    (pc[c] = "done" /\ pkt[c].addTail # None) =>
      /\ pkt[c].addTail = (pkt[c].tail /\ pkt[c].inner.proto # "ICMP")
      /\ pkt[c].trailer # None => pkt[c].trailer.saddr = pkt[c].in.saddr

\* The source hint names the host the frame came from: the outer source IP
\* and the outer source MAC the frame arrived with (what cn_dpnd installs
\* as the direct path's dhip and dhmac).
TrailerNamesSourceHost ==
  \A c \in CPUs :
    (pc[c] = "done" /\ pkt[c].trailer # None) =>
      /\ pkt[c].trailer.saddr = pkt[c].in.saddr
      /\ pkt[c].trailer.smac = pkt[c].in.smac

\* The source hint is written after the outer IP packet, never over it.
TrailerOutsideIpPacket ==
  \A c \in CPUs :
    (pc[c] = "done" /\ pkt[c].trailer # None) =>
      pkt[c].trailer.at >= EthHdrLen + pkt[c].in.tot_len

=============================================================================
