------------------------------- MODULE CnDpnd -------------------------------
(***************************************************************************)
(* The compute-node direct-path daemon of src/cn/cn_dpnd: the XDP program  *)
(* of cn_dpnd_xdp.c, which reads the source hint a transit appended and    *)
(* pushes a direct-path request (flow_ctx_t) onto the BPF QUEUE map        *)
(* local_queue_map, and the user-space loop cn_dp_assistant of             *)
(* cn_dpnd_usr.c, which pops the requests and sends them.                  *)
(*                                                                         *)
(* The XDP program shares nothing with other CPUs but the queue, whose     *)
(* push and pop each hold the map's spin lock, so one frame is one step.   *)
(* A frame is a record of what the program reads from it; its field tail   *)
(* is what the 16 bytes at offset 14 + (tot_len & 0xFFF) decode to, with   *)
(* where those bytes came from (a transit's hint, the tenant's payload, or *)
(* anything else).  Requests carry a serial number, the order of pushes.   *)
(*                                                                         *)
(* The daemon process is main of cn_dpnd_usr.c: it attaches the program,   *)
(* checks the queue map, and runs cn_dp_assistant.  It may fail at each    *)
(* step, be killed at any time, and be started again (by an operator or a  *)
(* supervisor) with the command line Args.                                 *)
(***************************************************************************)
EXTENDS Integers, Sequences, SequencesExt

CONSTANTS
  Frames,        \* frames the compute node may receive
  QueueLen,      \* CN_LOCAL_QUEUE_LEN, max_entries of local_queue_map
  MaxPushes,     \* bound on the requests pushed in one behaviour
  Args,          \* command lines the daemon is started with: "load",
                 \* "force" (load --force) and "unload"
  None           \* model value: the assistant's buffer holds no request

ASSUME QueueLen \in Nat \ {0} /\ MaxPushes \in Nat /\ Args \subseteq {"load", "force", "unload"}

VARIABLES
  queue,         \* local_queue_map: requests, oldest first
  nextId,        \* serial number of the next request pushed
  overwritten,   \* history: requests a push with BPF_EXIST evicted
  asst,          \* the daemon: where main or cn_dp_assistant is, and sendbuf
  attached,      \* cn_dpnd's XDP program is attached to the device
  dropped,       \* history: requests lost with a freed queue or a killed daemon
  sent           \* history: the sendto calls, in order

vars == <<queue, nextId, overwritten, asst, attached, dropped, sent>>

-----------------------------------------------------------------------------
(* Sizes of the structures of cn_dpnd.h, in bytes.                         *)

EthHdrLen  == 14
IpHdrLen   == 20
UdpHdrLen  == 8
OpcodeLen  == 4                    \* flow_ctx_t.opcode
FlowLen    == 16                   \* ipv4_flow_t
EncapLen   == 24                   \* dp_encap_opdata_t
HintLen    == 16                   \* struct xdp_hints_src
\* Bytes of flow_ctx_t from opcode to its end: what sendto may read.
PayloadLen == OpcodeLen + FlowLen + EncapLen

-----------------------------------------------------------------------------
(* The XDP program.                                                        *)

\* Offset of the source hint: after tot_len & 0xFFF bytes of IP packet.
HintOffset(f) == EthHdrLen + (f.tot_len % 4096)

\* The hint passes the signature and vni check.
HintValid(f) == f.tail.flags = "SIG" /\ f.tail.vni = f.vni

\* The direct-path request trn_process_inner_ip builds (lines 244-271): the
\* encapsulation for replies to the inner source, the reversed flow, and
\* fctx.len, the length of the frame the request was laid out as.
FlowCtx(f, id) ==
  [id |-> id, opcode |-> "ENCAP",
   dip |-> f.isrc, dmac |-> f.ismac, dhip |-> f.tail.saddr,
   dhmac |-> f.tail.smac, from |-> f.tail.from,
   flow |-> [saddr |-> f.idst, daddr |-> f.isrc, proto |-> f.iproto,
             vni |-> f.vni],
   len |-> EthHdrLen + IpHdrLen + UdpHdrLen + PayloadLen]

\* The verdict of _transit for frame f; "PUSH" is XDP_PASS after pushing a
\* request.  Each guard is one early return, in the order the code takes
\* them; f.cut names the first header that overruns data_end.
CnVerdict(f) ==
  CASE f.cut = "eth"                        -> "ABORTED"
    [] f.eth # "IP"                         -> "PASS"
    [] f.cut = "ip"                         -> "ABORTED"
    [] f.ttl = 0                            -> "DROP"
    [] f.proto # "UDP"                      -> "PASS"
    [] f.cut = "udp"                        -> "ABORTED"
    [] f.dport # "VXL_DSTPORT"              -> "PASS"
    [] f.cut \in {"vxlan", "inner_eth"}     -> "ABORTED"
    [] f.ineth # "IP"                       -> "PASS"
    [] f.cut = "inner_ip"                   -> "ABORTED"
    [] f.cut = "l4" /\ f.iproto \in {"TCP", "UDP"} -> "ABORTED"
    [] f.iproto = "ICMP"                    -> "PASS"
    [] f.tot_len < 2                        -> "DROP"
    [] HintOffset(f) + HintLen > EthHdrLen + f.len -> "PASS"
    [] ~HintValid(f)                        -> "PASS"
    [] OTHER                                -> "PUSH"

\* Mutant: the push ignores max_entries.
PushUnbounded(q, e) == Append(q, e)

\* Mutant: a full queue evicts the request pushed last, not the oldest.
PushEvictNewest(q, e) ==
  IF Len(q) = QueueLen THEN Append(SubSeq(q, 1, Len(q) - 1), e)
                       ELSE Append(q, e)

\* bpf_map_push_elem(&local_queue_map, ctx, BPF_EXIST): on a full queue the
\* oldest element is dropped to make room.
Push(q, e) ==
  IF Len(q) = QueueLen THEN Append(Tail(q), e) ELSE Append(q, e)

\* What a push evicts.
Evicted(q) == IF Len(q) = QueueLen THEN {q[1].id} ELSE {}

\* One frame through _transit of cn_dpnd_xdp.c, while it is attached.
cn_transit ==
  /\ attached
  /\ \E f \in Frames :
       \/ /\ CnVerdict(f) = "PUSH"
          /\ nextId <= MaxPushes
          /\ queue' = Push(queue, FlowCtx(f, nextId))
          /\ overwritten' = overwritten \cup Evicted(queue)
          /\ nextId' = nextId + 1
       \/ /\ CnVerdict(f) # "PUSH"
          /\ UNCHANGED <<queue, overwritten, nextId>>
  /\ UNCHANGED <<asst, attached, dropped, sent>>

-----------------------------------------------------------------------------
(* The daemon: main of cn_dpnd_usr.c, then cn_dp_assistant.               *)

LenLen == 2                        \* flow_ctx_t.len

\* sizeof: a packed struct is padded up to its alignment.
AlignUp(n, a) == ((n + a - 1) \div a) * a
\* sizeof(flow_ctx_t), packed and aligned(8), as cn_dpnd.h and
\* cn_dpnd_usr.c both declare it: 88 bytes.
FlowCtxSize == AlignUp(LenLen + EthHdrLen + IpHdrLen + UdpHdrLen + PayloadLen, 8)

\* local_queue_map as the kernel created it from the object.
MapInfo == [type |-> "QUEUE", key_size |-> 0, value_size |-> FlowCtxSize,
            max_entries |-> QueueLen]
\* map_expect: key size 0, value size and max_entries set, type left 0.
MapExpect == [type |-> 0, key_size |-> 0, value_size |-> FlowCtxSize,
              max_entries |-> QueueLen]

\* __check_map_fd_info: a field of exp that is 0 is not compared.
CheckMapFdInfo(info, exp) ==
  \A f \in {"key_size", "value_size", "max_entries", "type"} :
    exp[f] = 0 \/ exp[f] = info[f]

\* Goes to pc with sendbuf as it is.
DaemonTo(pc) == asst' = [asst EXCEPT !.pc = pc]

\* The daemon exits (a return from main, or exit): whatever is attached
\* stays attached, and the queue with it.
DaemonExit == DaemonTo("exited")

\* main with --dev: load_bpf_and_xdp_attach loads cn_dpnd_xdp.o and
\* attaches it with XDP_FLAGS_UPDATE_IF_NOEXIST; the kernel creates a new,
\* empty local_queue_map for the new object.
main_load_ok ==
  /\ asst.pc = "start" /\ "load" \in Args
  /\ ~attached
  /\ attached' = TRUE
  /\ queue' = <<>>
  /\ DaemonTo("check_map")
  /\ UNCHANGED <<nextId, overwritten, dropped, sent>>

\* main with --force: the attach drops XDP_FLAGS_UPDATE_IF_NOEXIST and
\* replaces whatever program is attached.  The replaced program's queue map
\* has no other holder (the daemon that opened it has exited), so it is
\* freed with the requests it held, and the new object brings a new queue.
main_load_force ==
  /\ asst.pc = "start" /\ "force" \in Args
  /\ attached' = TRUE
  /\ queue' = <<>>
  /\ dropped' = dropped \cup {queue[j].id : j \in 1 .. Len(queue)}
  /\ DaemonTo("check_map")
  /\ UNCHANGED <<nextId, overwritten, sent>>

\* The object does not load, or a program is already attached and
\* UPDATE_IF_NOEXIST refuses to replace it: main returns EXIT_FAIL_BPF.
main_load_fail ==
  /\ asst.pc = "start" /\ Args \cap {"load", "force"} # {}
  /\ DaemonExit
  /\ UNCHANGED <<queue, nextId, overwritten, attached, dropped, sent>>

\* main with --unload: xdp_link_detach and return.  The queue map goes
\* with the last program that holds it.
main_unload ==
  /\ asst.pc = "start" /\ "unload" \in Args
  /\ attached' = FALSE
  /\ queue' = <<>>
  /\ dropped' = dropped \cup {queue[j].id : j \in 1 .. Len(queue)}
  /\ DaemonExit
  /\ UNCHANGED <<nextId, overwritten, sent>>

\* find_map_fd finds local_queue_map (the object defines it), then
\* __check_map_fd_info compares it with map_expect; a mismatch returns.
main_check_map_ok ==
  /\ asst.pc = "check_map"
  /\ DaemonTo(IF CheckMapFdInfo(MapInfo, MapExpect) THEN "socket" ELSE "exited")
  /\ UNCHANGED <<queue, nextId, overwritten, attached, dropped, sent>>

\* bpf_obj_get_info_by_fd fails: main returns EXIT_FAIL_BPF.
main_check_map_fail ==
  /\ asst.pc = "check_map"
  /\ DaemonExit
  /\ UNCHANGED <<queue, nextId, overwritten, attached, dropped, sent>>

\* cn_dp_assistant opens its UDP socket and enters for(;;).
assistant_socket_ok ==
  /\ asst.pc = "socket"
  /\ DaemonTo("pop")
  /\ UNCHANGED <<queue, nextId, overwritten, attached, dropped, sent>>

\* socket() fails: cn_dp_assistant returns 1 and main calls exit(1).
assistant_socket_fail ==
  /\ asst.pc = "socket"
  /\ DaemonExit
  /\ UNCHANGED <<queue, nextId, overwritten, attached, dropped, sent>>

\* sendbuf as each iteration sets it up before the pop: dummy addresses and
\* len = sizeof opcode + flow + opdata.
DefaultBuf == [id |-> 0, len |-> PayloadLen]

\* Mutant: a queue holding one request is taken for empty.
assistant_pop_lastmissed ==
  /\ asst.pc = "pop"
  /\ \/ /\ Len(queue) <= 1
        /\ asst' = [pc |-> "pop", buf |-> DefaultBuf]
        /\ UNCHANGED queue
     \/ /\ Len(queue) > 1
        /\ asst' = [pc |-> "send", buf |-> Head(queue)]
        /\ queue' = Tail(queue)
  /\ UNCHANGED <<nextId, overwritten, attached, dropped, sent>>

\* Top of the loop: set sendbuf up, then bpf_map_lookup_and_delete_elem.
\* An empty queue fails the pop and the loop sleeps and comes round again.
assistant_pop ==
  /\ asst.pc = "pop"
  /\ \/ /\ queue = <<>>
        /\ asst' = [pc |-> "pop", buf |-> DefaultBuf]
        /\ UNCHANGED queue
     \/ /\ queue # <<>>
        /\ asst' = [pc |-> "send", buf |-> Head(queue)]
        /\ queue' = Tail(queue)
  /\ UNCHANGED <<nextId, overwritten, attached, dropped, sent>>

\* sendto(sockfd, &sendbuf.opcode, sendbuf.len, ...): the request is gone
\* from the queue whether or not the datagram leaves; a failure is printed.
assistant_send ==
  /\ asst.pc = "send"
  /\ \E ok \in BOOLEAN :
       sent' = Append(sent, [id |-> asst.buf.id, len |-> asst.buf.len, ok |-> ok])
  /\ DaemonTo("pop")
  /\ UNCHANGED <<queue, nextId, overwritten, attached, dropped>>

-----------------------------------------------------------------------------
(* What happens to the process from outside.                               *)

\* The daemon is killed.  It installs no signal handler, so nothing is
\* detached; a request popped and not yet sent is lost with sendbuf.
Kill ==
  /\ asst.pc # "exited"
  /\ dropped' = dropped \cup (IF asst.pc = "send" THEN {asst.buf.id} ELSE {})
  /\ DaemonExit
  /\ UNCHANGED <<queue, nextId, overwritten, attached, sent>>

\* The daemon is started again with one of its command lines.
Restart ==
  /\ asst.pc = "exited"
  /\ asst' = [pc |-> "start", buf |-> None]
  /\ UNCHANGED <<queue, nextId, overwritten, attached, dropped, sent>>

-----------------------------------------------------------------------------

Init ==
  /\ queue = <<>>
  /\ nextId = 1
  /\ overwritten = {}
  /\ asst = [pc |-> "start", buf |-> None]
  /\ attached = FALSE
  /\ dropped = {}
  /\ sent = <<>>

Startup ==
  \/ main_load_ok \/ main_load_force \/ main_load_fail \/ main_unload
  \/ main_check_map_ok \/ main_check_map_fail
  \/ assistant_socket_ok \/ assistant_socket_fail

Assistant == assistant_pop \/ assistant_send

Daemon == Startup \/ Assistant

Next == cn_transit \/ Daemon \/ Kill \/ Restart

\* The daemon is a process of its own: while it lives it keeps being
\* scheduled, and cn_dp_assistant loops for ever.  Frames arrive when they
\* arrive, and nobody has to kill or restart the daemon: no fairness.
Spec == Init /\ [][Next]_vars /\ WF_vars(Daemon)

\* Under a supervisor that restarts the daemon whenever it has exited, with
\* failures of the object load, of bpf_obj_get_info_by_fd and of socket()
\* that are transient: a step that keeps being possible eventually succeeds.
SupervisedSpec ==
  /\ Spec
  /\ WF_vars(Restart)
  /\ SF_vars(main_load_ok) /\ SF_vars(main_check_map_ok)
  /\ SF_vars(assistant_socket_ok)

-----------------------------------------------------------------------------
(* Properties.                                                             *)

Ids == 1 .. MaxPushes
SentIds == {sent[i].id : i \in 1 .. Len(sent)}
Popped == SentIds \cup (IF asst.pc = "send" THEN {asst.buf.id} ELSE {})
Alive == asst.pc # "exited"

TypeOK ==
  /\ \A j \in 1 .. Len(queue) :
       queue[j].id \in Ids /\ queue[j].from \in {"transit", "payload", "junk"}
  /\ Len(queue) <= QueueLen
  /\ nextId \in 1 .. MaxPushes + 1
  /\ overwritten \subseteq Ids
  /\ dropped \subseteq Ids
  /\ attached \in BOOLEAN
  /\ asst.pc \in {"start", "check_map", "socket", "pop", "send", "exited"}
  /\ \A i \in 1 .. Len(sent) : sent[i].id \in Ids /\ sent[i].ok \in BOOLEAN

\* The queue loses and repeats nothing: every request pushed so far is in
\* exactly one place (still queued, evicted by a later push, popped by the
\* assistant, or lost with a detached queue or a killed daemon), and the
\* queue holds the newest unpopped, unevicted requests in push order.  A
\* wrong end of the ring on push or pop, a lookup without the delete, or a
\* queue kept across a detach breaks it.
RequestsAccountedFor ==
  LET queued == {queue[j].id : j \in 1 .. Len(queue)}
  IN  /\ queued \cup overwritten \cup Popped \cup dropped = 1 .. nextId - 1
      /\ queued \cap overwritten = {}
      /\ queued \cap Popped = {}
      /\ queued \cap dropped = {}
      /\ overwritten \cap Popped = {}
      /\ \A j \in 1 .. Len(queue) - 1 : queue[j + 1].id = queue[j].id + 1
      /\ queue # <<>> => queue[Len(queue)].id = nextId - 1
      /\ \A i, j \in 1 .. Len(sent) : i < j => sent[i].id < sent[j].id

\* sendto reads no further than the end of sendbuf: the length passed with
\* &sendbuf.opcode is at most the bytes of flow_ctx_t from opcode on.
SendWithinBuffer ==
  \A i \in 1 .. Len(sent) : sent[i].len <= PayloadLen

\* While the daemon lives, every request pushed is eventually popped and
\* handed to sendto, evicted by a later push, or lost with its queue:
\* cn_dp_assistant never stops draining the queue.
EveryRequestHandled ==
  \A i \in Ids :
    [](nextId > i => <>(i \in SentIds \/ i \in overwritten \/ i \in dropped \/ ~Alive))

\* Whenever cn_dpnd's program is attached (and pushing requests), a
\* supervised daemon eventually runs cn_dp_assistant's loop to drain them.
AttachedProgramServed ==
  [](attached => <>(asst.pc \in {"pop", "send"}))

=============================================================================
