# TLA+ models of the Arion data plane

This directory holds TLA+ specifications of the Arion data plane:

- the transit XDP program and the control-plane RPC handlers that configure it;
- the compute-node direct-path daemon;
- the preallocated endpoint hash map, refined against an abstract map;
- the IPv4 checksum rewrite.

The TLC configurations here check them.

## 1. The system

| Part | Source | What it does |
|---|---|---|
| Transit XDP pipeline | `src/src/xdp/trn_transit_xdp.c` | Parses each received frame: Ethernet → IPv4 → UDP → Geneve or VXLAN → inner Ethernet → inner IPv4 or ARP. It then forwards the frame to the endpoint's host (`trn_process_inner_ip`), answers ARP for the endpoint (`trn_process_inner_arp`), or returns a verdict. |
| Stage dispatcher | `_transit` in the same file | Grows the frame with `bpf_xdp_adjust_tail` when built with `appendTail`, and looks up the interface config. It runs the pipeline, then tail-calls the stage program for the verdict (`jmp_table`) or returns it through `xdpcap_exit`. `EP_NOT_FOUND` is redirected to an AF_XDP socket bound to the receive queue, or else dropped. |
| BPF maps | `src/src/xdp/trn_transit_xdp_maps.h` | `endpoints_map` (HASH, preallocated), `if_config_map` (ARRAY), `jmp_table`, `xsks_map`, `sg_cidr_map` (LPM trie), and the OAM queue. |
| RPC handlers | `src/src/dmn/trn_rpc_protocol_handlers_1.c` | `update_ep` (a batch), `delete_ep`, `get_ep`, `update_droplet` (rewrites the interface config), load/unload of the XDP program and of a stage program. |
| Compute-node XDP program | `src/cn/cn_dpnd/cn_dpnd_xdp.c` | Reads the source hint ("trailer") that the transit appends, and pushes a flow context onto `local_queue_map` (a queue that overwrites when full). |
| Direct-path assistant | `src/cn/cn_dpnd/cn_dpnd_usr.c` | A user-space loop that pops `local_queue_map` and sends each item as an OAM packet. |

How the parts interact:

- The RPC handlers write the maps, and the XDP program reads them on every CPU at once.
- A BPF ARRAY lookup returns a pointer to the live value, so every `pkt->itf->...` read is a fresh read of whatever `update_droplet` last wrote.
- The transit program's global `pkt_not_add_tail` is one variable shared by every CPU.
- The trailer written by the transit is consumed by the compute-node program. That program hands it to the assistant through the queue.

## 2. Modules

### `TransitXdp.tla`: the transit program and the RPC handlers

State:

| Variable | Code |
|---|---|
| `itf` | `if_config_map[ifindex]`: a `tunnel_iface_t` (role, num_entrances, entrances) |
| `eps` | `endpoints_map`: (vni, ip) ↦ endpoint or `NoEp` |
| `jmp` | the populated `jmp_table` slots |
| `xsks` | receive queues with an AF_XDP socket in `xsks_map` |
| `pkt_not_add_tail` | the global of that name |
| `pc[c]`, `pkt[c]` | per CPU: the function `_transit` is in, and `struct transit_packet` (plus the verdict) |
| `rpc` | the RPC server thread: the request in progress, the `update_ep` batch still to write, and for checking the batch and the map before it |
| `cfgSeen` | history: every config the interface has held |

Each data-plane action ends at a point where the code reads state that another actor writes. The frame itself is private, so each function chooses the header fields it parses with `\E`. Every bounds check that fails (`+ 1 > data_end`) is an `ABORTED` disjunct.

| Action | Code | Notes |
|---|---|---|
| `Receive` | `_transit` 669-702 | adjust_tail stores its result in the global; the `if_config_map` lookup, which misses (ABORTED) for an ifindex past `TRAN_MAX_ITF` |
| `trn_process_eth` | 630-666 | first entrance whose MAC is `h_dest`; otherwise ABORTED |
| `trn_process_ip` | 597-628 | `daddr` vs `entrances[ent_idx].ip` (a new read), TTL 0 → DROP (`TtlExpired`), non-UDP → PASS |
| `trn_process_udp`, `_geneve`, `_vxlan` | 495-595 | the role selects the tunnel; the Geneve option length must equal the two options |
| `trn_process_inner_eth` | 469-493 | ARP on a forwarder → proxy, non-IP → DROP |
| `trn_process_inner_ip` | 209-318 | security group (`trn_sg_check`), endpoint lookup, L4 bounds, inner MAC, first read of the global (`tip`) |
| `trn_process_inner_ip_tx` | 319-371 | outer rewrite, second read of the global, trailer at `tot_len & 0xFFF` |
| `trn_process_inner_arp` | 373-467 | reply built in place, outer IPs and MACs swapped |
| `transit_dispatch`, `xsk_redirect` | 702-751 | stage tail call or `xdpcap_exit`, AF_XDP redirect |
| `update_ep_1_svc`, `update_ep_loop` | handlers 44-74 | context lookup, then one step per batch element; stops at the first failure |
| `delete_ep_1_svc`, `load/unload_transit_xdp_ebpf_1_svc` | handlers 76-96, 199-235 | each has a success branch and an error branch |
| `update_droplet_1_svc` | handlers 126-164 | `DropletConfig` is the stack `tunnel_iface_t` the loop fills: entrance i < `num_entrances` from the droplet, the slots above as the stack held them (`StackGarbage`). The loop has no `TRAN_MAX_ZGC_ENTRANCES` bound; a longer droplet writes past the array, which is undefined. The model gives the outcomes the build can have: the config is written (the slots that fit hold the first entrances, `num_entrances` the full count), and the call returns or, its stack canary clobbered, the daemon aborts and serves no more RPCs (`rpc.op = "crashed"`). |
| `XskBind`, `XskUnbind` | AF_XDP consumer (not in the repository) | a socket appears on or leaves a queue |

`trn_set_src_dst_ip_csum` lives in `trn_kern.h`, which is not in the repository. Its copy in `cn_dpnd_xdp.c:138-156` decrements the TTL as a `__u8`, and `ForwardedOuter` models that.

The update_droplet handler takes the role from the interface context (`eth->role`), which is fixed when the program is loaded. The model therefore changes only the entrances, never the role.

`MCTransitXdp.tla` gives the constants their TLC values:

- two entrances;
- attach-time configs with one entrance, whose slot past `num_entrances` holds stack garbage (entrance B), as `update_droplet_1_svc` leaves it;
- a droplet with three entrances, one more than `TRAN_MAX_ZGC_ENTRANCES` = 2, and a handler stack holding entrance B in every slot the loop does not write;
- for `config_snapshot`, droplets with entrance A alone or entrance B alone;
- the program attached as a forwarder, as a flow-table node (Geneve), or either (`MCInitBoth`);
- two endpoints on one remote host;
- one batch that registers both tenant IPs;
- security-group rules that let t1 reach t2 over TCP port 80 and over ICMP, plus an ingress rule for UDP port 22 toward t1 that has no matching egress rule (a flow the code must still drop).

`TransitXdp` reads an endpoint in one step. `EndpointHtab` shows that the real map does not give that guarantee.

### `CnDpnd.tla`: the compute-node program and the direct-path assistant

State:

| Variable | Code |
|---|---|
| `queue` | `local_queue_map` (BPF QUEUE, `CN_LOCAL_QUEUE_LEN` entries), oldest first |
| `nextId` | history: serial number of the next push |
| `overwritten` | history: requests a push with `BPF_EXIST` evicted |
| `asst` | the daemon process: where `main` or `cn_dp_assistant` is, and `sendbuf` |
| `attached` | cn_dpnd's XDP program is attached to the device |
| `dropped` | history: requests lost with a queue freed by a detach, or with a killed daemon's `sendbuf` |
| `sent` | history: the `sendto` calls, with their length and whether they succeeded |

A frame is one step: the program shares only the queue with other CPUs, and the queue's push and pop each hold the map's lock. `CnVerdict` takes the early returns of `trn_process_eth` … `trn_process_inner_ip` in code order. `FlowCtx` is the request built at lines 244-271, including `fctx.len = 86`.

| Action | Code | Notes |
|---|---|---|
| `cn_transit` | `_transit` 395-412 and the chain it calls | only while attached; `Push` evicts the oldest request when the queue is full |
| `main_load_ok`, `main_load_fail` | `cn_dpnd_usr.c` 320-345 | attach with `XDP_FLAGS_UPDATE_IF_NOEXIST` (a new, empty queue), or fail: the object does not load, or a program is already attached |
| `main_load_force` | 117-118 (`long_options`), 334-336 | `--force` ("replacing existing program on interface"): the attach replaces an attached program; its queue, held by no live daemon, is freed with its requests |
| `main_unload` | 326-333 | `--unload`: `xdp_link_detach`; the queue goes with the program |
| `main_check_map_ok`, `main_check_map_fail` | 346-360, 146-196 | `find_map_fd`, then `__check_map_fd_info` (`CheckMapFdInfo`: a 0 field of `map_expect` is not compared; sizes from the two `flow_ctx_t` declarations, 88 bytes); a failed `bpf_obj_get_info_by_fd` returns without detaching |
| `assistant_socket_ok`, `assistant_socket_fail` | 200-225, 362-366 | the UDP socket; on failure `cn_dp_assistant` returns and `main` calls `exit(1)`, again without detaching |
| `assistant_pop` | `cn_dpnd_usr.c` 225-274 | resets `sendbuf` (len 44), pops; an empty queue sleeps and loops |
| `assistant_send` | 275-293 | `sendto(&sendbuf.opcode, sendbuf.len)`, which may fail; the request is gone either way |
| `Kill`, `Restart` | (environment) | the process is killed (it has no signal handler, so nothing is detached), or started again with one of the command lines `Args` |

`MCCnDpnd.tla` has one frame per verdict branch: a good hint, zero padding, a short tail and another vni. The `--dev` option is assumed given; the libbpf load helpers are not in the repository, so a load either attaches or fails.

### `EndpointsMap.tla` and `EndpointHtab.tla`: the endpoint map

`EndpointsMap` is the abstract map that `update_ep_1_svc` and `delete_ep_1_svc` rely on:

- keys map to endpoints;
- an update of a present key succeeds;
- an update of a new key fails with E2BIG exactly when the map is full;
- a delete of an absent key fails with ENOENT;
- a get (`get_ep_1_svc`) returns the key's endpoint, or NULL when it is absent;
- `result` records the key, the return code and the value returned by the last call.

`EndpointHtab` models `endpoints_map` as the kernel implements a preallocated `BPF_MAP_TYPE_HASH` (`map_flags` 0, `trn_transit_xdp_maps.h:47`):

- `MaxEntries` elements start on a free list, plus the control-plane CPU's spare element;
- an update of a new key pops an element;
- an update of a present key fills the spare, links it, and keeps the old element as the new spare;
- a delete pushes the element back on the free list at once;
- `get_ep_1_svc` copies the value into its static `result` (`reply`), which a miss leaves as the previous call filled it; the handler then returns NULL.

The reader is `trn_process_inner_ip`. It looks the key up (line 237), keeps the element pointer, and loads `mac` (312), `hip` (319) and `hmac` (321) from it in three separate steps.

`update_endpoint` and `delete_endpoint` model what the kernel does for `bpf_map_update_elem` and `bpf_map_delete_elem` on this map. That code is not in the repository, so their map entries point at the map's declaration (`trn_transit_xdp_maps.h:42-48`), whose type and flags select this behaviour. The handlers that call them are in `EndpointsMap` and in `TransitXdp`'s `update_ep_loop`. The reader's `held` field is history, not program state: the lookup records the key's value, and every control step adds the key's new value. `ForwardUsesOneKeyValue` compares the forwarded fields with that set.

The refinement mapping `AbstractMap` reads each key through its element: `Abstract == INSTANCE EndpointsMap WITH map <- AbstractMap`. `MapRefinement == Abstract!Spec` is checked as a PROPERTY.

### `IpCsum.tla`: the checksum rewrite

`trn_set_src_dst_ip_csum` (`cn_dpnd_xdp.c:138-156`) and its helpers, as operators over the 20 header bytes:

- the `__u8` TTL decrement;
- the address stores;
- `check = 0`;
- ten little-endian `__u16` loads;
- the carry fold, bounded to four rounds (`FoldRounds`, RECURSIVE);
- the `~csum` truncated to `__u16`;
- the little-endian store.

The reference is the RFC 1071 receiver check in network byte order (`OnesFold`, RECURSIVE). The state is one header before and after the call.

## 3. Runs

| Run | Expect | Checks |
|---|---|---|
| `pipeline` | pass | `TypeOK`, `NoEndpointNeverDelivered`, `BatchAppliesPrefix`, `EntranceAnnounced`. One CPU built with appendTail and sgSupport, attached as forwarder or flow-table node. Every handler and the socket consumer interleave with frames whose tot_len is too short (1), exact (80), and too long (120). TTL 0 or 1. 2.6M distinct states, under 2 minutes. |
| `ttl` | violation | `TtlNeverExpiresInFlight`: a TTL-1 frame leaves with TTL 0 |
| `config_snapshot` | violation | `ConfigSnapshotConsistent`: update_droplet runs between the MAC check and the IP check |
| `trailer_race` | violation | `TrailerOwnTail` with two CPUs: the global flag belongs to another frame |
| `trailer_mac` | violation | `TrailerNamesSourceHost`: the hint's MAC is taken after the rewrite |
| `trailer_jumbo` | violation | `TrailerOutsideIpPacket`: tot_len 4200 is masked to 104 |
| `cn_queue` | pass | `TypeOK`, `RequestsAccountedFor`, `EveryRequestHandled`. All frame kinds run against a two-slot queue and a daemon that loads, loads with `--force`, or unloads, fails at each start-up step, is killed and restarted. |
| `cn_orphaned` | violation | `AttachedProgramServed` under `SupervisedSpec`: after a failed map check the program stays attached and every restart fails to attach |
| `cn_sendlen` | violation | `SendWithinBuffer`: `sendto` is passed 86 bytes from `&sendbuf.opcode`, where 44 remain |
| `htab_map` | pass | `TypeOK`, `MapRefinement`. Updates, deletes and gets of two keys on a one-entry map with the reader running. |
| `ep_reuse` | violation | `ForwardUsesOneKeyValue`: the element the reader holds is refilled between its loads, and the frame leaves with fields of two values |
| `csum` | pass | `CsumVerifies` over 512 headers × 25 address pairs |

What the properties say:

- `NoEndpointNeverDelivered`: `EP_NOT_FOUND` never reaches the host stack or the wire. It holds even when the socket closes between the lookup and the redirect; the frame then ends as ABORTED.
- `BatchAppliesPrefix`: when `update_ep` replies, the map is its starting value with a prefix of the batch applied. The reply is success exactly when the whole batch was applied.
- `EntranceAnnounced`: a frame that `trn_process_eth` and `trn_process_ip` accept arrived on a MAC and an IP that some droplet (or the attach) announced. It is never accepted on a slot `update_droplet_1_svc` left uninitialised above `num_entrances`, nor on anything an over-long droplet wrote past the array. This holds even when a droplet update lands between the two checks. `ConfigSnapshotConsistent` (violated in `config_snapshot`) asks for more: that the MAC and the IP were announced together.
- `RequestsAccountedFor`: every request pushed is in exactly one place: queued, evicted by a later push, popped, or lost with a detached queue or a killed daemon. The queue holds the newest survivors in push order, and the sends are in push order.
- `EveryRequestHandled` (liveness): while the daemon lives, every request pushed is eventually handed to `sendto`, evicted or lost with its queue.
- `AttachedProgramServed` (liveness): whenever the program is attached, a supervised daemon eventually runs the assistant loop.
- `MapRefinement`: the handlers' calls, `get_ep` included, implement `EndpointsMap`.
- `ForwardUsesOneKeyValue`: a forwarded frame's inner dmac, outer daddr and outer dmac are the fields of one value, and that value is one the looked-up key held while the reader used it. This is the per-key atomicity spec §5 asks for: neither a mix of two values nor another key's value. (`TrailerOwnTail`, checked in `trailer_race`, says a hint is written exactly for the frames adjust_tail grew, and names this frame's sender.)
- `CsumVerifies`: the rewritten header passes the receiver's checksum check, whatever checksum it had before.

Each property of a passing run has a mutant in `PROJECT.json`. The mutant is a plausible slip in the code, and TLC finds it under the run's own configuration:

- the TTL test dropped;
- the entrance scan bounded by `TRAN_MAX_ZGC_ENTRANCES` alone;
- `get_ep` replying its static result without checking the lookup;
- `action = XDP_DROP` missing;
- the batch loop continuing after a failure;
- the queue push ignoring `max_entries`, or evicting the newest;
- the assistant taking a queue of one request for empty;
- the spare element not replaced;
- the free list checked before the key;
- the carry fold run once.

### Findings

1. **TTL** (`trn_transit_xdp.c:613`). A frame with TTL 1 is sent on with TTL 0. Spec §4.4 says it is dropped.
2. **Config snapshot** (`:607`, `:651`). The entrance MAC and IP are checked against two different reads of the live config.
3. **Global race** (`:675`, `:315`, `:323`). Whether a frame gets a hint depends on another CPU's frame. The result is either a missing hint or 16 bytes written past a frame that was never grown (ABORTED by the bounds check when the frame is short).
4. **Hint MAC** (`:351`). The MAC is copied after `trn_set_src_mac` overwrote `h_source`, so the hint pairs the sender's IP with the transit's MAC.
5. **Jumbo** (`:341`). The `& 0xFFF` mask writes the hint inside packets of 4096 bytes or more.
6. **Orphaned program** (`cn_dpnd_usr.c:357`, `:366`, `:315`). `main` detaches the program when `find_map_fd` fails, but not when `__check_map_fd_info` fails, when `cn_dp_assistant` returns after `socket()` fails, or when the process is killed. The program stays attached, and since it was attached with `XDP_FLAGS_UPDATE_IF_NOEXIST`, every restart fails to attach and exits: even a supervisor that restarts the daemon for ever, with failures that are only transient, never gets the queue drained again. Only `cn_dpnd --unload`, or a start with `--force`, recovers.
7. **sendto over-read** (`cn_dpnd_usr.c:286`). The pop overwrites `sendbuf.len` with `fctx.len` = 86, the whole frame length. `sendto` then sends 86 bytes from `&sendbuf.opcode`, where only 44 belong to the request, so 42 bytes come from past `sendbuf`.
8. **Element reuse** (`trn_transit_xdp.c:237`). `endpoints_map` is preallocated, and the kernel reuses a freed element without waiting for readers. Two updates of a key, or a delete and an update of another key, between the lookup and the loads at 312-321 can send the frame with a mix of two values. In the trace, the reader loads `mac` of the key's first value, a second update refills the element, and `hip` and `hmac` come from the key's second value. This breaks the per-key atomicity the spec asks for. `BPF_F_NO_PREALLOC` would defer the reuse past an RCU grace period.

## 4. Bounds and why they suffice

- **CPUs.** One CPU in the passing runs already interleaves with every control-plane action. The only effect that needs two frames at once is the shared global, and `trailer_race` uses two CPUs for it.
- **Entrances.** Two entrances, moved from one slot to another by a droplet update, are the smallest setting where two reads of the config can disagree. `TRAN_MAX_ZGC_ENTRANCES` = 2 with a three-entrance droplet is the smallest overflow, and it leaves a garbage slot in the attach-time config.
- **TTL.** Values 0..1 (`MaxTtl` = 1) in both `ttl` and `pipeline`: 0 is the drop branch and 1 the edge case that the decrement takes to 0. A larger TTL takes no other branch of the code.
- **tot_len.** `{1, 80, 120}` covers the < 2 branch, the exact case, and the over-long header that reaches the ABORTED check. `4200` is the smallest kind of value the mask wraps.
- **Transit endpoints.** Two tenant IPs and two endpoints let an update or delete hit the key a frame is using.
- **Batch.** One batch of two elements lets a failure land on either element.
- **cn daemon.** Each start-up step can fail once or succeed, and kills and restarts are unbounded; the command lines are load, load `--force` and unload (the orphan run: load only, as a supervisor repeats one command line). One push is enough for `cn_orphaned`.
- **cn queue.** Two slots and `MaxPushes` = 4 pushes fill the queue and evict twice. The assistant can pop from an empty, a part-full or a full queue. `MaxPushes` only guards pushes: frames with other verdicts, and the assistant, keep running, so a behaviour never stops.
- **Hash map.** Two keys on `MaxEntries` = 1 make E2BIG reachable, and they make the spare swap (update of the present key) and free-list reuse (delete, then update of the other key) happen while the reader holds an element. More keys only add states; the run takes a few seconds.
- **Checksum.** Inputs cover a stale checksum, TTL 0/1/64/255, maximal tot_len, all-ones and all-zero address halves, and the pair (255.255.255.255 → 104.104.0.0) whose sum 0x2FFFE carries again after the first fold.

## 5. Fairness and liveness

- **Transit model.** It assumes no fairness. An XDP program runs to completion on its CPU, and what it promises is safety: what a finished frame carries.
- **`CnDpnd`.** `Spec` assumes `WF_vars(Daemon)`: while it lives, the daemon is a process of its own, and `cn_dp_assistant` loops for ever (pop, send, or sleep one second) and never blocks for good, so it keeps being scheduled. Frame arrival, kills and restarts get no fairness.
- **`EveryRequestHandled`.** It holds under `Spec`. The mutant that takes a one-request queue for empty breaks it.
- **`SupervisedSpec`.** It adds what a supervisor (systemd with `Restart=always`, say) and transient failures would give: `WF` on `Restart`, and `SF` on each start-up step's success (a load, map check or socket that keeps being possible eventually succeeds). `AttachedProgramServed` fails even so; that is finding 6.

## 6. Not modelled, and what is left

Done:

- `TransitXdp`: the transit pipeline, the dispatcher and the RPC handlers.
- `CnDpnd`: the compute-node program, the daemon's start-up and the assistant loop, with kills and restarts.
- `EndpointsMap`, `EndpointHtab`: the endpoint map, refined.
- `IpCsum`: the checksum rewrite.

Still open:

- **Torn `if_config_map` writes** (`handlers:154`). The field order of `tunnel_iface_t` is in `trn_datamodel.h`, which is not in the repository. `config_snapshot` already shows reads of two configs in one frame.
- **What else the `update_droplet_1_svc` overflow can do** (`handlers:142`). The model gives the overflow the outcomes the build can have when the write stays inside the frame: the call completes, or the daemon aborts at return. A longer overflow could clobber `eth` and install a config with another role. Whether the RPC decoder bounds `num_entrances` at all is in the generated XDR code, which is not in the repository.
- **Security-group policy for other protocols** (`trn_transit_xdp.c:185`). `trn_sg_check` is modelled, but no property checks it. For a protocol other than TCP and UDP it asks the egress rule only. What such protocols should need is not written anywhere, and the code marks the function unfinished, so a property could only restate the code.
- **Forged hints on the compute node** (`cn_dpnd_xdp.c:227`). The compute node reads the hint at the same masked offset as finding 5; in a packet of 4096 bytes or more that no transit grew, that offset is tenant payload, and a tenant who writes `0x5354` and its vni there would get a direct-path request of its choosing. No property checks it: `cn_queue`'s frames are smaller, and a jumbo frame with tenant bytes there is not among its inputs.
- **A transit-to-compute-node composition.** Findings 4 and 5 already show what it would show.

Left out on purpose:

- Load and unload of the XDP program itself: the code that does it (`trn_user_metadata`) is not in the repository.
- The command-line parser and the libbpf load and attach helpers (`common/`, not in the repository).
- `trn_rewrite_remote_mac` and `trn_decapsulate_and_redirect`: nothing calls them.
- The `turnOn` direct-path code: it is compiled out.
- The LPM prefix match of the security groups: the model uses exact keys.
- The tests.
