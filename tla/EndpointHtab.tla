----------------------------- MODULE EndpointHtab -----------------------------
(***************************************************************************)
(* endpoints_map as the kernel lays it out, with one XDP reader.           *)
(*                                                                         *)
(* endpoints_map is a BPF_MAP_TYPE_HASH with map_flags 0                   *)
(* (trn_transit_xdp_maps.h:42-48), so its elements are preallocated: the   *)
(* map owns MaxEntries elements on a free list plus one spare element per  *)
(* CPU.  An update of a new key pops an element from the free list, fills  *)
(* it and links it; an update of a present key fills the CPU's spare,      *)
(* links it in place of the old element, and keeps the old element as the  *)
(* new spare; a delete unlinks the element and pushes it on the free list. *)
(* Neither waits for readers: an element is reused as soon as it is free. *)
(* The control plane runs on one CPU (one spare).                          *)
(*                                                                         *)
(* The reader is trn_process_inner_ip of trn_transit_xdp.c: it looks the   *)
(* key up (line 237), keeps the element pointer ep, and loads ep->mac      *)
(* (312), ep->hip (319) and ep->hmac (321), three loads of shared memory.  *)
(***************************************************************************)
EXTENDS Naturals, FiniteSets

CONSTANTS
  Keys,          \* endpoint keys (vni, tenant ip)
  Vals,          \* endpoint values, records [hip, mac, hmac]
  MaxEntries,    \* TRAN_MAX_NEP, max_entries of endpoints_map
  Zero,          \* what a preallocated element holds before its first use
  NoEp,          \* model value: the key has no endpoint
  NoElem,        \* model value: NULL element pointer
  None           \* model value: the reader has forwarded nothing yet

VARIABLES
  bucket,        \* key -> the element linked under it, or NoElem
  elem,          \* element -> the endpoint_t it holds
  freelist,      \* the map's free list
  spare,         \* the control-plane CPU's spare element (extra_elems)
  result,        \* key, return code and value returned by the last call
  reply,         \* get_ep_1_svc's static trn_ep_t result
  rd,            \* the reader: pc, key, element pointer, loads done
  fwd            \* history: the last frame forwarded, with the values its
                 \* key held between the lookup and the last load

vars == <<bucket, elem, freelist, spare, result, reply, rd, fwd>>

Elems == 1 .. MaxEntries + 1

RdIdle == [pc |-> "lookup", key |-> NoEp, el |-> NoElem, held |-> {},
           mac |-> NoEp, hip |-> NoEp]

Init ==
  /\ bucket = [k \in Keys |-> NoElem]
  /\ elem = [e \in Elems |-> Zero]
  /\ freelist = 1 .. MaxEntries
  /\ spare = MaxEntries + 1
  /\ result = [key |-> NoEp, rc |-> "OK", val |-> NoEp]
  /\ reply = Zero
  /\ rd = RdIdle
  /\ fwd = None

-----------------------------------------------------------------------------
(* Control plane: update_ep_1_svc calls trn_update_endpoint for each batch *)
(* element (handlers line 62), delete_ep_1_svc calls trn_delete_endpoint   *)
(* (line 85), get_ep_1_svc trn_get_endpoint (line 108).  Each call is one *)
(* bpf(2) syscall under the bucket lock.                                   *)

\* Mutant: the spare is not replaced by the old element.
update_endpoint_dropspare(k, v) ==
  \/ /\ bucket[k] # NoElem
     /\ elem' = [elem EXCEPT ![spare] = v]
     /\ bucket' = [bucket EXCEPT ![k] = spare]
     /\ spare' = NoElem
     /\ result' = [key |-> k, rc |-> "OK", val |-> NoEp]
     /\ UNCHANGED freelist
  \/ /\ bucket[k] = NoElem /\ freelist # {}
     /\ \E e \in freelist :
          /\ elem' = [elem EXCEPT ![e] = v]
          /\ bucket' = [bucket EXCEPT ![k] = e]
          /\ freelist' = freelist \ {e}
     /\ result' = [key |-> k, rc |-> "OK", val |-> NoEp]
     /\ UNCHANGED spare
  \/ /\ bucket[k] = NoElem /\ freelist = {}
     /\ result' = [key |-> k, rc |-> "E2BIG", val |-> NoEp]
     /\ UNCHANGED <<bucket, elem, freelist, spare>>

\* Mutant: the free list is checked before the key is looked up, so a full
\* map refuses updates of present keys too.
update_endpoint_fullcheck(k, v) ==
  \/ /\ bucket[k] # NoElem /\ freelist # {}
     /\ elem' = [elem EXCEPT ![spare] = v]
     /\ bucket' = [bucket EXCEPT ![k] = spare]
     /\ spare' = bucket[k]
     /\ result' = [key |-> k, rc |-> "OK", val |-> NoEp]
     /\ UNCHANGED freelist
  \/ /\ bucket[k] = NoElem /\ freelist # {}
     /\ \E e \in freelist :
          /\ elem' = [elem EXCEPT ![e] = v]
          /\ bucket' = [bucket EXCEPT ![k] = e]
          /\ freelist' = freelist \ {e}
     /\ result' = [key |-> k, rc |-> "OK", val |-> NoEp]
     /\ UNCHANGED spare
  \/ /\ freelist = {}
     /\ result' = [key |-> k, rc |-> "E2BIG", val |-> NoEp]
     /\ UNCHANGED <<bucket, elem, freelist, spare>>

\* bpf_map_update_elem(endpoints_map, key, value, BPF_ANY).
update_endpoint(k, v) ==
  \/ /\ bucket[k] # NoElem
     /\ elem' = [elem EXCEPT ![spare] = v]
     /\ bucket' = [bucket EXCEPT ![k] = spare]
     /\ spare' = bucket[k]
     /\ result' = [key |-> k, rc |-> "OK", val |-> NoEp]
     /\ UNCHANGED freelist
  \/ /\ bucket[k] = NoElem /\ freelist # {}
     /\ \E e \in freelist :
          /\ elem' = [elem EXCEPT ![e] = v]
          /\ bucket' = [bucket EXCEPT ![k] = e]
          /\ freelist' = freelist \ {e}
     /\ result' = [key |-> k, rc |-> "OK", val |-> NoEp]
     /\ UNCHANGED spare
  \/ /\ bucket[k] = NoElem /\ freelist = {}
     /\ result' = [key |-> k, rc |-> "E2BIG", val |-> NoEp]
     /\ UNCHANGED <<bucket, elem, freelist, spare>>

\* bpf_map_delete_elem(endpoints_map, key): the element goes straight back
\* on the free list; its contents stay until it is reused.
delete_endpoint(k) ==
  \/ /\ bucket[k] # NoElem
     /\ bucket' = [bucket EXCEPT ![k] = NoElem]
     /\ freelist' = freelist \cup {bucket[k]}
     /\ result' = [key |-> k, rc |-> "OK", val |-> NoEp]
  \/ /\ bucket[k] = NoElem
     /\ result' = [key |-> k, rc |-> "ENOENT", val |-> NoEp]
     /\ UNCHANGED <<bucket, freelist>>

\* Mutant: the error check is left out, and the reply is the static result
\* as an earlier call left it.
get_ep_1_svc_noerr(k) ==
  \/ /\ bucket[k] # NoElem
     /\ reply' = elem[bucket[k]]
     /\ result' = [key |-> k, rc |-> "OK", val |-> elem[bucket[k]]]
  \/ /\ bucket[k] = NoElem
     /\ result' = [key |-> k, rc |-> "OK", val |-> reply]
     /\ UNCHANGED reply

\* get_ep_1_svc: trn_get_endpoint copies the value into the static result
\* (a bpf(2) lookup, under the same lock as the updates); a miss returns
\* NULL and leaves the static result as it was.
get_ep_1_svc(k) ==
  \/ /\ bucket[k] # NoElem
     /\ reply' = elem[bucket[k]]
     /\ result' = [key |-> k, rc |-> "OK", val |-> elem[bucket[k]]]
  \/ /\ bucket[k] = NoElem
     /\ result' = [key |-> k, rc |-> "ENOENT", val |-> NoEp]
     /\ UNCHANGED reply

\* The table the handlers see: what each key maps to through its element.
AbstractMap == [k \in Keys |-> IF bucket[k] = NoElem THEN NoEp ELSE elem[bucket[k]]]

\* The values the reader's key has held since its lookup.  Not program
\* state: each control step adds the key's new value, for the property.
HeldSince(r) ==
  IF r.pc = "lookup" THEN r ELSE [r EXCEPT !.held = @ \cup {AbstractMap'[r.key]}]

\* The RPC server runs one handler at a time.
Control ==
  /\ \E k \in Keys :
       \/ \E v \in Vals : update_endpoint(k, v) /\ UNCHANGED reply
       \/ delete_endpoint(k) /\ UNCHANGED <<elem, spare, reply>>
       \/ get_ep_1_svc(k) /\ UNCHANGED <<bucket, elem, freelist, spare>>
  /\ rd' = HeldSince(rd)
  /\ UNCHANGED fwd

-----------------------------------------------------------------------------
(* The reader, one frame at a time.                                         *)

\* Line 237: ep = bpf_map_lookup_elem(&endpoints_map, &epkey); a miss is
\* EP_NOT_FOUND and the next frame comes.
lookup ==
  /\ rd.pc = "lookup"
  /\ \E k \in Keys :
       \/ /\ bucket[k] = NoElem
          /\ UNCHANGED rd
       \/ /\ bucket[k] # NoElem
          /\ rd' = [rd EXCEPT !.pc = "mac", !.key = k, !.el = bucket[k],
                              !.held = {elem[bucket[k]]}]
  /\ UNCHANGED <<bucket, elem, freelist, spare, result, reply, fwd>>

\* Line 312: trn_set_dst_mac(pkt->inner_eth, ep->mac).
load_mac ==
  /\ rd.pc = "mac"
  /\ rd' = [rd EXCEPT !.pc = "hip", !.mac = elem[rd.el].mac]
  /\ UNCHANGED <<bucket, elem, freelist, spare, result, reply, fwd>>

\* Line 319: trn_set_src_dst_ip_csum(pkt->ip, pkt->ip->daddr, ep->hip, ...).
load_hip ==
  /\ rd.pc = "hip"
  /\ rd' = [rd EXCEPT !.pc = "hmac", !.hip = elem[rd.el].hip]
  /\ UNCHANGED <<bucket, elem, freelist, spare, result, reply, fwd>>

\* Line 321: trn_set_dst_mac(pkt->eth, ep->hmac); the frame is sent.
load_hmac ==
  /\ rd.pc = "hmac"
  /\ fwd' = [held |-> rd.held,
             out |-> [hip |-> rd.hip, mac |-> rd.mac, hmac |-> elem[rd.el].hmac]]
  /\ rd' = RdIdle
  /\ UNCHANGED <<bucket, elem, freelist, spare, result, reply>>

Reader == lookup \/ load_mac \/ load_hip \/ load_hmac

Next == Control \/ Reader

Spec == Init /\ [][Next]_vars

-----------------------------------------------------------------------------
(* Properties.                                                             *)

TypeOK ==
  /\ bucket \in [Keys -> Elems \cup {NoElem}]
  /\ elem \in [Elems -> Vals \cup {Zero}]
  /\ freelist \subseteq Elems
  /\ spare \in Elems
  /\ result.rc \in {"OK", "E2BIG", "ENOENT"}
  /\ reply \in Vals \cup {Zero}
  /\ rd.pc \in {"lookup", "mac", "hip", "hmac"}

Abstract == INSTANCE EndpointsMap WITH map <- AbstractMap

\* The handlers' calls implement the map EndpointsMap specifies: updates and
\* deletes change exactly their key, and E2BIG is returned exactly when a
\* new key meets a full map.
MapRefinement == Abstract!Spec

\* Reads of the endpoint registry are atomic at the granularity of a single
\* key (spec section 5): the inner dmac, outer daddr and outer dmac of a
\* forwarded frame are the three fields of one value, and that value is one
\* the looked-up key held while the reader used it, neither a mix of two
\* values nor another key's.  The reader's three loads through the element
\* pointer of line 237 race the update's spare swap and a delete's reuse.
ForwardUsesOneKeyValue ==
  fwd # None => fwd.out \in fwd.held
=============================================================================
