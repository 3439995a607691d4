---------------------------- MODULE EndpointsMap ----------------------------
(***************************************************************************)
(* What the RPC handlers update_ep_1_svc and delete_ep_1_svc rely on from  *)
(* endpoints_map (trn_transit_xdp_maps.h:42-48, a BPF HASH of TRAN_MAX_NEP *)
(* entries): a finite map from endpoint key to endpoint, written one key   *)
(* at a time.  An update of a key already present always succeeds; an      *)
(* update of a new key fails with E2BIG exactly when the map is full; a    *)
(* delete of an absent key fails with ENOENT; a get returns the key's     *)
(* value, or NULL when it is absent.  result is the key, the return code   *)
(* and the value returned by the last call.                                *)
(***************************************************************************)
EXTENDS Naturals, FiniteSets

CONSTANTS
  Keys,          \* endpoint keys (vni, tenant ip)
  Vals,          \* endpoint values (hip, mac, hmac)
  MaxEntries,    \* max_entries of endpoints_map
  NoEp           \* model value: the key has no endpoint

VARIABLES map, result

Present == {k \in Keys : map[k] # NoEp}

Init == map = [k \in Keys |-> NoEp] /\ result = [key |-> NoEp, rc |-> "OK", val |-> NoEp]

\* trn_update_endpoint for one batch element.
Update(k, v) ==
  \/ /\ map[k] # NoEp \/ Cardinality(Present) < MaxEntries
     /\ map' = [map EXCEPT ![k] = v]
     /\ result' = [key |-> k, rc |-> "OK", val |-> NoEp]
  \/ /\ map[k] = NoEp /\ Cardinality(Present) = MaxEntries
     /\ result' = [key |-> k, rc |-> "E2BIG", val |-> NoEp]
     /\ UNCHANGED map

\* trn_delete_endpoint.
Delete(k) ==
  \/ /\ map[k] # NoEp
     /\ map' = [map EXCEPT ![k] = NoEp]
     /\ result' = [key |-> k, rc |-> "OK", val |-> NoEp]
  \/ /\ map[k] = NoEp
     /\ result' = [key |-> k, rc |-> "ENOENT", val |-> NoEp]
     /\ UNCHANGED map

\* get_ep_1_svc: trn_get_endpoint, the value or NULL.
Get(k) ==
  /\ result' = [key |-> k, rc |-> IF map[k] # NoEp THEN "OK" ELSE "ENOENT",
                val |-> map[k]]
  /\ UNCHANGED map

Next == \E k \in Keys : Delete(k) \/ Get(k) \/ \E v \in Vals : Update(k, v)

Spec == Init /\ [][Next]_<<map, result>>
=============================================================================
