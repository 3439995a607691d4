---------------------------- MODULE MCTransitXdp ----------------------------
(* Model values and bounds for checking TransitXdp with TLC.               *)
EXTENDS TransitXdp

\* Two entrances a droplet may announce; slot 1 of a one-entrance config is
\* what update_droplet_1_svc left uninitialised on its stack.
EntA == [ip |-> "i1", mac |-> "m1"]
EntB == [ip |-> "i2", mac |-> "m2"]

CfgFwd == [role |-> "XDP_FWD", num_entrances |-> 1, entrances |-> (0 :> EntA @@ 1 :> EntB)]
CfgFtn == [role |-> "XDP_FTN", num_entrances |-> 1, entrances |-> (0 :> EntA @@ 1 :> EntB)]

\* Droplets: three entrances, one more than TRAN_MAX_ZGC_ENTRANCES = 2 (the
\* one-entrance droplet <<EntA>> installs the attach-time config again); for
\* the moving-entrance run, entrance A or entrance B alone.  The
\* handler's stack holds entrance B in every slot the loop does not write.
MCDroplets == {<<EntA, EntB, EntB>>}
MCDropletsMoving == {<<EntA>>, <<EntB>>}
MCDroplets1 == {<<EntA>>}
MCGarbageB == {[i \in 0 .. 1 |-> EntB]}

\* The role the program is attached with: forwarder, flow-table node, or either.
MCInitFwd == {CfgFwd}
MCInitFtn == {CfgFtn}
MCInitBoth == {CfgFwd, CfgFtn}

\* Security-group rules: tenant t1 may talk to t2 over TCP port 80 and ICMP
\* (egress rules use the fixed port 30011); t2 admits UDP port 22 from t1,
\* but t1 has no UDP egress rule toward t2.
MCSgRules ==
  { <<"v1", "t1", "t2", "TCP", 30011, 0>>, <<"v1", "t2", "t1", "TCP", 80, 1>>,
    <<"v1", "t1", "t2", "ICMP", 30011, 0>>, <<"v1", "t2", "t1", "ICMP", 30011, 0>>,
    <<"v1", "t2", "t1", "UDP", 22, 1>> }

\* Two endpoints on one remote host.
Ep1 == [hip |-> "h2", mac |-> "tm2", hmac |-> "hm2"]
Ep2 == [hip |-> "h2", mac |-> "tm3", hmac |-> "hm2"]
MCEpVals == {Ep1, Ep2}

\* One batch registering both tenant IPs.
MCBatches == { << <<<<"v1", "t2">>, Ep1>>, <<<<"v1", "t1">>, Ep2>> >> }
=============================================================================
