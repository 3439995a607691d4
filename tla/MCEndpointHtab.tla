--------------------------- MODULE MCEndpointHtab ---------------------------
(* Model values and bounds for checking EndpointHtab with TLC.             *)
EXTENDS EndpointHtab

\* Two endpoints on different hosts, and the zeroed preallocated element.
EpA == [hip |-> "h1", mac |-> "m1", hmac |-> "hm1"]
EpB == [hip |-> "h2", mac |-> "m2", hmac |-> "hm2"]
EpZero == [hip |-> "0", mac |-> "0", hmac |-> "0"]

MCVals == {EpA, EpB}
=============================================================================
