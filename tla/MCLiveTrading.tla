---- MODULE MCLiveTrading ----
(* An instance of LiveTrading: two orders filled in two parts, under every    *)
(* limit that makes a difference.                                             *)
EXTENDS LiveTrading

MCLimits == {{}, {1}}
====
