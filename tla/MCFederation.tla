---------------------------- MODULE MCFederation ----------------------------
(* Federation for TLC: a server that mints, a node that follows it and mints  *)
(* in the same group, and a second server the node may add.                   *)
EXTENDS Federation

CONSTANTS server, follower, second, k1, k2, k3

MCUni == [k \in Keys |-> IF k = k3 THEN "asset" ELSE "group"]
MCHome == [k \in Keys |-> IF k \in {k1, k3} THEN server ELSE follower]
MCStatic == [n \in Nodes |-> IF n = follower THEN {server} ELSE {}]
MCAddable == [n \in Nodes |-> IF n = follower THEN {second} ELSE {}]
=============================================================================
