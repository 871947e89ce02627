----------------------------- MODULE MCKeeperHealth -----------------------------
(* Instances of KeeperHealth for TLC.                                      *)
EXTENDS KeeperHealth

CONSTANTS k1, k2

Two == {k1, k2}
TwiceOnce == [k \in Two |-> IF k = k1 THEN 2 ELSE 1]
=================================================================================
