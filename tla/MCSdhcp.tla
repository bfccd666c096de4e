------------------------------ MODULE MCSdhcp ------------------------------
(* Instances of Sdhcp for TLC: two clients that come back to their lease,  *)
(* and a third, which the table has no room for.                           *)
EXTENDS Sdhcp

ThreeClients == {"a", "b", "c"}
Transactions == [ c \in ThreeClients |-> IF c = "c" THEN 1 ELSE 2 ]
=============================================================================
