---------------------------- MODULE MCNetSocket ----------------------------
(* Instances of NetSocket for TLC.  A profile names what the application    *)
(* calls: one operation of each family stands for the others of it.         *)
EXTENDS NetSocket, TLC

Symmetry == Permutations(Tasks)

SerialOps == {"socket", "setsockopt", "accept", "connect", "sendto", "shutdown", "close"}
DataOps   == {"socket", "recvfrom", "close"}
ClientOps == {"socket", "connect", "close"}
=============================================================================
