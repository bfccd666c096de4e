----------------------------- MODULE MCNetCore ------------------------------
(* Instances of NetCore for TLC.                                            *)
EXTENDS NetCore

NoLiberty == {}
=============================================================================
