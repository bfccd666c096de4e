----------------------------- MODULE MCEsSockets -----------------------------
(* Instances of EsSockets for TLC.                                          *)
EXTENDS EsSockets, TLC

NoLiberty    == {}

\* The waiters are alike.
Alike == Permutations(Waiters)
=============================================================================
