------------------------------- MODULE MCNetIf -------------------------------
(* Instances of NetIf for TLC: kinds of application.                       *)
EXTENDS NetIf

AllCommands == COMMANDS

App(sends, modes, unset, leaseLoss) ==
  [ sends |-> sends, modes |-> modes, unset |-> unset, leaseLoss |-> leaseLoss ]

\* One sends its commands when it likes and may change the address mode, on a
\* network that takes leases back or does not; the other waits for each state, uses
\* DHCP, and loses its lease now and then.
AllKinds ==
  { App("any order", {TRUE, FALSE}, TRUE, leaseLoss) : leaseLoss \in BOOLEAN }
    \cup { App("waits", {TRUE}, FALSE, TRUE) }

StaticAddress == { App("waits", {FALSE}, FALSE, FALSE) }
InOrder       == { App("in order", {TRUE}, FALSE, FALSE) }
=============================================================================
