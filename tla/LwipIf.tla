------------------------------- MODULE LwipIf -------------------------------
(***************************************************************************)
(* The lwIP glue, services/net_ip_lwip.c, as operators on one interface    *)
(* record x: pnetif->state, the copies pnetif keeps, the pointer to its    *)
(* lwIP interface, and that interface.  A call of lwIP that changes a flag *)
(* or the address runs net_ip_status_cb before it returns; here all of it  *)
(* is one step (NetIf is about what may come between).  IPv4, no DHCP      *)
(* server.                                                                 *)
(***************************************************************************)
EXTENDS Naturals, NetState

CONSTANT MAX_NETIFS      \* bound on the lwIP interfaces that fit in the heap

ASSUME LwipIfAssumption == MAX_NETIFS \in Nat \ {0}

Netifs == 1 .. MAX_NETIFS
NONE   == 0

Addrs == { "zero", "static", "lease" }

Net == [ up : BOOLEAN, link : BOOLEAN, addr : Addrs, dhcp : {"none", "discover", "bound"} ]

Interface ==
  [ state : NET_STATES, ipaddr : Addrs, dhcp_mode : BOOLEAN, release : BOOLEAN,
    ptr : Netifs \cup {NONE},    \* pnetif->netif
    live : SUBSET Netifs,        \* the lwIP interfaces allocated and not freed
    net : Net ]                  \* the one ptr points to

NewNet == [ up |-> FALSE, link |-> FALSE, addr |-> "zero", dhcp |-> "none" ]

\* net_state_manage_event, with an event of the driver or of lwIP.
Event(x, event) == [ x EXCEPT !.state = React(x.state, event) ]

-----------------------------------------------------------------------------
(* net_ip_status_cb                                                        *)

\* A new address is copied and, unless it is zero, reported; the link always.
Reported_ZeroToo(x) ==
  LET copied == [ x EXCEPT !.ipaddr = x.net.addr ]
      told   == IF x.ipaddr # x.net.addr THEN Event(copied, "IPADDR") ELSE copied
  IN  Event(told, IF x.net.link THEN "LINK_UP" ELSE "LINK_DOWN")

Reported(x) ==
  LET copied == [ x EXCEPT !.ipaddr = x.net.addr ]
      told   == IF x.ipaddr # x.net.addr /\ x.net.addr # "zero"
                THEN Event(copied, "IPADDR") ELSE copied
  IN  Event(told, IF x.net.link THEN "LINK_UP" ELSE "LINK_DOWN")

Lost(x) == x.dhcp_mode /\ x.release /\ x.net.addr # "zero" /\ ~x.net.link

net_ip_status_cb_NoRestart(x) ==
  IF Lost(x) THEN Reported(Reported([ x EXCEPT !.net.addr = "zero", !.net.dhcp = "none" ]))
  ELSE Reported(x)

\* A connection lost under DHCP is released, which invokes the callback again,
\* and the DHCP client starts anew.
net_ip_status_cb(x) ==
  IF Lost(x)
  THEN LET released == IF x.net.dhcp = "none" THEN x ELSE Reported([ x EXCEPT !.net.addr = "zero" ])
       IN  Reported([ released EXCEPT !.net.dhcp = "discover" ])
  ELSE Reported(x)

\* lwIP makes the interface of x, in << x, n >>, the interface n: it invokes the
\* callback if that is a change.
Changed[change \in Interface \X Net] ==
  LET x == change[1]
      n == change[2]
      y == [ x EXCEPT !.net = n ]
  IN  IF [ n EXCEPT !.dhcp = x.net.dhcp ] # x.net THEN net_ip_status_cb(y) ELSE y

SetUp(x, b) == Changed[<< x, [ x.net EXCEPT !.up = b ] >>]

\* A link that comes up restarts the DHCP client (dhcp_network_changed).
SetLink(x, b) ==
  Changed[<< x, [ x.net EXCEPT !.link = b,
                               !.dhcp = IF b /\ ~x.net.link /\ @ = "bound" THEN "discover" ELSE @ ] >>]

-----------------------------------------------------------------------------

\* What a call may lead to, and whether it returned zero.
Did(x, ok) == [ x |-> x, ok |-> ok ]

net_ip_add_if_Unchecked(x) ==
  { Did([ x EXCEPT !.ptr = p, !.live = @ \cup {p}, !.net = NewNet ], TRUE) :
      p \in (Netifs \cup {NONE}) \ x.live }

\* The driver's init function registers the callbacks.
net_ip_add_if(x) ==
  { Did([ x EXCEPT !.ptr = p, !.live = @ \cup {p}, !.net = NewNet ], TRUE) : p \in Netifs \ x.live }
    \cup { Did(x, FALSE) }

\* Without DHCP there has to be a static address, or nothing is done.
net_ip_connect(x) ==
  LET y == SetUp(x, TRUE)
  IN  IF x.ptr = NONE THEN { Did(x, FALSE) }
      ELSE IF x.dhcp_mode
           THEN { Did([ y EXCEPT !.release = TRUE, !.net.dhcp = "discover" ], TRUE) }
           ELSE { Did(Changed[<< y, [ y.net EXCEPT !.addr = "static" ] >>], TRUE), Did(x, FALSE) }

net_ip_disconnect(x) ==
  Did(Changed[<< x, [ x.net EXCEPT !.addr = "zero", !.dhcp = "none" ] >>], TRUE)

net_ip_remove_if(x) ==
  IF x.ptr = NONE THEN Did(x, TRUE)
  ELSE LET down == SetLink(SetUp(x, FALSE), FALSE)
       IN  Did([ down EXCEPT !.ptr = NONE, !.live = @ \ {x.ptr}, !.net = NewNet ], TRUE)

\* The DHCP client of lwIP is granted a lease, the same one each time.
MayBind(x) == x.ptr # NONE /\ x.net.dhcp = "discover" /\ x.net.link /\ x.net.up

Bound(x) == Changed[<< x, [ x.net EXCEPT !.addr = "lease", !.dhcp = "bound" ] >>]
=============================================================================
