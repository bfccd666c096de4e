--------------------------- MODULE WifiIf_proofs ---------------------------
(***************************************************************************)
(* Theorems about WifiIf: every safety property the run checks, for any    *)
(* number of starts and reports, any modes and drivers, whatever the       *)
(* module and its network do.                                              *)
(*                                                                         *)
(* The types hold without a hypothesis (Types).  The rest goes along the   *)
(* plans of each driver: what is left of a command, with the states the    *)
(* interface may be in and whether it has an lwIP interface by then        *)
(* (StageInv).  On it rest the facts about what is left behind (OnceInv,   *)
(* LiveInv, DrvInv, TxInv), about the ways a frame takes (EntryInv,        *)
(* HandleInv), and about the address of a connected interface (NetInv,     *)
(* QuietInv, ConnInv).                                                     *)
(***************************************************************************)
EXTENDS WifiIf, SequenceTheorems, TLAPS

-----------------------------------------------------------------------------
\* The state machine, and what lwIP reports to it.

\* The states of a connection.
Linked == {"CONNECTING", "CONNECTED", "CONNECTION_LOST"}

\* Whatever event comes, the state is one of the states.
LEMMA ReactType ==
  ASSUME NEW from \in NET_STATES, NEW event
  PROVE  React(from, event) \in NET_STATES
<1>1. CASE Reactions(from, event) = {}
  BY <1>1 DEF React
<1>2. CASE Reactions(from, event) # {}
  <2>1. PICK e \in Reactions(from, event) : React(from, event) = e[3]
    BY <1>2 DEF React
  <2>2. e \in Edges
    BY DEF Reactions
  <2>3. e[3] \in NET_STATES
    BY <2>2 DEF Edges, Initialized, Starting, Ready, Connecting, Connected, Disconnecting,
       Stopping,
       ConnectionLost, NET_STATES
  <2> QED
    BY <2>1, <2>3
<1> QED
  BY <1>1, <1>2

\* The events of the driver and of lwIP, and the states they are for.
LEMMA Reacts ==
  ASSUME NEW from
  PROVE  /\ React(from, "INTERFACE_READY") =
              IF from \in {"STARTING", "DISCONNECTING"} THEN "READY" ELSE from
         /\ React(from, "INTERFACE_INITIALIZED") = IF from = "STOPPING" THEN "INITIALIZED"
              ELSE from
         /\ React(from, "IPADDR") = IF from = "CONNECTING" THEN "CONNECTED" ELSE from
         /\ React(from, "LINK_UP") = IF from = "CONNECTION_LOST" THEN "CONNECTING" ELSE from
         /\ React(from, "LINK_DOWN") = IF from = "CONNECTED" THEN "CONNECTION_LOST" ELSE from
<1>1. ASSUME NEW ev, NEW to, NEW e \in Reactions(from, ev), \A f \in Reactions(from, ev) :
        f[3] = to
      PROVE  React(from, ev) = to
  <2>1. (CHOOSE f \in Reactions(from, ev) : TRUE) \in Reactions(from, ev)
    BY <1>1
  <2> QED
    BY <1>1, <2>1 DEF React
<1>2. ASSUME NEW ev, Reactions(from, ev) = {}
      PROVE  React(from, ev) = from
  BY <1>2 DEF React
<1>3. /\ << "STARTING", "INTERFACE_READY", "READY", "none" >> \in Edges
      /\ << "DISCONNECTING", "INTERFACE_READY", "READY", "none" >> \in Edges
      /\ << "STOPPING", "INTERFACE_INITIALIZED", "INITIALIZED", "none" >> \in Edges
      /\ << "CONNECTING", "IPADDR", "CONNECTED", "none" >> \in Edges
      /\ << "CONNECTED", "IPADDR", "CONNECTED", "none" >> \in Edges
      /\ << "CONNECTION_LOST", "LINK_UP", "CONNECTING", "none" >> \in Edges
      /\ << "CONNECTED", "LINK_DOWN", "CONNECTION_LOST", "none" >> \in Edges
  BY DEF Edges, Starting, Disconnecting, Stopping, Connecting, Connected, ConnectionLost
<1>4. \A e \in Edges :
        /\ e[2] = "INTERFACE_READY" => e[1] \in {"STARTING", "DISCONNECTING"} /\ e[3] = "READY"
        /\ e[2] = "INTERFACE_INITIALIZED" => e[1] = "STOPPING" /\ e[3] = "INITIALIZED"
        /\ e[2] = "IPADDR" => e[1] \in {"CONNECTING", "CONNECTED"} /\ e[3] = "CONNECTED"
        /\ e[2] = "LINK_UP" => e[1] = "CONNECTION_LOST" /\ e[3] = "CONNECTING"
        /\ e[2] = "LINK_DOWN" => e[1] = "CONNECTED" /\ e[3] = "CONNECTION_LOST"
  BY DEF Edges, Initialized, Starting, Ready, Connecting, Connected, Disconnecting, Stopping,
         ConnectionLost
<1>5. React(from, "INTERFACE_READY") =
        IF from \in {"STARTING", "DISCONNECTING"} THEN "READY" ELSE from
  <2>1. CASE from \in {"STARTING", "DISCONNECTING"}
    <3>1. << from, "INTERFACE_READY", "READY", "none" >> \in Reactions(from, "INTERFACE_READY")
      BY <1>3, <2>1 DEF Reactions
    <3>2. \A f \in Reactions(from, "INTERFACE_READY") : f[3] = "READY"
      BY <1>4 DEF Reactions
    <3> QED
      BY <1>1, <2>1, <3>1, <3>2
  <2>2. CASE from \notin {"STARTING", "DISCONNECTING"}
    <3>1. Reactions(from, "INTERFACE_READY") = {}
      BY <1>4, <2>2 DEF Reactions
    <3> QED
      BY <1>2, <2>2, <3>1
  <2> QED
    BY <2>1, <2>2
<1>6. React(from, "INTERFACE_INITIALIZED") = IF from = "STOPPING" THEN "INITIALIZED" ELSE from
  <2>1. CASE from = "STOPPING"
    <3>1. << from, "INTERFACE_INITIALIZED", "INITIALIZED", "none" >> \in Reactions(from,
            "INTERFACE_INITIALIZED")
      BY <1>3, <2>1 DEF Reactions
    <3>2. \A f \in Reactions(from, "INTERFACE_INITIALIZED") : f[3] = "INITIALIZED"
      BY <1>4 DEF Reactions
    <3> QED
      BY <1>1, <2>1, <3>1, <3>2
  <2>2. CASE from # "STOPPING"
    <3>1. Reactions(from, "INTERFACE_INITIALIZED") = {}
      BY <1>4, <2>2 DEF Reactions
    <3> QED
      BY <1>2, <2>2, <3>1
  <2> QED
    BY <2>1, <2>2
<1>8. React(from, "LINK_UP") = IF from = "CONNECTION_LOST" THEN "CONNECTING" ELSE from
  <2>1. CASE from = "CONNECTION_LOST"
    <3>1. << from, "LINK_UP", "CONNECTING", "none" >> \in Reactions(from, "LINK_UP")
      BY <1>3, <2>1 DEF Reactions
    <3>2. \A f \in Reactions(from, "LINK_UP") : f[3] = "CONNECTING"
      BY <1>4 DEF Reactions
    <3> QED
      BY <1>1, <2>1, <3>1, <3>2
  <2>2. CASE from # "CONNECTION_LOST"
    <3>1. Reactions(from, "LINK_UP") = {}
      BY <1>4, <2>2 DEF Reactions
    <3> QED
      BY <1>2, <2>2, <3>1
  <2> QED
    BY <2>1, <2>2
<1>9. React(from, "LINK_DOWN") = IF from = "CONNECTED" THEN "CONNECTION_LOST" ELSE from
  <2>1. CASE from = "CONNECTED"
    <3>1. << from, "LINK_DOWN", "CONNECTION_LOST", "none" >> \in Reactions(from, "LINK_DOWN")
      BY <1>3, <2>1 DEF Reactions
    <3>2. \A f \in Reactions(from, "LINK_DOWN") : f[3] = "CONNECTION_LOST"
      BY <1>4 DEF Reactions
    <3> QED
      BY <1>1, <2>1, <3>1, <3>2
  <2>2. CASE from # "CONNECTED"
    <3>1. Reactions(from, "LINK_DOWN") = {}
      BY <1>4, <2>2 DEF Reactions
    <3> QED
      BY <1>2, <2>2, <3>1
  <2> QED
    BY <2>1, <2>2
<1>7. React(from, "IPADDR") = IF from = "CONNECTING" THEN "CONNECTED" ELSE from
  <2>1. CASE from \in {"CONNECTING", "CONNECTED"}
    <3>1. << from, "IPADDR", "CONNECTED", "none" >> \in Reactions(from, "IPADDR")
      BY <1>3, <2>1 DEF Reactions
    <3>2. \A f \in Reactions(from, "IPADDR") : f[3] = "CONNECTED"
      BY <1>4 DEF Reactions
    <3> QED
      BY <1>1, <2>1, <3>1, <3>2
  <2>2. CASE from \notin {"CONNECTING", "CONNECTED"}
    <3>1. Reactions(from, "IPADDR") = {}
      BY <1>4, <2>2 DEF Reactions
    <3> QED
      BY <1>2, <2>2, <3>1
  <2> QED
    BY <2>1, <2>2
<1> QED
  BY <1>5, <1>6, <1>7, <1>8, <1>9

\* y is interface x after reports of lwIP: its state is at most another of those of a
\* connection, and only its state and its copy of the address have changed.
Told(x, y) ==
  /\ y \in Interface
  /\ y.ptr = x.ptr /\ y.live = x.live /\ y.dhcp_mode = x.dhcp_mode /\ y.release = x.release
  /\ x.state \in Linked => y.state \in Linked
  /\ x.state \notin Linked => y.state = x.state

\* An event changes the state.
LEMMA EventEffect ==
  ASSUME NEW x \in Interface, NEW event
  PROVE  /\ Event(x, event) \in Interface
         /\ Event(x, event).state = React(x.state, event)
         /\ Event(x, event).ptr = x.ptr /\ Event(x, event).live = x.live
         /\ Event(x, event).dhcp_mode = x.dhcp_mode /\ Event(x, event).release = x.release
         /\ Event(x, event).ipaddr = x.ipaddr /\ Event(x, event).net = x.net
<1>1. x.state \in NET_STATES
  BY DEF Interface
<1>2. React(x.state, event) \in NET_STATES
  BY <1>1, ReactType
<1> HIDE DEF Interface
<1> QED
  BY <1>2 DEF Event, Interface

\* net_ip_status_cb tells the address and the link.
LEMMA ReportedEffect ==
  ASSUME NEW x \in Interface
  PROVE  LET y == Reported(x)
         IN  /\ Told(x, y) /\ y.net = x.net /\ y.ipaddr = x.net.addr
             /\ y.state = "CONNECTED" => x.net.link
             /\ y.state = "CONNECTED" /\ x.net.addr = "zero" => x.state = "CONNECTED"
<1> DEFINE c == [ x EXCEPT !.ipaddr = x.net.addr ]
           t == IF x.ipaddr # x.net.addr /\ x.net.addr # "zero" THEN Event(c, "IPADDR") ELSE c
           e == IF x.net.link THEN "LINK_UP" ELSE "LINK_DOWN"
           y == Event(t, e)
<1>0. Reported(x) = y
  BY DEF Reported
<1>1. /\ c \in Interface /\ c.ipaddr = x.net.addr /\ c.net = x.net /\ c.state = x.state
      /\ c.ptr = x.ptr /\ c.live = x.live /\ c.dhcp_mode = x.dhcp_mode /\ c.release = x.release
      /\ x.state \in NET_STATES
  BY DEF Interface, Net
<1> HIDE DEF c
<1>2. /\ t \in Interface /\ t.ipaddr = x.net.addr /\ t.net = x.net
      /\ t.ptr = x.ptr /\ t.live = x.live /\ t.dhcp_mode = x.dhcp_mode /\ t.release = x.release
      /\ t.state \in {x.state, React(x.state, "IPADDR")}
      /\ x.net.addr = "zero" => t.state = x.state
  <2>1. CASE x.ipaddr # x.net.addr /\ x.net.addr # "zero"
    BY <1>1, <2>1, EventEffect
  <2>2. CASE ~(x.ipaddr # x.net.addr /\ x.net.addr # "zero")
    BY <1>1, <2>2
  <2> QED
    BY <2>1, <2>2
<1> HIDE DEF t
<1>3. /\ y \in Interface /\ y.ipaddr = x.net.addr /\ y.net = x.net
      /\ y.ptr = x.ptr /\ y.live = x.live /\ y.dhcp_mode = x.dhcp_mode /\ y.release = x.release
      /\ y.state = React(t.state, e)
  BY <1>2, EventEffect
<1> HIDE DEF y
<1>4. t.state \in NET_STATES
  BY <1>1, <1>2, ReactType
<1>5. t.state = x.state \/ (x.state = "CONNECTING" /\ t.state = "CONNECTED")
  <2>1. React(x.state, "IPADDR") = IF x.state = "CONNECTING" THEN "CONNECTED" ELSE x.state
    BY Reacts, Zenon
  <2> QED
    BY <1>2, <2>1
<1>6. /\ x.net.link => y.state = IF t.state = "CONNECTION_LOST" THEN "CONNECTING" ELSE t.state
      /\ ~x.net.link => y.state = IF t.state = "CONNECTED" THEN "CONNECTION_LOST" ELSE t.state
  BY <1>3, <1>4, Reacts
<1>7. /\ x.state \in Linked => y.state \in Linked
      /\ x.state \notin Linked => y.state = x.state
      /\ y.state = "CONNECTED" => x.net.link
      /\ y.state = "CONNECTED" /\ x.net.addr = "zero" => x.state = "CONNECTED"
  BY <1>2, <1>5, <1>6 DEF Linked
<1> QED
  BY <1>0, <1>3, <1>7 DEF Told

\* A connected interface has copied the address of lwIP, which is one.
Good(x) == x.state = "CONNECTED" => x.ipaddr = x.net.addr /\ x.net.addr # "zero"

\* lwIP's interface has been made n, but for its DHCP client and an address given up.
Made(y, n) == y.net.up = n.up /\ y.net.link = n.link /\ y.net.addr \in {n.addr, "zero"}

\* The fields of the lwIP interface of an interface.
LEMMA NetFields ==
  ASSUME NEW x \in Interface
  PROVE  /\ x.net \in Net /\ x.net.addr \in Addrs /\ x.net.up \in BOOLEAN /\ x.net.link \in BOOLEAN
         /\ "zero" \in Addrs /\ "static" \in Addrs /\ "lease" \in Addrs
  BY DEF Interface, Net, Addrs

\* An interface record with another lwIP interface.
LEMMA WithNet ==
  ASSUME NEW x \in Interface, NEW n \in Net
  PROVE  LET y == [ x EXCEPT !.net = n ]
         IN  Told(x, y) /\ y.net = n /\ y.ipaddr = x.ipaddr /\ y.state = x.state
  BY DEF Interface, Told

\* net_ip_status_cb
LEMMA CallbackEffect ==
  ASSUME NEW x \in Interface
  PROVE  LET y == net_ip_status_cb(x)
         IN  /\ Told(x, y) /\ Made(y, x.net)
             /\ y.state = "CONNECTED" => y.ipaddr = y.net.addr
             /\ y.state = "CONNECTED" /\ y.net.addr = "zero" =>
                  x.state = "CONNECTED" /\ x.net.addr = "zero"
<1>1. CASE ~Lost(x)
  <2>1. net_ip_status_cb(x) = Reported(x)
    BY <1>1 DEF net_ip_status_cb
  <2> QED
    BY <2>1, ReportedEffect DEF Made
<1>2. CASE Lost(x)
  <2> DEFINE z == [ x EXCEPT !.net = [ x.net EXCEPT !.addr = "zero" ] ]
             r == IF x.net.dhcp = "none" THEN x ELSE Reported(z)
             w == [ r EXCEPT !.net = [ r.net EXCEPT !.dhcp = "discover" ] ]
             y == Reported(w)
  <2>1. net_ip_status_cb(x) = y
    BY <1>2 DEF net_ip_status_cb
  <2>2. [ x.net EXCEPT !.addr = "zero" ] \in Net /\ Made(z, x.net) /\ Told(x, z)
          /\ z.state = x.state
    <3> DEFINE n == [ x.net EXCEPT !.addr = "zero" ]
    <3>1. n \in Net /\ n.addr = "zero" /\ n.up = x.net.up /\ n.link = x.net.link
      BY NetFields DEF Net
    <3> HIDE DEF n
    <3>2. Told(x, z) /\ z.net = n /\ z.state = x.state
      BY <3>1, WithNet DEF n
    <3> QED
      BY <3>1, <3>2 DEF Made, n
  <2>3. z \in Interface
    BY <2>2 DEF Told
  <2> HIDE DEF z
  <2>4. Told(z, Reported(z)) /\ Reported(z).net = z.net
    BY <2>3, ReportedEffect
  <2>5. Told(x, r) /\ Made(r, x.net)
    <3>1. CASE x.net.dhcp = "none"
      BY <3>1 DEF Told, Made
    <3>2. CASE x.net.dhcp # "none"
      BY <2>2, <2>4, <3>2 DEF Told, Made
    <3> QED
      BY <3>1, <3>2
  <2> HIDE DEF r
  <2>6. r \in Interface
    BY <2>5 DEF Told
  <2>7. Told(r, w) /\ Made(w, x.net) /\ w \in Interface
    <3>1. [ r.net EXCEPT !.dhcp = "discover" ] \in Net /\ r.net \in Net
      BY <2>6, NetFields DEF Net
    <3>2. /\ [ r.net EXCEPT !.dhcp = "discover" ].up = r.net.up
          /\ [ r.net EXCEPT !.dhcp = "discover" ].link = r.net.link
          /\ [ r.net EXCEPT !.dhcp = "discover" ].addr = r.net.addr
      BY <3>1 DEF Net
    <3>3. Told(r, w) /\ w.net = [ r.net EXCEPT !.dhcp = "discover" ]
      BY <2>6, <3>1, WithNet
    <3> QED
      BY <2>5, <3>2, <3>3 DEF Made, Told
  <2> HIDE DEF w
  <2>8. Told(w, y) /\ y.net = w.net /\ (y.state = "CONNECTED" => w.net.link)
    BY <2>7, ReportedEffect
  <2> HIDE DEF y
  <2>9. ~x.net.link
    BY <1>2 DEF Lost
  <2>10. y.state # "CONNECTED"
    BY <2>7, <2>8, <2>9 DEF Made
  <2>11. Told(x, y)
    BY <2>5, <2>7, <2>8 DEF Told
  <2>12. Made(y, x.net)
    BY <2>7, <2>8 DEF Made
  <2> QED
    BY <2>1, <2>10, <2>11, <2>12
<1> QED
  BY <1>1, <1>2

\* lwIP makes its interface n, and tells if that is a change.
LEMMA ChangedEffect ==
  ASSUME NEW x \in Interface, NEW n \in Net
  PROVE  LET y == Changed[<< x, n >>]
         IN  /\ Told(x, y) /\ Made(y, n)
             /\ Good(x) /\ (x.state = "CONNECTED" => n.addr # "zero") => Good(y)
<1> DEFINE z == [ x EXCEPT !.net = n ]
<1>1. Changed[<< x, n >>] = IF [ n EXCEPT !.dhcp = x.net.dhcp ] # x.net
        THEN net_ip_status_cb(z) ELSE z
  <2>1. << x, n >> \in Interface \X Net /\ << x, n >>[1] = x /\ << x, n >>[2] = n
    OBVIOUS
  <2> QED
    BY <2>1 DEF Changed
<1>2. Told(x, z) /\ z.net = n /\ z.ipaddr = x.ipaddr /\ z.state = x.state /\ z \in Interface
  BY WithNet DEF Told
<1> HIDE DEF z
<1>3. CASE [ n EXCEPT !.dhcp = x.net.dhcp ] # x.net
  <2> DEFINE y == net_ip_status_cb(z)
  <2>1. /\ Told(z, y) /\ Made(y, n)
        /\ y.state = "CONNECTED" => y.ipaddr = y.net.addr
        /\ y.state = "CONNECTED" /\ y.net.addr = "zero" => x.state = "CONNECTED" /\ n.addr = "zero"
    BY <1>2, CallbackEffect
  <2> HIDE DEF y
  <2>2. Told(x, y)
    BY <1>2, <2>1 DEF Told
  <2>3. Good(x) /\ (x.state = "CONNECTED" => n.addr # "zero") => Good(y)
    BY <2>1 DEF Good
  <2> QED
    BY <1>1, <1>3, <2>1, <2>2, <2>3 DEF y
<1>4. CASE [ n EXCEPT !.dhcp = x.net.dhcp ] = x.net
  <2>1. n.addr = x.net.addr /\ n.up = x.net.up /\ n.link = x.net.link
    BY <1>4 DEF Net
  <2>2. Made(z, n) /\ (Good(x) => Good(z))
    BY <1>2, <2>1 DEF Made, Good
  <2> QED
    BY <1>1, <1>2, <1>4, <2>2
<1> QED
  BY <1>3, <1>4

\* The calls of lwIP that may tell.
LEMMA SetUpEffect ==
  ASSUME NEW x \in Interface, NEW b \in BOOLEAN
  PROVE  LET y == SetUp(x, b)
         IN  /\ Told(x, y) /\ y.net.addr \in {x.net.addr, "zero"}
             /\ Good(x) => Good(y)
<1> DEFINE n == [ x.net EXCEPT !.up = b ]
<1>1. n \in Net /\ n.addr = x.net.addr
  BY NetFields DEF Net
<1>2. SetUp(x, b) = Changed[<< x, n >>]
  BY DEF SetUp
<1> HIDE DEF n
<1> QED
  BY <1>1, <1>2, ChangedEffect DEF Made, Good

\* What netif_set_link does: as netif_set_up, and the address may be given up.
LEMMA SetLinkEffect ==
  ASSUME NEW x \in Interface, NEW b \in BOOLEAN
  PROVE  LET y == SetLink(x, b)
         IN  /\ Told(x, y) /\ y.net.addr \in {x.net.addr, "zero"}
             /\ Good(x) => Good(y)
<1> DEFINE d == IF b /\ ~x.net.link /\ x.net.dhcp = "bound" THEN "discover" ELSE x.net.dhcp
           n == [ x.net EXCEPT !.link = b, !.dhcp = d ]
<1>1. d \in {"none", "discover", "bound"}
  BY NetFields DEF Net
<1>2. n \in Net /\ n.addr = x.net.addr
  BY <1>1, NetFields DEF Net
<1>3. SetLink(x, b) = Changed[<< x, n >>]
  BY DEF SetLink
<1> HIDE DEF n
<1> QED
  BY <1>2, <1>3, ChangedEffect DEF Made, Good

\* The DHCP client gets its lease: only then does an address of lwIP appear.
LEMMA BoundEffect ==
  ASSUME NEW x \in Interface
  PROVE  LET y == Bound(x)
         IN  /\ Told(x, y) /\ y.net.addr \in {"lease", "zero"}
             /\ Good(x) => Good(y)
<1> DEFINE n == [ x.net EXCEPT !.addr = "lease", !.dhcp = "bound" ]
<1>1. n \in Net /\ n.addr = "lease"
  BY NetFields DEF Net, Addrs
<1>2. Bound(x) = Changed[<< x, n >>]
  BY DEF Bound
<1> HIDE DEF n
<1> QED
  BY <1>1, <1>2, ChangedEffect DEF Made, Good

\* The lwIP glue.
LEMMA AddIfEffect ==
  ASSUME NEW x \in Interface, NEW o \in net_ip_add_if(x)
  PROVE  /\ o.ok \in BOOLEAN /\ o.x \in Interface
         /\ ~o.ok => o.x = x
         /\ o.ok => /\ o.x.ptr \in Netifs /\ o.x.live = x.live \cup {o.x.ptr}
                    /\ o.x.state = x.state /\ o.x.dhcp_mode = x.dhcp_mode /\ o.x.net = NewNet
                    /\ o.x.ipaddr = x.ipaddr
<1>1. CASE o = Did(x, FALSE)
  BY <1>1 DEF Did
<1>2. ASSUME NEW p \in Netifs \ x.live,
             o = Did([ x EXCEPT !.ptr = p, !.live = @ \cup {p}, !.net = NewNet ], TRUE)
      PROVE  /\ o.ok /\ o.x \in Interface /\ o.x.ptr \in Netifs /\ o.x.live = x.live \cup {o.x.ptr}
             /\ o.x.state = x.state /\ o.x.dhcp_mode = x.dhcp_mode /\ o.x.net = NewNet
             /\ o.x.ipaddr = x.ipaddr
  <2>1. NewNet \in Net
    BY DEF NewNet, Net, Addrs
  <2>2. o.ok /\ o.x = [ x EXCEPT !.ptr = p, !.live = x.live \cup {p}, !.net = NewNet ]
    BY <1>2 DEF Did
  <2> QED
    <3>1. x.live \cup {p} \in SUBSET Netifs /\ p \in Netifs \cup {NONE}
      BY DEF Interface
    <3> QED
      BY <2>1, <2>2, <3>1 DEF Interface
<1> QED
  BY <1>1, <1>2 DEF net_ip_add_if

\* What net_ip_connect does: if it fails it did nothing, and without an lwIP interface
\* it fails.
LEMMA ConnectEffect ==
  ASSUME NEW x \in Interface, NEW o \in net_ip_connect(x)
  PROVE  /\ o.ok \in BOOLEAN /\ (o.ok => x.ptr # NONE) /\ (~o.ok => o.x = x)
         /\ o.x \in Interface
         /\ o.x.ptr = x.ptr /\ o.x.live = x.live /\ o.x.dhcp_mode = x.dhcp_mode
         /\ x.state \in Linked => o.x.state \in Linked
         /\ x.state \notin Linked => o.x.state = x.state
         /\ o.x.net.addr \in {x.net.addr, "static", "zero"}
         /\ Good(x) => Good(o.x)
<1>1. CASE o = Did(x, FALSE)
  <2>1. o.ok = FALSE /\ o.x = x
    BY <1>1 DEF Did
  <2> QED
    BY <2>1
<1>2. CASE x.ptr # NONE /\ x.dhcp_mode /\ o # Did(x, FALSE)
  <2> DEFINE y == SetUp(x, TRUE)
             z == [ y EXCEPT !.release = TRUE, !.net = [ y.net EXCEPT !.dhcp = "discover" ] ]
  <2>1. o = Did(z, TRUE)
    BY <1>2 DEF net_ip_connect
  <2>2. Told(x, y) /\ y.net.addr \in {x.net.addr, "zero"} /\ (Good(x) => Good(y))
    BY SetUpEffect
  <2> HIDE DEF y
  <2>3. y \in Interface
    BY <2>2 DEF Told
  <2>4. [ y.net EXCEPT !.dhcp = "discover" ] \in Net
          /\ [ y.net EXCEPT !.dhcp = "discover" ].addr = y.net.addr
    BY <2>3, NetFields DEF Net
  <2>5. /\ z \in Interface /\ z.ptr = y.ptr /\ z.live = y.live /\ z.dhcp_mode = y.dhcp_mode
        /\ z.state = y.state /\ z.ipaddr = y.ipaddr /\ z.net.addr = y.net.addr
    BY <2>3, <2>4 DEF Interface
  <2> HIDE DEF z
  <2>6. o.x = z /\ o.ok = TRUE
    BY <2>1 DEF Did
  <2> QED
    BY <1>2, <2>2, <2>5, <2>6 DEF Told, Good
<1>3. CASE x.ptr # NONE /\ ~x.dhcp_mode /\ o # Did(x, FALSE)
  <2> DEFINE y == SetUp(x, TRUE)
             n == [ y.net EXCEPT !.addr = "static" ]
             z == Changed[<< y, n >>]
  <2>1. o = Did(z, TRUE)
    BY <1>3 DEF net_ip_connect
  <2>2. Told(x, y) /\ (Good(x) => Good(y))
    BY SetUpEffect
  <2> HIDE DEF y
  <2>3. y \in Interface
    BY <2>2 DEF Told
  <2>4. n \in Net /\ n.addr = "static"
    BY <2>3, NetFields DEF Net, Addrs
  <2> HIDE DEF n
  <2>5. Told(y, z) /\ z.net.addr \in {"static", "zero"} /\ (Good(y) => Good(z))
    BY <2>3, <2>4, ChangedEffect DEF Made
  <2> HIDE DEF z
  <2>6. o.x = z /\ o.ok = TRUE
    BY <2>1 DEF Did
  <2> QED
    BY <1>3, <2>2, <2>5, <2>6 DEF Told
<1>4. x.ptr = NONE => o = Did(x, FALSE)
  BY DEF net_ip_connect
<1> QED
  BY <1>1, <1>2, <1>3, <1>4

\* What net_ip_disconnect does: the address is zero, no lwIP interface is lost.
LEMMA DisconnectEffect ==
  ASSUME NEW x \in Interface
  PROVE  LET o == net_ip_disconnect(x)
         IN  /\ Told(x, o.x) /\ o.x.net.addr = "zero"
             /\ x.state # "CONNECTED" /\ x.state \notin Linked => Good(o.x)
<1> DEFINE n == [ x.net EXCEPT !.addr = "zero", !.dhcp = "none" ]
<1>1. n \in Net /\ n.addr = "zero"
  BY NetFields DEF Net, Addrs
<1>2. net_ip_disconnect(x).x = Changed[<< x, n >>]
  BY DEF net_ip_disconnect, Did
<1> HIDE DEF n
<1> QED
  <2>1. /\ Told(x, Changed[<< x, n >>]) /\ Made(Changed[<< x, n >>], n)
        /\ Good(x) /\ (x.state = "CONNECTED" => n.addr # "zero") => Good(Changed[<< x, n >>])
    BY <1>1, ChangedEffect
  <2> QED
    BY <1>1, <1>2, <2>1 DEF Made, Good, Linked
\* What net_ip_remove_if does: the lwIP interface is freed, and nothing reported.
LEMMA RemoveEffect ==
  ASSUME NEW x \in Interface
  PROVE  LET y == net_ip_remove_if(x).x
         IN  /\ y \in Interface /\ y.ptr = NONE /\ y.dhcp_mode = x.dhcp_mode
             /\ y.live = IF x.ptr = NONE THEN x.live ELSE x.live \ {x.ptr}
             /\ x.state \in Linked => y.state \in Linked
             /\ x.state \notin Linked => y.state = x.state
             /\ y.net = IF x.ptr = NONE THEN x.net ELSE NewNet
<1>1. CASE x.ptr = NONE
  BY <1>1 DEF net_ip_remove_if, Did
<1>2. CASE x.ptr # NONE
  <2> DEFINE u == SetUp(x, FALSE)
             d == SetLink(u, FALSE)
             z == [ d EXCEPT !.ptr = NONE, !.live = d.live \ {x.ptr}, !.net = NewNet ]
  <2>1. net_ip_remove_if(x).x = z
    BY <1>2 DEF net_ip_remove_if, Did
  <2>2. Told(x, u) /\ u \in Interface
    BY SetUpEffect DEF Told
  <2> HIDE DEF u
  <2>3. Told(u, d) /\ d \in Interface
    BY <2>2, SetLinkEffect DEF Told
  <2> HIDE DEF d
  <2>4. NewNet \in Net
    BY DEF NewNet, Net, Addrs
  <2>5. /\ z \in Interface /\ z.ptr = NONE /\ z.live = d.live \ {x.ptr} /\ z.net = NewNet
        /\ z.state = d.state /\ z.dhcp_mode = d.dhcp_mode
    BY <2>3, <2>4 DEF Interface
  <2> QED
    BY <1>2, <2>1, <2>2, <2>3, <2>5 DEF Told
<1> QED
  BY <1>1, <1>2

-----------------------------------------------------------------------------
\* The types.

\* The steps the functions of a driver make, and what its module tells.
Steps_es  == {"join", "own address", "leave", "ready", "initialized"}
Steps_mx  == {"ask", "own address", "leave", "no handle", "ready", "initialized"}
Steps_mxb == {"ask", "handle", "leave", "no handle", "add_if", "link_up", "ip_connect",
              "ip_disconnect", "remove_if", "ready", "initialized"}
Steps_cy  == {"join", "leave", "add_if", "link_up", "link_down", "ip_connect", "ip_disconnect",
              "remove_if", "ready", "initialized", "sta", "ap"}
Steps_st  == {"power up", "power down", "ask", "leave", "add_if", "ip_connect", "ready",
    "initialized"}

\* The steps of the driver's functions.
StepsOf ==
  IF driver = "es" THEN Steps_es
  ELSE IF driver = "mx" THEN Steps_mx
  ELSE IF driver = "mxb" THEN Steps_mxb
  ELSE IF driver = "cy" THEN Steps_cy ELSE Steps_st

Told_st  == {"LINK_UP", "LINK_DOWN"}
Told_mxb == {"STA_UP", "STA_DOWN", "AP_UP", "AP_DOWN"}

\* What the driver's module tells.
Tells ==
  IF driver = "st" THEN Told_st
  ELSE IF driver = "mxb" THEN Told_mxb
  ELSE IF driver = "mx" THEN Told_mxb \cup {"STA_GOT_IP"} ELSE {}

\* The types of the variables, with the steps and reports of the driver.
Types ==
  /\ driver \in Drivers /\ mode \in {"sta", "ap"} /\ drv \in {"none", "live", "lost"}
  /\ iface \in Interface
  /\ todo \in Seq(StepsOf) /\ failed \in BOOLEAN
  /\ asked \in BOOLEAN /\ joined \in BOOLEAN
  /\ reports \in Seq(Tells) /\ Len(reports) <= MAX_REPORTS + 1
  /\ joined => Len(reports) <= MAX_REPORTS
  /\ flags \subseteq {"UP", "DOWN"} /\ linkNetif \in Netifs \cup {NONE}
  /\ netif2ifp \in Seq(Netifs) /\ handle \in BOOLEAN
  /\ fifo \in 0 .. MX_WIFI_MAX_TX_BUFFER_COUNT /\ pbufs \in Nat
  /\ threads \in 0 .. MAX_THREADS /\ sending \in 0 .. threads
  /\ fifo + sending <= pbufs
  /\ starts \in 0 .. 2

\* The drivers.
LEMMA DriverNames == Types => driver \in {"es", "mx", "mxb", "cy", "st"}
  BY WifiIfAssumption DEF Types

\* The constants, as numbers.
LEMMA Bounds ==
  /\ MAX_REPORTS \in Nat \ {0} /\ MX_WIFI_MAX_TX_BUFFER_COUNT \in Nat \ {0}
  /\ MAX_NETIFS \in Nat \ {0} /\ MAX_THREADS \in Nat \ {0} /\ NONE \notin Netifs
  BY WifiIfAssumption, LwipIfAssumption DEF Netifs, NONE

\* Each driver makes steps that the model has.
LEMMA StepNames == StepsOf \subseteq STEPS
  BY DEF StepsOf, Steps_es, Steps_mx, Steps_mxb, Steps_cy, Steps_st, STEPS

\* The interface before net_if_init.
LEMMA NewInterfaceType == NewInterface \in Interface
<1>1. NewNet \in Net
  BY DEF NewNet, Net, Addrs
<1>2. "DEINITIALIZED" \in NET_STATES /\ "zero" \in Addrs /\ NONE \in Netifs \cup {NONE}
  BY DEF NET_STATES, Addrs
<1>3. {} \in SUBSET Netifs
  OBVIOUS
<1> QED
  BY <1>1, <1>2, <1>3 DEF NewInterface, Interface

\* The types hold at first.
LEMMA TypesInit == Init => Types
<1> SUFFICES ASSUME Init PROVE Types
  OBVIOUS
<1>1. << >> \in Seq(StepsOf) /\ << >> \in Seq(Tells) /\ << >> \in Seq(Netifs) /\ Len(<< >>) = 0
  OBVIOUS
<1>2. iface \in Interface
  BY NewInterfaceType DEF Init
<1>3. driver \in Drivers
  BY DEF Init
<1>4. flags \subseteq {"UP", "DOWN"} /\ linkNetif \in Netifs \cup {NONE} /\ starts \in 0 .. 2
  BY DEF Init
<1>5. /\ pbufs \in Nat /\ fifo + sending <= pbufs /\ fifo \in 0 .. MX_WIFI_MAX_TX_BUFFER_COUNT
      /\ threads \in 0 .. MAX_THREADS /\ sending \in 0 .. threads
  BY Bounds DEF Init
<1>6. todo = << >> /\ reports = << >> /\ netif2ifp = << >>
  BY DEF Init
<1>7. /\ mode \in {"sta", "ap"} /\ drv \in {"none", "live", "lost"} /\ failed \in BOOLEAN
      /\ asked \in BOOLEAN /\ joined = FALSE /\ handle \in BOOLEAN
  BY DEF Init
<1>8. Len(reports) <= MAX_REPORTS + 1
  BY <1>1, <1>6, Bounds
<1> QED
  BY <1>1, <1>2, <1>3, <1>4, <1>5, <1>6, <1>7, <1>8 DEF Types

\* The driver functions that the commands call.
LEMMA PlanTypes ==
  ASSUME Types, NEW f \in {"if_start", "if_stop", "if_connect", "if_disconnect"}
  PROVE  Functions[driver][f] \in Seq(StepsOf)
<1>1. CASE driver = "es"
  <2>1. Functions["es"] = [ if_start |-> es_wifi_if_start,
             if_stop |-> es_wifi_if_stop,
             if_connect |-> es_wifi_if_connect, if_disconnect |-> es_wifi_if_disconnect ]
    BY DEF Functions
  <2>2. /\ es_wifi_if_start \in Seq(StepsOf)
        /\ es_wifi_if_stop \in Seq(StepsOf)
        /\ es_wifi_if_connect \in Seq(StepsOf)
        /\ es_wifi_if_disconnect \in Seq(StepsOf)
    BY <1>1 DEF StepsOf, Steps_es, es_wifi_if_start, es_wifi_if_stop, es_wifi_if_connect,
       es_wifi_if_disconnect
  <2> QED
    BY <1>1, <2>1, <2>2
<1>2. CASE driver = "mx"
  <2>1. Functions["mx"] = [ if_start |-> mx_wifi_if_start,
             if_stop |-> mx_wifi_if_stop,
             if_connect |-> mx_wifi_if_connect, if_disconnect |-> mx_wifi_if_disconnect ]
    BY DEF Functions
  <2>2. /\ mx_wifi_if_start \in Seq(StepsOf)
        /\ mx_wifi_if_stop \in Seq(StepsOf)
        /\ mx_wifi_if_connect \in Seq(StepsOf)
        /\ mx_wifi_if_disconnect \in Seq(StepsOf)
    BY <1>2 DEF StepsOf, Steps_mx, mx_wifi_if_start, mx_wifi_if_stop, mx_wifi_if_connect,
       mx_wifi_if_disconnect,
       mx_wifi_if_start_station, mx_wifi_if_start_softap
  <2> QED
    BY <1>2, <2>1, <2>2
<1>3. CASE driver = "mxb"
  <2>1. Functions["mxb"] = [ if_start |-> mx_wifi_if_start,
             if_stop |-> mx_wifi_if_stop,
             if_connect |-> mx_wifi_if_connect, if_disconnect |-> mx_wifi_if_disconnect ]
    BY DEF Functions
  <2>2. /\ mx_wifi_if_start \in Seq(StepsOf)
        /\ mx_wifi_if_stop \in Seq(StepsOf)
        /\ mx_wifi_if_connect \in Seq(StepsOf)
        /\ mx_wifi_if_disconnect \in Seq(StepsOf)
    BY <1>3 DEF StepsOf, Steps_mxb, mx_wifi_if_start, mx_wifi_if_stop, mx_wifi_if_connect,
       mx_wifi_if_disconnect,
       mx_wifi_if_start_station, mx_wifi_if_start_softap
  <2> QED
    BY <1>3, <2>1, <2>2
<1>4. CASE driver = "cy"
  <2>1. Functions["cy"] = [ if_start |-> IF mode = "sta" THEN net_cypress_whd_if_start_sta
                         ELSE net_cypress_whd_if_start_ap,
             if_stop |-> net_cypress_whd_if_stop,
             if_connect |-> net_cypress_whd_if_connect,
                 if_disconnect |-> net_cypress_whd_if_disconnect ]
    BY DEF Functions
  <2>2. /\ net_cypress_whd_if_start_sta \in Seq(StepsOf)
        /\ net_cypress_whd_if_start_ap \in Seq(StepsOf)
        /\ net_cypress_whd_if_stop \in Seq(StepsOf)
        /\ net_cypress_whd_if_connect \in Seq(StepsOf)
        /\ net_cypress_whd_if_disconnect \in Seq(StepsOf)
    BY <1>4 DEF StepsOf, Steps_cy, net_cypress_whd_if_start_sta, net_cypress_whd_if_start_ap,
       net_cypress_whd_if_stop,
       net_cypress_whd_if_connect, net_cypress_whd_if_disconnect
  <2> QED
    BY <1>4, <2>1, <2>2
<1>5. CASE driver = "st"
  <2>1. Functions["st"] = [ if_start |-> st_wifi_if_start,
             if_stop |-> st_wifi_if_stop,
             if_connect |-> st_wifi_if_connect, if_disconnect |-> st_wifi_if_disconnect ]
    BY DEF Functions
  <2>2. /\ st_wifi_if_start \in Seq(StepsOf)
        /\ st_wifi_if_stop \in Seq(StepsOf)
        /\ st_wifi_if_connect \in Seq(StepsOf)
        /\ st_wifi_if_disconnect \in Seq(StepsOf)
    <3>1. StepsOf = Steps_st
      BY <1>5 DEF StepsOf
    <3>2. /\ << "power up", "add_if", "ready" >> \in Seq(Steps_st)
          /\ << "power up", "add_if" >> \in Seq(Steps_st)
      BY DEF Steps_st
    <3>3. st_wifi_if_start \in Seq(Steps_st)
      BY <3>2 DEF st_wifi_if_start
    <3>4. st_wifi_if_stop \in Seq(Steps_st)
      BY DEF st_wifi_if_stop, Steps_st
    <3>5. st_wifi_if_connect \in Seq(Steps_st)
      BY DEF st_wifi_if_connect, Steps_st
    <3>6. st_wifi_if_disconnect \in Seq(Steps_st)
      BY DEF st_wifi_if_disconnect, Steps_st
    <3> QED
      BY <3>1, <3>3, <3>4, <3>5, <3>6
  <2> QED
    BY <1>5, <2>1, <2>2
<1> QED
  BY <1>1, <1>2, <1>3, <1>4, <1>5, DriverNames

\* The commands, and the functions they lead to.
LEMMA Commands ==
  ASSUME NEW from \in NET_STATES, NEW c \in DOMAIN Expected, NEW e \in Reactions(from, c)
  PROVE  \/ from = "INITIALIZED" /\ c = "CMD_START" /\ e[3] = "STARTING" /\ e[4] = "if_start"
         \/ from = "STARTING" /\ c = "CMD_STOP" /\ e[3] = "INITIALIZED" /\ e[4] = "if_stop"
         \/ from = "READY" /\ c = "CMD_CONNECT" /\ e[3] = "CONNECTING" /\ e[4] = "if_connect"
         \/ from = "READY" /\ c = "CMD_STOP" /\ e[3] = "STOPPING" /\ e[4] = "if_stop"
         \/ from = "CONNECTING" /\ c = "CMD_DISCONNECT" /\ e[3] = "READY" /\ e[4] = "none"
         \/ from = "CONNECTED" /\ c = "CMD_DISCONNECT" /\ e[3] = "DISCONNECTING"
              /\ e[4] = "if_disconnect"
<1>1. c \in {"CMD_START", "CMD_STOP", "CMD_CONNECT", "CMD_DISCONNECT"}
  BY DEF Expected
<1>2. e \in Edges /\ e[1] = from /\ e[2] = c
  BY DEF Reactions
<1>3. \/ e \in Initialized \/ e \in Starting \/ e \in Ready \/ e \in Connecting \/ e \in Connected
      \/ e \in Disconnecting \/ e \in Stopping \/ e \in ConnectionLost
  BY <1>2 DEF Edges
<1>4. CASE e \in Initialized
  BY <1>1, <1>2, <1>4 DEF Initialized
<1>5. CASE e \in Starting
  BY <1>1, <1>2, <1>5 DEF Starting
<1>6. CASE e \in Ready
  BY <1>1, <1>2, <1>6 DEF Ready
<1>7. CASE e \in Connecting
  BY <1>1, <1>2, <1>7 DEF Connecting
<1>8. CASE e \in Connected
  BY <1>1, <1>2, <1>8 DEF Connected
<1>9. CASE e \in Disconnecting \cup Stopping \cup ConnectionLost
  BY <1>1, <1>2, <1>9 DEF Disconnecting, Stopping, ConnectionLost
<1> QED
  BY <1>3, <1>4, <1>5, <1>6, <1>7, <1>8, <1>9

\* What the module tells of a join and of a loss.
LEMMA TellsTypes ==
  ASSUME Types
  PROVE  /\ Up \in Seq(Tells) /\ Len(Up) <= 2
         /\ Down \in Seq(Tells) /\ Len(Down) <= 1
         /\ driver \in {"es", "cy"} => reports = << >>
<1>1. CASE driver = "es"
  BY <1>1 DEF Up, Down, Tells, Types
<1>2. CASE driver = "mx"
  <2>1. mode = "ap" => Up = << "AP_UP" >> /\ Down = << "AP_DOWN" >>
    BY <1>2 DEF Up, Down
  <2>2. mode = "sta" => Up = << "STA_UP", "STA_GOT_IP" >> /\ Down = << "STA_DOWN" >>
    BY <1>2 DEF Up, Down
  <2>3. /\ << "STA_UP", "STA_GOT_IP" >> \in Seq(Tells) /\ << "AP_UP" >> \in Seq(Tells)
        /\ << "STA_DOWN" >> \in Seq(Tells) /\ << "AP_DOWN" >> \in Seq(Tells)
    BY <1>2 DEF Tells, Told_mxb
  <2>4. Len(<< "STA_UP", "STA_GOT_IP" >>) <= 2 /\ Len(<< "AP_UP" >>) <= 2
          /\ Len(<< "STA_DOWN" >>) <= 1 /\ Len(<< "AP_DOWN" >>) <= 1
    OBVIOUS
  <2>5. mode = "sta" \/ mode = "ap"
    BY DEF Types
  <2>6. CASE mode = "sta"
    BY <1>2, <2>2, <2>3, <2>4, <2>6
  <2>7. CASE mode = "ap"
    BY <1>2, <2>1, <2>3, <2>4, <2>7
  <2> QED
    BY <2>5, <2>6, <2>7
<1>3. CASE driver = "mxb"
  <2>1. mode = "ap" => Up = << "AP_UP" >> /\ Down = << "AP_DOWN" >>
    BY <1>3 DEF Up, Down
  <2>2. mode = "sta" => Up = << "STA_UP" >> /\ Down = << "STA_DOWN" >>
    BY <1>3 DEF Up, Down
  <2>3. /\ << "STA_UP" >> \in Seq(Tells) /\ << "AP_UP" >> \in Seq(Tells)
        /\ << "STA_DOWN" >> \in Seq(Tells) /\ << "AP_DOWN" >> \in Seq(Tells)
    BY <1>3 DEF Tells, Told_mxb
  <2>4. Len(<< "STA_UP" >>) <= 2 /\ Len(<< "AP_UP" >>) <= 2 /\ Len(<< "STA_DOWN" >>) <= 1
          /\ Len(<< "AP_DOWN" >>) <= 1
    OBVIOUS
  <2>5. mode = "sta" \/ mode = "ap"
    BY DEF Types
  <2>6. CASE mode = "sta"
    BY <1>3, <2>2, <2>3, <2>4, <2>6
  <2>7. CASE mode = "ap"
    BY <1>3, <2>1, <2>3, <2>4, <2>7
  <2> QED
    BY <2>5, <2>6, <2>7
<1>4. CASE driver = "cy"
  BY <1>4 DEF Up, Down, Tells, Types
<1>5. CASE driver = "st"
  BY <1>5 DEF Up, Down, Tells, Told_st, Types
<1> QED
  BY <1>1, <1>2, <1>3, <1>4, <1>5, DriverNames

\* The steps of a function, one by one.
LEMMA TodoTypes ==
  ASSUME Types
  PROVE  /\ todo # << >> => Tail(todo) \in Seq(StepsOf) /\ Head(todo) \in StepsOf
         /\ Goes /\ todo # << >> => todo' \in Seq(StepsOf) /\ failed' \in BOOLEAN
         /\ Fails => todo' \in Seq(StepsOf) /\ failed' \in BOOLEAN
<1>1. todo # << >> => Tail(todo) \in Seq(StepsOf) /\ Head(todo) \in StepsOf
  BY DEF Types
<1>2. << >> \in Seq(StepsOf)
  OBVIOUS
<1> QED
  BY <1>1, <1>2 DEF Types, Goes, Fails

\* What a driver's module tells and the steps of its functions are the driver's.
LEMMA SameDriver ==
  ASSUME driver' = driver
  PROVE  StepsOf' = StepsOf /\ Tells' = Tells
  BY DEF StepsOf, Tells

\* What is left of the types when only the interface, the plan and a few others move.
LEMMA TypesFrom ==
  ASSUME Types, driver' = driver, iface' \in Interface, todo' \in Seq(StepsOf), failed' \in BOOLEAN
  PROVE  /\ mode' = mode /\ drv' = drv /\ UNCHANGED << radio, cy, handle, tx, starts >> => Types'
         /\ UNCHANGED << mode, drv, radio, handle, tx, starts >> /\ flags' \subseteq {"UP", "DOWN"}
              /\ linkNetif' = linkNetif /\ netif2ifp' = netif2ifp => Types'
<1>1. StepsOf' = StepsOf /\ Tells' = Tells
  BY SameDriver
<1> HIDE DEF Interface
<1>2. ASSUME UNCHANGED << mode, drv, radio, cy, handle, tx, starts >> PROVE Types'
  BY <1>1, <1>2 DEF Types, radio, cy, tx
<1>3. ASSUME UNCHANGED << mode, drv, radio, handle, tx, starts >>, flags' \subseteq {"UP", "DOWN"},
             linkNetif' = linkNetif, netif2ifp' = netif2ifp
      PROVE  Types'
  BY <1>1, <1>3 DEF Types, radio, tx
<1> QED
  BY <1>2, <1>3

\* The flags the link thread of Cypress waits for.
LEMMA FlagTypes ==
  ASSUME Types, NEW f \in {"UP", "DOWN"}
  PROVE  Flagged(f) \subseteq {"UP", "DOWN"}
  BY DEF Types, Flagged

\* Joining a network keeps the types.
LEMMA JoinTypes == Types /\ Join => Types'
<1> SUFFICES ASSUME Types, Join PROVE Types'
  OBVIOUS
<1>1. driver' = driver /\ StepsOf' = StepsOf /\ Tells' = Tells
  BY SameDriver DEF Join
<1>2. todo' \in Seq(StepsOf) /\ failed' \in BOOLEAN
  BY TodoTypes DEF Join, Doing
<1>3. UNCHANGED << mode, drv, iface, reports, linkNetif, netif2ifp, handle, fifo, threads,
        sending, pbufs, starts >>
  BY DEF Join, tx
<1>4. asked' \in BOOLEAN /\ joined' \in BOOLEAN
  BY DEF Join, Types
<1>5. flags' \subseteq {"UP", "DOWN"}
  BY FlagTypes DEF Join, Types
<1>6. Len(reports) <= MAX_REPORTS
  <2>1. "join" \in StepsOf
    BY TodoTypes DEF Join, Doing
  <2>2. driver \in {"es", "cy"}
    BY <2>1, DriverNames DEF StepsOf, Steps_mx, Steps_mxb, Steps_st
  <2>3. reports = << >>
    BY <2>2, TellsTypes
  <2> QED
    BY <2>3, Bounds
<1> QED
  BY <1>1, <1>2, <1>3, <1>4, <1>5, <1>6 DEF Types

\* Asking the module, and powering it, keep the types.
LEMMA AskTypes == Types /\ (Ask \/ PowerUp) => Types'
<1> SUFFICES ASSUME Types, Ask \/ PowerUp PROVE Types'
  OBVIOUS
<1>1. driver' = driver /\ StepsOf' = StepsOf /\ Tells' = Tells
  BY SameDriver DEF Ask, PowerUp
<1>2. todo' \in Seq(StepsOf) /\ failed' \in BOOLEAN
  BY TodoTypes DEF Ask, PowerUp, Doing
<1>3. UNCHANGED << mode, drv, iface, joined, reports, flags, linkNetif, netif2ifp, handle,
        fifo, threads, sending, pbufs, starts >>
  BY DEF Ask, PowerUp, tx, cy
<1>4. asked' \in BOOLEAN
  BY DEF Ask, PowerUp, Types
<1> QED
  BY <1>1, <1>2, <1>3, <1>4 DEF Types

\* Leaving the network keeps the types.
LEMMA LeaveTypes == Types /\ Leave => Types'
<1> SUFFICES ASSUME Types, Leave PROVE Types'
  OBVIOUS
<1>1. driver' = driver /\ StepsOf' = StepsOf /\ Tells' = Tells
  BY SameDriver DEF Leave
<1>2. todo' \in Seq(StepsOf) /\ failed' \in BOOLEAN
  BY TodoTypes DEF Leave, Doing
<1>3. UNCHANGED << mode, drv, iface, linkNetif, netif2ifp, handle, fifo, threads,
        sending, pbufs, starts >>
  BY DEF Leave, tx
<1>4. asked' \in BOOLEAN /\ joined' \in BOOLEAN
  BY DEF Leave, Types
<1>5. flags' \subseteq {"UP", "DOWN"}
  BY FlagTypes DEF Leave, Types
<1>6. /\ reports' \in Seq(Tells) /\ Len(reports') <= MAX_REPORTS + 1
      /\ joined' => Len(reports') <= MAX_REPORTS
  <2>1. CASE reports' = reports
    <3>1. joined' => joined
      BY DEF Leave
    <3> QED
      BY <2>1, <3>1 DEF Types
  <2>2. CASE joined /\ ~joined' /\ reports' = reports \o Down
    <3>1. Down \in Seq(Tells) /\ Len(Down) <= 1 /\ reports \in Seq(Tells)
            /\ Len(reports) <= MAX_REPORTS
      BY <2>2, TellsTypes DEF Types
    <3>2. reports' \in Seq(Tells) /\ Len(reports') = Len(reports) + Len(Down)
      BY <2>2, <3>1
    <3>3. Len(reports) \in Nat /\ Len(Down) \in Nat
      BY <3>1
    <3> QED
      BY <2>2, <3>1, <3>2, <3>3, Bounds
  <2> QED
    BY <2>1, <2>2 DEF Leave
<1> QED
  BY <1>1, <1>2, <1>3, <1>4, <1>5, <1>6 DEF Types

\* net_ip_add_if keeps the types.
LEMMA AddIfTypes == Types /\ AddIf => Types'
<1> SUFFICES ASSUME Types, AddIf PROVE Types'
  OBVIOUS
<1>1. PICK o \in net_ip_add_if(iface) :
        /\ iface' = o.x
        /\ IF o.ok THEN Goes ELSE Fails
        /\ IF o.ok /\ driver = "cy" THEN net_cypress_low_level_init(o.x.ptr)
           ELSE UNCHANGED << netif2ifp, linkNetif >>
        /\ o.ok /\ driver = "mxb" => threads < MAX_THREADS
        /\ IF o.ok /\ driver = "mxb" THEN mx_wifi_low_level_init
           ELSE UNCHANGED << fifo, threads >>
  BY DEF AddIf
<1>2. iface \in Interface
  BY DEF Types
<1>3. o.ok \in BOOLEAN /\ iface' \in Interface /\ (o.ok => o.x.ptr \in Netifs)
  BY <1>1, <1>2, AddIfEffect
<1>4. todo' \in Seq(StepsOf) /\ failed' \in BOOLEAN
  BY <1>1, <1>3, TodoTypes DEF AddIf, Doing
<1>5. driver' = driver /\ StepsOf' = StepsOf /\ Tells' = Tells
  BY SameDriver DEF AddIf
<1>6. UNCHANGED << mode, drv, asked, joined, reports, flags, handle, sending, pbufs, starts >>
  BY DEF AddIf, radio
<1>7. netif2ifp' \in Seq(Netifs) /\ linkNetif' \in Netifs \cup {NONE}
  <2>1. CASE o.ok /\ driver = "cy"
    <3>1. netif2ifp \in Seq(Netifs) /\ linkNetif \in Netifs \cup {NONE} /\ o.x.ptr \in Netifs
      BY <1>3, <2>1 DEF Types
    <3>2. netif2ifp' = Append(netif2ifp, o.x.ptr) /\ linkNetif' \in {o.x.ptr, linkNetif}
      BY <1>1, <2>1 DEF net_cypress_low_level_init
    <3>3. Append(netif2ifp, o.x.ptr) \in Seq(Netifs)
      BY <3>1
    <3> QED
      BY <3>1, <3>2, <3>3
  <2>2. CASE ~(o.ok /\ driver = "cy")
    BY <1>1, <2>2 DEF Types
  <2> QED
    BY <2>1, <2>2
<1>8. \/ UNCHANGED << fifo, threads >>
      \/ fifo' = 0 /\ threads' = threads + 1 /\ threads < MAX_THREADS
  BY <1>1, <1>3 DEF mx_wifi_low_level_init
<1>9. /\ fifo' \in 0 .. MX_WIFI_MAX_TX_BUFFER_COUNT /\ fifo' + sending' <= pbufs
      /\ threads' \in 0 .. MAX_THREADS /\ sending' \in 0 .. threads'
  <2>1. /\ MX_WIFI_MAX_TX_BUFFER_COUNT \in Nat /\ fifo \in 0 .. MX_WIFI_MAX_TX_BUFFER_COUNT
        /\ pbufs \in Nat /\ fifo + sending <= pbufs /\ MAX_THREADS \in Nat
        /\ threads \in 0 .. MAX_THREADS /\ sending \in 0 .. threads /\ sending' = sending
    BY <1>6, Bounds DEF Types
  <2>2. CASE UNCHANGED << fifo, threads >>
    BY <2>1, <2>2
  <2>3. CASE fifo' = 0 /\ threads' = threads + 1 /\ threads < MAX_THREADS
    BY <2>1, <2>3
  <2> QED
    BY <1>8, <2>2, <2>3
<1> HIDE DEF Interface
<1> QED
  BY <1>3, <1>4, <1>5, <1>6, <1>7, <1>9 DEF Types

\* The calls of lwIP and of the state machine keep the types.
LEMMA GlueTypes == Types /\ Glue => Types'
<1> SUFFICES ASSUME Types, Glue PROVE Types'
  OBVIOUS
<1>0. iface \in Interface
  BY DEF Types
<1>1. UNCHANGED << driver, mode, drv, radio, cy, handle, tx, starts >>
  BY DEF Glue
<1>2. todo' \in Seq(StepsOf) /\ failed' \in BOOLEAN
  <2>1. \/ Goes /\ todo # << >>
        \/ Fails
    BY DEF Glue, Doing
  <2> QED
    BY <2>1, TodoTypes
<1>3. iface' \in Interface
  <2>1. /\ Event(iface, "INTERFACE_READY") \in Interface
        /\ Event(iface, "INTERFACE_INITIALIZED") \in Interface
        /\ net_ip_remove_if(iface).x \in Interface
        /\ \A o \in net_ip_connect(iface) : o.x \in Interface
    BY <1>0, EventEffect, RemoveEffect, ConnectEffect
  <2>2. SetLink(iface, TRUE) \in Interface /\ SetLink(iface, FALSE) \in Interface
    BY <1>0, SetLinkEffect DEF Told
  <2>3. net_ip_disconnect(iface).x \in Interface
    BY <1>0, DisconnectEffect DEF Told
  <2> QED
    BY <2>1, <2>2, <2>3 DEF Glue
<1> QED
  BY <1>1, <1>2, <1>3, TypesFrom

\* Asking the module for its address keeps the types.
LEMMA OwnAddressTypes == Types /\ OwnAddress => Types'
<1> SUFFICES ASSUME Types, OwnAddress PROVE Types'
  OBVIOUS
<1>1. UNCHANGED << driver, mode, drv, radio, cy, handle, tx, starts >>
  BY DEF OwnAddress
<1>2. todo' \in Seq(StepsOf) /\ failed' \in BOOLEAN
  BY TodoTypes DEF OwnAddress, Doing
<1>3. iface' \in Interface
  <2>1. iface \in Interface
    BY DEF Types
  <2>2. [ iface EXCEPT !.ipaddr = OwnAddr ] \in Interface
    BY <2>1, NetFields DEF OwnAddr, Interface
  <2>3. Event([ iface EXCEPT !.ipaddr = OwnAddr ], "IPADDR") \in Interface
    BY <2>2, EventEffect
  <2> QED
    BY <2>1, <2>3 DEF OwnAddress
<1> QED
  BY <1>1, <1>2, <1>3, TypesFrom

\* Setting the handle, and the end of a switch of modes, keep the types.
LEMMA OtherStepTypes == Types /\ (SetHandle \/ Switched) => Types'
<1> SUFFICES ASSUME Types, SetHandle \/ Switched PROVE Types'
  OBVIOUS
<1>1. driver' = driver /\ StepsOf' = StepsOf /\ Tells' = Tells
  BY SameDriver DEF SetHandle, Switched
<1>2. todo' \in Seq(StepsOf) /\ failed' \in BOOLEAN
  BY TodoTypes DEF SetHandle, Switched, Doing
<1>3. UNCHANGED << drv, iface, asked, joined, reports, flags, linkNetif, netif2ifp, fifo,
        threads, sending, pbufs, starts >>
  BY DEF SetHandle, Switched, radio, cy, tx
<1>4. mode' \in {"sta", "ap"} /\ handle' \in BOOLEAN
  BY DEF SetHandle, Switched, Doing, Types
<1> QED
  BY <1>1, <1>2, <1>3, <1>4 DEF Types

\* net_if_init, the choice of a mode and net_if_deinit keep the types.
LEMMA InitTypes == Types /\ (NetIfInit \/ Configure \/ NetIfDeinit) => Types'
<1> SUFFICES ASSUME Types, NetIfInit \/ Configure \/ NetIfDeinit PROVE Types'
  OBVIOUS
<1>1. driver' = driver /\ StepsOf' = StepsOf /\ Tells' = Tells
  BY SameDriver DEF NetIfInit, Configure, NetIfDeinit
<1>2. UNCHANGED << todo, failed, asked, joined, reports, flags, linkNetif, handle, fifo,
        threads, sending, pbufs, starts >>
  BY DEF NetIfInit, Configure, NetIfDeinit, radio, cy, tx
<1>3. mode' \in {"sta", "ap"}
  BY DEF NetIfInit, Configure, NetIfDeinit, Types
<1>4. iface \in Interface
  BY DEF Types
<1>5. "INITIALIZED" \in NET_STATES /\ "DEINITIALIZED" \in NET_STATES
  BY DEF NET_STATES
<1>6. iface' \in Interface
  <2>1. ASSUME NEW b \in if_init,
               iface' = [ iface EXCEPT !.state = IF b.ok THEN "INITIALIZED" ELSE @,
                                       !.dhcp_mode = @ \/ driver \in {"mx", "mxb"} ]
        PROVE  iface' \in Interface
    <3>1. (IF b.ok THEN "INITIALIZED" ELSE iface.state) \in NET_STATES
      BY <1>4, <1>5 DEF Interface
    <3>2. (iface.dhcp_mode \/ driver \in {"mx", "mxb"}) \in BOOLEAN
      OBVIOUS
    <3>3. \A s \in NET_STATES, d \in BOOLEAN : [ iface EXCEPT !.state = s,
            !.dhcp_mode = d ] \in Interface
      BY <1>4 DEF Interface
    <3> QED
      BY <2>1, <3>1, <3>2, <3>3
  <2>2. ASSUME NEW m, iface' = [ iface EXCEPT !.dhcp_mode = (m = "sta") ]
        PROVE  iface' \in Interface
    BY <1>4, <2>2 DEF Interface
  <2>3. [ iface EXCEPT !.state = "DEINITIALIZED" ] \in Interface
    BY <1>4, <1>5 DEF Interface
  <2> QED
    BY <2>1, <2>2, <2>3 DEF NetIfInit, Configure, NetIfDeinit
<1>7. drv' \in {"none", "live", "lost"}
  <2>1. drv \in {"none", "live", "lost"}
    BY DEF Types
  <2>2. \A d \in {"none", "live", "lost"} : \A ok : Block(d, ok).drv \in {"none", "live", "lost"}
    BY DEF Block
  <2>3. \A b \in if_init : b.drv \in {"none", "live", "lost"}
    <3>1. CASE driver = "es"
      <4>1. if_init = es_wifi_if_init
        BY <3>1 DEF if_init
      <4> QED
        BY <2>1, <2>2, <4>1 DEF es_wifi_if_init
    <3>2. CASE driver \in {"mx", "mxb"}
      <4>1. if_init = mx_wifi_if_init
        BY <3>2 DEF if_init
      <4> QED
        BY <2>1, <2>2, <4>1 DEF mx_wifi_if_init, hw_start
    <3>3. CASE driver = "cy"
      <4>1. if_init = net_cypress_whd_if_init
        BY <3>3 DEF if_init
      <4> QED
        BY <2>1, <2>2, <4>1 DEF net_cypress_whd_if_init
    <3>4. CASE driver = "st"
      <4>1. if_init = st_wifi_if_init
        BY <3>4 DEF if_init
      <4> QED
        BY <2>1, <2>2, <4>1 DEF st_wifi_if_init
    <3> QED
      BY <3>1, <3>2, <3>3, <3>4, DriverNames
  <2>4. if_deinit \in {"none", drv}
    <3>1. CASE driver = "es"
      BY <3>1 DEF if_deinit, es_wifi_if_deinit
    <3>2. CASE driver \in {"mx", "mxb"}
      BY <3>2 DEF if_deinit, mx_wifi_if_deinit
    <3>3. CASE driver = "cy"
      BY <3>3 DEF if_deinit, net_cypress_whd_if_deinit
    <3>4. CASE driver = "st"
      BY <3>4 DEF if_deinit, st_wifi_if_deinit
    <3> QED
      BY <3>1, <3>2, <3>3, <3>4, DriverNames
  <2> QED
    BY <2>1, <2>3, <2>4 DEF NetIfInit, Configure, NetIfDeinit
<1>8. netif2ifp' \in Seq(Netifs)
  <2>1. netif2ifp \in Seq(Netifs) /\ << >> \in Seq(Netifs)
    BY DEF Types
  <2>2. netif2ifp # << >> => Tail(netif2ifp) \in Seq(Netifs)
    BY <2>1
  <2> QED
    BY <2>1, <2>2 DEF NetIfInit, Configure, NetIfDeinit, cy
<1> HIDE DEF Interface
<1> QED
  BY <1>1, <1>2, <1>3, <1>6, <1>7, <1>8 DEF Types

\* The functions a command may call.
LEMMA CommandPlan ==
  ASSUME Types, NEW c \in DOMAIN Expected, NEW e \in Reactions(iface.state, c)
  PROVE  /\ e[3] \in NET_STATES
         /\ (IF e[4] = "none" THEN << >> ELSE Functions[driver][e[4]]) \in Seq(StepsOf)
<1>1. iface.state \in NET_STATES
  BY DEF Types, Interface
<1>2. e[3] \in NET_STATES /\ e[4] \in {"none", "if_start", "if_stop", "if_connect",
        "if_disconnect"}
  BY <1>1, Commands DEF NET_STATES
<1>3. << >> \in Seq(StepsOf)
  OBVIOUS
<1>4. e[4] # "none" => Functions[driver][e[4]] \in Seq(StepsOf)
  BY <1>2, PlanTypes
<1> QED
  BY <1>2, <1>3, <1>4

\* A command keeps the types: its plan is made of the driver's steps.
LEMMA CommandTypes == ASSUME Types, NEW c \in DOMAIN Expected, Command(c) PROVE Types'
<1>1. driver' = driver /\ StepsOf' = StepsOf /\ Tells' = Tells
  BY SameDriver DEF Command
<1>2. UNCHANGED << mode, drv, asked, joined, reports, flags, linkNetif, netif2ifp, handle,
        fifo, threads, sending, pbufs >>
  BY DEF Command, radio, cy, tx
<1>3. PICK e \in Reactions(iface.state, c) :
        /\ iface' = [ iface EXCEPT !.state = e[3] ]
        /\ todo' = IF e[4] = "none" THEN << >> ELSE Functions[driver][e[4]]
  BY DEF Command
<1>4. e[3] \in NET_STATES /\ todo' \in Seq(StepsOf)
  BY <1>3, CommandPlan
<1>5. iface' \in Interface
  BY <1>3, <1>4 DEF Types, Interface
<1>6. starts' \in 0 .. 2 /\ failed' \in BOOLEAN
  <2>1. MAX_STARTS \in 1 .. 2
    BY DEF MAX_STARTS
  <2>2. c = "CMD_START" => starts < MAX_STARTS
    BY DEF Command, MaySend
  <2>3. starts' = IF c = "CMD_START" THEN starts + 1 ELSE starts
    BY DEF Command
  <2>4. starts \in 0 .. 2
    BY DEF Types
  <2>5. failed' = FALSE
    BY DEF Command
  <2>6. starts' \in 0 .. 2
    <3>1. CASE c = "CMD_START"
      BY <2>1, <2>2, <2>3, <2>4, <3>1
    <3>2. CASE c # "CMD_START"
      BY <2>3, <2>4, <3>2
    <3> QED
      BY <3>1, <3>2
  <2> QED
    BY <2>5, <2>6
<1> HIDE DEF Interface
<1> QED
  BY <1>1, <1>2, <1>4, <1>5, <1>6 DEF Types

\* The switch of modes of Cypress keeps the types.
LEMMA SwitchTypes == Types /\ SwitchMode => Types'
<1> SUFFICES ASSUME Types, SwitchMode PROVE Types'
  OBVIOUS
<1>1. driver = "cy" /\ StepsOf = Steps_cy
  BY DEF SwitchMode, StepsOf
<1>2. << "leave", "join", "sta" >> \in Seq(Steps_cy)
  BY DEF Steps_cy
<1>3. << "link_down", "leave", "join", "ready", "link_up", "ap" >> \in Seq(Steps_cy)
  BY DEF Steps_cy
<1>4. todo' \in Seq(StepsOf) /\ failed' \in BOOLEAN
  BY <1>1, <1>2, <1>3 DEF SwitchMode, net_cypress_whd_id_switch_mode
<1>5. UNCHANGED << driver, mode, drv, iface, radio, cy, handle, tx, starts >>
  BY DEF SwitchMode
<1>6. iface' \in Interface
  BY <1>5 DEF Types
<1> QED
  BY <1>4, <1>5, <1>6, TypesFrom

\* There is room for what the module tells.
LEMMA RoomFor ==
  ASSUME Types, Room, NEW told \in Seq(Tells), Len(told) <= 2
  PROVE  reports \o told \in Seq(Tells) /\ Len(reports \o told) <= MAX_REPORTS
<1>1. reports \in Seq(Tells) /\ Len(reports) \in Nat /\ Len(told) \in Nat
  BY DEF Types
<1>2. reports \o told \in Seq(Tells) /\ Len(reports \o told) = Len(reports) + Len(told)
  BY <1>1
<1> QED
  BY <1>1, <1>2, Bounds DEF Room

\* What the module does by itself keeps the types.
LEMMA ModuleTypes == Types /\ (ModuleJoins \/ ModuleLoses) => Types'
<1> SUFFICES ASSUME Types, ModuleJoins \/ ModuleLoses PROVE Types'
  OBVIOUS
<1>1. driver' = driver /\ StepsOf' = StepsOf /\ Tells' = Tells
  BY SameDriver DEF ModuleJoins, ModuleLoses
<1>2. UNCHANGED << mode, drv, iface, todo, failed, asked, linkNetif, netif2ifp, handle, fifo,
        threads, sending, pbufs, starts >>
  BY DEF ModuleJoins, ModuleLoses, tx
<1>3. joined' \in BOOLEAN
  BY DEF ModuleJoins, ModuleLoses
<1>4. reports' \in Seq(Tells) /\ Len(reports') <= MAX_REPORTS
  <2>1. Down \in Seq(Tells) /\ Len(Down) <= 2 /\ Up \in Seq(Tells) /\ Len(Up) <= 2
    <3>1. Len(Down) \in Nat
      BY TellsTypes
    <3> QED
      BY <3>1, TellsTypes
  <2>2. Room /\ reports' \in {reports \o Up, reports \o Down}
    BY DEF ModuleJoins, ModuleLoses
  <2> QED
    BY <2>1, <2>2, RoomFor
<1>5. Len(reports') <= MAX_REPORTS + 1
  <2>1. Len(reports') \in Nat
    BY <1>4
  <2> QED
    BY <1>4, <2>1, Bounds
<1>6. flags' \subseteq {"UP", "DOWN"}
  BY FlagTypes DEF ModuleJoins, ModuleLoses
<1> QED
  BY <1>1, <1>2, <1>3, <1>4, <1>5, <1>6 DEF Types

\* What the drivers make of a report.
LEMMA StatusEffect ==
  ASSUME Types, NEW status \in Tells, driver \in {"mx", "mxb"}
  PROVE  LET y == mx_wifi_status_changed(status)
         IN  /\ status = "STA_DOWN" =>
                  y = IF iface.state = "STOPPING" THEN Event(iface, "INTERFACE_INITIALIZED")
                      ELSE IF iface.state = "CONNECTED" THEN Event(iface, "LINK_DOWN") ELSE iface
             /\ status = "STA_UP" =>
                  y = IF driver = "mxb" /\ iface.state # "STARTING" THEN iface
                      ELSE Event(iface, "INTERFACE_READY")
             /\ status = "STA_GOT_IP" =>
                  driver = "mx" /\ y = Event([ iface EXCEPT !.ipaddr = "lease" ], "IPADDR")
             /\ status = "AP_DOWN" =>
                  y = Event(iface, IF iface.state = "CONNECTED" THEN "LINK_DOWN"
                      ELSE "INTERFACE_READY")
             /\ status = "AP_UP" =>
                  y = Event([ iface EXCEPT !.ipaddr = "static" ], "INTERFACE_READY")
             /\ status \in {"STA_DOWN", "STA_UP", "STA_GOT_IP", "AP_DOWN", "AP_UP"}
<1>1. status \in {"STA_DOWN", "STA_UP", "STA_GOT_IP", "AP_DOWN", "AP_UP"}
  BY DEF Tells, Told_mxb
<1>2. CASE status = "STA_DOWN"
  BY <1>2 DEF mx_wifi_status_changed
<1>3. CASE status = "STA_UP"
  BY <1>3 DEF mx_wifi_status_changed
<1>4. CASE status = "STA_GOT_IP"
  BY <1>4 DEF mx_wifi_status_changed, Tells, Told_mxb
<1>5. CASE status = "AP_DOWN"
  BY <1>5 DEF mx_wifi_status_changed
<1>6. CASE status = "AP_UP"
  BY <1>6 DEF mx_wifi_status_changed
<1> QED
  BY <1>1, <1>2, <1>3, <1>4, <1>5, <1>6

\* A report that is heard keeps the types.
LEMMA DeliverTypes == Types /\ Deliver => Types'
<1> SUFFICES ASSUME Types, Deliver PROVE Types'
  OBVIOUS
<1>1. driver' = driver /\ StepsOf' = StepsOf /\ Tells' = Tells
  BY SameDriver DEF Deliver
<1>2. UNCHANGED << mode, drv, todo, failed, asked, joined, flags, linkNetif, netif2ifp, handle,
        fifo, threads, sending, pbufs, starts >>
  BY DEF Deliver, cy, tx
<1>3. /\ reports' \in Seq(Tells) /\ Head(reports) \in Tells
      /\ Len(reports') <= MAX_REPORTS /\ Len(reports') <= MAX_REPORTS + 1
  <2>1. reports \in Seq(Tells) /\ reports # << >> /\ reports' = Tail(reports)
          /\ Len(reports) <= MAX_REPORTS + 1
    BY DEF Deliver, Types
  <2>2. Len(reports') = Len(reports) - 1 /\ Len(reports) \in Nat \ {0}
    BY <2>1
  <2>3. reports' \in Seq(Tells) /\ Head(reports) \in Tells
    BY <2>1
  <2> QED
    BY <2>1, <2>2, <2>3, Bounds
<1>4. iface' \in Interface
  <2>1. iface \in Interface
    BY DEF Types
  <2>2. [ iface EXCEPT !.ipaddr = "lease" ] \in Interface
          /\ [ iface EXCEPT !.ipaddr = "static" ] \in Interface
    BY <2>1, NetFields DEF Interface
  <2>3. CASE driver \in {"mx", "mxb"}
    <3>1. mx_wifi_status_changed(Head(reports)) \in Interface
      BY <1>3, <2>1, <2>2, <2>3, StatusEffect, EventEffect
    <3> QED
      BY <2>3, <3>1 DEF Deliver
  <2>4. CASE driver = "st"
    <3>1. SetLink(iface, TRUE) \in Interface /\ SetLink(iface, FALSE) \in Interface
      BY <2>1, SetLinkEffect DEF Told
    <3>2. SetLink(iface, Head(reports) = "LINK_UP") \in Interface
      BY <3>1
    <3>3. Event(iface, "INTERFACE_READY") \in Interface
      BY <2>1, EventEffect
    <3>4. mode = "sta" \/ mode = "ap"
      BY DEF Types
    <3>5. st_wifi_event_callback(Head(reports)) \in Interface
      BY <2>1, <3>2, <3>3, <3>4 DEF st_wifi_event_callback
    <3> QED
      BY <2>4, <3>5 DEF Deliver
  <2>5. CASE driver \in {"es", "cy"}
    BY <2>5, TellsTypes DEF Deliver
  <2> QED
    BY <2>3, <2>4, <2>5, DriverNames
<1> HIDE DEF Interface
<1> QED
  BY <1>1, <1>2, <1>3, <1>4 DEF Types

\* Cypress' link thread and the DHCP client keep the types.
LEMMA LinkTypes == Types /\ (LinkThread \/ DhcpBound) => Types'
<1> SUFFICES ASSUME Types, LinkThread \/ DhcpBound PROVE Types'
  OBVIOUS
<1>1. iface \in Interface
  BY DEF Types
<1>2. iface' \in Interface
  <2>1. SetLink(iface, TRUE) \in Interface /\ SetLink(iface, FALSE) \in Interface
          /\ Bound(iface) \in Interface
    BY <1>1, SetLinkEffect, BoundEffect DEF Told
  <2> QED
    BY <1>1, <2>1 DEF LinkThread, DhcpBound
<1>3. todo' \in Seq(StepsOf) /\ failed' \in BOOLEAN /\ driver' = driver
  BY DEF LinkThread, DhcpBound, Types
<1>4. UNCHANGED << mode, drv, radio, handle, tx, starts, linkNetif, netif2ifp >>
  BY DEF LinkThread, DhcpBound, cy
<1>5. flags' \subseteq {"UP", "DOWN"}
  BY DEF LinkThread, DhcpBound, cy, Types
<1> QED
  BY <1>2, <1>3, <1>4, <1>5, TypesFrom

\* Sending a frame keeps the types.
LEMMA FrameTypes == Types /\ (low_level_output \/ PushToDriver) => Types'
<1> SUFFICES ASSUME Types, low_level_output \/ PushToDriver PROVE Types'
  OBVIOUS
<1>1. driver' = driver /\ StepsOf' = StepsOf /\ Tells' = Tells
  BY SameDriver DEF low_level_output, PushToDriver
<1>2. UNCHANGED << mode, drv, iface, todo, failed, asked, joined, reports, flags, linkNetif,
        netif2ifp, handle,
                   starts >>
  BY DEF low_level_output, PushToDriver, radio, cy
<1>3. /\ fifo \in 0 .. MX_WIFI_MAX_TX_BUFFER_COUNT /\ MX_WIFI_MAX_TX_BUFFER_COUNT \in Nat
      /\ pbufs \in Nat /\ fifo + sending <= pbufs /\ MAX_THREADS \in Nat
      /\ threads \in 0 .. MAX_THREADS /\ sending \in 0 .. threads
  BY Bounds DEF Types
<1>4. /\ fifo' \in 0 .. MX_WIFI_MAX_TX_BUFFER_COUNT /\ pbufs' \in Nat /\ fifo' + sending' <= pbufs'
      /\ threads' \in 0 .. MAX_THREADS /\ sending' \in 0 .. threads'
  <2>1. CASE low_level_output
    <3>1. /\ fifo' = fifo + 1 /\ pbufs' = pbufs + 1 /\ UNCHANGED << threads, sending >>
          /\ fifo < MX_WIFI_MAX_TX_BUFFER_COUNT
      BY <2>1 DEF low_level_output
    <3> QED
      BY <1>3, <3>1
  <2>2. CASE PushToDriver
    <3>1. threads' = threads
      BY <2>2 DEF PushToDriver
    <3>2. CASE /\ sending < threads /\ fifo > 0 /\ sending' = sending + 1 /\ fifo' = fifo - 1
               /\ pbufs' = pbufs
      BY <1>3, <3>1, <3>2
    <3>3. CASE sending > 0 /\ sending' = sending - 1 /\ pbufs' = pbufs - 1 /\ fifo' = fifo
      BY <1>3, <3>1, <3>3
    <3> QED
      BY <2>2, <3>2, <3>3 DEF PushToDriver
  <2> QED
    BY <2>1, <2>2
<1> QED
  BY <1>1, <1>2, <1>4 DEF Types

\* Every step keeps the types.
LEMMA TypesStep == Types /\ [Next]_vars => Types'
<1> SUFFICES ASSUME Types, [Next]_vars PROVE Types'
  OBVIOUS
<1>1. CASE UNCHANGED vars
  <2>1. StepsOf' = StepsOf /\ Tells' = Tells
    BY <1>1, SameDriver DEF vars
  <2> QED
    BY <1>1, <2>1 DEF Types, vars
<1>2. CASE AppCall
  BY <1>2, InitTypes, SwitchTypes, CommandTypes DEF AppCall
<1>3. CASE AppStep
  BY <1>3, JoinTypes, AskTypes, LeaveTypes, AddIfTypes, GlueTypes, OwnAddressTypes,
     OtherStepTypes DEF AppStep
<1>4. CASE ModuleJoins \/ ModuleLoses \/ Deliver \/ LinkThread \/ DhcpBound \/ low_level_output
        \/ PushToDriver
  BY <1>4, ModuleTypes, DeliverTypes, LinkTypes, FrameTypes
<1> QED
  BY <1>1, <1>2, <1>3, <1>4 DEF Next

\* Every variable has its type, whatever the driver, whatever the application does.
THEOREM TypeCorrect == Spec => []TypeOK
<1>1. Init => Types
  BY TypesInit
<1>2. Types /\ [Next]_vars => Types'
  BY TypesStep
<1>3. Types => TypeOK
  <2> SUFFICES ASSUME Types PROVE TypeOK
    OBVIOUS
  <2>1. todo \in Seq(STEPS)
    BY StepNames DEF Types
  <2> QED
    BY <2>1 DEF Types, TypeOK
<1> QED
  BY <1>1, <1>2, <1>3, PTL DEF Spec

-----------------------------------------------------------------------------
\* What the steps do to a plan and to the interface.

\* Whether the interface has an lwIP interface; what state it is in.
HasNetif   == iface.ptr # NONE
In(states) == iface.state \in states

\* The steps that may fail, and those that do not touch the interface.
MayFail == {"join", "ask", "leave", "power up", "power down", "add_if", "ip_connect",
    "own address"}
Aside   == {"join", "ask", "leave", "power up", "power down", "handle", "no handle", "sta", "ap"}

\* A step that fails ends the command and changes nothing.
StepFails ==
  /\ Fails /\ Head(todo) \in MayFail
  /\ Head(todo) = "ip_connect" => ~HasNetif \/ driver \in Unaddressed
  /\ Head(todo) \in {"leave", "power down"} => driver = "st"
  /\ UNCHANGED << mode, iface, radio, cy, handle, tx >>

\* What a step that succeeds makes of the interface.
StepMakes ==
  /\ Head(todo) \in Aside => iface' = iface
  /\ Head(todo) = "add_if" => \E o \in net_ip_add_if(iface) : o.ok /\ iface' = o.x
  /\ Head(todo) = "ready" => iface' = Event(iface, "INTERFACE_READY")
  /\ Head(todo) = "initialized" => iface' = Event(iface, "INTERFACE_INITIALIZED")
  /\ Head(todo) = "link_up" => iface' = SetLink(iface, TRUE)
  /\ Head(todo) = "link_down" => iface' = SetLink(iface, FALSE)
  /\ Head(todo) = "ip_disconnect" => iface' = net_ip_disconnect(iface).x
  /\ Head(todo) = "remove_if" => iface' = net_ip_remove_if(iface).x
  /\ Head(todo) = "ip_connect" =>
       HasNetif /\ \E o \in net_ip_connect(iface) : o.ok /\ iface' = o.x
  /\ Head(todo) = "own address" => iface' = Event([ iface EXCEPT !.ipaddr = OwnAddr ], "IPADDR")

\* And of the driver.
StepLeaves ==
  /\ Head(todo) \notin {"sta", "ap"} => mode' = mode
  /\ Head(todo) \notin {"handle", "no handle"} => handle' = handle
  /\ Head(todo) = "handle" => handle' = TRUE
  /\ Head(todo) \notin {"join", "ask", "leave", "power up", "power down"} => UNCHANGED radio
  /\ Head(todo) \in {"leave", "power down"} =>
       /\ asked' = FALSE /\ joined' = FALSE
       /\ reports' = IF joined THEN reports \o Down ELSE reports
       /\ driver \in {"mx", "mxb"} => reports = << >>
  /\ Head(todo) \in {"join", "ask", "power up"} => reports' = reports
  /\ Head(todo) = "ask" => joined' = joined
  /\ Head(todo) = "add_if" /\ driver = "cy" => net_cypress_low_level_init(iface'.ptr)
  /\ ~(Head(todo) = "add_if" /\ driver = "cy") => UNCHANGED << netif2ifp, linkNetif >>
  /\ Head(todo) = "add_if" /\ driver = "mxb" => mx_wifi_low_level_init
  /\ ~(Head(todo) = "add_if" /\ driver = "mxb") => UNCHANGED << fifo, threads >>
  /\ UNCHANGED << sending, pbufs >>

\* A step of a driver function fails, or it makes what it is named for and goes on.
LEMMA StepEffect ==
  ASSUME Types, AppStep
  PROVE  /\ todo # << >> /\ UNCHANGED << driver, drv, starts >>
         /\ StepFails \/ (Goes /\ StepMakes /\ StepLeaves)
<1>1. CASE Join
  BY <1>1 DEF Join, Doing, StepFails, StepMakes, StepLeaves, MayFail, Aside, radio, cy, tx
<1>2. CASE Ask
  BY <1>2 DEF Ask, Doing, StepFails, StepMakes, StepLeaves, MayFail, Aside, radio, cy, tx
<1>3. CASE Leave
  BY <1>3 DEF Leave, Doing, Answered, StepFails, StepMakes, StepLeaves, MayFail, Aside, radio,
     cy, tx
<1>4. CASE PowerUp
  BY <1>4 DEF PowerUp, Doing, StepFails, StepMakes, StepLeaves, MayFail, Aside, radio, cy, tx
<1>5. CASE AddIf
  <2>1. PICK o \in net_ip_add_if(iface) :
          /\ iface' = o.x
          /\ IF o.ok THEN Goes ELSE Fails
          /\ IF o.ok /\ driver = "cy" THEN net_cypress_low_level_init(o.x.ptr)
             ELSE UNCHANGED << netif2ifp, linkNetif >>
          /\ IF o.ok /\ driver = "mxb" THEN mx_wifi_low_level_init
             ELSE UNCHANGED << fifo, threads >>
    BY <1>5 DEF AddIf
  <2>2. /\ Doing("add_if")
        /\ UNCHANGED << driver, mode, drv, radio, flags, handle, sending, pbufs, starts >>
    BY <1>5 DEF AddIf
  <2>3. iface \in Interface
    BY DEF Types
  <2>4. o.ok \in BOOLEAN /\ (~o.ok => o.x = iface)
    BY <2>3, AddIfEffect
  <2>5. CASE o.ok
    <3>1. Goes /\ StepMakes
      BY <2>1, <2>2, <2>5 DEF StepMakes, Doing, Aside
    <3>2. StepLeaves
      BY <2>1, <2>2, <2>5 DEF StepLeaves, Doing, radio
    <3> QED
      BY <2>2, <3>1, <3>2 DEF Doing
  <2>6. CASE ~o.ok
    <3>1. StepFails
      BY <2>1, <2>2, <2>4, <2>6 DEF StepFails, MayFail, Doing, radio, cy, tx
    <3> QED
      BY <2>2, <3>1 DEF Doing
  <2> QED
    BY <2>4, <2>5, <2>6
<1>6. CASE Glue
  <2>1. UNCHANGED << driver, mode, drv, radio, cy, handle, tx, starts >>
    BY <1>6 DEF Glue
  <2>2. ASSUME Doing("ip_connect"), NEW o \in net_ip_connect(iface), iface' = o.x,
               o.ok \/ iface.ptr = NONE \/ driver \in Unaddressed, IF o.ok THEN Goes ELSE Fails
        PROVE  StepFails \/ (Goes /\ StepMakes /\ StepLeaves)
    <3>1. o.ok \in BOOLEAN /\ (o.ok => HasNetif) /\ (~o.ok => o.x = iface)
      BY <2>2, ConnectEffect DEF Types, HasNetif
    <3>2. CASE o.ok
      <4>1. Goes /\ StepMakes
        BY <2>2, <3>1, <3>2 DEF StepMakes, Doing, Aside
      <4>2. StepLeaves
        BY <2>1, <2>2 DEF StepLeaves, Doing, cy, tx
      <4> QED
        BY <4>1, <4>2
    <3>3. CASE ~o.ok
      BY <2>1, <2>2, <3>1, <3>3 DEF StepFails, MayFail, Doing, HasNetif
    <3> QED
      BY <3>1, <3>2, <3>3
  <2>0. todo # << >>
    BY <1>6 DEF Glue, Doing
  <2>3. CASE Doing("ready") /\ Goes /\ iface' = Event(iface, "INTERFACE_READY")
    BY <2>1, <2>3 DEF StepMakes, StepLeaves, Doing, Aside, cy, tx
  <2>4. CASE Doing("initialized") /\ Goes /\ iface' = Event(iface, "INTERFACE_INITIALIZED")
    BY <2>1, <2>4 DEF StepMakes, StepLeaves, Doing, Aside, cy, tx
  <2>5. CASE Doing("link_up") /\ Goes /\ iface' = SetLink(iface, TRUE)
    BY <2>1, <2>5 DEF StepMakes, StepLeaves, Doing, Aside, cy, tx
  <2>6. CASE Doing("link_down") /\ Goes /\ iface' = SetLink(iface, FALSE)
    BY <2>1, <2>6 DEF StepMakes, StepLeaves, Doing, Aside, cy, tx
  <2>7. CASE Doing("ip_disconnect") /\ Goes /\ iface' = net_ip_disconnect(iface).x
    BY <2>1, <2>7 DEF StepMakes, StepLeaves, Doing, Aside, cy, tx
  <2>8. CASE Doing("remove_if") /\ Goes /\ iface' = net_ip_remove_if(iface).x
    BY <2>1, <2>8 DEF StepMakes, StepLeaves, Doing, Aside, cy, tx
  <2> QED
    BY <1>6, <2>0, <2>1, <2>2, <2>3, <2>4, <2>5, <2>6, <2>7, <2>8 DEF Glue
<1>7. CASE OwnAddress
  BY <1>7 DEF OwnAddress, Doing, StepFails, StepMakes, StepLeaves, MayFail, Aside, radio, cy, tx
<1>8. CASE SetHandle
  BY <1>8 DEF SetHandle, Doing, StepMakes, StepLeaves, Aside, cy, tx
<1>9. CASE Switched
  BY <1>9 DEF Switched, Doing, StepMakes, StepLeaves, Aside, cy, tx
<1> QED
  BY <1>1, <1>2, <1>3, <1>4, <1>5, <1>6, <1>7, <1>8, <1>9 DEF AppStep

\* A call of lwIP takes the interface from one of the states of a connection to another
\* of them, and from no other state.
Follows(x, y) ==
  /\ x.state \in Linked => y.state \in Linked
  /\ x.state \notin Linked => y.state = x.state

\* The state and the pointer after a step that succeeds.
LEMMA StepCore ==
  ASSUME Types, AppStep, StepMakes
  PROVE  /\ iface' \in Interface
         /\ Head(todo) \in Aside => iface' = iface
         /\ Head(todo) = "add_if" =>
              /\ iface'.state = iface.state /\ HasNetif' /\ iface'.ptr \in Netifs
              /\ iface'.net = NewNet
              /\ iface'.live = iface.live \cup {iface'.ptr}
         /\ Head(todo) = "ready" =>
              /\ iface'.state = IF In({"STARTING", "DISCONNECTING"}) THEN "READY" ELSE iface.state
              /\ UNCHANGED << iface.ptr, iface.live, iface.net, iface.ipaddr >>
         /\ Head(todo) = "initialized" =>
              /\ iface'.state = IF In({"STOPPING"}) THEN "INITIALIZED" ELSE iface.state
              /\ UNCHANGED << iface.ptr, iface.live, iface.net, iface.ipaddr >>
         /\ Head(todo) \in {"link_up", "link_down", "ip_connect", "ip_disconnect"} =>
              Follows(iface, iface') /\ UNCHANGED << iface.ptr, iface.live >>
         /\ Head(todo) = "remove_if" =>
              /\ Follows(iface, iface') /\ ~HasNetif'
              /\ iface'.live = IF HasNetif THEN iface.live \ {iface.ptr} ELSE iface.live
              /\ iface'.net = IF HasNetif THEN NewNet ELSE iface.net
         /\ Head(todo) = "own address" =>
              /\ iface'.ipaddr \in {"lease", "static"}
              /\ UNCHANGED << iface.ptr, iface.live, iface.net >>
<1>0. iface \in Interface
  BY DEF Types
<1>1. Head(todo) \in StepsOf /\ StepsOf \subseteq STEPS
  BY StepEffect, TodoTypes, StepNames
<1>2. CASE Head(todo) \in Aside
  BY <1>0, <1>2 DEF StepMakes, Aside
<1>3. CASE Head(todo) = "add_if"
  <2>1. PICK o \in net_ip_add_if(iface) : o.ok /\ iface' = o.x
    BY <1>3 DEF StepMakes
  <2>2. /\ iface' \in Interface /\ iface'.ptr \in Netifs
        /\ iface'.live = iface.live \cup {iface'.ptr}
        /\ iface'.state = iface.state /\ iface'.net = NewNet
    BY <1>0, <2>1, AddIfEffect
  <2>3. HasNetif'
    BY <2>2, Bounds DEF HasNetif
  <2> QED
    BY <1>3, <2>2, <2>3 DEF Aside
<1>4. CASE Head(todo) = "ready"
  <2>1. iface' = Event(iface, "INTERFACE_READY")
    BY <1>4 DEF StepMakes
  <2>2. React(iface.state, "INTERFACE_READY") = IF In({"STARTING", "DISCONNECTING"})
          THEN "READY" ELSE iface.state
    BY Reacts DEF In
  <2> QED
    BY <1>0, <1>4, <2>1, <2>2, EventEffect DEF Aside
<1>5. CASE Head(todo) = "initialized"
  <2>1. iface' = Event(iface, "INTERFACE_INITIALIZED")
    BY <1>5 DEF StepMakes
  <2>2. React(iface.state, "INTERFACE_INITIALIZED") = IF In({"STOPPING"}) THEN "INITIALIZED"
          ELSE iface.state
    BY Reacts DEF In
  <2> QED
    BY <1>0, <1>5, <2>1, <2>2, EventEffect DEF Aside
<1>6. CASE Head(todo) \in {"link_up", "link_down"}
  <2>1. iface' \in {SetLink(iface, TRUE), SetLink(iface, FALSE)}
    BY <1>6 DEF StepMakes
  <2>2. Told(iface, iface')
    BY <1>0, <2>1, SetLinkEffect
  <2> QED
    BY <1>6, <2>2 DEF Told, Follows, Aside
<1>7. CASE Head(todo) = "ip_connect"
  <2>1. PICK o \in net_ip_connect(iface) : iface' = o.x
    BY <1>7 DEF StepMakes
  <2> QED
    BY <1>0, <1>7, <2>1, ConnectEffect DEF Follows, Aside
<1>8. CASE Head(todo) = "ip_disconnect"
  BY <1>0, <1>8, DisconnectEffect DEF StepMakes, Told, Follows, Aside
<1>9. CASE Head(todo) = "remove_if"
  BY <1>0, <1>9, RemoveEffect DEF StepMakes, Follows, HasNetif, Aside
<1>10. CASE Head(todo) = "own address"
  <2> DEFINE x == [ iface EXCEPT !.ipaddr = OwnAddr ]
  <2>1. x \in Interface /\ x.ipaddr \in {"lease", "static"}
    BY <1>0, NetFields DEF OwnAddr, Interface
  <2>2. x.ptr = iface.ptr /\ x.live = iface.live /\ x.net = iface.net
    OBVIOUS
  <2>3. iface' = Event(x, "IPADDR")
    BY <1>10 DEF StepMakes
  <2> HIDE DEF x
  <2> QED
    BY <1>10, <2>1, <2>2, <2>3, EventEffect DEF Aside
<1> QED
  BY <1>1, <1>2, <1>3, <1>4, <1>5, <1>6, <1>7, <1>8, <1>9, <1>10 DEF STEPS, Aside

-----------------------------------------------------------------------------
\* Those who listen to the module, the module, and the frames.

Listening ==
  ModuleJoins \/ ModuleLoses \/ Deliver \/ LinkThread \/ DhcpBound \/ low_level_output
      \/ PushToDriver

\* Where what is heard may take the interface.
Heard(x, y) ==
  /\ y.ptr = x.ptr /\ y.live = x.live /\ y.dhcp_mode = x.dhcp_mode
  /\ x.state \in Linked => y.state \in Linked
  /\ x.state = "STARTING" => y.state \in {"STARTING", "READY"}
  /\ x.state = "DISCONNECTING" => y.state \in {"DISCONNECTING", "READY"}
  /\ x.state = "STOPPING" => y.state \in {"STOPPING", "INITIALIZED"}
  /\ x.state \in {"DEINITIALIZED", "INITIALIZED", "READY"} => y.state = x.state

\* What lwIP's callback does to an interface is what a report may do.
LEMMA ToldHeard == ASSUME NEW x, NEW y, Told(x, y) PROVE Heard(x, y) /\ Follows(x, y)
  BY DEF Told, Heard, Follows, Linked

\* An event of the module, heard by the driver.
LEMMA EventHeard ==
  ASSUME NEW x \in Interface, NEW event \in {"INTERFACE_READY", "INTERFACE_INITIALIZED",
      "LINK_DOWN", "IPADDR"}
  PROVE  Heard(x, Event(x, event))
<1> DEFINE y == Event(x, event)
<1>1. y.state = React(x.state, event) /\ y.ptr = x.ptr /\ y.live = x.live
        /\ y.dhcp_mode = x.dhcp_mode
  BY EventEffect
<1>2. CASE event = "INTERFACE_READY"
  BY <1>1, <1>2, Reacts DEF Heard, Linked
<1>3. CASE event = "INTERFACE_INITIALIZED"
  BY <1>1, <1>3, Reacts DEF Heard, Linked
<1>4. CASE event = "LINK_DOWN"
  BY <1>1, <1>4, Reacts DEF Heard, Linked
<1>5. CASE event = "IPADDR"
  BY <1>1, <1>5, Reacts DEF Heard, Linked
<1> QED
  BY <1>2, <1>3, <1>4, <1>5

\* What Deliver makes of the interface.
LEMMA DeliverEffect ==
  ASSUME Types, Deliver
  PROVE  /\ Heard(iface, iface') /\ driver \in {"mx", "mxb", "st"}
         /\ driver \in {"mx", "mxb"} =>
              /\ iface'.net = iface.net
              /\ iface'.ipaddr \in {iface.ipaddr, "lease", "static"}
              /\ iface'.state = "CONNECTED" => iface.state = "CONNECTED" \/ iface'.ipaddr = "lease"
         /\ driver = "mxb" =>
              /\ iface'.ipaddr # iface.ipaddr => Head(reports) = "AP_UP"
                   /\ iface'.ipaddr = "static"
              /\ iface'.state # "CONNECTED" \/ iface.state = "CONNECTED"
              /\ iface.state = "CONNECTING" => iface'.state = "CONNECTING"
         /\ driver = "st" => (Good(iface) => Good(iface'))
<1>0. iface \in Interface
  BY DEF Types
<1>1. Head(reports) \in Tells
  BY DEF Deliver, Types
<1>2. driver \in {"mx", "mxb", "st"}
  BY TellsTypes, DriverNames DEF Deliver
<1>3. \A a \in {"lease", "static"} :
        LET x == [ iface EXCEPT !.ipaddr = a ]
        IN  /\ x \in Interface /\ x.ptr = iface.ptr /\ x.live = iface.live
            /\ x.dhcp_mode = iface.dhcp_mode
            /\ x.state = iface.state /\ x.net = iface.net /\ x.ipaddr = a
  BY <1>0, NetFields DEF Interface
<1>4. CASE driver \in {"mx", "mxb"}
  <2> DEFINE status == Head(reports)
             lease  == [ iface EXCEPT !.ipaddr = "lease" ]
             static == [ iface EXCEPT !.ipaddr = "static" ]
  <2>1. iface' = mx_wifi_status_changed(status)
    BY <1>4 DEF Deliver
  <2>2. PICK x \in Interface, event \in {"INTERFACE_READY", "INTERFACE_INITIALIZED",
          "LINK_DOWN", "IPADDR"} :
          /\ x.ptr = iface.ptr /\ x.live = iface.live /\ x.dhcp_mode = iface.dhcp_mode
          /\ x.state = iface.state /\ x.net = iface.net
          /\ x.ipaddr \in {iface.ipaddr, "lease", "static"}
          /\ driver = "mxb" => (x.ipaddr # iface.ipaddr => status = "AP_UP" /\ x.ipaddr = "static")
          /\ event = "IPADDR" => x.ipaddr = "lease"
          /\ driver = "mxb" => event \in {"INTERFACE_READY", "INTERFACE_INITIALIZED"}
                                 \/ (event = "LINK_DOWN" /\ iface.state = "CONNECTED")
          /\ iface' \in {iface, Event(x, event)}
    <3>1. lease \in Interface /\ static \in Interface
      BY <1>3
    <3>2. /\ lease.ptr = iface.ptr /\ lease.live = iface.live /\ lease.dhcp_mode = iface.dhcp_mode
          /\ lease.state = iface.state /\ lease.net = iface.net /\ lease.ipaddr = "lease"
      BY <1>3
    <3>3. /\ static.ptr = iface.ptr /\ static.live = iface.live
          /\ static.dhcp_mode = iface.dhcp_mode
          /\ static.state = iface.state /\ static.net = iface.net /\ static.ipaddr = "static"
      BY <1>3
    <3> HIDE DEF lease, static
    <3>4. status \in {"STA_DOWN", "STA_UP", "STA_GOT_IP", "AP_DOWN", "AP_UP"}
      BY <1>1, <1>4, StatusEffect
    <3>5. CASE status = "STA_DOWN"
      <4>1. iface' \in {iface, Event(iface, "INTERFACE_INITIALIZED")}
              \/ (iface' = Event(iface, "LINK_DOWN") /\ iface.state = "CONNECTED")
        BY <1>1, <1>4, <2>1, <3>5, StatusEffect
      <4> QED
        BY <1>0, <4>1
    <3>6. CASE status = "STA_UP"
      <4>1. iface' \in {iface, Event(iface, "INTERFACE_READY")}
        BY <1>1, <1>4, <2>1, <3>6, StatusEffect
      <4> QED
        BY <1>0, <4>1
    <3>7. CASE status = "STA_GOT_IP"
      <4>1. driver = "mx" /\ iface' = Event(lease, "IPADDR")
        BY <1>1, <1>4, <2>1, <3>7, StatusEffect DEF lease
      <4> QED
        BY <3>1, <3>2, <4>1
    <3>8. CASE status = "AP_DOWN"
      <4>1. \/ iface' = Event(iface, "INTERFACE_READY")
            \/ iface' = Event(iface, "LINK_DOWN") /\ iface.state = "CONNECTED"
        BY <1>1, <1>4, <2>1, <3>8, StatusEffect
      <4> QED
        BY <1>0, <4>1
    <3>9. CASE status = "AP_UP"
      <4>1. iface' = Event(static, "INTERFACE_READY")
        BY <1>1, <1>4, <2>1, <3>9, StatusEffect DEF static
      <4> QED
        BY <3>1, <3>3, <3>9, <4>1
    <3> QED
      BY <3>4, <3>5, <3>6, <3>7, <3>8, <3>9
  <2>3. Heard(x, Event(x, event))
    BY EventHeard
  <2>4. /\ Event(x, event).net = x.net /\ Event(x, event).ipaddr = x.ipaddr
        /\ Event(x, event).state = React(x.state, event)
    BY EventEffect
  <2>5. Heard(iface, iface')
    BY <2>2, <2>3 DEF Heard, Linked
  <2>6. driver = "mxb" =>
          /\ iface'.state # "CONNECTED" \/ iface.state = "CONNECTED"
          /\ iface.state = "CONNECTING" => iface'.state = "CONNECTING"
    BY <2>2, <2>4, Reacts
  <2>7. iface'.state = "CONNECTED" => iface.state = "CONNECTED" \/ iface'.ipaddr = "lease"
    BY <2>2, <2>4, Reacts
  <2> QED
    BY <1>2, <1>4, <2>2, <2>4, <2>5, <2>6, <2>7
<1>5. CASE driver = "st"
  <2>1. iface' \in {iface, SetLink(iface, TRUE), SetLink(iface, FALSE), Event(iface,
          "INTERFACE_READY")}
    <3>1. mode = "sta" \/ mode = "ap"
      BY DEF Types
    <3>2. iface' = st_wifi_event_callback(Head(reports))
      BY <1>5 DEF Deliver
    <3>3. (Head(reports) = "LINK_UP") \in BOOLEAN
      OBVIOUS
    <3>4. CASE mode = "sta"
      BY <3>2, <3>3, <3>4 DEF st_wifi_event_callback
    <3>5. CASE mode = "ap"
      BY <3>2, <3>5 DEF st_wifi_event_callback
    <3> QED
      BY <3>1, <3>4, <3>5
  <2>2. Heard(iface, iface')
    <3>1. CASE iface' \in {SetLink(iface, TRUE), SetLink(iface, FALSE)}
      BY <1>0, <3>1, SetLinkEffect, ToldHeard
    <3>2. CASE iface' = Event(iface, "INTERFACE_READY")
      BY <1>0, <3>2, EventHeard
    <3>3. CASE iface' = iface
      BY <3>3 DEF Heard, Linked
    <3> QED
      BY <2>1, <3>1, <3>2, <3>3
  <2>3. Good(iface) => Good(iface')
    <3>1. CASE iface' \in {SetLink(iface, TRUE), SetLink(iface, FALSE)}
      BY <1>0, <3>1, SetLinkEffect
    <3>2. CASE iface' = Event(iface, "INTERFACE_READY")
      BY <1>0, <3>2, EventEffect, Reacts DEF Good
    <3>3. CASE iface' = iface
      BY <3>3
    <3> QED
      BY <2>1, <3>1, <3>2, <3>3
  <2> QED
    BY <1>5, <2>2, <2>3
<1> QED
  BY <1>2, <1>4, <1>5

\* What the others make of it.
LEMMA ThreadEffect ==
  ASSUME Types, LinkThread \/ DhcpBound
  PROVE  /\ Told(iface, iface') /\ (Good(iface) => Good(iface'))
         /\ iface'.net.addr \in {iface.net.addr, "lease", "zero"}
         /\ LinkThread => iface'.net.addr \in {iface.net.addr, "zero"}
         /\ LinkThread => linkNetif # NONE
         /\ DhcpBound => HasNetif /\ mode = "sta"
<1>0. iface \in Interface
  BY DEF Types
<1>1. CASE LinkThread
  <2>1. iface' \in {iface, SetLink(iface, TRUE), SetLink(iface, FALSE)} /\ linkNetif # NONE
    BY <1>1 DEF LinkThread
  <2>2. Told(iface, iface)
    BY <1>0 DEF Told
  <2>3. /\ Told(iface, iface') /\ (Good(iface) => Good(iface'))
        /\ iface'.net.addr \in {iface.net.addr, "zero"}
    BY <1>0, <2>1, <2>2, SetLinkEffect
  <2>4. DhcpBound => HasNetif /\ mode = "sta"
    BY DEF DhcpBound, MayBind, HasNetif
  <2> QED
    BY <2>1, <2>3, <2>4
<1>2. CASE DhcpBound /\ ~LinkThread
  <2>1. iface' = Bound(iface) /\ HasNetif /\ mode = "sta"
    BY <1>2 DEF DhcpBound, MayBind, HasNetif
  <2> QED
    BY <1>0, <1>2, <2>1, BoundEffect
<1> QED
  BY <1>1, <1>2

\* Whatever is heard leaves the commands, the lwIP interface and the handle alone.
LEMMA ListenEffect ==
  ASSUME Types, Listening
  PROVE  /\ UNCHANGED << driver, mode, drv, todo, failed, linkNetif, netif2ifp, handle, starts >>
         /\ Heard(iface, iface')
         /\ driver = "cy" => Follows(iface, iface')
         /\ driver = "mxb" /\ ~HasNetif /\ In({"CONNECTING"}) /\ linkNetif = NONE =>
              iface'.state = "CONNECTING"
<1>0. UNCHANGED << driver, mode, drv, todo, failed, linkNetif, netif2ifp, handle, starts >>
  BY DEF Listening, ModuleJoins, ModuleLoses, Deliver, LinkThread, DhcpBound, low_level_output,
     PushToDriver, cy
<1>1. CASE ModuleJoins \/ ModuleLoses \/ low_level_output \/ PushToDriver
  <2>1. iface' = iface
    BY <1>1 DEF ModuleJoins, ModuleLoses, low_level_output, PushToDriver
  <2> QED
    BY <1>0, <2>1 DEF Heard, Follows, In
<1>2. CASE Deliver
  BY <1>0, <1>2, DeliverEffect DEF In
<1>3. CASE LinkThread \/ DhcpBound
  <2>1. Heard(iface, iface') /\ Follows(iface, iface')
    BY <1>3, ThreadEffect, ToldHeard
  <2> QED
    BY <1>0, <1>3, <2>1, ThreadEffect
<1> QED
  BY <1>1, <1>2, <1>3 DEF Listening
-----------------------------------------------------------------------------
\* The commands. One takes the interface from one state to another and leaves a function
\* to make.
Commanded(from, to, fun) ==
  /\ In({from}) /\ iface'.state = to
  /\ todo' = IF fun = "none" THEN << >> ELSE Functions[driver][fun]

\* A command starts on an idle interface: a new state and a new plan.
LEMMA CommandEffect ==
  ASSUME Types, NEW c \in DOMAIN Expected, Command(c)
  PROVE  /\ UNCHANGED << driver, mode, drv, radio, cy, handle, tx >>
         /\ UNCHANGED << iface.ptr, iface.live, iface.net, iface.ipaddr, iface.dhcp_mode >>
         /\ Idle /\ failed' = FALSE
         /\ \/ /\ Commanded("INITIALIZED", "STARTING", "if_start")
               /\ starts < MAX_STARTS /\ starts' = starts + 1
            \/ Commanded("STARTING", "INITIALIZED", "if_stop") /\ starts' = starts
            \/ /\ Commanded("READY", "CONNECTING", "if_connect")
               /\ starts' = starts /\ ~failed
            \/ Commanded("READY", "STOPPING", "if_stop") /\ starts' = starts
            \/ /\ Commanded("CONNECTING", "READY", "none")
               /\ starts' = starts /\ (failed \/ driver \in Impatient)
            \/ Commanded("CONNECTED", "DISCONNECTING", "if_disconnect") /\ starts' = starts
<1>1. PICK e \in Reactions(iface.state, c) :
        /\ iface' = [ iface EXCEPT !.state = e[3] ]
        /\ todo' = IF e[4] = "none" THEN << >> ELSE Functions[driver][e[4]]
  BY DEF Command
<1>2. iface \in Interface /\ iface.state \in NET_STATES
  BY DEF Types, Interface
<1>3. /\ iface'.state = e[3]
      /\ UNCHANGED << iface.ptr, iface.live, iface.net, iface.ipaddr, iface.dhcp_mode >>
  BY <1>1, <1>2 DEF Interface
<1>4. UNCHANGED << driver, mode, drv, radio, cy, handle, tx >> /\ Idle /\ failed' = FALSE
  BY DEF Command
<1>5. /\ starts' = IF c = "CMD_START" THEN starts + 1 ELSE starts
      /\ c = "CMD_START" => starts < MAX_STARTS
      /\ c = "CMD_CONNECT" => ~failed
      /\ iface.state = Expected[c] \/ failed \/ driver \in Impatient
  BY DEF Command, MaySend
<1>6. Expected["CMD_DISCONNECT"] = "CONNECTED"
  BY DEF Expected
<1> HIDE DEF Idle
<1>7. CASE iface.state = "INITIALIZED" /\ c = "CMD_START" /\ e[3] = "STARTING" /\ e[4] = "if_start"
  BY <1>1, <1>3, <1>4, <1>5, <1>7 DEF Commanded, In
<1>8. CASE iface.state = "STARTING" /\ c = "CMD_STOP" /\ e[3] = "INITIALIZED" /\ e[4] = "if_stop"
  BY <1>1, <1>3, <1>4, <1>5, <1>8 DEF Commanded, In
<1>9. CASE iface.state = "READY" /\ c = "CMD_CONNECT" /\ e[3] = "CONNECTING" /\ e[4] = "if_connect"
  BY <1>1, <1>3, <1>4, <1>5, <1>9 DEF Commanded, In
<1>10. CASE iface.state = "READY" /\ c = "CMD_STOP" /\ e[3] = "STOPPING" /\ e[4] = "if_stop"
  BY <1>1, <1>3, <1>4, <1>5, <1>10 DEF Commanded, In
<1>11. CASE iface.state = "CONNECTING" /\ c = "CMD_DISCONNECT" /\ e[3] = "READY" /\ e[4] = "none"
  BY <1>1, <1>3, <1>4, <1>5, <1>6, <1>11 DEF Commanded, In
<1>12. CASE iface.state = "CONNECTED" /\ c = "CMD_DISCONNECT" /\ e[3] = "DISCONNECTING"
         /\ e[4] = "if_disconnect"
  BY <1>1, <1>3, <1>4, <1>5, <1>12 DEF Commanded, In
<1> QED
  BY ZenonT(60), <1>2, <1>7, <1>8, <1>9, <1>10, <1>11, <1>12, Commands

-----------------------------------------------------------------------------
\* How far a command is: what is left of it, the state, and whether there is an lwIP interface.

\* A plan: its first step and what is left after it.
Begins(plan, step, rest) == plan # << >> /\ Head(plan) = step /\ Tail(plan) = rest

AskHandle    == << "ask", "handle" >>
SetsHandle   == << "handle" >>
LeavesModule == << "leave", "no handle", "initialized" >>
DropsHandle  == << "no handle", "initialized" >>
Ends         == << "initialized" >>
AddsIf       == << "add_if", "link_up", "ip_connect" >>
LinksUp      == << "link_up", "ip_connect" >>
Connects     == << "ip_connect" >>
Disconnects  == << "ip_disconnect", "remove_if", "ready" >>
Removes      == << "remove_if", "ready" >>
Readies      == << "ready" >>

\* The steps with names of two words.
NoHandle      == "no handle"
PowerUpStep   == "power up"
PowerDownStep == "power down"
OwnStep       == "own address"

\* What a list of one step, two, and so on begins with.
LEMMA Begin1 == \A a : Begins(<< a >>, a, << >>)
  BY DEF Begins

LEMMA Begin2 == \A a, b : Begins(<< a, b >>, a, << b >>)
  BY DEF Begins

LEMMA Begin3 == \A a, b, c : Begins(<< a, b, c >>, a, << b, c >>)
  BY DEF Begins

LEMMA Begin4 == \A a, b, c, d : Begins(<< a, b, c, d >>, a, << b, c, d >>)
  BY DEF Begins

LEMMA Begin5 == \A a, b, c, d, e : Begins(<< a, b, c, d, e >>, a, << b, c, d, e >>)
  BY DEF Begins

LEMMA Begin6 == \A a, b, c, d, e, f : Begins(<< a, b, c, d, e, f >>, a, << b, c, d, e, f >>)
  BY DEF Begins

\* Which steps may fail, and which do not touch the interface.
LEMMA StepKinds ==
  /\ {"join", "ask", "leave", "handle", NoHandle, PowerUpStep, PowerDownStep, "sta",
       "ap"} \subseteq Aside
  /\ \A step \in {"handle", NoHandle, "link_up", "link_down", "ip_disconnect", "remove_if",
       "ready", "initialized",
                 "sta", "ap"} : step \notin MayFail
  /\ \A step \in {"add_if", "link_up", "link_down", "ip_connect", "ip_disconnect", "remove_if",
       "ready",
                 "initialized", OwnStep} : step \notin Aside
  /\ {"add_if", "link_up", "ip_connect", "ip_disconnect", "remove_if", "ready"} \cap {"handle",
       NoHandle} = {}
<1>1. {"join", "ask", "leave", "handle", NoHandle, PowerUpStep, PowerDownStep, "sta",
        "ap"} \subseteq Aside
  BY Zenon DEF Aside, NoHandle, PowerUpStep, PowerDownStep
<1>2. \A step \in {"handle", NoHandle, "link_up", "link_down", "ip_disconnect", "remove_if",
        "ready", "initialized",
                 "sta", "ap"} : step \notin MayFail
  BY Zenon DEF MayFail, NoHandle
<1>3. \A step \in {"add_if", "link_up", "link_down", "ip_connect", "ip_disconnect",
        "remove_if", "ready",
                 "initialized", OwnStep} : step \notin Aside
  BY Zenon DEF Aside, OwnStep
<1>4. {"add_if", "link_up", "ip_connect", "ip_disconnect", "remove_if",
        "ready"} \cap {"handle", NoHandle} = {}
  BY Zenon DEF NoHandle
<1> QED
  BY <1>1, <1>2, <1>3, <1>4

\* How the plans of mxb go on.
LEMMA Plans_mxb ==
  /\ Begins(AskHandle, "ask", SetsHandle) /\ Begins(SetsHandle, "handle", << >>)
  /\ Begins(LeavesModule, "leave", DropsHandle) /\ Begins(DropsHandle, NoHandle, Ends)
  /\ Begins(Ends, "initialized", << >>)
  /\ Begins(AddsIf, "add_if", LinksUp) /\ Begins(LinksUp, "link_up", Connects)
  /\ Begins(Connects, "ip_connect", << >>)
  /\ Begins(Disconnects, "ip_disconnect", Removes) /\ Begins(Removes, "remove_if", Readies)
  /\ Begins(Readies, "ready", << >>)
  BY Begin1, Begin2, Begin3, Zenon DEF AskHandle, SetsHandle, LeavesModule, DropsHandle,
     NoHandle, Ends, AddsIf, LinksUp,
     Connects, Disconnects, Removes, Readies

\* mx_wifi in bypass mode: the lwIP interface lives from connect to disconnect.
Idle_mxb ==
  /\ Idle /\ In({"DEINITIALIZED", "INITIALIZED", "STARTING", "READY"} \cup Linked)
  /\ HasNetif => In(Linked)
  /\ In(Linked) /\ ~HasNetif => In({"CONNECTING"})
  /\ In(Linked) => (failed <=> ~HasNetif)

Starts_mxb == todo \in {AskHandle, SetsHandle} /\ In({"STARTING", "READY"}) /\ ~HasNetif
Stops_mxb  == todo \in {LeavesModule, DropsHandle, Ends} /\ In({"STOPPING", "INITIALIZED"})
    /\ ~HasNetif
Adds_mxb   == todo = AddsIf /\ In({"CONNECTING"}) /\ ~HasNetif /\ ~failed
Links_mxb  == todo \in {LinksUp, Connects} /\ In(Linked) /\ HasNetif /\ ~failed
Gives_mxb  == todo \in {Disconnects, Removes} /\ In({"DISCONNECTING", "READY"}) /\ HasNetif
Gone_mxb   == todo = Readies /\ In({"DISCONNECTING", "READY"}) /\ ~HasNetif

Stage_mxb == Idle_mxb \/ Starts_mxb \/ Stops_mxb \/ Adds_mxb \/ Links_mxb \/ Gives_mxb \/ Gone_mxb

\* The application does not take a connect back on it, and gives an access point an
\* address before it connects it.
Patient == "mxb" \notin Impatient \cup Unaddressed

\* The functions its commands make.
LEMMA Functions_mxb ==
  driver = "mxb" => /\ Functions[driver]["if_start"] = AskHandle
                    /\ Functions[driver]["if_stop"] = LeavesModule
                    /\ Functions[driver]["if_connect"] = AddsIf
                    /\ Functions[driver]["if_disconnect"] = Disconnects
<1> SUFFICES ASSUME driver = "mxb"
             PROVE  /\ Functions[driver]["if_start"] = AskHandle
                    /\ Functions[driver]["if_stop"] = LeavesModule
                    /\ Functions[driver]["if_connect"] = AddsIf
                    /\ Functions[driver]["if_disconnect"] = Disconnects
  OBVIOUS
<1>1. Functions["mxb"] = [ if_start |-> mx_wifi_if_start, if_stop |-> mx_wifi_if_stop,
             if_connect |-> mx_wifi_if_connect, if_disconnect |-> mx_wifi_if_disconnect ]
  BY DEF Functions
<1>2. /\ mx_wifi_if_start = AskHandle /\ mx_wifi_if_stop = LeavesModule
      /\ mx_wifi_if_connect = AddsIf /\ mx_wifi_if_disconnect = Disconnects
  BY DEF mx_wifi_if_start, mx_wifi_if_start_station, mx_wifi_if_start_softap, mx_wifi_if_stop,
     mx_wifi_if_connect,
     mx_wifi_if_disconnect, AskHandle, LeavesModule, AddsIf, Disconnects
<1> QED
  BY <1>1, <1>2

\* A step in a function of mxb that succeeds.
LEMMA GoesOn_mxb ==
  ASSUME Types, AppStep, Goes, StepMakes, Stage_mxb
  PROVE  Stage_mxb'
<1>0. /\ todo # << >> /\ todo' = Tail(todo) /\ failed' = failed
      /\ \A step, rest : Begins(todo, step, rest) => Head(todo) = step /\ todo' = rest
  BY StepEffect DEF Goes, Begins
<1>1. CASE Starts_mxb
  <2>1. Head(todo) \in Aside /\ todo' \in {SetsHandle, << >>}
    BY <1>0, <1>1, Plans_mxb DEF Starts_mxb, Aside
  <2>2. iface' = iface
    BY <2>1, StepCore
  <2> QED
    BY <1>1, <2>1, <2>2 DEF Starts_mxb, Stage_mxb, Idle_mxb, Idle, In, HasNetif, Linked
<1>2. CASE Stops_mxb
  <2>1. CASE todo # Ends
    <3>1. Head(todo) \in Aside /\ todo' \in {DropsHandle, Ends}
      BY <1>0, <1>2, <2>1, Plans_mxb, StepKinds DEF Stops_mxb
    <3>2. iface' = iface
      BY <3>1, StepCore
    <3> QED
      BY <1>2, <3>1, <3>2 DEF Stops_mxb, Stage_mxb, In, HasNetif
  <2>2. CASE todo = Ends
    <3>1. Head(todo) = "initialized" /\ todo' = << >>
      BY <1>0, <2>2, Plans_mxb
    <3>2. /\ iface'.state = IF In({"STOPPING"}) THEN "INITIALIZED" ELSE iface.state
          /\ iface'.ptr = iface.ptr
      BY <3>1, StepCore
    <3> QED
      BY <1>2, <3>1, <3>2 DEF Stops_mxb, Stage_mxb, Idle_mxb, Idle, In, HasNetif, Linked
  <2> QED
    BY <2>1, <2>2
<1>3. CASE Adds_mxb
  <2>1. Head(todo) = "add_if" /\ todo' = LinksUp
    BY <1>0, <1>3, Plans_mxb DEF Adds_mxb
  <2>2. iface'.state = iface.state /\ HasNetif'
    BY <2>1, StepCore
  <2> QED
    BY <1>0, <1>3, <2>1, <2>2 DEF Adds_mxb, Links_mxb, Stage_mxb, In, Linked
<1>4. CASE Links_mxb
  <2>1. Head(todo) \in {"link_up", "ip_connect"} /\ todo' \in {Connects, << >>}
    BY <1>0, <1>4, Plans_mxb DEF Links_mxb
  <2>2. Follows(iface, iface') /\ iface'.ptr = iface.ptr
    BY <2>1, StepCore
  <2> QED
    BY <1>0, <1>4, <2>1, <2>2 DEF Links_mxb, Stage_mxb, Idle_mxb, Idle, In, HasNetif, Follows
<1>5. CASE Gives_mxb
  <2>1. CASE todo = Disconnects
    <3>1. Head(todo) = "ip_disconnect" /\ todo' = Removes
      BY <1>0, <2>1, Plans_mxb
    <3>2. Follows(iface, iface') /\ iface'.ptr = iface.ptr
      BY <3>1, StepCore
    <3> QED
      BY <1>5, <3>1, <3>2 DEF Gives_mxb, Stage_mxb, In, HasNetif, Follows, Linked
  <2>2. CASE todo = Removes
    <3>1. Head(todo) = "remove_if" /\ todo' = Readies
      BY <1>0, <2>2, Plans_mxb
    <3>2. Follows(iface, iface') /\ ~HasNetif'
      BY <3>1, StepCore
    <3> QED
      BY <1>5, <3>1, <3>2 DEF Gives_mxb, Gone_mxb, Stage_mxb, In, Follows, Linked
  <2> QED
    BY <1>5, <2>1, <2>2 DEF Gives_mxb
<1>6. CASE Gone_mxb
  <2>1. Head(todo) = "ready" /\ todo' = << >>
    BY <1>0, <1>6, Plans_mxb DEF Gone_mxb
  <2>2. /\ iface'.state = IF In({"STARTING", "DISCONNECTING"}) THEN "READY" ELSE iface.state
        /\ iface'.ptr = iface.ptr
    BY <2>1, StepCore
  <2> QED
    BY <1>6, <2>1, <2>2 DEF Gone_mxb, Stage_mxb, Idle_mxb, Idle, In, HasNetif, Linked
<1>7. ~Idle_mxb
  BY <1>0 DEF Idle_mxb, Idle
<1> QED
  BY <1>1, <1>2, <1>3, <1>4, <1>5, <1>6, <1>7 DEF Stage_mxb

\* And one that fails.
LEMMA Fails_mxb ==
  ASSUME Patient, Types, AppStep, StepFails, Stage_mxb, driver = "mxb"
  PROVE  Stage_mxb'
<1>0. /\ todo # << >> /\ todo' = << >> /\ failed' = TRUE /\ iface' = iface
      /\ Head(todo) \in MayFail \ {"leave", "power down"} /\ (Head(todo) = "ip_connect"
           => ~HasNetif)
      /\ \A step, rest : Begins(todo, step, rest) => Head(todo) = step
  BY StepEffect DEF StepFails, Fails, Begins, Patient
<1>1. ~Stops_mxb /\ ~Gives_mxb /\ ~Gone_mxb /\ ~Links_mxb
  BY ZenonT(60), <1>0, Plans_mxb, StepKinds DEF Stops_mxb, Gives_mxb, Gone_mxb, Links_mxb
<1>2. CASE Starts_mxb
  BY <1>0, <1>2 DEF Starts_mxb, Stage_mxb, Idle_mxb, Idle, In, HasNetif, Linked
<1>3. CASE Adds_mxb
  BY <1>0, <1>3 DEF Adds_mxb, Stage_mxb, Idle_mxb, Idle, In, HasNetif, Linked
<1>4. ~Idle_mxb
  BY <1>0 DEF Idle_mxb, Idle
<1> QED
  BY <1>1, <1>2, <1>3, <1>4 DEF Stage_mxb

\* A command of the application on mxb.
LEMMA Command_mxb ==
  ASSUME Patient, Types, driver = "mxb", Stage_mxb, NEW c \in DOMAIN Expected, Command(c)
  PROVE  Stage_mxb'
<1> USE Functions_mxb
<1>1. Idle_mxb /\ iface'.ptr = iface.ptr /\ failed' = FALSE
  BY CommandEffect, Plans_mxb DEF Stage_mxb, Begins, Idle, Starts_mxb, Stops_mxb, Adds_mxb,
     Links_mxb, Gives_mxb,
     Gone_mxb
<1>2. CASE Commanded("INITIALIZED", "STARTING", "if_start")
  BY <1>1, <1>2 DEF Commanded, Idle_mxb, Stage_mxb, Starts_mxb, In, HasNetif, Linked
<1>3. CASE Commanded("STARTING", "INITIALIZED", "if_stop")
        \/ Commanded("READY", "STOPPING", "if_stop")
  BY <1>1, <1>3 DEF Commanded, Idle_mxb, Stage_mxb, Stops_mxb, In, HasNetif, Linked
<1>4. CASE Commanded("READY", "CONNECTING", "if_connect")
  BY <1>1, <1>4 DEF Commanded, Idle_mxb, Stage_mxb, Adds_mxb, In, HasNetif, Linked
<1>5. CASE Commanded("CONNECTING", "READY", "none") /\ (failed \/ driver \in Impatient)
  BY <1>1, <1>5 DEF Commanded, Patient, Idle_mxb, Stage_mxb, Idle, In, HasNetif, Linked
<1>6. CASE Commanded("CONNECTED", "DISCONNECTING", "if_disconnect")
  BY <1>1, <1>6 DEF Commanded, Idle_mxb, Stage_mxb, Gives_mxb, In, HasNetif, Linked
<1> QED
  BY <1>2, <1>3, <1>4, <1>5, <1>6, CommandEffect

\* mxb stays in its stages.
LEMMA StageStep_mxb ==
  ASSUME Patient, Types, driver = "mxb", linkNetif = NONE, Stage_mxb, [Next]_vars
  PROVE  Stage_mxb'
<1>0. iface \in Interface /\ iface.state \in NET_STATES
  BY DEF Types, Interface
<1>1. CASE UNCHANGED vars
  BY <1>1 DEF vars, Stage_mxb, Idle_mxb, Starts_mxb, Stops_mxb, Adds_mxb, Links_mxb, Gives_mxb,
     Gone_mxb, Idle, In,
     HasNetif
<1>2. CASE Listening
  <2>1. UNCHANGED << todo, failed >> /\ Heard(iface, iface')
        /\ (~HasNetif /\ In({"CONNECTING"}) => iface'.state = "CONNECTING")
    BY <1>2, ListenEffect
  <2>2. CASE Idle_mxb
    BY <2>1, <2>2 DEF Stage_mxb, Idle_mxb, Idle, In, HasNetif, Heard, Linked
  <2>3. CASE Starts_mxb
    BY <2>1, <2>3 DEF Stage_mxb, Starts_mxb, In, HasNetif, Heard, Linked
  <2>4. CASE Stops_mxb
    BY <2>1, <2>4 DEF Stage_mxb, Stops_mxb, In, HasNetif, Heard, Linked
  <2>5. CASE Adds_mxb
    BY <2>1, <2>5 DEF Stage_mxb, Adds_mxb, In, HasNetif, Heard, Linked
  <2>6. CASE Links_mxb
    BY <2>1, <2>6 DEF Stage_mxb, Links_mxb, In, HasNetif, Heard, Linked
  <2>7. CASE Gives_mxb
    BY <2>1, <2>7 DEF Stage_mxb, Gives_mxb, In, HasNetif, Heard, Linked
  <2>8. CASE Gone_mxb
    BY <2>1, <2>8 DEF Stage_mxb, Gone_mxb, In, HasNetif, Heard, Linked
  <2> QED
    BY <2>2, <2>3, <2>4, <2>5, <2>6, <2>7, <2>8 DEF Stage_mxb
<1>3. CASE AppStep
  BY <1>3, StepEffect, GoesOn_mxb, Fails_mxb
<1>4. CASE NetIfInit \/ Configure \/ NetIfDeinit
  <2>1. UNCHANGED << todo, failed >> /\ Idle /\ In({"DEINITIALIZED", "INITIALIZED"})
    BY <1>4 DEF NetIfInit, Configure, NetIfDeinit, In
  <2>2. iface'.state \in {"DEINITIALIZED", "INITIALIZED"} /\ iface'.ptr = iface.ptr
    BY <1>0, <1>4 DEF NetIfInit, Configure, NetIfDeinit, Interface
  <2>3. Idle_mxb
    BY <2>1, Plans_mxb DEF Stage_mxb, Begins, Idle, Starts_mxb, Stops_mxb, Adds_mxb, Links_mxb,
       Gives_mxb, Gone_mxb
  <2> QED
    BY <2>1, <2>2, <2>3 DEF Stage_mxb, Idle_mxb, Idle, In, HasNetif, Linked
<1>5. CASE \E c \in DOMAIN Expected : Command(c)
  BY <1>5, Command_mxb
<1>6. ~SwitchMode
  BY DEF SwitchMode
<1> QED
  BY <1>1, <1>2, <1>3, <1>4, <1>5, <1>6 DEF Next, Listening, AppCall

-----------------------------------------------------------------------------
\* cypress_wifi: the lwIP interface lives from start to stop.
Start_cy    == << "join", "add_if", "ready", "link_up" >>
Add_cy      == << "add_if", "ready", "link_up" >>
Ready_cy    == << "ready", "link_up" >>
Up_cy       == << "link_up" >>
Release_cy  == << "ip_disconnect", "ready" >>
Stop_cy     == << "remove_if", "initialized", "leave" >>
Stopped_cy  == << "initialized", "leave" >>
Leave_cy    == << "leave" >>
ToSta_1     == << "leave", "join", "sta" >>
ToSta_2     == << "join", "sta" >>
ToSta_3     == << "sta" >>
ToAp_1      == << "link_down", "leave", "join", "ready", "link_up", "ap" >>
ToAp_2      == << "leave", "join", "ready", "link_up", "ap" >>
ToAp_3      == << "join", "ready", "link_up", "ap" >>
ToAp_4      == << "ready", "link_up", "ap" >>
ToAp_5      == << "link_up", "ap" >>
ToAp_6      == << "ap" >>
Switches    == {ToSta_1, ToSta_2, ToSta_3, ToAp_1, ToAp_2, ToAp_3, ToAp_4, ToAp_5, ToAp_6}

\* How the plans of cy go on.
LEMMA Plans_cy ==
  /\ Begins(Start_cy, "join", Add_cy) /\ Begins(Add_cy, "add_if", Ready_cy)
  /\ Begins(Ready_cy, "ready", Up_cy) /\ Begins(Up_cy, "link_up", << >>)
  /\ Begins(Connects, "ip_connect", << >>)
  /\ Begins(Release_cy, "ip_disconnect", Readies) /\ Begins(Readies, "ready", << >>)
  /\ Begins(Stop_cy, "remove_if", Stopped_cy) /\ Begins(Stopped_cy, "initialized", Leave_cy)
  /\ Begins(Leave_cy, "leave", << >>)
  /\ Begins(ToSta_1, "leave", ToSta_2) /\ Begins(ToSta_2, "join", ToSta_3)
  /\ Begins(ToSta_3, "sta", << >>)
  /\ Begins(ToAp_1, "link_down", ToAp_2) /\ Begins(ToAp_2, "leave", ToAp_3)
  /\ Begins(ToAp_3, "join", ToAp_4)
  /\ Begins(ToAp_4, "ready", ToAp_5) /\ Begins(ToAp_5, "link_up", ToAp_6)
  /\ Begins(ToAp_6, "ap", << >>)
<1>1. /\ Begins(Start_cy, "join", Add_cy) /\ Begins(Add_cy, "add_if", Ready_cy)
      /\ Begins(Ready_cy, "ready", Up_cy) /\ Begins(Up_cy, "link_up", << >>)
  BY Begin1, Begin2, Begin3, Begin4, Zenon DEF Start_cy, Add_cy, Ready_cy, Up_cy
<1>2. /\ Begins(Release_cy, "ip_disconnect", Readies)
      /\ Begins(Stop_cy, "remove_if", Stopped_cy) /\ Begins(Stopped_cy, "initialized", Leave_cy)
      /\ Begins(Leave_cy, "leave", << >>)
  BY Begin1, Begin2, Begin3, Zenon DEF Release_cy, Readies, Stop_cy, Stopped_cy, Leave_cy
<1>3. Begins(ToSta_1, "leave", ToSta_2) /\ Begins(ToSta_2, "join", ToSta_3)
        /\ Begins(ToSta_3, "sta", << >>)
  BY Begin1, Begin2, Begin3, Zenon DEF ToSta_1, ToSta_2, ToSta_3
<1>4. Begins(ToAp_1, "link_down", ToAp_2) /\ Begins(ToAp_2, "leave", ToAp_3)
        /\ Begins(ToAp_3, "join", ToAp_4)
  BY Begin4, Begin5, Begin6, Zenon DEF ToAp_1, ToAp_2, ToAp_3, ToAp_4
<1>5. Begins(ToAp_4, "ready", ToAp_5) /\ Begins(ToAp_5, "link_up", ToAp_6)
        /\ Begins(ToAp_6, "ap", << >>)
  BY Begin1, Begin2, Begin3, Zenon DEF ToAp_4, ToAp_5, ToAp_6
<1> QED
  BY <1>1, <1>2, <1>3, <1>4, <1>5, Plans_mxb

\* What is left when a step of a switch of the mode is made is a switch of the mode, or nothing.
LEMMA Plans_Switch ==
  ASSUME NEW plan \in Switches
  PROVE  /\ plan # << >> /\ Tail(plan) \in Switches \cup {<< >>}
         /\ Head(plan) \in {"leave", "join", "sta", "ap", "ready", "link_up", "link_down"}
<1> DEFINE first == {"leave", "join", "sta", "ap", "ready", "link_up", "link_down"}
<1>1. \A step \in first, rest \in Switches \cup {<< >>} :
        Begins(plan, step, rest) => /\ plan # << >> /\ Tail(plan) \in Switches \cup {<< >>}
                                    /\ Head(plan) \in first
  BY DEF Begins
<1>2. << >> \in Switches \cup {<< >>}
  OBVIOUS
<1>3. CASE plan \in {ToSta_1, ToSta_2, ToSta_3}
  <2>1. ToSta_2 \in Switches /\ ToSta_3 \in Switches
    BY DEF Switches
  <2> QED
    BY <1>1, <1>2, <1>3, <2>1, Plans_cy
<1>4. CASE plan \in {ToAp_1, ToAp_2, ToAp_3, ToAp_4, ToAp_5, ToAp_6}
  <2>1. ToAp_2 \in Switches /\ ToAp_3 \in Switches /\ ToAp_4 \in Switches /\ ToAp_5 \in Switches
        /\ ToAp_6 \in Switches
    BY DEF Switches
  <2> QED
    BY <1>1, <1>2, <1>4, <2>1, Plans_cy
<1> QED
  BY <1>3, <1>4 DEF Switches

\* The functions of cy are its plans.
LEMMA Functions_cy ==
  driver = "cy" => /\ Functions[driver]["if_start"] = Start_cy
                   /\ Functions[driver]["if_stop"] = Stop_cy
                   /\ Functions[driver]["if_connect"] = Connects
                   /\ Functions[driver]["if_disconnect"] = Release_cy
<1> SUFFICES ASSUME driver = "cy"
             PROVE  /\ Functions[driver]["if_start"] = Start_cy
                    /\ Functions[driver]["if_stop"] = Stop_cy
                    /\ Functions[driver]["if_connect"] = Connects
                    /\ Functions[driver]["if_disconnect"] = Release_cy
  OBVIOUS
<1>1. Functions["cy"] =
        [ if_start      |-> IF mode = "sta" THEN net_cypress_whd_if_start_sta
            ELSE net_cypress_whd_if_start_ap,
          if_stop       |-> net_cypress_whd_if_stop,
          if_connect    |-> net_cypress_whd_if_connect,
          if_disconnect |-> net_cypress_whd_if_disconnect ]
  BY DEF Functions
<1>2. /\ net_cypress_whd_if_start_sta = Start_cy /\ net_cypress_whd_if_start_ap = Start_cy
      /\ net_cypress_whd_if_stop = Stop_cy
      /\ net_cypress_whd_if_connect = Connects /\ net_cypress_whd_if_disconnect = Release_cy
  BY DEF net_cypress_whd_if_start_sta, net_cypress_whd_if_start_ap, net_cypress_whd_if_stop,
     net_cypress_whd_if_connect, net_cypress_whd_if_disconnect, Start_cy, Stop_cy, Connects,
         Release_cy
<1> QED
  BY <1>1, <1>2

Idle_cy ==
  /\ Idle
  /\ \/ In({"DEINITIALIZED", "INITIALIZED", "STARTING"}) /\ ~HasNetif
     \/ In({"READY"} \cup Linked) /\ HasNetif

Starts_cy   == todo \in {Start_cy, Add_cy} /\ In({"STARTING"}) /\ ~HasNetif
Readies_cy  == todo = Ready_cy /\ In({"STARTING"}) /\ HasNetif
Ups_cy      == todo = Up_cy /\ In({"READY"}) /\ HasNetif
Connects_cy == todo = Connects /\ In(Linked) /\ HasNetif
Gives_cy    == todo \in {Release_cy, Readies} /\ In({"DISCONNECTING"}) /\ HasNetif
Stops_cy    == todo = Stop_cy /\ In({"STOPPING", "INITIALIZED"})
Gone_cy     == todo = Stopped_cy /\ In({"STOPPING", "INITIALIZED"}) /\ ~HasNetif
Leaves_cy   == todo = Leave_cy /\ In({"INITIALIZED"}) /\ ~HasNetif
Switches_cy == todo \in Switches /\ In({"READY"} \cup Linked) /\ HasNetif

Stage_cy ==
  \/ Idle_cy \/ Starts_cy \/ Readies_cy \/ Ups_cy \/ Connects_cy \/ Gives_cy \/ Stops_cy
  \/ Gone_cy \/ Leaves_cy
  \/ Switches_cy

\* An idle cy is one without a plan.
LEMMA NotIdle_cy ==
  ASSUME Stage_cy PROVE (todo = << >>) = Idle_cy
  BY ZenonT(60), Plans_cy, Plans_Switch DEF Stage_cy, Begins, Idle_cy, Idle, Starts_cy, Readies_cy, Ups_cy,
     Connects_cy, Gives_cy,
     Stops_cy, Gone_cy, Leaves_cy, Switches_cy

\* A step in a function of cy that succeeds.
LEMMA GoesOn_cy ==
  ASSUME Types, AppStep, Goes, StepMakes, Stage_cy
  PROVE  Stage_cy'
<1>0. /\ todo # << >> /\ todo' = Tail(todo)
      /\ \A step, rest : Begins(todo, step, rest) => Head(todo) = step /\ todo' = rest
  BY StepEffect DEF Goes, Begins
<1>1. CASE Starts_cy /\ todo = Start_cy
  <2>1. Head(todo) \in Aside /\ todo' = Add_cy
    BY <1>0, <1>1, Plans_cy, StepKinds
  <2>2. iface' = iface
    BY <2>1, StepCore
  <2> QED
    BY <1>1, <2>1, <2>2 DEF Starts_cy, Stage_cy, In, HasNetif
<1>2. CASE Starts_cy /\ todo = Add_cy
  <2>1. Head(todo) = "add_if" /\ todo' = Ready_cy
    BY <1>0, <1>2, Plans_cy
  <2>2. iface'.state = iface.state /\ HasNetif'
    BY <2>1, StepCore
  <2> QED
    BY <1>2, <2>1, <2>2 DEF Starts_cy, Readies_cy, Stage_cy, In
<1>3. CASE Readies_cy
  <2>1. Head(todo) = "ready" /\ todo' = Up_cy
    BY <1>0, <1>3, Plans_cy DEF Readies_cy
  <2>2. /\ iface'.state = IF In({"STARTING", "DISCONNECTING"}) THEN "READY" ELSE iface.state
        /\ iface'.ptr = iface.ptr
    BY <2>1, StepCore
  <2> QED
    BY <1>3, <2>1, <2>2 DEF Readies_cy, Ups_cy, Stage_cy, In, HasNetif
<1>4. CASE Ups_cy \/ Connects_cy
  <2>1. Head(todo) \in {"link_up", "ip_connect"} /\ todo' = << >>
    BY <1>0, <1>4, Plans_cy DEF Ups_cy, Connects_cy
  <2>2. Follows(iface, iface') /\ iface'.ptr = iface.ptr
    BY <2>1, StepCore
  <2> QED
    BY <1>4, <2>1, <2>2 DEF Ups_cy, Connects_cy, Stage_cy, Idle_cy, Idle, In, HasNetif,
       Follows, Linked
<1>5. CASE Gives_cy /\ todo = Release_cy
  <2>1. Head(todo) = "ip_disconnect" /\ todo' = Readies
    BY <1>0, <1>5, Plans_cy
  <2>2. Follows(iface, iface') /\ iface'.ptr = iface.ptr
    BY <2>1, StepCore
  <2> QED
    BY <1>5, <2>1, <2>2 DEF Gives_cy, Stage_cy, In, HasNetif, Follows, Linked
<1>6. CASE Gives_cy /\ todo = Readies
  <2>1. Head(todo) = "ready" /\ todo' = << >>
    BY <1>0, <1>6, Plans_cy
  <2>2. /\ iface'.state = IF In({"STARTING", "DISCONNECTING"}) THEN "READY" ELSE iface.state
        /\ iface'.ptr = iface.ptr
    BY <2>1, StepCore
  <2> QED
    BY <1>6, <2>1, <2>2 DEF Gives_cy, Stage_cy, Idle_cy, Idle, In, HasNetif
<1>7. CASE Stops_cy
  <2>1. Head(todo) = "remove_if" /\ todo' = Stopped_cy
    BY <1>0, <1>7, Plans_cy DEF Stops_cy
  <2>2. Follows(iface, iface') /\ ~HasNetif'
    BY <2>1, StepCore
  <2> QED
    BY <1>7, <2>1, <2>2 DEF Stops_cy, Gone_cy, Stage_cy, In, Follows, Linked
<1>8. CASE Gone_cy
  <2>1. Head(todo) = "initialized" /\ todo' = Leave_cy
    BY <1>0, <1>8, Plans_cy DEF Gone_cy
  <2>2. /\ iface'.state = IF In({"STOPPING"}) THEN "INITIALIZED" ELSE iface.state
        /\ iface'.ptr = iface.ptr
    BY <2>1, StepCore
  <2> QED
    BY <1>8, <2>1, <2>2 DEF Gone_cy, Leaves_cy, Stage_cy, In, HasNetif
<1>9. CASE Leaves_cy
  <2>1. Head(todo) \in Aside /\ todo' = << >>
    BY <1>0, <1>9, Plans_cy, StepKinds DEF Leaves_cy
  <2>2. iface' = iface
    BY <2>1, StepCore
  <2> QED
    BY <1>9, <2>1, <2>2 DEF Leaves_cy, Stage_cy, Idle_cy, Idle, In, HasNetif
<1>10. CASE Switches_cy
  <2>1. todo' \in Switches \cup {<< >>}
        /\ Head(todo) \in {"leave", "join", "sta", "ap", "ready", "link_up", "link_down"}
    BY <1>0, <1>10, Plans_Switch DEF Switches_cy
  <2>2. iface'.ptr = iface.ptr /\ (In({"READY"} \cup Linked)
          => iface'.state \in {"READY"} \cup Linked)
    <3>1. CASE Head(todo) = "ready"
      BY <3>1, StepCore DEF In, Linked
    <3>2. CASE Head(todo) \in {"link_up", "link_down"}
      BY <3>2, StepCore DEF In, Linked, Follows
    <3>3. CASE Head(todo) \in {"leave", "join", "sta", "ap"}
      <4>1. Head(todo) \in Aside
        BY <3>3, StepKinds
      <4> QED
        BY <4>1, StepCore DEF In
    <3> QED
      BY <2>1, <3>1, <3>2, <3>3
  <2> QED
    BY <1>10, <2>1, <2>2 DEF Switches_cy, Stage_cy, Idle_cy, Idle, In, HasNetif
<1>11. ~Idle_cy
  BY <1>0 DEF Idle_cy, Idle
<1> QED
  BY <1>1, <1>2, <1>3, <1>4, <1>5, <1>6, <1>7, <1>8, <1>9, <1>10, <1>11 DEF Stage_cy,
     Starts_cy, Gives_cy

\* And one that fails.
LEMMA Fails_cy ==
  ASSUME Types, AppStep, StepFails, Stage_cy, driver = "cy"
  PROVE  Stage_cy'
<1>0. /\ todo # << >> /\ todo' = << >> /\ iface' = iface
      /\ Head(todo) \in MayFail \ {"leave"}
      /\ \A step, rest : Begins(todo, step, rest) => Head(todo) = step
  BY StepEffect DEF StepFails, Fails, Begins
<1>1. ~Readies_cy /\ ~Ups_cy /\ ~Gives_cy /\ ~Stops_cy /\ ~Gone_cy /\ ~Leaves_cy
  BY <1>0, Plans_cy, StepKinds DEF Readies_cy, Ups_cy, Gives_cy, Stops_cy, Gone_cy, Leaves_cy
<1>2. CASE Starts_cy
  BY <1>0, <1>2 DEF Starts_cy, Stage_cy, Idle_cy, Idle, In, HasNetif
<1>3. CASE Switches_cy
  BY <1>0, <1>3 DEF Switches_cy, Stage_cy, Idle_cy, Idle, In, HasNetif
<1>4. CASE Connects_cy
  BY <1>0, <1>4 DEF Connects_cy, Stage_cy, Idle_cy, Idle, In, HasNetif
<1>5. ~Idle_cy
  BY <1>0 DEF Idle_cy, Idle
<1> QED
  BY <1>1, <1>2, <1>3, <1>4, <1>5 DEF Stage_cy

\* A command of the application on cy.
LEMMA Command_cy ==
  ASSUME Types, driver = "cy", Stage_cy, NEW c \in DOMAIN Expected, Command(c)
  PROVE  Stage_cy'
<1> USE Functions_cy
<1>1. Idle_cy /\ iface'.ptr = iface.ptr
  BY CommandEffect, NotIdle_cy DEF Idle
<1>2. CASE Commanded("INITIALIZED", "STARTING", "if_start")
  BY <1>1, <1>2 DEF Commanded, Idle_cy, Stage_cy, Starts_cy, In, HasNetif, Linked
<1>3. CASE Commanded("STARTING", "INITIALIZED", "if_stop")
        \/ Commanded("READY", "STOPPING", "if_stop")
  BY <1>1, <1>3 DEF Commanded, Stage_cy, Stops_cy, In
<1>4. CASE Commanded("READY", "CONNECTING", "if_connect")
  BY <1>1, <1>4 DEF Commanded, Idle_cy, Stage_cy, Connects_cy, In, HasNetif, Linked
<1>5. CASE Commanded("CONNECTING", "READY", "none")
  BY <1>1, <1>5 DEF Commanded, Idle_cy, Stage_cy, Idle, In, HasNetif, Linked
<1>6. CASE Commanded("CONNECTED", "DISCONNECTING", "if_disconnect")
  BY <1>1, <1>6 DEF Commanded, Idle_cy, Stage_cy, Gives_cy, In, HasNetif, Linked
<1> QED
  BY <1>2, <1>3, <1>4, <1>5, <1>6, CommandEffect

\* cy stays in its stages.
LEMMA StageStep_cy ==
  ASSUME Types, driver = "cy", Stage_cy, [Next]_vars
  PROVE  Stage_cy'
<1>0. iface \in Interface /\ iface.state \in NET_STATES
  BY DEF Types, Interface
<1>1. CASE UNCHANGED << todo, iface.ptr >> /\ Follows(iface, iface')
  <2>1. \A S : (S \cap Linked = {} \/ Linked \subseteq S) => (In(S) => iface'.state \in S)
    BY <1>1 DEF In, Follows
  <2> QED
    BY <1>1, <2>1 DEF Stage_cy, Idle_cy, Idle, Starts_cy, Readies_cy, Ups_cy, Connects_cy,
       Gives_cy, Stops_cy, Gone_cy,
       Leaves_cy, Switches_cy, In, HasNetif, Linked
<1>2. CASE UNCHANGED vars
  BY <1>1, <1>2 DEF vars, Follows
<1>3. CASE Listening
  BY <1>1, <1>3, ListenEffect DEF Heard
<1>4. CASE AppStep
  BY <1>4, StepEffect, GoesOn_cy, Fails_cy
<1>5. CASE NetIfInit \/ Configure \/ NetIfDeinit
  <2>1. todo' = todo /\ Idle /\ In({"DEINITIALIZED", "INITIALIZED"})
    BY <1>5 DEF NetIfInit, Configure, NetIfDeinit, In
  <2>2. iface'.state \in {"DEINITIALIZED", "INITIALIZED"} /\ iface'.ptr = iface.ptr
    BY <1>0, <1>5 DEF NetIfInit, Configure, NetIfDeinit, Interface
  <2>3. Idle_cy
    BY <2>1, NotIdle_cy DEF Idle
  <2> QED
    BY <2>1, <2>2, <2>3 DEF Stage_cy, Idle_cy, Idle, In, HasNetif, Linked
<1>6. CASE \E c \in DOMAIN Expected : Command(c)
  BY <1>6, Command_cy
<1>7. CASE SwitchMode
  <2>1. todo = << >> /\ iface' = iface /\ In({"READY", "CONNECTED"})
          /\ todo' = net_cypress_whd_id_switch_mode
    BY <1>7 DEF SwitchMode, Idle, In
  <2>2. Idle_cy
    BY <2>1, NotIdle_cy
  <2>3. net_cypress_whd_id_switch_mode \in Switches
    BY DEF net_cypress_whd_id_switch_mode, Switches, ToSta_1, ToAp_1
  <2> QED
    BY <2>1, <2>2, <2>3 DEF Stage_cy, Idle_cy, Switches_cy, In, HasNetif, Linked
<1> QED
  BY <1>2, <1>3, <1>4, <1>5, <1>6, <1>7 DEF Next, Listening, AppCall

-----------------------------------------------------------------------------
\* st_wifi: the lwIP interface is made by start and stays.
StartSta_st == << PowerUpStep, "add_if", "ready" >>
AddSta_st   == << "add_if", "ready" >>
StartAp_st  == << PowerUpStep, "add_if" >>
AddAp_st    == << "add_if" >>
Starting_st == {StartSta_st, AddSta_st, StartAp_st, AddAp_st}
Stop_st     == << PowerDownStep, "initialized" >>
Connect_st  == << "ask", "ip_connect" >>
Leave_st    == << "leave", "ready" >>

\* How the plans of st go on.
LEMMA Plans_st ==
  /\ Begins(StartSta_st, PowerUpStep, AddSta_st) /\ Begins(AddSta_st, "add_if", Readies)
  /\ Begins(StartAp_st, PowerUpStep, AddAp_st) /\ Begins(AddAp_st, "add_if", << >>)
  /\ Begins(Stop_st, PowerDownStep, Ends) /\ Begins(Ends, "initialized", << >>)
  /\ Begins(Connect_st, "ask", Connects) /\ Begins(Connects, "ip_connect", << >>)
  /\ Begins(Leave_st, "leave", Readies) /\ Begins(Readies, "ready", << >>)
<1>1. /\ Begins(StartSta_st, PowerUpStep, AddSta_st) /\ Begins(AddSta_st, "add_if", Readies)
      /\ Begins(StartAp_st, PowerUpStep, AddAp_st) /\ Begins(AddAp_st, "add_if", << >>)
  BY Begin1, Begin2, Begin3, Zenon DEF StartSta_st, AddSta_st, StartAp_st, AddAp_st, Readies
<1>2. /\ Begins(Stop_st, PowerDownStep, Ends)
      /\ Begins(Connect_st, "ask", Connects) /\ Begins(Leave_st, "leave", Readies)
  BY Begin1, Begin2, Begin3, Zenon DEF Stop_st, Ends, Connect_st, Connects, Leave_st, Readies
<1> QED
  BY <1>1, <1>2, Plans_mxb

\* The functions of st are its plans.
LEMMA Functions_st ==
  driver = "st" => /\ Functions[driver]["if_start"] \in {StartSta_st, StartAp_st}
                   /\ Functions[driver]["if_stop"] = Stop_st
                   /\ Functions[driver]["if_connect"] = Connect_st
                   /\ Functions[driver]["if_disconnect"] = Leave_st
<1> SUFFICES ASSUME driver = "st"
             PROVE  /\ Functions[driver]["if_start"] \in {StartSta_st, StartAp_st}
                    /\ Functions[driver]["if_stop"] = Stop_st
                    /\ Functions[driver]["if_connect"] = Connect_st
                    /\ Functions[driver]["if_disconnect"] = Leave_st
  OBVIOUS
<1>1. Functions["st"] = [ if_start |-> st_wifi_if_start, if_stop |-> st_wifi_if_stop,
             if_connect |-> st_wifi_if_connect, if_disconnect |-> st_wifi_if_disconnect ]
  BY DEF Functions
<1>2. st_wifi_if_start \in {StartSta_st, StartAp_st}
  BY Zenon DEF st_wifi_if_start, StartSta_st, StartAp_st, PowerUpStep
<1>3. st_wifi_if_stop = Stop_st
  BY Zenon DEF st_wifi_if_stop, Stop_st, PowerDownStep
<1>4. st_wifi_if_connect = Connect_st /\ st_wifi_if_disconnect = Leave_st
  BY DEF st_wifi_if_connect, st_wifi_if_disconnect, Connect_st, Leave_st
<1> QED
  BY <1>1, <1>2, <1>3, <1>4

Idle_st ==
  /\ Idle
  /\ HasNetif \/ In({"DEINITIALIZED", "INITIALIZED", "STOPPING"})
       \/ (failed /\ In({"STARTING", "READY"}))

Starts_st   == todo \in Starting_st /\ In({"STARTING", "READY"})
Readies_st  == todo = Readies /\ In({"STARTING", "READY", "DISCONNECTING"}) /\ HasNetif
Stops_st    == todo \in {Stop_st, Ends} /\ In({"STOPPING", "INITIALIZED"})
Connects_st == todo \in {Connect_st, Connects} /\ In(Linked) /\ HasNetif
Leaves_st   == todo = Leave_st /\ In({"DISCONNECTING", "READY"}) /\ HasNetif

Stage_st == Idle_st \/ Starts_st \/ Readies_st \/ Stops_st \/ Connects_st \/ Leaves_st

\* An idle st is one without a plan.
LEMMA NotIdle_st ==
  ASSUME Stage_st PROVE (todo = << >>) = Idle_st
  BY Plans_st DEF Stage_st, Begins, Idle_st, Idle, Starts_st, Starting_st, Readies_st,
     Stops_st, Connects_st, Leaves_st

\* A step in a function of st that succeeds.
LEMMA GoesOn_st ==
  ASSUME Types, AppStep, Goes, StepMakes, Stage_st
  PROVE  Stage_st'
<1>0. /\ todo # << >> /\ todo' = Tail(todo)
      /\ \A step, rest : Begins(todo, step, rest) => Head(todo) = step /\ todo' = rest
  BY StepEffect DEF Goes, Begins
<1>1. CASE Starts_st /\ todo \in {StartSta_st, StartAp_st}
  <2>1. Head(todo) \in Aside /\ todo' \in {AddSta_st, AddAp_st}
    BY <1>0, <1>1, Plans_st, StepKinds
  <2>2. iface' = iface
    BY <2>1, StepCore
  <2> QED
    BY <1>1, <2>1, <2>2 DEF Starts_st, Starting_st, Stage_st, In
<1>2. CASE Starts_st /\ todo \in {AddSta_st, AddAp_st}
  <2>1. Head(todo) = "add_if" /\ todo' \in {Readies, << >>}
    BY <1>0, <1>2, Plans_st
  <2>2. iface'.state = iface.state /\ HasNetif'
    BY <2>1, StepCore
  <2> QED
    BY <1>2, <2>1, <2>2 DEF Starts_st, Readies_st, Idle_st, Idle, Stage_st, In
<1>3. CASE Readies_st
  <2>1. Head(todo) = "ready" /\ todo' = << >>
    BY <1>0, <1>3, Plans_st DEF Readies_st
  <2>2. iface'.ptr = iface.ptr
    BY <2>1, StepCore
  <2> QED
    BY <1>3, <2>1, <2>2 DEF Readies_st, Idle_st, Idle, Stage_st, HasNetif
<1>4. CASE Stops_st /\ todo = Stop_st
  <2>1. Head(todo) \in Aside /\ todo' = Ends
    BY <1>0, <1>4, Plans_st, StepKinds
  <2>2. iface' = iface
    BY <2>1, StepCore
  <2> QED
    BY <1>4, <2>1, <2>2 DEF Stops_st, Stage_st, In
<1>5. CASE Stops_st /\ todo = Ends
  <2>1. Head(todo) = "initialized" /\ todo' = << >>
    BY <1>0, <1>5, Plans_st
  <2>2. iface'.state = IF In({"STOPPING"}) THEN "INITIALIZED" ELSE iface.state
    BY <2>1, StepCore
  <2> QED
    BY <1>5, <2>1, <2>2 DEF Stops_st, Idle_st, Idle, Stage_st, In
<1>6. CASE Connects_st /\ todo = Connect_st
  <2>1. Head(todo) \in Aside /\ todo' = Connects
    BY <1>0, <1>6, Plans_st, StepKinds
  <2>2. iface' = iface
    BY <2>1, StepCore
  <2> QED
    BY <1>6, <2>1, <2>2 DEF Connects_st, Stage_st, In, HasNetif
<1>7. CASE Connects_st /\ todo = Connects
  <2>1. Head(todo) = "ip_connect" /\ todo' = << >>
    BY <1>0, <1>7, Plans_st
  <2>2. iface'.ptr = iface.ptr
    BY <2>1, StepCore
  <2> QED
    BY <1>7, <2>1, <2>2 DEF Connects_st, Stage_st, Idle_st, Idle, HasNetif
<1>8. CASE Leaves_st
  <2>1. Head(todo) \in Aside /\ todo' = Readies
    BY <1>0, <1>8, Plans_st, StepKinds DEF Leaves_st
  <2>2. iface' = iface
    BY <2>1, StepCore
  <2> QED
    BY <1>8, <2>1, <2>2 DEF Leaves_st, Readies_st, Stage_st, In, HasNetif
<1>9. ~Idle_st
  BY <1>0 DEF Idle_st, Idle
<1> QED
  BY <1>1, <1>2, <1>3, <1>4, <1>5, <1>6, <1>7, <1>8, <1>9 DEF Stage_st, Starts_st, Starting_st,
     Stops_st, Connects_st

\* And one that fails.
LEMMA Fails_st ==
  ASSUME Types, AppStep, StepFails, Stage_st
  PROVE  Stage_st'
<1>0. /\ todo # << >> /\ todo' = << >> /\ iface' = iface /\ failed' = TRUE
      /\ Head(todo) \in MayFail
      /\ \A step, rest : Begins(todo, step, rest) => Head(todo) = step
  BY StepEffect DEF StepFails, Fails, Begins
<1>1. ~(Stops_st /\ todo = Ends)
  BY <1>0, Plans_st, StepKinds
<1>2. CASE Starts_st
  BY <1>0, <1>2 DEF Starts_st, Stage_st, Idle_st, Idle, In
<1>3. CASE Stops_st /\ todo = Stop_st
  BY <1>0, <1>3 DEF Stops_st, Stage_st, Idle_st, Idle, In
<1>4. CASE Readies_st \/ Connects_st \/ Leaves_st
  BY <1>0, <1>4 DEF Readies_st, Connects_st, Leaves_st, Stage_st, Idle_st, Idle, HasNetif
<1>5. ~Idle_st
  BY <1>0 DEF Idle_st, Idle
<1> QED
  BY <1>1, <1>2, <1>3, <1>4, <1>5 DEF Stage_st, Stops_st

\* A command of the application on st.
LEMMA Command_st ==
  ASSUME Types, driver = "st", Stage_st, NEW c \in DOMAIN Expected, Command(c)
  PROVE  Stage_st'
<1> USE Functions_st
<1>1. Idle_st /\ iface'.ptr = iface.ptr
  BY CommandEffect, NotIdle_st DEF Idle
<1>2. CASE Commanded("INITIALIZED", "STARTING", "if_start")
  BY <1>1, <1>2 DEF Commanded, Stage_st, Starts_st, Starting_st, In
<1>3. CASE Commanded("STARTING", "INITIALIZED", "if_stop")
        \/ Commanded("READY", "STOPPING", "if_stop")
  BY <1>1, <1>3 DEF Commanded, Stage_st, Stops_st, In
<1>4. CASE Commanded("READY", "CONNECTING", "if_connect") /\ ~failed
  BY <1>1, <1>4 DEF Commanded, Idle_st, Stage_st, Connects_st, In, HasNetif, Linked
<1>5. CASE Commanded("CONNECTING", "READY", "none")
  BY <1>1, <1>5 DEF Commanded, Idle_st, Stage_st, Idle, In, HasNetif
<1>6. CASE Commanded("CONNECTED", "DISCONNECTING", "if_disconnect")
  BY <1>1, <1>6 DEF Commanded, Idle_st, Stage_st, Leaves_st, In, HasNetif
<1> QED
  BY <1>2, <1>3, <1>4, <1>5, <1>6, CommandEffect

\* st stays in its stages.
LEMMA StageStep_st ==
  ASSUME Types, driver = "st", Stage_st, [Next]_vars
  PROVE  Stage_st'
<1>0. iface \in Interface /\ iface.state \in NET_STATES
  BY DEF Types, Interface
<1>1. CASE UNCHANGED << todo, failed >> /\ Heard(iface, iface')
  BY <1>1 DEF Stage_st, Idle_st, Idle, Starts_st, Readies_st, Stops_st, Connects_st, Leaves_st,
     In, HasNetif, Heard,
     Linked
<1>2. CASE UNCHANGED vars
  BY <1>2 DEF vars, Stage_st, Idle_st, Idle, Starts_st, Readies_st, Stops_st, Connects_st,
     Leaves_st, In, HasNetif
<1>3. CASE Listening
  BY <1>1, <1>3, ListenEffect
<1>4. CASE AppStep
  BY <1>4, StepEffect, GoesOn_st, Fails_st
<1>5. CASE NetIfInit \/ Configure \/ NetIfDeinit
  <2>1. todo' = todo /\ Idle
    BY <1>5 DEF NetIfInit, Configure, NetIfDeinit
  <2>2. iface'.state \in {"DEINITIALIZED", "INITIALIZED"}
    BY <1>0, <1>5 DEF NetIfInit, Configure, NetIfDeinit, Interface
  <2> QED
    BY <2>1, <2>2 DEF Stage_st, Idle_st, Idle, In
<1>6. CASE \E c \in DOMAIN Expected : Command(c)
  BY <1>6, Command_st
<1>7. ~SwitchMode
  BY DEF SwitchMode
<1> QED
  BY <1>2, <1>3, <1>4, <1>5, <1>6, <1>7 DEF Next, Listening, AppCall

-----------------------------------------------------------------------------
\* The stage of the driver: what a command has left to do, the states the interface may
\* be in, and whether it has an lwIP interface. The drivers whose stack is in the module
\* never have one, and only cy has entries.
StageInv ==
  /\ driver \in {"es", "mx"} => ~HasNetif /\ iface.live = {}
  /\ driver # "cy" => linkNetif = NONE /\ netif2ifp = << >>
  /\ driver = "mxb" => Stage_mxb
  /\ driver = "cy" => Stage_cy
  /\ driver = "st" => Stage_st

\* A function of es or mx does not call lwIP.
OnLwipSteps == {"add_if", "remove_if", "link_up", "link_down", "ip_connect", "ip_disconnect"}

\* The drivers whose stack is in the module make no step on lwIP.
LEMMA StepsOnModule ==
  ASSUME Types, AppStep, driver \in {"es", "mx"}
  PROVE  Head(todo) \notin OnLwipSteps
<1>1. Head(todo) \in StepsOf
  BY StepEffect, TodoTypes
<1>2. OnLwipSteps \cap StepsOf = {}
  <2>1. CASE driver = "es"
    <3>1. StepsOf = Steps_es
      BY <2>1 DEF StepsOf
    <3>2. OnLwipSteps \cap Steps_es = {}
      BY Zenon DEF OnLwipSteps, Steps_es
    <3> QED
      BY <3>1, <3>2
  <2>2. CASE driver = "mx"
    <3>1. StepsOf = Steps_mx
      BY <2>2 DEF StepsOf
    <3>2. OnLwipSteps \cap Steps_mx = {}
      BY Zenon DEF OnLwipSteps, Steps_mx
    <3> QED
      BY <3>1, <3>2
  <2> QED
    BY <2>1, <2>2
<1> QED
  BY <1>1, <1>2

\* Only add_if and remove_if change what the interface owns.
LEMMA StepOwns ==
  ASSUME Types, AppStep, StepMakes, Head(todo) \notin {"add_if", "remove_if"}
  PROVE  iface'.ptr = iface.ptr /\ iface'.live = iface.live
<1>1. Head(todo) \in STEPS
  BY StepEffect, TodoTypes, StepNames
<1>2. CASE Head(todo) \in Aside
  BY <1>2, StepCore
<1>3. CASE Head(todo) \in {"ready", "initialized"}
  BY <1>3, StepCore
<1>4. CASE Head(todo) \in {"link_up", "link_down", "ip_connect", "ip_disconnect"}
  BY <1>4, StepCore
<1>5. CASE Head(todo) = OwnStep
  BY <1>5, StepCore, Zenon DEF OwnStep
<1>6. \/ Head(todo) \in Aside \/ Head(todo) \in {"ready", "initialized"} \/ Head(todo) = OwnStep
      \/ Head(todo) \in {"link_up", "link_down", "ip_connect", "ip_disconnect"}
  BY <1>1, Zenon DEF STEPS, Aside, OwnStep
<1> QED
  BY <1>2, <1>3, <1>4, <1>5, <1>6

\* Where a step may take the interface.
LEMMA StepState ==
  ASSUME Types, AppStep, StepMakes
  PROVE  iface'.state \in {iface.state, "READY", "INITIALIZED"} \cup Linked
         /\ (iface'.state \in Linked => iface.state \in Linked \/ Head(todo) = OwnStep)
         /\ (iface'.state = "INITIALIZED" => In({"INITIALIZED", "STOPPING"}))
<1>1. Head(todo) \in STEPS
  BY StepEffect, TodoTypes, StepNames
<1>2. CASE Head(todo) \in Aside
  BY <1>2, StepCore DEF In
<1>3. CASE Head(todo) \in {"ready", "initialized"}
  BY <1>3, StepCore DEF In, Linked
<1>4. CASE Head(todo) \in {"link_up", "link_down", "ip_connect", "ip_disconnect", "remove_if"}
  BY <1>4, StepCore DEF In, Follows, Linked
<1>5. CASE Head(todo) = "add_if"
  BY <1>5, StepCore DEF In
<1>6. CASE Head(todo) = OwnStep
  <2> DEFINE x == [ iface EXCEPT !.ipaddr = OwnAddr ]
  <2>1. iface' = Event(x, "IPADDR")
    BY <1>6, Zenon DEF StepMakes, OwnStep
  <2>2. x \in Interface /\ x.state = iface.state
    BY NetFields DEF Types, OwnAddr, Interface
  <2> HIDE DEF x
  <2> QED
    BY <1>6, <2>1, <2>2, EventEffect, Reacts DEF In, Linked
<1>7. \/ Head(todo) \in Aside \/ Head(todo) \in {"ready", "initialized"} \/ Head(todo) = OwnStep
      \/ Head(todo) \in {"link_up", "link_down", "ip_connect", "ip_disconnect", "remove_if"}
      \/ Head(todo) = "add_if"
  BY <1>1, Zenon DEF STEPS, Aside, OwnStep
<1> QED
  BY <1>2, <1>3, <1>4, <1>5, <1>6, <1>7

\* What the calls of the application that are not commands do to the interface.
LEMMA CallEffect ==
  ASSUME Types, NetIfInit \/ Configure \/ NetIfDeinit \/ SwitchMode
  PROVE  /\ UNCHANGED << iface.ptr, iface.live, iface.net, iface.ipaddr >>
         /\ UNCHANGED << driver, radio, handle, tx, starts, flags, linkNetif >> /\ Idle
         /\ SwitchMode \/ (/\ In({"DEINITIALIZED", "INITIALIZED"}) /\ UNCHANGED << todo, failed >>
                           /\ iface'.state \in {"DEINITIALIZED", "INITIALIZED"})
         /\ SwitchMode => UNCHANGED << iface, netif2ifp, mode, drv >>
         /\ netif2ifp = << >> => netif2ifp' = << >>
<1>1. iface \in Interface
  BY DEF Types
<1>2. CASE NetIfInit \/ Configure \/ NetIfDeinit
  <2>1. /\ UNCHANGED << iface.ptr, iface.live, iface.net, iface.ipaddr >>
        /\ iface'.state \in {"DEINITIALIZED", "INITIALIZED"}
    BY <1>1, <1>2 DEF NetIfInit, Configure, NetIfDeinit, Interface
  <2>2. /\ UNCHANGED << driver, radio, handle, tx, starts, flags, linkNetif, todo, failed >>
        /\ Idle
        /\ In({"DEINITIALIZED", "INITIALIZED"})
    BY <1>2 DEF NetIfInit, Configure, NetIfDeinit, In, cy
  <2>3. netif2ifp = << >> => netif2ifp' = << >>
    BY <1>2 DEF NetIfInit, Configure, NetIfDeinit, cy
  <2>4. ~SwitchMode
    BY <2>2 DEF SwitchMode, In
  <2> QED
    BY <2>1, <2>2, <2>3, <2>4
<1>5. CASE SwitchMode
  BY <1>1, <1>5 DEF SwitchMode, Interface, In, radio, tx, cy
<1> QED
  BY <1>2, <1>5

\* The stages hold at first.
LEMMA StageInit == Init => StageInv
<1> SUFFICES ASSUME Init PROVE StageInv
  OBVIOUS
<1>1. ~HasNetif /\ iface.live = {} /\ In({"DEINITIALIZED"}) /\ Idle /\ linkNetif = NONE
        /\ netif2ifp = << >>
  BY DEF Init, NewInterface, HasNetif, In, Idle
<1>2. Idle_mxb /\ Idle_cy /\ Idle_st
  BY <1>1 DEF Idle_mxb, Idle_cy, Idle_st, In, Linked
<1> QED
  BY <1>1, <1>2 DEF StageInv, Stage_mxb, Stage_cy, Stage_st

\* Every step keeps the stages.
LEMMA StageStep ==
  ASSUME Patient, Types, StageInv, [Next]_vars
  PROVE  StageInv'
<1>1. driver' = driver
  <2>1. CASE UNCHANGED vars
    BY <2>1 DEF vars
  <2>2. CASE AppCall
    BY <2>2, CallEffect, CommandEffect DEF AppCall
  <2>3. CASE AppStep
    BY <2>3, StepEffect
  <2>4. CASE Listening
    BY <2>4, ListenEffect
  <2> QED
    BY <2>1, <2>2, <2>3, <2>4 DEF Next, Listening
<1>2. driver = "mxb" => Stage_mxb'
  BY StageStep_mxb DEF StageInv
<1>3. driver = "cy" => Stage_cy'
  BY StageStep_cy DEF StageInv
<1>4. driver = "st" => Stage_st'
  BY StageStep_st DEF StageInv
<1>5. driver \in {"es", "mx"} => (~HasNetif /\ iface.live = {})'
  <2> SUFFICES ASSUME driver \in {"es", "mx"}
               PROVE  iface'.ptr = iface.ptr /\ iface'.live = iface.live
    BY DEF StageInv, HasNetif
  <2>1. CASE UNCHANGED vars
    BY <2>1 DEF vars
  <2>2. CASE AppCall
    BY <2>2, CallEffect, CommandEffect DEF AppCall
  <2>3. CASE AppStep
    <3>1. CASE StepFails
      BY <3>1 DEF StepFails
    <3>2. CASE StepMakes
      BY <2>3, <3>2, StepsOnModule, StepOwns DEF OnLwipSteps
    <3> QED
      BY <2>3, <3>1, <3>2, StepEffect
  <2>4. CASE Listening
    BY <2>4, ListenEffect DEF Heard
  <2> QED
    BY <2>1, <2>2, <2>3, <2>4 DEF Next, Listening
<1>6. driver # "cy" => (linkNetif = NONE /\ netif2ifp = << >>)'
  <2> SUFFICES ASSUME driver # "cy", linkNetif = NONE, netif2ifp = << >>
               PROVE  (linkNetif = NONE /\ netif2ifp = << >>)'
    BY DEF StageInv
  <2>1. CASE UNCHANGED vars
    BY <2>1 DEF vars
  <2>2. CASE AppCall
    BY <2>2, CallEffect, CommandEffect DEF AppCall, cy
  <2>3. CASE AppStep
    BY <2>3, StepEffect DEF StepFails, StepLeaves, cy
  <2>4. CASE Listening
    BY <2>4, ListenEffect
  <2> QED
    BY <2>1, <2>2, <2>3, <2>4 DEF Next, Listening
<1> QED
  BY <1>1, <1>2, <1>3, <1>4, <1>5, <1>6 DEF StageInv

-----------------------------------------------------------------------------
\* What is known where an lwIP interface is made.
LEMMA WhereAdded ==
  ASSUME Types, StageInv, AppStep, Head(todo) = "add_if"
  PROVE  /\ driver = "mxb" => Adds_mxb
         /\ driver = "cy"  => todo = Add_cy /\ In({"STARTING"}) /\ ~HasNetif
         /\ driver = "st"  => todo \in {AddSta_st, AddAp_st} /\ In({"STARTING", "READY"})
         /\ driver \in {"mxb", "cy", "st"}
<1>0. /\ todo # << >>
      /\ \A step, rest : Begins(todo, step, rest) => step = "add_if"
  BY StepEffect DEF Begins
<1>1. driver = "mxb" => Adds_mxb
  <2>1. ~Idle_mxb /\ ~Starts_mxb /\ ~Links_mxb /\ ~Gives_mxb /\ ~Gone_mxb
    BY <1>0, Plans_mxb DEF Idle_mxb, Idle, Starts_mxb, Links_mxb, Gives_mxb, Gone_mxb
  <2>2. ~Stops_mxb
    <3>1. NoHandle # "add_if"
      BY Zenon DEF NoHandle
    <3> QED
      BY <1>0, <3>1, Plans_mxb DEF Stops_mxb
  <2> QED
    BY <2>1, <2>2 DEF StageInv, Stage_mxb
<1>2. driver = "cy" => todo = Add_cy /\ In({"STARTING"}) /\ ~HasNetif
  <2>1. ~Idle_cy /\ ~Readies_cy /\ ~Ups_cy /\ ~Connects_cy /\ ~Gives_cy /\ ~Stops_cy
          /\ ~Gone_cy /\ ~Leaves_cy
        /\ todo # Start_cy
    BY <1>0, Plans_cy DEF Idle_cy, Idle, Readies_cy, Ups_cy, Connects_cy, Gives_cy, Stops_cy,
       Gone_cy, Leaves_cy
  <2>2. ~Switches_cy
    BY Plans_Switch DEF Switches_cy
  <2> QED
    BY <2>1, <2>2 DEF StageInv, Stage_cy, Starts_cy
<1>3. driver = "st" => todo \in {AddSta_st, AddAp_st} /\ In({"STARTING", "READY"})
  <2>1. PowerUpStep # "add_if" /\ PowerDownStep # "add_if"
    BY Zenon DEF PowerUpStep, PowerDownStep
  <2>2. ~Idle_st /\ ~Readies_st /\ ~Stops_st /\ ~Connects_st /\ ~Leaves_st
    BY <1>0, <2>1, Plans_st DEF Idle_st, Idle, Readies_st, Stops_st, Connects_st, Leaves_st
  <2>3. todo \notin {StartSta_st, StartAp_st}
    BY <1>0, <2>1, Plans_st
  <2> QED
    BY <2>2, <2>3 DEF StageInv, Stage_st, Starts_st, Starting_st
<1>4. driver \notin {"es", "mx"}
  BY StepsOnModule DEF OnLwipSteps
<1> QED
  BY <1>1, <1>2, <1>3, <1>4, DriverNames

\* And where one is removed.
LEMMA WhereRemoved ==
  ASSUME Types, StageInv, AppStep, Head(todo) = "remove_if"
  PROVE  /\ driver = "mxb" => In({"DISCONNECTING", "READY"}) /\ HasNetif
         /\ driver = "cy"  => In({"STOPPING", "INITIALIZED"})
         /\ driver \in {"mxb", "cy"}
<1>0. /\ todo # << >>
      /\ \A step, rest : Begins(todo, step, rest) => step = "remove_if"
  BY StepEffect DEF Begins
<1>1. driver = "mxb" => In({"DISCONNECTING", "READY"}) /\ HasNetif
  <2>1. ~Idle_mxb /\ ~Starts_mxb /\ ~Adds_mxb /\ ~Links_mxb /\ ~Gone_mxb
    BY <1>0, Plans_mxb DEF Idle_mxb, Idle, Starts_mxb, Adds_mxb, Links_mxb, Gone_mxb
  <2>2. ~Stops_mxb
    <3>1. NoHandle # "remove_if"
      BY Zenon DEF NoHandle
    <3> QED
      BY <1>0, <3>1, Plans_mxb DEF Stops_mxb
  <2> QED
    BY <2>1, <2>2 DEF StageInv, Stage_mxb, Gives_mxb
<1>2. driver = "cy" => In({"STOPPING", "INITIALIZED"})
  <2>1. ~Idle_cy /\ ~Starts_cy /\ ~Readies_cy /\ ~Ups_cy /\ ~Connects_cy /\ ~Gives_cy
          /\ ~Gone_cy /\ ~Leaves_cy
    BY <1>0, Plans_cy DEF Idle_cy, Idle, Starts_cy, Readies_cy, Ups_cy, Connects_cy, Gives_cy,
       Gone_cy, Leaves_cy
  <2>2. ~Switches_cy
    BY Plans_Switch DEF Switches_cy
  <2> QED
    BY <2>1, <2>2 DEF StageInv, Stage_cy, Stops_cy
<1>3. driver # "st"
  <2>1. PowerUpStep # "remove_if" /\ PowerDownStep # "remove_if"
    BY Zenon DEF PowerUpStep, PowerDownStep
  <2>2. ~Idle_st /\ ~Readies_st /\ ~Stops_st /\ ~Connects_st /\ ~Leaves_st
    BY <1>0, <2>1, Plans_st DEF Idle_st, Idle, Readies_st, Stops_st, Connects_st, Leaves_st
  <2>3. ~Starts_st
    BY <1>0, <2>1, Plans_st DEF Starts_st, Starting_st
  <2> QED
    BY <2>2, <2>3 DEF StageInv, Stage_st
<1>4. driver \notin {"es", "mx"}
  BY StepsOnModule DEF OnLwipSteps
<1> QED
  BY <1>1, <1>2, <1>3, <1>4, DriverNames

-----------------------------------------------------------------------------
\* Nothing is left behind.

\* st's start finds no lwIP interface, if it is the only one.
OnceInv ==
  driver = "st" => /\ starts = 0 => ~HasNetif
                   /\ todo \in Starting_st => starts # 0 /\ ~HasNetif

\* Only st's start adds an lwIP interface, and no other plan goes on to one of it.
LEMMA StartingFirst ==
  /\ \A plan \in Starting_st : plan # << >> /\ Head(plan) \in {PowerUpStep, "add_if"}
  /\ {Readies, Stop_st, Ends, Connect_st, Connects, Leave_st, << >>} \cap Starting_st = {}
<1>1. \A plan \in Starting_st : plan # << >> /\ Head(plan) \in {PowerUpStep, "add_if"}
  BY Plans_st DEF Begins, Starting_st
<1>2. {PowerDownStep, "ready", "initialized", "ask", "ip_connect", "leave"} \cap {PowerUpStep,
        "add_if"} = {}
  BY Zenon DEF PowerUpStep, PowerDownStep
<1>3. \A plan \in {Readies, Stop_st, Ends, Connect_st, Connects, Leave_st} :
        Head(plan) \in {PowerDownStep, "ready", "initialized", "ask", "ip_connect", "leave"}
  BY Plans_st DEF Begins
<1> QED
  BY <1>1, <1>2, <1>3

\* Every step keeps OnceInv, if st is started once.
LEMMA OnceStep ==
  ASSUME "st" \notin Restarts, Types, StageInv, OnceInv, [Next]_vars
  PROVE  OnceInv'
<1> SUFFICES ASSUME driver = "st", driver' = "st" PROVE OnceInv'
  <2>1. driver' = driver
    <3>1. CASE UNCHANGED vars
      BY <3>1 DEF vars
    <3>2. CASE AppCall
      BY <3>2, CallEffect, CommandEffect DEF AppCall
    <3>3. CASE AppStep
      BY <3>3, StepEffect
    <3>4. CASE Listening
      BY <3>4, ListenEffect
    <3> QED
      BY <3>1, <3>2, <3>3, <3>4 DEF Next, Listening
  <2> QED
    BY <2>1 DEF OnceInv
<1>1. CASE UNCHANGED << todo, starts, iface.ptr >>
  BY <1>1 DEF OnceInv, HasNetif
<1>2. CASE UNCHANGED vars \/ Listening
  BY <1>1, <1>2, ListenEffect DEF vars, Heard
<1>3. CASE NetIfInit \/ Configure \/ NetIfDeinit \/ SwitchMode
  <2>1. ~SwitchMode
    BY DEF SwitchMode
  <2> QED
    BY <1>1, <1>3, <2>1, CallEffect DEF tx
<1>4. ASSUME NEW c \in DOMAIN Expected, Command(c) PROVE OnceInv'
  <2>1. iface'.ptr = iface.ptr
    BY <1>4, CommandEffect
  <2>2. CASE Commanded("INITIALIZED", "STARTING", "if_start") /\ starts < MAX_STARTS
          /\ starts' = starts + 1
    <3>1. starts = 0 /\ starts' = 1
      BY <2>2 DEF MAX_STARTS, Types
    <3> QED
      BY <2>1, <3>1 DEF OnceInv, HasNetif
  <2>3. CASE starts' = starts /\ todo' \in {Readies, Stop_st, Ends, Connect_st, Connects,
          Leave_st, << >>}
    BY <2>1, <2>3, StartingFirst DEF OnceInv, HasNetif
  <2> QED
    BY <1>4, <2>2, <2>3, CommandEffect, Functions_st DEF Commanded
<1>5. CASE AppStep
  <2>1. todo # << >> /\ starts' = starts
    BY <1>5, StepEffect
  <2>2. CASE StepFails
    BY <2>1, <2>2, StartingFirst DEF StepFails, Fails, OnceInv, HasNetif
  <2>3. CASE Goes /\ StepMakes /\ Head(todo) = "add_if"
    <3>1. todo \in {AddSta_st, AddAp_st}
      BY <1>5, <2>3, WhereAdded
    <3>2. todo' \in {Readies, << >>} /\ todo \in Starting_st
      BY <2>3, <3>1, Plans_st DEF Goes, Begins, Starting_st
    <3> QED
      BY <2>1, <3>2, StartingFirst DEF OnceInv
  <2>4. CASE Goes /\ StepMakes /\ Head(todo) # "add_if"
    <3>1. iface'.ptr = iface.ptr
      BY <1>5, <2>4, StepOwns, WhereRemoved
    <3>2. todo' \in Starting_st => todo \in Starting_st
      <4>1. Stage_st /\ ~Idle_st /\ todo' = Tail(todo)
        BY <2>1, <2>4 DEF StageInv, Idle_st, Idle, Goes
      <4>2. todo \notin Starting_st => todo' \in {Readies, Ends, Connects, << >>}
        BY <4>1, Plans_st DEF Stage_st, Starts_st, Readies_st, Stops_st, Connects_st,
           Leaves_st, Begins
      <4> QED
        BY <4>2, StartingFirst
    <3> QED
      BY <2>1, <3>1, <3>2 DEF OnceInv, HasNetif
  <2> QED
    BY <1>5, <2>2, <2>3, <2>4, StepEffect
<1> QED
  BY <1>2, <1>3, <1>4, <1>5 DEF Next, Listening, AppCall

\* The lwIP interfaces alive are the one the interface has.
LiveInv == iface.live = IF HasNetif THEN {iface.ptr} ELSE {}

\* Every step keeps LiveInv: add_if finds no lwIP interface, remove_if frees the one.
LEMMA LiveStep ==
  ASSUME Types, StageInv, OnceInv, LiveInv, [Next]_vars
  PROVE  LiveInv'
<1>1. CASE UNCHANGED << iface.ptr, iface.live >>
  BY <1>1 DEF LiveInv, HasNetif
<1>2. CASE UNCHANGED vars \/ Listening
  BY <1>1, <1>2, ListenEffect DEF vars, Heard
<1>3. CASE AppCall
  BY <1>1, <1>3, CallEffect, CommandEffect DEF AppCall
<1>4. CASE AppStep
  <2>1. CASE StepFails
    BY <1>1, <2>1 DEF StepFails
  <2>2. CASE StepMakes /\ Head(todo) = "add_if"
    <3>1. ~HasNetif
      BY <1>4, <2>2, WhereAdded DEF Adds_mxb, OnceInv, Starting_st
    <3>2. HasNetif' /\ iface'.live = iface.live \cup {iface'.ptr}
      BY <1>4, <2>2, StepCore
    <3> QED
      BY <3>1, <3>2 DEF LiveInv
  <2>3. CASE StepMakes /\ Head(todo) = "remove_if"
    <3>1. ~HasNetif' /\ iface'.live = IF HasNetif THEN iface.live \ {iface.ptr} ELSE iface.live
      BY <1>4, <2>3, StepCore
    <3> QED
      BY <3>1 DEF LiveInv
  <2>4. CASE StepMakes /\ Head(todo) \notin {"add_if", "remove_if"}
    BY <1>1, <1>4, <2>4, StepOwns
  <2> QED
    BY <1>4, <2>1, <2>2, <2>3, <2>4, StepEffect
<1> QED
  BY <1>2, <1>3, <1>4 DEF Next, Listening

\* The block is freed by net_if_deinit, but for that of a cy without an entry.
DrvInv == In({"DEINITIALIZED"}) /\ drv = "live" => driver = "cy" /\ netif2ifp = << >>

\* Every step keeps DrvInv.
LEMMA DrvStep ==
  ASSUME Types, StageInv, DrvInv, [Next]_vars
  PROVE  DrvInv'
<1>0. iface.state \in NET_STATES
  BY DEF Types, Interface
<1>1. CASE /\ UNCHANGED << driver, drv, netif2ifp >>
           /\ iface'.state = "DEINITIALIZED" => In({"DEINITIALIZED"})
  BY <1>1 DEF DrvInv, In
<1>2. CASE UNCHANGED vars
  BY <1>1, <1>2 DEF vars, In
<1>3. CASE Listening
  BY <1>0, <1>1, <1>3, ListenEffect DEF Heard, In, Linked, NET_STATES
<1>4. CASE NetIfInit
  <2>1. PICK b \in if_init :
          drv' = b.drv /\ iface' = [ iface EXCEPT !.state = IF b.ok THEN "INITIALIZED" ELSE @,
                                                  !.dhcp_mode = @ \/ driver \in {"mx", "mxb"} ]
    BY <1>4 DEF NetIfInit
  <2>2. b.ok => iface'.state = "INITIALIZED"
    BY <2>1 DEF Types, Interface
  <2>3. driver' = driver /\ In({"DEINITIALIZED"}) /\ (driver = "cy" => netif2ifp' = << >>)
    BY <1>4 DEF NetIfInit, In
  <2>4. ~b.ok => b.drv \in {"lost", drv}
    <3>1. CASE driver = "es"
      BY <3>1 DEF if_init, es_wifi_if_init, Block
    <3>2. CASE driver \in {"mx", "mxb"}
      BY <3>2 DEF if_init, mx_wifi_if_init, hw_start, Block
    <3>3. CASE driver = "cy"
      BY <3>3 DEF if_init, net_cypress_whd_if_init, Block
    <3>4. CASE driver = "st"
      BY <3>4 DEF if_init, st_wifi_if_init, Block
    <3> QED
      BY <3>1, <3>2, <3>3, <3>4, DriverNames
  <2> QED
    BY <2>1, <2>2, <2>3, <2>4 DEF DrvInv, In
<1>5. CASE NetIfDeinit
  <2>1. /\ driver' = driver /\ drv' = if_deinit
        /\ netif2ifp = << >> => netif2ifp' = << >>
    BY <1>5 DEF NetIfDeinit
  <2>2. if_deinit # "none" => driver = "cy" /\ netif2ifp = << >>
    BY DriverNames DEF if_deinit, es_wifi_if_deinit, mx_wifi_if_deinit,
       net_cypress_whd_if_deinit, st_wifi_if_deinit
  <2> QED
    BY <2>1, <2>2 DEF DrvInv
<1>6. CASE Configure \/ SwitchMode
  <2>1. UNCHANGED << driver, drv, netif2ifp >> /\ (SwitchMode => iface' = iface)
    BY <1>6 DEF Configure, SwitchMode, cy
  <2>2. Configure => iface'.state = iface.state
    BY DEF Configure, Types, Interface
  <2> QED
    BY <1>1, <1>6, <2>1, <2>2 DEF In
<1>7. ASSUME NEW c \in DOMAIN Expected, Command(c) PROVE DrvInv'
  BY <1>1, <1>7, CommandEffect DEF Commanded, cy
<1>8. CASE AppStep
  <2>1. UNCHANGED << driver, drv >>
    BY <1>8, StepEffect
  <2>2. CASE StepFails
    BY <1>1, <2>1, <2>2 DEF StepFails, In, cy
  <2>3. CASE StepMakes /\ StepLeaves
    <3>1. iface'.state = "DEINITIALIZED" => In({"DEINITIALIZED"})
      BY <1>8, <2>3, StepState DEF In, Linked
    <3>2. In({"DEINITIALIZED"}) /\ driver = "cy" => Head(todo) # "add_if"
      BY <1>8, WhereAdded DEF In
    <3>3. In({"DEINITIALIZED"}) /\ driver = "cy" => netif2ifp' = netif2ifp
      BY <2>3, <3>2 DEF StepLeaves
    <3> QED
      BY <2>1, <3>1, <3>3 DEF DrvInv, In
  <2> QED
    BY <1>8, <2>2, <2>3, StepEffect
<1> QED
  BY <1>2, <1>3, <1>4, <1>5, <1>6, <1>7, <1>8 DEF Next, Listening, AppCall

\* The address of the module is asked for by es and mx only.
LEMMA NotOwn ==
  ASSUME Types, AppStep, driver \in {"mxb", "cy", "st"}
  PROVE  Head(todo) # OwnStep
<1>1. Head(todo) \in StepsOf
  BY StepEffect, TodoTypes
<1>2. OwnStep \notin Steps_mxb
  BY Zenon DEF OwnStep, Steps_mxb
<1>3. OwnStep \notin Steps_cy
  BY Zenon DEF OwnStep, Steps_cy
<1>4. OwnStep \notin Steps_st
  BY Zenon DEF OwnStep, Steps_st
<1> QED
  BY <1>1, <1>2, <1>3, <1>4 DEF StepsOf

\* Until mxb is connected a second time, the frames it holds are in its queue or with
\* its transmit thread.
TxInv ==
  /\ driver = "mxb" /\ HasNetif => threads > 0
  /\ threads = 0 => fifo = 0
  /\ threads <= 1 => pbufs = fifo + sending

\* Every step keeps TxInv.
LEMMA TxStep ==
  ASSUME Types, TxInv, [Next]_vars
  PROVE  TxInv'
<1>0. fifo \in Nat /\ pbufs \in Nat /\ threads \in Nat /\ sending \in 0 .. threads
  BY Bounds DEF Types
<1>1. CASE UNCHANGED << driver, tx >> /\ (HasNetif' => HasNetif)
  BY <1>1 DEF TxInv, tx
<1>2. CASE UNCHANGED vars
  BY <1>1, <1>2 DEF vars, tx, HasNetif
<1>3. CASE ModuleJoins \/ ModuleLoses \/ Deliver \/ LinkThread \/ DhcpBound
  <2>1. UNCHANGED tx
    BY <1>3 DEF ModuleJoins, ModuleLoses, Deliver, LinkThread, DhcpBound, tx
  <2>2. driver' = driver /\ Heard(iface, iface')
    BY <1>3, ListenEffect DEF Listening
  <2> QED
    BY <1>1, <2>1, <2>2 DEF Heard, HasNetif
<1>4. CASE low_level_output
  <2>1. /\ fifo' = fifo + 1 /\ pbufs' = pbufs + 1 /\ UNCHANGED << driver, iface, threads, sending >>
        /\ driver = "mxb" /\ HasNetif
    BY <1>4 DEF low_level_output, HasNetif
  <2> QED
    BY <1>0, <2>1 DEF TxInv, HasNetif
<1>5. CASE PushToDriver
  <2>1. UNCHANGED << driver, iface, threads >>
    BY <1>5 DEF PushToDriver
  <2>2. CASE /\ sending < threads /\ fifo > 0 /\ sending' = sending + 1 /\ fifo' = fifo - 1
             /\ pbufs' = pbufs
    BY <1>0, <2>1, <2>2 DEF TxInv, HasNetif
  <2>3. CASE sending > 0 /\ sending' = sending - 1 /\ pbufs' = pbufs - 1 /\ fifo' = fifo
    BY <1>0, <2>1, <2>3 DEF TxInv, HasNetif
  <2> QED
    BY <1>5, <2>2, <2>3 DEF PushToDriver
<1>6. CASE NetIfInit \/ Configure \/ NetIfDeinit \/ SwitchMode
  BY <1>1, <1>6, CallEffect DEF HasNetif
<1>7. ASSUME NEW c \in DOMAIN Expected, Command(c) PROVE TxInv'
  BY <1>1, <1>7, CommandEffect DEF HasNetif
<1>8. CASE AppStep
  <2>1. driver' = driver
    BY <1>8, StepEffect
  <2>2. CASE StepFails
    BY <1>1, <2>1, <2>2 DEF StepFails, HasNetif
  <2>3. CASE StepMakes /\ StepLeaves /\ Head(todo) = "add_if" /\ driver = "mxb"
    <3>1. fifo' = 0 /\ threads' = threads + 1 /\ UNCHANGED << sending, pbufs >>
      BY <2>3 DEF StepLeaves, mx_wifi_low_level_init
    <3> QED
      BY <1>0, <3>1 DEF TxInv
  <2>4. CASE StepMakes /\ StepLeaves /\ Head(todo) = "add_if" /\ driver # "mxb"
    BY <2>1, <2>4 DEF StepLeaves, TxInv
  <2>5. CASE StepMakes /\ StepLeaves /\ Head(todo) # "add_if"
    <3>1. UNCHANGED tx
      BY <2>5 DEF StepLeaves, tx
    <3>2. HasNetif' => HasNetif
      BY <1>8, <2>5, StepCore, StepOwns DEF HasNetif
    <3> QED
      BY <1>1, <2>1, <3>1, <3>2
  <2> QED
    BY <1>8, <2>2, <2>3, <2>4, <2>5, StepEffect
<1> QED
  BY <1>2, <1>3, <1>4, <1>5, <1>6, <1>7, <1>8 DEF Next, AppCall

\* No driver function puts a second lwIP interface in the place of a first, and what
\* net_if_deinit leaves behind is what KnownLeaksOnly names, on each driver, however
\* often and with however many frames mxb was connected.  That is if mxb is not
\* disconnected in CONNECTING nor connected as an access point without an address (the
\* next if_connect would add a second one), and if st is started once (its if_stop
\* removes nothing, and the next if_start adds a second one).
THEOREM OnlyKnownLeaks ==
  ASSUME Patient, "st" \notin Restarts
  PROVE  Spec => []KnownLeaksOnly
<1> DEFINE Inv == Types /\ StageInv /\ OnceInv /\ LiveInv /\ DrvInv /\ TxInv
<1>1. Init => Inv
  <2> SUFFICES ASSUME Init PROVE Inv
    OBVIOUS
  <2>1. Types /\ StageInv
    BY TypesInit, StageInit
  <2>2. /\ ~HasNetif /\ iface.live = {} /\ drv # "live" /\ todo = << >> /\ starts = 0
        /\ fifo = 0 /\ pbufs = 0 /\ threads = 0 /\ sending = 0
    BY DEF Init, NewInterface, HasNetif
  <2>3. OnceInv
    BY <2>2, StartingFirst DEF OnceInv
  <2> QED
    BY <2>1, <2>2, <2>3 DEF LiveInv, DrvInv, TxInv
<1>2. Inv /\ [Next]_vars => Inv'
  BY TypesStep, StageStep, OnceStep, LiveStep, DrvStep, TxStep
<1>3. Inv => KnownLeaksOnly
  <2> SUFFICES ASSUME Inv PROVE KnownLeaksOnly
    OBVIOUS
  <2>1. iface.live = IF iface.ptr = NONE THEN {} ELSE {iface.ptr}
    BY DEF LiveInv, HasNetif
  <2>2. ASSUME Idle, In({"DEINITIALIZED"}), driver \in {"es", "mx", "mxb", "cy"}
        PROVE  iface.live = {}
    <3>1. CASE driver \in {"es", "mx"}
      BY <3>1 DEF StageInv
    <3>2. CASE driver = "mxb"
      BY <2>1, <2>2, <3>2 DEF StageInv, Stage_mxb, Idle_mxb, Starts_mxb, Stops_mxb, Adds_mxb,
         Links_mxb, Gives_mxb, Gone_mxb, In, Linked, HasNetif
    <3>3. CASE driver = "cy"
      BY <2>1, <2>2, <3>3 DEF StageInv, Stage_cy, Idle_cy, Starts_cy, Readies_cy, Ups_cy,
         Connects_cy, Gives_cy, Stops_cy, Gone_cy, Leaves_cy, Switches_cy, In, Linked, HasNetif
    <3> QED
      BY <2>2, <3>1, <3>2, <3>3
  <2>3. In({"DEINITIALIZED"}) /\ drv = "live" => driver = "cy" /\ netif2ifp = << >>
    BY DEF DrvInv
  <2>4. fifo + sending <= pbufs /\ (threads <= 1 => pbufs = fifo + sending)
    BY DEF TxInv, Types
  <2> QED
    BY <2>1, <2>2, <2>3, <2>4, DriverNames DEF KnownLeaksOnly, In
<1> QED
  BY <1>1, <1>2, <1>3, PTL DEF Spec

-----------------------------------------------------------------------------
\* What is received reaches lwIP.

\* The first entry of cy is its lwIP interface, if it is started once.
EntryInv ==
  driver = "cy" =>
    /\ starts = 0 => netif2ifp = << >>
    /\ In({"STARTING"}) /\ ~HasNetif => starts # 0 /\ netif2ifp = << >>
    /\ HasNetif => netif2ifp # << >> /\ Head(netif2ifp) = iface.ptr

\* Every step keeps EntryInv, if cy is started once.
LEMMA EntryStep ==
  ASSUME "cy" \notin Restarts, Types, StageInv, EntryInv, [Next]_vars
  PROVE  EntryInv'
<1> SUFFICES ASSUME driver' = "cy" PROVE EntryInv'
  BY DEF EntryInv
<1>1. CASE UNCHANGED << driver, netif2ifp, starts, iface.ptr >>
             /\ (iface'.state = "STARTING" => In({"STARTING"}))
  BY <1>1 DEF EntryInv, HasNetif, In
<1>2. CASE UNCHANGED vars
  BY <1>1, <1>2 DEF vars, In
<1>3. CASE Listening
  <2>1. driver = "cy" /\ UNCHANGED << driver, netif2ifp, starts, iface.ptr >>
          /\ Follows(iface, iface')
    BY <1>3, ListenEffect DEF Heard
  <2>2. iface'.state = "STARTING" => In({"STARTING"})
    BY <2>1 DEF Follows, In, Linked
  <2> QED
    BY <1>1, <2>1, <2>2
<1>4. CASE NetIfInit \/ Configure \/ NetIfDeinit
  <2>1. driver = "cy" /\ In({"DEINITIALIZED", "INITIALIZED"}) /\ Idle
        /\ iface'.state \in {"DEINITIALIZED", "INITIALIZED"}
        /\ UNCHANGED << starts, iface.ptr >>
    <3>1. ~SwitchMode
      BY <1>4 DEF NetIfInit, Configure, NetIfDeinit, SwitchMode
    <3> QED
      BY <1>4, <3>1, CallEffect
  <2>2. ~HasNetif
    <3>1. Idle_cy
      BY <2>1, NotIdle_cy DEF StageInv, Idle
    <3> QED
      BY <2>1, <3>1 DEF Idle_cy, In, Linked
  <2>3. netif2ifp = << >> => netif2ifp' = << >>
    BY <1>4, CallEffect
  <2> QED
    BY <2>1, <2>2, <2>3 DEF EntryInv, HasNetif, In
<1>5. CASE SwitchMode
  <2>1. UNCHANGED << driver, netif2ifp, starts, iface >>
    BY <1>5 DEF SwitchMode, cy
  <2> QED
    BY <1>1, <2>1 DEF In
<1>6. ASSUME NEW c \in DOMAIN Expected, Command(c) PROVE EntryInv'
  <2>1. UNCHANGED << driver, netif2ifp, iface.ptr >>
    BY <1>6, CommandEffect DEF cy
  <2>2. CASE Commanded("INITIALIZED", "STARTING", "if_start") /\ starts < MAX_STARTS
          /\ starts' = starts + 1
    <3>1. starts = 0 /\ starts' = 1
      BY <2>1, <2>2 DEF MAX_STARTS, Types
    <3> QED
      BY <2>1, <3>1 DEF EntryInv, HasNetif
  <2>3. CASE starts' = starts /\ iface'.state # "STARTING"
    BY <1>1, <2>1, <2>3
  <2> QED
    BY <1>6, <2>2, <2>3, CommandEffect DEF Commanded
<1>7. CASE AppStep
  <2>1. driver = "cy" /\ UNCHANGED << driver, starts >>
    BY <1>7, StepEffect
  <2>2. CASE StepFails
    BY <1>1, <2>1, <2>2 DEF StepFails, cy, In
  <2>3. CASE StepMakes /\ StepLeaves /\ Head(todo) = "add_if"
    <3>1. In({"STARTING"}) /\ ~HasNetif
      BY <1>7, <2>1, <2>3, WhereAdded
    <3>2. netif2ifp = << >> /\ starts # 0
      BY <2>1, <3>1 DEF EntryInv
    <3>3. netif2ifp' = Append(<< >>, iface'.ptr)
      BY <2>1, <2>3, <3>2 DEF StepLeaves, net_cypress_low_level_init
    <3>4. HasNetif'
      BY <1>7, <2>3, StepCore
    <3>5. netif2ifp' # << >> /\ Head(netif2ifp') = iface'.ptr
      BY <3>3
    <3> QED
      BY <2>1, <3>2, <3>4, <3>5 DEF EntryInv
  <2>4. CASE StepMakes /\ StepLeaves /\ Head(todo) = "remove_if"
    <3>1. In({"STOPPING", "INITIALIZED"}) /\ ~HasNetif' /\ iface'.state = iface.state
      BY <1>7, <2>1, <2>4, WhereRemoved, StepCore DEF In, Follows, Linked
    <3>2. netif2ifp' = netif2ifp
      BY <2>4 DEF StepLeaves
    <3> QED
      BY <2>1, <3>1, <3>2 DEF EntryInv, In
  <2>5. CASE StepMakes /\ StepLeaves /\ Head(todo) \notin {"add_if", "remove_if"}
    <3>1. iface'.ptr = iface.ptr /\ netif2ifp' = netif2ifp
      BY <1>7, <2>5, StepOwns DEF StepLeaves
    <3>2. iface'.state = "STARTING" => In({"STARTING"})
      BY <1>7, <2>5, StepState DEF In, Linked
    <3> QED
      BY <1>1, <2>1, <3>1, <3>2
  <2> QED
    BY <1>7, <2>2, <2>3, <2>4, <2>5, StepEffect
<1> QED
  BY <1>2, <1>3, <1>4, <1>5, <1>6, <1>7 DEF Next, Listening, AppCall

\* mxb has the handle from start to stop.
HandleInv ==
  driver = "mxb" =>
    /\ In(Linked \cup {"DISCONNECTING"}) => handle
    /\ In({"STARTING", "READY"}) /\ ~handle => todo \in {AskHandle, SetsHandle} \/ (Idle /\ failed)

\* Every step keeps HandleInv.
LEMMA HandleStep ==
  ASSUME Types, StageInv, HandleInv, [Next]_vars
  PROVE  HandleInv'
<1> SUFFICES ASSUME driver' = "mxb" PROVE HandleInv'
  BY DEF HandleInv
<1>0. iface.state \in NET_STATES
  BY DEF Types, Interface
<1>1. CASE UNCHANGED vars
  BY <1>1 DEF vars, HandleInv, In, Idle
<1>2. CASE Listening
  <2>1. UNCHANGED << driver, handle, todo, failed >> /\ Heard(iface, iface')
    BY <1>2, ListenEffect
  <2> QED
    BY <1>0, <2>1 DEF HandleInv, In, Idle, Heard, Linked, NET_STATES
<1>3. CASE NetIfInit \/ Configure \/ NetIfDeinit
  <2>1. iface'.state \in {"DEINITIALIZED", "INITIALIZED"}
    <3>1. ~SwitchMode
      BY <1>3 DEF NetIfInit, Configure, NetIfDeinit, SwitchMode
    <3> QED
      BY <1>3, <3>1, CallEffect
  <2> QED
    BY <2>1 DEF HandleInv, In, Linked
<1>4. CASE SwitchMode
  BY <1>4 DEF SwitchMode
<1>5. ASSUME NEW c \in DOMAIN Expected, Command(c) PROVE HandleInv'
  <2>1. driver = "mxb" /\ handle' = handle /\ todo = << >>
    BY <1>5, CommandEffect DEF Idle
  <2>2. AskHandle # << >> /\ SetsHandle # << >>
    BY Plans_mxb DEF Begins
  <2>3. CASE Commanded("INITIALIZED", "STARTING", "if_start")
    BY <2>1, <2>3, Functions_mxb DEF Commanded, HandleInv, In, Linked
  <2>4. CASE iface'.state \in {"INITIALIZED", "STOPPING"}
    BY <2>4 DEF HandleInv, In, Linked
  <2>5. CASE Commanded("READY", "CONNECTING", "if_connect") /\ ~failed
    BY <2>1, <2>2, <2>5 DEF Commanded, HandleInv, In, Linked
  <2>6. CASE Commanded("CONNECTING", "READY", "none")
          \/ Commanded("CONNECTED", "DISCONNECTING", "if_disconnect")
    BY <2>1, <2>6 DEF Commanded, HandleInv, In, Linked
  <2> QED
    BY <1>5, <2>3, <2>4, <2>5, <2>6, CommandEffect DEF Commanded
<1>6. CASE AppStep
  <2>1. driver = "mxb" /\ todo # << >>
    BY <1>6, StepEffect
  <2>2. CASE StepFails
    BY <2>1, <2>2 DEF StepFails, Fails, HandleInv, In, Idle
  <2>3. CASE Goes /\ StepMakes /\ StepLeaves /\ Starts_mxb
    <3>1. CASE todo = AskHandle
      <4>1. Head(todo) = "ask" /\ todo' = SetsHandle
        BY <2>3, <3>1, Plans_mxb DEF Goes, Begins
      <4>2. iface' = iface
        BY <1>6, <2>3, <4>1, StepCore, StepKinds
      <4> QED
        BY <2>3, <4>1, <4>2 DEF HandleInv, Starts_mxb, In, Linked
    <3>2. CASE todo = SetsHandle
      <4>1. handle'
        BY <2>3, <3>2, Plans_mxb DEF StepLeaves, Begins
      <4> QED
        BY <4>1 DEF HandleInv
    <3> QED
      BY <2>3, <3>1, <3>2 DEF Starts_mxb
  <2>4. CASE Goes /\ StepMakes /\ StepLeaves /\ Stops_mxb
    <3>1. iface'.state \in {"STOPPING", "INITIALIZED"}
      <4>1. CASE todo = Ends
        <5>1. Head(todo) = "initialized"
          BY <4>1, Plans_mxb DEF Begins
        <5> QED
          BY <1>6, <2>4, <5>1, StepCore DEF Stops_mxb, In
      <4>2. CASE todo \in {LeavesModule, DropsHandle}
        <5>1. Head(todo) \in Aside
          BY <4>2, Plans_mxb, StepKinds DEF Begins
        <5> QED
          BY <1>6, <2>4, <5>1, StepCore DEF Stops_mxb, In
      <4> QED
        BY <2>4, <4>1, <4>2 DEF Stops_mxb
    <3> QED
      BY <3>1 DEF HandleInv, In, Linked
  <2>5. CASE Goes /\ StepMakes /\ StepLeaves /\ (Adds_mxb \/ Links_mxb \/ Gives_mxb \/ Gone_mxb)
    <3>1. In(Linked \cup {"DISCONNECTING", "READY"})
      BY <2>5 DEF Adds_mxb, Links_mxb, Gives_mxb, Gone_mxb, In, Linked
    <3>2. todo \notin {AskHandle, SetsHandle}
      BY <2>5, Plans_mxb DEF Begins, Adds_mxb, Links_mxb, Gives_mxb, Gone_mxb
    <3>3. handle
      BY <2>1, <3>1, <3>2 DEF HandleInv, In, Idle, Linked
    <3>4. Head(todo) \notin {"handle", NoHandle}
      BY <2>5, Plans_mxb, StepKinds DEF Begins, Adds_mxb, Links_mxb, Gives_mxb, Gone_mxb
    <3>5. handle' = handle
      BY <2>5, <3>4, Zenon DEF StepLeaves, NoHandle
    <3> QED
      BY <3>3, <3>5 DEF HandleInv
  <2>6. Stage_mxb /\ ~Idle_mxb
    BY <2>1 DEF StageInv, Idle_mxb, Idle
  <2> QED
    BY <1>6, <2>2, <2>3, <2>4, <2>5, <2>6, StepEffect DEF Stage_mxb
<1> QED
  BY <1>1, <1>2, <1>3, <1>4, <1>5, <1>6 DEF Next, Listening, AppCall

\* A connected interface on lwIP has an lwIP interface.
LEMMA LinkedOwns ==
  ASSUME Types, StageInv, OnLwip, In({"CONNECTED", "CONNECTION_LOST"})
  PROVE  HasNetif
<1>1. CASE driver = "mxb"
  BY <1>1 DEF StageInv, Stage_mxb, Idle_mxb, Starts_mxb, Stops_mxb, Adds_mxb, Links_mxb,
     Gives_mxb, Gone_mxb, In, Linked
<1>2. CASE driver = "cy"
  BY <1>2 DEF StageInv, Stage_cy, Idle_cy, Starts_cy, Readies_cy, Ups_cy, Connects_cy,
     Gives_cy, Stops_cy, Gone_cy,
     Leaves_cy, Switches_cy, In, Linked
<1>3. CASE driver = "st"
  BY <1>3 DEF StageInv, Stage_st, Idle_st, Starts_st, Readies_st, Stops_st, Connects_st,
     Leaves_st, In, Linked
<1> QED
  BY <1>1, <1>2, <1>3 DEF OnLwip

\* A frame that a connected interface receives is given to its lwIP interface of now:
\* mxb finds it through the handle, set by if_start and cleared by if_stop; cy through
\* the first entry of netif2ifp, which stays the first and the only one if cy is started
\* once; st through pnetif.
THEOREM InputFindsNetif ==
  ASSUME Patient, "cy" \notin Restarts
  PROVE  Spec => []InputReachesNetif
<1> DEFINE Inv == Types /\ StageInv /\ EntryInv /\ HandleInv
<1>1. Init => Inv
  <2> SUFFICES ASSUME Init PROVE Inv
    OBVIOUS
  <2>1. Types /\ StageInv
    BY TypesInit, StageInit
  <2>2. ~HasNetif /\ In({"DEINITIALIZED"}) /\ netif2ifp = << >>
    BY DEF Init, NewInterface, HasNetif, In
  <2> QED
    BY <2>1, <2>2 DEF EntryInv, HandleInv, In, Linked
<1>2. Inv /\ [Next]_vars => Inv'
  BY TypesStep, StageStep, EntryStep, HandleStep
<1>3. Inv => InputReachesNetif
  <2> SUFFICES ASSUME Inv, OnLwip, In({"CONNECTED"}) PROVE Input("IP") = {iface.ptr}
    BY DEF InputReachesNetif, In
  <2>1. HasNetif
    BY LinkedOwns DEF In
  <2>2. CASE driver = "mxb"
    BY <2>2 DEF Input, net_mx_wifi_netlink_input_callback, get_netif, HandleInv, In, Linked
  <2>3. CASE driver = "cy"
    BY <2>1, <2>3 DEF Input, cy_network_process_ethernet_data, EntryInv
  <2>4. CASE driver = "st"
    BY <2>4 DEF Input
  <2> QED
    BY <2>2, <2>3, <2>4 DEF OnLwip
<1> QED
  BY <1>1, <1>2, <1>3, PTL DEF Spec

-----------------------------------------------------------------------------
\* The address of a connected interface.

\* What a step does to the address of lwIP.
LEMMA StepNet ==
  ASSUME Types, AppStep, StepMakes
  PROVE  iface'.net.addr \in {iface.net.addr, "static", "zero"}
<1>0. iface \in Interface
  BY DEF Types
<1>1. Head(todo) \in STEPS
  BY StepEffect, TodoTypes, StepNames
<1>2. CASE Head(todo) \in Aside
  BY <1>2, StepCore
<1>3. CASE Head(todo) \in {"ready", "initialized"}
  BY <1>3, StepCore
<1>4. CASE Head(todo) \in {"link_up", "link_down"}
  BY <1>0, <1>4, SetLinkEffect DEF StepMakes
<1>5. CASE Head(todo) = "ip_connect"
  BY <1>0, <1>5, ConnectEffect DEF StepMakes
<1>6. CASE Head(todo) = "ip_disconnect"
  BY <1>0, <1>6, DisconnectEffect DEF StepMakes
<1>7. CASE Head(todo) \in {"add_if", "remove_if"}
  <2>1. NewNet.addr = "zero"
    BY DEF NewNet
  <2> QED
    BY <1>7, <2>1, StepCore
<1>8. CASE Head(todo) = OwnStep
  BY <1>8, StepCore, Zenon DEF OwnStep
<1>9. \/ Head(todo) \in Aside \/ Head(todo) \in {"ready", "initialized"} \/ Head(todo) = OwnStep
      \/ Head(todo) \in {"link_up", "link_down"} \/ Head(todo) = "ip_connect"
      \/ Head(todo) = "ip_disconnect"
      \/ Head(todo) \in {"add_if", "remove_if"}
  BY <1>1, Zenon DEF STEPS, Aside, OwnStep
<1> QED
  BY <1>2, <1>3, <1>4, <1>5, <1>6, <1>7, <1>8, <1>9

\* Where lwIP's connection is given up.
LEMMA WhereGivenUp ==
  ASSUME Types, StageInv, AppStep, Head(todo) = "ip_disconnect"
  PROVE  ~In(Linked) /\ (driver = "mxb" => HasNetif)
<1>0. /\ todo # << >>
      /\ \A step, rest : Begins(todo, step, rest) => step = "ip_disconnect"
  BY StepEffect DEF Begins
<1>1. CASE driver = "mxb"
  <2>1. ~Idle_mxb /\ ~Starts_mxb /\ ~Adds_mxb /\ ~Links_mxb /\ ~Gone_mxb
    BY <1>0, Plans_mxb DEF Idle_mxb, Idle, Starts_mxb, Adds_mxb, Links_mxb, Gone_mxb
  <2>2. ~Stops_mxb
    <3>1. NoHandle # "ip_disconnect"
      BY Zenon DEF NoHandle
    <3> QED
      BY <1>0, <3>1, Plans_mxb DEF Stops_mxb
  <2> QED
    BY <1>1, <2>1, <2>2 DEF StageInv, Stage_mxb, Gives_mxb, In, Linked
<1>2. CASE driver = "cy"
  <2>1. ~Idle_cy /\ ~Starts_cy /\ ~Readies_cy /\ ~Ups_cy /\ ~Connects_cy /\ ~Stops_cy
          /\ ~Gone_cy /\ ~Leaves_cy
    BY <1>0, Plans_cy DEF Idle_cy, Idle, Starts_cy, Readies_cy, Ups_cy, Connects_cy, Stops_cy,
       Gone_cy, Leaves_cy
  <2>2. ~Switches_cy
    BY Plans_Switch DEF Switches_cy
  <2> QED
    BY <1>2, <2>1, <2>2 DEF StageInv, Stage_cy, Gives_cy, In, Linked
<1>3. driver # "st"
  <2>1. PowerUpStep # "ip_disconnect" /\ PowerDownStep # "ip_disconnect"
    BY Zenon DEF PowerUpStep, PowerDownStep
  <2>2. ~Idle_st /\ ~Readies_st /\ ~Stops_st /\ ~Connects_st /\ ~Leaves_st
    BY <1>0, <2>1, Plans_st DEF Idle_st, Idle, Readies_st, Stops_st, Connects_st, Leaves_st
  <2>3. ~Starts_st
    BY <1>0, <2>1, Plans_st DEF Starts_st, Starting_st
  <2> QED
    BY <2>2, <2>3 DEF StageInv, Stage_st
<1>4. driver \notin {"es", "mx"}
  BY StepsOnModule DEF OnLwipSteps
<1> QED
  BY <1>1, <1>2, <1>3, <1>4, DriverNames

\* And where the link of mxb is set up.
LEMMA WhereLinked ==
  ASSUME Types, StageInv, AppStep, driver = "mxb", Head(todo) \in {"link_up", "link_down"}
  PROVE  HasNetif
<1>0. /\ todo # << >>
      /\ \A step, rest : Begins(todo, step, rest) => step \in {"link_up", "link_down"}
  BY StepEffect DEF Begins
<1>1. ~Idle_mxb /\ ~Starts_mxb /\ ~Adds_mxb /\ ~Gone_mxb
  BY <1>0, Plans_mxb DEF Idle_mxb, Idle, Starts_mxb, Adds_mxb, Gone_mxb
<1>2. ~Stops_mxb
  <2>1. NoHandle \notin {"link_up", "link_down"}
    BY Zenon DEF NoHandle
  <2> QED
    BY <1>0, <2>1, Plans_mxb DEF Stops_mxb
<1> QED
  BY <1>1, <1>2 DEF StageInv, Stage_mxb, Gives_mxb, Links_mxb

\* The lwIP interface mxb is without is a new one, and the one of an access point has no lease.
NetInv ==
  driver = "mxb" => /\ ~HasNetif => iface.net = NewNet
                    /\ mode = "ap" => iface.net.addr # "lease"

\* A step of mxb does not change the mode.
LEMMA SameMode ==
  ASSUME Types, AppStep, driver = "mxb", StepLeaves
  PROVE  mode' = mode
<1>1. Head(todo) \in Steps_mxb
  BY StepEffect, TodoTypes DEF StepsOf
<1>2. Head(todo) \notin {"sta", "ap"}
  BY <1>1, Zenon DEF Steps_mxb
<1> QED
  BY <1>2, Zenon DEF StepLeaves

\* Every step keeps NetInv.
LEMMA NetStep ==
  ASSUME Types, StageInv, NetInv, [Next]_vars
  PROVE  NetInv'
<1> SUFFICES ASSUME driver' = "mxb" PROVE NetInv'
  BY DEF NetInv
<1>0. NewNet.addr = "zero"
  BY DEF NewNet
<1>1. CASE UNCHANGED << driver, mode, iface.net, iface.ptr >>
  BY <1>1 DEF NetInv, HasNetif
<1>2. CASE UNCHANGED vars
  BY <1>1, <1>2 DEF vars
<1>3. CASE Listening
  <2>1. driver = "mxb" /\ UNCHANGED << driver, mode, iface.ptr >>
    BY <1>3, ListenEffect DEF Heard
  <2>2. CASE ModuleJoins \/ ModuleLoses \/ low_level_output \/ PushToDriver
    <3>1. iface' = iface
      BY <2>2 DEF ModuleJoins, ModuleLoses, low_level_output, PushToDriver
    <3> QED
      BY <1>1, <2>1, <3>1
  <2>3. CASE Deliver
    BY <1>1, <2>1, <2>3, DeliverEffect
  <2>4. CASE DhcpBound
    <3>1. HasNetif /\ mode = "sta"
      BY <2>4, ThreadEffect
    <3> QED
      BY <2>1, <3>1 DEF NetInv, HasNetif
  <2>5. ~LinkThread
    BY <2>1 DEF LinkThread, StageInv
  <2> QED
    BY <1>3, <2>2, <2>3, <2>4, <2>5 DEF Listening
<1>4. CASE NetIfInit \/ Configure \/ NetIfDeinit
  <2>1. ~SwitchMode
    BY <1>4 DEF NetIfInit, Configure, NetIfDeinit, SwitchMode
  <2>2. /\ UNCHANGED << driver, iface.ptr, iface.net >> /\ driver = "mxb"
        /\ todo = << >> /\ In({"DEINITIALIZED", "INITIALIZED"})
    BY <1>4, <2>1, CallEffect DEF Idle
  <2>3. ~HasNetif
    BY <2>2, Plans_mxb DEF StageInv, Stage_mxb, Begins, Idle_mxb, Starts_mxb, Stops_mxb,
       Adds_mxb, Links_mxb, Gives_mxb,
       Gone_mxb, In, Linked
  <2> QED
    BY <1>0, <2>2, <2>3 DEF NetInv
<1>5. CASE SwitchMode
  BY <1>5 DEF SwitchMode
<1>6. ASSUME NEW c \in DOMAIN Expected, Command(c) PROVE NetInv'
  BY <1>1, <1>6, CommandEffect
<1>7. CASE AppStep
  <2>1. driver = "mxb" /\ driver' = driver
    BY <1>7, StepEffect
  <2>2. CASE StepFails
    BY <1>1, <2>1, <2>2 DEF StepFails
  <2>3. CASE StepMakes /\ StepLeaves
    <3>1. mode' = mode
      BY <1>7, <2>1, <2>3, SameMode
    <3>2. mode = "ap" => iface'.net.addr # "lease"
      BY <1>7, <2>1, <2>3, StepNet DEF NetInv
    <3>3. ~HasNetif' => iface'.net = NewNet
      <4>1. CASE Head(todo) \in Aside \cup {"ready", "initialized"}
        BY <1>7, <2>1, <2>3, <4>1, StepCore DEF NetInv, HasNetif
      <4>2. CASE Head(todo) \in {"link_up", "link_down", "ip_connect", "ip_disconnect"}
        <5>1. HasNetif
          BY <1>7, <2>1, <2>3, <4>2, WhereLinked, WhereGivenUp DEF StepMakes
        <5>2. iface'.ptr = iface.ptr
          BY <1>7, <2>3, <4>2, StepCore
        <5> QED
          BY <5>1, <5>2 DEF HasNetif
      <4>3. CASE Head(todo) = "add_if"
        BY <1>7, <2>3, <4>3, StepCore
      <4>4. CASE Head(todo) = "remove_if"
        BY <1>7, <2>1, <2>3, <4>4, StepCore, WhereRemoved
      <4>5. Head(todo) \in STEPS /\ Head(todo) # OwnStep
        BY <1>7, <2>1, StepEffect, TodoTypes, StepNames, NotOwn
      <4>6. \/ Head(todo) \in Aside \cup {"ready", "initialized"}
            \/ Head(todo) \in {"link_up", "link_down", "ip_connect", "ip_disconnect"}
            \/ Head(todo) = "add_if" \/ Head(todo) = "remove_if"
        BY <4>5, Zenon DEF STEPS, Aside, OwnStep
      <4> QED
        BY <4>1, <4>2, <4>3, <4>4, <4>6
    <3> QED
      BY <3>1, <3>2, <3>3 DEF NetInv
  <2> QED
    BY <1>7, <2>2, <2>3, StepEffect
<1> QED
  BY <1>2, <1>3, <1>4, <1>5, <1>6, <1>7 DEF Next, Listening, AppCall

\* What mxb's module tells other than AP_UP, which writes an address.
Harmless == {"STA_UP", "STA_DOWN", "AP_DOWN"}

\* While mxb is not started, once its module has left, the module has no more to tell of
\* an access point.
Still == ~asked /\ ~joined /\ reports \in Seq(Harmless)

\* A module of mxb that has left does not report an access point any more.
QuietInv ==
  driver = "mxb" =>
    /\ In({"DEINITIALIZED", "INITIALIZED", "STOPPING"}) /\ todo # LeavesModule => Still
    /\ mode = "sta" => reports \in Seq(Harmless)

\* What mxb's module says of its network is harmless, but for AP_UP of an access point.
LEMMA TellsOf_mxb ==
  ASSUME Types, driver = "mxb"
  PROVE  /\ Down \in Seq(Harmless)
         /\ mode = "sta" => Up \in Seq(Harmless)
<1>1. mode = "sta" \/ mode = "ap"
  BY DEF Types
<1>2. CASE mode = "sta"
  <2>1. Up = << "STA_UP" >> /\ Down = << "STA_DOWN" >>
    BY <1>2 DEF Up, Down
  <2> QED
    BY <2>1 DEF Harmless
<1>3. CASE mode = "ap"
  <2>1. Down = << "AP_DOWN" >>
    BY <1>3 DEF Down
  <2> QED
    BY <1>3, <2>1 DEF Harmless
<1> QED
  BY <1>1, <1>2, <1>3

\* The reports after a step of mxb.
LEMMA StepReports ==
  ASSUME Types, AppStep, driver = "mxb", StepLeaves
  PROVE  /\ reports \in Seq(Harmless) => reports' \in Seq(Harmless)
         /\ Head(todo) = "leave" => ~asked' /\ ~joined' /\ reports' \in Seq(Harmless)
         /\ Head(todo) \in {NoHandle, "initialized"} => UNCHANGED radio
<1>1. CASE Head(todo) = "leave"
  <2>1. /\ asked' = FALSE /\ joined' = FALSE /\ reports = << >>
        /\ reports' = IF joined THEN reports \o Down ELSE reports
    BY <1>1, Zenon DEF StepLeaves
  <2>2. Down \in Seq(Harmless)
    BY TellsOf_mxb
  <2>3. << >> \in Seq(Harmless)
    OBVIOUS
  <2>4. reports' \in Seq(Harmless)
    <3>1. reports \o Down \in Seq(Harmless)
      BY <2>1, <2>2, <2>3
    <3> QED
      BY <2>1, <2>3, <3>1
  <2>5. Head(todo) \notin {NoHandle, "initialized"}
    BY <1>1, Zenon DEF NoHandle
  <2> QED
    BY <2>1, <2>4, <2>5
<1>2. CASE Head(todo) = "ask"
  <2>1. reports' = reports
    BY <1>2, Zenon DEF StepLeaves
  <2>2. Head(todo) \notin {NoHandle, "initialized", "leave"}
    BY <1>2, Zenon DEF NoHandle
  <2> QED
    BY <2>1, <2>2
<1>3. CASE Head(todo) \notin {"ask", "leave"}
  <2>1. Head(todo) \in Steps_mxb
    BY StepEffect, TodoTypes DEF StepsOf
  <2>2. UNCHANGED radio
    BY <1>3, <2>1, Zenon DEF StepLeaves, Steps_mxb
  <2> QED
    BY <1>3, <2>2 DEF radio
<1> QED
  BY <1>1, <1>2, <1>3

\* Every step keeps QuietInv.
LEMMA QuietStep ==
  ASSUME Types, StageInv, QuietInv, [Next]_vars
  PROVE  QuietInv'
<1> SUFFICES ASSUME driver' = "mxb" PROVE QuietInv'
  BY DEF QuietInv
<1>0. iface.state \in NET_STATES
  BY DEF Types, Interface
<1>1. CASE UNCHANGED vars
  BY <1>1 DEF vars, QuietInv, Still, In
<1>2. CASE Listening
  <2>1. driver = "mxb" /\ UNCHANGED << driver, mode, todo >> /\ Heard(iface, iface')
    BY <1>2, ListenEffect
  <2>2. iface'.state \in {"DEINITIALIZED", "INITIALIZED", "STOPPING"} =>
          In({"DEINITIALIZED", "INITIALIZED", "STOPPING"})
    BY <1>0, <2>1 DEF Heard, In, Linked, NET_STATES
  <2>3. CASE ModuleJoins
    <3>1. asked /\ reports' = reports \o Up
      BY <2>3 DEF ModuleJoins
    <3>2. mode = "sta" => reports' \in Seq(Harmless)
      BY <2>1, <3>1, TellsOf_mxb DEF QuietInv
    <3> QED
      BY <2>1, <2>2, <3>1, <3>2 DEF QuietInv, Still, In
  <2>4. CASE ModuleLoses
    <3>1. joined /\ reports' = reports \o Down
      BY <2>4 DEF ModuleLoses
    <3>2. mode = "sta" => reports' \in Seq(Harmless)
      BY <2>1, <3>1, TellsOf_mxb DEF QuietInv
    <3> QED
      BY <2>1, <2>2, <3>1, <3>2 DEF QuietInv, Still, In
  <2>5. CASE Deliver
    <3>1. reports # << >> /\ reports' = Tail(reports) /\ UNCHANGED << asked, joined >>
      BY <2>5 DEF Deliver
    <3>2. reports \in Seq(Harmless) => reports' \in Seq(Harmless)
      BY <3>1
    <3> QED
      BY <2>1, <2>2, <3>1, <3>2 DEF QuietInv, Still, In
  <2>6. CASE LinkThread \/ DhcpBound \/ low_level_output \/ PushToDriver
    <3>1. UNCHANGED << asked, joined, reports >>
      BY <2>6 DEF LinkThread, DhcpBound, low_level_output, PushToDriver, radio
    <3> QED
      BY <2>1, <2>2, <3>1 DEF QuietInv, Still, In
  <2> QED
    BY <1>2, <2>3, <2>4, <2>5, <2>6 DEF Listening
<1>3. CASE NetIfInit \/ Configure \/ NetIfDeinit
  <2>1. ~SwitchMode
    BY <1>3 DEF NetIfInit, Configure, NetIfDeinit, SwitchMode
  <2>2. /\ driver = "mxb" /\ UNCHANGED << asked, joined, reports >> /\ todo = << >>
        /\ In({"DEINITIALIZED", "INITIALIZED"})
    BY <1>3, <2>1, CallEffect DEF Idle, radio
  <2>3. LeavesModule # << >>
    BY Plans_mxb DEF Begins
  <2> QED
    BY <2>2, <2>3 DEF QuietInv, Still, In
<1>4. CASE SwitchMode
  BY <1>4 DEF SwitchMode
<1>5. ASSUME NEW c \in DOMAIN Expected, Command(c) PROVE QuietInv'
  <2>1. driver = "mxb" /\ UNCHANGED << mode, asked, joined, reports >>
    BY <1>5, CommandEffect DEF radio
  <2>2. \/ iface'.state \notin {"DEINITIALIZED", "INITIALIZED", "STOPPING"}
        \/ todo' = LeavesModule
    BY <1>5, <2>1, CommandEffect, Functions_mxb DEF Commanded
  <2> QED
    BY <2>1, <2>2 DEF QuietInv, In
<1>6. CASE AppStep
  <2>1. driver = "mxb" /\ todo # << >>
    BY <1>6, StepEffect
  <2>2. Stage_mxb /\ ~Idle_mxb
    BY <2>1 DEF StageInv, Idle_mxb, Idle
  <2>3. ~Stops_mxb => ~In({"DEINITIALIZED", "INITIALIZED", "STOPPING"})
    BY <2>2 DEF Stage_mxb, Starts_mxb, Adds_mxb, Links_mxb, Gives_mxb, Gone_mxb, In, Linked
  <2>4. CASE StepFails
    <3>1. ~Stops_mxb
      <4>1. Head(todo) \in MayFail \ {"leave"}
        BY <2>1, <2>4 DEF StepFails
      <4> QED
        BY <4>1, Plans_mxb, StepKinds DEF Stops_mxb, Begins
    <3>2. UNCHANGED << mode, iface, reports >>
      BY <2>4 DEF StepFails, radio
    <3> QED
      BY <2>1, <2>3, <3>1, <3>2 DEF QuietInv, In
  <2>5. CASE Goes /\ StepMakes /\ StepLeaves /\ ~Stops_mxb
    <3>1. mode' = mode /\ (reports \in Seq(Harmless) => reports' \in Seq(Harmless))
      BY <1>6, <2>1, <2>5, SameMode, StepReports
    <3>2. iface'.state \notin {"DEINITIALIZED", "INITIALIZED", "STOPPING"}
      BY <1>6, <2>3, <2>5, StepState DEF In, Linked
    <3> QED
      BY <2>1, <3>1, <3>2 DEF QuietInv, In
  <2>6. CASE Goes /\ StepMakes /\ StepLeaves /\ Stops_mxb
    <3>1. mode' = mode /\ (reports \in Seq(Harmless) => reports' \in Seq(Harmless))
      BY <1>6, <2>1, <2>6, SameMode, StepReports
    <3>2. Still'
      <4>1. CASE todo = LeavesModule
        <5>1. Head(todo) = "leave"
          BY <4>1, Plans_mxb DEF Begins
        <5> QED
          BY <1>6, <2>1, <2>6, <5>1, StepReports DEF Still
      <4>2. CASE todo \in {DropsHandle, Ends}
        <5>1. Head(todo) \in {NoHandle, "initialized"}
          BY <4>2, Plans_mxb DEF Begins
        <5>2. UNCHANGED radio
          BY <1>6, <2>1, <2>6, <5>1, StepReports
        <5>3. Head(LeavesModule) = "leave" /\ NoHandle # "leave"
          <6>1. NoHandle # "leave"
            BY Zenon DEF NoHandle
          <6> QED
            BY <6>1, Plans_mxb DEF Begins
        <5>4. todo # LeavesModule
          BY <5>1, <5>3
        <5> QED
          BY <2>1, <2>6, <5>2, <5>4 DEF QuietInv, Still, Stops_mxb, In, radio
      <4> QED
        BY <2>6, <4>1, <4>2 DEF Stops_mxb
    <3> QED
      BY <3>1, <3>2, <2>1 DEF QuietInv, Still
  <2> QED
    BY <1>6, <2>4, <2>5, <2>6, StepEffect
<1> QED
  BY <1>1, <1>2, <1>3, <1>4, <1>5, <1>6 DEF Next, Listening, AppCall

\* A connected interface has an address, and on lwIP it is lwIP's.
ConnInv ==
  /\ OnLwip => Good(iface)
  /\ In({"CONNECTED"}) => iface.ipaddr # "zero"

\* A step of a driver on lwIP keeps the copy of the address good.
LEMMA StepGood ==
  ASSUME Types, StageInv, AppStep, StepMakes, OnLwip, Good(iface)
  PROVE  Good(iface')
<1>0. iface \in Interface
  BY DEF Types
<1>1. CASE Head(todo) \in Aside
  BY <1>1, StepCore
<1>2. CASE Head(todo) \in {"ready", "initialized"}
  BY <1>2, StepCore DEF Good, In
<1>3. CASE Head(todo) \in {"link_up", "link_down"}
  BY <1>0, <1>3, SetLinkEffect DEF StepMakes
<1>4. CASE Head(todo) = "ip_connect"
  BY <1>0, <1>4, ConnectEffect DEF StepMakes
<1>5. CASE Head(todo) = "ip_disconnect"
  BY <1>0, <1>5, StepCore, WhereGivenUp DEF Follows, Good, In, Linked
<1>6. CASE Head(todo) = "add_if"
  <2>1. iface'.state = iface.state
    BY <1>6, StepCore
  <2>2. ~In({"CONNECTED"})
    BY <1>6, WhereAdded DEF Adds_mxb, In
  <2> QED
    BY <2>1, <2>2 DEF Good, In
<1>7. CASE Head(todo) = "remove_if"
  BY <1>7, StepCore, WhereRemoved DEF Follows, Good, In, Linked
<1>8. Head(todo) \in STEPS /\ Head(todo) # OwnStep
  BY StepEffect, TodoTypes, StepNames, NotOwn DEF OnLwip
<1>9. \/ Head(todo) \in Aside \/ Head(todo) \in {"ready", "initialized"}
      \/ Head(todo) \in {"link_up", "link_down"} \/ Head(todo) = "ip_connect"
      \/ Head(todo) = "ip_disconnect"
      \/ Head(todo) = "add_if" \/ Head(todo) = "remove_if"
  BY <1>8, Zenon DEF STEPS, Aside, OwnStep
<1> QED
  BY <1>1, <1>2, <1>3, <1>4, <1>5, <1>6, <1>7, <1>9

\* A step of a driver whose stack is in the module.
LEMMA StepOwn ==
  ASSUME Types, AppStep, StepMakes, driver \in {"es", "mx"}, In({"CONNECTED"}) =>
      iface.ipaddr # "zero"
  PROVE  iface'.state = "CONNECTED" => iface'.ipaddr # "zero"
<1>1. CASE Head(todo) \in Aside
  BY <1>1, StepCore DEF In
<1>2. CASE Head(todo) \in {"ready", "initialized"}
  BY <1>2, StepCore DEF In
<1>3. CASE Head(todo) = OwnStep
  <2>1. iface'.ipaddr \in {"lease", "static"}
    BY <1>3, StepCore, Zenon DEF OwnStep
  <2> QED
    BY <2>1
<1>4. Head(todo) \in STEPS /\ Head(todo) \notin OnLwipSteps
  BY StepEffect, TodoTypes, StepNames, StepsOnModule
<1>5. Head(todo) \in Aside \/ Head(todo) \in {"ready", "initialized"} \/ Head(todo) = OwnStep
  BY <1>4, Zenon DEF STEPS, Aside, OwnStep, OnLwipSteps
<1> QED
  BY <1>1, <1>2, <1>3, <1>5

\* Every step keeps ConnInv.
LEMMA ConnStep ==
  ASSUME Types, StageInv, NetInv, QuietInv, ConnInv, [Next]_vars
  PROVE  ConnInv'
<1>0. /\ iface.state \in NET_STATES /\ iface \in Interface
      /\ driver \in {"es", "mx"} \/ OnLwip
  BY DriverNames DEF Types, Interface, OnLwip
<1>1. CASE driver' = driver /\ (Good(iface) => Good(iface')) /\ OnLwip
  BY <1>1 DEF ConnInv, OnLwip, Good, In
<1>2. CASE driver' = driver /\ (iface'.state = "CONNECTED" => iface'.ipaddr # "zero")
        /\ driver \in {"es", "mx"}
  BY <1>2 DEF ConnInv, OnLwip, In
<1>3. CASE driver' = driver /\ iface' = iface
  BY <1>3 DEF ConnInv, OnLwip, Good, In
<1>4. CASE driver' = driver /\ iface'.state # "CONNECTED"
  BY <1>4 DEF ConnInv, Good, In
<1>5. CASE UNCHANGED vars
  BY <1>3, <1>5 DEF vars
<1>6. CASE Listening
  <2>1. driver' = driver
    BY <1>6, ListenEffect
  <2>2. CASE ModuleJoins \/ ModuleLoses \/ low_level_output \/ PushToDriver
    <3>1. iface' = iface
      BY <2>2 DEF ModuleJoins, ModuleLoses, low_level_output, PushToDriver
    <3> QED
      BY <1>3, <2>1, <3>1
  <2>3. CASE LinkThread \/ DhcpBound
    <3>1. OnLwip
      <4>1. driver \in {"es", "mx"} => ~HasNetif /\ linkNetif = NONE
        BY DEF StageInv
      <4> QED
        BY <1>0, <2>3, <4>1, ThreadEffect
    <3> QED
      BY <1>1, <2>1, <2>3, <3>1, ThreadEffect
  <2>4. CASE Deliver /\ driver = "st"
    BY <1>1, <2>1, <2>4, DeliverEffect DEF OnLwip
  <2>5. CASE Deliver /\ driver = "mx"
    BY <1>2, <2>1, <2>5, DeliverEffect DEF ConnInv, In
  <2>6. CASE Deliver /\ driver = "mxb"
    <3>1. Good(iface) => Good(iface')
      <4> SUFFICES ASSUME Good(iface), iface'.state = "CONNECTED"
                   PROVE  iface'.ipaddr = iface'.net.addr /\ iface'.net.addr # "zero"
        BY DEF Good
      <4>1. iface.state = "CONNECTED" /\ iface.ipaddr = iface.net.addr /\ iface.net.addr # "zero"
            /\ iface'.net = iface.net
        BY <2>6, DeliverEffect DEF Good
      <4>2. CASE iface'.ipaddr = iface.ipaddr
        BY <4>1, <4>2
      <4>3. CASE iface'.ipaddr # iface.ipaddr
        <5>1. Head(reports) = "AP_UP" /\ iface'.ipaddr = "static" /\ reports # << >>
          BY <2>6, <4>3, DeliverEffect DEF Deliver
        <5>2. mode = "ap"
          <6>1. reports \notin Seq(Harmless)
            BY <5>1 DEF Harmless
          <6> QED
            BY <2>6, <6>1 DEF QuietInv, Types
        <5>3. iface.net.addr \in {"zero", "static", "lease"} /\ iface.net.addr # "lease"
          BY <1>0, <2>6, <5>2 DEF NetInv, Interface, Net, Addrs
        <5> QED
          BY <4>1, <5>1, <5>3
      <4> QED
        BY <4>2, <4>3
    <3> QED
      BY <1>1, <2>1, <2>6, <3>1 DEF OnLwip
  <2> QED
    BY <1>6, <2>2, <2>3, <2>4, <2>5, <2>6, DeliverEffect DEF Listening
<1>7. CASE NetIfInit \/ Configure \/ NetIfDeinit \/ SwitchMode
  BY <1>3, <1>4, <1>7, CallEffect
<1>8. ASSUME NEW c \in DOMAIN Expected, Command(c) PROVE ConnInv'
  BY <1>4, <1>8, CommandEffect DEF Commanded
<1>9. CASE AppStep
  <2>1. driver' = driver
    BY <1>9, StepEffect
  <2>2. CASE StepFails
    BY <1>3, <2>1, <2>2 DEF StepFails
  <2>3. CASE StepMakes /\ OnLwip
    BY <1>1, <1>9, <2>1, <2>3, StepGood
  <2>4. CASE StepMakes /\ driver \in {"es", "mx"}
    BY <1>2, <1>9, <2>1, <2>4, StepOwn DEF ConnInv
  <2> QED
    BY <1>0, <1>9, <2>2, <2>3, <2>4, StepEffect
<1> QED
  BY <1>5, <1>6, <1>7, <1>8, <1>9 DEF Next, Listening, AppCall

\* A connected interface has an address, and on lwIP it has an lwIP interface and the
\* address is lwIP's: the copy that net_ip_status_cb makes is made anew at every change,
\* the driver of mxb writes it only as an access point, where lwIP has the same, and no
\* driver adds or removes an lwIP interface that is connected, if the application does
\* not disconnect mxb in CONNECTING, nor connects it as an access point without an
\* address.
THEOREM AddressWhenConnected ==
  ASSUME Patient
  PROVE  Spec => []ConnectedHasAddress
<1> DEFINE Inv == Types /\ StageInv /\ NetInv /\ QuietInv /\ ConnInv
<1>1. Init => Inv
  <2> SUFFICES ASSUME Init PROVE Inv
    OBVIOUS
  <2>1. Types /\ StageInv
    BY TypesInit, StageInit
  <2>2. iface.net = NewNet /\ iface.state = "DEINITIALIZED" /\ mode = "sta" /\ ~asked
          /\ ~joined /\ reports = << >>
    BY DEF Init, NewInterface
  <2>3. reports \in Seq(Harmless)
    BY <2>2
  <2> QED
    BY <2>1, <2>2, <2>3 DEF NetInv, QuietInv, Still, ConnInv, Good, In
<1>2. Inv /\ [Next]_vars => Inv'
  BY TypesStep, StageStep, NetStep, QuietStep, ConnStep
<1>3. Inv => ConnectedHasAddress
  <2> SUFFICES ASSUME Inv, In({"CONNECTED"})
               PROVE  iface.ipaddr # "zero" /\ (OnLwip
                   => iface.ptr # NONE /\ iface.ipaddr = iface.net.addr)
    BY DEF ConnectedHasAddress, In
  <2>1. OnLwip => HasNetif
    BY LinkedOwns DEF In
  <2> QED
    BY <2>1 DEF ConnInv, Good, In, HasNetif
<1> QED
  BY <1>1, <1>2, <1>3, PTL DEF Spec

==============================================================================
