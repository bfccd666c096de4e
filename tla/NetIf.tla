-------------------------------- MODULE NetIf --------------------------------
(***************************************************************************)
(* The life of one network interface: net_if_init ... net_if_deinit of     *)
(* core/net_core.c, the state machine of NetState, the Ethernet driver     *)
(* netif/ethernet_if/net_ethernet_driver.c, the lwIP glue of               *)
(* services/net_ip_lwip.c, and the thread of the Ethernet port that polls  *)
(* the link (templates/net_conf_ethernet_template.c).  IPv4, no DHCP       *)
(* server.                                                                 *)
(*                                                                         *)
(* One task of the application sends the commands; todo holds the steps    *)
(* the command in progress has yet to make.  The thread of lwIP and the    *)
(* link thread (osPriorityHigh) preempt it.  net_ip_status_cb runs in the  *)
(* task whose call of lwIP changed something, and net_state_manage_event   *)
(* takes no lock: at[p] and seen[p] are the place a task p has reached in  *)
(* the callback and the state it has read and will act upon.               *)
(***************************************************************************)
EXTENDS Naturals, Sequences, NetState

CONSTANTS
  Apps,           \* the applications to look at
  COMMANDS_USED,  \* the commands they send
  LwipFirst,      \* is lwIP's thread never preempted by the application?
  MAX_BLOCKS      \* bound on the memory blocks ever held at once

Application ==
  [ sends : {"waits", "in order", "any order"},   \* when it sends a command, see MaySend
    modes : SUBSET BOOLEAN,                       \* the values of dhcp_mode it chooses from
    unset : BOOLEAN,                              \* does it connect without a static address too?
    leaseLoss : BOOLEAN ]                         \* does its DHCP client lose its lease?

ASSUME NetIfAssumption ==
  /\ Apps \subseteq Application
  /\ COMMANDS_USED \subseteq COMMANDS
  /\ LwipFirst \in BOOLEAN
  /\ MAX_BLOCKS \in Nat \ {0}

Addrs  == { "zero", "static", "lease" }
Tasks  == { "app", "lwip", "link" }
Places == { "off", "start", "ip", "ipevent", "link", "linkevent" }

VARIABLES
  app,        \* the application that uses the interface
  state,      \* pnetif->state
  ipaddr,     \* pnetif->ipaddr
  dhcp_mode,  \* pnetif->dhcp_mode
  release,    \* pnetif->dhcp_release_on_link_lost
  listed,     \* the interface is in NetIfList; NetInitialized has the same value
  hasDrv,     \* pnetif->pdrv # NULL
  hasNetif,   \* pnetif->netif # NULL
  drvs,       \* driver blocks allocated and not freed
  netifs,     \* lwIP interfaces allocated and not freed
  netif,      \* the lwIP interface: flags, address, DHCP client, callbacks
  thread,     \* the link thread runs
  linkStatus, \* its static variable link_status
  cable,      \* what the PHY sees
  sent,       \* the last command of an application that sends them in order
  todo,       \* the steps left of the command in progress
  at,         \* where each task is in net_ip_status_cb
  seen,       \* the event it is about to deliver, and the state it read for it
  nested      \* is it in the callback that its own dhcp_release invoked?

vars == << app, state, ipaddr, dhcp_mode, release, listed, hasDrv, hasNetif, drvs, netifs,
           netif, thread, linkStatus, cable, sent, todo, at, seen, nested >>

user  == << app, sent >>
core  == << listed, hasDrv, hasNetif, drvs, netifs >>
port  == << thread, linkStatus >>
cbs   == << at, seen, nested >>

NewNetif == [ up |-> FALSE, link |-> FALSE, addr |-> "zero", dhcp |-> "none", cb |-> FALSE ]

Netif == [ up : BOOLEAN, link : BOOLEAN, addr : Addrs,
           dhcp : {"none", "discover", "bound"}, cb : BOOLEAN ]

Init ==
  /\ app \in Apps
  /\ state = "DEINITIALIZED" /\ ipaddr = "zero"
  /\ dhcp_mode \in app.modes /\ release = FALSE
  /\ listed = FALSE /\ hasDrv = FALSE /\ hasNetif = FALSE
  /\ drvs = 0 /\ netifs = 0 /\ netif = NewNetif
  /\ thread = FALSE /\ linkStatus = FALSE
  /\ cable \in BOOLEAN
  /\ sent = "none" /\ todo = << >>
  /\ at = [ p \in Tasks |-> "off" ] /\ seen = [ p \in Tasks |-> << "none", "DEINITIALIZED" >> ]
  /\ nested = [ p \in Tasks |-> FALSE ]

-----------------------------------------------------------------------------
(* net_ip_status_cb, the status and the link callback of lwIP.             *)

\* A task runs only while no task above it is busy.
Above(p) ==
  CASE p = "link" -> {}
    [] p = "lwip" -> {"link"}
    [] p = "app"  -> IF LwipFirst THEN {"link", "lwip"} ELSE {"link"}

MayRun(p) == \A q \in Above(p) : at[q] = "off"

In(p, place) == MayRun(p) /\ at[p] = place

\* Task p makes lwIP change its interface to n.  The callback is invoked if a
\* flag or the address changed, not otherwise.
Changes(p, n) ==
  /\ netif' = n
  /\ at' = IF n.cb /\ (n.up # netif.up \/ n.link # netif.link \/ n.addr # netif.addr)
           THEN [ at EXCEPT ![p] = "start" ] ELSE at

\* A connection lost under DHCP: dhcp_release clears the address, which invokes
\* the callback again, and dhcp_start follows.
CallbackStart(p) ==
  /\ In(p, "start")
  /\ IF dhcp_mode /\ release /\ netif.addr # "zero" /\ ~netif.link
     THEN /\ netif' = [ netif EXCEPT !.dhcp = "discover",
                                    !.addr = IF netif.dhcp = "none" THEN netif.addr ELSE "zero" ]
          /\ nested' = [ nested EXCEPT ![p] = netif.dhcp # "none" ]
     ELSE UNCHANGED << netif, nested >>
  /\ at' = [ at EXCEPT ![p] = "ip" ]
  /\ UNCHANGED << state, ipaddr, dhcp_mode, release, core, port, cable, user, todo, seen >>

\* A new address is copied, and reported unless it is zero.
CallbackIp(p) ==
  /\ In(p, "ip")
  /\ ipaddr' = netif.addr
  /\ IF ipaddr # netif.addr /\ netif.addr # "zero"
     THEN /\ seen' = [ seen EXCEPT ![p] = << "IPADDR", state >> ]
          /\ at' = [ at EXCEPT ![p] = "ipevent" ]
     ELSE at' = [ at EXCEPT ![p] = "link" ] /\ UNCHANGED seen
  /\ UNCHANGED << state, dhcp_mode, release, core, netif, port, cable, user, todo, nested >>

CallbackLink_Swapped(p) ==
  /\ In(p, "link")
  /\ seen' = [ seen EXCEPT ![p] = << IF netif.link THEN "LINK_DOWN" ELSE "LINK_UP", state >> ]
  /\ at' = [ at EXCEPT ![p] = "linkevent" ]
  /\ UNCHANGED << state, ipaddr, dhcp_mode, release, core, netif, port, cable, user, todo, nested >>

\* The link is reported whether it changed or not.
CallbackLink(p) ==
  /\ In(p, "link")
  /\ seen' = [ seen EXCEPT ![p] = << IF netif.link THEN "LINK_UP" ELSE "LINK_DOWN", state >> ]
  /\ at' = [ at EXCEPT ![p] = "linkevent" ]
  /\ UNCHANGED << state, ipaddr, dhcp_mode, release, core, netif, port, cable, user, todo, nested >>

\* net_state_manage_event, from the state that was read to set_state.
CallbackEvent(p) ==
  /\ In(p, "ipevent") \/ In(p, "linkevent")
  /\ LET e == Reactions(seen[p][2], seen[p][1])
     IN  IF e = {} THEN UNCHANGED state ELSE \E r \in e : state' = r[3]
  /\ at' = [ at EXCEPT ![p] = IF at[p] = "ipevent" THEN "link"
                             ELSE IF nested[p] THEN "ip" ELSE "off" ]
  /\ nested' = [ nested EXCEPT ![p] = nested[p] /\ at[p] = "ipevent" ]
  /\ seen' = [ seen EXCEPT ![p] = << "none", "DEINITIALIZED" >> ]
  /\ UNCHANGED << ipaddr, dhcp_mode, release, core, netif, port, cable, user, todo >>

Quiet == \A p \in Tasks : at[p] = "off"

CallbackStep(p) ==
  CallbackStart(p) \/ CallbackIp(p) \/ CallbackLink(p) \/ CallbackEvent(p)

\* netif_set_link_up also restarts the DHCP client (dhcp_network_changed).
WithLink(n, b) ==
  [ n EXCEPT !.link = b,
             !.dhcp = IF b /\ ~n.link /\ n.dhcp = "bound" THEN "discover" ELSE n.dhcp ]

-----------------------------------------------------------------------------
(* Commands of the application.                                            *)

\* The documented flow: the state a command is meant for, the command before it.
Expected == [ CMD_START |-> "INITIALIZED", CMD_CONNECT |-> "READY",
              CMD_DISCONNECT |-> "CONNECTED", CMD_STOP |-> "READY",
              CMD_DEINIT |-> "INITIALIZED" ]

Before == [ CMD_START |-> "none", CMD_CONNECT |-> "CMD_START",
            CMD_DISCONNECT |-> "CMD_CONNECT", CMD_STOP |-> "CMD_DISCONNECT",
            CMD_DEINIT |-> "CMD_STOP" ]

MaySend(c) ==
  /\ c \in COMMANDS_USED
  /\ \/ app.sends = "waits"     /\ state = Expected[c]
     \/ app.sends = "in order"  /\ sent = Before[c]
     \/ app.sends = "any order" /\ (c = "CMD_DEINIT" => state = "INITIALIZED")

Sent(c) == sent' = (IF app.sends = "in order" THEN c ELSE sent) /\ UNCHANGED app

STEPS == { "add_if", "register", "link_up", "set_up", "ready", "obtain", "release", "set_down",
           "link_down", "remove_if", "initialized", "free_drv", "unlist" }

\* The steps of a driver function, one for each point where it may be preempted.
StepsOf(call) ==
  CASE call = "if_start"      -> << "add_if", "register", "link_up", "set_up", "ready" >>
    [] call = "if_connect"    -> << "set_up", "obtain" >>
    [] call = "if_disconnect" -> << "release", "ready" >>
    [] call = "if_stop"       -> << "set_down", "link_down", "remove_if", "initialized" >>
    [] call = "if_deinit"     -> << "free_drv" >>
    [] OTHER                  -> << >>

AppRuns == In("app", "off")

Doing(step) == AppRuns /\ todo # << >> /\ Head(todo) = step

\* The driver works after the new state is set, but for CMD_DEINIT.
StepsOfEdge(e) ==
  IF e[2] = "CMD_DEINIT" THEN StepsOf(e[4]) \o << e[3] >> ELSE << e[3] >> \o StepsOf(e[4])

\* net_if_init.  If the driver cannot be allocated, nothing remains.
NetIfInit ==
  /\ AppRuns /\ todo = << >> /\ state = "DEINITIALIZED" /\ drvs < MAX_BLOCKS
  /\ state' = React("INITIALIZED", "INTERFACE_INITIALIZED") /\ Sent("none")
  /\ listed' = TRUE /\ hasDrv' = TRUE /\ drvs' = drvs + 1
  /\ UNCHANGED << ipaddr, dhcp_mode, release, hasNetif, netifs, netif, port, cable, todo, cbs >>

\* net_if_start, net_if_stop, net_if_connect, net_if_disconnect.
Command(c) ==
  /\ AppRuns /\ todo = << >> /\ c # "CMD_DEINIT"
  /\ MaySend(c) /\ Sent(c)
  /\ IF Reactions(state, c) = {} THEN UNCHANGED todo
     ELSE \E e \in Reactions(state, c) : todo' = StepsOfEdge(e)
  /\ UNCHANGED << state, ipaddr, dhcp_mode, release, core, netif, port, cable, cbs >>

NetIfDeinit_FreesNothing ==
  /\ AppRuns /\ todo = << >> /\ state # "DEINITIALIZED"
  /\ MaySend("CMD_DEINIT") /\ Sent("CMD_DEINIT")
  /\ todo' = << "DEINITIALIZED", "unlist" >>
  /\ UNCHANGED << state, ipaddr, dhcp_mode, release, core, netif, port, cable, cbs >>

\* net_if_deinit goes on when the event was ignored.
NetIfDeinit ==
  /\ AppRuns /\ todo = << >> /\ state # "DEINITIALIZED"
  /\ MaySend("CMD_DEINIT") /\ Sent("CMD_DEINIT")
  /\ todo' = (IF state = "INITIALIZED" THEN << "free_drv" >> ELSE << >>)
               \o << "DEINITIALIZED", "unlist" >>
  /\ UNCHANGED << state, ipaddr, dhcp_mode, release, core, netif, port, cable, cbs >>

\* net_if_set_dhcp_mode
SetDhcpMode ==
  /\ AppRuns /\ todo = << >>
  /\ \E m \in app.modes \ {dhcp_mode} : dhcp_mode' = m
  /\ UNCHANGED << state, ipaddr, release, core, netif, port, cable, user, todo, cbs >>

\* set_state, whatever became of the state since it was read.
SetState ==
  /\ AppRuns /\ todo # << >> /\ Head(todo) \in NET_STATES
  /\ state' = Head(todo)
  /\ todo' = Tail(todo)
  /\ UNCHANGED << ipaddr, dhcp_mode, release, core, netif, port, cable, user, cbs >>

\* netif_remove_from_list and the end of net_if_deinit.
Unlist ==
  /\ Doing("unlist")
  /\ listed' = FALSE
  /\ todo' = Tail(todo)
  /\ UNCHANGED << state, ipaddr, dhcp_mode, release, hasDrv, hasNetif, drvs, netifs,
                  netif, port, cable, user, cbs >>

-----------------------------------------------------------------------------
(* The Ethernet driver and the lwIP glue.                                  *)

\* net_ip_add_if and ethernetif_init: a new link thread, which starts at once
\* and sets the link to what it last saw.
AddIf ==
  /\ Doing("add_if") /\ netifs < MAX_BLOCKS
  /\ hasNetif' = TRUE /\ netifs' = netifs + 1
  /\ netif' = [ NewNetif EXCEPT !.link = linkStatus ]
  /\ thread' = TRUE
  /\ todo' = Tail(todo)
  /\ UNCHANGED << state, ipaddr, dhcp_mode, release, listed, hasDrv, drvs, linkStatus, cable, user, cbs >>

\* The interface cannot be allocated: if_start fails in STARTING.
AddIfFails ==
  /\ Doing("add_if")
  /\ todo' = << >> /\ Sent("failed")
  /\ UNCHANGED << state, ipaddr, dhcp_mode, release, core, netif, port, cable, cbs >>

\* Link and interface are taken down before the callbacks are registered.
Register ==
  /\ Doing("register")
  /\ netif' = [ netif EXCEPT !.up = FALSE, !.link = FALSE, !.cb = TRUE ]
  /\ todo' = Tail(todo)
  /\ UNCHANGED << state, ipaddr, dhcp_mode, release, core, port, cable, user, cbs >>

LinkUp   == Doing("link_up")   /\ Changes("app", WithLink(netif, TRUE))
LinkDown == Doing("link_down") /\ Changes("app", WithLink(netif, FALSE))
SetUp    == Doing("set_up")    /\ Changes("app", [ netif EXCEPT !.up = TRUE ])
SetDown  == Doing("set_down")  /\ Changes("app", [ netif EXCEPT !.up = FALSE ])

SetFlag ==
  /\ LinkUp \/ LinkDown \/ SetUp \/ SetDown
  /\ todo' = Tail(todo)
  /\ UNCHANGED << state, ipaddr, dhcp_mode, release, core, port, cable, user, seen, nested >>

\* net_ip_connect without a static address: if_connect fails in CONNECTING, before
\* it has done anything.
ConnectFails ==
  /\ AppRuns /\ todo = StepsOf("if_connect") /\ app.unset /\ ~dhcp_mode
  /\ todo' = << >> /\ Sent("failed")
  /\ UNCHANGED << state, ipaddr, dhcp_mode, release, core, netif, port, cable, cbs >>

\* net_ip_connect: start the DHCP client, or set the static address.
Obtain ==
  /\ Doing("obtain")
  /\ IF dhcp_mode
     THEN /\ release' = TRUE
          /\ netif' = [ netif EXCEPT !.dhcp = "discover" ]
          /\ UNCHANGED at
     ELSE Changes("app", [ netif EXCEPT !.addr = "static" ]) /\ UNCHANGED release
  /\ todo' = Tail(todo)
  /\ UNCHANGED << state, ipaddr, dhcp_mode, core, port, cable, user, seen, nested >>

\* net_ip_disconnect
ReleaseAddr ==
  /\ Doing("release")
  /\ Changes("app", [ netif EXCEPT !.addr = "zero", !.dhcp = "none" ])
  /\ todo' = Tail(todo)
  /\ UNCHANGED << state, ipaddr, dhcp_mode, release, core, port, cable, user, seen, nested >>

RemoveIf_KeepsPointer ==
  /\ Doing("remove_if")
  /\ netifs' = IF hasNetif THEN netifs - 1 ELSE netifs
  /\ netif' = NewNetif /\ thread' = FALSE
  /\ todo' = Tail(todo)
  /\ UNCHANGED << state, ipaddr, dhcp_mode, release, listed, hasDrv, drvs, hasNetif, linkStatus, cable, user, cbs >>

RemoveIf_KeepsThread ==
  /\ Doing("remove_if")
  /\ IF hasNetif
     THEN hasNetif' = FALSE /\ netifs' = netifs - 1 /\ netif' = NewNetif
     ELSE UNCHANGED << hasNetif, netifs, netif >>
  /\ todo' = Tail(todo)
  /\ UNCHANGED << state, ipaddr, dhcp_mode, release, listed, hasDrv, drvs, port, cable, user, cbs >>

\* The end of net_ip_remove_if; ethernetif_deinit stops the link thread.
RemoveIf ==
  /\ Doing("remove_if")
  /\ IF hasNetif
     THEN hasNetif' = FALSE /\ netifs' = netifs - 1 /\ netif' = NewNetif /\ thread' = FALSE
     ELSE UNCHANGED << hasNetif, netifs, netif, thread >>
  /\ todo' = Tail(todo)
  /\ UNCHANGED << state, ipaddr, dhcp_mode, release, listed, hasDrv, drvs, linkStatus, cable, user, cbs >>

\* The driver's own report at the end of if_start, if_disconnect and if_stop.
Report ==
  /\ \/ Doing("ready")       /\ state' = React(state, "INTERFACE_READY")
     \/ Doing("initialized") /\ state' = React(state, "INTERFACE_INITIALIZED")
  /\ todo' = Tail(todo)
  /\ UNCHANGED << ipaddr, dhcp_mode, release, core, netif, port, cable, user, cbs >>

\* net_ethernet_if_deinit
FreeDrv ==
  /\ Doing("free_drv")
  /\ hasDrv' = FALSE /\ drvs' = drvs - 1
  /\ todo' = Tail(todo)
  /\ UNCHANGED << state, ipaddr, dhcp_mode, release, listed, hasNetif, netifs, netif, port, cable, user, cbs >>

-----------------------------------------------------------------------------
(* What preempts the application.                                          *)

\* A PHY takes seconds to negotiate a link anew: no callback lasts so long.
Cable ==
  /\ ~cable => Quiet
  /\ cable' = ~cable
  /\ UNCHANGED << state, ipaddr, dhcp_mode, release, core, netif, port, user, todo, cbs >>

\* One turn of ethernetif_task.
PollLink ==
  /\ In("link", "off") /\ thread /\ linkStatus # cable
  /\ linkStatus' = cable
  /\ Changes("link", WithLink(netif, cable))
  /\ UNCHANGED << state, ipaddr, dhcp_mode, release, core, thread, cable, user, todo, seen, nested >>

\* The DHCP client of lwIP is granted a lease, the same one each time.
DhcpBound ==
  /\ In("lwip", "off") /\ netif.dhcp = "discover" /\ netif.link /\ netif.up /\ cable
  /\ Changes("lwip", [ netif EXCEPT !.addr = "lease", !.dhcp = "bound" ])
  /\ UNCHANGED << state, ipaddr, dhcp_mode, release, core, port, cable, user, todo, seen, nested >>

DhcpLost ==
  /\ In("lwip", "off") /\ app.leaseLoss /\ netif.dhcp = "bound"
  /\ Changes("lwip", [ netif EXCEPT !.addr = "zero", !.dhcp = "discover" ])
  /\ UNCHANGED << state, ipaddr, dhcp_mode, release, core, port, cable, user, todo, seen, nested >>

-----------------------------------------------------------------------------

AppStep == SetState \/ Unlist \/ AddIf \/ AddIfFails \/ Register \/ SetFlag \/ ConnectFails
             \/ Obtain \/ ReleaseAddr \/ RemoveIf \/ Report \/ FreeDrv

AppCall == NetIfInit \/ NetIfDeinit \/ SetDhcpMode \/ \E c \in COMMANDS_USED : Command(c)

Next ==
  \/ AppCall \/ AppStep \/ Cable \/ PollLink \/ DhcpBound \/ DhcpLost
  \/ \E p \in Tasks : CallbackStep(p)

Spec == Init /\ [][Next]_vars

\* A command in progress goes on; the link thread polls; a DHCP server that can
\* be reached answers.  Nobody has to send a command or to mend the cable.
FairSpec ==
  /\ Spec /\ WF_vars(AppStep) /\ WF_vars(PollLink) /\ WF_vars(DhcpBound)
  /\ \A p \in Tasks : WF_vars(CallbackStep(p))

-----------------------------------------------------------------------------
(* Properties.                                                             *)

\* Every variable has its type.
TypeOK ==
  /\ app \in Apps
  /\ state \in NET_STATES /\ ipaddr \in Addrs
  /\ dhcp_mode \in BOOLEAN /\ release \in BOOLEAN
  /\ listed \in BOOLEAN /\ hasDrv \in BOOLEAN /\ hasNetif \in BOOLEAN
  /\ drvs \in 0 .. MAX_BLOCKS /\ netifs \in 0 .. MAX_BLOCKS
  /\ netif \in Netif
  /\ sent \in COMMANDS \cup {"none", "failed"}
  /\ thread \in BOOLEAN /\ linkStatus \in BOOLEAN /\ cable \in BOOLEAN
  /\ todo \in Seq(NET_STATES \cup STEPS)
  /\ at \in [ Tasks -> Places ] /\ nested \in [ Tasks -> BOOLEAN ]
  /\ seen \in [ Tasks -> (REPORTS \cup {"none"}) \X NET_STATES ]

Idle == todo = << >> /\ Quiet

\* A driver function that works on the lwIP interface finds one, and the link
\* thread never works on one that was freed.
NetifInUse ==
  /\ \A s \in {"register", "link_up", "set_up", "obtain", "release"} : Doing(s) => netifs > 0
  /\ thread \/ ~Quiet => netifs > 0
  /\ hasNetif => netifs > 0

\* if_start never puts a second lwIP interface in the place of a first.
NoNetifLeak == netifs = (IF hasNetif THEN 1 ELSE 0)

\* An interface that is started and not being stopped has its lwIP interface;
\* one that is INITIALIZED has given it back, link thread and all.
StateOwnsNetif ==
  /\ state \in {"READY", "CONNECTING", "CONNECTED", "DISCONNECTING", "CONNECTION_LOST"}
        => hasNetif /\ thread
  /\ Idle /\ state = "INITIALIZED" => ~hasNetif /\ ~thread /\ hasDrv

\* "Network interface is connected and got an IP address", if no lease is lost.
ConnectedHasAddress ==
  ~app.leaseLoss /\ Quiet /\ state = "CONNECTED" => ipaddr # "zero" /\ ipaddr = netif.addr

\* What lwIP and the link thread report changes the state only between
\* CONNECTING, CONNECTED and CONNECTION_LOST: a late callback never revives an
\* interface that was disconnected, and never cuts a command short.
Linked == {"CONNECTING", "CONNECTED", "CONNECTION_LOST"}

ReportsStayLinked ==
  [][ (\E p \in Tasks : CallbackEvent(p)) =>
        state' = state \/ (state \in Linked /\ state' \in Linked) ]_vars

\* "All connection are closed and allocated resources are freed" by the flow
\* disconnect, stop, deinit.
DeinitFreesAll == Idle /\ state = "DEINITIALIZED" => drvs = 0 /\ netifs = 0 /\ ~thread

\* CONNECTION_LOST "can return to connected state without application specific
\* action", and a connection that is being made completes, if the cable stays in:
\* for an application that waits for each state.
Recovers ==
  app.sends = "waits" /\ state \in {"CONNECTION_LOST", "CONNECTING"} /\ cable
    ~> state \notin {"CONNECTION_LOST", "CONNECTING"} \/ ~cable
=============================================================================
