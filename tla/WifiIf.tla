------------------------------- MODULE WifiIf -------------------------------
(***************************************************************************)
(* The life of one WiFi interface, net_if_init to net_if_deinit, on each   *)
(* of the drivers of netif/wifi_if:                                        *)
(*   es   es_wifi, the IP stack is in the module;                          *)
(*   mx   mx_wifi, the IP stack is in the module;                          *)
(*   mxb  mx_wifi built with MX_WIFI_NETWORK_BYPASS_MODE, on lwIP;         *)
(*   cy   cypress_wifi, on lwIP, with a thread for the link;               *)
(*   st   st_wifi, on lwIP.                                                *)
(*                                                                         *)
(* An operator named for a function of a driver is the list of the steps   *)
(* the function makes; what the module does comes between two of them.     *)
(* The firmware of the modules and their host libraries are external: a    *)
(* module joins a network and loses it when it likes, and tells the driver *)
(* so in the order it happened, sooner or later.                           *)
(***************************************************************************)
EXTENDS Naturals, Sequences, FiniteSets, LwipIf

CONSTANTS
  Drivers,       \* the drivers to look at
  Restarts,      \* those the application starts a second time
  Impatient,     \* those it takes back a CMD_CONNECT on, in CONNECTING
  Unaddressed,   \* those it may connect without DHCP and without a static address
  Bounces,       \* cy's module changes its mind before the link thread has run
  MAX_REPORTS,   \* bound on what the module has told and nobody has heard
  MAX_THREADS,   \* bound on the threads of mxb; after that net_ip_add_if fails
  MX_WIFI_MAX_TX_BUFFER_COUNT

ASSUME WifiIfAssumption ==
  /\ Drivers \subseteq {"es", "mx", "mxb", "cy", "st"}
  /\ Restarts \subseteq Drivers /\ Impatient \subseteq Drivers /\ Unaddressed \subseteq Drivers
  /\ Bounces \in BOOLEAN
  /\ MAX_REPORTS \in Nat \ {0} /\ MAX_THREADS \in Nat \ {0}
  /\ MX_WIFI_MAX_TX_BUFFER_COUNT \in Nat \ {0}

VARIABLES
  driver,     \* the driver the application was built with
  mode,       \* pdrv->extension.wifi->mode
  drv,        \* the driver's block: none, live, or lost by an init that failed
  iface,      \* the interface, see LwipIf
  todo,       \* the steps left of the command in progress
  failed,     \* the last command failed
  asked,      \* the module was told to join a network, or to be an access point
  joined,     \* it has done so
  reports,    \* what it told about it, first in first out
  flags,      \* LinkStatusFlags of cy
  linkNetif,  \* the lwIP interface that cy's link thread works on
  netif2ifp,  \* cy: the lwIP interfaces entered for its interface, oldest first
  handle,     \* mxb: Station_pNetif or SoftAP_pNetif points to the interface
  fifo,       \* mxb: the frames in Fifo
  threads,    \* mxb: the transmit threads that were started; none of them ends
  sending,    \* mxb: how many of them have a frame in their hands
  pbufs,      \* mxb: the frames the driver holds a reference to
  starts      \* how often the interface was started

vars == << driver, mode, drv, iface, todo, failed, asked, joined, reports, flags, linkNetif,
           netif2ifp, handle, fifo, threads, sending, pbufs, starts >>

radio == << asked, joined, reports >>
cy    == << flags, linkNetif, netif2ifp >>
tx    == << fifo, threads, sending, pbufs >>

NewInterface ==
  [ state |-> "DEINITIALIZED", ipaddr |-> "zero", dhcp_mode |-> TRUE, release |-> FALSE,
    ptr |-> NONE, live |-> {}, net |-> NewNet ]

Init ==
  /\ driver \in Drivers /\ mode = "sta"
  /\ drv = "none" /\ iface = NewInterface /\ todo = << >> /\ failed = FALSE
  /\ asked = FALSE /\ joined = FALSE /\ reports = << >>
  /\ flags = {} /\ linkNetif = NONE /\ netif2ifp = << >> /\ handle = FALSE
  /\ fifo = 0 /\ threads = 0 /\ sending = 0 /\ pbufs = 0 /\ starts = 0

MAX_STARTS == IF driver \in Restarts THEN 2 ELSE 1

-----------------------------------------------------------------------------
(* The functions of the drivers.                                           *)

es_wifi_if_start      == << "ready" >>
es_wifi_if_stop       == << "initialized" >>
es_wifi_if_connect    == << "join", "own address" >>
es_wifi_if_disconnect == << "leave", "ready" >>

\* The module is told to join before it has; STA_UP or AP_UP makes it READY.  What
\* the module receives is for the handle that if_start leaves.
mx_wifi_if_start_station_ForgetsHandle == << "ask" >>

mx_wifi_if_start_station == IF driver = "mxb" THEN << "ask", "handle" >> ELSE << "ask" >>
mx_wifi_if_start_softap  == IF driver = "mxb" THEN << "ask", "handle" >> ELSE << "ask" >>
mx_wifi_if_start == IF mode = "sta" THEN mx_wifi_if_start_station ELSE mx_wifi_if_start_softap
mx_wifi_if_stop  == << "leave", "no handle", "initialized" >>

mx_wifi_if_connect ==
  IF driver = "mxb" THEN << "add_if", "link_up", "ip_connect" >> ELSE << "own address" >>

mx_wifi_if_disconnect_KeepsNetif ==
  IF driver = "mxb" THEN << "ip_disconnect", "ready" >> ELSE << "ready" >>

mx_wifi_if_disconnect ==
  IF driver = "mxb" THEN << "ip_disconnect", "remove_if", "ready" >> ELSE << "ready" >>

net_cypress_whd_if_start_sta  == << "join", "add_if", "ready", "link_up" >>
net_cypress_whd_if_start_ap   == << "join", "add_if", "ready", "link_up" >>
net_cypress_whd_if_connect    == << "ip_connect" >>
net_cypress_whd_if_disconnect == << "ip_disconnect", "ready" >>
net_cypress_whd_if_stop       == << "remove_if", "initialized", "leave" >>

\* Between the modes; INTERFACE_READY means nothing where it comes.
net_cypress_whd_id_switch_mode ==
  IF mode = "ap" THEN << "leave", "join", "sta" >>
  ELSE << "link_down", "leave", "join", "ready", "link_up", "ap" >>

\* As an access point it is READY when LINK_UP comes.
st_wifi_if_start ==
  IF mode = "sta" THEN << "power up", "add_if", "ready" >> ELSE << "power up", "add_if" >>

\* The lwIP interface is not removed.
st_wifi_if_stop       == << "power down", "initialized" >>
st_wifi_if_connect    == << "ask", "ip_connect" >>
st_wifi_if_disconnect == << "leave", "ready" >>

Functions ==
  [ es  |-> [ if_start      |-> es_wifi_if_start,   if_stop       |-> es_wifi_if_stop,
              if_connect    |-> es_wifi_if_connect, if_disconnect |-> es_wifi_if_disconnect ],
    mx  |-> [ if_start      |-> mx_wifi_if_start,   if_stop       |-> mx_wifi_if_stop,
              if_connect    |-> mx_wifi_if_connect, if_disconnect |-> mx_wifi_if_disconnect ],
    mxb |-> [ if_start      |-> mx_wifi_if_start,   if_stop       |-> mx_wifi_if_stop,
              if_connect    |-> mx_wifi_if_connect, if_disconnect |-> mx_wifi_if_disconnect ],
    cy  |-> [ if_start      |-> IF mode = "sta" THEN net_cypress_whd_if_start_sta
                                                ELSE net_cypress_whd_if_start_ap,
              if_stop       |-> net_cypress_whd_if_stop,
              if_connect    |-> net_cypress_whd_if_connect,
              if_disconnect |-> net_cypress_whd_if_disconnect ],
    st  |-> [ if_start      |-> st_wifi_if_start,   if_stop       |-> st_wifi_if_stop,
              if_connect    |-> st_wifi_if_connect, if_disconnect |-> st_wifi_if_disconnect ] ]

-----------------------------------------------------------------------------
(* The application.                                                        *)

Idle == todo = << >>

\* What becomes of the block in if_init, and whether it returned zero.  There may
\* be no memory for it; or the module does not answer, and the block of es, mx and
\* st, and of cy if whd_boot failed, is forgotten with nobody to free it.  Without
\* memory st goes on to read through pdrv, NULL or of a block long freed, which is
\* undefined; here it fails.
Block(d, ok) == [ drv |-> d, ok |-> ok ]

es_wifi_if_init        == { Block("live", TRUE), Block("lost", FALSE), Block(drv, FALSE) }
hw_start               == { Block("live", TRUE), Block("lost", FALSE) }
mx_wifi_if_init        == hw_start \cup { Block(drv, FALSE) }
net_cypress_whd_if_init == { Block("live", TRUE), Block("lost", FALSE), Block(drv, FALSE) }
st_wifi_if_init        == { Block("live", TRUE), Block("lost", FALSE), Block(drv, FALSE) }

if_init ==
  CASE driver = "es" -> es_wifi_if_init
    [] driver \in {"mx", "mxb"} -> mx_wifi_if_init
    [] driver = "cy" -> net_cypress_whd_if_init
    [] driver = "st" -> st_wifi_if_init

\* net_if_init
NetIfInit ==
  /\ Idle /\ iface.state = "DEINITIALIZED"
  /\ \E b \in if_init :
       /\ drv' = b.drv
       /\ iface' = [ iface EXCEPT !.state = IF b.ok THEN "INITIALIZED" ELSE @,
                           !.dhcp_mode = @ \/ driver \in {"mx", "mxb"} ]
       /\ netif2ifp' = IF driver = "cy" THEN << >> ELSE netif2ifp
  /\ mode' = "sta"
  /\ UNCHANGED << driver, todo, failed, radio, flags, linkNetif, handle, tx, starts >>

\* net_wifi_set_access_mode and net_if_set_dhcp_mode, before the interface is
\* started: a station asks for an address, an access point has one.
Configure ==
  /\ Idle /\ iface.state = "INITIALIZED"
  /\ \E m \in {"sta", "ap"} \ {mode} :
       mode' = m /\ iface' = [ iface EXCEPT !.dhcp_mode = (m = "sta") ]
  /\ UNCHANGED << driver, drv, todo, failed, radio, cy, handle, tx, starts >>

\* The state a command is meant for; a command that failed is taken back.
Expected == [ CMD_START |-> "INITIALIZED", CMD_CONNECT |-> "READY",
              CMD_DISCONNECT |-> "CONNECTED", CMD_STOP |-> "READY" ]

Undoes == [ CMD_START |-> "none", CMD_CONNECT |-> "none",
            CMD_DISCONNECT |-> "CONNECTING", CMD_STOP |-> "STARTING" ]

MaySend(c) ==
  /\ \/ iface.state = Expected[c]
     \/ iface.state = Undoes[c] /\ (failed \/ driver \in Impatient)
  /\ c = "CMD_START" => starts < MAX_STARTS
  /\ c = "CMD_CONNECT" => ~failed

\* net_if_start, net_if_stop, net_if_connect, net_if_disconnect.
Command(c) ==
  /\ Idle /\ MaySend(c)
  /\ \E e \in Reactions(iface.state, c) :
       /\ iface' = [ iface EXCEPT !.state = e[3] ]
       /\ todo' = IF e[4] = "none" THEN << >> ELSE Functions[driver][e[4]]
  /\ failed' = FALSE
  /\ starts' = IF c = "CMD_START" THEN starts + 1 ELSE starts
  /\ UNCHANGED << driver, mode, drv, radio, cy, handle, tx >>

\* net_wifi_switch_mode; only cy has it.
SwitchMode ==
  /\ Idle /\ driver = "cy" /\ iface.state \in {"READY", "CONNECTED"}
  /\ todo' = net_cypress_whd_id_switch_mode
  /\ failed' = FALSE
  /\ UNCHANGED << driver, mode, drv, iface, radio, cy, handle, tx, starts >>

\* The block after if_deinit.  cy looks for its interface in netif2ifp first, and
\* frees nothing if it is not there, that is, if it was never started.
es_wifi_if_deinit          == "none"
mx_wifi_if_deinit          == "none"
net_cypress_whd_if_deinit  == IF netif2ifp = << >> THEN drv ELSE "none"
st_wifi_if_deinit          == "none"

if_deinit ==
  CASE driver = "es" -> es_wifi_if_deinit
    [] driver \in {"mx", "mxb"} -> mx_wifi_if_deinit
    [] driver = "cy" -> net_cypress_whd_if_deinit
    [] driver = "st" -> st_wifi_if_deinit

\* net_if_deinit
NetIfDeinit ==
  /\ Idle /\ iface.state = "INITIALIZED"
  /\ iface' = [ iface EXCEPT !.state = "DEINITIALIZED" ]
  /\ drv' = if_deinit
  /\ netif2ifp' = IF netif2ifp = << >> THEN netif2ifp ELSE Tail(netif2ifp)
  /\ UNCHANGED << driver, mode, todo, failed, radio, flags, linkNetif, handle, tx, starts >>

-----------------------------------------------------------------------------
(* The steps of a function.                                                *)

Doing(step) == todo # << >> /\ Head(todo) = step

\* The thread that hands mx the answer to a call hands it the reports before.
Answered == driver \in {"mx", "mxb"} => reports = << >>

Goes  == todo' = Tail(todo) /\ UNCHANGED failed
Fails == todo' = << >> /\ failed' = TRUE

\* What the module tells when it joins, and when it is no longer joined.  An
\* access point of cy and all of es tell nothing; cy has flags.
Up ==
  CASE driver \in {"mx", "mxb"} /\ mode = "ap" -> << "AP_UP" >>
    [] driver = "mx"  /\ mode = "sta" -> << "STA_UP", "STA_GOT_IP" >>
    [] driver = "mxb" /\ mode = "sta" -> << "STA_UP" >>
    [] driver = "st" -> << "LINK_UP" >>
    [] OTHER -> << >>

Down ==
  CASE driver \in {"mx", "mxb"} -> IF mode = "ap" THEN << "AP_DOWN" >> ELSE << "STA_DOWN" >>
    [] driver = "st" -> << "LINK_DOWN" >>
    [] OTHER -> << >>

\* net_cypress_whd_event_handler: the event is one of two flags.
Flagged(flag) == IF driver = "cy" /\ mode = "sta" THEN flags \cup {flag} ELSE flags

\* The module is told to join, and the function waits until it has.
Join ==
  /\ Doing("join")
  /\ \/ /\ asked' = TRUE /\ joined' = TRUE /\ Goes
        /\ flags' \in {flags, Flagged("UP")}
     \/ Fails /\ UNCHANGED << asked, joined, flags >>
  /\ UNCHANGED << driver, mode, drv, iface, reports, linkNetif, netif2ifp, handle, tx, starts >>

\* The module is told to join, and the function goes on.
Ask ==
  /\ Doing("ask") /\ Answered
  /\ \/ Goes  /\ asked' = TRUE
     \/ Fails /\ UNCHANGED asked
  /\ UNCHANGED << driver, mode, drv, iface, joined, reports, cy, handle, tx, starts >>

\* The module leaves.  What st returns is looked at, what the others return is not.
Leave ==
  /\ Doing("leave") \/ Doing("power down")
  /\ Answered
  /\ \/ /\ asked' = FALSE /\ joined' = FALSE /\ Goes
        /\ reports' = IF joined THEN reports \o Down ELSE reports
        /\ flags' \in {flags, IF joined THEN Flagged("DOWN") ELSE flags}
     \/ driver = "st" /\ Fails /\ UNCHANGED << asked, joined, reports, flags >>
  /\ UNCHANGED << driver, mode, drv, iface, linkNetif, netif2ifp, handle, tx, starts >>

\* wifi_start of st
PowerUp ==
  /\ Doing("power up")
  /\ \/ Goes  /\ asked' = (mode = "ap")
     \/ Fails /\ UNCHANGED asked
  /\ UNCHANGED << driver, mode, drv, iface, joined, reports, cy, handle, tx, starts >>

\* low_level_init of cy: an entry of netif2ifp, and a link thread if there is none.
net_cypress_low_level_init(netif) ==
  /\ netif2ifp' = Append(netif2ifp, netif)
  /\ linkNetif' = IF linkNetif = NONE THEN netif ELSE linkNetif

\* low_level_init of mxb: Fifo is made anew, whatever is in it, and one more thread
\* is started, whoever runs already.  It starts: without it netif_add fails, and
\* net_ip_add_if reads through the NULL that it returns.
mx_wifi_low_level_init == fifo' = 0 /\ threads' = threads + 1

\* net_ip_add_if, with the driver's init function.
AddIf ==
  /\ Doing("add_if")
  /\ \E o \in net_ip_add_if(iface) :
       /\ o.ok /\ driver = "mxb" => threads < MAX_THREADS
       /\ iface' = o.x
       /\ IF o.ok THEN Goes ELSE Fails
       /\ IF o.ok /\ driver = "cy" THEN net_cypress_low_level_init(o.x.ptr)
          ELSE UNCHANGED << netif2ifp, linkNetif >>
       /\ IF o.ok /\ driver = "mxb" THEN mx_wifi_low_level_init
          ELSE UNCHANGED << fifo, threads >>
  /\ UNCHANGED << driver, mode, drv, radio, flags, handle, sending, pbufs, starts >>

\* A step that only calls lwIP or reports to the state machine.
Glue ==
  /\ \/ Doing("ready")         /\ Goes /\ iface' = Event(iface, "INTERFACE_READY")
     \/ Doing("initialized")   /\ Goes /\ iface' = Event(iface, "INTERFACE_INITIALIZED")
     \/ Doing("link_up")       /\ Goes /\ iface' = SetLink(iface, TRUE)
     \/ Doing("link_down")     /\ Goes /\ iface' = SetLink(iface, FALSE)
     \/ Doing("ip_disconnect") /\ Goes /\ iface' = net_ip_disconnect(iface).x
     \/ Doing("remove_if")     /\ Goes /\ iface' = net_ip_remove_if(iface).x
     \/ /\ Doing("ip_connect")
        /\ \E o \in net_ip_connect(iface) :
             /\ o.ok \/ iface.ptr = NONE \/ driver \in Unaddressed
             /\ iface' = o.x
             /\ IF o.ok THEN Goes ELSE Fails
  /\ UNCHANGED << driver, mode, drv, radio, cy, handle, tx, starts >>

\* The address is the module's: it is asked for it, and IPADDR reported.
OwnAddr == IF mode = "sta" THEN "lease" ELSE "static"

OwnAddress ==
  /\ Doing("own address") /\ Answered
  /\ \/ Goes /\ iface' = Event([ iface EXCEPT !.ipaddr = OwnAddr ], "IPADDR")
     \/ (driver = "es" => mode = "sta") /\ Fails /\ UNCHANGED iface
  /\ UNCHANGED << driver, mode, drv, radio, cy, handle, tx, starts >>

\* mx_wifi_if_start and mx_wifi_if_stop, bypass mode.
SetHandle ==
  /\ Doing("handle") \/ Doing("no handle")
  /\ handle' = Doing("handle") /\ Goes
  /\ UNCHANGED << driver, mode, drv, iface, radio, cy, tx, starts >>

Switched ==
  /\ Doing("sta") \/ Doing("ap")
  /\ mode' = Head(todo) /\ Goes
  /\ UNCHANGED << driver, drv, iface, radio, cy, handle, tx, starts >>

-----------------------------------------------------------------------------
(* The module, and those who listen to it.                                 *)

Room == Len(reports) + 2 <= MAX_REPORTS /\ (Bounces \/ flags = {})

ModuleJoins ==
  /\ asked /\ ~joined /\ Room
  /\ joined' = TRUE
  /\ reports' = reports \o Up /\ flags' = Flagged("UP")
  /\ UNCHANGED << driver, mode, drv, iface, todo, failed, asked, linkNetif, netif2ifp, handle, tx, starts >>

\* Not in the moment between the join of cy and the registration of its handler.
ModuleLoses ==
  /\ joined /\ Room /\ ~Doing("sta")
  /\ joined' = FALSE
  /\ reports' = reports \o Down /\ flags' = Flagged("DOWN")
  /\ UNCHANGED << driver, mode, drv, iface, todo, failed, asked, linkNetif, netif2ifp, handle, tx, starts >>

mx_wifi_status_changed_WrongState(status) ==
  CASE status = "STA_DOWN" ->
         IF iface.state = "STOPPING" THEN Event(iface, "INTERFACE_INITIALIZED")
         ELSE IF iface.state = "CONNECTING" THEN Event(iface, "LINK_DOWN") ELSE iface
    [] status = "STA_UP" ->
         IF driver = "mxb" /\ iface.state # "STARTING" THEN iface ELSE Event(iface, "INTERFACE_READY")
    [] status = "STA_GOT_IP" -> Event([ iface EXCEPT !.ipaddr = "lease" ], "IPADDR")
    [] status = "AP_DOWN" ->
         Event(iface, IF iface.state = "CONNECTED" THEN "LINK_DOWN" ELSE "INTERFACE_READY")
    [] status = "AP_UP" -> Event([ iface EXCEPT !.ipaddr = "static" ], "INTERFACE_READY")

\* A loss is heard in CONNECTED only, and LINK_UP is never reported.
mx_wifi_status_changed(status) ==
  CASE status = "STA_DOWN" ->
         IF iface.state = "STOPPING" THEN Event(iface, "INTERFACE_INITIALIZED")
         ELSE IF iface.state = "CONNECTED" THEN Event(iface, "LINK_DOWN") ELSE iface
    [] status = "STA_UP" ->
         IF driver = "mxb" /\ iface.state # "STARTING" THEN iface ELSE Event(iface, "INTERFACE_READY")
    [] status = "STA_GOT_IP" -> Event([ iface EXCEPT !.ipaddr = "lease" ], "IPADDR")
    [] status = "AP_DOWN" ->
         Event(iface, IF iface.state = "CONNECTED" THEN "LINK_DOWN" ELSE "INTERFACE_READY")
    [] status = "AP_UP" -> Event([ iface EXCEPT !.ipaddr = "static" ], "INTERFACE_READY")

st_wifi_event_callback(event) ==
  CASE mode = "sta" -> SetLink(iface, event = "LINK_UP")
    [] mode = "ap"  -> IF event = "LINK_UP" THEN Event(iface, "INTERFACE_READY") ELSE iface

\* The thread of the module's host library delivers a report.
Deliver ==
  /\ reports # << >>
  /\ reports' = Tail(reports)
  /\ iface' = IF driver = "st" THEN st_wifi_event_callback(Head(reports))
                               ELSE mx_wifi_status_changed(Head(reports))
  /\ UNCHANGED << driver, mode, drv, todo, failed, asked, joined, cy, handle, tx, starts >>

\* whd_link_thread_handler: it takes both flags, and looks at UP only if the
\* link was down.  Its priority is below the application's: it runs while that
\* is idle or waits for the module.  On an lwIP interface that was freed what
\* it does is undefined; here it does nothing.
LinkThread ==
  /\ linkNetif # NONE /\ flags # {} /\ (Idle \/ Doing("join") \/ Doing("leave"))
  /\ flags' = {}
  /\ iface' = IF linkNetif # iface.ptr THEN iface
              ELSE IF "DOWN" \in flags /\ iface.net.link THEN SetLink(iface, FALSE)
              ELSE IF "UP" \in flags THEN SetLink(iface, TRUE) ELSE iface
  /\ UNCHANGED << driver, mode, drv, todo, failed, radio, linkNetif, netif2ifp, handle, tx, starts >>

\* The lwIP interfaces a frame of the module may be given to; with NONE it is freed.
\* get_netif reads through the handle, which is NULL outside of start to stop: the
\* outcome is undefined then.
get_netif == IF handle THEN {iface.ptr} ELSE Netifs \cup {NONE}

net_mx_wifi_netlink_input_callback(ethertype) ==
  IF ethertype \in {"IP", "ARP"} THEN get_netif ELSE {NONE}

\* The first entry that is its interface's.
cy_network_process_ethernet_data(ethertype) ==
  IF ethertype \in {"IP", "ARP"} /\ netif2ifp # << >> THEN {Head(netif2ifp)} ELSE {NONE}

Input(ethertype) ==
  CASE driver = "mxb" -> net_mx_wifi_netlink_input_callback(ethertype)
    [] driver = "cy"  -> cy_network_process_ethernet_data(ethertype)
    [] driver = "st"  -> {iface.ptr}

\* lwIP sends a frame: low_level_output takes a reference to it, or in the place
\* of a chained one to a clone, and waits until Fifo has room.
low_level_output ==
  /\ driver = "mxb" /\ iface.ptr # NONE /\ iface.net.up /\ iface.net.link
  /\ fifo < MX_WIFI_MAX_TX_BUFFER_COUNT
  /\ fifo' = fifo + 1 /\ pbufs' = pbufs + 1
  /\ UNCHANGED << driver, mode, drv, iface, todo, failed, radio, cy, handle, threads, sending,
                  starts >>

\* PushToDriver, in a transmit thread: it takes a frame, and frees it when the
\* module has it or would not have it.  FIFO_POP is external: a thread that waits
\* in an older Fifo than the one there is may wait for ever, or take from this one.
PushToDriver ==
  /\ \/ sending < threads /\ fifo > 0 /\ sending' = sending + 1 /\ fifo' = fifo - 1
        /\ UNCHANGED pbufs
     \/ sending > 0 /\ sending' = sending - 1 /\ pbufs' = pbufs - 1 /\ UNCHANGED fifo
  /\ UNCHANGED << driver, mode, drv, iface, todo, failed, radio, cy, handle, threads, starts >>

\* The DHCP client of lwIP is granted a lease.
DhcpBound ==
  /\ MayBind(iface) /\ joined /\ mode = "sta"
  /\ iface' = Bound(iface)
  /\ UNCHANGED << driver, mode, drv, todo, failed, radio, cy, handle, tx, starts >>

-----------------------------------------------------------------------------

AppCall ==
  NetIfInit \/ Configure \/ SwitchMode \/ NetIfDeinit \/ \E c \in DOMAIN Expected : Command(c)

AppStep ==
  Join \/ Ask \/ Leave \/ PowerUp \/ AddIf \/ Glue \/ OwnAddress \/ SetHandle \/ Switched

Next == AppCall \/ AppStep \/ ModuleJoins \/ ModuleLoses \/ Deliver \/ LinkThread \/ DhcpBound
          \/ low_level_output \/ PushToDriver

Spec == Init /\ [][Next]_vars

\* A command in progress goes on, reports are delivered, and a DHCP server that can
\* be reached answers.  Nobody has to send a command, and no network to be there.
FairSpec ==
  Spec /\ WF_vars(AppStep) /\ WF_vars(Deliver) /\ WF_vars(LinkThread) /\ WF_vars(DhcpBound)

-----------------------------------------------------------------------------
(* Properties.                                                             *)

STEPS == { "ready", "initialized", "join", "ask", "leave", "own address", "power up", "power down",
           "add_if", "link_up", "link_down", "ip_connect", "ip_disconnect", "remove_if", "sta", "ap",
           "handle", "no handle" }

\* Every variable has its type.
TypeOK ==
  /\ driver \in Drivers /\ mode \in {"sta", "ap"} /\ drv \in {"none", "live", "lost"}
  /\ iface \in Interface
  /\ todo \in Seq(STEPS) /\ failed \in BOOLEAN
  /\ asked \in BOOLEAN /\ joined \in BOOLEAN /\ Len(reports) <= MAX_REPORTS + 1
  /\ flags \subseteq {"UP", "DOWN"} /\ linkNetif \in Netifs \cup {NONE}
  /\ netif2ifp \in Seq(Netifs) /\ handle \in BOOLEAN
  /\ fifo \in 0 .. MX_WIFI_MAX_TX_BUFFER_COUNT /\ pbufs \in Nat
  /\ threads \in 0 .. MAX_THREADS /\ sending \in 0 .. threads
  /\ starts \in 0 .. 2

OnLwip == driver \in {"mxb", "cy", "st"}

\* "Network interface is connected and got an IP address": pnetif->ipaddr is an
\* address, and on lwIP it is lwIP's.
ConnectedHasAddress ==
  iface.state = "CONNECTED" =>
    iface.ipaddr # "zero" /\ (OnLwip => iface.ptr # NONE /\ iface.ipaddr = iface.net.addr)

\* No driver function puts a second lwIP interface in the place of a first, and of
\* "all connection are closed and allocated resources are freed" (net_core.c:173) no
\* more fails to be true of net_if_deinit than this: cy keeps its block if it was
\* never started; st keeps its lwIP interface, always; mxb keeps, of every connect, a
\* Fifo and a thread, and the frames that were in the Fifo when the next connect made
\* it anew.  The block that an if_init lost is not there to be freed.  Of the frames
\* of mxb no others are lost, and none is freed that is still to be sent.
KnownLeaksOnly ==
  /\ iface.live = (IF iface.ptr = NONE THEN {} ELSE {iface.ptr})
  /\ Idle /\ iface.state = "DEINITIALIZED"
       => /\ drv = "live" => driver = "cy" /\ netif2ifp = << >>
          /\ iface.live # {} => driver = "st"
  /\ fifo + sending <= pbufs
  /\ threads <= 1 => pbufs = fifo + sending

\* What a connected interface receives is for lwIP's interface of now: frames reach
\* it through a table or a handle of the driver that other calls keep.
InputReachesNetif ==
  OnLwip /\ iface.state = "CONNECTED" => Input("IP") = {iface.ptr}

\* A station on lwIP that loses the network it was told to join does not stay
\* CONNECTED.
Losing == asked /\ ~joined /\ mode = "sta"

LossNoticed ==
  OnLwip /\ iface.state = "CONNECTED" /\ Losing ~> iface.state # "CONNECTED" \/ ~Losing

\* CONNECTION_LOST "can return to connected state without application specific
\* action", and a connection being made completes, while the network is there:
\* net_ip_status_cb starts the DHCP client anew after a loss.
Waiting == iface.state \in {"CONNECTION_LOST", "CONNECTING"} /\ joined

Recovers ==
  driver = "st" /\ mode = "sta" /\ iface.dhcp_mode /\ Waiting ~> ~Waiting
=============================================================================
