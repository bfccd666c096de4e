------------------------------ MODULE NetState ------------------------------
(***************************************************************************)
(* The state machine of a network interface, core/net_state.c.  An edge    *)
(* << from, event, to, call >> says that in state from the event makes the *)
(* state to, and calls the driver's function call.  An event that has no   *)
(* edge in the current state changes nothing: the caller is told NET_OK,   *)
(* and NET_ERROR_INVALID_STATE if the state is DEINITIALIZED.              *)
(***************************************************************************)

NET_STATES == { "DEINITIALIZED", "INITIALIZED", "STARTING", "READY", "CONNECTING",
                "CONNECTED", "STOPPING", "DISCONNECTING", "CONNECTION_LOST" }

\* Events the application sends, and events of the driver and of lwIP.
COMMANDS == { "CMD_START", "CMD_STOP", "CMD_CONNECT", "CMD_DISCONNECT", "CMD_DEINIT" }
REPORTS  == { "INTERFACE_INITIALIZED", "INTERFACE_READY", "IPADDR", "LINK_UP", "LINK_DOWN" }

Initialized ==
  { << "INITIALIZED", "CMD_START",  "STARTING",      "if_start"  >>,
    << "INITIALIZED", "CMD_DEINIT", "DEINITIALIZED", "if_deinit" >> }

Starting ==
  { << "STARTING", "INTERFACE_READY", "READY",       "none"    >>,
    << "STARTING", "CMD_STOP",        "INITIALIZED", "if_stop" >> }

Ready_StopIsInitialized ==
  { << "READY", "CMD_CONNECT", "CONNECTING",  "if_connect" >>,
    << "READY", "CMD_STOP",    "INITIALIZED", "none"       >> }

Ready_IpaddrConnects ==
  { << "READY", "CMD_CONNECT", "CONNECTING", "if_connect" >>,
    << "READY", "CMD_STOP",    "STOPPING",   "if_stop"    >>,
    << "READY", "IPADDR",      "CONNECTED",  "none"       >> }

Ready ==
  { << "READY", "CMD_CONNECT", "CONNECTING", "if_connect" >>,
    << "READY", "CMD_STOP",    "STOPPING",   "if_stop"    >> }

\* The driver is not told that the connection it is making is given up.
Connecting ==
  { << "CONNECTING", "IPADDR",         "CONNECTED", "none" >>,
    << "CONNECTING", "CMD_DISCONNECT", "READY",     "none" >> }

Connected ==
  { << "CONNECTED", "CMD_DISCONNECT", "DISCONNECTING",   "if_disconnect" >>,
    << "CONNECTED", "LINK_DOWN",      "CONNECTION_LOST", "none"          >>,
    << "CONNECTED", "IPADDR",         "CONNECTED",       "none"          >> }

Disconnecting == { << "DISCONNECTING", "INTERFACE_READY", "READY", "none" >> }

Stopping == { << "STOPPING", "INTERFACE_INITIALIZED", "INITIALIZED", "none" >> }

ConnectionLost_UpIsConnected ==
  { << "CONNECTION_LOST", "LINK_UP", "CONNECTED", "none" >> }

\* No command is accepted, and an address that comes before LINK_UP is ignored.
ConnectionLost == { << "CONNECTION_LOST", "LINK_UP", "CONNECTING", "none" >> }

Edges == Initialized \cup Starting \cup Ready \cup Connecting \cup Connected
           \cup Disconnecting \cup Stopping \cup ConnectionLost

\* net_state_manage_event: what the event leads to, from the state that was read.
Reactions(from, event) == { e \in Edges : e[1] = from /\ e[2] = event }

\* The state after an event that calls no driver function.
React(from, event) ==
  IF Reactions(from, event) = {} THEN from
  ELSE (CHOOSE e \in Reactions(from, event) : TRUE)[3]
=============================================================================
