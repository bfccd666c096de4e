------------------------------ MODULE EsSockets ------------------------------
(***************************************************************************)
(* The socket layer on the Inventek WiFi driver, with TLS on the host:     *)
(* Sockets[] of core/net_socket.c, WifiChannel[] of net_es_wifi.c, and the *)
(* TLS contexts of services/net_mbedtls.c.  It asks whether the three      *)
(* agree on what is allocated, over every sequence of calls; how the calls *)
(* of several tasks interleave is the subject of NetSocket.                *)
(*                                                                         *)
(* One task makes the short calls, one after the other.  A call that may   *)
(* wait for a peer, net_accept, net_recv or net_send, is made by a task t  *)
(* of Waiters: busy[t] is the call, and the short calls go on meanwhile.   *)
(* The interface is connected throughout.  A call that changes nothing     *)
(* (net_getsockname ...) is no step.                                       *)
(*                                                                         *)
(* The code is right for an application that keeps some rules nobody wrote *)
(* down; Liberties are the rules it does not keep.                         *)
(***************************************************************************)
EXTENDS Integers, FiniteSets, EsWifi, NetTls

CONSTANTS
  NET_MAX_SOCKETS_NBR,
  Waiters,        \* the tasks that accept and receive
  Liberties       \* see AllLiberties

AllLiberties ==
  { "listener first",   \* closes a listener while an accepted socket is open
    "reused slot",      \* serves from a slot that an accepted socket once had
    "full table",       \* waits for a connection there may be no slot for
    "connect again",    \* goes on with a socket whose net_connect failed
    "secure unused",    \* closes a secure socket that was never connected
    "secure server",    \* makes a listener secure
    "both ways",        \* sends and receives on one datagram socket
    "close busy" }      \* closes or shuts down a socket another call is using

ASSUME EsSocketsAssumption ==
  NET_MAX_SOCKETS_NBR \in Nat \ {0} /\ Liberties \subseteq AllLiberties

Slots  == 0 .. NET_MAX_SOCKETS_NBR - 1
NoUl   == -1
BadUl  == -6       \* NET_ERROR_INVALID_SOCKET, from es_wifi_socket
NoSlot == -1

Socket == [ status : {"NOT_ALIVE", "ALLOCATED", "CONNECTED"}, type : TYPES,
            ul : Channels \cup {NoUl, BadUl}, cloneserver : BOOLEAN,
            is_secure : BOOLEAN, tls_started : BOOLEAN, tlsData : Contexts \cup {NULL} ]

Roles == { "none", "new", "server", "accepted", "client", "failed", "shut" }

VARIABLES
  Sockets,      \* the slots
  WifiChannel,  \* the channels
  heap,         \* the TLS contexts
  role,         \* what the application uses a slot for
  busy          \* the call each waiter is in

vars == << Sockets, WifiChannel, heap, role, busy >>

NoCall == [ op |-> "none", fd |-> NoSlot, ctx |-> NULL ]

Init ==
  /\ Sockets = [ s \in Slots |->
                   [ status |-> "NOT_ALIVE", type |-> "STREAM", ul |-> 0, cloneserver |-> FALSE,
                     is_secure |-> FALSE, tls_started |-> FALSE, tlsData |-> NULL ] ]
  /\ WifiChannel = [ i \in Channels |-> ProbedChannel ]
  /\ heap = {}
  /\ role = [ s \in Slots |-> "none" ]
  /\ busy = [ t \in Waiters |-> NoCall ]

-----------------------------------------------------------------------------
(* The rules of the application.                                           *)

Open(s)     == role[s] # "none"
Attached(s) == Open(s) /\ Sockets[s].ul >= 0
Busy(s)     == \E t \in Waiters : busy[t].fd = s
In(op, s)   == \E t \in Waiters : busy[t].op = op /\ busy[t].fd = s

FreeSlots == { s \in Slots : Sockets[s].status = "NOT_ALIVE" }
Accepting == { t \in Waiters : busy[t].op = "accept" }

Accepted(s) == { r \in Slots : role[r] \in {"accepted", "shut"} /\ Sockets[r].cloneserver
                                 /\ Sockets[r].ul = Sockets[s].ul }

Allows(liberty, rule) == liberty \in Liberties \/ rule

MayConnect   == { "new" } \cup { r \in {"failed"} : "connect again" \in Liberties }
MayBeSecured == { r \in {"server"} : "secure server" \in Liberties }

RoomToAccept(slots) == Allows("full table", Cardinality(FreeSlots) >= slots)

MayServe(s) ==
  /\ Allows("reused slot", ~Sockets[s].cloneserver)
  /\ Allows("secure server", ~Sockets[s].is_secure)

MayEnd(s) ==
  /\ Allows("close busy", ~Busy(s))
  /\ Allows("listener first", role[s] = "server" => Accepted(s) = {})
  /\ Allows("secure unused", Sockets[s].is_secure => Sockets[s].tls_started)

-----------------------------------------------------------------------------
(* Steps the calls share.                                                  *)

\* find_free_socket: the first free slot.  Neither cloneserver nor tls_started
\* is reset.
FirstFreeSlot ==
  { s \in FreeSlots : \A r \in FreeSlots : s <= r }

FoundSlot(s, type) ==
  [ Sockets[s] EXCEPT !.status = "ALLOCATED", !.type = type, !.ul = NoUl,
                      !.is_secure = FALSE, !.tlsData = NULL ]

\* create_low_level_socket: it tries once only, since the error that es_wifi
\* returns is not the value it tests for.
Creation(s) ==
  IF Sockets[s].ul # NoUl THEN [ ul |-> Sockets[s].ul, channels |-> WifiChannel ]
  ELSE IF FirstFree(WifiChannel) = {} THEN [ ul |-> BadUl, channels |-> WifiChannel ]
  ELSE LET i == CHOOSE j \in FirstFree(WifiChannel) : TRUE
       IN  [ ul |-> i, channels |-> [ WifiChannel EXCEPT ![i] = es_wifi_socket(@, Sockets[s].type) ] ]

\* A short call on slot s of a driver function that may create the channel.
\* The channel has the outcome o of the function, or the creation failed.
CallsDriver(s, function(_), After(_, _)) ==
  LET made == Creation(s)
      slot == [ Sockets[s] EXCEPT !.ul = made.ul ]
  IN  \/ /\ made.ul < 0
         /\ Sockets' = [ Sockets EXCEPT ![s] = slot ]
         /\ UNCHANGED << WifiChannel, heap, role >>
      \/ /\ made.ul >= 0
         /\ \E o \in function(made.channels[made.ul]) :
              /\ WifiChannel' = [ made.channels EXCEPT ![made.ul] = o.channel ]
              /\ After(slot, o.ok)

Keeps(s, slot) == Sockets' = [ Sockets EXCEPT ![s] = slot ] /\ UNCHANGED << heap, role >>

-----------------------------------------------------------------------------
(* The calls.                                                              *)

\* net_socket
NetSocket(type) ==
  /\ RoomToAccept(Cardinality(Accepting) + 1)
  /\ \E s \in FirstFreeSlot :
       /\ Sockets' = [ Sockets EXCEPT ![s] = FoundSlot(s, type) ]
       /\ role' = [ role EXCEPT ![s] = "new" ]
  /\ UNCHANGED << WifiChannel, heap, busy >>

\* net_bind
NetBind(s) ==
  /\ role[s] = "new"
  /\ CallsDriver(s, es_wifi_bind, LAMBDA slot, ok : Keeps(s, slot))
  /\ UNCHANGED busy

\* net_listen, on a bound stream socket.
NetListen(s) ==
  /\ role[s] = "new" /\ Sockets[s].type = "STREAM" /\ Sockets[s].ul >= 0
  /\ "BIND" \in WifiChannel[Sockets[s].ul].status
  /\ MayServe(s)
  /\ \E o \in es_wifi_listen(WifiChannel[Sockets[s].ul]) :
       /\ WifiChannel' = [ WifiChannel EXCEPT ![Sockets[s].ul] = o.channel ]
       /\ role' = [ role EXCEPT ![s] = IF o.ok THEN "server" ELSE "new" ]
  /\ UNCHANGED << Sockets, heap, busy >>

\* UNLOCK_SOCK before a call that waits: ctx is the TLS context whose session the
\* call goes on with when it comes back.
Wait(t, op, s, ctx) ==
  /\ busy[t] = NoCall
  /\ busy' = [ busy EXCEPT ![t] = [ op |-> op, fd |-> s, ctx |-> ctx ] ]
  /\ UNCHANGED << Sockets, WifiChannel, heap, role >>

\* net_accept, until the driver waits for a connection.
NetAccept(t, s) ==
  /\ role[s] = "server" /\ ~Busy(s)
  /\ RoomToAccept(Cardinality(Accepting) + 1)
  /\ Wait(t, "accept", s, NULL)

AcceptReturns_KeepsClone(t) ==
  /\ busy[t].op = "accept"
  /\ LET s == busy[t].fd
         i == Sockets[s].ul
     IN  /\ i >= 0
         /\ \E o \in es_wifi_accept(WifiChannel[i]) :
              /\ WifiChannel' = [ WifiChannel EXCEPT ![i] = o.channel ]
              /\ \/ ~o.ok /\ UNCHANGED << Sockets, role >>
                 \/ /\ o.ok
                    /\ LET listener == [ Sockets[s] EXCEPT !.status = "CONNECTED" ]
                           found    == FirstFreeSlot
                       IN  /\ Sockets' = [ r \in Slots |->
                                             IF r = s THEN listener
                                             ELSE IF r \in found
                                             THEN [ listener EXCEPT !.ul = i ]
                                             ELSE Sockets[r] ]
                           /\ role' = [ r \in Slots |-> IF r \in found THEN "accepted" ELSE role[r] ]
  /\ busy' = [ busy EXCEPT ![t] = NoCall ]
  /\ UNCHANGED << heap >>

\* The rest of net_accept: the accepted socket is a copy of the listener's slot,
\* TLS pointer and all, on the channel the driver returns.  If there is no
\* free slot the connection stays with nobody to close it.
AcceptReturns(t) ==
  /\ busy[t].op = "accept"
  /\ LET s == busy[t].fd
         i == Sockets[s].ul
     IN  /\ i >= 0
         /\ \E o \in es_wifi_accept(WifiChannel[i]) :
              /\ WifiChannel' = [ WifiChannel EXCEPT ![i] = o.channel ]
              /\ \/ ~o.ok /\ UNCHANGED << Sockets, role >>
                 \/ /\ o.ok
                    /\ LET listener == [ Sockets[s] EXCEPT !.status = "CONNECTED" ]
                           found    == FirstFreeSlot
                       IN  /\ Sockets' = [ r \in Slots |->
                                             IF r = s THEN listener
                                             ELSE IF r \in found
                                             THEN [ listener EXCEPT !.ul = i, !.cloneserver = TRUE ]
                                             ELSE Sockets[r] ]
                           /\ role' = [ r \in Slots |-> IF r \in found THEN "accepted" ELSE role[r] ]
  /\ busy' = [ busy EXCEPT ![t] = NoCall ]
  /\ UNCHANGED << heap >>

\* The end of net_connect.  When TLS cannot be started it closes the socket.
Connected(s, slot, ok) ==
  \/ /\ ~ok
     /\ LET failed == tls_connect_failed(slot, heap)
        IN  /\ Sockets' = [ Sockets EXCEPT ![s] = failed.slot ]
            /\ heap' = failed.heap
     /\ role' = [ role EXCEPT ![s] = "failed" ]
  \/ /\ ok /\ ~slot.is_secure
     /\ Sockets' = [ Sockets EXCEPT ![s] = [ slot EXCEPT !.status = "CONNECTED" ] ]
     /\ role' = [ role EXCEPT ![s] = "client" ]
     /\ UNCHANGED heap
  \/ /\ ok /\ slot.is_secure
     /\ \E o \in net_mbedtls_start(slot, heap) :
          /\ o.ok
          /\ heap' = o.heap
          /\ Sockets' = [ Sockets EXCEPT ![s] =
                            [ o.slot EXCEPT !.status = "CONNECTED", !.tls_started = TRUE ] ]
          /\ role' = [ role EXCEPT ![s] = "client" ]

NetConnect(s) ==
  /\ role[s] \in MayConnect
  /\ role[s] = "new" /\ Attached(s) => "STARTED_SERVER" \notin WifiChannel[Sockets[s].ul].status
  /\ CallsDriver(s, es_wifi_connect, LAMBDA slot, ok : Connected(s, slot, ok))
  /\ UNCHANGED busy

\* net_connect, when the driver connects but TLS cannot be started on the connection:
\* the slot is made insecure and net_closesocket is called on it.
NetConnectTlsFails(s) ==
  /\ role[s] \in MayConnect /\ Sockets[s].is_secure
  /\ LET made == Creation(s)
     IN  /\ made.ul >= 0
         /\ \E o \in es_wifi_connect(made.channels[made.ul]) :
              /\ o.ok
              /\ \E c \in es_wifi_close(o.channel, Sockets[s].cloneserver) :
                   WifiChannel' = [ made.channels EXCEPT ![made.ul] = c.channel ]
  /\ \E o \in net_mbedtls_start(Sockets[s], heap) :
       /\ ~o.ok
       /\ heap' = o.heap
       /\ Sockets' = [ Sockets EXCEPT ![s] = [ o.slot EXCEPT !.is_secure = FALSE, !.ul = NoUl,
                                                             !.status = "NOT_ALIVE" ] ]
  /\ role' = [ role EXCEPT ![s] = "none" ]
  /\ UNCHANGED busy

\* net_recv and net_send, until the driver waits.  TLS lets the lock of the slot go
\* in the middle of a record, so that a secure socket may be in both at once.
NetRecv(t, s) ==
  /\ role[s] \in {"client", "accepted"} /\ Attached(s) /\ ~In("recv", s)
  /\ Wait(t, "recv", s, net_mbedtls_sock_recv(Sockets[s]))

NetSend(t, s) ==
  /\ role[s] \in {"client", "accepted"} /\ Attached(s) /\ ~In("send", s)
  /\ Wait(t, "send", s, net_mbedtls_sock_send(Sockets[s]))

Return(t) ==
  /\ busy' = [ busy EXCEPT ![t] = NoCall ]
  /\ UNCHANGED << Sockets, WifiChannel, heap, role >>

\* The driver is back, mbedtls_net_recv or mbedtls_net_send takes the lock again,
\* and mbedtls_ssl_read or mbedtls_ssl_write goes on with its context.
RecvReturns(t) == busy[t].op = "recv" /\ Return(t)
SendReturns(t) == busy[t].op = "send" /\ Return(t)

\* net_sendto, net_recvfrom
NetDatagram(s) ==
  /\ role[s] = "new" /\ Sockets[s].type = "DGRAM"
  /\ \/ /\ Allows("both ways", Attached(s) => "STARTED_SERVER" \notin WifiChannel[Sockets[s].ul].status)
        /\ CallsDriver(s, es_wifi_sendto, LAMBDA slot, ok : Keeps(s, slot))
     \/ /\ Allows("both ways", Attached(s) => "STARTED_CLIENT" \notin WifiChannel[Sockets[s].ul].status)
        /\ MayServe(s)
        /\ CallsDriver(s, es_wifi_recvfrom, LAMBDA slot, ok : Keeps(s, slot))
  /\ UNCHANGED busy

\* net_setsockopt with NET_SO_SECURE
NetSetSecure(s) ==
  /\ role[s] \in MayConnect \cup MayBeSecured /\ Sockets[s].type = "STREAM"
  /\ Sockets[s].status # "CONNECTED"
  /\ \E o \in net_mbedtls_check_tlsdata(Sockets[s], heap) :
       /\ heap' = o.heap
       /\ Sockets' = [ Sockets EXCEPT ![s] = [ o.slot EXCEPT !.is_secure = o.ok \/ @ ] ]
  /\ UNCHANGED << WifiChannel, role, busy >>

\* net_setsockopt with another option of TLS: the context is allocated for it.
NetSetTlsOption(s) ==
  /\ role[s] = "new" /\ Sockets[s].type = "STREAM"
  /\ Allows("secure unused", Sockets[s].is_secure)
  /\ Sockets[s].status # "CONNECTED"
  /\ \E o \in net_mbedtls_check_tlsdata(Sockets[s], heap) :
       heap' = o.heap /\ Sockets' = [ Sockets EXCEPT ![s] = o.slot ]
  /\ UNCHANGED << WifiChannel, role, busy >>

\* net_shutdown
NetShutdown(s, flags) ==
  /\ role[s] \in {"client", "accepted", "server"}
  /\ MayEnd(s)
  /\ LET cleaned == tls_cleanup(Sockets[s], heap)
         i       == Sockets[s].ul
     IN  /\ i >= 0
         /\ Sockets' = [ Sockets EXCEPT ![s] = cleaned.slot ]
         /\ heap' = cleaned.heap
         /\ \E o \in es_wifi_shutdown(WifiChannel[i], flags) :
              WifiChannel' = [ WifiChannel EXCEPT ![i] = o.channel ]
  /\ role' = IF role[s] = "server" THEN role ELSE [ role EXCEPT ![s] = "shut" ]
  /\ UNCHANGED busy

\* net_closesocket: cloneserver decides what the driver does, whoever set it.
NetClose(s) ==
  /\ Open(s) /\ MayEnd(s)
  /\ LET cleaned == tls_cleanup(Sockets[s], heap)
         i       == Sockets[s].ul
     IN  /\ heap' = cleaned.heap
         /\ IF i < 0
            THEN /\ Sockets' = [ Sockets EXCEPT ![s] = [ cleaned.slot EXCEPT !.status = "NOT_ALIVE" ] ]
                 /\ UNCHANGED WifiChannel
            ELSE /\ Sockets' = [ Sockets EXCEPT ![s] =
                                   [ cleaned.slot EXCEPT !.status = "NOT_ALIVE", !.ul = NoUl ] ]
                 /\ \E o \in es_wifi_close(WifiChannel[i], Sockets[s].cloneserver) :
                      WifiChannel' = [ WifiChannel EXCEPT ![i] = o.channel ]
  /\ role' = [ role EXCEPT ![s] = "none" ]
  /\ UNCHANGED busy

-----------------------------------------------------------------------------

ShutdownModes == { {"RECV_OK"}, {"SEND_OK"}, {"SEND_OK", "RECV_OK"} }

Next ==
  \/ \E type \in TYPES : NetSocket(type)
  \/ \E s \in Slots :
       \/ NetBind(s) \/ NetListen(s) \/ NetConnect(s) \/ NetConnectTlsFails(s) \/ NetDatagram(s)
       \/ NetSetSecure(s) \/ NetSetTlsOption(s) \/ NetClose(s)
       \/ \E flags \in ShutdownModes : NetShutdown(s, flags)
  \/ \E t \in Waiters :
       \/ AcceptReturns(t) \/ RecvReturns(t) \/ SendReturns(t)
       \/ \E s \in Slots : NetAccept(t, s) \/ NetRecv(t, s) \/ NetSend(t, s)

Spec == Init /\ [][Next]_vars

-----------------------------------------------------------------------------
(* Properties.                                                             *)

\* Every variable has its type.
TypeOK ==
  /\ Sockets \in [ Slots -> Socket ]
  /\ WifiChannel \in [ Channels -> WIFI_Channel ]
  /\ heap \subseteq Contexts
  /\ role \in [ Slots -> Roles ]
  /\ busy \in [ Waiters -> [ op : {"none", "accept", "recv", "send"}, fd : Slots \cup {NoSlot},
                            ctx : Contexts \cup {NULL} ] ]

\* No channel is lost, and none is given out that still runs for its last owner: one
\* that es_wifi_socket would not take is an open socket's, one that it would take
\* is idle.  There are only four, and a lost one comes back with a reset.
ChannelOwned ==
  \A i \in Channels :
    IF WifiChannel[i].status = FREE THEN WifiChannel[i].running = {}
    ELSE \E s \in Slots : Attached(s) /\ Sockets[s].ul = i

\* The channel of an open socket is not free, so that nobody else is given it;
\* two sockets share one only as a listener and what it accepted.
ChannelHeld ==
  \A s \in Slots : Attached(s) =>
    /\ WifiChannel[Sockets[s].ul].status # FREE
    /\ \A r \in Slots \ {s} : Attached(r) /\ Sockets[r].ul = Sockets[s].ul =>
         Sockets[s].cloneserver # Sockets[r].cloneserver

\* An accepted socket can send and receive until it is closed or shut down,
\* whatever became of the sockets accepted before it on the same channel.
AcceptedTalks ==
  \A s \in Slots : role[s] = "accepted" =>
    /\ \A flag \in {"SEND_OK", "RECV_OK"} :
         \E o \in es_wifi_transfer(WifiChannel[Sockets[s].ul], flag) : o.ok
    /\ "peer" \in WifiChannel[Sockets[s].ul].running

\* A connection the module holds open has a socket to close it: without one the
\* server accepts nobody any more.
PeerHasSocket ==
  \A i \in Channels : "peer" \in WifiChannel[i].running =>
    \E s \in Slots : Open(s) /\ Sockets[s].ul = i /\ Sockets[s].cloneserver

\* A secure socket has a context, its own; and a call that let the lock go inside
\* TLS finds the context it was in when it comes back.
Secure(s) == Open(s) /\ Sockets[s].is_secure

ContextLive ==
  /\ \A s \in Slots : Secure(s) =>
       /\ Sockets[s].tlsData \in heap
       /\ \A r \in Slots \ {s} : Secure(r) => Sockets[r].tlsData # Sockets[s].tlsData
  /\ \A t \in Waiters : busy[t].ctx # NULL =>
       busy[t].ctx \in heap /\ Sockets[busy[t].fd].tlsData = busy[t].ctx

\* Every context, some kilobytes with its buffers, is a secure socket's.
NoContextLeak ==
  \A p \in heap : \E s \in Slots : Secure(s) /\ Sockets[s].tlsData = p
=============================================================================
