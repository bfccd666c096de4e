-------------------------- MODULE EsSockets_proofs --------------------------
(***************************************************************************)
(* Theorems about EsSockets: the socket layer over the es_wifi driver and  *)
(* its TLS, for any number of slots, channels, TLS contexts and tasks.     *)
(*                                                                         *)
(* Each call is first described by what it leaves behind, its slot, its    *)
(* channel and its TLS context; the invariants then look at these          *)
(* descriptions only.  Types need nothing of the application; that         *)
(* contexts live and are freed needs Careful, and that slots and channels  *)
(* agree needs Tidy, the liberties the run shows to be the ones that       *)
(* matter.                                                                 *)
(***************************************************************************)
EXTENDS EsSockets, FiniteSetTheorems, WellFoundedInduction, TLAPS

-----------------------------------------------------------------------------
\* What the driver's functions return, and the low-level socket made on first use.

\* The channel entry of a listener, or of a socket that waits for datagrams.
Serves(c) == "STARTED_SERVER" \in c.status

\* What the module may run on a channel.
Runnable == {"client", "server", "peer"}

\* An entry d of the same type of socket as c.
Entry(c, d, status, running) ==
  /\ d \in WIFI_Channel /\ d.type = c.type /\ d.status = status /\ d.running = running

\* A channel entry with other flags, or with other things running on it.
LEMMA Updated ==
  ASSUME NEW c \in WIFI_Channel, NEW st \in SUBSET FLAGS, NEW run \in SUBSET Runnable
  PROVE  /\ Entry(c, [ c EXCEPT !.status = st ], st, c.running)
         /\ Entry(c, [ c EXCEPT !.running = run ], c.status, run)
         /\ Entry(c, [ c EXCEPT !.status = st, !.running = run ], st, run)
         /\ Entry(c, c, c.status, c.running)
         /\ c.status \in SUBSET FLAGS /\ c.running \in SUBSET Runnable
  BY DEF Entry, WIFI_Channel, Runnable

\* The flags SET and CLEARED in a channel's status.
LEMMA FlagsSet ==
  ASSUME NEW c \in WIFI_Channel, NEW flags \in SUBSET FLAGS
  PROVE  /\ Entry(c, Set(c, flags), c.status \cup flags, c.running)
         /\ Entry(c, Clear(c, flags), c.status \ flags, c.running)
  BY Updated DEF Set, Clear

\* What a driver function returns.
LEMMA Outcomes ==
  ASSUME NEW c
  PROVE  /\ \A o \in Fails(c) : o.channel = c /\ o.ok = FALSE
         /\ \A o \in Returns(c) : o.channel = c /\ o.ok = TRUE
  BY DEF Returns, Fails

\* The module is told to start something on a channel.
LEMMA StartsOutcome ==
  ASSUME NEW c \in WIFI_Channel, NEW flags \in SUBSET FLAGS, NEW what \in Runnable,
         NEW o \in Starts(c, what, flags)
  PROVE  /\ o.ok \in BOOLEAN
         /\ ~o.ok => o.channel = c
         /\ o.ok => Entry(c, o.channel, c.status \cup flags, c.running \cup {what})
<1>1. CASE o \in Fails(c)
  <2>1. o.channel = c /\ o.ok = FALSE
    BY <1>1, Outcomes
  <2> QED
    BY <2>1
<1>2. CASE o \in Returns([ Set(c, flags) EXCEPT !.running = @ \cup {what} ])
  <2> DEFINE d == Set(c, flags)
  <2>1. d \in WIFI_Channel /\ d.type = c.type /\ d.status = c.status \cup flags /\ d.running = c.running
    BY FlagsSet DEF Entry
  <2>2. o = [ channel |-> [ d EXCEPT !.running = d.running \cup {what} ], ok |-> TRUE ]
    BY <1>2 DEF Returns
  <2> HIDE DEF d
  <2>3. d.running \cup {what} \in SUBSET Runnable
    BY <2>1, Updated
  <2>4. Entry(d, [ d EXCEPT !.running = d.running \cup {what} ], d.status, d.running \cup {what})
    BY <2>1, <2>3, Updated
  <2> QED
    BY <2>1, <2>2, <2>4 DEF Entry
<1> QED
  BY <1>1, <1>2 DEF Starts

\* The module is told to stop something on a channel, which StopMayFail lets fail.
LEMMA StopsOutcome ==
  ASSUME NEW c \in WIFI_Channel, NEW status \in SUBSET FLAGS, NEW what \in SUBSET Runnable,
         NEW o \in Stops(c, what, status)
  PROVE  /\ o.ok \in BOOLEAN
         /\ \/ Entry(c, o.channel, status, c.running \ what)
            \/ StopMayFail /\ Entry(c, o.channel, status, c.running)
<1>1. c.running \ what \in SUBSET Runnable
  BY Updated
<1> DEFINE d == [ c EXCEPT !.status = status, !.running = @ \ what ]
           e == [ c EXCEPT !.status = status ]
<1>2. Entry(c, d, status, c.running \ what) /\ Entry(c, e, status, c.running)
  BY <1>1, Updated
<1> HIDE DEF d, e
<1>3. CASE o \in Returns(d)
  BY <1>2, <1>3, Outcomes
<1>4. CASE StopMayFail /\ o \in Fails(e)
  BY <1>2, <1>4, Outcomes
<1> QED
  BY <1>3, <1>4 DEF Stops, d, e

\* The driver refuses, or has nothing to do.
Same(c, o) == o.ok \in BOOLEAN /\ o.channel = c

\* es_wifi_bind marks the channel or leaves it.
LEMMA BindOutcome ==
  ASSUME NEW c \in WIFI_Channel, NEW o \in es_wifi_bind(c)
  PROVE  /\ o.ok \in BOOLEAN
         /\ \/ Entry(c, o.channel, c.status, c.running)
            \/ Entry(c, o.channel, c.status \cup {"BIND"}, c.running)
<1>1. CASE o \in Fails(c)
  BY <1>1, Outcomes, Updated
<1>2. CASE o \in Returns(Set(c, {"BIND"}))
  <2>1. {"BIND"} \in SUBSET FLAGS
    BY DEF FLAGS
  <2>2. Entry(c, Set(c, {"BIND"}), c.status \cup {"BIND"}, c.running)
    BY <2>1, FlagsSet
  <2>3. o.channel = Set(c, {"BIND"}) /\ o.ok = TRUE
    BY <1>2, Outcomes
  <2> QED
    BY <2>2, <2>3
<1> QED
  BY <1>1, <1>2 DEF es_wifi_bind

\* es_wifi_listen starts the server of a channel.
LEMMA ListenOutcome ==
  ASSUME NEW c \in WIFI_Channel, NEW o \in es_wifi_listen(c)
  PROVE  /\ o.ok \in BOOLEAN
         /\ ~o.ok => o.channel = c
         /\ o.ok => Entry(c, o.channel, c.status \cup {"STARTED_SERVER"}, c.running \cup {"server"})
<1>1. {"STARTED_SERVER"} \in SUBSET FLAGS /\ "server" \in Runnable
  BY DEF FLAGS, Runnable
<1>2. o \in Starts(c, "server", {"STARTED_SERVER"})
  BY DEF es_wifi_listen
<1> QED
  BY <1>1, <1>2, StartsOutcome

\* es_wifi_accept takes one peer on a channel whose server runs.
LEMMA AcceptOutcome ==
  ASSUME NEW c \in WIFI_Channel, NEW o \in es_wifi_accept(c)
  PROVE  /\ o.ok \in BOOLEAN
         /\ ~o.ok => o.channel = c
         /\ o.ok => /\ Entry(c, o.channel, c.status \cup (CONNECTED_RW \cup {"STARTED_SERVER"}),
                             c.running \cup {"peer"})
                    /\ "server" \in c.running /\ "peer" \notin c.running
<1>1. CONNECTED_RW \cup {"STARTED_SERVER"} \in SUBSET FLAGS /\ "peer" \in Runnable
  BY DEF FLAGS, Runnable, CONNECTED_RW
<1>2. /\ o \in Starts(c, "peer", CONNECTED_RW \cup {"STARTED_SERVER"})
      /\ o.ok => "server" \in c.running /\ "peer" \notin c.running
  BY DEF es_wifi_accept
<1>3. /\ o.ok \in BOOLEAN
      /\ ~o.ok => o.channel = c
      /\ o.ok => Entry(c, o.channel, c.status \cup (CONNECTED_RW \cup {"STARTED_SERVER"}),
                       c.running \cup {"peer"})
  BY <1>1, <1>2, StartsOutcome
<1> QED
  BY <1>2, <1>3, Zenon

\* es_wifi_connect starts the client of a channel of a stream.
LEMMA ConnectOutcome ==
  ASSUME NEW c \in WIFI_Channel, NEW o \in es_wifi_connect(c)
  PROVE  /\ o.ok \in BOOLEAN
         /\ ~o.ok => o.channel = c
         /\ o.ok => /\ Entry(c, o.channel, c.status \cup CONNECTED_RW, c.running \cup {"client"})
                    /\ c.type = "STREAM"
<1>1. CONNECTED_RW \in SUBSET FLAGS /\ "client" \in Runnable
  BY DEF FLAGS, Runnable, CONNECTED_RW
<1>2. CASE c.type = "STREAM" /\ o \in Starts(c, "client", CONNECTED_RW)
  BY <1>1, <1>2, StartsOutcome
<1>3. CASE o \in Fails(c)
  <2>1. o.channel = c /\ o.ok = FALSE
    BY <1>3, Outcomes
  <2> QED
    BY <2>1
<1> QED
  BY <1>2, <1>3 DEF es_wifi_connect

\* es_wifi_shutdown takes flags from a connected channel.
LEMMA ShutdownOutcome ==
  ASSUME NEW c \in WIFI_Channel, NEW flags \in ShutdownModes, NEW o \in es_wifi_shutdown(c, flags)
  PROVE  /\ o.ok \in BOOLEAN
         /\ \/ Entry(c, o.channel, c.status, c.running)
            \/ "CONNECTED" \in c.status /\ Entry(c, o.channel, c.status \ flags, c.running)
<1>1. flags \in SUBSET FLAGS
  BY DEF ShutdownModes, FLAGS
<1>2. CASE "CONNECTED" \in c.status /\ o \in Returns(Clear(c, flags))
  <2>1. Entry(c, Clear(c, flags), c.status \ flags, c.running)
    BY <1>1, FlagsSet
  <2>2. o.channel = Clear(c, flags) /\ o.ok = TRUE
    BY <1>2, Outcomes
  <2> QED
    BY <1>2, <2>1, <2>2
<1>3. CASE o \in Returns(c)
  BY <1>3, Outcomes, Updated
<1> QED
  BY <1>2, <1>3 DEF es_wifi_shutdown

\* es_wifi_close stops the peer of a listener's copy, the server of a listener, the client
\* of any other, and frees the channel of the last two.
LEMMA CloseOutcome ==
  ASSUME NEW c \in WIFI_Channel, NEW clone \in BOOLEAN, NEW o \in es_wifi_close(c, clone)
  PROVE  /\ o.ok \in BOOLEAN
         /\ \E status \in SUBSET FLAGS, running \in SUBSET Runnable : Entry(c, o.channel, status, running)
         /\ ~StopMayFail =>
              /\ Serves(c) /\ clone => Entry(c, o.channel, {"STARTED_SERVER"}, c.running \ {"peer"})
              /\ Serves(c) /\ ~clone => Entry(c, o.channel, FREE, c.running \ {"server", "peer"})
              /\ ~Serves(c) => Entry(c, o.channel, FREE, c.running \ {"client"})
<1>0. /\ {"STARTED_SERVER"} \in SUBSET FLAGS /\ FREE \in SUBSET FLAGS
      /\ {"peer"} \in SUBSET Runnable /\ {"server", "peer"} \in SUBSET Runnable /\ {"client"} \in SUBSET Runnable
  BY DEF FLAGS, Runnable, FREE
<1>1. CASE Serves(c) /\ clone
  <2>1. o \in Stops(c, {"peer"}, {"STARTED_SERVER"})
    BY <1>1 DEF es_wifi_close, Serves
  <2>2. /\ o.ok \in BOOLEAN
        /\ \/ Entry(c, o.channel, {"STARTED_SERVER"}, c.running \ {"peer"})
           \/ StopMayFail /\ Entry(c, o.channel, {"STARTED_SERVER"}, c.running)
    BY <1>0, <2>1, StopsOutcome
  <2>3. c.running \ {"peer"} \in SUBSET Runnable /\ c.running \in SUBSET Runnable
    BY Updated
  <2> QED
    BY <1>0, <1>1, <2>2, <2>3, Zenon
<1>2. CASE Serves(c) /\ ~clone
  <2>1. o \in Stops(c, {"server", "peer"}, FREE)
    BY <1>2 DEF es_wifi_close, Serves
  <2>2. /\ o.ok \in BOOLEAN
        /\ \/ Entry(c, o.channel, FREE, c.running \ {"server", "peer"})
           \/ StopMayFail /\ Entry(c, o.channel, FREE, c.running)
    BY <1>0, <2>1, StopsOutcome
  <2>3. c.running \ {"server", "peer"} \in SUBSET Runnable /\ c.running \in SUBSET Runnable
    BY Updated
  <2> QED
    BY <1>0, <1>2, <2>2, <2>3, Zenon
<1>3. CASE ~Serves(c)
  <2>1. o \in Stops(c, {"client"}, FREE)
    BY <1>3 DEF es_wifi_close, Serves
  <2>2. /\ o.ok \in BOOLEAN
        /\ \/ Entry(c, o.channel, FREE, c.running \ {"client"})
           \/ StopMayFail /\ Entry(c, o.channel, FREE, c.running)
    BY <1>0, <2>1, StopsOutcome
  <2>3. c.running \ {"client"} \in SUBSET Runnable /\ c.running \in SUBSET Runnable
    BY Updated
  <2> QED
    BY <1>0, <1>3, <2>2, <2>3, Zenon
<1> QED
  BY <1>1, <1>2, <1>3

\* es_wifi_sendto and es_wifi_recvfrom start a client or a server on first use, even when
\* they then fail.
LEMMA DatagramOutcome ==
  ASSUME NEW c \in WIFI_Channel, NEW flag \in FLAGS, NEW started \in FLAGS, NEW what \in Runnable,
         NEW o \in es_wifi_datagram(c, flag, started, what)
  PROVE  /\ o.ok \in BOOLEAN
         /\ \/ o.channel = c
            \/ /\ c.type = "DGRAM"
               /\ Entry(c, o.channel, c.status \cup {started}, c.running \cup {what})
<1>1. CASE o \in Returns(c) \cup Fails(c)
  <2>1. o.channel = c /\ (o.ok = FALSE \/ o.ok = TRUE)
    BY <1>1, Outcomes
  <2> QED
    BY <2>1
<1>2. CASE c.type = "DGRAM" /\ o \in Fails(Set([ c EXCEPT !.running = @ \cup {what} ], {started}))
  <2> DEFINE d == [ c EXCEPT !.running = c.running \cup {what} ]
  <2>1. c.running \cup {what} \in SUBSET Runnable /\ {started} \in SUBSET FLAGS
    BY Updated
  <2>2. Entry(c, d, c.status, c.running \cup {what})
    BY <2>1, Updated
  <2>3. o.channel = Set(d, {started}) /\ o.ok = FALSE
    BY <1>2, Outcomes
  <2> HIDE DEF d
  <2>4. Entry(d, Set(d, {started}), d.status \cup {started}, d.running)
    BY <2>1, <2>2, FlagsSet DEF Entry
  <2> QED
    BY <1>2, <2>2, <2>3, <2>4 DEF Entry
<1>3. CASE c.type = "DGRAM" /\ o \in Starts(c, what, {started})
  <2>1. {started} \in SUBSET FLAGS
    OBVIOUS
  <2> QED
    BY <1>3, <2>1, StartsOutcome
<1> QED
  BY <1>1, <1>2, <1>3 DEF es_wifi_datagram

\* Slots and channels are numbered from 0; the handles that stand for none are negative.
LEMMA SlotNumbers ==
  /\ NET_MAX_SOCKETS_NBR \in Nat \ {0} /\ ESWIFI_MAX_CHANNEL_NBR \in Nat \ {0}
  /\ NoSlot \notin Slots /\ \A s \in Slots : s \in Nat /\ s >= 0
  /\ \A i \in Channels : i \in Nat /\ i >= 0 /\ i # NoUl /\ i # BadUl
  /\ 0 \in Channels /\ NoUl < 0 /\ BadUl < 0 /\ ~(NoUl >= 0) /\ ~(BadUl >= 0)
  /\ \A p \in Contexts : p # NULL
  BY EsSocketsAssumption, EsWifiAssumption, NetTlsAssumption
     DEF Slots, Channels, NoSlot, NoUl, BadUl, Contexts, NULL

\* The types, and what a call in progress works on.
Types ==
  /\ Sockets \in [ Slots -> Socket ]
  /\ WifiChannel \in [ Channels -> WIFI_Channel ]
  /\ heap \subseteq Contexts
  /\ role \in [ Slots -> Roles ]
  /\ busy \in [ Waiters -> [ op : {"none", "accept", "recv", "send"}, fd : Slots \cup {NoSlot},
                            ctx : Contexts \cup {NULL} ] ]
  /\ \A t \in Waiters : busy[t].op # "none" => busy[t].fd \in Slots

\* A call on slot s gets channel i, with the entry c.
Claims(s, i, c) ==
  \/ Sockets[s].ul = i /\ c = WifiChannel[i]
  \/ /\ Sockets[s].ul = NoUl /\ WifiChannel[i].status = FREE
     /\ "STARTED_SERVER" \notin c.status /\ "BIND" \notin c.status /\ c.status # FREE
     /\ c.type = Sockets[s].type /\ c.running = WifiChannel[i].running

\* es_wifi_socket's entry for a new channel.
LEMMA Fresh ==
  ASSUME NEW c \in WIFI_Channel, NEW type \in TYPES
  PROVE  /\ es_wifi_socket(c, type) \in WIFI_Channel
         /\ es_wifi_socket(c, type).type = type
         /\ es_wifi_socket(c, type).running = c.running
         /\ es_wifi_socket(c, type).status # FREE
         /\ "STARTED_SERVER" \notin es_wifi_socket(c, type).status
         /\ "BIND" \notin es_wifi_socket(c, type).status
<1> DEFINE status == {"ALLOCATED"} \cup (IF type = "DGRAM" THEN {"SEND_OK", "RECV_OK"} ELSE {})
<1>1. status \in SUBSET FLAGS /\ "STARTED_SERVER" \notin status /\ "BIND" \notin status
      /\ status # FREE
  BY DEF FLAGS, FREE
<1> HIDE DEF status
<1>2. es_wifi_socket(c, type) = [ c EXCEPT !.type = type, !.status = status ]
  BY DEF es_wifi_socket, status
<1> QED
  BY <1>1, <1>2 DEF WIFI_Channel

\* net_socket's low-level socket, made on first use: the slot has a channel, gets a free one,
\* or gets none.
LEMMA Created ==
  ASSUME Types, NEW s \in Slots
  PROVE  \/ /\ Sockets[s].ul \in {NoUl, BadUl}
            /\ Creation(s).ul \in {NoUl, BadUl} /\ Creation(s).channels = WifiChannel
         \/ \E i \in Channels : \E c \in WIFI_Channel :
              /\ Creation(s).ul = i /\ Creation(s).channels[i] = c /\ Claims(s, i, c)
              /\ \A d : [ Creation(s).channels EXCEPT ![i] = d ] = [ WifiChannel EXCEPT ![i] = d ]
<1>0. Sockets[s] \in Socket /\ Sockets[s].ul \in Channels \cup {NoUl, BadUl} /\ Sockets[s].type \in TYPES
  BY DEF Types, Socket
<1>1. CASE Sockets[s].ul # NoUl
  <2>1. Creation(s).ul = Sockets[s].ul /\ Creation(s).channels = WifiChannel
    BY <1>1 DEF Creation
  <2>2. CASE Sockets[s].ul = BadUl
    BY <2>1, <2>2
  <2>3. CASE Sockets[s].ul \in Channels
    <3>1. WifiChannel[Sockets[s].ul] \in WIFI_Channel
      BY <2>3 DEF Types
    <3> QED
      BY <2>1, <2>3, <3>1, Zenon DEF Claims
  <2> QED
    BY <1>0, <1>1, <2>2, <2>3
<1>2. CASE Sockets[s].ul = NoUl /\ FirstFree(WifiChannel) = {}
  BY <1>2 DEF Creation
<1>3. CASE Sockets[s].ul = NoUl /\ FirstFree(WifiChannel) # {}
  <2> DEFINE i == CHOOSE j \in FirstFree(WifiChannel) : TRUE
             c == es_wifi_socket(WifiChannel[i], Sockets[s].type)
  <2>1. i \in FirstFree(WifiChannel)
    BY <1>3
  <2>2. i \in Channels /\ WifiChannel[i].status = FREE
    BY <2>1 DEF FirstFree
  <2>3. Creation(s).ul = i /\ Creation(s).channels = [ WifiChannel EXCEPT ![i] = c ]
    BY <1>3 DEF Creation
  <2>4. WifiChannel[i] \in WIFI_Channel
    BY <2>2 DEF Types
  <2>5. /\ c \in WIFI_Channel /\ c.type = Sockets[s].type /\ c.running = WifiChannel[i].running
        /\ "STARTED_SERVER" \notin c.status /\ "BIND" \notin c.status /\ c.status # FREE
    <3> HIDE DEF i
    <3> QED
      BY <1>0, <2>4, Fresh
  <2> HIDE DEF i, c
  <2>6. Claims(s, i, c)
    BY <1>3, <2>2, <2>5 DEF Claims
  <2>7. Creation(s).channels[i] = c
    BY <2>2, <2>3 DEF Types
  <2>8. \A d : [ Creation(s).channels EXCEPT ![i] = d ] = [ WifiChannel EXCEPT ![i] = d ]
    BY <2>3 DEF Types
  <2> QED
    BY <2>2, <2>3, <2>5, <2>6, <2>7, <2>8
<1> QED
  BY <1>1, <1>2, <1>3

\* The channel could not be made: nothing but the slot's handle has changed.
Refused(s) ==
  /\ Sockets[s].ul \in {NoUl, BadUl}
  /\ \E u \in {NoUl, BadUl} : Sockets' = [ Sockets EXCEPT ![s] = [ Sockets[s] EXCEPT !.ul = u ] ]
  /\ UNCHANGED << WifiChannel, heap, role >>

\* A call for which the low-level socket cannot be made.
LEMMA NotCreated ==
  ASSUME Types, NEW s \in Slots, Creation(s).ul < 0,
         Sockets' = [ Sockets EXCEPT ![s] = [ Sockets[s] EXCEPT !.ul = Creation(s).ul ] ],
         UNCHANGED << WifiChannel, heap, role >>
  PROVE  Refused(s)
<1>1. \A i \in Channels : Creation(s).ul # i
  BY SlotNumbers
<1>2. Sockets[s].ul \in {NoUl, BadUl} /\ Creation(s).ul \in {NoUl, BadUl}
  BY <1>1, Created, Zenon
<1> QED
  BY <1>2 DEF Refused

\* The driver function returned o for the channel i, which had the entry c.
Drives(s, i, c, o) ==
  /\ Claims(s, i, c)
  /\ WifiChannel' = [ WifiChannel EXCEPT ![i] = o.channel ]

\* The slot of s with channel i.
On(s, i) == [ Sockets[s] EXCEPT !.ul = i ]

\* A call for which it can.
LEMMA Driven ==
  ASSUME Types, NEW s \in Slots, Creation(s).ul >= 0
  PROVE  \E i \in Channels : \E c \in WIFI_Channel :
           /\ Creation(s).ul = i /\ Creation(s).channels[i] = c /\ Claims(s, i, c)
           /\ \A d : [ Creation(s).channels EXCEPT ![i] = d ] = [ WifiChannel EXCEPT ![i] = d ]
<1>1. Creation(s).ul \notin {NoUl, BadUl}
  BY SlotNumbers
<1> QED
  BY <1>1, Created, Zenon

\* net_bind is refused, or calls es_wifi_bind.
LEMMA BindDoes ==
  ASSUME Types, NEW s \in Slots, NetBind(s)
  PROVE  \/ Refused(s)
         \/ \E i \in Channels : \E c \in WIFI_Channel : \E o \in es_wifi_bind(c) :
              Drives(s, i, c, o) /\ Keeps(s, On(s, i))
<1> DEFINE made == Creation(s)
<1>1. ASSUME made.ul < 0, UNCHANGED << WifiChannel, heap, role >>,
             Sockets' = [ Sockets EXCEPT ![s] = [ Sockets[s] EXCEPT !.ul = made.ul ] ]
      PROVE  Refused(s)
  BY <1>1, NotCreated
<1>2. ASSUME made.ul >= 0, NEW o \in es_wifi_bind(made.channels[made.ul]),
             WifiChannel' = [ made.channels EXCEPT ![made.ul] = o.channel ],
             Keeps(s, [ Sockets[s] EXCEPT !.ul = made.ul ])
      PROVE  \E i \in Channels : \E c \in WIFI_Channel : \E p \in es_wifi_bind(c) :
               Drives(s, i, c, p) /\ Keeps(s, On(s, i))
  <2>1. PICK i \in Channels : \E c \in WIFI_Channel :
           /\ Creation(s).ul = i /\ Creation(s).channels[i] = c /\ Claims(s, i, c)
           /\ \A d : [ Creation(s).channels EXCEPT ![i] = d ] = [ WifiChannel EXCEPT ![i] = d ]
    BY <1>2, Driven
  <2>2. PICK c \in WIFI_Channel :
           /\ Creation(s).ul = i /\ Creation(s).channels[i] = c /\ Claims(s, i, c)
           /\ \A d : [ Creation(s).channels EXCEPT ![i] = d ] = [ WifiChannel EXCEPT ![i] = d ]
    BY <2>1
  <2>3. o \in es_wifi_bind(c) /\ Drives(s, i, c, o)
    BY <1>2, <2>2 DEF Drives
  <2>4. Keeps(s, On(s, i))
    BY <1>2, <2>2 DEF On
  <2> QED
    BY <2>3, <2>4
<1> QED
  BY <1>1, <1>2, Zenon DEF NetBind, CallsDriver, Keeps

\* net_connect is refused, or calls es_wifi_connect.
LEMMA ConnectDoes ==
  ASSUME Types, NEW s \in Slots, NetConnect(s)
  PROVE  \/ Refused(s)
         \/ \E i \in Channels : \E c \in WIFI_Channel : \E o \in es_wifi_connect(c) :
              Drives(s, i, c, o) /\ Connected(s, On(s, i), o.ok)
<1> DEFINE made == Creation(s)
<1>1. ASSUME made.ul < 0, UNCHANGED << WifiChannel, heap, role >>,
             Sockets' = [ Sockets EXCEPT ![s] = [ Sockets[s] EXCEPT !.ul = made.ul ] ]
      PROVE  Refused(s)
  BY <1>1, NotCreated
<1>2. ASSUME made.ul >= 0, NEW o \in es_wifi_connect(made.channels[made.ul]),
             WifiChannel' = [ made.channels EXCEPT ![made.ul] = o.channel ],
             Connected(s, [ Sockets[s] EXCEPT !.ul = made.ul ], o.ok)
      PROVE  \E i \in Channels : \E c \in WIFI_Channel : \E p \in es_wifi_connect(c) :
               Drives(s, i, c, p) /\ Connected(s, On(s, i), p.ok)
  <2>1. PICK i \in Channels : \E c \in WIFI_Channel :
           /\ Creation(s).ul = i /\ Creation(s).channels[i] = c /\ Claims(s, i, c)
           /\ \A d : [ Creation(s).channels EXCEPT ![i] = d ] = [ WifiChannel EXCEPT ![i] = d ]
    BY <1>2, Driven
  <2>2. PICK c \in WIFI_Channel :
           /\ Creation(s).ul = i /\ Creation(s).channels[i] = c /\ Claims(s, i, c)
           /\ \A d : [ Creation(s).channels EXCEPT ![i] = d ] = [ WifiChannel EXCEPT ![i] = d ]
    BY <2>1
  <2>3. o \in es_wifi_connect(c) /\ Drives(s, i, c, o)
    BY <1>2, <2>2 DEF Drives
  <2>4. Connected(s, On(s, i), o.ok)
    BY <1>2, <2>2 DEF On
  <2> QED
    BY <2>3, <2>4
<1> QED
  BY <1>1, <1>2, Zenon DEF NetConnect, CallsDriver

\* net_sendto is refused, or calls es_wifi_sendto.
LEMMA SendtoDoes ==
  ASSUME Types, NEW s \in Slots, CallsDriver(s, es_wifi_sendto, LAMBDA slot, ok : Keeps(s, slot))
  PROVE  \/ Refused(s)
         \/ \E i \in Channels : \E c \in WIFI_Channel : \E o \in es_wifi_sendto(c) :
              Drives(s, i, c, o) /\ Keeps(s, On(s, i))
<1> DEFINE made == Creation(s)
<1>1. ASSUME made.ul < 0, UNCHANGED << WifiChannel, heap, role >>,
             Sockets' = [ Sockets EXCEPT ![s] = [ Sockets[s] EXCEPT !.ul = made.ul ] ]
      PROVE  Refused(s)
  BY <1>1, NotCreated
<1>2. ASSUME made.ul >= 0, NEW o \in es_wifi_sendto(made.channels[made.ul]),
             WifiChannel' = [ made.channels EXCEPT ![made.ul] = o.channel ],
             Keeps(s, [ Sockets[s] EXCEPT !.ul = made.ul ])
      PROVE  \E i \in Channels : \E c \in WIFI_Channel : \E p \in es_wifi_sendto(c) :
               Drives(s, i, c, p) /\ Keeps(s, On(s, i))
  <2>1. PICK i \in Channels : \E c \in WIFI_Channel :
           /\ Creation(s).ul = i /\ Creation(s).channels[i] = c /\ Claims(s, i, c)
           /\ \A d : [ Creation(s).channels EXCEPT ![i] = d ] = [ WifiChannel EXCEPT ![i] = d ]
    BY <1>2, Driven
  <2>2. PICK c \in WIFI_Channel :
           /\ Creation(s).ul = i /\ Creation(s).channels[i] = c /\ Claims(s, i, c)
           /\ \A d : [ Creation(s).channels EXCEPT ![i] = d ] = [ WifiChannel EXCEPT ![i] = d ]
    BY <2>1
  <2>3. o \in es_wifi_sendto(c) /\ Drives(s, i, c, o)
    BY <1>2, <2>2 DEF Drives
  <2>4. Keeps(s, On(s, i))
    BY <1>2, <2>2 DEF On
  <2> QED
    BY <2>3, <2>4
<1> QED
  BY <1>1, <1>2, Zenon DEF CallsDriver, Keeps

\* net_recvfrom is refused, or calls es_wifi_recvfrom.
LEMMA RecvfromDoes ==
  ASSUME Types, NEW s \in Slots, CallsDriver(s, es_wifi_recvfrom, LAMBDA slot, ok : Keeps(s, slot))
  PROVE  \/ Refused(s)
         \/ \E i \in Channels : \E c \in WIFI_Channel : \E o \in es_wifi_recvfrom(c) :
              Drives(s, i, c, o) /\ Keeps(s, On(s, i))
<1> DEFINE made == Creation(s)
<1>1. ASSUME made.ul < 0, UNCHANGED << WifiChannel, heap, role >>,
             Sockets' = [ Sockets EXCEPT ![s] = [ Sockets[s] EXCEPT !.ul = made.ul ] ]
      PROVE  Refused(s)
  BY <1>1, NotCreated
<1>2. ASSUME made.ul >= 0, NEW o \in es_wifi_recvfrom(made.channels[made.ul]),
             WifiChannel' = [ made.channels EXCEPT ![made.ul] = o.channel ],
             Keeps(s, [ Sockets[s] EXCEPT !.ul = made.ul ])
      PROVE  \E i \in Channels : \E c \in WIFI_Channel : \E p \in es_wifi_recvfrom(c) :
               Drives(s, i, c, p) /\ Keeps(s, On(s, i))
  <2>1. PICK i \in Channels : \E c \in WIFI_Channel :
           /\ Creation(s).ul = i /\ Creation(s).channels[i] = c /\ Claims(s, i, c)
           /\ \A d : [ Creation(s).channels EXCEPT ![i] = d ] = [ WifiChannel EXCEPT ![i] = d ]
    BY <1>2, Driven
  <2>2. PICK c \in WIFI_Channel :
           /\ Creation(s).ul = i /\ Creation(s).channels[i] = c /\ Claims(s, i, c)
           /\ \A d : [ Creation(s).channels EXCEPT ![i] = d ] = [ WifiChannel EXCEPT ![i] = d ]
    BY <2>1
  <2>3. o \in es_wifi_recvfrom(c) /\ Drives(s, i, c, o)
    BY <1>2, <2>2 DEF Drives
  <2>4. Keeps(s, On(s, i))
    BY <1>2, <2>2 DEF On
  <2> QED
    BY <2>3, <2>4
<1> QED
  BY <1>1, <1>2, Zenon DEF CallsDriver, Keeps

-----------------------------------------------------------------------------
\* What each call of the socket layer leaves: bind, datagrams, listen.

\* A call changes slot s to k and its role to r.
Moves(s, k, r) ==
  /\ k \in Socket /\ r \in Roles
  /\ Sockets' = [ Sockets EXCEPT ![s] = k ]
  /\ role' = [ role EXCEPT ![s] = r ]
  /\ UNCHANGED busy

\* The slot has no channel, before or after.
Unattached(s, k) ==
  Sockets[s].ul \in {NoUl, BadUl} /\ k.ul \in {NoUl, BadUl} /\ UNCHANGED WifiChannel

\* The driver works on channel i, from entry c to entry d.
Works(s, i, c, d) ==
  /\ Claims(s, i, c) /\ WifiChannel' = [ WifiChannel EXCEPT ![i] = d ]

\* What the driver and TLS do not look at stays as it was.
SameLine(s, k) == k.type = Sockets[s].type /\ k.cloneserver = Sockets[s].cloneserver
\* What the TLS layer looks at stays as it was.
SameTls(s, k)  == k.is_secure = Sockets[s].is_secure /\ k.tlsData = Sockets[s].tlsData

\* The fields of a slot.
LEMMA SlotFields ==
  ASSUME Types, NEW s \in Slots
  PROVE  /\ Sockets[s] \in Socket /\ role[s] \in Roles
         /\ Sockets[s].ul \in Channels \cup {NoUl, BadUl}
         /\ Sockets[s].tlsData \in Contexts \cup {NULL}
         /\ Sockets[s].type \in TYPES /\ Sockets[s].cloneserver \in BOOLEAN
         /\ Sockets[s].is_secure \in BOOLEAN /\ Sockets[s].tls_started \in BOOLEAN
  BY DEF Types, Socket

\* A slot with another low-level socket.
LEMMA OnSlot ==
  ASSUME Types, NEW s \in Slots, NEW u \in Channels \cup {NoUl, BadUl}
  PROVE  LET k == [ Sockets[s] EXCEPT !.ul = u ]
         IN  /\ k \in Socket /\ k.ul = u /\ SameLine(s, k) /\ SameTls(s, k)
             /\ k.status = Sockets[s].status
<1>1. Sockets[s] \in Socket
  BY SlotFields
<1> QED
  BY <1>1 DEF Socket, SameLine, SameTls

\* A call that leaves the role of its slot.
LEMMA MovesSame ==
  ASSUME Types, NEW s \in Slots, NEW k \in Socket, NEW r \in Roles, role[s] = r,
         Sockets' = [ Sockets EXCEPT ![s] = k ], UNCHANGED << role, busy >>
  PROVE  Moves(s, k, r)
  BY DEF Moves, Types

\* What a refused call leaves.
LEMMA RefusedEffect ==
  ASSUME Types, NEW s \in Slots, Refused(s), UNCHANGED busy
  PROVE  \E k \in Socket : /\ Moves(s, k, role[s]) /\ SameLine(s, k) /\ SameTls(s, k)
                           /\ k.status = Sockets[s].status /\ heap' = heap /\ Unattached(s, k)
<1>1. PICK u \in {NoUl, BadUl} : Sockets' = [ Sockets EXCEPT ![s] = [ Sockets[s] EXCEPT !.ul = u ] ]
  BY DEF Refused
<1> DEFINE k == [ Sockets[s] EXCEPT !.ul = u ]
<1>2. k \in Socket /\ k.ul = u /\ SameLine(s, k) /\ SameTls(s, k) /\ k.status = Sockets[s].status
  BY OnSlot
<1>3. role[s] \in Roles /\ UNCHANGED << WifiChannel, heap, role >> /\ Sockets[s].ul \in {NoUl, BadUl}
  BY SlotFields DEF Refused
<1>4. Sockets' = [ Sockets EXCEPT ![s] = k ]
  BY <1>1
<1> HIDE DEF k
<1>5. Moves(s, k, role[s])
  BY <1>2, <1>3, <1>4, MovesSame
<1>6. Unattached(s, k)
  BY <1>2, <1>3 DEF Unattached
<1> QED
  BY <1>2, <1>3, <1>5, <1>6

\* What net_bind leaves.
LEMMA BindEffect ==
  ASSUME Types, NEW s \in Slots, NetBind(s)
  PROVE  /\ role[s] = "new" /\ heap' = heap
         /\ \E k \in Socket :
              /\ Moves(s, k, "new") /\ SameLine(s, k) /\ SameTls(s, k) /\ k.status = Sockets[s].status
              /\ \/ Unattached(s, k)
                 \/ \E i \in Channels : \E c \in WIFI_Channel : \E d \in WIFI_Channel :
                      /\ Works(s, i, c, d) /\ k.ul = i
                      /\ d.type = c.type /\ d.running = c.running
                      /\ d.status \in {c.status, c.status \cup {"BIND"}}
<1>1. role[s] = "new" /\ UNCHANGED busy
  BY DEF NetBind
<1>2. CASE Refused(s)
  BY <1>1, <1>2, RefusedEffect DEF Refused
<1>3. ASSUME NEW i \in Channels, NEW c \in WIFI_Channel, NEW o \in es_wifi_bind(c),
             Drives(s, i, c, o), Keeps(s, On(s, i))
      PROVE  /\ heap' = heap
             /\ \E k \in Socket :
                  /\ Moves(s, k, "new") /\ SameLine(s, k) /\ SameTls(s, k)
                  /\ k.status = Sockets[s].status
                  /\ \E d \in WIFI_Channel :
                      /\ Works(s, i, c, d) /\ k.ul = i
                      /\ d.type = c.type /\ d.running = c.running
                      /\ d.status \in {c.status, c.status \cup {"BIND"}}
  <2> DEFINE k == On(s, i)
  <2>1. k \in Socket /\ k.ul = i /\ SameLine(s, k) /\ SameTls(s, k) /\ k.status = Sockets[s].status
    BY OnSlot DEF On
  <2>2. Sockets' = [ Sockets EXCEPT ![s] = k ] /\ UNCHANGED << heap, role >>
    BY <1>3 DEF Keeps
  <2> HIDE DEF k
  <2>3. Moves(s, k, "new")
    BY <1>1, <2>1, <2>2, MovesSame DEF Roles
  <2>4. /\ o.channel \in WIFI_Channel /\ o.channel.type = c.type /\ o.channel.running = c.running
        /\ o.channel.status \in {c.status, c.status \cup {"BIND"}}
    BY <1>3, BindOutcome DEF Entry
  <2>5. Works(s, i, c, o.channel)
    BY <1>3 DEF Works, Drives
  <2> QED
    BY <2>1, <2>2, <2>3, <2>4, <2>5
<1> QED
  BY <1>1, <1>2, <1>3, BindDoes

\* The first datagram sent, the first one waited for.
SendsFirst(s, c, d) ==
  /\ Allows("both ways", Attached(s) => ~Serves(WifiChannel[Sockets[s].ul]))
  /\ d.status = c.status \cup {"STARTED_CLIENT"} /\ d.running = c.running \cup {"client"}

\* The first datagram waited for.
WaitsFirst(s, c, d) ==
  /\ Allows("both ways", Attached(s) => "STARTED_CLIENT" \notin WifiChannel[Sockets[s].ul].status)
  /\ MayServe(s)
  /\ d.status = c.status \cup {"STARTED_SERVER"} /\ d.running = c.running \cup {"server"}

\* What a datagram sent or received on a fresh socket leaves.
LEMMA DatagramEffect ==
  ASSUME Types, NEW s \in Slots, NetDatagram(s)
  PROVE  /\ role[s] = "new" /\ Sockets[s].type = "DGRAM" /\ heap' = heap
         /\ \E k \in Socket :
              /\ Moves(s, k, "new") /\ SameLine(s, k) /\ SameTls(s, k) /\ k.status = Sockets[s].status
              /\ \/ Unattached(s, k)
                 \/ \E i \in Channels : \E c \in WIFI_Channel : \E d \in WIFI_Channel :
                      /\ Works(s, i, c, d) /\ k.ul = i /\ d.type = c.type
                      /\ d = c \/ SendsFirst(s, c, d) \/ WaitsFirst(s, c, d)
<1>1. role[s] = "new" /\ UNCHANGED busy /\ Sockets[s].type = "DGRAM"
  BY DEF NetDatagram
<1>2. CASE Refused(s)
  BY <1>1, <1>2, RefusedEffect DEF Refused
<1>0. ASSUME NEW i \in Channels, Keeps(s, On(s, i))
      PROVE  LET k == On(s, i) IN
             /\ k \in Socket /\ Moves(s, k, "new") /\ SameLine(s, k) /\ SameTls(s, k)
             /\ k.status = Sockets[s].status /\ k.ul = i /\ heap' = heap
  <2> DEFINE k == On(s, i)
  <2>1. k \in Socket /\ k.ul = i /\ SameLine(s, k) /\ SameTls(s, k) /\ k.status = Sockets[s].status
    BY OnSlot DEF On
  <2>2. Sockets' = [ Sockets EXCEPT ![s] = k ] /\ UNCHANGED << heap, role >>
    BY <1>0 DEF Keeps
  <2> HIDE DEF k
  <2>3. Moves(s, k, "new")
    BY <1>1, <2>1, <2>2, MovesSame DEF Roles
  <2> QED
    BY <2>1, <2>2, <2>3 DEF k
<1> DEFINE Sends == Allows("both ways", Attached(s) => ~Serves(WifiChannel[Sockets[s].ul]))
           Receives == /\ Allows("both ways",
                            Attached(s) => "STARTED_CLIENT" \notin WifiChannel[Sockets[s].ul].status)
                       /\ MayServe(s)
<1>3. ASSUME NEW i \in Channels, NEW c \in WIFI_Channel, NEW o \in es_wifi_sendto(c),
             Drives(s, i, c, o)
      PROVE  /\ o.channel \in WIFI_Channel /\ Works(s, i, c, o.channel) /\ o.channel.type = c.type
             /\ \/ o.channel = c
                \/ /\ o.channel.status = c.status \cup {"STARTED_CLIENT"}
                   /\ o.channel.running = c.running \cup {"client"}
  <2>1. "SEND_OK" \in FLAGS /\ "STARTED_CLIENT" \in FLAGS /\ "client" \in Runnable
        /\ o \in es_wifi_datagram(c, "SEND_OK", "STARTED_CLIENT", "client")
    BY DEF FLAGS, Runnable, es_wifi_sendto
  <2>2. \/ o.channel = c
        \/ Entry(c, o.channel, c.status \cup {"STARTED_CLIENT"}, c.running \cup {"client"})
    BY <2>1, DatagramOutcome
  <2> QED
    BY <1>3, <2>2 DEF Entry, Works, Drives
<1>4. ASSUME NEW i \in Channels, NEW c \in WIFI_Channel, NEW o \in es_wifi_recvfrom(c),
             Drives(s, i, c, o)
      PROVE  /\ o.channel \in WIFI_Channel /\ Works(s, i, c, o.channel) /\ o.channel.type = c.type
             /\ \/ o.channel = c
                \/ /\ o.channel.status = c.status \cup {"STARTED_SERVER"}
                   /\ o.channel.running = c.running \cup {"server"}
  <2>1. "RECV_OK" \in FLAGS /\ "STARTED_SERVER" \in FLAGS /\ "server" \in Runnable
        /\ o \in es_wifi_datagram(c, "RECV_OK", "STARTED_SERVER", "server")
    BY DEF FLAGS, Runnable, es_wifi_recvfrom
  <2>2. \/ o.channel = c
        \/ Entry(c, o.channel, c.status \cup {"STARTED_SERVER"}, c.running \cup {"server"})
    BY <2>1, DatagramOutcome
  <2> QED
    BY <1>4, <2>2 DEF Entry, Works, Drives
<1>5. \/ Sends /\ CallsDriver(s, es_wifi_sendto, LAMBDA slot, ok : Keeps(s, slot))
      \/ Receives /\ CallsDriver(s, es_wifi_recvfrom, LAMBDA slot, ok : Keeps(s, slot))
  BY Zenon DEF NetDatagram, Serves
<1>6. \/ Refused(s)
      \/ Sends /\ \E i \in Channels : \E c \in WIFI_Channel : \E o \in es_wifi_sendto(c) :
              Drives(s, i, c, o) /\ Keeps(s, On(s, i))
      \/ Receives /\ \E i \in Channels : \E c \in WIFI_Channel : \E o \in es_wifi_recvfrom(c) :
              Drives(s, i, c, o) /\ Keeps(s, On(s, i))
  BY <1>5, SendtoDoes, RecvfromDoes, Zenon
<1> HIDE DEF Sends, Receives
<1>7. CASE Sends /\ \E i \in Channels : \E c \in WIFI_Channel : \E o \in es_wifi_sendto(c) :
              Drives(s, i, c, o) /\ Keeps(s, On(s, i))
  <2>1. PICK i \in Channels : \E c \in WIFI_Channel : \E o \in es_wifi_sendto(c) :
              Drives(s, i, c, o) /\ Keeps(s, On(s, i))
    BY <1>7
  <2>2. PICK c \in WIFI_Channel : \E o \in es_wifi_sendto(c) : Drives(s, i, c, o) /\ Keeps(s, On(s, i))
    BY <2>1
  <2>3. PICK o \in es_wifi_sendto(c) : Drives(s, i, c, o) /\ Keeps(s, On(s, i))
    BY <2>2
  <2> QED
    <3>1. /\ On(s, i) \in Socket /\ Moves(s, On(s, i), "new") /\ SameLine(s, On(s, i))
          /\ SameTls(s, On(s, i)) /\ On(s, i).status = Sockets[s].status /\ On(s, i).ul = i
          /\ heap' = heap
      BY <1>0, <2>3
    <3>2. /\ o.channel \in WIFI_Channel /\ Works(s, i, c, o.channel) /\ o.channel.type = c.type
          /\ \/ o.channel = c
             \/ /\ o.channel.status = c.status \cup {"STARTED_CLIENT"}
                /\ o.channel.running = c.running \cup {"client"}
      BY <1>3, <2>3
    <3>3. o.channel = c \/ SendsFirst(s, c, o.channel) \/ WaitsFirst(s, c, o.channel)
      BY <1>7, <3>2, Zenon DEF Sends, SendsFirst
    <3> QED
      BY <1>1, <3>1, <3>2, <3>3, Zenon
<1>8. CASE Receives /\ \E i \in Channels : \E c \in WIFI_Channel : \E o \in es_wifi_recvfrom(c) :
              Drives(s, i, c, o) /\ Keeps(s, On(s, i))
  <2>1. PICK i \in Channels : \E c \in WIFI_Channel : \E o \in es_wifi_recvfrom(c) :
              Drives(s, i, c, o) /\ Keeps(s, On(s, i))
    BY <1>8
  <2>2. PICK c \in WIFI_Channel : \E o \in es_wifi_recvfrom(c) : Drives(s, i, c, o) /\ Keeps(s, On(s, i))
    BY <2>1
  <2>3. PICK o \in es_wifi_recvfrom(c) : Drives(s, i, c, o) /\ Keeps(s, On(s, i))
    BY <2>2
  <2> QED
    <3>1. /\ On(s, i) \in Socket /\ Moves(s, On(s, i), "new") /\ SameLine(s, On(s, i))
          /\ SameTls(s, On(s, i)) /\ On(s, i).status = Sockets[s].status /\ On(s, i).ul = i
          /\ heap' = heap
      BY <1>0, <2>3
    <3>2. /\ o.channel \in WIFI_Channel /\ Works(s, i, c, o.channel) /\ o.channel.type = c.type
          /\ \/ o.channel = c
             \/ /\ o.channel.status = c.status \cup {"STARTED_SERVER"}
                /\ o.channel.running = c.running \cup {"server"}
      BY <1>4, <2>3
    <3>3. o.channel = c \/ SendsFirst(s, c, o.channel) \/ WaitsFirst(s, c, o.channel)
      BY <1>8, <3>2, Zenon DEF Receives, WaitsFirst
    <3> QED
      BY <1>1, <3>1, <3>2, <3>3, Zenon
<1> QED
  BY <1>2, <1>6, <1>7, <1>8, Zenon

\* What net_listen leaves.
LEMMA ListenEffect ==
  ASSUME Types, NEW s \in Slots, NetListen(s)
  PROVE  /\ role[s] = "new" /\ Sockets[s].type = "STREAM" /\ heap' = heap /\ MayServe(s)
         /\ \E r \in {"server", "new"} : \E i \in Channels : \E c \in WIFI_Channel : \E d \in WIFI_Channel :
              /\ Moves(s, Sockets[s], r) /\ Works(s, i, c, d) /\ Sockets[s].ul = i /\ c = WifiChannel[i]
              /\ d.type = c.type
              /\ r = "new" => d = c
              /\ r = "server" => /\ d.status = c.status \cup {"STARTED_SERVER"}
                                 /\ d.running = c.running \cup {"server"}
<1>1. /\ role[s] = "new" /\ Sockets[s].type = "STREAM" /\ Sockets[s].ul >= 0
      /\ UNCHANGED << Sockets, heap, busy >> /\ MayServe(s)
  BY Zenon DEF NetListen
<1> DEFINE i == Sockets[s].ul
           c == WifiChannel[i]
<1>2. i \in Channels
  BY <1>1, SlotFields, SlotNumbers
<1>3. PICK o \in es_wifi_listen(c) :
       /\ WifiChannel' = [ WifiChannel EXCEPT ![i] = o.channel ]
       /\ role' = [ role EXCEPT ![s] = IF o.ok THEN "server" ELSE "new" ]
  BY Zenon DEF NetListen
<1>4. c \in WIFI_Channel
  BY <1>2 DEF Types
<1>5. /\ o.ok \in BOOLEAN
      /\ ~o.ok => o.channel = c
      /\ o.ok => Entry(c, o.channel, c.status \cup {"STARTED_SERVER"}, c.running \cup {"server"})
  BY <1>4, ListenOutcome
<1>6. Claims(s, i, c)
  BY DEF Claims
<1>7. Sockets' = [ Sockets EXCEPT ![s] = Sockets[s] ] /\ Sockets[s] \in Socket
  BY <1>1, SlotFields DEF Types
<1>8. \A r \in {"server", "new"} : r \in Roles
  BY DEF Roles
<1>9. CASE o.ok
  <2>1. Moves(s, Sockets[s], "server") /\ Works(s, i, c, o.channel)
    BY <1>1, <1>3, <1>6, <1>7, <1>8, <1>9 DEF Moves, Works
  <2>2. /\ o.channel \in WIFI_Channel /\ o.channel.type = c.type
        /\ o.channel.status = c.status \cup {"STARTED_SERVER"}
        /\ o.channel.running = c.running \cup {"server"}
    BY <1>5, <1>9 DEF Entry
  <2> HIDE DEF i, c
  <2> QED
    BY <1>1, <1>2, <1>4, <2>1, <2>2 DEF i, c
<1>10. CASE ~o.ok
  <2>1. Moves(s, Sockets[s], "new") /\ Works(s, i, c, o.channel)
    BY <1>1, <1>3, <1>6, <1>7, <1>8, <1>10 DEF Moves, Works
  <2>2. o.channel = c
    BY <1>5, <1>10
  <2> HIDE DEF i, c
  <2> QED
    BY <1>1, <1>2, <1>4, <2>1, <2>2 DEF i, c
<1> QED
  BY <1>9, <1>10

-----------------------------------------------------------------------------
\* What each call leaves: connect, and the options about TLS.

\* What is left of the heap when the context of slot s is freed.
HeapWithout(s) == heap \ {Sockets[s].tlsData}

\* What net_connect leaves; when it fails on a secure socket, the context is gone.
LEMMA ConnectEffect ==
  ASSUME Types, NEW s \in Slots, NetConnect(s)
  PROVE  /\ role[s] \in MayConnect
         /\ role[s] = "new" /\ Attached(s) => ~Serves(WifiChannel[Sockets[s].ul])
         /\ \E k \in Socket :
              /\ SameLine(s, k) /\ k.status \in {Sockets[s].status, "CONNECTED"}
              /\ \/ /\ Moves(s, k, role[s]) /\ SameTls(s, k) /\ heap' = heap /\ Unattached(s, k)
                    /\ k.status = Sockets[s].status
                 \/ \E i \in Channels : \E c \in WIFI_Channel : \E d \in WIFI_Channel :
                      /\ Works(s, i, c, d) /\ k.ul = i /\ d.type = c.type
                      /\ \/ /\ Moves(s, k, "failed") /\ d = c /\ ~k.is_secure
                            /\ k.tlsData = Sockets[s].tlsData
                            /\ heap' = IF Sockets[s].is_secure THEN HeapWithout(s) ELSE heap
                         \/ /\ Moves(s, k, "client") /\ SameTls(s, k) /\ heap' = heap
                            /\ c.type = "STREAM"
                            /\ d.status = c.status \cup CONNECTED_RW
                            /\ d.running = c.running \cup {"client"}
<1>1. /\ role[s] \in MayConnect /\ UNCHANGED busy
      /\ role[s] = "new" /\ Attached(s) => ~Serves(WifiChannel[Sockets[s].ul])
  BY Zenon DEF NetConnect, Serves
<1>2. CASE Refused(s)
  <2>1. \E k \in Socket : /\ Moves(s, k, role[s]) /\ SameLine(s, k) /\ SameTls(s, k)
                           /\ k.status = Sockets[s].status /\ heap' = heap /\ Unattached(s, k)
    BY <1>1, <1>2, RefusedEffect
  <2> QED
    BY <1>1, <2>1
<1>3. CASE \E i \in Channels : \E c \in WIFI_Channel : \E o \in es_wifi_connect(c) :
              Drives(s, i, c, o) /\ Connected(s, On(s, i), o.ok)
  <2>1. PICK i \in Channels : \E c \in WIFI_Channel : \E o \in es_wifi_connect(c) :
              Drives(s, i, c, o) /\ Connected(s, On(s, i), o.ok)
    BY <1>3
  <2>2. PICK c \in WIFI_Channel : \E o \in es_wifi_connect(c) :
              Drives(s, i, c, o) /\ Connected(s, On(s, i), o.ok)
    BY <2>1
  <2>3. PICK o \in es_wifi_connect(c) : Drives(s, i, c, o) /\ Connected(s, On(s, i), o.ok)
    BY <2>2
  <2>4. /\ o.ok \in BOOLEAN
        /\ ~o.ok => o.channel = c
        /\ o.ok => /\ Entry(c, o.channel, c.status \cup CONNECTED_RW, c.running \cup {"client"})
                   /\ c.type = "STREAM"
    BY ConnectOutcome
  <2>5. Works(s, i, c, o.channel)
    BY <2>3 DEF Works, Drives
  <2> DEFINE k == On(s, i)
  <2>6. k \in Socket /\ k.ul = i /\ SameLine(s, k) /\ SameTls(s, k) /\ k.status = Sockets[s].status
    BY OnSlot DEF On
  <2>7. "failed" \in Roles /\ "client" \in Roles
    BY DEF Roles
  <2>8. CASE ~o.ok
    <3> DEFINE f == [ k EXCEPT !.is_secure = FALSE ]
    <3>1. /\ f \in Socket /\ f.ul = i /\ SameLine(s, f) /\ f.is_secure = FALSE
          /\ f.tlsData = Sockets[s].tlsData /\ f.status = Sockets[s].status
      BY <2>6 DEF Socket, SameLine, SameTls
    <3>2. /\ Sockets' = [ Sockets EXCEPT ![s] = f ] /\ role' = [ role EXCEPT ![s] = "failed" ]
          /\ heap' = IF k.is_secure THEN heap \ {k.tlsData} ELSE heap
      BY <2>3, <2>8 DEF Connected, tls_connect_failed, Outcome
    <3>3. heap' = IF Sockets[s].is_secure THEN HeapWithout(s) ELSE heap
      BY <2>6, <3>2 DEF HeapWithout, SameTls
    <3> HIDE DEF f, k
    <3>4. Moves(s, f, "failed")
      BY <1>1, <2>7, <3>1, <3>2 DEF Moves
    <3>5. o.channel = c
      BY <2>4, <2>8
    <3> QED
      BY <1>1, <2>5, <3>1, <3>3, <3>4, <3>5
  <2>9. CASE o.ok
    <3>0. /\ o.channel \in WIFI_Channel /\ o.channel.type = c.type /\ c.type = "STREAM"
          /\ o.channel.status = c.status \cup CONNECTED_RW
          /\ o.channel.running = c.running \cup {"client"}
      BY <2>4, <2>9 DEF Entry
    <3>1. \E f \in Socket : /\ f.ul = i /\ SameLine(s, f) /\ SameTls(s, f) /\ f.status = "CONNECTED"
                            /\ Sockets' = [ Sockets EXCEPT ![s] = f ]
                            /\ role' = [ role EXCEPT ![s] = "client" ] /\ heap' = heap
      <4>1. CASE ~k.is_secure
        <5> DEFINE f == [ k EXCEPT !.status = "CONNECTED" ]
        <5>1. f \in Socket /\ f.ul = i /\ SameLine(s, f) /\ SameTls(s, f) /\ f.status = "CONNECTED"
          BY <2>6 DEF Socket, SameLine, SameTls
        <5>2. /\ Sockets' = [ Sockets EXCEPT ![s] = f ]
              /\ role' = [ role EXCEPT ![s] = "client" ] /\ heap' = heap
          BY <2>3, <2>9, <4>1 DEF Connected
        <5> HIDE DEF f
        <5> QED
          BY <5>1, <5>2
      <4>2. CASE k.is_secure
        <5> DEFINE f == [ k EXCEPT !.status = "CONNECTED", !.tls_started = TRUE ]
        <5>1. f \in Socket /\ f.ul = i /\ SameLine(s, f) /\ SameTls(s, f) /\ f.status = "CONNECTED"
          BY <2>6 DEF Socket, SameLine, SameTls
        <5>2. PICK p \in net_mbedtls_start(k, heap) :
                /\ p.ok /\ heap' = p.heap
                /\ Sockets' = [ Sockets EXCEPT ![s] =
                                  [ p.slot EXCEPT !.status = "CONNECTED", !.tls_started = TRUE ] ]
                /\ role' = [ role EXCEPT ![s] = "client" ]
          BY <2>3, <2>9, <4>2, Zenon DEF Connected
        <5>3. p.slot = k /\ p.heap = heap
          BY <5>2 DEF net_mbedtls_start, mbedtls_free_resource, Outcome
        <5>4. /\ Sockets' = [ Sockets EXCEPT ![s] = f ]
              /\ role' = [ role EXCEPT ![s] = "client" ] /\ heap' = heap
          BY <5>2, <5>3
        <5> HIDE DEF f, k
        <5> QED
          BY <5>1, <5>4
      <4> QED
        BY <4>1, <4>2
    <3>2. PICK f \in Socket : /\ f.ul = i /\ SameLine(s, f) /\ SameTls(s, f) /\ f.status = "CONNECTED"
                            /\ Sockets' = [ Sockets EXCEPT ![s] = f ]
                            /\ role' = [ role EXCEPT ![s] = "client" ] /\ heap' = heap
      BY <3>1
    <3>3. Moves(s, f, "client")
      BY <1>1, <2>7, <3>2 DEF Moves
    <3> QED
      BY <1>1, <2>5, <3>0, <3>2, <3>3
  <2> QED
    BY <2>4, <2>8, <2>9
<1> QED
  BY <1>2, <1>3, ConnectDoes

\* What net_connect leaves when the TLS handshake fails: the socket is closed under the caller.
LEMMA TlsFailsEffect ==
  ASSUME Types, NEW s \in Slots, NetConnectTlsFails(s)
  PROVE  /\ role[s] \in MayConnect /\ Sockets[s].is_secure
         /\ heap' = HeapWithout(s)
         /\ \E k \in Socket :
              /\ Moves(s, k, "none") /\ SameLine(s, k) /\ ~k.is_secure /\ k.status = "NOT_ALIVE"
              /\ k.ul = NoUl
              /\ \E i \in Channels : \E c \in WIFI_Channel : \E d \in WIFI_Channel :
                   /\ Works(s, i, c, d) /\ c.type = "STREAM"
                   /\ ~StopMayFail /\ ~Serves(c) =>
                        d.status = FREE /\ d.running = (c.running \cup {"client"}) \ {"client"}
<1>1. role[s] \in MayConnect /\ UNCHANGED busy /\ Sockets[s].is_secure
  BY Zenon DEF NetConnectTlsFails
<1>2. Creation(s).ul >= 0
  BY DEF NetConnectTlsFails
<1>3. PICK i \in Channels : \E c \in WIFI_Channel :
           /\ Creation(s).ul = i /\ Creation(s).channels[i] = c /\ Claims(s, i, c)
           /\ \A d : [ Creation(s).channels EXCEPT ![i] = d ] = [ WifiChannel EXCEPT ![i] = d ]
  BY <1>2, Driven
<1>4. PICK c \in WIFI_Channel :
           /\ Creation(s).ul = i /\ Creation(s).channels[i] = c /\ Claims(s, i, c)
           /\ \A d : [ Creation(s).channels EXCEPT ![i] = d ] = [ WifiChannel EXCEPT ![i] = d ]
  BY <1>3
<1>5. \E o \in es_wifi_connect(c) :
        /\ o.ok
        /\ \E p \in es_wifi_close(o.channel, Sockets[s].cloneserver) :
             WifiChannel' = [ Creation(s).channels EXCEPT ![i] = p.channel ]
  BY <1>4, Zenon DEF NetConnectTlsFails
<1>6. PICK o \in es_wifi_connect(c) :
        /\ o.ok
        /\ \E p \in es_wifi_close(o.channel, Sockets[s].cloneserver) :
             WifiChannel' = [ Creation(s).channels EXCEPT ![i] = p.channel ]
  BY <1>5
<1>7. PICK p \in es_wifi_close(o.channel, Sockets[s].cloneserver) :
             WifiChannel' = [ Creation(s).channels EXCEPT ![i] = p.channel ]
  BY <1>6
<1>8. Works(s, i, c, p.channel)
  BY <1>4, <1>7 DEF Works
<1>9. Entry(c, o.channel, c.status \cup CONNECTED_RW, c.running \cup {"client"}) /\ c.type = "STREAM"
  BY <1>6, ConnectOutcome
<1>10. o.channel \in WIFI_Channel /\ o.channel.running = c.running \cup {"client"}
       /\ (Serves(o.channel) <=> Serves(c))
  BY <1>9 DEF Entry, Serves, CONNECTED_RW
<1>11. Sockets[s].cloneserver \in BOOLEAN
  BY SlotFields
<1>12. /\ p.channel \in WIFI_Channel
       /\ ~StopMayFail /\ ~Serves(c) =>
            p.channel.status = FREE /\ p.channel.running = (c.running \cup {"client"}) \ {"client"}
  BY <1>10, <1>11, CloseOutcome DEF Entry
<1>13. PICK q \in net_mbedtls_start(Sockets[s], heap) :
         /\ ~q.ok /\ heap' = q.heap
         /\ Sockets' = [ Sockets EXCEPT ![s] = [ q.slot EXCEPT !.is_secure = FALSE, !.ul = NoUl,
                                                               !.status = "NOT_ALIVE" ] ]
  BY Zenon DEF NetConnectTlsFails
<1>14. q.slot = [ Sockets[s] EXCEPT !.tlsData = NULL ] /\ q.heap = HeapWithout(s)
  BY <1>13 DEF net_mbedtls_start, mbedtls_free_resource, Outcome, HeapWithout
<1> DEFINE k == [ [ Sockets[s] EXCEPT !.tlsData = NULL ] EXCEPT !.is_secure = FALSE, !.ul = NoUl,
                                                               !.status = "NOT_ALIVE" ]
<1>15. /\ k \in Socket /\ SameLine(s, k) /\ k.is_secure = FALSE /\ k.status = "NOT_ALIVE"
       /\ k.ul = NoUl
  BY SlotFields DEF Socket, SameLine
<1>16. Sockets' = [ Sockets EXCEPT ![s] = k ] /\ heap' = HeapWithout(s)
  BY <1>13, <1>14
<1> HIDE DEF k
<1>17. role' = [ role EXCEPT ![s] = "none" ] /\ "none" \in Roles
  BY Zenon DEF NetConnectTlsFails, Roles
<1>18. Moves(s, k, "none")
  BY <1>1, <1>15, <1>16, <1>17 DEF Moves
<1> QED
  BY <1>1, <1>8, <1>9, <1>12, <1>15, <1>16, <1>18

\* Slot s is given a context p, or keeps what it has.
LEMMA CheckTls ==
  ASSUME Types, NEW s \in Slots, NEW o \in net_mbedtls_check_tlsdata(Sockets[s], heap)
  PROVE  /\ o.slot \in Socket /\ SameLine(s, o.slot) /\ o.slot.is_secure = Sockets[s].is_secure
         /\ o.slot.ul = Sockets[s].ul /\ o.slot.status = Sockets[s].status
         /\ o.ok \in BOOLEAN
         /\ \/ Sockets[s].tlsData # NULL /\ o.ok /\ o.slot.tlsData = Sockets[s].tlsData /\ o.heap = heap
            \/ /\ Sockets[s].tlsData = NULL /\ o.ok
               /\ \E p \in Contexts \ heap : o.slot.tlsData = p /\ o.heap = heap \cup {p}
            \/ Sockets[s].tlsData = NULL /\ ~o.ok /\ o.slot.tlsData = NULL /\ o.heap = heap
<1>0. Sockets[s] \in Socket
  BY SlotFields
<1>1. CASE Sockets[s].tlsData # NULL
  <2>1. o = Outcome(Sockets[s], heap, TRUE)
    BY <1>1 DEF net_mbedtls_check_tlsdata
  <2>2. o.slot = Sockets[s] /\ o.heap = heap /\ o.ok = TRUE
    BY <2>1 DEF Outcome
  <2> QED
    BY <1>0, <1>1, <2>2 DEF SameLine, Socket
<1>2. CASE Sockets[s].tlsData = NULL /\ o = Outcome(Sockets[s], heap, FALSE)
  <2>2. o.slot = Sockets[s] /\ o.heap = heap /\ o.ok = FALSE
    BY <1>2 DEF Outcome
  <2> QED
    BY <1>0, <1>2, <2>2 DEF SameLine, Socket
<1>3. ASSUME Sockets[s].tlsData = NULL, NEW p \in Contexts \ heap,
             o = Outcome([ Sockets[s] EXCEPT !.tlsData = p ], heap \cup {p}, TRUE)
      PROVE  /\ o.slot \in Socket /\ SameLine(s, o.slot) /\ o.slot.is_secure = Sockets[s].is_secure
             /\ o.slot.ul = Sockets[s].ul /\ o.slot.status = Sockets[s].status
             /\ o.ok = TRUE /\ o.slot.tlsData = p /\ o.heap = heap \cup {p}
  <2>2. o.slot = [ Sockets[s] EXCEPT !.tlsData = p ] /\ o.heap = heap \cup {p} /\ o.ok = TRUE
    BY <1>3 DEF Outcome
  <2> QED
    BY <1>0, <2>2 DEF SameLine, Socket
<1>4. \/ o = Outcome(Sockets[s], heap, FALSE)
      \/ \E p \in Contexts \ heap : o = Outcome([ Sockets[s] EXCEPT !.tlsData = p ], heap \cup {p}, TRUE)
      \/ Sockets[s].tlsData # NULL
  BY DEF net_mbedtls_check_tlsdata
<1> QED
  BY <1>1, <1>2, <1>3, <1>4

\* What the socket option that asks for TLS leaves.
LEMMA SetSecureEffect ==
  ASSUME Types, NEW s \in Slots, NetSetSecure(s)
  PROVE  /\ role[s] \in MayConnect \cup MayBeSecured
         /\ UNCHANGED WifiChannel
         /\ \E k \in Socket :
              /\ Moves(s, k, role[s]) /\ SameLine(s, k) /\ k.status = Sockets[s].status
              /\ k.ul = Sockets[s].ul
              /\ \/ k.is_secure /\ Sockets[s].tlsData # NULL /\ k.tlsData = Sockets[s].tlsData /\ heap' = heap
                 \/ /\ Sockets[s].tlsData = NULL /\ k.is_secure
                    /\ \E p \in Contexts \ heap : k.tlsData = p /\ heap' = heap \cup {p}
                 \/ Sockets[s].tlsData = NULL /\ SameTls(s, k) /\ heap' = heap
<1>1. role[s] \in MayConnect \cup MayBeSecured /\ UNCHANGED << WifiChannel, role, busy >>
  BY Zenon DEF NetSetSecure
<1>2. PICK o \in net_mbedtls_check_tlsdata(Sockets[s], heap) :
         /\ heap' = o.heap
         /\ Sockets' = [ Sockets EXCEPT ![s] = [ o.slot EXCEPT !.is_secure = o.ok \/ @ ] ]
  BY Zenon DEF NetSetSecure
<1>3. /\ o.slot \in Socket /\ SameLine(s, o.slot) /\ o.slot.is_secure = Sockets[s].is_secure
      /\ o.slot.ul = Sockets[s].ul /\ o.slot.status = Sockets[s].status
      /\ o.ok \in BOOLEAN
      /\ \/ Sockets[s].tlsData # NULL /\ o.ok /\ o.slot.tlsData = Sockets[s].tlsData /\ o.heap = heap
         \/ /\ Sockets[s].tlsData = NULL /\ o.ok
            /\ \E p \in Contexts \ heap : o.slot.tlsData = p /\ o.heap = heap \cup {p}
         \/ Sockets[s].tlsData = NULL /\ ~o.ok /\ o.slot.tlsData = NULL /\ o.heap = heap
  BY CheckTls
<1>4. o.slot.is_secure \in BOOLEAN /\ role[s] \in Roles /\ Sockets[s].is_secure \in BOOLEAN
  BY <1>3, SlotFields DEF Socket
<1> DEFINE k == [ o.slot EXCEPT !.is_secure = o.ok \/ o.slot.is_secure ]
<1>5. /\ k \in Socket /\ SameLine(s, k) /\ k.ul = Sockets[s].ul /\ k.status = Sockets[s].status
      /\ k.tlsData = o.slot.tlsData
  BY <1>3, <1>4 DEF Socket, SameLine
<1>6. k.is_secure = (o.ok \/ o.slot.is_secure)
  BY <1>3, <1>4 DEF Socket
<1>7. Sockets' = [ Sockets EXCEPT ![s] = k ]
  BY <1>2
<1> HIDE DEF k
<1>8. Moves(s, k, role[s])
  BY <1>1, <1>4, <1>5, <1>7, MovesSame
<1>9. k.is_secure \in BOOLEAN
  BY <1>5 DEF Socket
<1>10. (o.ok => k.is_secure) /\ (~o.ok => k.is_secure = Sockets[s].is_secure)
  BY <1>3, <1>4, <1>6, <1>9
<1>11. CASE Sockets[s].tlsData # NULL
  BY <1>1, <1>2, <1>3, <1>5, <1>8, <1>10, <1>11
<1>12. CASE Sockets[s].tlsData = NULL /\ o.ok
  BY <1>1, <1>2, <1>3, <1>5, <1>8, <1>10, <1>12
<1>13. CASE Sockets[s].tlsData = NULL /\ ~o.ok
  <2>1. SameTls(s, k)
    BY <1>3, <1>5, <1>10, <1>13 DEF SameTls
  <2> QED
    BY <1>1, <1>2, <1>3, <1>5, <1>8, <2>1, <1>13
<1> QED
  BY <1>11, <1>12, <1>13

\* What the options that set a certificate or a name leave.
LEMMA TlsOptionEffect ==
  ASSUME Types, NEW s \in Slots, NetSetTlsOption(s)
  PROVE  /\ role[s] = "new" /\ Allows("secure unused", Sockets[s].is_secure)
         /\ UNCHANGED WifiChannel
         /\ \E k \in Socket :
              /\ Moves(s, k, role[s]) /\ SameLine(s, k) /\ k.status = Sockets[s].status
              /\ k.ul = Sockets[s].ul /\ k.is_secure = Sockets[s].is_secure
              /\ \/ k.tlsData = Sockets[s].tlsData /\ heap' = heap
                 \/ /\ Sockets[s].tlsData = NULL
                    /\ \E p \in Contexts \ heap : k.tlsData = p /\ heap' = heap \cup {p}
<1>1. /\ role[s] = "new" /\ UNCHANGED << WifiChannel, role, busy >>
      /\ Allows("secure unused", Sockets[s].is_secure)
  BY Zenon DEF NetSetTlsOption
<1>2. PICK o \in net_mbedtls_check_tlsdata(Sockets[s], heap) :
         heap' = o.heap /\ Sockets' = [ Sockets EXCEPT ![s] = o.slot ]
  BY Zenon DEF NetSetTlsOption
<1>3. /\ o.slot \in Socket /\ SameLine(s, o.slot) /\ o.slot.is_secure = Sockets[s].is_secure
      /\ o.slot.ul = Sockets[s].ul /\ o.slot.status = Sockets[s].status
      /\ \/ Sockets[s].tlsData # NULL /\ o.slot.tlsData = Sockets[s].tlsData /\ o.heap = heap
         \/ /\ Sockets[s].tlsData = NULL
            /\ \E p \in Contexts \ heap : o.slot.tlsData = p /\ o.heap = heap \cup {p}
         \/ Sockets[s].tlsData = NULL /\ o.slot.tlsData = NULL /\ o.heap = heap
  BY CheckTls
<1>4. Moves(s, o.slot, role[s])
  BY <1>1, <1>2, <1>3, SlotFields, MovesSame
<1> QED
  BY <1>1, <1>2, <1>3, <1>4

-----------------------------------------------------------------------------
\* What each call leaves: shutdown, close, socket and accept.

\* A slot without its TLS.
LEMMA CleanedUp ==
  ASSUME Types, NEW s \in Slots
  PROVE  LET o == tls_cleanup(Sockets[s], heap)
         IN  /\ o.slot \in Socket /\ SameLine(s, o.slot) /\ o.slot.is_secure = FALSE
             /\ o.slot.ul = Sockets[s].ul /\ o.slot.status = Sockets[s].status
             /\ o.heap = IF Sockets[s].is_secure /\ Sockets[s].tls_started THEN HeapWithout(s) ELSE heap
<1>0. Sockets[s] \in Socket
  BY SlotFields
<1>1. CASE Sockets[s].is_secure /\ Sockets[s].tls_started
  <2> DEFINE q == [ [ Sockets[s] EXCEPT !.tlsData = NULL ] EXCEPT !.is_secure = FALSE, !.tls_started = FALSE ]
  <2>1. /\ tls_cleanup(Sockets[s], heap).slot = q
        /\ tls_cleanup(Sockets[s], heap).heap = HeapWithout(s)
    BY <1>1 DEF tls_cleanup, mbedtls_free_resource, Outcome, HeapWithout
  <2>2. q \in Socket /\ SameLine(s, q) /\ q.is_secure = FALSE /\ q.ul = Sockets[s].ul
        /\ q.status = Sockets[s].status
    BY <1>0 DEF Socket, SameLine
  <2> QED
    BY <1>1, <2>1, <2>2
<1>2. CASE ~(Sockets[s].is_secure /\ Sockets[s].tls_started)
  <2> DEFINE q == [ Sockets[s] EXCEPT !.is_secure = FALSE ]
  <2>1. /\ tls_cleanup(Sockets[s], heap).slot = q
        /\ tls_cleanup(Sockets[s], heap).heap = heap
    BY <1>2 DEF tls_cleanup, Outcome
  <2>2. q \in Socket /\ SameLine(s, q) /\ q.is_secure = FALSE /\ q.ul = Sockets[s].ul
        /\ q.status = Sockets[s].status
    BY <1>0 DEF Socket, SameLine
  <2> QED
    BY <1>2, <2>1, <2>2
<1> QED
  BY <1>1, <1>2

\* How a slot loses its TLS context.
Cleans(s, k) ==
  /\ SameLine(s, k) /\ ~k.is_secure
  /\ heap' = IF Sockets[s].is_secure /\ Sockets[s].tls_started THEN HeapWithout(s) ELSE heap

\* What net_shutdown leaves.
LEMMA ShutdownEffect ==
  ASSUME Types, NEW s \in Slots, NEW flags \in ShutdownModes, NetShutdown(s, flags)
  PROVE  /\ role[s] \in {"client", "accepted", "server"} /\ MayEnd(s)
         /\ \E k \in Socket : \E i \in Channels : \E d \in WIFI_Channel :
              /\ Moves(s, k, IF role[s] = "server" THEN "server" ELSE "shut")
              /\ Cleans(s, k) /\ k.status = Sockets[s].status /\ k.ul = i
              /\ Works(s, i, WifiChannel[i], d) /\ Sockets[s].ul = i
              /\ d.type = WifiChannel[i].type /\ d.running = WifiChannel[i].running
              /\ \/ d.status = WifiChannel[i].status
                 \/ /\ "CONNECTED" \in WifiChannel[i].status
                    /\ d.status = WifiChannel[i].status \ flags
<1> DEFINE i == Sockets[s].ul
           k == tls_cleanup(Sockets[s], heap).slot
           r == IF role[s] = "server" THEN "server" ELSE "shut"
<1>1. /\ role[s] \in {"client", "accepted", "server"} /\ MayEnd(s) /\ i >= 0
      /\ Sockets' = [ Sockets EXCEPT ![s] = k ]
      /\ heap' = tls_cleanup(Sockets[s], heap).heap
      /\ role' = (IF role[s] = "server" THEN role ELSE [ role EXCEPT ![s] = "shut" ])
      /\ UNCHANGED busy
  BY Zenon DEF NetShutdown
<1>2. PICK o \in es_wifi_shutdown(WifiChannel[i], flags) :
        WifiChannel' = [ WifiChannel EXCEPT ![i] = o.channel ]
  BY Zenon DEF NetShutdown
<1>3. i \in Channels
  BY <1>1, SlotFields, SlotNumbers
<1>4. WifiChannel[i] \in WIFI_Channel
  BY <1>3 DEF Types
<1>5. /\ k \in Socket /\ SameLine(s, k) /\ k.is_secure = FALSE
      /\ k.ul = i /\ k.status = Sockets[s].status
      /\ heap' = IF Sockets[s].is_secure /\ Sockets[s].tls_started THEN HeapWithout(s) ELSE heap
  BY <1>1, CleanedUp
<1>6. role' = [ role EXCEPT ![s] = r ] /\ r \in Roles
  BY <1>1 DEF Roles, Types
<1> HIDE DEF k
<1>7. Moves(s, k, r) /\ Cleans(s, k)
  BY <1>1, <1>5, <1>6 DEF Moves, Cleans
<1> HIDE DEF i
<1>8. \/ Entry(WifiChannel[i], o.channel, WifiChannel[i].status, WifiChannel[i].running)
      \/ /\ "CONNECTED" \in WifiChannel[i].status
         /\ Entry(WifiChannel[i], o.channel, WifiChannel[i].status \ flags, WifiChannel[i].running)
  BY <1>4, ShutdownOutcome
<1>9. Works(s, i, WifiChannel[i], o.channel)
  BY <1>2 DEF Works, Claims, i
<1>10. /\ o.channel \in WIFI_Channel
       /\ o.channel.type = WifiChannel[i].type /\ o.channel.running = WifiChannel[i].running
       /\ \/ o.channel.status = WifiChannel[i].status
          \/ /\ "CONNECTED" \in WifiChannel[i].status
             /\ o.channel.status = WifiChannel[i].status \ flags
  BY <1>8 DEF Entry
<1>11. Sockets[s].ul = i
  BY DEF i
<1> QED
  BY <1>1, <1>3, <1>5, <1>7, <1>9, <1>10, <1>11

\* What net_closesocket leaves.
LEMMA CloseEffect ==
  ASSUME Types, NEW s \in Slots, NetClose(s)
  PROVE  /\ Open(s) /\ MayEnd(s)
         /\ \E k \in Socket :
              /\ Moves(s, k, "none") /\ Cleans(s, k) /\ k.status = "NOT_ALIVE"
              /\ \/ Unattached(s, k)
                 \/ \E i \in Channels : \E d \in WIFI_Channel :
                      /\ Works(s, i, WifiChannel[i], d) /\ Sockets[s].ul = i /\ k.ul = NoUl
                      /\ ~StopMayFail =>
                           LET c     == WifiChannel[i]
                               clone == Sockets[s].cloneserver
                           IN  /\ d.type = c.type
                               /\ Serves(c) /\ clone =>
                                    d.status = {"STARTED_SERVER"} /\ d.running = c.running \ {"peer"}
                               /\ Serves(c) /\ ~clone =>
                                    d.status = FREE /\ d.running = c.running \ {"server", "peer"}
                               /\ ~Serves(c) =>
                                    d.status = FREE /\ d.running = c.running \ {"client"}
<1> DEFINE i == Sockets[s].ul
           p == tls_cleanup(Sockets[s], heap).slot
<1>1. /\ Open(s) /\ MayEnd(s)
      /\ heap' = tls_cleanup(Sockets[s], heap).heap
      /\ role' = [ role EXCEPT ![s] = "none" ] /\ UNCHANGED busy
  BY Zenon DEF NetClose
<1>2. \/ i < 0 /\ Sockets' = [ Sockets EXCEPT ![s] = [ p EXCEPT !.status = "NOT_ALIVE" ] ]
               /\ UNCHANGED WifiChannel
      \/ /\ ~(i < 0) /\ Sockets' = [ Sockets EXCEPT ![s] = [ p EXCEPT !.status = "NOT_ALIVE", !.ul = NoUl ] ]
         /\ \E o \in es_wifi_close(WifiChannel[i], Sockets[s].cloneserver) :
              WifiChannel' = [ WifiChannel EXCEPT ![i] = o.channel ]
  BY Zenon DEF NetClose
<1>3. /\ p \in Socket /\ SameLine(s, p) /\ p.is_secure = FALSE /\ p.ul = i
      /\ heap' = IF Sockets[s].is_secure /\ Sockets[s].tls_started THEN HeapWithout(s) ELSE heap
  BY <1>1, CleanedUp
<1> HIDE DEF p
<1>4. "none" \in Roles
  BY DEF Roles
<1>5. CASE i < 0 /\ Sockets' = [ Sockets EXCEPT ![s] = [ p EXCEPT !.status = "NOT_ALIVE" ] ]
               /\ UNCHANGED WifiChannel
  <2> DEFINE k == [ p EXCEPT !.status = "NOT_ALIVE" ]
  <2>1. k \in Socket /\ SameLine(s, k) /\ k.is_secure = FALSE /\ k.ul = i /\ k.status = "NOT_ALIVE"
    BY <1>3 DEF Socket, SameLine
  <2>2. i \in {NoUl, BadUl}
    <3>1. \A j \in Channels : ~(j < 0)
      BY SlotNumbers
    <3> QED
      BY <1>5, <3>1, SlotFields
  <2> HIDE DEF k
  <2>3. Moves(s, k, "none") /\ Cleans(s, k) /\ Unattached(s, k)
    BY <1>1, <1>3, <1>4, <1>5, <2>1, <2>2 DEF Moves, Cleans, Unattached, k
  <2> QED
    BY <1>1, <2>1, <2>3
<1>6. CASE /\ ~(i < 0) /\ Sockets' = [ Sockets EXCEPT ![s] = [ p EXCEPT !.status = "NOT_ALIVE", !.ul = NoUl ] ]
           /\ \E o \in es_wifi_close(WifiChannel[i], Sockets[s].cloneserver) :
                WifiChannel' = [ WifiChannel EXCEPT ![i] = o.channel ]
  <2> DEFINE k == [ p EXCEPT !.status = "NOT_ALIVE", !.ul = NoUl ]
  <2>1. k \in Socket /\ SameLine(s, k) /\ k.is_secure = FALSE /\ k.ul = NoUl /\ k.status = "NOT_ALIVE"
    BY <1>3 DEF Socket, SameLine
  <2> HIDE DEF k
  <2>2. Moves(s, k, "none") /\ Cleans(s, k)
    BY <1>1, <1>3, <1>4, <1>6, <2>1 DEF Moves, Cleans, k
  <2>3. i \in Channels
    BY <1>6, SlotFields, SlotNumbers
  <2>4. PICK o \in es_wifi_close(WifiChannel[i], Sockets[s].cloneserver) :
                WifiChannel' = [ WifiChannel EXCEPT ![i] = o.channel ]
    BY <1>6
  <2>5. WifiChannel[i] \in WIFI_Channel /\ Sockets[s].cloneserver \in BOOLEAN
    BY <2>3, SlotFields DEF Types
  <2>6. Works(s, i, WifiChannel[i], o.channel) /\ Sockets[s].ul = i
    BY <2>4 DEF Works, Claims
  <2> HIDE DEF i
  <2> DEFINE c == WifiChannel[i]
             clone == Sockets[s].cloneserver
  <2>7. /\ \E status \in SUBSET FLAGS, running \in SUBSET Runnable : Entry(c, o.channel, status, running)
        /\ ~StopMayFail =>
             /\ Serves(c) /\ clone => Entry(c, o.channel, {"STARTED_SERVER"}, c.running \ {"peer"})
             /\ Serves(c) /\ ~clone => Entry(c, o.channel, FREE, c.running \ {"server", "peer"})
             /\ ~Serves(c) => Entry(c, o.channel, FREE, c.running \ {"client"})
    BY <2>4, <2>5, CloseOutcome
  <2>8. /\ o.channel \in WIFI_Channel /\ o.channel.type = c.type
        /\ ~StopMayFail =>
             /\ Serves(c) /\ clone => o.channel.status = {"STARTED_SERVER"}
                                      /\ o.channel.running = c.running \ {"peer"}
             /\ Serves(c) /\ ~clone => o.channel.status = FREE
                                       /\ o.channel.running = c.running \ {"server", "peer"}
             /\ ~Serves(c) => o.channel.status = FREE /\ o.channel.running = c.running \ {"client"}
    BY <2>7 DEF Entry
  <2> QED
    BY <1>1, <2>1, <2>2, <2>3, <2>6, <2>8
<1> QED
  BY <1>2, <1>5, <1>6

\* What net_socket leaves.
LEMMA SocketEffect ==
  ASSUME Types, NEW type \in TYPES, NetSocket(type)
  PROVE  /\ RoomToAccept(Cardinality(Accepting) + 1)
         /\ UNCHANGED << WifiChannel, heap >>
         /\ \E s \in FreeSlots : \E k \in Socket :
              /\ Moves(s, k, "new") /\ k.ul = NoUl /\ k.status = "ALLOCATED"
              /\ ~k.is_secure /\ k.tlsData = NULL
<1>1. /\ RoomToAccept(Cardinality(Accepting) + 1)
      /\ UNCHANGED << WifiChannel, heap, busy >>
  BY Zenon DEF NetSocket
<1>2. PICK s \in FirstFreeSlot : /\ Sockets' = [ Sockets EXCEPT ![s] = FoundSlot(s, type) ]
                                 /\ role' = [ role EXCEPT ![s] = "new" ]
  BY Zenon DEF NetSocket
<1>3. s \in FreeSlots /\ s \in Slots
  BY DEF FirstFreeSlot, FreeSlots
<1> DEFINE k == FoundSlot(s, type)
<1>4. /\ k \in Socket /\ k.ul = NoUl /\ k.status = "ALLOCATED" /\ k.is_secure = FALSE
      /\ k.tlsData = NULL
  BY <1>3, SlotFields DEF FoundSlot, Socket
<1>5. "new" \in Roles
  BY DEF Roles
<1> HIDE DEF k
<1>6. Moves(s, k, "new")
  BY <1>1, <1>2, <1>4, <1>5 DEF Moves, k
<1> QED
  BY <1>1, <1>3, <1>4, <1>6

\* What net_accept leaves: the listener in slot s, connected, and a copy of it, on the
\* same channel, in each slot of found (there is one at most).
Clones(s, found) ==
  LET listener == [ Sockets[s] EXCEPT !.status = "CONNECTED" ]
  IN  /\ Sockets' = [ r \in Slots |->
                        IF r = s THEN listener
                        ELSE IF r \in found
                        THEN [ listener EXCEPT !.ul = Sockets[s].ul, !.cloneserver = TRUE ]
                        ELSE Sockets[r] ]
      /\ role' = [ r \in Slots |-> IF r \in found THEN "accepted" ELSE role[r] ]

\* What the end of net_accept leaves.
LEMMA AcceptEffect ==
  ASSUME Types, NEW t \in Waiters, AcceptReturns(t)
  PROVE  /\ busy[t].op = "accept" /\ busy[t].fd \in Slots
         /\ busy' = [ busy EXCEPT ![t] = NoCall ] /\ heap' = heap
         /\ \E i \in Channels : \E d \in WIFI_Channel :
              /\ Sockets[busy[t].fd].ul = i /\ Works(busy[t].fd, i, WifiChannel[i], d)
              /\ \/ UNCHANGED << Sockets, role >> /\ d = WifiChannel[i]
                 \/ /\ Clones(busy[t].fd, FirstFreeSlot)
                    /\ d.type = WifiChannel[i].type
                    /\ d.status = WifiChannel[i].status \cup (CONNECTED_RW \cup {"STARTED_SERVER"})
                    /\ d.running = WifiChannel[i].running \cup {"peer"}
                    /\ "server" \in WifiChannel[i].running /\ "peer" \notin WifiChannel[i].running
<1> DEFINE s == busy[t].fd
           i == Sockets[s].ul
<1>1. /\ busy[t].op = "accept" /\ i >= 0
      /\ busy' = [ busy EXCEPT ![t] = NoCall ] /\ heap' = heap
  BY Zenon DEF AcceptReturns
<1>2. s \in Slots
  BY <1>1 DEF Types
<1>3. i \in Channels
  BY <1>1, <1>2, SlotFields, SlotNumbers
<1>4. PICK o \in es_wifi_accept(WifiChannel[i]) :
        /\ WifiChannel' = [ WifiChannel EXCEPT ![i] = o.channel ]
        /\ \/ ~o.ok /\ UNCHANGED << Sockets, role >>
           \/ o.ok /\ Clones(s, FirstFreeSlot)
  BY Zenon DEF AcceptReturns, Clones
<1>5. WifiChannel[i] \in WIFI_Channel
  BY <1>3 DEF Types
<1>6. Works(s, i, WifiChannel[i], o.channel) /\ Sockets[s].ul = i
  BY <1>4 DEF Works, Claims
<1> DEFINE c == WifiChannel[i]
<1> HIDE DEF i, s
<1>7. /\ o.ok \in BOOLEAN
      /\ ~o.ok => o.channel = c
      /\ o.ok => /\ Entry(c, o.channel, c.status \cup (CONNECTED_RW \cup {"STARTED_SERVER"}),
                             c.running \cup {"peer"})
                 /\ "server" \in c.running /\ "peer" \notin c.running
  BY <1>5, AcceptOutcome
<1>8. CASE ~o.ok
  <2>1. o.channel = c /\ UNCHANGED << Sockets, role >>
    BY <1>4, <1>7, <1>8
  <2> QED
    BY <1>1, <1>2, <1>3, <1>5, <1>6, <2>1 DEF s
<1>9. CASE o.ok
  <2>1. /\ o.channel \in WIFI_Channel /\ o.channel.type = c.type
        /\ o.channel.status = c.status \cup (CONNECTED_RW \cup {"STARTED_SERVER"})
        /\ o.channel.running = c.running \cup {"peer"}
        /\ "server" \in c.running /\ "peer" \notin c.running
    BY <1>7, <1>9 DEF Entry
  <2>2. Clones(s, FirstFreeSlot)
    BY <1>4, <1>9
  <2> QED
    BY <1>1, <1>2, <1>3, <1>6, <2>1, <2>2 DEF s
<1> QED
  BY <1>7, <1>8, <1>9

-----------------------------------------------------------------------------
\* The types.

\* The start of the program has the types.
LEMMA TypesInit == Init => Types
<1> SUFFICES ASSUME Init PROVE Types
  OBVIOUS
<1>1. Sockets \in [ Slots -> Socket ]
  BY SlotNumbers DEF Init, Socket, TYPES
<1>2. WifiChannel \in [ Channels -> WIFI_Channel ]
  BY DEF Init, WIFI_Channel, ProbedChannel, TYPES, FREE
<1>3. heap \subseteq Contexts /\ role \in [ Slots -> Roles ]
  BY DEF Init, Roles
<1>4. /\ busy \in [ Waiters -> [ op : {"none", "accept", "recv", "send"}, fd : Slots \cup {NoSlot},
                                 ctx : Contexts \cup {NULL} ] ]
      /\ \A t \in Waiters : busy[t].op # "none" => busy[t].fd \in Slots
  BY DEF Init, NoCall
<1> QED
  BY <1>1, <1>2, <1>3, <1>4 DEF Types

\* A call that moves one slot keeps the types.
LEMMA OneSlot ==
  ASSUME Types, NEW s \in Slots, NEW k \in Socket, NEW r \in Roles, Moves(s, k, r),
         heap' \subseteq Contexts, WifiChannel' \in [ Channels -> WIFI_Channel ]
  PROVE  Types'
<1>1. Sockets' \in [ Slots -> Socket ] /\ role' \in [ Slots -> Roles ]
  BY DEF Types, Moves
<1>2. busy' = busy
  BY DEF Moves
<1> QED
  BY <1>1, <1>2 DEF Types

\* The channels and the heap keep their types in everything a call may do to them.
LEMMA WorksTypes ==
  ASSUME Types, NEW s \in Slots
  PROVE  /\ UNCHANGED WifiChannel => WifiChannel' \in [ Channels -> WIFI_Channel ]
         /\ \A i \in Channels : \A d \in WIFI_Channel : \A c :
              Works(s, i, c, d) => WifiChannel' \in [ Channels -> WIFI_Channel ]
         /\ \A k \in Socket : Unattached(s, k) => WifiChannel' \in [ Channels -> WIFI_Channel ]
         /\ heap' = heap => heap' \subseteq Contexts
         /\ heap' = HeapWithout(s) => heap' \subseteq Contexts
         /\ \A p \in Contexts : heap' = heap \cup {p} => heap' \subseteq Contexts
         /\ \A k \in Socket : Cleans(s, k) => heap' \subseteq Contexts
<1>1. WifiChannel \in [ Channels -> WIFI_Channel ] /\ heap \subseteq Contexts
  BY DEF Types
<1> QED
  BY <1>1 DEF Works, Unattached, Cleans, HeapWithout

\* A call in progress.
CallRecord == [ op : {"none", "accept", "recv", "send"}, fd : Slots \cup {NoSlot},
                ctx : Contexts \cup {NULL} ]

\* A call that begins to wait keeps the types.
LEMMA Waits ==
  ASSUME Types, NEW t \in Waiters, NEW s \in Slots, NEW op \in {"accept", "recv", "send"},
         NEW ctx \in Contexts \cup {NULL}, Wait(t, op, s, ctx)
  PROVE  Types'
<1> DEFINE call == [ op |-> op, fd |-> s, ctx |-> ctx ]
<1>1. busy \in [ Waiters -> CallRecord ] /\ call \in CallRecord
  BY DEF Types, CallRecord
<1>2. busy' = [ busy EXCEPT ![t] = call ]
  BY DEF Wait
<1>3. busy' \in [ Waiters -> CallRecord ]
  BY <1>1, <1>2
<1>4. \A u \in Waiters : busy'[u].op # "none" => busy'[u].fd \in Slots
  BY <1>1, <1>2 DEF Types
<1>5. UNCHANGED << Sockets, WifiChannel, heap, role >>
  BY DEF Wait
<1> QED
  BY <1>3, <1>4, <1>5 DEF Types, CallRecord

\* A call that returns keeps the types of the calls.
LEMMA WaitEnds ==
  ASSUME Types, NEW t \in Waiters, busy' = [ busy EXCEPT ![t] = NoCall ]
  PROVE  /\ busy' \in [ Waiters -> CallRecord ]
         /\ \A u \in Waiters : busy'[u].op # "none" => busy'[u].fd \in Slots
<1>1. busy \in [ Waiters -> CallRecord ] /\ NoCall \in CallRecord /\ NoCall.op = "none"
  BY DEF Types, CallRecord, NoCall
<1> QED
  BY <1>1 DEF Types

\* The copy of a listener keeps the types of the slots.
LEMMA ClonesTypes ==
  ASSUME Types, NEW s \in Slots, NEW found, Clones(s, found)
  PROVE  Sockets' \in [ Slots -> Socket ] /\ role' \in [ Slots -> Roles ]
<1>1. Sockets \in [ Slots -> Socket ] /\ role \in [ Slots -> Roles ] /\ Sockets[s] \in Socket
  BY SlotFields DEF Types
<1> DEFINE listener == [ Sockets[s] EXCEPT !.status = "CONNECTED" ]
           clone == [ listener EXCEPT !.ul = Sockets[s].ul, !.cloneserver = TRUE ]
<1>2. listener \in Socket /\ clone \in Socket
  BY <1>1 DEF Socket
<1>3. Sockets' = [ r \in Slots |-> IF r = s THEN listener
                                   ELSE IF r \in found THEN clone ELSE Sockets[r] ]
  BY DEF Clones
<1>4. role' = [ r \in Slots |-> IF r \in found THEN "accepted" ELSE role[r] ]
  BY DEF Clones
<1> HIDE DEF listener, clone
<1>5. Sockets' \in [ Slots -> Socket ]
  BY <1>1, <1>2, <1>3
<1>6. "accepted" \in Roles
  BY DEF Roles
<1> QED
  BY <1>1, <1>4, <1>5, <1>6

\* Every step keeps the types.
LEMMA TypesStep ==
  ASSUME Types, [Next]_vars
  PROVE  Types'
<1>1. ASSUME NEW type \in TYPES, NetSocket(type) PROVE Types'
  <2>1. PICK s \in FreeSlots : \E k \in Socket : Moves(s, k, "new")
    BY <1>1, SocketEffect
  <2>2. s \in Slots /\ "new" \in Roles
    BY DEF FreeSlots, Roles
  <2>3. heap' \subseteq Contexts /\ WifiChannel' \in [ Channels -> WIFI_Channel ]
    BY <1>1, SocketEffect DEF Types
  <2> QED
    BY <2>1, <2>2, <2>3, OneSlot
<1>2. ASSUME NEW s \in Slots, NetBind(s) PROVE Types'
  <2>1. \E k \in Socket : \E r \in Roles :
          /\ Moves(s, k, r) /\ heap' \subseteq Contexts
          /\ WifiChannel' \in [ Channels -> WIFI_Channel ]
    BY <1>2, BindEffect, WorksTypes DEF Moves
  <2> QED
    BY <2>1, OneSlot
<1>3. ASSUME NEW s \in Slots, NetListen(s) PROVE Types'
  <2>1. \E r \in Roles : Moves(s, Sockets[s], r)
    BY <1>3, ListenEffect DEF Moves
  <2>2. heap' \subseteq Contexts /\ WifiChannel' \in [ Channels -> WIFI_Channel ]
    BY <1>3, ListenEffect, WorksTypes
  <2> QED
    BY <2>1, <2>2, SlotFields, OneSlot
<1>4. ASSUME NEW s \in Slots, NetConnect(s) PROVE Types'
  <2>1. \E k \in Socket : \E r \in Roles :
          /\ Moves(s, k, r) /\ heap' \subseteq Contexts
          /\ WifiChannel' \in [ Channels -> WIFI_Channel ]
    BY <1>4, ConnectEffect, WorksTypes DEF Moves
  <2> QED
    BY <2>1, OneSlot
<1>5. ASSUME NEW s \in Slots, NetConnectTlsFails(s) PROVE Types'
  <2>1. \E k \in Socket : \E r \in Roles :
          /\ Moves(s, k, r) /\ heap' \subseteq Contexts
          /\ WifiChannel' \in [ Channels -> WIFI_Channel ]
    BY <1>5, TlsFailsEffect, WorksTypes DEF Moves
  <2> QED
    BY <2>1, OneSlot
<1>6. ASSUME NEW s \in Slots, NetDatagram(s) PROVE Types'
  <2>1. \E k \in Socket : \E r \in Roles :
          /\ Moves(s, k, r) /\ heap' \subseteq Contexts
          /\ WifiChannel' \in [ Channels -> WIFI_Channel ]
    BY <1>6, DatagramEffect, WorksTypes DEF Moves
  <2> QED
    BY <2>1, OneSlot
<1>7. ASSUME NEW s \in Slots, NetSetSecure(s) PROVE Types'
  <2>1. \E k \in Socket : \E r \in Roles :
          /\ Moves(s, k, r) /\ heap' \subseteq Contexts
          /\ WifiChannel' \in [ Channels -> WIFI_Channel ]
    BY <1>7, SetSecureEffect, WorksTypes DEF Moves
  <2> QED
    BY <2>1, OneSlot
<1>8. ASSUME NEW s \in Slots, NetSetTlsOption(s) PROVE Types'
  <2>1. PICK k \in Socket :
          /\ Moves(s, k, role[s])
          /\ heap' = heap \/ \E p \in Contexts \ heap : heap' = heap \cup {p}
    BY <1>8, TlsOptionEffect
  <2>2. heap' \subseteq Contexts
    BY <2>1, WorksTypes
  <2>3. WifiChannel' \in [ Channels -> WIFI_Channel ]
    BY <1>8, TlsOptionEffect, WorksTypes
  <2> QED
    BY <2>1, <2>2, <2>3, SlotFields, OneSlot
<1>9. ASSUME NEW s \in Slots, NetClose(s) PROVE Types'
  <2>1. \E k \in Socket : \E r \in Roles :
          /\ Moves(s, k, r) /\ heap' \subseteq Contexts
          /\ WifiChannel' \in [ Channels -> WIFI_Channel ]
    BY <1>9, CloseEffect, WorksTypes DEF Moves
  <2> QED
    BY <2>1, OneSlot
<1>10. ASSUME NEW s \in Slots, NEW flags \in ShutdownModes, NetShutdown(s, flags) PROVE Types'
  <2>1. \E k \in Socket : \E r \in Roles :
          /\ Moves(s, k, r) /\ heap' \subseteq Contexts
          /\ WifiChannel' \in [ Channels -> WIFI_Channel ]
    BY <1>10, ShutdownEffect, WorksTypes DEF Moves
  <2> QED
    BY <2>1, OneSlot
<1>11. ASSUME NEW t \in Waiters, AcceptReturns(t) PROVE Types'
  <2>1. /\ busy[t].fd \in Slots /\ heap' = heap
        /\ WifiChannel' \in [ Channels -> WIFI_Channel ]
        /\ UNCHANGED << Sockets, role >> \/ Clones(busy[t].fd, FirstFreeSlot)
    BY <1>11, AcceptEffect, WorksTypes
  <2>2. Sockets' \in [ Slots -> Socket ] /\ role' \in [ Slots -> Roles ]
    BY <2>1, ClonesTypes DEF Types
  <2>3. /\ busy' \in [ Waiters -> CallRecord ]
        /\ \A u \in Waiters : busy'[u].op # "none" => busy'[u].fd \in Slots
    BY <1>11, AcceptEffect, WaitEnds
  <2> QED
    BY <2>1, <2>2, <2>3 DEF Types, CallRecord
<1>12. ASSUME NEW t \in Waiters, RecvReturns(t) PROVE Types'
  <2>1. busy' = [ busy EXCEPT ![t] = NoCall ] /\ UNCHANGED << Sockets, WifiChannel, heap, role >>
    BY <1>12 DEF RecvReturns, Return
  <2> QED
    BY <2>1, WaitEnds DEF Types, CallRecord
<1>13. ASSUME NEW t \in Waiters, SendReturns(t) PROVE Types'
  <2>1. busy' = [ busy EXCEPT ![t] = NoCall ] /\ UNCHANGED << Sockets, WifiChannel, heap, role >>
    BY <1>13 DEF SendReturns, Return
  <2> QED
    BY <2>1, WaitEnds DEF Types, CallRecord
<1>14. ASSUME NEW t \in Waiters, NEW s \in Slots, NetAccept(t, s) PROVE Types'
  <2>1. Wait(t, "accept", s, NULL)
    BY <1>14 DEF NetAccept
  <2>2. NULL \in Contexts \cup {NULL}
    BY SlotFields DEF NULL
  <2> QED
    BY <2>1, <2>2, Waits
<1>15. ASSUME NEW t \in Waiters, NEW s \in Slots, NetRecv(t, s) PROVE Types'
  <2>1. Wait(t, "recv", s, net_mbedtls_sock_recv(Sockets[s]))
    BY <1>15 DEF NetRecv
  <2>2. net_mbedtls_sock_recv(Sockets[s]) \in Contexts \cup {NULL}
    BY SlotFields DEF net_mbedtls_sock_recv
  <2> QED
    BY <2>1, <2>2, Waits
<1>16. ASSUME NEW t \in Waiters, NEW s \in Slots, NetSend(t, s) PROVE Types'
  <2>1. Wait(t, "send", s, net_mbedtls_sock_send(Sockets[s]))
    BY <1>16 DEF NetSend
  <2>2. net_mbedtls_sock_send(Sockets[s]) \in Contexts \cup {NULL}
    BY SlotFields DEF net_mbedtls_sock_send
  <2> QED
    BY <2>1, <2>2, Waits
<1>17. ASSUME UNCHANGED vars PROVE Types'
  BY <1>17 DEF vars, Types
<1> QED
  BY <1>1, <1>2, <1>3, <1>4, <1>5, <1>6, <1>7, <1>8, <1>9, <1>10, <1>11, <1>12, <1>13, <1>14,
     <1>15, <1>16, <1>17, Zenon DEF Next

\* The socket table, the driver's channel table, the TLS heap and the calls in progress keep
\* their types whatever the application does and whichever commands the module refuses: every
\* handle net_bind, net_accept and the others pass to es_wifi is -1, an error or a channel
\* number, and every call in progress is on a slot of the table.
THEOREM TypeCorrect == Spec => []TypeOK
<1>1. Types => TypeOK
  BY DEF Types, TypeOK
<1> QED
  BY <1>1, TypesInit, TypesStep, PTL DEF Spec

-----------------------------------------------------------------------------
\* The slots that are free, and the slots that calls in progress use.

\* The slots without a role are those find_free_socket may return.
AliveInv == \A s \in Slots : role[s] = "none" <=> Sockets[s].status = "NOT_ALIVE"

\* A slot another call is using has the role that call needs.
CallInv == \A t \in Waiters :
  /\ busy[t].op = "none" => busy[t] = NoCall
  /\ busy[t].op = "accept" => role[busy[t].fd] = "server"
  /\ busy[t].op \in {"recv", "send"} => role[busy[t].fd] \in {"client", "accepted"}

\* At the start every slot is free.
LEMMA AliveInit == Init => AliveInv
  BY DEF Init, AliveInv

\* A call that moves one slot, and frees it when it takes its role away.
LEMMA AliveMoves ==
  ASSUME Types, AliveInv, NEW s \in Slots, NEW k, NEW r, Moves(s, k, r),
         r = "none" <=> k.status = "NOT_ALIVE"
  PROVE  AliveInv'
  BY DEF Types, AliveInv, Moves

\* The copy of a listener takes free slots only, and as secure as the listener.
LEMMA AliveClones ==
  ASSUME Types, AliveInv, NEW s \in Slots, role[s] # "none", Clones(s, FirstFreeSlot)
  PROVE  /\ AliveInv'
         /\ \A q \in Slots : role[q] # "none" =>
              /\ q \notin FirstFreeSlot /\ role'[q] = role[q]
              /\ Sockets'[q].tlsData = Sockets[q].tlsData
              /\ Sockets'[q].is_secure = Sockets[q].is_secure
         /\ \A q \in Slots : role[q] = "none" => role'[q] \in {"none", "accepted"}
         /\ \A q \in Slots : role'[q] = "accepted" /\ role[q] # "accepted" =>
              Sockets'[q].is_secure = Sockets[s].is_secure
<1> DEFINE listener == [ Sockets[s] EXCEPT !.status = "CONNECTED" ]
           clone == [ listener EXCEPT !.ul = Sockets[s].ul, !.cloneserver = TRUE ]
<1>1. /\ Sockets' = [ r \in Slots |-> IF r = s THEN listener
                                      ELSE IF r \in FirstFreeSlot THEN clone ELSE Sockets[r] ]
      /\ role' = [ r \in Slots |-> IF r \in FirstFreeSlot THEN "accepted" ELSE role[r] ]
  BY DEF Clones
<1>2. Sockets[s] \in Socket
  BY SlotFields
<1>3. /\ listener.status = "CONNECTED" /\ clone.status = "CONNECTED"
      /\ listener.tlsData = Sockets[s].tlsData
      /\ listener.is_secure = Sockets[s].is_secure /\ clone.is_secure = Sockets[s].is_secure
  BY <1>2 DEF Socket
<1> HIDE DEF listener, clone
<1>4. \A q \in Slots : role[q] # "none" => q \notin FirstFreeSlot
  BY DEF AliveInv, FirstFreeSlot, FreeSlots
<1>5. AliveInv'
  BY <1>1, <1>3, <1>4 DEF AliveInv
<1>6. \A q \in Slots : role[q] # "none" =>
              /\ q \notin FirstFreeSlot /\ role'[q] = role[q]
              /\ Sockets'[q].tlsData = Sockets[q].tlsData
              /\ Sockets'[q].is_secure = Sockets[q].is_secure
  BY <1>1, <1>3, <1>4
<1>7. \A q \in Slots : role[q] = "none" => role'[q] \in {"none", "accepted"}
  BY <1>1
<1>8. \A q \in Slots : role'[q] = "accepted" /\ role[q] # "accepted" =>
              Sockets'[q].is_secure = Sockets[s].is_secure
  BY <1>1, <1>3, <1>4
<1> QED
  BY <1>5, <1>6, <1>7, <1>8

\* Every step keeps the slots without a role free, and only them.
LEMMA AliveStep ==
  ASSUME Types, AliveInv, CallInv, [Next]_vars
  PROVE  AliveInv'
<1>1. ASSUME NEW type \in TYPES, NetSocket(type) PROVE AliveInv'
  <2>1. PICK s \in FreeSlots : \E k \in Socket : Moves(s, k, "new") /\ k.status = "ALLOCATED"
    BY <1>1, SocketEffect
  <2>2. s \in Slots /\ "new" \in Roles
    BY DEF FreeSlots, Roles
  <2> QED
    BY <2>1, <2>2, AliveMoves
<1>2. ASSUME NEW s \in Slots, NetBind(s) PROVE AliveInv'
  <2>1. \E k, r : Moves(s, k, r) /\ (r = "none" <=> k.status = "NOT_ALIVE")
    BY <1>2, BindEffect DEF AliveInv
  <2> QED
    BY <2>1, AliveMoves
<1>3. ASSUME NEW s \in Slots, NetListen(s) PROVE AliveInv'
  <2>1. \E k, r : Moves(s, k, r) /\ (r = "none" <=> k.status = "NOT_ALIVE")
    BY <1>3, ListenEffect, SlotFields DEF AliveInv
  <2> QED
    BY <2>1, AliveMoves
<1>4. ASSUME NEW s \in Slots, NetConnect(s) PROVE AliveInv'
  <2>1. role[s] # "none"
    BY <1>4 DEF NetConnect, MayConnect
  <2>2. Sockets[s].status # "NOT_ALIVE"
    BY <2>1 DEF AliveInv
  <2>3. \E k, r : Moves(s, k, r) /\ (r = "none" <=> k.status = "NOT_ALIVE")
    BY <1>4, <2>1, <2>2, ConnectEffect
  <2> QED
    BY <2>3, AliveMoves
<1>5. ASSUME NEW s \in Slots, NetConnectTlsFails(s) PROVE AliveInv'
  <2>1. \E k, r : Moves(s, k, r) /\ (r = "none" <=> k.status = "NOT_ALIVE")
    BY <1>5, TlsFailsEffect DEF AliveInv
  <2> QED
    BY <2>1, AliveMoves
<1>6. ASSUME NEW s \in Slots, NetDatagram(s) PROVE AliveInv'
  <2>1. \E k, r : Moves(s, k, r) /\ (r = "none" <=> k.status = "NOT_ALIVE")
    BY <1>6, DatagramEffect DEF AliveInv
  <2> QED
    BY <2>1, AliveMoves
<1>7. ASSUME NEW s \in Slots, NetSetSecure(s) PROVE AliveInv'
  <2>1. \E k, r : Moves(s, k, r) /\ (r = "none" <=> k.status = "NOT_ALIVE")
    BY <1>7, SetSecureEffect DEF AliveInv
  <2> QED
    BY <2>1, AliveMoves
<1>8. ASSUME NEW s \in Slots, NetSetTlsOption(s) PROVE AliveInv'
  <2>1. \E k, r : Moves(s, k, r) /\ (r = "none" <=> k.status = "NOT_ALIVE")
    BY <1>8, TlsOptionEffect DEF AliveInv
  <2> QED
    BY <2>1, AliveMoves
<1>9. ASSUME NEW s \in Slots, NetClose(s) PROVE AliveInv'
  <2>1. \E k, r : Moves(s, k, r) /\ (r = "none" <=> k.status = "NOT_ALIVE")
    BY <1>9, CloseEffect DEF AliveInv
  <2> QED
    BY <2>1, AliveMoves
<1>10. ASSUME NEW s \in Slots, NEW flags \in ShutdownModes, NetShutdown(s, flags) PROVE AliveInv'
  <2>1. \E k, r : Moves(s, k, r) /\ (r = "none" <=> k.status = "NOT_ALIVE")
    BY <1>10, ShutdownEffect DEF AliveInv
  <2> QED
    BY <2>1, AliveMoves
<1>11. ASSUME NEW t \in Waiters, AcceptReturns(t) PROVE AliveInv'
  <2>1. /\ busy[t].fd \in Slots /\ role[busy[t].fd] = "server"
        /\ UNCHANGED << Sockets, role >> \/ Clones(busy[t].fd, FirstFreeSlot)
    BY <1>11, AcceptEffect DEF CallInv
  <2>2. CASE UNCHANGED << Sockets, role >>
    BY <2>2 DEF AliveInv
  <2>3. CASE Clones(busy[t].fd, FirstFreeSlot)
    BY <2>1, <2>3, AliveClones
  <2> QED
    BY <2>1, <2>2, <2>3
<1>12. ASSUME NEW t \in Waiters, RecvReturns(t) PROVE AliveInv'
  BY <1>12 DEF RecvReturns, Return, AliveInv
<1>13. ASSUME NEW t \in Waiters, SendReturns(t) PROVE AliveInv'
  BY <1>13 DEF SendReturns, Return, AliveInv
<1>14. ASSUME NEW t \in Waiters, NEW s \in Slots, NetAccept(t, s) PROVE AliveInv'
  BY <1>14 DEF NetAccept, Wait, AliveInv
<1>15. ASSUME NEW t \in Waiters, NEW s \in Slots, NetRecv(t, s) PROVE AliveInv'
  BY <1>15 DEF NetRecv, Wait, AliveInv
<1>16. ASSUME NEW t \in Waiters, NEW s \in Slots, NetSend(t, s) PROVE AliveInv'
  BY <1>16 DEF NetSend, Wait, AliveInv
<1>17. ASSUME UNCHANGED vars PROVE AliveInv'
  BY <1>17 DEF vars, AliveInv
<1> QED
  BY <1>1, <1>2, <1>3, <1>4, <1>5, <1>6, <1>7, <1>8, <1>9, <1>10, <1>11, <1>12, <1>13, <1>14,
     <1>15, <1>16, <1>17, Zenon DEF Next

\* At the start no call is in progress.
LEMMA CallInit == Init => CallInv
  BY DEF Init, CallInv, NoCall

\* A call that moves a slot no other call uses, or leaves its role.
LEMMA CallMoves ==
  ASSUME Types, CallInv, NEW s \in Slots, NEW k, NEW r, Moves(s, k, r),
         role[s] \notin {"server", "accepted", "client"} \/ r = role[s] \/ ~Busy(s)
  PROVE  CallInv'
<1>1. busy' = busy /\ role' = [ role EXCEPT ![s] = r ]
  BY DEF Moves
<1>2. ASSUME NEW t \in Waiters, busy[t].fd = s, busy[t].op # "none" PROVE role[s] = r
  BY <1>2 DEF CallInv, Busy, Types
<1>3. \A t \in Waiters : busy[t].op # "none" => role'[busy[t].fd] = role[busy[t].fd]
  BY <1>1, <1>2 DEF Types
<1> QED
  BY <1>1, <1>3 DEF CallInv

\* A task that waits for nothing any more.
LEMMA CallReturns ==
  ASSUME Types, CallInv, NEW t \in Waiters, busy' = [ busy EXCEPT ![t] = NoCall ],
         \A q \in Slots : role[q] # "none" => role'[q] = role[q]
  PROVE  CallInv'
<1>1. NoCall.op = "none"
  BY DEF NoCall
<1>2. \A u \in Waiters : busy'[u] = NoCall \/ busy'[u] = busy[u]
  BY DEF Types
<1>3. ASSUME NEW u \in Waiters, busy'[u] = busy[u], busy[u].op # "none"
      PROVE  role'[busy[u].fd] = role[busy[u].fd]
  <2>1. busy[u].fd \in Slots /\ busy[u].op \in {"accept", "recv", "send"}
    BY <1>3 DEF Types
  <2>2. role[busy[u].fd] # "none"
    BY <2>1 DEF CallInv
  <2> QED
    BY <2>1, <2>2
<1> QED
  BY <1>1, <1>2, <1>3 DEF CallInv

\* A call that begins to wait on a slot in the role it needs.
LEMMA CallWaits ==
  ASSUME Types, CallInv, NEW t \in Waiters, NEW s \in Slots, NEW op, NEW ctx, Wait(t, op, s, ctx),
         \/ op = "accept" /\ role[s] = "server"
         \/ op \in {"recv", "send"} /\ role[s] \in {"client", "accepted"}
  PROVE  CallInv'
<1> DEFINE call == [ op |-> op, fd |-> s, ctx |-> ctx ]
<1>1. busy' = [ busy EXCEPT ![t] = call ] /\ UNCHANGED role /\ call.op = op /\ call.fd = s
  BY DEF Wait
<1> HIDE DEF call
<1>2. \A u \in Waiters : busy'[u] = call \/ busy'[u] = busy[u]
  BY <1>1 DEF Types
<1> QED
  BY <1>1, <1>2 DEF CallInv

\* Without the liberty, no socket in use is ended.
LEMMA ClosesNoBusy ==
  ASSUME "close busy" \notin Liberties, NEW s \in Slots, MayEnd(s)
  PROVE  ~Busy(s)
  BY Zenon DEF MayEnd, Allows

\* Nothing but the call itself takes the role of a busy slot away.
LEMMA CallStep ==
  ASSUME Types, AliveInv, CallInv, "close busy" \notin Liberties, [Next]_vars
  PROVE  CallInv'
<1>1. ASSUME NEW type \in TYPES, NetSocket(type) PROVE CallInv'
  <2>1. PICK s \in FreeSlots : \E k \in Socket : Moves(s, k, "new")
    BY <1>1, SocketEffect
  <2>2. s \in Slots /\ "new" \in Roles /\ role[s] = "none"
    BY DEF FreeSlots, Roles, AliveInv
  <2> QED
    BY <2>1, <2>2, CallMoves
<1>2. ASSUME NEW s \in Slots, NetBind(s) PROVE CallInv'
  <2>1. \E k, r : Moves(s, k, r)
    BY <1>2, BindEffect
  <2>2. role[s] \notin {"server", "accepted", "client"}
    BY <1>2, BindEffect
  <2> QED
    BY <2>1, <2>2, CallMoves
<1>3. ASSUME NEW s \in Slots, NetListen(s) PROVE CallInv'
  <2>1. \E k, r : Moves(s, k, r)
    BY <1>3, ListenEffect, SlotFields
  <2>2. role[s] \notin {"server", "accepted", "client"}
    BY <1>3, ListenEffect, SlotFields
  <2> QED
    BY <2>1, <2>2, CallMoves
<1>4. ASSUME NEW s \in Slots, NetConnect(s) PROVE CallInv'
  <2>1. \E k, r : Moves(s, k, r)
    BY <1>4, ConnectEffect
  <2>2. role[s] \notin {"server", "accepted", "client"}
    BY <1>4 DEF NetConnect, MayConnect
  <2> QED
    BY <2>1, <2>2, CallMoves
<1>5. ASSUME NEW s \in Slots, NetConnectTlsFails(s) PROVE CallInv'
  <2>1. \E k, r : Moves(s, k, r)
    BY <1>5, TlsFailsEffect
  <2>2. role[s] \notin {"server", "accepted", "client"}
    BY <1>5 DEF NetConnectTlsFails, MayConnect
  <2> QED
    BY <2>1, <2>2, CallMoves
<1>6. ASSUME NEW s \in Slots, NetDatagram(s) PROVE CallInv'
  <2>1. \E k, r : Moves(s, k, r)
    BY <1>6, DatagramEffect
  <2>2. role[s] \notin {"server", "accepted", "client"}
    BY <1>6, DatagramEffect
  <2> QED
    BY <2>1, <2>2, CallMoves
<1>7. ASSUME NEW s \in Slots, NetSetSecure(s) PROVE CallInv'
  <2>1. \E k \in Socket : Moves(s, k, role[s])
    BY <1>7, SetSecureEffect
  <2> QED
    BY <2>1, SlotFields, CallMoves
<1>8. ASSUME NEW s \in Slots, NetSetTlsOption(s) PROVE CallInv'
  <2>1. \E k, r : Moves(s, k, r)
    BY <1>8, TlsOptionEffect
  <2>2. role[s] \notin {"server", "accepted", "client"}
    BY <1>8, TlsOptionEffect
  <2> QED
    BY <2>1, <2>2, CallMoves
<1>9. ASSUME NEW s \in Slots, NetClose(s) PROVE CallInv'
  <2>1. \E k, r : Moves(s, k, r)
    BY <1>9, CloseEffect
  <2>2. ~Busy(s)
    BY <1>9, CloseEffect, ClosesNoBusy
  <2> QED
    BY <2>1, <2>2, CallMoves
<1>10. ASSUME NEW s \in Slots, NEW flags \in ShutdownModes, NetShutdown(s, flags) PROVE CallInv'
  <2>1. \E k, r : Moves(s, k, r)
    BY <1>10, ShutdownEffect
  <2>2. ~Busy(s)
    BY <1>10, ShutdownEffect, ClosesNoBusy
  <2> QED
    BY <2>1, <2>2, CallMoves
<1>11. ASSUME NEW t \in Waiters, AcceptReturns(t) PROVE CallInv'
  <2>1. /\ busy[t].fd \in Slots /\ role[busy[t].fd] = "server"
        /\ busy' = [ busy EXCEPT ![t] = NoCall ]
        /\ UNCHANGED << Sockets, role >> \/ Clones(busy[t].fd, FirstFreeSlot)
    BY <1>11, AcceptEffect DEF CallInv
  <2>2. \A q \in Slots : role[q] # "none" => role'[q] = role[q]
    BY <2>1, AliveClones
  <2> QED
    BY <2>1, <2>2, CallReturns
<1>12. ASSUME NEW t \in Waiters, RecvReturns(t) PROVE CallInv'
  BY <1>12, CallReturns DEF RecvReturns, Return
<1>13. ASSUME NEW t \in Waiters, SendReturns(t) PROVE CallInv'
  BY <1>13, CallReturns DEF SendReturns, Return
<1>14. ASSUME NEW t \in Waiters, NEW s \in Slots, NetAccept(t, s) PROVE CallInv'
  <2>1. Wait(t, "accept", s, NULL) /\ role[s] = "server"
    BY <1>14 DEF NetAccept
  <2> QED
    BY <2>1, CallWaits
<1>15. ASSUME NEW t \in Waiters, NEW s \in Slots, NetRecv(t, s) PROVE CallInv'
  <2>1. Wait(t, "recv", s, net_mbedtls_sock_recv(Sockets[s])) /\ role[s] \in {"client", "accepted"}
    BY <1>15 DEF NetRecv
  <2> QED
    BY <2>1, CallWaits
<1>16. ASSUME NEW t \in Waiters, NEW s \in Slots, NetSend(t, s) PROVE CallInv'
  <2>1. Wait(t, "send", s, net_mbedtls_sock_send(Sockets[s])) /\ role[s] \in {"client", "accepted"}
    BY <1>16 DEF NetSend
  <2> QED
    BY <2>1, CallWaits
<1>17. ASSUME UNCHANGED vars PROVE CallInv'
  BY <1>17 DEF vars, CallInv
<1> QED
  BY <1>1, <1>2, <1>3, <1>4, <1>5, <1>6, <1>7, <1>8, <1>9, <1>10, <1>11, <1>12, <1>13, <1>14,
     <1>15, <1>16, <1>17, Zenon DEF Next

-----------------------------------------------------------------------------
\* TLS contexts.

\* The application keeps the rules about TLS, and ends no socket in use.
Careful ==
  /\ "close busy" \notin Liberties /\ "connect again" \notin Liberties
  /\ "secure unused" \notin Liberties /\ "secure server" \notin Liberties

\* A call that waits in TLS waits with the context of its slot.
CtxInv == \A t \in Waiters :
  /\ busy[t].op = "accept" => busy[t].ctx = NULL
  /\ busy[t].ctx # NULL => Sockets[busy[t].fd].is_secure /\ Sockets[busy[t].fd].tlsData = busy[t].ctx

\* A secure slot has a context of its own that is in the heap, a fresh slot that is not secure
\* has none, and there is no context that no slot has.
ContextInv ==
  /\ \A s \in Slots : Secure(s) => role[s] \in {"new", "client"} /\ Sockets[s].tlsData \in heap
  /\ \A s \in Slots : role[s] = "new" /\ ~Sockets[s].is_secure => Sockets[s].tlsData = NULL
  /\ \A r, s \in Slots : Secure(r) /\ Secure(s) /\ Sockets[r].tlsData = Sockets[s].tlsData => r = s
  /\ \A p \in heap : \E s \in Slots : Secure(s) /\ Sockets[s].tlsData = p

\* What the rules say of the calls.
LEMMA CarefulCalls ==
  ASSUME Careful, NEW s \in Slots
  PROVE  /\ \A r : r \in MayConnect \cup MayBeSecured => r = "new"
         /\ MayEnd(s) => (Sockets[s].is_secure => Sockets[s].tls_started) /\ ~Busy(s)
         /\ MayServe(s) => ~Sockets[s].is_secure
         /\ Allows("secure unused", Sockets[s].is_secure) => Sockets[s].is_secure
<1>1. \A r : r \in MayConnect \cup MayBeSecured => r = "new"
  BY DEF Careful, MayConnect, MayBeSecured
<1>2. /\ MayEnd(s) => (Sockets[s].is_secure => Sockets[s].tls_started) /\ ~Busy(s)
      /\ MayServe(s) => ~Sockets[s].is_secure
      /\ Allows("secure unused", Sockets[s].is_secure) => Sockets[s].is_secure
  BY Zenon DEF Careful, MayEnd, MayServe, Allows
<1> QED
  BY <1>1, <1>2

\* The slots no call waits on.
LEMMA NotBusy ==
  ASSUME Types, CallInv, NEW s \in Slots, role[s] \notin {"server", "accepted", "client"}
  PROVE  ~Busy(s)
<1>1. NoCall.fd = NoSlot /\ NoSlot \notin Slots
  BY SlotNumbers DEF NoCall
<1>2. ASSUME NEW t \in Waiters, busy[t].fd = s PROVE FALSE
  <2>1. busy[t].op # "none"
    BY <1>1, <1>2 DEF CallInv
  <2>2. busy[t].op \in {"accept", "recv", "send"}
    BY <2>1 DEF Types
  <2> QED
    BY <1>2, <2>2 DEF CallInv
<1> QED
  BY <1>2 DEF Busy

\* The ways a call changes who has which context: a slot loses its context and the
\* heap does, or all stays as it was, or a slot without a context gets a fresh one.
TlsLeft(s, k, r) ==
  /\ ~k.is_secure /\ (r = "new" => k.tlsData = NULL)
  /\ heap' = IF Secure(s) THEN HeapWithout(s) ELSE heap

\* The slot keeps its context.
TlsKept(s, k, r) ==
  Secure(s) /\ k.is_secure /\ k.tlsData = Sockets[s].tlsData /\ r \in {"new", "client"} /\ heap' = heap

\* The slot gets a new context.
TlsMade(s, k, r) ==
  /\ ~Secure(s) /\ r = "new" /\ k.is_secure
  /\ \E p \in Contexts \ heap : k.tlsData = p /\ heap' = heap \cup {p}

\* What a call does to the contexts.
TlsStep(s, k, r) == TlsLeft(s, k, r) \/ TlsKept(s, k, r) \/ TlsMade(s, k, r)

\* A call changes nothing about the other slots.
LEMMA Elsewhere ==
  ASSUME Types, NEW s \in Slots, NEW k, NEW r, Moves(s, k, r)
  PROVE  /\ \A q \in Slots : q # s => Sockets'[q] = Sockets[q] /\ role'[q] = role[q]
         /\ Sockets'[s] = k /\ role'[s] = r
         /\ \A q \in Slots : q # s => (Secure(q)' <=> Secure(q))
         /\ Secure(s)' <=> r # "none" /\ k.is_secure
  BY DEF Types, Moves, Secure, Open

\* A call that does one of these keeps contexts and secure slots together.
LEMMA ContextMoves ==
  ASSUME Types, ContextInv, NEW s \in Slots, NEW k, NEW r, Moves(s, k, r), TlsStep(s, k, r)
  PROVE  ContextInv'
<1>1. /\ \A q \in Slots : q # s => Sockets'[q] = Sockets[q] /\ role'[q] = role[q]
      /\ Sockets'[s] = k /\ role'[s] = r
      /\ \A q \in Slots : q # s => (Secure(q)' <=> Secure(q))
      /\ Secure(s)' <=> r # "none" /\ k.is_secure
  BY Elsewhere
<1>2. CASE TlsLeft(s, k, r)
  <2>1. ~Secure(s)' /\ (r = "new" => k.tlsData = NULL)
    BY <1>1, <1>2 DEF TlsLeft
  <2>2. heap' = IF Secure(s) THEN heap \ {Sockets[s].tlsData} ELSE heap
    BY <1>2 DEF TlsLeft, HeapWithout
  <2>3. \A q \in Slots : Secure(q)' => role'[q] \in {"new", "client"} /\ Sockets'[q].tlsData \in heap'
    BY <1>1, <2>1, <2>2 DEF ContextInv
  <2>4. \A q \in Slots : role'[q] = "new" /\ ~Sockets'[q].is_secure => Sockets'[q].tlsData = NULL
    BY <1>1, <2>1 DEF ContextInv
  <2>5. \A q, o \in Slots : Secure(q)' /\ Secure(o)' /\ Sockets'[q].tlsData = Sockets'[o].tlsData => q = o
    BY <1>1, <2>1 DEF ContextInv
  <2>6. ASSUME NEW p \in heap' PROVE \E q \in Slots : Secure(q)' /\ Sockets'[q].tlsData = p
    <3>1. p \in heap /\ (Secure(s) => p # Sockets[s].tlsData)
      BY <2>2
    <3>2. PICK q \in Slots : Secure(q) /\ Sockets[q].tlsData = p
      BY <3>1 DEF ContextInv
    <3> QED
      BY <1>1, <3>1, <3>2
  <2> QED
    BY <2>3, <2>4, <2>5, <2>6 DEF ContextInv
<1>3. CASE TlsKept(s, k, r)
  <2>1. /\ Secure(s) /\ Secure(s)' /\ k.is_secure /\ k.tlsData = Sockets[s].tlsData
        /\ r \in {"new", "client"} /\ heap' = heap
    BY <1>1, <1>3 DEF TlsKept
  <2>2. \A q \in Slots : (Secure(q)' <=> Secure(q)) /\ (Secure(q) => Sockets'[q].tlsData = Sockets[q].tlsData)
    BY <1>1, <2>1
  <2>3. \A q \in Slots : Secure(q)' => role'[q] \in {"new", "client"} /\ Sockets'[q].tlsData \in heap'
    BY <1>1, <2>1, <2>2 DEF ContextInv
  <2>4. \A q \in Slots : role'[q] = "new" /\ ~Sockets'[q].is_secure => Sockets'[q].tlsData = NULL
    BY <1>1, <2>1 DEF ContextInv
  <2>5. \A q, o \in Slots : Secure(q)' /\ Secure(o)' /\ Sockets'[q].tlsData = Sockets'[o].tlsData => q = o
    BY <2>2 DEF ContextInv
  <2>6. \A p \in heap' : \E q \in Slots : Secure(q)' /\ Sockets'[q].tlsData = p
    BY <2>1, <2>2 DEF ContextInv
  <2> QED
    BY <2>3, <2>4, <2>5, <2>6 DEF ContextInv
<1>4. CASE TlsMade(s, k, r)
  <2>1. PICK p \in Contexts \ heap : k.tlsData = p /\ heap' = heap \cup {p}
    BY <1>4 DEF TlsMade
  <2>2. ~Secure(s) /\ Secure(s)' /\ r = "new" /\ k.is_secure
    BY <1>1, <1>4 DEF TlsMade
  <2>3. \A q \in Slots : Secure(q)' => role'[q] \in {"new", "client"} /\ Sockets'[q].tlsData \in heap'
    BY <1>1, <2>1, <2>2 DEF ContextInv
  <2>4. \A q \in Slots : role'[q] = "new" /\ ~Sockets'[q].is_secure => Sockets'[q].tlsData = NULL
    BY <1>1, <2>2 DEF ContextInv
  <2>5. \A q \in Slots : q # s /\ Secure(q)' => Sockets'[q].tlsData # p
    BY <1>1, <2>1 DEF ContextInv
  <2>6. \A q, o \in Slots : Secure(q)' /\ Secure(o)' /\ Sockets'[q].tlsData = Sockets'[o].tlsData => q = o
    BY <1>1, <2>1, <2>5 DEF ContextInv
  <2>7. \A o \in heap' : \E q \in Slots : Secure(q)' /\ Sockets'[q].tlsData = o
    BY <1>1, <2>1, <2>2 DEF ContextInv
  <2> QED
    BY <2>3, <2>4, <2>6, <2>7 DEF ContextInv
<1> QED
  BY <1>2, <1>3, <1>4 DEF TlsStep

\* A call waits with a context only on a slot that is secure.
LEMMA CtxWhere ==
  ASSUME Types, CallInv, CtxInv, NEW t \in Waiters, busy[t].ctx # NULL
  PROVE  busy[t].fd \in Slots /\ busy[t].op \in {"recv", "send"} /\ Secure(busy[t].fd)
<1>1. NoCall.ctx = NULL
  BY DEF NoCall
<1>2. busy[t].op \in {"recv", "send"}
  BY <1>1 DEF Types, CallInv, CtxInv
<1>3. busy[t].fd \in Slots
  BY <1>2 DEF Types
<1>4. role[busy[t].fd] # "none"
  BY <1>2 DEF CallInv
<1> QED
  BY <1>2, <1>3, <1>4 DEF CtxInv, Secure, Open

\* Steps that leave the TLS of the slots in use as it was.
LEMMA CtxFrame ==
  ASSUME Types, CallInv, CtxInv,
         \A t \in Waiters : busy'[t] = busy[t] \/ busy'[t].ctx = NULL,
         \A t \in Waiters : busy[t].fd \in Slots /\ busy[t].op # "none" =>
           /\ Sockets'[busy[t].fd].is_secure = Sockets[busy[t].fd].is_secure
           /\ Sockets'[busy[t].fd].tlsData = Sockets[busy[t].fd].tlsData
  PROVE  CtxInv'
<1>1. ASSUME NEW t \in Waiters, busy'[t] = busy[t], busy[t].ctx # NULL
      PROVE  /\ Sockets'[busy[t].fd].is_secure
             /\ Sockets'[busy[t].fd].tlsData = busy[t].ctx
  <2>1. /\ busy[t].fd \in Slots /\ busy[t].op # "none"
        /\ Sockets[busy[t].fd].is_secure /\ Sockets[busy[t].fd].tlsData = busy[t].ctx
    BY <1>1, CtxWhere DEF CtxInv
  <2>2. /\ Sockets'[busy[t].fd].is_secure = Sockets[busy[t].fd].is_secure
        /\ Sockets'[busy[t].fd].tlsData = Sockets[busy[t].fd].tlsData
    BY <2>1
  <2> QED
    BY <2>1, <2>2
<1>2. \A t \in Waiters : busy'[t] = busy[t] => (busy[t].op = "accept" => busy[t].ctx = NULL)
  BY DEF CtxInv
<1> QED
  BY <1>1, <1>2 DEF CtxInv

\* A call on a slot no other call uses.
LEMMA CtxMoves ==
  ASSUME Types, CallInv, CtxInv, NEW s \in Slots, NEW k, NEW r, Moves(s, k, r), ~Busy(s)
  PROVE  CtxInv'
<1>1. busy' = busy /\ \A q \in Slots : q # s => Sockets'[q] = Sockets[q]
  BY Elsewhere DEF Moves
<1>2. \A t \in Waiters : busy[t].fd # s
  BY DEF Busy
<1> QED
  BY <1>1, <1>2, CtxFrame

\* What is kept about TLS.
TlsInv == CtxInv /\ ContextInv

\* A call on a slot no other call uses keeps all of it.
LEMMA TlsMoves ==
  ASSUME Types, CallInv, TlsInv, NEW s \in Slots, ~Busy(s),
         \E k, r : Moves(s, k, r) /\ TlsStep(s, k, r)
  PROVE  TlsInv'
  BY CtxMoves, ContextMoves DEF TlsInv

\* At the start there are no contexts.
LEMMA TlsInit == Init => TlsInv
  BY DEF Init, TlsInv, CtxInv, ContextInv, NoCall, Secure, Open

\* A call that touches no TLS on a slot that has no role but "new".
LEMMA TlsQuiet ==
  ASSUME Types, CallInv, TlsInv, NEW s \in Slots, role[s] = "new", heap' = heap,
         \E k, r : Moves(s, k, r) /\ SameTls(s, k) /\ r \in {"new", "client"}
  PROVE  TlsInv'
<1>1. PICK k, r : Moves(s, k, r) /\ SameTls(s, k) /\ r \in {"new", "client"}
  OBVIOUS
<1>2. Secure(s) <=> Sockets[s].is_secure
  BY DEF Secure, Open
<1>3. ~Sockets[s].is_secure => Sockets[s].tlsData = NULL
  BY DEF TlsInv, ContextInv
<1>4. k.is_secure = Sockets[s].is_secure /\ k.tlsData = Sockets[s].tlsData
  BY <1>1 DEF SameTls
<1>5. CASE Sockets[s].is_secure
  <2>1. TlsKept(s, k, r)
    BY <1>1, <1>2, <1>4, <1>5 DEF TlsKept
  <2> QED
    BY <1>1, <2>1, NotBusy, TlsMoves DEF TlsStep
<1>6. CASE ~Sockets[s].is_secure
  <2>1. TlsLeft(s, k, r)
    BY <1>2, <1>3, <1>4, <1>6 DEF TlsLeft
  <2> QED
    BY <1>1, <2>1, NotBusy, TlsMoves DEF TlsStep
<1> QED
  BY <1>5, <1>6

\* A call begins to wait, with the context of its slot if it is one of TLS.
LEMMA TlsWaits ==
  ASSUME Types, CallInv, TlsInv, NEW t \in Waiters, NEW s \in Slots, NEW op, NEW ctx, Wait(t, op, s, ctx),
         op = "accept" => ctx = NULL,
         ctx # NULL => Sockets[s].is_secure /\ ctx = Sockets[s].tlsData
  PROVE  TlsInv'
<1> DEFINE call == [ op |-> op, fd |-> s, ctx |-> ctx ]
<1>1. /\ busy' = [ busy EXCEPT ![t] = call ] /\ call.op = op /\ call.fd = s /\ call.ctx = ctx
      /\ UNCHANGED << Sockets, WifiChannel, heap, role >>
  BY DEF Wait
<1> HIDE DEF call
<1>2. \A u \in Waiters : busy'[u] = call \/ busy'[u] = busy[u]
  BY <1>1 DEF Types
<1>3. CtxInv'
  BY <1>1, <1>2 DEF TlsInv, CtxInv
<1>4. ContextInv'
  BY <1>1 DEF TlsInv, ContextInv, Secure, Open
<1> QED
  BY <1>3, <1>4 DEF TlsInv

\* Every step keeps the contexts and the secure slots together.
LEMMA TlsInvStep ==
  ASSUME Types, AliveInv, CallInv, TlsInv, Careful, [Next]_vars
  PROVE  TlsInv'
<1>1. ASSUME NEW type \in TYPES, NetSocket(type) PROVE TlsInv'
  <2>1. heap' = heap
    BY <1>1, SocketEffect
  <2>2. PICK s \in FreeSlots : \E k \in Socket : Moves(s, k, "new") /\ ~k.is_secure /\ k.tlsData = NULL
    BY <1>1, SocketEffect
  <2>3. PICK k \in Socket : Moves(s, k, "new") /\ ~k.is_secure /\ k.tlsData = NULL
    BY <2>2
  <2>4. s \in Slots /\ role[s] = "none"
    BY DEF FreeSlots, AliveInv
  <2>5. ~Secure(s) /\ ~Busy(s)
    BY <2>4, NotBusy DEF Secure, Open
  <2>6. TlsLeft(s, k, "new")
    BY <2>1, <2>3, <2>5 DEF TlsLeft
  <2> QED
    BY <2>3, <2>4, <2>5, <2>6, TlsMoves DEF TlsStep
<1>2. ASSUME NEW s \in Slots, NetBind(s) PROVE TlsInv'
  <2>1. role[s] = "new" /\ heap' = heap
    BY <1>2, BindEffect
  <2>2. \E k, r : Moves(s, k, r) /\ SameTls(s, k) /\ r \in {"new", "client"}
    BY <1>2, BindEffect
  <2> QED
    BY <2>1, <2>2, TlsQuiet
<1>3. ASSUME NEW s \in Slots, NetListen(s) PROVE TlsInv'
  <2>1. role[s] = "new" /\ heap' = heap /\ ~Sockets[s].is_secure
    BY <1>3, ListenEffect, CarefulCalls
  <2>2. PICK r \in {"server", "new"} : Moves(s, Sockets[s], r)
    BY <1>3, ListenEffect
  <2>3. Sockets[s].tlsData = NULL /\ ~Secure(s)
    BY <2>1 DEF TlsInv, ContextInv, Secure
  <2>4. TlsLeft(s, Sockets[s], r)
    BY <2>1, <2>3 DEF TlsLeft
  <2> QED
    BY <2>1, <2>2, <2>4, NotBusy, TlsMoves DEF TlsStep
<1>4. ASSUME NEW s \in Slots, NetConnect(s) PROVE TlsInv'
  <2>1. role[s] = "new"
    BY <1>4, ConnectEffect, CarefulCalls
  <2>2. Secure(s) <=> Sockets[s].is_secure
    BY <2>1 DEF Secure, Open
  <2>3. \/ heap' = heap /\ \E k, r : Moves(s, k, r) /\ SameTls(s, k) /\ r \in {"new", "client"}
        \/ /\ \E k : Moves(s, k, "failed") /\ ~k.is_secure
           /\ heap' = IF Sockets[s].is_secure THEN HeapWithout(s) ELSE heap
    BY <1>4, <2>1, ConnectEffect
  <2>4. CASE heap' = heap /\ \E k, r : Moves(s, k, r) /\ SameTls(s, k) /\ r \in {"new", "client"}
    BY <2>1, <2>4, TlsQuiet
  <2>5. CASE /\ \E k : Moves(s, k, "failed") /\ ~k.is_secure
             /\ heap' = IF Sockets[s].is_secure THEN HeapWithout(s) ELSE heap
    <3>1. PICK k : Moves(s, k, "failed") /\ ~k.is_secure
      BY <2>5
    <3>2. TlsLeft(s, k, "failed")
      BY <2>2, <2>5, <3>1 DEF TlsLeft
    <3> QED
      BY <2>1, <3>1, <3>2, NotBusy, TlsMoves DEF TlsStep
  <2> QED
    BY <2>3, <2>4, <2>5
<1>5. ASSUME NEW s \in Slots, NetConnectTlsFails(s) PROVE TlsInv'
  <2>1. role[s] = "new" /\ Sockets[s].is_secure /\ heap' = HeapWithout(s)
    BY <1>5, TlsFailsEffect, CarefulCalls
  <2>2. PICK k : Moves(s, k, "none") /\ ~k.is_secure
    BY <1>5, TlsFailsEffect
  <2>3. TlsLeft(s, k, "none")
    BY <2>1, <2>2 DEF TlsLeft, Secure, Open
  <2> QED
    BY <2>1, <2>2, <2>3, NotBusy, TlsMoves DEF TlsStep
<1>6. ASSUME NEW s \in Slots, NetDatagram(s) PROVE TlsInv'
  <2>1. role[s] = "new" /\ heap' = heap
    BY <1>6, DatagramEffect
  <2>2. \E k, r : Moves(s, k, r) /\ SameTls(s, k) /\ r \in {"new", "client"}
    BY <1>6, DatagramEffect
  <2> QED
    BY <2>1, <2>2, TlsQuiet
<1>7. ASSUME NEW s \in Slots, NetSetSecure(s) PROVE TlsInv'
  <2>1. role[s] = "new"
    BY <1>7, SetSecureEffect, CarefulCalls
  <2>2. Secure(s) <=> Sockets[s].is_secure
    BY <2>1 DEF Secure, Open
  <2>3. PICK k : /\ Moves(s, k, "new")
                 /\ \/ /\ k.is_secure /\ Sockets[s].tlsData # NULL
                       /\ k.tlsData = Sockets[s].tlsData /\ heap' = heap
                    \/ /\ Sockets[s].tlsData = NULL /\ k.is_secure
                       /\ \E p \in Contexts \ heap : k.tlsData = p /\ heap' = heap \cup {p}
                    \/ Sockets[s].tlsData = NULL /\ SameTls(s, k) /\ heap' = heap
    BY <1>7, <2>1, SetSecureEffect
  <2>4. Sockets[s].tlsData = NULL <=> ~Secure(s)
    BY <2>1, <2>2, SlotNumbers DEF TlsInv, ContextInv, Types
  <2>5. CASE k.is_secure /\ Sockets[s].tlsData # NULL /\ k.tlsData = Sockets[s].tlsData /\ heap' = heap
    <3>1. TlsKept(s, k, "new")
      BY <2>4, <2>5 DEF TlsKept
    <3> QED
      BY <2>1, <2>3, <3>1, NotBusy, TlsMoves DEF TlsStep
  <2>6. CASE /\ Sockets[s].tlsData = NULL /\ k.is_secure
             /\ \E p \in Contexts \ heap : k.tlsData = p /\ heap' = heap \cup {p}
    <3>1. TlsMade(s, k, "new")
      BY <2>4, <2>6 DEF TlsMade
    <3> QED
      BY <2>1, <2>3, <3>1, NotBusy, TlsMoves DEF TlsStep
  <2>7. CASE Sockets[s].tlsData = NULL /\ SameTls(s, k) /\ heap' = heap
    BY <2>1, <2>3, <2>7, TlsQuiet
  <2> QED
    BY <2>3, <2>5, <2>6, <2>7
<1>8. ASSUME NEW s \in Slots, NetSetTlsOption(s) PROVE TlsInv'
  <2>1. role[s] = "new" /\ Sockets[s].is_secure
    BY <1>8, TlsOptionEffect, CarefulCalls
  <2>2. Sockets[s].tlsData # NULL
    BY <2>1, SlotNumbers DEF TlsInv, ContextInv, Secure, Open, Types
  <2>3. \E k : Moves(s, k, "new") /\ SameTls(s, k) /\ heap' = heap
    BY <1>8, <2>1, <2>2, TlsOptionEffect DEF SameTls
  <2> QED
    BY <2>1, <2>3, TlsQuiet
<1>9. ASSUME NEW s \in Slots, NetClose(s) PROVE TlsInv'
  <2>1. /\ ~Busy(s) /\ (Sockets[s].is_secure => Sockets[s].tls_started)
        /\ (Secure(s) <=> Sockets[s].is_secure)
    BY <1>9, CloseEffect, CarefulCalls DEF Secure
  <2>2. PICK k : Moves(s, k, "none") /\ Cleans(s, k)
    BY <1>9, CloseEffect
  <2>3. TlsLeft(s, k, "none")
    BY <2>1, <2>2 DEF TlsLeft, Cleans
  <2> QED
    BY <2>1, <2>2, <2>3, TlsMoves DEF TlsStep
<1>10. ASSUME NEW s \in Slots, NEW flags \in ShutdownModes, NetShutdown(s, flags) PROVE TlsInv'
  <2>1. /\ ~Busy(s) /\ (Sockets[s].is_secure => Sockets[s].tls_started)
        /\ (Secure(s) <=> Sockets[s].is_secure)
    BY <1>10, ShutdownEffect, CarefulCalls DEF Secure, Open
  <2>2. PICK k, r : Moves(s, k, r) /\ Cleans(s, k) /\ r # "new"
    BY <1>10, ShutdownEffect
  <2>3. TlsLeft(s, k, r)
    BY <2>1, <2>2 DEF TlsLeft, Cleans
  <2> QED
    BY <2>1, <2>2, <2>3, TlsMoves DEF TlsStep
<1>11. ASSUME NEW t \in Waiters, AcceptReturns(t) PROVE TlsInv'
  <2>1. /\ busy[t].fd \in Slots /\ role[busy[t].fd] = "server" /\ heap' = heap
        /\ busy' = [ busy EXCEPT ![t] = NoCall ]
        /\ UNCHANGED << Sockets, role >> \/ Clones(busy[t].fd, FirstFreeSlot)
    BY <1>11, AcceptEffect DEF CallInv
  <2>2. /\ \A q \in Slots : role[q] # "none" =>
             /\ role'[q] = role[q] /\ Sockets'[q].tlsData = Sockets[q].tlsData
             /\ Sockets'[q].is_secure = Sockets[q].is_secure
        /\ \A q \in Slots : role[q] = "none" => role'[q] \in {"none", "accepted"}
        /\ \A q \in Slots : role'[q] = "accepted" /\ role[q] # "accepted" => ~Sockets'[q].is_secure
    <3>1. ~Sockets[busy[t].fd].is_secure
      BY <2>1 DEF TlsInv, ContextInv, Secure, Open
    <3>2. CASE UNCHANGED << Sockets, role >>
      BY <3>2
    <3>3. CASE Clones(busy[t].fd, FirstFreeSlot)
      BY <2>1, <3>1, <3>3, AliveClones
    <3> QED
      BY <2>1, <3>2, <3>3
  <2>3. \A q \in Slots : Secure(q)' <=> Secure(q)
    BY <2>2 DEF Secure, Open
  <2>4. \A q \in Slots : Secure(q) => role'[q] = role[q] /\ Sockets'[q].tlsData = Sockets[q].tlsData
    BY <2>2 DEF Secure, Open
  <2>5. \A q \in Slots : role'[q] = "new" => role[q] = "new"
    BY <2>2
  <2>6. ContextInv'
    BY <2>1, <2>2, <2>3, <2>4, <2>5 DEF TlsInv, ContextInv
  <2>7. NoCall.ctx = NULL
    BY DEF NoCall
  <2>8. \A u \in Waiters : busy'[u] = busy[u] \/ busy'[u].ctx = NULL
    BY <2>1, <2>7 DEF Types
  <2>9. \A u \in Waiters : busy[u].fd \in Slots /\ busy[u].op # "none" => role[busy[u].fd] # "none"
    BY DEF CallInv, Types
  <2>10. CtxInv'
    BY <2>2, <2>8, <2>9, CtxFrame DEF TlsInv
  <2> QED
    BY <2>6, <2>10 DEF TlsInv
<1>12. ASSUME NEW t \in Waiters, RecvReturns(t) PROVE TlsInv'
  <2>1. busy' = [ busy EXCEPT ![t] = NoCall ] /\ UNCHANGED << Sockets, WifiChannel, heap, role >>
    BY <1>12 DEF RecvReturns, Return
  <2>2. \A u \in Waiters : busy'[u] = busy[u] \/ busy'[u].ctx = NULL
    BY <2>1 DEF Types, NoCall
  <2>3. CtxInv'
    BY <2>1, <2>2, CtxFrame DEF TlsInv
  <2>4. ContextInv'
    BY <2>1 DEF TlsInv, ContextInv, Secure, Open
  <2> QED
    BY <2>3, <2>4 DEF TlsInv
<1>13. ASSUME NEW t \in Waiters, SendReturns(t) PROVE TlsInv'
  <2>1. busy' = [ busy EXCEPT ![t] = NoCall ] /\ UNCHANGED << Sockets, WifiChannel, heap, role >>
    BY <1>13 DEF SendReturns, Return
  <2>2. \A u \in Waiters : busy'[u] = busy[u] \/ busy'[u].ctx = NULL
    BY <2>1 DEF Types, NoCall
  <2>3. CtxInv'
    BY <2>1, <2>2, CtxFrame DEF TlsInv
  <2>4. ContextInv'
    BY <2>1 DEF TlsInv, ContextInv, Secure, Open
  <2> QED
    BY <2>3, <2>4 DEF TlsInv
<1>14. ASSUME NEW t \in Waiters, NEW s \in Slots, NetAccept(t, s) PROVE TlsInv'
  <2>1. Wait(t, "accept", s, NULL)
    BY <1>14 DEF NetAccept
  <2> QED
    BY <2>1, TlsWaits
<1>15. ASSUME NEW t \in Waiters, NEW s \in Slots, NetRecv(t, s) PROVE TlsInv'
  <2>1. Wait(t, "recv", s, net_mbedtls_sock_recv(Sockets[s]))
    BY <1>15 DEF NetRecv
  <2>2. net_mbedtls_sock_recv(Sockets[s]) # NULL => Sockets[s].is_secure /\ net_mbedtls_sock_recv(Sockets[s]) = Sockets[s].tlsData
    BY DEF net_mbedtls_sock_recv
  <2> QED
    BY <2>1, <2>2, TlsWaits
<1>16. ASSUME NEW t \in Waiters, NEW s \in Slots, NetSend(t, s) PROVE TlsInv'
  <2>1. Wait(t, "send", s, net_mbedtls_sock_send(Sockets[s]))
    BY <1>16 DEF NetSend
  <2>2. net_mbedtls_sock_send(Sockets[s]) # NULL => Sockets[s].is_secure /\ net_mbedtls_sock_send(Sockets[s]) = Sockets[s].tlsData
    BY DEF net_mbedtls_sock_send
  <2> QED
    BY <2>1, <2>2, TlsWaits
<1>17. ASSUME UNCHANGED vars PROVE TlsInv'
  BY <1>17 DEF vars, TlsInv, CtxInv, ContextInv, Secure, Open
<1> QED
  BY <1>1, <1>2, <1>3, <1>4, <1>5, <1>6, <1>7, <1>8, <1>9, <1>10, <1>11, <1>12, <1>13, <1>14,
     <1>15, <1>16, <1>17, Zenon DEF Next

\* The inductive invariant, under the rules about TLS.
LEMMA CarefulInductive ==
  ASSUME Careful
  PROVE  Spec => [](Types /\ AliveInv /\ CallInv /\ TlsInv)
<1> DEFINE IInv == Types /\ AliveInv /\ CallInv /\ TlsInv
<1>1. Init => IInv
  BY TypesInit, AliveInit, CallInit, TlsInit
<1>2. IInv /\ [Next]_vars => IInv'
  <2> SUFFICES ASSUME IInv, [Next]_vars PROVE IInv'
    OBVIOUS
  <2>0. "close busy" \notin Liberties
    BY DEF Careful
  <2>1. Types'
    BY TypesStep
  <2>2. AliveInv'
    BY AliveStep
  <2>3. CallInv'
    BY <2>0, CallStep
  <2>4. TlsInv'
    BY TlsInvStep
  <2> QED
    BY <2>1, <2>2, <2>3, <2>4
<1> QED
  BY <1>1, <1>2, PTL DEF Spec

\* No call works with a TLS context that was freed: net_recv and net_send leave the lock while
\* mbedtls waits, and shutdown, close or a failed connect free the context of the slot
\* (net_tls_destroy). It needs the rules the code leaves to its caller, that no socket is ended
\* while a call is on it and that one is not connected twice.
THEOREM ContextsStayLive == ASSUME Careful PROVE Spec => []ContextLive
<1>1. ASSUME Types, CallInv, TlsInv PROVE ContextLive
  <2>1. \A s \in Slots : Secure(s) =>
          /\ Sockets[s].tlsData \in heap
          /\ \A r \in Slots \ {s} : Secure(r) => Sockets[r].tlsData # Sockets[s].tlsData
    BY <1>1 DEF TlsInv, ContextInv
  <2>2. ASSUME NEW t \in Waiters, busy[t].ctx # NULL
        PROVE  busy[t].ctx \in heap /\ Sockets[busy[t].fd].tlsData = busy[t].ctx
    <3>1. busy[t].fd \in Slots /\ Secure(busy[t].fd)
      BY <1>1, <2>2, CtxWhere DEF TlsInv
    <3>2. Sockets[busy[t].fd].tlsData = busy[t].ctx
      BY <1>1, <2>2 DEF TlsInv, CtxInv
    <3> QED
      BY <2>1, <3>1, <3>2
  <2> QED
    BY <2>1, <2>2 DEF ContextLive
<1> QED
  BY <1>1, CarefulInductive, PTL

\* Every TLS context in the heap belongs to an open secure slot: nothing net_tls_init allocates
\* is lost by the paths that close, shut down or fail.
THEOREM ContextsAreFreed == ASSUME Careful PROVE Spec => []NoContextLeak
<1>1. ASSUME TlsInv PROVE NoContextLeak
  BY <1>1 DEF TlsInv, ContextInv, NoContextLeak
<1> QED
  BY <1>1, CarefulInductive, PTL

-----------------------------------------------------------------------------
\* The channels of the driver: who has which.

\* The channel of a slot.
Channel(s)     == WifiChannel[Sockets[s].ul]
\* A slot that speaks for the peer of a listener's channel.
IsPeer(s) == Attached(s) /\ role[s] \in {"accepted", "shut"} /\ Serves(Channel(s))

\* The roles for which a slot must have a channel.
Holding == {"server", "accepted", "client", "shut"}

\* What the channel c of a slot k in the role use is like.
Fits(use, k, c) ==
  /\ c.status # FREE /\ c.type = k.type
  /\ use \in Holding => k.type = "STREAM"
  /\ use = "server" => Serves(c) /\ ~k.cloneserver
  /\ use = "accepted" => /\ Serves(c) /\ k.cloneserver /\ "peer" \in c.running
                         /\ "SEND_OK" \in c.status /\ "RECV_OK" \in c.status
  /\ use = "client" => ~Serves(c)
  /\ use = "shut" /\ Serves(c) => k.cloneserver /\ "peer" \in c.running
  /\ use \in {"new", "failed"} /\ k.type = "STREAM" => ~Serves(c) /\ c.running = {}
  /\ use \in {"new", "failed"} /\ Serves(c) => ~k.cloneserver
  /\ use \in {"new", "failed"} /\ "client" \in c.running => "STARTED_CLIENT" \in c.status

\* A slot in use has a channel that fits its use.
FitsInv == \A s \in Slots :
  /\ role[s] \in Holding => Sockets[s].ul \in Channels
  /\ Attached(s) => Fits(role[s], Sockets[s], Channel(s))

\* Two slots on one channel are a listener and its peer.
PairInv == \A r, s \in Slots :
  Attached(r) /\ Attached(s) /\ r # s /\ Sockets[r].ul = Sockets[s].ul => (IsPeer(r) <=> ~IsPeer(s))

\* What the module runs on a channel.
Runs(c) ==
  /\ c.status = FREE => c.running = {}
  /\ Serves(c) => "client" \notin c.running
  /\ ~Serves(c) => c.running \subseteq {"client"}

\* The module runs on a channel what its status says.
RunsInv == \A i \in Channels : Runs(WifiChannel[i])

\* A channel that is not free has a slot that is no peer.
OwnerInv == \A i \in Channels :
  WifiChannel[i].status # FREE => \E s \in Slots : Attached(s) /\ Sockets[s].ul = i /\ ~IsPeer(s)

\* A connection the module has taken has a slot, while the table has room.
PeerInv == "full table" \notin Liberties => \A i \in Channels :
  "peer" \in WifiChannel[i].running => \E s \in Slots : Sockets[s].ul = i /\ IsPeer(s)

\* What is kept about the channels.
ChannelInv == FitsInv /\ PairInv /\ RunsInv /\ OwnerInv /\ PeerInv

\* No slot but s is on channel i, and s is on no other.
Sole(s, i) ==
  /\ \A q \in Slots : Attached(q) /\ Sockets[q].ul = i => q = s
  /\ Attached(s) => Sockets[s].ul = i

\* Slot s has channel i to itself, and the channel fits it.
Takes(k, r, i, d) ==
  /\ r # "none" /\ k.ul = i /\ Fits(r, k, d) /\ ~(r \in {"accepted", "shut"} /\ Serves(d)) /\ Runs(d)

\* Slot s gives channel i back.
Drops(k, r, d) ==
  /\ r \notin Holding /\ (r = "none" \/ k.ul \notin Channels)
  /\ d.status = FREE /\ d.running = {}

\* A slot has a channel when its handle is one.
LEMMA AttachedTo ==
  ASSUME Types, NEW s \in Slots
  PROVE  Attached(s) <=> Open(s) /\ Sockets[s].ul \in Channels
<1>1. Sockets[s].ul \in Channels \cup {NoUl, BadUl}
  BY SlotFields
<1> QED
  BY <1>1, SlotNumbers DEF Attached

\* The other slots, when slot s moves.
LEMMA OthersStay ==
  ASSUME Types, NEW s \in Slots, NEW k, NEW r, Moves(s, k, r)
  PROVE  /\ \A q \in Slots : q # s => Sockets'[q] = Sockets[q] /\ role'[q] = role[q]
         /\ \A q \in Slots : q # s => (Attached(q)' <=> Attached(q))
         /\ Sockets'[s] = k /\ role'[s] = r
         /\ Attached(s)' <=> r # "none" /\ k.ul \in Channels
<1>1. k.ul \in Channels \cup {NoUl, BadUl}
  BY DEF Moves, Socket
<1>2. /\ \A q \in Slots : q # s => Sockets'[q] = Sockets[q] /\ role'[q] = role[q]
      /\ Sockets'[s] = k /\ role'[s] = r
  BY Elsewhere
<1>3. k.ul >= 0 <=> k.ul \in Channels
  BY <1>1, SlotNumbers
<1> QED
  BY <1>2, <1>3 DEF Attached, Open

\* A call on a slot that has its channel to itself.
LEMMA ChannelAlone ==
  ASSUME Types, ChannelInv, NEW s \in Slots, NEW k, NEW r, Moves(s, k, r),
         NEW i \in Channels, NEW d \in WIFI_Channel,
         WifiChannel' = [ WifiChannel EXCEPT ![i] = d ], Sole(s, i), ~IsPeer(s),
         "peer" \in d.running => "peer" \in WifiChannel[i].running,
         Takes(k, r, i, d) \/ Drops(k, r, d)
  PROVE  ChannelInv'
<1>1. /\ \A q \in Slots : q # s => Sockets'[q] = Sockets[q] /\ role'[q] = role[q]
      /\ \A q \in Slots : q # s => (Attached(q)' <=> Attached(q))
      /\ Sockets'[s] = k /\ role'[s] = r
      /\ Attached(s)' <=> r # "none" /\ k.ul \in Channels
  BY OthersStay
<1>2. WifiChannel'[i] = d /\ \A j \in Channels : j # i => WifiChannel'[j] = WifiChannel[j]
  BY DEF Types
<1>3. \A q \in Slots : q # s /\ Attached(q) => Sockets[q].ul # i /\ Sockets[q].ul \in Channels
  BY AttachedTo DEF Sole
<1>4. \A q \in Slots : q # s /\ Attached(q) => Channel(q)' = Channel(q)
  BY <1>1, <1>2, <1>3 DEF Channel
<1>5. \A q \in Slots : q # s => (IsPeer(q)' <=> IsPeer(q))
  BY <1>1, <1>4 DEF IsPeer
<1>6. Attached(s)' => /\ Takes(k, r, i, d) /\ Sockets'[s].ul = i /\ Channel(s)' = d /\ Fits(r, k, d)
                      /\ ~IsPeer(s)'
  BY <1>1, <1>2 DEF Takes, Drops, Channel, IsPeer
<1>7. FitsInv'
  <2>1. ASSUME NEW q \in Slots, q # s
        PROVE  /\ role'[q] \in Holding => Sockets'[q].ul \in Channels
               /\ Attached(q)' => Fits(role'[q], Sockets'[q], Channel(q)')
    BY <1>1, <1>4, <2>1 DEF ChannelInv, FitsInv
  <2>2. role'[s] \in Holding => Sockets'[s].ul \in Channels
    BY <1>1 DEF Takes, Drops
  <2>3. Attached(s)' => Fits(role'[s], Sockets'[s], Channel(s)')
    BY <1>1, <1>6
  <2> QED
    BY <2>1, <2>2, <2>3 DEF FitsInv
<1>8. PairInv'
  <2>1. ASSUME NEW q \in Slots, Attached(q)', q # s, Attached(s)'
        PROVE  Sockets'[q].ul # Sockets'[s].ul
    BY <1>1, <1>3, <1>6, <2>1
  <2>2. ASSUME NEW p \in Slots, NEW q \in Slots, p # s, q # s, Attached(p)', Attached(q)', p # q,
               Sockets'[p].ul = Sockets'[q].ul
        PROVE  IsPeer(p)' <=> ~IsPeer(q)'
    BY <1>1, <1>5, <2>2 DEF ChannelInv, PairInv
  <2> QED
    BY <2>1, <2>2 DEF PairInv
<1>9. RunsInv'
  <2>1. Runs(d)
    BY DEF Takes, Drops, Runs, Serves, FREE
  <2> QED
    BY <1>2, <2>1 DEF ChannelInv, RunsInv
<1>10. OwnerInv'
  <2>1. ASSUME NEW j \in Channels, WifiChannel'[j].status # FREE, j # i
        PROVE  \E q \in Slots : Attached(q)' /\ Sockets'[q].ul = j /\ ~IsPeer(q)'
    <3>1. PICK q \in Slots : Attached(q) /\ Sockets[q].ul = j /\ ~IsPeer(q)
      BY <1>2, <2>1 DEF ChannelInv, OwnerInv
    <3>2. q # s
      BY <2>1, <3>1 DEF Sole
    <3> QED
      BY <1>1, <1>5, <3>1, <3>2
  <2>2. d.status # FREE => Attached(s)' /\ Sockets'[s].ul = i /\ ~IsPeer(s)'
    BY <1>1, <1>6 DEF Takes, Drops
  <2> QED
    BY <1>2, <2>1, <2>2 DEF OwnerInv
<1>11. PeerInv'
  <2>1. ASSUME "full table" \notin Liberties, NEW j \in Channels, "peer" \in WifiChannel'[j].running
        PROVE  \E q \in Slots : Sockets'[q].ul = j /\ IsPeer(q)'
    <3>1. "peer" \in WifiChannel[j].running
      BY <1>2, <2>1
    <3>2. PICK q \in Slots : Sockets[q].ul = j /\ IsPeer(q)
      BY <2>1, <3>1 DEF ChannelInv, PeerInv
    <3>3. q # s
      BY <3>2
    <3> QED
      BY <1>1, <1>5, <3>2, <3>3
  <2> QED
    BY <2>1 DEF PeerInv
<1> QED
  BY <1>7, <1>8, <1>9, <1>10, <1>11 DEF ChannelInv

\* A step that changes no channel, nor what the slots have to do with them, except that
\* slot s, which has none, may change in other ways.
LEMMA ChannelApart ==
  ASSUME Types, ChannelInv, NEW s \in Slots, NEW k, NEW r, Moves(s, k, r), UNCHANGED WifiChannel,
         ~Attached(s), r \notin Holding, r = "none" \/ k.ul \notin Channels
  PROVE  ChannelInv'
<1>1. /\ \A q \in Slots : q # s => Sockets'[q] = Sockets[q] /\ role'[q] = role[q]
      /\ \A q \in Slots : q # s => (Attached(q)' <=> Attached(q))
      /\ Sockets'[s] = k /\ role'[s] = r
      /\ Attached(s)' <=> r # "none" /\ k.ul \in Channels
  BY OthersStay
<1>2. ~Attached(s)' /\ ~IsPeer(s)' /\ ~IsPeer(s)
  BY <1>1 DEF IsPeer
<1>3. \A q \in Slots : q # s => Channel(q)' = Channel(q) /\ (IsPeer(q)' <=> IsPeer(q))
  BY <1>1 DEF Channel, IsPeer
<1>4. FitsInv'
  BY <1>1, <1>2, <1>3 DEF ChannelInv, FitsInv
<1>5. PairInv'
  BY <1>1, <1>2, <1>3 DEF ChannelInv, PairInv
<1>6. RunsInv' /\ OwnerInv'
  BY <1>1, <1>2, <1>3 DEF ChannelInv, RunsInv, OwnerInv
<1>7. PeerInv'
  BY <1>1, <1>2, <1>3 DEF ChannelInv, PeerInv
<1> QED
  BY <1>4, <1>5, <1>6, <1>7 DEF ChannelInv

\* Steps that change neither channels nor roles.
LEMMA ChannelFrame ==
  ASSUME Types, ChannelInv, UNCHANGED << WifiChannel, role >>,
         \A q \in Slots : /\ Sockets'[q].ul = Sockets[q].ul
                          /\ SameLine(q, Sockets'[q])
  PROVE  ChannelInv'
<1>1. \A q \in Slots : /\ (Attached(q)' <=> Attached(q)) /\ Channel(q)' = Channel(q)
                       /\ (IsPeer(q)' <=> IsPeer(q))
  BY DEF Attached, Open, Channel, IsPeer
<1>2. \A q \in Slots : \A c : Fits(role[q], Sockets[q], c) => Fits(role[q], Sockets'[q], c)
  BY DEF SameLine, Fits
<1>3. FitsInv'
  BY <1>1, <1>2 DEF ChannelInv, FitsInv
<1>4. PairInv'
  BY <1>1 DEF ChannelInv, PairInv
<1>5. RunsInv' /\ OwnerInv'
  BY <1>1 DEF ChannelInv, RunsInv, OwnerInv
<1>6. PeerInv'
  BY <1>1 DEF ChannelInv, PeerInv
<1> QED
  BY <1>3, <1>4, <1>5, <1>6 DEF ChannelInv

\* Beside a peer there is only its listener.
LEMMA BesidePeer ==
  ASSUME Types, ChannelInv, NEW p \in Slots, IsPeer(p), NEW q \in Slots, q # p, Attached(q),
         Sockets[q].ul = Sockets[p].ul
  PROVE  /\ ~IsPeer(q) /\ role[q] = "server" /\ ~Sockets[q].cloneserver /\ Sockets[p].cloneserver
         /\ Channel(q) = Channel(p) /\ Serves(Channel(p))
<1>1. Attached(p) /\ Serves(Channel(p)) /\ role[p] \in {"accepted", "shut"} /\ Channel(q) = Channel(p)
  BY DEF IsPeer, Channel
<1>2. ~IsPeer(q)
  BY <1>1 DEF ChannelInv, PairInv
<1>3. Fits(role[p], Sockets[p], Channel(p)) /\ Fits(role[q], Sockets[q], Channel(p))
  BY <1>1 DEF ChannelInv, FitsInv
<1>4. Sockets[p].cloneserver /\ Sockets[q].type = "STREAM"
  BY <1>1, <1>3 DEF Fits, Holding
<1>5. role[q] \notin {"accepted", "shut"} /\ role[q] # "none" /\ role[q] \in Roles
  BY <1>1, <1>2, SlotFields DEF IsPeer, Attached, Open
<1>6. role[q] \notin {"new", "failed", "client"}
  BY <1>1, <1>3, <1>4 DEF Fits
<1>7. role[q] = "server"
  BY <1>5, <1>6 DEF Roles
<1> QED
  BY <1>1, <1>2, <1>3, <1>4, <1>7 DEF Fits

\* A slot that is no peer, and has none, has its channel to itself.
LEMMA SoleOwner ==
  ASSUME Types, ChannelInv, NEW s \in Slots, Attached(s), ~IsPeer(s),
         role[s] = "server" => Accepted(s) = {}
  PROVE  Sole(s, Sockets[s].ul)
<1>1. ASSUME NEW q \in Slots, Attached(q), Sockets[q].ul = Sockets[s].ul, q # s PROVE FALSE
  <2>1. IsPeer(q)
    BY <1>1 DEF ChannelInv, PairInv
  <2>2. role[s] = "server" /\ Sockets[q].cloneserver
    BY <1>1, <2>1, BesidePeer
  <2>3. q \in Accepted(s)
    BY <1>1, <2>1, <2>2 DEF Accepted, IsPeer
  <2> QED
    BY <2>2, <2>3
<1> QED
  BY <1>1 DEF Sole

-----------------------------------------------------------------------------
\* The channels of the driver: a listener and its peer.

\* The end of a peer, or of what it may do: its listener keeps the channel.
LEMMA ChannelPeer ==
  ASSUME Types, ChannelInv, NEW s \in Slots, NEW k, NEW r, Moves(s, k, r), IsPeer(s),
         NEW i \in Channels, Sockets[s].ul = i, NEW d \in WIFI_Channel,
         WifiChannel' = [ WifiChannel EXCEPT ![i] = d ],
         Serves(d), d.type = WifiChannel[i].type, d.running \subseteq WifiChannel[i].running,
         \/ r = "none" /\ "peer" \notin d.running
         \/ r = "shut" /\ k.ul = i /\ SameLine(s, k) /\ "peer" \in d.running
  PROVE  ChannelInv'
<1>1. /\ \A q \in Slots : q # s => Sockets'[q] = Sockets[q] /\ role'[q] = role[q]
      /\ \A q \in Slots : q # s => (Attached(q)' <=> Attached(q))
      /\ Sockets'[s] = k /\ role'[s] = r
      /\ Attached(s)' <=> r # "none" /\ k.ul \in Channels
  BY OthersStay
<1>2. WifiChannel'[i] = d /\ \A j \in Channels : j # i => WifiChannel'[j] = WifiChannel[j]
  BY DEF Types
<1>3. \A q \in Slots : Attached(q) => Sockets[q].ul \in Channels
  BY AttachedTo
<1>4. Serves(WifiChannel[i]) /\ Attached(s) /\ Fits(role[s], Sockets[s], WifiChannel[i])
      /\ role[s] \in {"accepted", "shut"}
  BY DEF IsPeer, Channel, ChannelInv, FitsInv
<1>5. d.status # FREE
  BY DEF Serves, FREE
<1>6. \A q \in Slots : q # s /\ Attached(q) /\ Sockets[q].ul # i => Channel(q)' = Channel(q)
  BY <1>1, <1>2, <1>3 DEF Channel
<1>7. \A q \in Slots : q # s /\ Attached(q) /\ Sockets[q].ul = i =>
        /\ Channel(q)' = d /\ ~IsPeer(q) /\ role[q] = "server" /\ ~Sockets[q].cloneserver
        /\ Fits("server", Sockets[q], WifiChannel[i])
  <2>1. ASSUME NEW q \in Slots, q # s, Attached(q), Sockets[q].ul = i
        PROVE  /\ Channel(q)' = d /\ ~IsPeer(q) /\ role[q] = "server" /\ ~Sockets[q].cloneserver
               /\ Fits("server", Sockets[q], WifiChannel[i])
    <3>1. ~IsPeer(q) /\ role[q] = "server" /\ ~Sockets[q].cloneserver
      BY <2>1, BesidePeer
    <3>2. Fits("server", Sockets[q], WifiChannel[i])
      BY <2>1, <3>1 DEF ChannelInv, FitsInv, Channel
    <3>3. Channel(q)' = d
      BY <1>1, <1>2, <2>1 DEF Channel
    <3> QED
      BY <3>1, <3>2, <3>3
  <2> QED
    BY <2>1
<1>8. \A q \in Slots : q # s => (IsPeer(q)' <=> IsPeer(q))
  BY <1>1, <1>4, <1>6, <1>7 DEF IsPeer, Channel
<1>9. Attached(s)' => /\ r = "shut" /\ k.ul = i /\ Channel(s)' = d /\ IsPeer(s)' /\ Fits(r, k, d)
  <2> SUFFICES ASSUME Attached(s)'
               PROVE  r = "shut" /\ k.ul = i /\ Channel(s)' = d /\ IsPeer(s)' /\ Fits(r, k, d)
    OBVIOUS
  <2>1. r = "shut" /\ k.ul = i /\ Channel(s)' = d /\ SameLine(s, k) /\ "peer" \in d.running
    BY <1>1, <1>2 DEF Channel
  <2>2. IsPeer(s)'
    BY <1>1, <2>1 DEF IsPeer
  <2>3. k.type = Sockets[s].type /\ k.cloneserver = Sockets[s].cloneserver
    BY <2>1 DEF SameLine
  <2>4. k.cloneserver /\ k.type = d.type /\ k.type = "STREAM"
    BY <1>4, <2>3 DEF Fits, Holding
  <2>5. Fits(r, k, d)
    BY <1>5, <2>1, <2>4 DEF Fits, Holding
  <2> QED
    BY <2>1, <2>2, <2>5
<1>10. FitsInv'
  <2>1. ASSUME NEW q \in Slots, q # s, Attached(q), Sockets[q].ul = i
        PROVE  Fits(role'[q], Sockets'[q], Channel(q)')
    <3>1. Fits("server", Sockets[q], d)
      BY <1>5, <1>7, <2>1 DEF Fits
    <3> QED
      BY <1>1, <1>7, <2>1, <3>1
  <2>2. ASSUME NEW q \in Slots, q # s, Attached(q), Sockets[q].ul # i
        PROVE  Fits(role'[q], Sockets'[q], Channel(q)')
    BY <1>1, <1>6, <2>2 DEF ChannelInv, FitsInv
  <2>3. \A q \in Slots : q # s /\ role'[q] \in Holding => Sockets'[q].ul \in Channels
    BY <1>1 DEF ChannelInv, FitsInv
  <2>4. role'[s] \in Holding => Sockets'[s].ul \in Channels
    BY <1>1 DEF Holding
  <2>5. Attached(s)' => Fits(role'[s], Sockets'[s], Channel(s)')
    BY <1>1, <1>9
  <2> QED
    BY <1>1, <2>1, <2>2, <2>3, <2>4, <2>5 DEF FitsInv
<1>11. PairInv'
  <2>1. ASSUME NEW q \in Slots, q # s, Attached(q)', Attached(s)', Sockets'[q].ul = Sockets'[s].ul
        PROVE  IsPeer(s)' /\ ~IsPeer(q)'
    BY <1>1, <1>7, <1>8, <1>9, <2>1
  <2>2. ASSUME NEW p \in Slots, NEW q \in Slots, p # s, q # s, Attached(p)', Attached(q)', p # q,
               Sockets'[p].ul = Sockets'[q].ul
        PROVE  IsPeer(p)' <=> ~IsPeer(q)'
    BY <1>1, <1>8, <2>2 DEF ChannelInv, PairInv
  <2> QED
    BY <2>1, <2>2 DEF PairInv
<1>12. RunsInv'
  <2>1. Runs(d)
    BY <1>4, <1>5 DEF ChannelInv, RunsInv, Runs
  <2> QED
    BY <1>2, <2>1 DEF ChannelInv, RunsInv
<1>13. OwnerInv'
  <2>1. ASSUME NEW j \in Channels, WifiChannel'[j].status # FREE
        PROVE  \E q \in Slots : Attached(q)' /\ Sockets'[q].ul = j /\ ~IsPeer(q)'
    <3>1. WifiChannel[j].status # FREE
      BY <1>2, <1>4, <2>1 DEF Fits
    <3>2. PICK q \in Slots : Attached(q) /\ Sockets[q].ul = j /\ ~IsPeer(q)
      BY <3>1 DEF ChannelInv, OwnerInv
    <3>3. q # s
      BY <3>2
    <3> QED
      BY <1>1, <1>8, <3>2, <3>3
  <2> QED
    BY <2>1 DEF OwnerInv
<1>14. PeerInv'
  <2>1. ASSUME "full table" \notin Liberties, NEW j \in Channels, "peer" \in WifiChannel'[j].running
        PROVE  \E q \in Slots : Sockets'[q].ul = j /\ IsPeer(q)'
    <3>1. CASE j = i
      <4>1. r = "shut" /\ k.ul = i
        BY <1>2, <2>1, <3>1
      <4> QED
        BY <1>1, <1>9, <3>1, <4>1
    <3>2. CASE j # i
      <4>1. PICK q \in Slots : Sockets[q].ul = j /\ IsPeer(q)
        BY <1>2, <2>1, <3>2 DEF ChannelInv, PeerInv
      <4> QED
        BY <1>1, <1>8, <3>2, <4>1
    <3> QED
      BY <3>1, <3>2
  <2> QED
    BY <2>1 DEF PeerInv
<1> QED
  BY <1>10, <1>11, <1>12, <1>13, <1>14 DEF ChannelInv

\* find_free_socket returns one slot, which is free.
LEMMA OneFreeSlot ==
  ASSUME NEW p \in FirstFreeSlot, NEW q \in FirstFreeSlot
  PROVE  p = q /\ p \in Slots /\ Sockets[p].status = "NOT_ALIVE"
<1>1. p \in Slots /\ q \in Slots /\ p <= q /\ q <= p /\ Sockets[p].status = "NOT_ALIVE"
  BY DEF FirstFreeSlot, FreeSlots
<1> QED
  BY <1>1, SlotNumbers

\* A listener's channel accepts a connection.
LEMMA ChannelAccept ==
  ASSUME Types, AliveInv, ChannelInv, NEW s \in Slots, role[s] = "server",
         Clones(s, FirstFreeSlot), NEW i \in Channels, Sockets[s].ul = i, NEW d \in WIFI_Channel,
         WifiChannel' = [ WifiChannel EXCEPT ![i] = d ],
         d.type = WifiChannel[i].type,
         d.status = WifiChannel[i].status \cup (CONNECTED_RW \cup {"STARTED_SERVER"}),
         d.running = WifiChannel[i].running \cup {"peer"},
         "peer" \notin WifiChannel[i].running,
         "full table" \in Liberties \/ FirstFreeSlot # {}
  PROVE  ChannelInv'
<1> DEFINE c == WifiChannel[i]
           listener == [ Sockets[s] EXCEPT !.status = "CONNECTED" ]
           clone == [ listener EXCEPT !.ul = Sockets[s].ul, !.cloneserver = TRUE ]
<1>1. Attached(s) /\ Channel(s) = c /\ Fits("server", Sockets[s], c)
  BY AttachedTo DEF ChannelInv, FitsInv, Channel, Open
<1>2. Serves(c) /\ c.type = "STREAM" /\ Sockets[s].type = "STREAM" /\ ~Sockets[s].cloneserver
      /\ "client" \notin c.running
  BY <1>1 DEF Fits, Holding, ChannelInv, RunsInv, Runs
<1>3. /\ Serves(d) /\ d.status # FREE /\ d.type = "STREAM" /\ "peer" \in d.running
      /\ "SEND_OK" \in d.status /\ "RECV_OK" \in d.status /\ "client" \notin d.running
  BY <1>2 DEF Serves, CONNECTED_RW, FREE
<1>4. /\ Sockets' = [ r \in Slots |-> IF r = s THEN listener
                                      ELSE IF r \in FirstFreeSlot THEN clone ELSE Sockets[r] ]
      /\ role' = [ r \in Slots |-> IF r \in FirstFreeSlot THEN "accepted" ELSE role[r] ]
  BY DEF Clones
<1>5. /\ listener.ul = i /\ listener.type = "STREAM" /\ listener.cloneserver = Sockets[s].cloneserver
      /\ clone.ul = i /\ clone.type = "STREAM" /\ clone.cloneserver = TRUE
  <2>1. Sockets[s] \in Socket
    BY SlotFields
  <2> QED
    BY <1>2, <2>1 DEF Socket
<1> HIDE DEF listener, clone
<1>6. \A f \in FirstFreeSlot : f \in Slots /\ role[f] = "none" /\ f # s
  BY OneFreeSlot DEF AliveInv
<1>7. Sockets'[s] = listener /\ role'[s] = "server"
  BY <1>4, <1>6
<1>8. \A f \in FirstFreeSlot : Sockets'[f] = clone /\ role'[f] = "accepted"
  BY <1>4, <1>6
<1>9. \A q \in Slots : q # s /\ q \notin FirstFreeSlot => Sockets'[q] = Sockets[q] /\ role'[q] = role[q]
  BY <1>4
<1>10. WifiChannel'[i] = d /\ \A j \in Channels : j # i => WifiChannel'[j] = WifiChannel[j]
  BY DEF Types
<1>11. i >= 0 /\ \A q \in Slots : Attached(q) => Sockets[q].ul \in Channels
  BY SlotNumbers, AttachedTo
<1>12. \A q \in Slots : q # s /\ Attached(q) => Sockets[q].ul # i
  <2>1. ASSUME NEW q \in Slots, q # s, Attached(q), Sockets[q].ul = i PROVE FALSE
    <3>1. IsPeer(q) /\ Channel(q) = c
      BY <1>1, <2>1 DEF ChannelInv, PairInv, IsPeer, Channel
    <3>2. Fits(role[q], Sockets[q], c) /\ role[q] \in {"accepted", "shut"}
      BY <2>1, <3>1 DEF ChannelInv, FitsInv, IsPeer
    <3> QED
      BY <1>2, <3>2 DEF Fits
  <2> QED
    BY <2>1
<1>13. \A q \in Slots : q # s /\ q \notin FirstFreeSlot =>
         /\ (Attached(q)' <=> Attached(q)) /\ (IsPeer(q)' <=> IsPeer(q))
         /\ Attached(q) => Channel(q)' = Channel(q) /\ Sockets'[q].ul # i
  <2>1. ASSUME NEW q \in Slots, q # s, q \notin FirstFreeSlot
        PROVE  /\ (Attached(q)' <=> Attached(q)) /\ (Attached(q) => Channel(q)' = Channel(q) /\ Sockets'[q].ul # i)
    <3>1. Sockets'[q] = Sockets[q] /\ role'[q] = role[q]
      BY <1>9, <2>1
    <3>2. Attached(q)' <=> Attached(q)
      BY <3>1 DEF Attached, Open
    <3>3. Attached(q) => Channel(q)' = Channel(q) /\ Sockets'[q].ul # i
      BY <1>10, <1>11, <1>12, <2>1, <3>1 DEF Channel
    <3> QED
      BY <3>2, <3>3
  <2> QED
    BY <1>9, <2>1 DEF IsPeer
<1>14. Attached(s)' /\ Channel(s)' = d /\ ~IsPeer(s)' /\ Sockets'[s].ul = i
  BY <1>5, <1>7, <1>10, <1>11 DEF Attached, Open, Channel, IsPeer
<1>15. \A f \in FirstFreeSlot : Attached(f)' /\ Channel(f)' = d /\ IsPeer(f)' /\ Sockets'[f].ul = i
  <2>1. ASSUME NEW f \in FirstFreeSlot
        PROVE  Attached(f)' /\ Channel(f)' = d /\ IsPeer(f)' /\ Sockets'[f].ul = i
    <3>1. Sockets'[f].ul = i /\ role'[f] = "accepted"
      BY <1>5, <1>8
    <3>2. Attached(f)' /\ Channel(f)' = d
      BY <1>10, <1>11, <3>1 DEF Attached, Open, Channel
    <3>3. IsPeer(f)'
      BY <1>3, <3>1, <3>2 DEF IsPeer
    <3> QED
      BY <3>1, <3>2, <3>3
  <2> QED
    BY <2>1
<1>16. FitsInv'
  <2>1. Fits(role'[s], Sockets'[s], Channel(s)')
    BY <1>2, <1>3, <1>5, <1>7, <1>14 DEF Fits
  <2>2. \A f \in FirstFreeSlot : Fits(role'[f], Sockets'[f], Channel(f)')
    BY <1>3, <1>5, <1>8, <1>15 DEF Fits
  <2>3. ASSUME NEW q \in Slots, q # s, q \notin FirstFreeSlot
        PROVE  /\ role'[q] \in Holding => Sockets'[q].ul \in Channels
               /\ Attached(q)' => Fits(role'[q], Sockets'[q], Channel(q)')
    BY <1>9, <1>13, <2>3 DEF ChannelInv, FitsInv
  <2> QED
    BY <1>14, <1>15, <2>1, <2>2, <2>3 DEF FitsInv
<1>17. PairInv'
  <2>1. ASSUME NEW p \in Slots, NEW q \in Slots, p # q, Attached(p)', Attached(q)',
               Sockets'[p].ul = Sockets'[q].ul
        PROVE  IsPeer(p)' <=> ~IsPeer(q)'
    <3>1. CASE p = s
      BY <1>13, <1>14, <1>15, <2>1, <3>1
    <3>2. CASE q = s
      BY <1>13, <1>14, <1>15, <2>1, <3>2
    <3>3. CASE p \in FirstFreeSlot /\ q # s
      BY <1>13, <1>15, <2>1, <3>3, OneFreeSlot
    <3>4. CASE q \in FirstFreeSlot /\ p # s
      BY <1>13, <1>15, <2>1, <3>4, OneFreeSlot
    <3>5. CASE p # s /\ q # s /\ p \notin FirstFreeSlot /\ q \notin FirstFreeSlot
      <4>1. Attached(p) /\ Attached(q) /\ Sockets[p].ul = Sockets[q].ul
        BY <1>9, <1>13, <2>1, <3>5
      <4>2. IsPeer(p) <=> ~IsPeer(q)
        BY <2>1, <4>1 DEF ChannelInv, PairInv
      <4> QED
        BY <1>13, <3>5, <4>2
    <3> QED
      BY <3>1, <3>2, <3>3, <3>4, <3>5
  <2> QED
    BY <2>1 DEF PairInv
<1>18. RunsInv'
  <2>1. Runs(d)
    BY <1>3 DEF Runs
  <2> QED
    BY <1>10, <2>1 DEF ChannelInv, RunsInv
<1>19. OwnerInv'
  <2>1. ASSUME NEW j \in Channels, WifiChannel'[j].status # FREE, j # i
        PROVE  \E q \in Slots : Attached(q)' /\ Sockets'[q].ul = j /\ ~IsPeer(q)'
    <3>1. PICK q \in Slots : Attached(q) /\ Sockets[q].ul = j /\ ~IsPeer(q)
      BY <1>10, <2>1 DEF ChannelInv, OwnerInv
    <3>2. q # s /\ q \notin FirstFreeSlot
      BY <1>6, <2>1, <3>1 DEF Attached, Open
    <3> QED
      BY <1>9, <1>13, <3>1, <3>2
  <2> QED
    BY <1>14, <2>1 DEF OwnerInv
<1>20. PeerInv'
  <2>1. ASSUME "full table" \notin Liberties, NEW j \in Channels, "peer" \in WifiChannel'[j].running
        PROVE  \E q \in Slots : Sockets'[q].ul = j /\ IsPeer(q)'
    <3>1. CASE j = i
      BY <1>6, <1>15, <2>1, <3>1
    <3>2. CASE j # i
      <4>1. PICK q \in Slots : Sockets[q].ul = j /\ IsPeer(q)
        BY <1>10, <2>1, <3>2 DEF ChannelInv, PeerInv
      <4>2. q # s /\ q \notin FirstFreeSlot
        BY <1>6, <3>2, <4>1 DEF IsPeer, Attached, Open
      <4> QED
        BY <1>9, <1>13, <4>1, <4>2
    <3> QED
      BY <3>1, <3>2
  <2> QED
    BY <2>1 DEF PeerInv
<1> QED
  BY <1>16, <1>17, <1>18, <1>19, <1>20 DEF ChannelInv

\* The channel a call on a slot of its own gets.
LEMMA ClaimsFits ==
  ASSUME Types, ChannelInv, NEW s \in Slots, role[s] \in {"new", "failed"},
         NEW i \in Channels, NEW c \in WIFI_Channel, Claims(s, i, c)
  PROVE  /\ Sole(s, i) /\ ~IsPeer(s) /\ Fits(role[s], Sockets[s], c) /\ Runs(c)
         /\ c.running = WifiChannel[i].running
         /\ Attached(s) => Sockets[s].ul = i /\ c = WifiChannel[i]
         /\ ~Attached(s) => ~Serves(c) /\ c.running = {}
<1>1. ~IsPeer(s) /\ role[s] # "none" /\ role[s] # "server" /\ role[s] \notin Holding
  BY DEF IsPeer, Holding
<1>2. CASE Sockets[s].ul = i /\ c = WifiChannel[i]
  <2>1. Attached(s) /\ Channel(s) = c
    BY <1>1, <1>2, AttachedTo DEF Open, Channel
  <2>2. Sole(s, i)
    BY <1>1, <1>2, <2>1, SoleOwner
  <2>3. Fits(role[s], Sockets[s], c) /\ Runs(c)
    BY <1>2, <2>1 DEF ChannelInv, FitsInv, RunsInv
  <2> QED
    BY <1>1, <1>2, <2>1, <2>2, <2>3
<1>3. CASE /\ Sockets[s].ul = NoUl /\ WifiChannel[i].status = FREE
           /\ "STARTED_SERVER" \notin c.status /\ "BIND" \notin c.status /\ c.status # FREE
           /\ c.type = Sockets[s].type /\ c.running = WifiChannel[i].running
  <2>1. ~Attached(s)
    BY <1>3, AttachedTo, SlotNumbers
  <2>2. WifiChannel[i].running = {}
    BY <1>3 DEF ChannelInv, RunsInv, Runs
  <2>3. ~Serves(c) /\ c.running = {}
    BY <1>3, <2>2 DEF Serves
  <2>4. ASSUME NEW q \in Slots, Attached(q), Sockets[q].ul = i PROVE FALSE
    BY <1>3, <2>4 DEF ChannelInv, FitsInv, Fits, Channel
  <2>5. Fits(role[s], Sockets[s], c) /\ Runs(c)
    BY <1>1, <1>3, <2>3 DEF Fits, Runs
  <2> QED
    BY <1>1, <1>3, <2>1, <2>3, <2>4, <2>5 DEF Sole
<1> QED
  BY <1>2, <1>3 DEF Claims

-----------------------------------------------------------------------------
\* The channels of the driver: every step, and the room in the table.

\* The module stops what it is told to stop, and the application keeps the rules about
\* listeners, datagrams and sockets in use.
Tidy ==
  /\ StopMayFail = FALSE
  /\ "close busy" \notin Liberties /\ "listener first" \notin Liberties
  /\ "reused slot" \notin Liberties /\ "both ways" \notin Liberties

\* What the rules say of the calls.
LEMMA TidyCalls ==
  ASSUME Tidy, NEW s \in Slots
  PROVE  /\ ~StopMayFail /\ "close busy" \notin Liberties
         /\ MayEnd(s) => (role[s] = "server" => Accepted(s) = {})
         /\ MayServe(s) => ~Sockets[s].cloneserver
         /\ \A c, d : SendsFirst(s, c, d) =>
              /\ Attached(s) => ~Serves(WifiChannel[Sockets[s].ul])
              /\ d.status = c.status \cup {"STARTED_CLIENT"} /\ d.running = c.running \cup {"client"}
         /\ \A c, d : WaitsFirst(s, c, d) =>
              /\ Attached(s) => "STARTED_CLIENT" \notin WifiChannel[Sockets[s].ul].status
              /\ ~Sockets[s].cloneserver
              /\ d.status = c.status \cup {"STARTED_SERVER"} /\ d.running = c.running \cup {"server"}
<1>1. ~StopMayFail /\ "close busy" \notin Liberties
  BY DEF Tidy
<1>2. /\ MayEnd(s) => (role[s] = "server" => Accepted(s) = {})
      /\ MayServe(s) => ~Sockets[s].cloneserver
  BY Zenon DEF Tidy, MayEnd, MayServe, Allows
<1>3. \A c, d : SendsFirst(s, c, d) =>
        /\ Attached(s) => ~Serves(WifiChannel[Sockets[s].ul])
        /\ d.status = c.status \cup {"STARTED_CLIENT"} /\ d.running = c.running \cup {"client"}
  BY Zenon DEF Tidy, SendsFirst, Allows
<1>4. \A c, d : WaitsFirst(s, c, d) =>
        /\ Attached(s) => "STARTED_CLIENT" \notin WifiChannel[Sockets[s].ul].status
        /\ ~Sockets[s].cloneserver
        /\ d.status = c.status \cup {"STARTED_SERVER"} /\ d.running = c.running \cup {"server"}
  BY <1>2, Zenon DEF Tidy, WaitsFirst, Allows
<1> QED
  BY <1>1, <1>2, <1>3, <1>4

\* At the start every channel is free.
LEMMA ChannelInit == Init => ChannelInv
<1> SUFFICES ASSUME Init PROVE ChannelInv
  OBVIOUS
<1>1. \A s \in Slots : role[s] = "none" /\ ~Attached(s)
  BY DEF Init, Attached, Open
<1>2. \A i \in Channels : WifiChannel[i].status = FREE /\ WifiChannel[i].running = {}
  BY DEF Init, ProbedChannel
<1>3. FitsInv /\ PairInv
  BY <1>1 DEF FitsInv, PairInv, Holding
<1>4. RunsInv
  BY <1>2 DEF RunsInv, Runs, Serves, FREE
<1>5. OwnerInv /\ PeerInv
  BY <1>2 DEF OwnerInv, PeerInv
<1> QED
  BY <1>3, <1>4, <1>5 DEF ChannelInv

\* The driver refuses to make a channel, or a slot without one is closed.
LEMMA ChannelRefused ==
  ASSUME Types, ChannelInv, NEW s \in Slots, NEW k, NEW r, Moves(s, k, r), Unattached(s, k),
         r \notin Holding
  PROVE  ChannelInv'
<1>1. Sockets[s].ul \notin Channels /\ k.ul \notin Channels /\ UNCHANGED WifiChannel
  BY SlotNumbers DEF Unattached
<1>2. ~Attached(s)
  BY <1>1, AttachedTo
<1> QED
  BY <1>1, <1>2, ChannelApart

\* The table has room for every connection that is waited for.
RoomInv == "full table" \notin Liberties =>
  IsFiniteSet(Accepting) /\ Cardinality(Accepting) <= Cardinality(FreeSlots)

\* The free slots can be counted.
LEMMA FreeSlotsFinite ==
  /\ IsFiniteSet(FreeSlots) /\ Cardinality(FreeSlots) \in Nat
  /\ IsFiniteSet(FreeSlots') /\ Cardinality(FreeSlots') \in Nat
<1>1. IsFiniteSet(Slots)
  BY SlotNumbers, FS_Interval DEF Slots
<1>2. FreeSlots \subseteq Slots /\ FreeSlots' \subseteq Slots
  BY DEF FreeSlots
<1>3. IsFiniteSet(FreeSlots) /\ IsFiniteSet(FreeSlots')
  BY <1>1, <1>2, FS_Subset
<1> QED
  BY <1>3, FS_CardinalityType

\* A set of natural numbers that is not empty has a least element.
LEMMA LeastNatural ==
  ASSUME NEW S, S \subseteq Nat, S # {}
  PROVE  \E x \in S : \A y \in S : x <= y
<1> DEFINE R == OpToRel(<, Nat)
<1>0. \E Q : IsWellFoundedOn(Q, Nat) /\ \A x, y \in Nat : y < x => << y, x >> \in Q
  <2>2. \A x, y \in Nat : y < x => << y, x >> \in R
    BY DEF OpToRel
  <2> QED BY <2>2, NatLessThanWellFounded, Zenon
<1> HIDE DEF R
<1>1. PICK Q : IsWellFoundedOn(Q, Nat) /\ \A x, y \in Nat : y < x => << y, x >> \in Q
  BY <1>0
<1>2. \E x \in S : \A y \in S : ~(<<y, x>> \in Q)
  BY <1>1, WFMin
<1>3. PICK x \in S : \A y \in S : ~(<<y, x>> \in Q)
  BY <1>2
<1>4. ASSUME NEW y \in S PROVE x <= y
  <2>1. x \in Nat /\ y \in Nat
    OBVIOUS
  <2>2. ~(y < x)
    BY <1>1, <1>3, <2>1, Zenon
  <2> QED
    BY <2>1, <2>2
<1> QED
  BY <1>4

\* Natural numbers, for the sizes of sets.
LEMMA SizeLeq == \A a, b, c \in Nat : a <= b /\ b <= c => a <= c
  OBVIOUS

LEMMA SizePositive == \A a, b \in Nat : a <= b /\ a # 0 => b # 0
  OBVIOUS

LEMMA SizeLess == \A a, b, c \in Nat : b >= a + 1 /\ c = b - 1 => a <= c
  OBVIOUS

LEMMA SizeDrop == \A a, b, c, d \in Nat : a <= b /\ c = a - 1 /\ d >= b - 1 => c <= d
  OBVIOUS

LEMMA SizeAtMostOneLess == \A a, b \in Nat : (a = b - 1 \/ a = b) => a >= b - 1
  OBVIOUS

\* There is a slot for the connection somebody waits for.
LEMMA RoomIsThere ==
  ASSUME RoomInv, NEW t \in Accepting
  PROVE  "full table" \in Liberties \/ FirstFreeSlot # {}
<1> SUFFICES ASSUME "full table" \notin Liberties PROVE FirstFreeSlot # {}
  OBVIOUS
<1>1. IsFiniteSet(Accepting) /\ Cardinality(Accepting) <= Cardinality(FreeSlots)
  BY DEF RoomInv
<1>2. Cardinality(Accepting) \in Nat /\ Cardinality(Accepting) # 0
  BY <1>1, FS_CardinalityType, FS_EmptySet
<1>3. FreeSlots # {}
  <2>1. Cardinality(FreeSlots) \in Nat
    BY FreeSlotsFinite
  <2>2. Cardinality(FreeSlots) # 0
    BY <1>1, <1>2, <2>1, SizePositive, Zenon
  <2> QED
    BY <2>2, FS_EmptySet
<1>4. FreeSlots \subseteq Nat
  BY SlotNumbers DEF FreeSlots
<1>5. \E s \in FreeSlots : \A r \in FreeSlots : s <= r
  BY <1>3, <1>4, LeastNatural
<1> QED
  BY <1>5 DEF FirstFreeSlot

\* Calls on a slot that is in use free no fewer slots.
LEMMA RoomFrame ==
  ASSUME RoomInv, Accepting' = Accepting, FreeSlots \subseteq FreeSlots'
  PROVE  RoomInv'
<1> SUFFICES ASSUME "full table" \notin Liberties
             PROVE  IsFiniteSet(Accepting') /\ Cardinality(Accepting') <= Cardinality(FreeSlots')
  BY DEF RoomInv
<1>1. IsFiniteSet(Accepting) /\ Cardinality(Accepting) <= Cardinality(FreeSlots)
  BY DEF RoomInv
<1>2. Cardinality(FreeSlots) <= Cardinality(FreeSlots')
  BY FreeSlotsFinite, FS_Subset
<1>3. Cardinality(Accepting) \in Nat
  BY <1>1, FS_CardinalityType
<1>4. Cardinality(FreeSlots) \in Nat /\ Cardinality(FreeSlots') \in Nat
  BY FreeSlotsFinite
<1>5. Cardinality(Accepting) <= Cardinality(FreeSlots')
  BY <1>1, <1>2, <1>3, <1>4, SizeLeq, Zenon
<1> QED
  BY <1>1, <1>5

\* A call on a slot that is in use frees slots but takes none.
LEMMA RoomMoves ==
  ASSUME Types, AliveInv, AliveInv', RoomInv, NEW s \in Slots, role[s] # "none",
         \E k, r : Moves(s, k, r)
  PROVE  RoomInv'
<1>1. PICK k, r : Moves(s, k, r)
  OBVIOUS
<1>2. Accepting' = Accepting
  BY <1>1 DEF Moves, Accepting
<1>3. \A q \in Slots : q # s => Sockets'[q] = Sockets[q]
  BY <1>1, Elsewhere
<1>4. FreeSlots \subseteq FreeSlots'
  BY <1>3 DEF FreeSlots, AliveInv
<1> QED
  BY <1>2, <1>4, RoomFrame

\* Every step keeps the channels and the slots together.
LEMMA ChannelStep ==
  ASSUME Types, AliveInv, CallInv, ChannelInv, RoomInv, Tidy, [Next]_vars
  PROVE  ChannelInv'
<1>1. ASSUME NEW type \in TYPES, NetSocket(type) PROVE ChannelInv'
  <2>1. PICK s \in FreeSlots : \E k \in Socket : Moves(s, k, "new") /\ k.ul = NoUl
    BY <1>1, SocketEffect
  <2>2. PICK k \in Socket : Moves(s, k, "new") /\ k.ul = NoUl
    BY <2>1
  <2>3. s \in Slots /\ ~Attached(s)
    BY DEF FreeSlots, AliveInv, Attached, Open
  <2>4. UNCHANGED WifiChannel /\ k.ul \notin Channels /\ "new" \notin Holding
    BY <1>1, <2>2, SocketEffect, SlotNumbers DEF Holding
  <2> QED
    BY <2>2, <2>3, <2>4, ChannelApart
<1>2. ASSUME NEW s \in Slots, NetBind(s) PROVE ChannelInv'
  <2>1. role[s] = "new" /\ role[s] \notin Holding
    BY <1>2, BindEffect DEF Holding
  <2>2. PICK k \in Socket :
          /\ Moves(s, k, "new") /\ SameLine(s, k)
          /\ \/ Unattached(s, k)
             \/ \E i \in Channels : \E c \in WIFI_Channel : \E d \in WIFI_Channel :
                  /\ Works(s, i, c, d) /\ k.ul = i
                  /\ d.type = c.type /\ d.running = c.running
                  /\ d.status \in {c.status, c.status \cup {"BIND"}}
    BY <1>2, BindEffect
  <2>3. CASE Unattached(s, k)
    BY <2>1, <2>2, <2>3, ChannelRefused
  <2>4. ASSUME NEW i \in Channels, NEW c \in WIFI_Channel, NEW d \in WIFI_Channel,
               Works(s, i, c, d), k.ul = i, d.type = c.type, d.running = c.running,
               d.status \in {c.status, c.status \cup {"BIND"}}
        PROVE  ChannelInv'
    <3>1. /\ Sole(s, i) /\ ~IsPeer(s) /\ Fits("new", Sockets[s], c) /\ Runs(c)
          /\ c.running = WifiChannel[i].running /\ WifiChannel' = [ WifiChannel EXCEPT ![i] = d ]
      BY <2>1, <2>4, ClaimsFits DEF Works
    <3>2. (Serves(d) <=> Serves(c)) /\ d.status # FREE
      BY <2>4, <3>1 DEF Serves, Fits, FREE
    <3>3. Fits("new", k, d) /\ Runs(d)
      BY <2>1, <2>2, <2>4, <3>1, <3>2 DEF Fits, Runs, SameLine
    <3>4. Takes(k, "new", i, d)
      BY <2>4, <3>3 DEF Takes
    <3> QED
      BY <2>2, <2>4, <3>1, <3>4, ChannelAlone
  <2> QED
    BY <2>2, <2>3, <2>4
<1>3. ASSUME NEW s \in Slots, NetListen(s) PROVE ChannelInv'
  <2>1. role[s] = "new" /\ Sockets[s].type = "STREAM" /\ ~Sockets[s].cloneserver
    BY <1>3, ListenEffect, TidyCalls
  <2>2. PICK r \in {"server", "new"} : \E i \in Channels : \E c \in WIFI_Channel : \E d \in WIFI_Channel :
          /\ Moves(s, Sockets[s], r) /\ Works(s, i, c, d) /\ Sockets[s].ul = i /\ c = WifiChannel[i]
          /\ d.type = c.type
          /\ r = "new" => d = c
          /\ r = "server" => /\ d.status = c.status \cup {"STARTED_SERVER"}
                             /\ d.running = c.running \cup {"server"}
    BY <1>3, ListenEffect
  <2>3. PICK i \in Channels : \E c \in WIFI_Channel : \E d \in WIFI_Channel :
          /\ Moves(s, Sockets[s], r) /\ Works(s, i, c, d) /\ Sockets[s].ul = i /\ c = WifiChannel[i]
          /\ d.type = c.type
          /\ r = "new" => d = c
          /\ r = "server" => /\ d.status = c.status \cup {"STARTED_SERVER"}
                             /\ d.running = c.running \cup {"server"}
    BY <2>2
  <2>4. PICK c \in WIFI_Channel : \E d \in WIFI_Channel :
          /\ Moves(s, Sockets[s], r) /\ Works(s, i, c, d) /\ Sockets[s].ul = i /\ c = WifiChannel[i]
          /\ d.type = c.type
          /\ r = "new" => d = c
          /\ r = "server" => /\ d.status = c.status \cup {"STARTED_SERVER"}
                             /\ d.running = c.running \cup {"server"}
    BY <2>3
  <2>5. PICK d \in WIFI_Channel :
          /\ Moves(s, Sockets[s], r) /\ Works(s, i, c, d) /\ Sockets[s].ul = i /\ c = WifiChannel[i]
          /\ d.type = c.type
          /\ r = "new" => d = c
          /\ r = "server" => /\ d.status = c.status \cup {"STARTED_SERVER"}
                             /\ d.running = c.running \cup {"server"}
    BY <2>4
  <2>6. /\ Sole(s, i) /\ ~IsPeer(s) /\ Fits("new", Sockets[s], c) /\ Runs(c)
        /\ c.running = WifiChannel[i].running /\ WifiChannel' = [ WifiChannel EXCEPT ![i] = d ]
    BY <2>1, <2>5, ClaimsFits DEF Works
  <2>7. CASE r = "new"
    <3>1. Takes(Sockets[s], "new", i, d)
      BY <2>5, <2>6, <2>7 DEF Takes
    <3> QED
      BY <2>5, <2>6, <2>7, <3>1, ChannelAlone
  <2>8. CASE r = "server"
    <3>1. Serves(d) /\ d.status # FREE /\ c.running = {} /\ d.running = {"server"}
      BY <2>1, <2>5, <2>6, <2>8 DEF Serves, Fits, FREE
    <3>2. Fits("server", Sockets[s], d)
      BY <2>1, <2>5, <2>6, <3>1 DEF Fits, Holding
    <3>3. Takes(Sockets[s], "server", i, d)
      BY <2>5, <3>1, <3>2 DEF Takes, Runs
    <3> QED
      BY <2>5, <2>6, <2>8, <3>1, <3>3, ChannelAlone
  <2> QED
    BY <2>7, <2>8
<1>4. ASSUME NEW s \in Slots, NetConnect(s) PROVE ChannelInv'
  <2>1. role[s] \in {"new", "failed"} /\ role[s] \notin Holding
    BY <1>4, ConnectEffect DEF Holding, MayConnect
  <2>2. role[s] = "new" /\ Attached(s) => ~Serves(WifiChannel[Sockets[s].ul])
    BY <1>4, ConnectEffect
  <2>3. PICK k \in Socket :
          /\ SameLine(s, k)
          /\ \/ Moves(s, k, role[s]) /\ Unattached(s, k)
             \/ \E i \in Channels : \E c \in WIFI_Channel : \E d \in WIFI_Channel :
                  /\ Works(s, i, c, d) /\ k.ul = i /\ d.type = c.type
                  /\ \/ Moves(s, k, "failed") /\ d = c
                     \/ /\ Moves(s, k, "client") /\ c.type = "STREAM"
                        /\ d.status = c.status \cup CONNECTED_RW
                        /\ d.running = c.running \cup {"client"}
    BY <1>4, ConnectEffect
  <2>4. CASE Moves(s, k, role[s]) /\ Unattached(s, k)
    BY <2>1, <2>4, ChannelRefused
  <2>5. ASSUME NEW i \in Channels, NEW c \in WIFI_Channel, NEW d \in WIFI_Channel,
               Works(s, i, c, d), k.ul = i, d.type = c.type,
               \/ Moves(s, k, "failed") /\ d = c
               \/ /\ Moves(s, k, "client") /\ c.type = "STREAM"
                  /\ d.status = c.status \cup CONNECTED_RW
                  /\ d.running = c.running \cup {"client"}
        PROVE  ChannelInv'
    <3>1. /\ Sole(s, i) /\ ~IsPeer(s) /\ Fits(role[s], Sockets[s], c) /\ Runs(c)
          /\ c.running = WifiChannel[i].running /\ WifiChannel' = [ WifiChannel EXCEPT ![i] = d ]
      BY <2>1, <2>5, ClaimsFits DEF Works
    <3>2. k.type = Sockets[s].type /\ k.cloneserver = Sockets[s].cloneserver
      BY <2>3 DEF SameLine
    <3>3. CASE Moves(s, k, "failed") /\ d = c
      <4>1. Fits("failed", k, d)
        BY <2>1, <3>1, <3>2, <3>3 DEF Fits, Holding
      <4>2. Takes(k, "failed", i, d)
        BY <2>5, <3>1, <3>3, <4>1 DEF Takes
      <4> QED
        BY <3>1, <3>3, <4>2, ChannelAlone
    <3>4. CASE /\ Moves(s, k, "client") /\ c.type = "STREAM"
               /\ d.status = c.status \cup CONNECTED_RW
               /\ d.running = c.running \cup {"client"}
      <4>1. ~Serves(c) /\ c.running = {} /\ k.type = "STREAM"
        BY <2>1, <3>1, <3>2, <3>4 DEF Fits
      <4>2. ~Serves(d) /\ d.status # FREE /\ d.running = {"client"}
        BY <3>4, <4>1 DEF Serves, CONNECTED_RW, FREE
      <4>3. Fits("client", k, d)
        BY <2>5, <3>4, <4>1, <4>2 DEF Fits, Holding
      <4>4. Takes(k, "client", i, d)
        BY <2>5, <4>2, <4>3 DEF Takes, Runs
      <4> QED
        BY <3>1, <3>4, <4>2, <4>4, ChannelAlone
    <3> QED
      BY <2>5, <3>3, <3>4
  <2> QED
    BY <2>3, <2>4, <2>5
<1>5. ASSUME NEW s \in Slots, NetConnectTlsFails(s) PROVE ChannelInv'
  <2>1. role[s] \in {"new", "failed"} /\ "none" \notin Holding
    BY <1>5, TlsFailsEffect DEF Holding, MayConnect
  <2>2. PICK k \in Socket : /\ Moves(s, k, "none")
          /\ \E i \in Channels : \E c \in WIFI_Channel : \E d \in WIFI_Channel :
                   /\ Works(s, i, c, d) /\ c.type = "STREAM"
                   /\ ~StopMayFail /\ ~Serves(c) =>
                        d.status = FREE /\ d.running = (c.running \cup {"client"}) \ {"client"}
    BY <1>5, TlsFailsEffect
  <2>3. ASSUME NEW i \in Channels, NEW c \in WIFI_Channel, NEW d \in WIFI_Channel,
               Works(s, i, c, d), c.type = "STREAM",
               ~StopMayFail /\ ~Serves(c) =>
                 d.status = FREE /\ d.running = (c.running \cup {"client"}) \ {"client"}
        PROVE  ChannelInv'
    <3>1. /\ Sole(s, i) /\ ~IsPeer(s) /\ Fits(role[s], Sockets[s], c)
          /\ WifiChannel' = [ WifiChannel EXCEPT ![i] = d ]
      BY <2>1, <2>3, ClaimsFits DEF Works
    <3>2. ~Serves(c) /\ c.running = {}
      BY <2>1, <2>3, <3>1 DEF Fits
    <3>3. d.status = FREE /\ d.running = {}
      BY <2>3, <3>2, TidyCalls
    <3>4. Drops(k, "none", d)
      BY <2>1, <3>3 DEF Drops
    <3> QED
      BY <2>2, <3>1, <3>3, <3>4, ChannelAlone
  <2> QED
    BY <2>2, <2>3
<1>6. ASSUME NEW s \in Slots, NetDatagram(s) PROVE ChannelInv'
  <2>1. role[s] = "new" /\ role[s] \notin Holding /\ Sockets[s].type = "DGRAM"
    BY <1>6, DatagramEffect DEF Holding
  <2>2. PICK k \in Socket :
          /\ Moves(s, k, "new") /\ SameLine(s, k)
          /\ \/ Unattached(s, k)
             \/ \E i \in Channels : \E c \in WIFI_Channel : \E d \in WIFI_Channel :
                  /\ Works(s, i, c, d) /\ k.ul = i /\ d.type = c.type
                  /\ d = c \/ SendsFirst(s, c, d) \/ WaitsFirst(s, c, d)
    BY <1>6, DatagramEffect
  <2>3. CASE Unattached(s, k)
    BY <2>1, <2>2, <2>3, ChannelRefused
  <2>4. ASSUME NEW i \in Channels, NEW c \in WIFI_Channel, NEW d \in WIFI_Channel,
               Works(s, i, c, d), k.ul = i, d.type = c.type,
               d = c \/ SendsFirst(s, c, d) \/ WaitsFirst(s, c, d)
        PROVE  ChannelInv'
    <3>1. /\ Sole(s, i) /\ ~IsPeer(s) /\ Fits("new", Sockets[s], c) /\ Runs(c)
          /\ c.running = WifiChannel[i].running /\ WifiChannel' = [ WifiChannel EXCEPT ![i] = d ]
          /\ Attached(s) => Sockets[s].ul = i /\ c = WifiChannel[i]
          /\ ~Attached(s) => ~Serves(c) /\ c.running = {}
      BY <2>1, <2>4, ClaimsFits DEF Works
    <3>2. k.type = "DGRAM" /\ k.cloneserver = Sockets[s].cloneserver /\ Sockets[s].type = k.type
      BY <2>1, <2>2 DEF SameLine
    <3>4. ASSUME SendsFirst(s, c, d)
          PROVE  Fits("new", k, d) /\ Runs(d) /\ ("peer" \in d.running => "peer" \in c.running)
      <4>0. Attached(s) => ~Serves(WifiChannel[Sockets[s].ul])
        BY <3>4, TidyCalls
      <4>1. ~Serves(c) /\ d.status = c.status \cup {"STARTED_CLIENT"} /\ d.running = c.running \cup {"client"}
        BY <3>1, <3>4, <4>0, TidyCalls
      <4>2. ~Serves(d) /\ d.status # FREE /\ "STARTED_CLIENT" \in d.status
        BY <4>1 DEF Serves, FREE
      <4>3. d.running \subseteq {"client"} /\ ("peer" \in d.running => "peer" \in c.running)
        BY <3>1, <4>1 DEF Runs
      <4>4. Fits("new", k, d)
        BY <2>4, <3>1, <3>2, <4>2 DEF Fits, Holding
      <4> QED
        BY <4>2, <4>3, <4>4 DEF Runs
    <3>5. ASSUME WaitsFirst(s, c, d)
          PROVE  Fits("new", k, d) /\ Runs(d) /\ ("peer" \in d.running => "peer" \in c.running)
      <4>1. /\ "client" \notin c.running /\ ~Sockets[s].cloneserver
            /\ d.status = c.status \cup {"STARTED_SERVER"} /\ d.running = c.running \cup {"server"}
        <5>1. /\ Attached(s) => "STARTED_CLIENT" \notin WifiChannel[Sockets[s].ul].status
              /\ ~Sockets[s].cloneserver
              /\ d.status = c.status \cup {"STARTED_SERVER"} /\ d.running = c.running \cup {"server"}
          BY <3>5, TidyCalls, Zenon
        <5>2. "client" \in c.running => "STARTED_CLIENT" \in c.status
          BY <3>1 DEF Fits
        <5>3. CASE Attached(s)
          BY <3>1, <5>1, <5>2, <5>3
        <5>4. CASE ~Attached(s)
          BY <3>1, <5>1, <5>4
        <5> QED
          BY <5>3, <5>4
      <4>2. Serves(d) /\ d.status # FREE
        BY <4>1 DEF Serves, FREE
      <4>3. "client" \notin d.running /\ ("peer" \in d.running => "peer" \in c.running)
        BY <4>1
      <4>4. Fits("new", k, d)
        BY <2>4, <3>1, <3>2, <4>1, <4>2, <4>3 DEF Fits, Holding
      <4> QED
        BY <4>2, <4>3, <4>4 DEF Runs
    <3>6. Fits("new", k, d) /\ Runs(d) /\ ("peer" \in d.running => "peer" \in c.running)
      <4>1. CASE d = c
        <5>1. Fits("new", k, c)
          BY <3>1, <3>2 DEF Fits
        <5> QED
          BY <3>1, <4>1, <5>1
      <4> QED
        BY <2>4, <3>4, <3>5, <4>1
    <3>7. Takes(k, "new", i, d)
      BY <2>4, <3>6 DEF Takes
    <3> QED
      BY <2>2, <2>4, <3>1, <3>6, <3>7, ChannelAlone
  <2> QED
    BY <2>2, <2>3, <2>4
<1>7. ASSUME NEW s \in Slots, NetSetSecure(s) PROVE ChannelInv'
  <2>1. PICK k : Moves(s, k, role[s]) /\ SameLine(s, k) /\ k.ul = Sockets[s].ul
    BY <1>7, SetSecureEffect
  <2>2. role' = role
    BY <2>1 DEF Moves, Types
  <2>3. \A q \in Slots : Sockets'[q].ul = Sockets[q].ul /\ SameLine(q, Sockets'[q])
    BY <2>1, Elsewhere DEF SameLine
  <2> QED
    BY <1>7, <2>2, <2>3, ChannelFrame, SetSecureEffect
<1>8. ASSUME NEW s \in Slots, NetSetTlsOption(s) PROVE ChannelInv'
  <2>1. PICK k : Moves(s, k, role[s]) /\ SameLine(s, k) /\ k.ul = Sockets[s].ul
    BY <1>8, TlsOptionEffect
  <2>2. role' = role
    BY <2>1 DEF Moves, Types
  <2>3. \A q \in Slots : Sockets'[q].ul = Sockets[q].ul /\ SameLine(q, Sockets'[q])
    BY <2>1, Elsewhere DEF SameLine
  <2> QED
    BY <1>8, <2>2, <2>3, ChannelFrame, TlsOptionEffect
<1>9. ASSUME NEW s \in Slots, NetClose(s) PROVE ChannelInv'
  <2>1. Open(s) /\ (role[s] = "server" => Accepted(s) = {}) /\ "none" \notin Holding
    BY <1>9, CloseEffect, TidyCalls DEF Holding
  <2>2. PICK k \in Socket : /\ Moves(s, k, "none") /\ Cleans(s, k)
              /\ \/ Unattached(s, k)
                 \/ \E i \in Channels : \E d \in WIFI_Channel :
                      /\ Works(s, i, WifiChannel[i], d) /\ Sockets[s].ul = i
                      /\ d.type = WifiChannel[i].type
                      /\ Serves(WifiChannel[i]) /\ Sockets[s].cloneserver =>
                           /\ d.status = {"STARTED_SERVER"}
                           /\ d.running = WifiChannel[i].running \ {"peer"}
                      /\ Serves(WifiChannel[i]) /\ ~Sockets[s].cloneserver =>
                           d.status = FREE /\ d.running = WifiChannel[i].running \ {"server", "peer"}
                      /\ ~Serves(WifiChannel[i]) =>
                           d.status = FREE /\ d.running = WifiChannel[i].running \ {"client"}
    BY <1>9, CloseEffect, TidyCalls
  <2>3. CASE Unattached(s, k)
    BY <2>1, <2>2, <2>3, ChannelRefused
  <2>4. ASSUME NEW i \in Channels, NEW d \in WIFI_Channel,
               Works(s, i, WifiChannel[i], d), Sockets[s].ul = i, d.type = WifiChannel[i].type,
               Serves(WifiChannel[i]) /\ Sockets[s].cloneserver =>
                 d.status = {"STARTED_SERVER"} /\ d.running = WifiChannel[i].running \ {"peer"},
               Serves(WifiChannel[i]) /\ ~Sockets[s].cloneserver =>
                 d.status = FREE /\ d.running = WifiChannel[i].running \ {"server", "peer"},
               ~Serves(WifiChannel[i]) =>
                 d.status = FREE /\ d.running = WifiChannel[i].running \ {"client"}
        PROVE  ChannelInv'
    <3> DEFINE c == WifiChannel[i]
    <3>1. Attached(s) /\ Channel(s) = c /\ Fits(role[s], Sockets[s], c) /\ Runs(c)
          /\ WifiChannel' = [ WifiChannel EXCEPT ![i] = d ] /\ role[s] \in Roles
      BY <2>1, <2>4, AttachedTo, SlotFields DEF Channel, ChannelInv, FitsInv, RunsInv, Works
    <3>2. CASE IsPeer(s)
      <4>1. Serves(c) /\ role[s] \in {"accepted", "shut"} /\ Sockets[s].cloneserver
        BY <3>1, <3>2 DEF IsPeer, Fits
      <4>2. Serves(d) /\ d.running \subseteq c.running /\ "peer" \notin d.running
        BY <2>4, <4>1 DEF Serves
      <4> QED
        BY <2>2, <2>4, <3>1, <3>2, <4>2, ChannelPeer
    <3>3. CASE ~IsPeer(s)
      <4>1. Sole(s, i)
        BY <2>1, <2>4, <3>1, <3>3, SoleOwner
      <4>2. Serves(c) => ~Sockets[s].cloneserver
        <5>1. Serves(c) => role[s] \notin {"accepted", "shut", "client", "none"}
          BY <2>1, <3>1, <3>3 DEF IsPeer, Fits, Open
        <5> QED
          BY <3>1, <5>1 DEF Fits, Roles
      <4>3. c.running \subseteq {"client", "server", "peer"}
        BY DEF Types, WIFI_Channel
      <4>4. d.status = FREE /\ d.running = {}
        BY <2>4, <3>1, <4>2, <4>3 DEF Runs
      <4>5. Drops(k, "none", d)
        BY <2>1, <4>4 DEF Drops
      <4> QED
        BY <2>2, <3>1, <3>3, <4>1, <4>4, <4>5, ChannelAlone
    <3> QED
      BY <3>2, <3>3
  <2> QED
    BY <2>2, <2>3, <2>4
<1>10. ASSUME NEW s \in Slots, NEW flags \in ShutdownModes, NetShutdown(s, flags) PROVE ChannelInv'
  <2>1. /\ role[s] \in {"client", "accepted", "server"} /\ role[s] \in Holding
        /\ role[s] = "server" => Accepted(s) = {}
    BY <1>10, ShutdownEffect, TidyCalls DEF Holding
  <2>2. PICK k \in Socket : \E i \in Channels : \E d \in WIFI_Channel :
              /\ Moves(s, k, IF role[s] = "server" THEN "server" ELSE "shut")
              /\ Cleans(s, k) /\ k.ul = i
              /\ Works(s, i, WifiChannel[i], d) /\ Sockets[s].ul = i
              /\ d.type = WifiChannel[i].type /\ d.running = WifiChannel[i].running
              /\ \/ d.status = WifiChannel[i].status
                 \/ /\ "CONNECTED" \in WifiChannel[i].status
                    /\ d.status = WifiChannel[i].status \ flags
    BY <1>10, ShutdownEffect
  <2>3. PICK i \in Channels : \E d \in WIFI_Channel :
              /\ Moves(s, k, IF role[s] = "server" THEN "server" ELSE "shut")
              /\ Cleans(s, k) /\ k.ul = i
              /\ Works(s, i, WifiChannel[i], d) /\ Sockets[s].ul = i
              /\ d.type = WifiChannel[i].type /\ d.running = WifiChannel[i].running
              /\ \/ d.status = WifiChannel[i].status
                 \/ /\ "CONNECTED" \in WifiChannel[i].status
                    /\ d.status = WifiChannel[i].status \ flags
    BY <2>2
  <2> DEFINE c == WifiChannel[i]
             r == IF role[s] = "server" THEN "server" ELSE "shut"
  <2>4. PICK d \in WIFI_Channel :
              /\ Moves(s, k, r) /\ Cleans(s, k) /\ k.ul = i
              /\ Works(s, i, c, d) /\ Sockets[s].ul = i
              /\ d.type = c.type /\ d.running = c.running
              /\ \/ d.status = c.status
                 \/ "CONNECTED" \in c.status /\ d.status = c.status \ flags
    BY <2>3
  <2>5. Attached(s) /\ Channel(s) = c /\ Fits(role[s], Sockets[s], c) /\ Runs(c)
        /\ WifiChannel' = [ WifiChannel EXCEPT ![i] = d ]
    BY <2>1, <2>4, AttachedTo DEF Open, Channel, ChannelInv, FitsInv, RunsInv, Works
  <2>6. flags \subseteq {"SEND_OK", "RECV_OK"}
    BY DEF ShutdownModes
  <2>7. (Serves(d) <=> Serves(c)) /\ d.status # FREE
    BY <2>4, <2>5, <2>6 DEF Serves, Fits, FREE
  <2>8. SameLine(s, k) /\ k.type = Sockets[s].type /\ k.cloneserver = Sockets[s].cloneserver
    BY <2>4 DEF Cleans, SameLine
  <2>9. CASE role[s] = "accepted"
    <3>1. IsPeer(s) /\ "peer" \in c.running /\ Serves(c)
      BY <2>5, <2>9 DEF IsPeer, Fits
    <3> QED
      BY <2>4, <2>5, <2>7, <2>8, <2>9, <3>1, ChannelPeer
  <2>10. CASE role[s] = "server"
    <3>1. ~IsPeer(s) /\ Serves(c) /\ Sole(s, i)
      BY <2>1, <2>4, <2>5, <2>10, SoleOwner DEF IsPeer, Fits
    <3>2. Fits("server", k, d) /\ Runs(d)
      BY <2>4, <2>5, <2>7, <2>8, <2>10, <3>1 DEF Fits, Runs, Holding
    <3>3. Takes(k, "server", i, d)
      BY <2>4, <3>2 DEF Takes
    <3> QED
      BY <2>4, <2>5, <2>10, <3>1, <3>3, ChannelAlone
  <2>11. CASE role[s] = "client"
    <3>1. ~IsPeer(s) /\ ~Serves(c) /\ Sole(s, i) /\ ~Serves(d)
      BY <2>4, <2>5, <2>7, <2>11, SoleOwner DEF IsPeer, Fits
    <3>2. Fits("shut", k, d) /\ Runs(d)
      BY <2>4, <2>5, <2>7, <2>8, <2>11, <3>1 DEF Fits, Runs, Holding
    <3>3. Takes(k, "shut", i, d)
      BY <2>4, <3>1, <3>2 DEF Takes
    <3> QED
      BY <2>4, <2>5, <2>11, <3>1, <3>3, ChannelAlone
  <2> QED
    BY <2>1, <2>9, <2>10, <2>11
<1>11. ASSUME NEW t \in Waiters, AcceptReturns(t) PROVE ChannelInv'
  <2> DEFINE s == busy[t].fd
  <2>1. /\ s \in Slots /\ role[s] = "server" /\ t \in Accepting
        /\ busy' = [ busy EXCEPT ![t] = NoCall ] /\ heap' = heap
    BY <1>11, AcceptEffect DEF CallInv, Accepting
  <2>2. PICK i \in Channels : \E d \in WIFI_Channel :
              /\ Sockets[s].ul = i /\ Works(s, i, WifiChannel[i], d)
              /\ \/ UNCHANGED << Sockets, role >> /\ d = WifiChannel[i]
                 \/ /\ Clones(s, FirstFreeSlot)
                    /\ d.type = WifiChannel[i].type
                    /\ d.status = WifiChannel[i].status \cup (CONNECTED_RW \cup {"STARTED_SERVER"})
                    /\ d.running = WifiChannel[i].running \cup {"peer"}
                    /\ "server" \in WifiChannel[i].running /\ "peer" \notin WifiChannel[i].running
    BY <1>11, AcceptEffect
  <2>3. PICK d \in WIFI_Channel :
              /\ Sockets[s].ul = i /\ Works(s, i, WifiChannel[i], d)
              /\ \/ UNCHANGED << Sockets, role >> /\ d = WifiChannel[i]
                 \/ /\ Clones(s, FirstFreeSlot)
                    /\ d.type = WifiChannel[i].type
                    /\ d.status = WifiChannel[i].status \cup (CONNECTED_RW \cup {"STARTED_SERVER"})
                    /\ d.running = WifiChannel[i].running \cup {"peer"}
                    /\ "server" \in WifiChannel[i].running /\ "peer" \notin WifiChannel[i].running
    BY <2>2
  <2>4. WifiChannel' = [ WifiChannel EXCEPT ![i] = d ]
    BY <2>3 DEF Works
  <2>5. CASE UNCHANGED << Sockets, role >> /\ d = WifiChannel[i]
    <3>1. UNCHANGED WifiChannel
      BY <2>4, <2>5 DEF Types
    <3> QED
      BY <2>5, <3>1, ChannelFrame DEF SameLine
  <2>6. CASE /\ Clones(s, FirstFreeSlot)
             /\ d.type = WifiChannel[i].type
             /\ d.status = WifiChannel[i].status \cup (CONNECTED_RW \cup {"STARTED_SERVER"})
             /\ d.running = WifiChannel[i].running \cup {"peer"}
             /\ "server" \in WifiChannel[i].running /\ "peer" \notin WifiChannel[i].running
    <3>1. "full table" \in Liberties \/ FirstFreeSlot # {}
      BY <2>1, RoomIsThere
    <3> QED
      BY <2>1, <2>3, <2>4, <2>6, <3>1, ChannelAccept
  <2> QED
    BY <2>3, <2>5, <2>6
<1>12. ASSUME NEW t \in Waiters, RecvReturns(t) PROVE ChannelInv'
  BY <1>12, ChannelFrame DEF RecvReturns, Return, SameLine
<1>13. ASSUME NEW t \in Waiters, SendReturns(t) PROVE ChannelInv'
  BY <1>13, ChannelFrame DEF SendReturns, Return, SameLine
<1>14. ASSUME NEW t \in Waiters, NEW s \in Slots, NetAccept(t, s) PROVE ChannelInv'
  BY <1>14, ChannelFrame DEF NetAccept, Wait, SameLine
<1>15. ASSUME NEW t \in Waiters, NEW s \in Slots, NetRecv(t, s) PROVE ChannelInv'
  BY <1>15, ChannelFrame DEF NetRecv, Wait, SameLine
<1>16. ASSUME NEW t \in Waiters, NEW s \in Slots, NetSend(t, s) PROVE ChannelInv'
  BY <1>16, ChannelFrame DEF NetSend, Wait, SameLine
<1>17. ASSUME UNCHANGED vars PROVE ChannelInv'
  BY <1>17, ChannelFrame DEF vars, SameLine
<1> QED
  BY <1>1, <1>2, <1>3, <1>4, <1>5, <1>6, <1>7, <1>8, <1>9, <1>10, <1>11, <1>12, <1>13, <1>14,
     <1>15, <1>16, <1>17, Zenon DEF Next

\* Every step leaves room for the connections that are waited for.
LEMMA RoomStep ==
  ASSUME Types, AliveInv, AliveInv', CallInv, RoomInv, [Next]_vars
  PROVE  RoomInv'
<1>1. ASSUME NEW type \in TYPES, NetSocket(type) PROVE RoomInv'
  <2>1. PICK s \in FreeSlots : \E k \in Socket : Moves(s, k, "new")
    BY <1>1, SocketEffect
  <2>2. PICK k \in Socket : Moves(s, k, "new")
    BY <2>1
  <2>3. s \in Slots
    BY DEF FreeSlots
  <2>4. Accepting' = Accepting
    BY <2>2 DEF Moves, Accepting
  <2>5. \A q \in Slots : q # s => Sockets'[q] = Sockets[q]
    BY <2>2, <2>3, Elsewhere
  <2>6. FreeSlots \ {s} \subseteq FreeSlots'
    BY <2>5 DEF FreeSlots
  <2> SUFFICES ASSUME "full table" \notin Liberties
               PROVE  IsFiniteSet(Accepting') /\ Cardinality(Accepting') <= Cardinality(FreeSlots')
    BY DEF RoomInv
  <2>7. IsFiniteSet(Accepting) /\ Cardinality(FreeSlots) >= Cardinality(Accepting) + 1
    BY <1>1, SocketEffect, Zenon DEF RoomToAccept, Allows, RoomInv
  <2>8. Cardinality(Accepting) \in Nat
    BY <2>7, FS_CardinalityType
  <2>9. IsFiniteSet(FreeSlots \ {s}) /\ Cardinality(FreeSlots \ {s}) = Cardinality(FreeSlots) - 1
    BY FreeSlotsFinite, FS_RemoveElement
  <2>10. Cardinality(FreeSlots \ {s}) <= Cardinality(FreeSlots')
    BY <2>6, FreeSlotsFinite, FS_Subset
  <2>11. Cardinality(FreeSlots) \in Nat /\ Cardinality(FreeSlots') \in Nat
    BY FreeSlotsFinite
  <2>12. Cardinality(FreeSlots \ {s}) \in Nat
    BY <2>9, FS_CardinalityType
  <2>13. Cardinality(Accepting) <= Cardinality(FreeSlots \ {s})
    BY <2>7, <2>8, <2>9, <2>11, <2>12, SizeLess, Zenon
  <2>14. Cardinality(Accepting) <= Cardinality(FreeSlots')
    BY <2>8, <2>10, <2>11, <2>12, <2>13, SizeLeq, Zenon
  <2> QED
    BY <2>4, <2>7, <2>14
<1>2. ASSUME NEW s \in Slots, NetBind(s) PROVE RoomInv'
  <2>1. role[s] # "none"
    BY <1>2, BindEffect
  <2>2. \E k, r : Moves(s, k, r)
    BY <1>2, BindEffect
  <2> QED
    BY <2>1, <2>2, RoomMoves
<1>3. ASSUME NEW s \in Slots, NetListen(s) PROVE RoomInv'
  <2>1. role[s] # "none"
    BY <1>3, ListenEffect
  <2>2. \E k, r : Moves(s, k, r)
    BY <1>3, ListenEffect
  <2> QED
    BY <2>1, <2>2, RoomMoves
<1>4. ASSUME NEW s \in Slots, NetConnect(s) PROVE RoomInv'
  <2>1. role[s] # "none"
    BY <1>4, ConnectEffect DEF MayConnect
  <2>2. \E k, r : Moves(s, k, r)
    BY <1>4, ConnectEffect
  <2> QED
    BY <2>1, <2>2, RoomMoves
<1>5. ASSUME NEW s \in Slots, NetConnectTlsFails(s) PROVE RoomInv'
  <2>1. role[s] # "none"
    BY <1>5, TlsFailsEffect DEF MayConnect
  <2>2. \E k, r : Moves(s, k, r)
    BY <1>5, TlsFailsEffect
  <2> QED
    BY <2>1, <2>2, RoomMoves
<1>6. ASSUME NEW s \in Slots, NetDatagram(s) PROVE RoomInv'
  <2>1. role[s] # "none"
    BY <1>6, DatagramEffect
  <2>2. \E k, r : Moves(s, k, r)
    BY <1>6, DatagramEffect
  <2> QED
    BY <2>1, <2>2, RoomMoves
<1>7. ASSUME NEW s \in Slots, NetSetSecure(s) PROVE RoomInv'
  <2>1. role[s] # "none"
    BY <1>7, SetSecureEffect DEF MayConnect, MayBeSecured
  <2>2. \E k, r : Moves(s, k, r)
    BY <1>7, SetSecureEffect
  <2> QED
    BY <2>1, <2>2, RoomMoves
<1>8. ASSUME NEW s \in Slots, NetSetTlsOption(s) PROVE RoomInv'
  <2>1. role[s] # "none"
    BY <1>8, TlsOptionEffect
  <2>2. \E k, r : Moves(s, k, r)
    BY <1>8, TlsOptionEffect
  <2> QED
    BY <2>1, <2>2, RoomMoves
<1>9. ASSUME NEW s \in Slots, NetClose(s) PROVE RoomInv'
  <2>1. role[s] # "none"
    BY <1>9, CloseEffect DEF Open
  <2>2. \E k, r : Moves(s, k, r)
    BY <1>9, CloseEffect
  <2> QED
    BY <2>1, <2>2, RoomMoves
<1>10. ASSUME NEW s \in Slots, NEW flags \in ShutdownModes, NetShutdown(s, flags) PROVE RoomInv'
  <2>1. role[s] # "none"
    BY <1>10, ShutdownEffect
  <2>2. \E k, r : Moves(s, k, r)
    BY <1>10, ShutdownEffect
  <2> QED
    BY <2>1, <2>2, RoomMoves
<1>11. ASSUME NEW t \in Waiters, AcceptReturns(t) PROVE RoomInv'
  <2>1. /\ busy[t].fd \in Slots /\ t \in Accepting
        /\ busy' = [ busy EXCEPT ![t] = NoCall ]
        /\ UNCHANGED << Sockets, role >> \/ Clones(busy[t].fd, FirstFreeSlot)
    BY <1>11, AcceptEffect DEF Accepting
  <2>2. Accepting' = Accepting \ {t}
    BY <2>1 DEF Types, Accepting, NoCall
  <2>3. FreeSlots \ FirstFreeSlot \subseteq FreeSlots'
    <3>1. \A q \in FreeSlots \ FirstFreeSlot : Sockets'[q].status = "NOT_ALIVE"
      <4>1. CASE UNCHANGED << Sockets, role >>
        BY <4>1 DEF FreeSlots
      <4>2. CASE Clones(busy[t].fd, FirstFreeSlot)
        <5>1. role[busy[t].fd] = "server"
          BY <1>11 DEF AcceptReturns, CallInv
        <5> QED
          BY <4>2, <5>1 DEF Clones, FreeSlots, AliveInv
      <4> QED
        BY <2>1, <4>1, <4>2
    <3> QED
      BY <3>1 DEF FreeSlots
  <2>4. \E f : FreeSlots \ {f} \subseteq FreeSlots'
    <3>1. CASE FirstFreeSlot = {}
      BY <2>3, <3>1
    <3>2. CASE FirstFreeSlot # {}
      <4>1. PICK f \in FirstFreeSlot : TRUE
        BY <3>2
      <4>2. \A g \in FirstFreeSlot : g = f
        BY <4>1, OneFreeSlot
      <4> QED
        BY <2>3, <4>2
    <3> QED
      BY <3>1, <3>2
  <2>5. PICK f : FreeSlots \ {f} \subseteq FreeSlots'
    BY <2>4
  <2> SUFFICES ASSUME "full table" \notin Liberties
               PROVE  IsFiniteSet(Accepting') /\ Cardinality(Accepting') <= Cardinality(FreeSlots')
    BY DEF RoomInv
  <2>6. IsFiniteSet(Accepting) /\ Cardinality(Accepting) <= Cardinality(FreeSlots)
    BY DEF RoomInv
  <2>7. Cardinality(Accepting) \in Nat
    BY <2>6, FS_CardinalityType
  <2>8. IsFiniteSet(Accepting') /\ Cardinality(Accepting') = Cardinality(Accepting) - 1
    BY <2>1, <2>2, <2>6, FS_RemoveElement
  <2>11. /\ Cardinality(FreeSlots) \in Nat /\ Cardinality(FreeSlots') \in Nat
         /\ IsFiniteSet(FreeSlots) /\ IsFiniteSet(FreeSlots')
    BY FreeSlotsFinite
  <2>9. /\ IsFiniteSet(FreeSlots \ {f}) /\ Cardinality(FreeSlots \ {f}) >= Cardinality(FreeSlots) - 1
    <3>1. /\ IsFiniteSet(FreeSlots \ {f})
          /\ \/ Cardinality(FreeSlots \ {f}) = Cardinality(FreeSlots) - 1
             \/ Cardinality(FreeSlots \ {f}) = Cardinality(FreeSlots)
      BY <2>11, FS_RemoveElement
    <3>2. Cardinality(FreeSlots \ {f}) \in Nat
      BY <3>1, FS_CardinalityType
    <3> QED
      BY <2>11, <3>1, <3>2, SizeAtMostOneLess, Zenon
  <2>10. Cardinality(FreeSlots \ {f}) <= Cardinality(FreeSlots') /\ Cardinality(FreeSlots \ {f}) \in Nat
    BY <2>5, <2>9, <2>11, FS_Subset, FS_CardinalityType
  <2>12. Cardinality(Accepting') \in Nat
    BY <2>8, FS_CardinalityType
  <2>13. Cardinality(Accepting') <= Cardinality(FreeSlots \ {f})
    BY <2>6, <2>7, <2>8, <2>9, <2>10, <2>11, <2>12, SizeDrop, Zenon
  <2>14. Cardinality(Accepting') <= Cardinality(FreeSlots')
    BY <2>10, <2>11, <2>12, <2>13, SizeLeq, Zenon
  <2> QED
    BY <2>8, <2>14
<1>12. ASSUME NEW t \in Waiters, RecvReturns(t) PROVE RoomInv'
  <2>1. busy[t].op # "accept" /\ busy' = [ busy EXCEPT ![t] = NoCall ] /\ UNCHANGED << Sockets, role >>
    BY <1>12 DEF RecvReturns, Return
  <2>2. Accepting' = Accepting
    BY <2>1 DEF Types, Accepting, NoCall
  <2>3. FreeSlots' = FreeSlots
    BY <2>1 DEF FreeSlots
  <2> QED
    BY <2>2, <2>3, RoomFrame
<1>13. ASSUME NEW t \in Waiters, SendReturns(t) PROVE RoomInv'
  <2>1. busy[t].op # "accept" /\ busy' = [ busy EXCEPT ![t] = NoCall ] /\ UNCHANGED << Sockets, role >>
    BY <1>13 DEF SendReturns, Return
  <2>2. Accepting' = Accepting
    BY <2>1 DEF Types, Accepting, NoCall
  <2>3. FreeSlots' = FreeSlots
    BY <2>1 DEF FreeSlots
  <2> QED
    BY <2>2, <2>3, RoomFrame
<1>14. ASSUME NEW t \in Waiters, NEW s \in Slots, NetAccept(t, s) PROVE RoomInv'
  <2>1. /\ busy[t] = NoCall /\ UNCHANGED << Sockets, role >>
        /\ busy' = [ busy EXCEPT ![t] = [ op |-> "accept", fd |-> s, ctx |-> NULL ] ]
        /\ RoomToAccept(Cardinality(Accepting) + 1)
    BY <1>14, Zenon DEF NetAccept, Wait
  <2>2. Accepting' = Accepting \cup {t} /\ t \notin Accepting
    BY <2>1 DEF Types, Accepting, NoCall
  <2>3. FreeSlots' = FreeSlots
    BY <2>1 DEF FreeSlots
  <2> SUFFICES ASSUME "full table" \notin Liberties
               PROVE  IsFiniteSet(Accepting') /\ Cardinality(Accepting') <= Cardinality(FreeSlots')
    BY DEF RoomInv
  <2>4. IsFiniteSet(Accepting) /\ Cardinality(FreeSlots) >= Cardinality(Accepting) + 1
    BY <2>1, Zenon DEF RoomToAccept, Allows, RoomInv
  <2>5. IsFiniteSet(Accepting') /\ Cardinality(Accepting') = Cardinality(Accepting) + 1
    BY <2>2, <2>4, FS_AddElement
  <2>6. Cardinality(Accepting) \in Nat
    BY <2>4, FS_CardinalityType
  <2>7. Cardinality(FreeSlots) \in Nat
    BY FreeSlotsFinite
  <2> QED
    BY <2>3, <2>4, <2>5, <2>6, <2>7
<1>15. ASSUME NEW t \in Waiters, NEW s \in Slots, NetRecv(t, s) PROVE RoomInv'
  <2>1. /\ busy[t] = NoCall /\ UNCHANGED << Sockets, role >>
        /\ busy' = [ busy EXCEPT ![t] = [ op |-> "recv", fd |-> s, ctx |-> net_mbedtls_sock_recv(Sockets[s]) ] ]
    BY <1>15 DEF NetRecv, Wait
  <2>2. Accepting' = Accepting
    BY <2>1 DEF Types, Accepting, NoCall
  <2>3. FreeSlots' = FreeSlots
    BY <2>1 DEF FreeSlots
  <2> QED
    BY <2>2, <2>3, RoomFrame
<1>16. ASSUME NEW t \in Waiters, NEW s \in Slots, NetSend(t, s) PROVE RoomInv'
  <2>1. /\ busy[t] = NoCall /\ UNCHANGED << Sockets, role >>
        /\ busy' = [ busy EXCEPT ![t] = [ op |-> "send", fd |-> s, ctx |-> net_mbedtls_sock_send(Sockets[s]) ] ]
    BY <1>16 DEF NetSend, Wait
  <2>2. Accepting' = Accepting
    BY <2>1 DEF Types, Accepting, NoCall
  <2>3. FreeSlots' = FreeSlots
    BY <2>1 DEF FreeSlots
  <2> QED
    BY <2>2, <2>3, RoomFrame
<1>17. ASSUME UNCHANGED vars PROVE RoomInv'
  <2>1. Accepting' = Accepting /\ FreeSlots' = FreeSlots
    BY <1>17 DEF vars, Accepting, FreeSlots
  <2> QED
    BY <2>1, RoomFrame
<1> QED
  BY <1>1, <1>2, <1>3, <1>4, <1>5, <1>6, <1>7, <1>8, <1>9, <1>10, <1>11, <1>12, <1>13, <1>14,
     <1>15, <1>16, <1>17, Zenon DEF Next

\* At the start nobody waits for a connection.
LEMMA RoomInit == Init => RoomInv
<1> SUFFICES ASSUME Init
             PROVE  IsFiniteSet(Accepting) /\ Cardinality(Accepting) <= Cardinality(FreeSlots)
  BY DEF RoomInv
<1>1. Accepting = {}
  BY DEF Init, Accepting, NoCall
<1> QED
  BY <1>1, FS_EmptySet, FreeSlotsFinite

\* The inductive invariant, under the rules about channels.
LEMMA TidyInductive ==
  ASSUME Tidy
  PROVE  Spec => [](Types /\ AliveInv /\ CallInv /\ ChannelInv /\ RoomInv)
<1> DEFINE IInv == Types /\ AliveInv /\ CallInv /\ ChannelInv /\ RoomInv
<1>1. Init => IInv
  BY TypesInit, AliveInit, CallInit, ChannelInit, RoomInit
<1>2. IInv /\ [Next]_vars => IInv'
  <2> SUFFICES ASSUME IInv, [Next]_vars PROVE IInv'
    OBVIOUS
  <2>0. "close busy" \notin Liberties
    BY DEF Tidy
  <2>1. Types'
    BY TypesStep
  <2>2. AliveInv'
    BY AliveStep
  <2>3. CallInv'
    BY <2>0, CallStep
  <2>4. ChannelInv'
    BY ChannelStep
  <2>5. RoomInv'
    BY <2>2, RoomStep
  <2> QED
    BY <2>1, <2>2, <2>3, <2>4, <2>5
<1> QED
  BY <1>1, <1>2, PTL DEF Spec

\* Every channel the driver has given away belongs to an open slot: es_wifi has as many channels
\* as ESWIFI_MAX_CHANNEL_NBR, and one no socket closes is gone until the module restarts.
\* It needs rules the code leaves to its caller, and a module that stops what it is told to.
THEOREM NoChannelLost == ASSUME Tidy PROVE Spec => []ChannelOwned
<1>1. ASSUME ChannelInv PROVE ChannelOwned
  BY <1>1 DEF ChannelInv, RunsInv, OwnerInv, Runs, ChannelOwned
<1> QED
  BY <1>1, TidyInductive, PTL

\* A socket that listens, is connected or was accepted has a channel of the driver that is not
\* free: net_closesocket on a listener's copy leaves the listener its channel, and a channel is
\* not given to a second socket.
THEOREM ChannelsAreHeld == ASSUME Tidy PROVE Spec => []ChannelHeld
<1>1. ASSUME Types, ChannelInv PROVE ChannelHeld
  <2>1. ASSUME NEW s \in Slots, Attached(s) PROVE WifiChannel[Sockets[s].ul].status # FREE
    BY <1>1, <2>1 DEF ChannelInv, FitsInv, Fits, Channel
  <2>2. ASSUME NEW s \in Slots, Attached(s), NEW r \in Slots \ {s}, Attached(r),
               Sockets[r].ul = Sockets[s].ul
        PROVE  Sockets[s].cloneserver # Sockets[r].cloneserver
    <3>1. IsPeer(r) \/ IsPeer(s)
      BY <1>1, <2>2 DEF ChannelInv, PairInv
    <3> QED
      BY <1>1, <2>2, <3>1, BesidePeer
  <2> QED
    BY <2>1, <2>2 DEF ChannelHeld
<1> QED
  BY <1>1, TidyInductive, PTL

\* A socket net_accept returned is on a channel whose peer the module still has: a listener and
\* its copies share one channel entry, which es_wifi_close resets for both.
THEOREM AcceptedCanTalk == ASSUME Tidy PROVE Spec => []AcceptedTalks
<1>1. ASSUME Types, ChannelInv PROVE AcceptedTalks
  <2>1. ASSUME NEW s \in Slots, role[s] = "accepted"
        PROVE  /\ "SEND_OK" \in Channel(s).status /\ "RECV_OK" \in Channel(s).status /\ "peer" \in Channel(s).running
    <3>1. Attached(s)
      BY <1>1, <2>1, AttachedTo DEF ChannelInv, FitsInv, Holding, Open
    <3> QED
      BY <1>1, <2>1, <3>1 DEF ChannelInv, FitsInv, Fits
  <2>2. ASSUME NEW c, NEW flag \in c.status PROVE \E o \in es_wifi_transfer(c, flag) : o.ok
    <3>1. [ channel |-> c, ok |-> TRUE ] \in es_wifi_transfer(c, flag)
      BY <2>2 DEF es_wifi_transfer, Returns
    <3>2. [ channel |-> c, ok |-> TRUE ].ok
      OBVIOUS
    <3> QED
      BY <3>1, <3>2, Zenon
  <2> QED
    BY <2>1, <2>2 DEF AcceptedTalks, Channel
<1> QED
  BY <1>1, TidyInductive, PTL

\* A connection the module has accepted has a socket: net_accept takes the connection from the
\* module before it looks for a free slot, so the table must have one for every accept that
\* waits.
THEOREM PeersHaveSockets ==
  ASSUME Tidy, "full table" \notin Liberties PROVE Spec => []PeerHasSocket
<1>1. ASSUME Types, ChannelInv PROVE PeerHasSocket
  <2>1. ASSUME NEW i \in Channels, "peer" \in WifiChannel[i].running
        PROVE  \E s \in Slots : Open(s) /\ Sockets[s].ul = i /\ Sockets[s].cloneserver
    <3>1. PICK s \in Slots : Sockets[s].ul = i /\ IsPeer(s)
      BY <1>1, <2>1 DEF ChannelInv, PeerInv
    <3>2. Attached(s) /\ role[s] \in {"accepted", "shut"} /\ Serves(Channel(s)) /\ Open(s)
      BY <3>1 DEF IsPeer, Attached
    <3>3. Sockets[s].cloneserver
      BY <1>1, <3>2 DEF ChannelInv, FitsInv, Fits
    <3> QED
      BY <3>1, <3>2, <3>3
  <2> QED
    BY <2>1 DEF PeerHasSocket
<1> QED
  BY <1>1, TidyInductive, PTL
=============================================================================
