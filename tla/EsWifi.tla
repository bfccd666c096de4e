------------------------------- MODULE EsWifi -------------------------------
(***************************************************************************)
(* The socket calls of the Inventek WiFi driver, netif/wifi_if/es_wifi/    *)
(* net_es_wifi.c, as operators on one entry of WifiChannel[]: each returns *)
(* the set of outcomes the call may have, the entry it leaves and whether  *)
(* it returns zero or more.                                                *)
(*                                                                         *)
(* running is what the WiFi module itself does on the channel; its         *)
(* firmware is external.  A server of the module has one connection at a   *)
(* time ("SingleConn"): it accepts none while one is open.  Addresses,     *)
(* ports, timeouts and the data itself are left out.                       *)
(***************************************************************************)
EXTENDS Naturals

CONSTANTS
  ESWIFI_MAX_CHANNEL_NBR,
  StopMayFail    \* may the module refuse to stop what it runs?

ASSUME EsWifiAssumption ==
  ESWIFI_MAX_CHANNEL_NBR \in Nat \ {0} /\ StopMayFail \in BOOLEAN

Channels == 0 .. ESWIFI_MAX_CHANNEL_NBR - 1

\* The bits of the status; a channel is free if it has none.
FLAGS == { "ALLOCATED", "BIND", "SEND_OK", "RECV_OK", "CONNECTED",
           "STARTED_CLIENT", "STARTED_SERVER" }

FREE         == {}
CONNECTED_RW == { "CONNECTED", "SEND_OK", "RECV_OK" }

TYPES == { "STREAM", "DGRAM" }

WIFI_Channel == [ status : SUBSET FLAGS, type : TYPES,
                  running : SUBSET {"client", "server", "peer"} ]

\* es_wifi_if_probe
ProbedChannel == [ status |-> FREE, type |-> "STREAM", running |-> {} ]

Returns(c) == { [ channel |-> c, ok |-> TRUE ] }
Fails(c)   == { [ channel |-> c, ok |-> FALSE ] }

Set(c, flags)   == [ c EXCEPT !.status = @ \cup flags ]
Clear(c, flags) == [ c EXCEPT !.status = @ \ flags ]

-----------------------------------------------------------------------------
(* The WiFi module, external.                                              *)

\* It starts something, or it does not.
Starts(c, what, flags) ==
  Returns([ Set(c, flags) EXCEPT !.running = @ \cup {what} ]) \cup Fails(c)

\* It stops what it runs, or refuses; the driver sets the status all the same.
Stops(c, what, status) ==
  Returns([ c EXCEPT !.status = status, !.running = @ \ what ])
    \cup (IF StopMayFail THEN Fails([ c EXCEPT !.status = status ]) ELSE {})

-----------------------------------------------------------------------------

\* The channels es_wifi_socket takes: the first that is free, if there is one.
FirstFree(channels) ==
  { i \in Channels : /\ channels[i].status = FREE
                     /\ \A j \in Channels : j < i => channels[j].status # FREE }

\* What es_wifi_socket makes of it.  A datagram socket may talk at once.
es_wifi_socket(c, type) ==
  [ c EXCEPT !.type = type,
             !.status = {"ALLOCATED"} \cup (IF type = "DGRAM" THEN {"SEND_OK", "RECV_OK"} ELSE {}) ]

\* A stream socket is bound before anything else happens to it.
es_wifi_bind(c) ==
  IF c.status = {"ALLOCATED"} \/ ("ALLOCATED" \in c.status /\ c.type = "DGRAM")
  THEN Returns(Set(c, {"BIND"})) ELSE Fails(c)

es_wifi_listen(c) == Starts(c, "server", {"STARTED_SERVER"})

\* The accepted connection is on the channel of the listener.
es_wifi_accept(c) ==
  { o \in Starts(c, "peer", CONNECTED_RW \cup {"STARTED_SERVER"}) :
      o.ok => "server" \in c.running /\ "peer" \notin c.running }

\* A datagram socket cannot be connected.
es_wifi_connect(c) ==
  IF c.type = "STREAM" THEN Starts(c, "client", CONNECTED_RW) ELSE Fails(c)

es_wifi_shutdown(c, flags) ==
  Returns(IF "CONNECTED" \in c.status THEN Clear(c, flags) ELSE c)

es_wifi_close_ClientOnly(c, isaclone) == Stops(c, {"client"}, FREE)

es_wifi_close_IgnoresClone(c, isaclone) ==
  IF "STARTED_SERVER" \in c.status
  THEN Stops(c, {"server", "peer"}, FREE)
  ELSE Stops(c, {"client"}, FREE)

\* Closing an accepted socket leaves the channel to the listener.
es_wifi_close(c, isaclone) ==
  IF "STARTED_SERVER" \in c.status
  THEN IF isaclone THEN Stops(c, {"peer"}, {"STARTED_SERVER"})
                   ELSE Stops(c, {"server", "peer"}, FREE)
  ELSE Stops(c, {"client"}, FREE)

\* es_wifi_send, es_wifi_recv: the module may fail where the driver does not.
es_wifi_transfer(c, flag) ==
  Fails(c) \cup (IF flag \in c.status THEN Returns(c) ELSE {})

\* The first datagram sent starts a client on the channel, the first one
\* waited for a server; both may run.
es_wifi_datagram(c, flag, started, what) ==
  IF c.type # "DGRAM" \/ flag \notin c.status THEN Fails(c)
  ELSE IF started \in c.status THEN Returns(c) \cup Fails(c)
  ELSE Fails(Set([ c EXCEPT !.running = @ \cup {what} ], {started}))
         \cup Starts(c, what, {started})

es_wifi_sendto(c)   == es_wifi_datagram(c, "SEND_OK", "STARTED_CLIENT", "client")
es_wifi_recvfrom(c) == es_wifi_datagram(c, "RECV_OK", "STARTED_SERVER", "server")
=============================================================================
