-------------------------------- MODULE Sdhcp --------------------------------
(***************************************************************************)
(* The DHCP server of the soft access point, services/net_sdhcp.c: the     *)
(* table of leases and sdhcp_process_request, which reads and writes it.   *)
(* The table lives as long as the service.  An address is its last byte.   *)
(*                                                                         *)
(* The clients (RFC 2131) and the network are external.  A datagram stays  *)
(* in net and may be received again or never: duplicated, delayed,         *)
(* reordered and lost datagrams are all covered.  A client takes no reply  *)
(* but to its last transaction, xid.                                       *)
(***************************************************************************)
EXTENDS Integers, FiniteSets

CONSTANTS
  Clients,        \* client identifiers: option 61, or else chaddr
  MIN_IP, MAX_IP, \* first and last address of the pool
  MAX_XID,        \* bound on the transactions of each client
  NoClient        \* the owner of an entry that was never written

MAX_ADDRESS_INFO == MAX_IP - MIN_IP

ASSUME SdhcpAssumption ==
  /\ IsFiniteSet(Clients) /\ NoClient \notin Clients
  /\ MIN_IP \in Nat /\ MAX_IP \in Nat
  /\ MAX_XID \in [ Clients -> Nat ]
  /\ MAX_ADDRESS_INFO + 1 < MIN_IP /\ MIN_IP < MAX_IP

Pool == MIN_IP .. MAX_IP
None == 0                   \* no address: an absent option, or ciaddr = 0

\* szAddressInfo once it was overwritten by an address 192.168.x.y: more than
\* MAX_ADDRESS_INFO as it is, less than zero as an int32_t.
Overwritten == -1

VARIABLES
  szAddressInfo,
  tAddressInfo,   \* the entries, and the memory behind the last one
  net,            \* every datagram ever sent
  phase, lease, xid   \* of each client

server == << szAddressInfo, tAddressInfo >>
client == << phase, lease, xid >>
vars   == << server, net, client >>

Phases == { "init", "selecting", "requesting", "bound", "checking" }
Free   == [ addrV4 |-> None, client |-> NoClient ]
Index  == 0 .. MAX_ADDRESS_INFO

Init ==
  /\ szAddressInfo = 0 /\ tAddressInfo = [ i \in Index |-> Free ]
  /\ net = {}
  /\ phase = [ c \in Clients |-> "init" ]
  /\ lease = [ c \in Clients |-> None ]
  /\ xid = [ c \in Clients |-> 0 ]

-----------------------------------------------------------------------------
(* The table.                                                              *)

\* The entries sdhcp_find_index looks at; it stops at the first that matches.
Entries == { i \in Index : i < szAddressInfo }

\* addrV4 of the entry behind the last one is the memory of szAddressInfo.
AddrOf(i) == IF i = MAX_ADDRESS_INFO THEN szAddressInfo ELSE tAddressInfo[i].addrV4

Seen(c) == { i \in Entries : tAddressInfo[i].client = c }

OfferAddr(c) == AddrOf(CHOOSE i \in Seen(c) : \A j \in Seen(c) : i <= j)

Available_SkipsNone == Pool

Available == { a \in Pool : \A i \in Entries : AddrOf(i) # a }

AddInfo_TwiceTooMany(c, a) ==
  /\ szAddressInfo \in Index
  /\ tAddressInfo' = [ tAddressInfo EXCEPT ![szAddressInfo] = [ addrV4 |-> a, client |-> c ] ]
  /\ szAddressInfo' = szAddressInfo + 2

\* sdhcp_addInfo.  The bound it checks is one too large: the entry behind the
\* last one overwrites szAddressInfo, which the compiler may have read already.
AddInfo(c, a) ==
  /\ szAddressInfo \in 0 .. MAX_ADDRESS_INFO
  /\ tAddressInfo' = [ tAddressInfo EXCEPT ![szAddressInfo] = [ addrV4 |-> a, client |-> c ] ]
  /\ \/ szAddressInfo' = szAddressInfo + 1
     \/ szAddressInfo = MAX_ADDRESS_INFO /\ szAddressInfo' = Overwritten

-----------------------------------------------------------------------------
(* sdhcp_process_request.                                                  *)

Reply(m, type, a) ==
  net' = net \cup { [ type |-> type, to |-> m.from, xid |-> m.xid, addr |-> a ] }

ProcessDiscover_RegistersAgain(m) ==
  /\ m.type = "DISCOVER"
  /\ \E a \in Available :
       /\ \A b \in Available : a <= b
       /\ AddInfo(m.from, a)
       /\ Reply(m, "OFFER", a)

\* A client that is known is offered its address again, another one the lowest
\* address that is not in the table.
ProcessDiscover(m) ==
  /\ m.type = "DISCOVER"
  /\ \/ /\ Seen(m.from) # {}
        /\ Reply(m, "OFFER", OfferAddr(m.from))
        /\ UNCHANGED << szAddressInfo, tAddressInfo >>
     \/ /\ Seen(m.from) = {}
        /\ \E a \in Available :
             /\ \A b \in Available : a <= b
             /\ AddInfo(m.from, a)
             /\ Reply(m, "OFFER", a)

ProcessRequest_RequiresReqIP(m) ==
  /\ m.type = "REQUEST"
  /\ m.reqIP # None /\ ~m.sid
  /\ IF Seen(m.from) # {} /\ OfferAddr(m.from) = m.reqIP
     THEN Reply(m, "ACK", OfferAddr(m.from))
     ELSE Reply(m, "NAK", None)
  /\ UNCHANGED << szAddressInfo, tAddressInfo >>

\* A request that names this server is answered from the table alone; any other
\* one must name the address of the client.
ProcessRequest(m) ==
  /\ m.type = "REQUEST"
  /\ m.sid \/ m.reqIP # None \/ m.ciaddr # None
  /\ IF Seen(m.from) # {} /\ (m.sid \/ OfferAddr(m.from) \in {m.reqIP, m.ciaddr})
     THEN Reply(m, "ACK", OfferAddr(m.from))
     ELSE Reply(m, "NAK", None)
  /\ UNCHANGED << szAddressInfo, tAddressInfo >>

\* DECLINE, RELEASE and INFORM change nothing and are not answered.
Process(m) ==
  /\ ProcessDiscover(m) \/ ProcessRequest(m)
  /\ UNCHANGED client

-----------------------------------------------------------------------------
(* The clients.                                                            *)

Send(c, type, x, sid, reqIP, ciaddr) ==
  net' = net \cup { [ type |-> type, from |-> c, xid |-> x, sid |-> sid,
                      reqIP |-> reqIP, ciaddr |-> ciaddr ] }

Enters(c, p, a) ==
  /\ phase' = [ phase EXCEPT ![c] = p ]
  /\ lease' = [ lease EXCEPT ![c] = a ]

NextXid(c) == xid[c] < MAX_XID[c] /\ xid' = [ xid EXCEPT ![c] = @ + 1 ]

Discover(c) ==
  /\ phase[c] = "init" /\ NextXid(c)
  /\ Enters(c, "selecting", None)
  /\ Send(c, "DISCOVER", xid[c] + 1, FALSE, None, None)
  /\ UNCHANGED server

\* A bound client checks its lease: renewal names ciaddr, a reboot reqIP.
Check(c) ==
  /\ phase[c] = "bound" /\ NextXid(c)
  /\ Enters(c, "checking", lease[c])
  /\ \/ Send(c, "REQUEST", xid[c] + 1, FALSE, None, lease[c])
     \/ Send(c, "REQUEST", xid[c] + 1, FALSE, lease[c], None)
  /\ UNCHANGED server

\* A client leaves; its RELEASE is not looked at.
Leave(c) ==
  /\ phase[c] = "bound"
  /\ Enters(c, "init", None)
  /\ UNCHANGED << server, net, xid >>

ToMe(c, type) == { m \in net : m.type = type /\ m.to = c /\ m.xid = xid[c] }

RecvOffer(c) ==
  /\ phase[c] = "selecting"
  /\ \E m \in ToMe(c, "OFFER") :
       /\ Enters(c, "requesting", m.addr)
       /\ Send(c, "REQUEST", xid[c], TRUE, m.addr, None)
  /\ UNCHANGED << server, xid >>

RecvAck(c) ==
  /\ phase[c] \in {"requesting", "checking"}
  /\ \E m \in ToMe(c, "ACK") : Enters(c, "bound", m.addr)
  /\ UNCHANGED << server, net, xid >>

RecvNak(c) ==
  /\ phase[c] \in {"requesting", "checking"}
  /\ ToMe(c, "NAK") # {}
  /\ Enters(c, "init", None)
  /\ UNCHANGED << server, net, xid >>

ClientStep(c) == RecvOffer(c) \/ RecvAck(c) \/ RecvNak(c)

Requests == { m \in net : m.type \in {"DISCOVER", "REQUEST"} }

Next ==
  \/ \E m \in Requests : Process(m)
  \/ \E c \in Clients : Discover(c) \/ Check(c) \/ Leave(c) \/ ClientStep(c)

Spec == Init /\ [][Next]_vars

\* The retries of a client get through in the end, and so do the answers.
FairSpec ==
  /\ Spec
  /\ \A c \in Clients :
       /\ WF_vars(\E m \in Requests : m.from = c /\ m.xid = xid[c] /\ Process(m))
       /\ WF_vars(ClientStep(c))

-----------------------------------------------------------------------------
(* Properties.                                                             *)

\* Every variable has its type.
TypeOK ==
  /\ szAddressInfo \in 0 .. MAX_ADDRESS_INFO + 1 \cup {Overwritten}
  /\ tAddressInfo \in [ Index -> [ addrV4 : Pool \cup {None}, client : Clients \cup {NoClient} ] ]
  /\ phase \in [ Clients -> Phases ]
  /\ lease \in [ Clients -> Pool \cup 0 .. MAX_ADDRESS_INFO + 1 ]
  /\ \A c \in Clients : xid[c] \in 0 .. MAX_XID[c]

\* Two clients never hold leases of one address, whatever datagrams were lost,
\* repeated or late, and even when the table overflowed.
LeasesDistinct ==
  \A c, d \in Clients :
    phase[c] \in {"bound", "checking"} /\ phase[d] \in {"bound", "checking"} /\ lease[c] = lease[d]
      => c = d

Replies(c, type) == { m \in net : m.type = type /\ m.to = c }

\* What a client was offered it is granted: an answer to its request is an ACK of
\* that address.
OfferIsGranted ==
  \A c \in Clients, o \in net :
    o.type = "OFFER" /\ o.to = c =>
      Replies(c, "NAK") = {} /\ \A m \in Replies(c, "ACK") : m.addr = o.addr

\* The same, for as long as no more clients asked than the table has room for.
GrantedWhileRoom == szAddressInfo \in 0 .. MAX_ADDRESS_INFO => OfferIsGranted

\* A client that asks is served, unless the table is full.
Served ==
  \A c \in Clients :
    phase[c] \in {"selecting", "requesting"}
      ~> phase[c] = "bound" \/ szAddressInfo \notin 0 .. MAX_ADDRESS_INFO
=============================================================================
