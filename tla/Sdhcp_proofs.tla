---------------------------- MODULE Sdhcp_proofs ----------------------------
(***************************************************************************)
(* Theorems about Sdhcp, for any set of clients, any pool and any number   *)
(* of transactions: types, no address leased twice, and offers granted     *)
(* while the table has room.                                               *)
(*                                                                         *)
(* The invariant says who owns an address: the table, and for good, since  *)
(* an entry is never changed.  An ACK in the network, however old, and a   *)
(* lease in use name an address their client owns; and no entry shares its *)
(* client or its address with another.  The entry behind the last one is   *)
(* the exception: its address is what became of szAddressInfo.             *)
(***************************************************************************)
EXTENDS Sdhcp, TLAPS

N == MAX_ADDRESS_INFO

\* The table has not overflowed.
Room == szAddressInfo \in 0 .. N

\* The entries that were ever written: all of them, once it has.
Written == { i \in Index : Room => i < szAddressInfo }

Address == Pool \cup 0 .. N + 1

RequestMsg == [ type : {"DISCOVER", "REQUEST"}, from : Clients, xid : Int, sid : BOOLEAN,
                reqIP : Address, ciaddr : Address ]
ReplyMsg   == [ type : {"OFFER", "ACK", "NAK"}, to : Clients, xid : Int, addr : Address ]

MsgInv == net \subseteq RequestMsg \cup ReplyMsg /\ xid \in [ Clients -> Int ]

TableInv ==
  /\ \A i \in Written : tAddressInfo[i] \in [ addrV4 : Pool, client : Clients ]
  /\ \A i, j \in Written : i # j => /\ tAddressInfo[i].addrV4 # tAddressInfo[j].addrV4
                                    /\ tAddressInfo[i].client # tAddressInfo[j].client

\* The address a that a reply to client c may name.
Owns(c, a) ==
  \E i \in Written : /\ tAddressInfo[i].client = c
                     /\ a = IF i = N THEN N + 1 ELSE tAddressInfo[i].addrV4

GrantInv ==
  /\ \A m \in net : m.type = "ACK" => Owns(m.to, m.addr)
  /\ \A c \in Clients : phase[c] \in {"bound", "checking"} => Owns(c, lease[c])

\* What the network holds before the table overflows.
RoomInv ==
  Room =>
    /\ \A m \in net : m.type # "NAK"
    /\ \A m \in net : m.type = "OFFER" => Owns(m.to, m.addr)
    /\ \A m \in net : m.type = "REQUEST" =>
         \E a \in Address : Owns(m.from, a) /\ (m.sid \/ a \in {m.reqIP, m.ciaddr})
    /\ \A c \in Clients : phase[c] = "requesting" => Owns(c, lease[c])

IInv == TypeOK /\ MsgInv /\ TableInv /\ GrantInv /\ RoomInv

-----------------------------------------------------------------------------
(* The table.                                                              *)

LEMMA Sizes == /\ N \in Nat /\ N > 0 /\ N + 1 < MIN_IP /\ N = MAX_ADDRESS_INFO
               /\ MIN_IP \in Nat /\ MAX_IP \in Nat /\ Index = 0 .. N
  BY SdhcpAssumption DEF N, MAX_ADDRESS_INFO, Index

\* The server looks only at entries that were written, and while there is room
\* at all of them.
LEMMA EntriesWritten ==
  ASSUME TypeOK
  PROVE  /\ Entries \subseteq Written /\ Written \subseteq Index
         /\ Room => Entries = Written /\ N \notin Written
         /\ ~Room => Written = Index
  BY Sizes DEF TypeOK, Entries, Written, Room, Index, Overwritten

\* An address has one owner: the two entries differ in it, or one of them is the
\* entry behind the last, whose address is below the pool.
LEMMA OneOwner ==
  ASSUME TypeOK, TableInv, NEW c, NEW d, NEW a, Owns(c, a), Owns(d, a)
  PROVE  c = d
<1>1. PICK i \in Written : tAddressInfo[i].client = c
                           /\ a = IF i = N THEN N + 1 ELSE tAddressInfo[i].addrV4
  BY DEF Owns
<1>2. PICK j \in Written : tAddressInfo[j].client = d
                           /\ a = IF j = N THEN N + 1 ELSE tAddressInfo[j].addrV4
  BY DEF Owns
<1>3. tAddressInfo[i].addrV4 # N + 1 /\ tAddressInfo[j].addrV4 # N + 1
  BY Sizes DEF TableInv, Pool
<1>4. i = j
  BY <1>1, <1>2, <1>3 DEF TableInv
<1> QED  BY <1>1, <1>2, <1>4

\* A client has one address.
LEMMA OneAddress ==
  ASSUME TableInv, NEW c, NEW a, NEW b, Owns(c, a), Owns(c, b)
  PROVE  a = b
<1>1. PICK i \in Written : tAddressInfo[i].client = c
                           /\ a = IF i = N THEN N + 1 ELSE tAddressInfo[i].addrV4
  BY DEF Owns
<1>2. PICK j \in Written : tAddressInfo[j].client = c
                           /\ b = IF j = N THEN N + 1 ELSE tAddressInfo[j].addrV4
  BY DEF Owns
<1>3. i = j
  BY <1>1, <1>2 DEF TableInv
<1> QED  BY <1>1, <1>2, <1>3

\* The address a client that is known is offered or granted is its own.
LEMMA OfferOwned ==
  ASSUME TypeOK, TableInv, NEW c, Seen(c) # {}
  PROVE  Owns(c, OfferAddr(c)) /\ OfferAddr(c) \in Address
<1>1. PICK i \in Seen(c) : TRUE
  OBVIOUS
<1>2. i \in Written /\ tAddressInfo[i].client = c /\ i \in Entries
  BY EntriesWritten DEF Seen
<1>3. \A j \in Seen(c) : j = i
  BY <1>2, EntriesWritten DEF Seen, TableInv
<1>4. i \in Int
  BY <1>2 DEF Entries, Index
<1>5. (CHOOSE k \in Seen(c) : \A j \in Seen(c) : k <= j) = i
  <2>1. \E k \in Seen(c) : \A j \in Seen(c) : k <= j
    BY <1>3, <1>4
  <2> QED  BY <2>1, <1>3
<1>6. OfferAddr(c) = AddrOf(i)
  BY <1>5 DEF OfferAddr
<1>7. AddrOf(i) = IF i = N THEN N + 1 ELSE tAddressInfo[i].addrV4
  BY <1>2, Sizes DEF AddrOf, Entries, Index, TypeOK, Overwritten
<1>8. AddrOf(i) \in Address
  BY <1>7, <1>2, Sizes DEF Address, TableInv
<1> QED  BY <1>2, <1>6, <1>7, <1>8 DEF Owns

\* While there is room, an owner is known.
LEMMA OwnerSeen ==
  ASSUME TypeOK, Room, NEW c, NEW a, Owns(c, a)
  PROVE  Seen(c) # {}
  BY EntriesWritten DEF Owns, Seen

-----------------------------------------------------------------------------
(* Two things happen to the table: nothing, or a new client's new address. *)

Adds(c, a) == a \in Available /\ Seen(c) = {} /\ AddInfo(c, a)

LEMMA ServerSteps ==
  ASSUME IInv, [Next]_vars
  PROVE  UNCHANGED server \/ \E c \in Clients, a \in Pool : Adds(c, a)
<1>1. CASE UNCHANGED vars
  BY <1>1 DEF vars
<1>2. ASSUME NEW m \in Requests, Process(m)
      PROVE  UNCHANGED server \/ \E c \in Clients, a \in Pool : Adds(c, a)
  <2>1. m.from \in Clients
    BY DEF IInv, MsgInv, Requests, RequestMsg, ReplyMsg
  <2>2. CASE ProcessDiscover(m)
    BY <2>1, <2>2 DEF ProcessDiscover, Adds, Available, server
  <2>3. CASE ProcessRequest(m)
    BY <2>3 DEF ProcessRequest, server
  <2> QED  BY <1>2, <2>2, <2>3 DEF Process
<1>3. ASSUME NEW c \in Clients, Discover(c) \/ Check(c) \/ Leave(c) \/ ClientStep(c)
      PROVE  UNCHANGED server
  BY <1>3 DEF Discover, Check, Leave, ClientStep, RecvOffer, RecvAck, RecvNak
<1> QED  BY <1>1, <1>2, <1>3 DEF Next

\* What an addition does to the entries.
LEMMA AddedEntry ==
  ASSUME IInv, NEW c \in Clients, NEW a \in Pool, Adds(c, a)
  PROVE  /\ Room /\ szAddressInfo \in Index /\ szAddressInfo \notin Written
         /\ Written' = Written \cup {szAddressInfo}
         /\ tAddressInfo'[szAddressInfo] = [ addrV4 |-> a, client |-> c ]
         /\ \A i \in Written : tAddressInfo'[i] = tAddressInfo[i]
         /\ szAddressInfo = N => ~Room'
         /\ szAddressInfo' \in 0 .. N + 1 \cup {Overwritten}
         /\ tAddressInfo' \in [ Index -> [ addrV4 : Pool \cup {None}, client : Clients \cup {NoClient} ] ]
<1> USE Sizes DEF IInv, TypeOK, Adds, AddInfo, Index, Overwritten
<1>1. Room /\ szAddressInfo \in Index /\ szAddressInfo \notin Written
  BY DEF Room, Written
<1>2. Written' = Written \cup {szAddressInfo}
  BY DEF Room, Written
<1>3. /\ tAddressInfo'[szAddressInfo] = [ addrV4 |-> a, client |-> c ]
      /\ \A i \in Written : tAddressInfo'[i] = tAddressInfo[i]
  BY <1>1 DEF Written
<1>4. szAddressInfo = N => ~Room'
  BY DEF Room
<1> QED  BY <1>1, <1>2, <1>3, <1>4

\* An address never changes its owner.
LEMMA OwnerKept ==
  ASSUME IInv, [Next]_vars, NEW c, NEW a, Owns(c, a)
  PROVE  Owns(c, a)'
<1>1. CASE UNCHANGED server
  BY <1>1 DEF server, Owns, Written, Room
<1>2. ASSUME NEW d \in Clients, NEW b \in Pool, Adds(d, b)
      PROVE  Owns(c, a)'
  BY <1>2, AddedEntry DEF Owns
<1> QED  BY <1>1, <1>2, ServerSteps

\* Once the table has overflowed it stays so.
LEMMA RoomLost ==
  ASSUME IInv, [Next]_vars, Room'
  PROVE  Room
<1>1. CASE UNCHANGED server
  BY <1>1 DEF server, Room
<1> QED  BY <1>1, AddedEntry, ServerSteps

-----------------------------------------------------------------------------
(* The invariant, part by part.                                            *)

LEMMA InitIInv == Init => IInv
<1> SUFFICES ASSUME Init PROVE IInv
  OBVIOUS
<1> USE Sizes DEF Init
<1>1. Written = {}
  BY DEF Written, Room, Index
<1>2. TypeOK
  BY SdhcpAssumption DEF TypeOK, Index, Free, Phases, None, Overwritten
<1>3. MsgInv
  BY DEF MsgInv
<1>4. TableInv
  BY <1>1 DEF TableInv
<1>5. GrantInv /\ RoomInv
  BY DEF GrantInv, RoomInv
<1> QED  BY <1>2, <1>3, <1>4, <1>5 DEF IInv

LEMMA TypeStep == IInv /\ [Next]_vars => TypeOK' /\ MsgInv'
<1> SUFFICES ASSUME IInv, [Next]_vars PROVE TypeOK' /\ MsgInv'
  OBVIOUS
<1> USE DEF IInv, TypeOK, MsgInv
<1>0. None \in Address /\ Pool \subseteq Address /\ Clients \subseteq Clients \cup {NoClient}
  BY Sizes DEF None, Address
<1>1. CASE UNCHANGED vars
  BY <1>1 DEF vars, server, client
<1>2. ASSUME NEW m \in Requests, Process(m) PROVE TypeOK' /\ MsgInv'
  <2>1. m \in RequestMsg
    BY DEF Requests, RequestMsg, ReplyMsg
  <2>2. ASSUME NEW a \in Address, NEW type \in {"OFFER", "ACK", "NAK"}, Reply(m, type, a)
        PROVE  net' \subseteq RequestMsg \cup ReplyMsg
    BY <2>1, <2>2 DEF Reply, ReplyMsg, RequestMsg
  <2>3. CASE /\ m.type = "DISCOVER" /\ Seen(m.from) # {}
             /\ Reply(m, "OFFER", OfferAddr(m.from)) /\ UNCHANGED << szAddressInfo, tAddressInfo >>
    BY <1>2, <2>3, <2>2, OfferOwned DEF Process, client
  <2>4. CASE m.type = "DISCOVER" /\ \E a \in Pool : Adds(m.from, a) /\ Reply(m, "OFFER", a)
    <3>1. PICK a \in Pool : Adds(m.from, a) /\ Reply(m, "OFFER", a)
      BY <2>4
    <3>2. m.from \in Clients
      BY <2>1 DEF RequestMsg
    <3> QED  BY <1>2, <3>1, <3>2, <2>2, <1>0, AddedEntry DEF Process, client, N
  <2>5. CASE ProcessRequest(m)
    <3>1. /\ UNCHANGED << szAddressInfo, tAddressInfo >>
          /\ \/ Seen(m.from) # {} /\ Reply(m, "ACK", OfferAddr(m.from))
             \/ Reply(m, "NAK", None)
      BY <2>5 DEF ProcessRequest
    <3>2. net' \subseteq RequestMsg \cup ReplyMsg
      BY <3>1, <2>2, OfferOwned, <1>0
    <3> QED  BY <1>2, <3>1, <3>2 DEF Process, client
  <2> QED  BY <1>2, <2>3, <2>4, <2>5 DEF Process, ProcessDiscover, Adds, Available
<1>3. \A a \in Address : a \in Pool \cup 0 .. MAX_ADDRESS_INFO + 1
  BY DEF Address, N
<1>4. ASSUME NEW c \in Clients, NEW p \in Phases, NEW a \in Address, Enters(c, p, a)
      PROVE  /\ phase' \in [ Clients -> Phases ]
             /\ lease' \in [ Clients -> Pool \cup 0 .. MAX_ADDRESS_INFO + 1 ]
  BY <1>3, <1>4 DEF Enters
<1>5. ASSUME NEW c \in Clients, NextXid(c)
      PROVE  xid' \in [ Clients -> Int ] /\ \A d \in Clients : xid'[d] \in 0 .. MAX_XID[d]
  <2>1. \A d \in Clients : xid[d] \in Int /\ MAX_XID[d] \in Int /\ xid[d] \in 0 .. MAX_XID[d]
    BY SdhcpAssumption
  <2>2. xid[c] < MAX_XID[c] /\ xid' = [ xid EXCEPT ![c] = xid[c] + 1 ]
    BY <1>5 DEF NextXid
  <2>3. xid[c] + 1 \in Int /\ xid[c] + 1 \in 0 .. MAX_XID[c]
    BY <2>1, <2>2
  <2> QED  BY <2>1, <2>2, <2>3
<1>6. ASSUME NEW c \in Clients, NEW type \in {"DISCOVER", "REQUEST"}, NEW x \in Int,
             NEW sid \in BOOLEAN, NEW r \in Address, NEW i \in Address, Send(c, type, x, sid, r, i)
      PROVE  net' \subseteq RequestMsg \cup ReplyMsg
  BY <1>6 DEF Send, RequestMsg
<1>7. \A c \in Clients : lease[c] \in Address /\ xid[c] \in Int /\ xid[c] + 1 \in Int
  BY DEF Address, N
<1>8. \A c \in Clients : \A type : \A m \in ToMe(c, type) : type \in {"OFFER", "ACK"} => m.addr \in Address
  BY DEF ToMe, RequestMsg, ReplyMsg
<1>9. ASSUME NEW c \in Clients, Discover(c) PROVE TypeOK' /\ MsgInv'
  BY <1>0, <1>9, <1>4, <1>5, <1>6, <1>7 DEF Discover, server, Phases
<1>10. ASSUME NEW c \in Clients, Check(c) PROVE TypeOK' /\ MsgInv'
  BY <1>0, <1>10, <1>4, <1>5, <1>6, <1>7 DEF Check, server, Phases
<1>11. ASSUME NEW c \in Clients, Leave(c) PROVE TypeOK' /\ MsgInv'
  BY <1>0, <1>11, <1>4 DEF Leave, server, Phases
<1>12. ASSUME NEW c \in Clients, RecvOffer(c) PROVE TypeOK' /\ MsgInv'
  BY <1>0, <1>12, <1>4, <1>6, <1>7, <1>8 DEF RecvOffer, server, Phases
<1>13. ASSUME NEW c \in Clients, RecvAck(c) PROVE TypeOK' /\ MsgInv'
  BY <1>0, <1>13, <1>4, <1>8 DEF RecvAck, server, Phases
<1>14. ASSUME NEW c \in Clients, RecvNak(c) PROVE TypeOK' /\ MsgInv'
  BY <1>0, <1>14, <1>4 DEF RecvNak, server, Phases
<1> QED  BY <1>1, <1>2, <1>9, <1>10, <1>11, <1>12, <1>13, <1>14 DEF Next, ClientStep

LEMMA TableStep == IInv /\ [Next]_vars => TableInv'
<1> SUFFICES ASSUME IInv, [Next]_vars PROVE TableInv'
  OBVIOUS
<1>1. CASE UNCHANGED server
  BY <1>1 DEF IInv, server, TableInv, Written, Room
<1>2. ASSUME NEW c \in Clients, NEW a \in Pool, Adds(c, a)
      PROVE  TableInv'
  <2>1. /\ Room /\ szAddressInfo \notin Written
        /\ Written' = Written \cup {szAddressInfo}
        /\ tAddressInfo'[szAddressInfo] = [ addrV4 |-> a, client |-> c ]
        /\ \A i \in Written : tAddressInfo'[i] = tAddressInfo[i]
    BY <1>2, AddedEntry
  <2>2. ASSUME NEW i \in Written
        PROVE  tAddressInfo[i].addrV4 # a /\ tAddressInfo[i].client # c
    <3>1. i \in Entries /\ i # N
      BY <2>1, EntriesWritten DEF IInv
    <3> QED  BY <1>2, <3>1 DEF Adds, Available, Seen, AddrOf, N
  <2> QED  BY <2>1, <2>2 DEF IInv, TableInv
<1> QED  BY <1>1, <1>2, ServerSteps

\* What is behind a message that is sent.
Behind(m) ==
  /\ m.type = "ACK" => Owns(m.to, m.addr)
  /\ m.type = "OFFER" => m.to \in Clients /\ (Owns(m.to, m.addr) \/ Adds(m.to, m.addr))
  /\ m.type = "NAK" => \E r \in net : /\ r.type = "REQUEST" /\ r.from = m.to
                                      /\ \/ Seen(r.from) = {}
                                         \/ ~r.sid /\ OfferAddr(r.from) \notin {r.reqIP, r.ciaddr}
  /\ m.type = "REQUEST" => /\ m.from \in Clients
                           /\ \/ m.sid /\ \E o \in net : o.type = "OFFER" /\ o.to = m.from
                              \/ /\ phase[m.from] = "bound"
                                 /\ lease[m.from] \in {m.reqIP, m.ciaddr}

LEMMA NewMessage ==
  ASSUME IInv, [Next]_vars, NEW m \in net', m \notin net
  PROVE  Behind(m)
<1>1. CASE UNCHANGED vars
  BY <1>1 DEF vars
<1>2. ASSUME NEW r \in Requests, Process(r) PROVE Behind(m)
  <2>1. r.from \in Clients /\ r \in net
    BY DEF IInv, MsgInv, Requests, RequestMsg, ReplyMsg
  <2>2. CASE ProcessDiscover(r)
    <3>1. CASE Seen(r.from) # {} /\ Reply(r, "OFFER", OfferAddr(r.from))
      BY <3>1, <2>1, OfferOwned DEF Behind, Reply, IInv
    <3>2. CASE \E a \in Available : Adds(r.from, a) /\ Reply(r, "OFFER", a)
      BY <3>2, <2>1 DEF Behind, Reply
    <3> QED  BY <2>2, <3>1, <3>2 DEF ProcessDiscover, Adds
  <2>3. CASE ProcessRequest(r)
    <3>1. CASE Seen(r.from) # {} /\ Reply(r, "ACK", OfferAddr(r.from))
      BY <3>1, <2>1, OfferOwned DEF Behind, Reply, IInv
    <3>2. CASE /\ ~(Seen(r.from) # {} /\ (r.sid \/ OfferAddr(r.from) \in {r.reqIP, r.ciaddr}))
               /\ Reply(r, "NAK", None)
      <4>1. m.type = "NAK" /\ m.to = r.from
        BY <3>2 DEF Behind, Reply
      <4>2. r.type = "REQUEST"
        BY <2>3 DEF ProcessRequest
      <4> QED  BY <4>1, <4>2, <3>2, <2>1 DEF Behind
    <3> QED  BY <2>3, <3>1, <3>2 DEF ProcessRequest
  <2> QED  BY <1>2, <2>2, <2>3 DEF Process
<1>3. ASSUME NEW c \in Clients, Discover(c) PROVE Behind(m)
  BY <1>3 DEF Discover, Send, Behind
<1>4. ASSUME NEW c \in Clients, Check(c) PROVE Behind(m)
  BY <1>4 DEF Check, Send, Behind
<1>5. ASSUME NEW c \in Clients, RecvOffer(c) PROVE Behind(m)
  BY <1>5 DEF RecvOffer, ToMe, Send, Behind
<1>6. ASSUME NEW c \in Clients, Leave(c) \/ RecvAck(c) \/ RecvNak(c) PROVE Behind(m)
  BY <1>6 DEF Leave, RecvAck, RecvNak
<1> QED  BY <1>1, <1>2, <1>3, <1>4, <1>5, <1>6 DEF Next, ClientStep

\* Where a client's lease comes from.
LEMMA NewLease ==
  ASSUME IInv, [Next]_vars, NEW c \in Clients
  PROVE  /\ phase'[c] \in {"bound", "checking"} =>
              \/ phase[c] \in {"bound", "checking"} /\ lease'[c] = lease[c]
              \/ \E m \in net : m.type = "ACK" /\ m.to = c /\ lease'[c] = m.addr
         /\ phase'[c] = "requesting" =>
              \/ phase[c] = "requesting" /\ lease'[c] = lease[c]
              \/ \E m \in net : m.type = "OFFER" /\ m.to = c /\ lease'[c] = m.addr
<1> USE DEF IInv, TypeOK, Enters
<1>1. CASE UNCHANGED client
  BY <1>1 DEF client
<1>2. CASE \E d \in Clients : Discover(d)
  BY <1>2 DEF Discover
<1>3. CASE \E d \in Clients : Check(d)
  BY <1>3 DEF Check
<1>4. CASE \E d \in Clients : Leave(d)
  BY <1>4 DEF Leave
<1>5. CASE \E d \in Clients : RecvOffer(d)
  BY <1>5 DEF RecvOffer, ToMe
<1>6. CASE \E d \in Clients : RecvAck(d)
  BY <1>6 DEF RecvAck, ToMe
<1>7. CASE \E d \in Clients : RecvNak(d)
  BY <1>7 DEF RecvNak
<1> QED  BY <1>1, <1>2, <1>3, <1>4, <1>5, <1>6, <1>7 DEF Next, ClientStep, Process, vars

\* What a reply or a client takes from the table is an address it owns; what it
\* takes from an earlier reply it still does.
LEMMA GrantStep == IInv /\ [Next]_vars => GrantInv'
<1> SUFFICES ASSUME IInv, [Next]_vars PROVE GrantInv'
  OBVIOUS
<1>1. GrantInv
  BY DEF IInv
<1>2. ASSUME NEW m \in net', m.type = "ACK" PROVE Owns(m.to, m.addr)'
  BY <1>1, <1>2, NewMessage, OwnerKept DEF GrantInv, Behind
<1>3. ASSUME NEW c \in Clients, phase'[c] \in {"bound", "checking"}, NEW a, a = lease'[c]
      PROVE  Owns(c, a)'
  BY <1>1, <1>3, NewLease, OwnerKept DEF GrantInv
<1> QED  BY <1>2, <1>3 DEF GrantInv, Owns

\* No NAK is sent while there is room: a client that requests was offered an
\* address, or has one, and the table knows it.
LEMMA RoomStep == IInv /\ [Next]_vars => RoomInv'
<1> SUFFICES ASSUME IInv, [Next]_vars, Room' PROVE RoomInv'
  BY DEF RoomInv
<1>1. Room /\ RoomInv /\ GrantInv /\ TypeOK /\ TableInv
  BY RoomLost DEF IInv
<1>2. ASSUME NEW m \in net', m \notin net, m.type = "NAK" PROVE FALSE
  <2>1. PICK r \in net : /\ r.type = "REQUEST" /\ r.from = m.to
                         /\ \/ Seen(r.from) = {}
                            \/ ~r.sid /\ OfferAddr(r.from) \notin {r.reqIP, r.ciaddr}
    BY <1>2, NewMessage DEF Behind
  <2>2. PICK a \in Address : Owns(r.from, a) /\ (r.sid \/ a \in {r.reqIP, r.ciaddr})
    BY <1>1, <2>1 DEF RoomInv
  <2>3. Seen(r.from) # {}
    BY <1>1, <2>2, OwnerSeen
  <2>4. OfferAddr(r.from) = a
    BY <1>1, <2>2, <2>3, OfferOwned, OneAddress
  <2> QED  BY <2>1, <2>2, <2>3, <2>4
<1>3. ASSUME NEW m \in net', m.type = "OFFER" PROVE Owns(m.to, m.addr)'
  <2>1. CASE Owns(m.to, m.addr)
    BY <2>1, OwnerKept
  <2>2. ASSUME NEW c \in Clients, NEW a, Adds(c, a) PROVE Owns(c, a)'
    <3>1. a \in Pool
      BY <2>2 DEF Adds, Available
    <3>2. /\ szAddressInfo \in Written' /\ szAddressInfo # N
          /\ tAddressInfo'[szAddressInfo] = [ addrV4 |-> a, client |-> c ]
      BY <2>2, <3>1, AddedEntry
    <3> QED  BY <3>2 DEF Owns
  <2> QED  BY <1>1, <1>3, <2>1, <2>2, NewMessage DEF RoomInv, Behind
<1>4. ASSUME NEW m \in net', m.type = "REQUEST"
      PROVE  \E a \in Address : Owns(m.from, a)' /\ (m.sid \/ a \in {m.reqIP, m.ciaddr})
  <2>1. \A o \in net : o.type = "OFFER" => o.addr \in Address
    BY DEF IInv, MsgInv, RequestMsg, ReplyMsg
  <2>2. \A c \in Clients : lease[c] \in Address
    BY DEF IInv, TypeOK, Address, N
  <2>3. \E a \in Address : Owns(m.from, a) /\ (m.sid \/ a \in {m.reqIP, m.ciaddr})
    BY <1>1, <1>4, <2>1, <2>2, NewMessage DEF RoomInv, Behind, GrantInv
  <2> QED  BY <2>3, OwnerKept
<1>5. ASSUME NEW c \in Clients, phase'[c] = "requesting", NEW a, a = lease'[c]
      PROVE  Owns(c, a)'
  BY <1>1, <1>5, NewLease, OwnerKept DEF RoomInv
<1>6. \A m \in net' : m.type # "NAK"
  BY <1>1, <1>2 DEF RoomInv
<1> QED  BY <1>3, <1>4, <1>5, <1>6 DEF RoomInv, Owns

-----------------------------------------------------------------------------
(* The theorems.                                                           *)

\* IInv is an invariant of the server, its clients and the network.
THEOREM Inductive == Spec => []IInv
<1>1. Init => IInv
  BY InitIInv
<1>2. IInv /\ [Next]_vars => IInv'
  BY TypeStep, TableStep, GrantStep, RoomStep DEF IInv
<1> QED  BY <1>1, <1>2, PTL DEF Spec

\* Every variable has its type: sdhcp_addInfo writes no further than one entry
\* behind the table.
THEOREM TypeCorrect == Spec => []TypeOK
<1>1. IInv => TypeOK
  BY DEF IInv
<1> QED  BY <1>1, Inductive, PTL

\* Two clients never hold leases of one address, whatever sdhcp_process_request
\* received, repeated or late, and even after sdhcp_addInfo overwrote the count.
THEOREM NoAddressTwice == Spec => []LeasesDistinct
<1>1. IInv => LeasesDistinct
  BY OneOwner DEF IInv, GrantInv, LeasesDistinct
<1> QED  BY <1>1, Inductive, PTL

\* While the table has room, sdhcp_process_request grants what it offered.
THEOREM Granted == Spec => []GrantedWhileRoom
<1>1. ASSUME IInv, Room PROVE OfferIsGranted
  BY <1>1, OneAddress DEF IInv, GrantInv, RoomInv, OfferIsGranted, Replies
<1>2. IInv => GrantedWhileRoom
  BY <1>1 DEF GrantedWhileRoom, Room, N
<1> QED  BY <1>2, Inductive, PTL
=============================================================================
