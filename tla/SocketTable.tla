----------------------------- MODULE SocketTable -----------------------------
(***************************************************************************)
(* What the socket layer promises: a table of descriptors, each of which   *)
(* is free, bare (allocated, with no socket of the driver yet), attached   *)
(* to a socket of the driver, or closing.  One step at a time; no locks,   *)
(* no calls, no tasks.  NetSocket implements it as long as a descriptor is *)
(* used by one call at a time.                                             *)
(***************************************************************************)
CONSTANTS
  Descriptors,
  Handles,      \* the sockets the driver has
  NoHandle      \* none of them

VARIABLES
  life,    \* of each descriptor
  handle   \* the driver's socket behind it

table == << life, handle >>

Lives == { "free", "bare", "attached", "closing" }

Init ==
  /\ life = [ d \in Descriptors |-> "free" ]
  /\ handle = [ d \in Descriptors |-> NoHandle ]

Becomes(d, from, to) == life[d] = from /\ life' = [ life EXCEPT ![d] = to ]

Unused(h) == \A d \in Descriptors : handle[d] # h

\* A free descriptor is handed out.
Allocate(d) == Becomes(d, "free", "bare") /\ UNCHANGED handle

\* The driver's socket is created, or accepted: it is nobody else's.
Attach(d, h) ==
  /\ Becomes(d, "bare", "attached")
  /\ Unused(h)
  /\ handle' = [ handle EXCEPT ![d] = h ]

\* The driver closes it.  Nothing attaches to the descriptor again.
Detach(d) ==
  /\ Becomes(d, "attached", "closing")
  /\ handle' = [ handle EXCEPT ![d] = NoHandle ]

\* Only a descriptor that has no socket of the driver becomes free.
Free(d) ==
  /\ Becomes(d, "closing", "free") \/ Becomes(d, "bare", "free")
  /\ UNCHANGED handle

Next ==
  \E d \in Descriptors :
    Allocate(d) \/ Detach(d) \/ Free(d) \/ \E h \in Handles : Attach(d, h)

Spec == Init /\ [][Next]_table
=============================================================================
