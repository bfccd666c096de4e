---------------------- MODULE NetSocketHolders_proofs ----------------------
(***************************************************************************)
(* Who holds a slot of Sockets[]: proofs about NetSocket for any number of *)
(* tasks, slots and low-level sockets, whether or not the connection is    *)
(* lost, for an application that does one of two things.  Either it uses a *)
(* descriptor from one call at a time, and calls net_shutdown only once    *)
(* there is a low-level socket (Exclusive); or it shares descriptors as it *)
(* likes and keeps to the calls that leave a slot's status to              *)
(* net_closesocket (DataCallsOnly).  What happens to the others is what    *)
(* the hazards of net_accept and net_shutdown are about.                   *)
(***************************************************************************)
EXTENDS NetSocket_proofs

Exclusive     == ~Shared /\ ~BareShutdown
DataCallsOnly == Ops \cap {"accept", "connect", "shutdown"} = {}
Disciplined   == Exclusive \/ DataCallsOnly

\* Task t is about to give slot s to the application: net_socket or net_accept
\* has claimed it and not been left yet.
Given(t, s) ==
  \/ pc[t] \in {"slotlock", "fill"} /\ new[t] = s
  \/ pc[t] = "done" /\ op[t] \in {"socket", "accept"} /\ ret[t] = s

\* Task t is in net_closesocket(s).
Closes(t, s) == pc[t] \in SlotPCs /\ op[t] = "close" /\ fd[t] = s

Holder(t, s) == Given(t, s) \/ Closes(t, s)

\* A slot is alive exactly when it has a holder: the application, the call that
\* is handing it out, or the call that is closing it.  It never has two.
OneHolder(s) ==
  /\ Live(s) <=> s \in fds \/ \E t \in Tasks : Holder(t, s)
  /\ \A t \in Tasks : Holder(t, s) => s \notin fds
  /\ \A t, u \in Tasks : Holder(t, s) /\ Holder(u, s) => t = u

HolderInv == \A s \in Slots : OneHolder(s)

\* A task calls the functions it may; net_socket and net_closesocket do not look
\* for a low-level socket before they lock.
OpsInv ==
  \A t \in Tasks :
    /\ op[t] \in Ops \cup {"socket"}
    /\ pc[t] = "check" => op[t] \in CheckFirst

Uses(t) == pc[t] # "idle" /\ op[t] # "socket"

\* What using a descriptor from one call at a time gives.
AloneInv ==
  /\ \A t, u \in Tasks : Uses(t) /\ Uses(u) /\ fd[t] = fd[u] => t = u
  /\ \A t \in Tasks : Uses(t) /\ op[t] # "close" => fd[t] \in fds
  /\ \A t \in Tasks : pc[t] \in SlotPCs /\ op[t] = "shutdown" => Sockets[fd[t]].ul >= 0

\* FreshSlotIsFree is not inductive without HolderInv, which says that nobody
\* writes the status of a slot that find_free_socket has just found; HolderInv
\* is not without AloneInv, when calls that write it are made.
HInv == IInv /\ OpsInv /\ HolderInv /\ FreshSlotIsFree /\ (Exclusive => AloneInv)

-----------------------------------------------------------------------------
(* Every step.                                                             *)

\* A step that moves no slot from holder to holder.
LEMMA SameHolders ==
  ASSUME HolderInv, fds' = fds,
         \A s \in Slots : Live(s)' <=> Live(s),
         \A t \in Tasks, s \in Slots : Holder(t, s)' <=> Holder(t, s)
  PROVE  HolderInv'
BY DEF HolderInv, OneHolder

\* A slot has one holder while it is alive and none while it is free, after every
\* step: find_free_socket makes its caller the holder, net_closesocket's last
\* store ends it, and the other stores into status keep a live slot alive.
LEMMA HolderStep == HInv /\ (Exclusive \/ DataCallsOnly) /\ [Next]_vars => HolderInv'
<1> SUFFICES ASSUME HInv, Exclusive \/ DataCallsOnly, [Next]_vars PROVE HolderInv'
  OBVIOUS
<1> USE NetSocketAssumption, ConstantFacts
    DEF HInv, IInv, TypeOK, PcInv, PcInvOf, Socket, Statuses, PCs, AllOps, NoSlot, NoUl, BadUl, OK, ERR,
        SlotPCs, CreatePCs, FindPCs, CheckFirst, CreateUnlocked, CreateLocked,
        Goto, Return, ulVars, taskVars,
        HolderInv, OneHolder, Holder, Given, Closes, OpsInv, Exclusive, DataCallsOnly, Uses, Live
<1>0. ASSUME fds' = fds,
             \A s \in Slots : Live(s)' <=> Live(s),
             \A t \in Tasks, s \in Slots : Holder(t, s)' <=> Holder(t, s)
      PROVE  HolderInv'
  BY <1>0, SameHolders, Zenon
<1>1. ASSUME NEW t \in Tasks, CallSocket(t) PROVE HolderInv'
  BY <1>1 DEF CallSocket
<1>2. ASSUME NEW t \in Tasks, Done(t) PROVE HolderInv'
  BY <1>2 DEF Done
<1>3. ASSUME NEW t \in Tasks, IsValidSocket(t) PROVE HolderInv'
  BY <1>3 DEF IsValidSocket
<1>4. ASSUME NEW t \in Tasks, CheckLowLevelSocket(t) PROVE HolderInv'
  BY <1>4 DEF CheckLowLevelSocket, HasUl
<1>5. ASSUME NEW t \in Tasks, GetAndLock(t) PROVE HolderInv'
  BY <1>5 DEF GetAndLock
<1>6. ASSUME NEW t \in Tasks, SetsockoptKept(t) PROVE HolderInv'
  BY <1>6 DEF SetsockoptKept
<1>7. ASSUME NEW t \in Tasks, CreateLowLevel(t) PROVE HolderInv'
  <2>1. fds' = fds /\ fd[t] \in Slots
    BY <1>7 DEF CreateLowLevel
  <2>2. Sockets' = Sockets \/ Sockets' = [ Sockets EXCEPT ![fd[t]].ul = 0 ]
    BY <1>7 DEF CreateLowLevel
  <2>3. \A s \in Slots : Live(s)' <=> Live(s)
    BY <2>1, <2>2
  <2>4. \A u \in Tasks, s \in Slots : Holder(u, s)' <=> Holder(u, s)
    BY <1>7 DEF CreateLowLevel
  <2> QED
    BY <1>0, <2>1, <2>3, <2>4
<1>8. ASSUME NEW t \in Tasks, PsocketReturns(t) PROVE HolderInv'
  BY <1>8 DEF PsocketReturns
<1>9. ASSUME NEW t \in Tasks, Created(t) PROVE HolderInv'
  BY <1>9 DEF Created
<1>10. ASSUME NEW t \in Tasks, FreeBareSlot(t) PROVE HolderInv'
  <2>1. op[t] = "close"
    BY <1>10 DEF FreeBareSlot, Closing, HasUl, AloneInv
  <2>2. \A s \in Slots : Live(s)' <=> Live(s) /\ s # fd[t]
    BY <1>10 DEF FreeBareSlot
  <2>3. \A u \in Tasks, s \in Slots : Holder(u, s)' <=> Holder(u, s) /\ s # fd[t]
    BY <1>10, <2>1 DEF FreeBareSlot
  <2>4. fds' = fds /\ fd[t] \notin fds
    BY <1>10, <2>1 DEF FreeBareSlot
  <2> QED
    BY <2>2, <2>3, <2>4
<1>11. ASSUME NEW t \in Tasks, AccessDenied(t) PROVE HolderInv'
  BY <1>11 DEF AccessDenied
<1>12. ASSUME NEW t \in Tasks, AccessGranted(t) PROVE HolderInv'
  BY <1>12 DEF AccessGranted, Closing, HasUl
<1>13. ASSUME NEW t \in Tasks, EnterDriver(t) PROVE HolderInv'
  BY <1>13 DEF EnterDriver
<1>14. ASSUME NEW t \in Tasks, DriverReturns(t) PROVE HolderInv'
  BY <1>14 DEF DriverReturns
<1>15. ASSUME NEW t \in Tasks, Relock(t) PROVE HolderInv'
  BY <1>15 DEF Relock
<1>16. ASSUME NEW t \in Tasks, ConnectPost(t) PROVE HolderInv'
  <2>1. fd[t] \in fds /\ Live(fd[t])
    BY <1>16 DEF ConnectPost, AloneInv
  <2>2. \A s \in Slots : Live(s)' <=> Live(s)
    BY <1>16, <2>1 DEF ConnectPost
  <2>3. fds' = fds /\ \A u \in Tasks, s \in Slots : Holder(u, s)' <=> Holder(u, s)
    BY <1>16 DEF ConnectPost, Finish
  <2> QED
    BY <1>0, <2>2, <2>3
<1>17. ASSUME NEW t \in Tasks, ClosePost(t) PROVE HolderInv'
  <2>1. \A s \in Slots : Live(s)' <=> Live(s) /\ s # fd[t]
    BY <1>17 DEF ClosePost
  <2>2. \A u \in Tasks, s \in Slots : Holder(u, s)' <=> Holder(u, s) /\ s # fd[t]
    BY <1>17 DEF ClosePost, Finish
  <2>3. fds' = fds /\ fd[t] \notin fds
    BY <1>17 DEF ClosePost, Finish
  <2> QED
    BY <2>1, <2>2, <2>3
<1>18. ASSUME NEW t \in Tasks, PlainPost(t) PROVE HolderInv'
  BY <1>18 DEF PlainPost, Finish
<1>19. ASSUME NEW t \in Tasks, AcceptFailed(t) PROVE HolderInv'
  BY <1>19 DEF AcceptFailed, Finish
<1>20. ASSUME NEW t \in Tasks, AcceptPost(t) PROVE HolderInv'
  <2>1. fd[t] \in fds /\ Live(fd[t])
    BY <1>20 DEF AcceptPost, AloneInv
  <2>2. \A s \in Slots : Live(s)' <=> Live(s)
    BY <1>20, <2>1 DEF AcceptPost
  <2>3. fds' = fds /\ \A u \in Tasks, s \in Slots : Holder(u, s)' <=> Holder(u, s)
    BY <1>20 DEF AcceptPost
  <2> QED
    BY <1>0, <2>2, <2>3
<1>21. ASSUME NEW t \in Tasks, ArrayLock(t) PROVE HolderInv'
  BY <1>21 DEF ArrayLock
<1>22. ASSUME NEW t \in Tasks, Scan(t) PROVE HolderInv'
  <2>1. PICK r \in Slots : new' = [ new EXCEPT ![t] = r ]
    BY <1>22 DEF Scan, FreeSlots
  <2>2. \A u \in Tasks, s \in Slots : Holder(u, s)' <=> Holder(u, s)
    BY <1>22, <2>1 DEF Scan
  <2> QED
    BY <1>22, <1>0, <2>2 DEF Scan
<1>23. ASSUME NEW t \in Tasks, TableFull(t) PROVE HolderInv'
  BY <1>23 DEF TableFull
<1>24. ASSUME NEW t \in Tasks, Claim(t) PROVE HolderInv'
  <2>1. new[t] \in Slots /\ ~Live(new[t])
    BY <1>24 DEF Claim, FreshSlotIsFree
  <2>2. \A s \in Slots : Live(s)' <=> Live(s) \/ s = new[t]
    BY <1>24, <2>1 DEF Claim
  <2>3. \A u \in Tasks, s \in Slots : Holder(u, s)' <=> Holder(u, s) \/ (u = t /\ s = new[t])
    BY <1>24 DEF Claim
  <2>4. fds' = fds
    BY <1>24 DEF Claim
  <2> QED
    BY <2>1, <2>2, <2>3, <2>4
<1>25. ASSUME NEW t \in Tasks, SlotLock(t) PROVE HolderInv'
  BY <1>25 DEF SlotLock
<1>26. ASSUME NEW t \in Tasks, FillSocket(t) PROVE HolderInv'
  BY <1>26 DEF FillSocket
<1>27. ASSUME NEW t \in Tasks, CloneSocket(t) PROVE HolderInv'
  <2>1. fd[t] \in fds /\ Live(fd[t]) /\ Live(new[t]) /\ new[t] \in Slots
    BY <1>27 DEF CloneSocket, AloneInv
  <2>2. Sockets'[new[t]].status = Sockets[fd[t]].status
    BY <1>27, <2>1 DEF CloneSocket
  <2>3. \A s \in Slots : Live(s)' <=> Live(s)
    BY <1>27, <2>1, <2>2 DEF CloneSocket
  <2>4. fds' = fds /\ \A u \in Tasks, s \in Slots : Holder(u, s)' <=> Holder(u, s)
    BY <1>27 DEF CloneSocket
  <2> QED
    BY <1>0, <2>3, <2>4
<1>28. ASSUME NEW t \in Tasks, NEW o \in Ops \ {"socket"}, NEW s \in fds, Call(t, o, s) PROVE HolderInv'
  BY <1>28 DEF Call
<1>29. CASE LinkChange
  BY <1>29 DEF LinkChange
<1>30. CASE UNCHANGED vars
  BY <1>30 DEF vars
<1> QED
  BY <1>1, <1>2, <1>3, <1>4, <1>5, <1>6, <1>7, <1>8, <1>9, <1>10, <1>11, <1>12, <1>13, <1>14, <1>15, <1>16, <1>17, <1>18, <1>19, <1>20, <1>21, <1>22, <1>23, <1>24, <1>25, <1>26, <1>27, <1>28, <1>29, <1>30
     DEF Next, Running, Acquiring

\* A call stays the call it is, and only those of CheckFirst look at ulsocket
\* before the lock.
LEMMA OpsStep == HInv /\ [Next]_vars => OpsInv'
<1> SUFFICES ASSUME HInv, [Next]_vars PROVE OpsInv'
  OBVIOUS
<1> USE DEF HInv, IInv, TypeOK, PCs, Goto, Return, taskVars, OpsInv
<1>1. ASSUME NEW t \in Tasks, CallSocket(t) PROVE OpsInv'
  BY <1>1 DEF CallSocket
<1>2. ASSUME NEW t \in Tasks, Done(t) PROVE OpsInv'
  BY <1>2 DEF Done
<1>3. ASSUME NEW t \in Tasks, IsValidSocket(t) PROVE OpsInv'
  BY <1>3 DEF IsValidSocket
<1>4. ASSUME NEW t \in Tasks, CheckLowLevelSocket(t) PROVE OpsInv'
  BY <1>4 DEF CheckLowLevelSocket, HasUl
<1>5. ASSUME NEW t \in Tasks, GetAndLock(t) PROVE OpsInv'
  BY <1>5 DEF GetAndLock
<1>6. ASSUME NEW t \in Tasks, SetsockoptKept(t) PROVE OpsInv'
  BY <1>6 DEF SetsockoptKept
<1>7. ASSUME NEW t \in Tasks, CreateLowLevel(t) PROVE OpsInv'
  BY <1>7 DEF CreateLowLevel
<1>8. ASSUME NEW t \in Tasks, PsocketReturns(t) PROVE OpsInv'
  BY <1>8 DEF PsocketReturns
<1>9. ASSUME NEW t \in Tasks, Created(t) PROVE OpsInv'
  BY <1>9 DEF Created
<1>10. ASSUME NEW t \in Tasks, FreeBareSlot(t) PROVE OpsInv'
  BY <1>10 DEF FreeBareSlot, Closing, HasUl
<1>11. ASSUME NEW t \in Tasks, AccessDenied(t) PROVE OpsInv'
  BY <1>11 DEF AccessDenied
<1>12. ASSUME NEW t \in Tasks, AccessGranted(t) PROVE OpsInv'
  BY <1>12 DEF AccessGranted, Closing, HasUl
<1>13. ASSUME NEW t \in Tasks, EnterDriver(t) PROVE OpsInv'
  BY <1>13 DEF EnterDriver
<1>14. ASSUME NEW t \in Tasks, DriverReturns(t) PROVE OpsInv'
  BY <1>14 DEF DriverReturns
<1>15. ASSUME NEW t \in Tasks, Relock(t) PROVE OpsInv'
  BY <1>15 DEF Relock
<1>16. ASSUME NEW t \in Tasks, ConnectPost(t) PROVE OpsInv'
  BY <1>16 DEF ConnectPost, Finish
<1>17. ASSUME NEW t \in Tasks, ClosePost(t) PROVE OpsInv'
  BY <1>17 DEF ClosePost, Finish
<1>18. ASSUME NEW t \in Tasks, PlainPost(t) PROVE OpsInv'
  BY <1>18 DEF PlainPost, Finish
<1>19. ASSUME NEW t \in Tasks, AcceptFailed(t) PROVE OpsInv'
  BY <1>19 DEF AcceptFailed, Finish
<1>20. ASSUME NEW t \in Tasks, AcceptPost(t) PROVE OpsInv'
  BY <1>20 DEF AcceptPost
<1>21. ASSUME NEW t \in Tasks, ArrayLock(t) PROVE OpsInv'
  BY <1>21 DEF ArrayLock
<1>22. ASSUME NEW t \in Tasks, Scan(t) PROVE OpsInv'
  BY <1>22 DEF Scan, FreeSlots
<1>23. ASSUME NEW t \in Tasks, TableFull(t) PROVE OpsInv'
  BY <1>23 DEF TableFull
<1>24. ASSUME NEW t \in Tasks, Claim(t) PROVE OpsInv'
  BY <1>24 DEF Claim
<1>25. ASSUME NEW t \in Tasks, SlotLock(t) PROVE OpsInv'
  BY <1>25 DEF SlotLock
<1>26. ASSUME NEW t \in Tasks, FillSocket(t) PROVE OpsInv'
  BY <1>26 DEF FillSocket
<1>27. ASSUME NEW t \in Tasks, CloneSocket(t) PROVE OpsInv'
  BY <1>27 DEF CloneSocket
<1>28. ASSUME NEW t \in Tasks, NEW o \in Ops \ {"socket"}, NEW s \in fds, Call(t, o, s) PROVE OpsInv'
  BY <1>28 DEF Call
<1>29. CASE LinkChange
  BY <1>29 DEF LinkChange
<1>30. CASE UNCHANGED vars
  BY <1>30 DEF vars
<1> QED
  BY <1>1, <1>2, <1>3, <1>4, <1>5, <1>6, <1>7, <1>8, <1>9, <1>10, <1>11, <1>12, <1>13, <1>14, <1>15, <1>16, <1>17, <1>18, <1>19, <1>20, <1>21, <1>22, <1>23, <1>24, <1>25, <1>26, <1>27, <1>28, <1>29, <1>30
     DEF Next, Running, Acquiring

\* Between the scan and the claim of find_free_socket nobody else claims, because
\* the table is locked, and nobody writes CONNECTED into the slot that was found.
LEMMA FreshStep == HInv /\ (Exclusive \/ DataCallsOnly) /\ [Next]_vars => FreshSlotIsFree'
<1> SUFFICES ASSUME HInv, Exclusive \/ DataCallsOnly, [Next]_vars PROVE FreshSlotIsFree'
  OBVIOUS
<1> USE NetSocketAssumption, ConstantFacts
    DEF HInv, IInv, TypeOK, PcInv, PcInvOf, Socket, Statuses, PCs, AllOps, NoSlot, NoUl, BadUl, OK, ERR,
        SlotPCs, CreatePCs, FindPCs, CheckFirst, CreateUnlocked, CreateLocked,
        Goto, Return, ulVars, taskVars,
        OpsInv, Exclusive, DataCallsOnly, Uses, Live, FreshSlotIsFree
<1>1. ASSUME NEW t \in Tasks, CallSocket(t) PROVE FreshSlotIsFree'
  BY <1>1 DEF CallSocket
<1>2. ASSUME NEW t \in Tasks, Done(t) PROVE FreshSlotIsFree'
  BY <1>2 DEF Done
<1>3. ASSUME NEW t \in Tasks, IsValidSocket(t) PROVE FreshSlotIsFree'
  BY <1>3 DEF IsValidSocket
<1>4. ASSUME NEW t \in Tasks, CheckLowLevelSocket(t) PROVE FreshSlotIsFree'
  BY <1>4 DEF CheckLowLevelSocket, HasUl
<1>5. ASSUME NEW t \in Tasks, GetAndLock(t) PROVE FreshSlotIsFree'
  BY <1>5 DEF GetAndLock
<1>6. ASSUME NEW t \in Tasks, SetsockoptKept(t) PROVE FreshSlotIsFree'
  BY <1>6 DEF SetsockoptKept
<1>7. ASSUME NEW t \in Tasks, CreateLowLevel(t) PROVE FreshSlotIsFree'
  BY <1>7 DEF CreateLowLevel
<1>8. ASSUME NEW t \in Tasks, PsocketReturns(t) PROVE FreshSlotIsFree'
  BY <1>8 DEF PsocketReturns
<1>9. ASSUME NEW t \in Tasks, Created(t) PROVE FreshSlotIsFree'
  BY <1>9 DEF Created
<1>10. ASSUME NEW t \in Tasks, FreeBareSlot(t) PROVE FreshSlotIsFree'
  BY <1>10 DEF FreeBareSlot, Closing, HasUl
<1>11. ASSUME NEW t \in Tasks, AccessDenied(t) PROVE FreshSlotIsFree'
  BY <1>11 DEF AccessDenied
<1>12. ASSUME NEW t \in Tasks, AccessGranted(t) PROVE FreshSlotIsFree'
  BY <1>12 DEF AccessGranted, Closing, HasUl
<1>13. ASSUME NEW t \in Tasks, EnterDriver(t) PROVE FreshSlotIsFree'
  BY <1>13 DEF EnterDriver
<1>14. ASSUME NEW t \in Tasks, DriverReturns(t) PROVE FreshSlotIsFree'
  BY <1>14 DEF DriverReturns
<1>15. ASSUME NEW t \in Tasks, Relock(t) PROVE FreshSlotIsFree'
  BY <1>15 DEF Relock
<1>16. ASSUME NEW t \in Tasks, ConnectPost(t) PROVE FreshSlotIsFree'
  <2>1. fd[t] \in fds /\ Live(fd[t])
    BY <1>16 DEF ConnectPost, AloneInv, HolderInv, OneHolder
  <2> QED
    BY <1>16, <2>1 DEF ConnectPost, Finish
<1>17. ASSUME NEW t \in Tasks, ClosePost(t) PROVE FreshSlotIsFree'
  BY <1>17 DEF ClosePost, Finish
<1>18. ASSUME NEW t \in Tasks, PlainPost(t) PROVE FreshSlotIsFree'
  BY <1>18 DEF PlainPost, Finish
<1>19. ASSUME NEW t \in Tasks, AcceptFailed(t) PROVE FreshSlotIsFree'
  BY <1>19 DEF AcceptFailed, Finish
<1>20. ASSUME NEW t \in Tasks, AcceptPost(t) PROVE FreshSlotIsFree'
  <2>1. fd[t] \in fds /\ Live(fd[t])
    BY <1>20 DEF AcceptPost, AloneInv, HolderInv, OneHolder
  <2> QED
    BY <1>20, <2>1 DEF AcceptPost
<1>21. ASSUME NEW t \in Tasks, ArrayLock(t) PROVE FreshSlotIsFree'
  BY <1>21 DEF ArrayLock
<1>22. ASSUME NEW t \in Tasks, Scan(t) PROVE FreshSlotIsFree'
  BY <1>22 DEF Scan, FreeSlots
<1>23. ASSUME NEW t \in Tasks, TableFull(t) PROVE FreshSlotIsFree'
  BY <1>23 DEF TableFull
<1>24. ASSUME NEW t \in Tasks, Claim(t) PROVE FreshSlotIsFree'
  <2>1. \A u \in Tasks \ {t} : pc[u] # "claim"
    BY <1>24 DEF Claim, LockInv, Holds, Locks
  <2> QED
    BY <1>24, <2>1 DEF Claim
<1>25. ASSUME NEW t \in Tasks, SlotLock(t) PROVE FreshSlotIsFree'
  BY <1>25 DEF SlotLock
<1>26. ASSUME NEW t \in Tasks, FillSocket(t) PROVE FreshSlotIsFree'
  BY <1>26 DEF FillSocket
<1>27. ASSUME NEW t \in Tasks, CloneSocket(t) PROVE FreshSlotIsFree'
  <2>1. Live(new[t]) /\ new[t] \in Slots
    BY <1>27 DEF CloneSocket, HolderInv, OneHolder, Holder, Given
  <2> QED
    BY <1>27, <2>1 DEF CloneSocket
<1>28. ASSUME NEW t \in Tasks, NEW o \in Ops \ {"socket"}, NEW s \in fds, Call(t, o, s) PROVE FreshSlotIsFree'
  BY <1>28 DEF Call
<1>29. CASE LinkChange
  BY <1>29 DEF LinkChange
<1>30. CASE UNCHANGED vars
  BY <1>30 DEF vars
<1> QED
  BY <1>1, <1>2, <1>3, <1>4, <1>5, <1>6, <1>7, <1>8, <1>9, <1>10, <1>11, <1>12, <1>13, <1>14, <1>15, <1>16, <1>17, <1>18, <1>19, <1>20, <1>21, <1>22, <1>23, <1>24, <1>25, <1>26, <1>27, <1>28, <1>29, <1>30
     DEF Next, Running, Acquiring

\* An application that starts no call on a descriptor in use has one call on it
\* through every step, and the ulsocket that net_shutdown was called for stays.
LEMMA AloneStep == HInv /\ Exclusive /\ [Next]_vars => AloneInv'
<1> SUFFICES ASSUME HInv, Exclusive, [Next]_vars PROVE AloneInv'
  OBVIOUS
<1> USE NetSocketAssumption, ConstantFacts
    DEF HInv, IInv, TypeOK, PcInv, PcInvOf, Socket, Statuses, PCs, AllOps, NoSlot, NoUl, BadUl, OK, ERR,
        SlotPCs, CreatePCs, FindPCs, CheckFirst, CreateUnlocked, CreateLocked,
        Goto, Return, ulVars, taskVars,
        OpsInv, Exclusive, Uses, AloneInv
<1>1. ASSUME NEW t \in Tasks, CallSocket(t) PROVE AloneInv'
  BY <1>1 DEF CallSocket
<1>2. ASSUME NEW t \in Tasks, Done(t) PROVE AloneInv'
  BY <1>2 DEF Done
<1>3. ASSUME NEW t \in Tasks, IsValidSocket(t) PROVE AloneInv'
  BY <1>3 DEF IsValidSocket
<1>4. ASSUME NEW t \in Tasks, CheckLowLevelSocket(t) PROVE AloneInv'
  BY <1>4 DEF CheckLowLevelSocket, HasUl
<1>5. ASSUME NEW t \in Tasks, GetAndLock(t) PROVE AloneInv'
  BY <1>5 DEF GetAndLock
<1>6. ASSUME NEW t \in Tasks, SetsockoptKept(t) PROVE AloneInv'
  BY <1>6 DEF SetsockoptKept
<1>7. ASSUME NEW t \in Tasks, CreateLowLevel(t) PROVE AloneInv'
  BY <1>7 DEF CreateLowLevel
<1>8. ASSUME NEW t \in Tasks, PsocketReturns(t) PROVE AloneInv'
  BY <1>8 DEF PsocketReturns
<1>9. ASSUME NEW t \in Tasks, Created(t) PROVE AloneInv'
  BY <1>9 DEF Created
<1>10. ASSUME NEW t \in Tasks, FreeBareSlot(t) PROVE AloneInv'
  BY <1>10 DEF FreeBareSlot, Closing, HasUl
<1>11. ASSUME NEW t \in Tasks, AccessDenied(t) PROVE AloneInv'
  BY <1>11 DEF AccessDenied
<1>12. ASSUME NEW t \in Tasks, AccessGranted(t) PROVE AloneInv'
  BY <1>12 DEF AccessGranted, Closing, HasUl
<1>13. ASSUME NEW t \in Tasks, EnterDriver(t) PROVE AloneInv'
  BY <1>13 DEF EnterDriver
<1>14. ASSUME NEW t \in Tasks, DriverReturns(t) PROVE AloneInv'
  BY <1>14 DEF DriverReturns
<1>15. ASSUME NEW t \in Tasks, Relock(t) PROVE AloneInv'
  BY <1>15 DEF Relock
<1>16. ASSUME NEW t \in Tasks, ConnectPost(t) PROVE AloneInv'
  BY <1>16 DEF ConnectPost, Finish
<1>17. ASSUME NEW t \in Tasks, ClosePost(t) PROVE AloneInv'
  <2>1. \A u \in Tasks \ {t} : Uses(u) => fd[u] # fd[t]
    BY <1>17 DEF ClosePost
  <2> QED
    BY <1>17, <2>1 DEF ClosePost, Finish
<1>18. ASSUME NEW t \in Tasks, PlainPost(t) PROVE AloneInv'
  BY <1>18 DEF PlainPost, Finish
<1>19. ASSUME NEW t \in Tasks, AcceptFailed(t) PROVE AloneInv'
  BY <1>19 DEF AcceptFailed, Finish
<1>20. ASSUME NEW t \in Tasks, AcceptPost(t) PROVE AloneInv'
  BY <1>20 DEF AcceptPost
<1>21. ASSUME NEW t \in Tasks, ArrayLock(t) PROVE AloneInv'
  BY <1>21 DEF ArrayLock
<1>22. ASSUME NEW t \in Tasks, Scan(t) PROVE AloneInv'
  BY <1>22 DEF Scan, FreeSlots
<1>23. ASSUME NEW t \in Tasks, TableFull(t) PROVE AloneInv'
  BY <1>23 DEF TableFull
<1>24. ASSUME NEW t \in Tasks, Claim(t) PROVE AloneInv'
  BY <1>24 DEF Claim
<1>25. ASSUME NEW t \in Tasks, SlotLock(t) PROVE AloneInv'
  BY <1>25 DEF SlotLock
<1>26. ASSUME NEW t \in Tasks, FillSocket(t) PROVE AloneInv'
  BY <1>26 DEF FillSocket
<1>27. ASSUME NEW t \in Tasks, CloneSocket(t) PROVE AloneInv'
  <2>1. new[t] \in Slots \ fds
    BY <1>27 DEF CloneSocket, HolderInv, OneHolder, Holder, Given
  <2>2. \A u \in Tasks : pc[u] \in SlotPCs /\ op[u] = "shutdown" => Sockets'[fd[u]] = Sockets[fd[u]]
    BY <1>27, <2>1 DEF CloneSocket
  <2>3. UNCHANGED << fds, op, fd >> /\ pc' = [ pc EXCEPT ![t] = "done" ] /\ Uses(t)
    BY <1>27 DEF CloneSocket
  <2> QED
    BY <2>2, <2>3
<1>28. ASSUME NEW t \in Tasks, NEW o \in Ops \ {"socket"}, NEW s \in fds, Call(t, o, s) PROVE AloneInv'
  <2>1. s \in Slots /\ op' = [ op EXCEPT ![t] = o ] /\ fd' = [ fd EXCEPT ![t] = s ]
        /\ pc' = [ pc EXCEPT ![t] = "valid" ] /\ Sockets' = Sockets
    BY <1>28 DEF Call
  <2>2. \A u \in Tasks : Uses(u) => fd[u] # s
    BY <1>28 DEF Call, InUse
  <2>3. pc[t] = "idle" /\ (o = "shutdown" => Sockets[s].ul >= 0)
    BY <1>28 DEF Call
  <2>4. fds' = IF o = "close" THEN fds \ {s} ELSE fds
    BY <1>28 DEF Call
  <2>5. \A u \in Tasks \ {t} : Uses(u)' <=> Uses(u)
    BY <2>1
  <2>6. \A u, v \in Tasks : Uses(u)' /\ Uses(v)' /\ fd'[u] = fd'[v] => u = v
    BY <2>1, <2>2, <2>5
  <2>7. \A u \in Tasks : Uses(u)' /\ op'[u] # "close" => fd'[u] \in fds'
    BY <2>1, <2>2, <2>4, <2>5
  <2> QED
    BY <2>1, <2>3, <2>6, <2>7
<1>29. CASE LinkChange
  BY <1>29 DEF LinkChange
<1>30. CASE UNCHANGED vars
  BY <1>30 DEF vars
<1> QED
  BY <1>1, <1>2, <1>3, <1>4, <1>5, <1>6, <1>7, <1>8, <1>9, <1>10, <1>11, <1>12, <1>13, <1>14, <1>15, <1>16, <1>17, <1>18, <1>19, <1>20, <1>21, <1>22, <1>23, <1>24, <1>25, <1>26, <1>27, <1>28, <1>29, <1>30
     DEF Next, Running, Acquiring

-----------------------------------------------------------------------------
(* Theorems.                                                               *)

\* The table is free and no call has begun.
LEMMA InitHInv == Init => HInv
<1> SUFFICES ASSUME Init PROVE HInv
  OBVIOUS
<1>1. IInv
  BY InitIInv
<1>2. OpsInv /\ HolderInv /\ FreshSlotIsFree /\ AloneInv
  BY DEF Init, OpsInv, HolderInv, OneHolder, Holder, Given, Closes, SlotPCs, Live,
         FreshSlotIsFree, AloneInv, Uses
<1> QED
  BY <1>1, <1>2 DEF HInv

\* The step of the induction.
LEMMA HolderInductive == ASSUME Disciplined, HInv, [Next]_vars PROVE HInv'
<1>1. IInv'
  BY TypeStep, LockStep DEF HInv, IInv
<1> QED
  BY <1>1, HolderStep, OpsStep, FreshStep, AloneStep DEF HInv, Disciplined

\* The inductive invariant.
THEOREM HoldersInductive == ASSUME Disciplined PROVE Spec => []HInv
<1>1. Init => HInv
  BY InitHInv
<1>2. HInv /\ [Next]_vars => HInv'
  BY HolderInductive
<1> QED
  BY <1>1, <1>2, PTL DEF Spec

\* A slot is alive exactly while the application, the call that hands it out or
\* the call that closes it holds it, and it has one such holder: none is lost and
\* none is freed twice.
THEOREM SlotHolders == ASSUME Disciplined PROVE Spec => []HolderInv
<1>1. HInv => HolderInv
  BY DEF HInv
<1> QED
  BY <1>1, HoldersInductive, PTL

\* The slot that find_free_socket found free is free when it is claimed: no two
\* calls of net_socket and net_accept are handed the same one, and no call in
\* progress revives a slot that was closed.
THEOREM FreshSlots == ASSUME Disciplined PROVE Spec => []FreshSlotIsFree
<1>1. HInv => FreshSlotIsFree
  BY DEF HInv
<1> QED
  BY <1>1, HoldersInductive, PTL

\* A descriptor that net_socket or net_accept gave the application is alive until
\* the application closes it, whatever its other tasks call and however the
\* calls fail.
THEOREM DescriptorsAlive == ASSUME Disciplined PROVE Spec => []FdAlive
<1>1. HInv => FdAlive
  BY DEF HInv, HolderInv, OneHolder, FdAlive, IInv, TypeOK
<1> QED
  BY <1>1, HoldersInductive, PTL

\* The slot that clone_socket waits for inside the table's lock is nobody's
\* descriptor yet, so that no net_accept waiting for the table has it locked.
LEMMA HoldersDoNotCross == HInv /\ Disciplined => NoCircularWait
<1> SUFFICES ASSUME HInv, Disciplined,
                    NEW t \in Tasks, NEW u \in Tasks, NEW l \in Locks, NEW m \in Locks,
                    WaitsFor(t, l), Holds(u, l), WaitsFor(u, m), Holds(t, m)
             PROVE  FALSE
  BY DEF NoCircularWait
<1> USE DEF HInv, IInv, PcInv, PcInvOf
<1>1. ASSUME NEW v \in Tasks, NEW w \in Tasks, op[v] = "accept",
             pc[v] \in {"array", "slotlock"}, pc[w] = "slotlock"
      PROVE  fd[v] # new[w]
  <2>1. fd[v] \in fds /\ fd[v] \in Slots
    BY <1>1 DEF Disciplined, DataCallsOnly, OpsInv, AloneInv, Uses, FindPCs
  <2>2. Holder(w, new[w])
    BY <1>1 DEF Holder, Given
  <2> QED
    BY <2>1, <2>2 DEF HolderInv, OneHolder
<1>2. pc[t] \notin {"lock", "relock"} /\ pc[u] \notin {"lock", "relock"}
  BY DEF Holds
<1>3. CASE pc[t] = "array"
  <2>1. l = ARRAY /\ m = fd[t] /\ op[t] = "accept"
    BY <1>3 DEF WaitsFor, Holds
  <2>2. fd[t] # ARRAY
    BY <1>3, <2>1, ConstantFacts DEF FindPCs
  <2>3. pc[u] = "slotlock" /\ m = new[u]
    BY <1>2, <2>1, <2>2 DEF WaitsFor
  <2> QED
    BY <1>1, <1>3, <2>1, <2>3
<1>4. CASE pc[t] = "slotlock"
  <2>1. l = new[t] /\ new[t] # ARRAY
    BY <1>4, ConstantFacts DEF WaitsFor
  <2>2. pc[u] \in {"array", "slotlock"}
    BY <1>2 DEF WaitsFor
  <2>3. op[u] = "accept" /\ fd[u] = new[t]
    BY <2>1, <2>2 DEF Holds
  <2> QED
    BY <1>1, <1>4, <2>2, <2>3
<1> QED
  BY <1>2, <1>3, <1>4 DEF WaitsFor

\* The slot locks and the table's lock are taken in both orders by net_accept and
\* find_free_socket, and no two tasks ever wait for each other's.
THEOREM NoCrossedLocks == ASSUME Disciplined PROVE Spec => []NoCircularWait
<1> QED
  BY HoldersDoNotCross, HoldersInductive, PTL
=============================================================================
