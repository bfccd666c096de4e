-------------------------- MODULE NetSocket_proofs --------------------------
(***************************************************************************)
(* Proofs about NetSocket, for any number of tasks, slots and low-level    *)
(* sockets, for any choice of API functions, whether or not descriptors    *)
(* are shared and the connection is lost.                                  *)
(***************************************************************************)
EXTENDS NetSocket, TLAPS

\* The places of a call between its entry and find_free_socket, those in which
\* it is in create_low_level_socket, and those of find_free_socket.
SlotPCs   == { "valid", "check", "lock", "create", "creating", "created", "access",
               "call", "driver", "relock", "post" }
CreatePCs == { "create", "creating", "created" }
FindPCs   == { "array", "scan", "claim", "slotlock", "fill" }

\* What a task knows at each place of its call.
PcInvOf(t) ==
  /\ pc[t] \in SlotPCs => op[t] # "socket"
  /\ pc[t] \in SlotPCs \cup FindPCs /\ op[t] # "socket" => fd[t] \in Slots
  /\ pc[t] \in CreatePCs => op[t] \in CreateLocked \cup CreateUnlocked
  /\ pc[t] \in FindPCs => op[t] \in {"socket", "accept"}
  /\ pc[t] \in {"claim", "slotlock", "fill"} => new[t] \in Slots
  /\ pc[t] # "done" => ret[t] \in UlIds \cup {ERR}
  /\ pc[t] = "done" /\ op[t] \in {"socket", "accept"} => ret[t] \in Slots \cup {ERR}

PcInv == \A t \in Tasks : PcInvOf(t)

IInv == TypeOK /\ PcInv /\ LockInv

-----------------------------------------------------------------------------
(* Types.                                                                  *)

LEMMA ConstantFacts ==
  /\ Slots \subseteq Int /\ UlIds \subseteq Int
  /\ 0 \in Slots /\ 0 \in UlIds
  /\ ARRAY \notin Slots
  /\ \A s \in Slots \cup UlIds : s >= 0
BY NetSocketAssumption DEF Slots, UlIds, ARRAY

\* The initial state.
LEMMA InitIInv == Init => IInv
<1> SUFFICES ASSUME Init PROVE IInv
  OBVIOUS
<1> USE ConstantFacts DEF Init
<1>1. TypeOK
  BY DEF TypeOK, Socket, Statuses, PCs, AllOps, NoSlot, NoUl, OK, ERR
<1>2. PcInv
  BY DEF PcInv, PcInvOf, SlotPCs, CreatePCs, FindPCs, OK
<1>3. LockInv
  BY DEF LockInv, Holds, Locks
<1> QED
  BY <1>1, <1>2, <1>3 DEF IInv

\* The type of every variable, and the place of every task, survive every step.
LEMMA TypeStep == TypeOK /\ PcInv /\ [Next]_vars => TypeOK' /\ PcInv'
<1> SUFFICES ASSUME TypeOK, PcInv, [Next]_vars PROVE TypeOK' /\ PcInv'
  OBVIOUS
<1> USE NetSocketAssumption, ConstantFacts
    DEF TypeOK, PcInv, PcInvOf, Socket, Statuses, PCs, AllOps, NoSlot, NoUl, BadUl, OK, ERR,
        SlotPCs, CreatePCs, FindPCs, CheckFirst, CreateUnlocked, CreateLocked,
        Goto, Return, Acquire, Release, ulVars, taskVars
<1>1. ASSUME NEW t \in Tasks, CallSocket(t) PROVE TypeOK' /\ PcInv'
  BY <1>1 DEF CallSocket
<1>2. ASSUME NEW t \in Tasks, Done(t) PROVE TypeOK' /\ PcInv'
  <2>1. op[t] \in {"socket", "accept"} /\ ret[t] >= 0 => ret[t] \in Slots
    BY <1>2 DEF Done
  <2>2. fds' \subseteq Slots
    BY <1>2, <2>1 DEF Done
  <2>3. PcInv'
    BY <1>2 DEF Done
  <2>4. Sockets' = Sockets /\ NetMutex' = NetMutex /\ lost' = lost /\ UNCHANGED ulVars
    BY <1>2 DEF Done
  <2>5. /\ pc' \in [ Tasks -> PCs ] /\ op' \in [ Tasks -> AllOps ]
        /\ fd' \in [ Tasks -> Slots \cup {NoSlot} ] /\ new' \in [ Tasks -> Slots \cup {NoSlot} ]
        /\ arg' \in [ Tasks -> UlIds \cup {NoUl, BadUl} ]
        /\ ret' \in [ Tasks -> Slots \cup UlIds \cup {ERR} ] /\ retry' \in [ Tasks -> BOOLEAN ]
    BY <1>2 DEF Done
  <2> QED
    BY <2>2, <2>3, <2>4, <2>5
<1>3. ASSUME NEW t \in Tasks, IsValidSocket(t) PROVE TypeOK' /\ PcInv'
  BY <1>3 DEF IsValidSocket
<1>4. ASSUME NEW t \in Tasks, CheckLowLevelSocket(t) PROVE TypeOK' /\ PcInv'
  BY <1>4 DEF CheckLowLevelSocket, HasUl
<1>5. ASSUME NEW t \in Tasks, GetAndLock(t) PROVE TypeOK' /\ PcInv'
  BY <1>5 DEF GetAndLock
<1>6. ASSUME NEW t \in Tasks, SetsockoptKept(t) PROVE TypeOK' /\ PcInv'
  BY <1>6 DEF SetsockoptKept
<1>7. ASSUME NEW t \in Tasks, CreateLowLevel(t) PROVE TypeOK' /\ PcInv'
  <2>1. Sockets' \in [ Slots -> Socket ]
    BY <1>7 DEF CreateLowLevel
  <2>2. PcInv'
    BY <1>7 DEF CreateLowLevel
  <2>3. pc' \in [ Tasks -> PCs ]
    BY <1>7 DEF CreateLowLevel
  <2> QED
    BY <1>7, <2>1, <2>2, <2>3 DEF CreateLowLevel
<1>8. ASSUME NEW t \in Tasks, PsocketReturns(t) PROVE TypeOK' /\ PcInv'
  BY <1>8 DEF PsocketReturns
<1>9. ASSUME NEW t \in Tasks, Created(t) PROVE TypeOK' /\ PcInv'
  <2>1. NetMutex' \in [ Locks -> {0, 1} ]
    BY <1>9 DEF Created
  <2>2. PcInv'
    BY <1>9 DEF Created
  <2>3. /\ pc' \in [ Tasks -> PCs ] /\ retry' \in [ Tasks -> BOOLEAN ]
        /\ ret' \in [ Tasks -> Slots \cup UlIds \cup {ERR} ]
    BY <1>9 DEF Created
  <2> QED
    BY <1>9, <2>1, <2>2, <2>3 DEF Created
<1>10. ASSUME NEW t \in Tasks, FreeBareSlot(t) PROVE TypeOK' /\ PcInv'
  BY <1>10 DEF FreeBareSlot, Closing
<1>11. ASSUME NEW t \in Tasks, AccessDenied(t) PROVE TypeOK' /\ PcInv'
  BY <1>11 DEF AccessDenied
<1>12. ASSUME NEW t \in Tasks, AccessGranted(t) PROVE TypeOK' /\ PcInv'
  BY <1>12 DEF AccessGranted, Closing
<1>13. ASSUME NEW t \in Tasks, EnterDriver(t) PROVE TypeOK' /\ PcInv'
  BY <1>13 DEF EnterDriver
<1>14. ASSUME NEW t \in Tasks, DriverReturns(t) PROVE TypeOK' /\ PcInv'
  <2>1. ulopen' \subseteq UlIds /\ ullinked' \subseteq UlIds
    BY <1>14 DEF DriverReturns
  <2>2. PICK r \in UlIds \cup {ERR} : ret' = [ ret EXCEPT ![t] = r ]
    BY <1>14 DEF DriverReturns
  <2>3. pc[t] = "driver" /\ pc' = [ pc EXCEPT ![t] = "relock" ]
    BY <1>14 DEF DriverReturns
  <2>4. UNCHANGED << Sockets, NetMutex, lost, fds, op, fd, new, arg, retry >>
    BY <1>14 DEF DriverReturns
  <2> QED
    BY <2>1, <2>2, <2>3, <2>4
<1>15. ASSUME NEW t \in Tasks, Relock(t) PROVE TypeOK' /\ PcInv'
  BY <1>15 DEF Relock
<1>16. ASSUME NEW t \in Tasks, ConnectPost(t) PROVE TypeOK' /\ PcInv'
  BY <1>16 DEF ConnectPost, Finish
<1>17. ASSUME NEW t \in Tasks, ClosePost(t) PROVE TypeOK' /\ PcInv'
  BY <1>17 DEF ClosePost, Finish
<1>18. ASSUME NEW t \in Tasks, PlainPost(t) PROVE TypeOK' /\ PcInv'
  BY <1>18 DEF PlainPost, Finish
<1>19. ASSUME NEW t \in Tasks, AcceptFailed(t) PROVE TypeOK' /\ PcInv'
  <2>1. ret[t] \in UlIds \cup {ERR} /\ ret[t] < 0
    BY <1>19 DEF AcceptFailed
  <2>2. \A u \in UlIds : ~(u < 0)
    BY DEF UlIds
  <2>3. ret[t] = ERR
    BY <2>1, <2>2
  <2> QED
    BY <1>19, <2>3 DEF AcceptFailed, Finish
<1>20. ASSUME NEW t \in Tasks, AcceptPost(t) PROVE TypeOK' /\ PcInv'
  BY <1>20 DEF AcceptPost
<1>21. ASSUME NEW t \in Tasks, ArrayLock(t) PROVE TypeOK' /\ PcInv'
  BY <1>21 DEF ArrayLock
<1>22. ASSUME NEW t \in Tasks, Scan(t) PROVE TypeOK' /\ PcInv'
  BY <1>22 DEF Scan, FreeSlots
<1>23. ASSUME NEW t \in Tasks, TableFull(t) PROVE TypeOK' /\ PcInv'
  BY <1>23 DEF TableFull
<1>24. ASSUME NEW t \in Tasks, Claim(t) PROVE TypeOK' /\ PcInv'
  BY <1>24 DEF Claim
<1>25. ASSUME NEW t \in Tasks, SlotLock(t) PROVE TypeOK' /\ PcInv'
  BY <1>25 DEF SlotLock
<1>26. ASSUME NEW t \in Tasks, FillSocket(t) PROVE TypeOK' /\ PcInv'
  BY <1>26 DEF FillSocket
<1>27. ASSUME NEW t \in Tasks, CloneSocket(t) PROVE TypeOK' /\ PcInv'
  <2>1. fd[t] \in Slots /\ new[t] \in Slots
    BY <1>27 DEF CloneSocket
  <2>2. [ Sockets[fd[t]] EXCEPT !.ul = arg[t], !.cloneserver = TRUE ] \in Socket
    <3>1. Sockets[fd[t]] \in Socket /\ arg[t] \in UlIds \cup {NoUl, BadUl}
      BY <2>1
    <3> QED
      BY ONLY <3>1 DEF Socket
  <2>3. Sockets' \in [ Slots -> Socket ]
    BY <1>27, <2>2 DEF CloneSocket
  <2>4. PcInv'
    BY <1>27, <2>1 DEF CloneSocket
  <2> QED
    BY <1>27, <2>3, <2>4 DEF CloneSocket
<1>28. ASSUME NEW t \in Tasks, NEW o \in Ops \ {"socket"}, NEW s \in fds, Call(t, o, s) PROVE TypeOK' /\ PcInv'
  BY <1>28 DEF Call
<1>29. CASE LinkChange
  BY <1>29 DEF LinkChange
<1>30. CASE UNCHANGED vars
  BY <1>30 DEF vars
<1> QED
  BY <1>1, <1>2, <1>3, <1>4, <1>5, <1>6, <1>7, <1>8, <1>9, <1>10, <1>11,
     <1>12, <1>13, <1>14, <1>15, <1>16, <1>17, <1>18, <1>19, <1>20, <1>21, <1>22,
     <1>23, <1>24, <1>25, <1>26, <1>27, <1>28, <1>29, <1>30
     DEF Next, Running, Acquiring

-----------------------------------------------------------------------------
(* Locks.                                                                  *)

\* A step in which only task t moves, and each lock is left as it is, given back
\* by t or taken by t when it was free, preserves LockInv.
LEMMA OneMoves ==
  ASSUME LockInv, NEW t \in Tasks,
         \A u \in Tasks \ {t}, l \in Locks : Holds(u, l)' <=> Holds(u, l),
         \A l \in Locks :
           \/ NetMutex'[l] = NetMutex[l] /\ (Holds(t, l)' <=> Holds(t, l))
           \/ Holds(t, l) /\ ~Holds(t, l)' /\ NetMutex'[l] = 1
           \/ NetMutex[l] = 1 /\ Holds(t, l)' /\ NetMutex'[l] = 0
  PROVE  LockInv'
<1> SUFFICES ASSUME NEW l \in Locks
             PROVE  /\ NetMutex'[l] = 0 <=> \E u \in Tasks : Holds(u, l)'
                    /\ \A u, v \in Tasks : Holds(u, l)' /\ Holds(v, l)' => u = v
  BY Zenon DEF LockInv
<1>1. /\ NetMutex[l] = 0 <=> \E u \in Tasks : Holds(u, l)
      /\ \A u, v \in Tasks : Holds(u, l) /\ Holds(v, l) => u = v
  BY DEF LockInv
<1>2. \A u \in Tasks \ {t} : Holds(u, l)' <=> Holds(u, l)
  OBVIOUS
<1>3. CASE NetMutex'[l] = NetMutex[l] /\ (Holds(t, l)' <=> Holds(t, l))
  BY <1>1, <1>2, <1>3
<1>4. CASE Holds(t, l) /\ ~Holds(t, l)' /\ NetMutex'[l] = 1
  BY <1>1, <1>2, <1>4
<1>5. CASE NetMutex[l] = 1 /\ Holds(t, l)' /\ NetMutex'[l] = 0
  BY <1>1, <1>2, <1>5
<1> QED
  BY <1>3, <1>4, <1>5

\* What a task does leaves the locks of the others alone.
LEMMA OthersKeep ==
  ASSUME TypeOK, NEW t \in Tasks,
         \A u \in Tasks \ {t} : pc'[u] = pc[u] /\ op'[u] = op[u] /\ fd'[u] = fd[u] /\ new'[u] = new[u]
  PROVE  \A u \in Tasks \ {t}, l \in Locks : Holds(u, l)' <=> Holds(u, l)
BY DEF Holds

\* The locks survive every step.
LEMMA LockStep == TypeOK /\ PcInv /\ LockInv /\ [Next]_vars => LockInv'
<1> SUFFICES ASSUME TypeOK, PcInv, LockInv, [Next]_vars PROVE LockInv'
  OBVIOUS
<1> DEFINE Others(t) == \A u \in Tasks \ {t} :
                          pc'[u] = pc[u] /\ op'[u] = op[u] /\ fd'[u] = fd[u] /\ new'[u] = new[u]
<1> DEFINE Own(t) == \A l \in Locks :
             \/ NetMutex'[l] = NetMutex[l] /\ (Holds(t, l)' <=> Holds(t, l))
             \/ Holds(t, l) /\ ~Holds(t, l)' /\ NetMutex'[l] = 1
             \/ NetMutex[l] = 1 /\ Holds(t, l)' /\ NetMutex'[l] = 0
<1>0. ASSUME NEW t \in Tasks, Others(t), Own(t) PROVE LockInv'
  BY <1>0, OneMoves, OthersKeep, Zenon
<1>1. ASSUME NEW t \in Tasks, CallSocket(t) PROVE LockInv'
  <2>1. Others(t)
    BY <1>1 DEF CallSocket, TypeOK, Goto, Return
  <2>2. Own(t)
    BY <1>1, ConstantFacts DEF CallSocket, TypeOK, PcInv, PcInvOf, SlotPCs, CreatePCs, FindPCs, PCs, CreateUnlocked,
       CreateLocked, CheckFirst, Holds, Locks, Goto, Return, Acquire, Release
  <2> QED
    BY <1>0, <2>1, <2>2
<1>2. ASSUME NEW t \in Tasks, Done(t) PROVE LockInv'
  <2>1. Others(t)
    BY <1>2 DEF Done, TypeOK, Goto, Return
  <2>2. Own(t)
    BY <1>2, ConstantFacts DEF Done, TypeOK, PcInv, PcInvOf, SlotPCs, CreatePCs, FindPCs, PCs, CreateUnlocked,
       CreateLocked, CheckFirst, Holds, Locks, Goto, Return, Acquire, Release
  <2> QED
    BY <1>0, <2>1, <2>2
<1>3. ASSUME NEW t \in Tasks, IsValidSocket(t) PROVE LockInv'
  <2>1. Others(t)
    BY <1>3 DEF IsValidSocket, TypeOK, Goto, Return
  <2>2. Own(t)
    BY <1>3, ConstantFacts DEF IsValidSocket, TypeOK, PcInv, PcInvOf, SlotPCs, CreatePCs, FindPCs, PCs, CreateUnlocked,
       CreateLocked, CheckFirst, Holds, Locks, Goto, Return, Acquire, Release
  <2> QED
    BY <1>0, <2>1, <2>2
<1>4. ASSUME NEW t \in Tasks, CheckLowLevelSocket(t) PROVE LockInv'
  <2>1. Others(t)
    BY <1>4 DEF CheckLowLevelSocket, TypeOK, Goto, Return
  <2>2. Own(t)
    BY <1>4, ConstantFacts DEF CheckLowLevelSocket, HasUl, TypeOK, PcInv, PcInvOf, SlotPCs, CreatePCs, FindPCs, PCs, CreateUnlocked,
       CreateLocked, CheckFirst, Holds, Locks, Goto, Return, Acquire, Release
  <2> QED
    BY <1>0, <2>1, <2>2
<1>5. ASSUME NEW t \in Tasks, GetAndLock(t) PROVE LockInv'
  <2>1. Others(t)
    BY <1>5 DEF GetAndLock, TypeOK, Goto, Return
  <2>2. Own(t)
    BY <1>5, ConstantFacts DEF GetAndLock, TypeOK, PcInv, PcInvOf, SlotPCs, CreatePCs, FindPCs, PCs, CreateUnlocked,
       CreateLocked, CheckFirst, Holds, Locks, Goto, Return, Acquire, Release
  <2> QED
    BY <1>0, <2>1, <2>2
<1>6. ASSUME NEW t \in Tasks, SetsockoptKept(t) PROVE LockInv'
  <2>1. Others(t)
    BY <1>6 DEF SetsockoptKept, TypeOK, Goto, Return
  <2>2. Own(t)
    BY <1>6, ConstantFacts DEF SetsockoptKept, TypeOK, PcInv, PcInvOf, SlotPCs, CreatePCs, FindPCs, PCs, CreateUnlocked,
       CreateLocked, CheckFirst, Holds, Locks, Goto, Return, Acquire, Release
  <2> QED
    BY <1>0, <2>1, <2>2
<1>7. ASSUME NEW t \in Tasks, CreateLowLevel(t) PROVE LockInv'
  <2>1. Others(t)
    BY <1>7 DEF CreateLowLevel, TypeOK, Goto, Return
  <2>2. Own(t)
    BY <1>7, ConstantFacts DEF CreateLowLevel, TypeOK, PcInv, PcInvOf, SlotPCs, CreatePCs, FindPCs, PCs, CreateUnlocked,
       CreateLocked, CheckFirst, Holds, Locks, Goto, Return, Acquire, Release
  <2> QED
    BY <1>0, <2>1, <2>2
<1>8. ASSUME NEW t \in Tasks, PsocketReturns(t) PROVE LockInv'
  <2>1. Others(t)
    BY <1>8 DEF PsocketReturns, TypeOK, Goto, Return
  <2>2. Own(t)
    BY <1>8, ConstantFacts DEF PsocketReturns, TypeOK, PcInv, PcInvOf, SlotPCs, CreatePCs, FindPCs, PCs, CreateUnlocked,
       CreateLocked, CheckFirst, Holds, Locks, Goto, Return, Acquire, Release
  <2> QED
    BY <1>0, <2>1, <2>2
<1>9. ASSUME NEW t \in Tasks, Created(t) PROVE LockInv'
  <2>1. Others(t)
    BY <1>9 DEF Created, TypeOK, Goto, Return
  <2>2. Own(t)
    BY <1>9, ConstantFacts DEF Created, TypeOK, PcInv, PcInvOf, SlotPCs, CreatePCs, FindPCs, PCs, CreateUnlocked,
       CreateLocked, CheckFirst, Holds, Locks, Goto, Return, Acquire, Release
  <2> QED
    BY <1>0, <2>1, <2>2
<1>10. ASSUME NEW t \in Tasks, FreeBareSlot(t) PROVE LockInv'
  <2>1. Others(t)
    BY <1>10 DEF FreeBareSlot, TypeOK, Goto, Return
  <2>2. Own(t)
    BY <1>10, ConstantFacts DEF FreeBareSlot, Closing, TypeOK, PcInv, PcInvOf, SlotPCs, CreatePCs, FindPCs, PCs, CreateUnlocked,
       CreateLocked, CheckFirst, Holds, Locks, Goto, Return, Acquire, Release
  <2> QED
    BY <1>0, <2>1, <2>2
<1>11. ASSUME NEW t \in Tasks, AccessDenied(t) PROVE LockInv'
  <2>1. Others(t)
    BY <1>11 DEF AccessDenied, TypeOK, Goto, Return
  <2>2. Own(t)
    BY <1>11, ConstantFacts DEF AccessDenied, TypeOK, PcInv, PcInvOf, SlotPCs, CreatePCs, FindPCs, PCs, CreateUnlocked,
       CreateLocked, CheckFirst, Holds, Locks, Goto, Return, Acquire, Release
  <2> QED
    BY <1>0, <2>1, <2>2
<1>12. ASSUME NEW t \in Tasks, AccessGranted(t) PROVE LockInv'
  <2>1. Others(t)
    BY <1>12 DEF AccessGranted, TypeOK, Goto, Return
  <2>2. Own(t)
    BY <1>12, ConstantFacts DEF AccessGranted, Closing, AlwaysAllowed, TypeOK, PcInv, PcInvOf, SlotPCs, CreatePCs, FindPCs, PCs, CreateUnlocked,
       CreateLocked, CheckFirst, Holds, Locks, Goto, Return, Acquire, Release
  <2> QED
    BY <1>0, <2>1, <2>2
<1>13. ASSUME NEW t \in Tasks, EnterDriver(t) PROVE LockInv'
  <2>1. Others(t)
    BY <1>13 DEF EnterDriver, TypeOK, Goto, Return
  <2>2. Own(t)
    BY <1>13, ConstantFacts DEF EnterDriver, TypeOK, PcInv, PcInvOf, SlotPCs, CreatePCs, FindPCs, PCs, CreateUnlocked,
       CreateLocked, CheckFirst, Holds, Locks, Goto, Return, Acquire, Release
  <2> QED
    BY <1>0, <2>1, <2>2
<1>14. ASSUME NEW t \in Tasks, DriverReturns(t) PROVE LockInv'
  <2>1. Others(t)
    BY <1>14 DEF DriverReturns, TypeOK, Goto, Return
  <2>2. Own(t)
    BY <1>14, ConstantFacts DEF DriverReturns, TypeOK, PcInv, PcInvOf, SlotPCs, CreatePCs, FindPCs, PCs, CreateUnlocked,
       CreateLocked, CheckFirst, Holds, Locks, Goto, Return, Acquire, Release
  <2> QED
    BY <1>0, <2>1, <2>2
<1>15. ASSUME NEW t \in Tasks, Relock(t) PROVE LockInv'
  <2>1. Others(t)
    BY <1>15 DEF Relock, TypeOK, Goto, Return
  <2>2. Own(t)
    BY <1>15, ConstantFacts DEF Relock, TypeOK, PcInv, PcInvOf, SlotPCs, CreatePCs, FindPCs, PCs, CreateUnlocked,
       CreateLocked, CheckFirst, Holds, Locks, Goto, Return, Acquire, Release
  <2> QED
    BY <1>0, <2>1, <2>2
<1>16. ASSUME NEW t \in Tasks, ConnectPost(t) PROVE LockInv'
  <2>1. Others(t)
    BY <1>16 DEF ConnectPost, TypeOK, Goto, Return, Finish
  <2>2. Own(t)
    BY <1>16, ConstantFacts DEF ConnectPost, TypeOK, PcInv, PcInvOf, SlotPCs, CreatePCs, FindPCs, PCs, CreateUnlocked,
       CreateLocked, CheckFirst, Holds, Locks, Goto, Return, Acquire, Release, Finish
  <2> QED
    BY <1>0, <2>1, <2>2
<1>17. ASSUME NEW t \in Tasks, ClosePost(t) PROVE LockInv'
  <2>1. Others(t)
    BY <1>17 DEF ClosePost, TypeOK, Goto, Return, Finish
  <2>2. Own(t)
    BY <1>17, ConstantFacts DEF ClosePost, TypeOK, PcInv, PcInvOf, SlotPCs, CreatePCs, FindPCs, PCs, CreateUnlocked,
       CreateLocked, CheckFirst, Holds, Locks, Goto, Return, Acquire, Release, Finish
  <2> QED
    BY <1>0, <2>1, <2>2
<1>18. ASSUME NEW t \in Tasks, PlainPost(t) PROVE LockInv'
  <2>1. Others(t)
    BY <1>18 DEF PlainPost, TypeOK, Goto, Return, Finish
  <2>2. Own(t)
    BY <1>18, ConstantFacts DEF PlainPost, TypeOK, PcInv, PcInvOf, SlotPCs, CreatePCs, FindPCs, PCs, CreateUnlocked,
       CreateLocked, CheckFirst, Holds, Locks, Goto, Return, Acquire, Release, Finish
  <2> QED
    BY <1>0, <2>1, <2>2
<1>19. ASSUME NEW t \in Tasks, AcceptFailed(t) PROVE LockInv'
  <2>1. Others(t)
    BY <1>19 DEF AcceptFailed, TypeOK, Goto, Return, Finish
  <2>2. Own(t)
    BY <1>19, ConstantFacts DEF AcceptFailed, TypeOK, PcInv, PcInvOf, SlotPCs, CreatePCs, FindPCs, PCs, CreateUnlocked,
       CreateLocked, CheckFirst, Holds, Locks, Goto, Return, Acquire, Release, Finish
  <2> QED
    BY <1>0, <2>1, <2>2
<1>20. ASSUME NEW t \in Tasks, AcceptPost(t) PROVE LockInv'
  <2>1. Others(t)
    BY <1>20 DEF AcceptPost, TypeOK, Goto, Return
  <2>2. Own(t)
    BY <1>20, ConstantFacts DEF AcceptPost, TypeOK, PcInv, PcInvOf, SlotPCs, CreatePCs, FindPCs, PCs, CreateUnlocked,
       CreateLocked, CheckFirst, Holds, Locks, Goto, Return, Acquire, Release
  <2> QED
    BY <1>0, <2>1, <2>2
<1>21. ASSUME NEW t \in Tasks, ArrayLock(t) PROVE LockInv'
  <2>1. Others(t)
    BY <1>21 DEF ArrayLock, TypeOK, Goto, Return
  <2>2. Own(t)
    BY <1>21, ConstantFacts DEF ArrayLock, TypeOK, PcInv, PcInvOf, SlotPCs, CreatePCs, FindPCs, PCs, CreateUnlocked,
       CreateLocked, CheckFirst, Holds, Locks, Goto, Return, Acquire, Release
  <2> QED
    BY <1>0, <2>1, <2>2
<1>22. ASSUME NEW t \in Tasks, Scan(t) PROVE LockInv'
  <2>1. Others(t)
    BY <1>22 DEF Scan, TypeOK, Goto, Return
  <2>2. Own(t)
    BY <1>22, ConstantFacts DEF Scan, FreeSlots, TypeOK, PcInv, PcInvOf, SlotPCs, CreatePCs, FindPCs, PCs, CreateUnlocked,
       CreateLocked, CheckFirst, Holds, Locks, Goto, Return, Acquire, Release
  <2> QED
    BY <1>0, <2>1, <2>2
<1>23. ASSUME NEW t \in Tasks, TableFull(t) PROVE LockInv'
  <2>1. Others(t)
    BY <1>23 DEF TableFull, TypeOK, Goto, Return
  <2>2. Own(t)
    BY <1>23, ConstantFacts DEF TableFull, TypeOK, PcInv, PcInvOf, SlotPCs, CreatePCs, FindPCs, PCs, CreateUnlocked,
       CreateLocked, CheckFirst, Holds, Locks, Goto, Return, Acquire, Release
  <2> QED
    BY <1>0, <2>1, <2>2
<1>24. ASSUME NEW t \in Tasks, Claim(t) PROVE LockInv'
  <2>1. Others(t)
    BY <1>24 DEF Claim, TypeOK, Goto, Return
  <2>2. Own(t)
    BY <1>24, ConstantFacts DEF Claim, TypeOK, PcInv, PcInvOf, SlotPCs, CreatePCs, FindPCs, PCs, CreateUnlocked,
       CreateLocked, CheckFirst, Holds, Locks, Goto, Return, Acquire, Release
  <2> QED
    BY <1>0, <2>1, <2>2
<1>25. ASSUME NEW t \in Tasks, SlotLock(t) PROVE LockInv'
  <2>1. Others(t)
    BY <1>25 DEF SlotLock, TypeOK, Goto, Return
  <2>2. Own(t)
    BY <1>25, ConstantFacts DEF SlotLock, TypeOK, PcInv, PcInvOf, SlotPCs, CreatePCs, FindPCs, PCs, CreateUnlocked,
       CreateLocked, CheckFirst, Holds, Locks, Goto, Return, Acquire, Release
  <2> QED
    BY <1>0, <2>1, <2>2
<1>26. ASSUME NEW t \in Tasks, FillSocket(t) PROVE LockInv'
  <2>1. Others(t)
    BY <1>26 DEF FillSocket, TypeOK, Goto, Return
  <2>2. Own(t)
    BY <1>26, ConstantFacts DEF FillSocket, TypeOK, PcInv, PcInvOf, SlotPCs, CreatePCs, FindPCs, PCs, CreateUnlocked,
       CreateLocked, CheckFirst, Holds, Locks, Goto, Return, Acquire, Release
  <2> QED
    BY <1>0, <2>1, <2>2
<1>27. ASSUME NEW t \in Tasks, CloneSocket(t) PROVE LockInv'
  <2>1. Others(t)
    BY <1>27 DEF CloneSocket, TypeOK, Goto, Return
  <2>2. Own(t)
    BY <1>27, ConstantFacts DEF CloneSocket, TypeOK, PcInv, PcInvOf, SlotPCs, CreatePCs, FindPCs, PCs, CreateUnlocked,
       CreateLocked, CheckFirst, Holds, Locks, Goto, Return, Acquire, Release
  <2> QED
    BY <1>0, <2>1, <2>2
<1>28. ASSUME NEW t \in Tasks, NEW o \in Ops \ {"socket"}, NEW s \in fds, Call(t, o, s) PROVE LockInv'
  <2>1. Others(t)
    BY <1>28 DEF Call, TypeOK, Goto
  <2>2. Own(t)
    BY <1>28 DEF Call, TypeOK, Holds, Goto
  <2> QED
    BY <1>0, <2>1, <2>2
<1>29. CASE LinkChange
  BY <1>29 DEF LinkChange, taskVars, LockInv, Holds
<1>30. CASE UNCHANGED vars
  BY <1>30 DEF vars, taskVars, LockInv, Holds
<1> QED
  BY <1>1, <1>2, <1>3, <1>4, <1>5, <1>6, <1>7, <1>8, <1>9, <1>10, <1>11,
     <1>12, <1>13, <1>14, <1>15, <1>16, <1>17, <1>18, <1>19, <1>20, <1>21, <1>22,
     <1>23, <1>24, <1>25, <1>26, <1>27, <1>28, <1>29, <1>30
     DEF Next, Running, Acquiring

-----------------------------------------------------------------------------
(* Theorems.                                                               *)

\* The inductive invariant.
THEOREM Inductive == Spec => []IInv
<1>1. Init => IInv
  BY InitIInv
<1>2. IInv /\ [Next]_vars => IInv'
  BY TypeStep, LockStep DEF IInv
<1> QED
  BY <1>1, <1>2, PTL DEF Spec

\* Every variable of the socket layer has its type, always.
THEOREM TypeCorrect == Spec => []TypeOK
<1>1. IInv => TypeOK
  BY DEF IInv
<1> QED
  BY <1>1, Inductive, PTL

\* A semaphore of net_os.c is taken exactly when one task is between its net_lock
\* and its net_unlock, in every function of net_socket.c and on each of its early
\* returns, however many tasks call them on however many slots.
THEOREM LockSafety == Spec => []LockInv
<1>1. IInv => LockInv
  BY DEF IInv
<1> QED
  BY <1>1, Inductive, PTL
=============================================================================
