----------------------- MODULE NetSocketTable_proofs -----------------------
(***************************************************************************)
(* Which slot owns which low-level socket: proofs that NetSocket keeps     *)
(* what SocketTable promises, for any number of tasks, slots and low-level *)
(* sockets and every choice of API functions, when the application uses a  *)
(* descriptor from one call at a time (Exclusive) and the interface keeps  *)
(* its connection.  A lost connection makes the code store 0 in ulsocket   *)
(* and go on, so that none of this holds without the second condition: run *)
(* socket_lost shows it for net_connect.                                   *)
(***************************************************************************)
EXTENDS NetSocketHolders_proofs

Steady == Exclusive /\ ~LinkLoss

\* The low-level socket u that paccept returned to task t is on its way to a slot.
Carries(t, u) ==
  /\ op[t] = "accept"
  /\ \/ pc[t] \in {"relock", "post"} /\ ret[t] = u
     \/ pc[t] \in FindPCs /\ arg[t] = u

\* What a task's own slots hold at each place of its call: once a low-level
\* socket was seen it stays until the call is over, and a slot that is being
\* handed out has none.
SlotAt(t) ==
  /\ pc[t] \in {"access", "call", "driver", "relock", "post"} \cup FindPCs /\ op[t] \notin {"close", "socket"}
       => HasUl(fd[t])
  /\ pc[t] = "lock" /\ op[t] \in CheckFirst \cup CreateUnlocked => HasUl(fd[t])
  /\ pc[t] \in {"call", "driver", "relock", "post"} => HasUl(fd[t])
  /\ pc[t] = "driver" => arg[t] = Sockets[fd[t]].ul
  /\ pc[t] = "creating" => Sockets[fd[t]].ul = NoUl
  /\ pc[t] \in {"slotlock", "fill"} => Sockets[new[t]].ul = NoUl
  /\ pc[t] \in FindPCs /\ op[t] = "accept" => arg[t] \in UlIds

SlotAtInv == \A t \in Tasks : SlotAt(t)

\* A low-level socket has one owner at most, a slot or the net_accept that
\* carries it, and what has an owner is open.
OwnerInv ==
  /\ ~lost
  /\ \A s \in Slots, u \in UlIds : Owns(s, u) => u \in ulopen
  /\ \A s, r \in Slots, u \in UlIds : Owns(s, u) /\ Owns(r, u) => s = r
  /\ \A t \in Tasks, u \in UlIds : Carries(t, u) => u \in ulopen
  /\ \A t \in Tasks, u \in UlIds, s \in Slots : Carries(t, u) => ~Owns(s, u)
  /\ \A t, v \in Tasks, u \in UlIds : Carries(t, u) /\ Carries(v, u) => t = v

\* A success on its way to the application is about a socket that has a peer.
SuccessAt(t) ==
  /\ pc[t] \in {"relock", "post", "done"} /\ op[t] = "connect" /\ ret[t] = OK => Sockets[fd[t]].ul \in ullinked
  /\ pc[t] = "done" /\ op[t] = "accept" /\ ret[t] >= 0 => Sockets[ret[t]].ul \in ullinked
  /\ \A u \in UlIds : Carries(t, u) => u \in ullinked

SuccessInv == \A t \in Tasks : SuccessAt(t)

UInv == HInv /\ SlotAtInv /\ OwnerInv /\ SuccessInv

-----------------------------------------------------------------------------
(* Consequences of the invariant in one state.                             *)

\* The descriptor a call other than net_closesocket works on is the application's.
LEMMA HeldAlive ==
  ASSUME UInv, Steady, NEW t \in Tasks, Uses(t), op[t] # "close"
  PROVE  fd[t] \in fds /\ fd[t] \in Slots /\ Live(fd[t])
BY DEF UInv, HInv, IInv, TypeOK, Steady, AloneInv, HolderInv, OneHolder

\* The slot that find_free_socket is handing out is in no other call.
LEMMA NewApart ==
  ASSUME UInv, Steady, NEW t \in Tasks, pc[t] \in {"claim", "slotlock", "fill"}
  PROVE  /\ new[t] \in Slots /\ new[t] \notin fds
         /\ \A u \in Tasks : Uses(u) /\ (op[u] # "close" \/ pc[u] # "done") => fd[u] # new[t]
<1>1. new[t] \in Slots
  BY DEF UInv, HInv, IInv, PcInv, PcInvOf
<1>2. new[t] \notin fds
  BY <1>1 DEF UInv, HInv, FreshSlotIsFree, HolderInv, OneHolder, Holder, Given
<1>3. ASSUME NEW u \in Tasks, Uses(u), op[u] = "close", pc[u] # "done" PROVE fd[u] # new[t]
  <2>1. Closes(u, fd[u])
    BY <1>3 DEF Closes, UInv, HInv, IInv, TypeOK, PCs, PcInv, PcInvOf, FindPCs, SlotPCs, Uses
  <2>2. t # u
    BY <2>1 DEF Closes, SlotPCs
  <2> QED
    BY <1>1, <2>1, <2>2 DEF UInv, HInv, FreshSlotIsFree, HolderInv, OneHolder, Holder, Given
<1> QED
  BY <1>1, <1>2, <1>3, HeldAlive

\* No two calls are handed the same slot.
LEMMA NewsApart ==
  ASSUME UInv, NEW t \in Tasks, NEW u \in Tasks, t # u,
         pc[t] \in {"slotlock", "fill"}, pc[u] \in {"slotlock", "fill"}
  PROVE  new[t] # new[u]
BY DEF UInv, HInv, IInv, PcInv, PcInvOf, HolderInv, OneHolder, Holder, Given

\* A step that opens nothing and adds no owner.
LEMMA OwnersShrink ==
  ASSUME OwnerInv, UNCHANGED << ulopen, lost >>,
         \A s \in Slots, u \in UlIds : Owns(s, u)' => Owns(s, u),
         \A t \in Tasks, u \in UlIds : Carries(t, u)' => Carries(t, u)
  PROVE  OwnerInv'
BY DEF OwnerInv

\* A step in which slot r's socket is closed.
LEMMA OwnerGone ==
  ASSUME OwnerInv, NEW r \in Slots, NEW w \in UlIds, Owns(r, w),
         ulopen' = ulopen \ {w}, lost' = lost,
         \A s \in Slots, u \in UlIds : Owns(s, u)' => Owns(s, u) /\ s # r,
         \A t \in Tasks, u \in UlIds : Carries(t, u)' => Carries(t, u)
  PROVE  OwnerInv'
BY DEF OwnerInv

\* Nothing else stands for the socket that slot r owns.
LEMMA OwnerOther ==
  ASSUME OwnerInv, NEW r \in Slots, NEW w \in UlIds, Owns(r, w)
  PROVE  /\ \A s \in Slots \ {r} : Live(s) /\ ~ClosedByDriver(s) => Sockets[s].ul # w
         /\ \A t \in Tasks : ~Carries(t, w)
<1>1. \A s \in Slots \ {r} : ~Owns(s, w)
  BY DEF OwnerInv
<1>2. \A t \in Tasks : ~Carries(t, w)
  BY DEF OwnerInv
<1> QED
  BY <1>1, <1>2 DEF Owns

\* A step of another task that leaves this one's slots alone.
LEMMA SlotAtKept ==
  ASSUME PcInv, NEW t \in Tasks, SlotAt(t),
         pc'[t] = pc[t], op'[t] = op[t], fd'[t] = fd[t], new'[t] = new[t], arg'[t] = arg[t],
         pc[t] \in SlotPCs \cup FindPCs /\ op[t] # "socket" => Sockets'[fd[t]] = Sockets[fd[t]],
         pc[t] \in {"slotlock", "fill"} => Sockets'[new[t]] = Sockets[new[t]]
  PROVE  SlotAt(t)'
BY DEF SlotAt, HasUl, Live, PcInv, PcInvOf, SlotPCs, FindPCs, CreatePCs

\* The descriptor that net_accept is about to return is alive and in no other call.
LEMMA GivenApart ==
  ASSUME UInv, NEW t \in Tasks, pc[t] = "done", op[t] = "accept", ret[t] >= 0
  PROVE  /\ ret[t] \in Slots /\ Live(ret[t]) /\ ~ClosedByDriver(ret[t])
         /\ Steady => \A u \in Tasks : Uses(u) /\ (op[u] # "close" \/ pc[u] # "done") => fd[u] # ret[t]
<1>1. ret[t] \in Slots
  BY DEF UInv, HInv, IInv, PcInv, PcInvOf, ERR
<1>2. Holder(t, ret[t]) /\ \A u \in Tasks : Holder(u, ret[t]) => u = t
  BY <1>1 DEF UInv, HInv, HolderInv, OneHolder, Holder, Given
<1>3. Live(ret[t]) /\ ret[t] \notin fds
  BY <1>1, <1>2 DEF UInv, HInv, HolderInv, OneHolder
<1>4. ASSUME NEW u \in Tasks, pc[u] # "done", Uses(u), op[u] = "close" PROVE fd[u] # ret[t]
  <2>1. Closes(u, fd[u])
    BY <1>4 DEF Closes, UInv, HInv, IInv, TypeOK, PCs, PcInv, PcInvOf, FindPCs, SlotPCs, Uses
  <2> QED
    BY <1>2, <1>4, <2>1 DEF Holder
<1>5. ~ClosedByDriver(ret[t])
  BY <1>4 DEF ClosedByDriver, Uses
<1> QED
  BY <1>1, <1>3, <1>4, <1>5, HeldAlive

\* A negative result of the driver is ERR.
LEMMA NegativeIsError ==
  ASSUME UInv, NEW t \in Tasks, pc[t] # "done", ret[t] < 0
  PROVE  ret[t] = ERR /\ ~(ret[t] >= 0)
<1>1. ret[t] \in UlIds \cup {ERR}
  BY DEF UInv, HInv, IInv, PcInv, PcInvOf
<1>2. \A u \in UlIds : ~(u < 0)
  BY DEF UlIds
<1>3. ret[t] = ERR
  BY <1>1, <1>2
<1> QED
  BY <1>3 DEF ERR

-----------------------------------------------------------------------------
(* Every step.                                                             *)

\* The ulsocket that check_low_level_socket or create_low_level_socket saw is
\* still there after the lock, the unlock and the driver call.
LEMMA SlotAtStep == UInv /\ Steady /\ [Next]_vars => SlotAtInv'
<1> SUFFICES ASSUME UInv, Steady, [Next]_vars PROVE SlotAtInv'
  OBVIOUS
<1> USE NetSocketAssumption, ConstantFacts
    DEF UInv, HInv, IInv, TypeOK, PcInv, PcInvOf, Socket, Statuses, PCs, AllOps, NoSlot, NoUl, BadUl, OK, ERR,
        SlotPCs, CreatePCs, FindPCs, CheckFirst, CreateUnlocked, CreateLocked,
        Goto, Return, ulVars, taskVars, Live, HasUl,
        OpsInv, Steady, Exclusive, AloneInv, Uses, SlotAtInv, SlotAt
<1>1. ASSUME NEW t \in Tasks, CallSocket(t) PROVE SlotAtInv'
  BY <1>1 DEF CallSocket
<1>2. ASSUME NEW t \in Tasks, Done(t) PROVE SlotAtInv'
  BY <1>2 DEF Done
<1>3. ASSUME NEW t \in Tasks, IsValidSocket(t) PROVE SlotAtInv'
  BY <1>3 DEF IsValidSocket
<1>4. ASSUME NEW t \in Tasks, CheckLowLevelSocket(t) PROVE SlotAtInv'
  BY <1>4 DEF CheckLowLevelSocket, HasUl
<1>5. ASSUME NEW t \in Tasks, GetAndLock(t) PROVE SlotAtInv'
  <2>1. ASSUME op[t] = "shutdown" PROVE HasUl(fd[t])
    BY <1>5, <2>1, HeldAlive DEF GetAndLock
  <2>2. op[t] \notin CheckFirst \cup CreateUnlocked \cup CreateLocked \cup {"socket", "close"} => op[t] = "shutdown"
    OBVIOUS
  <2> QED
    BY <1>5, <2>1, <2>2 DEF GetAndLock
<1>6. ASSUME NEW t \in Tasks, SetsockoptKept(t) PROVE SlotAtInv'
  BY <1>6 DEF SetsockoptKept
<1>7. ASSUME NEW t \in Tasks, CreateLowLevel(t) PROVE SlotAtInv'
  <2>1. Sockets' = Sockets /\ UNCHANGED << op, fd, new, arg, ret >>
    BY <1>7 DEF CreateLowLevel, OwnerInv
  <2>2. \/ pc' = [ pc EXCEPT ![t] = "creating" ] /\ Sockets[fd[t]].ul = NoUl
        \/ pc' = [ pc EXCEPT ![t] = "created" ]
    BY <1>7 DEF CreateLowLevel
  <2> QED
    BY <2>1, <2>2
<1>8. ASSUME NEW t \in Tasks, PsocketReturns(t) PROVE SlotAtInv'
  <2>1. PICK u \in UlIds \cup {NoUl, BadUl} : Sockets' = [ Sockets EXCEPT ![fd[t]].ul = u ]
    BY <1>8 DEF PsocketReturns
  <2>2. pc' = [ pc EXCEPT ![t] = "created" ] /\ UNCHANGED << op, fd, new, arg, ret >>
    BY <1>8 DEF PsocketReturns
  <2>3. \A v \in Tasks \ {t} : /\ Uses(v) => fd[v] # fd[t]
                               /\ pc[v] \in {"slotlock", "fill"} => new[v] # fd[t]
    BY <1>8, NewApart DEF PsocketReturns
  <2>4. \A v \in Tasks \ {t} : SlotAt(v)'
    BY <2>1, <2>2, <2>3
  <2>5. SlotAt(t)'
    BY <1>8, <2>2
  <2> QED
    BY <2>4, <2>5
<1>9. ASSUME NEW t \in Tasks, Created(t) PROVE SlotAtInv'
  <2>1. Live(fd[t])
    BY <1>9, HeldAlive DEF Created
  <2>2. UNCHANGED << Sockets, op, fd, new, arg >>
    BY <1>9 DEF Created
  <2>3. \/ pc' = [ pc EXCEPT ![t] = IF op[t] \in CreateUnlocked THEN "lock" ELSE "access" ] /\ HasUl(fd[t])
        \/ pc' = [ pc EXCEPT ![t] = "create" ]
        \/ pc' = [ pc EXCEPT ![t] = "done" ]
    BY <1>9, <2>1 DEF Created
  <2> QED
    BY <1>9, <2>2, <2>3 DEF Created
<1>10. ASSUME NEW t \in Tasks, FreeBareSlot(t) PROVE SlotAtInv'
  BY <1>10 DEF FreeBareSlot, Closing, HasUl
<1>11. ASSUME NEW t \in Tasks, AccessDenied(t) PROVE SlotAtInv'
  BY <1>11 DEF AccessDenied, OwnerInv
<1>12. ASSUME NEW t \in Tasks, AccessGranted(t) PROVE SlotAtInv'
  BY <1>12 DEF AccessGranted, Closing, HasUl
<1>13. ASSUME NEW t \in Tasks, EnterDriver(t) PROVE SlotAtInv'
  BY <1>13 DEF EnterDriver
<1>14. ASSUME NEW t \in Tasks, DriverReturns(t) PROVE SlotAtInv'
  BY <1>14 DEF DriverReturns
<1>15. ASSUME NEW t \in Tasks, Relock(t) PROVE SlotAtInv'
  BY <1>15 DEF Relock
<1>16. ASSUME NEW t \in Tasks, ConnectPost(t) PROVE SlotAtInv'
  BY <1>16 DEF ConnectPost, Finish
<1>17. ASSUME NEW t \in Tasks, ClosePost(t) PROVE SlotAtInv'
  BY <1>17 DEF ClosePost, Finish
<1>18. ASSUME NEW t \in Tasks, PlainPost(t) PROVE SlotAtInv'
  BY <1>18 DEF PlainPost, Finish
<1>19. ASSUME NEW t \in Tasks, AcceptFailed(t) PROVE SlotAtInv'
  BY <1>19 DEF AcceptFailed, Finish
<1>20. ASSUME NEW t \in Tasks, AcceptPost(t) PROVE SlotAtInv'
  BY <1>20 DEF AcceptPost
<1>21. ASSUME NEW t \in Tasks, ArrayLock(t) PROVE SlotAtInv'
  BY <1>21 DEF ArrayLock
<1>22. ASSUME NEW t \in Tasks, Scan(t) PROVE SlotAtInv'
  BY <1>22 DEF Scan, FreeSlots
<1>23. ASSUME NEW t \in Tasks, TableFull(t) PROVE SlotAtInv'
  BY <1>23 DEF TableFull
<1>24. ASSUME NEW t \in Tasks, Claim(t) PROVE SlotAtInv'
  BY <1>24 DEF Claim
<1>25. ASSUME NEW t \in Tasks, SlotLock(t) PROVE SlotAtInv'
  BY <1>25 DEF SlotLock
<1>26. ASSUME NEW t \in Tasks, FillSocket(t) PROVE SlotAtInv'
  BY <1>26 DEF FillSocket
<1>27. ASSUME NEW t \in Tasks, CloneSocket(t) PROVE SlotAtInv'
  <2>1. \A s \in Slots : s # new[t] => Sockets'[s] = Sockets[s]
    BY <1>27 DEF CloneSocket
  <2>2. pc' = [ pc EXCEPT ![t] = "done" ] /\ UNCHANGED << op, fd, new, arg >>
    BY <1>27 DEF CloneSocket
  <2>3. \A v \in Tasks \ {t} : /\ pc[v] \in SlotPCs \cup FindPCs /\ op[v] # "socket" => fd[v] \in Slots /\ fd[v] # new[t]
                               /\ pc[v] \in {"slotlock", "fill"} => new[v] \in Slots /\ new[v] # new[t]
    BY <1>27, NewApart, NewsApart DEF CloneSocket
  <2>4. \A v \in Tasks \ {t} : SlotAt(v)'
    <3> HIDE DEF SlotAt, HasUl, Live, PcInv, PcInvOf
    <3> QED
      BY <2>1, <2>2, <2>3, SlotAtKept
  <2>5. SlotAt(t)'
    BY <1>27, <2>2
  <2> QED
    BY <2>4, <2>5
<1>28. ASSUME NEW t \in Tasks, NEW o \in Ops \ {"socket"}, NEW s \in fds, Call(t, o, s) PROVE SlotAtInv'
  BY <1>28 DEF Call
<1>29. CASE LinkChange
  BY <1>29 DEF LinkChange
<1>30. CASE UNCHANGED vars
  BY <1>30 DEF vars
<1> QED
  BY <1>1, <1>2, <1>3, <1>4, <1>5, <1>6, <1>7, <1>8, <1>9, <1>10, <1>11, <1>12, <1>13, <1>14, <1>15, <1>16, <1>17, <1>18, <1>19, <1>20, <1>21, <1>22, <1>23, <1>24, <1>25, <1>26, <1>27, <1>28, <1>29, <1>30
     DEF Next, Running, Acquiring

\* psocket and paccept return a socket nobody owns, and it gets one owner; pclose
\* ends the ownership of the slot it is called for, and of no other.
LEMMA OwnerStep == UInv /\ Steady /\ [Next]_vars => OwnerInv'
<1> SUFFICES ASSUME UInv, Steady, [Next]_vars PROVE OwnerInv'
  OBVIOUS
<1> USE NetSocketAssumption, ConstantFacts
    DEF UInv, HInv, IInv, TypeOK, PcInv, PcInvOf, Socket, Statuses, PCs, AllOps, NoSlot, NoUl, BadUl, OK, ERR,
        SlotPCs, CreatePCs, FindPCs, CheckFirst, CreateUnlocked, CreateLocked,
        Goto, Return, ulVars, taskVars, Live, HasUl,
        OpsInv, Steady, Exclusive, AloneInv, Uses, SlotAtInv, SlotAt, OwnerInv, Carries, Owns, ClosedByDriver
<1>1. ASSUME NEW t \in Tasks, CallSocket(t) PROVE OwnerInv'
  BY <1>1 DEF CallSocket
<1>2. ASSUME NEW t \in Tasks, Done(t) PROVE OwnerInv'
  BY <1>2 DEF Done
<1>3. ASSUME NEW t \in Tasks, IsValidSocket(t) PROVE OwnerInv'
  <2>1. UNCHANGED << Sockets, ulopen, lost >>
    BY <1>3 DEF IsValidSocket
  <2>2. \A s \in Slots, u \in UlIds : Owns(s, u)' => Owns(s, u)
    BY <1>3, <2>1 DEF IsValidSocket
  <2>3. \A v \in Tasks, u \in UlIds : Carries(v, u)' => Carries(v, u)
    BY <1>3 DEF IsValidSocket
  <2>4. ulopen' = ulopen /\ lost' = lost
    BY <2>1
  <2> HIDE DEF OwnerInv, Owns, Carries
  <2> QED
    BY <2>2, <2>3, <2>4, OwnersShrink
<1>4. ASSUME NEW t \in Tasks, CheckLowLevelSocket(t) PROVE OwnerInv'
  <2>1. UNCHANGED << Sockets, ulopen, lost >>
    BY <1>4 DEF CheckLowLevelSocket
  <2>2. \A s \in Slots, u \in UlIds : Owns(s, u)' => Owns(s, u)
    BY <1>4, <2>1 DEF CheckLowLevelSocket
  <2>3. \A v \in Tasks, u \in UlIds : Carries(v, u)' => Carries(v, u)
    BY <1>4 DEF CheckLowLevelSocket
  <2>4. ulopen' = ulopen /\ lost' = lost
    BY <2>1
  <2> HIDE DEF OwnerInv, Owns, Carries
  <2> QED
    BY <2>2, <2>3, <2>4, OwnersShrink
<1>5. ASSUME NEW t \in Tasks, GetAndLock(t) PROVE OwnerInv'
  BY <1>5 DEF GetAndLock
<1>6. ASSUME NEW t \in Tasks, SetsockoptKept(t) PROVE OwnerInv'
  BY <1>6 DEF SetsockoptKept
<1>7. ASSUME NEW t \in Tasks, CreateLowLevel(t) PROVE OwnerInv'
  <2>1. UNCHANGED << Sockets, ulopen, lost >>
    BY <1>7 DEF CreateLowLevel
  <2>2. \A s \in Slots, u \in UlIds : Owns(s, u)' => Owns(s, u)
    BY <1>7, <2>1 DEF CreateLowLevel
  <2>3. \A v \in Tasks, u \in UlIds : Carries(v, u)' => Carries(v, u)
    BY <1>7 DEF CreateLowLevel
  <2>4. ulopen' = ulopen /\ lost' = lost
    BY <2>1
  <2> HIDE DEF OwnerInv, Owns, Carries
  <2> QED
    BY <2>2, <2>3, <2>4, OwnersShrink
<1>8. ASSUME NEW t \in Tasks, PsocketReturns(t) PROVE OwnerInv'
  BY <1>8 DEF PsocketReturns
<1>9. ASSUME NEW t \in Tasks, Created(t) PROVE OwnerInv'
  <2>1. UNCHANGED << Sockets, ulopen, lost >>
    BY <1>9 DEF Created
  <2>2. \A s \in Slots, u \in UlIds : Owns(s, u)' => Owns(s, u)
    BY <1>9, <2>1 DEF Created
  <2>3. \A v \in Tasks, u \in UlIds : Carries(v, u)' => Carries(v, u)
    BY <1>9 DEF Created
  <2>4. ulopen' = ulopen /\ lost' = lost
    BY <2>1
  <2> HIDE DEF OwnerInv, Owns, Carries
  <2> QED
    BY <2>2, <2>3, <2>4, OwnersShrink
<1>10. ASSUME NEW t \in Tasks, FreeBareSlot(t) PROVE OwnerInv'
  <2>1. fd[t] \in Slots /\ ~HasUl(fd[t]) /\ \A s \in Slots \ {fd[t]} : Sockets'[s] = Sockets[s]
    BY <1>10 DEF FreeBareSlot
  <2>2. \A u \in UlIds : ~Owns(fd[t], u)'
    BY <1>10 DEF FreeBareSlot
  <2>3. \A s \in Slots, u \in UlIds : Owns(s, u)' => Owns(s, u)
    BY <1>10, <2>1, <2>2 DEF FreeBareSlot
  <2>4. ulopen' = ulopen /\ lost' = lost /\ \A v \in Tasks, u \in UlIds : Carries(v, u)' <=> Carries(v, u)
    BY <1>10 DEF FreeBareSlot
  <2>5. UNCHANGED << ulopen, lost >>
    BY <2>4
  <2>6. \A v \in Tasks, u \in UlIds : Carries(v, u)' => Carries(v, u)
    BY <2>4
  <2> HIDE DEF OwnerInv, Owns, Carries
  <2> QED
    BY <2>3, <2>5, <2>6, OwnersShrink
<1>11. ASSUME NEW t \in Tasks, AccessDenied(t) PROVE OwnerInv'
  BY <1>11 DEF AccessDenied
<1>12. ASSUME NEW t \in Tasks, AccessGranted(t) PROVE OwnerInv'
  BY <1>12 DEF AccessGranted, Closing, HasUl
<1>13. ASSUME NEW t \in Tasks, EnterDriver(t) PROVE OwnerInv'
  BY <1>13 DEF EnterDriver
<1>14. ASSUME NEW t \in Tasks, DriverReturns(t) PROVE OwnerInv'
  <2>1. pc[t] = "driver" /\ pc' = [ pc EXCEPT ![t] = "relock" ]
        /\ UNCHANGED << Sockets, lost, op, fd, arg >>
    BY <1>14 DEF DriverReturns
  <2>2. fd[t] \in Slots /\ arg[t] = Sockets[fd[t]].ul /\ HasUl(fd[t]) /\ arg[t] \in UlIds
    BY <2>1
  <2>3. \A v \in Tasks \ {t}, u \in UlIds : Carries(v, u)' <=> Carries(v, u)
    BY <1>14, <2>1 DEF DriverReturns
  <2>4. CASE op[t] = "close"
    <3>1. ulopen' = ulopen \ {arg[t]}
      BY <1>14, <2>4 DEF DriverReturns
    <3>2. \A u \in UlIds : ~Carries(t, u)'
      BY <2>1, <2>4
    <3>3. \A s \in Slots, u \in UlIds : Owns(s, u)' <=> Owns(s, u) /\ s # fd[t]
      BY <2>1, <2>2, <2>4
    <3>4. Owns(fd[t], arg[t])
      BY <2>1, <2>2
    <3>5. \A v \in Tasks, u \in UlIds : Carries(v, u)' => Carries(v, u)
      BY <2>3, <3>2
    <3> QED
      <4>1. lost' = lost
        BY <2>1
      <4> HIDE DEF OwnerInv, Owns, Carries
      <4> QED
        <5>1. OwnerInv /\ fd[t] \in Slots /\ arg[t] \in UlIds
          BY <2>2 DEF UInv
        <5>2. \A s \in Slots, u \in UlIds : Owns(s, u)' => Owns(s, u) /\ s # fd[t]
          BY <3>3
        <5> QED
          BY <3>1, <3>4, <3>5, <4>1, <5>1, <5>2, OwnerGone, Zenon
  <2>5. CASE op[t] # "close"
    <3>1. \A s \in Slots, u \in UlIds : Owns(s, u)' <=> Owns(s, u)
      BY <2>1, <2>5
    <3>2. CASE UNCHANGED ulopen /\ \A u \in UlIds : ~Carries(t, u)'
      BY <2>1, <2>3, <3>1, <3>2
    <3>3. CASE \E w \in UlIds \ ulopen : ulopen' = ulopen \cup {w} /\ ret' = [ ret EXCEPT ![t] = w ]
      <4>1. PICK w \in UlIds \ ulopen : ulopen' = ulopen \cup {w} /\ ret' = [ ret EXCEPT ![t] = w ]
        BY <3>3
      <4>2. \A u \in UlIds : Carries(t, u)' => u = w
        BY <2>1, <4>1
      <4>3. \A s \in Slots : ~Owns(s, w)
        BY <4>1
      <4>4. \A v \in Tasks : ~Carries(v, w)
        BY <4>1
      <4> HIDE DEF Owns, Carries
      <4> QED
        BY <2>1, <2>3, <3>1, <4>1, <4>2, <4>3, <4>4
    <3> QED
      BY <1>14, <2>1, <2>5, <3>2, <3>3 DEF DriverReturns
  <2> QED
    BY <2>4, <2>5
<1>15. ASSUME NEW t \in Tasks, Relock(t) PROVE OwnerInv'
  BY <1>15 DEF Relock
<1>16. ASSUME NEW t \in Tasks, ConnectPost(t) PROVE OwnerInv'
  <2>1. Live(fd[t]) /\ fd[t] \in Slots
    BY <1>16 DEF ConnectPost, Finish
  <2>2. \A s \in Slots : Sockets'[s].ul = Sockets[s].ul /\ (Live(s)' <=> Live(s))
    BY <1>16, <2>1 DEF ConnectPost, Finish
  <2>3. \A s \in Slots : ClosedByDriver(s)' <=> ClosedByDriver(s)
    BY <1>16 DEF ConnectPost, Finish
  <2>4. \A v \in Tasks, u \in UlIds : Carries(v, u)' => Carries(v, u)
    BY <1>16 DEF ConnectPost, Finish
  <2>5. \A s \in Slots, u \in UlIds : Owns(s, u)' => Owns(s, u)
    BY <2>2, <2>3
  <2>6. ulopen' = ulopen /\ lost' = lost
    BY <1>16 DEF ConnectPost, Finish
  <2> HIDE DEF OwnerInv, Owns, Carries
  <2> QED
    BY <2>4, <2>5, <2>6, OwnersShrink
<1>17. ASSUME NEW t \in Tasks, ClosePost(t) PROVE OwnerInv'
  <2>1. fd[t] \in Slots /\ \A s \in Slots \ {fd[t]} : Sockets'[s] = Sockets[s]
    BY <1>17 DEF ClosePost
  <2>2. \A s \in Slots, u \in UlIds : s = fd[t] => ~Owns(s, u)'
    BY <1>17, <2>1 DEF ClosePost
  <2>3. \A s \in Slots \ {fd[t]} : ClosedByDriver(s)' <=> ClosedByDriver(s)
    BY <1>17 DEF ClosePost, Finish
  <2>4. \A s \in Slots, u \in UlIds : Owns(s, u)' => Owns(s, u)
    <3>1. ASSUME NEW s \in Slots \ {fd[t]}, NEW u \in UlIds, Owns(s, u)' PROVE Owns(s, u)
      <4> HIDE DEF UInv, ClosedByDriver
      <4> QED
        BY <2>1, <2>3, <3>1
    <3> HIDE DEF UInv, Owns
    <3> QED
      BY <2>2, <3>1
  <2>5. \A v \in Tasks, u \in UlIds : Carries(v, u)' => Carries(v, u)
    BY <1>17 DEF ClosePost, Finish
  <2>6. ulopen' = ulopen /\ lost' = lost
    BY <1>17 DEF ClosePost, Finish
  <2> HIDE DEF OwnerInv, Owns, Carries
  <2> QED
    BY <2>4, <2>5, <2>6, OwnersShrink
<1>18. ASSUME NEW t \in Tasks, PlainPost(t) PROVE OwnerInv'
  BY <1>18 DEF PlainPost, Finish
<1>19. ASSUME NEW t \in Tasks, AcceptFailed(t) PROVE OwnerInv'
  BY <1>19 DEF AcceptFailed, Finish
<1>20. ASSUME NEW t \in Tasks, AcceptPost(t) PROVE OwnerInv'
  <2>1. Live(fd[t]) /\ fd[t] \in Slots
    BY <1>20 DEF AcceptPost
  <2>2. \A s \in Slots : Sockets'[s].ul = Sockets[s].ul /\ (Live(s)' <=> Live(s))
    BY <1>20, <2>1 DEF AcceptPost
  <2>3. \A s \in Slots : ClosedByDriver(s)' <=> ClosedByDriver(s)
    BY <1>20 DEF AcceptPost
  <2>4. \A v \in Tasks, u \in UlIds : Carries(v, u)' => Carries(v, u)
    BY <1>20 DEF AcceptPost
  <2>5. \A s \in Slots, u \in UlIds : Owns(s, u)' => Owns(s, u)
    BY <2>2, <2>3
  <2>6. ulopen' = ulopen /\ lost' = lost
    BY <1>20 DEF AcceptPost
  <2> HIDE DEF OwnerInv, Owns, Carries
  <2> QED
    BY <2>4, <2>5, <2>6, OwnersShrink
<1>21. ASSUME NEW t \in Tasks, ArrayLock(t) PROVE OwnerInv'
  BY <1>21 DEF ArrayLock
<1>22. ASSUME NEW t \in Tasks, Scan(t) PROVE OwnerInv'
  BY <1>22 DEF Scan, FreeSlots
<1>23. ASSUME NEW t \in Tasks, TableFull(t) PROVE OwnerInv'
  BY <1>23 DEF TableFull
<1>24. ASSUME NEW t \in Tasks, Claim(t) PROVE OwnerInv'
  <2>1. new[t] \in Slots /\ \A s \in Slots \ {new[t]} : Sockets'[s] = Sockets[s]
    BY <1>24 DEF Claim
  <2>2. \A u \in UlIds : ~Owns(new[t], u)'
    BY <1>24, <2>1 DEF Claim
  <2>3. \A s \in Slots, u \in UlIds : Owns(s, u)' => Owns(s, u)
    BY <1>24, <2>1, <2>2 DEF Claim
  <2>4. \A v \in Tasks, u \in UlIds : Carries(v, u)' => Carries(v, u)
    BY <1>24 DEF Claim
  <2>5. ulopen' = ulopen /\ lost' = lost
    BY <1>24 DEF Claim
  <2> HIDE DEF OwnerInv, Owns, Carries
  <2> QED
    BY <2>3, <2>4, <2>5, OwnersShrink
<1>25. ASSUME NEW t \in Tasks, SlotLock(t) PROVE OwnerInv'
  BY <1>25 DEF SlotLock
<1>26. ASSUME NEW t \in Tasks, FillSocket(t) PROVE OwnerInv'
  BY <1>26 DEF FillSocket
<1>27. ASSUME NEW t \in Tasks, CloneSocket(t) PROVE OwnerInv'
  <2>1. /\ new[t] \in Slots /\ \A s \in Slots \ {new[t]} : Sockets'[s] = Sockets[s]
        /\ Sockets'[new[t]].ul = arg[t] /\ arg[t] \in UlIds /\ Carries(t, arg[t])
    BY <1>27 DEF CloneSocket
  <2>2. \A s \in Slots : ClosedByDriver(s)' <=> ClosedByDriver(s)
    BY <1>27 DEF CloneSocket
  <2>3. \A s \in Slots, u \in UlIds : Owns(s, u)' => Owns(s, u) \/ (s = new[t] /\ u = arg[t])
    BY <2>1, <2>2
  <2>4. \A v \in Tasks, u \in UlIds : Carries(v, u)' => Carries(v, u) /\ v # t
    BY <1>27 DEF CloneSocket
  <2>5. ulopen' = ulopen /\ lost' = lost
    BY <1>27 DEF CloneSocket
  <2>6. \A v \in Tasks, u \in UlIds : Carries(v, u)' => u # arg[t]
    BY <2>1, <2>4
  <2>7. \A s, r \in Slots, u \in UlIds : Owns(s, u)' /\ Owns(r, u)' => s = r
    BY <2>1, <2>3
  <2>8. \A v \in Tasks, u \in UlIds, s \in Slots : Carries(v, u)' => ~Owns(s, u)'
    BY <2>3, <2>4, <2>6
  <2> HIDE DEF Owns, Carries
  <2> QED
    BY <2>1, <2>3, <2>4, <2>5, <2>7, <2>8
<1>28. ASSUME NEW t \in Tasks, NEW o \in Ops \ {"socket"}, NEW s \in fds, Call(t, o, s) PROVE OwnerInv'
  BY <1>28 DEF Call
<1>29. CASE LinkChange
  BY <1>29 DEF LinkChange
<1>30. CASE UNCHANGED vars
  BY <1>30 DEF vars
<1> QED
  BY <1>1, <1>2, <1>3, <1>4, <1>5, <1>6, <1>7, <1>8, <1>9, <1>10, <1>11, <1>12, <1>13, <1>14, <1>15, <1>16, <1>17, <1>18, <1>19, <1>20, <1>21, <1>22, <1>23, <1>24, <1>25, <1>26, <1>27, <1>28, <1>29, <1>30
     DEF Next, Running, Acquiring

\* No step takes the peer away from a socket whose connection is being reported.
LEMMA SuccessStep == UInv /\ Steady /\ [Next]_vars => SuccessInv'
<1> SUFFICES ASSUME UInv, Steady, [Next]_vars PROVE SuccessInv'
  OBVIOUS
<1> USE NetSocketAssumption, ConstantFacts
    DEF UInv, HInv, IInv, TypeOK, PcInv, PcInvOf, Socket, Statuses, PCs, AllOps, NoSlot, NoUl, BadUl, OK, ERR,
        SlotPCs, CreatePCs, FindPCs, CheckFirst, CreateUnlocked, CreateLocked,
        Goto, Return, ulVars, taskVars, Live, HasUl,
        OpsInv, Steady, Exclusive, AloneInv, Uses, SlotAtInv, SlotAt, OwnerInv, Carries, Owns, ClosedByDriver, SuccessInv, SuccessAt
<1>1. ASSUME NEW t \in Tasks, CallSocket(t) PROVE SuccessInv'
  BY <1>1 DEF CallSocket
<1>2. ASSUME NEW t \in Tasks, Done(t) PROVE SuccessInv'
  BY <1>2 DEF Done
<1>3. ASSUME NEW t \in Tasks, IsValidSocket(t) PROVE SuccessInv'
  BY <1>3 DEF IsValidSocket
<1>4. ASSUME NEW t \in Tasks, CheckLowLevelSocket(t) PROVE SuccessInv'
  BY <1>4 DEF CheckLowLevelSocket, HasUl
<1>5. ASSUME NEW t \in Tasks, GetAndLock(t) PROVE SuccessInv'
  BY <1>5 DEF GetAndLock
<1>6. ASSUME NEW t \in Tasks, SetsockoptKept(t) PROVE SuccessInv'
  BY <1>6 DEF SetsockoptKept
<1>7. ASSUME NEW t \in Tasks, CreateLowLevel(t) PROVE SuccessInv'
  BY <1>7 DEF CreateLowLevel
<1>8. ASSUME NEW t \in Tasks, PsocketReturns(t) PROVE SuccessInv'
  BY <1>8 DEF PsocketReturns
<1>9. ASSUME NEW t \in Tasks, Created(t) PROVE SuccessInv'
  BY <1>9 DEF Created
<1>10. ASSUME NEW t \in Tasks, FreeBareSlot(t) PROVE SuccessInv'
  BY <1>10 DEF FreeBareSlot, Closing, HasUl
<1>11. ASSUME NEW t \in Tasks, AccessDenied(t) PROVE SuccessInv'
  BY <1>11 DEF AccessDenied
<1>12. ASSUME NEW t \in Tasks, AccessGranted(t) PROVE SuccessInv'
  BY <1>12 DEF AccessGranted, Closing, HasUl
<1>13. ASSUME NEW t \in Tasks, EnterDriver(t) PROVE SuccessInv'
  BY <1>13 DEF EnterDriver
<1>14. ASSUME NEW t \in Tasks, DriverReturns(t) PROVE SuccessInv'
  <2>1. pc[t] = "driver" /\ pc' = [ pc EXCEPT ![t] = "relock" ]
        /\ UNCHANGED << Sockets, op, fd, arg >>
    BY <1>14 DEF DriverReturns
  <2>2. fd[t] \in Slots /\ arg[t] = Sockets[fd[t]].ul /\ HasUl(fd[t]) /\ arg[t] \in UlIds /\ Owns(fd[t], arg[t])
    BY <2>1
  <2>3. ullinked \ {arg[t]} \subseteq ullinked' /\ (op[t] # "close" => ullinked \subseteq ullinked')
    BY <1>14 DEF DriverReturns
  <2>4. PICK r \in UlIds \cup {OK, ERR} : ret' = [ ret EXCEPT ![t] = r ] /\ (op[t] = "accept" /\ r \in UlIds => r \in ullinked')
    BY <1>14 DEF DriverReturns
  <2>5. SuccessAt(t)'
    BY <1>14, <2>1, <2>2, <2>4 DEF DriverReturns
  <2>6. \A s \in Slots \ {fd[t]} : Live(s) /\ ~ClosedByDriver(s) => Sockets[s].ul # arg[t]
    <3>1. OwnerInv
      BY DEF UInv
    <3> HIDE DEF UInv, OwnerInv, Owns, Carries, Live, HasUl, ClosedByDriver
    <3> QED
      BY <2>2, <3>1, OwnerOther
  <2>7. ASSUME NEW v \in Tasks \ {t} PROVE SuccessAt(v)'
    <3>1. pc'[v] = pc[v] /\ op'[v] = op[v] /\ fd'[v] = fd[v] /\ arg'[v] = arg[v] /\ ret'[v] = ret[v]
      BY <2>1, <2>4
    <3>2. \A u \in UlIds : Carries(v, u)' => Carries(v, u) /\ u # arg[t]
      <4>1. ~Carries(v, arg[t])
        <5> HIDE DEF OwnerInv, Owns, Carries, Live, HasUl
        <5> QED
          BY <2>2, OwnerOther
      <4>2. \A u \in UlIds : Carries(v, u)' <=> Carries(v, u)
        BY <3>1
      <4> QED
        <5> HIDE DEF Carries
        <5> QED
          BY <4>1, <4>2
    <3>3. ASSUME pc[v] \in {"relock", "post", "done"}, op[v] = "connect"
          PROVE  fd[v] \in Slots /\ Sockets[fd[v]].ul # arg[t]
      <4>1. fd[v] # fd[t] /\ fd[v] \in Slots /\ Live(fd[v])
    BY <2>1, <3>3, HeldAlive      <4>2. ~ClosedByDriver(fd[v])
        BY <3>3
      <4> HIDE DEF Live, ClosedByDriver
      <4> QED
        BY <2>6, <4>1, <4>2, Zenon
    <3>4. ASSUME pc[v] = "done", op[v] = "accept", ret[v] >= 0
          PROVE  ret[v] \in Slots /\ Sockets[ret[v]].ul # arg[t]
      <4>1. ret[v] \in Slots
        BY <3>4
      <4>2. /\ ret[v] # fd[t] /\ Live(ret[v]) /\ ~ClosedByDriver(ret[v])
        BY <2>1, <3>4, <4>1, GivenApart
      <4> HIDE DEF Live, ClosedByDriver
      <4> QED
        BY <2>6, <4>1, <4>2, Zenon
    <3> QED
      BY <2>1, <2>3, <3>1, <3>2, <3>3, <3>4
  <2> HIDE DEF SuccessAt
  <2> QED
    BY <2>5, <2>7
<1>15. ASSUME NEW t \in Tasks, Relock(t) PROVE SuccessInv'
  BY <1>15 DEF Relock
<1>16. ASSUME NEW t \in Tasks, ConnectPost(t) PROVE SuccessInv'
  BY <1>16 DEF ConnectPost, Finish
<1>17. ASSUME NEW t \in Tasks, ClosePost(t) PROVE SuccessInv'
  BY <1>17 DEF ClosePost, Finish
<1>18. ASSUME NEW t \in Tasks, PlainPost(t) PROVE SuccessInv'
  BY <1>18 DEF PlainPost, Finish
<1>19. ASSUME NEW t \in Tasks, AcceptFailed(t) PROVE SuccessInv'
  <2>1. ret[t] < 0 /\ op[t] = "accept" /\ pc[t] = "post"
    BY <1>19 DEF AcceptFailed
  <2>2. UNCHANGED << Sockets, ulVars, op, fd, arg >> /\ pc' = [ pc EXCEPT ![t] = "done" ] /\ ret' = ret
    BY <1>19 DEF AcceptFailed, Finish
  <2>3. ~(ret[t] >= 0)
    <3> HIDE DEF UInv
    <3> QED
      BY <2>1, NegativeIsError
  <2>4. pc'[t] = "done" /\ op'[t] = "accept" /\ ~(ret'[t] >= 0)
    BY <2>1, <2>2, <2>3
  <2>5. SuccessAt(t)'
    BY <2>4
  <2> QED
    BY <2>2, <2>5
<1>20. ASSUME NEW t \in Tasks, AcceptPost(t) PROVE SuccessInv'
  BY <1>20 DEF AcceptPost
<1>21. ASSUME NEW t \in Tasks, ArrayLock(t) PROVE SuccessInv'
  BY <1>21 DEF ArrayLock
<1>22. ASSUME NEW t \in Tasks, Scan(t) PROVE SuccessInv'
  BY <1>22 DEF Scan, FreeSlots
<1>23. ASSUME NEW t \in Tasks, TableFull(t) PROVE SuccessInv'
  BY <1>23 DEF TableFull
<1>24. ASSUME NEW t \in Tasks, Claim(t) PROVE SuccessInv'
  <2>1. new[t] \in Slots /\ \A s \in Slots \ {new[t]} : Sockets'[s] = Sockets[s]
    BY <1>24 DEF Claim
  <2>2. UNCHANGED << ulVars, op, fd, arg, ret >> /\ pc[t] = "claim" /\ pc' = [ pc EXCEPT ![t] = "slotlock" ]
    BY <1>24 DEF Claim
  <2>3. \A v \in Tasks : pc[v] \in {"relock", "post", "done"} /\ op[v] = "connect"
                           => fd[v] \in Slots /\ Sockets'[fd[v]] = Sockets[fd[v]]
    <3> SUFFICES ASSUME NEW v \in Tasks, pc[v] \in {"relock", "post", "done"}, op[v] = "connect"
                 PROVE  fd[v] \in Slots /\ Sockets'[fd[v]] = Sockets[fd[v]]
      BY Zenon
    <3>1. fd[v] \in Slots /\ fd[v] # new[t]
      <4> HIDE DEF UInv, Steady
      <4> QED
        BY <2>2, NewApart, HeldAlive DEF Uses
    <3> QED
      BY <2>1, <3>1, Zenon
  <2>4. \A v \in Tasks : pc[v] = "done" /\ op[v] = "accept" /\ ret[v] >= 0
                           => Sockets'[ret[v]] = Sockets[ret[v]]
    <3> SUFFICES ASSUME NEW v \in Tasks, pc[v] = "done", op[v] = "accept", ret[v] >= 0
                 PROVE  Sockets'[ret[v]] = Sockets[ret[v]]
      BY Zenon
    <3>1. ~Live(new[t])
      BY <2>2 DEF FreshSlotIsFree
    <3>2. ret[v] \in Slots /\ ret[v] # new[t]
      <4> HIDE DEF UInv, Live
      <4> QED
        BY <3>1, GivenApart
    <3> QED
      BY <2>1, <3>2, Zenon
  <2> QED
    BY <2>2, <2>3, <2>4
<1>25. ASSUME NEW t \in Tasks, SlotLock(t) PROVE SuccessInv'
  BY <1>25 DEF SlotLock
<1>26. ASSUME NEW t \in Tasks, FillSocket(t) PROVE SuccessInv'
  BY <1>26 DEF FillSocket
<1>27. ASSUME NEW t \in Tasks, CloneSocket(t) PROVE SuccessInv'
  BY <1>27 DEF CloneSocket
<1>28. ASSUME NEW t \in Tasks, NEW o \in Ops \ {"socket"}, NEW s \in fds, Call(t, o, s) PROVE SuccessInv'
  BY <1>28 DEF Call
<1>29. CASE LinkChange
  BY <1>29 DEF LinkChange
<1>30. CASE UNCHANGED vars
  BY <1>30 DEF vars
<1> QED
  BY <1>1, <1>2, <1>3, <1>4, <1>5, <1>6, <1>7, <1>8, <1>9, <1>10, <1>11, <1>12, <1>13, <1>14, <1>15, <1>16, <1>17, <1>18, <1>19, <1>20, <1>21, <1>22, <1>23, <1>24, <1>25, <1>26, <1>27, <1>28, <1>29, <1>30
     DEF Next, Running, Acquiring

-----------------------------------------------------------------------------
(* The invariant and what it says of the driver's sockets.                 *)

\* The table is free and the driver has no socket.
LEMMA InitUInv == Init => UInv
<1> SUFFICES ASSUME Init PROVE UInv
  OBVIOUS
<1>1. HInv
  BY InitHInv
<1>2. SlotAtInv /\ OwnerInv /\ SuccessInv
  BY DEF Init, SlotAtInv, SlotAt, OwnerInv, SuccessInv, SuccessAt, Owns, Carries, Live, FindPCs
<1> QED
  BY <1>1, <1>2 DEF UInv

\* The inductive invariant.
THEOREM TableInductive == ASSUME Steady PROVE Spec => []UInv
<1>1. Init => UInv
  BY InitUInv
<1>2. UInv /\ [Next]_vars => UInv'
  <2>1. HInv /\ [Next]_vars => HInv'
    BY HolderInductive DEF Disciplined, Steady
  <2> QED
    BY <2>1, SlotAtStep, OwnerStep, SuccessStep DEF UInv
<1> QED
  BY <1>1, <1>2, PTL DEF Spec

\* The ulsocket that a call fetches after its unlock is open when the driver gets
\* it: no call ends up on a socket that was closed or never opened.
THEOREM DriverArguments == ASSUME Steady PROVE Spec => []DriverArgOpen
<1>1. UInv => DriverArgOpen
  <2> SUFFICES ASSUME UInv, NEW t \in Tasks, pc[t] = "driver" PROVE arg[t] \in ulopen
    BY DEF DriverArgOpen
  <2> USE DEF UInv, HInv, IInv
  <2>1. fd[t] \in Slots /\ HasUl(fd[t]) /\ arg[t] = Sockets[fd[t]].ul
    BY DEF PcInv, PcInvOf, SlotPCs, SlotAtInv, SlotAt
  <2>2. arg[t] \in UlIds
    BY <2>1 DEF TypeOK, Socket, HasUl, NoUl, BadUl
  <2>3. ~ClosedByDriver(fd[t])
    BY DEF ClosedByDriver, Steady, AloneInv, Uses, PcInv, PcInvOf, SlotPCs
  <2> QED
    BY <2>1, <2>2, <2>3 DEF OwnerInv, Owns, HasUl
<1> QED
  BY <1>1, TableInductive, PTL

\* A net_connect that returns 0 left a socket with a peer, and so did a net_accept
\* that returns a descriptor, 0 (which net_socket.c:253 calls a failure) or more, though
\* the slot was unlocked while the driver worked.
THEOREM SuccessIsConnection == ASSUME Steady PROVE Spec => []SuccessMeansConnection
<1>1. UInv => SuccessMeansConnection
  BY DEF UInv, SuccessInv, SuccessAt, SuccessMeansConnection, ConnectMeansConnected, AcceptMeansConnection
<1> QED
  BY <1>1, TableInductive, PTL

\* A step that changes nothing SocketTable can see, nor which net_accept carries
\* which socket.
Same ==
  /\ ulopen' = ulopen
  /\ \A s \in Slots : /\ Live(s)' <=> Live(s)
                      /\ ClosedByDriver(s)' <=> ClosedByDriver(s)
                      /\ Sockets'[s].ul = Sockets[s].ul
  /\ \A t \in Tasks, u \in UlIds : Carries(t, u)' <=> Carries(t, u)

\* The steps that may change it.
Busy(t) ==
  \/ PsocketReturns(t) \/ FreeBareSlot(t) \/ DriverReturns(t) \/ ClosePost(t)
  \/ TableFull(t) \/ Claim(t) \/ CloneSocket(t)

\* Seven steps of a call change what the table means; the others do not.
LEMMA BusyOrSame == UInv /\ Steady /\ [Next]_vars => Same \/ \E t \in Tasks : Busy(t)
<1> SUFFICES ASSUME UInv, Steady, [Next]_vars PROVE Same \/ \E t \in Tasks : Busy(t)
  OBVIOUS
<1> USE NetSocketAssumption, ConstantFacts
    DEF UInv, HInv, IInv, TypeOK, PcInv, PcInvOf, Socket, Statuses, PCs, AllOps, NoSlot, NoUl, BadUl, OK, ERR,
        SlotPCs, CreatePCs, FindPCs, CheckFirst, CreateUnlocked, CreateLocked,
        Goto, Return, ulVars, taskVars, Live, HasUl,
        OpsInv, Steady, Exclusive, AloneInv, Uses, SlotAtInv, SlotAt, OwnerInv, Carries, ClosedByDriver, Same
<1>1. ASSUME NEW t \in Tasks, CallSocket(t) PROVE Same \/ \E v \in Tasks : Busy(v)
  BY <1>1 DEF CallSocket
<1>2. ASSUME NEW t \in Tasks, Done(t) PROVE Same \/ \E v \in Tasks : Busy(v)
  BY <1>2 DEF Done
<1>3. ASSUME NEW t \in Tasks, IsValidSocket(t) PROVE Same \/ \E v \in Tasks : Busy(v)
  BY <1>3 DEF IsValidSocket
<1>4. ASSUME NEW t \in Tasks, CheckLowLevelSocket(t) PROVE Same \/ \E v \in Tasks : Busy(v)
  BY <1>4 DEF CheckLowLevelSocket, HasUl
<1>5. ASSUME NEW t \in Tasks, GetAndLock(t) PROVE Same \/ \E v \in Tasks : Busy(v)
  BY <1>5 DEF GetAndLock
<1>6. ASSUME NEW t \in Tasks, SetsockoptKept(t) PROVE Same \/ \E v \in Tasks : Busy(v)
  BY <1>6 DEF SetsockoptKept
<1>7. ASSUME NEW t \in Tasks, CreateLowLevel(t) PROVE Same \/ \E v \in Tasks : Busy(v)
  BY <1>7 DEF CreateLowLevel
<1>8. ASSUME NEW t \in Tasks, PsocketReturns(t) PROVE Same \/ \E v \in Tasks : Busy(v)
  BY <1>8 DEF Busy
<1>9. ASSUME NEW t \in Tasks, Created(t) PROVE Same \/ \E v \in Tasks : Busy(v)
  BY <1>9 DEF Created
<1>10. ASSUME NEW t \in Tasks, FreeBareSlot(t) PROVE Same \/ \E v \in Tasks : Busy(v)
  BY <1>10 DEF Busy
<1>11. ASSUME NEW t \in Tasks, AccessDenied(t) PROVE Same \/ \E v \in Tasks : Busy(v)
  BY <1>11 DEF AccessDenied
<1>12. ASSUME NEW t \in Tasks, AccessGranted(t) PROVE Same \/ \E v \in Tasks : Busy(v)
  BY <1>12 DEF AccessGranted, Closing, HasUl
<1>13. ASSUME NEW t \in Tasks, EnterDriver(t) PROVE Same \/ \E v \in Tasks : Busy(v)
  BY <1>13 DEF EnterDriver
<1>14. ASSUME NEW t \in Tasks, DriverReturns(t) PROVE Same \/ \E v \in Tasks : Busy(v)
  BY <1>14 DEF Busy
<1>15. ASSUME NEW t \in Tasks, Relock(t) PROVE Same \/ \E v \in Tasks : Busy(v)
  BY <1>15 DEF Relock
<1>16. ASSUME NEW t \in Tasks, ConnectPost(t) PROVE Same \/ \E v \in Tasks : Busy(v)
  BY <1>16 DEF ConnectPost, Finish
<1>17. ASSUME NEW t \in Tasks, ClosePost(t) PROVE Same \/ \E v \in Tasks : Busy(v)
  BY <1>17 DEF Busy
<1>18. ASSUME NEW t \in Tasks, PlainPost(t) PROVE Same \/ \E v \in Tasks : Busy(v)
  BY <1>18 DEF PlainPost, Finish
<1>19. ASSUME NEW t \in Tasks, AcceptFailed(t) PROVE Same \/ \E v \in Tasks : Busy(v)
  BY <1>19 DEF AcceptFailed, Finish
<1>20. ASSUME NEW t \in Tasks, AcceptPost(t) PROVE Same \/ \E v \in Tasks : Busy(v)
  BY <1>20 DEF AcceptPost
<1>21. ASSUME NEW t \in Tasks, ArrayLock(t) PROVE Same \/ \E v \in Tasks : Busy(v)
  BY <1>21 DEF ArrayLock
<1>22. ASSUME NEW t \in Tasks, Scan(t) PROVE Same \/ \E v \in Tasks : Busy(v)
  BY <1>22 DEF Scan, FreeSlots
<1>23. ASSUME NEW t \in Tasks, TableFull(t) PROVE Same \/ \E v \in Tasks : Busy(v)
  BY <1>23 DEF Busy
<1>24. ASSUME NEW t \in Tasks, Claim(t) PROVE Same \/ \E v \in Tasks : Busy(v)
  BY <1>24 DEF Busy
<1>25. ASSUME NEW t \in Tasks, SlotLock(t) PROVE Same \/ \E v \in Tasks : Busy(v)
  BY <1>25 DEF SlotLock
<1>26. ASSUME NEW t \in Tasks, FillSocket(t) PROVE Same \/ \E v \in Tasks : Busy(v)
  BY <1>26 DEF FillSocket
<1>27. ASSUME NEW t \in Tasks, CloneSocket(t) PROVE Same \/ \E v \in Tasks : Busy(v)
  BY <1>27 DEF Busy
<1>28. ASSUME NEW t \in Tasks, NEW o \in Ops \ {"socket"}, NEW s \in fds, Call(t, o, s)
      PROVE  Same \/ \E v \in Tasks : Busy(v)
  BY <1>28 DEF Call
<1>29. CASE LinkChange
  BY <1>29 DEF LinkChange
<1>30. CASE UNCHANGED vars
  BY <1>30 DEF vars
<1> QED
  BY <1>1, <1>2, <1>3, <1>4, <1>5, <1>6, <1>7, <1>8, <1>9, <1>10, <1>11, <1>12, <1>13, <1>14, <1>15, <1>16, <1>17, <1>18, <1>19, <1>20, <1>21, <1>22, <1>23, <1>24, <1>25, <1>26, <1>27, <1>28, <1>29, <1>30
     DEF Next, Running, Acquiring
\* The handle of the refinement mapping, at one slot.
HandleOf(s) == IF Attached(s) THEN Sockets[s].ul ELSE NoUl

-----------------------------------------------------------------------------
(* The refinement of SocketTable, one step at a time.                      *)

\* The value of the refinement mapping at one slot.
LEMMA LifeIs ==
  ASSUME NEW s \in Slots
  PROVE  /\ ~Live(s) => LifeOf(s) = "free" /\ HandleOf(s) = NoUl
         /\ Live(s) /\ ClosedByDriver(s) => LifeOf(s) = "closing" /\ HandleOf(s) = NoUl
         /\ Live(s) /\ ~ClosedByDriver(s) /\ Sockets[s].ul \notin UlIds => LifeOf(s) = "bare" /\ HandleOf(s) = NoUl
         /\ \A u \in UlIds : Live(s) /\ ~ClosedByDriver(s) /\ Sockets[s].ul = u => LifeOf(s) = "attached" /\ HandleOf(s) = u
BY DEF LifeOf, HandleOf, Attached, Owns

\* The same after a step.
LEMMA LifeBecomes ==
  ASSUME NEW s \in Slots
  PROVE  /\ ~Live(s)' => LifeOf(s)' = "free" /\ HandleOf(s)' = NoUl
         /\ Live(s)' /\ ClosedByDriver(s)' => LifeOf(s)' = "closing" /\ HandleOf(s)' = NoUl
         /\ Live(s)' /\ ~ClosedByDriver(s)' /\ Sockets'[s].ul \notin UlIds => LifeOf(s)' = "bare" /\ HandleOf(s)' = NoUl
         /\ \A u \in UlIds : Live(s)' /\ ~ClosedByDriver(s)' /\ Sockets'[s].ul = u => LifeOf(s)' = "attached" /\ HandleOf(s)' = u
BY DEF LifeOf, HandleOf, Attached, Owns

\* A step leaves slot s as it is.
SameSlot(s) ==
  /\ Live(s)' <=> Live(s)
  /\ ClosedByDriver(s)' <=> ClosedByDriver(s)
  /\ Sockets'[s].ul = Sockets[s].ul

\* A slot that a step leaves alone is the same to SocketTable.
LEMMA SameSlotKeeps ==
  ASSUME NEW s \in Slots, SameSlot(s)
  PROVE  /\ LifeOf(s)' = LifeOf(s) /\ HandleOf(s)' = HandleOf(s)
         /\ \A u \in UlIds : Owns(s, u)' <=> Owns(s, u)
<1>1. \A u \in UlIds : Owns(s, u)' <=> Owns(s, u)
  BY DEF SameSlot, Owns
<1>2. Attached(s)' <=> Attached(s)
  BY <1>1 DEF Attached
<1> QED
  BY <1>1, <1>2 DEF SameSlot, LifeOf, HandleOf

\* A step that leaves every slot alone is a stutter of SocketTable.
LEMMA TableStutters ==
  ASSUME \A s \in Slots : SameSlot(s)
  PROVE  UNCHANGED Table!table
BY SameSlotKeeps DEF Table!table, HandleOf

\* A step that changes one slot, in one of the ways a descriptor's life may go, is
\* a step of SocketTable.
LEMMA TableMoves ==
  ASSUME NEW r \in Slots, \A s \in Slots \ {r} : SameSlot(s),
         NEW to, to = LifeOf(r)', NEW h, h = HandleOf(r)',
         \/ LifeOf(r) = "free" /\ to = "bare" /\ h = HandleOf(r)
         \/ LifeOf(r) = "attached" /\ to = "closing" /\ h = NoUl
         \/ LifeOf(r) \in {"closing", "bare"} /\ to = "free" /\ h = HandleOf(r)
         \/ /\ LifeOf(r) = "bare" /\ to = "attached" /\ h \in UlIds
            /\ \A s \in Slots : HandleOf(s) # h
         \/ to = LifeOf(r) /\ h = HandleOf(r)
  PROVE  [Table!Next]_(Table!table)
<1> DEFINE life   == [ s \in Slots |-> LifeOf(s) ]
           handle == [ s \in Slots |-> IF Attached(s) THEN Sockets[s].ul ELSE NoUl ]
<1>1. life' = [ life EXCEPT ![r] = to ]
  BY SameSlotKeeps
<1>2. handle' = [ handle EXCEPT ![r] = h ]
  BY SameSlotKeeps DEF HandleOf
<1>3. life[r] = LifeOf(r) /\ \A s \in Slots : handle[s] = HandleOf(s)
  BY DEF HandleOf
<1>4. h = HandleOf(r) => handle' = handle
  BY <1>2, <1>3
<1> USE DEF Table!Becomes
<1>5. CASE LifeOf(r) = "free" /\ to = "bare" /\ h = HandleOf(r)
  <2>1. Table!Allocate(r)
    BY <1>1, <1>3, <1>4, <1>5 DEF Table!Allocate
  <2> QED
    BY <2>1 DEF Table!Next
<1>6. CASE LifeOf(r) = "attached" /\ to = "closing" /\ h = NoUl
  <2>1. Table!Detach(r)
    BY <1>1, <1>2, <1>3, <1>6 DEF Table!Detach
  <2> QED
    BY <2>1 DEF Table!Next
<1>7. CASE LifeOf(r) \in {"closing", "bare"} /\ to = "free" /\ h = HandleOf(r)
  <2>1. Table!Free(r)
    BY <1>1, <1>3, <1>4, <1>7 DEF Table!Free
  <2> QED
    BY <2>1 DEF Table!Next
<1>8. CASE /\ LifeOf(r) = "bare" /\ to = "attached" /\ h \in UlIds
           /\ \A s \in Slots : HandleOf(s) # h
  <2>1. Table!Attach(r, h)
    BY <1>1, <1>2, <1>3, <1>8 DEF Table!Attach, Table!Unused
  <2> QED
    BY <1>8, <2>1 DEF Table!Next
<1>9. CASE to = LifeOf(r) /\ h = HandleOf(r)
  <2>1. life' = life
    BY <1>1, <1>3, <1>9
  <2> QED
    BY <1>4, <1>9, <2>1 DEF Table!table
<1> QED
  BY <1>5, <1>6, <1>7, <1>8, <1>9

\* What NoLowLevelLeak says of one socket.
KeptOrDropped(u) ==
  \/ Accounted(u)'
  \/ u \in ulopen /\ ~Accounted(u)
  \/ FreeSlots = {} /\ \E t \in Tasks : pc[t] = "scan" /\ op[t] = "accept" /\ arg[t] = u

\* A step in which every owner stays, unless its socket is closed, and every
\* socket that is opened gets one, leaks nothing.
LEMMA AccountKept ==
  ASSUME \A s \in Slots, u \in ulopen' :
           Owns(s, u) => (\E r \in Slots : Owns(r, u)') \/ (\E t \in Tasks : Carries(t, u)'),
         \A t \in Tasks, u \in ulopen' :
           Carries(t, u) => (\E r \in Slots : Owns(r, u)') \/ (\E v \in Tasks : Carries(v, u)'),
         \A u \in ulopen' \ ulopen :
           (\E r \in Slots : Owns(r, u)') \/ (\E t \in Tasks : Carries(t, u)'),
         ulopen' \subseteq UlIds
  PROVE  \A u \in ulopen' : KeptOrDropped(u)
<1>1. \A u \in UlIds : Accounted(u) <=> (\E s \in Slots : Owns(s, u)) \/ (\E t \in Tasks : Carries(t, u))
  BY DEF Accounted, Carries, FindPCs
<1>2. \A u \in UlIds : Accounted(u)' <=> (\E s \in Slots : Owns(s, u)') \/ (\E t \in Tasks : Carries(t, u)')
  BY DEF Accounted, Carries, FindPCs
<1> QED
  BY <1>1, <1>2 DEF KeptOrDropped

\* The handle of a descriptor is the low-level socket its slot owns.
LEMMA HandleOwned ==
  ASSUME NEW s \in Slots, NEW u \in UlIds, HandleOf(s) = u
  PROVE  Owns(s, u)
BY ConstantFacts DEF HandleOf, Attached, Owns, NoUl

\* The slot of a call in progress is alive, no other call is on it, and it counts
\* as closed by the driver only after its own pclose.
LEMMA UserSlot ==
  ASSUME UInv, Steady, NEW t \in Tasks, pc[t] \in SlotPCs
  PROVE  /\ fd[t] \in Slots /\ Live(fd[t])
         /\ ClosedByDriver(fd[t]) <=> op[t] = "close" /\ pc[t] \in {"relock", "post"}
         /\ \A u \in Tasks \ {t} : Uses(u) => fd[u] # fd[t]
<1> USE DEF UInv, HInv, IInv, PcInv, PcInvOf, SlotPCs, Uses
<1>1. fd[t] \in Slots /\ Uses(t)
  OBVIOUS
<1>2. \A u \in Tasks \ {t} : Uses(u) => fd[u] # fd[t]
  BY <1>1 DEF Steady, AloneInv
<1>3. Live(fd[t])
  <2>1. CASE op[t] = "close"
    BY <1>1, <2>1 DEF HolderInv, OneHolder, Holder, Closes
  <2>2. CASE op[t] # "close"
    BY <1>1, <2>2, HeldAlive
  <2> QED
    BY <2>1, <2>2
<1> QED
  BY <1>1, <1>2, <1>3 DEF ClosedByDriver

\* What is to be shown of every step: SocketTable allows it, and it leaks nothing.
StepOK == [Table!Next]_(Table!table) /\ \A u \in ulopen' : KeptOrDropped(u)

\* psocket attaches the slot, or leaves it bare.
LEMMA PsocketStep == ASSUME UInv, UInv', Steady, NEW t \in Tasks, PsocketReturns(t) PROVE StepOK
<1>1. pc[t] = "creating" /\ op[t] \notin {"close", "accept"} /\ pc[t] \in SlotPCs
  BY DEF PsocketReturns, UInv, HInv, IInv, PcInv, PcInvOf, CreatePCs, CreateLocked, CreateUnlocked, SlotPCs
<1>2. PICK r \in Slots : r = fd[t] /\ Live(r) /\ ~ClosedByDriver(r) /\ Sockets[r].ul = NoUl
  BY <1>1, UserSlot DEF UInv, SlotAtInv, SlotAt
<1>3. PICK u \in (UlIds \ ulopen) \cup {NoUl, BadUl} :
        Sockets' = [ Sockets EXCEPT ![r].ul = u ] /\ ulopen' = ulopen \cup ({u} \cap UlIds)
  BY <1>2 DEF PsocketReturns
<1>4. pc' = [ pc EXCEPT ![t] = "created" ] /\ UNCHANGED << op, fd, ret, arg >>
  BY DEF PsocketReturns, Goto
<1> USE DEF UInv, HInv, IInv, TypeOK
<1>5. /\ Sockets'[r].ul = u /\ Live(r)'
      /\ \A s \in Slots \ {r} : Sockets'[s] = Sockets[s]
  BY <1>2, <1>3 DEF Live, Socket
<1>6. \A s \in Slots : ClosedByDriver(s)' <=> ClosedByDriver(s)
  BY <1>1, <1>4 DEF ClosedByDriver
<1>7. \A s \in Slots \ {r} : SameSlot(s)
  BY <1>5, <1>6 DEF SameSlot, Live
<1>8. \A v \in Tasks, w \in UlIds : Carries(v, w)' <=> Carries(v, w)
  BY <1>1, <1>4 DEF Carries, FindPCs
<1> HIDE DEF UInv, HInv, IInv, TypeOK
<1>9. LifeOf(r) = "bare" /\ HandleOf(r) = NoUl
  BY <1>2, LifeIs, ConstantFacts DEF NoUl
<1>10. \A s \in Slots, w \in UlIds : Owns(s, w) => Owns(s, w)'
  <2>1. \A w \in UlIds : ~Owns(r, w)
    BY <1>2, ConstantFacts DEF Owns, NoUl
  <2> QED
    BY <1>7, <2>1, SameSlotKeeps, Zenon
<1>11. CASE u \notin UlIds
  <2>1. LifeOf(r)' = "bare" /\ HandleOf(r)' = NoUl
    BY <1>2, <1>5, <1>6, <1>11, LifeBecomes
  <2>2. [Table!Next]_(Table!table)
    BY <1>7, <1>9, <2>1, TableMoves
  <2>3. ulopen' = ulopen
    BY <1>3, <1>11
  <2>4. \A w \in ulopen' : KeptOrDropped(w)
    BY <1>8, <2>3, <1>10, AccountKept DEF UInv, HInv, IInv, TypeOK
  <2> QED
    BY <2>2, <2>4 DEF StepOK
<1>12. CASE u \in UlIds
  <2>1. LifeOf(r)' = "attached" /\ HandleOf(r)' = u
    BY <1>2, <1>5, <1>6, <1>12, LifeBecomes
  <2>2. \A s \in Slots : HandleOf(s) # u
    BY <1>3, <1>12, HandleOwned, ConstantFacts DEF UInv, OwnerInv, NoUl, BadUl
  <2>3. [Table!Next]_(Table!table)
    BY <1>7, <1>9, <1>12, <2>1, <2>2, TableMoves
  <2>4. Owns(r, u)' /\ \A w \in ulopen' \ ulopen : w = u
    BY <1>2, <1>3, <1>5, <1>6, <1>12 DEF Owns
  <2>5. \A w \in ulopen' : KeptOrDropped(w)
    BY <1>8, <1>10, <2>4, AccountKept DEF UInv, HInv, IInv, TypeOK
  <2> QED
    BY <2>3, <2>5 DEF StepOK
<1> QED
  BY <1>11, <1>12

\* net_closesocket of a slot that never had a low-level socket frees it.
LEMMA FreeBareStep == ASSUME UInv, UInv', Steady, NEW t \in Tasks, FreeBareSlot(t) PROVE StepOK
<1>1. pc[t] = "access" /\ pc[t] \in SlotPCs /\ op[t] # "accept"
  BY DEF FreeBareSlot, Closing, SlotPCs
<1>2. PICK r \in Slots : r = fd[t] /\ Live(r) /\ ~ClosedByDriver(r) /\ Sockets[r].ul \notin UlIds
  BY <1>1, UserSlot, ConstantFacts DEF FreeBareSlot, HasUl
<1>3. Sockets' = [ Sockets EXCEPT ![r].status = "NOT_ALIVE" ] /\ ulopen' = ulopen
      /\ pc' = [ pc EXCEPT ![t] = "done" ] /\ UNCHANGED << op, fd, arg >>
      /\ ret' = [ ret EXCEPT ![t] = OK ]
  BY <1>2 DEF FreeBareSlot, Goto, Return, ulVars
<1> USE DEF UInv, HInv, IInv, TypeOK
<1>4. ~Live(r)' /\ \A s \in Slots \ {r} : Sockets'[s] = Sockets[s]
  BY <1>3 DEF Live, Socket
<1>5. \A s \in Slots : ClosedByDriver(s)' <=> ClosedByDriver(s)
  BY <1>1, <1>3 DEF ClosedByDriver
<1>6. \A v \in Tasks, w \in UlIds : Carries(v, w)' <=> Carries(v, w)
  BY <1>1, <1>3 DEF Carries, FindPCs
<1> HIDE DEF UInv, HInv, IInv, TypeOK
<1>7. \A s \in Slots \ {r} : SameSlot(s)
  BY <1>4, <1>5 DEF SameSlot, Live
<1>8. LifeOf(r) = "bare" /\ HandleOf(r) = NoUl /\ LifeOf(r)' = "free" /\ HandleOf(r)' = NoUl
  BY <1>2, <1>4, LifeIs, LifeBecomes
<1>9. [Table!Next]_(Table!table)
  BY <1>7, <1>8, TableMoves
<1>10. \A s \in Slots, w \in UlIds : Owns(s, w) => Owns(s, w)'
  <2>1. \A w \in UlIds : ~Owns(r, w)
    BY <1>2 DEF Owns
  <2> QED
    BY <1>7, <2>1, SameSlotKeeps, Zenon
<1>11. \A w \in ulopen' : KeptOrDropped(w)
  BY <1>3, <1>6, <1>10, AccountKept DEF UInv, HInv, IInv, TypeOK
<1> QED
  BY <1>9, <1>11 DEF StepOK

\* After pclose, net_closesocket frees the slot.
LEMMA ClosePostStep == ASSUME UInv, UInv', Steady, NEW t \in Tasks, ClosePost(t) PROVE StepOK
<1>1. pc[t] = "post" /\ pc[t] \in SlotPCs /\ op[t] = "close"
  BY DEF ClosePost, SlotPCs
<1>2. PICK r \in Slots : r = fd[t] /\ Live(r) /\ ClosedByDriver(r)
  BY <1>1, UserSlot
<1>3. Sockets' = [ Sockets EXCEPT ![r].ul = NoUl, ![r].status = "NOT_ALIVE" ] /\ ulopen' = ulopen
      /\ pc' = [ pc EXCEPT ![t] = "done" ] /\ UNCHANGED << op, fd, arg >>
      /\ ret' = [ ret EXCEPT ![t] = ret[t] ]
  BY <1>2 DEF ClosePost, Finish, Goto, Return, ulVars
<1> USE DEF UInv, HInv, IInv, TypeOK
<1>4. ~Live(r)' /\ \A s \in Slots \ {r} : Sockets'[s] = Sockets[s]
  BY <1>3 DEF Live, Socket
<1>5. \A s \in Slots \ {r} : ClosedByDriver(s)' <=> ClosedByDriver(s)
  BY <1>1, <1>2, <1>3 DEF ClosedByDriver
<1>6. \A v \in Tasks, w \in UlIds : Carries(v, w)' <=> Carries(v, w)
  BY <1>1, <1>3 DEF Carries, FindPCs
<1> HIDE DEF UInv, HInv, IInv, TypeOK
<1>7. \A s \in Slots \ {r} : SameSlot(s)
  BY <1>4, <1>5 DEF SameSlot, Live
<1>8. LifeOf(r) = "closing" /\ HandleOf(r) = NoUl /\ LifeOf(r)' = "free" /\ HandleOf(r)' = NoUl
  BY <1>2, <1>4, LifeIs, LifeBecomes
<1>9. [Table!Next]_(Table!table)
  BY <1>7, <1>8, TableMoves
<1>10. \A s \in Slots, w \in UlIds : Owns(s, w) => Owns(s, w)'
  <2>1. \A w \in UlIds : ~Owns(r, w)
    BY <1>2 DEF Owns
  <2> QED
    BY <1>7, <2>1, SameSlotKeeps, Zenon
<1>11. \A w \in ulopen' : KeptOrDropped(w)
  BY <1>3, <1>6, <1>10, AccountKept DEF UInv, HInv, IInv, TypeOK
<1> QED
  BY <1>9, <1>11 DEF StepOK

\* find_free_socket hands out a slot that was free.
LEMMA ClaimStep == ASSUME UInv, UInv', Steady, NEW t \in Tasks, Claim(t) PROVE StepOK
<1>1. PICK r \in Slots : r = new[t] /\ ~Live(r)
  BY NewApart DEF Claim, UInv, HInv, FreshSlotIsFree
<1>2. \A v \in Tasks : Uses(v) /\ (op[v] # "close" \/ pc[v] # "done") => fd[v] # r
  BY <1>1, NewApart DEF Claim
<1>3. Sockets' = [ Sockets EXCEPT ![r].status = "ALLOCATED", ![r].ul = NoUl ] /\ ulopen' = ulopen
      /\ pc[t] = "claim" /\ pc' = [ pc EXCEPT ![t] = "slotlock" ] /\ UNCHANGED << op, fd, arg, ret >>
  BY <1>1 DEF Claim, Goto, ulVars
<1> USE DEF UInv, HInv, IInv, TypeOK
<1>4. Live(r)' /\ Sockets'[r].ul = NoUl /\ \A s \in Slots \ {r} : Sockets'[s] = Sockets[s]
  BY <1>3 DEF Live, Socket
<1>5. \A s \in Slots : ClosedByDriver(s)' <=> ClosedByDriver(s)
  BY <1>3 DEF ClosedByDriver
<1>6. \A v \in Tasks, w \in UlIds : Carries(v, w)' <=> Carries(v, w)
  BY <1>3 DEF Carries, FindPCs
<1> HIDE DEF UInv, HInv, IInv, TypeOK
<1>7. \A s \in Slots \ {r} : SameSlot(s)
  BY <1>4, <1>5 DEF SameSlot, Live
<1>8. ~ClosedByDriver(r)'
  BY <1>2, <1>5 DEF ClosedByDriver, Uses
<1>9. LifeOf(r) = "free" /\ HandleOf(r) = NoUl /\ LifeOf(r)' = "bare" /\ HandleOf(r)' = NoUl
  BY <1>1, <1>4, <1>8, LifeIs, LifeBecomes, ConstantFacts DEF NoUl
<1>10. [Table!Next]_(Table!table)
  BY <1>7, <1>9, TableMoves
<1>11. \A s \in Slots, w \in UlIds : Owns(s, w) => Owns(s, w)'
  <2>1. \A w \in UlIds : ~Owns(r, w)
    BY <1>1 DEF Owns
  <2> QED
    BY <1>7, <2>1, SameSlotKeeps, Zenon
<1>12. \A w \in ulopen' : KeptOrDropped(w)
  BY <1>3, <1>6, <1>11, AccountKept DEF UInv, HInv, IInv, TypeOK
<1> QED
  BY <1>10, <1>12 DEF StepOK

\* clone_socket attaches the new slot to the socket paccept returned.
LEMMA CloneStep == ASSUME UInv, UInv', Steady, NEW t \in Tasks, CloneSocket(t) PROVE StepOK
<1>1. PICK r \in Slots : r = new[t] /\ Sockets[r].ul = NoUl /\ Live(r)
  BY NewApart DEF CloneSocket, UInv, SlotAtInv, SlotAt, HInv, HolderInv, OneHolder, Holder, Given
<1>2. \A v \in Tasks : Uses(v) /\ (op[v] # "close" \/ pc[v] # "done") => fd[v] # r
  BY <1>1, NewApart DEF CloneSocket
<1>3. PICK u \in UlIds : u = arg[t] /\ Carries(t, u)
  BY DEF CloneSocket, UInv, SlotAtInv, SlotAt, FindPCs, Carries
<1>4. pc[t] = "fill" /\ op[t] = "accept" /\ fd[t] \in Slots /\ Live(fd[t])
  BY HeldAlive DEF CloneSocket, Uses
<1>5. Sockets' = [ Sockets EXCEPT ![r] = [ Sockets[fd[t]] EXCEPT !.ul = u, !.cloneserver = TRUE ] ]
      /\ ulopen' = ulopen /\ pc' = [ pc EXCEPT ![t] = "done" ] /\ UNCHANGED << op, fd, arg >>
      /\ ret' = [ ret EXCEPT ![t] = r ]
  BY <1>1, <1>3 DEF CloneSocket, Goto, Return, ulVars
<1> USE DEF UInv, HInv, IInv, TypeOK
<1>6. Live(r)' /\ Sockets'[r].ul = u /\ \A s \in Slots \ {r} : Sockets'[s] = Sockets[s]
  BY <1>4, <1>5 DEF Live, Socket
<1>7. \A s \in Slots : ClosedByDriver(s)' <=> ClosedByDriver(s)
  BY <1>4, <1>5 DEF ClosedByDriver
<1>8. \A v \in Tasks, w \in UlIds : Carries(v, w) => Carries(v, w)' \/ (v = t /\ w = u)
  BY <1>3, <1>4, <1>5 DEF Carries, FindPCs
<1> HIDE DEF UInv, HInv, IInv, TypeOK
<1>9. \A s \in Slots \ {r} : SameSlot(s)
  BY <1>6, <1>7 DEF SameSlot, Live
<1>10. ~ClosedByDriver(r) /\ ~ClosedByDriver(r)'
  BY <1>2, <1>7 DEF ClosedByDriver, Uses
<1>11. LifeOf(r) = "bare" /\ HandleOf(r) = NoUl /\ LifeOf(r)' = "attached" /\ HandleOf(r)' = u
  BY <1>1, <1>6, <1>10, LifeIs, LifeBecomes, ConstantFacts DEF NoUl
<1>12. \A s \in Slots : HandleOf(s) # u
  BY <1>3, HandleOwned DEF UInv, OwnerInv
<1>13. [Table!Next]_(Table!table)
  BY <1>9, <1>11, <1>12, TableMoves
<1>14. \A s \in Slots, w \in UlIds : Owns(s, w) => Owns(s, w)'
  <2>1. \A w \in UlIds : ~Owns(r, w)
    BY <1>1, ConstantFacts DEF Owns, NoUl
  <2> QED
    BY <1>9, <2>1, SameSlotKeeps, Zenon
<1>15. Owns(r, u)'
  BY <1>6, <1>10 DEF Owns
<1>16. \A w \in ulopen' : KeptOrDropped(w)
  BY <1>5, <1>8, <1>14, <1>15, AccountKept DEF UInv, HInv, IInv, TypeOK
<1> QED
  BY <1>13, <1>16 DEF StepOK

\* A full table changes nothing; a net_accept drops the socket it carried.
LEMMA TableFullStep == ASSUME UInv, UInv', Steady, NEW t \in Tasks, TableFull(t) PROVE StepOK
<1>1. UNCHANGED << Sockets, ulopen, op, fd, arg >> /\ pc[t] = "scan" /\ FreeSlots = {}
      /\ pc' = [ pc EXCEPT ![t] = "done" ] /\ ret' = [ ret EXCEPT ![t] = ERR ]
  BY DEF TableFull, Goto, Return, ulVars
<1> USE DEF UInv, HInv, IInv, TypeOK
<1>2. \A s \in Slots : ClosedByDriver(s)' <=> ClosedByDriver(s)
  BY <1>1 DEF ClosedByDriver
<1>3. \A v \in Tasks, w \in UlIds : Carries(v, w) => Carries(v, w)' \/ (v = t /\ op[t] = "accept" /\ arg[t] = w)
  BY <1>1 DEF Carries, FindPCs
<1> HIDE DEF UInv, HInv, IInv, TypeOK
<1>4. \A s \in Slots : SameSlot(s)
  BY <1>1, <1>2 DEF SameSlot, Live
<1>5. UNCHANGED Table!table
  BY <1>4, TableStutters
<1>6. \A s \in Slots, w \in UlIds : Owns(s, w) => Owns(s, w)'
  BY <1>4, SameSlotKeeps, Zenon
<1>7. \A w \in UlIds : Accounted(w) => Accounted(w)' \/ (op[t] = "accept" /\ arg[t] = w)
  <2>1. \A w \in UlIds : Accounted(w) => (\E s \in Slots : Owns(s, w)) \/ (\E v \in Tasks : Carries(v, w))
    BY DEF Accounted, Carries, FindPCs
  <2>2. \A w \in UlIds : (\E s \in Slots : Owns(s, w)') \/ (\E v \in Tasks : Carries(v, w)') => Accounted(w)'
    BY DEF Accounted, Carries, FindPCs
  <2> QED
    BY <1>3, <1>6, <2>1, <2>2, Zenon
<1>8. \A w \in ulopen' : KeptOrDropped(w)
  BY <1>1, <1>7 DEF KeptOrDropped, UInv, HInv, IInv, TypeOK
<1> QED
  BY <1>5, <1>8 DEF StepOK

\* pclose detaches the slot; paccept opens a socket that the call then carries;
\* the other driver calls change nothing of the table.
LEMMA DriverStep == ASSUME UInv, UInv', Steady, NEW t \in Tasks, DriverReturns(t) PROVE StepOK
<1>1. pc[t] = "driver" /\ pc' = [ pc EXCEPT ![t] = "relock" ] /\ UNCHANGED << Sockets, op, fd, arg >>
      /\ pc[t] \in SlotPCs
  BY DEF DriverReturns, Goto, SlotPCs
<1>2. PICK r \in Slots : r = fd[t] /\ Live(r) /\ ~ClosedByDriver(r) /\ Sockets[r].ul = arg[t] /\ arg[t] >= 0
  BY <1>1, UserSlot DEF UInv, SlotAtInv, SlotAt, HasUl
<1>3. PICK u \in UlIds : arg[t] = u
  BY <1>2 DEF UInv, HInv, IInv, TypeOK, Socket, NoUl, BadUl
<1>4. LifeOf(r) = "attached" /\ HandleOf(r) = u
  BY <1>2, <1>3, LifeIs
<1>5. \A v \in Tasks \ {t}, w \in UlIds : Carries(v, w)' <=> Carries(v, w)
  BY <1>1 DEF DriverReturns, Carries, FindPCs, UInv, HInv, IInv, TypeOK
<1>6. \A w \in UlIds : ~Carries(t, w)
  BY <1>1 DEF Carries, FindPCs
<1>7. CASE op[t] = "close"
  <2>1. ulopen' = ulopen \ {u}
    BY <1>3, <1>7 DEF DriverReturns
  <2>2. \A s \in Slots \ {r} : ClosedByDriver(s)' <=> ClosedByDriver(s)
    BY <1>1, <1>2 DEF ClosedByDriver, UInv, HInv, IInv, TypeOK
  <2>3. \A s \in Slots \ {r} : SameSlot(s)
    BY <1>1, <2>2 DEF SameSlot, Live
  <2>4. Live(r)' /\ ClosedByDriver(r)'
    BY <1>1, <1>2, <1>7 DEF ClosedByDriver, Live, UInv, HInv, IInv, TypeOK
  <2>5. LifeOf(r)' = "closing" /\ HandleOf(r)' = NoUl
    BY <2>4, LifeBecomes
  <2>6. [Table!Next]_(Table!table)
    BY <1>4, <2>3, <2>5, TableMoves
  <2>7. \A s \in Slots, w \in UlIds : Owns(s, w) /\ w # u => Owns(s, w)'
    <3>1. \A w \in UlIds : Owns(r, w) => w = u
      BY <1>2, <1>3 DEF Owns
    <3> QED
      BY <2>3, <3>1, SameSlotKeeps, Zenon
  <2>8. \A w \in ulopen' : KeptOrDropped(w)
    BY <1>5, <1>6, <2>1, <2>7, AccountKept DEF UInv, HInv, IInv, TypeOK
  <2> QED
    BY <2>6, <2>8 DEF StepOK
<1>8. CASE op[t] # "close"
  <2>1. \A s \in Slots : ClosedByDriver(s)' <=> ClosedByDriver(s)
    BY <1>1, <1>8 DEF ClosedByDriver, UInv, HInv, IInv, TypeOK
  <2>2. \A s \in Slots : SameSlot(s)
    BY <1>1, <2>1 DEF SameSlot, Live
  <2>3. UNCHANGED Table!table
    BY <2>2, TableStutters
  <2>4. \A s \in Slots, w \in UlIds : Owns(s, w) => Owns(s, w)'
    BY <2>2, SameSlotKeeps, Zenon
  <2>5. \A w \in ulopen' \ ulopen : Carries(t, w)'
    BY <1>1, <1>8 DEF DriverReturns, Carries, ulVars, UInv, HInv, IInv, TypeOK
  <2>6. \A w \in ulopen' : KeptOrDropped(w)
    BY <1>5, <1>6, <2>4, <2>5, AccountKept DEF UInv, HInv, IInv, TypeOK
  <2> QED
    BY <2>3, <2>6 DEF StepOK
<1> QED
  BY <1>7, <1>8

\* The steps that BusyOrSame calls the same.
LEMMA SameStep == ASSUME UInv, UInv', Same PROVE StepOK
<1>1. \A s \in Slots : SameSlot(s)
  BY DEF Same, SameSlot
<1>2. UNCHANGED Table!table
  BY <1>1, TableStutters
<1>3. \A s \in Slots, w \in UlIds : Owns(s, w) => Owns(s, w)'
  BY <1>1, SameSlotKeeps, Zenon
<1>4. \A w \in ulopen' : KeptOrDropped(w)
  BY <1>3, AccountKept DEF Same, UInv, HInv, IInv, TypeOK
<1> QED
  BY <1>2, <1>4 DEF StepOK

\* Every step of the socket layer.
LEMMA EveryStep == ASSUME UInv, UInv', Steady, [Next]_vars PROVE StepOK
BY BusyOrSame, SameStep, PsocketStep, FreeBareStep, DriverStep, ClosePostStep, TableFullStep,
   ClaimStep, CloneStep DEF Busy

\* NetSocket implements SocketTable: with all the tasks, locks and unlocked driver
\* calls a slot is handed out, attached to a low-level socket that is no other
\* slot's, closed by the driver and freed, in this order.
THEOREM Refinement == ASSUME Steady PROVE Spec => ImplementsTable
<1>1. Init => Table!Init
  BY DEF Init, Table!Init, LifeOf, Live, Attached, Owns
<1>2. UInv /\ UInv' /\ [Next]_vars => [Table!Next]_(Table!table)
  BY EveryStep DEF StepOK
<1> QED
  BY <1>1, <1>2, TableInductive, PTL DEF Spec, ImplementsTable, Table!Spec

\* No low-level socket is left open with neither a slot nor a net_accept that
\* stands for it, except the one net_accept drops when the table is full.
THEOREM NoLeak == ASSUME Steady PROVE Spec => NoLowLevelLeak
<1>1. UInv /\ UInv' /\ [Next]_vars => [ \A u \in ulopen' : KeptOrDropped(u) ]_vars
  BY EveryStep DEF StepOK
<1> QED
  BY <1>1, TableInductive, PTL DEF Spec, NoLowLevelLeak, KeptOrDropped

=============================================================================
