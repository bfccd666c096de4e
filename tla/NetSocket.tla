------------------------------ MODULE NetSocket ------------------------------
(***************************************************************************)
(* The socket layer, core/net_socket.c, as built with NET_USE_RTOS and     *)
(* without NET_MBEDTLS_HOST_SUPPORT: the table Sockets[] shared by every   *)
(* application task, one binary semaphore per slot, one for the table, and *)
(* the calls into the network driver, all of which are made with the slot  *)
(* unlocked.                                                               *)
(*                                                                         *)
(* A call of the API is a walk of pc[t].  Two consecutive accesses to      *)
(* shared memory are two steps, so that anything another task, the driver  *)
(* or the interface does may come between them:                            *)
(*                                                                         *)
(*   valid    is_valid_socket, without the lock                            *)
(*   check    check_low_level_socket, without the lock                     *)
(*   lock     waits for the slot           relock  waits for it again      *)
(*   create   tests ulsocket   creating  is in psocket                     *)
(*   created  looks at the ulsocket that create_low_level_socket returns   *)
(*   access   net_access_control and the unlock before the driver call     *)
(*   call     fetches ulsocket, unlocked   driver  is in the driver        *)
(*   post     what follows the call, then the unlock                       *)
(*   array, scan, claim, slotlock, fill    find_free_socket, clone_socket  *)
(*                                                                         *)
(* An interface is registered before the first call, so pnetif is never    *)
(* NULL.  Error codes are folded into ERR.                                 *)
(***************************************************************************)
EXTENDS Integers, FiniteSets

CONSTANTS
  Tasks,                \* the application's threads
  NET_MAX_SOCKETS_NBR,  \* the number of slots
  UL_SOCKETS,           \* the number of sockets the driver has
  Ops,                  \* the functions of the API the application calls
  Shared,               \* may a call start on a descriptor another call is using?
  BareShutdown,         \* may net_shutdown be called before there is a low-level socket?
  LinkLoss              \* may the interface lose and regain its connection?

AllOps == { "socket", "bind", "listen", "accept", "connect", "send", "recv",
            "sendto", "recvfrom", "shutdown", "close", "getname", "setsockopt" }

ASSUME NetSocketAssumption ==
  /\ NET_MAX_SOCKETS_NBR \in Nat \ {0}
  /\ UL_SOCKETS \in Nat \ {0}
  /\ Ops \subseteq AllOps
  /\ Shared \in BOOLEAN /\ BareShutdown \in BOOLEAN /\ LinkLoss \in BOOLEAN

Slots  == 0 .. NET_MAX_SOCKETS_NBR - 1
UlIds  == 0 .. UL_SOCKETS - 1
ARRAY  == NET_MAX_SOCKETS_NBR        \* NET_LOCK_SOCKET_ARRAY
Locks  == Slots \cup {ARRAY}

NoSlot == -1
NoUl   == -1                         \* ulsocket of a fresh slot
BadUl  == -2                         \* any other failure of psocket
OK     == 0
ERR    == -1

Statuses == { "NOT_ALIVE", "ALLOCATED", "CONNECTED" }
Socket   == [ status : Statuses, ul : UlIds \cup {NoUl, BadUl}, cloneserver : BOOLEAN ]

VARIABLES
  Sockets,    \* the table
  NetMutex,   \* the semaphores' counts
  lost,       \* pnetif->state = NET_STATE_CONNECTION_LOST
  ulopen,     \* the driver's sockets that exist
  ullinked,   \* those with a peer
  fds,        \* the descriptors the application was given and has not closed
  pc, op, fd, new, arg, ret, retry

taskVars == << pc, op, fd, new, arg, ret, retry >>
ulVars   == << ulopen, ullinked >>
vars     == << Sockets, NetMutex, lost, ulVars, fds, taskVars >>

PCs == { "idle", "valid", "check", "lock", "create", "creating", "created", "access",
         "call", "driver", "relock", "post", "array", "scan", "claim", "slotlock",
         "fill", "done" }

Init ==
  /\ Sockets  = [ s \in Slots |-> [ status |-> "NOT_ALIVE", ul |-> 0, cloneserver |-> FALSE ] ]
  /\ NetMutex = [ l \in Locks |-> 1 ]
  /\ lost     = FALSE
  /\ ulopen   = {}
  /\ ullinked = {}
  /\ fds      = {}
  /\ pc  = [ t \in Tasks |-> "idle" ]
  /\ op  = [ t \in Tasks |-> "socket" ]
  /\ fd  = [ t \in Tasks |-> NoSlot ]
  /\ new = [ t \in Tasks |-> NoSlot ]
  /\ arg = [ t \in Tasks |-> NoUl ]
  /\ ret = [ t \in Tasks |-> OK ]
  /\ retry = [ t \in Tasks |-> FALSE ]

-----------------------------------------------------------------------------
(* Control and locks.                                                      *)

Goto(t, to) == pc' = [ pc EXCEPT ![t] = to ]

Return(t, r) == Goto(t, "done") /\ ret' = [ ret EXCEPT ![t] = r ]

Acquire(l) == NetMutex[l] = 1 /\ NetMutex' = [ NetMutex EXCEPT ![l] = 0 ]

Release(L) == NetMutex' = [ l \in Locks |-> IF l \in L THEN 1 ELSE NetMutex[l] ]

Live(s) == Sockets[s].status # "NOT_ALIVE"

HasUl(s) == Live(s) /\ Sockets[s].ul >= 0

\* Calls that look for the low-level socket before locking, calls that create
\* it before locking, and calls that create it once they hold the slot.
CheckFirst     == { "accept", "listen", "send", "recv", "getname" }
CreateUnlocked == { "sendto", "recvfrom" }
CreateLocked   == { "bind", "connect", "setsockopt" }

-----------------------------------------------------------------------------
(* Variants with a bug: no behaviour of the specification takes one.  Each   *)
(* is put in place of the definition it is named after, to show that some    *)
(* property then fails.                                                      *)

FreeSlots_OnePastTheEnd ==
  { s \in 0 .. NET_MAX_SOCKETS_NBR : s = NET_MAX_SOCKETS_NBR \/ ~Live(s) }

FreeSlots_AllocatedIsFree == { s \in Slots : Sockets[s].status # "CONNECTED" }

FreeBareSlot_StaysLocked(t) ==
  /\ pc[t] = "access" /\ op[t] \in {"shutdown", "close"} /\ ~HasUl(fd[t])
  /\ Sockets' = [ Sockets EXCEPT ![fd[t]].status = "NOT_ALIVE" ]
  /\ Return(t, OK)
  /\ UNCHANGED << NetMutex, lost, ulVars, fds, op, fd, new, arg, retry >>

ConnectPost_ClosesOnFailure(t) ==
  /\ pc[t] = "post" /\ op[t] = "connect"
  /\ Sockets' = [ Sockets EXCEPT ![fd[t]].status = IF ret[t] = OK THEN "CONNECTED" ELSE "NOT_ALIVE" ]
  /\ Release({fd[t]})
  /\ Return(t, ret[t])
  /\ UNCHANGED << lost, ulVars, fds, op, fd, new, arg, retry >>

PlainPost_ClosesOnFailure(t) ==
  /\ pc[t] = "post" /\ op[t] \notin {"connect", "close", "accept"}
  /\ Sockets' = IF ret[t] < 0 THEN [ Sockets EXCEPT ![fd[t]].status = "NOT_ALIVE" ] ELSE Sockets
  /\ Release({fd[t]})
  /\ Return(t, ret[t])
  /\ UNCHANGED << lost, ulVars, fds, op, fd, new, arg, retry >>

ClosePost_StaysAlive(t) ==
  /\ pc[t] = "post" /\ op[t] = "close"
  /\ Sockets' = [ Sockets EXCEPT ![fd[t]].ul = NoUl ]
  /\ Release({fd[t]})
  /\ Return(t, ret[t])
  /\ UNCHANGED << lost, ulVars, fds, op, fd, new, arg, retry >>

Claim_KeepsUlsocket(t) ==
  /\ pc[t] = "claim"
  /\ Sockets' = [ Sockets EXCEPT ![new[t]].status = "ALLOCATED" ]
  /\ Goto(t, "slotlock")
  /\ UNCHANGED << NetMutex, lost, ulVars, fds, op, fd, new, arg, ret, retry >>

Created_SecondTryIsSuccess(t) ==
  /\ pc[t] = "created"
  /\ LET s       == fd[t]
         success == Sockets[s].ul >= 0
     IN  \/ /\ success /\ ~retry[t]
            /\ Goto(t, IF op[t] \in {"sendto", "recvfrom"} THEN "lock" ELSE "access")
            /\ UNCHANGED << NetMutex, ret, retry >>
         \/ /\ ~success /\ op[t] = "connect" /\ ~retry[t]
            /\ retry' = [ retry EXCEPT ![t] = TRUE ]
            /\ Goto(t, "create")
            /\ UNCHANGED << NetMutex, ret >>
         \/ /\ retry[t] \/ (~success /\ op[t] # "connect")
            /\ IF op[t] \in {"sendto", "recvfrom"} THEN UNCHANGED NetMutex ELSE Release({s})
            /\ Return(t, IF success THEN OK ELSE ERR)
            /\ UNCHANGED retry
  /\ UNCHANGED << Sockets, lost, ulVars, fds, op, fd, new, arg >>

CreateLowLevel_Again(t) ==
  /\ pc[t] = "create"
  /\ Goto(t, "creating")
  /\ UNCHANGED << Sockets, NetMutex, lost, ulVars, fds, op, fd, new, arg, ret, retry >>

ArrayLock_NoLock(t) ==
  /\ pc[t] = "array"
  /\ Goto(t, "scan")
  /\ UNCHANGED << Sockets, NetMutex, lost, ulVars, fds, op, fd, new, arg, ret, retry >>

-----------------------------------------------------------------------------
(* The application: it uses only descriptors it was given and has not       *)
(* started to close.                                                       *)

InUse(s) == \E u \in Tasks : pc[u] # "idle" /\ op[u] # "socket" /\ fd[u] = s

CallSocket(t) ==
  /\ pc[t] = "idle" /\ "socket" \in Ops
  /\ op' = [ op EXCEPT ![t] = "socket" ]
  /\ Goto(t, "array")
  /\ UNCHANGED << Sockets, NetMutex, lost, ulVars, fds, fd, new, arg, ret, retry >>

Call(t, o, s) ==
  /\ pc[t] = "idle"
  /\ Shared \/ ~InUse(s)
  /\ (o = "shutdown" /\ ~BareShutdown) => Sockets[s].ul >= 0
  /\ op' = [ op EXCEPT ![t] = o ]
  /\ fd' = [ fd EXCEPT ![t] = s ]
  /\ fds' = IF o = "close" THEN fds \ {s} ELSE fds
  /\ Goto(t, "valid")
  /\ UNCHANGED << Sockets, NetMutex, lost, ulVars, new, arg, ret, retry >>

Done(t) ==
  /\ pc[t] = "done"
  /\ Goto(t, "idle")
  /\ fds' = IF op[t] \in {"socket", "accept"} /\ ret[t] >= 0 THEN fds \cup {ret[t]} ELSE fds
  /\ fd'  = [ fd EXCEPT ![t] = NoSlot ]
  /\ new' = [ new EXCEPT ![t] = NoSlot ]
  /\ arg' = [ arg EXCEPT ![t] = NoUl ]
  /\ ret' = [ ret EXCEPT ![t] = OK ]
  /\ retry' = [ retry EXCEPT ![t] = FALSE ]
  /\ op' = [ op EXCEPT ![t] = "socket" ]
  /\ UNCHANGED << Sockets, NetMutex, lost, ulVars >>

LinkChange ==
  /\ LinkLoss
  /\ lost' = ~lost
  /\ UNCHANGED << Sockets, NetMutex, ulVars, fds, taskVars >>

-----------------------------------------------------------------------------
(* From the entry of a call to the lock.                                   *)

IsValidSocket(t) ==
  /\ pc[t] = "valid"
  /\ IF Live(fd[t])
     THEN /\ Goto(t, IF op[t] \in CheckFirst THEN "check"
                     ELSE IF op[t] \in CreateUnlocked THEN "create" ELSE "lock")
          /\ UNCHANGED ret
     ELSE Return(t, ERR)
  /\ UNCHANGED << Sockets, NetMutex, lost, ulVars, fds, op, fd, new, arg, retry >>

CheckLowLevelSocket(t) ==
  /\ pc[t] = "check"
  /\ IF HasUl(fd[t]) THEN Goto(t, "lock") /\ UNCHANGED ret ELSE Return(t, ERR)
  /\ UNCHANGED << Sockets, NetMutex, lost, ulVars, fds, op, fd, new, arg, retry >>

\* net_socket_get_and_lock
GetAndLock(t) ==
  /\ pc[t] = "lock"
  /\ Acquire(fd[t])
  /\ Goto(t, IF op[t] \in CreateLocked THEN "create" ELSE "access")
  /\ UNCHANGED << Sockets, lost, ulVars, fds, op, fd, new, arg, ret, retry >>

\* An option whose length is wrong, or NET_SO_BINDTODEVICE with no device, goes
\* no further.
SetsockoptKept(t) ==
  /\ pc[t] = "create" /\ op[t] = "setsockopt"
  /\ Release({fd[t]})
  /\ Return(t, ERR)
  /\ UNCHANGED << Sockets, lost, ulVars, fds, op, fd, new, arg, retry >>

-----------------------------------------------------------------------------
(* create_low_level_socket.  While the connection is lost net_access_control *)
(* stores its code 0 in ulsocket, and the driver is called all the same.     *)

CreateLowLevel(t) ==
  /\ pc[t] = "create"
  /\ IF Sockets[fd[t]].ul = NoUl
     THEN /\ Goto(t, "creating")
          /\ Sockets' = IF lost THEN [ Sockets EXCEPT ![fd[t]].ul = 0 ] ELSE Sockets
     ELSE Goto(t, "created") /\ UNCHANGED Sockets
  /\ UNCHANGED << NetMutex, lost, ulVars, fds, op, fd, new, arg, ret, retry >>

\* psocket returns a socket, -1, or another negative code.
PsocketReturns(t) ==
  /\ pc[t] = "creating"
  /\ \E u \in (UlIds \ ulopen) \cup {NoUl, BadUl} :
       /\ Sockets' = [ Sockets EXCEPT ![fd[t]].ul = u ]
       /\ ulopen'  = ulopen \cup ({u} \cap UlIds)
  /\ Goto(t, "created")
  /\ UNCHANGED << NetMutex, lost, ullinked, fds, op, fd, new, arg, ret, retry >>

\* Only net_connect tries twice, and its second success is still an error.
Created(t) ==
  /\ pc[t] = "created"
  /\ LET s       == fd[t]
         success == Sockets[s].ul >= 0
     IN  \/ /\ success /\ ~retry[t]
            /\ Goto(t, IF op[t] \in CreateUnlocked THEN "lock" ELSE "access")
            /\ UNCHANGED << NetMutex, ret, retry >>
         \/ /\ ~success /\ op[t] = "connect" /\ ~retry[t]
            /\ retry' = [ retry EXCEPT ![t] = TRUE ]
            /\ Goto(t, "create")
            /\ UNCHANGED << NetMutex, ret >>
         \/ /\ retry[t] \/ (~success /\ op[t] # "connect")
            /\ IF op[t] \in CreateUnlocked THEN UNCHANGED NetMutex ELSE Release({s})
            /\ Return(t, ERR)
            /\ UNCHANGED retry
  /\ UNCHANGED << Sockets, lost, ulVars, fds, op, fd, new, arg >>

-----------------------------------------------------------------------------
(* The call into the driver.                                               *)

\* net_access_control: what a lost connection does not stop.
AlwaysAllowed == { "getname", "close", "shutdown", "setsockopt" }

Closing(t) == op[t] \in {"shutdown", "close"}

\* net_shutdown and net_closesocket on a slot without a low-level socket.
FreeBareSlot(t) ==
  /\ pc[t] = "access" /\ Closing(t) /\ ~HasUl(fd[t])
  /\ Sockets' = [ Sockets EXCEPT ![fd[t]].status = "NOT_ALIVE" ]
  /\ Release({fd[t]})
  /\ Return(t, OK)
  /\ UNCHANGED << lost, ulVars, fds, op, fd, new, arg, retry >>

\* Access is refused with the code 0, which is what the call goes on with.
AccessDenied(t) ==
  /\ pc[t] = "access" /\ lost /\ op[t] \notin AlwaysAllowed
  /\ ret' = [ ret EXCEPT ![t] = 0 ]
  /\ Goto(t, "post")
  /\ UNCHANGED << Sockets, NetMutex, lost, ulVars, fds, op, fd, new, arg, retry >>

AccessGranted(t) ==
  /\ pc[t] = "access"
  /\ op[t] \in AlwaysAllowed \/ ~lost
  /\ Closing(t) => HasUl(fd[t])
  /\ Release({fd[t]})
  /\ Goto(t, "call")
  /\ UNCHANGED << Sockets, lost, ulVars, fds, op, fd, new, arg, ret, retry >>

\* The argument p_socket->ulsocket is read after the unlock.
EnterDriver(t) ==
  /\ pc[t] = "call"
  /\ arg' = [ arg EXCEPT ![t] = Sockets[fd[t]].ul ]
  /\ Goto(t, "driver")
  /\ UNCHANGED << Sockets, NetMutex, lost, ulVars, fds, op, fd, new, ret, retry >>

\* The driver, as this layer sees it: any call may fail, pclose frees its
\* socket whatever it returns, and a socket that does not exist is an error.
DriverReturns(t) ==
  /\ pc[t] = "driver"
  /\ \/ /\ op[t] = "close"
        /\ ulopen' = ulopen \ {arg[t]} /\ ullinked' = ullinked \ {arg[t]}
        /\ \E r \in {OK, ERR} : ret' = [ ret EXCEPT ![t] = r ]
     \/ /\ op[t] = "connect" /\ arg[t] \in ulopen
        /\ ullinked' = ullinked \cup {arg[t]}
        /\ ret' = [ ret EXCEPT ![t] = OK ]
        /\ UNCHANGED ulopen
     \/ /\ op[t] = "accept" /\ arg[t] \in ulopen
        /\ \E u \in UlIds \ ulopen :
             /\ ulopen' = ulopen \cup {u} /\ ullinked' = ullinked \cup {u}
             /\ ret' = [ ret EXCEPT ![t] = u ]
     \/ /\ op[t] \notin {"close", "connect", "accept"} /\ arg[t] \in ulopen
        /\ ret' = [ ret EXCEPT ![t] = OK ]
        /\ UNCHANGED ulVars
     \/ /\ op[t] # "close"
        /\ ret' = [ ret EXCEPT ![t] = ERR ]
        /\ UNCHANGED ulVars
  /\ Goto(t, "relock")
  /\ UNCHANGED << Sockets, NetMutex, lost, fds, op, fd, new, arg, retry >>

Relock(t) ==
  /\ pc[t] = "relock"
  /\ Acquire(fd[t])
  /\ Goto(t, "post")
  /\ UNCHANGED << Sockets, lost, ulVars, fds, op, fd, new, arg, ret, retry >>

-----------------------------------------------------------------------------
(* After the call.  The slot is written without a look at what became of it. *)

Finish(t) ==
  /\ Release({fd[t]})
  /\ Return(t, ret[t])
  /\ UNCHANGED << lost, ulVars, fds, op, fd, new, arg, retry >>

ConnectPost(t) ==
  /\ pc[t] = "post" /\ op[t] = "connect"
  /\ Sockets' = IF ret[t] = OK THEN [ Sockets EXCEPT ![fd[t]].status = "CONNECTED" ] ELSE Sockets
  /\ Finish(t)

ClosePost(t) ==
  /\ pc[t] = "post" /\ op[t] = "close"
  /\ Sockets' = [ Sockets EXCEPT ![fd[t]].ul = NoUl, ![fd[t]].status = "NOT_ALIVE" ]
  /\ Finish(t)

PlainPost(t) ==
  /\ pc[t] = "post" /\ op[t] \notin {"connect", "close", "accept"}
  /\ UNCHANGED Sockets
  /\ Finish(t)

AcceptFailed(t) ==
  /\ pc[t] = "post" /\ op[t] = "accept" /\ ret[t] < 0
  /\ UNCHANGED Sockets
  /\ Finish(t)

\* The listener's slot stays locked while clone_socket looks for a free one.
AcceptPost(t) ==
  /\ pc[t] = "post" /\ op[t] = "accept" /\ ret[t] >= 0
  /\ Sockets' = [ Sockets EXCEPT ![fd[t]].status = "CONNECTED" ]
  /\ arg' = [ arg EXCEPT ![t] = ret[t] ]
  /\ Goto(t, "array")
  /\ UNCHANGED << NetMutex, lost, ulVars, fds, op, fd, new, ret, retry >>

-----------------------------------------------------------------------------
(* find_free_socket, for net_socket and for clone_socket.                  *)

ArrayLock(t) ==
  /\ pc[t] = "array"
  /\ Acquire(ARRAY)
  /\ Goto(t, "scan")
  /\ UNCHANGED << Sockets, lost, ulVars, fds, op, fd, new, arg, ret, retry >>

FreeSlots == { s \in Slots : ~Live(s) }

Scan(t) ==
  /\ pc[t] = "scan"
  /\ \E s \in FreeSlots :
       /\ \A r \in FreeSlots : s <= r
       /\ new' = [ new EXCEPT ![t] = s ]
  /\ Goto(t, "claim")
  /\ UNCHANGED << Sockets, NetMutex, lost, ulVars, fds, op, fd, arg, ret, retry >>

\* A full table: net_accept drops the low-level socket it was given.
TableFull(t) ==
  /\ pc[t] = "scan" /\ FreeSlots = {}
  /\ Release(IF op[t] = "accept" THEN {ARRAY, fd[t]} ELSE {ARRAY})
  /\ Return(t, ERR)
  /\ UNCHANGED << Sockets, lost, ulVars, fds, op, fd, new, arg, retry >>

\* Every field but cloneserver is reset.
Claim(t) ==
  /\ pc[t] = "claim"
  /\ Sockets' = [ Sockets EXCEPT ![new[t]].status = "ALLOCATED", ![new[t]].ul = NoUl ]
  /\ Goto(t, "slotlock")
  /\ UNCHANGED << NetMutex, lost, ulVars, fds, op, fd, new, arg, ret, retry >>

\* LOCK_SOCK(sidx), still inside the table's lock.
SlotLock(t) ==
  /\ pc[t] = "slotlock"
  /\ NetMutex[new[t]] = 1
  /\ NetMutex' = [ NetMutex EXCEPT ![new[t]] = 0, ![ARRAY] = 1 ]
  /\ Goto(t, "fill")
  /\ UNCHANGED << Sockets, lost, ulVars, fds, op, fd, new, arg, ret, retry >>

FillSocket(t) ==
  /\ pc[t] = "fill" /\ op[t] = "socket"
  /\ Release({new[t]})
  /\ Return(t, new[t])
  /\ UNCHANGED << Sockets, lost, ulVars, fds, op, fd, new, arg, retry >>

CloneSocket(t) ==
  /\ pc[t] = "fill" /\ op[t] = "accept"
  /\ Sockets' = [ Sockets EXCEPT ![new[t]] =
                    [ Sockets[fd[t]] EXCEPT !.ul = arg[t], !.cloneserver = TRUE ] ]
  /\ Release({new[t], fd[t]})
  /\ Return(t, new[t])
  /\ UNCHANGED << lost, ulVars, fds, op, fd, new, arg, retry >>

-----------------------------------------------------------------------------

Acquiring(t) == GetAndLock(t) \/ Relock(t) \/ ArrayLock(t) \/ SlotLock(t)

Running(t) ==
  \/ IsValidSocket(t) \/ CheckLowLevelSocket(t)
  \/ SetsockoptKept(t) \/ CreateLowLevel(t) \/ PsocketReturns(t) \/ Created(t)
  \/ FreeBareSlot(t) \/ AccessDenied(t) \/ AccessGranted(t)
  \/ EnterDriver(t) \/ DriverReturns(t)
  \/ ConnectPost(t) \/ ClosePost(t) \/ PlainPost(t) \/ AcceptFailed(t) \/ AcceptPost(t)
  \/ Scan(t) \/ TableFull(t) \/ Claim(t) \/ FillSocket(t) \/ CloneSocket(t)
  \/ Done(t)

Next ==
  \/ \E t \in Tasks : CallSocket(t)
  \/ \E t \in Tasks, o \in Ops \ {"socket"}, s \in fds : Call(t, o, s)
  \/ \E t \in Tasks : Running(t) \/ Acquiring(t)
  \/ LinkChange

Spec == Init /\ [][Next]_vars

\* A task that can run is scheduled, a driver call ends (every low-level call
\* has a timeout), and a waiter of a semaphore is served: the kernel wakes the
\* waiters of equal priority in the order they came.
FairSpec ==
  Spec /\ \A t \in Tasks : WF_vars(Running(t)) /\ SF_vars(Acquiring(t))

-----------------------------------------------------------------------------
(* Properties.                                                             *)

\* Every variable has its type.
TypeOK ==
  /\ Sockets \in [ Slots -> Socket ]
  /\ NetMutex \in [ Locks -> {0, 1} ]
  /\ lost \in BOOLEAN
  /\ ulopen \subseteq UlIds /\ ullinked \subseteq UlIds
  /\ fds \subseteq Slots
  /\ pc \in [ Tasks -> PCs ]
  /\ op \in [ Tasks -> AllOps ]
  /\ fd \in [ Tasks -> Slots \cup {NoSlot} ]
  /\ new \in [ Tasks -> Slots \cup {NoSlot} ]
  /\ arg \in [ Tasks -> UlIds \cup {NoUl, BadUl} ]
  /\ ret \in [ Tasks -> Slots \cup UlIds \cup {ERR} ]
  /\ retry \in [ Tasks -> BOOLEAN ]

\* The lock a task has taken and not given back, and the one it waits for.
Holds(t, l) ==
  \/ l = fd[t]  /\ \/ pc[t] \in {"create", "creating", "created"} /\ op[t] \in CreateLocked
                   \/ pc[t] \in {"access", "post"}
                   \/ pc[t] \in {"array", "scan", "claim", "slotlock", "fill"} /\ op[t] = "accept"
  \/ l = ARRAY  /\ pc[t] \in {"scan", "claim", "slotlock"}
  \/ l = new[t] /\ pc[t] = "fill"

WaitsFor(t, l) ==
  \/ l = fd[t]  /\ pc[t] \in {"lock", "relock"}
  \/ l = ARRAY  /\ pc[t] = "array"
  \/ l = new[t] /\ pc[t] = "slotlock"

\* A semaphore is taken exactly when one task is between its net_lock and its
\* net_unlock: no early return of the API leaves a slot locked, none unlocks a
\* slot it had not locked, and no two tasks are in one slot's critical section.
LockInv ==
  \A l \in Locks :
    /\ NetMutex[l] = 0 <=> \E t \in Tasks : Holds(t, l)
    /\ \A t, u \in Tasks : Holds(t, l) /\ Holds(u, l) => t = u

\* net_accept takes the table's lock with a slot locked, find_free_socket takes
\* a slot's lock with the table locked: the two never wait for each other.
NoCircularWait ==
  ~ \E t, u \in Tasks, l, m \in Locks :
      WaitsFor(t, l) /\ Holds(u, l) /\ WaitsFor(u, m) /\ Holds(t, m)

\* A slot that find_free_socket found free is still free when it is claimed:
\* no task revives a closed slot, no two tasks are handed the same one.
FreshSlotIsFree == \A t \in Tasks : pc[t] = "claim" => ~Live(new[t])

\* A descriptor the application holds is never a free slot: nothing but its own
\* net_closesocket takes it away.
FdAlive == \A s \in fds : Live(s)

\* No slot the driver has already closed still counts as owning its socket.
ClosedByDriver(s) == \E t \in Tasks : op[t] = "close" /\ fd[t] = s /\ pc[t] \in {"relock", "post"}

Owns(s, u) == Live(s) /\ Sockets[s].ul = u /\ ~ClosedByDriver(s)

\* The driver is never called on a low-level socket that is closed, or that was
\* never opened.
DriverArgOpen == \A t \in Tasks : pc[t] = "driver" => arg[t] \in ulopen

\* What has become of a slot, for an application that knows nothing of tasks.
Attached(s) == \E u \in UlIds : Owns(s, u)

LifeOf(s) ==
  CASE ~Live(s)    -> "free"
    [] Attached(s) -> "attached"
    [] Live(s) /\ ClosedByDriver(s) -> "closing"
    [] OTHER       -> "bare"

Table ==
  INSTANCE SocketTable WITH
    Descriptors <- Slots, Handles <- UlIds, NoHandle <- NoUl,
    life   <- [ s \in Slots |-> LifeOf(s) ],
    handle <- [ s \in Slots |-> IF Attached(s) THEN Sockets[s].ul ELSE NoUl ]

\* The tasks, the locks and the unlocked driver calls together are the table of
\* SocketTable: every slot is handed out, attached to a low-level socket that is
\* no other slot's, closed by the driver and freed in this order, and nothing
\* attaches to it or revives it in between.
ImplementsTable == Table!Spec

Accounted(u) ==
  \/ \E s \in Slots : Owns(s, u)
  \/ \E t \in Tasks : /\ op[t] = "accept"
                     /\ \/ pc[t] \in {"relock", "post"} /\ ret[t] = u
                        \/ pc[t] \in {"array", "scan", "claim", "slotlock", "fill"} /\ arg[t] = u

\* A low-level socket stays with a live slot, or with the net_accept that is
\* making its slot, until the driver closes it.  The one exception is the code's:
\* net_accept drops the new connection when the table is full.
NoLowLevelLeak ==
  [][ \A u \in ulopen' :
        \/ Accounted(u)'
        \/ u \in ulopen /\ ~Accounted(u)
        \/ FreeSlots = {} /\ \E t \in Tasks : pc[t] = "scan" /\ op[t] = "accept" /\ arg[t] = u
    ]_vars

\* "zero in case of success" of net_connect: the low-level socket has a peer.
ConnectMeansConnected ==
  \A t \in Tasks :
    pc[t] = "done" /\ op[t] = "connect" /\ ret[t] = OK => Sockets[fd[t]].ul \in ullinked

\* A descriptor that net_accept returns stands for a connection with a client.  A
\* descriptor is the number of a slot, the first of which is 0: where net_socket.c:253,
\* like :177 of net_socket, says "socket number as an integer greater than zero in case
\* of success, zero or less than zero otherwise", the code returns 0 for a slot it has
\* claimed and filled, and only a number below zero is a failure of it.  The property
\* holds the code to every descriptor it hands out, 0 with the others.
AcceptMeansConnection ==
  \A t \in Tasks :
    pc[t] = "done" /\ op[t] = "accept" /\ ret[t] >= 0 => Sockets[ret[t]].ul \in ullinked

\* What net_connect and net_accept do is what they return, 0 of the one and a
\* descriptor (0 or more) of the other, though the slot was unlocked while the driver
\* worked.
SuccessMeansConnection == ConnectMeansConnected /\ AcceptMeansConnection

\* Every call of the API returns, whatever the other tasks do with the slot.
CallReturns == \A t \in Tasks : pc[t] # "idle" ~> pc[t] = "idle"
=============================================================================
