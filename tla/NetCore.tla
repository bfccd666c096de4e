------------------------------ MODULE NetCore ------------------------------
(***************************************************************************)
(* What the interfaces of core/net_core.c share: the list NetIfList, the   *)
(* locks of core/net_os.c, which the first net_if_init creates and any     *)
(* net_if_deinit destroys, and the one semaphore NET_LOCK_STATE_EVENT that *)
(* every net_if_wait_state sleeps on.  What becomes of a single interface  *)
(* is the subject of NetIf; here it is deinitialized, initialized, or      *)
(* ready, which stands for all the states it has in between.               *)
(*                                                                         *)
(* Tasks call the library at once.  A call is at pc[t]; the list is read   *)
(* and written with its lock held, everything else without a lock.         *)
(*                                                                         *)
(* The code is right for an application that keeps some rules nobody wrote *)
(* down; Liberties are the rules it does not keep.                         *)
(***************************************************************************)
EXTENDS Integers, FiniteSets

CONSTANTS
  Tasks, Netifs,
  NULL,            \* no interface
  Timeouts,        \* those net_if_wait_state is called with
  WORD,            \* 2^32 in the code
  Liberties        \* see AllLiberties

AllLiberties ==
  { "first at once",   \* the net_if_init that creates the locks is not alone
    "ends at once",    \* nor is a net_if_deinit, or a net_if_init that fails
    "fails behind",    \* a net_if_init fails that another has overtaken
    "used after",      \* an interface is used after the end of another
    "again" }          \* net_if_init of an interface whose net_if_deinit failed

ASSUME NetCoreAssumption ==
  /\ IsFiniteSet(Netifs) /\ NULL \notin Netifs
  /\ IsFiniteSet(Timeouts) /\ Timeouts \subseteq Nat /\ Timeouts # {}
  /\ WORD \in Nat /\ \A x \in Timeouts : x + x < WORD
  /\ Liberties \subseteq AllLiberties

LONGEST == CHOOSE x \in Timeouts : \A y \in Timeouts : y <= x

STATES == { "DEINITIALIZED", "INITIALIZED", "READY" }

VARIABLES
  NetInitialized,
  sets,          \* the sets of semaphores created and not deleted
  listLock,      \* NET_LOCK_NETIF_LIST is taken
  event,         \* NET_LOCK_STATE_EVENT has a signal nobody has consumed
  NetIfList, next,
  state,         \* of each interface
  owed,          \* the interfaces whose new state is not signalled yet
  stuck,         \* those whose net_if_deinit failed: still in the list
  pc, op, netif, \* of each task: the place, the call and its interface
  timeout, elapsed, left   \* of a wait; left is the semaphore's timer

locks == << NetInitialized, sets, listLock >>
list  == << NetIfList, next >>
clock == << timeout, elapsed, left >>
vars  == << locks, event, list, state, owed, stuck, pc, op, netif, clock >>

Init ==
  /\ NetInitialized = 0 /\ sets = 0 /\ listLock = FALSE /\ event = FALSE
  /\ NetIfList = NULL /\ next = [ n \in Netifs |-> NULL ]
  /\ state = [ n \in Netifs |-> "DEINITIALIZED" ]
  /\ owed = {} /\ stuck = {}
  /\ pc = [ t \in Tasks |-> "idle" ] /\ op = [ t \in Tasks |-> "none" ]
  /\ netif = [ t \in Tasks |-> NULL ]
  /\ timeout = [ t \in Tasks |-> 0 ]
  /\ elapsed = [ t \in Tasks |-> 0 ] /\ left = [ t \in Tasks |-> 0 ]

-----------------------------------------------------------------------------
(* The rules of the application.                                           *)

Allows(liberty, rule) == liberty \in Liberties \/ rule

Alone(t)     == owed = {} /\ \A u \in Tasks \ {t} : pc[u] = "idle"
Ending       == \E u \in Tasks : op[u] \in {"undo", "deinit"}
Untouched(n) == \A u \in Tasks : netif[u] # n

MayUse == Allows("used after", NetInitialized = 1) /\ Allows("ends at once", ~Ending)
MayEnd(t) == Allows("ends at once", Alone(t))

Call(t, call, n, place) ==
  /\ pc[t] = "idle"
  /\ pc' = [ pc EXCEPT ![t] = place ]
  /\ op' = [ op EXCEPT ![t] = call ]
  /\ netif' = [ netif EXCEPT ![t] = n ]

Goto(t, place) == pc' = [ pc EXCEPT ![t] = place ] /\ UNCHANGED << op, netif >>

Return(t) ==
  /\ pc' = [ pc EXCEPT ![t] = "idle" ] /\ op' = [ op EXCEPT ![t] = "none" ]
  /\ netif' = [ netif EXCEPT ![t] = NULL ]

-----------------------------------------------------------------------------
(* The list.                                                               *)

\* The walk from the head: its k-th interface.
Nth[k \in 0 .. Cardinality(Netifs)] ==
  IF k = 0 THEN NetIfList ELSE IF Nth[k - 1] = NULL THEN NULL ELSE next[Nth[k - 1]]

Listed == { Nth[k] : k \in DOMAIN Nth } \ {NULL}

\* netif_add_to_list, between lock and unlock: at the end.
netif_add_to_list(n) ==
  \/ NetIfList = NULL /\ NetIfList' = n /\ UNCHANGED next
  \/ \E last \in Listed :
       next[last] = NULL /\ next' = [ next EXCEPT ![last] = n ] /\ UNCHANGED NetIfList

\* netif_remove_from_list
netif_remove_from_list(n) ==
  \/ NetIfList = n /\ NetIfList' = next[n] /\ UNCHANGED next
  \/ /\ NetIfList # n /\ UNCHANGED NetIfList
     /\ next' = [ m \in Netifs |-> IF m \in Listed /\ next[m] = n THEN next[n] ELSE next[m] ]

\* LOCK_NETIF_LIST
LockList(t) ==
  /\ pc[t] = "lock" /\ ~listLock /\ listLock' = TRUE
  /\ Goto(t, "list")
  /\ UNCHANGED << NetInitialized, sets, event, list, state, owed, stuck, clock >>

\* What the call does with the list, and UNLOCK_NETIF_LIST.
UseList(t) ==
  /\ pc[t] = "list" /\ listLock' = FALSE
  /\ \/ op[t] = "init"   /\ netif_add_to_list(netif[t])      /\ Goto(t, "driver")
     \/ op[t] = "undo"   /\ netif_remove_from_list(netif[t]) /\ Goto(t, "destroy")
     \/ op[t] = "deinit" /\ netif_remove_from_list(netif[t]) /\ Goto(t, "forget")
     \/ op[t] = "find"   /\ UNCHANGED list /\ Return(t)
  /\ UNCHANGED << NetInitialized, sets, event, state, owed, stuck, clock >>

\* net_if_find, with an address.
NetIfFind(t) ==
  /\ MayUse /\ NetIfList # NULL
  /\ Call(t, "find", NULL, "lock")
  /\ UNCHANGED << locks, event, list, state, owed, stuck, clock >>

-----------------------------------------------------------------------------
(* net_if_init                                                             *)

NetIfInit(t, n) ==
  /\ state[n] = "DEINITIALIZED" /\ Untouched(n)
  /\ Allows("first at once", NetInitialized = 1 \/ Alone(t))
  /\ Allows("ends at once", ~Ending)
  /\ Allows("again", n \notin stuck)
  /\ Call(t, "init", n, "check")
  /\ UNCHANGED << locks, event, list, state, owed, stuck, clock >>

CheckInitialized_Always(t) ==
  /\ pc[t] = "check"
  /\ Goto(t, "make")
  /\ UNCHANGED << locks, event, list, state, owed, stuck, clock >>

CheckInitialized(t) ==
  /\ pc[t] = "check"
  /\ Goto(t, IF NetInitialized = 0 THEN "make" ELSE "register")
  /\ UNCHANGED << locks, event, list, state, owed, stuck, clock >>

\* net_init_locks: every semaphore has one signal at first.
net_init_locks(t) ==
  /\ pc[t] = "make"
  /\ sets' = sets + 1 /\ listLock' = FALSE /\ event' = TRUE
  /\ Goto(t, "made")
  /\ UNCHANGED << NetInitialized, list, state, owed, stuck, clock >>

Initialized(t) ==
  /\ pc[t] = "made"
  /\ NetInitialized' = 1
  /\ Goto(t, "register")
  /\ UNCHANGED << sets, listLock, event, list, state, owed, stuck, clock >>

Register(t) ==
  /\ pc[t] = "register"
  /\ state' = [ state EXCEPT ![netif[t]] = "INITIALIZED" ]
  /\ Goto(t, "lock")
  /\ UNCHANGED << locks, event, list, owed, stuck, clock >>

\* driver_init returns: done, or the interface leaves the list with its next as
\* it is, and the locks are destroyed.
DriverInit(t) ==
  /\ pc[t] = "driver"
  /\ \/ Return(t) /\ UNCHANGED state
     \/ /\ MayEnd(t) /\ Allows("fails behind", next[netif[t]] = NULL)
        /\ state' = [ state EXCEPT ![netif[t]] = "DEINITIALIZED" ]
        /\ pc' = [ pc EXCEPT ![t] = "lock" ]
        /\ op' = [ op EXCEPT ![t] = "undo" ]
        /\ UNCHANGED netif
  /\ UNCHANGED << locks, event, list, owed, stuck, clock >>

-----------------------------------------------------------------------------
(* net_if_deinit                                                           *)

\* The driver's if_deinit, in net_state_initialized.  If it fails the interface
\* stays in the list, and is deinitialized all the same.
NetIfDeinit(t, n) ==
  /\ state[n] = "INITIALIZED" /\ Untouched(n) /\ n \notin owed
  /\ MayUse /\ MayEnd(t)
  /\ state' = [ state EXCEPT ![n] = "DEINITIALIZED" ]
  /\ event' = TRUE
  /\ \/ Call(t, "deinit", n, "lock") /\ UNCHANGED stuck
     \/ Call(t, "deinit", n, "destroy") /\ stuck' = stuck \cup {n}
  /\ UNCHANGED << locks, list, owed, clock >>

Forget_KeepsNext(t) ==
  /\ pc[t] = "forget"
  /\ Goto(t, "destroy")
  /\ UNCHANGED << locks, event, list, state, owed, stuck, clock >>

\* pnetif->next = NULL
Forget(t) ==
  /\ pc[t] = "forget"
  /\ next' = [ next EXCEPT ![netif[t]] = NULL ]
  /\ Goto(t, "destroy")
  /\ UNCHANGED << locks, event, NetIfList, state, owed, stuck, clock >>

\* net_destroy_locks, whoever else uses them.
net_destroy_locks(t) ==
  /\ pc[t] = "destroy"
  /\ \/ /\ op[t] = "undo" \/ NetInitialized = 1
        /\ sets' = sets - 1 /\ Goto(t, "clear")
     \/ op[t] = "deinit" /\ NetInitialized # 1 /\ Return(t) /\ UNCHANGED sets
  /\ UNCHANGED << NetInitialized, listLock, event, list, state, owed, stuck, clock >>

Cleared(t) ==
  /\ pc[t] = "clear"
  /\ NetInitialized' = 0
  /\ Return(t)
  /\ UNCHANGED << sets, listLock, event, list, state, owed, stuck, clock >>

-----------------------------------------------------------------------------
(* net_if_wait_state, for READY.                                           *)

NetIfWaitState(t, n) ==
  /\ MayUse /\ state[n] # "DEINITIALIZED" /\ \A u \in Tasks : netif[u] = n => op[u] = "wait"
  /\ Call(t, "wait", n, "test")
  /\ timeout' \in { [ timeout EXCEPT ![t] = x ] : x \in Timeouts }
  /\ elapsed' = [ elapsed EXCEPT ![t] = 0 ]
  /\ UNCHANGED << locks, event, list, state, owed, stuck, left >>

WaitReturned(t) ==
  /\ Return(t)
  /\ timeout' = [ timeout EXCEPT ![t] = 0 ] /\ elapsed' = [ elapsed EXCEPT ![t] = 0 ]
  /\ UNCHANGED left

Test(t) ==
  /\ pc[t] = "test"
  /\ IF state[netif[t]] = "READY" THEN WaitReturned(t) ELSE Goto(t, "late") /\ UNCHANGED clock
  /\ UNCHANGED << locks, event, list, state, owed, stuck >>

\* The first look at the clock.
Late(t) ==
  /\ pc[t] = "late"
  /\ IF elapsed[t] >= timeout[t] THEN WaitReturned(t) ELSE Goto(t, "again") /\ UNCHANGED clock
  /\ UNCHANGED << locks, event, list, state, owed, stuck >>

Sleep_Signed(t) ==
  /\ pc[t] = "again"
  /\ left' = [ left EXCEPT ![t] = timeout[t] - elapsed[t] ]
  /\ Goto(t, "sleep")
  /\ UNCHANGED << locks, event, list, state, owed, stuck, timeout, elapsed >>

Sleep_Restarts(t) ==
  /\ pc[t] = "again"
  /\ left' = [ left EXCEPT ![t] = timeout[t] ] /\ elapsed' = [ elapsed EXCEPT ![t] = 0 ]
  /\ Goto(t, "sleep")
  /\ UNCHANGED << locks, event, list, state, owed, stuck, timeout >>

\* The second look at the clock: the time that is left is an unsigned number, and
\* wraps round if the deadline has passed since the first.
Sleep(t) ==
  /\ pc[t] = "again"
  /\ left' = [ left EXCEPT ![t] = (timeout[t] - elapsed[t]) % WORD ]
  /\ Goto(t, "sleep")
  /\ UNCHANGED << locks, event, list, state, owed, stuck, timeout, elapsed >>

\* WAIT_STATE_CHANGE: one signal wakes one task, whichever it waits for.
Woken(t) ==
  /\ pc[t] = "sleep"
  /\ \/ event /\ event' = FALSE
     \/ left[t] = 0 /\ UNCHANGED event
  /\ left' = [ left EXCEPT ![t] = 0 ]
  /\ Goto(t, "test")
  /\ UNCHANGED << locks, list, state, owed, stuck, timeout, elapsed >>

\* HAL_GetTick.  A timer of more than LONGEST ticks outlives the run.
Tick ==
  /\ \E t \in Tasks : op[t] = "wait"
  /\ elapsed' = [ t \in Tasks |-> IF op[t] = "wait" /\ elapsed[t] <= LONGEST
                                  THEN elapsed[t] + 1 ELSE elapsed[t] ]
  /\ left' = [ t \in Tasks |-> IF pc[t] = "sleep" /\ left[t] \in 1 .. LONGEST
                               THEN left[t] - 1 ELSE left[t] ]
  /\ UNCHANGED << locks, event, list, state, owed, stuck, pc, op, netif, timeout >>

-----------------------------------------------------------------------------
(* set_state, for an interface in use: its commands, driver and callbacks. *)

SetState(n) ==
  /\ MayUse /\ n \notin owed
  /\ state[n] # "DEINITIALIZED" /\ \A t \in Tasks : netif[t] = n => op[t] = "wait"
  /\ state' = [ state EXCEPT ![n] = IF @ = "READY" THEN "INITIALIZED" ELSE "READY" ]
  /\ owed' = owed \cup {n}
  /\ UNCHANGED << locks, event, list, stuck, pc, op, netif, clock >>

\* SIGNAL_STATE_CHANGE, after the application's event handler.
Signal(n) ==
  /\ n \in owed
  /\ owed' = owed \ {n} /\ event' = TRUE
  /\ UNCHANGED << locks, list, state, stuck, pc, op, netif, clock >>

-----------------------------------------------------------------------------

TaskStep(t) ==
  \/ LockList(t) \/ UseList(t)
  \/ CheckInitialized(t) \/ net_init_locks(t) \/ Initialized(t) \/ Register(t) \/ DriverInit(t)
  \/ Forget(t) \/ net_destroy_locks(t) \/ Cleared(t)
  \/ Test(t) \/ Late(t) \/ Sleep(t) \/ Woken(t)

Next ==
  \/ \E t \in Tasks :
       \/ TaskStep(t) \/ NetIfFind(t)
       \/ \E n \in Netifs : NetIfInit(t, n) \/ NetIfDeinit(t, n) \/ NetIfWaitState(t, n)
  \/ \E n \in Netifs : SetState(n) \/ Signal(n)
  \/ Tick

Spec == Init /\ [][Next]_vars

\* A task in a call runs, and the clock ticks whatever the tasks do.
FairSpec == Spec /\ WF_vars(Tick) /\ \A t \in Tasks : WF_vars(TaskStep(t))

-----------------------------------------------------------------------------
(* Properties.                                                             *)

PLACES == { "idle", "lock", "list", "check", "make", "made", "register", "driver", "forget",
            "destroy", "clear", "test", "late", "again", "sleep" }

\* Every variable has its type; the timer of the semaphore is one word.
TypeOK ==
  /\ NetInitialized \in {0, 1} /\ sets \in Nat /\ listLock \in BOOLEAN /\ event \in BOOLEAN
  /\ NetIfList \in Netifs \cup {NULL} /\ next \in [ Netifs -> Netifs \cup {NULL} ]
  /\ state \in [ Netifs -> STATES ] /\ owed \subseteq Netifs /\ stuck \subseteq Netifs
  /\ pc \in [ Tasks -> PLACES ]
  /\ op \in [ Tasks -> {"none", "init", "undo", "deinit", "find", "wait"} ]
  /\ netif \in [ Tasks -> Netifs \cup {NULL} ]
  /\ timeout \in [ Tasks -> Timeouts \cup {0} ]
  /\ elapsed \in [ Tasks -> Nat ] /\ left \in [ Tasks -> 0 .. WORD - 1 ]

\* No task locks, unlocks or sleeps on a semaphore that does not exist, no state
\* is signalled through one, and none is created over one that does: net_if_init
\* and net_if_deinit create and destroy the locks of every interface.
Uses(t) == pc[t] \in {"lock", "list", "late", "again", "sleep", "destroy"}

LocksLive ==
  /\ sets <= 1
  /\ owed # {} \/ (\E t \in Tasks : Uses(t)) => sets = 1

\* The list ends, so that walks of it do; the interfaces in it are those that
\* were initialised, and those a failed net_if_deinit left there; and nobody
\* reads through the head of an empty list.
ListSound ==
  /\ Nth[Cardinality(Netifs)] = NULL
  /\ \A n \in Netifs : Untouched(n) \/ (\A t \in Tasks : netif[t] = n => op[t] = "wait") =>
       (n \in Listed <=> state[n] # "DEINITIALIZED" \/ n \in stuck)
  /\ \A t \in Tasks : pc[t] = "list" /\ op[t] # "init" => NetIfList # NULL

\* "timeout max time to wait in ms for the transition": while a task sleeps in
\* net_if_wait_state its timer ends no later than the timeout it was called with.
SleepsInTime ==
  \A t \in Tasks : pc[t] = "sleep" /\ left[t] > 0 => elapsed[t] + left[t] <= timeout[t]

\* net_if_wait_state returns, though the signal it waits for may wake another task:
\* unless the deadline passed between its two looks at the clock, and its timer
\* wrapped round.
Overslept(t) == pc[t] = "sleep" /\ left[t] > LONGEST

WaitReturns == \A t \in Tasks : op[t] = "wait" ~> op[t] # "wait" \/ Overslept(t)
=============================================================================
