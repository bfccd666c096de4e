-------------------------- MODULE NetCore_proofs ---------------------------
(***************************************************************************)
(* Proofs about NetCore: the locks live as long as somebody uses them, the *)
(* list of interfaces ends and holds the right ones, and the timer of      *)
(* net_if_wait_state ends in time or has wrapped round, for every number   *)
(* of tasks and interfaces.                                                *)
(***************************************************************************)
EXTENDS NetCore, FiniteSetTheorems, WellFoundedInduction, TLAPS

\* None of the liberties that let a lock be used before it is made or after it is
\* destroyed; the other two are about the list alone.
Ordered ==
  /\ "first at once" \notin Liberties
  /\ "ends at once" \notin Liberties
  /\ "used after" \notin Liberties

-----------------------------------------------------------------------------
(* The inductive invariant.                                                *)

\* The types of all but the counter and the clock.
Types ==
  /\ NetInitialized \in {0, 1} /\ listLock \in BOOLEAN /\ event \in BOOLEAN
  /\ NetIfList \in Netifs \cup {NULL} /\ next \in [ Netifs -> Netifs \cup {NULL} ]
  /\ state \in [ Netifs -> STATES ] /\ owed \subseteq Netifs /\ stuck \subseteq Netifs
  /\ pc \in [ Tasks -> PLACES ]
  /\ op \in [ Tasks -> {"none", "init", "undo", "deinit", "find", "wait"} ]
  /\ netif \in [ Tasks -> Netifs \cup {NULL} ]

\* A call is where its operation may be, and only some have an interface.
PlaceInv == \A t \in Tasks :
  /\ pc[t] = "idle" <=> op[t] = "none"
  /\ pc[t] \in {"check", "make", "made", "register", "driver"} => op[t] = "init"
  /\ pc[t] \in {"lock", "list"} => op[t] \in {"init", "undo", "deinit", "find"}
  /\ pc[t] = "forget" => op[t] = "deinit"
  /\ pc[t] \in {"destroy", "clear"} => op[t] \in {"undo", "deinit"}
  /\ op[t] = "wait" <=> pc[t] \in {"test", "late", "again", "sleep"}
  /\ netif[t] \in Netifs <=> op[t] \in {"init", "undo", "deinit", "wait"}

\* Nobody but the net_if_init that creates the locks runs before they exist, and
\* nobody but the call that destroys them runs while it does.
AloneInv ==
  /\ owed # {} => NetInitialized = 1
  /\ \A t \in Tasks :
       /\ pc[t] \in {"make", "made"} => NetInitialized = 0
       /\ pc[t] # "idle" /\ NetInitialized = 0 => pc[t] \in {"check", "make", "made"}
       /\ pc[t] # "idle" /\ NetInitialized = 0 => Alone(t)
       /\ op[t] \in {"undo", "deinit"} => NetInitialized = 1 /\ Alone(t)

\* The locks exist when NetInitialized says so, but for two moments.
Created == IF NetInitialized = 0 THEN \E t \in Tasks : pc[t] = "made"
                                 ELSE \A t \in Tasks : pc[t] # "clear"

SetsInv == sets = IF Created THEN 1 ELSE 0

\* The clock: a timer ends in time, or it has wrapped round to more than LONGEST.
InTime(t) == left[t] \in 1 .. LONGEST => elapsed[t] + left[t] <= timeout[t]

TimerInv ==
  /\ timeout \in [ Tasks -> Timeouts \cup {0} ]
  /\ elapsed \in [ Tasks -> 0 .. LONGEST + 1 ] /\ left \in [ Tasks -> 0 .. WORD - 1 ]
  /\ \A t \in Tasks : pc[t] = "again" => timeout[t] > 0
  /\ \A t \in Tasks : pc[t] = "sleep" => InTime(t)

\* Whoever initializes or ends an interface has it for itself.
Holding(t) == op[t] \in {"init", "undo", "deinit"}

HolderInv ==
  /\ \A t, u \in Tasks : Holding(t) /\ netif[u] = netif[t] => u = t
  /\ \A t \in Tasks :
       /\ op[t] = "init" /\ pc[t] \in {"check", "make", "made", "register"} =>
            state[netif[t]] = "DEINITIALIZED"
       /\ op[t] = "init" /\ pc[t] \in {"lock", "list", "driver"} =>
            state[netif[t]] = "INITIALIZED"
       /\ op[t] \in {"undo", "deinit"} => state[netif[t]] = "DEINITIALIZED"
  /\ \A n \in stuck :
       /\ state[n] = "DEINITIALIZED"
       /\ \A t \in Tasks : netif[t] = n => op[t] = "deinit" /\ pc[t] \in {"destroy", "clear"}

\* The interfaces that are in the list.
Inside(n) ==
  \/ n \in stuck
  \/ \E t \in Tasks : /\ netif[t] = n
                      /\ \/ op[t] = "init" /\ pc[t] = "driver"
                         \/ op[t] \in {"undo", "deinit"} /\ pc[t] \in {"lock", "list"}
  \/ state[n] # "DEINITIALIZED" /\ \A t \in Tasks : netif[t] = n => op[t] = "wait"

\* The list is the row s of k interfaces.
Links(k, s, head, nxt) ==
  /\ \A i, j \in 1 .. k : s[i] = s[j] => i = j
  /\ head = IF k = 0 THEN NULL ELSE s[1]
  /\ \A i \in 1 .. k : nxt[s[i]] = IF i = k THEN NULL ELSE s[i + 1]

Row(k, s) ==
  /\ Links(k, s, NetIfList, next)
  /\ \A n \in Netifs : Inside(n) <=> \E i \in 1 .. k : s[i] = n

ListInv == \E k \in 0 .. Cardinality(Netifs) : \E s \in [ 1 .. k -> Netifs ] : Row(k, s)

\* An interface outside the list points nowhere, but for the one just removed.
NextInv ==
  /\ \A n \in Netifs :
       next[n] # NULL => Inside(n) \/ \E t \in Tasks : pc[t] = "forget" /\ netif[t] = n
  /\ \A t \in Tasks : op[t] = "undo" => next[netif[t]] = NULL
  /\ \A t \in Tasks : op[t] = "find" => NetIfList # NULL

-----------------------------------------------------------------------------
(* The least element of a set of naturals, which does for induction below. *)

\* From the well-founded order on the naturals.
LEMMA LeastNatural ==
  ASSUME NEW S, S \subseteq Nat, S # {}
  PROVE  \E x \in S : \A y \in S : x <= y
<1> DEFINE R == OpToRel(<, Nat)
<1>0. \E Q : IsWellFoundedOn(Q, Nat) /\ \A x, y \in Nat : y < x => << y, x >> \in Q
  <2>2. \A x, y \in Nat : y < x => << y, x >> \in R
    BY DEF OpToRel
  <2> QED BY <2>2, NatLessThanWellFounded, Zenon
<1> HIDE DEF R
<1>1. PICK Q : IsWellFoundedOn(Q, Nat) /\ \A x, y \in Nat : y < x => << y, x >> \in Q
  BY <1>0
<1>2. \E x \in S : \A y \in S : ~(<<y, x>> \in Q)
  BY <1>1, WFMin
<1>3. PICK x \in S : \A y \in S : ~(<<y, x>> \in Q)
  BY <1>2
<1>4. ASSUME NEW y \in S PROVE x <= y
  <2>1. x \in Nat /\ y \in Nat
    OBVIOUS
  <2>2. ~(y < x)
    BY <1>1, <1>3, <2>1, Zenon
  <2> QED
    BY <2>1, <2>2
<1> QED
  BY <1>4

-----------------------------------------------------------------------------
(* The locks.                                                              *)

\* Every step keeps the types.
LEMMA TypesStep ==
  ASSUME Types, PlaceInv, [Next]_vars
  PROVE  Types'
<1> USE DEF Types, PLACES, STATES, PlaceInv, Goto, Return, Call, locks, list, clock
<1>1. ASSUME NEW t \in Tasks, LockList(t) PROVE Types'
  BY <1>1 DEF LockList
<1>2. ASSUME NEW t \in Tasks, UseList(t) PROVE Types'
  <2>1. CASE op[t] = "init"
    <3>1. netif[t] \in Netifs
      BY <2>1
    <3>2. NetIfList' \in Netifs \cup {NULL} /\ next' \in [ Netifs -> Netifs \cup {NULL} ]
      BY <1>2, <2>1, <3>1 DEF UseList, netif_add_to_list
    <3> QED
      BY <1>2, <3>2 DEF UseList
  <2>2. CASE op[t] \in {"undo", "deinit"}
    <3>1. netif[t] \in Netifs
      BY <2>2
    <3>2. NetIfList' \in Netifs \cup {NULL} /\ next' \in [ Netifs -> Netifs \cup {NULL} ]
      BY <1>2, <2>2, <3>1 DEF UseList, netif_remove_from_list
    <3> QED
      BY <1>2, <3>2 DEF UseList
  <2>3. CASE op[t] = "find"
    BY <1>2, <2>3 DEF UseList
  <2> QED
    BY <1>2, <2>1, <2>2, <2>3 DEF UseList
<1>3. ASSUME NEW t \in Tasks, CheckInitialized(t) PROVE Types'
  BY <1>3 DEF CheckInitialized
<1>4. ASSUME NEW t \in Tasks, net_init_locks(t) PROVE Types'
  BY <1>4 DEF net_init_locks
<1>5. ASSUME NEW t \in Tasks, Initialized(t) PROVE Types'
  BY <1>5 DEF Initialized
<1>6. ASSUME NEW t \in Tasks, Register(t) PROVE Types'
  BY <1>6 DEF Register
<1>7. ASSUME NEW t \in Tasks, DriverInit(t) PROVE Types'
  BY <1>7 DEF DriverInit
<1>8. ASSUME NEW t \in Tasks, Forget(t) PROVE Types'
  BY <1>8 DEF Forget
<1>9. ASSUME NEW t \in Tasks, net_destroy_locks(t) PROVE Types'
  BY <1>9 DEF net_destroy_locks
<1>10. ASSUME NEW t \in Tasks, Cleared(t) PROVE Types'
  BY <1>10 DEF Cleared
<1>11. ASSUME NEW t \in Tasks, Test(t) PROVE Types'
  BY <1>11 DEF Test, WaitReturned
<1>12. ASSUME NEW t \in Tasks, Sleep(t) PROVE Types'
  BY <1>12 DEF Sleep
<1>13. ASSUME NEW t \in Tasks, Woken(t) PROVE Types'
  BY <1>13 DEF Woken
<1>14. ASSUME NEW t \in Tasks, NetIfFind(t) PROVE Types'
  BY <1>14 DEF NetIfFind
<1>15. ASSUME NEW t \in Tasks, NEW n \in Netifs, NetIfInit(t, n) PROVE Types'
  BY <1>15 DEF NetIfInit
<1>16. ASSUME NEW t \in Tasks, NEW n \in Netifs, NetIfDeinit(t, n) PROVE Types'
  BY <1>16 DEF NetIfDeinit
<1>17. ASSUME NEW t \in Tasks, NEW n \in Netifs, NetIfWaitState(t, n) PROVE Types'
  BY <1>17 DEF NetIfWaitState
<1>18. ASSUME NEW n \in Netifs, SetState(n) PROVE Types'
  BY <1>18 DEF SetState
<1>19. ASSUME NEW n \in Netifs, Signal(n) PROVE Types'
  BY <1>19 DEF Signal
<1>20. ASSUME Tick PROVE Types'
  BY <1>20 DEF Tick
<1>21. ASSUME UNCHANGED vars PROVE Types'
  BY <1>21 DEF vars
<1>22. ASSUME NEW t \in Tasks, Late(t) PROVE Types'
  BY <1>22 DEF Late, WaitReturned
<1> QED
  BY <1>1, <1>2, <1>3, <1>4, <1>5, <1>6, <1>7, <1>8, <1>9, <1>10, <1>11, <1>12, <1>13, <1>14,
     <1>15, <1>16, <1>17, <1>18, <1>19, <1>20, <1>21, <1>22, Zenon DEF Next, TaskStep

\* Every step leaves its call where its operation may be.
LEMMA PlaceStep ==
  ASSUME Types, PlaceInv, [Next]_vars
  PROVE  PlaceInv'
<1> USE DEF Types, PlaceInv, Goto, Return, Call
<1>1. ASSUME NEW t \in Tasks, LockList(t) PROVE PlaceInv'
  BY NetCoreAssumption, <1>1 DEF LockList
<1>2. ASSUME NEW t \in Tasks, UseList(t) PROVE PlaceInv'
  BY NetCoreAssumption, <1>2 DEF UseList
<1>3. ASSUME NEW t \in Tasks, CheckInitialized(t) PROVE PlaceInv'
  BY NetCoreAssumption, <1>3 DEF CheckInitialized
<1>4. ASSUME NEW t \in Tasks, net_init_locks(t) PROVE PlaceInv'
  BY NetCoreAssumption, <1>4 DEF net_init_locks
<1>5. ASSUME NEW t \in Tasks, Initialized(t) PROVE PlaceInv'
  BY NetCoreAssumption, <1>5 DEF Initialized
<1>6. ASSUME NEW t \in Tasks, Register(t) PROVE PlaceInv'
  BY NetCoreAssumption, <1>6 DEF Register
<1>7. ASSUME NEW t \in Tasks, DriverInit(t) PROVE PlaceInv'
  <2>1. CASE Return(t)
    BY NetCoreAssumption, <1>7, <2>1 DEF DriverInit
  <2>2. CASE /\ pc' = [ pc EXCEPT ![t] = "lock" ] /\ op' = [ op EXCEPT ![t] = "undo" ]
             /\ UNCHANGED netif
    <3>1. op[t] = "init" /\ netif[t] \in Netifs
      BY <1>7 DEF DriverInit
    <3> QED
      BY <2>2, <3>1
  <2> QED
    BY <1>7, <2>1, <2>2 DEF DriverInit
<1>8. ASSUME NEW t \in Tasks, Forget(t) PROVE PlaceInv'
  BY NetCoreAssumption, <1>8 DEF Forget
<1>9. ASSUME NEW t \in Tasks, net_destroy_locks(t) PROVE PlaceInv'
  BY NetCoreAssumption, <1>9 DEF net_destroy_locks
<1>10. ASSUME NEW t \in Tasks, Cleared(t) PROVE PlaceInv'
  BY NetCoreAssumption, <1>10 DEF Cleared
<1>11. ASSUME NEW t \in Tasks, Test(t) PROVE PlaceInv'
  BY NetCoreAssumption, <1>11 DEF Test, WaitReturned
<1>12. ASSUME NEW t \in Tasks, Sleep(t) PROVE PlaceInv'
  BY NetCoreAssumption, <1>12 DEF Sleep
<1>13. ASSUME NEW t \in Tasks, Woken(t) PROVE PlaceInv'
  BY NetCoreAssumption, <1>13 DEF Woken
<1>14. ASSUME NEW t \in Tasks, NetIfFind(t) PROVE PlaceInv'
  BY NetCoreAssumption, <1>14 DEF NetIfFind
<1>15. ASSUME NEW t \in Tasks, NEW n \in Netifs, NetIfInit(t, n) PROVE PlaceInv'
  BY NetCoreAssumption, <1>15 DEF NetIfInit
<1>16. ASSUME NEW t \in Tasks, NEW n \in Netifs, NetIfDeinit(t, n) PROVE PlaceInv'
  BY NetCoreAssumption, <1>16 DEF NetIfDeinit
<1>17. ASSUME NEW t \in Tasks, NEW n \in Netifs, NetIfWaitState(t, n) PROVE PlaceInv'
  BY NetCoreAssumption, <1>17 DEF NetIfWaitState
<1>18. ASSUME NEW n \in Netifs, SetState(n) PROVE PlaceInv'
  BY NetCoreAssumption, <1>18 DEF SetState
<1>19. ASSUME NEW n \in Netifs, Signal(n) PROVE PlaceInv'
  BY NetCoreAssumption, <1>19 DEF Signal
<1>20. ASSUME Tick PROVE PlaceInv'
  BY NetCoreAssumption, <1>20 DEF Tick
<1>21. ASSUME UNCHANGED vars PROVE PlaceInv'
  BY <1>21 DEF vars
<1>22. ASSUME NEW t \in Tasks, Late(t) PROVE PlaceInv'
  BY NetCoreAssumption, <1>22 DEF Late, WaitReturned
<1> QED
  BY <1>1, <1>2, <1>3, <1>4, <1>5, <1>6, <1>7, <1>8, <1>9, <1>10, <1>11, <1>12, <1>13, <1>14,
     <1>15, <1>16, <1>17, <1>18, <1>19, <1>20, <1>21, <1>22, Zenon DEF Next, TaskStep

\* What an application that keeps the order may call.
LEMMA OrderedCalls ==
  ASSUME Ordered
  PROVE  /\ MayUse => NetInitialized = 1 /\ ~Ending
         /\ \A t \in Tasks : MayEnd(t) => Alone(t)
         /\ \A t \in Tasks, n \in Netifs :
              NetIfInit(t, n) => ~Ending /\ (NetInitialized = 1 \/ Alone(t))
  BY Zenon DEF Ordered, MayUse, MayEnd, Allows, NetIfInit

\* The creation and the destruction of the locks stay alone.
LEMMA AloneStep ==
  ASSUME Ordered, Types, PlaceInv, AloneInv, [Next]_vars
  PROVE  AloneInv'
<1> USE DEF Types, PLACES, PlaceInv, AloneInv, Goto, Return, Call, Alone, Ending, locks
<1>1. ASSUME NEW t \in Tasks, LockList(t) PROVE AloneInv'
  BY OrderedCalls, <1>1 DEF LockList
<1>2. ASSUME NEW t \in Tasks, UseList(t) PROVE AloneInv'
  BY OrderedCalls, <1>2 DEF UseList
<1>3. ASSUME NEW t \in Tasks, CheckInitialized(t) PROVE AloneInv'
  BY OrderedCalls, <1>3 DEF CheckInitialized
<1>4. ASSUME NEW t \in Tasks, net_init_locks(t) PROVE AloneInv'
  BY OrderedCalls, <1>4 DEF net_init_locks
<1>5. ASSUME NEW t \in Tasks, Initialized(t) PROVE AloneInv'
  BY OrderedCalls, <1>5 DEF Initialized
<1>6. ASSUME NEW t \in Tasks, Register(t) PROVE AloneInv'
  BY OrderedCalls, <1>6 DEF Register
<1>7. ASSUME NEW t \in Tasks, DriverInit(t) PROVE AloneInv'
  <2>0. pc[t] = "driver" /\ NetInitialized' = NetInitialized /\ owed' = owed
    BY <1>7, Zenon DEF DriverInit
  <2>1. CASE Return(t)
    BY <2>0, <2>1
  <2>2. CASE /\ MayEnd(t)
             /\ pc' = [ pc EXCEPT ![t] = "lock" ] /\ op' = [ op EXCEPT ![t] = "undo" ]
             /\ UNCHANGED netif
    <3>1. Alone(t)
      BY <2>2, OrderedCalls
    <3> QED
      BY <2>0, <2>2, <3>1
  <2> QED
    BY <1>7, <2>1, <2>2, Zenon DEF DriverInit
<1>8. ASSUME NEW t \in Tasks, Forget(t) PROVE AloneInv'
  BY OrderedCalls, <1>8 DEF Forget
<1>9. ASSUME NEW t \in Tasks, net_destroy_locks(t) PROVE AloneInv'
  BY OrderedCalls, <1>9 DEF net_destroy_locks
<1>10. ASSUME NEW t \in Tasks, Cleared(t) PROVE AloneInv'
  BY OrderedCalls, <1>10 DEF Cleared
<1>11. ASSUME NEW t \in Tasks, Test(t) PROVE AloneInv'
  BY OrderedCalls, <1>11 DEF Test, WaitReturned
<1>12. ASSUME NEW t \in Tasks, Sleep(t) PROVE AloneInv'
  BY OrderedCalls, <1>12 DEF Sleep
<1>13. ASSUME NEW t \in Tasks, Woken(t) PROVE AloneInv'
  BY OrderedCalls, <1>13 DEF Woken
<1>14. ASSUME NEW t \in Tasks, NetIfFind(t) PROVE AloneInv'
  BY OrderedCalls, <1>14 DEF NetIfFind
<1>15. ASSUME NEW t \in Tasks, NEW n \in Netifs, NetIfInit(t, n) PROVE AloneInv'
  <2>1. ~Ending /\ (NetInitialized = 1 \/ Alone(t))
    BY <1>15, OrderedCalls, Zenon
  <2>2. Call(t, "init", n, "check") /\ NetInitialized' = NetInitialized /\ owed' = owed
    BY <1>15 DEF NetIfInit
  <2> QED
    BY <2>1, <2>2
<1>16. ASSUME NEW t \in Tasks, NEW n \in Netifs, NetIfDeinit(t, n) PROVE AloneInv'
  BY OrderedCalls, <1>16 DEF NetIfDeinit
<1>17. ASSUME NEW t \in Tasks, NEW n \in Netifs, NetIfWaitState(t, n) PROVE AloneInv'
  BY OrderedCalls, <1>17 DEF NetIfWaitState
<1>18. ASSUME NEW n \in Netifs, SetState(n) PROVE AloneInv'
  BY OrderedCalls, <1>18 DEF SetState
<1>19. ASSUME NEW n \in Netifs, Signal(n) PROVE AloneInv'
  BY OrderedCalls, <1>19 DEF Signal
<1>20. ASSUME Tick PROVE AloneInv'
  BY OrderedCalls, <1>20 DEF Tick
<1>21. ASSUME UNCHANGED vars PROVE AloneInv'
  BY OrderedCalls, <1>21 DEF vars
<1>22. ASSUME NEW t \in Tasks, Late(t) PROVE AloneInv'
  BY OrderedCalls, <1>22 DEF Late, WaitReturned
<1> QED
  BY OrderedCalls, <1>1, <1>2, <1>3, <1>4, <1>5, <1>6, <1>7, <1>8, <1>9, <1>10, <1>11, <1>12,
     <1>13, <1>14, <1>15, <1>16, <1>17, <1>18, <1>19, <1>20, <1>21, <1>22, Zenon DEF Next, TaskStep

\* There is one set of semaphores, or none.
LEMMA SetsStep ==
  ASSUME Types, PlaceInv, AloneInv, SetsInv, [Next]_vars
  PROVE  SetsInv'
<1> USE DEF Types, PLACES, PlaceInv, AloneInv, SetsInv, Created, Goto, Return, Call, Alone, locks
<1>1. ASSUME NEW t \in Tasks, LockList(t) PROVE SetsInv'
  BY <1>1 DEF LockList
<1>2. ASSUME NEW t \in Tasks, UseList(t) PROVE SetsInv'
  BY <1>2 DEF UseList
<1>3. ASSUME NEW t \in Tasks, CheckInitialized(t) PROVE SetsInv'
  BY <1>3 DEF CheckInitialized
<1>4. ASSUME NEW t \in Tasks, net_init_locks(t) PROVE SetsInv'
  BY <1>4 DEF net_init_locks
<1>5. ASSUME NEW t \in Tasks, Initialized(t) PROVE SetsInv'
  BY <1>5 DEF Initialized
<1>6. ASSUME NEW t \in Tasks, Register(t) PROVE SetsInv'
  BY <1>6 DEF Register
<1>7. ASSUME NEW t \in Tasks, DriverInit(t) PROVE SetsInv'
  BY <1>7 DEF DriverInit
<1>8. ASSUME NEW t \in Tasks, Forget(t) PROVE SetsInv'
  BY <1>8 DEF Forget
<1>9. ASSUME NEW t \in Tasks, net_destroy_locks(t) PROVE SetsInv'
  BY <1>9 DEF net_destroy_locks
<1>10. ASSUME NEW t \in Tasks, Cleared(t) PROVE SetsInv'
  BY <1>10 DEF Cleared
<1>11. ASSUME NEW t \in Tasks, Test(t) PROVE SetsInv'
  BY <1>11 DEF Test, WaitReturned
<1>12. ASSUME NEW t \in Tasks, Sleep(t) PROVE SetsInv'
  BY <1>12 DEF Sleep
<1>13. ASSUME NEW t \in Tasks, Woken(t) PROVE SetsInv'
  BY <1>13 DEF Woken
<1>14. ASSUME NEW t \in Tasks, NetIfFind(t) PROVE SetsInv'
  BY <1>14 DEF NetIfFind
<1>15. ASSUME NEW t \in Tasks, NEW n \in Netifs, NetIfInit(t, n) PROVE SetsInv'
  BY <1>15 DEF NetIfInit
<1>16. ASSUME NEW t \in Tasks, NEW n \in Netifs, NetIfDeinit(t, n) PROVE SetsInv'
  BY <1>16 DEF NetIfDeinit
<1>17. ASSUME NEW t \in Tasks, NEW n \in Netifs, NetIfWaitState(t, n) PROVE SetsInv'
  BY <1>17 DEF NetIfWaitState
<1>18. ASSUME NEW n \in Netifs, SetState(n) PROVE SetsInv'
  BY <1>18 DEF SetState
<1>19. ASSUME NEW n \in Netifs, Signal(n) PROVE SetsInv'
  BY <1>19 DEF Signal
<1>20. ASSUME Tick PROVE SetsInv'
  BY <1>20 DEF Tick
<1>21. ASSUME UNCHANGED vars PROVE SetsInv'
  BY <1>21 DEF vars
<1>22. ASSUME NEW t \in Tasks, Late(t) PROVE SetsInv'
  BY <1>22 DEF Late, WaitReturned
<1> QED
  BY <1>1, <1>2, <1>3, <1>4, <1>5, <1>6, <1>7, <1>8, <1>9, <1>10, <1>11, <1>12, <1>13, <1>14,
     <1>15, <1>16, <1>17, <1>18, <1>19, <1>20, <1>21, <1>22, Zenon DEF Next, TaskStep

\* The locks at first.
LEMMA LocksInit == Init => Types /\ PlaceInv /\ AloneInv /\ SetsInv
<1> SUFFICES ASSUME Init PROVE Types /\ PlaceInv /\ AloneInv /\ SetsInv
  OBVIOUS
<1>1. Types /\ PlaceInv /\ AloneInv
  BY NetCoreAssumption DEF Init, Types, STATES, PLACES, PlaceInv, AloneInv
<1>2. SetsInv
  BY DEF Init, SetsInv, Created
<1> QED
  BY <1>1, <1>2

\* The invariant of the locks.
LEMMA LocksInvariant == ASSUME Ordered PROVE Spec => [](Types /\ PlaceInv /\ AloneInv /\ SetsInv)
<1>1. Types /\ PlaceInv /\ AloneInv /\ SetsInv /\ [Next]_vars =>
        (Types /\ PlaceInv /\ AloneInv /\ SetsInv)'
  BY TypesStep, PlaceStep, AloneStep, SetsStep, Zenon
<1> QED
  BY <1>1, LocksInit, PTL DEF Spec

\* No task locks, unlocks or sleeps on a semaphore that net_destroy_locks has
\* deleted or net_init_locks has not created, none is signalled, and none is
\* created twice: if the first net_if_init and every end of an interface are alone,
\* and nothing is used after an end.
THEOREM LocksStayAlive == ASSUME Ordered PROVE Spec => []LocksLive
<1>1. ASSUME Types, PlaceInv, AloneInv, SetsInv PROVE LocksLive
  <2>1. sets <= 1
    BY <1>1 DEF SetsInv
  <2>2. ASSUME owed # {} PROVE sets = 1
    <3>1. NetInitialized # 0
      BY <1>1, <2>2 DEF AloneInv
    <3>2. \A t \in Tasks : pc[t] # "clear"
      BY <1>1, <2>2 DEF AloneInv, PlaceInv, Alone
    <3> QED
      BY <1>1, <3>1, <3>2 DEF SetsInv, Created
  <2>3. ASSUME NEW t \in Tasks, Uses(t) PROVE sets = 1
    <3>1. NetInitialized # 0
      BY <1>1, <2>3 DEF AloneInv, Uses
    <3>2. \A u \in Tasks : pc[u] # "clear"
      BY <1>1, <2>3 DEF AloneInv, PlaceInv, Alone, Uses
    <3> QED
      BY <1>1, <3>1, <3>2 DEF SetsInv, Created
  <2> QED
    BY <2>1, <2>2, <2>3 DEF LocksLive
<1> QED
  BY <1>1, LocksInvariant, PTL

-----------------------------------------------------------------------------
(* The clock of net_if_wait_state.                                         *)

\* The timeouts have a largest, for they are below WORD.
LEMMA LongestIsLongest ==
  LONGEST \in Timeouts /\ \A y \in Timeouts : y <= LONGEST
<1>0. WORD \in Nat /\ Timeouts \subseteq Nat /\ Timeouts # {} /\ \A x \in Timeouts : x + x < WORD
  BY NetCoreAssumption
<1>1. \A x \in Timeouts : x \in Nat /\ WORD - x \in Nat
  BY <1>0
<1> DEFINE S == { WORD - x : x \in Timeouts }
<1>2. S \subseteq Nat /\ S # {}
  BY <1>0, <1>1
<1> HIDE DEF S
<1>3. PICK m \in S : \A z \in S : m <= z
  BY <1>2, LeastNatural
<1>4. PICK x \in Timeouts : m = WORD - x
  BY <1>3 DEF S
<1>5. ASSUME NEW y \in Timeouts PROVE y <= x
  <2>1. WORD - y \in S
    BY DEF S
  <2> QED
    BY <2>1, <1>0, <1>1, <1>3, <1>4
<1> QED
  BY <1>5, Zenon DEF LONGEST

\* What of the constants the clock needs.
LEMMA ClockConstants ==
  /\ WORD \in Nat /\ LONGEST \in Nat /\ LONGEST + LONGEST < WORD
  /\ \A x \in Timeouts \cup {0} : x \in 0 .. LONGEST
<1>1. WORD \in Nat /\ \A x \in Timeouts : x \in Nat /\ x + x < WORD
  BY NetCoreAssumption
<1> QED
  BY <1>1, LongestIsLongest

\* An unsigned number is one word.
LEMMA OneWord ==
  ASSUME NEW x \in Int, NEW w \in Nat, w > 0
  PROVE  x % w \in 0 .. w - 1
  OBVIOUS

\* An unsigned difference that does not wrap, and one that does.
LEMMA NotWrapped ==
  ASSUME NEW a \in Nat, NEW b \in Nat, NEW w \in Nat, a < w, b <= a
  PROVE  (a - b) % w = a - b
<1>1. a - b \in 0 .. w - 1
  OBVIOUS
<1> QED
  BY <1>1

LEMMA Wrapped ==
  ASSUME NEW a \in Nat, NEW b \in Nat, NEW w \in Nat, a < b, b <= w
  PROVE  (a - b) % w = a - b + w
<1> DEFINE r == (a - b) % w
<1> DEFINE q == (a - b) \div w
<1>1. r \in 0 .. w - 1 /\ q \in Int /\ a - b = w * q + r
  OBVIOUS
<1>2. q = 0 - 1
  <2> HIDE DEF r, q
  <2>1. q < 0
    BY <1>1
  <2>2. q > 0 - 2
    BY <1>1
  <2> QED
    BY <2>1, <2>2, <1>1
<1> QED
  BY <1>1, <1>2

\* The timer that Sleep starts.
LEMMA TimerStarts ==
  ASSUME NEW a \in 1 .. LONGEST, NEW b \in 0 .. LONGEST + 1
  PROVE  LET l == (a - b) % WORD
         IN  l \in 0 .. WORD - 1 /\ (l \in 1 .. LONGEST => b + l <= a)
<1>0. WORD \in Nat /\ LONGEST \in Nat /\ LONGEST + LONGEST < WORD /\ a \in Nat /\ b \in Nat
  BY ClockConstants
<1>1. (a - b) % WORD \in 0 .. WORD - 1
  BY <1>0, OneWord
<1>2. CASE b <= a
  <2>1. (a - b) % WORD = a - b
    BY <1>0, <1>2, NotWrapped
  <2> QED
    BY <1>0, <1>1, <2>1
<1>3. CASE a < b
  <2>1. (a - b) % WORD = a - b + WORD
    BY <1>0, <1>3, Wrapped
  <2>2. ~(a - b + WORD \in 1 .. LONGEST)
    BY <1>0
  <2> QED
    BY <1>1, <2>1, <2>2
<1> QED
  BY <1>0, <1>2, <1>3

\* Whatever leaves the clock alone and puts nobody to sleep keeps the timers.
LEMMA TimerFrame ==
  ASSUME TimerInv, UNCHANGED clock,
         \A t \in Tasks : pc'[t] \in {"again", "sleep"} => pc[t] = pc'[t]
  PROVE  TimerInv'
  BY DEF TimerInv, InTime, clock

\* Every step keeps the timers.
LEMMA TimerStep ==
  ASSUME Types, PlaceInv, TimerInv, [Next]_vars
  PROVE  TimerInv'
<1> USE ClockConstants DEF Types, Goto, Return, Call
<1>1. ASSUME NEW t \in Tasks, LockList(t) PROVE TimerInv'
  BY <1>1, TimerFrame DEF LockList
<1>2. ASSUME NEW t \in Tasks, UseList(t) PROVE TimerInv'
  BY <1>2, TimerFrame DEF UseList
<1>3. ASSUME NEW t \in Tasks, CheckInitialized(t) PROVE TimerInv'
  BY <1>3, TimerFrame DEF CheckInitialized
<1>4. ASSUME NEW t \in Tasks, net_init_locks(t) PROVE TimerInv'
  BY <1>4, TimerFrame DEF net_init_locks
<1>5. ASSUME NEW t \in Tasks, Initialized(t) PROVE TimerInv'
  BY <1>5, TimerFrame DEF Initialized
<1>6. ASSUME NEW t \in Tasks, Register(t) PROVE TimerInv'
  BY <1>6, TimerFrame DEF Register
<1>7. ASSUME NEW t \in Tasks, DriverInit(t) PROVE TimerInv'
  BY <1>7, TimerFrame DEF DriverInit
<1>8. ASSUME NEW t \in Tasks, Forget(t) PROVE TimerInv'
  BY <1>8, TimerFrame DEF Forget
<1>9. ASSUME NEW t \in Tasks, net_destroy_locks(t) PROVE TimerInv'
  BY <1>9, TimerFrame DEF net_destroy_locks
<1>10. ASSUME NEW t \in Tasks, Cleared(t) PROVE TimerInv'
  BY <1>10, TimerFrame DEF Cleared
<1>11. ASSUME NEW t \in Tasks, Test(t) PROVE TimerInv'
  BY <1>11 DEF Test, WaitReturned, TimerInv, InTime, clock
<1>12. ASSUME NEW t \in Tasks, Late(t) PROVE TimerInv'
  <2>1. CASE elapsed[t] >= timeout[t]
    BY <1>12, <2>1 DEF Late, WaitReturned, TimerInv, InTime
  <2>2. CASE ~(elapsed[t] >= timeout[t])
    <3>1. timeout[t] > 0
      BY <2>2 DEF TimerInv
    <3> QED
      BY <1>12, <2>2, <3>1 DEF Late, TimerInv, InTime, clock
  <2> QED
    BY <2>1, <2>2
<1>13. ASSUME NEW t \in Tasks, Sleep(t) PROVE TimerInv'
  <2> DEFINE l == (timeout[t] - elapsed[t]) % WORD
  <2>1. pc[t] = "again" /\ UNCHANGED << timeout, elapsed >>
        /\ left' = [ left EXCEPT ![t] = l ] /\ pc' = [ pc EXCEPT ![t] = "sleep" ]
    BY <1>13 DEF Sleep
  <2>2. timeout[t] \in 1 .. LONGEST /\ elapsed[t] \in 0 .. LONGEST + 1
    BY <2>1 DEF TimerInv
  <2>3. l \in 0 .. WORD - 1 /\ (l \in 1 .. LONGEST => elapsed[t] + l <= timeout[t])
    BY <2>2, TimerStarts
  <2> HIDE DEF l
  <2> QED
    BY <2>1, <2>3 DEF TimerInv, InTime
<1>14. ASSUME NEW t \in Tasks, Woken(t) PROVE TimerInv'
  BY <1>14 DEF Woken, TimerInv, InTime
<1>15. ASSUME NEW t \in Tasks, NetIfFind(t) PROVE TimerInv'
  BY <1>15, TimerFrame DEF NetIfFind
<1>16. ASSUME NEW t \in Tasks, NEW n \in Netifs, NetIfInit(t, n) PROVE TimerInv'
  BY <1>16, TimerFrame DEF NetIfInit
<1>17. ASSUME NEW t \in Tasks, NEW n \in Netifs, NetIfDeinit(t, n) PROVE TimerInv'
  BY <1>17, TimerFrame DEF NetIfDeinit
<1>18. ASSUME NEW t \in Tasks, NEW n \in Netifs, NetIfWaitState(t, n) PROVE TimerInv'
  BY <1>18 DEF NetIfWaitState, TimerInv, InTime
<1>19. ASSUME NEW n \in Netifs, SetState(n) \/ Signal(n) PROVE TimerInv'
  BY <1>19, TimerFrame DEF SetState, Signal
<1>20. ASSUME Tick PROVE TimerInv'
  <2>1. UNCHANGED << pc, timeout >>
    BY <1>20 DEF Tick
  <2>2. elapsed' \in [ Tasks -> 0 .. LONGEST + 1 ] /\ left' \in [ Tasks -> 0 .. WORD - 1 ]
    BY <1>20 DEF Tick, TimerInv
  <2>3. ASSUME NEW t \in Tasks, pc[t] = "sleep" PROVE InTime(t)'
    <3>1. op[t] = "wait" /\ InTime(t)
      BY <2>3 DEF PlaceInv, TimerInv
    <3>2. /\ elapsed[t] \in 0 .. LONGEST + 1 /\ left[t] \in 0 .. WORD - 1
          /\ timeout[t] \in 0 .. LONGEST
      BY DEF TimerInv
    <3>3. /\ elapsed'[t] = IF elapsed[t] <= LONGEST THEN elapsed[t] + 1 ELSE elapsed[t]
          /\ left'[t] = IF left[t] \in 1 .. LONGEST THEN left[t] - 1 ELSE left[t]
      BY <1>20, <2>3, <3>1 DEF Tick
    <3> QED
      BY <2>1, <3>1, <3>2, <3>3 DEF InTime
  <2> QED
    BY <2>1, <2>2, <2>3 DEF TimerInv
<1>21. ASSUME UNCHANGED vars PROVE TimerInv'
  BY <1>21, TimerFrame DEF vars, clock
<1> QED
  BY <1>1, <1>2, <1>3, <1>4, <1>5, <1>6, <1>7, <1>8, <1>9, <1>10, <1>11, <1>12, <1>13, <1>14,
     <1>15, <1>16, <1>17, <1>18, <1>19, <1>20, <1>21, Zenon DEF Next, TaskStep

\* The clock at first.
LEMMA TimerInit == Init => TimerInv
  BY ClockConstants DEF Init, TimerInv

\* Every variable has its type: in particular no set of locks is deleted that was
\* not created, and the timer is one word.
THEOREM TypeCorrect == ASSUME Ordered PROVE Spec => []TypeOK
<1>1. Types /\ PlaceInv /\ TimerInv /\ [Next]_vars => TimerInv'
  BY TimerStep
<1>2. ASSUME Types, SetsInv, TimerInv PROVE TypeOK
  BY <1>2, ClockConstants DEF Types, SetsInv, TimerInv, TypeOK
<1> QED
  BY <1>1, <1>2, TimerInit, LocksInvariant, PTL DEF Spec

\* The timer a task sleeps on in net_if_wait_state ends no later than its timeout,
\* unless it has wrapped round, whatever signal it was woken by before: of any
\* application, the liberties included.
THEOREM EndsInTimeOrWrapped ==
  Spec => [](\A t \in Tasks :
               pc[t] = "sleep" /\ left[t] > 0 /\ ~Overslept(t) => elapsed[t] + left[t] <= timeout[t])
<1>1. Types /\ PlaceInv /\ TimerInv /\ [Next]_vars => (Types /\ PlaceInv /\ TimerInv)'
  BY TypesStep, PlaceStep, TimerStep, Zenon
<1>2. Init => Types /\ PlaceInv /\ TimerInv
  BY LocksInit, TimerInit
<1>3. ASSUME TimerInv, NEW t \in Tasks, pc[t] = "sleep", left[t] > 0, ~Overslept(t)
      PROVE  elapsed[t] + left[t] <= timeout[t]
  BY <1>3, ClockConstants DEF TimerInv, InTime, Overslept
<1>4. TimerInv => \A t \in Tasks :
        pc[t] = "sleep" /\ left[t] > 0 /\ ~Overslept(t) => elapsed[t] + left[t] <= timeout[t]
  BY <1>3
<1> QED
  BY <1>1, <1>2, <1>4, PTL DEF Spec

-----------------------------------------------------------------------------
(* The list.                                                               *)

\* The interfaces are a finite number.
LEMMA NetifCount == Cardinality(Netifs) \in Nat
  BY NetCoreAssumption, FS_CardinalityType

\* The walk meets the interfaces of the row in their order, and then NULL.
LEMMA NthIsRow ==
  ASSUME NEW k \in 0 .. Cardinality(Netifs), NEW s \in [ 1 .. k -> Netifs ], Row(k, s)
  PROVE  /\ DOMAIN Nth = 0 .. Cardinality(Netifs)
         /\ \A i \in 0 .. Cardinality(Netifs) : Nth[i] = IF i < k THEN s[i + 1] ELSE NULL
<1> DEFINE C == Cardinality(Netifs)
           g == [ i \in 0 .. C |-> IF i < k THEN s[i + 1] ELSE NULL ]
<1>0. C \in Nat /\ NULL \notin Netifs
  BY NetifCount, NetCoreAssumption
<1>1. ASSUME NEW i \in 0 .. C
      PROVE  g[i] = IF i = 0 THEN NetIfList ELSE IF g[i - 1] = NULL THEN NULL ELSE next[g[i - 1]]
  <2> HIDE DEF C
  <2>1. k \in Nat /\ i \in Nat
    BY <1>0
  <2>2. CASE i = 0
    BY <1>0, <2>1, <2>2 DEF Row, Links
  <2>3. CASE i # 0 /\ i - 1 < k
    <3>1. g[i - 1] = s[i] /\ i \in 1 .. k
      BY <1>0, <2>1, <2>3
    <3>2. s[i] \in Netifs /\ next[s[i]] = IF i = k THEN NULL ELSE s[i + 1]
      BY <3>1 DEF Row, Links
    <3> QED
      BY <1>0, <2>1, <2>3, <3>1, <3>2
  <2>4. CASE i # 0 /\ ~(i - 1 < k)
    BY <1>0, <2>1, <2>4
  <2> QED
    BY <2>2, <2>3, <2>4
<1>2. g = [ i \in 0 .. C |-> IF i = 0 THEN NetIfList
                             ELSE IF g[i - 1] = NULL THEN NULL ELSE next[g[i - 1]] ]
  <2> HIDE DEF C
  <2> QED
    BY <1>1
<1>3. Nth = [ i \in 0 .. C |-> IF i = 0 THEN NetIfList
                               ELSE IF Nth[i - 1] = NULL THEN NULL ELSE next[Nth[i - 1]] ]
  <2> HIDE DEF g
  <2> QED
    BY <1>2, Zenon DEF Nth
<1>4. \A i \in 0 .. C : Nth[i] = IF i = 0 THEN NetIfList
                                 ELSE IF Nth[i - 1] = NULL THEN NULL ELSE next[Nth[i - 1]]
  BY <1>3
<1> DEFINE Bad == { i \in 0 .. C : Nth[i] # g[i] }
<1>5. Bad = {}
  <2>1. SUFFICES ASSUME Bad # {} PROVE FALSE
    OBVIOUS
  <2>2. Bad \subseteq Nat
    BY <1>0
  <2>3. PICK b \in Bad : \A c \in Bad : b <= c
    <3> HIDE DEF Bad
    <3> QED
      BY <2>1, <2>2, LeastNatural
  <2>4. b \in 0 .. C /\ Nth[b] # g[b]
    OBVIOUS
  <2> HIDE DEF g, C
  <2>5. b # 0
    BY <1>0, <1>1, <1>4, <2>4
  <2>6. b - 1 \in 0 .. C /\ b - 1 \notin Bad
    BY <1>0, <2>3, <2>4, <2>5
  <2>7. Nth[b - 1] = g[b - 1]
    BY <2>6
  <2> QED
    BY <1>1, <1>4, <2>4, <2>5, <2>7
<1>6. DOMAIN Nth = 0 .. C
  BY <1>3
<1> QED
  BY <1>5, <1>6

\* The interfaces a walk meets are those of the row.
LEMMA ListedIsRow ==
  ASSUME NEW k \in 0 .. Cardinality(Netifs), NEW s \in [ 1 .. k -> Netifs ], Row(k, s)
  PROVE  \A n : n \in Listed <=> \E i \in 1 .. k : s[i] = n
<1> DEFINE C == Cardinality(Netifs)
<1>0. C \in Nat /\ NULL \notin Netifs /\ k \in Nat /\ k <= C
  BY NetifCount, NetCoreAssumption
<1>1. \A i \in 0 .. C : Nth[i] = IF i < k THEN s[i + 1] ELSE NULL
  BY NthIsRow
<1>2. DOMAIN Nth = 0 .. C
  BY NthIsRow
<1> HIDE DEF C
<1>3. ASSUME NEW n, n \in Listed PROVE \E i \in 1 .. k : s[i] = n
  <2>1. PICK j \in 0 .. C : Nth[j] = n /\ n # NULL
    BY <1>2, <1>3 DEF Listed
  <2>2. j < k /\ s[j + 1] = n
    BY <1>1, <2>1
  <2> QED
    BY <1>0, <2>2
<1>4. ASSUME NEW i \in 1 .. k PROVE s[i] \in Listed
  <2>1. i - 1 \in 0 .. C /\ i - 1 < k /\ (i - 1) + 1 = i /\ s[i] \in Netifs
    BY <1>0
  <2>2. Nth[i - 1] = s[i]
    BY <1>1, <2>1
  <2> QED
    BY <1>0, <1>2, <2>1, <2>2 DEF Listed
<1> QED
  BY <1>3, <1>4

\* A row that lacks an interface has room for it.
LEMMA RowIsShort ==
  ASSUME NEW k \in Nat, NEW s \in [ 1 .. k -> Netifs ], NEW n \in Netifs,
         \A i, j \in 1 .. k : s[i] = s[j] => i = j, \A i \in 1 .. k : s[i] # n
  PROVE  k + 1 <= Cardinality(Netifs)
<1>1. IsFiniteSet(Netifs)
  BY NetCoreAssumption
<1>2. /\ IsFiniteSet(Netifs \ {n}) /\ Cardinality(Netifs \ {n}) = Cardinality(Netifs) - 1
  BY <1>1, FS_RemoveElement
<1>3. s \in Injection(1 .. k, Netifs \ {n})
  BY DEF Injection, IsInjective
<1>4. Cardinality(1 .. k) <= Cardinality(Netifs \ {n})
  BY <1>2, <1>3, FS_Injection
<1>5. Cardinality(1 .. k) = k
  BY FS_Interval
<1> QED
  BY <1>2, <1>4, <1>5, NetifCount

Appends(k, s, n, head, nxt, head2, nxt2) ==
  /\ Links(k, s, head, nxt) /\ \A i \in 1 .. k : s[i] # n
  /\ nxt \in [ Netifs -> Netifs \cup {NULL} ] /\ nxt[n] = NULL
  /\ \/ k = 0 /\ head2 = n /\ nxt2 = nxt
     \/ k > 0 /\ head2 = head /\ nxt2 = [ nxt EXCEPT ![s[k]] = n ]

RowWith(k, s, n, head, nxt) ==
  \E r \in [ 1 .. k + 1 -> Netifs ] :
    /\ Links(k + 1, r, head, nxt)
    /\ \A m : (\E i \in 1 .. k + 1 : r[i] = m) <=> m = n \/ \E i \in 1 .. k : s[i] = m

Removes(k, s, j, head, nxt, head2, nxt2) ==
  /\ Links(k, s, head, nxt)
  /\ nxt \in [ Netifs -> Netifs \cup {NULL} ]
  /\ \/ head = s[j] /\ head2 = nxt[s[j]] /\ nxt2 = nxt
     \/ /\ head # s[j] /\ head2 = head
        /\ nxt2 = [ m \in Netifs |-> IF (\E i \in 1 .. k : s[i] = m) /\ nxt[m] = s[j]
                                     THEN nxt[s[j]] ELSE nxt[m] ]

RowWithout(k, s, j, head, nxt) ==
  \E r \in [ 1 .. k - 1 -> Netifs ] :
    /\ Links(k - 1, r, head, nxt)
    /\ \A m : (\E i \in 1 .. k - 1 : r[i] = m) <=> m # s[j] /\ \E i \in 1 .. k : s[i] = m

\* netif_add_to_list makes a longer row.
LEMMA AppendLinks ==
  ASSUME NEW k \in Nat, NEW s \in [ 1 .. k -> Netifs ], NEW n \in Netifs, NEW head, NEW head2,
         NEW nxt, NEW nxt2, Appends(k, s, n, head, nxt, head2, nxt2)
  PROVE  RowWith(k, s, n, head2, nxt2)
<1> DEFINE r == [ i \in 1 .. k + 1 |-> IF i = k + 1 THEN n ELSE s[i] ]
<1>1. r \in [ 1 .. k + 1 -> Netifs ] /\ r[k + 1] = n /\ \A i \in 1 .. k : r[i] = s[i]
  OBVIOUS
<1>2. \A i \in 1 .. k + 1 : i = k + 1 \/ i \in 1 .. k
  OBVIOUS
<1>3. k + 1 \in 1 .. k + 1 /\ k + 1 # 0 /\ \A i \in 1 .. k : i \in 1 .. k + 1 /\ i # k + 1
  OBVIOUS
<1>a. /\ Links(k, s, head, nxt) /\ \A i \in 1 .. k : s[i] # n
      /\ nxt \in [ Netifs -> Netifs \cup {NULL} ] /\ nxt[n] = NULL
      /\ \/ k = 0 /\ head2 = n /\ nxt2 = nxt
         \/ k > 0 /\ head2 = head /\ nxt2 = [ nxt EXCEPT ![s[k]] = n ]
  BY DEF Appends
<1> HIDE DEF r
<1>4. \A i, j \in 1 .. k + 1 : r[i] = r[j] => i = j
  BY <1>1, <1>2, <1>a DEF Links
<1>5. head2 = r[1]
  <2>1. CASE k = 0
    BY <1>1, <1>a, <2>1
  <2>2. CASE k > 0
    BY <1>1, <1>a, <2>2 DEF Links
  <2> QED
    BY <2>1, <2>2
<1>6. ASSUME NEW i \in 1 .. k + 1
      PROVE  nxt2[r[i]] = IF i = k + 1 THEN NULL ELSE r[i + 1]
  <2>1. CASE i = k + 1
    BY <1>1, <1>a, <2>1
  <2>2. CASE i = k
    <3>1. k > 0 /\ i \in 1 .. k /\ s[k] \in Netifs
      BY <2>2
    <3> QED
      BY <1>1, <1>a, <2>2, <3>1
  <2>3. CASE i # k /\ i # k + 1
    <3>1. /\ k > 0 /\ k \in 1 .. k /\ i \in 1 .. k /\ i + 1 \in 1 .. k
          /\ s[k] \in Netifs /\ s[i] \in Netifs
      BY <2>3
    <3>2. s[i] # s[k] /\ nxt[s[i]] = s[i + 1]
      BY <1>a, <2>3, <3>1 DEF Links
    <3>3. nxt2[s[i]] = nxt[s[i]]
      BY <1>a, <3>1, <3>2
    <3> QED
      BY <1>1, <1>a, <2>3, <3>1, <3>2, <3>3
  <2> QED
    BY <2>1, <2>2, <2>3
<1>7. \A m : (\E i \in 1 .. k + 1 : r[i] = m) <=> m = n \/ \E i \in 1 .. k : s[i] = m
  BY <1>1, <1>2, <1>3, Zenon
<1> QED
  BY <1>1, <1>3, <1>4, <1>5, <1>6, <1>7 DEF Links, RowWith

\* netif_remove_from_list makes a shorter one.
LEMMA RemoveLinks ==
  ASSUME NEW k \in Nat, NEW s \in [ 1 .. k -> Netifs ], NEW j \in 1 .. k, NEW head, NEW head2,
         NEW nxt, NEW nxt2, Removes(k, s, j, head, nxt, head2, nxt2)
  PROVE  RowWithout(k, s, j, head2, nxt2)
<1> DEFINE r == [ i \in 1 .. k - 1 |-> IF i < j THEN s[i] ELSE s[i + 1] ]
           at(i) == IF i < j THEN i ELSE i + 1
<1>1. k - 1 \in Nat /\ k \in 1 .. k /\ 1 \in 1 .. k /\ NULL \notin Netifs
  BY NetCoreAssumption
<1>2. \A i \in 1 .. k - 1 : at(i) \in 1 .. k /\ at(i) # j /\ r[i] = s[at(i)]
  OBVIOUS
<1>3. \A i \in 1 .. k : i # j => \E h \in 1 .. k - 1 : at(h) = i
  <2>1. ASSUME NEW i \in 1 .. k, i < j PROVE i \in 1 .. k - 1 /\ at(i) = i
    BY <2>1
  <2>2. ASSUME NEW i \in 1 .. k, i > j PROVE i - 1 \in 1 .. k - 1 /\ at(i - 1) = i
    BY <2>2
  <2>3. \A i \in 1 .. k : i # j => i < j \/ i > j
    OBVIOUS
  <2> HIDE DEF at
  <2> QED
    BY <2>1, <2>2, <2>3
<1>4. \A h, i \in 1 .. k - 1 : at(h) = at(i) => h = i
  OBVIOUS
<1>a. /\ \A h, i \in 1 .. k : s[h] = s[i] => h = i
      /\ head = s[1]
      /\ \A i \in 1 .. k : nxt[s[i]] = IF i = k THEN NULL ELSE s[i + 1]
      /\ \A i \in 1 .. k : s[i] \in Netifs /\ \E h \in 1 .. k : s[h] = s[i]
      /\ nxt \in [ Netifs -> Netifs \cup {NULL} ]
      /\ \/ head = s[j] /\ head2 = nxt[s[j]] /\ nxt2 = nxt
         \/ /\ head # s[j] /\ head2 = head
            /\ nxt2 = [ m \in Netifs |-> IF (\E i \in 1 .. k : s[i] = m) /\ nxt[m] = s[j]
                                         THEN nxt[s[j]] ELSE nxt[m] ]
  BY <1>1 DEF Links, Removes
<1>5. r \in [ 1 .. k - 1 -> Netifs ]
  <2>1. \A i \in 1 .. k - 1 : r[i] \in Netifs
    <3> HIDE DEF r, at
    <3> QED
      BY <1>2
  <2> QED
    BY <2>1
<1>6. \A h, i \in 1 .. k - 1 : r[h] = r[i] => h = i
  <2> HIDE DEF r, at
  <2> QED
    BY <1>2, <1>4, <1>a
<1>7. \A m : (\E i \in 1 .. k - 1 : r[i] = m) <=> m # s[j] /\ \E i \in 1 .. k : s[i] = m
  <2> HIDE DEF r, at
  <2>1. ASSUME NEW i \in 1 .. k - 1 PROVE r[i] # s[j] /\ \E h \in 1 .. k : s[h] = r[i]
    BY <1>2, <1>a
  <2>2. ASSUME NEW i \in 1 .. k, s[i] # s[j] PROVE \E h \in 1 .. k - 1 : r[h] = s[i]
    <3>1. PICK h \in 1 .. k - 1 : at(h) = i
      BY <1>3, <2>2
    <3> QED
      BY <1>2, <3>1
  <2> QED
    BY <2>1, <2>2, Zenon
<1>8. head2 = IF k - 1 = 0 THEN NULL ELSE r[1]
  <2>1. CASE j = 1
    <3>1. head2 = nxt[s[1]]
      BY <1>a, <2>1
    <3> QED
      BY <1>1, <1>a, <2>1, <3>1
  <2>2. CASE j # 1
    <3>1. head2 = s[1]
      BY <1>1, <1>a, <2>2
    <3>2. k - 1 # 0 /\ 1 \in 1 .. k - 1 /\ 1 < j
      BY <2>2
    <3> QED
      BY <3>1, <3>2
  <2> QED
    BY <2>1, <2>2
<1>9. ASSUME NEW i \in 1 .. k - 1
      PROVE  nxt2[r[i]] = IF i = k - 1 THEN NULL ELSE r[i + 1]
  <2>1. CASE i < j - 1
    <3>1. /\ i \in 1 .. k /\ i # k - 1 /\ i # k /\ i + 1 \in 1 .. k - 1
          /\ r[i] = s[i] /\ r[i + 1] = s[i + 1] /\ i + 1 \in 1 .. k /\ i + 1 # j
      BY <2>1
    <3>2. nxt[s[i]] = s[i + 1] /\ s[i + 1] # s[j]
      BY <1>a, <3>1
    <3>3. nxt2[s[i]] = nxt[s[i]]
      BY <1>a, <3>1, <3>2
    <3> QED
      BY <3>1, <3>2, <3>3
  <2>2. CASE i = j - 1
    <3>1. i \in 1 .. k /\ i # k /\ i + 1 = j /\ r[i] = s[i] /\ j # 1
      BY <2>2
    <3>2. nxt[s[i]] = s[j] /\ head # s[j]
      BY <1>1, <1>a, <3>1
    <3>3. nxt2[s[i]] = nxt[s[j]]
      BY <1>a, <3>1, <3>2
    <3>4. nxt[s[j]] = IF j = k THEN NULL ELSE s[j + 1]
      BY <1>a
    <3>5. CASE j = k
      BY <3>1, <3>3, <3>4, <3>5
    <3>6. CASE j # k
      <4>1. i + 1 \in 1 .. k - 1 /\ i # k - 1 /\ r[i + 1] = s[j + 1]
        BY <3>1, <3>6
      <4> QED
        BY <3>1, <3>3, <3>4, <3>6, <4>1
    <3> QED
      BY <3>5, <3>6
  <2>3. CASE i > j - 1
    <3>1. i + 1 \in 1 .. k /\ r[i] = s[i + 1] /\ i + 1 # j
      BY <2>3
    <3>2. nxt[s[i + 1]] = IF i + 1 = k THEN NULL ELSE s[(i + 1) + 1]
      BY <1>a, <3>1
    <3>3. nxt[s[i + 1]] # s[j]
      <4>1. CASE i + 1 = k
        BY <1>1, <1>a, <3>2, <4>1
      <4>2. CASE i + 1 # k
        <5>1. (i + 1) + 1 \in 1 .. k /\ (i + 1) + 1 # j
          BY <2>3, <4>2
        <5> QED
          BY <1>a, <3>2, <4>2, <5>1
      <4> QED
        BY <4>1, <4>2
    <3>4. nxt2[s[i + 1]] = nxt[s[i + 1]]
      BY <1>a, <3>1, <3>3
    <3>5. CASE i = k - 1
      BY <3>1, <3>2, <3>4, <3>5
    <3>6. CASE i # k - 1
      <4>1. i + 1 \in 1 .. k - 1 /\ i + 1 # k /\ r[i + 1] = s[(i + 1) + 1]
        BY <2>3, <3>6
      <4> QED
        BY <3>1, <3>2, <3>4, <3>6, <4>1
    <3> QED
      BY <3>5, <3>6
  <2> QED
    BY <2>1, <2>2, <2>3
<1> HIDE DEF r
<1> QED
  BY <1>1, <1>5, <1>6, <1>7, <1>8, <1>9 DEF Links, RowWithout

\* No two calls initialize or end the same interface.
LEMMA HolderStep ==
  ASSUME Liberties = {}, Types, PlaceInv, AloneInv, HolderInv, [Next]_vars
  PROVE  HolderInv'
<1> USE DEF Types, PLACES, STATES, PlaceInv, AloneInv, HolderInv, Holding, Goto, Return, Call,
            Alone, Allows, MayUse, MayEnd, Ending, Untouched
<1>1. ASSUME NEW t \in Tasks, LockList(t) PROVE HolderInv'
  BY NetCoreAssumption, <1>1 DEF LockList
<1>2. ASSUME NEW t \in Tasks, UseList(t) PROVE HolderInv'
  BY NetCoreAssumption, <1>2 DEF UseList
<1>3. ASSUME NEW t \in Tasks, CheckInitialized(t) PROVE HolderInv'
  BY NetCoreAssumption, <1>3 DEF CheckInitialized
<1>4. ASSUME NEW t \in Tasks, net_init_locks(t) PROVE HolderInv'
  BY NetCoreAssumption, <1>4 DEF net_init_locks
<1>5. ASSUME NEW t \in Tasks, Initialized(t) PROVE HolderInv'
  BY NetCoreAssumption, <1>5 DEF Initialized
<1>6. ASSUME NEW t \in Tasks, Register(t) PROVE HolderInv'
  BY NetCoreAssumption, <1>6 DEF Register
<1>7. ASSUME NEW t \in Tasks, DriverInit(t) PROVE HolderInv'
  BY NetCoreAssumption, <1>7 DEF DriverInit
<1>8. ASSUME NEW t \in Tasks, Forget(t) PROVE HolderInv'
  BY NetCoreAssumption, <1>8 DEF Forget
<1>9. ASSUME NEW t \in Tasks, net_destroy_locks(t) PROVE HolderInv'
  BY NetCoreAssumption, <1>9 DEF net_destroy_locks
<1>10. ASSUME NEW t \in Tasks, Cleared(t) PROVE HolderInv'
  BY NetCoreAssumption, <1>10 DEF Cleared
<1>11. ASSUME NEW t \in Tasks, Test(t) PROVE HolderInv'
  BY NetCoreAssumption, <1>11 DEF Test, WaitReturned
<1>12. ASSUME NEW t \in Tasks, Sleep(t) PROVE HolderInv'
  BY NetCoreAssumption, <1>12 DEF Sleep
<1>13. ASSUME NEW t \in Tasks, Woken(t) PROVE HolderInv'
  BY NetCoreAssumption, <1>13 DEF Woken
<1>14. ASSUME NEW t \in Tasks, NetIfFind(t) PROVE HolderInv'
  BY NetCoreAssumption, <1>14 DEF NetIfFind
<1>15. ASSUME NEW t \in Tasks, NEW n \in Netifs, NetIfInit(t, n) PROVE HolderInv'
  BY NetCoreAssumption, <1>15 DEF NetIfInit
<1>16. ASSUME NEW t \in Tasks, NEW n \in Netifs, NetIfDeinit(t, n) PROVE HolderInv'
  BY NetCoreAssumption, <1>16 DEF NetIfDeinit
<1>17. ASSUME NEW t \in Tasks, NEW n \in Netifs, NetIfWaitState(t, n) PROVE HolderInv'
  BY NetCoreAssumption, <1>17 DEF NetIfWaitState
<1>18. ASSUME NEW n \in Netifs, SetState(n) PROVE HolderInv'
  BY NetCoreAssumption, <1>18 DEF SetState
<1>19. ASSUME NEW n \in Netifs, Signal(n) PROVE HolderInv'
  BY NetCoreAssumption, <1>19 DEF Signal
<1>20. ASSUME Tick PROVE HolderInv'
  BY NetCoreAssumption, <1>20 DEF Tick
<1>21. ASSUME UNCHANGED vars PROVE HolderInv'
  BY <1>21 DEF vars
<1>22. ASSUME NEW t \in Tasks, Late(t) PROVE HolderInv'
  BY NetCoreAssumption, <1>22 DEF Late, WaitReturned
<1> QED
  BY <1>1, <1>2, <1>3, <1>4, <1>5, <1>6, <1>7, <1>8, <1>9, <1>10, <1>11, <1>12, <1>13, <1>14,
     <1>15, <1>16, <1>17, <1>18, <1>19, <1>20, <1>21, <1>22, Zenon DEF Next, TaskStep

\* Only UseList changes who is in the list.
LEMMA InsideStep ==
  ASSUME Liberties = {}, Types, PlaceInv, AloneInv, HolderInv, [Next]_vars,
         ~(\E t \in Tasks : UseList(t))
  PROVE  \A m \in Netifs : Inside(m)' <=> Inside(m)
<1> USE DEF Types, PLACES, STATES, PlaceInv, AloneInv, HolderInv, Holding, Goto, Return, Call,
            Alone, Allows, MayUse, MayEnd, Ending, Untouched, Inside
<1>1. ASSUME NEW t \in Tasks, LockList(t) PROVE \A m \in Netifs : Inside(m)' <=> Inside(m)
  BY NetCoreAssumption, <1>1 DEF LockList
<1>2. ASSUME NEW t \in Tasks, CheckInitialized(t) PROVE \A m \in Netifs : Inside(m)' <=> Inside(m)
  BY NetCoreAssumption, <1>2 DEF CheckInitialized
<1>3. ASSUME NEW t \in Tasks, net_init_locks(t) PROVE \A m \in Netifs : Inside(m)' <=> Inside(m)
  BY NetCoreAssumption, <1>3 DEF net_init_locks
<1>4. ASSUME NEW t \in Tasks, Initialized(t) PROVE \A m \in Netifs : Inside(m)' <=> Inside(m)
  BY NetCoreAssumption, <1>4 DEF Initialized
<1>5. ASSUME NEW t \in Tasks, Register(t) PROVE \A m \in Netifs : Inside(m)' <=> Inside(m)
  BY NetCoreAssumption, <1>5 DEF Register
<1>6. ASSUME NEW t \in Tasks, DriverInit(t) PROVE \A m \in Netifs : Inside(m)' <=> Inside(m)
  BY NetCoreAssumption, <1>6 DEF DriverInit
<1>7. ASSUME NEW t \in Tasks, Forget(t) PROVE \A m \in Netifs : Inside(m)' <=> Inside(m)
  BY NetCoreAssumption, <1>7 DEF Forget
<1>8. ASSUME NEW t \in Tasks, net_destroy_locks(t) PROVE \A m \in Netifs : Inside(m)' <=> Inside(m)
  BY NetCoreAssumption, <1>8 DEF net_destroy_locks
<1>9. ASSUME NEW t \in Tasks, Cleared(t) PROVE \A m \in Netifs : Inside(m)' <=> Inside(m)
  BY NetCoreAssumption, <1>9 DEF Cleared
<1>10. ASSUME NEW t \in Tasks, Test(t) PROVE \A m \in Netifs : Inside(m)' <=> Inside(m)
  BY NetCoreAssumption, <1>10 DEF Test, WaitReturned
<1>11. ASSUME NEW t \in Tasks, Sleep(t) PROVE \A m \in Netifs : Inside(m)' <=> Inside(m)
  BY NetCoreAssumption, <1>11 DEF Sleep
<1>12. ASSUME NEW t \in Tasks, Woken(t) PROVE \A m \in Netifs : Inside(m)' <=> Inside(m)
  BY NetCoreAssumption, <1>12 DEF Woken
<1>13. ASSUME NEW t \in Tasks, NetIfFind(t) PROVE \A m \in Netifs : Inside(m)' <=> Inside(m)
  BY NetCoreAssumption, <1>13 DEF NetIfFind
<1>14. ASSUME NEW t \in Tasks, NEW n \in Netifs, NetIfInit(t, n)
       PROVE  \A m \in Netifs : Inside(m)' <=> Inside(m)
  BY NetCoreAssumption, <1>14 DEF NetIfInit
<1>15. ASSUME NEW t \in Tasks, NEW n \in Netifs, NetIfDeinit(t, n)
       PROVE  \A m \in Netifs : Inside(m)' <=> Inside(m)
  BY NetCoreAssumption, <1>15 DEF NetIfDeinit
<1>16. ASSUME NEW t \in Tasks, NEW n \in Netifs, NetIfWaitState(t, n)
       PROVE  \A m \in Netifs : Inside(m)' <=> Inside(m)
  BY NetCoreAssumption, <1>16 DEF NetIfWaitState
<1>17. ASSUME NEW n \in Netifs, SetState(n) PROVE \A m \in Netifs : Inside(m)' <=> Inside(m)
  BY NetCoreAssumption, <1>17 DEF SetState
<1>18. ASSUME NEW n \in Netifs, Signal(n) PROVE \A m \in Netifs : Inside(m)' <=> Inside(m)
  BY NetCoreAssumption, <1>18 DEF Signal
<1>19. ASSUME Tick PROVE \A m \in Netifs : Inside(m)' <=> Inside(m)
  BY NetCoreAssumption, <1>19 DEF Tick
<1>20. ASSUME UNCHANGED vars PROVE \A m \in Netifs : Inside(m)' <=> Inside(m)
  BY <1>20 DEF vars
<1>21. ASSUME NEW t \in Tasks, Late(t) PROVE \A m \in Netifs : Inside(m)' <=> Inside(m)
  BY NetCoreAssumption, <1>21 DEF Late, WaitReturned
<1> QED
  BY <1>1, <1>2, <1>3, <1>4, <1>5, <1>6, <1>7, <1>8, <1>9, <1>10, <1>11, <1>12, <1>13, <1>14,
     <1>15, <1>16, <1>17, <1>18, <1>19, <1>20, <1>21, Zenon DEF Next, TaskStep

\* The interfaces outside the list keep pointing nowhere.
LEMMA NextStep ==
  ASSUME Liberties = {}, Types, PlaceInv, HolderInv, NextInv,
         ~(\E t \in Tasks : UseList(t)), \A m \in Netifs : Inside(m)' <=> Inside(m), [Next]_vars
  PROVE  NextInv'
<1> USE DEF NextInv, Types, PLACES, STATES, PlaceInv, HolderInv, Holding, Goto, Return, Call,
            Allows, list
<1>1. ASSUME NEW t \in Tasks, LockList(t) PROVE NextInv'
  BY NetCoreAssumption, <1>1 DEF LockList
<1>2. ASSUME NEW t \in Tasks, CheckInitialized(t) PROVE NextInv'
  BY NetCoreAssumption, <1>2 DEF CheckInitialized
<1>3. ASSUME NEW t \in Tasks, net_init_locks(t) PROVE NextInv'
  BY NetCoreAssumption, <1>3 DEF net_init_locks
<1>4. ASSUME NEW t \in Tasks, Initialized(t) PROVE NextInv'
  BY NetCoreAssumption, <1>4 DEF Initialized
<1>5. ASSUME NEW t \in Tasks, Register(t) PROVE NextInv'
  BY NetCoreAssumption, <1>5 DEF Register
<1>6. ASSUME NEW t \in Tasks, DriverInit(t) PROVE NextInv'
  BY NetCoreAssumption, <1>6 DEF DriverInit
<1>7. ASSUME NEW t \in Tasks, Forget(t) PROVE NextInv'
  BY NetCoreAssumption, <1>7 DEF Forget
<1>8. ASSUME NEW t \in Tasks, net_destroy_locks(t) PROVE NextInv'
  BY NetCoreAssumption, <1>8 DEF net_destroy_locks
<1>9. ASSUME NEW t \in Tasks, Cleared(t) PROVE NextInv'
  BY NetCoreAssumption, <1>9 DEF Cleared
<1>10. ASSUME NEW t \in Tasks, Test(t) PROVE NextInv'
  BY NetCoreAssumption, <1>10 DEF Test, WaitReturned
<1>11. ASSUME NEW t \in Tasks, Sleep(t) PROVE NextInv'
  BY NetCoreAssumption, <1>11 DEF Sleep
<1>12. ASSUME NEW t \in Tasks, Woken(t) PROVE NextInv'
  BY NetCoreAssumption, <1>12 DEF Woken
<1>13. ASSUME NEW t \in Tasks, NetIfFind(t) PROVE NextInv'
  BY NetCoreAssumption, <1>13 DEF NetIfFind
<1>14. ASSUME NEW t \in Tasks, NEW n \in Netifs, NetIfInit(t, n) PROVE NextInv'
  BY NetCoreAssumption, <1>14 DEF NetIfInit
<1>15. ASSUME NEW t \in Tasks, NEW n \in Netifs, NetIfDeinit(t, n) PROVE NextInv'
  BY NetCoreAssumption, <1>15 DEF NetIfDeinit
<1>16. ASSUME NEW t \in Tasks, NEW n \in Netifs, NetIfWaitState(t, n) PROVE NextInv'
  BY NetCoreAssumption, <1>16 DEF NetIfWaitState
<1>17. ASSUME NEW n \in Netifs, SetState(n) PROVE NextInv'
  BY NetCoreAssumption, <1>17 DEF SetState
<1>18. ASSUME NEW n \in Netifs, Signal(n) PROVE NextInv'
  BY NetCoreAssumption, <1>18 DEF Signal
<1>19. ASSUME Tick PROVE NextInv'
  BY NetCoreAssumption, <1>19 DEF Tick
<1>20. ASSUME UNCHANGED vars PROVE NextInv'
  BY <1>20 DEF vars
<1>21. ASSUME NEW t \in Tasks, Late(t) PROVE NextInv'
  BY NetCoreAssumption, <1>21 DEF Late, WaitReturned
<1> QED
  BY <1>1, <1>2, <1>3, <1>4, <1>5, <1>6, <1>7, <1>8, <1>9, <1>10, <1>11, <1>12, <1>13, <1>14,
     <1>15, <1>16, <1>17, <1>18, <1>19, <1>20, <1>21, Zenon DEF Next, TaskStep

\* The list stays a row when nobody uses it: Forget writes outside it.
LEMMA RowStep ==
  ASSUME Liberties = {}, Types, PlaceInv, HolderInv, ListInv, [Next]_vars,
         ~(\E t \in Tasks : UseList(t)), \A m \in Netifs : Inside(m)' <=> Inside(m)
  PROVE  ListInv'
<1>0. PICK k \in 0 .. Cardinality(Netifs) : \E s \in [ 1 .. k -> Netifs ] : Row(k, s)
  BY DEF ListInv
<1>1. PICK s \in [ 1 .. k -> Netifs ] : Row(k, s)
  BY <1>0
<1>2. CASE UNCHANGED list
  <2>1. Row(k, s)'
    BY <1>1, <1>2 DEF Row, Links, list
  <2> QED
    BY <2>1 DEF ListInv
<1>3. ASSUME NEW t \in Tasks, Forget(t) PROVE ListInv'
  <2>1. /\ netif[t] \in Netifs /\ ~Inside(netif[t])
        /\ next' = [ next EXCEPT ![netif[t]] = NULL ] /\ NetIfList' = NetIfList
    BY <1>3 DEF Forget, PlaceInv, HolderInv, Holding, Inside
  <2>2. \A i \in 1 .. k : s[i] \in Netifs /\ s[i] # netif[t]
    BY <1>1, <2>1 DEF Row
  <2>3. \A i \in 1 .. k : next'[s[i]] = next[s[i]]
    BY <2>1, <2>2 DEF Types
  <2>4. Links(k, s, NetIfList, next)'
    BY <1>1, <2>1, <2>3 DEF Row, Links
  <2>5. Row(k, s)'
    BY <1>1, <2>4 DEF Row
  <2> QED
    BY <2>5 DEF ListInv
<1>4. UNCHANGED list \/ \E t \in Tasks : Forget(t)
  <2>1. ASSUME NEW t \in Tasks, TaskStep(t), ~Forget(t) PROVE UNCHANGED list
    <3>1. CASE LockList(t) \/ CheckInitialized(t) \/ net_init_locks(t) \/ Initialized(t)
      BY <3>1, Zenon DEF LockList, CheckInitialized, net_init_locks, Initialized
    <3>2. CASE Register(t) \/ DriverInit(t) \/ net_destroy_locks(t) \/ Cleared(t)
      BY <3>2, Zenon DEF Register, DriverInit, net_destroy_locks, Cleared
    <3>3. CASE Test(t) \/ Late(t) \/ Sleep(t) \/ Woken(t)
      BY <3>3, Zenon DEF Test, Late, Sleep, Woken
    <3> QED
      BY <2>1, <3>1, <3>2, <3>3, Zenon DEF TaskStep
  <2>2. ASSUME NEW t \in Tasks, NetIfFind(t) PROVE UNCHANGED list
    BY <2>2, Zenon DEF NetIfFind
  <2>3. ASSUME NEW t \in Tasks, NEW n \in Netifs,
               NetIfInit(t, n) \/ NetIfDeinit(t, n) \/ NetIfWaitState(t, n)
        PROVE  UNCHANGED list
    BY <2>3, Zenon DEF NetIfInit, NetIfDeinit, NetIfWaitState
  <2>4. ASSUME NEW n \in Netifs, SetState(n) \/ Signal(n) PROVE UNCHANGED list
    BY <2>4, Zenon DEF SetState, Signal
  <2>5. ASSUME Tick \/ UNCHANGED vars PROVE UNCHANGED list
    BY <2>5, Zenon DEF Tick, vars, list
  <2> QED
    BY <2>1, <2>2, <2>3, <2>4, <2>5, Zenon DEF Next
<1> QED
  BY <1>2, <1>3, <1>4

\* What a call does with the list makes a row of a row.
LEMMA UseListStep ==
  ASSUME Liberties = {}, Types, PlaceInv, AloneInv, HolderInv, ListInv, NextInv,
         NEW t \in Tasks, UseList(t)
  PROVE  ListInv' /\ NextInv'
<1> DEFINE n == netif[t]
<1>0. PICK k \in 0 .. Cardinality(Netifs) : \E s \in [ 1 .. k -> Netifs ] : Row(k, s)
  BY DEF ListInv
<1>1. PICK s \in [ 1 .. k -> Netifs ] : Row(k, s)
  BY <1>0
<1>2. /\ Links(k, s, NetIfList, next)
      /\ \A m \in Netifs : Inside(m) <=> \E i \in 1 .. k : s[i] = m
      /\ \A m : m \in Listed <=> \E i \in 1 .. k : s[i] = m
      /\ k \in Nat /\ NULL \notin Netifs /\ k <= Cardinality(Netifs)
  BY <1>1, ListedIsRow, NetifCount, NetCoreAssumption DEF Row
<1>3. CASE op[t] = "init"
  <2>1. n \in Netifs /\ pc[t] = "list" /\ netif_add_to_list(n) /\ Goto(t, "driver")
    BY <1>3 DEF UseList, PlaceInv
  <2>2. ~Inside(n) /\ next[n] = NULL
    BY <1>3, <2>1 DEF PlaceInv, HolderInv, Holding, Inside, NextInv
  <2>3. \A m \in Netifs : Inside(m)' <=> m = n \/ Inside(m)
    BY <1>3, <2>1 DEF UseList, Goto, Types, Inside, HolderInv, Holding
  <2>4. \A i \in 1 .. k : s[i] # n
    BY <1>2, <2>1, <2>2
  <2>5. \/ k = 0 /\ NetIfList' = n /\ next' = next
        \/ k > 0 /\ NetIfList' = NetIfList /\ next' = [ next EXCEPT ![s[k]] = n ]
    <3>1. CASE NetIfList = NULL /\ NetIfList' = n /\ UNCHANGED next
      <4>1. k = 0
        BY <1>2, <3>1 DEF Links
      <4> QED
        BY <3>1, <4>1
    <3>2. ASSUME NEW last \in Listed, next[last] = NULL, next' = [ next EXCEPT ![last] = n ],
                 UNCHANGED NetIfList
          PROVE  k > 0 /\ NetIfList' = NetIfList /\ next' = [ next EXCEPT ![s[k]] = n ]
      <4>1. PICK i \in 1 .. k : s[i] = last
        BY <1>2
      <4>2. i = k
        <5>1. SUFFICES ASSUME i # k PROVE FALSE
          OBVIOUS
        <5>2. i + 1 \in 1 .. k
          BY <1>2, <5>1
        <5> QED
          BY <1>2, <3>2, <4>1, <5>1, <5>2 DEF Links
      <4> QED
        BY <3>2, <4>1, <4>2
    <3> QED
      BY <2>1, <3>1, <3>2 DEF netif_add_to_list
  <2>6. k + 1 \in 0 .. Cardinality(Netifs)
    BY <1>2, <2>1, <2>4, NetifCount, RowIsShort DEF Links
  <2>7. PICK r \in [ 1 .. k + 1 -> Netifs ] :
          /\ Links(k + 1, r, NetIfList', next')
          /\ \A m : (\E i \in 1 .. k + 1 : r[i] = m) <=> m = n \/ \E i \in 1 .. k : s[i] = m
    <3>1. Appends(k, s, n, NetIfList, next, NetIfList', next')
      BY <1>2, <2>2, <2>4, <2>5 DEF Appends, Types
    <3>2. RowWith(k, s, n, NetIfList', next')
      <4> HIDE DEF n
      <4> QED
        BY <1>2, <2>1, <3>1, AppendLinks
    <3> QED
      BY <3>2 DEF RowWith
  <2>8. \A m \in Netifs : Inside(m)' <=> \E i \in 1 .. k + 1 : r[i] = m
    BY <1>2, <2>3, <2>7
  <2>9. ListInv'
    <3>1. Row(k + 1, r)'
      BY <2>7, <2>8 DEF Row, Links
    <3> QED
      BY <2>6, <3>1 DEF ListInv
  <2>10. ASSUME NEW m \in Netifs, next'[m] # NULL
         PROVE  Inside(m)' \/ \E u \in Tasks : pc'[u] = "forget" /\ netif'[u] = m
    <3>1. CASE next'[m] = next[m]
      <4>1. Inside(m) \/ \E u \in Tasks : pc[u] = "forget" /\ netif[u] = m
        BY <2>10, <3>1 DEF NextInv
      <4> QED
        BY <2>1, <2>3, <4>1 DEF Goto, Types
    <3>2. CASE next'[m] # next[m]
      <4>1. k \in 1 .. k /\ m = s[k]
        BY <1>2, <2>5, <3>2 DEF Types
      <4> QED
        BY <1>2, <2>3, <4>1
    <3> QED
      BY <3>1, <3>2
  <2>11. \A u \in Tasks : op[u] # "undo"
    BY <1>3, <2>1 DEF AloneInv, Alone, PlaceInv
  <2>12. NetIfList' # NULL
    BY <1>2, <2>1, <2>5 DEF Links
  <2> QED
    BY <2>1, <2>9, <2>10, <2>11, <2>12 DEF NextInv, Goto
<1>4. CASE op[t] \in {"undo", "deinit"}
  <2>1. /\ n \in Netifs /\ pc[t] = "list" /\ netif_remove_from_list(n)
        /\ Goto(t, IF op[t] = "undo" THEN "destroy" ELSE "forget")
        /\ stuck' = stuck /\ state' = state
    BY <1>4 DEF UseList, PlaceInv
  <2>2. Inside(n) /\ \A u \in Tasks \ {t} : pc[u] = "idle"
    BY <1>4, <2>1 DEF Inside, AloneInv, Alone
  <2>3. \A m \in Netifs : Inside(m)' <=> m # n /\ Inside(m)
    BY <1>4, <2>1 DEF Goto, Types, Inside, HolderInv, Holding
  <2>4. PICK j \in 1 .. k : s[j] = n
    BY <1>2, <2>1, <2>2
  <2>5. PICK r \in [ 1 .. k - 1 -> Netifs ] :
          /\ Links(k - 1, r, NetIfList', next')
          /\ \A m : (\E i \in 1 .. k - 1 : r[i] = m) <=> m # n /\ \E i \in 1 .. k : s[i] = m
    <3>1. Removes(k, s, j, NetIfList, next, NetIfList', next')
      <4>1. \A m : m \in Listed <=> \E i \in 1 .. k : s[i] = m
        BY <1>2
      <4> QED
        BY <1>2, <2>1, <2>4, <4>1 DEF netif_remove_from_list, Removes, Types
    <3>2. RowWithout(k, s, j, NetIfList', next')
      BY <1>2, <3>1, RemoveLinks
    <3> QED
      BY <2>4, <3>2 DEF RowWithout
  <2>6. \A m \in Netifs : Inside(m)' <=> \E i \in 1 .. k - 1 : r[i] = m
    BY <1>2, <2>3, <2>5
  <2>7. ListInv'
    <3>1. k - 1 \in 0 .. Cardinality(Netifs)
      BY <1>2, <2>4, NetifCount
    <3>2. Row(k - 1, r)'
      BY <2>5, <2>6 DEF Row, Links
    <3> QED
      BY <3>1, <3>2 DEF ListInv
  <2>8. ASSUME NEW m \in Netifs, next'[m] # NULL
        PROVE  Inside(m)' \/ \E u \in Tasks : pc'[u] = "forget" /\ netif'[u] = m
    <3>1. next[m] # NULL
      BY <1>2, <2>1, <2>8 DEF netif_remove_from_list
    <3>2. Inside(m)
      BY <2>1, <2>2, <3>1 DEF NextInv
    <3>3. CASE m # n
      BY <2>3, <3>2, <3>3
    <3>4. CASE m = n
      <4>1. op[t] = "deinit"
        BY <1>4, <3>1, <3>4 DEF NextInv
      <4> QED
        BY <2>1, <3>4, <4>1 DEF Goto, Types
    <3> QED
      BY <3>3, <3>4
  <2>9. ASSUME op[t] = "undo" PROVE next'[n] = NULL
    BY <1>2, <2>1, <2>9 DEF NextInv, netif_remove_from_list
  <2>10. \A u \in Tasks \ {t} : op[u] = "none"
    BY <2>2 DEF PlaceInv
  <2> QED
    BY <1>4, <2>1, <2>7, <2>8, <2>9, <2>10 DEF NextInv, Goto
<1>5. CASE op[t] = "find"
  <2>1. Return(t) /\ UNCHANGED list /\ stuck' = stuck /\ state' = state /\ pc[t] = "list"
    BY <1>5 DEF UseList
  <2>2. netif[t] \notin Netifs
    BY <1>5 DEF PlaceInv
  <2>3. \A m \in Netifs : Inside(m)' <=> Inside(m)
    BY <1>2, <1>5, <2>1, <2>2 DEF Inside, Return, Types
  <2>4. ListInv'
    BY <1>1, <2>1, <2>3 DEF ListInv, Row, Links, list
  <2> QED
    BY <2>1, <2>2, <2>3, <2>4 DEF NextInv, Return, Types, list
<1> QED
  BY <1>3, <1>4, <1>5 DEF UseList

\* The list at first.
LEMMA ListInit == Init => HolderInv /\ ListInv /\ NextInv
<1> SUFFICES ASSUME Init PROVE HolderInv /\ ListInv /\ NextInv
  OBVIOUS
<1>1. HolderInv /\ NextInv
  BY NetCoreAssumption DEF Init, HolderInv, Holding, NextInv
<1>2. \A n \in Netifs : ~Inside(n)
  BY NetCoreAssumption DEF Init, Inside
<1> DEFINE none == [ i \in 1 .. 0 |-> CHOOSE n : n \in Netifs ]
<1>3. none \in [ 1 .. 0 -> Netifs ] /\ 0 \in 0 .. Cardinality(Netifs)
  BY NetifCount
<1>4. Row(0, none)
  BY <1>2 DEF Init, Row, Links
<1> HIDE DEF none
<1>5. ListInv
  BY <1>3, <1>4 DEF ListInv
<1> QED
  BY <1>1, <1>5

\* A walk of NetIfList ends; it meets the interfaces that were initialised and those
\* a failed net_if_deinit left there, and no others; and no walk begins at the head
\* of an empty list.
THEOREM ListStaysSound == ASSUME Liberties = {} PROVE Spec => []ListSound
<1> DEFINE Inv == Types /\ PlaceInv /\ AloneInv /\ HolderInv /\ ListInv /\ NextInv
<1>0. Ordered
  BY DEF Ordered
<1>1. Inv /\ [Next]_vars => (HolderInv /\ ListInv /\ NextInv)'
  <2> SUFFICES ASSUME Inv, [Next]_vars PROVE (HolderInv /\ ListInv /\ NextInv)'
    OBVIOUS
  <2>1. HolderInv'
    BY HolderStep
  <2>2. CASE \E t \in Tasks : UseList(t)
    BY <2>1, <2>2, UseListStep
  <2>3. CASE ~\E t \in Tasks : UseList(t)
    <3>1. \A m \in Netifs : Inside(m)' <=> Inside(m)
      BY <2>3, InsideStep
    <3>2. ListInv'
      BY <2>3, <3>1, RowStep
    <3>3. NextInv'
      BY <2>3, <3>1, NextStep
    <3> QED
      BY <2>1, <3>2, <3>3
  <2> QED
    BY <2>2, <2>3
<1>2. ASSUME Inv PROVE ListSound
  <2>1. PICK k \in 0 .. Cardinality(Netifs) : \E s \in [ 1 .. k -> Netifs ] : Row(k, s)
    BY <1>2 DEF ListInv
  <2>2. PICK s \in [ 1 .. k -> Netifs ] : Row(k, s)
    BY <2>1
  <2>3. Nth[Cardinality(Netifs)] = NULL
    BY <2>2, NthIsRow, NetifCount
  <2>4. \A n \in Netifs : n \in Listed <=> Inside(n)
    BY <2>2, ListedIsRow DEF Row
  <2>5. ASSUME NEW n \in Netifs, Untouched(n) \/ \A t \in Tasks : netif[t] = n => op[t] = "wait"
        PROVE  n \in Listed <=> state[n] # "DEINITIALIZED" \/ n \in stuck
    BY <2>4, <2>5 DEF Inside, Untouched
  <2>6. ASSUME NEW t \in Tasks, pc[t] = "list", op[t] # "init" PROVE NetIfList # NULL
    <3>1. CASE op[t] = "find"
      BY <1>2, <3>1 DEF NextInv
    <3>2. CASE op[t] \in {"undo", "deinit"}
      <4>1. netif[t] \in Netifs /\ Inside(netif[t])
        BY <1>2, <2>6, <3>2 DEF PlaceInv, Inside
      <4>2. k # 0 /\ k \in Nat
        BY <2>2, <4>1, NetifCount DEF Row
      <4>3. 1 \in 1 .. k
        BY <4>2
      <4> QED
        BY <2>2, <4>2, <4>3, NetCoreAssumption DEF Row, Links
    <3> QED
      BY <1>2, <2>6, <3>1, <3>2 DEF PlaceInv
  <2> QED
    BY <2>3, <2>5, <2>6 DEF ListSound
<1> HIDE DEF Inv
<1>3. Spec => [](Types /\ PlaceInv /\ AloneInv /\ SetsInv)
  BY <1>0, LocksInvariant
<1>4. Spec => []Inv
  BY <1>1, <1>3, ListInit, PTL DEF Spec, Inv
<1> QED
  BY <1>2, <1>4, PTL

=============================================================================
