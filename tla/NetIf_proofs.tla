---------------------------- MODULE NetIf_proofs ----------------------------
(***************************************************************************)
(* Theorems about NetIf: every safety property the runs check, for any     *)
(* set of applications that keep the rules below, any commands and any     *)
(* interleaving of the application, lwIP's thread and the link thread that *)
(* their priorities allow.                                                 *)
(*                                                                         *)
(* The invariant goes along the plans: what is left of a command, with the *)
(* states the interface may be in and what it owns by then (StageInv).  It *)
(* rests on two facts about the callbacks: one runs only while the         *)
(* interface exists, and what it has read of the state is still right up   *)
(* to the choice among CONNECTING, CONNECTED and CONNECTION_LOST (CbInv).  *)
(***************************************************************************)
EXTENDS NetIf, SequenceTheorems, TLAPS

\* lwIP's thread preempts the application, and an interface is ended only when it
\* is INITIALIZED.  Without the first a callback works on an interface that was
\* removed meanwhile (NetifInUse), without the second DeinitFreesAll is violated.
Rules == LwipFirst = TRUE /\ \A a \in Apps : a.sends # "in order"

-----------------------------------------------------------------------------
(* The plans: what is left of a command.                                   *)

\* The steps of the driver functions.
AddPlan          == << "add_if", "register", "link_up", "set_up", "ready" >>
RegisterPlan     == << "register", "link_up", "set_up", "ready" >>
LinkUpPlan       == << "link_up", "set_up", "ready" >>
SetUpPlan        == << "set_up", "ready" >>
ReadyPlan        == << "ready" >>
SetObtainPlan    == << "set_up", "obtain" >>
ObtainPlan       == << "obtain" >>
ReleasePlan      == << "release", "ready" >>
SetDownPlan      == << "set_down", "link_down", "remove_if", "initialized" >>
LinkDownPlan     == << "link_down", "remove_if", "initialized" >>
RemovePlan       == << "remove_if", "initialized" >>
InitializedPlan  == << "initialized" >>
UnlistPlan       == << "unlist" >>

\* The whole commands.
StartPlan         == << "STARTING" >> \o AddPlan
ConnectPlan       == << "CONNECTING" >> \o SetObtainPlan
DisconnectPlan    == << "DISCONNECTING" >> \o ReleasePlan
GiveUpPlan        == << "READY" >> \o << >>
StopPlan          == << "STOPPING" >> \o SetDownPlan
AbandonPlan       == << "INITIALIZED" >> \o SetDownPlan
DeinitializedPlan == << "DEINITIALIZED" >> \o UnlistPlan
DeinitPlan        == << "free_drv" >> \o DeinitializedPlan

Todos == Seq(NET_STATES \cup STEPS)

\* A plan: its first step and what is left after it.
Begins(plan, step, rest) ==
  plan \in Todos /\ plan # << >> /\ Head(plan) = step /\ Tail(plan) = rest

\* The parts of a sequence that was made by putting an element in front.
LEMMA Cons ==
  ASSUME NEW S, NEW a \in S, NEW s \in Seq(S)
  PROVE  /\ <<a>> \o s \in Seq(S) /\ <<a>> \o s # << >>
         /\ Head(<<a>> \o s) = a /\ Tail(<<a>> \o s) = s
<1>1. <<a>> \in Seq(S) /\ Len(<<a>>) = 1 /\ <<a>>[1] = a
  OBVIOUS
<1>2. Len(<<a>> \o s) = 1 + Len(s) /\ Len(s) \in Nat
  BY <1>1
<1>3. (<<a>> \o s)[1] = a
  BY <1>1, <1>2
<1>4. <<a>> \o s \in Seq(S)
  BY <1>1
<1>5. <<a>> \o s # << >> /\ Head(<<a>> \o s) = a
  BY <1>2, <1>3, <1>4
<1>6. Tail(<<a>> \o s) = s
  <2>1. Tail(<<a>> \o s) \in Seq(S) /\ Len(Tail(<<a>> \o s)) = Len(s)
    BY <1>2, <1>4, <1>5
  <2>2. \A i \in 1 .. Len(s) : Tail(<<a>> \o s)[i] = s[i]
    BY <1>1, <1>2, <1>4, <1>5
  <2> QED  BY <2>1, <2>2, SeqEqual
<1> QED  BY <1>4, <1>5, <1>6

\* The plans of the driver functions, step by step.
LEMMA StepPlans ==
  /\ Begins(AddPlan, "add_if", RegisterPlan)
  /\ Begins(RegisterPlan, "register", LinkUpPlan)
  /\ Begins(LinkUpPlan, "link_up", SetUpPlan)
  /\ Begins(SetUpPlan, "set_up", ReadyPlan)
  /\ Begins(ReadyPlan, "ready", << >>)
  /\ Begins(SetObtainPlan, "set_up", ObtainPlan)
  /\ Begins(ObtainPlan, "obtain", << >>)
  /\ Begins(ReleasePlan, "release", ReadyPlan)
  /\ Begins(SetDownPlan, "set_down", LinkDownPlan)
  /\ Begins(LinkDownPlan, "link_down", RemovePlan)
  /\ Begins(RemovePlan, "remove_if", InitializedPlan)
  /\ Begins(InitializedPlan, "initialized", << >>)
  /\ Begins(UnlistPlan, "unlist", << >>)
<1> USE DEF Begins, Todos, STEPS
<1>1. Begins(AddPlan, "add_if", RegisterPlan)
  BY DEF AddPlan, RegisterPlan
<1>2. Begins(RegisterPlan, "register", LinkUpPlan)
  BY DEF RegisterPlan, LinkUpPlan
<1>3. Begins(LinkUpPlan, "link_up", SetUpPlan)
  BY DEF LinkUpPlan, SetUpPlan
<1>4. Begins(SetUpPlan, "set_up", ReadyPlan)
  BY DEF SetUpPlan, ReadyPlan
<1>5. Begins(ReadyPlan, "ready", << >>)
  BY DEF ReadyPlan
<1>6. Begins(SetObtainPlan, "set_up", ObtainPlan)
  BY DEF SetObtainPlan, ObtainPlan
<1>7. Begins(ObtainPlan, "obtain", << >>)
  BY DEF ObtainPlan
<1>8. Begins(ReleasePlan, "release", ReadyPlan)
  BY DEF ReleasePlan, ReadyPlan
<1>9. Begins(SetDownPlan, "set_down", LinkDownPlan)
  BY DEF SetDownPlan, LinkDownPlan
<1>10. Begins(LinkDownPlan, "link_down", RemovePlan)
  BY DEF LinkDownPlan, RemovePlan
<1>11. Begins(RemovePlan, "remove_if", InitializedPlan)
  BY DEF RemovePlan, InitializedPlan
<1>12. Begins(InitializedPlan, "initialized", << >>)
  BY DEF InitializedPlan
<1>13. Begins(UnlistPlan, "unlist", << >>)
  BY DEF UnlistPlan
<1> HIDE DEF Begins
<1> QED  BY <1>1, <1>2, <1>3, <1>4, <1>5, <1>6, <1>7, <1>8, <1>9, <1>10, <1>11, <1>12, <1>13

\* The plans that set a state before the driver works, or after.
LEMMA StatePlans ==
  /\ Begins(StartPlan, "STARTING", AddPlan)
  /\ Begins(ConnectPlan, "CONNECTING", SetObtainPlan)
  /\ Begins(DisconnectPlan, "DISCONNECTING", ReleasePlan)
  /\ Begins(GiveUpPlan, "READY", << >>)
  /\ Begins(StopPlan, "STOPPING", SetDownPlan)
  /\ Begins(AbandonPlan, "INITIALIZED", SetDownPlan)
  /\ Begins(DeinitializedPlan, "DEINITIALIZED", UnlistPlan)
  /\ Begins(DeinitPlan, "free_drv", DeinitializedPlan)
<1>1. ASSUME NEW a \in NET_STATES \cup STEPS, NEW s \in Todos
      PROVE  Begins(<<a>> \o s, a, s)
  BY Cons DEF Begins, Todos
<1>2. /\ NET_STATES \subseteq NET_STATES \cup STEPS /\ "free_drv" \in STEPS
      /\ {"STARTING", "CONNECTING", "DISCONNECTING", "READY", "STOPPING", "INITIALIZED",
          "DEINITIALIZED"} \subseteq NET_STATES
  BY DEF NET_STATES, STEPS
<1>3. << >> \in Todos /\ {AddPlan, SetObtainPlan, ReleasePlan, SetDownPlan, UnlistPlan} \subseteq Todos
  BY StepPlans DEF Begins, Todos
<1>4. Begins(DeinitializedPlan, "DEINITIALIZED", UnlistPlan)
  BY <1>1, <1>2, <1>3 DEF DeinitializedPlan
<1>5. DeinitializedPlan \in Todos
  BY <1>4 DEF Begins
<1> QED  BY <1>1, <1>2, <1>3, <1>4, <1>5
           DEF StartPlan, ConnectPlan, DisconnectPlan, GiveUpPlan, StopPlan, AbandonPlan, DeinitPlan

\* Which plan a command makes, by the state it finds.
PlanOf(s, plan) ==
  \/ s = "INITIALIZED" /\ plan = StartPlan
  \/ s = "STARTING"    /\ plan = AbandonPlan
  \/ s = "READY"       /\ plan \in {ConnectPlan, StopPlan}
  \/ s = "CONNECTING"  /\ plan = GiveUpPlan
  \/ s = "CONNECTED"   /\ plan = DisconnectPlan

\* Every command that an edge of net_state.c accepts makes one of the plans.
LEMMA EdgePlans ==
  ASSUME NEW s, NEW c \in COMMANDS, c # "CMD_DEINIT", NEW e \in Reactions(s, c)
  PROVE  PlanOf(s, StepsOfEdge(e))
<1>1. e \in Edges /\ e[1] = s /\ e[2] = c
  BY DEF Reactions
<1>2. \/ e[1] = "INITIALIZED" /\ e[3] = "STARTING" /\ e[4] = "if_start"
      \/ e[1] = "STARTING" /\ e[3] = "INITIALIZED" /\ e[4] = "if_stop"
      \/ e[1] = "READY" /\ e[3] = "CONNECTING" /\ e[4] = "if_connect"
      \/ e[1] = "READY" /\ e[3] = "STOPPING" /\ e[4] = "if_stop"
      \/ e[1] = "CONNECTING" /\ e[3] = "READY" /\ e[4] = "none"
      \/ e[1] = "CONNECTED" /\ e[3] = "DISCONNECTING" /\ e[4] = "if_disconnect"
  BY <1>1 DEF COMMANDS, Edges, Initialized, Starting, Ready, Connecting, Connected,
                Disconnecting, Stopping, ConnectionLost
<1>3. /\ StepsOf("if_start") = AddPlan /\ StepsOf("if_connect") = SetObtainPlan
      /\ StepsOf("if_disconnect") = ReleasePlan /\ StepsOf("if_stop") = SetDownPlan
      /\ StepsOf("none") = << >>
  BY DEF StepsOf, AddPlan, SetObtainPlan, ReleasePlan, SetDownPlan
<1>4. StepsOfEdge(e) = << e[3] >> \o StepsOf(e[4])
  BY <1>1 DEF StepsOfEdge
<1> QED  BY <1>1, <1>2, <1>3, <1>4
           DEF PlanOf, StartPlan, ConnectPlan, DisconnectPlan, GiveUpPlan, StopPlan, AbandonPlan

\* net_if_deinit has two plans: the driver is freed only from INITIALIZED.
LEMMA DeinitPlans ==
  (IF state = "INITIALIZED" THEN << "free_drv" >> ELSE << >>) \o << "DEINITIALIZED", "unlist" >>
    = IF state = "INITIALIZED" THEN DeinitPlan ELSE DeinitializedPlan
<1>1. DeinitializedPlan = << "DEINITIALIZED", "unlist" >>
  <2>1. << "DEINITIALIZED", "unlist" >> = << "DEINITIALIZED" >> \o << "unlist" >>
    OBVIOUS
  <2> QED  BY <2>1 DEF DeinitializedPlan, UnlistPlan
<1>2. << >> \o DeinitializedPlan = DeinitializedPlan
  BY StatePlans, ConcatEmptySeq DEF Begins, Todos
<1> QED  BY <1>1, <1>2 DEF DeinitPlan

\* What the driver's reports do, and those of lwIP.
LEMMA DriverReports ==
  ASSUME NEW s
  PROVE  /\ React(s, "INTERFACE_READY") = IF s \in {"STARTING", "DISCONNECTING"} THEN "READY" ELSE s
         /\ React(s, "INTERFACE_INITIALIZED") = IF s = "STOPPING" THEN "INITIALIZED" ELSE s
<1>1. ASSUME NEW ev, Reactions(s, ev) # {}
      PROVE  \E e \in Reactions(s, ev) : React(s, ev) = e[3]
  <2>1. (CHOOSE e \in Reactions(s, ev) : TRUE) \in Reactions(s, ev)
    BY <1>1
  <2> QED  BY <1>1, <2>1 DEF React
<1>2. ASSUME NEW ev, Reactions(s, ev) = {}
      PROVE  React(s, ev) = s
  BY <1>2 DEF React
<1>3. /\ << "STARTING", "INTERFACE_READY", "READY", "none" >> \in Edges
      /\ << "DISCONNECTING", "INTERFACE_READY", "READY", "none" >> \in Edges
      /\ << "STOPPING", "INTERFACE_INITIALIZED", "INITIALIZED", "none" >> \in Edges
  BY DEF Edges, Starting, Disconnecting, Stopping
<1>4. \A e \in Edges :
        /\ e[2] = "INTERFACE_READY" => e[1] \in {"STARTING", "DISCONNECTING"} /\ e[3] = "READY"
        /\ e[2] = "INTERFACE_INITIALIZED" => e[1] = "STOPPING" /\ e[3] = "INITIALIZED"
  BY DEF Edges, Initialized, Starting, Ready, Connecting, Connected, Disconnecting, Stopping,
         ConnectionLost
<1>5. /\ Reactions(s, "INTERFACE_READY") = {} <=> s \notin {"STARTING", "DISCONNECTING"}
      /\ Reactions(s, "INTERFACE_INITIALIZED") = {} <=> s # "STOPPING"
  BY <1>3, <1>4 DEF Reactions
<1>6. /\ \A e \in Reactions(s, "INTERFACE_READY") : e[3] = "READY"
      /\ \A e \in Reactions(s, "INTERFACE_INITIALIZED") : e[3] = "INITIALIZED"
  BY <1>4 DEF Reactions
<1> QED  BY <1>1, <1>2, <1>5, <1>6

\* Only these edges are taken by the reports of lwIP and the link thread.
LEMMA LwipReports ==
  ASSUME NEW s, NEW ev \in {"IPADDR", "LINK_UP", "LINK_DOWN"}, NEW e \in Reactions(s, ev)
  PROVE  \/ s \in {"CONNECTING", "CONNECTED"} /\ ev = "IPADDR" /\ e[3] = "CONNECTED"
         \/ s = "CONNECTED" /\ ev = "LINK_DOWN" /\ e[3] = "CONNECTION_LOST"
         \/ s = "CONNECTION_LOST" /\ ev = "LINK_UP" /\ e[3] = "CONNECTING"
  BY DEF Reactions, Edges, Initialized, Starting, Ready, Connecting, Connected,
         Disconnecting, Stopping, ConnectionLost

\* A CONNECTED interface that hears LINK_DOWN is lost.
LEMMA LostReports ==
  << "CONNECTED", "LINK_DOWN", "CONNECTION_LOST", "none" >> \in Reactions("CONNECTED", "LINK_DOWN")
  BY DEF Reactions, Edges, Connected

-----------------------------------------------------------------------------
(* The invariant.                                                          *)

Types ==
  /\ app \in Apps
  /\ state \in NET_STATES /\ ipaddr \in Addrs
  /\ dhcp_mode \in BOOLEAN /\ release \in BOOLEAN
  /\ listed \in BOOLEAN /\ hasDrv \in BOOLEAN /\ hasNetif \in BOOLEAN
  /\ netif \in Netif
  /\ sent \in COMMANDS \cup {"none", "failed"}
  /\ thread \in BOOLEAN /\ linkStatus \in BOOLEAN /\ cable \in BOOLEAN
  /\ at \in [ Tasks -> Places ] /\ nested \in [ Tasks -> BOOLEAN ]
  /\ seen \in [ Tasks -> (REPORTS \cup {"none"}) \X NET_STATES ]

\* A callback runs only while the lwIP interface exists, and a state it has read is
\* linked only if the interface still is.
CbInv ==
  /\ ~Quiet => netif.cb
  /\ netif.cb => hasNetif
  /\ \A p \in Tasks :
       /\ at[p] = "ipevent" => seen[p][1] = "IPADDR"
       /\ at[p] = "linkevent" => seen[p][1] \in {"LINK_UP", "LINK_DOWN"}
       /\ at[p] \in {"ipevent", "linkevent"} /\ seen[p][2] \in Linked => state \in Linked

Count(b) == IF b THEN 1 ELSE 0

\* Every block that is allocated is pointed to, and the link thread lives as long as
\* the lwIP interface.
OwnInv == drvs = Count(hasDrv) /\ netifs = Count(hasNetif) /\ thread = hasNetif

Up == Linked \cup {"READY"}

Runs == hasNetif /\ hasDrv /\ netif.cb /\ netif.up

\* The stages of no command, start, connect and disconnect, stop, deinit.
Idles ==
  /\ todo = << >>
  /\ \/ state = "DEINITIALIZED" /\ ~hasNetif /\ ~hasDrv
     \/ state \in {"INITIALIZED", "STARTING"} /\ ~hasNetif /\ hasDrv
     \/ state \in Up /\ Runs

Starts ==
  /\ hasDrv
  /\ \/ todo = StartPlan /\ state = "INITIALIZED" /\ ~hasNetif
     \/ todo = AddPlan /\ state = "STARTING" /\ ~hasNetif
     \/ todo = RegisterPlan /\ state = "STARTING" /\ hasNetif
     \/ todo \in {LinkUpPlan, SetUpPlan} /\ state = "STARTING" /\ hasNetif /\ netif.cb
     \/ todo = ReadyPlan /\ state \in {"STARTING", "DISCONNECTING"} /\ Runs

Connects ==
  /\ Runs
  /\ \/ todo = ConnectPlan /\ state = "READY"
     \/ todo \in {SetObtainPlan, ObtainPlan, DisconnectPlan, GiveUpPlan} /\ state \in Linked
     \/ todo = ReleasePlan /\ state = "DISCONNECTING"

Stops ==
  /\ hasDrv
  /\ \/ todo = StopPlan /\ state = "READY" /\ Runs
     \/ todo = AbandonPlan /\ state = "STARTING"
     \/ todo \in {SetDownPlan, LinkDownPlan, RemovePlan} /\ state \in {"STOPPING", "INITIALIZED"}
     \/ todo = InitializedPlan /\ state \in {"STOPPING", "INITIALIZED"} /\ ~hasNetif

Deinits ==
  /\ ~hasNetif
  /\ \/ todo = DeinitPlan /\ state = "INITIALIZED" /\ hasDrv
     \/ todo = DeinitializedPlan /\ state = "INITIALIZED" /\ ~hasDrv
     \/ todo = UnlistPlan /\ state = "DEINITIALIZED" /\ ~hasDrv

StageInv == Idles \/ Starts \/ Connects \/ Stops \/ Deinits

IInv == Types /\ CbInv /\ OwnInv /\ StageInv

-----------------------------------------------------------------------------
(* What the rules give.                                                    *)

\* The application sends nothing but commands.
LEMMA Used == COMMANDS_USED \subseteq COMMANDS
  BY NetIfAssumption

\* When the application runs, no callback is under way: the threads above it are done.
LEMMA AppIsAlone == ASSUME Rules, AppRuns PROVE Quiet
  BY DEF Rules, AppRuns, In, MayRun, Above, Quiet, Tasks

\* The three tasks.
LEMMA TaskNames == "app" \in Tasks /\ "lwip" \in Tasks /\ "link" \in Tasks
  BY DEF Tasks

\* The lwIP interface keeps its type whatever is done to it.
LEMMA NewFields ==
  ASSUME NEW n \in Netif, NEW a \in Addrs, NEW b \in BOOLEAN, NEW d \in {"none", "discover", "bound"}
  PROVE  /\ WithLink(n, b) \in Netif
         /\ [ n EXCEPT !.up = b ] \in Netif /\ [ n EXCEPT !.addr = a ] \in Netif
         /\ [ n EXCEPT !.dhcp = d ] \in Netif
         /\ [ n EXCEPT !.addr = a, !.dhcp = d ] \in Netif
         /\ [ n EXCEPT !.dhcp = d, !.addr = a ] \in Netif
         /\ [ n EXCEPT !.up = FALSE, !.link = FALSE, !.cb = TRUE ] \in Netif
         /\ [ NewNetif EXCEPT !.link = b ] \in Netif /\ NewNetif \in Netif
<1>1. WithLink(n, b) \in Netif
  BY DEF WithLink, Netif
<1>2. /\ [ n EXCEPT !.up = b ] \in Netif /\ [ n EXCEPT !.addr = a ] \in Netif
      /\ [ n EXCEPT !.dhcp = d ] \in Netif
  BY DEF Netif
<1>3. /\ [ n EXCEPT !.addr = a, !.dhcp = d ] \in Netif /\ [ n EXCEPT !.dhcp = d, !.addr = a ] \in Netif
  BY DEF Netif
<1>4. [ n EXCEPT !.up = FALSE, !.link = FALSE, !.cb = TRUE ] \in Netif
  BY DEF Netif
<1>5. [ NewNetif EXCEPT !.link = b ] \in Netif /\ NewNetif \in Netif
  BY DEF Netif, NewNetif, Addrs
<1> QED  BY <1>1, <1>2, <1>3, <1>4, <1>5

\* A step that changes the lwIP interface and may start the callback in p.
Touches(p) ==
  /\ netif'.cb = netif.cb
  /\ at' = at \/ (netif.cb /\ at' = [ at EXCEPT ![p] = "start" ])

\* Which steps change the lwIP interface, and what of it they leave alone.
LEMMA Touching ==
  ASSUME IInv
  PROVE  /\ SetFlag \/ Obtain \/ ReleaseAddr => Touches("app")
         /\ PollLink => Touches("link")
         /\ DhcpBound \/ DhcpLost => Touches("lwip")
         /\ Obtain \/ ReleaseAddr \/ PollLink \/ DhcpBound \/ DhcpLost => netif'.up = netif.up
         /\ \A p \in Tasks : CallbackStart(p) => netif'.cb = netif.cb /\ netif'.up = netif.up
<1> USE DEF Touches, Changes
<1>0. netif \in Netif
  BY DEF IInv, Types
<1>1. SetFlag => Touches("app")
  <2>1. LinkUp => Touches("app")
    BY <1>0 DEF LinkUp, WithLink, Netif
  <2>2. LinkDown => Touches("app")
    BY <1>0 DEF LinkDown, WithLink, Netif
  <2>3. SetUp \/ SetDown => Touches("app")
    BY <1>0 DEF SetUp, SetDown, Netif
  <2> QED  BY <2>1, <2>2, <2>3 DEF SetFlag
<1>2. Obtain => Touches("app") /\ netif'.up = netif.up
  BY <1>0 DEF Obtain, Netif
<1>3. ReleaseAddr => Touches("app") /\ netif'.up = netif.up
  BY <1>0 DEF ReleaseAddr, Netif
<1>4. PollLink => Touches("link") /\ netif'.up = netif.up
  BY <1>0 DEF PollLink, WithLink, Netif
<1>5. DhcpBound \/ DhcpLost => Touches("lwip") /\ netif'.up = netif.up
  BY <1>0 DEF DhcpBound, DhcpLost, Netif
<1>6. \A p \in Tasks : CallbackStart(p) => netif'.cb = netif.cb /\ netif'.up = netif.up
  BY <1>0 DEF CallbackStart, Netif
<1> QED  BY <1>1, <1>2, <1>3, <1>4, <1>5, <1>6

\* A change keeps the types of the interface and of the callbacks.
LEMMA ChangesType ==
  ASSUME NEW n \in Netif, NEW p \in Tasks, Changes(p, n), at \in [ Tasks -> Places ]
  PROVE  netif' \in Netif /\ at' \in [ Tasks -> Places ]
  BY DEF Changes, Places

\* Where a command stands when it makes a step.
LEMMA StandsAt ==
  ASSUME IInv, todo # << >>
  PROVE  /\ Head(todo) = "add_if" => /\ state = "STARTING" /\ ~hasNetif /\ hasDrv
                                     /\ Tail(todo) = RegisterPlan
         /\ Head(todo) = "register" => /\ state = "STARTING" /\ hasNetif /\ hasDrv
                                       /\ Tail(todo) = LinkUpPlan
         /\ Head(todo) = "link_up" => /\ state = "STARTING" /\ hasNetif /\ hasDrv /\ netif.cb
                                      /\ Tail(todo) = SetUpPlan
         /\ Head(todo) = "set_up" =>
              \/ state = "STARTING" /\ hasNetif /\ hasDrv /\ netif.cb /\ Tail(todo) = ReadyPlan
              \/ state \in Linked /\ Runs /\ Tail(todo) = ObtainPlan
         /\ Head(todo) = "obtain" => state \in Linked /\ Runs /\ Tail(todo) = << >>
         /\ Head(todo) = "release" => state = "DISCONNECTING" /\ Runs /\ Tail(todo) = ReadyPlan
         /\ Head(todo) = "ready" => state \in {"STARTING", "DISCONNECTING"} /\ Runs
                                    /\ Tail(todo) = << >>
         /\ Head(todo) = "set_down" => /\ state \in {"STOPPING", "INITIALIZED"} /\ hasDrv
                                       /\ Tail(todo) = LinkDownPlan
         /\ Head(todo) = "link_down" => /\ state \in {"STOPPING", "INITIALIZED"} /\ hasDrv
                                        /\ Tail(todo) = RemovePlan
         /\ Head(todo) = "remove_if" => /\ state \in {"STOPPING", "INITIALIZED"} /\ hasDrv
                                        /\ Tail(todo) = InitializedPlan
         /\ Head(todo) = "initialized" => /\ state \in {"STOPPING", "INITIALIZED"} /\ hasDrv /\ ~hasNetif
                                          /\ Tail(todo) = << >>
         /\ Head(todo) = "free_drv" => /\ state = "INITIALIZED" /\ hasDrv /\ ~hasNetif
                                       /\ Tail(todo) = DeinitializedPlan
         /\ Head(todo) = "unlist" => /\ state = "DEINITIALIZED" /\ ~hasDrv /\ ~hasNetif
                                     /\ Tail(todo) = << >>
         /\ Head(todo) = "STARTING" => /\ state = "INITIALIZED" /\ hasDrv /\ ~hasNetif
                                       /\ Tail(todo) = AddPlan
         /\ Head(todo) = "CONNECTING" => state = "READY" /\ Runs /\ Tail(todo) = SetObtainPlan
         /\ Head(todo) = "DISCONNECTING" => state \in Linked /\ Runs /\ Tail(todo) = ReleasePlan
         /\ Head(todo) = "READY" => state \in Linked /\ Runs /\ Tail(todo) = << >>
         /\ Head(todo) = "STOPPING" => state = "READY" /\ Runs /\ Tail(todo) = SetDownPlan
         /\ Head(todo) = "INITIALIZED" => state = "STARTING" /\ hasDrv /\ Tail(todo) = SetDownPlan
         /\ Head(todo) = "DEINITIALIZED" => /\ state = "INITIALIZED" /\ ~hasDrv /\ ~hasNetif
                                            /\ Tail(todo) = UnlistPlan
         /\ Head(todo) \notin {"CONNECTED", "CONNECTION_LOST"}
<1> USE StepPlans, StatePlans DEF Begins, Runs
<1>1. CASE Idles
  BY <1>1 DEF Idles
<1>2. CASE Starts
  BY <1>2 DEF Starts
<1>3. CASE Connects
  BY <1>3 DEF Connects
<1>4. CASE Stops
  BY <1>4 DEF Stops
<1>5. CASE Deinits
  BY <1>5 DEF Deinits
<1> QED  BY <1>1, <1>2, <1>3, <1>4, <1>5 DEF IInv, StageInv

\* What is DEINITIALIZED owns nothing.
LEMMA NotInitialized ==
  ASSUME IInv, state = "DEINITIALIZED"
  PROVE  ~hasDrv /\ ~hasNetif
  BY DEF IInv, StageInv, Idles, Starts, Connects, Stops, Deinits, Up, Linked

\* The application ends an interface only when it is INITIALIZED.
LEMMA MayDeinit ==
  ASSUME Rules, IInv, MaySend("CMD_DEINIT")
  PROVE  state = "INITIALIZED"
  BY DEF Rules, MaySend, Expected, IInv, Types

\* An event that is delivered, with the state that was read for it, leads from a
\* linked state to a linked state, or nowhere.
LEMMA ReportsStay ==
  ASSUME IInv, NEW p \in Tasks, CallbackEvent(p)
  PROVE  state' = state \/ (state \in Linked /\ state' \in Linked)
<1>1. seen[p][1] \in {"IPADDR", "LINK_UP", "LINK_DOWN"}
  BY DEF CallbackEvent, In, IInv, CbInv
<1>2. CASE Reactions(seen[p][2], seen[p][1]) = {}
  BY <1>2 DEF CallbackEvent
<1>3. ASSUME NEW r \in Reactions(seen[p][2], seen[p][1]), state' = r[3]
      PROVE  state \in Linked /\ state' \in Linked
  BY <1>1, <1>3, LwipReports DEF CallbackEvent, In, IInv, CbInv, Linked
<1> QED  BY <1>2, <1>3 DEF CallbackEvent

\* Types are kept.
LEMMA TypesStep ==
  ASSUME Rules, IInv, [Next]_vars
  PROVE  Types'
<1> USE Used, TaskNames DEF IInv, Types, core, port, cbs, user, Sent
<1>1. CASE UNCHANGED vars
  BY <1>1 DEF vars
<1>2. CASE NetIfInit
  BY <1>2, DriverReports DEF NetIfInit, NET_STATES
<1>3. CASE NetIfDeinit
  BY <1>3 DEF NetIfDeinit, COMMANDS
<1>4. CASE SetDhcpMode
  BY <1>4, NetIfAssumption DEF SetDhcpMode, Application
<1>5. ASSUME NEW c \in COMMANDS_USED, Command(c) PROVE Types'
  BY <1>5 DEF Command
<1>6. CASE SetState
  BY <1>6 DEF SetState
<1>7. CASE Unlist
  BY <1>7 DEF Unlist
<1>8. CASE AddIf
  BY <1>8, NewFields DEF AddIf
<1>9. CASE AddIfFails
  BY <1>9 DEF AddIfFails
<1>10. CASE Register
  BY <1>10, NewFields DEF Register
<1>11. CASE SetFlag
  <2>1. CASE LinkUp
    BY <1>11, <2>1, NewFields, ChangesType DEF SetFlag, LinkUp
  <2>2. CASE LinkDown
    BY <1>11, <2>2, NewFields, ChangesType DEF SetFlag, LinkDown
  <2>3. CASE SetUp
    BY <1>11, <2>3, NewFields, ChangesType DEF SetFlag, SetUp
  <2>4. CASE SetDown
    BY <1>11, <2>4, NewFields, ChangesType DEF SetFlag, SetDown
  <2> QED  BY <1>11, <2>1, <2>2, <2>3, <2>4 DEF SetFlag
<1>12. CASE Obtain
  BY <1>12, NewFields, ChangesType DEF Obtain, Addrs
<1>13. CASE ReleaseAddr
  BY <1>13, NewFields, ChangesType DEF ReleaseAddr, Addrs
<1>14. CASE RemoveIf
  BY <1>14, NewFields DEF RemoveIf
<1>15. CASE Report
  BY <1>15, DriverReports DEF Report, NET_STATES
<1>16. CASE FreeDrv
  BY <1>16 DEF FreeDrv
<1>17. CASE Cable
  BY <1>17 DEF Cable
<1>18. CASE PollLink
  BY <1>18, NewFields, ChangesType DEF PollLink
<1>19. CASE DhcpBound
  BY <1>19, NewFields, ChangesType DEF DhcpBound, Addrs
<1>20. CASE DhcpLost
  <2>1. [ netif EXCEPT !.addr = "zero", !.dhcp = "discover" ] \in Netif
    BY NewFields DEF Addrs
  <2>2. netif' \in Netif /\ at' \in [ Tasks -> Places ]
    BY <1>20, <2>1, TaskNames, ChangesType DEF DhcpLost
  <2> QED  BY <1>20, <2>2 DEF DhcpLost
<1>21. ASSUME NEW p \in Tasks, CallbackStart(p) PROVE Types'
  <2>1. at' \in [ Tasks -> Places ] /\ nested' \in [ Tasks -> BOOLEAN ]
    BY <1>21 DEF CallbackStart, Places
  <2>2. netif' \in Netif
    <3>1. netif.addr \in Addrs /\ "zero" \in Addrs
      BY DEF Netif, Addrs
    <3>2. \A a \in Addrs : [ netif EXCEPT !.dhcp = "discover", !.addr = a ] \in Netif
      BY NewFields
    <3> QED  BY <1>21, <3>1, <3>2 DEF CallbackStart
  <2> QED  BY <1>21, <2>1, <2>2 DEF CallbackStart
<1>22. ASSUME NEW p \in Tasks, CallbackIp(p) PROVE Types'
  <2>1. at' \in [ Tasks -> Places ]
    BY <1>22 DEF CallbackIp, Places
  <2>2. seen' \in [ Tasks -> (REPORTS \cup {"none"}) \X NET_STATES ]
    BY <1>22 DEF CallbackIp, REPORTS
  <2>3. netif.addr \in Addrs
    BY DEF Netif
  <2> QED  BY <1>22, <2>1, <2>2, <2>3 DEF CallbackIp
<1>23. ASSUME NEW p \in Tasks, CallbackLink(p) PROVE Types'
  BY <1>23 DEF CallbackLink, Places, REPORTS
<1>24. ASSUME NEW p \in Tasks, CallbackEvent(p) PROVE Types'
  <2>1. state' \in NET_STATES
    BY <1>24, ReportsStay DEF Linked, NET_STATES
  <2>2. at' \in [ Tasks -> Places ] /\ nested' \in [ Tasks -> BOOLEAN ]
    BY <1>24 DEF CallbackEvent, Places
  <2>3. << "none", "DEINITIALIZED" >> \in (REPORTS \cup {"none"}) \X NET_STATES
    BY DEF REPORTS, NET_STATES
  <2> QED  BY <1>24, <2>1, <2>2, <2>3 DEF CallbackEvent
<1>25. CASE ConnectFails
  BY <1>25 DEF ConnectFails
<1> QED
  BY <1>1, <1>2, <1>3, <1>4, <1>5, <1>6, <1>7, <1>8, <1>9, <1>10, <1>11, <1>12, <1>13, <1>14,
     <1>15, <1>16, <1>17, <1>18, <1>19, <1>20, <1>21, <1>22, <1>23, <1>24, <1>25
     DEF Next, AppCall, AppStep, CallbackStep

\* What the callbacks rely on is kept: a new callback starts only with an interface,
\* and the application changes the state only when no callback is under way.
LEMMA CbStep ==
  ASSUME Rules, IInv, [Next]_vars
  PROVE  CbInv'
<1> USE TaskNames DEF IInv, CbInv, core, port, cbs, user, Quiet, AppRuns, Doing, Touches, Types
<1>1. CASE UNCHANGED vars
  BY <1>1 DEF vars
<1>2. CASE NetIfInit
  BY <1>2, AppIsAlone DEF NetIfInit
<1>3. CASE NetIfDeinit
  BY <1>3 DEF NetIfDeinit
<1>4. CASE SetDhcpMode
  BY <1>4 DEF SetDhcpMode
<1>5. ASSUME NEW c \in COMMANDS_USED, Command(c) PROVE CbInv'
  BY <1>5 DEF Command
<1>6. CASE SetState
  BY <1>6, AppIsAlone DEF SetState
<1>7. CASE Unlist
  BY <1>7 DEF Unlist
<1>8. CASE AddIf
  BY <1>8, AppIsAlone DEF AddIf, NewNetif
<1>9. CASE AddIfFails
  BY <1>9 DEF AddIfFails
<1>10. CASE Register
  BY <1>10, AppIsAlone, StandsAt DEF Register, Netif
<1>11. CASE SetFlag
  <2>1. Touches("app") /\ UNCHANGED << state, hasNetif, seen >>
    BY <1>11, Touching DEF SetFlag
  <2>2. AppRuns
    BY <1>11 DEF SetFlag, LinkUp, LinkDown, SetUp, SetDown
  <2>3. \A p \in Tasks : at[p] = "off"
    BY <2>2, AppIsAlone
  <2> QED  BY <2>1, <2>3
<1>12. CASE Obtain
  <2>1. Touches("app") /\ UNCHANGED << state, hasNetif, seen >>
    BY <1>12, Touching DEF Obtain
  <2>2. \A p \in Tasks : at[p] = "off"
    BY <1>12, AppIsAlone DEF Obtain
  <2> QED  BY <2>1, <2>2
<1>13. CASE ReleaseAddr
  BY <1>13, AppIsAlone, Touching DEF ReleaseAddr
<1>14. CASE RemoveIf
  BY <1>14, AppIsAlone DEF RemoveIf, NewNetif
<1>15. CASE Report
  BY <1>15, AppIsAlone DEF Report
<1>16. CASE FreeDrv
  BY <1>16 DEF FreeDrv
<1>17. CASE Cable
  BY <1>17 DEF Cable
<1>18. CASE PollLink
  BY <1>18, Touching DEF PollLink, In
<1>19. CASE DhcpBound
  <2>1. Touches("lwip") /\ at["lwip"] = "off" /\ UNCHANGED << state, hasNetif, seen >>
    BY <1>19, Touching DEF DhcpBound, In
  <2> QED  BY <2>1
<1>20. CASE DhcpLost
  BY <1>20, Touching DEF DhcpLost, In
<1>21. ASSUME NEW p \in Tasks, CallbackStart(p) PROVE CbInv'
  BY <1>21, Touching DEF CallbackStart, In
<1>22. ASSUME NEW p \in Tasks, CallbackIp(p) PROVE CbInv'
  BY <1>22 DEF CallbackIp, In
<1>23. ASSUME NEW p \in Tasks, CallbackLink(p) PROVE CbInv'
  BY <1>23 DEF CallbackLink, In
<1>24. ASSUME NEW p \in Tasks, CallbackEvent(p) PROVE CbInv'
  BY <1>24, ReportsStay DEF CallbackEvent, In
<1>25. CASE ConnectFails
  BY <1>25 DEF ConnectFails
<1> QED
  BY <1>1, <1>2, <1>3, <1>4, <1>5, <1>6, <1>7, <1>8, <1>9, <1>10, <1>11, <1>12, <1>13, <1>14,
     <1>15, <1>16, <1>17, <1>18, <1>19, <1>20, <1>21, <1>22, <1>23, <1>24, <1>25
     DEF Next, AppCall, AppStep, CallbackStep

\* Blocks and pointers are kept in step: what is added was not there, what is freed was.
LEMMA OwnStep ==
  ASSUME Rules, IInv, [Next]_vars
  PROVE  OwnInv'
<1> USE DEF IInv, OwnInv, Count, core, port, cbs, user, Doing
<1>1. CASE UNCHANGED vars
  BY <1>1 DEF vars
<1>2. CASE NetIfInit
  BY <1>2, NotInitialized DEF NetIfInit
<1>3. CASE NetIfDeinit
  BY <1>3 DEF NetIfDeinit
<1>4. CASE SetDhcpMode
  BY <1>4 DEF SetDhcpMode
<1>5. ASSUME NEW c \in COMMANDS_USED, Command(c) PROVE OwnInv'
  BY <1>5 DEF Command
<1>6. CASE SetState
  BY <1>6 DEF SetState
<1>7. CASE Unlist
  BY <1>7 DEF Unlist
<1>8. CASE AddIf
  BY <1>8, StandsAt DEF AddIf
<1>9. CASE AddIfFails
  BY <1>9 DEF AddIfFails
<1>10. CASE Register
  BY <1>10 DEF Register
<1>11. CASE SetFlag
  BY <1>11 DEF SetFlag, LinkUp, LinkDown, SetUp, SetDown
<1>12. CASE Obtain
  BY <1>12 DEF Obtain
<1>13. CASE ReleaseAddr
  BY <1>13 DEF ReleaseAddr
<1>14. CASE RemoveIf
  <2>1. CASE hasNetif
    <3>1. netifs = 1 /\ hasNetif' = FALSE /\ netifs' = netifs - 1 /\ thread' = FALSE
      BY <1>14, <2>1 DEF RemoveIf
    <3>2. netifs' = 0
      BY <3>1
    <3>3. drvs' = drvs /\ hasDrv' = hasDrv
      BY <1>14 DEF RemoveIf
    <3> QED  BY <3>1, <3>2, <3>3
  <2>2. CASE ~hasNetif
    BY <1>14, <2>2 DEF RemoveIf
  <2> QED  BY <2>1, <2>2
<1>15. CASE Report
  BY <1>15 DEF Report
<1>16. CASE FreeDrv
  BY <1>16, StandsAt DEF FreeDrv
<1>17. CASE Cable
  BY <1>17 DEF Cable
<1>18. CASE PollLink
  BY <1>18 DEF PollLink
<1>19. CASE DhcpBound
  BY <1>19 DEF DhcpBound
<1>20. CASE DhcpLost
  BY <1>20 DEF DhcpLost
<1>21. ASSUME NEW p \in Tasks, CallbackStart(p) PROVE OwnInv'
  BY <1>21 DEF CallbackStart
<1>22. ASSUME NEW p \in Tasks, CallbackIp(p) PROVE OwnInv'
  BY <1>22 DEF CallbackIp
<1>23. ASSUME NEW p \in Tasks, CallbackLink(p) PROVE OwnInv'
  BY <1>23 DEF CallbackLink
<1>24. ASSUME NEW p \in Tasks, CallbackEvent(p) PROVE OwnInv'
  BY <1>24 DEF CallbackEvent
<1>25. CASE ConnectFails
  BY <1>25 DEF ConnectFails
<1> QED
  BY <1>1, <1>2, <1>3, <1>4, <1>5, <1>6, <1>7, <1>8, <1>9, <1>10, <1>11, <1>12, <1>13, <1>14,
     <1>15, <1>16, <1>17, <1>18, <1>19, <1>20, <1>21, <1>22, <1>23, <1>24, <1>25
     DEF Next, AppCall, AppStep, CallbackStep

\* Steps that leave the command and what it owns alone, and move the state among
\* the linked ones, keep its stage.
LEMMA StageFrame ==
  ASSUME IInv, UNCHANGED << todo, hasDrv, hasNetif >>,
         netif'.cb = netif.cb, netif'.up = netif.up,
         state' = state \/ (state \in Linked /\ state' \in Linked)
  PROVE  StageInv'
<1> USE DEF StageInv, Idles, Starts, Connects, Stops, Deinits, Runs, Up, IInv
<1>1. CASE state' = state
  BY <1>1
<1>2. CASE state \in Linked /\ state' \in Linked
  BY <1>2 DEF Linked
<1> QED  BY <1>1, <1>2

\* Between two commands.
LEMMA EmptyPlan ==
  ASSUME IInv, todo = << >>
  PROVE  Idles
  BY StepPlans, StatePlans DEF IInv, StageInv, Starts, Connects, Stops, Deinits, Begins

\* if_connect has done nothing yet.
LEMMA BeforeConnect ==
  ASSUME IInv, todo = StepsOf("if_connect")
  PROVE  state \in Linked /\ Runs
<1>1. StepsOf("if_connect") = SetObtainPlan
  BY DEF StepsOf, SetObtainPlan
<1>2. todo # << >> /\ Head(todo) = "set_up" /\ Tail(todo) = ObtainPlan
  BY <1>1, StepPlans DEF Begins
<1>3. ObtainPlan # ReadyPlan
  BY StepPlans DEF Begins
<1> QED  BY <1>2, <1>3, StandsAt

\* Every step of a command leads to the next stage of it.
LEMMA StageStep ==
  ASSUME Rules, IInv, [Next]_vars
  PROVE  StageInv'
<1> USE DEF core, port, cbs, user, Doing
<1>1. CASE UNCHANGED vars
  BY <1>1, StageFrame DEF vars
<1>2. CASE NetIfInit
  BY <1>2, DriverReports, EmptyPlan, NotInitialized DEF NetIfInit, StageInv, Idles
<1>3. CASE NetIfDeinit
  <2>1. /\ state # "DEINITIALIZED" /\ Idles /\ UNCHANGED << state, hasNetif, hasDrv, netif >>
    BY <1>3, EmptyPlan DEF NetIfDeinit
  <2>2. state = "INITIALIZED" /\ todo' = DeinitPlan
    BY <1>3, <2>1, DeinitPlans, MayDeinit DEF NetIfDeinit
  <2> QED  BY <2>1, <2>2 DEF StageInv, Deinits, Idles, Up, Linked
<1>4. CASE SetDhcpMode
  BY <1>4, StageFrame DEF SetDhcpMode
<1>5. ASSUME NEW c \in COMMANDS_USED, Command(c) PROVE StageInv'
  <2>1. Idles /\ UNCHANGED << state, hasNetif, hasDrv, netif >>
    BY <1>5, EmptyPlan DEF Command
  <2>2. CASE todo' = todo
    BY <1>5, <2>2, StageFrame DEF Command
  <2>3. CASE PlanOf(state, todo')
    BY <2>1, <2>3 DEF PlanOf, StageInv, Idles, Starts, Connects, Stops, Runs, Up, Linked
  <2>4. todo' = todo \/ PlanOf(state, todo')
    BY <1>5, EdgePlans, Used DEF Command
  <2> QED  BY <2>2, <2>3, <2>4
<1>6. CASE SetState
  BY <1>6, StandsAt
     DEF SetState, NET_STATES, StageInv, Idles, Starts, Connects, Stops, Deinits, Runs, Up, Linked
<1>7. CASE Unlist
  BY <1>7, StandsAt DEF Unlist, StageInv, Idles
<1>8. CASE AddIf
  BY <1>8, StandsAt DEF AddIf, StageInv, Starts
<1>9. CASE AddIfFails
  BY <1>9, StandsAt DEF AddIfFails, StageInv, Idles
<1>10. CASE Register
  <2>1. netif'.cb = TRUE
    BY <1>10 DEF Register, IInv, Types, Netif
  <2> QED  BY <1>10, <2>1, StandsAt DEF Register, StageInv, Starts
<1>11. CASE SetFlag
  <2>1. netif'.cb = netif.cb /\ UNCHANGED << state, hasNetif, hasDrv >> /\ todo' = Tail(todo)
    BY <1>11, Touching DEF SetFlag, Touches
  <2>2. CASE Doing("link_up")
    BY <2>1, <2>2, StandsAt DEF StageInv, Starts
  <2>3. CASE SetUp
    <3>1. netif'.up = TRUE
      BY <2>3 DEF SetUp, Changes, IInv, Types, Netif
    <3> QED  BY <2>1, <2>3, <3>1, StandsAt DEF SetUp, StageInv, Starts, Connects, Runs
  <2>4. CASE Doing("set_down")
    BY <2>1, <2>4, StandsAt DEF StageInv, Stops
  <2>5. CASE Doing("link_down")
    BY <2>1, <2>5, StandsAt DEF StageInv, Stops
  <2> QED  BY <1>11, <2>2, <2>3, <2>4, <2>5 DEF SetFlag, LinkUp, LinkDown, SetDown
<1>12. CASE Obtain
  BY <1>12, Touching, StandsAt DEF Obtain, Touches, StageInv, Idles, Runs, Up
<1>13. CASE ReleaseAddr
  BY <1>13, Touching, StandsAt DEF ReleaseAddr, Touches, StageInv, Starts, Runs
<1>14. CASE RemoveIf
  BY <1>14, StandsAt DEF RemoveIf, StageInv, Stops
<1>15. CASE Report
  BY <1>15, StandsAt, DriverReports DEF Report, StageInv, Idles, Runs, Up
<1>16. CASE FreeDrv
  BY <1>16, StandsAt DEF FreeDrv, StageInv, Deinits
<1>17. CASE Cable
  BY <1>17, StageFrame DEF Cable
<1>18. CASE PollLink
  BY <1>18, StageFrame, Touching DEF PollLink, Touches
<1>19. CASE DhcpBound
  BY <1>19, StageFrame, Touching DEF DhcpBound, Touches
<1>20. CASE DhcpLost
  BY <1>20, StageFrame, Touching DEF DhcpLost, Touches
<1>21. ASSUME NEW p \in Tasks, CallbackStart(p) PROVE StageInv'
  BY <1>21, StageFrame, Touching DEF CallbackStart
<1>22. ASSUME NEW p \in Tasks, CallbackIp(p) PROVE StageInv'
  BY <1>22, StageFrame DEF CallbackIp
<1>23. ASSUME NEW p \in Tasks, CallbackLink(p) PROVE StageInv'
  BY <1>23, StageFrame DEF CallbackLink
<1>24. ASSUME NEW p \in Tasks, CallbackEvent(p) PROVE StageInv'
  BY <1>24, StageFrame, ReportsStay DEF CallbackEvent
<1>25. CASE ConnectFails
  BY <1>25, BeforeConnect DEF ConnectFails, StageInv, Idles, Runs, Up
<1> QED
  BY <1>1, <1>2, <1>3, <1>4, <1>5, <1>6, <1>7, <1>8, <1>9, <1>10, <1>11, <1>12, <1>13, <1>14,
     <1>15, <1>16, <1>17, <1>18, <1>19, <1>20, <1>21, <1>22, <1>23, <1>24, <1>25
     DEF Next, AppCall, AppStep, CallbackStep

\* The invariant holds at the start.
LEMMA InitIInv == Init => IInv
<1> SUFFICES ASSUME Init PROVE IInv
  OBVIOUS
<1> USE DEF Init
<1>1. Types
  <2>1. NewNetif \in Netif
    BY DEF NewNetif, Netif, Addrs
  <2>2. dhcp_mode \in BOOLEAN
    BY NetIfAssumption DEF Application
  <2> QED  BY <2>1, <2>2 DEF Types, Addrs, NET_STATES, Places, REPORTS
<1>2. CbInv
  BY DEF CbInv, Quiet, NewNetif
<1>3. OwnInv
  BY DEF OwnInv, Count
<1>4. StageInv
  BY DEF StageInv, Idles
<1> QED  BY <1>1, <1>2, <1>3, <1>4 DEF IInv

\* The invariant is kept by every step.
LEMMA IInvStep == ASSUME Rules PROVE IInv /\ [Next]_vars => IInv'
  BY TypesStep, CbStep, OwnStep, StageStep DEF IInv

-----------------------------------------------------------------------------
(* The theorems.                                                           *)

\* IInv is an invariant of an interface whose application keeps the rules.
THEOREM Inductive == ASSUME Rules PROVE Spec => []IInv
<1>1. Init => IInv
  BY InitIInv
<1>2. IInv /\ [Next]_vars => IInv'
  BY IInvStep
<1> QED  BY <1>1, <1>2, PTL DEF Spec

\* What is left of a command is a sequence of steps and states.
LEMMA TodoType == ASSUME IInv PROVE todo \in Todos
<1>1. << >> \in Todos
  BY DEF Todos
<1> USE StepPlans, StatePlans DEF Begins
<1>2. Idles \/ Starts => todo \in Todos
  BY <1>1 DEF Idles, Starts
<1>3. Connects \/ Stops => todo \in Todos
  BY DEF Connects, Stops
<1>4. Deinits => todo \in Todos
  BY DEF Deinits
<1> QED  BY <1>2, <1>3, <1>4 DEF IInv, StageInv

\* Every variable has its type: no block of net_core.c or net_ip_lwip.c is freed twice.
THEOREM TypeCorrect == ASSUME Rules PROVE Spec => []TypeOK
<1>1. ASSUME IInv PROVE TypeOK
  <2>1. drvs \in {0, 1} /\ netifs \in {0, 1}
    BY <1>1 DEF IInv, OwnInv, Count
  <2>0. MAX_BLOCKS \in Nat \ {0}
    BY NetIfAssumption
  <2>2. MAX_BLOCKS \in Nat /\ MAX_BLOCKS > 0
    BY <2>0
  <2>3. drvs \in 0 .. MAX_BLOCKS /\ netifs \in 0 .. MAX_BLOCKS
    BY <2>1, <2>2
  <2> QED  BY <1>1, <2>3, TodoType DEF IInv, Types, TypeOK, Todos
<1> QED  BY <1>1, Inductive, PTL

\* A driver function finds the lwIP interface it works on, and so does the link thread.
THEOREM NeverFreedInUse == ASSUME Rules PROVE Spec => []NetifInUse
<1>1. ASSUME IInv PROVE NetifInUse
  <2>1. (hasNetif => netifs > 0) /\ thread = hasNetif /\ (~Quiet => hasNetif)
    BY <1>1 DEF IInv, OwnInv, CbInv, Count
  <2>2. ASSUME NEW s \in {"register", "link_up", "set_up", "obtain", "release"}, Doing(s)
        PROVE  hasNetif
    BY <1>1, <2>2, StandsAt DEF Doing, Runs
  <2> QED  BY <2>1, <2>2 DEF NetifInUse
<1> QED  BY <1>1, Inductive, PTL

\* net_ip_add_if never replaces an interface that was not removed.
THEOREM NetifNeverLeaks == ASSUME Rules PROVE Spec => []NoNetifLeak
<1>1. IInv => NoNetifLeak
  BY DEF IInv, OwnInv, Count, NoNetifLeak
<1> QED  BY <1>1, Inductive, PTL

\* The state of net_state.c says whether there is an lwIP interface and a link thread.
THEOREM StateOwns == ASSUME Rules PROVE Spec => []StateOwnsNetif
<1>1. ASSUME IInv PROVE StateOwnsNetif
  <2>1. state \in {"READY", "CONNECTING", "CONNECTED", "DISCONNECTING", "CONNECTION_LOST"} => hasNetif
    BY <1>1 DEF IInv, StageInv, Idles, Starts, Connects, Stops, Deinits, Runs, Up, Linked
  <2>2. Idle /\ state = "INITIALIZED" => ~hasNetif /\ hasDrv
    BY <1>1, EmptyPlan DEF Idle, Idles, Up, Linked
  <2>3. thread = hasNetif
    BY <1>1 DEF IInv, OwnInv
  <2> QED  BY <2>1, <2>2, <2>3 DEF StateOwnsNetif
<1> QED  BY <1>1, Inductive, PTL

\* An interface that was ended has given everything back.
THEOREM DeinitFrees == ASSUME Rules PROVE Spec => []DeinitFreesAll
<1>1. ASSUME IInv PROVE DeinitFreesAll
  <2>1. Idle /\ state = "DEINITIALIZED" => ~hasNetif /\ ~hasDrv
    BY <1>1, EmptyPlan DEF Idle, Idles, Up, Linked
  <2> QED  BY <1>1, <2>1 DEF IInv, OwnInv, Count, DeinitFreesAll
<1> QED  BY <1>1, Inductive, PTL

\* No callback, however late it sets what it decided, cuts a command short or
\* revives an interface that was disconnected.
THEOREM LateReports == ASSUME Rules PROVE Spec => ReportsStayLinked
<1>1. IInv /\ [Next]_vars =>
        [ (\E p \in Tasks : CallbackEvent(p)) =>
            state' = state \/ (state \in Linked /\ state' \in Linked) ]_vars
  BY ReportsStay
<1> QED  BY <1>1, Inductive, PTL DEF Spec, ReportsStayLinked

-----------------------------------------------------------------------------
(* CONNECTED has an address.                                               *)

\* The DHCP client keeps its lease: no event tells that it lost it.
Leased == ~app.leaseLoss

Good == netif.addr # "zero" /\ ipaddr = netif.addr

\* A callback of lwIP or of the link thread that finds the link down will find it
\* down to its end; the application's is in a linked state only with a static address.
LinkInv ==
  /\ at["lwip"] # "off" \/ at["link"] # "off" => netif.link \/ ~cable
  /\ at["app"] # "off" /\ state \in Linked => ~dhcp_mode

\* Task p is about to copy an address that is not zero.
Copies(p) == netif.addr # "zero" /\ at[p] \in {"start", "ip"}

\* Task p is about to report that the link is down.
Loses(p) ==
  /\ ~netif.link /\ ~cable
  /\ \/ at[p] \in {"start", "ip", "ipevent", "link"}
     \/ at[p] = "linkevent" /\ (seen[p] = << "LINK_DOWN", "CONNECTED" >> \/ nested[p])

\* CONNECTED, now or by an event that is under way.
WillConnect(p) == at[p] = "ipevent" /\ seen[p][2] \in {"CONNECTING", "CONNECTED"}
AtStake == state = "CONNECTED" \/ \E p \in Tasks : WillConnect(p)

Mended == Good \/ \E p \in Tasks : Copies(p) \/ Loses(p)

ConnInv == AtStake => Mended

\* LinkInv is kept: a link that is down stays down while a callback of the two threads
\* is under way, since a cable comes back only when all is quiet.
LEMMA LinkStep ==
  ASSUME Rules, Leased, IInv, LinkInv, [Next]_vars
  PROVE  LinkInv'
<1> USE TaskNames DEF LinkInv, core, port, cbs, user, Quiet, AppRuns, Doing, Touches
<1>1. CASE UNCHANGED vars
  BY <1>1 DEF vars
<1>2. CASE NetIfInit
  BY <1>2, AppIsAlone DEF NetIfInit
<1>3. CASE NetIfDeinit
  BY <1>3, AppIsAlone DEF NetIfDeinit
<1>4. CASE SetDhcpMode
  BY <1>4, AppIsAlone DEF SetDhcpMode
<1>5. ASSUME NEW c \in COMMANDS_USED, Command(c) PROVE LinkInv'
  BY <1>5, AppIsAlone DEF Command
<1>6. CASE SetState
  BY <1>6, AppIsAlone DEF SetState
<1>7. CASE Unlist
  BY <1>7 DEF Unlist
<1>8. CASE AddIf
  BY <1>8, AppIsAlone DEF AddIf
<1>9. CASE AddIfFails
  BY <1>9 DEF AddIfFails
<1>10. CASE Register
  BY <1>10, AppIsAlone DEF Register
<1>11. CASE SetFlag
  <2>1. Quiet /\ Touches("app") /\ UNCHANGED << state, cable >>
    BY <1>11, AppIsAlone, Touching DEF SetFlag, LinkUp, LinkDown, SetUp, SetDown
  <2>2. state \in Linked => at' = at
    <3>1. CASE SetUp
      <4>1. state \in Linked => netif.up
        BY <3>1, StandsAt DEF SetUp, Runs, Linked
      <4>2. netif \in Netif
        BY DEF IInv, Types
      <4>3. netif.up => [ netif EXCEPT !.up = TRUE ].up = netif.up
        BY <4>2 DEF Netif
      <4>4. /\ [ netif EXCEPT !.up = TRUE ].link = netif.link
            /\ [ netif EXCEPT !.up = TRUE ].addr = netif.addr
        BY <4>2 DEF Netif
      <4> QED  BY <3>1, <4>1, <4>3, <4>4 DEF SetUp, Changes
    <3>2. CASE LinkUp \/ LinkDown \/ SetDown
      BY <1>11, <3>2, StandsAt DEF LinkUp, LinkDown, SetDown, Linked
    <3> QED  BY <1>11, <3>1, <3>2 DEF SetFlag
  <2> QED  BY <2>1, <2>2 DEF IInv, Types
<1>12. CASE Obtain
  <2>1. Quiet /\ Touches("app") /\ UNCHANGED << state, cable, dhcp_mode >>
    BY <1>12, AppIsAlone, Touching DEF Obtain
  <2>2. dhcp_mode => at' = at
    BY <1>12 DEF Obtain
  <2> QED  BY <2>1, <2>2 DEF IInv, Types
<1>13. CASE ReleaseAddr
  <2>1. Quiet /\ Touches("app") /\ UNCHANGED state /\ state = "DISCONNECTING"
    BY <1>13, AppIsAlone, Touching, StandsAt DEF ReleaseAddr
  <2> QED  BY <2>1 DEF IInv, Types, Linked
<1>14. CASE RemoveIf
  BY <1>14, AppIsAlone DEF RemoveIf
<1>15. CASE Report
  BY <1>15, AppIsAlone DEF Report
<1>16. CASE FreeDrv
  BY <1>16 DEF FreeDrv
<1>17. CASE Cable
  BY <1>17 DEF Cable
<1>18. CASE PollLink
  <2>1. Touches("link") /\ UNCHANGED << state, cable, dhcp_mode >>
    BY <1>18, Touching DEF PollLink
  <2>2. netif'.link = cable
    BY <1>18 DEF PollLink, Changes, WithLink, IInv, Types, Netif
  <2>3. cable \in BOOLEAN
    BY DEF IInv, Types
  <2> QED  BY <2>1, <2>2, <2>3 DEF IInv, Types
<1>19. CASE DhcpBound
  <2>1. Touches("lwip") /\ netif.link /\ UNCHANGED << state, cable, dhcp_mode >>
    BY <1>19, Touching DEF DhcpBound
  <2>2. netif'.link = netif.link
    BY <1>19 DEF DhcpBound, Changes, IInv, Types, Netif
  <2> QED  BY <2>1, <2>2 DEF IInv, Types
<1>20. CASE DhcpLost
  BY <1>20 DEF DhcpLost, Leased
<1>21. ASSUME NEW p \in Tasks, CallbackStart(p) PROVE LinkInv'
  <2>1. \A q \in Tasks : at'[q] # "off" => at[q] # "off"
    BY <1>21 DEF CallbackStart, In, IInv, Types
  <2>2. netif'.link = netif.link
    BY <1>21 DEF CallbackStart, IInv, Types, Netif
  <2> QED  BY <1>21, <2>1, <2>2 DEF CallbackStart
<1>22. ASSUME NEW p \in Tasks, CallbackIp(p) PROVE LinkInv'
  <2>1. \A q \in Tasks : at'[q] # "off" => at[q] # "off"
    BY <1>22 DEF CallbackIp, In, IInv, Types
  <2> QED  BY <1>22, <2>1 DEF CallbackIp
<1>23. ASSUME NEW p \in Tasks, CallbackLink(p) PROVE LinkInv'
  <2>1. \A q \in Tasks : at'[q] # "off" => at[q] # "off"
    BY <1>23 DEF CallbackLink, In, IInv, Types
  <2> QED  BY <1>23, <2>1 DEF CallbackLink
<1>24. ASSUME NEW p \in Tasks, CallbackEvent(p) PROVE LinkInv'
  <2>1. at'["lwip"] # "off" \/ at'["link"] # "off" => at["lwip"] # "off" \/ at["link"] # "off"
    BY <1>24 DEF CallbackEvent, IInv, Types, In
  <2>2. at'["app"] # "off" => at["app"] # "off"
    BY <1>24 DEF CallbackEvent, IInv, Types, In
  <2>3. state' \in Linked => state \in Linked
    BY <1>24, ReportsStay
  <2> QED  BY <1>24, <2>1, <2>2, <2>3 DEF CallbackEvent
<1>25. CASE ConnectFails
  BY <1>25 DEF ConnectFails
<1> QED
  BY <1>1, <1>2, <1>3, <1>4, <1>5, <1>6, <1>7, <1>8, <1>9, <1>10, <1>11, <1>12, <1>13, <1>14,
     <1>15, <1>16, <1>17, <1>18, <1>19, <1>20, <1>21, <1>22, <1>23, <1>24, <1>25
     DEF Next, AppCall, AppStep, CallbackStep

\* While the application runs nothing is under way.
LEMMA QuietGood ==
  ASSUME ConnInv, Quiet, state = "CONNECTED"
  PROVE  Good
  BY DEF ConnInv, AtStake, Mended, Copies, Loses, Quiet

\* A step that leaves the address, the link and the callbacks alone, and makes no
\* state CONNECTED.
LEMMA ConnFrame ==
  ASSUME ConnInv, UNCHANGED << ipaddr, at, seen, nested >>, netif'.addr = netif.addr,
         netif'.link = netif.link, ~cable => ~cable', state' = "CONNECTED" => state = "CONNECTED"
  PROVE  ConnInv'
  BY DEF ConnInv, AtStake, WillConnect, Mended, Good, Copies, Loses

\* An interface that is CONNECTED, or about to be, has callbacks.
LEMMA StakeRuns == ASSUME IInv, AtStake PROVE state \in Linked /\ netif.cb
  BY DEF AtStake, WillConnect, IInv, CbInv, StageInv, Idles, Starts, Connects, Stops, Deinits, Runs, Up, Linked

\* The same for a step of the application that is not CONNECTED.
LEMMA ConnAlone ==
  ASSUME Quiet, at \in [ Tasks -> Places ], at' = at \/ at' = [ at EXCEPT !["app"] = "start" ],
         state' # "CONNECTED"
  PROVE  ConnInv'
  BY DEF ConnInv, AtStake, WillConnect, Quiet, Tasks

\* ConnInv is kept: whatever makes the address wrong in CONNECTED is followed, in some
\* task, by the copy of the address or by the report that the link is down.
LEMMA ConnStep ==
  ASSUME Rules, Leased, IInv, LinkInv, ConnInv, [Next]_vars
  PROVE  ConnInv'
<1> USE TaskNames DEF core, port, cbs, user, AppRuns, Doing
<1>1. CASE UNCHANGED vars
  BY <1>1, ConnFrame DEF vars
<1>2. CASE NetIfInit
  BY <1>2, AppIsAlone, ConnAlone, DriverReports DEF NetIfInit, IInv, Types
<1>3. CASE NetIfDeinit
  BY <1>3, ConnFrame DEF NetIfDeinit
<1>4. CASE SetDhcpMode
  BY <1>4, ConnFrame DEF SetDhcpMode
<1>5. ASSUME NEW c \in COMMANDS_USED, Command(c) PROVE ConnInv'
  BY <1>5, ConnFrame DEF Command
<1>6. CASE SetState
  BY <1>6, AppIsAlone, ConnAlone, StandsAt DEF SetState, NET_STATES, IInv, Types
<1>7. CASE Unlist
  BY <1>7, ConnFrame DEF Unlist
<1>8. CASE AddIf
  BY <1>8, AppIsAlone, ConnAlone, StandsAt DEF AddIf, IInv, Types
<1>9. CASE AddIfFails
  BY <1>9, ConnFrame DEF AddIfFails
<1>10. CASE Register
  BY <1>10, AppIsAlone, ConnAlone, StandsAt DEF Register, IInv, Types
<1>11. CASE SetFlag
  <2>1. Quiet /\ Touches("app") /\ UNCHANGED << state, ipaddr, seen >>
    BY <1>11, AppIsAlone, Touching DEF SetFlag, LinkUp, LinkDown, SetUp, SetDown
  <2>2. netif'.addr = netif.addr
    BY <1>11 DEF SetFlag, LinkUp, LinkDown, SetUp, SetDown, Changes, WithLink, IInv, Types, Netif
  <2>3. CASE state = "CONNECTED"
    BY <2>1, <2>2, <2>3, QuietGood DEF ConnInv, Mended, Good
  <2> QED  BY <2>1, <2>3, ConnAlone DEF Touches, IInv, Types
<1>12. CASE Obtain
  <2>1. Quiet /\ Touches("app") /\ UNCHANGED << state, ipaddr, seen >>
    BY <1>12, AppIsAlone, Touching DEF Obtain
  <2>2. CASE state # "CONNECTED"
    BY <2>1, <2>2, ConnAlone DEF Touches, IInv, Types
  <2>3. CASE state = "CONNECTED" /\ dhcp_mode
    <3>1. netif'.addr = netif.addr
      BY <1>12, <2>3 DEF Obtain, IInv, Types, Netif
    <3> QED  BY <2>1, <2>3, <3>1, QuietGood DEF ConnInv, Mended, Good
  <2>4. CASE state = "CONNECTED" /\ ~dhcp_mode
    <3>1. netif'.addr = "static" /\ Runs
      BY <1>12, <2>4, StandsAt DEF Obtain, Changes, IInv, Types, Netif
    <3>2. CASE netif.addr = "static"
      BY <2>1, <2>4, <3>1, <3>2, QuietGood DEF ConnInv, Mended, Good
    <3>3. CASE netif.addr # "static"
      <4>1. at' = [ at EXCEPT !["app"] = "start" ]
        <5>1. [ netif EXCEPT !.addr = "static" ].cb = netif.cb /\ [ netif EXCEPT !.addr = "static" ].addr = "static"
          BY DEF IInv, Types, Netif
        <5> QED  BY <1>12, <2>4, <3>1, <3>3, <5>1 DEF Obtain, Changes, Runs
      <4>2. Copies("app")'
        BY <3>1, <4>1 DEF Copies, IInv, Types
      <4> QED  BY <4>2 DEF ConnInv, Mended
    <3> QED  BY <3>2, <3>3
  <2> QED  BY <2>2, <2>3, <2>4
<1>13. CASE ReleaseAddr
  BY <1>13, AppIsAlone, ConnAlone, StandsAt, Touching DEF ReleaseAddr, Touches, IInv, Types
<1>14. CASE RemoveIf
  BY <1>14, AppIsAlone, ConnAlone, StandsAt DEF RemoveIf, IInv, Types
<1>15. CASE Report
  BY <1>15, AppIsAlone, ConnAlone, StandsAt, DriverReports DEF Report, IInv, Types
<1>16. CASE FreeDrv
  BY <1>16, ConnFrame DEF FreeDrv
<1>17. CASE Cable
  <2>1. CASE cable
    BY <1>17, <2>1, ConnFrame DEF Cable
  <2>2. CASE ~cable
    <3>1. Quiet /\ UNCHANGED << state, ipaddr, netif, at, seen >>
      BY <1>17, <2>2 DEF Cable
    <3>2. CASE state = "CONNECTED"
      BY <3>1, <3>2, QuietGood DEF ConnInv, Mended, Good
    <3>3. CASE state # "CONNECTED"
      BY <3>1, <3>3, ConnAlone DEF IInv, Types
    <3> QED  BY <3>2, <3>3
  <2> QED  BY <2>1, <2>2
<1>18. CASE PollLink
  <2>1. /\ at["link"] = "off" /\ Touches("link") /\ UNCHANGED << state, ipaddr, seen, nested, cable >>
    BY <1>18, Touching DEF PollLink, In
  <2>2. netif'.link = cable /\ netif'.addr = netif.addr
    BY <1>18 DEF PollLink, Changes, WithLink, IInv, Types, Netif
  <2>3. \A p \in Tasks : at[p] # "off" => at'[p] = at[p]
    BY <2>1 DEF Touches, IInv, Types
  <2>4. at'["link"] \in {"off", "start"} /\ \A p \in Tasks : p # "link" => at'[p] = at[p]
    BY <2>1 DEF Touches, IInv, Types
  <2>5. AtStake' => AtStake
    BY <2>1, <2>4 DEF AtStake, WillConnect
  <2>6. Good => Good'
    BY <2>1, <2>2 DEF Good
  <2>7. \A p \in Tasks : (Copies(p) => Copies(p)') /\ (Loses(p) => Loses(p)')
    BY <2>1, <2>2, <2>3 DEF Copies, Loses
  <2> QED  BY <2>5, <2>6, <2>7 DEF ConnInv, Mended
<1>19. CASE DhcpBound
  <2>1. /\ at["lwip"] = "off" /\ Touches("lwip") /\ UNCHANGED << state, ipaddr, seen, nested, cable >>
        /\ netif.link
    BY <1>19, Touching DEF DhcpBound, In
  <2>2. netif'.addr = "lease" /\ (netif.cb /\ netif.addr # "lease" => at' = [ at EXCEPT !["lwip"] = "start" ])
    BY <1>19 DEF DhcpBound, Changes, IInv, Types, Netif
  <2>3. at'["lwip"] \in {"off", "start"} /\ \A p \in Tasks : p # "lwip" => at'[p] = at[p]
    BY <2>1 DEF Touches, IInv, Types
  <2>4. AtStake' => AtStake /\ netif.cb
    BY <2>1, <2>3, StakeRuns DEF AtStake, WillConnect
  <2>5. CASE netif.cb /\ netif.addr # "lease"
    <3>1. Copies("lwip")'
      BY <2>2, <2>5 DEF Copies, IInv, Types
    <3> QED  BY <3>1 DEF ConnInv, Mended
  <2>6. CASE netif.addr = "lease"
    <3>1. Good => Good'
      BY <2>1, <2>2, <2>6 DEF Good
    <3>2. \A p \in Tasks : ~Loses(p) /\ (Copies(p) => Copies(p)')
      BY <2>1, <2>2, <2>3 DEF Copies, Loses
    <3> QED  BY <2>4, <3>1, <3>2 DEF ConnInv, Mended
  <2> QED  BY <2>4, <2>5, <2>6 DEF ConnInv
<1>20. CASE DhcpLost
  BY <1>20 DEF DhcpLost, Leased
<1>21. ASSUME NEW p \in Tasks, CallbackStart(p) PROVE ConnInv'
  <2>1. /\ at[p] = "start" /\ at' = [ at EXCEPT ![p] = "ip" ]
        /\ UNCHANGED << state, ipaddr, seen, cable, dhcp_mode >>
    BY <1>21 DEF CallbackStart, In
  <2>2. at'[p] = "ip" /\ \A q \in Tasks : q # p => at'[q] = at[q]
    BY <2>1 DEF IInv, Types
  <2>3. \A q \in Tasks : q # p => nested'[q] = nested[q]
    BY <1>21 DEF CallbackStart, IInv, Types
  <2>4. AtStake' => AtStake
    BY <2>1, <2>2 DEF AtStake, WillConnect
  <2>5. netif'.link = netif.link
    BY <1>21 DEF CallbackStart, IInv, Types, Netif
  <2>6. CASE netif'.addr = netif.addr
    <3>1. Good => Good'
      BY <2>1, <2>6 DEF Good
    <3>2. \A q \in Tasks : (Copies(q) => Copies(q)') /\ (Loses(q) => Loses(q)')
      BY <2>1, <2>2, <2>3, <2>5, <2>6 DEF Copies, Loses
    <3> QED  BY <2>4, <3>1, <3>2 DEF ConnInv, Mended
  <2>7. CASE netif'.addr # netif.addr
    <3>1. dhcp_mode /\ ~netif.link
      BY <1>21, <2>7 DEF CallbackStart
    <3>2. AtStake => ~cable
      BY <2>1, <3>1, StakeRuns DEF LinkInv, Tasks
    <3>3. AtStake => Loses(p)'
      BY <2>1, <2>2, <2>5, <3>1, <3>2 DEF Loses
    <3> QED  BY <2>4, <3>3 DEF ConnInv, Mended
  <2> QED  BY <2>6, <2>7
<1>22. ASSUME NEW p \in Tasks, CallbackIp(p) PROVE ConnInv'
  <2>1. /\ at[p] = "ip" /\ at'[p] \in {"ipevent", "link"} /\ UNCHANGED << state, netif, nested, cable >>
        /\ ipaddr' = netif.addr
    BY <1>22 DEF CallbackIp, In, IInv, Types
  <2>2. CASE netif.addr # "zero"
    BY <2>1, <2>2 DEF ConnInv, Mended, Good
  <2>3. CASE netif.addr = "zero"
    <3>1. at'[p] = "link" /\ UNCHANGED seen
      BY <1>22, <2>3 DEF CallbackIp, IInv, Types
    <3>2. \A q \in Tasks : q # p => at'[q] = at[q]
      BY <1>22 DEF CallbackIp, IInv, Types
    <3>3. AtStake' => AtStake
      BY <2>1, <3>1, <3>2 DEF AtStake, WillConnect
    <3>4. \A q \in Tasks : ~Copies(q) /\ (Loses(q) => Loses(q)')
      BY <2>1, <2>3, <3>1, <3>2 DEF Copies, Loses
    <3> QED  BY <2>3, <3>3, <3>4 DEF ConnInv, Mended, Good
  <2> QED  BY <2>2, <2>3
<1>23. ASSUME NEW p \in Tasks, CallbackLink(p) PROVE ConnInv'
  <2>1. /\ at[p] = "link" /\ at'[p] = "linkevent" /\ UNCHANGED << state, ipaddr, netif, nested, cable >>
        /\ seen'[p] = << IF netif.link THEN "LINK_UP" ELSE "LINK_DOWN", state >>
    BY <1>23 DEF CallbackLink, In, IInv, Types
  <2>2. \A q \in Tasks : q # p => at'[q] = at[q] /\ seen'[q] = seen[q]
    BY <1>23 DEF CallbackLink, IInv, Types
  <2>3. AtStake' => AtStake
    BY <2>1, <2>2 DEF AtStake, WillConnect
  <2>4. Good => Good'
    BY <2>1 DEF Good
  <2>5. \A q \in Tasks : (Copies(q) => Copies(q)') /\ (q # p /\ Loses(q) => Loses(q)')
    BY <2>1, <2>2 DEF Copies, Loses
  <2>6. AtStake' /\ Loses(p) => \E q \in Tasks : Loses(q)'
    <3>1. state = "CONNECTED" /\ Loses(p) => Loses(p)'
      BY <2>1 DEF Loses
    <3>2. \A q \in Tasks : WillConnect(q)' /\ Loses(p) => Loses(q)'
      BY <2>1, <2>2 DEF Loses, WillConnect
    <3> QED  BY <2>1, <3>1, <3>2 DEF AtStake
  <2> QED  BY <2>3, <2>4, <2>5, <2>6 DEF ConnInv, Mended
<1>24. ASSUME NEW p \in Tasks, CallbackEvent(p) PROVE ConnInv'
  <2>1. UNCHANGED << ipaddr, netif, cable >>
    BY <1>24 DEF CallbackEvent
  <2>2. \A q \in Tasks : q # p => at'[q] = at[q] /\ seen'[q] = seen[q] /\ nested'[q] = nested[q]
    BY <1>24 DEF CallbackEvent, IInv, Types
  <2>3. Good => Good'
    BY <2>1 DEF Good
  <2>4. \A q \in Tasks : q # p => (Copies(q) => Copies(q)') /\ (Loses(q) => Loses(q)')
    BY <2>1, <2>2 DEF Copies, Loses
  <2>5. ~Copies(p)
    BY <1>24 DEF Copies, CallbackEvent, In
  <2>6. CASE at[p] = "ipevent"
    <3>1. at'[p] = "link"
      BY <1>24, <2>6 DEF CallbackEvent, IInv, Types
    <3>2. state' # state => seen[p][2] \in {"CONNECTING", "CONNECTED"}
      <4>1. seen[p][1] = "IPADDR"
        BY <2>6 DEF IInv, CbInv
      <4> QED  BY <1>24, <4>1, LwipReports DEF CallbackEvent
    <3>3. AtStake' => AtStake
      BY <2>2, <2>6, <3>1, <3>2 DEF AtStake, WillConnect
    <3>4. Loses(p) => Loses(p)'
      BY <2>1, <3>1 DEF Loses
    <3> QED  BY <2>3, <2>4, <2>5, <3>3, <3>4 DEF ConnInv, Mended
  <2>7. CASE at[p] = "linkevent"
    <3>1. at'[p] = IF nested[p] THEN "ip" ELSE "off"
      BY <1>24, <2>7 DEF CallbackEvent, IInv, Types
    <3>2. seen[p][1] \in {"LINK_UP", "LINK_DOWN"}
      BY <2>7 DEF IInv, CbInv
    <3>3. state' = state \/ state' # "CONNECTED"
      BY <1>24, <3>2, LwipReports DEF CallbackEvent
    <3>4. AtStake' => AtStake
      BY <2>2, <3>1, <3>3 DEF AtStake, WillConnect
    <3>5. CASE nested[p]
      <4>1. Loses(p) => Loses(p)'
        BY <2>1, <3>1, <3>5 DEF Loses
      <4> QED  BY <2>3, <2>4, <2>5, <3>4, <4>1 DEF ConnInv, Mended
    <3>6. CASE Loses(p) /\ ~nested[p]
      <4>1. seen[p] = << "LINK_DOWN", "CONNECTED" >> /\ ~netif.link /\ ~cable
        BY <2>7, <3>6 DEF Loses
      <4>2. seen[p][1] = "LINK_DOWN" /\ seen[p][2] = "CONNECTED"
        BY <4>1
      <4>3. state' = "CONNECTION_LOST"
        BY <1>24, <4>2, LwipReports, LostReports DEF CallbackEvent
      <4>4. \A q \in Tasks : WillConnect(q)' => Loses(q)'
        BY <2>1, <2>2, <4>1 DEF Loses, WillConnect
      <4> QED  BY <4>3, <4>4 DEF ConnInv, AtStake, Mended
    <3>7. CASE ~Loses(p)
      BY <2>3, <2>4, <2>5, <3>4, <3>7 DEF ConnInv, Mended
    <3> QED  BY <3>5, <3>6, <3>7
  <2> QED  BY <1>24, <2>6, <2>7 DEF CallbackEvent, In
<1>25. CASE ConnectFails
  BY <1>25, ConnFrame DEF ConnectFails
<1> QED
  BY <1>1, <1>2, <1>3, <1>4, <1>5, <1>6, <1>7, <1>8, <1>9, <1>10, <1>11, <1>12, <1>13, <1>14,
     <1>15, <1>16, <1>17, <1>18, <1>19, <1>20, <1>21, <1>22, <1>23, <1>24, <1>25
     DEF Next, AppCall, AppStep, CallbackStep

\* The application stays the same.
LEMMA SameApp == ASSUME [Next]_vars PROVE UNCHANGED app
  BY DEF Next, AppCall, AppStep, CallbackStep, vars, user, Sent, NetIfInit, NetIfDeinit, SetDhcpMode,
         Command, SetState, Unlist, AddIf, AddIfFails, Register, SetFlag, ConnectFails, Obtain,
         ReleaseAddr, RemoveIf, Report, FreeDrv, Cable, PollLink, DhcpBound, DhcpLost,
         CallbackStart, CallbackIp, CallbackLink, CallbackEvent

\* An interface is CONNECTED only with an address, the one lwIP has, whatever came
\* between the address event, the link event and the states they were read for.
THEOREM AddressWhenConnected == ASSUME Rules PROVE Spec => []ConnectedHasAddress
<1> DEFINE J == Leased => LinkInv /\ ConnInv
<1>1. Init => J
  BY DEF Init, LinkInv, ConnInv, AtStake, WillConnect, Tasks
<1>2. ASSUME [Next]_vars PROVE Leased' = Leased
  BY <1>2, SameApp DEF Leased
<1>3. IInv /\ J /\ [Next]_vars => J'
  BY <1>2, LinkStep, ConnStep
<1>4. J => ConnectedHasAddress
  BY QuietGood DEF Leased, ConnectedHasAddress, Good
<1>5. Spec => []IInv
  BY Inductive
<1> HIDE DEF J
<1> QED  BY <1>1, <1>3, <1>4, <1>5, PTL DEF Spec

=============================================================================
