# A TLA+ model of the network library of park_sense

The repository holds the design documents of a parking node and its gateway
(`docs/`), the binary images of a Zigbee coprocessor, and one body of code: the
STM32 Network Library in `firmware/libs/stm32-network-lib`, about 12 800 lines
of C. This project models that library. Paths below are relative to it.

## The system

| component | source | state it keeps | operations |
|---|---|---|---|
| socket layer | `core/net_socket.c` | `Sockets[]`: status, low-level handle, `cloneserver` | the BSD-like API, called by any task |
| locks | `core/net_os.c`, `net_core.h` | one binary semaphore per slot, one for the table, one for the list of interfaces | `net_lock`, `net_unlock`, init, destroy |
| state machine | `core/net_state.c` | `pnetif->state` | `net_state_manage_event` |
| interface core | `core/net_core.c` | list of interfaces, `NetInitialized` | init, start, connect, disconnect, stop, deinit, wait |
| Ethernet driver and port | `netif/ethernet_if`, `templates/net_conf_ethernet_template.c` | driver block, link thread, `link_status` | `if_start` ... `if_deinit`, `ethernetif_task` |
| lwIP glue | `services/net_ip_lwip.c` | lwIP interface, DHCP flags, copies of the address | add, connect, disconnect, remove, `net_ip_status_cb` |
| DHCP server | `services/net_sdhcp.c` | table of leases, `RunTask`, `SdhcpTask` | `sdhcp_process_request`, create, delete |
| es_wifi driver | `netif/wifi_if/es_wifi` | `WifiChannel[]`: flags of each channel of the module | the socket calls of the driver, init ... deinit |
| mx_wifi, Cypress, st_wifi drivers | `netif/wifi_if/*` | driver block, handle and transmit queue (mx), event flags, link thread and `netif2ifp` (Cypress) | `if_init` ... `if_deinit`, status callbacks |
| TLS | `services/net_mbedtls.c` | TLS context of a slot | start, stop, send, receive |
| ping | `services/net_ping.c` | one socket during a call | `icmp_ping` |

How they interact. Application tasks call the socket layer; it locks a slot,
*unlocks it*, calls the driver of the interface, and locks the slot again. The
commands of the application and the callbacks of the drivers both run
`net_state_manage_event`, which takes no lock. lwIP's thread and the link thread
run `net_ip_status_cb` in the middle of whatever the application does. A WiFi
driver hears from its module in a callback or a thread, and either reports to
the state machine itself (es_wifi, mx_wifi) or changes the link of an lwIP
interface, whose callback reports (Cypress, st_wifi, mx_wifi in bypass mode). TLS sits between
the socket layer and the driver and gives the slot's lock back while it waits.
All interfaces share one list, one set of locks and one semaphore for the state
event. The DHCP server is a task that uses the socket layer.

What is hard. Everything that happens while a slot is unlocked for a driver
call; the two orders in which the table's lock and a slot's lock are taken; the
early returns; the state that is read in a callback and set later; the order in
which address and link events come; failures half way through start and stop;
three tables (slots, channels, TLS contexts) that must agree after every
sequence of calls, with handles that are copied and flags that survive; locks
that one interface creates and another destroys; one signal for many waiters; lost
and repeated datagrams against a table with an off-by-one. The list is
`hazards` in `PROJECT.json`, each at its line.

## The modules

### NetSocket

`Sockets`, `NetMutex` are the code's arrays. Each task has a program counter
`pc[t]` in a call of the API (`op[t]`) on a descriptor (`fd[t]`); consecutive
accesses to shared memory are separate steps, whether or not the code holds a
lock for them. The functions of the API share their phases, which is why the
actions are named after the phases:

| places of `pc` | code | actions |
|---|---|---|
| `valid`, `check` | `is_valid_socket`, `check_low_level_socket`, without the lock | `IsValidSocket`, `CheckLowLevelSocket` |
| `lock` | `net_socket_get_and_lock` | `GetAndLock` |
| `create`, `creating`, `created` | `create_low_level_socket` and what each caller does with its result | `CreateLowLevel`, `PsocketReturns`, `Created`, `SetsockoptKept` |
| `access` | `net_access_control`, `UNLOCK_SOCK` | `AccessGranted`, `AccessDenied`, `FreeBareSlot` |
| `call`, `driver` | the argument is fetched after the unlock; the driver runs | `EnterDriver`, `DriverReturns` |
| `relock`, `post` | `LOCK_SOCK`, what the function does with the result, `UNLOCK_SOCK` | `Relock`, `ConnectPost`, `ClosePost`, `AcceptPost`, `AcceptFailed`, `PlainPost` |
| `array` ... `fill` | `find_free_socket`, `clone_socket` | `ArrayLock`, `Scan`, `TableFull`, `Claim`, `SlotLock`, `FillSocket`, `CloneSocket` |

`CheckFirst`, `CreateUnlocked`, `CreateLocked` say which function has which
phases: `net_sendto` and `net_recvfrom` create the low-level socket *before* they
lock. The driver is external: any call may fail, `pclose` always frees. `lost` is
the part of the interface's state that `net_access_control` looks at. The fields
of a slot that only travel (domain, type, timeouts) are left out.

An application may use a descriptor from two tasks, or not; the code does not
say. `Shared` makes it a parameter. With `Shared = FALSE` no call starts on a
descriptor that another call is using. `BareShutdown` says whether
`net_shutdown` may be called before anything created the low-level socket.

### SocketTable

The abstract specification of the socket layer: each descriptor is free, bare,
attached to one socket of the driver, closing, and free again, one step at a
time. `NetSocket` implements it when no descriptor is used by two calls at once
and the connection holds; the refinement mapping is `LifeOf` and `Table` in
`NetSocket`: a slot is attached from the moment `psocket` returns or the accepted
socket is stored until `pclose` returns, closing until `net_closesocket` has
taken the lock again and freed it. A step of the table is one step of the code,
every other step (all locking, all checks, all other driver calls) changes nothing.

### EsWifi, NetTls, EsSockets

`EsWifi` is the socket part of `net_es_wifi.c`: each function of the driver is an
operator on one entry of `WifiChannel[]` that returns the set of its outcomes.
`NetTls` is `net_mbedtls.c` and the TLS branches of `net_socket.c`, reduced to
the life of a context: `heap` is what is allocated, `tlsData` a pointer into it
that may dangle. `EsSockets` composes the two with `Sockets[]`: one action per
function of the API, executed as a whole, because the interleaving of two calls is the
subject of `NetSocket`; the calls that wait for a peer, accept, receive and
send, are two actions each (`NetAccept` and `AcceptReturns`, ...), and everything else may happen
between them. This is where the pieces meet that are each right alone:
`NetSocket` assumes that `paccept` returns a low-level socket of its own, and
`es_wifi_accept` returns the channel of the listener; `net_closesocket` tells
the driver whether to free the channel or only the connection by `cloneserver`,
which `find_free_socket` does not reset.

`running` in a channel is what the module itself does, external: a server of the
module has one connection at a time, and (`StopMayFail = FALSE`) it stops what it is told
to stop. `role` is what the application uses a slot for.

The code agrees with itself only for an application that keeps rules which no
document states. Each rule is a guard that the constant `Liberties` can lift; the run lifts
none, and the table says what fails when one is lifted:

| liberty | what the application does | fails |
|---|---|---|
| `listener first` | closes a listener while an accepted socket is open | `ChannelOwned`, `ChannelHeld`, `AcceptedTalks` |
| `reused slot` | serves from a slot that an accepted socket once had | `ChannelOwned`, `ChannelHeld` |
| `full table` | waits for a connection there may be no slot for | `PeerHasSocket` |
| `connect again` | goes on with a socket whose `net_connect` failed | `ContextLive` |
| `secure unused` | closes a secure socket that was never connected | `NoContextLeak` |
| `secure server` | makes a listener secure | `ContextLive` |
| `both ways` | sends and receives on one datagram socket | `ChannelOwned` |
| `close busy` | closes or shuts down a socket another call is using | `ChannelHeld`, `AcceptedTalks`, `ContextLive` |
| (`StopMayFail`) | nothing; the module refuses to stop | `ChannelOwned`, `PeerHasSocket` |

One thing the model shows without a property: after a failed `net_connect` the
slot is no longer secure (`core/net_socket.c:413`), so that a second attempt on the same
socket goes without TLS unless the option is set again.

### NetState, NetIf

`NetState` is `net_state.c` as a set of edges << from, event, to, driver call >>,
one operator per function of the code. An event without an edge is ignored,
as in the code; the caller is told `NET_OK`, except in DEINITIALIZED, where it is told
`NET_ERROR_INVALID_STATE`.

`NetIf` is one Ethernet interface from `net_if_init` to `net_if_deinit`.
A command of the application becomes the list `todo` of the steps its driver
function makes; between two of them the link thread or lwIP's thread may run. A
step that changes a flag or the address of the lwIP interface starts
`net_ip_status_cb` *in the task that made it* (`at[p]`), and
`net_state_manage_event` is two steps: `seen[p]` is the state it read,
`CallbackEvent` sets the new one. `nested` is the callback that `dhcp_release`
invokes from inside the callback. `ConnectFails` is the `net_ip_connect` that finds no
static address, and returns with the state at CONNECTING.

`app` is the application, chosen once: when it sends its commands (waiting for each
state, in the documented order, in any order), which values of `dhcp_mode` it uses, whether
it connects without a static address, and whether its network takes leases back
(`leaseLoss`). `Apps` are the applications to look at.

Assumptions, each a constant or a guard: lwIP's thread and the link thread run
above the application (`Above`; the link thread is `osPriorityHigh`, the
priority of lwIP's thread is in `lwipopts.h`, outside the repository, hence
`LwipFirst`); a PHY that sees a cable again negotiates for seconds, longer
than any callback lasts (`Cable`); the DHCP server grants the same address each
time; the failure of `net_ip_add_if` is modelled where the code checks it.

### LwipIf, WifiIf

`LwipIf` is `net_ip_lwip.c` once more, as operators on one interface record, each a
whole call with the callbacks it runs; `NetIf` is about what may come between.
`WifiIf` is one interface on one of the drivers of `netif/wifi_if`: `es`, `mx`,
`mxb` (mx_wifi in bypass mode), `cy`, `st`. An operator named for a function of a driver
is the list of its steps; a command becomes `todo`, as in `NetIf`, and each step
is an action: `Join`, `Ask`, `Leave`, `PowerUp` talk to the module, `AddIf` and
`Glue` to lwIP and the state machine. The module is external: it joins and
loses a network when it likes (`ModuleJoins`, `ModuleLoses`) and its `reports` are heard in order,
later (`Deliver`). Cypress has flags instead, which a thread below the
application's priority turns into link changes (`LinkThread`). For mx in bypass mode the
transmit queue is counted: `low_level_output` takes a reference to each frame,
`PushToDriver` gives it back, in one of `threads` transmit threads. Each connect starts
one more of them and makes the queue anew (`mx_wifi_low_level_init`).

Assumptions: the thread of mx_wifi's host library delivers the reports that came
before the answer to a call (`Answered`); in bypass mode the module sends no
STA_GOT_IP; `netif_add` succeeds once its memory is there (its result is not
looked at by `net_ip_add_if`); Cypress' own leave may raise a flag or not. The run
keeps to what the drivers can do:

| constant | the run | otherwise |
|---|---|---|
| `Restarts` | es, mx, mxb are started twice | st adds a second lwIP interface: `KnownLeaksOnly`; the link thread and `netif2ifp` of cy point to the old one: `InputReachesNetif`, `LossNoticed` |
| `Impatient` | es, mx, cy are disconnected in CONNECTING | mxb adds a second lwIP interface at the next connect: `KnownLeaksOnly`, `ConnectedHasAddress`; st: `Recovers` |
| `Unaddressed` | cy, st may be connected without DHCP and without a static address | mxb stays in CONNECTING, and adds a second lwIP interface at the connect after a disconnect: `KnownLeaksOnly` |
| `Bounces` | FALSE | of an UP and a DOWN that cy's thread finds together it acts on one: `LossNoticed` |

`KnownLeaksOnly` is what is left of "all connection are closed and allocated resources are freed"
(`core/net_core.c:173`), and names each exception; they are finding 7. There is never a
second lwIP interface. After `net_if_deinit` the driver's block is gone, unless cy was
never started, and the lwIP interface is gone, except on st, which has no code to remove it. (A block that a failed
`if_init` forgot is out of reach of any deinit: `drv = "lost"`.)
Of mxb, `threads` threads remain, as many as there were connects, and as many queues; a queue that
was not empty when the next connect replaced it takes its frames with it. No other
frame is lost and none is freed too early: up to the second connect the frames are exactly those
in the queue and with the thread.

What a driver does with a pointer that is NULL is undefined: mxb's input before it has a
handle may reach any interface or none (`get_netif`), and an `st_wifi_if_init` without
memory may do nothing before it fails.

`Recovers` is about st_wifi only, with DHCP. mx_wifi never leaves CONNECTION_LOST by
itself, because nothing of it reports LINK_UP; with a static address no driver on lwIP
gets past CONNECTING again (finding 2).

### NetCore

What the interfaces share: `NetIfList` and the field `next`, the locks (`sets` counts
the sets of semaphores that exist), `NetInitialized`, and the semaphore of the state event.
`net_if_init`, `net_if_deinit` and `net_if_find` are walks of `pc[t]` with a step
at each access; the list is read and written under its lock, everything else is
not. An interface is deinitialized, initialized, or `READY`, which stands for
the states between. `net_if_wait_state` has a clock: `Tick` advances
`elapsed` and the timer `left` of a sleeping task, and `left` is computed modulo
`WORD`. `Signal` comes after `SetState`, as in `set_state`.

Again `Liberties` are the rules of the application that the run keeps:

| liberty | what the application does | fails |
|---|---|---|
| `first at once` | two tasks make the first `net_if_init` at once | `LocksLive` |
| `ends at once` | ends an interface, or fails to init one, while another call runs | `LocksLive`, `ListSound` |
| `fails behind` | a `net_if_init` fails after another interface was appended behind it | `ListSound` (a circle) |
| `used after` | uses an interface after another one was ended | `LocksLive` |
| `again` | `net_if_init` of an interface whose `net_if_deinit` failed | `ListSound` (a circle) |

The two looks `net_if_wait_state` takes at the clock are two actions, `Late` (has the deadline
passed?) and `Sleep` (how much time is left?), and the clock may tick between them. If that passes
the deadline, the difference wraps and the task sleeps for 49 days: `SleepsInTime` is violated
(finding 5). `Overslept` is this state; `WaitReturns` says that the call returns in every
other, whichever task a signal wakes, and the theorem `EndsInTimeOrWrapped` that nothing else
makes a timer end late. The sum `start_time + timeout`, which wraps too and then makes the call return at once,
is not modelled.

### Sdhcp

`szAddressInfo` and `tAddressInfo` are the table of `net_sdhcp.c`. The entry
behind the last one lies on `szAddressInfo`: `sdhcp_addInfo` overwrites it and
then increments either what it wrote or what it had read before, both of which
a compiler may produce; the first is a huge number that is negative as the
`int32_t` of `sdhcp_find_index` for the usual 192.168.x.y (`Overwritten`). The rest of the heap that
the third entry destroys is not modelled. Clients follow RFC 2131 and are
external; `net` keeps every datagram ever sent, so that each may be received
again, later, or never. DECLINE, RELEASE and INFORM change nothing in the code
and are not sent. A request in which this server is named is answered from the
table alone, as in the code; a client that chose another server is not modelled.

### The proof modules

`NetSocket_proofs`, `NetSocketHolders_proofs` and `NetSocketTable_proofs` (each extends the one
before), `NetIf_proofs`, `Sdhcp_proofs`, `NetCore_proofs`, `EsSockets_proofs` and
`WifiIf_proofs` hold the theorems about the module they are named for. See "Proofs".

## Runs

| run | instance | shows |
|---|---|---|
| `socket_serial` | 2 tasks, 2 slots, 2 low-level sockets, 7 functions, descriptors not shared, connected | `LockInv`, `NoCircularWait`, `FdAlive`, `DriverArgOpen`, `NoLowLevelLeak`, `SuccessMeansConnection` hold; `NetSocket` implements `SocketTable` (`ImplementsTable`) |
| `socket_shared` | 2 tasks, 2 slots, 1 low-level socket, socket/recvfrom/close on shared descriptors, connection lost and regained | `FreshSlotIsFree`, `FdAlive` hold and every call returns (`CallReturns`) |
| `socket_lost` | 1 task | `net_connect` returns zero without connecting (findings 1 and 6) |
| `netif` | three applications: any order of commands and both address modes or none, deinit from INITIALIZED only, leases lost or not; one that waits for each state, with DHCP and leases that are lost | the lwIP interface is neither leaked nor used after it is freed; the state agrees with it; late reports change nothing outside CONNECTING, CONNECTED, CONNECTION_LOST; the end frees everything; for the application that waits, a lost connection recovers |
| `netif_static` | static address | a lost connection does not recover (finding 2) |
| `netif_finish` | disconnect, stop, deinit in order, without waiting | nothing is freed when the connection is lost (finding 3) |
| `sdhcp` | 3 clients, 3 addresses, 2 or 1 transactions each | no address leased twice, offers granted and clients served while there is room |
| `sdhcp_three` | the same | the third client is offered an address and refused it (finding 4) |
| `es_sockets` | 3 slots, 2 channels, 2 TLS contexts, 2 tasks that wait | every channel in use has a socket and every socket its channel (`ChannelOwned`, `ChannelHeld`), an accepted socket works until it is closed (`AcceptedTalks`), no connection is left behind (`PeerHasSocket`), contexts neither dangle nor leak (`ContextLive`, `NoContextLeak`) |
| `wifi_if` | 5 drivers, both modes, 2 lwIP interfaces, up to 2 starts and, of mxb, 3 connects | CONNECTED has an address, nothing leaks but what is known to (`KnownLeaksOnly`, finding 7), frames reach the interface of now, a loss is noticed (`LossNoticed`) and on st_wifi made good (`Recovers`) |
| `net_core` | 2 tasks, 2 interfaces, timeouts of 1 and 2 ticks, words of 8 bits | locks exist while they are used, the list is sound, `net_if_wait_state` returns unless its timer has wrapped |
| `net_wait` | 1 task, 1 interface, the same timeouts | the timer wraps when a tick passes the deadline between two looks at the clock (finding 5) |

Bounds. Two tasks are what every race of two actors needs, two slots let a
descriptor be closed and its slot handed to the other task, and one low-level
socket less than slots makes `psocket` and `paccept` run out. The one hazard that needs
three tasks, the deadlock of `net_accept` with a closed listener, is listed and
not covered. One function of each family stands for the others of it:
`SerialOps` and `DataOps` pick those whose phases differ. `NetIf` needs no bound but
`MAX_BLOCKS`, one block more than a correct interface ever holds. `Sdhcp` has one
client more than the table has room, and one transaction more than a client needs to
be bound, so that each may renew, reboot or leave and come back.
Two channels and three slots let a listener, what it accepted and a client
exist at once and the channels run out; two contexts are one for each secure socket that the
channels can carry, and run out too. Each WiFi driver is the initial value of `driver`, so that one
run covers them all; two lwIP interfaces are one more than there should be, four reports
in flight are two changes of mind of the module; of mxb's connects the second loses frames, and the
third lets two threads meet the queue of one (`MAX_THREADS`; after that `net_ip_add_if` fails, as it may). With two interfaces the one that leaves the list is its head or its
end; two waiters let a signal wake the wrong one.
`CHECK_DEADLOCK FALSE`: in `Sdhcp`, clients stop when they have used up their transactions; in
`WifiIf`, an interface that was started as often as it may be and a module that failed to answer
leave nothing to do; in `NetCore`, an interface whose `net_if_deinit` failed is never
initialised again.

Fairness. `NetSocket`: a task that can run runs (weak), and a task that waits on
a semaphore is served though others take it again and again (strong): the kernel
wakes waiters in order. A driver call returns because every low-level call has a
timeout. `NetIf`: a command in progress and a callback go on, the link thread
polls, and a DHCP server that can be reached answers; no fairness on commands or
on the cable. `WifiIf`: a command in progress goes on, reports and flags are heard, and
a DHCP server that can be reached answers; no fairness on the application or on the
module's network. `NetCore`: a task in a call runs, and the clock ticks. `EsSockets` has no
liveness. `Sdhcp`: a client repeats a request until it is processed, and
takes an answer that arrives.

## Findings

1. `net_connect` in CONNECTION_LOST returns 0, "zero in case of success"
   (`net_socket.c:354`), with the slot CONNECTED and no call of the driver.
2. With a static address CONNECTION_LOST does not "return to connected state
   without application specific action" (`net_connect.h:166`).
3. `disconnect, stop, deinit` do not free everything (`net_core.c:173`) if the
   connection is lost when they are called.
4. The DHCP server has room for two of its three addresses (`net_sdhcp.c:23`,
   `:41`, `:232`); the third entry overwrites the count.
5. `net_if_wait_state` may sleep for 49 days instead of "max time to wait in ms"
   (`net_core.c:136`), when a tick passes the deadline between lines 146 and 151.
6. Sockets are numbered from 0, and 0 is returned for a success; "greater than zero in case
   of success, zero or less than zero otherwise" say `net_socket.c:177` and `:253`.
   `SuccessMeansConnection` counts 0 as the success it is.
7. After disconnect, stop and deinit, each successful (`net_core.c:173`), st_wifi keeps its lwIP
   interface (`net_st_wifi.c:133`, `:221`), mx_wifi in bypass mode a thread and a queue for each
   connect (`net_mx_wifi.c:184`), and Cypress the block of an interface that was never
   started (`net_cypress_whd_driver.c:616`).

Not findings, because no document says otherwise, but worth knowing; each is a
hazard with a note. With `LwipFirst = FALSE`, `TypeOK`, `NetifInUse`, `StateOwnsNetif`,
`ConnectedHasAddress`, `ReportsStayLinked` and `DeinitFreesAll` all fail: the
library relies on the priority of lwIP's thread. Where leases
are lost, CONNECTED may be without an address, which `ConnectedHasAddress` excepts.
With a link that flaps faster than a callback runs, `ConnectedHasAddress` and `Recovers` fail. With
descriptors shared by connect, accept, shutdown or two closes, `FdAlive`,
`FreshSlotIsFree` and `DriverArgOpen` fail, and two descriptors may name one low-level
socket. The tables of `EsSockets`, `WifiIf` and `NetCore` above are of the same kind: each line is a rule
the library depends on without saying so.

## Proofs

Every safety property that a run checks is also a theorem, proved by TLAPS for every value of the
constants that the hypotheses below allow; so are the two action properties `NoLowLevelLeak` and
`ReportsStayLinked`, and that `NetSocket` implements `SocketTable`. The assumptions on the constants
(`NetSocketAssumption`, `WifiIfAssumption`, ...) only say that sets are finite where the code has an
array, and that numbers are numbers.

The hypotheses are the rules the library depends on, by name, and a run's instance satisfies each.
They are conditions on constants, about what the application, the module or the scheduler may do, never
about the state and never about what only a driver can see. What goes wrong without them is in the tables of `EsSockets`, `WifiIf` and
`NetCore`, under "Findings", and at the hazards. Some theorems may hold under weaker ones: see the plan.

| module | theorems (the property) | hypothesis |
|---|---|---|
| `NetSocket_proofs` | `TypeCorrect` (`TypeOK`), `LockSafety` (`LockInv`) | none |
| `NetSocketHolders_proofs` | `DescriptorsAlive` (`FdAlive`), `FreshSlots` (`FreshSlotIsFree`), `NoCrossedLocks` (`NoCircularWait`), `SlotHolders`, `HoldersInductive` | `Disciplined`: each descriptor is used by one call at a time and shut down only with a low-level socket, or shared by calls other than accept, connect and shutdown |
| `NetSocketTable_proofs` | `Refinement` (`ImplementsTable`), `NoLeak` (`NoLowLevelLeak`), `DriverArguments` (`DriverArgOpen`), `SuccessIsConnection` (`SuccessMeansConnection`), `TableInductive` | `Steady`: one call at a time, and the connection is not lost |
| `NetIf_proofs` | `TypeCorrect`, `NeverFreedInUse` (`NetifInUse`), `NetifNeverLeaks` (`NoNetifLeak`), `StateOwns` (`StateOwnsNetif`), `DeinitFrees` (`DeinitFreesAll`), `LateReports` (`ReportsStayLinked`), `AddressWhenConnected` (`ConnectedHasAddress`), `Inductive` | `Rules`: lwIP's thread preempts the application, and an interface is ended only in INITIALIZED |
| `Sdhcp_proofs` | `TypeCorrect`, `NoAddressTwice` (`LeasesDistinct`), `Granted` (`GrantedWhileRoom`), `Inductive` | none |
| `NetCore_proofs` | `LocksStayAlive` (`LocksLive`), `TypeCorrect` | `Ordered`: no `first at once`, `ends at once`, `used after` |
| | `EndsInTimeOrWrapped` | none |
| | `ListStaysSound` (`ListSound`) | no liberty |
| `EsSockets_proofs` | `TypeCorrect` | none |
| | `ContextsStayLive` (`ContextLive`), `ContextsAreFreed` (`NoContextLeak`) | `Careful`: none of the liberties `close busy`, `connect again`, `secure unused`, `secure server` |
| | `NoChannelLost` (`ChannelOwned`), `ChannelsAreHeld` (`ChannelHeld`), `AcceptedCanTalk` (`AcceptedTalks`) | `Tidy`: the module stops what it is told to; none of `close busy`, `listener first`, `reused slot`, `both ways` |
| | `PeersHaveSockets` (`PeerHasSocket`) | `Tidy`, and no `full table` |
| `WifiIf_proofs` | `TypeCorrect` | none |
| | `AddressWhenConnected` (`ConnectedHasAddress`) | `Patient`: mxb is not disconnected in CONNECTING, nor connected without an address |
| | `InputFindsNetif` (`InputReachesNetif`) | `Patient`, and cy is started once |
| | `OnlyKnownLeaks` (`KnownLeaksOnly`) | `Patient`, and st is started once |

No property of the runs is inductive as it stands. What each proof adds:

- `NetSocket`, types and locks: that a task inside a call has a descriptor, that one that
  claims a slot has found one, and which functions create the low-level socket with the lock held
  (`PcInv`). In `LockStep` each action leaves the other tasks' locks alone (`OthersKeep`)
  and does one of three things with each lock: nothing, give back one it holds, take one that is free.
- `NetSocket`, holders: a slot is alive exactly while one of three stands for it, the application, the call that is
  handing it out, or the call that is closing it, and never two (`HolderInv`).
  This is what the unlocked parts of the code rely on without saying so. `FreshSlotIsFree` and
  `HolderInv` need each other; with unshared descriptors, `AloneInv` says that two calls work on two slots.
- `NetSocket`, table: what each call knows of its slot at each place, above all that the argument it
  fetched after `UNLOCK_SOCK` is still the slot's (`SlotAtInv`), and that a low-level socket is owned by
  one slot or carried by one `net_accept` (`OwnerInv`). The refinement is one lemma per kind of step: one of `SocketTable`'s
  actions, or a stutter.
- `Sdhcp`: the table's entries are never changed, so that what an ACK says, however late it comes, is still
  what the table says (`GrantInv`); the entry behind the last one is the exception, and its
  address is what became of the count. The proof covers the overflow.
- `NetIf`: what is left of a command says which states the interface may be in and what it
  owns (`StageInv`). That holds because a callback runs only while the interface exists, and because what it
  has read of the state may be old but only within CONNECTING, CONNECTED, CONNECTION_LOST (`CbInv`). For
  `ConnectedHasAddress`: either the address is right, or a callback that will put it right or take the state back
  is under way (`ConnInv`).
- `NetCore`: whoever makes the locks is alone before they exist, whoever destroys them is alone while it does
  (`AloneInv`); the list is a row of distinct interfaces from `NetIfList` to the end (`ListInv`), each of which is
  either not being ended or is the one the walk will find. The function `Nth` of the model is recursive; what is proved of it goes
  by the least element of a set of numbers, since the library's induction rule cannot be instantiated here.
  A timer is what is left of its timeout, or has wrapped (`TimerInv`).
- `EsSockets`: each function of the API is first described by what it leaves of its slot, its channel and its
  context; the invariants only look at the descriptions. A slot that has a context has one of its own (`ContextInv`). Slots and
  channels agree: what a slot's role demands of its channel (`FitsInv`), two slots on one channel are a listener and its peer
  (`PairInv`), a channel in use has a slot that is no peer (`OwnerInv`), what the module runs (`RunsInv`, `PeerInv`). That an accepted
  connection gets a slot is a matter of counting: there are as many free slots as accepts that wait (`RoomInv`).
- `WifiIf`: the stages once more, for each driver that uses lwIP (`Stage_mxb`, `Stage_cy`, `Stage_st`), together
  with what the module may still report after it has left (`QuietInv`), who has entries in `netif2ifp` (`EntryInv`), from when to when mxb
  has a handle (`HandleInv`), and where the frames of its first connect are (`TxInv`).

TLC checked each strengthened invariant before it was proved, on the runs' instances and on larger or less
restricted ones, for instance with three interfaces, or with a module of cy that changes its mind:

| invariant of | distinct states |
|---|---|
| `NetSocket` (serial; serial with losses, holders only; shared) | 937 000; 4 160 000; 303 000 |
| `NetIf` (the run's) | 26 923 |
| `Sdhcp` | 85 660 |
| `NetCore` (the run's; three interfaces and a timeout of 1) | 393 434; 1 885 193 |
| `EsSockets` | 1 793 648 |
| `WifiIf` (the run's; `Bounces = TRUE` and two threads) | 125 415; 48 997 |

Only model-checked is liveness: `CallReturns`, `Recovers`, `LossNoticed`, `WaitReturns` and `Served`. The prover
handles neither fairness nor ENABLED. The findings are counterexamples, and stay with TLC too.

In `LwipIf`, `Changed` is a function of a pair because the provers do not
support functions with two arguments.

## Not modelled

`components` in `PROJECT.json` names every part with the reason.

- `RunTask` and `SdhcpTask`, the life of the DHCP server's task, and the leases a client
  keeps when the service restarts.
- Of es_wifi: scanning, DNS, ping, addresses, ports and timeouts of a channel, and
  `check_connection_lost`, which only notifies the application. `localport` and the
  timeouts survive in a channel that is given to another socket; no property is about
  them. The parser of the module's answers is not part of the repository.
- Of mx_wifi, Cypress and st_wifi: scanning, the copying of frames, and the socket calls of
  mx_wifi, which have no state in the driver.
- Of TLS: certificates, the handshake, and two tasks inside one mbedTLS context at once, which
  the BIO functions allow when one task sends and another receives.
- Ping, address conversions, class extensions, the lwIP socket shims and frame I/O have
  no state that outlives a call. The H7 port repeats the Ethernet port.
- The memory tracing of `net_os.c`. The configuration templates are data.
- The parking node and gateway exist only as documents, the coprocessor only as binaries.

## Plan

1. Done: `NetSocket` and its locks; `NetState`, `NetIf`; `Sdhcp`; `EsWifi`, `NetTls`,
   `EsSockets`; `LwipIf`, `WifiIf`; `NetCore`.
2. Done: a theorem for every safety property the runs check, and the refinement of `SocketTable`.
3. Weaker hypotheses where the code allows them: `DriverArguments` without `~LinkLoss` for calls other than
   accept, `ListStaysSound` with the liberties that only touch the locks.
4. `SdhcpService`: create, delete, `RunTask`, two tasks.
