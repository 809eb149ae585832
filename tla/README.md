# TLA+ models of the ESP32 station firmware (My_DEV/main)

The firmware joins a WiFi network, waits for an address, opens a TCP server and
talks between its parts through one mailbox.  These modules model the mailbox
statement by statement, the task engine and all four module tasks handler by handler,
and the way from reset to running tasks.  They prove that the mailbox delivers
exactly once, oldest first, until the one interleaving that can mislead it happens,
that the WiFi manager, the
TCP server, the TCP client and the UDP server keep to their protocols however posts
are refused and handlers repeated, and that no task runs before its surroundings
are prepared.

## 1. Inventory

| Component | Code | State | Operations | Modules |
|---|---|---|---|---|
| Mailbox | `mailbox_main.c:43-166`, `mailbox_main_pri.h` | `sst_mbQueue`: 100 slots (number, addressee, message), running number, counter, mutex | `mailBox_Init`, `..._Change_Req` (post), `..._Change_Accept` (take); `mailbox_Deinit` (178-187) has no caller and is not modelled | `Delivery`, `Mailbox` |
| State-table engine | `mailbox_main.c:201-256` | none of its own | `processStateTable` | `StateTable` |
| Task loop | `wifi.c:50-77` and a copy in each module | the task's `st_gStateStatus_t` | poll, row, handler, self-loop | `Tasks` |
| WiFi manager | `wifi.c` | `gst_IPInfo_State`, `slu8_SateMachine`, its status | join, got-IP, ready and access-point handlers; WiFi and IP event handlers | `WifiManager`, `AdhocMode` |
| TCP server | `TCP_Server.c` | server socket, client cells, `slu8_ListenorAccepState`, its status | socket, bind/listen, accept, read, process, response | `TcpServer` |
| TCP client | `Tcp_Client.c` | its socket, its status | socket, connect, write, read, process, close | `Sockets`, `TcpClient`, `Session` |
| UDP server | `UDP_Server.c` | its socket, its status | socket, bind, receive, process, send, close | `Sockets`, `UdpServer`, `Session` |
| Start-up | `My_Main.c`, `ControlFun.c` | the NVS partition, `lu8_Satus`, `lu8_TaskIndex` | `app_main`, `Main_Process`, `execute_Control_Fun` | `Startup` |
| BLE, connections, DC motor | `Ble.c`, `Connections.c`, `DC_Motor.c` | - | empty; `#if 0`; never called | not modelled |

**Interaction.**  Every module task owns a transition table and a status.  It
polls the mailbox for messages addressed to it, and a message selects a row, a
new state and a handler; handlers post further messages, mostly to their own
task.  With no message the handler of the current state is called again (the
*self-loop*), which is how a handler waits and how it retries.  The WiFi manager
posts to itself and, each time it gets ready, to the TCP server.  The ESP-IDF
event task runs the WiFi and IP event handlers, which share `mu8_IpState` with
the manager's handlers.  The TCP client, the UDP server and access-point mode
each wait for a message that nothing in the repository posts.

**What is hard.**

* Accept scans the queue without the mutex while posts fill it field by field;
  it frees the slot later, with the mutex.  The mutex does not stop the scheduler:
  a tick may switch tasks inside a critical section.  Takes of the mutex may time out after
  50 ticks, and nobody looks at the result (`mailbox_main.c:79`, `152`).
* A message without a row is not dropped: the search ends at the sentinel row
  and applies it (`mailbox_main.c:208-232`).
* Self-loops repeat posts; the join handler must never run twice (`wifi.c:214`);
  the close handlers do run again and again.
* The address comes and goes between a handler's read and its post.
* Posts are refused when the mailbox is full, and no caller notices.  While the
  TCP server waits in `accept`, requests to it stay in the shared mailbox.
* Sockets fail half-way through the opening sequence; descriptors are numbers
  that lwIP gives to the next task that asks.
* A reset may come at any step of start-up, in the middle of an erase too, and a
  tick may run the first module tasks before the others exist.

**What makes each component correct.**  Mailbox: every accepted message is handed
out exactly once, to its addressee, oldest first; the counter never hides one; no
number is one of the two that mean something else; no call hangs.  Engine: no task
meets a message its table does not know.  WiFi manager: joins once, follows the address, never has two of its own
messages under way.  TCP server: reaches `accept` with a listening socket, leaks
none.  Client and UDP server: one socket at a time, talked through only when it is
ready, closed in the end.  Start-up: nobody runs before everything is prepared,
nobody is started twice, and every boot comes up.  `PROJECT.json` lists the
hazards line by line, with the property that covers each.

## 2. Modules

* `Delivery` - what the mailbox promises: a set of messages in transit; a post
  adds one, or is refused when every slot is in use; an accept removes one that is
  addressed to the caller, none younger than what waited for the caller when it
  began, and finds none only if nothing waited then.  A call begins, takes effect in
  one step, and is over.
* `Mailbox` - the queue, one action per statement that touches it: `ReqTake`,
  `ReqFind`/`ReqFull`, `ReqClaim` (line 84), `ReqCount` (86), `ReqWrap` (87-90),
  `ReqAddress` (92), `ReqFill` (93), `ReqValid` (94), `ReqGive`; `AcceptCall` (126),
  `AcceptScan` (one slot), `AcceptNone`/`AcceptCopy`, `AcceptTake`, `AcceptClear`
  (154-156), `AcceptValid` (157), `AcceptGive`.  A tick may switch tasks between any
  two of them.  `GiveTrapsOwnerCheck` is the assertion of the FreeRTOS build.
  `KeepsPromise` is `Delivery!Spec` under the mapping that puts in transit every
  slot that is claimed and filled, up to the step that sets `torn`.
* `StateTable` - rows, the search, the status after a row.
* `Tasks` - the task loop over a mailbox whose operations are single steps and
  whose messages reach each task in order.  `Delivery`, which `Mailbox` implements
  until a scan takes up a half-made slot (`KeepsPromise`), is why this is sound;
  it stops being sound when that happens (finding 1 of section 5).  `Receive` takes a
  message and applies its row, a handler action follows and ends with `Return`;
  `SelfLoop` calls the handler again.
* `WifiManager`, `TcpServer`, `TcpClient`, `UdpServer` - tables, handlers, events.
  One action per handler, or per outcome of a handler; `accept`, `connect`,
  `recv`, `recvfrom` and the reads of client cells are steps of their own, because
  they wait.
* `Station` - WiFi manager, TCP server and event task together: the firmware as
  it runs, since nothing wakes the other two tasks.
* `AdhocMode` - the manager with access-point mode, asked for from outside at any
  moment after the join.
* `Sockets` - the descriptor table of lwIP as the tasks share it: who has a
  descriptor, what its socket is good for; the lowest free one is given next.
  External, after the calls of `src/`.
* `Endpoints` - TCP client and UDP server over one mailbox and one descriptor
  table, asked from outside to open; the TCP server appears as a task that takes
  descriptors.
* `Session` - what a task promises that works one socket at a time (open, get
  ready, talk, close).  Client and UDP server implement it: `ClientKeepsSession`
  and `UdpKeepsSession` are `Session!Spec` under two mappings.
* `Startup` - reset, NVS repair, `mailBox_Init`, the two rounds of
  `execute_Control_Fun`, task priorities, an `accept` the TCP server may not come back
  from.  It ends where `Station` and `Endpoints` begin: `RunsPrepared` is what their `Init` takes for granted.
* `TaskProofs` - lemmas about the engine that the proofs of all task modules cite:
  which row the search finds, what a post, a take and a put-back leave in the
  mailbox, when a post is not refused.
* `MailboxProofs`, `MailboxOrderProofs`, `StationProofs`, `ServerProofs`,
  `EndpointsProofs`, `AdhocProofs`, `StartupProofs` - theorems (section 6).
* `MCMailbox`, `MCStation`, `MCAdhocMode`, `MCEndpoints`, `MCStartup` - instances
  for TLC.

Operators introduced by "Slip" are variants of the definition after them that a
plausible mistake would give; no specification uses them.  `PROJECT.json` pairs
each with a property it breaks.

### What a step stands for

`Mailbox`: a step is a statement of the code.  `x++` and `x--` of the running number
and the counter are one step each, and so is a `memcpy` or `memset`: as long as no
take times out only one task is inside, and nobody else looks at half of one.  With
time-outs two tasks may be inside; there only `TypeOK`, `CallsReturn` and
`MutualExclusion` are looked at, which a lost update of a machine word does not
change, and the wrap that one task misses when the other increments between lines
86 and 87 is in the model (the running number then goes on to the maximum and to
0, as a `u32` does).  The reads of one slot by the scan count as one step, at the read
of the addressee.  `msg` is the number of the post that produced the message, so
exactly-once delivery can be stated; `lstp_Msg` is never NULL in this repository.
`torn` remembers whether a scan ever took up a slot between its number and its
contents (lines 84-93).  `TakeMayTimeOut` says whether a take may give up,
`KeepsPolling` which tasks always come round to their next poll.  A panic ends the
behaviour: all state is in RAM and a reboot starts from `Init`.

`Station`, `AdhocMode`, `Endpoints`: a handler is one step from what it reads to
its post.  It reads variables of its own task, except `mu8_IpState` and the
descriptor table; the event task neither posts nor reads the mailbox, so an event
between the read and the post can be moved behind the post, and a call on a
descriptor is one step of lwIP.  The pause of 100 ticks and the burst limit of five
messages only delay the next poll.  Payloads and client sockets' contents are left
out.  `read` on a zeroed cell is a read of descriptor 0; its result is never looked
at, because it is stored in an unsigned variable.

`Startup`: one step per call of `app_main`, per module in each round, and per pass
of a module's loop; once the manager has joined, the TCP server's pass may stop in
`accept` (`AcceptWaits`) and nobody promises that it goes on.  `Busy` is the
scheduler: `app_main`, priority 1, runs only while every task of priority 5 sleeps.

## 3. Runs

| Run | Bounds | Shows |
|---|---|---|
| `mailbox_delivery` | 2 tasks, 2 slots, 4 posts, `MaxSeq = 4`, no time-outs | no number that means something else, counter, order, refinement of `Delivery`, all until a scan takes up a half-made slot, which is the only way to free a slot that is not one's own |
| `mailbox_races` | 2 tasks, 2 slots, 3 posts, no time-outs, fairness without the polls of the TCP server | mutual exclusion, unique numbers, no slot overwritten; the manager gets its messages though the server may be stuck |
| `mailbox_timeout` | 2 tasks, 1 slot, 3 posts, `MaxSeq = 3`, time-outs, fairness | ranges; every call returns or the owner check stops the chip |
| `mailbox_misdelivery` | 4 posts, no time-outs | **violated**: an accept takes a half-made slot (section 5) |
| `mailbox_unlocked` | 2 posts, time-outs | **violated**: two tasks in the critical section |
| `station` | 2 slots, 4 lost addresses, 2 client cells, 2 sockets, all calls may fail, fairness | types, one join, the manager's token, no leaked server socket, accept on a listener that is kept, a failed opening is final, accepted clients go unread, the manager follows the address, the server comes to accept |
| `station_unmatched` | 2 client cells, no losses | **violated**: the second PROCESS message has no row |
| `adhoc` | 5 slots, 2 losses, 2 requests, fairness | configured once, never left, and reached when asked for |
| `endpoints_alone` | client or UDP server asked up to 3 times, 3 slots, 3 sockets of which others take up to 2, all calls may fail, fairness | both refine `Session`; the UDP server answers once, never recovers from a failed bind; sockets are let go |
| `endpoints_shared` | both asked twice, 3 slots, 3 sockets | types; messages to oneself and sockets stay single |
| `endpoints_stale` | both asked once | **violated**: the self-loop closes the other task's descriptor |
| `startup` | any flash, 2 resets at any step, fairness | prepared before any task, one task per module, everything comes up, with the TCP server in `accept` or not |

**Why the bounds are enough.**  Two slots make the mailbox full, let a slot be
reused by another addressee, and put messages below and above the scan index; two
tasks with the routes of the manager and the server let one post while the other
scans, and the theorems of section 6 cover every number of tasks, slots and posts.
Four posts reuse each slot, and `MaxSeq = 4` starts the numbers over at the fourth
instead of after 2^32 - 2.  With time-outs one slot is enough for two tasks inside,
a give that meets another owner, and a missed wrap: `MaxSeq = 3` is reached by the
second post and passed by the third.
In `Station` two slots are filled by two requests that wait behind `accept`, and
are the only size for which the response handler is reached: it needs the second
PROCESS message of a read round to be refused.  Two client cells are enough for a
second message of a round, two sockets for a server socket and a client.  In
`Endpoints` three slots hold a task's own message beside two requests; three
descriptors are enough for both tasks and a third that takes one away.  Both `Ask`
bounds reach every state of the tables and a request in each of them.  Two resets
interrupt an erase and the repair of what it left.

Limits that showed up while choosing bounds, and that the properties spell out:

* With the server waiting in `accept`, one unanswered request stays behind for
  each return of the address; when they fill the mailbox (100 in the code) the
  manager can no longer leave the ready state.  `WifiTracksIp` excepts a mailbox
  that is full for ever.
* `OneServerSocket` and `ListenerKept` need two slots (with one, a refused post
  makes the self-loop open a second socket), `OneSocketEach` and `NoSecondBind` a
  slot more than the requests to the other task can take.
* A request that meets a task in the middle of its session finds no row, and the
  sentinel takes the handler away; self-loop retries end there.
  `EventuallyAccepting`, `ClientLetsGo` and `UdpLetsGo` except just that state.
* Numbers that start over end the order among messages (`OldestFirst`), not
  exactly-once delivery.
* A half-made slot that a scan took up ends the promises of the mailbox.  `CountExact`,
  `OldestFirst`, `OnlyTornMisleads`, `EventuallyDelivered` and `KeepsPromise` say
  so, and `mailbox_misdelivery` shows what happens then.
* What the manager takes always has a row in its table as long as the mailbox is
  the one of `Tasks`.  The repository's mailbox may hand it a zeroed or a foreign
  message after a half-made slot, and that one falls to the sentinel row, so this
  is not stated as a property; of the server, `TcpMatched` shows it without that.

**Deadlock** is not checked except in `startup`, because the systems really stop:
a task that polls an empty mailbox takes no step that changes state, and the number
of posts, losses and requests is bounded.

## 4. Fairness

`Mailbox!FairSpec`: strong fairness of the steps of every task that is in the middle
of a call, and of the next poll of the tasks in `KeepsPolling`.  A take is enabled
only while the mutex is free, hence strong; the tasks share one priority on one
core, time slicing runs them in turn, and every loop sleeps outside the mutex, so no
task finds it taken for ever.  The TCP server is not in `KeepsPolling`: its loop may
stay in `accept` for ever (`TCP_Server.c:153`).  The manager is: none of its handlers
waits.  Nobody is obliged to start a post.  `Mailbox!TimedSpec` only asks that a task
in a call is run: takes that time out need no more.

`Station!FairSpec`, `AdhocMode!FairSpec`, `Endpoints!FairSpec`: weak fairness of
each task's own steps, of start-up, of the driver's start event and of `connect`,
which lwIP ends with a connection or a time-out.  Getting an address, a client, a
request from outside, an answer and a datagram are not fair: `accept`, `recv` and
`recvfrom` may wait for ever.

`Startup!FairSpec`: weak fairness of each ready task, which runs to its delay or, for
the TCP server, into `accept`, and of the end of a delay.  Nothing ends an `accept`.
The client's and the server's waits in `Endpoints` need requests that nobody makes in
the repository.  `app_main` runs when the others sleep.  Resets are bounded, since a
board that loses power again and again never comes up.

## 5. Disagreements with the code's own statements

1. `ClearsOwnMessage` (`mailbox_misdelivery`): `Req` numbers a slot before it
   writes the addressee (`mailbox_main.c:84-92`).  A switch in between lets another
   task's scan see the slot with its previous addressee.  `OnlyTornMisleads` says
   that this is the only way: no other interleaving makes an accept free a slot that
   is not its own.
2. `MutualExclusion` (`mailbox_unlocked`): the result of the take is ignored, so a task
   whose take timed out works beside the owner of the mutex.
3. `TcpMatched` (`station_unmatched`): after the first client the server posts one
   PROCESS message for each of its zeroed cells; the second has no row in the new
   state and falls through to the sentinel, which leaves the server in
   `E_TCP_SERVER_SOCKFD_ST` without a handler.
4. `ClosesOwn` (`endpoints_stale`): the close handlers keep the descriptor they
   closed and stay the handler of the state, so the self-loop, which
   `UDP_Server.c:214` and `Tcp_Client.c:184` call "not needed", closes it again on
   every idle poll, whoever has it by then.

Read in the code and confirmed by properties that hold: the server never reads from
a client it accepted, because the search for a free cell looks for 0xff in zeroed
cells (`ClientsGoUnread`, `TCP_Server.c:146`); a failed bind or listen is final
(`FailedForGood`, `NoSecondBind`); the UDP server answers one datagram per boot
(`AnswersOnce`).  Not checked but visible in `Startup`: `app_main` ends in a busy
loop above the idle task (`My_Main.c:89`), which the task watchdog of this build
looks at (`sdkconfig:615`), so the watchdog complains for ever.

## 6. Proofs

TLAPS checks these for every value of the constants, under the `ASSUME`s of the
modules that declare the constants (slot indices fit a `u8`, bounds are numbers,
module names differ).

| Module | Theorem | Property | Condition |
|---|---|---|---|
| `MailboxProofs` | `TypeCorrect` | `TypeOK` | none |
| | `OneTaskInside` | `MutualExclusion` | no take times out |
| | `NumbersUsable` | `NumberUsable` | the same |
| | `FreesItsOwn` | `OnlyTornMisleads` | the same |
| | `CounterExact` | `CountExact` | the same |
| `MailboxOrderProofs` | `UniqueNumbers` | `SeqUnique` | no take times out |
| | `NothingOverwritten` | `NoOverwrite` | the same |
| | `OldestOut` | `OldestFirst` | the same |
| | `ExactlyOnce` | `KeepsPromise` | the same |
| `StationProofs` | `JoinsOnce` | `NeverAborts` | none |
| | `OneOwnMessage` | `WifiToken` | none |
| `ServerProofs` | `NoSocketLeaks` | `OneServerSocket` | two slots or more; the code has 100 |
| | `AcceptsListening` | `AcceptsOnListener` | the same |
| | `KeepsListening` | `ListenerKept` | the same |
| | `FailsForGood` | `FailedForGood` | the same |
| | `NobodyIsRead` | `ClientsGoUnread` | the same |
| | `StationTypeCorrect` | `StationTypeOK` | the same |
| `EndpointsProofs` | `EndpointsTypeCorrect` | `EndpointsTypeOK` | none |
| | `TokenUnique` | `OneTokenEach` | none |
| | `AnswersOnlyOnce` | `AnswersOnce` | none |
| | `SocketUnique` | `OneSocketEach` | `Roomy` |
| | `NeverBindsTwice` | `NoSecondBind` | `Roomy` |
| | `ClientSessions` | `ClientKeepsSession` | the UDP server is not in use |
| | `UdpSessions` | `UdpKeepsSession` | the TCP client is not in use |
| `AdhocProofs` | `ConfiguresOnce` | `ConfiguredOnce` | none |
| | `AdhocStays` | `AdhocIsFinal` | none |
| `StartupProofs` | `StartupTypeCorrect` | `StartupTypeOK` | none |
| | `NobodyRunsUnprepared` | `RunsPrepared` | none |
| | `OneTaskPerModule` | `StartedOnce` | none |

All theorems about the mailbox allow a task switch between any two steps.  What a
half-made slot does is part of the properties, not an assumption: `OnlyTornMisleads`,
`CountExact`, `OldestFirst` and `KeepsPromise` speak of behaviours until `torn`,
`SeqUnique` of fewer than `MaxSeq - 1` posts.  That no take times out is an
assumption (`~ TakeMayTimeOut`): a section of a few instructions against 50 ticks.
Nothing enforces it, and `mailbox_unlocked` shows what happens without it.  The
theorems of the task modules are about the atomic mailbox of `Tasks`.

The two conditions of `EndpointsProofs` are needed.  `Roomy`: when both tasks are in
use, the requests to one of them are fewer than the slots (100 in the code).  Without
it they fill the mailbox, the message that takes the other task on after its open is
refused, and its self-loop opens a second socket; TLC finds that with two slots and
two requests.  The refinements of `Session` need that the other task is not in use,
because its repeated close can close this task's socket (finding 4 of section 5).

**Mailbox.**  `OneTaskInside` rests on `Owned`: who is in a critical section owns the
mutex, whatever the scheduler does.  `NumbersUsable` follows the running number from
statement to statement: only between increment and wrap test may it be the maximum,
and only the owner of the mutex is there.  Exactly-once delivery needs four more
parts: `Claims` (a post's slot is free of messages until it is filled, and every
occupied slot is filled or some task's claim), `Picked` (the slot a scan or an accept
picked stays filled and its own until it frees it, unless `torn`), `Numbered` (the
messages are different posts among those accepted) and `Counted`.  The order has two
invariants: `Numbers` (until the numbers start over, a slot's number is that of its
post, and the running number is the next) and `Scanned` (what waited when a scan
began stays in its slot until the scanning task frees it, and the best number so far
bounds every slot the scan has passed).  The refinement of `Delivery` needs them all,
and has one lemma per action that begins a call or takes effect: a refused post finds
as many messages in transit as there are slots (`TransitSize`), and a scan that is
over has passed everything that waited (`AllPassed`).

**Station.**  `WifiToken` is not inductive: that a handler's self-loop never posts
what is already under way depends on which states the manager can be in.
`Position` names them - `Booting`, `Joining`, `Joined`, `WaitsForIp`,
`WaitsForLoss` - each with the row, the handler and the message that belong to it,
and `ManagerRows` says what the table does with each message.  `Server` does the
same for the TCP server: `Before` any socket, `Opened`, `Gone` after a failure,
`Announced`, `Accepting`, `Serving`, each with the server's own messages that may
be under way, while a request may arrive in all of them.  A self-loop after a
refused post would open a second socket, or bind twice; it cannot happen because
the manager has at most one message of its own in the mailbox (`Position`), so a
full mailbox of two slots holds a request that the server takes first
(`RoomForServer`).  That is why the theorems need two slots, and `Station` with one
slot really violates `OneServerSocket`.  The types of the mailbox between the two
need `MailboxBounded` besides.

**Client and UDP server.**  Both tables are chains: each handler posts the one message
that leads to the next, and only a request breaks the chain.  `Follows` says where in
the chain a task is and which message of its own it may have under way; it implies
`OneTokenEach`.  `Queue` counts: every message of a task goes back to a request, so a
mailbox that requests cannot fill has room for the message after the open.  `Knows`
says that a task owns at most the socket it remembers, and is not about to open
another; it needs `Follows`, `Queue` and `Roomy`.  What can never happen again is a
`Trail`: a set of messages and handlers that a task, once inside, does not leave.
The answered server (`Answered`) and the server without a socket (`Bindless`) are two
such trails.  `InSession` is the invariant of the refinement: a task has a ready
socket of its own, or is on the trail before and after one, which no talking handler
is on; and the descriptor it remembers is its own, or it is on a trail without bind
and connect (`NamesOwn`).

**Access-point mode.**  `Mode` says where the manager stands: before the join, in the
join, in a station's states, or in the access point's.  After the join no message is
left whose row leads out of the access point's state, and a message that leads into
it again finds the same previous state, which is what stops the handler.

**Start-up.**  `Prepared` follows `app_main` from call to call and `Main_Process`
from module to module (`Progress`): the tasks created are those before
`control.index` in the table, and everything a task needs was made before the first.

**Only model-checked.**  All liveness (`EventuallyDelivered`, `CallsReturn`, `WifiTracksIp`,
`EventuallyAccepting`, `AdhocHappens`, `ClientLetsGo`, `UdpLetsGo`, `ComesUp`):
fairness is a statement about ENABLED, which the prover does not handle.  Every
safety invariant, action property and refinement of a passing run is a theorem.

## 7. What is left

`Mailbox` composed with `Tasks`, so that the atomic mailbox of `Tasks` becomes a
checked abstraction instead of an argument from `KeepsPromise`;
driver calls that fail during start-up.

**Not modelled.**  `mailbox_Deinit`: nothing in the repository calls it, so nothing
says what the tasks do meanwhile.  Whoever comes to call it should know that it
deletes the mutex (`mailbox_main.c:182`) before it clears the slots and the counter
that gates every accept (183-185): a poll in between may copy an old message and
takes a mutex that is gone.  Printing, chip information, payloads and the texts sent and
received; the non-blocking mode of the server (`E_APP_INIT` always chooses the
other); driver calls that fail for want of memory, which abort; the memory behind
the client table that the store one past its end reaches.  `Ble.c` and `Ble.h` are
empty, `Connections.c` is disabled as a whole, `DC_Motor.c` has no caller and does
not compile (`DC_Motor.h:13`).  `src/My_DEV/MyDevelopment/main` is a copy of
`main/`, byte for byte: the models describe it too, but the map names the lines of
`main/` only, so about half of the repository's implementation lines cannot appear
in it.  The rest of `src/` is build output and what the ESP-IDF example left.
