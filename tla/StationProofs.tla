--------------------------- MODULE StationProofs ---------------------------
(***************************************************************************)
(* The WiFi manager's protocol, for any number of slots, losses, client    *)
(* cells and sockets: the manager joins once, never has two of its own     *)
(* messages under way, and never takes a message its table has no row for. *)
(*                                                                         *)
(* The invariant is the manager's position in its protocol.  Up to the     *)
(* join the mailbox holds nothing else, so the message of the join is not  *)
(* refused; from then on a refused message is posted again by the          *)
(* self-loop, and it is always the one the present state has a row for.    *)
(***************************************************************************)
EXTENDS Station, TaskProofs

StatusIn(state, fn) == [cur : {state}, prev : WifiState, fn : {fn}]

\* Before the manager is ready nobody talks to the TCP server.
TcpQuiet ==
  /\ inbox[Tcp] = << >>
  /\ st[Tcp].fn = Null
  /\ at[Tcp] \in {"absent", "loop"}

Booting ==
  /\ at[Wifi] \in {"absent", "loop"}
  /\ st[Wifi] = WifiStatus
  /\ inbox[Wifi] = WifiInbox
  /\ joins = 0
  /\ TcpQuiet

Joining ==
  /\ at[Wifi] = "wifi_Join_Process"
  /\ st[Wifi] \in StatusIn("WIFI_JOIN_ST", "wifi_Join_Process")
  /\ inbox[Wifi] = << >>
  /\ joins = 0
  /\ TcpQuiet

Joined ==
  /\ at[Wifi] = "loop"
  /\ st[Wifi] \in StatusIn("WIFI_JOIN_ST", "wifi_Join_Process")
  /\ inbox[Wifi] = <<Message(Wifi, "GO_FOR_IP")>>
  /\ joins = 1

\* In a state whose handler fn waits for the moment to post id.
Waiting(state, fn, id) ==
  /\ st[Wifi] \in StatusIn(state, fn)
  /\ joins = 1
  /\ \/ at[Wifi] = "loop" /\ inbox[Wifi] \in {<< >>, <<Message(Wifi, id)>>}
     \/ at[Wifi] = fn /\ inbox[Wifi] = << >>

WaitsForIp == Waiting("WIFI_GOT_IP_ST", "wifi_gotIp_State", "READY")
WaitsForLoss == Waiting("WIFI_READY_ST", "wifi_ReadyStateProcess", "GO_FOR_IP")

Position ==
  /\ OverTasks(inbox) /\ OverTasks(st) /\ OverTasks(at)
  /\ Booting \/ Joining \/ Joined \/ WaitsForIp \/ WaitsForLoss
-----------------------------------------------------------------------------
\* The search through the manager's table.
LEMMA FirstWifiRow ==
  \A state, m : \A k \in 1 .. 9 :
    /\ IsSentinel(WifiTable[k]) \/ Matches(WifiTable[k], state, m)
    /\ \A j \in 1 .. k - 1 : ~ IsSentinel(WifiTable[j]) /\ ~ Matches(WifiTable[j], state, m)
    => RowFor(WifiTable, state, m) = WifiTable[k]
<1>1. DOMAIN WifiTable = 1 .. 9 /\ 9 \in Nat
  BY DEF WifiTable
<1> SUFFICES ASSUME NEW state, NEW m, NEW k \in 1 .. 9,
                    IsSentinel(WifiTable[k]) \/ Matches(WifiTable[k], state, m),
                    \A j \in 1 .. k - 1 :
                      ~ IsSentinel(WifiTable[j]) /\ ~ Matches(WifiTable[j], state, m)
             PROVE  RowFor(WifiTable, state, m) = WifiTable[k]
  OBVIOUS
<1> QED BY <1>1, FirstRow

\* The rows of the manager's protocol.
LEMMA ManagerRows ==
  /\ RowFor(WifiTable, AnyState, Message(Wifi, "GO_JOIN")) = WifiTable[7]
  /\ RowFor(WifiTable, "WIFI_JOIN_ST", Message(Wifi, "GO_FOR_IP")) = WifiTable[4]
  /\ RowFor(WifiTable, "WIFI_GOT_IP_ST", Message(Wifi, "READY")) = WifiTable[5]
  /\ RowFor(WifiTable, "WIFI_READY_ST", Message(Wifi, "GO_FOR_IP")) = WifiTable[8]
<1> USE DEF WifiTable, Row, Message, Matches, IsSentinel, AnyState, AnInvalidState
<1>2. RowFor(WifiTable, AnyState, Message(Wifi, "GO_JOIN")) = WifiTable[7]
  <2> DEFINE m == Message(Wifi, "GO_JOIN")
  <2>1. 7 \in 1 .. 9 /\ (IsSentinel(WifiTable[7]) \/ Matches(WifiTable[7], AnyState, m))
    OBVIOUS
  <2>2. \A j \in 1 .. 7 - 1 : ~ IsSentinel(WifiTable[j]) /\ ~ Matches(WifiTable[j], AnyState, m)
    OBVIOUS
  <2> HIDE DEF WifiTable, Message, Matches, IsSentinel, AnyState, m
  <2>3. RowFor(WifiTable, AnyState, m) = WifiTable[7]
    BY <2>1, <2>2, FirstWifiRow
  <2> QED BY <2>3 DEF m
<1>3. RowFor(WifiTable, "WIFI_JOIN_ST", Message(Wifi, "GO_FOR_IP")) = WifiTable[4]
  <2> DEFINE m == Message(Wifi, "GO_FOR_IP")
  <2>1. 4 \in 1 .. 9 /\ (IsSentinel(WifiTable[4]) \/ Matches(WifiTable[4], "WIFI_JOIN_ST", m))
    OBVIOUS
  <2>2. \A j \in 1 .. 4 - 1 : ~ IsSentinel(WifiTable[j]) /\ ~ Matches(WifiTable[j], "WIFI_JOIN_ST", m)
    OBVIOUS
  <2> HIDE DEF WifiTable, Message, Matches, IsSentinel, AnyState, m
  <2>3. RowFor(WifiTable, "WIFI_JOIN_ST", m) = WifiTable[4]
    BY <2>1, <2>2, FirstWifiRow
  <2> QED BY <2>3 DEF m
<1>4. RowFor(WifiTable, "WIFI_GOT_IP_ST", Message(Wifi, "READY")) = WifiTable[5]
  <2> DEFINE m == Message(Wifi, "READY")
  <2>1. 5 \in 1 .. 9 /\ (IsSentinel(WifiTable[5]) \/ Matches(WifiTable[5], "WIFI_GOT_IP_ST", m))
    OBVIOUS
  <2>2. \A j \in 1 .. 5 - 1 : ~ IsSentinel(WifiTable[j]) /\ ~ Matches(WifiTable[j], "WIFI_GOT_IP_ST", m)
    OBVIOUS
  <2> HIDE DEF WifiTable, Message, Matches, IsSentinel, AnyState, m
  <2>3. RowFor(WifiTable, "WIFI_GOT_IP_ST", m) = WifiTable[5]
    BY <2>1, <2>2, FirstWifiRow
  <2> QED BY <2>3 DEF m
<1>5. RowFor(WifiTable, "WIFI_READY_ST", Message(Wifi, "GO_FOR_IP")) = WifiTable[8]
  <2> DEFINE m == Message(Wifi, "GO_FOR_IP")
  <2>1. 8 \in 1 .. 9 /\ (IsSentinel(WifiTable[8]) \/ Matches(WifiTable[8], "WIFI_READY_ST", m))
    OBVIOUS
  <2>2. \A j \in 1 .. 8 - 1 : ~ IsSentinel(WifiTable[j]) /\ ~ Matches(WifiTable[j], "WIFI_READY_ST", m)
    OBVIOUS
  <2> HIDE DEF WifiTable, Message, Matches, IsSentinel, AnyState, m
  <2>3. RowFor(WifiTable, "WIFI_READY_ST", m) = WifiTable[8]
    BY <2>1, <2>2, FirstWifiRow
  <2> QED BY <2>3 DEF m
<1> QED BY <1>2, <1>3, <1>4, <1>5

\* What applying those rows does to the manager's status.
LEMMA RowContents ==
  /\ WifiTable[7] = Row(AnyState, Wifi, "GO_JOIN", "WIFI_JOIN_ST", "wifi_Join_Process")
  /\ WifiTable[4] = Row("WIFI_JOIN_ST", Wifi, "GO_FOR_IP", "WIFI_GOT_IP_ST", "wifi_gotIp_State")
  /\ WifiTable[5] = Row("WIFI_GOT_IP_ST", Wifi, "READY", "WIFI_READY_ST", "wifi_ReadyStateProcess")
  /\ WifiTable[8] = Row("WIFI_READY_ST", Wifi, "GO_FOR_IP", "WIFI_GOT_IP_ST", "wifi_gotIp_State")
BY DEF WifiTable
-----------------------------------------------------------------------------
LEMMA Tasks2 == Module = {Wifi, Tcp} /\ Wifi # Tcp /\ NSlots \in Nat /\ NSlots > 0
BY TasksAssumption, StationAssumption

\* In an empty mailbox there is room.
LEMMA Room ==
  ASSUME inbox[Wifi] = << >>, inbox[Tcp] = << >>
  PROVE  Occupied < NSlots
<1>1. 0 \in Nat /\ Len(inbox[Wifi]) \in 0 .. 0 /\ \A t \in Module \ {Wifi} : inbox[t] = << >>
  BY Tasks2
<1>2. Occupied \in 0 .. 0
  BY <1>1, OccupiedByOne, TasksAssumption
<1> QED BY <1>2, Tasks2

\* The steps of the TCP server's task.
TcpMoves == TcpStep \/ AcceptSucceeds \/ AcceptFails

\* It does not move before it is spoken to.
LEMMA QuietIsStill ==
  ASSUME TcpQuiet, TcpMoves
  PROVE  FALSE
<1>1. ~ TcpPoll
  BY DEF TcpQuiet, TcpPoll, Receive, SelfLoop, Accept
<1>2. ~ SocketOpens /\ ~ SocketFails /\ ~ ServerOpens /\ ~ ServerFails /\ ~ ServerGone
  BY DEF TcpQuiet, SocketOpens, SocketFails, ServerOpens, ServerFails, ServerGone
<1>3. ~ AcceptBegins /\ ~ AcceptDone /\ ~ AcceptIdle /\ ~ AcceptSucceeds /\ ~ AcceptFails
  BY DEF TcpQuiet, AcceptBegins, AcceptDone, AcceptIdle, AcceptSucceeds, AcceptFails
<1>4. ~ ReadCell /\ ~ ReadDone /\ ~ Data_Process_State /\ ~ Data_Response_state
  BY DEF TcpQuiet, ReadCell, ReadDone, Data_Process_State, Data_Response_state
<1> QED BY <1>1, <1>2, <1>3, <1>4 DEF TcpMoves, TcpStep

\* What belongs to the manager.
ManagerKept ==
  /\ OverTasks(inbox)' /\ OverTasks(st)' /\ OverTasks(at)'
  /\ inbox'[Wifi] = inbox[Wifi] /\ st'[Wifi] = st[Wifi] /\ at'[Wifi] = at[Wifi]

LEMMA TcpReturn ==
  ASSUME OverTasks(inbox), OverTasks(st), OverTasks(at), NEW box, OverTasks(box),
         box[Wifi] = inbox[Wifi], Return(Tcp, box)
  PROVE  ManagerKept
BY Tasks2 DEF OverTasks, Return, ManagerKept

\* It takes its own messages and posts only to itself.
LEMMA TcpKeepsManager ==
  ASSUME OverTasks(inbox), OverTasks(st), OverTasks(at), TcpMoves
  PROVE  ManagerKept
<1>1. CASE TcpPoll
  <2>1. CASE Receive(Tcp, TcpTable)
    <3> DEFINE row == RowFor(TcpTable, st[Tcp].cur, Head(inbox[Tcp]))
    <3>1. /\ st' = [st EXCEPT ![Tcp] = Entered(@, row)]
          /\ at' = [at EXCEPT ![Tcp] = IF row.fn = Null THEN "loop" ELSE row.fn]
          /\ inbox' = [inbox EXCEPT ![Tcp] = Tail(@)]
      BY <2>1 DEF Receive
    <3> HIDE DEF row
    <3> QED BY <3>1, Tasks2 DEF OverTasks, ManagerKept
  <2>2. CASE SelfLoop(Tcp)
    BY <2>2, Tasks2 DEF SelfLoop, OverTasks, ManagerKept
  <2> QED BY <1>1, <2>1, <2>2 DEF TcpPoll
<1>2. \A id : /\ OverTasks(Posted(Tcp, Tcp, id))
              /\ Posted(Tcp, Tcp, id)[Wifi] = inbox[Wifi]
  BY Posting, Tasks2
<1>3. CASE SocketOpens \/ ServerOpens \/ AcceptDone \/ Data_Process_State \/ Data_Response_state
  <2>1. \E id : Return(Tcp, Posted(Tcp, Tcp, id))
    BY <1>3 DEF SocketOpens, ServerOpens, AcceptDone, Data_Process_State, Data_Response_state
  <2> QED BY <1>2, <2>1, TcpReturn
<1>4. CASE SocketFails \/ ServerFails \/ ServerGone \/ AcceptSucceeds \/ AcceptFails
           \/ AcceptIdle \/ ReadDone
  <2>1. Return(Tcp, inbox)
    BY <1>4 DEF SocketFails, ServerFails, ServerGone, AcceptSucceeds, AcceptFails, AcceptIdle, ReadDone
  <2> QED BY <2>1, TcpReturn
<1>5. CASE AcceptBegins
  BY <1>5, Tasks2 DEF AcceptBegins, OverTasks, ManagerKept
<1>6. CASE ReadCell
  <2>1. inbox' \in {inbox, Posted(Tcp, Tcp, "PROCESS_STATE")} /\ UNCHANGED <<st, at>>
    BY <1>6 DEF ReadCell
  <2> QED BY <1>2, <2>1 DEF OverTasks, ManagerKept
<1> QED BY <1>1, <1>3, <1>4, <1>5, <1>6 DEF TcpMoves, TcpStep
-----------------------------------------------------------------------------
Fn == {Null, "wifi_Join_Process", "wifi_gotIp_State", "wifi_ReadyStateProcess"}

LEMMA Names ==
  /\ {AnyState, "WIFI_JOIN_ST", "WIFI_GOT_IP_ST", "WIFI_READY_ST"} \subseteq WifiState
  /\ AnyState \notin {"WIFI_JOIN_ST", "WIFI_GOT_IP_ST", "WIFI_READY_ST"}
  /\ {"wifi_Join_Process", "wifi_gotIp_State", "wifi_ReadyStateProcess"} \subseteq Fn \ {Null}
<1>1. {AnyState, "WIFI_JOIN_ST", "WIFI_GOT_IP_ST", "WIFI_READY_ST"} \subseteq WifiState
  BY DEF WifiState
<1>2. AnyState \notin {"WIFI_JOIN_ST", "WIFI_GOT_IP_ST", "WIFI_READY_ST"}
  BY DEF AnyState
<1>3. {"wifi_Join_Process", "wifi_gotIp_State", "wifi_ReadyStateProcess"} \subseteq Fn \ {Null}
  BY DEF Fn, Null
<1> QED BY <1>1, <1>2, <1>3

\* Applying a row of the protocol enters its state.
LEMMA Entering ==
  ASSUME NEW status \in [cur : WifiState, prev : WifiState, fn : Fn],
         NEW state, NEW source, NEW id, NEW next \in WifiState \ {AnyState}, NEW fn \in Fn \ {Null}
  PROVE  Entered(status, Row(state, source, id, next, fn)) \in StatusIn(next, fn)
BY DEF Entered, Keeps, Row, Status, StatusIn

\* The end of a handler leaves the manager in its state.
LEMMA ManagerReturn ==
  ASSUME OverTasks(inbox), OverTasks(st), OverTasks(at), NEW box, OverTasks(box),
         NEW state \in WifiState, NEW fn, st[Wifi] \in StatusIn(state, fn), Return(Wifi, box)
  PROVE  /\ OverTasks(inbox)' /\ OverTasks(st)' /\ OverTasks(at)'
         /\ inbox' = box /\ at'[Wifi] = "loop" /\ st'[Wifi] \in StatusIn(state, fn)
         /\ st'[Tcp] = st[Tcp] /\ at'[Tcp] = at[Tcp]
BY Tasks2 DEF OverTasks, Return, StatusIn

\* What the manager takes from the mailbox has a row of its protocol.
LEMMA ManagerReceives ==
  ASSUME Position, Receive(Wifi, WifiTable), UNCHANGED wifiVars
  PROVE  Position'
<1> USE DEF wifiVars
<1>1. /\ at[Wifi] = "loop" /\ inbox[Wifi] # << >>
      /\ inbox' = [inbox EXCEPT ![Wifi] = Tail(@)]
  BY DEF Receive, Accept
<1>2. OverTasks(inbox)' /\ inbox'[Wifi] = Tail(inbox[Wifi]) /\ inbox'[Tcp] = inbox[Tcp]
  BY <1>1, Tasks2 DEF Position, OverTasks
<1>3. ASSUME NEW k, RowFor(WifiTable, st[Wifi].cur, Head(inbox[Wifi])) = WifiTable[k],
             WifiTable[k].fn # Null
      PROVE  /\ OverTasks(st)' /\ st'[Wifi] = Entered(st[Wifi], WifiTable[k]) /\ st'[Tcp] = st[Tcp]
             /\ OverTasks(at)' /\ at'[Wifi] = WifiTable[k].fn /\ at'[Tcp] = at[Tcp]
  BY <1>3, Tasks2 DEF Position, OverTasks, Receive
<1>4. CASE Booting
  <2>1. st[Wifi].cur = AnyState /\ Head(inbox[Wifi]) = Message(Wifi, "GO_JOIN")
    BY <1>4 DEF Booting, WifiStatus, Status, WifiInbox
  <2>2. st[Wifi] \in [cur : WifiState, prev : WifiState, fn : Fn]
    <3>1. "WIFI_IDLE_ST" \in WifiState /\ Null \in Fn
      BY DEF WifiState, Fn
    <3> QED BY <1>4, <3>1, Names DEF Booting, WifiStatus, Status
  <2>3. Entered(st[Wifi], WifiTable[7]) \in StatusIn("WIFI_JOIN_ST", "wifi_Join_Process")
    BY <2>2, RowContents, Entering, Names
  <2>4. WifiTable[7].fn = "wifi_Join_Process" /\ WifiTable[7].fn # Null
    BY RowContents DEF Row, Null
  <2>5. Tail(inbox[Wifi]) = << >>
    BY <1>4 DEF Booting, WifiInbox
  <2>6. Joining'
    BY <1>2, <1>3, <1>4, <2>1, <2>3, <2>4, <2>5, ManagerRows DEF Booting, Joining, TcpQuiet
  <2> QED BY <1>2, <1>3, <2>1, <2>4, <2>6, ManagerRows DEF Position
<1>5. CASE Joining
  BY <1>1, <1>5 DEF Joining
<1>6. ASSUME NEW state \in WifiState, NEW fn \in Fn, NEW id, NEW k,
             st[Wifi] \in StatusIn(state, fn), inbox[Wifi] = <<Message(Wifi, id)>>,
             NEW next \in WifiState \ {AnyState}, NEW nextFn \in Fn \ {Null}, joins = 1,
             RowFor(WifiTable, state, Message(Wifi, id)) = WifiTable[k],
             WifiTable[k] = Row(state, Wifi, id, next, nextFn)
      PROVE  /\ OverTasks(st)' /\ OverTasks(at)'
             /\ \A nextId : Waiting(next, nextFn, nextId)'
  <2>1. st[Wifi].cur = state /\ Head(inbox[Wifi]) = Message(Wifi, id) /\ Tail(inbox[Wifi]) = << >>
    BY <1>6 DEF StatusIn
  <2>2. st[Wifi] \in [cur : WifiState, prev : WifiState, fn : Fn]
    BY <1>6 DEF StatusIn
  <2>3. WifiTable[k].fn = nextFn /\ nextFn # Null
    BY <1>6 DEF Row
  <2>4. Entered(st[Wifi], WifiTable[k]) \in StatusIn(next, nextFn)
    BY <1>6, <2>2, Entering
  <2> QED BY <1>2, <1>3, <1>6, <2>1, <2>3, <2>4 DEF Waiting
<1>7. CASE Joined
  <2>1. /\ st[Wifi] \in StatusIn("WIFI_JOIN_ST", "wifi_Join_Process")
        /\ inbox[Wifi] = <<Message(Wifi, "GO_FOR_IP")>> /\ joins = 1
    BY <1>7 DEF Joined
  <2>2. /\ RowFor(WifiTable, "WIFI_JOIN_ST", Message(Wifi, "GO_FOR_IP")) = WifiTable[4]
        /\ WifiTable[4] = Row("WIFI_JOIN_ST", Wifi, "GO_FOR_IP", "WIFI_GOT_IP_ST", "wifi_gotIp_State")
    BY ManagerRows, RowContents
  <2>3. WaitsForIp' /\ OverTasks(st)' /\ OverTasks(at)'
    BY <1>6, <2>1, <2>2, Names DEF WaitsForIp
  <2> QED BY <1>2, <2>3 DEF Position
<1>8. CASE WaitsForIp
  <2>1. /\ st[Wifi] \in StatusIn("WIFI_GOT_IP_ST", "wifi_gotIp_State")
        /\ inbox[Wifi] = <<Message(Wifi, "READY")>> /\ joins = 1
    BY <1>1, <1>8 DEF WaitsForIp, Waiting
  <2>2. /\ RowFor(WifiTable, "WIFI_GOT_IP_ST", Message(Wifi, "READY")) = WifiTable[5]
        /\ WifiTable[5] = Row("WIFI_GOT_IP_ST", Wifi, "READY", "WIFI_READY_ST", "wifi_ReadyStateProcess")
    BY ManagerRows, RowContents
  <2>3. WaitsForLoss' /\ OverTasks(st)' /\ OverTasks(at)'
    BY <1>6, <2>1, <2>2, Names DEF WaitsForLoss
  <2> QED BY <1>2, <2>3 DEF Position
<1>9. CASE WaitsForLoss
  <2>1. /\ st[Wifi] \in StatusIn("WIFI_READY_ST", "wifi_ReadyStateProcess")
        /\ inbox[Wifi] = <<Message(Wifi, "GO_FOR_IP")>> /\ joins = 1
    BY <1>1, <1>9 DEF WaitsForLoss, Waiting
  <2>2. /\ RowFor(WifiTable, "WIFI_READY_ST", Message(Wifi, "GO_FOR_IP")) = WifiTable[8]
        /\ WifiTable[8] = Row("WIFI_READY_ST", Wifi, "GO_FOR_IP", "WIFI_GOT_IP_ST", "wifi_gotIp_State")
    BY ManagerRows, RowContents
  <2>3. WaitsForIp' /\ OverTasks(st)' /\ OverTasks(at)'
    BY <1>6, <2>1, <2>2, Names DEF WaitsForIp
  <2> QED BY <1>2, <2>3 DEF Position
<1> QED BY <1>4, <1>5, <1>7, <1>8, <1>9 DEF Position

\* With an empty mailbox it calls the handler of its state again.
LEMMA ManagerLoops ==
  ASSUME Position, SelfLoop(Wifi), UNCHANGED wifiVars
  PROVE  Position'
<1>1. /\ at[Wifi] = "loop" /\ inbox[Wifi] = << >> /\ UNCHANGED <<inbox, st>>
      /\ at' = [at EXCEPT ![Wifi] = st[Wifi].fn]
  BY DEF SelfLoop, Accept
<1>2. OverTasks(inbox)' /\ OverTasks(st)' /\ OverTasks(at)' /\ at'[Wifi] = st[Wifi].fn
  BY <1>1, Tasks2 DEF Position, OverTasks
<1>3. ~ Booting /\ ~ Joining /\ ~ Joined
  BY <1>1 DEF Booting, Joining, Joined, WifiInbox
<1>4. CASE WaitsForIp
  BY <1>1, <1>2, <1>4 DEF Position, WaitsForIp, Waiting, StatusIn, wifiVars
<1>5. CASE WaitsForLoss
  BY <1>1, <1>2, <1>5 DEF Position, WaitsForLoss, Waiting, StatusIn, wifiVars
<1> QED BY <1>3, <1>4, <1>5 DEF Position
LEMMA ManagerJoins ==
  ASSUME Position, wifi_Join_Process, UNCHANGED tcpVars
  PROVE  Position'
<1>1. at[Wifi] = "wifi_Join_Process" /\ joins' = joins + 1
      /\ Return(Wifi, Posted(Wifi, Wifi, "GO_FOR_IP"))
  BY DEF wifi_Join_Process
<1>2. Joining
  BY <1>1 DEF Position, Booting, Joining, Joined, WaitsForIp, WaitsForLoss, Waiting
<1>3. /\ OverTasks(Posted(Wifi, Wifi, "GO_FOR_IP"))
      /\ Posted(Wifi, Wifi, "GO_FOR_IP")[Wifi] = <<Message(Wifi, "GO_FOR_IP")>>
  BY <1>2, Posting, Room, Tasks2 DEF Position, Joining, TcpQuiet
<1>4. /\ OverTasks(inbox)' /\ OverTasks(st)' /\ OverTasks(at)'
      /\ inbox' = Posted(Wifi, Wifi, "GO_FOR_IP") /\ at'[Wifi] = "loop"
      /\ st'[Wifi] \in StatusIn("WIFI_JOIN_ST", "wifi_Join_Process")
  BY <1>1, <1>2, <1>3, ManagerReturn, Names DEF Position, Joining
<1>5. Joined'
  BY <1>1, <1>2, <1>3, <1>4 DEF Joining, Joined
<1> QED BY <1>4, <1>5 DEF Position

\* A handler that waits for its moment ends with at most its own message posted.
LEMMA ManagerWaits ==
  ASSUME Position, NEW state \in WifiState, NEW fn, NEW id,
         Waiting(state, fn, id), at[Wifi] = fn, fn # "loop",
         NEW box, Return(Wifi, box), UNCHANGED joins, OverTasks(box),
         box[Wifi] \in {inbox[Wifi], Append(inbox[Wifi], Message(Wifi, id))}
  PROVE  /\ OverTasks(inbox)' /\ OverTasks(st)' /\ OverTasks(at)'
         /\ Waiting(state, fn, id)'
<1>1. inbox[Wifi] = << >> /\ st[Wifi] \in StatusIn(state, fn) /\ joins = 1
  BY DEF Waiting
<1>2. /\ OverTasks(inbox)' /\ OverTasks(st)' /\ OverTasks(at)'
      /\ inbox' = box /\ at'[Wifi] = "loop" /\ st'[Wifi] \in StatusIn(state, fn)
  BY <1>1, ManagerReturn DEF Position
<1>3. Append(<< >>, Message(Wifi, id)) = <<Message(Wifi, id)>>
  OBVIOUS
<1> QED BY <1>1, <1>2, <1>3 DEF Waiting

LEMMA ManagerAsks ==
  ASSUME Position, wifi_gotIp_State
  PROVE  Position'
<1> DEFINE box == IF ip = 1 THEN Posted(Wifi, Wifi, "READY") ELSE inbox
<1>1. at[Wifi] = "wifi_gotIp_State" /\ Return(Wifi, box) /\ UNCHANGED joins
  BY DEF wifi_gotIp_State, wifiVars
<1>2. Waiting("WIFI_GOT_IP_ST", "wifi_gotIp_State", "READY")
  BY <1>1 DEF Position, Booting, Joining, Joined, WaitsForIp, WaitsForLoss, Waiting
<1>3. OverTasks(box) /\ box[Wifi] \in {inbox[Wifi], Append(inbox[Wifi], Message(Wifi, "READY"))}
  BY Posting, Tasks2 DEF Position
<1> HIDE DEF box
<1>4. /\ OverTasks(inbox)' /\ OverTasks(st)' /\ OverTasks(at)'
      /\ Waiting("WIFI_GOT_IP_ST", "wifi_gotIp_State", "READY")'
  BY <1>1, <1>2, <1>3, ManagerWaits, Names
<1> QED BY <1>4 DEF Position, WaitsForIp

LEMMA ManagerWatches ==
  ASSUME Position, ReadyEnters \/ ReadyWatches
  PROVE  Position'
<1>1. at[Wifi] = "wifi_ReadyStateProcess"
  BY DEF ReadyEnters, ReadyWatches
<1>2. Waiting("WIFI_READY_ST", "wifi_ReadyStateProcess", "GO_FOR_IP")
  BY <1>1 DEF Position, Booting, Joining, Joined, WaitsForIp, WaitsForLoss, Waiting
<1>3. PICK box \in {inbox, Posted(Wifi, Wifi, "GO_FOR_IP"), Posted(Wifi, Tcp, "OPEN_SOCKFD")} :
        Return(Wifi, box) /\ UNCHANGED joins
  BY DEF ReadyEnters, ReadyWatches, wifiVars
<1>4. OverTasks(box) /\ box[Wifi] \in {inbox[Wifi], Append(inbox[Wifi], Message(Wifi, "GO_FOR_IP"))}
  <2>1. OverTasks(inbox)
    BY DEF Position
  <2>2. CASE box = inbox
    BY <2>1, <2>2
  <2>3. CASE box = Posted(Wifi, Wifi, "GO_FOR_IP")
    BY <2>1, <2>3, Posting, Tasks2
  <2>4. CASE box = Posted(Wifi, Tcp, "OPEN_SOCKFD")
    BY <2>1, <2>4, Tasks2 DEF OverTasks, Posted
  <2> QED BY <1>3, <2>2, <2>3, <2>4
<1>5. /\ OverTasks(inbox)' /\ OverTasks(st)' /\ OverTasks(at)'
      /\ Waiting("WIFI_READY_ST", "wifi_ReadyStateProcess", "GO_FOR_IP")'
  BY <1>1, <1>2, <1>3, <1>4, ManagerWaits, Names
<1> QED BY <1>5 DEF Position, WaitsForLoss
-----------------------------------------------------------------------------
\* The starts of the two tasks, and everything that happens beside the manager.
LEMMA StartKeepsPosition ==
  ASSUME Position, StartWifi \/ StartTcp
  PROVE  Position'
<1>1. PICK t \in {Wifi, Tcp} : /\ at[t] = "absent"
                               /\ at' = [at EXCEPT ![t] = "loop"]
                               /\ UNCHANGED <<inbox, st, joins>>
  BY DEF StartWifi, StartTcp, Start, wifiVars
<1>2. OverTasks(inbox)' /\ OverTasks(st)' /\ OverTasks(at)'
      /\ at'[t] = "loop" /\ \A u \in Module \ {t} : at'[u] = at[u]
  BY <1>1, Tasks2 DEF Position, OverTasks
<1>3. CASE Booting
  BY <1>1, <1>2, <1>3, Tasks2 DEF Position, Booting, TcpQuiet
<1>4. CASE ~ Booting
  <2>1. at[Wifi] # "absent"
    BY <1>4 DEF Position, Joining, Joined, WaitsForIp, WaitsForLoss, Waiting
  <2>2. at'[Wifi] = at[Wifi] /\ at'[Tcp] = "loop"
    BY <1>1, <1>2, <2>1, Tasks2
  <2> QED BY <1>1, <1>2, <1>4, <2>2
          DEF Position, Joining, Joined, WaitsForIp, WaitsForLoss, Waiting, TcpQuiet
<1> QED BY <1>3, <1>4

LEMMA EventsKeepPosition ==
  ASSUME Position, UNCHANGED <<taskVars, joins>>
  PROVE  Position'
BY DEF Position, OverTasks, Booting, Joining, Joined, WaitsForIp, WaitsForLoss, Waiting, TcpQuiet, taskVars

LEMMA TcpKeepsPosition ==
  ASSUME Position, TcpMoves, UNCHANGED wifiVars
  PROVE  Position'
<1>1. ManagerKept /\ UNCHANGED joins
  BY TcpKeepsManager DEF Position, wifiVars
<1>2. ~ Booting /\ ~ Joining
  BY QuietIsStill DEF Booting, Joining
<1> QED BY <1>1, <1>2 DEF Position, ManagerKept, Joined, WaitsForIp, WaitsForLoss, Waiting

LEMMA PositionInductive ==
  ASSUME Position, [Next]_stationVars
  PROVE  Position'
<1>1. CASE UNCHANGED stationVars
  BY <1>1, EventsKeepPosition DEF stationVars, wifiVars
<1>2. CASE StartWifi \/ StartTcp
  BY <1>2, StartKeepsPosition
<1>3. CASE WifiPoll /\ UNCHANGED tcpVars
  BY <1>3, ManagerReceives, ManagerLoops DEF WifiPoll
<1>4. CASE wifi_Join_Process /\ UNCHANGED tcpVars
  BY <1>4, ManagerJoins
<1>5. CASE wifi_gotIp_State /\ UNCHANGED tcpVars
  BY <1>5, ManagerAsks
<1>6. CASE (ReadyEnters \/ ReadyWatches) /\ UNCHANGED tcpVars
  BY <1>6, ManagerWatches
<1>7. CASE (StaStart \/ StaGotIp \/ StaLost) /\ UNCHANGED tcpVars
  BY <1>7, EventsKeepPosition DEF StaStart, StaGotIp, StaLost
<1>8. CASE TcpMoves /\ UNCHANGED wifiVars
  BY <1>8, TcpKeepsPosition
<1> QED BY <1>1, <1>2, <1>3, <1>4, <1>5, <1>6, <1>7, <1>8 DEF Next, TcpMoves, TcpStep

LEMMA PositionInitially == Init => Position
<1> SUFFICES ASSUME Init PROVE Position
  OBVIOUS
<1>1. OverTasks(inbox) /\ OverTasks(st) /\ OverTasks(at)
  BY DEF Init, OverTasks
<1>2. Booting
  BY Tasks2 DEF Init, Booting, TcpQuiet, WifiInit, TcpStatus, Status
<1> QED BY <1>1, <1>2 DEF Position

LEMMA PositionHolds == Spec => []Position
<1>1. Position /\ [Next]_stationVars => Position'
  BY PositionInductive
<1> QED BY <1>1, PositionInitially, PTL DEF Spec
-----------------------------------------------------------------------------
\* The firmware never aborts for a second join, whatever the mailbox refuses
\* and however often the self-loops run (wifi.c:214).
THEOREM JoinsOnce == Spec => []NeverAborts
<1>1. Position => NeverAborts
  BY DEF Position, NeverAborts, Booting, Joining, Joined, WaitsForIp, WaitsForLoss, Waiting
<1> QED BY <1>1, PositionHolds, PTL

\* The manager never has two messages of its own under way, and none while
\* one of its handlers runs.
THEOREM OneOwnMessage == Spec => []WifiToken
<1>1. Position => WifiToken
  <2> SUFFICES ASSUME Position PROVE WifiToken
    OBVIOUS
  <2>1. inbox[Wifi] = << >> \/ \E m : inbox[Wifi] = <<m>>
    BY DEF Position, Booting, Joining, Joined, WaitsForIp, WaitsForLoss, Waiting, WifiInbox
  <2>2. Len(inbox[Wifi]) <= 1
    <3>1. \A m : Len(<<m>>) = 1
      OBVIOUS
    <3>2. Len(<< >>) = 0
      OBVIOUS
    <3>3. CASE inbox[Wifi] = << >>
      BY <3>2, <3>3
    <3>4. ASSUME NEW m, inbox[Wifi] = <<m>> PROVE Len(inbox[Wifi]) <= 1
      <4>1. Len(inbox[Wifi]) = 1
        BY <3>1, <3>4
      <4> QED BY <4>1
    <3> QED BY <2>1, <3>3, <3>4
  <2>3. at[Wifi] \notin {"absent", "loop"} => inbox[Wifi] = << >>
    BY DEF Position, Booting, Joining, Joined, WaitsForIp, WaitsForLoss, Waiting
  <2> QED BY <2>2, <2>3 DEF WifiToken
<1> QED BY <1>1, PositionHolds, PTL
=============================================================================
