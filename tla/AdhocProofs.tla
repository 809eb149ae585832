---------------------------- MODULE AdhocProofs ----------------------------
(***************************************************************************)
(* The manager's access-point mode, for any number of requests, losses and *)
(* slots.                                                                  *)
(*                                                                         *)
(* The invariant is where the manager stands.  Until it has joined, its    *)
(* mailbox holds the message of the join and nothing else; from then on    *)
(* that message, the only one with a row that leads out of the access      *)
(* point's state, is gone for good.  Every other message the manager ever  *)
(* gets leads back into that state, by its own row or by the sentinel, and *)
(* such a re-entry is no fresh entry: the previous state is the same one.  *)
(***************************************************************************)
EXTENDS AdhocMode, TaskProofs

\* The messages the manager may find once it has joined.
Later == {Message(Wifi, id) : id \in {"GO_ADHOC", "GO_FOR_IP", "READY"}}

StationHandler(state, fn) ==
  \/ state = "WIFI_JOIN_ST" /\ fn = "wifi_Join_Process"
  \/ state = "WIFI_GOT_IP_ST" /\ fn = "wifi_gotIp_State"
  \/ state = "WIFI_READY_ST" /\ fn = "wifi_ReadyStateProcess"

Waking ==
  /\ at[Wifi] \in {"absent", "loop"}
  /\ st[Wifi] = WifiStatus
  /\ inbox[Wifi] = WifiInbox
  /\ joins = 0
  /\ configured = 0

Joining ==
  /\ at[Wifi] = "wifi_Join_Process"
  /\ st[Wifi].cur = "WIFI_JOIN_ST" /\ st[Wifi].fn = "wifi_Join_Process"
  /\ inbox[Wifi] = << >>
  /\ joins = 0
  /\ configured = 0

\* In the states of a station.
Stationed ==
  /\ StationHandler(st[Wifi].cur, st[Wifi].fn)
  /\ at[Wifi] \in {"loop", st[Wifi].fn}
  /\ inbox[Wifi] \in Seq(Later)
  /\ joins > 0
  /\ configured = 0

\* On the way into access-point mode and in it.
Switching ==
  /\ at[Wifi] = "WiF_Adhoc_Mode"
  /\ st[Wifi].prev # "WIFI_ADHOC_ST"
  /\ configured = 0

Switched ==
  /\ at[Wifi] \in {"loop", "WiF_Adhoc_Mode"}
  /\ st[Wifi].prev = "WIFI_ADHOC_ST"
  /\ configured = 1

AccessPoint ==
  /\ st[Wifi].cur = "WIFI_ADHOC_ST" /\ st[Wifi].fn = "WiF_Adhoc_Mode"
  /\ inbox[Wifi] \in Seq(Later)
  /\ joins > 0
  /\ Switching \/ Switched

Mode ==
  /\ OverTasks(inbox) /\ OverTasks(st) /\ OverTasks(at)
  /\ st[Wifi] = Status(st[Wifi].cur, st[Wifi].prev, st[Wifi].fn)
  /\ joins \in Nat
  /\ Waking \/ Joining \/ Stationed \/ AccessPoint
-----------------------------------------------------------------------------
\* The search through the manager's table.
LEMMA WifiRow ==
  ASSUME NEW state, NEW m, NEW row, row = RowFor(WifiTable, state, m)
  PROVE  \E k \in 1 .. 9 :
           /\ row = WifiTable[k]
           /\ k = 9 \/ Matches(row, state, m)
           /\ \A j \in 1 .. k - 1 : ~ Matches(WifiTable[j], state, m)
<1>1. PICK n : n = 9
  OBVIOUS
<1>2. DOMAIN WifiTable = 1 .. n /\ n \in Nat \ {0}
  BY <1>1 DEF WifiTable
<1>3. \A i \in 1 .. n : IsSentinel(WifiTable[i]) <=> i = n
  BY <1>1 DEF WifiTable, Row, IsSentinel, AnyState, AnInvalidState
<1>4. PICK k \in 1 .. n :
        /\ RowFor(WifiTable, state, m) = WifiTable[k]
        /\ k = n \/ Matches(WifiTable[k], state, m)
        /\ \A j \in 1 .. k - 1 : ~ Matches(WifiTable[j], state, m)
  BY <1>2, <1>3, SomeRow
<1> QED BY <1>1, <1>4

\* The first message of all leads to the join.
LEMMA JoinRow ==
  RowFor(WifiTable, AnyState, Message(Wifi, "GO_JOIN"))
    = Row(AnyState, Wifi, "GO_JOIN", "WIFI_JOIN_ST", "wifi_Join_Process")
<1> DEFINE m == Message(Wifi, "GO_JOIN")
<1>1. PICK row : row = RowFor(WifiTable, AnyState, m)
  OBVIOUS
<1>2. PICK k \in 1 .. 9 :
        /\ row = WifiTable[k]
        /\ k = 9 \/ Matches(row, AnyState, m)
        /\ \A j \in 1 .. k - 1 : ~ Matches(WifiTable[j], AnyState, m)
  BY <1>1, WifiRow
<1>3. Matches(WifiTable[7], AnyState, m)
  BY DEF WifiTable, Row, Message, Matches
<1>4. k # 8 /\ k # 9
  BY <1>2, <1>3
<1>5. k = 7
  BY <1>2, <1>4 DEF WifiTable, Row, Message, Matches, AnyState
<1> QED BY <1>1, <1>2, <1>5 DEF WifiTable

\* A later message leads on to a state of the station or to access-point
\* mode, and out of access-point mode nowhere else.
LEMMA LaterRow ==
  ASSUME NEW state, state # AnyState, NEW m \in Later, NEW row, row = RowFor(WifiTable, state, m)
  PROVE  /\ ~ Keeps(row) /\ row.fn # Null
         /\ StationHandler(row.next, row.fn) \/ (row.next = "WIFI_ADHOC_ST" /\ row.fn = "WiF_Adhoc_Mode")
         /\ state = "WIFI_ADHOC_ST" => row.next = "WIFI_ADHOC_ST"
<1>1. PICK k \in 1 .. 9 : row = WifiTable[k] /\ (k = 9 \/ Matches(row, state, m))
  BY WifiRow
<1>2. m.id \in {"GO_ADHOC", "GO_FOR_IP", "READY"}
  BY DEF Later, Message
<1>3. k \notin {2, 3, 7}
  BY <1>1, <1>2 DEF WifiTable, Row, Matches
<1>4. k \in {1, 4, 5, 6, 8, 9}
  BY <1>3
<1>5. /\ ~ Keeps(row) /\ row.fn # Null
      /\ StationHandler(row.next, row.fn) \/ (row.next = "WIFI_ADHOC_ST" /\ row.fn = "WiF_Adhoc_Mode")
  BY <1>1, <1>4 DEF WifiTable, Row, Keeps, Null, StationHandler, AnyState
<1>6. ASSUME state = "WIFI_ADHOC_ST" PROVE row.next = "WIFI_ADHOC_ST"
  BY <1>1, <1>4, <1>6 DEF WifiTable, Row, Matches, AnyState
<1> QED BY <1>5, <1>6

\* A post to the manager leaves later messages only.
LEMMA LaterPosted ==
  ASSUME OverTasks(inbox), inbox[Wifi] \in Seq(Later), NEW id \in {"GO_ADHOC", "GO_FOR_IP", "READY"}
  PROVE  /\ OverTasks(Posted(Wifi, Wifi, id))
         /\ Posted(Wifi, Wifi, id)[Wifi] \in Seq(Later)
<1>1. Message(Wifi, id) \in Later
  BY DEF Later
<1>2. Append(inbox[Wifi], Message(Wifi, id)) \in Seq(Later)
  BY <1>1
<1>3. /\ OverTasks(Posted(Wifi, Wifi, id))
      /\ Posted(Wifi, Wifi, id)[Wifi] \in {inbox[Wifi], Append(inbox[Wifi], Message(Wifi, id))}
  BY Posting, TasksAssumption
<1> QED BY <1>2, <1>3

LEMMA LaterTaken ==
  ASSUME NEW box \in Seq(Later), box # << >>
  PROVE  Head(box) \in Later /\ Tail(box) \in Seq(Later)
OBVIOUS
-----------------------------------------------------------------------------
LEMMA ModeInit == Init => Mode
<1> SUFFICES ASSUME Init PROVE Mode
  OBVIOUS
<1>1. Wifi \in Module
  BY TasksAssumption
<1>2. st[Wifi] = WifiStatus /\ inbox[Wifi] = WifiInbox /\ at[Wifi] = "absent"
  BY <1>1 DEF Init
<1> QED BY <1>2 DEF Init, Mode, OverTasks, Waking, WifiInit, WifiStatus, Status

\* The manager takes a message.
LEMMA ModeReceives ==
  ASSUME Mode, Receive(Wifi, WifiTable), UNCHANGED <<joins, configured>>
  PROVE  Mode'
<1> DEFINE m == Head(inbox[Wifi])
<1>1. PICK row : row = RowFor(WifiTable, st[Wifi].cur, m)
  OBVIOUS
<1>2. /\ at[Wifi] = "loop" /\ inbox[Wifi] # << >> /\ Wifi \in Module
      /\ st' = [st EXCEPT ![Wifi] = Entered(st[Wifi], row)]
      /\ at' = [at EXCEPT ![Wifi] = IF row.fn = Null THEN "loop" ELSE row.fn]
      /\ inbox' = [inbox EXCEPT ![Wifi] = Tail(inbox[Wifi])]
  BY <1>1, TasksAssumption DEF Receive, Accept
<1>3. /\ OverTasks(inbox') /\ OverTasks(st') /\ OverTasks(at')
      /\ st'[Wifi] = Entered(st[Wifi], row)
      /\ at'[Wifi] = IF row.fn = Null THEN "loop" ELSE row.fn
      /\ inbox'[Wifi] = Tail(inbox[Wifi])
  BY <1>2 DEF Mode, OverTasks
<1>4. CASE Waking
  <2>1. m = Message(Wifi, "GO_JOIN") /\ Tail(inbox[Wifi]) = << >> /\ st[Wifi].cur = AnyState
    BY <1>4 DEF Waking, WifiInbox, WifiStatus, Status
  <2>2. row = Row(AnyState, Wifi, "GO_JOIN", "WIFI_JOIN_ST", "wifi_Join_Process")
    BY <1>1, <2>1, JoinRow
  <2>3. /\ at'[Wifi] = "wifi_Join_Process"
        /\ st'[Wifi] = Status("WIFI_JOIN_ST", AnyState, "wifi_Join_Process")
    BY <1>3, <2>1, <2>2 DEF Row, Entered, Keeps, Null, AnyState
  <2> QED BY <1>3, <1>4, <2>1, <2>3 DEF Mode, Waking, Joining, Status
<1>5. ASSUME inbox[Wifi] \in Seq(Later), st[Wifi].cur # AnyState
      PROVE  /\ inbox'[Wifi] \in Seq(Later)
             /\ st'[Wifi] = Status(row.next, st[Wifi].cur, row.fn)
             /\ at'[Wifi] = row.fn
             /\ \/ StationHandler(row.next, row.fn)
                \/ row.next = "WIFI_ADHOC_ST" /\ row.fn = "WiF_Adhoc_Mode"
             /\ st[Wifi].cur = "WIFI_ADHOC_ST" => row.next = "WIFI_ADHOC_ST"
  <2>1. m \in Later /\ Tail(inbox[Wifi]) \in Seq(Later)
    BY <1>2, <1>5, LaterTaken
  <2>2. /\ ~ Keeps(row) /\ row.fn # Null
        /\ StationHandler(row.next, row.fn) \/ (row.next = "WIFI_ADHOC_ST" /\ row.fn = "WiF_Adhoc_Mode")
        /\ st[Wifi].cur = "WIFI_ADHOC_ST" => row.next = "WIFI_ADHOC_ST"
    BY <1>1, <1>5, <2>1, LaterRow
  <2> QED BY <1>3, <2>1, <2>2 DEF Entered
<1>6. CASE Stationed
  <2>1. inbox[Wifi] \in Seq(Later) /\ st[Wifi].cur # AnyState /\ st[Wifi].cur # "WIFI_ADHOC_ST"
    BY <1>6 DEF Stationed, StationHandler, AnyState
  <2>2. st'[Wifi].cur = row.next /\ st'[Wifi].prev = st[Wifi].cur /\ st'[Wifi].fn = row.fn
    BY <1>5, <2>1 DEF Status
  <2> QED BY <1>3, <1>5, <1>6, <2>1, <2>2 DEF Mode, Stationed, AccessPoint, Switching, Status
<1>7. CASE AccessPoint
  <2>1. inbox[Wifi] \in Seq(Later) /\ st[Wifi].cur # AnyState /\ st[Wifi].cur = "WIFI_ADHOC_ST" /\ configured = 1
    BY <1>2, <1>7 DEF AccessPoint, Switching, Switched, AnyState
  <2>2. /\ st'[Wifi].cur = row.next /\ st'[Wifi].prev = st[Wifi].cur /\ st'[Wifi].fn = row.fn
        /\ row.next = "WIFI_ADHOC_ST" /\ row.fn = "WiF_Adhoc_Mode"
    BY <1>5, <2>1 DEF Status, StationHandler
  <2> QED BY <1>3, <1>5, <1>7, <2>1, <2>2 DEF Mode, AccessPoint, Switched, Status
<1> QED BY <1>2, <1>4, <1>6, <1>7 DEF Mode, Joining

\* The mailbox is empty and the manager's handler is called again.
LEMMA ModeLoops ==
  ASSUME Mode, SelfLoop(Wifi), UNCHANGED <<joins, configured>>
  PROVE  Mode'
<1>1. /\ at[Wifi] = "loop" /\ inbox[Wifi] = << >> /\ st[Wifi].fn # Null /\ Wifi \in Module
      /\ at' = [at EXCEPT ![Wifi] = st[Wifi].fn] /\ UNCHANGED <<inbox, st>>
  BY TasksAssumption DEF SelfLoop, Accept
<1>2. OverTasks(at') /\ at'[Wifi] = st[Wifi].fn
  BY <1>1 DEF Mode, OverTasks
<1>3. ~ Waking
  BY <1>1 DEF Waking, WifiStatus, Status
<1>4. ~ Joining
  BY <1>1 DEF Joining
<1> QED BY <1>1, <1>2, <1>3, <1>4 DEF Mode, Stationed, AccessPoint, Switching, Switched

\* A handler of the manager ends.
LEMMA ModeReturns ==
  ASSUME Mode, NEW box, Return(Wifi, box), OverTasks(box)
  PROVE  /\ OverTasks(inbox') /\ OverTasks(st') /\ OverTasks(at')
         /\ inbox'[Wifi] = box[Wifi]
         /\ st'[Wifi] = Status(st[Wifi].cur, st[Wifi].cur, st[Wifi].fn)
         /\ at'[Wifi] = "loop"
<1>1. /\ Wifi \in Module /\ inbox' = box /\ at' = [at EXCEPT ![Wifi] = "loop"]
      /\ st' = [st EXCEPT ![Wifi].prev = st[Wifi].cur]
  BY TasksAssumption DEF Return
<1>2. OverTasks(st') /\ st'[Wifi] = [st[Wifi] EXCEPT !.prev = st[Wifi].cur]
  BY <1>1 DEF Mode, OverTasks
<1>3. [st[Wifi] EXCEPT !.prev = st[Wifi].cur] = Status(st[Wifi].cur, st[Wifi].cur, st[Wifi].fn)
  BY DEF Mode, Status
<1> QED BY <1>1, <1>2, <1>3 DEF Mode, OverTasks

\* A handler of the station ends: it posts a later message, or nothing.
LEMMA StationReturns ==
  ASSUME Mode, Stationed, NEW box, Return(Wifi, box), OverTasks(box), box[Wifi] \in Seq(Later),
         joins' \in Nat, joins' > 0, UNCHANGED configured
  PROVE  Mode'
<1>1. /\ OverTasks(inbox') /\ OverTasks(st') /\ OverTasks(at')
      /\ inbox'[Wifi] = box[Wifi]
      /\ st'[Wifi] = Status(st[Wifi].cur, st[Wifi].cur, st[Wifi].fn)
      /\ at'[Wifi] = "loop"
  BY ModeReturns
<1> QED BY <1>1 DEF Mode, Stationed, Status

LEMMA ModeJoins ==
  ASSUME Mode, wifi_Join_Process, UNCHANGED configured
  PROVE  Mode'
<1> DEFINE box == Posted(Wifi, Wifi, "GO_FOR_IP")
<1>1. at[Wifi] = "wifi_Join_Process" /\ joins' = joins + 1 /\ Return(Wifi, box)
  BY DEF wifi_Join_Process
<1>2. inbox[Wifi] \in Seq(Later) /\ st[Wifi].cur = "WIFI_JOIN_ST" /\ st[Wifi].fn = "wifi_Join_Process"
      /\ configured = 0 /\ joins \in Nat
  <2>1. << >> \in Seq(Later)
    OBVIOUS
  <2> QED
    BY <1>1, <2>1 DEF Mode, Waking, Joining, Stationed, AccessPoint, Switching, Switched, StationHandler
<1>3. OverTasks(box) /\ box[Wifi] \in Seq(Later)
  BY <1>2, LaterPosted DEF Mode
<1>4. /\ OverTasks(inbox') /\ OverTasks(st') /\ OverTasks(at')
      /\ inbox'[Wifi] = box[Wifi]
      /\ st'[Wifi] = Status("WIFI_JOIN_ST", "WIFI_JOIN_ST", "wifi_Join_Process")
      /\ at'[Wifi] = "loop"
  BY <1>1, <1>2, <1>3, ModeReturns
<1> HIDE DEF box
<1>5. joins' \in Nat /\ joins' > 0
  BY <1>1, <1>2
<1> QED BY <1>2, <1>3, <1>4, <1>5 DEF Mode, Stationed, StationHandler, Status

LEMMA ModeWatches ==
  ASSUME Mode, wifi_gotIp_State \/ ReadyEnters \/ ReadyWatches, UNCHANGED configured
  PROVE  Mode'
<1>1. /\ at[Wifi] \in {"wifi_gotIp_State", "wifi_ReadyStateProcess"} /\ joins' = joins
      /\ \E box \in {inbox, Posted(Wifi, Wifi, "READY"), Posted(Wifi, Tcp, "OPEN_SOCKFD"),
                     Posted(Wifi, Wifi, "GO_FOR_IP")} : Return(Wifi, box)
  BY DEF wifi_gotIp_State, ReadyEnters, ReadyWatches, wifiVars
<1>2. Stationed
  BY <1>1 DEF Mode, Waking, Joining, AccessPoint, Switching, Switched
<1>3. inbox[Wifi] \in Seq(Later) /\ joins > 0 /\ joins \in Nat /\ OverTasks(inbox)
  BY <1>2 DEF Stationed, Mode
<1>4. /\ OverTasks(Posted(Wifi, Wifi, "READY")) /\ Posted(Wifi, Wifi, "READY")[Wifi] \in Seq(Later)
      /\ OverTasks(Posted(Wifi, Wifi, "GO_FOR_IP")) /\ Posted(Wifi, Wifi, "GO_FOR_IP")[Wifi] \in Seq(Later)
  BY <1>3, LaterPosted
<1>5. OverTasks(Posted(Wifi, Tcp, "OPEN_SOCKFD")) /\ Posted(Wifi, Tcp, "OPEN_SOCKFD")[Wifi] \in Seq(Later)
  <2>1. Tcp \in Module /\ Wifi \in Module \ {Tcp}
    BY TasksAssumption
  <2>2. /\ OverTasks(Posted(Wifi, Tcp, "OPEN_SOCKFD"))
        /\ \A u \in Module \ {Tcp} : Posted(Wifi, Tcp, "OPEN_SOCKFD")[u] = inbox[u]
    BY <1>3, <2>1, Posting
  <2> QED BY <1>3, <2>1, <2>2
<1> QED BY <1>1, <1>2, <1>3, <1>4, <1>5, StationReturns

LEMMA ModeConfigures == Mode /\ WiF_Adhoc_Mode => Mode' /\ configured' = 1
<1> SUFFICES ASSUME Mode, WiF_Adhoc_Mode PROVE Mode' /\ configured' = 1
  OBVIOUS
<1>1. /\ at[Wifi] = "WiF_Adhoc_Mode" /\ joins' = joins /\ Return(Wifi, inbox)
      /\ configured' = IF st[Wifi].cur # st[Wifi].prev THEN configured + 1 ELSE configured
  BY DEF WiF_Adhoc_Mode, Fresh
<1>2. AccessPoint
  BY <1>1 DEF Mode, Waking, Joining, Stationed, StationHandler
<1>3. /\ OverTasks(inbox') /\ OverTasks(st') /\ OverTasks(at')
      /\ inbox'[Wifi] = inbox[Wifi]
      /\ st'[Wifi] = Status("WIFI_ADHOC_ST", "WIFI_ADHOC_ST", "WiF_Adhoc_Mode")
      /\ at'[Wifi] = "loop"
  BY <1>1, <1>2, ModeReturns DEF Mode, AccessPoint
<1>4. configured' = 1
  BY <1>1, <1>2 DEF AccessPoint, Switching, Switched
<1> QED BY <1>1, <1>2, <1>3, <1>4 DEF Mode, AccessPoint, Switched, Status

LEMMA ModeStep == Mode /\ [Next]_modeVars => Mode'
<1> SUFFICES ASSUME Mode, [Next]_modeVars PROVE Mode'
  OBVIOUS
<1>0. Wifi \in Module
  BY TasksAssumption
<1>1. CASE Start(Wifi) /\ UNCHANGED <<wifiVars, adhocVars>>
  <2>1. /\ at[Wifi] = "absent" /\ OverTasks(at') /\ at'[Wifi] = "loop"
        /\ UNCHANGED <<inbox, st, joins, configured>>
    BY <1>0, <1>1 DEF Start, Mode, OverTasks, wifiVars, adhocVars
  <2>2. Waking
    BY <2>1 DEF Mode, Joining, Stationed, StationHandler, AccessPoint, Switching, Switched
  <2> QED BY <2>1, <2>2 DEF Mode, Waking
<1>2. CASE AskAdhoc
  <2>1. joins = 1 /\ inbox' = Posted(Wifi, Wifi, "GO_ADHOC") /\ UNCHANGED <<st, at, joins, configured>>
    BY <1>2 DEF AskAdhoc, wifiVars
  <2>2. ~ Waking /\ ~ Joining
    BY <2>1 DEF Waking, Joining
  <2>3. inbox[Wifi] \in Seq(Later) /\ OverTasks(inbox)
    BY <2>2 DEF Mode, Stationed, AccessPoint
  <2>4. OverTasks(inbox') /\ inbox'[Wifi] \in Seq(Later)
    BY <2>1, <2>3, LaterPosted
  <2> QED BY <2>1, <2>2, <2>4 DEF Mode, Stationed, AccessPoint, Switching, Switched
<1>3. CASE WifiPoll /\ UNCHANGED adhocVars
  BY <1>3, ModeReceives, ModeLoops DEF WifiPoll, wifiVars, adhocVars
<1>4. CASE wifi_Join_Process /\ UNCHANGED adhocVars
  BY <1>4, ModeJoins DEF adhocVars
<1>5. CASE (wifi_gotIp_State \/ ReadyEnters \/ ReadyWatches) /\ UNCHANGED adhocVars
  BY <1>5, ModeWatches DEF adhocVars
<1>6. CASE WiF_Adhoc_Mode
  BY <1>6, ModeConfigures
<1>7. CASE UNCHANGED <<taskVars, joins, configured>>
  BY <1>7 DEF Mode, Waking, Joining, Stationed, AccessPoint, Switching, Switched, taskVars
<1>8. CASE ((StaStart \/ StaGotIp \/ StaLost) /\ UNCHANGED adhocVars) \/ LateEvent \/ UNCHANGED modeVars
  BY <1>7, <1>8 DEF StaStart, StaGotIp, StaLost, LateEvent, modeVars, wifiVars, adhocVars
<1> QED BY <1>1, <1>2, <1>3, <1>4, <1>5, <1>6, <1>8 DEF Next

LEMMA ModeInvariant == Spec => []Mode
BY ModeInit, ModeStep, PTL DEF Spec

\* The access point is configured once, whatever is asked for and however
\* often the handler of its state is called.
THEOREM ConfiguresOnce == Spec => []ConfiguredOnce
<1>1. Mode => ConfiguredOnce
  BY DEF Mode, Waking, Joining, Stationed, AccessPoint, Switching, Switched, ConfiguredOnce
<1> QED BY <1>1, ModeInvariant, PTL

\* No row leads out of access-point mode.
THEOREM AdhocStays == Spec => AdhocIsFinal
<1>1. Mode /\ configured > 0 => st[Wifi].cur = "WIFI_ADHOC_ST" /\ at[Wifi] \in {"loop", "WiF_Adhoc_Mode"}
  BY DEF Mode, Waking, Joining, Stationed, AccessPoint, Switching, Switched
<1>2. Mode /\ configured > 0 /\ [Next]_modeVars => (configured > 0)'
  <2> SUFFICES ASSUME Mode, configured > 0, [Next]_modeVars PROVE configured' > 0
    OBVIOUS
  <2>1. CASE WiF_Adhoc_Mode
    BY <2>1, ModeConfigures
  <2>2. CASE UNCHANGED configured
    BY <2>2
  <2> QED BY <2>1, <2>2 DEF Next, AskAdhoc, LateEvent, adhocVars, modeVars
<1> QED BY <1>1, <1>2, ModeInvariant, PTL DEF Spec, AdhocIsFinal
=============================================================================
