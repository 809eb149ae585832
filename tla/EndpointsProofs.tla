-------------------------- MODULE EndpointsProofs --------------------------
(***************************************************************************)
(* The TCP client and the UDP server, for any number of descriptors, slots *)
(* and requests.                                                           *)
(*                                                                         *)
(* The tables of both tasks are chains of handlers, each of which posts    *)
(* the one message that leads to the next; only a request from outside     *)
(* breaks the chain.  The invariant says where in the chain a task is and  *)
(* which message it may have under way (Follows), that each of its         *)
(* messages goes back to a request (Queue), and what it knows of its       *)
(* socket (Knows).                                                         *)
(***************************************************************************)
EXTENDS Endpoints, TaskProofs

\* The handlers of a task, and the one that opens its socket.
Handlers(t) ==
  IF t = Client
  THEN {"Tcp_Client_SockFd_Open", "Tcp_Client_Connect", "Tcp_Client_WriteToServer",
        "Tcp_Client_ReadFromServer", "Tcp_Client_Process", "Tcp_Client_Close"}
  ELSE {"UDP_Server_SockFd_Open", "UDP_Server_Bind", "UDP_Server_Listen",
        "UDP_Server_Data_Process", "UDP_Server_Send", "UDP_Server_Close"}
Opener(t) == IF t = Client THEN "Tcp_Client_SockFd_Open" ELSE "UDP_Server_SockFd_Open"

\* The state in which the self-loop calls a handler.
Home(fn) ==
  CASE fn = "Tcp_Client_Connect" -> "CONNECT_ST"
    [] fn = "Tcp_Client_WriteToServer" -> "WRITE_ST"
    [] fn = "Tcp_Client_ReadFromServer" -> "READ_ST"
    [] fn = "Tcp_Client_Process" -> "PROCESS_ST"
    [] fn = "Tcp_Client_Close" -> "IDLE_ST"
    [] fn = "UDP_Server_Bind" -> "OPEN_ST"
    [] fn = "UDP_Server_Listen" -> "READ_ST"
    [] fn = "UDP_Server_Data_Process" -> "PROCESS_ST"
    [] fn = "UDP_Server_Send" -> "WRITE_ST"
    [] fn = "UDP_Server_Close" -> "CLOSE_ST"
    [] OTHER -> "SOCKFD_ST"

\* What a handler may post to its own task.
Says(fn) ==
  CASE fn = "Tcp_Client_SockFd_Open" -> {"CONNECT_TO_SERVER"}
    [] fn = "Tcp_Client_Connect" -> {"WRITE"}
    [] fn = "Tcp_Client_WriteToServer" -> {"READ"}
    [] fn = "Tcp_Client_ReadFromServer" -> {"PROCESS"}
    [] fn = "Tcp_Client_Process" -> {"CLOSE"}
    [] fn = "UDP_Server_SockFd_Open" -> {"OPEN_SERVER"}
    [] fn = "UDP_Server_Bind" -> {"LISTEN_STATE"}
    [] fn = "UDP_Server_Listen" -> {"PROCESS_STATE"}
    [] fn = "UDP_Server_Data_Process" -> {"RESPONSE_STATE"}
    [] fn = "UDP_Server_Send" -> {"CLOSE_STATE"}
    [] OTHER -> {}

Said(t) ==
  IF t = Client
  THEN {"CONNECT_TO_SERVER", "WRITE", "READ", "PROCESS", "CLOSE"}
  ELSE {"OPEN_SERVER", "LISTEN_STATE", "PROCESS_STATE", "RESPONSE_STATE", "CLOSE_STATE"}

\* The handler that a message of the task's own leads to.
Taker(id) ==
  CASE id = "CONNECT_TO_SERVER" -> "Tcp_Client_Connect"
    [] id = "WRITE" -> "Tcp_Client_WriteToServer"
    [] id = "READ" -> "Tcp_Client_ReadFromServer"
    [] id = "PROCESS" -> "Tcp_Client_Process"
    [] id = "CLOSE" -> "Tcp_Client_Close"
    [] id = "OPEN_SERVER" -> "UDP_Server_Bind"
    [] id = "LISTEN_STATE" -> "UDP_Server_Listen"
    [] id = "PROCESS_STATE" -> "UDP_Server_Data_Process"
    [] id = "RESPONSE_STATE" -> "UDP_Server_Send"
    [] OTHER -> "UDP_Server_Close"

\* The calls a handler waits in, and the handler a task is in.
Waiting(t) == IF t = Client THEN {"connect", "recv"} ELSE {"recvfrom"}
Handler(place) ==
  CASE place = "connect" -> "Tcp_Client_Connect"
    [] place = "recv" -> "Tcp_Client_ReadFromServer"
    [] place = "recvfrom" -> "UDP_Server_Listen"
    [] OTHER -> place

Ours == {Client, Udp}
FdOf(t) == IF t = Client THEN clientFd ELSE udpFd
Outside(t) == at[t] \in {"absent", "loop"}
Carries(t, ids) == inbox[t] \in Seq(Mail(t, ids))
Started(t) == st[t].fn # Null \/ st[t].cur # "IDLE_ST"
-----------------------------------------------------------------------------
Shape ==
  /\ OverTasks(inbox) /\ OverTasks(st) /\ OverTasks(at)
  /\ inbox[Wifi] = << >> /\ inbox[Tcp] = << >>
  /\ socket \in [Fd -> [by : Module \cup {Nobody}, is : Phase]]
  /\ clientFd \in {NoFd} \cup Fd /\ udpFd \in {NoFd} \cup Fd
  /\ asked \in [Ours -> Nat] /\ \A t \in Ours : asked[t] <= MaxAsked[t]
  /\ Together \/ asked[Client] = 0 \/ asked[Udp] = 0

\* How a task moves from handler to handler.
Follows(t) ==
  /\ Carries(t, Said(t)) /\ Single(t, inbox[t])
  /\ st[t] \in [cur : StateOf(t), prev : StateOf(t), fn : Handlers(t) \cup {Null}]
  /\ at[t] \in {"absent", "loop"} \cup Handlers(t) \cup Waiting(t)
  /\ st[t].fn = Null => st[t].cur \in {"IDLE_ST", "SOCKFD_ST"}
  /\ st[t].fn # Null => st[t].cur = Home(st[t].fn) /\ Carries(t, Says(st[t].fn))
  /\ st[t].cur = "IDLE_ST" => Carries(t, {})
  /\ ~ Outside(t) => Handler(at[t]) = st[t].fn /\ Carries(t, {})

\* Every message of a task goes back to a request of its own.
Queue(t) ==
  /\ Len(inbox[t]) <= asked[t]
  /\ Started(t) /\ Carries(t, {}) => Len(inbox[t]) < asked[t]

\* The requests to one task leave room in the mailbox for the other.
Roomy == Together => \A t \in Ours : MaxAsked[t] < NSlots

\* The task knows its socket, and does not open one while it has one.
Knows(t) ==
  /\ OwnedBy(t) \subseteq {FdOf(t)}
  /\ OwnedBy(t) # {} =>
       /\ at[t] # Opener(t)
       /\ Outside(t) => st[t].cur # "IDLE_ST"
       /\ Outside(t) /\ st[t].fn = Opener(t) => inbox[t] # << >>

Unbound ==
  udpFd = NoFd => Carries(Udp, {}) /\ st[Udp].fn \in {Null, "UDP_Server_SockFd_Open", "UDP_Server_Bind"}
-----------------------------------------------------------------------------
\* What the chains of handlers look like.
LEMMA Dictionary ==
  ASSUME NEW t \in Ours
  PROVE  /\ Opener(t) \in Handlers(t) /\ "SOCKFD_ST" \in StateOf(t) /\ "IDLE_ST" \in StateOf(t)
         /\ Null \notin Handlers(t) /\ Handlers(t) \cap {"absent", "loop"} = {}
         /\ Waiting(t) \cap (Handlers(t) \cup {"absent", "loop", Null}) = {}
         /\ \A fn \in Handlers(t) :
              /\ Handler(fn) = fn /\ Home(fn) \in StateOf(t) /\ Says(fn) \subseteq Said(t)
              /\ Home(fn) = "IDLE_ST" => Says(fn) = {}
         /\ \A w \in Waiting(t) : Handler(w) \in Handlers(t)
         /\ \A id \in Said(t) : Taker(id) \in Handlers(t)
         /\ Home(Opener(t)) = "SOCKFD_ST"
<1> USE ClientAssumption
    DEF Ours, Opener, Handlers, Handler, Home, Says, Said, Taker, Waiting, StateOf,
        ClientState, UdpState, Null
<1>1. CASE t = Client
  BY <1>1
<1>2. CASE t = Udp
  BY <1>2
<1> QED BY <1>1, <1>2

\* The rows a task finds for its messages.
Leads(t, row, state, m) ==
  \/ row.next = "SOCKFD_ST" /\ row.fn = Null
  \/ m = Request /\ state = "IDLE_ST" /\ row.next = "SOCKFD_ST" /\ row.fn = Opener(t)
  \/ \E id \in Said(t) : m = Message(t, id) /\ row.next = Home(row.fn) /\ row.fn = Taker(id)

LEMMA ClientRows ==
  ASSUME NEW state, NEW m \in Mail(Client, Said(Client))
  PROVE  /\ ~ Keeps(RowFor(ClientTable, state, m))
         /\ Leads(Client, RowFor(ClientTable, state, m), state, m)
<1> DEFINE T == ClientTable
<1>1. /\ T[1] = Row("IDLE_ST", Wifi, "OPEN_SOCKFD", "SOCKFD_ST", "Tcp_Client_SockFd_Open")
      /\ T[2] = Row("SOCKFD_ST", Client, "CONNECT_TO_SERVER", "CONNECT_ST", "Tcp_Client_Connect")
      /\ T[3] = Row("CONNECT_ST", Client, "WRITE", "WRITE_ST", "Tcp_Client_WriteToServer")
      /\ T[4] = Row("WRITE_ST", Client, "READ", "READ_ST", "Tcp_Client_ReadFromServer")
      /\ T[5] = Row("READ_ST", Client, "PROCESS", "PROCESS_ST", "Tcp_Client_Process")
      /\ T[6] = Row("PROCESS_ST", Client, "WRITE", "WRITE_ST", "Tcp_Client_WriteToServer")
      /\ T[7] = Row("PROCESS_ST", Client, "CLOSE", "IDLE_ST", "Tcp_Client_Close")
      /\ T[8] = Row("PROCESS_ST", Client, "RESPONSE", "IDLE_ST", "Tcp_Client_WriteToServer")
      /\ T[9] = Row(AnyState, Client, "WRITE", "WRITE_ST", "Tcp_Client_WriteToServer")
      /\ T[10] = Row(AnyState, Client, "READ", "READ_ST", "Tcp_Client_ReadFromServer")
      /\ T[11] = Row(AnInvalidState, Client, EmptyMessage, "SOCKFD_ST", Null)
      /\ DOMAIN T = 1 .. 11
  BY DEF ClientTable
<1> HIDE DEF T
<1>2. \A k \in 1 .. 11 : k \in {1, 2, 3, 4, 5, 6, 7, 8, 9, 10, 11}
  OBVIOUS
<1>3. \A k \in 1 .. 11 : IsSentinel(T[k]) <=> k = 11
  BY <1>1, <1>2 DEF IsSentinel, Row, AnyState, AnInvalidState
<1>4. PICK k \in 1 .. 11 : RowFor(T, state, m) = T[k] /\ (k = 11 \/ Matches(T[k], state, m))
  <2>1. PICK n : n = 11
    OBVIOUS
  <2>2. n \in Nat \ {0} /\ DOMAIN T = 1 .. n /\ \A i \in 1 .. n : IsSentinel(T[i]) <=> i = n
    BY <1>1, <1>3, <2>1
  <2>3. \E k \in 1 .. n :
          /\ RowFor(T, state, m) = T[k]
          /\ k = n \/ Matches(T[k], state, m)
          /\ \A j \in 1 .. k - 1 : ~ Matches(T[j], state, m)
    BY <2>2, SomeRow
  <2> QED BY <2>1, <2>3
<1>5. ~ Keeps(T[k])
  BY <1>1, <1>2 DEF Keeps, Row, AnyState, AnInvalidState
<1>6. \/ m = Request /\ m.source = Wifi
      \/ \E id \in Said(Client) : m = Message(Client, id) /\ m.source = Client /\ m.id = id
  BY DEF Mail, Request, Message
<1>7. Leads(Client, T[k], state, m)
  <2>1. Wifi # Client /\ "RESPONSE" \notin Said(Client)
    BY ClientAssumption DEF Said
  <2>2. CASE k = 1
    BY <1>1, <1>4, <1>6, <2>1, <2>2 DEF Matches, Row, Leads, Opener, AnyState
  <2>3. CASE k = 8
    BY <1>1, <1>4, <1>6, <2>1, <2>3 DEF Matches, Row
  <2>4. CASE k = 11
    BY <1>1, <2>4 DEF Leads, Row
  <2>5. CASE k \in {2, 3, 4, 5, 6, 7, 9, 10}
    BY <1>1, <1>4, <1>6, <2>1, <2>5 DEF Matches, Row, Leads, Home, Taker
  <2> QED BY <1>2, <2>2, <2>3, <2>4, <2>5
<1> QED BY <1>4, <1>5, <1>7 DEF T

LEMMA UdpRows ==
  ASSUME NEW state, NEW m \in Mail(Udp, Said(Udp))
  PROVE  /\ ~ Keeps(RowFor(UdpTable, state, m))
         /\ Leads(Udp, RowFor(UdpTable, state, m), state, m)
<1> DEFINE T == UdpTable
<1>1. /\ T[1] = Row("IDLE_ST", Wifi, "OPEN_SOCKFD", "SOCKFD_ST", "UDP_Server_SockFd_Open")
      /\ T[2] = Row("SOCKFD_ST", Udp, "OPEN_SERVER", "OPEN_ST", "UDP_Server_Bind")
      /\ T[3] = Row("OPEN_ST", Udp, "LISTEN_STATE", "READ_ST", "UDP_Server_Listen")
      /\ T[4] = Row("READ_ST", Udp, "PROCESS_STATE", "PROCESS_ST", "UDP_Server_Data_Process")
      /\ T[5] = Row("PROCESS_ST", Udp, "RESPONSE_STATE", "WRITE_ST", "UDP_Server_Send")
      /\ T[6] = Row("PROCESS_ST", Udp, "CLOSE_STATE", "CLOSE_ST", "UDP_Server_Close")
      /\ T[7] = Row("READ_ST", Udp, "CLOSE_STATE", "CLOSE_ST", "UDP_Server_Close")
      /\ T[8] = Row(AnyState, Udp, "CLOSE_STATE", "CLOSE_ST", "UDP_Server_Close")
      /\ T[9] = Row(AnInvalidState, Udp, "OPEN_SOCKFD", "SOCKFD_ST", Null)
      /\ DOMAIN T = 1 .. 9
  BY DEF UdpTable
<1> HIDE DEF T
<1>2. \A k \in 1 .. 9 : k \in {1, 2, 3, 4, 5, 6, 7, 8, 9}
  OBVIOUS
<1>3. \A k \in 1 .. 9 : IsSentinel(T[k]) <=> k = 9
  BY <1>1, <1>2 DEF IsSentinel, Row, AnyState, AnInvalidState
<1>4. PICK k \in 1 .. 9 : RowFor(T, state, m) = T[k] /\ (k = 9 \/ Matches(T[k], state, m))
  <2>1. PICK n : n = 9
    OBVIOUS
  <2>2. n \in Nat \ {0} /\ DOMAIN T = 1 .. n /\ \A i \in 1 .. n : IsSentinel(T[i]) <=> i = n
    BY <1>1, <1>3, <2>1
  <2>3. \E k \in 1 .. n :
          /\ RowFor(T, state, m) = T[k]
          /\ k = n \/ Matches(T[k], state, m)
          /\ \A j \in 1 .. k - 1 : ~ Matches(T[j], state, m)
    BY <2>2, SomeRow
  <2> QED BY <2>1, <2>3
<1>5. ~ Keeps(T[k])
  BY <1>1, <1>2 DEF Keeps, Row, AnyState, AnInvalidState
<1>6. \/ m = Request /\ m.source = Wifi
      \/ \E id \in Said(Udp) : m = Message(Udp, id) /\ m.source = Udp /\ m.id = id
  BY DEF Mail, Request, Message
<1>7. Leads(Udp, T[k], state, m)
  <2>1. Wifi # Udp /\ Udp # Client
    BY ClientAssumption
  <2>2. CASE k = 1
    BY <1>1, <1>4, <1>6, <2>1, <2>2 DEF Matches, Row, Leads, Opener, AnyState
  <2>3. CASE k = 9
    BY <1>1, <2>3 DEF Leads, Row
  <2>4. CASE k \in {2, 3, 4, 5, 6, 7, 8}
    BY <1>1, <1>4, <1>6, <2>1, <2>4 DEF Matches, Row, Leads, Home, Taker
  <2> QED BY <1>2, <2>2, <2>3, <2>4
<1> QED BY <1>4, <1>5, <1>7 DEF T
-----------------------------------------------------------------------------
\* What a step can be to a task.
Same(f, t) == f'[t] = f[t]

Asked(t) ==
  /\ Same(st, t) /\ Same(at, t)
  /\ asked'[t] = asked[t] + 1
  /\ inbox'[t] \in {inbox[t], Append(inbox[t], Request)}

Starts(t) ==
  /\ Same(st, t) /\ Same(inbox, t) /\ Same(asked, t)
  /\ at[t] = "absent" /\ at'[t] = "loop"

Takes(t) ==
  /\ Same(asked, t)
  /\ at[t] = "loop"
  /\ inbox[t] # << >> /\ inbox'[t] = Tail(inbox[t])
  /\ \/ st'[t] = Status("SOCKFD_ST", "SOCKFD_ST", Null) /\ at'[t] = "loop"
     \/ /\ Head(inbox[t]) = Request /\ st[t].cur = "IDLE_ST"
        /\ st'[t] = Status("SOCKFD_ST", st[t].cur, Opener(t)) /\ at'[t] = Opener(t)
     \/ \E id \in Said(t) :
          /\ Head(inbox[t]) = Message(t, id)
          /\ st'[t] = Status(Home(Taker(id)), st[t].cur, Taker(id)) /\ at'[t] = Taker(id)

Repeats(t) ==
  /\ Same(st, t) /\ Same(inbox, t) /\ Same(asked, t)
  /\ at[t] = "loop" /\ inbox[t] = << >>
  /\ st[t].fn # Null /\ at'[t] = st[t].fn

Waits(t) ==
  /\ Same(st, t) /\ Same(inbox, t) /\ Same(asked, t)
  /\ at[t] \in Handlers(t) /\ at'[t] \in Waiting(t) /\ Handler(at'[t]) = at[t]

Ends(t) ==
  /\ Same(asked, t)
  /\ ~ Outside(t) /\ at'[t] = "loop"
  /\ st'[t] = [st[t] EXCEPT !.prev = st[t].cur]
  /\ \/ Same(inbox, t)
     \/ \E id \in Says(Handler(at[t])) : inbox'[t] = Append(inbox[t], Message(t, id))

Moves(t) == Asked(t) \/ Starts(t) \/ Takes(t) \/ Repeats(t) \/ Waits(t) \/ Ends(t)

\* Nothing of the other task changes but, perhaps, its socket.
Alone(t) ==
  /\ OverTasks(inbox') /\ OverTasks(st') /\ OverTasks(at')
  /\ \A u \in Module \ {t} : Same(inbox, u) /\ Same(st, u) /\ Same(at, u)

LEMMA Modules ==
  /\ Module = {Wifi, Tcp, Client, Udp} /\ Ours \subseteq Module \ {Wifi, Tcp} /\ Client # Udp
  /\ Wifi # Tcp
BY EndpointsAssumption, ClientAssumption, TasksAssumption DEF Ours

LEMMA Returning ==
  ASSUME Shape, NEW t \in Ours, ~ Outside(t), UNCHANGED asked, NEW box, Return(t, box),
         box = inbox \/ \E id \in Says(Handler(at[t])) : box = Posted(t, t, id)
  PROVE  Ends(t) /\ Alone(t)
<1>1. /\ OverTasks(box) /\ \A u \in Module \ {t} : box[u] = inbox[u]
      /\ \/ box[t] = inbox[t]
         \/ \E id \in Says(Handler(at[t])) : box[t] = Append(inbox[t], Message(t, id))
  <2>1. CASE box = inbox
    BY <2>1 DEF Shape
  <2>2. ASSUME NEW id \in Says(Handler(at[t])), box = Posted(t, t, id)
        PROVE  /\ OverTasks(box) /\ \A u \in Module \ {t} : box[u] = inbox[u]
               /\ box[t] \in {inbox[t], Append(inbox[t], Message(t, id))}
    <3>1. OverTasks(inbox) /\ t \in Module
      BY Modules DEF Shape
    <3>2. OverTasks(box)
      BY <2>2, <3>1, Posting
    <3>3. \A u \in Module \ {t} : box[u] = inbox[u]
      BY <2>2, <3>1 DEF Posted, OverTasks
    <3>4. box[t] \in {inbox[t], Append(inbox[t], Message(t, id))}
      BY <2>2, <3>1, Posting
    <3> QED BY <3>2, <3>3, <3>4
  <2> QED BY <2>1, <2>2
<1> QED BY <1>1, Modules DEF Shape, Return, Ends, Alone, Same, OverTasks

LEMMA Awaiting ==
  ASSUME Shape, NEW t \in Ours, NEW w \in Waiting(t), at[t] = Handler(w),
         at' = [at EXCEPT ![t] = w], UNCHANGED <<inbox, st, asked>>
  PROVE  Waits(t) /\ Alone(t)
<1>1. at[t] \in Handlers(t) /\ at'[t] = w
  BY Modules, Dictionary DEF Shape, OverTasks
<1>2. Alone(t)
  BY Modules DEF Shape, Alone, Same, OverTasks
<1> QED BY <1>1, <1>2 DEF Waits, Same

LEMMA Repeating ==
  ASSUME Shape, NEW t \in Ours, SelfLoop(t), UNCHANGED asked
  PROVE  Repeats(t) /\ Alone(t)
BY Modules DEF Shape, Repeats, Alone, Same, OverTasks, SelfLoop, Accept

LEMMA Receiving ==
  ASSUME Shape, NEW t \in Ours, NEW table, Receive(t, table), UNCHANGED asked,
         NEW row, row = RowFor(table, st[t].cur, Head(inbox[t])),
         ~ Keeps(row), Leads(t, row, st[t].cur, Head(inbox[t]))
  PROVE  Takes(t) /\ Alone(t)
<1>1. /\ at[t] = "loop" /\ inbox[t] # << >>
      /\ st'[t] = Entered(st[t], row)
      /\ at'[t] = IF row.fn = Null THEN "loop" ELSE row.fn
      /\ inbox'[t] = Tail(inbox[t])
  BY Modules DEF Shape, OverTasks, Receive, Accept
<1>2. Alone(t)
  BY Modules DEF Shape, OverTasks, Receive, Alone, Same
<1>3. st'[t] = Status(row.next, IF row.fn = Null THEN row.next ELSE st[t].cur, row.fn)
  BY <1>1 DEF Entered
<1>4. UNCHANGED asked /\ ~ Keeps(row) /\ Leads(t, row, st[t].cur, Head(inbox[t]))
  OBVIOUS
<1>5. CASE row.fn = Null
  BY <1>1, <1>2, <1>3, <1>4, <1>5, Dictionary DEF Takes, Leads, Same
<1>6. CASE row.fn # Null
  BY <1>1, <1>2, <1>3, <1>4, <1>6, Dictionary DEF Takes, Leads, Same
<1> QED BY <1>5, <1>6
-----------------------------------------------------------------------------
\* Every step is one move of one task, or the TCP server's.
ClientAct == ClientStep \/ ConnectSucceeds \/ RecvReturns
UdpAct == UdpStep \/ RecvfromReturns

LEMMA Steps ==
  ASSUME Next
  PROVE  \/ StartClient \/ StartUdp
         \/ \E t \in Ours : Ask(t)
         \/ TcpTakes
         \/ ClientAct /\ UNCHANGED <<udpVars, asked>>
         \/ UdpAct /\ UNCHANGED <<clientVars, asked>>
BY DEF Next, ClientAct, UdpAct, ClientStep, UdpStep, Ours

LEMMA ClientMoves ==
  ASSUME Shape, Follows(Client), ClientAct, UNCHANGED asked
  PROVE  Moves(Client) /\ Alone(Client)
<1>1. Client \in Ours
  BY DEF Ours
<1>2. CASE ClientPoll
  <2>1. CASE SelfLoop(Client)
    BY <1>1, <2>1, Repeating DEF Moves
  <2>2. CASE Receive(Client, ClientTable)
    <3>1. Head(inbox[Client]) \in Mail(Client, Said(Client))
      BY <2>2 DEF Receive, Accept, Follows, Carries
    <3> QED BY <1>1, <2>2, <3>1, ClientRows, Receiving DEF Moves
  <2> QED BY <1>2, <2>1, <2>2 DEF ClientPoll
<1>3. ASSUME ~ Outside(Client), NEW box, Return(Client, box),
             box = inbox \/ \E id \in Says(Handler(at[Client])) : box = Posted(Client, Client, id)
      PROVE  Moves(Client) /\ Alone(Client)
  BY <1>1, <1>3, Returning DEF Moves
<1>4. CASE ClientSocketOpens \/ ClientSocketFails
  BY <1>3, <1>4 DEF ClientSocketOpens, ClientSocketFails, Outside, Handler, Says
<1>5. CASE ConnectSucceeds \/ ConnectFails
  BY <1>3, <1>5 DEF ConnectSucceeds, ConnectFails, Outside, Handler, Says
<1>6. CASE Tcp_Client_WriteToServer \/ RecvReturns
  BY <1>3, <1>6 DEF Tcp_Client_WriteToServer, RecvReturns, Outside, Handler, Says
<1>7. CASE Tcp_Client_Process \/ Tcp_Client_Close
  BY <1>3, <1>7 DEF Tcp_Client_Process, Tcp_Client_Close, Outside, Handler, Says
<1>8. CASE ConnectBegins \/ RecvBegins
  <2>1. {"connect", "recv"} \subseteq Waiting(Client)
    BY DEF Waiting
  <2> QED BY <1>1, <1>8, <2>1, Awaiting DEF ConnectBegins, RecvBegins, Handler, Moves
<1> QED BY <1>2, <1>4, <1>5, <1>6, <1>7, <1>8 DEF ClientAct, ClientStep

LEMMA UdpMoves ==
  ASSUME Shape, Follows(Udp), UdpAct, UNCHANGED asked
  PROVE  Moves(Udp) /\ Alone(Udp)
<1>1. Udp \in Ours
  BY DEF Ours
<1>2. CASE UdpPoll
  <2>1. CASE SelfLoop(Udp)
    BY <1>1, <2>1, Repeating DEF Moves
  <2>2. CASE Receive(Udp, UdpTable)
    <3>1. Head(inbox[Udp]) \in Mail(Udp, Said(Udp))
      BY <2>2 DEF Receive, Accept, Follows, Carries
    <3> QED BY <1>1, <2>2, <3>1, UdpRows, Receiving DEF Moves
  <2> QED BY <1>2, <2>1, <2>2 DEF UdpPoll
<1>3. ASSUME ~ Outside(Udp), NEW box, Return(Udp, box),
             box = inbox \/ \E id \in Says(Handler(at[Udp])) : box = Posted(Udp, Udp, id)
      PROVE  Moves(Udp) /\ Alone(Udp)
  BY <1>1, <1>3, Returning DEF Moves
<1>4. CASE UdpSocketOpens \/ UdpSocketFails
  BY <1>3, <1>4 DEF UdpSocketOpens, UdpSocketFails, Outside, Handler, Says
<1>5. CASE BindSucceeds \/ BindFails
  BY <1>3, <1>5 DEF BindSucceeds, BindFails, Outside, Handler, Says
<1>6. CASE RecvfromReturns \/ UDP_Server_Data_Process
  BY <1>3, <1>6 DEF RecvfromReturns, UDP_Server_Data_Process, Outside, Handler, Says
<1>7. CASE UDP_Server_Send \/ UDP_Server_Close
  BY <1>3, <1>7 DEF UDP_Server_Send, UDP_Server_Close, Outside, Handler, Says
<1>8. CASE RecvfromBegins
  <2>1. "recvfrom" \in Waiting(Udp)
    BY Modules DEF Waiting
  <2> QED BY <1>1, <1>8, <2>1, Awaiting DEF RecvfromBegins, Handler, Moves
<1> QED BY <1>2, <1>4, <1>5, <1>6, <1>7, <1>8 DEF UdpAct, UdpStep

LEMMA OthersMove ==
  ASSUME Shape, StartClient \/ StartUdp \/ \E t \in Ours : Ask(t)
  PROVE  \E t \in Ours : Moves(t) /\ Alone(t) /\ \A u \in Ours \ {t} : Same(asked, u)
<1>1. ASSUME NEW t \in Ours, Start(t), UNCHANGED asked
      PROVE  Moves(t) /\ Alone(t)
  BY <1>1, Modules DEF Start, Shape, OverTasks, Moves, Starts, Alone, Same
<1>2. ASSUME NEW t \in Ours, Ask(t)
      PROVE  Moves(t) /\ Alone(t) /\ \A u \in Ours \ {t} : Same(asked, u)
  <2>1. OverTasks(inbox) /\ t \in Module /\ asked \in [Ours -> Nat]
    BY Modules DEF Shape
  <2>2. OverTasks(inbox')
    BY <1>2, <2>1, Posting DEF Ask
  <2>3. \A u \in Module \ {t} : inbox'[u] = inbox[u]
    BY <1>2, <2>1 DEF Ask, Posted, OverTasks
  <2>4. inbox'[t] \in {inbox[t], Append(inbox[t], Request)}
    BY <1>2, <2>1, Posting DEF Ask, Request
  <2>5. UNCHANGED <<st, at>> /\ asked' = [asked EXCEPT ![t] = @ + 1]
    BY <1>2 DEF Ask
  <2> QED BY <2>1, <2>2, <2>3, <2>4, <2>5 DEF Shape, Moves, Asked, Alone, Same
<1> QED BY <1>1, <1>2 DEF StartClient, StartUdp, Ours, Same
-----------------------------------------------------------------------------
\* The chain of handlers, and where its messages come from.
LEMMA More ==
  ASSUME NEW t, NEW ids, NEW more, ids \subseteq more, NEW box \in Seq(Mail(t, ids))
  PROVE  box \in Seq(Mail(t, more))
<1>1. Mail(t, ids) \subseteq Mail(t, more)
  BY DEF Mail
<1>2. \A i \in 1 .. Len(box) : box[i] \in Mail(t, more)
  BY <1>1
<1> QED BY <1>2, SeqOfMembers

LEMMA FollowsKept ==
  ASSUME NEW t \in Ours, Follows(t), Same(inbox, t), Same(st, t), Same(at, t)
  PROVE  Follows(t)'
BY DEF Follows, Carries, Outside, Same

LEMMA FollowsStep ==
  ASSUME NEW t \in Ours, Follows(t), Moves(t)
  PROVE  Follows(t)'
<1>1. t \in Module \ {Wifi}
  BY Modules
<1>2. /\ inbox[t] \in Seq(Mail(t, Said(t))) /\ Single(t, inbox[t])
      /\ st[t] \in [cur : StateOf(t), prev : StateOf(t), fn : Handlers(t) \cup {Null}]
  BY DEF Follows, Carries
<1>3. CASE Asked(t)
  <2>1. CASE inbox'[t] = inbox[t]
    BY <1>3, <2>1, FollowsKept DEF Asked, Same
  <2>2. CASE inbox'[t] = Append(inbox[t], Request)
    <3>1. \A ids : Carries(t, ids) => inbox'[t] \in Seq(Mail(t, ids)) /\ Single(t, inbox'[t])
      BY <1>1, <1>2, <2>2, Putting DEF Carries
    <3> QED BY <1>3, <3>1 DEF Asked, Same, Follows, Carries, Outside
  <2> QED BY <1>3, <2>1, <2>2 DEF Asked
<1>4. CASE Starts(t)
  BY <1>4 DEF Starts, Same, Follows, Carries, Outside
<1>5. CASE Takes(t)
  <2>1. /\ inbox'[t] \in Seq(Mail(t, Said(t))) /\ Single(t, inbox'[t])
        /\ Head(inbox[t]) # Request => inbox'[t] \in Seq(Mail(t, {}))
    BY <1>1, <1>2, <1>5, Taking DEF Takes
  <2>2. CASE st'[t] = Status("SOCKFD_ST", "SOCKFD_ST", Null) /\ at'[t] = "loop"
    BY <1>2, <2>1, <2>2, Dictionary DEF Follows, Carries, Outside, Status
  <2>3. ASSUME inbox'[t] \in Seq(Mail(t, {})), NEW fn \in Handlers(t),
               st'[t] = Status(Home(fn), st[t].cur, fn), at'[t] = fn
        PROVE  Follows(t)'
    <3>1. inbox'[t] \in Seq(Mail(t, Says(fn)))
      BY <2>3, More
    <3>2. Home(fn) \in StateOf(t) /\ fn # Null /\ fn \notin {"absent", "loop"} /\ Handler(fn) = fn
      BY Dictionary
    <3> QED BY <1>2, <2>1, <2>3, <3>1, <3>2 DEF Follows, Carries, Outside, Status
  <2>4. CASE /\ Head(inbox[t]) = Request /\ st[t].cur = "IDLE_ST"
             /\ st'[t] = Status("SOCKFD_ST", st[t].cur, Opener(t)) /\ at'[t] = Opener(t)
    <3>1. inbox[t] \in Seq(Mail(t, {}))
      BY <2>4 DEF Follows, Carries
    <3>2. inbox'[t] \in Seq(Mail(t, {}))
      BY <1>1, <1>2, <1>5, <3>1, Taking DEF Takes
    <3> QED BY <2>3, <2>4, <3>2, Dictionary
  <2>5. ASSUME NEW id \in Said(t), Head(inbox[t]) = Message(t, id),
               st'[t] = Status(Home(Taker(id)), st[t].cur, Taker(id)), at'[t] = Taker(id)
        PROVE  Follows(t)'
    <3>1. Head(inbox[t]) # Request
      BY <1>1, <2>5 DEF Request, Message
    <3> QED BY <2>1, <2>3, <2>5, <3>1, Dictionary
  <2> QED BY <1>5, <2>2, <2>4, <2>5 DEF Takes
<1>6. CASE Repeats(t)
  <2>1. st[t].fn \in Handlers(t)
    BY <1>2, <1>6 DEF Repeats
  <2>2. Carries(t, {})
    BY <1>6 DEF Repeats, Carries
  <2>3. st[t].fn \notin {"absent", "loop"} /\ Handler(st[t].fn) = st[t].fn
    BY <2>1, Dictionary
  <2> QED BY <1>6, <2>1, <2>2, <2>3 DEF Repeats, Same, Follows, Carries, Outside
<1>7. CASE Waits(t)
  <2>1. at[t] \notin {"absent", "loop"} /\ Handler(at[t]) = at[t] /\ at'[t] \notin {"absent", "loop"}
    BY <1>7, Dictionary DEF Waits
  <2> QED BY <1>7, <2>1 DEF Waits, Same, Follows, Carries, Outside
<1>8. CASE Ends(t)
  <2>1. Handler(at[t]) = st[t].fn /\ Carries(t, {}) /\ at[t] \in Handlers(t) \cup Waiting(t)
    BY <1>8 DEF Ends, Follows, Outside
  <2>2. st[t].fn \in Handlers(t) /\ st[t].fn # Null
    BY <2>1, Dictionary
  <2>3. /\ st[t].cur = Home(st[t].fn) /\ Says(st[t].fn) \subseteq Said(t)
        /\ Home(st[t].fn) = "IDLE_ST" => Says(st[t].fn) = {}
    BY <2>2, Dictionary DEF Follows
  <2>4. /\ st'[t].cur = st[t].cur /\ st'[t].fn = st[t].fn /\ at'[t] = "loop"
        /\ st'[t] \in [cur : StateOf(t), prev : StateOf(t), fn : Handlers(t) \cup {Null}]
    BY <1>2, <1>8 DEF Ends
  <2>5. CASE Same(inbox, t)
    BY <2>2, <2>4, <2>5 DEF Follows, Carries, Outside, Same
  <2>6. ASSUME NEW id \in Says(st[t].fn), inbox'[t] = Append(inbox[t], Message(t, id))
        PROVE  Follows(t)'
    <3>1. inbox'[t] \in Seq(Mail(t, {id})) /\ Single(t, inbox'[t])
      BY <1>1, <1>2, <2>1, <2>6, Putting DEF Carries
    <3>2. inbox'[t] \in Seq(Mail(t, Said(t))) /\ inbox'[t] \in Seq(Mail(t, Says(st[t].fn)))
      BY <2>3, <3>1, More
    <3>3. st[t].cur # "IDLE_ST"
      BY <2>3, <2>6
    <3> QED BY <2>2, <2>3, <2>4, <3>1, <3>2, <3>3 DEF Follows, Carries, Outside
  <2> QED BY <1>8, <2>1, <2>5, <2>6 DEF Ends
<1> QED BY <1>3, <1>4, <1>5, <1>6, <1>7, <1>8 DEF Moves

LEMMA QueueKept ==
  ASSUME NEW t \in Ours, Queue(t), Same(inbox, t), Same(st, t), Same(asked, t)
  PROVE  Queue(t)'
BY DEF Queue, Started, Carries, Same

LEMMA QueueStep ==
  ASSUME NEW t \in Ours, Follows(t), asked[t] \in Nat, Queue(t), Moves(t)
  PROVE  Queue(t)'
<1>1. t \in Module \ {Wifi}
  BY Modules
<1>2. inbox[t] \in Seq(Mail(t, Said(t))) /\ Single(t, inbox[t]) /\ Len(inbox[t]) \in Nat
  BY DEF Follows, Carries
<1>3. CASE Asked(t)
  <2>1. /\ inbox'[t] = Append(inbox[t], Request) => Len(inbox'[t]) = Len(inbox[t]) + 1
        /\ \A ids : Carries(t, ids) => Append(inbox[t], Request) \in Seq(Mail(t, ids))
    BY <1>1, <1>2, Putting DEF Carries
  <2>2. Carries(t, {})' => Carries(t, {})
    <3>1. CASE inbox'[t] = inbox[t]
      BY <3>1 DEF Carries
    <3>2. CASE inbox'[t] = Append(inbox[t], Request)
      <4>1. \A i \in 1 .. Len(inbox[t]) : i \in 1 .. Len(inbox'[t]) /\ inbox'[t][i] = inbox[t][i]
        BY <1>2, <3>2
      <4> QED BY <1>2, <4>1, SeqOfMembers DEF Carries
    <3> QED BY <1>3, <3>1, <3>2 DEF Asked
  <2> QED BY <1>2, <1>3, <2>1, <2>2 DEF Asked, Same, Queue, Started
<1>4. CASE Starts(t)
  BY <1>4, QueueKept DEF Starts
<1>5. CASE Takes(t)
  <2>1. Len(inbox'[t]) = Len(inbox[t]) - 1
    BY <1>1, <1>2, <1>5, Taking DEF Takes
  <2> QED BY <1>2, <1>5, <2>1 DEF Takes, Same, Queue
<1>6. CASE Repeats(t)
  BY <1>6, QueueKept DEF Repeats
<1>7. CASE Waits(t)
  BY <1>7, QueueKept DEF Waits
<1>8. CASE Ends(t)
  <2>1. /\ Handler(at[t]) = st[t].fn /\ Carries(t, {}) /\ st[t].fn # Null
        /\ st'[t].cur = st[t].cur /\ st'[t].fn = st[t].fn
    BY <1>2, <1>8, Dictionary DEF Ends, Follows, Outside
  <2>2. Len(inbox[t]) < asked[t]
    BY <2>1 DEF Queue, Started
  <2>3. CASE Same(inbox, t)
    BY <1>8, <2>2, <2>3 DEF Same, Queue, Ends
  <2>4. ASSUME NEW id, id \in Says(st[t].fn), inbox'[t] = Append(inbox[t], Message(t, id))
        PROVE  Len(inbox'[t]) <= asked[t] /\ ~ Carries(t, {})'
    <3>1. LET n == Len(inbox'[t]) IN
          n = Len(inbox[t]) + 1 /\ n \in 1 .. n /\ inbox'[t][n] = Message(t, id)
      BY <1>2, <2>4
    <3>2. Message(t, id) \notin Mail(t, {})
      BY <1>1 DEF Mail, Request, Message
    <3> QED BY <1>2, <2>2, <3>1, <3>2 DEF Carries
  <2> QED BY <1>8, <2>1, <2>3, <2>4 DEF Ends, Queue, Same
<1> QED BY <1>3, <1>4, <1>5, <1>6, <1>7, <1>8 DEF Moves
-----------------------------------------------------------------------------
\* What a task's step does to the descriptors.
SocketType == [by : Module \cup {Nobody}, is : Phase]

Leaves(t) ==
  /\ UNCHANGED <<socket, clientFd, udpFd>>
  /\ at[t] \in {"connect", "Tcp_Client_Connect"} /\ at'[t] = "loop" /\ ~ Same(inbox, t) =>
       Reached(clientFd).by \in {Udp, Tcp}
  /\ \/ at'[t] = at[t]
     \/ at[t] \notin {Opener(t), "Tcp_Client_Close", "UDP_Server_Bind", "UDP_Server_Close"}

Opens(t) ==
  /\ at[t] = Opener(t) /\ at'[t] = "loop" /\ \E id : inbox' = Posted(t, t, id)
  /\ \E fd \in Fd : NextFree(fd) /\ FdOf(t)' = fd /\ socket' = With(fd, Socket(t, "fresh"))

OpenFails(t) ==
  /\ at[t] = Opener(t) /\ at'[t] = "loop" /\ UNCHANGED <<inbox, socket>>
  /\ FdOf(t)' = NoFd

Turns(t, phase) ==
  /\ at[t] \in {"connect", "UDP_Server_Bind"} /\ at'[t] = "loop"
  /\ FdOf(t) \in Fd /\ socket[FdOf(t)].is = "fresh" /\ (t = Client => socket[FdOf(t)].by = t)
  /\ phase = "spent" => Same(inbox, t)
  /\ socket' = With(FdOf(t), [socket[FdOf(t)] EXCEPT !.is = phase])
  /\ UNCHANGED <<clientFd, udpFd>>

Closes(t) ==
  /\ at[t] \in {"Tcp_Client_Close", "UDP_Server_Close"} /\ at'[t] = "loop" /\ UNCHANGED inbox
  /\ socket' = Closed(FdOf(t))
  /\ UNCHANGED <<clientFd, udpFd>>

Forgets(t) ==
  /\ at[t] = "UDP_Server_Bind" /\ at'[t] = "loop" /\ UNCHANGED inbox
  /\ socket' = Closed(FdOf(t)) /\ FdOf(t)' = NoFd

\* The other task keeps its descriptor.
Affects(t) ==
  /\ \A u \in Ours \ {t} : FdOf(u)' = FdOf(u)
  /\ \/ Leaves(t)
     \/ Opens(t)
     \/ OpenFails(t)
     \/ \E phase \in {"bound", "connected", "spent"} : Turns(t, phase)
     \/ Closes(t)
     \/ Forgets(t)

LEMMA ClientAffects ==
  ASSUME Shape, ClientAct, UNCHANGED udpVars
  PROVE  Affects(Client)
<1>1. /\ FdOf(Client) = clientFd /\ FdOf(Client)' = clientFd' /\ FdOf(Udp) = udpFd /\ FdOf(Udp)' = udpFd'
      /\ Ours \ {Client} = {Udp} /\ udpFd' = udpFd /\ at = [t \in Module |-> at[t]] /\ Client \in Module
  BY Modules DEF FdOf, Ours, udpVars, Shape, OverTasks
<1>2. CASE ClientSocketOpens
  BY <1>1, <1>2 DEF ClientSocketOpens, Return, Affects, Opens, Opener
<1>3. CASE ClientSocketFails
  BY <1>1, <1>3 DEF ClientSocketFails, Return, Affects, OpenFails, Opener
<1>4. ASSUME NEW phase \in {"connected", "spent"}, at[Client] = "connect", at'[Client] = "loop",
             Reached(clientFd) = Socket(Client, "fresh") \/ (Connectable /\ Reached(clientFd).by = Client),
             socket' = With(clientFd, Socket(Client, phase)), UNCHANGED clientVars,
             phase = "spent" => Same(inbox, Client)
      PROVE  Affects(Client)
  <2>1. Reached(clientFd) = Socket(Client, "fresh")
    BY <1>4, Modules DEF Connectable, Ours
  <2>2. clientFd \in Fd /\ socket[clientFd] = Socket(Client, "fresh")
    BY <2>1 DEF Reached, FreeSocket, Socket
  <2>3. [socket[clientFd] EXCEPT !.is = phase] = Socket(Client, phase)
    BY <2>2 DEF Socket
  <2> QED BY <1>1, <1>4, <2>2, <2>3 DEF Affects, Turns, Socket, clientVars
<1>5. CASE /\ UNCHANGED socket /\ UNCHANGED clientVars
           /\ at[Client] \notin {Opener(Client), "Tcp_Client_Close", "UDP_Server_Bind", "UDP_Server_Close"}
           /\ \/ at[Client] \notin {"connect", "Tcp_Client_Connect"} \/ at'[Client] # "loop"
              \/ Same(inbox, Client) \/ Reached(clientFd).by \in {Udp, Tcp}
  <2>1. Leaves(Client)
    BY <1>1, <1>5 DEF Leaves, clientVars, Same
  <2> QED BY <1>1, <2>1 DEF Affects
<1>6. CASE ConnectSucceeds
  BY <1>1, <1>4, <1>5, <1>6 DEF ConnectSucceeds, Connectable, Return, Opener, Socket
<1>7. CASE ConnectFails
  BY <1>1, <1>4, <1>5, <1>7 DEF ConnectFails, Refusable, Return, Opener, Same
<1>8. CASE Tcp_Client_Close
  BY <1>1, <1>8 DEF Tcp_Client_Close, Return, Affects, Closes, clientVars
<1>9. CASE ClientPoll
  BY <1>5, <1>9 DEF ClientPoll, Receive, SelfLoop, Opener
<1>10. CASE ConnectBegins
  <2>1. at'[Client] = "connect"
    BY <1>1, <1>10 DEF ConnectBegins
  <2> QED BY <1>5, <1>10, <2>1 DEF ConnectBegins, Opener
<1>11. CASE Tcp_Client_WriteToServer \/ RecvBegins \/ RecvReturns \/ Tcp_Client_Process
  BY <1>5, <1>11 DEF Tcp_Client_WriteToServer, RecvBegins, RecvReturns, Tcp_Client_Process, Opener
<1> QED BY <1>2, <1>3, <1>6, <1>7, <1>8, <1>9, <1>10, <1>11 DEF ClientAct, ClientStep

LEMMA UdpAffects ==
  ASSUME Shape, UdpAct, UNCHANGED clientVars
  PROVE  Affects(Udp)
<1>1. /\ FdOf(Client) = clientFd /\ FdOf(Client)' = clientFd' /\ FdOf(Udp) = udpFd /\ FdOf(Udp)' = udpFd'
      /\ Ours \ {Udp} = {Client} /\ clientFd' = clientFd /\ at = [t \in Module |-> at[t]] /\ Udp \in Module
      /\ Udp # Client
  BY Modules DEF FdOf, Ours, clientVars, Shape, OverTasks
<1>2. CASE UdpSocketOpens
  BY <1>1, <1>2 DEF UdpSocketOpens, Return, Affects, Opens, Opener
<1>3. CASE UdpSocketFails
  BY <1>1, <1>3 DEF UdpSocketFails, Return, Affects, OpenFails, Opener
<1>4. CASE BindSucceeds
  <2>1. udpFd \in Fd /\ socket[udpFd].is = "fresh"
    BY <1>4 DEF BindSucceeds, Bindable, Reached, FreeSocket, Socket
  <2> QED BY <1>1, <1>4, <2>1 DEF BindSucceeds, Return, Affects, Turns, udpVars
<1>5. CASE BindFails
  BY <1>1, <1>5 DEF BindFails, Return, Affects, Forgets
<1>6. CASE /\ UNCHANGED socket /\ UNCHANGED udpVars
           /\ at[Udp] \notin {Opener(Udp), "Tcp_Client_Close", "UDP_Server_Bind", "UDP_Server_Close",
                           "connect", "Tcp_Client_Connect"}
  BY <1>1, <1>6 DEF Affects, Leaves, udpVars
<1>7. CASE UDP_Server_Close
  BY <1>1, <1>7 DEF UDP_Server_Close, Return, Affects, Closes, udpVars
<1>8. CASE UdpPoll
  BY <1>1, <1>6, <1>8 DEF UdpPoll, Receive, SelfLoop, Opener
<1>9. CASE RecvfromBegins \/ RecvfromReturns \/ UDP_Server_Data_Process \/ UDP_Server_Send
  BY <1>1, <1>6, <1>9
     DEF RecvfromBegins, RecvfromReturns, UDP_Server_Data_Process, UDP_Server_Send, Opener
<1> QED BY <1>2, <1>3, <1>4, <1>5, <1>7, <1>8, <1>9 DEF UdpAct, UdpStep

\* Whose the sockets are after a step.
LEMMA Owners ==
  ASSUME Shape, NEW t \in Ours, Affects(t)
  PROVE  /\ socket' \in [Fd -> SocketType]
         /\ FdOf(t)' \in {NoFd} \cup Fd
         /\ \A u \in Module \ {t} : OwnedBy(u)' \subseteq OwnedBy(u)
         /\ Opens(t) => OwnedBy(t)' = OwnedBy(t) \cup {FdOf(t)'}
         /\ Closes(t) \/ Forgets(t) => OwnedBy(t)' = OwnedBy(t) \ {FdOf(t)}
         /\ ~ Opens(t) => OwnedBy(t)' \subseteq OwnedBy(t)
<1>1. socket \in [Fd -> SocketType] /\ clientFd \in {NoFd} \cup Fd /\ udpFd \in {NoFd} \cup Fd
  BY DEF Shape, SocketType
<1>2. /\ FreeSocket \in SocketType /\ FreeSocket.by = Nobody /\ Nobody \notin Module
      /\ \A u \in Module : Socket(u, "fresh") \in SocketType /\ Socket(u, "fresh").by = u
      /\ \A s \in SocketType, phase \in {"bound", "connected", "spent"} :
           [s EXCEPT !.is = phase] \in SocketType /\ [s EXCEPT !.is = phase].by = s.by
  BY SocketsAssumption DEF FreeSocket, Socket, SocketType, Phase
<1>3. FdOf(t) \in {NoFd} \cup Fd /\ t \in Module /\ NoFd \notin Fd
  BY <1>1, Modules DEF FdOf, NoFd, Fd
<1>4. ASSUME NEW fd \in Fd, NEW s \in SocketType, socket' = [socket EXCEPT ![fd] = s]
      PROVE  /\ socket' \in [Fd -> SocketType]
             /\ \A u : OwnedBy(u)' = IF s.by = u THEN OwnedBy(u) \cup {fd} ELSE OwnedBy(u) \ {fd}
  BY <1>1, <1>4 DEF OwnedBy
<1>5. CASE UNCHANGED socket /\ ~ Opens(t)
  <2>1. \A u : OwnedBy(u)' = OwnedBy(u)
    BY <1>5 DEF OwnedBy
  <2>2. FdOf(t)' \in {NoFd} \cup Fd
    BY <1>1, <1>3, <1>5 DEF Affects, Leaves, OpenFails, Turns, Closes, Forgets, FdOf
  <2>3. Closes(t) \/ Forgets(t) => OwnedBy(t) = OwnedBy(t) \ {FdOf(t)}
    <3>1. CASE FdOf(t) \in Fd
      <4>1. Closes(t) \/ Forgets(t) => socket' = [socket EXCEPT ![FdOf(t)] = FreeSocket]
        BY <3>1 DEF Closes, Forgets, Closed, With
      <4> QED BY <1>2, <1>3, <1>4, <2>1, <3>1, <4>1
    <3>2. CASE FdOf(t) = NoFd
      BY <1>3, <3>2 DEF OwnedBy
    <3> QED BY <1>3, <3>1, <3>2
  <2> QED BY <1>1, <1>5, <2>1, <2>2, <2>3
<1>6. CASE Opens(t)
  <2>1. PICK fd \in Fd : FdOf(t)' = fd /\ socket' = [socket EXCEPT ![fd] = Socket(t, "fresh")]
    BY <1>6 DEF Opens, With
  <2>2. at[t] = Opener(t) /\ ~ Closes(t) /\ ~ Forgets(t)
    BY <1>6 DEF Opens, Closes, Forgets, Opener
  <2>3. Socket(t, "fresh") \in SocketType /\ Socket(t, "fresh").by = t
    BY <1>2, <1>3
  <2>4. /\ socket' \in [Fd -> SocketType]
        /\ \A u : OwnedBy(u)' = IF t = u THEN OwnedBy(u) \cup {fd} ELSE OwnedBy(u) \ {fd}
    <3> DEFINE new == Socket(t, "fresh")
    <3>1. new \in SocketType /\ new.by = t /\ socket' = [socket EXCEPT ![fd] = new]
      BY <2>1, <2>3
    <3> HIDE DEF new
    <3> QED BY <1>4, <3>1
  <2> QED BY <1>6, <2>1, <2>2, <2>4
<1>7. ASSUME NEW phase \in {"bound", "connected", "spent"}, Turns(t, phase), ~ Closes(t), ~ Forgets(t)
      PROVE  /\ socket' \in [Fd -> SocketType] /\ FdOf(t)' \in {NoFd} \cup Fd
             /\ \A u \in Module : OwnedBy(u)' = OwnedBy(u)
  <2>1. /\ FdOf(t) \in Fd /\ socket' = [socket EXCEPT ![FdOf(t)] = [socket[FdOf(t)] EXCEPT !.is = phase]]
        /\ FdOf(t)' = FdOf(t)
    BY <1>7 DEF Turns, With, FdOf
  <2>2. /\ socket[FdOf(t)] \in SocketType
        /\ [socket[FdOf(t)] EXCEPT !.is = phase] \in SocketType
        /\ [socket[FdOf(t)] EXCEPT !.is = phase].by = socket[FdOf(t)].by
    BY <1>1, <1>2, <2>1
  <2>3. /\ socket' \in [Fd -> SocketType]
        /\ \A u : OwnedBy(u)' = IF socket[FdOf(t)].by = u THEN OwnedBy(u) \cup {FdOf(t)} ELSE OwnedBy(u) \ {FdOf(t)}
    BY <1>4, <2>1, <2>2
  <2>4. \A u : socket[FdOf(t)].by = u <=> FdOf(t) \in OwnedBy(u)
    BY <2>1 DEF OwnedBy
  <2> QED BY <1>3, <2>1, <2>3, <2>4
<1>8. CASE Closes(t) \/ Forgets(t)
  <2>1. /\ FdOf(t)' \in {NoFd} \cup Fd /\ ~ Opens(t)
        /\ socket' = IF FdOf(t) \in Fd THEN [socket EXCEPT ![FdOf(t)] = FreeSocket] ELSE socket
    BY <1>3, <1>8 DEF Closes, Forgets, Opens, Opener, FdOf, Closed, With
  <2>2. CASE FdOf(t) \in Fd
    <3>1. /\ socket' \in [Fd -> SocketType]
          /\ \A u : OwnedBy(u)' = IF Nobody = u THEN OwnedBy(u) \cup {FdOf(t)} ELSE OwnedBy(u) \ {FdOf(t)}
      BY <1>2, <1>4, <2>1, <2>2
    <3> QED BY <1>2, <1>3, <2>1, <3>1
  <2>3. CASE FdOf(t) \notin Fd
    BY <1>5, <2>1, <2>3
  <2> QED BY <2>2, <2>3
<1>9. CASE ~ Opens(t) /\ ~ Closes(t) /\ ~ Forgets(t)
  <2>1. \/ UNCHANGED socket
        \/ \E phase \in {"bound", "connected", "spent"} : Turns(t, phase)
    BY <1>9 DEF Affects, Leaves, OpenFails
  <2>2. CASE \E phase \in {"bound", "connected", "spent"} : Turns(t, phase)
    <3>1. /\ socket' \in [Fd -> SocketType] /\ FdOf(t)' \in {NoFd} \cup Fd
          /\ \A u \in Module : OwnedBy(u)' = OwnedBy(u)
      BY <1>7, <1>9, <2>2
    <3> QED BY <1>3, <1>9, <3>1
  <2>3. CASE UNCHANGED socket
    BY <1>5, <1>9, <2>3
  <2> QED BY <2>1, <2>2, <2>3
<1> QED BY <1>6, <1>8, <1>9
-----------------------------------------------------------------------------
\* Every step of the system is one task's, or the TCP server's.
StepOf(t) ==
  /\ Moves(t) /\ Alone(t) /\ Affects(t)
  /\ \A u \in Ours \ {t} : Same(asked, u)

LEMMA Stepping ==
  ASSUME Shape, \A t \in Ours : Follows(t), Next
  PROVE  (\E t \in Ours : StepOf(t)) \/ TcpTakes
<1>1. Client \in Ours /\ Udp \in Ours
  BY DEF Ours
<1>2. CASE StartClient \/ StartUdp \/ \E t \in Ours : Ask(t)
  <2>1. UNCHANGED at \/ (StartClient \/ StartUdp)
    BY <1>2 DEF Ask
  <2>2. UNCHANGED <<socket, clientFd, udpFd>>
    BY <1>2 DEF StartClient, StartUdp, Ask, clientVars, udpVars
  <2>3. PICK t \in Ours : Moves(t) /\ Alone(t) /\ \A u \in Ours \ {t} : Same(asked, u)
    BY <1>2, OthersMove
  <2>4. Affects(t)
    <3>1. at'[t] = at[t] \/ at[t] = "absent"
      BY <2>1, Modules DEF StartClient, StartUdp, Start, Shape, OverTasks
    <3>2. \A u \in Ours : FdOf(u)' = FdOf(u)
      BY <2>2 DEF FdOf
    <3> QED BY <2>2, <3>1, <3>2 DEF Affects, Leaves, Opener
  <2> QED BY <2>3, <2>4 DEF StepOf
<1>3. CASE ClientAct /\ UNCHANGED <<udpVars, asked>>
  BY <1>1, <1>3, ClientMoves, ClientAffects DEF StepOf, Same
<1>4. CASE UdpAct /\ UNCHANGED <<clientVars, asked>>
  BY <1>1, <1>4, UdpMoves, UdpAffects DEF StepOf, Same
<1> QED BY <1>2, <1>3, <1>4, Steps

LEMMA Taken ==
  ASSUME Shape, TcpTakes
  PROVE  /\ socket' \in [Fd -> SocketType]
         /\ \A u \in Ours : OwnedBy(u)' \subseteq OwnedBy(u)
<1>1. PICK fd \in Fd : socket' = [socket EXCEPT ![fd] = Socket(Tcp, "fresh")]
  BY DEF TcpTakes, With
<1>2. Socket(Tcp, "fresh") \in SocketType /\ Socket(Tcp, "fresh").by = Tcp /\ Tcp \notin Ours
  BY Modules DEF Socket, SocketType, Phase
<1> QED BY <1>1, <1>2 DEF Shape, OwnedBy, SocketType

Inv == Shape /\ \A t \in Ours : Follows(t) /\ Queue(t)

LEMMA InvInit == Init => Inv
<1> SUFFICES ASSUME Init PROVE Inv
  OBVIOUS
<1>1. /\ inbox = [t \in Module |-> << >>] /\ at = [t \in Module |-> "absent"]
      /\ st = [t \in Module |-> Status("IDLE_ST", "IDLE_ST", Null)]
      /\ socket = [fd \in Fd |-> FreeSocket] /\ clientFd = NoFd /\ udpFd = NoFd
      /\ asked = [t \in Ours |-> 0]
  BY DEF Init, ClientInit, UdpInit, ClientStatus, UdpStatus, Ours
<1>2. Shape
  <2>1. FreeSocket \in SocketType
    BY DEF FreeSocket, Socket, SocketType, Phase
  <2>2. MaxAsked \in [Ours -> Nat] /\ Client \in Ours
    BY EndpointsAssumption DEF Ours
  <2>3. OverTasks(inbox) /\ OverTasks(at) /\ OverTasks(st)
    BY <1>1 DEF OverTasks
  <2>4. inbox[Wifi] = << >> /\ inbox[Tcp] = << >>
    BY <1>1, Modules
  <2>5. socket \in [Fd -> SocketType]
    BY <1>1, <2>1
  <2> QED BY <1>1, <2>2, <2>3, <2>4, <2>5 DEF Shape, SocketType
<1>3. ASSUME NEW t \in Ours PROVE Follows(t) /\ Queue(t)
  <2>1. /\ inbox[t] = << >> /\ at[t] = "absent" /\ st[t] = Status("IDLE_ST", "IDLE_ST", Null)
        /\ asked[t] = 0
    BY <1>1, Modules
  <2>2. Single(t, << >>) /\ Len(<< >>) = 0 /\ \A S : << >> \in Seq(S)
    BY DEF Single
  <2> QED BY <2>1, <2>2, Dictionary DEF Follows, Queue, Started, Carries, Outside, Status
<1> QED BY <1>2, <1>3 DEF Inv

LEMMA InvStep == Inv /\ [Next]_endpointVars => Inv'
<1> SUFFICES ASSUME Inv, [Next]_endpointVars PROVE Inv'
  OBVIOUS
<1>1. Shape /\ \A t \in Ours : Follows(t) /\ Queue(t) /\ asked[t] \in Nat
  BY DEF Inv, Shape
<1>2. CASE UNCHANGED endpointVars
  BY <1>2
     DEF endpointVars, taskVars, clientVars, udpVars, Inv, Shape, OverTasks, Follows, Queue, Carries,
         Outside, Started
<1>3. CASE Next
  <2>1. (\E t \in Ours : StepOf(t)) \/ TcpTakes
    BY <1>1, <1>3, Stepping
  <2>2. ASSUME NEW u \in Ours PROVE Follows(u)' /\ Queue(u)'
    <3>1. CASE TcpTakes
      BY <1>1, <3>1, FollowsKept, QueueKept DEF TcpTakes, taskVars, Same
    <3>2. ASSUME NEW t \in Ours, StepOf(t) PROVE Follows(u)' /\ Queue(u)'
      <4>1. CASE u = t
        BY <1>1, <3>2, <4>1, FollowsStep, QueueStep DEF StepOf
      <4>2. CASE u # t
        <5>1. Same(inbox, u) /\ Same(st, u) /\ Same(at, u) /\ Same(asked, u)
          BY <3>2, <4>2, Modules DEF StepOf, Alone
        <5> QED BY <1>1, <5>1, FollowsKept, QueueKept
      <4> QED BY <4>1, <4>2
    <3> QED BY <2>1, <3>1, <3>2
  <2>3. /\ asked' \in [Ours -> Nat] /\ \A t \in Ours : asked'[t] <= MaxAsked[t]
        /\ Together \/ asked'[Client] = 0 \/ asked'[Udp] = 0
    <3>1. CASE UNCHANGED asked
      BY <1>1, <3>1 DEF Shape
    <3>2. ASSUME NEW t \in Ours, Ask(t)
          PROVE  /\ asked' \in [Ours -> Nat] /\ \A u \in Ours : asked'[u] <= MaxAsked[u]
                 /\ Together \/ asked'[Client] = 0 \/ asked'[Udp] = 0
      <4>1. /\ asked \in [Ours -> Nat] /\ MaxAsked \in [Ours -> Nat]
            /\ asked' = [asked EXCEPT ![t] = asked[t] + 1] /\ asked[t] < MaxAsked[t]
            /\ \A u \in Ours : asked[u] <= MaxAsked[u]
        BY <1>1, <3>2, EndpointsAssumption DEF Shape, Ask, Ours
      <4>2. asked' \in [Ours -> Nat] /\ \A u \in Ours : asked'[u] <= MaxAsked[u]
        BY <4>1
      <4>3. Together \/ \A u \in Ours \ {t} : asked[u] = 0 /\ asked'[u] = 0
        BY <3>2, <4>1 DEF Ask, Ours
      <4> QED BY <4>2, <4>3, Modules DEF Ours
    <3> QED BY <1>3, <3>1, <3>2, Steps DEF StartClient, StartUdp, TcpTakes
  <2>4. /\ OverTasks(inbox') /\ OverTasks(st') /\ OverTasks(at')
        /\ inbox'[Wifi] = << >> /\ inbox'[Tcp] = << >>
    BY <1>1, <2>1, Modules DEF Shape, StepOf, Alone, Same, TcpTakes, taskVars
  <2>5. socket' \in [Fd -> SocketType] /\ clientFd' \in {NoFd} \cup Fd /\ udpFd' \in {NoFd} \cup Fd
    <3>1. CASE TcpTakes
      BY <1>1, <3>1, Taken DEF TcpTakes, clientVars, udpVars, Shape
    <3>2. ASSUME NEW t \in Ours, StepOf(t)
          PROVE  socket' \in [Fd -> SocketType] /\ \A u \in Ours : FdOf(u)' \in {NoFd} \cup Fd
      <4>1. socket' \in [Fd -> SocketType] /\ FdOf(t)' \in {NoFd} \cup Fd
        BY <1>1, <3>2, Owners DEF StepOf
      <4>2. \A u \in Ours \ {t} : FdOf(u)' = FdOf(u)
        BY <3>2 DEF StepOf, Affects
      <4>3. \A u \in Ours : FdOf(u) \in {NoFd} \cup Fd
        BY <1>1 DEF Shape, FdOf
      <4> QED BY <4>1, <4>2, <4>3
    <3>3. /\ Client \in Ours /\ Udp \in Ours
          /\ FdOf(Client)' = clientFd' /\ FdOf(Udp)' = udpFd'
      BY Modules DEF FdOf, Ours
    <3> QED BY <2>1, <3>1, <3>2, <3>3
  <2> QED BY <2>2, <2>3, <2>4, <2>5 DEF Inv, Shape, SocketType
<1> QED BY <1>2, <1>3

LEMMA Invariant == Spec => []Inv
BY InvInit, InvStep, PTL DEF Spec

LEMMA TypeFromInv == Inv => EndpointsTypeOK
<1> SUFFICES ASSUME Inv PROVE EndpointsTypeOK
  OBVIOUS
<1>1. ASSUME NEW t \in Ours
      PROVE  /\ inbox[t] \in Seq([source : {Wifi, t}, id : MessageOf(t)])
             /\ Handlers(t) \cup {Null} \subseteq FnOf(t)
             /\ Waiting(t) \subseteq {"connect", "recv", "recvfrom"}
  <2>1. Said(t) \cup {"OPEN_SOCKFD"} \subseteq MessageOf(t)
    BY <1>1 DEF Said, MessageOf, ClientMessage, UdpMessage, Ours
  <2>2. Mail(t, Said(t)) \subseteq [source : {Wifi, t}, id : MessageOf(t)]
    BY <2>1 DEF Mail, Request, Message
  <2>3. inbox[t] \in Seq(Mail(t, Said(t)))
    BY DEF Inv, Follows, Carries
  <2>4. \A i \in 1 .. Len(inbox[t]) : inbox[t][i] \in [source : {Wifi, t}, id : MessageOf(t)]
    BY <2>2, <2>3
  <2>5. Handlers(t) \cup {Null} \subseteq FnOf(t)
    <3>1. CASE t = Client
      <4>1. RowsOf(t) = ClientTable /\ DOMAIN ClientTable = 1 .. 11
        BY <3>1 DEF RowsOf, ClientTable
      <4>2. /\ ClientTable[1].fn = "Tcp_Client_SockFd_Open" /\ ClientTable[2].fn = "Tcp_Client_Connect"
            /\ ClientTable[3].fn = "Tcp_Client_WriteToServer"
            /\ ClientTable[4].fn = "Tcp_Client_ReadFromServer"
            /\ ClientTable[5].fn = "Tcp_Client_Process" /\ ClientTable[7].fn = "Tcp_Client_Close"
            /\ ClientTable[11].fn = Null
        BY DEF ClientTable, Row
      <4> QED BY <3>1, <4>1, <4>2 DEF FnOf, Handlers
    <3>2. CASE t = Udp
      <4>1. RowsOf(t) = UdpTable /\ DOMAIN UdpTable = 1 .. 9 /\ t # Client
        BY <3>2, Modules DEF RowsOf, UdpTable
      <4>2. /\ UdpTable[1].fn = "UDP_Server_SockFd_Open" /\ UdpTable[2].fn = "UDP_Server_Bind"
            /\ UdpTable[3].fn = "UDP_Server_Listen" /\ UdpTable[4].fn = "UDP_Server_Data_Process"
            /\ UdpTable[5].fn = "UDP_Server_Send" /\ UdpTable[6].fn = "UDP_Server_Close"
            /\ UdpTable[9].fn = Null
        BY DEF UdpTable, Row
      <4> QED BY <4>1, <4>2 DEF FnOf, Handlers
    <3> QED BY <3>1, <3>2 DEF Ours
  <2> QED BY <2>3, <2>4, <2>5, SeqOfMembers DEF Waiting
<1>2. ASSUME NEW t \in Ours
      PROVE  /\ st[t] \in [cur : StateOf(t), prev : StateOf(t), fn : FnOf(t)]
             /\ at[t] \in {"absent", "loop", "connect", "recv", "recvfrom"} \cup (FnOf(t) \ {Null})
             /\ asked[t] \in 0 .. MaxAsked[t]
  <2>1. /\ st[t] \in [cur : StateOf(t), prev : StateOf(t), fn : Handlers(t) \cup {Null}]
        /\ at[t] \in {"absent", "loop"} \cup Handlers(t) \cup Waiting(t)
        /\ asked[t] \in Nat /\ asked[t] <= MaxAsked[t] /\ MaxAsked[t] \in Nat
        /\ Null \notin Handlers(t)
    BY Dictionary, EndpointsAssumption DEF Inv, Follows, Shape, Ours
  <2>2. Handlers(t) \cup {Null} \subseteq FnOf(t) /\ Waiting(t) \subseteq {"connect", "recv", "recvfrom"}
    BY <1>1
  <2>3. st[t] \in [cur : StateOf(t), prev : StateOf(t), fn : FnOf(t)]
    BY <2>1, <2>2
  <2>4. at[t] \in {"absent", "loop", "connect", "recv", "recvfrom"} \cup (FnOf(t) \ {Null})
    BY <2>1, <2>2
  <2> QED BY <2>1, <2>3, <2>4
<1> QED BY <1>1, <1>2 DEF EndpointsTypeOK, Inv, Shape, Ours

\* Every variable of the two tasks has its type; for a message this says that
\* a task only gets requests and messages of its own.
THEOREM EndpointsTypeCorrect == Spec => []EndpointsTypeOK
BY Invariant, TypeFromInv, PTL

\* A task never has two messages of its own under way, and none while it is in
\* a handler, whatever the requests, the other task and a full mailbox do.
THEOREM TokenUnique == Spec => []OneTokenEach
<1>1. Inv => OneTokenEach
  <2> SUFFICES ASSUME Inv, NEW t \in Ours,
                      NEW own, own = {i \in DOMAIN inbox[t] : inbox[t][i].source = t}
               PROVE  /\ Cardinality(own) <= 1
                      /\ at[t] \notin {"absent", "loop"} => own = {}
    BY DEF OneTokenEach, Ours
  <2>1. \A i, j \in own : i = j
    BY DEF Inv, Follows, Single
  <2>2. Cardinality(own) <= 1
    <3>1. CASE own = {}
      BY <3>1, FS_EmptySet
    <3>2. ASSUME NEW i \in own PROVE Cardinality(own) = 1
      <4>1. own = {i}
        BY <2>1, <3>2
      <4> QED BY <4>1, FS_Singleton
    <3> QED BY <3>1, <3>2
  <2>3. ASSUME at[t] \notin {"absent", "loop"} PROVE own = {}
    <3>1. inbox[t] \in Seq(Mail(t, {}))
      BY <2>3 DEF Inv, Follows, Carries, Outside
    <3>2. \A i \in DOMAIN inbox[t] : inbox[t][i] = Request
      BY <3>1 DEF Mail
    <3> QED BY <3>2, Modules DEF Request, Message
  <2> QED BY <2>2, <2>3
<1> QED BY <1>1, Invariant, PTL
-----------------------------------------------------------------------------
\* What a task knows of its socket.
LEMMA SomeRoom ==
  ASSUME Inv, Roomy, NEW t \in Ours, inbox[t] = << >>, ~ Outside(t)
  PROVE  Occupied < NSlots
<1>1. PICK u \in Ours : u # t /\ Ours = {t, u}
  BY Modules DEF Ours
<1>2. /\ asked \in [Ours -> Nat] /\ MaxAsked \in [Ours -> Nat] /\ asked[u] <= MaxAsked[u]
      /\ Together \/ asked[t] = 0 \/ asked[u] = 0
      /\ Len(inbox[u]) <= asked[u] /\ inbox[u] \in Seq(Mail(u, Said(u)))
      /\ inbox[Wifi] = << >> /\ inbox[Tcp] = << >>
  BY <1>1, EndpointsAssumption DEF Inv, Shape, Queue, Follows, Carries, Ours
<1>3. 0 < asked[t]
  <2>1. Carries(t, {}) /\ Handler(at[t]) = st[t].fn /\ at[t] \in Handlers(t) \cup Waiting(t)
    BY DEF Inv, Follows, Outside
  <2>2. Started(t)
    BY <2>1, Dictionary DEF Started
  <2>3. Len(inbox[t]) = 0
    OBVIOUS
  <2> QED BY <1>2, <2>1, <2>2, <2>3 DEF Inv, Queue
<1>4. Len(inbox[u]) \in 0 .. asked[u] /\ u \in Module /\ asked[u] \in Nat
  BY <1>1, <1>2, Modules
<1>5. \A v \in Module \ {u} : inbox[v] = << >>
  BY <1>1, <1>2, Modules DEF Ours
<1>6. Occupied \in 0 .. asked[u]
  BY <1>4, <1>5, OccupiedByOne
<1>7. NSlots \in Nat \ {0} /\ Together \in BOOLEAN
  BY TasksAssumption, EndpointsAssumption
<1>8. CASE Together
  BY <1>1, <1>2, <1>6, <1>7, <1>8 DEF Roomy
<1>9. CASE ~ Together
  BY <1>1, <1>2, <1>3, <1>6, <1>7, <1>9
<1> QED BY <1>8, <1>9

LEMMA KnowsInit == Init => \A t \in Ours : Knows(t)
<1> SUFFICES ASSUME Init, NEW t \in Ours PROVE OwnedBy(t) = {}
  BY DEF Knows
<1> QED BY Modules, SocketsAssumption DEF Init, OwnedBy, FreeSocket, Socket

LEMMA KnowsStep ==
  ASSUME Inv, Roomy, NEW t \in Ours, Knows(t), StepOf(t)
  PROVE  Knows(t)'
<1>0. /\ t \in Module \ {Wifi} /\ inbox[t] \in Seq(Mail(t, Said(t))) /\ Single(t, inbox[t])
      /\ Shape /\ Follows(t)
  BY Modules DEF Inv, Follows, Carries
<1>1. ASSUME ~ Outside(t), at'[t] = "loop"
      PROVE  /\ Ends(t) /\ st'[t].cur = st[t].cur /\ st'[t].fn = st[t].fn
             /\ st[t].fn = Handler(at[t]) /\ st[t].fn \in Handlers(t) /\ st[t].cur = Home(st[t].fn)
  <2>1. Ends(t)
    BY <1>0, <1>1, Dictionary
       DEF StepOf, Moves, Asked, Starts, Takes, Repeats, Waits, Outside, Same
  <2>2. st[t].fn = Handler(at[t]) /\ at[t] \in Handlers(t) \cup Waiting(t)
    BY <1>0, <1>1 DEF Follows, Outside
  <2>3. st[t].fn \in Handlers(t) /\ st[t].cur = Home(st[t].fn)
    BY <1>0, <2>2, Dictionary DEF Follows
  <2> QED BY <1>0, <2>1, <2>2, <2>3 DEF Ends, Follows
<1>2. CASE Opens(t)
  <2>1. ~ Outside(t) /\ at'[t] = "loop" /\ at[t] = Opener(t)
    BY <1>2 DEF Opens, Opener, Outside
  <2>2. OwnedBy(t) = {}
    BY <2>1 DEF Knows
  <2>3. OwnedBy(t)' \subseteq {FdOf(t)'}
    BY <1>0, <1>2, <2>2, Owners DEF StepOf
  <2>4. inbox'[t] # << >>
    <3>1. PICK id : inbox' = Posted(t, t, id)
      BY <1>2 DEF Opens
    <3>2. OverTasks(inbox) /\ t \in Module
      BY <1>0 DEF Shape
    <3>3. inbox'[t] \in {inbox[t], Append(inbox[t], Message(t, id))}
      BY <3>1, <3>2, Posting
    <3>4. Append(inbox[t], Message(t, id)) # << >>
      BY <1>0, Putting
    <3>5. CASE inbox[t] = << >>
      BY <2>1, <3>1, <3>2, <3>4, <3>5, Posting, SomeRoom
    <3> QED BY <3>3, <3>4, <3>5
  <2>5. st'[t].cur # "IDLE_ST" /\ at'[t] # Opener(t)
    BY <1>1, <2>1, Dictionary DEF Opener, Handler, Home
  <2> QED BY <2>3, <2>4, <2>5 DEF Knows
<1>3. CASE OpenFails(t)
  <2>1. OwnedBy(t) = {}
    BY <1>3 DEF OpenFails, Knows
  <2> QED BY <1>0, <1>2, <2>1, Owners DEF Knows, StepOf
<1>4. CASE Closes(t) \/ Forgets(t)
  <2>1. OwnedBy(t)' = {}
    BY <1>0, <1>4, Owners DEF Knows, StepOf
  <2> QED BY <2>1 DEF Knows
<1>5. ASSUME NEW phase \in {"bound", "connected", "spent"}, Turns(t, phase)
      PROVE  Knows(t)'
  <2>1. /\ at'[t] = "loop" /\ ~ Outside(t) /\ at[t] \in {"connect", "UDP_Server_Bind"}
        /\ FdOf(t)' = FdOf(t)
    BY <1>5 DEF Turns, Outside, FdOf
  <2>2. st'[t].cur # "IDLE_ST" /\ st'[t].fn # Opener(t) /\ at'[t] # Opener(t)
    BY <1>1, <2>1 DEF Handler, Home, Opener
  <2>3. OwnedBy(t)' \subseteq OwnedBy(t) \/ Opens(t)
    BY <1>0, Owners DEF StepOf
  <2> QED BY <1>2, <2>1, <2>2, <2>3 DEF Knows
<1>6. CASE Leaves(t)
  <2>1. OwnedBy(t)' = OwnedBy(t) /\ FdOf(t)' = FdOf(t)
    BY <1>6 DEF Leaves, OwnedBy, FdOf
  <2> SUFFICES ASSUME OwnedBy(t) # {}
               PROVE  /\ at'[t] # Opener(t)
                      /\ Outside(t)' => st'[t].cur # "IDLE_ST"
                      /\ Outside(t)' /\ st'[t].fn = Opener(t) => inbox'[t] # << >>
    BY <2>1 DEF Knows
  <2>2. /\ at[t] # Opener(t)
        /\ Outside(t) => st[t].cur # "IDLE_ST"
        /\ Outside(t) /\ st[t].fn = Opener(t) => inbox[t] # << >>
    BY DEF Knows
  <2>3. CASE Asked(t)
    <3>1. inbox[t] # << >> => inbox'[t] # << >>
      BY <1>0, <2>3, Putting DEF Asked
    <3> QED BY <2>2, <2>3, <3>1 DEF Asked, Same, Outside
  <2>4. CASE Starts(t)
    BY <2>2, <2>4, Dictionary DEF Starts, Same, Outside
  <2>5. CASE Takes(t)
    <3>1. \A id \in Said(t) : Taker(id) # Opener(t) /\ Taker(id) \notin {"absent", "loop"}
      BY DEF Said, Taker, Opener
    <3>2. st[t].cur # "IDLE_ST" /\ Opener(t) # Null
      BY <2>2, <2>5, Dictionary DEF Takes, Outside
    <3>3. CASE st'[t] = Status("SOCKFD_ST", "SOCKFD_ST", Null) /\ at'[t] = "loop"
      BY <3>2, <3>3, Dictionary DEF Status
    <3>4. ASSUME NEW id \in Said(t), at'[t] = Taker(id)
          PROVE  at'[t] # Opener(t) /\ ~ Outside(t)'
      BY <3>1, <3>4 DEF Outside
    <3> QED BY <2>5, <3>2, <3>3, <3>4 DEF Takes
  <2>6. CASE Repeats(t)
    BY <1>0, <2>2, <2>6, Dictionary DEF Repeats, Follows, Outside, Same
  <2>7. CASE Waits(t)
    BY <2>2, <2>7, Dictionary DEF Waits, Outside, Same
  <2>8. CASE Ends(t)
    <3>1. at'[t] = "loop" /\ ~ Outside(t)
      BY <2>8 DEF Ends
    <3>2. at[t] \notin {Opener(t), "Tcp_Client_Close", "UDP_Server_Bind", "UDP_Server_Close"}
      BY <1>6, <3>1 DEF Leaves, Outside
    <3>3. Handler(at[t]) # Opener(t) /\ Home(Handler(at[t])) # "IDLE_ST"
      BY <3>2 DEF Handler, Home, Opener
    <3> QED BY <1>1, <3>1, <3>3, Dictionary
  <2> QED BY <2>3, <2>4, <2>5, <2>6, <2>7, <2>8 DEF StepOf, Moves
<1> QED BY <1>2, <1>3, <1>4, <1>5, <1>6 DEF StepOf, Affects

Knowing == Inv /\ \A t \in Ours : Knows(t)

LEMMA KnowingStep ==
  ASSUME Roomy
  PROVE  Knowing /\ [Next]_endpointVars => Knowing'
<1> SUFFICES ASSUME Knowing, [Next]_endpointVars, NEW t \in Ours PROVE Knows(t)'
  BY InvStep DEF Knowing
<1>1. Inv /\ Knows(t) /\ Shape
  BY DEF Knowing, Inv
<1>2. CASE UNCHANGED endpointVars
  BY <1>1, <1>2 DEF endpointVars, taskVars, clientVars, udpVars, Knows, OwnedBy, FdOf, Outside
<1>3. CASE TcpTakes
  <2>1. OwnedBy(t)' \subseteq OwnedBy(t)
    BY <1>1, <1>3, Taken
  <2> QED BY <1>1, <1>3, <2>1 DEF TcpTakes, taskVars, clientVars, udpVars, Knows, FdOf, Outside
<1>4. ASSUME NEW u \in Ours, StepOf(u), u # t PROVE Knows(t)'
  <2>1. OwnedBy(t)' \subseteq OwnedBy(t) /\ FdOf(t)' = FdOf(t)
    BY <1>1, <1>4, Owners, Modules DEF StepOf, Affects
  <2>2. Same(inbox, t) /\ Same(st, t) /\ Same(at, t)
    BY <1>4, Modules DEF StepOf, Alone
  <2> QED BY <1>1, <2>1, <2>2 DEF Knows, Same, Outside
<1>5. CASE Next
  BY <1>1, <1>3, <1>4, <1>5, Stepping, KnowsStep DEF Inv
<1> QED BY <1>2, <1>5

\* Neither task ever has two sockets: however requests interrupt it, it closes
\* the one it has before it opens another.  It takes a mailbox that the other
\* task's requests cannot fill: in a full one the message that takes the task
\* on after its open is refused, and its self-loop opens a second socket.
THEOREM SocketUnique ==
  ASSUME Roomy
  PROVE  Spec => []OneSocketEach
<1>1. Init => Knowing
  BY InvInit, KnowsInit DEF Knowing
<1>2. Knowing /\ [Next]_endpointVars => Knowing'
  BY KnowingStep
<1>3. Knowing => OneSocketEach
  <2> SUFFICES ASSUME Knowing, NEW t \in Ours PROVE Cardinality(OwnedBy(t)) <= 1
    BY DEF OneSocketEach, Ours
  <2>1. OwnedBy(t) \in {{}, {FdOf(t)}}
    BY DEF Knowing, Knows
  <2> QED BY <2>1, FS_EmptySet, FS_Singleton
<1> QED BY <1>1, <1>2, <1>3, PTL DEF Spec
-----------------------------------------------------------------------------
\* From here on the task is in these handlers and has these messages only.
Trail(t, ids, fns) ==
  /\ Carries(t, ids)
  /\ st[t].fn \in fns \cup {Null}
  /\ Opener(t) \in fns \/ st[t].cur # "IDLE_ST"

LEMMA TrailKept ==
  ASSUME NEW t \in Ours, NEW ids, NEW fns, Trail(t, ids, fns), Same(inbox, t), Same(st, t)
  PROVE  Trail(t, ids, fns)'
BY DEF Trail, Carries, Same

LEMMA TrailStep ==
  ASSUME NEW t \in Ours, NEW ids, NEW fns, Follows(t), Moves(t), Trail(t, ids, fns),
         \A id \in ids : Taker(id) \in fns /\ (Opener(t) \in fns \/ Home(Taker(id)) # "IDLE_ST"),
         Ends(t) => Same(inbox, t) \/ Says(st[t].fn) \subseteq ids
  PROVE  Trail(t, ids, fns)'
<1>1. /\ t \in Module \ {Wifi} /\ inbox[t] \in Seq(Mail(t, ids)) /\ Single(t, inbox[t])
      /\ st[t].fn \in fns \cup {Null} /\ (Opener(t) \in fns \/ st[t].cur # "IDLE_ST")
  BY Modules DEF Trail, Carries, Follows
<1>2. CASE Asked(t)
  <2>1. inbox'[t] \in Seq(Mail(t, ids))
    BY <1>1, <1>2, Putting DEF Asked
  <2> QED BY <1>1, <1>2, <2>1 DEF Asked, Same, Trail, Carries
<1>3. CASE Starts(t) \/ Repeats(t) \/ Waits(t)
  BY <1>3, TrailKept DEF Starts, Repeats, Waits
<1>4. CASE Takes(t)
  <2>1. /\ inbox'[t] \in Seq(Mail(t, ids))
        /\ Head(inbox[t]) = Request \/ \E id \in ids : Head(inbox[t]) = Message(t, id)
    BY <1>1, <1>4, Taking DEF Takes
  <2>2. CASE st'[t] = Status("SOCKFD_ST", "SOCKFD_ST", Null)
    BY <2>1, <2>2 DEF Trail, Carries, Status
  <2>3. CASE st[t].cur = "IDLE_ST" /\ st'[t] = Status("SOCKFD_ST", st[t].cur, Opener(t))
    BY <1>1, <2>1, <2>3 DEF Trail, Carries, Status
  <2>4. ASSUME NEW id \in Said(t), Head(inbox[t]) = Message(t, id),
               st'[t] = Status(Home(Taker(id)), st[t].cur, Taker(id))
        PROVE  Trail(t, ids, fns)'
    <3>0. \A m : Message(t, m).source = t /\ Message(t, m).id = m /\ Request.source # t
      BY <1>1 DEF Request, Message
    <3>1. id \in ids
      BY <2>1, <2>4, <3>0
    <3> QED BY <2>1, <2>4, <3>1 DEF Trail, Carries, Status
  <2> QED BY <1>4, <2>2, <2>3, <2>4 DEF Takes
<1>5. CASE Ends(t)
  <2>1. /\ Handler(at[t]) = st[t].fn /\ Carries(t, {})
        /\ st'[t].fn = st[t].fn /\ st'[t].cur = st[t].cur
    BY <1>5 DEF Ends, Follows, Outside
  <2>2. CASE Same(inbox, t)
    BY <1>1, <2>1, <2>2 DEF Trail, Carries, Same
  <2>3. ASSUME NEW id \in Says(st[t].fn), id \in ids, inbox'[t] = Append(inbox[t], Message(t, id))
        PROVE  Trail(t, ids, fns)'
    <3>1. inbox'[t] \in Seq(Mail(t, {id}))
      BY <1>1, <2>1, <2>3, Putting DEF Carries
    <3>2. inbox'[t] \in Seq(Mail(t, ids))
      BY <2>3, <3>1, More
    <3> QED BY <1>1, <2>1, <3>2 DEF Trail, Carries
  <2> QED BY <1>5, <2>1, <2>2, <2>3 DEF Ends
<1> QED BY <1>2, <1>3, <1>4, <1>5 DEF Moves

LEMMA TrailOfOthers ==
  ASSUME NEW t \in Ours, NEW ids, NEW fns, Trail(t, ids, fns),
         UNCHANGED endpointVars \/ TcpTakes \/ \E u \in Ours \ {t} : StepOf(u)
  PROVE  Trail(t, ids, fns)' /\ Same(at, t) /\ FdOf(t)' = FdOf(t)
<1>1. Same(inbox, t) /\ Same(st, t) /\ Same(at, t) /\ FdOf(t)' = FdOf(t)
  <2>1. CASE UNCHANGED endpointVars \/ TcpTakes
    BY <2>1 DEF endpointVars, TcpTakes, taskVars, clientVars, udpVars, Same, FdOf
  <2>2. ASSUME NEW u \in Ours \ {t}, StepOf(u)
        PROVE  Same(inbox, t) /\ Same(st, t) /\ Same(at, t) /\ FdOf(t)' = FdOf(t)
    BY <2>2, Modules DEF StepOf, Alone, Affects
  <2> QED BY <2>1, <2>2
<1> QED BY <1>1, TrailKept

Answered == Trail(Udp, {"CLOSE_STATE"}, {"UDP_Server_Send", "UDP_Server_Close"})

LEMMA AnsweredStep == Inv /\ Answered /\ [Next]_endpointVars => Answered'
<1> SUFFICES ASSUME Inv, Answered, [Next]_endpointVars PROVE Answered'
  OBVIOUS
<1>1. Udp \in Ours /\ Follows(Udp) /\ Shape /\ \A t \in Ours : Follows(t)
  BY DEF Ours, Inv
<1>2. CASE UNCHANGED endpointVars \/ TcpTakes \/ \E u \in Ours \ {Udp} : StepOf(u)
  BY <1>1, <1>2, TrailOfOthers DEF Answered
<1>3. CASE StepOf(Udp)
  <2>1. Taker("CLOSE_STATE") = "UDP_Server_Close" /\ Home("UDP_Server_Close") # "IDLE_ST"
    BY DEF Taker, Home
  <2>2. Says(st[Udp].fn) \subseteq {"CLOSE_STATE"}
    BY DEF Answered, Trail, Says, Null
  <2> QED BY <1>1, <1>3, <2>1, <2>2, TrailStep DEF Answered, StepOf
<1> QED BY <1>1, <1>2, <1>3, Stepping

\* Once it has answered, the UDP server never receives again: only its close
\* is still under way, and no request takes it out of the state after that.
THEOREM AnswersOnlyOnce == Spec => AnswersOnce
<1>1. Inv /\ at[Udp] = "UDP_Server_Send" => Answered
  <2> SUFFICES ASSUME Inv, at[Udp] = "UDP_Server_Send" PROVE Answered
    OBVIOUS
  <2>1. Udp \in Ours /\ Follows(Udp)
    BY DEF Ours, Inv
  <2>2. st[Udp].fn = "UDP_Server_Send" /\ Carries(Udp, {})
    BY <2>1 DEF Follows, Outside, Handler
  <2>3. st[Udp].cur = "WRITE_ST"
    BY <2>1, <2>2 DEF Follows, Home, Null
  <2> QED BY <2>2, <2>3, More DEF Answered, Trail, Carries
<1>2. Inv /\ Answered => at[Udp] # "recvfrom"
  BY DEF Inv, Follows, Answered, Trail, Ours, Outside, Handler, Null
<1> QED BY <1>1, <1>2, AnsweredStep, Invariant, PTL DEF Spec, AnswersOnce

LEMMA UnboundTrail ==
  Unbound <=> (udpFd = NoFd => Trail(Udp, {}, {"UDP_Server_SockFd_Open", "UDP_Server_Bind"}))
BY Modules DEF Unbound, Trail, Opener

LEMMA UnboundStep == Inv /\ Unbound /\ [Next]_endpointVars => Unbound'
<1> SUFFICES ASSUME Inv, Unbound, [Next]_endpointVars, udpFd' = NoFd
             PROVE  Trail(Udp, {}, {"UDP_Server_SockFd_Open", "UDP_Server_Bind"})'
  BY UnboundTrail, Modules DEF Unbound, Trail, Opener, Carries
<1>1. /\ Udp \in Ours /\ Follows(Udp) /\ Shape /\ \A t \in Ours : Follows(t)
      /\ FdOf(Udp) = udpFd /\ FdOf(Udp)' = udpFd' /\ Opener(Udp) = "UDP_Server_SockFd_Open"
  BY Modules DEF Ours, Inv, FdOf, Opener
<1>2. CASE UNCHANGED endpointVars \/ TcpTakes \/ \E u \in Ours \ {Udp} : StepOf(u)
  <2>1. udpFd = NoFd
    BY <1>1, <1>2 DEF endpointVars, udpVars, TcpTakes, StepOf, Affects
  <2> QED BY <1>1, <1>2, <2>1, UnboundTrail, TrailOfOthers
<1>3. CASE StepOf(Udp)
  <2>1. CASE OpenFails(Udp) \/ Forgets(Udp)
    <3>1. /\ at[Udp] \in {"UDP_Server_SockFd_Open", "UDP_Server_Bind"} /\ at'[Udp] = "loop"
          /\ inbox'[Udp] = inbox[Udp]
      BY <1>1, <2>1 DEF OpenFails, Forgets
    <3>2. st[Udp].fn = at[Udp] /\ Carries(Udp, {})
      BY <1>1, <3>1 DEF Follows, Outside, Handler
    <3>3. st'[Udp].fn = st[Udp].fn
      BY <1>1, <1>3, <3>1, Dictionary
         DEF StepOf, Moves, Asked, Starts, Takes, Repeats, Waits, Ends, Outside, Same, Follows
    <3> QED BY <1>1, <3>1, <3>2, <3>3 DEF Trail, Carries
  <2>2. CASE ~ OpenFails(Udp) /\ ~ Forgets(Udp)
    <3>1. ~ Opens(Udp) /\ udpFd = NoFd
      BY <1>1, <1>3, <2>2 DEF StepOf, Affects, Opens, Leaves, Turns, Closes, NoFd, Fd
    <3>2. ~ \E phase \in {"bound", "connected", "spent"} : Turns(Udp, phase)
      BY <1>1, <3>1 DEF Turns, NoFd, Fd
    <3>3. Trail(Udp, {}, {"UDP_Server_SockFd_Open", "UDP_Server_Bind"})
      BY <3>1, UnboundTrail
    <3>4. ~ Ends(Udp)
      <4>1. ASSUME Ends(Udp) PROVE at[Udp] = st[Udp].fn /\ st[Udp].fn # Null
        BY <1>1, <3>3, <4>1, Modules DEF Ends, Trail, Follows, Outside, Handler, Null, Handlers, Waiting
      <4> QED BY <1>1, <1>3, <2>2, <3>1, <3>2, <3>3, <4>1
              DEF StepOf, Affects, Leaves, Closes, Ends, Trail
    <3> QED BY <1>1, <1>3, <3>3, <3>4, TrailStep DEF StepOf
  <2> QED BY <2>1, <2>2
<1> QED BY <1>1, <1>2, <1>3, Stepping

Bindless == udpFd = NoFd /\ OwnedBy(Udp) = {} /\ Trail(Udp, {}, {"UDP_Server_Bind"})

LEMMA BindlessStep == Inv /\ Bindless /\ [Next]_endpointVars => Bindless'
<1> SUFFICES ASSUME Inv, Bindless, [Next]_endpointVars PROVE Bindless'
  OBVIOUS
<1>1. /\ Udp \in Ours /\ Follows(Udp) /\ Shape /\ \A t \in Ours : Follows(t)
      /\ FdOf(Udp) = udpFd /\ FdOf(Udp)' = udpFd' /\ Opener(Udp) = "UDP_Server_SockFd_Open"
  BY Modules DEF Ours, Inv, FdOf, Opener
<1>2. OwnedBy(Udp) = {} /\ udpFd = NoFd /\ Trail(Udp, {}, {"UDP_Server_Bind"})
  BY DEF Bindless
<1>3. CASE UNCHANGED endpointVars \/ TcpTakes \/ \E u \in Ours \ {Udp} : StepOf(u)
  <2>1. OwnedBy(Udp)' \subseteq OwnedBy(Udp)
    <3>1. CASE UNCHANGED endpointVars
      BY <3>1 DEF endpointVars, OwnedBy
    <3>2. CASE TcpTakes
      BY <1>1, <3>2, Taken
    <3>3. ASSUME NEW u \in Ours \ {Udp}, StepOf(u) PROVE OwnedBy(Udp)' \subseteq OwnedBy(Udp)
      BY <1>1, <3>3, Owners, Modules DEF StepOf
    <3> QED BY <1>3, <3>1, <3>2, <3>3
  <2> QED BY <1>1, <1>2, <1>3, <2>1, TrailOfOthers DEF Bindless
<1>4. CASE StepOf(Udp)
  <2>1. at[Udp] \notin {Opener(Udp), "Tcp_Client_Close", "UDP_Server_Close", "connect"}
    BY <1>1, <1>2, Modules DEF Trail, Follows, Outside, Handler, Null, Handlers, Waiting
  <2>2. ~ Opens(Udp) /\ ~ OpenFails(Udp) /\ ~ Closes(Udp)
    BY <2>1 DEF Opens, OpenFails, Closes
  <2>3. ~ \E phase \in {"bound", "connected", "spent"} : Turns(Udp, phase)
    BY <1>1, <1>2 DEF Turns, NoFd, Fd
  <2>4. Leaves(Udp) \/ Forgets(Udp)
    BY <1>4, <2>2, <2>3 DEF StepOf, Affects
  <2>5. OwnedBy(Udp)' = {} /\ udpFd' = NoFd
    BY <1>1, <1>2, <1>4, <2>2, <2>4, Owners DEF StepOf, Leaves, Forgets
  <2>6. Ends(Udp) => Same(inbox, Udp)
    <3>1. ASSUME Ends(Udp) PROVE at[Udp] = "UDP_Server_Bind" /\ at'[Udp] = "loop"
      BY <1>1, <1>2, <3>1, Modules DEF Ends, Trail, Follows, Outside, Handler, Null, Handlers, Waiting
    <3> QED BY <2>4, <3>1 DEF Leaves, Forgets, Same
  <2>7. Trail(Udp, {}, {"UDP_Server_Bind"})'
    BY <1>1, <1>2, <1>4, <2>6, TrailStep DEF StepOf
  <2> QED BY <2>5, <2>7 DEF Bindless
<1> QED BY <1>1, <1>3, <1>4, Stepping

\* After a bind that failed the UDP server never has a socket and never
\* receives again: its self-loop binds no socket, and no request is accepted.
THEOREM NeverBindsTwice ==
  ASSUME Roomy
  PROVE  Spec => NoSecondBind
<1>1. Init => Knowing /\ Unbound
  <2>1. Init => Unbound
    BY Modules DEF Init, Unbound, Carries, UdpStatus, Status
  <2> QED BY <2>1, InvInit, KnowsInit DEF Knowing
<1>2. Knowing /\ Unbound /\ [Next]_endpointVars => Knowing' /\ Unbound'
  BY KnowingStep, UnboundStep DEF Knowing
<1>3. Knowing /\ Unbound /\ st[Udp].cur = "OPEN_ST" /\ udpFd = NoFd => Bindless
  <2> SUFFICES ASSUME Knowing, Unbound, st[Udp].cur = "OPEN_ST", udpFd = NoFd PROVE Bindless
    OBVIOUS
  <2>1. Udp \in Ours /\ Follows(Udp) /\ Knows(Udp) /\ FdOf(Udp) = NoFd
    BY Modules DEF Ours, Knowing, Inv, FdOf
  <2>2. OwnedBy(Udp) = {}
    BY <2>1 DEF Knows, OwnedBy, NoFd, Fd
  <2>3. Trail(Udp, {}, {"UDP_Server_SockFd_Open", "UDP_Server_Bind"})
    BY UnboundTrail
  <2>4. st[Udp].fn # "UDP_Server_SockFd_Open"
    BY <2>1 DEF Follows, Home, Null
  <2> QED BY <2>2, <2>3, <2>4 DEF Bindless, Trail
<1>4. Knowing /\ Bindless /\ [Next]_endpointVars => Bindless'
  BY BindlessStep DEF Knowing
<1>5. Knowing /\ Bindless => OwnedBy(Udp) = {} /\ at[Udp] # "recvfrom"
  BY DEF Knowing, Inv, Follows, Bindless, Trail, Ours, Outside, Handler, Null
<1> QED BY <1>1, <1>2, <1>3, <1>4, <1>5, PTL DEF Spec, NoSecondBind
-----------------------------------------------------------------------------
\* One task's session.  The other task, which is never asked for anything,
\* keeps out of it.
LEMMA Unasked ==
  ASSUME Knowing, NEW t \in Ours, asked[t] = 0
  PROVE  OwnedBy(t) = {} /\ Outside(t) /\ Opener(t) \notin {"absent", "loop"}
<1>1. /\ Len(inbox[t]) = 0 /\ inbox[t] \in Seq(Mail(t, Said(t)))
      /\ ~ (Started(t) /\ Carries(t, {}))
  BY DEF Knowing, Inv, Queue, Follows, Carries
<1>2. inbox[t] = << >>
  BY <1>1
<1>3. st[t].fn = Null /\ st[t].cur = "IDLE_ST"
  BY <1>1, <1>2 DEF Started, Carries
<1>4. Outside(t)
  BY <1>3, Dictionary DEF Knowing, Inv, Follows, Outside
<1> QED BY <1>3, <1>4 DEF Knowing, Knows, Opener

LEMMA Undisturbed ==
  ASSUME ~ Together, Knowing, NEW t \in Ours,
         UNCHANGED endpointVars \/ TcpTakes \/ \E u \in Ours \ {t} : StepOf(u)
  PROVE  OwnedBy(t)' = OwnedBy(t) /\ Readied(t)' = Readied(t)
<1>1. CASE UNCHANGED socket
  BY <1>1 DEF OwnedBy, Readied
<1>2. CASE TcpTakes
  <2>1. PICK fd \in Fd : socket[fd] = FreeSocket /\ socket' = [socket EXCEPT ![fd] = Socket(Tcp, "fresh")]
    BY <1>2 DEF TcpTakes, With, NextFree
  <2>2. /\ Socket(Tcp, "fresh").by = Tcp /\ FreeSocket.by = Nobody /\ t # Tcp /\ t # Nobody
        /\ socket \in [Fd -> SocketType]
    BY Modules, SocketsAssumption DEF Socket, FreeSocket, Knowing, Inv, Shape, SocketType
  <2>3. \A d \in Fd : d # fd => socket'[d] = socket[d]
    BY <2>1, <2>2
  <2>4. fd \notin OwnedBy(t) /\ fd \notin OwnedBy(t)'
    BY <2>1, <2>2 DEF OwnedBy
  <2>5. OwnedBy(t)' = OwnedBy(t)
    BY <2>3, <2>4 DEF OwnedBy
  <2> QED BY <2>3, <2>4, <2>5 DEF Readied, OwnedBy
<1>3. ASSUME NEW u \in Ours \ {t}, StepOf(u)
      PROVE  OwnedBy(t)' = OwnedBy(t) /\ Readied(t)' = Readied(t)
  <2>1. asked[t] = 0 \/ asked[u] = 0
    BY Modules DEF Knowing, Inv, Shape, Ours
  <2>2. CASE asked[t] = 0
    <3>1. OwnedBy(t) = {} /\ OwnedBy(t)' \subseteq OwnedBy(t)
      BY <1>3, <2>2, Unasked, Owners, Modules DEF StepOf, Knowing, Inv
    <3> QED BY <3>1 DEF Readied
  <2>3. CASE asked[u] = 0
    <3>1. at[u] \in {"absent", "loop"} /\ Opener(u) \notin {"absent", "loop"}
      BY <2>3, Unasked DEF Outside
    <3>2. UNCHANGED socket
      BY <1>3, <3>1 DEF StepOf, Affects, Leaves, Opens, OpenFails, Turns, Closes, Forgets
    <3> QED BY <1>1, <3>2
  <2> QED BY <2>1, <2>2, <2>3
<1> QED BY <1>1, <1>2, <1>3 DEF endpointVars

\* What a task's own step does to its socket.
LEMMA SocketMoves ==
  ASSUME Knowing, NEW t \in Ours, StepOf(t)
  PROVE  /\ Leaves(t) => OwnedBy(t)' = OwnedBy(t) /\ Readied(t)' = Readied(t)
         /\ OpenFails(t) => OwnedBy(t)' = {} /\ Readied(t)' = {} /\ OwnedBy(t) = {}
         /\ Opens(t) => /\ OwnedBy(t) = {} /\ OwnedBy(t)' = {FdOf(t)'} /\ FdOf(t)' \in Fd
                        /\ Readied(t)' = {}
         /\ Closes(t) \/ Forgets(t) => OwnedBy(t)' = {} /\ Readied(t)' = {}
         /\ \A phase : Turns(t, phase) =>
              /\ OwnedBy(t)' = OwnedBy(t) /\ Readied(t) = {}
              /\ phase \notin {"bound", "connected"} => Readied(t)' = {}
              /\ FdOf(t) \in OwnedBy(t) /\ phase \in {"bound", "connected"} =>
                   OwnedBy(t) = {FdOf(t)} /\ Readied(t)' = {FdOf(t)}
<1>1. /\ Shape /\ Affects(t) /\ OwnedBy(t) \subseteq {FdOf(t)} /\ socket \in [Fd -> SocketType]
      /\ Readied(t) \subseteq OwnedBy(t) /\ OwnedBy(t) \subseteq Fd
  BY DEF Knowing, Inv, Knows, StepOf, Readied, OwnedBy, Shape, SocketType
<1>2. UNCHANGED socket => OwnedBy(t)' = OwnedBy(t) /\ Readied(t)' = Readied(t)
  BY DEF OwnedBy, Readied
<1>3. at[t] = Opener(t) => OwnedBy(t) = {}
  BY DEF Knowing, Knows
<1>4. Closes(t) \/ Forgets(t) => OwnedBy(t)' = {} /\ Readied(t)' = {}
  <2>1. Closes(t) \/ Forgets(t) => OwnedBy(t)' = {}
    BY <1>1, Owners
  <2> QED BY <2>1 DEF Readied
<1>5. Opens(t) => /\ OwnedBy(t) = {} /\ OwnedBy(t)' = {FdOf(t)'} /\ FdOf(t)' \in Fd
                  /\ Readied(t)' = {}
  <2> SUFFICES ASSUME Opens(t)
               PROVE  /\ OwnedBy(t) = {} /\ OwnedBy(t)' = {FdOf(t)'} /\ FdOf(t)' \in Fd
                      /\ Readied(t)' = {}
    OBVIOUS
  <2>1. OwnedBy(t) = {} /\ OwnedBy(t)' = {FdOf(t)'} /\ FdOf(t)' \in Fd
    BY <1>1, <1>3, Owners DEF Opens
  <2>2. socket'[FdOf(t)'].is = "fresh"
    BY <1>1, <2>1 DEF Opens, With, Socket
  <2> QED BY <2>1, <2>2 DEF Readied
<1>6. ASSUME NEW phase, Turns(t, phase)
      PROVE  /\ OwnedBy(t)' = OwnedBy(t) /\ Readied(t) = {}
             /\ phase \notin {"bound", "connected"} => Readied(t)' = {}
             /\ FdOf(t) \in OwnedBy(t) /\ phase \in {"bound", "connected"} =>
                  OwnedBy(t) = {FdOf(t)} /\ Readied(t)' = {FdOf(t)}
  <2>1. /\ FdOf(t) \in Fd /\ socket[FdOf(t)].is = "fresh"
        /\ socket' = [socket EXCEPT ![FdOf(t)] = [socket[FdOf(t)] EXCEPT !.is = phase]]
    BY <1>6 DEF Turns, With
  <2>2. socket[FdOf(t)] \in SocketType
    BY <1>1, <2>1
  <2>3. socket'[FdOf(t)].by = socket[FdOf(t)].by /\ socket'[FdOf(t)].is = phase
    BY <1>1, <2>1, <2>2 DEF SocketType
  <2>4. \A fd \in Fd : fd # FdOf(t) => socket'[fd] = socket[fd]
    BY <1>1, <2>1
  <2>5. OwnedBy(t)' = OwnedBy(t)
    BY <2>3, <2>4 DEF OwnedBy
  <2>6. Readied(t) = {}
    BY <1>1, <2>1 DEF Readied
  <2> QED BY <1>1, <2>1, <2>3, <2>5, <2>6 DEF Readied
<1> QED BY <1>2, <1>3, <1>4, <1>5, <1>6, <1>1 DEF Leaves, OpenFails

Talks(t) ==
  at[t] \in IF t = Client THEN {"Tcp_Client_WriteToServer", "Tcp_Client_ReadFromServer", "recv"}
            ELSE {"UDP_Server_Listen", "recvfrom", "UDP_Server_Send"}

\* Before the task talks: its messages and handlers until its socket is
\* ready, and after it was closed.
Unready(t) ==
  IF t = Client
  THEN Trail(t, {"CONNECT_TO_SERVER", "PROCESS", "CLOSE"},
             {"Tcp_Client_SockFd_Open", "Tcp_Client_Connect", "Tcp_Client_Process", "Tcp_Client_Close"})
  ELSE Trail(t, {"OPEN_SERVER", "CLOSE_STATE"},
             {"UDP_Server_SockFd_Open", "UDP_Server_Bind", "UDP_Server_Close"})

\* While nothing is under way to bind or connect.
Parted(t) ==
  IF t = Client
  THEN Trail(t, {"WRITE", "READ", "PROCESS", "CLOSE"},
             {"Tcp_Client_SockFd_Open", "Tcp_Client_WriteToServer", "Tcp_Client_ReadFromServer",
              "Tcp_Client_Process", "Tcp_Client_Close"})
  ELSE Trail(t, {"LISTEN_STATE", "PROCESS_STATE", "RESPONSE_STATE", "CLOSE_STATE"},
             {"UDP_Server_SockFd_Open", "UDP_Server_Listen", "UDP_Server_Data_Process",
              "UDP_Server_Send", "UDP_Server_Close"})

Ready(t) == Readied(t) # {} \/ Unready(t)
NamesOwn(t) == FdOf(t) \in OwnedBy(t) \cup {NoFd} \/ Parted(t)

InSession == Knowing /\ (\A t \in Ours : Ready(t) /\ NamesOwn(t))

LEMMA ReadyStep ==
  ASSUME ~ Together, Knowing, NEW t \in Ours, NamesOwn(t), Ready(t), StepOf(t)
  PROVE  Ready(t)'
<1>1. Follows(t) /\ Moves(t) /\ Affects(t) /\ Client # Udp
  BY Modules DEF Knowing, Inv, StepOf
<1>2. ASSUME Unready(t), Ends(t) => Same(inbox, t) \/ st[t].fn \notin {"Tcp_Client_Connect", "UDP_Server_Bind"}
      PROVE  Unready(t)'
  <2>1. CASE t = Client
    <3> DEFINE ids == {"CONNECT_TO_SERVER", "PROCESS", "CLOSE"}
               fns == {"Tcp_Client_SockFd_Open", "Tcp_Client_Connect", "Tcp_Client_Process", "Tcp_Client_Close"}
    <3>1. Trail(t, ids, fns)
      BY <1>2, <2>1 DEF Unready
    <3>2. \A id \in ids : Taker(id) \in fns /\ (Opener(t) \in fns \/ Home(Taker(id)) # "IDLE_ST")
      BY <2>1 DEF Taker, Opener
    <3>3. Ends(t) => Same(inbox, t) \/ Says(st[t].fn) \subseteq ids
      BY <1>2, <3>1 DEF Trail, Says, Null
    <3>4. Trail(t, ids, fns)'
      <4> HIDE DEF ids, fns
      <4> QED BY <1>1, <3>1, <3>2, <3>3, TrailStep
    <3> QED BY <2>1, <3>4 DEF Unready
  <2>2. CASE t = Udp
    <3> DEFINE ids == {"OPEN_SERVER", "CLOSE_STATE"}
               fns == {"UDP_Server_SockFd_Open", "UDP_Server_Bind", "UDP_Server_Close"}
    <3>1. Trail(t, ids, fns)
      BY <1>1, <1>2, <2>2 DEF Unready
    <3>2. \A id \in ids : Taker(id) \in fns /\ (Opener(t) \in fns \/ Home(Taker(id)) # "IDLE_ST")
      BY <1>1, <2>2 DEF Taker, Opener
    <3>3. Ends(t) => Same(inbox, t) \/ Says(st[t].fn) \subseteq ids
      BY <1>2, <3>1 DEF Trail, Says, Null
    <3>4. Trail(t, ids, fns)'
      <4> HIDE DEF ids, fns
      <4> QED BY <1>1, <3>1, <3>2, <3>3, TrailStep
    <3> QED BY <1>1, <2>2, <3>4 DEF Unready
  <2> QED BY <2>1, <2>2 DEF Ours
<1>3. ASSUME at[t] \in {Opener(t), "Tcp_Client_Close", "UDP_Server_Bind", "UDP_Server_Close"},
             at'[t] = "loop", st[t].fn = at[t], Same(inbox, t)
      PROVE  Unready(t)'
  <2>1. Carries(t, {}) /\ st[t].fn \in Handlers(t) /\ st[t].cur = Home(st[t].fn)
    BY <1>1, <1>3, Dictionary DEF Follows, Outside, Opener, Handler
  <2>2. Unready(t)
    <3>1. \A ids : Carries(t, ids)
      BY <2>1, More DEF Carries
    <3>2. CASE t = Client
      BY <1>3, <2>1, <3>1, <3>2 DEF Unready, Trail, Opener, Handlers
    <3>3. CASE t = Udp
      BY <1>1, <1>3, <2>1, <3>1, <3>3 DEF Unready, Trail, Opener, Handlers
    <3> QED BY <3>2, <3>3 DEF Ours
  <2> QED BY <1>2, <1>3, <2>2
<1>4. ASSUME Closes(t) \/ Forgets(t) \/ OpenFails(t) PROVE Unready(t)'
  <2>1. /\ at[t] \in {Opener(t), "Tcp_Client_Close", "UDP_Server_Bind", "UDP_Server_Close"}
        /\ at'[t] = "loop" /\ Same(inbox, t)
    BY <1>4 DEF Closes, Forgets, OpenFails, Same
  <2>2. st[t].fn = at[t]
    BY <1>1, <2>1 DEF Follows, Outside, Opener, Handler
  <2> QED BY <1>3, <2>1, <2>2
<1>5. ASSUME Opens(t) PROVE Ready(t)'
  <2>1. Readied(t) = {} /\ at[t] = Opener(t)
    BY <1>5, SocketMoves DEF Opens, Readied
  <2>2. st[t].fn = Opener(t)
    BY <1>1, <2>1 DEF Follows, Outside, Opener, Handler
  <2> QED BY <1>2, <2>1, <2>2 DEF Ready, Opener
<1>6. ASSUME NEW phase \in {"bound", "connected", "spent"}, Turns(t, phase) PROVE Ready(t)'
  <2>1. CASE phase = "spent"
    <3>1. Readied(t) = {} /\ Same(inbox, t)
      BY <1>6, <2>1, SocketMoves DEF Turns
    <3> QED BY <1>2, <3>1 DEF Ready
  <2>2. CASE phase # "spent"
    <3>1. FdOf(t) \in OwnedBy(t)
      <4>1. CASE t = Client
        BY <1>6, <4>1 DEF Turns, OwnedBy
      <4>2. CASE t = Udp
        <5>1. at[t] = "UDP_Server_Bind" /\ udpFd \in Fd /\ FdOf(t) = udpFd
          BY <1>1, <1>6, <4>2 DEF Turns, FdOf, Follows, Handlers, Waiting
        <5>2. st[t].fn = "UDP_Server_Bind"
          BY <1>1, <5>1 DEF Follows, Outside, Handler
        <5> QED BY <1>1, <4>2, <5>1, <5>2 DEF NamesOwn, Parted, Trail, Null, NoFd, Fd
      <4> QED BY <4>1, <4>2 DEF Ours
    <3> QED BY <1>6, <2>2, <3>1, SocketMoves DEF Ready
  <2> QED BY <2>1, <2>2
<1>7. ASSUME Leaves(t) PROVE Ready(t)'
  <2>1. Readied(t)' = Readied(t)
    BY <1>7, SocketMoves
  <2>2. Ends(t) => Same(inbox, t) \/ st[t].fn \notin {"Tcp_Client_Connect", "UDP_Server_Bind"}
    <3> SUFFICES ASSUME Ends(t), st[t].fn \in {"Tcp_Client_Connect", "UDP_Server_Bind"}
                 PROVE  Same(inbox, t)
      OBVIOUS
    <3>1. /\ at[t] \in {"connect", "Tcp_Client_Connect", "UDP_Server_Bind"} /\ at'[t] = "loop"
          /\ ~ Outside(t) /\ at[t] \in Handlers(t) \cup Waiting(t)
      BY <1>1 DEF Ends, Follows, Outside, Handler, Handlers, Waiting
    <3>2. at[t] # "UDP_Server_Bind" /\ t = Client
      BY <1>1, <1>7, <3>1 DEF Leaves, Handlers, Waiting
    <3>3. clientFd \in OwnedBy(Client) \cup {NoFd}
      BY <3>2 DEF NamesOwn, Parted, Trail, Null, FdOf
    <3>4. Reached(clientFd).by \in {Client, Nobody}
      BY <3>3 DEF Reached, OwnedBy, FreeSocket, Socket, NoFd, Fd
    <3>5. Reached(clientFd).by \notin {Udp, Tcp}
      BY <3>4, Modules, SocketsAssumption DEF Ours
    <3> QED BY <1>7, <3>1, <3>2, <3>5 DEF Leaves
  <2> QED BY <1>2, <2>1, <2>2 DEF Ready
<1> QED BY <1>1, <1>4, <1>5, <1>6, <1>7 DEF Affects, Ready

LEMMA NamesStep ==
  ASSUME Knowing, NEW t \in Ours, NamesOwn(t), StepOf(t)
  PROVE  NamesOwn(t)'
<1>1. Follows(t) /\ Moves(t) /\ Affects(t) /\ Client # Udp /\ Ours = {Client, Udp}
  BY Modules DEF Ours, Knowing, Inv, StepOf
<1> DEFINE ids == IF t = Client THEN {"WRITE", "READ", "PROCESS", "CLOSE"}
                  ELSE {"LISTEN_STATE", "PROCESS_STATE", "RESPONSE_STATE", "CLOSE_STATE"}
           fns == IF t = Client
                  THEN {"Tcp_Client_SockFd_Open", "Tcp_Client_WriteToServer",
                        "Tcp_Client_ReadFromServer", "Tcp_Client_Process", "Tcp_Client_Close"}
                  ELSE {"UDP_Server_SockFd_Open", "UDP_Server_Listen", "UDP_Server_Data_Process",
                        "UDP_Server_Send", "UDP_Server_Close"}
<1>2. ASSUME Trail(t, ids, fns), Ends(t) => Same(inbox, t) \/ Says(st[t].fn) \subseteq ids
      PROVE  NamesOwn(t)'
  <2>1. \A id \in ids : Taker(id) \in fns /\ Opener(t) \in fns
    <3>1. CASE t = Client
      BY <3>1 DEF Taker, Opener
    <3>2. CASE t # Client
      BY <3>2 DEF Taker, Opener
    <3> QED BY <3>1, <3>2
  <2>2. Trail(t, ids, fns)'
    <3> HIDE DEF ids, fns
    <3> QED BY <1>1, <1>2, <2>1, TrailStep
  <2> QED BY <2>2 DEF NamesOwn, Parted
<1>3. CASE OpenFails(t) \/ Forgets(t)
  BY <1>3 DEF OpenFails, Forgets, NamesOwn
<1>4. CASE Opens(t)
  BY <1>4, SocketMoves DEF NamesOwn
<1>5. CASE Closes(t)
  <2>1. at[t] \in {"Tcp_Client_Close", "UDP_Server_Close"} /\ Same(inbox, t)
    BY <1>5 DEF Closes, Same
  <2>2. st[t].fn \in fns /\ Opener(t) \in fns /\ Carries(t, {})
    <3>1. ~ Outside(t) /\ Handler(at[t]) = at[t] /\ at[t] \in Handlers(t) \cup Waiting(t)
      BY <1>1, <2>1 DEF Follows, Outside, Handler
    <3>2. CASE t = Client
      BY <1>1, <2>1, <3>1, <3>2 DEF Follows, Handlers, Waiting, Opener
    <3>3. CASE t = Udp
      BY <1>1, <2>1, <3>1, <3>3 DEF Follows, Handlers, Waiting, Opener
    <3> QED BY <1>1, <3>2, <3>3
  <2>3. Trail(t, ids, fns)
    <3>1. Carries(t, ids)
      BY <2>2, More DEF Carries
    <3> QED BY <2>2, <3>1 DEF Trail
  <2> QED BY <1>2, <2>1, <2>3
<1>6. CASE Leaves(t) \/ \E phase \in {"bound", "connected", "spent"} : Turns(t, phase)
  <2>1. OwnedBy(t)' = OwnedBy(t) /\ FdOf(t)' = FdOf(t)
    BY <1>6, SocketMoves DEF Leaves, Turns, FdOf
  <2>2. CASE FdOf(t) \in OwnedBy(t) \cup {NoFd}
    BY <2>1, <2>2 DEF NamesOwn
  <2>3. CASE Parted(t)
    <3>1. Trail(t, ids, fns)
      BY <2>3 DEF Parted
    <3>2. Ends(t) => Says(st[t].fn) \subseteq ids
      <4> SUFFICES ASSUME Ends(t) PROVE Says(st[t].fn) \subseteq ids
        OBVIOUS
      <4>1. at'[t] = "loop" /\ ~ Outside(t) /\ Handler(at[t]) = st[t].fn
        BY <1>1 DEF Ends, Follows
      <4>2. at[t] # Opener(t)
        BY <1>6, <4>1 DEF Leaves, Turns, Outside, Opener
      <4>3. st[t].fn # Opener(t)
        BY <4>1, <4>2 DEF Handler, Opener
      <4>4. st[t].fn \in fns \cup {Null}
        BY <3>1 DEF Trail
      <4>5. CASE t = Client
        BY <4>3, <4>4, <4>5 DEF Says, Null, Opener
      <4>6. CASE t # Client
        BY <4>3, <4>4, <4>6 DEF Says, Null, Opener
      <4> QED BY <4>5, <4>6
    <3> QED BY <1>2, <3>1, <3>2
  <2> QED BY <2>2, <2>3 DEF NamesOwn
<1> QED BY <1>1, <1>3, <1>4, <1>5, <1>6 DEF Affects

LEMMA InSessionInit == Init => InSession
<1> SUFFICES ASSUME Init PROVE InSession
  OBVIOUS
<1>1. Knowing
  BY InvInit, KnowsInit DEF Knowing
<1>2. ASSUME NEW t \in Ours PROVE Unready(t)
  <2>1. inbox[t] = << >> /\ st[t].fn = Null
    BY Modules DEF Init, ClientStatus, UdpStatus, Status
  <2>2. \A ids : Carries(t, ids)
    BY <2>1 DEF Carries
  <2> QED BY <2>1, <2>2, Modules DEF Unready, Trail, Opener, Ours
<1>3. \A t \in Ours : FdOf(t) = NoFd
  BY DEF Init, ClientInit, UdpInit, FdOf
<1> QED BY <1>1, <1>2, <1>3 DEF InSession, Ready, NamesOwn

LEMMA InSessionStep ==
  ASSUME ~ Together
  PROVE  InSession /\ [Next]_endpointVars => InSession'
<1> SUFFICES ASSUME InSession, [Next]_endpointVars PROVE InSession'
  OBVIOUS
<1>1. /\ Knowing /\ \A t \in Ours : Ready(t) /\ NamesOwn(t)
      /\ Shape /\ \A t \in Ours : Follows(t)
  BY DEF InSession, Knowing, Inv
<1>2. Knowing'
  BY <1>1, KnowingStep DEF Roomy
<1>3. ASSUME NEW t \in Ours PROVE Ready(t)'
  <2>1. CASE UNCHANGED endpointVars \/ TcpTakes \/ \E u \in Ours \ {t} : StepOf(u)
    <3>1. Readied(t)' = Readied(t)
      BY <1>1, <2>1, Undisturbed
    <3>2. Unready(t) => Unready(t)'
      BY <2>1, TrailOfOthers DEF Unready
    <3> QED BY <1>1, <3>1, <3>2 DEF Ready
  <2>2. CASE StepOf(t)
    BY <1>1, <2>2, ReadyStep
  <2> QED BY <1>1, <2>1, <2>2, Stepping
<1>4. ASSUME NEW t \in Ours PROVE NamesOwn(t)'
  <2>1. CASE UNCHANGED endpointVars \/ TcpTakes \/ \E u \in Ours \ {t} : StepOf(u)
    <3>1. OwnedBy(t)' = OwnedBy(t)
      BY <1>1, <2>1, Undisturbed
    <3>2. Parted(t) => Parted(t)'
      BY <2>1, TrailOfOthers DEF Parted
    <3>3. FdOf(t)' = FdOf(t)
      <4>1. CASE UNCHANGED endpointVars \/ TcpTakes
        BY <4>1 DEF endpointVars, TcpTakes, clientVars, udpVars, FdOf
      <4>2. ASSUME NEW u \in Ours \ {t}, StepOf(u) PROVE FdOf(t)' = FdOf(t)
        BY <4>2 DEF StepOf, Affects
      <4> QED BY <2>1, <4>1, <4>2
    <3> QED BY <1>1, <3>1, <3>2, <3>3 DEF NamesOwn
  <2>2. CASE StepOf(t)
    BY <1>1, <2>2, NamesStep
  <2> QED BY <1>1, <2>1, <2>2, Stepping
<1> QED BY <1>2, <1>3, <1>4 DEF InSession

\* The steps of a session, in the words of module Session.
SessionStep(t) ==
  \/ /\ OwnedBy(t) = {} /\ \E fd \in Fd : OwnedBy(t)' = {fd}
     /\ Readied(t)' = Readied(t) /\ Talks(t)' = Talks(t)
  \/ /\ Readied(t) = {} /\ OwnedBy(t) # {} /\ Readied(t)' = OwnedBy(t)
     /\ OwnedBy(t)' = OwnedBy(t) /\ Talks(t)' = Talks(t)
  \/ /\ Readied(t) # {} /\ Talks(t)' = TRUE
     /\ OwnedBy(t)' = OwnedBy(t) /\ Readied(t)' = Readied(t)
  \/ /\ Talks(t)' = FALSE
     /\ OwnedBy(t)' = OwnedBy(t) /\ Readied(t)' = Readied(t)
  \/ /\ ~ Talks(t) /\ OwnedBy(t)' = {} /\ Readied(t)' = {} /\ Talks(t)' = Talks(t)
  \/ OwnedBy(t)' = OwnedBy(t) /\ Readied(t)' = Readied(t) /\ Talks(t)' = Talks(t)

LEMMA SessionSteps ==
  ASSUME ~ Together, NEW t \in Ours, InSession, InSession', [Next]_endpointVars
  PROVE  SessionStep(t)
<1>1. Knowing /\ Shape /\ (\A u \in Ours : Follows(u)) /\ Client # Udp
  BY Modules DEF InSession, Knowing, Inv
<1>2. Talks(t) \in BOOLEAN /\ Talks(t)' \in BOOLEAN
  BY DEF Talks
<1>3. CASE UNCHANGED endpointVars \/ TcpTakes \/ \E u \in Ours \ {t} : StepOf(u)
  <2>1. OwnedBy(t)' = OwnedBy(t) /\ Readied(t)' = Readied(t)
    BY <1>1, <1>3, Undisturbed
  <2>2. Trail(t, Said(t), Handlers(t))
    BY <1>1, Dictionary DEF Follows, Trail
  <2>3. Same(at, t)
    BY <1>3, <2>2, TrailOfOthers
  <2>4. Talks(t)' = Talks(t)
    BY <2>3 DEF Talks, Same
  <2> QED BY <2>1, <2>4 DEF SessionStep
<1>4. CASE StepOf(t)
  <2>1. at'[t] = "loop" => Talks(t)' = FALSE
    BY DEF Talks
  <2>2. at[t] \in {Opener(t), "connect", "Tcp_Client_Close", "UDP_Server_Bind", "UDP_Server_Close"}
        => Talks(t) = FALSE
    BY DEF Talks, Opener
  <2>3. CASE Opens(t)
    BY <1>1, <1>4, <2>1, <2>2, <2>3, SocketMoves DEF SessionStep, Opens, Readied
  <2>4. CASE OpenFails(t) \/ Closes(t) \/ Forgets(t)
    <3>1. /\ at'[t] = "loop"
          /\ at[t] \in {Opener(t), "Tcp_Client_Close", "UDP_Server_Bind", "UDP_Server_Close"}
      BY <2>4 DEF OpenFails, Closes, Forgets
    <3>2. OwnedBy(t)' = {} /\ Readied(t)' = {}
      BY <1>1, <1>4, <2>4, SocketMoves
    <3> QED BY <2>1, <2>2, <3>1, <3>2 DEF SessionStep
  <2>5. ASSUME NEW phase \in {"bound", "connected", "spent"}, Turns(t, phase) PROVE SessionStep(t)
    <3>1. /\ Talks(t)' = FALSE /\ Talks(t) = FALSE
          /\ OwnedBy(t)' = OwnedBy(t) /\ Readied(t) = {}
          /\ Readied(t)' \subseteq OwnedBy(t)' /\ OwnedBy(t) \subseteq {FdOf(t)}
      BY <1>1, <1>4, <2>1, <2>2, <2>5, SocketMoves DEF Turns, Readied, Knowing, Knows
    <3>2. Readied(t)' = {} \/ (Readied(t)' = OwnedBy(t) /\ OwnedBy(t) # {})
      BY <3>1
    <3> QED BY <3>1, <3>2 DEF SessionStep
  <2>6. CASE Leaves(t)
    <3>1. OwnedBy(t)' = OwnedBy(t) /\ Readied(t)' = Readied(t)
      BY <1>1, <1>4, <2>6, SocketMoves
    <3>2. Talks(t)' => Readied(t)' # {}
      <4> SUFFICES ASSUME Talks(t)', Unready(t)' PROVE FALSE
        BY DEF InSession, Ready
      <4>1. Handler(at'[t]) = st'[t].fn /\ Talks(t)'
        BY DEF InSession, Knowing, Inv, Follows, Outside, Talks
      <4>2. CASE t = Client
        BY <4>1, <4>2 DEF Talks, Unready, Trail, Handler, Null
      <4>3. CASE t = Udp
        BY <1>1, <4>1, <4>3 DEF Talks, Unready, Trail, Handler, Null
      <4> QED BY <4>2, <4>3 DEF Ours
    <3> QED BY <1>2, <3>1, <3>2 DEF SessionStep
  <2> QED BY <1>4, <2>3, <2>4, <2>5, <2>6 DEF StepOf, Affects
<1> QED BY <1>1, <1>3, <1>4, Stepping

\* The client works one session after the other: it opens a socket only when
\* it has none, sends and receives only through a connected one of its own,
\* and nobody closes that meanwhile.  It takes that the UDP server is not in
\* use: its repeated close may close the client's socket.
THEOREM ClientSessions ==
  ASSUME ~ Together
  PROVE  Spec => ClientKeepsSession
<1>1. Client \in Ours
  BY DEF Ours
<1>2. Init => ClientSession!Init
  BY Modules, SocketsAssumption
     DEF Init, ClientSession!Init, OwnedBy, Readied, FreeSocket, Socket
<1>3. InSession /\ InSession' /\ [Next]_endpointVars => [ClientSession!Next]_(ClientSession!vars)
  <2> SUFFICES ASSUME InSession, InSession', [Next]_endpointVars
               PROVE  ClientSession!Next \/ UNCHANGED ClientSession!vars
    OBVIOUS
  <2>1. SessionStep(Client)
    BY <1>1, SessionSteps
  <2> QED BY <2>1
          DEF SessionStep, Talks, ClientSession!Next, ClientSession!Open, ClientSession!GetReady,
              ClientSession!BeginTalk, ClientSession!EndTalk, ClientSession!Close, ClientSession!vars
<1> QED BY <1>2, <1>3, InSessionInit, InSessionStep, PTL DEF Spec, ClientKeepsSession, ClientSession!Spec

\* So does the UDP server with its bound socket, when the client is not in use.
THEOREM UdpSessions ==
  ASSUME ~ Together
  PROVE  Spec => UdpKeepsSession
<1>1. Udp \in Ours /\ Udp # Client
  BY Modules DEF Ours
<1>2. Init => UdpSession!Init
  BY Modules, SocketsAssumption
     DEF Init, UdpSession!Init, OwnedBy, Readied, FreeSocket, Socket
<1>3. InSession /\ InSession' /\ [Next]_endpointVars => [UdpSession!Next]_(UdpSession!vars)
  <2> SUFFICES ASSUME InSession, InSession', [Next]_endpointVars
               PROVE  UdpSession!Next \/ UNCHANGED UdpSession!vars
    OBVIOUS
  <2>1. SessionStep(Udp)
    BY <1>1, SessionSteps
  <2> QED BY <1>1, <2>1
          DEF SessionStep, Talks, UdpSession!Next, UdpSession!Open, UdpSession!GetReady,
              UdpSession!BeginTalk, UdpSession!EndTalk, UdpSession!Close, UdpSession!vars
<1> QED BY <1>2, <1>3, InSessionInit, InSessionStep, PTL DEF Spec, UdpKeepsSession, UdpSession!Spec
=============================================================================
