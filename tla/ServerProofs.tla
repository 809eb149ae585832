---------------------------- MODULE ServerProofs ----------------------------
(***************************************************************************)
(* The TCP server's life, for any number of slots above one, losses,       *)
(* client cells and sockets: it opens one socket, accepts on it only while *)
(* it listens, never closes or replaces it after that, and stays closed    *)
(* once bind or listen has failed.                                         *)
(*                                                                         *)
(* The invariant is the stage the server is in (Server), with the messages *)
(* of its own that may be under way in it; the manager's request may       *)
(* arrive in any of them.  Two slots are needed: the manager holds one at  *)
(* most (StationProofs), so whenever a post of the server is refused some  *)
(* request waits for the server itself, which takes it instead of calling  *)
(* the handler of its state a second time.                                 *)
(***************************************************************************)
EXTENDS StationProofs

Own(id) == Message(Tcp, id)
TcpMail == {Request} \cup {Own(id) : id \in TcpMessage}
TcpFn == {Null, "Open_Tcp_Server_SockFd", "Open_Tcp_Server_OpenServer", "Ready_To_Accept",
          "Data_Readng_FromSocks", "Data_Process_State", "Data_Response_state"}

\* A mailbox whose messages are requests and the server's own of these kinds.
Carries(box, ids) == \A i \in 1 .. Len(box) : box[i] = Request \/ \E id \in ids : box[i] = Own(id)
Once(box, id) == \A i, j \in 1 .. Len(box) : box[i] = Own(id) /\ box[j] = Own(id) => i = j

ServerTyped ==
  /\ inbox[Tcp] \in Seq(TcpMail)
  /\ st[Tcp] \in [cur : TcpState, prev : TcpState, fn : TcpFn]
  /\ slots \in [0 .. MaxConn -> Cell]
  /\ index \in 0 .. MaxConn

Closed == serverFd = NoFd /\ open = {} /\ ~ listening
Bound == serverFd \in Fd /\ open = {serverFd} /\ st[Tcp].cur # "TCP_IDLE_ST"
Zeroed == \A i \in 0 .. MaxConn - 1 : slots[i] = "zero"

\* No socket yet.
Before ==
  /\ Closed /\ Zeroed /\ Carries(inbox[Tcp], {})
  /\ st[Tcp].fn \in {Null, "Open_Tcp_Server_SockFd"}
  /\ st[Tcp].fn # Null => st[Tcp].cur # "TCP_IDLE_ST"
  /\ at[Tcp] \in {"absent", "loop", "Open_Tcp_Server_SockFd"}
  /\ at[Tcp] = "Open_Tcp_Server_SockFd" => st[Tcp].fn = "Open_Tcp_Server_SockFd"

\* A socket, and at most one OPEN_SERVER under way to bind it.
Opened ==
  /\ Bound /\ ~ listening /\ Zeroed
  /\ Carries(inbox[Tcp], {"OPEN_SERVER"}) /\ Once(inbox[Tcp], "OPEN_SERVER")
  /\ \/ at[Tcp] = "loop" /\ st[Tcp].fn = Null
     \/ at[Tcp] = "loop" /\ st[Tcp].fn = "Open_Tcp_Server_SockFd" /\ inbox[Tcp] # << >>
     \/ /\ at[Tcp] = "Open_Tcp_Server_OpenServer" /\ st[Tcp].fn = "Open_Tcp_Server_OpenServer"
        /\ st[Tcp].cur = "TCP_OPEN_ST" /\ Carries(inbox[Tcp], {})

\* A failed bind or listen.
Gone ==
  /\ Closed /\ Zeroed /\ Carries(inbox[Tcp], {}) /\ st[Tcp].cur # "TCP_IDLE_ST"
  /\ st[Tcp].fn \in {Null, "Open_Tcp_Server_OpenServer"}
  /\ at[Tcp] \in {"loop", "Open_Tcp_Server_OpenServer"}

\* A listening socket, and at most one ACCEPT_STATE under way.
Announced ==
  /\ Bound /\ listening /\ Zeroed
  /\ Carries(inbox[Tcp], {"ACCEPT_STATE"}) /\ Once(inbox[Tcp], "ACCEPT_STATE")
  /\ at[Tcp] = "loop"
  /\ \/ st[Tcp].fn = Null
     \/ /\ st[Tcp].fn = "Open_Tcp_Server_OpenServer"
        /\ st[Tcp].cur = "TCP_OPEN_ST" /\ inbox[Tcp] # << >>

\* Waiting for a client, for whom no cell is free.
Accepting ==
  /\ Bound /\ listening /\ Zeroed
  /\ Carries(inbox[Tcp], {"LISTEN_STATE"})
  /\ st[Tcp].fn \in {Null, "Ready_To_Accept"}
  /\ at[Tcp] \in {"loop", "Ready_To_Accept", "accept"}
  /\ at[Tcp] = "accept" => index = MaxConn

\* Reading, processing and answering; no way back to another accept.
Serving ==
  /\ Bound /\ listening
  /\ \A i \in 0 .. MaxConn - 1 : slots[i] # "client"
  /\ Carries(inbox[Tcp], {"LISTEN_STATE", "PROCESS_STATE", "RESPONSE_STATE"})
  /\ st[Tcp].fn \in {Null, "Data_Readng_FromSocks", "Data_Process_State", "Data_Response_state"}
  /\ at[Tcp] \in {"loop", "Data_Readng_FromSocks", "Data_Process_State", "Data_Response_state"}

Stage == Before \/ Opened \/ Gone \/ Announced \/ Accepting \/ Serving
Server == ServerTyped /\ Stage
-----------------------------------------------------------------------------
LEMMA Distinct ==
  /\ \A id : Request # Own(id)
  /\ \A id, other : Own(id) = Own(other) => id = other
BY Tasks2 DEF Request, Own, Message

\* Taking the oldest message out.
LEMMA Removing ==
  ASSUME NEW box \in Seq(TcpMail), box # << >>
  PROVE  /\ Tail(box) \in Seq(TcpMail)
         /\ \A ids : Carries(box, ids) =>
              /\ Carries(Tail(box), ids)
              /\ Head(box) = Request \/ \E id \in ids : Head(box) = Own(id)
         /\ \A id : Once(box, id) => Once(Tail(box), id)
         /\ \A id : Once(box, id) /\ Carries(box, {id}) /\ Head(box) = Own(id) => Carries(Tail(box), {})
<1>1. /\ Tail(box) \in Seq(TcpMail) /\ Head(box) = box[1] /\ Len(box) \in Nat /\ 1 \in 1 .. Len(box)
      /\ \A i \in 1 .. Len(Tail(box)) : i + 1 \in 1 .. Len(box) /\ i + 1 # 1 /\ Tail(box)[i] = box[i + 1]
  OBVIOUS
<1>2. \A ids : Carries(box, ids) => Carries(Tail(box), ids)
  BY <1>1 DEF Carries
<1>3. \A id : Once(box, id) => Once(Tail(box), id)
  <2> SUFFICES ASSUME NEW id, Once(box, id), NEW i \in 1 .. Len(Tail(box)), NEW j \in 1 .. Len(Tail(box)),
                      Tail(box)[i] = Own(id), Tail(box)[j] = Own(id)
               PROVE  i = j
    BY DEF Once
  <2>1. i + 1 = j + 1
    BY <1>1 DEF Once
  <2> QED BY <2>1
<1>4. \A id : Once(box, id) /\ Carries(box, {id}) /\ Head(box) = Own(id) => Carries(Tail(box), {})
  BY <1>1 DEF Once, Carries
<1>5. \A ids : Carries(box, ids) => Head(box) = Request \/ \E id \in ids : Head(box) = Own(id)
  BY <1>1 DEF Carries
<1> QED BY <1>1, <1>2, <1>3, <1>4, <1>5

\* Putting a request, or a message of the server's own, behind what waits.
LEMMA Adding ==
  ASSUME NEW box \in Seq(TcpMail)
  PROVE  /\ Append(box, Request) \in Seq(TcpMail) /\ Append(box, Request) # << >>
         /\ \A id \in TcpMessage : Append(box, Own(id)) \in Seq(TcpMail)
         /\ \A ids : Carries(box, ids) =>
              /\ Carries(Append(box, Request), ids)
              /\ \A id \in ids : Carries(Append(box, Own(id)), ids)
         /\ \A id : Once(box, id) => Once(Append(box, Request), id)
         /\ \A id : Carries(box, {}) => Once(Append(box, Own(id)), id) /\ Carries(Append(box, Own(id)), {id})
         /\ \A id : Carries(box, {}) => Once(box, id) /\ Carries(box, {id})
<1> DEFINE n == Len(box)
<1>1. /\ n \in Nat /\ Request \in TcpMail /\ \A id \in TcpMessage : Own(id) \in TcpMail
      /\ \A m : /\ Len(Append(box, m)) = n + 1 /\ Append(box, m)[n + 1] = m
                /\ \A i \in 1 .. n : Append(box, m)[i] = box[i]
  BY DEF TcpMail
<1>2. \A m : \A i \in 1 .. n + 1 : i \in 1 .. n \/ i = n + 1
  BY <1>1
<1>3. \A ids : Carries(box, ids) =>
        /\ Carries(Append(box, Request), ids)
        /\ \A id \in ids : Carries(Append(box, Own(id)), ids)
  BY <1>1, <1>2 DEF Carries
<1>4. \A id : Once(box, id) => Once(Append(box, Request), id)
  BY <1>1, <1>2, Distinct DEF Once
<1>5. \A id : Carries(box, {}) => Once(Append(box, Own(id)), id) /\ Carries(Append(box, Own(id)), {id})
  BY <1>1, <1>2, Distinct DEF Once, Carries
<1>6. \A id : Carries(box, {}) => Once(box, id) /\ Carries(box, {id})
  BY Distinct DEF Once, Carries
<1>7. Append(box, Request) # << >>
  <2>1. Len(Append(box, Request)) # 0 /\ Len(<< >>) = 0
    BY <1>1
  <2> QED BY <2>1
<1>8. /\ Append(box, Request) \in Seq(TcpMail)
      /\ \A id \in TcpMessage : Append(box, Own(id)) \in Seq(TcpMail)
  BY <1>1
<1> QED BY <1>3, <1>4, <1>5, <1>6, <1>7, <1>8
-----------------------------------------------------------------------------
\* The row the search stops at is one that matches, none before it does, or
\* the sentinel.
LEMMA TcpRow ==
  ASSUME NEW state, NEW m
  PROVE  \E k \in 1 .. 9 :
           /\ RowFor(TcpTable, state, m) = TcpTable[k]
           /\ k = 9 \/ Matches(TcpTable[k], state, m)
           /\ \A j \in 1 .. k - 1 : ~ Matches(TcpTable[j], state, m)
<1>1. PICK n : n = 9
  OBVIOUS
<1>2. DOMAIN TcpTable = 1 .. n /\ n \in Nat \ {0}
  BY <1>1 DEF TcpTable
<1>3. \A i \in 1 .. n : IsSentinel(TcpTable[i]) <=> i = n
  BY <1>1 DEF TcpTable, IsSentinel, Row, AnyState, AnInvalidState
<1>4. PICK k \in 1 .. n :
        /\ RowFor(TcpTable, state, m) = TcpTable[k]
        /\ k = n \/ Matches(TcpTable[k], state, m)
        /\ \A j \in 1 .. k - 1 : ~ Matches(TcpTable[j], state, m)
  BY <1>2, <1>3, SomeRow
<1> QED BY <1>1, <1>4

\* The handler and the state each row leads to.
LEMMA TcpRows ==
  /\ TcpTable[1] = Row("TCP_IDLE_ST", Wifi, "OPEN_SOCKFD", "TCP_SOCKFD_ST", "Open_Tcp_Server_SockFd")
  /\ TcpTable[2] = Row("TCP_SOCKFD_ST", Tcp, "OPEN_SERVER", "TCP_OPEN_ST", "Open_Tcp_Server_OpenServer")
  /\ TcpTable[3] = Row("TCP_OPEN_ST", Tcp, "ACCEPT_STATE", "TCP_ACCEPT_ST", "Ready_To_Accept")
  /\ TcpTable[4] = Row("TCP_ACCEPT_ST", Tcp, "LISTEN_STATE", "TCP_READ_ST", "Data_Readng_FromSocks")
  /\ TcpTable[5] = Row("TCP_READ_ST", Tcp, "PROCESS_STATE", "TCP_PROCESS_ST", "Data_Process_State")
  /\ TcpTable[6] = Row("TCP_PROCESS_ST", Tcp, "RESPONSE_STATE", "TCP_WRITE_ST", "Data_Response_state")
  /\ TcpTable[7] = Row("TCP_PROCESS_ST", Tcp, "ACCEPT_STATE", "TCP_ACCEPT_ST", "Ready_To_Accept")
  /\ TcpTable[8] = Row(AnyState, Tcp, "ACCEPT_STATE", AnyState, "Ready_To_Accept")
  /\ TcpTable[9] = Row(AnInvalidState, Tcp, "OPEN_SOCKFD", "TCP_SOCKFD_ST", Null)
BY DEF TcpTable

\* The rows found for a request and for the server's own messages.
LEMMA ServerRows ==
  ASSUME NEW state \in TcpState
  PROVE  /\ RowFor(TcpTable, state, Request) \in
              {TcpTable[9]} \cup (IF state = "TCP_IDLE_ST" THEN {TcpTable[1]} ELSE {})
         /\ RowFor(TcpTable, state, Own("OPEN_SERVER")) \in {TcpTable[2], TcpTable[9]}
         /\ RowFor(TcpTable, state, Own("ACCEPT_STATE")) \in
              IF state = "TCP_OPEN_ST" THEN {TcpTable[3]} ELSE {TcpTable[7], TcpTable[8]}
         /\ RowFor(TcpTable, state, Own("LISTEN_STATE")) \in {TcpTable[4], TcpTable[9]}
         /\ RowFor(TcpTable, state, Own("PROCESS_STATE")) \in {TcpTable[5], TcpTable[9]}
         /\ RowFor(TcpTable, state, Own("RESPONSE_STATE")) \in {TcpTable[6], TcpTable[9]}
<1>1. \A k \in 1 .. 9 : k \in {1, 2, 3, 4, 5, 6, 7, 8, 9}
  OBVIOUS
<1>2. \A k \in 1 .. 9 : \A m :
        Matches(TcpTable[k], state, m) <=>
          \/ k = 1 /\ state = "TCP_IDLE_ST" /\ m.source = Wifi /\ m.id = "OPEN_SOCKFD"
          \/ k = 2 /\ state = "TCP_SOCKFD_ST" /\ m.source = Tcp /\ m.id = "OPEN_SERVER"
          \/ k = 3 /\ state = "TCP_OPEN_ST" /\ m.source = Tcp /\ m.id = "ACCEPT_STATE"
          \/ k = 4 /\ state = "TCP_ACCEPT_ST" /\ m.source = Tcp /\ m.id = "LISTEN_STATE"
          \/ k = 5 /\ state = "TCP_READ_ST" /\ m.source = Tcp /\ m.id = "PROCESS_STATE"
          \/ k = 6 /\ state = "TCP_PROCESS_ST" /\ m.source = Tcp /\ m.id = "RESPONSE_STATE"
          \/ k = 7 /\ state = "TCP_PROCESS_ST" /\ m.source = Tcp /\ m.id = "ACCEPT_STATE"
          \/ k = 8 /\ m.source = Tcp /\ m.id = "ACCEPT_STATE"
  <2>1. state \notin {AnyState, AnInvalidState}
    BY DEF TcpState, AnyState, AnInvalidState
  <2> QED BY <1>1, <2>1, TcpRows DEF Matches, Row, AnyState, AnInvalidState
<1>3. /\ Request.source = Wifi /\ Request.id = "OPEN_SOCKFD"
      /\ \A id : Own(id).source = Tcp /\ Own(id).id = id
  BY DEF Request, Own, Message
<1>4. RowFor(TcpTable, state, Request) \in
        {TcpTable[9]} \cup (IF state = "TCP_IDLE_ST" THEN {TcpTable[1]} ELSE {})
  BY <1>2, <1>3, TcpRow, Tasks2
<1>5. RowFor(TcpTable, state, Own("OPEN_SERVER")) \in {TcpTable[2], TcpTable[9]}
  BY <1>2, <1>3, TcpRow, Tasks2
<1>6. RowFor(TcpTable, state, Own("ACCEPT_STATE")) \in
        IF state = "TCP_OPEN_ST" THEN {TcpTable[3]} ELSE {TcpTable[7], TcpTable[8]}
  <2> PICK k \in 1 .. 9 : /\ RowFor(TcpTable, state, Own("ACCEPT_STATE")) = TcpTable[k]
                          /\ k = 9 \/ Matches(TcpTable[k], state, Own("ACCEPT_STATE"))
                          /\ \A j \in 1 .. k - 1 : ~ Matches(TcpTable[j], state, Own("ACCEPT_STATE"))
    BY TcpRow
  <2>1. Matches(TcpTable[8], state, Own("ACCEPT_STATE")) /\ k # 9
    BY <1>2, <1>3
  <2>2. state = "TCP_OPEN_ST" => Matches(TcpTable[3], state, Own("ACCEPT_STATE")) /\ k <= 3
    BY <1>2, <1>3
  <2> QED BY <1>2, <1>3, <2>1, <2>2, Tasks2
<1>7. RowFor(TcpTable, state, Own("LISTEN_STATE")) \in {TcpTable[4], TcpTable[9]}
  BY <1>2, <1>3, TcpRow, Tasks2
<1>8. RowFor(TcpTable, state, Own("PROCESS_STATE")) \in {TcpTable[5], TcpTable[9]}
  BY <1>2, <1>3, TcpRow, Tasks2
<1>9. RowFor(TcpTable, state, Own("RESPONSE_STATE")) \in {TcpTable[6], TcpTable[9]}
  BY <1>2, <1>3, TcpRow, Tasks2
<1> QED BY <1>4, <1>5, <1>6, <1>7, <1>8, <1>9

\* What applying a row does to the server's status and to where it stands.
Enters(fn) ==
  /\ st'[Tcp].fn = fn /\ at'[Tcp] = (IF fn = Null THEN "loop" ELSE fn)
  /\ st'[Tcp].cur # "TCP_IDLE_ST"

LEMMA ServerReceives ==
  ASSUME Position, ServerTyped, Receive(Tcp, TcpTable)
  PROVE  LET m == Head(inbox[Tcp]) IN
         /\ at[Tcp] = "loop" /\ inbox[Tcp] # << >> /\ inbox'[Tcp] = Tail(inbox[Tcp])
         /\ st'[Tcp] \in [cur : TcpState, prev : TcpState, fn : TcpFn]
         /\ m = Request => \/ Enters(Null)
                           \/ st[Tcp].cur = "TCP_IDLE_ST" /\ Enters("Open_Tcp_Server_SockFd")
         /\ m = Own("OPEN_SERVER") =>
              \/ Enters(Null)
              \/ Enters("Open_Tcp_Server_OpenServer") /\ st'[Tcp].cur = "TCP_OPEN_ST"
         /\ m = Own("ACCEPT_STATE") =>
              \/ Enters("Ready_To_Accept")
              \/ st[Tcp].cur # "TCP_OPEN_ST" /\ st'[Tcp] = st[Tcp] /\ at'[Tcp] = "Ready_To_Accept"
         /\ m = Own("LISTEN_STATE") => Enters(Null) \/ Enters("Data_Readng_FromSocks")
         /\ m = Own("PROCESS_STATE") => Enters(Null) \/ Enters("Data_Process_State")
         /\ m = Own("RESPONSE_STATE") => Enters(Null) \/ Enters("Data_Response_state")
<1> DEFINE m == Head(inbox[Tcp])
           row == RowFor(TcpTable, st[Tcp].cur, m)
<1>1. /\ at[Tcp] = "loop" /\ inbox[Tcp] # << >>
      /\ st'[Tcp] = Entered(st[Tcp], row)
      /\ at'[Tcp] = IF row.fn = Null THEN "loop" ELSE row.fn
      /\ inbox'[Tcp] = Tail(inbox[Tcp])
  BY Tasks2 DEF Receive, Accept, Position, OverTasks
<1>2. st[Tcp] \in [cur : TcpState, prev : TcpState, fn : TcpFn] /\ st[Tcp].cur \in TcpState
  BY DEF ServerTyped
<1>3. ASSUME NEW k \in 1 .. 9, k # 8, row = TcpTable[k]
      PROVE  /\ st'[Tcp] \in [cur : TcpState, prev : TcpState, fn : TcpFn]
             /\ Enters(TcpTable[k].fn) /\ st'[Tcp].cur = TcpTable[k].next
  <2>1. /\ ~ Keeps(TcpTable[k]) /\ TcpTable[k].next \in TcpState \ {"TCP_IDLE_ST"}
        /\ TcpTable[k].fn \in TcpFn
    BY <1>3, TcpRows DEF Keeps, Row, AnyState, AnInvalidState, TcpState, TcpFn
  <2>2. st'[Tcp] = Status(TcpTable[k].next,
                          IF TcpTable[k].fn = Null THEN TcpTable[k].next ELSE st[Tcp].cur,
                          TcpTable[k].fn)
    BY <1>1, <1>3, <2>1 DEF Entered
  <2> QED BY <1>1, <1>2, <1>3, <2>1, <2>2 DEF Status, Enters
<1>4. ASSUME row = TcpTable[8]
      PROVE  st'[Tcp] = st[Tcp] /\ at'[Tcp] = "Ready_To_Accept"
  BY <1>1, <1>4, TcpRows DEF Keeps, Row, Entered, Null
<1>5. /\ TcpTable[1].fn = "Open_Tcp_Server_SockFd" /\ TcpTable[9].fn = Null
      /\ TcpTable[2].fn = "Open_Tcp_Server_OpenServer" /\ TcpTable[2].next = "TCP_OPEN_ST"
      /\ TcpTable[3].fn = "Ready_To_Accept" /\ TcpTable[7].fn = "Ready_To_Accept"
      /\ TcpTable[4].fn = "Data_Readng_FromSocks" /\ TcpTable[5].fn = "Data_Process_State"
      /\ TcpTable[6].fn = "Data_Response_state"
  BY TcpRows DEF Row
<1>6. \E k \in 1 .. 9 : row = TcpTable[k]
  BY TcpRow
<1> HIDE DEF row
<1>7. st'[Tcp] \in [cur : TcpState, prev : TcpState, fn : TcpFn]
  BY <1>2, <1>3, <1>4, <1>6
<1>8. m = Request => \/ Enters(Null)
                     \/ st[Tcp].cur = "TCP_IDLE_ST" /\ Enters("Open_Tcp_Server_SockFd")
  BY <1>2, <1>3, <1>5, ServerRows DEF row
<1>9. m = Own("OPEN_SERVER") =>
        \/ Enters(Null)
        \/ Enters("Open_Tcp_Server_OpenServer") /\ st'[Tcp].cur = "TCP_OPEN_ST"
  BY <1>2, <1>3, <1>5, ServerRows DEF row
<1>10. m = Own("ACCEPT_STATE") =>
         \/ Enters("Ready_To_Accept")
         \/ st[Tcp].cur # "TCP_OPEN_ST" /\ st'[Tcp] = st[Tcp] /\ at'[Tcp] = "Ready_To_Accept"
  BY <1>2, <1>3, <1>4, <1>5, ServerRows DEF row
<1>11. /\ m = Own("LISTEN_STATE") => Enters(Null) \/ Enters("Data_Readng_FromSocks")
       /\ m = Own("PROCESS_STATE") => Enters(Null) \/ Enters("Data_Process_State")
       /\ m = Own("RESPONSE_STATE") => Enters(Null) \/ Enters("Data_Response_state")
  BY <1>2, <1>3, <1>5, ServerRows DEF row
<1> QED BY <1>1, <1>7, <1>8, <1>9, <1>10, <1>11
-----------------------------------------------------------------------------
\* A mailbox without a message for the server has room, because the manager's
\* messages take one slot at most.
LEMMA RoomForServer ==
  ASSUME Position, inbox[Tcp] = << >>, NSlots > 1
  PROVE  Occupied < NSlots
<1>1. Len(inbox[Wifi]) \in {0, 1}
  <2>1. inbox[Wifi] = << >> \/ \E m : inbox[Wifi] = <<m>>
    BY DEF Position, Booting, Joining, Joined, WaitsForIp, WaitsForLoss, Waiting, WifiInbox
  <2>2. Len(<< >>) = 0 /\ \A m : Len(<<m>>) = 1
    OBVIOUS
  <2>3. CASE inbox[Wifi] = << >>
    BY <2>2, <2>3
  <2>4. ASSUME NEW m, inbox[Wifi] = <<m>> PROVE Len(inbox[Wifi]) \in {0, 1}
    <3>1. Len(inbox[Wifi]) = 1
      BY <2>2, <2>4
    <3> QED BY <3>1
  <2> QED BY <2>1, <2>3, <2>4
<1>2. 1 \in Nat /\ Len(inbox[Wifi]) \in 0 .. 1 /\ \A t \in Module \ {Wifi} : inbox[t] = << >>
  BY <1>1, Tasks2
<1>3. Occupied \in 0 .. 1
  BY <1>2, OccupiedByOne, TasksAssumption
<1> QED BY <1>3, Tasks2

\* A post of the server's own arrives, or something waits for it already.
LEMMA ServerPosts ==
  ASSUME Position, NSlots > 1, NEW id
  PROVE  LET box == Posted(Tcp, Tcp, id) IN
         /\ OverTasks(box)
         /\ \/ box[Tcp] = Append(inbox[Tcp], Own(id))
            \/ box[Tcp] = inbox[Tcp] /\ inbox[Tcp] # << >>
<1>1. OverTasks(inbox) /\ Tcp \in Module
  BY Tasks2 DEF Position
<1>2. CASE Occupied < NSlots
  BY <1>1, <1>2, Posting DEF Own
<1>3. CASE ~ Occupied < NSlots
  BY <1>1, <1>3, RoomForServer DEF Posted
<1> QED BY <1>2, <1>3

LEMMA ServerReturns ==
  ASSUME Position, ServerTyped, NEW box, Return(Tcp, box)
  PROVE  /\ inbox' = box /\ at'[Tcp] = "loop"
         /\ st'[Tcp] \in [cur : TcpState, prev : TcpState, fn : TcpFn]
         /\ st'[Tcp].cur = st[Tcp].cur /\ st'[Tcp].fn = st[Tcp].fn
BY Tasks2 DEF Position, OverTasks, ServerTyped, Return

\* The handler of the present state is called again.
LEMMA ServerLoops ==
  ASSUME Position, SelfLoop(Tcp)
  PROVE  /\ at[Tcp] = "loop" /\ inbox[Tcp] = << >> /\ st[Tcp].fn # Null
         /\ at'[Tcp] = st[Tcp].fn /\ UNCHANGED <<inbox, st>>
BY Tasks2 DEF Position, OverTasks, SelfLoop, Accept

\* The rest of the firmware: it may create the server's task and may put a
\* request into its mailbox.
LEMMA OthersKeepServer ==
  ASSUME Server, UNCHANGED tcpVars, st'[Tcp] = st[Tcp],
         at'[Tcp] = at[Tcp] \/ (at[Tcp] = "absent" /\ at'[Tcp] = "loop"),
         inbox'[Tcp] \in {inbox[Tcp], Append(inbox[Tcp], Request)}
  PROVE  Server' /\ (Gone => Gone')
<1> USE DEF Server, tcpVars
<1>1. /\ inbox'[Tcp] \in Seq(TcpMail)
      /\ \A ids : Carries(inbox[Tcp], ids) => Carries(inbox'[Tcp], ids)
      /\ \A id : Once(inbox[Tcp], id) => Once(inbox'[Tcp], id)
      /\ inbox[Tcp] # << >> => inbox'[Tcp] # << >>
  <2>1. inbox[Tcp] \in Seq(TcpMail)
    BY DEF ServerTyped
  <2>2. CASE inbox'[Tcp] = inbox[Tcp]
    BY <2>1, <2>2
  <2>3. CASE inbox'[Tcp] = Append(inbox[Tcp], Request)
    <3> DEFINE box == inbox[Tcp]
    <3>1. box \in Seq(TcpMail) /\ inbox'[Tcp] = Append(box, Request)
      BY <2>1, <2>3
    <3> HIDE DEF box
    <3>2. /\ inbox'[Tcp] \in Seq(TcpMail) /\ inbox'[Tcp] # << >>
          /\ \A ids : Carries(box, ids) => Carries(inbox'[Tcp], ids)
          /\ \A id : Once(box, id) => Once(inbox'[Tcp], id)
      BY <3>1, Adding
    <3> QED BY <3>2 DEF box
  <2> QED BY <2>2, <2>3
<1>2. ServerTyped'
  BY <1>1 DEF ServerTyped
<1>3. at[Tcp] = "absent" => Before
  BY DEF Stage, Opened, Gone, Announced, Accepting, Serving
<1>4. ASSUME Before PROVE Server'
  BY <1>1, <1>2, <1>4 DEF Stage, Before, Closed, Zeroed
<1>5. ASSUME Opened PROVE Server'
  BY <1>1, <1>2, <1>3, <1>5 DEF Stage, Opened, Bound, Zeroed
<1>6. Gone => Gone'
  BY <1>1, <1>3 DEF Gone, Before, Closed, Zeroed
<1>7. ASSUME Announced PROVE Server'
  BY <1>1, <1>2, <1>3, <1>7 DEF Stage, Announced, Bound, Zeroed
<1>8. ASSUME Accepting PROVE Server'
  BY <1>1, <1>2, <1>3, <1>8 DEF Stage, Accepting, Bound, Zeroed
<1>9. ASSUME Serving PROVE Server'
  BY <1>1, <1>2, <1>3, <1>9 DEF Stage, Serving, Bound
<1> QED BY <1>2, <1>4, <1>5, <1>6, <1>7, <1>8, <1>9 DEF Stage
-----------------------------------------------------------------------------
\* One lemma per stage: what the server's own steps make of it.

Typed(box) == box \in Seq(TcpMail)

\* The mailbox after a post of the server's own, when none waited before.
LEMMA FirstOwn ==
  ASSUME Position, ServerTyped, NSlots > 1, NEW id \in TcpMessage, Carries(inbox[Tcp], {})
  PROVE  LET box == Posted(Tcp, Tcp, id) IN
         /\ Typed(box[Tcp]) /\ box[Tcp] # << >>
         /\ Carries(box[Tcp], {id}) /\ Once(box[Tcp], id)
<1> DEFINE old == inbox[Tcp]
           new == Posted(Tcp, Tcp, id)[Tcp]
<1>1. old \in Seq(TcpMail) /\ Carries(old, {})
  BY DEF ServerTyped
<1>2. new = Append(old, Own(id)) \/ (new = old /\ old # << >>)
  BY ServerPosts
<1> HIDE DEF old, new
<1>3. ASSUME new = Append(old, Own(id))
      PROVE  Typed(new) /\ new # << >> /\ Carries(new, {id}) /\ Once(new, id)
  <2>1. new # << >>
    <3>1. Len(new) = Len(old) + 1 /\ Len(old) \in Nat /\ Len(<< >>) = 0
      BY <1>1, <1>3
    <3> QED BY <3>1
  <2>2. Append(old, Own(id)) \in Seq(TcpMail)
    BY <1>1, Adding
  <2>3. Once(Append(old, Own(id)), id) /\ Carries(Append(old, Own(id)), {id})
    BY <1>1, Adding
  <2> QED BY <1>3, <2>1, <2>2, <2>3 DEF Typed
<1>4. ASSUME new = old, old # << >>
      PROVE  Typed(new) /\ new # << >> /\ Carries(new, {id}) /\ Once(new, id)
  <2>1. Once(old, id) /\ Carries(old, {id})
    BY <1>1, Adding
  <2> QED BY <1>1, <1>4, <2>1 DEF Typed
<1> QED BY <1>2, <1>3, <1>4 DEF new

\* And when what waited was of the same kinds.
LEMMA AnotherOwn ==
  ASSUME Position, ServerTyped, NSlots > 1, NEW ids, NEW id \in ids, id \in TcpMessage,
         Carries(inbox[Tcp], ids)
  PROVE  LET box == Posted(Tcp, Tcp, id) IN Typed(box[Tcp]) /\ Carries(box[Tcp], ids)
<1> DEFINE old == inbox[Tcp]
           new == Posted(Tcp, Tcp, id)[Tcp]
<1>1. old \in Seq(TcpMail) /\ Carries(old, ids)
  BY DEF ServerTyped
<1>2. new = Append(old, Own(id)) \/ new = old
  BY ServerPosts
<1> HIDE DEF old, new
<1>3. Append(old, Own(id)) \in Seq(TcpMail) /\ Carries(Append(old, Own(id)), ids)
  BY <1>1, Adding
<1>4. Typed(new) /\ Carries(new, ids)
  BY <1>1, <1>2, <1>3 DEF Typed
<1> QED BY <1>4 DEF new

\* What taking a message leaves.
LEMMA Taken ==
  ASSUME ServerTyped, inbox[Tcp] # << >>, inbox'[Tcp] = Tail(inbox[Tcp])
  PROVE  /\ Typed(inbox'[Tcp])
         /\ \A ids : Carries(inbox[Tcp], ids) =>
              /\ Carries(inbox'[Tcp], ids)
              /\ Head(inbox[Tcp]) = Request \/ \E id \in ids : Head(inbox[Tcp]) = Own(id)
         /\ \A id : Once(inbox[Tcp], id) => Once(inbox'[Tcp], id)
         /\ \A id : Once(inbox[Tcp], id) /\ Carries(inbox[Tcp], {id}) /\ Head(inbox[Tcp]) = Own(id) =>
              Carries(inbox'[Tcp], {})
<1> DEFINE box == inbox[Tcp]
<1>1. box \in Seq(TcpMail) /\ box # << >> /\ inbox'[Tcp] = Tail(box)
  BY DEF ServerTyped
<1> HIDE DEF box
<1>2. /\ Typed(inbox'[Tcp])
      /\ \A ids : Carries(box, ids) =>
           /\ Carries(inbox'[Tcp], ids)
           /\ Head(box) = Request \/ \E id \in ids : Head(box) = Own(id)
      /\ \A id : Once(box, id) => Once(inbox'[Tcp], id)
      /\ \A id : Once(box, id) /\ Carries(box, {id}) /\ Head(box) = Own(id) => Carries(inbox'[Tcp], {})
  BY <1>1, Removing DEF Typed
<1> QED BY <1>2 DEF box

\* The types hold after a step that ends with these values.
LEMMA TypedNext ==
  ASSUME ServerTyped, Typed(inbox'[Tcp]), st'[Tcp] \in [cur : TcpState, prev : TcpState, fn : TcpFn],
         UNCHANGED <<slots, index>>
  PROVE  ServerTyped'
BY DEF ServerTyped, Typed

LEMMA BeforeMoves ==
  ASSUME Position, ServerTyped, Before, NSlots > 1, TcpMoves
  PROVE  Server'
<1>1. CASE TcpPoll
  <2>1. UNCHANGED tcpVars
    BY <1>1 DEF TcpPoll
  <2>2. CASE Receive(Tcp, TcpTable)
    <3>1. Head(inbox[Tcp]) = Request /\ Carries(inbox'[Tcp], {}) /\ Typed(inbox'[Tcp])
      BY <2>2, ServerReceives, Taken DEF Before
    <3>2. /\ Enters(Null) \/ Enters("Open_Tcp_Server_SockFd")
          /\ st'[Tcp] \in [cur : TcpState, prev : TcpState, fn : TcpFn]
      BY <2>2, <3>1, ServerReceives
    <3>3. ServerTyped'
      BY <2>1, <3>1, <3>2, TypedNext DEF tcpVars
    <3>4. Before'
      BY <2>1, <3>1, <3>2 DEF Before, Closed, Zeroed, Enters, tcpVars, Null
    <3> QED BY <3>3, <3>4 DEF Server, Stage
  <2>3. CASE SelfLoop(Tcp)
    <3>1. /\ st[Tcp].fn # Null /\ at'[Tcp] = st[Tcp].fn /\ UNCHANGED <<inbox, st>>
      BY <2>3, ServerLoops
    <3>2. ServerTyped' /\ Before'
      BY <2>1, <3>1 DEF ServerTyped, Before, Closed, Zeroed, tcpVars
    <3> QED BY <3>2 DEF Server, Stage
  <2> QED BY <1>1, <2>2, <2>3 DEF TcpPoll
<1>2. CASE SocketOpens
  <2> DEFINE box == Posted(Tcp, Tcp, "OPEN_SERVER")
  <2>1. /\ at[Tcp] = "Open_Tcp_Server_SockFd" /\ Return(Tcp, box)
        /\ UNCHANGED <<listening, slots, index>>
        /\ serverFd' \in Fd /\ open' = {serverFd'}
    BY <1>2 DEF SocketOpens, Before, Closed
  <2>2. /\ Typed(box[Tcp]) /\ box[Tcp] # << >>
        /\ Carries(box[Tcp], {"OPEN_SERVER"}) /\ Once(box[Tcp], "OPEN_SERVER")
    BY FirstOwn DEF Before, TcpMessage
  <2> HIDE DEF box
  <2>3. /\ inbox' = box /\ at'[Tcp] = "loop"
        /\ st'[Tcp] \in [cur : TcpState, prev : TcpState, fn : TcpFn]
        /\ st'[Tcp].cur = st[Tcp].cur /\ st'[Tcp].fn = st[Tcp].fn
    BY <2>1, ServerReturns
  <2>4. ServerTyped'
    BY <2>1, <2>2, <2>3, TypedNext
  <2>5. Opened'
    BY <2>1, <2>2, <2>3 DEF Before, Opened, Bound, Closed, Zeroed, Null
  <2> QED BY <2>4, <2>5 DEF Server, Stage
<1>3. CASE SocketFails
  <2>1. Return(Tcp, inbox) /\ serverFd' = NoFd /\ UNCHANGED <<open, listening, slots, index>>
    BY <1>3 DEF SocketFails
  <2>2. /\ inbox' = inbox /\ at'[Tcp] = "loop"
        /\ st'[Tcp] \in [cur : TcpState, prev : TcpState, fn : TcpFn]
        /\ st'[Tcp].cur = st[Tcp].cur /\ st'[Tcp].fn = st[Tcp].fn
    BY <2>1, ServerReturns
  <2>3. ServerTyped'
    BY <2>1, <2>2 DEF ServerTyped
  <2>4. Before'
    BY <2>1, <2>2 DEF Before, Closed, Zeroed
  <2> QED BY <2>3, <2>4 DEF Server, Stage
<1>4. ~ ServerOpens /\ ~ ServerFails /\ ~ ServerGone /\ ~ AcceptBegins /\ ~ AcceptDone /\ ~ AcceptIdle
      /\ ~ AcceptSucceeds /\ ~ AcceptFails /\ ~ ReadCell /\ ~ ReadDone
      /\ ~ Data_Process_State /\ ~ Data_Response_state
  BY DEF Before, ServerOpens, ServerFails, ServerGone, AcceptBegins, AcceptDone, AcceptIdle,
     AcceptSucceeds, AcceptFails, ReadCell, ReadDone, Data_Process_State, Data_Response_state
<1> QED BY <1>1, <1>2, <1>3, <1>4 DEF TcpMoves, TcpStep

LEMMA OpenedMoves ==
  ASSUME Position, ServerTyped, Opened, NSlots > 1, TcpMoves
  PROVE  Server'
<1>0. serverFd # NoFd
  BY TcpAssumption DEF Opened, Bound, Fd, NoFd
<1>1. CASE TcpPoll
  <2>1. UNCHANGED tcpVars
    BY <1>1 DEF TcpPoll
  <2>2. CASE Receive(Tcp, TcpTable)
    <3>1. /\ Carries(inbox'[Tcp], {"OPEN_SERVER"}) /\ Once(inbox'[Tcp], "OPEN_SERVER")
          /\ Typed(inbox'[Tcp])
          /\ \/ Head(inbox[Tcp]) = Request
             \/ Head(inbox[Tcp]) = Own("OPEN_SERVER") /\ Carries(inbox'[Tcp], {})
      BY <2>2, ServerReceives, Taken DEF Opened
    <3>2. /\ \/ Enters(Null)
             \/ /\ Enters("Open_Tcp_Server_OpenServer") /\ st'[Tcp].cur = "TCP_OPEN_ST"
                /\ Carries(inbox'[Tcp], {})
          /\ st'[Tcp] \in [cur : TcpState, prev : TcpState, fn : TcpFn]
      <4>1. st[Tcp].cur # "TCP_IDLE_ST"
        BY DEF Opened, Bound
      <4> QED BY <2>2, <3>1, <4>1, ServerReceives
    <3>3. ServerTyped'
      BY <2>1, <3>1, <3>2, TypedNext DEF tcpVars
    <3>4. Opened'
      BY <2>1, <3>1, <3>2 DEF Opened, Bound, Zeroed, Enters, tcpVars, Null
    <3> QED BY <3>3, <3>4 DEF Server, Stage
  <2>3. ~ SelfLoop(Tcp)
    BY ServerLoops DEF Opened
  <2> QED BY <1>1, <2>2, <2>3 DEF TcpPoll
<1>2. CASE ServerOpens
  <2> DEFINE box == Posted(Tcp, Tcp, "ACCEPT_STATE")
  <2>1. /\ at[Tcp] = "Open_Tcp_Server_OpenServer" /\ Return(Tcp, box)
        /\ UNCHANGED <<serverFd, open, slots, index>> /\ listening' = TRUE
    BY <1>2 DEF ServerOpens
  <2>2. /\ Typed(box[Tcp]) /\ box[Tcp] # << >>
        /\ Carries(box[Tcp], {"ACCEPT_STATE"}) /\ Once(box[Tcp], "ACCEPT_STATE")
    BY <2>1, FirstOwn DEF Opened, TcpMessage
  <2> HIDE DEF box
  <2>3. /\ inbox' = box /\ at'[Tcp] = "loop"
        /\ st'[Tcp] \in [cur : TcpState, prev : TcpState, fn : TcpFn]
        /\ st'[Tcp].cur = st[Tcp].cur /\ st'[Tcp].fn = st[Tcp].fn
    BY <2>1, ServerReturns
  <2>4. ServerTyped'
    BY <2>1, <2>2, <2>3, TypedNext
  <2>5. Announced'
    BY <2>1, <2>2, <2>3 DEF Announced, Opened, Bound, Zeroed
  <2> QED BY <2>4, <2>5 DEF Server, Stage
<1>3. CASE ServerFails
  <2>1. /\ at[Tcp] = "Open_Tcp_Server_OpenServer" /\ Return(Tcp, inbox) /\ UNCHANGED <<slots, index>>
        /\ serverFd' = NoFd /\ open' = open \ {serverFd} /\ listening' = FALSE
    BY <1>3 DEF ServerFails
  <2>2. /\ inbox' = inbox /\ at'[Tcp] = "loop"
        /\ st'[Tcp] \in [cur : TcpState, prev : TcpState, fn : TcpFn]
        /\ st'[Tcp].cur = st[Tcp].cur /\ st'[Tcp].fn = st[Tcp].fn
    BY <2>1, ServerReturns
  <2>3. ServerTyped'
    BY <2>1, <2>2 DEF ServerTyped
  <2>4. Gone'
    BY <2>1, <2>2 DEF Opened, Bound, Gone, Closed, Zeroed
  <2> QED BY <2>3, <2>4 DEF Server, Stage
<1>4. ~ SocketOpens /\ ~ SocketFails /\ ~ ServerGone /\ ~ AcceptBegins /\ ~ AcceptDone /\ ~ AcceptIdle
      /\ ~ AcceptSucceeds /\ ~ AcceptFails /\ ~ ReadCell /\ ~ ReadDone
      /\ ~ Data_Process_State /\ ~ Data_Response_state
  BY <1>0 DEF Opened, SocketOpens, SocketFails, ServerGone, AcceptBegins, AcceptDone, AcceptIdle,
     AcceptSucceeds, AcceptFails, ReadCell, ReadDone, Data_Process_State, Data_Response_state
<1> QED BY <1>1, <1>2, <1>3, <1>4 DEF TcpMoves, TcpStep

\* A failed server stays one.
LEMMA GoneMoves ==
  ASSUME Position, ServerTyped, Gone, TcpMoves
  PROVE  ServerTyped' /\ Gone'
<1>1. CASE TcpPoll
  <2>1. UNCHANGED tcpVars
    BY <1>1 DEF TcpPoll
  <2>2. CASE Receive(Tcp, TcpTable)
    <3>1. Head(inbox[Tcp]) = Request /\ Carries(inbox'[Tcp], {}) /\ Typed(inbox'[Tcp])
      BY <2>2, ServerReceives, Taken DEF Gone
    <3>2. Enters(Null) /\ st'[Tcp] \in [cur : TcpState, prev : TcpState, fn : TcpFn]
      <4>1. st[Tcp].cur # "TCP_IDLE_ST"
        BY DEF Gone
      <4> QED BY <2>2, <3>1, <4>1, ServerReceives
    <3>3. ServerTyped'
      BY <2>1, <3>1, <3>2, TypedNext DEF tcpVars
    <3>4. Gone'
      BY <2>1, <3>1, <3>2 DEF Gone, Closed, Zeroed, Enters, tcpVars, Null
    <3> QED BY <3>3, <3>4
  <2>3. CASE SelfLoop(Tcp)
    <3>1. /\ st[Tcp].fn # Null /\ at'[Tcp] = st[Tcp].fn /\ UNCHANGED <<inbox, st>>
      BY <2>3, ServerLoops
    <3> QED BY <2>1, <3>1 DEF ServerTyped, Gone, Closed, Zeroed, tcpVars
  <2> QED BY <1>1, <2>2, <2>3 DEF TcpPoll
<1>2. CASE ServerGone
  <2>1. Return(Tcp, inbox) /\ UNCHANGED tcpVars
    BY <1>2 DEF ServerGone
  <2>2. /\ inbox' = inbox /\ at'[Tcp] = "loop"
        /\ st'[Tcp] \in [cur : TcpState, prev : TcpState, fn : TcpFn]
        /\ st'[Tcp].cur = st[Tcp].cur /\ st'[Tcp].fn = st[Tcp].fn
    BY <2>1, ServerReturns
  <2> QED BY <2>1, <2>2 DEF ServerTyped, Gone, Closed, Zeroed, tcpVars
<1>3. ~ SocketOpens /\ ~ SocketFails /\ ~ ServerOpens /\ ~ ServerFails
      /\ ~ AcceptBegins /\ ~ AcceptDone /\ ~ AcceptIdle
      /\ ~ AcceptSucceeds /\ ~ AcceptFails /\ ~ ReadCell /\ ~ ReadDone
      /\ ~ Data_Process_State /\ ~ Data_Response_state
  BY DEF Gone, Closed, SocketOpens, SocketFails, ServerOpens, ServerFails, AcceptBegins, AcceptDone,
     AcceptIdle, AcceptSucceeds, AcceptFails, ReadCell, ReadDone, Data_Process_State,
     Data_Response_state
<1> QED BY <1>1, <1>2, <1>3 DEF TcpMoves, TcpStep

LEMMA AnnouncedMoves ==
  ASSUME Position, ServerTyped, Announced, TcpMoves
  PROVE  Server' /\ UNCHANGED <<serverFd, listening>>
<1>1. TcpPoll
  BY DEF Announced, TcpMoves, TcpStep, SocketOpens, SocketFails, ServerOpens, ServerFails, ServerGone,
     AcceptBegins, AcceptDone, AcceptIdle, AcceptSucceeds, AcceptFails, ReadCell, ReadDone,
     Data_Process_State, Data_Response_state
<1>2. UNCHANGED tcpVars /\ ~ SelfLoop(Tcp)
  BY <1>1, ServerLoops DEF TcpPoll, Announced
<1>3. Receive(Tcp, TcpTable)
  BY <1>1, <1>2 DEF TcpPoll
<1>4. /\ Carries(inbox'[Tcp], {"ACCEPT_STATE"}) /\ Once(inbox'[Tcp], "ACCEPT_STATE")
      /\ Typed(inbox'[Tcp])
      /\ \/ Head(inbox[Tcp]) = Request
         \/ Head(inbox[Tcp]) = Own("ACCEPT_STATE") /\ Carries(inbox'[Tcp], {})
  BY <1>3, ServerReceives, Taken DEF Announced
<1>5. st[Tcp].cur # "TCP_IDLE_ST"
  BY DEF Announced, Bound
<1>6. st'[Tcp] \in [cur : TcpState, prev : TcpState, fn : TcpFn]
  BY <1>3, ServerReceives
<1>7. ServerTyped'
  BY <1>2, <1>4, <1>6, TypedNext DEF tcpVars
<1>8. CASE Head(inbox[Tcp]) = Request
  <2>1. Enters(Null)
    BY <1>3, <1>5, <1>8, ServerReceives
  <2>2. Announced'
    BY <1>2, <1>4, <2>1 DEF Announced, Bound, Zeroed, Enters, tcpVars
  <2> QED BY <1>2, <1>7, <2>2 DEF Server, Stage, tcpVars
<1>9. CASE Head(inbox[Tcp]) = Own("ACCEPT_STATE") /\ Carries(inbox'[Tcp], {})
  <2>1. Carries(inbox'[Tcp], {"LISTEN_STATE"})
    BY <1>9 DEF Carries
  <2>2. \/ Enters("Ready_To_Accept")
        \/ st[Tcp].cur # "TCP_OPEN_ST" /\ st'[Tcp] = st[Tcp] /\ at'[Tcp] = "Ready_To_Accept"
    BY <1>3, <1>9, ServerReceives
  <2>3. Accepting'
    BY <1>2, <2>1, <2>2 DEF Announced, Accepting, Bound, Zeroed, Enters, tcpVars, Null
  <2> QED BY <1>2, <1>7, <2>3 DEF Server, Stage, tcpVars
<1> QED BY <1>4, <1>8, <1>9

\* No cell is free, so the next client's descriptor goes past the table's end.
LEMMA NoCellFree ==
  ASSUME Zeroed
  PROVE  FreeCell = MaxConn
<1> DEFINE First(i) == /\ i = MaxConn \/ slots[i] = "free"
                       /\ \A j \in 0 .. i - 1 : slots[j] # "free"
<1>1. MaxConn \in 0 .. MaxConn /\ First(MaxConn)
  BY TcpAssumption DEF Zeroed
<1>2. \A i \in 0 .. MaxConn : First(i) => i = MaxConn
  <2> SUFFICES ASSUME NEW i \in 0 .. MaxConn, First(i), i # MaxConn PROVE FALSE
    OBVIOUS
  <2>1. i \in 0 .. MaxConn - 1
    BY TcpAssumption
  <2> QED BY <2>1 DEF Zeroed
<1> HIDE DEF First
<1>3. (CHOOSE i \in 0 .. MaxConn : First(i)) = MaxConn
  BY <1>1, <1>2
<1> QED BY <1>3 DEF FreeCell, First

LEMMA AcceptingMoves ==
  ASSUME Position, ServerTyped, Accepting, NSlots > 1, TcpMoves
  PROVE  Server' /\ UNCHANGED <<serverFd, listening>>
<1>0. MaxConn \in Nat /\ 0 \in 0 .. MaxConn /\ MaxConn \in 0 .. MaxConn /\ MaxConn \notin 0 .. MaxConn - 1
  BY TcpAssumption
<1>1. CASE TcpPoll
  <2>1. UNCHANGED tcpVars
    BY <1>1 DEF TcpPoll
  <2>2. CASE Receive(Tcp, TcpTable)
    <3>1. /\ Carries(inbox'[Tcp], {"LISTEN_STATE"}) /\ Typed(inbox'[Tcp])
          /\ Head(inbox[Tcp]) = Request \/ Head(inbox[Tcp]) = Own("LISTEN_STATE")
      BY <2>2, ServerReceives, Taken DEF Accepting
    <3>2. st[Tcp].cur # "TCP_IDLE_ST"
      BY DEF Accepting, Bound
    <3>3. /\ Enters(Null) \/ Enters("Data_Readng_FromSocks")
          /\ st'[Tcp] \in [cur : TcpState, prev : TcpState, fn : TcpFn]
      BY <2>2, <3>1, <3>2, ServerReceives
    <3>4. ServerTyped'
      BY <2>1, <3>1, <3>3, TypedNext DEF tcpVars
    <3>5. Carries(inbox'[Tcp], {"LISTEN_STATE", "PROCESS_STATE", "RESPONSE_STATE"})
      BY <3>1 DEF Carries
    <3>6. Serving'
      BY <2>1, <3>3, <3>5 DEF Accepting, Serving, Bound, Zeroed, Enters, tcpVars, Null
    <3> QED BY <2>1, <3>4, <3>6 DEF Server, Stage, tcpVars
  <2>3. CASE SelfLoop(Tcp)
    <3>1. /\ st[Tcp].fn # Null /\ at'[Tcp] = st[Tcp].fn /\ UNCHANGED <<inbox, st>>
      BY <2>3, ServerLoops
    <3>2. ServerTyped' /\ Accepting'
      BY <2>1, <3>1 DEF ServerTyped, Accepting, Bound, Zeroed, tcpVars
    <3> QED BY <2>1, <3>2 DEF Server, Stage, tcpVars
  <2> QED BY <1>1, <2>2, <2>3 DEF TcpPoll
<1>2. CASE AcceptBegins
  <2>1. /\ UNCHANGED <<inbox, st, serverFd, open, listening, slots>>
        /\ index' = MaxConn /\ at'[Tcp] = "accept"
    BY <1>2, NoCellFree, Tasks2 DEF AcceptBegins, Accepting, Position, OverTasks
  <2>2. ServerTyped' /\ Accepting'
    BY <1>0, <2>1 DEF ServerTyped, Accepting, Bound, Zeroed
  <2> QED BY <2>1, <2>2 DEF Server, Stage
<1>3. CASE AcceptSucceeds \/ AcceptFails
  <2>1. PICK cell \in Cell : /\ slots' = [slots EXCEPT ![MaxConn] = cell] /\ index' = 0
                             /\ Return(Tcp, inbox) /\ UNCHANGED <<serverFd, open, listening>>
    BY <1>3 DEF AcceptSucceeds, AcceptFails, Accepting, Cell
  <2>2. /\ inbox' = inbox /\ at'[Tcp] = "loop"
        /\ st'[Tcp] \in [cur : TcpState, prev : TcpState, fn : TcpFn]
        /\ st'[Tcp].cur = st[Tcp].cur /\ st'[Tcp].fn = st[Tcp].fn
    BY <2>1, ServerReturns
  <2>3. slots' \in [0 .. MaxConn -> Cell] /\ \A i \in 0 .. MaxConn - 1 : slots'[i] = slots[i]
    BY <1>0, <2>1 DEF ServerTyped
  <2>4. ServerTyped'
    BY <1>0, <2>1, <2>2, <2>3 DEF ServerTyped
  <2>5. Accepting'
    BY <2>1, <2>2, <2>3 DEF Accepting, Bound, Zeroed
  <2> QED BY <2>1, <2>4, <2>5 DEF Server, Stage
<1>4. CASE AcceptDone \/ AcceptIdle
  <2>1. /\ Return(Tcp, inbox) \/ Return(Tcp, Posted(Tcp, Tcp, "LISTEN_STATE"))
        /\ UNCHANGED tcpVars
    BY <1>4 DEF AcceptDone, AcceptIdle
  <2>2. PICK box \in {inbox, Posted(Tcp, Tcp, "LISTEN_STATE")} : Return(Tcp, box)
    BY <2>1
  <2>3. Typed(box[Tcp]) /\ Carries(box[Tcp], {"LISTEN_STATE"})
    BY AnotherOwn DEF Accepting, TcpMessage, ServerTyped, Typed
  <2>4. /\ inbox' = box /\ at'[Tcp] = "loop"
        /\ st'[Tcp] \in [cur : TcpState, prev : TcpState, fn : TcpFn]
        /\ st'[Tcp].cur = st[Tcp].cur /\ st'[Tcp].fn = st[Tcp].fn
    BY <2>2, ServerReturns
  <2>5. ServerTyped'
    BY <2>1, <2>3, <2>4, TypedNext DEF tcpVars
  <2>6. Accepting'
    BY <2>1, <2>3, <2>4 DEF Accepting, Bound, Zeroed, tcpVars
  <2> QED BY <2>1, <2>5, <2>6 DEF Server, Stage, tcpVars
<1>5. ~ SocketOpens /\ ~ SocketFails /\ ~ ServerOpens /\ ~ ServerFails /\ ~ ServerGone
      /\ ~ ReadCell /\ ~ ReadDone /\ ~ Data_Process_State /\ ~ Data_Response_state
  BY DEF Accepting, SocketOpens, SocketFails, ServerOpens, ServerFails, ServerGone,
     ReadCell, ReadDone, Data_Process_State, Data_Response_state
<1> QED BY <1>1, <1>2, <1>3, <1>4, <1>5 DEF TcpMoves, TcpStep

LEMMA ServingMoves ==
  ASSUME Position, ServerTyped, Serving, NSlots > 1, TcpMoves
  PROVE  Server' /\ UNCHANGED <<serverFd, listening>>
<1> DEFINE kinds == {"LISTEN_STATE", "PROCESS_STATE", "RESPONSE_STATE"}
<1>0. MaxConn \in Nat /\ index \in 0 .. MaxConn /\ 0 \in 0 .. MaxConn
  BY TcpAssumption DEF ServerTyped
<1>1. CASE TcpPoll
  <2>1. UNCHANGED tcpVars
    BY <1>1 DEF TcpPoll
  <2>2. CASE Receive(Tcp, TcpTable)
    <3>1. /\ Carries(inbox'[Tcp], kinds) /\ Typed(inbox'[Tcp])
          /\ Head(inbox[Tcp]) = Request \/ \E id \in kinds : Head(inbox[Tcp]) = Own(id)
      BY <2>2, ServerReceives, Taken DEF Serving
    <3>2. st[Tcp].cur # "TCP_IDLE_ST"
      BY DEF Serving, Bound
    <3>3. /\ Enters(Null) \/ Enters("Data_Readng_FromSocks")
             \/ Enters("Data_Process_State") \/ Enters("Data_Response_state")
          /\ st'[Tcp] \in [cur : TcpState, prev : TcpState, fn : TcpFn]
      BY <2>2, <3>1, <3>2, ServerReceives
    <3>4. ServerTyped'
      BY <2>1, <3>1, <3>3, TypedNext DEF tcpVars
    <3>5. Serving'
      BY <2>1, <3>1, <3>3 DEF Serving, Bound, Enters, tcpVars, Null
    <3> QED BY <2>1, <3>4, <3>5 DEF Server, Stage, tcpVars
  <2>3. CASE SelfLoop(Tcp)
    <3>1. /\ st[Tcp].fn # Null /\ at'[Tcp] = st[Tcp].fn /\ UNCHANGED <<inbox, st>>
      BY <2>3, ServerLoops
    <3>2. ServerTyped' /\ Serving'
      BY <2>1, <3>1 DEF ServerTyped, Serving, Bound, tcpVars
    <3> QED BY <2>1, <3>2 DEF Server, Stage, tcpVars
  <2> QED BY <1>1, <2>2, <2>3 DEF TcpPoll
<1>2. CASE ReadCell
  <2>1. /\ inbox' \in {inbox, Posted(Tcp, Tcp, "PROCESS_STATE")}
        /\ UNCHANGED <<st, at, serverFd, open, listening, slots>> /\ index' \in 0 .. MaxConn
    BY <1>0, <1>2 DEF ReadCell
  <2>2. Typed(inbox'[Tcp]) /\ Carries(inbox'[Tcp], kinds)
    BY <2>1, AnotherOwn DEF Serving, TcpMessage, ServerTyped, Typed
  <2>3. ServerTyped' /\ Serving'
    BY <2>1, <2>2 DEF ServerTyped, Typed, Serving, Bound
  <2> QED BY <2>1, <2>3 DEF Server, Stage
<1>3. CASE ReadDone \/ Data_Process_State \/ Data_Response_state
  <2>1. PICK box \in {inbox, Posted(Tcp, Tcp, "RESPONSE_STATE"), Posted(Tcp, Tcp, "LISTEN_STATE")} :
          Return(Tcp, box)
    BY <1>3 DEF ReadDone, Data_Process_State, Data_Response_state
  <2>2. /\ UNCHANGED <<serverFd, open, listening>> /\ index' \in 0 .. MaxConn
        /\ slots' \in [0 .. MaxConn -> Cell]
        /\ \A i \in 0 .. MaxConn - 1 : slots'[i] # "client"
    <3>1. CASE ReadDone \/ Data_Process_State
      BY <1>0, <3>1 DEF ReadDone, Data_Process_State, tcpVars, Serving, ServerTyped
    <3>2. CASE Data_Response_state
      <4>1. slots' = [i \in 0 .. MaxConn |-> IF i < MaxConn THEN "free" ELSE slots[i]]
        BY <3>2 DEF Data_Response_state
      <4>2. slots' \in [0 .. MaxConn -> Cell]
        BY <4>1 DEF ServerTyped, Cell
      <4>3. \A i \in 0 .. MaxConn - 1 : slots'[i] = "free"
        BY <1>0, <4>1
      <4> QED BY <1>0, <3>2, <4>2, <4>3 DEF Data_Response_state
    <3> QED BY <1>3, <3>1, <3>2
  <2>3. Typed(box[Tcp]) /\ Carries(box[Tcp], kinds)
    <3>1. CASE box = inbox
      BY <3>1 DEF Serving, ServerTyped, Typed
    <3>2. CASE box \in {Posted(Tcp, Tcp, "RESPONSE_STATE"), Posted(Tcp, Tcp, "LISTEN_STATE")}
      BY <3>2, AnotherOwn DEF Serving, TcpMessage
    <3> QED BY <3>1, <3>2
  <2>4. /\ inbox' = box /\ at'[Tcp] = "loop"
        /\ st'[Tcp] \in [cur : TcpState, prev : TcpState, fn : TcpFn]
        /\ st'[Tcp].cur = st[Tcp].cur /\ st'[Tcp].fn = st[Tcp].fn
    BY <2>1, ServerReturns
  <2>5. ServerTyped' /\ Serving'
    BY <2>2, <2>3, <2>4 DEF ServerTyped, Typed, Serving, Bound
  <2> QED BY <2>2, <2>5 DEF Server, Stage
<1>4. ~ SocketOpens /\ ~ SocketFails /\ ~ ServerOpens /\ ~ ServerFails /\ ~ ServerGone
      /\ ~ AcceptBegins /\ ~ AcceptDone /\ ~ AcceptIdle /\ ~ AcceptSucceeds /\ ~ AcceptFails
  BY DEF Serving, SocketOpens, SocketFails, ServerOpens, ServerFails, ServerGone,
     AcceptBegins, AcceptDone, AcceptIdle, AcceptSucceeds, AcceptFails
<1> QED BY <1>1, <1>2, <1>3, <1>4 DEF TcpMoves, TcpStep
-----------------------------------------------------------------------------
\* Every step is one of the server's or leaves it alone.
LEMMA StepsOfOthers ==
  ASSUME Position, Server, [Next]_stationVars, ~ (TcpMoves /\ UNCHANGED wifiVars)
  PROVE  Server' /\ (Gone => Gone') /\ UNCHANGED tcpVars
<1>0. Wifi # Tcp /\ Module = {Wifi, Tcp} /\ Wifi \in Module /\ Tcp \in Module
  BY Tasks2
<1>1. CASE StartWifi \/ StartTcp
  <2>1. PICK t \in {Wifi, Tcp} : Start(t) /\ UNCHANGED tcpVars
    BY <1>1 DEF StartWifi, StartTcp
  <2> QED BY <1>0, <2>1, OthersKeepServer DEF Start, Position, OverTasks
<1>2. CASE WifiPoll /\ UNCHANGED tcpVars
  <2>1. inbox'[Tcp] = inbox[Tcp] /\ st'[Tcp] = st[Tcp] /\ at'[Tcp] = at[Tcp]
    <3>1. CASE SelfLoop(Wifi)
      BY <1>0, <3>1 DEF SelfLoop, Position, OverTasks
    <3>2. CASE Receive(Wifi, WifiTable)
      <4> DEFINE row == RowFor(WifiTable, st[Wifi].cur, Head(inbox[Wifi]))
      <4>1. /\ st' = [st EXCEPT ![Wifi] = Entered(@, row)]
            /\ at' = [at EXCEPT ![Wifi] = IF row.fn = Null THEN "loop" ELSE row.fn]
            /\ inbox' = [inbox EXCEPT ![Wifi] = Tail(@)]
        BY <3>2 DEF Receive
      <4> HIDE DEF row
      <4> QED BY <1>0, <4>1 DEF Position, OverTasks
    <3> QED BY <1>2, <3>1, <3>2 DEF WifiPoll
  <2> QED BY <1>2, <2>1, OthersKeepServer
<1>3. CASE (wifi_Join_Process \/ wifi_gotIp_State \/ ReadyEnters \/ ReadyWatches) /\ UNCHANGED tcpVars
  <2>1. PICK box \in {inbox, Posted(Wifi, Wifi, "GO_FOR_IP"), Posted(Wifi, Wifi, "READY"),
                      Posted(Wifi, Tcp, "OPEN_SOCKFD")} : Return(Wifi, box)
    BY <1>3 DEF wifi_Join_Process, wifi_gotIp_State, ReadyEnters, ReadyWatches
  <2>2. inbox' = box /\ st'[Tcp] = st[Tcp] /\ at'[Tcp] = at[Tcp]
    BY <1>0, <2>1 DEF Return, Position, OverTasks
  <2>3. OverTasks(inbox)
    BY DEF Position
  <2>4. box[Tcp] \in {inbox[Tcp], Append(inbox[Tcp], Request)}
    <3>1. CASE box = inbox
      BY <3>1
    <3>2. ASSUME NEW id, box = Posted(Wifi, Wifi, id) PROVE box[Tcp] = inbox[Tcp]
      BY <1>0, <2>3, <3>2, Posting
    <3>3. CASE box = Posted(Wifi, Tcp, "OPEN_SOCKFD")
      BY <1>0, <2>3, <3>3, Posting DEF Request
    <3> QED BY <2>1, <3>1, <3>2, <3>3
  <2> QED BY <1>3, <2>2, <2>4, OthersKeepServer
<1>4. CASE (StaStart \/ StaGotIp \/ StaLost) /\ UNCHANGED tcpVars
  BY <1>4, OthersKeepServer DEF StaStart, StaGotIp, StaLost, taskVars
<1>5. CASE UNCHANGED stationVars
  BY <1>5, OthersKeepServer DEF stationVars, taskVars
<1> QED BY <1>1, <1>2, <1>3, <1>4, <1>5 DEF Next, TcpMoves, TcpStep

LEMMA ServerStep ==
  ASSUME Position, Server, NSlots > 1, [Next]_stationVars
  PROVE  Server'
<1>1. CASE TcpMoves /\ UNCHANGED wifiVars
  BY <1>1, BeforeMoves, OpenedMoves, GoneMoves, AnnouncedMoves, AcceptingMoves, ServingMoves
     DEF Server, Stage
<1> QED BY <1>1, StepsOfOthers

LEMMA ServerInvariant ==
  ASSUME NSlots > 1
  PROVE  Spec => [](Position /\ Server)
<1>1. ASSUME Init PROVE Server
  <2>1. inbox[Tcp] = << >> /\ st[Tcp] = Status("TCP_IDLE_ST", "TCP_IDLE_ST", Null) /\ at[Tcp] = "absent"
        /\ TcpInit
    BY <1>1, Tasks2 DEF Init, TcpStatus
  <2>2. Carries(<< >>, {}) /\ << >> \in Seq(TcpMail)
    <3>1. 1 .. Len(<< >>) = {}
      OBVIOUS
    <3> QED BY <3>1 DEF Carries
  <2>3. MaxConn \in Nat /\ 0 \in 0 .. MaxConn
    BY TcpAssumption
  <2>4. st[Tcp] \in [cur : TcpState, prev : TcpState, fn : TcpFn]
    BY <2>1 DEF Status, TcpState, TcpFn
  <2>5. ServerTyped
    BY <2>1, <2>2, <2>3, <2>4 DEF ServerTyped, TcpInit, Cell
  <2>6. Before
    BY <2>1, <2>2, <2>3 DEF Before, Closed, Zeroed, TcpInit, Status
  <2> QED BY <2>5, <2>6 DEF Server, Stage
<1>2. Position /\ Server /\ [Next]_stationVars => Server'
  BY ServerStep
<1> QED BY <1>1, <1>2, PositionHolds, PTL DEF Spec

\* The socket that is open is the one serverFd names: no refused post makes
\* the handler that opens it run twice (TCP_Server.c:44).
THEOREM NoSocketLeaks ==
  ASSUME NSlots > 1
  PROVE  Spec => []OneServerSocket
<1>1. Server => OneServerSocket
  BY DEF Server, Stage, Before, Opened, Gone, Announced, Accepting, Serving, Closed, Bound, OneServerSocket
<1> QED BY <1>1, ServerInvariant, PTL

\* The server waits for clients on a listening socket only.
THEOREM AcceptsListening ==
  ASSUME NSlots > 1
  PROVE  Spec => []AcceptsOnListener
<1>1. Server => AcceptsOnListener
  BY DEF Server, Stage, Before, Opened, Gone, Announced, Accepting, Serving, Bound, AcceptsOnListener
<1> QED BY <1>1, ServerInvariant, PTL

\* No accepted client's descriptor is ever in the part of the table the server
\* reads from (TCP_Server.c:146).
THEOREM NobodyIsRead ==
  ASSUME NSlots > 1
  PROVE  Spec => []ClientsGoUnread
<1>1. Server => ClientsGoUnread
  <2> SUFFICES ASSUME Server, at[Tcp] = "Data_Readng_FromSocks", index < MaxConn
               PROVE  slots[index] # "client"
    BY DEF ClientsGoUnread
  <2>1. Serving
    BY DEF Server, Stage, Before, Opened, Gone, Announced, Accepting
  <2>2. index \in 0 .. MaxConn - 1
    BY TcpAssumption DEF Server, ServerTyped
  <2> QED BY <2>1, <2>2 DEF Serving
<1> QED BY <1>1, ServerInvariant, PTL

\* A server that listens goes on listening on the same socket, whatever
\* requests a lost address brings (wifi.c:269).
THEOREM KeepsListening ==
  ASSUME NSlots > 1
  PROVE  Spec => ListenerKept
<1>1. ASSUME Position, Server, [Next]_stationVars
      PROVE  listening => listening' /\ serverFd' = serverFd
  <2> SUFFICES ASSUME listening PROVE listening' /\ serverFd' = serverFd
    OBVIOUS
  <2>1. CASE TcpMoves /\ UNCHANGED wifiVars
    <3>1. Announced \/ Accepting \/ Serving
      BY <1>1 DEF Server, Stage, Before, Opened, Gone, Closed
    <3> QED BY <1>1, <2>1, <3>1, AnnouncedMoves, AcceptingMoves, ServingMoves DEF Server
  <2>2. CASE ~ (TcpMoves /\ UNCHANGED wifiVars)
    BY <1>1, <2>2, StepsOfOthers DEF tcpVars
  <2> QED BY <2>1, <2>2
<1>2. Position /\ Server /\ [Next]_stationVars =>
        [listening => listening' /\ serverFd' = serverFd]_stationVars
  BY <1>1
<1> QED BY <1>2, ServerInvariant, PTL DEF Spec, ListenerKept

\* A failed bind or listen is final (TCP_Server.c:64).
THEOREM FailsForGood ==
  ASSUME NSlots > 1
  PROVE  Spec => FailedForGood
<1> DEFINE Lost == Server /\ Gone
<1>1. Server /\ at[Tcp] = "Open_Tcp_Server_OpenServer" /\ serverFd = NoFd => Lost
  <2>1. NoFd \notin Fd
    BY TcpAssumption DEF Fd, NoFd
  <2> QED BY <2>1 DEF Server, Stage, Before, Opened, Announced, Accepting, Serving, Bound
<1>2. ASSUME Position, Lost, [Next]_stationVars PROVE Lost'
  <2>1. CASE TcpMoves /\ UNCHANGED wifiVars
    BY <1>2, <2>1, GoneMoves DEF Server, Stage
  <2>2. CASE ~ (TcpMoves /\ UNCHANGED wifiVars)
    BY <1>2, <2>2, StepsOfOthers DEF tcpVars
  <2> QED BY <2>1, <2>2
<1>3. Lost => serverFd = NoFd
  BY DEF Gone, Closed
<1> QED BY <1>1, <1>2, <1>3, ServerInvariant, PTL DEF Spec, FailedForGood
-----------------------------------------------------------------------------
(***************************************************************************)
(* Types.  The two positions bound what each task holds; what is left is   *)
(* the rest of the variables and the size of the mailbox.                  *)
(***************************************************************************)
LEMMA BoxTypes ==
  ASSUME Position, Server
  PROVE  \A t \in Module : inbox[t] \in Seq([source : {Wifi, t}, id : MessageOf(t)])
<1>1. inbox[Wifi] \in Seq([source : {Wifi}, id : WifiMessage])
  <2> DEFINE M == [source : {Wifi}, id : WifiMessage]
  <2>1. inbox[Wifi] = << >> \/ \E id \in WifiMessage : inbox[Wifi] = <<Message(Wifi, id)>>
    BY DEF Position, Booting, Joining, Joined, WaitsForIp, WaitsForLoss, Waiting, WifiInbox, WifiMessage
  <2>2. \A id \in WifiMessage : Message(Wifi, id) \in M
    BY DEF Message
  <2> HIDE DEF M
  <2>3. << >> \in Seq(M) /\ \A m \in M : <<m>> \in Seq(M)
    OBVIOUS
  <2>4. inbox[Wifi] \in Seq(M)
    BY <2>1, <2>2, <2>3
  <2> QED BY <2>4 DEF M
<1>2. inbox[Tcp] \in Seq([source : {Wifi, Tcp}, id : TcpMessage])
  <2> DEFINE M == [source : {Wifi, Tcp}, id : TcpMessage]
             box == inbox[Tcp]
  <2>1. box \in Seq(TcpMail)
    BY DEF Server, ServerTyped
  <2>2. TcpMail \subseteq M
    BY DEF TcpMail, Request, Own, Message, TcpMessage
  <2> HIDE DEF M, box
  <2>3. box \in Seq(M)
    BY <2>1, <2>2
  <2> QED BY <2>3 DEF M, box
<1> QED BY <1>1, <1>2, Tasks2 DEF MessageOf

\* What a step does to the mailbox.
LEMMA MailSteps ==
  ASSUME Position, Server, [Next]_stationVars
  PROVE  \/ UNCHANGED inbox
         \/ \E t \in Module : inbox[t] # << >> /\ inbox' = [inbox EXCEPT ![t] = Tail(@)]
         \/ \E from, t \in Module : \E id : inbox' = Posted(from, t, id)
<1> USE Tasks2
<1>1. CASE WifiPoll \/ TcpPoll
  BY <1>1 DEF WifiPoll, TcpPoll, Receive, SelfLoop, Accept
<1>2. CASE wifi_Join_Process \/ wifi_gotIp_State \/ ReadyEnters \/ ReadyWatches
  BY <1>2 DEF wifi_Join_Process, wifi_gotIp_State, ReadyEnters, ReadyWatches, Return
<1>3. CASE SocketOpens \/ SocketFails \/ ServerOpens \/ ServerFails \/ ServerGone
  BY <1>3 DEF SocketOpens, SocketFails, ServerOpens, ServerFails, ServerGone, Return
<1>4. CASE AcceptBegins \/ AcceptSucceeds \/ AcceptFails \/ AcceptDone \/ AcceptIdle
  BY <1>4 DEF AcceptBegins, AcceptSucceeds, AcceptFails, AcceptDone, AcceptIdle, Return
<1>5. CASE ReadCell \/ ReadDone \/ Data_Process_State \/ Data_Response_state
  BY <1>5 DEF ReadCell, ReadDone, Data_Process_State, Data_Response_state, Return
<1>6. CASE StartWifi \/ StartTcp \/ StaStart \/ StaGotIp \/ StaLost \/ UNCHANGED stationVars
  BY <1>6 DEF StartWifi, StartTcp, Start, StaStart, StaGotIp, StaLost, stationVars, taskVars
<1> QED BY <1>1, <1>2, <1>3, <1>4, <1>5, <1>6 DEF Next

\* The mailbox never holds more messages than it has slots.
LEMMA MailboxBounded ==
  ASSUME Position, Server, Occupied <= NSlots, [Next]_stationVars
  PROVE  Occupied' <= NSlots
<1>0. /\ Occupied = Cardinality(Held(inbox)) /\ Occupied' = Cardinality(Held(inbox'))
      /\ NSlots \in Nat /\ OverTasks(inbox)
  BY Tasks2 DEF Occupied, Held, Position
<1>1. \A box : IsFiniteSet(Held(box)) /\ Cardinality(Held(box)) \in Nat
  BY HeldFinite
<1>2. CASE UNCHANGED inbox
  BY <1>0, <1>2
<1>3. ASSUME NEW t \in Module, inbox[t] # << >>, inbox' = [inbox EXCEPT ![t] = Tail(@)]
      PROVE  Occupied' <= NSlots
  <2>1. inbox'[t] = Tail(inbox[t]) /\ \A u \in Module \ {t} : inbox'[u] = inbox[u]
    BY <1>0, <1>3 DEF OverTasks
  <2>2. Len(inbox'[t]) <= Len(inbox[t]) /\ Len(inbox'[t]) \in Nat /\ Len(inbox[t]) \in Nat
    <3> DEFINE box == inbox[t]
               M == [source : {Wifi, t}, id : MessageOf(t)]
    <3>1. box \in Seq(M) /\ box # << >>
      BY <1>3, BoxTypes
    <3> HIDE DEF box, M
    <3>2. Len(Tail(box)) <= Len(box) /\ Len(Tail(box)) \in Nat /\ Len(box) \in Nat
      BY <3>1
    <3> QED BY <2>1, <3>2 DEF box
  <2>3. Held(inbox') \subseteq Held(inbox)
    <3> SUFFICES ASSUME NEW p \in Held(inbox') PROVE p \in Held(inbox)
      OBVIOUS
    <3>1. p[1] \in Module /\ p[2] \in 1 .. NSlots /\ p \in Module \X (1 .. NSlots) /\ p[2] <= Len(inbox'[p[1]])
      BY DEF Held
    <3>2. CASE p[1] = t
      <4>1. p[2] <= Len(inbox'[t]) /\ p[2] \in Nat
        BY <1>0, <3>1, <3>2
      <4>2. p[2] <= Len(inbox[t])
        BY <2>2, <4>1
      <4> QED BY <3>1, <3>2, <4>2 DEF Held
    <3>3. CASE p[1] # t
      BY <2>1, <3>1, <3>3 DEF Held
    <3> QED BY <3>2, <3>3
  <2>4. Cardinality(Held(inbox')) <= Cardinality(Held(inbox))
    BY <1>1, <2>3, FS_Subset
  <2> QED BY <1>0, <1>1, <2>4
<1>4. ASSUME NEW from, NEW t \in Module, NEW id, inbox' = Posted(from, t, id), Occupied < NSlots
      PROVE  Occupied' <= NSlots
  <2> DEFINE new == <<t, Len(inbox[t]) + 1>>
  <2>1. /\ inbox'[t] = Append(inbox[t], Message(from, id))
        /\ \A u \in Module \ {t} : inbox'[u] = inbox[u]
    <3>1. OverTasks(inbox) /\ Occupied < NSlots
      BY <1>0, <1>4
    <3>2. /\ Posted(from, t, id)[t] = Append(inbox[t], Message(from, id))
          /\ \A u \in Module \ {t} : Posted(from, t, id)[u] = inbox[u]
      BY <3>1 DEF OverTasks, Posted
    <3> QED BY <1>4, <3>2
  <2>2. Len(inbox'[t]) = Len(inbox[t]) + 1 /\ Len(inbox[t]) \in Nat
    <3> DEFINE box == inbox[t]
               M == [source : {Wifi, t}, id : MessageOf(t)]
    <3>1. box \in Seq(M)
      BY BoxTypes
    <3> HIDE DEF box, M
    <3>2. \A m : Len(Append(box, m)) = Len(box) + 1 /\ Len(box) \in Nat
      BY <3>1
    <3> QED BY <2>1, <3>2 DEF box
  <2>3. Held(inbox') \subseteq Held(inbox) \cup {new}
    <3> SUFFICES ASSUME NEW p \in Held(inbox'), p \notin Held(inbox) PROVE p = new
      OBVIOUS
    <3>1. /\ p[1] \in Module /\ p[2] \in Nat /\ p \in Module \X (1 .. NSlots) /\ p = <<p[1], p[2]>>
          /\ p[2] <= Len(inbox'[p[1]])
      BY <1>0 DEF Held
    <3>2. ~ p[2] <= Len(inbox[p[1]])
      BY <3>1 DEF Held
    <3>3. p[1] = t
      BY <2>1, <3>1, <3>2
    <3>4. p[2] <= Len(inbox[t]) + 1 /\ ~ p[2] <= Len(inbox[t])
      BY <2>2, <3>1, <3>2, <3>3
    <3>5. p[2] = Len(inbox[t]) + 1
      BY <2>2, <3>1, <3>4
    <3> QED BY <3>1, <3>3, <3>5
  <2>4. /\ IsFiniteSet(Held(inbox) \cup {new})
        /\ Cardinality(Held(inbox) \cup {new}) <= Cardinality(Held(inbox)) + 1
    <3>1. IsFiniteSet(Held(inbox)) /\ Cardinality(Held(inbox)) \in Nat
      BY <1>1
    <3> HIDE DEF new
    <3>2. /\ IsFiniteSet(Held(inbox) \cup {new})
          /\ Cardinality(Held(inbox) \cup {new}) =
               IF new \in Held(inbox) THEN Cardinality(Held(inbox)) ELSE Cardinality(Held(inbox)) + 1
      BY <3>1, FS_AddElement
    <3> QED BY <3>1, <3>2
  <2>5. Cardinality(Held(inbox')) <= Cardinality(Held(inbox) \cup {new})
    BY <2>3, <2>4, FS_Subset
  <2>6. Cardinality(Held(inbox) \cup {new}) \in Nat
    BY <2>4, FS_CardinalityType
  <2> HIDE DEF new
  <2> QED BY <1>0, <1>1, <1>4, <2>4, <2>5, <2>6
<1>5. ASSUME NEW from, NEW t, NEW id, inbox' = Posted(from, t, id), ~ Occupied < NSlots
      PROVE  Occupied' <= NSlots
  BY <1>0, <1>5 DEF Posted
<1> QED BY <1>2, <1>3, <1>4, <1>5, MailSteps

\* The rest of the variables.
Rest ==
  /\ WifiTypeOK
  /\ listening \in BOOLEAN
  /\ acceptPhase \in {0, 2, 3}
  /\ Occupied <= NSlots

LEMMA RestStep ==
  ASSUME Position, Server, Rest, [Next]_stationVars
  PROVE  Rest'
<1> USE DEF wifiVars, tcpVars, stationVars
<1>1. WifiTypeOK'
  <2>1. MaxLosses \in Nat
    BY WifiAssumption
  <2>2. CASE UNCHANGED wifiVars
    BY <2>2 DEF Rest, WifiTypeOK
  <2>3. CASE wifi_Join_Process \/ ReadyEnters \/ StaStart \/ StaGotIp \/ StaLost
    BY <2>1, <2>3 DEF Rest, WifiTypeOK, wifi_Join_Process, ReadyEnters, StaStart, StaGotIp, StaLost
  <2> QED BY <2>2, <2>3 DEF Next, StartWifi, StartTcp, WifiPoll, wifi_gotIp_State, ReadyWatches
<1>2. listening' \in BOOLEAN /\ acceptPhase' \in {0, 2, 3}
  <2>1. CASE UNCHANGED tcpVars
    BY <2>1 DEF Rest
  <2>2. CASE ServerOpens \/ ServerFails
    BY <2>2 DEF Rest, ServerOpens, ServerFails
  <2>3. CASE AcceptBegins \/ AcceptSucceeds
    BY <2>3 DEF Rest, AcceptBegins, AcceptSucceeds
  <2>4. CASE SocketOpens \/ SocketFails \/ AcceptFails \/ ReadCell \/ ReadDone \/ Data_Response_state
    BY <2>4 DEF Rest, SocketOpens, SocketFails, AcceptFails, ReadCell, ReadDone, Data_Response_state
  <2>5. CASE StartWifi \/ StartTcp \/ TcpPoll \/ ServerGone \/ AcceptDone \/ AcceptIdle \/ Data_Process_State
    BY <2>1, <2>5 DEF StartWifi, StartTcp, TcpPoll, ServerGone, AcceptDone, AcceptIdle, Data_Process_State
  <2> QED BY <2>1, <2>2, <2>3, <2>4, <2>5 DEF Next
<1>3. (Occupied <= NSlots)'
  BY MailboxBounded DEF Rest
<1> QED BY <1>1, <1>2, <1>3 DEF Rest

\* The handlers of the tables, by which a task's status and place are typed.
LEMMA Handlers ==
  /\ {Null, "wifi_Join_Process", "wifi_gotIp_State", "wifi_ReadyStateProcess"} \subseteq FnOf(Wifi)
  /\ TcpFn \subseteq FnOf(Tcp)
<1>1. RowsOf(Wifi) = WifiTable /\ RowsOf(Tcp) = TcpTable
  BY Tasks2 DEF RowsOf
<1>2. DOMAIN WifiTable = 1 .. 9 /\ DOMAIN TcpTable = 1 .. 9
  BY DEF WifiTable, TcpTable
<1>3. /\ WifiTable[4].fn = "wifi_gotIp_State" /\ WifiTable[5].fn = "wifi_ReadyStateProcess"
      /\ WifiTable[7].fn = "wifi_Join_Process" /\ \E k \in 1 .. 9 : WifiTable[k].fn = Null
  BY DEF WifiTable, Row, Null
<1>4. /\ TcpTable[1].fn = "Open_Tcp_Server_SockFd" /\ TcpTable[2].fn = "Open_Tcp_Server_OpenServer"
      /\ TcpTable[3].fn = "Ready_To_Accept" /\ TcpTable[4].fn = "Data_Readng_FromSocks"
      /\ TcpTable[5].fn = "Data_Process_State" /\ TcpTable[6].fn = "Data_Response_state"
      /\ TcpTable[9].fn = Null
  BY TcpRows DEF Row
<1>5. FnOf(Wifi) = {WifiTable[k].fn : k \in 1 .. 9} /\ FnOf(Tcp) = {TcpTable[k].fn : k \in 1 .. 9}
  BY <1>1, <1>2 DEF FnOf
<1>6. {Null, "wifi_Join_Process", "wifi_gotIp_State", "wifi_ReadyStateProcess"} \subseteq FnOf(Wifi)
  BY <1>3, <1>5
<1>7. TcpFn \subseteq FnOf(Tcp)
  BY <1>4, <1>5 DEF TcpFn
<1> QED BY <1>6, <1>7

\* Every variable of the station keeps its type, the mailbox its size.
THEOREM StationTypeCorrect ==
  ASSUME NSlots > 1
  PROVE  Spec => []StationTypeOK
<1>1. ASSUME Init PROVE Rest
  <2>1. Occupied <= NSlots
    <3>1. inbox[Tcp] = << >> /\ Position
      BY <1>1, PositionInitially, Tasks2 DEF Init
    <3>2. Occupied < NSlots
      BY <3>1, RoomForServer
    <3>3. Occupied \in Nat /\ NSlots \in Nat
      BY HeldFinite, Tasks2 DEF Occupied, Held
    <3> QED BY <3>2, <3>3
  <2>2. WifiInit /\ TcpInit
    BY <1>1 DEF Init
  <2>3. WifiTypeOK
    BY <2>2, WifiAssumption DEF WifiInit, WifiTypeOK
  <2> QED BY <2>1, <2>2, <2>3 DEF TcpInit, Rest
<1>2. Position /\ Server /\ Rest /\ [Next]_stationVars => Rest'
  BY RestStep
<1>3. ASSUME Position, Server, Rest PROVE StationTypeOK
  <2>1. st[Wifi] \in [cur : WifiState, prev : WifiState, fn : FnOf(Wifi)]
    <3>1. "WIFI_IDLE_ST" \in WifiState /\ Null \in FnOf(Wifi)
      BY Handlers DEF WifiState
    <3>2. CASE Booting
      BY <3>1, <3>2, Names DEF Booting, WifiStatus, Status
    <3>3. CASE ~ Booting
      BY <1>3, <3>3, Names, Handlers
         DEF Position, Joining, Joined, WaitsForIp, WaitsForLoss, Waiting, StatusIn
    <3> QED BY <3>2, <3>3
  <2>2. at[Wifi] \in {"absent", "loop", "accept"} \cup (FnOf(Wifi) \ {Null})
    BY <1>3, Handlers DEF Position, Booting, Joining, Joined, WaitsForIp, WaitsForLoss, Waiting, Null
  <2>3. st[Tcp] \in [cur : TcpState, prev : TcpState, fn : FnOf(Tcp)]
    BY <1>3, Handlers DEF Server, ServerTyped
  <2>4. at[Tcp] \in {"absent", "loop", "accept"} \cup (FnOf(Tcp) \ {Null})
    <3>1. at[Tcp] \in {"absent", "loop", "accept"} \cup (TcpFn \ {Null})
      BY <1>3 DEF Server, Stage, Before, Opened, Gone, Announced, Accepting, Serving, TcpFn, Null
    <3> QED BY <3>1, Handlers
  <2>5. TcpTypeOK
    <3>1. serverFd \in {NoFd} \cup Fd /\ open \subseteq Fd
      BY <1>3 DEF Server, Stage, Before, Opened, Gone, Announced, Accepting, Serving, Bound, Closed
    <3> QED BY <1>3, <3>1 DEF Server, ServerTyped, Rest, TcpTypeOK
  <2>6. StateOf(Wifi) = WifiState /\ StateOf(Tcp) = TcpState
    BY Tasks2 DEF StateOf
  <2>7. \A t \in Module : inbox[t] \in Seq([source : {Wifi, t}, id : MessageOf(t)])
    BY <1>3, BoxTypes
  <2> QED BY <1>3, <2>1, <2>2, <2>3, <2>4, <2>5, <2>6, <2>7, Tasks2 DEF StationTypeOK, Rest
<1> QED BY <1>1, <1>2, <1>3, ServerInvariant, PTL DEF Spec
=============================================================================
