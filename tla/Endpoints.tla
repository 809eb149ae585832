----------------------------- MODULE Endpoints -----------------------------
(***************************************************************************)
(* The TCP client and the UDP server side by side, over one mailbox and    *)
(* one descriptor table.  Both tasks are started by execute_Control_Fun    *)
(* and wait for E_..._OPEN_SOCKFD, which their tables expect from          *)
(* E_WIFI_MODULE.  Nothing in the repository posts it, so here it comes    *)
(* from outside, at any moment and as often as the bounds allow: this is   *)
(* the interface the two modules offer.  The TCP server is there as far as *)
(* the two can notice it: it takes a descriptor and keeps it.              *)
(***************************************************************************)
EXTENDS UdpServer

CONSTANTS
  MaxAsked,            \* bound, per task: how often it is asked to open its socket
  MaxTaken,            \* bound: descriptors the TCP server takes
  Together             \* bound: may both tasks be asked in one behaviour?

ASSUME EndpointsAssumption ==
  /\ Module = {Wifi, Tcp, Client, Udp}
  /\ MaxAsked \in [{Client, Udp} -> Nat]
  /\ MaxTaken \in Nat
  /\ Together \in BOOLEAN

VARIABLE asked         \* per task, how often it was asked so far

endpointVars == <<taskVars, socket, clientVars, udpVars, asked>>

\* app_main and the E_APP_INIT round; the tasks of the WiFi manager and the
\* TCP server are not followed.
Init ==
  /\ inbox = [t \in Module |-> << >>]
  /\ st = [t \in Module |-> IF t = Client THEN ClientStatus ELSE UdpStatus]
  /\ at = [t \in Module |-> "absent"]
  /\ socket = [fd \in Fd |-> FreeSocket]
  /\ ClientInit
  /\ UdpInit
  /\ asked = [t \in {Client, Udp} |-> 0]

\* The E_APP_TASK_START round, in the order of its table.
StartClient == Start(Client) /\ UNCHANGED <<socket, clientVars, udpVars, asked>>

StartUdp ==
  /\ at[Client] # "absent"
  /\ Start(Udp)
  /\ UNCHANGED <<socket, clientVars, udpVars, asked>>

\* Somebody asks a task to open its socket.
Ask(t) ==
  /\ asked[t] < MaxAsked[t]
  /\ Together \/ \A u \in {Client, Udp} \ {t} : asked[u] = 0
  /\ asked' = [asked EXCEPT ![t] = @ + 1]
  /\ inbox' = Posted(Wifi, t, "OPEN_SOCKFD")
  /\ UNCHANGED <<st, at, socket, clientVars, udpVars>>

\* Open_Tcp_Server_SockFd, seen from the descriptor table.
TcpTakes ==
  /\ Cardinality(OwnedBy(Tcp)) < MaxTaken
  /\ \E fd \in Fd : NextFree(fd) /\ socket' = With(fd, Socket(Tcp, "fresh"))
  /\ UNCHANGED <<taskVars, clientVars, udpVars, asked>>

Next ==
  \/ StartClient
  \/ StartUdp
  \/ \E t \in {Client, Udp} : Ask(t)
  \/ TcpTakes
  \/ ClientPoll /\ UNCHANGED <<udpVars, asked>>
  \/ ClientSocketOpens /\ UNCHANGED <<udpVars, asked>>
  \/ ClientSocketFails /\ UNCHANGED <<udpVars, asked>>
  \/ ConnectBegins /\ UNCHANGED <<udpVars, asked>>
  \/ ConnectSucceeds /\ UNCHANGED <<udpVars, asked>>
  \/ ConnectFails /\ UNCHANGED <<udpVars, asked>>
  \/ Tcp_Client_WriteToServer /\ UNCHANGED <<udpVars, asked>>
  \/ RecvBegins /\ UNCHANGED <<udpVars, asked>>
  \/ RecvReturns /\ UNCHANGED <<udpVars, asked>>
  \/ Tcp_Client_Process /\ UNCHANGED <<udpVars, asked>>
  \/ Tcp_Client_Close /\ UNCHANGED <<udpVars, asked>>
  \/ UdpPoll /\ UNCHANGED <<clientVars, asked>>
  \/ UdpSocketOpens /\ UNCHANGED <<clientVars, asked>>
  \/ UdpSocketFails /\ UNCHANGED <<clientVars, asked>>
  \/ BindSucceeds /\ UNCHANGED <<clientVars, asked>>
  \/ BindFails /\ UNCHANGED <<clientVars, asked>>
  \/ RecvfromBegins /\ UNCHANGED <<clientVars, asked>>
  \/ RecvfromReturns /\ UNCHANGED <<clientVars, asked>>
  \/ UDP_Server_Data_Process /\ UNCHANGED <<clientVars, asked>>
  \/ UDP_Server_Send /\ UNCHANGED <<clientVars, asked>>
  \/ UDP_Server_Close /\ UNCHANGED <<clientVars, asked>>

Spec == Init /\ [][Next]_endpointVars

(***************************************************************************)
(* The tasks have one priority and sleep in every loop, so each runs again *)
(* and again, and lwIP ends every connect, with a connection or a          *)
(* time-out.  Nobody promises a request, an answer or a datagram.          *)
(***************************************************************************)
FairSpec ==
  /\ Spec
  /\ WF_endpointVars(StartClient \/ StartUdp)
  /\ WF_endpointVars((ClientStep \/ ConnectSucceeds) /\ UNCHANGED <<udpVars, asked>>)
  /\ WF_endpointVars(UdpStep /\ UNCHANGED <<clientVars, asked>>)
-----------------------------------------------------------------------------
RowsOf(t) == IF t = Client THEN ClientTable ELSE UdpTable
FnOf(t) == {RowsOf(t)[i].fn : i \in DOMAIN RowsOf(t)}
StateOf(t) == IF t = Client THEN ClientState ELSE UdpState
MessageOf(t) == IF t = Client THEN ClientMessage ELSE UdpMessage

\* The type of every variable.
EndpointsTypeOK ==
  /\ socket \in [Fd -> [by : Module \cup {Nobody}, is : Phase]]
  /\ {clientFd, udpFd} \subseteq {NoFd} \cup Fd
  /\ \A t \in {Client, Udp} :
       /\ inbox[t] \in Seq([source : {Wifi, t}, id : MessageOf(t)])
       /\ st[t] \in [cur : StateOf(t), prev : StateOf(t), fn : FnOf(t)]
       /\ at[t] \in {"absent", "loop", "connect", "recv", "recvfrom"} \cup (FnOf(t) \ {Null})
       /\ asked[t] \in 0 .. MaxAsked[t]

\* A task's messages to itself are a token: never two of them, and none while
\* it waits in a call, although its handlers are called by messages and by
\* polls in vain alike and requests come in between.
OneTokenEach ==
  \A t \in {Client, Udp} :
    LET own == {i \in DOMAIN inbox[t] : inbox[t][i].source = t} IN
    /\ Cardinality(own) <= 1
    /\ at[t] \notin {"absent", "loop"} => own = {}

\* No socket leaks: neither task ever has two, although a request in the
\* middle of a session throws its table into another state
\* (Tcp_Client.c:35, UDP_Server.c:31).  It holds while the requests to the
\* other task do not fill the mailbox: a full one refuses the message that ends
\* the opening, and the self-loop opens another socket.
OneSocketEach == \A t \in {Client, Udp} : Cardinality(OwnedBy(t)) <= 1

Readied(t) == {fd \in OwnedBy(t) : socket[fd].is \in {"connected", "bound"}}

ClientSession ==
  INSTANCE Session WITH
    live <- OwnedBy(Client),
    ready <- Readied(Client),
    talking <- at[Client] \in {"Tcp_Client_WriteToServer", "Tcp_Client_ReadFromServer", "recv"}

\* The client keeps to one session after the other, however requests and
\* failures interleave: it sends and receives only through a socket of its
\* own that is connected, and that nobody closes meanwhile.
ClientKeepsSession == ClientSession!Spec

UdpSession ==
  INSTANCE Session WITH
    live <- OwnedBy(Udp),
    ready <- Readied(Udp),
    talking <- at[Udp] \in {"UDP_Server_Listen", "recvfrom", "UDP_Server_Send"}

\* The same of the UDP server and its bound socket.
UdpKeepsSession == UdpSession!Spec

\* The UDP server answers once: the state after the close has no row, so no
\* later request ever brings it back to listen (UDP_Server.c:29).
AnswersOnce == [](at[Udp] = "UDP_Server_Send" => [](at[Udp] # "recvfrom"))

\* A bind that failed has closed the socket; no retry and no later request
\* ever gets the server another one (UDP_Server.c:80).
NoSecondBind ==
  [](st[Udp].cur = "OPEN_ST" /\ udpFd = NoFd => [](OwnedBy(Udp) = {} /\ at[Udp] # "recvfrom"))

\* A request in the middle of a session has put the task into the state in
\* which its socket was just opened, without a handler.
Interrupted(t) == asked[t] > 1 /\ st[t].cur = "SOCKFD_ST" /\ st[t].fn = Null

\* The client's socket is closed in the end, unless connecting fails again
\* and again, the peer never answers, or a request interrupts the session:
\* no message of the session gets lost.
ClientLetsGo ==
  \/ []<>(at[Client] = "Tcp_Client_Connect")
  \/ <>[](at[Client] = "recv")
  \/ OwnedBy(Client) # {} ~> OwnedBy(Client) = {} \/ Interrupted(Client)

\* So is the UDP server's, unless no datagram comes or it is interrupted.
UdpLetsGo ==
  \/ <>[](at[Udp] = "recvfrom")
  \/ OwnedBy(Udp) # {} ~> OwnedBy(Udp) = {} \/ Interrupted(Udp)

\* A self-loop is "not needed in case of no self loop SM" (UDP_Server.c:214,
\* Tcp_Client.c:184): what a close handler closes is its task's own socket.
ClosesOwn ==
  /\ at[Client] = "Tcp_Client_Close" => Reached(clientFd).by \in {Client, Nobody}
  /\ at[Udp] = "UDP_Server_Close" => Reached(udpFd).by \in {Udp, Nobody}
=============================================================================
