------------------------------ MODULE Station ------------------------------
(***************************************************************************)
(* The firmware as it runs: app_main and execute_Control_Fun start the     *)
(* WiFi manager, then the TCP server; the two tasks and the event task     *)
(* interleave freely and share the mailbox.  The TCP client and the UDP    *)
(* server are started too, but nothing ever posts to them: their tasks     *)
(* find no message and have no handler, so they never take a step.         *)
(*                                                                         *)
(* Each handler is one step, from what it reads to its post: what it reads *)
(* belongs to its task, except mu8_IpState, and the event task neither     *)
(* posts nor reads the mailbox, so an event between the read and the post  *)
(* may as well come after the post.                                        *)
(***************************************************************************)
EXTENDS WifiManager, TcpServer

ASSUME StationAssumption == Module = {Wifi, Tcp}

stationVars == <<taskVars, wifiVars, tcpVars>>

\* app_main and the E_APP_INIT round of execute_Control_Fun.
Init ==
  /\ inbox = [t \in Module |-> IF t = Wifi THEN WifiInbox ELSE << >>]
  /\ st = [t \in Module |-> IF t = Wifi THEN WifiStatus ELSE TcpStatus]
  /\ at = [t \in Module |-> "absent"]
  /\ WifiInit
  /\ TcpInit

\* The E_APP_TASK_START round of execute_Control_Fun, in the order of its table.
StartWifi == Start(Wifi) /\ UNCHANGED <<wifiVars, tcpVars>>

StartTcp ==
  /\ at[Wifi] # "absent"
  /\ Start(Tcp)
  /\ UNCHANGED <<wifiVars, tcpVars>>

Next ==
  \/ StartWifi
  \/ StartTcp
  \/ WifiPoll /\ UNCHANGED tcpVars
  \/ wifi_Join_Process /\ UNCHANGED tcpVars
  \/ wifi_gotIp_State /\ UNCHANGED tcpVars
  \/ ReadyEnters /\ UNCHANGED tcpVars
  \/ ReadyWatches /\ UNCHANGED tcpVars
  \/ StaStart /\ UNCHANGED tcpVars
  \/ StaGotIp /\ UNCHANGED tcpVars
  \/ StaLost /\ UNCHANGED tcpVars
  \/ TcpPoll /\ UNCHANGED wifiVars
  \/ SocketOpens /\ UNCHANGED wifiVars
  \/ SocketFails /\ UNCHANGED wifiVars
  \/ ServerOpens /\ UNCHANGED wifiVars
  \/ ServerFails /\ UNCHANGED wifiVars
  \/ ServerGone /\ UNCHANGED wifiVars
  \/ AcceptBegins /\ UNCHANGED wifiVars
  \/ AcceptSucceeds /\ UNCHANGED wifiVars
  \/ AcceptFails /\ UNCHANGED wifiVars
  \/ AcceptDone /\ UNCHANGED wifiVars
  \/ AcceptIdle /\ UNCHANGED wifiVars
  \/ ReadCell /\ UNCHANGED wifiVars
  \/ ReadDone /\ UNCHANGED wifiVars
  \/ Data_Process_State /\ UNCHANGED wifiVars
  \/ Data_Response_state /\ UNCHANGED wifiVars

Spec == Init /\ [][Next]_stationVars

(***************************************************************************)
(* The tasks have one priority and every loop sleeps, so each of them runs *)
(* again and again; the event task, of a higher priority, delivers what    *)
(* the driver has raised.  Nobody promises a client, so accept may block   *)
(* for ever, nor an address.                                               *)
(***************************************************************************)
FairSpec ==
  /\ Spec
  /\ WF_stationVars(StartWifi \/ StartTcp)
  /\ WF_stationVars(WifiStep /\ UNCHANGED tcpVars)
  /\ WF_stationVars(StaStart /\ UNCHANGED tcpVars)
  /\ WF_stationVars(TcpStep /\ UNCHANGED wifiVars)
-----------------------------------------------------------------------------
RowsOf(t) == IF t = Wifi THEN WifiTable ELSE TcpTable
FnOf(t) == {RowsOf(t)[i].fn : i \in DOMAIN RowsOf(t)}
StateOf(t) == IF t = Wifi THEN WifiState ELSE TcpState
MessageOf(t) == IF t = Wifi THEN WifiMessage ELSE TcpMessage

\* The type of every variable; the mailbox never holds more than it has room for.
StationTypeOK ==
  /\ Occupied <= NSlots
  /\ \A t \in Module :
       /\ inbox[t] \in Seq([source : {Wifi, t}, id : MessageOf(t)])
       /\ st[t] \in [cur : StateOf(t), prev : StateOf(t), fn : FnOf(t)]
       /\ at[t] \in {"absent", "loop", "accept"} \cup (FnOf(t) \ {Null})
  /\ WifiTypeOK
  /\ TcpTypeOK

\* The join runs once: a second wifi_Join_Process aborts the firmware at
\* esp_event_loop_create_default (wifi.c:214).  The self-loop of the join
\* state calls it again unless the GO_FOR_IP it posted is always there first.
NeverAborts == joins <= 1

\* The manager's messages to itself are a token: never two of them at once,
\* and none while one of its handlers runs, however the self-loops repeat.
WifiToken ==
  /\ Len(inbox[Wifi]) <= 1
  /\ at[Wifi] \notin {"absent", "loop"} => inbox[Wifi] = << >>

\* No server socket leaks: the one that is open is the one serverFd names,
\* although the handler that opens it is called again by the self-loop
\* whenever its post was refused (TCP_Server.c:44).
OneServerSocket == open \subseteq {serverFd}

\* The server waits for clients on a listening socket only, however the
\* messages that got it there and failures of bind and listen interleave.
AcceptsOnListener ==
  at[Tcp] = "accept" => listening /\ serverFd \in open

\* A server that listens goes on listening on the same socket: the request
\* that follows each lost address (wifi.c:269) meets it in any state and
\* never leads back to the handlers that would bind or close again.
ListenerKept ==
  [][listening => listening' /\ serverFd' = serverFd]_stationVars

\* A failed bind or listen is final: the self-loop's retry finds no socket
\* (TCP_Server.c:64), and no request that follows opens another one.
FailedForGood ==
  [](at[Tcp] = "Open_Tcp_Server_OpenServer" /\ serverFd = NoFd => [](serverFd = NoFd))

\* The server never reads from a client it accepted: the search for a cell
\* (TCP_Server.c:146) passes over the zeroed ones, so the client's descriptor
\* never gets into the part of the table that is read.
ClientsGoUnread ==
  at[Tcp] = "Data_Readng_FromSocks" /\ index < MaxConn => slots[index] # "client"

\* While the station keeps its address the manager settles in the ready
\* state, and while it has none it leaves that state: posts that a full
\* mailbox refused are repeated by the self-loops.  Only a mailbox that stays
\* full for ever, because requests pile up behind a server that waits for a
\* client, keeps the manager from it.
WifiTracksIp ==
  \/ <>[](Occupied = NSlots)
  \/ /\ <>[](ip = 1) => <>[](st[Wifi].cur = "WIFI_READY_ST")
     /\ <>[](ip = 0 /\ joins = 1) => <>[](st[Wifi].cur # "WIFI_READY_ST")

\* Once the manager is ready the server comes to wait for clients, whatever
\* happens to the address: the one request travels through four messages and
\* three handlers.  Two things stop it: a socket that cannot be had for ever,
\* and a second request, after a lost address, that meets a server which has
\* not got that far and puts it into a state without a handler.
EventuallyAccepting ==
  \/ []<>(at[Tcp] = "Open_Tcp_Server_SockFd")
  \/ []<>(at[Tcp] = "Open_Tcp_Server_OpenServer")
  \/ st[Wifi].cur = "WIFI_READY_ST" ~>
       \/ acceptPhase # 0
       \/ losses > 0 /\ st[Tcp].cur = "TCP_SOCKFD_ST" /\ st[Tcp].fn = Null

\* The state tables know what they are asked: "Searches the state table for
\* the given message and calls the functions pointer" (mailbox_main.c:191).
TcpMatched ==
  inbox[Tcp] # << >> /\ at[Tcp] = "loop" =>
    ~ IsSentinel(RowFor(TcpTable, st[Tcp].cur, Head(inbox[Tcp])))
=============================================================================
