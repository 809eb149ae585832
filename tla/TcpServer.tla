----------------------------- MODULE TcpServer -----------------------------
(***************************************************************************)
(* The TCP server of main/TCP_Server.c: its table, its handlers, and the   *)
(* two calls during which its task waits inside a handler, accept and      *)
(* read.                                                                   *)
(*                                                                         *)
(* Sockets are numbers above 0, below every value that has a meaning of    *)
(* its own in the client table.  What is read or written is abstracted:    *)
(* the results of read are stored in an unsigned variable before they are  *)
(* compared with 0, so no read ever counts as failed.                      *)
(***************************************************************************)
EXTENDS Tasks

CONSTANTS
  MaxConn,             \* U8_MAX_SERVERCONNECTION_COUNT
  MaxSockets,          \* CONFIG_LWIP_MAX_SOCKETS: socket fails beyond it
  NetMayFail           \* may socket, bind, listen and accept fail?

ASSUME TcpAssumption ==
  /\ MaxConn \in Nat \ {0}
  /\ MaxSockets \in Nat \ {0}
  /\ NetMayFail \in BOOLEAN

VARIABLES
  serverFd,            \* ms32_RunningServerSockFd
  open,                \* the server sockets that exist, named by anyone or not
  listening,           \* does serverFd listen?
  acceptPhase,         \* slu8_ListenorAccepState
  slots,               \* ms32_RunningServerClientSockFd, and the cell past its end
  index                \* lu8_Index of the handler in progress

tcpVars == <<serverFd, open, listening, acceptPhase, slots, index>>

NoFd == 0              \* -1 in the code
Fd == 1 .. MaxSockets

\* What a cell of the client table holds: the 0 of E_APP_INIT, the 0xff that
\* marks a free cell, or the socket of a client.
Cell == {"zero", "free", "client"}

\* Slip: a table that takes a request in any state, not only in the idle one.
TableOpensAnytime == <<
  Row(AnyState, Wifi, "OPEN_SOCKFD", "TCP_SOCKFD_ST", "Open_Tcp_Server_SockFd"),
  Row("TCP_SOCKFD_ST", Tcp, "OPEN_SERVER", "TCP_OPEN_ST", "Open_Tcp_Server_OpenServer"),
  Row("TCP_ACCEPT_ST", Tcp, "LISTEN_STATE", "TCP_READ_ST", "Data_Readng_FromSocks"),
  Row("TCP_READ_ST", Tcp, "PROCESS_STATE", "TCP_PROCESS_ST", "Data_Process_State"),
  Row("TCP_PROCESS_ST", Tcp, "RESPONSE_STATE", "TCP_WRITE_ST", "Data_Response_state"),
  Row(AnyState, Tcp, "ACCEPT_STATE", "TCP_ACCEPT_ST", "Ready_To_Accept"),
  Row(AnInvalidState, Tcp, "OPEN_SOCKFD", "TCP_SOCKFD_ST", Null) >>

\* scstar_TcpServerStateTable
TcpTable == <<
  Row("TCP_IDLE_ST", Wifi, "OPEN_SOCKFD", "TCP_SOCKFD_ST", "Open_Tcp_Server_SockFd"),
  Row("TCP_SOCKFD_ST", Tcp, "OPEN_SERVER", "TCP_OPEN_ST", "Open_Tcp_Server_OpenServer"),
  Row("TCP_OPEN_ST", Tcp, "ACCEPT_STATE", "TCP_ACCEPT_ST", "Ready_To_Accept"),
  Row("TCP_ACCEPT_ST", Tcp, "LISTEN_STATE", "TCP_READ_ST", "Data_Readng_FromSocks"),
  Row("TCP_READ_ST", Tcp, "PROCESS_STATE", "TCP_PROCESS_ST", "Data_Process_State"),
  Row("TCP_PROCESS_ST", Tcp, "RESPONSE_STATE", "TCP_WRITE_ST", "Data_Response_state"),
  Row("TCP_PROCESS_ST", Tcp, "ACCEPT_STATE", "TCP_ACCEPT_ST", "Ready_To_Accept"),
  Row(AnyState, Tcp, "ACCEPT_STATE", AnyState, "Ready_To_Accept"),
  Row(AnInvalidState, Tcp, "OPEN_SOCKFD", "TCP_SOCKFD_ST", Null) >>

\* en_TCP_SerStateType_t and en_TCPServer_MsgType_t, less the markers for
\* any, no and invalid.
TcpState ==
  {"TCP_IDLE_ST", "TCP_SOCKFD_ST", "TCP_OPEN_ST", "TCP_ACCEPT_ST", "TCP_READ_ST",
   "TCP_PROCESS_ST", "TCP_WRITE_ST"}
TcpMessage ==
  {"OPEN_SOCKFD", "OPEN_SERVER", "ACCEPT_STATE", "LISTEN_STATE", "PROCESS_STATE",
   "RESPONSE_STATE"}

\* E_APP_INIT
TcpStatus == Status("TCP_IDLE_ST", "TCP_IDLE_ST", Null)

TcpInit ==
  /\ serverFd = NoFd
  /\ open = {}
  /\ listening = FALSE
  /\ acceptPhase = 0
  /\ slots = [i \in 0 .. MaxConn |-> "zero"]
  /\ index = 0
-----------------------------------------------------------------------------
(* Open_Tcp_Server_SockFd *)

SocketOpens ==
  /\ at[Tcp] = "Open_Tcp_Server_SockFd"
  /\ \E fd \in Fd \ open : serverFd' = fd /\ open' = open \cup {fd}
  /\ Return(Tcp, Posted(Tcp, Tcp, "OPEN_SERVER"))
  /\ UNCHANGED <<listening, acceptPhase, slots, index>>

\* The handler ends without a post; the next poll in vain calls it again.
SocketFails ==
  /\ at[Tcp] = "Open_Tcp_Server_SockFd"
  /\ NetMayFail \/ open = Fd
  /\ serverFd' = NoFd
  /\ Return(Tcp, inbox)
  /\ UNCHANGED <<open, listening, acceptPhase, slots, index>>
-----------------------------------------------------------------------------
(* Open_Tcp_Server_OpenServer *)

ServerOpens ==
  /\ at[Tcp] = "Open_Tcp_Server_OpenServer"
  /\ serverFd # NoFd
  /\ ~ listening                     \* a bound socket cannot be bound again
  /\ listening' = TRUE
  /\ Return(Tcp, Posted(Tcp, Tcp, "ACCEPT_STATE"))
  /\ UNCHANGED <<serverFd, open, acceptPhase, slots, index>>

\* Slips: a failed bind or listen that goes on to accept, and one that
\* forgets the socket without closing it.
ServerFailsButGoesOn ==
  /\ at[Tcp] = "Open_Tcp_Server_OpenServer"
  /\ serverFd # NoFd
  /\ NetMayFail
  /\ Return(Tcp, Posted(Tcp, Tcp, "ACCEPT_STATE"))
  /\ UNCHANGED tcpVars
ServerFailsUnclosed ==
  /\ at[Tcp] = "Open_Tcp_Server_OpenServer"
  /\ serverFd # NoFd
  /\ NetMayFail
  /\ serverFd' = NoFd
  /\ Return(Tcp, inbox)
  /\ UNCHANGED <<open, listening, acceptPhase, slots, index>>

\* bind or listen fails.
ServerFails ==
  /\ at[Tcp] = "Open_Tcp_Server_OpenServer"
  /\ serverFd # NoFd
  /\ NetMayFail \/ listening
  /\ serverFd' = NoFd
  /\ open' = open \ {serverFd}
  /\ listening' = FALSE
  /\ Return(Tcp, inbox)
  /\ UNCHANGED <<acceptPhase, slots, index>>

\* Called again after such a failure it does nothing, for ever.
ServerGone ==
  /\ at[Tcp] = "Open_Tcp_Server_OpenServer"
  /\ serverFd = NoFd
  /\ Return(Tcp, inbox)
  /\ UNCHANGED tcpVars
-----------------------------------------------------------------------------
(* Ready_To_Accept_Server_Connection *)

\* Slip: the phase is not reset on entering the state.
PhaseKept == acceptPhase

AcceptPhase == IF Fresh(Tcp) THEN 2 ELSE acceptPhase

\* Slip: a zeroed cell counts as free.
FreeOrZeroCell ==
  CHOOSE i \in 0 .. MaxConn :
    /\ i = MaxConn \/ slots[i] # "client"
    /\ \A j \in 0 .. i - 1 : slots[j] = "client"

\* The first free cell, or MaxConn: E_APP_INIT leaves no cell free.
FreeCell ==
  CHOOSE i \in 0 .. MaxConn :
    /\ i = MaxConn \/ slots[i] = "free"
    /\ \A j \in 0 .. i - 1 : slots[j] # "free"

AcceptBegins ==
  /\ at[Tcp] = "Ready_To_Accept"
  /\ AcceptPhase = 2
  /\ acceptPhase' = 2
  /\ index' = FreeCell
  /\ at' = [at EXCEPT ![Tcp] = "accept"]
  /\ UNCHANGED <<inbox, st, serverFd, open, listening, slots>>

\* A client connects.  Its descriptor goes to the cell, past the end of the
\* table when none was free.
AcceptSucceeds ==
  /\ at[Tcp] = "accept"
  /\ listening
  /\ slots' = [slots EXCEPT ![index] = "client"]
  /\ acceptPhase' = 3
  /\ index' = 0
  /\ Return(Tcp, inbox)
  /\ UNCHANGED <<serverFd, open, listening>>

AcceptFails ==
  /\ at[Tcp] = "accept"
  /\ NetMayFail
  /\ slots' = [slots EXCEPT ![index] = "free"]
  /\ index' = 0
  /\ Return(Tcp, inbox)
  /\ UNCHANGED <<serverFd, open, listening, acceptPhase>>

\* The call after the one that accepted.
AcceptDone ==
  /\ at[Tcp] = "Ready_To_Accept"
  /\ AcceptPhase = 3
  /\ Return(Tcp, Posted(Tcp, Tcp, "LISTEN_STATE"))
  /\ UNCHANGED tcpVars

\* Called in a state the ANY row kept, before any accept: nothing happens.
AcceptIdle ==
  /\ at[Tcp] = "Ready_To_Accept"
  /\ AcceptPhase = 0
  /\ Return(Tcp, inbox)
  /\ UNCHANGED tcpVars
-----------------------------------------------------------------------------
(* Data_Readng_FromSocks, Data_Process_State, Data_Response_state *)

\* Every cell that is not marked free is read, the zeroed ones included, and
\* every read posts.  Other tasks run between two reads.
ReadCell ==
  /\ at[Tcp] = "Data_Readng_FromSocks"
  /\ index < MaxConn
  /\ index' = index + 1
  /\ inbox' = IF slots[index] # "free" THEN Posted(Tcp, Tcp, "PROCESS_STATE") ELSE inbox
  /\ UNCHANGED <<st, at, serverFd, open, listening, acceptPhase, slots>>

ReadDone ==
  /\ at[Tcp] = "Data_Readng_FromSocks"
  /\ index = MaxConn
  /\ index' = 0
  /\ Return(Tcp, inbox)
  /\ UNCHANGED <<serverFd, open, listening, acceptPhase, slots>>

Data_Process_State ==
  /\ at[Tcp] = "Data_Process_State"
  /\ Return(Tcp, Posted(Tcp, Tcp, "RESPONSE_STATE"))
  /\ UNCHANGED tcpVars

Data_Response_state ==
  /\ at[Tcp] = "Data_Response_state"
  /\ slots' = [i \in 0 .. MaxConn |-> IF i < MaxConn THEN "free" ELSE slots[i]]
  /\ Return(Tcp, Posted(Tcp, Tcp, "LISTEN_STATE"))
  /\ UNCHANGED <<serverFd, open, listening, acceptPhase, index>>
-----------------------------------------------------------------------------
TcpPoll == (Receive(Tcp, TcpTable) \/ SelfLoop(Tcp)) /\ UNCHANGED tcpVars

\* Every step of the task that does not wait for a client.
TcpStep ==
  \/ TcpPoll
  \/ SocketOpens \/ SocketFails
  \/ ServerOpens \/ ServerFails \/ ServerGone
  \/ AcceptBegins \/ AcceptDone \/ AcceptIdle
  \/ ReadCell \/ ReadDone
  \/ Data_Process_State
  \/ Data_Response_state
-----------------------------------------------------------------------------
TcpTypeOK ==
  /\ serverFd \in {NoFd} \cup Fd
  /\ open \subseteq Fd
  /\ listening \in BOOLEAN
  /\ acceptPhase \in {0, 2, 3}
  /\ slots \in [0 .. MaxConn -> Cell]
  /\ index \in 0 .. MaxConn
=============================================================================
