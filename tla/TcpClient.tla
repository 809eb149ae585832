----------------------------- MODULE TcpClient -----------------------------
(***************************************************************************)
(* The TCP client of main/Tcp_Client.c: its table, its handlers, and the   *)
(* two calls its task waits in, connect and recv.  What is sent and        *)
(* received is left out; the results of send and recv are stored in an     *)
(* unsigned variable before they are compared with 0, so neither ever      *)
(* counts as failed.  The address in the header is valid, so inet_pton     *)
(* does not fail.                                                          *)
(***************************************************************************)
EXTENDS Sockets

CONSTANTS Client, Udp  \* TCP_CLIENT_MODULE and UDP_SERVER_MODULE

ASSUME ClientAssumption ==
  /\ {Client, Udp} \subseteq Module
  /\ Client # Udp
  /\ {Client, Udp} \cap {Wifi, Tcp} = {}

VARIABLE clientFd      \* gst_TCPClientRunningInfo.ms32_TCPClientSockFd

\* st_TCPClientRunningInfo_t; its addresses and port never change.
clientVars == <<clientFd>>

\* Slip: a table that takes a request in any state, not only in the idle one.
TableOpensAnytime == <<
  Row(AnyState, Wifi, "OPEN_SOCKFD", "SOCKFD_ST", "Tcp_Client_SockFd_Open"),
  Row("SOCKFD_ST", Client, "CONNECT_TO_SERVER", "CONNECT_ST", "Tcp_Client_Connect"),
  Row("READ_ST", Client, "PROCESS", "PROCESS_ST", "Tcp_Client_Process"),
  Row("PROCESS_ST", Client, "CLOSE", "IDLE_ST", "Tcp_Client_Close"),
  Row(AnyState, Client, "WRITE", "WRITE_ST", "Tcp_Client_WriteToServer"),
  Row(AnyState, Client, "READ", "READ_ST", "Tcp_Client_ReadFromServer"),
  Row(AnInvalidState, Client, EmptyMessage, "SOCKFD_ST", Null) >>

\* scstar_TcpClientStateTable
ClientTable == <<
  Row("IDLE_ST", Wifi, "OPEN_SOCKFD", "SOCKFD_ST", "Tcp_Client_SockFd_Open"),
  Row("SOCKFD_ST", Client, "CONNECT_TO_SERVER", "CONNECT_ST", "Tcp_Client_Connect"),
  Row("CONNECT_ST", Client, "WRITE", "WRITE_ST", "Tcp_Client_WriteToServer"),
  Row("WRITE_ST", Client, "READ", "READ_ST", "Tcp_Client_ReadFromServer"),
  Row("READ_ST", Client, "PROCESS", "PROCESS_ST", "Tcp_Client_Process"),
  Row("PROCESS_ST", Client, "WRITE", "WRITE_ST", "Tcp_Client_WriteToServer"),
  Row("PROCESS_ST", Client, "CLOSE", "IDLE_ST", "Tcp_Client_Close"),
  Row("PROCESS_ST", Client, "RESPONSE", "IDLE_ST", "Tcp_Client_WriteToServer"),
  Row(AnyState, Client, "WRITE", "WRITE_ST", "Tcp_Client_WriteToServer"),
  Row(AnyState, Client, "READ", "READ_ST", "Tcp_Client_ReadFromServer"),
  Row(AnInvalidState, Client, EmptyMessage, "SOCKFD_ST", Null) >>

\* en_TCP_ClientStateType_t and en_TCP_Client_MsgType_t, less the markers
\* for any, no and invalid.
ClientState ==
  {"IDLE_ST", "SOCKFD_ST", "CONNECT_ST", "WRITE_ST", "READ_ST", "PROCESS_ST", "CLOSE_ST"}
ClientMessage ==
  {"OPEN_SOCKFD", "CONNECT_TO_SERVER", "WRITE", "READ", "PROCESS", "CLOSE", "RESPONSE"}

\* E_APP_INIT
ClientStatus == Status("IDLE_ST", "IDLE_ST", Null)
ClientInit == clientFd = NoFd
-----------------------------------------------------------------------------
(* Tcp_Client_SockFd_Open *)

ClientSocketOpens ==
  /\ at[Client] = "Tcp_Client_SockFd_Open"
  /\ \E fd \in Fd :
       /\ NextFree(fd)
       /\ clientFd' = fd
       /\ socket' = With(fd, Socket(Client, "fresh"))
  /\ Return(Client, Posted(Client, Client, "CONNECT_TO_SERVER"))

\* Nothing is posted; the next poll in vain tries again.
ClientSocketFails ==
  /\ at[Client] = "Tcp_Client_SockFd_Open"
  /\ NetMayFail \/ TableFull
  /\ clientFd' = NoFd
  /\ Return(Client, inbox)
  /\ UNCHANGED socket
-----------------------------------------------------------------------------
(* Tcp_Client_Connect *)

ConnectBegins ==
  /\ at[Client] = "Tcp_Client_Connect"
  /\ at' = [at EXCEPT ![Client] = "connect"]
  /\ UNCHANGED <<inbox, st, clientVars, socket>>

\* A fresh socket is connected; a UDP socket behind the same descriptor
\* only gets a default peer, and the TCP server's, of which only the place in
\* the table is followed, may be connected until it listens.
Connectable ==
  Reached(clientFd) = Socket(Client, "fresh") \/ Reached(clientFd).by \in {Udp, Tcp}
Refusable == NetMayFail \/ ~ Connectable \/ Reached(clientFd).by = Tcp

ConnectSucceeds ==
  /\ at[Client] = "connect"
  /\ Connectable
  /\ socket' = IF Reached(clientFd).by = Client
               THEN With(clientFd, Socket(Client, "connected"))
               ELSE socket
  /\ Return(Client, Posted(Client, Client, "WRITE"))
  /\ UNCHANGED clientVars

\* Slip: a failed connect that goes on to write.
ConnectFailsButGoesOn ==
  /\ at[Client] = "connect"
  /\ Refusable
  /\ Return(Client, Posted(Client, Client, "WRITE"))
  /\ UNCHANGED <<clientVars, socket>>

\* Refused or timed out, which uses the socket up, or failed before anything
\* was sent.  The self-loop tries again on the same descriptor.
ConnectFails ==
  /\ at[Client] = "connect"
  /\ Refusable
  /\ \/ UNCHANGED socket
     \/ /\ Reached(clientFd) = Socket(Client, "fresh")
        /\ socket' = With(clientFd, Socket(Client, "spent"))
  /\ Return(Client, inbox)
  /\ UNCHANGED clientVars
-----------------------------------------------------------------------------
Tcp_Client_WriteToServer ==
  /\ at[Client] = "Tcp_Client_WriteToServer"
  /\ Return(Client, Posted(Client, Client, "READ"))
  /\ UNCHANGED <<clientVars, socket>>

(* Tcp_Client_ReadFromServer *)

RecvBegins ==
  /\ at[Client] = "Tcp_Client_ReadFromServer"
  /\ at' = [at EXCEPT ![Client] = "recv"]
  /\ UNCHANGED <<inbox, st, clientVars, socket>>

\* Slip: an answer that is not passed on.
RecvReturnsInSilence ==
  /\ at[Client] = "recv"
  /\ Return(Client, inbox)
  /\ UNCHANGED <<clientVars, socket>>

\* An answer, an end or an error: all the same to the code.
RecvReturns ==
  /\ at[Client] = "recv"
  /\ Return(Client, Posted(Client, Client, "PROCESS"))
  /\ UNCHANGED <<clientVars, socket>>

Tcp_Client_Process ==
  /\ at[Client] = "Tcp_Client_Process"
  /\ Return(Client, Posted(Client, Client, "CLOSE"))
  /\ UNCHANGED <<clientVars, socket>>

\* The descriptor is kept, and so is this handler: the self-loop of the idle
\* state closes it again on every poll in vain.
Tcp_Client_Close ==
  /\ at[Client] = "Tcp_Client_Close"
  /\ socket' = Closed(clientFd)
  /\ Return(Client, inbox)
  /\ UNCHANGED clientVars
-----------------------------------------------------------------------------
ClientPoll ==
  /\ Receive(Client, ClientTable) \/ SelfLoop(Client)
  /\ UNCHANGED <<clientVars, socket>>

\* Every step of the task that does not wait for the network.
ClientStep ==
  \/ ClientPoll
  \/ ClientSocketOpens \/ ClientSocketFails
  \/ ConnectBegins \/ ConnectFails
  \/ Tcp_Client_WriteToServer
  \/ RecvBegins
  \/ Tcp_Client_Process
  \/ Tcp_Client_Close
=============================================================================
