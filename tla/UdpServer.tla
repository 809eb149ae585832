----------------------------- MODULE UdpServer -----------------------------
(***************************************************************************)
(* The UDP server of main/UDP_Server.c: its table, its handlers, and       *)
(* recvfrom, the one call its task waits in.  As in the TCP client, no     *)
(* recvfrom and no sendto ever counts as failed.  E_APP_INIT always        *)
(* chooses the blocking mode; a failing fcntl of the other mode would end  *)
(* as a failing bind does.                                                 *)
(***************************************************************************)
EXTENDS TcpClient

VARIABLE udpFd         \* gst_UDPServerInfo.ms32_ServerSockFd

\* st_UDPServerInfo_t; port and mode never change, peers are left out.
udpVars == <<udpFd>>

\* Slip: closing leads back to the idle state, as in the TCP client.
TableBackToIdle == <<
  Row("IDLE_ST", Wifi, "OPEN_SOCKFD", "SOCKFD_ST", "UDP_Server_SockFd_Open"),
  Row("SOCKFD_ST", Udp, "OPEN_SERVER", "OPEN_ST", "UDP_Server_Bind"),
  Row("OPEN_ST", Udp, "LISTEN_STATE", "READ_ST", "UDP_Server_Listen"),
  Row("READ_ST", Udp, "PROCESS_STATE", "PROCESS_ST", "UDP_Server_Data_Process"),
  Row("PROCESS_ST", Udp, "RESPONSE_STATE", "WRITE_ST", "UDP_Server_Send"),
  Row(AnyState, Udp, "CLOSE_STATE", "IDLE_ST", "UDP_Server_Close"),
  Row(AnInvalidState, Udp, "OPEN_SOCKFD", "SOCKFD_ST", Null) >>

\* scstar_UDPSer_StateTable
UdpTable == <<
  Row("IDLE_ST", Wifi, "OPEN_SOCKFD", "SOCKFD_ST", "UDP_Server_SockFd_Open"),
  Row("SOCKFD_ST", Udp, "OPEN_SERVER", "OPEN_ST", "UDP_Server_Bind"),
  Row("OPEN_ST", Udp, "LISTEN_STATE", "READ_ST", "UDP_Server_Listen"),
  Row("READ_ST", Udp, "PROCESS_STATE", "PROCESS_ST", "UDP_Server_Data_Process"),
  Row("PROCESS_ST", Udp, "RESPONSE_STATE", "WRITE_ST", "UDP_Server_Send"),
  Row("PROCESS_ST", Udp, "CLOSE_STATE", "CLOSE_ST", "UDP_Server_Close"),
  Row("READ_ST", Udp, "CLOSE_STATE", "CLOSE_ST", "UDP_Server_Close"),
  Row(AnyState, Udp, "CLOSE_STATE", "CLOSE_ST", "UDP_Server_Close"),
  Row(AnInvalidState, Udp, "OPEN_SOCKFD", "SOCKFD_ST", Null) >>

\* en_UDP_SerStateType_t and en_UDPServer_MsgType_t, less the markers.
UdpState ==
  {"IDLE_ST", "SOCKFD_ST", "OPEN_ST", "READ_ST", "PROCESS_ST", "WRITE_ST", "CLOSE_ST"}
UdpMessage ==
  {"OPEN_SOCKFD", "OPEN_SERVER", "LISTEN_STATE", "PROCESS_STATE", "RESPONSE_STATE", "CLOSE_STATE"}

\* E_APP_INIT
UdpStatus == Status("IDLE_ST", "IDLE_ST", Null)
UdpInit == udpFd = NoFd
-----------------------------------------------------------------------------
(* UDP_Server_SockFd_Open *)

UdpSocketOpens ==
  /\ at[Udp] = "UDP_Server_SockFd_Open"
  /\ \E fd \in Fd :
       /\ NextFree(fd)
       /\ udpFd' = fd
       /\ socket' = With(fd, Socket(Udp, "fresh"))
  /\ Return(Udp, Posted(Udp, Udp, "OPEN_SERVER"))

UdpSocketFails ==
  /\ at[Udp] = "UDP_Server_SockFd_Open"
  /\ NetMayFail \/ TableFull
  /\ udpFd' = NoFd
  /\ Return(Udp, inbox)
  /\ UNCHANGED socket
-----------------------------------------------------------------------------
(* UDP_Server_Bind *)

\* A socket is bound once, whoever owns it.
Bindable == Reached(udpFd).is = "fresh"

BindSucceeds ==
  /\ at[Udp] = "UDP_Server_Bind"
  /\ Bindable
  /\ socket' = With(udpFd, [socket[udpFd] EXCEPT !.is = "bound"])
  /\ Return(Udp, Posted(Udp, Udp, "LISTEN_STATE"))
  /\ UNCHANGED udpVars

\* Slips: a failed bind that forgets the socket without closing it, and one
\* that goes on to listen.
BindFailsUnclosed ==
  /\ at[Udp] = "UDP_Server_Bind"
  /\ NetMayFail \/ ~ Bindable
  /\ udpFd' = NoFd
  /\ Return(Udp, inbox)
  /\ UNCHANGED socket
BindFailsButListens ==
  /\ at[Udp] = "UDP_Server_Bind"
  /\ NetMayFail \/ ~ Bindable
  /\ socket' = Closed(udpFd)
  /\ udpFd' = NoFd
  /\ Return(Udp, Posted(Udp, Udp, "LISTEN_STATE"))

\* After a failure the self-loop binds again, on no socket.
BindFails ==
  /\ at[Udp] = "UDP_Server_Bind"
  /\ NetMayFail \/ ~ Bindable
  /\ socket' = Closed(udpFd)
  /\ udpFd' = NoFd
  /\ Return(Udp, inbox)
-----------------------------------------------------------------------------
(* UDP_Server_Listen *)

RecvfromBegins ==
  /\ at[Udp] = "UDP_Server_Listen"
  /\ at' = [at EXCEPT ![Udp] = "recvfrom"]
  /\ UNCHANGED <<inbox, st, udpVars, socket>>

\* A datagram or an error: all the same to the code.
RecvfromReturns ==
  /\ at[Udp] = "recvfrom"
  /\ Return(Udp, Posted(Udp, Udp, "PROCESS_STATE"))
  /\ UNCHANGED <<udpVars, socket>>

\* Slip: the message goes to the module the code was copied from.
ProcessMisaddressed ==
  /\ at[Udp] = "UDP_Server_Data_Process"
  /\ Return(Udp, Posted(Udp, Client, "RESPONSE_STATE"))
  /\ UNCHANGED <<udpVars, socket>>

UDP_Server_Data_Process ==
  /\ at[Udp] = "UDP_Server_Data_Process"
  /\ Return(Udp, Posted(Udp, Udp, "RESPONSE_STATE"))
  /\ UNCHANGED <<udpVars, socket>>

UDP_Server_Send ==
  /\ at[Udp] = "UDP_Server_Send"
  /\ Return(Udp, Posted(Udp, Udp, "CLOSE_STATE"))
  /\ UNCHANGED <<udpVars, socket>>

\* As in the TCP client, the self-loop closes the descriptor again and again.
UDP_Server_Close ==
  /\ at[Udp] = "UDP_Server_Close"
  /\ socket' = Closed(udpFd)
  /\ Return(Udp, inbox)
  /\ UNCHANGED udpVars
-----------------------------------------------------------------------------
UdpPoll == (Receive(Udp, UdpTable) \/ SelfLoop(Udp)) /\ UNCHANGED <<udpVars, socket>>

UdpStep ==
  \/ UdpPoll
  \/ UdpSocketOpens \/ UdpSocketFails
  \/ BindSucceeds \/ BindFails
  \/ RecvfromBegins
  \/ UDP_Server_Data_Process
  \/ UDP_Server_Send
  \/ UDP_Server_Close
=============================================================================
