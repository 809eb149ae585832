------------------------------ MODULE Sockets ------------------------------
(***************************************************************************)
(* The descriptor table of the IP stack (lwIP), which all tasks share.  It *)
(* is not part of the repository: what is here is what Tcp_Client.c and    *)
(* UDP_Server.c use.  A new socket gets the lowest free descriptor, and    *)
(* every call names a socket by its descriptor alone: nothing ties a       *)
(* descriptor to the task it was given to.                                 *)
(***************************************************************************)
EXTENDS Tasks

CONSTANTS
  MaxSockets,          \* CONFIG_LWIP_MAX_SOCKETS
  Nobody,              \* the owner of a free descriptor
  NetMayFail           \* may socket, bind and connect fail while they could succeed?

ASSUME SocketsAssumption ==
  /\ MaxSockets \in Nat \ {0}
  /\ Nobody \notin Module
  /\ NetMayFail \in BOOLEAN

VARIABLE socket        \* per descriptor, whom it was given to and how far it got

NoFd == 0              \* no descriptor: -1, or the 0 of E_APP_INIT
Fd == 1 .. MaxSockets

\* "fresh": made by socket; "spent": a TCP socket whose connection attempt was
\* refused, which lwIP never connects again.
Phase == {"free", "fresh", "bound", "connected", "spent"}

Socket(owner, phase) == [by |-> owner, is |-> phase]
FreeSocket == Socket(Nobody, "free")

\* The socket a call on descriptor fd reaches.
Reached(fd) == IF fd \in Fd THEN socket[fd] ELSE FreeSocket

NextFree(fd) ==
  /\ socket[fd] = FreeSocket
  /\ \A other \in Fd : socket[other] = FreeSocket => fd <= other

TableFull == \A fd \in Fd : socket[fd] # FreeSocket

\* The table once the socket of descriptor fd changed, and once it was closed.
With(fd, s) == [socket EXCEPT ![fd] = s]
Closed(fd) == IF fd \in Fd THEN With(fd, FreeSocket) ELSE socket

OwnedBy(t) == {fd \in Fd : socket[fd].by = t}
=============================================================================
