----------------------------- MODULE MCMailbox -----------------------------
(***************************************************************************)
(* Instances of the mailbox for TLC.  The tasks are those that exchange    *)
(* messages in this firmware, over the routes their handlers use: the WiFi *)
(* manager posts to itself and to the TCP server, the TCP server to        *)
(* itself.  The TCP server may get stuck in accept, the manager never.     *)
(***************************************************************************)
EXTENDS Mailbox, TLC

CONSTANTS wifi, tcp, nobody

TwoTasks == {wifi, tcp}
Manager == {wifi}
TwoTaskRoute == {<<wifi, wifi>>, <<wifi, tcp>>, <<tcp, tcp>>}
=============================================================================
