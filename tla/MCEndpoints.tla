---------------------------- MODULE MCEndpoints ----------------------------
(***************************************************************************)
(* Instances of the TCP client and the UDP server for TLC: the modules are *)
(* model values; some requests for one of the tasks, or for both.       *)
(***************************************************************************)
EXTENDS Endpoints, TLC

CONSTANTS wifi, tcp, client, udp, nobody, ClientAsked, UdpAsked

MCMaxAsked == (client :> ClientAsked) @@ (udp :> UdpAsked)
=============================================================================
