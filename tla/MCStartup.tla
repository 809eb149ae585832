----------------------------- MODULE MCStartup -----------------------------
(***************************************************************************)
(* Instances of the start-up for TLC: the modules are model values.        *)
(***************************************************************************)
EXTENDS Startup, TLC

CONSTANTS wifi, tcp, client, udp
=============================================================================
