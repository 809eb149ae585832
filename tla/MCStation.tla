----------------------------- MODULE MCStation -----------------------------
(***************************************************************************)
(* Instances of the station for TLC: the modules are model values.         *)
(***************************************************************************)
EXTENDS Station, TLC

CONSTANTS wifi, tcp
=============================================================================
