---------------------------- MODULE MCAdhocMode ----------------------------
(***************************************************************************)
(* Instances of the manager's access-point mode for TLC.                   *)
(***************************************************************************)
EXTENDS AdhocMode, TLC

CONSTANTS wifi, tcp
=============================================================================
