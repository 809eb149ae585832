------------------------------ MODULE Session ------------------------------
(***************************************************************************)
(* What a task that works one socket at a time promises: it opens a        *)
(* socket, gets it ready, talks through it and closes it, in this order.   *)
(* It never has two sockets, never talks through one that is not ready,    *)
(* and no socket is closed while it talks.                                 *)
(***************************************************************************)
CONSTANT Fd            \* the descriptors

VARIABLES
  live,                \* the task's sockets
  ready,               \* those that are connected or bound
  talking              \* is the task sending or receiving?

vars == <<live, ready, talking>>

Init ==
  /\ live = {}
  /\ ready = {}
  /\ talking = FALSE

Open ==
  /\ live = {}
  /\ \E fd \in Fd : live' = {fd}
  /\ UNCHANGED <<ready, talking>>

GetReady ==
  /\ ready = {}
  /\ live # {}
  /\ ready' = live
  /\ UNCHANGED <<live, talking>>

BeginTalk ==
  /\ ready # {}
  /\ talking' = TRUE
  /\ UNCHANGED <<live, ready>>

EndTalk ==
  /\ talking' = FALSE
  /\ UNCHANGED <<live, ready>>

Close ==
  /\ ~ talking
  /\ live' = {}
  /\ ready' = {}
  /\ UNCHANGED talking

Next == Open \/ GetReady \/ BeginTalk \/ EndTalk \/ Close

Spec == Init /\ [][Next]_vars
=============================================================================
