------------------------------- MODULE Tasks -------------------------------
(***************************************************************************)
(* The loop every module task runs, over the mailbox as its callers see    *)
(* it: mailbox_Statemachine_Change_Req and _Accept are single steps here,  *)
(* and each task receives its messages in the order they were posted.      *)
(* Module Delivery, which Mailbox implements, says that an accept takes    *)
(* the oldest of the messages that were waiting when its scan began, and   *)
(* that a post is refused only when all slots are in use.  Only messages   *)
(* that others post during one scan may overtake each other, and what      *)
(* others post to a task is always the same request.  Mailbox keeps that   *)
(* promise until a scan takes up a half-made slot; what a task may find    *)
(* in its hands after that is not followed here.                           *)
(*                                                                         *)
(* A task polls the mailbox.  With a message it applies a row of its table *)
(* and calls the row's handler; with none it calls the handler of the      *)
(* state it is in once more.  The pause of 100 ticks, after five messages  *)
(* or a poll in vain, only delays the next poll: any delay is allowed.     *)
(***************************************************************************)
EXTENDS StateTable, FiniteSets

CONSTANTS
  Module,           \* en_gModules_t: the tasks that exchange messages
  Wifi, Tcp,        \* E_WIFI_MODULE and TCP_SERVER_MODULE
  NSlots            \* U8_MB_TOTAL_MSG_ENTRY: slots of the mailbox all tasks share

ASSUME TasksAssumption ==
  /\ IsFiniteSet(Module)
  /\ Wifi \in Module /\ Tcp \in Module /\ Wifi # Tcp
  /\ NSlots \in Nat \ {0}

VARIABLES
  inbox,            \* per task, the messages waiting for it, oldest first
  st,               \* per task, its st_gStateStatus_t
  at                \* per task, where it stands: "absent", "loop" or in a call

taskVars == <<inbox, st, at>>

\* How many messages wait in the mailbox, whoever they are for.
Occupied == Cardinality({p \in Module \X (1 .. NSlots) : p[2] <= Len(inbox[p[1]])})

\* Slip: a post that does not look for a free slot.
PostedUnchecked(from, to, id) ==
  [inbox EXCEPT ![to] = Append(@, Message(from, id))]

\* The mailbox after a post; a full one refuses it and no caller looks at
\* the result.
Posted(from, to, id) ==
  IF Occupied < NSlots
  THEN [inbox EXCEPT ![to] = Append(@, Message(from, id))]
  ELSE inbox

\* E_APP_TASK_START: the task is created.
Start(t) ==
  /\ at[t] = "absent"
  /\ at' = [at EXCEPT ![t] = "loop"]
  /\ UNCHANGED <<inbox, st>>

\* What mailbox_Statemachine_Change_Accept answers.
Accept(t) == IF inbox[t] = << >> THEN "E_API_FAILED" ELSE "E_API_SUCCESS"

Receive(t, table) ==
  /\ at[t] = "loop"
  /\ Accept(t) = "E_API_SUCCESS"
  /\ LET row == RowFor(table, st[t].cur, Head(inbox[t])) IN
     /\ st' = [st EXCEPT ![t] = Entered(@, row)]
     /\ at' = [at EXCEPT ![t] = IF row.fn = Null THEN "loop" ELSE row.fn]
  /\ inbox' = [inbox EXCEPT ![t] = Tail(@)]

\* Slip: the handler of the current state is called beside the messages.
SelfLoopAlways(t) ==
  /\ at[t] = "loop"
  /\ st[t].fn # Null
  /\ at' = [at EXCEPT ![t] = st[t].fn]
  /\ UNCHANGED <<inbox, st>>

\* Nothing is waiting: the handler of the current state is called again.
SelfLoop(t) ==
  /\ at[t] = "loop"
  /\ Accept(t) = "E_API_FAILED"
  /\ st[t].fn # Null
  /\ at' = [at EXCEPT ![t] = st[t].fn]
  /\ UNCHANGED <<inbox, st>>

\* What handlers ask first: did this call enter a new state?
Fresh(t) == st[t].cur # st[t].prev

\* A handler of task t ends and leaves box as the mailbox.  (The previous
\* state is set after a row was entered; otherwise it already is the current.)
Return(t, box) ==
  /\ inbox' = box
  /\ st' = [st EXCEPT ![t].prev = st[t].cur]
  /\ at' = [at EXCEPT ![t] = "loop"]
=============================================================================
