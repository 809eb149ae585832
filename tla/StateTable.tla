----------------------------- MODULE StateTable -----------------------------
(***************************************************************************)
(* The transition tables of the module tasks and the search through them   *)
(* that processStateTable of main/mailbox_main.c makes for one message.    *)
(*                                                                         *)
(* A table is a sequence of rows; its last row has state AnInvalidState    *)
(* and stops the search.  lu8_Msg_Found starts as 1 and is never cleared,  *)
(* so the row the search stops at is applied, that last one included.      *)
(***************************************************************************)
EXTENDS Naturals, Sequences

AnyState == "E_GLOBAL_ANY_ST"
AnInvalidState == "E_GLOABL_INVALID_ST"
EmptyMessage == "E_GLOBAL_EMPTY_MSG"
Null == "NULL"                     \* no handler

\* st_gMsgQueueEntry_t; priority and attribute are 0 in every post.
Message(from, id) == [source |-> from, id |-> id]

\* st_gStateStatus_t; no one looks at men_StateType.
Status(cur, prev, fn) == [cur |-> cur, prev |-> prev, fn |-> fn]

\* A row of st_gStateTable_t.
Row(state, source, id, next, fn) ==
  [state |-> state, source |-> source, id |-> id, next |-> next, fn |-> fn]

Matches(row, state, m) ==
  /\ row.state \in {state, AnyState}
  /\ row.source = m.source
  /\ row.id = m.id

IsSentinel(row) == row.state = AnInvalidState

\* The row the search stops at: the first that matches, else the sentinel.
RowFor(table, state, m) ==
  table[CHOOSE i \in DOMAIN table :
          /\ IsSentinel(table[i]) \/ Matches(table[i], state, m)
          /\ \A j \in 1 .. i - 1 : ~ IsSentinel(table[j]) /\ ~ Matches(table[j], state, m)]

\* A row from any state to any state only calls its handler.
Keeps(row) == row.state = AnyState /\ row.next = AnyState

\* Slip: the previous state is set before the handler has run.
EnteredEarly(status, row) ==
  IF Keeps(row) THEN status ELSE Status(row.next, row.next, row.fn)

\* The status once the row is applied.  The previous state differs
\* from the current one only while a handler runs.
Entered(status, row) ==
  IF Keeps(row)
  THEN status
  ELSE Status(row.next, IF row.fn = Null THEN row.next ELSE status.cur, row.fn)
=============================================================================
