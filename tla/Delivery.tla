------------------------------ MODULE Delivery ------------------------------
(***************************************************************************)
(* What the mailbox of main/mailbox_main.c promises to the tasks that use  *)
(* it.  A message accepted by mailbox_Statemachine_Change_Req stays in     *)
(* transit until mailbox_Statemachine_Change_Accept hands it, once, to the *)
(* module it was addressed to.  Nothing else is ever handed out, and       *)
(* nothing in transit disappears.  A post is refused only when all slots   *)
(* are in use; an accept overlooks nothing that waited when it began, and  *)
(* takes nothing younger than that.                                        *)
(*                                                                         *)
(* A call begins, takes effect in one step, and is over.  A message is the *)
(* number of the post that put it there.                                   *)
(***************************************************************************)
EXTENDS Naturals, Sequences, FiniteSets

CONSTANTS
  Module,                \* en_gModules_t: the modules messages are addressed to
  NSlots,                \* U8_MB_TOTAL_MSG_ENTRY: how many messages find room
  MaxSeq                 \* U32_MB_MAX_SEQ_NO: from this post on, age is forgotten

VARIABLES
  posts,                 \* how many posts were accepted so far
  transit,               \* <<addressee, message>> accepted and not yet delivered
  delivered,             \* the deliveries so far, oldest first
  posting,               \* the tasks that are about to post,
  polling,               \* the tasks that look for a message,
  due                    \* and what waited for them when they began to

deliveryVars == <<posts, transit, delivered, posting, polling, due>>

Idle(t) == t \notin posting \cup polling

WaitingFor(t) == {p[2] : p \in {q \in transit : q[1] = t}}

Init ==
  /\ posts = 0
  /\ transit = {}
  /\ delivered = << >>
  /\ posting = {}
  /\ polling = {}
  /\ due = [t \in Module |-> {}]

BeginPost(t) ==
  /\ Idle(t)
  /\ posting' = posting \cup {t}
  /\ UNCHANGED <<posts, transit, delivered, polling, due>>

\* A post of E_API_SUCCESS: one more message is in transit.
Post(t, d) ==
  /\ t \in posting
  /\ Cardinality(transit) < NSlots
  /\ posts' = posts + 1
  /\ transit' = transit \cup {<<d, posts + 1>>}
  /\ posting' = posting \ {t}
  /\ UNCHANGED <<delivered, polling, due>>

\* A post of E_API_FAILED.
Refuse(t) ==
  /\ t \in posting
  /\ Cardinality(transit) = NSlots
  /\ posting' = posting \ {t}
  /\ UNCHANGED <<posts, transit, delivered, polling, due>>

BeginPoll(t) ==
  /\ Idle(t)
  /\ polling' = polling \cup {t}
  /\ due' = [due EXCEPT ![t] = WaitingFor(t)]
  /\ UNCHANGED <<posts, transit, delivered, posting>>

EndPoll(t) ==
  /\ t \in polling
  /\ polling' = polling \ {t}
  /\ due' = [due EXCEPT ![t] = {}]
  /\ UNCHANGED <<posts, posting>>

\* An accept of E_API_SUCCESS: t gets one of the messages addressed to it.
Deliver(t, n) ==
  /\ EndPoll(t)
  /\ <<t, n>> \in transit
  /\ posts < MaxSeq => \A k \in due[t] : n <= k
  /\ transit' = transit \ {<<t, n>>}
  /\ delivered' = Append(delivered, <<t, n>>)

\* An accept of E_API_FAILED.
FindNone(t) ==
  /\ EndPoll(t)
  /\ due[t] = {}
  /\ UNCHANGED <<transit, delivered>>

Next ==
  \E t \in Module :
    \/ BeginPost(t) \/ Refuse(t) \/ BeginPoll(t) \/ FindNone(t)
    \/ \E d \in Module : Post(t, d)
    \/ \E n \in 1 .. posts : Deliver(t, n)

Spec == Init /\ [][Next]_deliveryVars
=============================================================================
