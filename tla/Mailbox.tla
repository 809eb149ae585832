------------------------------ MODULE Mailbox ------------------------------
(***************************************************************************)
(* The mailbox of main/mailbox_main.c at the grain of its accesses to the  *)
(* shared queue sst_mbQueue.                                               *)
(*                                                                         *)
(* Every module task calls two operations, both from its own loop:         *)
(*   Req      mailbox_Statemachine_Change_Req: take the mutex, find the    *)
(*            first free slot, fill it field by field, give the mutex;     *)
(*   Accept   mailbox_Statemachine_Change_Accept: WITHOUT the mutex read   *)
(*            the counter, scan the slots for the oldest message addressed *)
(*            to the caller and copy it out; then take the mutex, clear    *)
(*            the slot and give the mutex.                                 *)
(* The tasks have the same FreeRTOS priority on one core, so a tick may    *)
(* switch tasks between any two of the steps below, inside a critical      *)
(* section as well: the mutex does not stop the scheduler.                 *)
(***************************************************************************)
EXTENDS Integers, Sequences, FiniteSets

CONSTANTS
  Module,             \* en_gModules_t: the tasks, and the addresses of messages
  ZeroModule,         \* the module whose enum value is 0 (E_WIFI_MODULE)
  NoTask,             \* nobody holds the mutex
  Route,              \* the <<poster, addressee>> pairs the handlers use
  NSlots,             \* U8_MB_TOTAL_MSG_ENTRY
  MaxSeq,             \* U32_MB_MAX_SEQ_NO
  MaxPosts,           \* bound: no post starts once this many were accepted
  KeepsPolling,       \* the tasks whose loop always comes round to its next poll:
                      \* the others may wait for ever in a call of their own
  TakeMayTimeOut      \* may xSemaphoreTake give up after its 50 ticks?

ASSUME MailboxAssumption ==
  /\ ZeroModule \in Module
  /\ NoTask \notin Module
  /\ Route \subseteq Module \X Module
  /\ NSlots \in 1 .. 255             \* the code stores slot indices in a u8
  /\ MaxSeq \in Nat /\ MaxSeq > 2
  /\ MaxPosts \in Nat
  /\ KeepsPolling \subseteq Module
  /\ TakeMayTimeOut \in BOOLEAN

VARIABLES
  \* sst_mbQueue
  seqNo,              \* mstar_Msg[i].mu32_SeqNo, 0 when the slot is free
  dest,               \* mstar_Msg[i].men_SrcId, which holds the ADDRESSEE
  msg,                \* mstar_Msg[i].mst_Msg: the number of its post, 0 when zeroed
  running,            \* mu32_RuningSeqNo, a u32: MaxSeq is the largest there is
  validMsg,           \* mu8_ValidMsg
  holder,             \* the owner of mst_Mutex, or NoTask
  panicked,           \* an assertion failed and the chip is going down
  \* the tasks
  pc,                 \* where each task stands
  idx,                \* lu8_Index: the slot under consideration
  entry,              \* lu8_EntryIndex, NoEntry while none was found
  minSeq,             \* lu32_MinSeqNo
  to,                 \* lu8_DestId of the post in progress
  got,                \* *lstp_Msg: what the accept in progress copied out
  \* history
  posts,              \* posts accepted since start-up
  delivered,          \* <<task, message>> handed out, oldest first
  due,                \* per task, the messages waiting for it when its scan began
  torn                \* did a scan ever take up a slot that a post was still filling?

queueVars == <<seqNo, dest, msg, running, validMsg>>
taskVars == <<pc, idx, entry, minSeq, to, got>>
historyVars == <<posts, delivered, due, torn>>
vars == <<queueVars, holder, panicked, taskVars, historyVars>>

Slot == 0 .. NSlots - 1
NoEntry == 255

Occupied == {i \in Slot : seqNo[i] # 0}
\* Slots whose message is complete: claimed, and past the copy of its contents.
Filled == {i \in Occupied : msg[i] # 0}

\* Between the number and the contents of a slot.
Filling == {"reqCount", "reqWrap", "reqAddress", "reqFill"}
HalfMade(i) == \E u \in Module : pc[u] \in Filling /\ idx[u] = i

ReqSection == Filling \cup {"reqFind", "reqClaim", "reqValid", "reqGive"}
AcceptSection == {"accClear", "accValid", "accGive"}
Critical == ReqSection \cup AcceptSection
Label == Critical \cup {"idle", "reqTake", "scan", "accTake"}

Goto(t, from, label) ==
  /\ ~ panicked
  /\ pc[t] = from
  /\ pc' = [pc EXCEPT ![t] = label]
  /\ UNCHANGED panicked

\* A return to the caller's loop: the locals of the call are gone.
Return(t, from) ==
  /\ Goto(t, from, "idle")
  /\ idx' = [idx EXCEPT ![t] = 0]
  /\ entry' = [entry EXCEPT ![t] = NoEntry]
  /\ minSeq' = [minSeq EXCEPT ![t] = MaxSeq]
  /\ to' = [to EXCEPT ![t] = ZeroModule]
  /\ got' = [got EXCEPT ![t] = 0]
  /\ due' = [due EXCEPT ![t] = {}]

Init ==
  /\ seqNo = [i \in Slot |-> 0]
  /\ dest = [i \in Slot |-> ZeroModule]
  /\ msg = [i \in Slot |-> 0]
  /\ running = 1
  /\ validMsg = 0
  /\ holder = NoTask
  /\ panicked = FALSE
  /\ pc = [t \in Module |-> "idle"]
  /\ idx = [t \in Module |-> 0]
  /\ entry = [t \in Module |-> NoEntry]
  /\ minSeq = [t \in Module |-> MaxSeq]
  /\ to = [t \in Module |-> ZeroModule]
  /\ got = [t \in Module |-> 0]
  /\ posts = 0
  /\ delivered = << >>
  /\ due = [t \in Module |-> {}]
  /\ torn = FALSE
-----------------------------------------------------------------------------
(***************************************************************************)
(* The mutex.  xSemaphoreTake waits at most 50 ticks and both callers      *)
(* ignore its result: after a time-out the task goes on without the mutex. *)
(* xSemaphoreGive of a mutex nobody holds fails and is ignored; of one     *)
(* another task holds it trips the owner check the build enables           *)
(* (CONFIG_FREERTOS_CHECK_MUTEX_GIVEN_BY_OWNER), and the panic handler     *)
(* reboots the chip.  All of this state is in RAM, so a reboot is the end  *)
(* of one behaviour and the initial state of the next.                     *)
(***************************************************************************)
\* Slips: an operation that forgets to take the mutex, and a take that waits for
\* as long as the mutex is taken.
TakeNothing(t) == UNCHANGED holder
TakeForEver(t) == holder = NoTask /\ holder' = t

Take(t) ==
  \/ /\ holder = NoTask
     /\ holder' = t
  \/ /\ TakeMayTimeOut
     /\ holder # NoTask
     /\ UNCHANGED holder

\* Slip: a give that is forgotten.
GiveNothing(t) == UNCHANGED holder

Give(t) ==
  /\ holder \in {t, NoTask}
  /\ holder' = NoTask

GiveTrapsOwnerCheck(t) ==
  /\ ~ panicked
  /\ pc[t] \in {"reqGive", "accGive"}
  /\ holder \notin {t, NoTask}
  /\ panicked' = TRUE
  /\ UNCHANGED <<queueVars, holder, taskVars, historyVars>>
-----------------------------------------------------------------------------
(* mailbox_Statemachine_Change_Req *)

ReqCall(t, d) ==
  /\ posts < MaxPosts
  /\ <<t, d>> \in Route
  /\ Goto(t, "idle", "reqTake")
  /\ to' = [to EXCEPT ![t] = d]
  /\ UNCHANGED <<queueVars, holder, idx, entry, minSeq, got, historyVars>>

ReqTake(t) ==
  /\ Goto(t, "reqTake", "reqFind")
  /\ Take(t)
  /\ UNCHANGED <<queueVars, idx, entry, minSeq, to, got, historyVars>>

\* Slip: the search for a slot does not look whether it is free.
AnySlot(i) == i \in Slot

\* The loop over the slots stops at the first free one.
FirstFree(i) ==
  /\ seqNo[i] = 0
  /\ \A j \in Slot : j < i => seqNo[j] # 0

ReqFind(t) ==
  \E i \in Slot :
    /\ Goto(t, "reqFind", "reqClaim")
    /\ FirstFree(i)
    /\ idx' = [idx EXCEPT ![t] = i]
    /\ UNCHANGED <<queueVars, holder, entry, minSeq, to, got, historyVars>>

\* No free slot: the post returns E_API_FAILED.
ReqFull(t) ==
  /\ Goto(t, "reqFind", "reqGive")
  /\ Occupied = Slot
  /\ UNCHANGED <<queueVars, holder, idx, entry, minSeq, to, got, historyVars>>

ReqClaim(t) ==
  /\ Goto(t, "reqClaim", "reqCount")
  /\ seqNo' = [seqNo EXCEPT ![idx[t]] = running]
  /\ UNCHANGED <<dest, msg, running, validMsg, holder, idx, entry, minSeq, to, got, historyVars>>

\* Slips: a number used twice, and a running number wider than 32 bits.
NextSeqSame(n) == n
NextSeqWide(n) == n + 1

\* The increment of a u32.
NextSeq(n) == (n + 1) % (MaxSeq + 1)

ReqCount(t) ==
  /\ Goto(t, "reqCount", "reqWrap")
  /\ running' = NextSeq(running)
  /\ UNCHANGED <<seqNo, dest, msg, validMsg, holder, idx, entry, minSeq, to, got, historyVars>>

\* Slips: a wrap to 0, and none but that of the u32.
WrappedToZero(n) == IF n = MaxSeq THEN 0 ELSE n
WrappedNever(n) == n

\* The running number skips 0, which marks a free slot, and MaxSeq, which
\* the scan of Accept uses for "none found yet".
Wrapped(n) == IF n = MaxSeq THEN 1 ELSE n

ReqWrap(t) ==
  /\ Goto(t, "reqWrap", "reqAddress")
  /\ running' = Wrapped(running)
  /\ UNCHANGED <<seqNo, dest, msg, validMsg, holder, idx, entry, minSeq, to, got, historyVars>>

ReqAddress(t) ==
  /\ Goto(t, "reqAddress", "reqFill")
  /\ dest' = [dest EXCEPT ![idx[t]] = to[t]]
  /\ UNCHANGED <<seqNo, msg, running, validMsg, holder, idx, entry, minSeq, to, got, historyVars>>

ReqFill(t) ==
  /\ Goto(t, "reqFill", "reqValid")
  /\ msg' = [msg EXCEPT ![idx[t]] = posts + 1]
  /\ posts' = posts + 1
  /\ UNCHANGED <<seqNo, dest, running, validMsg, holder, idx, entry, minSeq, to, got,
                 delivered, due, torn>>

ReqValid(t) ==
  /\ Goto(t, "reqValid", "reqGive")
  /\ validMsg' = (validMsg + 1) % 256
  /\ UNCHANGED <<seqNo, dest, msg, running, holder, idx, entry, minSeq, to, got, historyVars>>

ReqGive(t) ==
  /\ Return(t, "reqGive")
  /\ Give(t)
  /\ UNCHANGED <<queueVars, posts, delivered, torn>>
-----------------------------------------------------------------------------
(* mailbox_Statemachine_Change_Accept *)

\* With the counter at 0 the call returns E_API_FAILED at once: no step.
AcceptCall(t) ==
  /\ validMsg # 0
  /\ Goto(t, "idle", "scan")
  /\ due' = [due EXCEPT ![t] = {msg[i] : i \in {j \in Filled : dest[j] = t}}]
  /\ UNCHANGED <<queueVars, holder, idx, entry, minSeq, to, got, posts, delivered, torn>>

\* Slips: a scan that takes anybody's message, and one that takes the newest.
OlderOfAnybody(t, i) == seqNo[i] # 0 /\ (minSeq[t] = MaxSeq \/ minSeq[t] > seqNo[i])
Newer(t, i) ==
  seqNo[i] # 0 /\ dest[i] = t /\ (minSeq[t] = MaxSeq \/ minSeq[t] < seqNo[i])

\* One turn of the loop: is slot idx addressed to t and older than the best yet?
Older(t, i) ==
  /\ seqNo[i] # 0
  /\ dest[i] = t
  /\ minSeq[t] = MaxSeq \/ minSeq[t] > seqNo[i]

AcceptScan(t) ==
  /\ idx[t] < NSlots
  /\ Goto(t, "scan", "scan")
  /\ idx' = [idx EXCEPT ![t] = @ + 1]
  /\ \/ /\ Older(t, idx[t])
        /\ entry' = [entry EXCEPT ![t] = idx[t]]
        /\ minSeq' = [minSeq EXCEPT ![t] = seqNo[idx[t]]]
        /\ torn' = (torn \/ HalfMade(idx[t]))
     \/ /\ ~ Older(t, idx[t])
        /\ UNCHANGED <<entry, minSeq, torn>>
  /\ UNCHANGED <<queueVars, holder, to, got, posts, delivered, due>>

\* The scan found nothing: E_API_FAILED.
AcceptNone(t) ==
  /\ idx[t] = NSlots
  /\ entry[t] = NoEntry
  /\ Return(t, "scan")
  /\ UNCHANGED <<queueVars, holder, posts, delivered, torn>>

AcceptCopy(t) ==
  /\ idx[t] = NSlots
  /\ entry[t] # NoEntry
  /\ Goto(t, "scan", "accTake")
  /\ got' = [got EXCEPT ![t] = msg[entry[t]]]
  /\ UNCHANGED <<queueVars, holder, idx, entry, minSeq, to, historyVars>>

AcceptTake(t) ==
  /\ Goto(t, "accTake", "accClear")
  /\ Take(t)
  /\ UNCHANGED <<queueVars, idx, entry, minSeq, to, got, historyVars>>

\* The slot is freed; its addressee field keeps the old value.
Free(i) ==
  /\ msg' = [msg EXCEPT ![i] = 0]
  /\ seqNo' = [seqNo EXCEPT ![i] = 0]

AcceptClear(t) ==
  /\ Goto(t, "accClear", "accValid")
  /\ Free(entry[t])
  /\ delivered' = Append(delivered, <<t, got[t]>>)
  /\ UNCHANGED <<dest, running, validMsg, holder, idx, entry, minSeq, to, got, posts, due, torn>>

\* Slip: a message that is taken out but still counted.
Uncounted(n) == n

Discounted(n) == (n - 1) % 256

AcceptValid(t) ==
  /\ Goto(t, "accValid", "accGive")
  /\ validMsg' = Discounted(validMsg)
  /\ UNCHANGED <<seqNo, dest, msg, running, holder, idx, entry, minSeq, to, got, historyVars>>

AcceptGive(t) ==
  /\ Return(t, "accGive")
  /\ Give(t)
  /\ UNCHANGED <<queueVars, posts, delivered, torn>>
-----------------------------------------------------------------------------
Req(t) ==
  \/ \E d \in Module : ReqCall(t, d)
  \/ ReqTake(t)
  \/ ReqFind(t)
  \/ ReqFull(t)
  \/ ReqClaim(t)
  \/ ReqCount(t)
  \/ ReqWrap(t)
  \/ ReqAddress(t)
  \/ ReqFill(t)
  \/ ReqValid(t)
  \/ ReqGive(t)

Accept(t) ==
  \/ AcceptCall(t)
  \/ AcceptScan(t)
  \/ AcceptNone(t)
  \/ AcceptCopy(t)
  \/ AcceptTake(t)
  \/ AcceptClear(t)
  \/ AcceptValid(t)
  \/ AcceptGive(t)

Next == \E t \in Module : Req(t) \/ Accept(t) \/ GiveTrapsOwnerCheck(t)

Spec == Init /\ [][Next]_vars

InCall(t) == pc[t] # "idle" /\ (Req(t) \/ Accept(t))

(***************************************************************************)
(* A task in the middle of a call takes its steps.  Fairness is strong     *)
(* because a take is enabled only while the mutex is free: the tasks share *)
(* one priority, the scheduler runs each of them in turn, and every loop   *)
(* sleeps 100 ticks outside the mutex at least once in five messages.  A   *)
(* task of KeepsPolling comes round to its next poll as well; any other    *)
(* may be stuck outside the mailbox for ever, as the TCP server is in      *)
(* accept.  Nobody is obliged to post.                                     *)
(***************************************************************************)
FairSpec ==
  /\ Spec
  /\ \A t \in Module : SF_vars(InCall(t))
  /\ \A t \in KeepsPolling : SF_vars(AcceptCall(t))

\* With time-outs a task in a call can always go on, so it is enough that the
\* scheduler runs it: fairness is weak, whoever holds the mutex and for how long.
TimedSpec ==
  /\ Spec
  /\ \A t \in Module : WF_vars(InCall(t) \/ GiveTrapsOwnerCheck(t))
-----------------------------------------------------------------------------
\* The type of every variable.
TypeOK ==
  /\ seqNo \in [Slot -> 0 .. MaxSeq]
  /\ dest \in [Slot -> Module]
  /\ msg \in [Slot -> Nat]
  /\ running \in 0 .. MaxSeq
  /\ validMsg \in 0 .. 255
  /\ holder \in Module \cup {NoTask}
  /\ panicked \in BOOLEAN
  /\ pc \in [Module -> Label]
  /\ idx \in [Module -> 0 .. NSlots]
  /\ entry \in [Module -> Slot \cup {NoEntry}]
  /\ minSeq \in [Module -> 0 .. MaxSeq]
  /\ to \in [Module -> Module]
  /\ got \in [Module -> Nat]
  /\ posts \in Nat
  /\ delivered \in Seq(Module \X Nat)
  /\ due \in [Module -> SUBSET Nat]
  /\ torn \in BOOLEAN

\* "Enter Critical section" (mailbox_main.c:78 and 151): no two tasks are
\* between a take and a give of the mutex at the same time.
MutualExclusion ==
  \A t, u \in Module : pc[t] \in Critical /\ pc[u] \in Critical => t = u

\* A post never numbers a slot 0, which would leave it free, nor MaxSeq, which
\* a scan takes for "none found yet" (lines 86-90, 122, 134), although number,
\* increment and wrap are steps of their own.
NumberUsable ==
  \A t \in Module : pc[t] = "reqClaim" => running \in 1 .. MaxSeq - 1

\* While no task is inside a critical section the counter that gates every
\* accept (line 126) is the number of occupied slots, as long as no scan has
\* taken up a slot between lines 84 and 93: a message can neither hide behind a
\* counter of 0 nor a counter outlive the messages.
CountExact ==
  ~ torn /\ (\A t \in Module : pc[t] \notin Critical) => validMsg = Cardinality(Occupied)

\* An accept frees a slot only while that slot still holds the message it
\* copied out before it had the mutex, and that message is the caller's own.
ClearsOwnMessage ==
  \A t \in Module :
    pc[t] = "accClear" => /\ dest[entry[t]] = t
                          /\ msg[entry[t]] = got[t]
                          /\ got[t] # 0

\* The half-made slot is the only way to lose that: wherever else tasks are
\* switched, a slot chosen without the mutex and cleared after waiting for it
\* is still the caller's.
OnlyTornMisleads == torn \/ ClearsOwnMessage

\* The scan runs beside posts and other accepts, yet what it picks is never
\* younger than a message that was already waiting for the task when the
\* scan began: sequence numbers make the slots a queue, until they run out
\* and start from 1 again (mailbox_main.c:87), and unless a scan has taken
\* up a half-made slot.
OldestFirst ==
  ~ torn /\ posts < MaxSeq =>
    \A t \in Module : pc[t] = "accTake" => \A n \in due[t] : got[t] <= n

\* Until the numbers start over, two occupied slots never carry the same.
SeqUnique ==
  posts + 1 < MaxSeq => \A i, j \in Occupied : seqNo[i] = seqNo[j] => i = j

\* A post never lands in a slot that is still occupied: an occupied slot
\* keeps its sequence number until it is freed, and its message once filled.
NoOverwrite ==
  [][\A i \in Slot :
       /\ seqNo[i] # 0 => seqNo'[i] \in {0, seqNo[i]}
       /\ msg[i] # 0 => msg'[i] \in {0, msg[i]}]_vars

\* Every accepted message for a task that keeps polling is handed out to it in
\* the end, whatever messages of stuck tasks occupy, unless a scan takes up a
\* half-made slot.
EventuallyDelivered ==
  \A t \in KeepsPolling, n \in 1 .. MaxPosts :
    (\E i \in Filled : dest[i] = t /\ msg[i] = n)
      ~> torn \/ \E k \in 1 .. Len(delivered) : delivered[k] = <<t, n>>

\* No call hangs on the mutex: its 50 ticks bound every wait, so each post and
\* each accept returns, or the owner check has stopped the chip.
CallsReturn ==
  \A t \in Module : pc[t] # "idle" ~> pc[t] = "idle" \/ panicked

\* Calls that have not taken effect yet: a post that is not refused does with
\* its last write to the slot, an accept when it frees the slot.
Posting == {t \in Module : pc[t] \in Filling \cup {"reqTake", "reqFind", "reqClaim"}}
Polling == {t \in Module : pc[t] \in {"scan", "accTake", "accClear"}}

\* The mailbox keeps the promise of module Delivery, until a scan takes up a
\* half-made slot: exactly-once delivery, to the addressee, of exactly the
\* messages that were accepted; a post is refused only for want of a slot, and an
\* accept neither misses a message that waited nor prefers a younger one.
Promise == INSTANCE Delivery WITH
  transit <- {<<dest[i], msg[i]>> : i \in Filled},
  posting <- Posting,
  polling <- Polling,
  due <- [t \in Module |-> IF t \in Polling THEN due[t] ELSE {}]

KeepsPromise == Promise!Init /\ [][torn' \/ Promise!Next]_(Promise!deliveryVars)
=============================================================================
