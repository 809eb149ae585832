--------------------------- MODULE MailboxProofs ---------------------------
(***************************************************************************)
(* What holds of the mailbox for every number of tasks, slots, sequence    *)
(* numbers and posts, with a task switch at any step: its types, the mutex *)
(* and the numbers, and, until a scan takes up a slot that a post is still *)
(* filling, what becomes of a message.                                     *)
(*                                                                         *)
(* The argument for the last: a slot is either free and empty, or claimed  *)
(* by the post that is filling it, or filled (Claims).  What a scan picks  *)
(* is not half-made, so it is filled and addressed to the scanning task;   *)
(* only that task ever frees it, so the slot the task clears later still   *)
(* holds the message it copied (Picked).  The messages in the slots are    *)
(* distinct posts (Numbered), so freeing one slot takes exactly one        *)
(* message out of transit.                                                 *)
(***************************************************************************)
EXTENDS Mailbox, FiniteSetTheorems, TLAPS

LEMMA Bounds ==
  /\ NSlots \in Nat /\ NSlots > 0 /\ NSlots <= 255
  /\ MaxSeq \in Nat /\ MaxSeq > 2
  /\ Slot \subseteq Nat /\ NoEntry \notin Slot
BY MailboxAssumption DEF Slot, NoEntry

LEMMA Labels ==
  /\ {"idle", "reqTake", "scan", "accTake"} \subseteq Label
  /\ {"reqFind", "reqClaim", "reqValid", "reqGive"} \cup Filling \subseteq Label
  /\ {"reqCount", "reqWrap", "reqAddress", "reqFill"} \subseteq Label
  /\ {"accClear", "accValid", "accGive"} \subseteq Label
BY DEF Label, Critical, ReqSection, AcceptSection, Filling

\* A move of one task's control keeps the types of what it changes.
LEMMA GotoType ==
  ASSUME TypeOK, NEW t \in Module, NEW from, NEW label \in Label, Goto(t, from, label)
  PROVE  pc' \in [Module -> Label] /\ panicked' \in BOOLEAN
BY DEF TypeOK, Goto

LEMMA ReturnType ==
  ASSUME TypeOK, NEW t \in Module, NEW from, Return(t, from)
  PROVE  /\ pc' \in [Module -> Label] /\ panicked' \in BOOLEAN
         /\ idx' \in [Module -> 0 .. NSlots]
         /\ entry' \in [Module -> Slot \cup {NoEntry}]
         /\ minSeq' \in [Module -> 0 .. MaxSeq]
         /\ to' \in [Module -> Module]
         /\ got' \in [Module -> Nat]
         /\ due' \in [Module -> SUBSET Nat]
<1>1. Goto(t, from, "idle")
  BY DEF Return
<1>2. pc' \in [Module -> Label] /\ panicked' \in BOOLEAN
  BY <1>1, GotoType, Labels
<1>3. 0 \in 0 .. NSlots /\ MaxSeq \in 0 .. MaxSeq /\ ZeroModule \in Module
  BY Bounds, MailboxAssumption
<1>4. idx' \in [Module -> 0 .. NSlots] /\ minSeq' \in [Module -> 0 .. MaxSeq]
  BY <1>3 DEF TypeOK, Return
<1>5. entry' \in [Module -> Slot \cup {NoEntry}] /\ to' \in [Module -> Module]
  BY <1>3 DEF TypeOK, Return
<1>6. got' \in [Module -> Nat] /\ due' \in [Module -> SUBSET Nat]
  BY DEF TypeOK, Return
<1>7. QED
  BY <1>2, <1>4, <1>5, <1>6

\* Each step of a post keeps the type of every variable.
LEMMA ReqType ==
  ASSUME TypeOK, NEW t \in Module, Req(t)
  PROVE  TypeOK'
<1> USE DEF queueVars, historyVars
<1>1. ASSUME NEW d \in Module, ReqCall(t, d) PROVE TypeOK'
  <2>1. pc' \in [Module -> Label] /\ panicked' \in BOOLEAN
    BY <1>1, GotoType, Labels DEF ReqCall
  <2>2. to' \in [Module -> Module]
    BY <1>1 DEF TypeOK, ReqCall
  <2>3. QED
    BY <1>1, <2>1, <2>2 DEF TypeOK, ReqCall
<1>2. CASE ReqTake(t)
  <2>1. pc' \in [Module -> Label] /\ panicked' \in BOOLEAN
    BY <1>2, GotoType, Labels DEF ReqTake
  <2>2. holder' \in Module \cup {NoTask}
    BY <1>2 DEF TypeOK, ReqTake, Take
  <2>3. QED
    BY <1>2, <2>1, <2>2 DEF TypeOK, ReqTake
<1>3. CASE ReqFind(t)
  <2>1. PICK i \in Slot :
          /\ Goto(t, "reqFind", "reqClaim")
          /\ idx' = [idx EXCEPT ![t] = i]
          /\ UNCHANGED <<queueVars, holder, entry, minSeq, to, got, historyVars>>
    BY <1>3 DEF ReqFind
  <2>2. pc' \in [Module -> Label] /\ panicked' \in BOOLEAN
    BY <2>1, GotoType, Labels
  <2>3. i \in 0 .. NSlots
    BY Bounds DEF Slot
  <2>4. idx' \in [Module -> 0 .. NSlots]
    BY <2>1, <2>3 DEF TypeOK
  <2>5. QED
    BY <2>1, <2>2, <2>4 DEF TypeOK
<1>4. CASE ReqFull(t)
  <2>1. pc' \in [Module -> Label] /\ panicked' \in BOOLEAN
    BY <1>4, GotoType, Labels DEF ReqFull
  <2>2. QED
    BY <1>4, <2>1 DEF TypeOK, ReqFull
<1>5. CASE ReqClaim(t)
  <2>1. pc' \in [Module -> Label] /\ panicked' \in BOOLEAN
    BY <1>5, GotoType, Labels DEF ReqClaim
  <2>2. seqNo' \in [Slot -> 0 .. MaxSeq]
    BY <1>5 DEF TypeOK, ReqClaim
  <2>3. QED
    BY <1>5, <2>1, <2>2 DEF TypeOK, ReqClaim
<1>5a. CASE ReqCount(t)
  <2>1. pc' \in [Module -> Label] /\ panicked' \in BOOLEAN
    BY <1>5a, GotoType, Labels DEF ReqCount
  <2>2. NextSeq(running) \in 0 .. MaxSeq
    BY Bounds DEF TypeOK, NextSeq
  <2>3. QED
    BY <1>5a, <2>1, <2>2 DEF TypeOK, ReqCount
<1>5b. CASE ReqWrap(t)
  <2>1. pc' \in [Module -> Label] /\ panicked' \in BOOLEAN
    BY <1>5b, GotoType, Labels DEF ReqWrap
  <2>2. Wrapped(running) \in 0 .. MaxSeq
    BY Bounds DEF TypeOK, Wrapped
  <2>3. QED
    BY <1>5b, <2>1, <2>2 DEF TypeOK, ReqWrap
<1>6. CASE ReqAddress(t)
  <2>1. pc' \in [Module -> Label] /\ panicked' \in BOOLEAN
    BY <1>6, GotoType, Labels DEF ReqAddress
  <2>2. dest' \in [Slot -> Module]
    BY <1>6 DEF TypeOK, ReqAddress
  <2>3. QED
    BY <1>6, <2>1, <2>2 DEF TypeOK, ReqAddress
<1>7. CASE ReqFill(t)
  <2>1. pc' \in [Module -> Label] /\ panicked' \in BOOLEAN
    BY <1>7, GotoType, Labels DEF ReqFill
  <2>2. posts + 1 \in Nat
    BY DEF TypeOK
  <2>3. msg' \in [Slot -> Nat] /\ posts' \in Nat
    BY <1>7, <2>2 DEF TypeOK, ReqFill
  <2>4. QED
    BY <1>7, <2>1, <2>3 DEF TypeOK, ReqFill
<1>7a. CASE ReqValid(t)
  <2>1. pc' \in [Module -> Label] /\ panicked' \in BOOLEAN
    BY <1>7a, GotoType, Labels DEF ReqValid
  <2>2. validMsg' \in 0 .. 255
    BY <1>7a DEF TypeOK, ReqValid
  <2>3. QED
    BY <1>7a, <2>1, <2>2 DEF TypeOK, ReqValid
<1>8. CASE ReqGive(t)
  <2>1. Return(t, "reqGive") /\ holder' \in Module \cup {NoTask}
    BY <1>8 DEF ReqGive, Give
  <2>2. QED
    BY <1>8, <2>1, ReturnType DEF TypeOK, ReqGive
<1>9. QED
  BY <1>1, <1>2, <1>3, <1>4, <1>5, <1>5a, <1>5b, <1>6, <1>7, <1>7a, <1>8 DEF Req

\* So does each step of an accept.
LEMMA AcceptType ==
  ASSUME TypeOK, NEW t \in Module, Accept(t)
  PROVE  TypeOK'
<1> USE DEF queueVars, historyVars
<1>1. CASE AcceptCall(t)
  <2>1. pc' \in [Module -> Label] /\ panicked' \in BOOLEAN
    BY <1>1, GotoType, Labels DEF AcceptCall
  <2>2. {msg[i] : i \in {j \in Filled : dest[j] = t}} \subseteq Nat
    BY DEF TypeOK, Filled, Occupied
  <2>3. due' \in [Module -> SUBSET Nat]
    BY <1>1, <2>2 DEF TypeOK, AcceptCall
  <2>4. QED
    BY <1>1, <2>1, <2>3 DEF TypeOK, AcceptCall
<1>2. CASE AcceptScan(t)
  <2>1. pc' \in [Module -> Label] /\ panicked' \in BOOLEAN
    BY <1>2, GotoType, Labels DEF AcceptScan
  <2>2. idx[t] \in 0 .. NSlots /\ idx[t] < NSlots
    BY <1>2 DEF TypeOK, AcceptScan
  <2>3. idx[t] \in Slot /\ idx[t] + 1 \in 0 .. NSlots
    BY <2>2, Bounds DEF Slot
  <2>4. seqNo[idx[t]] \in 0 .. MaxSeq
    BY <2>3 DEF TypeOK
  <2>5. idx' \in [Module -> 0 .. NSlots]
    BY <1>2, <2>3 DEF TypeOK, AcceptScan
  <2>6. minSeq' \in [Module -> 0 .. MaxSeq]
    BY <1>2, <2>4 DEF TypeOK, AcceptScan
  <2>7. entry' \in [Module -> Slot \cup {NoEntry}]
    BY <1>2, <2>3 DEF TypeOK, AcceptScan
  <2>8. QED
    BY <1>2, <2>1, <2>5, <2>6, <2>7 DEF TypeOK, AcceptScan, HalfMade
<1>3. CASE AcceptNone(t)
  BY <1>3, ReturnType DEF TypeOK, AcceptNone
<1>4. CASE AcceptCopy(t)
  <2>1. pc' \in [Module -> Label] /\ panicked' \in BOOLEAN
    BY <1>4, GotoType, Labels DEF AcceptCopy
  <2>2. msg[entry[t]] \in Nat
    BY <1>4 DEF TypeOK, AcceptCopy
  <2>3. got' \in [Module -> Nat]
    BY <1>4, <2>2 DEF TypeOK, AcceptCopy
  <2>4. QED
    BY <1>4, <2>1, <2>3 DEF TypeOK, AcceptCopy
<1>5. CASE AcceptTake(t)
  <2>1. pc' \in [Module -> Label] /\ panicked' \in BOOLEAN
    BY <1>5, GotoType, Labels DEF AcceptTake
  <2>2. holder' \in Module \cup {NoTask}
    BY <1>5 DEF TypeOK, AcceptTake, Take
  <2>3. QED
    BY <1>5, <2>1, <2>2 DEF TypeOK, AcceptTake
<1>6. CASE AcceptClear(t)
  <2>1. pc' \in [Module -> Label] /\ panicked' \in BOOLEAN
    BY <1>6, GotoType, Labels DEF AcceptClear
  <2>2. 0 \in 0 .. MaxSeq
    BY Bounds
  <2>3. seqNo' \in [Slot -> 0 .. MaxSeq] /\ msg' \in [Slot -> Nat]
    BY <1>6, <2>2 DEF TypeOK, AcceptClear, Free
  <2>4. delivered' \in Seq(Module \X Nat)
    BY <1>6 DEF TypeOK, AcceptClear
  <2>5. QED
    BY <1>6, <2>1, <2>3, <2>4 DEF TypeOK, AcceptClear
<1>6a. CASE AcceptValid(t)
  <2>1. pc' \in [Module -> Label] /\ panicked' \in BOOLEAN
    BY <1>6a, GotoType, Labels DEF AcceptValid
  <2>2. validMsg' \in 0 .. 255
    BY <1>6a DEF TypeOK, AcceptValid, Discounted
  <2>3. QED
    BY <1>6a, <2>1, <2>2 DEF TypeOK, AcceptValid
<1>7. CASE AcceptGive(t)
  <2>1. Return(t, "accGive") /\ holder' \in Module \cup {NoTask}
    BY <1>7 DEF AcceptGive, Give
  <2>2. QED
    BY <1>7, <2>1, ReturnType DEF TypeOK, AcceptGive
<1>8. QED
  BY <1>1, <1>2, <1>3, <1>4, <1>5, <1>6, <1>6a, <1>7 DEF Accept

LEMMA TypeStep == TypeOK /\ [Next]_vars => TypeOK'
<1> SUFFICES ASSUME TypeOK, [Next]_vars PROVE TypeOK'
  OBVIOUS
<1>1. ASSUME NEW t \in Module, GiveTrapsOwnerCheck(t) PROVE TypeOK'
  BY <1>1 DEF TypeOK, GiveTrapsOwnerCheck, queueVars, taskVars, historyVars
<1>2. CASE UNCHANGED vars
  BY <1>2 DEF TypeOK, vars, queueVars, taskVars, historyVars
<1>3. QED
  BY <1>1, <1>2, ReqType, AcceptType DEF Next

LEMMA TypeInit == Init => TypeOK
<1> SUFFICES ASSUME Init PROVE TypeOK
  OBVIOUS
<1>1. ZeroModule \in Module
  BY MailboxAssumption
<1>2. /\ 0 \in 0 .. MaxSeq /\ 1 \in 0 .. MaxSeq /\ MaxSeq \in 0 .. MaxSeq
      /\ 0 \in 0 .. NSlots /\ 0 \in 0 .. 255
  BY Bounds
<1>3. << >> \in Seq(Module \X Nat)
  OBVIOUS
<1>4. QED
  BY <1>1, <1>2, <1>3, Labels DEF Init, TypeOK

\* The types of all variables, the counter and the indices among them, hold in
\* every reachable state, time-outs included.
THEOREM TypeCorrect == Spec => []TypeOK
BY TypeInit, TypeStep, PTL DEF Spec

-----------------------------------------------------------------------------
(***************************************************************************)
(* The mutex.  A task inside a critical section owns it, provided a take   *)
(* never times out.                                                        *)
(***************************************************************************)
Owned == \A t \in Module : pc[t] \in Critical => holder = t

LEMMA OwnedStep ==
  ASSUME ~ TakeMayTimeOut, TypeOK, Owned, [Next]_vars
  PROVE  Owned'
<1> USE DEF Owned, Critical, ReqSection, AcceptSection, Filling
<1>1. ASSUME NEW t \in Module, Req(t) PROVE Owned'
  <2>1. ASSUME NEW d \in Module, ReqCall(t, d) PROVE Owned'
    BY <2>1 DEF TypeOK, ReqCall, Goto
  <2>2. CASE ReqTake(t)
    BY <2>2, MailboxAssumption DEF TypeOK, ReqTake, Take, Goto
  <2>3. CASE ReqFind(t)
    BY <2>3 DEF TypeOK, ReqFind, Goto
  <2>4. CASE ReqFull(t) \/ ReqClaim(t) \/ ReqCount(t) \/ ReqWrap(t)
    BY <2>4 DEF TypeOK, ReqFull, ReqClaim, ReqCount, ReqWrap, Goto
  <2>4a. CASE ReqAddress(t) \/ ReqFill(t) \/ ReqValid(t)
    BY <2>4a DEF TypeOK, ReqAddress, ReqFill, ReqValid, Goto
  <2>5. CASE ReqGive(t)
    BY <2>5 DEF TypeOK, ReqGive, Return, Give, Goto
  <2>6. QED
    BY <1>1, <2>1, <2>2, <2>3, <2>4, <2>4a, <2>5 DEF Req
<1>2. ASSUME NEW t \in Module, Accept(t) PROVE Owned'
  <2>1. CASE AcceptCall(t) \/ AcceptScan(t) \/ AcceptCopy(t)
    <3>1. /\ UNCHANGED holder
          /\ pc' = [pc EXCEPT ![t] = "scan"] \/ pc' = [pc EXCEPT ![t] = "accTake"]
      BY <2>1 DEF AcceptCall, AcceptScan, AcceptCopy, Goto
    <3>2. PICK label \in {"scan", "accTake"} : pc' = [pc EXCEPT ![t] = label]
      BY <3>1
    <3>3. label \notin Critical /\ DOMAIN pc = Module
      BY DEF TypeOK
    <3>4. QED
      BY <3>1, <3>2, <3>3
  <2>2. CASE AcceptNone(t)
    BY <2>2 DEF TypeOK, AcceptNone, Return, Goto
  <2>3. CASE AcceptTake(t)
    BY <2>3, MailboxAssumption DEF TypeOK, AcceptTake, Take, Goto
  <2>4. CASE AcceptClear(t) \/ AcceptValid(t)
    BY <2>4 DEF TypeOK, AcceptClear, AcceptValid, Goto
  <2>5. CASE AcceptGive(t)
    BY <2>5 DEF TypeOK, AcceptGive, Return, Give, Goto
  <2>6. QED
    BY <1>2, <2>1, <2>2, <2>3, <2>4, <2>5 DEF Accept
<1>3. ASSUME NEW t \in Module, GiveTrapsOwnerCheck(t) PROVE Owned'
  BY <1>3 DEF GiveTrapsOwnerCheck, taskVars
<1>4. CASE UNCHANGED vars
  BY <1>4 DEF vars, taskVars
<1>5. QED
  BY <1>1, <1>2, <1>3, <1>4 DEF Next

LEMMA OwnedInvariant ==
  ASSUME ~ TakeMayTimeOut
  PROVE  Spec => [](TypeOK /\ Owned)
<1>1. Init => Owned
  BY DEF Init, Owned, Critical, ReqSection, AcceptSection, Filling
<1>2. TypeOK /\ Owned /\ [Next]_vars => Owned'
  BY OwnedStep
<1>3. QED
  BY <1>1, <1>2, TypeCorrect, PTL DEF Spec

\* No two tasks are between a take and a give of the mutex at the same time,
\* whatever the scheduler does, as long as no take gives up after 50 ticks.
THEOREM OneTaskInside ==
  ASSUME ~ TakeMayTimeOut
  PROVE  Spec => []MutualExclusion
<1>1. TypeOK /\ Owned => MutualExclusion
  BY DEF Owned, MutualExclusion
<1>2. QED
  BY <1>1, OwnedInvariant, PTL

\* Under mutual exclusion a task that steps inside a critical section is the only
\* one there.
LEMMA AloneInside ==
  ASSUME MutualExclusion, TypeOK, NEW t \in Module, NEW from \in Critical, NEW label,
         Goto(t, from, label)
  PROVE  /\ \A u \in Module \ {t} : pc[u] \notin Critical /\ pc'[u] = pc[u]
         /\ pc[t] = from /\ pc'[t] = label
BY DEF MutualExclusion, TypeOK, Goto

\* Every step moves the control of one task at most.
LEMMA OneMoves ==
  ASSUME TypeOK, NEW t \in Module, NEW from, NEW label, Goto(t, from, label)
  PROVE  pc[t] = from /\ pc'[t] = label /\ \A u \in Module \ {t} : pc'[u] = pc[u]
BY DEF TypeOK, Goto

LEMMA Inside ==
  /\ {"reqClaim", "reqCount", "reqWrap", "reqAddress", "reqFill", "reqValid"} \subseteq Critical
  /\ {"reqFind", "reqGive", "accClear", "accValid", "accGive"} \subseteq Critical
  /\ Filling \subseteq Critical
BY DEF Critical, ReqSection, AcceptSection, Filling
-----------------------------------------------------------------------------
(***************************************************************************)
(* The numbers.  Between the increment and the test the running number may *)
(* be MaxSeq, and nobody reads it then but the task that is about to test. *)
(***************************************************************************)
Ranged ==
  /\ running \in 1 .. MaxSeq
  /\ running = MaxSeq => \E t \in Module : pc[t] = "reqWrap"
  /\ \A i \in Slot : seqNo[i] < MaxSeq

LEMMA RangedStep ==
  ASSUME MutualExclusion, TypeOK, Ranged, [Next]_vars
  PROVE  Ranged'
<1> USE DEF queueVars, historyVars
<1>0. MaxSeq \in Nat /\ MaxSeq > 2 /\ running \in Nat
  BY Bounds DEF TypeOK
<1>1. ASSUME NEW t \in Module, NEW from, NEW label, Goto(t, from, label), from # "reqWrap",
             UNCHANGED <<seqNo, running>>
      PROVE  Ranged'
  <2>1. pc[t] = from /\ \A u \in Module \ {t} : pc'[u] = pc[u]
    BY <1>1, OneMoves
  <2> QED
    BY <1>1, <2>1 DEF Ranged
<1>2. ASSUME NEW t \in Module, ReqClaim(t) PROVE Ranged'
  <2>1. /\ seqNo' = [seqNo EXCEPT ![idx[t]] = running] /\ UNCHANGED running
        /\ pc[t] = "reqClaim" /\ \A u \in Module \ {t} : pc'[u] = pc[u] /\ pc[u] \notin Critical
    BY <1>2, AloneInside, Inside DEF ReqClaim
  <2>2. running # MaxSeq
    BY <2>1, Inside DEF Ranged
  <2>3. \A i \in Slot : seqNo'[i] \in {running, seqNo[i]}
    BY <2>1 DEF TypeOK
  <2>4. running \in 1 .. MaxSeq /\ running < MaxSeq
    BY <1>0, <2>2 DEF Ranged
  <2> QED
    BY <2>1, <2>2, <2>3, <2>4 DEF Ranged
<1>3. ASSUME NEW t \in Module, ReqCount(t) PROVE Ranged'
  <2>1. /\ running' = NextSeq(running) /\ UNCHANGED seqNo
        /\ pc[t] = "reqCount" /\ pc'[t] = "reqWrap"
        /\ \A u \in Module \ {t} : pc[u] \notin Critical
    BY <1>3, AloneInside, Inside DEF ReqCount
  <2>2. running \in 1 .. MaxSeq - 1
    BY <1>0, <2>1, Inside DEF Ranged
  <2>3. running' = running + 1
    BY <1>0, <2>1, <2>2 DEF NextSeq
  <2> QED
    BY <1>0, <2>1, <2>2, <2>3 DEF Ranged
<1>4. ASSUME NEW t \in Module, ReqWrap(t) PROVE Ranged'
  <2>1. running' = Wrapped(running) /\ UNCHANGED seqNo
    BY <1>4 DEF ReqWrap
  <2>2. running' \in 1 .. MaxSeq - 1
    BY <1>0, <2>1 DEF Wrapped, Ranged
  <2> QED
    BY <1>0, <2>1, <2>2 DEF Ranged
<1>5. ASSUME NEW t \in Module, AcceptClear(t) PROVE Ranged'
  <2>1. /\ seqNo' = [seqNo EXCEPT ![entry[t]] = 0] /\ UNCHANGED running
        /\ Goto(t, "accClear", "accValid")
    BY <1>5 DEF AcceptClear, Free
  <2>2. pc[t] = "accClear" /\ \A u \in Module \ {t} : pc'[u] = pc[u]
    BY <2>1, OneMoves
  <2>3. \A i \in Slot : seqNo'[i] \in {0, seqNo[i]}
    BY <2>1 DEF TypeOK
  <2> QED
    BY <1>0, <2>1, <2>2, <2>3 DEF Ranged
<1>6. ASSUME NEW t \in Module, Req(t) PROVE Ranged'
  <2>1. ASSUME NEW d \in Module, ReqCall(t, d) PROVE Ranged'
    BY <1>1, <2>1 DEF ReqCall
  <2>2. CASE ReqTake(t) \/ ReqFind(t) \/ ReqFull(t)
    BY <1>1, <2>2 DEF ReqTake, ReqFind, ReqFull
  <2>3. CASE ReqAddress(t) \/ ReqFill(t) \/ ReqValid(t)
    BY <1>1, <2>3 DEF ReqAddress, ReqFill, ReqValid
  <2>4. CASE ReqGive(t)
    BY <1>1, <2>4 DEF ReqGive, Return
  <2> QED
    BY <1>2, <1>3, <1>4, <1>6, <2>1, <2>2, <2>3, <2>4 DEF Req
<1>7. ASSUME NEW t \in Module, Accept(t) PROVE Ranged'
  <2>1. CASE AcceptCall(t) \/ AcceptScan(t) \/ AcceptCopy(t) \/ AcceptTake(t) \/ AcceptValid(t)
    BY <1>1, <2>1 DEF AcceptCall, AcceptScan, AcceptCopy, AcceptTake, AcceptValid
  <2>2. CASE AcceptNone(t) \/ AcceptGive(t)
    BY <1>1, <2>2 DEF AcceptNone, AcceptGive, Return
  <2> QED
    BY <1>5, <1>7, <2>1, <2>2 DEF Accept
<1>8. CASE UNCHANGED <<seqNo, running, pc>>
  BY <1>8 DEF Ranged
<1> QED
  BY <1>6, <1>7, <1>8 DEF Next, GiveTrapsOwnerCheck, vars, taskVars

LEMMA RangedInvariant ==
  ASSUME ~ TakeMayTimeOut
  PROVE  Spec => [](TypeOK /\ MutualExclusion /\ Ranged)
<1>1. ASSUME Init PROVE Ranged
  BY <1>1, Bounds DEF Init, Ranged
<1>2. MutualExclusion /\ TypeOK /\ Ranged /\ [Next]_vars => Ranged'
  BY RangedStep
<1> QED
  BY <1>1, <1>2, TypeCorrect, OneTaskInside, PTL DEF Spec

\* A post never numbers a slot 0 or MaxSeq, for every number of posts: the wrap
\* comes in time although another task may run between increment and test.
THEOREM NumbersUsable ==
  ASSUME ~ TakeMayTimeOut
  PROVE  Spec => []NumberUsable
<1>1. TypeOK /\ MutualExclusion /\ Ranged => NumberUsable
  <2> SUFFICES ASSUME TypeOK, MutualExclusion, Ranged, NEW t \in Module, pc[t] = "reqClaim"
               PROVE  running \in 1 .. MaxSeq - 1
    BY DEF NumberUsable
  <2>1. running # MaxSeq
    BY Inside DEF MutualExclusion, Ranged
  <2> QED
    BY <2>1, Bounds DEF Ranged
<1> QED
  BY <1>1, RangedInvariant, PTL
-----------------------------------------------------------------------------
(***************************************************************************)
(* The slots.  One that has a number and no message belongs to the post    *)
(* that is filling it.                                                     *)
(***************************************************************************)
FreeIsEmpty == \A i \in Slot : seqNo[i] = 0 => msg[i] = 0

PartialIsClaimed == \A i \in Slot : seqNo[i] # 0 /\ msg[i] = 0 => HalfMade(i)

Building == Filling \cup {"reqClaim"}

Claimer(t) ==
  /\ pc[t] \in Building => idx[t] \in Slot /\ msg[idx[t]] = 0
  /\ pc[t] = "reqClaim" => seqNo[idx[t]] = 0
  /\ pc[t] \in Filling => seqNo[idx[t]] # 0
  /\ pc[t] = "reqFill" => dest[idx[t]] = to[t]

Claims == FreeIsEmpty /\ PartialIsClaimed /\ \A t \in Module : Claimer(t)

\* What an accept has picked is a filled slot of its own, until it frees it.
Picked ==
  \A t \in Module :
    /\ pc[t] = "idle" => entry[t] = NoEntry
    /\ pc[t] \in {"scan", "accTake", "accClear"} /\ entry[t] # NoEntry =>
         entry[t] \in Filled /\ dest[entry[t]] = t
    /\ pc[t] \in {"accTake", "accClear"} =>
         entry[t] # NoEntry /\ got[t] = msg[entry[t]]

\* The messages are distinct posts among those accepted so far.
Numbered ==
  /\ \A i \in Slot : msg[i] <= posts
  /\ \A i, j \in Slot : msg[i] = msg[j] /\ msg[i] # 0 => i = j

\* A step that leaves the slots alone and takes place outside the filling of a
\* slot keeps Claims.
LEMMA ClaimsFrame ==
  ASSUME TypeOK, Claims, NEW t \in Module, NEW from, from \notin Building,
         NEW label, label \notin Building, Goto(t, from, label),
         UNCHANGED <<seqNo, dest, msg>>,
         \A u \in Module \ {t} : idx'[u] = idx[u] /\ to'[u] = to[u]
  PROVE  Claims'
<1>0. /\ pc[t] \notin Building /\ pc'[t] \notin Building
      /\ \A u \in Module \ {t} : pc'[u] = pc[u]
  BY OneMoves
<1>1. FreeIsEmpty'
  BY DEF Claims, FreeIsEmpty
<1>2. PartialIsClaimed'
  BY <1>0 DEF Claims, PartialIsClaimed, HalfMade, Building
<1>3. ASSUME NEW u \in Module PROVE Claimer(u)'
  BY <1>0 DEF Claims, Claimer, Building, Filling
<1>4. QED
  BY <1>1, <1>2, <1>3 DEF Claims

\* So does the return of a call to the caller's loop.
LEMMA ClaimsReturn ==
  ASSUME TypeOK, Claims, NEW t \in Module, NEW from, from \notin Building, Return(t, from),
         UNCHANGED <<seqNo, dest, msg>>
  PROVE  Claims'
<1>1. Goto(t, from, "idle") /\ "idle" \notin Building
  BY DEF Return, Building, Filling
<1>2. \A u \in Module \ {t} : idx'[u] = idx[u] /\ to'[u] = to[u]
  BY DEF TypeOK, Return
<1>3. QED
  BY <1>1, <1>2, ClaimsFrame

\* And a step of a post that goes on filling its slot, elsewhere.
LEMMA ClaimsOnward ==
  ASSUME MutualExclusion, TypeOK, Claims, NEW t \in Module,
         NEW from \in {"reqCount", "reqWrap"}, NEW label \in {"reqWrap", "reqAddress"},
         Goto(t, from, label), UNCHANGED <<seqNo, dest, msg, idx, to>>
  PROVE  Claims'
<1>0. from \in Filling /\ label \in Filling /\ label # "reqFill" /\ label # "reqClaim"
  BY DEF Filling
<1>1. pc[t] = from /\ pc'[t] = label /\ \A u \in Module \ {t} : pc'[u] = pc[u]
  BY OneMoves
<1>2. FreeIsEmpty'
  BY DEF Claims, FreeIsEmpty
<1>3. PartialIsClaimed'
  BY <1>0, <1>1 DEF Claims, PartialIsClaimed, HalfMade
<1>4. ASSUME NEW u \in Module PROVE Claimer(u)'
  <2>1. CASE u = t
    BY <1>0, <1>1, <2>1 DEF Claims, Claimer, Building
  <2>2. CASE u # t
    BY <1>1, <2>2 DEF Claims, Claimer
  <2> QED
    BY <2>1, <2>2
<1> QED
  BY <1>2, <1>3, <1>4 DEF Claims

LEMMA ClaimsReq ==
  ASSUME MutualExclusion, TypeOK, Ranged, Claims, NEW t \in Module, Req(t)
  PROVE  Claims'
<1> USE DEF queueVars, historyVars
<1>0. /\ "reqClaim" \in Building /\ Building \subseteq Critical
      /\ {"idle", "reqTake", "reqFind", "reqValid", "reqGive"} \cap Building = {}
      /\ "reqClaim" \notin Filling /\ "reqCount" \in Filling
      /\ "reqAddress" \in Filling /\ "reqFill" \in Filling
  BY Inside DEF Building, Filling
<1>1. ASSUME NEW d \in Module, ReqCall(t, d) PROVE Claims'
  <2>1. /\ Goto(t, "idle", "reqTake") /\ UNCHANGED <<seqNo, dest, msg>>
        /\ \A u \in Module \ {t} : idx'[u] = idx[u] /\ to'[u] = to[u]
    BY <1>1 DEF TypeOK, ReqCall
  <2> QED
    BY <1>0, <2>1, ClaimsFrame
<1>2. CASE ReqTake(t)
  BY <1>0, <1>2, ClaimsFrame DEF ReqTake
<1>3. CASE ReqFull(t)
  BY <1>0, <1>3, ClaimsFrame DEF ReqFull
<1>4. CASE ReqValid(t)
  BY <1>0, <1>4, ClaimsFrame DEF ReqValid
<1>5. CASE ReqGive(t)
  BY <1>0, <1>5, ClaimsReturn DEF ReqGive
<1>6. CASE ReqCount(t)
  BY <1>6, ClaimsOnward DEF ReqCount
<1>7. CASE ReqWrap(t)
  BY <1>7, ClaimsOnward DEF ReqWrap
<1>8. CASE ReqFind(t)
  <2>1. PICK i \in Slot :
          /\ Goto(t, "reqFind", "reqClaim")
          /\ seqNo[i] = 0
          /\ idx' = [idx EXCEPT ![t] = i]
          /\ UNCHANGED <<seqNo, dest, msg, to>>
    BY <1>8 DEF ReqFind, FirstFree
  <2>2. /\ pc[t] = "reqFind" /\ pc'[t] = "reqClaim" /\ idx'[t] = i
        /\ \A u \in Module \ {t} : pc'[u] = pc[u] /\ idx'[u] = idx[u]
    BY <2>1, OneMoves DEF TypeOK
  <2>3. FreeIsEmpty' /\ msg[i] = 0
    BY <2>1 DEF Claims, FreeIsEmpty
  <2>4. PartialIsClaimed'
    BY <1>0, <2>1, <2>2 DEF Claims, PartialIsClaimed, HalfMade, Building
  <2>5. ASSUME NEW u \in Module PROVE Claimer(u)'
    <3>1. CASE u = t
      BY <1>0, <2>1, <2>2, <2>3, <3>1 DEF Claimer
    <3>2. CASE u # t
      BY <2>1, <2>2, <3>2 DEF Claims, Claimer
    <3> QED
      BY <3>1, <3>2
  <2> QED
    BY <2>3, <2>4, <2>5 DEF Claims
<1>9. CASE ReqClaim(t)
  <2>1. /\ UNCHANGED <<dest, msg, idx, to>>
        /\ pc[t] = "reqClaim" /\ pc'[t] = "reqCount"
        /\ seqNo' = [seqNo EXCEPT ![idx[t]] = running]
        /\ \A u \in Module \ {t} : pc[u] \notin Critical /\ pc'[u] = pc[u]
    BY <1>9, Inside, AloneInside DEF ReqClaim
  <2>2. running # 0 /\ idx[t] \in Slot /\ msg[idx[t]] = 0
    BY <1>0, <2>1 DEF Ranged, Claims, Claimer
  <2>3. /\ seqNo'[idx[t]] # 0
        /\ \A i \in Slot \ {idx[t]} : seqNo'[i] = seqNo[i]
    BY <2>1, <2>2 DEF TypeOK
  <2>4. FreeIsEmpty'
    BY <2>1, <2>3 DEF Claims, FreeIsEmpty
  <2>5. PartialIsClaimed'
    BY <1>0, <2>1, <2>3 DEF Claims, PartialIsClaimed, HalfMade
  <2>6. ASSUME NEW u \in Module PROVE Claimer(u)'
    <3>1. u # t => pc'[u] \notin Building
      BY <1>0, <2>1
    <3> QED
      BY <1>0, <2>1, <2>2, <2>3, <3>1 DEF Claimer, Building
  <2> QED
    BY <2>4, <2>5, <2>6 DEF Claims
<1>10. CASE ReqAddress(t)
  <2>1. /\ UNCHANGED <<seqNo, msg, idx, to>>
        /\ pc[t] = "reqAddress" /\ pc'[t] = "reqFill"
        /\ dest' = [dest EXCEPT ![idx[t]] = to[t]]
        /\ \A u \in Module \ {t} : pc[u] \notin Critical /\ pc'[u] = pc[u]
    BY <1>10, Inside, AloneInside DEF ReqAddress
  <2>2. idx[t] \in Slot /\ msg[idx[t]] = 0 /\ seqNo[idx[t]] # 0
    BY <1>0, <2>1 DEF Claims, Claimer, Building
  <2>3. dest'[idx[t]] = to[t]
    BY <2>1, <2>2 DEF TypeOK
  <2>4. FreeIsEmpty'
    BY <2>1 DEF Claims, FreeIsEmpty
  <2>5. PartialIsClaimed'
    BY <1>0, <2>1 DEF Claims, PartialIsClaimed, HalfMade
  <2>6. ASSUME NEW u \in Module PROVE Claimer(u)'
    <3>1. u # t => pc'[u] \notin Building
      BY <1>0, <2>1
    <3> QED
      BY <1>0, <2>1, <2>2, <2>3, <3>1 DEF Claimer, Building
  <2> QED
    BY <2>4, <2>5, <2>6 DEF Claims
<1>11. CASE ReqFill(t)
  <2>1. /\ UNCHANGED <<seqNo, dest, idx, to>>
        /\ pc[t] = "reqFill" /\ pc'[t] = "reqValid"
        /\ msg' = [msg EXCEPT ![idx[t]] = posts + 1]
        /\ \A u \in Module \ {t} : pc[u] \notin Critical /\ pc'[u] = pc[u]
    BY <1>11, Inside, AloneInside DEF ReqFill
  <2>2. posts + 1 # 0 /\ idx[t] \in Slot /\ seqNo[idx[t]] # 0
    BY <1>0, <2>1 DEF TypeOK, Claims, Claimer, Building
  <2>3. /\ msg'[idx[t]] # 0
        /\ \A i \in Slot \ {idx[t]} : msg'[i] = msg[i]
    BY <2>1, <2>2 DEF TypeOK
  <2>4. FreeIsEmpty'
    BY <2>1, <2>2, <2>3 DEF Claims, FreeIsEmpty
  <2>5. PartialIsClaimed'
    <3>1. ASSUME NEW i \in Slot, seqNo'[i] # 0, msg'[i] = 0 PROVE HalfMade(i)'
      <4>1. i # idx[t] /\ HalfMade(i)
        BY <2>1, <2>3, <3>1 DEF Claims, PartialIsClaimed
      <4>2. PICK u \in Module : pc[u] \in Filling /\ idx[u] = i
        BY <4>1 DEF HalfMade
      <4>3. u # t
        BY <4>1, <4>2
      <4> QED
        BY <2>1, <4>2, <4>3 DEF HalfMade
    <3> QED
      BY <3>1 DEF PartialIsClaimed
  <2>6. ASSUME NEW u \in Module PROVE Claimer(u)'
    <3>1. pc'[u] \notin Building
      BY <1>0, <2>1
    <3> QED
      BY <3>1, <1>0 DEF Claimer, Building
  <2> QED
    BY <2>4, <2>5, <2>6 DEF Claims
<1>12. QED
  BY <1>1, <1>2, <1>3, <1>4, <1>5, <1>6, <1>7, <1>8, <1>9, <1>10, <1>11 DEF Req

LEMMA ClaimsAccept ==
  ASSUME MutualExclusion, TypeOK, Claims, NEW t \in Module, Accept(t)
  PROVE  Claims'
<1> USE DEF queueVars, historyVars
<1>0. /\ {"idle", "scan", "accTake", "accClear", "accValid", "accGive"} \cap Building = {}
      /\ Building \subseteq Critical /\ Filling \subseteq Critical
  BY Inside DEF Building, Filling
<1>1. CASE AcceptCall(t)
  BY <1>0, <1>1, ClaimsFrame DEF AcceptCall
<1>2. CASE AcceptScan(t)
  <2>1. \A u \in Module \ {t} : idx'[u] = idx[u] /\ to'[u] = to[u]
    BY <1>2 DEF TypeOK, AcceptScan
  <2> QED
    BY <1>0, <1>2, <2>1, ClaimsFrame DEF AcceptScan
<1>3. CASE AcceptNone(t)
  BY <1>0, <1>3, ClaimsReturn DEF AcceptNone
<1>4. CASE AcceptCopy(t)
  BY <1>0, <1>4, ClaimsFrame DEF AcceptCopy
<1>5. CASE AcceptTake(t)
  BY <1>0, <1>5, ClaimsFrame DEF AcceptTake
<1>6. CASE AcceptValid(t)
  BY <1>0, <1>6, ClaimsFrame DEF AcceptValid
<1>7. CASE AcceptGive(t)
  BY <1>0, <1>7, ClaimsReturn DEF AcceptGive
<1>8. CASE AcceptClear(t)
  <2>1. /\ UNCHANGED <<dest, idx, to>>
        /\ pc[t] = "accClear" /\ pc'[t] = "accValid"
        /\ msg' = [msg EXCEPT ![entry[t]] = 0]
        /\ seqNo' = [seqNo EXCEPT ![entry[t]] = 0]
        /\ \A u \in Module \ {t} : pc[u] \notin Critical /\ pc'[u] = pc[u]
    BY <1>8, Inside, AloneInside DEF AcceptClear, Free
  <2>2. \A i \in Slot : \/ msg'[i] = 0 /\ seqNo'[i] = 0
                        \/ msg'[i] = msg[i] /\ seqNo'[i] = seqNo[i]
    BY <2>1 DEF TypeOK
  <2>3. FreeIsEmpty'
    BY <2>2 DEF Claims, FreeIsEmpty
  <2>4. \A i \in Slot : HalfMade(i) => HalfMade(i)'
    BY <1>0, <2>1 DEF HalfMade, Building
  <2>5. PartialIsClaimed'
    BY <2>2, <2>4 DEF Claims, PartialIsClaimed
  <2>6. ASSUME NEW u \in Module PROVE Claimer(u)'
    <3>1. pc'[u] \notin Building
      BY <1>0, <2>1
    <3> QED
      BY <3>1 DEF Claimer, Building, Filling
  <2> QED
    BY <2>3, <2>5, <2>6 DEF Claims
<1>9. QED
  BY <1>1, <1>2, <1>3, <1>4, <1>5, <1>6, <1>7, <1>8 DEF Accept

LEMMA ClaimsStep ==
  ASSUME MutualExclusion, TypeOK, Ranged, Claims, [Next]_vars
  PROVE  Claims'
<1>1. ASSUME UNCHANGED <<queueVars, taskVars>> PROVE Claims'
  BY <1>1 DEF Claims, FreeIsEmpty, PartialIsClaimed, HalfMade, Claimer, queueVars, taskVars
<1>2. QED
  BY <1>1, ClaimsReq, ClaimsAccept DEF Next, GiveTrapsOwnerCheck, vars

\* A step into or inside a post keeps what the accepts have picked.
LEMMA PickedFrame ==
  ASSUME TypeOK, Picked, NEW t \in Module, NEW from, NEW label, Goto(t, from, label),
         label \notin {"idle", "scan", "accTake", "accClear"},
         UNCHANGED <<seqNo, dest, msg, entry, got>>
  PROVE  Picked'
<1>1. pc'[t] = label /\ \A u \in Module \ {t} : pc'[u] = pc[u]
  BY OneMoves
<1>2. Filled' = Filled
  BY DEF Filled, Occupied
<1>3. QED
  BY <1>1, <1>2 DEF Picked

LEMMA PickedReq ==
  ASSUME TypeOK, Claims, Picked, NEW t \in Module, Req(t)
  PROVE  Picked'
<1> USE DEF queueVars, historyVars
<1>0. "reqClaim" \in Building /\ "reqAddress" \in Building /\ "reqFill" \in Building
  BY DEF Building, Filling
<1>1. ASSUME NEW d \in Module, ReqCall(t, d) PROVE Picked'
  BY <1>1, PickedFrame DEF ReqCall
<1>2. CASE ReqTake(t) \/ ReqFind(t) \/ ReqFull(t)
  BY <1>2, PickedFrame DEF ReqTake, ReqFind, ReqFull
<1>3. CASE ReqCount(t) \/ ReqWrap(t) \/ ReqValid(t)
  BY <1>3, PickedFrame DEF ReqCount, ReqWrap, ReqValid
<1>4. CASE ReqClaim(t) \/ ReqAddress(t) \/ ReqFill(t)
  <2>1. /\ UNCHANGED <<entry, got>> /\ pc[t] \in Building
        /\ \/ Goto(t, "reqClaim", "reqCount") \/ Goto(t, "reqAddress", "reqFill")
           \/ Goto(t, "reqFill", "reqValid")
    BY <1>0, <1>4 DEF ReqClaim, ReqAddress, ReqFill, Goto
  <2>2. /\ pc'[t] \in {"reqCount", "reqFill", "reqValid"}
        /\ \A u \in Module \ {t} : pc'[u] = pc[u]
    BY <2>1, OneMoves
  <2>3. idx[t] \in Slot /\ msg[idx[t]] = 0
    BY <2>1 DEF Claims, Claimer
  <2>4. idx[t] \notin Filled /\ Filled \subseteq Slot
    BY <2>3 DEF Filled, Occupied
  <2>5. \A i \in Slot \ {idx[t]} : seqNo'[i] = seqNo[i] /\ dest'[i] = dest[i] /\ msg'[i] = msg[i]
    BY <1>4 DEF TypeOK, ReqClaim, ReqAddress, ReqFill
  <2>6. \A i \in Filled : i \in Filled' /\ dest'[i] = dest[i] /\ msg'[i] = msg[i]
    BY <2>4, <2>5 DEF Filled, Occupied
  <2> QED
    BY <2>1, <2>2, <2>6 DEF Picked
<1>5. CASE ReqGive(t)
  BY <1>5 DEF TypeOK, Picked, ReqGive, Return, Goto, Filled, Occupied
<1>6. QED
  BY <1>1, <1>2, <1>3, <1>4, <1>5 DEF Req

\* A scan picks no half-made slot in this step.
LEMMA PickedAccept ==
  ASSUME TypeOK, Claims, Picked, ~ torn', NEW t \in Module, Accept(t)
  PROVE  Picked'
<1> USE DEF queueVars, historyVars, Filled, Occupied
<1>1. CASE AcceptCall(t)
  BY <1>1 DEF TypeOK, Picked, AcceptCall, Goto
<1>2. CASE AcceptScan(t)
  <2>1. /\ UNCHANGED <<seqNo, dest, msg, got>>
        /\ pc[t] = "scan" /\ pc' = pc
    BY <1>2 DEF TypeOK, AcceptScan, Goto
  <2>2. CASE Older(t, idx[t])
    <3>1. idx[t] \in Slot
      BY <1>2, Bounds DEF TypeOK, AcceptScan, Slot
    <3>2. entry' = [entry EXCEPT ![t] = idx[t]] /\ ~ HalfMade(idx[t])
      BY <1>2, <2>2 DEF AcceptScan
    <3>3. idx[t] \in Filled /\ dest[idx[t]] = t
      BY <2>2, <3>1, <3>2 DEF Older, Claims, PartialIsClaimed
    <3> QED
      BY <2>1, <3>2, <3>3 DEF TypeOK, Picked
  <2>3. CASE ~ Older(t, idx[t])
    BY <1>2, <2>1, <2>3 DEF AcceptScan, Picked
  <2> QED
    BY <2>2, <2>3
<1>3. CASE AcceptNone(t)
  BY <1>3 DEF TypeOK, Picked, AcceptNone, Return, Goto
<1>4. CASE AcceptCopy(t)
  BY <1>4 DEF TypeOK, Picked, AcceptCopy, Goto
<1>5. CASE AcceptTake(t)
  BY <1>5 DEF TypeOK, Picked, AcceptTake, Goto
<1>6. CASE AcceptClear(t)
  BY <1>6 DEF TypeOK, Picked, AcceptClear, Free, Goto
<1>7. CASE AcceptValid(t)
  BY <1>7, PickedFrame DEF AcceptValid
<1>8. CASE AcceptGive(t)
  BY <1>8 DEF TypeOK, Picked, AcceptGive, Return, Goto
<1>9. QED
  BY <1>1, <1>2, <1>3, <1>4, <1>5, <1>6, <1>7, <1>8 DEF Accept

\* Once torn, always torn.
LEMMA TornStays == [Next]_vars /\ torn => torn'
<1> USE DEF historyVars
<1>1. ASSUME NEW t \in Module, Req(t) PROVE torn' = torn
  BY <1>1 DEF Req, ReqCall, ReqTake, ReqFind, ReqFull, ReqClaim, ReqCount, ReqWrap, ReqAddress,
     ReqFill, ReqValid, ReqGive
<1>2. ASSUME NEW t \in Module, Accept(t), torn PROVE torn'
  BY <1>2 DEF Accept, AcceptCall, AcceptScan, AcceptNone, AcceptCopy, AcceptTake, AcceptClear,
     AcceptValid, AcceptGive
<1>3. QED
  BY <1>1, <1>2 DEF Next, GiveTrapsOwnerCheck, vars

LEMMA PickedStep ==
  ASSUME TypeOK, Claims, torn \/ Picked, [Next]_vars
  PROVE  torn' \/ Picked'
<1> SUFFICES ASSUME ~ torn' PROVE Picked'
  OBVIOUS
<1>1. Picked
  BY TornStays
<1>2. ASSUME UNCHANGED <<queueVars, taskVars>> PROVE Picked'
  BY <1>1, <1>2 DEF Picked, Filled, Occupied, queueVars, taskVars
<1>3. QED
  BY <1>1, <1>2, PickedReq, PickedAccept DEF Next, GiveTrapsOwnerCheck, vars

LEMMA NumberedStep ==
  ASSUME TypeOK, Numbered, [Next]_vars
  PROVE  Numbered'
<1>1. ASSUME NEW t \in Module, Req(t), ~ ReqFill(t) PROVE UNCHANGED <<msg, posts>>
  BY <1>1 DEF Req, ReqCall, ReqTake, ReqFind, ReqFull, ReqClaim, ReqCount, ReqWrap, ReqAddress,
     ReqValid, ReqGive, queueVars, historyVars
<1>2. ASSUME NEW t \in Module, ReqFill(t) PROVE Numbered'
  <2>1. /\ msg' = [msg EXCEPT ![idx[t]] = posts + 1]
        /\ posts' = posts + 1
    BY <1>2 DEF ReqFill
  <2>2. \A i \in Slot : msg[i] \in Nat /\ posts \in Nat
    BY DEF TypeOK
  <2>3. \A i \in Slot : msg'[i] = IF i = idx[t] THEN posts + 1 ELSE msg[i]
    BY <2>1 DEF TypeOK
  <2>4. QED
    BY <2>1, <2>2, <2>3 DEF Numbered
<1>3. ASSUME NEW t \in Module, Accept(t), ~ AcceptClear(t) PROVE UNCHANGED <<msg, posts>>
  BY <1>3 DEF Accept, AcceptCall, AcceptScan, AcceptNone, AcceptCopy, AcceptTake, AcceptValid,
     AcceptGive, queueVars, historyVars
<1>4. ASSUME NEW t \in Module, AcceptClear(t) PROVE Numbered'
  <2>1. /\ msg' = [msg EXCEPT ![entry[t]] = 0]
        /\ UNCHANGED posts
    BY <1>4 DEF AcceptClear, Free
  <2>2. \A i \in Slot : msg'[i] \in {0, msg[i]} /\ posts \in Nat
    BY <2>1 DEF TypeOK
  <2>3. QED
    BY <2>1, <2>2 DEF Numbered
<1>5. QED
  BY <1>1, <1>2, <1>3, <1>4 DEF Next, Numbered, GiveTrapsOwnerCheck, vars, queueVars, historyVars
-----------------------------------------------------------------------------
DeliveryInv ==
  TypeOK /\ MutualExclusion /\ Ranged /\ Claims /\ Numbered /\ (torn \/ Picked)

LEMMA DeliveryInvariant ==
  ASSUME ~ TakeMayTimeOut
  PROVE  Spec => []DeliveryInv
<1>1. ASSUME Init PROVE Claims /\ Numbered /\ (torn \/ Picked)
  BY <1>1 DEF Init, Building, Filling, Claims, FreeIsEmpty, PartialIsClaimed, Claimer, Picked,
     Numbered
<1>2. DeliveryInv /\ [Next]_vars => (Claims /\ Numbered /\ (torn \/ Picked))'
  BY ClaimsStep, PickedStep, NumberedStep DEF DeliveryInv
<1>3. QED
  BY <1>1, <1>2, RangedInvariant, PTL DEF Spec, DeliveryInv

\* An accept frees the slot of the very message it copied out before it had the
\* mutex, although scan and copy run unlocked beside posts and other accepts:
\* only a scan that takes up a half-made slot can spoil that.
THEOREM FreesItsOwn ==
  ASSUME ~ TakeMayTimeOut
  PROVE  Spec => []OnlyTornMisleads
<1>1. DeliveryInv => OnlyTornMisleads
  BY DEF DeliveryInv, Picked, OnlyTornMisleads, ClearsOwnMessage, Filled
<1>2. QED
  BY <1>1, DeliveryInvariant, PTL

InTransit == {<<dest[i], msg[i]>> : i \in Filled}

\* Filling a slot fills that slot and puts one message in transit, to the
\* post's addressee.
LEMMA FillPosts ==
  ASSUME DeliveryInv, NEW t \in Module, ReqFill(t)
  PROVE  /\ Filled' = Filled \cup {idx[t]} /\ idx[t] \in Slot \ Filled
         /\ InTransit' = InTransit \cup {<<to[t], posts + 1>>}
<1>0. "reqFill" \in Filling /\ Filling \subseteq Building
  BY DEF Filling, Building
<1>1. /\ UNCHANGED <<seqNo, dest, delivered>>
      /\ pc[t] = "reqFill"
      /\ msg' = [msg EXCEPT ![idx[t]] = posts + 1]
      /\ posts' = posts + 1
  BY DEF ReqFill, Goto
<1>2. idx[t] \in Slot /\ seqNo[idx[t]] # 0 /\ msg[idx[t]] = 0 /\ dest[idx[t]] = to[t]
  BY <1>0, <1>1 DEF DeliveryInv, Claims, Claimer
<1>3. posts + 1 # 0
  BY DEF DeliveryInv, TypeOK
<1>4. msg'[idx[t]] = posts + 1 /\ \A i \in Slot \ {idx[t]} : msg'[i] = msg[i]
  BY <1>1, <1>2 DEF DeliveryInv, TypeOK
<1>5. Filled' = Filled \cup {idx[t]} /\ idx[t] \notin Filled /\ Filled \subseteq Slot
  BY <1>1, <1>2, <1>3, <1>4 DEF Filled, Occupied
<1>6. InTransit' = InTransit \cup {<<to[t], posts + 1>>}
  BY <1>1, <1>2, <1>4, <1>5 DEF InTransit
<1>7. QED
  BY <1>2, <1>5, <1>6

\* Freeing a slot takes its message, and no other, out of transit.
LEMMA ClearDelivers ==
  ASSUME DeliveryInv, ~ torn, NEW t \in Module, AcceptClear(t)
  PROVE  /\ Filled' = Filled \ {entry[t]} /\ entry[t] \in Filled
         /\ InTransit' = InTransit \ {<<t, got[t]>>}
         /\ <<t, got[t]>> \in InTransit /\ got[t] \in 1 .. posts
<1>1. /\ UNCHANGED <<dest, posts>>
      /\ pc[t] = "accClear"
      /\ msg' = [msg EXCEPT ![entry[t]] = 0]
      /\ seqNo' = [seqNo EXCEPT ![entry[t]] = 0]
      /\ delivered' = Append(delivered, <<t, got[t]>>)
  BY DEF AcceptClear, Free, Goto
<1>2. entry[t] \in Filled /\ dest[entry[t]] = t /\ got[t] = msg[entry[t]]
  BY <1>1 DEF DeliveryInv, Picked
<1>3. entry[t] \in Slot /\ msg[entry[t]] # 0 /\ Filled \subseteq Slot
  BY <1>2 DEF Filled, Occupied
<1>4. /\ msg'[entry[t]] = 0
      /\ \A i \in Slot \ {entry[t]} : msg'[i] = msg[i] /\ seqNo'[i] = seqNo[i]
  BY <1>1, <1>3 DEF DeliveryInv, TypeOK
<1>5. Filled' = Filled \ {entry[t]}
  BY <1>1, <1>3, <1>4 DEF Filled, Occupied
<1>6. \A i \in Filled \ {entry[t]} : msg[i] # got[t]
  BY <1>2, <1>3 DEF DeliveryInv, Numbered
<1>7. InTransit' = InTransit \ {<<t, got[t]>>}
  BY <1>1, <1>2, <1>3, <1>4, <1>5, <1>6 DEF InTransit
<1>8. <<t, got[t]>> \in InTransit
  BY <1>2 DEF InTransit
<1>9. got[t] \in 1 .. posts
  BY <1>2, <1>3 DEF DeliveryInv, TypeOK, Numbered
<1>10. QED
  BY <1>2, <1>5, <1>7, <1>8, <1>9

\* Every other step leaves what is in transit alone.
LEMMA OthersKeep ==
  ASSUME DeliveryInv, [Next]_vars,
         \A t \in Module : ~ ReqFill(t) /\ ~ AcceptClear(t)
  PROVE  UNCHANGED <<Filled, InTransit, posts, delivered>>
<1> USE DEF queueVars, historyVars
<1> DEFINE Quiet == UNCHANGED <<Filled, InTransit, posts, delivered>>
<1>0. "reqClaim" \in Building /\ "reqAddress" \in Building
  BY DEF Building, Filling
<1>1. ASSUME NEW t \in Module, ReqClaim(t)
      PROVE  Quiet
  <2>1. /\ UNCHANGED <<dest, msg, posts, delivered>>
        /\ pc[t] = "reqClaim"
        /\ seqNo' = [seqNo EXCEPT ![idx[t]] = running]
    BY <1>1 DEF ReqClaim, Goto
  <2>2. msg[idx[t]] = 0
    BY <1>0, <2>1 DEF DeliveryInv, Claims, Claimer
  <2>3. Filled' = Filled
    BY <2>1, <2>2 DEF DeliveryInv, TypeOK, Filled, Occupied
  <2>4. QED
    BY <2>1, <2>3 DEF InTransit
<1>2. ASSUME NEW t \in Module, ReqAddress(t)
      PROVE  Quiet
  <2>1. /\ UNCHANGED <<seqNo, msg, posts, delivered>>
        /\ pc[t] = "reqAddress"
        /\ dest' = [dest EXCEPT ![idx[t]] = to[t]]
    BY <1>2 DEF ReqAddress, Goto
  <2>2. Filled' = Filled /\ idx[t] \notin Filled /\ Filled \subseteq Slot
    BY <1>0, <2>1 DEF DeliveryInv, Claims, Claimer, Filled, Occupied
  <2>3. \A i \in Filled : dest'[i] = dest[i]
    BY <2>1, <2>2 DEF DeliveryInv, TypeOK
  <2>4. QED
    BY <2>1, <2>2, <2>3 DEF InTransit
<1>3. ASSUME UNCHANGED <<seqNo, dest, msg, posts, delivered>>
      PROVE  Quiet
  BY <1>3 DEF InTransit, Filled, Occupied
<1>4. ASSUME NEW t \in Module, Req(t), ~ ReqFill(t), ~ ReqClaim(t), ~ ReqAddress(t)
      PROVE  UNCHANGED <<seqNo, dest, msg, posts, delivered>>
  BY <1>4 DEF Req, ReqCall, ReqTake, ReqFind, ReqFull, ReqCount, ReqWrap, ReqValid, ReqGive
<1>5. ASSUME NEW t \in Module, Accept(t), ~ AcceptClear(t)
      PROVE  UNCHANGED <<seqNo, dest, msg, posts, delivered>>
  BY <1>5 DEF Accept, AcceptCall, AcceptScan, AcceptNone, AcceptCopy, AcceptTake, AcceptValid,
     AcceptGive
<1>6. QED
  BY <1>1, <1>2, <1>3, <1>4, <1>5 DEF Next, GiveTrapsOwnerCheck, vars
-----------------------------------------------------------------------------
(***************************************************************************)
(* The counter.  It counts the filled slots but for the task between its   *)
(* change to a slot and its change to the counter, and it never wraps      *)
(* because there are at most 255 slots.                                    *)
(***************************************************************************)
Counted ==
  /\ \A t \in Module : pc[t] = "reqValid" => validMsg + 1 = Cardinality(Filled)
  /\ \A t \in Module : pc[t] = "accValid" => validMsg = Cardinality(Filled) + 1
  /\ (\A t \in Module : pc[t] \notin {"reqValid", "accValid"}) =>
       validMsg = Cardinality(Filled)

LEMMA SlotsFinite ==
  /\ IsFiniteSet(Slot) /\ Cardinality(Slot) <= 255
  /\ \A S \in SUBSET Slot : IsFiniteSet(S) /\ Cardinality(S) \in 0 .. 255
<1>1. IsFiniteSet(Slot) /\ Cardinality(Slot) <= 255
  BY Bounds, FS_Interval DEF Slot
<1>2. ASSUME NEW S \in SUBSET Slot PROVE IsFiniteSet(S) /\ Cardinality(S) \in 0 .. 255
  <2>1. IsFiniteSet(S) /\ Cardinality(S) <= Cardinality(Slot)
    BY <1>1, FS_Subset
  <2>2. Cardinality(S) \in Nat /\ Cardinality(Slot) \in Nat
    BY <1>1, <2>1, FS_CardinalityType
  <2>3. QED
    BY <1>1, <2>1, <2>2
<1>3. QED
  BY <1>1, <1>2

\* A step that touches neither the filled slots nor the counter, of a task that
\* is not about to change the counter before or after it.
LEMMA CountedFrame ==
  ASSUME TypeOK, Counted, NEW t \in Module, NEW from, NEW label, Goto(t, from, label),
         from \notin {"reqValid", "accValid"}, label \notin {"reqValid", "accValid"},
         UNCHANGED <<Filled, validMsg>>
  PROVE  Counted'
BY OneMoves DEF Counted

LEMMA CountedStep ==
  ASSUME DeliveryInv, ~ torn, Counted, [Next]_vars
  PROVE  Counted'
<1> USE DEF queueVars, historyVars
<1>0. TypeOK /\ MutualExclusion
  BY DEF DeliveryInv
<1>1. Filled \subseteq Slot /\ Filled' \subseteq Slot
  BY DEF Filled, Occupied
<1>2. IsFiniteSet(Filled) /\ Cardinality(Filled) \in 0 .. 255 /\ Cardinality(Filled') \in 0 .. 255
  BY <1>1, SlotsFinite
<1>3. "reqValid" \in Critical /\ "accValid" \in Critical
  BY Inside
<1>4. ASSUME NEW t \in Module, ReqFill(t) PROVE Counted'
  <2>1. Filled' = Filled \cup {idx[t]} /\ idx[t] \notin Filled
    BY <1>4, FillPosts
  <2>2. Cardinality(Filled') = Cardinality(Filled) + 1
    BY <1>2, <2>1, FS_AddElement
  <2>3. /\ UNCHANGED validMsg /\ pc[t] = "reqFill" /\ pc'[t] = "reqValid"
        /\ \A u \in Module \ {t} : pc[u] \notin Critical /\ pc'[u] = pc[u]
    BY <1>0, <1>4, Inside, AloneInside DEF ReqFill
  <2>4. \A u \in Module : pc[u] \notin {"reqValid", "accValid"}
    BY <1>3, <2>3
  <2>5. validMsg' + 1 = Cardinality(Filled')
    BY <2>2, <2>3, <2>4 DEF Counted
  <2>6. \A u \in Module : pc'[u] # "accValid"
    BY <1>3, <2>3
  <2>7. QED
    BY <2>3, <2>5, <2>6 DEF Counted
<1>5. ASSUME NEW t \in Module, ReqValid(t) PROVE Counted'
  <2>1. /\ validMsg' = (validMsg + 1) % 256 /\ pc[t] = "reqValid" /\ pc'[t] = "reqGive"
        /\ \A u \in Module \ {t} : pc[u] \notin Critical /\ pc'[u] = pc[u]
    BY <1>0, <1>5, Inside, AloneInside DEF ReqValid
  <2>2. Filled' = Filled
    BY <1>5 DEF ReqValid, Filled, Occupied
  <2>3. validMsg + 1 = Cardinality(Filled) /\ validMsg \in 0 .. 255
    BY <1>0, <2>1 DEF Counted, TypeOK
  <2>4. validMsg' = Cardinality(Filled)
    BY <1>2, <2>1, <2>3
  <2>5. \A u \in Module : pc'[u] \notin {"reqValid", "accValid"}
    BY <1>3, <2>1
  <2>6. QED
    BY <2>2, <2>4, <2>5 DEF Counted
<1>6. ASSUME NEW t \in Module, AcceptClear(t) PROVE Counted'
  <2>1. Filled' = Filled \ {entry[t]} /\ entry[t] \in Filled
    BY <1>6, ClearDelivers
  <2>2. Cardinality(Filled') = Cardinality(Filled) - 1
    BY <1>2, <2>1, FS_RemoveElement
  <2>3. /\ UNCHANGED validMsg /\ pc[t] = "accClear" /\ pc'[t] = "accValid"
        /\ \A u \in Module \ {t} : pc[u] \notin Critical /\ pc'[u] = pc[u]
    BY <1>0, <1>6, Inside, AloneInside DEF AcceptClear
  <2>4. \A u \in Module : pc[u] \notin {"reqValid", "accValid"}
    BY <1>3, <2>3
  <2>5. validMsg' = Cardinality(Filled') + 1
    BY <1>2, <2>2, <2>3, <2>4 DEF Counted
  <2>6. \A u \in Module : pc'[u] # "reqValid"
    BY <1>3, <2>3
  <2>7. QED
    BY <2>3, <2>5, <2>6 DEF Counted
<1>7. ASSUME NEW t \in Module, AcceptValid(t) PROVE Counted'
  <2>1. /\ validMsg' = Discounted(validMsg) /\ pc[t] = "accValid" /\ pc'[t] = "accGive"
        /\ \A u \in Module \ {t} : pc[u] \notin Critical /\ pc'[u] = pc[u]
    BY <1>0, <1>7, Inside, AloneInside DEF AcceptValid
  <2>2. Filled' = Filled
    BY <1>7 DEF AcceptValid, Filled, Occupied
  <2>3. validMsg = Cardinality(Filled) + 1
    BY <2>1 DEF Counted
  <2>4. validMsg' = Cardinality(Filled)
    BY <1>2, <2>1, <2>3 DEF Discounted
  <2>5. \A u \in Module : pc'[u] \notin {"reqValid", "accValid"}
    BY <1>3, <2>1
  <2>6. QED
    BY <2>2, <2>4, <2>5 DEF Counted
<1>8. ASSUME \A t \in Module : /\ ~ ReqFill(t) /\ ~ ReqValid(t)
                               /\ ~ AcceptClear(t) /\ ~ AcceptValid(t)
      PROVE  Counted'
  <2> DEFINE Other == Label \ {"reqValid", "accValid"}
  <2>1. UNCHANGED Filled
    BY <1>8, OthersKeep
  <2>2. /\ {"idle", "reqTake", "reqFind", "reqClaim", "reqGive"} \subseteq Other
        /\ {"reqCount", "reqWrap", "reqAddress", "reqFill"} \subseteq Other
        /\ {"scan", "accTake", "accClear", "accGive"} \subseteq Other
    BY Labels
  <2> HIDE DEF Other
  <2>3. ASSUME NEW t \in Module, Req(t)
        PROVE  UNCHANGED validMsg /\ \E from, label \in Other : Goto(t, from, label)
    BY <1>8, <2>2, <2>3 DEF Req, ReqCall, ReqTake, ReqFind, ReqFull, ReqClaim, ReqCount, ReqWrap,
       ReqAddress, ReqGive, Return
  <2>4. ASSUME NEW t \in Module, Accept(t)
        PROVE  UNCHANGED validMsg /\ \E from, label \in Other : Goto(t, from, label)
    BY <1>8, <2>2, <2>4 DEF Accept, AcceptCall, AcceptScan, AcceptNone, AcceptCopy, AcceptTake,
       AcceptGive, Return
  <2>5. ASSUME NEW t \in Module, Req(t) \/ Accept(t) PROVE Counted'
    BY <1>0, <2>1, <2>3, <2>4, <2>5, CountedFrame DEF Other
  <2>6. CASE UNCHANGED <<pc, validMsg>>
    BY <2>1, <2>6 DEF Counted
  <2> QED
    BY <2>5, <2>6 DEF Next, GiveTrapsOwnerCheck, vars, taskVars
<1> QED
  BY <1>4, <1>5, <1>6, <1>7, <1>8

\* Whenever no task is inside a critical section, the counter that gates every
\* accept equals the number of occupied slots, until a scan takes up a half-made
\* slot: no message hides behind a zero.
THEOREM CounterExact ==
  ASSUME ~ TakeMayTimeOut
  PROVE  Spec => []CountExact
<1>1. ASSUME Init PROVE torn \/ Counted
  <2>1. Filled = {}
    BY <1>1 DEF Init, Filled, Occupied
  <2>2. QED
    BY <1>1, <2>1, FS_EmptySet DEF Counted, Init
<1>2. DeliveryInv /\ (torn \/ Counted) => CountExact
  <2> SUFFICES ASSUME DeliveryInv, Counted, \A t \in Module : pc[t] \notin Critical
               PROVE  validMsg = Cardinality(Occupied)
    BY DEF CountExact
  <2>1. Filled = Occupied
    BY Inside DEF DeliveryInv, Claims, PartialIsClaimed, HalfMade, Filled, Occupied
  <2>2. \A t \in Module : pc[t] \notin {"reqValid", "accValid"}
    BY Inside
  <2>3. QED
    BY <2>1, <2>2 DEF Counted
<1>3. DeliveryInv /\ (torn \/ Counted) /\ [Next]_vars => (torn \/ Counted)'
  BY CountedStep, TornStays
<1>4. QED
  BY <1>1, <1>2, <1>3, DeliveryInvariant, PTL DEF Spec
=============================================================================
