------------------------ MODULE MailboxOrderProofs -------------------------
(***************************************************************************)
(* Sequence numbers make the slots a queue, for every number of tasks,     *)
(* slots and posts, as long as takes of the mutex do not time out.  No     *)
(* slot is overwritten, and until the numbers run out the number of a slot *)
(* is the number of its post, so all are different (Numbers).  Until a     *)
(* scan takes up a half-made slot, every scan finds the oldest message:    *)
(* what waited when it began stays in its slot until the scanning task     *)
(* itself frees it, and the best number so far bounds all the slots it has *)
(* passed (Scanned).  With that the mailbox implements module Delivery.    *)
(***************************************************************************)
EXTENDS MailboxProofs

\* As long as the numbers last, the next post's number is the running one, and
\* a message's number is that of its slot.
Numbers ==
  /\ posts + 1 < MaxSeq =>
       /\ (\A t \in Module : pc[t] \notin Filling) => running = posts + 1
       /\ \A t \in Module :
            /\ pc[t] \in Filling => seqNo[idx[t]] = posts + 1
            /\ pc[t] = "reqCount" => running = posts + 1
            /\ pc[t] = "reqWrap" => running = posts + 2
            /\ pc[t] \in {"reqAddress", "reqFill"} /\ posts + 2 < MaxSeq =>
                 running = posts + 2
  /\ posts < MaxSeq => \A i \in Filled : seqNo[i] = msg[i]

\* A step that leaves numbers, messages and the tasks that are filling alone.
LEMMA NumbersFrame ==
  ASSUME TypeOK, Numbers, NEW t \in Module, NEW from, from \notin Filling,
         NEW label, label \notin Filling, Goto(t, from, label),
         UNCHANGED <<seqNo, msg, running, posts>>,
         \A u \in Module \ {t} : idx'[u] = idx[u]
  PROVE  Numbers'
<1>1. pc[t] = from /\ pc'[t] = label /\ \A u \in Module \ {t} : pc'[u] = pc[u]
  BY OneMoves
<1>2. \A u \in Module : /\ pc'[u] \in Filling <=> pc[u] \in Filling
                        /\ pc'[u] \in Filling => u # t /\ idx'[u] = idx[u] /\ pc'[u] = pc[u]
  BY <1>1
<1>3. {"reqCount", "reqWrap", "reqAddress", "reqFill"} = Filling
  BY DEF Filling
<1>4. Filled' = Filled
  BY DEF Filled, Occupied
<1> QED
  BY <1>2, <1>3, <1>4 DEF Numbers

\* A step of a post between the number and the contents of its slot.
LEMMA NumbersOnward ==
  ASSUME DeliveryInv, Numbers, NEW t \in Module,
         ReqCount(t) \/ ReqWrap(t) \/ ReqAddress(t)
  PROVE  Numbers'
<1> USE DEF queueVars, historyVars
<1>0. TypeOK /\ MutualExclusion /\ posts \in Nat /\ MaxSeq \in Nat /\ running \in Nat
  BY Bounds DEF DeliveryInv, TypeOK
<1>1. /\ UNCHANGED <<seqNo, msg, posts, idx>>
      /\ \/ Goto(t, "reqCount", "reqWrap") /\ running' = NextSeq(running)
         \/ Goto(t, "reqWrap", "reqAddress") /\ running' = Wrapped(running)
         \/ Goto(t, "reqAddress", "reqFill") /\ running' = running
  BY DEF ReqCount, ReqWrap, ReqAddress
<1>2. /\ \/ pc[t] = "reqCount" /\ pc'[t] = "reqWrap" /\ running' = NextSeq(running)
         \/ pc[t] = "reqWrap" /\ pc'[t] = "reqAddress" /\ running' = Wrapped(running)
         \/ pc[t] = "reqAddress" /\ pc'[t] = "reqFill" /\ running' = running
      /\ \A u \in Module \ {t} : pc[u] \notin Critical /\ pc'[u] = pc[u]
  BY <1>0, <1>1, Inside, AloneInside
<1>3. {"reqCount", "reqWrap", "reqAddress", "reqFill"} = Filling /\ Filling \subseteq Critical
  BY Inside DEF Filling
<1>4. \A u \in Module \ {t} : pc'[u] \notin Filling
  BY <1>2, <1>3
<1>5. pc[t] \in Filling /\ pc'[t] \in Filling
  BY <1>2, <1>3
<1>6. Filled' = Filled
  BY <1>1 DEF Filled, Occupied
<1>7. posts + 1 < MaxSeq =>
        /\ seqNo'[idx[t]] = posts + 1
        /\ pc'[t] = "reqWrap" => running' = posts + 2
        /\ pc'[t] \in {"reqAddress", "reqFill"} /\ posts + 2 < MaxSeq => running' = posts + 2
        /\ pc'[t] # "reqCount"
  <2> SUFFICES ASSUME posts + 1 < MaxSeq
               PROVE  /\ seqNo'[idx[t]] = posts + 1
                      /\ pc'[t] = "reqWrap" => running' = posts + 2
                      /\ pc'[t] \in {"reqAddress", "reqFill"} /\ posts + 2 < MaxSeq =>
                           running' = posts + 2
                      /\ pc'[t] # "reqCount"
    OBVIOUS
  <2>1. seqNo'[idx[t]] = posts + 1
    BY <1>1, <1>5 DEF Numbers
  <2>2. CASE pc[t] = "reqCount"
    BY <1>0, <1>2, <2>1, <2>2 DEF Numbers, NextSeq
  <2>3. CASE pc[t] = "reqWrap"
    BY <1>0, <1>2, <2>1, <2>3 DEF Numbers, Wrapped
  <2>4. CASE pc[t] = "reqAddress"
    BY <1>2, <2>1, <2>4 DEF Numbers
  <2> QED
    BY <1>2, <2>2, <2>3, <2>4
<1> QED
  BY <1>1, <1>3, <1>4, <1>5, <1>6, <1>7 DEF Numbers

LEMMA NumbersStep ==
  ASSUME DeliveryInv, Numbers, [Next]_vars
  PROVE  Numbers'
<1> USE DEF queueVars, historyVars
<1>0. /\ TypeOK /\ MutualExclusion /\ Claims
      /\ posts \in Nat /\ MaxSeq \in Nat /\ DOMAIN idx = Module
  BY Bounds DEF DeliveryInv, TypeOK
<1>1. /\ {"reqCount", "reqWrap", "reqAddress", "reqFill"} = Filling /\ Filling \subseteq Critical
      /\ Filling \subseteq Building /\ "reqClaim" \in Building
  BY Inside DEF Filling, Building
<1>2. ASSUME NEW t \in Module, ReqClaim(t) PROVE Numbers'
  <2>1. /\ UNCHANGED <<msg, posts, idx, running>>
        /\ pc[t] = "reqClaim" /\ pc'[t] = "reqCount"
        /\ seqNo' = [seqNo EXCEPT ![idx[t]] = running]
        /\ \A u \in Module \ {t} : pc[u] \notin Critical /\ pc'[u] = pc[u]
    BY <1>0, <1>2, Inside, AloneInside DEF ReqClaim
  <2>2. idx[t] \in Slot /\ msg[idx[t]] = 0
    BY <1>0, <1>1, <2>1 DEF Claims, Claimer
  <2>3. seqNo'[idx[t]] = running /\ \A i \in Slot \ {idx[t]} : seqNo'[i] = seqNo[i]
    BY <1>0, <2>1, <2>2 DEF TypeOK
  <2>4. (\A u \in Module : pc[u] \notin Filling) /\ \A u \in Module \ {t} : pc'[u] \notin Filling
    BY <1>1, <2>1
  <2>5. posts + 1 < MaxSeq => running = posts + 1
    BY <2>4 DEF Numbers
  <2>6. \A i \in Filled' : i \in Filled /\ seqNo'[i] = seqNo[i] /\ msg'[i] = msg[i]
    BY <2>1, <2>2, <2>3 DEF Filled, Occupied
  <2> QED
    BY <1>1, <2>1, <2>3, <2>4, <2>5, <2>6 DEF Numbers
<1>3. ASSUME NEW t \in Module, ReqCount(t) \/ ReqWrap(t) \/ ReqAddress(t) PROVE Numbers'
  BY <1>3, NumbersOnward
<1>4. ASSUME NEW t \in Module, ReqFill(t) PROVE Numbers'
  <2>1. /\ UNCHANGED <<seqNo, running, idx>>
        /\ pc[t] = "reqFill" /\ pc'[t] = "reqValid"
        /\ msg' = [msg EXCEPT ![idx[t]] = posts + 1] /\ posts' = posts + 1
        /\ \A u \in Module \ {t} : pc[u] \notin Critical /\ pc'[u] = pc[u]
    BY <1>0, <1>4, Inside, AloneInside DEF ReqFill
  <2>2. idx[t] \in Slot /\ msg[idx[t]] = 0 /\ pc[t] \in Filling
    BY <1>0, <1>1, <2>1 DEF Claims, Claimer
  <2>3. \A u \in Module : pc'[u] \notin Filling
    BY <1>1, <2>1
  <2>4. posts' + 1 < MaxSeq => running' = posts' + 1
    BY <1>0, <2>1, <2>2 DEF Numbers
  <2>5. ASSUME posts' < MaxSeq, NEW i \in Filled' PROVE seqNo'[i] = msg'[i]
    <3>1. CASE i = idx[t]
      <4>1. posts + 1 < MaxSeq
        BY <2>1, <2>5
      <4>2. msg'[i] = posts + 1
        BY <1>0, <2>1, <2>2, <3>1 DEF TypeOK
      <4> QED
        BY <2>1, <2>2, <3>1, <4>1, <4>2 DEF Numbers
    <3>2. CASE i # idx[t]
      <4>1. msg'[i] = msg[i] /\ i \in Filled
        BY <1>0, <2>1, <2>5, <3>2 DEF Filled, Occupied, TypeOK
      <4> QED
        BY <1>0, <2>1, <2>5, <4>1 DEF Numbers
    <3> QED
      BY <3>1, <3>2
  <2> QED
    BY <1>1, <2>3, <2>4, <2>5 DEF Numbers
<1>5. ASSUME NEW t \in Module, AcceptClear(t) PROVE Numbers'
  <2>1. /\ UNCHANGED <<running, posts, idx>>
        /\ pc[t] = "accClear" /\ pc'[t] = "accValid"
        /\ msg' = [msg EXCEPT ![entry[t]] = 0] /\ seqNo' = [seqNo EXCEPT ![entry[t]] = 0]
        /\ \A u \in Module \ {t} : pc[u] \notin Critical /\ pc'[u] = pc[u]
    BY <1>0, <1>5, Inside, AloneInside DEF AcceptClear, Free
  <2>2. \A u \in Module : pc[u] \notin Filling /\ pc'[u] \notin Filling
    BY <1>1, <2>1
  <2>3. \A i \in Filled' : i \in Filled /\ seqNo'[i] = seqNo[i] /\ msg'[i] = msg[i]
    BY <1>0, <2>1 DEF Filled, Occupied, TypeOK
  <2> QED
    BY <1>1, <2>1, <2>2, <2>3 DEF Numbers
<1>6. ASSUME NEW t \in Module, Req(t) PROVE Numbers'
  <2>0. {"idle", "reqTake", "reqFind", "reqClaim", "reqValid", "reqGive"} \cap Filling = {}
    BY DEF Filling
  <2>1. ASSUME NEW d \in Module, ReqCall(t, d) PROVE Numbers'
    BY <1>0, <2>0, <2>1, NumbersFrame DEF ReqCall
  <2>2. CASE ReqTake(t)
    BY <1>0, <2>0, <2>2, NumbersFrame DEF ReqTake
  <2>3. CASE ReqFind(t)
    <3>1. \A u \in Module \ {t} : idx'[u] = idx[u]
      BY <1>0, <2>3 DEF ReqFind
    <3> QED
      BY <1>0, <2>0, <2>3, <3>1, NumbersFrame DEF ReqFind
  <2>4. CASE ReqFull(t)
    BY <1>0, <2>0, <2>4, NumbersFrame DEF ReqFull
  <2>5. CASE ReqValid(t)
    BY <1>0, <2>0, <2>5, NumbersFrame DEF ReqValid
  <2>6. CASE ReqGive(t)
    <3>1. \A u \in Module \ {t} : idx'[u] = idx[u]
      BY <1>0, <2>6 DEF ReqGive, Return
    <3> QED
      BY <1>0, <2>0, <2>6, <3>1, NumbersFrame DEF ReqGive, Return
  <2> QED
    BY <1>2, <1>3, <1>4, <1>6, <2>1, <2>2, <2>3, <2>4, <2>5, <2>6 DEF Req
<1>7. ASSUME NEW t \in Module, Accept(t), ~ AcceptClear(t) PROVE Numbers'
  <2>0. {"idle", "scan", "accTake", "accClear", "accValid", "accGive"} \cap Filling = {}
    BY DEF Filling
  <2>1. \A u \in Module \ {t} : idx'[u] = idx[u]
    BY <1>0, <1>7 DEF Accept, AcceptCall, AcceptScan, AcceptNone, AcceptCopy, AcceptTake,
       AcceptValid, AcceptGive, Return
  <2>2. CASE AcceptCall(t) \/ AcceptScan(t)
    BY <1>0, <2>0, <2>1, <2>2, NumbersFrame DEF AcceptCall, AcceptScan
  <2>3. CASE AcceptNone(t) \/ AcceptGive(t)
    BY <1>0, <2>0, <2>1, <2>3, NumbersFrame DEF AcceptNone, AcceptGive, Return
  <2>4. CASE AcceptCopy(t) \/ AcceptTake(t) \/ AcceptValid(t)
    BY <1>0, <2>0, <2>1, <2>4, NumbersFrame DEF AcceptCopy, AcceptTake, AcceptValid
  <2> QED
    BY <1>7, <2>2, <2>3, <2>4 DEF Accept
<1>8. CASE UNCHANGED <<queueVars, pc, idx, posts>>
  BY <1>8 DEF Numbers, Filled, Occupied
<1> QED
  BY <1>5, <1>6, <1>7, <1>8 DEF Next, GiveTrapsOwnerCheck, vars, taskVars
-----------------------------------------------------------------------------
OrderInv == DeliveryInv /\ Numbers

LEMMA OrderInvariant ==
  ASSUME ~ TakeMayTimeOut
  PROVE  Spec => []OrderInv
<1>1. ASSUME Init PROVE Numbers
  BY <1>1 DEF Init, Numbers, Filling, Filled, Occupied
<1>2. DeliveryInv /\ Numbers /\ [Next]_vars => Numbers'
  BY NumbersStep
<1> QED
  BY <1>1, <1>2, DeliveryInvariant, PTL DEF Spec, OrderInv

LEMMA UniqueWhileTheyLast ==
  ASSUME OrderInv, posts + 1 < MaxSeq, NEW i \in Occupied, NEW j \in Occupied,
         seqNo[i] = seqNo[j]
  PROVE  i = j
<1>0. /\ posts \in Nat /\ MaxSeq \in Nat /\ msg \in [Slot -> Nat] /\ Filled \subseteq Slot
      /\ Claims /\ Numbered /\ MutualExclusion /\ Numbers
  BY Bounds DEF OrderInv, DeliveryInv, TypeOK, Filled, Occupied
<1>1. /\ \A t \in Module : pc[t] \in Filling => seqNo[idx[t]] = posts + 1
      /\ \A k \in Filled : seqNo[k] = msg[k] /\ msg[k] <= posts
  BY <1>0 DEF Numbers, Numbered, Filled, Occupied
<1>2. \A k \in Occupied : k \in Slot /\ (k \notin Filled => HalfMade(k))
  BY <1>0 DEF Claims, PartialIsClaimed, Filled, Occupied
<1>3. \A k \in Occupied : k \notin Filled => seqNo[k] = posts + 1
  BY <1>1, <1>2 DEF HalfMade
<1>4. CASE i \in Filled /\ j \in Filled
  <2>1. msg[i] = msg[j] /\ msg[i] # 0
    BY <1>0, <1>1, <1>4 DEF Filled
  <2> QED
    BY <1>0, <1>1, <1>4, <2>1 DEF Numbered
<1>5. CASE i \in Filled /\ j \notin Filled
  BY <1>0, <1>1, <1>2, <1>3, <1>5
<1>6. CASE i \notin Filled /\ j \in Filled
  BY <1>0, <1>1, <1>2, <1>3, <1>6
<1>7. CASE i \notin Filled /\ j \notin Filled
  <2>1. PICK t \in Module : pc[t] \in Filling /\ idx[t] = i
    BY <1>2, <1>7 DEF HalfMade
  <2>2. PICK u \in Module : pc[u] \in Filling /\ idx[u] = j
    BY <1>2, <1>7 DEF HalfMade
  <2>3. t = u
    BY <1>0, <2>1, <2>2, Inside DEF MutualExclusion
  <2> QED
    BY <2>1, <2>2, <2>3
<1> QED
  BY <1>4, <1>5, <1>6, <1>7

\* While the numbers last (mailbox_main.c:87: while fewer than MaxSeq - 1 posts
\* were made), two occupied slots never carry the same.
THEOREM UniqueNumbers ==
  ASSUME ~ TakeMayTimeOut
  PROVE  Spec => []SeqUnique
<1>1. OrderInv => SeqUnique
  BY UniqueWhileTheyLast DEF SeqUnique
<1> QED
  BY <1>1, OrderInvariant, PTL

\* An occupied slot keeps its number until it is freed, a filled one its message.
Kept ==
  \A i \in Slot :
    /\ seqNo[i] # 0 => seqNo'[i] \in {0, seqNo[i]}
    /\ msg[i] # 0 => msg'[i] \in {0, msg[i]}

LEMMA KeptStep ==
  ASSUME TypeOK, Claims, [Next]_vars
  PROVE  Kept
<1> USE DEF queueVars, historyVars, Kept
<1>0. /\ seqNo \in [Slot -> 0 .. MaxSeq] /\ msg \in [Slot -> Nat]
      /\ "reqClaim" \in Building /\ "reqFill" \in Building
  BY DEF TypeOK, Building, Filling
<1>1. ASSUME NEW t \in Module, Req(t) PROVE Kept
  <2>1. CASE ReqClaim(t)
    <3>1. seqNo' = [seqNo EXCEPT ![idx[t]] = running] /\ UNCHANGED msg /\ seqNo[idx[t]] = 0
      BY <1>0, <2>1 DEF ReqClaim, Goto, Claims, Claimer
    <3> QED
      BY <1>0, <3>1
  <2>2. CASE ReqFill(t)
    <3>1. msg' = [msg EXCEPT ![idx[t]] = posts + 1] /\ UNCHANGED seqNo /\ msg[idx[t]] = 0
      BY <1>0, <2>2 DEF ReqFill, Goto, Claims, Claimer
    <3> QED
      BY <1>0, <3>1
  <2>3. CASE ~ ReqClaim(t) /\ ~ ReqFill(t)
    <3>1. UNCHANGED <<seqNo, msg>>
      BY <1>1, <2>3 DEF Req, ReqCall, ReqTake, ReqFind, ReqFull, ReqCount, ReqWrap, ReqAddress,
         ReqValid, ReqGive
    <3> QED
      BY <3>1
  <2> QED
    BY <2>1, <2>2, <2>3
<1>2. ASSUME NEW t \in Module, Accept(t) PROVE Kept
  <2>1. CASE AcceptClear(t)
    <3>1. seqNo' = [seqNo EXCEPT ![entry[t]] = 0] /\ msg' = [msg EXCEPT ![entry[t]] = 0]
      BY <2>1 DEF AcceptClear, Free
    <3> QED
      BY <1>0, <3>1
  <2>2. CASE ~ AcceptClear(t)
    <3>1. UNCHANGED <<seqNo, msg>>
      BY <1>2, <2>2 DEF Accept, AcceptCall, AcceptScan, AcceptNone, AcceptCopy, AcceptTake,
         AcceptValid, AcceptGive
    <3> QED
      BY <3>1
  <2> QED
    BY <2>1, <2>2
<1>3. CASE UNCHANGED <<seqNo, msg>>
  BY <1>3
<1> QED
  BY <1>1, <1>2, <1>3 DEF Next, GiveTrapsOwnerCheck, vars

\* A post never lands in a slot that is still occupied, task switches inside
\* the critical section included (mailbox_main.c:81).
THEOREM NothingOverwritten ==
  ASSUME ~ TakeMayTimeOut
  PROVE  Spec => NoOverwrite
<1>1. DeliveryInv /\ [Next]_vars => [Kept]_vars
  BY KeptStep DEF DeliveryInv
<1> QED
  BY <1>1, DeliveryInvariant, PTL DEF Spec, NoOverwrite, Kept
-----------------------------------------------------------------------------
(***************************************************************************)
(* The scan.                                                               *)
(***************************************************************************)
Looking == {"scan", "accTake", "accClear"}

\* The slots of the messages that waited for t when its scan began.
Waiting(t) == {j \in Filled : dest[j] = t /\ msg[j] \in due[t]}

Scanning(t) ==
  /\ \A n \in due[t] : \E j \in Waiting(t) : msg[j] = n
  /\ \A j \in Waiting(t) : j < idx[t] => entry[t] # NoEntry /\ minSeq[t] <= seqNo[j]
  /\ minSeq[t] = IF entry[t] = NoEntry THEN MaxSeq ELSE seqNo[entry[t]]

Accepting(t) ==
  /\ pc[t] = "idle" => idx[t] = 0 /\ minSeq[t] = MaxSeq
  /\ pc[t] \in {"accTake", "accClear"} => idx[t] = NSlots
  /\ pc[t] \in Looking => Scanning(t)

Scanned == \A t \in Module : Accepting(t)

\* A filled slot changes only when its addressee frees it, and a slot that is
\* filled by a step holds a message newer than all before.
LEMMA OwnSlotsKept ==
  ASSUME DeliveryInv, ~ torn, [Next]_vars, NEW u \in Module, ~ AcceptClear(u), NEW j \in Slot
  PROVE  /\ j \in Filled /\ dest[j] = u =>
              j \in Filled' /\ dest'[j] = u /\ msg'[j] = msg[j] /\ seqNo'[j] = seqNo[j]
         /\ j \in Filled' /\ msg'[j] <= posts =>
              j \in Filled /\ dest'[j] = dest[j] /\ msg'[j] = msg[j]
<1> USE DEF queueVars, historyVars, Filled, Occupied
<1>0. /\ seqNo \in [Slot -> 0 .. MaxSeq] /\ dest \in [Slot -> Module] /\ msg \in [Slot -> Nat]
      /\ Claims /\ Picked /\ posts \in Nat
      /\ "reqClaim" \in Building /\ "reqAddress" \in Building /\ "reqFill" \in Building
  BY DEF DeliveryInv, TypeOK, Building, Filling
<1>1. CASE UNCHANGED <<seqNo, dest, msg>>
  BY <1>1
<1>2. ASSUME NEW t \in Module, ReqClaim(t) \/ ReqAddress(t) \/ ReqFill(t)
      PROVE  /\ msg[idx[t]] = 0 /\ \A i \in Slot \ {idx[t]} : /\ seqNo'[i] = seqNo[i]
                                                             /\ dest'[i] = dest[i]
                                                             /\ msg'[i] = msg[i]
             /\ msg'[idx[t]] \in {0, posts + 1}
  <2>1. idx[t] \in Slot /\ msg[idx[t]] = 0
    BY <1>0, <1>2 DEF ReqClaim, ReqAddress, ReqFill, Goto, Claims, Claimer
  <2>2. CASE ReqClaim(t)
    BY <1>0, <2>1, <2>2 DEF ReqClaim
  <2>3. CASE ReqAddress(t)
    BY <1>0, <2>1, <2>3 DEF ReqAddress
  <2>4. CASE ReqFill(t)
    BY <1>0, <2>1, <2>4 DEF ReqFill
  <2> QED
    BY <1>2, <2>2, <2>3, <2>4
<1>3. ASSUME NEW t \in Module, ReqClaim(t) \/ ReqAddress(t) \/ ReqFill(t)
      PROVE  /\ j \in Filled => j # idx[t]
             /\ j \in Filled' /\ msg'[j] <= posts => j # idx[t]
  BY <1>0, <1>2, <1>3
<1>4. ASSUME NEW t \in Module, AcceptClear(t)
      PROVE  /\ dest' = dest /\ t # u /\ dest[entry[t]] = t
             /\ seqNo' = [seqNo EXCEPT ![entry[t]] = 0] /\ msg' = [msg EXCEPT ![entry[t]] = 0]
  BY <1>0, <1>4 DEF AcceptClear, Free, Goto, Picked
<1>5. ASSUME NEW t \in Module, Req(t), ~ ReqClaim(t), ~ ReqAddress(t), ~ ReqFill(t)
      PROVE  UNCHANGED <<seqNo, dest, msg>>
  BY <1>5 DEF Req, ReqCall, ReqTake, ReqFind, ReqFull, ReqCount, ReqWrap, ReqValid, ReqGive
<1>6. ASSUME NEW t \in Module, Accept(t), ~ AcceptClear(t)
      PROVE  UNCHANGED <<seqNo, dest, msg>>
  BY <1>6 DEF Accept, AcceptCall, AcceptScan, AcceptNone, AcceptCopy, AcceptTake, AcceptValid,
     AcceptGive
<1>7. CASE \E t \in Module : ReqClaim(t) \/ ReqAddress(t) \/ ReqFill(t)
  BY <1>2, <1>3, <1>7
<1>8. CASE \E t \in Module : AcceptClear(t)
  BY <1>0, <1>4, <1>8
<1> QED
  BY <1>1, <1>5, <1>6, <1>7, <1>8 DEF Next, GiveTrapsOwnerCheck, vars

\* So the messages that wait for a scan stay where they are, and so does the
\* one it has picked.
LEMMA ScanningKept ==
  ASSUME DeliveryInv, ~ torn, [Next]_vars, NEW u \in Module, ~ AcceptClear(u), Scanning(u),
         pc[u] \in Looking, due'[u] = due[u]
  PROVE  /\ Waiting(u)' = Waiting(u)
         /\ \A j \in Waiting(u) : msg'[j] = msg[j] /\ seqNo'[j] = seqNo[j]
         /\ entry[u] # NoEntry => seqNo'[entry[u]] = seqNo[entry[u]]
<1>1. \A n \in due[u] : n <= posts
  BY DEF Scanning, Waiting, DeliveryInv, Numbered, Filled, Occupied
<1>2. \A j \in Waiting(u) : j \in Slot /\ j \in Filled /\ dest[j] = u
  BY DEF Waiting, Filled, Occupied
<1>3. \A j \in Waiting(u)' : j \in Slot /\ j \in Filled' /\ msg'[j] \in due[u] /\ dest'[j] = u
  BY DEF Waiting, Filled, Occupied
<1>4. \A j \in Waiting(u) : j \in Waiting(u)' /\ msg'[j] = msg[j] /\ seqNo'[j] = seqNo[j]
  BY <1>2, OwnSlotsKept DEF Waiting
<1>5. \A j \in Waiting(u)' : j \in Waiting(u)
  BY <1>1, <1>3, OwnSlotsKept DEF Waiting
<1>6. entry[u] # NoEntry => entry[u] \in Slot /\ entry[u] \in Filled /\ dest[entry[u]] = u
  BY DEF DeliveryInv, Picked, Looking, Filled, Occupied
<1> QED
  BY <1>4, <1>5, <1>6, OwnSlotsKept

LEMMA ScanFrame ==
  ASSUME DeliveryInv, ~ torn, [Next]_vars, NEW u \in Module, ~ AcceptClear(u), Accepting(u),
         pc'[u] = pc[u], idx'[u] = idx[u], entry'[u] = entry[u], minSeq'[u] = minSeq[u],
         due'[u] = due[u]
  PROVE  Accepting(u)'
<1>1. ASSUME pc[u] \in Looking PROVE Scanning(u)'
  BY <1>1, ScanningKept DEF Accepting, Scanning
<1> QED
  BY <1>1 DEF Accepting

\* One turn of the loop keeps the best number of the slots passed.
LEMMA ScanTurn ==
  ASSUME DeliveryInv, NEW t \in Module, Accepting(t), AcceptScan(t)
  PROVE  Accepting(t)'
<1> USE DEF queueVars, historyVars
<1>1. /\ UNCHANGED <<seqNo, dest, msg, due>> /\ pc[t] = "scan" /\ pc'[t] = "scan"
      /\ idx[t] \in Slot /\ idx'[t] = idx[t] + 1
  <2>1. TypeOK /\ NSlots \in Nat
    BY Bounds DEF DeliveryInv
  <2>2. idx[t] \in Slot
    BY <2>1 DEF AcceptScan, TypeOK, Slot
  <2> QED
    BY <2>1, <2>2 DEF AcceptScan, TypeOK, Goto
<1>2. /\ seqNo \in [Slot -> 0 .. MaxSeq] /\ MaxSeq \in Nat /\ minSeq[t] \in 0 .. MaxSeq
      /\ entry \in [Module -> Slot \cup {NoEntry}] /\ DOMAIN minSeq = Module
  BY Bounds DEF DeliveryInv, TypeOK
<1>3. Waiting(t)' = Waiting(t) /\ Waiting(t) \subseteq Slot
  BY <1>1 DEF Waiting, Filled, Occupied
<1>4. Scanning(t)
  BY <1>1 DEF Accepting, Looking
<1>5. CASE Older(t, idx[t])
  <2>1. entry'[t] = idx[t] /\ minSeq'[t] = seqNo[idx[t]] /\ idx[t] # NoEntry
    BY <1>1, <1>2, <1>5, Bounds DEF AcceptScan, Slot, NoEntry
  <2>2. \A j \in Waiting(t) : j < idx[t] + 1 => minSeq'[t] <= seqNo[j]
    <3> SUFFICES ASSUME NEW j \in Waiting(t), j < idx[t] + 1 PROVE minSeq'[t] <= seqNo[j]
      OBVIOUS
    <3>1. seqNo[j] \in 0 .. MaxSeq /\ j \in Nat /\ idx[t] \in Nat /\ seqNo[idx[t]] \in 0 .. MaxSeq
      BY <1>1, <1>2, <1>3 DEF Slot
    <3>2. CASE j = idx[t]
      BY <2>1, <3>1, <3>2
    <3>3. CASE j # idx[t]
      <4>1. minSeq[t] <= seqNo[j]
        BY <1>4, <3>1, <3>3 DEF Scanning
      <4> QED
        BY <1>2, <1>5, <2>1, <3>1, <4>1 DEF Older
    <3> QED
      BY <3>2, <3>3
  <2> QED
    BY <1>1, <1>3, <1>4, <2>1, <2>2 DEF Accepting, Scanning, Looking
<1>6. CASE ~ Older(t, idx[t])
  <2>1. entry' = entry /\ minSeq' = minSeq
    BY <1>6 DEF AcceptScan
  <2>2. \A j \in Waiting(t) : j < idx[t] + 1 => entry[t] # NoEntry /\ minSeq[t] <= seqNo[j]
    <3> SUFFICES ASSUME NEW j \in Waiting(t), j < idx[t] + 1
                 PROVE  entry[t] # NoEntry /\ minSeq[t] <= seqNo[j]
      OBVIOUS
    <3>1. seqNo[j] \in 0 .. MaxSeq /\ j \in Nat /\ idx[t] \in Nat
      BY <1>1, <1>2, <1>3 DEF Slot
    <3>2. CASE j = idx[t]
      <4>1. seqNo[j] # 0 /\ dest[j] = t
        BY DEF Waiting, Filled, Occupied
      <4>2. minSeq[t] # MaxSeq /\ minSeq[t] <= seqNo[j]
        BY <1>2, <1>6, <3>1, <3>2, <4>1 DEF Older
      <4> QED
        BY <1>4, <4>2 DEF Scanning
    <3>3. CASE j # idx[t]
      BY <1>4, <3>1, <3>3 DEF Scanning
    <3> QED
      BY <3>2, <3>3
  <2> QED
    BY <1>1, <1>3, <1>4, <2>1, <2>2 DEF Accepting, Scanning, Looking
<1> QED
  BY <1>5, <1>6

LEMMA ScannedStep ==
  ASSUME DeliveryInv, ~ torn, Scanned, [Next]_vars
  PROVE  Scanned'
<1> USE DEF queueVars, historyVars
<1>0. /\ DOMAIN pc = Module /\ DOMAIN idx = Module /\ DOMAIN entry = Module
      /\ DOMAIN minSeq = Module /\ DOMAIN due = Module
  BY DEF DeliveryInv, TypeOK
<1>1. ASSUME NEW t \in Module, Req(t) \/ Accept(t), NEW u \in Module \ {t}
      PROVE  Accepting(u)'
  <2>1. /\ pc'[u] = pc[u] /\ idx'[u] = idx[u] /\ entry'[u] = entry[u] /\ minSeq'[u] = minSeq[u]
        /\ due'[u] = due[u]
    <3>1. CASE Req(t)
      BY <1>0, <1>1, <3>1 DEF Req, ReqCall, ReqTake, ReqFind, ReqFull, ReqClaim, ReqCount, ReqWrap,
         ReqAddress, ReqFill, ReqValid, ReqGive, Return, Goto
    <3>2. CASE Accept(t)
      BY <1>0, <1>1, <3>2 DEF Accept, AcceptCall, AcceptScan, AcceptNone, AcceptCopy, AcceptTake,
         AcceptClear, AcceptValid, AcceptGive, Return, Goto
    <3> QED
      BY <1>1, <3>1, <3>2
  <2>2. ~ AcceptClear(u)
    BY <1>0, <2>1 DEF AcceptClear, Goto
  <2> QED
    BY <2>1, <2>2, ScanFrame DEF Scanned
<1>2. ASSUME NEW t \in Module, Req(t) PROVE Accepting(t)'
  <2>1. CASE ReqGive(t)
    BY <1>0, <2>1 DEF ReqGive, Return, Goto, Accepting, Looking
  <2>2. CASE ~ ReqGive(t)
    <3>1. pc'[t] \in {"reqTake", "reqFind", "reqClaim", "reqCount", "reqWrap", "reqAddress",
                      "reqFill", "reqValid", "reqGive"}
      BY <1>0, <1>2, <2>2 DEF Req, ReqCall, ReqTake, ReqFind, ReqFull, ReqClaim, ReqCount, ReqWrap,
         ReqAddress, ReqFill, ReqValid, Goto
    <3> QED
      BY <3>1 DEF Accepting, Looking
  <2> QED
    BY <2>1, <2>2
<1>3. ASSUME NEW t \in Module, Accept(t) PROVE Accepting(t)'
  <2>1. CASE AcceptCall(t)
    <3>1. /\ UNCHANGED <<seqNo, dest, msg, idx, entry, minSeq>> /\ pc[t] = "idle" /\ pc'[t] = "scan"
          /\ due'[t] = {msg[i] : i \in {j \in Filled : dest[j] = t}}
      BY <1>0, <2>1 DEF AcceptCall, Goto
    <3>2. idx[t] = 0 /\ minSeq[t] = MaxSeq /\ entry[t] = NoEntry
      BY <3>1 DEF Scanned, Accepting, DeliveryInv, Picked
    <3>3. Waiting(t)' = {j \in Filled : dest[j] = t} /\ Filled \subseteq Slot
      BY <3>1 DEF Waiting, Filled, Occupied
    <3>4. \A j \in Slot : ~ j < 0
      BY DEF Slot
    <3> QED
      BY <3>1, <3>2, <3>3, <3>4 DEF Accepting, Scanning
  <2>2. CASE AcceptScan(t)
    BY <2>2, ScanTurn DEF Scanned
  <2>3. CASE AcceptNone(t) \/ AcceptGive(t)
    BY <1>0, <2>3 DEF AcceptNone, AcceptGive, Return, Goto, Accepting, Looking
  <2>4. CASE AcceptCopy(t)
    <3>1. /\ UNCHANGED <<seqNo, dest, msg, idx, entry, minSeq, due>> /\ idx[t] = NSlots
          /\ pc[t] = "scan" /\ pc'[t] = "accTake"
      BY <1>0, <2>4 DEF AcceptCopy, Goto
    <3>2. Scanning(t) /\ Waiting(t)' = Waiting(t)
      BY <3>1 DEF Scanned, Accepting, Looking, Waiting, Filled, Occupied
    <3> QED
      BY <3>1, <3>2 DEF Accepting, Scanning
  <2>5. CASE AcceptTake(t)
    <3>1. /\ UNCHANGED <<seqNo, dest, msg, idx, entry, minSeq, due>>
          /\ pc[t] = "accTake" /\ pc'[t] = "accClear"
      BY <1>0, <2>5 DEF AcceptTake, Goto
    <3>2. Scanning(t) /\ idx[t] = NSlots /\ Waiting(t)' = Waiting(t)
      BY <3>1 DEF Scanned, Accepting, Looking, Waiting, Filled, Occupied
    <3> QED
      BY <3>1, <3>2 DEF Accepting, Scanning
  <2>6. CASE AcceptClear(t) \/ AcceptValid(t)
    BY <1>0, <2>6 DEF AcceptClear, AcceptValid, Goto, Accepting, Looking
  <2> QED
    BY <1>3, <2>1, <2>2, <2>3, <2>4, <2>5, <2>6 DEF Accept
<1>4. CASE UNCHANGED <<queueVars, taskVars, historyVars>>
  BY <1>4 DEF Scanned, Accepting, Scanning, Waiting, Filled, Occupied, taskVars
<1> QED
  BY <1>1, <1>2, <1>3, <1>4 DEF Next, Scanned, GiveTrapsOwnerCheck, vars

LEMMA ScannedInvariant ==
  ASSUME ~ TakeMayTimeOut
  PROVE  Spec => [](torn \/ Scanned)
<1>1. ASSUME Init PROVE Scanned
  BY <1>1 DEF Init, Scanned, Accepting, Looking
<1>2. DeliveryInv /\ (torn \/ Scanned) /\ [Next]_vars => (torn \/ Scanned)'
  BY ScannedStep, TornStays
<1> QED
  BY <1>1, <1>2, DeliveryInvariant, PTL DEF Spec

\* What a scan that is over has passed is everything.
LEMMA AllPassed ==
  ASSUME DeliveryInv, Scanned, NEW t \in Module, pc[t] \in Looking, idx[t] = NSlots, NEW n \in due[t]
  PROVE  entry[t] # NoEntry /\ \E j \in Filled : msg[j] = n /\ seqNo[entry[t]] <= seqNo[j]
<1>1. PICK j \in Waiting(t) : msg[j] = n
  BY DEF Scanned, Accepting, Scanning
<1>2. j \in Filled /\ j < idx[t]
  BY <1>1, Bounds DEF Waiting, Filled, Occupied, Slot
<1>3. entry[t] # NoEntry /\ seqNo[entry[t]] <= seqNo[j]
  BY <1>1, <1>2 DEF Scanned, Accepting, Scanning
<1> QED
  BY <1>1, <1>2, <1>3

LEMMA NothingOlder ==
  ASSUME OrderInv, ~ torn, Scanned, posts < MaxSeq,
         NEW t \in Module, pc[t] \in {"accTake", "accClear"}, NEW n \in due[t]
  PROVE  got[t] <= n
<1>0. DeliveryInv
  BY DEF OrderInv
<1>1. entry[t] \in Filled /\ got[t] = msg[entry[t]]
  BY <1>0 DEF DeliveryInv, Picked
<1>2. PICK j \in Filled : msg[j] = n /\ seqNo[entry[t]] <= seqNo[j]
  BY <1>0, AllPassed DEF Scanned, Accepting, Looking
<1>3. seqNo[entry[t]] = msg[entry[t]] /\ seqNo[j] = msg[j]
  BY <1>1 DEF OrderInv, Numbers
<1> QED
  BY <1>1, <1>2, <1>3

\* What an accept takes out is never younger than a message that waited for the
\* task when its scan began, whatever posts and other accepts did meanwhile, as
\* long as no scan took up a half-made slot and the numbers have not started over.
THEOREM OldestOut ==
  ASSUME ~ TakeMayTimeOut
  PROVE  Spec => []OldestFirst
<1>1. OrderInv /\ (torn \/ Scanned) => OldestFirst
  BY NothingOlder DEF OldestFirst
<1> QED
  BY <1>1, OrderInvariant, ScannedInvariant, PTL
-----------------------------------------------------------------------------
(***************************************************************************)
(* The refinement of Delivery.                                             *)
(***************************************************************************)
PostLabel == Filling \cup {"reqTake", "reqFind", "reqClaim"}

\* What waited when the polls that are under way began.
Remembered == [t \in Module |-> IF t \in Polling THEN due[t] ELSE {}]

\* A task's control says which call it is in.
LEMMA Calls ==
  ASSUME TypeOK, NEW t \in Module, NEW from, NEW label, Goto(t, from, label)
  PROVE  /\ t \in Posting <=> from \in PostLabel
         /\ t \in Polling <=> from \in Looking
         /\ Posting' = IF label \in PostLabel THEN Posting \cup {t} ELSE Posting \ {t}
         /\ Polling' = IF label \in Looking THEN Polling \cup {t} ELSE Polling \ {t}
<1>1. pc[t] = from /\ pc'[t] = label /\ \A u \in Module \ {t} : pc'[u] = pc[u]
  BY DEF TypeOK, Goto
<1> QED
  BY <1>1 DEF Posting, Polling, PostLabel, Looking

\* A step inside a call, or behind its effect, changes neither.
LEMMA InsideCall ==
  ASSUME TypeOK, NEW t \in Module, NEW from, NEW label, Goto(t, from, label),
         from \in PostLabel <=> label \in PostLabel, from \in Looking <=> label \in Looking,
         UNCHANGED due \/ (from \notin Looking /\ due' = [due EXCEPT ![t] = {}])
  PROVE  UNCHANGED <<Posting, Polling, Remembered>>
<1>1. Posting' = Posting /\ Polling' = Polling /\ (t \in Polling <=> from \in Looking)
  BY Calls
<1>2. \A u \in Polling : due'[u] = due[u]
  BY <1>1 DEF TypeOK, Polling
<1> QED
  BY <1>1, <1>2 DEF Remembered

LEMMA PostingStep ==
  ASSUME TypeOK, NEW t \in Module, NEW from, NEW label, Goto(t, from, label),
         from \notin Looking, label \notin Looking, UNCHANGED due
  PROVE  UNCHANGED <<Polling, Remembered>>
<1>1. Polling' = Polling
  BY Calls
<1> QED
  BY <1>1 DEF Remembered

\* As many messages are in transit as slots are filled.
LEMMA TransitSize ==
  ASSUME DeliveryInv
  PROVE  Cardinality(InTransit) = Cardinality(Filled)
<1> DEFINE f == [i \in Filled |-> <<dest[i], msg[i]>>]
<1>1. IsFiniteSet(Filled)
  BY SlotsFinite DEF Filled, Occupied
<1>2. f \in Surjection(Filled, InTransit)
  BY DEF Surjection, InTransit
<1>3. \A i, j \in Filled : f[i] = f[j] => i = j
  BY DEF DeliveryInv, Numbered, Filled, Occupied
<1>4. f \in Bijection(Filled, InTransit)
  <2> HIDE DEF f
  <2> QED BY <1>2, <1>3 DEF Bijection, Injection, Surjection, IsInjective
<1> QED
  BY <1>1, <1>4, FS_Bijection DEF ExistsBijection

LEMMA SlotCount == Cardinality(Slot) = NSlots
BY Bounds, FS_Interval DEF Slot

\* Module Delivery counts like everybody.
LEMMA SameCardinality == Promise!Cardinality(InTransit) = Cardinality(InTransit)
BY DEF Promise!Cardinality, Cardinality

\* A post is accepted while there is room, and refused only when there is none.
LEMMA PostAccepted ==
  ASSUME DeliveryInv, NEW t \in Module, ReqFill(t)
  PROVE  Promise!Next
<1>1. Goto(t, "reqFill", "reqValid") /\ posts' = posts + 1 /\ UNCHANGED <<delivered, due>>
  BY DEF ReqFill
<1>2. t \in Posting /\ Posting' = Posting \ {t} /\ UNCHANGED <<Polling, Remembered>>
  BY <1>1, Calls, PostingStep DEF DeliveryInv, PostLabel, Filling, Looking
<1>3. Cardinality(InTransit) < NSlots
  <2>1. Filled \in SUBSET Slot /\ Filled # Slot
    BY FillPosts DEF Filled, Occupied
  <2>2. Cardinality(Filled) <= Cardinality(Slot) /\ Cardinality(Filled) # Cardinality(Slot)
    BY <2>1, SlotsFinite, FS_Subset
  <2>3. Cardinality(Filled) \in Nat
    BY <2>1, SlotsFinite
  <2> QED
    BY <2>2, <2>3, SlotCount, TransitSize, Bounds
<1>4. InTransit' = InTransit \cup {<<to[t], posts + 1>>} /\ to[t] \in Module
  BY FillPosts DEF DeliveryInv, TypeOK
<1>5. Promise!Post(t, to[t])
  BY <1>1, <1>2, <1>3, <1>4, SameCardinality DEF Promise!Post, InTransit, Remembered
<1>6. \E d \in Module : Promise!Post(t, d)
  BY <1>4, <1>5 DEF Promise!Post
<1> QED
  BY <1>6 DEF Promise!Next

LEMMA PostRefused ==
  ASSUME DeliveryInv, NEW t \in Module, ReqFull(t)
  PROVE  Promise!Next
<1>1. /\ Goto(t, "reqFind", "reqGive") /\ Occupied = Slot
      /\ UNCHANGED <<seqNo, dest, msg, posts, delivered, due>>
  BY DEF ReqFull, queueVars, historyVars
<1>2. t \in Posting /\ Posting' = Posting \ {t} /\ UNCHANGED <<Polling, Remembered>>
  BY <1>1, Calls, PostingStep DEF DeliveryInv, PostLabel, Filling, Looking
<1>3. Filled = Slot
  <2>1. pc[t] \notin Filling /\ \A u \in Module \ {t} : pc[u] \notin Filling
    BY <1>1, Inside DEF DeliveryInv, MutualExclusion, Goto, Filling
  <2> QED
    BY <1>1, <2>1 DEF DeliveryInv, Claims, PartialIsClaimed, HalfMade, Filled, Occupied
<1>4. Cardinality(InTransit) = NSlots /\ UNCHANGED InTransit
  BY <1>1, <1>3, SlotCount, TransitSize DEF InTransit, Filled, Occupied
<1>5. Promise!Refuse(t)
  BY <1>1, <1>2, <1>4, SameCardinality DEF Promise!Refuse, InTransit, Remembered
<1> QED
  BY <1>5 DEF Promise!Next

LEMMA CallBegins ==
  ASSUME DeliveryInv, NEW t \in Module, NEW d \in Module, ReqCall(t, d)
  PROVE  Promise!Next
<1>1. /\ Goto(t, "idle", "reqTake") /\ UNCHANGED <<seqNo, dest, msg, posts, delivered, due>>
  BY DEF ReqCall, queueVars, historyVars
<1>2. /\ t \notin Posting \cup Polling /\ Posting' = Posting \cup {t}
      /\ UNCHANGED <<Polling, Remembered>>
  BY <1>1, Calls, PostingStep DEF DeliveryInv, PostLabel, Filling, Looking
<1>3. UNCHANGED InTransit
  BY <1>1 DEF InTransit, Filled, Occupied
<1>4. Promise!BeginPost(t)
  BY <1>1, <1>2, <1>3 DEF Promise!BeginPost, Promise!Idle, InTransit, Remembered
<1> QED
  BY <1>4 DEF Promise!Next

\* A poll remembers what waits.
LEMMA PollBegins ==
  ASSUME DeliveryInv, NEW t \in Module, AcceptCall(t)
  PROVE  Promise!Next
<1> DEFINE own == {p[2] : p \in {q \in InTransit : q[1] = t}}
<1>1. /\ Goto(t, "idle", "scan") /\ UNCHANGED <<seqNo, dest, msg, posts, delivered>>
      /\ due' = [due EXCEPT ![t] = {msg[i] : i \in {j \in Filled : dest[j] = t}}]
  BY DEF AcceptCall, queueVars, historyVars
<1>2. /\ t \notin Posting \cup Polling /\ Posting' = Posting /\ Polling' = Polling \cup {t}
  BY <1>1, Calls DEF DeliveryInv, PostLabel, Filling, Looking
<1>3. UNCHANGED InTransit
  BY <1>1 DEF InTransit, Filled, Occupied
<1>4. {msg[i] : i \in {j \in Filled : dest[j] = t}} = own
  <2>1. ASSUME NEW i \in Filled, dest[i] = t PROVE msg[i] \in own
    <3>1. <<dest[i], msg[i]>> \in {q \in InTransit : q[1] = t}
      BY <2>1 DEF InTransit
    <3> QED BY <3>1
  <2>2. ASSUME NEW n \in own PROVE \E i \in Filled : dest[i] = t /\ msg[i] = n
    BY DEF InTransit
  <2> QED BY <2>1, <2>2
<1>5. Remembered' = [Remembered EXCEPT ![t] = own]
  <2>1. due'[t] = own /\ \A u \in Module \ {t} : due'[u] = due[u]
    BY <1>1, <1>4 DEF DeliveryInv, TypeOK
  <2> QED
    BY <1>2, <2>1 DEF Remembered
<1>6. Promise!BeginPoll(t)
  BY <1>1, <1>2, <1>3, <1>5 DEF Promise!BeginPoll, Promise!Idle, Promise!WaitingFor, InTransit, Remembered
<1> QED
  BY <1>6 DEF Promise!Next

\* A poll is over: the rest is what it hands out.
LEMMA PollEnds ==
  ASSUME DeliveryInv, NEW t \in Module, NEW from \in {"scan", "accClear"}, NEW label \in {"idle", "accValid"},
         Goto(t, from, label), posts' = posts,
         \A u \in Module \ {t} : due'[u] = due[u]
  PROVE  Promise!EndPoll(t) /\ Remembered[t] = due[t]
<1>1. t \in Polling /\ Posting' = Posting /\ Polling' = Polling \ {t}
  BY Calls DEF DeliveryInv, PostLabel, Filling, Looking
<1>2. Remembered' = [Remembered EXCEPT ![t] = {}]
  BY <1>1 DEF Remembered
<1> QED
  BY <1>1, <1>2 DEF Promise!EndPoll, Remembered

LEMMA PollDelivers ==
  ASSUME OrderInv, ~ torn, Scanned, NEW t \in Module, AcceptClear(t)
  PROVE  Promise!Next
<1>0. DeliveryInv
  BY DEF OrderInv
<1>1. /\ Goto(t, "accClear", "accValid") /\ UNCHANGED <<posts, due>>
      /\ delivered' = Append(delivered, <<t, got[t]>>) /\ pc[t] = "accClear"
  BY DEF AcceptClear, Goto
<1>2. Promise!EndPoll(t) /\ Remembered[t] = due[t]
  BY <1>0, <1>1, PollEnds
<1>3. posts < MaxSeq => \A k \in Remembered[t] : got[t] <= k
  BY <1>1, <1>2, NothingOlder
<1>4. /\ InTransit' = InTransit \ {<<t, got[t]>>} /\ <<t, got[t]>> \in InTransit
      /\ got[t] \in 1 .. posts
  BY <1>0, ClearDelivers
<1>5. Promise!Deliver(t, got[t])
  BY <1>1, <1>2, <1>3, <1>4 DEF Promise!Deliver, InTransit, Remembered
<1>6. \E n \in 1 .. posts : Promise!Deliver(t, n)
  BY <1>4, <1>5 DEF Promise!Deliver
<1> QED
  BY <1>6 DEF Promise!Next

LEMMA PollFails ==
  ASSUME DeliveryInv, Scanned, NEW t \in Module, AcceptNone(t)
  PROVE  Promise!Next
<1>1. /\ Goto(t, "scan", "idle") /\ due' = [due EXCEPT ![t] = {}] /\ pc[t] = "scan"
      /\ UNCHANGED <<seqNo, dest, msg, posts, delivered>> /\ idx[t] = NSlots /\ entry[t] = NoEntry
  BY DEF AcceptNone, Return, Goto, queueVars
<1>2. Promise!EndPoll(t) /\ Remembered[t] = due[t]
  BY <1>1, PollEnds DEF DeliveryInv, TypeOK
<1>3. Remembered[t] = {}
  BY <1>1, <1>2, AllPassed DEF Looking
<1>4. UNCHANGED InTransit
  BY <1>1 DEF InTransit, Filled, Occupied
<1>5. Promise!FindNone(t)
  BY <1>1, <1>2, <1>3, <1>4 DEF Promise!FindNone, InTransit, Remembered
<1> QED
  BY <1>5 DEF Promise!Next

\* All other steps are inside a call, or behind its effect.
LEMMA RestOfCall ==
  ASSUME TypeOK, NEW t \in Module,
         \/ ReqTake(t) \/ ReqFind(t) \/ ReqClaim(t) \/ ReqCount(t) \/ ReqWrap(t)
         \/ ReqAddress(t) \/ ReqValid(t) \/ ReqGive(t)
         \/ AcceptScan(t) \/ AcceptCopy(t) \/ AcceptTake(t) \/ AcceptValid(t) \/ AcceptGive(t)
  PROVE  UNCHANGED <<Posting, Polling, Remembered>>
<1> USE InsideCall DEF PostLabel, Filling, Looking, historyVars
<1>1. CASE ReqTake(t) \/ ReqFind(t)
  BY <1>1 DEF ReqTake, ReqFind
<1>2. CASE ReqClaim(t) \/ ReqCount(t) \/ ReqWrap(t) \/ ReqAddress(t)
  BY <1>2 DEF ReqClaim, ReqCount, ReqWrap, ReqAddress
<1>3. CASE ReqGive(t) \/ AcceptGive(t)
  BY <1>3 DEF ReqGive, AcceptGive, Return
<1>4. CASE AcceptScan(t) \/ AcceptCopy(t) \/ AcceptTake(t)
  BY <1>4 DEF AcceptScan, AcceptCopy, AcceptTake
<1>5. CASE ReqValid(t) \/ AcceptValid(t)
  BY <1>5 DEF ReqValid, AcceptValid
<1> QED
  BY <1>1, <1>2, <1>3, <1>4, <1>5

\* What the mailbox does is a behaviour of Delivery: exactly-once delivery to
\* the addressee, refusals only for want of room, no poll that misses a message
\* or takes a younger one first, up to the step in which a scan takes up a
\* half-made slot.
THEOREM ExactlyOnce ==
  ASSUME ~ TakeMayTimeOut
  PROVE  Spec => KeepsPromise
<1>1. Init => Promise!Init
  BY DEF Init, Promise!Init, Filling, Filled, Occupied, Posting, Polling
<1>2. OrderInv /\ (torn \/ Scanned) /\ [Next]_vars
        => [torn' \/ Promise!Next]_(Promise!deliveryVars)
  <2> SUFFICES ASSUME OrderInv, ~ torn, Scanned, [Next]_vars
               PROVE  Promise!Next \/ UNCHANGED Promise!deliveryVars
    BY TornStays
  <2>0. DeliveryInv
    BY DEF OrderInv
  <2>1. ASSUME UNCHANGED <<InTransit, posts, delivered, Posting, Polling, Remembered>>
        PROVE  UNCHANGED Promise!deliveryVars
    BY <2>1 DEF Promise!deliveryVars, InTransit, Remembered
  <2>2. TypeOK
    BY <2>0 DEF DeliveryInv
  <2>3. CASE UNCHANGED <<pc, queueVars, historyVars>>
    <3>1. UNCHANGED <<InTransit, posts, delivered, Posting, Polling, Remembered>>
      BY <2>3 DEF InTransit, Filled, Occupied, Posting, Polling, Remembered, queueVars, historyVars
    <3> QED BY <2>1, <3>1
  <2>4. CASE \E t \in Module : ReqFill(t)
    BY <2>0, <2>4, PostAccepted
  <2>5. CASE \E t \in Module : AcceptClear(t)
    BY <2>5, PollDelivers
  <2>6. CASE /\ \E t \in Module : Req(t) \/ Accept(t)
             /\ \A t \in Module : ~ ReqFill(t) /\ ~ AcceptClear(t)
    <3>1. PICK t \in Module : Req(t) \/ Accept(t)
      BY <2>6
    <3>2. CASE \/ ReqTake(t) \/ ReqFind(t) \/ ReqClaim(t) \/ ReqCount(t) \/ ReqWrap(t)
               \/ ReqAddress(t) \/ ReqValid(t) \/ ReqGive(t)
               \/ AcceptScan(t) \/ AcceptCopy(t) \/ AcceptTake(t) \/ AcceptValid(t)
               \/ AcceptGive(t)
      <4>1. UNCHANGED <<Posting, Polling, Remembered>>
        BY <2>2, <3>2, RestOfCall
      <4> QED BY <2>0, <2>1, <2>6, <4>1, OthersKeep
    <3>3. CASE ReqFull(t) \/ AcceptNone(t) \/ AcceptCall(t) \/ \E d \in Module : ReqCall(t, d)
      BY <2>0, <3>3, PostRefused, PollFails, PollBegins, CallBegins
    <3> QED
      BY <2>6, <3>1, <3>2, <3>3 DEF Req, Accept
  <2> QED
    BY <2>3, <2>4, <2>5, <2>6 DEF Next, GiveTrapsOwnerCheck, vars, taskVars
<1> QED
  BY <1>1, <1>2, OrderInvariant, ScannedInvariant, PTL DEF Spec, KeepsPromise
=============================================================================
