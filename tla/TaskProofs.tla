---------------------------- MODULE TaskProofs -----------------------------
(***************************************************************************)
(* Facts about the engine that the proofs of all module tasks share: the   *)
(* search through a table, what a poll takes and a post leaves in a task's *)
(* messages, and how many messages the mailbox holds.                      *)
(***************************************************************************)
EXTENDS Tasks, FiniteSetTheorems, WellFoundedInduction, TLAPS

OverTasks(f) == f = [t \in Module |-> f[t]]

\* The one message that others post to a task, and what it posts to itself.
Request == Message(Wifi, "OPEN_SOCKFD")
Mail(t, ids) == {Request} \cup {Message(t, id) : id \in ids}

\* At most one message of the task's own.
Single(t, box) ==
  \A i, j \in DOMAIN box : box[i].source = t /\ box[j].source = t => i = j
-----------------------------------------------------------------------------
\* The search through a table stops at the first row that matches or ends it.
LEMMA FirstRow ==
  ASSUME NEW table, NEW state, NEW m, NEW n \in Nat, DOMAIN table = 1 .. n,
         NEW k \in 1 .. n,
         IsSentinel(table[k]) \/ Matches(table[k], state, m),
         \A j \in 1 .. k - 1 : ~ IsSentinel(table[j]) /\ ~ Matches(table[j], state, m)
  PROVE  RowFor(table, state, m) = table[k]
<1> DEFINE Stops(i) ==
      /\ IsSentinel(table[i]) \/ Matches(table[i], state, m)
      /\ \A j \in 1 .. i - 1 : ~ IsSentinel(table[j]) /\ ~ Matches(table[j], state, m)
<1>1. \A i \in 1 .. n : Stops(i) => i = k
  <2> SUFFICES ASSUME NEW i \in 1 .. n, Stops(i), i # k PROVE FALSE
    OBVIOUS
  <2>1. CASE i < k
    <3>1. i \in 1 .. k - 1
      BY <2>1
    <3> QED BY <3>1
  <2>2. CASE k < i
    <3>1. k \in 1 .. i - 1
      BY <2>2
    <3> QED BY <3>1
  <2> QED BY <2>1, <2>2
<1>2. Stops(k)
  OBVIOUS
<1> HIDE DEF Stops
<1>3. (CHOOSE i \in 1 .. n : Stops(i)) = k
  BY <1>1, <1>2
<1>4. RowFor(table, state, m) = table[CHOOSE i \in 1 .. n : Stops(i)]
  BY DEF RowFor, Stops
<1> QED BY <1>3, <1>4

\* With the sentinel at the end of the table, every search stops: at a row
\* that matches while none before it does, or at the sentinel.
LEMMA SomeRow ==
  ASSUME NEW table, NEW state, NEW m, NEW n \in Nat \ {0}, DOMAIN table = 1 .. n,
         \A i \in 1 .. n : IsSentinel(table[i]) <=> i = n
  PROVE  \E k \in 1 .. n :
           /\ RowFor(table, state, m) = table[k]
           /\ k = n \/ Matches(table[k], state, m)
           /\ \A j \in 1 .. k - 1 : ~ Matches(table[j], state, m)
<1> DEFINE Stops(i) == IsSentinel(table[i]) \/ Matches(table[i], state, m)
           S == {i \in 1 .. n : Stops(i)}
<1>1. n \in S /\ S \subseteq Nat
  OBVIOUS
<1>2. \E k \in S : \A j \in S : k <= j
  <2> DEFINE R == OpToRel(<, Nat)
  <2>1. IsWellFoundedOn(R, Nat)
    BY NatLessThanWellFounded
  <2>2. \A i, j \in Nat : <<i, j>> \in R <=> i < j
    BY DEF OpToRel
  <2> HIDE DEF R, S
  <2>3. PICK k \in S : \A j \in S : ~ (<<j, k>> \in R)
    BY <1>1, <2>1, WFMin
  <2>4. \A j \in S : ~ j < k /\ j \in Nat /\ k \in Nat
    BY <1>1, <2>2, <2>3
  <2> QED BY <2>4
<1>3. PICK k \in S : \A j \in S : k <= j
  BY <1>2
<1>4. \A j \in 1 .. k - 1 : ~ Stops(j)
  <2> SUFFICES ASSUME NEW j \in 1 .. k - 1, Stops(j) PROVE FALSE
    OBVIOUS
  <2>1. j \in S /\ j < k
    OBVIOUS
  <2> QED BY <1>3, <2>1
<1>5. RowFor(table, state, m) = table[k]
  BY <1>3, <1>4, FirstRow
<1> QED BY <1>3, <1>4, <1>5
-----------------------------------------------------------------------------
\* A post reaches one task; it is refused or put behind what waits there.
LEMMA Posting ==
  ASSUME OverTasks(inbox), NEW from, NEW t \in Module, NEW id
  PROVE  /\ OverTasks(Posted(from, t, id))
         /\ \A u \in Module \ {t} : Posted(from, t, id)[u] = inbox[u]
         /\ Posted(from, t, id)[t] \in {inbox[t], Append(inbox[t], Message(from, id))}
         /\ Occupied < NSlots => Posted(from, t, id)[t] = Append(inbox[t], Message(from, id))
BY DEF OverTasks, Posted

Held(box) == {p \in Module \X (1 .. NSlots) : p[2] <= Len(box[p[1]])}

LEMMA HeldFinite ==
  ASSUME NEW box
  PROVE  IsFiniteSet(Held(box)) /\ Cardinality(Held(box)) \in Nat
<1>1. IsFiniteSet(Module) /\ IsFiniteSet(1 .. NSlots)
  BY TasksAssumption, FS_Interval
<1>2. IsFiniteSet(Module \X (1 .. NSlots))
  BY <1>1, FS_Product
<1>3. IsFiniteSet(Held(box))
  BY <1>2, FS_Subset DEF Held
<1> QED BY <1>3, FS_CardinalityType

\* A mailbox whose messages are all for one task holds as many as that task.
LEMMA OccupiedByOne ==
  ASSUME NEW u \in Module, NEW n \in Nat, Len(inbox[u]) \in 0 .. n,
         \A t \in Module \ {u} : inbox[t] = << >>
  PROVE  Occupied \in 0 .. n
<1> DEFINE S == Held(inbox)
           f == [p \in S |-> p[2]]
<1>1. \A p \in S : p[1] = u /\ p[2] \in 1 .. n /\ p = <<u, p[2]>>
  <2> SUFFICES ASSUME NEW p \in S PROVE p[1] = u /\ p[2] \in 1 .. n /\ p = <<u, p[2]>>
    OBVIOUS
  <2>1. p[1] \in Module /\ p[2] \in 1 .. NSlots /\ p = <<p[1], p[2]>> /\ p[2] <= Len(inbox[p[1]])
    BY DEF Held
  <2>2. NSlots \in Nat /\ Len(<< >>) = 0
    BY TasksAssumption
  <2>3. p[1] = u
    BY <2>1, <2>2
  <2> QED BY <2>1, <2>2, <2>3
<1>2. f \in Injection(S, 1 .. n)
  BY <1>1 DEF Injection, IsInjective
<1>3. IsFiniteSet(1 .. n) /\ Cardinality(1 .. n) = n
  BY FS_Interval
<1>4. Cardinality(S) <= Cardinality(1 .. n)
  <2> HIDE DEF f, S
  <2> QED BY <1>2, <1>3, FS_Injection
<1>5. Occupied = Cardinality(Held(inbox))
  BY DEF Occupied, Held
<1>6. Cardinality(Held(inbox)) \in Nat
  BY HeldFinite
<1>7. Cardinality(Held(inbox)) <= n
  BY <1>3, <1>4
<1> HIDE DEF f, S
<1> QED BY <1>5, <1>6, <1>7
-----------------------------------------------------------------------------
LEMMA SeqOfMembers ==
  ASSUME NEW M, NEW S, NEW s \in Seq(M), \A i \in 1 .. Len(s) : s[i] \in S
  PROVE  s \in Seq(S)
OBVIOUS

\* Taking the oldest of a task's messages.
LEMMA Taking ==
  ASSUME NEW t \in Module \ {Wifi}, NEW ids, NEW box \in Seq(Mail(t, ids)), box # << >>, Single(t, box)
  PROVE  /\ Tail(box) \in Seq(Mail(t, ids)) /\ Single(t, Tail(box))
         /\ Head(box) = Request \/ \E id \in ids : Head(box) = Message(t, id)
         /\ Head(box) # Request => Tail(box) \in Seq(Mail(t, {}))
         /\ Len(Tail(box)) = Len(box) - 1 /\ Len(box) \in Nat \ {0}
<1> DEFINE M == Mail(t, ids)
<1>1. /\ Tail(box) \in Seq(M) /\ Head(box) = box[1] /\ Len(box) \in Nat /\ 1 \in 1 .. Len(box)
      /\ Head(box) \in M /\ Len(Tail(box)) = Len(box) - 1 /\ Len(box) # 0
      /\ DOMAIN box = 1 .. Len(box) /\ DOMAIN Tail(box) = 1 .. Len(box) - 1
      /\ \A i \in 1 .. Len(box) - 1 :
           i + 1 \in 1 .. Len(box) /\ i + 1 # 1 /\ Tail(box)[i] = box[i + 1] /\ Tail(box)[i] \in M
  <2> HIDE DEF M
  <2> QED BY DEF M
<1>2. Single(t, Tail(box))
  BY <1>1 DEF Single
<1>3. Head(box) = Request \/ \E id \in ids : Head(box) = Message(t, id)
  BY <1>1 DEF Mail
<1>4. ASSUME Head(box) # Request PROVE Tail(box) \in Seq(Mail(t, {}))
  <2>1. box[1].source = t
    BY <1>1, <1>3, <1>4 DEF Message
  <2>2. \A i \in 1 .. Len(box) - 1 : Tail(box)[i].source # t
    BY <1>1, <2>1 DEF Single
  <2>3. \A m \in M : m.source # t => m \in Mail(t, {})
    BY DEF Mail, Message
  <2> HIDE DEF M
  <2>4. \A i \in 1 .. Len(Tail(box)) : Tail(box)[i] \in Mail(t, {})
    BY <1>1, <2>2, <2>3
  <2> QED BY <1>1, <2>4, SeqOfMembers
<1> HIDE DEF M
<1> QED BY <1>1, <1>2, <1>3, <1>4 DEF M

\* Putting a request, or the task's one message of its own, behind the rest.
LEMMA Putting ==
  ASSUME NEW t \in Module \ {Wifi}, NEW ids, NEW box \in Seq(Mail(t, ids)), Single(t, box)
  PROVE  /\ Append(box, Request) \in Seq(Mail(t, ids)) /\ Single(t, Append(box, Request))
         /\ \A m : Append(box, m) # << >> /\ Len(Append(box, m)) = Len(box) + 1 /\ Len(box) \in Nat
         /\ ids = {} => \A id : /\ Append(box, Message(t, id)) \in Seq(Mail(t, {id}))
                               /\ Single(t, Append(box, Message(t, id)))
<1> DEFINE n == Len(box)
<1>0. Request.source # t /\ \A id : Message(t, id).source = t
  BY DEF Request, Message
<1>1. /\ n \in Nat /\ DOMAIN box = 1 .. n /\ \A i \in 1 .. n : box[i] \in Mail(t, ids)
      /\ \A m : /\ Len(Append(box, m)) = n + 1 /\ Append(box, m)[n + 1] = m
                /\ DOMAIN Append(box, m) = 1 .. n + 1
                /\ \A i \in 1 .. n : Append(box, m)[i] = box[i]
  OBVIOUS
<1>2. \A i \in 1 .. n + 1 : i \in 1 .. n \/ i = n + 1
  BY <1>1
<1>3. Append(box, Request) \in Seq(Mail(t, ids))
  BY DEF Mail
<1>4. Single(t, Append(box, Request))
  BY <1>0, <1>1, <1>2 DEF Single
<1>5. \A m : Append(box, m) # << >>
  <2>1. \A m : Len(Append(box, m)) # 0 /\ Len(<< >>) = 0
    BY <1>1
  <2> QED BY <2>1
<1>6. ASSUME ids = {}, NEW id
      PROVE  Append(box, Message(t, id)) \in Seq(Mail(t, {id})) /\ Single(t, Append(box, Message(t, id)))
  <2>1. Mail(t, {}) \subseteq Mail(t, {id}) /\ Message(t, id) \in Mail(t, {id})
    BY DEF Mail
  <2>2. box \in Seq(Mail(t, {id}))
    BY <1>1, <1>6, <2>1, SeqOfMembers
  <2>3. \A i \in 1 .. n : box[i].source # t
    BY <1>0, <1>1, <1>6 DEF Mail
  <2> QED BY <1>0, <1>1, <1>2, <2>1, <2>2, <2>3 DEF Single
<1> QED BY <1>1, <1>3, <1>4, <1>5, <1>6
=============================================================================
