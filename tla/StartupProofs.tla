--------------------------- MODULE StartupProofs ---------------------------
(***************************************************************************)
(* Start-up, for any number of resets: no task runs before everything it   *)
(* finds is prepared, and no boot creates a task twice.  The invariant     *)
(* follows app_main from call to call and Main_Process through its rounds. *)
(***************************************************************************)
EXTENDS Startup, TLAPS

Main == {"nvs_init", "nvs_erase", "nvs_again", "mailBox_Init", "Wifi_PreCheckingInfo",
         "xTaskCreate", "while"}

Ram ==
  [main : Main,
   mailbox : {"none", "empty", "go_join"},
   control : [round : Round, index : 1 .. 4],
   status : [Module -> {"zero", "any", "idle"}],
   task : [Module -> {"absent", "ready", "asleep", "waiting"}],
   created : [Module -> 0 .. 2],
   joined : BOOLEAN]

\* The place of a module in the power managing table.
Place(m) ==
  CASE m = Wifi -> 1
    [] m = Tcp -> 2
    [] m = Client -> 3
    [] OTHER -> 4

\* Before the start round there are no tasks.
NoTasks(r) == \A m \in Module : r.task[m] = "absent" /\ r.created[m] = 0

\* What a module's E_APP_INIT leaves.
Ready(m) == IF m = Wifi THEN "any" ELSE "idle"

\* app_main has got as far as ram.main, Main_Process as far as ram.control.
Progress(r, f) ==
  /\ r.main = "xTaskCreate" => r.mailbox = "go_join" /\ r.status[Wifi] = "any"
  /\ r.main \notin {"nvs_init", "nvs_erase", "nvs_again"} => f = "usable"
  /\ r.control.round = "absent" <=> r.main # "while"
  /\ r.control.round = "absent" => r.control.index = 1
  /\ r.control.round \in {"absent", "init"} => NoTasks(r)
  /\ r.control.round # "absent" =>
       /\ r.mailbox = "go_join" \/ r.joined
       /\ r.status[Wifi] = "any"
  /\ r.control.round = "init" =>
       \A m \in Module : Place(m) < r.control.index => r.status[m] = Ready(m)
  /\ r.control.round \in {"start", "asleep"} =>
       \A m \in Module : r.status[m] = Ready(m)
  /\ r.control.round = "start" =>
       \A m \in Module : r.created[m] = IF Place(m) < r.control.index THEN 1 ELSE 0
  /\ r.control.round = "asleep" => \A m \in Module : r.created[m] = 1

Prepared ==
  /\ flash \in Flash
  /\ resets \in 0 .. MaxResets
  /\ ram \in Ram
  /\ Progress(ram, flash)
-----------------------------------------------------------------------------
\* The four modules are different, and the table holds each at its place.
LEMMA Places ==
  /\ Place(Wifi) = 1 /\ Place(Tcp) = 2 /\ Place(Client) = 3 /\ Place(Udp) = 4
  /\ Len(scstar_pwrTaskControllingTable) = 4
  /\ \A m \in Module : Place(m) \in 1 .. 4 /\ scstar_pwrTaskControllingTable[Place(m)] = m
  /\ \A i \in 1 .. 4 :
       /\ scstar_pwrTaskControllingTable[i] \in Module
       /\ Place(scstar_pwrTaskControllingTable[i]) = i
<1>1. /\ Place(Wifi) = 1 /\ Place(Tcp) = 2 /\ Place(Client) = 3 /\ Place(Udp) = 4
  BY StartupAssumption DEF Place
<1>2. /\ Len(scstar_pwrTaskControllingTable) = 4
      /\ scstar_pwrTaskControllingTable[1] = Wifi
      /\ scstar_pwrTaskControllingTable[2] = Tcp
      /\ scstar_pwrTaskControllingTable[3] = Client
      /\ scstar_pwrTaskControllingTable[4] = Udp
  BY DEF scstar_pwrTaskControllingTable
<1>3. \A i \in 1 .. 4 : i = 1 \/ i = 2 \/ i = 3 \/ i = 4
  OBVIOUS
<1>4. \A m \in Module : Place(m) \in 1 .. 4 /\ scstar_pwrTaskControllingTable[Place(m)] = m
  BY <1>1, <1>2 DEF Module
<1>5. \A i \in 1 .. 4 :
        /\ scstar_pwrTaskControllingTable[i] \in Module
        /\ Place(scstar_pwrTaskControllingTable[i]) = i
  BY <1>1, <1>2, <1>3 DEF Module
<1> QED
  BY <1>1, <1>2, <1>4, <1>5

\* A reset leaves a memory in which nothing has happened yet.
LEMMA BootedIsFresh ==
  /\ Booted \in Ram
  /\ \A f \in Flash : Progress(Booted, f)
<1>1. Booted \in Ram
  BY DEF Booted, Ram, Main, Round
<1>2. \A m \in Module : Booted.task[m] = "absent" /\ Booted.created[m] = 0
  BY DEF Booted
<1>3. Booted.main = "nvs_init" /\ Booted.control.round = "absent" /\ Booted.control.index = 1
  BY DEF Booted
<1> QED
  BY <1>1, <1>2, <1>3 DEF Progress, NoTasks
-----------------------------------------------------------------------------
\* What Progress says of a memory depends on these fields alone, and app_main
\* may go anywhere from a call at which nobody else is about.
LEMMA Moves ==
  ASSUME NEW x \in Main, ram \in Ram, ram' = [ram EXCEPT !.main = x]
  PROVE  /\ ram' \in Ram
         /\ ram'.main = x
         /\ ram'.mailbox = ram.mailbox /\ ram'.control = ram.control
         /\ ram'.status = ram.status /\ ram'.task = ram.task
         /\ ram'.created = ram.created /\ ram'.joined = ram.joined
BY DEF Ram

\* The three calls about the flash.
LEMMA FlashCalls ==
  ASSUME Prepared, NvsInit \/ NvsErase \/ NvsAgain
  PROVE  Prepared'
<1>1. /\ flash \in Flash /\ resets \in 0 .. MaxResets /\ ram \in Ram
      /\ Progress(ram, flash)
  BY DEF Prepared
<1>2. ASSUME NEW x \in Main \ {"xTaskCreate", "while"},
             ram' = [ram EXCEPT !.main = x],
             ram.main \in {"nvs_init", "nvs_erase", "nvs_again"},
             flash' \in Flash,
             x = "mailBox_Init" \/ x = "Wifi_PreCheckingInfo" => flash' = "usable"
      PROVE  ram' \in Ram /\ Progress(ram', flash')
  <2>1. /\ ram' \in Ram
        /\ ram'.main = x
        /\ ram'.mailbox = ram.mailbox /\ ram'.control = ram.control
        /\ ram'.status = ram.status /\ ram'.task = ram.task
        /\ ram'.created = ram.created /\ ram'.joined = ram.joined
    BY <1>1, <1>2, Moves
  <2>2. ram.control.round = "absent" /\ NoTasks(ram) /\ ram.control.index = 1
    BY <1>1, <1>2 DEF Progress
  <2> QED
    BY <1>2, <2>1, <2>2 DEF Progress, NoTasks, Main
<1>3. CASE NvsInit
  <2>1. CASE flash = "usable"
    BY <1>1, <1>2, <1>3, <2>1 DEF NvsInit, Prepared, Main
  <2>2. CASE flash # "usable"
    BY <1>1, <1>2, <1>3, <2>2 DEF NvsInit, Prepared, Main
  <2> QED
    BY <2>1, <2>2
<1>4. CASE NvsErase
  BY <1>1, <1>2, <1>4 DEF NvsErase, Prepared, Main, Flash
<1>5. CASE NvsAgain
  <2>1. CASE flash = "usable"
    BY <1>1, <1>2, <1>5, <2>1 DEF NvsAgain, Prepared, Main
  <2>2. CASE flash # "usable"
    BY <1>1, <1>5, <2>2, BootedIsFresh DEF NvsAgain, Prepared
  <2> QED
    BY <2>1, <2>2
<1> QED
  BY <1>3, <1>4, <1>5

\* mailBox_Init: nobody is about, so nothing depends on the mailbox.
LEMMA MailboxCall ==
  ASSUME Prepared, mailBox_Init
  PROVE  Prepared'
<1>1. /\ ram' \in Ram
      /\ ram'.main = "Wifi_PreCheckingInfo" /\ ram'.mailbox = "empty"
      /\ ram'.control = ram.control
      /\ ram'.status = ram.status /\ ram'.task = ram.task
      /\ ram'.created = ram.created /\ ram'.joined = ram.joined
  BY DEF Prepared, mailBox_Init, Ram, Main
<1>2. flash' = "usable" /\ flash' = flash /\ resets' = resets
  BY DEF Prepared, mailBox_Init, Progress
<1>3. ram.control.round = "absent" /\ NoTasks(ram) /\ ram.control.index = 1
  BY DEF Prepared, mailBox_Init, Progress
<1>4. Progress(ram', flash')
  BY <1>1, <1>2, <1>3 DEF Progress, NoTasks
<1> QED
  BY <1>1, <1>2, <1>4 DEF Prepared

\* Wifi_PreCheckingInfo leaves the first message and the manager's status.
LEMMA FirstMessage ==
  ASSUME Prepared, Wifi_PreCheckingInfo
  PROVE  Prepared'
<1>1. /\ ram' \in Ram
      /\ ram'.main = "xTaskCreate" /\ ram'.mailbox = "go_join"
      /\ ram'.status = [ram.status EXCEPT ![Wifi] = "any"]
      /\ ram'.control = ram.control /\ ram'.task = ram.task
      /\ ram'.created = ram.created /\ ram'.joined = ram.joined
  BY DEF Prepared, Wifi_PreCheckingInfo, Ram, Main
<1>2. ram'.status[Wifi] = "any"
  BY <1>1 DEF Prepared, Ram, Module
<1>3. flash' = "usable" /\ flash' = flash /\ resets' = resets
  BY DEF Prepared, Wifi_PreCheckingInfo, Progress
<1>4. ram.control.round = "absent" /\ NoTasks(ram) /\ ram.control.index = 1
  BY DEF Prepared, Wifi_PreCheckingInfo, Progress
<1>5. Progress(ram', flash')
  BY <1>1, <1>2, <1>3, <1>4 DEF Progress, NoTasks
<1> QED
  BY <1>1, <1>3, <1>5 DEF Prepared

\* Main_Process begins its first round with everything prepared.
LEMMA MainCreated ==
  ASSUME Prepared, CreateMainProcess
  PROVE  Prepared'
<1>1. /\ ram' \in Ram
      /\ ram'.main = "while"
      /\ ram'.control.round = "init" /\ ram'.control.index = ram.control.index
      /\ ram'.mailbox = ram.mailbox /\ ram'.status = ram.status /\ ram'.task = ram.task
      /\ ram'.created = ram.created /\ ram'.joined = ram.joined
  BY DEF Prepared, CreateMainProcess, Ram, Main, Round
<1>2. flash' = "usable" /\ flash' = flash /\ resets' = resets
  BY DEF Prepared, CreateMainProcess, Progress
<1>3. /\ NoTasks(ram) /\ ram.control.index = 1
      /\ ram.mailbox = "go_join" /\ ram.status[Wifi] = "any"
  BY DEF Prepared, CreateMainProcess, Progress
<1>4. \A m \in Module : ~ (Place(m) < 1)
  BY Places
<1>5. Progress(ram', flash')
  BY <1>1, <1>2, <1>3, <1>4 DEF Progress, NoTasks
<1> QED
  BY <1>1, <1>2, <1>5 DEF Prepared

\* One call of a round: the index stays in the table.
LEMMA CallMoves ==
  ASSUME ram \in Ram
  PROVE  /\ NextCall(ram.control) \in [round : Round, index : 1 .. 4]
            \/ ram.control.round \in {"absent", "asleep"}
         /\ ram.control.index < 4 =>
              /\ NextCall(ram.control).round = ram.control.round
              /\ NextCall(ram.control).index = ram.control.index + 1
         /\ ram.control.index = 4 =>
              /\ NextCall(ram.control).round =
                   IF ram.control.round = "init" THEN "start" ELSE "asleep"
              /\ NextCall(ram.control).index = 1
<1>1. ram.control \in [round : Round, index : 1 .. 4]
  BY DEF Ram
<1> QED
  BY <1>1, Places DEF NextCall, Round

\* The round of E_APP_INIT: one more module has its status.
LEMMA InitRound ==
  ASSUME Prepared, ControlInit
  PROVE  Prepared'
<1> DEFINE index == ram.control.index
<1>1. /\ ram \in Ram /\ ram.control.round = "init" /\ index \in 1 .. 4
      /\ Called \in Module /\ Place(Called) = index
  BY Places DEF Prepared, ControlInit, Ram, Called
<1>2. /\ ram.main = "while" /\ flash = "usable" /\ NoTasks(ram)
      /\ ram.mailbox = "go_join" \/ ram.joined
      /\ ram.status[Wifi] = "any"
      /\ \A m \in Module : Place(m) < index => ram.status[m] = Ready(m)
  BY <1>1 DEF Prepared, Progress, Ram, Main
<1>3. Initialised(Called) = Ready(Called)
  BY <1>2 DEF Initialised, Ready
<1>4. ram' = [ram EXCEPT !.status = [ram.status EXCEPT ![Called] = Ready(Called)],
                        !.control = NextCall(ram.control)]
  BY <1>1, <1>3 DEF ControlInit, Ram
<1>5. NextCall(ram.control) \in [round : Round, index : 1 .. 4]
  BY <1>1, CallMoves
<1>6. /\ ram' \in Ram
      /\ ram'.main = ram.main /\ ram'.mailbox = ram.mailbox
      /\ ram'.control = NextCall(ram.control)
      /\ ram'.status = [ram.status EXCEPT ![Called] = Ready(Called)]
      /\ ram'.task = ram.task /\ ram'.created = ram.created /\ ram'.joined = ram.joined
  BY <1>1, <1>4, <1>5 DEF Ram, Ready
<1>7. \A m \in Module : Place(m) <= index => ram'.status[m] = Ready(m)
  <2> TAKE m \in Module
  <2> HAVE Place(m) <= index
  <2>1. CASE m = Called
    BY <1>1, <1>6, <2>1 DEF Ram
  <2>2. CASE m # Called
    <3>1. Place(m) < index
      BY <1>1, <2>2, Places
    <3> QED
      BY <1>1, <1>2, <1>6, <2>2, <3>1 DEF Ram
  <2> QED
    BY <2>1, <2>2
<1>8. ram'.status[Wifi] = "any"
  BY <1>1, <1>7, Places DEF Ready, Module
<1>9. Progress(ram', flash')
  <2>1. flash' = "usable"
    BY <1>2 DEF ControlInit
  <2>2. CASE index < 4
    <3>1. ram'.control.round = "init" /\ ram'.control.index = index + 1
      BY <1>1, <1>6, <2>2, CallMoves
    <3>2. \A m \in Module : Place(m) < index + 1 => Place(m) <= index
      BY <1>1, Places
    <3> QED
      BY <1>2, <1>6, <1>7, <1>8, <2>1, <3>1, <3>2 DEF Progress, NoTasks
  <2>3. CASE index = 4
    <3>1. ram'.control.round = "start" /\ ram'.control.index = 1
      BY <1>1, <1>6, <2>3, CallMoves
    <3>2. \A m \in Module : Place(m) <= index /\ ~ (Place(m) < 1)
      BY <2>3, Places
    <3> QED
      BY <1>2, <1>6, <1>7, <1>8, <2>1, <3>1, <3>2 DEF Progress, NoTasks
  <2> QED
    BY <1>1, <2>2, <2>3
<1> QED
  BY <1>6, <1>9 DEF Prepared, ControlInit

\* The round of E_APP_TASK_START: one more module has its task.
LEMMA StartRound ==
  ASSUME Prepared, ControlStart
  PROVE  Prepared'
<1> DEFINE index == ram.control.index
<1>1. /\ ram \in Ram /\ ram.control.round = "start" /\ index \in 1 .. 4
      /\ Called \in Module /\ Place(Called) = index
  BY Places DEF Prepared, ControlStart, Ram, Called
<1>2. /\ ram.main = "while" /\ flash = "usable"
      /\ ram.mailbox = "go_join" \/ ram.joined
      /\ ram.status[Wifi] = "any"
      /\ \A m \in Module : ram.status[m] = Ready(m)
      /\ \A m \in Module : ram.created[m] = IF Place(m) < index THEN 1 ELSE 0
  BY <1>1 DEF Prepared, Progress, Ram, Main
<1>3. ram.created[Called] = 0
  BY <1>1, <1>2
<1>4. ram' = [ram EXCEPT !.task = [ram.task EXCEPT ![Called] = "ready"],
                        !.created = [ram.created EXCEPT ![Called] = 1],
                        !.control = NextCall(ram.control)]
  BY <1>1, <1>3 DEF ControlStart, Ram
<1>5. NextCall(ram.control) \in [round : Round, index : 1 .. 4]
  BY <1>1, CallMoves
<1>6. /\ ram' \in Ram
      /\ ram'.main = ram.main /\ ram'.mailbox = ram.mailbox
      /\ ram'.control = NextCall(ram.control)
      /\ ram'.status = ram.status
      /\ ram'.created = [ram.created EXCEPT ![Called] = 1]
      /\ ram'.joined = ram.joined
  <2>1. /\ [ram.task EXCEPT ![Called] = "ready"]
             \in [Module -> {"absent", "ready", "asleep", "waiting"}]
        /\ [ram.created EXCEPT ![Called] = 1] \in [Module -> 0 .. 2]
    BY <1>1 DEF Ram
  <2> QED
    BY <1>1, <1>4, <1>5, <2>1 DEF Ram
<1>7. \A m \in Module : ram'.created[m] = IF Place(m) <= index THEN 1 ELSE 0
  <2> TAKE m \in Module
  <2>1. CASE m = Called
    BY <1>1, <1>6, <2>1 DEF Ram
  <2>2. CASE m # Called
    <3>1. Place(m) # index /\ Place(m) \in 1 .. 4
      BY <1>1, <2>2, Places
    <3>2. ram'.created[m] = ram.created[m]
      BY <1>1, <1>6, <2>2 DEF Ram
    <3> QED
      BY <1>1, <1>2, <3>1, <3>2
  <2> QED
    BY <2>1, <2>2
<1>8. Progress(ram', flash')
  <2>1. flash' = "usable"
    BY <1>2 DEF ControlStart
  <2>2. CASE index < 4
    <3>1. ram'.control.round = "start" /\ ram'.control.index = index + 1
      BY <1>1, <1>6, <2>2, CallMoves
    <3>2. \A m \in Module : Place(m) < index + 1 <=> Place(m) <= index
      BY <1>1, Places
    <3> QED
      BY <1>2, <1>6, <1>7, <2>1, <3>1, <3>2 DEF Progress
  <2>3. CASE index = 4
    <3>1. ram'.control.round = "asleep" /\ ram'.control.index = 1
      BY <1>1, <1>6, <2>3, CallMoves
    <3>2. \A m \in Module : Place(m) <= index
      BY <2>3, Places
    <3> QED
      BY <1>2, <1>6, <1>7, <2>1, <3>1, <3>2 DEF Progress
  <2> QED
    BY <1>1, <2>2, <2>3
<1> QED
  BY <1>6, <1>8 DEF Prepared, ControlStart

\* A module task that runs, waits or sleeps changes nothing that start-up
\* needs; there is one only after the first round.
LEMMA TaskRuns ==
  ASSUME Prepared, NEW m \in Module,
         \/ Pass(m)
         \/ Wakes(m)
         \/ m = Tcp /\ (AcceptWaits \/ AcceptReturns)
  PROVE  Prepared'
<1>1. /\ ram \in Ram /\ ram.task[m] # "absent" /\ flash' = flash /\ resets' = resets
  BY DEF Prepared, Pass, Wakes, AcceptWaits, AcceptReturns
<1>2. ram.control.round \notin {"absent", "init"}
  BY <1>1 DEF Prepared, Progress, NoTasks
<1>3. /\ ram' \in Ram
      /\ ram'.main = ram.main /\ ram'.control = ram.control
      /\ ram'.status = ram.status /\ ram'.created = ram.created
      /\ ram.mailbox = "go_join" \/ ram.joined => ram'.mailbox = "go_join" \/ ram'.joined
  <2>1. CASE Pass(m)
    BY <1>1, <2>1 DEF Pass, Ram
  <2>2. CASE Wakes(m)
    BY <1>1, <2>2 DEF Wakes, Ram
  <2>3. CASE AcceptWaits
    BY <1>1, <2>3 DEF AcceptWaits, Ram
  <2>4. CASE AcceptReturns
    BY <1>1, <2>4 DEF AcceptReturns, Ram
  <2> QED
    BY <2>1, <2>2, <2>3, <2>4
<1>4. ram.main = "while" /\ flash = "usable"
  BY <1>1, <1>2 DEF Prepared, Progress
<1>5. Progress(ram', flash')
  BY <1>1, <1>2, <1>3, <1>4 DEF Prepared, Progress
<1> QED
  BY <1>1, <1>3, <1>5 DEF Prepared

\* Every step keeps the invariant.
LEMMA PreparedStep == Prepared /\ [Next]_startupVars => Prepared'
<1> SUFFICES ASSUME Prepared, [Next]_startupVars PROVE Prepared'
  OBVIOUS
<1>1. CASE AppMain
  BY <1>1, FlashCalls, MailboxCall, FirstMessage, MainCreated DEF AppMain
<1>2. CASE ControlInit
  BY <1>2, InitRound
<1>3. CASE ControlStart
  BY <1>3, StartRound
<1>4. CASE \E m \in Module : Pass(m)
  BY <1>4, TaskRuns
<1>5. CASE \E m \in Module : Wakes(m)
  BY <1>5, TaskRuns
<1>6. CASE Reset
  <2>1. resets' \in 0 .. MaxResets
    BY <1>6, StartupAssumption DEF Reset, Prepared
  <2>2. flash' \in Flash
    BY <1>6 DEF Reset, Prepared
  <2> QED
    BY <1>6, <2>1, <2>2, BootedIsFresh DEF Reset, Prepared
<1>7. CASE AcceptWaits \/ AcceptReturns
  BY <1>7, TaskRuns DEF Module
<1>8. CASE UNCHANGED startupVars
  BY <1>8 DEF Prepared, startupVars
<1> QED
  BY <1>1, <1>2, <1>3, <1>4, <1>5, <1>6, <1>7, <1>8 DEF Next

LEMMA PreparedInvariant == Spec => []Prepared
<1>1. Init => Prepared
  BY BootedIsFresh, StartupAssumption DEF Init, Prepared
<1> QED
  BY <1>1, PreparedStep, PTL DEF Spec

\* Every variable keeps to its range, through any number of resets.
THEOREM StartupTypeCorrect == Spec => []StartupTypeOK
<1>1. Prepared => StartupTypeOK
  BY DEF Prepared, StartupTypeOK, Ram, Main
<1> QED
  BY <1>1, PreparedInvariant, PTL

\* No module task exists before the flash is usable, the mailbox made with
\* its first message and every module initialised (My_Main.c:79, ControlFun.c:36).
THEOREM NobodyRunsUnprepared == Spec => []RunsPrepared
<1>1. Prepared => RunsPrepared
  <2> SUFFICES ASSUME Prepared, NEW m \in Module, ram.task[m] # "absent"
               PROVE  /\ flash = "usable"
                      /\ ram.mailbox = "go_join" \/ ram.joined
                      /\ ram.status = [n \in Module |-> IF n = Wifi THEN "any" ELSE "idle"]
    BY DEF RunsPrepared
  <2>1. ram.control.round \in {"start", "asleep"} /\ ram \in Ram
    BY DEF Prepared, Progress, NoTasks, Ram, Round
  <2>2. \A n \in Module : ram.status[n] = IF n = Wifi THEN "any" ELSE "idle"
    BY <2>1 DEF Prepared, Progress, Ready
  <2>3. ram.status = [n \in Module |-> IF n = Wifi THEN "any" ELSE "idle"]
    BY <2>1, <2>2 DEF Ram
  <2> QED
    BY <2>1, <2>3 DEF Prepared, Progress
<1> QED
  BY <1>1, PreparedInvariant, PTL

\* Each boot creates one task per module (ControlFun.c:47, My_Main.c:61).
THEOREM OneTaskPerModule == Spec => []StartedOnce
<1>1. Prepared => StartedOnce
  <2> SUFFICES ASSUME Prepared, NEW m \in Module PROVE ram.created[m] <= 1
    BY DEF StartedOnce
  <2>1. ram \in Ram /\ Progress(ram, flash)
    BY DEF Prepared
  <2>2. ram.control.round \in Round
    BY <2>1 DEF Ram
  <2>3. ram.created[m] = 0 \/ ram.created[m] = 1
    BY <2>1, <2>2 DEF Progress, NoTasks, Round
  <2> QED
    BY <2>3
<1> QED
  BY <1>1, PreparedInvariant, PTL
=============================================================================
