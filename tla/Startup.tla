------------------------------ MODULE Startup ------------------------------
(***************************************************************************)
(* From reset to running tasks: app_main and Main_Process of               *)
(* main/My_Main.c, execute_Control_Fun of main/ControlFun.c, and what the  *)
(* control function of each module does in the two rounds.  The flash      *)
(* outlives a reset, memory does not.                                      *)
(*                                                                         *)
(* One core, fixed priorities: app_main has the lowest but the idle task's *)
(* (1), Main_Process and the module tasks share a higher one (5).  A task  *)
(* gives way only to a higher one, or when it sleeps, or, to its equals,   *)
(* at a tick.                                                              *)
(***************************************************************************)
EXTENDS Naturals, Sequences

CONSTANTS
  Wifi, Tcp, Client, Udp,    \* en_gModules_t
  MaxResets                  \* bound: resets, whatever their cause

Module == {Wifi, Tcp, Client, Udp}

ASSUME StartupAssumption ==
  /\ Wifi \notin {Tcp, Client, Udp} /\ Tcp \notin {Client, Udp} /\ Client # Udp
  /\ MaxResets \in Nat

VARIABLES
  flash,                     \* the NVS partition
  ram,                       \* what a reset clears
  resets

startupVars == <<flash, ram, resets>>

\* "full" and "newer" are what nvs_flash_init answers with
\* ESP_ERR_NVS_NO_FREE_PAGES and ESP_ERR_NVS_NEW_VERSION_FOUND.
Flash == {"usable", "full", "newer"}

\* Where Main_Process is: not created, sending E_APP_INIT or
\* E_APP_TASK_START round the modules, or asleep.  The other requests of
\* en_ModActionReqType_t are never made.
Round == {"absent", "init", "start", "asleep"}

\* The power managing table: the order of both rounds.
scstar_pwrTaskControllingTable == <<Wifi, Tcp, Client, Udp>>

(***************************************************************************)
(* main: where app_main stands; mailbox: not made yet, empty, or with the  *)
(* first message; control: Main_Process, its round and its lu8_TaskIndex;  *)
(* per module, its status as memory holds it, its task, and how many tasks *)
(* were created for it; joined: did the manager take the first message?    *)
(***************************************************************************)
Booted ==
  [main |-> "nvs_init",
   mailbox |-> "none",
   control |-> [round |-> "absent", index |-> 1],
   status |-> [m \in Module |-> "zero"],
   task |-> [m \in Module |-> "absent"],
   created |-> [m \in Module |-> 0],
   joined |-> FALSE]

Init ==
  /\ flash \in Flash
  /\ ram = Booted
  /\ resets = 0

\* A task of priority 5 has work.
Busy ==
  \/ ram.control.round \in {"init", "start"}
  \/ \E m \in Module : ram.task[m] = "ready"
-----------------------------------------------------------------------------
(* Wifi_InitProcess, in app_main *)

\* Slip: an unusable partition is not erased before the second attempt.
NvsAgainAtOnce ==
  /\ ram.main = "nvs_init"
  /\ ram' = [ram EXCEPT !.main = IF flash = "usable" THEN "mailBox_Init" ELSE "nvs_again"]
  /\ UNCHANGED <<flash, resets>>

NvsInit ==
  /\ ram.main = "nvs_init"
  /\ ram' = [ram EXCEPT !.main = IF flash = "usable" THEN "mailBox_Init" ELSE "nvs_erase"]
  /\ UNCHANGED <<flash, resets>>

NvsErase ==
  /\ ram.main = "nvs_erase"
  /\ flash' = "usable"
  /\ ram' = [ram EXCEPT !.main = "nvs_again"]
  /\ UNCHANGED resets

\* ESP_ERROR_CHECK turns any other answer into an abort, which reboots.
NvsAgain ==
  /\ ram.main = "nvs_again"
  /\ ram' = IF flash = "usable" THEN [ram EXCEPT !.main = "mailBox_Init"] ELSE Booted
  /\ UNCHANGED <<flash, resets>>
-----------------------------------------------------------------------------
(* The rest of app_main *)

mailBox_Init ==
  /\ ram.main = "mailBox_Init"
  /\ ram' = [ram EXCEPT !.main = "Wifi_PreCheckingInfo", !.mailbox = "empty"]
  /\ UNCHANGED <<flash, resets>>

Wifi_PreCheckingInfo ==
  /\ ram.main = "Wifi_PreCheckingInfo"
  /\ ram' = [ram EXCEPT !.main = "xTaskCreate", !.mailbox = "go_join", !.status[Wifi] = "any"]
  /\ UNCHANGED <<flash, resets>>

\* Main_Process is created; app_main stays in its empty loop at priority 1.
CreateMainProcess ==
  /\ ram.main = "xTaskCreate"
  /\ ram' = [ram EXCEPT !.main = "while", !.control.round = "init"]
  /\ UNCHANGED <<flash, resets>>
-----------------------------------------------------------------------------
(* Main_Process and execute_Control_Fun *)

\* Slips: a loop that calls E_MAX_MODULE too; lu8_Satus not set to 2, so
\* execute_Control_Fun runs again; and one loop that initialises and starts
\* each module before it goes on to the next.
NextCallPastEnd(c) ==
  IF c.index <= Len(scstar_pwrTaskControllingTable)
  THEN [c EXCEPT !.index = @ + 1]
  ELSE [round |-> IF c.round = "init" THEN "start" ELSE "asleep", index |-> 1]
NextCallForEver(c) ==
  IF c.index < Len(scstar_pwrTaskControllingTable)
  THEN [c EXCEPT !.index = @ + 1]
  ELSE [round |-> IF c.round = "init" THEN "start" ELSE "init", index |-> 1]
NextCallOneLoop(c) ==
  CASE c.round = "init" -> [c EXCEPT !.round = "start"]
    [] c.round = "start" /\ c.index < Len(scstar_pwrTaskControllingTable) ->
         [round |-> "init", index |-> c.index + 1]
    [] OTHER -> [round |-> "asleep", index |-> 1]

\* The two loops of execute_Control_Fun; after them Main_Process only sleeps.
NextCall(c) ==
  IF c.index < Len(scstar_pwrTaskControllingTable)
  THEN [c EXCEPT !.index = @ + 1]
  ELSE [round |-> IF c.round = "init" THEN "start" ELSE "asleep", index |-> 1]

Called == scstar_pwrTaskControllingTable[ram.control.index]

\* A module's status after its E_APP_INIT: the manager's is left as
\* Wifi_PreCheckingInfo set it.
Initialised(m) == IF m = Wifi THEN ram.status[m] ELSE "idle"

\* E_APP_INIT
ControlInit ==
  /\ ram.control.round = "init"
  /\ ram' = [ram EXCEPT !.status[Called] = Initialised(Called),
                        !.control = NextCall(@)]
  /\ UNCHANGED <<flash, resets>>

\* E_APP_TASK_START
ControlStart ==
  /\ ram.control.round = "start"
  /\ ram.created[Called] < 2
  /\ ram' = [ram EXCEPT !.task[Called] = "ready",
                        !.created[Called] = @ + 1,
                        !.control = NextCall(@)]
  /\ UNCHANGED <<flash, resets>>
-----------------------------------------------------------------------------
(* The module tasks, as far as start-up and scheduling see them *)

\* One pass of a module's loop, to the vTaskDelay at its end.
Pass(m) ==
  /\ ram.task[m] = "ready"
  /\ LET takes == m = Wifi /\ ram.mailbox = "go_join" IN
     ram' = [ram EXCEPT !.task[m] = "asleep",
                        !.mailbox = IF takes THEN "empty" ELSE @,
                        !.joined = @ \/ takes]
  /\ UNCHANGED <<flash, resets>>

Wakes(m) ==
  /\ ram.task[m] = "asleep"
  /\ ram' = [ram EXCEPT !.task[m] = "ready"]
  /\ UNCHANGED <<flash, resets>>

\* Once the manager had its first message an address may come and with it a
\* request to the TCP server, whose pass then blocks inside accept.
AcceptWaits ==
  /\ ram.task[Tcp] = "ready"
  /\ ram.joined
  /\ ram' = [ram EXCEPT !.task[Tcp] = "waiting"]
  /\ UNCHANGED <<flash, resets>>

\* A client, or an error, ends the call, and the pass goes on.
AcceptReturns ==
  /\ ram.task[Tcp] = "waiting"
  /\ ram' = [ram EXCEPT !.task[Tcp] = "ready"]
  /\ UNCHANGED <<flash, resets>>

\* Power fails, or something aborts.  A partition that was being erased is
\* in any condition.
Reset ==
  /\ resets < MaxResets
  /\ resets' = resets + 1
  /\ flash' \in IF ram.main = "nvs_erase" THEN Flash ELSE {flash}
  /\ ram' = Booted
-----------------------------------------------------------------------------
AppMain ==
  /\ ~ Busy
  /\ \/ NvsInit
     \/ NvsErase
     \/ NvsAgain
     \/ mailBox_Init
     \/ Wifi_PreCheckingInfo
     \/ CreateMainProcess

Next ==
  \/ AppMain
  \/ ControlInit
  \/ ControlStart
  \/ \E m \in Module : Pass(m)
  \/ \E m \in Module : Wakes(m)
  \/ AcceptWaits
  \/ AcceptReturns
  \/ Reset

Spec == Init /\ [][Next]_startupVars

\* A task of its own accord: to the delay, or into accept.
Runs(m) == Pass(m) \/ (m = Tcp /\ AcceptWaits)

(***************************************************************************)
(* The scheduler runs the highest task that is ready and takes equals in   *)
(* turn, so a task that is ready gets to its delay or to accept; delays    *)
(* end.  Nobody promises a client: nothing is asked of a task in accept.   *)
(***************************************************************************)
FairSpec ==
  /\ Spec
  /\ WF_startupVars(AppMain)
  /\ WF_startupVars(ControlInit \/ ControlStart)
  /\ \A m \in Module : WF_startupVars(Runs(m)) /\ WF_startupVars(Wakes(m))
-----------------------------------------------------------------------------
\* The type of every variable.
StartupTypeOK ==
  /\ flash \in Flash
  /\ resets \in 0 .. MaxResets
  /\ ram \in [
       main : {"nvs_init", "nvs_erase", "nvs_again", "mailBox_Init", "Wifi_PreCheckingInfo",
               "xTaskCreate", "while"},
       mailbox : {"none", "empty", "go_join"},
       control : [round : Round, index : 1 .. 4],
       status : [Module -> {"zero", "any", "idle"}],
       task : [Module -> {"absent", "ready", "asleep", "waiting"}],
       created : [Module -> 0 .. 2],
       joined : BOOLEAN]

\* No module task exists before the flash is usable, the mailbox made with
\* the first message in it or taken, and every module initialised: whichever
\* task the first tick switches to, in the middle of the start round, finds
\* what Init of module Station says.
RunsPrepared ==
  (\E m \in Module : ram.task[m] # "absent") =>
    /\ flash = "usable"
    /\ ram.mailbox = "go_join" \/ ram.joined
    /\ ram.status = [m \in Module |-> IF m = Wifi THEN "any" ELSE "idle"]

\* However often the board is reset, each boot creates one task per module,
\* although Main_Process calls execute_Control_Fun from an endless loop.
StartedOnce == \A m \in Module : ram.created[m] <= 1

\* After finitely many resets, a reset in the middle of an erase included,
\* the manager has its first message and every task runs again and again,
\* but the TCP server's, which may end up waiting for a client in accept:
\* a full or newer partition does not end in a loop of reboots (My_Main.c:35).
ComesUp ==
  /\ <>[]ram.joined
  /\ \A m \in Module \ {Tcp} :
       []<>(ram.task[m] = "ready") /\ []<>(ram.task[m] = "asleep")
  /\ []<>(ram.task[Tcp] \in {"asleep", "waiting"})
=============================================================================
