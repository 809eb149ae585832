----------------------------- MODULE AdhocMode -----------------------------
(***************************************************************************)
(* The WiFi manager when somebody asks it for access-point mode.  Its      *)
(* table has a row for E_WIFI_GO_ADHOC in any state, which the header      *)
(* calls self-posted; nothing in the repository posts it, so here it comes *)
(* from outside, at any moment after the driver was set up.  Before that   *)
(* the first call of WiF_Adhoc_Mode would answer ESP_ERR_WIFI_NOT_INIT and *)
(* abort.  The TCP server is not followed: it only gets the requests.      *)
(***************************************************************************)
EXTENDS WifiManager

CONSTANT MaxAdhoc      \* bound: how often access-point mode is asked for

ASSUME AdhocAssumption == MaxAdhoc \in Nat

VARIABLES
  adhocAsked,          \* how often it was asked for
  configured           \* how often the access point was configured

adhocVars == <<adhocAsked, configured>>
modeVars == <<taskVars, wifiVars, adhocVars>>

Init ==
  /\ inbox = [t \in Module |-> IF t = Wifi THEN WifiInbox ELSE << >>]
  /\ st = [t \in Module |-> WifiStatus]
  /\ at = [t \in Module |-> "absent"]
  /\ WifiInit
  /\ adhocAsked = 0
  /\ configured = 0

AskAdhoc ==
  /\ joins = 1
  /\ adhocAsked < MaxAdhoc
  /\ adhocAsked' = adhocAsked + 1
  /\ inbox' = Posted(Wifi, Wifi, "GO_ADHOC")
  /\ UNCHANGED <<st, at, wifiVars, configured>>

\* Slip: the access point is configured on every call.
AdhocEveryTime ==
  /\ at[Wifi] = "WiF_Adhoc_Mode"
  /\ configured' = configured + 1
  /\ link' = "access point"
  /\ Return(Wifi, inbox)
  /\ UNCHANGED <<ip, readyPhase, joins, losses, adhocAsked>>

\* On entry to the state the driver becomes an access point; every later
\* call, from the self-loop or the sentinel row, returns at once.
WiF_Adhoc_Mode ==
  /\ at[Wifi] = "WiF_Adhoc_Mode"
  /\ configured' = IF Fresh(Wifi) THEN configured + 1 ELSE configured
  /\ link' = IF Fresh(Wifi) THEN "access point" ELSE link
  /\ Return(Wifi, inbox)
  /\ UNCHANGED <<ip, readyPhase, joins, losses, adhocAsked>>

\* Events of the station that were under way when it became an access point.
LateEvent ==
  /\ link = "access point"
  /\ ip' \in {0, 1}
  /\ UNCHANGED <<taskVars, readyPhase, joins, link, losses, adhocVars>>

Next ==
  \/ Start(Wifi) /\ UNCHANGED <<wifiVars, adhocVars>>
  \/ AskAdhoc
  \/ WifiPoll /\ UNCHANGED adhocVars
  \/ wifi_Join_Process /\ UNCHANGED adhocVars
  \/ wifi_gotIp_State /\ UNCHANGED adhocVars
  \/ ReadyEnters /\ UNCHANGED adhocVars
  \/ ReadyWatches /\ UNCHANGED adhocVars
  \/ WiF_Adhoc_Mode
  \/ StaStart /\ UNCHANGED adhocVars
  \/ StaGotIp /\ UNCHANGED adhocVars
  \/ StaLost /\ UNCHANGED adhocVars
  \/ LateEvent

Spec == Init /\ [][Next]_modeVars

\* The manager's task runs again and again.
FairSpec ==
  /\ Spec
  /\ WF_modeVars(Start(Wifi) /\ UNCHANGED <<wifiVars, adhocVars>>)
  /\ WF_modeVars(WiF_Adhoc_Mode \/ (WifiStep /\ UNCHANGED adhocVars))
-----------------------------------------------------------------------------
\* Access-point mode is configured once, however often it is asked for and
\* however often the self-loop and the sentinel row call the handler again
\* (wifi.c:176).
ConfiguredOnce == configured <= 1

\* It is final: no message of the station that was under way and no late
\* event brings the manager back, so the address is never asked for again
\* and the TCP server gets no request any more.
AdhocIsFinal ==
  [](configured > 0 =>
       []( /\ st[Wifi].cur = "WIFI_ADHOC_ST"
           /\ at[Wifi] \in {"loop", "WiF_Adhoc_Mode"}))

\* A request that the mailbox took is carried out.
AdhocHappens ==
  (\E i \in DOMAIN inbox[Wifi] : inbox[Wifi][i].id = "GO_ADHOC") ~> configured > 0
=============================================================================
