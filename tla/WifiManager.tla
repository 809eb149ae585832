---------------------------- MODULE WifiManager ----------------------------
(***************************************************************************)
(* The WiFi manager of main/wifi.c: its table, its handlers, and the event *)
(* handlers that the ESP-IDF event task calls beside them and that share   *)
(* mu8_IpState with them.                                                  *)
(***************************************************************************)
EXTENDS Tasks

CONSTANT MaxLosses     \* bound: how often the station may lose its address

ASSUME WifiAssumption == MaxLosses \in Nat

VARIABLES
  ip,                  \* gst_IPInfo_State.mu8_IpState
  readyPhase,          \* slu8_SateMachine of wifi_ReadyStateProcess
  joins,               \* how often wifi_Join_Process has run
  link,                \* the driver: "off", "starting", "waiting" for an address, "up"
  losses               \* how often the address was lost

wifiVars == <<ip, readyPhase, joins, link, losses>>

\* Slip: the way back from the ready state is open in every state.
TableReturnsAnytime == <<
  Row("WIFI_JOIN_ST", Wifi, "GO_FOR_IP", "WIFI_GOT_IP_ST", "wifi_gotIp_State"),
  Row("WIFI_GOT_IP_ST", Wifi, "READY", "WIFI_READY_ST", "wifi_ReadyStateProcess"),
  Row(AnyState, Wifi, "GO_ADHOC", "WIFI_ADHOC_ST", "WiF_Adhoc_Mode"),
  Row(AnyState, Wifi, "GO_JOIN", "WIFI_JOIN_ST", "wifi_Join_Process"),
  Row(AnyState, Wifi, "GO_FOR_IP", "WIFI_GOT_IP_ST", "wifi_gotIp_State"),
  Row(AnInvalidState, Wifi, "GO_ADHOC", "WIFI_ADHOC_ST", "WiF_Adhoc_Mode") >>

\* scstar_WifiStateTable.  Its sentinel is spelt E_WIFI_INVALID, the same
\* number as E_WIFI_INVALID_STATE.
WifiTable == <<
  Row("WIFI_IDLE_ST", Wifi, "GO_ADHOC", "WIFI_ADHOC_ST", "WiF_Adhoc_Mode"),
  Row("WIFI_ADHOC_ST", Wifi, "PROCESS", "WIFI_PROCESS_ST", Null),
  Row("WIFI_PROCESS_ST", Wifi, "GO_JOIN", "WIFI_JOIN_ST", "wifi_Join_Process"),
  Row("WIFI_JOIN_ST", Wifi, "GO_FOR_IP", "WIFI_GOT_IP_ST", "wifi_gotIp_State"),
  Row("WIFI_GOT_IP_ST", Wifi, "READY", "WIFI_READY_ST", "wifi_ReadyStateProcess"),
  Row(AnyState, Wifi, "GO_ADHOC", "WIFI_ADHOC_ST", "WiF_Adhoc_Mode"),
  Row(AnyState, Wifi, "GO_JOIN", "WIFI_JOIN_ST", "wifi_Join_Process"),
  Row("WIFI_READY_ST", Wifi, "GO_FOR_IP", "WIFI_GOT_IP_ST", "wifi_gotIp_State"),
  Row(AnInvalidState, Wifi, "GO_ADHOC", "WIFI_ADHOC_ST", "WiF_Adhoc_Mode") >>

\* en_WIFI_StateType_t and en_WIFI_MsgType_t, less the markers for no and
\* invalid: this table does enter "any", its first state.
WifiState ==
  {"WIFI_IDLE_ST", "WIFI_ADHOC_ST", "WIFI_PROCESS_ST", "WIFI_JOIN_ST", "WIFI_GOT_IP_ST",
   "WIFI_READY_ST", "WIFI_DISCONNECT_ST", AnyState}
WifiMessage == {"GO_ADHOC", "GO_JOIN", "GO_FOR_IP", "PROCESS", "READY", "LOST_IP"}

\* Wifi_PreCheckingInfo has set the state and posted the first message.
WifiStatus == Status(AnyState, "WIFI_IDLE_ST", Null)
WifiInbox == <<Message(Wifi, "GO_JOIN")>>

WifiInit ==
  /\ ip = 0
  /\ readyPhase = 0
  /\ joins = 0
  /\ link = "off"
  /\ losses = 0
-----------------------------------------------------------------------------
\* Slip: a join that does not announce itself.
JoinWithoutPost ==
  /\ at[Wifi] = "wifi_Join_Process"
  /\ joins < 2
  /\ joins' = joins + 1
  /\ link' = "starting"
  /\ Return(Wifi, inbox)
  /\ UNCHANGED <<ip, readyPhase, losses>>

\* The driver is set up and started.  A second call would fail at
\* esp_event_loop_create_default, which ESP_ERROR_CHECK turns into an abort:
\* with joins = 2 the chip is down.
wifi_Join_Process ==
  /\ at[Wifi] = "wifi_Join_Process"
  /\ joins < 2
  /\ joins' = joins + 1
  /\ link' = "starting"
  /\ Return(Wifi, Posted(Wifi, Wifi, "GO_FOR_IP"))
  /\ UNCHANGED <<ip, readyPhase, losses>>

\* Slip: the address is asked for only once, on entering the state.
GotIpOnEntryOnly ==
  /\ at[Wifi] = "wifi_gotIp_State"
  /\ Return(Wifi, IF ip = 1 /\ Fresh(Wifi) THEN Posted(Wifi, Wifi, "READY") ELSE inbox)
  /\ UNCHANGED wifiVars

wifi_gotIp_State ==
  /\ at[Wifi] = "wifi_gotIp_State"
  /\ Return(Wifi, IF ip = 1 THEN Posted(Wifi, Wifi, "READY") ELSE inbox)
  /\ UNCHANGED wifiVars

\* On entry the TCP server is asked to open; after that every call looks
\* for a lost address.
ReadyEnters ==
  /\ at[Wifi] = "wifi_ReadyStateProcess"
  /\ Fresh(Wifi)
  /\ readyPhase' = 2
  /\ Return(Wifi, Posted(Wifi, Tcp, "OPEN_SOCKFD"))
  /\ UNCHANGED <<ip, joins, link, losses>>

ReadyWatches ==
  /\ at[Wifi] = "wifi_ReadyStateProcess"
  /\ ~ Fresh(Wifi)
  /\ readyPhase = 2
  /\ Return(Wifi, IF ip = 0 THEN Posted(Wifi, Wifi, "GO_FOR_IP") ELSE inbox)
  /\ UNCHANGED wifiVars

WifiPoll == (Receive(Wifi, WifiTable) \/ SelfLoop(Wifi)) /\ UNCHANGED wifiVars

WifiStep ==
  \/ WifiPoll
  \/ wifi_Join_Process
  \/ wifi_gotIp_State
  \/ ReadyEnters
  \/ ReadyWatches
-----------------------------------------------------------------------------
(* Events of the driver and the IP stack, in the event task. *)

StaStart ==
  /\ link = "starting"
  /\ link' = "waiting"
  /\ ip' = 0
  /\ UNCHANGED <<taskVars, readyPhase, joins, losses>>

StaGotIp ==
  /\ link = "waiting"
  /\ link' = "up"
  /\ ip' = 1
  /\ UNCHANGED <<taskVars, readyPhase, joins, losses>>

\* A disconnect, after which the station connects again, or a lost lease.
StaLost ==
  /\ link = "up"
  /\ losses < MaxLosses
  /\ link' = "waiting"
  /\ ip' = 0
  /\ losses' = losses + 1
  /\ UNCHANGED <<taskVars, readyPhase, joins>>
-----------------------------------------------------------------------------
WifiTypeOK ==
  /\ ip \in {0, 1}
  /\ readyPhase \in {0, 2}
  /\ joins \in 0 .. 2
  /\ link \in {"off", "starting", "waiting", "up"}
  /\ losses \in 0 .. MaxLosses
=============================================================================
