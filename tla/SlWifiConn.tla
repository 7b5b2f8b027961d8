----------------------------- MODULE SlWifiConn -----------------------------
(***************************************************************************)
(* The Wi-Fi connection manager (slwificonn.c).  One thread, the state     *)
(* machine (SM), takes events from a message queue and runs the handler of *)
(* its current state; the application calls the SlWifiConn API, SimpleLink *)
(* callbacks and the timer thread post events.                             *)
(*                                                                         *)
(* A handler is a script: the sequence of calls it makes, each of which is *)
(* a step of the SM.  The SM holds g_csLock while its script runs, except  *)
(* inside a notification (NotifyNetIf, NotifyWifiApp), where it gives the  *)
(* lock up and any API call may come in.                                   *)
(*                                                                         *)
(* The device is in station role throughout (SlWifiConn_setRole is not     *)
(* called).  Durations are abstracted: an armed timer may expire at any    *)
(* time.                                                                   *)
(***************************************************************************)
EXTENDS Integers, Sequences

CONSTANTS
  EventQMax,  \* mq_maxmsg of the event queue (10 in the code)
  DeferMax,   \* mq_maxmsg of the deferred-event queue (3 in the code)
  Backlog,    \* bound: the environment posts only while fewer events wait
  Api,        \* the API calls the application makes, a subset of ApiKinds
  Modes,      \* provisioning modes the application asks for
  Commands,   \* provisioning commands: "ext" is EXTERNAL_CONFIGURATION, else "nwp"
  Requests,   \* bound: the states in which RESET_REQUEST events are posted
  IpModes     \* what sl_NetCfgGet may report: "dhcp", and "static0" (bypass mode)

ApiKinds == {"enable", "disable", "enableProvisioning", "addProfile",
             "addNonPersistent", "extCompleted", "reset", "stats", "deinit"}

State == {"OFF", "IDLE", "WAIT_FOR_CONN", "WAIT_FOR_IP", "CONNECTED",
          "PROVISIONING", "PROV_STOPPING", "EXT_PROVISIONING"}

ASSUME QueueAssumption ==
  EventQMax \in Nat /\ DeferMax \in Nat \ {0} /\ Backlog \in 1 .. EventQMax
ASSUME ApiAssumption == Api \subseteq ApiKinds
ASSUME ModeAssumption ==
  Modes \subseteq {"OFF", "ONE_SHOT", "ON"} /\ Commands \subseteq {"nwp", "ext"}
ASSUME RequestAssumption == Requests \subseteq State
ASSUME IpModeAssumption == IpModes \subseteq {"dhcp", "static0"}

(* PROV_EXT_READY stands for PROV_EXT_CONFIG_READY and PROV_CLOUD_CONFIRM_READY *)
Event == {"ENABLE", "DISABLE", "CONNECTED", "DISCONNECT", "IP_ACQUIRED",
          "IP_LOST", "PROV_SUCCESS", "PROV_STOPPED", "PROV_EXT_READY",
          "ENABLE_PROVISIONING", "ADD_PROFILE", "EXT_PROV_COMPLETED",
          "TIMEOUT", "ERROR", "RESET_REQUEST", "DESTROY"}

None == "none"

VARIABLES
  state,             \* g_ctx->state, or "GONE" once g_ctx is freed
  eventQ,            \* events waiting for the SM
  deferQ,            \* events put off while provisioning is active
  script,            \* what is left of the SM's current handler
  deinit,            \* a SlWifiConn_deinit has found the SM off, and has yet to post
  api,               \* the posts an API call still has to make, holding g_csLock
  armed,             \* the timer runs
  provMode,          \* g_ctx->provMode
  provCmd,           \* g_ctx->provCmd: "ext" for EXTERNAL_CONFIGURATION
  nonPersistent,     \* pNonPersistentProfile is set
  bWlanConnectUsed,  \* sl_WlanConnect was called with it
  bStatsEnabled,     \* statistics are collected while connected
  netif,             \* what SlNetIf was told last: "down", "mac" or "ip"
  policy,            \* the NWP's connection policy: "auto" or "off"
  link,              \* the NWP's link: "down", "up", "ip" or "closing"
  nwpProv            \* the NWP's provisioning: "off", "on" or "stopping"

appVars  == <<provMode, provCmd, nonPersistent, bStatsEnabled, deinit>>
nwpVars  == <<policy, link, nwpProv>>
ctxVars  == <<state, armed, bWlanConnectUsed, netif>>
queues   == <<eventQ, deferQ>>
vars == <<state, queues, script, api, armed, appVars, bWlanConnectUsed,
          netif, nwpVars>>

(* SlWifiConn_init: SM off, auto-connect suspended *)
Init ==
  /\ state = "OFF" /\ eventQ = <<>> /\ deferQ = <<>>
  /\ script = <<>> /\ api = <<>> /\ armed = FALSE
  /\ provMode = "OFF" /\ provCmd = "nwp"
  /\ nonPersistent = FALSE /\ bWlanConnectUsed = FALSE
  /\ bStatsEnabled = FALSE /\ deinit = FALSE
  /\ netif = "down" /\ policy = "off" /\ link = "down" /\ nwpProv = "off"

(* Somewhere the SM has given g_csLock up, or has not taken it yet *)
Unlocked == script # <<>> => script[1][1] \in {"app", "netif", "event"}

(* g_csLock can be taken *)
CsFree == api = <<>> /\ Unlocked

(***************************************************************************)
(* The other threads take their steps while the SM does not hold the lock  *)
(* or is about to post itself.  Between two such points the SM neither     *)
(* reads the event queue nor posts, so a step of theirs in between could   *)
(* as well come before or after: TLC need not explore it.                  *)
(***************************************************************************)
Interruptible ==
  script # <<>> => script[1][1] \in {"app", "netif", "event", "defer",
                                     "deferredOrWait"}

(* SignalEvent: mq_send on the event queue, which blocks while it is full *)
SignalEvent(e) ==
  /\ state # "GONE" /\ Len(eventQ) < EventQMax
  /\ eventQ' = Append(eventQ, e)

-----------------------------------------------------------------------------
(* Scripts: the calls of the transition helpers, in order *)

SuspendNWP == << <<"policy", "off">>, <<"app", "POWERED_DOWN">> >>

ResumeNWP == << <<"policy", "auto">>, <<"app", "POWERED_UP">> >>

StartTimer == << <<"timer", TRUE>> >>

StopTimer == << <<"timer", FALSE>> >>

NotifyNetIf(x) == << <<"netif", x>> >>

NotifyWifiApp(x) == << <<"app", x>> >>

Goto(s) == << <<"goto", s>> >>

(* Mutant: no watchdog while idle *)
EnterIDLENoTimer == SuspendNWP \o StopTimer \o Goto("IDLE")

EnterIDLE == SuspendNWP \o StartTimer \o Goto("IDLE")

EnterWAIT_FOR_CONN(bWlanDisconnect) ==
  << <<"defer", None>>, <<"nonpersistent", bWlanDisconnect>> >>
    \o StartTimer \o Goto("WAIT_FOR_CONN")

EnterCONNECTED(bNotify) ==
  StopTimer \o (IF bNotify THEN NotifyNetIf("ip") ELSE <<>>)
    \o << <<"stats", None>> >> \o Goto("CONNECTED")

EnterWAIT_FOR_IP == NotifyNetIf("mac") \o << <<"netcfg", None>> >>

(***************************************************************************)
(* EnterPROVISIONING.  With an external configuration only, the NWP is not *)
(* told to provision.                                                      *)
(***************************************************************************)
EnterPROVISIONING ==
  (IF provCmd = "ext"
   THEN NotifyWifiApp("EXTERNAL_PROVISIONING_START_REQ")
          \o Goto("EXT_PROVISIONING")
   ELSE << <<"provstart", None>> >> \o Goto("PROVISIONING")
          \o << <<"oneshot", None>> >>)
  \o StartTimer

(* e is the event to put off, or None *)
EnterPROV_STOPPING(e) ==
  StopTimer \o (IF e = None THEN <<>> ELSE << <<"enqueue", e>> >>)
    \o << <<"provstop", None>> >> \o Goto("PROV_STOPPING")

WlanDisconnect == << <<"disconnect", None>> >>

ResetNWP == << <<"reset", None>> >>

(***************************************************************************)
(* CollectAndNotifyStats.  The state cannot change under it: only the SM   *)
(* thread, which runs it, writes the state.                                *)
(***************************************************************************)
CollectAndNotifyStats ==
  NotifyWifiApp("STATS_PAUSE") \o NotifyWifiApp("STATS_RESUME")
    \o NotifyWifiApp("STATS_RESULT") \o << <<"stats", None>> >>

(* Mutant: DISABLE does not tell SlNetIf *)
UnsupportedSilent(e) ==
  IF e # "DISABLE" THEN <<>> ELSE SuspendNWP \o Goto("OFF")

(***************************************************************************)
(* The global part of ProcessEvent: an event that its state's handler does *)
(* not support is dropped, but DISABLE works everywhere.                   *)
(***************************************************************************)
Unsupported(e) ==
  IF e # "DISABLE" THEN <<>>
  ELSE SuspendNWP
         \o (IF state \in {"WAIT_FOR_IP", "CONNECTED"}
             THEN WlanDisconnect \o NotifyNetIf("down") ELSE <<>>)
         \o Goto("OFF")

-----------------------------------------------------------------------------
(* The handler of each state *)

smState_OFF(e) ==
  CASE e = "ENABLE" -> ResumeNWP \o EnterWAIT_FOR_CONN(FALSE)
    [] e = "DISABLE" -> <<>>
    [] OTHER -> Unsupported(e)

(* Mutant: idle looks off enough *)
smState_IDLEStays(e) ==
  CASE e \in {"ENABLE_PROVISIONING", "ADD_PROFILE", "TIMEOUT"} ->
         ResumeNWP \o EnterWAIT_FOR_CONN(FALSE)
    [] OTHER -> <<>>

smState_IDLE(e) ==
  CASE e \in {"ENABLE_PROVISIONING", "ADD_PROFILE", "TIMEOUT"} ->
         ResumeNWP \o EnterWAIT_FOR_CONN(FALSE)
    [] e = "CONNECTED" -> StopTimer \o StartTimer \o Goto("WAIT_FOR_IP")
    [] OTHER -> Unsupported(e)

(***************************************************************************)
(* When provisioning starts the application is told, unless the value that *)
(* EnterPROVISIONING returns, uninitialized for an external configuration, *)
(* is not 0; a notification that is left out is one nobody used.           *)
(***************************************************************************)
smState_WAIT_FOR_CONN(e) ==
  CASE e = "ADD_PROFILE" -> EnterWAIT_FOR_CONN(FALSE)
    [] e = "CONNECTED" -> EnterWAIT_FOR_IP
    [] e = "IP_ACQUIRED" -> EnterCONNECTED(TRUE)
    [] e = "TIMEOUT" /\ bWlanConnectUsed -> EnterWAIT_FOR_CONN(TRUE)
    [] e = "TIMEOUT" /\ ~bWlanConnectUsed /\ provMode # "OFF" ->
         EnterPROVISIONING \o NotifyWifiApp("PROVISIONING_STARTED")
    [] e = "TIMEOUT" /\ ~bWlanConnectUsed /\ provMode = "OFF" -> EnterIDLE
    [] OTHER -> Unsupported(e)

(* Mutant: a lost link is not reported *)
smState_WAIT_FOR_IPSilent(e) ==
  CASE e = "ADD_PROFILE" -> <<>>
    [] e = "IP_ACQUIRED" -> EnterCONNECTED(TRUE)
    [] e = "TIMEOUT" ->
         WlanDisconnect \o NotifyNetIf("down") \o EnterWAIT_FOR_CONN(FALSE)
    [] e = "DISCONNECT" -> EnterWAIT_FOR_CONN(FALSE)
    [] OTHER -> Unsupported(e)

smState_WAIT_FOR_IP(e) ==
  CASE e = "ADD_PROFILE" -> <<>>
    [] e = "IP_ACQUIRED" -> EnterCONNECTED(TRUE)
    [] e = "TIMEOUT" ->
         WlanDisconnect \o NotifyNetIf("down") \o EnterWAIT_FOR_CONN(FALSE)
    [] e = "DISCONNECT" -> NotifyNetIf("down") \o EnterWAIT_FOR_CONN(FALSE)
    [] OTHER -> Unsupported(e)

(* Mutant: waits for IP_LOST instead of DISCONNECT *)
smState_CONNECTEDKeeps(e) ==
  CASE e = "IP_LOST" -> StopTimer \o StartTimer \o Goto("WAIT_FOR_IP")
    [] e = "TIMEOUT" -> IF bStatsEnabled THEN CollectAndNotifyStats ELSE <<>>
    [] OTHER -> Unsupported(e)

smState_CONNECTED(e) ==
  CASE e \in {"IP_ACQUIRED", "ADD_PROFILE"} -> <<>>
    [] e = "DISCONNECT" ->
         StopTimer \o NotifyNetIf("down") \o EnterWAIT_FOR_CONN(FALSE)
    [] e = "IP_LOST" -> StopTimer \o StartTimer \o Goto("WAIT_FOR_IP")
    [] e = "RESET_REQUEST" ->
         StopTimer \o NotifyNetIf("down") \o ResetNWP
           \o EnterWAIT_FOR_CONN(FALSE)
    [] e = "TIMEOUT" -> IF bStatsEnabled THEN CollectAndNotifyStats ELSE <<>>
    [] OTHER -> Unsupported(e)

smState_PROVISIONING(e) ==
  CASE e = "PROV_SUCCESS" -> StopTimer \o Goto("PROV_STOPPING")
    [] e \in {"DISABLE", "TIMEOUT"} -> EnterPROV_STOPPING(e)
    [] e = "ADD_PROFILE" -> EnterPROV_STOPPING(None)
    [] e = "ERROR" -> << <<"retry", None>> >> \o EnterPROV_STOPPING(e)
    [] e = "PROV_STOPPED" ->
         StopTimer \o NotifyWifiApp("PROVISIONING_FAILED") \o EnterIDLE
    [] e = "PROV_EXT_READY" ->
         NotifyWifiApp("EXTERNAL_START_REQ") \o Goto("EXT_PROVISIONING")
    [] OTHER -> Unsupported(e)

smState_EXT_PROVISIONING(e) ==
  CASE e \in {"EXT_PROV_COMPLETED", "ADD_PROFILE"} ->
         EnterPROV_STOPPING("EXT_PROV_COMPLETED")
    [] e = "TIMEOUT" ->
         NotifyWifiApp("EXTERNAL_STOP_REQ")
           \o NotifyWifiApp("PROVISIONING_FAILED") \o EnterPROV_STOPPING(e)
    [] e = "RESET_REQUEST" ->
         NotifyWifiApp("EXTERNAL_STOP_REQ") \o ResetNWP \o Goto("PROVISIONING")
    [] OTHER -> Unsupported(e)

(* SetRole(ROLE_STA) in EXT_PROV_COMPLETED finds the role as it should be *)
smState_PROV_STOPPING(e) ==
  CASE e = "CONNECTED" ->
         NotifyWifiApp("PROVISIONING_SUCCEED") \o NotifyNetIf("mac")
           \o EnterCONNECTED(TRUE)
    [] e = "PROV_STOPPED" ->
         NotifyWifiApp("PROVISIONING_STOPPED") \o << <<"deferredOrWait", None>> >>
    [] e \in {"EXT_PROV_COMPLETED", "ADD_PROFILE"} -> EnterWAIT_FOR_CONN(FALSE)
    [] e = "ERROR" -> EnterPROVISIONING
    [] e = "TIMEOUT" -> EnterIDLE
    [] OTHER -> Unsupported(e)

(* ProcessEvent *)
Handler(e) ==
  CASE state = "OFF" -> smState_OFF(e)
    [] state = "IDLE" -> smState_IDLE(e)
    [] state = "WAIT_FOR_CONN" -> smState_WAIT_FOR_CONN(e)
    [] state = "WAIT_FOR_IP" -> smState_WAIT_FOR_IP(e)
    [] state = "CONNECTED" -> smState_CONNECTED(e)
    [] state = "PROVISIONING" -> smState_PROVISIONING(e)
    [] state = "EXT_PROVISIONING" -> smState_EXT_PROVISIONING(e)
    [] state = "PROV_STOPPING" -> smState_PROV_STOPPING(e)

-----------------------------------------------------------------------------
(* The SM thread *)

(* mq_receive returns *)
Receive ==
  /\ script = <<>> /\ eventQ # <<>> /\ state # "GONE"
  /\ eventQ' = Tail(eventQ)
  /\ script' = << <<"event", Head(eventQ)>> >>
  /\ UNCHANGED <<ctxVars, deferQ, api, appVars, nwpVars>>

(* CRITICAL_SECTION_ENTER, then ProcessEvent chooses the handler *)
ProcessEvent ==
  /\ script # <<>> /\ script[1][1] = "event" /\ api = <<>>
  /\ script[1][2] # "DESTROY"
  /\ script' = Handler(script[1][2])
  /\ UNCHANGED <<ctxVars, queues, api, appVars, nwpVars>>

(* SlWifiConn_process ends with Deinit: queues, timer, NWP and context go *)
Deinit ==
  /\ script = << <<"event", "DESTROY">> >> /\ api = <<>>
  /\ script' = <<>>
  /\ state' = "GONE"
  /\ eventQ' = <<>> /\ deferQ' = <<>>
  /\ armed' = FALSE /\ nonPersistent' = FALSE
  /\ link' = "down" /\ nwpProv' = "off"
  /\ UNCHANGED <<api, provMode, provCmd, bStatsEnabled, deinit,
                 bWlanConnectUsed, netif, policy>>

(* The next call of the script is c, and returns *)
Call(c) ==
  /\ script # <<>> /\ script[1][1] = c
  /\ script' = Tail(script)

(* g_csLock is released, the callback runs, and the lock is taken again *)
CallApp ==
  /\ Call("app") /\ api = <<>>
  /\ UNCHANGED <<ctxVars, queues, api, appVars, nwpVars>>

CallNetIf ==
  /\ Call("netif") /\ api = <<>>
  /\ netif' = script[1][2]
  /\ UNCHANGED <<state, armed, bWlanConnectUsed, queues, api, appVars, nwpVars>>

SetState ==
  /\ Call("goto")
  /\ state' = script[1][2]
  /\ UNCHANGED <<armed, bWlanConnectUsed, netif, queues, api, appVars, nwpVars>>

(* StartAsyncEvtTimer and StopAsyncEvtTimer: a TIMEOUT already posted stays *)
SetTimer ==
  /\ Call("timer")
  /\ armed' = script[1][2]
  /\ UNCHANGED <<state, bWlanConnectUsed, netif, queues, api, appVars, nwpVars>>

(* Mutant: the statistics are collected once *)
StatsTimerOnce ==
  /\ Call("stats")
  /\ UNCHANGED <<ctxVars, queues, api, appVars, nwpVars>>

(* EnterCONNECTED and CollectAndNotifyStats: the timer paces the statistics *)
StatsTimer ==
  /\ Call("stats")
  /\ armed' = (armed \/ bStatsEnabled)
  /\ UNCHANGED <<state, bWlanConnectUsed, netif, queues, api, appVars, nwpVars>>

(* sl_WlanPolicySet in SuspendNWP and ResumeNWP *)
SetPolicy ==
  /\ Call("policy")
  /\ policy' = script[1][2]
  /\ UNCHANGED <<ctxVars, queues, api, appVars, link, nwpProv>>

Closing(l) == IF l = "down" THEN "down" ELSE "closing"

CallDisconnect ==
  /\ Call("disconnect")
  /\ link' = Closing(link)
  /\ UNCHANGED <<ctxVars, queues, api, appVars, policy, nwpProv>>

(* Mutant: the ip timeout is not started *)
NetCfgGetNoTimer ==
  /\ script = << <<"netcfg", None>> >>
  /\ script' = StopTimer \o Goto("WAIT_FOR_IP")
  /\ UNCHANGED <<ctxVars, queues, api, appVars, nwpVars>>

(* EnterWAIT_FOR_IP asks the NWP: with the static IP 0 no IP_ACQUIRED comes *)
NetCfgGet ==
  /\ script = << <<"netcfg", None>> >>
  /\ \E mode \in IpModes :
        script' = IF mode = "static0" THEN EnterCONNECTED(FALSE)
                                      ELSE StartTimer \o Goto("WAIT_FOR_IP")
  /\ UNCHANGED <<ctxVars, queues, api, appVars, nwpVars>>

(***************************************************************************)
(* NonPersistentProfile_process: drop the connection made with the         *)
(* non-persistent profile, or ask for one.                                 *)
(***************************************************************************)
NonPersistentProfile ==
  /\ Call("nonpersistent")
  /\ IF script[1][2]
     THEN /\ bWlanConnectUsed' = FALSE
          /\ link' = Closing(link)
     ELSE /\ bWlanConnectUsed' = (bWlanConnectUsed \/ nonPersistent)
          /\ UNCHANGED link
  /\ UNCHANGED <<state, armed, netif, queues, api, appVars, policy, nwpProv>>

(* DeferredEvent_process: every deferred event moves to the event queue *)
DeferredEvent ==
  /\ script # <<>> /\ script[1][1] = "defer"
  /\ IF deferQ = <<>>
     THEN /\ script' = Tail(script)
          /\ UNCHANGED queues
     ELSE /\ SignalEvent(Head(deferQ))
          /\ deferQ' = Tail(deferQ)
          /\ UNCHANGED script
  /\ UNCHANGED <<ctxVars, api, appVars, nwpVars>>

(* Mutant: always waits for deferred events *)
DeferredOnly ==
  /\ script # <<>> /\ script[1][1] = "deferredOrWait"
  /\ script' = << <<"defer", None>> >>
  /\ UNCHANGED <<ctxVars, queues, api, appVars, nwpVars>>

(* smState_PROV_STOPPING on PROV_STOPPED: nothing deferred, so go on *)
DeferredOrWait ==
  /\ script # <<>> /\ script[1][1] = "deferredOrWait"
  /\ script' = IF deferQ = <<>> THEN EnterWAIT_FOR_CONN(FALSE)
                                ELSE << <<"defer", None>> >>
  /\ UNCHANGED <<ctxVars, queues, api, appVars, nwpVars>>

(* DeferredEvent_enqueue: mq_send, which blocks while the queue is full *)
EnqueueDeferred ==
  /\ Call("enqueue") /\ Len(deferQ) < DeferMax
  /\ deferQ' = Append(deferQ, script[1][2])
  /\ UNCHANGED <<ctxVars, eventQ, api, appVars, nwpVars>>

(***************************************************************************)
(* ResetNWP: sl_Stop and sl_Start drop the link without an event, and the  *)
(* connection policy is set again for the state the SM is in.              *)
(***************************************************************************)
NwpReset ==
  /\ link' = "down" /\ nwpProv' = "off"
  /\ policy' = IF state \in {"OFF", "IDLE"} THEN "off" ELSE "auto"

CallReset ==
  /\ Call("reset")
  /\ NwpReset
  /\ UNCHANGED <<ctxVars, queues, api, appVars>>

(***************************************************************************)
(* sl_WlanProvisioning starts provisioning; it fails when the NWP is still *)
(* at it, and the assertion on its result stops the thread.                *)
(***************************************************************************)
StartProvisioning ==
  /\ script # <<>> /\ script[1][1] = "provstart"
  /\ IF nwpProv = "off"
     THEN /\ script' = Tail(script)
          /\ nwpProv' = "on"
          /\ link' = Closing(link)
     ELSE /\ script' = << <<"halted", None>> >>
          /\ UNCHANGED <<link, nwpProv>>
  /\ UNCHANGED <<ctxVars, queues, api, appVars, policy>>

StopProvisioning ==
  /\ Call("provstop")
  /\ nwpProv' = "stopping"
  /\ UNCHANGED <<ctxVars, queues, api, appVars, policy, link>>

(* provMode: one shot is used up, or is needed again after an error *)
SetProvMode ==
  /\ script # <<>> /\ script[1][1] \in {"oneshot", "retry"}
  /\ script' = Tail(script)
  /\ provMode' =
       IF script[1][1] = "oneshot"
       THEN IF provMode = "ONE_SHOT" THEN "OFF" ELSE provMode
       ELSE IF provMode = "OFF" THEN "ONE_SHOT" ELSE provMode
  /\ UNCHANGED <<ctxVars, queues, api, provCmd, nonPersistent, bStatsEnabled,
                 deinit, nwpVars>>

SmStep ==
  \/ Receive \/ ProcessEvent \/ Deinit
  \/ CallApp \/ CallNetIf \/ SetState \/ SetTimer \/ StatsTimer \/ SetPolicy
  \/ CallDisconnect \/ NetCfgGet \/ NonPersistentProfile \/ DeferredEvent \/ DeferredOrWait
  \/ EnqueueDeferred \/ CallReset \/ StartProvisioning
  \/ StopProvisioning \/ SetProvMode

-----------------------------------------------------------------------------
(* The application *)

MayPost == Interruptible /\ state # "GONE" /\ Len(eventQ) < Backlog

(* The calls that only post an event, without g_csLock *)
PostOnly == [enable |-> "ENABLE", disable |-> "DISABLE",
             extCompleted |-> "EXT_PROV_COMPLETED"]

ApiPost(c) ==
  /\ c \in Api /\ MayPost
  /\ SignalEvent(PostOnly[c])
  /\ UNCHANGED <<ctxVars, deferQ, script, api, appVars, nwpVars>>

(***************************************************************************)
(* SlWifiConn_deinit looks at the state without g_csLock, and then posts:  *)
(* the SM may have left OFF meanwhile.  One call at a time.                *)
(***************************************************************************)
ApiDeinit ==
  /\ "deinit" \in Api /\ Interruptible /\ ~deinit
  /\ state = "OFF"
  /\ deinit' = TRUE
  /\ UNCHANGED <<ctxVars, queues, script, api, provMode, provCmd, nonPersistent,
                 bStatsEnabled, nwpVars>>

ApiDestroy ==
  /\ deinit /\ MayPost
  /\ SignalEvent("DESTROY") /\ deinit' = FALSE
  /\ UNCHANGED <<ctxVars, deferQ, script, api, provMode, provCmd, nonPersistent,
                 bStatsEnabled, nwpVars>>

ApiEnableProvisioning(mode, command) ==
  /\ "enableProvisioning" \in Api /\ MayPost /\ CsFree
  /\ provMode' = mode /\ provCmd' = command
  /\ api' = << <<"post", "ENABLE_PROVISIONING">> >>
  /\ UNCHANGED <<ctxVars, queues, script, nonPersistent, bStatsEnabled,
                 deinit, nwpVars>>

(***************************************************************************)
(* SlWifiConn_addProfile.  A profile that cannot be stored because         *)
(* provisioning is in progress is deferred first.                          *)
(***************************************************************************)
ApiAddProfile ==
  /\ "addProfile" \in Api /\ MayPost /\ CsFree
  /\ api' = (IF nwpProv = "off" THEN <<>> ELSE << <<"defer", "ADD_PROFILE">> >>)
              \o << <<"post", "ADD_PROFILE">> >>
  /\ UNCHANGED <<ctxVars, queues, script, appVars, nwpVars>>

ApiAddNonPersistent ==
  /\ "addNonPersistent" \in Api /\ MayPost /\ CsFree
  /\ nonPersistent' = TRUE
  /\ api' = << <<"post", "ADD_PROFILE">> >>
  /\ UNCHANGED <<ctxVars, queues, script, provMode, provCmd, bStatsEnabled,
                 deinit, nwpVars>>

(* Mutant: the deferred queue takes any number of commands *)
ApiDeferUnbounded ==
  /\ api # <<>> /\ api[1][1] = "defer"
  /\ deferQ' = Append(deferQ, api[1][2])
  /\ api' = Tail(api)
  /\ UNCHANGED <<ctxVars, eventQ, script, appVars, nwpVars>>

(* Still holding g_csLock, the call makes its posts and gives the lock back *)
ApiDefer ==
  /\ api # <<>> /\ api[1][1] = "defer" /\ Len(deferQ) < DeferMax
  /\ deferQ' = Append(deferQ, api[1][2])
  /\ api' = Tail(api)
  /\ UNCHANGED <<ctxVars, eventQ, script, appVars, nwpVars>>

ApiReturn ==
  /\ api # <<>> /\ api[1][1] = "post"
  /\ SignalEvent(api[1][2])
  /\ api' = <<>>
  /\ UNCHANGED <<ctxVars, deferQ, script, appVars, nwpVars>>

(* SlWifiConn_reset: refused unless the state is OFF *)
ApiReset ==
  /\ "reset" \in Api /\ CsFree
  /\ state = "OFF"
  /\ NwpReset
  /\ UNCHANGED <<ctxVars, queues, script, api, appVars>>

(* SlWifiConn_enableStats and SlWifiConn_disableStats *)
ApiStats(b) ==
  /\ "stats" \in Api /\ CsFree /\ state # "GONE"
  /\ bStatsEnabled' = b
  /\ armed' = IF state = "CONNECTED" THEN b ELSE armed
  /\ UNCHANGED <<state, bWlanConnectUsed, netif, queues, script, api, provMode,
                 provCmd, nonPersistent, deinit, nwpVars>>

AppStep ==
  \/ \E c \in DOMAIN PostOnly : ApiPost(c)
  \/ ApiDeinit \/ ApiDestroy
  \/ \E mode \in Modes, command \in Commands :
        ApiEnableProvisioning(mode, command)
  \/ ApiAddProfile \/ ApiAddNonPersistent \/ ApiDefer \/ ApiReturn
  \/ ApiReset
  \/ \E b \in BOOLEAN : ApiStats(b)

-----------------------------------------------------------------------------
(* The timer thread, and the NWP with the callbacks its events run *)

(* AsyncEvtTimerHandler *)
TimerExpires ==
  /\ MayPost /\ armed /\ armed' = FALSE
  /\ SignalEvent("TIMEOUT")
  /\ UNCHANGED <<state, bWlanConnectUsed, netif, deferQ, script, api, appVars,
                 nwpVars>>

hostVars == <<ctxVars, deferQ, script, api, appVars>>

(* SLWlanEventHandler *)
NwpConnect ==
  /\ MayPost
  /\ link = "down" /\ nwpProv = "off" /\ (policy = "auto" \/ bWlanConnectUsed)
  /\ link' = "up"
  /\ SignalEvent("CONNECTED")
  /\ UNCHANGED <<hostVars, policy, nwpProv>>

NwpDisconnect ==
  /\ MayPost
  /\ link \in {"up", "ip"} /\ link' = "down"
  /\ SignalEvent("DISCONNECT")
  /\ UNCHANGED <<hostVars, policy, nwpProv>>

(* The disconnection the host asked for *)
NwpCloses ==
  /\ MayPost /\ link = "closing" /\ link' = "down"
  /\ SignalEvent("DISCONNECT")
  /\ UNCHANGED <<hostVars, policy, nwpProv>>

(* SLNetAppEventHandler: an IPv4 or an IPv6 address *)
NwpIpAcquired ==
  /\ MayPost
  /\ link \in {"up", "ip"} /\ link' = "ip"
  /\ SignalEvent("IP_ACQUIRED")
  /\ UNCHANGED <<hostVars, policy, nwpProv>>

NwpIpLost ==
  /\ MayPost
  /\ link = "ip" /\ link' = "up"
  /\ SignalEvent("IP_LOST")
  /\ UNCHANGED <<hostVars, policy, nwpProv>>

(* SLGeneralEventHandler, or SlWifiConn_requestReset *)
ResetRequest ==
  /\ state \in Requests /\ MayPost
  /\ SignalEvent("RESET_REQUEST")
  /\ UNCHANGED <<hostVars, nwpVars>>

(* SLProvisioningStatusHandler, while provisioning is active *)
ProvReport(e) ==
  /\ MayPost
  /\ nwpProv = "on"
  /\ e \in {"ERROR", "PROV_EXT_READY", "PROV_SUCCESS", "PROV_STOPPED"}
  /\ nwpProv' = CASE e = "PROV_SUCCESS" -> "stopping"
                  [] e = "PROV_STOPPED" -> "off"
                  [] OTHER -> "on"
  /\ SignalEvent(e)
  /\ UNCHANGED <<hostVars, policy, link>>

(* PROVISIONING_STOPPED after a stop: CONNECTED when the device now is *)
ProvEnds ==
  /\ MayPost /\ nwpProv = "stopping" /\ nwpProv' = "off"
  /\ \/ SignalEvent("PROV_STOPPED") /\ UNCHANGED link
     \/ link = "down" /\ link' = "up" /\ SignalEvent("CONNECTED")
  /\ UNCHANGED <<hostVars, policy>>

NwpStep ==
  \/ NwpConnect \/ NwpDisconnect \/ NwpCloses \/ NwpIpAcquired \/ NwpIpLost
  \/ ResetRequest \/ ProvEnds
  \/ \E e \in Event : ProvReport(e)

Next == SmStep \/ AppStep \/ TimerExpires \/ NwpStep

Spec == Init /\ [][Next]_vars

(***************************************************************************)
(* The SM thread runs, a call that holds g_csLock goes on, an armed timer  *)
(* expires, and the NWP completes what it was told to do; their posts      *)
(* compete with others for room in the queue, hence the strong fairness.   *)
(***************************************************************************)
Fairness ==
  /\ WF_vars(SmStep) /\ WF_vars(ApiDefer \/ ApiReturn)
  /\ SF_vars(TimerExpires) /\ SF_vars(NwpCloses) /\ SF_vars(ProvEnds)

FairSpec == Spec /\ Fairness

-----------------------------------------------------------------------------
(* Properties *)

Ops == {"event", "app", "netif", "goto", "timer", "stats", "policy",
        "disconnect", "netcfg", "nonpersistent", "defer", "deferredOrWait", "enqueue",
        "reset", "provstart", "provstop", "oneshot", "retry", "halted"}

TypeOK ==
  /\ state \in State \cup {"GONE"}
  /\ eventQ \in Seq(Event) /\ Len(eventQ) <= EventQMax
  /\ deferQ \in Seq(Event) /\ Len(deferQ) <= DeferMax
  /\ \A i \in DOMAIN script : script[i][1] \in Ops
  /\ \A i \in DOMAIN api : api[i][1] \in {"defer", "post"} /\ api[i][2] \in Event
  /\ armed \in BOOLEAN /\ provMode \in {"OFF", "ONE_SHOT", "ON"}
  /\ provCmd \in {"nwp", "ext"}
  /\ nonPersistent \in BOOLEAN /\ bWlanConnectUsed \in BOOLEAN
  /\ bStatsEnabled \in BOOLEAN /\ deinit \in BOOLEAN
  /\ netif \in {"down", "mac", "ip"} /\ policy \in {"auto", "off"}
  /\ link \in {"down", "up", "ip", "closing"}
  /\ nwpProv \in {"off", "on", "stopping"}

(* The SM is between two events *)
Quiescent == script = <<>> /\ state # "GONE"

Queued(e) == \E i \in DOMAIN eventQ : eventQ[i] = e

(***************************************************************************)
(* Between events, what SlNetIf was told fits the state: connected means   *)
(* the interface was brought up, and a state in which no connection is     *)
(* expected means it was taken down again                                  *)
(* (slwificonn.c 963-1028, 1254-1334 and DISABLE in 734-766).              *)
(***************************************************************************)
NetIfAgrees ==
  Quiescent =>
    /\ state = "CONNECTED" => netif # "down"
    /\ state \notin {"CONNECTED", "WAIT_FOR_IP"} => netif = "down"

(***************************************************************************)
(* Every state that waits for something that may not come is watched by    *)
(* the timer: it runs, or its TIMEOUT is already in the queue.  The same   *)
(* timer paces the statistics while connected (slwificonn.c 923-988,       *)
(* 1000-1075, 1704-1751, 2444-2487).                                       *)
(***************************************************************************)
Watched ==
  \/ state \in {"IDLE", "WAIT_FOR_CONN", "WAIT_FOR_IP", "PROVISIONING",
                "EXT_PROVISIONING"}
  \/ state = "CONNECTED" /\ bStatsEnabled

WatchdogArmed == Quiescent /\ Watched => armed \/ Queued("TIMEOUT")

(***************************************************************************)
(* A connection is never believed past its end: when the SM rests in       *)
(* CONNECTED and the NWP has no link, a DISCONNECT is on its way.  The     *)
(* reset handler enters WAIT_FOR_CONN so that "the state machine can       *)
(* handle connection failures" (slwificonn.c 1316-1318), but an            *)
(* IP_ACQUIRED from before the reset takes it back to CONNECTED.           *)
(***************************************************************************)
NoStaleConnected ==
  Quiescent /\ state = "CONNECTED" /\ link = "down" => Queued("DISCONNECT")

(***************************************************************************)
(* "The event will be deferred and process once provisioning is stopped"   *)
(* (slwificonn.c 1358-1359): once the SM has left provisioning and caught  *)
(* up, no command of the user is still waiting.                            *)
(***************************************************************************)
DeferredProcessed ==
  Quiescent /\ state = "CONNECTED" /\ eventQ = <<>> => deferQ = <<>>

(***************************************************************************)
(* PROV_STOPPING has no watchdog, so the SM may rest there only while the  *)
(* NWP is stopping or an event that leads out is in the queue              *)
(* (slwificonn.c 1086-1099, 1346-1512).                                    *)
(***************************************************************************)
StopAwaited ==
  Quiescent /\ state = "PROV_STOPPING" =>
    \/ nwpProv = "stopping"
    \/ \E e \in {"CONNECTED", "PROV_STOPPED", "EXT_PROV_COMPLETED",
               "ADD_PROFILE", "ERROR", "TIMEOUT", "DISABLE"} : Queued(e)

(***************************************************************************)
(* The network interface learns that the link is gone, whatever the        *)
(* application does meanwhile, until the module is deinitialised           *)
(* (slwificonn.c 1262-1268, 1301-1307).                                    *)
(***************************************************************************)
LossReported ==
  link = "down" ~> netif = "down" \/ link # "down" \/ state = "GONE"

(***************************************************************************)
(* A request to disable takes effect while nobody provisions: DISABLE is   *)
(* never left in a queue that is not served, nor undone by what waited     *)
(* with it, in OFF, IDLE, WAIT_FOR_CONN, WAIT_FOR_IP and CONNECTED         *)
(* (slwificonn.c 743-756, 1131-1138).  Provisioning defers it instead, and *)
(* DeferredProcessed says what becomes of it then.                         *)
(***************************************************************************)
DisableHonoured == Queued("DISABLE") ~> state \in {"OFF", "GONE"}

(***************************************************************************)
(* Waiting for an IP address comes to an end: the ip timeout gives up on   *)
(* an access point that never hands one out (slwificonn.c 963-988, 1262).  *)
(***************************************************************************)
IpWaitEnds == state = "WAIT_FOR_IP" ~> state # "WAIT_FOR_IP"

(***************************************************************************)
(* "Once stopped, the command will get dequeued and executed"              *)
(* (slwificonn.c 179-183): whoever waits for room in the deferred queue    *)
(* does not hold g_csLock, which the SM needs to make room.                *)
(***************************************************************************)
DeferMakesProgress ==
  api # <<>> /\ api[1][1] = "defer" => Len(deferQ) < DeferMax
=============================================================================
