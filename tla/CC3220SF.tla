------------------------------ MODULE CC3220SF ------------------------------
(***************************************************************************)
(* The CC3220SF network device (cc3220sf.c) with the two threads it works  *)
(* with: the connection manager (slwificonn.c), which it enables and       *)
(* disables, and the SimpleLink spawn task, whose callbacks tell it about  *)
(* the link.  Both speak to it through a non-blocking queue; the device    *)
(* thread (netdevice.c) makes one step of its state machine every 100 ms,  *)
(* takes at most one event in it and turns it into status bits.            *)
(*                                                                         *)
(* SlWifiConn models the manager in detail; here it handles an event of    *)
(* its queue in one step, or in two where its callback tells the device,   *)
(* and a timeout when it expires; a reset of the NWP is one step.  The     *)
(* device is a station with profiles: provisioning is not started.         *)
(*                                                                         *)
(* Durations are abstracted.  A wait times out when nothing is under way   *)
(* that could end it, and otherwise at most Budget times: the manager      *)
(* and the NWP are late only so often.                                     *)
(***************************************************************************)
EXTENDS Naturals, Sequences

CONSTANTS
  QMax,      \* mq_maxmsg of the event queue (10 in the code)
  MgrMax,    \* mq_maxmsg of the manager's event queue (10 in the code)
  Tries,     \* receptions SM_STOP waits for STOPPED (10 in the code)
  Listener,  \* the clients that listen to network events
  Kinds,     \* the disturbances that may come, a subset of Kind
  Budget     \* bound: how many of them come

ASSUME SizeAssumption ==
  QMax \in Nat \ {0} /\ MgrMax \in Nat \ {0} /\ Tries \in Nat

(* A fatal error, a lost link or address, a reset the NWP asks for, lateness,
   an installation, a web request *)
Kind == {"fatal", "loss", "reset", "slow", "install", "http"}

ASSUME BudgetAssumption == Kinds \subseteq Kind /\ Budget \in Nat

(* CC3220SF_STATE; STOPPING is the loop inside netdev_wlan_cc3220sf_sm_stop *)
DevState ==
  {"INIT", "START", "WAIT_4_START", "CHECK_PROFILES", "START_NETWORK",
   "WAIT_CONNECTAP", "WAIT_IP", "START_HTTP", "NOTIFY_UP", "IDLE",
   "HTTP_MESSAGE", "HANDLE_EVENT", "NOTIFY_DOWN", "SLEEP", "ERROR", "STOP",
   "STOPPING", "WAIT_FW_INSTALL"}

Bit == {"RUNNING", "CONNECTED", "IP_ACQUIRED", "FATAL_ERROR", "FW_INSTALL"}

(* CC3220SF_EVENT; "INVALID" is what recv_event returns on an empty queue *)
DevEvent == {"RUNNING", "STOPPED", "CONNECTED", "DISCONNECT", "IP_ACQUIRED",
             "IP_LOST", "FATAL_ERROR", "FW_INSTALL"}

MgrState == {"OFF", "IDLE", "WAIT_FOR_CONN", "WAIT_FOR_IP", "CONNECTED"}

MgrEvent == {"ENABLE", "DISABLE", "RESET_REQUEST", "CONNECTED", "DISCONNECT",
             "IP_ACQUIRED", "IP_LOST"}

(* The handlers whose callback tells the device *)
Handler == {"Resume", "Disable", "Idle"}

VARIABLES
  dev,        \* pWlanDev->state
  nstate,     \* pWlanDev->nstate
  status,     \* the bits set in pWlanDev->wlanStatus
  eventQ,     \* pWlanDev->eventQ
  to,         \* the receptions STOPPING still makes
  http,       \* a request waits in httpserverQueue
  listeners,  \* _netEventList
  walk,       \* listeners the notification under way has reached
  heard,      \* the network event each listener was told last
  mgr,        \* g_ctx->state of the manager
  mgrQ,       \* its event queue
  handler,    \* of Handler: the one that has set the policy and has yet to
              \* make its callback, which finishes it; or "none"
  nwp,        \* "ok", or "dead" from a fatal error to the next sl_Start
  policy,     \* the NWP's connection policy: "auto" or "off"
  link,       \* the NWP's link: "down", "up", "ip" or "closing"
  left,       \* what is left of Budget
  lost,       \* history: an event found the device's queue full
  unsaid      \* history: a reset took the link from a running NWP, and it has
              \* reported neither a link nor the end of one since

netVars == <<listeners, walk, heard>>
nwpVars == <<nwp, policy, link>>
mgrVars == <<mgr, handler, unsaid>>
queues  == <<eventQ, mgrQ, lost>>
vars == <<dev, nstate, status, to, http, netVars, mgrVars, nwpVars, left, queues>>

(* probe and start: the manager is initialised, and off *)
Init ==
  /\ dev = "INIT" /\ nstate = "INIT" /\ status = {} /\ eventQ = <<>> /\ to = 0
  /\ http = FALSE
  /\ listeners = <<>> /\ walk = 0 /\ heard = [l \in Listener |-> "none"]
  /\ mgr = "OFF" /\ mgrQ = <<>> /\ handler = "none"
  /\ nwp = "ok" /\ policy = "off" /\ link = "down"
  /\ left = Budget /\ lost = FALSE /\ unsaid = FALSE

Spend(k) == k \in Kinds /\ left > 0 /\ left' = left - 1

(* The NWP is about to report something *)
NwpBusy ==
  nwp = "ok" /\ (link = "closing" \/ link = "up" \/ (policy = "auto" /\ link = "down"))

(* A timer expires: nothing is under way that could stop it, or that is late *)
Late ==
  \/ Spend("slow")
  \/ mgrQ = <<>> /\ handler = "none" /\ ~NwpBusy /\ UNCHANGED left

-----------------------------------------------------------------------------
(* The device's queue and the status bits *)

(* Mutant: a queue without a bound *)
SentAlways(q, e) == Append(q, e)

(* netdev_wlan_cc3220sf_send_event ignores the result of mq_send *)
Sent(q, e) == IF Len(q) < QMax THEN Append(q, e) ELSE q

Send(e) ==
  /\ eventQ' = Sent(eventQ, e)
  /\ lost' = (lost \/ Len(eventQ) = QMax)

(* Mutant: the NWP is still running after it stopped *)
AppliedKeepsRunning(s, e) ==
  CASE e \in {"RUNNING", "CONNECTED", "IP_ACQUIRED", "FW_INSTALL"} -> s \cup {e}
    [] e = "DISCONNECT" -> s \ {"CONNECTED"}
    [] e = "FATAL_ERROR" -> {"FATAL_ERROR"}
    [] OTHER -> s

(* What an event does to the status bits; a disconnection keeps IP_ACQUIRED *)
Applied(s, e) ==
  CASE e \in {"RUNNING", "CONNECTED", "IP_ACQUIRED", "FW_INSTALL"} -> s \cup {e}
    [] e = "STOPPED" -> s \ {"RUNNING"}
    [] e = "DISCONNECT" -> s \ {"CONNECTED"}
    [] e = "FATAL_ERROR" -> {"FATAL_ERROR"}
    [] OTHER -> s

(* The event recv_event returns, and the status bits it leaves *)
Event == IF eventQ = <<>> THEN "INVALID" ELSE Head(eventQ)

Received == Applied(status, Event)

recv_event ==
  /\ eventQ' = IF eventQ = <<>> THEN <<>> ELSE Tail(eventQ)
  /\ status' = Received
  /\ UNCHANGED lost

(* SlWifiConn_enable, _disable, _requestReset: mq_send, which may block *)
Posted(es) == /\ Len(mgrQ) + Len(es) <= MgrMax
              /\ mgrQ' = mgrQ \o es

-----------------------------------------------------------------------------
(* The state machine, one operator per sm function *)

At(s) == dev = s

others == <<netVars, mgrVars, nwpVars>>

(* With RUNNING set the code posts DISABLE and waits in a loop that receives
   nothing, and so for ever: InitNeverWaits shows it is never entered *)
sm_init ==
  /\ At("INIT") /\ "RUNNING" \notin status
  /\ dev' = "START"
  /\ UNCHANGED <<nstate, status, to, http, others, left, queues>>

sm_start ==
  /\ At("START") /\ recv_event
  /\ IF "FW_INSTALL" \in Received
     THEN /\ dev' = "WAIT_FW_INSTALL"
          /\ UNCHANGED <<nstate, mgrQ>>
     ELSE /\ dev' = "WAIT_4_START" /\ nstate' = "CHECK_PROFILES"
          /\ Posted(IF "RUNNING" \in Received THEN <<>> ELSE << "ENABLE" >>)
  /\ UNCHANGED <<to, http, others, left>>

sm_wait_4_start ==
  /\ At("WAIT_4_START") /\ recv_event
  /\ dev' = IF "RUNNING" \in Received THEN nstate ELSE dev
  /\ UNCHANGED <<nstate, to, http, others, left, mgrQ>>

sm_check_profiles ==
  /\ At("CHECK_PROFILES") /\ dev' = "START_NETWORK"
  /\ UNCHANGED <<nstate, status, to, http, others, left, queues>>

(* Without provisioning *)
sm_start_network ==
  /\ At("START_NETWORK") /\ dev' = "WAIT_CONNECTAP"
  /\ UNCHANGED <<nstate, status, to, http, others, left, queues>>

(* Whether the server starts makes no difference *)
sm_start_httpserver ==
  /\ At("START_HTTP") /\ dev' = "NOTIFY_UP" /\ nstate' = "IDLE"
  /\ UNCHANGED <<status, to, http, others, left, queues>>

sm_wait_connect_ap ==
  /\ At("WAIT_CONNECTAP") /\ recv_event
  /\ dev' = IF "CONNECTED" \in Received THEN "WAIT_IP" ELSE dev
  /\ UNCHANGED <<nstate, to, http, others, left, mgrQ>>

sm_wait_ip ==
  /\ At("WAIT_IP") /\ recv_event
  /\ dev' = IF "IP_ACQUIRED" \in Received THEN "START_HTTP" ELSE dev
  /\ UNCHANGED <<nstate, to, http, others, left, mgrQ>>

(* Mutant: no timeout while waiting for an address *)
AwaitedNoIp == [WAIT_4_START |-> "RUNNING", WAIT_CONNECTAP |-> "CONNECTED"]

(* The timer of one of these three states has run out when they look at it *)
Awaited == [WAIT_4_START |-> "RUNNING", WAIT_CONNECTAP |-> "CONNECTED",
            WAIT_IP |-> "IP_ACQUIRED"]

WaitTimeout ==
  /\ dev \in DOMAIN Awaited /\ recv_event
  /\ Awaited[dev] \notin Received /\ Late
  /\ left' = left => \A i \in DOMAIN eventQ : eventQ[i] # Awaited[dev]
  /\ IF dev = "WAIT_4_START"
     THEN dev' = "SLEEP" /\ nstate' = "INIT"
     ELSE dev' = "ERROR" /\ UNCHANGED nstate
  /\ UNCHANGED <<to, http, others, mgrQ>>

(* Mutant: the device restarts without stopping the NWP *)
sm_errorToInit ==
  /\ At("ERROR")
  /\ dev' = "SLEEP" /\ nstate' = "INIT"
  /\ UNCHANGED <<status, to, http, others, left, queues>>

sm_error ==
  /\ At("ERROR")
  /\ dev' = "SLEEP" /\ nstate' = "STOP"
  /\ UNCHANGED <<status, to, http, others, left, queues>>

sm_sleep ==
  /\ At("SLEEP")
  /\ dev' = nstate
  /\ UNCHANGED <<nstate, status, to, http, others, left, queues>>

(* A request for the HTTP server goes before any event *)
sm_idle ==
  /\ At("IDLE") /\ (http \/ eventQ # <<>>)
  /\ dev' = IF http THEN "HTTP_MESSAGE" ELSE "HANDLE_EVENT"
  /\ UNCHANGED <<nstate, status, to, http, others, left, queues>>

sm_http_message ==
  /\ At("HTTP_MESSAGE")
  /\ dev' = "IDLE" /\ http' = FALSE
  /\ UNCHANGED <<nstate, status, to, others, left, queues>>

(* Mutant: a fatal error goes straight to the restart *)
sm_handle_eventUntold ==
  /\ At("HANDLE_EVENT") /\ recv_event
  /\ IF Event \in {"FW_INSTALL", "FATAL_ERROR"}
     THEN /\ dev' = (IF Event = "FW_INSTALL" THEN "NOTIFY_DOWN" ELSE "STOP")
          /\ nstate' = "STOP"
          /\ Posted(IF Event = "FATAL_ERROR" THEN << "RESET_REQUEST" >> ELSE <<>>)
     ELSE dev' = "IDLE" /\ UNCHANGED <<nstate, mgrQ>>
  /\ UNCHANGED <<to, http, others, left>>

(* Mutant: a fatal error is just another event *)
sm_handle_eventDeaf ==
  /\ At("HANDLE_EVENT") /\ recv_event
  /\ IF Event = "FW_INSTALL"
     THEN dev' = "NOTIFY_DOWN" /\ nstate' = "STOP"
     ELSE dev' = "IDLE" /\ UNCHANGED nstate
  /\ UNCHANGED <<to, http, others, left, mgrQ>>

(* Only here a fatal error asks for a reset of the NWP *)
sm_handle_event ==
  /\ At("HANDLE_EVENT") /\ recv_event
  /\ IF Event \in {"FW_INSTALL", "FATAL_ERROR"}
     THEN /\ dev' = "NOTIFY_DOWN" /\ nstate' = "STOP"
          /\ Posted(IF Event = "FATAL_ERROR" THEN << "RESET_REQUEST" >> ELSE <<>>)
     ELSE dev' = "IDLE" /\ UNCHANGED <<nstate, mgrQ>>
  /\ UNCHANGED <<to, http, others, left>>

sm_stop ==
  /\ At("STOP") /\ recv_event
  /\ Posted(<< "DISABLE" >>)
  /\ dev' = "STOPPING" /\ to' = Tries
  /\ UNCHANGED <<nstate, http, others, left>>

(* It sleeps 500 ms and receives *)
sm_stopping ==
  /\ At("STOPPING") /\ "RUNNING" \in status /\ to > 0
  /\ recv_event
  /\ to' = to - 1
  /\ UNCHANGED <<dev, nstate, http, others, left, mgrQ>>

(* Mutant: what is set stays set *)
sm_stoppedKeeps ==
  /\ At("STOPPING") /\ ~("RUNNING" \in status /\ to > 0)
  /\ dev' = "INIT" /\ to' = 0
  /\ UNCHANGED <<nstate, status, http, others, left, queues>>


(* Stopped, or given up; only FW_INSTALL is preserved *)
sm_stopped ==
  /\ At("STOPPING") /\ ~("RUNNING" \in status /\ to > 0)
  /\ status' = status \cap {"FW_INSTALL"}
  /\ dev' = "INIT" /\ to' = 0
  /\ UNCHANGED <<nstate, http, others, left, queues>>

-----------------------------------------------------------------------------
(* The device layer: network_dev_eventCallback walks the list of listeners *)

Network == [NOTIFY_UP |-> "CONNECTED", NOTIFY_DOWN |-> "DISCONNECTED"]

Notify ==
  /\ dev \in DOMAIN Network /\ walk < Len(listeners)
  /\ walk' = walk + 1
  /\ heard' = [heard EXCEPT ![listeners[walk + 1]] = Network[dev]]
  /\ UNCHANGED <<dev, nstate, status, to, http, listeners, mgrVars, nwpVars, left, queues>>

(* sm_notifyup and sm_notifydown return when the walk is at the end *)
Notified ==
  /\ dev \in DOMAIN Network /\ walk = Len(listeners)
  /\ walk' = 0 /\ dev' = nstate
  /\ UNCHANGED <<nstate, status, to, http, listeners, heard, mgrVars, nwpVars, left, queues>>

DeviceStep ==
  \/ sm_init \/ sm_start \/ sm_wait_4_start \/ sm_check_profiles \/ sm_start_network
  \/ sm_wait_connect_ap \/ sm_wait_ip \/ WaitTimeout \/ sm_start_httpserver
  \/ sm_error \/ sm_sleep \/ sm_idle \/ sm_http_message \/ sm_handle_event
  \/ sm_stop \/ sm_stopping \/ sm_stopped \/ Notify \/ Notified

(* network_dev_register_eventListener, one caller at a time *)
Register(l) ==
  /\ \A i \in DOMAIN listeners : listeners[i] # l
  /\ listeners' = Append(listeners, l)
  /\ UNCHANGED <<dev, nstate, status, to, http, walk, heard, mgrVars, nwpVars, left, queues>>

(* WLAN_IOTCTL_FW_INSTALL *)
FwInstall ==
  /\ Spend("install") /\ Send("FW_INSTALL")
  /\ UNCHANGED <<dev, nstate, status, to, http, others, mgrQ>>

(* SimpleLinkNetAppRequestHandler *)
HttpRequest ==
  /\ Spend("http") /\ ~http /\ http' = TRUE
  /\ UNCHANGED <<dev, nstate, status, to, others, queues>>

ClientStep == (\E l \in Listener : Register(l)) \/ FwInstall \/ HttpRequest

-----------------------------------------------------------------------------
(* The connection manager, as the device sees it *)

device == <<dev, nstate, status, to, http, netVars>>

(* The state the handlers of SlWifiConn lead to *)
MgrNext(m, e) ==
  CASE e = "CONNECTED" /\ m \in {"IDLE", "WAIT_FOR_CONN"} -> "WAIT_FOR_IP"
    [] e = "IP_ACQUIRED" /\ m \in {"WAIT_FOR_CONN", "WAIT_FOR_IP"} -> "CONNECTED"
    [] e = "IP_LOST" /\ m = "CONNECTED" -> "WAIT_FOR_IP"
    [] e = "DISCONNECT" /\ m \in {"WAIT_FOR_IP", "CONNECTED"} -> "WAIT_FOR_CONN"
    [] e = "RESET_REQUEST" /\ m = "CONNECTED" -> "WAIT_FOR_CONN"
    [] OTHER -> m

(* What a handler of Handler announces, and the state it ends in *)
Says(h) == IF h = "Resume" THEN "RUNNING" ELSE "STOPPED"

Goal(h) == CASE h = "Resume" -> "WAIT_FOR_CONN" [] h = "Disable" -> "OFF" [] OTHER -> "IDLE"

(***************************************************************************)
(* SuspendNWP(true) and ResumeNWP(true): the callback, which calls         *)
(* SlWifiConnEventHandler, only runs when the policy could be set, and     *)
(* after a fatal error the driver refuses every command.  It runs after    *)
(* the policy is set, without the manager's lock: others come in between.  *)
(***************************************************************************)
SetPolicy(h) ==
  /\ \/ /\ nwp = "ok" /\ policy' = (IF h = "Resume" THEN "auto" ELSE "off")
        /\ handler' = h /\ UNCHANGED mgr
     \/ /\ nwp # "ok" /\ mgr' = Goal(h)
        /\ UNCHANGED <<policy, handler>>
  /\ UNCHANGED <<nwp, link, unsaid, eventQ, lost>>

(* sl_WlanDisconnect *)
WlanDisconnect ==
  link' = IF nwp = "ok" /\ link # "down" THEN "closing" ELSE link

(* NotifyWifiApp, and what is left of the handler; a link goes with DISABLE *)
MgrCallback ==
  /\ handler # "none" /\ handler' = "none"
  /\ Send(Says(handler)) /\ mgr' = Goal(handler)
  /\ IF handler = "Disable" /\ mgr \in {"WAIT_FOR_IP", "CONNECTED"}
     THEN WlanDisconnect
     ELSE UNCHANGED link
  /\ UNCHANGED <<device, nwp, policy, unsaid, mgrQ, left>>

(* ResetNWP: sl_Stop, sl_Start; the link goes without an event *)
ResetNWP ==
  /\ nwp' = "ok" /\ link' = "down" /\ policy' = "auto"
  /\ unsaid' = (unsaid \/ (nwp = "ok" /\ link # "down"))

ProcessEvent ==
  /\ handler = "none" /\ mgrQ # <<>> /\ mgrQ' = Tail(mgrQ)
  /\ LET e == Head(mgrQ) IN
       \/ e = "ENABLE" /\ mgr = "OFF" /\ SetPolicy("Resume")
       \/ e = "DISABLE" /\ mgr # "OFF" /\ SetPolicy("Disable")
       \/ /\ e = "RESET_REQUEST" /\ mgr = "CONNECTED" /\ mgr' = MgrNext(mgr, e)
          /\ ResetNWP /\ UNCHANGED <<handler, eventQ, lost>>
       \/ /\ ~(e = "ENABLE" /\ mgr = "OFF") /\ ~(e = "DISABLE" /\ mgr # "OFF")
          /\ ~(e = "RESET_REQUEST" /\ mgr = "CONNECTED")
          /\ mgr' = MgrNext(mgr, e)
          /\ UNCHANGED <<nwpVars, handler, unsaid, eventQ, lost>>
  /\ UNCHANGED <<device, left>>

(* TIMEOUT: idle and connecting alternate, and a link without address is cut *)
MgrTimeout ==
  /\ handler = "none" /\ Late
  /\ \/ mgr = "IDLE" /\ SetPolicy("Resume")
     \/ mgr = "WAIT_FOR_CONN" /\ SetPolicy("Idle")
     \/ /\ mgr = "WAIT_FOR_IP" /\ mgr' = "WAIT_FOR_CONN" /\ WlanDisconnect
        /\ UNCHANGED <<nwp, policy, handler, unsaid, eventQ, lost>>
  /\ UNCHANGED <<device, mgrQ>>

-----------------------------------------------------------------------------
(* The NWP, and the callbacks both the device and the manager get *)

Report(e) == nwp = "ok" /\ Send(e) /\ Posted(<< e >>)

(* SimpleLinkWlanEventHandler and SimpleLinkNetAppEventHandler *)
NwpReports ==
  /\ \/ /\ link = "down" /\ policy = "auto" /\ link' = "up" /\ Report("CONNECTED")
        /\ unsaid' = FALSE
     \/ link = "up" /\ link' = "ip" /\ Report("IP_ACQUIRED") /\ UNCHANGED unsaid
     \/ link = "closing" /\ link' = "down" /\ Report("DISCONNECT") /\ unsaid' = FALSE
  /\ UNCHANGED <<device, mgr, handler, nwp, policy, left>>

NwpLoses ==
  /\ Spend("loss") /\ link \in {"up", "ip"} /\ link' = "down"
  /\ Report("DISCONNECT") /\ unsaid' = FALSE
  /\ UNCHANGED <<device, mgr, handler, nwp, policy>>

(* The address is lost; for the device an event without a case of its own *)
NwpLosesIp ==
  /\ Spend("loss") /\ link = "ip" /\ link' = "up"
  /\ Report("IP_LOST")
  /\ UNCHANGED <<device, mgrVars, nwp, policy>>

(* SL_DEVICE_EVENT_RESET_REQUEST: only the manager hears of it *)
NwpWantsReset ==
  /\ Spend("reset") /\ nwp = "ok" /\ Posted(<< "RESET_REQUEST" >>)
  /\ UNCHANGED <<device, mgrVars, nwpVars, eventQ, lost>>

(* SimpleLinkFatalErrorEventHandler; the NWP is of no use until sl_Start *)
Fatal ==
  /\ Spend("fatal") /\ nwp = "ok" /\ nwp' = "dead"
  /\ Send("FATAL_ERROR")
  /\ UNCHANGED <<device, mgrVars, mgrQ, policy, link>>

Next ==
  \/ DeviceStep \/ ClientStep \/ ProcessEvent \/ MgrCallback \/ MgrTimeout
  \/ NwpReports \/ NwpLoses \/ NwpLosesIp \/ NwpWantsReset \/ Fatal

Spec == Init /\ [][Next]_vars

(* Both threads run, an armed timer expires, the NWP does what it is told *)
FairSpec ==
  Spec /\ WF_vars(DeviceStep) /\ SF_vars(WaitTimeout) /\ WF_vars(ProcessEvent)
       /\ WF_vars(MgrCallback) /\ SF_vars(MgrTimeout) /\ WF_vars(NwpReports)

-----------------------------------------------------------------------------
(* Properties *)

TypeOK ==
  /\ dev \in DevState /\ nstate \in DevState /\ status \subseteq Bit
  /\ eventQ \in Seq(DevEvent) /\ Len(eventQ) <= QMax
  /\ to \in 0 .. Tries /\ http \in BOOLEAN
  /\ listeners \in Seq(Listener) /\ walk \in 0 .. Len(listeners)
  /\ heard \in [Listener -> {"none", "CONNECTED", "DISCONNECTED"}]
  /\ mgr \in MgrState /\ mgrQ \in Seq(MgrEvent) /\ Len(mgrQ) <= MgrMax
  /\ handler \in Handler \cup {"none"} /\ unsaid \in BOOLEAN
  /\ nwp \in {"ok", "dead"} /\ policy \in {"auto", "off"}
  /\ link \in {"down", "up", "ip", "closing"}
  /\ left \in 0 .. Budget /\ lost \in BOOLEAN

(* What event e does to bit b *)
Sets(e, b)   == b \in Applied({}, e)
Clears(e, b) == b \notin Applied({b}, e)

(* Bit b is set once the events that wait have been received *)
Believes(b) ==
  \/ b \in status /\ \A i \in DOMAIN eventQ : ~Clears(eventQ[i], b)
  \/ \E i \in DOMAIN eventQ :
       /\ Sets(eventQ[i], b)
       /\ \A j \in DOMAIN eventQ : j > i => ~Clears(eventQ[j], b)

(***************************************************************************)
(* The device never believes more than is true: once it has received what  *)
(* waits, RUNNING means the manager has resumed the NWP, or is about to    *)
(* say that it has suspended it, and CONNECTED means there is a link,      *)
(* whatever the order in which resets, timeouts and its own requests came  *)
(* - as long as its queue never overflowed, and until the NWP reports      *)
(* again after a reset taken while it ran, of which nobody tells the       *)
(* device (cc3220sf.c 305-480, 1143-1163, slwificonn.c 693-722, 1309-1320).*)
(***************************************************************************)
BitsTrue ==
  ~lost /\ nwp = "ok" =>
    /\ Believes("RUNNING") => policy = "auto" \/ handler \in {"Disable", "Idle"}
    /\ Believes("CONNECTED") => link # "down" \/ unsaid

(***************************************************************************)
(* "STATUS_BIT_CONNECTED, // connected to MAC" (cc3220sf.c 74): once the   *)
(* device has received what waits, the bit means there is a link.          *)
(***************************************************************************)
ConnectedTrue ==
  ~lost /\ nwp = "ok" => (Believes("CONNECTED") => link # "down")

(***************************************************************************)
(* SM_INIT waits for RUNNING to be cleared in a loop that receives no      *)
(* event, so no path may lead there with the bit set: neither the timeout  *)
(* of SM_WAIT_4_START nor a SM_STOP that gave up (cc3220sf.c 1238-1244,    *)
(* 1300-1306, 1324-1333).                                                  *)
(***************************************************************************)
InitNeverWaits == dev = "INIT" => "RUNNING" \notin status

(* Where the device is when it is in service, its changes included *)
InService == {"NOTIFY_UP", "IDLE", "HTTP_MESSAGE", "HANDLE_EVENT", "NOTIFY_DOWN"}

(***************************************************************************)
(* No client believes in a connection while the device restarts: every     *)
(* path out of service notifies every listener first (cc3220sf.c           *)
(* 1495-1530, 1630-1638, netdevice.c 42-55).                               *)
(***************************************************************************)
UpMeansService ==
  (\E l \in Listener : heard[l] = "CONNECTED") => dev \in InService

(***************************************************************************)
(* A fatal error that reached the queue is told to every client that was   *)
(* told of the connection, whatever else waits in the queue.               *)
(***************************************************************************)
FatalQueued == \E i \in DOMAIN eventQ : eventQ[i] = "FATAL_ERROR"

FatalTold ==
  \A l \in Listener :
    FatalQueued /\ heard[l] = "CONNECTED" ~> heard[l] = "DISCONNECTED"


(***************************************************************************)
(* Whatever fails, the device is in service, installs, or starts again and *)
(* again: it never waits for ever in between.                              *)
(***************************************************************************)
KeepsTrying == []<>(dev \in {"IDLE", "START", "WAIT_FW_INSTALL"})

(***************************************************************************)
(* The NWP has a link of which the manager will not hear: CONNECTED and    *)
(* IP_ACQUIRED came while it was off.  It neither uses nor closes it.      *)
(***************************************************************************)
Forgotten ==
  /\ link \in {"up", "ip"} /\ mgr \notin {"WAIT_FOR_IP", "CONNECTED"}
  /\ \A i \in DOMAIN mgrQ : mgrQ[i] \notin {"CONNECTED", "IP_ACQUIRED"}

(***************************************************************************)
(* "in case CONNECTED will follow the connection timeout (before the NWP   *)
(* is suspended) Resume NWP and Move to WAIT_FOR_IP" (slwificonn.c         *)
(* 1171-1173): a manager that waits for an address, or has one, has        *)
(* resumed the NWP.                                                        *)
(***************************************************************************)
Resumed ==
  nwp = "ok" /\ handler = "none" /\ mgr \in {"WAIT_FOR_IP", "CONNECTED"} => policy = "auto"

(***************************************************************************)
(* After lost links and addresses, resets and timeouts, too early ones     *)
(* among them, the device gets back in service, or installs: only an event *)
(* dropped by the full queue, a fatal error, a forgotten link or one taken *)
(* without resuming the NWP can prevent it (cc3220sf.c 1262-1493,          *)
(* 1649-1659, slwificonn.c 734-766, 1122-1145).                            *)
(***************************************************************************)
ComesBack ==
  \/ []<>(dev \in {"IDLE", "WAIT_FW_INSTALL"})
  \/ <>(lost \/ nwp = "dead") \/ []<>Forgotten \/ <>[]~Resumed

(***************************************************************************)
(* "The state machine then: 1. Notifies clients of disconnect 2. Stops the *)
(* NWP (sl_Stop()) 3. Restarts the NWP (sl_Start()) 4. Attempts to         *)
(* reconnect" (cc3220sf-spi-driver-errors.md 202-206).                     *)
(***************************************************************************)
FatalRecovered == nwp = "dead" ~> nwp = "ok"

=============================================================================
