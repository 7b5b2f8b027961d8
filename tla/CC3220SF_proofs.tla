--------------------------- MODULE CC3220SF_proofs ---------------------------
(***************************************************************************)
(* Proofs about CC3220SF: the types, that SM_INIT never waits, that a      *)
(* listener believes in a connection only while the device is in service,  *)
(* and that the device believes no more than is true but after a reset of  *)
(* a running NWP, for any sizes of the queues, any set of listeners and    *)
(* any number of disturbances.                                             *)
(***************************************************************************)
EXTENDS CC3220SF, SequenceTheorems, TLAPS

(* The tables as functions *)
LEMMA NetworkTable ==
  /\ DOMAIN Network = {"NOTIFY_UP", "NOTIFY_DOWN"}
  /\ Network["NOTIFY_UP"] = "CONNECTED" /\ Network["NOTIFY_DOWN"] = "DISCONNECTED"
BY DEF Network

LEMMA AwaitedTable ==
  /\ DOMAIN Awaited = {"WAIT_4_START", "WAIT_CONNECTAP", "WAIT_IP"}
  /\ Awaited["WAIT_4_START"] = "RUNNING"
BY DEF Awaited

(* An event sent keeps the queue within its bound, whether it fits or not *)
LEMMA SentType ==
  ASSUME NEW q \in Seq(DevEvent), Len(q) <= QMax, NEW e \in DevEvent
  PROVE  Sent(q, e) \in Seq(DevEvent) /\ Len(Sent(q, e)) <= QMax
<1>1. CASE Len(q) < QMax
  <2>1. Append(q, e) \in Seq(DevEvent) /\ Len(Append(q, e)) = Len(q) + 1
    BY AppendProperties
  <2>2. Len(q) \in Nat /\ QMax \in Nat
    BY LenProperties, SizeAssumption
  <2> QED BY <1>1, <2>1, <2>2 DEF Sent
<1>2. CASE ~(Len(q) < QMax)
  BY <1>2 DEF Sent
<1> QED BY <1>1, <1>2

(* So does an event received; the bits stay bits *)
LEMMA ReceiveType ==
  ASSUME status \subseteq Bit, eventQ \in Seq(DevEvent), Len(eventQ) <= QMax,
         lost \in BOOLEAN, recv_event
  PROVE  /\ status' \subseteq Bit /\ status' = Received
         /\ eventQ' \in Seq(DevEvent) /\ Len(eventQ') <= QMax
         /\ lost' \in BOOLEAN
<1>1. Received \subseteq Bit
  BY DEF Received, Applied, Bit
<1>2. CASE eventQ = <<>>
  BY <1>1, <1>2 DEF recv_event
<1>3. CASE eventQ # <<>>
  <2>1. Tail(eventQ) \in Seq(DevEvent) /\ Len(Tail(eventQ)) = Len(eventQ) - 1
    BY <1>3, HeadTailProperties
  <2>2. Len(eventQ) \in Nat /\ QMax \in Nat
    BY LenProperties, SizeAssumption
  <2>3. Len(Tail(eventQ)) <= QMax
    BY <2>1, <2>2
  <2> QED BY <1>1, <1>3, <2>1, <2>3 DEF recv_event
<1> QED BY <1>2, <1>3

(* The device posts at most one event to the manager, and only if it fits *)
LEMMA PostedType ==
  ASSUME NEW es \in Seq(MgrEvent), mgrQ \in Seq(MgrEvent), Posted(es)
  PROVE  mgrQ' \in Seq(MgrEvent) /\ Len(mgrQ') <= MgrMax
<1>1. mgrQ \o es \in Seq(MgrEvent) /\ Len(mgrQ \o es) = Len(mgrQ) + Len(es)
  BY ConcatProperties
<1> QED BY <1>1 DEF Posted

(* What the budget is spent on *)
LEMMA SpentType ==
  ASSUME left \in 0 .. Budget, left' = left - 1, left > 0
  PROVE  left' \in 0 .. Budget
BY BudgetAssumption

-----------------------------------------------------------------------------
(* The part of the type invariant each side can change *)

DeviceType ==
  /\ dev \in DevState /\ nstate \in DevState /\ status \subseteq Bit
  /\ to \in 0 .. Tries /\ http \in BOOLEAN
  /\ listeners \in Seq(Listener) /\ walk \in 0 .. Len(listeners)
  /\ heard \in [Listener -> {"none", "CONNECTED", "DISCONNECTED"}]

QueueType ==
  /\ eventQ \in Seq(DevEvent) /\ Len(eventQ) <= QMax /\ lost \in BOOLEAN
  /\ mgrQ \in Seq(MgrEvent) /\ Len(mgrQ) <= MgrMax

ManagerType ==
  /\ mgr \in MgrState /\ handler \in Handler \cup {"none"} /\ unsaid \in BOOLEAN
  /\ nwp \in {"ok", "dead"} /\ policy \in {"auto", "off"}
  /\ link \in {"down", "up", "ip", "closing"}

LEMMA TypeParts ==
  /\ TypeOK <=> DeviceType /\ QueueType /\ ManagerType /\ left \in 0 .. Budget
  /\ TypeOK' <=> DeviceType' /\ QueueType' /\ ManagerType' /\ left' \in 0 .. Budget
BY DEF TypeOK, DeviceType, QueueType, ManagerType

(* The steps of the state machine that make no notification *)
LEMMA MachineType ==
  ASSUME TypeOK, DeviceStep, ~Notify, ~Notified
  PROVE  TypeOK'
<1> USE DEF DevState
<1>0. DeviceType /\ QueueType /\ ManagerType /\ left \in 0 .. Budget
  BY TypeParts
<1>1. CASE sm_init
  BY <1>0, <1>1, TypeParts
     DEF sm_init, DeviceType, QueueType, ManagerType, others, netVars, mgrVars, nwpVars, queues
<1>2. CASE sm_start
  <2>1. << "ENABLE" >> \in Seq(MgrEvent) /\ <<>> \in Seq(MgrEvent)
    BY DEF MgrEvent
  <2>2. QueueType' /\ status' \subseteq Bit
    BY <1>0, <1>2, <2>1, ReceiveType, PostedType DEF sm_start, DeviceType, QueueType
  <2>3. DeviceType' /\ ManagerType' /\ left' = left
    BY <1>0, <1>2, <2>2 DEF sm_start, DeviceType, ManagerType, others, netVars, mgrVars, nwpVars
  <2> QED BY <1>0, <2>2, <2>3, TypeParts
<1>3. CASE sm_wait_4_start \/ sm_wait_connect_ap \/ sm_wait_ip
  <2>1. QueueType' /\ status' \subseteq Bit
    BY <1>0, <1>3, ReceiveType
       DEF sm_wait_4_start, sm_wait_connect_ap, sm_wait_ip, DeviceType, QueueType
  <2>2. DeviceType' /\ ManagerType' /\ left' = left
    BY <1>0, <1>3, <2>1
       DEF sm_wait_4_start, sm_wait_connect_ap, sm_wait_ip, DeviceType, ManagerType,
           others, netVars, mgrVars, nwpVars
  <2> QED BY <1>0, <2>1, <2>2, TypeParts
<1>4. CASE sm_check_profiles \/ sm_start_network \/ sm_start_httpserver
  BY <1>0, <1>4, TypeParts
     DEF sm_check_profiles, sm_start_network, sm_start_httpserver, DeviceType,
         QueueType, ManagerType, others, netVars, mgrVars, nwpVars, queues
<1>5. CASE WaitTimeout
  <2>1. QueueType' /\ status' \subseteq Bit
    BY <1>0, <1>5, ReceiveType DEF WaitTimeout, DeviceType, QueueType
  <2>2. DeviceType' /\ ManagerType'
    BY <1>0, <1>5, <2>1
       DEF WaitTimeout, DeviceType, ManagerType, others, netVars, mgrVars, nwpVars
  <2>3. left' \in 0 .. Budget
    BY <1>0, <1>5, SpentType DEF WaitTimeout, Late, Spend
  <2> QED BY <2>1, <2>2, <2>3, TypeParts
<1>6. CASE sm_error \/ sm_sleep
  BY <1>0, <1>6, TypeParts
     DEF sm_error, sm_sleep, DeviceType, QueueType, ManagerType, others, netVars,
         mgrVars, nwpVars, queues
<1>7. CASE sm_idle \/ sm_http_message
  BY <1>0, <1>7, TypeParts
     DEF sm_idle, sm_http_message, DeviceType, QueueType, ManagerType, others, netVars,
         mgrVars, nwpVars, queues
<1>8. CASE sm_handle_event
  <2>1. << "RESET_REQUEST" >> \in Seq(MgrEvent) /\ <<>> \in Seq(MgrEvent)
    BY DEF MgrEvent
  <2>2. QueueType' /\ status' \subseteq Bit
    BY <1>0, <1>8, <2>1, ReceiveType, PostedType
       DEF sm_handle_event, DeviceType, QueueType
  <2>3. DeviceType' /\ ManagerType' /\ left' = left
    BY <1>0, <1>8, <2>2
       DEF sm_handle_event, DeviceType, ManagerType, others, netVars, mgrVars, nwpVars
  <2> QED BY <1>0, <2>2, <2>3, TypeParts
<1>9. CASE sm_stop
  <2>1. << "DISABLE" >> \in Seq(MgrEvent)
    BY DEF MgrEvent
  <2>2. QueueType' /\ status' \subseteq Bit
    BY <1>0, <1>9, <2>1, ReceiveType, PostedType DEF sm_stop, DeviceType, QueueType
  <2>3. DeviceType' /\ ManagerType' /\ left' = left
    BY <1>0, <1>9, <2>2, SizeAssumption
       DEF sm_stop, DeviceType, ManagerType, others, netVars, mgrVars, nwpVars
  <2> QED BY <1>0, <2>2, <2>3, TypeParts
<1>10. CASE sm_stopping
  <2>1. QueueType' /\ status' \subseteq Bit
    BY <1>0, <1>10, ReceiveType DEF sm_stopping, DeviceType, QueueType
  <2>2. to' \in 0 .. Tries
    BY <1>0, <1>10, SizeAssumption DEF sm_stopping, DeviceType
  <2>3. DeviceType' /\ ManagerType' /\ left' = left
    BY <1>0, <1>10, <2>1, <2>2
       DEF sm_stopping, DeviceType, ManagerType, others, netVars, mgrVars, nwpVars
  <2> QED BY <1>0, <2>1, <2>3, TypeParts
<1>11. CASE sm_stopped
  BY <1>0, <1>11, TypeParts, SizeAssumption
     DEF sm_stopped, DeviceType, QueueType, ManagerType, others, netVars, mgrVars, nwpVars, queues
<1> QED
  BY <1>1, <1>2, <1>3, <1>4, <1>5, <1>6, <1>7, <1>8, <1>9, <1>10, <1>11 DEF DeviceStep

(* The walk over the listeners and the registration of one *)
LEMMA ListenerType ==
  ASSUME TypeOK, Notify \/ Notified \/ (\E l \in Listener : Register(l))
  PROVE  TypeOK'
<1>0. DeviceType /\ QueueType /\ ManagerType /\ left \in 0 .. Budget
  BY TypeParts
<1>1. Len(listeners) \in Nat /\ walk \in Nat
  BY <1>0, LenProperties DEF DeviceType
<1>2. CASE Notify
  <2>1. walk + 1 \in 1 .. Len(listeners)
    BY <1>0, <1>1, <1>2 DEF Notify, DeviceType
  <2>2. Network[dev] \in {"CONNECTED", "DISCONNECTED"}
    BY <1>2, NetworkTable DEF Notify
  <2>3. heard' \in [Listener -> {"none", "CONNECTED", "DISCONNECTED"}]
    BY <1>0, <1>2, <2>2 DEF Notify, DeviceType
  <2>4. DeviceType'
    BY <1>0, <1>1, <1>2, <2>1, <2>3 DEF Notify, DeviceType
  <2>5. QueueType' /\ ManagerType' /\ left' = left
    BY <1>0, <1>2 DEF Notify, QueueType, ManagerType, mgrVars, nwpVars, queues
  <2> QED BY <1>0, <2>4, <2>5, TypeParts
<1>3. CASE Notified
  BY <1>0, <1>1, <1>3, TypeParts
     DEF Notified, DeviceType, QueueType, ManagerType, mgrVars, nwpVars, queues
<1>4. ASSUME NEW l \in Listener, Register(l)
      PROVE  TypeOK'
  <2>1. listeners' \in Seq(Listener) /\ Len(listeners') = Len(listeners) + 1
    BY <1>0, <1>4, AppendProperties DEF Register, DeviceType
  <2>2. DeviceType'
    BY <1>0, <1>1, <1>4, <2>1 DEF Register, DeviceType
  <2>3. QueueType' /\ ManagerType' /\ left' = left
    BY <1>0, <1>4 DEF Register, QueueType, ManagerType, mgrVars, nwpVars, queues
  <2> QED BY <1>0, <2>2, <2>3, TypeParts
<1> QED BY <1>2, <1>3, <1>4

(* What the other threads post to the device *)
LEMMA SendType ==
  ASSUME QueueType, NEW e \in DevEvent, Send(e)
  PROVE  /\ eventQ' \in Seq(DevEvent) /\ Len(eventQ') <= QMax
         /\ lost' \in BOOLEAN
<1>1. Len(eventQ) <= QMax /\ eventQ \in Seq(DevEvent) /\ lost \in BOOLEAN
  BY DEF QueueType
<1> QED BY <1>1, SentType DEF Send

LEMMA SetPolicyType ==
  ASSUME ManagerType, NEW h \in Handler, SetPolicy(h)
  PROVE  ManagerType' /\ UNCHANGED <<eventQ, lost>>
<1>1. Goal(h) \in MgrState
  BY DEF Goal, MgrState
<1> QED BY <1>1 DEF SetPolicy, ManagerType

(* Requests, disturbances and what the NWP reports *)
LEMMA OutsideType ==
  ASSUME TypeOK, FwInstall \/ HttpRequest \/ NwpReports \/ NwpLoses \/ NwpLosesIp \/ NwpWantsReset \/ Fatal
  PROVE  TypeOK'
<1>0. DeviceType /\ QueueType /\ ManagerType /\ left \in 0 .. Budget
  BY TypeParts
<1>1. CASE FwInstall
  <2>1. QueueType'
    BY <1>0, <1>1, SendType DEF FwInstall, QueueType, DevEvent
  <2>2. DeviceType' /\ ManagerType'
    BY <1>0, <1>1 DEF FwInstall, DeviceType, ManagerType, others, netVars, mgrVars, nwpVars
  <2>3. left' \in 0 .. Budget
    BY <1>0, <1>1, SpentType DEF FwInstall, Spend
  <2> QED BY <2>1, <2>2, <2>3, TypeParts
<1>2. CASE HttpRequest
  <2>1. QueueType' /\ DeviceType' /\ ManagerType'
    BY <1>0, <1>2
       DEF HttpRequest, QueueType, DeviceType, ManagerType, others, netVars, mgrVars, nwpVars,
           queues
  <2>2. left' \in 0 .. Budget
    BY <1>0, <1>2, SpentType DEF HttpRequest, Spend
  <2> QED BY <2>1, <2>2, TypeParts
<1>3. ASSUME NEW e \in {"CONNECTED", "IP_ACQUIRED", "DISCONNECT", "IP_LOST"}, Report(e)
      PROVE  QueueType'
  <2>1. << e >> \in Seq(MgrEvent) /\ e \in DevEvent
    BY DEF MgrEvent, DevEvent
  <2> QED BY <1>0, <1>3, <2>1, SendType, PostedType DEF Report, QueueType
<1>4. CASE NwpReports
  <2>1. QueueType'
    BY <1>3, <1>4 DEF NwpReports
  <2>2. DeviceType' /\ ManagerType' /\ left' = left
    BY <1>0, <1>4 DEF NwpReports, DeviceType, ManagerType, device, netVars
  <2> QED BY <1>0, <2>1, <2>2, TypeParts
<1>5. CASE NwpLoses \/ NwpLosesIp
  <2>1. QueueType'
    BY <1>3, <1>5 DEF NwpLoses, NwpLosesIp
  <2>2. DeviceType' /\ ManagerType'
    BY <1>0, <1>5 DEF NwpLoses, NwpLosesIp, DeviceType, ManagerType, device, netVars, mgrVars
  <2>3. left' \in 0 .. Budget
    BY <1>0, <1>5, SpentType DEF NwpLoses, NwpLosesIp, Spend
  <2> QED BY <2>1, <2>2, <2>3, TypeParts
<1>6. CASE Fatal
  <2>1. QueueType'
    BY <1>0, <1>6, SendType DEF Fatal, QueueType, DevEvent
  <2>2. DeviceType' /\ ManagerType'
    BY <1>0, <1>6 DEF Fatal, DeviceType, ManagerType, device, netVars, mgrVars
  <2>3. left' \in 0 .. Budget
    BY <1>0, <1>6, SpentType DEF Fatal, Spend
  <2> QED BY <2>1, <2>2, <2>3, TypeParts
<1>7. CASE NwpWantsReset
  <2>1. << "RESET_REQUEST" >> \in Seq(MgrEvent)
    BY DEF MgrEvent
  <2>2. QueueType'
    BY <1>0, <1>7, <2>1, PostedType DEF NwpWantsReset, QueueType
  <2>3. DeviceType' /\ ManagerType'
    BY <1>0, <1>7 DEF NwpWantsReset, DeviceType, ManagerType, device, netVars, mgrVars, nwpVars
  <2>4. left' \in 0 .. Budget
    BY <1>0, <1>7, SpentType DEF NwpWantsReset, Spend
  <2> QED BY <2>2, <2>3, <2>4, TypeParts
<1> QED BY <1>1, <1>2, <1>4, <1>5, <1>6, <1>7

(* The manager *)
LEMMA ManagerStepType ==
  ASSUME TypeOK, ProcessEvent \/ MgrCallback \/ MgrTimeout
  PROVE  TypeOK'
<1>0. DeviceType /\ QueueType /\ ManagerType /\ left \in 0 .. Budget
  BY TypeParts
<1>1. ASSUME ManagerType', UNCHANGED <<device, eventQ, lost, left>>,
             mgrQ' \in Seq(MgrEvent), Len(mgrQ') <= MgrMax
      PROVE  TypeOK'
  BY <1>0, <1>1, TypeParts DEF DeviceType, QueueType, device, netVars
<1>2. CASE ProcessEvent
  <2>1. mgrQ' \in Seq(MgrEvent) /\ Len(mgrQ') <= MgrMax
    <3>1. /\ mgrQ' \in Seq(MgrEvent) /\ Len(mgrQ') = Len(mgrQ) - 1
          /\ Len(mgrQ) \in Nat /\ Len(mgrQ) <= MgrMax
      BY <1>0, <1>2, HeadTailProperties, LenProperties DEF ProcessEvent, QueueType
    <3> QED BY <3>1, SizeAssumption
  <2>2. ManagerType' /\ UNCHANGED <<eventQ, lost>>
    <3>1. MgrNext(mgr, Head(mgrQ)) \in MgrState
      BY <1>0 DEF MgrNext, MgrState, ManagerType
    <3>2. CASE \E h \in Handler : SetPolicy(h)
      BY <1>0, <3>2, SetPolicyType
    <3>3. CASE ~\E h \in Handler : SetPolicy(h)
      BY <1>0, <1>2, <3>1, <3>3 DEF ProcessEvent, ResetNWP, ManagerType, nwpVars, Handler
    <3> QED BY <3>2, <3>3
  <2> QED BY <1>1, <1>2, <2>1, <2>2 DEF ProcessEvent
<1>3. CASE MgrCallback
  <2>1. Says(handler) \in DevEvent /\ Goal(handler) \in MgrState
    BY DEF Says, Goal, DevEvent, MgrState
  <2>2. QueueType'
    BY <1>0, <1>3, <2>1, SendType DEF MgrCallback, QueueType
  <2>3. ManagerType'
    BY <1>0, <1>3, <2>1 DEF MgrCallback, ManagerType, WlanDisconnect
  <2>4. DeviceType' /\ left' = left
    BY <1>0, <1>3 DEF MgrCallback, DeviceType, device, netVars
  <2> QED BY <1>0, <2>2, <2>3, <2>4, TypeParts
<1>4. CASE MgrTimeout
  <2>1. ManagerType' /\ UNCHANGED <<eventQ, lost>>
    <3>1. CASE \E h \in Handler : SetPolicy(h)
      BY <1>0, <3>1, SetPolicyType
    <3>2. CASE ~\E h \in Handler : SetPolicy(h)
      BY <1>0, <1>4, <3>2 DEF MgrTimeout, ManagerType, MgrState, WlanDisconnect, Handler
    <3> QED BY <3>1, <3>2
  <2>2. DeviceType' /\ QueueType'
    BY <1>0, <1>4, <2>1 DEF MgrTimeout, DeviceType, QueueType, device, netVars
  <2>3. left' \in 0 .. Budget
    BY <1>0, <1>4, SpentType DEF MgrTimeout, Late, Spend
  <2> QED BY <2>1, <2>2, <2>3, TypeParts
<1> QED BY <1>2, <1>3, <1>4

LEMMA TypeInit == Init => TypeOK
<1>1. 0 \in 0 .. Tries /\ Budget \in 0 .. Budget /\ 0 <= QMax /\ 0 <= MgrMax
  BY SizeAssumption, BudgetAssumption
<1>2. /\ <<>> \in Seq(DevEvent) /\ <<>> \in Seq(MgrEvent) /\ <<>> \in Seq(Listener)
      /\ Len(<<>>) = 0
  BY EmptySeq
<1> SUFFICES ASSUME Init PROVE TypeOK
  OBVIOUS
<1>3. DeviceType
  <2>1. listeners \in Seq(Listener) /\ walk \in 0 .. Len(listeners)
    BY <1>2 DEF Init
  <2>2. heard \in [Listener -> {"none", "CONNECTED", "DISCONNECTED"}]
    BY DEF Init
  <2> QED BY <1>1, <2>1, <2>2 DEF Init, DeviceType, DevState
<1>4. QueueType
  BY <1>1, <1>2 DEF Init, QueueType
<1>5. ManagerType /\ left \in 0 .. Budget
  BY <1>1 DEF Init, ManagerType, MgrState, Handler
<1> QED BY <1>3, <1>4, <1>5, TypeParts

LEMMA TypeStep == TypeOK /\ [Next]_vars => TypeOK'
<1> SUFFICES ASSUME TypeOK, [Next]_vars PROVE TypeOK'
  OBVIOUS
<1>1. CASE UNCHANGED vars
  BY <1>1 DEF TypeOK, vars, netVars, mgrVars, nwpVars, queues
<1>2. CASE Next
  BY <1>2, MachineType, ListenerType, OutsideType, ManagerStepType
     DEF Next, ClientStep
<1> QED BY <1>1, <1>2

(***************************************************************************)
(* Every variable stays in its range; in particular neither queue grows    *)
(* past its size, whatever the three threads post (cc3220sf.c 305-309,     *)
(* slwificonn.c 773-785).                                                  *)
(***************************************************************************)
THEOREM TypeCorrect == Spec => []TypeOK
<1> QED BY TypeInit, TypeStep, PTL DEF Spec

-----------------------------------------------------------------------------
(* What holds between the state, the state to go to next, and the walk *)

Shape ==
  /\ dev \notin {"NOTIFY_UP", "NOTIFY_DOWN"} => walk = 0
  /\ dev = "NOTIFY_UP" => nstate = "IDLE"
  /\ dev = "NOTIFY_DOWN" => nstate = "STOP"
  /\ dev = "WAIT_4_START" => nstate = "CHECK_PROFILES"
  /\ dev = "SLEEP" => nstate \in {"INIT", "STOP"}

(* InitNeverWaits, strengthened to the sleep before a restart *)
Quiet ==
  dev = "INIT" \/ (dev = "SLEEP" /\ nstate = "INIT") => "RUNNING" \notin status

(***************************************************************************)
(* UpMeansService, strengthened: a client that believes in a connection is *)
(* on the list, and in the notification of its end not yet reached.        *)
(***************************************************************************)
OnList(l) ==
  \E i \in 1 .. Len(listeners) :
    listeners[i] = l /\ (dev = "NOTIFY_DOWN" => walk < i)

Told ==
  \A l \in Listener : heard[l] = "CONNECTED" => dev \in InService /\ OnList(l)

LEMMA SafeInit == Init => Shape /\ Quiet /\ Told
BY DEF Init, Shape, Quiet, Told

LEMMA MachineShape ==
  ASSUME TypeOK, Shape, Quiet, DeviceStep, ~Notify, ~Notified
  PROVE  Shape' /\ Quiet'
<1>1. CASE sm_init \/ sm_check_profiles \/ sm_start_network \/ sm_start_httpserver
           \/ sm_error \/ sm_sleep \/ sm_idle \/ sm_http_message
  BY <1>1
     DEF sm_init, sm_check_profiles, sm_start_network, sm_start_httpserver, sm_error,
         sm_sleep, sm_idle, sm_http_message, At, Shape,
         Quiet, others, netVars
<1>2. CASE sm_start \/ sm_wait_4_start \/ sm_wait_connect_ap \/ sm_wait_ip
  BY <1>2
     DEF sm_start, sm_wait_4_start, sm_wait_connect_ap, sm_wait_ip, At, Shape, Quiet,
         others, netVars
<1>3. CASE WaitTimeout
  BY <1>3, AwaitedTable DEF WaitTimeout, recv_event, Shape, Quiet, others, netVars
<1>4. CASE sm_handle_event \/ sm_stop \/ sm_stopping
  BY <1>4
     DEF sm_handle_event, sm_stop, sm_stopping, At, Shape, Quiet, others, netVars
<1>5. CASE sm_stopped
  BY <1>5 DEF sm_stopped, At, Shape, Quiet, others, netVars
<1> QED BY <1>1, <1>2, <1>3, <1>4, <1>5 DEF DeviceStep

(* Out of service nobody believes in a connection, in service it stays so *)
LEMMA MachineTold ==
  ASSUME TypeOK, Shape, Told, DeviceStep, ~Notify, ~Notified
  PROVE  Told'
<1>1. UNCHANGED netVars
  BY DEF DeviceStep, sm_init, sm_start, sm_wait_4_start, sm_check_profiles,
         sm_start_network, sm_start_httpserver, sm_wait_connect_ap,
         sm_wait_ip, WaitTimeout, sm_error, sm_sleep, sm_idle, sm_http_message,
         sm_handle_event, sm_stop, sm_stopping, sm_stopped, others
<1>2. ASSUME dev \in InService
      PROVE  /\ dev' \in {"IDLE", "HTTP_MESSAGE", "HANDLE_EVENT", "NOTIFY_DOWN"}
             /\ dev' = "NOTIFY_DOWN" => walk = 0
  BY <1>2, AwaitedTable
     DEF DeviceStep, sm_init, sm_start, sm_wait_4_start, sm_check_profiles,
         sm_start_network, sm_start_httpserver, sm_wait_connect_ap,
         sm_wait_ip, WaitTimeout, sm_error, sm_sleep, sm_idle, sm_http_message,
         sm_handle_event, sm_stop, sm_stopping, sm_stopped, At, InService, Shape
<1> SUFFICES ASSUME NEW l \in Listener, heard'[l] = "CONNECTED"
             PROVE  dev' \in InService /\ OnList(l)'
  BY DEF Told
<1>3. dev \in InService /\ OnList(l)
  BY <1>1 DEF Told, netVars
<1>4. PICK i \in 1 .. Len(listeners) : listeners[i] = l
  BY <1>3 DEF OnList
<1>5. Len(listeners) \in Nat
  BY LenProperties DEF TypeOK
<1>6. dev' = "NOTIFY_DOWN" => walk' < i
  BY <1>1, <1>2, <1>3, <1>4, <1>5 DEF netVars
<1>7. OnList(l)'
  <2>1. listeners' = listeners
    BY <1>1 DEF netVars
  <2>2. i \in 1 .. Len(listeners') /\ listeners'[i] = l
    BY <1>4, <2>1
  <2> QED BY <1>6, <2>2 DEF OnList
<1>8. dev' \in InService
  <2>1. dev \in InService
    BY <1>3
  <2>2. dev' \in {"IDLE", "HTTP_MESSAGE", "HANDLE_EVENT", "NOTIFY_DOWN"}
    BY <1>2, <2>1
  <2> QED BY <2>2 DEF InService
<1> QED BY <1>7, <1>8

(* One listener is told; those of a NOTIFY_DOWN still to be told are behind it *)
LEMMA NotifySafe ==
  ASSUME TypeOK, Shape, Quiet, Told, Notify
  PROVE  Shape' /\ Quiet' /\ Told'
<1>1. /\ dev' = dev /\ nstate' = nstate /\ status' = status
      /\ listeners' = listeners /\ walk' = walk + 1
      /\ walk \in Nat /\ Len(listeners) \in Nat /\ walk < Len(listeners)
      /\ dev \in {"NOTIFY_UP", "NOTIFY_DOWN"}
  BY NetworkTable, LenProperties DEF Notify, TypeOK
<1>2. Shape' /\ Quiet'
  BY <1>1 DEF Shape, Quiet
<1>3. ASSUME NEW l \in Listener, heard'[l] = "CONNECTED"
      PROVE  dev' \in InService /\ OnList(l)'
  <2>1. dev' \in InService
    BY <1>1 DEF InService
  <2>2. walk + 1 \in 1 .. Len(listeners)
    BY <1>1
  <2>3. CASE l = listeners[walk + 1]
    <3>1. heard'[l] = Network[dev]
      BY <2>3 DEF Notify, TypeOK
    <3>2. dev = "NOTIFY_UP"
      BY <1>1, <1>3, <3>1, NetworkTable
    <3> QED BY <1>1, <2>1, <2>2, <2>3, <3>2 DEF OnList
  <2>4. CASE l # listeners[walk + 1]
    <3>1. heard[l] = "CONNECTED"
      BY <1>3, <2>4 DEF Notify, TypeOK
    <3>2. OnList(l)
      BY <3>1 DEF Told
    <3>3. PICK i \in 1 .. Len(listeners) :
            listeners[i] = l /\ (dev = "NOTIFY_DOWN" => walk < i)
      BY <3>2 DEF OnList
    <3>4. dev = "NOTIFY_DOWN" => walk + 1 < i
      BY <1>1, <2>4, <3>3
    <3>5. OnList(l)'
      BY <1>1, <3>3, <3>4 DEF OnList
    <3> QED BY <2>1, <3>5
  <2> QED BY <2>3, <2>4
<1> QED BY <1>2, <1>3 DEF Told

(* At the end of a NOTIFY_DOWN nobody is left who believes in a connection *)
LEMMA NotifiedSafe ==
  ASSUME TypeOK, Shape, Quiet, Told, Notified
  PROVE  Shape' /\ Quiet' /\ Told'
<1>1. /\ dev' = nstate /\ nstate' = nstate /\ status' = status
      /\ listeners' = listeners /\ heard' = heard /\ walk' = 0
      /\ walk = Len(listeners) /\ Len(listeners) \in Nat
      /\ dev \in {"NOTIFY_UP", "NOTIFY_DOWN"}
  BY NetworkTable, LenProperties DEF Notified, TypeOK
<1>2. \/ dev = "NOTIFY_UP" /\ dev' = "IDLE"
      \/ dev = "NOTIFY_DOWN" /\ dev' = "STOP"
  BY <1>1 DEF Shape
<1>3. Shape' /\ Quiet'
  BY <1>1, <1>2 DEF Shape, Quiet
<1>4. ASSUME NEW l \in Listener, heard'[l] = "CONNECTED"
      PROVE  dev' \in InService /\ OnList(l)'
  <2>1. OnList(l)
    BY <1>1, <1>4 DEF Told
  <2>2. PICK i \in 1 .. Len(listeners) :
          listeners[i] = l /\ (dev = "NOTIFY_DOWN" => walk < i)
    BY <2>1 DEF OnList
  <2>3. dev' = "IDLE"
    BY <1>1, <1>2, <2>2
  <2>4. OnList(l)'
    BY <1>1, <2>2, <2>3 DEF OnList
  <2> QED BY <2>3, <2>4 DEF InService
<1> QED BY <1>3, <1>4 DEF Told

LEMMA RegisterSafe ==
  ASSUME TypeOK, Shape, Quiet, Told, NEW r \in Listener, Register(r)
  PROVE  Shape' /\ Quiet' /\ Told'
<1>1. Shape' /\ Quiet'
  BY DEF Register, Shape, Quiet
<1>2. /\ Len(listeners) \in Nat /\ Len(listeners') = Len(listeners) + 1
      /\ \A i \in 1 .. Len(listeners) : listeners'[i] = listeners[i]
  BY AppendProperties, LenProperties DEF Register, TypeOK
<1>3. ASSUME NEW l \in Listener, heard'[l] = "CONNECTED"
      PROVE  dev' \in InService /\ OnList(l)'
  <2>1. OnList(l)
    BY <1>3 DEF Told, Register
  <2>2. dev' \in InService
    BY <1>3 DEF Told, Register
  <2>3. PICK i \in 1 .. Len(listeners) :
          listeners[i] = l /\ (dev = "NOTIFY_DOWN" => walk < i)
    BY <2>1 DEF OnList
  <2>4. i \in 1 .. Len(listeners') /\ listeners'[i] = l
    BY <1>2, <2>3
  <2>5. dev' = "NOTIFY_DOWN" => walk' < i
    BY <2>3 DEF Register
  <2>6. OnList(l)'
    BY <2>4, <2>5 DEF OnList
  <2> QED BY <2>2, <2>6
<1> QED BY <1>1, <1>3 DEF Told

(* No other thread writes what these invariants read *)
LEMMA OthersSafe ==
  ASSUME Shape, Quiet, Told,
         \/ FwInstall \/ HttpRequest \/ ProcessEvent \/ MgrCallback \/ MgrTimeout
         \/ NwpReports \/ NwpLoses \/ NwpLosesIp \/ NwpWantsReset \/ Fatal \/ UNCHANGED vars
  PROVE  Shape' /\ Quiet' /\ Told'
<1>1. UNCHANGED <<dev, nstate, status, listeners, walk, heard>>
  BY DEF FwInstall, HttpRequest, ProcessEvent, MgrCallback, MgrTimeout, NwpReports, NwpLoses,
         NwpLosesIp, NwpWantsReset, Fatal, device, others, netVars, vars
<1> QED BY <1>1 DEF Shape, Quiet, Told, OnList

(* The inductive invariant *)
Safe == TypeOK /\ Shape /\ Quiet /\ Told

LEMMA SafeStep == Safe /\ [Next]_vars => Safe'
<1> SUFFICES ASSUME Safe, [Next]_vars PROVE Safe'
  OBVIOUS
<1>1. TypeOK /\ Shape /\ Quiet /\ Told
  BY DEF Safe
<1>2. TypeOK'
  BY <1>1, TypeStep
<1>3. CASE DeviceStep
  <2>1. CASE Notify
    BY <1>1, <1>2, <2>1, NotifySafe DEF Safe
  <2>2. CASE Notified
    BY <1>1, <1>2, <2>2, NotifiedSafe DEF Safe
  <2>3. CASE ~Notify /\ ~Notified
    BY <1>1, <1>2, <1>3, <2>3, MachineShape, MachineTold DEF Safe
  <2> QED BY <2>1, <2>2, <2>3
<1>4. CASE \E l \in Listener : Register(l)
  BY <1>1, <1>2, <1>4, RegisterSafe DEF Safe
<1>5. CASE \/ FwInstall \/ HttpRequest \/ ProcessEvent \/ MgrCallback \/ MgrTimeout
           \/ NwpReports \/ NwpLoses \/ NwpLosesIp \/ NwpWantsReset \/ Fatal \/ UNCHANGED vars
  BY <1>1, <1>2, <1>5, OthersSafe DEF Safe
<1> QED BY <1>3, <1>4, <1>5 DEF Next, ClientStep

LEMMA SafeAlways == Spec => []Safe
<1>1. Init => Safe
  BY TypeInit, SafeInit DEF Safe
<1> QED BY <1>1, SafeStep, PTL DEF Spec

(***************************************************************************)
(* The device never enters the loop of SM_INIT with RUNNING set, so it     *)
(* never waits there for an event nobody receives, however often the NWP   *)
(* fails to start or to stop (cc3220sf.c 1238-1244).                       *)
(***************************************************************************)
THEOREM InitPasses == Spec => []InitNeverWaits
<1>1. Safe => InitNeverWaits
  BY DEF Safe, Quiet, InitNeverWaits
<1> QED BY <1>1, SafeAlways, PTL

(***************************************************************************)
(* For any number of listeners, registering at any time, also during a     *)
(* notification: none believes in a connection once the device is out of   *)
(* service (cc3220sf.c 1440-1463, 1630-1638, netdevice.c 42-55, 228-252).  *)
(***************************************************************************)
THEOREM ServiceAnnounced == Spec => []UpMeansService
<1>1. Safe => UpMeansService
  BY DEF Safe, Told, UpMeansService
<1> QED BY <1>1, SafeAlways, PTL

-----------------------------------------------------------------------------
(* What the device believes *)

(* The bits that are to be true *)
Shown == {"RUNNING", "CONNECTED"}

(* Each event sets or clears a bit, whatever the other bits *)
LEMMA AppliedBit ==
  ASSUME NEW s, NEW e \in DevEvent, NEW b \in Shown
  PROVE  /\ Sets(e, b) <=> e = b
         /\ Sets(e, b) => ~Clears(e, b)
         /\ b \in Applied(s, e) <=> Sets(e, b) \/ (b \in s /\ ~Clears(e, b))
BY DEF Sets, Clears, Applied, Shown, DevEvent

LEMMA ClearingEvents ==
  /\ Clears("STOPPED", "RUNNING") /\ Clears("DISCONNECT", "CONNECTED")
  /\ \A b \in Shown : Clears("FATAL_ERROR", b)
BY DEF Clears, Applied, Shown

(* Receiving an event is no news *)
LEMMA ReceiveBelieves ==
  ASSUME QueueType, recv_event, NEW b \in Shown, Believes(b)'
  PROVE  Believes(b)
<1>1. CASE eventQ = <<>>
  <2>1. Event = "INVALID" /\ Received = status
    BY <1>1 DEF Event, Received, Applied
  <2> QED BY <1>1, <2>1 DEF recv_event, Believes
<1>2. CASE eventQ # <<>>
  <2>1. eventQ \in Seq(DevEvent)
    BY DEF QueueType
  <2>2. PICK n \in Nat : Len(eventQ) = n + 1
    <3>1. Len(eventQ) \in Nat \ {0}
      BY <1>2, <2>1, EmptySeq
    <3>2. Len(eventQ) - 1 \in Nat /\ Len(eventQ) = Len(eventQ) - 1 + 1
      BY <3>1
    <3> QED BY <3>2
  <2>3. /\ DOMAIN eventQ = 1 .. n + 1 /\ DOMAIN eventQ' = 1 .. n /\ Head(eventQ) = eventQ[1]
        /\ eventQ[1] \in DevEvent
        /\ \A i \in 1 .. n : eventQ'[i] = eventQ[i + 1]
    BY <1>2, <2>1, <2>2, HeadTailProperties, LenProperties DEF recv_event
  <2>4. status' = Applied(status, eventQ[1])
    BY <1>2, <2>3 DEF recv_event, Received, Event
  <2>5. \A j \in 1 .. n + 1 : j > 1 => \E i \in 1 .. n : j = i + 1
    <3> TAKE j \in 1 .. n + 1
    <3> HAVE j > 1
    <3>1. j - 1 \in 1 .. n /\ j = j - 1 + 1
      OBVIOUS
    <3> QED BY <3>1
  <2>6. CASE b \in status' /\ \A i \in 1 .. n : ~Clears(eventQ'[i], b)
    <3>1. \A j \in 1 .. n + 1 : j > 1 => ~Clears(eventQ[j], b)
      BY <2>3, <2>5, <2>6
    <3>2. CASE Sets(eventQ[1], b)
      <4>1. 1 \in DOMAIN eventQ
        BY <2>3
      <4> QED BY <2>3, <3>1, <3>2, <4>1 DEF Believes
    <3>3. CASE b \in status /\ ~Clears(eventQ[1], b)
      <4>1. \A j \in 1 .. n + 1 : j > 1 \/ j = 1
        OBVIOUS
      <4> QED BY <2>3, <3>1, <3>3, <4>1 DEF Believes
    <3> QED BY <2>3, <2>4, <2>6, <3>2, <3>3, AppliedBit
  <2>7. ASSUME NEW i \in 1 .. n, Sets(eventQ'[i], b), \A j \in 1 .. n : j > i => ~Clears(eventQ'[j], b)
        PROVE  Believes(b)
    <3>1. i + 1 \in DOMAIN eventQ /\ Sets(eventQ[i + 1], b)
      BY <2>3, <2>7
    <3>2. \A j \in 1 .. n + 1 : j > i + 1 => ~Clears(eventQ[j], b)
      <4> TAKE j \in 1 .. n + 1
      <4> HAVE j > i + 1
      <4>1. PICK k \in 1 .. n : j = k + 1
        BY <2>5
      <4>2. k > i
        BY <4>1
      <4> QED BY <2>3, <2>7, <4>1, <4>2
    <3> QED BY <2>3, <3>1, <3>2 DEF Believes
  <2>8. \/ b \in status' /\ \A i \in 1 .. n : ~Clears(eventQ'[i], b)
        \/ \E i \in 1 .. n : Sets(eventQ'[i], b) /\ \A j \in 1 .. n : j > i => ~Clears(eventQ'[j], b)
    BY <2>3 DEF Believes, Sets, Clears, Applied
  <2> QED BY <2>6, <2>7, <2>8
<1> QED BY <1>1, <1>2

(* The last event sent has the last word *)
LEMMA SendBelieves ==
  ASSUME QueueType, NEW e \in DevEvent, Send(e), ~lost', status' = status, NEW b \in Shown, Believes(b)'
  PROVE  ~lost /\ ~Clears(e, b) /\ (e = b \/ Believes(b))
<1>1. PICK n \in Nat : Len(eventQ) = n
  BY LenProperties DEF QueueType
<1>2. ~lost /\ n < QMax
  <2>1. ~lost /\ Len(eventQ) # QMax
    BY DEF Send
  <2> QED BY <1>1, <2>1, SizeAssumption DEF QueueType
<1>3. /\ DOMAIN eventQ = 1 .. n /\ DOMAIN eventQ' = 1 .. n + 1
      /\ \A i \in 1 .. n : eventQ'[i] = eventQ[i] /\ eventQ[i] \in DevEvent
      /\ eventQ'[n + 1] = e
  BY <1>1, <1>2, AppendProperties, LenProperties, ElementOfSeq DEF Send, Sent, QueueType
<1>4. \/ b \in status /\ \A i \in 1 .. n + 1 : ~Clears(eventQ'[i], b)
      \/ \E i \in 1 .. n + 1 : Sets(eventQ'[i], b) /\ \A j \in 1 .. n + 1 : j > i => ~Clears(eventQ'[j], b)
  BY <1>3 DEF Believes, Sets, Clears, Applied
<1>5. n + 1 \in 1 .. n + 1 /\ \A i \in 1 .. n : i \in 1 .. n + 1 /\ n + 1 > i
  OBVIOUS
<1>6. CASE b \in status /\ \A i \in 1 .. n + 1 : ~Clears(eventQ'[i], b)
  BY <1>2, <1>3, <1>5, <1>6 DEF Believes
<1>7. ASSUME NEW i \in 1 .. n + 1, Sets(eventQ'[i], b), \A j \in 1 .. n + 1 : j > i => ~Clears(eventQ'[j], b)
      PROVE  ~Clears(e, b) /\ (e = b \/ Believes(b))
  <2>1. CASE i = n + 1
    BY <1>3, <1>7, <2>1, AppliedBit
  <2>2. CASE i # n + 1
    <3>1. i \in 1 .. n
      BY <2>2
    <3>2. Sets(eventQ[i], b) /\ ~Clears(e, b) /\ \A j \in 1 .. n : j > i => ~Clears(eventQ[j], b)
      BY <1>3, <1>5, <1>7, <3>1
    <3> QED BY <1>3, <3>1, <3>2 DEF Believes
  <2> QED BY <2>1, <2>2
<1> QED BY <1>2, <1>4, <1>6, <1>7

(***************************************************************************)
(* BitsTrue, strengthened: a handler that has resumed the NWP has yet to   *)
(* say so, and once a fatal error is on its way, nothing that waits behind *)
(* it makes the device believe in a connection.                            *)
(***************************************************************************)
Suspending == handler \in {"Disable", "Idle"}

Truthful ==
  /\ handler = "Resume" => policy = "auto"
  /\ ~lost =>
       /\ Believes("RUNNING") => policy = "auto" \/ Suspending
       /\ nwp = "ok" /\ Believes("CONNECTED") => link # "down" \/ unsaid
       /\ nwp = "dead" => ~Believes("CONNECTED")

(* Steps that bring no news *)
LEMMA NoNews ==
  ASSUME Truthful, UNCHANGED <<lost, nwp, policy, link, handler, unsaid>>,
         \A b \in Shown : Believes(b)' => Believes(b)
  PROVE  Truthful'
<1>1. "RUNNING" \in Shown /\ "CONNECTED" \in Shown
  BY DEF Shown
<1> QED BY <1>1 DEF Truthful, Suspending

(* Nor does forgetting bits *)
LEMMA SameBelief ==
  ASSUME eventQ' = eventQ, NEW b \in Shown, b \in status' => b \in status, Believes(b)'
  PROVE  Believes(b)
BY DEF Believes, Sets, Clears, Applied

(* The device itself only receives and forgets *)
LEMMA DeviceTruthful ==
  ASSUME TypeOK, Truthful, DeviceStep
  PROVE  Truthful'
<1>0. QueueType
  BY TypeParts
<1>1. UNCHANGED <<lost, nwp, policy, link, handler, unsaid>>
  BY DEF DeviceStep, sm_init, sm_start, sm_wait_4_start, sm_check_profiles, sm_start_network,
     sm_start_httpserver, sm_wait_connect_ap, sm_wait_ip, WaitTimeout, sm_error, sm_sleep, sm_idle,
     sm_http_message, sm_handle_event, sm_stop, sm_stopping, sm_stopped, Notify, Notified, recv_event,
     others, mgrVars, nwpVars, queues
<1>2. recv_event \/ (eventQ' = eventQ /\ (status' = status \/ status' = status \cap {"FW_INSTALL"}))
  <2>1. CASE \/ sm_start \/ sm_wait_4_start \/ sm_wait_connect_ap \/ sm_wait_ip \/ WaitTimeout
             \/ sm_handle_event \/ sm_stop \/ sm_stopping
    BY <2>1 DEF sm_start, sm_wait_4_start, sm_wait_connect_ap, sm_wait_ip, WaitTimeout, sm_handle_event,
       sm_stop, sm_stopping
  <2>2. CASE \/ sm_init \/ sm_check_profiles \/ sm_start_network \/ sm_start_httpserver \/ sm_error
             \/ sm_sleep \/ sm_idle \/ sm_http_message \/ Notify \/ Notified
    BY <2>2 DEF sm_init, sm_check_profiles, sm_start_network, sm_start_httpserver, sm_error, sm_sleep,
       sm_idle, sm_http_message, Notify, Notified, queues
  <2>3. CASE sm_stopped
    BY <2>3 DEF sm_stopped, queues
  <2> QED BY <2>1, <2>2, <2>3 DEF DeviceStep
<1>3. \A b \in Shown : Believes(b)' => Believes(b)
  BY <1>0, <1>2, ReceiveBelieves, SameBelief
<1> QED BY <1>1, <1>3, NoNews

(* A report of the NWP, a request to install *)
LEMMA SendTruthful ==
  ASSUME QueueType, ManagerType, Truthful, NEW e \in DevEvent \ {"RUNNING"}, Send(e),
         UNCHANGED <<status, policy, handler>>,
         nwp = "ok" \/ nwp' = nwp,
         e = "CONNECTED" => nwp = "ok" /\ link' # "down",
         link' # "down" \/ e = "DISCONNECT" \/ (link' = link /\ unsaid' = unsaid),
         nwp' = nwp \/ e = "FATAL_ERROR"
  PROVE  Truthful'
<1>1. "RUNNING" \in Shown /\ "CONNECTED" \in Shown
  BY DEF Shown
<1>2. ASSUME ~lost', NEW b \in Shown, Believes(b)'
      PROVE  ~lost /\ ~Clears(e, b) /\ (e = b \/ Believes(b))
  BY <1>2, SendBelieves
<1>3. ASSUME ~lost', Believes("RUNNING")' PROVE policy' = "auto" \/ Suspending'
  <2>1. ~lost /\ Believes("RUNNING")
    BY <1>1, <1>2, <1>3
  <2> QED BY <2>1 DEF Truthful, Suspending
<1>4. ASSUME ~lost', Believes("CONNECTED")'
      PROVE  /\ ~lost /\ e \notin {"DISCONNECT", "FATAL_ERROR"}
             /\ e = "CONNECTED" \/ Believes("CONNECTED")
  BY <1>1, <1>2, <1>4, ClearingEvents
<1>5. ASSUME ~lost', nwp' = "ok", Believes("CONNECTED")' PROVE link' # "down" \/ unsaid'
  <2>1. ~lost /\ nwp = "ok" /\ e # "DISCONNECT" /\ (e = "CONNECTED" \/ Believes("CONNECTED"))
    BY <1>4, <1>5
  <2> QED BY <2>1 DEF Truthful
<1>6. ASSUME ~lost', nwp' = "dead" PROVE ~Believes("CONNECTED")'
  BY <1>4, <1>6 DEF Truthful
<1>7. handler' = "Resume" => policy' = "auto"
  BY DEF Truthful
<1> QED BY <1>3, <1>5, <1>6, <1>7 DEF Truthful

(* The manager announces what it has done *)
LEMMA CallbackTruthful ==
  ASSUME QueueType, ManagerType, Truthful, MgrCallback
  PROVE  Truthful'
<1>1. "RUNNING" \in Shown /\ "CONNECTED" \in Shown
  BY DEF Shown
<1>2. /\ Says(handler) \in DevEvent /\ Send(Says(handler))
      /\ UNCHANGED <<status, nwp, policy, unsaid>> /\ handler' = "none"
      /\ link' # "down" \/ link' = link
  BY DEF MgrCallback, WlanDisconnect, device, Says, DevEvent
<1>3. ASSUME ~lost', NEW b \in Shown, Believes(b)'
      PROVE  ~lost /\ ~Clears(Says(handler), b) /\ (Says(handler) = b \/ Believes(b))
  BY <1>2, <1>3, SendBelieves
<1>4. ASSUME ~lost', Believes("RUNNING")' PROVE policy' = "auto"
  <2>1. handler = "Resume" \/ Suspending
    BY DEF MgrCallback, ManagerType, Handler, Suspending
  <2>2. ~Clears(Says(handler), "RUNNING")
    BY <1>1, <1>3, <1>4
  <2>3. ~Suspending
    BY <2>2, ClearingEvents DEF Says, Suspending
  <2> QED BY <1>2, <2>1, <2>3 DEF Truthful
<1>5. ASSUME ~lost', Believes("CONNECTED")' PROVE ~lost /\ Believes("CONNECTED")
  BY <1>1, <1>3, <1>5 DEF Says
<1>6. ~lost' /\ nwp' = "ok" /\ Believes("CONNECTED")' => link' # "down" \/ unsaid'
  BY <1>2, <1>5 DEF Truthful
<1>7. ~lost' /\ nwp' = "dead" => ~Believes("CONNECTED")'
  BY <1>2, <1>5 DEF Truthful
<1> QED BY <1>2, <1>4, <1>6, <1>7 DEF Truthful

(* Every step keeps the bits true *)
LEMMA TruthfulStep ==
  ASSUME TypeOK, Truthful, [Next]_vars
  PROVE  Truthful'
<1>0. QueueType /\ ManagerType
  BY TypeParts
<1>1. CASE UNCHANGED <<status, eventQ, lost, nwp, policy, link, handler, unsaid>>
  BY <1>1, SameBelief, NoNews
<1>2. CASE (\E l \in Listener : Register(l)) \/ HttpRequest \/ NwpWantsReset \/ UNCHANGED vars
  BY <1>1, <1>2 DEF Register, HttpRequest, NwpWantsReset, vars, device, others, mgrVars, nwpVars, queues
<1>3. CASE FwInstall
  BY <1>0, <1>3, SendTruthful DEF FwInstall, others, mgrVars, nwpVars, DevEvent
<1>4. CASE NwpReports \/ NwpLoses \/ NwpLosesIp
  <2>1. nwp = "ok" /\ UNCHANGED <<status, nwp, policy, handler>>
    BY <1>4 DEF NwpReports, NwpLoses, NwpLosesIp, Report, device, mgrVars
  <2>2. \/ Send("CONNECTED") /\ link' = "up"
        \/ Send("IP_ACQUIRED") /\ link' = "ip"
        \/ Send("IP_LOST") /\ link' = "up"
        \/ Send("DISCONNECT") /\ link' = "down"
    BY <1>4 DEF NwpReports, NwpLoses, NwpLosesIp, Report
  <2> QED BY <1>0, <2>1, <2>2, SendTruthful DEF DevEvent
<1>5. CASE Fatal
  BY <1>0, <1>5, SendTruthful DEF Fatal, device, mgrVars, DevEvent
(* The policy is set, and the device will be told; nothing was resumed so far *)
<1>6. ASSUME NEW h \in Handler, SetPolicy(h), status' = status, handler = "none"
      PROVE  Truthful'
  <2>1. CASE nwp # "ok"
    BY <1>1, <1>6, <2>1 DEF SetPolicy
  <2>2. CASE nwp = "ok"
    <3>1. /\ handler' = h /\ policy' = (IF h = "Resume" THEN "auto" ELSE "off")
          /\ UNCHANGED <<nwp, link, unsaid, eventQ, lost>>
      BY <1>6, <2>2 DEF SetPolicy
    <3>2. policy' = "auto" \/ Suspending'
      BY <3>1 DEF Handler, Suspending
    <3>3. "CONNECTED" \in Shown /\ (Believes("CONNECTED")' => Believes("CONNECTED"))
      BY <1>6, <3>1, SameBelief DEF Shown
    <3> QED BY <2>2, <3>1, <3>2, <3>3 DEF Truthful
  <2> QED BY <2>1, <2>2
<1>7. CASE MgrTimeout
  <2>1. status' = status /\ handler = "none"
    BY <1>7 DEF MgrTimeout, device
  <2>2. CASE \E h \in Handler : SetPolicy(h)
    BY <1>6, <2>1, <2>2
  <2>3. CASE ~\E h \in Handler : SetPolicy(h)
    <3>1. UNCHANGED <<eventQ, lost, nwp, policy, handler, unsaid>> /\ (link' # "down" \/ link' = link)
      BY <1>7, <2>3 DEF MgrTimeout, WlanDisconnect, Handler
    <3>2. "RUNNING" \in Shown /\ "CONNECTED" \in Shown
      BY DEF Shown
    <3>3. \A b \in Shown : Believes(b)' => Believes(b)
      BY <2>1, <3>1, SameBelief
    <3> QED BY <3>1, <3>2, <3>3 DEF Truthful, Suspending
  <2> QED BY <2>2, <2>3
<1>8. CASE ProcessEvent
  <2>1. status' = status /\ handler = "none"
    BY <1>8 DEF ProcessEvent, device
  <2>2. CASE \E h \in Handler : SetPolicy(h)
    BY <1>6, <2>1, <2>2
  <2>3. CASE ResetNWP /\ UNCHANGED <<handler, eventQ, lost>>
    <3>1. nwp' = "ok" /\ policy' = "auto" /\ unsaid' = (unsaid \/ (nwp = "ok" /\ link # "down"))
      BY <2>3 DEF ResetNWP
    <3>2. "CONNECTED" \in Shown /\ (Believes("CONNECTED")' => Believes("CONNECTED"))
      BY <2>1, <2>3, SameBelief DEF Shown
    <3>3. ASSUME ~lost', Believes("CONNECTED")' PROVE unsaid'
      <4>1. ~lost /\ nwp = "ok"
        BY <1>0, <2>3, <3>2, <3>3 DEF Truthful, ManagerType
      <4> QED BY <2>3, <3>1, <3>2, <3>3, <4>1 DEF Truthful
    <3> QED BY <3>1, <3>3 DEF Truthful
  <2>4. CASE UNCHANGED <<nwpVars, handler, unsaid, eventQ, lost>>
    BY <1>1, <2>1, <2>4 DEF nwpVars
  <2> QED BY <1>8, <2>2, <2>3, <2>4 DEF ProcessEvent, Handler
<1>9. CASE MgrCallback
  BY <1>0, <1>9, CallbackTruthful
<1>10. CASE DeviceStep
  BY <1>10, DeviceTruthful
<1> QED BY <1>2, <1>3, <1>4, <1>5, <1>7, <1>8, <1>9, <1>10 DEF Next, ClientStep

(* Nothing is believed at the start *)
LEMMA TruthfulInit == Init => Truthful
<1> SUFFICES ASSUME Init PROVE Truthful
  OBVIOUS
<1>1. DOMAIN eventQ = {}
  BY DEF Init
<1> QED BY <1>1 DEF Init, Truthful, Believes

(***************************************************************************)
(* For any sizes of the queues, any listeners and any number of            *)
(* disturbances of the kinds of Kind - fatal errors, lost links and        *)
(* addresses, resets the NWP asks for, late timers, requests -: as long as *)
(* no event was dropped, and once it has received what waits, the device   *)
(* believes the NWP running only if it is or its suspension is about to be *)
(* announced, and connected only if it is or the link went in a reset of   *)
(* the running NWP.  A reset after a fatal error needs no exception: it    *)
(* takes the link without an event, but the fatal error has cleared every  *)
(* bit and nothing that waits behind it sets CONNECTED again (cc3220sf.c   *)
(* 305-480, 1143-1163, slwificonn.c 693-722, 1309-1320, 1678-1687).        *)
(***************************************************************************)
THEOREM BitsTold == Spec => []BitsTrue
<1>1. Init => TypeOK /\ Truthful
  BY TypeInit, TruthfulInit
<1>2. TypeOK /\ Truthful /\ [Next]_vars => (TypeOK /\ Truthful)'
  BY TypeStep, TruthfulStep
<1>3. Truthful => BitsTrue
  BY DEF Truthful, Suspending, BitsTrue
<1> QED BY <1>1, <1>2, <1>3, PTL DEF Spec
=============================================================================
