------------------------------ MODULE SlDrvCmd ------------------------------
(***************************************************************************)
(* The command path of the SimpleLink host driver (driver.c) with the      *)
(* spawn task that serves it (spawn.c).  Application threads issue         *)
(* commands to the network processor (NWP) over one SPI bus; the NWP       *)
(* answers with command responses and sends asynchronous events on its     *)
(* own; an interrupt announces every message, and either the thread that   *)
(* waits for a response or the spawn task reads it.                        *)
(*                                                                         *)
(* GlobalLockObj guards the bus.  RxIrqCnt and RxDoneCnt count announced   *)
(* and consumed messages, WaitForCmdResp tells the interrupt handler whom  *)
(* to wake, and SL_IS_RESTART_REQUIRED (RestartRequired) is raised once by *)
(* _SlDrvHandleFatalError.                                                 *)
(*                                                                         *)
(* The build modelled is the one the repository runs: multi-threaded       *)
(* (SL_PLATFORM_MULTI_THREADED), dynamic memory, started device, no        *)
(* provisioning in progress.                                               *)
(***************************************************************************)
EXTENDS Integers, Sequences, FiniteSets

CONSTANTS
  Thread,     \* application threads that call SimpleLink APIs
  Spawn,      \* the spawn task
  None,       \* "nobody": the lock is free, no message was read
  CntMod,     \* modulus of the driver's 8-bit counters (256 in the code)
  MaxEvents,  \* how many asynchronous events the NWP sends
  Sender,     \* the threads that also send messages without a response
  FlowMsgs,   \* whether the NWP sends flow-control (dummy) messages
  Faults      \* what may go wrong, a subset of FaultKinds

(***************************************************************************)
(* The failures the code handles:                                          *)
(*   sync    _SlDrvRxHdrRead finds no sync pattern in time                 *)
(*   assert  a protocol check or a short SPI transfer fails                *)
(*   dead    the NWP stops answering                                       *)
(*   slow    a response can be later than the command timeout              *)
(*   abort   the NWP reports its own failure in an asynchronous event      *)
(*   nomem   no memory for an entry of the spawn message list              *)
(***************************************************************************)
FaultKinds == {"sync", "assert", "dead", "slow", "abort", "nomem"}

ASSUME SpawnAssumption  == Spawn \notin Thread
ASSUME NoneAssumption   == None \notin Thread \cup {Spawn}
ASSUME CntModAssumption == CntMod \in Nat /\ CntMod > 2
ASSUME EventAssumption  == MaxEvents \in Nat
ASSUME SenderAssumption == Sender \subseteq Thread
ASSUME FlowAssumption   == FlowMsgs \in BOOLEAN
ASSUME FaultsAssumption == Faults \subseteq FaultKinds

Proc == Thread \cup {Spawn}

VARIABLES
  pc,                \* where every thread and the spawn task is
  GlobalLockObj,     \* owner of the global lock, or None
  WaitForCmdResp,    \* g_pCB->WaitForCmdResp
  CmdSyncObj,        \* binary semaphore, given or not
  RxIrqCnt,          \* messages announced by interrupt
  RxDoneCnt,         \* messages consumed
  rxMsg,             \* FunctionParams.AsyncExt: the message just read, until it is dispatched
  cmdOwner,          \* FunctionParams.pCmdCtrl: who wrote the last message
  spawnMsgList,      \* events read by commands, handled later by the spawn task
  IrqWriteCnt,       \* requests posted to the spawn task
  IrqReadCnt,        \* requests it has served
  spawnSync,         \* g_SlInternalSpawnCB.SyncObj
  RestartRequired,   \* SL_IS_RESTART_REQUIRED
  ApiInProgressCnt,  \* g_pCB->ApiInProgressCnt
  regWriteCnt,       \* IrqWriteCnt as loaded by a thread about to store its increment
  irqMasked,         \* NWP interrupt masked on the host
  wire,              \* messages the NWP has queued for the host
  irqPend,           \* how many of them it has not announced yet
  todo,              \* commands the NWP has accepted and not answered
  nwpAlive,          \* the NWP is running
  sent,              \* number of events sent so far
  handled,           \* events handed to their handlers, in order
  dropped,           \* events lost for want of memory
  answered           \* answered[t]: the response to t's last command reached t

lockVars  == <<GlobalLockObj, ApiInProgressCnt>>
cmdVars   == <<WaitForCmdResp, CmdSyncObj, cmdOwner, answered>>
rxVars    == <<RxIrqCnt, RxDoneCnt, rxMsg, irqMasked>>
spawnVars == <<IrqWriteCnt, IrqReadCnt, spawnSync, regWriteCnt>>
evtVars   == <<spawnMsgList, handled, dropped>>
nwpVars   == <<wire, irqPend, todo, nwpAlive, sent>>
vars == <<pc, lockVars, cmdVars, rxVars, spawnVars, evtVars, nwpVars,
          RestartRequired>>

Event == 1 .. MaxEvents

Msg == [cls : {"resp"}, tag : Thread] \cup [cls : {"async"}, tag : Event]
         \cup [cls : {"dummy"}, tag : {0}]

(* Mutant: the counter does not wrap *)
IncWide(c) == c + 1

Inc(c) == (c + 1) % CntMod

(* Mutant: compares the counters as if they never wrapped *)
PendingNoWrap == RxIrqCnt > RxDoneCnt

(* _SL_PENDING_RX_MSG *)
Pending == RxIrqCnt # RxDoneCnt

Goto(p, l) == pc' = [pc EXCEPT ![p] = l]

(***************************************************************************)
(* _SlDrvDriverCBInit, and the spawn task's own initialisation.            *)
(***************************************************************************)
Init ==
  /\ pc = [p \in Proc |-> IF p = Spawn THEN "swait" ELSE "idle"]
  /\ GlobalLockObj = None /\ ApiInProgressCnt = 0
  /\ WaitForCmdResp = FALSE /\ CmdSyncObj = FALSE
  /\ cmdOwner = None /\ answered = [t \in Thread |-> FALSE]
  /\ RxIrqCnt = 0 /\ RxDoneCnt = 0 /\ rxMsg = None /\ irqMasked = FALSE
  /\ IrqWriteCnt = 0 /\ IrqReadCnt = 0 /\ spawnSync = FALSE
  /\ regWriteCnt = [t \in Thread |-> 0]
  /\ spawnMsgList = <<>> /\ handled = <<>> /\ dropped = {}
  /\ wire = <<>> /\ irqPend = 0 /\ todo = <<>> /\ nwpAlive = TRUE /\ sent = 0
  /\ RestartRequired = FALSE

-----------------------------------------------------------------------------
(* The global lock *)

(* Mutant: every unlock counts an API out *)
UnlockAlways(b) ==
  /\ GlobalLockObj' = None
  /\ ApiInProgressCnt' = ApiInProgressCnt - 1

(* SL_DRV_LOCK_GLOBAL_UNLOCK(b); b is 1 when ApiInProgressCnt is decremented *)
Unlock(b) ==
  /\ GlobalLockObj' = None
  /\ ApiInProgressCnt' = ApiInProgressCnt - b

(***************************************************************************)
(* _SlDrvCmdOp enters _SlDrvObjGlobalLockWaitForever, which gives up       *)
(* before it blocks once a restart is required.                            *)
(***************************************************************************)
CmdOpRequest(t) ==
  /\ pc[t] = "idle" /\ ~RestartRequired
  /\ Goto(t, "lock")
  /\ answered' = [answered EXCEPT ![t] = FALSE]
  /\ UNCHANGED <<lockVars, WaitForCmdResp, CmdSyncObj, cmdOwner, rxVars,
                 spawnVars, evtVars, nwpVars, RestartRequired>>

(* _SlDrvDriverIsApiAllowed, the device being started and not provisioning *)
ApiAllowed == ~RestartRequired

Locked == [lock |-> "locked", listlock |-> "listlocked", sendlock |-> "sendlocked"]

(* sl_LockObjLock(&GlobalLockObj, SL_OS_WAIT_FOREVER) returns *)
LockAcquire(p) ==
  /\ pc[p] \in {"lock", "listlock", "sendlock"}
  /\ GlobalLockObj = None
  /\ GlobalLockObj' = p
  /\ Goto(p, Locked[pc[p]])
  /\ UNCHANGED <<ApiInProgressCnt, cmdVars, rxVars, spawnVars, evtVars,
                 nwpVars, RestartRequired>>

-----------------------------------------------------------------------------
(* Application threads: _SlDrvCmdOp and _SlDrvMsgReadCmdCtx *)

(* Mutant: the restart flag is not tested again once the lock is owned *)
CmdOpBeginNoRecheck(t) ==
  /\ pc[t] = "locked"
  /\ ApiInProgressCnt' = ApiInProgressCnt + 1
  /\ WaitForCmdResp' = TRUE
  /\ cmdOwner' = t
  /\ Goto(t, "writing")
  /\ UNCHANGED <<GlobalLockObj, CmdSyncObj, answered, rxVars, spawnVars, evtVars,
                 nwpVars, RestartRequired>>

(***************************************************************************)
(* The thread owns the lock: _SlDrvDriverIsApiAllowed and then _SlDrvCmdOp *)
(* give it back when a restart is required; otherwise the API is counted,  *)
(* WaitForCmdResp is set and _SlDrvMsgWrite starts.                        *)
(***************************************************************************)
CmdOpBegin(t) ==
  /\ pc[t] = "locked"
  /\ IF ApiAllowed
     THEN /\ ApiInProgressCnt' = ApiInProgressCnt + 1
          /\ WaitForCmdResp' = TRUE
          /\ cmdOwner' = t
          /\ Goto(t, "writing")
          /\ UNCHANGED GlobalLockObj
     ELSE /\ Unlock(0) /\ Goto(t, "idle")
          /\ UNCHANGED <<WaitForCmdResp, cmdOwner>>
  /\ UNCHANGED <<CmdSyncObj, answered, rxVars, spawnVars, evtVars, nwpVars,
                 RestartRequired>>

(* _SlDrvMsgWrite: the command is on the bus and the NWP has it *)
CmdOpWritten(t) ==
  /\ pc[t] = "writing"
  /\ todo' = IF nwpAlive THEN Append(todo, t) ELSE todo
  /\ Goto(t, "loop")
  /\ UNCHANGED <<lockVars, cmdVars, rxVars, spawnVars, evtVars, wire, irqPend,
                 nwpAlive, sent, RestartRequired>>

(* NWP_IF_WRITE_CHECK fails: fatal error, and _SlDrvCmdOp gives the lock back *)
CmdOpWriteFails(t) ==
  /\ pc[t] = "writing" /\ "assert" \in Faults
  /\ RestartRequired' = TRUE
  /\ Unlock(1)
  /\ Goto(t, "idle")
  /\ UNCHANGED <<cmdVars, rxVars, spawnVars, evtVars, nwpVars>>

(* while (TRUE == WaitForCmdResp): read a pending message or wait for one *)
CmdCtxLoop(t) ==
  /\ pc[t] = "loop"
  /\ Goto(t, IF ~WaitForCmdResp THEN "finish"
             ELSE IF Pending THEN "reading" ELSE "wait")
  /\ UNCHANGED <<lockVars, cmdVars, rxVars, spawnVars, evtVars, nwpVars,
                 RestartRequired>>

CmdCtxWake(t) ==
  /\ pc[t] = "wait" /\ CmdSyncObj
  /\ CmdSyncObj' = FALSE
  /\ Goto(t, "loop")
  /\ UNCHANGED <<lockVars, WaitForCmdResp, cmdOwner, answered, rxVars,
                 spawnVars, evtVars, nwpVars, RestartRequired>>

(* Mutant: no return after the timeout, the loop is left as if answered *)
CmdCtxTimeoutFallThrough(t) ==
  /\ pc[t] = "wait" /\ ~CmdSyncObj /\ ~nwpAlive /\ wire = <<>>
  /\ WaitForCmdResp' = FALSE
  /\ Goto(t, "loop")
  /\ UNCHANGED <<lockVars, CmdSyncObj, cmdOwner, answered, rxVars, spawnVars,
                 evtVars, nwpVars, RestartRequired>>

(***************************************************************************)
(* sl_SyncObjWait(&CmdSyncObj, CmdCmpltTimeout) times out: the lock is     *)
(* given back first, the fatal error is raised in a later step.  The       *)
(* timeout is seconds long, the delivery of a queued message is not: it    *)
(* expires if the NWP is dead or slow, or if another thread has cleared    *)
(* WaitForCmdResp, so that the interrupt signals the spawn task instead.   *)
(***************************************************************************)
CmdCtxTimeout(t) ==
  /\ pc[t] = "wait" /\ ~CmdSyncObj
  /\ (~nwpAlive /\ wire = <<>>) \/ ~WaitForCmdResp \/ "slow" \in Faults
  /\ WaitForCmdResp' = FALSE
  /\ Unlock(1)
  /\ Goto(t, "fatal")
  /\ UNCHANGED <<CmdSyncObj, cmdOwner, answered, rxVars, spawnVars, evtVars,
                 nwpVars, RestartRequired>>

(* _SlSpawnMsgListInsert: the event is kept for the spawn task, memory allowing *)
ListInsert(e) ==
  \/ /\ spawnMsgList' = Append(spawnMsgList, e)
     /\ UNCHANGED dropped
  \/ /\ "nomem" \in Faults
     /\ dropped' = dropped \cup {e}
     /\ UNCHANGED spawnMsgList

(* A message was read in command context: account for it and dispatch it *)
CmdCtxDispatch(t) ==
  /\ pc[t] = "read"
  /\ RxDoneCnt' = Inc(RxDoneCnt)
  /\ Goto(t, "loop")
  /\ \/ /\ rxMsg.cls = "resp"
        /\ WaitForCmdResp' = FALSE
        /\ CmdSyncObj' = FALSE
        /\ answered' = [answered EXCEPT ![cmdOwner] = rxMsg.tag = cmdOwner]
        /\ UNCHANGED evtVars
     \/ /\ rxMsg.cls = "async"
        /\ ListInsert(rxMsg.tag)
        /\ UNCHANGED <<WaitForCmdResp, CmdSyncObj, answered, handled>>
     \/ /\ rxMsg.cls = "dummy"
        /\ UNCHANGED <<WaitForCmdResp, CmdSyncObj, answered, evtVars>>
  /\ rxMsg' = None
  /\ UNCHANGED <<lockVars, cmdOwner, RxIrqCnt, irqMasked, spawnVars, nwpVars,
                 RestartRequired>>

(* Mutant: the spawn task is not told of the listed events *)
CmdCtxFinishSilent(t) ==
  /\ pc[t] = "finish"
  /\ Unlock(1)
  /\ Goto(t, "unlocked")
  /\ UNCHANGED <<cmdVars, rxVars, spawnVars, evtVars, nwpVars, RestartRequired>>

(* The response is in: have listed events processed, give the lock back *)
CmdCtxFinish(t) ==
  /\ pc[t] = "finish"
  /\ spawnSync' = (spawnSync \/ spawnMsgList # <<>>)
  /\ Unlock(1)
  /\ Goto(t, "unlocked")
  /\ UNCHANGED <<cmdVars, rxVars, IrqWriteCnt, IrqReadCnt, regWriteCnt,
                 evtVars, nwpVars, RestartRequired>>

(* _SL_PENDING_RX_MSG, tested without the lock; _SlDrvCmdOp returns OK if not *)
CmdCtxMore(t) ==
  /\ pc[t] = "unlocked"
  /\ Goto(t, IF Pending THEN "load" ELSE "idle")
  /\ UNCHANGED <<lockVars, cmdVars, rxVars, spawnVars, evtVars, nwpVars,
                 RestartRequired>>

(***************************************************************************)
(* _SlInternalSpawn(..FROM_CMD_CTX): IrqWriteCnt++ in a thread is a load   *)
(* and a store that an interrupt can separate.                             *)
(***************************************************************************)
SpawnReqLoad(t) ==
  /\ pc[t] = "load"
  /\ regWriteCnt' = [regWriteCnt EXCEPT ![t] = IrqWriteCnt]
  /\ Goto(t, "store")
  /\ UNCHANGED <<lockVars, cmdVars, rxVars, IrqWriteCnt, IrqReadCnt, spawnSync,
                 evtVars, nwpVars, RestartRequired>>

SpawnReqStore(t) ==
  /\ pc[t] = "store"
  /\ IrqWriteCnt' = Inc(regWriteCnt[t])
  /\ regWriteCnt' = [regWriteCnt EXCEPT ![t] = 0]
  /\ spawnSync' = TRUE
  /\ Goto(t, "idle")
  /\ UNCHANGED <<lockVars, cmdVars, rxVars, IrqReadCnt, evtVars, nwpVars,
                 RestartRequired>>

(***************************************************************************)
(* _SlDrvCmdSend: a message that has no response.  It takes the raw lock,  *)
(* without any test of the restart flag.                                   *)
(***************************************************************************)
CmdSendRequest(t) ==
  /\ pc[t] = "idle" /\ t \in Sender
  /\ Goto(t, "sendlock")
  /\ UNCHANGED <<lockVars, cmdVars, rxVars, spawnVars, evtVars, nwpVars,
                 RestartRequired>>

CmdSendBegin(t) ==
  /\ pc[t] = "sendlocked"
  /\ WaitForCmdResp' = FALSE
  /\ cmdOwner' = t
  /\ Goto(t, "sending")
  /\ UNCHANGED <<lockVars, CmdSyncObj, answered, rxVars, spawnVars, evtVars,
                 nwpVars, RestartRequired>>

CmdSendEnd(t) ==
  /\ pc[t] = "sending"
  /\ \/ UNCHANGED RestartRequired
     \/ "assert" \in Faults /\ RestartRequired' = TRUE
  /\ Unlock(0)
  /\ Goto(t, "idle")
  /\ UNCHANGED <<cmdVars, rxVars, spawnVars, evtVars, nwpVars>>

-----------------------------------------------------------------------------
(* _SlDrvMsgRead, by whoever owns the lock *)

MsgRead(p) ==
  /\ pc[p] = "reading" /\ wire # <<>>
  /\ rxMsg' = Head(wire)
  /\ wire' = Tail(wire)
  /\ irqMasked' = FALSE
  /\ Goto(p, "read")
  /\ UNCHANGED <<lockVars, cmdVars, RxIrqCnt, RxDoneCnt, spawnVars, evtVars,
                 irqPend, todo, nwpAlive, sent, RestartRequired>>

(* Mutant: the lock is kept when the sync pattern is missing *)
MsgReadSyncLossKeepsLock(p) ==
  /\ pc[p] = "reading" /\ "sync" \in Faults
  /\ Goto(p, "syncfatal")
  /\ UNCHANGED <<lockVars, cmdVars, rxVars, spawnVars, evtVars, nwpVars,
                 RestartRequired>>

(* No sync pattern: the lock is given back, the fatal error comes next *)
MsgReadSyncLoss(p) ==
  /\ pc[p] = "reading" /\ "sync" \in Faults
  /\ Unlock(1)
  /\ Goto(p, "syncfatal")
  /\ UNCHANGED <<cmdVars, rxVars, spawnVars, evtVars, nwpVars, RestartRequired>>

(* A short transfer while the header is read: fatal error, then the lock *)
MsgReadShortHdr(p) ==
  /\ pc[p] = "reading" /\ "assert" \in Faults
  /\ RestartRequired' = TRUE
  /\ Unlock(1)
  /\ Goto(p, "aborted")
  /\ UNCHANGED <<cmdVars, rxVars, spawnVars, evtVars, nwpVars>>

(***************************************************************************)
(* After the header, VERIFY_PROTOCOL, NWP_IF_READ_CHECK and                *)
(* _SL_ASSERT_ERROR raise the fatal error and make MsgRead return          *)
(* SL_API_ABORTED, which its callers take to mean that the lock has been   *)
(* given back.                                                             *)
(***************************************************************************)
MsgReadAssert(p) ==
  /\ pc[p] = "reading" /\ "assert" \in Faults
  /\ RestartRequired' = TRUE
  /\ Goto(p, "aborted")
  /\ UNCHANGED <<lockVars, cmdVars, rxVars, spawnVars, evtVars, nwpVars>>

(* _SlDrvHandleFatalError; MsgRead or MsgReadCmdCtx then returns *)
HandleFatalError(p) ==
  /\ pc[p] \in {"fatal", "syncfatal"}
  /\ RestartRequired' = TRUE
  /\ Goto(p, IF pc[p] = "fatal" THEN "idle" ELSE "aborted")
  /\ UNCHANGED <<lockVars, cmdVars, rxVars, spawnVars, evtVars, nwpVars>>

(* Mutant: the caller gives the lock back although MsgRead aborted *)
MsgReadAbortedUnlocks(p) ==
  /\ pc[p] = "aborted"
  /\ Unlock(1)
  /\ Goto(p, IF p = Spawn THEN "served" ELSE "idle")
  /\ UNCHANGED <<cmdVars, rxVars, spawnVars, evtVars, nwpVars, RestartRequired>>

(* MsgRead returned SL_API_ABORTED to MsgReadCmdCtx or to MsgReadSpawnCtx *)
MsgReadAborted(p) ==
  /\ pc[p] = "aborted"
  /\ IF p = Spawn
     THEN Goto(p, "served") /\ UNCHANGED WaitForCmdResp
     ELSE Goto(p, "idle") /\ WaitForCmdResp' = FALSE
  /\ UNCHANGED <<lockVars, CmdSyncObj, cmdOwner, answered, rxVars, spawnVars,
                 evtVars, nwpVars, RestartRequired>>

-----------------------------------------------------------------------------
(* The spawn task: _SlInternalSpawnWaitForEvent, _SlSpawnMsgListProcess and *)
(* _SlDrvMsgReadSpawnCtx                                                    *)

SpawnWake ==
  /\ pc[Spawn] = "swait" /\ spawnSync
  /\ spawnSync' = FALSE
  /\ Goto(Spawn, IF spawnMsgList = <<>> THEN "head" ELSE "list")
  /\ UNCHANGED <<lockVars, cmdVars, rxVars, IrqWriteCnt, IrqReadCnt,
                 regWriteCnt, evtVars, nwpVars, RestartRequired>>

(* The lock request for one listed event; no more processing on restart *)
ListRequest ==
  /\ pc[Spawn] = "list"
  /\ Goto(Spawn, IF RestartRequired THEN "head" ELSE "listlock")
  /\ UNCHANGED <<lockVars, cmdVars, rxVars, spawnVars, evtVars, nwpVars,
                 RestartRequired>>

(* The effect of a handler: it runs, and may report that the NWP failed *)
Handle(e) ==
  /\ handled' = Append(handled, e)
  /\ \/ UNCHANGED RestartRequired
     \/ "abort" \in Faults /\ RestartRequired' = TRUE

(* Mutant: the list head is not moved on *)
ListProcessKeepsHead ==
  /\ pc[Spawn] = "listlocked"
  /\ Unlock(0)
  /\ Handle(Head(spawnMsgList))
  /\ Goto(Spawn, "head")
  /\ UNCHANGED <<spawnMsgList, dropped, cmdVars, rxVars, spawnVars, nwpVars>>

ListProcess ==
  /\ pc[Spawn] = "listlocked"
  /\ Unlock(0)
  /\ IF RestartRequired
     THEN /\ Goto(Spawn, "head")
          /\ UNCHANGED <<evtVars, RestartRequired>>
     ELSE /\ Handle(Head(spawnMsgList))
          /\ spawnMsgList' = Tail(spawnMsgList)
          /\ Goto(Spawn, IF Len(spawnMsgList) > 1 THEN "list" ELSE "head")
          /\ UNCHANGED dropped
  /\ UNCHANGED <<cmdVars, rxVars, spawnVars, nwpVars>>

(* while (IrqWriteCnt != IrqReadCnt) _SlDrvMsgReadSpawnCtx, which may not lock *)
SpawnHead ==
  /\ pc[Spawn] = "head"
  /\ Goto(Spawn, IF IrqWriteCnt = IrqReadCnt THEN "swait"
                 ELSE IF RestartRequired THEN "served" ELSE "lock")
  /\ UNCHANGED <<lockVars, cmdVars, rxVars, spawnVars, evtVars, nwpVars,
                 RestartRequired>>

(* Mutant: reads without testing again that a message is pending *)
SpawnLockedNoRecheck ==
  /\ pc[Spawn] = "locked"
  /\ IF ~RestartRequired
     THEN Goto(Spawn, "reading") /\ UNCHANGED lockVars
     ELSE Goto(Spawn, "served") /\ Unlock(0)
  /\ UNCHANGED <<cmdVars, rxVars, spawnVars, evtVars, nwpVars, RestartRequired>>

(* Mutant: the lock is given back before the message is read *)
SpawnLockedEarlyUnlock ==
  /\ pc[Spawn] = "locked"
  /\ Goto(Spawn, IF ~RestartRequired /\ Pending THEN "reading" ELSE "served")
  /\ Unlock(0)
  /\ UNCHANGED <<cmdVars, rxVars, spawnVars, evtVars, nwpVars, RestartRequired>>

(* With the lock: not allowed, or a command has read the message already *)
SpawnLocked ==
  /\ pc[Spawn] = "locked"
  /\ IF ~RestartRequired /\ Pending
     THEN Goto(Spawn, "reading") /\ UNCHANGED lockVars
     ELSE Goto(Spawn, "served") /\ Unlock(0)
  /\ UNCHANGED <<cmdVars, rxVars, spawnVars, evtVars, nwpVars, RestartRequired>>

(***************************************************************************)
(* A message was read in spawn context.  An event is handled under the     *)
(* lock; a command response is illegal here and is thrown away.            *)
(***************************************************************************)
SpawnDispatch ==
  /\ pc[Spawn] = "read"
  /\ RxDoneCnt' = Inc(RxDoneCnt)
  /\ IF rxMsg.cls = "async"
     THEN Handle(rxMsg.tag)
     ELSE UNCHANGED <<handled, RestartRequired>>
  /\ Unlock(0)
  /\ Goto(Spawn, "served")
  /\ rxMsg' = None
  /\ UNCHANGED <<cmdVars, RxIrqCnt, irqMasked, spawnVars, spawnMsgList, dropped,
                 nwpVars>>

SpawnServed ==
  /\ pc[Spawn] = "served"
  /\ IrqReadCnt' = Inc(IrqReadCnt)
  /\ Goto(Spawn, "head")
  /\ UNCHANGED <<lockVars, cmdVars, rxVars, IrqWriteCnt, spawnSync, regWriteCnt,
                 evtVars, nwpVars, RestartRequired>>

-----------------------------------------------------------------------------
(* The interrupt handler and the NWP *)

(* _SlDrvRxIrqHandler *)
RxIrqHandler ==
  /\ ~irqMasked /\ irqPend > 0
  /\ irqMasked' = TRUE
  /\ irqPend' = irqPend - 1
  /\ RxIrqCnt' = Inc(RxIrqCnt)
  /\ IF WaitForCmdResp
     THEN CmdSyncObj' = TRUE /\ UNCHANGED <<IrqWriteCnt, spawnSync>>
     ELSE /\ IrqWriteCnt' = Inc(IrqWriteCnt)
          /\ spawnSync' = TRUE
          /\ UNCHANGED CmdSyncObj
  /\ UNCHANGED <<pc, lockVars, WaitForCmdResp, cmdOwner, answered, RxDoneCnt,
                 rxMsg, IrqReadCnt, regWriteCnt, evtVars, wire, todo, nwpAlive,
                 sent, RestartRequired>>

NwpSend(m) ==
  /\ nwpAlive
  /\ wire' = Append(wire, m)
  /\ irqPend' = irqPend + 1

NwpRespond ==
  /\ todo # <<>>
  /\ NwpSend([cls |-> "resp", tag |-> Head(todo)])
  /\ todo' = Tail(todo)
  /\ UNCHANGED <<pc, lockVars, cmdVars, rxVars, spawnVars, evtVars, nwpAlive,
                 sent, RestartRequired>>

NwpEvent ==
  /\ sent < MaxEvents
  /\ NwpSend([cls |-> "async", tag |-> sent + 1])
  /\ sent' = sent + 1
  /\ UNCHANGED <<pc, lockVars, cmdVars, rxVars, spawnVars, evtVars, todo,
                 nwpAlive, RestartRequired>>

(* A flow-control message; bounded by sending it only when nothing is queued *)
NwpDummy ==
  /\ FlowMsgs /\ wire = <<>>
  /\ NwpSend([cls |-> "dummy", tag |-> 0])
  /\ UNCHANGED <<pc, lockVars, cmdVars, rxVars, spawnVars, evtVars, todo,
                 nwpAlive, sent, RestartRequired>>

NwpDies ==
  /\ nwpAlive /\ "dead" \in Faults
  /\ nwpAlive' = FALSE
  /\ todo' = <<>>
  /\ UNCHANGED <<pc, lockVars, cmdVars, rxVars, spawnVars, evtVars, wire,
                 irqPend, sent, RestartRequired>>

-----------------------------------------------------------------------------

ThreadStep(t) ==
  \/ LockAcquire(t) \/ CmdOpBegin(t) \/ CmdOpWritten(t) \/ CmdCtxLoop(t)
  \/ CmdCtxWake(t) \/ CmdCtxTimeout(t) \/ CmdCtxDispatch(t) \/ CmdCtxFinish(t)
  \/ CmdCtxMore(t) \/ SpawnReqLoad(t) \/ SpawnReqStore(t)
  \/ CmdSendBegin(t) \/ CmdSendEnd(t)
  \/ CmdOpWriteFails(t)
  \/ MsgRead(t) \/ MsgReadSyncLoss(t) \/ MsgReadShortHdr(t) \/ MsgReadAssert(t)
  \/ HandleFatalError(t) \/ MsgReadAborted(t)

SpawnStep ==
  \/ SpawnWake \/ ListRequest \/ ListProcess \/ SpawnHead \/ SpawnLocked
  \/ SpawnDispatch \/ SpawnServed \/ LockAcquire(Spawn)
  \/ MsgRead(Spawn) \/ MsgReadSyncLoss(Spawn) \/ MsgReadShortHdr(Spawn)
  \/ MsgReadAssert(Spawn)
  \/ HandleFatalError(Spawn) \/ MsgReadAborted(Spawn)

NwpStep == NwpRespond \/ NwpEvent \/ NwpDummy \/ NwpDies

Next ==
  \/ \E t \in Thread : CmdOpRequest(t) \/ CmdSendRequest(t) \/ ThreadStep(t)
  \/ SpawnStep
  \/ RxIrqHandler
  \/ NwpStep

Spec == Init /\ [][Next]_vars

(***************************************************************************)
(* Fairness: the RTOS schedules every ready task, its mutexes serve their  *)
(* waiters in turn (hence strong fairness for LockAcquire), an unmasked    *)
(* interrupt is taken, and a live NWP answers what it has accepted.  No    *)
(* thread has to start a command and the NWP has to send no event.         *)
(***************************************************************************)
Fairness ==
  /\ \A t \in Thread : WF_vars(ThreadStep(t)) /\ SF_vars(LockAcquire(t))
  /\ WF_vars(SpawnStep) /\ SF_vars(LockAcquire(Spawn))
  /\ WF_vars(RxIrqHandler)
  /\ WF_vars(NwpRespond)

FairSpec == Spec /\ Fairness

(***************************************************************************)
(* The repository's application polls over the network every few seconds,  *)
(* so as long as no restart is required each thread keeps issuing commands *)
(***************************************************************************)
LoadedSpec == FairSpec /\ \A t \in Thread : WF_vars(CmdOpRequest(t))

-----------------------------------------------------------------------------
(* Properties *)

ThreadPc == {"idle", "lock", "locked", "writing", "loop", "wait", "reading",
             "read", "finish", "unlocked", "load", "store", "fatal",
             "syncfatal", "aborted", "sendlock", "sendlocked", "sending"}
SpawnPc  == {"swait", "list", "listlock", "listlocked", "head", "lock",
             "locked", "reading", "read", "served", "syncfatal", "aborted"}

PcTypeOK ==
  /\ pc \in [Proc -> ThreadPc \cup SpawnPc]
  /\ pc[Spawn] \in SpawnPc /\ \A t \in Thread : pc[t] \in ThreadPc

DataTypeOK ==
  /\ GlobalLockObj \in Proc \cup {None} /\ ApiInProgressCnt \in Int
  /\ WaitForCmdResp \in BOOLEAN /\ CmdSyncObj \in BOOLEAN
  /\ cmdOwner \in Thread \cup {None} /\ answered \in [Thread -> BOOLEAN]
  /\ RxIrqCnt \in 0 .. CntMod - 1 /\ RxDoneCnt \in 0 .. CntMod - 1
  /\ IrqWriteCnt \in 0 .. CntMod - 1 /\ IrqReadCnt \in 0 .. CntMod - 1
  /\ regWriteCnt \in [Thread -> 0 .. CntMod - 1]
  /\ irqMasked \in BOOLEAN /\ spawnSync \in BOOLEAN
  /\ nwpAlive \in BOOLEAN /\ RestartRequired \in BOOLEAN

MsgTypeOK ==
  /\ rxMsg \in Msg \cup {None} /\ wire \in Seq(Msg) /\ irqPend \in Nat
  /\ todo \in Seq(Thread) /\ sent \in 0 .. MaxEvents
  /\ spawnMsgList \in Seq(Event) /\ handled \in Seq(Event)
  /\ dropped \subseteq Event

(* Every variable stays in its range; the counters wrap as _u8 does *)
TypeOK == PcTypeOK /\ DataTypeOK /\ MsgTypeOK

(* These places transfer data over the bus or use the message just read *)
OnBus(p) == pc[p] \in {"writing", "sending", "reading", "read"}

(***************************************************************************)
(* The SPI bus and FunctionParams have one user at a time, in every error  *)
(* path too: MsgRead and its callers agree on who gives the lock back      *)
(* (driver.c 1282, 1748, 1906).                                            *)
(***************************************************************************)
BusExclusive == \A p, q \in Proc : OnBus(p) /\ OnBus(q) => p = q

(***************************************************************************)
(* _SlDrvCmdOp reports success only after the response to that very        *)
(* command was read into the caller's buffer: nobody else clears           *)
(* WaitForCmdResp, and no other response is taken for it                   *)
(* (driver.c 1736, 1757-1763).                                             *)
(***************************************************************************)
OkMeansResponse ==
  \A t \in Thread : pc[t] \in {"finish", "unlocked", "load", "store"} => answered[t]

(***************************************************************************)
(* What the global lock promises is BusLock.  A process uses the bus from  *)
(* the moment it sets up a message until it gives the lock back; the lock  *)
(* is lost when its owner has left the code that would give it back.       *)
(***************************************************************************)
UsePc  == {"writing", "loop", "wait", "reading", "read", "finish", "sending"}
HoldPc == UsePc \cup {"locked", "listlocked", "sendlocked"}

Bus == INSTANCE BusLock WITH
         Raw     <- Sender,
         owner   <- GlobalLockObj,
         using   <- {p \in Proc : pc[p] \in UsePc},
         lost    <- GlobalLockObj # None /\ pc[GlobalLockObj] \notin HoldPc,
         stopped <- RestartRequired

(***************************************************************************)
(* Only its owner uses and gives back the bus, no command and no read by   *)
(* the spawn task starts on it once a restart is required, and when it is  *)
(* lost a restart is required (driver.c 833-846, 1282, 1748, 1868-1906,    *)
(* 2722-2790, 3121-3160).                                                  *)
(***************************************************************************)
BusRefinement == Bus!Spec

Occurrences(s, e) == Cardinality({i \in DOMAIN s : s[i] = e})
InTransit(e) == IF (\E p \in Proc : pc[p] = "read") /\ rxMsg = [cls |-> "async", tag |-> e]
                THEN 1 ELSE 0

(***************************************************************************)
(* Every event the NWP has sent is in exactly one place: still queued, in  *)
(* the reader's hands, listed for the spawn task, handled, or dropped for  *)
(* want of memory.  None is lost or handled twice when a command and the   *)
(* spawn task race for it (driver.c 1738-1775, 1888-1930, 3121-3160).      *)
(***************************************************************************)
EventConserved ==
  \A e \in 1 .. sent :
     Occurrences(wire, [cls |-> "async", tag |-> e]) + InTransit(e)
       + Occurrences(spawnMsgList, e) + Occurrences(handled, e)
       + (IF e \in dropped THEN 1 ELSE 0) = 1

(***************************************************************************)
(* Interrupt accounting: the difference of the two 8-bit counters is the   *)
(* number of announced messages not yet consumed, across wrap-around, and  *)
(* the interrupt is masked exactly while an announced message is unread    *)
(* (driver.c 751-753, 1628, 1755).                                         *)
(***************************************************************************)
RxAccounting ==
  LET announced == Len(wire) - irqPend
      inHand    == IF \E p \in Proc : pc[p] = "read" THEN 1 ELSE 0
  IN  /\ announced = IF irqMasked THEN 1 ELSE 0
      /\ (RxIrqCnt - RxDoneCnt) % CntMod = announced + inHand

(***************************************************************************)
(* sl_Stop proceeds when _SlDrvIsApiInProgress says no (ApiInProgressCnt   *)
(* is not above zero): it never says so while a command is being executed, *)
(* though the increment and the decrement are made by different functions, *)
(* one per way out (driver.c 844, 870, 1282, 1803, 1832, 2757, 2780).      *)
(***************************************************************************)
ApiCounted ==
  (\E t \in Thread : pc[t] \in {"writing", "loop", "wait", "reading", "read",
                                "finish"})
    => ApiInProgressCnt > 0

(***************************************************************************)
(* Every command comes to an end, with its response or aborted: nobody     *)
(* waits for ever for GlobalLockObj or CmdSyncObj, whatever order the      *)
(* interrupt, the response and the test of _SL_PENDING_RX_MSG come in      *)
(* (driver.c 1736-1815, 2722).                                             *)
(***************************************************************************)
CommandEnds == \A t \in Thread : pc[t] = "lock" ~> pc[t] = "idle"

(***************************************************************************)
(* Every event the NWP sends gets handled, unless a restart is required:   *)
(* a message left pending by a command is picked up by the spawn task, and *)
(* a listed one is not forgotten (driver.c 1816-1838, spawn.c 63-82).      *)
(***************************************************************************)
PendingIsRead ==
  \A e \in Event :
     sent = e ~> (\E i \in DOMAIN handled : handled[i] = e) \/ RestartRequired
=============================================================================
