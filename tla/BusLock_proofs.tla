--------------------------- MODULE BusLock_proofs ---------------------------
(***************************************************************************)
(* The command path implements BusLock, for any number of threads, events  *)
(* and failures: each step of SlDrvCmd is a step of BusLock or changes     *)
(* nothing that BusLock sees.                                              *)
(***************************************************************************)
EXTENDS SlDrvCmd_proofs

(* p moves from a to l, everybody else stays *)
Move(p, l) == p \in Proc /\ Goto(p, l)

SameLock == UNCHANGED <<GlobalLockObj, RestartRequired>>

(* What IInv says that a step of the abstract lock needs *)
LEMMA OwnerOnly ==
  ASSUME IInv
  PROVE  /\ pc \in [Proc -> ThreadPc \cup SpawnPc]
         /\ \A p \in Proc : pc[p] \in HoldPc => GlobalLockObj = p
         /\ RestartRequired \in BOOLEAN
         /\ None \notin Proc /\ UsePc \subseteq HoldPc
  BY NoneAssumption DEF IInv, TypeOK, PcTypeOK, DataTypeOK, LockInv, Proc, HoldPc

(* A move that neither takes nor gives back anything *)
LEMMA StutterStep ==
  ASSUME IInv, NEW p, NEW l, Move(p, l),
         pc[p] \in UsePc <=> l \in UsePc,
         pc[p] \in HoldPc <=> l \in HoldPc,
         SameLock
  PROVE  UNCHANGED Bus!vars
<1>1. \A q \in Proc : (pc'[q] \in UsePc) = (pc[q] \in UsePc)
  BY OwnerOnly DEF Move, Goto
<1>2. {q \in Proc : pc'[q] \in UsePc} = {q \in Proc : pc[q] \in UsePc}
  BY <1>1
<1>3. (GlobalLockObj # None /\ pc'[GlobalLockObj] \notin HoldPc)
        = (GlobalLockObj # None /\ pc[GlobalLockObj] \notin HoldPc)
  BY OwnerOnly DEF Move, Goto
<1>. QED BY <1>2, <1>3 DEF SameLock, Bus!vars

(* Such a move of _SlDrvHandleFatalError *)
LEMMA StopStep ==
  ASSUME IInv, NEW p, NEW l, Move(p, l),
         pc[p] \in UsePc <=> l \in UsePc,
         pc[p] \in HoldPc <=> l \in HoldPc,
         UNCHANGED GlobalLockObj,
         RestartRequired' = TRUE
  PROVE  Bus!Stop
<1>1. \A q \in Proc : (pc'[q] \in UsePc) = (pc[q] \in UsePc)
  BY OwnerOnly DEF Move, Goto
<1>2. {q \in Proc : pc'[q] \in UsePc} = {q \in Proc : pc[q] \in UsePc}
  BY <1>1
<1>3. (GlobalLockObj # None /\ pc'[GlobalLockObj] \notin HoldPc)
        = (GlobalLockObj # None /\ pc[GlobalLockObj] \notin HoldPc)
  BY OwnerOnly DEF Move, Goto
<1>. QED BY <1>2, <1>3 DEF Bus!Stop

(* The lock is free and p gets it *)
LEMMA AcquireStep ==
  ASSUME IInv, NEW p, NEW l, Move(p, l),
         pc[p] \notin HoldPc,
         l \in HoldPc \ UsePc,
         GlobalLockObj = None,
         GlobalLockObj' = p,
         UNCHANGED RestartRequired
  PROVE  Bus!Acquire(p)
<1>1. {q \in Proc : pc'[q] \in UsePc} = {q \in Proc : pc[q] \in UsePc}
  BY OwnerOnly DEF Move, Goto
<1>2. pc'[p] = l
  BY OwnerOnly DEF Move, Goto
<1>. QED BY <1>1, <1>2 DEF Bus!Acquire

(* p owns the lock and starts to use the bus *)
LEMMA BeginStep ==
  ASSUME IInv, NEW p, NEW l, Move(p, l),
         pc[p] \in HoldPc \ UsePc,
         l \in UsePc,
         SameLock,
         RestartRequired => p \in Sender
  PROVE  Bus!Begin(p)
<1>1. GlobalLockObj = p /\ GlobalLockObj # None
  BY OwnerOnly DEF Move
<1>2. {q \in Proc : pc'[q] \in UsePc} = {p} /\ pc'[p] = l
  BY OwnerOnly DEF Move, Goto
<1>. QED BY <1>1, <1>2, OwnerOnly DEF SameLock, Bus!Begin

(* p gives the lock back, whatever it did with it *)
LEMMA ReleaseStep ==
  ASSUME IInv, NEW p, NEW l, Move(p, l),
         pc[p] \in HoldPc,
         l \notin HoldPc,
         GlobalLockObj' = None,
         RestartRequired' \in {RestartRequired, TRUE}
  PROVE  Bus!Release(p)
<1>1. GlobalLockObj = p /\ GlobalLockObj # None
  BY OwnerOnly DEF Move
<1>2. {q \in Proc : pc'[q] \in UsePc} = {}
  BY OwnerOnly DEF Move, Goto
<1>. QED BY <1>1, <1>2 DEF Bus!Release

(* p leaves MsgRead and keeps the lock *)
LEMMA AbandonStep ==
  ASSUME IInv, NEW p, NEW l, Move(p, l),
         pc[p] \in UsePc,
         l \notin HoldPc,
         UNCHANGED GlobalLockObj,
         RestartRequired' = TRUE
  PROVE  Bus!Abandon(p)
<1>1. GlobalLockObj = p /\ GlobalLockObj # None
  BY OwnerOnly DEF Move
<1>2. {q \in Proc : pc[q] \in UsePc} = {p}
  BY <1>1, OwnerOnly DEF Move
<1>3. {q \in Proc : pc'[q] \in UsePc} = {} /\ pc'[p] = l
  BY OwnerOnly DEF Move, Goto
<1>. QED BY <1>1, <1>2, <1>3 DEF Bus!Abandon

(* Only _SlDrvCmdSend takes the raw lock, and only senders call it *)
SenderInv ==
  \A t \in Thread : pc[t] \in {"sendlock", "sendlocked", "sending"} => t \in Sender

LEMMA SenderStep == IInv /\ SenderInv /\ [Next]_vars => SenderInv'
<1> SUFFICES ASSUME IInv, SenderInv, [Next]_vars, NEW q \in Thread,
                    pc'[q] \in {"sendlock", "sendlocked", "sending"}
             PROVE  q \in Sender
  BY DEF SenderInv
<1> USE OwnerOnly, SpawnAssumption DEF SenderInv, Goto, Proc
<1>1. ASSUME NEW t \in Thread, CmdSendRequest(t) \/ CmdSendBegin(t) \/ CmdSendEnd(t)
      PROVE  q \in Sender
  BY <1>1 DEF CmdSendRequest, CmdSendBegin, CmdSendEnd
<1>2. ASSUME NEW p \in Proc, LockAcquire(p) PROVE q \in Sender
  BY <1>2 DEF LockAcquire, Locked
<1>3. ASSUME NEW t \in Thread,
             CmdOpRequest(t) \/ CmdOpBegin(t) \/ CmdOpWritten(t) \/ CmdOpWriteFails(t)
      PROVE  q \in Sender
  BY <1>3 DEF CmdOpRequest, CmdOpBegin, CmdOpWritten, CmdOpWriteFails
<1>4. ASSUME NEW t \in Thread,
             CmdCtxLoop(t) \/ CmdCtxWake(t) \/ CmdCtxTimeout(t) \/ CmdCtxDispatch(t)
      PROVE  q \in Sender
  BY <1>4 DEF CmdCtxLoop, CmdCtxWake, CmdCtxTimeout, CmdCtxDispatch
<1>5. ASSUME NEW t \in Thread,
             CmdCtxFinish(t) \/ CmdCtxMore(t) \/ SpawnReqLoad(t) \/ SpawnReqStore(t)
      PROVE  q \in Sender
  BY <1>5 DEF CmdCtxFinish, CmdCtxMore, SpawnReqLoad, SpawnReqStore
<1>6. ASSUME NEW p \in Proc,
             \/ MsgRead(p) \/ MsgReadSyncLoss(p) \/ MsgReadShortHdr(p)
             \/ MsgReadAssert(p) \/ HandleFatalError(p) \/ MsgReadAborted(p)
      PROVE  q \in Sender
  BY <1>6 DEF MsgRead, MsgReadSyncLoss, MsgReadShortHdr, MsgReadAssert,
              HandleFatalError, MsgReadAborted
<1>7. ASSUME SpawnWake \/ ListRequest \/ ListProcess \/ SpawnHead \/ SpawnLocked
               \/ SpawnDispatch \/ SpawnServed
      PROVE  q \in Sender
  BY <1>7 DEF SpawnWake, ListRequest, ListProcess, SpawnHead, SpawnLocked,
              SpawnDispatch, SpawnServed
<1>8. ASSUME RxIrqHandler \/ NwpStep \/ UNCHANGED vars PROVE q \in Sender
  BY <1>8 DEF RxIrqHandler, NwpStep, NwpRespond, NwpEvent, NwpDummy, NwpDies, vars
<1>. QED
  BY <1>1, <1>2, <1>3, <1>4, <1>5, <1>6, <1>7, <1>8
     DEF Next, ThreadStep, SpawnStep
(* Each step of the command path is one of these *)
LEMMA BusStep == IInv /\ SenderInv /\ [Next]_vars => [Bus!Next]_(Bus!vars)
<1> SUFFICES ASSUME IInv, SenderInv, [Next]_vars PROVE Bus!Next \/ UNCHANGED Bus!vars
  OBVIOUS
<1> USE SpawnAssumption DEF lockVars, cmdVars, rxVars, spawnVars, evtVars,
        nwpVars, Move, SameLock, HoldPc, UsePc, Proc, Unlock
<1>1. ASSUME NEW t \in Thread, CmdOpRequest(t) PROVE Bus!Next \/ UNCHANGED Bus!vars
  BY <1>1, StutterStep DEF CmdOpRequest
<1>2. ASSUME NEW t \in Thread, CmdSendRequest(t) PROVE Bus!Next \/ UNCHANGED Bus!vars
  BY <1>2, StutterStep DEF CmdSendRequest
<1>3. ASSUME NEW t \in Thread, CmdOpBegin(t) PROVE Bus!Next \/ UNCHANGED Bus!vars
  <2>1. pc[t] = "locked" BY <1>3 DEF CmdOpBegin
  <2>2. CASE GlobalLockObj' = None
    <3>1. PICK l : l \notin HoldPc /\ Goto(t, l) /\ UNCHANGED RestartRequired
      BY <1>3, <2>2, OwnerOnly DEF CmdOpBegin, ApiAllowed
    <3>2. Bus!Release(t) BY <2>1, <2>2, <3>1, ReleaseStep
    <3>. QED BY <3>2 DEF Bus!Next
  <2>3. CASE GlobalLockObj' # None
    <3>1. PICK l : l \in UsePc /\ Goto(t, l) /\ SameLock /\ ~RestartRequired
      BY <1>3, <2>3 DEF CmdOpBegin, ApiAllowed
    <3>2. Bus!Begin(t) BY <2>1, <3>1, BeginStep
    <3>. QED BY <3>2 DEF Bus!Next
  <2>. QED BY <2>2, <2>3
<1>4. ASSUME NEW t \in Thread, CmdOpWritten(t) PROVE Bus!Next \/ UNCHANGED Bus!vars
  BY <1>4, StutterStep DEF CmdOpWritten
<1>5. ASSUME NEW t \in Thread, CmdOpWriteFails(t) PROVE Bus!Next \/ UNCHANGED Bus!vars
  BY <1>5, ReleaseStep DEF CmdOpWriteFails, Bus!Next
<1>6. ASSUME NEW t \in Thread, CmdCtxLoop(t) PROVE Bus!Next \/ UNCHANGED Bus!vars
  BY <1>6, StutterStep DEF CmdCtxLoop
<1>7. ASSUME NEW t \in Thread, CmdCtxWake(t) PROVE Bus!Next \/ UNCHANGED Bus!vars
  BY <1>7, StutterStep DEF CmdCtxWake
<1>8. ASSUME NEW t \in Thread, CmdCtxTimeout(t) PROVE Bus!Next \/ UNCHANGED Bus!vars
  BY <1>8, ReleaseStep DEF CmdCtxTimeout, Bus!Next
<1>9. ASSUME NEW t \in Thread, CmdCtxDispatch(t) PROVE Bus!Next \/ UNCHANGED Bus!vars
  BY <1>9, StutterStep DEF CmdCtxDispatch
<1>10. ASSUME NEW t \in Thread, CmdCtxFinish(t) PROVE Bus!Next \/ UNCHANGED Bus!vars
  BY <1>10, ReleaseStep DEF CmdCtxFinish, Bus!Next
<1>11. ASSUME NEW t \in Thread, CmdCtxMore(t) PROVE Bus!Next \/ UNCHANGED Bus!vars
  BY <1>11, StutterStep DEF CmdCtxMore
<1>12. ASSUME NEW t \in Thread, SpawnReqLoad(t) PROVE Bus!Next \/ UNCHANGED Bus!vars
  BY <1>12, StutterStep DEF SpawnReqLoad
<1>13. ASSUME NEW t \in Thread, SpawnReqStore(t) PROVE Bus!Next \/ UNCHANGED Bus!vars
  BY <1>13, StutterStep DEF SpawnReqStore
<1>14. ASSUME NEW t \in Thread, CmdSendBegin(t) PROVE Bus!Next \/ UNCHANGED Bus!vars
  <2>1. Move(t, "sending") /\ SameLock /\ t \in Sender
    BY <1>14 DEF CmdSendBegin, SenderInv
  <2>2. pc[t] \in HoldPc \ UsePc /\ "sending" \in UsePc
    BY <1>14 DEF CmdSendBegin
  <2>. QED BY <2>1, <2>2, BeginStep DEF Bus!Next
<1>15. ASSUME NEW t \in Thread, CmdSendEnd(t) PROVE Bus!Next \/ UNCHANGED Bus!vars
  BY <1>15, ReleaseStep DEF CmdSendEnd, Bus!Next
<1>16. ASSUME NEW p \in Proc, LockAcquire(p) PROVE Bus!Next \/ UNCHANGED Bus!vars
  BY <1>16, AcquireStep DEF LockAcquire, Locked, Bus!Next
<1>17. ASSUME NEW p \in Proc, MsgRead(p) PROVE Bus!Next \/ UNCHANGED Bus!vars
  BY <1>17, StutterStep DEF MsgRead
<1>18. ASSUME NEW p \in Proc, MsgReadSyncLoss(p) PROVE Bus!Next \/ UNCHANGED Bus!vars
  BY <1>18, ReleaseStep DEF MsgReadSyncLoss, Bus!Next
<1>19. ASSUME NEW p \in Proc, MsgReadShortHdr(p) PROVE Bus!Next \/ UNCHANGED Bus!vars
  BY <1>19, ReleaseStep DEF MsgReadShortHdr, Bus!Next
<1>20. ASSUME NEW p \in Proc, MsgReadAssert(p) PROVE Bus!Next \/ UNCHANGED Bus!vars
  BY <1>20, AbandonStep DEF MsgReadAssert, Bus!Next
<1>21. ASSUME NEW p \in Proc, HandleFatalError(p) PROVE Bus!Next \/ UNCHANGED Bus!vars
  BY <1>21, StopStep DEF HandleFatalError, Bus!Next
<1>22. ASSUME NEW p \in Proc, MsgReadAborted(p) PROVE Bus!Next \/ UNCHANGED Bus!vars
  BY <1>22, StutterStep DEF MsgReadAborted
<1>23. CASE SpawnWake
  BY <1>23, StutterStep DEF SpawnWake
<1>24. CASE ListRequest
  BY <1>24, StutterStep DEF ListRequest
<1>25. CASE ListProcess
  BY <1>25, ReleaseStep DEF ListProcess, Handle, Bus!Next
<1>26. CASE SpawnHead
  BY <1>26, StutterStep DEF SpawnHead
<1>27. CASE SpawnLocked
  <2>1. pc[Spawn] = "locked" BY <1>27 DEF SpawnLocked
  <2>2. CASE GlobalLockObj' = None
    <3>1. PICK l : l \notin HoldPc /\ Goto(Spawn, l) /\ UNCHANGED RestartRequired
      BY <1>27, <2>2, OwnerOnly DEF SpawnLocked
    <3>2. Bus!Release(Spawn) BY <2>1, <2>2, <3>1, ReleaseStep
    <3>. QED BY <3>2 DEF Bus!Next
  <2>3. CASE GlobalLockObj' # None
    <3>1. PICK l : l \in UsePc /\ Goto(Spawn, l) /\ SameLock /\ ~RestartRequired
      BY <1>27, <2>3 DEF SpawnLocked
    <3>2. Bus!Begin(Spawn) BY <2>1, <3>1, BeginStep
    <3>. QED BY <3>2 DEF Bus!Next
  <2>. QED BY <2>2, <2>3
<1>28. CASE SpawnDispatch
  BY <1>28, ReleaseStep DEF SpawnDispatch, Handle, Bus!Next
<1>29. CASE SpawnServed
  BY <1>29, StutterStep DEF SpawnServed
<1>30. CASE RxIrqHandler
  BY <1>30 DEF RxIrqHandler, Bus!vars
<1>31. CASE NwpRespond
  BY <1>31 DEF NwpRespond, NwpSend, Bus!vars
<1>32. CASE NwpEvent
  BY <1>32 DEF NwpEvent, NwpSend, Bus!vars
<1>33. CASE NwpDummy
  BY <1>33 DEF NwpDummy, NwpSend, Bus!vars
<1>34. CASE NwpDies
  BY <1>34 DEF NwpDies, Bus!vars
<1>35. CASE UNCHANGED vars
  BY <1>35 DEF vars, Bus!vars
<1>. QED
  BY <1>1, <1>2, <1>3, <1>4, <1>5, <1>6, <1>7, <1>8, <1>9, <1>10, <1>11,
     <1>12, <1>13, <1>14, <1>15, <1>16, <1>17, <1>18, <1>19, <1>20, <1>21,
     <1>22, <1>23, <1>24, <1>25, <1>26, <1>27, <1>28, <1>29, <1>30, <1>31,
     <1>32, <1>33, <1>34, <1>35
     DEF Next, ThreadStep, SpawnStep, NwpStep

(***************************************************************************)
(* SlDrvCmd implements BusLock: only its owner uses the bus and gives it   *)
(* back, no command and no read by the spawn task starts once a restart is *)
(* required, and a lock that is lost means that a restart is required.     *)
(***************************************************************************)
THEOREM BusImplemented == Spec => BusRefinement
<1>1. Init => Bus!Init
  BY DEF Init, Bus!Init, Proc, UsePc
<1>2. Init => SenderInv
  BY SpawnAssumption DEF Init, SenderInv, Proc
<1>3. IInv /\ SenderInv /\ [Next]_vars => SenderInv'
  BY SenderStep
<1>4. IInv /\ SenderInv /\ [Next]_vars => [Bus!Next]_(Bus!vars)
  BY BusStep
<1>. QED BY <1>1, <1>2, <1>3, <1>4, Invariance, PTL DEF Spec, BusRefinement, Bus!Spec

=============================================================================
