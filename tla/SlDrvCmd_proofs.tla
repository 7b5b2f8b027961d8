--------------------------- MODULE SlDrvCmd_proofs ---------------------------
(***************************************************************************)
(* Theorems about SlDrvCmd for any number of threads, events and failures: *)
(* the types, the global lock, and the counters.  RxIrqCnt and RxDoneCnt   *)
(* account for the messages the NWP has announced, ApiInProgressCnt for    *)
(* the command in progress.                                                *)
(***************************************************************************)
EXTENDS SlDrvCmd, SequenceTheorems, TLAPS

(* Whoever is at a point of HoldPc owns the global lock *)
LockInv == \A p \in Proc : pc[p] \in HoldPc => GlobalLockObj = p

ReadInv == \A p \in Proc : pc[p] = "read" => rxMsg \in Msg

ListInv == pc[Spawn] \in {"list", "listlock", "listlocked"} => spawnMsgList # <<>>

IInv == TypeOK /\ LockInv /\ ReadInv /\ ListInv

(* A counter that is incremented stays in its range, across the wrap *)
LEMMA IncType ==
  ASSUME NEW c \in 0 .. CntMod - 1 PROVE Inc(c) \in 0 .. CntMod - 1
  BY CntModAssumption DEF Inc

(* _SlDrvDriverCBInit establishes the inductive invariant *)
LEMMA InitInv == Init => IInv
<1> SUFFICES ASSUME Init PROVE IInv OBVIOUS
<1> USE DEF Init
<1>1. TypeOK
  <2>1. pc \in [Proc -> ThreadPc \cup SpawnPc] /\ pc[Spawn] \in SpawnPc
          /\ \A t \in Thread : pc[t] \in ThreadPc
    BY SpawnAssumption DEF Proc, ThreadPc, SpawnPc
  <2>2. /\ GlobalLockObj \in Proc \cup {None} /\ ApiInProgressCnt \in Int
        /\ cmdOwner \in Thread \cup {None} /\ answered \in [Thread -> BOOLEAN]
        /\ rxMsg \in Msg \cup {None} /\ irqPend \in Nat
        /\ WaitForCmdResp \in BOOLEAN /\ CmdSyncObj \in BOOLEAN
        /\ irqMasked \in BOOLEAN /\ spawnSync \in BOOLEAN
        /\ nwpAlive \in BOOLEAN /\ RestartRequired \in BOOLEAN
    <3>1. answered \in [Thread -> BOOLEAN] OBVIOUS
    <3>2. ApiInProgressCnt \in Int /\ irqPend \in Nat OBVIOUS
    <3>. QED BY <3>1, <3>2
  <2>3. /\ 0 \in 0 .. CntMod - 1 /\ sent \in 0 .. MaxEvents
        /\ regWriteCnt \in [Thread -> 0 .. CntMod - 1]
    BY CntModAssumption, EventAssumption
  <2>4. /\ spawnMsgList \in Seq(Event) /\ handled \in Seq(Event)
        /\ wire \in Seq(Msg) /\ todo \in Seq(Thread) /\ dropped \subseteq Event
    OBVIOUS
  <2>. QED BY <2>1, <2>2, <2>3, <2>4 DEF TypeOK, PcTypeOK, DataTypeOK, MsgTypeOK
<1>2. LockInv /\ ReadInv /\ ListInv
  BY DEF LockInv, ReadInv, ListInv, Proc, HoldPc, UsePc
<1>. QED BY <1>1, <1>2 DEF IInv

(* Whatever step is taken, whoever is in a section that needs the lock owns it *)
LEMMA LockStep == TypeOK /\ LockInv /\ [Next]_vars => LockInv'
<1> SUFFICES ASSUME TypeOK /\ LockInv, [Next]_vars PROVE LockInv'
  OBVIOUS
<1> USE NoneAssumption, SpawnAssumption DEF lockVars, cmdVars, rxVars,
        spawnVars, evtVars, nwpVars, TypeOK, PcTypeOK, LockInv, HoldPc, UsePc, Goto,
        Unlock, Proc, Locked, Handle
<1>1. ASSUME NEW t \in Thread, CmdOpRequest(t) PROVE LockInv'
  BY <1>1 DEF CmdOpRequest
<1>2. ASSUME NEW t \in Thread, CmdSendRequest(t) PROVE LockInv'
  BY <1>2 DEF CmdSendRequest
<1>3. ASSUME NEW t \in Thread, CmdOpBegin(t) PROVE LockInv'
  BY <1>3 DEF CmdOpBegin, ApiAllowed
<1>4. ASSUME NEW t \in Thread, CmdOpWritten(t) PROVE LockInv'
  BY <1>4 DEF CmdOpWritten
<1>5. ASSUME NEW t \in Thread, CmdOpWriteFails(t) PROVE LockInv'
  BY <1>5 DEF CmdOpWriteFails
<1>6. ASSUME NEW t \in Thread, CmdCtxLoop(t) PROVE LockInv'
  BY <1>6 DEF CmdCtxLoop
<1>7. ASSUME NEW t \in Thread, CmdCtxWake(t) PROVE LockInv'
  BY <1>7 DEF CmdCtxWake
<1>8. ASSUME NEW t \in Thread, CmdCtxTimeout(t) PROVE LockInv'
  BY <1>8 DEF CmdCtxTimeout
<1>9. ASSUME NEW t \in Thread, CmdCtxDispatch(t) PROVE LockInv'
  BY <1>9 DEF CmdCtxDispatch, ListInsert
<1>10. ASSUME NEW t \in Thread, CmdCtxFinish(t) PROVE LockInv'
  BY <1>10 DEF CmdCtxFinish
<1>11. ASSUME NEW t \in Thread, CmdCtxMore(t) PROVE LockInv'
  BY <1>11 DEF CmdCtxMore
<1>12. ASSUME NEW t \in Thread, SpawnReqLoad(t) PROVE LockInv'
  BY <1>12 DEF SpawnReqLoad
<1>13. ASSUME NEW t \in Thread, SpawnReqStore(t) PROVE LockInv'
  BY <1>13 DEF SpawnReqStore
<1>14. ASSUME NEW t \in Thread, CmdSendBegin(t) PROVE LockInv'
  BY <1>14 DEF CmdSendBegin
<1>15. ASSUME NEW t \in Thread, CmdSendEnd(t) PROVE LockInv'
  BY <1>15 DEF CmdSendEnd
<1>16. ASSUME NEW p \in Proc, LockAcquire(p) PROVE LockInv'
  BY <1>16 DEF LockAcquire
<1>17. ASSUME NEW p \in Proc, MsgRead(p) PROVE LockInv'
  BY <1>17 DEF MsgRead
<1>18. ASSUME NEW p \in Proc, MsgReadSyncLoss(p) PROVE LockInv'
  BY <1>18 DEF MsgReadSyncLoss
<1>19. ASSUME NEW p \in Proc, MsgReadShortHdr(p) PROVE LockInv'
  BY <1>19 DEF MsgReadShortHdr
<1>20. ASSUME NEW p \in Proc, MsgReadAssert(p) PROVE LockInv'
  BY <1>20 DEF MsgReadAssert
<1>21. ASSUME NEW p \in Proc, HandleFatalError(p) PROVE LockInv'
  BY <1>21 DEF HandleFatalError
<1>22. ASSUME NEW p \in Proc, MsgReadAborted(p) PROVE LockInv'
  BY <1>22 DEF MsgReadAborted
<1>23. CASE SpawnWake
  BY <1>23 DEF SpawnWake
<1>24. CASE ListRequest
  BY <1>24 DEF ListRequest
<1>25. CASE ListProcess
  BY <1>25 DEF ListProcess
<1>26. CASE SpawnHead
  BY <1>26 DEF SpawnHead
<1>27. CASE SpawnLocked
  BY <1>27 DEF SpawnLocked
<1>28. CASE SpawnDispatch
  BY <1>28 DEF SpawnDispatch
<1>29. CASE SpawnServed
  BY <1>29 DEF SpawnServed
<1>30. CASE RxIrqHandler
  BY <1>30 DEF RxIrqHandler
<1>31. CASE NwpRespond
  BY <1>31 DEF NwpRespond
<1>32. CASE NwpEvent
  BY <1>32 DEF NwpEvent
<1>33. CASE NwpDummy
  BY <1>33 DEF NwpDummy
<1>34. CASE NwpDies
  BY <1>34 DEF NwpDies
<1>35. CASE UNCHANGED vars
  BY <1>35 DEF vars
<1>. QED
  BY <1>1, <1>2, <1>3, <1>4, <1>5, <1>6, <1>7, <1>8, <1>9, <1>10, <1>11,
     <1>12, <1>13, <1>14, <1>15, <1>16, <1>17, <1>18, <1>19, <1>20, <1>21,
     <1>22, <1>23, <1>24, <1>25, <1>26, <1>27, <1>28, <1>29, <1>30, <1>31,
     <1>32, <1>33, <1>34, <1>35
     DEF Next, ThreadStep, SpawnStep, NwpStep

(* Threads stay at places of _SlDrvCmdOp and _SlDrvCmdSend, the spawn task at its own *)
LEMMA PcTypeStep == PcTypeOK /\ [Next]_vars => PcTypeOK'
<1> SUFFICES ASSUME PcTypeOK, [Next]_vars PROVE PcTypeOK'
  OBVIOUS
<1> USE SpawnAssumption DEF lockVars, cmdVars, rxVars, spawnVars, evtVars,
        nwpVars, PcTypeOK, Goto, Proc, Locked, ThreadPc, SpawnPc
<1>1. ASSUME NEW t \in Thread, CmdOpRequest(t) PROVE PcTypeOK'
  BY <1>1 DEF CmdOpRequest
<1>2. ASSUME NEW t \in Thread, CmdSendRequest(t) PROVE PcTypeOK'
  BY <1>2 DEF CmdSendRequest
<1>3. ASSUME NEW t \in Thread, CmdOpBegin(t) PROVE PcTypeOK'
  BY <1>3 DEF CmdOpBegin, ApiAllowed
<1>4. ASSUME NEW t \in Thread, CmdOpWritten(t) PROVE PcTypeOK'
  BY <1>4 DEF CmdOpWritten
<1>5. ASSUME NEW t \in Thread, CmdOpWriteFails(t) PROVE PcTypeOK'
  BY <1>5 DEF CmdOpWriteFails
<1>6. ASSUME NEW t \in Thread, CmdCtxLoop(t) PROVE PcTypeOK'
  BY <1>6 DEF CmdCtxLoop
<1>7. ASSUME NEW t \in Thread, CmdCtxWake(t) PROVE PcTypeOK'
  BY <1>7 DEF CmdCtxWake
<1>8. ASSUME NEW t \in Thread, CmdCtxTimeout(t) PROVE PcTypeOK'
  BY <1>8 DEF CmdCtxTimeout
<1>9. ASSUME NEW t \in Thread, CmdCtxDispatch(t) PROVE PcTypeOK'
  BY <1>9 DEF CmdCtxDispatch, ListInsert
<1>10. ASSUME NEW t \in Thread, CmdCtxFinish(t) PROVE PcTypeOK'
  BY <1>10 DEF CmdCtxFinish
<1>11. ASSUME NEW t \in Thread, CmdCtxMore(t) PROVE PcTypeOK'
  BY <1>11 DEF CmdCtxMore
<1>12. ASSUME NEW t \in Thread, SpawnReqLoad(t) PROVE PcTypeOK'
  BY <1>12 DEF SpawnReqLoad
<1>13. ASSUME NEW t \in Thread, SpawnReqStore(t) PROVE PcTypeOK'
  BY <1>13 DEF SpawnReqStore
<1>14. ASSUME NEW t \in Thread, CmdSendBegin(t) PROVE PcTypeOK'
  BY <1>14 DEF CmdSendBegin
<1>15. ASSUME NEW t \in Thread, CmdSendEnd(t) PROVE PcTypeOK'
  BY <1>15 DEF CmdSendEnd
<1>16. ASSUME NEW p \in Proc, LockAcquire(p) PROVE PcTypeOK'
  BY <1>16 DEF LockAcquire
<1>17. ASSUME NEW p \in Proc, MsgRead(p) PROVE PcTypeOK'
  BY <1>17 DEF MsgRead
<1>18. ASSUME NEW p \in Proc, MsgReadSyncLoss(p) PROVE PcTypeOK'
  BY <1>18 DEF MsgReadSyncLoss
<1>19. ASSUME NEW p \in Proc, MsgReadShortHdr(p) PROVE PcTypeOK'
  BY <1>19 DEF MsgReadShortHdr
<1>20. ASSUME NEW p \in Proc, MsgReadAssert(p) PROVE PcTypeOK'
  BY <1>20 DEF MsgReadAssert
<1>21. ASSUME NEW p \in Proc, HandleFatalError(p) PROVE PcTypeOK'
  BY <1>21 DEF HandleFatalError
<1>22. ASSUME NEW p \in Proc, MsgReadAborted(p) PROVE PcTypeOK'
  BY <1>22 DEF MsgReadAborted
<1>23. CASE SpawnWake
  BY <1>23 DEF SpawnWake
<1>24. CASE ListRequest
  BY <1>24 DEF ListRequest
<1>25. CASE ListProcess
  BY <1>25 DEF ListProcess
<1>26. CASE SpawnHead
  BY <1>26 DEF SpawnHead
<1>27. CASE SpawnLocked
  BY <1>27 DEF SpawnLocked
<1>28. CASE SpawnDispatch
  BY <1>28 DEF SpawnDispatch
<1>29. CASE SpawnServed
  BY <1>29 DEF SpawnServed
<1>30. CASE RxIrqHandler
  BY <1>30 DEF RxIrqHandler
<1>31. CASE NwpRespond
  BY <1>31 DEF NwpRespond
<1>32. CASE NwpEvent
  BY <1>32 DEF NwpEvent
<1>33. CASE NwpDummy
  BY <1>33 DEF NwpDummy
<1>34. CASE NwpDies
  BY <1>34 DEF NwpDies
<1>35. CASE UNCHANGED vars
  BY <1>35 DEF vars
<1>. QED
  BY <1>1, <1>2, <1>3, <1>4, <1>5, <1>6, <1>7, <1>8, <1>9, <1>10, <1>11,
     <1>12, <1>13, <1>14, <1>15, <1>16, <1>17, <1>18, <1>19, <1>20, <1>21,
     <1>22, <1>23, <1>24, <1>25, <1>26, <1>27, <1>28, <1>29, <1>30, <1>31,
     <1>32, <1>33, <1>34, <1>35
     DEF Next, ThreadStep, SpawnStep, NwpStep

(* _SlDrvGlobalObjUnLock leaves the lock free and the API counter an integer *)
LEMMA UnlockType ==
  ASSUME ApiInProgressCnt \in Int, NEW b \in {0, 1}, Unlock(b)
  PROVE  GlobalLockObj' \in Proc \cup {None} /\ ApiInProgressCnt' \in Int
  BY DEF Unlock

(* Flags and counters stay in range *)
LEMMA DataTypeStep == PcTypeOK /\ DataTypeOK /\ [Next]_vars => DataTypeOK'
<1> SUFFICES ASSUME PcTypeOK /\ DataTypeOK, [Next]_vars PROVE DataTypeOK'
  OBVIOUS
<1> USE SpawnAssumption, NoneAssumption, CntModAssumption, IncType DEF
        lockVars, cmdVars, rxVars, spawnVars, evtVars, nwpVars, PcTypeOK,
        DataTypeOK, Proc, Handle
<1>1. ASSUME NEW t \in Thread, CmdOpRequest(t) PROVE DataTypeOK'
  BY <1>1 DEF CmdOpRequest
<1>2. ASSUME NEW t \in Thread, CmdSendRequest(t) PROVE DataTypeOK'
  BY <1>2 DEF CmdSendRequest
<1>3. ASSUME NEW t \in Thread, CmdOpBegin(t) PROVE DataTypeOK'
  <2>1. CASE RestartRequired
    BY <1>3, <2>1, UnlockType DEF CmdOpBegin, ApiAllowed
  <2>2. CASE ~RestartRequired
    BY <1>3, <2>2 DEF CmdOpBegin, ApiAllowed
  <2>. QED BY <2>1, <2>2
<1>4. ASSUME NEW t \in Thread, CmdOpWritten(t) PROVE DataTypeOK'
  BY <1>4 DEF CmdOpWritten
<1>5. ASSUME NEW t \in Thread, CmdOpWriteFails(t) PROVE DataTypeOK'
  <2>1. GlobalLockObj' \in Proc \cup {None} /\ ApiInProgressCnt' \in Int
    BY <1>5, UnlockType DEF CmdOpWriteFails
  <2>. QED BY <1>5, <2>1 DEF CmdOpWriteFails
<1>6. ASSUME NEW t \in Thread, CmdCtxLoop(t) PROVE DataTypeOK'
  BY <1>6 DEF CmdCtxLoop
<1>7. ASSUME NEW t \in Thread, CmdCtxWake(t) PROVE DataTypeOK'
  BY <1>7 DEF CmdCtxWake
<1>8. ASSUME NEW t \in Thread, CmdCtxTimeout(t) PROVE DataTypeOK'
  <2>1. GlobalLockObj' \in Proc \cup {None} /\ ApiInProgressCnt' \in Int
    BY <1>8, UnlockType DEF CmdCtxTimeout
  <2>2. RestartRequired' \in BOOLEAN
    BY <1>8 DEF CmdCtxTimeout
  <2>. QED BY <1>8, <2>1, <2>2 DEF CmdCtxTimeout
<1>9. ASSUME NEW t \in Thread, CmdCtxDispatch(t) PROVE DataTypeOK'
  BY <1>9 DEF CmdCtxDispatch, ListInsert
<1>10. ASSUME NEW t \in Thread, CmdCtxFinish(t) PROVE DataTypeOK'
  <2>1. GlobalLockObj' \in Proc \cup {None} /\ ApiInProgressCnt' \in Int
    BY <1>10, UnlockType DEF CmdCtxFinish
  <2>. QED BY <1>10, <2>1 DEF CmdCtxFinish
<1>11. ASSUME NEW t \in Thread, CmdCtxMore(t) PROVE DataTypeOK'
  BY <1>11 DEF CmdCtxMore
<1>12. ASSUME NEW t \in Thread, SpawnReqLoad(t) PROVE DataTypeOK'
  BY <1>12 DEF SpawnReqLoad
<1>13. ASSUME NEW t \in Thread, SpawnReqStore(t) PROVE DataTypeOK'
  BY <1>13 DEF SpawnReqStore
<1>14. ASSUME NEW t \in Thread, CmdSendBegin(t) PROVE DataTypeOK'
  BY <1>14 DEF CmdSendBegin
<1>15. ASSUME NEW t \in Thread, CmdSendEnd(t) PROVE DataTypeOK'
  <2>1. GlobalLockObj' \in Proc \cup {None} /\ ApiInProgressCnt' \in Int
    BY <1>15, UnlockType DEF CmdSendEnd
  <2>2. RestartRequired' \in BOOLEAN
    BY <1>15 DEF CmdSendEnd
  <2>. QED BY <1>15, <2>1, <2>2 DEF CmdSendEnd
<1>16. ASSUME NEW p \in Proc, LockAcquire(p) PROVE DataTypeOK'
  BY <1>16 DEF LockAcquire
<1>17. ASSUME NEW p \in Proc, MsgRead(p) PROVE DataTypeOK'
  BY <1>17 DEF MsgRead
<1>18. ASSUME NEW p \in Proc, MsgReadSyncLoss(p) PROVE DataTypeOK'
  <2>1. GlobalLockObj' \in Proc \cup {None} /\ ApiInProgressCnt' \in Int
    BY <1>18, UnlockType DEF MsgReadSyncLoss
  <2>. QED BY <1>18, <2>1 DEF MsgReadSyncLoss
<1>19. ASSUME NEW p \in Proc, MsgReadShortHdr(p) PROVE DataTypeOK'
  <2>1. GlobalLockObj' \in Proc \cup {None} /\ ApiInProgressCnt' \in Int
    BY <1>19, UnlockType DEF MsgReadShortHdr
  <2>. QED BY <1>19, <2>1 DEF MsgReadShortHdr
<1>20. ASSUME NEW p \in Proc, MsgReadAssert(p) PROVE DataTypeOK'
  BY <1>20 DEF MsgReadAssert
<1>21. ASSUME NEW p \in Proc, HandleFatalError(p) PROVE DataTypeOK'
  BY <1>21 DEF HandleFatalError
<1>22. ASSUME NEW p \in Proc, MsgReadAborted(p) PROVE DataTypeOK'
  BY <1>22 DEF MsgReadAborted
<1>23. CASE SpawnWake
  BY <1>23 DEF SpawnWake
<1>24. CASE ListRequest
  BY <1>24 DEF ListRequest
<1>25. CASE ListProcess
  <2>1. GlobalLockObj' \in Proc \cup {None} /\ ApiInProgressCnt' \in Int
    BY <1>25, UnlockType DEF ListProcess
  <2>2. RestartRequired' \in BOOLEAN
    BY <1>25 DEF ListProcess
  <2>. QED BY <1>25, <2>1, <2>2 DEF ListProcess
<1>26. CASE SpawnHead
  BY <1>26 DEF SpawnHead
<1>27. CASE SpawnLocked
  <2>1. GlobalLockObj' \in Proc \cup {None} /\ ApiInProgressCnt' \in Int
    BY <1>27, UnlockType DEF SpawnLocked
  <2>. QED BY <1>27, <2>1 DEF SpawnLocked
<1>28. CASE SpawnDispatch
  <2>1. GlobalLockObj' \in Proc \cup {None} /\ ApiInProgressCnt' \in Int
    BY <1>28, UnlockType DEF SpawnDispatch
  <2>2. RestartRequired' \in BOOLEAN
    BY <1>28 DEF SpawnDispatch
  <2>. QED BY <1>28, <2>1, <2>2 DEF SpawnDispatch
<1>29. CASE SpawnServed
  BY <1>29 DEF SpawnServed
<1>30. CASE RxIrqHandler
  BY <1>30 DEF RxIrqHandler
<1>31. CASE NwpRespond
  BY <1>31 DEF NwpRespond
<1>32. CASE NwpEvent
  BY <1>32 DEF NwpEvent
<1>33. CASE NwpDummy
  BY <1>33 DEF NwpDummy
<1>34. CASE NwpDies
  BY <1>34 DEF NwpDies
<1>35. CASE UNCHANGED vars
  BY <1>35 DEF vars
<1>. QED
  BY <1>1, <1>2, <1>3, <1>4, <1>5, <1>6, <1>7, <1>8, <1>9, <1>10, <1>11,
     <1>12, <1>13, <1>14, <1>15, <1>16, <1>17, <1>18, <1>19, <1>20, <1>21,
     <1>22, <1>23, <1>24, <1>25, <1>26, <1>27, <1>28, <1>29, <1>30, <1>31,
     <1>32, <1>33, <1>34, <1>35
     DEF Next, ThreadStep, SpawnStep, NwpStep

(* The tag of an asynchronous message is an event *)
LEMMA MsgTag ==
  ASSUME NEW m \in Msg PROVE m.cls = "async" => m.tag \in Event
  BY DEF Msg

(* A list of events with one more event is a list of events *)
LEMMA AppendType ==
  ASSUME NEW q \in Seq(Event), NEW e \in Event PROVE Append(q, e) \in Seq(Event)
  BY AppendProperties

(* _SlDrvAsyncEventGenericHandler adds an event to those handled *)
LEMMA HandleType ==
  ASSUME handled \in Seq(Event), NEW e \in Event, Handle(e)
  PROVE  handled' \in Seq(Event)
  BY AppendType DEF Handle

(* Every message and event in a queue, a list or a reader's hands is well formed *)
LEMMA MsgTypeStep == PcTypeOK /\ MsgTypeOK /\ ReadInv /\ ListInv /\ [Next]_vars => MsgTypeOK'
<1> SUFFICES ASSUME PcTypeOK /\ MsgTypeOK /\ ReadInv /\ ListInv, [Next]_vars PROVE MsgTypeOK'
  OBVIOUS
<1> USE SpawnAssumption, NoneAssumption, EventAssumption, MsgTag DEF lockVars,
        cmdVars, rxVars, spawnVars, evtVars, nwpVars, PcTypeOK, MsgTypeOK,
        ReadInv, ListInv, Proc
<1>1. ASSUME NEW t \in Thread, CmdOpRequest(t) PROVE MsgTypeOK'
  BY <1>1 DEF CmdOpRequest
<1>2. ASSUME NEW t \in Thread, CmdSendRequest(t) PROVE MsgTypeOK'
  BY <1>2 DEF CmdSendRequest
<1>3. ASSUME NEW t \in Thread, CmdOpBegin(t) PROVE MsgTypeOK'
  BY <1>3 DEF CmdOpBegin, ApiAllowed
<1>4. ASSUME NEW t \in Thread, CmdOpWritten(t) PROVE MsgTypeOK'
  BY <1>4 DEF CmdOpWritten
<1>5. ASSUME NEW t \in Thread, CmdOpWriteFails(t) PROVE MsgTypeOK'
  BY <1>5 DEF CmdOpWriteFails
<1>6. ASSUME NEW t \in Thread, CmdCtxLoop(t) PROVE MsgTypeOK'
  BY <1>6 DEF CmdCtxLoop
<1>7. ASSUME NEW t \in Thread, CmdCtxWake(t) PROVE MsgTypeOK'
  BY <1>7 DEF CmdCtxWake
<1>8. ASSUME NEW t \in Thread, CmdCtxTimeout(t) PROVE MsgTypeOK'
  BY <1>8 DEF CmdCtxTimeout
<1>9. ASSUME NEW t \in Thread, CmdCtxDispatch(t) PROVE MsgTypeOK'
  <2>1. rxMsg.cls = "async" => rxMsg.tag \in Event
    BY <1>9 DEF CmdCtxDispatch, ListInsert
  <2>2. spawnMsgList' \in Seq(Event) /\ dropped' \subseteq Event
    <3>1. CASE UNCHANGED <<spawnMsgList, dropped>>
      BY <3>1
    <3>2. CASE rxMsg.cls = "async" /\ spawnMsgList' = Append(spawnMsgList, rxMsg.tag)
               /\ UNCHANGED dropped
      BY <3>2, <2>1, AppendType
    <3>3. CASE rxMsg.cls = "async" /\ dropped' = dropped \cup {rxMsg.tag}
               /\ UNCHANGED spawnMsgList
      BY <3>3, <2>1
    <3>. QED BY <1>9, <3>1, <3>2, <3>3 DEF CmdCtxDispatch, ListInsert
  <2>. QED BY <1>9, <2>2 DEF CmdCtxDispatch, ListInsert
<1>10. ASSUME NEW t \in Thread, CmdCtxFinish(t) PROVE MsgTypeOK'
  BY <1>10 DEF CmdCtxFinish
<1>11. ASSUME NEW t \in Thread, CmdCtxMore(t) PROVE MsgTypeOK'
  BY <1>11 DEF CmdCtxMore
<1>12. ASSUME NEW t \in Thread, SpawnReqLoad(t) PROVE MsgTypeOK'
  BY <1>12 DEF SpawnReqLoad
<1>13. ASSUME NEW t \in Thread, SpawnReqStore(t) PROVE MsgTypeOK'
  BY <1>13 DEF SpawnReqStore
<1>14. ASSUME NEW t \in Thread, CmdSendBegin(t) PROVE MsgTypeOK'
  BY <1>14 DEF CmdSendBegin
<1>15. ASSUME NEW t \in Thread, CmdSendEnd(t) PROVE MsgTypeOK'
  BY <1>15 DEF CmdSendEnd
<1>16. ASSUME NEW p \in Proc, LockAcquire(p) PROVE MsgTypeOK'
  BY <1>16 DEF LockAcquire
<1>17. ASSUME NEW p \in Proc, MsgRead(p) PROVE MsgTypeOK'
  BY <1>17 DEF MsgRead
<1>18. ASSUME NEW p \in Proc, MsgReadSyncLoss(p) PROVE MsgTypeOK'
  BY <1>18 DEF MsgReadSyncLoss
<1>19. ASSUME NEW p \in Proc, MsgReadShortHdr(p) PROVE MsgTypeOK'
  BY <1>19 DEF MsgReadShortHdr
<1>20. ASSUME NEW p \in Proc, MsgReadAssert(p) PROVE MsgTypeOK'
  BY <1>20 DEF MsgReadAssert
<1>21. ASSUME NEW p \in Proc, HandleFatalError(p) PROVE MsgTypeOK'
  BY <1>21 DEF HandleFatalError
<1>22. ASSUME NEW p \in Proc, MsgReadAborted(p) PROVE MsgTypeOK'
  BY <1>22 DEF MsgReadAborted
<1>23. CASE SpawnWake
  BY <1>23 DEF SpawnWake
<1>24. CASE ListRequest
  BY <1>24 DEF ListRequest
<1>25. CASE ListProcess
  <2>1. spawnMsgList # <<>>
    BY <1>25 DEF ListProcess
  <2>2. Head(spawnMsgList) \in Event /\ Tail(spawnMsgList) \in Seq(Event)
    BY <2>1
  <2>3. spawnMsgList' \in Seq(Event) /\ handled' \in Seq(Event)
    BY <1>25, <2>2, HandleType DEF ListProcess
  <2>. QED BY <1>25, <2>3 DEF ListProcess
<1>26. CASE SpawnHead
  BY <1>26 DEF SpawnHead
<1>27. CASE SpawnLocked
  BY <1>27 DEF SpawnLocked
<1>28. CASE SpawnDispatch
  <2>1. rxMsg.cls = "async" => rxMsg.tag \in Event
    BY <1>28 DEF SpawnDispatch
  <2>2. handled' \in Seq(Event)
    <3>1. CASE rxMsg.cls = "async"
      BY <1>28, <2>1, <3>1, HandleType DEF SpawnDispatch
    <3>2. CASE rxMsg.cls # "async"
      BY <1>28, <3>2 DEF SpawnDispatch
    <3>. QED BY <3>1, <3>2
  <2>. QED BY <1>28, <2>2 DEF SpawnDispatch
<1>29. CASE SpawnServed
  BY <1>29 DEF SpawnServed
<1>30. CASE RxIrqHandler
  BY <1>30 DEF RxIrqHandler
<1>31. CASE NwpRespond
  <2>1. [cls |-> "resp", tag |-> Head(todo)] \in Msg
    BY <1>31 DEF NwpRespond, Msg, Event
  <2>2. wire' \in Seq(Msg) /\ irqPend' \in Nat
    BY <1>31, <2>1 DEF NwpRespond, NwpSend
  <2>3. todo' \in Seq(Thread)
    BY <1>31 DEF NwpRespond
  <2>. QED BY <1>31, <2>2, <2>3 DEF NwpRespond
<1>32. CASE NwpEvent
  <2>1. [cls |-> "async", tag |-> sent + 1] \in Msg
    BY <1>32 DEF NwpEvent, Msg, Event
  <2>2. wire' \in Seq(Msg) /\ irqPend' \in Nat
    BY <1>32, <2>1 DEF NwpEvent, NwpSend
  <2>3. sent' \in 0 .. MaxEvents
    BY <1>32 DEF NwpEvent
  <2>. QED BY <1>32, <2>2, <2>3 DEF NwpEvent
<1>33. CASE NwpDummy
  <2>1. [cls |-> "dummy", tag |-> 0] \in Msg
    BY <1>33 DEF NwpDummy, Msg, Event
  <2>2. wire' \in Seq(Msg) /\ irqPend' \in Nat
    BY <1>33, <2>1 DEF NwpDummy, NwpSend
  <2>3. sent' \in 0 .. MaxEvents
    BY <1>33 DEF NwpDummy
  <2>. QED BY <1>33, <2>2, <2>3 DEF NwpDummy
<1>34. CASE NwpDies
  BY <1>34 DEF NwpDies
<1>35. CASE UNCHANGED vars
  BY <1>35 DEF vars
<1>. QED
  BY <1>1, <1>2, <1>3, <1>4, <1>5, <1>6, <1>7, <1>8, <1>9, <1>10, <1>11,
     <1>12, <1>13, <1>14, <1>15, <1>16, <1>17, <1>18, <1>19, <1>20, <1>21,
     <1>22, <1>23, <1>24, <1>25, <1>26, <1>27, <1>28, <1>29, <1>30, <1>31,
     <1>32, <1>33, <1>34, <1>35
     DEF Next, ThreadStep, SpawnStep, NwpStep

(* Who has read a message has one in hand until it is dispatched *)
LEMMA ReadStep == TypeOK /\ LockInv /\ ReadInv /\ [Next]_vars => ReadInv'
<1> SUFFICES ASSUME TypeOK /\ LockInv /\ ReadInv, [Next]_vars PROVE ReadInv'
  OBVIOUS
<1> USE NoneAssumption, SpawnAssumption DEF lockVars, cmdVars, rxVars,
        spawnVars, evtVars, nwpVars, TypeOK, PcTypeOK, MsgTypeOK, LockInv,
        HoldPc, UsePc, ReadInv, Goto, Unlock, Proc, Locked, Handle
<1>1. ASSUME NEW t \in Thread, CmdOpRequest(t) PROVE ReadInv'
  BY <1>1 DEF CmdOpRequest
<1>2. ASSUME NEW t \in Thread, CmdSendRequest(t) PROVE ReadInv'
  BY <1>2 DEF CmdSendRequest
<1>3. ASSUME NEW t \in Thread, CmdOpBegin(t) PROVE ReadInv'
  BY <1>3 DEF CmdOpBegin, ApiAllowed
<1>4. ASSUME NEW t \in Thread, CmdOpWritten(t) PROVE ReadInv'
  BY <1>4 DEF CmdOpWritten
<1>5. ASSUME NEW t \in Thread, CmdOpWriteFails(t) PROVE ReadInv'
  BY <1>5 DEF CmdOpWriteFails
<1>6. ASSUME NEW t \in Thread, CmdCtxLoop(t) PROVE ReadInv'
  BY <1>6 DEF CmdCtxLoop
<1>7. ASSUME NEW t \in Thread, CmdCtxWake(t) PROVE ReadInv'
  BY <1>7 DEF CmdCtxWake
<1>8. ASSUME NEW t \in Thread, CmdCtxTimeout(t) PROVE ReadInv'
  BY <1>8 DEF CmdCtxTimeout
<1>9. ASSUME NEW t \in Thread, CmdCtxDispatch(t) PROVE ReadInv'
  BY <1>9 DEF CmdCtxDispatch, ListInsert
<1>10. ASSUME NEW t \in Thread, CmdCtxFinish(t) PROVE ReadInv'
  BY <1>10 DEF CmdCtxFinish
<1>11. ASSUME NEW t \in Thread, CmdCtxMore(t) PROVE ReadInv'
  BY <1>11 DEF CmdCtxMore
<1>12. ASSUME NEW t \in Thread, SpawnReqLoad(t) PROVE ReadInv'
  BY <1>12 DEF SpawnReqLoad
<1>13. ASSUME NEW t \in Thread, SpawnReqStore(t) PROVE ReadInv'
  BY <1>13 DEF SpawnReqStore
<1>14. ASSUME NEW t \in Thread, CmdSendBegin(t) PROVE ReadInv'
  BY <1>14 DEF CmdSendBegin
<1>15. ASSUME NEW t \in Thread, CmdSendEnd(t) PROVE ReadInv'
  BY <1>15 DEF CmdSendEnd
<1>16. ASSUME NEW p \in Proc, LockAcquire(p) PROVE ReadInv'
  BY <1>16 DEF LockAcquire
<1>17. ASSUME NEW p \in Proc, MsgRead(p) PROVE ReadInv'
  BY <1>17 DEF MsgRead
<1>18. ASSUME NEW p \in Proc, MsgReadSyncLoss(p) PROVE ReadInv'
  BY <1>18 DEF MsgReadSyncLoss
<1>19. ASSUME NEW p \in Proc, MsgReadShortHdr(p) PROVE ReadInv'
  BY <1>19 DEF MsgReadShortHdr
<1>20. ASSUME NEW p \in Proc, MsgReadAssert(p) PROVE ReadInv'
  BY <1>20 DEF MsgReadAssert
<1>21. ASSUME NEW p \in Proc, HandleFatalError(p) PROVE ReadInv'
  BY <1>21 DEF HandleFatalError
<1>22. ASSUME NEW p \in Proc, MsgReadAborted(p) PROVE ReadInv'
  BY <1>22 DEF MsgReadAborted
<1>23. CASE SpawnWake
  BY <1>23 DEF SpawnWake
<1>24. CASE ListRequest
  BY <1>24 DEF ListRequest
<1>25. CASE ListProcess
  BY <1>25 DEF ListProcess
<1>26. CASE SpawnHead
  BY <1>26 DEF SpawnHead
<1>27. CASE SpawnLocked
  BY <1>27 DEF SpawnLocked
<1>28. CASE SpawnDispatch
  BY <1>28 DEF SpawnDispatch
<1>29. CASE SpawnServed
  BY <1>29 DEF SpawnServed
<1>30. CASE RxIrqHandler
  BY <1>30 DEF RxIrqHandler
<1>31. CASE NwpRespond
  BY <1>31 DEF NwpRespond
<1>32. CASE NwpEvent
  BY <1>32 DEF NwpEvent
<1>33. CASE NwpDummy
  BY <1>33 DEF NwpDummy
<1>34. CASE NwpDies
  BY <1>34 DEF NwpDies
<1>35. CASE UNCHANGED vars
  BY <1>35 DEF vars
<1>. QED
  BY <1>1, <1>2, <1>3, <1>4, <1>5, <1>6, <1>7, <1>8, <1>9, <1>10, <1>11,
     <1>12, <1>13, <1>14, <1>15, <1>16, <1>17, <1>18, <1>19, <1>20, <1>21,
     <1>22, <1>23, <1>24, <1>25, <1>26, <1>27, <1>28, <1>29, <1>30, <1>31,
     <1>32, <1>33, <1>34, <1>35
     DEF Next, ThreadStep, SpawnStep, NwpStep

(* The spawn task is at its list only while the list is not empty *)
LEMMA ListStep == TypeOK /\ ListInv /\ [Next]_vars => ListInv'
<1> SUFFICES ASSUME TypeOK /\ ListInv, [Next]_vars PROVE ListInv'
  OBVIOUS
<1> USE SpawnAssumption DEF lockVars, cmdVars, rxVars, spawnVars, evtVars,
        nwpVars, TypeOK, PcTypeOK, ListInv, Goto, Unlock, Proc, Locked, Handle
<1>1. ASSUME NEW t \in Thread, CmdOpRequest(t) PROVE ListInv'
  BY <1>1 DEF CmdOpRequest
<1>2. ASSUME NEW t \in Thread, CmdSendRequest(t) PROVE ListInv'
  BY <1>2 DEF CmdSendRequest
<1>3. ASSUME NEW t \in Thread, CmdOpBegin(t) PROVE ListInv'
  BY <1>3 DEF CmdOpBegin, ApiAllowed
<1>4. ASSUME NEW t \in Thread, CmdOpWritten(t) PROVE ListInv'
  BY <1>4 DEF CmdOpWritten
<1>5. ASSUME NEW t \in Thread, CmdOpWriteFails(t) PROVE ListInv'
  BY <1>5 DEF CmdOpWriteFails
<1>6. ASSUME NEW t \in Thread, CmdCtxLoop(t) PROVE ListInv'
  BY <1>6 DEF CmdCtxLoop
<1>7. ASSUME NEW t \in Thread, CmdCtxWake(t) PROVE ListInv'
  BY <1>7 DEF CmdCtxWake
<1>8. ASSUME NEW t \in Thread, CmdCtxTimeout(t) PROVE ListInv'
  BY <1>8 DEF CmdCtxTimeout
<1>9. ASSUME NEW t \in Thread, CmdCtxDispatch(t) PROVE ListInv'
  BY <1>9 DEF CmdCtxDispatch, ListInsert
<1>10. ASSUME NEW t \in Thread, CmdCtxFinish(t) PROVE ListInv'
  BY <1>10 DEF CmdCtxFinish
<1>11. ASSUME NEW t \in Thread, CmdCtxMore(t) PROVE ListInv'
  BY <1>11 DEF CmdCtxMore
<1>12. ASSUME NEW t \in Thread, SpawnReqLoad(t) PROVE ListInv'
  BY <1>12 DEF SpawnReqLoad
<1>13. ASSUME NEW t \in Thread, SpawnReqStore(t) PROVE ListInv'
  BY <1>13 DEF SpawnReqStore
<1>14. ASSUME NEW t \in Thread, CmdSendBegin(t) PROVE ListInv'
  BY <1>14 DEF CmdSendBegin
<1>15. ASSUME NEW t \in Thread, CmdSendEnd(t) PROVE ListInv'
  BY <1>15 DEF CmdSendEnd
<1>16. ASSUME NEW p \in Proc, LockAcquire(p) PROVE ListInv'
  BY <1>16 DEF LockAcquire
<1>17. ASSUME NEW p \in Proc, MsgRead(p) PROVE ListInv'
  BY <1>17 DEF MsgRead
<1>18. ASSUME NEW p \in Proc, MsgReadSyncLoss(p) PROVE ListInv'
  BY <1>18 DEF MsgReadSyncLoss
<1>19. ASSUME NEW p \in Proc, MsgReadShortHdr(p) PROVE ListInv'
  BY <1>19 DEF MsgReadShortHdr
<1>20. ASSUME NEW p \in Proc, MsgReadAssert(p) PROVE ListInv'
  BY <1>20 DEF MsgReadAssert
<1>21. ASSUME NEW p \in Proc, HandleFatalError(p) PROVE ListInv'
  BY <1>21 DEF HandleFatalError
<1>22. ASSUME NEW p \in Proc, MsgReadAborted(p) PROVE ListInv'
  BY <1>22 DEF MsgReadAborted
<1>23. CASE SpawnWake
  BY <1>23 DEF SpawnWake
<1>24. CASE ListRequest
  BY <1>24 DEF ListRequest
<1>25. CASE ListProcess
  BY <1>25 DEF ListProcess
<1>26. CASE SpawnHead
  BY <1>26 DEF SpawnHead
<1>27. CASE SpawnLocked
  BY <1>27 DEF SpawnLocked
<1>28. CASE SpawnDispatch
  BY <1>28 DEF SpawnDispatch
<1>29. CASE SpawnServed
  BY <1>29 DEF SpawnServed
<1>30. CASE RxIrqHandler
  BY <1>30 DEF RxIrqHandler
<1>31. CASE NwpRespond
  BY <1>31 DEF NwpRespond
<1>32. CASE NwpEvent
  BY <1>32 DEF NwpEvent
<1>33. CASE NwpDummy
  BY <1>33 DEF NwpDummy
<1>34. CASE NwpDies
  BY <1>34 DEF NwpDies
<1>35. CASE UNCHANGED vars
  BY <1>35 DEF vars
<1>. QED
  BY <1>1, <1>2, <1>3, <1>4, <1>5, <1>6, <1>7, <1>8, <1>9, <1>10, <1>11,
     <1>12, <1>13, <1>14, <1>15, <1>16, <1>17, <1>18, <1>19, <1>20, <1>21,
     <1>22, <1>23, <1>24, <1>25, <1>26, <1>27, <1>28, <1>29, <1>30, <1>31,
     <1>32, <1>33, <1>34, <1>35
     DEF Next, ThreadStep, SpawnStep, NwpStep

(* One step keeps the inductive invariant *)
LEMMA NextInv == IInv /\ [Next]_vars => IInv'
  BY LockStep, PcTypeStep, DataTypeStep, MsgTypeStep, ReadStep, ListStep
     DEF IInv, TypeOK

(* The inductive invariant holds in every reachable state *)
LEMMA Invariance == Spec => []IInv
<1>1. Init => IInv
  BY InitInv
<1>2. IInv /\ [Next]_vars => IInv'
  BY NextInv
<1>. QED BY <1>1, <1>2, PTL DEF Spec

(***************************************************************************)
(* Type correctness: in particular the 8-bit counters stay in range and    *)
(* the spawn task never takes the head of an empty list.                   *)
(***************************************************************************)
THEOREM TypeCorrect == Spec => []TypeOK
<1>1. IInv => TypeOK
  BY DEF IInv
<1>. QED BY <1>1, Invariance, PTL

(***************************************************************************)
(* One user of the bus at a time, for any number of threads and whatever   *)
(* fails: every process on the bus owns GlobalLockObj, so no error path of *)
(* MsgRead gives the lock back twice or uses the bus after it did.         *)
(***************************************************************************)
THEOREM MutualExclusion == Spec => []BusExclusive
<1>1. IInv => BusExclusive
  BY DEF IInv, LockInv, HoldPc, UsePc, BusExclusive, OnBus
<1>. QED BY <1>1, Invariance, PTL

-----------------------------------------------------------------------------
(* The counters *)

(***************************************************************************)
(* What ApiCounted rests on.  The increment and the decrement are in       *)
(* different functions: a command counts for one, and nothing else does,   *)
(* unless a failure has raised the restart that keeps every later command  *)
(* from starting.                                                          *)
(***************************************************************************)
ApiPc == {"writing", "loop", "wait", "reading", "read", "finish"}

ApiInv ==
  \/ \E t \in Thread : pc[t] \in ApiPc /\ ApiInProgressCnt = 1
  \/ (\A t \in Thread : pc[t] \notin ApiPc)
       /\ (ApiInProgressCnt = 0 \/ RestartRequired)

(* Only one thread is executing a command *)
LEMMA OneApi ==
  ASSUME LockInv, NEW t \in Thread, NEW u \in Thread,
         pc[t] \in HoldPc, pc[u] \in ApiPc
  PROVE  t = u
  BY DEF LockInv, HoldPc, UsePc, ApiPc, Proc

(* While the spawn task owns the lock no thread is executing a command *)
LEMMA SpawnNoApi ==
  ASSUME LockInv, pc[Spawn] \in HoldPc, NEW u \in Thread
  PROVE  pc[u] \notin ApiPc
  BY SpawnAssumption DEF LockInv, HoldPc, UsePc, ApiPc, Proc

(* A command is counted once, however it ends, if the sync pattern is found *)
LEMMA ApiStep ==
  ASSUME "sync" \notin Faults, IInv, ApiInv, [Next]_vars PROVE ApiInv'
<1> USE SpawnAssumption, OneApi, SpawnNoApi DEF lockVars, cmdVars, rxVars,
        spawnVars, evtVars, nwpVars, IInv, TypeOK, PcTypeOK, DataTypeOK,
        ApiInv, ApiPc, HoldPc, UsePc, Goto, Unlock, Proc, Locked, Handle
<1>1. ASSUME NEW t \in Thread, CmdOpRequest(t) PROVE ApiInv'
  BY <1>1 DEF CmdOpRequest
<1>2. ASSUME NEW t \in Thread, CmdSendRequest(t) PROVE ApiInv'
  BY <1>2 DEF CmdSendRequest
<1>3. ASSUME NEW t \in Thread, CmdOpBegin(t) PROVE ApiInv'
  BY <1>3 DEF CmdOpBegin, ApiAllowed
<1>4. ASSUME NEW t \in Thread, CmdOpWritten(t) PROVE ApiInv'
  BY <1>4 DEF CmdOpWritten
<1>5. ASSUME NEW t \in Thread, CmdOpWriteFails(t) PROVE ApiInv'
  BY <1>5 DEF CmdOpWriteFails
<1>6. ASSUME NEW t \in Thread, CmdCtxLoop(t) PROVE ApiInv'
  BY <1>6 DEF CmdCtxLoop
<1>7. ASSUME NEW t \in Thread, CmdCtxWake(t) PROVE ApiInv'
  BY <1>7 DEF CmdCtxWake
<1>8. ASSUME NEW t \in Thread, CmdCtxTimeout(t) PROVE ApiInv'
  BY <1>8 DEF CmdCtxTimeout
<1>9. ASSUME NEW t \in Thread, CmdCtxDispatch(t) PROVE ApiInv'
  BY <1>9 DEF CmdCtxDispatch, ListInsert
<1>10. ASSUME NEW t \in Thread, CmdCtxFinish(t) PROVE ApiInv'
  BY <1>10 DEF CmdCtxFinish
<1>11. ASSUME NEW t \in Thread, CmdCtxMore(t) PROVE ApiInv'
  BY <1>11 DEF CmdCtxMore
<1>12. ASSUME NEW t \in Thread, SpawnReqLoad(t) PROVE ApiInv'
  BY <1>12 DEF SpawnReqLoad
<1>13. ASSUME NEW t \in Thread, SpawnReqStore(t) PROVE ApiInv'
  BY <1>13 DEF SpawnReqStore
<1>14. ASSUME NEW t \in Thread, CmdSendBegin(t) PROVE ApiInv'
  BY <1>14 DEF CmdSendBegin
<1>15. ASSUME NEW t \in Thread, CmdSendEnd(t) PROVE ApiInv'
  BY <1>15 DEF CmdSendEnd
<1>16. ASSUME NEW p \in Proc, LockAcquire(p) PROVE ApiInv'
  BY <1>16 DEF LockAcquire
<1>17. ASSUME NEW p \in Proc, MsgRead(p) PROVE ApiInv'
  BY <1>17 DEF MsgRead
<1>18. ASSUME NEW p \in Proc, MsgReadSyncLoss(p) PROVE ApiInv'
  BY <1>18 DEF MsgReadSyncLoss
<1>19. ASSUME NEW p \in Proc, MsgReadShortHdr(p) PROVE ApiInv'
  BY <1>19 DEF MsgReadShortHdr
<1>20. ASSUME NEW p \in Proc, MsgReadAssert(p) PROVE ApiInv'
  BY <1>20 DEF MsgReadAssert
<1>21. ASSUME NEW p \in Proc, HandleFatalError(p) PROVE ApiInv'
  BY <1>21 DEF HandleFatalError
<1>22. ASSUME NEW p \in Proc, MsgReadAborted(p) PROVE ApiInv'
  BY <1>22 DEF MsgReadAborted
<1>23. CASE SpawnWake
  BY <1>23 DEF SpawnWake
<1>24. CASE ListRequest
  BY <1>24 DEF ListRequest
<1>25. CASE ListProcess
  BY <1>25 DEF ListProcess
<1>26. CASE SpawnHead
  BY <1>26 DEF SpawnHead
<1>27. CASE SpawnLocked
  BY <1>27 DEF SpawnLocked
<1>28. CASE SpawnDispatch
  BY <1>28 DEF SpawnDispatch
<1>29. CASE SpawnServed
  BY <1>29 DEF SpawnServed
<1>30. CASE RxIrqHandler
  BY <1>30 DEF RxIrqHandler
<1>31. CASE NwpRespond
  BY <1>31 DEF NwpRespond, NwpSend
<1>32. CASE NwpEvent
  BY <1>32 DEF NwpEvent, NwpSend
<1>33. CASE NwpDummy
  BY <1>33 DEF NwpDummy, NwpSend
<1>34. CASE NwpDies
  BY <1>34 DEF NwpDies
<1>35. CASE UNCHANGED vars
  BY <1>35 DEF vars
<1>. QED
  BY <1>1, <1>2, <1>3, <1>4, <1>5, <1>6, <1>7, <1>8, <1>9, <1>10, <1>11,
     <1>12, <1>13, <1>14, <1>15, <1>16, <1>17, <1>18, <1>19, <1>20, <1>21,
     <1>22, <1>23, <1>24, <1>25, <1>26, <1>27, <1>28, <1>29, <1>30, <1>31,
     <1>32, <1>33, <1>34, <1>35
     DEF Next, ThreadStep, SpawnStep, NwpStep

(* No command is in progress at the start *)
LEMMA InitApi == Init => ApiInv
  BY DEF Init, ApiInv, ApiPc, Proc

(***************************************************************************)
(* _SlDrvIsApiInProgress never says no while a command is being executed.  *)
(* The hypothesis is needed: after a sync loss the spawn task's unlock     *)
(* takes away a count that a command has added (driver.c 1282).            *)
(***************************************************************************)
THEOREM ApiCountedUnlessSyncLoss ==
  ASSUME "sync" \notin Faults PROVE Spec => []ApiCounted
<1>1. IInv /\ ApiInv /\ [Next]_vars => ApiInv'
  BY ApiStep
<1>2. IInv /\ ApiInv => ApiCounted
  <2> SUFFICES ASSUME IInv, ApiInv, NEW t \in Thread, pc[t] \in ApiPc
               PROVE  ApiInProgressCnt > 0
    BY DEF ApiCounted, ApiPc
  <2>. QED BY DEF ApiInv
<1>. QED BY <1>1, <1>2, InitApi, Invariance, PTL DEF Spec

(* How far RxIrqCnt is ahead of RxDoneCnt, across the wrap of either *)
Ahead == IF RxIrqCnt >= RxDoneCnt THEN RxIrqCnt - RxDoneCnt
                                  ELSE RxIrqCnt - RxDoneCnt + CntMod

Announced == IF irqMasked THEN 1 ELSE 0
InHand    == IF \E p \in Proc : pc[p] = "read" THEN 1 ELSE 0

(***************************************************************************)
(* What RxAccounting rests on: a reader was sent for an announced message, *)
(* and no other message is announced before it unmasks the interrupt.      *)
(***************************************************************************)
WireInv    == Len(wire) - irqPend = Announced
AheadInv   == Ahead = Announced + InHand
ReadingInv == \A p \in Proc : pc[p] = "reading" => irqMasked
RxInv      == WireInv /\ AheadInv /\ ReadingInv

(* _SL_PENDING_RX_MSG's difference of two 8-bit counters *)
LEMMA ModDiff ==
  ASSUME NEW a \in 0 .. CntMod - 1, NEW b \in 0 .. CntMod - 1
  PROVE  (a - b) % CntMod = IF a >= b THEN a - b ELSE a - b + CntMod
  BY CntModAssumption, SMTT(30)

(* An 8-bit increment *)
LEMMA IncValue ==
  ASSUME NEW c \in 0 .. CntMod - 1
  PROVE  Inc(c) = IF c = CntMod - 1 THEN 0 ELSE c + 1
  BY CntModAssumption, SMTT(30) DEF Inc

(* Readers own the lock, so at most one process reads *)
LEMMA OneReader ==
  ASSUME LockInv, NEW p \in Proc, NEW q \in Proc,
         pc[p] \in HoldPc, pc[q] \in {"reading", "read"}
  PROVE  p = q
  BY DEF LockInv, HoldPc, UsePc

(* The interrupt is unmasked exactly when nothing announced is left to read *)
LEMMA WireStep ==
  ASSUME IInv, RxInv, [Next]_vars PROVE WireInv'
<1> USE DEF lockVars, cmdVars, rxVars, spawnVars, evtVars, nwpVars, IInv,
        TypeOK, PcTypeOK, DataTypeOK, MsgTypeOK, RxInv, WireInv, ReadingInv,
        Announced, Proc
<1>1. ASSUME NEW t \in Thread, CmdOpRequest(t) PROVE WireInv'
  BY <1>1 DEF CmdOpRequest
<1>2. ASSUME NEW t \in Thread, CmdSendRequest(t) PROVE WireInv'
  BY <1>2 DEF CmdSendRequest
<1>3. ASSUME NEW t \in Thread, CmdOpBegin(t) PROVE WireInv'
  BY <1>3 DEF CmdOpBegin, ApiAllowed
<1>4. ASSUME NEW t \in Thread, CmdOpWritten(t) PROVE WireInv'
  BY <1>4 DEF CmdOpWritten
<1>5. ASSUME NEW t \in Thread, CmdOpWriteFails(t) PROVE WireInv'
  BY <1>5 DEF CmdOpWriteFails
<1>6. ASSUME NEW t \in Thread, CmdCtxLoop(t) PROVE WireInv'
  BY <1>6 DEF CmdCtxLoop
<1>7. ASSUME NEW t \in Thread, CmdCtxWake(t) PROVE WireInv'
  BY <1>7 DEF CmdCtxWake
<1>8. ASSUME NEW t \in Thread, CmdCtxTimeout(t) PROVE WireInv'
  BY <1>8 DEF CmdCtxTimeout
<1>9. ASSUME NEW t \in Thread, CmdCtxDispatch(t) PROVE WireInv'
  BY <1>9 DEF CmdCtxDispatch, ListInsert
<1>10. ASSUME NEW t \in Thread, CmdCtxFinish(t) PROVE WireInv'
  BY <1>10 DEF CmdCtxFinish
<1>11. ASSUME NEW t \in Thread, CmdCtxMore(t) PROVE WireInv'
  BY <1>11 DEF CmdCtxMore
<1>12. ASSUME NEW t \in Thread, SpawnReqLoad(t) PROVE WireInv'
  BY <1>12 DEF SpawnReqLoad
<1>13. ASSUME NEW t \in Thread, SpawnReqStore(t) PROVE WireInv'
  BY <1>13 DEF SpawnReqStore
<1>14. ASSUME NEW t \in Thread, CmdSendBegin(t) PROVE WireInv'
  BY <1>14 DEF CmdSendBegin
<1>15. ASSUME NEW t \in Thread, CmdSendEnd(t) PROVE WireInv'
  BY <1>15 DEF CmdSendEnd
<1>16. ASSUME NEW p \in Proc, LockAcquire(p) PROVE WireInv'
  BY <1>16 DEF LockAcquire
<1>17. ASSUME NEW p \in Proc, MsgRead(p) PROVE WireInv'
  BY <1>17 DEF MsgRead
<1>18. ASSUME NEW p \in Proc, MsgReadSyncLoss(p) PROVE WireInv'
  BY <1>18 DEF MsgReadSyncLoss
<1>19. ASSUME NEW p \in Proc, MsgReadShortHdr(p) PROVE WireInv'
  BY <1>19 DEF MsgReadShortHdr
<1>20. ASSUME NEW p \in Proc, MsgReadAssert(p) PROVE WireInv'
  BY <1>20 DEF MsgReadAssert
<1>21. ASSUME NEW p \in Proc, HandleFatalError(p) PROVE WireInv'
  BY <1>21 DEF HandleFatalError
<1>22. ASSUME NEW p \in Proc, MsgReadAborted(p) PROVE WireInv'
  BY <1>22 DEF MsgReadAborted
<1>23. CASE SpawnWake
  BY <1>23 DEF SpawnWake
<1>24. CASE ListRequest
  BY <1>24 DEF ListRequest
<1>25. CASE ListProcess
  BY <1>25 DEF ListProcess
<1>26. CASE SpawnHead
  BY <1>26 DEF SpawnHead
<1>27. CASE SpawnLocked
  BY <1>27 DEF SpawnLocked
<1>28. CASE SpawnDispatch
  BY <1>28 DEF SpawnDispatch
<1>29. CASE SpawnServed
  BY <1>29 DEF SpawnServed
<1>30. CASE RxIrqHandler
  BY <1>30 DEF RxIrqHandler
<1>31. CASE NwpRespond
  BY <1>31 DEF NwpRespond, NwpSend
<1>32. CASE NwpEvent
  BY <1>32 DEF NwpEvent, NwpSend
<1>33. CASE NwpDummy
  BY <1>33 DEF NwpDummy, NwpSend
<1>34. CASE NwpDies
  BY <1>34 DEF NwpDies
<1>35. CASE UNCHANGED vars
  BY <1>35 DEF vars
<1>. QED
  BY <1>1, <1>2, <1>3, <1>4, <1>5, <1>6, <1>7, <1>8, <1>9, <1>10, <1>11,
     <1>12, <1>13, <1>14, <1>15, <1>16, <1>17, <1>18, <1>19, <1>20, <1>21,
     <1>22, <1>23, <1>24, <1>25, <1>26, <1>27, <1>28, <1>29, <1>30, <1>31,
     <1>32, <1>33, <1>34, <1>35
     DEF Next, ThreadStep, SpawnStep, NwpStep

(* The counters follow every announced, read and dispatched message *)
LEMMA AheadStep ==
  ASSUME IInv, RxInv, [Next]_vars PROVE AheadInv'
<1> USE CntModAssumption, IncValue, OneReader DEF lockVars, cmdVars, rxVars,
        spawnVars, evtVars, nwpVars, IInv, TypeOK, PcTypeOK, DataTypeOK,
        RxInv, AheadInv, Ahead, ReadingInv, Announced, InHand, Proc, Goto,
        HoldPc, UsePc, Locked
<1>1. ASSUME NEW t \in Thread, CmdOpRequest(t) PROVE AheadInv'
  BY <1>1 DEF CmdOpRequest
<1>2. ASSUME NEW t \in Thread, CmdSendRequest(t) PROVE AheadInv'
  BY <1>2 DEF CmdSendRequest
<1>3. ASSUME NEW t \in Thread, CmdOpBegin(t) PROVE AheadInv'
  BY <1>3 DEF CmdOpBegin, ApiAllowed
<1>4. ASSUME NEW t \in Thread, CmdOpWritten(t) PROVE AheadInv'
  BY <1>4 DEF CmdOpWritten
<1>5. ASSUME NEW t \in Thread, CmdOpWriteFails(t) PROVE AheadInv'
  BY <1>5 DEF CmdOpWriteFails
<1>6. ASSUME NEW t \in Thread, CmdCtxLoop(t) PROVE AheadInv'
  BY <1>6 DEF CmdCtxLoop
<1>7. ASSUME NEW t \in Thread, CmdCtxWake(t) PROVE AheadInv'
  BY <1>7 DEF CmdCtxWake
<1>8. ASSUME NEW t \in Thread, CmdCtxTimeout(t) PROVE AheadInv'
  BY <1>8 DEF CmdCtxTimeout
<1>9. ASSUME NEW t \in Thread, CmdCtxDispatch(t) PROVE AheadInv'
  BY <1>9 DEF CmdCtxDispatch, ListInsert
<1>10. ASSUME NEW t \in Thread, CmdCtxFinish(t) PROVE AheadInv'
  BY <1>10 DEF CmdCtxFinish
<1>11. ASSUME NEW t \in Thread, CmdCtxMore(t) PROVE AheadInv'
  BY <1>11 DEF CmdCtxMore
<1>12. ASSUME NEW t \in Thread, SpawnReqLoad(t) PROVE AheadInv'
  BY <1>12 DEF SpawnReqLoad
<1>13. ASSUME NEW t \in Thread, SpawnReqStore(t) PROVE AheadInv'
  BY <1>13 DEF SpawnReqStore
<1>14. ASSUME NEW t \in Thread, CmdSendBegin(t) PROVE AheadInv'
  BY <1>14 DEF CmdSendBegin
<1>15. ASSUME NEW t \in Thread, CmdSendEnd(t) PROVE AheadInv'
  BY <1>15 DEF CmdSendEnd
<1>16. ASSUME NEW p \in Proc, LockAcquire(p) PROVE AheadInv'
  BY <1>16 DEF LockAcquire
<1>17. ASSUME NEW p \in Proc, MsgRead(p) PROVE AheadInv'
  BY <1>17 DEF MsgRead
<1>18. ASSUME NEW p \in Proc, MsgReadSyncLoss(p) PROVE AheadInv'
  BY <1>18 DEF MsgReadSyncLoss
<1>19. ASSUME NEW p \in Proc, MsgReadShortHdr(p) PROVE AheadInv'
  BY <1>19 DEF MsgReadShortHdr
<1>20. ASSUME NEW p \in Proc, MsgReadAssert(p) PROVE AheadInv'
  BY <1>20 DEF MsgReadAssert
<1>21. ASSUME NEW p \in Proc, HandleFatalError(p) PROVE AheadInv'
  BY <1>21 DEF HandleFatalError
<1>22. ASSUME NEW p \in Proc, MsgReadAborted(p) PROVE AheadInv'
  BY <1>22 DEF MsgReadAborted
<1>23. CASE SpawnWake
  BY <1>23 DEF SpawnWake
<1>24. CASE ListRequest
  BY <1>24 DEF ListRequest
<1>25. CASE ListProcess
  BY <1>25 DEF ListProcess
<1>26. CASE SpawnHead
  BY <1>26 DEF SpawnHead
<1>27. CASE SpawnLocked
  BY <1>27 DEF SpawnLocked
<1>28. CASE SpawnDispatch
  BY <1>28 DEF SpawnDispatch
<1>29. CASE SpawnServed
  BY <1>29 DEF SpawnServed
<1>30. CASE RxIrqHandler
  BY <1>30 DEF RxIrqHandler
<1>31. CASE NwpRespond
  BY <1>31 DEF NwpRespond, NwpSend
<1>32. CASE NwpEvent
  BY <1>32 DEF NwpEvent, NwpSend
<1>33. CASE NwpDummy
  BY <1>33 DEF NwpDummy, NwpSend
<1>34. CASE NwpDies
  BY <1>34 DEF NwpDies
<1>35. CASE UNCHANGED vars
  BY <1>35 DEF vars
<1>. QED
  BY <1>1, <1>2, <1>3, <1>4, <1>5, <1>6, <1>7, <1>8, <1>9, <1>10, <1>11,
     <1>12, <1>13, <1>14, <1>15, <1>16, <1>17, <1>18, <1>19, <1>20, <1>21,
     <1>22, <1>23, <1>24, <1>25, <1>26, <1>27, <1>28, <1>29, <1>30, <1>31,
     <1>32, <1>33, <1>34, <1>35
     DEF Next, ThreadStep, SpawnStep, NwpStep

(* When the counters differ and nobody holds a message, one is announced *)
LEMMA PendingMasked ==
  ASSUME IInv, RxInv, Pending, NEW p \in Proc, pc[p] \in {"loop", "locked"}
  PROVE  irqMasked
<1>1. \A q \in Proc : pc[q] # "read"
  BY OneReader DEF IInv, HoldPc, UsePc
<1>2. InHand = 0
  BY <1>1 DEF InHand
<1>3. Ahead # 0
  BY CntModAssumption DEF Ahead, Pending, IInv, TypeOK, DataTypeOK
<1>. QED BY <1>2, <1>3 DEF RxInv, AheadInv, Announced

(* Whoever is told to read finds a message *)
LEMMA ReadingStep ==
  ASSUME IInv, RxInv, [Next]_vars PROVE ReadingInv'
<1> USE SpawnAssumption, OneReader DEF lockVars, cmdVars, rxVars, spawnVars,
        evtVars, nwpVars, IInv, TypeOK, PcTypeOK, DataTypeOK, RxInv,
        AheadInv, Ahead, ReadingInv, Announced, InHand, Proc, Goto, HoldPc,
        UsePc, Locked
<1>1. ASSUME NEW t \in Thread, CmdOpRequest(t) PROVE ReadingInv'
  BY <1>1 DEF CmdOpRequest
<1>2. ASSUME NEW t \in Thread, CmdSendRequest(t) PROVE ReadingInv'
  BY <1>2 DEF CmdSendRequest
<1>3. ASSUME NEW t \in Thread, CmdOpBegin(t) PROVE ReadingInv'
  BY <1>3 DEF CmdOpBegin, ApiAllowed
<1>4. ASSUME NEW t \in Thread, CmdOpWritten(t) PROVE ReadingInv'
  BY <1>4 DEF CmdOpWritten
<1>5. ASSUME NEW t \in Thread, CmdOpWriteFails(t) PROVE ReadingInv'
  BY <1>5 DEF CmdOpWriteFails
<1>6. ASSUME NEW t \in Thread, CmdCtxLoop(t) PROVE ReadingInv'
  <2>1. pc'[t] = "reading" => Pending
    BY <1>6 DEF CmdCtxLoop
  <2>2. pc[t] = "loop" /\ UNCHANGED irqMasked /\ pc' = [pc EXCEPT ![t] = pc'[t]]
    BY <1>6 DEF CmdCtxLoop
  <2>. QED BY <2>1, <2>2, PendingMasked
<1>7. ASSUME NEW t \in Thread, CmdCtxWake(t) PROVE ReadingInv'
  BY <1>7 DEF CmdCtxWake
<1>8. ASSUME NEW t \in Thread, CmdCtxTimeout(t) PROVE ReadingInv'
  BY <1>8 DEF CmdCtxTimeout
<1>9. ASSUME NEW t \in Thread, CmdCtxDispatch(t) PROVE ReadingInv'
  BY <1>9 DEF CmdCtxDispatch, ListInsert
<1>10. ASSUME NEW t \in Thread, CmdCtxFinish(t) PROVE ReadingInv'
  BY <1>10 DEF CmdCtxFinish
<1>11. ASSUME NEW t \in Thread, CmdCtxMore(t) PROVE ReadingInv'
  BY <1>11 DEF CmdCtxMore
<1>12. ASSUME NEW t \in Thread, SpawnReqLoad(t) PROVE ReadingInv'
  BY <1>12 DEF SpawnReqLoad
<1>13. ASSUME NEW t \in Thread, SpawnReqStore(t) PROVE ReadingInv'
  BY <1>13 DEF SpawnReqStore
<1>14. ASSUME NEW t \in Thread, CmdSendBegin(t) PROVE ReadingInv'
  BY <1>14 DEF CmdSendBegin
<1>15. ASSUME NEW t \in Thread, CmdSendEnd(t) PROVE ReadingInv'
  BY <1>15 DEF CmdSendEnd
<1>16. ASSUME NEW p \in Proc, LockAcquire(p) PROVE ReadingInv'
  BY <1>16 DEF LockAcquire
<1>17. ASSUME NEW p \in Proc, MsgRead(p) PROVE ReadingInv'
  BY <1>17 DEF MsgRead
<1>18. ASSUME NEW p \in Proc, MsgReadSyncLoss(p) PROVE ReadingInv'
  BY <1>18 DEF MsgReadSyncLoss
<1>19. ASSUME NEW p \in Proc, MsgReadShortHdr(p) PROVE ReadingInv'
  BY <1>19 DEF MsgReadShortHdr
<1>20. ASSUME NEW p \in Proc, MsgReadAssert(p) PROVE ReadingInv'
  BY <1>20 DEF MsgReadAssert
<1>21. ASSUME NEW p \in Proc, HandleFatalError(p) PROVE ReadingInv'
  BY <1>21 DEF HandleFatalError
<1>22. ASSUME NEW p \in Proc, MsgReadAborted(p) PROVE ReadingInv'
  BY <1>22 DEF MsgReadAborted
<1>23. CASE SpawnWake
  BY <1>23 DEF SpawnWake
<1>24. CASE ListRequest
  BY <1>24 DEF ListRequest
<1>25. CASE ListProcess
  BY <1>25 DEF ListProcess
<1>26. CASE SpawnHead
  BY <1>26 DEF SpawnHead
<1>27. CASE SpawnLocked
  <2>1. pc'[Spawn] = "reading" => Pending
    BY <1>27 DEF SpawnLocked
  <2>2. pc[Spawn] = "locked" /\ UNCHANGED irqMasked
        /\ pc' = [pc EXCEPT ![Spawn] = pc'[Spawn]]
    BY <1>27 DEF SpawnLocked
  <2>. QED BY <2>1, <2>2, PendingMasked
<1>28. CASE SpawnDispatch
  BY <1>28 DEF SpawnDispatch
<1>29. CASE SpawnServed
  BY <1>29 DEF SpawnServed
<1>30. CASE RxIrqHandler
  BY <1>30 DEF RxIrqHandler
<1>31. CASE NwpRespond
  BY <1>31 DEF NwpRespond, NwpSend
<1>32. CASE NwpEvent
  BY <1>32 DEF NwpEvent, NwpSend
<1>33. CASE NwpDummy
  BY <1>33 DEF NwpDummy, NwpSend
<1>34. CASE NwpDies
  BY <1>34 DEF NwpDies
<1>35. CASE UNCHANGED vars
  BY <1>35 DEF vars
<1>. QED
  BY <1>1, <1>2, <1>3, <1>4, <1>5, <1>6, <1>7, <1>8, <1>9, <1>10, <1>11,
     <1>12, <1>13, <1>14, <1>15, <1>16, <1>17, <1>18, <1>19, <1>20, <1>21,
     <1>22, <1>23, <1>24, <1>25, <1>26, <1>27, <1>28, <1>29, <1>30, <1>31,
     <1>32, <1>33, <1>34, <1>35
     DEF Next, ThreadStep, SpawnStep, NwpStep

(* No message is announced at the start *)
LEMMA InitRx == Init => RxInv
<1> SUFFICES ASSUME Init PROVE RxInv
  OBVIOUS
<1> USE CntModAssumption DEF Init, RxInv, WireInv, AheadInv, ReadingInv,
        Announced, InHand, Ahead
<1>1. Len(wire) = 0 /\ (\A p \in Proc : pc[p] \in {"swait", "idle"})
  OBVIOUS
<1>2. InHand = 0
  BY <1>1
<1>. QED BY <1>1, <1>2

(***************************************************************************)
(* RxIrqCnt - RxDoneCnt, taken modulo the counters' width, is the number   *)
(* of messages announced and not consumed, whatever fails and however many *)
(* threads read: no message is announced twice, and none is counted as     *)
(* consumed before it was read (driver.c 751-753, 1628, 1755).             *)
(***************************************************************************)
THEOREM RxAccounted == Spec => []RxAccounting
<1>1. IInv /\ RxInv /\ [Next]_vars => RxInv'
  BY WireStep, AheadStep, ReadingStep DEF RxInv
<1>2. IInv /\ RxInv => RxAccounting
  <2> SUFFICES ASSUME IInv, RxInv PROVE RxAccounting
    OBVIOUS
  <2>1. (RxIrqCnt - RxDoneCnt) % CntMod = Ahead
    BY ModDiff DEF IInv, TypeOK, DataTypeOK, Ahead
  <2>2. Ahead = Announced + InHand /\ Len(wire) - irqPend = Announced
    BY DEF RxInv, WireInv, AheadInv
  <2>. QED BY <2>1, <2>2 DEF RxAccounting, Announced, InHand
<1>. QED BY <1>1, <1>2, InitRx, Invariance, PTL DEF Spec

===============================================================================
