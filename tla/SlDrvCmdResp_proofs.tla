------------------------- MODULE SlDrvCmdResp_proofs --------------------------
(***************************************************************************)
(* The theorem that a command of SlDrvCmd that ends well has got its own   *)
(* response.                                                               *)
(***************************************************************************)
EXTENDS SlDrvCmd_proofs

(***************************************************************************)
(* What OkMeansResponse rests on.  The NWP answers in order and the bus    *)
(* serves one command at a time, so the response that is due is the one to *)
(* the command in progress; a command that fails leaves its response       *)
(* behind, and raises the restart that keeps every later command from      *)
(* taking it for its own.                                                  *)
(***************************************************************************)
(* t is executing a command, from _SlDrvMsgWrite to the unlock of _SlDrvCmdOp *)
Live(p) == pc[p] \in {"writing", "loop", "wait", "reading", "read", "finish"}

(* The NWP owes no response and none is queued *)
NoResp == todo = <<>> /\ \A i \in DOMAIN wire : wire[i].cls # "resp"

(* The NWP owes at most the one response to t's command *)
OneResp(t) ==
  /\ todo \in {<<>>, <<t>>}
  /\ \A i \in DOMAIN wire : wire[i].cls = "resp" => wire[i].tag = t /\ todo = <<>>
  /\ \A i, j \in DOMAIN wire : wire[i].cls = "resp" /\ wire[j].cls = "resp" => i = j

(* FunctionParams.pCmdCtrl and WaitForCmdResp belong to the command in progress *)
OwnerInv ==
  \A t \in Thread :
    /\ Live(t) => cmdOwner = t
    /\ pc[t] \in {"writing", "wait", "reading", "read"} => WaitForCmdResp

(* Between the write of a command and its response only that response is due *)
DueInv ==
  \A t \in Thread :
    /\ pc[t] \in {"writing", "finish"} => NoResp
    /\ pc[t] \in {"loop", "wait", "reading", "read"} => OneResp(t)
    /\ pc[t] = "loop" /\ ~WaitForCmdResp => NoResp
    /\ pc[t] = "read" /\ rxMsg.cls = "resp" => rxMsg.tag = t /\ NoResp

AnsweredInv ==
  \A t \in Thread :
    /\ pc[t] = "loop" /\ ~WaitForCmdResp => answered[t]
    /\ pc[t] \in {"finish", "unlocked", "load", "store"} => answered[t]

(* No command is in progress: nothing is due, or no other command will start *)
QuietInv ==
  /\ (\A t \in Thread : ~Live(t)) => NoResp \/ RestartRequired
  /\ ~nwpAlive => todo = <<>>
  /\ \A t, u \in Thread : pc[t] = "aborted" => RestartRequired /\ ~Live(u)
  /\ \A p \in Proc : pc[p] # "syncfatal"

RespInv == OwnerInv /\ DueInv /\ AnsweredInv /\ QuietInv

-----------------------------------------------------------------------------
(* The queues *)

(* What is due does not depend on anything but wire and todo *)
LEMMA DueUnchanged ==
  ASSUME UNCHANGED <<wire, todo>>
  PROVE  /\ NoResp' = NoResp
         /\ \A t \in Thread : OneResp(t)' = OneResp(t)
  BY DEF NoResp, OneResp

(* Nothing due is at most one response due *)
LEMMA NoRespOne == ASSUME NoResp, NEW t PROVE OneResp(t)
  BY DEF NoResp, OneResp

(* An event or a flow-control message is not a response *)
LEMMA SendOther ==
  ASSUME MsgTypeOK, NEW m \in Msg, m.cls # "resp", NwpSend(m), UNCHANGED todo
  PROVE  /\ NoResp => NoResp'
         /\ \A t \in Thread : OneResp(t) => OneResp(t)'
<1>1. wire' = Append(wire, m) /\ wire \in Seq(Msg)
  BY DEF NwpSend, MsgTypeOK
<1>2. /\ DOMAIN wire' = 1 .. Len(wire) + 1 /\ DOMAIN wire = 1 .. Len(wire)
      /\ \A i \in DOMAIN wire : wire'[i] = wire[i]
      /\ wire'[Len(wire) + 1] = m
  BY <1>1, AppendProperties
<1>3. ASSUME NEW i \in DOMAIN wire', wire'[i].cls = "resp"
      PROVE  i \in DOMAIN wire /\ wire'[i] = wire[i]
  BY <1>2, <1>3
<1>. QED BY <1>3 DEF NoResp, OneResp

(* The response that is due is sent *)
LEMMA SendResponse ==
  ASSUME MsgTypeOK, NwpRespond
  PROVE  ~NoResp /\ \A t \in Thread : OneResp(t) => OneResp(t)'
<1> DEFINE m == [cls |-> "resp", tag |-> Head(todo)]
<1>1. /\ todo # <<>> /\ todo' = Tail(todo)
      /\ wire' = Append(wire, m) /\ wire \in Seq(Msg)
  BY DEF NwpRespond, NwpSend, MsgTypeOK
<1>2. m \in Msg /\ m.cls = "resp" /\ m.tag = Head(todo)
  BY <1>1 DEF MsgTypeOK, Msg
<1>3. /\ DOMAIN wire' = 1 .. Len(wire) + 1 /\ DOMAIN wire = 1 .. Len(wire)
      /\ \A i \in DOMAIN wire : wire'[i] = wire[i]
      /\ wire'[Len(wire) + 1] = m
  BY <1>1, <1>2, AppendProperties
<1>4. ASSUME NEW t \in Thread, OneResp(t) PROVE OneResp(t)'
  <2>1. todo = <<t>> /\ \A i \in DOMAIN wire : wire[i].cls # "resp"
    BY <1>1, <1>4 DEF OneResp
  <2>2. todo' = <<>> /\ m.tag = t
    BY <1>1, <1>2, <2>1
  <2>3. ASSUME NEW i \in DOMAIN wire', wire'[i].cls = "resp"
        PROVE  i = Len(wire) + 1 /\ wire'[i] = m
    BY <1>3, <2>1, <2>3
  <2>. QED BY <2>2, <2>3 DEF OneResp
<1>. QED BY <1>1, <1>4 DEF NoResp

(* A message is read: it was the response that was due, or it was not *)
LEMMA ReadDue ==
  ASSUME MsgTypeOK, NEW p \in Proc, MsgRead(p)
  PROVE  /\ NoResp => NoResp'
         /\ \A t \in Thread : OneResp(t) =>
              OneResp(t)' /\ (rxMsg'.cls = "resp" => rxMsg'.tag = t /\ NoResp')
<1>1. /\ wire \in Seq(Msg) /\ wire # <<>> /\ todo' = todo
      /\ wire' = Tail(wire) /\ rxMsg' = Head(wire)
  BY DEF MsgRead, nwpVars, MsgTypeOK
<1>2. /\ 1 \in DOMAIN wire /\ rxMsg' = wire[1] /\ wire' \in Seq(Msg)
      /\ \A i \in DOMAIN wire' :
           i \in Nat /\ i + 1 \in DOMAIN wire /\ wire'[i] = wire[i + 1]
      /\ \A i \in DOMAIN wire' : i + 1 # 1
  BY <1>1, HeadTailProperties
<1>3. NoResp => NoResp'
  BY <1>1, <1>2 DEF NoResp
<1>4. ASSUME NEW t \in Thread, OneResp(t)
      PROVE  OneResp(t)' /\ (rxMsg'.cls = "resp" => rxMsg'.tag = t /\ NoResp')
  <2>1. OneResp(t)'
    <3>1. todo' \in {<<>>, <<t>>}
      BY <1>1, <1>4 DEF OneResp
    <3>2. \A i \in DOMAIN wire' :
            wire'[i].cls = "resp" => wire'[i].tag = t /\ todo' = <<>>
      BY <1>1, <1>2, <1>4 DEF OneResp
    <3>3. ASSUME NEW i \in DOMAIN wire', NEW j \in DOMAIN wire',
                 wire'[i].cls = "resp", wire'[j].cls = "resp"
          PROVE  i = j
      <4>1. i + 1 = j + 1
        BY <1>2, <1>4, <3>3 DEF OneResp
      <4>. QED BY <4>1, <1>2
    <3>. QED BY <3>1, <3>2, <3>3 DEF OneResp
  <2>2. ASSUME rxMsg'.cls = "resp" PROVE rxMsg'.tag = t /\ NoResp'
    <3>1. rxMsg'.tag = t /\ todo' = <<>>
      BY <1>1, <1>2, <1>4, <2>2 DEF OneResp
    <3>2. \A i \in DOMAIN wire' : wire'[i].cls # "resp"
      BY <1>2, <1>4, <2>2 DEF OneResp
    <3>. QED BY <3>1, <3>2 DEF NoResp
  <2>. QED BY <2>1, <2>2
<1>. QED BY <1>3, <1>4

(* The command is with the NWP, which owes its response, or is dead *)
LEMMA WrittenDue ==
  ASSUME NEW t \in Thread, NoResp, CmdOpWritten(t) PROVE OneResp(t)'
  BY DEF CmdOpWritten, NoResp, OneResp

(* A dead NWP owes nothing *)
LEMMA DiesDue ==
  ASSUME NwpDies
  PROVE  /\ NoResp => NoResp'
         /\ \A t \in Thread : OneResp(t) => OneResp(t)'
  BY DEF NwpDies, NoResp, OneResp

-----------------------------------------------------------------------------
(* The steps *)

(* Only one thread executes a command, and none while the spawn task reads *)
LEMMA OneLive ==
  ASSUME LockInv, NEW p \in Proc, NEW u \in Proc, pc[p] \in HoldPc, Live(u)
  PROVE  p = u
  BY DEF LockInv, HoldPc, UsePc, Live

(* Only the command in progress changes its owner and WaitForCmdResp *)
LEMMA OwnerStep ==
  ASSUME "sync" \notin Faults, "slow" \notin Faults, IInv, RespInv, [Next]_vars
  PROVE  OwnerInv'
<1> USE SpawnAssumption, OneLive DEF lockVars, cmdVars, rxVars, spawnVars,
        evtVars, nwpVars, IInv, TypeOK, PcTypeOK, DataTypeOK, RespInv,
        OwnerInv, QuietInv, Live, Goto, Proc, HoldPc, UsePc, Locked, Handle
<1>1. ASSUME NEW t \in Thread, CmdOpRequest(t) PROVE OwnerInv'
  BY <1>1 DEF CmdOpRequest
<1>2. ASSUME NEW t \in Thread, CmdSendRequest(t) PROVE OwnerInv'
  BY <1>2 DEF CmdSendRequest
<1>3. ASSUME NEW t \in Thread, CmdOpBegin(t) PROVE OwnerInv'
  BY <1>3 DEF CmdOpBegin, ApiAllowed
<1>4. ASSUME NEW t \in Thread, CmdOpWritten(t) PROVE OwnerInv'
  BY <1>4 DEF CmdOpWritten
<1>5. ASSUME NEW t \in Thread, CmdOpWriteFails(t) PROVE OwnerInv'
  BY <1>5 DEF CmdOpWriteFails
<1>6. ASSUME NEW t \in Thread, CmdCtxLoop(t) PROVE OwnerInv'
  BY <1>6 DEF CmdCtxLoop
<1>7. ASSUME NEW t \in Thread, CmdCtxWake(t) PROVE OwnerInv'
  BY <1>7 DEF CmdCtxWake
<1>8. ASSUME NEW t \in Thread, CmdCtxTimeout(t) PROVE OwnerInv'
  BY <1>8 DEF CmdCtxTimeout
<1>9. ASSUME NEW t \in Thread, CmdCtxDispatch(t) PROVE OwnerInv'
  BY <1>9 DEF CmdCtxDispatch, ListInsert
<1>10. ASSUME NEW t \in Thread, CmdCtxFinish(t) PROVE OwnerInv'
  BY <1>10 DEF CmdCtxFinish
<1>11. ASSUME NEW t \in Thread, CmdCtxMore(t) PROVE OwnerInv'
  BY <1>11 DEF CmdCtxMore
<1>12. ASSUME NEW t \in Thread, SpawnReqLoad(t) PROVE OwnerInv'
  BY <1>12 DEF SpawnReqLoad
<1>13. ASSUME NEW t \in Thread, SpawnReqStore(t) PROVE OwnerInv'
  BY <1>13 DEF SpawnReqStore
<1>14. ASSUME NEW t \in Thread, CmdSendBegin(t) PROVE OwnerInv'
  BY <1>14 DEF CmdSendBegin
<1>15. ASSUME NEW t \in Thread, CmdSendEnd(t) PROVE OwnerInv'
  BY <1>15 DEF CmdSendEnd
<1>16. ASSUME NEW p \in Proc, LockAcquire(p) PROVE OwnerInv'
  BY <1>16 DEF LockAcquire
<1>17. ASSUME NEW p \in Proc, MsgRead(p) PROVE OwnerInv'
  BY <1>17 DEF MsgRead
<1>18. ASSUME NEW p \in Proc, MsgReadSyncLoss(p) PROVE OwnerInv'
  BY <1>18 DEF MsgReadSyncLoss
<1>19. ASSUME NEW p \in Proc, MsgReadShortHdr(p) PROVE OwnerInv'
  BY <1>19 DEF MsgReadShortHdr
<1>20. ASSUME NEW p \in Proc, MsgReadAssert(p) PROVE OwnerInv'
  BY <1>20 DEF MsgReadAssert
<1>21. ASSUME NEW p \in Proc, HandleFatalError(p) PROVE OwnerInv'
  BY <1>21 DEF HandleFatalError
<1>22. ASSUME NEW p \in Proc, MsgReadAborted(p) PROVE OwnerInv'
  BY <1>22 DEF MsgReadAborted
<1>23. CASE SpawnWake
  BY <1>23 DEF SpawnWake
<1>24. CASE ListRequest
  BY <1>24 DEF ListRequest
<1>25. CASE ListProcess
  BY <1>25 DEF ListProcess
<1>26. CASE SpawnHead
  BY <1>26 DEF SpawnHead
<1>27. CASE SpawnLocked
  BY <1>27 DEF SpawnLocked
<1>28. CASE SpawnDispatch
  BY <1>28 DEF SpawnDispatch
<1>29. CASE SpawnServed
  BY <1>29 DEF SpawnServed
<1>30. CASE RxIrqHandler
  BY <1>30 DEF RxIrqHandler
<1>31. CASE NwpRespond
  BY <1>31 DEF NwpRespond, NwpSend
<1>32. CASE NwpEvent
  BY <1>32 DEF NwpEvent, NwpSend
<1>33. CASE NwpDummy
  BY <1>33 DEF NwpDummy, NwpSend
<1>34. CASE NwpDies
  BY <1>34 DEF NwpDies
<1>35. CASE UNCHANGED vars
  BY <1>35 DEF vars
<1>. QED
  BY <1>1, <1>2, <1>3, <1>4, <1>5, <1>6, <1>7, <1>8, <1>9, <1>10, <1>11,
     <1>12, <1>13, <1>14, <1>15, <1>16, <1>17, <1>18, <1>19, <1>20, <1>21,
     <1>22, <1>23, <1>24, <1>25, <1>26, <1>27, <1>28, <1>29, <1>30, <1>31,
     <1>32, <1>33, <1>34, <1>35
     DEF Next, ThreadStep, SpawnStep, NwpStep

(* WaitForCmdResp is cleared when the command's own response is in *)
LEMMA AnsweredStep ==
  ASSUME "sync" \notin Faults, "slow" \notin Faults, IInv, RespInv, [Next]_vars
  PROVE  AnsweredInv'
<1> USE SpawnAssumption, OneLive DEF lockVars, cmdVars, rxVars, spawnVars,
        evtVars, nwpVars, IInv, TypeOK, PcTypeOK, DataTypeOK, RespInv,
        OwnerInv, AnsweredInv, DueInv, QuietInv, Live, Goto, Proc, HoldPc,
        UsePc, Locked, Handle
<1>1. ASSUME NEW t \in Thread, CmdOpRequest(t) PROVE AnsweredInv'
  BY <1>1 DEF CmdOpRequest
<1>2. ASSUME NEW t \in Thread, CmdSendRequest(t) PROVE AnsweredInv'
  BY <1>2 DEF CmdSendRequest
<1>3. ASSUME NEW t \in Thread, CmdOpBegin(t) PROVE AnsweredInv'
  BY <1>3 DEF CmdOpBegin, ApiAllowed
<1>4. ASSUME NEW t \in Thread, CmdOpWritten(t) PROVE AnsweredInv'
  BY <1>4 DEF CmdOpWritten
<1>5. ASSUME NEW t \in Thread, CmdOpWriteFails(t) PROVE AnsweredInv'
  BY <1>5 DEF CmdOpWriteFails
<1>6. ASSUME NEW t \in Thread, CmdCtxLoop(t) PROVE AnsweredInv'
  BY <1>6 DEF CmdCtxLoop
<1>7. ASSUME NEW t \in Thread, CmdCtxWake(t) PROVE AnsweredInv'
  BY <1>7 DEF CmdCtxWake
<1>8. ASSUME NEW t \in Thread, CmdCtxTimeout(t) PROVE AnsweredInv'
  BY <1>8 DEF CmdCtxTimeout
<1>9. ASSUME NEW t \in Thread, CmdCtxDispatch(t) PROVE AnsweredInv'
  BY <1>9 DEF CmdCtxDispatch, ListInsert
<1>10. ASSUME NEW t \in Thread, CmdCtxFinish(t) PROVE AnsweredInv'
  BY <1>10 DEF CmdCtxFinish
<1>11. ASSUME NEW t \in Thread, CmdCtxMore(t) PROVE AnsweredInv'
  BY <1>11 DEF CmdCtxMore
<1>12. ASSUME NEW t \in Thread, SpawnReqLoad(t) PROVE AnsweredInv'
  BY <1>12 DEF SpawnReqLoad
<1>13. ASSUME NEW t \in Thread, SpawnReqStore(t) PROVE AnsweredInv'
  BY <1>13 DEF SpawnReqStore
<1>14. ASSUME NEW t \in Thread, CmdSendBegin(t) PROVE AnsweredInv'
  BY <1>14 DEF CmdSendBegin
<1>15. ASSUME NEW t \in Thread, CmdSendEnd(t) PROVE AnsweredInv'
  BY <1>15 DEF CmdSendEnd
<1>16. ASSUME NEW p \in Proc, LockAcquire(p) PROVE AnsweredInv'
  BY <1>16 DEF LockAcquire
<1>17. ASSUME NEW p \in Proc, MsgRead(p) PROVE AnsweredInv'
  BY <1>17 DEF MsgRead
<1>18. ASSUME NEW p \in Proc, MsgReadSyncLoss(p) PROVE AnsweredInv'
  BY <1>18 DEF MsgReadSyncLoss
<1>19. ASSUME NEW p \in Proc, MsgReadShortHdr(p) PROVE AnsweredInv'
  BY <1>19 DEF MsgReadShortHdr
<1>20. ASSUME NEW p \in Proc, MsgReadAssert(p) PROVE AnsweredInv'
  BY <1>20 DEF MsgReadAssert
<1>21. ASSUME NEW p \in Proc, HandleFatalError(p) PROVE AnsweredInv'
  BY <1>21 DEF HandleFatalError
<1>22. ASSUME NEW p \in Proc, MsgReadAborted(p) PROVE AnsweredInv'
  BY <1>22 DEF MsgReadAborted
<1>23. CASE SpawnWake
  BY <1>23 DEF SpawnWake
<1>24. CASE ListRequest
  BY <1>24 DEF ListRequest
<1>25. CASE ListProcess
  BY <1>25 DEF ListProcess
<1>26. CASE SpawnHead
  BY <1>26 DEF SpawnHead
<1>27. CASE SpawnLocked
  BY <1>27 DEF SpawnLocked
<1>28. CASE SpawnDispatch
  BY <1>28 DEF SpawnDispatch
<1>29. CASE SpawnServed
  BY <1>29 DEF SpawnServed
<1>30. CASE RxIrqHandler
  BY <1>30 DEF RxIrqHandler
<1>31. CASE NwpRespond
  BY <1>31 DEF NwpRespond, NwpSend
<1>32. CASE NwpEvent
  BY <1>32 DEF NwpEvent, NwpSend
<1>33. CASE NwpDummy
  BY <1>33 DEF NwpDummy, NwpSend
<1>34. CASE NwpDies
  BY <1>34 DEF NwpDies
<1>35. CASE UNCHANGED vars
  BY <1>35 DEF vars
<1>. QED
  BY <1>1, <1>2, <1>3, <1>4, <1>5, <1>6, <1>7, <1>8, <1>9, <1>10, <1>11,
     <1>12, <1>13, <1>14, <1>15, <1>16, <1>17, <1>18, <1>19, <1>20, <1>21,
     <1>22, <1>23, <1>24, <1>25, <1>26, <1>27, <1>28, <1>29, <1>30, <1>31,
     <1>32, <1>33, <1>34, <1>35
     DEF Next, ThreadStep, SpawnStep, NwpStep

(* The NWP acts: what is due stays due, no process moves *)
LEMMA NwpDue ==
  ASSUME RespInv, UNCHANGED <<pc, WaitForCmdResp, rxMsg, RestartRequired>>,
         NoResp => NoResp', \A t \in Thread : OneResp(t) => OneResp(t)',
         ~nwpAlive' => todo' = <<>>
  PROVE  DueInv' /\ QuietInv'
<1>1. \A p \in Proc : Live(p)' = Live(p)
  BY DEF Live
<1>2. DueInv'
  BY DEF RespInv, DueInv
<1>3. QuietInv'
  BY <1>1 DEF RespInv, QuietInv, Proc
<1>. QED BY <1>2, <1>3

(* Whatever the NWP does, only the response that is due is sent *)
LEMMA NwpStepDue ==
  ASSUME IInv, RespInv, NwpStep PROVE DueInv' /\ QuietInv'
<1>1. CASE NwpRespond
  <2>1. ~NoResp /\ \A t \in Thread : OneResp(t) => OneResp(t)'
    BY <1>1, SendResponse DEF IInv, TypeOK
  <2>. QED BY <1>1, <2>1, NwpDue
       DEF NwpRespond, NwpSend, lockVars, cmdVars, rxVars
<1>2. CASE NwpEvent
  <2> DEFINE m == [cls |-> "async", tag |-> sent + 1]
  <2>1. m \in Msg /\ m.cls # "resp"
    BY <1>2, EventAssumption DEF NwpEvent, Msg, Event, IInv, TypeOK, MsgTypeOK
  <2>2. NwpSend(m) /\ UNCHANGED todo
    BY <1>2 DEF NwpEvent
  <2>3. /\ NoResp => NoResp'
        /\ \A t \in Thread : OneResp(t) => OneResp(t)'
    <3> HIDE DEF m
    <3>. QED BY <2>1, <2>2, SendOther DEF IInv, TypeOK
  <2>. QED BY <1>2, <2>3, NwpDue
       DEF NwpEvent, NwpSend, lockVars, cmdVars, rxVars
<1>3. CASE NwpDummy
  <2> DEFINE m == [cls |-> "dummy", tag |-> 0]
  <2>1. m \in Msg /\ m.cls # "resp"
    BY DEF Msg
  <2>2. NwpSend(m) /\ UNCHANGED todo
    BY <1>3 DEF NwpDummy
  <2>3. /\ NoResp => NoResp'
        /\ \A t \in Thread : OneResp(t) => OneResp(t)'
    <3> HIDE DEF m
    <3>. QED BY <2>1, <2>2, SendOther DEF IInv, TypeOK
  <2>. QED BY <1>3, <2>3, NwpDue
       DEF NwpDummy, NwpSend, lockVars, cmdVars, rxVars
<1>4. CASE NwpDies
  <2>1. /\ todo' = <<>>
        /\ UNCHANGED <<pc, WaitForCmdResp, rxMsg, RestartRequired>>
    BY <1>4 DEF NwpDies, cmdVars, rxVars
  <2>2. /\ NoResp => NoResp'
        /\ \A t \in Thread : OneResp(t) => OneResp(t)'
    BY <1>4, DiesDue
  <2>. QED BY <2>1, <2>2, NwpDue
<1>. QED BY <1>1, <1>2, <1>3, <1>4 DEF NwpStep

(* A command leaves nothing due, or a restart required *)
LEMMA QuietStep ==
  ASSUME "sync" \notin Faults, "slow" \notin Faults, IInv, RespInv, [Next]_vars
  PROVE  QuietInv'
<1> USE SpawnAssumption, OneLive, DueUnchanged, NoRespOne DEF lockVars,
        cmdVars, rxVars, spawnVars, evtVars, nwpVars, IInv, TypeOK, PcTypeOK,
        DataTypeOK, RespInv, OwnerInv, DueInv, QuietInv, Live, Goto, Proc,
        HoldPc, UsePc, Locked, Handle
<1>1. ASSUME NEW t \in Thread, CmdOpRequest(t) PROVE QuietInv'
  BY <1>1 DEF CmdOpRequest
<1>2. ASSUME NEW t \in Thread, CmdSendRequest(t) PROVE QuietInv'
  BY <1>2 DEF CmdSendRequest
<1>3. ASSUME NEW t \in Thread, CmdOpBegin(t) PROVE QuietInv'
  BY <1>3 DEF CmdOpBegin, ApiAllowed
<1>4. ASSUME NEW t \in Thread, CmdOpWritten(t) PROVE QuietInv'
  BY <1>4 DEF CmdOpWritten
<1>5. ASSUME NEW t \in Thread, CmdOpWriteFails(t) PROVE QuietInv'
  BY <1>5 DEF CmdOpWriteFails
<1>6. ASSUME NEW t \in Thread, CmdCtxLoop(t) PROVE QuietInv'
  BY <1>6 DEF CmdCtxLoop
<1>7. ASSUME NEW t \in Thread, CmdCtxWake(t) PROVE QuietInv'
  BY <1>7 DEF CmdCtxWake
<1>8. ASSUME NEW t \in Thread, CmdCtxTimeout(t) PROVE QuietInv'
  <2>1. WaitForCmdResp /\ OneResp(t)
    BY <1>8 DEF CmdCtxTimeout
  <2>2. wire = <<>> /\ todo = <<>>
    BY <1>8, <2>1 DEF CmdCtxTimeout
  <2>3. NoResp'
    BY <1>8, <2>2 DEF CmdCtxTimeout, NoResp
  <2>. QED BY <1>8, <2>3 DEF CmdCtxTimeout
<1>9. ASSUME NEW t \in Thread, CmdCtxDispatch(t) PROVE QuietInv'
  BY <1>9 DEF CmdCtxDispatch, ListInsert
<1>10. ASSUME NEW t \in Thread, CmdCtxFinish(t) PROVE QuietInv'
  BY <1>10 DEF CmdCtxFinish
<1>11. ASSUME NEW t \in Thread, CmdCtxMore(t) PROVE QuietInv'
  BY <1>11 DEF CmdCtxMore
<1>12. ASSUME NEW t \in Thread, SpawnReqLoad(t) PROVE QuietInv'
  BY <1>12 DEF SpawnReqLoad
<1>13. ASSUME NEW t \in Thread, SpawnReqStore(t) PROVE QuietInv'
  BY <1>13 DEF SpawnReqStore
<1>14. ASSUME NEW t \in Thread, CmdSendBegin(t) PROVE QuietInv'
  BY <1>14 DEF CmdSendBegin
<1>15. ASSUME NEW t \in Thread, CmdSendEnd(t) PROVE QuietInv'
  BY <1>15 DEF CmdSendEnd
<1>16. ASSUME NEW p \in Proc, LockAcquire(p) PROVE QuietInv'
  BY <1>16 DEF LockAcquire
<1>17. ASSUME NEW p \in Proc, MsgRead(p) PROVE QuietInv'
  <2>1. NoResp => NoResp'
    BY <1>17, ReadDue
  <2>. QED BY <1>17, <2>1 DEF MsgRead
<1>18. ASSUME NEW p \in Proc, MsgReadSyncLoss(p) PROVE QuietInv'
  BY <1>18 DEF MsgReadSyncLoss
<1>19. ASSUME NEW p \in Proc, MsgReadShortHdr(p) PROVE QuietInv'
  BY <1>19 DEF MsgReadShortHdr
<1>20. ASSUME NEW p \in Proc, MsgReadAssert(p) PROVE QuietInv'
  BY <1>20 DEF MsgReadAssert
<1>21. ASSUME NEW p \in Proc, HandleFatalError(p) PROVE QuietInv'
  BY <1>21 DEF HandleFatalError
<1>22. ASSUME NEW p \in Proc, MsgReadAborted(p) PROVE QuietInv'
  BY <1>22 DEF MsgReadAborted
<1>23. CASE SpawnWake
  BY <1>23 DEF SpawnWake
<1>24. CASE ListRequest
  BY <1>24 DEF ListRequest
<1>25. CASE ListProcess
  BY <1>25 DEF ListProcess
<1>26. CASE SpawnHead
  BY <1>26 DEF SpawnHead
<1>27. CASE SpawnLocked
  BY <1>27 DEF SpawnLocked
<1>28. CASE SpawnDispatch
  BY <1>28 DEF SpawnDispatch
<1>29. CASE SpawnServed
  BY <1>29 DEF SpawnServed
<1>30. CASE RxIrqHandler
  BY <1>30 DEF RxIrqHandler
<1>31. CASE NwpRespond
  BY <1>31, NwpStepDue DEF NwpStep
<1>32. CASE NwpEvent
  BY <1>32, NwpStepDue DEF NwpStep
<1>33. CASE NwpDummy
  BY <1>33, NwpStepDue DEF NwpStep
<1>34. CASE NwpDies
  BY <1>34, NwpStepDue DEF NwpStep
<1>35. CASE UNCHANGED vars
  BY <1>35 DEF vars
<1>. QED
  BY <1>1, <1>2, <1>3, <1>4, <1>5, <1>6, <1>7, <1>8, <1>9, <1>10, <1>11,
     <1>12, <1>13, <1>14, <1>15, <1>16, <1>17, <1>18, <1>19, <1>20, <1>21,
     <1>22, <1>23, <1>24, <1>25, <1>26, <1>27, <1>28, <1>29, <1>30, <1>31,
     <1>32, <1>33, <1>34, <1>35
     DEF Next, ThreadStep, SpawnStep, NwpStep

(* Only the response to the command in progress is ever due *)
LEMMA DueStep ==
  ASSUME "sync" \notin Faults, "slow" \notin Faults, IInv, RespInv, [Next]_vars
  PROVE  DueInv'
<1> USE SpawnAssumption, OneLive, DueUnchanged, NoRespOne DEF lockVars,
        cmdVars, rxVars, spawnVars, evtVars, nwpVars, IInv, TypeOK, PcTypeOK,
        DataTypeOK, RespInv, OwnerInv, DueInv, QuietInv, Live, Goto, Proc,
        HoldPc, UsePc, Locked, Handle
<1>1. ASSUME NEW t \in Thread, CmdOpRequest(t) PROVE DueInv'
  BY <1>1 DEF CmdOpRequest
<1>2. ASSUME NEW t \in Thread, CmdSendRequest(t) PROVE DueInv'
  BY <1>2 DEF CmdSendRequest
<1>3. ASSUME NEW t \in Thread, CmdOpBegin(t) PROVE DueInv'
  BY <1>3 DEF CmdOpBegin, ApiAllowed
<1>4. ASSUME NEW t \in Thread, CmdOpWritten(t) PROVE DueInv'
  <2>1. OneResp(t)' /\ WaitForCmdResp'
    BY <1>4, WrittenDue DEF CmdOpWritten
  <2>. QED BY <1>4, <2>1 DEF CmdOpWritten
<1>5. ASSUME NEW t \in Thread, CmdOpWriteFails(t) PROVE DueInv'
  BY <1>5 DEF CmdOpWriteFails
<1>6. ASSUME NEW t \in Thread, CmdCtxLoop(t) PROVE DueInv'
  BY <1>6 DEF CmdCtxLoop
<1>7. ASSUME NEW t \in Thread, CmdCtxWake(t) PROVE DueInv'
  BY <1>7 DEF CmdCtxWake
<1>8. ASSUME NEW t \in Thread, CmdCtxTimeout(t) PROVE DueInv'
  BY <1>8 DEF CmdCtxTimeout
<1>9. ASSUME NEW t \in Thread, CmdCtxDispatch(t) PROVE DueInv'
  BY <1>9 DEF CmdCtxDispatch, ListInsert
<1>10. ASSUME NEW t \in Thread, CmdCtxFinish(t) PROVE DueInv'
  BY <1>10 DEF CmdCtxFinish
<1>11. ASSUME NEW t \in Thread, CmdCtxMore(t) PROVE DueInv'
  BY <1>11 DEF CmdCtxMore
<1>12. ASSUME NEW t \in Thread, SpawnReqLoad(t) PROVE DueInv'
  BY <1>12 DEF SpawnReqLoad
<1>13. ASSUME NEW t \in Thread, SpawnReqStore(t) PROVE DueInv'
  BY <1>13 DEF SpawnReqStore
<1>14. ASSUME NEW t \in Thread, CmdSendBegin(t) PROVE DueInv'
  BY <1>14 DEF CmdSendBegin
<1>15. ASSUME NEW t \in Thread, CmdSendEnd(t) PROVE DueInv'
  BY <1>15 DEF CmdSendEnd
<1>16. ASSUME NEW p \in Proc, LockAcquire(p) PROVE DueInv'
  BY <1>16 DEF LockAcquire
<1>17. ASSUME NEW p \in Proc, MsgRead(p) PROVE DueInv'
  <2>1. ASSUME NEW u \in Thread, u # p
        PROVE  ~Live(u) /\ pc'[u] = pc[u]
    BY <1>17, <2>1 DEF MsgRead
  <2>2. ASSUME p \in Thread
        PROVE  OneResp(p)' /\ (rxMsg'.cls = "resp" => rxMsg'.tag = p /\ NoResp')
    BY <1>17, <2>2, ReadDue DEF MsgRead
  <2>3. pc'[p] = "read"
    BY <1>17 DEF MsgRead
  <2>. QED BY <2>1, <2>2, <2>3
<1>18. ASSUME NEW p \in Proc, MsgReadSyncLoss(p) PROVE DueInv'
  BY <1>18 DEF MsgReadSyncLoss
<1>19. ASSUME NEW p \in Proc, MsgReadShortHdr(p) PROVE DueInv'
  BY <1>19 DEF MsgReadShortHdr
<1>20. ASSUME NEW p \in Proc, MsgReadAssert(p) PROVE DueInv'
  BY <1>20 DEF MsgReadAssert
<1>21. ASSUME NEW p \in Proc, HandleFatalError(p) PROVE DueInv'
  BY <1>21 DEF HandleFatalError
<1>22. ASSUME NEW p \in Proc, MsgReadAborted(p) PROVE DueInv'
  BY <1>22 DEF MsgReadAborted
<1>23. CASE SpawnWake
  BY <1>23 DEF SpawnWake
<1>24. CASE ListRequest
  BY <1>24 DEF ListRequest
<1>25. CASE ListProcess
  BY <1>25 DEF ListProcess
<1>26. CASE SpawnHead
  BY <1>26 DEF SpawnHead
<1>27. CASE SpawnLocked
  BY <1>27 DEF SpawnLocked
<1>28. CASE SpawnDispatch
  BY <1>28 DEF SpawnDispatch
<1>29. CASE SpawnServed
  BY <1>29 DEF SpawnServed
<1>30. CASE RxIrqHandler
  BY <1>30 DEF RxIrqHandler
<1>31. CASE NwpRespond
  BY <1>31, NwpStepDue DEF NwpStep
<1>32. CASE NwpEvent
  BY <1>32, NwpStepDue DEF NwpStep
<1>33. CASE NwpDummy
  BY <1>33, NwpStepDue DEF NwpStep
<1>34. CASE NwpDies
  BY <1>34, NwpStepDue DEF NwpStep
<1>35. CASE UNCHANGED vars
  BY <1>35 DEF vars
<1>. QED
  BY <1>1, <1>2, <1>3, <1>4, <1>5, <1>6, <1>7, <1>8, <1>9, <1>10, <1>11,
     <1>12, <1>13, <1>14, <1>15, <1>16, <1>17, <1>18, <1>19, <1>20, <1>21,
     <1>22, <1>23, <1>24, <1>25, <1>26, <1>27, <1>28, <1>29, <1>30, <1>31,
     <1>32, <1>33, <1>34, <1>35
     DEF Next, ThreadStep, SpawnStep, NwpStep

(* Nothing is due at the start *)
LEMMA InitResp == Init => RespInv
<1> SUFFICES ASSUME Init PROVE RespInv
  OBVIOUS
<1>1. todo = <<>> /\ wire = <<>> /\ nwpAlive = TRUE
      /\ \A p \in Proc : pc[p] \in {"swait", "idle"}
  BY DEF Init
<1>. QED BY <1>1 DEF RespInv, OwnerInv, DueInv, AnsweredInv, QuietInv, Live,
              NoResp, OneResp, Proc

(***************************************************************************)
(* A command that returns SL_OS_RET_CODE_OK to its caller has put its own  *)
(* response into the caller's buffer, for any number of threads, events    *)
(* and failures (driver.c 1736, 1757-1763).  Both hypotheses are needed: a *)
(* response later than the command timeout is taken by the next command,   *)
(* and so is the one left behind by a read that found no sync pattern,     *)
(* because the lock is given back before the restart is required.          *)
(***************************************************************************)
THEOREM OkUnlessLate ==
  ASSUME "sync" \notin Faults, "slow" \notin Faults
  PROVE  Spec => []OkMeansResponse
<1>1. IInv /\ RespInv /\ [Next]_vars => RespInv'
  BY OwnerStep, DueStep, AnsweredStep, QuietStep DEF RespInv
<1>2. RespInv => OkMeansResponse
  BY DEF RespInv, AnsweredInv, OkMeansResponse
<1>. QED BY <1>1, <1>2, InitResp, Invariance, PTL DEF Spec
===============================================================================
