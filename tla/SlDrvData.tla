------------------------------ MODULE SlDrvData ------------------------------
(***************************************************************************)
(* The data path of the SimpleLink host driver (driver.c): reading and     *)
(* writing sockets under the flow control of the NWP, and the pool of      *)
(* action objects on which a call waits for its asynchronous answer.       *)
(*                                                                         *)
(* A call that waits takes an object of the pool; calls on one socket, and *)
(* calls of one kind that have no socket, take turns on a pending list.    *)
(* Free, pending and active objects are chained through NextIndex.         *)
(* TxPoolCnt is the host's idea of the packets the NWP has free: every     *)
(* header that is read overwrites it, every data message lowers it, and    *)
(* whoever finds it too low waits on TxSyncObj holding TxLockObj.          *)
(*                                                                         *)
(* Sections under ProtectionLockObj are single steps.  How the command     *)
(* path reads the bus, and how it loses it, is SlDrvCmd's subject; here a  *)
(* command takes the global lock and a packet of the NWP, and gives the    *)
(* lock back with its response.  No handler of the repository calls a data *)
(* API, so the branches for the spawn context are left out.                *)
(***************************************************************************)
EXTENDS Integers, FiniteSets

CONSTANTS
  Thread,    \* application threads
  Sock,      \* socket identifiers
  NoSock,    \* SL_MAX_SOCKETS: the action has no socket
  None,      \* "nobody"
  Other,     \* the rest of the application, which sends commands as well
  PoolSize,  \* MAX_CONCURRENT_ACTIONS
  Calls,     \* the calls each thread makes: records of an operation and a socket
  Persist,   \* bound: the threads that go on calling once a restart is required
  Pkts,      \* packets a write may need
  TxCap,     \* packets the NWP has
  Unanswered, \* messages without a response between two headers, at most
  NonBlocking, \* sockets in non-blocking mode
  Faults     \* what may go wrong, a subset of FaultKinds

(***************************************************************************)
(* write   a message cannot be written                                     *)
(* abort   another part of the driver reports a fatal error                *)
(* prov    provisioning becomes active and data APIs are refused           *)
(* socket  a header says that the last send on the socket failed           *)
(***************************************************************************)
FaultKinds == {"write", "abort", "prov", "socket"}

(* Calls that wait for an asynchronous answer, on a socket and without one *)
SockOp  == {"recv", "accept", "connect", "close"}
PlainOp == {"dns", "select"}
Op == SockOp \cup PlainOp \cup {"send"}

(* A send waits for no answer; what has no socket passes SL_MAX_SOCKETS *)
Request == [op : SockOp \cup {"send"}, sock : Sock] \cup [op : PlainOp, sock : {NoSock}]

FLOW_CONT_MIN == 1

ASSUME NobodyAssumption == /\ None \notin Thread /\ NoSock \notin Sock
                           /\ Other \notin Thread \cup {None}
(* An action's bit is no socket's: ActionID starts at MAX_SOCKET_ENUM_IDX *)
ASSUME BitsAssumption   == Sock \cap Op = {}
ASSUME SizeAssumption   == /\ PoolSize \in Nat \ {0} /\ TxCap \in 1 .. 255
                           /\ Unanswered \in Nat
ASSUME PktsAssumption   == Pkts \subseteq 1 .. TxCap /\ 1 \in Pkts
ASSUME CallsAssumption  == Calls \in [Thread -> SUBSET Request] /\ Persist \subseteq Thread
ASSUME DataFaultsAssumption == Faults \subseteq FaultKinds

Obj  == 1 .. PoolSize
Last == PoolSize + 1      \* the index that ends a list

VARIABLES
  pc,               \* where each thread is
  call,             \* the call it is making
  obj,              \* the pool object it has, or Last
  pkts,             \* allocTxPoolPkts
  NextIndex,        \* ObjPool[].NextIndex
  FreePoolIdx, PendingPoolIdx, ActivePoolIdx,
  action,           \* ObjPool[].ActionID and AdditionalData
  ActiveActionsBitmap,
  SyncObj,          \* ObjPool[].SyncObj, given or not
  ProtectionLockObj, \* whoever returned without giving it back, or None
  TxLockObj, TxSyncObj, TxPoolCnt,
  GlobalLockObj,
  RestartRequired,  \* SL_IS_RESTART_REQUIRED
  ProvActive,       \* data APIs are refused
  nwpFree,          \* packets the NWP really has free
  untold,           \* packets commands have taken since the last header
  asked             \* requests the NWP has not answered

poolVars == <<NextIndex, FreePoolIdx, PendingPoolIdx, ActivePoolIdx, action,
              ActiveActionsBitmap, ProtectionLockObj>>
txVars   == <<TxLockObj, TxSyncObj, TxPoolCnt>>
flagVars == <<RestartRequired, ProvActive>>
nwpVars  == <<nwpFree, untold, asked>>
callVars == <<call, obj, pkts>>
vars == <<pc, callVars, poolVars, SyncObj, txVars, GlobalLockObj, flagVars, nwpVars>>

NoCall == [op |-> "send", sock |-> NoSock]

(* _SlDrvDriverCBInit *)
Init ==
  /\ pc = [t \in Thread |-> "idle"]
  /\ call = [t \in Thread |-> NoCall] /\ obj = [t \in Thread |-> Last]
  /\ pkts = [t \in Thread |-> 1]
  /\ NextIndex = [i \in Obj |-> i + 1] /\ FreePoolIdx = 1
  /\ PendingPoolIdx = Last /\ ActivePoolIdx = Last
  /\ action = [i \in Obj |-> NoCall] /\ ActiveActionsBitmap = {}
  /\ SyncObj = [i \in Obj |-> FALSE] /\ ProtectionLockObj = None
  /\ TxLockObj = None /\ TxSyncObj = FALSE /\ TxPoolCnt = FLOW_CONT_MIN
  /\ GlobalLockObj = None
  /\ RestartRequired = FALSE /\ ProvActive = FALSE
  /\ nwpFree = TxCap /\ untold = 0 /\ asked = {}

Goto(t, l) == pc' = [pc EXCEPT ![t] = l]

(* The call returns to the application, whatever it leaves behind *)
Return(t) ==
  /\ Goto(t, "idle")
  /\ obj' = [obj EXCEPT ![t] = Last]
  /\ call' = [call EXCEPT ![t] = NoCall] /\ pkts' = [pkts EXCEPT ![t] = 1]

(* _SlDrvHandleFatalError signals the objects of the pool, only the first time *)
HandleFatalError ==
  /\ RestartRequired' = TRUE
  /\ SyncObj' = IF RestartRequired THEN SyncObj ELSE [i \in Obj |-> TRUE]

-----------------------------------------------------------------------------
(* Lists of pool objects, for links "next" and the index of the first object *)

(* The objects of a list in order; one more step than there are objects *)
Walk(next, head) ==
  LET w[k \in 0 .. PoolSize] ==
        IF k = 0 THEN head
        ELSE IF w[k - 1] = Last THEN Last ELSE next[w[k - 1]]
  IN  w

Members(next, head) == {Walk(next, head)[k] : k \in 0 .. PoolSize} \ {Last}
Ends(next, head)    == Walk(next, head)[PoolSize] = Last

(* The first object of a list that is one of S, or Last *)
FirstOf(next, head, S) ==
  LET w  == Walk(next, head)
      at == {k \in 0 .. PoolSize : w[k] \in S}
  IN  IF at = {} THEN Last ELSE w[CHOOSE k \in at : \A j \in at : k <= j]

(* Mutant: an object behind the head is left in the list *)
RemovedHeadOnly(next, head, i) ==
  IF head = Last \/ next[head] = Last THEN [head |-> Last, next |-> next]
  ELSE IF head = i THEN [head |-> next[i], next |-> next]
  ELSE [head |-> head, next |-> next]

(***************************************************************************)
(* _SlDrvRemoveFromList: the head and the links without i.  A list of one  *)
(* object becomes empty whatever the object is.  (On an empty list the     *)
(* code reads beyond the pool; the list stays empty.)                      *)
(***************************************************************************)
Removed(next, head, i) ==
  IF head = Last \/ next[head] = Last THEN [head |-> Last, next |-> next]
  ELSE IF head = i THEN [head |-> next[i], next |-> next]
  ELSE LET before == FirstOf(next, head, {j \in Obj : next[j] = i})
       IN  [head |-> head,
            next |-> IF before = Last THEN next
                     ELSE [next EXCEPT ![before] = next[i]]]

(* The bit of ActiveActionsBitmap a call uses: its socket's or its action's *)
BitOf(c) == IF c.sock # NoSock THEN c.sock ELSE c.op

(* Mutant: a call on a socket does not look at the socket's bit *)
BusyActionOnly(c) == c.sock = NoSock /\ c.op # "select" /\ c.op \in ActiveActionsBitmap

(* Must a call wait for another one?  MULTI_SELECT_MASK exempts select *)
Busy(c) == BitOf(c) \in ActiveActionsBitmap /\ (c.sock = NoSock => c.op # "select")

(* May the release of an object of action a wake a waiter of action w? *)
Wakes(a, w) == /\ w.op = a.op
               /\ w.sock = NoSock \/ (a.sock # NoSock /\ w.sock = a.sock)

-----------------------------------------------------------------------------
(* Taking and releasing a pool object *)

(* An application thread makes a call; what needs no object starts with TxLockObj *)
Call(t) ==
  /\ pc[t] = "idle" /\ (RestartRequired => t \in Persist)
  /\ \E c \in Calls[t], n \in Pkts :
       /\ c.op # "send" => n = 1
       /\ call' = [call EXCEPT ![t] = c] /\ pkts' = [pkts EXCEPT ![t] = n]
       /\ Goto(t, IF c.op = "send" THEN "txlock" ELSE "getobj")
  /\ UNCHANGED <<obj, poolVars, SyncObj, txVars, GlobalLockObj, flagVars, nwpVars>>

(* The test and what follows it: to the pending list, or active *)
PendOrActivate(t, i) ==
  IF Busy(call[t])
  THEN /\ NextIndex' = [NextIndex EXCEPT ![i] = PendingPoolIdx] /\ PendingPoolIdx' = i
       /\ UNCHANGED <<ActivePoolIdx, ActiveActionsBitmap>>
       /\ Goto(t, "pend")
  ELSE /\ ActiveActionsBitmap' = ActiveActionsBitmap \cup {BitOf(call[t])}
       /\ NextIndex' = [NextIndex EXCEPT ![i] = ActivePoolIdx] /\ ActivePoolIdx' = i
       /\ UNCHANGED PendingPoolIdx
       /\ Goto(t, IF call[t].op = "recv" THEN "txlock" ELSE "cmd")

(* _SlDrvWaitForPoolObj: no free object *)
PoolIsEmpty(t) ==
  /\ pc[t] = "getobj" /\ ProtectionLockObj = None /\ FreePoolIdx = Last
  /\ Return(t)
  /\ UNCHANGED <<poolVars, SyncObj, txVars, GlobalLockObj, flagVars, nwpVars>>

(* _SlDrvWaitForPoolObj: the first free object *)
TakePoolObj(t) ==
  /\ pc[t] = "getobj" /\ ProtectionLockObj = None /\ FreePoolIdx # Last
  /\ LET i == FreePoolIdx
     IN  /\ FreePoolIdx' = NextIndex[i]
         /\ obj' = [obj EXCEPT ![t] = i]
         /\ action' = [action EXCEPT ![i] = [call[t] EXCEPT !.sock =
                         IF @ # NoSock THEN @ ELSE action[i].sock]]
         /\ PendOrActivate(t, i)
  /\ UNCHANGED <<call, pkts, SyncObj, ProtectionLockObj, txVars, GlobalLockObj,
                 flagVars, nwpVars>>

(* A pending call is signalled; the reason (released, or aborted) is ignored *)
PendWake(t) ==
  /\ pc[t] = "pend" /\ SyncObj[obj[t]]
  /\ SyncObj' = [SyncObj EXCEPT ![obj[t]] = FALSE]
  /\ Goto(t, "retest")
  /\ UNCHANGED <<callVars, poolVars, txVars, GlobalLockObj, flagVars, nwpVars>>

(* Mutant: a woken call does not look again whether its turn has come *)
RetestSkipped(t) ==
  /\ pc[t] = "retest" /\ ProtectionLockObj = None
  /\ ActiveActionsBitmap' = ActiveActionsBitmap \cup {BitOf(call[t])}
  /\ NextIndex' = [NextIndex EXCEPT ![obj[t]] = ActivePoolIdx] /\ ActivePoolIdx' = obj[t]
  /\ Goto(t, IF call[t].op = "recv" THEN "txlock" ELSE "cmd")
  /\ UNCHANGED <<callVars, FreePoolIdx, PendingPoolIdx, action, SyncObj, ProtectionLockObj,
                 txVars, GlobalLockObj, flagVars, nwpVars>>

(* ... and the loop of _SlDrvWaitForPoolObj tests again *)
Retest(t) ==
  /\ pc[t] = "retest" /\ ProtectionLockObj = None
  /\ PendOrActivate(t, obj[t])
  /\ UNCHANGED <<callVars, FreePoolIdx, action, SyncObj, ProtectionLockObj, txVars,
                 GlobalLockObj, flagVars, nwpVars>>

(* The object a release wakes, from the pending list, and that list without it *)
Waiter(i)  == FirstOf(NextIndex, PendingPoolIdx, {j \in Obj : Wakes(action[i], action[j])})
Woken(i)   == IF Waiter(i) = Last THEN [head |-> PendingPoolIdx, next |-> NextIndex]
              ELSE Removed(NextIndex, PendingPoolIdx, Waiter(i))

(* Mutant: the waiter leaves the pending list without being signalled *)
SignalNobody(i) == SyncObj

Signalled(i) == IF Waiter(i) = Last THEN SyncObj ELSE [SyncObj EXCEPT ![Waiter(i)] = TRUE]

(* The action's bit is off: somebody else's release cleared it *)
BitOff(a) == BitOf(a) \notin ActiveActionsBitmap /\ (a.sock = NoSock => a.op # "select")

(***************************************************************************)
(* _SlDrvReleasePoolObj: the first pending call that may go on is taken    *)
(* from its list and signalled, the object goes from active to free.  When *)
(* the bit is off it returns early, with ProtectionLockObj.                *)
(***************************************************************************)
ReleasePoolObj(t) ==
  /\ pc[t] = "release" /\ ProtectionLockObj = None
  /\ LET i == obj[t]  w == Woken(i)  r == Removed(w.next, ActivePoolIdx, i)
     IN  /\ Waiter(i) # Last \/ Ends(NextIndex, PendingPoolIdx)
         /\ PendingPoolIdx' = w.head
         /\ SyncObj' = Signalled(i)
         /\ IF BitOff(action[i])
            THEN /\ ProtectionLockObj' = t /\ NextIndex' = w.next
                 /\ UNCHANGED <<FreePoolIdx, ActivePoolIdx, action, ActiveActionsBitmap>>
            ELSE /\ ActiveActionsBitmap' = ActiveActionsBitmap \ {BitOf(action[i])}
                 /\ action' = [action EXCEPT ![i] = NoCall]
                 /\ ActivePoolIdx' = r.head
                 /\ NextIndex' = [r.next EXCEPT ![i] = FreePoolIdx] /\ FreePoolIdx' = i
                 /\ UNCHANGED ProtectionLockObj
  /\ Return(t)
  /\ UNCHANGED <<txVars, GlobalLockObj, flagVars, nwpVars>>

(* ... on a pending list with a cycle and nobody to wake it never ends *)
ReleaseSpins(t) ==
  /\ pc[t] = "release" /\ ProtectionLockObj = None
  /\ Waiter(obj[t]) = Last /\ ~Ends(NextIndex, PendingPoolIdx)
  /\ ProtectionLockObj' = t /\ Goto(t, "spin")
  /\ UNCHANGED <<callVars, NextIndex, FreePoolIdx, PendingPoolIdx, ActivePoolIdx, action,
                 ActiveActionsBitmap, SyncObj, txVars, GlobalLockObj, flagVars, nwpVars>>

-----------------------------------------------------------------------------
(* Flow control: _SlDrvDataReadOp and _SlDrvDataWriteOp *)

(* What must remain in TxPoolCnt for the call, commands' packet included *)
Need(t) == FLOW_CONT_MIN + (IF call[t].op = "send" THEN pkts[t] ELSE 0)
Low(t)  == TxPoolCnt <= Need(t)

(* The lock, then TxSyncObj is cleared for the case it was signalled before *)
TxLock(t) ==
  /\ pc[t] = "txlock" /\ TxLockObj = None
  /\ TxLockObj' = t /\ TxSyncObj' = FALSE
  /\ Goto(t, "txcheck")
  /\ UNCHANGED <<callVars, poolVars, SyncObj, TxPoolCnt, GlobalLockObj, flagVars, nwpVars>>

(* Enough packets, or wait for them with the lock held *)
TxCheck(t) ==
  /\ pc[t] = "txcheck"
  /\ ~(Low(t) /\ call[t].op = "send" /\ call[t].sock \in NonBlocking)
  /\ Goto(t, IF Low(t) THEN "flow" ELSE "glock")
  /\ UNCHANGED <<callVars, poolVars, SyncObj, txVars, GlobalLockObj, flagVars, nwpVars>>

(* Mutant: the early returns of a send keep the lock *)
SendGivesUpKeepsLock(t) ==
  /\ pc[t] = "txcheck" /\ call[t].op = "send"
  /\ "socket" \in Faults \/ (Low(t) /\ call[t].sock \in NonBlocking)
  /\ Return(t)
  /\ UNCHANGED <<poolVars, SyncObj, txVars, GlobalLockObj, flagVars, nwpVars>>

(* A send that may not block, or whose socket has failed, gives up *)
SendGivesUp(t) ==
  /\ pc[t] = "txcheck" /\ call[t].op = "send"
  /\ "socket" \in Faults \/ (Low(t) /\ call[t].sock \in NonBlocking)
  /\ TxLockObj' = None
  /\ Return(t)
  /\ UNCHANGED <<poolVars, SyncObj, TxSyncObj, TxPoolCnt, GlobalLockObj, flagVars, nwpVars>>

(* TxSyncObj was signalled; a send looks again and starts over when it must *)
FlowWake(t) ==
  /\ pc[t] = "flow" /\ TxSyncObj /\ ~RestartRequired
  /\ TxSyncObj' = FALSE
  /\ IF call[t].op = "send" /\ Low(t)
     THEN TxLockObj' = None /\ Goto(t, "txlock")
     ELSE UNCHANGED TxLockObj /\ Goto(t, "glock")
  /\ UNCHANGED <<callVars, poolVars, SyncObj, TxPoolCnt, GlobalLockObj, flagVars, nwpVars>>

(* ... after a fatal error: it returns with TxLockObj and the pool object *)
FlowAborted(t) ==
  /\ pc[t] = "flow" /\ TxSyncObj /\ RestartRequired
  /\ TxSyncObj' = FALSE
  /\ Return(t)
  /\ UNCHANGED <<poolVars, SyncObj, TxLockObj, TxPoolCnt, GlobalLockObj, flagVars, nwpVars>>

(* The bounded wait ends after SL_DRIVER_TIMEOUT_SHORT, again with both.  The
   time the NWP takes is not modelled: the timeout may come first. *)
FlowTimeout(t) ==
  /\ pc[t] = "flow" /\ ~TxSyncObj
  /\ HandleFatalError
  /\ Return(t)
  /\ UNCHANGED <<poolVars, txVars, GlobalLockObj, ProvActive, nwpVars>>

(* Entry of the lock macro: with a restart required it returns from the call *)
LockTest(t) ==
  /\ pc[t] = "glock"
  /\ IF RestartRequired THEN Return(t) ELSE Goto(t, "gwait") /\ UNCHANGED callVars
  /\ UNCHANGED <<poolVars, SyncObj, txVars, GlobalLockObj, flagVars, nwpVars>>

(* _SlDrvDriverIsApiAllowed refuses a data API *)
Refused == RestartRequired \/ ProvActive

(* The lock is given back, TxLockObj is not *)
LockRefused(t) ==
  /\ pc[t] = "gwait" /\ GlobalLockObj = None /\ Refused
  /\ Return(t)
  /\ UNCHANGED <<poolVars, SyncObj, txVars, GlobalLockObj, flagVars, nwpVars>>

(* VERIFY_PROTOCOL: commands took the packets meanwhile; both locks are kept *)
LockShort(t) ==
  /\ pc[t] = "gwait" /\ GlobalLockObj = None /\ ~Refused
  /\ TxPoolCnt <= Need(t) - 1
  /\ GlobalLockObj' = t
  /\ HandleFatalError
  /\ Return(t)
  /\ UNCHANGED <<poolVars, txVars, ProvActive, nwpVars>>

(* Mutant: the count is not verified again under the lock (and signed) *)
LockAcquireUnverified(t) ==
  /\ pc[t] = "gwait" /\ GlobalLockObj = None /\ ~Refused
  /\ GlobalLockObj' = t
  /\ TxPoolCnt' = TxPoolCnt - pkts[t]
  /\ TxLockObj' = None
  /\ Goto(t, "write")
  /\ UNCHANGED <<callVars, poolVars, SyncObj, TxSyncObj, flagVars, nwpVars>>

(* The packets are taken and TxLockObj is given back *)
LockAcquire(t) ==
  /\ pc[t] = "gwait" /\ GlobalLockObj = None /\ ~Refused
  /\ TxPoolCnt > Need(t) - 1
  /\ GlobalLockObj' = t
  /\ TxPoolCnt' = (TxPoolCnt - pkts[t]) % 256
  /\ TxLockObj' = None
  /\ Goto(t, "write")
  /\ UNCHANGED <<callVars, poolVars, SyncObj, TxSyncObj, flagVars, nwpVars>>

(* The NWP takes n packets for a message, or all it has left *)
Left(n) == IF n <= nwpFree THEN nwpFree - n ELSE 0

(* _SlDrvMsgWrite, then the global lock is given back *)
Write(t) ==
  /\ pc[t] = "write"
  /\ nwpFree' = Left(pkts[t])
  /\ GlobalLockObj' = None
  /\ IF call[t].op = "recv"
     THEN asked' = asked \cup {obj[t]} /\ Goto(t, "await") /\ UNCHANGED callVars
     ELSE Return(t) /\ UNCHANGED asked
  /\ UNCHANGED <<poolVars, SyncObj, txVars, flagVars, untold>>

WriteFails(t) ==
  /\ pc[t] = "write" /\ "write" \in Faults
  /\ HandleFatalError
  /\ GlobalLockObj' = None
  /\ IF call[t].op = "recv" THEN Goto(t, "release") /\ UNCHANGED callVars ELSE Return(t)
  /\ UNCHANGED <<poolVars, txVars, ProvActive, nwpVars>>

-----------------------------------------------------------------------------
(* Waiting for the answer *)

(* Mutant: waiters are told one packet too late *)
HeaderSignalsLate ==
  /\ TxPoolCnt' = nwpFree /\ untold' = 0
  /\ TxSyncObj' = (TxSyncObj \/ nwpFree > FLOW_CONT_MIN + 1)
  /\ UNCHANGED TxLockObj

(***************************************************************************)
(* _SlDrvMsgRead takes the number of free packets from the header.  The    *)
(* NWP is taken to put in the number it has when the header is read.       *)
(***************************************************************************)
Header ==
  /\ TxPoolCnt' = nwpFree /\ untold' = 0
  /\ TxSyncObj' = (TxSyncObj \/ nwpFree > FLOW_CONT_MIN)
  /\ UNCHANGED TxLockObj

(* The NWP takes a packet for a command, of which TxPoolCnt knows nothing *)
CommandWritten == nwpFree' = Left(1) /\ untold' = untold + 1

(* _SlDrvCmdOp for a call without data is refused *)
CmdRefused(t) ==
  /\ pc[t] = "cmd" /\ Refused /\ (RestartRequired \/ GlobalLockObj = None)
  /\ Goto(t, "release")
  /\ UNCHANGED <<callVars, poolVars, SyncObj, txVars, GlobalLockObj, flagVars, nwpVars>>

(* ... or written; the lock is kept until its response has been read *)
Cmd(t) ==
  /\ pc[t] = "cmd" /\ GlobalLockObj = None /\ ~Refused
  /\ GlobalLockObj' = t
  /\ CommandWritten
  /\ Goto(t, "resp")
  /\ UNCHANGED <<callVars, poolVars, SyncObj, txVars, flagVars, asked>>

CmdFails(t) ==
  /\ pc[t] = "cmd" /\ GlobalLockObj = None /\ ~Refused /\ "write" \in Faults
  /\ HandleFatalError
  /\ Goto(t, "release")
  /\ UNCHANGED <<callVars, poolVars, txVars, GlobalLockObj, ProvActive, nwpVars>>

(* The response: the NWP takes the request on, or reports that it will not *)
CmdResponse(t) ==
  /\ pc[t] = "resp" /\ ~RestartRequired
  /\ Header
  /\ GlobalLockObj' = None
  /\ \/ asked' = asked \cup {obj[t]} /\ Goto(t, "await")
     \/ Goto(t, "release") /\ UNCHANGED asked
  /\ UNCHANGED <<callVars, poolVars, SyncObj, flagVars, nwpFree>>

(* _SlDrvMsgReadCmdCtx gives up because of a fatal error *)
CmdAborted(t) ==
  /\ pc[t] = "resp" /\ RestartRequired
  /\ GlobalLockObj' = None
  /\ Goto(t, "release")
  /\ UNCHANGED <<callVars, poolVars, SyncObj, txVars, flagVars, nwpVars>>

(* _SlDrvWaitForInternalAsyncEvent: signalled by an answer or a fatal error *)
Await(t) ==
  /\ pc[t] = "await" /\ SyncObj[obj[t]]
  /\ SyncObj' = [SyncObj EXCEPT ![obj[t]] = FALSE]
  /\ Goto(t, "release")
  /\ UNCHANGED <<callVars, poolVars, txVars, GlobalLockObj, flagVars, nwpVars>>

(* ... on a non-blocking socket it waits for SL_DRIVER_TIMEOUT_SHORT only *)
AwaitTimeout(t) ==
  /\ pc[t] = "await" /\ ~SyncObj[obj[t]] /\ call[t].op = "recv" /\ call[t].sock \in NonBlocking
  /\ HandleFatalError
  /\ Goto(t, "release")
  /\ UNCHANGED <<callVars, poolVars, txVars, GlobalLockObj, ProvActive, nwpVars>>

-----------------------------------------------------------------------------
(* The NWP, the reader of its messages and other threads' commands *)

(* The spawn task reads while the lock is free, a command while it waits *)
CanRead == /\ GlobalLockObj \in {None, Other} \cup {t \in Thread : pc[t] = "resp"}
           /\ ~RestartRequired

(* An event, such as the one that tells of free packets *)
ReadEvent ==
  /\ CanRead
  /\ Header
  /\ UNCHANGED <<pc, callVars, poolVars, SyncObj, GlobalLockObj, flagVars, nwpFree, asked>>

(* _SlDrvCmdOp elsewhere: its packet is taken, the count is not refreshed yet *)
OtherCommand ==
  /\ GlobalLockObj = None /\ ~RestartRequired
  /\ GlobalLockObj' = Other
  /\ CommandWritten
  /\ UNCHANGED <<pc, callVars, poolVars, SyncObj, txVars, flagVars, asked>>

(* ... until the header of its response *)
OtherResponse ==
  /\ GlobalLockObj = Other /\ ~RestartRequired
  /\ Header
  /\ GlobalLockObj' = None
  /\ UNCHANGED <<pc, callVars, poolVars, SyncObj, flagVars, nwpFree, asked>>

OtherAborted ==
  /\ GlobalLockObj = Other /\ RestartRequired
  /\ GlobalLockObj' = None
  /\ UNCHANGED <<pc, callVars, poolVars, SyncObj, txVars, flagVars, nwpVars>>

(***************************************************************************)
(* _SlDrvCmdSend elsewhere: a message that gets no response, so no header  *)
(* tells of its packet.  It asks neither whether a restart is required nor *)
(* how many packets are left.  Unanswered bounds how many are sent before  *)
(* the next header.                                                        *)
(***************************************************************************)
OtherCmdSend ==
  /\ GlobalLockObj = None /\ untold < Unanswered
  /\ CommandWritten
  /\ UNCHANGED <<pc, callVars, poolVars, SyncObj, txVars, GlobalLockObj, flagVars, asked>>

(***************************************************************************)
(* _SlDrvFindAndSetActiveObj: the first active object with the action and  *)
(* the socket of an answer, or Last.  For select that is any select.       *)
(***************************************************************************)
ActiveFor(i) ==
  FirstOf(NextIndex, ActivePoolIdx,
          {j \in Obj : action[j].op = action[i].op /\ action[j].sock = action[i].sock})

(***************************************************************************)
(* Whom the handler of the answer signals: the object that was found; of   *)
(* several selects _SlSocketHandleAsync_Select (external) picks its caller.*)
(***************************************************************************)
Answered(i) == IF action[i].op = "select" /\ ActiveFor(i) # Last THEN i ELSE ActiveFor(i)

(* The answer to request i is read and handed to whoever waits for it *)
ReadAnswer ==
  /\ CanRead /\ ProtectionLockObj = None
  /\ \E i \in asked :
       /\ asked' = asked \ {i}
       /\ SyncObj' = IF Answered(i) = Last THEN SyncObj
                     ELSE [SyncObj EXCEPT ![Answered(i)] = TRUE]
  /\ Header
  /\ UNCHANGED <<pc, callVars, poolVars, GlobalLockObj, flagVars, nwpFree>>

(* A packet has been sent over the air *)
Drain ==
  /\ nwpFree < TxCap
  /\ nwpFree' = nwpFree + 1
  /\ UNCHANGED <<pc, callVars, poolVars, SyncObj, txVars, GlobalLockObj, flagVars, untold, asked>>

AbortElsewhere ==
  /\ "abort" \in Faults /\ ~RestartRequired
  /\ HandleFatalError
  /\ UNCHANGED <<pc, callVars, poolVars, txVars, GlobalLockObj, ProvActive, nwpVars>>

(* Provisioning starts; it lasts for the rest of the behaviour *)
ProvStart ==
  /\ "prov" \in Faults /\ ~ProvActive
  /\ ProvActive' = TRUE
  /\ UNCHANGED <<pc, callVars, poolVars, SyncObj, txVars, GlobalLockObj, RestartRequired, nwpVars>>

-----------------------------------------------------------------------------
ThreadStep(t) ==
  \/ PoolIsEmpty(t) \/ TakePoolObj(t) \/ PendWake(t) \/ Retest(t)
  \/ ReleasePoolObj(t) \/ ReleaseSpins(t)
  \/ TxCheck(t) \/ SendGivesUp(t) \/ FlowWake(t) \/ FlowAborted(t) \/ FlowTimeout(t)
  \/ LockTest(t) \/ Write(t) \/ WriteFails(t) \/ CmdResponse(t) \/ CmdAborted(t)
  \/ Await(t) \/ AwaitTimeout(t)

GetGlobal(t) ==
  \/ LockRefused(t) \/ LockShort(t) \/ LockAcquire(t)
  \/ CmdRefused(t) \/ Cmd(t) \/ CmdFails(t)

OtherEnds == OtherResponse \/ OtherAborted

NwpStep == ReadEvent \/ OtherCommand \/ OtherEnds \/ OtherCmdSend \/ ReadAnswer \/ Drain

Next ==
  \/ \E t \in Thread : Call(t) \/ ThreadStep(t) \/ TxLock(t) \/ GetGlobal(t)
  \/ NwpStep \/ AbortElsewhere \/ ProvStart

Spec == Init /\ [][Next]_vars

(***************************************************************************)
(* Threads run, mutexes serve their waiters in turn.  A live NWP answers,  *)
(* sends its packets and tells when it has more than the host believes.    *)
(***************************************************************************)
Fairness ==
  /\ \A t \in Thread : /\ WF_vars(ThreadStep(t))
                       /\ SF_vars(TxLock(t)) /\ SF_vars(GetGlobal(t))
  /\ WF_vars(Drain) /\ WF_vars(OtherEnds)
  /\ SF_vars(ReadAnswer)
  /\ SF_vars(nwpFree > TxPoolCnt /\ ReadEvent)

FairSpec == Spec /\ Fairness

-----------------------------------------------------------------------------
Pc == {"idle", "getobj", "pend", "retest", "txlock", "txcheck", "flow", "glock", "gwait",
       "write", "cmd", "resp", "await", "release", "spin"}
Action == [op : Op, sock : Sock \cup {NoSock}]

(* Type invariant: indexes stay in the pool, TxPoolCnt within its byte *)
TypeOK ==
  /\ pc \in [Thread -> Pc] /\ call \in [Thread -> Action]
  /\ obj \in [Thread -> Obj \cup {Last}] /\ pkts \in [Thread -> Nat \ {0}]
  /\ NextIndex \in [Obj -> Obj \cup {Last}]
  /\ {FreePoolIdx, PendingPoolIdx, ActivePoolIdx} \subseteq Obj \cup {Last}
  /\ action \in [Obj -> Action] /\ ActiveActionsBitmap \subseteq Sock \cup Op
  /\ SyncObj \in [Obj -> BOOLEAN] /\ ProtectionLockObj \in Thread \cup {None}
  /\ TxLockObj \in Thread \cup {None} /\ TxSyncObj \in BOOLEAN /\ TxPoolCnt \in 0 .. 255
  /\ GlobalLockObj \in Thread \cup {None, Other}
  /\ RestartRequired \in BOOLEAN /\ ProvActive \in BOOLEAN
  /\ nwpFree \in 0 .. TxCap /\ untold \in 0 .. Unanswered + 1 /\ asked \subseteq Obj

(* Where a thread has an active object *)
Using == {"cmd", "resp", "await", "release"} \cup {"txlock", "txcheck", "flow", "glock", "gwait", "write"}
HasActive(t) == pc[t] \in Using /\ call[t].op # "send"

(* Until something goes wrong, or provisioning makes calls return early *)
Normal == ~RestartRequired /\ ~ProvActive

(***************************************************************************)
(* Until a restart is required the three lists are proper and disjoint.    *)
(* Pending are just the calls that wait unsignalled, free just what no call*)
(* has; active are the objects of the active calls, and what a call that   *)
(* provisioning refused has left there for good.  The bitmap has no bit    *)
(* without an active object.  This is what _SlDrvWaitForPoolObj,           *)
(* _SlDrvReleasePoolObj and _SlDrvRemoveFromList keep up between them over *)
(* the one link NextIndex.                                                 *)
(***************************************************************************)
PoolSound ==
  ~RestartRequired =>
    LET held   == {obj[t] : t \in Thread}
        using  == {obj[t] : t \in {u \in Thread : HasActive(u)}}
        active == Members(NextIndex, ActivePoolIdx)
    IN  /\ \A h \in {FreePoolIdx, PendingPoolIdx, ActivePoolIdx} : Ends(NextIndex, h)
        /\ Members(NextIndex, PendingPoolIdx) =
             {obj[t] : t \in {u \in Thread : pc[u] = "pend" /\ ~SyncObj[obj[u]]}}
        /\ active \cap held = using \cap Obj /\ (~ProvActive => active \subseteq held)
        /\ Members(NextIndex, FreePoolIdx) = Obj \ (active \cup held)
        /\ ActiveActionsBitmap \subseteq {BitOf(action[i]) : i \in active}
        /\ ProtectionLockObj = None

(* Two calls on one socket, whatever they do, or of one kind without a socket, take turns *)
TakeTurns ==
  ~RestartRequired => \A t, u \in Thread :
    (HasActive(t) /\ HasActive(u) /\ BitOf(call[t]) = BitOf(call[u])
       /\ call[t].op # "select") => t = u

(* Another call with the bit t waits for is active, or was signalled and will be *)
HasFellow(t) ==
  \E u \in Thread \ {t} :
    /\ BitOf(call[u]) = BitOf(call[t])
    /\ HasActive(u) \/ pc[u] = "retest" \/ (pc[u] = "pend" /\ SyncObj[obj[u]])

Waits(t) == pc[t] = "pend" /\ ~SyncObj[obj[t]]

(***************************************************************************)
(* A pending call nobody has signalled waits for somebody: the release is  *)
(* to "go over the pending list and release other pending action if        *)
(* needed" (driver.c 2453).                                                *)
(***************************************************************************)
NoLostWaiter == Normal => \A t \in Thread : Waits(t) => HasFellow(t)

(* What all threads together do on socket s and wait for *)
KindsOn(s) == {op \in SockOp : \E t \in Thread : [op |-> op, sock |-> s] \in Calls[t]}

(***************************************************************************)
(* That much is true of calls without a socket, and of a socket on which   *)
(* all calls that wait are of one kind: the search of the pending list in  *)
(* _SlDrvReleasePoolObj wakes its own ActionID only (2459), while the bit  *)
(* is the socket's (2376).                                                 *)
(***************************************************************************)
KindServed ==
  Normal => \A t \in Thread :
    (Waits(t) /\ (call[t].sock # NoSock => KindsOn(call[t].sock) = {call[t].op})) => HasFellow(t)

(***************************************************************************)
(* The search of the active list for an answer finds an object, and, but   *)
(* for select, that of the call that asked: _SlDrvFindAndSetActiveObj.     *)
(***************************************************************************)
AnswerGoesHome ==
  ~RestartRequired => \A i \in asked :
    ActiveFor(i) # Last /\ (action[i].op # "select" => ActiveFor(i) = i)

(***************************************************************************)
(* TxLockObj is with a thread that is between its lock and its unlock,     *)
(* unless a call returned with it because of a restart or of provisioning. *)
(***************************************************************************)
TxLockAccounted ==
  \/ TxLockObj = None \/ ~Normal
  \/ TxLockObj \in {t \in Thread : pc[t] \in {"txcheck", "flow", "glock", "gwait"}}

(* What the checks under the lock leave in the pool: a send a packet, a recv nothing *)
Reserve(c) == IF c.op = "send" THEN FLOW_CONT_MIN ELSE 0

(***************************************************************************)
(* The NWP has room for a data message that is about to be written, and    *)
(* for Reserve more, unless messages no header has told of took it: no     *)
(* command between the check (934, 1045), the verification (984, 1114) and *)
(* the write takes more.  So with nothing untold there is room, and a send *)
(* has room even if one message without a response went before it.         *)
(***************************************************************************)
TxWithinNwp ==
  \A t \in Thread : pc[t] = "write" => pkts[t] + Reserve(call[t]) <= nwpFree + untold

(***************************************************************************)
(* Whoever waits for packets with no signal due has reason to: no header   *)
(* that told of enough was missed between the clear, the test and the wait *)
(* of TxSyncObj (929-963), which would cost a fatal error ten seconds on.  *)
(***************************************************************************)
FlowSignalled == \A t \in Thread : (pc[t] = "flow" /\ ~TxSyncObj) => Low(t)

(***************************************************************************)
(* A send returns, also when the NWP stalls, as the bounded wait was meant *)
(* to ensure: "prevents permanent WiFi deadlock" (README.md:42).           *)
(***************************************************************************)
SendReturns == \A t \in Thread : pc[t] # "idle" ~> pc[t] = "idle"
=============================================================================
