-------------------------- MODULE SlDrvData_proofs --------------------------
(***************************************************************************)
(* The flow control of SlDrvData for every number of threads, sockets and  *)
(* packets: whoever writes has room for what it writes, no signal for more *)
(* packets is missed, and TxLockObj is given back while nothing goes wrong.*)
(* The pool of action objects needs no part in it.                         *)
(***************************************************************************)
EXTENDS SlDrvData, TLAPS

(* Where a thread has TxLockObj *)
TxPc == {"txcheck", "flow", "glock", "gwait"}

FlowTypes ==
  /\ pc \in [Thread -> Pc] /\ call \in [Thread -> Action]
  /\ pkts \in [Thread -> Nat \ {0}]
  /\ TxLockObj \in Thread \cup {None} /\ TxSyncObj \in BOOLEAN
  /\ TxPoolCnt \in 0 .. 255 /\ nwpFree \in 0 .. TxCap /\ untold \in 0 .. Unanswered + 1
  /\ GlobalLockObj \in Thread \cup {None, Other}
  /\ RestartRequired \in BOOLEAN /\ ProvActive \in BOOLEAN

(* A call without data to send takes one packet, as the code subtracts one *)
OnePacket == \A t \in Thread : call[t].op # "send" => pkts[t] = 1

(* Where it has the global lock *)
BusPc == {"write", "resp"}

(* Both locks are with whoever is between its lock and its unlock *)
Owners ==
  \A t \in Thread : /\ pc[t] \in TxPc => TxLockObj = t
                    /\ pc[t] \in BusPc => GlobalLockObj = t

(***************************************************************************)
(* The count is too high by no more than no header has told of; the        *)
(* packets of the write under way are taken from it already, and what the  *)
(* verification under the lock left is still there.                        *)
(***************************************************************************)
Room ==
  /\ TxPoolCnt <= nwpFree + untold
  /\ \A t \in Thread : pc[t] = "write" =>
       TxPoolCnt + pkts[t] <= nwpFree + untold /\ Reserve(call[t]) <= TxPoolCnt

(* Only a command that waits for its response, or did so in vain, exceeds the bound *)
Quota ==
  untold <= Unanswered \/ RestartRequired \/ GlobalLockObj = Other
    \/ \E t \in Thread : pc[t] = "resp"

FlowInv == FlowTypes /\ OnePacket /\ Owners /\ Room /\ Quota /\ TxLockAccounted /\ FlowSignalled

-----------------------------------------------------------------------------
LEMMA NoCallType == NoCall \in Action
BY DEF NoCall, Action, Op

LEMMA CountType == Unanswered \in Nat /\ TxCap \in 1 .. 255 /\ FLOW_CONT_MIN = 1
BY SizeAssumption DEF FLOW_CONT_MIN

LEMMA FlowInit == Init => FlowInv
<1> SUFFICES ASSUME Init PROVE FlowInv
  OBVIOUS
<1> USE DEF Init
<1>1. FlowTypes
  <2>1. call \in [Thread -> Action]
    BY NoCallType
  <2>2. TxPoolCnt \in 0 .. 255 /\ nwpFree \in 0 .. TxCap /\ untold \in 0 .. Unanswered + 1
    BY CountType
  <2>3. pc \in [Thread -> Pc] /\ pkts \in [Thread -> Nat \ {0}]
    BY DEF Pc
  <2>4. TxLockObj = None /\ GlobalLockObj = None /\ TxSyncObj = FALSE
        /\ RestartRequired = FALSE /\ ProvActive = FALSE
    OBVIOUS
  <2> QED BY <2>1, <2>2, <2>3, <2>4 DEF FlowTypes
<1>2. OnePacket /\ Owners /\ Room /\ Quota
  BY CountType DEF OnePacket, Owners, Room, Quota, TxPc, BusPc, NoCall
<1>3. TxLockAccounted /\ FlowSignalled
  BY DEF TxLockAccounted, FlowSignalled
<1> QED BY <1>1, <1>2, <1>3 DEF FlowInv

(* The end of a call, or a step of it *)
SameCall   == UNCHANGED <<call, pkts>>
EndCall(t) == /\ call' = [call EXCEPT ![t] = NoCall]
              /\ pkts' = [pkts EXCEPT ![t] = 1]

Flagged == /\ RestartRequired' \in {RestartRequired, TRUE}
           /\ UNCHANGED ProvActive

LEMMA CallStep ==
  ASSUME FlowTypes, OnePacket, NEW t \in Thread, NEW l \in Pc,
         Goto(t, l), SameCall \/ EndCall(t)
  PROVE  /\ pc' \in [Thread -> Pc] /\ call' \in [Thread -> Action]
         /\ pkts' \in [Thread -> Nat \ {0}] /\ OnePacket'
<1>1. call' \in [Thread -> Action]
  BY NoCallType DEF FlowTypes, SameCall, EndCall
<1>2. pkts' \in [Thread -> Nat \ {0}] /\ pc' \in [Thread -> Pc]
  BY DEF FlowTypes, SameCall, EndCall, Goto
<1>3. OnePacket'
  <2> SUFFICES ASSUME NEW u \in Thread, call'[u].op # "send" PROVE pkts'[u] = 1
    BY DEF OnePacket
  <2> QED BY DEF FlowTypes, OnePacket, NoCall, SameCall, EndCall
<1> QED BY <1>1, <1>2, <1>3

(* A step of the pool, or of the wait for an answer, leaves flow control alone *)
LEMMA ElsewhereStep ==
  ASSUME FlowInv, NEW t \in Thread, NEW l \in Pc \ (TxPc \cup BusPc),
         pc[t] \notin TxPc, pc[t] \notin BusPc,
         Goto(t, l), SameCall \/ EndCall(t), Flagged,
         UNCHANGED <<txVars, GlobalLockObj, nwpFree, untold>>
  PROVE  FlowInv'
<1> USE DEF FlowInv, Goto, SameCall, EndCall, Flagged, txVars
<1>1. FlowTypes' /\ OnePacket'
  BY CallStep DEF FlowTypes
<1>2. Owners' /\ Room' /\ Quota'
  BY DEF FlowTypes, Owners, Room, Quota, BusPc
<1>3. TxLockAccounted'
  BY DEF FlowTypes, TxLockAccounted, Normal, TxPc
<1>4. FlowSignalled'
  BY DEF FlowTypes, FlowSignalled, Low, Need, TxPc
<1> QED BY <1>1, <1>2, <1>3, <1>4

(***************************************************************************)
(* A return with TxLockObj, or with the global lock: only with a restart   *)
(* required, or while provisioning refuses the call.                       *)
(***************************************************************************)
LEMMA LeakStep ==
  ASSUME FlowInv, NEW t \in Thread, pc[t] \in TxPc,
         Goto(t, "idle"), EndCall(t), Flagged, ~Normal',
         UNCHANGED <<TxLockObj, TxPoolCnt, nwpFree, untold>>,
         TxSyncObj' = TxSyncObj \/ (pc[t] = "flow" /\ TxSyncObj' \in BOOLEAN),
         GlobalLockObj' = GlobalLockObj \/ (GlobalLockObj = None /\ GlobalLockObj' = t)
  PROVE  FlowInv'
<1> USE DEF FlowInv, Goto, EndCall, Flagged
<1>1. FlowTypes' /\ OnePacket'
  BY CallStep DEF FlowTypes, Pc
<1>2. Owners' /\ Room' /\ Quota'
  BY NobodyAssumption DEF FlowTypes, Owners, Room, Quota, TxPc, BusPc
<1>3. TxLockAccounted'
  BY DEF TxLockAccounted
<1>4. FlowSignalled'
  BY DEF FlowTypes, Owners, FlowSignalled, Low, Need, TxPc
<1> QED BY <1>1, <1>2, <1>3, <1>4

(* A step of the holder of TxLockObj, or of its acquisition *)
LEMMA TxLockStep == ASSUME FlowInv, NEW t \in Thread, TxLock(t) PROVE FlowInv'
<1> USE DEF FlowInv, TxLock, Goto, callVars, flagVars, nwpVars
<1>1. FlowTypes' /\ OnePacket'
  BY CallStep DEF FlowTypes, SameCall, Pc
<1>2. Owners' /\ Room' /\ Quota'
  BY NobodyAssumption DEF FlowTypes, Owners, Room, Quota, TxPc, BusPc
<1>3. TxLockAccounted'
  BY DEF FlowTypes, TxLockAccounted
<1>4. FlowSignalled'
  BY NobodyAssumption DEF FlowTypes, Owners, FlowSignalled, TxPc
<1> QED BY <1>1, <1>2, <1>3, <1>4

LEMMA TxCheckStep == ASSUME FlowInv, NEW t \in Thread, TxCheck(t) PROVE FlowInv'
<1> USE DEF FlowInv, TxCheck, Goto, callVars, txVars, flagVars, nwpVars
<1>1. FlowTypes' /\ OnePacket'
  BY CallStep DEF FlowTypes, SameCall, Pc
<1>2. Owners' /\ Room' /\ Quota'
  BY DEF FlowTypes, Owners, Room, Quota, TxPc, BusPc
<1>3. TxLockAccounted'
  BY DEF FlowTypes, TxLockAccounted, Normal
<1>4. FlowSignalled'
  BY DEF FlowTypes, FlowSignalled, Low, Need
<1> QED BY <1>1, <1>2, <1>3, <1>4

LEMMA SendGivesUpStep == ASSUME FlowInv, NEW t \in Thread, SendGivesUp(t) PROVE FlowInv'
<1> USE DEF FlowInv, SendGivesUp, Return, Goto, flagVars, nwpVars
<1>1. FlowTypes' /\ OnePacket'
  BY CallStep DEF FlowTypes, EndCall, Pc
<1>2. Owners' /\ Room' /\ Quota'
  BY NobodyAssumption DEF FlowTypes, Owners, Room, Quota, TxPc, BusPc
<1>3. TxLockAccounted'
  BY DEF TxLockAccounted
<1>4. FlowSignalled'
  BY DEF FlowTypes, FlowSignalled, Low, Need
<1> QED BY <1>1, <1>2, <1>3, <1>4

LEMMA FlowWakeStep == ASSUME FlowInv, NEW t \in Thread, FlowWake(t) PROVE FlowInv'
<1> USE DEF FlowInv, FlowWake, Goto, callVars, flagVars, nwpVars
<1>1. FlowTypes' /\ OnePacket'
  BY CallStep DEF FlowTypes, SameCall, Pc
<1>2. Owners' /\ Room' /\ Quota'
  BY DEF FlowTypes, Owners, Room, Quota, TxPc, BusPc
<1>3. TxLockAccounted'
  BY DEF FlowTypes, TxLockAccounted, Normal
<1>4. FlowSignalled'
  BY DEF FlowTypes, Owners, FlowSignalled, TxPc
<1> QED BY <1>1, <1>2, <1>3, <1>4

LEMMA FlowEndStep ==
  ASSUME FlowInv, NEW t \in Thread, FlowAborted(t) \/ FlowTimeout(t)
  PROVE  FlowInv'
<1>1. pc[t] \in TxPc /\ Goto(t, "idle") /\ EndCall(t) /\ Flagged /\ ~Normal'
  BY DEF FlowAborted, FlowTimeout, HandleFatalError, Return, EndCall, Flagged, Normal,
         flagVars, TxPc, FlowInv, FlowTypes
<1>2. UNCHANGED <<TxLockObj, TxPoolCnt, nwpFree, untold, GlobalLockObj>>
      /\ (TxSyncObj' = TxSyncObj \/ (pc[t] = "flow" /\ TxSyncObj' \in BOOLEAN))
  BY DEF FlowAborted, FlowTimeout, txVars, nwpVars
<1> QED BY <1>1, <1>2, LeakStep

-----------------------------------------------------------------------------
(* The global lock *)

LEMMA ByteDifference ==
  ASSUME NEW c \in 0 .. 255, NEW p \in Nat \ {0}, p <= c
  PROVE  (c - p) % 256 = c - p /\ c - p \in 0 .. 255
OBVIOUS

LEMMA LockTestStep == ASSUME FlowInv, NEW t \in Thread, LockTest(t) PROVE FlowInv'
<1>1. CASE RestartRequired
  <2>1. pc[t] \in TxPc /\ Goto(t, "idle") /\ EndCall(t) /\ Flagged /\ ~Normal'
    BY <1>1 DEF LockTest, Return, EndCall, Flagged, Normal, flagVars, TxPc
  <2>2. UNCHANGED <<TxLockObj, TxSyncObj, TxPoolCnt, nwpFree, untold, GlobalLockObj>>
    BY DEF LockTest, txVars, nwpVars
  <2> QED BY <2>1, <2>2, LeakStep
<1>2. CASE ~RestartRequired
  <2> USE <1>2 DEF FlowInv, LockTest, Goto, callVars, txVars, flagVars, nwpVars
  <2>1. FlowTypes' /\ OnePacket'
    BY CallStep DEF FlowTypes, SameCall, Pc
  <2>2. Owners' /\ Room' /\ Quota'
    BY DEF FlowTypes, Owners, Room, Quota, TxPc, BusPc
  <2>3. TxLockAccounted'
    BY DEF FlowTypes, TxLockAccounted, Normal
  <2>4. FlowSignalled'
    BY DEF FlowTypes, FlowSignalled, Low, Need
  <2> QED BY <2>1, <2>2, <2>3, <2>4
<1> QED BY <1>1, <1>2

LEMMA LockRefusedStep == ASSUME FlowInv, NEW t \in Thread, LockRefused(t) PROVE FlowInv'
<1>1. pc[t] \in TxPc /\ Goto(t, "idle") /\ EndCall(t) /\ Flagged /\ ~Normal'
  BY DEF LockRefused, Refused, Return, EndCall, Flagged, Normal, flagVars, TxPc
<1>2. UNCHANGED <<TxLockObj, TxSyncObj, TxPoolCnt, nwpFree, untold, GlobalLockObj>>
  BY DEF LockRefused, txVars, nwpVars
<1> QED BY <1>1, <1>2, LeakStep

LEMMA LockShortStep == ASSUME FlowInv, NEW t \in Thread, LockShort(t) PROVE FlowInv'
<1>1. pc[t] \in TxPc /\ Goto(t, "idle") /\ EndCall(t) /\ Flagged /\ ~Normal'
  BY DEF LockShort, HandleFatalError, Return, EndCall, Flagged, Normal, TxPc
<1>2. UNCHANGED <<TxLockObj, TxSyncObj, TxPoolCnt, nwpFree, untold>>
      /\ GlobalLockObj = None /\ GlobalLockObj' = t
  BY DEF LockShort, txVars, nwpVars
<1> QED BY <1>1, <1>2, LeakStep

(***************************************************************************)
(* The verification under the lock leaves at least what is written, so the *)
(* 8-bit subtraction does not wrap.                                        *)
(***************************************************************************)
LEMMA LockAcquireStep == ASSUME FlowInv, NEW t \in Thread, LockAcquire(t) PROVE FlowInv'
<1> USE DEF FlowInv, LockAcquire, Goto, callVars, flagVars, nwpVars
<1>1. pkts[t] \in Nat \ {0} /\ pkts[t] <= TxPoolCnt /\ pkts[t] + Reserve(call[t]) <= TxPoolCnt
  BY DEF FlowTypes, OnePacket, Need, Reserve, FLOW_CONT_MIN
<1>2. TxPoolCnt' = TxPoolCnt - pkts[t]
  BY <1>1, ByteDifference DEF FlowTypes
<1>3. FlowTypes' /\ OnePacket'
  <2>1. TxPoolCnt' \in 0 .. 255
    BY <1>1, <1>2 DEF FlowTypes
  <2>2. pc' \in [Thread -> Pc] /\ call' \in [Thread -> Action]
        /\ pkts' \in [Thread -> Nat \ {0}] /\ OnePacket'
    BY CallStep DEF SameCall, Pc
  <2> QED BY <2>1, <2>2 DEF FlowTypes
<1>4. Owners' /\ Quota'
  BY NobodyAssumption DEF FlowTypes, Owners, Quota, TxPc, BusPc
<1>5. Room'
  <2>1. \A u \in Thread : pc'[u] = "write" => u = t
    BY NobodyAssumption DEF FlowTypes, Owners, BusPc
  <2>2. Reserve(call[t]) \in {0, 1}
    BY CountType DEF Reserve
  <2> QED BY <1>1, <1>2, <2>1, <2>2 DEF FlowTypes, Room
<1>6. TxLockAccounted'
  BY DEF TxLockAccounted
<1>7. FlowSignalled'
  <2> SUFFICES ASSUME NEW u \in Thread, pc'[u] = "flow", ~TxSyncObj' PROVE Low(u)'
    BY DEF FlowSignalled
  <2>1. pc[u] = "flow" /\ Low(u)
    BY DEF FlowTypes, FlowSignalled
  <2>2. Need(u)' = Need(u) /\ Need(u) \in Int
    BY DEF Need, FlowTypes, FLOW_CONT_MIN
  <2> QED BY <1>1, <1>2, <2>1, <2>2 DEF Low, FlowTypes
<1> QED BY <1>3, <1>4, <1>5, <1>6, <1>7

(* What the NWP has left after a message *)
LEMMA LeftType ==
  ASSUME nwpFree \in 0 .. TxCap, NEW n \in Nat
  PROVE  Left(n) \in 0 .. TxCap /\ nwpFree - n <= Left(n)
BY CountType DEF Left

LEMMA WriteStep == ASSUME FlowInv, NEW t \in Thread, Write(t) PROVE FlowInv'
<1> USE DEF FlowInv, Write, Return, Goto, callVars, txVars, flagVars
<1>1. SameCall \/ EndCall(t)
  BY DEF SameCall, EndCall
<1>2. PICK l \in {"await", "idle"} : Goto(t, l)
  OBVIOUS
<1>3. nwpFree' \in 0 .. TxCap /\ nwpFree - pkts[t] <= nwpFree' /\ pkts[t] \in Nat
  BY LeftType DEF FlowTypes
<1>4. FlowTypes' /\ OnePacket'
  <2>1. pc' \in [Thread -> Pc] /\ call' \in [Thread -> Action]
        /\ pkts' \in [Thread -> Nat \ {0}] /\ OnePacket'
    BY <1>1, <1>2, CallStep DEF Pc
  <2> QED BY <2>1, <1>3 DEF FlowTypes
<1>5. Owners' /\ Room'
  <2>1. \A u \in Thread : pc'[u] \notin BusPc
    BY <1>2 DEF FlowTypes, Owners, BusPc
  <2>2. TxPoolCnt' <= nwpFree' + untold'
    BY <1>3 DEF FlowTypes, Room
  <2>3. \A u \in Thread : pc'[u] \in TxPc => pc[u] \in TxPc
    BY <1>2 DEF FlowTypes, TxPc
  <2> QED BY <2>1, <2>2, <2>3 DEF Owners, Room, BusPc
<1>6. Quota'
  <2>1. untold <= Unanswered \/ RestartRequired
    BY NobodyAssumption DEF Quota, Owners, BusPc
  <2> QED BY <2>1 DEF Quota
<1>7. TxLockAccounted'
  BY <1>2 DEF FlowTypes, TxLockAccounted, Normal
<1>8. FlowSignalled'
  BY <1>1, <1>2 DEF FlowTypes, FlowSignalled, Low, Need, SameCall, EndCall
<1> QED BY <1>4, <1>5, <1>6, <1>7, <1>8

LEMMA WriteFailsStep == ASSUME FlowInv, NEW t \in Thread, WriteFails(t) PROVE FlowInv'
<1> USE DEF FlowInv, WriteFails, HandleFatalError, Return, Goto, callVars, txVars, nwpVars
<1>1. SameCall \/ EndCall(t)
  BY DEF SameCall, EndCall
<1>2. PICK l \in {"release", "idle"} : Goto(t, l)
  OBVIOUS
<1>3. FlowTypes' /\ OnePacket'
  BY <1>1, <1>2, CallStep DEF FlowTypes, Pc
<1>4. Owners' /\ Room' /\ Quota'
  <2>1. \A u \in Thread : pc'[u] \notin BusPc
    BY <1>2 DEF FlowTypes, Owners, BusPc
  <2>2. \A u \in Thread : pc'[u] \in TxPc => pc[u] \in TxPc
    BY <1>2 DEF FlowTypes, TxPc
  <2> QED BY <2>1, <2>2 DEF Owners, Room, Quota, BusPc
<1>5. TxLockAccounted'
  BY DEF TxLockAccounted, Normal
<1>6. FlowSignalled'
  BY <1>1, <1>2 DEF FlowTypes, FlowSignalled, Low, Need, SameCall, EndCall
<1> QED BY <1>3, <1>4, <1>5, <1>6

-----------------------------------------------------------------------------
(* Commands: a packet more is taken, of which no header has told *)

LEMMA CommandRoom ==
  ASSUME FlowInv, CommandWritten, GlobalLockObj = None,
         ~RestartRequired \/ untold < Unanswered, UNCHANGED TxPoolCnt
  PROVE  /\ nwpFree' \in 0 .. TxCap /\ untold' \in 0 .. Unanswered + 1
         /\ TxPoolCnt' <= nwpFree' + untold' /\ \A t \in Thread : pc[t] \notin BusPc
<1> USE DEF FlowInv, CommandWritten
<1>1. nwpFree' \in 0 .. TxCap /\ nwpFree - 1 <= nwpFree'
  BY LeftType DEF FlowTypes
<1>2. \A t \in Thread : pc[t] \notin BusPc
  BY NobodyAssumption DEF Owners
<1>3. untold <= Unanswered
  <2>1. CASE ~RestartRequired
    BY <1>2, <2>1, NobodyAssumption DEF Quota, BusPc
  <2>2. CASE untold < Unanswered
    BY <2>2, CountType DEF FlowTypes
  <2> QED BY <2>1, <2>2
<1> QED BY <1>1, <1>2, <1>3, CountType DEF FlowTypes, Room

LEMMA CmdStep == ASSUME FlowInv, NEW t \in Thread, Cmd(t) PROVE FlowInv'
<1> USE DEF FlowInv, Cmd, Goto, callVars, txVars, flagVars
<1>1. /\ nwpFree' \in 0 .. TxCap /\ untold' \in 0 .. Unanswered + 1
      /\ TxPoolCnt' <= nwpFree' + untold' /\ \A u \in Thread : pc[u] \notin BusPc
  BY CommandRoom DEF Refused
<1>2. FlowTypes' /\ OnePacket'
  BY <1>1, CallStep DEF FlowTypes, SameCall, Pc
<1>3. Owners' /\ Room' /\ Quota'
  BY <1>1, NobodyAssumption DEF FlowTypes, Owners, Room, Quota, TxPc, BusPc
<1>4. TxLockAccounted'
  BY DEF FlowTypes, TxLockAccounted, Normal
<1>5. FlowSignalled'
  BY DEF FlowTypes, FlowSignalled, Low, Need
<1> QED BY <1>2, <1>3, <1>4, <1>5

LEMMA CmdAbortedStep == ASSUME FlowInv, NEW t \in Thread, CmdAborted(t) PROVE FlowInv'
<1> USE DEF FlowInv, CmdAborted, Goto, callVars, txVars, flagVars, nwpVars
<1>1. FlowTypes' /\ OnePacket'
  BY CallStep DEF FlowTypes, SameCall, Pc
<1>2. Owners' /\ Room' /\ Quota'
  BY NobodyAssumption DEF FlowTypes, Owners, Room, Quota, TxPc, BusPc
<1>3. TxLockAccounted'
  BY DEF FlowTypes, TxLockAccounted, Normal
<1>4. FlowSignalled'
  BY DEF FlowTypes, FlowSignalled, Low, Need
<1> QED BY <1>1, <1>2, <1>3, <1>4

(***************************************************************************)
(* A header is read: what it announces is what the NWP has free.  Nobody   *)
(* writes then, since the lock is free or with a command that waits.       *)
(***************************************************************************)
LEMMA HeaderStep ==
  ASSUME FlowInv, CanRead, Header, UNCHANGED <<call, pkts, nwpFree, flagVars>>,
         pc' \in [Thread -> Pc],
         \A t \in Thread : pc'[t] = pc[t] \/ (pc[t] = "resp" /\ pc'[t] \in {"await", "release"}),
         \/ UNCHANGED GlobalLockObj
         \/ GlobalLockObj' = None /\ \A t \in Thread : pc'[t] # "resp"
  PROVE  FlowInv'
<1> USE DEF FlowInv, Header, CanRead, flagVars
<1>1. FlowTypes' /\ OnePacket'
  BY CountType DEF FlowTypes, OnePacket
<1>2. \A t \in Thread : pc[t] # "write"
  BY NobodyAssumption DEF Owners, BusPc
<1>3. Owners' /\ Room' /\ Quota'
  BY <1>2, CountType DEF FlowTypes, Owners, Room, Quota, TxPc, BusPc
<1>4. TxLockAccounted'
  BY DEF FlowTypes, TxLockAccounted, Normal
<1>5. FlowSignalled'
  <2> SUFFICES ASSUME NEW t \in Thread, pc'[t] = "flow", ~TxSyncObj' PROVE Low(t)'
    BY DEF FlowSignalled
  <2>1. nwpFree <= FLOW_CONT_MIN
    <3>1. ~(nwpFree > FLOW_CONT_MIN)
      OBVIOUS
    <3> QED BY <3>1, CountType DEF FlowTypes
  <2>2. Need(t)' \in Int /\ FLOW_CONT_MIN <= Need(t)'
    BY CountType DEF Need, FlowTypes
  <2> QED BY <2>1, <2>2, CountType DEF Low, FlowTypes
<1> QED BY <1>1, <1>3, <1>4, <1>5

LEMMA CmdResponseStep == ASSUME FlowInv, NEW t \in Thread, CmdResponse(t) PROVE FlowInv'
<1>1. CanRead /\ GlobalLockObj = t
  BY DEF CmdResponse, CanRead, FlowInv, Owners, BusPc
<1>2. PICK l \in {"await", "release"} : Goto(t, l)
  BY DEF CmdResponse
<1>3. \A u \in Thread : pc'[u] = IF u = t THEN l ELSE pc[u]
  BY <1>2 DEF Goto, FlowInv, FlowTypes
<1>4. \A u \in Thread : pc'[u] # "resp"
  BY <1>1, <1>3 DEF FlowInv, Owners, BusPc
<1>5. pc' \in [Thread -> Pc]
  BY <1>2 DEF Goto, FlowInv, FlowTypes, Pc
<1> QED BY <1>1, <1>3, <1>4, <1>5, HeaderStep DEF CmdResponse, callVars

LEMMA NwpInv == ASSUME FlowInv, NwpStep PROVE FlowInv'
<1>1. CASE ReadEvent \/ ReadAnswer
  BY <1>1, HeaderStep DEF ReadEvent, ReadAnswer, callVars, FlowInv, FlowTypes
<1>2. CASE OtherResponse
  <2>1. CanRead /\ \A t \in Thread : pc[t] # "resp"
    BY <1>2, NobodyAssumption DEF OtherResponse, CanRead, FlowInv, Owners, BusPc
  <2> QED BY <1>2, <2>1, HeaderStep DEF OtherResponse, callVars, FlowInv, FlowTypes
<1>3. CASE OtherCommand \/ OtherCmdSend
  <2>1. /\ GlobalLockObj = None /\ CommandWritten /\ (~RestartRequired \/ untold < Unanswered)
        /\ GlobalLockObj' = Other \/ (GlobalLockObj' = None /\ untold < Unanswered)
        /\ UNCHANGED <<pc, call, pkts, txVars, flagVars>>
    BY <1>3 DEF OtherCommand, OtherCmdSend, callVars
  <2> USE DEF FlowInv, txVars, flagVars
  <2>2. /\ nwpFree' \in 0 .. TxCap /\ untold' \in 0 .. Unanswered + 1
        /\ TxPoolCnt' <= nwpFree' + untold' /\ \A t \in Thread : pc[t] \notin BusPc
    BY <2>1, CommandRoom
  <2>3. FlowTypes' /\ OnePacket'
    BY <2>1, <2>2 DEF FlowTypes, OnePacket
  <2>4. Owners' /\ Room' /\ Quota'
    BY <2>1, <2>2, CountType DEF FlowTypes, Owners, Room, Quota, CommandWritten, BusPc
  <2>5. TxLockAccounted' /\ FlowSignalled'
    BY <2>1 DEF TxLockAccounted, Normal, FlowSignalled, Low, Need
  <2> QED BY <2>3, <2>4, <2>5
<1>4. CASE OtherAborted
  <2> USE <1>4 DEF FlowInv, OtherAborted, callVars, txVars, flagVars, nwpVars
  <2>1. FlowTypes' /\ OnePacket' /\ Owners' /\ Room' /\ Quota'
    BY NobodyAssumption DEF FlowTypes, OnePacket, Owners, Room, Quota
  <2>2. TxLockAccounted' /\ FlowSignalled'
    BY DEF TxLockAccounted, Normal, FlowSignalled, Low, Need
  <2> QED BY <2>1, <2>2
<1>5. CASE Drain
  <2> USE <1>5 DEF FlowInv, Drain, callVars, txVars, flagVars
  <2>1. FlowTypes' /\ OnePacket' /\ Owners' /\ Room' /\ Quota'
    BY CountType DEF FlowTypes, OnePacket, Owners, Room, Quota
  <2>2. TxLockAccounted' /\ FlowSignalled'
    BY DEF TxLockAccounted, Normal, FlowSignalled, Low, Need
  <2> QED BY <2>1, <2>2
<1> QED BY <1>1, <1>2, <1>3, <1>4, <1>5 DEF NwpStep, OtherEnds

(* A fatal error elsewhere, the start of provisioning, or nothing at all *)
LEMMA FlagStep ==
  ASSUME FlowInv, AbortElsewhere \/ ProvStart \/ UNCHANGED vars
  PROVE  FlowInv'
<1> USE DEF FlowInv
<1>0. /\ UNCHANGED <<pc, call, pkts, TxLockObj, TxSyncObj, TxPoolCnt, GlobalLockObj, nwpFree, untold>>
      /\ RestartRequired' \in {RestartRequired, TRUE}
      /\ ProvActive' \in {ProvActive, TRUE}
  BY DEF AbortElsewhere, HandleFatalError, ProvStart, vars, callVars, txVars, flagVars, nwpVars
<1>1. FlowTypes'
  BY <1>0 DEF FlowTypes
<1>2. OnePacket' /\ Owners' /\ Room' /\ Quota'
  <2>1. OnePacket' /\ Owners' /\ Room'
    BY <1>0 DEF OnePacket, Owners, Room
  <2>2. RestartRequired' = RestartRequired \/ RestartRequired' = TRUE
    BY <1>0
  <2>3. Quota'
    BY <1>0, <2>2 DEF Quota
  <2> QED BY <2>1, <2>3
<1>3. TxLockAccounted'
  <2>1. Normal' => Normal
    BY <1>0 DEF FlowTypes, Normal
  <2> QED BY <1>0, <2>1 DEF TxLockAccounted
<1>4. FlowSignalled'
  BY <1>0 DEF FlowSignalled, Low, Need
<1> QED BY <1>1, <1>2, <1>3, <1>4

-----------------------------------------------------------------------------
LEMMA CallInv == ASSUME FlowInv, NEW t \in Thread, Call(t) PROVE FlowInv'
<1> USE DEF FlowInv, Goto, txVars, flagVars, nwpVars
<1>1. PICK c \in Calls[t], n \in Pkts :
        /\ c.op # "send" => n = 1
        /\ call' = [call EXCEPT ![t] = c] /\ pkts' = [pkts EXCEPT ![t] = n]
        /\ Goto(t, IF c.op = "send" THEN "txlock" ELSE "getobj")
  BY DEF Call
<1>2. c \in Action /\ n \in Nat \ {0}
  BY CallsAssumption, PktsAssumption, SizeAssumption DEF Action, Request, Op, SockOp, PlainOp
<1>3. pc[t] = "idle" /\ UNCHANGED <<txVars, GlobalLockObj, flagVars, nwpVars>>
  BY DEF Call
<1>4. FlowTypes'
  BY <1>1, <1>2, <1>3 DEF FlowTypes, Pc
<1>5. OnePacket'
  BY <1>1 DEF FlowTypes, OnePacket
<1>6. Owners' /\ Room' /\ Quota'
  BY <1>1, <1>3 DEF FlowTypes, Owners, Room, Quota, TxPc, BusPc
<1>7. TxLockAccounted' /\ FlowSignalled'
  BY <1>1, <1>3 DEF FlowTypes, TxLockAccounted, Normal, FlowSignalled, Low, Need
<1> QED BY <1>4, <1>5, <1>6, <1>7

(* The pool, and the wait for an answer *)
Elsewhere(t) ==
  \/ PoolIsEmpty(t) \/ TakePoolObj(t) \/ PendWake(t) \/ Retest(t)
  \/ ReleasePoolObj(t) \/ ReleaseSpins(t)
  \/ CmdRefused(t) \/ CmdFails(t) \/ Await(t) \/ AwaitTimeout(t)

LEMMA ElsewhereInv == ASSUME FlowInv, NEW t \in Thread, Elsewhere(t) PROVE FlowInv'
<1> DEFINE L == {"idle", "pend", "retest", "txlock", "cmd", "spin", "await", "release"}
<1>1. L \subseteq Pc \ (TxPc \cup BusPc)
  BY DEF Pc, TxPc, BusPc
<1>2. pc[t] \notin TxPc /\ pc[t] \notin BusPc
  BY DEF Elsewhere, PoolIsEmpty, TakePoolObj, PendWake, Retest, ReleasePoolObj, ReleaseSpins,
         CmdRefused, CmdFails, Await, AwaitTimeout, TxPc, BusPc
<1>3. UNCHANGED <<txVars, GlobalLockObj, nwpFree, untold>> /\ Flagged
  BY DEF Elsewhere, PoolIsEmpty, TakePoolObj, PendWake, Retest, ReleasePoolObj, ReleaseSpins,
         CmdRefused, CmdFails, Await, AwaitTimeout, HandleFatalError, Flagged, flagVars, nwpVars
<1>4. SameCall \/ EndCall(t)
  BY DEF Elsewhere, PoolIsEmpty, TakePoolObj, PendWake, Retest, ReleasePoolObj, ReleaseSpins,
         CmdRefused, CmdFails, Await, AwaitTimeout, Return, SameCall, EndCall, callVars
<1>5. \E l \in L : Goto(t, l)
  BY DEF Elsewhere, PoolIsEmpty, TakePoolObj, PendOrActivate, PendWake, Retest, ReleasePoolObj,
         ReleaseSpins, CmdRefused, CmdFails, Await, AwaitTimeout, Return
<1> QED BY <1>1, <1>2, <1>3, <1>4, <1>5, ElsewhereStep

LEMMA FlowStep == FlowInv /\ [Next]_vars => FlowInv'
<1> SUFFICES ASSUME FlowInv, [Next]_vars PROVE FlowInv'
  OBVIOUS
<1>1. ASSUME NEW t \in Thread, Call(t) \/ ThreadStep(t) \/ TxLock(t) \/ GetGlobal(t)
      PROVE  FlowInv'
  <2>1. CASE Call(t)
    BY <2>1, CallInv
  <2>2. CASE Elsewhere(t)
    BY <2>2, ElsewhereInv
  <2>3. CASE TxLock(t) \/ TxCheck(t) \/ SendGivesUp(t)
    BY <2>3, TxLockStep, TxCheckStep, SendGivesUpStep
  <2>4. CASE FlowWake(t) \/ FlowAborted(t) \/ FlowTimeout(t)
    BY <2>4, FlowWakeStep, FlowEndStep
  <2>5. CASE LockTest(t) \/ LockRefused(t) \/ LockShort(t) \/ LockAcquire(t)
    BY <2>5, LockTestStep, LockRefusedStep, LockShortStep, LockAcquireStep
  <2>6. CASE Write(t) \/ WriteFails(t)
    BY <2>6, WriteStep, WriteFailsStep
  <2>7. CASE Cmd(t) \/ CmdResponse(t) \/ CmdAborted(t)
    BY <2>7, CmdStep, CmdResponseStep, CmdAbortedStep
  <2> QED BY <1>1, <2>1, <2>2, <2>3, <2>4, <2>5, <2>6, <2>7 DEF ThreadStep, GetGlobal, Elsewhere
<1>2. CASE NwpStep
  BY <1>2, NwpInv
<1>3. CASE AbortElsewhere \/ ProvStart \/ UNCHANGED vars
  BY <1>3, FlagStep
<1> QED BY <1>1, <1>2, <1>3 DEF Next

THEOREM FlowInvariance == Spec => []FlowInv
<1> QED BY FlowInit, FlowStep, PTL DEF Spec

(***************************************************************************)
(* A data message never takes more than the NWP has, counting what         *)
(* messages no header has told of took: whatever commands are written      *)
(* between the check, the verification and the write, and however many     *)
(* messages get no response (driver.c 934, 984, 1045, 1114, 810-876,       *)
(* 2274-2293).                                                             *)
(***************************************************************************)
THEOREM RoomKept == Spec => []TxWithinNwp
<1>1. FlowInv => TxWithinNwp
  <2> SUFFICES ASSUME FlowInv, NEW t \in Thread, pc[t] = "write"
               PROVE  pkts[t] + Reserve(call[t]) <= nwpFree + untold
    BY DEF TxWithinNwp
  <2>1. Reserve(call[t]) \in {0, 1}
    BY CountType DEF Reserve
  <2> QED BY <2>1, CountType DEF FlowInv, FlowTypes, Room
<1> QED BY <1>1, FlowInvariance, PTL

(***************************************************************************)
(* A thread that waits for packets with no signal due really has too few:  *)
(* no order of clear, test and wait with the headers that others read      *)
(* loses the signal (driver.c 929-963, 1032-1085, 1291-1306).              *)
(***************************************************************************)
THEOREM SignalKept == Spec => []FlowSignalled
<1>1. FlowInv => FlowSignalled
  BY DEF FlowInv
<1> QED BY <1>1, FlowInvariance, PTL

(***************************************************************************)
(* Only a restart, or the refusal of calls during provisioning, makes a    *)
(* call leave with TxLockObj (driver.c 926-987, 1030-1117).                *)
(***************************************************************************)
THEOREM TxLockKept == Spec => []TxLockAccounted
<1>1. FlowInv => TxLockAccounted
  BY DEF FlowInv
<1> QED BY <1>1, FlowInvariance, PTL
=============================================================================
