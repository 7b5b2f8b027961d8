------------------------- MODULE SlDrvCmdEvent_proofs -------------------------
(***************************************************************************)
(* The theorem that no event the NWP sends to SlDrvCmd is lost or handled  *)
(* twice.                                                                  *)
(***************************************************************************)
EXTENDS SlDrvCmd_proofs, FiniteSetTheorems

(* The positions of e in s *)
Positions(s, e) == {i \in DOMAIN s : s[i] = e}

(* A queue has finitely many positions *)
LEMMA PositionsFinite ==
  ASSUME NEW S, NEW s \in Seq(S), NEW e
  PROVE  IsFiniteSet(Positions(s, e)) /\ Occurrences(s, e) = Cardinality(Positions(s, e))
<1>1. DOMAIN s = 1 .. Len(s) /\ Len(s) \in Nat
  OBVIOUS
<1>2. IsFiniteSet(1 .. Len(s)) /\ Positions(s, e) \in SUBSET (1 .. Len(s))
  BY <1>1, FS_Interval DEF Positions
<1>3. IsFiniteSet(Positions(s, e))
  BY <1>2, FS_Subset
<1>. QED BY <1>3 DEF Occurrences, Positions

(* A queue holds a natural number of copies of e *)
LEMMA OccurrencesType ==
  ASSUME NEW S, NEW s \in Seq(S), NEW e PROVE Occurrences(s, e) \in Nat
  BY PositionsFinite, FS_CardinalityType

(* An empty queue holds none *)
LEMMA OccurrencesEmpty == ASSUME NEW e PROVE Occurrences(<<>>, e) = 0
<1>1. Positions(<<>>, e) = {}
  BY DEF Positions
<1>. QED BY <1>1, FS_EmptySet DEF Occurrences, Positions

(* A message or an event is added at the end of a queue *)
LEMMA OccurrencesAppend ==
  ASSUME NEW S, NEW s \in Seq(S), NEW x \in S, NEW e
  PROVE  Occurrences(Append(s, x), e) = Occurrences(s, e) + (IF x = e THEN 1 ELSE 0)
<1> DEFINE q == Append(s, x)
           n == Len(s) + 1
<1>1. /\ q \in Seq(S) /\ DOMAIN q = DOMAIN s \cup {n} /\ n \notin DOMAIN s
      /\ q[n] = x /\ \A i \in DOMAIN s : q[i] = s[i]
  BY AppendProperties
<1>2. IsFiniteSet(Positions(s, e)) /\ n \notin Positions(s, e)
  BY <1>1, PositionsFinite DEF Positions
<1>3. Occurrences(s, e) = Cardinality(Positions(s, e))
      /\ Occurrences(q, e) = Cardinality(Positions(q, e))
  BY <1>1, PositionsFinite
<1>4. Occurrences(s, e) \in Nat
  BY OccurrencesType
<1> HIDE DEF q, n
<1>5. CASE x = e
  <2>1. Positions(q, e) = Positions(s, e) \cup {n}
    BY <1>1, <1>5 DEF Positions
  <2>2. Cardinality(Positions(q, e)) = Cardinality(Positions(s, e)) + 1
    BY <1>2, <2>1, FS_AddElement
  <2>. QED BY <1>3, <1>4, <1>5, <2>2 DEF q
<1>6. CASE x # e
  <2>1. Positions(q, e) = Positions(s, e)
    BY <1>1, <1>6 DEF Positions
  <2>. QED BY <1>3, <1>4, <1>6, <2>1 DEF q
<1>. QED BY <1>5, <1>6

(* A message or an event is taken from the front of a queue *)
LEMMA OccurrencesTail ==
  ASSUME NEW S, NEW s \in Seq(S), s # <<>>, NEW e
  PROVE  Occurrences(s, e) = Occurrences(Tail(s), e) + (IF Head(s) = e THEN 1 ELSE 0)
<1> DEFINE q == Tail(s)
           P == Positions(s, e) \ {1}
           f == [i \in Positions(q, e) |-> i + 1]
<1>1. /\ q \in Seq(S) /\ DOMAIN s = 1 .. Len(s) /\ DOMAIN q = 1 .. Len(s) - 1
      /\ Len(s) \in Nat /\ 1 \in DOMAIN s /\ Head(s) = s[1]
      /\ \A i \in DOMAIN q : q[i] = s[i + 1]
  BY HeadTailProperties
<1>2. /\ IsFiniteSet(Positions(s, e)) /\ IsFiniteSet(Positions(q, e))
      /\ Occurrences(s, e) = Cardinality(Positions(s, e))
      /\ Occurrences(q, e) = Cardinality(Positions(q, e))
  BY <1>1, PositionsFinite
<1>3. f \in Bijection(Positions(q, e), P)
  <2>1. \A i \in Positions(q, e) : i \in Nat /\ i + 1 \in P
    BY <1>1 DEF Positions
  <2>2. \A j \in P : j - 1 \in Positions(q, e) /\ f[j - 1] = j
    BY <1>1 DEF Positions
  <2>3. f \in [Positions(q, e) -> P]
    BY <2>1
  <2>4. \A i, j \in Positions(q, e) : f[i] = f[j] => i = j
    BY <2>1
  <2>5. f \in Injection(Positions(q, e), P)
    BY <2>3, <2>4 DEF Injection, IsInjective
  <2>6. f \in Surjection(Positions(q, e), P)
    BY <2>2, <2>3 DEF Surjection
  <2>. QED BY <2>5, <2>6 DEF Bijection
<1>4. Cardinality(P) = Cardinality(Positions(q, e))
  BY <1>2, <1>3, FS_Bijection DEF ExistsBijection
<1>5. Cardinality(P) = IF 1 \in Positions(s, e) THEN Cardinality(Positions(s, e)) - 1
                                                ELSE Cardinality(Positions(s, e))
  BY <1>2, FS_RemoveElement
<1>6. 1 \in Positions(s, e) <=> Head(s) = e
  BY <1>1 DEF Positions
<1>7. Occurrences(s, e) \in Nat /\ Occurrences(q, e) \in Nat
  BY <1>1, OccurrencesType
<1>. QED BY <1>2, <1>4, <1>5, <1>6, <1>7

Async(e) == [cls |-> "async", tag |-> e]
SomeRead == \E p \in Proc : pc[p] = "read"
Drops(e) == IF e \in dropped THEN 1 ELSE 0

(* How many places event e is in *)
Places(e) ==
  Occurrences(wire, Async(e)) + InTransit(e) + Occurrences(spawnMsgList, e)
    + Occurrences(handled, e) + Drops(e)

(* What EventConserved rests on: an event not sent yet is nowhere *)
EventInv == \A e \in Event : Places(e) = IF e <= sent THEN 1 ELSE 0

(* Each place holds a natural number of copies of e *)
LEMMA PlacesType ==
  ASSUME IInv, NEW e
  PROVE  /\ Occurrences(wire, Async(e)) \in Nat /\ InTransit(e) \in {0, 1}
         /\ Occurrences(spawnMsgList, e) \in Nat /\ Occurrences(handled, e) \in Nat
         /\ Drops(e) \in {0, 1}
<1>1. wire \in Seq(Msg) /\ spawnMsgList \in Seq(Event) /\ handled \in Seq(Event)
  BY DEF IInv, TypeOK, MsgTypeOK
<1>2. /\ Occurrences(wire, Async(e)) \in Nat /\ Occurrences(spawnMsgList, e) \in Nat
      /\ Occurrences(handled, e) \in Nat
  BY <1>1, OccurrencesType
<1>. QED BY <1>2 DEF InTransit, Drops

(* InTransit, in the words of these proofs *)
LEMMA InTransitIs ==
  ASSUME NEW e
  PROVE  InTransit(e) = IF SomeRead /\ rxMsg = Async(e) THEN 1 ELSE 0
  BY DEF InTransit, SomeRead, Async

(* A message is Async(e) when it is an event and e is its tag *)
LEMMA AsyncIs ==
  ASSUME NEW m \in Msg, NEW e
  PROVE  m = Async(e) <=> m.cls = "async" /\ m.tag = e
  BY DEF Msg, Async

(* A step that touches no queue and no reader's hands moves no event *)
LEMMA EventsStay ==
  ASSUME EventInv, SomeRead' = SomeRead,
         UNCHANGED <<wire, rxMsg, spawnMsgList, handled, dropped, sent>>
  PROVE  EventInv'
<1>1. ASSUME NEW e \in Event PROVE Places(e)' = Places(e)
  BY InTransitIs DEF Places, InTransit, SomeRead, Drops, Async
<1>. QED BY <1>1 DEF EventInv

(* From the queue to the reader's hands *)
LEMMA ReadEvents ==
  ASSUME IInv, EventInv, NEW p \in Proc, MsgRead(p) PROVE EventInv'
<1>1. ~SomeRead /\ SomeRead'
  <2>1. \A q \in Proc : pc[q] # "read"
    BY DEF MsgRead, IInv, LockInv, HoldPc, UsePc
  <2>2. pc' = [pc EXCEPT ![p] = "read"] /\ pc \in [Proc -> ThreadPc \cup SpawnPc]
    BY DEF MsgRead, Goto, IInv, TypeOK, PcTypeOK
  <2>. QED BY <2>1, <2>2 DEF SomeRead
<1>2. /\ wire \in Seq(Msg) /\ wire # <<>> /\ wire' = Tail(wire) /\ rxMsg' = Head(wire)
      /\ UNCHANGED <<spawnMsgList, handled, dropped, sent>>
  BY DEF MsgRead, evtVars, IInv, TypeOK, MsgTypeOK
<1>3. ASSUME NEW e \in Event PROVE Places(e)' = Places(e)
  <2>1. Occurrences(wire, Async(e))
          = Occurrences(wire', Async(e)) + (IF rxMsg' = Async(e) THEN 1 ELSE 0)
    BY <1>2, OccurrencesTail
  <2>2. InTransit(e) = 0 /\ InTransit(e)' = IF rxMsg' = Async(e) THEN 1 ELSE 0
    BY <1>1 DEF InTransit, SomeRead, Async
  <2>3. wire' \in Seq(Msg)
    BY <1>2, HeadTailProperties
  <2>4. Occurrences(wire', Async(e)) \in Nat
    BY <2>3, OccurrencesType
  <2>5. Drops(e)' = Drops(e) /\ Async(e)' = Async(e)
    BY <1>2 DEF Drops, Async
  <2>. QED BY <1>2, <2>1, <2>2, <2>4, <2>5, PlacesType DEF Places
<1>. QED BY <1>2, <1>3 DEF EventInv

(* The reader is done with the message *)
LEMMA DispatchEnds ==
  ASSUME IInv, NEW p \in Proc, NEW l, l # "read", pc[p] = "read", Goto(p, l)
  PROVE  SomeRead /\ ~SomeRead'
<1>1. \A q \in Proc : pc[q] = "read" => q = p
  BY DEF IInv, LockInv, HoldPc, UsePc
<1>2. pc \in [Proc -> ThreadPc \cup SpawnPc]
  BY DEF IInv, TypeOK, PcTypeOK
<1>. QED BY <1>1, <1>2 DEF SomeRead, Goto

(* The event the reader has in hand is not anywhere else *)
LEMMA InHandOnce ==
  ASSUME IInv, EventInv, SomeRead, NEW e \in Event, rxMsg = Async(e)
  PROVE  e \notin dropped /\ InTransit(e) = 1
<1>1. InTransit(e) = 1
  BY InTransitIs
<1>2. Places(e) \in {0, 1}
  BY DEF EventInv
<1>3. Drops(e) = 0
  <2> DEFINE w == Occurrences(wire, Async(e))
             l == Occurrences(spawnMsgList, e)
             h == Occurrences(handled, e)
             d == Drops(e)
  <2>1. w \in Nat /\ l \in Nat /\ h \in Nat /\ d \in {0, 1}
    BY PlacesType
  <2>2. w + 1 + l + h + d \in {0, 1}
    BY <1>1, <1>2 DEF Places
  <2> HIDE DEF w, l, h, d
  <2>3. d = 0
    BY <2>1, <2>2
  <2>. QED BY <2>3 DEF d
<1>. QED BY <1>1, <1>3 DEF Drops

(* From a command's hands to the list of the spawn task, or lost *)
LEMMA CmdCtxEvents ==
  ASSUME IInv, EventInv, NEW t \in Thread, CmdCtxDispatch(t) PROVE EventInv'
<1>1. SomeRead /\ ~SomeRead' /\ rxMsg \in Msg
  BY DispatchEnds DEF CmdCtxDispatch, Proc, IInv, ReadInv
<1>2. UNCHANGED <<wire, sent, handled>>
  BY DEF CmdCtxDispatch, nwpVars, evtVars, ListInsert
<1>3. ASSUME NEW e \in Event PROVE Places(e)' = Places(e)
  <2>1. InTransit(e)' = 0
    BY <1>1 DEF InTransit, SomeRead
  <2>2. CASE rxMsg # Async(e)
    <3>1. InTransit(e) = 0
      BY <2>2 DEF InTransit, Async
    <3>2. Occurrences(spawnMsgList', e) = Occurrences(spawnMsgList, e)
          /\ Drops(e)' = Drops(e)
      <4>1. CASE UNCHANGED <<spawnMsgList, dropped>>
        BY <4>1 DEF Drops
      <4>2. CASE rxMsg.cls = "async" /\ ListInsert(rxMsg.tag)
        <5>1. rxMsg.tag \in Event /\ rxMsg.tag # e
          BY <1>1, <2>2, <4>2, AsyncIs, MsgTag
        <5>2. spawnMsgList \in Seq(Event)
          BY DEF IInv, TypeOK, MsgTypeOK
        <5>3. Occurrences(Append(spawnMsgList, rxMsg.tag), e)
                = Occurrences(spawnMsgList, e) + 0
          BY <5>1, <5>2, OccurrencesAppend
        <5>4. Occurrences(spawnMsgList, e) \in Nat
          BY <5>2, OccurrencesType
        <5>5. e \in dropped' <=> e \in dropped
          BY <4>2, <5>1 DEF ListInsert
        <5>6. spawnMsgList' \in {spawnMsgList, Append(spawnMsgList, rxMsg.tag)}
          BY <4>2 DEF ListInsert
        <5>7. Occurrences(spawnMsgList', e) = Occurrences(spawnMsgList, e)
          <6>1. Occurrences(Append(spawnMsgList, rxMsg.tag), e)
                  = Occurrences(spawnMsgList, e)
            BY <5>3, <5>4
          <6>2. CASE spawnMsgList' = spawnMsgList
            BY <6>2
          <6>3. CASE spawnMsgList' = Append(spawnMsgList, rxMsg.tag)
            BY <6>1, <6>3
          <6>. QED BY <5>6, <6>2, <6>3
        <5>. QED BY <5>5, <5>7 DEF Drops
      <4>. QED BY <4>1, <4>2 DEF CmdCtxDispatch, evtVars
    <3>. QED BY <1>2, <2>1, <3>1, <3>2 DEF Places, Async
  <2>3. CASE rxMsg = Async(e)
    <3>1. InTransit(e) = 1 /\ e \notin dropped
      BY <1>1, <2>3, InHandOnce
    <3>2. ListInsert(e)
      BY <1>1, <2>3, AsyncIs DEF CmdCtxDispatch
    <3>3. Occurrences(Append(spawnMsgList, e), e) = Occurrences(spawnMsgList, e) + 1
      BY OccurrencesAppend DEF IInv, TypeOK, MsgTypeOK
    <3>4. \/ Occurrences(spawnMsgList', e) = Occurrences(spawnMsgList, e) + 1
             /\ Drops(e)' = Drops(e)
          \/ Occurrences(spawnMsgList', e) = Occurrences(spawnMsgList, e)
             /\ Drops(e) = 0 /\ Drops(e)' = 1
      BY <3>1, <3>2, <3>3 DEF ListInsert, Drops
    <3>. QED BY <1>2, <2>1, <3>1, <3>4, PlacesType DEF Places, Async
  <2>. QED BY <2>2, <2>3
<1>. QED BY <1>2, <1>3 DEF EventInv

(* From the spawn task's hands to the handler *)
LEMMA SpawnEvents ==
  ASSUME IInv, EventInv, SpawnDispatch PROVE EventInv'
<1>1. SomeRead /\ ~SomeRead' /\ rxMsg \in Msg
  BY DispatchEnds DEF SpawnDispatch, Proc, IInv, ReadInv
<1>2. UNCHANGED <<wire, sent, spawnMsgList, dropped>>
  BY DEF SpawnDispatch, nwpVars
<1>3. ASSUME NEW e \in Event PROVE Places(e)' = Places(e)
  <2>1. InTransit(e)' = 0 /\ Drops(e)' = Drops(e)
    BY <1>1, <1>2 DEF InTransit, SomeRead, Drops
  <2>2. InTransit(e) = IF rxMsg = Async(e) THEN 1 ELSE 0
    BY <1>1, InTransitIs
  <2>3. Occurrences(handled', e)
          = Occurrences(handled, e) + (IF rxMsg = Async(e) THEN 1 ELSE 0)
    <3>1. CASE rxMsg.cls = "async"
      <4>1. rxMsg.tag \in Event /\ handled' = Append(handled, rxMsg.tag)
        BY <1>1, <3>1, MsgTag DEF SpawnDispatch, Handle
      <4>2. rxMsg = Async(e) <=> rxMsg.tag = e
        BY <1>1, <3>1, AsyncIs
      <4>. QED BY <4>1, <4>2, OccurrencesAppend DEF IInv, TypeOK, MsgTypeOK
    <3>2. CASE rxMsg.cls # "async"
      <4>1. handled' = handled /\ rxMsg # Async(e)
        BY <1>1, <3>2, AsyncIs DEF SpawnDispatch
      <4>. QED BY <4>1, PlacesType
    <3>. QED BY <3>1, <3>2
  <2>. QED BY <1>2, <2>1, <2>2, <2>3, PlacesType DEF Places, Async
<1>. QED BY <1>2, <1>3 DEF EventInv

(* From the list to the handler *)
LEMMA ListEvents ==
  ASSUME IInv, EventInv, ListProcess PROVE EventInv'
<1>1. SomeRead' = SomeRead /\ UNCHANGED <<wire, rxMsg, dropped, sent>>
  <2>1. pc[Spawn] # "read" /\ pc' = [pc EXCEPT ![Spawn] = pc'[Spawn]]
        /\ pc'[Spawn] # "read"
    BY DEF ListProcess, Goto, IInv, TypeOK, PcTypeOK, Proc
  <2>. QED BY <2>1 DEF SomeRead, ListProcess, rxVars, nwpVars, evtVars,
                       IInv, TypeOK, PcTypeOK
<1>2. CASE RestartRequired
  BY <1>1, <1>2, EventsStay DEF ListProcess, evtVars
<1>3. CASE ~RestartRequired
  <2>1. /\ spawnMsgList \in Seq(Event) /\ spawnMsgList # <<>>
        /\ handled \in Seq(Event) /\ Head(spawnMsgList) \in Event
        /\ spawnMsgList' = Tail(spawnMsgList)
        /\ handled' = Append(handled, Head(spawnMsgList))
    BY <1>3, HeadTailProperties
       DEF ListProcess, Handle, IInv, ListInv, TypeOK, MsgTypeOK
  <2>2. ASSUME NEW e \in Event PROVE Places(e)' = Places(e)
    <3>1. Occurrences(spawnMsgList, e)
            = Occurrences(spawnMsgList', e) + (IF Head(spawnMsgList) = e THEN 1 ELSE 0)
      BY <2>1, OccurrencesTail
    <3>2. Occurrences(handled', e)
            = Occurrences(handled, e) + (IF Head(spawnMsgList) = e THEN 1 ELSE 0)
      BY <2>1, OccurrencesAppend
    <3>3. Drops(e)' = Drops(e) /\ InTransit(e)' = InTransit(e)
      BY <1>1 DEF Drops, InTransit, SomeRead
    <3>4. Occurrences(spawnMsgList', e) \in Nat
      BY <2>1, HeadTailProperties, OccurrencesType
    <3>. QED BY <1>1, <3>1, <3>2, <3>3, <3>4, PlacesType DEF Places, Async
  <2>. QED BY <1>1, <2>2 DEF EventInv
<1>. QED BY <1>2, <1>3

(* The NWP queues an event that was nowhere, or a message that is no event *)
LEMMA NwpEvents ==
  ASSUME IInv, EventInv, NwpRespond \/ NwpEvent \/ NwpDummy PROVE EventInv'
<1>1. UNCHANGED <<rxMsg, spawnMsgList, handled, dropped>> /\ SomeRead' = SomeRead
  BY DEF NwpRespond, NwpEvent, NwpDummy, rxVars, evtVars, SomeRead
<1>2. wire \in Seq(Msg) /\ sent \in 0 .. MaxEvents /\ todo \in Seq(Thread)
  BY DEF IInv, TypeOK, MsgTypeOK
<1>3. \A e \in Event : InTransit(e)' = InTransit(e) /\ Drops(e)' = Drops(e)
  BY <1>1 DEF InTransit, SomeRead, Drops
<1>4. ASSUME NEW m \in Msg, wire' = Append(wire, m), NEW e \in Event
      PROVE  Places(e)' = Places(e) + (IF m = Async(e) THEN 1 ELSE 0)
  <2>1. Occurrences(wire', Async(e))
          = Occurrences(wire, Async(e)) + (IF m = Async(e) THEN 1 ELSE 0)
    BY <1>2, <1>4, OccurrencesAppend
  <2>. QED BY <1>1, <1>3, <2>1, PlacesType DEF Places, Async
<1>5. CASE NwpEvent
  <2>1. /\ sent < MaxEvents /\ sent' = sent + 1
        /\ wire' = Append(wire, Async(sent + 1))
    BY <1>5 DEF NwpEvent, NwpSend, Async
  <2>2. Async(sent + 1) \in Msg
    BY <1>2, <2>1, EventAssumption DEF Async, Msg, Event
  <2>3. ASSUME NEW e \in Event
        PROVE  Places(e)' = Places(e) + (IF e = sent + 1 THEN 1 ELSE 0)
    <3>1. Async(sent + 1) = Async(e) <=> e = sent + 1
      BY DEF Async
    <3>. QED BY <1>4, <2>1, <2>2, <3>1
  <2>. QED BY <1>2, <2>1, <2>3, EventAssumption DEF EventInv, Event
<1>6. CASE NwpRespond
  <2>1. /\ [cls |-> "resp", tag |-> Head(todo)] \in Msg /\ sent' = sent
        /\ wire' = Append(wire, [cls |-> "resp", tag |-> Head(todo)])
    BY <1>2, <1>6 DEF NwpRespond, NwpSend, Msg
  <2>2. \A e \in Event : [cls |-> "resp", tag |-> Head(todo)] # Async(e)
    BY DEF Async
  <2>3. \A e \in Event : Places(e)' = Places(e) + 0
    BY <1>4, <2>1, <2>2
  <2>. QED BY <1>2, <2>1, <2>3, EventAssumption DEF EventInv, Event
<1>7. CASE NwpDummy
  <2>1. /\ [cls |-> "dummy", tag |-> 0] \in Msg /\ sent' = sent
        /\ wire' = Append(wire, [cls |-> "dummy", tag |-> 0])
    BY <1>7 DEF NwpDummy, NwpSend, Msg
  <2>2. \A e \in Event : [cls |-> "dummy", tag |-> 0] # Async(e)
    BY DEF Async
  <2>3. \A e \in Event : Places(e)' = Places(e) + 0
    BY <1>4, <2>1, <2>2
  <2>. QED BY <1>2, <2>1, <2>3, EventAssumption DEF EventInv, Event
<1>. QED BY <1>5, <1>6, <1>7

(* Every step moves an event from one place to one other *)
LEMMA EventStep ==
  ASSUME IInv, EventInv, [Next]_vars PROVE EventInv'
<1> USE SpawnAssumption DEF lockVars, cmdVars, rxVars, spawnVars, evtVars,
        nwpVars, IInv, TypeOK, PcTypeOK, SomeRead, Goto, Proc, Locked
<1>1. ASSUME NEW t \in Thread, CmdOpRequest(t) PROVE EventInv'
  BY <1>1, EventsStay DEF CmdOpRequest
<1>2. ASSUME NEW t \in Thread, CmdSendRequest(t) PROVE EventInv'
  BY <1>2, EventsStay DEF CmdSendRequest
<1>3. ASSUME NEW t \in Thread, CmdOpBegin(t) PROVE EventInv'
  BY <1>3, EventsStay DEF CmdOpBegin, ApiAllowed
<1>4. ASSUME NEW t \in Thread, CmdOpWritten(t) PROVE EventInv'
  BY <1>4, EventsStay DEF CmdOpWritten
<1>5. ASSUME NEW t \in Thread, CmdOpWriteFails(t) PROVE EventInv'
  BY <1>5, EventsStay DEF CmdOpWriteFails
<1>6. ASSUME NEW t \in Thread, CmdCtxLoop(t) PROVE EventInv'
  BY <1>6, EventsStay DEF CmdCtxLoop
<1>7. ASSUME NEW t \in Thread, CmdCtxWake(t) PROVE EventInv'
  BY <1>7, EventsStay DEF CmdCtxWake
<1>8. ASSUME NEW t \in Thread, CmdCtxTimeout(t) PROVE EventInv'
  BY <1>8, EventsStay DEF CmdCtxTimeout
<1>9. ASSUME NEW t \in Thread, CmdCtxDispatch(t) PROVE EventInv'
  BY <1>9, CmdCtxEvents
<1>10. ASSUME NEW t \in Thread, CmdCtxFinish(t) PROVE EventInv'
  BY <1>10, EventsStay DEF CmdCtxFinish
<1>11. ASSUME NEW t \in Thread, CmdCtxMore(t) PROVE EventInv'
  BY <1>11, EventsStay DEF CmdCtxMore
<1>12. ASSUME NEW t \in Thread, SpawnReqLoad(t) PROVE EventInv'
  BY <1>12, EventsStay DEF SpawnReqLoad
<1>13. ASSUME NEW t \in Thread, SpawnReqStore(t) PROVE EventInv'
  BY <1>13, EventsStay DEF SpawnReqStore
<1>14. ASSUME NEW t \in Thread, CmdSendBegin(t) PROVE EventInv'
  BY <1>14, EventsStay DEF CmdSendBegin
<1>15. ASSUME NEW t \in Thread, CmdSendEnd(t) PROVE EventInv'
  BY <1>15, EventsStay DEF CmdSendEnd
<1>16. ASSUME NEW p \in Proc, LockAcquire(p) PROVE EventInv'
  BY <1>16, EventsStay DEF LockAcquire
<1>17. ASSUME NEW p \in Proc, MsgRead(p) PROVE EventInv'
  BY <1>17, ReadEvents
<1>18. ASSUME NEW p \in Proc, MsgReadSyncLoss(p) PROVE EventInv'
  BY <1>18, EventsStay DEF MsgReadSyncLoss
<1>19. ASSUME NEW p \in Proc, MsgReadShortHdr(p) PROVE EventInv'
  BY <1>19, EventsStay DEF MsgReadShortHdr
<1>20. ASSUME NEW p \in Proc, MsgReadAssert(p) PROVE EventInv'
  BY <1>20, EventsStay DEF MsgReadAssert
<1>21. ASSUME NEW p \in Proc, HandleFatalError(p) PROVE EventInv'
  BY <1>21, EventsStay DEF HandleFatalError
<1>22. ASSUME NEW p \in Proc, MsgReadAborted(p) PROVE EventInv'
  BY <1>22, EventsStay DEF MsgReadAborted
<1>23. CASE SpawnWake
  BY <1>23, EventsStay DEF SpawnWake
<1>24. CASE ListRequest
  BY <1>24, EventsStay DEF ListRequest
<1>25. CASE ListProcess
  BY <1>25, ListEvents
<1>26. CASE SpawnHead
  BY <1>26, EventsStay DEF SpawnHead
<1>27. CASE SpawnLocked
  BY <1>27, EventsStay DEF SpawnLocked
<1>28. CASE SpawnDispatch
  BY <1>28, SpawnEvents
<1>29. CASE SpawnServed
  BY <1>29, EventsStay DEF SpawnServed
<1>30. CASE RxIrqHandler
  BY <1>30, EventsStay DEF RxIrqHandler
<1>31. CASE NwpRespond
  BY <1>31, NwpEvents DEF NwpStep
<1>32. CASE NwpEvent
  BY <1>32, NwpEvents DEF NwpStep
<1>33. CASE NwpDummy
  BY <1>33, NwpEvents DEF NwpStep
<1>34. CASE NwpDies
  BY <1>34, EventsStay DEF NwpDies
<1>35. CASE UNCHANGED vars
  BY <1>35, EventsStay DEF vars
<1>. QED
  BY <1>1, <1>2, <1>3, <1>4, <1>5, <1>6, <1>7, <1>8, <1>9, <1>10, <1>11,
     <1>12, <1>13, <1>14, <1>15, <1>16, <1>17, <1>18, <1>19, <1>20, <1>21,
     <1>22, <1>23, <1>24, <1>25, <1>26, <1>27, <1>28, <1>29, <1>30, <1>31,
     <1>32, <1>33, <1>34, <1>35
     DEF Next, ThreadStep, SpawnStep, NwpStep

(* No event is anywhere at the start *)
LEMMA InitEvents == Init => EventInv
<1> SUFFICES ASSUME Init, NEW e \in Event PROVE Places(e) = IF e <= sent THEN 1 ELSE 0
  BY DEF EventInv
<1>1. /\ wire = <<>> /\ spawnMsgList = <<>> /\ handled = <<>> /\ dropped = {}
      /\ sent = 0 /\ \A p \in Proc : pc[p] # "read"
  BY DEF Init
<1>2. InTransit(e) = 0 /\ Drops(e) = 0
  BY <1>1 DEF InTransit, Drops
<1>. QED BY <1>1, <1>2, OccurrencesEmpty DEF Places, Event

(***************************************************************************)
(* Every event the NWP has sent is queued, in a reader's hands, listed,    *)
(* handled or dropped for want of memory, and in one of these places only, *)
(* for any number of threads and events and whatever fails: no interleaving *)
(* of a command, the spawn task and the interrupt loses an event or has it *)
(* handled twice (driver.c 1738-1775, 1888-1930, 3121-3160).               *)
(***************************************************************************)
THEOREM EventsConserved == Spec => []EventConserved
<1>1. IInv /\ EventInv /\ [Next]_vars => EventInv'
  BY EventStep
<1>2. IInv /\ EventInv => EventConserved
  <2> SUFFICES ASSUME IInv, EventInv, NEW e \in 1 .. sent PROVE Places(e) = 1
    BY DEF EventConserved, Places, Drops, Async
  <2>1. sent \in 0 .. MaxEvents
    BY DEF IInv, TypeOK, MsgTypeOK
  <2>2. e \in Event /\ e <= sent
    BY <2>1, EventAssumption DEF Event
  <2>. QED BY <2>2 DEF EventInv
<1>. QED BY <1>1, <1>2, InitEvents, Invariance, PTL DEF Spec
===============================================================================
