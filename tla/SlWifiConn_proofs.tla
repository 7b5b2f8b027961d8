-------------------------- MODULE SlWifiConn_proofs --------------------------
(***************************************************************************)
(* Theorems about SlWifiConn for any sizes of its queues, any API calls    *)
(* and any states in which a reset is requested.  A handler is a script of *)
(* calls, and other threads take their steps between two of them.  Each    *)
(* script is followed from the state it starts in to where the SM rests    *)
(* (Does); ConnInv says that what is left of the script of the moment      *)
(* still leads there.  LinkInv and HaltInv add what the queued events tell *)
(* of the link and of the end of provisioning.                             *)
(***************************************************************************)
EXTENDS SlWifiConn, SequenceTheorems, TLAPS

(* What SlNetIf may have been told *)
Iface == {"down", "mac", "ip"}

(* What the application is told *)
Note == {"POWERED_DOWN", "POWERED_UP", "EXTERNAL_PROVISIONING_START_REQ", "STATS_PAUSE", "STATS_RESUME",
         "STATS_RESULT", "PROVISIONING_STARTED", "PROVISIONING_FAILED", "EXTERNAL_START_REQ",
         "EXTERNAL_STOP_REQ", "PROVISIONING_SUCCEED", "PROVISIONING_STOPPED"}

(* The calls without an argument *)
Plain == {"stats", "disconnect", "netcfg", "defer", "deferredOrWait", "reset", "provstart", "provstop",
          "oneshot", "retry", "halted"}

(* The calls a script is made of *)
Entry ==
  ({"event", "enqueue"} \X Event) \cup ({"goto"} \X State) \cup ({"netif"} \X Iface)
    \cup ({"timer", "nonpersistent"} \X BOOLEAN) \cup ({"policy"} \X {"auto", "off"})
    \cup ({"app"} \X Note) \cup (Plain \X {None})

(***************************************************************************)
(* What a script is followed through: the state, what SlNetIf was told,    *)
(* and what is known of the timer: "yes" means that it runs or its TIMEOUT *)
(* is queued, "stats" that it does if statistics are collected.            *)
(***************************************************************************)
Summary == [st : State, nf : Iface, tm : {"no", "stats", "yes"}]
At(st, nf, tm) == [st |-> st, nf |-> nf, tm |-> tm]

(* ... after call e.  "netcfg" goes on to CONNECTED or WAIT_FOR_IP *)
After(e, a) ==
  [st |-> IF e[1] = "goto" THEN e[2] ELSE IF e[1] = "netcfg" THEN "CONNECTED" ELSE a.st,
   nf |-> IF e[1] = "netif" THEN e[2] ELSE a.nf,
   tm |-> IF e[1] = "timer" THEN (IF e[2] THEN "yes" ELSE "no")
          ELSE IF e[1] \in {"stats", "netcfg"} THEN "stats"
          ELSE IF e[1] = "goto" /\ e[2] # "CONNECTED" /\ a.tm = "stats" THEN "no"
          ELSE a.tm]

(* Where g_csLock is free, statistics may be turned on or off *)
Open(a) == (a.st = "CONNECTED" => a.tm # "yes") /\ (a.tm = "stats" => a.st = "CONNECTED")

(* What a call relies on *)
May(e, a) ==
  /\ e[1] \notin {"event", "halted"}
  /\ e[1] \in {"app", "netif"} => Open(a)
  /\ e[1] = "netcfg" => a.nf # "down"
  /\ e[1] = "deferredOrWait" => a.st = "PROV_STOPPING" /\ a.nf = "down"

(* Script s takes a to b *)
Does(s, a, b) ==
  /\ s \in Seq(Entry)
  /\ \E tr \in [0 .. Len(s) -> Summary] :
       /\ tr[0] = a /\ tr[Len(s)] = b
       /\ \A i \in 1 .. Len(s) : tr[i] = After(s[i], tr[i - 1]) /\ May(s[i], tr[i - 1])

(* The summary after a call is one *)
LEMMA AfterType == ASSUME NEW e \in Entry, NEW a \in Summary PROVE After(e, a) \in Summary
<1>1. e[1] = "goto" => e[2] \in State
  BY DEF Entry, Plain
<1>2. e[1] = "netif" => e[2] \in Iface
  BY DEF Entry, Plain
<1>3. "CONNECTED" \in State
  BY DEF State
<1> QED BY <1>1, <1>2, <1>3 DEF After, Summary

(* The empty script, one call, one script after another, the first call of a script *)
LEMMA DoesNothing == ASSUME NEW a \in Summary, NEW b PROVE Does(<<>>, a, b) <=> a = b
<1>1. Does(<<>>, a, b) => a = b
  BY DEF Does
<1>2. Does(<<>>, a, a)
  <2> DEFINE tr == [i \in 0 .. 0 |-> a]
  <2>1. tr \in [0 .. 0 -> Summary] /\ tr[0] = a /\ Len(<<>>) = 0 /\ <<>> \in Seq(Entry)
    OBVIOUS
  <2>2. 1 .. 0 = {}
    OBVIOUS
  <2> HIDE DEF tr
  <2> QED BY <2>1, <2>2 DEF Does
<1> QED BY <1>1, <1>2

LEMMA DoesOne ==
  ASSUME NEW e \in Entry, NEW a \in Summary, May(e, a)
  PROVE  Does(<<e>>, a, After(e, a))
<1> DEFINE tr == [i \in 0 .. 1 |-> IF i = 0 THEN a ELSE After(e, a)]
<1>1. Len(<<e>>) = 1 /\ <<e>>[1] = e /\ <<e>> \in Seq(Entry)
  OBVIOUS
<1>2. tr \in [0 .. 1 -> Summary]
  BY AfterType
<1>3. tr[0] = a /\ tr[1] = After(e, a)
  OBVIOUS
<1> HIDE DEF tr
<1>4. \A i \in 1 .. 1 : i = 1 /\ i - 1 = 0
  OBVIOUS
<1> QED BY <1>1, <1>2, <1>3, <1>4 DEF Does

LEMMA DoesBoth ==
  ASSUME NEW s, NEW r, NEW a, NEW b, NEW c, Does(s, a, b), Does(r, b, c)
  PROVE  Does(s \o r, a, c)
<1>1. s \in Seq(Entry) /\ r \in Seq(Entry)
  BY DEF Does
<1>2. PICK m, n : m = Len(s) /\ n = Len(r)
  OBVIOUS
<1>3. m \in Nat /\ n \in Nat
  BY <1>1, <1>2, LenProperties
<1>4. PICK tr \in [0 .. m -> Summary] :
        /\ tr[0] = a /\ tr[m] = b
        /\ \A i \in 1 .. m : tr[i] = After(s[i], tr[i - 1]) /\ May(s[i], tr[i - 1])
  BY <1>2 DEF Does
<1>5. PICK ur \in [0 .. n -> Summary] :
        /\ ur[0] = b /\ ur[n] = c
        /\ \A i \in 1 .. n : ur[i] = After(r[i], ur[i - 1]) /\ May(r[i], ur[i - 1])
  BY <1>2 DEF Does
<1>6. /\ s \o r \in Seq(Entry) /\ Len(s \o r) = m + n
      /\ \A i \in 1 .. m + n : (s \o r)[i] = IF i <= m THEN s[i] ELSE r[i - m]
  BY <1>1, <1>2, ConcatProperties
<1> DEFINE vr == [i \in 0 .. m + n |-> IF i <= m THEN tr[i] ELSE ur[i - m]]
<1>7. vr \in [0 .. m + n -> Summary]
  BY <1>3, <1>4, <1>5
<1>8. vr[0] = a /\ vr[m + n] = c
  BY <1>3, <1>4, <1>5
<1>9. \A i \in 1 .. m + n : vr[i] = After((s \o r)[i], vr[i - 1]) /\ May((s \o r)[i], vr[i - 1])
  <2> TAKE i \in 1 .. m + n
  <2>1. CASE i <= m
    <3>1. vr[i] = tr[i] /\ vr[i - 1] = tr[i - 1] /\ (s \o r)[i] = s[i] /\ i \in 1 .. m
      BY <1>3, <1>6, <2>1
    <3> HIDE DEF vr
    <3> QED BY <3>1, <1>4
  <2>2. CASE ~(i <= m)
    <3>1. PICK j \in 1 .. n : j = i - m
      BY <1>3, <2>2
    <3>2. vr[i] = ur[j] /\ (s \o r)[i] = r[j]
      BY <1>3, <1>6, <2>2, <3>1
    <3>3. vr[i - 1] = ur[j - 1]
      BY <1>3, <1>4, <1>5, <2>2, <3>1
    <3> HIDE DEF vr
    <3> QED BY <3>2, <3>3, <1>5
  <2> QED BY <2>1, <2>2
<1> HIDE DEF vr
<1> QED BY <1>6, <1>7, <1>8, <1>9 DEF Does

LEMMA DoesNext ==
  ASSUME NEW s, NEW a, NEW b, Does(s, a, b), s # <<>>
  PROVE  /\ s[1] \in Entry /\ a \in Summary /\ May(s[1], a)
         /\ After(s[1], a) \in Summary /\ Does(Tail(s), After(s[1], a), b)
<1>1. s \in Seq(Entry)
  BY DEF Does
<1>2. PICK n \in Nat : Len(s) = n + 1
  BY <1>1, EmptySeq, LenProperties
<1>3. /\ Tail(s) \in Seq(Entry) /\ Len(Tail(s)) = n /\ s[1] \in Entry
      /\ \A i \in 1 .. n : Tail(s)[i] = s[i + 1]
  BY <1>1, <1>2, HeadTailProperties
<1>4. PICK tr \in [0 .. n + 1 -> Summary] :
        /\ tr[0] = a /\ tr[n + 1] = b
        /\ \A i \in 1 .. n + 1 : tr[i] = After(s[i], tr[i - 1]) /\ May(s[i], tr[i - 1])
  BY <1>2 DEF Does
<1>5. a \in Summary /\ tr[1] = After(s[1], a) /\ tr[1] \in Summary /\ May(s[1], a)
  <2>1. 0 \in 0 .. n + 1 /\ 1 \in 0 .. n + 1 /\ 1 \in 1 .. n + 1 /\ 1 - 1 = 0
    BY <1>2
  <2> QED BY <2>1, <1>4
<1> DEFINE ur == [i \in 0 .. n |-> tr[i + 1]]
<1>6. ur \in [0 .. n -> Summary] /\ ur[0] = tr[1] /\ ur[n] = b
  BY <1>2, <1>4
<1>7. \A i \in 1 .. n : ur[i] = After(Tail(s)[i], ur[i - 1]) /\ May(Tail(s)[i], ur[i - 1])
  <2> TAKE i \in 1 .. n
  <2>1. PICK j \in 1 .. n + 1 : j = i + 1
    OBVIOUS
  <2>2. ur[i] = tr[j] /\ ur[i - 1] = tr[j - 1] /\ Tail(s)[i] = s[j]
    BY <1>3, <2>1
  <2> HIDE DEF ur
  <2> QED BY <2>2, <1>4
<1> HIDE DEF ur
<1> QED BY <1>3, <1>5, <1>6, <1>7 DEF Does

-----------------------------------------------------------------------------
(* What the scripts of the transition helpers do *)

LEMMA AtType ==
  ASSUME NEW st \in State, NEW nf \in Iface, NEW tm \in {"no", "stats", "yes"}
  PROVE  /\ At(st, nf, tm) \in Summary
         /\ At(st, nf, tm).st = st /\ At(st, nf, tm).nf = nf /\ At(st, nf, tm).tm = tm
BY DEF At, Summary

LEMMA SummaryAt ==
  ASSUME NEW a \in Summary
  PROVE  a.st \in State /\ a.nf \in Iface /\ a.tm \in {"no", "stats", "yes"} /\ At(a.st, a.nf, a.tm) = a
BY DEF At, Summary

(* Calls that change nothing of a summary *)
LEMMA AfterOther ==
  ASSUME NEW e, NEW a \in Summary, e[1] \notin {"goto", "netcfg", "netif", "timer", "stats"}
  PROVE  After(e, a) = a
<1>1. After(e, a) = At(a.st, a.nf, a.tm)
  BY DEF After, At
<1> QED BY <1>1, SummaryAt

LEMMA OtherDoes ==
  ASSUME NEW e \in Entry, NEW a \in Summary, May(e, a),
         e[1] \notin {"goto", "netcfg", "netif", "timer", "stats"}
  PROVE  Does(<<e>>, a, a)
BY DoesOne, AfterOther

LEMMA PlainDoes ==
  ASSUME NEW a \in Summary, NEW x \in Plain \ {"stats", "netcfg", "deferredOrWait", "halted"}
  PROVE  Does(<< <<x, None>> >>, a, a)
BY OtherDoes DEF Entry, Plain, May

LEMMA AppDoes ==
  ASSUME NEW a \in Summary, NEW x \in Note, Open(a)
  PROVE  Does(NotifyWifiApp(x), a, a)
BY OtherDoes DEF NotifyWifiApp, Entry, May

LEMMA PolicyDoes ==
  ASSUME NEW a \in Summary, NEW x \in {"auto", "off"}
  PROVE  Does(<< <<"policy", x>> >>, a, a)
BY OtherDoes DEF Entry, May

LEMMA EnqueueDoes ==
  ASSUME NEW a \in Summary, NEW x \in Event
  PROVE  Does(<< <<"enqueue", x>> >>, a, a)
BY OtherDoes DEF Entry, May

LEMMA NetIfDoes ==
  ASSUME NEW a \in Summary, NEW x \in Iface, Open(a)
  PROVE  Does(NotifyNetIf(x), a, At(a.st, x, a.tm))
<1>1. <<"netif", x>> \in Entry /\ May(<<"netif", x>>, a)
  BY DEF Entry, May
<1>2. After(<<"netif", x>>, a) = At(a.st, x, a.tm)
  BY DEF After, At
<1> QED BY <1>1, <1>2, DoesOne DEF NotifyNetIf

LEMMA GotoDoes ==
  ASSUME NEW a \in Summary, NEW x \in State
  PROVE  Does(Goto(x), a, At(x, a.nf, IF x # "CONNECTED" /\ a.tm = "stats" THEN "no" ELSE a.tm))
<1>1. <<"goto", x>> \in Entry /\ May(<<"goto", x>>, a)
  BY DEF Entry, May
<1>2. After(<<"goto", x>>, a) = At(x, a.nf, IF x # "CONNECTED" /\ a.tm = "stats" THEN "no" ELSE a.tm)
  BY DEF After, At
<1> QED BY <1>1, <1>2, DoesOne DEF Goto

LEMMA GotoFrom ==
  ASSUME NEW st \in State, NEW nf \in Iface, NEW tm \in {"no", "stats", "yes"}, NEW x \in State
  PROVE  Does(Goto(x), At(st, nf, tm), At(x, nf, IF x # "CONNECTED" /\ tm = "stats" THEN "no" ELSE tm))
<1>1. PICK a \in Summary : a = At(st, nf, tm) /\ a.nf = nf /\ a.tm = tm
  BY AtType
<1> QED BY <1>1, GotoDoes

LEMMA TimerDoes ==
  ASSUME NEW a \in Summary
  PROVE  /\ Does(StartTimer, a, At(a.st, a.nf, "yes"))
         /\ Does(StopTimer, a, At(a.st, a.nf, "no"))
<1>1. \A b \in BOOLEAN : <<"timer", b>> \in Entry /\ May(<<"timer", b>>, a)
  BY DEF Entry, May
<1>2. /\ After(<<"timer", TRUE>>, a) = At(a.st, a.nf, "yes")
      /\ After(<<"timer", FALSE>>, a) = At(a.st, a.nf, "no")
  BY DEF After, At
<1> QED BY <1>1, <1>2, DoesOne DEF StartTimer, StopTimer

LEMMA StatsDoes ==
  ASSUME NEW a \in Summary
  PROVE  Does(<< <<"stats", None>> >>, a, At(a.st, a.nf, "stats"))
<1>1. <<"stats", None>> \in Entry /\ May(<<"stats", None>>, a)
  BY DEF Entry, Plain, May
<1>2. After(<<"stats", None>>, a) = At(a.st, a.nf, "stats")
  BY DEF After, At
<1> QED BY <1>1, <1>2, DoesOne

(* Two calls written as one sequence *)
LEMMA PairDoes ==
  ASSUME NEW e \in Entry, NEW f \in Entry, NEW a, NEW b, NEW c, Does(<<e>>, a, b), Does(<<f>>, b, c)
  PROVE  Does(<<e, f>>, a, c)
<1>1. <<e>> \o <<f>> = <<e, f>>
  <2>1. <<e>> \in Seq(Entry) /\ <<f>> \in Seq(Entry) /\ <<e, f>> \in Seq(Entry)
        /\ Len(<<e>>) = 1 /\ Len(<<f>>) = 1 /\ Len(<<e, f>>) = 2
    OBVIOUS
  <2>2. /\ <<e>> \o <<f>> \in Seq(Entry) /\ Len(<<e>> \o <<f>>) = 2
        /\ (<<e>> \o <<f>>)[1] = e /\ (<<e>> \o <<f>>)[2] = f
    BY <2>1, ConcatProperties
  <2>3. PICK p \in Seq(Entry), q \in Seq(Entry) : p = <<e>> \o <<f>> /\ q = <<e, f>>
    BY <2>1, <2>2
  <2>4. Len(p) = Len(q) /\ \A i \in 1 .. Len(p) : p[i] = q[i]
    <3>1. Len(p) = 2 /\ Len(q) = 2 /\ p[1] = e /\ p[2] = f /\ q[1] = e /\ q[2] = f
      BY <2>1, <2>2, <2>3
    <3>2. \A i \in 1 .. 2 : i = 1 \/ i = 2
      OBVIOUS
    <3> QED BY <3>1, <3>2
  <2> QED BY <2>3, <2>4, SeqEqual
<1> QED BY <1>1, DoesBoth

LEMMA PowerDoes ==
  ASSUME NEW a \in Summary, Open(a)
  PROVE  Does(SuspendNWP, a, a) /\ Does(ResumeNWP, a, a)
<1>1. /\ <<"policy", "off">> \in Entry /\ <<"policy", "auto">> \in Entry
      /\ <<"app", "POWERED_DOWN">> \in Entry /\ <<"app", "POWERED_UP">> \in Entry
  BY DEF Entry, Note
<1>2. /\ Does(<< <<"policy", "off">> >>, a, a) /\ Does(<< <<"policy", "auto">> >>, a, a)
      /\ Does(<< <<"app", "POWERED_DOWN">> >>, a, a) /\ Does(<< <<"app", "POWERED_UP">> >>, a, a)
  BY PolicyDoes, AppDoes DEF NotifyWifiApp, Note
<1> QED BY <1>1, <1>2, PairDoes DEF SuspendNWP, ResumeNWP

LEMMA EnterWAIT_FOR_CONNDoes ==
  ASSUME NEW a \in Summary, NEW d \in BOOLEAN
  PROVE  Does(EnterWAIT_FOR_CONN(d), a, At("WAIT_FOR_CONN", a.nf, "yes"))
<1>1. <<"defer", None>> \in Entry /\ <<"nonpersistent", d>> \in Entry
  BY DEF Entry, Plain
<1>2. Does(<< <<"defer", None>> >>, a, a) /\ Does(<< <<"nonpersistent", d>> >>, a, a)
  BY <1>1, OtherDoes DEF May
<1>3. Does(<< <<"defer", None>>, <<"nonpersistent", d>> >>, a, a)
  BY <1>1, <1>2, PairDoes
<1>4. Does(StartTimer, a, At(a.st, a.nf, "yes"))
  BY TimerDoes
<1>5. Does(Goto("WAIT_FOR_CONN"), At(a.st, a.nf, "yes"), At("WAIT_FOR_CONN", a.nf, "yes"))
  BY SummaryAt, GotoFrom DEF State
<1> QED BY <1>3, <1>4, <1>5, DoesBoth DEF EnterWAIT_FOR_CONN

LEMMA EnterIDLEDoes ==
  ASSUME NEW a \in Summary, Open(a)
  PROVE  Does(EnterIDLE, a, At("IDLE", a.nf, "yes"))
<1>1. Does(SuspendNWP, a, a)
  BY PowerDoes
<1>2. Does(StartTimer, a, At(a.st, a.nf, "yes"))
  BY TimerDoes
<1>3. Does(Goto("IDLE"), At(a.st, a.nf, "yes"), At("IDLE", a.nf, "yes"))
  BY SummaryAt, GotoFrom DEF State
<1> QED BY <1>1, <1>2, <1>3, DoesBoth DEF EnterIDLE

LEMMA EnterCONNECTEDDoes ==
  ASSUME NEW a \in Summary
  PROVE  /\ Does(EnterCONNECTED(TRUE), a, At("CONNECTED", "ip", "stats"))
         /\ Does(EnterCONNECTED(FALSE), a, At("CONNECTED", a.nf, "stats"))
<1>1. Does(StopTimer, a, At(a.st, a.nf, "no"))
  BY TimerDoes
<1>2. /\ Does(NotifyNetIf("ip"), At(a.st, a.nf, "no"), At(a.st, "ip", "no"))
      /\ Does(<<>>, At(a.st, a.nf, "no"), At(a.st, a.nf, "no"))
  BY SummaryAt, AtType, NetIfDoes, DoesNothing DEF Iface, Open
<1>3. ASSUME NEW nf \in Iface, NEW s, Does(s, At(a.st, a.nf, "no"), At(a.st, nf, "no"))
      PROVE  Does(StopTimer \o s \o << <<"stats", None>> >> \o Goto("CONNECTED"), a, At("CONNECTED", nf, "stats"))
  <2>1. Does(<< <<"stats", None>> >>, At(a.st, nf, "no"), At(a.st, nf, "stats"))
    BY SummaryAt, AtType, StatsDoes
  <2>2. Does(Goto("CONNECTED"), At(a.st, nf, "stats"), At("CONNECTED", nf, "stats"))
    BY SummaryAt, GotoFrom DEF State
  <2> QED BY <1>1, <1>3, <2>1, <2>2, DoesBoth
<1>4. "ip" \in Iface /\ a.nf \in Iface
  BY SummaryAt DEF Iface
<1> QED BY <1>2, <1>3, <1>4 DEF EnterCONNECTED

LEMMA EnterWAIT_FOR_IPDoes ==
  ASSUME NEW a \in Summary, Open(a)
  PROVE  Does(EnterWAIT_FOR_IP, a, At("CONNECTED", "mac", "stats"))
<1>1. Does(NotifyNetIf("mac"), a, At(a.st, "mac", a.tm))
  BY NetIfDoes DEF Iface
<1>2. Does(<< <<"netcfg", None>> >>, At(a.st, "mac", a.tm), At("CONNECTED", "mac", "stats"))
  <2> DEFINE b == At(a.st, "mac", a.tm)
  <2>1. b \in Summary /\ b.nf = "mac"
    BY SummaryAt, AtType DEF Iface
  <2>2. <<"netcfg", None>> \in Entry /\ May(<<"netcfg", None>>, b)
    BY <2>1 DEF Entry, Plain, May
  <2>3. After(<<"netcfg", None>>, b) = At("CONNECTED", "mac", "stats")
    BY <2>1 DEF After, At
  <2> QED BY <2>1, <2>2, <2>3, DoesOne
<1> QED BY <1>1, <1>2, DoesBoth DEF EnterWAIT_FOR_IP

LEMMA EnterPROVISIONINGDoes ==
  ASSUME NEW a \in Summary, Open(a)
  PROVE  \E st \in {"PROVISIONING", "EXT_PROVISIONING"} :
           Does(EnterPROVISIONING, a, At(st, a.nf, "yes"))
<1>1. ASSUME NEW s, NEW st \in State, NEW tm \in {"no", "stats", "yes"}, Does(s, a, At(st, a.nf, tm))
      PROVE  Does(s \o StartTimer, a, At(st, a.nf, "yes"))
  <2>1. Does(StartTimer, At(st, a.nf, tm), At(st, a.nf, "yes"))
    BY SummaryAt, AtType, TimerDoes
  <2> QED BY <1>1, <2>1, DoesBoth
<1>2. PICK tm \in {"no", "stats", "yes"} : tm = IF a.tm = "stats" THEN "no" ELSE a.tm
  BY SummaryAt
<1>3. CASE provCmd = "ext"
  <2>1. Does(NotifyWifiApp("EXTERNAL_PROVISIONING_START_REQ"), a, a)
    BY AppDoes DEF Note
  <2>2. Does(Goto("EXT_PROVISIONING"), a, At("EXT_PROVISIONING", a.nf, tm))
    BY <1>2, GotoDoes DEF State
  <2>3. "EXT_PROVISIONING" \in State
    BY DEF State
  <2> QED BY <1>1, <1>3, <2>1, <2>2, <2>3, DoesBoth DEF EnterPROVISIONING
<1>4. CASE provCmd # "ext"
  <2>1. Does(<< <<"provstart", None>> >>, a, a)
    BY PlainDoes DEF Plain
  <2>2. Does(Goto("PROVISIONING"), a, At("PROVISIONING", a.nf, tm))
    BY <1>2, GotoDoes DEF State
  <2>3. "PROVISIONING" \in State
    BY DEF State
  <2>4. Does(<< <<"oneshot", None>> >>, At("PROVISIONING", a.nf, tm), At("PROVISIONING", a.nf, tm))
    BY <2>3, SummaryAt, AtType, PlainDoes DEF Plain
  <2> QED BY <1>1, <1>4, <2>1, <2>2, <2>3, <2>4, DoesBoth DEF EnterPROVISIONING
<1> QED BY <1>3, <1>4

LEMMA EnterPROV_STOPPINGDoes ==
  ASSUME NEW a \in Summary, NEW e \in Event \cup {None}
  PROVE  Does(EnterPROV_STOPPING(e), a, At("PROV_STOPPING", a.nf, "no"))
<1> DEFINE b == At(a.st, a.nf, "no")
<1>0. b \in Summary /\ b.nf = a.nf /\ b.tm = "no"
  BY SummaryAt, AtType
<1>1. Does(StopTimer, a, b)
  BY TimerDoes
<1>2. Does(IF e = None THEN <<>> ELSE << <<"enqueue", e>> >>, b, b)
  BY <1>0, DoesNothing, EnqueueDoes
<1>3. Does(<< <<"provstop", None>> >>, b, b)
  BY <1>0, PlainDoes DEF Plain
<1>4. Does(Goto("PROV_STOPPING"), b, At("PROV_STOPPING", a.nf, "no"))
  BY <1>0, GotoDoes DEF State
<1> HIDE DEF b
<1> QED BY <1>1, <1>2, <1>3, <1>4, DoesBoth DEF EnterPROV_STOPPING

LEMMA CollectDoes ==
  ASSUME NEW a \in Summary, Open(a)
  PROVE  Does(CollectAndNotifyStats, a, At(a.st, a.nf, "stats"))
<1>1. /\ Does(NotifyWifiApp("STATS_PAUSE"), a, a) /\ Does(NotifyWifiApp("STATS_RESUME"), a, a)
      /\ Does(NotifyWifiApp("STATS_RESULT"), a, a)
  BY AppDoes DEF Note
<1> QED BY <1>1, StatsDoes, DoesBoth DEF CollectAndNotifyStats

-----------------------------------------------------------------------------
(* Where a handler leads *)

(* The states the timer watches, statistics aside *)
Resting == {"IDLE", "WAIT_FOR_CONN", "WAIT_FOR_IP", "PROVISIONING", "EXT_PROVISIONING"}

Agree(st, nf) ==
  /\ st = "CONNECTED" => nf # "down"
  /\ st \notin {"CONNECTED", "WAIT_FOR_IP"} => nf = "down"

(* A summary in which the SM may rest *)
Good(b) ==
  /\ b \in Summary /\ Agree(b.st, b.nf)
  /\ b.st \in Resting => b.tm = "yes"
  /\ b.st = "CONNECTED" <=> b.tm = "stats"

(* The script leads to one *)
Ends(s, a) == \E b : Does(s, a, b) /\ Good(b)

(* What is known when event e has been taken from the queue *)
Ready(e, a) ==
  /\ e \in Event /\ a \in Summary /\ a.st = state /\ Agree(a.st, a.nf)
  /\ a.st \in Resting /\ e # "TIMEOUT" => a.tm = "yes"
  /\ a.st = "CONNECTED" /\ (e # "TIMEOUT" \/ ~bStatsEnabled) => a.tm = "stats"
  /\ Open(a)

(* A script that leads to a state known by its name *)
LEMMA Final ==
  ASSUME NEW st \in State, NEW nf \in Iface, NEW tm \in {"no", "yes"}, Agree(st, nf), st # "CONNECTED",
         st \in Resting => tm = "yes", NEW s, NEW a, Does(s, a, At(st, nf, tm))
  PROVE  Ends(s, a)
BY AtType DEF Good, Ends

LEMMA FinalConnected ==
  ASSUME NEW nf \in {"mac", "ip"}, NEW s, NEW a, Does(s, a, At("CONNECTED", nf, "stats"))
  PROVE  Ends(s, a)
<1>1. Good(At("CONNECTED", nf, "stats"))
  BY AtType DEF Good, Agree, Resting, State, Iface
<1> QED BY <1>1 DEF Ends

LEMMA WaitsForConn ==
  ASSUME NEW a, NEW b \in Summary, NEW s, NEW d \in BOOLEAN, Does(s, a, b), b.nf = "down"
  PROVE  Ends(s \o EnterWAIT_FOR_CONN(d), a)
<1>1. Does(EnterWAIT_FOR_CONN(d), b, At("WAIT_FOR_CONN", "down", "yes"))
  BY EnterWAIT_FOR_CONNDoes
<1> QED BY <1>1, DoesBoth, Final DEF State, Iface, Resting, Agree

(* EnterX on its own *)
LEMMA Enters ==
  ASSUME NEW a \in Summary, NEW e \in Event \cup {None}, NEW d \in BOOLEAN
  PROVE  /\ a.nf = "down" => Ends(EnterWAIT_FOR_CONN(d), a) /\ Ends(EnterPROV_STOPPING(e), a)
         /\ a.nf = "down" /\ Open(a) => Ends(EnterIDLE, a) /\ Ends(EnterPROVISIONING, a)
         /\ Ends(EnterCONNECTED(TRUE), a)
         /\ Open(a) => Ends(EnterWAIT_FOR_IP, a)
<1> USE DEF State, Iface, Resting, Agree
<1>1. a.nf = "down" => Ends(EnterWAIT_FOR_CONN(d), a)
  BY EnterWAIT_FOR_CONNDoes, Final
<1>2. a.nf = "down" => Ends(EnterPROV_STOPPING(e), a)
  BY EnterPROV_STOPPINGDoes, Final
<1>3. a.nf = "down" /\ Open(a) => Ends(EnterIDLE, a)
  BY EnterIDLEDoes, Final
<1>4. ASSUME a.nf = "down", Open(a) PROVE Ends(EnterPROVISIONING, a)
  <2>1. PICK st \in {"PROVISIONING", "EXT_PROVISIONING"} : Does(EnterPROVISIONING, a, At(st, "down", "yes"))
    BY <1>4, EnterPROVISIONINGDoes
  <2> QED BY <2>1, Final
<1>5. Ends(EnterCONNECTED(TRUE), a)
  BY EnterCONNECTEDDoes, FinalConnected
<1>6. Open(a) => Ends(EnterWAIT_FOR_IP, a)
  BY EnterWAIT_FOR_IPDoes, FinalConnected
<1> QED BY <1>1, <1>2, <1>3, <1>4, <1>5, <1>6

(* Calls before a script *)
LEMMA FirstDoes ==
  ASSUME NEW s, NEW r, NEW a, NEW b, Does(s, a, b), Ends(r, b)
  PROVE  Ends(s \o r, a)
BY DoesBoth DEF Ends

(* An event that is dropped *)
LEMMA Dropped ==
  ASSUME NEW e, NEW a, Ready(e, a), e = "TIMEOUT" => a.st \notin Resting \cup {"CONNECTED"}
  PROVE  Ends(<<>>, a)
<1>1. Good(a)
  BY SummaryAt DEF Ready, Good, Open
<1> QED BY <1>1, DoesNothing DEF Ends, Ready

LEMMA UnsupportedEnds ==
  ASSUME NEW e, NEW a, Ready(e, a), e = "TIMEOUT" => a.st \notin Resting \cup {"CONNECTED"}
  PROVE  Ends(Unsupported(e), a)
<1>1. CASE e # "DISABLE"
  BY <1>1, Dropped DEF Unsupported
<1>2. CASE e = "DISABLE"
  <2>0. a \in Summary /\ Open(a) /\ a.st = state /\ Agree(a.st, a.nf)
    BY DEF Ready
  <2>1. Does(SuspendNWP, a, a)
    BY <2>0, PowerDoes
  <2>2. Does(WlanDisconnect, a, a)
    BY <2>0, PlainDoes DEF WlanDisconnect, Plain
  <2>3. Does(NotifyNetIf("down"), a, At(a.st, "down", a.tm))
    BY <2>0, NetIfDoes DEF Iface
  <2>4. Does(IF state \in {"WAIT_FOR_IP", "CONNECTED"} THEN WlanDisconnect \o NotifyNetIf("down") ELSE <<>>,
             a, At(a.st, "down", a.tm))
    <3>1. state \notin {"WAIT_FOR_IP", "CONNECTED"} => At(a.st, "down", a.tm) = a
      BY <2>0, SummaryAt DEF Agree
    <3> QED BY <2>0, <2>2, <2>3, <3>1, DoesBoth, DoesNothing
  <2>5. PICK tm \in {"no", "yes"} : tm = IF a.tm = "stats" THEN "no" ELSE a.tm
    BY <2>0, SummaryAt
  <2>6. Does(Goto("OFF"), At(a.st, "down", a.tm), At("OFF", "down", tm))
    BY <2>0, <2>5, SummaryAt, GotoFrom DEF State, Iface
  <2>7. Does(Unsupported(e), a, At("OFF", "down", tm))
    BY <1>2, <2>1, <2>4, <2>6, DoesBoth DEF Unsupported
  <2> QED BY <2>7, Final DEF State, Iface, Resting, Agree
<1> QED BY <1>1, <1>2

-----------------------------------------------------------------------------
(* The handler of each state *)

LEMMA OFFEnds ==
  ASSUME NEW e, NEW a, Ready(e, a), state = "OFF" PROVE Ends(smState_OFF(e), a)
<1>1. a \in Summary /\ Open(a) /\ a.nf = "down" /\ a.st = "OFF"
  BY DEF Ready, Agree
<1>2. CASE e = "ENABLE"
  BY <1>1, <1>2, PowerDoes, Enters, FirstDoes DEF smState_OFF
<1>3. CASE e # "ENABLE"
  BY <1>1, <1>3, Dropped, UnsupportedEnds DEF smState_OFF, Resting
<1> QED BY <1>2, <1>3

(* The timer is started anew before the SM goes on to wait for an IP address *)
LEMMA RestartEnds ==
  ASSUME NEW a \in Summary
  PROVE  Ends(StopTimer \o StartTimer \o Goto("WAIT_FOR_IP"), a)
<1>1. Does(StopTimer, a, At(a.st, a.nf, "no"))
  BY TimerDoes
<1>2. Does(StartTimer, At(a.st, a.nf, "no"), At(a.st, a.nf, "yes"))
  BY SummaryAt, AtType, TimerDoes
<1>3. Does(Goto("WAIT_FOR_IP"), At(a.st, a.nf, "yes"), At("WAIT_FOR_IP", a.nf, "yes"))
  BY SummaryAt, GotoFrom DEF State
<1>4. Does(StopTimer \o StartTimer \o Goto("WAIT_FOR_IP"), a, At("WAIT_FOR_IP", a.nf, "yes"))
  BY <1>1, <1>2, <1>3, DoesBoth
<1> QED BY <1>4, SummaryAt, Final DEF State, Agree, Resting

LEMMA IDLEEnds ==
  ASSUME NEW e, NEW a, Ready(e, a), state = "IDLE" PROVE Ends(smState_IDLE(e), a)
<1>1. a \in Summary /\ Open(a) /\ a.nf = "down" /\ a.st = "IDLE"
  BY DEF Ready, Agree
<1>2. CASE e \in {"ENABLE_PROVISIONING", "ADD_PROFILE", "TIMEOUT"}
  BY <1>1, <1>2, PowerDoes, Enters, FirstDoes DEF smState_IDLE
<1>3. CASE e = "CONNECTED"
  BY <1>1, <1>3, RestartEnds DEF smState_IDLE
<1>4. CASE e \notin {"ENABLE_PROVISIONING", "ADD_PROFILE", "TIMEOUT", "CONNECTED"}
  BY <1>1, <1>4, UnsupportedEnds DEF smState_IDLE
<1> QED BY <1>2, <1>3, <1>4

LEMMA WAIT_FOR_CONNEnds ==
  ASSUME NEW e, NEW a, Ready(e, a), state = "WAIT_FOR_CONN" PROVE Ends(smState_WAIT_FOR_CONN(e), a)
<1>1. a \in Summary /\ Open(a) /\ a.nf = "down" /\ a.st = "WAIT_FOR_CONN"
  BY DEF Ready, Agree
<1>2. CASE e \in {"ADD_PROFILE", "CONNECTED", "IP_ACQUIRED"}
  BY <1>1, <1>2, Enters DEF smState_WAIT_FOR_CONN
<1>3. CASE e = "TIMEOUT" /\ (bWlanConnectUsed \/ provMode = "OFF")
  BY <1>1, <1>3, Enters DEF smState_WAIT_FOR_CONN
<1>4. CASE e = "TIMEOUT" /\ ~bWlanConnectUsed /\ provMode # "OFF"
  <2>1. PICK st \in {"PROVISIONING", "EXT_PROVISIONING"} : Does(EnterPROVISIONING, a, At(st, "down", "yes"))
    BY <1>1, EnterPROVISIONINGDoes
  <2>2. At(st, "down", "yes") \in Summary /\ Open(At(st, "down", "yes"))
    BY AtType DEF State, Iface, Open
  <2>3. Does(NotifyWifiApp("PROVISIONING_STARTED"), At(st, "down", "yes"), At(st, "down", "yes"))
    BY <2>2, AppDoes DEF Note
  <2>4. Does(EnterPROVISIONING \o NotifyWifiApp("PROVISIONING_STARTED"), a, At(st, "down", "yes"))
    BY <2>1, <2>3, DoesBoth
  <2>5. Ends(EnterPROVISIONING \o NotifyWifiApp("PROVISIONING_STARTED"), a)
    BY <2>4, Final DEF State, Iface, Agree, Resting
  <2> QED BY <1>4, <2>5 DEF smState_WAIT_FOR_CONN
<1>5. CASE e \notin {"ADD_PROFILE", "CONNECTED", "IP_ACQUIRED", "TIMEOUT"}
  BY <1>1, <1>5, UnsupportedEnds DEF smState_WAIT_FOR_CONN
<1> QED BY <1>2, <1>3, <1>4, <1>5

LEMMA WAIT_FOR_IPEnds ==
  ASSUME NEW e, NEW a, Ready(e, a), state = "WAIT_FOR_IP" PROVE Ends(smState_WAIT_FOR_IP(e), a)
<1>1. a \in Summary /\ Open(a) /\ a.st = "WAIT_FOR_IP"
  BY DEF Ready
<1>2. CASE e = "ADD_PROFILE"
  BY <1>1, <1>2, Dropped DEF smState_WAIT_FOR_IP
<1>3. CASE e = "IP_ACQUIRED"
  BY <1>1, <1>3, Enters DEF smState_WAIT_FOR_IP
<1>4. CASE e \in {"TIMEOUT", "DISCONNECT"}
  <2>1. Does(WlanDisconnect, a, a)
    BY <1>1, PlainDoes DEF WlanDisconnect, Plain
  <2>2. Does(NotifyNetIf("down"), a, At(a.st, "down", a.tm))
    BY <1>1, NetIfDoes DEF Iface
  <2>3. At(a.st, "down", a.tm) \in Summary /\ At(a.st, "down", a.tm).nf = "down"
    BY <1>1, SummaryAt, AtType DEF Iface
  <2>4. Does(WlanDisconnect \o NotifyNetIf("down"), a, At(a.st, "down", a.tm))
    BY <2>1, <2>2, DoesBoth
  <2> QED BY <1>4, <2>2, <2>3, <2>4, WaitsForConn DEF smState_WAIT_FOR_IP
<1>5. CASE e \notin {"ADD_PROFILE", "IP_ACQUIRED", "TIMEOUT", "DISCONNECT"}
  BY <1>1, <1>5, UnsupportedEnds DEF smState_WAIT_FOR_IP
<1> QED BY <1>2, <1>3, <1>4, <1>5

LEMMA CONNECTEDEnds ==
  ASSUME NEW e, NEW a, Ready(e, a), state = "CONNECTED" PROVE Ends(smState_CONNECTED(e), a)
<1>1. a \in Summary /\ Open(a) /\ a.st = "CONNECTED" /\ a.nf \in {"mac", "ip"}
  BY SummaryAt DEF Ready, Agree, Iface
<1>2. CASE e \in {"IP_ACQUIRED", "ADD_PROFILE"}
  BY <1>1, <1>2, Dropped DEF smState_CONNECTED
<1>3. CASE e \in {"DISCONNECT", "RESET_REQUEST"}
  <2> DEFINE b == At("CONNECTED", a.nf, "no")
             c == At("CONNECTED", "down", "no")
  <2>1. b \in Summary /\ Open(b) /\ c \in Summary /\ c.nf = "down"
    BY <1>1, AtType DEF State, Iface, Open
  <2>2. Does(StopTimer, a, b)
    BY <1>1, TimerDoes
  <2>3. Does(NotifyNetIf("down"), b, c)
    BY <2>1, NetIfDoes DEF Iface, At
  <2>4. Does(ResetNWP, c, c)
    BY <2>1, PlainDoes DEF ResetNWP, Plain
  <2> HIDE DEF b, c
  <2>5. Does(StopTimer \o NotifyNetIf("down"), a, c) /\ Does(StopTimer \o NotifyNetIf("down") \o ResetNWP, a, c)
    BY <2>2, <2>3, <2>4, DoesBoth
  <2> QED BY <1>3, <2>1, <2>5, WaitsForConn DEF smState_CONNECTED
<1>4. CASE e = "IP_LOST"
  BY <1>1, <1>4, RestartEnds DEF smState_CONNECTED
<1>5. CASE e = "TIMEOUT"
  <2>1. CASE bStatsEnabled
    <3>1. Does(CollectAndNotifyStats, a, At("CONNECTED", a.nf, "stats"))
      BY <1>1, CollectDoes
    <3> QED BY <1>1, <1>5, <2>1, <3>1, FinalConnected DEF smState_CONNECTED
  <2>2. CASE ~bStatsEnabled
    <3>1. Good(a)
      BY <1>5, <2>2 DEF Ready, Good, Resting
    <3>2. Ends(<<>>, a)
      BY <1>1, <3>1, DoesNothing DEF Ends
    <3> QED BY <1>5, <2>2, <3>2 DEF smState_CONNECTED
  <2> QED BY <2>1, <2>2
<1>6. CASE e \notin {"IP_ACQUIRED", "ADD_PROFILE", "DISCONNECT", "RESET_REQUEST", "IP_LOST", "TIMEOUT"}
  BY <1>1, <1>6, UnsupportedEnds DEF smState_CONNECTED
<1> QED BY <1>2, <1>3, <1>4, <1>5, <1>6

LEMMA PROVISIONINGEnds ==
  ASSUME NEW e, NEW a, Ready(e, a), state = "PROVISIONING" PROVE Ends(smState_PROVISIONING(e), a)
<1>1. a \in Summary /\ Open(a) /\ a.nf = "down" /\ a.st = "PROVISIONING" /\ e \in Event \cup {None}
  BY DEF Ready, Agree
<1>2. CASE e = "PROV_SUCCESS"
  <2>1. Does(StopTimer, a, At("PROVISIONING", "down", "no"))
    BY <1>1, TimerDoes
  <2>2. Does(Goto("PROV_STOPPING"), At("PROVISIONING", "down", "no"), At("PROV_STOPPING", "down", "no"))
    BY GotoFrom DEF State, Iface
  <2>3. Does(StopTimer \o Goto("PROV_STOPPING"), a, At("PROV_STOPPING", "down", "no"))
    BY <2>1, <2>2, DoesBoth
  <2>4. Ends(StopTimer \o Goto("PROV_STOPPING"), a)
    BY <2>3, Final DEF State, Iface, Agree, Resting
  <2> QED BY <1>2, <2>4 DEF smState_PROVISIONING
<1>3. CASE e \in {"DISABLE", "TIMEOUT", "ADD_PROFILE"}
  BY <1>1, <1>3, Enters DEF smState_PROVISIONING
<1>4. CASE e = "ERROR"
  <2>1. Does(<< <<"retry", None>> >>, a, a)
    BY <1>1, PlainDoes DEF Plain
  <2> QED BY <1>1, <1>4, <2>1, Enters, FirstDoes DEF smState_PROVISIONING
<1>5. CASE e = "PROV_STOPPED"
  <2> DEFINE b == At("PROVISIONING", "down", "no")
  <2>1. b \in Summary /\ Open(b) /\ b.nf = "down"
    BY AtType DEF State, Iface, Open
  <2>2. Does(StopTimer, a, b)
    BY <1>1, TimerDoes
  <2>3. Does(NotifyWifiApp("PROVISIONING_FAILED"), b, b)
    BY <2>1, AppDoes DEF Note
  <2> HIDE DEF b
  <2>4. Does(StopTimer \o NotifyWifiApp("PROVISIONING_FAILED"), a, b)
    BY <2>2, <2>3, DoesBoth
  <2> QED BY <1>5, <2>1, <2>4, Enters, FirstDoes DEF smState_PROVISIONING
<1>6. CASE e = "PROV_EXT_READY"
  <2>1. Does(NotifyWifiApp("EXTERNAL_START_REQ"), a, a)
    BY <1>1, AppDoes DEF Note
  <2>2. a.tm = "yes"
    BY <1>1, <1>6 DEF Ready, Resting
  <2>3. Does(Goto("EXT_PROVISIONING"), a, At("EXT_PROVISIONING", "down", "yes"))
    BY <1>1, <2>2, GotoDoes DEF State
  <2>4. Does(smState_PROVISIONING(e), a, At("EXT_PROVISIONING", "down", "yes"))
    BY <1>6, <2>1, <2>3, DoesBoth DEF smState_PROVISIONING
  <2> QED BY <2>4, Final DEF State, Iface, Agree, Resting
<1>7. CASE e \notin {"PROV_SUCCESS", "DISABLE", "TIMEOUT", "ADD_PROFILE", "ERROR", "PROV_STOPPED", "PROV_EXT_READY"}
  BY <1>1, <1>7, UnsupportedEnds DEF smState_PROVISIONING
<1> QED BY <1>2, <1>3, <1>4, <1>5, <1>6, <1>7

LEMMA EXT_PROVISIONINGEnds ==
  ASSUME NEW e, NEW a, Ready(e, a), state = "EXT_PROVISIONING" PROVE Ends(smState_EXT_PROVISIONING(e), a)
<1>1. a \in Summary /\ Open(a) /\ a.nf = "down" /\ a.st = "EXT_PROVISIONING" /\ e \in Event
  BY DEF Ready, Agree
<1>2. /\ Does(NotifyWifiApp("EXTERNAL_STOP_REQ"), a, a)
      /\ Does(NotifyWifiApp("PROVISIONING_FAILED"), a, a)
  BY <1>1, AppDoes DEF Note
<1>3. CASE e \in {"EXT_PROV_COMPLETED", "ADD_PROFILE"}
  BY <1>1, <1>3, Enters DEF smState_EXT_PROVISIONING, Event
<1>4. CASE e = "TIMEOUT"
  <2>1. Does(NotifyWifiApp("EXTERNAL_STOP_REQ") \o NotifyWifiApp("PROVISIONING_FAILED"), a, a)
    BY <1>2, DoesBoth
  <2>2. Ends(EnterPROV_STOPPING(e), a)
    BY <1>1, Enters
  <2> QED BY <1>4, <2>1, <2>2, FirstDoes DEF smState_EXT_PROVISIONING
<1>5. CASE e = "RESET_REQUEST"
  <2>1. a.tm = "yes"
    BY <1>1, <1>5 DEF Ready, Resting
  <2>2. Does(ResetNWP, a, a)
    BY <1>1, PlainDoes DEF ResetNWP, Plain
  <2>3. Does(Goto("PROVISIONING"), a, At("PROVISIONING", "down", "yes"))
    BY <1>1, <2>1, GotoDoes DEF State
  <2>4. Does(smState_EXT_PROVISIONING(e), a, At("PROVISIONING", "down", "yes"))
    BY <1>2, <1>5, <2>2, <2>3, DoesBoth DEF smState_EXT_PROVISIONING
  <2> QED BY <2>4, Final DEF State, Iface, Agree, Resting
<1>6. CASE e \notin {"EXT_PROV_COMPLETED", "ADD_PROFILE", "TIMEOUT", "RESET_REQUEST"}
  BY <1>1, <1>6, UnsupportedEnds DEF smState_EXT_PROVISIONING
<1> QED BY <1>3, <1>4, <1>5, <1>6

LEMMA PROV_STOPPINGEnds ==
  ASSUME NEW e, NEW a, Ready(e, a), state = "PROV_STOPPING" PROVE Ends(smState_PROV_STOPPING(e), a)
<1>1. a \in Summary /\ Open(a) /\ a.nf = "down" /\ a.st = "PROV_STOPPING" /\ e \in Event
  BY DEF Ready, Agree
<1>2. CASE e = "CONNECTED"
  <2> DEFINE b == At(a.st, "mac", a.tm)
  <2>1. b \in Summary
    BY <1>1, SummaryAt, AtType DEF Iface
  <2>2. Does(NotifyWifiApp("PROVISIONING_SUCCEED"), a, a) /\ Does(NotifyNetIf("mac"), a, b)
    BY <1>1, AppDoes, NetIfDoes DEF Note, Iface
  <2> HIDE DEF b
  <2>3. Does(NotifyWifiApp("PROVISIONING_SUCCEED") \o NotifyNetIf("mac"), a, b)
    BY <2>2, DoesBoth
  <2>4. Ends(EnterCONNECTED(TRUE), b)
    BY <2>1, Enters
  <2> QED BY <1>2, <2>3, <2>4, FirstDoes DEF smState_PROV_STOPPING
<1>3. CASE e = "PROV_STOPPED"
  <2>1. <<"deferredOrWait", None>> \in Entry /\ May(<<"deferredOrWait", None>>, a)
    BY <1>1 DEF Entry, Plain, May
  <2>2. Does(<< <<"deferredOrWait", None>> >>, a, a)
    BY <1>1, <2>1, OtherDoes
  <2>3. Does(NotifyWifiApp("PROVISIONING_STOPPED"), a, a)
    BY <1>1, AppDoes DEF Note
  <2>4. Good(a)
    BY <1>1 DEF Ready, Open, Good, Resting
  <2> QED BY <1>3, <2>2, <2>3, <2>4, DoesBoth DEF smState_PROV_STOPPING, Ends
<1>4. CASE e \in {"EXT_PROV_COMPLETED", "ADD_PROFILE", "ERROR", "TIMEOUT"}
  BY <1>1, <1>4, Enters DEF smState_PROV_STOPPING
<1>5. CASE e \notin {"CONNECTED", "PROV_STOPPED", "EXT_PROV_COMPLETED", "ADD_PROFILE", "ERROR", "TIMEOUT"}
  BY <1>1, <1>5, UnsupportedEnds DEF smState_PROV_STOPPING
<1> QED BY <1>2, <1>3, <1>4, <1>5

(* Whatever the event, the handler leads to where the SM may rest *)
LEMMA HandlerEnds ==
  ASSUME NEW e, NEW a, Ready(e, a)
  PROVE  Ends(Handler(e), a)
<1>1. state \in State
  BY SummaryAt DEF Ready
<1>2. Ends(IF state = "OFF" THEN smState_OFF(e) ELSE IF state = "IDLE" THEN smState_IDLE(e)
           ELSE IF state = "WAIT_FOR_CONN" THEN smState_WAIT_FOR_CONN(e)
           ELSE IF state = "WAIT_FOR_IP" THEN smState_WAIT_FOR_IP(e)
           ELSE IF state = "CONNECTED" THEN smState_CONNECTED(e)
           ELSE IF state = "PROVISIONING" THEN smState_PROVISIONING(e)
           ELSE IF state = "EXT_PROVISIONING" THEN smState_EXT_PROVISIONING(e)
           ELSE smState_PROV_STOPPING(e), a)
  BY <1>1, OFFEnds, IDLEEnds, WAIT_FOR_CONNEnds, WAIT_FOR_IPEnds, CONNECTEDEnds, PROVISIONINGEnds,
     EXT_PROVISIONINGEnds, PROV_STOPPINGEnds DEF State
<1> QED BY <1>1, <1>2 DEF Handler, State

-----------------------------------------------------------------------------
(* The inductive invariant *)

Types ==
  /\ state \in State \cup {"GONE"}
  /\ eventQ \in Seq(Event) /\ Len(eventQ) <= EventQMax
  /\ deferQ \in Seq(Event) /\ Len(deferQ) <= DeferMax
  /\ api \in Seq({"defer", "post"} \X Event)
  /\ armed \in BOOLEAN /\ provMode \in {"OFF", "ONE_SHOT", "ON"} /\ provCmd \in {"nwp", "ext"}
  /\ nonPersistent \in BOOLEAN /\ bWlanConnectUsed \in BOOLEAN /\ bStatsEnabled \in BOOLEAN
  /\ deinit \in BOOLEAN
  /\ netif \in Iface /\ policy \in {"auto", "off"}
  /\ link \in {"down", "up", "ip", "closing"} /\ nwpProv \in {"off", "on", "stopping"}

(* The timer runs, or its TIMEOUT waits in the queue *)
Timed == armed \/ Queued("TIMEOUT")

Told(tm) == (tm = "yes" => Timed) /\ (tm = "stats" /\ bStatsEnabled => Timed)

(* The rest of the script leads from here to where the SM may rest *)
OnItsWay == \E a \in Summary : a.st = state /\ a.nf = netif /\ Told(a.tm) /\ Ends(script, a)

(* An event has been taken from the queue where the SM could rest *)
Taken(e) == /\ e \in Event /\ state \in State /\ Agree(state, netif)
            /\ Watched /\ e # "TIMEOUT" => Timed

(* What the SM is in the middle of *)
Following ==
  \/ state = "GONE" /\ script = <<>>
  \/ script = << <<"halted", None>> >>
  \/ \E e \in Event : script = << <<"event", e>> >> /\ Taken(e)
  \/ OnItsWay

(***************************************************************************)
(* Either the context is gone, or StartProvisioning waits for ever, or an  *)
(* event has just been taken from the queue, or the script in progress     *)
(* leads from the present state, interface and timer to where the SM may   *)
(* rest.                                                                   *)
(***************************************************************************)
ConnInv == Types /\ Following

(* Nothing is in progress at the start *)
LEMMA ConnInit == Init => ConnInv
<1> SUFFICES ASSUME Init PROVE ConnInv
  OBVIOUS
<1> USE DEF Init
<1>1. Types
  <2>1. /\ <<>> \in Seq(Event) /\ Len(<<>>) = 0 /\ <<>> \in Seq({"defer", "post"} \X Event)
    BY EmptySeq
  <2>2. /\ eventQ \in Seq(Event) /\ Len(eventQ) <= EventQMax /\ deferQ \in Seq(Event)
        /\ Len(deferQ) <= DeferMax /\ api \in Seq({"defer", "post"} \X Event)
    BY <2>1, QueueAssumption
  <2> QED BY <2>2 DEF Types, State, Iface
<1>2. Does(<<>>, At("OFF", "down", "no"), At("OFF", "down", "no")) /\ At("OFF", "down", "no") \in Summary
  BY AtType, DoesNothing DEF State, Iface
<1>3. OnItsWay
  BY <1>2, AtType, Final DEF OnItsWay, Told, State, Iface, Agree, Resting
<1> QED BY <1>1, <1>3 DEF ConnInv, Following

(* Where the SM rests *)
LEMMA AtRest ==
  ASSUME Following, script = <<>>, state # "GONE"
  PROVE  state \in State /\ Agree(state, netif) /\ (Watched => Timed)
<1>1. OnItsWay
  BY DEF Following
<1>2. PICK a \in Summary : a.st = state /\ a.nf = netif /\ Told(a.tm) /\ Ends(<<>>, a)
  BY <1>1 DEF OnItsWay
<1>3. Good(a)
  BY <1>2, DoesNothing DEF Ends
<1> QED BY <1>2, <1>3, SummaryAt DEF Good, Resting, Told, Watched

(* An event is posted *)
LEMMA Posted ==
  ASSUME Types, NEW e \in Event, SignalEvent(e)
  PROVE  /\ eventQ' \in Seq(Event) /\ Len(eventQ') <= EventQMax
         /\ \A x : Queued(x) => Queued(x)'
         /\ Queued(e)'
<1>1. /\ eventQ' \in Seq(Event) /\ Len(eventQ') = Len(eventQ) + 1 /\ DOMAIN eventQ = 1 .. Len(eventQ)
      /\ DOMAIN eventQ' = 1 .. Len(eventQ')
      /\ \A i \in 1 .. Len(eventQ) : eventQ'[i] = eventQ[i]
      /\ eventQ'[Len(eventQ) + 1] = e
  BY AppendProperties DEF SignalEvent, Types
<1>2. Len(eventQ) \in Nat
  BY LenProperties DEF Types
<1>3. \A x : Queued(x) => Queued(x)'
  BY <1>1, <1>2 DEF Queued
<1>4. Queued(e)'
  BY <1>1, <1>2 DEF Queued
<1> QED BY <1>1, <1>2, <1>3, <1>4, QueueAssumption DEF SignalEvent

(* A command is put off *)
LEMMA PutOff ==
  ASSUME Types, NEW e \in Event, Len(deferQ) < DeferMax, deferQ' = Append(deferQ, e)
  PROVE  deferQ' \in Seq(Event) /\ Len(deferQ') <= DeferMax
<1>1. deferQ' \in Seq(Event) /\ Len(deferQ') = Len(deferQ) + 1
  BY AppendProperties DEF Types
<1>2. Len(deferQ) \in Nat
  BY LenProperties DEF Types
<1> QED BY <1>1, <1>2, QueueAssumption

(* Steps that the SM does not notice *)
LEMMA Unnoticed ==
  ASSUME Following, UNCHANGED <<state, netif, script, bStatsEnabled>>, Timed => Timed'
  PROVE  Following'
<1>1. \A e : Taken(e) => Taken(e)'
  BY DEF Taken, Watched
<1>2. OnItsWay => OnItsWay'
  BY DEF OnItsWay, Told
<1> QED BY <1>1, <1>2 DEF Following

(* What the call the script makes next relies on *)
LEMMA NextCall ==
  ASSUME Following, script # <<>>, script[1][1] \notin {"event", "halted"}
  PROVE  \E a \in Summary :
           /\ a.st = state /\ a.nf = netif /\ Told(a.tm)
           /\ script[1] \in Entry /\ May(script[1], a)
           /\ After(script[1], a) \in Summary /\ Ends(Tail(script), After(script[1], a))
<1>1. OnItsWay
  BY DEF Following
<1>2. PICK a \in Summary : a.st = state /\ a.nf = netif /\ Told(a.tm) /\ Ends(script, a)
  BY <1>1 DEF OnItsWay
<1>3. PICK b : Does(script, a, b) /\ Good(b)
  BY <1>2 DEF Ends
<1>4. /\ script[1] \in Entry /\ May(script[1], a) /\ After(script[1], a) \in Summary
      /\ Does(Tail(script), After(script[1], a), b)
  BY <1>3, DoesNext
<1> QED BY <1>2, <1>3, <1>4 DEF Ends

(* ... and that call returns *)
LEMMA CallReturns ==
  ASSUME Following, NEW c, Call(c), c \notin {"event", "halted", "netcfg"},
         state' = IF c = "goto" THEN script[1][2] ELSE state,
         netif' = IF c = "netif" THEN script[1][2] ELSE netif,
         bStatsEnabled' = bStatsEnabled,
         c = "timer" => (script[1][2] => Timed'),
         c = "stats" => (bStatsEnabled => Timed'),
         c # "timer" => (Timed => Timed')
  PROVE  Following'
<1>1. script # <<>> /\ script[1][1] = c /\ script' = Tail(script)
  BY DEF Call
<1>2. PICK a \in Summary :
           /\ a.st = state /\ a.nf = netif /\ Told(a.tm)
           /\ After(script[1], a) \in Summary /\ Ends(script', After(script[1], a))
  BY <1>1, NextCall
<1>3. PICK b \in Summary : b = After(script[1], a)
  BY <1>2
<1>4. b.st = state' /\ b.nf = netif'
  BY <1>1, <1>2, <1>3 DEF After
<1>5. b.tm = IF c = "timer" THEN (IF script[1][2] THEN "yes" ELSE "no")
             ELSE IF c = "stats" THEN "stats"
             ELSE IF c = "goto" /\ script[1][2] # "CONNECTED" /\ a.tm = "stats" THEN "no"
             ELSE a.tm
  BY <1>1, <1>2, <1>3 DEF After
<1>6. Told(b.tm)'
  BY <1>2, <1>5 DEF Told
<1> QED BY <1>2, <1>3, <1>4, <1>6 DEF Following, OnItsWay

-----------------------------------------------------------------------------
(* The steps of the SM *)

(* mq_receive: the SM rested, so the invariant says what the handler may rely on *)
LEMMA ReceiveStep == ASSUME ConnInv, Receive PROVE ConnInv'
<1> USE DEF ConnInv
<1>1. /\ script = <<>> /\ eventQ # <<>> /\ state # "GONE" /\ eventQ' = Tail(eventQ)
      /\ script' = << <<"event", Head(eventQ)>> >>
      /\ UNCHANGED <<state, armed, netif, bStatsEnabled, deferQ, api, appVars, nwpVars, bWlanConnectUsed>>
  BY DEF Receive, ctxVars, appVars
<1>2. state \in State /\ Agree(state, netif) /\ (Watched => Timed)
  BY <1>1, AtRest
<1>3. PICK n \in Nat : Len(eventQ) = n + 1
  <2>1. eventQ # <<>> /\ eventQ \in Seq(Event)
    BY <1>1 DEF Types
  <2>2. Len(eventQ) \in Nat \ {0}
    BY <2>1, EmptySeq
  <2>3. Len(eventQ) - 1 \in Nat /\ Len(eventQ) = Len(eventQ) - 1 + 1
    BY <2>2
  <2> QED BY <2>3
<1>4. /\ Head(eventQ) \in Event /\ Head(eventQ) = eventQ[1]
      /\ eventQ' \in Seq(Event) /\ Len(eventQ') = n
      /\ \A i \in 1 .. n : eventQ'[i] = eventQ[i + 1]
  BY <1>1, <1>3, HeadTailProperties DEF Types
<1>5. DOMAIN eventQ = 1 .. n + 1 /\ DOMAIN eventQ' = 1 .. n
  BY <1>3, <1>4, LenProperties DEF Types
<1>6. Queued("TIMEOUT") /\ Head(eventQ) # "TIMEOUT" => Queued("TIMEOUT")'
  <2> HAVE Queued("TIMEOUT") /\ Head(eventQ) # "TIMEOUT"
  <2>1. PICK i \in 1 .. n + 1 : eventQ[i] = "TIMEOUT"
    BY <1>5 DEF Queued
  <2>2. i - 1 \in 1 .. n /\ eventQ'[i - 1] = eventQ[i - 1 + 1] /\ i - 1 + 1 = i
    BY <1>3, <1>4, <2>1
  <2> QED BY <1>5, <2>1, <2>2 DEF Queued
<1>7. PICK e \in Event : e = Head(eventQ)
  BY <1>4
<1>8. Following'
  <2>1. state' \in State /\ Agree(state', netif')
    BY <1>1, <1>2
  <2>2. Watched' /\ e # "TIMEOUT" => Timed'
    BY <1>1, <1>2, <1>6, <1>7 DEF Timed, Watched, appVars
  <2>3. Taken(e)'
    BY <2>1, <2>2 DEF Taken, Agree
  <2>4. script' = << <<"event", e>> >>
    BY <1>1, <1>7
  <2> QED BY <2>3, <2>4 DEF Following
<1>9. Types'
  BY <1>1, <1>3, <1>4, QueueAssumption DEF Types, appVars, nwpVars
<1> QED BY <1>8, <1>9

(* g_csLock is taken and the handler of the state chosen *)
LEMMA ProcessStep == ASSUME ConnInv, ProcessEvent PROVE ConnInv'
<1> USE DEF ConnInv
<1>1. PICK e \in Event : script = << <<"event", e>> >> /\ Taken(e)
  <2>1. ~OnItsWay
    <3> SUFFICES ASSUME OnItsWay PROVE FALSE
      OBVIOUS
    <3>1. PICK a, b : Does(script, a, b)
      BY DEF OnItsWay, Ends
    <3>2. May(script[1], a)
      BY <3>1, DoesNext DEF ProcessEvent
    <3> QED BY <3>2 DEF May, ProcessEvent
  <2> QED BY <2>1 DEF Following, ProcessEvent
<1>2. /\ script' = Handler(e)
      /\ UNCHANGED <<ctxVars, queues, api, appVars, nwpVars>>
  BY <1>1 DEF ProcessEvent
<1>3. PICK tm \in {"no", "stats", "yes"} :
        tm = IF state \in Resting /\ e # "TIMEOUT" THEN "yes"
             ELSE IF state = "CONNECTED" /\ (e # "TIMEOUT" \/ ~bStatsEnabled) THEN "stats" ELSE "no"
  OBVIOUS
<1>4. PICK a \in Summary : a.st = state /\ a.nf = netif /\ a.tm = tm
  BY <1>1, AtType DEF Taken, Types
<1>5. Ready(e, a)
  BY <1>1, <1>3, <1>4 DEF Ready, Taken, Open, Resting
<1>6. Told(tm)
  BY <1>1, <1>3 DEF Taken, Told, Watched, Resting
<1>7. Ends(script', a)
  <2>1. Ends(Handler(e), a)
    BY <1>5, HandlerEnds
  <2> QED BY <1>2, <2>1
<1>8. OnItsWay'
  BY <1>2, <1>4, <1>6, <1>7 DEF OnItsWay, Told, Timed, Queued, ctxVars, queues, appVars
<1>9. Types'
  BY <1>2 DEF Types, ctxVars, queues, appVars, nwpVars
<1> QED BY <1>8, <1>9 DEF Following

(* The context is destroyed *)
LEMMA DeinitStep == ASSUME ConnInv, Deinit PROVE ConnInv'
<1> USE DEF ConnInv
<1>1. <<>> \in Seq(Event) /\ Len(<<>>) = 0
  BY EmptySeq
<1>2. /\ eventQ' \in Seq(Event) /\ Len(eventQ') <= EventQMax
      /\ deferQ' \in Seq(Event) /\ Len(deferQ') <= DeferMax
  BY <1>1, QueueAssumption DEF Deinit
<1>3. Types'
  BY <1>2 DEF Deinit, Types
<1>4. Following'
  BY DEF Deinit, Following
<1> QED BY <1>3, <1>4

(* The calls that leave state and timer alone *)
LEMMA PlainStep ==
  ASSUME ConnInv,
         \/ CallApp \/ SetPolicy \/ CallDisconnect \/ NonPersistentProfile
         \/ EnqueueDeferred \/ CallReset \/ StopProvisioning \/ SetProvMode
  PROVE  ConnInv'
<1> USE DEF ConnInv
<1>1. PICK c \in {"app", "policy", "disconnect", "nonpersistent", "enqueue", "reset", "provstop",
                  "oneshot", "retry"} :
        /\ Call(c)
        /\ CallApp => c = "app"
        /\ SetPolicy => c = "policy"
        /\ EnqueueDeferred => c = "enqueue"
  BY DEF CallApp, SetPolicy, CallDisconnect, NonPersistentProfile, EnqueueDeferred, CallReset,
     StopProvisioning, SetProvMode, Call
<1>2. UNCHANGED <<state, armed, netif, eventQ, bStatsEnabled>>
  BY DEF CallApp, SetPolicy, CallDisconnect, NonPersistentProfile, EnqueueDeferred, CallReset,
     StopProvisioning, SetProvMode, ctxVars, queues, appVars, NwpReset
<1>3. Following'
  <2>1. Timed' = Timed
    BY <1>2 DEF Timed, Queued
  <2> QED BY <1>1, <1>2, <2>1, CallReturns
<1>4. script[1] \in Entry /\ script[1][1] = c
  <2>1. script # <<>> /\ script[1][1] = c
    BY <1>1 DEF Call
  <2> QED BY <2>1, NextCall
<1>5. Types'
  <2>1. CASE SetPolicy
    <3>1. script[1][2] \in {"auto", "off"}
      BY <1>1, <1>4, <2>1 DEF Entry, Plain
    <3> QED BY <2>1, <3>1 DEF SetPolicy, Types, ctxVars, queues, appVars
  <2>2. CASE EnqueueDeferred
    <3>1. script[1][2] \in Event
      BY <1>1, <1>4, <2>2 DEF Entry, Plain
    <3> QED BY <2>2, <3>1, PutOff DEF EnqueueDeferred, Types, ctxVars, appVars, nwpVars
  <2>3. CASE CallApp \/ CallReset \/ StopProvisioning
    BY <2>3 DEF CallApp, CallReset, StopProvisioning, Types, ctxVars, queues, appVars, nwpVars, NwpReset
  <2>4. CASE CallDisconnect \/ NonPersistentProfile
    BY <2>4 DEF CallDisconnect, NonPersistentProfile, Types, ctxVars, queues, appVars, nwpVars, Closing
  <2>5. CASE SetProvMode
    BY <2>5 DEF SetProvMode, Types, ctxVars, queues, nwpVars
  <2> QED BY <2>1, <2>2, <2>3, <2>4, <2>5
<1> QED BY <1>3, <1>5

(* The calls that change what the script is followed through *)
LEMMA ChangeStep ==
  ASSUME ConnInv, CallNetIf \/ SetState \/ SetTimer \/ StatsTimer
  PROVE  ConnInv'
<1> USE DEF ConnInv
<1>1. PICK c \in {"netif", "goto", "timer", "stats"} :
        /\ Call(c)
        /\ CallNetIf <=> c = "netif"
        /\ SetState <=> c = "goto"
        /\ SetTimer <=> c = "timer"
        /\ StatsTimer <=> c = "stats"
  BY DEF CallNetIf, SetState, SetTimer, StatsTimer, Call
<1>2. script[1] \in Entry /\ script[1][1] = c
  <2>1. script # <<>> /\ script[1][1] = c
    BY <1>1 DEF Call
  <2> QED BY <2>1, NextCall
<1>3. /\ c = "netif" => script[1][2] \in Iface
      /\ c = "goto" => script[1][2] \in State
      /\ c = "timer" => script[1][2] \in BOOLEAN
  BY <1>2 DEF Entry, Plain
<1>4. /\ state' = IF c = "goto" THEN script[1][2] ELSE state
      /\ netif' = IF c = "netif" THEN script[1][2] ELSE netif
      /\ armed' = IF c = "timer" THEN script[1][2] ELSE IF c = "stats" THEN armed \/ bStatsEnabled ELSE armed
      /\ UNCHANGED <<queues, api, appVars, nwpVars, bWlanConnectUsed>>
  BY <1>1 DEF CallNetIf, SetState, SetTimer, StatsTimer
<1>5. /\ c = "timer" => (script[1][2] => Timed')
      /\ c = "stats" => (bStatsEnabled => Timed')
      /\ c # "timer" => (Timed => Timed')
  BY <1>4 DEF Timed, Queued, queues
<1>6. bStatsEnabled' = bStatsEnabled
  BY <1>4 DEF appVars
<1>7. Following'
  BY <1>1, <1>4, <1>5, <1>6, CallReturns
<1>8. Types'
  BY <1>3, <1>4 DEF Types, queues, appVars, nwpVars
<1> QED BY <1>7, <1>8

(* sl_NetCfgGet decides between CONNECTED and WAIT_FOR_IP *)
LEMMA NetCfgStep == ASSUME ConnInv, NetCfgGet PROVE ConnInv'
<1> USE DEF ConnInv
<1>1. script = << <<"netcfg", None>> >> /\ UNCHANGED <<ctxVars, queues, api, appVars, nwpVars>>
  BY DEF NetCfgGet
<1>2. script # <<>> /\ script[1] = <<"netcfg", None>>
  BY <1>1
<1>3. PICK a \in Summary : a.st = state /\ a.nf = netif /\ Told(a.tm) /\ May(script[1], a)
  BY <1>2, NextCall
<1>4. a.nf \in {"mac", "ip"}
  BY <1>2, <1>3, SummaryAt DEF May, Iface
<1>5. Ends(EnterCONNECTED(FALSE), a)
  BY <1>4, EnterCONNECTEDDoes, FinalConnected
<1>6. Ends(StartTimer \o Goto("WAIT_FOR_IP"), a)
  <2>1. Does(StartTimer, a, At(a.st, a.nf, "yes"))
    BY TimerDoes
  <2>2. Does(Goto("WAIT_FOR_IP"), At(a.st, a.nf, "yes"), At("WAIT_FOR_IP", a.nf, "yes"))
    BY SummaryAt, GotoFrom DEF State
  <2>3. Does(StartTimer \o Goto("WAIT_FOR_IP"), a, At("WAIT_FOR_IP", a.nf, "yes"))
    BY <2>1, <2>2, DoesBoth
  <2> QED BY <2>3, SummaryAt, Final DEF State, Agree, Resting
<1>7. Ends(script', a)
  BY <1>5, <1>6 DEF NetCfgGet
<1>8. OnItsWay'
  BY <1>1, <1>3, <1>7 DEF OnItsWay, Told, Timed, Queued, ctxVars, queues, appVars
<1>9. Types'
  BY <1>1 DEF Types, ctxVars, queues, appVars, nwpVars
<1> QED BY <1>8, <1>9 DEF Following

(* PROV_STOPPED: the deferred commands, or WAIT_FOR_CONN *)
LEMMA DeferredOrWaitStep == ASSUME ConnInv, DeferredOrWait PROVE ConnInv'
<1> USE DEF ConnInv
<1>1. /\ script # <<>> /\ script[1][1] = "deferredOrWait"
      /\ UNCHANGED <<ctxVars, queues, api, appVars, nwpVars>>
  BY DEF DeferredOrWait
<1>2. PICK b \in Summary : b.st = state /\ b.nf = netif /\ May(script[1], b)
  BY <1>1, NextCall
<1>3. state = "PROV_STOPPING" /\ netif = "down"
  BY <1>1, <1>2 DEF May
<1>4. PICK a \in Summary : a.st = state /\ a.nf = netif /\ a.tm = "no" /\ a = At("PROV_STOPPING", "down", "no")
  BY <1>3, AtType DEF State, Iface
<1>5. Ends(EnterWAIT_FOR_CONN(FALSE), a)
  BY <1>3, <1>4, Enters
<1>6. Ends(<< <<"defer", None>> >>, a)
  BY <1>4, PlainDoes, Final DEF Plain, State, Iface, Agree, Resting
<1>7. Ends(script', a)
  BY <1>5, <1>6 DEF DeferredOrWait
<1>8. OnItsWay'
  BY <1>1, <1>4, <1>7 DEF OnItsWay, Told, ctxVars
<1>9. Types'
  BY <1>1 DEF Types, ctxVars, queues, appVars, nwpVars
<1> QED BY <1>8, <1>9 DEF Following

(* The deferred commands move to the event queue *)
LEMMA DeferredStep == ASSUME ConnInv, DeferredEvent PROVE ConnInv'
<1> USE DEF ConnInv
<1>1. script # <<>> /\ script[1][1] = "defer" /\ UNCHANGED <<ctxVars, api, appVars, nwpVars>>
  BY DEF DeferredEvent
<1>2. CASE deferQ = <<>>
  <2>1. Call("defer") /\ UNCHANGED queues
    BY <1>1, <1>2 DEF DeferredEvent, Call
  <2>2. Timed' = Timed
    BY <1>1, <2>1 DEF Timed, Queued, ctxVars, queues
  <2>3. Following'
    BY <1>1, <2>1, <2>2, CallReturns DEF ctxVars, appVars
  <2>4. Types'
    BY <1>1, <2>1 DEF Types, ctxVars, queues, appVars, nwpVars
  <2> QED BY <2>3, <2>4
<1>3. CASE deferQ # <<>>
  <2>1. SignalEvent(Head(deferQ)) /\ deferQ' = Tail(deferQ) /\ UNCHANGED script
    BY <1>3 DEF DeferredEvent
  <2>2. Head(deferQ) \in Event /\ deferQ' \in Seq(Event) /\ Len(deferQ') <= DeferMax
    <3>1. PICK n \in Nat : Len(deferQ) = n + 1
      <4>1. deferQ \in Seq(Event)
        BY DEF Types
      <4>2. Len(deferQ) \in Nat /\ Len(deferQ) # 0
        BY ONLY <1>3, <4>1, EmptySeq, LenProperties
      <4> QED BY ONLY <4>2
    <3>2. Head(deferQ) \in Event /\ deferQ' \in Seq(Event) /\ Len(deferQ') = n
      BY <1>3, <2>1, <3>1, HeadTailProperties DEF Types
    <3> QED BY <3>1, <3>2, QueueAssumption DEF Types
  <2>3. /\ eventQ' \in Seq(Event) /\ Len(eventQ') <= EventQMax
        /\ Queued("TIMEOUT") => Queued("TIMEOUT")'
    BY <2>1, <2>2, Posted
  <2>4. Following'
    BY <1>1, <2>1, <2>3, Unnoticed DEF Timed, ctxVars, appVars
  <2>5. Types'
    BY <1>1, <2>2, <2>3 DEF Types, ctxVars, appVars, nwpVars
  <2> QED BY <2>4, <2>5
<1> QED BY <1>2, <1>3

(* Provisioning starts, or waits for ever for a start it never hears of *)
LEMMA StartStep == ASSUME ConnInv, StartProvisioning PROVE ConnInv'
<1> USE DEF ConnInv
<1>1. script # <<>> /\ script[1][1] = "provstart" /\ UNCHANGED <<ctxVars, queues, api, appVars, policy>>
  BY DEF StartProvisioning
<1>2. Types'
  BY <1>1 DEF StartProvisioning, Types, ctxVars, queues, appVars, Closing
<1>3. CASE nwpProv = "off"
  <2>1. Call("provstart")
    BY <1>1, <1>3 DEF StartProvisioning, Call
  <2>2. Timed' = Timed
    BY <1>1 DEF Timed, Queued, ctxVars, queues
  <2> QED BY <1>1, <1>2, <2>1, <2>2, CallReturns DEF ctxVars, appVars
<1>4. CASE nwpProv # "off"
  BY <1>2, <1>4 DEF StartProvisioning, Following
<1> QED BY <1>3, <1>4

-----------------------------------------------------------------------------
(* The application, the timer and the NWP *)

(* Posts, from whatever thread *)
LEMMA PostStep ==
  ASSUME ConnInv,
         \/ \E c \in DOMAIN PostOnly : ApiPost(c)
         \/ ApiDestroy \/ ApiReturn
         \/ NwpConnect \/ NwpDisconnect \/ NwpCloses \/ NwpIpAcquired \/ NwpIpLost
         \/ ResetRequest \/ ProvEnds \/ \E e \in Event : ProvReport(e)
  PROVE  ConnInv'
<1> USE DEF ConnInv
<1>1. /\ UNCHANGED <<ctxVars, deferQ, script, provMode, provCmd, nonPersistent, bStatsEnabled, policy>>
      /\ deinit' \in BOOLEAN
  BY DEF ApiPost, ApiDestroy, ApiReturn, NwpConnect, NwpDisconnect, NwpCloses, NwpIpAcquired, NwpIpLost,
     ResetRequest, ProvEnds, ProvReport, hostVars, appVars, nwpVars, Types
<1>2. ApiReturn => api[1][2] \in Event /\ api' = <<>>
  <2> HAVE ApiReturn
  <2>1. api # <<>> /\ api \in Seq({"defer", "post"} \X Event)
    BY DEF ApiReturn, Types
  <2>2. api[1] \in {"defer", "post"} \X Event
    BY <2>1, HeadTailProperties
  <2> QED BY <2>2 DEF ApiReturn
<1>3. PICK e \in Event : SignalEvent(e)
  BY <1>2 DEF ApiPost, PostOnly, ApiDestroy, ApiReturn, NwpConnect, NwpDisconnect, NwpCloses, NwpIpAcquired,
     NwpIpLost, ResetRequest, ProvEnds, ProvReport, Event
<1>4. /\ eventQ' \in Seq(Event) /\ Len(eventQ') <= EventQMax
      /\ Queued("TIMEOUT") => Queued("TIMEOUT")'
  BY <1>3, Posted
<1>5. Following'
  BY <1>1, <1>4, Unnoticed DEF Timed, ctxVars, appVars
<1>6. api' \in Seq({"defer", "post"} \X Event)
  <2>1. api' = api \/ api' = <<>>
    BY <1>2 DEF ApiPost, ApiDestroy, NwpConnect, NwpDisconnect, NwpCloses, NwpIpAcquired, NwpIpLost,
       ResetRequest, ProvEnds, ProvReport, hostVars
  <2>2. <<>> \in Seq({"defer", "post"} \X Event)
    BY EmptySeq
  <2> QED BY <2>1, <2>2 DEF Types
<1>7. link' \in {"down", "up", "ip", "closing"} /\ nwpProv' \in {"off", "on", "stopping"}
  BY DEF Types, ApiPost, ApiDestroy, ApiReturn, NwpConnect, NwpDisconnect, NwpCloses, NwpIpAcquired, NwpIpLost,
     ResetRequest, ProvEnds, ProvReport, nwpVars
<1> QED BY <1>1, <1>4, <1>5, <1>6, <1>7 DEF Types, ctxVars, appVars

(* The timer stops, but its TIMEOUT is queued *)
LEMMA TimerStep == ASSUME ConnInv, TimerExpires PROVE ConnInv'
<1> USE DEF ConnInv
<1>1. /\ eventQ' \in Seq(Event) /\ Len(eventQ') <= EventQMax /\ Queued("TIMEOUT")'
  BY Posted DEF TimerExpires, Event
<1>2. UNCHANGED <<state, bWlanConnectUsed, netif, deferQ, script, api, appVars, nwpVars>> /\ armed' = FALSE
  BY DEF TimerExpires
<1>3. Following'
  BY <1>1, <1>2, Unnoticed DEF Timed, appVars
<1> QED BY <1>1, <1>2, <1>3 DEF Types, appVars, nwpVars

(* Calls that take g_csLock and leave the timer alone *)
LEMMA ApiStep ==
  ASSUME ConnInv,
         \/ \E mode \in Modes, command \in Commands : ApiEnableProvisioning(mode, command)
         \/ ApiAddProfile \/ ApiAddNonPersistent \/ ApiDefer \/ ApiReset
  PROVE  ConnInv'
<1> USE DEF ConnInv
<1>1. UNCHANGED <<ctxVars, eventQ, script, bStatsEnabled>>
  BY DEF ApiEnableProvisioning, ApiAddProfile, ApiAddNonPersistent, ApiDefer, ApiReset, queues, appVars
<1>2. Following'
  BY <1>1, Unnoticed DEF Timed, Queued, ctxVars
<1>3. /\ deferQ' \in Seq(Event) /\ Len(deferQ') <= DeferMax
      /\ api' \in Seq({"defer", "post"} \X Event)
  <2>1. CASE ApiDefer
    <3>1. /\ api # <<>> /\ api \in Seq({"defer", "post"} \X Event)
          /\ deferQ' = Append(deferQ, api[1][2]) /\ Len(deferQ) < DeferMax /\ api' = Tail(api)
      BY <2>1 DEF ApiDefer, Types
    <3>2. api[1] \in {"defer", "post"} \X Event /\ api' \in Seq({"defer", "post"} \X Event)
      BY <3>1, HeadTailProperties
    <3>3. api[1][2] \in Event
      BY <3>2
    <3> QED BY <3>1, <3>2, <3>3, PutOff
  <2>2. CASE ApiAddProfile
    <3>1. /\ <<"defer", "ADD_PROFILE">> \in {"defer", "post"} \X Event
          /\ <<"post", "ADD_PROFILE">> \in {"defer", "post"} \X Event
      BY DEF Event
    <3>2. /\ << <<"post", "ADD_PROFILE">> >> \in Seq({"defer", "post"} \X Event)
          /\ << <<"defer", "ADD_PROFILE">> >> \in Seq({"defer", "post"} \X Event)
          /\ <<>> \in Seq({"defer", "post"} \X Event)
      BY <3>1
    <3>3. /\ <<>> \o << <<"post", "ADD_PROFILE">> >> \in Seq({"defer", "post"} \X Event)
          /\ << <<"defer", "ADD_PROFILE">> >> \o << <<"post", "ADD_PROFILE">> >>
               \in Seq({"defer", "post"} \X Event)
      BY <3>2, ConcatProperties
    <3> QED BY <2>2, <3>3 DEF ApiAddProfile, Types, queues
  <2>3. CASE ApiReset
    BY <2>3 DEF ApiReset, Types, queues
  <2>4. CASE ApiAddNonPersistent \/ \E mode \in Modes, command \in Commands : ApiEnableProvisioning(mode, command)
    <3>1. PICK e \in {"ADD_PROFILE", "ENABLE_PROVISIONING"} : api' = << <<"post", e>> >>
      BY <2>4 DEF ApiAddNonPersistent, ApiEnableProvisioning
    <3>2. <<"post", e>> \in {"defer", "post"} \X Event
      BY DEF Event
    <3>3. api' \in Seq({"defer", "post"} \X Event)
      BY <3>1, <3>2
    <3>4. UNCHANGED queues
      BY <2>4 DEF ApiAddNonPersistent, ApiEnableProvisioning
    <3> QED BY <3>3, <3>4 DEF Types, queues
  <2> QED BY <2>1, <2>2, <2>3, <2>4
<1>4. /\ provMode' \in {"OFF", "ONE_SHOT", "ON"} /\ provCmd' \in {"nwp", "ext"} /\ nonPersistent' \in BOOLEAN
      /\ policy' \in {"auto", "off"} /\ link' \in {"down", "up", "ip", "closing"}
      /\ nwpProv' \in {"off", "on", "stopping"} /\ deinit' \in BOOLEAN
  BY ModeAssumption DEF ApiEnableProvisioning, ApiAddProfile, ApiAddNonPersistent, ApiDefer, ApiReset, NwpReset,
     Types, appVars, nwpVars
<1> QED BY <1>1, <1>2, <1>3, <1>4 DEF Types, ctxVars

(* A look at the state changes nothing the others see *)
LEMMA LookStep == ASSUME ConnInv, ApiDeinit PROVE ConnInv'
<1> USE DEF ConnInv
<1>1. /\ UNCHANGED <<ctxVars, queues, script, api, provMode, provCmd, nonPersistent, bStatsEnabled, nwpVars>>
      /\ deinit' = TRUE
  BY DEF ApiDeinit
<1>2. Queued("TIMEOUT")' <=> Queued("TIMEOUT")
  BY <1>1 DEF Queued, queues
<1>3. Following'
  BY <1>1, <1>2, Unnoticed DEF Timed, ctxVars
<1> QED BY <1>1, <1>3 DEF Types, ctxVars, queues, nwpVars

(* Statistics are turned on or off: only in CONNECTED does the timer notice *)
LEMMA StatsStep == ASSUME ConnInv, NEW b \in BOOLEAN, ApiStats(b) PROVE ConnInv'
<1> USE DEF ConnInv
<1>1. /\ Unlocked /\ state # "GONE" /\ bStatsEnabled' = b /\ armed' = IF state = "CONNECTED" THEN b ELSE armed
      /\ UNCHANGED <<state, bWlanConnectUsed, netif, queues, script, api, provMode, provCmd, nonPersistent, deinit, nwpVars>>
  BY DEF ApiStats, CsFree
<1>2. Types'
  BY <1>1 DEF Types, queues, nwpVars
<1>3. Timed' = IF state = "CONNECTED" THEN b \/ Queued("TIMEOUT") ELSE Timed
  BY <1>1 DEF Timed, Queued, queues
<1>4. \A e \in Event : Taken(e) => Taken(e)'
  BY <1>1, <1>3 DEF Taken, Watched
<1>5. OnItsWay => OnItsWay'
  <2> HAVE OnItsWay
  <2>1. PICK a \in Summary : a.st = state /\ a.nf = netif /\ Told(a.tm) /\ Ends(script, a)
    BY DEF OnItsWay
  <2>2. PICK c : Does(script, a, c) /\ Good(c)
    BY <2>1 DEF Ends
  <2>3. (a.st = "CONNECTED" => a.tm # "yes") /\ (a.tm = "stats" => a.st = "CONNECTED")
    <3>1. CASE script = <<>>
      BY <2>2, <3>1, DoesNothing, SummaryAt DEF Good
    <3>2. CASE script # <<>>
      <4>1. May(script[1], a)
        BY <2>2, <3>2, DoesNext
      <4> QED BY <1>1, <3>2, <4>1 DEF Unlocked, May, Open
    <3> QED BY <3>1, <3>2
  <2>4. Told(a.tm)'
    BY <1>1, <1>3, <2>1, <2>3 DEF Told
  <2> QED BY <1>1, <2>1, <2>4 DEF OnItsWay
<1>6. Following'
  BY <1>1, <1>4, <1>5 DEF Following
<1> QED BY <1>2, <1>6

-----------------------------------------------------------------------------
(* Every step keeps the invariant *)
LEMMA ConnStep == ConnInv /\ [Next]_vars => ConnInv'
<1> SUFFICES ASSUME ConnInv, [Next]_vars PROVE ConnInv'
  OBVIOUS
<1>1. CASE SmStep
  BY <1>1, ReceiveStep, ProcessStep, DeinitStep, PlainStep, ChangeStep, NetCfgStep, DeferredOrWaitStep,
     DeferredStep, StartStep DEF SmStep
<1>2. CASE AppStep
  BY <1>2, PostStep, LookStep, ApiStep, StatsStep DEF AppStep
<1>3. CASE TimerExpires \/ NwpStep
  BY <1>3, TimerStep, PostStep DEF NwpStep
<1>4. CASE UNCHANGED vars
  <2>1. UNCHANGED <<state, netif, script, armed, eventQ, deferQ, api, appVars, bWlanConnectUsed, nwpVars>>
    BY <1>4 DEF vars, queues
  <2>2. Following'
    BY <2>1, Unnoticed DEF ConnInv, Timed, Queued, appVars
  <2> QED BY <2>1, <2>2 DEF ConnInv, Types, appVars, nwpVars
<1> QED BY <1>1, <1>2, <1>3, <1>4 DEF Next

(***************************************************************************)
(* Whatever events arrive and however the API calls, the timer and the NWP *)
(* interleave with a handler, the handler leads to a state whose interface *)
(* and timer fit (slwificonn.c 734-1099, 1111-1512).                       *)
(***************************************************************************)
THEOREM ConnInvariance == Spec => []ConnInv
<1> QED BY ConnInit, ConnStep, PTL DEF Spec

(***************************************************************************)
(* Type correctness: neither queue outgrows what mq_open was given, and    *)
(* every script is made of the calls the SM knows.                         *)
(***************************************************************************)
THEOREM ConnTypeOK == Spec => []TypeOK
<1>1. ConnInv => TypeOK
  <2> SUFFICES ASSUME ConnInv PROVE TypeOK
    OBVIOUS
  <2>1. \A i \in DOMAIN api : api[i][1] \in {"defer", "post"} /\ api[i][2] \in Event
    <3>1. DOMAIN api = 1 .. Len(api) /\ \A i \in 1 .. Len(api) : api[i] \in {"defer", "post"} \X Event
      BY ElementOfSeq, LenProperties DEF ConnInv, Types
    <3> QED BY <3>1
  <2>2. \A i \in DOMAIN script : script[i][1] \in Ops
    <3>1. script \in Seq(Entry)
      <4>1. <<"halted", None>> \in Entry /\ \A e \in Event : <<"event", e>> \in Entry
        BY DEF Entry, Plain
      <4>2. <<>> \in Seq(Entry) /\ << <<"halted", None>> >> \in Seq(Entry)
        BY <4>1, EmptySeq
      <4>3. ASSUME NEW e \in Event
            PROVE  << <<"event", e>> >> \in Seq(Entry)
        <5>1. PICK x \in Entry : x = <<"event", e>>
          BY <4>1
        <5>2. <<x>> \in Seq(Entry)
          OBVIOUS
        <5> QED BY <5>1, <5>2
      <4>4. OnItsWay => script \in Seq(Entry)
        BY DEF OnItsWay, Ends, Does
      <4> QED BY <4>2, <4>3, <4>4 DEF ConnInv, Following
    <3>2. \A x \in Entry : x[1] \in Ops
      BY DEF Entry, Plain, Ops
    <3>3. DOMAIN script = 1 .. Len(script) /\ \A i \in 1 .. Len(script) : script[i] \in Entry
      BY <3>1, ElementOfSeq, LenProperties
    <3> QED BY <3>2, <3>3
  <2> QED BY <2>1, <2>2 DEF ConnInv, Types, TypeOK, Iface
<1> QED BY <1>1, ConnInvariance, PTL

(***************************************************************************)
(* Between two events the SM is CONNECTED only with SlNetIf up, and SlNetIf*)
(* is up only while the SM is CONNECTED or waits for an address: no order  *)
(* of a disconnect, a reset, DISABLE and a late CONNECTED or IP_ACQUIRED   *)
(* leaves them apart (slwificonn.c 963-1028, 1254-1334, 734-766).          *)
(***************************************************************************)
THEOREM NetIfTold == Spec => []NetIfAgrees
<1>1. ConnInv => NetIfAgrees
  BY AtRest DEF ConnInv, NetIfAgrees, Quiescent, Agree
<1> QED BY <1>1, ConnInvariance, PTL

(***************************************************************************)
(* Between two events the SM never waits unwatched: in every state that    *)
(* waits for something that may not come the timer runs or its TIMEOUT is  *)
(* queued, also when it expires in the middle of a handler or the          *)
(* application turns statistics on or off meanwhile (slwificonn.c          *)
(* 923-1075, 1704-1751, 2444-2487).                                        *)
(***************************************************************************)
THEOREM WatchKept == Spec => []WatchdogArmed
<1>1. ConnInv => WatchdogArmed
  BY AtRest DEF ConnInv, WatchdogArmed, Quiescent, Timed
<1> QED BY <1>1, ConnInvariance, PTL

-----------------------------------------------------------------------------
(* A stale connection.  Without resets the link goes away with a DISCONNECT *)

(* The events that say there is a link *)
Links == {"CONNECTED", "IP_ACQUIRED"}

(* What may be posted without a reset, what the host posts by itself, what it puts off *)
Posting == Event \ {"RESET_REQUEST"}
Own     == Posting \ (Links \cup {"PROV_SUCCESS"})
Delayed == {"DISABLE", "TIMEOUT", "ERROR", "EXT_PROV_COMPLETED", "ADD_PROFILE"}

(* What is left to do in an API call *)
Commanded == ({"defer"} \X Delayed) \cup ({"post"} \X Own)

(* What leads to CONNECTED, what leads away from it *)
Connecting == ({"event"} \X Links) \cup {<<"goto", "CONNECTED">>, <<"netcfg", None>>}

Parting == ({"goto"} \X (State \ {"CONNECTED"})) \cup {<<"event", "DISCONNECT">>, <<"halted", None>>}

(* The same of PROV_STOPPING; Out is what its handler leaves it for *)
Out == {"CONNECTED", "PROV_STOPPED", "EXT_PROV_COMPLETED", "ADD_PROFILE", "ERROR", "TIMEOUT", "DISABLE"}

Stopping == {<<"event", "PROV_SUCCESS">>, <<"goto", "PROV_STOPPING">>}

Leaving ==
  ({"event"} \X Out) \cup ({"goto"} \X (State \ {"PROV_STOPPING"}))
    \cup {<<"halted", None>>, <<"deferredOrWait", None>>}

(* The call by which the host itself stops provisioning *)
Stops == {<<"provstop", None>>}

(* What no script contains, and what leads to neither state *)
Never == ({"enqueue"} \X (Event \ Delayed)) \cup {<<"event", "RESET_REQUEST">>, <<"reset", None>>}

Calls == Entry \ Never
Calm  == Calls \ Connecting
Mild  == Calm \ Stopping

(* The SM is CONNECTED and stays there, or is about to get there *)
Believing ==
  \/ script \notin Seq(Entry \ Connecting)
  \/ state = "CONNECTED" /\ script \in Seq(Entry \ Parting)

(* There is a link, or its end is still to be heard of *)
Fresh == link # "down" \/ Queued("DISCONNECT")

(* Behind every event of A that is queued there is one of B *)
Before(A, B) ==
  \A i \in DOMAIN eventQ : eventQ[i] \in A => \E j \in DOMAIN eventQ : j > i /\ eventQ[j] \in B

(* Without a link, whatever tells of one is told before its end *)
Order == link = "down" => Before(Links, {"DISCONNECT"})

LinkTypes ==
  /\ script \in Seq(Calls) /\ eventQ \in Seq(Posting) /\ deferQ \in Seq(Delayed)
  /\ api \in Seq(Commanded)

LinkInv == LinkTypes /\ Order /\ (Believing => Fresh)

-----------------------------------------------------------------------------
(* Scripts of calm calls *)

LEMMA SeqMore == ASSUME NEW S, NEW T, S \subseteq T PROVE Seq(S) \subseteq Seq(T)
OBVIOUS

LEMMA CalmCalls ==
  /\ \A x \in (Plain \ {"netcfg", "halted", "reset"}) : <<x, None>> \in Mild
  /\ \A x \in Note : <<"app", x>> \in Mild
  /\ \A x \in Iface : <<"netif", x>> \in Mild
  /\ \A x \in {"auto", "off"} : <<"policy", x>> \in Mild
  /\ \A x \in BOOLEAN : <<"timer", x>> \in Mild /\ <<"nonpersistent", x>> \in Mild
  /\ \A x \in State \ {"CONNECTED", "PROV_STOPPING"} : <<"goto", x>> \in Mild
  /\ \A x \in Delayed : <<"enqueue", x>> \in Mild
  /\ <<"goto", "PROV_STOPPING">> \in Calm
  /\ \A x \in {<<"netcfg", None>>, <<"goto", "CONNECTED">>, <<"halted", None>>} : x \in Calls \ Stopping
  /\ \A x \in Posting : <<"event", x>> \in Calls
<1> USE DEF Mild, Stopping, Calm, Calls, Entry, Connecting, Never, Plain, Links, Delayed, Posting
<1>1. \A x \in (Plain \ {"netcfg", "halted", "reset"}) : <<x, None>> \in Mild
  OBVIOUS
<1>2. \A x \in Note : <<"app", x>> \in Mild
  OBVIOUS
<1>3. \A x \in Iface : <<"netif", x>> \in Mild
  OBVIOUS
<1>4. \A x \in {"auto", "off"} : <<"policy", x>> \in Mild
  OBVIOUS
<1>5. \A x \in BOOLEAN : <<"timer", x>> \in Mild /\ <<"nonpersistent", x>> \in Mild
  OBVIOUS
<1>6. \A x \in State \ {"CONNECTED", "PROV_STOPPING"} : <<"goto", x>> \in Mild
  OBVIOUS
<1>7. \A x \in Delayed : <<"enqueue", x>> \in Mild
  BY DEF Event
<1>8. /\ <<"goto", "PROV_STOPPING">> \in Calm
      /\ \A x \in {<<"netcfg", None>>, <<"goto", "CONNECTED">>, <<"halted", None>>} : x \in Calls \ Stopping
  BY DEF State
<1>9. \A x \in Posting : <<"event", x>> \in Calls
  OBVIOUS
<1> QED BY <1>1, <1>2, <1>3, <1>4, <1>5, <1>6, <1>7, <1>8, <1>9

(* A call, nothing, one script after another *)
LEMMA One == ASSUME NEW S, NEW x \in S PROVE <<x>> \in Seq(S)
OBVIOUS

LEMMA Both == ASSUME NEW S, NEW s \in Seq(S), NEW r \in Seq(S) PROVE s \o r \in Seq(S)
BY ConcatProperties

(* Taking the first call off a script *)
LEMMA RestOf ==
  ASSUME NEW S, NEW s \in Seq(S), s # <<>>
  PROVE  /\ s[1] \in S /\ Tail(s) \in Seq(S)
         /\ \A T : T \subseteq S /\ s[1] \in T /\ Tail(s) \in Seq(T) => s \in Seq(T)
         /\ \A T : s \in Seq(T) => s[1] \in T /\ Tail(s) \in Seq(T)
<1>1. PICK n \in Nat : Len(s) = n + 1
  <2>1. Len(s) \in Nat \ {0}
    BY EmptySeq
  <2>2. Len(s) - 1 \in Nat /\ Len(s) = Len(s) - 1 + 1
    BY <2>1
  <2> QED BY <2>2
<1>2. /\ s[1] \in S /\ Tail(s) \in Seq(S) /\ Len(Tail(s)) = n
      /\ \A i \in 1 .. n : Tail(s)[i] = s[i + 1]
  BY <1>1, HeadTailProperties
<1>3. ASSUME NEW T, T \subseteq S, s[1] \in T, Tail(s) \in Seq(T) PROVE s \in Seq(T)
  <2>1. \A i \in 1 .. n + 1 : s[i] \in T
    <3> TAKE i \in 1 .. n + 1
    <3>1. CASE i = 1
      BY <1>3, <3>1
    <3>2. CASE i # 1
      <4>1. i - 1 \in 1 .. n /\ i - 1 + 1 = i
        BY <3>2
      <4>2. Tail(s)[i - 1] \in T
        BY <1>2, <1>3, <4>1, ElementOfSeq
      <4> QED BY <1>2, <4>1, <4>2
    <3> QED BY <3>1, <3>2
  <2>2. s = [i \in 1 .. n + 1 |-> s[i]] /\ s \in [1 .. n + 1 -> S]
    BY <1>1, LenProperties
  <2>3. s \in [1 .. n + 1 -> T]
    BY <2>1, <2>2
  <2> QED BY <2>3
<1>4. ASSUME NEW T, s \in Seq(T) PROVE s[1] \in T /\ Tail(s) \in Seq(T)
  BY <1>4, HeadTailProperties
<1> QED BY <1>2, <1>3, <1>4

(* What a script contains, a longer one contains too *)
LEMMA Within ==
  ASSUME NEW S, NEW T, NEW s \in Seq(S), NEW q \in Seq(S), s \notin Seq(T) \/ q \notin Seq(T)
  PROVE  s \o q \notin Seq(T)
<1> SUFFICES ASSUME s \o q \in Seq(T) PROVE s \in Seq(T) /\ q \in Seq(T)
  OBVIOUS
<1>1. PICK m, n : m = Len(s) /\ n = Len(q) /\ m \in Nat /\ n \in Nat
  BY LenProperties
<1>2. /\ Len(s \o q) = m + n
      /\ \A i \in 1 .. m : (s \o q)[i] = s[i]
      /\ \A i \in 1 .. n : (s \o q)[m + i] = q[i]
  BY <1>1, ConcatProperties
<1>3. \A i \in 1 .. m + n : (s \o q)[i] \in T
  BY <1>2, ElementOfSeq
<1>4. s \in [1 .. m -> T]
  <2>1. s = [i \in 1 .. m |-> s[i]]
    BY <1>1, LenProperties
  <2>2. \A i \in 1 .. m : s[i] \in T
    BY <1>1, <1>2, <1>3
  <2> QED BY <2>1, <2>2
<1>5. q \in [1 .. n -> T]
  <2>1. q = [i \in 1 .. n |-> q[i]]
    BY <1>1, LenProperties
  <2>2. \A i \in 1 .. n : q[i] \in T
    <3> TAKE i \in 1 .. n
    <3>1. m + i \in 1 .. m + n /\ (s \o q)[m + i] = q[i]
      BY <1>1, <1>2
    <3> QED BY <1>3, <3>1
  <2> QED BY <2>1, <2>2
<1> QED BY <1>1, <1>4, <1>5

LEMMA CalmHelpers ==
  /\ <<>> \in Seq(Mild) /\ SuspendNWP \in Seq(Mild) /\ ResumeNWP \in Seq(Mild)
  /\ StartTimer \in Seq(Mild) /\ StopTimer \in Seq(Mild) /\ WlanDisconnect \in Seq(Mild)
  /\ \A x \in Iface : NotifyNetIf(x) \in Seq(Mild)
  /\ \A x \in Note : NotifyWifiApp(x) \in Seq(Mild)
  /\ \A x \in State \ {"CONNECTED", "PROV_STOPPING"} : Goto(x) \in Seq(Mild)
  /\ \A x \in {"retry", "deferredOrWait", "provstart", "provstop", "oneshot", "stats", "defer"} :
       << <<x, None>> >> \in Seq(Mild)
  /\ \A x \in BOOLEAN : << <<"defer", None>>, <<"nonpersistent", x>> >> \in Seq(Mild)
  /\ \A x \in Delayed : << <<"enqueue", x>> >> \in Seq(Mild)
<1>1. <<>> \in Seq(Mild)
  OBVIOUS
<1>2. SuspendNWP \in Seq(Mild)
  <2>1. <<"policy", "off">> \in Mild /\ <<"app", "POWERED_DOWN">> \in Mild
    BY CalmCalls DEF Note
  <2> QED BY <2>1 DEF SuspendNWP
<1>3. ResumeNWP \in Seq(Mild)
  <2>1. <<"policy", "auto">> \in Mild /\ <<"app", "POWERED_UP">> \in Mild
    BY CalmCalls DEF Note
  <2> QED BY <2>1 DEF ResumeNWP
<1>4. StartTimer \in Seq(Mild) /\ StopTimer \in Seq(Mild) /\ WlanDisconnect \in Seq(Mild)
  <2>1. <<"timer", TRUE>> \in Mild /\ <<"timer", FALSE>> \in Mild /\ <<"disconnect", None>> \in Mild
    BY CalmCalls DEF Plain
  <2> QED BY <2>1, One DEF StartTimer, StopTimer, WlanDisconnect
<1>5. \A x \in Iface : NotifyNetIf(x) \in Seq(Mild)
  BY CalmCalls, One DEF NotifyNetIf
<1>6. \A x \in Note : NotifyWifiApp(x) \in Seq(Mild)
  BY CalmCalls, One DEF NotifyWifiApp
<1>7. \A x \in State \ {"CONNECTED", "PROV_STOPPING"} : Goto(x) \in Seq(Mild)
  BY CalmCalls, One DEF Goto
<1>8. \A x \in {"retry", "deferredOrWait", "provstart", "provstop", "oneshot", "stats", "defer"} :
        << <<x, None>> >> \in Seq(Mild)
  <2> TAKE x \in {"retry", "deferredOrWait", "provstart", "provstop", "oneshot", "stats", "defer"}
  <2>1. <<x, None>> \in Mild
    BY CalmCalls DEF Plain
  <2> QED BY <2>1, One
<1>9. \A x \in BOOLEAN : << <<"defer", None>>, <<"nonpersistent", x>> >> \in Seq(Mild)
  <2> TAKE x \in BOOLEAN
  <2>1. <<"defer", None>> \in Mild /\ <<"nonpersistent", x>> \in Mild
    BY CalmCalls DEF Plain
  <2> QED BY <2>1
<1>10. \A x \in Delayed : << <<"enqueue", x>> >> \in Seq(Mild)
  BY CalmCalls, One
<1> QED BY <1>1, <1>2, <1>3, <1>4, <1>5, <1>6, <1>7, <1>8, <1>9, <1>10

(* The transition helpers *)
LEMMA CalmEnters ==
  ASSUME NEW d \in BOOLEAN, NEW e \in Delayed \cup {None}
  PROVE  /\ EnterIDLE \in Seq(Mild) /\ EnterWAIT_FOR_CONN(d) \in Seq(Mild)
         /\ EnterPROVISIONING \in Seq(Mild) /\ CollectAndNotifyStats \in Seq(Mild)
         /\ EnterPROV_STOPPING(e) \in Seq(Calm)
         /\ EnterCONNECTED(d) \in Seq(Calls \ Stopping) /\ EnterWAIT_FOR_IP \in Seq(Calls \ Stopping)
<1> USE CalmHelpers, Both
<1>1. EnterIDLE \in Seq(Mild)
  <2>1. Goto("IDLE") \in Seq(Mild)
    BY DEF State
  <2> QED BY <2>1 DEF EnterIDLE
<1>2. EnterWAIT_FOR_CONN(d) \in Seq(Mild)
  <2>1. Goto("WAIT_FOR_CONN") \in Seq(Mild)
    BY DEF State
  <2> QED BY <2>1 DEF EnterWAIT_FOR_CONN
<1>3. EnterPROVISIONING \in Seq(Mild)
  <2>1. /\ Goto("PROVISIONING") \in Seq(Mild) /\ Goto("EXT_PROVISIONING") \in Seq(Mild)
        /\ NotifyWifiApp("EXTERNAL_PROVISIONING_START_REQ") \in Seq(Mild)
        /\ << <<"provstart", None>> >> \in Seq(Mild) /\ << <<"oneshot", None>> >> \in Seq(Mild)
    BY DEF State, Note
  <2> QED BY <2>1 DEF EnterPROVISIONING
<1>4. EnterPROV_STOPPING(e) \in Seq(Calm)
  <2>0. Seq(Mild) \subseteq Seq(Calm)
    BY SeqMore DEF Mild
  <2>1. Goto("PROV_STOPPING") \in Seq(Calm)
    BY CalmCalls, One DEF Goto
  <2>2. /\ << <<"provstop", None>> >> \in Seq(Calm) /\ StopTimer \in Seq(Calm)
        /\ (IF e = None THEN <<>> ELSE << <<"enqueue", e>> >>) \in Seq(Calm)
    BY <2>0
  <2> QED BY <2>1, <2>2 DEF EnterPROV_STOPPING
<1>5. CollectAndNotifyStats \in Seq(Mild)
  <2>1. /\ NotifyWifiApp("STATS_PAUSE") \in Seq(Mild) /\ NotifyWifiApp("STATS_RESUME") \in Seq(Mild)
        /\ NotifyWifiApp("STATS_RESULT") \in Seq(Mild) /\ << <<"stats", None>> >> \in Seq(Mild)
    BY DEF Note
  <2> QED BY <2>1 DEF CollectAndNotifyStats
<1>6. Seq(Mild) \subseteq Seq(Calls \ Stopping)
  BY SeqMore DEF Mild, Calm
<1>7. EnterCONNECTED(d) \in Seq(Calls \ Stopping)
  <2>1. Goto("CONNECTED") \in Seq(Calls \ Stopping)
    BY CalmCalls, One DEF Goto
  <2>2. (IF d THEN NotifyNetIf("ip") ELSE <<>>) \in Seq(Calls \ Stopping)
    BY <1>6 DEF Iface
  <2>3. StopTimer \in Seq(Calls \ Stopping) /\ << <<"stats", None>> >> \in Seq(Calls \ Stopping)
    BY <1>6
  <2> QED BY <2>1, <2>2, <2>3 DEF EnterCONNECTED
<1>8. EnterWAIT_FOR_IP \in Seq(Calls \ Stopping)
  <2>1. NotifyNetIf("mac") \in Seq(Calls \ Stopping)
    BY <1>6 DEF Iface
  <2>2. << <<"netcfg", None>> >> \in Seq(Calls \ Stopping)
    BY CalmCalls, One
  <2> QED BY <2>1, <2>2 DEF EnterWAIT_FOR_IP
<1> QED BY <1>1, <1>2, <1>3, <1>4, <1>5, <1>7, <1>8

LEMMA StopsProvisioning == ASSUME NEW e \in Delayed \cup {None} PROVE EnterPROV_STOPPING(e) \notin Seq(Entry \ Stops)
<1>1. Seq(Mild) \subseteq Seq(Entry) /\ Seq(Calm) \subseteq Seq(Entry)
  BY SeqMore DEF Mild, Calm, Calls
<1>2. /\ << <<"provstop", None>> >> \in Seq(Entry) /\ StopTimer \in Seq(Entry)
      /\ (IF e = None THEN <<>> ELSE << <<"enqueue", e>> >>) \in Seq(Entry)
  BY <1>1, CalmHelpers
<1>3. Goto("PROV_STOPPING") \in Seq(Entry)
  BY <1>1, CalmCalls, One DEF Goto
<1>4. << <<"provstop", None>> >> \notin Seq(Entry \ Stops)
  <2>1. << <<"provstop", None>> >> \in Seq(Entry \ Stops) => << <<"provstop", None>> >>[1] \in Entry \ Stops
    BY RestOf
  <2> QED BY <2>1 DEF Stops
<1>5. StopTimer \o (IF e = None THEN <<>> ELSE << <<"enqueue", e>> >>) \in Seq(Entry)
  BY <1>2, Both
<1>6. /\ StopTimer \o (IF e = None THEN <<>> ELSE << <<"enqueue", e>> >>) \o << <<"provstop", None>> >> \in Seq(Entry)
      /\ StopTimer \o (IF e = None THEN <<>> ELSE << <<"enqueue", e>> >>) \o << <<"provstop", None>> >>
           \notin Seq(Entry \ Stops)
  BY <1>2, <1>4, <1>5, Both, Within
<1> QED BY <1>3, <1>6, Within DEF EnterPROV_STOPPING

LEMMA CalmUnsupported == ASSUME NEW e PROVE Unsupported(e) \in Seq(Mild)
<1>1. /\ SuspendNWP \in Seq(Mild) /\ WlanDisconnect \in Seq(Mild) /\ NotifyNetIf("down") \in Seq(Mild)
      /\ Goto("OFF") \in Seq(Mild) /\ <<>> \in Seq(Mild)
  BY CalmHelpers DEF State, Iface
<1>2. WlanDisconnect \o NotifyNetIf("down") \in Seq(Mild)
  BY <1>1, Both
<1>3. (IF state \in {"WAIT_FOR_IP", "CONNECTED"} THEN WlanDisconnect \o NotifyNetIf("down") ELSE <<>>) \in Seq(Mild)
  BY <1>1, <1>2
<1>4. SuspendNWP
        \o (IF state \in {"WAIT_FOR_IP", "CONNECTED"} THEN WlanDisconnect \o NotifyNetIf("down") ELSE <<>>)
        \o Goto("OFF") \in Seq(Mild)
  BY <1>1, <1>3, Both
<1> QED BY <1>1, <1>4 DEF Unsupported

-----------------------------------------------------------------------------
(* Whatever the event, no handler makes a call it never makes, and only the *)
(* events that tell of a link lead to CONNECTED                             *)

LEMMA CalmHandlers ==
  ASSUME NEW e \in Posting
  PROVE  /\ smState_OFF(e) \in Seq(Mild) /\ smState_CONNECTED(e) \in Seq(Mild)
         /\ smState_IDLE(e) \in Seq(Mild)
         /\ smState_PROVISIONING(e) \in Seq(Calm) /\ smState_EXT_PROVISIONING(e) \in Seq(Calm)
         /\ \/ e = "PROV_SUCCESS" \/ smState_PROVISIONING(e) \in Seq(Mild)
            \/ smState_PROVISIONING(e) \notin Seq(Entry \ Stops)
         /\ \/ smState_EXT_PROVISIONING(e) \in Seq(Mild)
            \/ smState_EXT_PROVISIONING(e) \notin Seq(Entry \ Stops)
         /\ e \notin Links => /\ smState_WAIT_FOR_CONN(e) \in Seq(Mild)
                              /\ smState_WAIT_FOR_IP(e) \in Seq(Mild)
                              /\ smState_PROV_STOPPING(e) \in Seq(Mild)
         /\ e \in Links => /\ smState_WAIT_FOR_CONN(e) \in Seq(Calls \ Stopping)
                           /\ smState_WAIT_FOR_IP(e) \in Seq(Calls \ Stopping)
                           /\ smState_PROV_STOPPING(e) \in Seq(Calls \ Stopping)
<1>1. /\ \A x \in Delayed \cup {None} : EnterPROV_STOPPING(x) \in Seq(Calm) /\ EnterPROV_STOPPING(x) \notin Seq(Entry \ Stops)
      /\ EnterIDLE \in Seq(Mild) /\ EnterPROVISIONING \in Seq(Mild) /\ CollectAndNotifyStats \in Seq(Mild)
      /\ \A d \in BOOLEAN : EnterWAIT_FOR_CONN(d) \in Seq(Mild)
      /\ EnterCONNECTED(TRUE) \in Seq(Calls \ Stopping) /\ EnterWAIT_FOR_IP \in Seq(Calls \ Stopping)
  <2>1. None \in Delayed \cup {None}
    OBVIOUS
  <2> QED BY <2>1, CalmEnters, StopsProvisioning
<1>2. \A x : Unsupported(x) \in Seq(Mild)
  BY CalmUnsupported
<1>3. /\ <<>> \in Seq(Mild) /\ SuspendNWP \in Seq(Mild) /\ ResumeNWP \in Seq(Mild)
      /\ StartTimer \in Seq(Mild) /\ StopTimer \in Seq(Mild) /\ WlanDisconnect \in Seq(Mild)
      /\ NotifyNetIf("down") \in Seq(Mild) /\ NotifyNetIf("mac") \in Seq(Mild)
      /\ << <<"retry", None>> >> \in Seq(Mild) /\ << <<"deferredOrWait", None>> >> \in Seq(Mild)
      /\ Goto("WAIT_FOR_IP") \in Seq(Mild) /\ Goto("EXT_PROVISIONING") \in Seq(Mild)
  BY CalmHelpers DEF Iface, State
<1>4. /\ NotifyWifiApp("PROVISIONING_STARTED") \in Seq(Mild) /\ NotifyWifiApp("PROVISIONING_FAILED") \in Seq(Mild)
      /\ NotifyWifiApp("EXTERNAL_START_REQ") \in Seq(Mild) /\ NotifyWifiApp("EXTERNAL_STOP_REQ") \in Seq(Mild)
      /\ NotifyWifiApp("PROVISIONING_SUCCEED") \in Seq(Mild) /\ NotifyWifiApp("PROVISIONING_STOPPED") \in Seq(Mild)
  BY CalmHelpers DEF Note
<1>5. /\ Seq(Mild) \subseteq Seq(Calls \ Stopping) /\ Seq(Mild) \subseteq Seq(Calm)
      /\ Seq(Mild) \subseteq Seq(Entry) /\ Seq(Calm) \subseteq Seq(Entry)
  BY SeqMore DEF Mild, Calm, Calls
<1>6. TRUE \in BOOLEAN /\ FALSE \in BOOLEAN
  OBVIOUS
<1>7. {"DISABLE", "TIMEOUT", "ERROR", "EXT_PROV_COMPLETED"} \subseteq Delayed
  BY DEF Delayed
<1>8. StopTimer \o StartTimer \o Goto("WAIT_FOR_IP") \in Seq(Mild)
  BY <1>3, Both
<1>10. smState_OFF(e) \in Seq(Mild)
  BY <1>1, <1>2, <1>3, <1>6, Both DEF smState_OFF
<1>11. smState_IDLE(e) \in Seq(Mild)
  <2>1. CASE e \in {"ENABLE_PROVISIONING", "ADD_PROFILE", "TIMEOUT"}
    BY <1>1, <1>3, <1>6, <2>1, Both DEF smState_IDLE
  <2>2. CASE e = "CONNECTED"
    BY <1>8, <2>2 DEF smState_IDLE
  <2>3. CASE e \notin {"ENABLE_PROVISIONING", "ADD_PROFILE", "TIMEOUT", "CONNECTED"}
    BY <1>2, <2>3 DEF smState_IDLE
  <2> QED BY <2>1, <2>2, <2>3
<1>12. smState_CONNECTED(e) \in Seq(Mild)
  <2>1. CASE e \in {"IP_ACQUIRED", "ADD_PROFILE"}
    BY <1>3, <2>1 DEF smState_CONNECTED
  <2>2. CASE e = "DISCONNECT"
    <3>1. StopTimer \o NotifyNetIf("down") \o EnterWAIT_FOR_CONN(FALSE) \in Seq(Mild)
      BY <1>1, <1>3, <1>6, Both
    <3> QED BY <2>2, <3>1 DEF smState_CONNECTED
  <2>3. CASE e = "IP_LOST"
    BY <1>8, <2>3 DEF smState_CONNECTED
  <2>4. CASE e = "TIMEOUT"
    BY <1>1, <1>3, <2>4 DEF smState_CONNECTED
  <2>5. CASE e \notin {"IP_ACQUIRED", "ADD_PROFILE", "DISCONNECT", "IP_LOST", "TIMEOUT"}
    BY <1>2, <2>5 DEF smState_CONNECTED, Posting
  <2> QED BY <2>1, <2>2, <2>3, <2>4, <2>5
<1>13. /\ smState_PROVISIONING(e) \in Seq(Calm)
       /\ \/ e = "PROV_SUCCESS" \/ smState_PROVISIONING(e) \in Seq(Mild)
          \/ smState_PROVISIONING(e) \notin Seq(Entry \ Stops)
  <2>1. CASE e = "PROV_SUCCESS"
    <3>1. StopTimer \o Goto("PROV_STOPPING") \in Seq(Calm)
      <4>1. Goto("PROV_STOPPING") \in Seq(Calm)
        BY CalmCalls, One DEF Goto
      <4> QED BY <1>3, <1>5, <4>1, Both
    <3> QED BY <2>1, <3>1 DEF smState_PROVISIONING
  <2>2. CASE e \in {"DISABLE", "TIMEOUT", "ADD_PROFILE"}
    BY <1>1, <1>7, <2>2 DEF smState_PROVISIONING
  <2>3. CASE e = "ERROR"
    <3>1. << <<"retry", None>> >> \o EnterPROV_STOPPING(e) \in Seq(Calm)
      BY <1>1, <1>3, <1>5, <1>7, <2>3, Both
    <3>2. << <<"retry", None>> >> \o EnterPROV_STOPPING(e) \notin Seq(Entry \ Stops)
      BY <1>1, <1>3, <1>5, <1>7, <2>3, Within
    <3> QED BY <2>3, <3>1, <3>2 DEF smState_PROVISIONING
  <2>4. CASE e = "PROV_STOPPED"
    <3>1. StopTimer \o NotifyWifiApp("PROVISIONING_FAILED") \o EnterIDLE \in Seq(Mild)
      BY <1>1, <1>3, <1>4, Both
    <3> QED BY <1>5, <2>4, <3>1 DEF smState_PROVISIONING
  <2>5. CASE e = "PROV_EXT_READY"
    <3>1. NotifyWifiApp("EXTERNAL_START_REQ") \o Goto("EXT_PROVISIONING") \in Seq(Mild)
      BY <1>3, <1>4, Both
    <3> QED BY <1>5, <2>5, <3>1 DEF smState_PROVISIONING
  <2>6. CASE e \notin {"PROV_SUCCESS", "DISABLE", "TIMEOUT", "ADD_PROFILE", "ERROR", "PROV_STOPPED", "PROV_EXT_READY"}
    BY <1>2, <1>5, <2>6 DEF smState_PROVISIONING
  <2> QED BY <2>1, <2>2, <2>3, <2>4, <2>5, <2>6
<1>14. /\ smState_EXT_PROVISIONING(e) \in Seq(Calm)
       /\ \/ smState_EXT_PROVISIONING(e) \in Seq(Mild)
          \/ smState_EXT_PROVISIONING(e) \notin Seq(Entry \ Stops)
  <2>1. CASE e \in {"EXT_PROV_COMPLETED", "ADD_PROFILE"}
    BY <1>1, <1>7, <2>1 DEF smState_EXT_PROVISIONING
  <2>2. CASE e = "TIMEOUT"
    <3>1. NotifyWifiApp("EXTERNAL_STOP_REQ") \o NotifyWifiApp("PROVISIONING_FAILED") \in Seq(Calm)
      BY <1>4, <1>5, Both
    <3>2. /\ NotifyWifiApp("EXTERNAL_STOP_REQ") \o NotifyWifiApp("PROVISIONING_FAILED") \o EnterPROV_STOPPING(e) \in Seq(Calm)
          /\ NotifyWifiApp("EXTERNAL_STOP_REQ") \o NotifyWifiApp("PROVISIONING_FAILED") \o EnterPROV_STOPPING(e)
               \notin Seq(Entry \ Stops)
      BY <1>1, <1>5, <1>7, <2>2, <3>1, Both, Within
    <3> QED BY <2>2, <3>2 DEF smState_EXT_PROVISIONING
  <2>3. CASE e \notin {"EXT_PROV_COMPLETED", "ADD_PROFILE", "TIMEOUT"}
    BY <1>2, <1>5, <2>3 DEF smState_EXT_PROVISIONING, Posting
  <2> QED BY <2>1, <2>2, <2>3
<1>15. /\ e \notin Links => smState_WAIT_FOR_CONN(e) \in Seq(Mild)
       /\ e \in Links => smState_WAIT_FOR_CONN(e) \in Seq(Calls \ Stopping)
  <2>1. CASE e = "ADD_PROFILE"
    BY <1>1, <1>6, <2>1 DEF smState_WAIT_FOR_CONN, Links
  <2>2. CASE e \in Links
    BY <1>1, <2>2 DEF smState_WAIT_FOR_CONN, Links
  <2>3. CASE e = "TIMEOUT"
    <3>1. EnterPROVISIONING \o NotifyWifiApp("PROVISIONING_STARTED") \in Seq(Mild)
      BY <1>1, <1>4, Both
    <3>2. CASE bWlanConnectUsed
      BY <1>1, <1>6, <2>3, <3>2 DEF smState_WAIT_FOR_CONN, Links
    <3>3. CASE ~bWlanConnectUsed /\ provMode = "OFF"
      BY <1>1, <2>3, <3>3 DEF smState_WAIT_FOR_CONN, Links
    <3>4. CASE ~bWlanConnectUsed /\ provMode # "OFF"
      BY <2>3, <3>1, <3>4 DEF smState_WAIT_FOR_CONN, Links
    <3> QED BY <3>2, <3>3, <3>4
  <2>4. CASE e \notin {"ADD_PROFILE", "TIMEOUT"} \cup Links
    BY <1>2, <2>4 DEF smState_WAIT_FOR_CONN, Links
  <2> QED BY <2>1, <2>2, <2>3, <2>4
<1>16. /\ e \notin Links => smState_WAIT_FOR_IP(e) \in Seq(Mild)
       /\ e \in Links => smState_WAIT_FOR_IP(e) \in Seq(Calls \ Stopping)
  <2>0. /\ WlanDisconnect \o NotifyNetIf("down") \o EnterWAIT_FOR_CONN(FALSE) \in Seq(Mild)
        /\ NotifyNetIf("down") \o EnterWAIT_FOR_CONN(FALSE) \in Seq(Mild)
    BY <1>1, <1>3, <1>6, Both
  <2>1. CASE e \in {"ADD_PROFILE", "TIMEOUT", "DISCONNECT"}
    BY <1>3, <2>0, <2>1 DEF smState_WAIT_FOR_IP, Links
  <2>2. CASE e = "IP_ACQUIRED"
    BY <1>1, <2>2 DEF smState_WAIT_FOR_IP, Links
  <2>3. CASE e \notin {"ADD_PROFILE", "TIMEOUT", "DISCONNECT", "IP_ACQUIRED"}
    BY <1>2, <1>5, <2>3 DEF smState_WAIT_FOR_IP
  <2> QED BY <2>1, <2>2, <2>3
<1>17. /\ e \notin Links => smState_PROV_STOPPING(e) \in Seq(Mild)
       /\ e \in Links => smState_PROV_STOPPING(e) \in Seq(Calls \ Stopping)
  <2>1. CASE e = "CONNECTED"
    <3>1. NotifyWifiApp("PROVISIONING_SUCCEED") \o NotifyNetIf("mac") \o EnterCONNECTED(TRUE) \in Seq(Calls \ Stopping)
      <4>1. /\ NotifyWifiApp("PROVISIONING_SUCCEED") \in Seq(Calls \ Stopping) /\ NotifyNetIf("mac") \in Seq(Calls \ Stopping)
            /\ EnterCONNECTED(TRUE) \in Seq(Calls \ Stopping)
        BY <1>1, <1>3, <1>4, <1>5
      <4> QED BY <4>1, Both
    <3> QED BY <2>1, <3>1 DEF smState_PROV_STOPPING, Links
  <2>2. CASE e = "PROV_STOPPED"
    BY <1>3, <1>4, <2>2, Both DEF smState_PROV_STOPPING, Links
  <2>3. CASE e \in {"EXT_PROV_COMPLETED", "ADD_PROFILE", "ERROR", "TIMEOUT"}
    BY <1>1, <1>6, <2>3 DEF smState_PROV_STOPPING, Links
  <2>4. CASE e \notin {"CONNECTED", "PROV_STOPPED", "EXT_PROV_COMPLETED", "ADD_PROFILE", "ERROR", "TIMEOUT"}
    BY <1>2, <1>5, <2>4 DEF smState_PROV_STOPPING
  <2> QED BY <2>1, <2>2, <2>3, <2>4
<1> QED BY <1>10, <1>11, <1>12, <1>13, <1>14, <1>15, <1>16, <1>17

LEMMA CalmHandler ==
  ASSUME NEW e \in Posting, state \in State
  PROVE  /\ Handler(e) \in Seq(Calls)
         /\ e \notin Links \/ state = "CONNECTED" => Handler(e) \in Seq(Calm)
         /\ \/ e = "PROV_SUCCESS" \/ Handler(e) \in Seq(Calls \ Stopping)
            \/ Handler(e) \notin Seq(Entry \ Stops)
<1>1. /\ Seq(Calm) \subseteq Seq(Calls) /\ Seq(Mild) \subseteq Seq(Calm) /\ Seq(Mild) \subseteq Seq(Calls \ Stopping)
      /\ Seq(Calls \ Stopping) \subseteq Seq(Calls)
  BY SeqMore DEF Mild, Calm
<1>2. Handler(e) = IF state = "OFF" THEN smState_OFF(e) ELSE IF state = "IDLE" THEN smState_IDLE(e)
           ELSE IF state = "WAIT_FOR_CONN" THEN smState_WAIT_FOR_CONN(e)
           ELSE IF state = "WAIT_FOR_IP" THEN smState_WAIT_FOR_IP(e)
           ELSE IF state = "CONNECTED" THEN smState_CONNECTED(e)
           ELSE IF state = "PROVISIONING" THEN smState_PROVISIONING(e)
           ELSE IF state = "EXT_PROVISIONING" THEN smState_EXT_PROVISIONING(e)
           ELSE smState_PROV_STOPPING(e)
  BY DEF Handler, State
<1>3. /\ state \in {"OFF", "IDLE", "CONNECTED"} => Handler(e) \in Seq(Mild)
      /\ state \in {"WAIT_FOR_CONN", "WAIT_FOR_IP", "PROV_STOPPING"} =>
           Handler(e) \in Seq(Calls \ Stopping) /\ (e \notin Links => Handler(e) \in Seq(Mild))
      /\ state \in {"PROVISIONING", "EXT_PROVISIONING"} =>
           /\ Handler(e) \in Seq(Calm)
           /\ \/ e = "PROV_SUCCESS" \/ Handler(e) \in Seq(Mild)
              \/ Handler(e) \notin Seq(Entry \ Stops)
  BY <1>1, <1>2, CalmHandlers
<1> QED BY <1>1, <1>3 DEF State

(* A lost link takes the SM out of CONNECTED *)
LEMMA DisconnectParts == smState_CONNECTED("DISCONNECT") \notin Seq(Entry \ Parting)
<1> SUFFICES ASSUME smState_CONNECTED("DISCONNECT") \in Seq(Entry \ Parting) PROVE FALSE
  OBVIOUS
<1>1. smState_CONNECTED("DISCONNECT") = StopTimer \o NotifyNetIf("down") \o EnterWAIT_FOR_CONN(FALSE)
  BY DEF smState_CONNECTED
<1>2. smState_CONNECTED("DISCONNECT")[6] = <<"goto", "WAIT_FOR_CONN">> /\ Len(smState_CONNECTED("DISCONNECT")) = 6
  BY <1>1 DEF EnterWAIT_FOR_CONN, StopTimer, NotifyNetIf, StartTimer, Goto
<1>3. <<"goto", "WAIT_FOR_CONN">> \in Entry \ Parting
  BY <1>2, ElementOfSeq
<1> QED BY <1>3 DEF Parting, State

-----------------------------------------------------------------------------
(* The steps *)

(* The events that are left after one was added or taken *)
LEMMA AddedEvent ==
  ASSUME eventQ \in Seq(Posting), NEW e \in Posting, SignalEvent(e)
  PROVE  /\ eventQ' \in Seq(Posting)
         /\ Queued(e)' /\ \A x : Queued(x) => Queued(x)'
         /\ \A A, B : e \notin A /\ (Before(A, B) \/ e \in B) => Before(A, B)'
<1>1. PICK n \in Nat : n = Len(eventQ)
  BY LenProperties
<1>2. /\ eventQ' \in Seq(Posting) /\ Len(eventQ') = n + 1
      /\ \A i \in 1 .. n : eventQ'[i] = eventQ[i]
      /\ eventQ'[n + 1] = e
  BY <1>1, AppendProperties DEF SignalEvent
<1>3. DOMAIN eventQ = 1 .. n /\ DOMAIN eventQ' = 1 .. n + 1
  BY <1>1, <1>2, LenProperties
<1>4. Queued(e)' /\ \A x : Queued(x) => Queued(x)'
  BY <1>2, <1>3 DEF Queued
<1>5. ASSUME NEW A, NEW B, e \notin A, Before(A, B) \/ e \in B PROVE Before(A, B)'
  <2> SUFFICES ASSUME NEW i \in DOMAIN eventQ', eventQ'[i] \in A
               PROVE  \E j \in DOMAIN eventQ' : j > i /\ eventQ'[j] \in B
    BY DEF Before
  <2>1. i \in 1 .. n /\ eventQ[i] \in A
    BY <1>2, <1>3, <1>5
  <2>2. CASE e \in B
    <3>1. n + 1 \in DOMAIN eventQ' /\ n + 1 > i
      BY <1>3, <2>1
    <3> QED BY <1>2, <2>2, <3>1
  <2>3. CASE Before(A, B)
    <3>1. PICK j \in DOMAIN eventQ : j > i /\ eventQ[j] \in B
      BY <1>3, <2>1, <2>3 DEF Before
    <3>2. j \in DOMAIN eventQ' /\ eventQ'[j] \in B
      BY <1>2, <1>3, <3>1
    <3> QED BY <3>1, <3>2
  <2> QED BY <1>5, <2>2, <2>3
<1> QED BY <1>2, <1>4, <1>5

LEMMA TakenEvent ==
  ASSUME eventQ \in Seq(Posting), eventQ # <<>>, eventQ' = Tail(eventQ)
  PROVE  /\ Head(eventQ) \in Posting /\ eventQ' \in Seq(Posting)
         /\ \A x : Queued(x) /\ Head(eventQ) # x => Queued(x)'
         /\ \A A, B : Before(A, B) => Before(A, B)'
         /\ \A A, B : Before(A, B) /\ Head(eventQ) \in A => \E x \in B : Queued(x)'
<1>1. PICK n \in Nat : Len(eventQ) = n + 1
  <2>1. Len(eventQ) \in Nat \ {0}
    BY EmptySeq
  <2>2. Len(eventQ) - 1 \in Nat /\ Len(eventQ) = Len(eventQ) - 1 + 1
    BY <2>1
  <2> QED BY <2>2
<1>2. /\ Head(eventQ) \in Posting /\ Head(eventQ) = eventQ[1]
      /\ eventQ' \in Seq(Posting) /\ Len(eventQ') = n
      /\ \A i \in 1 .. n : eventQ'[i] = eventQ[i + 1]
  BY <1>1, HeadTailProperties
<1>3. DOMAIN eventQ = 1 .. n + 1 /\ DOMAIN eventQ' = 1 .. n
  BY <1>1, <1>2, LenProperties
<1>4. ASSUME NEW i \in 0 .. n, NEW j \in DOMAIN eventQ, j > i + 1
      PROVE  j - 1 \in DOMAIN eventQ' /\ j - 1 > i /\ eventQ'[j - 1] = eventQ[j]
  <2>1. j - 1 \in 1 .. n /\ j - 1 + 1 = j /\ j - 1 > i
    BY <1>3, <1>4
  <2>2. eventQ'[j - 1] = eventQ[j - 1 + 1]
    BY <1>2, <2>1
  <2> QED BY <1>3, <2>1, <2>2
<1>5. ASSUME NEW x, Queued(x), Head(eventQ) # x PROVE Queued(x)'
  <2>1. PICK j \in DOMAIN eventQ : eventQ[j] = x
    BY <1>5 DEF Queued
  <2>2. j > 0 + 1 /\ 0 \in 0 .. n
    BY <1>2, <1>3, <1>5, <2>1
  <2> QED BY <1>4, <2>1, <2>2 DEF Queued
<1>6. ASSUME NEW A, NEW B, Before(A, B), Head(eventQ) \in A PROVE \E x \in B : Queued(x)'
  <2>1. 1 \in DOMAIN eventQ /\ eventQ[1] \in A
    BY <1>2, <1>3, <1>6
  <2>2. PICK j \in DOMAIN eventQ : j > 1 /\ eventQ[j] \in B
    BY <1>6, <2>1 DEF Before
  <2>3. j > 0 + 1 /\ 0 \in 0 .. n
    BY <2>2
  <2> QED BY <1>4, <2>2, <2>3 DEF Queued
<1>7. ASSUME NEW A, NEW B, Before(A, B) PROVE Before(A, B)'
  <2> SUFFICES ASSUME NEW i \in DOMAIN eventQ', eventQ'[i] \in A
               PROVE  \E j \in DOMAIN eventQ' : j > i /\ eventQ'[j] \in B
    BY DEF Before
  <2>1. i \in 0 .. n /\ i + 1 \in DOMAIN eventQ /\ eventQ[i + 1] \in A
    BY <1>2, <1>3
  <2>2. PICK j \in DOMAIN eventQ : j > i + 1 /\ eventQ[j] \in B
    BY <1>7, <2>1 DEF Before
  <2> QED BY <1>4, <2>1, <2>2
<1> QED BY <1>2, <1>5, <1>6, <1>7

(* A call returns: the SM believes no more than before *)
LEMMA CallBelieves ==
  ASSUME LinkTypes, NEW c, Call(c), c \notin {"event", "halted"},
         state' = IF c = "goto" THEN script[1][2] ELSE state
  PROVE  /\ script[1] \in Calls /\ script[1][1] = c /\ script' \in Seq(Calls)
         /\ Believing' => Believing
<1>1. script # <<>> /\ script[1][1] = c /\ script' = Tail(script) /\ script \in Seq(Calls) /\ script \in Seq(Entry)
  <2>1. Seq(Calls) \subseteq Seq(Entry)
    BY SeqMore DEF Calls
  <2> QED BY <2>1 DEF Call, LinkTypes
<1>2. script[1] \in Calls /\ script[1] \in Entry /\ script' \in Seq(Calls)
  BY <1>1, RestOf
<1>3. ASSUME script' \notin Seq(Entry \ Connecting) PROVE Believing
  <2>1. script \notin Seq(Entry \ Connecting)
    BY <1>1, <1>3, RestOf
  <2> QED BY <2>1 DEF Believing
<1>4. ASSUME state' = "CONNECTED", script' \in Seq(Entry \ Parting) PROVE Believing
  <2>1. CASE c = "goto"
    <3>1. script[1] = <<"goto", "CONNECTED">>
      BY <1>1, <1>2, <1>4, <2>1 DEF Entry, Plain
    <3>2. script[1] \notin Entry \ Connecting
      BY <3>1 DEF Connecting
    <3>3. script \notin Seq(Entry \ Connecting)
      BY <1>1, <3>2, RestOf
    <3> QED BY <3>3 DEF Believing
  <2>2. CASE c # "goto"
    <3>1. script[1] \in Entry \ Parting
      BY <1>1, <1>2, <2>2 DEF Parting
    <3>2. script \in Seq(Entry \ Parting)
      <4>1. Entry \ Parting \subseteq Entry
        OBVIOUS
      <4> QED BY <1>1, <1>4, <3>1, <4>1, RestOf
    <3> QED BY <1>4, <2>2, <3>2 DEF Believing
  <2> QED BY <2>1, <2>2
<1> QED BY <1>1, <1>2, <1>3, <1>4 DEF Believing

(* Nothing is posted and no link ends *)
LEMMA LinkStays ==
  ASSUME UNCHANGED eventQ, link' = "down" => link = "down"
  PROVE  (Fresh => Fresh') /\ (Order => Order')
BY DEF Fresh, Order, Before, Queued

(* The calls of the SM *)
LEMMA LinkCall ==
  ASSUME LinkInv,
         \/ CallApp \/ CallNetIf \/ SetState \/ SetTimer \/ StatsTimer \/ SetPolicy \/ CallDisconnect
         \/ NonPersistentProfile \/ EnqueueDeferred \/ CallReset \/ StopProvisioning \/ SetProvMode
         \/ (StartProvisioning /\ nwpProv = "off") \/ (DeferredEvent /\ deferQ = <<>>)
  PROVE  LinkInv'
<1> USE DEF LinkInv
<1>1. PICK c \in {"app", "netif", "goto", "timer", "stats", "policy", "disconnect", "nonpersistent", "enqueue",
                  "reset", "provstop", "oneshot", "retry", "provstart", "defer"} :
        /\ Call(c)
        /\ SetState <=> c = "goto"
        /\ EnqueueDeferred <=> c = "enqueue"
        /\ CallReset <=> c = "reset"
  <2>1. script # <<>>
    BY DEF CallApp, CallNetIf, SetState, SetTimer, StatsTimer, SetPolicy, CallDisconnect, NonPersistentProfile,
       EnqueueDeferred, CallReset, StopProvisioning, SetProvMode, StartProvisioning, DeferredEvent, Call
  <2>2. script' = Tail(script)
    BY DEF CallApp, CallNetIf, SetState, SetTimer, StatsTimer, SetPolicy, CallDisconnect, NonPersistentProfile,
       EnqueueDeferred, CallReset, StopProvisioning, SetProvMode, StartProvisioning, DeferredEvent, Call
  <2>3. /\ CallApp => script[1][1] = "app"
        /\ CallNetIf => script[1][1] = "netif"
        /\ SetState => script[1][1] = "goto"
        /\ SetTimer => script[1][1] = "timer"
        /\ StatsTimer => script[1][1] = "stats"
        /\ SetPolicy => script[1][1] = "policy"
        /\ CallDisconnect => script[1][1] = "disconnect"
        /\ NonPersistentProfile => script[1][1] = "nonpersistent"
        /\ EnqueueDeferred => script[1][1] = "enqueue"
        /\ CallReset => script[1][1] = "reset"
        /\ StopProvisioning => script[1][1] = "provstop"
        /\ SetProvMode => script[1][1] \in {"oneshot", "retry"}
        /\ StartProvisioning => script[1][1] = "provstart"
        /\ DeferredEvent => script[1][1] = "defer"
    BY DEF CallApp, CallNetIf, SetState, SetTimer, StatsTimer, SetPolicy, CallDisconnect, NonPersistentProfile,
       EnqueueDeferred, CallReset, StopProvisioning, SetProvMode, StartProvisioning, DeferredEvent, Call
  <2> QED BY <2>1, <2>2, <2>3 DEF Call
<1>2. state' = IF c = "goto" THEN script[1][2] ELSE state
  BY <1>1 DEF CallApp, CallNetIf, SetState, SetTimer, StatsTimer, SetPolicy, CallDisconnect, NonPersistentProfile,
     EnqueueDeferred, CallReset, StopProvisioning, SetProvMode, StartProvisioning, DeferredEvent, ctxVars
<1>3. script[1] \in Calls /\ script[1][1] = c /\ script' \in Seq(Calls) /\ (Believing' => Believing)
  BY <1>1, <1>2, CallBelieves
<1>4. ~CallReset
  <2>1. \A x \in Calls : x[1] # "reset"
    BY DEF Calls, Never, Entry, Plain
  <2> QED BY <1>1, <1>3, <2>1
<1>5. UNCHANGED <<eventQ, api>> /\ (link' = "down" => link = "down") /\ (c # "enqueue" => deferQ' = deferQ)
  BY <1>1, <1>4 DEF CallApp, CallNetIf, SetState, SetTimer, StatsTimer, SetPolicy, CallDisconnect, NonPersistentProfile,
     EnqueueDeferred, StopProvisioning, SetProvMode, StartProvisioning, DeferredEvent, queues, nwpVars, Closing
<1>6. deferQ' \in Seq(Delayed)
  <2>1. CASE c = "enqueue"
    <3>1. script[1][2] \in Delayed
      BY <1>3, <2>1 DEF Calls, Never, Entry, Plain, Delayed, Posting
    <3>2. deferQ' = Append(deferQ, script[1][2])
      BY <1>1, <2>1 DEF EnqueueDeferred
    <3> QED BY <3>1, <3>2, AppendProperties DEF LinkTypes
  <2>2. CASE c # "enqueue"
    BY <1>5, <2>2 DEF LinkTypes
  <2> QED BY <2>1, <2>2
<1>7. (Fresh => Fresh') /\ Order'
  BY <1>5, LinkStays
<1> QED BY <1>3, <1>5, <1>6, <1>7 DEF LinkTypes

(* An event is received: one that tells of a link has the link, or its end behind it *)
LEMMA LinkReceive == ASSUME LinkInv, Receive PROVE LinkInv'
<1> USE DEF LinkInv
<1>1. /\ script = <<>> /\ eventQ # <<>> /\ eventQ' = Tail(eventQ)
      /\ script' = << <<"event", Head(eventQ)>> >>
      /\ UNCHANGED <<state, deferQ, api, link>>
  BY DEF Receive, ctxVars, nwpVars
<1>2. /\ Head(eventQ) \in Posting /\ eventQ' \in Seq(Posting)
      /\ Fresh /\ Head(eventQ) # "DISCONNECT" => Fresh'
      /\ Head(eventQ) \in Links => Fresh'
      /\ Order'
  BY <1>1, TakenEvent DEF LinkTypes, Fresh, Order
<1>3. PICK e \in Posting : e = Head(eventQ)
  BY <1>2
<1>4. <<"event", e>> \in Calls /\ <<"event", e>> \in Entry
  BY CalmCalls DEF Calls
<1>5. script' \in Seq(Calls)
  <2>1. << <<"event", e>> >> \in Seq(Calls)
    BY <1>4, One
  <2> QED BY <1>1, <1>3, <2>1
<1>6. ASSUME Believing' PROVE Fresh'
  <2>1. CASE script' \notin Seq(Entry \ Connecting)
    <3>1. <<"event", e>> \notin Entry \ Connecting
      <4>1. << <<"event", e>> >> \notin Seq(Entry \ Connecting)
        BY <1>1, <1>3, <2>1
      <4> QED BY <4>1, One
    <3>2. e \in Links
      BY <1>4, <3>1 DEF Connecting
    <3> QED BY <1>2, <1>3, <3>2
  <2>2. CASE state' = "CONNECTED" /\ script' \in Seq(Entry \ Parting)
    <3>1. <<>> \in Seq(Entry \ Parting)
      OBVIOUS
    <3>2. Fresh
      BY <1>1, <2>2, <3>1 DEF Believing
    <3>3. e # "DISCONNECT"
      <4>1. << <<"event", e>> >> \in Seq(Entry \ Parting)
        BY <1>1, <1>3, <2>2
      <4>2. << <<"event", e>> >>[1] \in Entry \ Parting
        BY <4>1, RestOf
      <4>3. <<"event", e>> \in Entry \ Parting
        BY <4>2
      <4> QED BY <4>3 DEF Parting
    <3> QED BY <1>2, <1>3, <3>2, <3>3
  <2> QED BY <1>6, <2>1, <2>2 DEF Believing
<1> QED BY <1>1, <1>2, <1>5, <1>6 DEF LinkTypes

(* A script of calm calls makes no belief of its own *)
LEMMA CalmBelief ==
  ASSUME NEW s \in Seq(Calm)
  PROVE  s \in Seq(Calls) /\ s \in Seq(Entry \ Connecting)
<1>1. Seq(Calm) \subseteq Seq(Calls) /\ Seq(Calm) \subseteq Seq(Entry \ Connecting)
  BY SeqMore DEF Calm, Calls
<1> QED BY <1>1

(* The event that is processed *)
LEMMA ProcessedEvent ==
  ASSUME ConnInv, LinkTypes, ProcessEvent
  PROVE  \E e \in Posting : script = << <<"event", e>> >> /\ state \in State /\ script' = Handler(e)
<1>1. script # <<>> /\ script[1][1] = "event" /\ script' = Handler(script[1][2])
  BY DEF ProcessEvent
<1>2. PICK e \in Event : script = << <<"event", e>> >> /\ Taken(e)
  <2>1. ~OnItsWay
    <3> SUFFICES ASSUME OnItsWay PROVE FALSE
      OBVIOUS
    <3>1. PICK a, b : Does(script, a, b)
      BY DEF OnItsWay, Ends
    <3>2. May(script[1], a)
      BY <1>1, <3>1, DoesNext
    <3> QED BY <1>1, <3>2 DEF May
  <2> QED BY <1>1, <2>1 DEF ConnInv, Following
<1>3. <<"event", e>> \in Calls
  <2>1. script[1] \in Calls
    BY <1>1, RestOf DEF LinkTypes
  <2> QED BY <1>2, <2>1
<1> QED BY <1>1, <1>2, <1>3 DEF Calls, Never, Posting, Taken

(* The handler is chosen *)
LEMMA LinkProcess == ASSUME ConnInv, LinkInv, ProcessEvent PROVE LinkInv'
<1> USE DEF LinkInv
<1>1. /\ script # <<>> /\ script[1][1] = "event"
      /\ UNCHANGED <<state, eventQ, deferQ, api, link>>
  BY DEF ProcessEvent, ctxVars, queues, nwpVars
<1>3. PICK e \in Posting : script = << <<"event", e>> >> /\ state \in State /\ script' = Handler(e)
  BY ProcessedEvent
<1>4. /\ script' \in Seq(Calls)
      /\ e \notin Links \/ state = "CONNECTED" => script' \in Seq(Entry \ Connecting)
  <2>1. e \notin Links \/ state = "CONNECTED" => script' \in Seq(Calm)
    BY <1>3, CalmHandler
  <2> QED BY <1>3, <2>1, CalmHandler, CalmBelief
<1>5. Believing' => Believing
  <2>1. CASE e \in Links
    <3>1. <<"event", e>> \notin Entry \ Connecting
      BY <2>1 DEF Connecting
    <3>2. script \notin Seq(Entry \ Connecting)
      <4>1. script \in Seq(Entry \ Connecting) => script[1] \in Entry \ Connecting
        BY <1>1, RestOf
      <4>2. script[1] = <<"event", e>>
        BY <1>3
      <4> QED BY <3>1, <4>1, <4>2
    <3> QED BY <3>2 DEF Believing
  <2>2. CASE e \notin Links
    <3> SUFFICES ASSUME Believing' PROVE Believing
      OBVIOUS
    <3>1. state = "CONNECTED" /\ script' \in Seq(Entry \ Parting)
      BY <1>1, <1>4, <2>2 DEF Believing
    <3>2. e # "DISCONNECT"
      <4>1. Handler("DISCONNECT") = smState_CONNECTED("DISCONNECT")
        BY <3>1 DEF Handler
      <4> QED BY <1>3, <3>1, <4>1, DisconnectParts
    <3>3. <<"event", e>> \in Entry \ Parting
      BY <3>2 DEF Entry, Parting, Posting
    <3>4. script \in Seq(Entry \ Parting)
      BY <1>3, <3>3, One
    <3> QED BY <3>1, <3>4 DEF Believing
  <2> QED BY <2>1, <2>2
<1>6. (Fresh => Fresh') /\ Order'
  BY <1>1, LinkStays
<1> QED BY <1>1, <1>4, <1>5, <1>6 DEF LinkTypes

(* The context goes, or provisioning cannot be started *)
LEMMA LinkEnd ==
  ASSUME LinkInv, Deinit \/ (StartProvisioning /\ nwpProv # "off")
  PROVE  LinkInv'
<1> USE DEF LinkInv
<1>1. CASE Deinit
  <2>1. /\ script' = <<>> /\ state' = "GONE" /\ eventQ' = <<>> /\ deferQ' = <<>> /\ api' = api
    BY <1>1 DEF Deinit
  <2>2. <<>> \in Seq(Calls) /\ <<>> \in Seq(Entry \ Connecting) /\ <<>> \in Seq(Posting) /\ <<>> \in Seq(Delayed)
    OBVIOUS
  <2>3. ~Believing'
    BY <2>1, <2>2 DEF Believing
  <2>4. Order'
    BY <2>1 DEF Order, Before
  <2> QED BY <2>1, <2>2, <2>3, <2>4 DEF LinkTypes
<1>2. CASE StartProvisioning /\ nwpProv # "off"
  <2>1. /\ script' = << <<"halted", None>> >>
        /\ UNCHANGED <<eventQ, deferQ, api, link>>
    BY <1>2 DEF StartProvisioning, queues
  <2>2. <<"halted", None>> \in Calls /\ <<"halted", None>> \in Entry \ Connecting /\ <<"halted", None>> \notin Entry \ Parting
    <3>1. <<"halted", None>> \in Calls
      BY CalmCalls
    <3> QED BY <3>1 DEF Calls, Connecting, Parting, Links
  <2>3. script' \in Seq(Calls) /\ script' \in Seq(Entry \ Connecting)
    <3>1. << <<"halted", None>> >> \in Seq(Calls) /\ << <<"halted", None>> >> \in Seq(Entry \ Connecting)
      BY <2>2, One
    <3> QED BY <2>1, <3>1
  <2>4. script' \notin Seq(Entry \ Parting)
    <3>1. script' # <<>> /\ script'[1] = <<"halted", None>>
      BY <2>1
    <3> QED BY <2>2, <3>1, RestOf
  <2>5. Order'
    BY <2>1, LinkStays
  <2> QED BY <2>1, <2>3, <2>4, <2>5 DEF LinkTypes, Believing
<1> QED BY <1>1, <1>2

(* sl_NetCfgGet was on the way to CONNECTED in any case; PROV_STOPPED is on no such way *)
LEMMA LinkChoice == ASSUME ConnInv, LinkInv, NetCfgGet \/ DeferredOrWait PROVE LinkInv'
<1> USE DEF LinkInv
<1>1. UNCHANGED <<state, eventQ, deferQ, api, link>>
  BY DEF NetCfgGet, DeferredOrWait, ctxVars, queues, nwpVars
<1>2. script' \in Seq(Calls) /\ (Believing' => Believing)
  <2>1. CASE NetCfgGet
    <3>1. script = << <<"netcfg", None>> >>
      BY <2>1 DEF NetCfgGet
    <3>2. script \notin Seq(Entry \ Connecting)
      <4>1. <<"netcfg", None>> \notin Entry \ Connecting
        BY DEF Connecting
      <4>2. script # <<>> /\ script[1] = <<"netcfg", None>>
        BY <3>1
      <4> QED BY <4>1, <4>2, RestOf
    <3>3. EnterCONNECTED(FALSE) \in Seq(Calls)
      <4>1. None \in Delayed \cup {None} /\ FALSE \in BOOLEAN
        OBVIOUS
      <4>2. EnterCONNECTED(FALSE) \in Seq(Calls \ Stopping) /\ Seq(Calls \ Stopping) \subseteq Seq(Calls)
        BY <4>1, CalmEnters, SeqMore
      <4> QED BY <4>2
    <3>4. StartTimer \o Goto("WAIT_FOR_IP") \in Seq(Calls)
      <4>1. StartTimer \o Goto("WAIT_FOR_IP") \in Seq(Mild) /\ Seq(Mild) \subseteq Seq(Calm)
        BY CalmHelpers, Both, SeqMore DEF State, Mild
      <4> QED BY <4>1, CalmBelief
    <3> QED BY <2>1, <3>2, <3>3, <3>4 DEF NetCfgGet, Believing
  <2>2. CASE DeferredOrWait
    <3>1. script # <<>> /\ script[1][1] = "deferredOrWait"
      BY <2>2 DEF DeferredOrWait
    <3>2. state = "PROV_STOPPING"
      <4>1. PICK b \in Summary : b.st = state /\ May(script[1], b)
        BY <3>1, NextCall DEF ConnInv
      <4> QED BY <3>1, <4>1 DEF May
    <3>3. EnterWAIT_FOR_CONN(FALSE) \in Seq(Calm) /\ << <<"defer", None>> >> \in Seq(Calm)
      <4>1. None \in Delayed \cup {None} /\ FALSE \in BOOLEAN /\ Seq(Mild) \subseteq Seq(Calm)
        BY SeqMore DEF Mild
      <4>2. EnterWAIT_FOR_CONN(FALSE) \in Seq(Mild) /\ << <<"defer", None>> >> \in Seq(Mild)
        BY <4>1, CalmEnters, CalmHelpers
      <4> QED BY <4>1, <4>2
    <3>4. script' \in Seq(Calls) /\ script' \in Seq(Entry \ Connecting)
      BY <2>2, <3>3, CalmBelief DEF DeferredOrWait
    <3> QED BY <1>1, <3>2, <3>4 DEF Believing
  <2> QED BY <2>1, <2>2
<1>3. (Fresh => Fresh') /\ Order'
  BY <1>1, LinkStays
<1> QED BY <1>1, <1>2, <1>3 DEF LinkTypes

(* Whoever posts *)
LEMMA LinkPost ==
  ASSUME LinkInv, NEW e \in Posting, SignalEvent(e),
         e \in Links => link' # "down", link' = "down" => link = "down" \/ e = "DISCONNECT",
         UNCHANGED <<state, script>>,
         deferQ' \in Seq(Delayed), api' \in Seq(Commanded)
  PROVE  LinkInv'
<1>1. eventQ' \in Seq(Posting) /\ (Fresh => Fresh') /\ Order'
  BY AddedEvent DEF LinkInv, LinkTypes, Fresh, Order, Links
<1>2. Believing' => Believing
  BY DEF Believing
<1> QED BY <1>1, <1>2 DEF LinkInv, LinkTypes

(* Steps that leave script, state and event queue alone *)
LEMMA LinkQuiet ==
  ASSUME LinkInv, UNCHANGED <<state, script, eventQ>>, link' = "down" => link = "down",
         deferQ' \in Seq(Delayed), api' \in Seq(Commanded)
  PROVE  LinkInv'
<1>1. (Fresh => Fresh') /\ Order'
  BY LinkStays DEF LinkInv
<1> QED BY <1>1 DEF LinkInv, LinkTypes, Believing

(* What the commands of an API call are *)
LEMMA ApiCalls ==
  ASSUME LinkTypes, api # <<>>
  PROVE  /\ Tail(api) \in Seq(Commanded)
         /\ api[1][1] = "defer" => api[1][2] \in Delayed
         /\ api[1][1] = "post" => api[1][2] \in Own
<1>1. api[1] \in Commanded /\ Tail(api) \in Seq(Commanded)
  BY RestOf DEF LinkTypes
<1> QED BY <1>1 DEF Commanded

LEMMA LinkDeferred == ASSUME LinkInv, DeferredEvent, deferQ # <<>> PROVE LinkInv'
<1>1. /\ SignalEvent(Head(deferQ)) /\ deferQ' = Tail(deferQ) /\ UNCHANGED <<state, script, api, link>>
  BY DEF DeferredEvent, ctxVars, nwpVars
<1>2. Head(deferQ) = deferQ[1] /\ deferQ[1] \in Delayed /\ deferQ' \in Seq(Delayed)
  BY <1>1, RestOf, HeadTailProperties DEF LinkInv, LinkTypes
<1>3. PICK e \in Posting : e = Head(deferQ) /\ e \notin Links
  BY <1>2 DEF Delayed, Posting, Links, Event
<1>4. SignalEvent(e)
  BY <1>1, <1>3
<1> QED BY <1>1, <1>2, <1>3, <1>4, LinkPost DEF LinkInv, LinkTypes

LEMMA LinkApp ==
  ASSUME ConnInv, LinkInv, AppStep, "reset" \notin Api
  PROVE  LinkInv'
<1> USE DEF LinkInv
<1>0. deferQ \in Seq(Delayed) /\ api \in Seq(Commanded)
  BY DEF LinkTypes
<1>1. ASSUME NEW c \in DOMAIN PostOnly, ApiPost(c) PROVE LinkInv'
  <2>1. PostOnly[c] \in Own
    BY DEF PostOnly, Own, Posting, Links, Event
  <2>2. PICK e \in Own : e = PostOnly[c]
    BY <2>1
  <2>3. SignalEvent(e) /\ UNCHANGED <<state, script, deferQ, api, link>>
    BY <1>1, <2>2 DEF ApiPost, ctxVars, nwpVars
  <2> QED BY <1>0, <2>3, LinkPost DEF Own
<1>2. CASE ApiDestroy
  <2>1. SignalEvent("DESTROY") /\ UNCHANGED <<state, script, deferQ, api, link>>
    BY <1>2 DEF ApiDestroy, ctxVars, nwpVars
  <2>2. "DESTROY" \in Posting /\ "DESTROY" \notin Links
    BY DEF Posting, Links, Event
  <2> QED BY <1>0, <2>1, <2>2, LinkPost
<1>3. CASE ApiReturn
  <2>1. /\ api # <<>> /\ api[1][1] = "post" /\ SignalEvent(api[1][2]) /\ api' = <<>>
        /\ UNCHANGED <<state, script, deferQ, link>>
    BY <1>3 DEF ApiReturn, ctxVars, nwpVars
  <2>2. PICK e \in Own : e = api[1][2]
    BY <2>1, ApiCalls
  <2>3. SignalEvent(e) /\ api' \in Seq(Commanded)
    BY <2>1, <2>2
  <2> QED BY <1>0, <2>1, <2>3, LinkPost DEF Own
<1>4. CASE ApiDefer
  <2>1. /\ api # <<>> /\ api[1][1] = "defer" /\ deferQ' = Append(deferQ, api[1][2]) /\ api' = Tail(api)
        /\ UNCHANGED <<state, script, eventQ, link>>
    BY <1>4 DEF ApiDefer, ctxVars, nwpVars
  <2>2. deferQ' \in Seq(Delayed) /\ api' \in Seq(Commanded)
    BY <1>0, <2>1, ApiCalls, AppendProperties
  <2> QED BY <2>1, <2>2, LinkQuiet
<1>5. CASE ApiAddProfile \/ ApiAddNonPersistent \/ \E m \in Modes, n \in Commands : ApiEnableProvisioning(m, n)
  <2>1. UNCHANGED <<state, script, eventQ, deferQ, link>>
    BY <1>5 DEF ApiAddProfile, ApiAddNonPersistent, ApiEnableProvisioning, ctxVars, queues, nwpVars
  <2>2. /\ <<"post", "ADD_PROFILE">> \in Commanded /\ <<"defer", "ADD_PROFILE">> \in Commanded
        /\ <<"post", "ENABLE_PROVISIONING">> \in Commanded
    BY DEF Commanded, Own, Delayed, Posting, Links, Event
  <2>3. /\ << <<"post", "ADD_PROFILE">> >> \in Seq(Commanded)
        /\ << <<"defer", "ADD_PROFILE">> >> \in Seq(Commanded)
        /\ << <<"post", "ENABLE_PROVISIONING">> >> \in Seq(Commanded)
        /\ <<>> \in Seq(Commanded)
    BY <2>2, One
  <2>4. /\ <<>> \o << <<"post", "ADD_PROFILE">> >> \in Seq(Commanded)
        /\ << <<"defer", "ADD_PROFILE">> >> \o << <<"post", "ADD_PROFILE">> >>
             \in Seq(Commanded)
    BY <2>3, Both
  <2>5. api' \in Seq(Commanded)
    BY <1>5, <2>3, <2>4 DEF ApiAddProfile, ApiAddNonPersistent, ApiEnableProvisioning
  <2> QED BY <1>0, <2>1, <2>5, LinkQuiet
<1>6. CASE ApiDeinit \/ \E b \in BOOLEAN : ApiStats(b)
  <2>1. UNCHANGED <<state, script, eventQ, deferQ, api, link>>
    BY <1>6 DEF ApiDeinit, ApiStats, ctxVars, queues, nwpVars
  <2> QED BY <1>0, <2>1, LinkQuiet
<1>7. ~ApiReset
  BY DEF ApiReset
<1> QED BY <1>1, <1>2, <1>3, <1>4, <1>5, <1>6, <1>7 DEF AppStep

LEMMA LinkOutside ==
  ASSUME ConnInv, LinkInv, TimerExpires \/ NwpStep, Requests = {}
  PROVE  LinkInv'
<1>1. /\ UNCHANGED <<state, script, deferQ, api>>
      /\ deferQ \in Seq(Delayed) /\ api \in Seq(Commanded)
  BY DEF LinkInv, LinkTypes, TimerExpires, NwpStep, NwpConnect, NwpDisconnect, NwpCloses, NwpIpAcquired, NwpIpLost,
     ResetRequest, ProvEnds, ProvReport, hostVars, ctxVars
<1>2. ~ResetRequest
  BY DEF ResetRequest
<1>3. PICK e \in Posting :
        /\ SignalEvent(e)
        /\ e \in Links => link' # "down"
        /\ link' = "down" => link = "down" \/ e = "DISCONNECT"
  BY <1>2 DEF TimerExpires, NwpStep, NwpConnect, NwpDisconnect, NwpCloses, NwpIpAcquired, NwpIpLost,
     ProvEnds, ProvReport, nwpVars, Posting, Links, Event
<1> QED BY <1>1, <1>3, LinkPost

LEMMA LinkInit == Init => LinkInv
<1> SUFFICES ASSUME Init PROVE LinkInv
  OBVIOUS
<1>1. /\ state = "OFF" /\ script = <<>> /\ eventQ = <<>> /\ deferQ = <<>> /\ api = <<>>
  BY DEF Init
<1>2. /\ <<>> \in Seq(Calls) /\ <<>> \in Seq(Posting) /\ <<>> \in Seq(Delayed)
      /\ <<>> \in Seq(Commanded) /\ <<>> \in Seq(Entry \ Connecting)
  OBVIOUS
<1> QED BY <1>1, <1>2 DEF LinkInv, LinkTypes, Order, Before, Believing

(* Without resets every step keeps what the SM believes of the link *)
LEMMA LinkStep ==
  ASSUME ConnInv, LinkInv, [Next]_vars, Requests = {}, "reset" \notin Api
  PROVE  LinkInv'
<1>1. CASE SmStep
  <2>1. CASE \/ CallApp \/ CallNetIf \/ SetState \/ SetTimer \/ StatsTimer \/ SetPolicy \/ CallDisconnect
             \/ NonPersistentProfile \/ EnqueueDeferred \/ CallReset \/ StopProvisioning \/ SetProvMode
    BY <2>1, LinkCall
  <2>2. CASE Receive \/ ProcessEvent \/ Deinit
    BY <2>2, LinkReceive, LinkProcess, LinkEnd
  <2>3. CASE NetCfgGet \/ DeferredOrWait
    BY <2>3, LinkChoice
  <2>4. CASE DeferredEvent
    BY <2>4, LinkCall, LinkDeferred
  <2>5. CASE StartProvisioning
    BY <2>5, LinkCall, LinkEnd
  <2> QED BY <1>1, <2>1, <2>2, <2>3, <2>4, <2>5 DEF SmStep
<1>2. CASE AppStep
  BY <1>2, LinkApp
<1>3. CASE TimerExpires \/ NwpStep
  BY <1>3, LinkOutside
<1>4. CASE UNCHANGED vars
  <2>1. UNCHANGED <<state, script, eventQ, deferQ, api, link>>
    BY <1>4 DEF vars, queues, nwpVars
  <2> QED BY <2>1, LinkQuiet DEF LinkInv, LinkTypes
<1> QED BY <1>1, <1>2, <1>3, <1>4 DEF Next

(***************************************************************************)
(* While nothing resets the NWP, the SM never rests in CONNECTED past the  *)
(* end of the link unless the DISCONNECT is still to be received: what it  *)
(* receives late, in whatever state, is followed by the DISCONNECT it came *)
(* before (slwificonn.c 1111-1334).  With a reset, from CONNECTED or by    *)
(* SlWifiConn_reset, this is not so: it ends the link without an event.    *)
(***************************************************************************)
THEOREM LinkBelieved ==
  ASSUME Requests = {}, "reset" \notin Api
  PROVE  Spec => []NoStaleConnected
<1>1. ConnInv /\ LinkInv /\ [Next]_vars => LinkInv'
  BY LinkStep
<1>2. LinkInv => NoStaleConnected
  <2> SUFFICES ASSUME LinkInv, script = <<>>, state = "CONNECTED", link = "down" PROVE Queued("DISCONNECT")
    BY DEF NoStaleConnected, Quiescent
  <2>1. <<>> \in Seq(Entry \ Parting)
    OBVIOUS
  <2> QED BY <2>1 DEF LinkInv, Believing, Fresh
<1> QED BY <1>1, <1>2, LinkInit, ConnInvariance, PTL DEF Spec
-----------------------------------------------------------------------------
(* The end of provisioning.  PROV_STOPPING is entered after sl_WlanProvisioning *)
(* was told to stop, or because the NWP says that it succeeded: then the NWP    *)
(* is stopping by itself                                                        *)

(* What the NWP posts when it has stopped *)
Ended == {"CONNECTED", "PROV_STOPPED"}

(* The NWP is stopping, or something that leads out of PROV_STOPPING is queued *)
Due == nwpProv = "stopping" \/ \E e \in Out : Queued(e)

(* Once it has stopped, that is told behind its success *)
StopOrder == nwpProv # "stopping" => Before({"PROV_SUCCESS"}, Ended)

(* The SM posts an event of the deferred queue before it goes on *)
Reposting == deferQ # <<>> /\ script # <<>> /\ script[1][1] = "defer"

(* It is in PROV_STOPPING and stays, or is about to get there, and does not stop the NWP itself *)
Halting ==
  /\ script \in Seq(Entry \ Stops)
  /\ \/ script \notin Seq(Entry \ Stopping)
     \/ state = "PROV_STOPPING" /\ script \in Seq(Entry \ Leaving) /\ ~Reposting

HaltInv == StopOrder /\ (Halting => Due)

(* Each of these events takes the SM out of PROV_STOPPING *)
LEMMA GotoLeaves ==
  /\ \A x \in State \ {"PROV_STOPPING"} : Goto(x) \in Seq(Entry) /\ Goto(x) \notin Seq(Entry \ Leaving)
  /\ << <<"deferredOrWait", None>> >> \in Seq(Entry)
  /\ << <<"deferredOrWait", None>> >> \notin Seq(Entry \ Leaving)
<1>1. ASSUME NEW c \in Entry, c \in Leaving PROVE <<c>> \in Seq(Entry) /\ <<c>> \notin Seq(Entry \ Leaving)
  <2>1. <<c>> \in Seq(Entry) /\ <<c>> # <<>> /\ <<c>>[1] = c
    BY One
  <2>2. <<c>> \in Seq(Entry \ Leaving) => c \in Entry \ Leaving
    BY <2>1, ElementOfSeq
  <2> QED BY <1>1, <2>1, <2>2
<1>2. \A x \in State \ {"PROV_STOPPING"} : <<"goto", x>> \in Entry /\ <<"goto", x>> \in Leaving
  BY DEF Entry, Leaving
<1>3. <<"deferredOrWait", None>> \in Entry /\ <<"deferredOrWait", None>> \in Leaving
  BY DEF Entry, Leaving, Plain
<1> QED BY <1>1, <1>2, <1>3 DEF Goto

(* A script of which the last calls leave PROV_STOPPING *)
LEMMA LeavesLast ==
  ASSUME NEW s \in Seq(Entry), NEW q \in Seq(Entry), q \notin Seq(Entry \ Leaving)
  PROVE  s \o q \in Seq(Entry) /\ s \o q \notin Seq(Entry \ Leaving)
BY Both, Within

LEMMA EntersLeave ==
  ASSUME NEW d \in BOOLEAN
  PROVE  /\ EnterIDLE \in Seq(Entry) /\ EnterIDLE \notin Seq(Entry \ Leaving)
         /\ EnterWAIT_FOR_CONN(d) \in Seq(Entry) /\ EnterWAIT_FOR_CONN(d) \notin Seq(Entry \ Leaving)
         /\ EnterCONNECTED(d) \in Seq(Entry) /\ EnterCONNECTED(d) \notin Seq(Entry \ Leaving)
         /\ EnterPROVISIONING \in Seq(Entry) /\ EnterPROVISIONING \notin Seq(Entry \ Leaving)
<1>1. Seq(Mild) \subseteq Seq(Entry)
  BY SeqMore DEF Mild, Calm, Calls
<1>2. /\ SuspendNWP \in Seq(Entry) /\ StartTimer \in Seq(Entry) /\ StopTimer \in Seq(Entry) /\ <<>> \in Seq(Entry)
      /\ << <<"stats", None>> >> \in Seq(Entry) /\ << <<"provstart", None>> >> \in Seq(Entry)
      /\ << <<"oneshot", None>> >> \in Seq(Entry) /\ NotifyNetIf("ip") \in Seq(Entry)
      /\ << <<"defer", None>>, <<"nonpersistent", d>> >> \in Seq(Entry)
      /\ NotifyWifiApp("EXTERNAL_PROVISIONING_START_REQ") \in Seq(Entry)
  BY <1>1, CalmHelpers DEF Iface, Note
<1>3. \A x \in {"IDLE", "WAIT_FOR_CONN", "CONNECTED", "PROVISIONING", "EXT_PROVISIONING"} :
        Goto(x) \in Seq(Entry) /\ Goto(x) \notin Seq(Entry \ Leaving)
  BY GotoLeaves DEF State
<1>4. EnterIDLE \in Seq(Entry) /\ EnterIDLE \notin Seq(Entry \ Leaving)
  <2>1. SuspendNWP \o StartTimer \in Seq(Entry)
    BY <1>2, Both
  <2> QED BY <1>3, <2>1, LeavesLast DEF EnterIDLE
<1>5. EnterWAIT_FOR_CONN(d) \in Seq(Entry) /\ EnterWAIT_FOR_CONN(d) \notin Seq(Entry \ Leaving)
  <2>1. << <<"defer", None>>, <<"nonpersistent", d>> >> \o StartTimer \in Seq(Entry)
    BY <1>2, Both
  <2> QED BY <1>3, <2>1, LeavesLast DEF EnterWAIT_FOR_CONN
<1>6. EnterCONNECTED(d) \in Seq(Entry) /\ EnterCONNECTED(d) \notin Seq(Entry \ Leaving)
  <2>1. (IF d THEN NotifyNetIf("ip") ELSE <<>>) \in Seq(Entry)
    BY <1>2
  <2>2. StopTimer \o (IF d THEN NotifyNetIf("ip") ELSE <<>>) \in Seq(Entry)
    BY <1>2, <2>1, Both
  <2>3. StopTimer \o (IF d THEN NotifyNetIf("ip") ELSE <<>>) \o << <<"stats", None>> >> \in Seq(Entry)
    BY <1>2, <2>2, Both
  <2> QED BY <1>3, <2>3, LeavesLast DEF EnterCONNECTED
<1>7. EnterPROVISIONING \in Seq(Entry) /\ EnterPROVISIONING \notin Seq(Entry \ Leaving)
  <2>1. CASE provCmd = "ext"
    <3>1. /\ NotifyWifiApp("EXTERNAL_PROVISIONING_START_REQ") \o Goto("EXT_PROVISIONING") \in Seq(Entry)
          /\ NotifyWifiApp("EXTERNAL_PROVISIONING_START_REQ") \o Goto("EXT_PROVISIONING") \notin Seq(Entry \ Leaving)
      BY <1>2, <1>3, LeavesLast
    <3> QED BY <1>2, <2>1, <3>1, Both, Within DEF EnterPROVISIONING
  <2>2. CASE provCmd # "ext"
    <3>1. /\ << <<"provstart", None>> >> \o Goto("PROVISIONING") \in Seq(Entry)
          /\ << <<"provstart", None>> >> \o Goto("PROVISIONING") \notin Seq(Entry \ Leaving)
      BY <1>2, <1>3, LeavesLast
    <3>2. /\ << <<"provstart", None>> >> \o Goto("PROVISIONING") \o << <<"oneshot", None>> >> \in Seq(Entry)
          /\ << <<"provstart", None>> >> \o Goto("PROVISIONING") \o << <<"oneshot", None>> >> \notin Seq(Entry \ Leaving)
      BY <1>2, <3>1, Both, Within
    <3> QED BY <1>2, <2>2, <3>2, Both, Within DEF EnterPROVISIONING
  <2> QED BY <2>1, <2>2
<1> QED BY <1>4, <1>5, <1>6, <1>7

LEMMA StoppingLeaves ==
  ASSUME NEW e \in Out
  PROVE  smState_PROV_STOPPING(e) \notin Seq(Entry \ Leaving)
<1>1. /\ EnterIDLE \notin Seq(Entry \ Leaving) /\ EnterPROVISIONING \notin Seq(Entry \ Leaving)
      /\ EnterWAIT_FOR_CONN(FALSE) \notin Seq(Entry \ Leaving)
      /\ EnterCONNECTED(TRUE) \in Seq(Entry) /\ EnterCONNECTED(TRUE) \notin Seq(Entry \ Leaving)
  <2>1. TRUE \in BOOLEAN /\ FALSE \in BOOLEAN
    OBVIOUS
  <2> QED BY <2>1, EntersLeave
<1>2. Seq(Mild) \subseteq Seq(Entry)
  BY SeqMore DEF Mild, Calm, Calls
<1>3. /\ NotifyWifiApp("PROVISIONING_SUCCEED") \in Seq(Entry) /\ NotifyWifiApp("PROVISIONING_STOPPED") \in Seq(Entry)
      /\ NotifyNetIf("mac") \in Seq(Entry) /\ NotifyNetIf("down") \in Seq(Entry)
      /\ SuspendNWP \in Seq(Entry) /\ WlanDisconnect \in Seq(Entry) /\ <<>> \in Seq(Entry)
  BY <1>2, CalmHelpers DEF Iface, Note
<1>4. CASE e = "CONNECTED"
  <2>1. NotifyWifiApp("PROVISIONING_SUCCEED") \o NotifyNetIf("mac") \in Seq(Entry)
    BY <1>3, Both
  <2>2. NotifyWifiApp("PROVISIONING_SUCCEED") \o NotifyNetIf("mac") \o EnterCONNECTED(TRUE) \notin Seq(Entry \ Leaving)
    BY <1>1, <2>1, LeavesLast
  <2> QED BY <1>4, <2>2 DEF smState_PROV_STOPPING
<1>5. CASE e = "PROV_STOPPED"
  <2>1. NotifyWifiApp("PROVISIONING_STOPPED") \o << <<"deferredOrWait", None>> >> \notin Seq(Entry \ Leaving)
    BY <1>3, GotoLeaves, LeavesLast
  <2> QED BY <1>5, <2>1 DEF smState_PROV_STOPPING
<1>6. CASE e \in {"EXT_PROV_COMPLETED", "ADD_PROFILE", "ERROR", "TIMEOUT"}
  BY <1>1, <1>6 DEF smState_PROV_STOPPING
<1>7. CASE e = "DISABLE"
  <2>1. Goto("OFF") \in Seq(Entry) /\ Goto("OFF") \notin Seq(Entry \ Leaving)
    BY GotoLeaves DEF State
  <2>2. (IF state \in {"WAIT_FOR_IP", "CONNECTED"} THEN WlanDisconnect \o NotifyNetIf("down") ELSE <<>>) \in Seq(Entry)
    <3>1. WlanDisconnect \o NotifyNetIf("down") \in Seq(Entry)
      BY <1>3, Both
    <3> QED BY <1>3, <3>1
  <2>3. SuspendNWP \o (IF state \in {"WAIT_FOR_IP", "CONNECTED"} THEN WlanDisconnect \o NotifyNetIf("down") ELSE <<>>)
          \in Seq(Entry)
    BY <1>3, <2>2, Both
  <2>4. Unsupported(e) \notin Seq(Entry \ Leaving)
    BY <1>7, <2>1, <2>3, LeavesLast DEF Unsupported
  <2> QED BY <1>7, <2>4 DEF smState_PROV_STOPPING
<1> QED BY <1>4, <1>5, <1>6, <1>7 DEF Out

-----------------------------------------------------------------------------
(* The steps, once more, and the end of provisioning *)

(* A call returns *)
LEMMA CallHalts ==
  ASSUME LinkTypes, NEW c, Call(c), c \notin {"event", "halted", "deferredOrWait", "provstop"},
         state' = IF c = "goto" THEN script[1][2] ELSE state,
         c = "defer" => deferQ = <<>>, deferQ # <<>> => deferQ' # <<>>
  PROVE  Halting' => Halting
<1> SUFFICES ASSUME Halting' PROVE Halting
  OBVIOUS
<1>1. script # <<>> /\ script[1][1] = c /\ script' = Tail(script) /\ script \in Seq(Entry)
  <2>1. Seq(Calls) \subseteq Seq(Entry)
    BY SeqMore DEF Calls
  <2> QED BY <2>1 DEF Call, LinkTypes
<1>2. script[1] \in Entry /\ \A T : T \subseteq Entry /\ script[1] \in T /\ script' \in Seq(T) => script \in Seq(T)
  BY <1>1, RestOf
<1>3. script \in Seq(Entry \ Stops)
  <2>1. script[1] \in Entry \ Stops
    BY <1>1, <1>2 DEF Stops
  <2>2. script' \in Seq(Entry \ Stops)
    BY DEF Halting
  <2> QED BY <1>2, <2>1, <2>2
<1>4. CASE script' \notin Seq(Entry \ Stopping)
  <2>1. script \notin Seq(Entry \ Stopping)
    BY <1>1, <1>4, RestOf
  <2> QED BY <1>3, <2>1 DEF Halting
<1>5. CASE state' = "PROV_STOPPING" /\ script' \in Seq(Entry \ Leaving) /\ ~Reposting'
  <2>1. CASE c = "goto"
    <3>1. script[1] = <<"goto", "PROV_STOPPING">>
      BY <1>1, <1>2, <1>5, <2>1 DEF Entry, Plain
    <3>2. script[1] \notin Entry \ Stopping
      BY <3>1 DEF Stopping
    <3>3. script \notin Seq(Entry \ Stopping)
      BY <1>1, <3>2, RestOf
    <3> QED BY <1>3, <3>3 DEF Halting
  <2>2. CASE c # "goto"
    <3>1. script[1] \in Entry \ Leaving
      BY <1>1, <1>2, <2>2 DEF Leaving
    <3>2. script \in Seq(Entry \ Leaving)
      <4>1. Entry \ Leaving \subseteq Entry
        OBVIOUS
      <4> QED BY <1>2, <1>5, <3>1, <4>1
    <3>3. ~Reposting
      BY <1>1 DEF Reposting
    <3> QED BY <1>3, <1>5, <2>2, <3>2, <3>3 DEF Halting
  <2> QED BY <2>1, <2>2
<1> QED BY <1>4, <1>5 DEF Halting

(* Nothing is posted, and the NWP goes on stopping *)
LEMMA HaltStays ==
  ASSUME UNCHANGED eventQ, nwpProv = "stopping" <=> nwpProv' = "stopping"
  PROVE  (Due => Due') /\ (StopOrder => StopOrder')
BY DEF Due, StopOrder, Before, Queued

LEMMA HaltCall ==
  ASSUME LinkInv, HaltInv,
         \/ CallApp \/ CallNetIf \/ SetState \/ SetTimer \/ StatsTimer \/ SetPolicy \/ CallDisconnect
         \/ NonPersistentProfile \/ EnqueueDeferred \/ CallReset \/ StopProvisioning \/ SetProvMode
         \/ (StartProvisioning /\ nwpProv = "off") \/ (DeferredEvent /\ deferQ = <<>>)
  PROVE  HaltInv'
<1> USE DEF HaltInv
<1>1. CASE StopProvisioning
  BY <1>1 DEF StopProvisioning, Due, StopOrder
<1>2. CASE CallReset
  <2>1. script # <<>> /\ script[1][1] = "reset"
    BY <1>2 DEF CallReset, Call
  <2>2. script[1] \in Calls
    BY <2>1, RestOf DEF LinkInv, LinkTypes
  <2>3. \A x \in Calls : x[1] # "reset"
    BY DEF Calls, Never, Entry, Plain
  <2> QED BY <2>1, <2>2, <2>3
<1>3. CASE ~StopProvisioning /\ ~CallReset
  <2>1. PICK c \in {"app", "netif", "goto", "timer", "stats", "policy", "disconnect", "nonpersistent", "enqueue",
                    "oneshot", "retry", "provstart", "defer"} :
          /\ Call(c)
          /\ SetState <=> c = "goto"
          /\ c = "defer" => deferQ = <<>>
    <3>1. /\ script # <<>>
          /\ script' = Tail(script)
      BY <1>3 DEF CallApp, CallNetIf, SetState, SetTimer, StatsTimer, SetPolicy, CallDisconnect, NonPersistentProfile,
         EnqueueDeferred, SetProvMode, StartProvisioning, DeferredEvent, Call
    <3>2. /\ CallApp => script[1][1] = "app"
          /\ CallNetIf => script[1][1] = "netif"
          /\ SetState => script[1][1] = "goto"
          /\ SetTimer => script[1][1] = "timer"
          /\ StatsTimer => script[1][1] = "stats"
          /\ SetPolicy => script[1][1] = "policy"
          /\ CallDisconnect => script[1][1] = "disconnect"
          /\ NonPersistentProfile => script[1][1] = "nonpersistent"
          /\ EnqueueDeferred => script[1][1] = "enqueue"
          /\ SetProvMode => script[1][1] \in {"oneshot", "retry"}
          /\ StartProvisioning => script[1][1] = "provstart"
          /\ DeferredEvent => script[1][1] = "defer"
      BY DEF CallApp, CallNetIf, SetState, SetTimer, StatsTimer, SetPolicy, CallDisconnect, NonPersistentProfile,
         EnqueueDeferred, SetProvMode, StartProvisioning, DeferredEvent, Call
    <3> QED BY <1>3, <3>1, <3>2 DEF Call
  <2>2. state' = IF c = "goto" THEN script[1][2] ELSE state
    BY <1>3, <2>1 DEF CallApp, CallNetIf, SetState, SetTimer, StatsTimer, SetPolicy, CallDisconnect, NonPersistentProfile,
       EnqueueDeferred, SetProvMode, StartProvisioning, DeferredEvent, ctxVars
  <2>3. UNCHANGED eventQ /\ (nwpProv = "stopping" <=> nwpProv' = "stopping")
    BY <1>3 DEF CallApp, CallNetIf, SetState, SetTimer, StatsTimer, SetPolicy, CallDisconnect, NonPersistentProfile,
       EnqueueDeferred, SetProvMode, StartProvisioning, DeferredEvent, queues, nwpVars
  <2>4. deferQ # <<>> => deferQ' # <<>>
    <3>1. CASE EnqueueDeferred
      <4>1. deferQ' = Append(deferQ, script[1][2]) /\ deferQ \in Seq(Delayed)
        BY <3>1 DEF EnqueueDeferred, LinkInv, LinkTypes
      <4>2. Len(deferQ') > 0
        BY <4>1, AppendProperties
      <4> QED BY <4>2
    <3>2. CASE ~EnqueueDeferred
      BY <1>3, <3>2 DEF CallApp, CallNetIf, SetState, SetTimer, StatsTimer, SetPolicy, CallDisconnect,
         NonPersistentProfile, SetProvMode, StartProvisioning, DeferredEvent, queues
    <3> QED BY <3>1, <3>2
  <2>5. Halting' => Halting
    BY <2>1, <2>2, <2>4, CallHalts DEF LinkInv
  <2> QED BY <2>3, <2>5, HaltStays
<1> QED BY <1>1, <1>2, <1>3
(* An event is received: success has its end behind it, and what leads out is not missed *)
LEMMA HaltReceive == ASSUME LinkInv, HaltInv, Receive PROVE HaltInv'
<1> USE DEF HaltInv
<1>1. /\ script = <<>> /\ eventQ # <<>> /\ eventQ' = Tail(eventQ)
      /\ script' = << <<"event", Head(eventQ)>> >>
      /\ UNCHANGED <<state, deferQ, nwpProv>>
  BY DEF Receive, ctxVars, nwpVars
<1>2. PICK e \in Posting : e = Head(eventQ)
  BY <1>1, TakenEvent DEF LinkInv, LinkTypes
<1>3. /\ \A x : Queued(x) /\ e # x => Queued(x)'
      /\ StopOrder => StopOrder'
      /\ StopOrder /\ e = "PROV_SUCCESS" => Due'
  BY <1>1, <1>2, TakenEvent DEF LinkInv, LinkTypes, StopOrder, Due, Ended, Out
<1>4. <<"event", e>> \in Entry
  BY CalmCalls DEF Calls
<1>5. ASSUME Halting' PROVE Due'
  <2>1. CASE script' \notin Seq(Entry \ Stopping)
    <3>1. <<"event", e>> \notin Entry \ Stopping
      <4>1. << <<"event", e>> >> \notin Seq(Entry \ Stopping)
        BY <1>1, <1>2, <2>1
      <4> QED BY <4>1, One
    <3>2. e = "PROV_SUCCESS"
      BY <1>4, <3>1 DEF Stopping
    <3> QED BY <1>3, <3>2
  <2>2. CASE state' = "PROV_STOPPING" /\ script' \in Seq(Entry \ Leaving)
    <3>1. <<>> \in Seq(Entry \ Leaving) /\ <<>> \in Seq(Entry \ Stops)
      OBVIOUS
    <3>2. Due
      BY <1>1, <2>2, <3>1 DEF Halting, Reposting
    <3>3. e \notin Out
      <4>1. << <<"event", e>> >> \in Seq(Entry \ Leaving)
        BY <1>1, <1>2, <2>2
      <4>2. << <<"event", e>> >>[1] \in Entry \ Leaving
        BY <4>1, RestOf
      <4>3. <<"event", e>> \in Entry \ Leaving
        BY <4>2
      <4> QED BY <4>3 DEF Leaving
    <3> QED BY <1>1, <1>3, <3>2, <3>3 DEF Due
  <2> QED BY <1>5, <2>1, <2>2 DEF Halting
<1> QED BY <1>3, <1>5

(* The handler is chosen *)
LEMMA HaltProcess == ASSUME ConnInv, LinkInv, HaltInv, ProcessEvent PROVE HaltInv'
<1> USE DEF HaltInv
<1>1. /\ script # <<>> /\ script[1][1] = "event" /\ script' = Handler(script[1][2])
      /\ UNCHANGED <<state, eventQ, deferQ, nwpProv>>
  BY DEF ProcessEvent, ctxVars, queues, nwpVars
<1>2. PICK e \in Posting : script = << <<"event", e>> >> /\ state \in State /\ script' = Handler(e)
  BY ProcessedEvent DEF LinkInv
<1>3. <<"event", e>> \in Entry /\ <<"event", e>> \in Entry \ Stops /\ ~Reposting
  BY <1>1, CalmCalls DEF Calls, Stops, Reposting
<1>4. script \in Seq(Entry \ Stops)
  BY <1>2, <1>3, One
<1>5. Halting' => Halting
  <2> SUFFICES ASSUME Halting' PROVE Halting
    OBVIOUS
  <2>1. CASE script' \notin Seq(Entry \ Stopping)
    <3>1. e = "PROV_SUCCESS"
      <4>1. Handler(e) \in Seq(Calls \ Stopping) => Handler(e) \in Seq(Entry \ Stopping)
        <5>1. Seq(Calls \ Stopping) \subseteq Seq(Entry \ Stopping)
          BY SeqMore DEF Calls
        <5> QED BY <5>1
      <4>2. Handler(e) \in Seq(Entry \ Stops)
        BY <1>2 DEF Halting
      <4> QED BY <1>2, <2>1, <4>1, <4>2, CalmHandler
    <3>2. script # <<>> /\ script[1] = <<"event", e>> /\ <<"event", e>> \notin Entry \ Stopping
      BY <1>2, <3>1 DEF Stopping
    <3>3. script \notin Seq(Entry \ Stopping)
      BY <3>2, RestOf
    <3> QED BY <1>4, <3>3 DEF Halting
  <2>2. CASE state' = "PROV_STOPPING" /\ script' \in Seq(Entry \ Leaving)
    <3>1. Handler(e) = smState_PROV_STOPPING(e)
      BY <1>1, <2>2 DEF Handler
    <3>2. e \notin Out
      BY <1>2, <2>2, <3>1, StoppingLeaves
    <3>3. <<"event", e>> \in Entry \ Leaving
      BY <1>3, <3>2 DEF Leaving
    <3>4. script \in Seq(Entry \ Leaving)
      BY <1>2, <3>3, One
    <3> QED BY <1>1, <1>3, <1>4, <2>2, <3>4 DEF Halting
  <2> QED BY <2>1, <2>2 DEF Halting
<1>6. (Due => Due') /\ StopOrder'
  BY <1>1, HaltStays
<1> QED BY <1>5, <1>6

(* The context goes, or provisioning cannot be started *)
LEMMA HaltEnd ==
  ASSUME HaltInv, Deinit \/ (StartProvisioning /\ nwpProv # "off")
  PROVE  HaltInv'
<1> USE DEF HaltInv
<1>1. CASE Deinit
  <2>1. /\ script' = <<>> /\ state' = "GONE" /\ eventQ' = <<>>
    BY <1>1 DEF Deinit
  <2>2. <<>> \in Seq(Entry \ Stopping)
    OBVIOUS
  <2>3. ~Halting'
    BY <2>1, <2>2 DEF Halting
  <2>4. StopOrder'
    BY <2>1 DEF StopOrder, Before
  <2> QED BY <2>3, <2>4
<1>2. CASE StartProvisioning /\ nwpProv # "off"
  <2>1. script' = << <<"halted", None>> >> /\ UNCHANGED <<eventQ, nwpProv>>
    BY <1>2 DEF StartProvisioning, queues
  <2>2. <<"halted", None>> \in Entry \ Stopping /\ <<"halted", None>> \notin Entry \ Leaving
    <3>1. <<"halted", None>> \in Calls
      BY CalmCalls
    <3> QED BY <3>1 DEF Calls, Stopping, Leaving
  <2>3. script' \in Seq(Entry \ Stopping)
    BY <2>1, <2>2, One
  <2>4. script' \notin Seq(Entry \ Leaving)
    <3>1. script' # <<>> /\ script'[1] = <<"halted", None>>
      BY <2>1
    <3> QED BY <2>2, <3>1, RestOf
  <2>5. StopOrder'
    BY <2>1, HaltStays
  <2> QED BY <2>3, <2>4, <2>5 DEF Halting
<1> QED BY <1>1, <1>2

(* sl_NetCfgGet leads elsewhere; PROV_STOPPED leads on or to the deferred events *)
LEMMA HaltChoice == ASSUME HaltInv, NetCfgGet \/ DeferredOrWait PROVE HaltInv'
<1> USE DEF HaltInv
<1>1. UNCHANGED <<state, eventQ, deferQ, nwpProv>>
  BY DEF NetCfgGet, DeferredOrWait, ctxVars, queues, nwpVars
<1>2. ~Halting'
  <2>0. TRUE \in BOOLEAN /\ FALSE \in BOOLEAN
    OBVIOUS
  <2>1. /\ Seq(Calls \ Stopping) \subseteq Seq(Entry \ Stopping) /\ Seq(Mild) \subseteq Seq(Entry \ Stopping)
        /\ Seq(Mild) \subseteq Seq(Entry)
    BY SeqMore DEF Mild, Calm, Calls
  <2>2. /\ EnterCONNECTED(FALSE) \in Seq(Entry \ Stopping) /\ EnterCONNECTED(FALSE) \notin Seq(Entry \ Leaving)
        /\ EnterWAIT_FOR_CONN(FALSE) \in Seq(Entry \ Stopping) /\ EnterWAIT_FOR_CONN(FALSE) \notin Seq(Entry \ Leaving)
    <3>1. None \in Delayed \cup {None}
      OBVIOUS
    <3> QED BY <2>0, <2>1, <3>1, CalmEnters, EntersLeave
  <2>3. /\ StartTimer \o Goto("WAIT_FOR_IP") \in Seq(Entry \ Stopping)
        /\ StartTimer \o Goto("WAIT_FOR_IP") \notin Seq(Entry \ Leaving)
    <3>1. StartTimer \in Seq(Mild) /\ Goto("WAIT_FOR_IP") \in Seq(Mild) /\ StartTimer \in Seq(Entry)
      BY <2>1, CalmHelpers DEF State
    <3>2. StartTimer \o Goto("WAIT_FOR_IP") \in Seq(Mild)
      BY <3>1, Both
    <3>3. Goto("WAIT_FOR_IP") \in Seq(Entry) /\ Goto("WAIT_FOR_IP") \notin Seq(Entry \ Leaving)
      BY GotoLeaves DEF State
    <3> QED BY <2>1, <3>1, <3>2, <3>3, LeavesLast
  <2>4. << <<"defer", None>> >> \in Seq(Entry \ Stopping)
    BY <2>1, CalmHelpers
  <2>5. CASE NetCfgGet
    BY <2>2, <2>3, <2>5 DEF NetCfgGet, Halting
  <2>6. CASE DeferredOrWait /\ deferQ = <<>>
    BY <2>2, <2>6 DEF DeferredOrWait, Halting
  <2>7. CASE DeferredOrWait /\ deferQ # <<>>
    <3>1. script' = << <<"defer", None>> >> /\ Reposting'
      BY <1>1, <2>7 DEF DeferredOrWait, Reposting
    <3> QED BY <2>4, <3>1 DEF Halting
  <2> QED BY <2>5, <2>6, <2>7
<1>3. StopOrder'
  BY <1>1, HaltStays
<1> QED BY <1>2, <1>3

(* Whoever posts: success only when the NWP is stopping, and that ends with one of two events *)
LEMMA HaltPost ==
  ASSUME LinkInv, HaltInv, NEW e \in Posting, SignalEvent(e),
         e = "PROV_SUCCESS" => nwpProv' = "stopping",
         nwpProv = "stopping" /\ nwpProv' # "stopping" => e \in Ended,
         UNCHANGED <<state, script>>, deferQ # <<>> => deferQ' # <<>>
  PROVE  HaltInv'
<1> USE DEF HaltInv
<1>1. /\ Queued(e)' /\ \A x : Queued(x) => Queued(x)'
      /\ e # "PROV_SUCCESS" /\ (Before({"PROV_SUCCESS"}, Ended) \/ e \in Ended) => Before({"PROV_SUCCESS"}, Ended)'
  BY AddedEvent DEF LinkInv, LinkTypes
<1>2. StopOrder'
  BY <1>1 DEF StopOrder
<1>3. Due => Due'
  BY <1>1 DEF Due, Ended, Out
<1>4. Halting' => Halting
  BY DEF Halting, Reposting
<1> QED BY <1>2, <1>3, <1>4

(* Steps that leave script, state, event queue and the NWP's provisioning alone *)
LEMMA HaltQuiet ==
  ASSUME HaltInv, UNCHANGED <<state, script, eventQ, nwpProv>>, deferQ # <<>> => deferQ' # <<>>
  PROVE  HaltInv'
<1>1. (Due => Due') /\ (StopOrder => StopOrder')
  BY HaltStays
<1>2. Halting' => Halting
  BY DEF Halting, Reposting
<1> QED BY <1>1, <1>2 DEF HaltInv

(* A put-off event leads out of PROV_STOPPING *)
LEMMA HaltDeferred == ASSUME LinkInv, HaltInv, DeferredEvent, deferQ # <<>> PROVE HaltInv'
<1>1. /\ SignalEvent(Head(deferQ)) /\ UNCHANGED nwpProv
  BY DEF DeferredEvent, nwpVars
<1>2. Head(deferQ) = deferQ[1] /\ deferQ[1] \in Delayed
  BY RestOf, HeadTailProperties DEF LinkInv, LinkTypes
<1>3. PICK e \in Posting : e = Head(deferQ) /\ e \in Out /\ e # "PROV_SUCCESS"
  BY <1>2 DEF Delayed, Posting, Out, Event
<1>4. /\ Queued(e)' /\ \A x : Queued(x) => Queued(x)'
      /\ Before({"PROV_SUCCESS"}, Ended) => Before({"PROV_SUCCESS"}, Ended)'
  BY <1>1, <1>3, AddedEvent DEF LinkInv, LinkTypes
<1>5. Due' /\ StopOrder'
  BY <1>1, <1>3, <1>4 DEF Due, HaltInv, StopOrder
<1> QED BY <1>5 DEF HaltInv

LEMMA HaltApp ==
  ASSUME LinkInv, HaltInv, AppStep, "reset" \notin Api
  PROVE  HaltInv'
<1>1. ASSUME NEW e \in Own, SignalEvent(e), UNCHANGED <<state, script, deferQ, nwpProv>>
      PROVE  HaltInv'
  <2>1. e \in Posting /\ e # "PROV_SUCCESS"
    BY DEF Own
  <2> QED BY <1>1, <2>1, HaltPost
<1>2. ASSUME NEW c \in DOMAIN PostOnly, ApiPost(c) PROVE HaltInv'
  <2>1. PostOnly[c] \in Own
    BY DEF PostOnly, Own, Posting, Links, Event
  <2>2. SignalEvent(PostOnly[c]) /\ UNCHANGED <<state, script, deferQ, nwpProv>>
    BY <1>2 DEF ApiPost, ctxVars, nwpVars
  <2> QED BY <1>1, <2>1, <2>2
<1>3. CASE ApiDestroy
  <2>1. SignalEvent("DESTROY") /\ UNCHANGED <<state, script, deferQ, nwpProv>> /\ "DESTROY" \in Own
    BY <1>3 DEF ApiDestroy, ctxVars, nwpVars, Own, Posting, Links, Event
  <2> QED BY <1>1, <2>1
<1>4. CASE ApiReturn
  <2>1. /\ api # <<>> /\ api[1][1] = "post" /\ SignalEvent(api[1][2])
        /\ UNCHANGED <<state, script, deferQ, nwpProv>>
    BY <1>4 DEF ApiReturn, ctxVars, nwpVars
  <2>2. api[1][2] \in Own
    BY <2>1, ApiCalls DEF LinkInv
  <2> QED BY <1>1, <2>1, <2>2
<1>5. CASE ApiDefer
  <2>1. /\ api # <<>> /\ api[1][1] = "defer" /\ deferQ' = Append(deferQ, api[1][2])
        /\ UNCHANGED <<state, script, eventQ, nwpProv>>
    BY <1>5 DEF ApiDefer, ctxVars, nwpVars
  <2>2. deferQ \in Seq(Delayed) /\ api[1][2] \in Delayed
    BY <2>1, ApiCalls DEF LinkInv, LinkTypes
  <2>3. Len(deferQ') > 0
    BY <2>1, <2>2, AppendProperties
  <2>4. deferQ' # <<>>
    BY <2>3
  <2> QED BY <2>1, <2>4, HaltQuiet
<1>6. CASE ApiAddProfile \/ ApiAddNonPersistent \/ \E m \in Modes, n \in Commands : ApiEnableProvisioning(m, n)
  <2>1. UNCHANGED <<state, script, eventQ, deferQ, nwpProv>>
    BY <1>6 DEF ApiAddProfile, ApiAddNonPersistent, ApiEnableProvisioning, ctxVars, queues, nwpVars
  <2> QED BY <2>1, HaltQuiet
<1>7. CASE ApiDeinit \/ \E b \in BOOLEAN : ApiStats(b)
  <2>1. UNCHANGED <<state, script, eventQ, deferQ, nwpProv>>
    BY <1>7 DEF ApiDeinit, ApiStats, ctxVars, queues, nwpVars
  <2> QED BY <2>1, HaltQuiet
<1>8. ~ApiReset
  BY DEF ApiReset
<1> QED BY <1>2, <1>3, <1>4, <1>5, <1>6, <1>7, <1>8 DEF AppStep

LEMMA HaltOutside ==
  ASSUME LinkInv, HaltInv, TimerExpires \/ NwpStep, Requests = {}
  PROVE  HaltInv'
<1>1. UNCHANGED <<state, script, deferQ>>
  BY DEF TimerExpires, NwpStep, NwpConnect, NwpDisconnect, NwpCloses, NwpIpAcquired, NwpIpLost,
     ResetRequest, ProvEnds, ProvReport, hostVars, ctxVars
<1>2. ~ResetRequest
  BY DEF ResetRequest
<1>3. PICK e \in Posting :
        /\ SignalEvent(e)
        /\ e = "PROV_SUCCESS" => nwpProv' = "stopping"
        /\ nwpProv = "stopping" /\ nwpProv' # "stopping" => e \in Ended
  <2>1. CASE TimerExpires \/ NwpConnect \/ NwpDisconnect \/ NwpCloses \/ NwpIpAcquired \/ NwpIpLost
    BY <2>1 DEF TimerExpires, NwpConnect, NwpDisconnect, NwpCloses, NwpIpAcquired, NwpIpLost,
       nwpVars, Posting, Event
  <2>2. CASE ProvEnds
    BY <2>2 DEF ProvEnds, Ended, Posting, Event
  <2>3. ASSUME NEW e \in Event, ProvReport(e)
        PROVE  \E x \in Posting :
                 /\ SignalEvent(x)
                 /\ x = "PROV_SUCCESS" => nwpProv' = "stopping"
                 /\ nwpProv = "stopping" /\ nwpProv' # "stopping" => x \in Ended
    BY <2>3 DEF ProvReport, Posting, Event
  <2> QED BY <1>2, <2>1, <2>2, <2>3 DEF NwpStep
<1> QED BY <1>1, <1>3, HaltPost

LEMMA HaltInit == Init => HaltInv
<1> SUFFICES ASSUME Init PROVE HaltInv
  OBVIOUS
<1>1. state = "OFF" /\ script = <<>> /\ eventQ = <<>>
  BY DEF Init
<1>2. <<>> \in Seq(Entry \ Stopping)
  OBVIOUS
<1> QED BY <1>1, <1>2 DEF HaltInv, StopOrder, Before, Halting

LEMMA HaltStep ==
  ASSUME ConnInv, LinkInv, HaltInv, [Next]_vars, Requests = {}, "reset" \notin Api
  PROVE  HaltInv'
<1>1. CASE SmStep
  <2>1. CASE \/ CallApp \/ CallNetIf \/ SetState \/ SetTimer \/ StatsTimer \/ SetPolicy \/ CallDisconnect
             \/ NonPersistentProfile \/ EnqueueDeferred \/ CallReset \/ StopProvisioning \/ SetProvMode
    BY <2>1, HaltCall
  <2>2. CASE Receive \/ ProcessEvent \/ Deinit
    BY <2>2, HaltReceive, HaltProcess, HaltEnd
  <2>3. CASE NetCfgGet \/ DeferredOrWait
    BY <2>3, HaltChoice
  <2>4. CASE DeferredEvent
    BY <2>4, HaltCall, HaltDeferred
  <2>5. CASE StartProvisioning
    BY <2>5, HaltCall, HaltEnd
  <2> QED BY <1>1, <2>1, <2>2, <2>3, <2>4, <2>5 DEF SmStep
<1>2. CASE AppStep
  BY <1>2, HaltApp
<1>3. CASE TimerExpires \/ NwpStep
  BY <1>3, HaltOutside
<1>4. CASE UNCHANGED vars
  <2>1. UNCHANGED <<state, script, eventQ, deferQ, nwpProv>>
    BY <1>4 DEF vars, queues, nwpVars
  <2> QED BY <2>1, HaltQuiet
<1> QED BY <1>1, <1>2, <1>3, <1>4 DEF Next

(***************************************************************************)
(* While nothing resets the NWP, the SM never rests in PROV_STOPPING,      *)
(* which has no watchdog, with nothing to take it out: it told the NWP to  *)
(* stop, or the NWP said that it succeeded and stops by itself, and what   *)
(* the NWP then posts, an event the user deferred or another one that      *)
(* leads out is in the queue (slwificonn.c 1086-1099, 1346-1512).  A reset *)
(* ends the NWP's provisioning without an event, and then this is not so.  *)
(***************************************************************************)
THEOREM StopExpected ==
  ASSUME Requests = {}, "reset" \notin Api
  PROVE  Spec => []StopAwaited
<1>1. ConnInv /\ LinkInv /\ [Next]_vars => LinkInv'
  BY LinkStep
<1>2. ConnInv /\ LinkInv /\ HaltInv /\ [Next]_vars => HaltInv'
  BY HaltStep
<1>3. HaltInv => StopAwaited
  <2> SUFFICES ASSUME HaltInv, script = <<>>, state = "PROV_STOPPING" PROVE Due
    BY DEF StopAwaited, Quiescent, Due, Out
  <2>1. <<>> \in Seq(Entry \ Stops) /\ <<>> \in Seq(Entry \ Leaving)
    OBVIOUS
  <2> QED BY <2>1 DEF HaltInv, Halting, Reposting
<1> QED BY <1>1, <1>2, <1>3, LinkInit, HaltInit, ConnInvariance, PTL DEF Spec

=============================================================================
