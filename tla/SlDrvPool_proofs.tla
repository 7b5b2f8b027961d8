-------------------------- MODULE SlDrvPool_proofs --------------------------
(***************************************************************************)
(* The pool of action objects of SlDrvData for every number of threads,    *)
(* sockets and objects: the three lists that share one link stay proper    *)
(* and disjoint, calls take turns, nobody waits for a turn without         *)
(* somebody to give it, and an answer reaches the call that asked.         *)
(*                                                                         *)
(* A list is an injective sequence of objects (Chain).  The lemmas about   *)
(* lists say what _SlDrvRemoveFromList, the push to the front and the      *)
(* searches do to it; those about steps say that PoolInv survives.         *)
(***************************************************************************)
EXTENDS SlDrvData_proofs, FiniteSetTheorems, WellFoundedInduction

(***************************************************************************)
(* Lists of pool objects: the objects s[1], ..., s[n], chained by next     *)
(***************************************************************************)
At(n, s, i) == IF i \in 1 .. n THEN s[i] ELSE Last

Chain(next, head, n, s) ==
  /\ n \in Nat /\ s \in [1 .. n -> Obj]
  /\ \A i, j \in 1 .. n : s[i] = s[j] => i = j
  /\ head = At(n, s, 1)
  /\ \A i \in 1 .. n : next[s[i]] = At(n, s, i + 1)

(* From head on, next chains just the objects of M *)
IsList(next, head, M) == \E n, s : Chain(next, head, n, s) /\ M = {s[i] : i \in 1 .. n}

SameOn(next, other, M) == \A i \in M : next[i] = other[i]

Links == [Obj -> Obj \cup {Last}]

LEMMA ObjNat == Obj \subseteq Nat \ {0} /\ Last \in Nat \ {0} /\ Last \notin Obj /\ PoolSize \in Nat \ {0}
BY SizeAssumption DEF Obj, Last

LEMMA LeastOf == ASSUME NEW A \in SUBSET Nat, A # {} PROVE \E m \in A : \A k \in A : m <= k
<1>1. \E m \in A : \A k \in A : ~(k < m)
  <2>1. PICK m \in A : \A k \in A : ~ (<<k, m>> \in OpToRel(<, Nat))
    BY NatLessThanWellFounded, WFMin
  <2> QED BY <2>1, Zenon DEF OpToRel
<1> QED BY <1>1

(* No more objects in a list than there are in the pool *)
LEMMA ChainFits ==
  ASSUME NEW next, NEW head, NEW n, NEW s, Chain(next, head, n, s)
  PROVE  n <= PoolSize
<1>1. s \in Injection(1 .. n, Obj)
  BY DEF Chain, Injection, IsInjective
<1>2. IsFiniteSet(Obj) /\ Cardinality(Obj) = PoolSize
  BY FS_Interval, ObjNat DEF Obj
<1>3. Cardinality(1 .. n) = n
  BY FS_Interval DEF Chain
<1> QED BY <1>1, <1>2, <1>3, FS_Injection

LEMMA WalkEq ==
  ASSUME NEW next, NEW head, NEW M, IsList(next, head, M)
  PROVE  LET w == Walk(next, head)
         IN  w = [k \in 0 .. PoolSize |-> IF k = 0 THEN head
                    ELSE IF w[k - 1] = Last THEN Last ELSE next[w[k - 1]]]
<1>1. PICK n, s : Chain(next, head, n, s)
  BY DEF IsList
<1> DEFINE v == [k \in 0 .. PoolSize |-> At(n, s, k + 1)]
<1>2. v = [k \in 0 .. PoolSize |-> IF k = 0 THEN head
             ELSE IF v[k - 1] = Last THEN Last ELSE next[v[k - 1]]]
  <2> SUFFICES ASSUME NEW k \in 0 .. PoolSize
               PROVE  v[k] = IF k = 0 THEN head
                             ELSE IF v[k - 1] = Last THEN Last ELSE next[v[k - 1]]
    OBVIOUS
  <2>1. CASE k = 0
    BY <2>1, <1>1 DEF Chain
  <2>2. CASE k # 0
    <3>1. k - 1 \in 0 .. PoolSize /\ v[k - 1] = At(n, s, k) /\ v[k] = At(n, s, k + 1)
      BY <2>2, ObjNat
    <3>2. CASE k \in 1 .. n
      <4>1. v[k - 1] = s[k] /\ s[k] \in Obj /\ next[s[k]] = At(n, s, k + 1)
        BY <3>1, <3>2, <1>1 DEF Chain, At
      <4> QED BY <4>1, <3>1, <2>2, ObjNat
    <3>3. CASE k \notin 1 .. n
      <4>1. v[k - 1] = Last /\ v[k] = Last
        BY <3>1, <3>3, <2>2, <1>1 DEF Chain, At
      <4> QED BY <4>1, <2>2
    <3> QED BY <3>2, <3>3
  <2> QED BY <2>1, <2>2
<1> HIDE DEF v
<1> QED BY <1>2 DEF Walk

(* Walking along a list visits its objects in order, then stays at Last *)
LEMMA WalkAt ==
  ASSUME NEW next, NEW head, NEW n, NEW s, Chain(next, head, n, s), NEW k \in 0 .. PoolSize
  PROVE  Walk(next, head)[k] = At(n, s, k + 1)
<1> DEFINE w == Walk(next, head)
           bad == {j \in 0 .. PoolSize : w[j] # At(n, s, j + 1)}
<1>0. IsList(next, head, {s[i] : i \in 1 .. n})
  BY DEF IsList
<1>1. \A j \in 0 .. PoolSize : w[j] = IF j = 0 THEN head
                    ELSE IF w[j - 1] = Last THEN Last ELSE next[w[j - 1]]
  <2>1. w = [j \in 0 .. PoolSize |-> IF j = 0 THEN head
                    ELSE IF w[j - 1] = Last THEN Last ELSE next[w[j - 1]]]
    BY <1>0, WalkEq
  <2> HIDE DEF w
  <2> QED BY <2>1
<1> HIDE DEF w
<1> SUFFICES ASSUME bad # {} PROVE FALSE
  BY DEF w
<1>2. PICK m \in bad : \A j \in bad : m <= j
  <2>1. bad \in SUBSET Nat
    BY ObjNat
  <2> QED BY <2>1, LeastOf
<1>3. m \in 0 .. PoolSize /\ w[m] # At(n, s, m + 1)
  BY <1>2
<1>4. m # 0
  BY <1>1, <1>3 DEF Chain
<1>5. m - 1 \in 0 .. PoolSize /\ m - 1 \notin bad
  BY <1>2, <1>3, <1>4, ObjNat
<1>6. w[m - 1] = At(n, s, m)
  BY <1>3, <1>5
<1>7. w[m] = IF w[m - 1] = Last THEN Last ELSE next[w[m - 1]]
  BY <1>1, <1>3, <1>4
<1>8. CASE m \in 1 .. n
  <2>1. w[m - 1] = s[m] /\ s[m] \in Obj /\ next[s[m]] = At(n, s, m + 1)
    BY <1>6, <1>8 DEF Chain, At
  <2> QED BY <2>1, <1>7, <1>3, ObjNat
<1>9. CASE m \notin 1 .. n
  <2>1. At(n, s, m) = Last /\ At(n, s, m + 1) = Last
    BY <1>3, <1>4, <1>9 DEF Chain, At
  <2> QED BY <2>1, <1>6, <1>7, <1>3
<1> QED BY <1>8, <1>9

(* A list ends, and its members are those it was said to have *)
LEMMA ListWalk ==
  ASSUME NEW next, NEW head, NEW M, IsList(next, head, M)
  PROVE  /\ Ends(next, head) /\ Members(next, head) = M
         /\ \A k \in 0 .. PoolSize : Walk(next, head)[k] \in M \cup {Last}
         /\ \A i \in M : \E k \in 0 .. PoolSize : Walk(next, head)[k] = i
<1>1. PICK n, s : Chain(next, head, n, s) /\ M = {s[i] : i \in 1 .. n}
  BY DEF IsList
<1>2. n \in 0 .. PoolSize
  BY <1>1, ChainFits DEF Chain
<1>3. Ends(next, head)
  <2>1. At(n, s, PoolSize + 1) = Last
    BY <1>2, ObjNat DEF At
  <2> QED BY <1>1, <2>1, WalkAt, ObjNat DEF Ends
<1>4. \A k \in 0 .. PoolSize : Walk(next, head)[k] \in M \cup {Last}
  <2> SUFFICES ASSUME NEW k \in 0 .. PoolSize PROVE At(n, s, k + 1) \in M \cup {Last}
    BY <1>1, WalkAt
  <2> QED BY <1>1 DEF At
<1>5. \A i \in M : \E k \in 0 .. PoolSize : Walk(next, head)[k] = i
  <2> SUFFICES ASSUME NEW j \in 1 .. n PROVE \E k \in 0 .. PoolSize : Walk(next, head)[k] = s[j]
    BY <1>1
  <2>1. j - 1 \in 0 .. PoolSize /\ At(n, s, j - 1 + 1) = s[j]
    BY <1>2, ObjNat DEF At
  <2> QED BY <2>1, <1>1, WalkAt
<1>6. Last \notin M
  BY <1>1, ObjNat DEF Chain
<1>7. Members(next, head) = M
  BY <1>4, <1>5, <1>6 DEF Members
<1> QED BY <1>3, <1>4, <1>5, <1>7

(* The search of a list finds an object it passes, if there is one in S *)
LEMMA FirstFound ==
  ASSUME NEW next, NEW head, NEW S
  PROVE  LET w == Walk(next, head)
         IN  IF \E k \in 0 .. PoolSize : w[k] \in S
             THEN \E k \in 0 .. PoolSize : w[k] \in S /\ FirstOf(next, head, S) = w[k]
             ELSE FirstOf(next, head, S) = Last
<1> DEFINE w  == Walk(next, head)
           at == {k \in 0 .. PoolSize : w[k] \in S}
           k0 == CHOOSE k \in at : \A j \in at : k <= j
<1>1. CASE at = {}
  BY <1>1 DEF FirstOf
<1>2. CASE at # {}
  <2>1. at \in SUBSET Nat
    BY ObjNat
  <2> HIDE DEF w
  <2>2. \E k \in at : \A j \in at : k <= j
    <3> HIDE DEF at
    <3> QED BY <1>2, <2>1, LeastOf
  <2>3. k0 \in at
    <3> HIDE DEF at
    <3> QED BY <2>2
  <2>4. FirstOf(next, head, S) = w[k0]
    BY <1>2 DEF FirstOf, w
  <2> HIDE DEF k0
  <2> QED BY <2>3, <2>4 DEF w
<1> QED BY <1>1, <1>2

LEMMA FirstTyped ==
  ASSUME NEW next, NEW head, NEW S \in SUBSET Obj
  PROVE  FirstOf(next, head, S) \in S \cup {Last}
BY FirstFound

(* On a list: a member of S if there is one *)
LEMMA FirstOfList ==
  ASSUME NEW next, NEW head, NEW M, IsList(next, head, M), NEW S \in SUBSET Obj
  PROVE  IF M \cap S = {} THEN FirstOf(next, head, S) = Last
                          ELSE FirstOf(next, head, S) \in M \cap S
<1> DEFINE w == Walk(next, head)
<1>1. Last \notin S
  BY ObjNat
<1>2. /\ \A k \in 0 .. PoolSize : w[k] \in M \cup {Last}
      /\ \A i \in M : \E k \in 0 .. PoolSize : w[k] = i
  BY ListWalk
<1>3. IF \E k \in 0 .. PoolSize : w[k] \in S
      THEN \E k \in 0 .. PoolSize : w[k] \in S /\ FirstOf(next, head, S) = w[k]
      ELSE FirstOf(next, head, S) = Last
  BY FirstFound
<1> HIDE DEF w
<1> QED BY <1>1, <1>2, <1>3

-----------------------------------------------------------------------------
LEMMA EmptyList ==
  ASSUME NEW next, NEW head, NEW M, IsList(next, head, M)
  PROVE  /\ M \subseteq Obj /\ head \in M \cup {Last}
         /\ (head = Last) <=> (M = {})
<1>1. PICK n, s : Chain(next, head, n, s) /\ M = {s[i] : i \in 1 .. n}
  BY DEF IsList
<1>2. M \subseteq Obj /\ head \in M \cup {Last}
  BY <1>1 DEF Chain, At
<1>3. CASE n = 0
  BY <1>1, <1>3 DEF Chain, At
<1>4. CASE n # 0
  <2>1. 1 \in 1 .. n /\ head = s[1] /\ s[1] \in Obj
    BY <1>1, <1>4 DEF Chain, At
  <2>2. s[1] \in M
    BY <2>1, <1>1
  <2> QED BY <2>1, <2>2, <1>2, ObjNat
<1> QED BY <1>2, <1>3, <1>4

LEMMA NoList == ASSUME NEW next PROVE IsList(next, Last, {})
<1> DEFINE s == [i \in 1 .. 0 |-> 1]
<1>1. Chain(next, Last, 0, s)
  BY DEF Chain, At
<1>2. {s[i] : i \in 1 .. 0} = {}
  OBVIOUS
<1> QED BY <1>1, <1>2 DEF IsList

(* Links outside a list do not matter *)
LEMMA SameList ==
  ASSUME NEW next, NEW head, NEW M, IsList(next, head, M),
         NEW other, SameOn(other, next, M)
  PROVE  IsList(other, head, M)
<1>1. PICK n, s : Chain(next, head, n, s) /\ M = {s[i] : i \in 1 .. n}
  BY DEF IsList
<1>2. Chain(other, head, n, s)
  BY <1>1 DEF Chain, SameOn
<1> QED BY <1>1, <1>2 DEF IsList

LEMMA SameOnLess ==
  ASSUME NEW next, NEW other, NEW M, SameOn(next, other, M), NEW K, K \subseteq M
  PROVE  SameOn(next, other, K)
BY DEF SameOn

(* An object is put in front *)
LEMMA PushList ==
  ASSUME NEW next \in Links, NEW head, NEW M, IsList(next, head, M), NEW i \in Obj \ M
  PROVE  IsList([next EXCEPT ![i] = head], i, M \cup {i})
<1>1. PICK n, s : Chain(next, head, n, s) /\ M = {s[j] : j \in 1 .. n}
  BY DEF IsList
<1> DEFINE u == [j \in 1 .. n + 1 |-> IF j = 1 THEN i ELSE s[j - 1]]
           other == [next EXCEPT ![i] = head]
<1>2. n \in Nat /\ s \in [1 .. n -> Obj]
  BY <1>1 DEF Chain
<1>3. u \in [1 .. n + 1 -> Obj]
  BY <1>2
<1>4. \A j \in 1 .. n + 1 : j # 1 => j - 1 \in 1 .. n /\ u[j] = s[j - 1] /\ u[j] # i
  BY <1>1, <1>2
<1>5. \A j, k \in 1 .. n + 1 : u[j] = u[k] => j = k
  BY <1>1, <1>2, <1>4 DEF Chain
<1>6. \A j \in 1 .. n + 1 : other[u[j]] = At(n + 1, u, j + 1)
  <2> SUFFICES ASSUME NEW j \in 1 .. n + 1 PROVE other[u[j]] = At(n + 1, u, j + 1)
    OBVIOUS
  <2>1. CASE j = 1
    BY <2>1, <1>1, <1>2 DEF Chain, At, Links
  <2>2. CASE j # 1
    BY <2>2, <1>1, <1>2, <1>4 DEF Chain, At, Links
  <2> QED BY <2>1, <2>2
<1>7. Chain(other, i, n + 1, u)
  BY <1>2, <1>3, <1>5, <1>6 DEF Chain, At
<1>8. M \cup {i} = {u[j] : j \in 1 .. n + 1}
  <2>1. \A j \in 1 .. n : s[j] = u[j + 1] /\ j + 1 \in 1 .. n + 1
    BY <1>2
  <2>2. u[1] = i /\ 1 \in 1 .. n + 1
    BY <1>2
  <2> HIDE DEF u
  <2> QED BY <1>1, <1>4, <2>1, <2>2
<1> HIDE DEF u
<1> QED BY <1>7, <1>8 DEF IsList

(* The object at place p is cut out *)
LEMMA CutList ==
  ASSUME NEW next \in Links, NEW head, NEW n, NEW s, Chain(next, head, n, s), NEW p \in 1 .. n,
         NEW other, NEW top,
         top = IF p = 1 THEN next[head] ELSE head,
         \A j \in 1 .. n \ {p} : other[s[j]] = IF j = p - 1 THEN next[s[p]] ELSE next[s[j]]
  PROVE  IsList(other, top, {s[j] : j \in 1 .. n} \ {s[p]})
<1> DEFINE u == [j \in 1 .. n - 1 |-> IF j < p THEN s[j] ELSE s[j + 1]]
           At2(j) == At(n - 1, u, j)
<1>1. n \in Nat \ {0} /\ p \in Int /\ s \in [1 .. n -> Obj]
  BY DEF Chain
<1>2. u \in [1 .. n - 1 -> Obj]
  BY <1>1
<1>3. \A j \in 1 .. n - 1 : u[j] = IF j < p THEN s[j] ELSE s[j + 1]
  OBVIOUS
<1>4. \A j, k \in 1 .. n - 1 : u[j] = u[k] => j = k
  BY <1>1, <1>3 DEF Chain
<1> HIDE DEF u
<1>5. \A j \in 1 .. n - 1 : other[u[j]] = At(n - 1, u, j + 1)
  <2> SUFFICES ASSUME NEW j \in 1 .. n - 1 PROVE other[u[j]] = At(n - 1, u, j + 1)
    OBVIOUS
  <2>1. CASE j < p - 1
    <3>1. other[u[j]] = s[j + 1]
      BY <2>1, <1>1, <1>3 DEF Chain, At
    <3>2. j + 1 \in 1 .. n - 1 /\ u[j + 1] = s[j + 1]
      BY <2>1, <1>1, <1>3
    <3> QED BY <3>1, <3>2 DEF At
  <2>2. CASE j = p - 1
    <3>1. other[u[j]] = At(n, s, p + 1)
      BY <2>2, <1>1, <1>3 DEF Chain
    <3> QED BY <3>1, <2>2, <1>1, <1>3 DEF At
  <2>3. CASE j >= p
    <3>1. u[j] = s[j + 1] /\ j + 1 \in 1 .. n \ {p} /\ j + 1 # p - 1
      BY <2>3, <1>1, <1>3
    <3>2. other[u[j]] = At(n, s, j + 2)
      BY <3>1, <1>1 DEF Chain
    <3> QED BY <3>2, <2>3, <1>1, <1>3 DEF At
  <2> QED BY <2>1, <2>2, <2>3, <1>1
<1>6. top = At(n - 1, u, 1)
  <2>1. CASE p = 1
    <3>1. head = s[1] /\ next[s[1]] = At(n, s, 2)
      BY <2>1, <1>1 DEF Chain, At
    <3> QED BY <3>1, <2>1, <1>1, <1>3 DEF At
  <2>2. CASE p # 1
    <3>1. head = s[1] /\ 1 \in 1 .. n - 1 /\ 1 < p
      BY <2>2, <1>1 DEF Chain, At
    <3> QED BY <3>1, <2>2, <1>1, <1>3 DEF At
  <2> QED BY <2>1, <2>2
<1>7. Chain(other, top, n - 1, u)
  BY <1>1, <1>2, <1>4, <1>5, <1>6 DEF Chain
<1>8. {s[j] : j \in 1 .. n} \ {s[p]} = {u[j] : j \in 1 .. n - 1}
  <2>1. \A j \in 1 .. n - 1 : \E k \in 1 .. n : u[j] = s[k] /\ k # p
    <3> TAKE j \in 1 .. n - 1
    <3>1. CASE j < p
      BY <3>1, <1>1, <1>3
    <3>2. CASE ~(j < p)
      BY <3>2, <1>1, <1>3
    <3> QED BY <3>1, <3>2
  <2>2. \A k \in 1 .. n \ {p} : \E j \in 1 .. n - 1 : s[k] = u[j]
    <3> TAKE k \in 1 .. n \ {p}
    <3>1. CASE k < p
      BY <3>1, <1>1, <1>3
    <3>2. CASE ~(k < p)
      <4>1. k - 1 \in 1 .. n - 1 /\ u[k - 1] = s[k]
        BY <3>2, <1>1, <1>3
      <4> QED BY <4>1
    <3> QED BY <3>1, <3>2
  <2>3. \A k \in 1 .. n : s[k] = s[p] => k = p
    BY DEF Chain
  <2> QED BY <2>1, <2>2, <2>3
<1> QED BY <1>7, <1>8 DEF IsList

(* The first object is taken *)
LEMMA PopList ==
  ASSUME NEW next \in Links, NEW head, NEW M, IsList(next, head, M), head # Last
  PROVE  head \in M /\ IsList(next, next[head], M \ {head})
<1>1. PICK n, s : Chain(next, head, n, s) /\ M = {s[j] : j \in 1 .. n}
  BY DEF IsList
<1>2. 1 \in 1 .. n /\ head = s[1]
  BY <1>1 DEF Chain, At
<1>3. \A j \in 1 .. n \ {1} : next[s[j]] = IF j = 1 - 1 THEN next[s[1]] ELSE next[s[j]]
  BY <1>1 DEF Chain
<1>4. IsList(next, next[head], {s[j] : j \in 1 .. n} \ {s[1]})
  BY <1>1, <1>2, <1>3, CutList
<1> QED BY <1>1, <1>2, <1>4

(***************************************************************************)
(* _SlDrvRemoveFromList takes just its object from a list that has it, and *)
(* changes no link outside that list.                                      *)
(***************************************************************************)
LEMMA RemoveList ==
  ASSUME NEW next \in Links, NEW head, NEW M, IsList(next, head, M), NEW i \in M
  PROVE  LET r == Removed(next, head, i)
         IN  /\ r.next \in Links /\ IsList(r.next, r.head, M \ {i})
             /\ SameOn(r.next, next, Obj \ M)
<1>1. PICK n, s : Chain(next, head, n, s) /\ M = {s[j] : j \in 1 .. n}
  BY DEF IsList
<1>2. PICK p \in 1 .. n : i = s[p]
  BY <1>1
<1>3. n \in Nat \ {0} /\ head = s[1] /\ 1 \in 1 .. n /\ s \in [1 .. n -> Obj]
      /\ next[head] = At(n, s, 2) /\ head # Last
  BY <1>1, <1>2, ObjNat DEF Chain, At
<1>4. CASE next[head] = Last
  <2>1. n = 1
    BY <1>3, <1>4, ObjNat DEF At
  <2>2. M \ {i} = {}
    BY <2>1, <1>1, <1>2
  <2> QED BY <2>2, <1>4, NoList DEF Removed, SameOn
<1>5. CASE next[head] # Last /\ p = 1
  <2>1. Removed(next, head, i) = [head |-> next[i], next |-> next]
    BY <1>2, <1>3, <1>5 DEF Removed
  <2>2. IsList(next, next[head], M \ {head})
    BY <1>3, PopList
  <2> QED BY <2>1, <2>2, <1>2, <1>3, <1>5 DEF SameOn
<1>6. CASE next[head] # Last /\ p # 1
  <2> DEFINE S == {j \in Obj : next[j] = i}
             other == [next EXCEPT ![s[p - 1]] = next[i]]
  <2>1. head # i /\ p - 1 \in 1 .. n /\ s[p - 1] \in Obj /\ p \in Int
    BY <1>1, <1>2, <1>3, <1>6 DEF Chain
  <2>2. M \cap S = {s[p - 1]}
    <3>1. next[s[p - 1]] = i
      BY <2>1, <1>1, <1>2 DEF Chain, At
    <3>2. \A j \in 1 .. n : next[s[j]] = i => j = p - 1
      <4> SUFFICES ASSUME NEW j \in 1 .. n, next[s[j]] = i PROVE j = p - 1
        OBVIOUS
      <4>1. At(n, s, j + 1) = s[p] /\ s[p] # Last
        BY <1>1, <1>2, <1>3, ObjNat DEF Chain
      <4> QED BY <4>1, <1>1, <1>3, <2>1 DEF Chain, At
    <3> QED BY <3>1, <3>2, <2>1, <1>1
  <2>3. FirstOf(next, head, S) = s[p - 1]
    BY <2>2, FirstOfList
  <2>4. s[p - 1] # Last
    BY <2>1, ObjNat
  <2>5. Removed(next, head, i) = [head |-> head, next |-> other]
    BY <2>1, <2>3, <2>4, <1>3, <1>6 DEF Removed
  <2>6. next[i] \in Obj \cup {Last}
    BY <1>2, <1>3 DEF Links
  <2>7. other \in Links
    BY <2>6, <2>1 DEF Links
  <2>8. \A j \in 1 .. n \ {p} : other[s[j]] = IF j = p - 1 THEN next[s[p]] ELSE next[s[j]]
    BY <2>1, <1>1, <1>2, <1>3 DEF Chain, Links
  <2>9. IsList(other, head, M \ {i})
    BY <2>8, <1>1, <1>2, <1>6, CutList
  <2>10. SameOn(other, next, Obj \ M)
    <3>1. s[p - 1] \in M
      BY <2>1, <1>1
    <3> QED BY <3>1 DEF Links, SameOn
  <2> QED BY <2>5, <2>7, <2>9, <2>10
<1> QED BY <1>4, <1>5, <1>6

(* The list _SlDrvDriverCBInit sets up *)
LEMMA InitList == IsList([i \in Obj |-> i + 1], 1, Obj)
<1> DEFINE s == [i \in 1 .. PoolSize |-> i]
<1>1. Chain([i \in Obj |-> i + 1], 1, PoolSize, s)
  BY SizeAssumption DEF Chain, At, Obj, Last
<1>2. Obj = {s[i] : i \in 1 .. PoolSize}
  BY DEF Obj
<1> QED BY <1>1, <1>2 DEF IsList

-----------------------------------------------------------------------------
PoolTypes ==
  /\ obj \in [Thread -> Obj \cup {Last}] /\ NextIndex \in Links
  /\ FreePoolIdx \in Obj \cup {Last} /\ PendingPoolIdx \in Obj \cup {Last}
  /\ ActivePoolIdx \in Obj \cup {Last}
  /\ action \in [Obj -> Action] /\ ActiveActionsBitmap \subseteq Sock \cup Op
  /\ SyncObj \in [Obj -> BOOLEAN] /\ ProtectionLockObj \in Thread \cup {None}
  /\ asked \subseteq Obj

(* Where a thread has a pool object *)
Holds(t) == pc[t] \in {"pend", "retest"} \/ HasActive(t)

Holding ==
  \A t \in Thread :
    /\ Holds(t) => obj[t] \in Obj
    /\ ~Holds(t) /\ pc[t] # "spin" => obj[t] = Last
    /\ pc[t] \in {"getobj", "pend", "retest", "cmd", "resp", "await", "release"} => call[t].op # "send"
    /\ pc[t] \notin {"idle", "spin"} => call[t] \in Calls[t] \cap Request
    /\ pc[t] \in TxPc \cup {"txlock", "write"} => call[t].op \in {"send", "recv"}

TypeInv == FlowInv /\ PoolTypes /\ Holding

LEMMA RequestType == Request \subseteq Action /\ \A c \in Action : BitOf(c) \in Sock \cup Op
BY DEF Request, Action, Op, SockOp, PlainOp, BitOf

LEMMA TypesInit == Init => TypeInv
<1> SUFFICES ASSUME Init PROVE TypeInv
  OBVIOUS
<1> USE DEF Init
<1>1. FlowInv
  BY FlowInit
<1>2. NextIndex \in Links /\ 1 \in Obj
  BY SizeAssumption DEF Links, Obj, Last
<1>3. PoolTypes
  BY <1>2, NoCallType DEF PoolTypes
<1>4. Holding
  BY DEF Holding, Holds, HasActive, Using, TxPc
<1> QED BY <1>1, <1>3, <1>4 DEF TypeInv

(* A step of a thread that leaves the pool alone; it may signal objects, or ask *)
GoesOn(t, l) ==
  /\ Goto(t, l) /\ UNCHANGED <<call, obj>>
  /\ pc[t] \in {"pend", "retest"} \cup Using
  /\ call[t].op = "send" => l \in TxPc \cup {"txlock", "write"}
  /\ call[t].op = "recv" => l \in {"retest"} \cup Using
  /\ call[t].op \notin {"send", "recv"} => l \in {"retest", "cmd", "resp", "await", "release"}

LEMMA QuietTypes ==
  ASSUME TypeInv, NEW t \in Thread, pc[t] # "spin",
         UNCHANGED poolVars, SyncObj' \in [Obj -> BOOLEAN], asked' \subseteq Obj,
         Return(t) \/ \E l \in Pc : GoesOn(t, l)
  PROVE  PoolTypes' /\ Holding'
<1> USE DEF TypeInv
<1>1. obj' \in [Thread -> Obj \cup {Last}]
  BY DEF PoolTypes, Return, GoesOn
<1>2. PoolTypes'
  BY <1>1 DEF PoolTypes, poolVars
<1>3. CASE Return(t)
  <2> SUFFICES ASSUME NEW u \in Thread
               PROVE  /\ Holds(u)' => obj'[u] \in Obj
                      /\ ~Holds(u)' /\ pc'[u] # "spin" => obj'[u] = Last
                      /\ pc'[u] \in {"getobj", "pend", "retest", "cmd", "resp", "await", "release"} => call'[u].op # "send"
                      /\ pc'[u] \notin {"idle", "spin"} => call'[u] \in Calls[u] \cap Request
                      /\ pc'[u] \in TxPc \cup {"txlock", "write"} => call'[u].op \in {"send", "recv"}
    BY <1>2 DEF Holding
  <2>1. pc'[u] = (IF u = t THEN "idle" ELSE pc[u]) /\ obj'[u] = (IF u = t THEN Last ELSE obj[u])
        /\ call'[u] = IF u = t THEN NoCall ELSE call[u]
    BY <1>3 DEF Return, Goto, FlowInv, FlowTypes, PoolTypes
  <2> QED BY <2>1 DEF Holding, Holds, HasActive, Using, TxPc
<1>4. ASSUME NEW l \in Pc, GoesOn(t, l) PROVE Holding'
  <2> SUFFICES ASSUME NEW u \in Thread
               PROVE  /\ Holds(u)' => obj'[u] \in Obj
                      /\ ~Holds(u)' /\ pc'[u] # "spin" => obj'[u] = Last
                      /\ pc'[u] \in {"getobj", "pend", "retest", "cmd", "resp", "await", "release"} => call'[u].op # "send"
                      /\ pc'[u] \notin {"idle", "spin"} => call'[u] \in Calls[u] \cap Request
                      /\ pc'[u] \in TxPc \cup {"txlock", "write"} => call'[u].op \in {"send", "recv"}
    BY DEF Holding
  <2>1. pc'[u] = (IF u = t THEN l ELSE pc[u]) /\ obj'[u] = obj[u] /\ call'[u] = call[u]
    BY <1>4 DEF GoesOn, Goto, FlowInv, FlowTypes
  <2>2. CASE u # t
    BY <2>1, <2>2 DEF Holding, Holds, HasActive
  <2>3. CASE u = t
    BY <2>1, <2>3, <1>4 DEF GoesOn, Holding, Holds, HasActive, Using, TxPc
  <2> QED BY <2>2, <2>3
<1> QED BY <1>2, <1>3, <1>4

LEMMA FatalSignal ==
  ASSUME PoolTypes, HandleFatalError PROVE SyncObj' \in [Obj -> BOOLEAN]
BY DEF PoolTypes, HandleFatalError

LEMMA TypesQuiet ==
  ASSUME TypeInv, NEW t \in Thread,
         \/ PoolIsEmpty(t) \/ PendWake(t) \/ TxLock(t) \/ TxCheck(t) \/ SendGivesUp(t)
         \/ FlowWake(t) \/ FlowAborted(t) \/ FlowTimeout(t) \/ LockTest(t) \/ LockRefused(t)
         \/ LockShort(t) \/ LockAcquire(t) \/ Write(t) \/ WriteFails(t) \/ CmdRefused(t)
         \/ Cmd(t) \/ CmdFails(t) \/ CmdResponse(t) \/ CmdAborted(t) \/ Await(t) \/ AwaitTimeout(t)
  PROVE  PoolTypes' /\ Holding'
<1>1. UNCHANGED poolVars
  BY DEF PoolIsEmpty, PendWake, TxLock, TxCheck, SendGivesUp, FlowWake, FlowAborted,
     FlowTimeout, LockTest, LockRefused, LockShort, LockAcquire, Write, WriteFails, CmdRefused,
     Cmd, CmdFails, CmdResponse, CmdAborted, Await, AwaitTimeout
<1>2. SyncObj' \in [Obj -> BOOLEAN]
  BY FatalSignal DEF TypeInv, PoolTypes, PoolIsEmpty, PendWake, TxLock, TxCheck, SendGivesUp, FlowWake, FlowAborted,
     FlowTimeout, LockTest, LockRefused, LockShort, LockAcquire, Write, WriteFails, CmdRefused,
     Cmd, CmdFails, CmdResponse, CmdAborted, Await, AwaitTimeout
<1>3. asked' \subseteq Obj
  BY DEF TypeInv, PoolTypes, Holding, Holds, HasActive, Using, nwpVars,
     PoolIsEmpty, PendWake, TxLock, TxCheck, SendGivesUp, FlowWake, FlowAborted,
     FlowTimeout, LockTest, LockRefused, LockShort, LockAcquire, Write, WriteFails, CmdRefused,
     Cmd, CmdFails, CmdResponse, CmdAborted, Await, AwaitTimeout
<1>4. pc[t] # "spin"
  BY DEF PoolIsEmpty, PendWake, TxLock, TxCheck, SendGivesUp, FlowWake, FlowAborted,
     FlowTimeout, LockTest, LockRefused, LockShort, LockAcquire, Write, WriteFails, CmdRefused,
     Cmd, CmdFails, CmdResponse, CmdAborted, Await, AwaitTimeout
<1>5. Return(t) \/ \E l \in Pc : GoesOn(t, l)
  <2>1. CASE TxLock(t) \/ TxCheck(t) \/ SendGivesUp(t) \/ FlowWake(t) \/ FlowAborted(t) \/ FlowTimeout(t)
    BY <2>1 DEF TxLock, TxCheck, SendGivesUp, FlowWake, FlowAborted, FlowTimeout, GoesOn, TxPc, Using, Pc, callVars, TypeInv, Holding
  <2>2. CASE LockTest(t) \/ LockRefused(t) \/ LockShort(t) \/ LockAcquire(t)
    BY <2>2 DEF LockTest, LockRefused, LockShort, LockAcquire, GoesOn, TxPc, Using, Pc, callVars, TypeInv, Holding
  <2>3. CASE Write(t) \/ WriteFails(t)
    BY <2>3 DEF Write, WriteFails, GoesOn, TxPc, Using, Pc, callVars, TypeInv, Holding
  <2>4. CASE PoolIsEmpty(t) \/ PendWake(t) \/ Await(t) \/ AwaitTimeout(t)
    BY <2>4 DEF PoolIsEmpty, PendWake, Await, AwaitTimeout, GoesOn, Using, Pc, callVars, TypeInv, Holding
  <2>5. CASE CmdRefused(t) \/ Cmd(t) \/ CmdFails(t) \/ CmdResponse(t) \/ CmdAborted(t)
    BY <2>5 DEF CmdRefused, Cmd, CmdFails, CmdResponse, CmdAborted, GoesOn, Using, Pc, callVars,
       TypeInv, Holding
  <2> QED BY <2>1, <2>2, <2>3, <2>4, <2>5
<1> QED BY <1>1, <1>2, <1>3, <1>4, <1>5, QuietTypes

(* A thread that goes on with another object, or another call *)
HoldsWell(t, p, o, c) ==
  LET holds == p \in {"pend", "retest"} \/ (p \in Using /\ c.op # "send")
  IN  /\ holds => o \in Obj
      /\ ~holds /\ p # "spin" => o = Last
      /\ p \in {"getobj", "pend", "retest", "cmd", "resp", "await", "release"} => c.op # "send"
      /\ p \notin {"idle", "spin"} => c \in Calls[t] \cap Request
      /\ p \in TxPc \cup {"txlock", "write"} => c.op \in {"send", "recv"}

LEMMA HoldingDef == Holding <=> \A t \in Thread : HoldsWell(t, pc[t], obj[t], call[t])
BY DEF Holding, HoldsWell, Holds, HasActive, TxPc

LEMMA HoldingStep ==
  ASSUME TypeInv, NEW t \in Thread, NEW p, NEW o, NEW c, HoldsWell(t, p, o, c),
         pc' = [pc EXCEPT ![t] = p], obj' = [obj EXCEPT ![t] = o], call' = [call EXCEPT ![t] = c]
  PROVE  Holding'
<1> SUFFICES ASSUME NEW u \in Thread PROVE HoldsWell(u, pc[u], obj[u], call[u])'
  BY DEF Holding, HoldsWell, Holds, HasActive, TxPc
<1>1. /\ pc'[u] = (IF u = t THEN p ELSE pc[u]) /\ obj'[u] = (IF u = t THEN o ELSE obj[u])
      /\ call'[u] = IF u = t THEN c ELSE call[u]
  BY DEF TypeInv, FlowInv, FlowTypes, PoolTypes
<1>2. HoldsWell(u, pc[u], obj[u], call[u])
  BY HoldingDef DEF TypeInv
<1> QED BY <1>1, <1>2 DEF HoldsWell

LEMMA CallTypes == ASSUME TypeInv, NEW t \in Thread, Call(t) PROVE PoolTypes' /\ Holding'
<1>1. PICK c \in Calls[t] : /\ call' = [call EXCEPT ![t] = c]
                            /\ Goto(t, IF c.op = "send" THEN "txlock" ELSE "getobj")
  BY DEF Call
<1>2. c \in Calls[t] \cap Request
  BY CallsAssumption
<1>3. UNCHANGED <<obj, poolVars, SyncObj, asked>> /\ pc[t] = "idle"
  BY DEF Call, nwpVars
<1>4. PoolTypes'
  BY <1>3 DEF TypeInv, PoolTypes, poolVars
<1>5. obj[t] = Last
  BY <1>3 DEF TypeInv, Holding, Holds, HasActive, Using
<1>6. obj' = [obj EXCEPT ![t] = Last]
  BY <1>3, <1>5 DEF TypeInv, PoolTypes
<1>7. HoldsWell(t, IF c.op = "send" THEN "txlock" ELSE "getobj", Last, c)
  BY <1>2 DEF HoldsWell, Using, TxPc, Request
<1>8. Holding'
  BY <1>1, <1>6, <1>7, HoldingStep DEF Goto
<1> QED BY <1>4, <1>8

(* Where PendOrActivate leads a thread with object i *)
LEMMA TestTypes ==
  ASSUME TypeInv, NEW t \in Thread, NEW i \in Obj, PendOrActivate(t, i),
         UNCHANGED call, call[t] \in Calls[t] \cap Request, call[t].op # "send"
  PROVE  /\ NextIndex' \in Links /\ PendingPoolIdx' \in Obj \cup {Last}
         /\ ActivePoolIdx' \in Obj \cup {Last} /\ ActiveActionsBitmap' \subseteq Sock \cup Op
         /\ \E p : HoldsWell(t, p, i, call[t]) /\ pc' = [pc EXCEPT ![t] = p]
<1>1. BitOf(call[t]) \in Sock \cup Op
  BY RequestType
<1>2. CASE Busy(call[t])
  <2>1. HoldsWell(t, "pend", i, call[t])
    BY DEF HoldsWell, TxPc
  <2> QED BY <1>2, <2>1 DEF PendOrActivate, Goto, TypeInv, PoolTypes, Links
<1>3. CASE ~Busy(call[t])
  <2>1. HoldsWell(t, "cmd", i, call[t]) /\ (call[t].op = "recv" => HoldsWell(t, "txlock", i, call[t]))
    BY DEF HoldsWell, Using, TxPc
  <2> QED BY <1>1, <1>3, <2>1 DEF PendOrActivate, Goto, TypeInv, PoolTypes, Links
<1> QED BY <1>2, <1>3

LEMMA SameCallOf == ASSUME TypeInv, NEW t \in Thread, UNCHANGED call
                    PROVE  call' = [call EXCEPT ![t] = call[t]]
BY DEF TypeInv, FlowInv, FlowTypes

LEMMA TakeTypes == ASSUME TypeInv, NEW t \in Thread, TakePoolObj(t) PROVE PoolTypes' /\ Holding'
<1> DEFINE i == FreePoolIdx
<1>1. i \in Obj /\ NextIndex[i] \in Obj \cup {Last}
  BY DEF TakePoolObj, TypeInv, PoolTypes, Links
<1>2. call[t] \in Calls[t] \cap Request /\ call[t].op # "send"
  BY DEF TakePoolObj, TypeInv, Holding
<1>3. obj' = [obj EXCEPT ![t] = i] /\ PendOrActivate(t, i) /\ FreePoolIdx' = NextIndex[i]
      /\ UNCHANGED <<call, SyncObj, ProtectionLockObj, asked>>
      /\ action' = [action EXCEPT ![i] = [call[t] EXCEPT !.sock =
                        IF @ # NoSock THEN @ ELSE action[i].sock]]
  BY DEF TakePoolObj, nwpVars
<1>4. action' \in [Obj -> Action]
  <2>1. action[i].sock \in Sock \cup {NoSock}
    BY <1>1 DEF TypeInv, PoolTypes, Action
  <2>2. [call[t] EXCEPT !.sock = IF @ # NoSock THEN @ ELSE action[i].sock] \in Action
    BY <1>2, <2>1, RequestType DEF Action
  <2> QED BY <1>3, <2>2 DEF TypeInv, PoolTypes
<1>5. PoolTypes'
  BY <1>1, <1>2, <1>3, <1>4, TestTypes DEF TypeInv, PoolTypes
<1>6. Holding'
  BY <1>1, <1>2, <1>3, TestTypes, HoldingStep, SameCallOf
<1> QED BY <1>5, <1>6

LEMMA RetestTypes == ASSUME TypeInv, NEW t \in Thread, Retest(t) PROVE PoolTypes' /\ Holding'
<1>1. call[t] \in Calls[t] \cap Request /\ call[t].op # "send" /\ obj[t] \in Obj
  BY DEF Retest, TypeInv, Holding, Holds
<1>2. PendOrActivate(t, obj[t])
      /\ UNCHANGED <<call, obj, FreePoolIdx, action, SyncObj, ProtectionLockObj, asked>>
  BY DEF Retest, nwpVars, callVars
<1>3. PoolTypes'
  BY <1>1, <1>2, TestTypes DEF TypeInv, PoolTypes
<1>4. obj' = [obj EXCEPT ![t] = obj[t]]
  BY <1>2 DEF TypeInv, PoolTypes
<1>5. PICK p : HoldsWell(t, p, obj[t], call[t]) /\ pc' = [pc EXCEPT ![t] = p]
  BY <1>1, <1>2, TestTypes
<1>6. Holding'
  BY <1>2, <1>4, <1>5, HoldingStep, SameCallOf
<1> QED BY <1>3, <1>6

(* Removal keeps the indexes in the pool, on whatever links *)
LEMMA RemovedTyped ==
  ASSUME NEW next \in Links, NEW head \in Obj \cup {Last}, NEW i \in Obj
  PROVE  Removed(next, head, i).next \in Links /\ Removed(next, head, i).head \in Obj \cup {Last}
<1> DEFINE before == FirstOf(next, head, {j \in Obj : next[j] = i})
<1>1. next[i] \in Obj \cup {Last}
  BY DEF Links
<1>2. [next EXCEPT ![before] = next[i]] \in Links
  <2> HIDE DEF before
  <2> QED BY <1>1 DEF Links
<1> HIDE DEF before
<1> QED BY <1>1, <1>2 DEF Removed, before

LEMMA WokenTyped ==
  ASSUME PoolTypes, NEW i \in Obj
  PROVE  /\ Waiter(i) \in Obj \cup {Last} /\ Signalled(i) \in [Obj -> BOOLEAN]
         /\ Woken(i).next \in Links /\ Woken(i).head \in Obj \cup {Last}
<1>1. Waiter(i) \in Obj \cup {Last}
  <2> DEFINE S == {j \in Obj : Wakes(action[i], action[j])}
  <2>1. S \in SUBSET Obj
    OBVIOUS
  <2>2. FirstOf(NextIndex, PendingPoolIdx, S) \in S \cup {Last}
    <3> HIDE DEF S
    <3> QED BY <2>1, FirstTyped
  <2> QED BY <2>1, <2>2 DEF Waiter
<1>2. Signalled(i) \in [Obj -> BOOLEAN]
  BY DEF Signalled, PoolTypes
<1>3. Woken(i).next \in Links /\ Woken(i).head \in Obj \cup {Last}
  BY <1>1, RemovedTyped DEF Woken, PoolTypes
<1> QED BY <1>1, <1>2, <1>3

LEMMA ReleaseTypes ==
  ASSUME TypeInv, NEW t \in Thread, ReleasePoolObj(t)
  PROVE  PoolTypes' /\ Holding'
<1> DEFINE i == obj[t]  w == Woken(i)  r == Removed(w.next, ActivePoolIdx, i)
<1>1. i \in Obj
  BY DEF ReleasePoolObj, TypeInv, Holding, Holds, HasActive, Using
<1>2. /\ PendingPoolIdx' = w.head /\ SyncObj' = Signalled(i) /\ Return(t) /\ UNCHANGED asked
      /\ \/ /\ ProtectionLockObj' = t /\ NextIndex' = w.next
            /\ UNCHANGED <<FreePoolIdx, ActivePoolIdx, action, ActiveActionsBitmap>>
         \/ /\ ActiveActionsBitmap' = ActiveActionsBitmap \ {BitOf(action[i])}
            /\ action' = [action EXCEPT ![i] = NoCall]
            /\ ActivePoolIdx' = r.head
            /\ NextIndex' = [r.next EXCEPT ![i] = FreePoolIdx] /\ FreePoolIdx' = i
            /\ UNCHANGED ProtectionLockObj
  BY DEF ReleasePoolObj, nwpVars
<1>3. w.next \in Links /\ w.head \in Obj \cup {Last} /\ Signalled(i) \in [Obj -> BOOLEAN]
  BY <1>1, WokenTyped DEF TypeInv
<1>4. r.next \in Links /\ r.head \in Obj \cup {Last}
  BY <1>1, <1>3, RemovedTyped DEF TypeInv, PoolTypes
<1>5. PoolTypes'
  <2>1. obj' \in [Thread -> Obj \cup {Last}]
    BY <1>2 DEF Return, TypeInv, PoolTypes
  <2>2. [r.next EXCEPT ![i] = FreePoolIdx] \in Links
    BY <1>4 DEF TypeInv, PoolTypes, Links
  <2> HIDE DEF w, r
  <2> QED BY <1>1, <1>2, <1>3, <1>4, <2>1, <2>2, NoCallType DEF TypeInv, PoolTypes
<1>6. HoldsWell(t, "idle", Last, NoCall)
  BY DEF HoldsWell, Using, TxPc
<1>7. Holding'
  BY <1>2, <1>6, HoldingStep DEF Return, Goto
<1> QED BY <1>5, <1>7

LEMMA SpinTypes == ASSUME TypeInv, NEW t \in Thread, ReleaseSpins(t) PROVE PoolTypes' /\ Holding'
<1>1. PoolTypes'
  BY DEF ReleaseSpins, callVars, nwpVars, TypeInv, PoolTypes
<1>2. HoldsWell(t, "spin", obj[t], call[t])
  BY DEF HoldsWell, Using, TxPc, ReleaseSpins, TypeInv, Holding
<1>3. obj' = [obj EXCEPT ![t] = obj[t]] /\ UNCHANGED call
  BY DEF ReleaseSpins, callVars, TypeInv, PoolTypes
<1>4. Holding'
  BY <1>2, <1>3, HoldingStep, SameCallOf DEF ReleaseSpins, Goto
<1> QED BY <1>1, <1>4

(* The environment signals objects and answers requests *)
LEMMA OutsideTypes ==
  ASSUME TypeInv, NwpStep \/ AbortElsewhere \/ ProvStart \/ UNCHANGED vars
  PROVE  PoolTypes' /\ Holding'
<1>1. UNCHANGED <<pc, call, obj, poolVars>>
  BY DEF NwpStep, ReadEvent, OtherCommand, OtherEnds, OtherResponse, OtherAborted,
     OtherCmdSend, ReadAnswer, Drain, AbortElsewhere, ProvStart, vars, callVars
<1>2. SyncObj' \in [Obj -> BOOLEAN] /\ asked' \subseteq Obj
  BY FatalSignal DEF NwpStep, ReadEvent, OtherCommand, OtherEnds, OtherResponse, OtherAborted,
     OtherCmdSend, ReadAnswer, Drain, AbortElsewhere, ProvStart,
     vars, nwpVars, TypeInv, PoolTypes
<1>3. PoolTypes'
  BY <1>1, <1>2 DEF TypeInv, PoolTypes, poolVars
<1>4. Holding'
  BY <1>1 DEF TypeInv, Holding, Holds, HasActive, TxPc
<1> QED BY <1>3, <1>4

LEMMA TypesStep == TypeInv /\ [Next]_vars => TypeInv'
<1> SUFFICES ASSUME TypeInv, [Next]_vars PROVE TypeInv'
  OBVIOUS
<1>1. FlowInv'
  BY FlowStep DEF TypeInv
<1>2. ASSUME NEW t \in Thread, Call(t) \/ ThreadStep(t) \/ TxLock(t) \/ GetGlobal(t)
      PROVE  PoolTypes' /\ Holding'
  BY <1>2, CallTypes, TakeTypes, RetestTypes, ReleaseTypes, SpinTypes, TypesQuiet
     DEF ThreadStep, GetGlobal
<1>3. ASSUME NwpStep \/ AbortElsewhere \/ ProvStart \/ UNCHANGED vars
      PROVE  PoolTypes' /\ Holding'
  BY <1>3, OutsideTypes
<1> QED BY <1>1, <1>2, <1>3 DEF Next, TypeInv

(* Objects and indexes stay in the pool, and a thread holds one where it should *)
THEOREM DataTypes == Spec => []TypeInv
<1> QED BY TypesInit, TypesStep, PTL DEF Spec

(***************************************************************************)
(* Every index a list operation stores is that of an object or the end of  *)
(* a list, so none is followed out of the pool, and the bitmap, the locks  *)
(* and TxPoolCnt keep their ranges (driver.c 2342-2618, 880-1126).         *)
(***************************************************************************)
THEOREM DataTypeOK == Spec => []TypeOK
<1>1. TypeInv => TypeOK
  BY SizeAssumption DEF TypeInv, FlowInv, FlowTypes, PoolTypes, Links, TypeOK
<1> QED BY <1>1, DataTypes, PTL

-----------------------------------------------------------------------------
Held       == {obj[t] : t \in Thread}
Waiting(t) == pc[t] = "pend" /\ ~SyncObj[obj[t]]
WaitObjs   == {obj[t] : t \in {u \in Thread : Waiting(u)}}
ActiveObjs == {obj[t] : t \in {u \in Thread : HasActive(u)}}
FreeObjs(L) == Obj \ (L \cup Held)
InUse(L)    == L \cup ActiveObjs

(* select without a socket does not wait for its bit *)
Exempt(a) == a.sock = NoSock /\ a.op = "select"

(* Every object is free, pending, active, or signalled and about to be tested *)
Lists(L) ==
  /\ IsList(NextIndex, FreePoolIdx, FreeObjs(L))
  /\ IsList(NextIndex, PendingPoolIdx, WaitObjs)
  /\ IsList(NextIndex, ActivePoolIdx, InUse(L))

(* L: objects a call refused during provisioning left active *)
Leaks(L) ==
  /\ L \in SUBSET Obj /\ L \cap Held = {} /\ (L # {} => ProvActive)
  /\ \A i \in L : action[i] \in Request

(* Objects belong to one thread each and carry its call *)
Owned(L) ==
  /\ \A t, u \in Thread : obj[t] = obj[u] /\ obj[t] \in Obj => t = u
  /\ \A t \in Thread : obj[t] \in Obj => action[obj[t]] = call[t]
  /\ \A i \in FreeObjs(L) : action[i] = NoCall

(* Only who waits is signalled; only who waits unsignalled has asked *)
Signals ==
  /\ \A i \in Obj : SyncObj[i] => \E t \in Thread : obj[t] = i /\ pc[t] \in {"pend", "await"}
  /\ \A i \in asked : \E t \in Thread : obj[t] = i /\ pc[t] = "await" /\ ~SyncObj[i]

(* The bitmap is that of the objects in use, and they differ in their bits *)
Bits(L) ==
  /\ \A i \in InUse(L) : ~Exempt(action[i]) => BitOf(action[i]) \in ActiveActionsBitmap
  /\ \A i, j \in InUse(L) :
       ~Exempt(action[i]) /\ ~Exempt(action[j]) /\ BitOf(action[i]) = BitOf(action[j]) => i = j
  /\ \A b \in ActiveActionsBitmap : \E i \in InUse(L) : b = BitOf(action[i])

(* All calls that wait on the socket of c, if it has one, are of its kind *)
Uniform(c) == c.sock # NoSock => KindsOn(c.sock) = {c.op}

(* Whoever of them waits for its turn has a fellow that does not *)
Served ==
  ~ProvActive => \A v \in Thread : Waiting(v) /\ Uniform(call[v]) =>
    \E u \in Thread : obj[u] \in Obj /\ ~Waiting(u) /\ BitOf(call[u]) = BitOf(call[v])

PoolBody(L) == Lists(L) /\ Leaks(L) /\ Owned(L) /\ Signals /\ Bits(L) /\ Served

PoolInv ==
  ~RestartRequired =>
    /\ ProtectionLockObj = None /\ \A t \in Thread : pc[t] # "spin"
    /\ \E L : PoolBody(L)

-----------------------------------------------------------------------------
LEMMA PoolInit == Init => PoolInv
<1> SUFFICES ASSUME Init PROVE PoolInv
  OBVIOUS
<1> USE DEF Init
<1>1. FreeObjs({}) = Obj
  BY ObjNat DEF FreeObjs, Held
<1>2. WaitObjs = {} /\ InUse({}) = {}
  BY DEF WaitObjs, Waiting, InUse, ActiveObjs, HasActive, Using
<1>3. Lists({})
  BY <1>1, <1>2, InitList, NoList DEF Lists
<1>4. Leaks({}) /\ Owned({}) /\ Signals
  BY ObjNat DEF Leaks, Owned, Signals, FreeObjs
<1>5. Bits({}) /\ Served
  BY <1>2 DEF Bits, Served, Waiting
<1> QED BY <1>3, <1>4, <1>5 DEF PoolInv, PoolBody

(* A free object is put on no list twice *)
LEMMA Apart ==
  ASSUME TypeInv, NEW L, PoolBody(L)
  PROVE  /\ FreeObjs(L) \cap WaitObjs = {} /\ FreeObjs(L) \cap InUse(L) = {}
         /\ WaitObjs \cap InUse(L) = {}
         /\ FreeObjs(L) \subseteq Obj /\ WaitObjs \subseteq Obj /\ InUse(L) \subseteq Obj
<1> USE DEF PoolBody, TypeInv
<1>1. WaitObjs \subseteq Held \cap Obj /\ ActiveObjs \subseteq Held \cap Obj
  BY DEF WaitObjs, ActiveObjs, Held, Waiting, Holding, Holds
<1>2. WaitObjs \cap ActiveObjs = {}
  <2> SUFFICES ASSUME NEW t \in Thread, NEW u \in Thread, Waiting(t), HasActive(u), obj[t] = obj[u]
               PROVE  FALSE
    BY DEF WaitObjs, ActiveObjs
  <2>1. obj[t] \in Obj
    BY DEF Waiting, Holding, Holds
  <2>2. t = u
    BY <2>1 DEF Owned
  <2> QED BY <2>2 DEF Waiting, HasActive, Using
<1> QED BY <1>1, <1>2 DEF FreeObjs, InUse, Leaks

(* Steps that leave the lists and the bitmap alone *)
LEMMA StillPool ==
  ASSUME TypeInv, NEW L, PoolBody(L), UNCHANGED <<obj, poolVars>>,
         ProvActive => ProvActive',
         \A t \in Thread : /\ obj[t] \in Obj => call'[t] = call[t]
                           /\ HasActive(t)' = HasActive(t) /\ Waiting(t)' = Waiting(t),
         Signals'
  PROVE  PoolBody(L)'
<1> USE DEF PoolBody, poolVars
<1>1. FreeObjs(L)' = FreeObjs(L) /\ Held' = Held
  BY DEF FreeObjs, Held
<1>2. WaitObjs' = WaitObjs
  BY DEF WaitObjs
<1>3. InUse(L)' = InUse(L)
  BY DEF InUse, ActiveObjs
<1>4. Lists(L)'
  BY <1>1, <1>2, <1>3 DEF Lists
<1>5. Leaks(L)'
  BY <1>1 DEF Leaks
<1>6. Owned(L)'
  BY <1>1 DEF Owned
<1>7. Bits(L)'
  BY <1>3 DEF Bits
<1>8. Served'
  <2> SUFFICES ASSUME ~ProvActive', NEW v \in Thread, Waiting(v)', Uniform(call'[v])
               PROVE  \E u \in Thread : obj'[u] \in Obj /\ ~Waiting(u)' /\ BitOf(call'[u]) = BitOf(call'[v])
    BY DEF Served, Uniform
  <2>1. Waiting(v) /\ obj[v] \in Obj
    BY DEF TypeInv, Holding, Holds, Waiting
  <2>2. PICK u \in Thread : obj[u] \in Obj /\ ~Waiting(u) /\ BitOf(call[u]) = BitOf(call[v])
    BY <2>1 DEF Served
  <2> QED BY <2>1, <2>2
<1> QED BY <1>4, <1>5, <1>6, <1>7, <1>8

(* ... of a thread elsewhere in the call: it does not wait before or after *)
LEMMA StillPoolStep ==
  ASSUME TypeInv, TypeInv', NEW L, PoolBody(L), UNCHANGED <<obj, poolVars, SyncObj, asked>>,
         ProvActive => ProvActive',
         NEW t \in Thread, pc[t] \notin {"pend", "retest", "await", "spin"},
         NEW l \in Pc \ {"pend", "retest", "await", "spin"}, Goto(t, l),
         \A u \in Thread : (u # t \/ obj[t] \in Obj) => call'[u] = call[u]
  PROVE  PoolBody(L)'
<1>1. \A u \in Thread : pc'[u] = IF u = t THEN l ELSE pc[u]
  BY DEF Goto, TypeInv, FlowInv, FlowTypes
<1>2. Signals'
  BY <1>1 DEF PoolBody, Signals
<1>3. \A u \in Thread : Waiting(u)' = Waiting(u)
  BY <1>1 DEF Waiting
<1>4. \A u \in Thread \ {t} : HasActive(u)' = HasActive(u)
  BY <1>1 DEF HasActive
<1>5. HasActive(t)' = HasActive(t)
  <2>1. HasActive(t) <=> obj[t] \in Obj
    BY ObjNat DEF TypeInv, Holding, Holds
  <2>2. HasActive(t)' <=> obj'[t] \in Obj
    BY <1>1, ObjNat DEF TypeInv, Holding, Holds
  <2> QED BY <2>1, <2>2 DEF HasActive
<1> QED BY <1>2, <1>3, <1>4, <1>5, StillPool

(***************************************************************************)
(* Steps of the flow control, and others that neither wait nor ask         *)
(***************************************************************************)
Flowing(t) ==
  \/ Call(t) \/ PoolIsEmpty(t) \/ TxLock(t) \/ TxCheck(t) \/ SendGivesUp(t) \/ FlowWake(t)
  \/ FlowAborted(t) \/ FlowTimeout(t) \/ LockTest(t) \/ LockShort(t) \/ LockAcquire(t)
  \/ WriteFails(t)

LEMMA FlowingPool ==
  ASSUME TypeInv, TypeInv', ~RestartRequired', NEW L, PoolBody(L), NEW t \in Thread, Flowing(t)
  PROVE  PoolBody(L)' /\ pc'[t] # "spin"
<1>0. ~FlowAborted(t) /\ ~FlowTimeout(t) /\ ~LockShort(t) /\ ~WriteFails(t)
      /\ (LockTest(t) => ~RestartRequired)
  BY DEF FlowAborted, FlowTimeout, LockShort, WriteFails, HandleFatalError, flagVars, LockTest
<1> DEFINE Step == \/ Call(t) \/ PoolIsEmpty(t) \/ TxLock(t) \/ TxCheck(t) \/ SendGivesUp(t)
                   \/ FlowWake(t) \/ LockTest(t) \/ LockAcquire(t)
<1>1. Step
  BY <1>0 DEF Flowing
<1>2. UNCHANGED <<poolVars, SyncObj, asked, ProvActive>>
  BY <1>1 DEF Call, PoolIsEmpty, TxLock, TxCheck, SendGivesUp, FlowWake, LockTest, LockAcquire,
     flagVars, nwpVars
<1>3. obj[t] = Last \/ UNCHANGED <<call, obj>>
  BY <1>0, <1>1 DEF Call, PoolIsEmpty, TxLock, TxCheck, SendGivesUp, FlowWake, LockTest, LockAcquire,
     TypeInv, Holding, Holds, HasActive, Using, callVars
<1>4. obj' = obj
  BY <1>0, <1>1, <1>3 DEF Call, PoolIsEmpty, TxLock, TxCheck, SendGivesUp, FlowWake, LockTest,
     LockAcquire, Return, callVars, TypeInv, PoolTypes
<1>5. \A u \in Thread : (u # t \/ obj[t] \in Obj) => call'[u] = call[u]
  BY <1>0, <1>1, <1>3, ObjNat DEF Call, PoolIsEmpty, TxLock, TxCheck, SendGivesUp, FlowWake, LockTest,
     LockAcquire, Return, callVars, TypeInv, FlowInv, FlowTypes
<1>6. pc[t] \notin {"pend", "retest", "await", "spin"}
  BY <1>1 DEF Call, PoolIsEmpty, TxLock, TxCheck, SendGivesUp, FlowWake, LockTest, LockAcquire
<1>7. PICK l \in {"idle", "getobj", "txlock", "txcheck", "flow", "glock", "gwait", "write"} : Goto(t, l)
  BY <1>0, <1>1 DEF Call, PoolIsEmpty, TxLock, TxCheck, SendGivesUp, FlowWake, LockTest, LockAcquire, Return
<1>8. l \in Pc \ {"pend", "retest", "await", "spin"}
  BY DEF Pc
<1> HIDE DEF Step
<1> QED BY <1>2, <1>4, <1>5, <1>6, <1>7, <1>8, StillPoolStep
        DEF Goto, TypeInv, FlowInv, FlowTypes

-----------------------------------------------------------------------------
(* Asking, being answered, being signalled *)

LEMMA PcAfter ==
  ASSUME TypeInv, NEW t \in Thread, NEW l, Goto(t, l)
  PROVE  \A u \in Thread : pc'[u] = IF u = t THEN l ELSE pc[u]
BY DEF Goto, TypeInv, FlowInv, FlowTypes

LEMMA AskPool ==
  ASSUME TypeInv, ~RestartRequired, NEW L, PoolBody(L), NEW t \in Thread,
         pc[t] \in {"resp", "write"}, call[t].op # "send", UNCHANGED <<call, obj, poolVars, SyncObj, ProvActive>>,
         asked' = asked \cup {obj[t]}, Goto(t, "await")
  PROVE  PoolBody(L)'
<1>1. \A u \in Thread : pc'[u] = IF u = t THEN "await" ELSE pc[u]
  BY PcAfter
<1>2. HasActive(t) /\ HasActive(t)' /\ obj[t] \in Obj
  BY <1>1 DEF HasActive, Using, TypeInv, Holding, Holds
<1>3. ~SyncObj[obj[t]]
  BY <1>2 DEF PoolBody, Signals, Owned
<1>4. Signals'
  <2>1. \A i \in Obj : SyncObj[i] => \E u \in Thread : obj[u] = i /\ pc'[u] \in {"pend", "await"}
    BY <1>1 DEF PoolBody, Signals
  <2>2. \A i \in asked' : \E u \in Thread : obj[u] = i /\ pc'[u] = "await" /\ ~SyncObj[i]
    BY <1>1, <1>3 DEF PoolBody, Signals
  <2> QED BY <2>1, <2>2 DEF Signals
<1>5. \A u \in Thread : HasActive(u)' = HasActive(u) /\ Waiting(u)' = Waiting(u)
  BY <1>1, <1>2 DEF HasActive, Waiting
<1> QED BY <1>4, <1>5, StillPool

(* What a command without an answer yet does to the pool: nothing *)
LEMMA CmdPool ==
  ASSUME TypeInv, TypeInv', ~RestartRequired, NEW L, PoolBody(L), NEW t \in Thread,
         CmdRefused(t) \/ Cmd(t) \/ CmdResponse(t)
  PROVE  PoolBody(L)' /\ pc'[t] # "spin"
<1>1. CASE CmdResponse(t) /\ asked' = asked \cup {obj[t]} /\ Goto(t, "await")
  BY <1>1, AskPool, PcAfter DEF CmdResponse, callVars, flagVars, TypeInv, Holding
<1>2. CASE CmdRefused(t) \/ Cmd(t) \/ (CmdResponse(t) /\ Goto(t, "release") /\ UNCHANGED asked)
  <2>1. pc[t] \notin {"pend", "retest", "await", "spin"}
        /\ UNCHANGED <<call, obj, poolVars, SyncObj, asked, ProvActive>>
    BY <1>2 DEF CmdRefused, Cmd, CmdResponse, callVars, flagVars, nwpVars
  <2>2. PICK l \in {"resp", "release"} : Goto(t, l)
    BY <1>2 DEF CmdRefused, Cmd
  <2>3. l \in Pc \ {"pend", "retest", "await", "spin"} /\ l # "spin"
    BY DEF Pc
  <2> QED BY <2>1, <2>2, <2>3, StillPoolStep, PcAfter
<1> QED BY <1>1, <1>2 DEF CmdResponse

LEMMA WritePool ==
  ASSUME TypeInv, TypeInv', ~RestartRequired, NEW L, PoolBody(L), NEW t \in Thread, Write(t)
  PROVE  PoolBody(L)' /\ pc'[t] # "spin"
<1>1. CASE call[t].op = "recv"
  BY <1>1, AskPool, PcAfter DEF Write, callVars, flagVars
<1>2. call[t].op \in {"send", "recv"}
  BY DEF Write, TypeInv, Holding
<1>3. CASE call[t].op = "send"
  <2>1. obj[t] = Last
    BY <1>3 DEF Write, TypeInv, Holding, Holds, HasActive
  <2>2. UNCHANGED <<obj, poolVars, SyncObj, asked, ProvActive>> /\ Return(t)
    BY <1>3, <2>1 DEF Write, Return, flagVars, TypeInv, PoolTypes
  <2>3. \A u \in Thread : (u # t \/ obj[t] \in Obj) => call'[u] = call[u]
    BY <2>1, <2>2, ObjNat DEF Return, TypeInv, FlowInv, FlowTypes
  <2>4. pc[t] = "write" /\ Goto(t, "idle") /\ "idle" \in Pc \ {"pend", "retest", "await", "spin"}
    BY <2>2 DEF Write, Return, Pc
  <2> QED BY <2>2, <2>3, <2>4, StillPoolStep, PcAfter
<1> QED BY <1>1, <1>2, <1>3

(* A thread takes its signal; whoever waited for a turn leaves no list *)
LEMMA SignalTaken ==
  ASSUME TypeInv, NEW L, PoolBody(L), NEW t \in Thread, NEW l,
         pc[t] \in {"pend", "await"}, SyncObj[obj[t]],
         SyncObj' = [SyncObj EXCEPT ![obj[t]] = FALSE], Goto(t, l),
         l = (IF pc[t] = "pend" THEN "retest" ELSE "release"),
         UNCHANGED <<call, obj, asked, poolVars, ProvActive>>
  PROVE  PoolBody(L)' /\ pc'[t] # "spin"
<1>1. \A u \in Thread : pc'[u] = IF u = t THEN l ELSE pc[u]
  BY PcAfter
<1>2. \A i \in Obj : SyncObj'[i] = IF i = obj[t] THEN FALSE ELSE SyncObj[i]
  BY DEF TypeInv, PoolTypes
<1>3. obj[t] \in Obj
  BY DEF TypeInv, Holding, Holds, HasActive, Using
<1>4. \A u \in Thread : u # t /\ obj[u] \in Obj => obj[u] # obj[t]
  BY <1>3 DEF PoolBody, Owned
<1>5. Signals'
  <2>1. ASSUME NEW i \in Obj, SyncObj'[i]
        PROVE  \E u \in Thread : obj[u] = i /\ pc'[u] \in {"pend", "await"}
    <3>1. SyncObj[i] /\ i # obj[t]
      BY <2>1, <1>2
    <3>2. PICK u \in Thread : obj[u] = i /\ pc[u] \in {"pend", "await"}
      BY <3>1 DEF PoolBody, Signals
    <3> QED BY <3>1, <3>2, <1>1
  <2>2. ASSUME NEW i \in asked
        PROVE  \E u \in Thread : obj[u] = i /\ pc'[u] = "await" /\ ~SyncObj'[i]
    <3>1. PICK u \in Thread : obj[u] = i /\ pc[u] = "await" /\ ~SyncObj[i]
      BY DEF PoolBody, Signals
    <3>2. u # t
      BY <3>1
    <3>3. i \in Obj
      BY DEF TypeInv, PoolTypes
    <3> QED BY <3>1, <3>2, <3>3, <1>1, <1>2
  <2> QED BY <2>1, <2>2 DEF Signals
<1>6. \A u \in Thread : HasActive(u)' = HasActive(u)
  BY <1>1 DEF HasActive, Using
<1>7. \A u \in Thread : Waiting(u)' = Waiting(u)
  <2> TAKE u \in Thread
  <2>1. pc[u] = "pend" => obj[u] \in Obj
    BY DEF TypeInv, Holding, Holds
  <2> QED BY <2>1, <1>1, <1>2, <1>4 DEF Waiting
<1> QED BY <1>1, <1>5, <1>6, <1>7, StillPool

LEMMA WakePool ==
  ASSUME TypeInv, NEW L, PoolBody(L), NEW t \in Thread, PendWake(t) \/ Await(t)
  PROVE  PoolBody(L)' /\ pc'[t] # "spin"
BY SignalTaken DEF PendWake, Await, callVars, flagVars, nwpVars

(* A call refused while provisioning returns and leaves its object active *)
LEMMA RefusedPool ==
  ASSUME TypeInv, ~RestartRequired, NEW L, PoolBody(L), NEW t \in Thread, LockRefused(t)
  PROVE  (\E K : PoolBody(K)') /\ pc'[t] # "spin"
<1>0. PICK K : K = L \cup ({obj[t]} \cap Obj)
  OBVIOUS
<1>1. \A u \in Thread : pc'[u] = IF u = t THEN "idle" ELSE pc[u]
  BY PcAfter DEF LockRefused, Return
<1>2. /\ \A u \in Thread : obj'[u] = IF u = t THEN Last ELSE obj[u]
      /\ \A u \in Thread : call'[u] = IF u = t THEN NoCall ELSE call[u]
  BY DEF LockRefused, Return, TypeInv, FlowInv, FlowTypes, PoolTypes
<1>3. UNCHANGED <<poolVars, SyncObj, asked, ProvActive>> /\ ProvActive /\ pc[t] = "gwait"
  BY DEF LockRefused, Refused, flagVars, nwpVars
<1>4. obj[t] \in Obj <=> HasActive(t)
  BY <1>3, ObjNat DEF TypeInv, Holding, Holds
<1>5. \A u \in Thread : u # t => HasActive(u)' = HasActive(u) /\ Waiting(u)' = Waiting(u)
  BY <1>1, <1>2, <1>3 DEF HasActive, Waiting
<1>6. ~HasActive(t)' /\ ~Waiting(t)' /\ ~Waiting(t)
  BY <1>1, <1>3 DEF HasActive, Using, Waiting
<1>7. WaitObjs' = WaitObjs
  BY <1>2, <1>5, <1>6 DEF WaitObjs
<1>8. \A i \in Obj : i \in Held <=> i \in Held' \/ i = obj[t]
  BY <1>2, ObjNat DEF Held
<1>9. obj[t] \in Obj => obj[t] \notin Held'
  BY <1>2, ObjNat DEF Held, PoolBody, Owned
<1>10. FreeObjs(K)' = FreeObjs(L)
  BY <1>0, <1>8 DEF FreeObjs
<1>11. InUse(K)' = InUse(L)
  <2>1. ActiveObjs = ActiveObjs' \cup ({obj[t]} \cap Obj)
    BY <1>2, <1>4, <1>5, <1>6 DEF ActiveObjs
  <2> QED BY <1>0, <2>1 DEF InUse
<1>12. Lists(K)'
  BY <1>3, <1>7, <1>10, <1>11 DEF PoolBody, Lists, poolVars
<1>13. Leaks(K)'
  <2>1. obj[t] \in Obj => action[obj[t]] \in Request
    BY <1>3 DEF PoolBody, Owned, TypeInv, Holding
  <2>2. K \in SUBSET Obj /\ L \cap Held' = {}
    <3>1. Held' \subseteq Held \cup {Last}
      BY <1>2 DEF Held
    <3> QED BY <1>0, <3>1, ObjNat DEF PoolBody, Leaks
  <2> QED BY <1>0, <2>1, <2>2, <1>3, <1>9 DEF PoolBody, Leaks, poolVars
<1>14. Owned(K)'
  <2>1. \A u, v \in Thread : obj'[u] = obj'[v] /\ obj'[u] \in Obj => u = v
    BY <1>2, ObjNat DEF PoolBody, Owned
  <2>2. \A u \in Thread : obj'[u] \in Obj => action'[obj'[u]] = call'[u]
    BY <1>2, <1>3, ObjNat DEF PoolBody, Owned, poolVars
  <2>3. \A i \in FreeObjs(K)' : action'[i] = NoCall
    BY <1>3, <1>10 DEF PoolBody, Owned, poolVars
  <2> QED BY <2>1, <2>2, <2>3 DEF Owned
<1>15. Signals'
  BY <1>1, <1>2, <1>3 DEF PoolBody, Signals
<1>16. Bits(K)'
  BY <1>3, <1>11 DEF PoolBody, Bits, poolVars
<1>17. Served'
  BY <1>3 DEF Served
<1> QED BY <1>1, <1>12, <1>13, <1>14, <1>15, <1>16, <1>17 DEF PoolBody

-----------------------------------------------------------------------------
(* The search of the active list for an answer stops at the call that asked *)
LEMMA FoundAtHome ==
  ASSUME TypeInv, NEW L, PoolBody(L), NEW i \in asked
  PROVE  /\ ActiveFor(i) # Last /\ (action[i].op # "select" => ActiveFor(i) = i)
         /\ Answered(i) = i
<1> DEFINE S == {j \in Obj : action[j].op = action[i].op /\ action[j].sock = action[i].sock}
<1>1. PICK t \in Thread : obj[t] = i /\ pc[t] = "await"
  BY DEF PoolBody, Signals
<1>2. HasActive(t) /\ i \in InUse(L) /\ i \in Obj
  BY <1>1 DEF TypeInv, PoolTypes, Holding, HasActive, Using, InUse, ActiveObjs
<1>3. S \in SUBSET Obj /\ i \in InUse(L) \cap S
  BY <1>2
<1>4. ActiveFor(i) \in InUse(L) \cap S
  <2>1. FirstOf(NextIndex, ActivePoolIdx, S) \in InUse(L) \cap S
    <3> HIDE DEF S
    <3> QED BY <1>3, FirstOfList DEF PoolBody, Lists
  <2> QED BY <2>1 DEF ActiveFor
<1>5. ActiveFor(i) # Last
  BY <1>3, <1>4, ObjNat
<1>6. ASSUME action[i].op # "select" PROVE ActiveFor(i) = i
  <2>1. \A j \in InUse(L) \cap S : j = i
    <3> TAKE j \in InUse(L) \cap S
    <3>1. action[j].op = action[i].op /\ action[j].sock = action[i].sock
      OBVIOUS
    <3>2. ~Exempt(action[i]) /\ ~Exempt(action[j]) /\ BitOf(action[i]) = BitOf(action[j])
      BY <1>6, <3>1 DEF Exempt, BitOf
    <3> QED BY <1>2, <3>2 DEF PoolBody, Bits
  <2> QED BY <2>1, <1>4
<1> HIDE DEF S
<1> QED BY <1>5, <1>6 DEF Answered

LEMMA AnswerPool ==
  ASSUME TypeInv, NEW L, PoolBody(L), ReadAnswer
  PROVE  PoolBody(L)'
<1>1. PICK i \in asked : /\ asked' = asked \ {i}
                         /\ SyncObj' = IF Answered(i) = Last THEN SyncObj
                                       ELSE [SyncObj EXCEPT ![Answered(i)] = TRUE]
  BY DEF ReadAnswer
<1>2. UNCHANGED <<pc, call, obj, poolVars, ProvActive>>
  BY DEF ReadAnswer, callVars, flagVars
<1>3. i \in Obj /\ Answered(i) = i /\ i # Last
  BY FoundAtHome, ObjNat DEF TypeInv, PoolTypes
<1>4. \A j \in Obj : SyncObj'[j] = (j = i \/ SyncObj[j])
  BY <1>1, <1>3 DEF TypeInv, PoolTypes
<1>5. PICK t \in Thread : obj[t] = i /\ pc[t] = "await"
  BY DEF PoolBody, Signals
<1>6. Signals'
  <2>1. \A j \in Obj : SyncObj'[j] => \E u \in Thread : obj[u] = j /\ pc[u] \in {"pend", "await"}
    BY <1>4, <1>5 DEF PoolBody, Signals
  <2>2. \A j \in asked' : \E u \in Thread : obj[u] = j /\ pc[u] = "await" /\ ~SyncObj'[j]
    <3> TAKE j \in asked'
    <3>1. j \in asked /\ j # i /\ j \in Obj
      BY <1>1 DEF TypeInv, PoolTypes
    <3> QED BY <3>1, <1>4 DEF PoolBody, Signals
  <2> QED BY <1>2, <2>1, <2>2 DEF Signals
<1>7. \A u \in Thread : HasActive(u)' = HasActive(u)
  BY <1>2 DEF HasActive
<1>8. \A u \in Thread : Waiting(u)' = Waiting(u)
  <2> TAKE u \in Thread
  <2>1. pc[u] = "pend" => obj[u] \in Obj /\ obj[u] # i
    BY <1>3, <1>5 DEF TypeInv, Holding, Holds, PoolBody, Owned
  <2> QED BY <2>1, <1>2, <1>4 DEF Waiting
<1> QED BY <1>2, <1>6, <1>7, <1>8, StillPool

LEMMA OutsidePool ==
  ASSUME TypeInv, ~RestartRequired', NEW L, PoolBody(L),
         NwpStep \/ AbortElsewhere \/ ProvStart \/ UNCHANGED vars
  PROVE  PoolBody(L)' /\ UNCHANGED <<pc, ProtectionLockObj>>
<1>1. CASE ReadAnswer
  BY <1>1, AnswerPool DEF ReadAnswer, poolVars
<1>2. CASE ~ReadAnswer
  <2>1. UNCHANGED <<pc, call, obj, poolVars, SyncObj, asked>> /\ (ProvActive => ProvActive')
    BY <1>2 DEF NwpStep, ReadEvent, OtherCommand, OtherEnds, OtherResponse, OtherAborted,
       OtherCmdSend, Drain, AbortElsewhere, HandleFatalError, ProvStart,
       vars, callVars, flagVars, nwpVars
  <2>2. Signals'
    BY <2>1 DEF PoolBody, Signals
  <2>3. \A u \in Thread : HasActive(u)' = HasActive(u) /\ Waiting(u)' = Waiting(u)
    BY <2>1 DEF HasActive, Waiting
  <2> QED BY <2>1, <2>2, <2>3, StillPool DEF poolVars
<1> QED BY <1>1, <1>2

-----------------------------------------------------------------------------
(* Putting an object on the pending or the active list *)
LEMMA PutLists ==
  ASSUME NEW t \in Thread, NEW i \in Obj, PendOrActivate(t, i),
         NextIndex \in Links,
         NEW F, NEW W, NEW A, NEW h, IsList(NextIndex, h, F), IsList(NextIndex, PendingPoolIdx, W),
         IsList(NextIndex, ActivePoolIdx, A), i \notin F, i \notin W, i \notin A,
         FreePoolIdx' = h
  PROVE  /\ IsList(NextIndex', FreePoolIdx', F)
         /\ IsList(NextIndex', PendingPoolIdx', IF Busy(call[t]) THEN W \cup {i} ELSE W)
         /\ IsList(NextIndex', ActivePoolIdx', IF Busy(call[t]) THEN A ELSE A \cup {i})
<1>0. F \subseteq Obj /\ W \subseteq Obj /\ A \subseteq Obj
  BY EmptyList
<1>1. CASE Busy(call[t])
  <2>1. NextIndex' = [NextIndex EXCEPT ![i] = PendingPoolIdx] /\ PendingPoolIdx' = i
        /\ ActivePoolIdx' = ActivePoolIdx
    BY <1>1 DEF PendOrActivate
  <2>2. IsList(NextIndex', i, W \cup {i})
    BY <2>1, PushList
  <2>3. SameOn(NextIndex', NextIndex, Obj \ {i})
    BY <2>1 DEF Links, SameOn
  <2>4. IsList(NextIndex', h, F) /\ IsList(NextIndex', ActivePoolIdx, A)
    BY <1>0, <2>3, SameOnLess, SameList
  <2> QED BY <1>1, <2>1, <2>2, <2>4
<1>2. CASE ~Busy(call[t])
  <2>1. NextIndex' = [NextIndex EXCEPT ![i] = ActivePoolIdx] /\ ActivePoolIdx' = i
        /\ PendingPoolIdx' = PendingPoolIdx
    BY <1>2 DEF PendOrActivate
  <2>2. IsList(NextIndex', i, A \cup {i})
    BY <2>1, PushList
  <2>3. SameOn(NextIndex', NextIndex, Obj \ {i})
    BY <2>1 DEF Links, SameOn
  <2>4. IsList(NextIndex', h, F) /\ IsList(NextIndex', PendingPoolIdx, W)
    BY <1>0, <2>3, SameOnLess, SameList
  <2> QED BY <1>2, <2>1, <2>2, <2>4
<1> QED BY <1>1, <1>2

(* A thread with an object that is on no list tests for its turn *)
LEMMA PutPool ==
  ASSUME TypeInv, NEW L, PoolBody(L), NEW t \in Thread, NEW i \in Obj,
         pc[t] \in {"getobj", "retest"}, PendOrActivate(t, i),
         call[t] \in Request, call[t].op # "send",
         obj[t] \in {i, Last}, \A u \in Thread : obj'[u] = IF u = t THEN i ELSE obj[u],
         \A u \in Thread : u # t => obj[u] # i,
         i \notin L, ~SyncObj[i],
         \A j \in Obj : action'[j] = IF j = i THEN call[t] ELSE action[j],
         UNCHANGED <<call, SyncObj, asked, ProvActive>>,
         IsList(NextIndex, FreePoolIdx', FreeObjs(L) \ {i})
  PROVE  PoolBody(L)' /\ pc'[t] # "spin"
<1> DEFINE b == Busy(call[t])
<1>1. PICK l : /\ Goto(t, l)
               /\ IF b THEN l = "pend" ELSE l \in {"txlock", "cmd"}
  BY DEF PendOrActivate
<1>2. \A u \in Thread : pc'[u] = IF u = t THEN l ELSE pc[u]
  BY <1>1, PcAfter
<1>3. /\ \A u \in Thread : u # t => HasActive(u)' = HasActive(u) /\ Waiting(u)' = Waiting(u)
      /\ ~HasActive(t) /\ ~Waiting(t)
      /\ (HasActive(t)' <=> ~b) /\ (Waiting(t)' <=> b)
  BY <1>1, <1>2 DEF HasActive, Waiting, Using
<1>4. /\ i \notin WaitObjs /\ i \notin InUse(L)
      /\ WaitObjs' = (IF b THEN WaitObjs \cup {i} ELSE WaitObjs)
      /\ InUse(L)' = IF b THEN InUse(L) ELSE InUse(L) \cup {i}
  <2>1. /\ i \notin WaitObjs
        /\ WaitObjs' = IF b THEN WaitObjs \cup {i} ELSE WaitObjs
    BY <1>3 DEF WaitObjs
  <2>2. /\ i \notin ActiveObjs
        /\ ActiveObjs' = IF b THEN ActiveObjs ELSE ActiveObjs \cup {i}
    BY <1>3 DEF ActiveObjs
  <2> QED BY <2>1, <2>2 DEF InUse
<1>5. /\ FreeObjs(L)' = FreeObjs(L) \ {i}
      /\ \A j \in Obj : j \in Held' => j \in Held \/ j = i
  <2>1. \A j \in Obj : j \in Held' <=> j \in Held \/ j = i
    BY ObjNat DEF Held
  <2> QED BY <2>1 DEF FreeObjs
<1>6. Lists(L)'
  <2>1. IsList(NextIndex, PendingPoolIdx, WaitObjs) /\ IsList(NextIndex, ActivePoolIdx, InUse(L))
    BY DEF PoolBody, Lists
  <2>2. NextIndex \in Links
    BY DEF TypeInv, PoolTypes
  <2>3. /\ IsList(NextIndex', FreePoolIdx', FreeObjs(L) \ {i})
        /\ IsList(NextIndex', PendingPoolIdx', IF b THEN WaitObjs \cup {i} ELSE WaitObjs)
        /\ IsList(NextIndex', ActivePoolIdx', IF b THEN InUse(L) ELSE InUse(L) \cup {i})
    BY <1>4, <2>1, <2>2, PutLists
  <2> HIDE DEF b
  <2> QED BY <1>4, <1>5, <2>3 DEF Lists
<1>7. Leaks(L)'
  <2>1. \A j \in L : action'[j] = action[j] /\ j \in Obj
    BY DEF PoolBody, Leaks
  <2> QED BY <2>1, <1>5 DEF PoolBody, Leaks
<1>8. Owned(L)'
  <2>1. \A u, v \in Thread : obj'[u] = obj'[v] /\ obj'[u] \in Obj => u = v
    BY DEF PoolBody, Owned
  <2>2. \A u \in Thread : obj'[u] \in Obj => action'[obj'[u]] = call'[u]
    BY DEF PoolBody, Owned
  <2>3. \A j \in FreeObjs(L)' : action'[j] = NoCall
    BY <1>5 DEF PoolBody, Owned, FreeObjs
  <2> QED BY <2>1, <2>2, <2>3 DEF Owned
<1>9. Signals'
  <2>1. \A j \in Obj : SyncObj[j] => \E u \in Thread : obj'[u] = j /\ pc'[u] \in {"pend", "await"}
    BY <1>2 DEF PoolBody, Signals
  <2>2. \A j \in asked : \E u \in Thread : obj'[u] = j /\ pc'[u] = "await" /\ ~SyncObj[j]
    BY <1>2 DEF PoolBody, Signals
  <2> QED BY <2>1, <2>2 DEF Signals
<1>10. Bits(L)'
  <2>1. \A j \in InUse(L) : j \in Obj /\ action'[j] = action[j]
    BY <1>4, Apart
  <2>2. CASE b
    <3>1. InUse(L)' = InUse(L) /\ UNCHANGED ActiveActionsBitmap
      BY <1>4, <2>2 DEF PendOrActivate
    <3> QED BY <2>1, <3>1 DEF PoolBody, Bits
  <2>3. CASE ~b
    <3>1. InUse(L)' = InUse(L) \cup {i} /\ action'[i] = call[t]
          /\ ActiveActionsBitmap' = ActiveActionsBitmap \cup {BitOf(call[t])}
      BY <1>4, <2>3 DEF PendOrActivate
    <3>2. ~Exempt(call[t]) => BitOf(call[t]) \notin ActiveActionsBitmap
      BY <2>3 DEF Busy, Exempt
    <3>3. \A j \in InUse(L)' : ~Exempt(action'[j]) => BitOf(action'[j]) \in ActiveActionsBitmap'
      BY <2>1, <3>1 DEF PoolBody, Bits
    <3>4. \A j, k \in InUse(L)' : ~Exempt(action'[j]) /\ ~Exempt(action'[k])
                                    /\ BitOf(action'[j]) = BitOf(action'[k]) => j = k
      BY <2>1, <3>1, <3>2 DEF PoolBody, Bits
    <3>5. \A x \in ActiveActionsBitmap' : \E j \in InUse(L)' : x = BitOf(action'[j])
      BY <2>1, <3>1 DEF PoolBody, Bits
    <3> QED BY <3>3, <3>4, <3>5 DEF Bits, Exempt, BitOf
  <2> QED BY <2>2, <2>3
<1>11. Served'
  <2> SUFFICES ASSUME ~ProvActive', NEW v \in Thread, Waiting(v)', Uniform(call'[v])
               PROVE  \E u \in Thread : obj'[u] \in Obj /\ ~Waiting(u)' /\ BitOf(call'[u]) = BitOf(call'[v])
    BY DEF Served, Uniform
  <2>1. \A u \in Thread : obj[u] \in Obj => obj'[u] \in Obj
    OBVIOUS
  <2>2. CASE b
    <3>1. BitOf(call[t]) \in ActiveActionsBitmap /\ L = {} /\ UNCHANGED ProvActive
      BY <2>2 DEF Busy, PoolBody, Leaks
    <3>2. PICK j \in ActiveObjs : BitOf(call[t]) = BitOf(action[j])
      BY <3>1 DEF PoolBody, Bits, InUse
    <3>3. PICK w \in Thread : HasActive(w) /\ j = obj[w]
      BY DEF ActiveObjs
    <3>4. /\ obj[w] \in Obj /\ w # t /\ ~Waiting(w)' /\ BitOf(call[w]) = BitOf(call[t])
      BY <1>3, <3>2, <3>3 DEF TypeInv, Holding, Holds, PoolBody, Owned, HasActive, Using, Waiting
    <3>5. CASE v = t
      BY <2>1, <3>4, <3>5
    <3>6. CASE v # t
      <4>1. PICK u \in Thread : obj[u] \in Obj /\ ~Waiting(u) /\ BitOf(call[u]) = BitOf(call[v])
        BY <1>3, <3>6, <3>1 DEF PoolBody, Served
      <4> QED BY <1>3, <2>1, <3>4, <4>1
    <3> QED BY <3>5, <3>6
  <2>3. CASE ~b
    <3>1. v # t /\ Waiting(v)
      BY <1>3, <2>3
    <3>2. PICK u \in Thread : obj[u] \in Obj /\ ~Waiting(u) /\ BitOf(call[u]) = BitOf(call[v])
      BY <3>1 DEF PoolBody, Served
    <3> QED BY <1>3, <2>1, <2>3, <3>2
  <2> QED BY <2>2, <2>3
<1> QED BY <1>1, <1>2, <1>6, <1>7, <1>8, <1>9, <1>10, <1>11 DEF PoolBody

LEMMA TakePool ==
  ASSUME TypeInv, NEW L, PoolBody(L), NEW t \in Thread, TakePoolObj(t)
  PROVE  PoolBody(L)' /\ pc'[t] # "spin"
<1>1. PICK i : i = FreePoolIdx
  OBVIOUS
<1>2. IsList(NextIndex, i, FreeObjs(L)) /\ NextIndex \in Links /\ i # Last
  BY <1>1 DEF PoolBody, Lists, TypeInv, PoolTypes, TakePoolObj
<1>3. i \in FreeObjs(L) /\ IsList(NextIndex, NextIndex[i], FreeObjs(L) \ {i})
  BY <1>2, PopList
<1>4. i \in Obj /\ i \notin L /\ \A u \in Thread : obj[u] # i
  BY <1>3 DEF FreeObjs, Held
<1>5. action[i] = NoCall /\ ~SyncObj[i]
  BY <1>3, <1>4 DEF PoolBody, Owned, Signals
<1>6. /\ pc[t] = "getobj" /\ FreePoolIdx' = NextIndex[i] /\ obj' = [obj EXCEPT ![t] = i]
      /\ PendOrActivate(t, i) /\ UNCHANGED <<call, SyncObj, asked, ProvActive>>
      /\ action' = [action EXCEPT ![i] = [call[t] EXCEPT !.sock =
                        IF @ # NoSock THEN @ ELSE action[i].sock]]
  BY <1>1 DEF TakePoolObj, flagVars, nwpVars
<1>7. call[t] \in Request /\ call[t].op # "send" /\ obj[t] = Last
  BY <1>6 DEF TypeInv, Holding, Holds, HasActive, Using
<1>8. [call[t] EXCEPT !.sock = IF @ # NoSock THEN @ ELSE action[i].sock] = call[t]
  BY <1>5, <1>7 DEF NoCall, Request
<1>9. \A j \in Obj : action'[j] = IF j = i THEN call[t] ELSE action[j]
  BY <1>4, <1>6, <1>8 DEF TypeInv, PoolTypes
<1>10. \A u \in Thread : obj'[u] = IF u = t THEN i ELSE obj[u]
  BY <1>6 DEF TypeInv, PoolTypes
<1> QED BY <1>3, <1>4, <1>5, <1>6, <1>7, <1>9, <1>10, PutPool

LEMMA RetestPool ==
  ASSUME TypeInv, NEW L, PoolBody(L), NEW t \in Thread, Retest(t)
  PROVE  PoolBody(L)' /\ pc'[t] # "spin"
<1>1. PICK i : i = obj[t]
  OBVIOUS
<1>2. /\ pc[t] = "retest" /\ PendOrActivate(t, i) /\ UNCHANGED <<call, obj, SyncObj, asked, ProvActive>>
      /\ FreePoolIdx' = FreePoolIdx /\ action' = action
  BY <1>1 DEF Retest, callVars, flagVars, nwpVars
<1>3. call[t] \in Request /\ call[t].op # "send" /\ i \in Obj
  BY <1>1, <1>2 DEF TypeInv, Holding, Holds
<1>4. i \in Held /\ i \notin L /\ action[i] = call[t] /\ \A u \in Thread : u # t => obj[u] # i
  BY <1>1, <1>3 DEF PoolBody, Leaks, Owned, Held
<1>5. ~SyncObj[i]
  BY <1>2, <1>3, <1>4 DEF PoolBody, Signals
<1>6. FreeObjs(L) \ {i} = FreeObjs(L)
  BY <1>4 DEF FreeObjs
<1>7. IsList(NextIndex, FreePoolIdx', FreeObjs(L) \ {i})
  BY <1>2, <1>6 DEF PoolBody, Lists
<1> QED BY <1>1, <1>2, <1>3, <1>4, <1>5, <1>7, PutPool

-----------------------------------------------------------------------------
(* Releasing an object *)

LEMMA WaiterFound ==
  ASSUME TypeInv, NEW L, PoolBody(L), NEW i
  PROVE  IF \E j \in WaitObjs : Wakes(action[i], action[j])
         THEN Waiter(i) \in WaitObjs /\ Wakes(action[i], action[Waiter(i)])
         ELSE Waiter(i) = Last
<1> DEFINE S == {j \in Obj : Wakes(action[i], action[j])}
<1>1. IF WaitObjs \cap S = {} THEN Waiter(i) = Last ELSE Waiter(i) \in WaitObjs \cap S
  <2>1. S \in SUBSET Obj /\ Waiter(i) = FirstOf(NextIndex, PendingPoolIdx, S)
    BY DEF Waiter
  <2> HIDE DEF S
  <2> QED BY <2>1, FirstOfList DEF PoolBody, Lists
<1>2. WaitObjs \subseteq Obj
  BY Apart
<1> QED BY <1>1, <1>2

LEMMA WokenList ==
  ASSUME TypeInv, NEW L, PoolBody(L), NEW i
  PROVE  LET w == Woken(i)
         IN  /\ w.next \in Links /\ IsList(w.next, w.head, WaitObjs \ {Waiter(i)})
             /\ SameOn(w.next, NextIndex, Obj \ WaitObjs)
<1>1. NextIndex \in Links /\ IsList(NextIndex, PendingPoolIdx, WaitObjs)
  BY DEF TypeInv, PoolTypes, PoolBody, Lists
<1>2. CASE Waiter(i) = Last
  <2>1. WaitObjs \ {Waiter(i)} = WaitObjs
    BY <1>2, Apart, ObjNat
  <2> QED BY <1>1, <1>2, <2>1 DEF Woken, SameOn
<1>3. CASE Waiter(i) # Last
  <2>1. Waiter(i) \in WaitObjs
    BY <1>3, WaiterFound
  <2> QED BY <1>1, <1>3, <2>1, RemoveList DEF Woken
<1> QED BY <1>2, <1>3

(* The object's own bit is on, so the release does not give up *)
LEMMA BitIsOn ==
  ASSUME NEW L, PoolBody(L), NEW i \in InUse(L)
  PROVE  ~BitOff(action[i])
BY DEF PoolBody, Bits, BitOff, Exempt

LEMMA ReleasedLists ==
  ASSUME TypeInv, NEW L, PoolBody(L), NEW t \in Thread, ReleasePoolObj(t), NEW i, i = obj[t],
         i \in InUse(L), i \in Obj
  PROVE  /\ IsList(NextIndex', FreePoolIdx', FreeObjs(L) \cup {i})
         /\ IsList(NextIndex', PendingPoolIdx', WaitObjs \ {Waiter(i)})
         /\ IsList(NextIndex', ActivePoolIdx', InUse(L) \ {i})
         /\ ActiveActionsBitmap' = ActiveActionsBitmap \ {BitOf(action[i])}
         /\ action' = [action EXCEPT ![i] = NoCall] /\ UNCHANGED ProtectionLockObj
<1>0. PICK w, r : w = Woken(i) /\ r = Removed(w.next, ActivePoolIdx, i)
  OBVIOUS
<1>1. /\ PendingPoolIdx' = w.head
      /\ ActiveActionsBitmap' = ActiveActionsBitmap \ {BitOf(action[i])}
      /\ action' = [action EXCEPT ![i] = NoCall] /\ ActivePoolIdx' = r.head
      /\ NextIndex' = [r.next EXCEPT ![i] = FreePoolIdx] /\ FreePoolIdx' = i
      /\ UNCHANGED ProtectionLockObj
  BY <1>0, BitIsOn DEF ReleasePoolObj
<1>2. /\ w.next \in Links /\ IsList(w.next, w.head, WaitObjs \ {Waiter(i)})
      /\ SameOn(w.next, NextIndex, Obj \ WaitObjs)
  BY <1>0, WokenList
<1>3. IsList(w.next, FreePoolIdx, FreeObjs(L)) /\ IsList(w.next, ActivePoolIdx, InUse(L))
  <2>1. FreeObjs(L) \subseteq Obj \ WaitObjs /\ InUse(L) \subseteq Obj \ WaitObjs
    BY Apart
  <2> QED BY <2>1, <1>2, SameOnLess, SameList DEF PoolBody, Lists
<1>4. /\ r.next \in Links /\ IsList(r.next, r.head, InUse(L) \ {i})
      /\ SameOn(r.next, w.next, Obj \ InUse(L))
  BY <1>0, <1>2, <1>3, RemoveList
<1>5. IsList(r.next, FreePoolIdx, FreeObjs(L)) /\ IsList(r.next, w.head, WaitObjs \ {Waiter(i)})
  <2>1. FreeObjs(L) \subseteq Obj \ InUse(L) /\ WaitObjs \ {Waiter(i)} \subseteq Obj \ InUse(L)
    BY Apart
  <2> QED BY <2>1, <1>2, <1>3, <1>4, SameOnLess, SameList
<1>6. i \in Obj \ FreeObjs(L)
  BY Apart
<1>7. IsList(NextIndex', i, FreeObjs(L) \cup {i})
  BY <1>1, <1>4, <1>5, <1>6, PushList
<1>8. SameOn(NextIndex', r.next, Obj \ {i})
  BY <1>1, <1>4 DEF Links, SameOn
<1>9. /\ WaitObjs \ {Waiter(i)} \subseteq Obj \ {i}
      /\ InUse(L) \ {i} \subseteq Obj \ {i}
  BY Apart
<1>10. /\ IsList(NextIndex', w.head, WaitObjs \ {Waiter(i)})
       /\ IsList(NextIndex', r.head, InUse(L) \ {i})
  BY <1>4, <1>5, <1>8, <1>9, SameOnLess, SameList
<1> QED BY <1>1, <1>7, <1>10

(* Who is woken has the bit of the call that is released *)
LEMMA WakesAlike ==
  ASSUME NEW a \in Request, NEW w \in Request, a.op # "send", Wakes(a, w)
  PROVE  BitOf(a) = BitOf(w)
BY NobodyAssumption DEF Wakes, BitOf, Request, SockOp, PlainOp

(* ... and who has it is woken, where all calls on a socket are of one kind *)
LEMMA AlikeWakes ==
  ASSUME NEW t \in Thread, NEW a \in Calls[t] \cap Request, NEW w \in Request,
         a.op # "send", w.op # "send", Uniform(w), BitOf(a) = BitOf(w)
  PROVE  Wakes(a, w)
<1>1. CASE w.sock = NoSock
  <2>1. w.op \in PlainOp /\ BitOf(w) = w.op /\ w.op \in Op
    BY <1>1, NobodyAssumption DEF Request, BitOf, Op
  <2>2. a.sock = NoSock
    <3> SUFFICES ASSUME a.sock # NoSock PROVE FALSE
      OBVIOUS
    <3>1. a.sock \in Sock /\ BitOf(a) = a.sock
      BY DEF Request, BitOf
    <3> QED BY <3>1, <2>1, BitsAssumption
  <2> QED BY <1>1, <2>1, <2>2 DEF BitOf, Wakes
<1>2. CASE w.sock # NoSock
  <2>1. w.sock \in Sock /\ BitOf(w) = w.sock /\ KindsOn(w.sock) = {w.op}
    BY <1>2 DEF Request, BitOf, Uniform
  <2>2. a.sock = w.sock /\ a.op \in SockOp
    <3>1. a.sock # NoSock
      <4> SUFFICES ASSUME a.sock = NoSock PROVE FALSE
        OBVIOUS
      <4>1. BitOf(a) = a.op /\ a.op \in Op
        BY DEF BitOf, Request, Op
      <4> QED BY <4>1, <2>1, BitsAssumption
    <3>2. BitOf(a) = a.sock
      BY <3>1 DEF BitOf
    <3> QED BY <3>1, <3>2, <2>1 DEF Request
  <2>3. a = [op |-> a.op, sock |-> w.sock]
    BY <2>2 DEF Request
  <2>4. a.op \in KindsOn(w.sock)
    BY <2>2, <2>3 DEF KindsOn
  <2> QED BY <2>1, <2>2, <2>4, <1>2 DEF Wakes
<1> QED BY <1>1, <1>2

LEMMA ReleasePool ==
  ASSUME TypeInv, NEW L, PoolBody(L), NEW t \in Thread, ReleasePoolObj(t)
  PROVE  PoolBody(L)' /\ pc'[t] # "spin" /\ UNCHANGED ProtectionLockObj
<1>0. PICK i : i = obj[t]
  OBVIOUS
<1>1. pc[t] = "release" /\ HasActive(t) /\ i \in Obj /\ i \in InUse(L) /\ call[t] \in Request
  BY <1>0 DEF ReleasePoolObj, TypeInv, Holding, Holds, HasActive, Using, InUse, ActiveObjs
<1>2. i \notin L /\ action[i] = call[t] /\ \A u \in Thread : u # t => obj[u] # i
  BY <1>0, <1>1 DEF PoolBody, Leaks, Owned, Held
<1>3. PICK v : v = Waiter(i)
  OBVIOUS
<1>4. v = Last \/ v \in WaitObjs
  BY <1>3, WaiterFound
<1>5. /\ \A u \in Thread : pc'[u] = IF u = t THEN "idle" ELSE pc[u]
      /\ \A u \in Thread : obj'[u] = IF u = t THEN Last ELSE obj[u]
      /\ \A u \in Thread : call'[u] = IF u = t THEN NoCall ELSE call[u]
      /\ UNCHANGED <<asked, ProvActive>>
  BY PcAfter DEF ReleasePoolObj, Return, TypeInv, FlowInv, FlowTypes, PoolTypes, flagVars, nwpVars
<1>6. \A j \in Obj : SyncObj'[j] = (j = v \/ SyncObj[j])
  <2>1. SyncObj' = Signalled(i)
    BY <1>0 DEF ReleasePoolObj
  <2> QED BY <2>1, <1>3, ObjNat DEF Signalled, TypeInv, PoolTypes
<1>7. \A j \in Obj : action'[j] = IF j = i THEN NoCall ELSE action[j]
  <2>1. action' = [action EXCEPT ![i] = NoCall]
    BY <1>0, <1>1, ReleasedLists
  <2> QED BY <2>1 DEF TypeInv, PoolTypes
<1>8. \A u \in Thread : u # t => HasActive(u)' = HasActive(u)
  BY <1>5 DEF HasActive
<1>9. ~HasActive(t)' /\ ~Waiting(t) /\ ~Waiting(t)'
  BY <1>1, <1>5 DEF HasActive, Using, Waiting
<1>10. \A u \in Thread : Waiting(u)' <=> Waiting(u) /\ obj[u] # v
  <2> TAKE u \in Thread
  <2>1. pc[u] = "pend" => obj[u] \in Obj
    BY DEF TypeInv, Holding, Holds
  <2> QED BY <2>1, <1>5, <1>6, <1>9 DEF Waiting
<1>11. WaitObjs' = WaitObjs \ {v}
  BY <1>5, <1>9, <1>10 DEF WaitObjs
<1>12. InUse(L)' = InUse(L) \ {i}
  <2>1. ActiveObjs' = ActiveObjs \ {i}
    BY <1>0, <1>2, <1>5, <1>8, <1>9 DEF ActiveObjs
  <2> QED BY <2>1, <1>2 DEF InUse
<1>13. /\ FreeObjs(L)' = FreeObjs(L) \cup {i}
       /\ \A j \in Obj : j \in Held' => j \in Held
  <2>1. \A j \in Obj : j \in Held' <=> j \in Held /\ j # i
    BY <1>0, <1>1, <1>2, <1>5, ObjNat DEF Held
  <2> QED BY <2>1, <1>1, <1>2 DEF FreeObjs
<1>14. Lists(L)'
  BY <1>0, <1>1, <1>3, <1>11, <1>12, <1>13, ReleasedLists DEF Lists
<1>15. Leaks(L)'
  <2>1. \A j \in L : action'[j] = action[j] /\ j \in Obj
    BY <1>2, <1>7 DEF PoolBody, Leaks
  <2> QED BY <2>1, <1>5, <1>13 DEF PoolBody, Leaks
<1>16. Owned(L)'
  <2>1. \A u, x \in Thread : obj'[u] = obj'[x] /\ obj'[u] \in Obj => u = x
    BY <1>5, ObjNat DEF PoolBody, Owned
  <2>2. \A u \in Thread : obj'[u] \in Obj => action'[obj'[u]] = call'[u]
    <3> SUFFICES ASSUME NEW u \in Thread, obj'[u] \in Obj PROVE action'[obj'[u]] = call'[u]
      OBVIOUS
    <3>1. u # t /\ obj'[u] = obj[u] /\ call'[u] = call[u]
      BY <1>5, ObjNat
    <3> QED BY <3>1, <1>2, <1>7 DEF PoolBody, Owned
  <2>3. \A j \in FreeObjs(L)' : action'[j] = NoCall
    BY <1>1, <1>7, <1>13 DEF PoolBody, Owned, FreeObjs
  <2> QED BY <2>1, <2>2, <2>3 DEF Owned
<1>17. Signals'
  <2>1. v \in Obj => \E u \in Thread : obj[u] = v /\ pc[u] = "pend"
    BY <1>4, ObjNat DEF WaitObjs, Waiting
  <2>2. ASSUME NEW j \in Obj, SyncObj'[j]
        PROVE  \E u \in Thread : obj'[u] = j /\ pc'[u] \in {"pend", "await"}
    <3>1. PICK u \in Thread : obj[u] = j /\ pc[u] \in {"pend", "await"}
      BY <2>1, <2>2, <1>6 DEF PoolBody, Signals
    <3> QED BY <3>1, <1>1, <1>5
  <2>3. ASSUME NEW j \in asked
        PROVE  \E u \in Thread : obj'[u] = j /\ pc'[u] = "await" /\ ~SyncObj'[j]
    <3>1. PICK u \in Thread : obj[u] = j /\ pc[u] = "await" /\ ~SyncObj[j]
      BY DEF PoolBody, Signals
    <3>2. j \in Obj /\ j # v
      BY <2>1, <3>1 DEF TypeInv, PoolTypes, PoolBody, Owned
    <3> QED BY <3>1, <3>2, <1>1, <1>5, <1>6
  <2> QED BY <2>2, <2>3, <1>5 DEF Signals
<1>18. Bits(L)'
  <2>1. ActiveActionsBitmap' = ActiveActionsBitmap \ {BitOf(action[i])}
    BY <1>0, <1>1, ReleasedLists
  <2>2. \A j \in InUse(L) \ {i} : action'[j] = action[j] /\ action[j] \in Request
    <3>1. \A j \in ActiveObjs : action[j] \in Request /\ j \in Obj
      BY DEF ActiveObjs, HasActive, Using, PoolBody, Owned, TypeInv, Holding, Holds
    <3> QED BY <3>1, <1>7 DEF InUse, PoolBody, Leaks
  <2>3. \A j \in InUse(L) \ {i} : ~Exempt(action[j]) => BitOf(action[j]) # BitOf(action[i])
    <3> TAKE j \in InUse(L) \ {i}
    <3>1. CASE Exempt(action[i])
      BY <3>1, <2>2, BitsAssumption DEF Exempt, BitOf, Request, Op, SockOp, PlainOp
    <3>2. CASE ~Exempt(action[i])
      BY <3>2, <1>1 DEF PoolBody, Bits
    <3> QED BY <3>1, <3>2
  <2>4. \A j \in InUse(L)' : ~Exempt(action'[j]) => BitOf(action'[j]) \in ActiveActionsBitmap'
    BY <2>1, <2>2, <2>3, <1>12 DEF PoolBody, Bits
  <2>5. \A j, k \in InUse(L)' : ~Exempt(action'[j]) /\ ~Exempt(action'[k])
                                  /\ BitOf(action'[j]) = BitOf(action'[k]) => j = k
    BY <2>2, <1>12 DEF PoolBody, Bits
  <2>6. \A x \in ActiveActionsBitmap' : \E j \in InUse(L)' : x = BitOf(action'[j])
    BY <2>1, <2>2, <1>12 DEF PoolBody, Bits
  <2> QED BY <2>4, <2>5, <2>6 DEF Bits, Exempt, BitOf
<1>19. UNCHANGED ProtectionLockObj
  BY <1>0, <1>1, ReleasedLists
<1>20. Served'
  <2> SUFFICES ASSUME ~ProvActive', NEW x \in Thread, Waiting(x)', Uniform(call'[x])
               PROVE  \E u \in Thread : obj'[u] \in Obj /\ ~Waiting(u)' /\ BitOf(call'[u]) = BitOf(call'[x])
    BY DEF Served, Uniform
  <2>1. Waiting(x) /\ x # t /\ obj[x] # v
    BY <1>9, <1>10
  <2>2. PICK u \in Thread : obj[u] \in Obj /\ ~Waiting(u) /\ BitOf(call[u]) = BitOf(call[x])
    BY <2>1, <1>5 DEF PoolBody, Served
  <2>3. CASE u # t
    BY <2>1, <2>2, <2>3, <1>5, <1>10
  <2>4. CASE u = t
    <3>1. \A y \in Thread : Waiting(y) =>
             /\ y # t /\ obj[y] \in Obj /\ action[obj[y]] = call[y]
             /\ Wakes(call[t], call[y]) => BitOf(call[t]) = BitOf(call[y])
             /\ Uniform(call[y]) /\ BitOf(call[t]) = BitOf(call[y]) => Wakes(call[t], call[y])
      <4> TAKE y \in Thread
      <4> HAVE Waiting(y)
      <4>1. y # t /\ obj[y] \in Obj /\ action[obj[y]] = call[y]
        BY <1>9 DEF Waiting, TypeInv, Holding, Holds, PoolBody, Owned
      <4>2. call[y] \in Request /\ call[t] \in Calls[t] \cap Request
            /\ call[y].op # "send" /\ call[t].op # "send"
        BY <1>1 DEF Waiting, HasActive, TypeInv, Holding
      <4> QED BY <4>1, <4>2, WakesAlike, AlikeWakes
    <3>2. obj[x] \in WaitObjs /\ Wakes(action[i], action[obj[x]])
      <4>1. call'[x] = call[x]
        BY <2>1, <1>5
      <4> QED BY <4>1, <2>1, <2>2, <2>4, <3>1, <1>2 DEF WaitObjs
    <3>3. v \in WaitObjs /\ Wakes(action[i], action[v])
      BY <3>2, <1>3, WaiterFound
    <3>4. PICK y \in Thread : Waiting(y) /\ obj[y] = v
      BY <3>3 DEF WaitObjs
    <3>5. y # t /\ obj[y] \in Obj /\ BitOf(call[t]) = BitOf(call[y])
      BY <3>1, <3>3, <3>4, <1>2
    <3>6. ~Waiting(y)' /\ obj'[y] \in Obj /\ call'[y] = call[y] /\ call'[x] = call[x]
      BY <3>4, <3>5, <2>1, <1>5, <1>10
    <3> QED BY <2>2, <2>4, <3>5, <3>6
  <2> QED BY <2>3, <2>4
<1> QED BY <1>5, <1>14, <1>15, <1>16, <1>17, <1>18, <1>19, <1>20 DEF PoolBody

-----------------------------------------------------------------------------
LEMMA PoolThreadStep ==
  ASSUME TypeInv, TypeInv', ~RestartRequired', ProtectionLockObj = None, NEW L, PoolBody(L), NEW t \in Thread,
         Call(t) \/ ThreadStep(t) \/ TxLock(t) \/ GetGlobal(t)
  PROVE  ProtectionLockObj' = None /\ pc'[t] # "spin" /\ \E K : PoolBody(K)'
<1>1. ~RestartRequired /\ ~AwaitTimeout(t) /\ ~CmdFails(t) /\ ~CmdAborted(t)
  BY DEF Call, ThreadStep, TxLock, GetGlobal, PoolIsEmpty, TakePoolObj, PendWake, Retest,
     ReleasePoolObj, ReleaseSpins, TxCheck, SendGivesUp, FlowWake, FlowAborted, FlowTimeout, LockTest,
     Write, WriteFails, Await, AwaitTimeout, LockRefused, LockShort, LockAcquire, CmdRefused, Cmd, CmdFails, CmdResponse, CmdAborted,
     HandleFatalError, flagVars
<1>2. ~ReleaseSpins(t)
  BY ListWalk DEF ReleaseSpins, PoolBody, Lists
<1>3. CASE ReleasePoolObj(t)
  BY <1>3, ReleasePool
<1>4. CASE ~ReleasePoolObj(t)
  <2>1. UNCHANGED ProtectionLockObj
    BY <1>1, <1>2, <1>4 DEF Call, ThreadStep, TxLock, GetGlobal, PoolIsEmpty, TakePoolObj, PendWake, Retest,
       TxCheck, SendGivesUp, FlowWake, FlowAborted, FlowTimeout, LockTest,
       Write, WriteFails, Await, LockRefused, LockShort, LockAcquire, CmdRefused, Cmd, CmdResponse, poolVars
  <2>2. CASE Flowing(t)
    BY <2>1, <2>2, FlowingPool
  <2>3. CASE PendWake(t) \/ Await(t)
    BY <2>1, <2>3, WakePool
  <2>4. CASE TakePoolObj(t) \/ Retest(t)
    BY <2>1, <2>4, TakePool, RetestPool
  <2>5. CASE CmdRefused(t) \/ Cmd(t) \/ CmdResponse(t) \/ Write(t)
    BY <1>1, <2>1, <2>5, CmdPool, WritePool
  <2>6. CASE LockRefused(t)
    BY <1>1, <2>1, <2>6, RefusedPool
  <2> QED BY <1>1, <1>2, <1>4, <2>2, <2>3, <2>4, <2>5, <2>6 DEF ThreadStep, GetGlobal, Flowing
<1> QED BY <1>3, <1>4

LEMMA PcElsewhere ==
  ASSUME NEW t \in Thread, TypeInv,
         Call(t) \/ ThreadStep(t) \/ TxLock(t) \/ GetGlobal(t)
  PROVE  \A u \in Thread : u # t => pc'[u] = pc[u] /\ call'[u] = call[u] /\ obj'[u] = obj[u]
<1>1. /\ \E l : Goto(t, l)
      /\ \A u \in Thread : u # t => call'[u] = call[u] /\ obj'[u] = obj[u]
  BY DEF Call, ThreadStep, TxLock, GetGlobal, PoolIsEmpty, TakePoolObj, PendOrActivate, PendWake, Retest,
     ReleasePoolObj, ReleaseSpins, TxCheck, SendGivesUp, FlowWake, FlowAborted, FlowTimeout, LockTest,
     Write, WriteFails, Await, AwaitTimeout, LockRefused, LockShort, LockAcquire, CmdRefused, Cmd, CmdFails, CmdResponse, CmdAborted, Return, callVars,
     TypeInv, FlowInv, FlowTypes, PoolTypes
<1> QED BY <1>1 DEF Goto, TypeInv, FlowInv, FlowTypes

LEMMA PoolStep == TypeInv /\ TypeInv' /\ PoolInv /\ [Next]_vars => PoolInv'
<1> SUFFICES ASSUME TypeInv, TypeInv', PoolInv, [Next]_vars, ~RestartRequired'
             PROVE  ProtectionLockObj' = None /\ (\A t \in Thread : pc'[t] # "spin") /\ \E K : PoolBody(K)'
  BY DEF PoolInv
<1>1. ~RestartRequired
  BY DEF Next, Call, ThreadStep, TxLock, GetGlobal, PoolIsEmpty, TakePoolObj, PendWake, Retest,
     ReleasePoolObj, ReleaseSpins, TxCheck, SendGivesUp, FlowWake, FlowAborted, FlowTimeout, LockTest,
     Write, WriteFails, Await, AwaitTimeout, LockRefused, LockShort, LockAcquire, CmdRefused, Cmd, CmdFails, CmdResponse, CmdAborted,
     NwpStep, ReadEvent, OtherCommand, OtherEnds, OtherResponse, OtherAborted,
     OtherCmdSend, ReadAnswer, Drain, AbortElsewhere, ProvStart,
     HandleFatalError, flagVars, vars
<1>2. PICK L : PoolBody(L)
  BY <1>1 DEF PoolInv
<1>3. ProtectionLockObj = None /\ \A t \in Thread : pc[t] # "spin"
  BY <1>1 DEF PoolInv
<1>4. ASSUME NEW t \in Thread, Call(t) \/ ThreadStep(t) \/ TxLock(t) \/ GetGlobal(t)
      PROVE  ProtectionLockObj' = None /\ (\A u \in Thread : pc'[u] # "spin") /\ \E K : PoolBody(K)'
  BY <1>2, <1>3, <1>4, PoolThreadStep, PcElsewhere
<1>5. ASSUME NwpStep \/ AbortElsewhere \/ ProvStart \/ UNCHANGED vars
      PROVE  ProtectionLockObj' = None /\ (\A u \in Thread : pc'[u] # "spin") /\ \E K : PoolBody(K)'
  BY <1>2, <1>3, <1>5, OutsidePool
<1> QED BY <1>4, <1>5 DEF Next

(* What all steps of a call, of the NWP and of the rest of the driver keep up *)
THEOREM PoolInvariance == Spec => [](TypeInv /\ PoolInv)
<1>1. Init => PoolInv
  BY PoolInit
<1>2. TypeInv /\ TypeInv' /\ PoolInv /\ [Next]_vars => PoolInv'
  BY PoolStep
<1> QED BY <1>1, <1>2, DataTypes, PTL DEF Spec

-----------------------------------------------------------------------------
LEMMA SoundPool ==
  ASSUME TypeInv, PoolInv, ~RestartRequired
  PROVE  /\ \E L : PoolBody(L)
         /\ ProtectionLockObj = None /\ \A t \in Thread : pc[t] # "spin"
BY DEF PoolInv

(***************************************************************************)
(* The three lists that share NextIndex are proper, disjoint and hold just *)
(* what their calls think they hold, whatever the order of                 *)
(* _SlDrvWaitForPoolObj and _SlDrvReleasePoolObj; all that is left over on *)
(* the active list is what provisioning refused (driver.c 2342-2513).      *)
(***************************************************************************)
THEOREM PoolKept == Spec => []PoolSound
<1>1. ASSUME TypeInv, PoolInv PROVE PoolSound
  <2> DEFINE active == Members(NextIndex, ActivePoolIdx)
  <2> SUFFICES ASSUME ~RestartRequired
               PROVE  /\ \A h \in {FreePoolIdx, PendingPoolIdx, ActivePoolIdx} : Ends(NextIndex, h)
                      /\ Members(NextIndex, PendingPoolIdx) = WaitObjs
                      /\ active \cap Held = ActiveObjs \cap Obj /\ (~ProvActive => active \subseteq Held)
                      /\ Members(NextIndex, FreePoolIdx) = Obj \ (active \cup Held)
                      /\ ActiveActionsBitmap \subseteq {BitOf(action[i]) : i \in active}
                      /\ ProtectionLockObj = None
    BY DEF PoolSound, WaitObjs, Waiting, ActiveObjs, Held
  <2>1. PICK L : PoolBody(L)
    BY <1>1, SoundPool
  <2>2. ProtectionLockObj = None
    BY <1>1, SoundPool
  <2>3. /\ Ends(NextIndex, FreePoolIdx) /\ Members(NextIndex, FreePoolIdx) = FreeObjs(L)
        /\ Ends(NextIndex, PendingPoolIdx) /\ Members(NextIndex, PendingPoolIdx) = WaitObjs
        /\ Ends(NextIndex, ActivePoolIdx) /\ Members(NextIndex, ActivePoolIdx) = InUse(L)
    BY <2>1, ListWalk DEF PoolBody, Lists
  <2>4. L \cap Held = {} /\ (~ProvActive => L = {})
    BY <2>1 DEF PoolBody, Leaks
  <2>5. ActiveObjs \subseteq Held /\ ActiveObjs \subseteq Obj
    BY <1>1 DEF ActiveObjs, Held, TypeInv, Holding, Holds
  <2>6. active \cap Held = ActiveObjs \cap Obj /\ (~ProvActive => active \subseteq Held)
    BY <2>3, <2>4, <2>5 DEF InUse
  <2>7. Members(NextIndex, FreePoolIdx) = Obj \ (active \cup Held)
    BY <2>3, <2>5 DEF FreeObjs, InUse
  <2>8. ActiveActionsBitmap \subseteq {BitOf(action[i]) : i \in active}
    BY <2>1, <2>3 DEF PoolBody, Bits
  <2> QED BY <2>2, <2>3, <2>6, <2>7, <2>8
<1> QED BY <1>1, PoolInvariance, PTL

(***************************************************************************)
(* Two calls on one socket, whatever they do, or of one kind without a     *)
(* socket, are never active together: a woken call that looks again at the *)
(* bitmap cannot be overtaken (driver.c 2365-2425).                        *)
(***************************************************************************)
THEOREM TurnsTaken == Spec => []TakeTurns
<1>1. ASSUME TypeInv, PoolInv PROVE TakeTurns
  <2> SUFFICES ASSUME ~RestartRequired, NEW t \in Thread, NEW u \in Thread, HasActive(t), HasActive(u),
                      BitOf(call[t]) = BitOf(call[u]), call[t].op # "select"
               PROVE  t = u
    BY DEF TakeTurns
  <2>1. PICK L : PoolBody(L)
    BY <1>1, SoundPool
  <2>2. /\ obj[t] \in InUse(L) /\ obj[u] \in InUse(L) /\ obj[t] \in Obj /\ obj[u] \in Obj
        /\ call[t] \in Request /\ call[u] \in Request
    BY <1>1 DEF InUse, ActiveObjs, TypeInv, Holding, Holds, HasActive, Using
  <2>3. action[obj[t]] = call[t] /\ action[obj[u]] = call[u]
    BY <2>1, <2>2 DEF PoolBody, Owned
  <2>4. ~Exempt(call[t]) /\ ~Exempt(call[u])
    BY <2>2, BitsAssumption, NobodyAssumption DEF Exempt, BitOf, Request, Op, SockOp, PlainOp
  <2>5. obj[t] = obj[u]
    BY <2>1, <2>2, <2>3, <2>4 DEF PoolBody, Bits
  <2> QED BY <2>1, <2>2, <2>5 DEF PoolBody, Owned
<1> QED BY <1>1, PoolInvariance, PTL

(***************************************************************************)
(* Whoever waits for its turn with no signal due has a call with its bit   *)
(* that is active, or was signalled and will be, if its socket is used for *)
(* one kind of call only: the search of the pending list by ActionID       *)
(* (driver.c 2459) forgets nobody then, whatever the order of calls and    *)
(* releases.  Without that hypothesis it does forget: see NoLostWaiter.    *)
(***************************************************************************)
THEOREM WaitersServed == Spec => []KindServed
<1>1. ASSUME TypeInv, PoolInv PROVE KindServed
  <2> SUFFICES ASSUME Normal, NEW t \in Thread, Waits(t), Uniform(call[t])
               PROVE  HasFellow(t)
    BY DEF KindServed, Uniform
  <2>1. PICK L : PoolBody(L)
    BY <1>1, SoundPool DEF Normal
  <2>2. PICK u \in Thread : obj[u] \in Obj /\ ~Waiting(u) /\ BitOf(call[u]) = BitOf(call[t])
    BY <2>1 DEF Normal, Waits, Waiting, PoolBody, Served
  <2>3. u # t /\ Holds(u)
    BY <1>1, <2>2, SoundPool, ObjNat DEF Normal, Waits, Waiting, TypeInv, Holding
  <2> QED BY <2>2, <2>3 DEF Holds, Waiting, HasFellow
<1> QED BY <1>1, PoolInvariance, PTL

(***************************************************************************)
(* The search of the active list for whom an answer is for finds an        *)
(* object, and stops at the call that asked unless that is a select:       *)
(* _SlDrvFindAndSetActiveObj (driver.c 2620-2660).                         *)
(***************************************************************************)
THEOREM AnswersFound == Spec => []AnswerGoesHome
<1>1. ASSUME TypeInv, PoolInv PROVE AnswerGoesHome
  BY <1>1, FoundAtHome DEF PoolInv, AnswerGoesHome
<1> QED BY <1>1, PoolInvariance, PTL
=============================================================================
