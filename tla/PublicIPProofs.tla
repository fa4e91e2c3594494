--------------------------- MODULE PublicIPProofs ---------------------------
(***************************************************************************)
(* Proofs about PublicIP: IPInv is inductive, and what a status request is *)
(* told is recent because of it; WaitInv is, and bounds the wait.          *)
(***************************************************************************)
EXTENDS PublicIP, FiniteSetTheorems, TLAPS

\* The bounds of the properties are numbers.
LEMMA Bounds == Horizon \in Nat /\ WaitLimit \in Nat
<1>1. Cardinality(Callers) \in Nat
  BY PublicIPAssumption, FS_CardinalityType DEF PublicIPAssumption
<1>2. \A m, n \in Nat : m * n \in Nat
  OBVIOUS
<1>3. WaitLimit \in Nat
  BY <1>1, <1>2, PublicIPAssumption DEF PublicIPAssumption, WaitLimit
<1>4. Horizon \in Nat
  BY PublicIPAssumption DEF PublicIPAssumption, Horizon
<1> QED BY <1>3, <1>4

\* A caller joins the queue.
LEMMA AskKeeps ==
  ASSUME IPInv, NEW c \in Callers, Ask(c)
  PROVE  IPInv'
<1> USE DEF IPInv, Ask, cache, lookup
<1>1. TypeOK'
  BY Bounds DEF TypeOK
<1>2. HolderOK'
  BY DEF TypeOK, HolderOK
<1>3. FoundOK' /\ CachedOK' /\ NoNeedlessLookup'
  BY DEF FoundOK, CachedOK, NoNeedlessLookup, Recent, Fresh
<1> QED BY <1>1, <1>2, <1>3

\* Returning keeps the type of the queue and of what was told.
LEMMA ReturnKeeps ==
  ASSUME TypeOK, queue # <<>>, NEW a \in Addrs \cup {None}, Return(a)
  PROVE  queue' \in Seq(Callers) /\ got' \in [Callers -> Addrs \cup {None}]
BY DEF TypeOK, Return

\* An address from the cache.
LEMMA HitKeeps ==
  ASSUME IPInv, Hit
  PROVE  IPInv'
<1> USE DEF IPInv, Hit, cache, lookup
<1>1. TypeOK'
  BY ReturnKeeps DEF TypeOK
<1>2. HolderOK' /\ FoundOK' /\ CachedOK' /\ NoNeedlessLookup'
  BY DEF HolderOK, FoundOK, CachedOK, NoNeedlessLookup, Recent, Fresh
<1> QED BY <1>1, <1>2

\* A lookup begins.
LEMMA MissKeeps ==
  ASSUME IPInv, Miss
  PROVE  IPInv'
<1> USE PublicIPAssumption DEF PublicIPAssumption, IPInv, Miss, cache
<1>1. TypeOK'
  BY DEF TypeOK
<1>2. HolderOK' /\ FoundOK' /\ CachedOK' /\ NoNeedlessLookup'
  BY DEF HolderOK, FoundOK, CachedOK, NoNeedlessLookup, Recent, Fresh
<1> QED BY <1>1, <1>2

\* What is found is the address of this moment.
LEMMA AnswerKeeps ==
  ASSUME IPInv, Answer
  PROVE  IPInv'
<1> USE DEF IPInv, Answer, cache
<1>1. TypeOK'
  BY DEF TypeOK
<1>2. HolderOK' /\ FoundOK' /\ CachedOK' /\ NoNeedlessLookup'
  BY DEF HolderOK, FoundOK, CachedOK, NoNeedlessLookup, Recent, Fresh
<1> QED BY <1>1, <1>2

\* What is kept was found no longer ago than a lookup takes.
LEMMA KeepKeeps ==
  ASSUME IPInv, Keep
  PROVE  IPInv'
<1> USE PublicIPAssumption DEF PublicIPAssumption, IPInv, Keep, EndLookup
<1>1. queue # <<>> /\ found \in Addrs
  BY DEF HolderOK, TypeOK
<1>2. TypeOK'
  <2>1. queue' \in Seq(Callers) /\ got' \in [Callers -> Addrs \cup {None}]
    BY <1>1, ReturnKeeps DEF TypeOK
  <2>2. 0 \in 0..TTL /\ 0 \in 0..Timeout
    OBVIOUS
  <2>3. /\ addr' \in Addrs /\ since' \in 0..Horizon
        /\ cached' \in Addrs \cup {None} /\ age' \in 0..TTL
        /\ looking' \in BOOLEAN /\ found' \in Addrs \cup {None}
        /\ spent' \in 0..Timeout
        /\ waited' \in [Callers -> 0..(WaitLimit + 1)]
    BY <1>1, <2>2 DEF TypeOK
  <2> QED BY <2>1, <2>3 DEF TypeOK
<1>3. cached' = addr \/ since <= spent
  BY DEF FoundOK, Recent
<1>4. CachedOK'
  BY <1>3 DEF CachedOK, Recent, TypeOK
<1>5. HolderOK' /\ FoundOK' /\ NoNeedlessLookup'
  BY DEF HolderOK, FoundOK, NoNeedlessLookup
<1> QED BY <1>2, <1>4, <1>5

\* A lookup fails.
LEMMA FailKeeps ==
  ASSUME IPInv, Fail
  PROVE  IPInv'
<1> USE PublicIPAssumption DEF PublicIPAssumption, IPInv, Fail, EndLookup, cache
<1>1. queue # <<>>
  BY DEF HolderOK
<1>2. TypeOK'
  <2>1. queue' \in Seq(Callers) /\ got' \in [Callers -> Addrs \cup {None}]
    BY <1>1, ReturnKeeps DEF TypeOK
  <2>2. 0 \in 0..TTL /\ 0 \in 0..Timeout
    OBVIOUS
  <2>3. /\ addr' \in Addrs /\ since' \in 0..Horizon
        /\ cached' \in Addrs \cup {None} /\ age' \in 0..TTL
        /\ looking' \in BOOLEAN /\ found' \in Addrs \cup {None}
        /\ spent' \in 0..Timeout
        /\ waited' \in [Callers -> 0..(WaitLimit + 1)]
    BY <1>1, <2>2 DEF TypeOK
  <2> QED BY <2>1, <2>3 DEF TypeOK
<1>3. HolderOK' /\ FoundOK' /\ CachedOK' /\ NoNeedlessLookup'
  BY DEF HolderOK, FoundOK, CachedOK, NoNeedlessLookup, Recent, Fresh
<1> QED BY <1>2, <1>3

\* An address that the host has lost is recent at first.
LEMMA MoveKeeps ==
  ASSUME IPInv, Move
  PROVE  IPInv'
<1> USE PublicIPAssumption, Bounds DEF PublicIPAssumption, IPInv, Move, cache, lookup
<1>1. TypeOK'
  BY DEF TypeOK
<1>2. HolderOK' /\ NoNeedlessLookup'
  BY DEF HolderOK, NoNeedlessLookup, Fresh
<1>3. FoundOK' /\ CachedOK'
  BY DEF FoundOK, CachedOK, Recent, TypeOK, Fresh
<1> QED BY <1>1, <1>2, <1>3

\* Time makes what is found and what is cached older as the address grows
\* older, and does not make a bad cache good.
LEMMA TickKeeps ==
  ASSUME IPInv, Tick
  PROVE  IPInv'
<1> USE PublicIPAssumption, Bounds DEF PublicIPAssumption, IPInv, Tick, Pass, UpTo
<1>1. TypeOK'
  <2>1. waited' \in [Callers -> 0..(WaitLimit + 1)]
    BY DEF TypeOK
  <2>2. since' \in 0..Horizon /\ age' \in 0..TTL /\ spent' \in 0..Timeout
    BY DEF TypeOK
  <2> QED BY <2>1, <2>2 DEF TypeOK
<1>2. HolderOK'
  BY DEF HolderOK
<1>3. FoundOK'
  BY DEF FoundOK, Recent, TypeOK
<1>4. CachedOK'
  BY DEF CachedOK, Recent, TypeOK, Fresh
<1>5. NoNeedlessLookup'
  BY DEF NoNeedlessLookup, TypeOK, Fresh
<1> QED BY <1>1, <1>2, <1>3, <1>4, <1>5

\* IPInv holds of the initial state and is kept by every step (frps.go:17-44).
THEOREM IPInvariance == Spec => []IPInv
<1>1. Init => IPInv
  <2> SUFFICES ASSUME Init PROVE IPInv
    OBVIOUS
  <2>1. TypeOK
    <3>1. 0 \in 0..TTL /\ TTL \in 0..TTL /\ 0 \in 0..Timeout /\ 0 \in 0..(WaitLimit + 1)
          /\ Horizon \in 0..Horizon
      BY Bounds, PublicIPAssumption DEF PublicIPAssumption
    <3>2. queue \in Seq(Callers)
      BY DEF Init
    <3>3. looking \in BOOLEAN
      BY Zenon DEF Init
    <3> QED BY <3>1, <3>2, <3>3 DEF Init, TypeOK
  <2>2. HolderOK /\ FoundOK /\ CachedOK /\ NoNeedlessLookup
    BY DEF Init, HolderOK, FoundOK, CachedOK, NoNeedlessLookup, Fresh
  <2> QED BY <2>1, <2>2 DEF IPInv
<1>2. IPInv /\ [Next]_piVars => IPInv'
  <2> SUFFICES ASSUME IPInv, [Next]_piVars PROVE IPInv'
    OBVIOUS
  <2>1. CASE UNCHANGED piVars
    BY <2>1 DEF piVars, cache, lookup, IPInv, TypeOK, HolderOK, FoundOK, CachedOK,
                NoNeedlessLookup, Recent, Fresh
  <2>2. CASE Next
    BY <2>2, AskKeeps, HitKeeps, MissKeeps, AnswerKeeps, KeepKeeps, FailKeeps, MoveKeeps,
       TickKeeps DEF Next
  <2> QED BY <2>1, <2>2
<1> QED BY <1>1, <1>2, PTL DEF Spec

\* There is no lookup while the cached address is good (frps.go:29-31).
THEOREM NeedlessLookups == Spec => []NoNeedlessLookup
BY IPInvariance, PTL DEF IPInv

\* Only the head of the queue leaves it.
LEMMA HeadLeaves ==
  ASSUME TypeOK, queue # <<>>, queue' = Tail(queue),
         NEW c \in ToSet(queue) \ ToSet(queue')
  PROVE  c = Head(queue)
<1>1. PICK i \in 1..Len(queue) : c = queue[i]
  BY DEF ToSet, TypeOK
<1>2. CASE i = 1
  BY <1>1, <1>2 DEF TypeOK
<1>3. CASE i # 1
  <2>1. i - 1 \in 1..Len(queue') /\ queue'[i - 1] = queue[i]
    BY <1>1, <1>3 DEF TypeOK
  <2>2. c \in ToSet(queue')
    <3>1. i - 1 \in DOMAIN queue'
      BY <2>1 DEF TypeOK
    <3> QED BY <1>1, <2>1, <3>1 DEF ToSet
  <2> QED BY <2>2
<1> QED BY <1>2, <1>3

\* A caller that returns with a, while a is the host's address or was not long
\* ago, is told what it may be told.
LEMMA ReturnTells ==
  ASSUME TypeOK, queue # <<>>, NEW a, Return(a), a \in {None, addr} \/ since < Horizon
  PROVE  \A c \in ToSet(queue) \ ToSet(queue') : got'[c] \in {None, addr} \/ since < Horizon
<1> SUFFICES ASSUME NEW c \in ToSet(queue) \ ToSet(queue')
             PROVE  got'[c] \in {None, addr} \/ since < Horizon
  OBVIOUS
<1>1. c = Head(queue)
  BY HeadLeaves DEF Return
<1>2. Head(queue) \in Callers
  BY DEF TypeOK
<1>3. got'[c] = a
  BY <1>1, <1>2 DEF Return, TypeOK
<1> QED BY <1>3

\* What a status request is told is the host's address, or was until less than
\* TTL and Timeout ago, for any of them and any number of requests
\* (frps.go:17-44, 205).
THEOREM Recency == Spec => ToldIsRecent
<1>1. IPInv /\ [Next]_piVars =>
        [\A c \in ToSet(queue) \ ToSet(queue') : got'[c] \in {None, addr} \/ since < Horizon]_piVars
  <2> SUFFICES ASSUME IPInv, Next
               PROVE  \A c \in ToSet(queue) \ ToSet(queue') :
                        got'[c] \in {None, addr} \/ since < Horizon
    OBVIOUS
  <2> USE PublicIPAssumption DEF PublicIPAssumption
  <2>1. CASE Hit
    <3>1. cached = addr \/ since < Horizon
      BY <2>1 DEF IPInv, Hit, CachedOK, Fresh, Recent, TypeOK, Horizon
    <3> QED BY <2>1, <3>1, ReturnTells DEF Hit, IPInv
  <2>2. CASE Keep
    <3>1. found = addr \/ since < Horizon
      BY <2>2 DEF IPInv, Keep, FoundOK, Recent, TypeOK, Horizon
    <3> QED BY <2>2, <3>1, ReturnTells DEF Keep, EndLookup, IPInv, HolderOK
  <2>3. CASE Fail
    BY <2>3, ReturnTells DEF Fail, EndLookup, IPInv, HolderOK
  <2>4. ASSUME NEW c \in Callers, Ask(c)
        PROVE  ToSet(queue) \subseteq ToSet(queue')
    <3>1. \A i \in 1..Len(queue) : i \in 1..Len(queue') /\ queue'[i] = queue[i]
      BY <2>4 DEF Ask, IPInv, TypeOK
    <3>2. DOMAIN queue = 1..Len(queue) /\ DOMAIN queue' = 1..Len(queue')
      BY <2>4 DEF Ask, IPInv, TypeOK
    <3> QED BY <3>1, <3>2 DEF ToSet
  <2>5. CASE Miss \/ Answer \/ Move \/ Tick
    BY <2>5 DEF Miss, Answer, Move, Tick, Pass
  <2> QED BY <2>1, <2>2, <2>3, <2>4, <2>5 DEF Next
<1> QED BY <1>1, IPInvariance, PTL DEF Spec, ToldIsRecent
-----------------------------------------------------------------------------
(* The wait for the mutex.                                                 *)

\* A caller waits in one place.
OnePlace == \A i, j \in 1..Len(queue) : queue[i] = queue[j] => i = j

Idle == ~looking => spent = 0

\* The time that lookups take before a caller has come from the last possible
\* place to the i-th.
Ahead(i) == (Cardinality(Callers) - i) * Timeout

WaitOK == \A i \in 1..Len(queue) : waited[queue[i]] <= Ahead(i) + spent

WaitInv == OnePlace /\ Idle /\ WaitOK /\ WaitIsBounded

\* A place further to the front is worth one lookup.
LEMMA AheadFacts ==
  /\ \A i \in Int : Ahead(i) \in Int
  /\ \A i \in Int : Ahead(i) + Timeout = Ahead(i - 1)
  /\ Ahead(0) = WaitLimit
  /\ \A i \in 1..Cardinality(Callers) : Ahead(i) >= 0 /\ Ahead(i) + Timeout <= WaitLimit
<1> DEFINE N == Cardinality(Callers)
<1>1. N \in Nat /\ Timeout \in Nat
  BY PublicIPAssumption, FS_CardinalityType DEF PublicIPAssumption
<1>2. \A i \in Int : Ahead(i) \in Int
  BY <1>1 DEF Ahead
<1>3. \A a \in Int, t \in Nat : a * t + t = (a + 1) * t
  OBVIOUS
<1>4. \A a, t \in Nat : a * t \in Nat
  OBVIOUS
<1>5. \A i \in Int : Ahead(i) + Timeout = Ahead(i - 1)
  <2> SUFFICES ASSUME NEW i \in Int PROVE Ahead(i) + Timeout = Ahead(i - 1)
    OBVIOUS
  <2> HIDE DEF N
  <2>1. N - i \in Int /\ N - (i - 1) = (N - i) + 1
    BY <1>1
  <2> QED BY <1>1, <1>3, <2>1 DEF Ahead, N
<1>6. Ahead(0) = WaitLimit
  <2>1. N - 0 = N
    BY <1>1
  <2> QED BY <2>1 DEF Ahead, WaitLimit
<1>7. \A i \in 1..N : Ahead(i) >= 0 /\ Ahead(i) + Timeout <= WaitLimit
  <2> SUFFICES ASSUME NEW i \in 1..N PROVE Ahead(i) >= 0 /\ Ahead(i) + Timeout <= WaitLimit
    OBVIOUS
  <2> HIDE DEF N
  <2>1. N - i \in Nat /\ i - 1 \in Nat /\ N = (N - i) + i
    BY <1>1
  <2>2. Ahead(i) \in Nat
    BY <1>1, <1>4, <2>1 DEF Ahead, N
  <2>3. WaitLimit = Ahead(i - 1) + (i - 1) * Timeout
    <3>1. \A a, b, t \in Nat : (a + b) * t = a * t + b * t
      OBVIOUS
    <3>2. N - (i - 1) \in Nat /\ N = (N - (i - 1)) + (i - 1)
      BY <1>1
    <3>3. N * Timeout = (N - (i - 1)) * Timeout + (i - 1) * Timeout
      BY <1>1, <2>1, <3>1, <3>2
    <3> QED BY <3>3 DEF Ahead, WaitLimit, N
  <2>4. (i - 1) * Timeout \in Nat
    BY <1>1, <1>4, <2>1
  <2>5. Ahead(i) + Timeout = Ahead(i - 1) /\ Ahead(i - 1) \in Int
    BY <1>1, <1>2, <1>5
  <2> QED BY <2>2, <2>3, <2>4, <2>5
<1> QED BY <1>2, <1>5, <1>6, <1>7

\* There are no more places than callers.
LEMMA FewPlaces ==
  ASSUME NEW q \in Seq(Callers), \A i, j \in 1..Len(q) : q[i] = q[j] => i = j
  PROVE  Len(q) <= Cardinality(Callers)
<1>1. Len(q) \in Nat /\ q \in [1..Len(q) -> Callers]
  OBVIOUS
<1>2. q \in Injection(1..Len(q), Callers)
  BY <1>1 DEF Injection, IsInjective
<1>3. Cardinality(1..Len(q)) <= Cardinality(Callers)
  BY <1>2, PublicIPAssumption, FS_Injection DEF PublicIPAssumption
<1>4. Cardinality(1..Len(q)) = Len(q)
  BY <1>1, FS_Interval
<1> QED BY <1>3, <1>4

\* The last place is behind all others, and a caller has not waited yet then.
LEMMA AskWaits ==
  ASSUME IPInv, WaitInv, NEW c \in Callers, Ask(c)
  PROVE  WaitInv'
<1>1. /\ queue \in Seq(Callers) /\ queue' = Append(queue, c) /\ c \notin ToSet(queue)
      /\ waited \in [Callers -> 0..(WaitLimit + 1)] /\ waited' = [waited EXCEPT ![c] = 0]
      /\ spent' = spent /\ looking' = looking /\ spent \in 0..Timeout
  BY DEF IPInv, TypeOK, Ask, lookup
<1>2. /\ queue' \in Seq(Callers) /\ Len(queue') = Len(queue) + 1 /\ queue'[Len(queue')] = c
      /\ \A i \in 1..Len(queue) : queue'[i] = queue[i] /\ queue[i] # c /\ queue[i] \in Callers
  BY <1>1 DEF ToSet
<1>3. \A i, j \in 1..Len(queue') : queue'[i] = queue'[j] => i = j
  BY <1>1, <1>2 DEF WaitInv, OnePlace
<1>4. Len(queue') \in 1..Cardinality(Callers)
  <2>1. Len(queue') <= Cardinality(Callers)
    BY <1>2, <1>3, FewPlaces
  <2>2. Cardinality(Callers) \in Nat /\ Len(queue') \in Nat
    BY <1>2, PublicIPAssumption, FS_CardinalityType DEF PublicIPAssumption
  <2> QED BY <1>1, <1>2, <2>1, <2>2
<1>5. WaitOK'
  <2>1. 0 <= Ahead(Len(queue')) + spent'
    <3>1. Ahead(Len(queue')) >= 0 /\ Ahead(Len(queue')) \in Int
      BY <1>4, AheadFacts
    <3>2. spent' >= 0 /\ spent' \in Int
      BY <1>1, PublicIPAssumption DEF PublicIPAssumption
    <3> QED BY <3>1, <3>2
  <2>2. waited'[c] = 0 /\ \A i \in 1..Len(queue) : waited'[queue[i]] = waited[queue[i]]
    BY <1>1, <1>2
  <2>3. ASSUME NEW i \in 1..Len(queue')
        PROVE  waited'[queue'[i]] <= Ahead(i) + spent'
    <3>1. CASE i = Len(queue')
      BY <1>2, <2>1, <2>2, <3>1
    <3>2. CASE i # Len(queue')
      <4>1. i \in 1..Len(queue)
        BY <1>1, <1>2, <3>2
      <4> QED BY <1>1, <1>2, <2>2, <4>1 DEF WaitInv, WaitOK
    <3> QED BY <3>1, <3>2
  <2> QED BY <2>3 DEF WaitOK, Ahead
<1>6. WaitIsBounded'
  <2>1. \A x \in Callers : waited'[x] = IF x = c THEN 0 ELSE waited[x]
    BY <1>1
  <2> QED BY <2>1, Bounds DEF WaitInv, WaitIsBounded, WaitLimit
<1>7. Idle' /\ OnePlace'
  BY <1>1, <1>3 DEF WaitInv, Idle, OnePlace
<1> QED BY <1>5, <1>6, <1>7 DEF WaitInv

\* When the first leaves, all others are one place, and one lookup, nearer.
LEMMA ReturnWaits ==
  ASSUME IPInv, WaitInv, queue # <<>>, queue' = Tail(queue), waited' = waited,
         looking' = FALSE, spent' = 0
  PROVE  WaitInv'
<1>1. /\ queue \in Seq(Callers) /\ spent \in 0..Timeout
      /\ waited \in [Callers -> 0..(WaitLimit + 1)]
  BY DEF IPInv, TypeOK
<1>2. /\ Len(queue') = Len(queue) - 1 /\ Len(queue) \in Nat \ {0}
      /\ \A i \in 1..Len(queue') : queue'[i] = queue[i + 1] /\ i + 1 \in 1..Len(queue)
  BY <1>1
<1>3. OnePlace'
  BY <1>1, <1>2 DEF WaitInv, OnePlace
<1>4. WaitOK'
  <2> SUFFICES ASSUME NEW i \in 1..Len(queue') PROVE waited'[queue'[i]] <= Ahead(i) + spent'
    BY DEF WaitOK, Ahead
  <2>1. i + 1 \in 1..Len(queue) /\ queue'[i] = queue[i + 1] /\ i \in Nat /\ i + 1 \in Int
    BY <1>1, <1>2
  <2>2. waited[queue[i + 1]] <= Ahead(i + 1) + spent /\ waited[queue[i + 1]] \in Nat
    BY <1>1, <2>1 DEF WaitInv, WaitOK
  <2>3. Ahead(i + 1) + Timeout = Ahead(i) /\ Ahead(i + 1) \in Int
    <3>1. (i + 1) - 1 = i
      BY <2>1
    <3>2. Ahead(i + 1) + Timeout = Ahead((i + 1) - 1)
      BY <2>1, AheadFacts
    <3> QED BY <2>1, <3>1, <3>2, AheadFacts
  <2> QED BY <1>1, <2>1, <2>2, <2>3, PublicIPAssumption DEF PublicIPAssumption
<1>5. WaitIsBounded' /\ Idle'
  BY DEF WaitInv, WaitIsBounded, WaitLimit, Idle
<1> QED BY <1>3, <1>4, <1>5 DEF WaitInv

\* The wait grows as the lookup does that is waited for.
LEMMA TickWaits ==
  ASSUME IPInv, WaitInv, Tick
  PROVE  WaitInv'
<1>1. /\ queue \in Seq(Callers) /\ spent \in 0..Timeout /\ queue' = queue /\ looking' = looking
      /\ waited \in [Callers -> 0..(WaitLimit + 1)]
      /\ queue # <<>> => looking
      /\ spent < Timeout /\ spent' = IF looking THEN spent + 1 ELSE 0
      /\ waited' = [c \in Callers |-> IF c \in ToSet(queue) THEN UpTo(WaitLimit + 1, waited[c]) ELSE 0]
  BY DEF IPInv, TypeOK, Tick, Pass
<1>2. \A i \in 1..Len(queue) : queue[i] \in Callers /\ queue[i] \in ToSet(queue) /\ looking
  BY <1>1 DEF ToSet
<1>3. WaitOK'
  <2>1. ASSUME NEW i \in 1..Len(queue)
        PROVE  waited'[queue[i]] <= Ahead(i) + spent'
    <3>1. waited[queue[i]] <= Ahead(i) + spent /\ waited[queue[i]] \in Nat /\ Ahead(i) \in Int
      <4>1. waited[queue[i]] <= Ahead(i) + spent
        BY DEF WaitInv, WaitOK
      <4>2. waited[queue[i]] \in Nat
        BY <1>1, <1>2, Bounds
      <4>3. Ahead(i) \in Int
        BY AheadFacts
      <4> QED BY <4>1, <4>2, <4>3
    <3>2. waited'[queue[i]] <= waited[queue[i]] + 1
      <4>1. waited'[queue[i]] = UpTo(WaitLimit + 1, waited[queue[i]])
        BY <1>1, <1>2
      <4>2. waited[queue[i]] \in 0..(WaitLimit + 1)
        BY <1>1, <1>2
      <4>3. \A l \in Nat : \A n \in 0..l : UpTo(l, n) <= n + 1
        BY DEF UpTo
      <4>4. WaitLimit + 1 \in Nat
        BY Bounds
      <4> QED BY <4>1, <4>2, <4>3, <4>4
    <3>3. spent' = spent + 1 /\ waited'[queue[i]] \in Int
      <4>1. spent' = spent + 1
        BY <1>1, <1>2
      <4>2. waited'[queue[i]] = UpTo(WaitLimit + 1, waited[queue[i]])
        BY <1>1, <1>2
      <4> QED BY <3>1, <4>1, <4>2, Bounds DEF UpTo
    <3> QED BY <1>1, <3>1, <3>2, <3>3
  <2>2. queue' = queue
    BY <1>1
  <2> QED BY <2>1, <2>2 DEF WaitOK, Ahead
<1>4. WaitIsBounded'
  <2> SUFFICES ASSUME NEW c \in Callers PROVE waited'[c] <= WaitLimit
    BY DEF WaitIsBounded, WaitLimit
  <2>1. CASE c \notin ToSet(queue)
    BY <1>1, <2>1, Bounds
  <2>2. CASE c \in ToSet(queue)
    <3>1. PICK i \in 1..Len(queue) : c = queue[i]
      BY <1>1, <2>2 DEF ToSet
    <3>2. Len(queue) <= Cardinality(Callers) /\ Cardinality(Callers) \in Nat
      BY <1>1, FewPlaces, PublicIPAssumption, FS_CardinalityType DEF WaitInv, OnePlace, PublicIPAssumption
    <3>3. i \in 1..Cardinality(Callers)
      BY <1>1, <3>2
    <3>4. Ahead(i) + Timeout <= WaitLimit /\ Ahead(i) \in Int
      BY <3>3, AheadFacts
    <3>5. waited'[c] <= Ahead(i) + spent' /\ spent' <= Timeout /\ spent' \in Int
      BY <1>1, <1>2, <1>3, <3>1, PublicIPAssumption DEF WaitOK, Ahead, PublicIPAssumption
    <3>6. waited'[c] \in Int
      BY <1>1, Bounds DEF UpTo
    <3> QED BY <3>4, <3>5, <3>6, Bounds, PublicIPAssumption DEF PublicIPAssumption
  <2> QED BY <2>1, <2>2
<1>5. OnePlace' /\ Idle'
  BY <1>1 DEF WaitInv, OnePlace, Idle
<1> QED BY <1>3, <1>4, <1>5 DEF WaitInv

\* A status request waits no longer than the time of one lookup for every
\* request, however many there are (frps.go:25-33).
THEOREM BoundedWaits == Spec => []WaitIsBounded
<1>1. Init => WaitInv
  <2> SUFFICES ASSUME Init PROVE WaitInv
    OBVIOUS
  <2>1. OnePlace /\ Idle /\ WaitOK
    BY DEF Init, OnePlace, Idle, WaitOK
  <2>2. WaitIsBounded
    BY Bounds DEF Init, WaitIsBounded
  <2> QED BY <2>1, <2>2 DEF WaitInv
<1>2. IPInv /\ WaitInv /\ [Next]_piVars => WaitInv'
  <2> SUFFICES ASSUME IPInv, WaitInv, [Next]_piVars PROVE WaitInv'
    OBVIOUS
  <2>1. ASSUME UNCHANGED <<queue, waited, spent, looking>>
        PROVE  WaitInv'
    BY <2>1 DEF WaitInv, OnePlace, Idle, WaitOK, WaitIsBounded, WaitLimit, Ahead
  <2>2. CASE UNCHANGED piVars
    BY <2>1, <2>2 DEF piVars, lookup
  <2>3. CASE Hit
    BY <2>3, ReturnWaits DEF Hit, Return, WaitInv, Idle, lookup, IPInv, TypeOK
  <2>4. CASE Keep \/ Fail
    BY <2>4, ReturnWaits DEF Keep, Fail, EndLookup, Return, IPInv, HolderOK
  <2>5. CASE Miss
    <3>1. spent = 0 /\ spent' = 0 /\ looking' /\ UNCHANGED <<queue, waited>>
      BY <2>5 DEF Miss, WaitInv, Idle
    <3> QED BY <3>1 DEF WaitInv, OnePlace, Idle, WaitOK, WaitIsBounded, WaitLimit, Ahead
  <2>6. CASE Answer \/ Move
    BY <2>1, <2>6 DEF Answer, Move, lookup
  <2> QED BY <2>2, <2>3, <2>4, <2>5, <2>6, AskWaits, TickWaits DEF Next
<1> QED BY <1>1, <1>2, IPInvariance, PTL DEF Spec, WaitInv
=============================================================================
