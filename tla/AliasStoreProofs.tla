-------------------------- MODULE AliasStoreProofs --------------------------
(***************************************************************************)
(* Proofs about AliasStore, for any number of devices, aliases and         *)
(* goroutines: writers of the file overlap, and still never disagree.      *)
(***************************************************************************)
EXTENDS AliasStore, FiniteSetTheorems, WellFoundedInduction, TLAPS

\* The slots and the devices are what the variables are about; which aliases
\* there are is left open.
Shape == /\ pc \in [Slots -> {"idle", "persist", "write"}]
         /\ data = [o \in Slots |-> data[o]]
         /\ aliases = [d \in Devices |-> aliases[d]]
         /\ given = [d \in Devices |-> given[d]]
         /\ file = Torn \/ file = [d \in Devices |-> file[d]]
         /\ up \in {"up", "down", "refused"}

\* Whoever writes the file holds the map as it is now, since nobody changes
\* the map while the file is being written; a stopped process writes nothing.
WritersAgree ==
  \A o \in Slots : /\ pc[o] = "write" => data[o] = aliases
                   /\ up # "up" => pc[o] = "idle"

\* A file that differs from the map has a call behind it, or a failure.
SomeoneSaves ==
  up # "up" \/ unsaved \/ file = aliases \/ \E o \in Slots : pc[o] # "idle"

\* What a device was given is in the map or, while the program is down, in
\* the file, as long as nothing was lost.
GivenOK ==
  \A d \in Devices :
    given[d] # NoAlias /\ ~lost =>
      /\ up = "up" => aliases[d] = given[d]
      /\ up = "down" => file[d] = given[d]

AInv == Shape /\ WritersAgree /\ SomeoneSaves /\ GivenOK

\* A store that has just been made.
LEMMA AInvInit == Init => AInv
  BY DEF Init, AInv, Shape, WritersAgree, SomeoneSaves, GivenOK, Empty

\* Every step preserves the invariant.
LEMMA AInvStep == AInv /\ [Next]_storeVars => AInv'
<1> SUFFICES ASSUME AInv, [Next]_storeVars PROVE AInv'
  OBVIOUS
<1> USE DEF AInv, Shape, WritersAgree, SomeoneSaves, GivenOK, Put
<1>1. ASSUME NEW o \in Slots, NEW d, NEW a, Change(o, d, a)
      PROVE  AInv'
  BY <1>1 DEF Change, Starts, Unread
<1>2. ASSUME NEW o \in Slots, NEW d \in Devices, EnsureAutoAlias(o, d)
      PROVE  AInv'
  <2>1. CASE aliases[d] = NoAlias
    <3>1. Shape'
      BY <1>2, <2>1 DEF EnsureAutoAlias, MakeAlias
    <3>2. WritersAgree' /\ SomeoneSaves'
      BY <1>2, <2>1 DEF EnsureAutoAlias, MakeAlias, Starts, Unread
    <3>3. GivenOK'
      BY <1>2, <2>1 DEF EnsureAutoAlias, MakeAlias, Starts
    <3>4. QED
      BY <3>1, <3>2, <3>3
  <2>2. CASE aliases[d] # NoAlias
    BY <1>2, <2>2 DEF EnsureAutoAlias, Starts, Unread
  <2>3. QED
    BY <2>1, <2>2
<1>3. ASSUME NEW o \in Slots, Truncate(o)
      PROVE  AInv'
  BY <1>3 DEF Truncate
<1>4. ASSUME NEW o \in Slots, Write(o)
      PROVE  AInv'
  BY <1>4 DEF Write, Returns
<1>5. ASSUME NEW o \in Slots, Fail(o)
      PROVE  AInv'
  BY <1>5 DEF Fail, Returns
<1>6. CASE Crash
  BY <1>6 DEF Crash, Empty
<1>7. CASE Restart
  <2>1. Shape' /\ WritersAgree' /\ SomeoneSaves'
    BY <1>7 DEF Restart
  <2>2. GivenOK'
    BY <1>7 DEF Restart
  <2>3. QED
    BY <2>1, <2>2
<1>8. CASE UNCHANGED storeVars
  BY <1>8 DEF storeVars
<1>9. QED
  BY <1>1, <1>2, <1>3, <1>4, <1>5, <1>6, <1>7, <1>8 DEF Next, Set, Delete

\* File and memory agree as the invariant says, in every reachable state, for
\* any devices, goroutines and aliases (aliases.go:42-145).
THEOREM AInvariance == Spec => []AInv
  BY AInvInit, AInvStep, PTL DEF Spec

\* Every complete content that the file gets is the map of that moment, also
\* when the process crashes and the disk fails (aliases.go:63-68, 135-145).
THEOREM WholeFile == Spec => WholeFileIsMemory
<1>1. ASSUME AInv, [Next]_storeVars
      PROVE  file' # file /\ file' # Torn => file' = aliases'
  BY <1>1 DEF AInv, Shape, WritersAgree, Next, Set, Delete, Change,
     EnsureAutoAlias, MakeAlias, Truncate, Write, Fail, Crash, Restart, storeVars
<1>2. QED
  BY <1>1, AInvariance, PTL DEF Spec, WholeFileIsMemory

\* File and map agree whenever nobody uses the store, unless the last write
\* failed.
THEOREM QuietFile == Spec => []QuietFileIsMemory
<1>1. AInv => QuietFileIsMemory
  BY DEF AInv, SomeoneSaves, QuietFileIsMemory
<1>2. QED
  BY <1>1, AInvariance, PTL

\* A device keeps its alias through restarts, unless the program died before
\* a change was saved (aliases.go:79-96, 117-133).
THEOREM Reused == Spec => ReusedOnReconnect
<1> DEFINE Kept == \A d \in Devices :
              given[d] # NoAlias /\ given'[d] \notin {NoAlias, given[d]} => lost
<1>1. ASSUME AInv, [Next]_storeVars PROVE Kept
  <2> USE <1>1 DEF AInv, Shape, GivenOK, Put
  <2>1. ASSUME NEW o \in Slots, NEW d \in Devices, EnsureAutoAlias(o, d),
               NEW x \in Devices,
               given[x] # NoAlias, given'[x] \notin {NoAlias, given[x]}
        PROVE  lost
    BY <2>1 DEF EnsureAutoAlias, MakeAlias, Starts
  <2>2. ASSUME NEW o \in Slots, NEW d \in Devices, NEW a, Change(o, d, a)
        PROVE  Kept
    BY <2>2 DEF Change
  <2>3. CASE UNCHANGED given
    BY <2>3
  <2>4. QED
    BY <1>1, <2>1, <2>2, <2>3 DEF Next, Set, Delete, Truncate, Write, Fail,
       Crash, Restart, storeVars
<1>2. QED
  BY <1>1, AInvariance, PTL DEF Spec, ReusedOnReconnect

-----------------------------------------------------------------------------
(* Automatic aliases.                                                      *)

\* Among numbers up to a bound there is a largest one: the sets of the
\* numbers above one of them have a smallest set among them.
LEMMA LargestExists ==
  ASSUME NEW S \in SUBSET (0..IntMax), S # {}
  PROVE  Max(S) \in S /\ \A x \in S : x <= Max(S)
<1> DEFINE Above(x) == {y \in S : x < y}
           T == {Above(x) : x \in S}
<1>1. IntMax \in Nat /\ \A x \in S : x \in Nat
  BY StoreAssumption
<1>2. IsFiniteSet(S)
  <2>1. IsFiniteSet(0..IntMax)
    BY <1>1, FS_Interval
  <2> QED BY <2>1, FS_Subset
<1>3. IsWellFoundedOn(StrictSubsetOrdering(S), SUBSET S)
  BY <1>2, FS_StrictSubsetOrderingWellFounded, FS_FiniteSubsetsOfFinite
<1>4. PICK t \in T : \A u \in T : <<u, t>> \notin StrictSubsetOrdering(S)
  <2>1. T \subseteq SUBSET S /\ T # {}
    OBVIOUS
  <2> HIDE DEF T
  <2> QED BY <1>3, <2>1, WFMin
<1>5. \E m \in S : \A x \in S : m >= x
  <2>1. PICK m \in S : t = Above(m)
    OBVIOUS
  <2>2. ASSUME NEW x \in S, x > m PROVE FALSE
    <3>1. x \in Above(m) /\ x \notin Above(x)
      BY <1>1, <2>2
    <3>2. Above(x) \subseteq Above(m)
      <4>1. ASSUME NEW y \in S, x < y PROVE m < y
        <5>1. x \in Nat /\ y \in Nat /\ m \in Nat
          BY <1>1
        <5> QED BY <2>2, <4>1, <5>1
      <4> QED BY <4>1
    <3>3. <<Above(x), Above(m)>> \in StrictSubsetOrdering(S)
      BY <3>1, <3>2 DEF StrictSubsetOrdering
    <3>4. Above(x) \in T
      OBVIOUS
    <3> HIDE DEF T, Above
    <3> QED BY <1>4, <2>1, <3>3, <3>4
  <2>3. ASSUME NEW x \in S PROVE m >= x
    BY <1>1, <2>2
  <2> QED BY <2>3
<1>6. Max(S) \in S /\ \A x \in S : Max(S) >= x
  BY <1>5 DEF Max
<1> QED BY <1>1, <1>6

\* The largest number in use is an int, and none in use is above it.
LEMMA LargestIsLargest ==
  /\ Largest \in 0..IntMax
  /\ \A d \in Devices : aliases[d] \in 1..IntMax => aliases[d] <= Largest
<1> DEFINE S == {0} \cup {aliases[d] : d \in {x \in Devices : aliases[x] \in 1..IntMax}}
<1>1. S \in SUBSET (0..IntMax) /\ S # {}
  BY StoreAssumption
<1>2. Max(S) \in S /\ \A x \in S : x <= Max(S)
  <2> HIDE DEF S
  <2> QED BY <1>1, LargestExists
<1> QED BY <1>1, <1>2 DEF Largest

\* Below the largest int, a device that has no alias gets one that no other
\* device has (aliases.go:79-115).
THEOREM AutoAlias == Spec => AutoAliasIsNew
<1> DEFINE New == \A o \in Slots, d \in Devices :
              EnsureAutoAlias(o, d) /\ aliases' # aliases /\ Largest < IntMax =>
                \A x \in Devices \ {d} : aliases[x] # aliases'[d]
<1>1. ASSUME AInv PROVE New
  <2> SUFFICES ASSUME NEW o \in Slots, NEW d \in Devices, NEW x \in Devices \ {d},
                      EnsureAutoAlias(o, d), aliases' # aliases, Largest < IntMax
               PROVE  aliases[x] # aliases'[d]
    OBVIOUS
  <2>1. aliases'[d] = NextAlias
    BY <1>1 DEF AInv, Shape, EnsureAutoAlias, MakeAlias, Put
  <2>2. Largest \in 0..IntMax /\ IntMax \in Nat
    BY LargestIsLargest, StoreAssumption
  <2>3. NextAlias = Largest + 1 /\ Largest + 1 \in 1..IntMax
    BY <2>2 DEF NextAlias
  <2>4. aliases[x] \in 1..IntMax => aliases[x] <= Largest
    BY LargestIsLargest
  <2> QED BY <2>1, <2>2, <2>3, <2>4
<1>2. QED
  BY <1>1, AInvariance, PTL DEF Spec, AutoAliasIsNew

\* Map, file and calls keep their types: in particular the next automatic
\* alias is always one that there is (aliases.go:24-146).
THEOREM StoreTypes == Spec => []TypeOK
<1>1. Init => TypeOK
  <2> SUFFICES ASSUME Init PROVE TypeOK
    OBVIOUS
  <2>1. Empty \in Books
    BY DEF Empty, Books, Alias
  <2>2. {unsaved, lost} \subseteq BOOLEAN
    BY Zenon DEF Init
  <2> QED BY <2>1, <2>2 DEF Init, TypeOK
<1>2. TypeOK /\ [Next]_storeVars => TypeOK'
  <2> SUFFICES ASSUME TypeOK, [Next]_storeVars PROVE TypeOK'
    OBVIOUS
  <2>1. NextAlias \in Alias /\ NoAlias \in Alias /\ Names \cup Numbers \subseteq Alias
    <3>1. Largest \in 0..IntMax /\ IntMax \in Nat /\ Numbers \subseteq 1..IntMax
      BY LargestIsLargest, StoreAssumption
    <3>2. NextAlias \in {Wrapped} \cup 1..IntMax
      BY <3>1 DEF NextAlias
    <3> QED BY <3>1, <3>2 DEF Alias
  <2>2. Empty \in Books
    BY <2>1 DEF Empty, Books
  <2>3. ASSUME NEW o \in Slots, NEW d \in Devices, NEW a \in Alias, Change(o, d, a)
        PROVE  TypeOK'
    BY <2>1, <2>3 DEF TypeOK, Change, Put, Books
  <2>4. ASSUME NEW o \in Slots, NEW d \in Devices, EnsureAutoAlias(o, d)
        PROVE  TypeOK'
    BY <2>1, <2>4 DEF TypeOK, EnsureAutoAlias, MakeAlias, Put, Books
  <2>5. ASSUME NEW o \in Slots, Truncate(o) \/ Write(o) \/ Fail(o)
        PROVE  TypeOK'
    <3>1. {unsaved', lost'} \subseteq BOOLEAN
      BY <2>5, Zenon DEF TypeOK, Truncate, Write, Fail
    <3>2. CASE Truncate(o)
      BY <3>1, <3>2 DEF TypeOK, Truncate
    <3>3. CASE Write(o)
      BY <2>2, <3>1, <3>3 DEF TypeOK, Write, Returns
    <3>4. CASE Fail(o)
      BY <2>2, <3>1, <3>4 DEF TypeOK, Fail, Returns
    <3> QED BY <2>5, <3>2, <3>3, <3>4
  <2>6. CASE Crash \/ Restart
    BY <2>2, <2>6 DEF TypeOK, Crash, Restart
  <2>7. CASE UNCHANGED storeVars
    BY <2>7 DEF TypeOK, storeVars
  <2> QED BY <2>1, <2>3, <2>4, <2>5, <2>6, <2>7 DEF Next, Set, Delete
<1> QED BY <1>1, <1>2, PTL DEF Spec
=============================================================================
