---------------------------- MODULE ServerProofs ----------------------------
(***************************************************************************)
(* Proofs about the two parts of internal/httpapi/server.go.  EventStream, *)
(* and Broadcaster in it, for any number of connections, listeners and     *)
(* streams: who is told of an event, and that clients get events in order. *)
(* HTTPServer, and Startup in it, for any configuration and devices: how   *)
(* the server comes up, and what a request may do.                         *)
(***************************************************************************)
EXTENDS EventStream, HTTPServer, SequenceTheorems, TLAPS

-----------------------------------------------------------------------------
(* Lists without duplicates.                                               *)

\* One more.
LEMMA AppendFacts ==
  ASSUME NEW S, NEW s \in Seq(S), NEW x \in S
  PROVE  /\ Append(s, x) \in Seq(S)
         /\ ToSet(Append(s, x)) = ToSet(s) \cup {x}
         /\ IsInjective(s) /\ x \notin ToSet(s) => IsInjective(Append(s, x))
<1> DEFINE t == Append(s, x)
<1>1. /\ t \in Seq(S) /\ Len(t) = Len(s) + 1 /\ t[Len(s) + 1] = x /\ Len(s) \in Nat
      /\ \A i \in 1..Len(s) : t[i] = s[i]
  OBVIOUS
<1>2. DOMAIN s = 1..Len(s) /\ DOMAIN t = 1..(Len(s) + 1)
  BY <1>1
<1> HIDE DEF t
<1>3. ToSet(t) = ToSet(s) \cup {x}
  <2>1. \A i \in 1..(Len(s) + 1) : i \in 1..Len(s) \/ i = Len(s) + 1
    BY <1>1
  <2>2. Len(s) + 1 \in 1..(Len(s) + 1) /\ 1..Len(s) \subseteq 1..(Len(s) + 1)
    BY <1>1
  <2>3. ToSet(t) \subseteq ToSet(s) \cup {x}
    BY <1>1, <1>2, <2>1 DEF ToSet
  <2>4. ToSet(s) \cup {x} \subseteq ToSet(t)
    BY <1>1, <1>2, <2>2 DEF ToSet
  <2> QED BY <2>3, <2>4
<1>4. ASSUME IsInjective(s), x \notin ToSet(s)
      PROVE  IsInjective(t)
  BY <1>1, <1>2, <1>4 DEF IsInjective, ToSet
<1> QED BY <1>1, <1>3, <1>4 DEF t

\* Two lists in a row.
LEMMA ConcatFacts ==
  ASSUME NEW S, NEW s \in Seq(S), NEW t \in Seq(S)
  PROVE  /\ s \o t \in Seq(S)
         /\ ToSet(s \o t) = ToSet(s) \cup ToSet(t)
         /\ IsInjective(s) /\ IsInjective(t) /\ ToSet(s) \cap ToSet(t) = {} => IsInjective(s \o t)
<1> DEFINE u == s \o t
<1>1. /\ u \in Seq(S) /\ Len(u) = Len(s) + Len(t) /\ Len(s) \in Nat /\ Len(t) \in Nat
      /\ \A i \in 1..(Len(s) + Len(t)) : u[i] = IF i <= Len(s) THEN s[i] ELSE t[i - Len(s)]
  BY ConcatProperties
<1>2. DOMAIN s = 1..Len(s) /\ DOMAIN t = 1..Len(t) /\ DOMAIN u = 1..(Len(s) + Len(t))
  BY <1>1
<1> HIDE DEF u
<1>3. \A i \in DOMAIN u : \/ i \in DOMAIN s /\ u[i] = s[i]
                          \/ i - Len(s) \in DOMAIN t /\ u[i] = t[i - Len(s)] /\ i \notin DOMAIN s
  BY <1>1, <1>2
<1>4. /\ \A i \in DOMAIN s : i \in DOMAIN u /\ u[i] = s[i]
      /\ \A i \in DOMAIN t : i + Len(s) \in DOMAIN u /\ u[i + Len(s)] = t[i]
  BY <1>1, <1>2
<1>5. ToSet(u) = ToSet(s) \cup ToSet(t)
  <2>1. ToSet(u) \subseteq ToSet(s) \cup ToSet(t)
    BY <1>3 DEF ToSet
  <2>2. ToSet(s) \cup ToSet(t) \subseteq ToSet(u)
    BY <1>4 DEF ToSet
  <2> QED BY <2>1, <2>2
<1>6. ASSUME IsInjective(s), IsInjective(t), ToSet(s) \cap ToSet(t) = {}
      PROVE  IsInjective(u)
  <2> SUFFICES ASSUME NEW i \in DOMAIN u, NEW j \in DOMAIN u, u[i] = u[j] PROVE i = j
    BY DEF IsInjective
  <2>1. CASE i \in DOMAIN s /\ j \in DOMAIN s
    BY <1>4, <1>6, <2>1 DEF IsInjective
  <2>2. CASE i \notin DOMAIN s /\ j \notin DOMAIN s
    <3>1. i - Len(s) = j - Len(s)
      BY <1>3, <1>6, <2>2 DEF IsInjective
    <3> QED BY <1>1, <1>2, <3>1
  <2>3. \A x \in DOMAIN s, y \in DOMAIN u \ DOMAIN s : u[x] # u[y]
    <3>1. \A x \in DOMAIN s : u[x] \in ToSet(s)
      BY <1>4 DEF ToSet
    <3>2. \A y \in DOMAIN u \ DOMAIN s : u[y] \in ToSet(t)
      BY <1>3 DEF ToSet
    <3> QED BY <1>6, <3>1, <3>2
  <2> QED BY <2>1, <2>2, <2>3
<1> QED BY <1>1, <1>5, <1>6 DEF u

\* All but the first one.
LEMMA TailFacts ==
  ASSUME NEW S, NEW s \in Seq(S), s # <<>>
  PROVE  /\ Tail(s) \in Seq(S) /\ Len(Tail(s)) = Len(s) - 1 /\ Head(s) = s[1] /\ Head(s) \in S
         /\ \A i \in 1..Len(Tail(s)) : i + 1 \in 1..Len(s) /\ Tail(s)[i] = s[i + 1]
         /\ ToSet(Tail(s)) \subseteq ToSet(s) /\ ToSet(s) \subseteq ToSet(Tail(s)) \cup {Head(s)}
         /\ IsInjective(s) => IsInjective(Tail(s)) /\ Head(s) \notin ToSet(Tail(s))
<1> DEFINE t == Tail(s)
<1>1. /\ t \in Seq(S) /\ Len(t) = Len(s) - 1 /\ Len(s) \in Nat \ {0}
      /\ Head(s) = s[1] /\ Head(s) \in S
      /\ \A i \in 1..Len(t) : i + 1 \in 1..Len(s) /\ t[i] = s[i + 1]
  OBVIOUS
<1>2. DOMAIN s = 1..Len(s) /\ DOMAIN t = 1..Len(t)
  BY <1>1
<1> HIDE DEF t
<1>3. ToSet(t) \subseteq ToSet(s)
  BY <1>1, <1>2 DEF ToSet
<1>4. ToSet(s) \subseteq ToSet(t) \cup {Head(s)}
  <2> SUFFICES ASSUME NEW i \in 1..Len(s) PROVE s[i] = s[1] \/ s[i] \in ToSet(t)
    BY <1>1, <1>2 DEF ToSet
  <2>1. CASE i = 1
    BY <2>1
  <2>2. CASE i # 1
    <3>1. i - 1 \in 1..Len(t) /\ t[i - 1] = s[i]
      BY <1>1, <2>2
    <3> QED BY <1>2, <3>1 DEF ToSet
  <2> QED BY <2>1, <2>2
<1>5. ASSUME IsInjective(s)
      PROVE  IsInjective(t) /\ Head(s) \notin ToSet(t)
  <2>1. \A i, j \in 1..Len(s) : s[i] = s[j] => i = j
    BY <1>2, <1>5 DEF IsInjective
  <2>2. \A i, j \in 1..Len(t) : t[i] = t[j] => i = j
    BY <1>1, <2>1
  <2>3. \A i \in 1..Len(t) : t[i] # s[1]
    BY <1>1, <2>1
  <2> QED BY <1>1, <1>2, <2>2, <2>3 DEF IsInjective, ToSet
<1> QED BY <1>1, <1>3, <1>4, <1>5 DEF t

\* What the removal of the entry at a place leaves.
LEMMA RemoveFacts ==
  ASSUME NEW S, NEW s \in Seq(S), NEW k \in 1..Len(s)
  PROVE  /\ RemoveAt(s, k) \in Seq(S) /\ Len(RemoveAt(s, k)) = Len(s) - 1
         /\ \A i \in 1..(Len(s) - 1) : RemoveAt(s, k)[i] = IF i < k THEN s[i] ELSE s[i + 1]
<1> DEFINE a == SubSeq(s, 1, k - 1)
           b == SubSeq(s, k + 1, Len(s))
<1>1. Len(s) \in Nat /\ k \in Int
  OBVIOUS
<1>2. /\ a \in Seq(S) /\ Len(a) = k - 1
      /\ \A i \in 1..(k - 1) : a[i] = s[i]
  BY <1>1, SubSeqProperties
<1>3. /\ b \in Seq(S) /\ Len(b) = Len(s) - k
      /\ \A i \in 1..(Len(s) - k) : b[i] = s[k + i]
  BY <1>1, SubSeqProperties
<1> HIDE DEF a, b
<1>4. /\ a \o b \in Seq(S) /\ Len(a \o b) = Len(s) - 1
      /\ \A i \in 1..(Len(s) - 1) : (a \o b)[i] = IF i <= k - 1 THEN a[i] ELSE b[i - (k - 1)]
  <2>1. a \o b \in Seq(S) /\ Len(a \o b) = Len(a) + Len(b)
    BY <1>2, <1>3, ConcatProperties
  <2>2. \A i \in 1..(Len(a) + Len(b)) : (a \o b)[i] = IF i <= Len(a) THEN a[i] ELSE b[i - Len(a)]
    BY <1>2, <1>3, ConcatProperties
  <2>3. Len(a) + Len(b) = Len(s) - 1
    BY <1>1, <1>2, <1>3
  <2> QED BY <1>2, <2>1, <2>2, <2>3
<1>5. \A i \in 1..(Len(s) - 1) : (a \o b)[i] = IF i < k THEN s[i] ELSE s[i + 1]
  <2> SUFFICES ASSUME NEW i \in 1..(Len(s) - 1)
               PROVE  (a \o b)[i] = IF i < k THEN s[i] ELSE s[i + 1]
    OBVIOUS
  <2>1. CASE i < k
    BY <1>1, <1>2, <1>4, <2>1
  <2>2. CASE ~(i < k)
    <3>1. i - (k - 1) \in 1..(Len(s) - k) /\ k + (i - (k - 1)) = i + 1 /\ ~(i <= k - 1)
      BY <1>1, <2>2
    <3> QED BY <1>3, <1>4, <2>2, <3>1
  <2> QED BY <2>1, <2>2
<1> QED BY <1>4, <1>5 DEF RemoveAt, a, b

\* All but l, wherever it is.
LEMMA WithoutFacts ==
  ASSUME NEW S, NEW s \in Seq(S), IsInjective(s), NEW l
  PROVE  /\ Without(s, l) \in Seq(S)
         /\ ToSet(Without(s, l)) = ToSet(s) \ {l}
         /\ IsInjective(Without(s, l))
<1>1. DOMAIN s = 1..Len(s) /\ Len(s) \in Nat
  OBVIOUS
<1>2. CASE l \notin ToSet(s)
  BY <1>2 DEF Without
<1>3. CASE l \in ToSet(s)
  <2> DEFINE k == CHOOSE i \in DOMAIN s : s[i] = l
             t == RemoveAt(s, k)
  <2>1. k \in 1..Len(s) /\ s[k] = l
    BY <1>1, <1>3 DEF ToSet
  <2>2. Without(s, l) = t
    BY <1>3 DEF Without
  <2> HIDE DEF k
  <2>3. /\ t \in Seq(S) /\ Len(t) = Len(s) - 1
        /\ \A i \in 1..(Len(s) - 1) : t[i] = IF i < k THEN s[i] ELSE s[i + 1]
    BY <2>1, RemoveFacts
  <2> HIDE DEF t
  <2>4. DOMAIN t = 1..(Len(s) - 1)
    BY <1>1, <2>3
  <2>5. \A i \in 1..Len(s) : s[i] = l => i = k
    BY <1>1, <2>1 DEF IsInjective
  <2>6. IsInjective(t)
    <3>1. \A i, j \in 1..Len(s) : s[i] = s[j] => i = j
      BY <1>1 DEF IsInjective
    <3>2. \A i, j \in 1..(Len(s) - 1) : t[i] = t[j] => i = j
      BY <1>1, <2>1, <2>3, <3>1
    <3> QED BY <2>4, <3>2 DEF IsInjective
  <2>7. ToSet(t) \subseteq ToSet(s) \ {l}
    <3>1. \A i \in 1..(Len(s) - 1) : (IF i < k THEN i ELSE i + 1) \in 1..Len(s) \ {k}
      BY <1>1, <2>1
    <3> QED BY <1>1, <2>3, <2>4, <2>5, <3>1 DEF ToSet
  <2>8. ToSet(s) \ {l} \subseteq ToSet(t)
    <3> SUFFICES ASSUME NEW i \in 1..Len(s), s[i] # l PROVE s[i] \in ToSet(t)
      BY <1>1 DEF ToSet
    <3>1. CASE i < k
      <4>1. i \in 1..(Len(s) - 1) /\ t[i] = s[i]
        BY <1>1, <2>1, <2>3, <3>1
      <4> QED BY <2>4, <4>1 DEF ToSet
    <3>2. CASE i > k
      <4>1. i - 1 \in 1..(Len(s) - 1) /\ ~(i - 1 < k) /\ (i - 1) + 1 = i
        BY <1>1, <2>1, <3>2
      <4>2. t[i - 1] = s[i]
        BY <2>3, <4>1
      <4> QED BY <2>4, <4>1, <4>2 DEF ToSet
    <3> QED BY <1>1, <2>1, <3>1, <3>2
  <2> QED BY <2>2, <2>3, <2>6, <2>7, <2>8
<1> QED BY <1>2, <1>3

-----------------------------------------------------------------------------
(* The lists of listeners.                                                 *)

\* The subscribers for c, for which Conns stands in the case of all.
For(l, c) == \E e \in subscribed : e.to = c /\ e.who = l

\* A list has everybody once who has subscribed for it, and nobody is in two.
ListsOK ==
  /\ \A c \in Conns : IsInjective(listeners[c]) /\ \A l : l \in ToSet(listeners[c]) <=> For(l, c)
  /\ IsInjective(allListeners) /\ \A l : l \in ToSet(allListeners) <=> For(l, Conns)
  /\ \A e, f \in subscribed : e.who = f.who => e = f

BCInv == BCTypeOK /\ ListsOK /\ EveryoneIsTold

\* The new one, l, is in no list, and gets into the one for c.
LEMMA NewFacts ==
  ASSUME BCInv, NEW l, New(l), NEW c,
         subscribed' = subscribed \cup {[to |-> c, who |-> l]}
  PROVE  /\ l \in Listeners
         /\ \A x : ~For(l, x)
         /\ \A m, x : For(m, x)' <=> For(m, x) \/ (m = l /\ x = c)
         /\ \A e, f \in subscribed' : e.who = f.who => e = f
<1>1. l \in Listeners /\ \A e \in subscribed : e.who # l
  BY DEF New
<1>2. \A x : ~For(l, x)
  BY <1>1 DEF For
<1>3. \A m, x : For(m, x)' <=> For(m, x) \/ (m = l /\ x = c)
  <2> DEFINE new == [to |-> c, who |-> l]
  <2>1. new.to = c /\ new.who = l /\ subscribed' = subscribed \cup {new}
    OBVIOUS
  <2> HIDE DEF new
  <2> QED BY <2>1 DEF For
<1>4. \A e, f \in subscribed' : e.who = f.who => e = f
  BY <1>1 DEF BCInv, ListsOK
<1> QED BY <1>1, <1>2, <1>3, <1>4

\* A listener for one device comes.
LEMMA SubscribeKeeps ==
  ASSUME BCInv, NEW l \in Listeners, NEW c \in Conns, Subscribe(l, c)
  PROVE  BCInv'
<1>1. /\ New(l) /\ listeners' = [listeners EXCEPT ![c] = Append(@, l)]
      /\ subscribed' = subscribed \cup {[to |-> c, who |-> l]}
      /\ UNCHANGED <<allListeners, todo, count, spent, owed>>
  BY DEF Subscribe
<1>2. /\ \A x : ~For(l, x)
      /\ \A m, x : For(m, x)' <=> For(m, x) \/ (m = l /\ x = c)
      /\ \A e, f \in subscribed' : e.who = f.who => e = f
  BY <1>1, NewFacts
<1>3. listeners \in [Conns -> Seq(Listeners)] /\ c # Conns
  BY BroadcasterAssumption DEF BCInv, BCTypeOK, BroadcasterAssumption
<1>4. /\ \A x \in Conns \ {c} : listeners'[x] = listeners[x]
      /\ listeners'[c] = Append(listeners[c], l)
  BY <1>1, <1>3
<1>5. /\ listeners'[c] \in Seq(Listeners)
      /\ ToSet(listeners'[c]) = ToSet(listeners[c]) \cup {l}
      /\ IsInjective(listeners'[c])
  <2>1. IsInjective(listeners[c]) /\ l \notin ToSet(listeners[c])
    BY <1>2 DEF BCInv, ListsOK
  <2> QED BY <1>3, <1>4, <2>1, AppendFacts
<1>6. BCTypeOK'
  <2>1. listeners' \in [Conns -> Seq(Listeners)]
    BY <1>1, <1>3, <1>5
  <2>2. subscribed' \subseteq Everything
    BY <1>1 DEF BCInv, BCTypeOK, Everything
  <2> QED BY <1>1, <2>1, <2>2 DEF BCInv, BCTypeOK
<1>7. ListsOK'
  <2>1. ASSUME NEW x \in Conns
        PROVE  IsInjective(listeners'[x]) /\ \A m : m \in ToSet(listeners'[x]) <=> For(m, x)'
    <3>1. CASE x = c
      BY <1>2, <1>5, <3>1 DEF BCInv, ListsOK
    <3>2. CASE x # c
      BY <1>2, <1>4, <3>2 DEF BCInv, ListsOK
    <3> QED BY <3>1, <3>2
  <2>2. IsInjective(allListeners') /\ \A m : m \in ToSet(allListeners') <=> For(m, Conns)'
    BY <1>1, <1>2, <1>3 DEF BCInv, ListsOK
  <2> QED BY <1>2, <2>1, <2>2 DEF ListsOK
<1>8. EveryoneIsTold'
  BY <1>1 DEF BCInv, EveryoneIsTold
<1> QED BY <1>6, <1>7, <1>8 DEF BCInv

\* A listener for all devices comes.
LEMMA SubscribeAllKeeps ==
  ASSUME BCInv, NEW l \in Listeners, SubscribeAll(l)
  PROVE  BCInv'
<1> DEFINE S == Listeners \cup {Streaming}
<1>1. /\ New(l) /\ allListeners' = Append(allListeners, l)
      /\ subscribed' = subscribed \cup {[to |-> Conns, who |-> l]}
      /\ UNCHANGED <<listeners, todo, count, spent, owed>>
  BY DEF SubscribeAll
<1>2. /\ \A x : ~For(l, x)
      /\ \A m, x : For(m, x)' <=> For(m, x) \/ (m = l /\ x = Conns)
      /\ \A e, f \in subscribed' : e.who = f.who => e = f
  BY <1>1, NewFacts
<1>3. allListeners \in Seq(S) /\ \A x \in Conns : x # Conns
  BY BroadcasterAssumption DEF BCInv, BCTypeOK, BroadcasterAssumption
<1>4. /\ allListeners' \in Seq(S)
      /\ ToSet(allListeners') = ToSet(allListeners) \cup {l}
      /\ IsInjective(allListeners')
  <2>1. IsInjective(allListeners) /\ l \notin ToSet(allListeners) /\ l \in S
    BY <1>2 DEF BCInv, ListsOK
  <2> QED BY <1>1, <1>3, <2>1, AppendFacts
<1>5. BCTypeOK'
  <2>1. subscribed' \subseteq Everything
    BY <1>1 DEF BCInv, BCTypeOK, Everything
  <2> QED BY <1>1, <1>4, <2>1 DEF BCInv, BCTypeOK
<1>6. ListsOK'
  <2>1. \A x \in Conns : IsInjective(listeners'[x]) /\ \A m : m \in ToSet(listeners'[x]) <=> For(m, x)'
    BY <1>1, <1>2, <1>3 DEF BCInv, ListsOK
  <2>2. \A m : m \in ToSet(allListeners') <=> For(m, Conns)'
    BY <1>2, <1>4 DEF BCInv, ListsOK
  <2> QED BY <1>2, <1>4, <2>1, <2>2 DEF ListsOK
<1>7. EveryoneIsTold'
  BY <1>1 DEF BCInv, EveryoneIsTold
<1> QED BY <1>5, <1>6, <1>7 DEF BCInv

\* A listener goes, from the list that it is in.
LEMMA UnsubscribeKeeps ==
  ASSUME BCInv, NEW l \in Listeners, Unsubscribe(l)
  PROVE  BCInv'
<1> DEFINE S == Listeners \cup {Streaming}
<1>1. /\ listeners' = [c \in Conns |-> Without(listeners[c], l)]
      /\ allListeners' = Without(allListeners, l)
      /\ subscribed' = {e \in subscribed : e.who # l} /\ spent' = spent \cup {l}
      /\ UNCHANGED <<todo, count, owed>>
  BY DEF Unsubscribe
<1>2. listeners \in [Conns -> Seq(Listeners)] /\ allListeners \in Seq(S)
  BY DEF BCInv, BCTypeOK
<1>3. \A m, x : For(m, x)' <=> For(m, x) /\ m # l
  BY <1>1 DEF For
<1>4. ASSUME NEW x \in Conns
      PROVE  /\ listeners'[x] \in Seq(Listeners)
             /\ IsInjective(listeners'[x]) /\ \A m : m \in ToSet(listeners'[x]) <=> For(m, x)'
  <2>1. listeners[x] \in Seq(Listeners) /\ IsInjective(listeners[x])
    BY <1>2 DEF BCInv, ListsOK
  <2>2. listeners'[x] = Without(listeners[x], l)
    BY <1>1
  <2>3. /\ listeners'[x] \in Seq(Listeners) /\ IsInjective(listeners'[x])
        /\ ToSet(listeners'[x]) = ToSet(listeners[x]) \ {l}
    BY <2>1, <2>2, WithoutFacts
  <2> QED BY <1>3, <2>3 DEF BCInv, ListsOK
<1>5. /\ allListeners' \in Seq(S) /\ IsInjective(allListeners')
      /\ \A m : m \in ToSet(allListeners') <=> For(m, Conns)'
  <2>1. IsInjective(allListeners)
    BY DEF BCInv, ListsOK
  <2>2. /\ allListeners' \in Seq(S) /\ IsInjective(allListeners')
        /\ ToSet(allListeners') = ToSet(allListeners) \ {l}
    BY <1>1, <1>2, <2>1, WithoutFacts
  <2> QED BY <1>3, <2>2 DEF BCInv, ListsOK
<1>6. BCTypeOK'
  <2>1. listeners' \in [Conns -> Seq(Listeners)]
    BY <1>1, <1>4
  <2>2. spent' \subseteq Listeners /\ subscribed' \subseteq Everything
    BY <1>1 DEF BCInv, BCTypeOK
  <2> QED BY <1>1, <1>5, <2>1, <2>2 DEF BCInv, BCTypeOK
<1>7. ListsOK'
  <2>1. \A e, f \in subscribed' : e.who = f.who => e = f
    BY <1>1 DEF BCInv, ListsOK
  <2> QED BY <1>4, <1>5, <2>1 DEF ListsOK
<1>8. EveryoneIsTold'
  BY <1>1 DEF BCInv, EveryoneIsTold
<1> QED BY <1>6, <1>7, <1>8 DEF BCInv

\* The copy of the lists has all subscribers, each once.
LEMMA EmitKeeps ==
  ASSUME BCInv, NEW c \in Conns, Emit(c)
  PROVE  BCInv'
<1> DEFINE S == Listeners \cup {Streaming}
           copy == listeners[c] \o allListeners
<1>1. /\ count[c] < MaxEvents /\ count' = [count EXCEPT ![c] = @ + 1]
      /\ todo' = [todo EXCEPT ![c] = copy]
      /\ owed' = [owed EXCEPT ![c] = {e.who : e \in {s \in subscribed : s.to \in {c, Conns}}}]
      /\ UNCHANGED <<listeners, allListeners, subscribed, spent>>
  BY DEF Emit
<1>2. /\ listeners[c] \in Seq(S) /\ allListeners \in Seq(S) /\ c # Conns
      /\ todo \in [Conns -> Seq(S)] /\ owed \in [Conns -> SUBSET S]
      /\ count \in [Conns -> 0..MaxEvents]
  <2>1. Seq(Listeners) \subseteq Seq(S)
    BY SeqMonotonic
  <2> QED BY <2>1, BroadcasterAssumption DEF BCInv, BCTypeOK, BroadcasterAssumption
<1>3. ToSet(listeners[c]) \cap ToSet(allListeners) = {}
  <2> SUFFICES ASSUME NEW l, For(l, c), For(l, Conns) PROVE FALSE
    BY DEF BCInv, ListsOK
  <2>1. PICK e \in subscribed : e.to = c /\ e.who = l
    BY DEF For
  <2>2. PICK f \in subscribed : f.to = Conns /\ f.who = l
    BY DEF For
  <2>3. e = f
    BY <2>1, <2>2 DEF BCInv, ListsOK
  <2> QED BY <1>2, <2>1, <2>2, <2>3
<1>4. /\ copy \in Seq(S) /\ IsInjective(copy)
      /\ ToSet(copy) = ToSet(listeners[c]) \cup ToSet(allListeners)
  BY <1>2, <1>3, ConcatFacts DEF BCInv, ListsOK
<1>5. ToSet(copy) = {e.who : e \in {s \in subscribed : s.to \in {c, Conns}}}
  <2>1. \A l : l \in ToSet(copy) <=> For(l, c) \/ For(l, Conns)
    BY <1>4 DEF BCInv, ListsOK
  <2> HIDE DEF copy
  <2> QED BY <2>1 DEF For
<1> HIDE DEF copy
<1>6. /\ \A x \in Conns \ {c} : todo'[x] = todo[x] /\ owed'[x] = owed[x]
      /\ todo'[c] = copy /\ owed'[c] = ToSet(copy)
  BY <1>1, <1>2, <1>5
<1>7. EveryoneIsTold'
  BY <1>4, <1>6 DEF BCInv, EveryoneIsTold
<1>8. BCTypeOK'
  <2>1. ToSet(copy) \subseteq S
    BY <1>4 DEF ToSet
  <2>2. owed' \in [Conns -> SUBSET S]
    BY <1>1, <1>2, <1>5, <2>1
  <2>3. todo' \in [Conns -> Seq(S)]
    BY <1>1, <1>2, <1>4
  <2>4. count' \in [Conns -> 0..MaxEvents]
    BY <1>1, <1>2, BroadcasterAssumption DEF BroadcasterAssumption
  <2> QED BY <1>1, <2>2, <2>3, <2>4 DEF BCInv, BCTypeOK
<1>9. ListsOK'
  BY <1>1 DEF BCInv, ListsOK, For
<1> QED BY <1>7, <1>8, <1>9 DEF BCInv

\* The next listener of the copy is called.
LEMMA CallKeeps ==
  ASSUME BCInv, NEW c \in Conns, Call(c)
  PROVE  BCInv'
<1> DEFINE S == Listeners \cup {Streaming}
<1>1. /\ todo[c] # <<>> /\ todo' = [todo EXCEPT ![c] = Tail(@)]
      /\ owed' = [owed EXCEPT ![c] = @ \ {Head(todo[c])}]
      /\ UNCHANGED <<listeners, allListeners, count, subscribed, spent>>
  BY DEF Call
<1>2. todo \in [Conns -> Seq(S)] /\ owed \in [Conns -> SUBSET S]
  BY DEF BCInv, BCTypeOK
<1>3. /\ todo'[c] = Tail(todo[c]) /\ owed'[c] = owed[c] \ {Head(todo[c])}
      /\ \A x \in Conns \ {c} : todo'[x] = todo[x] /\ owed'[x] = owed[x]
  BY <1>1, <1>2
<1>4. todo[c] \in Seq(S)
  BY <1>2
<1>5. /\ Tail(todo[c]) \in Seq(S) /\ IsInjective(Tail(todo[c]))
      /\ ToSet(Tail(todo[c])) = ToSet(todo[c]) \ {Head(todo[c])}
  <2>1. IsInjective(todo[c])
    BY DEF BCInv, EveryoneIsTold
  <2> QED BY <1>1, <1>4, <2>1, TailFacts
<1>6. EveryoneIsTold'
  BY <1>3, <1>5 DEF BCInv, EveryoneIsTold
<1>7. BCTypeOK'
  <2>1. todo' \in [Conns -> Seq(S)] /\ owed' \in [Conns -> SUBSET S]
    BY <1>1, <1>2, <1>5
  <2> QED BY <1>1, <2>1 DEF BCInv, BCTypeOK
<1>8. ListsOK'
  BY <1>1 DEF BCInv, ListsOK, For
<1> QED BY <1>6, <1>7, <1>8 DEF BCInv

\* A step of somebody else.
LEMMA BCStutter == ASSUME BCInv, UNCHANGED bcVars PROVE BCInv'
BY DEF bcVars, BCInv, BCTypeOK, ListsOK, For, EveryoneIsTold

\* Nobody listens yet.
LEMMA BCInitial == ASSUME BCInit PROVE BCInv
<1> USE DEF BCInit
<1>1. BCTypeOK
  <2>1. <<>> \in Seq(Listeners) /\ <<>> \in Seq(Listeners \cup {Streaming})
    OBVIOUS
  <2>2. <<Streaming>> \in Seq(Listeners \cup {Streaming})
    OBVIOUS
  <2>3. count \in [Conns -> 0..MaxEvents]
    BY BroadcasterAssumption DEF BroadcasterAssumption
  <2> QED BY <2>1, <2>2, <2>3 DEF BCTypeOK, Everything
<1>2. ToSet(<<>>) = {} /\ IsInjective(<<>>)
  BY DEF ToSet, IsInjective
<1>3. ToSet(<<Streaming>>) = {Streaming} /\ IsInjective(<<Streaming>>)
  BY DEF ToSet, IsInjective
<1>4. ListsOK
  BY <1>2, <1>3, BroadcasterAssumption DEF ListsOK, For, BroadcasterAssumption
<1>5. EveryoneIsTold
  BY <1>2 DEF EveryoneIsTold
<1> QED BY <1>1, <1>4, <1>5 DEF BCInv

-----------------------------------------------------------------------------
(* The streams.                                                            *)

\* Whether the last event of c is still to be offered to s.
Due(c, s) == s \in batch[c] \/ Streaming \in ToSet(todo[c])

CountsOK ==
  \A c \in Conns, s \in Streams : \A i \in Places(c, s) :
    /\ Number(c, s, i) <= count[c]
    /\ Due(c, s) => Number(c, s, i) < count[c]

\* The listener of the streams is called once for an event.
CalledOnce == \A c \in Conns : batch[c] # {} => Streaming \notin ToSet(todo[c])

ESInv ==
  /\ BCInv /\ TypeOK /\ CalledOnce /\ CountsOK /\ OrderKept
  /\ streams \cap ended = {}

\* Numbers are numbers.
LEMMA NumberType ==
  ASSUME TypeOK, NEW c \in Conns, NEW s \in Streams
  PROVE  /\ count[c] \in Nat /\ written[s][c] \in Nat /\ queue[s] \in Seq(Event)
         /\ DOMAIN queue[s] = 1..Len(queue[s]) /\ Len(queue[s]) \in Nat
         /\ \A i \in Places(c, s) : i \in Nat /\ Number(c, s, i) \in Nat
<1>1. /\ count[c] \in 0..MaxEvents /\ written[s][c] \in 0..MaxEvents /\ queue[s] \in Seq(Event)
      /\ MaxEvents \in Nat
  BY BroadcasterAssumption DEF TypeOK, BCTypeOK, BroadcasterAssumption
<1>2. DOMAIN queue[s] = 1..Len(queue[s]) /\ Len(queue[s]) \in Nat
  BY <1>1
<1>3. \A i \in 1..Len(queue[s]) : queue[s][i].n \in Nat
  <2>1. \A i \in 1..Len(queue[s]) : queue[s][i] \in Event
    BY <1>1
  <2>2. \A e \in Event : e.n \in Nat
    BY <1>1 DEF Event
  <2> QED BY <2>1, <2>2
<1> QED BY <1>1, <1>2, <1>3 DEF Places, Number

\* What does not change the order and the numbers.
LEMMA SameQueues ==
  ASSUME CountsOK, OrderKept, UNCHANGED <<count, queue, written>>,
         \A c \in Conns, s \in Streams : Due(c, s)' => Due(c, s)
  PROVE  CountsOK' /\ OrderKept'
<1>1. \A c, s : Places(c, s)' = Places(c, s) /\ \A i : Number(c, s, i)' = Number(c, s, i)
  BY DEF Places, Number
<1>2. CountsOK'
  BY <1>1 DEF CountsOK
<1>3. OrderKept'
  BY <1>1 DEF OrderKept
<1> QED BY <1>2, <1>3

\* A handler reads an event, which is newer than all that wait.
LEMMA ReadEventKeeps ==
  ASSUME ESInv, NEW c \in Conns, ReadEvent(c)
  PROVE  ESInv'
<1>1. /\ Emit(c) /\ batch[c] = {} /\ UNCHANGED <<gone, batch, streams, ended, queue, written>>
      /\ count' = [count EXCEPT ![c] = @ + 1]
      /\ \A x \in Conns \ {c} : todo'[x] = todo[x]
  BY DEF ReadEvent, Reading, Emit, stVars, ESInv, BCInv, BCTypeOK
<1>2. BCInv'
  BY <1>1, EmitKeeps DEF ESInv
<1>3. TypeOK'
  BY <1>1, <1>2 DEF ESInv, TypeOK, BCInv
<1>4. CalledOnce'
  BY <1>1 DEF ESInv, CalledOnce
<1>5. \A x, s : Places(x, s)' = Places(x, s) /\ \A i : Number(x, s, i)' = Number(x, s, i)
  BY <1>1 DEF Places, Number
<1>6. \A x \in Conns : count'[x] = IF x = c THEN count[c] + 1 ELSE count[x]
  BY <1>1 DEF ESInv, BCInv, BCTypeOK
<1>7. CountsOK'
  <2> SUFFICES ASSUME NEW x \in Conns, NEW s \in Streams, NEW i \in Places(x, s)
               PROVE  /\ Number(x, s, i) <= count'[x]
                      /\ Due(x, s)' => Number(x, s, i) < count'[x]
    BY <1>5 DEF CountsOK
  <2>1. Number(x, s, i) \in Nat /\ count[x] \in Nat
    BY NumberType DEF ESInv
  <2>2. Number(x, s, i) <= count[x] /\ (Due(x, s) => Number(x, s, i) < count[x])
    BY DEF ESInv, CountsOK
  <2>3. CASE x = c
    BY <1>6, <2>1, <2>2, <2>3
  <2>4. CASE x # c
    <3>1. count'[x] = count[x] /\ (Due(x, s)' => Due(x, s))
      BY <1>1, <1>6, <2>4 DEF Due
    <3> QED BY <2>2, <3>1
  <2> QED BY <2>3, <2>4
<1>8. OrderKept'
  BY <1>5 DEF ESInv, OrderKept
<1>9. (streams \cap ended = {})'
  BY <1>1 DEF ESInv
<1> QED BY <1>2, <1>3, <1>4, <1>7, <1>8, <1>9 DEF ESInv

\* The streams take the place of their listener.
LEMMA CallListenerKeeps ==
  ASSUME ESInv, NEW c \in Conns, CallListener(c)
  PROVE  ESInv'
<1>1. /\ Call(c) /\ batch[c] = {} /\ todo[c] # <<>> /\ UNCHANGED <<gone, streams, ended, queue, written, count>>
      /\ batch' = IF Head(todo[c]) = Streaming THEN [batch EXCEPT ![c] = streams] ELSE batch
      /\ todo' = [todo EXCEPT ![c] = Tail(@)]
  BY DEF CallListener, Call, stVars
<1>2. BCInv'
  BY <1>1, CallKeeps DEF ESInv
<1>3. /\ todo[c] \in Seq(Listeners \cup {Streaming}) /\ IsInjective(todo[c])
      /\ \A x \in Conns : todo'[x] = IF x = c THEN Tail(todo[c]) ELSE todo[x]
      /\ batch \in [Conns -> SUBSET Streams] /\ streams \subseteq Streams
  BY <1>1 DEF ESInv, TypeOK, BCInv, BCTypeOK, EveryoneIsTold
<1>4. /\ ToSet(Tail(todo[c])) \subseteq ToSet(todo[c])
      /\ Head(todo[c]) \notin ToSet(Tail(todo[c]))
      /\ Head(todo[c]) \in ToSet(todo[c])
  <2>1. /\ ToSet(Tail(todo[c])) \subseteq ToSet(todo[c])
        /\ Head(todo[c]) \notin ToSet(Tail(todo[c]))
    BY <1>1, <1>3, TailFacts
  <2>2. Head(todo[c]) = todo[c][1] /\ 1 \in DOMAIN todo[c]
    BY <1>1, <1>3
  <2> QED BY <2>1, <2>2 DEF ToSet
<1>5. batch' \in [Conns -> SUBSET Streams] /\ \A x \in Conns \ {c} : batch'[x] = batch[x]
  BY <1>1, <1>3
<1>6. TypeOK'
  BY <1>1, <1>2, <1>5 DEF ESInv, TypeOK, BCInv
<1>7. batch'[c] # {} => Head(todo[c]) = Streaming
  BY <1>1
<1>8. CalledOnce'
  BY <1>3, <1>4, <1>5, <1>7 DEF ESInv, CalledOnce
<1>9. \A x \in Conns, s \in Streams : Due(x, s)' => Due(x, s)
  BY <1>3, <1>4, <1>5, <1>7 DEF Due
<1>10. CountsOK' /\ OrderKept'
  BY <1>1, <1>9, SameQueues DEF ESInv
<1>11. (streams \cap ended = {})'
  BY <1>1 DEF ESInv
<1> QED BY <1>2, <1>6, <1>8, <1>10, <1>11 DEF ESInv

\* The event is newer than all that the stream has, and is offered once.
LEMMA OfferKeeps ==
  ASSUME ESInv, NEW c \in Conns, NEW s \in Streams, Offer(c, s)
  PROVE  ESInv'
<1> DEFINE e == [from |-> c, n |-> count[c]]
<1>1. /\ s \in batch[c] /\ batch' = [batch EXCEPT ![c] = @ \ {s}]
      /\ queue' = [queue EXCEPT ![s] = IF Len(@) < Cap THEN Append(@, e) ELSE @]
      /\ UNCHANGED <<gone, streams, ended, written, todo, count>>
  BY DEF Offer, bcVars
<1>2. BCInv'
  BY BCStutter DEF ESInv, Offer
<1>3. /\ batch \in [Conns -> SUBSET Streams] /\ queue \in [Streams -> Seq(Event)]
      /\ queue[s] \in Seq(Event) /\ Len(queue[s]) \in Nat /\ Len(queue[s]) <= Cap
  BY DEF ESInv, TypeOK
<1>4. \A x \in Conns : batch'[x] = IF x = c THEN batch[c] \ {s} ELSE batch[x]
  BY <1>1, <1>3
<1>5. /\ \A y \in Streams \ {s} : queue'[y] = queue[y]
      /\ queue'[s] = IF Len(queue[s]) < Cap THEN Append(queue[s], e) ELSE queue[s]
  BY <1>1, <1>3
<1>6. e \in Event /\ \A i \in Places(c, s) : Number(c, s, i) < count[c]
  <2>1. Due(c, s)
    BY <1>1 DEF Due
  <2>2. \A i \in Places(c, s) : Number(c, s, i) < count[c]
    BY <2>1 DEF ESInv, CountsOK
  <2>3. 0 \in Places(c, s)
    BY DEF Places
  <2>4. Number(c, s, 0) \in Nat
    BY <2>3, NumberType DEF ESInv
  <2>5. count[c] \in 1..MaxEvents
    BY <2>2, <2>3, <2>4, BroadcasterAssumption DEF ESInv, TypeOK, BCTypeOK, BroadcasterAssumption
  <2> QED BY <2>2, <2>5 DEF Event
<1>7. TypeOK'
  <2>1. /\ queue'[s] \in Seq(Event) /\ Len(queue'[s]) <= Cap
    BY <1>3, <1>5, <1>6, StreamAssumption DEF StreamAssumption
  <2>2. queue' \in [Streams -> Seq(Event)] /\ \A y \in Streams : Len(queue'[y]) <= Cap
    BY <1>1, <1>3, <1>5, <2>1 DEF ESInv, TypeOK
  <2>3. batch' \in [Conns -> SUBSET Streams]
    BY <1>1, <1>3
  <2> QED BY <1>1, <1>2, <2>2, <2>3 DEF ESInv, TypeOK, BCInv
<1>8. CalledOnce' /\ ~Due(c, s)'
  BY <1>1, <1>4 DEF ESInv, CalledOnce, Due
<1>9. \A x \in Conns, y \in Streams : Due(x, y)' => Due(x, y)
  BY <1>1, <1>4 DEF Due
\* The new place, if there is one.
<1>10. \A x \in Conns, y \in Streams :
         /\ \A i \in Places(x, y)' :
              \/ i \in Places(x, y) /\ Number(x, y, i)' = Number(x, y, i)
              \/ x = c /\ y = s /\ i = Len(queue[s]) + 1 /\ Number(x, y, i)' = count[c]
  <2> SUFFICES ASSUME NEW x \in Conns, NEW y \in Streams, NEW i \in Places(x, y)'
               PROVE  \/ i \in Places(x, y) /\ Number(x, y, i)' = Number(x, y, i)
                      \/ x = c /\ y = s /\ i = Len(queue[s]) + 1 /\ Number(x, y, i)' = count[c]
    OBVIOUS
  <2>1. CASE queue'[y] = queue[y]
    BY <1>1, <2>1 DEF Places, Number
  <2>2. CASE y = s /\ queue'[s] = Append(queue[s], e)
    <3> DEFINE q == queue[s]
    <3>1. /\ DOMAIN q = 1..Len(q) /\ DOMAIN queue'[s] = 1..(Len(q) + 1)
          /\ queue'[s][Len(q) + 1] = e /\ \A j \in 1..Len(q) : queue'[s][j] = q[j]
      BY <1>3, <2>2
    <3>2. i = 0 \/ (i \in 1..(Len(q) + 1) /\ queue'[s][i].from = x)
      BY <2>2, <3>1 DEF Places
    <3>3. CASE i = 0
      BY <1>1, <3>3 DEF Places, Number
    <3>4. CASE i \in 1..Len(q)
      <4>1. i # 0 /\ queue'[s][i] = q[i]
        BY <1>3, <3>1, <3>4
      <4> QED BY <2>2, <3>1, <3>2, <3>4, <4>1 DEF Places, Number
    <3>5. CASE i = Len(q) + 1
      <4>1. i # 0 /\ queue'[s][i] = e
        BY <1>3, <3>1, <3>5
      <4> QED BY <2>2, <3>2, <3>5, <4>1 DEF Number
    <3> QED BY <1>3, <3>2, <3>3, <3>4, <3>5
  <2> QED BY <1>5, <2>1, <2>2
<1>11. CountsOK'
  <2> SUFFICES ASSUME NEW x \in Conns, NEW y \in Streams, NEW i \in Places(x, y)'
               PROVE  /\ Number(x, y, i)' <= count[x]
                      /\ Due(x, y)' => Number(x, y, i)' < count[x]
    BY <1>1 DEF CountsOK
  <2>1. CASE i \in Places(x, y) /\ Number(x, y, i)' = Number(x, y, i)
    BY <1>9, <2>1 DEF ESInv, CountsOK
  <2>2. CASE x = c /\ y = s /\ Number(x, y, i)' = count[c]
    <3>1. count[c] \in Nat
      BY NumberType DEF ESInv
    <3> QED BY <1>8, <2>2, <3>1
  <2> QED BY <1>10, <2>1, <2>2
<1>12. OrderKept'
  <2> SUFFICES ASSUME NEW x \in Conns, NEW y \in Streams, NEW i \in Places(x, y)', NEW j \in Places(x, y)',
                      i < j
               PROVE  Number(x, y, i)' < Number(x, y, j)'
    BY DEF OrderKept
  <2>1. CASE i \in Places(x, y) /\ Number(x, y, i)' = Number(x, y, i)
    <3>1. CASE j \in Places(x, y) /\ Number(x, y, j)' = Number(x, y, j)
      BY <2>1, <3>1 DEF ESInv, OrderKept
    <3>2. CASE x = c /\ y = s /\ Number(x, y, j)' = count[c]
      BY <1>6, <2>1, <3>2
    <3> QED BY <1>10, <3>1, <3>2
  <2>2. CASE x = c /\ y = s /\ i = Len(queue[s]) + 1
    <3>1. \A k \in Places(x, y)' : k \in Nat /\ k <= Len(queue[s]) + 1
      <4>1. \A k \in Places(x, y) : k = 0 \/ k \in 1..Len(queue[s])
        BY <1>3, <2>2 DEF Places
      <4> QED BY <1>3, <1>10, <4>1
    <3> QED BY <1>3, <2>2, <3>1
  <2> QED BY <1>10, <2>1, <2>2
<1>13. (streams \cap ended = {})'
  BY <1>1 DEF ESInv
<1> QED BY <1>2, <1>7, <1>8, <1>11, <1>12, <1>13 DEF ESInv

\* When the first event of a channel goes, the others move up; what the client
\* has been sent last stays, or is that event.
LEMMA ShiftKeeps ==
  ASSUME ESInv, NEW s \in Streams, queue[s] # <<>>,
         queue' = [queue EXCEPT ![s] = Tail(@)],
         \/ written' = written
         \/ written' = [written EXCEPT ![s][Head(queue[s]).from] = Head(queue[s]).n],
         UNCHANGED <<bcVars, batch, gone>>
  PROVE  BCInv' /\ CountsOK' /\ OrderKept' /\ CalledOnce'
         /\ queue' \in [Streams -> Seq(Event)] /\ (\A y \in Streams : Len(queue'[y]) <= Cap)
         /\ written' \in [Streams -> [Conns -> 0..MaxEvents]]
<1> DEFINE q == queue[s]
           h == Head(q)
<1>1. /\ queue \in [Streams -> Seq(Event)] /\ written \in [Streams -> [Conns -> 0..MaxEvents]]
      /\ q \in Seq(Event) /\ Len(q) <= Cap
  BY DEF ESInv, TypeOK
<1>2. /\ queue'[s] \in Seq(Event) /\ Len(queue'[s]) = Len(q) - 1 /\ h = q[1] /\ h \in Event
      /\ \A i \in 1..Len(queue'[s]) : i + 1 \in 1..Len(q) /\ queue'[s][i] = q[i + 1]
  <2>1. queue'[s] = Tail(q)
    BY <1>1
  <2> QED BY <1>1, <2>1, TailFacts
<1>3. \A y \in Streams \ {s} : queue'[y] = queue[y] /\ written'[y] = written[y]
  BY <1>1
<1>4. h.from \in Conns /\ h.n \in 1..MaxEvents
  BY <1>2 DEF Event
<1>5. /\ \A x \in Conns : written'[s][x] = written[s][x] \/ (x = h.from /\ written'[s][x] = h.n)
      /\ written' \in [Streams -> [Conns -> 0..MaxEvents]]
  <2> HIDE DEF h
  <2>1. CASE written' = written
    BY <1>1, <2>1
  <2>2. CASE written' = [written EXCEPT ![s][h.from] = h.n]
    <3>1. h.n \in 0..MaxEvents
      BY <1>4, BroadcasterAssumption DEF BroadcasterAssumption
    <3> QED BY <1>1, <1>4, <2>2, <3>1
  <2> QED BY <2>1, <2>2 DEF h
<1>6. Len(q) \in Nat \ {0} /\ DOMAIN q = 1..Len(q) /\ DOMAIN queue'[s] = 1..Len(queue'[s])
  BY <1>1, <1>2
<1> HIDE DEF q, h
\* Where an event, or the last one that has been sent, was before.
<1>7. \A x \in Conns : \A i \in Places(x, s)' : \E k \in Places(x, s) :
        /\ i = 0 => k \in {0, 1}
        /\ i # 0 => k = i + 1
        /\ i \in Nat
        /\ Number(x, s, i)' = Number(x, s, k)
  <2> SUFFICES ASSUME NEW x \in Conns, NEW i \in Places(x, s)'
               PROVE  \E k \in Places(x, s) :
                        /\ i = 0 => k \in {0, 1}
                        /\ i # 0 => k = i + 1
                        /\ i \in Nat
                        /\ Number(x, s, i)' = Number(x, s, k)
    OBVIOUS
  <2>1. CASE i = 0 /\ written'[s][x] = written[s][x]
    <3>1. 0 \in Places(x, s) /\ Number(x, s, i)' = Number(x, s, 0)
      BY <2>1 DEF Places, Number
    <3> QED BY <2>1, <3>1
  <2>2. CASE i = 0 /\ x = h.from /\ written'[s][x] = h.n
    <3>1. 1 \in Places(x, s)
      BY <1>2, <1>6, <2>2 DEF Places, q
    <3>2. Number(x, s, i)' = Number(x, s, 1)
      BY <1>2, <2>2 DEF Number, q
    <3> QED BY <2>2, <3>1, <3>2
  <2>3. CASE i # 0
    <3>1. i \in 1..Len(queue'[s]) /\ queue'[s][i].from = x
      BY <1>6, <2>3 DEF Places
    <3>2. i + 1 \in 1..Len(q) /\ queue'[s][i] = q[i + 1] /\ i \in Nat /\ i + 1 # 0
      <4>1. i + 1 \in 1..Len(q) /\ queue'[s][i] = q[i + 1]
        BY <1>2, <3>1
      <4>2. Len(queue'[s]) \in Int
        BY <1>2, LenProperties
      <4>3. i \in Nat /\ i + 1 # 0
        <5> DEFINE n == Len(queue'[s])
        <5>1. n \in Int /\ i \in 1..n
          BY <3>1, <4>2
        <5> HIDE DEF n
        <5> QED BY ONLY <5>1
      <4> QED BY <4>1, <4>3
    <3>3. i + 1 \in Places(x, s)
      BY <1>6, <3>1, <3>2 DEF Places, q
    <3>4. Number(x, s, i)' = Number(x, s, i + 1)
      BY <2>3, <3>2 DEF Number, q
    <3> QED BY <2>3, <3>2, <3>3, <3>4
  <2> QED BY <1>5, <2>1, <2>2, <2>3
<1>8. \A x \in Conns, y \in Streams \ {s} :
        Places(x, y)' = Places(x, y) /\ \A i : Number(x, y, i)' = Number(x, y, i)
  BY <1>3 DEF Places, Number
<1>9. UNCHANGED <<todo, count>>
  BY DEF bcVars
<1>10. CountsOK'
  <2> SUFFICES ASSUME NEW x \in Conns, NEW y \in Streams, NEW i \in Places(x, y)'
               PROVE  /\ Number(x, y, i)' <= count[x]
                      /\ Due(x, y)' => Number(x, y, i)' < count[x]
    BY <1>9 DEF CountsOK
  <2>1. PICK k \in Places(x, y) : Number(x, y, i)' = Number(x, y, k)
    BY <1>7, <1>8
  <2>2. Due(x, y)' <=> Due(x, y)
    BY <1>9 DEF Due
  <2> QED BY <2>1, <2>2 DEF ESInv, CountsOK
<1>11. OrderKept'
  <2> SUFFICES ASSUME NEW x \in Conns, NEW y \in Streams, NEW i \in Places(x, y)', NEW j \in Places(x, y)',
                      i < j
               PROVE  Number(x, y, i)' < Number(x, y, j)'
    BY DEF OrderKept
  <2>1. CASE y # s
    BY <1>8, <2>1 DEF ESInv, OrderKept
  <2>2. CASE y = s
    <3>1. PICK k \in Places(x, s) : /\ i = 0 => k \in {0, 1}
                                    /\ i # 0 => k = i + 1
                                    /\ i \in Nat /\ Number(x, s, i)' = Number(x, s, k)
      BY <1>7, <2>2
    <3>2. PICK l \in Places(x, s) : /\ j # 0 => l = j + 1
                                    /\ j \in Nat /\ Number(x, s, j)' = Number(x, s, l)
      BY <1>7, <2>2
    <3>3. k < l
      BY <3>1, <3>2
    <3> QED BY <2>2, <3>1, <3>2, <3>3 DEF ESInv, OrderKept
  <2> QED BY <2>1, <2>2
<1>12. queue' \in [Streams -> Seq(Event)] /\ \A y \in Streams : Len(queue'[y]) <= Cap
  <2>1. Len(queue'[s]) <= Cap
    BY <1>1, <1>2, <1>6, StreamAssumption DEF StreamAssumption, q
  <2>2. \A y \in Streams : queue'[y] \in Seq(Event) /\ Len(queue'[y]) <= Cap
    BY <1>1, <1>2, <1>3, <2>1 DEF ESInv, TypeOK
  <2>3. DOMAIN queue' = Streams /\ queue' = [y \in Streams |-> queue'[y]]
    BY <1>1
  <2> QED BY <2>2, <2>3
<1>13. BCInv' /\ CalledOnce'
  BY <1>9, BCStutter DEF ESInv, CalledOnce
<1> QED BY <1>5, <1>10, <1>11, <1>12, <1>13

\* The first event of a queue becomes the last one written.
LEMMA WriteEventKeeps ==
  ASSUME ESInv, NEW s \in Streams, WriteEvent(s)
  PROVE  ESInv'
<1>1. /\ queue[s] # <<>> /\ queue' = [queue EXCEPT ![s] = Tail(@)]
      /\ written' = [written EXCEPT ![s][Head(queue[s]).from] = Head(queue[s]).n]
      /\ UNCHANGED <<bcVars, gone, batch, streams, ended>>
  BY DEF WriteEvent
<1>2. /\ BCInv' /\ CountsOK' /\ OrderKept' /\ CalledOnce'
      /\ queue' \in [Streams -> Seq(Event)] /\ (\A y \in Streams : Len(queue'[y]) <= Cap)
      /\ written' \in [Streams -> [Conns -> 0..MaxEvents]]
  BY <1>1, ShiftKeeps
<1>3. TypeOK' /\ (streams \cap ended = {})'
  BY <1>1, <1>2 DEF ESInv, TypeOK, BCInv
<1> QED BY <1>2, <1>3 DEF ESInv

\* What is left of the other steps changes no channel.
LEMMA StillKeeps ==
  ASSUME ESInv, UNCHANGED <<bcVars, batch, queue, written>>, gone' \subseteq Conns,
         streams' \subseteq Streams, ended' \subseteq Streams, streams' \cap ended' = {}
  PROVE  ESInv'
<1>1. UNCHANGED <<todo, count>>
  BY DEF bcVars
<1>2. BCInv'
  BY BCStutter DEF ESInv
<1>3. TypeOK'
  BY <1>2 DEF ESInv, TypeOK, BCInv
<1>4. CalledOnce' /\ \A c, s : Due(c, s)' <=> Due(c, s)
  BY <1>1 DEF ESInv, CalledOnce, Due
<1>5. CountsOK' /\ OrderKept'
  BY <1>1, <1>4, SameQueues DEF ESInv
<1> QED BY <1>2, <1>3, <1>4, <1>5 DEF ESInv

\* A stream ends.
LEMMA CloseKeeps ==
  ASSUME ESInv, NEW s \in Streams, Close(s)
  PROVE  ESInv'
<1>1. /\ s \in streams /\ streams' = streams \ {s} /\ ended' = ended \cup {s}
      /\ UNCHANGED <<bcVars, gone, batch, written>>
      /\ \/ queue' = queue
         \/ queue' = [queue EXCEPT ![s] = IF @ = <<>> THEN @ ELSE Tail(@)]
  BY DEF Close
<1>2. /\ streams' \subseteq Streams /\ ended' \subseteq Streams /\ streams' \cap ended' = {}
      /\ gone' \subseteq Conns
  BY <1>1 DEF ESInv, TypeOK
<1>3. CASE queue' = queue
  BY <1>1, <1>2, <1>3, StillKeeps
<1>4. CASE queue' # queue
  <2>1. queue \in [Streams -> Seq(Event)]
    BY DEF ESInv, TypeOK
  <2>2. queue[s] # <<>> /\ queue' = [queue EXCEPT ![s] = Tail(@)]
    BY <1>1, <1>4, <2>1
  <2>3. /\ BCInv' /\ CountsOK' /\ OrderKept' /\ CalledOnce'
        /\ queue' \in [Streams -> Seq(Event)] /\ (\A y \in Streams : Len(queue'[y]) <= Cap)
        /\ written' \in [Streams -> [Conns -> 0..MaxEvents]]
    BY <1>1, <2>2, ShiftKeeps
  <2>4. TypeOK'
    BY <1>1, <1>2, <2>3 DEF ESInv, TypeOK, BCInv
  <2> QED BY <1>2, <2>3, <2>4 DEF ESInv
<1> QED BY <1>3, <1>4

\* The listeners that come and go disturb no stream.
LEMMA BCNextKeeps ==
  ASSUME ESInv, BCNext, UNCHANGED <<gone, batch, stVars>>
  PROVE  ESInv'
<1>1. BCInv'
  BY SubscribeKeeps, SubscribeAllKeeps, UnsubscribeKeeps DEF BCNext, ESInv
<1>2. UNCHANGED <<todo, count>>
  BY DEF BCNext, Subscribe, SubscribeAll, Unsubscribe
<1>3. TypeOK' /\ (streams \cap ended = {})'
  BY <1>1 DEF ESInv, TypeOK, BCInv, stVars
<1>4. CalledOnce' /\ \A c, s : Due(c, s)' <=> Due(c, s)
  BY <1>2 DEF ESInv, CalledOnce, Due
<1>5. CountsOK' /\ OrderKept'
  BY <1>2, <1>4, SameQueues DEF ESInv, stVars
<1> QED BY <1>1, <1>3, <1>4, <1>5 DEF ESInv

-----------------------------------------------------------------------------
\* ESInv holds of the initial state and is kept by every step (events.go:42-127,
\* server.go:329-401).
THEOREM ESInvariance == Spec => []ESInv
<1>1. Init => ESInv
  <2> SUFFICES ASSUME Init PROVE ESInv
    OBVIOUS
  <2>1. BCInv
    BY BCInitial DEF Init
  <2>2. TypeOK
    <3>1. <<>> \in Seq(Event) /\ Len(<<>>) = 0 /\ 0 \in 0..MaxEvents /\ 0 <= Cap
      BY BroadcasterAssumption, StreamAssumption DEF BroadcasterAssumption, StreamAssumption
    <3>2. queue \in [Streams -> Seq(Event)] /\ \A s \in Streams : Len(queue[s]) <= Cap
      BY <3>1 DEF Init
    <3>3. written \in [Streams -> [Conns -> 0..MaxEvents]]
      BY <3>1 DEF Init
    <3> QED BY <2>1, <3>2, <3>3 DEF Init, TypeOK, BCInv
  <2>3. \A c \in Conns : batch[c] = {} /\ ToSet(todo[c]) = {} /\ count[c] = 0
    BY DEF Init, BCInit, ToSet
  <2>4. \A c \in Conns, s \in Streams : ~Due(c, s) /\ Places(c, s) = {0} /\ Number(c, s, 0) = 0
    <3>1. \A s \in Streams : DOMAIN queue[s] = {}
      BY DEF Init
    <3>2. \A c \in Conns, s \in Streams : Places(c, s) = {0}
      BY <3>1 DEF Places
    <3>3. \A c \in Conns, s \in Streams : Number(c, s, 0) = 0
      BY DEF Init, Number
    <3> QED BY <2>3, <3>2, <3>3 DEF Due
  <2>5. CalledOnce /\ CountsOK /\ OrderKept /\ streams \cap ended = {}
    BY <2>3, <2>4 DEF Init, CalledOnce, CountsOK, OrderKept
  <2> QED BY <2>1, <2>2, <2>5 DEF ESInv
<1>2. ESInv /\ [Next]_esVars => ESInv'
  <2> SUFFICES ASSUME ESInv, [Next]_esVars PROVE ESInv'
    OBVIOUS
  <2>1. ASSUME NEW c \in Conns, ReadEvent(c) \/ Forward(c)
        PROVE  ESInv'
    BY <2>1, ReadEventKeeps, CallListenerKeeps, OfferKeeps DEF Forward
  <2>2. ASSUME NEW c \in Conns, Leave(c)
        PROVE  ESInv'
    BY <2>2, StillKeeps DEF Leave, stVars, ESInv, TypeOK
  <2>3. ASSUME NEW s \in Streams, Open(s)
        PROVE  ESInv'
    BY <2>3, StillKeeps DEF Open, ESInv, TypeOK
  <2>4. CASE UNCHANGED esVars
    BY <2>4, StillKeeps DEF esVars, stVars, ESInv, TypeOK
  <2> QED BY <2>1, <2>2, <2>3, <2>4, WriteEventKeeps, CloseKeeps, BCNextKeeps DEF Next
<1> QED BY <1>1, <1>2, PTL DEF Spec

\* Every variable keeps its type, and no channel holds more than it may
\* (server.go:341, 391-399).
THEOREM StreamTypes == Spec => []TypeOK
BY ESInvariance, PTL DEF ESInv

\* Whoever had subscribed when an event came is called for it once, and nobody
\* else (events.go:42-127).
THEOREM AllAreTold == Spec => []EveryoneIsTold
BY ESInvariance, PTL DEF ESInv, BCInv

\* A client gets the events of a connection in order (server.go:366-401).
THEOREM Order == Spec => []OrderKept
BY ESInvariance, PTL DEF ESInv

\* No event that is read after the end of a request is offered to its channel
\* (server.go:340-345, 386-391).
THEOREM EndedStreams == Spec => EndedGetsNoNewEvent
<1>1. ESInv /\ [Next]_esVars =>
        [\A c \in Conns, s \in ended : s \in batch'[c] => s \in batch[c]]_esVars
  <2> SUFFICES ASSUME ESInv, Next, NEW c \in Conns, NEW s \in ended, s \in batch'[c]
               PROVE  s \in batch[c]
    OBVIOUS
  <2>1. batch \in [Conns -> SUBSET Streams] /\ s \notin streams
    BY DEF ESInv, TypeOK
  <2>2. ASSUME NEW x \in Conns, CallListener(x)
        PROVE  s \in batch[c]
    BY <2>1, <2>2 DEF CallListener
  <2>3. ASSUME NEW x \in Conns, NEW y \in Streams, Offer(x, y)
        PROVE  s \in batch[c]
    BY <2>1, <2>3 DEF Offer
  <2>4. CASE UNCHANGED batch
    BY <2>4
  <2>5. \/ \E x \in Conns : CallListener(x) \/ \E y \in Streams : Offer(x, y)
        \/ UNCHANGED batch
    BY DEF Next, Forward, ReadEvent, Leave, Open, WriteEvent, Close
  <2> QED BY <2>2, <2>3, <2>4, <2>5
<1> QED BY <1>1, ESInvariance, PTL DEF Spec, EndedGetsNoNewEvent

-----------------------------------------------------------------------------
(* Starting up and answering: the invariants.                              *)

SUInv ==
  /\ stage \in {"load", "store", "tls", "serve", "fatal"}
  /\ cfg \in [cert : BOOLEAN, key : BOOLEAN, timeout : Int]
  /\ secs \in Nat \ {0}
  /\ secs * Second < Half => cfg.timeout = secs * Second
  /\ stage = "serve" => cfg.cert = cfg.key

\* Nothing is done before the checks are over.
Untouched == phase \in {"idle", "check"} => effect = "none" /\ answer = "none" /\ status = 0

\* Only a command that was good, and is to be waited for, waits.
WaitsForAnswer ==
  phase = "wait" =>
    /\ request.route = "device" /\ request.method = "POST"
    /\ request.dev # "" /\ Expect = "on"
    /\ effect = "sent" /\ answer = "none" /\ status = 0

APIInv ==
  /\ phase \in {"idle", "check", "wait", "done"}
  /\ request \in Requests
  /\ Untouched /\ WaitsForAnswer
  /\ RefusalChangesNothing /\ OkIsDone

-----------------------------------------------------------------------------
(* How the program comes up.                                               *)

\* Below the overflow a number is what it was (config.go:55).
LEMMA WrapFits ==
  ASSUME NEW n \in 0..(Half - 1)
  PROVE  Wrap(n) = n
<1>1. /\ Half \in Nat /\ n + Half \in Nat /\ n + Half < 2 * Half /\ 2 * Half \in Nat /\ 2 * Half > 0
  BY StartupAssumption
<1>2. \A a, b \in Nat : a < b => a % b = a
  OBVIOUS
<1>3. (n + Half) % (2 * Half) = n + Half
  BY <1>1, <1>2
<1> QED BY <1>1, <1>3 DEF Wrap

\* A positive number of seconds is a positive number.
LEMMA Products ==
  ASSUME NEW s \in Nat \ {0}
  PROVE  s * Second \in Nat /\ s * Second > 0
<1>1. Second \in Nat /\ Second > 0
  BY StartupAssumption
<1> QED BY <1>1

\* What a number of seconds is turned into is a number, and no other one below
\* the overflow.
LEMMA Duration ==
  ASSUME NEW s \in Nat \ {0}
  PROVE  /\ Wrap(s * Second) \in Int
         /\ s * Second < Half => Wrap(s * Second) = s * Second
<1> DEFINE n == s * Second
<1>1. n \in Nat
  BY Products
<1> HIDE DEF n
<1>2. /\ Half \in Nat /\ Half > 0
  BY StartupAssumption, Products
<1>3. Wrap(n) \in Int
  <2>1. n + Half \in Int /\ 2 * Half \in Int /\ 2 * Half > 0
    BY <1>1, <1>2
  <2>2. (n + Half) % (2 * Half) \in Int
    BY <2>1
  <2> QED BY <2>2, <1>2 DEF Wrap
<1>4. ASSUME n < Half PROVE Wrap(n) = n
  BY <1>1, <1>2, <1>4, WrapFits
<1>5. n = s * Second
  BY DEF n
<1> QED BY <1>3, <1>4, <1>5

\* The settings that the file and the environment add up to.
LEMMA Loads ==
  ASSUME SUInv, Load
  PROVE  SUInv'
<1>1. PICK named \in BOOLEAN, readable \in BOOLEAN, there \in SUBSET {"explicit", "here", "etc"},
           fs \in Seconds \cup {0}, es \in Seconds \cup {0},
           fw \in SUBSET {"cert", "key"}, ew \in SUBSET {"cert", "key"} :
        LET used == readable /\ Chosen(named, there) \cap there # {}
        IN  /\ cfg' = Override(IF used THEN FromFile(fs, fw) ELSE Defaults, es, ew)
            /\ secs' = IF es > 0 THEN es ELSE IF used /\ fs > 0 THEN fs ELSE Default
  BY DEF Load
<1> DEFINE used == readable /\ Chosen(named, there) \cap there # {}
           fsecs == IF used /\ fs > 0 THEN fs ELSE Default
           base == IF used THEN FromFile(fs, fw) ELSE Defaults
<1>2. cfg' = Override(base, es, ew) /\ secs' = IF es > 0 THEN es ELSE fsecs
  BY <1>1
<1>3. es \in Int /\ fs \in Int /\ Default \in Nat \ {0}
  BY StartupAssumption
<1>4. fsecs \in Nat \ {0}
  BY <1>3
<1>5. /\ base.cert \in BOOLEAN /\ base.key \in BOOLEAN
      /\ base.timeout \in Int
      /\ fsecs * Second < Half => base.timeout = fsecs * Second
  <2>1. CASE used
    <3>1. base.timeout = Wrap(fsecs * Second)
      BY <2>1 DEF FromFile
    <3>2. base.cert \in BOOLEAN /\ base.key \in BOOLEAN
      BY <2>1 DEF FromFile
    <3> QED BY <1>4, <3>1, <3>2, Duration
  <2>2. CASE ~used
    <3>1. base = Defaults /\ fsecs = Default
      BY <2>2
    <3>2. Defaults.timeout = Default * Second /\ Defaults.cert \in BOOLEAN /\ Defaults.key \in BOOLEAN
      BY DEF Defaults
    <3> QED BY <1>3, <3>1, <3>2, Products
  <2> QED BY <2>1, <2>2
<1> HIDE DEF used, fsecs, base
<1>6. cfg' \in [cert : BOOLEAN, key : BOOLEAN, timeout : Int]
  <2>1. (IF es > 0 THEN Wrap(es * Second) ELSE base.timeout) \in Int
    BY <1>3, <1>5, Duration
  <2>2. (base.cert \/ "cert" \in ew) \in BOOLEAN /\ (base.key \/ "key" \in ew) \in BOOLEAN
    OBVIOUS
  <2> QED BY <1>2, <2>1, <2>2 DEF Override
<1>7. secs' \in Nat \ {0}
  BY <1>2, <1>3, <1>4
<1>8. secs' * Second < Half => cfg'.timeout = secs' * Second
  <2>1. CASE es > 0
    BY <1>2, <1>3, <2>1, Duration DEF Override
  <2>2. CASE ~(es > 0)
    BY <1>2, <1>5, <2>2 DEF Override
  <2> QED BY <2>1, <2>2
<1>9. stage' = "store"
  BY DEF Load
<1> QED BY <1>6, <1>7, <1>8, <1>9 DEF SUInv

\* The rest of the way up.
LEMMA BootKeeps ==
  ASSUME SUInv, Boot \/ StopListening \/ UNCHANGED suVars
  PROVE  SUInv'
<1>1. CASE Load
  BY <1>1, Loads
<1>2. CASE OpenStore \/ CheckTLS \/ StopListening \/ UNCHANGED suVars
  <2>1. UNCHANGED <<cfg, secs>>
    BY <1>2 DEF OpenStore, CheckTLS, StopListening, suVars
  <2>2. stage' \in {"load", "store", "tls", "serve", "fatal"}
    BY <1>2 DEF SUInv, OpenStore, CheckTLS, StopListening, suVars
  <2>3. stage' = "serve" => cfg.cert = cfg.key
    BY <1>2 DEF SUInv, OpenStore, CheckTLS, StopListening, suVars
  <2> QED BY <2>1, <2>2, <2>3 DEF SUInv
<1> QED BY <1>1, <1>2 DEF Boot

\* Once the program is up nothing that the API does touches its settings.
LEMMA APIKeepsSettings ==
  ASSUME APINext
  PROVE  Boot \/ StopListening \/ UNCHANGED suVars
BY DEF APINext, Arrive, Return, Handle, DeviceComesOrGoes, InvalidPath, ShowDevice, WrongDeviceMethod,
       BadCommand, Offline, SendFails, Send, WaitEnds, Message, Refuse, Show, ChangeAlias, Probe,
       RunScript, NotFound, Upgrade, Reply, Respond

\* The settings fit what was asked for, at every stage.
THEOREM SettingsInvariance == APISpec => []SUInv
<1>1. APIInit => SUInv
  <2> SUFFICES ASSUME APIInit PROVE SUInv
    OBVIOUS
  <2>1. stage = "load" /\ cfg = Defaults /\ secs = Default
    BY DEF APIInit, SUInit
  <2>2. Default \in Nat \ {0} /\ Default * Second \in Int
    BY StartupAssumption, Products
  <2> QED BY <2>1, <2>2 DEF SUInv, Defaults
<1>2. SUInv /\ [APINext]_apiVars => SUInv'
  BY BootKeeps, APIKeepsSettings DEF apiVars
<1> QED BY <1>1, <1>2, PTL DEF APISpec

\* A server that serves has TLS if it was given either of its files, and the
\* timeout that was asked for as long as that fits, whatever the file and the
\* environment say (main.go:59-83, config.go:49-71, 108-132).
THEOREM Settings == APISpec => []ServesAsAsked
<1>1. SUInv => ServesAsAsked
  BY Products DEF SUInv, ServesAsAsked, TLSConfigured
<1> QED BY <1>1, SettingsInvariance, PTL

-----------------------------------------------------------------------------
(* What requests do.                                                       *)

\* A handler that answers without doing anything: whatever the code, no rule
\* is broken, unless it is the 200 of a command.
LEMMA Refusals ==
  ASSUME APIInv, phase = "check", NEW code, Reply(code),
         ~(code = 200 /\ request.route = "device" /\ request.method = "POST")
  PROVE  APIInv'
<1>1. effect = "none" /\ phase' = "done" /\ status' = code /\ effect' = effect /\ request' = request
  BY DEF APIInv, Untouched, Reply, Respond
<1> QED BY <1>1 DEF APIInv, Untouched, WaitsForAnswer, RefusalChangesNothing, OkIsDone

\* The checks of a device command.
LEMMA CommandsKeep ==
  ASSUME APIInv,
         InvalidPath \/ ShowDevice \/ WrongDeviceMethod \/ BadCommand \/ Offline \/ SendFails
  PROVE  APIInv'
<1>1. phase = "check" /\ request.route = "device"
  BY DEF InvalidPath, ShowDevice, WrongDeviceMethod, BadCommand, Offline, SendFails, Ready, Command, ForDevice
<1>2. CASE ShowDevice
  BY <1>1, <1>2, Refusals DEF ShowDevice
<1>3. CASE InvalidPath \/ WrongDeviceMethod \/ BadCommand \/ Offline \/ SendFails
  <2>1. Reply(400) \/ Reply(404) \/ Reply(405) \/ Reply(500)
    BY <1>3, Zenon DEF InvalidPath, WrongDeviceMethod, BadCommand, Offline, SendFails
  <2>2. CASE Reply(400)
    BY <1>1, <2>2, Refusals
  <2>3. CASE Reply(404)
    BY <1>1, <2>3, Refusals
  <2>4. CASE Reply(405)
    BY <1>1, <2>4, Refusals
  <2>5. CASE Reply(500)
    BY <1>1, <2>5, Refusals
  <2> QED BY <2>1, <2>2, <2>3, <2>4, <2>5
<1> QED BY <1>2, <1>3

\* A good command is sent, and waits if it is to.
LEMMA SendKeeps ==
  ASSUME APIInv, Send
  PROVE  APIInv'
<1>1. /\ phase = "check" /\ request.route = "device" /\ request.method = "POST" /\ request.dev # ""
      /\ effect' = "sent" /\ request' = request /\ answer' = answer /\ answer = "none"
      /\ \/ Expect = "off" /\ phase' = "done" /\ status' = 200
         \/ Expect = "on" /\ phase' = "wait" /\ status' = 0
  BY DEF Send, Ready, Command, ForDevice, APIInv, Untouched
<1>2. Expect' = Expect
  BY <1>1 DEF Expect
<1>3. phase' \in {"idle", "check", "wait", "done"} /\ request' \in Requests
  BY <1>1 DEF APIInv
<1>4. Untouched' /\ WaitsForAnswer'
  BY <1>1, <1>2 DEF Untouched, WaitsForAnswer
<1>5. RefusalChangesNothing'
  <2>1. status' \in {0, 200}
    BY <1>1
  <2>2. status' \notin 400..499
    BY <2>1
  <2> QED BY <1>1, <2>2 DEF RefusalChangesNothing
<1>6. OkIsDone'
  <2>1. CASE Expect = "off"
    BY <1>1, <1>2, <2>1 DEF OkIsDone
  <2>2. CASE status' = 0
    BY <2>2 DEF OkIsDone
  <2> QED BY <1>1, <2>1, <2>2
<1> QED BY <1>3, <1>4, <1>5, <1>6 DEF APIInv

\* A message ends the wait with 200 only when nothing about it is bad.
LEMMA MessageKeeps ==
  ASSUME APIInv, WaitEnds \/ Message
  PROVE  APIInv'
<1>1. /\ phase = "wait" /\ request.method = "POST" /\ effect = "sent"
      /\ phase' = "done" /\ effect' = effect /\ request' = request
  BY DEF WaitEnds, Message, Reply, Respond, APIInv, WaitsForAnswer
<1>2. status' \in {200, 500} /\ (status' = 200 => answer' = "good")
  <2>1. CASE WaitEnds
    BY <2>1 DEF WaitEnds, Reply, Respond
  <2>2. CASE Message
    <3>1. PICK m \in Messages :
            /\ answer' = IF m.response \in {"none", "200"} /\ ~m.error /\ ~m.failed THEN "good" ELSE "bad"
            /\ Respond(IF responseError(m) THEN 500 ELSE 200, effect)
      BY <2>2 DEF Message
    <3>2. m.response \in {"none", "200", "other"}
      BY DEF Messages
    <3>3. status' = IF responseError(m) THEN 500 ELSE 200
      BY <3>1 DEF Respond
    <3>4. CASE responseError(m)
      BY <3>3, <3>4
    <3>5. CASE ~responseError(m)
      <4>1. m.response \in {"none", "200"} /\ ~m.error /\ ~m.failed
        BY <3>2, <3>5 DEF responseError
      <4> QED BY <3>1, <3>3, <3>5, <4>1
    <3> QED BY <3>4, <3>5
  <2> QED BY <2>1, <2>2
<1>3. Untouched' /\ WaitsForAnswer'
  BY <1>1 DEF Untouched, WaitsForAnswer
<1>4. RefusalChangesNothing'
  BY <1>1, <1>2 DEF RefusalChangesNothing
<1>5. OkIsDone'
  BY <1>1, <1>2 DEF OkIsDone
<1> QED BY <1>1, <1>3, <1>4, <1>5 DEF APIInv

\* The other routes change something only where the method and the body were
\* as they should be.
LEMMA RoutesKeep ==
  ASSUME APIInv, Refuse \/ Show \/ ChangeAlias \/ Probe \/ RunScript \/ NotFound \/ Upgrade
  PROVE  APIInv'
<1>1. phase = "check" /\ request.route # "device"
  BY DEF Refuse, Show, ChangeAlias, Probe, RunScript, NotFound, Upgrade, Accepted, ForOther,
         Fixed, Shown, Probes, Scripts, AliasChanges
<1>2. CASE Refuse \/ Show \/ Probe \/ NotFound \/ Upgrade
  <2>1. \E code \in {101, 200, 400, 404, 405, 426} : Reply(code)
    BY <1>2 DEF Refuse, Show, Probe, NotFound, Upgrade
  <2> QED BY <1>1, <2>1, Refusals
<1>3. CASE ChangeAlias \/ RunScript
  <2>1. /\ Accepted /\ request.route \in AliasChanges \cup Scripts
        /\ request.method = "POST" /\ (request.route \in Decoding => request.body = "full")
    BY <1>3 DEF ChangeAlias, RunScript, Accepted, MethodOK, Posts, Scripts, AliasChanges
  <2>2. \E code \in {200, 400}, e \in {"none", "changed"} : Respond(code, e)
    BY <1>3 DEF ChangeAlias, RunScript
  <2>3. /\ phase' = "done" /\ request' = request
        /\ effect' \in {"none", "changed"} /\ status' \in {200, 400}
    BY <2>2 DEF Respond
  <2> QED BY <1>1, <2>1, <2>3 DEF APIInv, Untouched, WaitsForAnswer, RefusalChangesNothing, OkIsDone
<1> QED BY <1>2, <1>3

\* What every request relies on, whatever the devices do meanwhile.
THEOREM APIInvariance == APISpec => []APIInv
<1>1. APIInit => APIInv
  <2> SUFFICES ASSUME APIInit PROVE APIInv
    OBVIOUS
  <2>1. phase = "idle" /\ request = NoRequest /\ effect = "none" /\ answer = "none" /\ status = 0
    BY DEF APIInit
  <2>2. NoRequest \in Requests
    BY DEF NoRequest, Requests, Fixed, Shown, Methods
  <2> QED BY <2>1, <2>2 DEF APIInv, Untouched, WaitsForAnswer, RefusalChangesNothing, OkIsDone
<1>2. APIInv /\ [APINext]_apiVars => APIInv'
  <2> SUFFICES ASSUME APIInv, [APINext]_apiVars PROVE APIInv'
    OBVIOUS
  <2>1. CASE UNCHANGED <<request, phase, effect, answer, status>>
    <3>1. Expect' = Expect
      BY <2>1 DEF Expect
    <3> QED BY <2>1, <3>1 DEF APIInv, Untouched, WaitsForAnswer, RefusalChangesNothing, OkIsDone
  <2>2. CASE Arrive
    BY <2>2 DEF Arrive, APIInv, Untouched, WaitsForAnswer, RefusalChangesNothing, OkIsDone
  <2>3. CASE Return
    <3>1. NoRequest \in Requests
      BY DEF NoRequest, Requests, Fixed, Shown, Methods
    <3> QED BY <2>3, <3>1 DEF Return, Forget, APIInv, Untouched, WaitsForAnswer, RefusalChangesNothing, OkIsDone
  <2>4. CASE Handle
    BY <2>4, CommandsKeep, SendKeeps, MessageKeeps, RoutesKeep DEF Handle
  <2> QED BY <2>1, <2>2, <2>3, <2>4 DEF APINext, DeviceComesOrGoes, apiVars, hsVars
<1> QED BY <1>1, <1>2, PTL DEF APISpec

\* Only a POST has an effect, and one that is refused none but those named
\* (server.go:175-258, 405-607).
THEOREM Refused == APISpec => []RefusalChangesNothing
BY APIInvariance, PTL DEF APIInv

\* A command is answered 200 only when it was sent and, if it waited, answered
\* well (server.go:237-258, manager.go:696-729).
THEOREM Fulfilled == APISpec => []OkIsDone
BY APIInvariance, PTL DEF APIInv
=============================================================================
