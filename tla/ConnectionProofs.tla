-------------------------- MODULE ConnectionProofs ---------------------------
(***************************************************************************)
(* Proofs about one connection of a device, for any connections, commands  *)
(* and times.  ConnWrite: TypeOK and OwnerWrites together are inductive,   *)
(* and OnlyResponseMixes follows from them and its own second half.        *)
(* Keepalive: when PingInterval + WriteWait + MaxAnswer < ReadWait, a      *)
(* device that answers is never cut off.                                   *)
(***************************************************************************)
EXTENDS ConnWrite, Keepalive, FiniteSetTheorems, TLAPS

-----------------------------------------------------------------------------
(* Who writes to a connection.                                             *)

Owned == TypeOK /\ OwnerWrites

\* What is written to a connection is written by the owner of its mutex.
LEMMA OneWriter ==
  ASSUME Owned, NEW c \in Conns
  PROVE  Cardinality(Writing(c)) <= 1
<1>1. Writing(c) \subseteq {mu[c]}
  BY DEF Writing, Owned, OwnerWrites
<1>2. CASE Writing(c) = {}
  BY <1>2, FS_EmptySet
<1>3. CASE Writing(c) = {mu[c]}
  <2>1. Cardinality({mu[c]}) = 1
    BY FS_Singleton
  <2> QED BY <1>3, <2>1
<1>4. Writing(c) = {} \/ Writing(c) = {mu[c]}
  BY <1>1
<1> QED BY <1>2, <1>3, <1>4

\* The steps of a handler touch no mutex and no command.
LEMMA HandlerKeeps ==
  ASSUME Owned, NEW c \in Conns,
         \/ Register(c) \/ CloseOld(c) \/ Respond(c)
         \/ Expire(c) \/ PeerLeaves(c) \/ Leave(c) \/ Panic(c) \/ Stall(c)
  PROVE  Owned'
<1> USE DEF Owned
<1>1. UNCHANGED <<cpc, via, mu>>
  BY DEF Register, CloseOld, Respond, Expire, PeerLeaves, Leave, Panic, Stall
<1>2. OwnerWrites'
  BY <1>1 DEF OwnerWrites
<1>3. CASE Register(c)
  BY <1>2, <1>3 DEF Register, HandlerGoes, TypeOK, BeforeLoop
<1>4. CASE CloseOld(c)
  BY <1>2, <1>4 DEF CloseOld, HandlerGoes, TypeOK, BeforeLoop
<1>5. CASE Respond(c)
  BY <1>2, <1>5 DEF Respond, HandlerGoes, TypeOK, BeforeLoop
<1>6. CASE Expire(c) \/ PeerLeaves(c)
  BY <1>2, <1>6 DEF Expire, PeerLeaves, HandlerGoes, TypeOK, BeforeLoop
<1>7. CASE Leave(c)
  BY <1>2, <1>7 DEF Leave, HandlerGoes, TypeOK, BeforeLoop
<1>8. CASE Panic(c)
  BY <1>2, <1>8 DEF Panic, TypeOK
<1>9. CASE Stall(c)
  BY <1>2, <1>9 DEF Stall, TypeOK
<1> QED BY <1>3, <1>4, <1>5, <1>6, <1>7, <1>8, <1>9

\* A command takes and releases the mutex of the connection that it has found.
LEMMA CommandKeeps ==
  ASSUME Owned, NEW k \in Commands, LookUp(k) \/ BeginWrite(k) \/ EndWrite(k)
  PROVE  Owned'
<1> USE ConnAssumption DEF Owned, CommandGoes
<1>1. TypeOK'
  BY DEF LookUp, BeginWrite, EndWrite, TypeOK
<1>2. CASE LookUp(k)
  BY <1>1, <1>2 DEF LookUp, TypeOK, OwnerWrites
<1>3. CASE BeginWrite(k)
  BY <1>1, <1>3 DEF BeginWrite, TypeOK, OwnerWrites
<1>4. CASE EndWrite(k)
  BY <1>1, <1>4 DEF EndWrite, TypeOK, OwnerWrites
<1> QED BY <1>2, <1>3, <1>4

\* The mutex of a connection is held by exactly the command that writes to it,
\* for any number of connections and commands (manager.go:748-770).
THEOREM Ownership == Spec => []Owned
<1>1. Init => Owned
  <2> SUFFICES ASSUME Init PROVE TypeOK /\ OwnerWrites
    BY DEF Owned
  <2>1. TypeOK
    BY DEF Init, TypeOK, BeforeLoop
  <2>2. OwnerWrites
    BY ConnAssumption DEF Init, OwnerWrites
  <2> QED BY <2>1, <2>2
<1>2. Owned /\ [Next]_cwVars => Owned'
  <2> SUFFICES ASSUME Owned, [Next]_cwVars PROVE Owned'
    OBVIOUS
  <2>1. CASE UNCHANGED cwVars
    BY <2>1 DEF cwVars, Owned, TypeOK, OwnerWrites
  <2>2. CASE Next
    BY <2>2, HandlerKeeps, CommandKeeps DEF Next
  <2> QED BY <2>1, <2>2
<1> QED BY <1>1, <1>2, PTL DEF Spec

\* Every variable keeps its type.
THEOREM ConnTypes == Spec => []TypeOK
BY Ownership, PTL DEF Owned

\* Who holds the mutex writes, and who writes holds it.
THEOREM OwnersWrite == Spec => []OwnerWrites
BY Ownership, PTL DEF Owned

\* Two writes meet only at the connect response, and only there does the
\* process end (manager.go:270-284).
THEOREM ResponseAlone == Spec => []OnlyResponseMixes
<1> DEFINE OneMix  == \A c \in Conns : Mixed(c) => hpc[c] = "respond" /\ Cardinality(Writing(c)) = 1
           DownMix == down => \E c \in Conns : hpc[c] = "respond"
<1>1. Owned => OneMix
  <2> SUFFICES ASSUME Owned, NEW c \in Conns, Mixed(c)
               PROVE  hpc[c] = "respond" /\ Cardinality(Writing(c)) = 1
    OBVIOUS
  <2>1. Cardinality(Writing(c)) <= 1
    BY OneWriter
  <2>2. IsFiniteSet(Writing(c))
    <3>1. Writing(c) \subseteq {mu[c]}
      BY DEF Writing, Owned, OwnerWrites
    <3> QED BY <3>1, FS_Singleton, FS_Subset
  <2>3. Cardinality(Writing(c)) \in Nat
    BY <2>2, FS_CardinalityType
  <2>4. hpc[c] = "respond" /\ Writing(c) # {}
    BY <2>1, <2>3 DEF Mixed
  <2>5. Cardinality(Writing(c)) # 0
    BY <2>2, <2>4, FS_EmptySet
  <2> QED BY <2>1, <2>3, <2>4, <2>5
<1>2. Init => DownMix
  BY DEF Init
<1>3. Owned /\ DownMix /\ [Next]_cwVars => DownMix'
  <2> SUFFICES ASSUME Owned, DownMix, [Next]_cwVars, down' PROVE \E c \in Conns : hpc'[c] = "respond"
    OBVIOUS
  <2>1. CASE UNCHANGED cwVars
    BY <2>1 DEF cwVars
  <2>2. CASE ~UNCHANGED cwVars
    <3>1. ~down
      BY <2>2 DEF Next
    <3>2. PICK c \in Conns : Panic(c)
      BY <2>2, <3>1 DEF Next, Register, CloseOld, Respond, Expire, PeerLeaves, Leave, Stall,
                        LookUp, BeginWrite, EndWrite
    <3>3. hpc'[c] = "respond"
      BY <1>1, <3>2 DEF Panic
    <3> QED BY <3>3
  <2> QED BY <2>1, <2>2
<1>4. OneMix /\ DownMix => OnlyResponseMixes
  BY DEF OnlyResponseMixes
<1> HIDE DEF OneMix, DownMix
<1> QED BY <1>1, <1>2, <1>3, <1>4, Ownership, PTL DEF Spec

-----------------------------------------------------------------------------
(* The pings.                                                              *)

\* The connection of a new session has the type.
LEMMA InitTyped == KAInit => KATypeOK
<1> SUFFICES ASSUME KAInit PROVE KATypeOK
  OBVIOUS
<1> USE KeepaliveAssumption DEF KeepaliveAssumption, KAInit
<1>1. handler \in {"reading", "leaving", "done"} /\ pinger \in {"waiting", "writing", "gone"} /\ cause \in {"nothing", "timeout", "closed"}
  OBVIOUS
<1>2. deadline \in 0..ReadWait /\ tick \in 1..PingInterval /\ wait \in 0..WriteWait
  OBVIOUS
<1>3. isCurrent \in BOOLEAN /\ ticked \in BOOLEAN /\ busy \in BOOLEAN /\ silent \in BOOLEAN
  OBVIOUS
<1>4. pings \subseteq 0..MaxAnswer
  OBVIOUS
<1> QED
  BY <1>1, <1>2, <1>3, <1>4 DEF KATypeOK

\* Every variable keeps its type, whatever the times are.
THEOREM TypeCorrect == KASpec => []KATypeOK
<1>1. KATypeOK /\ [KANext]_kaVars => KATypeOK'
  <2> SUFFICES ASSUME KATypeOK, [KANext]_kaVars PROVE KATypeOK'
    OBVIOUS
  <2> USE KeepaliveAssumption DEF KeepaliveAssumption, KATypeOK
  <2>1. CASE TakeTick
    <3>1. pinger' \in {"waiting", "writing", "gone"}
      BY <2>1, Zenon DEF TakeTick
    <3>2. ticked' \in BOOLEAN
      BY <2>1, Zenon DEF TakeTick
    <3> QED
      BY <2>1, <3>1, <3>2 DEF TakeTick
  <2>2. CASE WritePing
    BY <2>2 DEF WritePing
  <2>3. CASE GiveUp
    BY <2>3 DEF GiveUp
  <2>4. CASE ReadTimesOut \/ Closed
    BY <2>4 DEF ReadTimesOut, Closed, EndRead
  <2>5. CASE Return
    BY <2>5 DEF Return
  <2>6. CASE Time
    <3>1. pings' \subseteq 0..MaxAnswer
      BY <2>6 DEF Time
    <3>2. wait' \in 0..WriteWait
      BY <2>6 DEF Time
    <3>3. deadline' \in 0..ReadWait /\ tick' \in 1..PingInterval
      BY <2>6 DEF Time
    <3> QED
      BY <2>6, <3>1, <3>2, <3>3 DEF Time
  <2>7. CASE Pong
    BY <2>7 DEF Pong, SetReadDeadline
  <2>8. CASE Displace \/ BeginSend \/ EndSend \/ FallSilent
    BY <2>8 DEF Displace, BeginSend, EndSend, FallSilent
  <2>9. CASE UNCHANGED kaVars
    BY <2>9 DEF kaVars
  <2> QED
    BY <2>1, <2>2, <2>3, <2>4, <2>5, <2>6, <2>7, <2>8, <2>9 DEF KANext, Run
<1> QED
  BY InitTyped, <1>1, PTL DEF KASpec

\* While time passes the next pong comes closer as fast as the deadline does.
LEMMA TimeKeepsPongDue ==
  ASSUME KATypeOK, PongIsDue, Time
  PROVE  PongIsDue'
<1> SUFFICES ASSUME handler' = "reading", ~silent', pinger' # "gone"
             PROVE \/ \E a \in pings' : deadline' > MaxAnswer - a
                   \/ pinger' = "waiting" /\ ~ticked' /\ deadline' > tick' + WriteWait + MaxAnswer
                   \/ pinger' = "waiting" /\ ticked' /\ deadline' > WriteWait + MaxAnswer
                   \/ pinger' = "writing" /\ deadline' > wait' + MaxAnswer
  BY DEF PongIsDue
<1> USE KeepaliveAssumption DEF KeepaliveAssumption, KATypeOK
<1>1. /\ handler = "reading" /\ ~silent /\ pinger # "gone" /\ pinger' = pinger
      /\ deadline' = deadline - 1
      /\ MaxAnswer \notin pings
      /\ pings' = {a + 1 : a \in pings}
  BY DEF Time
<1>2. CASE \E a \in pings : deadline > MaxAnswer - a
  <2>1. PICK a \in pings : deadline > MaxAnswer - a
    BY <1>2
  <2>2. a + 1 \in pings' /\ deadline' > MaxAnswer - (a + 1)
    BY <1>1, <2>1
  <2> QED
    BY <2>2
<1>3. CASE pinger = "waiting" /\ ~ticked /\ deadline > tick + WriteWait + MaxAnswer
  <2>1. CASE tick = 1
    <3>1. ticked'
      BY <2>1, Zenon DEF Time
    <3>2. pinger' = "waiting" /\ deadline' > WriteWait + MaxAnswer
      BY <1>1, <1>3, <2>1
    <3> QED
      BY <3>1, <3>2
  <2>2. CASE tick # 1
    BY <1>1, <1>3, <2>2 DEF Time
  <2> QED
    BY <2>1, <2>2
<1>4. CASE pinger = "waiting" /\ ticked
  BY <1>4 DEF Time
<1>5. CASE pinger = "writing" /\ deadline > wait + MaxAnswer
  BY <1>1, <1>5 DEF Time
<1> QED
  BY <1>1, <1>2, <1>3, <1>4, <1>5 DEF PongIsDue

\* The invariant that the safety of an answering device rests on.
THEOREM KeptInvariance ==
  ASSUME PingInterval + WriteWait + MaxAnswer < ReadWait
  PROVE  KASpec => []KeptInv
<1> USE KeepaliveAssumption DEF KeepaliveAssumption
<1>1. KAInit => KeptInv
  <2> SUFFICES ASSUME KAInit, KATypeOK PROVE PongIsDue /\ AnsweringIsKept
    BY InitTyped DEF KeptInv
  <2>1. pinger = "waiting" /\ ~ticked /\ deadline > tick + WriteWait + MaxAnswer
    BY DEF KAInit
  <2>2. cause # "timeout"
    BY DEF KAInit
  <2> QED
    BY <2>1, <2>2 DEF PongIsDue, AnsweringIsKept
<1>2. KATypeOK /\ KeptInv /\ [KANext]_kaVars /\ KATypeOK' => KeptInv'
  <2> SUFFICES ASSUME KATypeOK, PongIsDue, AnsweringIsKept, [KANext]_kaVars, KATypeOK'
               PROVE  PongIsDue' /\ AnsweringIsKept'
    BY DEF KeptInv
  <2>1. CASE TakeTick
    BY <2>1 DEF TakeTick, KATypeOK, PongIsDue, AnsweringIsKept
  <2>2. CASE WritePing
    <3>1. handler = "reading" /\ ~silent => deadline > MaxAnswer - 0 \/ \E a \in pings : deadline > MaxAnswer - a
      BY <2>2 DEF WritePing, KATypeOK, PongIsDue
    <3>2. pings' = pings \cup {0} /\ deadline' = deadline /\ handler' = handler /\ silent' = silent
      BY <2>2 DEF WritePing
    <3>3. PongIsDue'
      BY <3>1, <3>2 DEF PongIsDue
    <3> QED
      BY <2>2, <3>3 DEF WritePing, AnsweringIsKept
  <2>3. CASE GiveUp
    BY <2>3 DEF GiveUp, PongIsDue, AnsweringIsKept
  <2>4. CASE ReadTimesOut
    <3>1. silent \/ pinger = "gone"
      BY <2>4 DEF ReadTimesOut, EndRead, KATypeOK, PongIsDue
    <3> QED
      BY <2>4, <3>1 DEF ReadTimesOut, EndRead, PongIsDue, AnsweringIsKept
  <2>5. CASE Closed
    BY <2>5 DEF Closed, EndRead, PongIsDue, AnsweringIsKept
  <2>6. CASE Return
    BY <2>6 DEF Return, PongIsDue, AnsweringIsKept
  <2>7. CASE Time
    BY <2>7, TimeKeepsPongDue DEF Time, AnsweringIsKept
  <2>8. CASE Pong
    BY <2>8 DEF Pong, SetReadDeadline, KATypeOK, PongIsDue, AnsweringIsKept
  <2>9. CASE Displace \/ BeginSend \/ EndSend
    BY <2>9 DEF Displace, BeginSend, EndSend, PongIsDue, AnsweringIsKept
  <2>10. CASE FallSilent
    BY <2>10 DEF FallSilent, PongIsDue, AnsweringIsKept
  <2>11. CASE UNCHANGED kaVars
    BY <2>11 DEF kaVars, PongIsDue, AnsweringIsKept
  <2> QED
    BY <2>1, <2>2, <2>3, <2>4, <2>5, <2>6, <2>7, <2>8, <2>9, <2>10, <2>11 DEF KANext, Run
<1> QED
  BY <1>1, <1>2, TypeCorrect, PTL DEF KASpec

\* A device that answers every ping in time is not cut off, unless the pinger
\* has ended (manager.go:297-320).
THEOREM AnsweringKept ==
  ASSUME PingInterval + WriteWait + MaxAnswer < ReadWait
  PROVE  KASpec => []AnsweringIsKept
<1>1. KeptInv => AnsweringIsKept
  BY DEF KeptInv
<1> QED
  BY <1>1, KeptInvariance, PTL
=============================================================================
