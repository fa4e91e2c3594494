------------------------- MODULE SessionAliasProofs -------------------------
(***************************************************************************)
(* Proofs about SessionAlias: AliasInv is inductive, and UndisturbedAgrees *)
(* follows from it.                                                        *)
(***************************************************************************)
EXTENDS SessionAlias, TLAPS

\* An actor that begins is alone only if nobody is at work on the device, and
\* then carries what the store has.
LEMMA BeginKeeps ==
  ASSUME AliasInv, NEW x \in Actors, NEW d \in Devices, NEW a \in Alias,
         Begin(x, d, a), aliases' = [aliases EXCEPT ![d] = a]
  PROVE  AliasInv'
<1> USE AliasAssumption DEF AliasInv, Begin, Alias
<1>1. TypeOK'
  BY DEF TypeOK
<1>2. CarriedOK'
  <2> SUFFICES ASSUME NEW y \in alone'
               PROVE  /\ on'[y] \in Devices /\ carried'[y] = aliases'[on'[y]]
                      /\ \A z \in Actors : on'[z] = on'[y] => z = y
    BY DEF CarriedOK
  <2>1. CASE y = x
    <3>1. \A z \in Actors : on[z] # d
      <4>1. x \notin alone
        BY DEF CarriedOK, TypeOK
      <4> QED BY <2>1, <4>1
    <3> QED BY <2>1, <3>1 DEF TypeOK
  <2>2. CASE y # x
    <3>1. y \in alone /\ y \in Actors /\ on[y] # d
      BY <2>2 DEF TypeOK
    <3> QED BY <2>2, <3>1 DEF CarriedOK, TypeOK
  <2> QED BY <2>1, <2>2
<1>3. AgreesOK'
  BY DEF AgreesOK, TypeOK
<1> QED BY <1>1, <1>2, <1>3

\* An actor that ends alone leaves a session that agrees with the store; one
\* that has been overlapped leaves a doubtful device.
LEMMA FinishKeeps ==
  ASSUME AliasInv, NEW x \in Actors, NEW d \in Devices, Finish(x, d),
         shown' = [shown EXCEPT ![d] = carried[x]]
         \/ shown' = [shown EXCEPT ![d] = IF @ = None THEN None ELSE carried[x]],
         UNCHANGED aliases
  PROVE  AliasInv'
<1> USE AliasAssumption DEF AliasInv, Finish, Alias
<1>1. TypeOK'
  BY DEF TypeOK
<1>2. CarriedOK'
  BY DEF CarriedOK, TypeOK
<1>3. AgreesOK'
  <2> SUFFICES ASSUME NEW e \in Devices, e \notin doubtful', shown'[e] # None
               PROVE  shown'[e] = aliases'[e] \/ \E y \in Actors : on'[y] = e
    BY DEF AgreesOK
  <2>1. CASE e = d
    <3>1. x \in alone
      BY <2>1
    <3>2. carried[x] = aliases[d]
      BY <3>1 DEF CarriedOK
    <3> QED BY <2>1, <3>2 DEF TypeOK
  <2>2. CASE e # d
    <3>1. shown[e] # None /\ shown'[e] = shown[e] /\ e \notin doubtful
      BY <2>2 DEF TypeOK
    <3>2. \A y \in Actors : on[y] = e => on'[y] = e
      BY <2>2 DEF TypeOK
    <3> QED BY <3>1, <3>2 DEF AgreesOK
  <2> QED BY <2>1, <2>2
<1> QED BY <1>1, <1>2, <1>3

\* A change that is not saved leaves a doubtful device, and nobody alone on it.
LEMMA UnsavedKeeps ==
  ASSUME AliasInv, NEW o \in Operators, NEW d \in Devices, ChangeUnsaved(o, d)
  PROVE  AliasInv'
BY AliasAssumption DEF AliasInv, ChangeUnsaved, TypeOK, CarriedOK, AgreesOK, Alias, Actors

\* A handler that goes on without the alias is not alone.
LEMMA ReadUnsavedKeeps ==
  ASSUME AliasInv, NEW h \in Handlers, NEW d \in Devices, ReadUnsaved(h, d)
  PROVE  AliasInv'
<1> USE AliasAssumption DEF AliasInv, ReadUnsaved, Alias, Actors
<1>1. TypeOK'
  BY DEF TypeOK
<1>2. CarriedOK'
  BY DEF CarriedOK, TypeOK
<1>3. AgreesOK'
  BY DEF AgreesOK, TypeOK
<1> QED BY <1>1, <1>2, <1>3

\* AliasInv holds of the initial state and is kept by every step
\* (manager.go:144-179, 236-276).
THEOREM AgreementInvariant == Spec => []AliasInv
<1>1. Init => AliasInv
  BY AliasAssumption DEF Init, AliasInv, TypeOK, CarriedOK, AgreesOK, Alias
<1>2. AliasInv /\ [Next]_saVars => AliasInv'
  <2> SUFFICES ASSUME AliasInv, [Next]_saVars PROVE AliasInv'
    OBVIOUS
  <2>1. CASE UNCHANGED saVars
    BY <2>1 DEF saVars, AliasInv, TypeOK, CarriedOK, AgreesOK
  <2>2. ASSUME NEW d \in Devices, NEW o \in Operators, OperatorStep(o, d)
        PROVE  AliasInv'
    <3>1. CASE ChangeAlias(o, d)
      BY <3>1, BeginKeeps DEF ChangeAlias, Actors, Alias
    <3>2. CASE ChangeUnsaved(o, d)
      BY <3>2, UnsavedKeeps
    <3>3. CASE UpdateSession(o, d)
      BY <3>3, FinishKeeps DEF UpdateSession, Actors
    <3> QED BY <2>2, <3>1, <3>2, <3>3 DEF OperatorStep
  <2>3. ASSUME NEW d \in Devices, NEW h \in Handlers, HandlerStep(h, d)
        PROVE  AliasInv'
    <3>1. CASE ReadAlias(h, d)
      <4>1. CASE aliases[d] # NoAlias /\ Begin(h, d, aliases[d]) /\ UNCHANGED aliases
        <5>1. aliases' = [aliases EXCEPT ![d] = aliases[d]] /\ aliases[d] \in Alias
          BY <4>1 DEF AliasInv, TypeOK
        <5> QED BY <4>1, <5>1, BeginKeeps DEF Actors
      <4>2. CASE Begin(h, d, WiFi) /\ aliases' = [aliases EXCEPT ![d] = WiFi]
        BY <4>2, BeginKeeps DEF Actors, Alias
      <4> QED BY <3>1, <4>1, <4>2 DEF ReadAlias
    <3>2. CASE ReadUnsaved(h, d)
      BY <3>2, ReadUnsavedKeeps
    <3>3. CASE RegisterSession(h, d)
      BY <3>3, FinishKeeps DEF RegisterSession, Actors
    <3> QED BY <2>3, <3>1, <3>2, <3>3 DEF HandlerStep
  <2>4. ASSUME NEW d \in Devices, RemoveSession(d)
        PROVE  AliasInv'
    BY <2>4, AliasAssumption DEF RemoveSession, AliasInv, TypeOK, CarriedOK, AgreesOK
  <2> QED BY <2>1, <2>2, <2>3, <2>4 DEF Next
<1> QED BY <1>1, <1>2, PTL DEF Spec

\* Work that nothing overlaps makes the session agree with the store
\* (manager.go:144-179, 236-276), for any number of devices and actors.
THEOREM Undisturbed == Spec => []UndisturbedAgrees
<1>1. AliasInv => UndisturbedAgrees
  BY DEF AliasInv, AgreesOK, UndisturbedAgrees, Settled
<1> QED BY <1>1, AgreementInvariant, PTL

\* Store, sessions and calls in flight keep their types (manager.go:121-180,
\* 236-276).
THEOREM AliasTypes == Spec => []TypeOK
<1>1. AliasInv => TypeOK
  BY DEF AliasInv
<1> QED BY <1>1, AgreementInvariant, PTL
=============================================================================
