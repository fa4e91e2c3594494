---------------------------- MODULE SessionAlias ----------------------------
(***************************************************************************)
(* The alias of a device is kept twice: in the alias store and, for a      *)
(* device that is connected, in its session, from where the device list    *)
(* and the events take it.  SetAlias and DeleteAlias (internal/ws/         *)
(* manager.go) change the store and then, under another lock, the session; *)
(* a handler reads the store and then registers a session with what it has *)
(* read.  An operator calls SetAlias or DeleteAlias, one call at a time.   *)
(* The store is taken as AliasStore gives it: a map whose operations are   *)
(* atomic and may report that they could not save the change.              *)
(***************************************************************************)
CONSTANTS
  Devices,    \* device ids
  Operators,  \* goroutines that call SetAlias or DeleteAlias
  Handlers,   \* goroutines of connections that are being set up
  Names,      \* aliases an operator chooses
  WiFi,       \* an automatic alias
  NoAlias,    \* the empty alias
  None        \* no session, no device

ASSUME AliasAssumption ==
  /\ NoAlias \notin Names \cup {WiFi}
  /\ None \notin Devices \cup Names \cup {WiFi, NoAlias}
  /\ Operators \cap Handlers = {}

Alias == Names \cup {WiFi, NoAlias}
Actors == Operators \cup Handlers

VARIABLES
  aliases,   \* the store
  shown,     \* Alias of the session of a device; None if it has no session
  on,        \* the device that an actor is at work on; None when it is idle
  carried,   \* the alias that it has put into, or taken from, the store
  alone,     \* history: actors at work that no other one has overlapped
  doubtful   \* history: devices of whose last work that ended this is not
             \* true, or that could not be saved

saVars == <<aliases, shown, on, carried, alone, doubtful>>

TypeOK ==
  /\ aliases \in [Devices -> Alias]
  /\ shown \in [Devices -> Alias \cup {None}]
  /\ on \in [Actors -> Devices \cup {None}]
  /\ carried \in [Actors -> Alias]
  /\ alone \subseteq Actors
  /\ doubtful \subseteq Devices

Init ==
  /\ aliases = [d \in Devices |-> NoAlias]
  /\ shown = [d \in Devices |-> None]
  /\ on = [x \in Actors |-> None]
  /\ carried = [x \in Actors |-> NoAlias]
  /\ alone = {} /\ doubtful = {}

-----------------------------------------------------------------------------
\* Actor x has dealt with the store, and the session of d is next.
Begin(x, d, a) ==
  /\ on[x] = None
  /\ on' = [on EXCEPT ![x] = d]
  /\ carried' = [carried EXCEPT ![x] = a]
  /\ LET others == {y \in Actors : on[y] = d}
     IN  alone' = IF others = {} THEN alone \cup {x} ELSE alone \ others
  /\ UNCHANGED <<shown, doubtful>>

\* The call of x on d is over.
Finish(x, d) ==
  /\ on[x] = d
  /\ on' = [on EXCEPT ![x] = None]
  /\ carried' = [carried EXCEPT ![x] = NoAlias]
  /\ alone' = alone \ {x}
  /\ doubtful' = IF x \in alone THEN doubtful \ {d} ELSE doubtful \cup {d}

\* SetAlias, and DeleteAlias with NoAlias: the store is changed and saved.
ChangeAlias(o, d) ==
  \E a \in Names \cup {NoAlias} :
    /\ Begin(o, d, a)
    /\ aliases' = [aliases EXCEPT ![d] = a]

\* The store could not save the change: the call ends with that error, and
\* the store keeps the change.
ChangeUnsaved(o, d) ==
  /\ on[o] = None
  /\ \E a \in Names \cup {NoAlias} : aliases' = [aliases EXCEPT ![d] = a]
  /\ doubtful' = doubtful \cup {d}
  /\ alone' = alone \ {y \in Actors : on[y] = d}
  /\ UNCHANGED <<shown, on, carried>>

\* Fault: a deleted alias stays with the session.
BugUpdateSession(o, d) ==
  /\ Finish(o, d)
  /\ shown' = [shown EXCEPT ![d] = IF @ = None \/ carried[o] = NoAlias
                                   THEN @ ELSE carried[o]]
  /\ UNCHANGED aliases

\* The session of the device, if it has one, gets the alias.
UpdateSession(o, d) ==
  /\ Finish(o, d)
  /\ shown' = [shown EXCEPT ![d] = IF @ = None THEN None ELSE carried[o]]
  /\ UNCHANGED aliases

\* GetAlias, or EnsureAutoAlias for a device that has none.
ReadAlias(h, d) ==
  \/ /\ aliases[d] # NoAlias
     /\ Begin(h, d, aliases[d])
     /\ UNCHANGED aliases
  \/ /\ aliases[d] = NoAlias
     /\ Begin(h, d, WiFi)
     /\ aliases' = [aliases EXCEPT ![d] = WiFi]

\* The automatic alias could not be saved: the handler goes on without one,
\* and the store keeps it.
ReadUnsaved(h, d) ==
  /\ aliases[d] = NoAlias /\ on[h] = None
  /\ on' = [on EXCEPT ![h] = d]
  /\ carried' = [carried EXCEPT ![h] = NoAlias]
  /\ aliases' = [aliases EXCEPT ![d] = WiFi]
  /\ alone' = alone \ {y \in Actors : on[y] = d}
  /\ UNCHANGED <<shown, doubtful>>

\* The new session replaces the one that the device had.
RegisterSession(h, d) ==
  /\ Finish(h, d)
  /\ shown' = [shown EXCEPT ![d] = carried[h]]
  /\ UNCHANGED aliases

\* The handler of the device's session removes it.
RemoveSession(d) ==
  /\ shown[d] # None
  /\ shown' = [shown EXCEPT ![d] = None]
  /\ UNCHANGED <<aliases, on, carried, alone, doubtful>>

OperatorStep(o, d) == ChangeAlias(o, d) \/ ChangeUnsaved(o, d) \/ UpdateSession(o, d)

HandlerStep(h, d) == ReadAlias(h, d) \/ ReadUnsaved(h, d) \/ RegisterSession(h, d)

Next ==
  \E d \in Devices :
    \/ \E o \in Operators : OperatorStep(o, d)
    \/ \E h \in Handlers : HandlerStep(h, d)
    \/ RemoveSession(d)

Spec == Init /\ [][Next]_saVars

-----------------------------------------------------------------------------
(* Safety.                                                                 *)

\* Nobody is at work on the alias of d.
Settled(d) == \A x \in Actors : on[x] # d

\* Whatever has come between the two before, one SetAlias, DeleteAlias or
\* connection of a device that nothing overlaps and that is saved makes its
\* session show the alias that the store has (manager.go:144-179, 236-276).
UndisturbedAgrees ==
  \A d \in Devices :
    Settled(d) /\ d \notin doubtful /\ shown[d] # None => shown[d] = aliases[d]

\* While an actor is at work undisturbed, what it carries is what the store
\* has.
CarriedOK ==
  \A x \in alone : on[x] \in Devices /\ carried[x] = aliases[on[x]]
                   /\ \A y \in Actors : on[y] = on[x] => y = x

\* A device that nobody disturbs agrees, or is being worked on.
AgreesOK ==
  \A d \in Devices :
    d \notin doubtful /\ shown[d] # None =>
      \/ shown[d] = aliases[d]
      \/ \E x \in Actors : on[x] = d

\* Together with the type they are preserved by every step.
AliasInv == TypeOK /\ CarriedOK /\ AgreesOK
=============================================================================
