----------------------------- MODULE Broadcaster -----------------------------
(***************************************************************************)
(* EventBroadcaster (internal/ws/events.go): lists of listeners, one for   *)
(* each device and one for all of them, under a lock, and Emit, which      *)
(* copies what it needs of them and then calls one listener after the      *)
(* other without the lock, in the goroutine of the device's handler.  What *)
(* a listener does is left open: EventStream says what the one of the      *)
(* event streams does.                                                     *)
(***************************************************************************)
EXTENDS Naturals, Sequences, SequencesExt

CONSTANTS
  Conns,      \* device connections, each of a device of its own
  Listeners,  \* listeners that come and go
  Streaming,  \* the listener that is there from the start
  MaxEvents   \* bound: events per connection

ASSUME BroadcasterAssumption ==
  Streaming \notin Listeners /\ Conns \notin Conns /\ MaxEvents \in Nat

VARIABLES
  listeners,     \* the listeners for one device
  allListeners,  \* the listeners for all devices
  todo,          \* the listeners that the Emit of a connection has yet to call
  count,         \* the number of events of a connection
  subscribed,    \* history: [to, who]: who has subscribed and not taken it back
  spent,         \* history: listeners that have taken it back
  owed           \* history: the subscribers that an event is still owed to

bcVars == <<listeners, allListeners, todo, count, subscribed, spent, owed>>

Everything == [to : Conns, who : Listeners] \cup [to : {Conns}, who : Listeners \cup {Streaming}]

BCTypeOK ==
  /\ listeners \in [Conns -> Seq(Listeners)]
  /\ allListeners \in Seq(Listeners \cup {Streaming})
  /\ todo \in [Conns -> Seq(Listeners \cup {Streaming})]
  /\ count \in [Conns -> 0..MaxEvents]
  /\ subscribed \subseteq Everything /\ spent \subseteq Listeners
  /\ owed \in [Conns -> SUBSET (Listeners \cup {Streaming})]

\* NewServer subscribes for the streams before the first connection.
BCInit ==
  /\ listeners = [c \in Conns |-> <<>>]
  /\ allListeners = <<Streaming>>
  /\ todo = [c \in Conns |-> <<>>]
  /\ count = [c \in Conns |-> 0]
  /\ subscribed = {[to |-> Conns, who |-> Streaming]} /\ spent = {}
  /\ owed = [c \in Conns |-> {}]

-----------------------------------------------------------------------------
\* Every subscription has an id of its own.
New(l) == l \in Listeners \ spent /\ \A e \in subscribed : e.who # l

Subscribe(l, c) ==
  /\ New(l)
  /\ listeners' = [listeners EXCEPT ![c] = Append(@, l)]
  /\ subscribed' = subscribed \cup {[to |-> c, who |-> l]}
  /\ UNCHANGED <<allListeners, todo, count, spent, owed>>

SubscribeAll(l) ==
  /\ New(l)
  /\ allListeners' = Append(allListeners, l)
  /\ subscribed' = subscribed \cup {[to |-> Conns, who |-> l]}
  /\ UNCHANGED <<listeners, todo, count, spent, owed>>

\* Fault: what comes after the entry is lost with it.
BugWithout(list, l) ==
  IF l \in ToSet(list)
  THEN SubSeq(list, 1, (CHOOSE i \in DOMAIN list : list[i] = l) - 1)
  ELSE list

\* The list without the entry of l, which is found by its id.
Without(list, l) ==
  IF l \in ToSet(list) THEN RemoveAt(list, CHOOSE i \in DOMAIN list : list[i] = l) ELSE list

\* Calling the function again changes nothing.
Unsubscribe(l) ==
  /\ \E e \in subscribed : e.who = l
  /\ listeners' = [c \in Conns |-> Without(listeners[c], l)]
  /\ allListeners' = Without(allListeners, l)
  /\ subscribed' = {e \in subscribed : e.who # l} /\ spent' = spent \cup {l}
  /\ UNCHANGED <<todo, count, owed>>

Emit(c) ==
  /\ count[c] < MaxEvents
  /\ count' = [count EXCEPT ![c] = @ + 1]
  /\ todo' = [todo EXCEPT ![c] = listeners[c] \o allListeners]
  /\ owed' = [owed EXCEPT ![c] = {e.who : e \in {s \in subscribed : s.to \in {c, Conns}}}]
  /\ UNCHANGED <<listeners, allListeners, subscribed, spent>>

\* safeCall: the next listener of the copy is called, subscribed still or not;
\* whether it returns or panics, the one after it is next.
Call(c) ==
  /\ todo[c] # <<>>
  /\ todo' = [todo EXCEPT ![c] = Tail(@)]
  /\ owed' = [owed EXCEPT ![c] = @ \ {Head(todo[c])}]
  /\ UNCHANGED <<listeners, allListeners, count, subscribed, spent>>

BCNext ==
  \E l \in Listeners :
    Unsubscribe(l) \/ SubscribeAll(l) \/ \E c \in Conns : Subscribe(l, c)

-----------------------------------------------------------------------------
\* Everybody who had subscribed when an event came is called for it once, and
\* nobody else, whoever subscribes and unsubscribes in the meantime
\* (events.go:42-78, 83-110).
EveryoneIsTold ==
  \A c \in Conns : ToSet(todo[c]) = owed[c] /\ IsInjective(todo[c])
=============================================================================
