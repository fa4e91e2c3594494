---------------------------- MODULE EventStream ----------------------------
(***************************************************************************)
(* How the events of devices reach the clients of GET /v1/events/stream:   *)
(* the handler of a connection reads a message, Emit (see Broadcaster)     *)
(* calls forwardEventToStreams in that goroutine, and this offers the      *)
(* event to the buffered channel of every stream that is registered,       *)
(* without waiting (internal/httpapi/server.go).  One goroutine per stream *)
(* takes events from its channel and writes them to its client, which may  *)
(* be slow, stall or leave.                                                *)
(*                                                                         *)
(* The other cases of the stream's select (heartbeat) change no state.     *)
(***************************************************************************)
EXTENDS Broadcaster

CONSTANTS
  Streams,    \* event stream requests
  Cap         \* capacity of a stream's channel (32 in the code)

ASSUME StreamAssumption == Cap \in Nat \ {0}

VARIABLES
  gone,     \* the connections whose handler has left its message loop
  batch,    \* the streams that a handler still has to offer its event to
  streams,  \* s.eventStreams: the registered streams
  ended,    \* the streams whose request is over
  queue,    \* the channel of a stream
  written   \* the last event of each connection that a client has been sent

stVars == <<streams, ended, queue, written>>
esVars == <<bcVars, gone, batch, stVars>>

Event == [from : Conns, n : 1..MaxEvents]

TypeOK ==
  /\ BCTypeOK
  /\ gone \subseteq Conns
  /\ batch \in [Conns -> SUBSET Streams]
  /\ streams \subseteq Streams /\ ended \subseteq Streams
  /\ queue \in [Streams -> Seq(Event)] /\ \A s \in Streams : Len(queue[s]) <= Cap
  /\ written \in [Streams -> [Conns -> 0..MaxEvents]]

Init ==
  /\ BCInit
  /\ gone = {}
  /\ batch = [c \in Conns |-> {}]
  /\ streams = {} /\ ended = {}
  /\ queue = [s \in Streams |-> <<>>]
  /\ written = [s \in Streams |-> [c \in Conns |-> 0]]

-----------------------------------------------------------------------------
(* The handler of a connection.                                            *)

\* The handler waits for a message.
Reading(c) == c \notin gone /\ todo[c] = <<>> /\ batch[c] = {}

\* An event message is read.
ReadEvent(c) ==
  /\ Reading(c) /\ Emit(c)
  /\ UNCHANGED <<gone, batch, stVars>>

\* The next listener is called.  forwardEventToStreams begins by copying the
\* registered streams.
CallListener(c) ==
  /\ batch[c] = {} /\ Call(c)
  /\ batch' = IF Head(todo[c]) = Streaming THEN [batch EXCEPT ![c] = streams] ELSE batch
  /\ UNCHANGED <<gone, stVars>>

\* Fault: the channel has no limit.
BugOfferAlways(c, s) ==
  /\ s \in batch[c]
  /\ queue' = [queue EXCEPT ![s] = Append(@, [from |-> c, n |-> count[c]])]
  /\ batch' = [batch EXCEPT ![c] = @ \ {s}]
  /\ UNCHANGED <<bcVars, gone, streams, ended, written>>

\* Fault: the send waits until there is room.
BugOffer(c, s) ==
  /\ s \in batch[c]
  /\ Len(queue[s]) < Cap
  /\ queue' = [queue EXCEPT ![s] = Append(@, [from |-> c, n |-> count[c]])]
  /\ batch' = [batch EXCEPT ![c] = @ \ {s}]
  /\ UNCHANGED <<bcVars, gone, streams, ended, written>>

\* The event goes to the next stream of the copy, or is dropped if its
\* channel is full.
Offer(c, s) ==
  /\ s \in batch[c]
  /\ queue' = [queue EXCEPT ![s] = IF Len(@) < Cap
                                   THEN Append(@, [from |-> c, n |-> count[c]])
                                   ELSE @]
  /\ batch' = [batch EXCEPT ![c] = @ \ {s}]
  /\ UNCHANGED <<bcVars, gone, streams, ended, written>>

\* The device is gone: its handler leaves the loop and removes its session.
Leave(c) ==
  /\ Reading(c)
  /\ gone' = gone \cup {c}
  /\ UNCHANGED <<bcVars, batch, stVars>>

-----------------------------------------------------------------------------
(* The goroutine of a stream.                                              *)

Open(s) ==
  /\ s \notin streams \cup ended
  /\ streams' = streams \cup {s}
  /\ UNCHANGED <<bcVars, gone, batch, ended, queue, written>>

\* Fault: only the newest of the waiting events is written.
BugCoalesce(s) ==
  /\ s \in streams
  /\ queue[s] # <<>>
  /\ queue' = [queue EXCEPT ![s] = <<>>]
  /\ written' = [written EXCEPT ![s][Last(queue[s]).from] = Last(queue[s]).n]
  /\ UNCHANGED <<bcVars, gone, batch, streams, ended>>

\* Fault: the last event is taken first.
BugWriteEvent(s) ==
  /\ s \in streams
  /\ queue[s] # <<>>
  /\ queue' = [queue EXCEPT ![s] = Front(@)]
  /\ written' = [written EXCEPT ![s][Last(queue[s]).from] = Last(queue[s]).n]
  /\ UNCHANGED <<bcVars, gone, batch, streams, ended>>

\* An event is taken from the channel and written to the client.
WriteEvent(s) ==
  /\ s \in streams
  /\ queue[s] # <<>>
  /\ queue' = [queue EXCEPT ![s] = Tail(@)]
  /\ written' = [written EXCEPT ![s][Head(queue[s]).from] = Head(queue[s]).n]
  /\ UNCHANGED <<bcVars, gone, batch, streams, ended>>

\* Fault: the request ends and leaves its channel registered.
BugClose(s) ==
  /\ s \in streams \ ended
  /\ ended' = ended \cup {s}
  /\ UNCHANGED <<bcVars, gone, batch, streams, queue, written>>

\* The client leaves or a write to it fails, possibly that of an event: the
\* deferred function forgets the channel.
Close(s) ==
  /\ s \in streams
  /\ streams' = streams \ {s}
  /\ ended' = ended \cup {s}
  /\ queue' \in {queue, [queue EXCEPT ![s] = IF @ = <<>> THEN @ ELSE Tail(@)]}
  /\ UNCHANGED <<bcVars, gone, batch, written>>

-----------------------------------------------------------------------------
Forward(c) == CallListener(c) \/ \E s \in Streams : Offer(c, s)

Next ==
  \/ \E c \in Conns : ReadEvent(c) \/ Forward(c) \/ Leave(c)
  \/ \E s \in Streams : Open(s) \/ WriteEvent(s) \/ Close(s)
  \/ BCNext /\ UNCHANGED <<gone, batch, stVars>>

Spec == Init /\ [][Next]_esVars

\* The Go scheduler runs the handlers, and listeners return.  Neither devices
\* nor clients owe us anything; a write to a client may block for ever.
FairSpec == Spec /\ \A c \in Conns : WF_esVars(Forward(c))

-----------------------------------------------------------------------------
(* Safety.                                                                 *)

\* The places in the channel of s where events of c wait, and 0 for the last one
\* that the client has been sent; the number of the event in such a place.
Places(c, s) == {0} \cup {i \in DOMAIN queue[s] : queue[s][i].from = c}
Number(c, s, i) == IF i = 0 THEN written[s][c] ELSE queue[s][i].n

\* A client gets the events of a connection in the order in which the device
\* sent them, each one at most once, however full its channel was in between.
OrderKept ==
  \A s \in Streams, c \in Conns : \A i, j \in Places(c, s) :
    i < j => Number(c, s, i) < Number(c, s, j)

\* No event that is read after the end of a request is offered to its
\* channel: what may still arrive there is what handlers had copied the list
\* of streams for (server.go:340-345, 386-391).
EndedGetsNoNewEvent ==
  [][\A c \in Conns, s \in ended : s \in batch'[c] => s \in batch[c]]_esVars

-----------------------------------------------------------------------------
(* Liveness.                                                               *)

\* "Drop events for slow subscribers instead of blocking device handling"
\* (server.go:397): a handler that forwards an event gets back to its device,
\* whatever the clients do.
DeviceNeverBlocked ==
  \A c \in Conns : []<>(c \in gone \/ Reading(c))

\* A stream that stays open writes everything that its channel has taken, as
\* long as its client reads on.
QueuedIsWritten ==
  \A s \in Streams :
    WF_esVars(WriteEvent(s)) =>
      \A c \in Conns, n \in 1..MaxEvents :
        [from |-> c, n |-> n] \in ToSet(queue[s])
          ~> s \in ended \/ written[s][c] >= n
=============================================================================
