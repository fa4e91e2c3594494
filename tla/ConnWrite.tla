----------------------------- MODULE ConnWrite ------------------------------
(***************************************************************************)
(* Who writes to the connections of one device, and who waits for whom     *)
(* (internal/ws/manager.go:284, 442-456, 748-770).  SendJSON and Close of  *)
(* a session take its mutex c.mu and keep it while they work; the connect  *)
(* response is written past the mutex, and the handler's deferred Close    *)
(* closes the connection past it, too.                                     *)
(*                                                                         *)
(* A write to a client that takes nothing blocks until the client goes on  *)
(* or the connection is closed: no write of data has a deadline.  Two      *)
(* writes at once make the library panic, which ends the process when the  *)
(* handler's goroutine is the one, or else only the request.  Pings, which *)
(* may be written beside data, and other devices are left out.             *)
(***************************************************************************)
EXTENDS Naturals, FiniteSets

CONSTANTS
  Conns,     \* connections of the device, each one accepted at most once
  Commands,  \* calls of SendJSON for a command
  None       \* no session, no owner

ASSUME ConnAssumption == None \notin Conns \cup Commands

VARIABLES
  current,  \* m.sessions[deviceID]
  hpc,      \* what the handler of a connection does next
  old,      \* the session that it displaced
  cpc,      \* what a command does next
  via,      \* the connection that it was sent to
  mu,       \* the command that owns c.mu of a connection
  closed,   \* the connections that are closed on our side
  stalled,  \* the connections whose client takes nothing
  down      \* whether a panic has ended the process

cwVars == <<current, hpc, old, cpc, via, mu, closed, stalled, down>>

BeforeLoop == {"closeOld", "respond"}

TypeOK ==
  /\ current \in Conns \cup {None}
  /\ hpc \in [Conns -> {"new", "loop", "leaving", "done"} \cup BeforeLoop]
  /\ old \in [Conns -> Conns \cup {None}]
  /\ cpc \in [Commands -> {"idle", "lock", "write", "done"}]
  /\ via \in [Commands -> Conns \cup {None}]
  /\ mu \in [Conns -> Commands \cup {None}]
  /\ closed \subseteq Conns /\ stalled \subseteq Conns
  /\ down \in BOOLEAN
  /\ \A k \in Commands : cpc[k] \in {"lock", "write"} => via[k] \in Conns

Init ==
  /\ current = None
  /\ hpc = [c \in Conns |-> "new"] /\ old = [c \in Conns |-> None]
  /\ cpc = [k \in Commands |-> "idle"] /\ via = [k \in Commands |-> None]
  /\ mu = [c \in Conns |-> None]
  /\ closed = {} /\ stalled = {} /\ down = FALSE

-----------------------------------------------------------------------------
\* The commands that write to c at this moment.
Writing(c) == {k \in Commands : cpc[k] = "write" /\ via[k] = c}

\* Two frames are written to c at once.
Mixed(c) ==
  \/ hpc[c] = "respond" /\ Writing(c) # {}
  \/ Cardinality(Writing(c)) > 1

\* A write to c comes to its end, in success or in error.
CanEnd(c) == c \notin stalled \/ c \in closed

-----------------------------------------------------------------------------
(* The handler of a connection.                                            *)

HandlerGoes(c, from, to) ==
  /\ hpc[c] = from
  /\ hpc' = [hpc EXCEPT ![c] = to]

\* From here on commands find the session.
Register(c) ==
  /\ HandlerGoes(c, "new", "closeOld")
  /\ old' = [old EXCEPT ![c] = current]
  /\ current' = c
  /\ UNCHANGED <<cpc, via, mu, closed, stalled, down>>

\* oldSession.ws.Close(): it waits for the command that writes.
CloseOld(c) ==
  /\ HandlerGoes(c, "closeOld", "respond")
  /\ \/ old[c] = None /\ UNCHANGED closed
     \/ old[c] # None /\ mu[old[c]] = None /\ closed' = closed \cup {old[c]}
  /\ UNCHANGED <<current, old, cpc, via, mu, stalled, down>>

\* sendResponse, whose errors are ignored, has written the connect response;
\* the read deadline is set next.
Respond(c) ==
  /\ HandlerGoes(c, "respond", "loop")
  /\ CanEnd(c)
  /\ UNCHANGED <<current, old, cpc, via, mu, closed, stalled, down>>

\* The read fails because we have closed the connection, or because no pong
\* has come: none comes from a client that takes no ping (see Keepalive).
Expire(c) ==
  /\ c \in closed \cup stalled
  /\ HandlerGoes(c, "loop", "leaving")
  /\ UNCHANGED <<current, old, cpc, via, mu, closed, stalled, down>>

\* Or because the client has gone.
PeerLeaves(c) ==
  /\ HandlerGoes(c, "loop", "leaving")
  /\ UNCHANGED <<current, old, cpc, via, mu, closed, stalled, down>>

\* Fault: the deferred function is the session's Close, with its mutex.
BugLeave(c) ==
  /\ HandlerGoes(c, "leaving", "done")
  /\ mu[c] = None
  /\ current' = IF current = c THEN None ELSE current
  /\ closed' = closed \cup {c}
  /\ UNCHANGED <<old, cpc, via, mu, stalled, down>>

\* The session is removed if it is still this one, and the deferred
\* conn.Close() closes the connection under a write.
Leave(c) ==
  /\ HandlerGoes(c, "leaving", "done")
  /\ current' = IF current = c THEN None ELSE current
  /\ closed' = closed \cup {c}
  /\ UNCHANGED <<old, cpc, via, mu, stalled, down>>

\* The write of the handler meets another one.
Panic(c) ==
  /\ Mixed(c)
  /\ down' = TRUE
  /\ UNCHANGED <<current, hpc, old, cpc, via, mu, closed, stalled>>

-----------------------------------------------------------------------------
(* A command.                                                              *)

CommandGoes(k, from, to) ==
  /\ cpc[k] = from
  /\ cpc' = [cpc EXCEPT ![k] = to]

LookUp(k) ==
  /\ current # None
  /\ CommandGoes(k, "idle", "lock")
  /\ via' = [via EXCEPT ![k] = current]
  /\ UNCHANGED <<current, hpc, old, mu, closed, stalled, down>>

\* Fault: the mutex is not asked for.
BugBeginWrite(k) ==
  /\ CommandGoes(k, "lock", "write")
  /\ mu' = [mu EXCEPT ![via[k]] = k]
  /\ UNCHANGED <<current, hpc, old, via, closed, stalled, down>>

BeginWrite(k) ==
  /\ CommandGoes(k, "lock", "write")
  /\ mu[via[k]] = None
  /\ mu' = [mu EXCEPT ![via[k]] = k]
  /\ UNCHANGED <<current, hpc, old, via, closed, stalled, down>>

\* The write ends, or panics in the goroutine of its request; the mutex is
\* released by a deferred call in either case.
EndWrite(k) ==
  /\ CommandGoes(k, "write", "done")
  /\ CanEnd(via[k]) \/ Mixed(via[k])
  /\ mu' = [mu EXCEPT ![via[k]] = None]
  /\ UNCHANGED <<current, hpc, old, via, closed, stalled, down>>

\* A client stops taking what we write, or takes it again.
Stall(c) ==
  /\ hpc[c] \notin {"new", "done"}
  /\ stalled' \in {stalled \cup {c}, stalled \ {c}} \ {stalled}
  /\ UNCHANGED <<current, hpc, old, cpc, via, mu, closed, down>>

-----------------------------------------------------------------------------
Next ==
  /\ ~down
  /\ \/ \E c \in Conns :
          \/ Register(c) \/ CloseOld(c) \/ Respond(c)
          \/ Expire(c) \/ PeerLeaves(c) \/ Leave(c) \/ Panic(c) \/ Stall(c)
     \/ \E k \in Commands : LookUp(k) \/ BeginWrite(k) \/ EndWrite(k)

Spec == Init /\ [][Next]_cwVars

\* Goroutines that can run do, the mutex is handed to who waits for it, and a
\* client that takes data again and again takes all of a frame.  Clients need
\* neither connect nor go on.
Fairness ==
  /\ \A c \in Conns : /\ WF_cwVars(~down /\ CloseOld(c))
                      /\ SF_cwVars(~down /\ Respond(c))
                      /\ WF_cwVars(~down /\ Expire(c))
                      /\ WF_cwVars(~down /\ Leave(c))
  /\ \A k \in Commands : /\ WF_cwVars(~down /\ BeginWrite(k))
                         /\ SF_cwVars(~down /\ EndWrite(k))

FairSpec == Spec /\ Fairness

-----------------------------------------------------------------------------
(* Safety.                                                                 *)

\* Two writes meet on a connection only in one way: a command that found the
\* session between its registration (manager.go:270) and the connect response
\* (284), and this response; commands never meet each other, and once the
\* handler is in its loop nothing ends the process any more.
OnlyResponseMixes ==
  /\ \A c \in Conns :
       Mixed(c) => hpc[c] = "respond" /\ Cardinality(Writing(c)) = 1
  /\ down => \E c \in Conns : hpc[c] = "respond"

\* The mutex of a connection belongs to the command that writes to it.
OwnerWrites ==
  \A c \in Conns, k \in Commands :
    mu[c] = k <=> cpc[k] = "write" /\ via[k] = c

-----------------------------------------------------------------------------
(* Liveness.                                                               *)

\* The client of c takes nothing and its handler has not come to its loop,
\* where the read deadline would end the connection.
Deaf(c) == c \in stalled \ closed /\ hpc[c] \in BeforeLoop

\* A command that has begun its write ends it, although the timeout of the
\* request does not bound it (manager.go:519): the read deadline closes a
\* connection that takes nothing under the write, unless the client went deaf
\* before the loop.
WritesEnd ==
  \A k \in Commands : cpc[k] = "write" ~> cpc[k] = "done" \/ Deaf(via[k]) \/ down

\* A device that connects again is served, although its handler waits for the
\* mutex of the connection before (manager.go:280), unless this or the new
\* connection went deaf before its loop.
ReconnectIsServed ==
  \A c \in Conns :
    hpc[c] = "closeOld" ~>
      hpc[c] = "loop" \/ Deaf(c) \/ (old[c] # None /\ Deaf(old[c])) \/ down
=============================================================================
