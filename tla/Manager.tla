------------------------------ MODULE Manager ------------------------------
(***************************************************************************)
(* The device manager of internal/ws/manager.go: the registry of device    *)
(* sessions, the table of pending requests, one handler goroutine per      *)
(* WebSocket connection (handleConnection) and one goroutine per command   *)
(* that an HTTP request sends to a device (SendCommand and                 *)
(* SendCommandNoWait).                                                     *)
(*                                                                         *)
(* A step is what a goroutine does between two points where another one    *)
(* can interfere: one critical section of m.mu, one socket operation, one  *)
(* channel operation or one callback.  A DeviceSession is identified with  *)
(* the connection it was made for, and a request id with its command       *)
(* (generateReqID numbers them from an atomic counter).  Time, aliases,    *)
(* LastSeenAt and the payloads are left out.                               *)
(***************************************************************************)
CONSTANTS
  Devices,   \* device ids
  Conns,     \* WebSocket connections; each one is accepted at most once
  Commands,  \* calls of SendCommand and SendCommandNoWait
  None       \* the nil session

ASSUME NoneAssumption == None \notin Conns /\ None \notin Devices

VARIABLES
  sessions,  \* m.sessions: the current session of each device
  pending,   \* m.pending: the request ids each device still has to answer
  hpc,       \* what the handler of a connection does next
  dev,       \* the device a connection has identified itself as
  old,       \* oldSession: the session that this connection displaced
  conn,      \* the socket: "new", "open" or "closed" on our side
  cpc,       \* what the goroutine of a command does next
  target,    \* the device a command is for
  via,       \* the session that the command looked up
  timer,     \* the command's time.AfterFunc timer
  ch,        \* the command's ReqChan
  outcome    \* what the call returned

mgrVars  == <<sessions, pending>>
connVars == <<hpc, dev, old, conn>>
callVars == <<cpc, target, via, timer, ch, outcome>>
vars     == <<mgrVars, connVars, callVars>>

-----------------------------------------------------------------------------
(* Messages, channels and timers.                                          *)

\* A reply names the request that it answers (its req_id) and comes from a
\* connection.
NoMsg        == [kind |-> "none", from |-> None, to |-> None]
Result(kind) == [kind |-> kind, from |-> None, to |-> None]
Reply(c, k)  == [kind |-> "reply", from |-> c, to |-> k]
Msg          == [kind : {"none", "reply", "disconnected", "timeout",
                         "not_found", "send_failed", "accepted"},
                 from : Conns \cup {None},
                 to   : Commands \cup {None}]

\* A channel of capacity one.  broken records what Go answers with a panic:
\* a send on a closed channel, or a second close.
Chan == [msg : Msg, closed : BOOLEAN, broken : BOOLEAN]

NewChan == [msg |-> NoMsg, closed |-> FALSE, broken |-> FALSE]

\* A send that gives up when the buffer is full (select with a default, or
\* with the 100 ms of handleResponse).
Offer(q, m) == [msg    |-> IF q.closed \/ q.msg # NoMsg THEN q.msg ELSE m,
                closed |-> q.closed,
                broken |-> q.broken \/ q.closed]

Close(q) == [msg |-> q.msg, closed |-> TRUE, broken |-> q.broken \/ q.closed]

Drained(q) == [msg |-> NoMsg, closed |-> q.closed, broken |-> q.broken]

Stop(t) == IF t = "armed" THEN "stopped" ELSE t

HandlerStates == {"new", "connect", "register", "closeOld", "loop", "cleanup",
                  "closing", "done"}
CallStates    == {"idle", "arm", "register", "send", "unregister", "wait",
                  "post", "done"}

\* Handlers that have identified their device, and calls that hold a session.
Identified == {"register", "closeOld", "loop", "cleanup"}
Sending    == {"arm", "register", "send", "unregister", "wait", "post"}

\* The last two conjuncts say that no handler works for a nameless device and
\* that no call uses a nil session.
TypeOK ==
  /\ sessions \in [Devices -> Conns \cup {None}]
  /\ pending \in [Devices -> SUBSET Commands]
  /\ hpc \in [Conns -> HandlerStates]
  /\ dev \in [Conns -> Devices \cup {None}]
  /\ old \in [Conns -> Conns \cup {None}]
  /\ conn \in [Conns -> {"new", "open", "closed"}]
  /\ cpc \in [Commands -> CallStates]
  /\ target \in [Commands -> Devices \cup {None}]
  /\ via \in [Commands -> Conns \cup {None}]
  /\ timer \in [Commands -> {"unset", "armed", "stopped", "fired"}]
  /\ ch \in [Commands -> Chan]
  /\ outcome \in [Commands -> Msg]
  /\ \A c \in Conns : hpc[c] \in Identified => dev[c] \in Devices
  /\ \A k \in Commands : cpc[k] \in Sending => /\ target[k] \in Devices
                                               /\ via[k] \in Conns

Init ==
  /\ sessions = [d \in Devices |-> None]
  /\ pending = [d \in Devices |-> {}]
  /\ hpc = [c \in Conns |-> "new"]
  /\ dev = [c \in Conns |-> None]
  /\ old = [c \in Conns |-> None]
  /\ conn = [c \in Conns |-> "new"]
  /\ cpc = [k \in Commands |-> "idle"]
  /\ target = [k \in Commands |-> None]
  /\ via = [k \in Commands |-> None]
  /\ timer = [k \in Commands |-> "unset"]
  /\ ch = [k \in Commands |-> NewChan]
  /\ outcome = [k \in Commands |-> NoMsg]

-----------------------------------------------------------------------------
(* The handler of a connection.                                            *)

HandlerGoes(c, from, to) ==
  /\ hpc[c] = from
  /\ hpc' = [hpc EXCEPT ![c] = to]

\* HandleUpgrade: the socket is up and its handler goroutine starts.
Accept(c) ==
  /\ HandlerGoes(c, "new", "connect")
  /\ conn' = [conn EXCEPT ![c] = "open"]
  /\ UNCHANGED <<dev, old, mgrVars, callVars>>

\* The first message is a connect with a valid token and a device id.
ReadConnect(c, d) ==
  /\ HandlerGoes(c, "connect", "register")
  /\ dev' = [dev EXCEPT ![c] = d]
  /\ UNCHANGED <<old, conn, mgrVars, callVars>>

\* It cannot be read, or its token or device id is refused.
RefuseConnect(c) ==
  /\ HandlerGoes(c, "connect", "closing")
  /\ UNCHANGED <<dev, old, conn, mgrVars, callVars>>

\* The new session replaces whatever session the device had.
Register(c) ==
  /\ HandlerGoes(c, "register", "closeOld")
  /\ old' = [old EXCEPT ![c] = sessions[dev[c]]]
  /\ sessions' = [sessions EXCEPT ![dev[c]] = c]
  /\ UNCHANGED <<dev, conn, pending, callVars>>

\* Fault: the displaced connection is forgotten, not closed.
BugCloseOld(c) ==
  /\ HandlerGoes(c, "closeOld", "loop")
  /\ UNCHANGED <<dev, old, conn, mgrVars, callVars>>

\* The displaced connection is closed; then the connect response is written,
\* whose errors are ignored.  (The program registers no onConnect and no
\* onDisconnect callback.)
CloseOld(c) ==
  /\ HandlerGoes(c, "closeOld", "loop")
  /\ conn' = [x \in Conns |-> IF x = old[c] THEN "closed" ELSE conn[x]]
  /\ UNCHANGED <<dev, old, mgrVars, callVars>>

\* The command has been written to a socket: its request id can come back.
OnWire(k) ==
  \/ cpc[k] = "wait"
  \/ outcome[k].kind \in {"reply", "disconnected", "timeout", "accepted"}

\* Fault: the pending request is found by its id alone, for any device.
BugAnyDevice(d, k, m) ==
  LET found == \E x \in Devices : k \in pending[x]
  IN  /\ pending' = [x \in Devices |-> pending[x] \ {k}]
      /\ timer' = [timer EXCEPT ![k] = IF found THEN Stop(@) ELSE @]
      /\ ch' = [ch EXCEPT ![k] = IF found THEN Offer(@, m) ELSE @]

\* Fault: the response is given to any request that the device has pending.
BugAnyRequest(d, k, m) ==
  \E x \in pending[d] \cup {k} :
    /\ pending' = [pending EXCEPT ![d] = @ \ {x}]
    /\ timer' = [timer EXCEPT ![x] = IF x \in pending[d] THEN Stop(@) ELSE @]
    /\ ch' = [ch EXCEPT ![x] = IF x \in pending[d] THEN Offer(@, m) ELSE @]

\* A response of device d to request k: the first one wins, a late or
\* repeated one finds no pending request.
HandleResponse(d, k, m) ==
  /\ pending' = [pending EXCEPT ![d] = @ \ {k}]
  /\ timer' = [timer EXCEPT ![k] = IF k \in pending[d] THEN Stop(@) ELSE @]
  /\ ch' = [ch EXCEPT ![k] = IF k \in pending[d] THEN Offer(@, m) ELSE @]

\* The message loop reads a response.  The reader may still hold frames of a
\* socket that has been closed, so conn is not asked.
ReadResponse(c, k) ==
  /\ hpc[c] = "loop"
  /\ OnWire(k)
  /\ HandleResponse(dev[c], k, Reply(c, k))
  /\ UNCHANGED <<sessions, connVars, cpc, target, via, outcome>>

\* The read fails: the peer is gone, the read deadline has passed, or the
\* socket has been closed on our side.
ReadError(c) ==
  /\ HandlerGoes(c, "loop", "cleanup")
  /\ UNCHANGED <<dev, old, conn, mgrVars, callVars>>

\* Fault: the pending requests are dropped and nobody is told.
BugDrain(d) ==
  /\ pending' = [pending EXCEPT ![d] = {}]
  /\ UNCHANGED <<timer, ch>>

\* Fault: the channels are closed without the message.
BugDrainClose(d) ==
  /\ ch' = [k \in Commands |-> IF k \in pending[d] THEN Close(ch[k]) ELSE ch[k]]
  /\ timer' = [k \in Commands |->
                 IF k \in pending[d] THEN Stop(timer[k]) ELSE timer[k]]
  /\ pending' = [pending EXCEPT ![d] = {}]

\* Every request that is pending for the device is answered "disconnected".
Drain(d) ==
  /\ ch' = [k \in Commands |->
              IF k \in pending[d]
              THEN Close(Offer(ch[k], Result("disconnected"))) ELSE ch[k]]
  /\ timer' = [k \in Commands |->
                 IF k \in pending[d] THEN Stop(timer[k]) ELSE timer[k]]
  /\ pending' = [pending EXCEPT ![d] = {}]

\* Fault: a displaced handler cleans up after its successor.
BugCleanup(c) ==
  /\ HandlerGoes(c, "cleanup", "closing")
  /\ sessions' = [sessions EXCEPT ![dev[c]] = None]
  /\ Drain(dev[c])
  /\ UNCHANGED <<dev, old, conn, cpc, target, via, outcome>>

\* The session is removed and its requests drained, unless it was displaced.
Cleanup(c) ==
  /\ HandlerGoes(c, "cleanup", "closing")
  /\ \/ /\ sessions[dev[c]] = c
        /\ sessions' = [sessions EXCEPT ![dev[c]] = None]
        /\ Drain(dev[c])
     \/ /\ sessions[dev[c]] # c
        /\ UNCHANGED <<sessions, pending, timer, ch>>
  /\ UNCHANGED <<dev, old, conn, cpc, target, via, outcome>>

\* The deferred conn.Close().
CloseConn(c) ==
  /\ HandlerGoes(c, "closing", "done")
  /\ conn' = [conn EXCEPT ![c] = "closed"]
  /\ UNCHANGED <<dev, old, mgrVars, callVars>>

-----------------------------------------------------------------------------
(* The goroutine of a command.                                             *)

CallGoes(k, from, to) ==
  /\ cpc[k] = from
  /\ cpc' = [cpc EXCEPT ![k] = to]

CallReturns(k, from, m) ==
  /\ CallGoes(k, from, "done")
  /\ outcome' = [outcome EXCEPT ![k] = m]

\* Both calls first look the session up and give up if there is none.
LookUp(k, d, next) ==
  /\ target' = [target EXCEPT ![k] = d]
  /\ \/ /\ sessions[d] = None
        /\ CallReturns(k, "idle", Result("not_found"))
        /\ UNCHANGED via
     \/ /\ sessions[d] # None
        /\ CallGoes(k, "idle", next)
        /\ via' = [via EXCEPT ![k] = sessions[d]]
        /\ UNCHANGED outcome
  /\ UNCHANGED <<mgrVars, connVars, timer, ch>>

SendCommand(k, d) == LookUp(k, d, "arm")

SendCommandNoWait(k, d) == LookUp(k, d, "post")

\* time.AfterFunc: from here on the timer may fire.
ArmTimer(k) ==
  /\ CallGoes(k, "arm", "register")
  /\ timer' = [timer EXCEPT ![k] = "armed"]
  /\ UNCHANGED <<mgrVars, connVars, target, via, ch, outcome>>

RegisterPending(k) ==
  /\ CallGoes(k, "register", "send")
  /\ pending' = [pending EXCEPT ![target[k]] = @ \cup {k}]
  /\ UNCHANGED <<sessions, connVars, target, via, timer, ch, outcome>>

\* SendJSON on the session that was looked up: it fails on a closed socket
\* and may fail on an open one.
SendJSON(k) ==
  /\ \/ CallGoes(k, "send", "wait") /\ conn[via[k]] = "open"
     \/ CallGoes(k, "send", "unregister")
  /\ UNCHANGED <<mgrVars, connVars, target, via, timer, ch, outcome>>

\* Fault: the error path forgets the pending request.
BugUnregister(k) ==
  /\ CallReturns(k, "unregister", Result("send_failed"))
  /\ timer' = [timer EXCEPT ![k] = Stop(@)]
  /\ UNCHANGED <<mgrVars, connVars, target, via, ch>>

\* The error path of SendJSON.  The timer is stopped after the lock is
\* released; it finds nothing to do if it fires in between.
Unregister(k) ==
  /\ CallReturns(k, "unregister", Result("send_failed"))
  /\ pending' = [pending EXCEPT ![target[k]] = @ \ {k}]
  /\ timer' = [timer EXCEPT ![k] = Stop(@)]
  /\ UNCHANGED <<sessions, connVars, target, via, ch>>

\* <-reqChan yields a message, or the zero value of a closed channel.
Receive(k) ==
  /\ \/ /\ ch[k].msg # NoMsg
        /\ CallReturns(k, "wait", ch[k].msg)
        /\ ch' = [ch EXCEPT ![k] = Drained(@)]
     \/ /\ ch[k].msg = NoMsg
        /\ ch[k].closed
        /\ CallReturns(k, "wait", Result("timeout"))
        /\ UNCHANGED ch
  /\ UNCHANGED <<mgrVars, connVars, target, via, timer>>

\* Fault: the timer closes the channel without looking for the request.
BugTimeout(k) ==
  /\ timer[k] = "armed"
  /\ timer' = [timer EXCEPT ![k] = "fired"]
  /\ ch' = [ch EXCEPT ![k] = Close(@)]
  /\ UNCHANGED <<mgrVars, connVars, cpc, target, via, outcome>>

\* Fault: the timer removes the request and leaves the channel open.
BugTimeoutSilent(k) ==
  /\ timer[k] = "armed"
  /\ timer' = [timer EXCEPT ![k] = "fired"]
  /\ pending' = [pending EXCEPT ![target[k]] = @ \ {k}]
  /\ UNCHANGED <<sessions, connVars, cpc, target, via, ch, outcome>>

\* The timer's function: it ends the request if it is (still, or already)
\* in the table.
Timeout(k) ==
  /\ timer[k] = "armed"
  /\ timer' = [timer EXCEPT ![k] = "fired"]
  /\ pending' = [pending EXCEPT ![target[k]] = @ \ {k}]
  /\ ch' = [ch EXCEPT ![k] = IF k \in pending[target[k]] THEN Close(@) ELSE @]
  /\ UNCHANGED <<sessions, connVars, cpc, target, via, outcome>>

\* SendCommandNoWait writes and returns at once.
Post(k) ==
  /\ \/ CallReturns(k, "post", Result("accepted")) /\ conn[via[k]] = "open"
     \/ CallReturns(k, "post", Result("send_failed"))
  /\ UNCHANGED <<mgrVars, connVars, target, via, timer, ch>>

-----------------------------------------------------------------------------
HandlerStep(c) ==
  \/ Register(c) \/ CloseOld(c) \/ Cleanup(c) \/ CloseConn(c)

PeerStep(c) ==
  \/ Accept(c) \/ RefuseConnect(c) \/ ReadError(c)
  \/ \E d \in Devices : ReadConnect(c, d)
  \/ \E k \in Commands : ReadResponse(c, k)

CallStep(k) ==
  \/ ArmTimer(k) \/ RegisterPending(k) \/ SendJSON(k)
  \/ Unregister(k) \/ Receive(k) \/ Post(k)

ClientStep(k) == \E d \in Devices : SendCommand(k, d) \/ SendCommandNoWait(k, d)

Next ==
  \/ \E c \in Conns : HandlerStep(c) \/ PeerStep(c)
  \/ \E k \in Commands : CallStep(k) \/ ClientStep(k) \/ Timeout(k)

Spec == Init /\ [][Next]_vars

\* The Go scheduler runs every goroutine that can run, timers fire, and a
\* read on a socket that we have closed fails.  Peers owe us nothing.
Fairness ==
  /\ \A c \in Conns : /\ WF_vars(HandlerStep(c))
                      /\ WF_vars(conn[c] = "closed" /\ ReadError(c))
  /\ \A k \in Commands : WF_vars(CallStep(k)) /\ WF_vars(Timeout(k))

FairSpec == Spec /\ Fairness

-----------------------------------------------------------------------------
(* Safety.                                                                 *)

\* No goroutine sends on a closed channel or closes a channel twice: the
\* timer, a response and the drain of a disconnect never finish the same
\* request (manager.go:339-346, 415-429, 495-504).
NoChannelPanic == \A k \in Commands : ~ch[k].broken

\* A call that waits on its channel either is still in the table, where a
\* response, the drain or the timer finds it, or has its answer in the
\* channel: no path removes a request without waking its caller.
WaiterHasWaker ==
  \A k \in Commands :
    cpc[k] = "wait" => \/ k \in pending[target[k]]
                       \/ ch[k].msg # NoMsg
                       \/ ch[k].closed

\* A call that has returned leaves neither a pending entry nor a running
\* timer behind, whichever way it ended.
FinishedCallsHoldNothing ==
  \A k \in Commands :
    cpc[k] = "done" => /\ timer[k] # "armed"
                       /\ \A d \in Devices : k \notin pending[d]

\* What a call returns as a reply answers this very request, not another one
\* that was pending beside it, and was read from a connection of the device
\* that the command was for (manager.go:415-429).
RepliesAreOwn ==
  \A k \in Commands :
    outcome[k].kind = "reply" => /\ outcome[k].to = k
                                 /\ outcome[k].from \in Conns
                                 /\ dev[outcome[k].from] = target[k]

\* A connection whose handler serves a device but is no longer its session
\* is closed, or its successor is about to close it: a displaced connection
\* never lingers half-attached.
DisplacedIsClosed ==
  \A c \in Conns :
    /\ hpc[c] \in {"closeOld", "loop"}
    /\ sessions[dev[c]] # c
    => \/ conn[c] = "closed"
       \/ \E x \in Conns : old[x] = c /\ hpc[x] = "closeOld"

\* A device's session is only removed by the handler of that very session,
\* on its way out: a displaced handler never unregisters its successor.
OnlyOwnerRemoves ==
  [][\A d \in Devices :
       sessions[d] # None /\ sessions'[d] = None =>
         hpc[sessions[d]] = "cleanup" /\ hpc'[sessions[d]] = "closing"]_vars

\* When a device goes away, every request registered for it is answered
\* "disconnected" in the same critical section.
OfflineFailsPending ==
  [][\A d \in Devices :
       sessions[d] # None /\ sessions'[d] = None =>
         \A k \in pending[d] : ch'[k].closed
                               /\ ch'[k].msg = Result("disconnected")]_vars

-----------------------------------------------------------------------------
(* The inductive invariant behind the safety properties.                   *)

\* Entries of the table belong to unfinished calls to that device, and
\* nothing has happened to their channels yet.
PendingOK ==
  \A d \in Devices : \A k \in pending[d] :
    /\ target[k] = d
    /\ cpc[k] \in {"send", "unregister", "wait"}
    /\ ch[k] = NewChan

\* Whatever has touched a channel has taken care of the timer first.
ChannelOK ==
  \A k \in Commands :
    /\ ~ch[k].broken
    /\ ch[k] # NewChan => /\ cpc[k] \in {"send", "unregister", "wait", "done"}
                          /\ timer[k] # "armed"

TimerOK ==
  \A k \in Commands :
    /\ cpc[k] \in {"idle", "arm", "post"} => timer[k] = "unset"
    /\ cpc[k] = "done" => timer[k] # "armed"

WakerOK ==
  \A k \in Commands :
    cpc[k] \in {"send", "wait"} => \/ k \in pending[target[k]]
                                  \/ ch[k].msg # NoMsg
                                  \/ ch[k].closed

\* A message kept for call k, or returned by it, is genuine.
GoodMsg(k, m) ==
  m.kind = "reply" => /\ m.to = k
                      /\ m.from \in Conns
                      /\ hpc[m.from] \notin {"new", "connect"}
                      /\ dev[m.from] = target[k]

ReplyOK ==
  \A k \in Commands : /\ GoodMsg(k, ch[k].msg)
                      /\ GoodMsg(k, outcome[k])
                      /\ cpc[k] # "done" => outcome[k] = NoMsg

\* A channel holds a reply only for a call that has got as far as its wait.
MessageOK ==
  \A k \in Commands :
    \/ ch[k].msg \in {NoMsg, Result("disconnected")}
    \/ cpc[k] = "wait" /\ \E c \in Conns : ch[k].msg = Reply(c, k)

\* The session of a device is one that its handler has registered for it.
SessionOK ==
  \A d \in Devices :
    sessions[d] # None => /\ dev[sessions[d]] = d
                          /\ hpc[sessions[d]] \in {"closeOld", "loop", "cleanup"}

\* Everything above at once: preserved by every step on its own.
IInv == /\ TypeOK /\ PendingOK /\ ChannelOK /\ TimerOK /\ WakerOK
        /\ ReplyOK /\ MessageOK /\ SessionOK /\ DisplacedIsClosed

-----------------------------------------------------------------------------
(* The promise to the callers, and how this module keeps it.               *)

\* A call that has not reached its wait has no verdict yet: a timer or a
\* drain that ran meanwhile shows in ch and counts once the write is done.
Verdict(k) ==
  CASE cpc[k] = "done"                        -> outcome[k].kind
    [] cpc[k] = "wait" /\ ch[k].msg # NoMsg    -> ch[k].msg.kind
    [] cpc[k] = "wait" /\ ch[k].msg = NoMsg /\ ch[k].closed -> "timeout"
    [] OTHER                                  -> "none"

Stage(k) == CASE cpc[k] \in {"idle", "done"} -> cpc[k]
              [] cpc[k] = "wait"             -> "sent"
              [] OTHER                       -> "calling"

Promise == INSTANCE Calls WITH
  Nobody  <- None,
  present <- {d \in Devices : sessions[d] # None},
  stage   <- [k \in Commands |-> Stage(k)],
  verdict <- [k \in Commands |-> Verdict(k)]

\* The manager implements Calls: one verdict per sent command, which is the
\* one returned, and none left open when the device goes away.
CallsKept == Promise!CallsSpec

-----------------------------------------------------------------------------
(* Liveness.                                                               *)

\* The timer has fired before the request was in the table, so that nothing
\* but the device or its disconnection can end the call any more.
Stranded(k) == timer[k] = "fired" /\ (cpc[k] = "register" \/ k \in pending[target[k]])

\* Every call that has started returns, unless its timer fired between
\* time.AfterFunc (manager.go:495) and the registration (510).
CallsReturnOrStrand ==
  \A k \in Commands : cpc[k] # "idle" ~> cpc[k] = "done" \/ Stranded(k)

\* The handler of a displaced connection terminates.
DisplacedFinishes ==
  \A c, x \in Conns : old[x] = c ~> hpc[c] = "done"

-----------------------------------------------------------------------------
(* What the repository says and the code does not do.                      *)

\* "SendCommand ... waits for response" for at most its timeout
\* (manager.go:458, INTERFACES.md section 7): every call returns.
CallsReturn == \A k \in Commands : cpc[k] # "idle" ~> cpc[k] = "done"
=============================================================================
