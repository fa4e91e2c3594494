----------------------------- MODULE Keepalive ------------------------------
(***************************************************************************)
(* The keepalive of one connection (handleConnection, manager.go:297-332): *)
(* a goroutine, the pinger, writes a ping at every tick of a ticker, and   *)
(* the handler's read fails when no pong has come for ReadWait.  The       *)
(* connection may be displaced by a later one of its device, commands that *)
(* are written to it may hold it up, and the device may fall silent.       *)
(*                                                                         *)
(* Time passes in steps of one unit.  A goroutine that has something to do *)
(* does it before time passes; what takes time is a write to a device that *)
(* does not take it, and the answer of a device to a ping.  Messages of    *)
(* the device other than pongs do not touch the deadline and are left out. *)
(***************************************************************************)
EXTENDS Integers

CONSTANTS
  PingInterval,  \* defaultPingInterval
  ReadWait,      \* defaultReadDeadline
  WriteWait,     \* defaultWriteDeadline
  MaxAnswer      \* a device that is not silent answers a ping within it

ASSUME KeepaliveAssumption ==
  /\ PingInterval \in Nat \ {0} /\ ReadWait \in Nat \ {0}
  /\ WriteWait \in Nat /\ MaxAnswer \in Nat

VARIABLES
  handler,   \* "reading", "leaving" (the read has failed) or "done"
  deadline,  \* the time left for a read
  isCurrent, \* whether the session of the connection is the device's session
  tick,      \* the time to the next tick
  ticked,    \* whether a tick waits in the ticker's channel
  pinger,    \* "waiting" for a tick, "writing" a ping, or "gone"
  wait,      \* the time that the pinger still waits to write its ping
  busy,      \* whether a command that is being written holds the connection
  pings,     \* the ages of the pings without an answer
  silent,    \* whether the device has stopped answering
  cause      \* history: what ended the read: "nothing", "timeout", "closed"

kaVars == <<handler, deadline, isCurrent, tick, ticked, pinger, wait, busy,
            pings, silent, cause>>

KATypeOK ==
  /\ handler \in {"reading", "leaving", "done"}
  /\ deadline \in 0..ReadWait
  /\ tick \in 1..PingInterval
  /\ pinger \in {"waiting", "writing", "gone"}
  /\ wait \in 0..WriteWait
  /\ isCurrent \in BOOLEAN /\ ticked \in BOOLEAN
  /\ busy \in BOOLEAN /\ silent \in BOOLEAN
  /\ pings \subseteq 0..MaxAnswer
  /\ cause \in {"nothing", "timeout", "closed"}

KAInit ==
  /\ handler = "reading" /\ deadline = ReadWait /\ isCurrent = TRUE
  /\ tick = PingInterval /\ ticked = FALSE
  /\ pinger = "waiting" /\ wait = WriteWait
  /\ busy = FALSE /\ pings = {} /\ silent = FALSE
  /\ cause = "nothing"

-----------------------------------------------------------------------------
(* The pinger.                                                             *)

\* It takes a tick, and ends if its session is not the device's any more.
TakeTick ==
  /\ pinger = "waiting" /\ ticked
  /\ ticked' = FALSE
  /\ pinger' = IF isCurrent THEN "writing" ELSE "gone"
  /\ wait' = WriteWait
  /\ UNCHANGED <<handler, deadline, isCurrent, tick, busy, pings, silent, cause>>

\* Fault: a ping that is written moves the deadline.
BugWritePing ==
  /\ pinger = "writing" /\ ~busy /\ handler # "done"
  /\ pinger' = "waiting"
  /\ pings' = pings \cup {0}
  /\ deadline' = ReadWait
  /\ UNCHANGED <<handler, isCurrent, tick, ticked, wait, busy, silent, cause>>

WritePing ==
  /\ pinger = "writing" /\ ~busy /\ handler # "done"
  /\ pinger' = "waiting"
  /\ pings' = pings \cup {0}
  /\ UNCHANGED <<handler, deadline, isCurrent, tick, ticked, wait, busy, silent, cause>>

\* The ping cannot be written for WriteWait, or the connection is closed: the
\* pinger ends, and the handler does not learn of it.
GiveUp ==
  /\ pinger = "writing"
  /\ handler = "done" \/ (busy /\ wait = 0)
  /\ pinger' = "gone"
  /\ UNCHANGED <<handler, deadline, isCurrent, tick, ticked, wait, busy, pings, silent, cause>>

-----------------------------------------------------------------------------
(* The handler.                                                            *)

SetReadDeadline == deadline' = ReadWait

\* Fault: a pong does not move the deadline.
BugPong ==
  /\ handler = "reading" /\ ~silent
  /\ \E a \in pings : pings' = pings \ {a}
  /\ UNCHANGED <<handler, deadline, isCurrent, tick, ticked, pinger, wait, busy, silent, cause>>

\* A pong comes for one of the pings.
Pong ==
  /\ handler = "reading" /\ ~silent
  /\ \E a \in pings : pings' = pings \ {a}
  /\ SetReadDeadline
  /\ UNCHANGED <<handler, isCurrent, tick, ticked, pinger, wait, busy, silent, cause>>

\* The read fails; the session is removed if it is still the device's.
EndRead(why) ==
  /\ handler = "reading"
  /\ handler' = "leaving"
  /\ isCurrent' = FALSE
  /\ cause' = why
  /\ UNCHANGED <<deadline, tick, ticked, pinger, wait, busy, pings, silent>>

ReadTimesOut == deadline = 0 /\ EndRead("timeout")

\* The deferred calls: the ticker is stopped, and no tick comes any more; the
\* connection is closed, and every write to it fails.
Return ==
  /\ handler = "leaving"
  /\ handler' = "done"
  /\ busy' = FALSE
  /\ UNCHANGED <<deadline, isCurrent, tick, ticked, pinger, wait, pings, silent, cause>>

-----------------------------------------------------------------------------
(* The surroundings.                                                       *)

\* Another connection of the device registers its session.
Displace ==
  /\ handler = "reading" /\ isCurrent
  /\ isCurrent' = FALSE
  /\ UNCHANGED <<handler, deadline, tick, ticked, pinger, wait, busy, pings, silent, cause>>

\* Its handler closes the displaced connection, which has to wait for a
\* command that is being written; or the device closes it.
Closed == ((~isCurrent /\ ~busy) \/ ~silent) /\ EndRead("closed")

\* SendJSON takes the connection, after a ping that waits for it.
BeginSend ==
  /\ handler = "reading" /\ ~busy /\ pinger # "writing"
  /\ busy' = TRUE
  /\ UNCHANGED <<handler, deadline, isCurrent, tick, ticked, pinger, wait, pings, silent, cause>>

EndSend ==
  /\ busy
  /\ busy' = FALSE
  /\ UNCHANGED <<handler, deadline, isCurrent, tick, ticked, pinger, wait, pings, silent, cause>>

FallSilent ==
  /\ ~silent
  /\ silent' = TRUE
  /\ UNCHANGED <<handler, deadline, isCurrent, tick, ticked, pinger, wait, busy, pings, cause>>

\* A unit of time passes.  The ticker drops a tick when one waits already.
Time ==
  /\ handler = "reading" /\ deadline > 0
  /\ pinger = "waiting" => ~ticked
  /\ pinger = "writing" => busy /\ wait > 0
  /\ silent \/ MaxAnswer \notin pings
  /\ deadline' = deadline - 1
  /\ tick' = IF tick = 1 THEN PingInterval ELSE tick - 1
  /\ ticked' = (ticked \/ tick = 1)
  /\ wait' = IF pinger = "writing" THEN wait - 1 ELSE wait
  /\ pings' = {a + 1 : a \in pings \ {MaxAnswer}}
  /\ UNCHANGED <<handler, isCurrent, pinger, busy, silent, cause>>

-----------------------------------------------------------------------------
(* What the program and the clock do by themselves; devices and callers    *)
(* need not do anything.                                                   *)
Run == TakeTick \/ WritePing \/ GiveUp \/ ReadTimesOut \/ Return \/ Time

KANext ==
  \/ Run \/ Pong
  \/ Displace \/ Closed \/ BeginSend \/ EndSend \/ FallSilent

KASpec == KAInit /\ [][KANext]_kaVars

KALiveSpec == KASpec /\ WF_kaVars(Run)

-----------------------------------------------------------------------------
(* Safety.                                                                 *)

\* A device that answers every ping within MaxAnswer is not cut off for want
\* of a pong, unless the pinger has ended before (manager.go:297-320).
AnsweringIsKept == cause = "timeout" => silent \/ pinger = "gone"

\* The time until the next pong at the latest, while the device answers and
\* the pinger works, is less than the time left for the read: either a ping
\* waits for its answer, or there is time for the rest of the way of the next.
PongIsDue ==
  handler = "reading" /\ ~silent /\ pinger # "gone" =>
    \/ \E a \in pings : deadline > MaxAnswer - a
    \/ pinger = "waiting" /\ ~ticked /\ deadline > tick + WriteWait + MaxAnswer
    \/ pinger = "waiting" /\ ticked /\ deadline > WriteWait + MaxAnswer
    \/ pinger = "writing" /\ deadline > wait + MaxAnswer

\* Together with the type these are preserved by every step when the time
\* between two pings, to write one and to answer it is less than ReadWait.
KeptInv == KATypeOK /\ PongIsDue /\ AnsweringIsKept

-----------------------------------------------------------------------------
(* Liveness.                                                               *)

\* A connection whose device has fallen silent, or that is not pinged any
\* more, ends: the host does not keep dead sessions (manager.go:297-332).
DeadIsCut == silent \/ pinger = "gone" ~> handler = "done"
=============================================================================
