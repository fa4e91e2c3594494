------------------------------- MODULE Calls -------------------------------
(***************************************************************************)
(* What the device manager promises to the HTTP side that calls            *)
(* SendCommand and SendCommandNoWait (internal/ws/manager.go), with no     *)
(* connection, channel, timer or table in sight:                           *)
(*                                                                         *)
(*  - a call is turned away at once only when its device is absent;        *)
(*  - a command that has been sent gets one verdict, which never changes   *)
(*    and is what the call returns;                                        *)
(*  - when a device goes away, every command sent to it that has no        *)
(*    verdict yet is decided at that very moment.                          *)
(*                                                                         *)
(* Manager implements this specification (Manager!CallsKept).              *)
(***************************************************************************)
CONSTANTS Devices, Commands, Nobody

VARIABLES
  present,  \* the devices that are connected
  stage,    \* "idle", "calling", "sent", "done"
  target,   \* the device a call is for
  verdict   \* how the call ends; "none" while that is open

callsVars == <<present, stage, target, verdict>>

CallsInit ==
  /\ present = {}
  /\ stage = [k \in Commands |-> "idle"]
  /\ target = [k \in Commands |-> Nobody]
  /\ verdict = [k \in Commands |-> "none"]

Moves(k, from, to) ==
  /\ stage[k] = from
  /\ stage' = [stage EXCEPT ![k] = to]

Attach(d) ==
  /\ d \notin present
  /\ present' = present \cup {d}
  /\ UNCHANGED <<stage, target, verdict>>

\* Nobody is left waiting for a device that has just gone.
Detach(d) ==
  /\ d \in present
  /\ present' = present \ {d}
  /\ verdict' = [k \in Commands |->
                   IF stage[k] = "sent" /\ verdict[k] = "none" /\ target[k] = d
                   THEN "disconnected" ELSE verdict[k]]
  /\ UNCHANGED <<stage, target>>

Call(k, d) ==
  /\ d \in present
  /\ Moves(k, "idle", "calling")
  /\ target' = [target EXCEPT ![k] = d]
  /\ UNCHANGED <<present, verdict>>

Refuse(k, d) ==
  /\ d \notin present
  /\ Moves(k, "idle", "done")
  /\ target' = [target EXCEPT ![k] = d]
  /\ verdict' = [verdict EXCEPT ![k] = "not_found"]
  /\ UNCHANGED present

\* The write has failed, or the caller does not wait for an answer.
Finish(k, v) ==
  /\ Moves(k, "calling", "done")
  /\ verdict' = [verdict EXCEPT ![k] = v]
  /\ UNCHANGED <<present, target>>

\* The command is on its way; its time may be up already, or its device gone.
Send(k, v) ==
  /\ Moves(k, "calling", "sent")
  /\ verdict' = [verdict EXCEPT ![k] = v]
  /\ UNCHANGED <<present, target>>

Decide(k, v) ==
  /\ stage[k] = "sent"
  /\ verdict[k] = "none"
  /\ verdict' = [verdict EXCEPT ![k] = v]
  /\ UNCHANGED <<present, stage, target>>

Return(k) ==
  /\ verdict[k] # "none"
  /\ Moves(k, "sent", "done")
  /\ UNCHANGED <<present, target, verdict>>

CallsNext ==
  \/ \E d \in Devices : Attach(d) \/ Detach(d)
  \/ \E k \in Commands :
       \/ \E d \in Devices : Call(k, d) \/ Refuse(k, d)
       \/ \E v \in {"send_failed", "accepted"} : Finish(k, v)
       \/ \E v \in {"none", "timeout", "disconnected"} : Send(k, v)
       \/ \E v \in {"reply", "timeout"} : Decide(k, v)
       \/ Return(k)

CallsSpec == CallsInit /\ [][CallsNext]_callsVars
=============================================================================
