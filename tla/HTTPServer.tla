----------------------------- MODULE HTTPServer -----------------------------
(***************************************************************************)
(* The HTTP API (internal/httpapi/server.go): from a request to what it    *)
(* has done and the status that it is answered with, while the device that *)
(* it is for may come, go and send messages.  A message is classified as   *)
(* in internal/ws/manager.go:362-402, 658-746.  One request is followed at *)
(* a time: what requests do to each other is the subject of the modules of *)
(* the parts that they call.  The server is up once Startup says so.       *)
(***************************************************************************)
EXTENDS Startup

CONSTANT Devices  \* device ids

VARIABLES
  online,   \* the devices that have a session
  request,  \* the request that is followed
  phase,    \* what the handler does: nothing, its checks, a wait; or it is done
  effect,   \* what the request has done so far
  answer,   \* how the device has answered it: not yet, well or badly
  status    \* the status of the response; 0 before it

hsVars == <<online, request, phase, effect, answer, status>>
apiVars == <<suVars, hsVars>>

Methods == {"GET", "POST", "PUT"}

\* A switch that is absent, says yes or no, or something else.
Switch == {"absent", "on", "off", "odd"}

Shown == {"healthz", "devices", "devices/aliases", "events/stream"}
Probes == {"frps/status", "wg/status", "vps/public-ip", "frps/verify", "wg/verify"}
Scripts == {"frps/deploy", "frps/reset", "wg/deploy", "wg/reset"}
AliasChanges == {"devices/alias/set", "devices/alias/delete"}
Fixed == Shown \cup Probes \cup Scripts \cup AliasChanges
Posts == Scripts \cup AliasChanges \cup {"frps/verify", "wg/verify"}
Decoding == Posts \ {"frps/reset"}

\* A body is no JSON, is JSON that lacks what is needed, or is as it should
\* be.  The path of a device request is dev/op.
Requests ==
  [route : {"device"}, method : Methods, dev : Devices \cup {""},
   op : {"", "reboot", "diagnose", "diagnose/dns", "diagnose/ping"},
   body : {"broken", "full"}, header : Switch, field : Switch]
  \cup [route : Fixed \cup {"other"}, method : Methods, body : {"broken", "lacking", "full"}]
  \cup [route : {"ws"}, method : Methods, upgrade : BOOLEAN]

NoRequest == [route |-> "healthz", method |-> "GET", body |-> "full"]

Forget ==
  /\ phase' = "idle" /\ request' = NoRequest
  /\ effect' = "none" /\ answer' = "none" /\ status' = 0

APIInit ==
  /\ SUInit
  /\ online = {}
  /\ phase = "idle" /\ request = NoRequest
  /\ effect = "none" /\ answer = "none" /\ status = 0

-----------------------------------------------------------------------------
\* A request has come.
Arrive ==
  /\ phase = "idle"
  /\ request' \in Requests
  /\ phase' = "check"
  /\ UNCHANGED <<suVars, online, effect, answer, status>>

\* The handler has returned.
Return == phase = "done" /\ Forget /\ UNCHANGED <<suVars, online>>

\* The response is written, what the request has done so far being e.
Respond(code, e) ==
  /\ status' = code
  /\ phase' = "done"
  /\ effect' = e
  /\ UNCHANGED <<suVars, online, request>>

Reply(code) == Respond(code, effect) /\ UNCHANGED answer

-----------------------------------------------------------------------------
(* handleDeviceCommand.                                                    *)

\* The operation that a path names, if any.
Operation == CASE request.op = "diagnose/dns"                  -> "dns_diagnose"
               [] request.op \in {"diagnose", "diagnose/ping"} -> ""
               [] OTHER                                        -> request.op

ForDevice == phase = "check" /\ request.route = "device"

InvalidPath ==
  /\ ForDevice
  /\ request.dev = "" \/ (request.method = "POST" /\ Operation = "")
  /\ Reply(400)

\* Whatever follows the device in the path.
ShowDevice ==
  /\ ForDevice /\ request.dev # "" /\ request.method = "GET"
  /\ Reply(IF request.dev \in online THEN 200 ELSE 404)

WrongDeviceMethod ==
  /\ ForDevice /\ request.dev # "" /\ request.method \notin {"GET", "POST"}
  /\ Reply(405)

Command == ForDevice /\ request.dev # "" /\ request.method = "POST" /\ Operation # ""

\* Whether to wait: the header, or else the body's field, says so, and
\* otherwise one does.
Expect == CASE request.header # "absent" -> request.header
            [] request.field # "absent"  -> request.field
            [] OTHER                     -> "on"

\* Fault: the command has been sent before.
BugBadCommand ==
  /\ Command
  /\ \/ request.body = "broken" /\ Reply(400)
     \/ request.body # "broken" /\ Expect = "odd" /\ Respond(400, "sent")
        /\ UNCHANGED answer

BadCommand ==
  /\ Command
  /\ request.body = "broken" \/ Expect = "odd"
  /\ Reply(400)

Ready == Command /\ request.body # "broken" /\ Expect # "odd"

Offline ==
  /\ Ready /\ request.dev \notin online
  /\ Reply(404)

SendFails ==
  /\ Ready /\ request.dev \in online
  /\ Reply(500)

\* SendCommandNoWait, or SendCommand up to its wait.
Send ==
  /\ Ready /\ request.dev \in online
  /\ effect' = "sent"
  /\ \/ Expect = "off" /\ phase' = "done" /\ status' = 200
     \/ Expect = "on" /\ phase' = "wait" /\ status' = 0
  /\ UNCHANGED <<suVars, online, request, answer>>

\* SendCommand without an answer: its timer, or the drain of a device that is
\* gone.
WaitEnds ==
  /\ phase = "wait"
  /\ Reply(500)

-----------------------------------------------------------------------------
(* What the device sends while its command waits.                          *)

\* op: empty, a response by its suffix, the name of an event, or one of the
\* names that are neither; id: the req_id; response, error, status: as given.
Messages == [op : {"", "response", "event", "heartbeat"}, id : {"none", "own", "other"},
             response : {"none", "200", "other"}, error : BOOLEAN, failed : BOOLEAN]

isResponseMessage(m) ==
  \/ m.op = "response"
  \/ m.id # "none" /\ (m.response # "none" \/ m.op = "")

\* Fault: the code of the response is not looked at.
BugResponseError(m) == m.error \/ m.failed

responseError(m) == m.error \/ m.response = "other" \/ m.failed

\* handleMessage, handleResponse: the message ends the wait if it answers the
\* command; an event is streamed (see EventStream), and the rest is dropped.
Message ==
  /\ phase = "wait" /\ request.dev \in online
  /\ \E m \in Messages :
       /\ isResponseMessage(m) /\ m.id = "own"
       /\ answer' = IF m.response \in {"none", "200"} /\ ~m.error /\ ~m.failed THEN "good" ELSE "bad"
       /\ Respond(IF responseError(m) THEN 500 ELSE 200, effect)

-----------------------------------------------------------------------------
(* The other routes.                                                       *)

ForOther == phase = "check" /\ request.route \in Fixed

MethodOK ==
  \/ request.route = "healthz"
  \/ request.method = IF request.route \in Posts THEN "POST" ELSE "GET"

Accepted == ForOther /\ MethodOK /\ (request.route \in Decoding => request.body = "full")

\* wrapJSON answers 400 whatever the error; the stream is not wrapped.
Refuse ==
  /\ ForOther /\ ~Accepted
  /\ Reply(IF request.route = "events/stream" THEN 405 ELSE 400)

Show ==
  /\ Accepted /\ request.route \in Shown
  /\ Reply(200)

\* Memory is changed before the file is written, and stays so.
ChangeAlias ==
  /\ Accepted /\ request.route \in AliasChanges
  /\ \E saved \in BOOLEAN : Respond(IF saved THEN 200 ELSE 400, "changed")
  /\ UNCHANGED answer

\* A script that only reads succeeds or fails.
Probe ==
  /\ Accepted /\ request.route \in Probes
  /\ \/ cfg.timeout > 0 /\ Reply(200)
     \/ Reply(400)

\* A script that changes the host may fail half-way.  RunShell starts none
\* whose time is up from the beginning.
RunScript ==
  /\ Accepted /\ request.route \in Scripts
  /\ \/ cfg.timeout > 0 /\ Respond(200, "changed")
     \/ \E e \in {"none", "changed"} :
          (cfg.timeout > 0 \/ e = "none") /\ Respond(400, e)
  /\ UNCHANGED answer

NotFound ==
  /\ phase = "check" /\ request.route = "other"
  /\ Reply(404)

\* websocketHandshakeCheck, and HandleUpgrade, which may refuse for reasons of
\* its own.
Upgrade ==
  /\ phase = "check" /\ request.route = "ws"
  /\ \/ request.method = "GET" /\ request.upgrade /\ (Reply(101) \/ Reply(400))
     \/ (request.method # "GET" \/ ~request.upgrade) /\ Reply(426)

\* A device registers, or its session is removed.
DeviceComesOrGoes ==
  /\ stage = "serve"
  /\ \E d \in Devices : online' = IF d \in online THEN online \ {d} ELSE online \cup {d}
  /\ UNCHANGED <<suVars, request, phase, effect, answer, status>>

-----------------------------------------------------------------------------
Handle ==
  \/ InvalidPath \/ ShowDevice \/ WrongDeviceMethod \/ BadCommand
  \/ Offline \/ SendFails \/ Send \/ WaitEnds \/ Message
  \/ Refuse \/ Show \/ ChangeAlias \/ Probe \/ RunScript \/ NotFound \/ Upgrade

APINext ==
  \/ Boot /\ UNCHANGED hsVars
  \/ StopListening /\ UNCHANGED hsVars
  \/ stage = "serve" /\ (Arrive \/ Handle \/ Return)
  \/ DeviceComesOrGoes

APISpec == APIInit /\ [][APINext]_apiVars

-----------------------------------------------------------------------------
\* Only a POST commands a device, changes an alias or runs a script, whatever
\* its path, and one that is refused does none of these, except when it was as
\* it should be: the alias was set but could not be saved, or the script failed
\* half-way (server.go:175-258, 405-607).  (A GET that upgrades registers a
\* session too, which is the subject of Manager.)
RefusalChangesNothing ==
  effect # "none" =>
    /\ request.method = "POST"
    /\ status \in 400..499 =>
         /\ effect = "changed" /\ status = 400
         /\ request.route \in AliasChanges \cup Scripts
         /\ request.route \in Decoding => request.body = "full"

\* A command is answered 200 only after it was sent, and, unless it was not
\* to wait, after the device has answered it without any sign of failure
\* (server.go:237-258, manager.go:696-729).
OkIsDone ==
  status = 200 /\ request.route = "device" /\ request.method = "POST" =>
    effect = "sent" /\ (Expect = "on" => answer = "good")
=============================================================================
