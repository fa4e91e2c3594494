----------------------------- MODULE FRPService -----------------------------
(***************************************************************************)
(* DeployFRPS and ResetFRPS (internal/ops/frps.go): shell scripts that put *)
(* the FRP server of this host under systemd and take it away again, and   *)
(* the part of GetFRPSStatus that looks at the config of the server.       *)
(* RunShell (internal/ops/exec.go) runs one bash per HTTP request, with    *)
(* set -e and a timeout, and nothing keeps the scripts of two requests     *)
(* apart.                                                                  *)
(*                                                                         *)
(* A slot is a place for one request at a time; a config is a valid pair   *)
(* of a port and a token (others are refused before any script runs).      *)
(* Each command of a script is a step (two scripts that write one file at  *)
(* the very same time could mix their lines; this is not modelled).  The   *)
(* timeout kills bash alone: the command that it runs ends by itself, the  *)
(* next one does not start.  The installation of the binary comes before   *)
(* all other commands and is left out: when it fails, the script stops     *)
(* there.                                                                  *)
(***************************************************************************)
EXTENDS Naturals, Sequences

CONSTANTS
  Slots,     \* places for a request
  Configs,   \* what the server can be asked to be
  Nothing,   \* no config
  Stopped,   \* the server does not run
  Failing,   \* systemd starts the server again and again, in vain
  Inspect,   \* what a status request is asked for
  Failed,    \* what a request is told that got an error
  Odd        \* what a status tells that shows a config and says it is not there

ASSUME FRPAssumption ==
  /\ Nothing \notin Configs /\ Inspect \notin Configs \cup {Nothing}
  /\ {Failed, Odd} \cap (Configs \cup {Nothing}) = {} /\ Failed # Odd
  /\ Stopped \notin Configs /\ Failing \notin Configs /\ Stopped # Failing

VARIABLES
  todo,     \* the commands that the script of a slot has still to run
  asked,    \* the config that a slot deploys; Nothing when it resets
  shown,    \* whether the status of a slot shows a config
  dir,      \* whether /etc/nwct exists
  conf,     \* /etc/nwct/nwct-server.toml
  unit,     \* whether nwct-server.service exists
  enabled,  \* whether it is enabled
  running,  \* Stopped, Failing, or the config of the process that runs
  told,     \* history: what the requests have been told to have achieved
            \* that have ended since the last time that there was none
  fresh,    \* history: no server ran at that time
  unstopped \* history: the last stop of a reset since the start of the host
            \* has failed and has left a server running

host == <<dir, conf, unit, enabled, running>>
frpVars == <<todo, asked, shown, host, told, fresh, unstopped>>

DeployScript == <<"mkdir", "conf", "unit", "reload", "enable">>

\* Fault: the server is not stopped.
BugResetScript == <<"disable", "unlink", "remove", "reload">>

ResetScript == <<"stop", "disable", "unlink", "remove", "reload">>
StatusScript == <<"show", "exists">>

Commands == {"mkdir", "conf", "unit", "reload", "enable",
             "stop", "disable", "unlink", "remove", "show", "exists"}

TypeOK ==
  /\ todo \in [Slots -> Seq(Commands)]
  /\ asked \in [Slots -> Configs \cup {Nothing, Inspect}]
  /\ shown \in [Slots -> BOOLEAN]
  /\ {dir, unit, enabled} \subseteq BOOLEAN
  /\ conf \in Configs \cup {Nothing}
  /\ running \in Configs \cup {Stopped, Failing}
  /\ told \subseteq Configs \cup {Nothing, Failed, Odd}
  /\ {fresh, unstopped} \subseteq BOOLEAN

Init ==
  /\ todo = [r \in Slots |-> <<>>]
  /\ asked = [r \in Slots |-> Nothing]
  /\ shown = [r \in Slots |-> FALSE]
  /\ dir = FALSE /\ conf = Nothing
  /\ unit = FALSE /\ enabled = FALSE
  /\ running = Stopped
  /\ told = {} /\ fresh = TRUE /\ unstopped = FALSE

-----------------------------------------------------------------------------
\* No request is under way.
Quiet == \A r \in Slots : todo[r] = <<>>

\* What a start of the server leads to.
Started == IF conf = Nothing THEN Failing ELSE conf

Begin(r, script, c) ==
  /\ todo[r] = <<>>
  /\ todo' = [todo EXCEPT ![r] = script]
  /\ asked' = [asked EXCEPT ![r] = c]
  /\ told' = IF Quiet THEN {} ELSE told
  /\ fresh' = IF Quiet THEN running = Stopped ELSE fresh
  /\ UNCHANGED <<shown, host, unstopped>>

Deploy(r) == \E c \in Configs : Begin(r, DeployScript, c)

Reset(r) == Begin(r, ResetScript, Nothing)

\* GetFRPSStatus: the state of the service and its ports, which it reads too,
\* are left out.
Status(r) == Begin(r, StatusScript, Inspect)

\* The script of r runs a command of this name; after its last one the
\* request is told that it has succeeded, or that its time was up.
Command(r, name) ==
  /\ todo[r] # <<>> /\ Head(todo[r]) = name
  /\ todo' = [todo EXCEPT ![r] = Tail(@)]
  /\ \/ Len(todo[r]) > 1 /\ told' = told
     \/ Len(todo[r]) = 1 /\ \E answer \in {asked[r], Failed} : told' = told \cup {answer}
  /\ UNCHANGED <<asked, shown, fresh>>

\* A command fails, or the time is up: the request gets an error.
Abort(r) ==
  /\ todo[r] # <<>>
  /\ todo' = [todo EXCEPT ![r] = <<>>]
  /\ told' = IF asked[r] = Inspect THEN told ELSE told \cup {Failed}
  /\ shown' = [shown EXCEPT ![r] = FALSE]
  /\ UNCHANGED <<asked, host, fresh, unstopped>>

-----------------------------------------------------------------------------
(* The commands.                                                           *)

\* Fault: the directory is made anew.
BugMakeDir(r) ==
  /\ Command(r, "mkdir")
  /\ dir' = TRUE /\ conf' = Nothing
  /\ UNCHANGED <<unit, enabled, running, unstopped>>

MakeDir(r) ==
  /\ Command(r, "mkdir")
  /\ dir' = TRUE
  /\ UNCHANGED <<conf, unit, enabled, running, unstopped>>

\* Fault: a config that exists is kept.
BugWriteConf(r) ==
  /\ Command(r, "conf")
  /\ dir
  /\ conf' = IF conf = Nothing THEN asked[r] ELSE conf
  /\ UNCHANGED <<dir, unit, enabled, running, unstopped>>

WriteConf(r) ==
  /\ Command(r, "conf")
  /\ dir
  /\ conf' = asked[r]
  /\ UNCHANGED <<dir, unit, enabled, running, unstopped>>

WriteUnit(r) ==
  /\ Command(r, "unit")
  /\ unit' = TRUE
  /\ UNCHANGED <<dir, conf, enabled, running, unstopped>>

Reload(r) ==
  /\ Command(r, "reload")
  /\ UNCHANGED <<dir, conf, unit, enabled, running, unstopped>>

\* Fault: the unit is enabled and not started.
BugEnableOnly(r) ==
  /\ Command(r, "enable")
  /\ unit
  /\ enabled' = TRUE
  /\ UNCHANGED <<dir, conf, unit, running, unstopped>>

\* systemctl enable --now: a server that runs already is left alone.
EnableNow(r) ==
  /\ Command(r, "enable")
  /\ unit
  /\ enabled' = TRUE
  /\ running' = IF running \in {Stopped, Failing} THEN Started ELSE running
  /\ UNCHANGED <<dir, conf, unit, unstopped>>

\* systemctl stop || true: systemd knows a unit that runs, with or without
\* its file.  A stop that fails is passed over.
Stop(r) ==
  /\ Command(r, "stop")
  /\ running' \in {running, Stopped}
  /\ unstopped' = (running' # Stopped)
  /\ UNCHANGED <<dir, conf, unit, enabled>>

\* systemctl disable || true: it may fail, without the file of the unit or for
\* another reason.
Disable(r) ==
  /\ Command(r, "disable")
  /\ enabled' \in {FALSE, enabled}
  /\ UNCHANGED <<dir, conf, unit, running, unstopped>>

RemoveUnit(r) ==
  /\ Command(r, "unlink")
  /\ unit' = FALSE
  /\ UNCHANGED <<dir, conf, enabled, running, unstopped>>

RemoveDir(r) ==
  /\ Command(r, "remove")
  /\ dir' = FALSE
  /\ conf' = Nothing
  /\ UNCHANGED <<unit, enabled, running, unstopped>>

-----------------------------------------------------------------------------
(* The status.                                                             *)

\* A config that cannot be read is shown as none.
Show(r) ==
  /\ todo[r] = StatusScript
  /\ todo' = [todo EXCEPT ![r] = Tail(@)]
  /\ shown' \in {[shown EXCEPT ![r] = conf # Nothing], [shown EXCEPT ![r] = FALSE]}
  /\ UNCHANGED <<asked, host, told, fresh, unstopped>>

\* CONFIG_EXISTS comes later than the config itself.
Exists(r) ==
  /\ todo[r] = <<"exists">>
  /\ todo' = [todo EXCEPT ![r] = <<>>]
  /\ told' = IF shown[r] /\ conf = Nothing THEN told \cup {Odd} ELSE told
  /\ shown' = [shown EXCEPT ![r] = FALSE]
  /\ UNCHANGED <<asked, host, fresh, unstopped>>

-----------------------------------------------------------------------------
(* The host.                                                               *)

\* The process of the server ends: Restart=always.  Without its config it
\* ends again at once and is given up in the end; without the file of its
\* unit it is restarted only until systemd notices.
Exit ==
  /\ running # Stopped
  /\ running' \in IF unit /\ conf # Nothing THEN {Started} ELSE {Started, Stopped}
  /\ UNCHANGED <<todo, asked, shown, dir, conf, unit, enabled, told, fresh, unstopped>>

\* The host starts again; the requests that were under way are lost.
Reboot ==
  /\ todo' = [r \in Slots |-> <<>>]
  /\ told' = IF Quiet THEN told ELSE told \cup {Failed}
  /\ running' = IF enabled /\ unit THEN Started ELSE Stopped
  /\ shown' = [r \in Slots |-> FALSE]
  /\ unstopped' = FALSE
  /\ UNCHANGED <<asked, dir, conf, unit, enabled, fresh>>

Step(r) ==
  \/ MakeDir(r) \/ WriteConf(r) \/ WriteUnit(r) \/ Reload(r) \/ EnableNow(r)
  \/ Stop(r) \/ Disable(r) \/ RemoveUnit(r) \/ RemoveDir(r)
  \/ Show(r) \/ Exists(r)

Next ==
  \/ \E r \in Slots : Deploy(r) \/ Reset(r) \/ Status(r) \/ Step(r) \/ Abort(r)
  \/ Exit
  \/ Reboot

Spec == Init /\ [][Next]_frpVars

-----------------------------------------------------------------------------
(* Safety.                                                                 *)

\* The server is set up, and runs or comes up with c when it, or the host,
\* starts again.
Deployed(c) ==
  /\ dir /\ conf = c
  /\ unit /\ enabled
  /\ running \in Configs

\* Nothing of the service is left that a start of it needs.  (The link of an
\* enabled unit may be left; without the unit it starts nothing.)
Cleared == ~dir /\ conf = Nothing /\ ~unit

\* Deploys that overlap, and that all report success, leave the host as one
\* of them was asked to, and a deploy that nothing overlaps as it was asked
\* to, whatever requests stopped half-way before; neither the end of the
\* server's process nor a start of the host changes that (frps.go:127-153).
DeployedComesUp ==
  Quiet /\ told # {} /\ told \subseteq Configs => \E c \in told : Deployed(c)

\* Resets that overlap nothing but each other, and that all report success,
\* leave nothing that could start the server, whatever requests stopped
\* half-way before; and they leave it running only if the last of their stops
\* failed, which the script passes over (frps.go:309), and then until the host
\* starts again at most (frps.go:308-314).
ResetLeavesNothing ==
  Quiet /\ told = {Nothing} => Cleared /\ (running = Stopped \/ unstopped)

\* When no server ran, a deploy that reports success starts the one that it
\* was asked for, or one that another deploy was asked for that came at the
\* same time (frps.go:151-152).  (One that runs is left as it is.)
FreshDeployRuns ==
  Quiet /\ told # {} /\ told \subseteq Configs /\ fresh => running \in told

\* A status that shows the port of a config and says that there is no config
\* has been overtaken by a reset (frps.go:180-198).
OddMeansReset ==
  Odd \in told => told \cap {Nothing, Failed} # {} \/ \E r \in Slots : todo[r] # <<>> /\ asked[r] = Nothing
=============================================================================
