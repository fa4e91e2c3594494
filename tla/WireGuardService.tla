-------------------------- MODULE WireGuardService --------------------------
(***************************************************************************)
(* DeployWireGuard and ResetWireGuard (internal/ops/wireguard.go): shell   *)
(* scripts that set up the WireGuard server wg0 of this host and take it   *)
(* away, and the check of the server's keys that a status or a verify      *)
(* request makes.  As in FRPService, the scripts of requests that come at  *)
(* the same time interleave, and any command may be the last of its script;*)
(* a command that is followed by || true, or is not the last one of a      *)
(* pipeline in a shell without pipefail, may fail and be passed over.      *)
(*                                                                         *)
(* Key n is the key pair that the n-th call of wg genkey makes; 0 is an    *)
(* empty or missing file.  Installing packages and setting ip_forward come *)
(* before all other commands and are left out, and so are the FORWARD      *)
(* rules.  A reset is asked for wg0, the only interface that a deploy      *)
(* makes.  systemd and wg-quick are modelled as far as the scripts rely on *)
(* them.                                                                   *)
(***************************************************************************)
EXTENDS Naturals, Sequences, FiniteSets

CONSTANTS
  Slots,     \* places for a request
  Peers,     \* port, tunnel address and peers of a server
  Egresses,  \* network interfaces of the host
  None,      \* no configuration
  Clear,     \* what a reset is asked for
  Wipe,      \* what a reset is asked for that removes the keys too
  Inspect,   \* what a status or verify request is asked for
  Failed,    \* what a request is told that got an error
  Mismatch,  \* what one is told that found two keys that do not match
  MaxKeys,   \* bound: key pairs
  MaxRules,  \* bound: NAT rules per egress interface
  MaxIgnored \* bound: kinds of failures that are passed over at a time

\* What a deploy is asked for.
Setting == [peers : Peers, egress : Egresses]

Config == [key : 0..MaxKeys, set : Setting]

ASSUME WGAssumption ==
  /\ MaxKeys \in Nat /\ MaxRules \in Nat \ {0} /\ MaxIgnored \in Nat
  /\ None \notin Config
  /\ Clear # Wipe /\ Inspect \notin {Clear, Wipe} /\ Failed \notin {Clear, Wipe, Inspect}
  /\ Mismatch \notin {Clear, Wipe, Inspect, Failed}
  /\ {Clear, Wipe, Inspect, Failed, Mismatch} \cap Setting = {}

VARIABLES
  todo,     \* the commands that the script of a slot has still to run
  asked,    \* what its request is asked for; Clear when there is none
  held,     \* the key that the script of a slot has in its hands
  made,     \* the number of key pairs made
  priv,     \* server_private.key
  pub,      \* server_public.key
  conf,     \* wg0.conf
  enabled,  \* whether wg-quick@wg0 is enabled
  active,   \* whether systemd counts it as started
  up,       \* the configuration of the interface wg0
  nat,      \* the number of NAT rules with our comment, per egress interface
  told,     \* history: what the requests have been told to have achieved
            \* that have ended since the last time that there was none
  tangled,  \* history: two scripts have made keys at once, or one while they
            \* were removed, since the last time that they were removed
  mixed,    \* history: a deploy and a reset have overlapped since the last
            \* start of the host that followed on a reset
  lone,     \* history: there has been a public key without its private key,
            \* or one has been removed, since no request was under way
  ignored   \* history: the failures that scripts have passed over and that
            \* have not been made good; those of disable and of the listing of
            \* rules since no request was under way, those of stop since the
            \* host was started, those of tee since the keys were removed

files == <<made, priv, pub, conf>>
host == <<enabled, active, up, nat>>
past == <<told, tangled, mixed, lone, ignored>>
wgVars == <<todo, asked, held, files, host, past>>

DeployScript == <<"check", "private", "public", "read", "conf", "enable", "start">>
ClearScript == <<"stop", "disable", "remove", "rules">>
WipeScript == ClearScript \o <<"unlinkPrivate", "unlinkPublic">>
InspectScript == <<"showKey", "derive">>

Suffixes(s) == {SubSeq(s, i, Len(s)) : i \in 1..(Len(s) + 1)}

TypeOK ==
  /\ todo \in [Slots -> UNION {Suffixes(s) : s \in {DeployScript, WipeScript, ClearScript, InspectScript}}]
  /\ asked \in [Slots -> Setting \cup {Clear, Wipe, Inspect}]
  /\ held \in [Slots -> 0..MaxKeys]
  /\ {made, priv, pub} \subseteq 0..MaxKeys
  /\ {conf, up} \subseteq Config \cup {None}
  /\ {enabled, active} \subseteq BOOLEAN
  /\ nat \in [Egresses -> 0..MaxRules]
  /\ told \subseteq Setting \cup {Clear, Wipe, Failed, Mismatch}
  /\ {tangled, mixed, lone} \subseteq BOOLEAN
  /\ ignored \subseteq {"private", "stop", "disable", "rules"}

NoRules == [e \in Egresses |-> 0]

Init ==
  /\ todo = [r \in Slots |-> <<>>] /\ asked = [r \in Slots |-> Clear]
  /\ held = [r \in Slots |-> 0]
  /\ made = 0 /\ priv = 0 /\ pub = 0 /\ conf = None
  /\ enabled = FALSE /\ active = FALSE /\ up = None
  /\ nat = NoRules
  /\ told = {} /\ tangled = FALSE /\ mixed = FALSE /\ lone = FALSE /\ ignored = {}

-----------------------------------------------------------------------------
(* Requests and their scripts.                                             *)

Quiet == \A r \in Slots : todo[r] = <<>>

\* What a deploy and a reset are asked for.
Mixtures == {{s, reset} : s \in Setting, reset \in {Clear, Wipe}}

Begin(r, script, what) ==
  /\ todo[r] = <<>>
  /\ todo' = [todo EXCEPT ![r] = script]
  /\ asked' = [asked EXCEPT ![r] = what]
  /\ told' = IF Quiet THEN {} ELSE told
  /\ mixed' = (mixed \/ \E x \in Slots : todo[x] # <<>> /\ {asked[x], what} \in Mixtures)
  /\ lone' = IF Quiet THEN pub # 0 /\ priv = 0 ELSE lone
  /\ ignored' = IF Quiet THEN ignored \ {"disable", "rules"} ELSE ignored
  /\ UNCHANGED <<held, files, host, tangled>>

Deploy(r) == \E s \in Setting : Begin(r, DeployScript, s)

\* Fault: the keys go, whatever the request says.
BugReset(r) == Begin(r, WipeScript, Clear) \/ Begin(r, WipeScript, Wipe)

Reset(r) == Begin(r, ClearScript, Clear) \/ Begin(r, WipeScript, Wipe)

\* GetWireGuardStatus and VerifyWireGuardServer: what else they read, and the
\* first of the two checks that the latter makes, is left out.
Check(r) == Begin(r, InspectScript, Inspect)

\* A request is told x.  Beside a failure or a mismatch the successes say
\* nothing of the host, nor do those of a deploy and of a reset together.
Tell(x) ==
  LET now == told \cup {x}
  IN  told' = IF now \subseteq Setting \/ now \subseteq {Clear, Wipe} THEN now
              ELSE {IF Mismatch \in now THEN Mismatch ELSE Failed}

\* The script of r runs a command, and has then this left to do; after the last
\* one the request is told that it has succeeded, or that its time was up.
Continue(r, name, rest) ==
  /\ todo[r] # <<>> /\ Head(todo[r]) = name
  /\ todo' = [todo EXCEPT ![r] = rest]
  /\ IF rest = <<>>
     THEN (Tell(asked[r]) \/ Tell(Failed)) /\ asked' = [asked EXCEPT ![r] = Clear]
     ELSE UNCHANGED <<told, asked>>
  /\ mixed' = mixed

Command(r, name) == todo[r] # <<>> /\ Continue(r, name, Tail(todo[r]))

\* Nothing more is done for the request.
End(r) ==
  /\ todo' = [todo EXCEPT ![r] = <<>>]
  /\ asked' = [asked EXCEPT ![r] = Clear]
  /\ held' = [held EXCEPT ![r] = 0]

\* A command fails, or the time is up: the request gets an error.
Abort(r) ==
  /\ todo[r] # <<>>
  /\ End(r)
  /\ IF asked[r] = Inspect THEN told' = told ELSE Tell(Failed)
  /\ UNCHANGED <<files, host, tangled, mixed, lone, ignored>>

\* A failure is passed over: the script goes on as if there were none.
PassOver(failure) ==
  /\ ignored' = ignored \cup {failure}
  /\ Cardinality(ignored') <= MaxIgnored

-----------------------------------------------------------------------------
(* The commands of a deploy.                                               *)

\* The scripts, other than that of r, that make keys.
MakingKeys(r) == {x \in Slots \ {r} : todo[x] # <<>> /\ Head(todo[x]) \in {"private", "public"}}

\* The script makes the keys: the shell empties both files first.
MakesKeys(r) ==
  /\ Command(r, "check")
  /\ priv' = 0 /\ pub' = 0
  /\ tangled' = (tangled \/ MakingKeys(r) # {})

\* It keeps those that there are.
KeepsKeys(r) ==
  /\ Continue(r, "check", SubSeq(todo[r], 4, Len(todo[r])))
  /\ UNCHANGED <<priv, pub, tangled>>

\* Fault: only the private key is looked for.
BugCheckPrivate(r) ==
  /\ (priv # 0 /\ KeepsKeys(r)) \/ (priv = 0 /\ MakesKeys(r))
  /\ UNCHANGED <<held, made, conf, host, lone, ignored>>

\* Fault: each deploy makes new keys.
BugMakeAnew(r) == MakesKeys(r) /\ UNCHANGED <<held, made, conf, host, lone, ignored>>

\* Fault: the old public key stays until there is a new one.
BugKeepPublic(r) ==
  /\ \/ priv # 0 /\ pub # 0 /\ KeepsKeys(r)
     \/ /\ priv = 0 \/ pub = 0
        /\ Command(r, "check") /\ priv' = 0 /\ pub' = pub
        /\ tangled' = (tangled \/ MakingKeys(r) # {})
  /\ UNCHANGED <<held, made, conf, host, lone, ignored>>

\* The keys are kept if there are both.
CheckKeys(r) ==
  /\ \/ priv # 0 /\ pub # 0 /\ KeepsKeys(r)
     \/ (priv = 0 \/ pub = 0) /\ MakesKeys(r)
  /\ UNCHANGED <<held, made, conf, host, lone, ignored>>

\* wg genkey | tee server_private.key.  If tee cannot write (a full disk), the
\* file that it has emptied stays so, and the key goes on to wg pubkey all the
\* same.  (That it cannot open the file is left out.)
MakePrivate(r) ==
  /\ made < MaxKeys
  /\ Command(r, "private")
  /\ made' = made + 1
  /\ \/ priv' = made + 1 /\ UNCHANGED <<lone, ignored>>
     \/ /\ priv' = 0
        /\ lone' = (lone \/ pub # 0)
        /\ PassOver("private")
  /\ held' = [held EXCEPT ![r] = made + 1]
  /\ UNCHANGED <<pub, conf, host, tangled>>

\* wg pubkey > server_public.key, of the key that tee passes on.
MakePublic(r) ==
  /\ Command(r, "public")
  /\ pub' = held[r]
  /\ lone' = (lone \/ (priv = 0 /\ held[r] # 0))
  /\ held' = [held EXCEPT ![r] = 0]
  /\ UNCHANGED <<made, priv, conf, host, tangled, ignored>>

ReadPrivate(r) ==
  /\ Command(r, "read")
  /\ held' = [held EXCEPT ![r] = priv]
  /\ UNCHANGED <<files, host, tangled, lone, ignored>>

WriteConf(r) ==
  /\ Command(r, "conf")
  /\ conf' = [key |-> held[r], set |-> asked[r]]
  /\ held' = [held EXCEPT ![r] = 0]
  /\ UNCHANGED <<made, priv, pub, host, tangled, lone, ignored>>

Enable(r) ==
  /\ Command(r, "enable")
  /\ enabled' = TRUE
  /\ UNCHANGED <<held, files, active, up, nat, tangled, lone, ignored>>

\* A configuration that wg accepts: it refuses one without a private key.
Usable == conf # None /\ conf.key # 0

\* wg-quick up: the interface, then PostUp.  It fails when there is an
\* interface or no configuration that it can use.
BringUp ==
  /\ up = None /\ Usable
  /\ nat[conf.set.egress] < MaxRules
  /\ up' = conf
  /\ active' = TRUE
  /\ nat' = [nat EXCEPT ![conf.set.egress] = @ + 1]

\* systemctl start: nothing happens if the service is active.
Start(r) ==
  /\ Command(r, "start")
  /\ \/ active /\ UNCHANGED <<active, up, nat>>
     \/ ~active /\ BringUp
  /\ UNCHANGED <<held, files, enabled, tangled, lone, ignored>>

-----------------------------------------------------------------------------
(* The commands of a reset.                                                *)

\* systemctl stop || true.  wg-quick down reads wg0.conf as it is now: it
\* fails without one, and PostDown ends at the first rule that is not there.
\* When the stop fails, or wg-quick down does, the interface is left.
Stop(r) ==
  /\ Command(r, "stop")
  /\ \/ /\ active
        /\ active' \in BOOLEAN
        /\ PassOver("stop")
        /\ UNCHANGED <<up, nat>>
     \/ /\ active /\ conf # None
        /\ active' = FALSE /\ up' = None
        /\ nat' \in {nat} \cup {[nat EXCEPT ![e] = @ - 1] : e \in {x \in {conf.set.egress} : nat[x] > 0}}
        /\ ignored' = ignored \ {"stop"}
     \/ ~active /\ UNCHANGED <<active, up, nat, ignored>>
  /\ UNCHANGED <<held, files, enabled, tangled, lone>>

\* systemctl disable || true
Disable(r) ==
  /\ Command(r, "disable")
  /\ \/ enabled' = FALSE /\ ignored' = ignored \ {"disable"}
     \/ enabled /\ enabled' = TRUE /\ PassOver("disable")
  /\ UNCHANGED <<held, files, active, up, nat, tangled, lone>>

RemoveConf(r) ==
  /\ Command(r, "remove")
  /\ conf' = None
  /\ UNCHANGED <<held, made, priv, pub, host, tangled, lone, ignored>>

\* One round of the loop over the rules that have our comment.  (A round in
\* which the rule cannot be deleted changes nothing.)
DeleteRule(r) ==
  /\ Continue(r, "rules", todo[r])
  /\ \E e \in Egresses : nat[e] > 0 /\ nat' = [nat EXCEPT ![e] = @ - 1]
  /\ UNCHANGED <<held, files, enabled, active, up, tangled, lone, ignored>>

\* Fault: the loop is left after one rule.
BugEndRules(r) ==
  /\ Command(r, "rules")
  /\ \/ nat = NoRules /\ UNCHANGED nat
     \/ \E e \in Egresses : nat[e] > 0 /\ nat' = [nat EXCEPT ![e] = @ - 1]
  /\ UNCHANGED <<held, files, enabled, active, up, tangled, lone, ignored>>

\* The loop ends when no rule is listed: there is none, or the listing failed
\* (2>/dev/null and || true).
EndRules(r) ==
  /\ Command(r, "rules")
  /\ \/ nat = NoRules /\ ignored' = ignored \ {"rules"}
     \/ nat # NoRules /\ PassOver("rules")
  /\ UNCHANGED <<held, files, host, tangled, lone>>

\* rm -f removes the private key first and then the public one.
RemovePrivate(r) ==
  /\ Command(r, "unlinkPrivate")
  /\ priv' = 0
  /\ tangled' = (tangled \/ MakingKeys(r) # {})
  /\ lone' = (lone \/ pub # 0)
  /\ UNCHANGED <<held, made, pub, conf, host, ignored>>

RemovePublic(r) ==
  /\ Command(r, "unlinkPublic")
  /\ pub' = 0
  /\ tangled' = (MakingKeys(r) # {})
  /\ lone' = (lone \/ pub # 0)
  /\ ignored' = ignored \ {"private"}
  /\ UNCHANGED <<held, made, priv, conf, host>>

-----------------------------------------------------------------------------
(* The check of the keys, in a shell each.                                 *)

\* Without a public key, or with one that cannot be read, the check ends here.
ShowKey(r) ==
  \/ /\ Command(r, "showKey")
     /\ pub # 0
     /\ held' = [held EXCEPT ![r] = pub]
     /\ UNCHANGED <<files, host, tangled, lone, ignored>>
  \/ /\ todo[r] = InspectScript
     /\ End(r)
     /\ UNCHANGED <<files, host, past>>

\* The keys are told to differ when there are both and they do; without a
\* private key, and when the shell fails, the verdict is another one.
Derive(r) ==
  /\ todo[r] = Tail(InspectScript)
  /\ End(r)
  /\ told' = told \/ (priv \notin {0, held[r]} /\ Tell(Mismatch))
  /\ UNCHANGED <<files, host, tangled, mixed, lone, ignored>>

-----------------------------------------------------------------------------
\* The host starts again; the requests that were under way are lost.
Reboot ==
  /\ todo' = [r \in Slots |-> <<>>]
  /\ asked' = [r \in Slots |-> Clear] /\ held' = [r \in Slots |-> 0]
  /\ IF Quiet THEN told' = told ELSE Tell(Failed)
  /\ \/ /\ enabled /\ Usable
        /\ up' = conf /\ active' = TRUE
        /\ nat' = [NoRules EXCEPT ![conf.set.egress] = 1]
     \/ /\ ~(enabled /\ Usable)
        /\ up' = None /\ active' = FALSE
        /\ nat' = NoRules
  /\ mixed' = (mixed /\ (~Quiet \/ told \notin {{Clear}, {Wipe}, {Clear, Wipe}}))
  /\ ignored' = ignored \ {"stop", "rules"}
  /\ UNCHANGED <<files, enabled, tangled, lone>>

Step(r) ==
  \/ CheckKeys(r) \/ MakePrivate(r) \/ MakePublic(r) \/ ReadPrivate(r)
  \/ WriteConf(r) \/ Enable(r) \/ Start(r)
  \/ Stop(r) \/ Disable(r) \/ RemoveConf(r)
  \/ DeleteRule(r) \/ EndRules(r) \/ RemovePrivate(r) \/ RemovePublic(r)
  \/ ShowKey(r) \/ Derive(r)

Next ==
  \/ \E r \in Slots : Deploy(r) \/ Reset(r) \/ Check(r) \/ Step(r) \/ Abort(r)
  \/ Reboot

Spec == Init /\ [][Next]_wgVars

-----------------------------------------------------------------------------
(* Safety.                                                                 *)

\* When there are both keys, the public one, which is shown to the operator, is
\* that of the private one, in the middle of a script as well, whichever
\* command a script ended at and whichever file could not be written or has
\* been removed alone, unless two scripts have got into each other's way
\* between the test for the keys and their writing (wireguard.go:298).
KeysMatch == ~tangled /\ priv # 0 /\ pub # 0 => pub = priv

\* Deploys that overlap none but each other, and that all report success,
\* leave an interface with the key that they have shown, the NAT rule that it
\* needs, and the setting of one of them in the file that the next start reads
\* (wireguard.go:297-320), unless the stop of a reset before them or the
\* writing of a private key has failed unnoticed (wireguard.go:436, 299).
DeployedIsServed ==
  Quiet /\ told # {} /\ told \subseteq Setting
  /\ ~tangled /\ ~mixed /\ ignored \cap {"stop", "private"} = {} =>
    /\ enabled /\ active
    /\ conf.key = pub /\ conf.set \in told
    /\ up # None /\ up.key = pub
    /\ nat[up.set.egress] > 0

\* Resets that overlap none but each other, and that all report success, leave
\* no configuration, and the keys only if they were to stay, whatever requests
\* stopped half-way before.  Of the service, the interface and the NAT rules
\* they leave only what the failures have left that the script passes over,
\* and of these the next start of the host leaves a unit at most that has
\* nothing to start (wireguard.go:434-449).
ResetClears ==
  Quiet /\ told # {} /\ told \subseteq {Clear, Wipe} =>
    /\ conf = None
    /\ Wipe \in told => priv = 0 /\ pub = 0
    /\ enabled => "disable" \in ignored
    /\ active => "stop" \in ignored
    /\ up # None => "stop" \in ignored \/ mixed
    /\ nat # NoRules => "rules" \in ignored

\* A status or verify request reads the two keys in two shells, and may yet
\* be trusted when it tells of a mismatch: the keys have got tangled, or it has
\* met with a public key whose private key was not there, or that was removed
\* (wireguard.go:178-210).
MismatchIsReal == Mismatch \in told => tangled \/ lone

\* Once there are both keys, nothing but a reset that is to remove them changes
\* them, whatever scripts stopped half-way before, as long as no two have made
\* keys at once: peers that know the server's key are not cut off by another
\* deploy (wireguard.go:298-300).
KeysAreKept ==
  [][priv # 0 /\ pub # 0 /\ <<priv, pub>>' # <<priv, pub>> =>
       tangled \/ \E r \in Slots : asked[r] = Wipe]_wgVars
=============================================================================
