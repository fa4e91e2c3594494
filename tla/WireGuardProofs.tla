-------------------------- MODULE WireGuardProofs ---------------------------
(***************************************************************************)
(* Proofs about WireGuardService, for any number of requests, peers and    *)
(* egress interfaces: the server's keys match and stay, and what deploys,  *)
(* resets and checks of the keys that report success say of the host.      *)
(***************************************************************************)
EXTENDS WireGuardService, SequenceTheorems, TLAPS

DeployCommands == {"check", "private", "public", "read", "conf", "enable", "start"}
Unlinks == {"unlinkPrivate", "unlinkPublic"}
ResetCommands == {"stop", "disable", "remove", "rules"} \cup Unlinks
InspectCommands == {"showKey", "derive"}

\* What may be left of a script that has not ended, and of one that resets.
DeployRests ==
  {DeployScript, <<"private", "public", "read", "conf", "enable", "start">>,
   <<"public", "read", "conf", "enable", "start">>, <<"read", "conf", "enable", "start">>,
   <<"conf", "enable", "start">>, <<"enable", "start">>, <<"start">>}
ClearRests ==
  {ClearScript, <<"disable", "remove", "rules">>, <<"remove", "rules">>, <<"rules">>, <<>>}
WipeRests ==
  {WipeScript, <<"disable", "remove", "rules", "unlinkPrivate", "unlinkPublic">>,
   <<"remove", "rules", "unlinkPrivate", "unlinkPublic">>,
   <<"rules", "unlinkPrivate", "unlinkPublic">>, <<"unlinkPrivate", "unlinkPublic">>,
   <<"unlinkPublic">>}
InspectRests == {InspectScript, <<"derive">>}

\* What a script is for that has s left to do.
For(s, what) ==
  \/ what \in Setting /\ s \in DeployRests
  \/ what = Clear /\ s \in ClearRests
  \/ what = Wipe /\ s \in WipeRests
  \/ what = Inspect /\ s \in InspectRests

ScriptOK == \A r \in Slots : For(todo[r], asked[r])

\* The command that the script of a slot runs next.
First(s) == IF s = <<>> THEN "none" ELSE Head(s)
Now(r) == First(todo[r])

HostTyped ==
  /\ DOMAIN todo = Slots /\ DOMAIN asked = Slots
  /\ held \in [Slots -> 0..MaxKeys]
  /\ made \in 0..MaxKeys /\ priv \in 0..MaxKeys /\ pub \in 0..MaxKeys
  /\ conf \in Config \cup {None} /\ up \in Config \cup {None}
  /\ nat \in [Egresses -> Nat]

-----------------------------------------------------------------------------
(* The invariant.                                                          *)

\* What a script has in its hands when it writes the public key, and a check
\* when it derives one, is a key.  The only script that makes keys has found no
\* public key, and the private key is the one that it has made, if it could be
\* written.
Making(x) == Now(x) \in {"private", "public"}
MakerOK ==
  /\ \A x \in Slots : Now(x) \in {"public", "derive"} => held[x] # 0
  /\ ~tangled => \A x \in Slots : Making(x) =>
       /\ pub = 0
       /\ \A y \in Slots : Making(y) => y = x
       /\ Now(x) = "public" => priv = held[x] \/ (priv = 0 /\ "private" \in ignored)

\* A public key that is alone is noticed.
LoneOK == pub # 0 /\ priv = 0 => lone

\* Deploys and resets have not overlapped.
Apart ==
  ~mixed => \A x, y \in Slots : ~(Now(x) \in DeployCommands /\ Now(y) \in ResetCommands)

\* Then the configuration is gone when a reset comes to the rules, and the
\* service is active just when there is an interface, unless stopping it has
\* failed.
HostOK ==
  ~mixed =>
    /\ \A x \in Slots : Now(x) \in {"rules"} \cup Unlinks => conf = None
    /\ "stop" \notin ignored =>
         /\ active <=> up # None
         /\ active => conf # None /\ nat[up.set.egress] > 0
         /\ \A x \in Slots : Now(x) \in ResetCommands \ {"stop"} => ~active

\* Then the file and the interface have the key that is shown, and so has a
\* deploy in its hands.
KeyUse ==
  ~mixed /\ ~tangled /\ "private" \notin ignored =>
    /\ conf # None => conf.key = pub /\ pub # 0 /\ priv = pub
    /\ up # None /\ "stop" \notin ignored => up.key = pub /\ pub # 0 /\ priv = pub
    /\ \A x \in Slots : Now(x) \in {"read", "conf", "enable", "start"} => pub # 0 /\ priv = pub
    /\ \A x \in Slots : Now(x) = "conf" => held[x] = pub

\* Since the last time that no request was under way there have been
\* no resets and no failures, or no deploys and no failures.
OnlyDeploys == told \subseteq Setting /\ \A x \in Slots : Now(x) \notin ResetCommands
OnlyResets == told \subseteq {Clear, Wipe} /\ \A x \in Slots : Now(x) \notin DeployCommands

\* The settings that deploys have written since then.
Wanted == told \cup {asked[x] : x \in {y \in Slots : Now(y) \in {"enable", "start"}}}

\* What deploys have done is still so, unless the host has been started with a
\* configuration that has no key.
DeployInv ==
  OnlyDeploys =>
    /\ \A x \in Slots : Now(x) \in {"enable", "start"} => conf # None /\ conf.set \in Wanted
    /\ \A x \in Slots : Now(x) = "start" => enabled
    /\ told # {} =>
         /\ conf # None /\ conf.set \in Wanted /\ enabled
         /\ active \/ (conf.key = 0 /\ \A x \in Slots : Now(x) = "none")

\* What resets have taken away is still away, and what they have left is left
\* by a failure that was passed over.
ResetInv ==
  OnlyResets =>
    /\ \A x \in Slots : Now(x) \in ResetCommands \ {"stop"} => (active => "stop" \in ignored)
    /\ \A x \in Slots : Now(x) \in {"remove", "rules"} \cup Unlinks => (enabled => "disable" \in ignored)
    /\ \A x \in Slots : Now(x) \in {"rules"} \cup Unlinks => conf = None
    /\ \A x \in Slots : Now(x) \in Unlinks => (nat # NoRules => "rules" \in ignored)
    /\ \A x \in Slots : Now(x) = "unlinkPublic" => priv = 0
    /\ told # {} =>
         /\ active => "stop" \in ignored
         /\ enabled => "disable" \in ignored
         /\ conf = None
         /\ nat # NoRules => "rules" \in ignored
    /\ Wipe \in told => priv = 0 /\ pub = 0

\* The public key that a check has read is still there.
MismatchInv ==
  ~lone =>
    /\ Mismatch \in told => tangled /\ pub # 0
    /\ \A x \in Slots : Now(x) = "derive" => pub # 0 /\ (tangled \/ held[x] = pub)

KeysInv == MakerOK /\ KeysMatch /\ LoneOK
PastInv == DeployInv /\ ResetInv /\ MismatchInv
WGInv == ScriptOK /\ HostTyped /\ KeysInv /\ Apart /\ HostOK /\ KeyUse /\ PastInv

-----------------------------------------------------------------------------
(* Scripts.                                                                *)

\* A test that has found the keys skips to the fourth command.
LEMMA Skip == SubSeq(DeployScript, 4, Len(DeployScript)) = <<"read", "conf", "enable", "start">>
<1> DEFINE s == SubSeq(DeployScript, 4, Len(DeployScript))
           t == <<"read", "conf", "enable", "start">>
<1>1. /\ DeployScript \in Seq(DeployCommands) /\ Len(DeployScript) = 7
      /\ DeployScript[4] = "read" /\ DeployScript[5] = "conf"
      /\ DeployScript[6] = "enable" /\ DeployScript[7] = "start"
  BY DEF DeployScript, DeployCommands
<1>2. /\ s \in Seq(DeployCommands) /\ Len(s) = 4
      /\ \A i \in 1..4 : s[i] = DeployScript[i + 3]
  <2>1. \A i \in 4..7 : DeployScript[i] \in DeployCommands
    BY <1>1 DEF DeployCommands
  <2>2. /\ s \in Seq(DeployCommands)
        /\ Len(s) = IF 4 <= 7 THEN 7 - 4 + 1 ELSE 0
        /\ \A i \in 1..(7 - 4 + 1) : s[i] = DeployScript[4 + i - 1]
    BY ONLY <1>1, <2>1, SubSeqProperties
  <2> HIDE DEF s
  <2> QED BY <2>2
<1>3. /\ t \in Seq(DeployCommands) /\ Len(t) = 4
      /\ t[1] = "read" /\ t[2] = "conf" /\ t[3] = "enable" /\ t[4] = "start"
  BY DEF DeployCommands
<1> HIDE DEF s, t
<1>4. s = t
  BY <1>1, <1>2, <1>3, SeqEqual
<1> QED BY <1>4 DEF s, t

\* What is left of a deploy: the next command tells how it goes on.
LEMMA DeployRest ==
  ASSUME NEW s \in DeployRests
  PROVE  /\ s # <<>> /\ Head(s) \in DeployCommands
         /\ Head(s) = "check" => s = DeployScript /\ Tail(s) \in DeployRests /\ Head(Tail(s)) = "private"
         /\ Head(s) = "private" => Tail(s) \in DeployRests /\ Head(Tail(s)) = "public"
         /\ Head(s) = "public" => Tail(s) \in DeployRests /\ Head(Tail(s)) = "read"
         /\ Head(s) = "read" => Tail(s) \in DeployRests /\ Head(Tail(s)) = "conf"
         /\ Head(s) = "conf" => Tail(s) \in DeployRests /\ Head(Tail(s)) = "enable"
         /\ Head(s) = "enable" => Tail(s) \in DeployRests /\ Head(Tail(s)) = "start"
         /\ Head(s) = "start" => Tail(s) = <<>>
<1> USE DEF DeployRests, DeployCommands
<1>1. CASE s = DeployScript
  BY <1>1 DEF DeployScript
<1>2. CASE s = <<"private", "public", "read", "conf", "enable", "start">>
  BY <1>2
<1>3. CASE s = <<"public", "read", "conf", "enable", "start">>
  BY <1>3
<1>4. CASE s = <<"read", "conf", "enable", "start">>
  BY <1>4
<1>5. CASE s = <<"conf", "enable", "start">>
  BY <1>5
<1>6. CASE s = <<"enable", "start">>
  BY <1>6
<1>7. CASE s = <<"start">>
  BY <1>7
<1> QED BY <1>1, <1>2, <1>3, <1>4, <1>5, <1>6, <1>7

\* The same of a reset that keeps the keys.
LEMMA ClearRest ==
  ASSUME NEW s \in ClearRests, s # <<>>
  PROVE  /\ Head(s) \in ResetCommands \ Unlinks
         /\ Head(s) = "stop" => Tail(s) \in ClearRests /\ Tail(s) # <<>> /\ Head(Tail(s)) = "disable"
         /\ Head(s) = "disable" => Tail(s) \in ClearRests /\ Tail(s) # <<>> /\ Head(Tail(s)) = "remove"
         /\ Head(s) = "remove" => Tail(s) \in ClearRests /\ Tail(s) # <<>> /\ Head(Tail(s)) = "rules"
         /\ Head(s) = "rules" => Tail(s) = <<>>
<1> USE DEF ClearRests, ResetCommands, Unlinks
<1>1. CASE s = ClearScript
  BY <1>1 DEF ClearScript
<1>2. CASE s = <<"disable", "remove", "rules">>
  BY <1>2
<1>3. CASE s = <<"remove", "rules">>
  BY <1>3
<1>4. CASE s = <<"rules">>
  BY <1>4
<1> QED BY <1>1, <1>2, <1>3, <1>4

\* The reset that removes the keys does everything else before.
LEMMA WipeScriptIs ==
  WipeScript = <<"stop", "disable", "remove", "rules", "unlinkPrivate", "unlinkPublic">>
<1> DEFINE t == <<"stop", "disable", "remove", "rules", "unlinkPrivate", "unlinkPublic">>
<1> USE DEF ResetCommands, Unlinks
<1>1. /\ ClearScript \in Seq(ResetCommands) /\ Len(ClearScript) = 4
      /\ ClearScript[1] = "stop" /\ ClearScript[2] = "disable"
      /\ ClearScript[3] = "remove" /\ ClearScript[4] = "rules"
  BY DEF ClearScript
<1>2. /\ WipeScript \in Seq(ResetCommands) /\ Len(WipeScript) = 6
      /\ \A i \in 1..4 : WipeScript[i] = ClearScript[i]
      /\ WipeScript[5] = "unlinkPrivate" /\ WipeScript[6] = "unlinkPublic"
  BY <1>1 DEF WipeScript, ClearScript
<1>3. /\ t \in Seq(ResetCommands) /\ Len(t) = 6
      /\ t[1] = "stop" /\ t[2] = "disable" /\ t[3] = "remove" /\ t[4] = "rules"
      /\ t[5] = "unlinkPrivate" /\ t[6] = "unlinkPublic"
  OBVIOUS
<1> HIDE DEF t, ResetCommands, Unlinks
<1>4. WipeScript = t
  <2>1. /\ \A i \in 1..4 : WipeScript[i] = t[i]
        /\ WipeScript[5] = t[5] /\ WipeScript[6] = t[6]
    BY <1>1, <1>2, <1>3
  <2>2. \A i \in 1..6 : WipeScript[i] = t[i]
    BY ONLY <2>1
  <2> QED BY <1>2, <1>3, <2>2, SeqEqual
<1> QED BY <1>4 DEF t

\* What is left of such a reset.
LEMMA WipeRest ==
  ASSUME NEW s \in WipeRests
  PROVE  /\ s # <<>> /\ Head(s) \in ResetCommands
         /\ Head(s) = "stop" => Tail(s) \in WipeRests /\ Head(Tail(s)) = "disable"
         /\ Head(s) = "disable" => Tail(s) \in WipeRests /\ Head(Tail(s)) = "remove"
         /\ Head(s) = "remove" => Tail(s) \in WipeRests /\ Head(Tail(s)) = "rules"
         /\ Head(s) = "rules" => Tail(s) \in WipeRests /\ Head(Tail(s)) = "unlinkPrivate"
         /\ Head(s) = "unlinkPrivate" => Tail(s) \in WipeRests /\ Head(Tail(s)) = "unlinkPublic"
         /\ Head(s) = "unlinkPublic" => Tail(s) = <<>>
<1> USE DEF WipeRests, ResetCommands, Unlinks
<1>1. CASE s = WipeScript
  <2>1. s = <<"stop", "disable", "remove", "rules", "unlinkPrivate", "unlinkPublic">>
    BY <1>1, WipeScriptIs
  <2> QED BY <2>1
<1>2. CASE s = <<"disable", "remove", "rules", "unlinkPrivate", "unlinkPublic">>
  BY <1>2
<1>3. CASE s = <<"remove", "rules", "unlinkPrivate", "unlinkPublic">>
  BY <1>3
<1>4. CASE s = <<"rules", "unlinkPrivate", "unlinkPublic">>
  BY <1>4
<1>5. CASE s = <<"unlinkPrivate", "unlinkPublic">>
  BY <1>5
<1>6. CASE s = <<"unlinkPublic">>
  BY <1>6
<1> QED BY <1>1, <1>2, <1>3, <1>4, <1>5, <1>6

\* What is left of a check of the keys.
LEMMA InspectRest ==
  ASSUME NEW s \in InspectRests
  PROVE  /\ s # <<>> /\ Head(s) \in InspectCommands
         /\ Head(s) = "showKey" => Tail(s) \in InspectRests /\ Head(Tail(s)) = "derive"
         /\ Head(s) = "derive" => s = <<"derive">>
<1> USE DEF InspectRests, InspectCommands
<1>1. CASE s = InspectScript
  BY <1>1 DEF InspectScript
<1>2. CASE s = <<"derive">>
  BY <1>2
<1> QED BY <1>1, <1>2

\* Scripts that have just begun, and scripts that have ended.
LEMMA Whole ==
  /\ DeployScript \in DeployRests /\ First(DeployScript) = "check"
  /\ ClearScript \in ClearRests /\ First(ClearScript) = "stop"
  /\ WipeScript \in WipeRests /\ First(WipeScript) = "stop"
  /\ InspectScript \in InspectRests /\ First(InspectScript) = "showKey"
  /\ <<>> \in ClearRests /\ First(<<>>) = "none"
<1>1. DeployScript \in DeployRests /\ First(DeployScript) = "check"
  BY DEF DeployScript, DeployRests, First
<1>2. ClearScript \in ClearRests /\ First(ClearScript) = "stop"
  BY DEF ClearScript, ClearRests, First
<1>3. WipeScript \in WipeRests /\ First(WipeScript) = "stop"
  BY WipeScriptIs DEF WipeRests, First
<1>4. InspectScript \in InspectRests /\ First(InspectScript) = "showKey"
  BY DEF InspectScript, InspectRests, First
<1>5. <<>> \in ClearRests /\ First(<<>>) = "none"
  BY DEF ClearRests, First
<1> QED BY <1>1, <1>2, <1>3, <1>4, <1>5

\* The command tells what the script is for.
LEMMA NowFacts ==
  ASSUME NEW s, NEW what, For(s, what)
  PROVE  /\ First(s) \in DeployCommands <=> what \in Setting
         /\ First(s) \in ResetCommands => what \in {Clear, Wipe}
         /\ First(s) \in InspectCommands <=> what = Inspect
         /\ First(s) = "none" <=> s = <<>>
         /\ First(s) = "none" => what = Clear
         /\ what = Clear => First(s) = "none" \/ First(s) \in ResetCommands \ Unlinks
         /\ what = Wipe => First(s) \in ResetCommands
<1> USE WGAssumption DEF WGAssumption, First
<1>1. CASE what \in Setting /\ s \in DeployRests
  BY <1>1, DeployRest DEF DeployCommands, ResetCommands, Unlinks, InspectCommands
<1>2. CASE what = Clear /\ s \in ClearRests
  BY <1>2, ClearRest DEF DeployCommands, ResetCommands, Unlinks, InspectCommands
<1>3. CASE what = Wipe /\ s \in WipeRests
  BY <1>3, WipeRest DEF DeployCommands, ResetCommands, Unlinks, InspectCommands
<1>4. CASE what = Inspect /\ s \in InspectRests
  BY <1>4, InspectRest DEF DeployCommands, ResetCommands, Unlinks, InspectCommands
<1> QED BY <1>1, <1>2, <1>3, <1>4 DEF For

\* No request is under way when no script has a command left.
LEMMA QuietNow == ASSUME ScriptOK PROVE Quiet <=> \A r \in Slots : Now(r) = "none"
BY NowFacts DEF Quiet, ScriptOK, Now

-----------------------------------------------------------------------------
(* What a command does to the requests.                                    *)

\* The script of r runs a command, or ends with it.
Goes(r, name) ==
  /\ Now(r) = name /\ name # "none"
  /\ \A x \in Slots \ {r} : Now(x)' = Now(x) /\ asked'[x] = asked[x]
  /\ IF Now(r)' = "none" THEN Tell(asked[r]) \/ Tell(Failed)
     ELSE told' = told /\ asked'[r] = asked[r]
  /\ mixed' = mixed

\* What is the next command after it.
Follows(r, name) ==
  /\ name = "check" => Now(r)' \in {"private", "read"}
  /\ name = "private" => Now(r)' = "public"
  /\ name = "public" => Now(r)' = "read"
  /\ name = "read" => Now(r)' = "conf"
  /\ name = "conf" => Now(r)' = "enable"
  /\ name = "enable" => Now(r)' = "start"
  /\ name \in {"start", "unlinkPublic"} => Now(r)' = "none"
  /\ name = "stop" => Now(r)' = "disable"
  /\ name = "disable" => Now(r)' = "remove"
  /\ name = "remove" => Now(r)' = "rules"
  /\ name = "rules" => Now(r)' \in {"rules", "unlinkPrivate", "none"}
  /\ name = "unlinkPrivate" => Now(r)' = "unlinkPublic"
  /\ name = "showKey" => Now(r)' = "derive"

\* Of a script that goes on the slot, and nothing else, has moved.
LEMMA ContinueGoes ==
  ASSUME ScriptOK, HostTyped, NEW r \in Slots, NEW name, name # "none", NEW rest,
         Continue(r, name, rest), rest # <<>> => For(rest, asked[r])
  PROVE  /\ ScriptOK' /\ DOMAIN todo' = Slots /\ DOMAIN asked' = Slots
         /\ Goes(r, name) /\ Now(r)' = First(rest)
<1>1. /\ todo[r] # <<>> /\ Head(todo[r]) = name
      /\ todo' = [todo EXCEPT ![r] = rest] /\ mixed' = mixed
      /\ rest = <<>> => (Tell(asked[r]) \/ Tell(Failed)) /\ asked' = [asked EXCEPT ![r] = Clear]
      /\ rest # <<>> => told' = told /\ asked' = asked
  BY DEF Continue
<1>2. DOMAIN todo = Slots /\ DOMAIN asked = Slots
  BY DEF HostTyped
<1>3. \A x \in Slots : todo'[x] = IF x = r THEN rest ELSE todo[x]
  BY <1>1, <1>2
<1>4. \A x \in Slots \ {r} : asked'[x] = asked[x]
  BY <1>1, <1>2
<1>5. /\ rest = <<>> => asked'[r] = Clear
      /\ rest # <<>> => asked'[r] = asked[r]
  BY <1>1, <1>2
<1>6. For(rest, asked'[r])
  BY <1>5, Whole DEF For
<1>7. ScriptOK'
  BY <1>3, <1>4, <1>6 DEF ScriptOK
<1>8. Now(r) = name /\ Now(r)' = First(rest) /\ \A x \in Slots \ {r} : Now(x)' = Now(x)
  BY <1>1, <1>3 DEF Now, First
<1>9. First(rest) = "none" <=> rest = <<>>
  BY <1>6, NowFacts
<1>10. Goes(r, name)
  BY <1>1, <1>4, <1>5, <1>8, <1>9 DEF Goes
<1>11. DOMAIN todo' = Slots /\ DOMAIN asked' = Slots
  BY <1>1, <1>2
<1> QED BY <1>7, <1>8, <1>10, <1>11

\* The rest of a script is what is left of it.
LEMMA RestOf ==
  ASSUME NEW s, NEW what, For(s, what), s # <<>>
  PROVE  /\ Tail(s) # <<>> => For(Tail(s), what)
         /\ Head(s) # "none"
         /\ Head(s) = "check" => First(Tail(s)) = "private"
         /\ Head(s) = "private" => First(Tail(s)) = "public"
         /\ Head(s) = "public" => First(Tail(s)) = "read"
         /\ Head(s) = "read" => First(Tail(s)) = "conf"
         /\ Head(s) = "conf" => First(Tail(s)) = "enable"
         /\ Head(s) = "enable" => First(Tail(s)) = "start"
         /\ Head(s) \in {"start", "unlinkPublic"} => First(Tail(s)) = "none"
         /\ Head(s) = "stop" => First(Tail(s)) = "disable"
         /\ Head(s) = "disable" => First(Tail(s)) = "remove"
         /\ Head(s) = "remove" => First(Tail(s)) = "rules"
         /\ Head(s) = "rules" => First(Tail(s)) \in {"unlinkPrivate", "none"}
         /\ Head(s) = "unlinkPrivate" => First(Tail(s)) = "unlinkPublic"
         /\ Head(s) = "showKey" => First(Tail(s)) = "derive"
<1> USE DEF First
<1>1. CASE what \in Setting /\ s \in DeployRests
  <2>1. \A t \in DeployRests : t # <<>>
    BY DeployRest
  <2> QED BY <1>1, <2>1, DeployRest DEF For, DeployCommands
<1>2. CASE what = Clear /\ s \in ClearRests
  BY <1>2, ClearRest DEF For, ResetCommands, Unlinks
<1>3. CASE what = Wipe /\ s \in WipeRests
  <2>1. \A t \in WipeRests : t # <<>>
    BY WipeRest
  <2> QED BY <1>3, <2>1, WipeRest DEF For, ResetCommands, Unlinks
<1>4. CASE what = Inspect /\ s \in InspectRests
  <2>1. Tail(<<"derive">>) = <<>>
    OBVIOUS
  <2>2. \A t \in InspectRests : t # <<>>
    BY InspectRest
  <2> QED BY <1>4, <2>1, <2>2, InspectRest DEF For, InspectCommands
<1> QED BY <1>1, <1>2, <1>3, <1>4 DEF For

\* The same when it goes on with its next command.
LEMMA CommandGoes ==
  ASSUME ScriptOK, HostTyped, NEW r \in Slots, NEW name, Command(r, name)
  PROVE  /\ ScriptOK' /\ DOMAIN todo' = Slots /\ DOMAIN asked' = Slots
         /\ Goes(r, name) /\ Follows(r, name)
<1>1. todo[r] # <<>> /\ Head(todo[r]) = name /\ Continue(r, name, Tail(todo[r]))
  BY DEF Command, Continue
<1>2. For(todo[r], asked[r])
  BY DEF ScriptOK
<1>3. name # "none" /\ (Tail(todo[r]) # <<>> => For(Tail(todo[r]), asked[r]))
  BY <1>1, <1>2, RestOf
<1>4. /\ ScriptOK' /\ DOMAIN todo' = Slots /\ DOMAIN asked' = Slots
      /\ Goes(r, name) /\ Now(r)' = First(Tail(todo[r]))
  BY <1>1, <1>3, ContinueGoes
<1>5. Follows(r, name)
  BY <1>1, <1>2, <1>4, RestOf DEF Follows
<1> QED BY <1>4, <1>5

\* A test that has found the keys.
LEMMA SkipGoes ==
  ASSUME ScriptOK, HostTyped, NEW r \in Slots,
         Continue(r, "check", SubSeq(todo[r], 4, Len(todo[r])))
  PROVE  /\ ScriptOK' /\ DOMAIN todo' = Slots /\ DOMAIN asked' = Slots
         /\ Goes(r, "check") /\ Now(r)' = "read"
<1> DEFINE rest == <<"read", "conf", "enable", "start">>
<1>1. For(todo[r], asked[r]) /\ todo[r] # <<>> /\ Head(todo[r]) = "check"
  BY DEF ScriptOK, Continue
<1>2. First(todo[r]) = "check"
  BY <1>1 DEF First
<1>3. asked[r] \in Setting
  BY <1>1, <1>2, NowFacts DEF DeployCommands
<1>4. todo[r] \in DeployRests
  BY <1>1, <1>3, WGAssumption DEF WGAssumption, For
<1>5. todo[r] = DeployScript
  BY <1>1, <1>4, DeployRest
<1>6. Continue(r, "check", rest)
  BY <1>5, Skip
<1>7. rest \in DeployRests /\ First(rest) = "read"
  BY DEF DeployRests, First
<1>8. For(rest, asked[r])
  BY <1>3, <1>7 DEF For
<1> HIDE DEF rest
<1> QED BY <1>6, <1>7, <1>8, ContinueGoes

\* A round of the loop over the rules.
LEMMA RoundGoes ==
  ASSUME ScriptOK, HostTyped, NEW r \in Slots, Continue(r, "rules", todo[r])
  PROVE  /\ ScriptOK' /\ DOMAIN todo' = Slots /\ DOMAIN asked' = Slots
         /\ Goes(r, "rules") /\ Now(r)' = "rules"
<1>1. For(todo[r], asked[r]) /\ First(todo[r]) = "rules"
  BY DEF ScriptOK, Continue, First
<1> QED BY <1>1, ContinueGoes

\* A check has read a public key.
ShowsKey(r) ==
  /\ Command(r, "showKey")
  /\ pub # 0 /\ held' = [held EXCEPT ![r] = pub]
  /\ UNCHANGED <<files, host, tangled, lone, ignored>>

\* A command of a script, by its name.
Runs(r, name) ==
  \/ name = "check" /\ CheckKeys(r)
  \/ name = "private" /\ MakePrivate(r)
  \/ name = "public" /\ MakePublic(r)
  \/ name = "read" /\ ReadPrivate(r)
  \/ name = "conf" /\ WriteConf(r)
  \/ name = "enable" /\ Enable(r)
  \/ name = "start" /\ Start(r)
  \/ name = "stop" /\ Stop(r)
  \/ name = "disable" /\ Disable(r)
  \/ name = "remove" /\ RemoveConf(r)
  \/ name = "rules" /\ (DeleteRule(r) \/ EndRules(r))
  \/ name = "unlinkPrivate" /\ RemovePrivate(r)
  \/ name = "unlinkPublic" /\ RemovePublic(r)
  \/ name = "showKey" /\ ShowsKey(r)

\* The same for every command that a script runs.
LEMMA RunsGoes ==
  ASSUME ScriptOK, HostTyped, NEW r \in Slots, NEW name, Runs(r, name)
  PROVE  /\ ScriptOK' /\ DOMAIN todo' = Slots /\ DOMAIN asked' = Slots
         /\ Goes(r, name) /\ Follows(r, name)
<1>1. CASE Command(r, name)
  BY <1>1, CommandGoes
<1>2. CASE name = "check" /\ Continue(r, "check", SubSeq(todo[r], 4, Len(todo[r])))
  BY <1>2, SkipGoes DEF Follows
<1>3. CASE name = "rules" /\ Continue(r, "rules", todo[r])
  BY <1>3, RoundGoes DEF Follows
<1>4. \/ Command(r, name)
      \/ name = "check" /\ Continue(r, "check", SubSeq(todo[r], 4, Len(todo[r])))
      \/ name = "rules" /\ Continue(r, "rules", todo[r])
  BY DEF Runs, CheckKeys, MakesKeys, KeepsKeys, MakePrivate, MakePublic, ReadPrivate, WriteConf, Enable, Start,
         Stop, Disable, RemoveConf, DeleteRule, EndRules, RemovePrivate, RemovePublic, ShowsKey
<1> QED BY <1>1, <1>2, <1>3, <1>4

\* The commands that this is about.
LEMMA RunsName ==
  ASSUME NEW r, NEW name, Runs(r, name)
  PROVE  name \in DeployCommands \cup ResetCommands \cup {"showKey"}
BY DEF Runs, DeployCommands, ResetCommands, Unlinks

\* The types of the host.
LEMMA RunsTyped ==
  ASSUME ScriptOK, HostTyped, NEW r \in Slots, NEW name, Runs(r, name)
  PROVE  HostTyped'
<1> USE WGAssumption DEF WGAssumption
<1>1. DOMAIN todo' = Slots /\ DOMAIN asked' = Slots /\ Now(r) = name
  BY RunsGoes DEF Goes
<1>2. CASE name = "check"
  BY <1>1, <1>2 DEF Runs, CheckKeys, MakesKeys, KeepsKeys, HostTyped, host
<1>3. CASE name = "private"
  BY <1>1, <1>3 DEF Runs, MakePrivate, HostTyped, host
<1>4. CASE name = "public"
  BY <1>1, <1>4 DEF Runs, MakePublic, HostTyped, host
<1>5. CASE name = "read"
  BY <1>1, <1>5 DEF Runs, ReadPrivate, HostTyped, host, files
<1>6. CASE name = "conf"
  <2>1. asked[r] \in Setting
    BY <1>1, <1>6, NowFacts DEF ScriptOK, Now, DeployCommands
  <2>2. conf' \in Config
    <3>1. held[r] \in 0..MaxKeys
      BY DEF HostTyped
    <3>2. conf' = [key |-> held[r], set |-> asked[r]]
      BY <1>6 DEF Runs, WriteConf
    <3> QED BY <2>1, <3>1, <3>2 DEF Config
  <2> QED BY <1>1, <1>6, <2>2 DEF Runs, WriteConf, HostTyped, host
<1>7. CASE name \in {"enable", "disable"}
  BY <1>1, <1>7 DEF Runs, Enable, Disable, HostTyped, files
<1>8. CASE name = "start"
  BY <1>1, <1>8 DEF Runs, Start, BringUp, Usable, HostTyped, files
<1>9. CASE name = "stop"
  <2>1. nat' = nat \/ \E e \in Egresses : nat[e] > 0 /\ nat' = [nat EXCEPT ![e] = @ - 1]
    <3>1. conf # None => conf.set.egress \in Egresses
      BY DEF HostTyped, Config, Setting
    <3> QED BY <1>9, <3>1 DEF Runs, Stop
  <2>2. nat' \in [Egresses -> Nat]
    BY <2>1 DEF HostTyped
  <2>3. up' = up \/ up' = None
    BY <1>9 DEF Runs, Stop
  <2>4. UNCHANGED <<held, made, priv, pub, conf>>
    BY <1>9 DEF Runs, Stop, files
  <2> QED BY <1>1, <2>2, <2>3, <2>4 DEF HostTyped
<1>10. CASE name = "remove"
  BY <1>1, <1>10 DEF Runs, RemoveConf, HostTyped, host
<1>11. CASE name = "rules"
  BY <1>1, <1>11 DEF Runs, DeleteRule, EndRules, HostTyped, files, host
<1>12. CASE name \in Unlinks
  BY <1>1, <1>12 DEF Runs, RemovePrivate, RemovePublic, HostTyped, host, Unlinks
<1>13. CASE name = "showKey"
  BY <1>1, <1>13 DEF Runs, ShowsKey, HostTyped, host, files
<1> QED BY <1>2, <1>3, <1>4, <1>5, <1>6, <1>7, <1>8, <1>9, <1>10, <1>11, <1>12, <1>13, RunsName
        DEF DeployCommands, ResetCommands

-----------------------------------------------------------------------------
(* What a command does to what has been told.                              *)

\* What a success adds to what requests were told, and what a failure leaves.
LEMMA TellFacts ==
  ASSUME NEW x, Tell(x)
  PROVE  /\ told' = told \cup {x} \/ told' \in {{Failed}, {Mismatch}}
         /\ x = Failed => told' \in {{Failed}, {Mismatch}}
         /\ Mismatch \in told' => Mismatch \in told \/ x = Mismatch
BY WGAssumption DEF WGAssumption, Tell

\* A stretch of deploys or of resets alone has been one a step before, and its
\* history only grows.
LEMMA GoesFacts ==
  ASSUME ScriptOK, ScriptOK', NEW r \in Slots, NEW name, Goes(r, name),
         Follows(r, name)
  PROVE  /\ OnlyDeploys' => OnlyDeploys /\ name \notin ResetCommands /\ Wanted \subseteq Wanted'
         /\ OnlyDeploys' /\ told' # {} => told # {} \/ Now(r)' = "none"
         /\ OnlyResets' => OnlyResets /\ name \notin DeployCommands
         /\ OnlyResets' /\ told' # {} => told # {} \/ Now(r)' = "none"
         /\ OnlyResets' /\ Wipe \in told' => Wipe \in told \/ (Now(r)' = "none" /\ asked[r] = Wipe)
         /\ Mismatch \in told' => Mismatch \in told
         /\ Apart => Apart'
<1> USE WGAssumption DEF WGAssumption
<1>1. /\ name \in DeployCommands <=> asked[r] \in Setting
      /\ name \in ResetCommands => asked[r] \in {Clear, Wipe}
      /\ asked[r] \in {Clear, Wipe} => name \in ResetCommands
      /\ name \in InspectCommands <=> asked[r] = Inspect
      /\ asked[r] \in Setting \cup {Clear, Wipe, Inspect}
  BY NowFacts DEF ScriptOK, For, Now, Goes
<1>2. Now(r)' # "none" =>
        /\ Now(r)' \in DeployCommands <=> name \in DeployCommands
        /\ Now(r)' \in ResetCommands <=> name \in ResetCommands
  <2> SUFFICES ASSUME Now(r)' # "none"
               PROVE  /\ Now(r)' \in DeployCommands <=> name \in DeployCommands
                      /\ Now(r)' \in ResetCommands <=> name \in ResetCommands
    OBVIOUS
  <2>1. For(todo'[r], asked'[r]) /\ asked'[r] = asked[r]
    BY DEF ScriptOK, Goes
  <2>2. Now(r)' = First(todo'[r])
    BY DEF Now
  <2> QED BY <1>1, <2>1, <2>2, NowFacts
<1>3. "none" \notin DeployCommands \cup ResetCommands
  BY DEF DeployCommands, ResetCommands, Unlinks
<1>4. Now(r)' = "none" =>
        /\ told' = told \cup {asked[r]} \/ told' \in {{Failed}, {Mismatch}}
        /\ Mismatch \in told' => Mismatch \in told
  BY <1>1, TellFacts DEF Goes
<1>5. Now(r)' # "none" => told' = told /\ asked'[r] = asked[r]
  BY DEF Goes
<1>6. Now(r) = name /\ mixed' = mixed /\ \A x \in Slots \ {r} : Now(x)' = Now(x) /\ asked'[x] = asked[x]
  BY DEF Goes
<1>7. Mismatch \in told' => Mismatch \in told
  BY <1>4, <1>5
<1>8. ASSUME OnlyDeploys'
      PROVE  OnlyDeploys /\ name \notin ResetCommands /\ Wanted \subseteq Wanted'
             /\ (told' # {} => told # {} \/ Now(r)' = "none")
  <2>1. told \subseteq told' /\ (Now(r)' = "none" => asked[r] \in told')
    BY <1>4, <1>5, <1>8 DEF OnlyDeploys
  <2>2. name \notin ResetCommands
    BY <1>1, <1>2, <1>8, <2>1 DEF OnlyDeploys
  <2>3. OnlyDeploys
    BY <1>6, <1>8, <2>1, <2>2 DEF OnlyDeploys
  <2>4. ASSUME NEW x \in Slots, Now(x) \in {"enable", "start"} PROVE asked[x] \in Wanted'
    <3>1. CASE x = r /\ Now(r)' = "none"
      BY <2>1, <3>1 DEF Wanted
    <3>2. CASE x = r /\ Now(r)' # "none"
      <4>1. Now(x)' = "start"
        BY <1>6, <2>4, <3>2 DEF Follows
      <4> QED BY <1>5, <3>2, <4>1 DEF Wanted
    <3>3. CASE x # r
      BY <1>6, <2>4, <3>3 DEF Wanted
    <3> QED BY <3>1, <3>2, <3>3
  <2>5. Wanted \subseteq Wanted'
    BY <2>1, <2>4 DEF Wanted
  <2> QED BY <1>5, <2>2, <2>3, <2>5
<1>9. ASSUME OnlyResets'
      PROVE  OnlyResets /\ name \notin DeployCommands
             /\ (told' # {} => told # {} \/ Now(r)' = "none")
             /\ (Wipe \in told' => Wipe \in told \/ (Now(r)' = "none" /\ asked[r] = Wipe))
  <2>1. told \subseteq told' /\ (Now(r)' = "none" => told' = told \cup {asked[r]})
    BY <1>4, <1>5, <1>9 DEF OnlyResets
  <2>2. name \notin DeployCommands
    BY <1>1, <1>2, <1>9, <2>1 DEF OnlyResets
  <2>3. OnlyResets
    BY <1>6, <1>9, <2>1, <2>2 DEF OnlyResets
  <2>4. CASE Now(r)' = "none"
    BY <2>1, <2>2, <2>3, <2>4
  <2>5. CASE Now(r)' # "none"
    BY <1>5, <2>2, <2>3, <2>5
  <2> QED BY <2>4, <2>5
<1>10. ASSUME Apart PROVE Apart'
  BY <1>2, <1>3, <1>6, <1>10 DEF Apart
<1> QED BY <1>7, <1>8, <1>9, <1>10

-----------------------------------------------------------------------------
(* What a command does to the host and its keys.                           *)

\* What no command takes back of what has happened, but the one that makes good
\* for it.
LEMMA RunsIgnored ==
  ASSUME NEW r, NEW name, Runs(r, name)
  PROVE  /\ lone => lone'
         /\ name # "unlinkPublic" => (tangled => tangled')
         /\ name # "unlinkPublic" => ("private" \in ignored => "private" \in ignored')
         /\ name # "stop" => ("stop" \in ignored <=> "stop" \in ignored')
         /\ name # "disable" => ("disable" \in ignored => "disable" \in ignored')
         /\ name # "rules" => ("rules" \in ignored => "rules" \in ignored')
<1>1. CASE name = "check"
  <2>1. CheckKeys(r)
    BY <1>1 DEF Runs
  <2>2. lone' = lone /\ ignored' = ignored
    BY <2>1 DEF CheckKeys
  <2>3. tangled => tangled'
    BY <2>1 DEF CheckKeys, MakesKeys, KeepsKeys
  <2> QED BY <2>2, <2>3
<1>2. CASE name \in {"private", "public"}
  <2>1. MakePrivate(r) \/ MakePublic(r)
    BY <1>2 DEF Runs
  <2>2. ignored' \in {ignored, ignored \cup {"private"}} /\ tangled' = tangled
    BY <2>1 DEF MakePrivate, MakePublic, PassOver
  <2>3. lone => lone'
    BY <2>1 DEF MakePrivate, MakePublic
  <2>4. \A f : f \in ignored => f \in ignored'
    BY <2>2
  <2>5. "stop" \in ignored <=> "stop" \in ignored'
    BY <2>2
  <2> QED BY <2>2, <2>3, <2>4, <2>5
<1>3. CASE name \in {"read", "conf", "enable", "start", "remove", "showKey"}
  BY <1>3 DEF Runs, ReadPrivate, WriteConf, Enable, Start, RemoveConf, ShowsKey
<1>4. CASE name \in {"stop", "disable"}
  BY <1>4 DEF Runs, Stop, Disable, PassOver
<1>5. CASE name = "rules"
  BY <1>5 DEF Runs, DeleteRule, EndRules, PassOver
<1>6. CASE name \in Unlinks
  BY <1>6 DEF Runs, RemovePrivate, RemovePublic, Unlinks
<1> QED BY <1>1, <1>2, <1>3, <1>4, <1>5, <1>6, RunsName DEF DeployCommands, ResetCommands

\* The commands other than those that make or remove keys.
LEMMA RunsLeavesKeys ==
  ASSUME NEW r, NEW name, Runs(r, name),
         name \notin {"check", "private", "public"} \cup Unlinks
  PROVE  UNCHANGED <<priv, pub, tangled, lone>>
BY DEF Runs, ReadPrivate, WriteConf, Enable, Start, Stop, Disable, RemoveConf, DeleteRule,
       EndRules, ShowsKey, files, Unlinks

\* No command has a hand in what another script holds.
LEMMA RunsHolds ==
  ASSUME HostTyped, NEW r \in Slots, NEW name, Runs(r, name)
  PROVE  \A x \in Slots \ {r} : held'[x] = held[x]
BY DEF HostTyped, Runs, CheckKeys, MakePrivate, MakePublic, ReadPrivate, WriteConf, Enable,
       Start, Stop, Disable, RemoveConf, DeleteRule, EndRules, RemovePrivate, RemovePublic, ShowsKey

\* A test for the keys makes new ones or goes on with those that there are.
LEMMA Checks ==
  ASSUME ScriptOK, HostTyped, NEW r \in Slots, CheckKeys(r)
  PROVE  \/ /\ priv = 0 \/ pub = 0
            /\ priv' = 0 /\ pub' = 0 /\ tangled' = (tangled \/ MakingKeys(r) # {})
            /\ Now(r)' = "private"
         \/ /\ priv # 0 /\ pub # 0
            /\ UNCHANGED <<priv, pub, tangled>> /\ Now(r)' = "read"
<1>1. CASE MakesKeys(r)
  <2>1. Runs(r, "check") /\ Command(r, "check")
    BY <1>1 DEF Runs, MakesKeys
  <2>2. For(todo[r], asked[r]) /\ todo[r] # <<>> /\ Head(todo[r]) = "check"
    BY <2>1 DEF ScriptOK, Command, Continue
  <2>3. First(Tail(todo[r])) = "private"
    BY <2>2, RestOf
  <2>4. todo'[r] = Tail(todo[r])
    BY <2>1 DEF Command, Continue, HostTyped
  <2>5. Now(r)' = "private"
    BY <2>3, <2>4 DEF Now
  <2>6. (priv = 0 \/ pub = 0) \/ KeepsKeys(r)
    BY DEF CheckKeys
  <2>7. ~KeepsKeys(r)
    <3>1. KeepsKeys(r) => Now(r)' = "read"
      BY SkipGoes DEF KeepsKeys
    <3> QED BY <2>5, <3>1
  <2> QED BY <1>1, <2>5, <2>6, <2>7 DEF MakesKeys
<1>2. CASE priv # 0 /\ pub # 0 /\ KeepsKeys(r)
  BY <1>2, SkipGoes DEF KeepsKeys
<1> QED BY <1>1, <1>2 DEF CheckKeys

\* Commands of deploys and resets preserve the parts of the invariant.
LEMMA RunsKeepsKeys ==
  ASSUME ScriptOK, HostTyped, KeysInv, NEW r \in Slots, NEW name, Runs(r, name)
  PROVE  KeysInv'
<1> USE DEF KeysInv
<1>1. Goes(r, name) /\ Follows(r, name)
  BY RunsGoes
<1>2. /\ Now(r) = name
      /\ \A x \in Slots \ {r} : Now(x)' = Now(x)
  BY <1>1 DEF Goes
<1>3. \A x \in Slots \ {r} : Making(x)' <=> Making(x)
  BY <1>2 DEF Making
<1>4. name \in {"private", "public"} /\ ~tangled => pub = 0 /\ \A y \in Slots : Making(y) => y = r
  BY <1>2 DEF MakerOK, Making
<1>5. MakingKeys(r) = {} <=> \A x \in Slots \ {r} : ~Making(x)
  BY DEF MakingKeys, Making, Now, First
<1>6. \A x \in Slots \ {r} : held'[x] = held[x]
  BY RunsHolds
<1>7. name = "private" =>
        /\ held'[r] = made + 1 /\ held'[r] # 0 /\ UNCHANGED <<pub, tangled>>
        /\ \/ priv' = made + 1 /\ UNCHANGED lone
           \/ priv' = 0 /\ lone' = (lone \/ pub # 0) /\ "private" \in ignored'
  <2>1. made + 1 # 0
    BY WGAssumption DEF HostTyped, WGAssumption
  <2> QED BY <2>1 DEF Runs, MakePrivate, PassOver, HostTyped
<1>8. \A x \in Slots : Now(x)' \in {"public", "derive"} => held'[x] # 0
  <2>1. Now(r)' = "public" => name = "private"
    BY <1>1, RunsName DEF Follows, DeployCommands, ResetCommands, Unlinks
  <2>2. Now(r)' = "derive" => name = "showKey"
    BY <1>1, RunsName DEF Follows, DeployCommands, ResetCommands, Unlinks
  <2>3. name = "showKey" => held'[r] # 0
    BY DEF Runs, ShowsKey, HostTyped
  <2>4. Now(r)' \in {"public", "derive"} => held'[r] # 0
    BY <1>7, <2>1, <2>2, <2>3
  <2>5. \A x \in Slots \ {r} : Now(x)' \in {"public", "derive"} => held'[x] # 0
    BY <1>2, <1>6 DEF MakerOK
  <2> QED BY <2>4, <2>5
<1>9. ASSUME UNCHANGED <<priv, pub, tangled>>, Now(r)' \notin {"private", "public"},
             name # "unlinkPublic", lone => lone'
      PROVE  KeysInv'
  <2>1. \A x \in Slots : Making(x)' => x # r /\ Making(x) /\ Now(x)' = Now(x) /\ held'[x] = held[x]
    BY <1>2, <1>3, <1>6, <1>9 DEF Making
  <2>2. "private" \in ignored => "private" \in ignored'
    BY <1>9, RunsIgnored
  <2>3. MakerOK'
    BY <1>8, <1>9, <2>1, <2>2 DEF MakerOK
  <2> QED BY <1>9, <2>3 DEF KeysMatch, LoneOK
<1>10. ASSUME ~tangled' => MakingKeys(r) = {}, priv' = 0 \/ pub' = 0,
              pub' # 0 => lone', Now(r)' = "private" => pub' = 0, Now(r)' # "public"
       PROVE  KeysInv'
  <2>1. ~tangled' => \A x \in Slots \ {r} : ~Making(x)'
    BY <1>3, <1>5, <1>10
  <2>2. MakerOK'
    BY <1>8, <1>10, <2>1 DEF MakerOK, Making
  <2> QED BY <1>10, <2>2 DEF KeysMatch, LoneOK
<1>11. CASE name = "check"
  <2>1. CheckKeys(r)
    BY <1>11 DEF Runs
  <2>2. CASE priv' = 0 /\ pub' = 0 /\ tangled' = (tangled \/ MakingKeys(r) # {}) /\ Now(r)' = "private"
    BY <1>10, <2>2
  <2>3. CASE UNCHANGED <<priv, pub, tangled>> /\ Now(r)' = "read"
    BY <1>9, <1>11, <2>3, RunsIgnored
  <2> QED BY <2>1, <2>2, <2>3, Checks
<1>12. CASE name = "private"
  <2>1. ~tangled => \A y \in Slots : Making(y)' => y = r
    BY <1>3, <1>4, <1>12
  <2>2. MakerOK'
    BY <1>4, <1>7, <1>8, <1>12, <2>1 DEF MakerOK
  <2>3. KeysMatch'
    BY <1>4, <1>7, <1>12 DEF KeysMatch
  <2>4. LoneOK'
    BY <1>7, <1>12 DEF LoneOK, HostTyped
  <2> QED BY <2>2, <2>3, <2>4
<1>13. CASE name = "public"
  <2>1. pub' = held[r] /\ priv' = priv /\ tangled' = tangled /\ lone' = (lone \/ (priv = 0 /\ held[r] # 0))
    BY <1>13 DEF Runs, MakePublic
  <2>2. ~tangled => held[r] = priv \/ priv = 0
    BY <1>2, <1>13 DEF MakerOK, Making
  <2>3. Now(r)' = "read"
    BY <1>1, <1>13 DEF Follows
  <2>4. ~tangled => \A y \in Slots : ~Making(y)'
    BY <1>3, <1>4, <1>13, <2>3 DEF Making
  <2>5. MakerOK'
    BY <1>8, <2>1, <2>4 DEF MakerOK
  <2> QED BY <2>1, <2>2, <2>5 DEF KeysMatch, LoneOK
<1>14. CASE name \in Unlinks
  <2>1. /\ ~tangled' => MakingKeys(r) = {}
        /\ priv' = 0 \/ pub' = 0
        /\ pub' # 0 => lone'
    BY <1>14 DEF Runs, RemovePrivate, RemovePublic, Unlinks
  <2>2. Now(r)' \notin {"private", "public"}
    BY <1>1, <1>14 DEF Follows, Unlinks
  <2> QED BY <1>10, <2>1, <2>2
<1>15. CASE name \notin {"check", "private", "public"} \cup Unlinks
  <2>1. UNCHANGED <<priv, pub, tangled, lone>>
    BY <1>15, RunsLeavesKeys
  <2>2. Now(r)' \notin {"private", "public"}
    BY <1>1, <1>15, RunsName DEF Follows, DeployCommands, ResetCommands
  <2> QED BY <1>9, <1>15, <2>1, <2>2 DEF Unlinks
<1> QED BY <1>11, <1>12, <1>13, <1>14, <1>15

\* No command takes the unit, the interface and its rule apart, but a stop that
\* fails.
LEMMA RunsKeepsHost ==
  ASSUME ScriptOK, HostTyped, Apart, HostOK, NEW r \in Slots, NEW name, Runs(r, name)
  PROVE  HostOK'
<1> DEFINE Late == {"rules"} \cup Unlinks
           Past == ResetCommands \ {"stop"}
<1>1. /\ Goes(r, name) /\ Follows(r, name) /\ mixed' = mixed /\ Now(r) = name
      /\ \A x \in Slots \ {r} : Now(x)' = Now(x)
  BY RunsGoes DEF Goes
<1> SUFFICES ASSUME ~mixed PROVE HostOK'
  BY <1>1 DEF HostOK
<1>2. /\ \A x \in Slots : Now(x) \in Late => conf = None
      /\ "stop" \notin ignored =>
           /\ active <=> up # None
           /\ active => conf # None /\ nat[up.set.egress] > 0
           /\ \A x \in Slots : Now(x) \in Past => ~active
  BY DEF HostOK
<1>3. name \in DeployCommands => \A x \in Slots : Now(x) \notin ResetCommands
  BY <1>1 DEF Apart
<1>4. Late \subseteq ResetCommands /\ "none" \notin Late /\ "none" \notin Past
  BY DEF ResetCommands, Unlinks
<1>5. name # "stop" => ("stop" \in ignored <=> "stop" \in ignored')
  BY RunsIgnored
<1>6. CASE name \in {"check", "private", "public", "read", "enable", "showKey"}
  <2>1. UNCHANGED <<active, up, nat, conf>>
    BY <1>6 DEF Runs, CheckKeys, MakePrivate, MakePublic, ReadPrivate, Enable, ShowsKey, host, files
  <2>2. Now(r)' \notin Late /\ Now(r)' \notin Past
    BY <1>1, <1>6 DEF Follows, ResetCommands, Unlinks
  <2>3. \A x \in Slots : (Now(x)' \in Late => Now(x) \in Late) /\ (Now(x)' \in Past => Now(x) \in Past)
    BY <1>1, <2>2
  <2> HIDE DEF Late, Past
  <2> QED BY <1>2, <1>5, <1>6, <2>1, <2>3 DEF HostOK, Late, Past
<1>7. CASE name \in {"conf", "start"}
  <2>1. \A x \in Slots : Now(x)' \notin ResetCommands
    BY <1>1, <1>3, <1>7 DEF Follows, DeployCommands, ResetCommands, Unlinks
  <2>2. CASE name = "conf"
    <3>1. HostTyped' /\ conf' = [key |-> held[r], set |-> asked[r]]
      BY <2>2, RunsTyped DEF Runs, WriteConf
    <3>2. held[r] \in 0..MaxKeys /\ asked[r] \in Setting
      BY <1>1, <2>2, NowFacts DEF HostTyped, ScriptOK, Now, DeployCommands
    <3>3. conf' \in Config
      BY <3>1, <3>2 DEF Config
    <3>4. UNCHANGED <<active, up, nat>> /\ conf' # None
      BY <2>2, <3>3, WGAssumption DEF WGAssumption, Runs, WriteConf, host
    <3> QED BY <1>2, <1>4, <1>5, <2>1, <2>2, <3>4 DEF HostOK
  <2>3. CASE name = "start"
    <3>1. conf' = conf
      BY <2>3 DEF Runs, Start, files
    <3>2. CASE UNCHANGED <<active, up, nat>>
      BY <1>2, <1>4, <1>5, <2>1, <2>3, <3>1, <3>2 DEF HostOK
    <3>3. CASE BringUp
      <4>1. conf.set.egress \in Egresses
        BY <3>3 DEF HostTyped, BringUp, Usable, Config, Setting
      <4>2. nat'[conf.set.egress] > 0
        BY <3>3, <4>1 DEF BringUp, HostTyped
      <4> QED BY <1>4, <2>1, <3>1, <3>3, <4>2 DEF BringUp, Usable, HostOK
    <3> QED BY <2>3, <3>2, <3>3 DEF Runs, Start
  <2> QED BY <1>7, <2>2, <2>3
<1>8. CASE name = "stop"
  <2>1. Now(r)' \notin Late /\ conf' = conf
    BY <1>1, <1>8 DEF Follows, Runs, Stop, files, Unlinks
  <2>2. \A x \in Slots : Now(x)' \in Late => conf' = None
    BY <1>1, <1>2, <2>1
  <2>3. CASE active /\ PassOver("stop")
    BY <2>2, <2>3 DEF HostOK, PassOver
  <2>4. CASE ~active' /\ up' = None
    BY <2>2, <2>4 DEF HostOK
  <2>5. CASE ~active /\ UNCHANGED <<active, up, nat, ignored>>
    BY <1>2, <2>1, <2>2, <2>5 DEF HostOK
  <2> QED BY <1>8, <2>3, <2>4, <2>5 DEF Runs, Stop
<1>9. CASE name \in Past
  <2>1. active' = active /\ up' = up
    BY <1>9 DEF Runs, Disable, RemoveConf, DeleteRule, EndRules, RemovePrivate, RemovePublic, host,
                ResetCommands, Unlinks
  <2>2. conf' = conf \/ conf' = None
    BY <1>9 DEF Runs, Disable, RemoveConf, DeleteRule, EndRules, RemovePrivate, RemovePublic, files,
                ResetCommands, Unlinks
  <2>3. Now(r)' \in Late => conf' = None
    <3>1. CASE name = "disable"
      BY <1>1, <3>1 DEF Follows, Unlinks
    <3>2. CASE name = "remove"
      BY <3>2 DEF Runs, RemoveConf
    <3>3. CASE name \in Late
      BY <1>1, <1>2, <2>2, <3>3
    <3> QED BY <1>9, <3>1, <3>2, <3>3 DEF ResetCommands
  <2>4. "stop" \notin ignored' => ~active /\ up = None
    BY <1>1, <1>2, <1>5, <1>9
  <2>5. \A x \in Slots : Now(x)' \in Late => conf' = None
    BY <1>1, <1>2, <2>2, <2>3
  <2> QED BY <2>1, <2>4, <2>5 DEF HostOK
<1> QED BY <1>6, <1>7, <1>8, <1>9, RunsName DEF DeployCommands, ResetCommands

\* Config and interface keep the key that is shown.
LEMMA RunsKeepsUse ==
  ASSUME ScriptOK, HostTyped, KeysInv, Apart, HostOK, KeyUse, NEW r \in Slots, NEW name, Runs(r, name)
  PROVE  KeyUse'
<1>1. /\ Goes(r, name) /\ Follows(r, name) /\ mixed' = mixed /\ Now(r) = name
      /\ \A x \in Slots \ {r} : Now(x)' = Now(x)
  BY RunsGoes DEF Goes
<1> SUFFICES ASSUME ~mixed, ~tangled', "private" \notin ignored' PROVE KeyUse'
  BY <1>1 DEF KeyUse
<1> DEFINE Has(x) == Now(x) \in {"read", "conf", "enable", "start"}
           Kept == pub # 0 /\ priv = pub
<1>2. \A x \in Slots \ {r} : held'[x] = held[x]
  BY RunsHolds
<1>3. \A x \in Slots \ {r} : (Has(x)' <=> Has(x)) /\ (Now(x)' = "conf" <=> Now(x) = "conf")
  BY <1>1
<1>4. CASE name \in Unlinks
  <2>1. /\ conf = None /\ \A x \in Slots : Now(x) \notin DeployCommands
        /\ "stop" \notin ignored => up = None
    BY <1>1, <1>4 DEF HostOK, Apart, ResetCommands, Unlinks
  <2>2. /\ conf' = None /\ up' = up
        /\ "stop" \in ignored <=> "stop" \in ignored'
    <3>1. conf' = None /\ up' = up
      BY <1>4, <2>1 DEF Runs, RemovePrivate, RemovePublic, host, Unlinks
    <3> QED BY <1>4, <3>1, RunsIgnored DEF Unlinks
  <2>3. \A x \in Slots : ~Has(x)' /\ Now(x)' # "conf"
    BY <1>1, <1>3, <1>4, <2>1 DEF Follows, DeployCommands, Unlinks
  <2> QED BY <2>1, <2>2, <2>3 DEF KeyUse
<1>5. CASE name \notin Unlinks
  <2>1. ~tangled /\ "private" \notin ignored
    BY <1>5, RunsIgnored DEF Unlinks
  <2>2. /\ conf # None => conf.key = pub /\ Kept
        /\ up # None /\ "stop" \notin ignored => up.key = pub /\ Kept
        /\ \A x \in Slots : Has(x) => Kept
        /\ \A x \in Slots : Now(x) = "conf" => held[x] = pub
    BY <2>1 DEF KeyUse
  <2>3. priv # 0 /\ pub # 0 => Kept
    BY <2>1 DEF KeysInv, KeysMatch
  <2>4. name # "stop" => ("stop" \in ignored <=> "stop" \in ignored')
    BY RunsIgnored
  <2>5. ASSUME pub' = pub, priv' = priv, Has(r)' => Kept, Now(r)' = "conf" => held'[r] = pub,
               conf' # None => conf' = conf \/ (conf'.key = pub /\ Kept),
               up' # None /\ "stop" \notin ignored' => (up' = up /\ "stop" \notin ignored) \/ up' = conf
        PROVE  KeyUse'
    <3>1. \A x \in Slots : Has(x)' => Kept
      BY <1>3, <2>2, <2>5
    <3>2. \A x \in Slots : Now(x)' = "conf" => held'[x] = pub
      BY <1>2, <1>3, <2>2, <2>5
    <3>3. conf' # None => conf'.key = pub /\ Kept
      BY <2>2, <2>5
    <3>4. up' # None /\ "stop" \notin ignored' => up'.key = pub /\ Kept
      BY <2>2, <2>5
    <3> QED BY <2>5, <3>1, <3>2, <3>3, <3>4 DEF KeyUse
  <2>6. ASSUME ~Kept, conf' = conf, up' = up, name # "stop", Has(r)' => pub' # 0 /\ priv' = pub', Now(r)' # "conf"
        PROVE  KeyUse'
    <3>1. conf' = None /\ ("stop" \notin ignored' => up' = None) /\ \A x \in Slots : ~Has(x)
      BY <2>2, <2>4, <2>6
    <3>2. \A x \in Slots : (Has(x)' => x = r) /\ Now(x)' # "conf"
      BY <1>3, <2>6, <3>1
    <3> QED BY <2>6, <3>1, <3>2 DEF KeyUse
  <2> HIDE DEF Has
  <2>7. CASE name = "check"
    <3>1. conf' = conf /\ up' = up /\ CheckKeys(r)
      BY <2>7 DEF Runs, CheckKeys, host
    <3>2. CASE (priv = 0 \/ pub = 0) /\ Now(r)' = "private"
      BY <2>6, <2>7, <3>1, <3>2 DEF Has
    <3>3. CASE priv # 0 /\ pub # 0 /\ UNCHANGED <<priv, pub>> /\ Now(r)' = "read"
      BY <2>3, <2>4, <2>5, <2>7, <3>1, <3>3
    <3> QED BY <3>1, <3>2, <3>3, Checks
  <2>8. CASE name = "private"
    <3>1. pub = 0
      BY <1>1, <2>1, <2>8 DEF KeysInv, MakerOK, Making
    <3>2. conf' = conf /\ up' = up /\ Now(r)' = "public"
      BY <1>1, <2>8 DEF Runs, MakePrivate, host, Follows
    <3> QED BY <2>6, <2>8, <3>1, <3>2 DEF Has
  <2>9. CASE name = "public"
    <3>1. pub = 0 /\ held[r] # 0 /\ priv = held[r]
      BY <1>1, <2>1, <2>9 DEF KeysInv, MakerOK, Making
    <3>2. pub' = held[r] /\ priv' = priv /\ conf' = conf /\ up' = up /\ Now(r)' = "read"
      BY <1>1, <2>9 DEF Runs, MakePublic, host, Follows
    <3> QED BY <2>6, <2>9, <3>1, <3>2
  <2>10. CASE name = "read"
    <3>1. Kept
      BY <1>1, <2>2, <2>10 DEF Has
    <3>2. held'[r] = pub /\ UNCHANGED <<pub, priv, conf, up>>
      BY <2>10, <3>1 DEF Runs, ReadPrivate, files, host, HostTyped
    <3> QED BY <2>4, <2>5, <2>10, <3>1, <3>2
  <2>11. CASE name = "conf"
    <3>1. Kept /\ held[r] = pub
      BY <1>1, <2>2, <2>11 DEF Has
    <3>2. conf'.key = pub /\ UNCHANGED <<pub, priv, up>> /\ Now(r)' = "enable"
      BY <1>1, <2>11, <3>1 DEF Runs, WriteConf, host, Follows
    <3> QED BY <2>4, <2>5, <2>11, <3>1, <3>2
  <2>12. CASE name = "enable"
    <3>1. Kept
      BY <1>1, <2>2, <2>12 DEF Has
    <3>2. UNCHANGED <<pub, priv, conf, up>> /\ Now(r)' = "start"
      BY <1>1, <2>12 DEF Runs, Enable, files, Follows
    <3> QED BY <2>4, <2>5, <2>12, <3>1, <3>2
  <2>13. CASE name = "start"
    <3>1. Now(r)' = "none" /\ UNCHANGED <<pub, priv, conf>>
      BY <1>1, <2>13 DEF Follows, Runs, Start, files
    <3>2. up' = up \/ up' = conf
      BY <2>13 DEF Runs, Start, BringUp
    <3> QED BY <2>4, <2>5, <2>13, <3>1, <3>2 DEF Has
  <2>14. CASE name = "stop"
    <3>1. UNCHANGED <<pub, priv, conf>> /\ Now(r)' = "disable"
      BY <1>1, <2>14 DEF Follows, Runs, Stop, files
    <3>2. up' # None /\ "stop" \notin ignored' => up' = up /\ "stop" \notin ignored
      BY <2>14 DEF Runs, Stop, PassOver
    <3> QED BY <2>5, <3>1, <3>2 DEF Has
  <2>15. CASE name \in {"disable", "remove", "rules", "showKey"}
    <3>1. ~Has(r)' /\ Now(r)' # "conf"
      BY <1>1, <2>15 DEF Follows, Has
    <3>2. UNCHANGED <<pub, priv, up>> /\ (conf' # None => conf' = conf)
      BY <2>15 DEF Runs, Disable, RemoveConf, DeleteRule, EndRules, ShowsKey, files, host
    <3> QED BY <2>4, <2>5, <2>15, <3>1, <3>2
  <2> QED BY <1>5, <2>7, <2>8, <2>9, <2>10, <2>11, <2>12, <2>13, <2>14, <2>15, RunsName
          DEF DeployCommands, ResetCommands
<1> QED BY <1>4, <1>5

\* Among deploys no command undoes what another one has done.
LEMMA RunsKeepsDeploys ==
  ASSUME ScriptOK, HostTyped, DeployInv, NEW r \in Slots, NEW name, Runs(r, name)
  PROVE  DeployInv'
<1>1. /\ Goes(r, name) /\ Follows(r, name) /\ Now(r) = name /\ ScriptOK'
      /\ \A x \in Slots \ {r} : Now(x)' = Now(x)
  BY RunsGoes DEF Goes
<1> SUFFICES ASSUME OnlyDeploys' PROVE DeployInv'
  BY DEF DeployInv
<1>2. /\ OnlyDeploys /\ name \notin ResetCommands /\ Wanted \subseteq Wanted'
      /\ told' # {} => told # {} \/ Now(r)' = "none"
  BY <1>1, GoesFacts
<1>3. /\ \A x \in Slots : Now(x) \in {"enable", "start"} => conf # None /\ conf.set \in Wanted
      /\ \A x \in Slots : Now(x) = "start" => enabled
      /\ told # {} => conf # None /\ conf.set \in Wanted /\ enabled /\ active
  BY <1>1, <1>2, RunsName DEF DeployInv, Goes
<1>4. CASE name = "conf"
  <2>1. asked[r] \in Setting /\ held[r] \in 0..MaxKeys
    BY <1>1, <1>4, NowFacts DEF ScriptOK, HostTyped, Now, DeployCommands
  <2>2. conf' = [key |-> held[r], set |-> asked[r]] /\ enabled' = enabled /\ active' = active
    BY <1>4 DEF Runs, WriteConf, host
  <2>3. conf' # None
    BY <2>1, <2>2, WGAssumption DEF Config, WGAssumption
  <2>4. Now(r)' = "enable" /\ asked'[r] = asked[r] /\ told' = told
    BY <1>1, <1>4 DEF Follows, Goes
  <2>5. conf'.set \in Wanted'
    BY <2>2, <2>4 DEF Wanted
  <2> QED BY <1>1, <1>3, <2>2, <2>3, <2>4, <2>5 DEF DeployInv
<1>5. CASE name = "enable"
  <2>1. conf' = conf /\ enabled' /\ active' = active
    BY <1>5 DEF Runs, Enable, files
  <2>2. conf # None /\ conf.set \in Wanted
    BY <1>1, <1>3, <1>5
  <2>3. told' = told
    BY <1>1, <1>5 DEF Goes, Follows
  <2> QED BY <1>2, <1>3, <2>1, <2>2, <2>3 DEF DeployInv
<1>6. CASE name = "start"
  <2>1. conf' = conf /\ enabled' = enabled /\ active'
    BY <1>6 DEF Runs, Start, BringUp, files
  <2>2. conf # None /\ conf.set \in Wanted /\ enabled
    BY <1>1, <1>3, <1>6
  <2> QED BY <1>2, <2>1, <2>2 DEF DeployInv
<1>7. CASE name \in {"check", "private", "public", "read", "showKey"}
  <2>1. conf' = conf /\ enabled' = enabled /\ active' = active
    BY <1>7 DEF Runs, CheckKeys, MakesKeys, KeepsKeys, MakePrivate, MakePublic, ReadPrivate, ShowsKey, files, host
  <2>2. Now(r)' \notin {"enable", "start", "none"}
    BY <1>1, <1>7 DEF Follows
  <2> QED BY <1>1, <1>2, <1>3, <2>1, <2>2 DEF DeployInv
<1> QED BY <1>2, <1>4, <1>5, <1>6, <1>7, RunsName DEF DeployCommands

\* Among resets no command restores what another one has taken away.
LEMMA RunsKeepsResets ==
  ASSUME ScriptOK, HostTyped, ResetInv, NEW r \in Slots, NEW name, Runs(r, name)
  PROVE  ResetInv'
<1> DEFINE Stopped == active => "stop" \in ignored
           Disabled == enabled => "disable" \in ignored
           Cleared == nat # NoRules => "rules" \in ignored
<1>1. /\ Goes(r, name) /\ Follows(r, name) /\ Now(r) = name /\ ScriptOK'
      /\ \A x \in Slots \ {r} : Now(x)' = Now(x)
  BY RunsGoes DEF Goes
<1> SUFFICES ASSUME OnlyResets' PROVE ResetInv'
  BY DEF ResetInv
<1>2. /\ OnlyResets /\ name \notin DeployCommands
      /\ told' # {} => told # {} \/ Now(r)' = "none"
      /\ Wipe \in told' => Wipe \in told \/ (Now(r)' = "none" /\ asked[r] = Wipe)
  BY <1>1, GoesFacts
<1>3. /\ \A x \in Slots : Now(x) \in ResetCommands \ {"stop"} => Stopped
      /\ \A x \in Slots : Now(x) \in {"remove", "rules"} \cup Unlinks => Disabled
      /\ \A x \in Slots : Now(x) \in {"rules"} \cup Unlinks => conf = None
      /\ \A x \in Slots : Now(x) \in Unlinks => Cleared
      /\ \A x \in Slots : Now(x) = "unlinkPublic" => priv = 0
      /\ told # {} => Stopped /\ Disabled /\ conf = None /\ Cleared
      /\ Wipe \in told => priv = 0 /\ pub = 0
  BY <1>2 DEF ResetInv
\* What has been done stays done.
<1>4. /\ Stopped => Stopped'
      /\ Disabled => Disabled'
      /\ conf = None => conf' = None
      /\ conf = None /\ Cleared => Cleared'
      /\ priv = 0 => priv' = 0
      /\ pub = 0 => pub' = 0
  <2>1. CASE name = "stop"
    <3>1. UNCHANGED <<conf, enabled, priv, pub>> /\ (conf = None => nat' = nat)
      BY <2>1 DEF Runs, Stop, files
    <3>2. Stopped'
      BY <2>1 DEF Runs, Stop, PassOver
    <3>3. /\ "disable" \in ignored => "disable" \in ignored'
          /\ "rules" \in ignored => "rules" \in ignored'
      BY <2>1, RunsIgnored
    <3> QED BY <3>1, <3>2, <3>3
  <2>2. CASE name = "disable"
    <3>1. UNCHANGED <<conf, active, nat, priv, pub>>
      BY <2>2 DEF Runs, Disable, files
    <3>2. Disabled'
      BY <2>2 DEF Runs, Disable, PassOver
    <3>3. /\ "stop" \in ignored => "stop" \in ignored'
          /\ "rules" \in ignored => "rules" \in ignored'
      BY <2>2, RunsIgnored
    <3> QED BY <3>1, <3>2, <3>3
  <2>3. CASE name = "rules"
    <3>1. UNCHANGED <<conf, active, enabled, priv, pub>>
      BY <2>3 DEF Runs, DeleteRule, EndRules, files, host
    <3>2. Cleared => Cleared'
      <4>1. CASE DeleteRule(r)
        <5>1. nat # NoRules /\ ignored' = ignored
          BY <4>1 DEF DeleteRule, NoRules
        <5> QED BY <5>1
      <4>2. CASE EndRules(r)
        BY <4>2 DEF EndRules, PassOver, host
      <4> QED BY <2>3, <4>1, <4>2 DEF Runs
    <3>3. /\ "stop" \in ignored => "stop" \in ignored'
          /\ "disable" \in ignored => "disable" \in ignored'
      BY <2>3, RunsIgnored
    <3> QED BY <3>1, <3>2, <3>3
  <2>4. CASE name \in {"remove", "showKey"} \cup Unlinks
    <3>1. /\ UNCHANGED <<active, enabled, nat>>
          /\ conf = None => conf' = None
          /\ priv = 0 => priv' = 0
          /\ pub = 0 => pub' = 0
      BY <2>4 DEF Runs, RemoveConf, RemovePrivate, RemovePublic, ShowsKey, files, host, Unlinks
    <3>2. /\ "stop" \in ignored => "stop" \in ignored'
          /\ "disable" \in ignored => "disable" \in ignored'
          /\ "rules" \in ignored => "rules" \in ignored'
      BY <2>4, RunsIgnored DEF Unlinks
    <3> QED BY <3>1, <3>2
  <2> QED BY <1>2, <2>1, <2>2, <2>3, <2>4, RunsName DEF ResetCommands
\* And the command does its own part.
<1>5. /\ name = "stop" => Stopped'
      /\ name = "disable" => Disabled'
      /\ name = "remove" => conf' = None
      /\ name = "unlinkPrivate" => priv' = 0
      /\ name = "unlinkPublic" => pub' = 0
  BY DEF Runs, Stop, Disable, RemoveConf, RemovePrivate, RemovePublic, PassOver
<1>6. name = "rules" /\ Now(r)' # "rules" => Cleared'
  <2>1. CASE name = "rules" /\ DeleteRule(r)
    BY <2>1, RoundGoes DEF DeleteRule
  <2>2. CASE name = "rules" /\ EndRules(r)
    BY <2>2 DEF EndRules, PassOver, host
  <2> QED BY <2>1, <2>2 DEF Runs
<1>7. name = "rules" /\ Now(r)' = "none" => asked[r] # Wipe
  <2> SUFFICES ASSUME name = "rules", asked[r] = Wipe PROVE Now(r)' # "none"
    OBVIOUS
  <2>1. CASE DeleteRule(r)
    BY <2>1, RoundGoes DEF DeleteRule
  <2>2. CASE EndRules(r)
    <3>1. /\ Now(r)' = First(Tail(todo[r])) /\ For(todo[r], asked[r])
          /\ todo[r] # <<>> /\ Head(todo[r]) = "rules"
      BY <2>2 DEF EndRules, Command, Continue, Now, ScriptOK, HostTyped
    <3>2. todo[r] \in WipeRests
      BY <3>1, WGAssumption DEF WGAssumption, For
    <3> QED BY <3>1, <3>2, WipeRest DEF First
  <2> QED BY <2>1, <2>2 DEF Runs
<1>8. name \in {"stop", "disable", "remove", "unlinkPrivate", "showKey"} => Now(r)' # "none"
  BY <1>1 DEF Follows
<1>9. Now(r)' # "none" =>
        /\ Now(r)' \in ResetCommands \ {"stop"} => name \in ResetCommands
        /\ Now(r)' \in {"remove", "rules"} \cup Unlinks => name \in {"disable", "remove", "rules", "unlinkPrivate"}
        /\ Now(r)' \in {"rules"} \cup Unlinks => name \in {"remove", "rules", "unlinkPrivate"}
        /\ Now(r)' \in Unlinks => (name = "rules" /\ Now(r)' # "rules") \/ name = "unlinkPrivate"
        /\ Now(r)' = "unlinkPublic" => name = "unlinkPrivate"
  BY <1>1, <1>2, RunsName DEF Follows, ResetCommands, Unlinks
<1> HIDE DEF Stopped, Disabled, Cleared
<1>10. name \in ResetCommands => Stopped'
  BY <1>1, <1>3, <1>4, <1>5
<1>11. name \in {"disable", "remove", "rules"} \cup Unlinks => Disabled'
  BY <1>1, <1>3, <1>4, <1>5
<1>12. name \in {"remove", "rules"} \cup Unlinks => conf' = None
  BY <1>1, <1>3, <1>4, <1>5
<1>13. (name = "rules" /\ Now(r)' # "rules") \/ name \in Unlinks => Cleared'
  <2>1. name \in Unlinks => conf = None /\ Cleared
    BY <1>1, <1>3
  <2> QED BY <1>4, <1>6, <2>1
<1>14. told' # {} => Stopped' /\ Disabled' /\ conf' = None /\ Cleared'
  <2>1. CASE told # {}
    BY <1>3, <1>4, <2>1
  <2>2. CASE Now(r)' = "none"
    <3>1. name \in {"rules", "unlinkPublic"}
      BY <1>2, <1>8, <2>2, RunsName DEF ResetCommands, Unlinks
    <3>2. "none" # "rules"
      OBVIOUS
    <3> QED BY <1>10, <1>11, <1>12, <1>13, <2>2, <3>1, <3>2 DEF ResetCommands, Unlinks
  <2> QED BY <1>2, <2>1, <2>2
<1>15. Wipe \in told' => priv' = 0 /\ pub' = 0
  <2>1. CASE Wipe \in told
    BY <1>3, <1>4, <2>1
  <2>2. CASE Now(r)' = "none" /\ asked[r] = Wipe
    <3>1. name = "unlinkPublic"
      BY <1>2, <1>7, <1>8, <2>2, RunsName DEF ResetCommands, Unlinks
    <3> QED BY <1>1, <1>3, <1>4, <1>5, <3>1
  <2> QED BY <1>2, <2>1, <2>2
<1>16. ASSUME NEW x \in Slots
       PROVE  /\ Now(x)' \in ResetCommands \ {"stop"} => Stopped'
              /\ Now(x)' \in {"remove", "rules"} \cup Unlinks => Disabled'
              /\ Now(x)' \in {"rules"} \cup Unlinks => conf' = None
              /\ Now(x)' \in Unlinks => Cleared'
              /\ Now(x)' = "unlinkPublic" => priv' = 0
  <2>1. CASE x = r
    <3>1. CASE Now(r)' = "none"
      BY <2>1, <3>1 DEF ResetCommands, Unlinks
    <3>2. CASE Now(r)' # "none"
      <4>1. Now(x)' \in ResetCommands \ {"stop"} => Stopped'
        BY <1>9, <1>10, <2>1, <3>2
      <4>2. Now(x)' \in {"remove", "rules"} \cup Unlinks => Disabled'
        BY <1>9, <1>11, <2>1, <3>2 DEF Unlinks
      <4>3. Now(x)' \in {"rules"} \cup Unlinks => conf' = None
        BY <1>9, <1>12, <2>1, <3>2 DEF Unlinks
      <4>4. Now(x)' \in Unlinks => Cleared'
        BY <1>9, <1>13, <2>1, <3>2 DEF Unlinks
      <4>5. Now(x)' = "unlinkPublic" => priv' = 0
        BY <1>5, <1>9, <2>1, <3>2
      <4> QED BY <4>1, <4>2, <4>3, <4>4, <4>5
    <3> QED BY <3>1, <3>2
  <2>2. CASE x # r
    <3>1. Now(x)' = Now(x)
      BY <1>1, <2>2
    <3>2. Now(x) \in Unlinks => conf = None /\ Cleared
      BY <1>3
    <3> QED BY <1>3, <1>4, <3>1, <3>2
  <2> QED BY <2>1, <2>2
<1> QED BY <1>14, <1>15, <1>16 DEF ResetInv, Stopped, Disabled, Cleared

\* A key that is taken away from a check that has read it leaves a public key
\* alone.
LEMMA RunsKeepsMismatch ==
  ASSUME ScriptOK, HostTyped, KeysInv, MismatchInv, NEW r \in Slots, NEW name, Runs(r, name)
  PROVE  MismatchInv'
<1>1. /\ Goes(r, name) /\ Follows(r, name) /\ Now(r) = name /\ ScriptOK'
      /\ \A x \in Slots \ {r} : Now(x)' = Now(x)
  BY RunsGoes DEF Goes
<1> SUFFICES ASSUME ~lone' PROVE MismatchInv'
  BY DEF MismatchInv
<1>2. ~lone /\ (Mismatch \in told' => Mismatch \in told)
  BY <1>1, GoesFacts, RunsIgnored
<1>3. /\ Mismatch \in told => tangled /\ pub # 0
      /\ \A x \in Slots : Now(x) = "derive" => pub # 0 /\ (tangled \/ held[x] = pub)
  BY <1>2 DEF MismatchInv
<1>4. \A x \in Slots \ {r} : held'[x] = held[x]
  BY RunsHolds
<1>5. pub # 0 => pub' # 0 /\ (tangled => tangled') /\ (tangled \/ pub' = pub)
  <2> SUFFICES ASSUME pub # 0
               PROVE  pub' # 0 /\ (tangled => tangled') /\ (tangled \/ pub' = pub)
    OBVIOUS
  <2>1. CASE name = "check"
    <3>1. priv # 0
      BY <1>2 DEF KeysInv, LoneOK
    <3> QED BY <2>1, <3>1, Checks DEF Runs
  <2>2. CASE name = "private"
    BY <2>2 DEF Runs, MakePrivate
  <2>3. CASE name = "public"
    <3>1. held[r] # 0 /\ tangled
      BY <1>1, <2>3 DEF KeysInv, MakerOK, Making
    <3> QED BY <2>3, <3>1 DEF Runs, MakePublic
  <2>4. CASE name \in Unlinks
    <3>1. lone'
      BY <2>4 DEF Runs, RemovePrivate, RemovePublic, Unlinks
    <3> QED BY <3>1
  <2>5. CASE name \notin {"check", "private", "public"} \cup Unlinks
    BY <2>5, RunsLeavesKeys
  <2> QED BY <2>1, <2>2, <2>3, <2>4, <2>5
<1>6. Now(r)' = "derive" => held'[r] = pub /\ pub' = pub /\ pub # 0
  <2>1. CASE name = "showKey"
    BY <2>1 DEF Runs, ShowsKey, files, HostTyped
  <2>2. CASE name # "showKey"
    BY <1>1, <2>2, RunsName DEF Follows, DeployCommands, ResetCommands, Unlinks
  <2> QED BY <2>1, <2>2
<1> QED BY <1>1, <1>2, <1>3, <1>4, <1>5, <1>6 DEF MismatchInv

\* All of them together.
LEMMA RunsKeeps ==
  ASSUME WGInv, NEW r \in Slots, NEW name, Runs(r, name)
  PROVE  WGInv'
<1>1. ScriptOK' /\ HostTyped'
  BY RunsGoes, RunsTyped DEF WGInv
<1>2. Apart'
  BY <1>1, RunsGoes, GoesFacts DEF WGInv
<1>3. KeysInv' /\ HostOK' /\ KeyUse'
  BY RunsKeepsKeys, RunsKeepsHost, RunsKeepsUse DEF WGInv
<1>4. PastInv'
  BY RunsKeepsDeploys, RunsKeepsResets, RunsKeepsMismatch DEF WGInv, PastInv
<1> QED BY <1>1, <1>2, <1>3, <1>4 DEF WGInv

-----------------------------------------------------------------------------
(* The other steps.                                                        *)

\* A deploy and a reset, in either order, make a mixture.
LEMMA Mixture ==
  ASSUME NEW a, NEW b, (a \in Setting /\ b \in {Clear, Wipe}) \/ (b \in Setting /\ a \in {Clear, Wipe})
  PROVE  {a, b} \in Mixtures
<1>1. CASE a \in Setting /\ b \in {Clear, Wipe}
  BY <1>1 DEF Mixtures
<1>2. CASE b \in Setting /\ a \in {Clear, Wipe}
  <2>1. {a, b} = {b, a}
    OBVIOUS
  <2> QED BY <1>2, <2>1 DEF Mixtures
<1> QED BY <1>1, <1>2

\* A request begins; the first one clears what is told of those before.
LEMMA BeginKeeps ==
  ASSUME WGInv, NEW r \in Slots, NEW script, NEW what, For(script, what),
         First(script) \in {"check", "stop", "showKey"}, Begin(r, script, what)
  PROVE  WGInv'
<1> USE DEF WGInv
<1>1. /\ todo[r] = <<>> /\ todo' = [todo EXCEPT ![r] = script] /\ asked' = [asked EXCEPT ![r] = what]
      /\ told' = IF Quiet THEN {} ELSE told
      /\ mixed' = (mixed \/ \E x \in Slots : todo[x] # <<>> /\ {asked[x], what} \in Mixtures)
      /\ lone' = IF Quiet THEN pub # 0 /\ priv = 0 ELSE lone
      /\ ignored' = IF Quiet THEN ignored \ {"disable", "rules"} ELSE ignored
      /\ UNCHANGED <<held, made, priv, pub, conf, enabled, active, up, nat, tangled>>
  BY DEF Begin, files, host
<1>2. DOMAIN todo = Slots /\ DOMAIN asked = Slots
  BY DEF HostTyped
<1>3. /\ \A x \in Slots \ {r} : Now(x)' = Now(x) /\ asked'[x] = asked[x] /\ todo'[x] = todo[x]
      /\ todo'[r] = script /\ asked'[r] = what
  BY <1>1, <1>2 DEF Now
<1>4. Now(r) = "none" /\ Now(r)' = First(script)
  BY <1>1, <1>3 DEF Now, First
<1>5. ScriptOK'
  BY <1>3 DEF ScriptOK
<1>6. HostTyped'
  BY <1>1, <1>2 DEF HostTyped
<1>7. KeysInv'
  <2>1. \A x \in Slots : Now(x)' \in {"private", "public", "derive"} => x # r /\ Now(x)' = Now(x)
    BY <1>3, <1>4
  <2>2. "private" \in ignored => "private" \in ignored'
    BY <1>1
  <2>3. MakerOK'
    BY <1>1, <2>1, <2>2 DEF KeysInv, MakerOK, Making
  <2>4. LoneOK'
    BY <1>1 DEF KeysInv, LoneOK
  <2> QED BY <1>1, <2>3, <2>4 DEF KeysInv, KeysMatch
<1>8. Apart'
  <2> SUFFICES ASSUME ~mixed', NEW x \in Slots, NEW y \in Slots,
                      Now(x)' \in DeployCommands, Now(y)' \in ResetCommands
               PROVE  FALSE
    BY DEF Apart
  <2> USE DEF Unlinks
  <2>1. ~mixed /\ \A z \in Slots : todo[z] # <<>> => {asked[z], what} \notin Mixtures
    BY <1>1
  <2>2. x # y
    BY DEF DeployCommands, ResetCommands
  <2>3. CASE x # r /\ y # r
    BY <1>3, <2>1, <2>3 DEF Apart
  <2>4. asked'[x] \in Setting /\ asked'[y] \in {Clear, Wipe}
    BY <1>5, NowFacts DEF ScriptOK, Now
  <2>5. CASE x = r
    <3>1. Now(y) \in ResetCommands /\ asked[y] \in {Clear, Wipe} /\ what \in Setting
      BY <1>3, <2>2, <2>4, <2>5
    <3>2. todo[y] # <<>>
      BY <3>1 DEF Now, First, ResetCommands
    <3> QED BY <2>1, <3>1, <3>2, Mixture
  <2>6. CASE y = r
    <3>1. Now(x) \in DeployCommands /\ asked[x] \in Setting /\ what \in {Clear, Wipe}
      BY <1>3, <2>2, <2>4, <2>6
    <3>2. todo[x] # <<>>
      BY <3>1 DEF Now, First, DeployCommands
    <3>3. {asked[x], what} \in Mixtures
      BY <3>1, Mixture
    <3> QED BY <2>1, <3>2, <3>3
  <2> QED BY <2>3, <2>5, <2>6
<1>9. /\ ~mixed' => ~mixed
      /\ "stop" \in ignored <=> "stop" \in ignored'
      /\ "private" \in ignored <=> "private" \in ignored'
  BY <1>1
<1>10. HostOK'
  <2>1. \A x \in Slots : Now(x)' \in ResetCommands \ {"stop"} => Now(x)' = Now(x)
    BY <1>3, <1>4 DEF ResetCommands, Unlinks
  <2> QED BY <1>1, <1>9, <2>1 DEF HostOK, ResetCommands, Unlinks
<1>11. KeyUse'
  <2>1. \A x \in Slots : Now(x)' \in {"read", "conf", "enable", "start"} => Now(x)' = Now(x)
    BY <1>3, <1>4
  <2> QED BY <1>1, <1>9, <2>1 DEF KeyUse
<1>12. PastInv'
  <2>1. CASE Quiet
    <3>1. told' = {} /\ \A x \in Slots : Now(x)' \in {"none", "check", "stop", "showKey"}
      BY <1>1, <1>3, <1>4, <2>1, QuietNow
    <3>2. DeployInv'
      BY <3>1 DEF DeployInv
    <3>3. ResetInv'
      BY <3>1 DEF ResetInv, ResetCommands, Unlinks
    <3>4. MismatchInv'
      BY <3>1 DEF MismatchInv
    <3> QED BY <3>2, <3>3, <3>4 DEF PastInv
  <2>2. CASE ~Quiet
    <3>1. told' = told /\ lone' = lone /\ ignored' = ignored
      BY <1>1, <2>2
    <3>2. /\ OnlyDeploys' => OnlyDeploys
          /\ OnlyResets' => OnlyResets
      BY <1>3, <1>4, <3>1 DEF OnlyDeploys, OnlyResets, DeployCommands, ResetCommands, Unlinks
    <3>3. Wanted \subseteq Wanted'
      <4>1. \A x \in Slots : Now(x) \in {"enable", "start"} => Now(x)' = Now(x) /\ asked'[x] = asked[x]
        BY <1>3, <1>4
      <4> QED BY <3>1, <4>1 DEF Wanted
    <3>4. DeployInv'
      BY <1>1, <1>3, <1>4, <2>2, <3>1, <3>2, <3>3, QuietNow DEF PastInv, DeployInv
    <3>5. ResetInv'
      <4>1. \A x \in Slots : Now(x)' \in ResetCommands \ {"stop"} => Now(x)' = Now(x)
        BY <1>3, <1>4 DEF ResetCommands, Unlinks
      <4> QED BY <1>1, <3>1, <3>2, <4>1 DEF PastInv, ResetInv, ResetCommands, Unlinks
    <3>6. MismatchInv'
      BY <1>1, <1>3, <1>4, <3>1 DEF PastInv, MismatchInv
    <3> QED BY <3>4, <3>5, <3>6 DEF PastInv
  <2> QED BY <2>1, <2>2
<1> QED BY <1>5, <1>6, <1>7, <1>8, <1>10, <1>11, <1>12

\* A check that finds no public key ends.
EndsCheck(r) == todo[r] = InspectScript /\ End(r) /\ UNCHANGED <<files, host, past>>

\* A request ends before its script does, or with a check of the keys.
LEMMA EndKeeps ==
  ASSUME WGInv, NEW r \in Slots, Abort(r) \/ Derive(r) \/ EndsCheck(r)
  PROVE  WGInv'
<1> USE DEF WGInv
<1>1. /\ todo[r] # <<>> /\ todo' = [todo EXCEPT ![r] = <<>>] /\ asked' = [asked EXCEPT ![r] = Clear]
      /\ held' = [held EXCEPT ![r] = 0]
      /\ UNCHANGED <<made, priv, pub, conf, enabled, active, up, nat, tangled, mixed, lone, ignored>>
  <2>1. InspectScript # <<>> /\ Tail(InspectScript) # <<>>
    BY DEF InspectScript
  <2>2. todo[r] # <<>> /\ End(r)
    BY <2>1 DEF Abort, Derive, EndsCheck
  <2>3. UNCHANGED <<made, priv, pub, conf, enabled, active, up, nat, tangled, mixed, lone, ignored>>
    BY DEF Abort, Derive, EndsCheck, files, host, past
  <2> QED BY <2>2, <2>3 DEF End
<1>2. DOMAIN todo = Slots /\ DOMAIN asked = Slots /\ held \in [Slots -> 0..MaxKeys]
  BY DEF HostTyped
<1>3. /\ \A x \in Slots \ {r} : Now(x)' = Now(x) /\ asked'[x] = asked[x] /\ todo'[x] = todo[x] /\ held'[x] = held[x]
      /\ todo'[r] = <<>> /\ asked'[r] = Clear
  BY <1>1, <1>2 DEF Now
<1>4. Now(r)' = "none" /\ Now(r) # "none"
  <2>1. For(todo[r], asked[r])
    BY DEF ScriptOK
  <2> QED BY <1>1, <1>3, <2>1, NowFacts DEF Now, First
<1>5. ScriptOK'
  BY <1>3, Whole DEF ScriptOK, For
<1>6. HostTyped'
  BY <1>1, <1>2, WGAssumption DEF HostTyped, WGAssumption
<1>7. \A x \in Slots : Now(x)' # "none" => x # r /\ Now(x)' = Now(x) /\ held'[x] = held[x] /\ asked'[x] = asked[x]
  BY <1>3, <1>4
<1>8. KeysInv'
  <2>1. MakerOK'
    BY <1>1, <1>7 DEF KeysInv, MakerOK, Making
  <2> QED BY <1>1, <2>1 DEF KeysInv, KeysMatch, LoneOK
<1>9. Apart'
  BY <1>1, <1>7 DEF Apart, DeployCommands, ResetCommands, Unlinks
<1>10. HostOK'
  BY <1>1, <1>7 DEF HostOK, ResetCommands, Unlinks
<1>11. KeyUse'
  BY <1>1, <1>7 DEF KeyUse
<1>12. For(todo[r], asked[r])
  BY DEF ScriptOK
<1>13. ASSUME asked[r] # Inspect PROVE PastInv'
  <2>1. Tell(Failed)
    <3>1. Derive(r) \/ EndsCheck(r) => First(todo[r]) \in InspectCommands
      BY DEF Derive, EndsCheck, First, InspectScript, InspectCommands
    <3>2. ~Derive(r) /\ ~EndsCheck(r)
      BY <1>12, <1>13, <3>1, NowFacts
    <3> QED BY <1>13, <3>2 DEF Abort
  <2>2. ~OnlyDeploys' /\ ~OnlyResets'
    BY <2>1, TellFacts, WGAssumption DEF WGAssumption, OnlyDeploys, OnlyResets
  <2>3. MismatchInv'
    <3>1. Mismatch \in told' => Mismatch \in told
      BY <2>1, TellFacts, WGAssumption DEF WGAssumption
    <3> QED BY <1>1, <1>7, <3>1 DEF PastInv, MismatchInv
  <2> QED BY <2>2, <2>3 DEF PastInv, DeployInv, ResetInv
<1>14. ASSUME asked[r] = Inspect PROVE PastInv'
  <2>1. Now(r) \notin DeployCommands \cup ResetCommands
    BY <1>12, <1>14, NowFacts DEF Now, InspectCommands, DeployCommands, ResetCommands, Unlinks
  <2>2. CASE told' = told
    <3>1. /\ OnlyDeploys' => OnlyDeploys
          /\ OnlyResets' => OnlyResets
      BY <1>3, <2>1, <2>2 DEF OnlyDeploys, OnlyResets
    <3>2. Wanted \subseteq Wanted'
      BY <1>3, <2>1, <2>2 DEF Wanted, DeployCommands
    <3>3. DeployInv'
      BY <1>1, <1>4, <1>7, <2>2, <3>1, <3>2 DEF PastInv, DeployInv
    <3>4. ResetInv'
      BY <1>1, <1>7, <2>2, <3>1 DEF PastInv, ResetInv, ResetCommands, Unlinks
    <3>5. MismatchInv'
      BY <1>1, <1>7, <2>2 DEF PastInv, MismatchInv
    <3> QED BY <3>3, <3>4, <3>5 DEF PastInv
  <2>3. CASE told' # told
    <3>1. priv \notin {0, held[r]} /\ Tell(Mismatch) /\ Now(r) = "derive"
      BY <1>14, <2>3 DEF Abort, Derive, EndsCheck, past, Now, First, InspectScript
    <3>2. ~OnlyDeploys' /\ ~OnlyResets'
      BY <3>1, TellFacts, WGAssumption DEF WGAssumption, OnlyDeploys, OnlyResets
    \* What the check has read would be the key that is still there.
    <3>3. ~lone => tangled /\ pub # 0
      BY <3>1 DEF PastInv, MismatchInv, KeysInv, KeysMatch
    <3>4. MismatchInv'
      BY <1>1, <1>7, <3>3 DEF PastInv, MismatchInv
    <3> QED BY <3>2, <3>4 DEF PastInv, DeployInv, ResetInv
  <2> QED BY <2>2, <2>3
<1> QED BY <1>5, <1>6, <1>8, <1>9, <1>10, <1>11, <1>13, <1>14

\* No request outlives a start of the host, which brings up the interface
\* just when the service is enabled.
LEMMA RebootKeeps ==
  ASSUME WGInv, Reboot
  PROVE  WGInv'
<1> USE DEF WGInv
<1>1. /\ todo' = [x \in Slots |-> <<>>] /\ asked' = [x \in Slots |-> Clear] /\ held' = [x \in Slots |-> 0]
      /\ UNCHANGED <<made, priv, pub, conf, enabled, tangled, lone>>
      /\ IF Quiet THEN told' = told ELSE Tell(Failed)
      /\ ignored' = ignored \ {"stop", "rules"}
      /\ mixed' = (mixed /\ (~Quiet \/ told \notin {{Clear}, {Wipe}, {Clear, Wipe}}))
  BY DEF Reboot, files
<1>2. \A x \in Slots : Now(x)' = "none"
  BY <1>1 DEF Now, First
<1>3. ScriptOK'
  BY <1>1, Whole DEF ScriptOK, For
<1>4. ASSUME enabled, Usable
       PROVE  /\ HostTyped' /\ (active' <=> up' # None)
              /\ active' => enabled /\ conf # None /\ up' = conf /\ nat'[up'.set.egress] > 0
              /\ ~active' => nat' = NoRules
  <2>1. up' = conf /\ active' = TRUE /\ nat' = [NoRules EXCEPT ![conf.set.egress] = 1]
    BY <1>4 DEF Reboot
  <2>2. conf \in Config /\ conf.set.egress \in Egresses
    BY <1>4 DEF HostTyped, Config, Setting, Usable
  <2>3. nat' \in [Egresses -> Nat] /\ nat'[conf.set.egress] = 1
    BY <2>1, <2>2 DEF NoRules
  <2>4. HostTyped'
    BY <1>1, <2>1, <2>2, <2>3, WGAssumption DEF HostTyped, WGAssumption
  <2>5. nat'[up'.set.egress] > 0 /\ up' # None
    BY <1>4, <2>1, <2>3 DEF Usable
  <2> QED BY <1>4, <2>1, <2>4, <2>5 DEF Usable
<1>5. ASSUME ~(enabled /\ Usable)
       PROVE  /\ HostTyped' /\ (active' <=> up' # None)
              /\ active' => enabled /\ conf # None /\ up' = conf /\ nat'[up'.set.egress] > 0
              /\ ~active' => nat' = NoRules
  <2>1. up' = None /\ active' = FALSE /\ nat' = NoRules
    BY <1>5 DEF Reboot
  <2>2. nat' \in [Egresses -> Nat]
    BY <2>1 DEF NoRules
  <2>3. HostTyped'
    BY <1>1, <2>1, <2>2, WGAssumption DEF HostTyped, WGAssumption
  <2> QED BY <2>1, <2>3
<1>6. /\ HostTyped'
      /\ (active' <=> up' # None)
      /\ active' => enabled /\ conf # None /\ up' = conf /\ nat'[up'.set.egress] > 0
      /\ ~active' => nat' = NoRules
  BY <1>4, <1>5
<1>7. KeysInv'
  <2>1. MakerOK'
    BY <1>2 DEF MakerOK, Making
  <2> QED BY <1>1, <2>1 DEF KeysInv, KeysMatch, LoneOK
<1>8. Apart'
  BY <1>2 DEF Apart, DeployCommands
<1>9. HostOK'
  BY <1>1, <1>2, <1>6 DEF HostOK, ResetCommands, Unlinks
<1>10. ASSUME OnlyResets, told # {}
       PROVE  ~active' /\ conf = None /\ (enabled => "disable" \in ignored) /\ nat' = NoRules
  BY <1>6, <1>10 DEF PastInv, ResetInv
<1>11. KeyUse'
  <2> SUFFICES ASSUME ~mixed', ~tangled', "private" \notin ignored' PROVE KeyUse'
    BY DEF KeyUse
  <2>1. up' # None => up' = conf' /\ conf' # None
    BY <1>1, <1>6
  <2>2. CASE ~mixed
    <3>1. conf' # None => conf'.key = pub' /\ pub' # 0 /\ priv' = pub'
      BY <1>1, <2>2 DEF KeyUse
    <3> QED BY <1>2, <2>1, <3>1 DEF KeyUse
  <2>3. CASE mixed
    <3>1. Quiet /\ told \in {{Clear}, {Wipe}, {Clear, Wipe}}
      BY <1>1, <2>3
    <3>2. OnlyResets
      BY <3>1, QuietNow DEF OnlyResets, DeployCommands
    <3>3. conf' = None
      BY <1>1, <1>10, <3>1, <3>2
    <3> QED BY <1>2, <2>1, <3>3 DEF KeyUse
  <2> QED BY <2>2, <2>3
<1>12. PastInv'
  <2>1. CASE Quiet
    <3>1. told' = told /\ \A x \in Slots : Now(x) = "none"
      BY <1>1, <2>1, QuietNow
    <3>2. DeployInv'
      <4> SUFFICES ASSUME OnlyDeploys', told # {}
                   PROVE  conf' # None /\ conf'.set \in Wanted' /\ enabled' /\ (active' \/ conf'.key = 0)
        BY <1>2, <3>1 DEF DeployInv
      <4>1. OnlyDeploys
        BY <3>1 DEF OnlyDeploys, ResetCommands, Unlinks
      <4>2. conf # None /\ conf.set \in Wanted /\ enabled
        BY <4>1 DEF PastInv, DeployInv
      <4>3. Wanted = told
        BY <3>1 DEF Wanted
      <4>4. active' \/ conf.key = 0
        BY <4>2 DEF Reboot, Usable
      <4> QED BY <1>1, <3>1, <4>2, <4>3, <4>4 DEF Wanted
    <3>3. ResetInv'
      <4> SUFFICES ASSUME OnlyResets'
                   PROVE  /\ told # {} => /\ ~active' /\ (enabled' => "disable" \in ignored')
                                          /\ conf' = None /\ nat' = NoRules
                          /\ Wipe \in told => priv' = 0 /\ pub' = 0
        BY <1>2, <3>1 DEF ResetInv, ResetCommands, Unlinks
      <4>1. OnlyResets
        BY <3>1 DEF OnlyResets, DeployCommands
      <4> QED BY <1>1, <1>10, <2>1, <4>1 DEF PastInv, ResetInv
    <3>4. MismatchInv'
      BY <1>1, <1>2, <3>1 DEF PastInv, MismatchInv
    <3> QED BY <3>2, <3>3, <3>4 DEF PastInv
  <2>2. CASE ~Quiet
    <3>1. Tell(Failed)
      BY <1>1, <2>2
    <3>2. ~OnlyDeploys' /\ ~OnlyResets'
      BY <3>1, TellFacts, WGAssumption DEF WGAssumption, OnlyDeploys, OnlyResets
    <3>3. Mismatch \in told' => Mismatch \in told
      BY <3>1, TellFacts, WGAssumption DEF WGAssumption
    <3>4. MismatchInv'
      BY <1>1, <1>2, <3>3 DEF PastInv, MismatchInv
    <3> QED BY <3>2, <3>4 DEF PastInv, DeployInv, ResetInv
  <2> QED BY <2>1, <2>2
<1> QED BY <1>3, <1>6, <1>7, <1>8, <1>9, <1>11, <1>12

\* A step of nobody.
LEMMA StutterKeeps ==
  ASSUME WGInv, UNCHANGED wgVars
  PROVE  WGInv'
<1>1. UNCHANGED <<todo, asked, held, made, priv, pub, conf, enabled, active, up, nat, told, tangled,
                  mixed, lone, ignored>>
  BY DEF wgVars, files, host, past
<1>2. \A x \in Slots : Now(x)' = Now(x)
  BY <1>1 DEF Now
<1>3. ScriptOK' /\ HostTyped'
  BY <1>1 DEF WGInv, ScriptOK, HostTyped
<1>4. KeysInv'
  BY <1>1, <1>2 DEF WGInv, KeysInv, MakerOK, Making, KeysMatch, LoneOK
<1>5. Apart' /\ HostOK' /\ KeyUse'
  BY <1>1, <1>2 DEF WGInv, Apart, HostOK, KeyUse
<1>6. (OnlyDeploys' <=> OnlyDeploys) /\ (OnlyResets' <=> OnlyResets) /\ Wanted' = Wanted
  BY <1>1, <1>2 DEF OnlyDeploys, OnlyResets, Wanted
<1>7. DeployInv' /\ ResetInv' /\ MismatchInv'
  BY <1>1, <1>2, <1>6 DEF WGInv, PastInv, DeployInv, ResetInv, MismatchInv
<1> QED BY <1>3, <1>4, <1>5, <1>7 DEF WGInv, PastInv

\* The host before the first request.
LEMMA InitInv == ASSUME Init PROVE WGInv
<1>1. \A x \in Slots : Now(x) = "none"
  BY DEF Init, Now, First
<1>2. ScriptOK
  BY Whole DEF Init, ScriptOK, For
<1>3. HostTyped
  BY WGAssumption DEF Init, HostTyped, WGAssumption, NoRules
<1>4. KeysInv /\ Apart
  BY <1>1 DEF Init, KeysInv, MakerOK, Making, KeysMatch, LoneOK, Apart, DeployCommands
<1>5. HostOK /\ KeyUse
  BY <1>1 DEF Init, HostOK, KeyUse, ResetCommands, Unlinks
<1>6. PastInv
  BY <1>1 DEF Init, PastInv, DeployInv, ResetInv, MismatchInv, ResetCommands, Unlinks
<1> QED BY <1>2, <1>3, <1>4, <1>5, <1>6 DEF WGInv

-----------------------------------------------------------------------------
\* One case for each action.
LEMMA NextKeeps ==
  ASSUME WGInv, Next
  PROVE  WGInv'
<1>1. ASSUME NEW r \in Slots, Deploy(r) \/ Reset(r) \/ Check(r)
      PROVE  WGInv'
  <2>1. CASE Deploy(r)
    <3>1. PICK s \in Setting : Begin(r, DeployScript, s)
      BY <2>1 DEF Deploy
    <3>2. For(DeployScript, s)
      BY Whole DEF For
    <3> QED BY <3>1, <3>2, Whole, BeginKeeps
  <2>2. CASE Reset(r)
    <3>1. For(ClearScript, Clear) /\ For(WipeScript, Wipe)
      BY Whole DEF For
    <3> QED BY <2>2, <3>1, Whole, BeginKeeps DEF Reset
  <2>3. CASE Check(r)
    <3>1. For(InspectScript, Inspect)
      BY Whole DEF For
    <3> QED BY <2>3, <3>1, Whole, BeginKeeps DEF Check
  <2> QED BY <1>1, <2>1, <2>2, <2>3
<1>2. ASSUME NEW r \in Slots, Step(r)
      PROVE  WGInv'
  <2>1. \/ Derive(r) \/ EndsCheck(r)
        \/ \E name \in DeployCommands \cup ResetCommands \cup InspectCommands : Runs(r, name)
    BY <1>2 DEF Step, Runs, ShowKey, ShowsKey, EndsCheck, DeployCommands, ResetCommands, Unlinks, InspectCommands
  <2> QED BY <2>1, EndKeeps, RunsKeeps
<1> QED BY <1>1, <1>2, EndKeeps, RebootKeeps DEF Next

\* WGInv holds of the initial state and is kept by every step, the start of
\* the host among them (wireguard.go:178-210, 297-320, 428-449).
THEOREM WGInvariance == Spec => []WGInv
<1>1. WGInv /\ [Next]_wgVars => WGInv'
  BY NextKeeps, StutterKeeps
<1> QED BY <1>1, InitInv, PTL DEF Spec

\* The key files match, whichever commands the scripts ended at
\* (wireguard.go:298-302).
THEOREM MatchingKeys == Spec => []KeysMatch
BY WGInvariance, PTL DEF WGInv, KeysInv

\* Deploys that all report success have left the interface, its NAT rule and
\* its key, and the file that the next start reads, unless a failure of the
\* stop before or of the writing of the key was passed over
\* (wireguard.go:297-320).
THEOREM ServedDeploys == Spec => []DeployedIsServed
<1>1. WGInv => DeployedIsServed
  <2> SUFFICES ASSUME WGInv, Quiet, told # {}, told \subseteq Setting, ~tangled, ~mixed,
                      ignored \cap {"stop", "private"} = {}
               PROVE  /\ enabled /\ active /\ conf.key = pub /\ conf.set \in told
                      /\ up # None /\ up.key = pub /\ nat[up.set.egress] > 0
    BY DEF DeployedIsServed
  <2>1. \A x \in Slots : Now(x) = "none"
    BY QuietNow DEF WGInv
  <2>2. OnlyDeploys /\ Wanted = told
    BY <2>1 DEF OnlyDeploys, Wanted, ResetCommands, Unlinks
  <2>3. conf # None /\ conf.set \in told /\ enabled /\ (active \/ conf.key = 0)
    BY <2>2 DEF WGInv, PastInv, DeployInv
  <2>4. "stop" \notin ignored /\ "private" \notin ignored
    OBVIOUS
  <2>5. conf.key = pub /\ pub # 0
    BY <2>3, <2>4 DEF WGInv, KeyUse
  <2>6. active /\ up # None /\ nat[up.set.egress] > 0
    BY <2>3, <2>4, <2>5 DEF WGInv, HostOK
  <2>7. up.key = pub
    BY <2>4, <2>6 DEF WGInv, KeyUse
  <2> QED BY <2>3, <2>5, <2>6, <2>7
<1> QED BY <1>1, WGInvariance, PTL

\* Resets that all report success have left no configuration, and the keys
\* only if they were to stay, and of the service, the interface and the rules
\* only what a failure that was passed over has left (wireguard.go:428-449).
THEOREM ClearedByResets == Spec => []ResetClears
<1>1. WGInv => ResetClears
  <2> SUFFICES ASSUME WGInv, Quiet, told # {}, told \subseteq {Clear, Wipe}
               PROVE  /\ conf = None
                      /\ Wipe \in told => priv = 0 /\ pub = 0
                      /\ enabled => "disable" \in ignored
                      /\ active => "stop" \in ignored
                      /\ up # None => "stop" \in ignored \/ mixed
                      /\ nat # NoRules => "rules" \in ignored
    BY DEF ResetClears
  <2>1. OnlyResets
    BY QuietNow DEF WGInv, OnlyResets, DeployCommands
  <2>2. /\ conf = None
        /\ Wipe \in told => priv = 0 /\ pub = 0
        /\ enabled => "disable" \in ignored
        /\ active => "stop" \in ignored
        /\ nat # NoRules => "rules" \in ignored
    BY <2>1 DEF WGInv, PastInv, ResetInv
  <2>3. up # None => "stop" \in ignored \/ mixed
    BY <2>2 DEF WGInv, HostOK
  <2> QED BY <2>2, <2>3
<1> QED BY <1>1, WGInvariance, PTL

\* A mismatch is told of only of tangled or removed keys, though the two keys
\* are read one after the other (wireguard.go:178-210).
THEOREM RealMismatches == Spec => []MismatchIsReal
<1>1. WGInv => MismatchIsReal
  BY DEF WGInv, PastInv, MismatchInv, MismatchIsReal
<1> QED BY <1>1, WGInvariance, PTL

\* Once there are both keys they stay until a request removes them
\* (wireguard.go:298-300, 428-432).
THEOREM KeptKeys == Spec => KeysAreKept
<1>1. WGInv /\ [Next]_wgVars =>
        [priv # 0 /\ pub # 0 /\ <<priv, pub>>' # <<priv, pub>> =>
           tangled \/ \E r \in Slots : asked[r] = Wipe]_wgVars
  <2> SUFFICES ASSUME WGInv, Next, priv # 0, pub # 0, <<priv, pub>>' # <<priv, pub>>, ~tangled
               PROVE  \E r \in Slots : asked[r] = Wipe
    OBVIOUS
  <2>1. priv' # priv \/ pub' # pub
    OBVIOUS
  <2>2. ASSUME NEW r \in Slots, RemovePrivate(r) \/ RemovePublic(r)
        PROVE  asked[r] = Wipe
    <3>1. For(todo[r], asked[r]) /\ First(todo[r]) \in Unlinks
      BY <2>2 DEF WGInv, ScriptOK, RemovePrivate, RemovePublic, Command, Continue, First, Unlinks
    <3> QED BY <3>1, NowFacts DEF ResetCommands, Unlinks
  <2>3. ASSUME NEW r \in Slots, CheckKeys(r)
        PROVE  FALSE
    BY <2>1, <2>3 DEF CheckKeys, KeepsKeys
  <2>4. ASSUME NEW r \in Slots, MakePrivate(r) \/ MakePublic(r)
        PROVE  FALSE
    <3>1. Making(r)
      BY <2>4 DEF MakePrivate, MakePublic, Command, Continue, Making, Now, First
    <3> QED BY <3>1 DEF WGInv, KeysInv, MakerOK
  <2>5. ASSUME NEW r \in Slots,
               \/ Deploy(r) \/ Reset(r) \/ Check(r) \/ Abort(r)
               \/ ReadPrivate(r) \/ WriteConf(r) \/ Enable(r) \/ Start(r)
               \/ Stop(r) \/ Disable(r) \/ RemoveConf(r) \/ DeleteRule(r) \/ EndRules(r)
               \/ ShowKey(r) \/ Derive(r)
        PROVE  FALSE
    BY <2>1, <2>5 DEF Deploy, Reset, Check, Begin, Abort, ReadPrivate, WriteConf, Enable,
                Start, Stop, Disable, RemoveConf, DeleteRule, EndRules, ShowKey, Derive, files
  <2>6. ~Reboot
    BY <2>1 DEF Reboot, files
  <2> QED BY <2>2, <2>3, <2>4, <2>5, <2>6 DEF Next, Step
<1> QED BY <1>1, WGInvariance, PTL DEF Spec, KeysAreKept
=============================================================================
