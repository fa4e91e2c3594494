----------------------------- MODULE FRPProofs ------------------------------
(***************************************************************************)
(* Proofs about FRPService, for any number of requests and configs: what a *)
(* deploy, a reset and a status that report success say of the host.       *)
(***************************************************************************)
EXTENDS FRPService, TLAPS

\* How many commands a request has still to run.
Left(r) == Len(todo[r])

\* What may be left of a script.
DeployRests ==
  {DeployScript, <<"conf", "unit", "reload", "enable">>, <<"unit", "reload", "enable">>,
   <<"reload", "enable">>, <<"enable">>, <<>>}
ResetRests ==
  {ResetScript, <<"disable", "unlink", "remove", "reload">>, <<"unlink", "remove", "reload">>,
   <<"remove", "reload">>, <<"reload">>, <<>>}
StatusRests == {StatusScript, <<"exists">>, <<>>}

ScriptOK == \A r \in Slots :
  /\ asked[r] \in Configs => todo[r] \in DeployRests
  /\ asked[r] = Nothing => todo[r] \in ResetRests
  /\ asked[r] = Inspect => todo[r] \in StatusRests

\* Since the last time that no request was under way there have been
\* no resets and no failures, or no deploys and no failures.
OnlyDeploys == told \subseteq Configs /\ \A r \in Slots : Left(r) # 0 => asked[r] # Nothing
OnlyResets == told \subseteq {Nothing} /\ \A r \in Slots : Left(r) # 0 => asked[r] \notin Configs

\* The configs that deploys have written since then.
Wanted == told \cup {asked[r] : r \in {x \in Slots : asked[x] \in Configs /\ Left(x) \in 1..3}}

\* What deploys have done is still so.
DeployInv ==
  OnlyDeploys =>
    /\ \A r \in Slots : Left(r) # 0 /\ asked[r] \in Configs =>
         /\ Left(r) <= 4 => dir
         /\ Left(r) <= 3 => conf \in Wanted
         /\ Left(r) <= 2 => unit
    /\ told # {} => dir /\ conf \in Wanted /\ unit /\ enabled /\ running \in Configs

\* A server that was started since then runs one of their configs.
FreshInv ==
  OnlyDeploys /\ fresh /\ ~(Quiet /\ told = {}) =>
    running = Stopped \/ (told # {} /\ running \in Wanted)

\* What resets have taken away is still away.
ResetInv ==
  OnlyResets =>
    /\ \A r \in Slots : Left(r) # 0 /\ asked[r] = Nothing =>
         /\ Left(r) <= 4 => running = Stopped \/ unstopped
         /\ Left(r) <= 2 => ~unit
         /\ Left(r) <= 1 => ~dir /\ conf = Nothing
    /\ told # {} => Cleared /\ (running = Stopped \/ unstopped)

\* A reset has been about since then, or a request has failed.
Disturbed ==
  told \cap {Nothing, Failed} # {} \/ \E r \in Slots : Left(r) # 0 /\ asked[r] = Nothing

\* The config that a status has shown is still there.
StatusInv ==
  /\ Odd \in told => Disturbed
  /\ \A r \in Slots : todo[r] = <<"exists">> /\ shown[r] => conf # Nothing \/ Disturbed

FRPInv == TypeOK /\ ScriptOK /\ DeployInv /\ FreshInv /\ ResetInv /\ StatusInv

-----------------------------------------------------------------------------
(* Scripts.                                                                *)

\* What is left of a deploy: the number of commands tells the next one.
LEMMA DeployRest ==
  ASSUME NEW s \in DeployRests, s # <<>>
  PROVE  /\ s \in Seq(Commands) /\ Tail(s) \in DeployRests
         /\ Len(s) \in 1..5 /\ Len(Tail(s)) = Len(s) - 1
         /\ Head(s) = "mkdir" => Len(s) = 5
         /\ Head(s) = "conf" => Len(s) = 4
         /\ Head(s) = "unit" => Len(s) = 3
         /\ Head(s) = "reload" => Len(s) = 2
         /\ Head(s) = "enable" => Len(s) = 1
         /\ Head(s) \in {"mkdir", "conf", "unit", "reload", "enable"}
<1>1. CASE s = DeployScript
  BY <1>1 DEF DeployRests, DeployScript, Commands
<1>2. CASE s = <<"conf", "unit", "reload", "enable">>
  BY <1>2 DEF DeployRests, Commands
<1>3. CASE s = <<"unit", "reload", "enable">>
  BY <1>3 DEF DeployRests, Commands
<1>4. CASE s = <<"reload", "enable">>
  BY <1>4 DEF DeployRests, Commands
<1>5. CASE s = <<"enable">>
  BY <1>5 DEF DeployRests, Commands
<1> QED BY <1>1, <1>2, <1>3, <1>4, <1>5 DEF DeployRests

\* What is left of a reset.
LEMMA ResetRest ==
  ASSUME NEW s \in ResetRests, s # <<>>
  PROVE  /\ s \in Seq(Commands) /\ Tail(s) \in ResetRests
         /\ Len(s) \in 1..5 /\ Len(Tail(s)) = Len(s) - 1
         /\ Head(s) = "stop" => Len(s) = 5
         /\ Head(s) = "disable" => Len(s) = 4
         /\ Head(s) = "unlink" => Len(s) = 3
         /\ Head(s) = "remove" => Len(s) = 2
         /\ Head(s) = "reload" => Len(s) = 1
         /\ Head(s) \in {"stop", "disable", "unlink", "remove", "reload"}
<1>1. CASE s = ResetScript
  BY <1>1 DEF ResetRests, ResetScript, Commands
<1>2. CASE s = <<"disable", "unlink", "remove", "reload">>
  BY <1>2 DEF ResetRests, Commands
<1>3. CASE s = <<"unlink", "remove", "reload">>
  BY <1>3 DEF ResetRests, Commands
<1>4. CASE s = <<"remove", "reload">>
  BY <1>4 DEF ResetRests, Commands
<1>5. CASE s = <<"reload">>
  BY <1>5 DEF ResetRests, Commands
<1> QED BY <1>1, <1>2, <1>3, <1>4, <1>5 DEF ResetRests

\* What is left of a status.
LEMMA StatusRest ==
  ASSUME NEW s \in StatusRests, s # <<>>
  PROVE  /\ s \in Seq(Commands) /\ Tail(s) \in StatusRests
         /\ Len(s) \in 1..2 /\ Len(Tail(s)) = Len(s) - 1
         /\ s = StatusScript => Tail(s) = <<"exists">>
         /\ s = <<"exists">> => Tail(s) = <<>>
         /\ Head(s) \in {"show", "exists"}
<1>1. CASE s = StatusScript
  BY <1>1 DEF StatusRests, StatusScript, Commands
<1>2. CASE s = <<"exists">>
  BY <1>2 DEF StatusRests, StatusScript, Commands
<1> QED BY <1>1, <1>2 DEF StatusRests

\* Scripts that have just begun.
LEMMA Whole ==
  /\ DeployScript \in DeployRests \cap Seq(Commands) /\ Len(DeployScript) = 5
  /\ ResetScript \in ResetRests \cap Seq(Commands) /\ Len(ResetScript) = 5
  /\ StatusScript \in StatusRests \cap Seq(Commands) /\ Len(StatusScript) = 2
  /\ StatusScript # <<"exists">> /\ DeployScript # <<"exists">> /\ ResetScript # <<"exists">>
<1>1. DeployScript \in DeployRests /\ Len(DeployScript) = 5 /\ DeployScript # <<>>
  BY DEF DeployRests, DeployScript
<1>2. ResetScript \in ResetRests /\ Len(ResetScript) = 5 /\ ResetScript # <<>>
  BY DEF ResetRests, ResetScript
<1>3. StatusScript \in StatusRests /\ Len(StatusScript) = 2 /\ StatusScript # <<>>
  BY DEF StatusRests, StatusScript
<1>4. Len(<<"exists">>) = 1
  OBVIOUS
<1> QED BY <1>1, <1>2, <1>3, <1>4, DeployRest, ResetRest, StatusRest

\* Scripts that have ended.
LEMMA Empty ==
  /\ <<>> \in DeployRests /\ <<>> \in ResetRests /\ <<>> \in StatusRests
  /\ <<>> \in Seq(Commands) /\ Len(<<>>) = 0 /\ <<>> # <<"exists">>
BY DEF DeployRests, ResetRests, StatusRests

-----------------------------------------------------------------------------
(* What a step does to the requests.                                       *)

\* A script has ended when it has no command left.
LEMMA LeftFacts ==
  ASSUME TypeOK
  PROVE  /\ \A r \in Slots : Left(r) \in Nat /\ (Left(r) = 0 <=> todo[r] = <<>>)
         /\ Quiet <=> \A r \in Slots : Left(r) = 0
<1>1. ASSUME NEW r \in Slots PROVE Left(r) \in Nat /\ (Left(r) = 0 <=> todo[r] = <<>>)
  <2>1. todo[r] \in Seq(Commands)
    BY DEF TypeOK
  <2> QED BY <2>1 DEF Left
<1> QED BY <1>1 DEF Quiet

\* The place of a command in its script.
At(r, name) ==
  \/ /\ asked[r] \in Configs
     /\ \/ name = "mkdir" /\ Left(r) = 5
        \/ name = "conf" /\ Left(r) = 4
        \/ name = "unit" /\ Left(r) = 3
        \/ name = "reload" /\ Left(r) = 2
        \/ name = "enable" /\ Left(r) = 1
  \/ /\ asked[r] = Nothing
     /\ \/ name = "stop" /\ Left(r) = 5
        \/ name = "disable" /\ Left(r) = 4
        \/ name = "unlink" /\ Left(r) = 3
        \/ name = "remove" /\ Left(r) = 2
        \/ name = "reload" /\ Left(r) = 1

\* A request goes on by one command.
GoesOn(r) ==
  /\ Left(r) \in 1..5 /\ Left(r)' = Left(r) - 1
  /\ \A x \in Slots \ {r} : Left(x)' = Left(x) /\ todo'[x] = todo[x]
  /\ todo'[r] # <<"exists">>
  /\ \/ Left(r) # 1 /\ told' = told
     \/ Left(r) = 1 /\ (told' = told \cup {asked[r]} \/ told' = told \cup {Failed})
  /\ asked' = asked /\ shown' = shown /\ fresh' = fresh

\* A command is one less to run, in its own slot.
LEMMA CommandStep ==
  ASSUME TypeOK, ScriptOK, NEW r \in Slots, NEW name, Command(r, name), name \notin {"show", "exists"}
  PROVE  /\ At(r, name) /\ GoesOn(r)
         /\ ScriptOK' /\ todo' \in [Slots -> Seq(Commands)]
<1>1. /\ todo[r] # <<>> /\ Head(todo[r]) = name
      /\ todo' = [todo EXCEPT ![r] = Tail(todo[r])]
      /\ \/ Len(todo[r]) > 1 /\ told' = told
         \/ Len(todo[r]) = 1 /\ (told' = told \cup {asked[r]} \/ told' = told \cup {Failed})
      /\ UNCHANGED <<asked, shown, fresh>>
  BY DEF Command
<1>2. todo \in [Slots -> Seq(Commands)] /\ asked[r] \in Configs \cup {Nothing, Inspect}
  BY DEF TypeOK
<1>3. \A x \in Slots : todo'[x] = IF x = r THEN Tail(todo[r]) ELSE todo[x]
  BY <1>1, <1>2
<1>4. Left(r)' = Len(Tail(todo[r])) /\ \A x \in Slots \ {r} : Left(x)' = Left(x)
  BY <1>3 DEF Left
<1>5. Tail(todo[r]) \in Seq(Commands)
  BY <1>1, <1>2
<1>6. todo' \in [Slots -> Seq(Commands)]
  BY <1>1, <1>2, <1>5
<1>7. Configs \cap {Nothing, Inspect} = {} /\ Nothing # Inspect
  BY FRPAssumption
<1>8. CASE asked[r] \in Configs
  <2>1. todo[r] \in DeployRests
    BY <1>8 DEF ScriptOK
  <2>2. /\ Tail(todo[r]) \in DeployRests /\ Left(r) \in 1..5 /\ Left(r)' = Left(r) - 1
        /\ At(r, name)
    BY <1>1, <1>4, <1>8, <2>1, DeployRest DEF At, Left
  <2>3. Tail(todo[r]) # <<"exists">>
    <3>1. Head(<<"exists">>) = "exists" /\ <<"exists">> # <<>>
      OBVIOUS
    <3> QED BY <2>2, <3>1, DeployRest
  <2>4. ScriptOK'
    BY <1>1, <1>3, <1>7, <1>8, <2>2 DEF ScriptOK
  <2> QED BY <1>1, <1>3, <1>4, <1>6, <2>2, <2>3, <2>4 DEF GoesOn, Left
<1>9. CASE asked[r] = Nothing
  <2>1. todo[r] \in ResetRests
    BY <1>9 DEF ScriptOK
  <2>2. /\ Tail(todo[r]) \in ResetRests /\ Left(r) \in 1..5 /\ Left(r)' = Left(r) - 1
        /\ At(r, name)
    BY <1>1, <1>4, <1>9, <2>1, ResetRest DEF At, Left
  <2>3. Tail(todo[r]) # <<"exists">>
    <3>1. Head(<<"exists">>) = "exists" /\ <<"exists">> # <<>>
      OBVIOUS
    <3> QED BY <2>2, <3>1, ResetRest
  <2>4. ScriptOK'
    BY <1>1, <1>3, <1>7, <1>9, <2>2 DEF ScriptOK
  <2> QED BY <1>1, <1>3, <1>4, <1>6, <2>2, <2>3, <2>4 DEF GoesOn, Left
<1>10. asked[r] # Inspect
  BY <1>1, StatusRest DEF ScriptOK
<1> QED BY <1>2, <1>8, <1>9, <1>10

\* What was wanted stays so, and what has happened is not undone, by a command
\* of r; nor are deploys, or resets, alone afterwards that were not before.
LEMMA GoesOnFacts ==
  ASSUME TypeOK, NEW r \in Slots, GoesOn(r)
  PROVE  /\ told \subseteq told'
         /\ Failed \notin told' => Wanted \subseteq Wanted'
         /\ OnlyDeploys' => OnlyDeploys /\ asked[r] # Nothing /\ Failed \notin told'
         /\ OnlyResets' => OnlyResets /\ asked[r] \notin Configs /\ Failed \notin told'
         /\ Disturbed => Disturbed'
         /\ Left(r) = 1 => asked[r] \in told' \/ Failed \in told'
         /\ ~Quiet
<1>1. \A x \in Slots : Left(x) \in Nat /\ (Left(x) = 0 <=> todo[x] = <<>>)
  BY LeftFacts
<1>2. told \subseteq told' /\ (Left(r) = 1 => asked[r] \in told' \/ Failed \in told')
  BY DEF GoesOn
<1>3. ASSUME Failed \notin told' PROVE Wanted \subseteq Wanted'
  <2>1. ASSUME NEW x \in Slots, asked[x] \in Configs, Left(x) \in 1..3
        PROVE  asked[x] \in Wanted'
    <3>1. CASE x = r /\ Left(r) = 1
      BY <1>2, <1>3, <3>1 DEF Wanted
    <3>2. CASE ~(x = r /\ Left(r) = 1)
      <4>1. Left(x)' \in 1..3 /\ asked'[x] = asked[x]
        BY <2>1, <3>2 DEF GoesOn
      <4> QED BY <2>1, <4>1 DEF Wanted
    <3> QED BY <3>1, <3>2
  <2> QED BY <1>2, <2>1 DEF Wanted
<1>4. \A x \in Slots : Left(x) # 0 =>
        Left(x)' # 0 \/ (x = r /\ (asked[r] \in told' \/ Failed \in told'))
  BY <1>1, <1>2 DEF GoesOn
<1>5. asked' = asked /\ Nothing \notin Configs /\ Left(r) # 0
  BY FRPAssumption DEF GoesOn
<1>6. OnlyDeploys' => OnlyDeploys /\ asked[r] # Nothing /\ Failed \notin told'
  BY <1>2, <1>4, <1>5, FRPAssumption DEF OnlyDeploys
<1>7. OnlyResets' => OnlyResets /\ asked[r] \notin Configs /\ Failed \notin told'
  BY <1>2, <1>4, <1>5, FRPAssumption DEF OnlyResets
<1>8. Disturbed => Disturbed'
  BY <1>2, <1>4, <1>5 DEF Disturbed
<1>9. ~Quiet
  BY LeftFacts DEF GoesOn
<1> QED BY <1>2, <1>3, <1>6, <1>7, <1>8, <1>9

\* A command of a deploy or of a reset.
Runs(r, name) ==
  \/ name = "mkdir" /\ MakeDir(r)
  \/ name = "conf" /\ WriteConf(r)
  \/ name = "unit" /\ WriteUnit(r)
  \/ name = "reload" /\ Reload(r)
  \/ name = "enable" /\ EnableNow(r)
  \/ name = "stop" /\ Stop(r)
  \/ name = "disable" /\ Disable(r)
  \/ name = "unlink" /\ RemoveUnit(r)
  \/ name = "remove" /\ RemoveDir(r)

\* The same for every command of deploys and resets, with types.
LEMMA RunsStep ==
  ASSUME TypeOK, ScriptOK, NEW r \in Slots, NEW name, Runs(r, name)
  PROVE  At(r, name) /\ GoesOn(r) /\ TypeOK' /\ ScriptOK'
<1>1. Command(r, name) /\ name \notin {"show", "exists"}
  BY DEF Runs, MakeDir, WriteConf, WriteUnit, Reload, EnableNow, Stop, Disable, RemoveUnit, RemoveDir
<1>2. At(r, name) /\ GoesOn(r) /\ ScriptOK' /\ todo' \in [Slots -> Seq(Commands)]
  BY <1>1, CommandStep
<1>3. {dir, unit, enabled, unstopped}' \subseteq BOOLEAN
  BY DEF TypeOK, Runs, MakeDir, WriteConf, WriteUnit, Reload, EnableNow, Stop, Disable, RemoveUnit, RemoveDir
<1>4. conf' \in Configs \cup {Nothing} /\ running' \in Configs \cup {Stopped, Failing}
  BY <1>2, FRPAssumption DEF TypeOK, Runs, MakeDir, WriteConf, WriteUnit, Reload, EnableNow, Stop, Disable,
        RemoveUnit, RemoveDir, Started, At
<1>5. told' \subseteq Configs \cup {Nothing, Failed, Odd}
  BY <1>2 DEF TypeOK, GoesOn, At
<1> QED BY <1>2, <1>3, <1>4, <1>5 DEF TypeOK, GoesOn

\* Among deploys no command undoes what another one has done.
LEMMA RunsKeepsDeploys ==
  ASSUME TypeOK, ScriptOK, DeployInv, FreshInv, NEW r \in Slots, NEW name, Runs(r, name)
  PROVE  DeployInv' /\ FreshInv'
<1>1. At(r, name) /\ GoesOn(r)
  BY RunsStep
<1> SUFFICES ASSUME OnlyDeploys' PROVE DeployInv' /\ FreshInv'
  BY DEF DeployInv, FreshInv
<1>2. /\ told \subseteq told' /\ Wanted \subseteq Wanted'
      /\ OnlyDeploys /\ asked[r] # Nothing
      /\ Left(r) = 1 => asked[r] \in told'
      /\ ~Quiet
  BY <1>1, GoesOnFacts
<1>3. asked[r] \in Configs /\ asked' = asked /\ fresh' = fresh /\ Left(r) \in 1..5
  BY <1>1, <1>2 DEF At, GoesOn
<1>4. /\ \A x \in Slots : Left(x) # 0 /\ asked[x] \in Configs =>
           /\ Left(x) <= 4 => dir
           /\ Left(x) <= 3 => conf \in Wanted
           /\ Left(x) <= 2 => unit
      /\ told # {} => dir /\ conf \in Wanted /\ unit /\ enabled /\ running \in Configs
  BY <1>2 DEF DeployInv
<1>5. fresh => running = Stopped \/ (told # {} /\ running \in Wanted)
  BY <1>2 DEF FreshInv
<1>6. Wanted' \subseteq Configs
  BY DEF Wanted, OnlyDeploys
<1>7. /\ Left(r) <= 4 => dir
      /\ Left(r) <= 3 => conf \in Wanted
      /\ Left(r) <= 2 => unit
  BY <1>3, <1>4
<1>8. \A x \in Slots : Left(x)' # 0 /\ asked'[x] \in Configs =>
        /\ Left(x) # 0 /\ Left(x)' <= Left(x) /\ (x # r => Left(x)' = Left(x))
        /\ Left(x) \in Nat /\ asked[x] \in Configs
  BY <1>1, <1>3, LeftFacts DEF GoesOn
<1>9. told' # {} => told # {} \/ Left(r) = 1
  BY <1>1 DEF GoesOn
<1>10. ASSUME /\ dir' = dir \/ dir'
              /\ conf' = conf \/ conf' \in Wanted'
              /\ unit' = unit \/ unit'
              /\ enabled' = enabled \/ enabled'
              /\ running' = running \/ (Left(r) = 1 /\ running' \in Wanted')
              /\ Left(r)' <= 4 => dir'
              /\ Left(r)' <= 3 => conf' \in Wanted'
              /\ Left(r)' <= 2 => unit'
              /\ Left(r) = 1 => enabled' /\ running' \in Configs
       PROVE  DeployInv' /\ FreshInv'
  <2>1. \A x \in Slots : Left(x)' # 0 /\ asked'[x] \in Configs =>
           /\ Left(x)' <= 4 => dir'
           /\ Left(x)' <= 3 => conf' \in Wanted'
           /\ Left(x)' <= 2 => unit'
    BY <1>2, <1>4, <1>8, <1>10
  <2>2. told' # {} => dir' /\ conf' \in Wanted' /\ unit' /\ enabled' /\ running' \in Configs
    BY <1>1, <1>2, <1>4, <1>6, <1>9, <1>10 DEF GoesOn
  <2>3. fresh' => running' = Stopped \/ (told' # {} /\ running' \in Wanted')
    BY <1>2, <1>3, <1>5, <1>10
  <2> QED BY <2>1, <2>2, <2>3 DEF DeployInv, FreshInv
<1>11. Left(r)' = Left(r) - 1
  BY <1>1 DEF GoesOn
<1>12. CASE name = "mkdir"
  BY <1>1, <1>3, <1>7, <1>10, <1>11, <1>12 DEF Runs, MakeDir, At
<1>13. CASE name = "conf"
  <2>1. Left(r)' = 3
    BY <1>1, <1>3, <1>11, <1>13, FRPAssumption DEF At
  <2>2. asked[r] \in Wanted'
    BY <1>3, <2>1 DEF Wanted
  <2> QED BY <1>7, <1>10, <1>11, <1>13, <2>1, <2>2 DEF Runs, WriteConf
<1>14. CASE name = "unit"
  BY <1>1, <1>2, <1>3, <1>7, <1>10, <1>11, <1>14 DEF Runs, WriteUnit, At
<1>15. CASE name = "reload"
  BY <1>1, <1>2, <1>3, <1>7, <1>10, <1>11, <1>15, FRPAssumption DEF Runs, Reload, At
<1>16. CASE name = "enable"
  <2>1. Left(r) = 1 /\ conf \in Wanted /\ dir /\ unit
    BY <1>1, <1>3, <1>7, <1>16 DEF At
  <2>2. conf \in Wanted' /\ conf \in Configs /\ Started = conf
    BY <1>2, <1>6, <2>1, FRPAssumption DEF Started
  <2>3. /\ running' = IF running \in {Stopped, Failing} THEN conf ELSE running
        /\ enabled' /\ UNCHANGED <<dir, conf, unit>>
    BY <1>16, <2>2 DEF Runs, EnableNow
  <2>4. running' \in Configs
    BY <2>2, <2>3 DEF TypeOK
  <2> QED BY <1>2, <1>10, <1>11, <2>1, <2>2, <2>3, <2>4
<1> QED BY <1>1, <1>3, <1>12, <1>13, <1>14, <1>15, <1>16, FRPAssumption DEF At

\* Among resets no command restores what another one has taken away.
LEMMA RunsKeepsResets ==
  ASSUME TypeOK, ScriptOK, ResetInv, NEW r \in Slots, NEW name, Runs(r, name)
  PROVE  ResetInv'
<1>1. At(r, name) /\ GoesOn(r)
  BY RunsStep
<1>2. OnlyResets' => OnlyResets /\ asked[r] \notin Configs
  BY <1>1, GoesOnFacts
<1> SUFFICES ASSUME OnlyResets' PROVE ResetInv'
  BY DEF ResetInv
<1>3. asked[r] = Nothing /\ asked' = asked /\ Left(r) \in 1..5 /\ Left(r)' = Left(r) - 1
  BY <1>1, <1>2 DEF At, GoesOn
<1>4. /\ \A x \in Slots : Left(x) # 0 /\ asked[x] = Nothing =>
           /\ Left(x) <= 4 => running = Stopped \/ unstopped
           /\ Left(x) <= 2 => ~unit
           /\ Left(x) <= 1 => ~dir /\ conf = Nothing
      /\ told # {} => Cleared /\ (running = Stopped \/ unstopped)
  BY <1>2 DEF ResetInv
<1>5. /\ Left(r) <= 4 => running = Stopped \/ unstopped
      /\ Left(r) <= 2 => ~unit
      /\ Left(r) <= 1 => ~dir /\ conf = Nothing
  BY <1>3, <1>4
<1>6. \A x \in Slots : Left(x)' # 0 /\ asked'[x] = Nothing =>
        /\ Left(x) # 0 /\ (x # r => Left(x)' = Left(x))
        /\ Left(x) \in Nat /\ asked[x] = Nothing
  BY <1>1, <1>3, LeftFacts DEF GoesOn
<1>7. told' # {} => told # {} \/ Left(r) = 1
  BY <1>1 DEF GoesOn
<1>8. ASSUME /\ \/ running' = running /\ unstopped' = unstopped
                \/ running' = Stopped \/ unstopped'
             /\ unit' = unit \/ ~unit'
             /\ (dir' = dir /\ conf' = conf) \/ (~dir' /\ conf' = Nothing)
             /\ Left(r) <= 5 => running' = Stopped \/ unstopped'
             /\ Left(r) <= 3 => ~unit'
             /\ Left(r) <= 2 => ~dir' /\ conf' = Nothing
      PROVE  ResetInv'
  <2>1. \A x \in Slots : Left(x)' # 0 /\ asked'[x] = Nothing =>
          /\ Left(x)' <= 4 => running' = Stopped \/ unstopped'
          /\ Left(x)' <= 2 => ~unit'
          /\ Left(x)' <= 1 => ~dir' /\ conf' = Nothing
    BY <1>3, <1>4, <1>6, <1>8
  <2>2. told' # {} => Cleared' /\ (running' = Stopped \/ unstopped')
    BY <1>3, <1>4, <1>7, <1>8 DEF Cleared
  <2> QED BY <2>1, <2>2 DEF ResetInv
<1>9. CASE name = "stop"
  <2>1. Left(r) = 5
    BY <1>1, <1>3, <1>9, FRPAssumption DEF At
  <2>2. Stop(r)
    BY <1>9 DEF Runs
  <2>3. ~(Left(r) <= 2) /\ ~(Left(r) <= 3)
    BY <2>1
  <2> QED BY <1>5, <1>8, <2>2, <2>3 DEF Stop
<1>10. CASE name = "disable"
  <2>1. Left(r) = 4
    BY <1>1, <1>3, <1>10, FRPAssumption DEF At
  <2>2. Disable(r)
    BY <1>10 DEF Runs
  <2>3. ~(Left(r) <= 2) /\ ~(Left(r) <= 3) /\ Left(r) <= 4
    BY <2>1
  <2> QED BY <1>5, <1>8, <2>2, <2>3 DEF Disable
<1>11. CASE name = "unlink"
  <2>1. Left(r) = 3
    BY <1>1, <1>3, <1>11, FRPAssumption DEF At
  <2>2. RemoveUnit(r)
    BY <1>11 DEF Runs
  <2>3. ~(Left(r) <= 2) /\ Left(r) <= 4
    BY <2>1
  <2> QED BY <1>5, <1>8, <2>2, <2>3 DEF RemoveUnit
<1>12. CASE name = "remove"
  <2>1. Left(r) = 2
    BY <1>1, <1>3, <1>12, FRPAssumption DEF At
  <2>2. RemoveDir(r)
    BY <1>12 DEF Runs
  <2> QED BY <1>5, <1>8, <2>1, <2>2 DEF RemoveDir
<1>13. CASE name = "reload"
  <2>1. Left(r) = 1
    BY <1>1, <1>3, <1>13, FRPAssumption DEF At
  <2>2. Reload(r)
    BY <1>13 DEF Runs
  <2> QED BY <1>5, <1>8, <2>1, <2>2 DEF Reload
<1> QED BY <1>1, <1>3, <1>9, <1>10, <1>11, <1>12, <1>13, FRPAssumption DEF At

\* Only a reset removes a config that a status has shown.
LEMMA RunsKeepsStatus ==
  ASSUME TypeOK, ScriptOK, StatusInv, NEW r \in Slots, NEW name, Runs(r, name)
  PROVE  StatusInv'
<1>1. At(r, name) /\ GoesOn(r)
  BY RunsStep
<1>2. Disturbed => Disturbed'
  BY <1>1, GoesOnFacts
<1>3. Odd \in told' => Odd \in told
  BY <1>1, FRPAssumption DEF At, GoesOn
<1>4. \A x \in Slots : todo'[x] = <<"exists">> => todo[x] = <<"exists">> /\ shown'[x] = shown[x]
  BY <1>1 DEF GoesOn
<1>5. CASE name = "conf"
  <2>1. conf' # Nothing
    BY <1>1, <1>5, FRPAssumption DEF Runs, WriteConf, At
  <2> QED BY <1>2, <1>3, <2>1 DEF StatusInv
<1>6. CASE name = "remove"
  <2>1. Left(r)' # 0 /\ asked'[r] = Nothing
    BY <1>1, <1>6 DEF At, GoesOn
  <2> QED BY <2>1 DEF StatusInv, Disturbed
<1>7. CASE name \notin {"conf", "remove"}
  <2>1. conf' = conf
    BY <1>7 DEF Runs, MakeDir, WriteUnit, Reload, EnableNow, Stop, Disable, RemoveUnit
  <2> QED BY <1>2, <1>3, <1>4, <2>1 DEF StatusInv
<1> QED BY <1>5, <1>6, <1>7

\* All of them together.
LEMMA RunsKeeps ==
  ASSUME FRPInv, NEW r \in Slots, NEW name, Runs(r, name)
  PROVE  FRPInv'
BY RunsStep, RunsKeepsDeploys, RunsKeepsResets, RunsKeepsStatus DEF FRPInv

-----------------------------------------------------------------------------
(* Requests begin, look, fail; the host goes on.                           *)

\* A request comes.
LEMMA BeginKeeps ==
  ASSUME FRPInv, NEW r \in Slots, NEW script, NEW c, Begin(r, script, c),
         \/ script = DeployScript /\ c \in Configs
         \/ script = ResetScript /\ c = Nothing
         \/ script = StatusScript /\ c = Inspect
  PROVE  FRPInv'
<1>1. /\ todo[r] = <<>> /\ todo' = [todo EXCEPT ![r] = script] /\ asked' = [asked EXCEPT ![r] = c]
      /\ UNCHANGED <<shown, dir, conf, unit, enabled, running, unstopped>>
      /\ told' = IF Quiet THEN {} ELSE told
      /\ fresh' = IF Quiet THEN running = Stopped ELSE fresh
  BY DEF Begin, host
<1>2. script \in Seq(Commands) /\ Len(script) \in {2, 5} /\ script # <<"exists">>
  <2>1. CASE script = DeployScript
    BY <2>1, Whole
  <2>2. CASE script = ResetScript
    BY <2>2, Whole
  <2>3. CASE script = StatusScript
    BY <2>3, Whole
  <2> QED BY <2>1, <2>2, <2>3
<1>3. /\ todo \in [Slots -> Seq(Commands)] /\ asked \in [Slots -> Configs \cup {Nothing, Inspect}]
      /\ c \in Configs \cup {Nothing, Inspect}
  BY DEF FRPInv, TypeOK
<1>4. TypeOK'
  <2>1. todo' \in [Slots -> Seq(Commands)] /\ asked' \in [Slots -> Configs \cup {Nothing, Inspect}]
    BY <1>1, <1>2, <1>3
  <2>2. told' \subseteq Configs \cup {Nothing, Failed, Odd} /\ fresh' \in BOOLEAN /\ unstopped' \in BOOLEAN
    BY <1>1 DEF FRPInv, TypeOK
  <2> QED BY <1>1, <2>1, <2>2 DEF FRPInv, TypeOK
<1>5. ScriptOK'
  <2>1. \A x \in Slots \ {r} : todo'[x] = todo[x] /\ asked'[x] = asked[x]
    BY <1>1, <1>3
  <2>2. todo'[r] = script /\ asked'[r] = c
    BY <1>1, <1>3
  <2>3. /\ c \in Configs => script \in DeployRests
        /\ c = Nothing => script \in ResetRests
        /\ c = Inspect => script \in StatusRests
    BY Whole, FRPAssumption
  <2> QED BY <2>1, <2>2, <2>3 DEF FRPInv, ScriptOK
<1>6. /\ Left(r) = 0 /\ Left(r)' = Len(script) /\ asked'[r] = c /\ todo'[r] = script
      /\ \A x \in Slots \ {r} : Left(x)' = Left(x) /\ asked'[x] = asked[x] /\ todo'[x] = todo[x]
  BY <1>1, <1>3, Empty DEF Left
<1>7. /\ \A x \in Slots : Left(x) \in Nat /\ (Left(x) = 0 <=> todo[x] = <<>>)
      /\ Quiet <=> \A x \in Slots : Left(x) = 0
  BY LeftFacts DEF FRPInv
<1>8. CASE Quiet
  <2>1. told' = {} /\ fresh' = (running' = Stopped) /\ \A x \in Slots \ {r} : Left(x)' = 0 /\ todo'[x] = <<>>
    BY <1>1, <1>6, <1>7, <1>8
  <2>2. \A x \in Slots : Left(x)' # 0 => x = r
    BY <2>1
  <2>3. c \in Configs \cup {Nothing} => Left(r)' = 5
    BY <1>6, Whole, FRPAssumption
  <2>4. \A x \in Slots : Left(x)' # 0 /\ asked'[x] \in Configs \cup {Nothing} =>
          ~(Left(x)' <= 4) /\ ~(Left(x)' <= 3) /\ ~(Left(x)' <= 2) /\ ~(Left(x)' <= 1)
    BY <1>6, <2>2, <2>3
  <2>5. DeployInv' /\ FreshInv' /\ ResetInv'
    BY <2>1, <2>4 DEF DeployInv, FreshInv, ResetInv
  <2>6. StatusInv'
    BY <1>2, <1>6, <2>1, Empty DEF StatusInv
  <2> QED BY <1>4, <1>5, <2>5, <2>6 DEF FRPInv
<1>9. CASE ~Quiet
  <2>1. told' = told /\ fresh' = fresh
    BY <1>1, <1>9
  <2>2. /\ OnlyDeploys' => OnlyDeploys
        /\ OnlyResets' => OnlyResets
        /\ Disturbed => Disturbed'
    <3>1. \A x \in Slots : Left(x) # 0 => Left(x)' = Left(x) /\ asked'[x] = asked[x]
      BY <1>6
    <3> QED BY <2>1, <3>1 DEF OnlyDeploys, OnlyResets, Disturbed
  <2>3. Wanted \subseteq Wanted'
    <3>1. \A x \in Slots : Left(x) \in 1..3 => Left(x)' = Left(x) /\ asked'[x] = asked[x]
      BY <1>6
    <3> QED BY <2>1, <3>1 DEF Wanted
  <2>4. DeployInv'
    <3> SUFFICES ASSUME OnlyDeploys' PROVE DeployInv'
      BY DEF DeployInv
    <3>1. \A x \in Slots : Left(x)' # 0 /\ asked'[x] \in Configs =>
            \/ x = r /\ Left(x)' = 5
            \/ Left(x)' = Left(x) /\ asked'[x] = asked[x]
      BY <1>6, Whole, FRPAssumption
    <3> QED BY <1>1, <2>1, <2>2, <2>3, <3>1 DEF FRPInv, DeployInv
  <2>5. FreshInv'
    BY <1>1, <1>9, <2>1, <2>2, <2>3 DEF FRPInv, FreshInv
  <2>6. ResetInv'
    <3>1. \A x \in Slots : Left(x)' # 0 /\ asked'[x] = Nothing =>
            \/ x = r /\ Left(x)' = 5
            \/ Left(x)' = Left(x) /\ asked'[x] = asked[x]
      BY <1>6, Whole, FRPAssumption
    <3> QED BY <1>1, <2>1, <2>2, <3>1 DEF FRPInv, ResetInv, Cleared
  <2>7. StatusInv'
    <3>1. \A x \in Slots : todo'[x] = <<"exists">> => todo[x] = <<"exists">>
      BY <1>2, <1>6
    <3> QED BY <1>1, <2>1, <2>2, <3>1 DEF FRPInv, StatusInv
  <2> QED BY <1>4, <1>5, <2>4, <2>5, <2>6, <2>7 DEF FRPInv
<1> QED BY <1>8, <1>9

\* A status that has not ended is asked for by a status request.
LEMMA StatusAsked ==
  ASSUME FRPInv, NEW r \in Slots, todo[r] \in {StatusScript, <<"exists">>}
  PROVE  asked[r] = Inspect
<1>1. Head(<<"exists">>) = "exists" /\ <<"exists">> # <<>>
  OBVIOUS
<1>2. Head(StatusScript) = "show" /\ StatusScript # <<>>
  BY DEF StatusScript
<1>3. todo[r] \notin DeployRests /\ todo[r] \notin ResetRests
  BY <1>1, <1>2, DeployRest, ResetRest
<1> QED BY <1>3 DEF FRPInv, TypeOK, ScriptOK

\* A status shows the config, and has still to see whether it exists.
LEMMA ShowKeeps ==
  ASSUME FRPInv, NEW r \in Slots, Show(r)
  PROVE  FRPInv'
<1>1. /\ todo[r] = StatusScript /\ todo' = [todo EXCEPT ![r] = Tail(todo[r])]
      /\ \/ shown' = [shown EXCEPT ![r] = conf # Nothing]
         \/ shown' = [shown EXCEPT ![r] = FALSE]
      /\ UNCHANGED <<asked, dir, conf, unit, enabled, running, told, fresh, unstopped>>
  BY DEF Show, host
<1>2. asked[r] = Inspect /\ Inspect \notin Configs /\ Inspect # Nothing
  BY <1>1, StatusAsked, FRPAssumption
<1>3. Tail(todo[r]) = <<"exists">> /\ Len(todo[r]) = 2 /\ Len(<<"exists">>) = 1
  BY <1>1 DEF StatusScript
<1>4. <<"exists">> \in StatusRests /\ <<"exists">> \in Seq(Commands)
  BY <1>3, Whole DEF StatusRests, Commands
<1>5. \A x \in Slots : todo'[x] = IF x = r THEN <<"exists">> ELSE todo[x]
  BY <1>1, <1>3 DEF FRPInv, TypeOK
<1>6. TypeOK'
  <2>1. todo' \in [Slots -> Seq(Commands)]
    BY <1>1, <1>3, <1>4 DEF FRPInv, TypeOK
  <2>2. shown' \in [Slots -> BOOLEAN]
    BY <1>1 DEF FRPInv, TypeOK
  <2> QED BY <1>1, <2>1, <2>2 DEF FRPInv, TypeOK
<1>7. ScriptOK'
  BY <1>1, <1>2, <1>4, <1>5 DEF FRPInv, ScriptOK
<1>8. Left(r) = 2 /\ Left(r)' = 1 /\ \A x \in Slots \ {r} : Left(x)' = Left(x)
  BY <1>3, <1>5 DEF Left
<1>9. Wanted' = Wanted /\ (OnlyDeploys' <=> OnlyDeploys) /\ (OnlyResets' <=> OnlyResets)
      /\ (Disturbed' <=> Disturbed)
  BY <1>1, <1>2, <1>8 DEF Wanted, OnlyDeploys, OnlyResets, Disturbed
<1>10. ~Quiet /\ ~Quiet'
  <2>1. <<"exists">> # <<>> /\ StatusScript # <<>>
    BY DEF StatusScript
  <2> QED BY <1>1, <1>5, <2>1 DEF Quiet
<1>11. \A x \in Slots : asked[x] \in Configs \cup {Nothing} => Left(x)' = Left(x)
  BY <1>2, <1>8
<1>12. DeployInv' /\ FreshInv' /\ ResetInv'
  BY <1>1, <1>9, <1>10, <1>11 DEF FRPInv, DeployInv, FreshInv, ResetInv, Cleared
<1>13. StatusInv'
  <2>1. \A x \in Slots \ {r} : shown'[x] = shown[x] /\ todo'[x] = todo[x]
    BY <1>1, <1>5 DEF FRPInv, TypeOK
  <2>2. shown'[r] => conf # Nothing
    BY <1>1 DEF FRPInv, TypeOK
  <2> QED BY <1>1, <1>9, <2>1, <2>2 DEF FRPInv, StatusInv
<1> QED BY <1>6, <1>7, <1>12, <1>13 DEF FRPInv

\* A request ends: a status as it should, or any request by a failure.
LEMMA EndKeeps ==
  ASSUME FRPInv, NEW r \in Slots, Exists(r) \/ Abort(r)
  PROVE  FRPInv'
<1>1. /\ todo[r] # <<>> /\ todo' = [todo EXCEPT ![r] = <<>>]
      /\ shown' = [shown EXCEPT ![r] = FALSE]
      /\ UNCHANGED <<asked, dir, conf, unit, enabled, running, fresh, unstopped>>
  <2>1. <<"exists">> # <<>>
    OBVIOUS
  <2> QED BY <2>1 DEF Exists, Abort, host
<1>2. \/ asked[r] = Inspect /\ told' = told
      \/ asked[r] = Inspect /\ told' = told \cup {Odd} /\ Disturbed
      \/ told' = told \cup {Failed}
  BY StatusAsked DEF Exists, Abort, FRPInv, StatusInv
<1>3. \A x \in Slots : todo'[x] = IF x = r THEN <<>> ELSE todo[x]
  BY <1>1 DEF FRPInv, TypeOK
<1>4. TypeOK'
  <2>1. todo' \in [Slots -> Seq(Commands)] /\ shown' \in [Slots -> BOOLEAN]
    BY <1>1, Empty DEF FRPInv, TypeOK
  <2>2. told' \subseteq Configs \cup {Nothing, Failed, Odd}
    BY <1>2 DEF FRPInv, TypeOK
  <2> QED BY <1>1, <2>1, <2>2 DEF FRPInv, TypeOK
<1>5. ScriptOK'
  BY <1>1, <1>3, Empty DEF FRPInv, ScriptOK
<1>6. Left(r)' = 0 /\ Left(r) # 0 /\ \A x \in Slots \ {r} : Left(x)' = Left(x)
  BY <1>1, <1>3, Empty, LeftFacts DEF Left, FRPInv
<1>7. \A x \in Slots \ {r} : shown'[x] = shown[x] /\ todo'[x] = todo[x]
  BY <1>1, <1>3 DEF FRPInv, TypeOK
<1>8. todo'[r] # <<"exists">>
  BY <1>3, Empty
<1>9. ~Quiet
  BY <1>6, LeftFacts DEF FRPInv
<1>10. CASE asked[r] = Inspect /\ told' = told
  <2>1. Inspect \notin Configs /\ Inspect # Nothing
    BY FRPAssumption
  <2>2. Wanted' = Wanted /\ (OnlyDeploys' <=> OnlyDeploys) /\ (OnlyResets' <=> OnlyResets)
        /\ (Disturbed' <=> Disturbed)
    BY <1>1, <1>6, <1>10, <2>1 DEF Wanted, OnlyDeploys, OnlyResets, Disturbed
  <2>3. \A x \in Slots : asked[x] \in Configs \cup {Nothing} => Left(x)' = Left(x)
    BY <1>6, <1>10, <2>1
  <2>4. DeployInv' /\ ResetInv'
    BY <1>1, <1>10, <2>2, <2>3 DEF FRPInv, DeployInv, ResetInv, Cleared
  <2>5. FreshInv'
    BY <1>1, <1>9, <1>10, <2>2 DEF FRPInv, FreshInv
  <2>6. StatusInv'
    BY <1>1, <1>7, <1>8, <1>10, <2>2 DEF FRPInv, StatusInv
  <2> QED BY <1>4, <1>5, <2>4, <2>5, <2>6 DEF FRPInv
<1>11. CASE ~(asked[r] = Inspect /\ told' = told)
  <2>1. told' \cap {Odd, Failed} # {}
    BY <1>2, <1>11
  <2>2. ~OnlyDeploys' /\ ~OnlyResets'
    BY <2>1, FRPAssumption DEF OnlyDeploys, OnlyResets
  <2>3. Disturbed'
    <3>1. CASE Failed \in told'
      BY <3>1 DEF Disturbed
    <3>2. CASE asked[r] = Inspect /\ told' = told \cup {Odd} /\ Disturbed
      BY <1>1, <1>6, <3>2, FRPAssumption DEF Disturbed
    <3> QED BY <1>2, <1>11, <3>1, <3>2
  <2> QED BY <1>4, <1>5, <2>2, <2>3 DEF FRPInv, DeployInv, FreshInv, ResetInv, StatusInv
<1> QED BY <1>10, <1>11

\* Deploys want configs.
LEMMA WantedConfigs == ASSUME OnlyDeploys PROVE Wanted \subseteq Configs
BY DEF Wanted, OnlyDeploys

\* What systemd starts from a config runs this config.
LEMMA StartedConf == ASSUME conf \in Configs PROVE Started = conf /\ conf # Nothing
BY FRPAssumption DEF Started

\* The server may exit at any time.
LEMMA ExitKeeps ==
  ASSUME FRPInv, Exit
  PROVE  FRPInv'
<1>1. /\ running # Stopped
      /\ running' \in IF unit /\ conf # Nothing THEN {Started} ELSE {Started, Stopped}
      /\ UNCHANGED <<todo, asked, shown, dir, conf, unit, enabled, told, fresh, unstopped>>
  BY DEF Exit
<1>2. Started \in Configs \cup {Failing}
  BY DEF Started, FRPInv, TypeOK
<1>3. TypeOK'
  BY <1>1, <1>2 DEF FRPInv, TypeOK
<1>4. ScriptOK' /\ StatusInv'
  BY <1>1 DEF FRPInv, ScriptOK, StatusInv, Disturbed, Left
<1>5. /\ \A x \in Slots : Left(x)' = Left(x)
      /\ Wanted' = Wanted /\ (OnlyDeploys' <=> OnlyDeploys) /\ (OnlyResets' <=> OnlyResets)
      /\ (Quiet' <=> Quiet)
  BY <1>1 DEF Left, Wanted, OnlyDeploys, OnlyResets, Quiet
<1>6. OnlyDeploys /\ told # {} => running' = conf /\ conf \in Wanted /\ conf \in Configs
  BY <1>1, WantedConfigs, StartedConf DEF FRPInv, DeployInv
<1>7. DeployInv'
  BY <1>1, <1>5, <1>6 DEF FRPInv, DeployInv
<1>8. FreshInv'
  BY <1>1, <1>5, <1>6 DEF FRPInv, FreshInv
<1>9. ResetInv'
  BY <1>1, <1>5 DEF FRPInv, ResetInv, Cleared
<1> QED BY <1>3, <1>4, <1>7, <1>8, <1>9 DEF FRPInv

\* The host may start again at any time.
LEMMA RebootKeeps ==
  ASSUME FRPInv, Reboot
  PROVE  FRPInv'
<1>1. /\ todo' = [r \in Slots |-> <<>>] /\ shown' = [r \in Slots |-> FALSE]
      /\ told' = IF Quiet THEN told ELSE told \cup {Failed}
      /\ running' = IF enabled /\ unit THEN Started ELSE Stopped
      /\ unstopped' = FALSE
      /\ UNCHANGED <<asked, dir, conf, unit, enabled, fresh>>
  BY DEF Reboot
<1>2. Started \in Configs \cup {Failing}
  BY DEF Started, FRPInv, TypeOK
<1>3. TypeOK'
  <2>1. todo' \in [Slots -> Seq(Commands)] /\ shown' \in [Slots -> BOOLEAN]
    BY <1>1, Empty
  <2>2. told' \subseteq Configs \cup {Nothing, Failed, Odd}
    BY <1>1 DEF FRPInv, TypeOK
  <2>3. running' \in Configs \cup {Stopped, Failing}
    BY <1>1, <1>2
  <2> QED BY <1>1, <2>1, <2>2, <2>3 DEF FRPInv, TypeOK
<1>4. ScriptOK'
  BY <1>1, Empty DEF ScriptOK
<1>5. \A x \in Slots : Left(x)' = 0 /\ todo'[x] # <<"exists">>
  BY <1>1, Empty DEF Left
<1>6. CASE Quiet
  <2>1. told' = told /\ \A x \in Slots : Left(x) = 0
    BY <1>1, <1>6, LeftFacts DEF FRPInv
  <2>2. Wanted' = told' /\ Wanted = told
    BY <1>5, <2>1 DEF Wanted
  <2>3. (OnlyDeploys' <=> OnlyDeploys) /\ (OnlyResets' <=> OnlyResets) /\ (Disturbed' <=> Disturbed)
    BY <1>5, <2>1 DEF OnlyDeploys, OnlyResets, Disturbed
  <2>4. OnlyDeploys /\ told # {} => dir /\ unit /\ enabled /\ running' = conf /\ conf \in Wanted /\ conf \in Configs
    BY <1>1, WantedConfigs, StartedConf DEF FRPInv, DeployInv
  <2>5. DeployInv'
    BY <1>1, <1>5, <2>1, <2>2, <2>3, <2>4 DEF DeployInv
  <2>6. Quiet'
    BY <1>1 DEF Quiet
  <2>7. FreshInv'
    BY <2>1, <2>2, <2>3, <2>4, <2>6 DEF FreshInv
  <2>8. ResetInv'
    BY <1>1, <1>5, <2>1, <2>3 DEF FRPInv, ResetInv, Cleared
  <2>9. StatusInv'
    BY <1>5, <2>1, <2>3 DEF FRPInv, StatusInv
  <2> QED BY <1>3, <1>4, <2>5, <2>7, <2>8, <2>9 DEF FRPInv
<1>7. CASE ~Quiet
  <2>1. Failed \in told'
    BY <1>1, <1>7
  <2>2. ~OnlyDeploys' /\ ~OnlyResets' /\ Disturbed'
    BY <2>1, FRPAssumption DEF OnlyDeploys, OnlyResets, Disturbed
  <2> QED BY <1>3, <1>4, <2>2 DEF FRPInv, DeployInv, FreshInv, ResetInv, StatusInv
<1> QED BY <1>6, <1>7

\* A host without the service.
LEMMA InitInv == Init => FRPInv
<1> SUFFICES ASSUME Init PROVE FRPInv
  OBVIOUS
<1>1. TypeOK
  BY Empty DEF Init, TypeOK
<1>2. ScriptOK
  BY Empty DEF Init, ScriptOK
<1>3. \A r \in Slots : Left(r) = 0 /\ todo[r] # <<"exists">>
  BY Empty DEF Init, Left
<1>4. Quiet /\ told = {}
  BY DEF Init, Quiet
<1>5. DeployInv /\ FreshInv /\ ResetInv /\ StatusInv
  BY <1>3, <1>4 DEF DeployInv, FreshInv, ResetInv, StatusInv
<1> QED BY <1>1, <1>2, <1>5 DEF FRPInv

\* A step of nobody.
LEMMA StutterKeeps == ASSUME FRPInv, UNCHANGED frpVars PROVE FRPInv'
BY DEF frpVars, host, FRPInv, TypeOK, ScriptOK, DeployInv, FreshInv, ResetInv, StatusInv, OnlyDeploys,
   OnlyResets, Disturbed, Wanted, Cleared, Quiet, Left

\* One case for each action.
LEMMA NextKeeps == FRPInv /\ [Next]_frpVars => FRPInv'
<1> SUFFICES ASSUME FRPInv, [Next]_frpVars PROVE FRPInv'
  OBVIOUS
<1>1. ASSUME NEW r \in Slots, Deploy(r) \/ Reset(r) \/ Status(r) PROVE FRPInv'
  BY <1>1, BeginKeeps DEF Deploy, Reset, Status
<1>2. ASSUME NEW r \in Slots, Step(r) PROVE FRPInv'
  <2>1. CASE Show(r)
    BY <2>1, ShowKeeps
  <2>2. CASE Exists(r)
    BY <2>2, EndKeeps
  <2>3. CASE ~Show(r) /\ ~Exists(r)
    <3>1. PICK name : Runs(r, name)
      BY <1>2, <2>3 DEF Step, Runs
    <3> QED BY <3>1, RunsKeeps
  <2> QED BY <2>1, <2>2, <2>3
<1>3. ASSUME NEW r \in Slots, Abort(r) PROVE FRPInv'
  BY <1>3, EndKeeps
<1>4. CASE Exit
  BY <1>4, ExitKeeps
<1>5. CASE Reboot
  BY <1>5, RebootKeeps
<1>6. CASE UNCHANGED frpVars
  BY <1>6, StutterKeeps
<1> QED BY <1>1, <1>2, <1>3, <1>4, <1>5, <1>6 DEF Next

-----------------------------------------------------------------------------
(* The theorems.                                                           *)

\* What deploys, resets and status requests rely on of each other and of the
\* host holds in every reachable state, whatever fails and whenever the host
\* is started again.
THEOREM FRPInvariance == Spec => []FRPInv
BY InitInv, NextKeeps, PTL DEF Spec

\* Deploys that overlap and all report success leave a server that comes up
\* with the config of one of them (frps.go:127-153).
THEOREM DeployComesUp == Spec => []DeployedComesUp
<1>1. FRPInv => DeployedComesUp
  <2> SUFFICES ASSUME FRPInv, Quiet, told # {}, told \subseteq Configs
               PROVE  \E c \in told : Deployed(c)
    BY DEF DeployedComesUp
  <2>1. \A r \in Slots : Left(r) = 0
    BY LeftFacts DEF FRPInv
  <2>2. OnlyDeploys /\ Wanted = told
    BY <2>1 DEF OnlyDeploys, Wanted
  <2> QED BY <2>2 DEF FRPInv, DeployInv, Deployed
<1> QED BY <1>1, FRPInvariance, PTL

\* Deploys that overlap, that all report success and that found no server
\* running have started one of what they were asked for (frps.go:151-152).
THEOREM FreshRuns == Spec => []FreshDeployRuns
<1>1. FRPInv => FreshDeployRuns
  <2> SUFFICES ASSUME FRPInv, Quiet, told # {}, told \subseteq Configs, fresh
               PROVE  running \in told
    BY DEF FreshDeployRuns
  <2>1. \A r \in Slots : Left(r) = 0
    BY LeftFacts DEF FRPInv
  <2>2. OnlyDeploys /\ Wanted = told
    BY <2>1 DEF OnlyDeploys, Wanted
  <2>3. running \in Configs
    BY <2>2 DEF FRPInv, DeployInv
  <2> QED BY <2>2, <2>3, FRPAssumption DEF FRPInv, FreshInv
<1> QED BY <1>1, FRPInvariance, PTL

\* Resets that overlap and all report success leave nothing that could start
\* the server, and leave it running only if the last of their stops failed and
\* the host has not started again since (frps.go:308-314).
THEOREM ResetClearsAll == Spec => []ResetLeavesNothing
<1>1. FRPInv => ResetLeavesNothing
  <2> SUFFICES ASSUME FRPInv, Quiet, told = {Nothing}
               PROVE  Cleared /\ (running = Stopped \/ unstopped)
    BY DEF ResetLeavesNothing
  <2>1. \A r \in Slots : Left(r) = 0
    BY LeftFacts DEF FRPInv
  <2>2. OnlyResets
    BY <2>1 DEF OnlyResets
  <2> QED BY <2>2 DEF FRPInv, ResetInv
<1> QED BY <1>1, FRPInvariance, PTL

\* A status contradicts itself only beside a reset or a failure
\* (frps.go:180-198).
THEOREM OddStatus == Spec => []OddMeansReset
<1>1. FRPInv => OddMeansReset
  BY LeftFacts DEF FRPInv, StatusInv, Disturbed, OddMeansReset
<1> QED BY <1>1, FRPInvariance, PTL
=============================================================================
