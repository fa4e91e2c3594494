------------------------------ MODULE Startup ------------------------------
(***************************************************************************)
(* How the program comes up (internal/config/config.go, cmd/chawrtd/       *)
(* main.go): the configuration is put together from defaults, at most one  *)
(* TOML file and the environment; then the alias store is opened, the TLS  *)
(* settings are looked at, and the server listens.                         *)
(*                                                                         *)
(* Of a TLS setting only counts whether there is one.  Address, token and  *)
(* alias file are chosen like them, cannot be wrong, and are left out.     *)
(* Durations are 64-bit counts of nanoseconds, scaled down: numbers are    *)
(* from -Half to Half - 1 and wrap around, and a second is Second of them. *)
(***************************************************************************)
EXTENDS Integers

CONSTANTS
  Half,     \* half the number of integers
  Second,   \* time.Second
  Seconds,  \* numbers of seconds that the file or the environment may give
  Default   \* the number of seconds when neither does

ASSUME StartupAssumption ==
  /\ Half \in Nat /\ Second \in Nat \ {0}
  /\ Default \in Nat \ {0} /\ Default * Second < Half
  /\ Seconds \subseteq (-Half)..(Half - 1)

VARIABLES
  stage,  \* where main has got to
  cfg,    \* config.Load()
  secs    \* history: the number of seconds behind cfg.timeout

suVars == <<stage, cfg, secs>>

Wrap(n) == ((n + Half) % (2 * Half)) - Half

Defaults == [cert |-> FALSE, key |-> FALSE, timeout |-> Default * Second]

SUInit == stage = "load" /\ cfg = Defaults /\ secs = Default

-----------------------------------------------------------------------------
\* The file of CHAWRTD_CONFIG_FILE, there or not, or else the first one that
\* is there.
Chosen(named, there) ==
  IF named THEN {"explicit"}
  ELSE IF "here" \in there THEN {"here"} ELSE {"etc"} \cap there

\* What a file says.  s: its seconds, 0 if none; with: its other settings.
FromFile(s, with) ==
  [cert    |-> "cert" \in with,
   key     |-> "key" \in with,
   timeout |-> Wrap((IF s > 0 THEN s ELSE Default) * Second)]

\* Fault: the sign is not looked at.
BugOverride(c, s, with) ==
  [cert    |-> c.cert \/ "cert" \in with,
   key     |-> c.key \/ "key" \in with,
   timeout |-> IF s # 0 THEN Wrap(s * Second) ELSE c.timeout]

\* The environment adds to what c has, and overrules it.
Override(c, s, with) ==
  [cert    |-> c.cert \/ "cert" \in with,
   key     |-> c.key \/ "key" \in with,
   timeout |-> IF s > 0 THEN Wrap(s * Second) ELSE c.timeout]

\* A file that cannot be read or parsed gives as little as none.
Load ==
  /\ stage = "load"
  /\ stage' = "store"
  /\ \E named, readable \in BOOLEAN, there \in SUBSET {"explicit", "here", "etc"},
        fs, es \in Seconds \cup {0}, fw, ew \in SUBSET {"cert", "key"} :
       LET used == readable /\ Chosen(named, there) \cap there # {}
       IN  /\ cfg' = Override(IF used THEN FromFile(fs, fw) ELSE Defaults, es, ew)
           /\ secs' = IF es > 0 THEN es ELSE IF used /\ fs > 0 THEN fs ELSE Default

\* InitializeAliasStore: without a file the store is empty; one that cannot
\* be read ends the program (see AliasStore).
OpenStore ==
  /\ stage = "store"
  /\ stage' \in {"tls", "fatal"}
  /\ UNCHANGED <<cfg, secs>>

TLSConfigured == cfg.cert /\ cfg.key

CheckTLS ==
  /\ stage = "tls"
  /\ stage' = IF cfg.cert # cfg.key THEN "fatal" ELSE "serve"
  /\ UNCHANGED <<cfg, secs>>

\* The address is taken, the certificate is no good, or Accept fails.
StopListening ==
  /\ stage = "serve"
  /\ stage' = "fatal"
  /\ UNCHANGED <<cfg, secs>>

Boot == Load \/ OpenStore \/ CheckTLS

-----------------------------------------------------------------------------
\* A server that serves does so with the settings that it was given.  When it
\* was given one of the two TLS files, in whichever place, it serves with TLS;
\* its timeout is the number of seconds that was asked for, and positive, up to
\* the largest that a time.Duration holds, and beyond it anything
\* (main.go:59-83, config.go:49-71, 108-132).  (Of a file that could not be
\* read nothing counts.)
ServesAsAsked ==
  stage = "serve" =>
    /\ cfg.cert \/ cfg.key => TLSConfigured
    /\ secs * Second < Half => cfg.timeout = secs * Second /\ cfg.timeout > 0
=============================================================================
