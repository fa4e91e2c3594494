------------------------------ MODULE PublicIP ------------------------------
(***************************************************************************)
(* The public address of the host as the status requests of FRPS see it    *)
(* (internal/ops/frps.go:17-44, 171-250): one cached address with the time *)
(* it was found, under a mutex that is kept while the address is looked    *)
(* up, by a script that the request's timeout ends.                        *)
(*                                                                         *)
(* Time is discrete.  What a goroutine does without waiting takes none,    *)
(* and the mutex goes to those who wait for it in their order, as Go's     *)
(* does to goroutines that have waited for a millisecond.  Requests to     *)
(* /v1/vps/public-ip, which look the address up past cache and mutex, are  *)
(* left out: they change nothing.                                          *)
(***************************************************************************)
EXTENDS Naturals, Sequences, FiniteSets, SequencesExt

CONSTANTS
  Callers,  \* status requests
  Addrs,    \* public addresses
  None,     \* no address
  TTL,      \* publicIPCacheTTL, in ticks
  Timeout   \* the longest time that a lookup really takes, in ticks: RunShell
            \* ends bash alone when the request's time is up, and waits for
            \* the curl that it runs

ASSUME PublicIPAssumption ==
  /\ None \notin Addrs
  /\ TTL \in Nat \ {0} /\ Timeout \in Nat \ {0}
  /\ IsFiniteSet(Callers)

\* Times are counted up to here, or to the limit of a wait.
Horizon == TTL + Timeout
WaitLimit == Cardinality(Callers) * Timeout

VARIABLES
  addr,     \* the address that the host has
  since,    \* the time since it got it, up to Horizon
  cached,   \* cachedPublicIP
  age,      \* the time since cachedPublicIPTime, up to TTL
  queue,    \* who waits for the mutex; if there is a lookup, its head has it
  looking,  \* whether there is a lookup
  found,    \* the address that the lookup has been answered; None before
  spent,    \* the time that the lookup has taken
  waited,   \* the time that a caller has waited, up to WaitLimit + 1
  got       \* what a caller was told last, None when its lookup failed

cache == <<cached, age>>
lookup == <<looking, found, spent>>
piVars == <<addr, since, cache, queue, lookup, waited, got>>

TypeOK ==
  /\ addr \in Addrs /\ since \in 0..Horizon
  /\ cached \in Addrs \cup {None} /\ age \in 0..TTL
  /\ queue \in Seq(Callers)
  /\ looking \in BOOLEAN /\ found \in Addrs \cup {None}
  /\ spent \in 0..Timeout
  /\ waited \in [Callers -> 0..(WaitLimit + 1)]
  /\ got \in [Callers -> Addrs \cup {None}]

Init ==
  /\ addr \in Addrs /\ since = Horizon
  /\ cached = None /\ age = TTL
  /\ queue = <<>> /\ looking = FALSE /\ found = None /\ spent = 0
  /\ waited = [c \in Callers |-> 0] /\ got = [c \in Callers |-> None]

-----------------------------------------------------------------------------
Fresh == cached # None /\ age < TTL

\* The script of the status has run, and the lock is asked for.
Ask(c) ==
  /\ c \notin ToSet(queue)
  /\ queue' = Append(queue, c)
  /\ waited' = [waited EXCEPT ![c] = 0]
  /\ UNCHANGED <<addr, since, cache, lookup, got>>

\* The caller that has the mutex releases it and returns a.
Return(a) ==
  /\ queue' = Tail(queue)
  /\ got' = [got EXCEPT ![Head(queue)] = a]

\* A cached address that is not too old is returned.
Hit ==
  /\ queue # <<>> /\ ~looking
  /\ Fresh
  /\ Return(cached)
  /\ UNCHANGED <<addr, since, cache, lookup, waited>>

\* Fault: the lock has been waited for after the look at the cache.
BugMiss ==
  /\ queue # <<>> /\ ~looking
  /\ looking' = TRUE /\ found' = None /\ spent' = 0
  /\ UNCHANGED <<addr, since, cache, queue, waited, got>>

Miss ==
  /\ queue # <<>> /\ ~looking
  /\ ~Fresh
  /\ looking' = TRUE /\ found' = None /\ spent' = 0
  /\ UNCHANGED <<addr, since, cache, queue, waited, got>>

\* A provider answers.
Answer ==
  /\ looking /\ found = None
  /\ found' = addr
  /\ UNCHANGED <<addr, since, cache, queue, looking, spent, waited, got>>

EndLookup ==
  /\ looking
  /\ looking' = FALSE /\ found' = None /\ spent' = 0

\* The address is kept, as found now.
Keep ==
  /\ EndLookup
  /\ found # None
  /\ Return(found)
  /\ cached' = found /\ age' = 0
  /\ UNCHANGED <<addr, since, waited>>

\* Fault: a lookup that fails makes the cached address last.
BugFail ==
  /\ EndLookup
  /\ Return(cached)
  /\ age' = 0
  /\ UNCHANGED <<addr, since, cached, waited>>

\* The lookup fails: the cache stays as it is, and the status tells of an
\* error instead of an address.
Fail ==
  /\ EndLookup
  /\ Return(None)
  /\ UNCHANGED <<addr, since, cache, waited>>

-----------------------------------------------------------------------------
\* The host gets another address.
Move ==
  /\ addr' \in Addrs \ {addr}
  /\ since' = 0
  /\ UNCHANGED <<cache, queue, lookup, waited, got>>

UpTo(limit, n) == IF n < limit THEN n + 1 ELSE limit

Pass ==
  /\ since' = UpTo(Horizon, since)
  /\ age' = UpTo(TTL, age)
  /\ waited' = [c \in Callers |-> IF c \in ToSet(queue) THEN UpTo(WaitLimit + 1, waited[c]) ELSE 0]
  /\ UNCHANGED <<addr, cached, queue, looking, found, got>>

\* Fault: nothing ends a lookup.
BugTick ==
  /\ queue # <<>> => looking
  /\ spent' = IF looking THEN spent + 1 ELSE 0
  /\ Pass

\* A tick: the mutex is not free while a caller waits for it, and a lookup
\* ends in time.
Tick ==
  /\ queue # <<>> => looking
  /\ spent < Timeout
  /\ spent' = IF looking THEN spent + 1 ELSE 0
  /\ Pass

Next ==
  \/ \E c \in Callers : Ask(c)
  \/ Hit \/ Miss \/ Answer \/ Keep \/ Fail
  \/ Move \/ Tick

Spec == Init /\ [][Next]_piVars

-----------------------------------------------------------------------------
\* Callers that have waited for a lookup that succeeded do not repeat it:
\* there is no lookup while the cached address is good (frps.go:29-31).
NoNeedlessLookup == looking => ~Fresh

\* Lookups come one after the other, and each of them may fail: a status
\* request waits no longer than the time of one lookup for every request that
\* is there, its own included (frps.go:25-33).
WaitIsBounded == \A c \in Callers : waited[c] <= WaitLimit

\* An address that a status request is told is that of the host, or was until
\* less than the life of the cache and the time of a lookup ago: the stamp
\* is set when the lookup ends, and a failed lookup does not renew it.
ToldIsRecent ==
  [][\A c \in ToSet(queue) \ ToSet(queue') :
       got'[c] \in {None, addr} \/ since < Horizon]_piVars

-----------------------------------------------------------------------------
\* The invariant behind it.  An address is the host's, or was n ticks ago.
Recent(a, n) == a = addr \/ since <= n

HolderOK == looking => queue # <<>>
FoundOK == found # None => looking /\ Recent(found, spent)
CachedOK == Fresh => Recent(cached, age + Timeout)

IPInv == TypeOK /\ HolderOK /\ FoundOK /\ CachedOK /\ NoNeedlessLookup
=============================================================================
