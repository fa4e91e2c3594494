----------------------------- MODULE AliasStore -----------------------------
(***************************************************************************)
(* The alias store of internal/ws/aliases.go: a map from devices to        *)
(* aliases under a read-write lock, and the JSON file that is rewritten    *)
(* after every change.  The map changes under the write lock; the lock is  *)
(* then released, and the whole map is written to the file under the read  *)
(* lock, so that other calls come in between and writers of the file       *)
(* overlap.  os.WriteFile first truncates the file and then writes it.     *)
(*                                                                         *)
(* A slot is a goroutine that makes one call of the store after another.   *)
(* An alias is a name, or the number n of an alias that reads WiFin in any *)
(* case.  The process may crash at any point and be started again.         *)
(***************************************************************************)
EXTENDS Naturals, FiniteSets, FiniteSetsExt

CONSTANTS
  Devices,    \* device ids
  Slots,      \* goroutines that use the store
  Names,      \* aliases an operator chooses that do not read WiFi<n>
  Numbers,    \* the n of the aliases WiFi<n> that an operator chooses
  NoAlias,    \* the empty alias, and the alias of a device that has none
  Wrapped,    \* "WiFi-9223372036854775808"
  Torn,       \* the content of a file that has been truncated
  IntMax      \* bound: the largest int

ASSUME StoreAssumption ==
  /\ NoAlias \notin Names \cup Nat \cup {Wrapped}
  /\ Wrapped \notin Names \cup Nat
  /\ Numbers \subseteq 1..IntMax /\ IntMax \in Nat

Alias == Names \cup (1..IntMax) \cup {NoAlias, Wrapped}
Books == [Devices -> Alias]
Empty == [d \in Devices |-> NoAlias]

ASSUME TornAssumption == Torn \notin Books

VARIABLES
  aliases,  \* s.aliases
  file,     \* what s.filePath holds; a file that does not exist holds Empty
  pc,       \* what a slot does next: "idle", "persist" or "write"
  data,     \* the map that a slot has marshalled and is writing
  up,       \* the process: "up", "down", or "refused" when it cannot start
  unsaved,  \* history: a write has failed, and none has succeeded since
  lost,     \* history: the process has died while the file lacked a change
  given     \* history: the alias that a device has been given, until an
            \* operator changes it

storeVars == <<aliases, file, pc, data, up, unsaved, lost, given>>

TypeOK ==
  /\ aliases \in Books
  /\ file \in Books \cup {Torn}
  /\ pc \in [Slots -> {"idle", "persist", "write"}]
  /\ data \in [Slots -> Books]
  /\ up \in {"up", "down", "refused"}
  /\ {unsaved, lost} \subseteq BOOLEAN
  /\ given \in Books

Init ==
  /\ aliases = Empty
  /\ file = Empty
  /\ pc = [o \in Slots |-> "idle"]
  /\ data = [o \in Slots |-> Empty]
  /\ up = "up"
  /\ unsaved = FALSE /\ lost = FALSE
  /\ given = Empty

-----------------------------------------------------------------------------
\* A map with one entry changed; deleting an entry leaves no alias.
Put(book, d, a) == [book EXCEPT ![d] = a]

\* nextAutoAliasNumberLocked: the largest number in use.
Largest == Max({0} \cup {aliases[d] : d \in {x \in Devices : aliases[x] \in 1..IntMax}})

\* Fault: the first number that looks free is the count of the aliases.
BugNextAlias == Cardinality({d \in Devices : aliases[d] # NoAlias}) + 1

\* The number after the largest one; the addition of ints wraps around, and
\* the name that Sprintf makes of a negative number is not read as WiFi<n>.
NextAlias == IF Largest = IntMax THEN Wrapped ELSE Largest + 1

\* Fault: the file is written without the lock.
BugUnread == TRUE

\* s.mu.Lock() waits until nobody writes the file.
Unread == \A o \in Slots : pc[o] # "write"

Starts(o) == up = "up" /\ pc[o] = "idle"

\* Set and Delete: the map is changed; persist follows outside the lock.
Change(o, d, a) ==
  /\ Starts(o)
  /\ Unread
  /\ aliases' = Put(aliases, d, a)
  /\ pc' = [pc EXCEPT ![o] = "persist"]
  /\ given' = Put(given, d, NoAlias)
  /\ UNCHANGED <<file, data, up, unsaved, lost>>

Set(o, d) == \E a \in Names \cup Numbers : Change(o, d, a)

Delete(o, d) == Change(o, d, NoAlias)

\* A new alias for d, which is saved before the device is told.
MakeAlias(o, d) ==
  /\ aliases' = Put(aliases, d, NextAlias)
  /\ given' = Put(given, d, NextAlias)
  /\ pc' = [pc EXCEPT ![o] = "persist"]

\* Fault: the alias that the device has is not looked at.
BugEnsureAutoAlias(o, d) ==
  /\ Starts(o)
  /\ Unread
  /\ MakeAlias(o, d)
  /\ UNCHANGED <<file, data, up, unsaved, lost>>

\* EnsureAutoAlias: the alias that the device has, or a new one.
EnsureAutoAlias(o, d) ==
  /\ Starts(o)
  /\ Unread
  /\ \/ aliases[d] = NoAlias /\ MakeAlias(o, d)
     \/ /\ aliases[d] # NoAlias
        /\ given' = Put(given, d, aliases[d])
        /\ UNCHANGED <<aliases, pc>>
  /\ UNCHANGED <<file, data, up, unsaved, lost>>

\* persist: the map is marshalled under the read lock, which is kept until
\* the file is written, and the file is truncated.
Truncate(o) ==
  /\ up = "up"
  /\ pc[o] = "persist"
  /\ data' = [data EXCEPT ![o] = aliases]
  /\ file' = Torn
  /\ pc' = [pc EXCEPT ![o] = "write"]
  /\ UNCHANGED <<aliases, up, unsaved, lost, given>>

Returns(o) ==
  /\ pc' = [pc EXCEPT ![o] = "idle"]
  /\ data' = [data EXCEPT ![o] = Empty]

\* The content is written and the call returns.
Write(o) ==
  /\ up = "up"
  /\ pc[o] = "write"
  /\ file' = data[o]
  /\ unsaved' = FALSE
  /\ Returns(o)
  /\ UNCHANGED <<aliases, up, lost, given>>

\* The file cannot be opened, or not be written to the end: the call returns
\* the error.  The map keeps the change.
Fail(o) ==
  /\ up = "up"
  /\ pc[o] \in {"persist", "write"}
  /\ unsaved' = TRUE
  /\ Returns(o)
  /\ UNCHANGED <<aliases, file, up, lost, given>>

Crash ==
  /\ up = "up"
  /\ up' = "down"
  /\ lost' = (lost \/ file # aliases)
  /\ aliases' = Empty
  /\ pc' = [o \in Slots |-> "idle"]
  /\ data' = [o \in Slots |-> Empty]
  /\ UNCHANGED <<file, unsaved, given>>

\* NewAliasStore: a file that does not parse is an error, on which main gives
\* up.
Restart ==
  /\ up = "down"
  /\ \/ file = Torn /\ up' = "refused" /\ UNCHANGED <<aliases, unsaved>>
     \/ file # Torn /\ up' = "up" /\ aliases' = file /\ unsaved' = FALSE
  /\ UNCHANGED <<file, pc, data, lost, given>>

Next ==
  \/ \E o \in Slots, d \in Devices : Set(o, d) \/ Delete(o, d) \/ EnsureAutoAlias(o, d)
  \/ \E o \in Slots : Truncate(o) \/ Write(o) \/ Fail(o)
  \/ Crash
  \/ Restart

Spec == Init /\ [][Next]_storeVars

-----------------------------------------------------------------------------
(* Safety.                                                                 *)

\* Whatever complete content the file gets is the map of that very moment: of
\* calls that overlap, none writes an older map over a newer one, although
\* each one releases the lock between its change and its write
\* (aliases.go:52-65, 136-146).
WholeFileIsMemory ==
  [][file' # file /\ file' # Torn => file' = aliases']_storeVars

\* Whenever no call is under way, the file holds the map, unless the last
\* thing that happened to it was a failed write: a later call repairs it.
QuietFileIsMemory ==
  up = "up" /\ ~unsaved /\ (\A o \in Slots : pc[o] = "idle") => file = aliases

\* Below the largest int, an automatic alias is one that no other device has,
\* whatever operators have named their devices (aliases.go:79, 98-115).
AutoAliasIsNew ==
  [][\A o \in Slots, d \in Devices :
       EnsureAutoAlias(o, d) /\ aliases' # aliases /\ Largest < IntMax =>
         \A x \in Devices \ {d} : aliases[x] # aliases'[d]]_storeVars

\* "Existing aliases are reused on reconnect" (README.md:67), also after the
\* program was started again: a device that no operator has renamed is never
\* given another alias, unless the program died before a change was saved.
ReusedOnReconnect ==
  [][\A d \in Devices :
       given[d] # NoAlias /\ given'[d] \notin {NoAlias, given[d]} => lost]_storeVars
=============================================================================
