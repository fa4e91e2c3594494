# A TLA+ model of chawrtd

`chawrtd` is a Go daemon that sits between `openclaw-wrt` (HTTP) and a fleet of
routers, the *devices*, each of which keeps a WebSocket connection to it. It
forwards commands to devices and waits for their answers, streams the devices'
events to HTTP clients, keeps an alias for every device, and deploys an FRP
server and a WireGuard server on its own host by running shell scripts.

This directory holds TLA+ modules of its parts, configurations that check them
with TLC, and proofs that TLAPS checks. Source lines below are relative to
`src/internal/` unless they name another directory.

## The system

| Part | Source | State | Operations |
|---|---|---|---|
| Device manager | `ws/manager.go`, `ws/types.go` | `sessions` (device to session), `pending` (device to requests that wait), both under one lock; per request a channel of capacity one and a timer | connect, displace, read loop, clean-up; `SendCommand`, `SendCommandNoWait`; answers |
| Connections | `ws/manager.go:284, 442-456, 754-770` | the mutex of a connection | `SendJSON`, `Close`; writes and closes past the mutex |
| Keepalive | `ws/manager.go:297-332` | read deadline, ticker, the pinger's goroutine | ping, pong, time-out |
| Alias store | `ws/aliases.go` | a map under a read-write lock, a JSON file | `Set`, `Delete`, `EnsureAutoAlias`, `persist`, `load` |
| Aliases of sessions | `ws/manager.go:121-180, 236-276` | a copy of the alias in every session | `SetAlias`, `DeleteAlias`, connect |
| Events | `ws/events.go`, `httpapi/server.go:327-403` | listeners, the registered streams, a channel of 32 events per stream | `Subscribe`, `SubscribeAll`, `Emit`, `forwardEventToStreams`, `handleEventsStream` |
| FRP server | `ops/frps.go`, `ops/exec.go` | files and a systemd unit of the host | deploy, reset, status, verify |
| Public address | `ops/frps.go:16-44`, `ops/wireguard.go:379-417` | one address with its time, under a mutex | look-up through the cache |
| WireGuard server | `ops/wireguard.go`, `ops/exec.go` | key files, `wg0.conf`, unit, interface, iptables | deploy, reset, status, verify |
| HTTP API | `httpapi/server.go` | none of its own but the streams | routing, envelopes |
| Configuration, start-up | `config/config.go`, `src/cmd/chawrtd/main.go` | none after start-up | load, shut down |

How they interact:

- Every connection has a handler goroutine. It registers a session, reads
  messages, and cleans up at the end. A second connection of a device displaces
  the first one: it replaces the session and closes the old socket, whose
  handler notices at its next read.
- Every HTTP command runs `SendCommand` in a goroutine of its own. It looks the
  session up under the lock, releases the lock, arms a timer, takes the lock
  again to register the request, writes the frame, and waits on a channel. The
  channel is answered by whichever comes first of the device's handler (an
  answer), the clean-up of a lost device (the drain) and the timer.
- A connecting device gets its alias from the store, which makes one when it
  has none, before its session is registered.
- A message that is not an answer is emitted by the handler of the device: in
  that goroutine the HTTP server offers it to the channel of every stream.
- FRP and WireGuard scripts run one `bash` per HTTP request, with `set -e` and a
  timeout. Nothing keeps two of them apart, and nothing undoes half a script.

What is hard: the three racing ends of a request; state that is looked up under
the lock and used after it; a displaced handler that cleans up after its
successor; the alias map that is changed under one lock and saved under
another; the process dying while it writes; slow stream clients; scripts that
stop half-way or overlap. `PROJECT.json` lists each of these hazards with its
line and the properties that are about it.

What makes each part correct:

- *Manager*: no double close of a channel; everyone who waits can be woken; a
  loss of the device answers all that is pending; answers belong to the request
  and the device asked; nothing is left behind; a displaced handler spares its successor.
- *Keepalive*: who answers is kept, who does not is cut off.
- *Aliases*: file and memory agree; automatic aliases are new and stay; the
  session shows what the store has.
- *Events*: order kept, gaps allowed, no waiting for a client.
- *Connections*: no two frames at once; nobody waits for ever for the mutex.
- *HTTP API and start-up*: what is refused has changed nothing, what is answered
  200 is done; settings are used whole.
- *Public address*: recent, and waited for no longer than the look-ups take.
- *Deployments*: success means that the host is in the state that was asked for
  and comes back to it after a reboot, except for what the scripts pass over; a
  failed script can be made good by the next one.

## The modules

| Module | What it is | Proofs |
|---|---|---|
| `Manager` | connections, sessions, requests, timers | `ManagerProofs` |
| `Calls` | what the manager promises its callers, without any of that | `ManagerProofs` (Manager implements Calls) |
| `Keepalive` | one connection in discrete time | `ConnectionProofs` |
| `AliasStore` | map and file, failing writes, crashes, restarts | `AliasStoreProofs` |
| `SessionAlias` | store and sessions together; the store as one step | `SessionAliasProofs` |
| `ConnWrite` | the writers of the connections of one device | `ConnectionProofs` |
| `Broadcaster` | lists of listeners, and the copy that `Emit` makes of them | `ServerProofs` |
| `EventStream` | `Broadcaster` composed with the streams: from the handler of a device to the client | `ServerProofs` |
| `PublicIP` | the cached address, its mutex and the look-up, in discrete time | `PublicIPProofs` |
| `FRPService` | deploy, reset and status scripts, systemd | `FRPProofs` |
| `WireGuardService` | deploy and reset scripts, the check of the keys, wg-quick, iptables | `WireGuardProofs` |
| `Startup` | configuration, alias store, TLS, listening | `ServerProofs` |
| `HTTPServer` | `Startup` composed with the API: one request from its path to its status | `ServerProofs` |
| `MC...` | instances for TLC | |

The definitions named `Bug...` are faulty variants of the definition that
follows them. No specification uses them: each is there to be put in place of
the right one, to see that a property notices.

`ConnectionProofs` is about two views of one connection, and `ServerProofs` about the
two halves of `httpapi/server.go`. The names of the modules that they bring
together are kept apart by a prefix: `KAInit`, `KANext`, `KASpec` in `Keepalive`,
`APIInit`, `APINext`, `APISpec` in `HTTPServer`.

**Manager.** A step is what a goroutine does between two points where others
can interfere: one critical section of `m.mu`, one socket operation or one
channel operation. `hpc[c]` follows `handleConnection`: `connect` (the read of
the first message), `register`, `closeOld`, `loop`, `cleanup`, `closing`.
`cpc[k]` follows `SendCommand`: `arm` (the timer), `register`, `send`,
`unregister` (after a failed write), `wait`; or `post` for
`SendCommandNoWait`. A session is named by its connection. `ch[k]` is the
channel of capacity one; `broken` records what Go would punish with a panic. A
write succeeds or fails while the socket is open; it fails on a closed one. A
device may answer a request once its frame may be on the wire, several times,
late, and on a later connection. A reply carries the request that it answers and
the connection that it came in on, so that one given to another request, of the
same device or of another one, is seen (`RepliesAreOwn`). `Calls` is the abstract promise: a call is
turned away at once only when its device is absent, has one verdict, and is
decided at the very moment its device is lost. The mapping (`Verdict`, `Stage`)
counts what the channel holds from the moment the caller waits on it.

**Keepalive.** All times are constants, in one unit. A goroutine that can run
does so before time passes; what takes time is a write that a command holds up,
and the answer of a device. A pinger that cannot write for `WriteWait` ends
without telling the handler, as in lines 316-318. Pongs move the read deadline,
and nothing else does.

**AliasStore.** A slot is a goroutine: it changes the map (`Change`,
`MakeAlias`), and then persists in two steps, because `os.WriteFile` truncates
before it writes. The read lock held meanwhile is `Unread`: no change comes in
between, but other writers do. `Fail` may strike before or after the
truncation. `Crash` forgets everything but the file, `Restart` loads it or
refuses. The aliases `WiFi<n>` are the numbers themselves, with a largest one.

**SessionAlias.** Operators (`SetAlias`, `DeleteAlias`) and connections deal with
the store in one step and with the session in a later one, with everybody else
in between. A connection is both: it reads or makes the alias, then registers.

**ConnWrite.** A command owns `mu[c]` from `BeginWrite` to `EndWrite`; the handler
writes the connect response (`Respond`) and closes at its end (`Leave`) without it,
and `CloseOld` needs it. A write ends when the client takes data or the connection
is closed. Where two frames meet (`Mixed`), the library may panic: in the handler
that ends the process, in a command only its request (`net/http` recovers).

**Broadcaster, EventStream.** `Emit` copies the listeners, `Call` calls the next of
the copy. The listener of the streams copies the list of streams, `Offer` gives
the event to one stream after the other or drops it, `WriteEvent` takes one out
and writes it, `Close` forgets the stream. The handler reads on when it has called
everybody and offered the event to all. Nothing in the program subscribes besides
the streams; the listeners that come and go are what `ws/events.go` offers.

**PublicIP.** `queue` is who waits for the mutex, its head owning it during a
look-up. What needs no waiting takes no time; `Tick` is time passing while a
look-up is under way or nobody asks. `Timeout` is the longest that a look-up really
takes, which is more than the timeout of the request: `RunShell` then kills `bash`
alone and waits for the `curl` that it runs, which has 8 s of its own
(`ops/wireguard.go:386`, `ops/exec.go:18-24`).

**Startup, HTTPServer.** Settings are there or not; seconds are numbers that wrap
around like a `time.Duration`. A request is a record of what the code looks at:
route, method, what the body is worth, and for a device the pieces of the path
and the two switches that say whether to wait. `phase` goes from `check` over
`wait`, for a command that waits, to `done`. `effect` is what it has done so far: a
command sent, an alias changed, a script run. (A GET that upgrades to a WebSocket
registers a session besides; that is `Manager`'s.) A
message of the device is classified from its op, its `req_id`, its response code
and its error (`isResponseMessage`, `responseError`). What happens inside a
command, an alias change or a script is one step here and the subject of the other
modules.

**FRPService, WireGuardService.** One action per command of the scripts, `todo`
being the rest of a script. Any command may be the last one that runs
(`Abort`). systemd, wg-quick and the host (`Exit`, `Reboot`) are modelled from
what the scripts rely on: `enable --now` leaves an active unit alone, `wg-quick
down` reads the file as it is now, `PostDown` ends at the first rule that is
not there. A script has `set -e`, but a command that is followed by `|| true`, and one
in a pipeline of a shell without `pipefail`, may fail and the script goes on and
reports success: `Stop` and `Disable` of both resets, `EndRules` (a listing of the
rules that fails ends the loop, as if there were none) and `MakePrivate` (`tee`
fails, the private key file stays empty, the public one is written) have that
outcome. `unstopped` in `FRPService` and `ignored` in `WireGuardService` record what was
passed over, until it is made good, so that the properties can say what a success
means beside it. `rm -f` of the two key files is two steps. The last command of a
script may be followed by an error, because the time was up. `told` records what
the requests that have overlapped were told. The
status of FRPS reads the config and then whether it exists; the check of the
WireGuard keys reads one key in one shell and the other in a second one. `tangled`
marks a history in which two scripts have made keys at once, or one while they
were removed, and `mixed` one in which a deploy and a reset have overlapped: the
code keeps nothing in these cases, and the properties are stated outside them.
`lone` marks one in which there was a public key without its private key, or a key
was removed, which a check of the keys may take for a mismatch.

## The runs

| Run | Instance | What it shows |
|---|---|---|
| `manager_core` | 2 devices, 2 connections, 2 commands | the safety properties of `Manager`, its inductive invariant (types, wakers and displacement are parts of it), and that it implements `Calls` |
| `manager_live` | 1 device, 2 connections, 1 command | calls return (unless their timer fired too early), displaced handlers end |
| `manager_stuck` | 1 device | *violation*: a timer that fires before its request is registered leaves the caller waiting |
| `connwrite_writers` | 2 connections, 2 commands | frames meet only at the connect response; writes end and a reconnecting device is served, unless a client goes deaf before its handler's loop |
| `keepalive_prompt` | the program's times in units of 5 s, answers within 15 s | who answers is kept, a dead connection ends |
| `aliasstore_files` | 2 devices, 3 goroutines, numbers up to 3 | file and memory agree, aliases are new and stay, with failing writes and crashes |
| `sessionalias_agree` | 2 devices, 2 operators, 2 connections | what nothing overlapped agrees with the store |
| `eventstream_all` | 2 connections, 2 listeners, 1 stream, 2 places, 2 events | everybody is told once, order, no waiting for clients, queued events arrive |
| `publicip_cache` | 3 callers, 2 addresses, a cache of 3 ticks, look-ups of 2 | no needless look-up, bounded waiting, no stale address |
| `frpservice_overlap` | 2 requests at a time, 2 configs | deploys that report success leave what one of them wanted and run it if nothing ran; such resets leave no files and no unit, and a server only if its last stop failed unnoticed; a status is consistent but beside a reset or a failure |
| `wireguardservice_overlap` | 2 requests at a time, 1 peer set, 2 egress interfaces, 2 key pairs, two kinds of failures at a time that are passed over, but none beside an overlap of a deploy and a reset | keys match and are kept, reported mismatches are real; deploys and resets that report success leave what they say, but for what such a failure has left |
| `httpserver_api` | every configuration, every request, 2 devices | what a status promises, who may have an effect, what a refusal may have done, settings used as given |

Properties that a theorem states and another checked property implies, type
invariants above all, are left to the prover; every property that is checked has a
faulty variant of the code that makes it fail.

Why the bounds are enough. In `Manager` every race is between one connection and
its successor, and between one request and its timer, answer and drain; two of
everything let each pair meet, and a second device shows that they do not mix.
What is proved holds for any number. In `AliasStore` three goroutines let one
write between another's change and write, and a third change in between; the
largest number 3 is reached by two devices, so wrapping happens
(`AutoAliasIsNew` is stated below it). In `ConnWrite` a connection has one
predecessor, and two commands are enough for one to hold the mutex that the other
one or the handler waits for. Two places in a stream's channel and two events per
device make it full as well as half full. One stream is enough: what a stream does
depends on no other one, and that `Offer` to a full one does not keep the handler
is what `DeviceNeverBlocked` says of each; a second one would make the liveness
run too long. In `PublicIP` the third caller waits for two look-ups, and the times
are such that a cached address dies during one. In `WireGuardService` `MaxKeys = 2`
gives one new key pair after the first; the two egress interfaces already make two
settings, so that one peer set is enough, and a rule of each may be there at once,
although `MaxRules = 1` lets none be there twice. `MaxIgnored = 2`: two kinds of
failures may have been passed over and not been made good, however often each has
come. `OneTrouble` keeps such failures and an overlap of a deploy and a reset (`mixed`)
apart, which divides the states by four: most of them have both, and the
properties claim least of these. The proofs know none of these bounds. In `HTTPServer` integers are of 16 values and a second is 3 of them: of the
seconds some fit, some wrap to a negative and some to another positive timeout.

Symmetry is used for model values in runs without liveness. Deadlock is not
checked where the instance runs out of connections, commands or events, or
where the process has refused to start or the handler has returned.

**Fairness.** `Manager`: the Go scheduler runs every goroutine that can run
(`HandlerStep`, `CallStep`), timers fire, and a read on a socket that we have
closed fails. `CallStep` includes the write of a frame and the close of the old
connection; both may block on a client that takes nothing. `ConnWrite` says when
they end: in the loop the read deadline closes such a connection under the write
(`Keepalive`), before the loop nothing does. The liveness of `Manager` is therefore
that of clients that do not go deaf before the loop. In `ConnWrite` the ends of
writes are strongly fair (a client that takes data again and again takes all of
a frame), the rest weakly. Devices owe us
nothing: neither connecting nor answering nor leaving is fair. `EventStream`:
only the handler that forwards is fair; a write to a client may block for ever,
so that `QueuedIsWritten` takes the fairness of that one client as its
hypothesis. `Keepalive`: what the program and the clock do by themselves (`Run`);
silence, commands and displacement are free.

## The proofs

| Theorem | For all | Says |
|---|---|---|
| `ManagerProofs!Invariance`, and from it `TypeCorrect`, `NoPanic`, `WaitersCanWake`, `NothingLeftBehind`, `RepliesGenuine`, `DisplacedAreClosed`, `OwnerRemoves`, `OfflineFails` | devices, connections, commands | the safety properties of `manager_core`, types, wakers, displacement |
| `ManagerProofs!PromiseKept` | the same | `Manager` implements `Calls` |
| `ConnectionProofs!ResponseAlone`, `OwnersWrite`, `ConnTypes`, from `Ownership` | connections, commands | two frames meet only when one is the connect response; the mutex is its writer's |
| `ConnectionProofs!TypeCorrect` | all times | types |
| `ConnectionProofs!AnsweringKept`, `KeptInvariance` | times with `PingInterval + WriteWait + MaxAnswer < ReadWait` | a device that answers is not cut off while the pinger works |
| `AliasStoreProofs!WholeFile`, `QuietFile`, `Reused`, `AutoAlias`, `StoreTypes` | devices, goroutines, aliases | file and memory agree; aliases are new and stay |
| `SessionAliasProofs!Undisturbed`, `AgreementInvariant`, `AliasTypes` | devices, operators, connections | undisturbed sessions agree |
| `PublicIPProofs!Recency`, `NeedlessLookups`, `BoundedWaits`, `IPInvariance` | finitely many callers, addresses, times | no stale address is told, no needless look-up, no longer wait than the look-ups take: all that `publicip_cache` checks |
| `FRPProofs!DeployComesUp`, `FreshRuns`, `ResetClearsAll`, `OddStatus`, `FRPInvariance` | requests, configs | all that `frpservice_overlap` checks |
| `WireGuardProofs!MatchingKeys`, `ServedDeploys`, `ClearedByResets`, `RealMismatches`, `KeptKeys`, `WGInvariance` | requests, settings, keys, rules | all that `wireguardservice_overlap` checks |
| `ServerProofs!AllAreTold`, `Order`, `EndedStreams`, `StreamTypes`, `ESInvariance` | connections, listeners, streams, capacities, numbers of events | the safety properties of `eventstream_all` |
| `ServerProofs!Settings`, `SettingsInvariance` | sizes of integers and of a second, seconds in file and environment, the default | the settings that are served with |
| `ServerProofs!Refused`, `Fulfilled`, `APIInvariance` | devices, and the same | what a refusal may have changed, what a 200 means |

Assumptions: that the null values (`None`, `NoAlias`, `Torn`...) are not devices,
connections or aliases; that the values which stand for kinds of requests and
outcomes of WireGuard scripts differ from each other and from the settings
(`WGAssumption`); that `Conns`, which as the target of a subscription stands for
all devices, is no device (`BroadcasterAssumption`); that times are natural
numbers; that the default timeout fits into a duration; and that numbers of
aliases are at most the largest int. Each is a named `ASSUME` that TLC checks.

*Manager.* That no channel is closed twice is not inductive: one has to know that
a request in the table has an untouched channel (`PendingOK`), that who touches
a channel has stopped or used up its timer (`ChannelOK`, `TimerOK`), and that a
caller past registration is either in the table or has been woken (`WakerOK`).
`IInv` joins these with the origin of replies (`ReplyOK`, `MessageOK`), with
sessions being those of their own handlers (`SessionOK`), and with displacement.
The proof has one step for each action and under it one for each conjunct. The
refinement uses `IInv` and its primed copy, and maps every action to one of
`Calls` or to a stutter.

*Keepalive.* `PongIsDue` measures the way to the next pong: the rest of a ping's
answer, or the rest of the tick, a whole write and a whole answer. Time takes as
much from it as from the deadline, a pong restores it because of the assumption
on the times.

*AliasStore.* `AInv`: while somebody writes, what it writes is the map, because no
change can come in while the lock is read; a file that differs from the map has
a goroutine that has still to write, or a failed write behind it. That a largest
number exists (`LargestExists`) comes from the well-founded inclusion of finite
sets: a smallest set of the numbers above one of them is empty.

*SessionAlias.* `AliasInv`: an actor that nobody has overlapped carries what the
store has, and a session that differs is being worked on or doubtful.

*ConnWrite.* `Owned`: mutex and writer name each other. Two commands that write to
one connection would both own it.

*PublicIP.* `IPInv`: an address that was found, or is cached, is the host's or was
until no longer ago than the time since. A caller that is told an address is told
one of the two. `WaitInv`: a caller stands in one place of the queue (`OnePlace`),
so that there are no more places than callers; who stands in place i has waited no
longer than one look-up for each place behind the i-th that there could be
(`Ahead`), and the time of the present look-up. A look-up that ends moves
everybody a place to the front.

*FRPService.* `FRPInv` says for each place in a script what its commands have done
that is still so: in a stretch of deploys alone, that the files are there and the
config is one that was wanted (`DeployInv`), and that a server started since runs such
a config (`FreshInv`); in a stretch of resets alone, what has been taken away, and
that a server which still runs has `unstopped` behind it (`ResetInv`); and that a config which a status has shown can only go by a reset
(`StatusInv`). A place is told by the number of commands left (`Left`), and a stretch
ends with the first failure, so that a step has to be looked at only beside steps of
its kind.

*WireGuardService.* `WGInv` joins, by the command that each script runs next (`Now`):

- `MakerOK`: while keys are not tangled at most one script makes keys, the public
  file is empty while it does, and the key in its hands is the private one, if
  that could be written; a script that has passed the test for the keys leaves
  them alone.
- `LoneOK`: a public key that is alone is in `lone`.
- `Apart`, `HostOK`: while deploys and resets have not overlapped, and no stop has
  failed unnoticed, the unit is active just when there is an interface, whose NAT
  rule is there; a reset past its first command has no active unit beside it, and
  past the third no config.
- `KeyUse`: then, if every private key could be written, config, interface and the
  deploys' hands have the public key.
- `DeployInv`, `ResetInv`: what deploys alone have done is still so; what resets
  alone have taken away is still away, and what they have left of unit, service,
  interface and rules has its failure in `ignored`. `Wanted` are the settings that
  have been written.
- `MismatchInv`: a public key that a check has read is still there, or `lone` tells
  that it was not.

The NAT rules of a deployment rest on `HostOK`. They are counted, and `wg-quick down`
takes away one rule of the egress that the file names now, which need not be that of
the interface; but where that has not failed it leaves no active unit behind, and a
reset deletes rules only after it.

*Broadcaster, EventStream.* `ListsOK` says that the lists are what has been subscribed,
each listener in one place only, so that the copy which `Emit` makes is a list
without duplicates of exactly those that are owed the event. Taking a subscription
back removes one place of a list that another copy no longer depends on
(`WithoutFacts`). For the order one has to know that the listener of the streams
is called once for an event (`CalledOnce`), and that no event in a queue, nor the
last one written, has a number above that of its connection's newest event, nor
as high a one while that is still to be offered (`CountsOK`). `OrderKept` is stated by
the places of a queue rather than by the selection of one connection's
events from it, because the selection is defined by recursion.

*Startup.* `SUInv` carries, from the first step on, that the timeout is the number of
seconds asked for wherever that fits. `WrapFits` and `Duration` say that the
arithmetic of a duration changes nothing below the overflow, for any width.

*HTTPServer.* `APIInv`: a handler in its checks has done nothing (`Untouched`), and one
that waits has sent a good command of a POST which says to wait
(`WaitsForAnswer`). Every answer that comes out of the checks is a refusal or a
look, except for `Send`, `ChangeAlias` and `RunScript`, which have steps of their own.

Model-checked only: the liveness properties `CallsReturnOrStrand`, `DisplacedFinishes`,
`WritesEnd`, `ReconnectIsServed`, `DeadIsCut`, `DeviceNeverBlocked` and `QueuedIsWritten`
(the prover does not do fairness and ENABLED), and the violation of `CallsReturn`. Every
invariant and every action property that a run checks is a theorem.

## Where code and documents differ

One run shows a violation, that of `CallsReturn`; `PROJECT.json` quotes the
document. Other differences were met while modelling. The properties are stated so
as to hold beside them, and say where they stop:

- A crash between the truncation of the alias file and its last byte leaves a file
  that the next start refuses, with every alias lost (`ws/aliases.go:145`,
  `src/cmd/chawrtd/main.go:52`). `AliasStore` has it (`Torn`, `refused`).
- A ping every 30 s is to be answered within 60 s (`src/INTERFACES.md:204-205`). The
  first deadline is set when the loop starts (`ws/manager.go:297`), and the first
  ping comes 30 s later: it must be answered within 30 s. `ConnectionProofs` needs
  `PingInterval + WriteWait + MaxAnswer < ReadWait` for this reason.
- A second FRPS deployment writes the new config and answers with success, and
  `systemctl enable --now` leaves the old server running (`ops/frps.go:152`,
  `src/INTERFACES.md:85`). `FreshDeployRuns` is about deployments that find none.
- The connect response is written past the mutex; a command that found the new
  session may write at the same time (`ws/manager.go:284`).
- The look-up of the public address tries three providers in turn, but under
  `set -e` ends at the first one that cannot be reached (`ops/wireguard.go:386`).
- An alias that is set and cannot be saved is answered 400, and is set
  (`ws/aliases.go:54-57`); the session still shows the old one.
- Response ops are said to be a whitelist, and are matched by suffix
  (`ws/manager.go:658-660`).
- `__expect_response` is sent on to the device when the header is there
  (`httpapi/server.go:619-631`).
- A config file that is there and cannot be read is ignored without a word
  (`config/config.go:44`). The default address is documented as `:8001` and is
  `127.0.0.1:8001`.
- A command that looked its session up before the device was lost and registers
  after the drain waits out its timeout, although its device is known to be gone
  (`ws/manager.go:338, 463, 506`).
- When an alias is `WiFi<largest int>`, the next number wraps around and the next
  devices share an alias (`ws/aliases.go:114`).
- `SetAlias` between a connection's look at the store and its registration leaves
  the old alias in the session (`ws/manager.go:152, 236, 272`).
- The stream is documented to tell when devices come and go
  (`src/INTERFACES.md:79`); nothing emits such an event.
- A reset that cannot stop the server, or the interface, or disable its unit, or list
  the NAT rules, goes on and reports success with these left (`ops/frps.go:309`,
  `ops/wireguard.go:436-443`). `ResetLeavesNothing` and `ResetClears` say what may then
  be left and that nothing else is.
- When the private WireGuard key cannot be written, the public one is, and the script
  goes on (`ops/wireguard.go:299`): the configuration then has no private key, and
  the start of the interface fails.
- A reset that runs among the lines of a deployment leaves a mixture, and both
  report success (`ops/frps.go:308-314`).
- A second WireGuard deployment does not restart the interface
  (`ops/wireguard.go:316`); one with another egress interface makes `PostDown` end
  early, and the FORWARD rules outlive the reset (`:310, 440-446`); two
  deployments that both find no keys may keep halves of two key pairs (`:298-299`).

## Not modelled

- Log sanitising, version and result types: no state and no effect on the rest.
- Formatting, JSON, TLS itself, parsing of the output of `wg`, `iptables`, `ss`:
  pure text. What the code concludes from it is modelled where it is more than a
  line in a report (`Odd`, `Mismatch`).
- What the scripts do before anything else (packages, the binary, `ip_forward`):
  idempotent, and nothing has happened when it fails. `VerifyFRPS` and the pings of
  `VerifyWireGuardServer` read once and report.
- The FORWARD rules of WireGuard and interfaces other than `wg0`: see the hazards
  at `ops/wireguard.go:310, 440`; the code promises nothing about them.
- Two scripts that write one file at the very same moment and mix their lines.
- Two requests at once in `HTTPServer`: what they do to each other is in the modules
  of the parts that they reach.
- An answer whose `req_id` is a JSON object or array: it cannot be the key of a map,
  and the look-up at `ws/manager.go:415` panics in the handler's goroutine, where
  nothing recovers. In `Manager` a `req_id` is one that `SendCommand` has made, or none
  that is known.
- Of `wg-quick`: an `up` that fails after it has added its NAT rule, and one that fails
  at a start of the host. `rm -rf` of a directory is one step.
- Of `tee` (`ops/wireguard.go:299`): that it cannot even open the file of the private
  key. An old private key whose public key was lost would then stay beside a new
  public key. The failure that is modelled, a full disk say, leaves an empty file.
- The callbacks of connects and disconnects, which nothing sets, and the heartbeat
  of the streams, which changes no state.
- That a data race on a string (`ws/manager.go:370`) could show half of it: below
  the level of these modules.

What a further development could prove: that the WireGuard and FRPS scripts
implement an abstract service of one step per request when requests do not
overlap, and that `SessionAlias`, where the store takes one step, is implemented
by `AliasStore`.
