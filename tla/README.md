# Verification of xxlib_simple_cpp

TLA+ modules for the parts of this repository that carry its logic: the gateway,
the lobby behind it, and the pieces of `xxlib` they stand on. TLC checks small
instances, TLAPS proves the safety properties for all values of the
constants. `PROJECT.json` maps every definition to the lines it models.

## 1. The system

`xxlib` is a header library (epoll loop, timers, sockets, queues, data buffers,
threads). On it stand a *gateway* that clients dial into, a *lobby* and *game*
servers behind the gateway, and clients. A client talks to services through one
connection to the gateway; a service opens and closes itself to a client.

| component | state | operations | talks to |
|---|---|---|---|
| gateway `src/gateway_server_gateway` | `cps` (registered clients), per client `serverIds` (white list), `closed`, a timeout; `dps` (per service a dialer and a connection), pings | accept, forward both ways, open / close / kick, ping, dial, timeouts, quit | clients and services by TCP messages; timers of the epoll loop |
| its kcp twin `src/gateway_server_gateway_kcp` | the same, clients over `KcpPeer` | the same | the same, over UDP |
| lobby `src/gateway_server_lobby` | `gps` (gatewayId to connection), per connection `id`, a first-package timeout, `vpeers` | register, accept, disconnect, requests of clients, close | gateways; services (`SPeer`, not used yet) |
| game `src/gateway_server_game` | connection to the lobby, gateways | register only | lobby, gateways |
| C++ client `src/gateway_client_cpp` | `openServerIds`, received packages per service, coroutines | dial, wait for open, request | gateway |
| `TcpPeer` `src/xxlib/xx_epoll.h`, `DataQueue` | send queue (`bytes`, `offset`), `writing`, EPOLLOUT, receive buffer | Send, Write, EpollEvent | the socket |
| epoll `Context`, `Timer` | timer wheel, held and dead items, actions of other threads | Run, Wait, UpdateTimeoutWheel, Dispatch | everything on the loop, by callbacks |
| `TcpDialer`, `TcpListener` | connection attempts, a timeout that is also "busy" | Dial, Stop, Connect, Accept | the loop |
| `ThreadPool`, `ThreadPool2` | jobs, `stop`, sleeping workers | Add, worker loop, destructor | threads, by a mutex and a condition variable |
| `Queue` `src/xxlib/xx_queue.h` | ring buffer | Push, Pop, PopMulti, PopLast, Clear, Reserve | `DataQueue` |
| kcp `src/xxlib/xx_epoll_kcp.h` | `serials` of a dial, `shakes`, `convId`, `cps` (conv to peer) | Dial, handshake over UDP, Input, frames, Close | the loop, UDP |
| `Logger` | two buffers, `disposing` | Log, Loop, destructor | a thread |
| `Shared`/`Weak`, `SharedList`, `ItemPool` | reference counts, free lists | copy, reset, lock, add, remove | |
| coroutines, looper, asio client | | | |
| serialization `xx_data*.h`, `xx_obj*.h` | | pure functions | |

What makes it hard:

* **interleaving of messages.** The gateway and a service decide about a client
  at the same time; their messages cross. A redial may overtake the end of the
  old connection.
* **every way of leaving.** A client may be closed by itself, its timeout, a kick
  now, a kick later, or the end of the process; a service by EOF, an error, a bad
  package, an unanswered ping. Each has to undo the same things.
* **failure.** Connections end on one side first; either process restarts; what
  was in flight is lost; ids begin anew.
* **an unreliable network.** The kcp handshake runs over UDP: every packet may be lost,
  late or repeated, and outlive the dial or the connection it belongs to.
* **callbacks inside a walk.** The callbacks of due timers set, stop and destroy timers
  while the wheel walks their list.
* **timeouts.** A kicked client is only ended by its timeout; a ping races the
  tick that finds it too old.
* **threads.** The pool notifies after it has released the mutex, jobs add jobs,
  and the destructor runs against both.
* **limits.** 256 KB per write and per package, 1024 packages per `writev`, the
  length of the wheel, 32 bit ids.

What makes each part correct: the gateway and all who talk to it agree on who may
talk to whom, no connection is forgotten, and everything that waits ends; the
lobby's registry names living connections and lets a gateway back in; what is sent
arrives, once and in order; no job is lost and the destructor returns; a timer is called
when it was set to be; a conversation is between the two ends that shook hands. The
`hazards` of `PROJECT.json` list what can go wrong at which line.

## 2. Modules

| module | models | checked by |
|---|---|---|
| `Gateway` | the gateway process, one action per event handler | runs `gateway`, `disconnect_twice`, `subframe_kick` |
| `GatewayProofs` | theorems about `Gateway` | tlapm |
| `Lobby` | the handlers of the lobby's gateway side, as operators on its state | through `GatewayLobby` |
| `GatewayLobby` | one `Gateway`, one `Lobby`, the TCP connections between them | runs `gateway_lobby`, `gateway_lobby_live`, `orphan_vpeer`, `ping_echo` |
| `GatewayLobbyProofs` | theorems about `GatewayLobby` | tlapm |
| `MCGatewayLobby` | symmetry and a specification without fairness for the safety runs | |
| `ThreadPool` | `xx::ThreadPool` | run `thread_pool` |
| `ThreadPoolProofs` | theorems about `ThreadPool` | tlapm |
| `Fifo` | what a queue promises | as a property, `FifoKept` |
| `RingQueue` | `xx::Queue`, the array with head and tail | through `TcpSend` |
| `RingQueueProofs` | theorems about `RingQueue` | tlapm |
| `TcpSend` | `TcpPeer::Send`, `Write`, EPOLLOUT over `DataQueue` over `RingQueue` | runs `tcp_send`, `send_over_limit` |
| `TcpSendProofs` | theorems about `TcpSend` | tlapm |
| `SetInduction` | induction over the natural numbers, for `TcpSendProofs` | tlapm |
| `Deadlines` | what timers promise | as a property, `DeadlinesKept` |
| `TimerWheel` | `Timer`, the wheel and its walk | run `timer_wheel` |
| `TimerWheelProofs` | theorems about `TimerWheel` | tlapm |
| `KcpShake` | `KcpDialer`, `KcpListener`, the UDP network between them | run `kcp_shake` |
| `KcpShakeProofs` | theorems about `KcpShake` | tlapm |
| `MCKcpShake` | the addresses of the dialers | |

Operators whose comment begins with "mutant" are bugs on purpose: each property
of a passing run fails when the operator below takes the mutant's place. They are
not part of any specification.

### Gateway

The loop is single-threaded, so a handler runs to its end and is one action.

| code | model |
|---|---|
| `Server::cps`, `cpeerAutoId`, `dps` | `cps`, `cpeerAutoId`, `dps` (the sids with a connected `SPeer`), `busy` (the sids being dialed) |
| `CPeer::serverIds`, `Peer::closed`, an open fd, a place in the wheel | `serverIds`, `closed`, `alive`, `armed` |
| `SPeer::waitingPingBack`, `lastSendPingMS` | `pinging`: 0, or 1 + the ticks the ping is out |
| `Listener::Accept` | `AcceptClient` |
| `CPeer::ReceivePackage`, `ReceiveCommand` | `ClientPackage`, `ClientCommand` |
| EOF, an error, a bad length / `TcpPeer::Timeout` | `ClientGone` / `ClientTimeout` |
| `SPeer::Close` | `CloseService`, and `cut` in `PingTick` |
| `SPeer::ReceivePackage`, `ReceiveCommand` | `ServicePackage`, `ServiceOpen`, `ServiceClose`, `ServiceKick`, `ServicePing` |
| `PingTimer`, `TaskTimer`, `Dialer::Connect`, `TcpDialer::Timeout` | `PingTick`, `TaskTick`, `DialConnected`, `DialFailed` |
| the scope guard of `Server::Run`, then a new process | `Restart` |

`sentC` and `sentS` are what the last handler sent. `told` and `roster` add these
messages up: what a client (a service) holds once it has read everything. They are
what the properties compare the gateway with, and nothing in the code reads them. Each
follows only from what its own end sends and is sent (`Tell`, `Emit`): a client is off a
service's `roster` when the service closed it, was told of its end or lost its connection,
and not because the client was told something.

The delay of a kick is one of three classes, because only three things can come of
it: no delay, one that is cut to no frames, one that is at least a frame. The age of
a ping is the number of ticks (3 s) it is out; older than 5 s is surely true at
`MaxAge` and may be true earlier, when the loop catches up on missed frames.

Services in `Gateway` are not restricted: they may open, close and kick any client
at any time, so the properties do not depend on a well-behaved lobby.

### Lobby and GatewayLobby

`Lobby` has one operator for each handler; `GatewayLobby` feeds them from the
sequences `toS[k]`, `toG[k]`, the bytes in flight on connection `k`. `cur` is the
gateway's connection, `backlog` the ones the kernel has accepted for the lobby.

* Sending to a live connection appends. When an end lets go of a connection what it
  has not read is gone; the other end still reads what was sent before, then EOF, or
  it sees an error first.
* A redial may take another connection while the lobby still holds the old one.
* `GMisread`: the lobby looks for the ping mark in the four bytes *behind* a package.
  What is there depends on how reads cut the stream and on what an earlier read left
  in the buffer, so the model leaves it open. What the lobby then sends begins with the
  last four bytes of the package, which the gateway takes for a length. The last byte
  of a command is not 0, so this length is over the limit and the gateway closes. Data of a
  client may end in any bytes. When they make a length within the limit, the gateway waits for
  the rest, which to the other steps is a gateway that does not read on; that it then takes what
  follows for a package is left out.
* `VPeer::Close` erases the only reference to itself and goes on (a use after free).
  The model lets it end normally; the process dying there is `LobbyRestarts`.
* `VPeer::SendRequest`, `SwapClientId` and the callbacks have no callers.

### ThreadPool

A critical section is one action; `notify_one` and `notify_all` come after the
mutex is released and are actions of their own. A job may call `Add` (`WorkerAdds`).
`cond.wait` may wake spuriously. The owner starts the destructor only when no caller
is inside `Add` (destroying an object in use is undefined), at any moment otherwise.
A refused `Add` changes nothing and is not an action. `accepted`, `started`,
`finished` record what happened.

### RingQueue and TcpSend

`RingQueue` has one operator for each operation of `xx::Queue`, on a record of the array,
`cap`, `head` and `tail`; a slot without an object holds `NoElement`, so an operation that
loses, doubles or uncovers an element shows. Operators rather than actions let `DataQueue`
compose several of them in one call; `RqSpec` is a queue on its own, which the proofs are
about. `Caps` abstracts what `Round2n` and `sizeof( T )` make of a capacity.

`Fifo` is a sequence that elements join at the back and leave at either end. `Items` is the
refinement mapping: what lies from head on, around the end of the array.

In `TcpSend` bytes are numbered in the order they are given to `Send`. `ring`, `offset`,
`bytes` are `DataQueue`'s. A write takes any number of the bytes it is offered, none when
the socket is full; `Fill` and both `Pop`s are translated with the cases of the code, the
ones that are wrong included. A connection that was dialed starts with EPOLLOUT registered,
an accepted one does not. A socket error closes the peer and ends the queue with it; it is
left out.

### TimerWheel

| code | model |
|---|---|
| `Context::wheel`, `cursor` | `wheel`, `cursor` |
| `timeoutIndex`, `timeoutPrev`, `timeoutNext` | `index`, `prev`, `next` |
| a constructed `Timer` | `exists` |
| the loop of `UpdateTimeoutWheel`, its saved `np`, the timer whose `Timeout` runs | `walking`, `np`, `running` |
| `SetTimeout`, `~Timer` | `SetTimeout` (`Stop`, `Start`), `Destroy` |
| `UpdateTimeoutWheel` | `Tick`, then `Call` and `Return` for each timer, `EndWalk` |

The walk is cut at each callback, because callbacks use timers: between `Call` and `Return`
any timer may be set, stopped, made or destroyed, any number of times, except the one that
the walk has saved. The walk cannot bear that (`MayTouch`), and no callback of this code
does it, with one exception that needs a dial of exactly 20 frames (hazard at
`xx_epoll_kcp.h:607`). `due`, `newer` and `left` record what was set when and are read by
nothing. `Deadlines` promises in their terms that a timer set to k frames is called in the
k-th frame, once, unless it is set anew. An interval above the wheel throws and is not set.

### KcpShake

| code | model |
|---|---|
| `KcpDialer::serials`, `serialAutoInc`, `cps` | `serials`, `serialAutoInc`, `dcps` |
| `KcpListener::convId`, `shakes`, `cps` | `convId`, `shakes`, `lcps` |
| a `KcpPeer` | `peers` (one per dial), `lpeers` (one per conv, which the listener gives once) |
| UDP | `net`, every packet ever sent: it may arrive any time, again, or never |
| `timerForTimeout` in the wheel | `armed` |
| `Dial`, `Stop` | `Dial`, which arms the timer unless the timeout is cut to 0 frames, `Stop`, which ends both |
| the two timers | `DialTimeout`, of an armed dialer (what the request timer repeats is in `net`) |
| `KcpDialer::Receive` of 8 bytes / of kcp | `ReceiveShake` / `ReceiveAnswer` |
| `KcpListener::Receive` of 4 bytes / of kcp | `ReceiveSerial` / `ReceiveKcp`, `AcceptKcp` |
| `KcpBase::Timeout` | `DialerFrame`, `ListenerFrame` |
| `KcpPeer::Send`, `Flush`, `Input`, `Close` | `UserSends`, `Flush`, `Input`, `ClosePeer`, `CloseAccepted` |

Of ikcp, which is vendored, the model keeps what this code relies on: what is sent before an
update shares a segment (stream mode), segments are numbered and sent again until they
arrive, and are handed on in order. `Flush` right after the peer is made does nothing,
because ikcp does not flush before its first update, so the first package leaves with the
next frame, perhaps with data the user sent meanwhile. A `Flush` of the user later on sends at once,
also from a peer that `cps` has lost. `needSendFirstPackage` keeps its default, true. `Connect` and `Accept` may keep the
peer or let it go (`held`).

## 3. What is checked

Passing runs:

| run | bounds | what it shows |
|---|---|---|
| `gateway` | 2 services, 2 clients between restarts, a ping too old at 3 ticks | `WhitelistTold`, `RosterAgrees`: clients and services agree with the gateway after all that was sent is read. `LiveAreRegistered`, `EveryoneArmed`, `OneConnectionEach`: no connection is forgotten, untimed or doubled. `DataFromOpened`: data only from clients open on this very connection. `KickedDies`, `PingResolved` |
| `gateway_lobby` | 2 clients, 2 connections, 2 messages in flight before new input, 1 failure | `RegistryAgrees`, `PermissionBacked`, `VPeerPermitted`: registry, VPeers and white lists agree up to what is in flight |
| `gateway_lobby_live` | 1 client, 2 failures | `Recovers`: the gateway is registered again and again |
| `thread_pool` | 3 workers, 2 callers, 4 jobs | `StartedInOrder`, `NoLostWakeup`, `Drained`, `EveryJobRuns`, `DtorReturns` |
| `tcp_send` | packages of 1, 2, 3, 5, at most 6 bytes queued and 12 in all, 3 packages a write, arrays of 4 and 8 | `StreamKept`, `BytesAgree`, `NoStall`, `AllWritten`; `FifoKept`: the ring implements `Fifo` |
| `timer_wheel` | 4 timers, 4 slots | `ListsWhole`, `NewestFirst`, `WalkEnds`; `DeadlinesKept`: the wheel implements `Deadlines` |
| `kcp_shake` | 2 dialers, 2 listeners, 2 dials in all, of at least a frame, 2 convs, 2 different answers, a handshake of 1 frame | `AcceptedOnce`, `OneConversation`, `CpsWhole`, `ConnectOnce`, `FreshConv`: late and repeated packets do no harm. `AcceptIgnored`, `DialEnds`, `Joined` |

Why the bounds are enough to be interesting: two services make one leave while the
other stays; two clients let a message about one meet the other; ids are reused after
a restart. Two connections are what a redial that overtakes needs, and one failure
already interleaves with everything else; the second failure of the liveness run hits
the recovery from the first. Three workers tell `notify_one` from `notify_all` with
one of them busy, and more jobs than workers queue. Up to six packages are queued where
one `writev` takes three, and what the socket takes ends at, before and behind every
boundary of a package, and the ring of four slots wraps and grows once. Four timers make a
list with a first, a middle and a last while one callback runs; four slots let an interval
of the whole wheel fall into the slot that is walked. Two dials are by one dialer again, after its
first has failed, is connected or is closed, or by two at once; two answers are two to the
same dial from different servers, or one late and one new.

`tcp_send` has `MaxQueued = MaxBufLen`: it shows what holds while at most 256 KB are
queued, where `Fill` offers whole packages only. The branches of `Fill` that stop inside a
package are reached beyond that, where the code is wrong: the run `send_over_limit`. No run
sends a package longer than the limit (hazard at `xx_data_queue.h:70`), and `PopLast` and `Reserve` of
the queue, which `DataQueue` does not use, are in the proofs only.

`gateway` has the kick delays "now" and "later". With "subframe" `EveryoneArmed` and
`KickedDies` fail, which is the run `subframe_kick`. In the same way `kcp_shake` has dials of at
least a frame: with 0 in `Timeouts`, a dial nobody answers has no timeout and `DialEnds` fails
(all callers dial for seconds, and no text of the repository says otherwise).

Deadlock checking is off where the system may stop: the pool after its destructor,
the compositions when their bounds are used up, the socket when all is sent, the network of
the handshake when nobody dials any more. `timer_wheel` checks it.

### Disagreements found

| run | the code | the text |
|---|---|---|
| `disconnect_twice` | a delayed kick reports the client to its services, and its timeout reports it again | `peer.h:12`: no second dispose after `closed` |
| `subframe_kick` | a delay below a frame removes the timeout; the client is held for ever | `cpeer.cpp:24`: the timeout closes it |
| `orphan_vpeer` | a client that leaves before the lobby's "open" is back is reported to nobody; its VPeer stays | `main.cpp:49`: all related services are told |
| `ping_echo` | the lobby tests the wrong four bytes and does not echo; the gateway cuts a healthy link | lobby `peer.cpp:33`: pings are echoed |
| `send_over_limit` | a full 256 KB write that ends inside a package drops the package's rest | `xx_data_queue.h:8`: bytes = sum of the lengths - offset |

The last was also seen by running the C++ with two packages of 200 KB: after a write of
exactly 256 KB the queue is empty and says 147456 bytes are left. Two
more were met on the way and are hazards only, because no model has memory in it:
`Queue` never destroys an `xx::Data` (each sent package leaks), and `DelayExecute`
stores the wrong function.

### Fairness

* `Gateway`: the wheel turns with every frame, so `PingTick`, `TaskTick` and the timeout
  of a kicked client are weakly fair. Nothing rearms a kicked client, which is not read
  any more. The timeout of other clients is not fair: what they send renews it. Clients,
  services and dials owe nothing.
* `GatewayLobby`: both loops read what has arrived, TCP delivers data and ends, dials are
  repeated and succeed when nothing fails. Failures are bounded, not fair.
* `ThreadPool`: threads are scheduled, jobs return, the mutex is not withheld for ever.
  Spurious wakeups and the destructor are not fair, so nothing rests on them.
* `TimerWheel`: the loop goes on and callbacks return. What handlers do to timers is not fair.
* `KcpShake`: a timer that is in the wheel is called, also those of a dialer's frames, and kcp repeats a segment until
  it arrives, so an accept that stays possible happens. Nothing else is fair: requests and
  answers may all be lost. The fairness is of the timer and not of the dial: `DialEnds` holds because
  the timer stays in the wheel as long as the dial goes on, whatever comes in meanwhile.
* `TcpSend`: the other end keeps reading, so a write that is possible makes progress
  again and again; `Send` owes nothing.

## 4. What is proved

TLAPS checks every invariant and every refinement of the passing runs, from the named
assumptions on the constants, and one condition each for two of them: `EveryoneArmed` is
proved for kicks that are not shorter than a frame, and what is said of `TcpSend` for at most
as many bytes queued as one write may send. Beyond either condition the code is wrong, and a
run shows it. Liveness is only model-checked (see the end of this section).

**`GatewayProofs`**, for any set of services, any number of clients, kick delays and
ping age: `GwTypeOK`, `WhitelistTold`, `RosterAgrees`, `LiveAreRegistered` with
`OneConnectionEach`, `DataFromOpened`; `EveryoneArmed` if no kick is shorter than a frame.

The properties are not inductive alone. `GwIInv` adds

* `FreshIds`: ids above `cpeerAutoId` are in no set and have empty lists, so an accepted
  client starts clean;
* `RosterLinked`: a service that is not connected has nobody on its roster, so a new
  connection starts clean.

For a client that left, `serverIds` may name a service it was closed at; that is why
`RosterAgrees` and `WhitelistTold` speak of registered clients, and why `ClientPackage`
must be kept from reading a kicked one (`Reads`).

The argument is by effect rather than by action: what `CPeer::PartialClose` does
to the two views (`PartialCloseViews`), what the loss of a set of services does
(`LoseServices`, used by `SPeer::Close` and by `PingTimer`), what a step does that opens
and closes nothing (`QuietStep`), then one lemma per handler, then `NextIInv`.

**`GatewayLobbyProofs`**, for any number of clients and connections, any bound on failures
and on the messages in flight: `GlTypeOK`, `RegistryAgrees`, `PermissionBacked`,
`VPeerPermitted`, and the four invariants of the gateway on clients, services and connections
(`GatewayIsRightWithLobby`). `GlIInv` is `GwIInv`, the types, `RegistryAgrees` and

* `Settled`: once the gateway has read all that is in flight to it, exactly the registered
  clients with a VPeer may send to the lobby. `Final` says what that reading comes to: the
  last "open" or "close" about a client decides, and without one what it may do now. It is an
  equivalence where `PermissionBacked` and `VPeerPermitted` are an implication each, and that is
  why it survives the reading of one more message (`FinalTail`) and the sending of one
  (`FinalAppend`), and they do not: after an "open" and a "close" about the same client, that
  one of the two is in flight does not say which comes last;
* `KnownClients`: no VPeer on the gateway's connection and no message there is of an id that
  is yet to be given, so that an accepted client starts without permissions on both sides;
* `GoneIsBlank`, `HandedOverOnce`, `OnlyBase`: nothing is left of a closed connection that a
  later one in its place could take for its own.

That the gateway's part is kept is the proof of `GatewayProofs`, step by step, since
`GatewayLobby` uses the actions of `Gateway`; only a step in which the gateway is idle is new.
The lobby's handlers are grouped by what they do: close a connection (`CloseConnStep`), take
the gateway over from an old one (`TakeOverStep`), answer (`AnswerStep`), read and answer
nothing (`ConsumeStep`).

The named assumptions are that there is a gateway (`GatewaysAssumption`) and that the two
bounds are natural numbers.

**`ThreadPoolProofs`**, for any finite workers and callers and any jobs: `TpTypeOK`,
`StartedInOrder`, `NoLostWakeup`, `Drained`. `TpIInv` adds `Accounted` (a job that was
started has returned or is in a worker's hands) and `Ended` (a worker that left saw stop
and an empty queue, and nothing is added after stop). `NoLostWakeup` counts: jobs queued
against workers on their way to the mutex and notifications to come; each action changes
the two sides by at most one, in the right direction.

**`RingQueueProofs`**, for any elements, any set of capacities and any first capacity:
`RqTypeOK` and `FifoKept`, the refinement of `Fifo`. `IsRing` says of one record what
`RqTypeOK` says of the variable, so that the lemmas are about operations and not about steps:
one for each (`PopTakesFirst`, `PopMultiTakesFirst`, `EmplaceAppends`, ...), that it keeps a
ring and what it does to `Items`. They rest on `ItemsWithout` (a ring whose places are those
of another moved by k holds the other's elements without the first k) and `OneMore` (one slot
written behind the last). `ReserveKeeps` and the full case of `EmplaceAppends` compare the two
halves of the old array with the new one.

**`TcpSendProofs`**, for any sizes of packages, any write limit, any number of packages a
write takes and any capacities of the ring: `TsTypeOK`, `StreamKept`, `BytesAgree`, `NoStall`
and `FifoKept`, each under `MaxQueued <= MaxBufLen`. With more queued, `Fill` may stop inside
a package and the code loses count: `send_over_limit` is the counterexample. The invariant
does not follow `Fill` and the `Pop`s through their loops. It says (`Holds`) that the packages
of the queue are a chain, each beginning behind the last byte of the one before, so that what
is queued is one `Run` of consecutive bytes, from the first the socket has not taken to the last
that was sent. `BytesAreRun` gives what a write offers as such a run, `DropHolds` what is left
when the socket took a part of it, `FillIs` what a `Fill` comes to within the limit, and `GoneIs`
how many packages a part of a write uses up; `WriteKeeps` puts them together for both `Pop`s. The
ring comes in through the lemmas of `RingQueueProofs`.

`FlattenSeq` and the `Pop`s one after another are recursive functions, and facts about them
need induction. The induction theorems of the library take the property as an operator, which the provers cannot
instantiate; `SetInduction` states it for a set (`NatInd`: a set with 0 and with n + 1 for each
of its n has every natural number), from the well-foundedness of inclusion on finite sets.
`InitialSegment` follows from it: the packages that a part of a write uses up are the first few.

`ElementsAssumption` says that the elements of the ring are packages, and
`GrowthAssumption` that an array which `MaxQueued` bytes can fill has one of twice its capacity to
move to, which `Reserve` always finds. TLC evaluates both, and so the `Caps` of the runs have a
last capacity that is never filled.

**`TimerWheelProofs`**, for any timers and any number of slots: `TwTypeOK`, `ListsWhole`,
`NewestFirst` and `DeadlinesKept`, the refinement of `Deadlines`. `ListsWhole` is not inductive: it
does not say that a list is free of cycles, which is what keeps the walk from leaving a timer
out. The invariant `Whole` says instead where each timer stands, by the order `newer` in which
timers were set: a timer links to the newest of the older timers of its list, the head of a
list is its newest, and the timer the walk has saved the newest of those still due. From that
follow `ListsWhole`, `NewestFirst`, and `NothingLeft` (when nothing is saved, nothing is due). A step then
is taking a timer out of its list (`TakenOut`), putting it first into another (`PutFirst`),
taking the saved one (`SavedTaken`) or taking a whole slot (`SlotTaken`). `LeftTells` ties
the slot of a timer to the frames it has left, by arithmetic modulo the wheel (`SlotOf`,
`NextFrame`), and with it each step is one of `Deadlines`.

**`KcpShakeProofs`**, for any dialers, listeners, addresses and bounds: `AcceptedOnce`,
`OneConversation`, `CpsWhole`, `ConnectOnce`, `FreshConv`, `KsTypeOK`, `AcceptIgnored`. `net` only grows, so what a packet
once proves stays proved. `Asked(net, c, s, n)` says that c sent the serial n to s, and
`Given(net, s, c, v)` that s gave c the conv v; `KsIInv` says which of them stands behind each
piece of state:

* `SerialsKept`: a serial was sent to one listener, so the answer to it is that listener's
  (the code takes the address of the answer from its list of addresses, by position);
* `ConvsKept`: a conv was given to one dialer, and an address does not keep one that was
  accepted. This is why a packet that is assigned by its conv alone is the right dialer's, and
  why a late one makes no second peer;
* `BeforeKept`: what was accepted before a dial is not the answer to one of its serials;
* `TimersKept`: a dialer that is dialing for at least a frame has its timeout in the wheel, and a
  timeout in the wheel is of a dial that goes on, so that `Connect` comes once;
* `DialerKept`, `ListenerKept`: open peers, what fed them and kcp packets come from convs that
  were given; `cps` leads to open peers; a dial that is on its way has made no peer.

Lemmas say what stays when a step sends no serial (`SerialsStay`), gives no conv (`ConvsStay`),
and so on; `PeersChange` and `ListenerStep` gather them for the steps of one side, and each
handler has a lemma for the rest.

`KsSegInv` is a second invariant on top of that one, and its proof uses both ends of a step
of the first. It follows the accept package: a dialer's peer has it in its first segment,
alone or with a package of the user, and in no other (`StagesKept`); so segment 0 on the
network begins with it and segment 1 is data (`PacketsKept`). A peer that was accepted at
segment 0 has handed on the rest of it and waits for nothing that it skipped (`HandedKept`), so
every later segment 0 is a repetition and what is handed on is data. The argument breaks for a
peer accepted at segment 1: segment 0 comes later, and its accept package is handed on. That is
a hazard of the code (`xx_epoll_kcp.h:275`), and `AcceptIgnored` leaves these peers out.
`DialsKept` counts serials by dials, for the types.

Only model-checked: all liveness (`KickedDies`, `PingResolved`, `Recovers`, `EveryJobRuns`,
`DtorReturns`, `AllWritten`, `WalkEnds`, `DialEnds`, `Joined`), which rests on fairness and
ENABLED and is out of the prover's reach. The five violations are counterexamples of TLC.

## 5. Not modelled

The components with status `not_modelled` in `PROJECT.json`, with the reason there. Most of the
repository by lines is such: lua, sol, json, http and ikcp are vendored, and the many
`test`, `tools` and `msvc` directories are experiments around the same headers. Within
what is modelled:

* the framing of packages in the receive buffer (except for what the lobby makes of a ping),
  the contents of packages, logs and console commands other than quit, failing system calls
  when a process starts, memory;
* of the loop: Dispatch and the actions of other threads, delayed functions, hold and unhold;
* of kcp: closing a whole dialer or listener, and a listener that is restarted and counts
  its convs from 1 again while dialers of its old life go on; dialers that send no first package
  (`needSendFirstPackage` false), and clients that send with a conv they were not given;
* the walk of the wheel meeting a timer that a callback has just touched (see `MayTouch`).

## 6. Plan

In this order:

1. Proofs: what `GatewayLobby` says of clients that left (a weaker form of `NoOrphanVPeer` that
   holds); of `KcpShake`, what a peer accepted at segment 1 hands on.
2. `EventLoop`: Dispatch and HandleActions across threads, hold and unhold, DelayExecute.
3. The shutdown of the logger, the client's open list and its coroutines.
