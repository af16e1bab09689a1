# Goxic in TLA+

Goxic is a peer-to-peer proxy. A *client* node offers a local SOCKS5 port; for
every connection it picks a *server* node found through a DHT, opens a libp2p
stream to it and copies bytes. A server node forwards the stream to further
relay nodes or, as the exit node, dials the target. This directory holds TLA+
models of `src/server` and of the start-up in `src/main.go`, the TLC
configurations that check them, and TLAPS proofs about every one of them.

## 1. Inventory

| Component | State | Operations | Talks to |
|---|---|---|---|
| Client discovery, `handlers/discovery.go` with `started = false` | cached list `serverPeers`, `lastUpdate`, `serverLoads` (under `loadMutex`) | `SelectServer`, `GetAvailableServers`, `refreshServerListForClient`, four selection strategies, `TrackConnection`, `ReleaseConnection` | called by every SOCKS5 connection goroutine; DHT; network |
| Server mesh, `handlers/discovery.go` with `started = true` | `serverPeers`, `peerFailures`, context, ticker | `Start`, `Stop`, `StartPeriodicDiscovery`, `refreshServerList`, blacklist | DHT, network, peerstore |
| SOCKS5 handler, `handlers/socks5.go` | `activeConnections`, listener, context, deadline of each connection | `Start`, `Stop`, `acceptConnections`, `handleConnection` and its parts | client discovery, relay |
| Traffic bridge, `bridgeTraffic`, `forwardToNextPeer`, `bridgeExitTraffic` | two copying goroutines, channel `done` | copy, `CloseWrite`, wait for the first, close both | two connections |
| Relay chain, `handlers/relay.go` | remaining hops in the protocol name | `OpenRelay`, `Handle`, `forwardToNextPeer`, `handleProxyTraffic`, `readTargetAddr` | the next node or the target |
| Handshake and framing, `socks5.go`, `relay.go` | none beyond the connection | field reads, replies, length-prefixed target address | client; exit node |
| Registry and lifecycle, `handlers/registry.go`, `node/setup.go`, `node/node.go` | handler lists, host, datastore | `SetupNode`, `StartNodeHandlers`, `StopNodeHandlers`, `SetupStreamHandlers`, `ShutdownNode` | all handlers |
| Advertisement, `node/node.go` `Run` | ticker | `dutil.Advertise` on each tick | DHT |
| Configuration, `model/config.go`, `main.go` | the configuration | defaults, validation, load, mode override | every component |
| Key store, `utils/key.go` | the key file | `FetchPrivKey` | file system |
| Bootstrap addresses, `utils/p2p.go` | none | two conversions | - |
| Command line and logging, `main.go` | none | flags, help, log set-up | - |

What makes each part hard, and what makes it correct:

* **Client discovery.** All connection goroutines share one `ServerDiscovery`.
  The list and its time stamp are read and written without a lock; the loads
  are guarded, but choosing a server and counting it are two critical
  sections. Correct: the cached list keeps its bound and never lists this node;
  loads count exactly the servers handed out; every call returns; and callers
  see one atomic selection.
* **Server mesh.** One goroutine, but in a changing network: connections that
  others open or break, peers that are still registering their protocols,
  failures that accumulate and are forgiven after a while, a `Stop` at any
  moment. Correct: the list is bounded and free of this node, no peer is failed
  on too often in one blacklist period, none is shut out for good, and `Stop`
  ends the goroutine.
* **SOCKS5 handler.** An atomic counter compared and changed in separate
  steps, a deadline that runs while the server is being selected, returns at
  nine places, `Stop` racing `Accept`. Correct: no client is turned away
  without reason, counters mean what they say, the client is told what
  happened, handlers and the accept loop end.
* **Bridge and relay chain.** Three or more bridges in a row, each closing
  both its connections when one direction is done; set-up and data overlap.
  Correct: data arrive in order and unmixed with the address frame, the
  direction that ends first arrives in full, and one end closing takes the
  whole tunnel down.
* **Handshake and framing.** Single reads of a connection that delivers in
  pieces, a length that is narrowed to one byte, a protocol name that every
  hop rebuilds, a frame with data right behind it. Correct: the exit node
  dials what the client asked for or nothing, the target receives the client's
  data and nothing else, both as long as no read of the handshake falls short,
  and one unbroken run of what the client sent in any case; the stream visits the peers of the route once each,
  and nobody waits for ever for the frame.
* **Lifecycle, configuration, key store.** A start that may die at any step,
  two starts over one directory, errors that leave half a start behind, a mode
  that is overridden after validation, a signal in the middle of a start.
  Correct: one identity and one host per data directory, a proxy only where
  one was validated, and a signal that is never lost.

`PROJECT.json` lists the hazards line by line, with the properties that cover
them.

## 2. Modules

| Module | Models | Extends / uses |
|---|---|---|
| `ServerSelection` | abstract: what `SelectServer`, `TrackConnection`, `ReleaseConnection` promise concurrent callers | |
| `ClientDiscovery`, `MCClientDiscovery` | the client side of `discovery.go`, step by step | `Selection == INSTANCE ServerSelection` |
| `ClientDiscoveryProofs` | proofs | `ClientDiscovery` |
| `Socks5Handler` | `socks5.go` up to the bridge | `ServerSelection` |
| `Socks5HandlerProofs` | proofs | `Socks5Handler` |
| `ClientNode` | the two together: handlers over the real discovery, one context | `ClientDiscovery`, `Handler == INSTANCE Socks5Handler` |
| `ClientNodeProofs` | proofs | `ClientNode`, `ClientDiscoveryProofs` |
| `ServerMesh` | the server side of `discovery.go` | |
| `ServerMeshProofs` | proofs | `ServerMesh` |
| `Pipe` | abstract: what a proxied connection promises the client and the target | |
| `RelayTunnel` | bridges and relay nodes from client to target | `EndToEnd == INSTANCE Pipe` |
| `RelayTunnelProofs` | proofs | `RelayTunnel` |
| `ProxyRequest`, `MCProxyRequest` | the bytes of one request: handshake, replies, protocol name, address frame | |
| `ProxyRequestProofs` | proofs | `ProxyRequest` |
| `Configuration` | defaults, validation and override as operators | |
| `NodeLifecycle`, `MCNodeLifecycle` | start, signal, shutdown and death of the program | `Configuration` |
| `NodeLifecycleProofs` | proofs | `NodeLifecycle` |

`ClientDiscovery` implements `ServerSelection`; `Socks5Handler` is built on
`ServerSelection`. So the handler is checked against what selection promises,
and the detailed selection is checked, and proved, to keep that promise.
`ClientNode` closes the circle: it runs the handlers over `ClientDiscovery`
itself and is checked, and proved, to implement `Socks5Handler`. `RelayTunnel`
implements `Pipe`.

### ClientDiscovery

One goroutine per member of `Conns`; `dpc[t]` is its place in `SelectServer`.

* `Call`, `CheckStale`, `FindPeers`, `FindPeersFails`, `ReceivePeer`,
  `DialSucceeds`, `DialFails`, `ChannelCloses`, `StoreWord`, `TouchLastUpdate`
  follow `GetAvailableServers` and `refreshServerListForClient`. A query may
  end at any point, since exhaustion, time-out and cancellation all close the
  channel, and until then it may deliver any peer any number of times: the
  routing library may send a provider again, and the code does not look.
* `serverPeers` is a slice that is assigned while others read it: a data race.
  The model keeps the array word and the length word apart and stores them one
  after the other in either order (`StoreWord`). `CachedList` is what a range
  over the current words yields; an index past the array yields `NoPeer`,
  which stands for memory that is no list entry.
* `StartRange` takes the list to range over, `CheckServer` looks at one entry of
  it at a time, while links change and other calls store lists. Both keep
  positions, not a compacted list: `avail[t]` is a function on the positions of
  the servers found usable, which says the same about order.
* `connected` has three values because the code compares connectedness with 0
  in one place (dial?) and with 1 in another (usable?): a limited connection
  is neither dialled nor used.
* Time is one Boolean, `stale`.

### Socks5Handler

`loop` is the accept loop, `hpc[t]` a handler. The limit check
(`CheckLimit`) and the increment (`Admit`) are two steps, as they are two
atomic operations. `deadline` is armed by `Admit` and cleared by `SendTarget`,
so it may expire during server selection; a reply written after that is lost.
`Return` stands for the deferred calls. The handshake is one success or
failure; the address frame one write that works or not; the bridge one step
that ends some time.

### ClientNode

A running client node: `Start` creates the discovery of the handler, `Stop`
cancels the one context, `s.ctx`, that both use (`ctxDone`).
`CallsSelectServer` is the end of the handshake and the call of `SelectServer`
in one step, `SelectServerRuns` a step inside `discovery.go`, `BridgeEnds` the
end of a bridge with `ReleaseConnection`, `HandlerRuns` everything a handler
does without the discovery. A handler sees a call through the refinement
mapping of `ClientDiscovery`: nothing of a refresh or a choice, only that it
is under way, and how it returned. `UsedBy(p)` counts the handlers that use a
server by the control flow of `socks5.go` alone.

### ServerMesh

`pc` is the place of the discovery goroutine. `tickPending` is the one slot of
the ticker channel. `connected` are the peers with an open connection, opened
by whomever. `failureCount` and `sinceFailure` are `PeerFailureInfo`;
`recentFailures` is a history variable, the ages of the last `MaxFailures + 1`
failed dials since the last success, and so is `seen`, the peers this query
has delivered: it stops nothing from being delivered again, and only
`GoodServerJoins` reads it. `Identify` lets the protocol list of a
peer change at any time.

### RelayTunnel

Node `n` of `1 .. Exit` joins link `n - 1` to link `n`. Node 1 is the SOCKS5
node, node `Exit` the exit node, those between are relay hops; `Hops = 0` is
what `createProxyStream` asks for today, the relay handler accepts any number.
Each link carries two ordered directions with a window (`wire[l][d]`), a
closed sending side (`finished`), a closed receiving side (`deaf`) and a
reset. Each bridge has two copying goroutines: `CopyReads`, `CopyWrites` and
`CopyReturns`, which sends to `done` and includes the deferred `CloseWrite`:
what can come between the two is the `Close` of the whole link, which includes
it. `BridgeEnds` is `<-done`; `CloseLinks` closes both links, one after the
other in the code, in one step here, as nothing depends on the moment between
them. A handler that returns an error resets the stream it came with
(`HandleFails`, `Aborts`), as `SetupStreamHandlers` does. The address frame is
one piece, number 0.

`Pipe` is all of that as the client and the target see it: an end puts pieces
in, gets the next piece, sees the end of its stream, stops sending or leaves,
and something on the way may be reset. The end of a stream comes behind
everything sent, unless there was a reset or the receiver itself had stopped
sending; behind the end nothing comes. The mapping takes `stopped`, `gone` and
`broken` from the outermost links and the resets of the tunnel.

### ProxyRequest

The complement of `RelayTunnel`: one request, byte by byte, over a tunnel that
is one stream. `coming` is what the client still has to deliver, `Arrive(k)`
delivers any number of bytes of it, and `Reads(k)` is `conn.Read` with a
buffer of `k` bytes: it takes what is there and leaves zeros for the rest.
The history variable `cut` records that a read fell short. The stages
`greeting` to `port` are the reads of `handleAuthentication` and
`handleRequest`, each with the replies of its early returns; `path` and `name`
are the peers visited and those left in the protocol name; `SendLength` and
`SendAddress` are the two writes of `sendTargetAddr`, with the length modulo
`Radix`; `ReadLength` and `ReadAddress` are `readTargetAddr`. Text is a
sequence of items: a byte of a domain name, a whole IP address, the colon, the
port. `Sent` is all the client sends; `OnlyData` says that the target gets a run of
it, and where the run begins. A domain name is taken to hold no colon. `Dial` needs a port, as `net.DialTimeout` does.

### Configuration and NodeLifecycle

`Configuration` is pure: `ApplyDefaults`, `Validate`, `Override` and
`Handlers`, over records of the settings that decide something before the
node is up. `NodeLifecycle` runs the program: processes are launched with a
`-mode` flag or with `-generate-config`, load the file, fetch or create the
key (`OpenKey`, `ReadKey`, `CreateKeyFile`, `CreateRefused`, `WriteKey`), open
the store, start the host and the handlers, take a signal and shut down, and
may die at any step. `StartHost` is the rest of `Run`, in which the host comes
up; with an advertise interval below one the goroutine `Run` leaves behind then
takes the process down (`AdvertisePanics`), at once or later. Files survive; the lock of the LevelDB store goes with its
process. `SaveConfig` and `WriteKey` are the second half of a write whose first
half truncates the file, so that a start can read the file in between.
`StopNodeHandlers`, `CloseHost` and `CloseStore` are the order of
`ShutdownNode`; a failing `Stop` makes `main` return with the rest still open,
which is `Dies`.

## 3. Runs

| Run | Bounds | Shows |
|---|---|---|
| `discovery_calls` | 2 calls, 2 servers and this node, `MaxServers` 2, strategies first, load_balance, preferred with one preferred server; symmetry in the calls | `DiscoveryTypeOK`, `LoadAccounting`, and `ImplementsSelection`: interleaved refreshes and torn stores never show in what callers get |
| `discovery_returns` | 2 calls, 2 servers for `MaxServers` 1, strategy random | `CacheSound` with more candidates than places and two refreshes at once; `CallsReturn`, whatever a query delivers until it ends |
| `socks5` | 3 connections, limit 1, 1 server | `TypeOK`, `CounterAccounting`, `LoadAccounting`, `ReplyTellsOutcome`, `NoFalseRejection`, `HandlerEnds`, `AcceptLoopExits` |
| `client_node` | 2 connections, 1 server, strategy load_balance, `MaxServers` 1 | `NodeLoads`: the discovery's count of a server is the number of handlers using it; `ImplementsHandler` |
| `mesh_discovery` | 2 candidates for one place, 2 failures allowed per unit of time | `TypeOK` (no count above the limit), `DialRate` (between two successes), `MeshSound`, `GoroutineExits`, `GoodServerJoins` |
| `tunnel` | one hop, the frame and one piece of data behind it, window 1, one break | `TypeOK`, `PayloadInOrder`, `EofMeansComplete`, `ImplementsPipe`, `TunnelTornDown` |
| `request` | bytes of 3 bits, nine clients, routes of one and of three peers | `TypeOK`, `OnlyData`, `RouteFollowed` and `FrameComplete` wherever the pieces end; `RightTarget` and `AnswersFit` as long as no read of the handshake falls short |
| `lifecycle` | 2 processes, 2 starts, 14 configuration files, a data directory made with mode 0666 of no use | `TypeOK`, `IdentityKept`, `OneHost`, `ProxyAsConfigured`, `SignalStops` |
| `discovery_torn_list` | 2 calls, 1 server | violates `RangeStaysInArray` |
| `socks5_counter` | 3 connections, limit 1 | violates `CounterExact` |
| `socks5_loads` | as above | violates `ClosedHoldsNothing` |
| `socks5_reply` | as above | violates `RepliedBeforeBridge` |

Why the bounds are enough: three connections are the smallest number at which
one is rejected with a limit of one (two have to pass, since the comparison is
strict); two calls are enough for every pair of overlapping refreshes and
stores; two candidates for one place make the list full while peers still
arrive; a window of one makes every second write block. One hop is the
smallest chain with all three kinds of bridge; data go one way, as the two
directions of a bridge meet only in who ends first, and either may end with or
without data. With bytes of three bits a domain name of six or seven letters
already makes an address too long for its length byte, which takes 250 letters
in the program. The clients of `MCProxyRequest` take every branch of the
handshake: the three address types, an unknown one, an unknown command, a
method list without the wanted method, with it at the end, and an empty one.
Two starts are the least for a second process to find what the first left,
finished or not, and for two to race. On the safety properties the proofs
remove all these bounds. In `client_node` two connections never reach the limit
and one server leaves the strategies no choice: rejections are the business of
`socks5`, strategies that of the discovery runs, and what this run is for is a
handler, its call, a second handler that changes list and loads meanwhile, and
a `Stop`.

Deadlock is checked in the discovery and mesh runs. The SOCKS5 handler, with
the real discovery or without, the tunnel, a request and the processes really come to rest once every connection
is over or every start is used up, and their runs say so.

`Mutant of` operators next to some definitions are plausible bugs; each
property is known to fail when the one named for it in `PROJECT.json` takes
the place of the definition.

### What the code does differently from what it says

* **Torn list** (`discovery.go:580`). A range over `serverPeers` can use the
  length of one list with the array of another.
* **Connection counter** (`socks5.go:101`). The decrement is deferred before
  the limit is checked, so a rejected connection is taken off a counter it was
  never added to. `CounterAccounting` states the exact error: one per
  rejection. Each rejection raises the limit by one.
* **Loads** (`socks5.go:150`, `163`). A handler whose stream or address frame
  fails returns without `ReleaseConnection`. `LoadAccounting` of
  `Socks5Handler` states the exact error.
* **Success reply** (`socks5.go:114`, `159`). The handshake deadline runs on
  during selection; after it the reply is lost and the bridge starts.

Seen while modelling, with no run of its own:

* The limit lets `MaxConnections + 1` connections pass one after the other (the
  comparison is strict) and more if they arrive together; two `load_balance`
  calls can choose the same idle server; `ClosePeer` also closes connections
  others opened during the dial.
* Neither refresh compares a peer with those it has already collected
  (`discovery.go:316`, `553`): one that a query delivers twice, for instance
  again once its addresses are known, is in the list twice and takes two of the
  `MaxServers` places. The lists of the models have such duplicates.
* An end of a tunnel that only half-closes loses what the other side has not
  delivered yet, the reason for the condition in `EofMeansComplete`.
* A read of the handshake that falls short takes zeros for the missing bytes
  and the missing bytes for the next field (`socks5.go:182`); what is left of
  the handshake then goes to the target as data. Hence `~cut` in `RightTarget`,
  in `AnswersFit` and in the last line of `OnlyData`. An address of 256 bytes or more is framed
  with its length modulo 256 (`socks5.go:324`): the exit node then fails to
  dial, as what it reads, the first few letters of the name, has no port.
* `-mode=client` over a configuration for another mode gives a client without
  proxy (`main.go:153`, `config.go:279`), the reason for `flag = ""` in
  `ProxyAsConfigured`.
* `MkdirAll` makes the data directory with mode 0666 (`key.go:31`): unless the
  program runs as root the first start then fails, and every later one.
* `Validate` accepts negative intervals; `NewTicker` panics on that of the
  advertisements, with the host already up.
  `MaxHops` is read nowhere. The README's sample calls a key `bootstrapNodes`,
  the json tag is `boostrapNodes`. `node.go:207` speaks of server nodes, but
  every node advertises, with one more loop for every tick.

## 4. Fairness

* `FairDiscoverySpec`: weak fairness of the steps of each goroutine inside
  `SelectServer`. The query ends by `QueryTimeoutSec`, `Host.Connect` by
  `ConnectionTimeout`, the rest is computation and a mutex held briefly. That
  the steps are fair as a whole, not one by one, leaves every choice (a dial
  succeeds or fails) to the environment. Strong fairness of `ChannelCloses` is
  the time-out of the query: its channel may deliver the same peers over and
  over, but not for ever.
* `Socks5Handler`: each liveness property names the fairness it needs.
  `HandlerEnds` assumes of a handler only that its own goroutine is scheduled
  and its own deadline passes (`HandlerFairness`); `CertainStep` leaves out
  what waits for the client (the handshake before the deadline, the bridge),
  and that `SelectServer` returns is what `CallsReturn` shows.
  `AcceptLoopExits` assumes that the accept loop is scheduled, that `Stop` runs
  to its end once begun and that `Accept` returns an error once the listener
  is closed (`LoopFairness`).
* `ServerMesh!FairSpec`: the goroutine and the ticker run, time passes. Strong
  fairness of `ChannelCloses`, as above. Strong fairness of `SelectDone`, because Go's `select` picks at random among the
  ready cases, so `ctx.Done()` is not passed over for ever.
  `GoodServerJoins` states its own assumptions on the environment: the query
  keeps finding the peer, its dials eventually stop failing, it eventually
  keeps the relay protocol.
* `ProxyRequest!FairSpec`: the exit node begins to read, the SOCKS5 node sends
  the frame it has, the stream delivers, and what is there is read. Nothing is
  assumed of the client: `FrameComplete` says that the exit node, which has no
  deadline there, does not depend on it.
* `NodeLifecycle!FairSpec`: every call of a start or of a shutdown returns,
  with success or with the error that ends the process, and a goroutine that
  panics does end it. A running node runs
  on; nothing makes a signal arrive or a process be launched.
* `RelayTunnel!FairSpec`: some node, and some link or end, that can move does.
  The behaviours of the instance are finite, so this weak form is enough. The
  ends are assumed to read what arrives until they close; the program has no
  idle time-out and a stalled end does hold a tunnel.

## 5. Proofs

All theorems hold for every value of the constants under the named
assumptions: a finite set of goroutines, `Self \in Peers`,
`NoPeer \notin Peers`, positive limits. A finite `Conns` bounds the number of
calls in one behaviour, not their interleaving; `Peers` may be infinite.

`ClientDiscoveryProofs`
* `TypeCorrect`, `LoadsExact`: from `IInv == TypesOK /\ LoadAccounting` with
  `TypesOK == SharedTypes /\ CallTypes /\ CallsOK`. The type of `avail` needs the bound on the
  length word and on the lists being collected (`CallsOK`); that
  `activeConns` never goes negative needs the ledger, so `SharedTypes` first
  only says `Int`.
* `Refinement`: `DiscoverySpec => ImplementsSelection`. Every step of a refresh
  is a stutter, `TrackConnection` is `Select`, `ReleaseConnection` is
  `Release` (`CallSeen`, `SelectServerSeen`, `ReleaseSeen`). The clamp at zero never fires because the ledger shows the caller
  itself among those counted.
* `CacheCorrect`: `CacheSound`, with `CallsOK` and `ListsOK` as the
  strengthening: what a refresh has collected is within the bound and does not
  hold this node, and while a peer is in hand it is another node and there is a
  place left. The words of the cached list are always those of lists with that
  property, though not always of the same one. Duplicates are
  possible and not excluded.

`Socks5HandlerProofs`
* `IInv == Types /\ Phases /\ Ledger /\ CounterAccounting`. `Phases` ties the
  place of each handler to the state of its `SelectServer` call and its
  outcome; `Ledger` is the count of `ServerSelection` in terms of calls;
  `CounterAccounting` is inductive with them.
* `TypeCorrect`, `CounterCorrect`, `LoadCorrect` follow, and
  `RejectionJustified`: since the counter never exceeds the number of served
  handlers, a rejection implies more than `MaxConnections` of them.
* `ReplyTrue`: `ReplyTellsOutcome`, with `Replies` as the strengthening, which
  says where a handler is that has replied: with a success between the open
  stream and its end, with a failure on its way out.

`ClientNodeProofs`
* `NodeIsHandler`: `NodeSpec => ImplementsHandler`. A step inside
  `SelectServer` is a step of `ServerSelection` by the lemmas of
  `ClientDiscoveryProofs`, and with the handlers standing still that is a step
  of `Socks5Handler` or a stutter; the other steps are theirs by definition.
  So the theorems about `Socks5Handler` speak of the real discovery.
* `NodeCache`: the steps of a node are steps of the discovery
  (`NodeDiscovers`), so `CacheSound` carries over.
* `NodeLoadsExact`: the ledger of the discovery counts calls, `UsedBy` counts
  handlers. `NodePhases` says that the two agree: a call is under way exactly
  while its handler waits in "select", holds a server exactly while the handler
  uses it or found it of no use, and is released exactly when it was bridged.

`ServerMeshProofs`
* `MeshTypes`, `MeshListsSound`, `DialRateHolds`: from
  `IInv == Types /\ Round /\ Lists /\ Blacklist`. `Round` says that the peer in
  hand is not this node and that there is room for it. `Blacklist` is what
  makes `DialRate` inductive: failures the count has forgotten are out of date,
  the count is that of the latest failures, and none is more recent than
  `LastFailure`, so that an expired blacklisting may forget them all.

`RelayTunnelProofs`, for any number of hops, amount of data, window and breaks
* `TunnelTypes`: with `Opening`, which ties what is closed, reset, or being
  copied to links that exist.
* `PayloadCorrect`: that a tunnel neither drops nor swaps anything is no
  property of a single link. The invariant says that there is a numbering `f`
  (`f[l][d]` is the number of the piece link `l` takes next) such that what is
  on each link is a run of consecutive numbers up to it (`Runs`), a goroutine
  holds exactly the piece its next link takes (`InHand`), neighbouring links
  differ by what is on the one and in the hands of the node between them
  (`Passages`; only while that node can still read, as a node that closed or
  was reset does lose data), and the end that receives has got all before
  what its link holds (`Delivered`). The address is number 0, put in by the
  first node and taken out by the last, which is the `Shift`. Every step is
  one of three kinds: it takes a piece (`TakeStep`), puts one (`PutStep`, which
  changes `f`), or leaves runs alone or loses one that nobody will read
  (`QuietStep`).
* `EofCorrect`: the invariant is `EofInv`, the same numbering together with, as
  long as no link was reset, `Closing` and `Draining(f)`. `Closing`: a node
  shuts what it writes exactly when a copying goroutine ended or its handler
  returned, and a bridge ends because of a goroutine. `Draining(f)`: a
  direction whose receiver has not stopped sending is the first to end at every
  node and ends in full, so that its sink is shut only when its source is shut
  and empty and nothing is held, and a shut link takes no number but the one
  after the last piece sent. `Fixed` says that the number of a shut link is
  final, which carries `Draining` from the old numbering to the new one.

* `TunnelIsPipe`: `Spec => ImplementsPipe`, from `PipeInv == TunnelInv /\ EofInv
  /\ AfterEnd`. That the next piece received is the next one sent is
  `Runs` and `Delivered`; that an end seen too early needs a reset or a
  receiver that stopped is `Draining`; that nothing comes behind the end is
  `AfterEnd`: the last link of a direction whose end was seen is shut and empty,
  and stays so, because the node that could write on it has shut it.

`ProxyRequestProofs`, for any byte width, clients and routes
* `RequestTypes`, `ConnectsToTarget`, `DataOnly`, `RouteKept`, `AnswersTrue`:
  from `RequestInv == TypeOK /\ InOrder /\ Sized /\ Tunnel /\ Received /\
  Faithful /\ Chain`.
  `InOrder`: the bytes not yet read are the rest of what the client sent, also
  after a short read, which only stops at another place than it should.
  `Tunnel`: the items in the tunnel are what is left of the frame and then the
  bytes from `Begin` on, the place where the handshake stopped reading; it
  stays where it is once the bridge has begun. `Received`: what the target has
  is the run from some place, `Begin` while the tunnel lasts and the end of the
  request unless a read fell short. `Sized`: whatever was read, a target
  address has at most `Radix + 1` items. `Faithful`: without a short read each field is the client's. `Chain`:
  path and name together are the route. The argument for addresses that are
  too long: a domain name has fewer than `Radix` bytes and colon and port are
  two items, so that the text of `Radix` items or more leaves a length of 0 or
  1, and one item never holds both a colon and what follows it.

`NodeLifecycleProofs`, for any processes, files and number of starts
* `LifecycleTypes`, `OneIdentity`, `OneHostAtATime`, `ProxyCorrect`: from
  `IInv == TypeOK /\ OpenInv /\ ConfigInv /\ KeyInv`. `OpenInv`: what a process
  has open is a function of its stage, and one process has the store.
  `ConfigInv`: a process past `Load` runs with a validated file overridden by
  its flag. `KeyInv`: until two processes generate keys at the same time, the
  key file, the keys of the processes and those of all hosts are one.

Every safety property of the runs, invariant, action property or refinement, is
a theorem. Only model-checked: the liveness properties `CallsReturn`,
`HandlerEnds`, `AcceptLoopExits`, `GoroutineExits`, `GoodServerJoins`,
`TunnelTornDown`, `FrameComplete` and `SignalStops`, since fairness and ENABLED
are beyond the prover.

## 6. Not modelled

* `GetAvailableServers` on a started `ServerDiscovery`: no caller exists. A
  second `Start` after `Stop`: the registry never does it.
* An unknown selection strategy: `Validate` rejects it.
* `GetServerLoad`, the `LastUsed` fields, log lines, proxy IDs: nothing reads
  them to decide anything.
* The libp2p host, its DHT and the dials of bootstrap peers: one step,
  `StartHost`. The bootstrap goroutines share the variable `err` without a
  lock; nothing is decided by it.
* Settings that decide nothing before the node is up (limits of the connection
  manager, log file names, time-outs): they are handed to libraries.
* Advertisement: one goroutine that hands a name to `dutil.Advertise` on each
  tick and on whose result nothing waits; it keeps no state.
* Bootstrap address parsing (`utils/p2p.go`): two pure conversions that panic on
  a malformed address, one of the ways to die in `NodeLifecycle`. Flags other
  than `-mode` and `-generate-config`, help, version and log set-up: pure I/O.
