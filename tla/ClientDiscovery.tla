--------------------------- MODULE ClientDiscovery ---------------------------
(***************************************************************************)
(* ServerDiscovery as a client node uses it (server/handlers/discovery.go, *)
(* started = false).  Every SOCKS5 connection is handled by a goroutine of *)
(* its own and each of them calls SelectServer on the one shared           *)
(* ServerDiscovery: the calls refresh the cached list, filter it and pick  *)
(* a server concurrently.  serverLoads is guarded by loadMutex; the list   *)
(* and lastUpdate are guarded by nothing.                                  *)
(***************************************************************************)
EXTENDS Integers, Sequences, FiniteSets

CONSTANTS
  Conns,              \* the goroutines, one per accepted SOCKS5 connection
  Peers,              \* the peers advertising the service name, Self included
  Self,               \* this node: Run advertises every node, clients too
  NoPeer,             \* no peer chosen yet
  MaxServers,         \* config.Discovery.MaxServers
  Strategies,         \* the values SelectionStrategy may have in a behaviour
  PreferredExitNodes  \* config.Discovery.PreferredExitNodes

ASSUME DiscoveryAssumption ==
  /\ IsFiniteSet(Conns)
  /\ Self \in Peers
  /\ NoPeer \notin Peers
  /\ MaxServers \in Nat \ {0}
  /\ Strategies \subseteq {"first", "random", "load_balance", "preferred"}
  /\ PreferredExitNodes \subseteq Peers

VARIABLES
  strategy,     \* the configured SelectionStrategy, fixed at start
  ctxDone,      \* the context handed to SelectServer is cancelled
  connected,    \* Host.Network().Connectedness of each peer
  serverPeers,  \* the slice header of the cached list: array and length words
  stale,        \* time.Since(lastUpdate) > updateInterval
  activeConns,  \* serverLoads[p].ActiveConns, 0 when there is no entry
  totalConns,   \* serverLoads[p].TotalConns, 0 when there is no entry
  dpc,          \* where each goroutine is in SelectServer
  candidate,    \* the peer it is dialling
  newServers,   \* the list its refresh has collected
  unwritten,    \* words of serverPeers its refresh still has to store
  ranged,       \* the entries its range over the cached list has yet to look at
  avail,        \* the servers GetAvailableServers returned, or is returning, to it
  chosen        \* the server it selected

sharedVars == <<strategy, ctxDone, connected, serverPeers, stale, activeConns, totalConns>>
callVars == <<dpc, candidate, newServers, unwritten, ranged, avail, chosen>>
discoveryVars == <<sharedVars, callVars>>

CallStates == {"idle", "check", "find", "collect", "dial", "publish", "touch",
               "filter", "range", "select", "track", "selected", "released", "none"}

(* Some positions of a list of at most MaxServers entries and what is      *)
(* found there: what is left of a list keeps the order of the list.        *)
PartialLists(S) == UNION {[D -> S] : D \in SUBSET (1 .. MaxServers)}

DiscoveryTypeOK ==
  /\ strategy \in Strategies
  /\ ctxDone \in BOOLEAN
  /\ connected \in [Peers -> {"no", "yes", "limited"}]
  /\ serverPeers \in [ptr : Seq(Peers), len : Nat]
  /\ stale \in BOOLEAN
  /\ activeConns \in [Peers -> Nat]
  /\ totalConns \in [Peers -> Nat]
  /\ dpc \in [Conns -> CallStates]
  /\ candidate \in [Conns -> Peers \cup {NoPeer}]
  /\ newServers \in [Conns -> Seq(Peers)]
  /\ unwritten \in [Conns -> SUBSET {"ptr", "len"}]
  /\ ranged \in [Conns -> PartialLists(Peers \cup {NoPeer})]
  /\ avail \in [Conns -> PartialLists(Peers)]
  /\ chosen \in [Conns -> Peers \cup {NoPeer}]

(* NewServerDiscovery: an empty list and a zero lastUpdate. *)
DiscoveryInit ==
  /\ strategy \in Strategies
  /\ ctxDone = FALSE
  /\ connected = [p \in Peers |-> "no"]
  /\ serverPeers = [ptr |-> <<>>, len |-> 0]
  /\ stale = TRUE
  /\ activeConns = [p \in Peers |-> 0]
  /\ totalConns = [p \in Peers |-> 0]
  /\ dpc = [t \in Conns |-> "idle"]
  /\ candidate = [t \in Conns |-> NoPeer]
  /\ newServers = [t \in Conns |-> <<>>]
  /\ unwritten = [t \in Conns |-> {}]
  /\ ranged = [t \in Conns |-> <<>>]
  /\ avail = [t \in Conns |-> <<>>]
  /\ chosen = [t \in Conns |-> NoPeer]

Goto(t, from, to) == dpc[t] = from /\ dpc' = [dpc EXCEPT ![t] = to]
-----------------------------------------------------------------------------
(* GetAvailableServers and refreshServerListForClient.                     *)

Call(t) ==
  /\ Goto(t, "idle", "check")
  /\ UNCHANGED <<sharedVars, candidate, newServers, unwritten, ranged, avail, chosen>>

CheckStale(t) ==
  /\ Goto(t, "check", IF stale THEN "find" ELSE "filter")
  /\ UNCHANGED <<sharedVars, candidate, newServers, unwritten, ranged, avail, chosen>>

(* The query fails to start: the error is logged, the cached list stays.   *)
FindPeersFails(t) ==
  /\ Goto(t, "find", "filter")
  /\ UNCHANGED <<sharedVars, candidate, newServers, unwritten, ranged, avail, chosen>>

FindPeers(t) ==
  /\ Goto(t, "find", "collect")
  /\ UNCHANGED <<sharedVars, candidate, newServers, unwritten, ranged, avail, chosen>>

EndOfList(t) ==
  /\ unwritten' = [unwritten EXCEPT ![t] = {"ptr", "len"}]
  /\ UNCHANGED <<sharedVars, candidate, newServers, ranged, avail, chosen>>

(* The channel closes: the query is exhausted, or QueryTimeoutSec or the   *)
(* caller's context ended it.  The loop cannot tell these apart.           *)
ChannelCloses(t) ==
  /\ Goto(t, "collect", "publish")
  /\ EndOfList(t)

(* Mutant of Full: the limit is off by one.                                *)
FullPastLimit(list) == Len(list) > MaxServers

Full(list) == Len(list) >= MaxServers

(* The next peer of the channel, delivered before or not.                  *)
ReceivePeer(t, p) ==
  /\ dpc[t] = "collect"
  /\ \/ /\ p = Self
        /\ UNCHANGED <<sharedVars, dpc, candidate, newServers, unwritten, ranged, avail, chosen>>
     \/ /\ p # Self
        /\ Full(newServers[t])
        /\ Goto(t, "collect", "publish")
        /\ EndOfList(t)
     \/ /\ p # Self
        /\ ~Full(newServers[t])
        /\ connected[p] = "no"
        /\ Goto(t, "collect", "dial")
        /\ candidate' = [candidate EXCEPT ![t] = p]
        /\ UNCHANGED <<sharedVars, newServers, unwritten, ranged, avail, chosen>>
     \/ /\ p # Self
        /\ ~Full(newServers[t])
        /\ connected[p] # "no"
        /\ newServers' = [newServers EXCEPT ![t] = Append(@, p)]
        /\ UNCHANGED <<sharedVars, dpc, candidate, unwritten, ranged, avail, chosen>>

(* Host.Connect returns.  It succeeds at once when the peer is connected   *)
(* by then, and cannot dial on a cancelled context.                        *)
DialSucceeds(t) ==
  /\ Goto(t, "dial", "collect")
  /\ ctxDone => connected[candidate[t]] = "yes"
  /\ connected' = [connected EXCEPT ![candidate[t]] = "yes"]
  /\ newServers' = [newServers EXCEPT ![t] = Append(@, candidate[t])]
  /\ candidate' = [candidate EXCEPT ![t] = NoPeer]
  /\ UNCHANGED <<strategy, ctxDone, serverPeers, stale, activeConns, totalConns,
                 unwritten, ranged, avail, chosen>>

(* Mutant of DialFails: the peer is dialled again instead of skipped.      *)
DialFailsRetries(t) ==
  /\ Goto(t, "dial", "dial")
  /\ UNCHANGED <<sharedVars, candidate, newServers, unwritten, ranged, avail, chosen>>

DialFails(t) ==
  /\ Goto(t, "dial", "collect")
  /\ candidate' = [candidate EXCEPT ![t] = NoPeer]
  /\ UNCHANGED <<sharedVars, newServers, unwritten, ranged, avail, chosen>>

(* sd.serverPeers = newServers, without a lock: the length word and the    *)
(* array word of the slice are stored one by one, in either order as far   *)
(* as another goroutine can tell.                                          *)
StoreWord(t, w) ==
  /\ w \in unwritten[t]
  /\ unwritten' = [unwritten EXCEPT ![t] = @ \ {w}]
  /\ Goto(t, "publish", IF unwritten[t] = {w} THEN "touch" ELSE "publish")
  /\ serverPeers' = IF w = "ptr" THEN [serverPeers EXCEPT !.ptr = newServers[t]]
                                 ELSE [serverPeers EXCEPT !.len = Len(newServers[t])]
  /\ UNCHANGED <<strategy, ctxDone, connected, stale, activeConns, totalConns,
                 candidate, newServers, ranged, avail, chosen>>

(* sd.lastUpdate = time.Now(), and the locals of the refresh go away.      *)
TouchLastUpdate(t) ==
  /\ Goto(t, "touch", "filter")
  /\ stale' = FALSE
  /\ newServers' = [newServers EXCEPT ![t] = <<>>]
  /\ UNCHANGED <<strategy, ctxDone, connected, serverPeers, activeConns, totalConns,
                 candidate, unwritten, ranged, avail, chosen>>

(* What a range over the slice yields for the words as they are now.  An   *)
(* index past the array yields memory that is no list entry, NoPeer here.  *)
CachedList ==
  [i \in 1 .. serverPeers.len |->
     IF i <= Len(serverPeers.ptr) THEN serverPeers.ptr[i] ELSE NoPeer]

(* Mutant of Usable: any entry not known to be disconnected counts.        *)
UsableUnlessDown(p) == p # Self /\ p \notin {q \in Peers : connected[q] = "no"}

Usable(p) == p \in Peers \ {Self} /\ connected[p] = "yes"

(* The positions of a list whose entry passes a test, as a smaller list.   *)
Keep(list, Test(_)) == [i \in {j \in DOMAIN list : Test(list[j])} |-> list[i]]

(* range evaluates sd.serverPeers once ...                                 *)
StartRange(t) ==
  /\ Goto(t, "filter", IF serverPeers.len = 0 THEN "select" ELSE "range")
  /\ ranged' = [ranged EXCEPT ![t] = CachedList]
  /\ UNCHANGED <<sharedVars, candidate, newServers, unwritten, avail, chosen>>

(* ... and looks at one entry after the other, while links change.         *)
CheckServer(t) ==
  \E i \in DOMAIN ranged[t] :
    LET server == ranged[t][i]
        rest == DOMAIN ranged[t] \ {i}
        found == DOMAIN avail[t] \cup (IF Usable(server) THEN {i} ELSE {})
    IN /\ \A j \in rest : i < j
       /\ Goto(t, "range", IF rest = {} THEN "select" ELSE "range")
       /\ ranged' = [ranged EXCEPT ![t] = [j \in rest |-> @[j]]]
       /\ avail' = [avail EXCEPT ![t] = [j \in found |-> IF j \in DOMAIN @ THEN @[j] ELSE server]]
       /\ UNCHANGED <<sharedVars, candidate, newServers, unwritten, chosen>>
-----------------------------------------------------------------------------
(* SelectServer: the choice, then TrackConnection under loadMutex.         *)

SelectNone(t) ==
  /\ DOMAIN avail[t] = {}
  /\ Goto(t, "select", "none")
  /\ UNCHANGED <<sharedVars, candidate, newServers, unwritten, ranged, avail, chosen>>

Choose(t, p) ==
  /\ Goto(t, "select", "track")
  /\ chosen' = [chosen EXCEPT ![t] = p]
  /\ UNCHANGED <<sharedVars, candidate, newServers, unwritten, ranged, avail>>

SelectFirst(t) ==
  /\ strategy = "first"
  /\ \E i \in DOMAIN avail[t] :
       /\ \A j \in DOMAIN avail[t] : i <= j
       /\ Choose(t, avail[t][i])

SelectRandom(t) ==
  /\ strategy = "random"
  /\ \E i \in DOMAIN avail[t] : Choose(t, avail[t][i])

(* The first of the servers with the fewest active connections.            *)
IsLeastLoaded(servers, i) ==
  \A j \in DOMAIN servers :
    /\ activeConns[servers[i]] <= activeConns[servers[j]]
    /\ j < i => activeConns[servers[i]] < activeConns[servers[j]]

SelectLeastLoaded(t, servers) ==
  \E i \in DOMAIN servers : IsLeastLoaded(servers, i) /\ Choose(t, servers[i])

SelectLoadBalanced(t) ==
  /\ strategy = "load_balance"
  /\ SelectLeastLoaded(t, avail[t])

IsPreferred(p) == p \in PreferredExitNodes

SelectPreferred(t) ==
  /\ strategy = "preferred"
  /\ LET preferred == Keep(avail[t], IsPreferred)
     IN  SelectLeastLoaded(t, IF DOMAIN preferred = {} THEN avail[t] ELSE preferred)

(* Mutant of TrackConnection: the existing entry is overwritten.           *)
TrackConnectionAnew(t) ==
  /\ Goto(t, "track", "selected")
  /\ activeConns' = [activeConns EXCEPT ![chosen[t]] = 1]
  /\ totalConns' = [totalConns EXCEPT ![chosen[t]] = 1]
  /\ avail' = [avail EXCEPT ![t] = <<>>]
  /\ UNCHANGED <<strategy, ctxDone, connected, serverPeers, stale,
                 candidate, newServers, unwritten, ranged, chosen>>

TrackConnection(t) ==
  /\ Goto(t, "track", "selected")
  /\ activeConns' = [activeConns EXCEPT ![chosen[t]] = @ + 1]
  /\ totalConns' = [totalConns EXCEPT ![chosen[t]] = @ + 1]
  /\ avail' = [avail EXCEPT ![t] = <<>>]
  /\ UNCHANGED <<strategy, ctxDone, connected, serverPeers, stale,
                 candidate, newServers, unwritten, ranged, chosen>>

(* Mutant of Released: a release is counted twice.                         *)
ReleasedTwice(n) == IF n - 2 < 0 THEN 0 ELSE n - 2

(* The clamp at zero is the "safety check" of ReleaseConnection.           *)
Released(n) == IF n - 1 < 0 THEN 0 ELSE n - 1

ReleaseConnection(t) ==
  /\ Goto(t, "selected", "released")
  /\ activeConns' = [activeConns EXCEPT ![chosen[t]] = Released(@)]
  /\ UNCHANGED <<strategy, ctxDone, connected, serverPeers, stale, totalConns,
                 candidate, newServers, unwritten, ranged, avail, chosen>>

SelectServerStep(t) ==
  \/ CheckStale(t)
  \/ FindPeersFails(t)
  \/ FindPeers(t)
  \/ ChannelCloses(t)
  \/ \E p \in Peers : ReceivePeer(t, p)
  \/ DialSucceeds(t)
  \/ DialFails(t)
  \/ \E w \in {"ptr", "len"} : StoreWord(t, w)
  \/ TouchLastUpdate(t)
  \/ StartRange(t)
  \/ CheckServer(t)
  \/ SelectNone(t)
  \/ SelectFirst(t)
  \/ SelectRandom(t)
  \/ SelectLoadBalanced(t)
  \/ SelectPreferred(t)
  \/ TrackConnection(t)
-----------------------------------------------------------------------------
(* What happens around the calls: updateInterval elapses, the links to     *)
(* other peers come and go, the caller's context is cancelled.             *)

IntervalElapses ==
  /\ ~stale
  /\ stale' = TRUE
  /\ UNCHANGED <<strategy, ctxDone, connected, serverPeers, activeConns, totalConns, callVars>>

LinkChanges ==
  /\ \E p \in Peers \ {Self}, c \in {"no", "yes", "limited"} :
       connected' = [connected EXCEPT ![p] = c]
  /\ UNCHANGED <<strategy, ctxDone, serverPeers, stale, activeConns, totalConns, callVars>>

CancelContext ==
  /\ ctxDone' = TRUE
  /\ UNCHANGED <<strategy, connected, serverPeers, stale, activeConns, totalConns, callVars>>

DiscoveryNext ==
  \/ \E t \in Conns : Call(t) \/ SelectServerStep(t) \/ ReleaseConnection(t)
  \/ IntervalElapses
  \/ LinkChanges
  \/ CancelContext

DiscoverySpec == DiscoveryInit /\ [][DiscoveryNext]_discoveryVars

(* A goroutine inside SelectServer keeps running, a dial ends by           *)
(* ConnectionTimeout, and a query by QueryTimeoutSec: its channel may      *)
(* deliver whatever it likes, but is not found open for ever.              *)
FairDiscoverySpec ==
  /\ DiscoverySpec
  /\ \A t \in Conns : WF_discoveryVars(SelectServerStep(t)) /\ SF_discoveryVars(ChannelCloses(t))
-----------------------------------------------------------------------------
Members(list) == {list[i] : i \in DOMAIN list}

(* Neither word of the cached list ever says more than MaxServers entries, *)
(* and its array never lists this node, whichever refreshes stored it last *)
(* and however their stores interleaved.                                   *)
CacheSound ==
  /\ serverPeers.len <= MaxServers
  /\ Len(serverPeers.ptr) <= MaxServers
  /\ Self \notin Members(serverPeers.ptr)

Holding(p) == {t \in Conns : dpc[t] = "selected" /\ chosen[t] = p}
Served(p) == {t \in Conns : dpc[t] \in {"selected", "released"} /\ chosen[t] = p}

(* serverLoads stays exact under concurrent TrackConnection and            *)
(* ReleaseConnection; in particular the "safety check" never fires.        *)
LoadAccounting ==
  \A p \in Peers : /\ activeConns[p] = Cardinality(Holding(p))
                   /\ totalConns[p] = Cardinality(Served(p))

(* Every SelectServer call returns, a server or an error, whatever the     *)
(* network and the other calls do.                                         *)
CallsReturn ==
  \A t \in Conns : dpc[t] = "check" ~> dpc[t] \in {"selected", "none"}

(* The calls as their callers see them: module ServerSelection.            *)
callSeen == [t \in Conns |-> IF dpc[t] \in {"idle", "selected", "released", "none"}
                             THEN dpc[t] ELSE "calling"]
serverSeen == [t \in Conns |-> IF dpc[t] \in {"selected", "released"}
                               THEN chosen[t] ELSE NoPeer]

Selection == INSTANCE ServerSelection WITH call <- callSeen, chosen <- serverSeen

(* Concurrent calls look atomic to their callers: SelectServer hands out a *)
(* server that is not this node and counts it in one step, and giving it   *)
(* back takes exactly one off its count.                                   *)
ImplementsSelection == Selection!SelectionSpec

(* A range over the cached list never reads past its array                 *)
(* (discovery.go:71 "returns list of available server nodes").             *)
RangeStaysInArray ==
  \A t \in Conns : dpc[t] = "filter" => serverPeers.len <= Len(serverPeers.ptr)
=============================================================================
