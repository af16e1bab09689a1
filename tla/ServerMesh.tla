----------------------------- MODULE ServerMesh -----------------------------
(***************************************************************************)
(* ServerDiscovery as a server node runs it (server/handlers/discovery.go, *)
(* started = true): one goroutine that, on every tick of the update        *)
(* interval, queries the DHT, dials the peers it does not know, drops the  *)
(* ones that turn out to be clients, and keeps the rest as the mesh list.  *)
(* Peers that fail three dials in a row are left alone for ten minutes.    *)
(* The registry starts a handler once, so Start is not modelled again      *)
(* after Stop; nothing but this goroutine touches the list.                *)
(***************************************************************************)
EXTENDS Integers, Sequences

CONSTANTS
  Peers,         \* the peers advertising the service name, Self included
  Self,          \* this node
  NoPeer,        \* no peer being looked at
  MaxServers,    \* config.Discovery.MaxServers
  MaxFailures,   \* maxFailures, 3 in the code
  BlacklistTime  \* blacklistTime, ten minutes in the code, in ticks of time

ASSUME MeshAssumption ==
  /\ Self \in Peers
  /\ NoPeer \notin Peers
  /\ MaxServers \in Nat \ {0}
  /\ MaxFailures \in Nat \ {0}
  /\ BlacklistTime \in Nat \ {0}

VARIABLES
  started,         \* Start was called and Stop was not
  ctxDone,         \* sd.ctx is cancelled
  tickPending,     \* ticker.C, a channel of one slot
  pc,              \* where the discovery goroutine is
  seen,            \* history: peers this round's FindPeers channel has delivered
  candidate,       \* the peer in hand
  justConnected,   \* its Connectedness was 0 when it was looked at
  newServers,      \* the list being collected
  serverPeers,     \* the mesh list
  connected,       \* peers with an open connection, whoever opened it
  relays,          \* peers whose peerstore entry lists the relay protocol
  failureCount,    \* peerFailures[p].FailureCount, 0 without an entry
  sinceFailure,    \* time since peerFailures[p].LastFailure, up to BlacklistTime
  recentFailures   \* history: ages of the last MaxFailures + 1 failed dials since
                   \* the last success, latest first, up to BlacklistTime

controlVars == <<started, ctxDone, tickPending>>
roundVars == <<seen, candidate, justConnected, newServers>>
networkVars == <<connected, relays>>
failureVars == <<failureCount, sinceFailure, recentFailures>>
vars == <<controlVars, pc, roundVars, serverPeers, networkVars, failureVars>>

Others == Peers \ {Self}

History == [1 .. MaxFailures + 1 -> 0 .. BlacklistTime]
NoFailures == [i \in 1 .. MaxFailures + 1 |-> BlacklistTime]
WithFailure(ages) == [i \in 1 .. MaxFailures + 1 |-> IF i = 1 THEN 0 ELSE ages[i - 1]]

(* In particular no peer is ever charged with more than MaxFailures.       *)
TypeOK ==
  /\ started \in BOOLEAN
  /\ ctxDone \in BOOLEAN
  /\ tickPending \in BOOLEAN
  /\ pc \in {"idle", "find", "collect", "dial", "verify", "close", "publish", "select", "exited"}
  /\ seen \subseteq Peers
  /\ candidate \in Others \cup {NoPeer}
  /\ justConnected \in BOOLEAN
  /\ newServers \in Seq(Others)
  /\ serverPeers \in Seq(Others)
  /\ connected \subseteq Others
  /\ relays \subseteq Others
  /\ failureCount \in [Others -> 0 .. MaxFailures]
  /\ sinceFailure \in [Others -> 0 .. BlacklistTime]
  /\ recentFailures \in [Others -> History]

Init ==
  /\ started = FALSE
  /\ ctxDone = FALSE
  /\ tickPending = FALSE
  /\ pc = "idle"
  /\ seen = {}
  /\ candidate = NoPeer
  /\ justConnected = FALSE
  /\ newServers = <<>>
  /\ serverPeers = <<>>
  /\ connected = {}
  /\ relays = {}
  /\ failureCount = [p \in Others |-> 0]
  /\ sinceFailure = [p \in Others |-> BlacklistTime]
  /\ recentFailures = [p \in Others |-> NoFailures]

Goto(from, to) == pc = from /\ pc' = to
-----------------------------------------------------------------------------
(* Start, Stop and the ticker.                                             *)

Start ==
  /\ Goto("idle", "find")
  /\ started' = TRUE
  /\ UNCHANGED <<ctxDone, tickPending, roundVars, serverPeers, networkVars, failureVars>>

(* Mutant of Stop: the flag alone is cleared.                              *)
StopUncancelled ==
  /\ started
  /\ started' = FALSE
  /\ UNCHANGED <<ctxDone, tickPending, pc, roundVars, serverPeers, networkVars, failureVars>>

Stop ==
  /\ started
  /\ ctxDone' = TRUE
  /\ started' = FALSE
  /\ UNCHANGED <<tickPending, pc, roundVars, serverPeers, networkVars, failureVars>>

(* A tick that finds the slot taken is dropped.                            *)
TickerFires ==
  /\ pc \notin {"idle", "exited"}
  /\ ~tickPending
  /\ tickPending' = TRUE
  /\ UNCHANGED <<started, ctxDone, pc, roundVars, serverPeers, networkVars, failureVars>>

SelectTick ==
  /\ Goto("select", "find")
  /\ tickPending
  /\ tickPending' = FALSE
  /\ UNCHANGED <<started, ctxDone, roundVars, serverPeers, networkVars, failureVars>>

SelectDone ==
  /\ Goto("select", "exited")
  /\ ctxDone
  /\ UNCHANGED <<controlVars, roundVars, serverPeers, networkVars, failureVars>>
-----------------------------------------------------------------------------
(* isBlacklisted, recordConnectionFailure and recordConnectionSuccess.     *)

(* Mutant of Blacklisted: a peer stays on the blacklist for good.          *)
BlacklistedForGood(p) == failureCount[p] >= MaxFailures

Blacklisted(p) == failureCount[p] >= MaxFailures /\ sinceFailure[p] < BlacklistTime

(* Mutant of ForgiveExpired: the count is kept.                            *)
ForgiveNothing(p) == UNCHANGED failureCount

(* isBlacklisted clears the count of a peer whose time is over.            *)
ForgiveExpired(p) ==
  failureCount' = [failureCount EXCEPT ![p] = IF @ >= MaxFailures THEN 0 ELSE @]

(* Mutant of RecordFailure: LastFailure keeps its first value.             *)
RecordFirstFailure(p) ==
  /\ failureCount' = [failureCount EXCEPT ![p] = @ + 1]
  /\ sinceFailure' = [sinceFailure EXCEPT ![p] = IF failureCount[p] = 0 THEN 0 ELSE @]
  /\ recentFailures' = [recentFailures EXCEPT ![p] = WithFailure(@)]

RecordFailure(p) ==
  /\ failureCount' = [failureCount EXCEPT ![p] = @ + 1]
  /\ sinceFailure' = [sinceFailure EXCEPT ![p] = 0]
  /\ recentFailures' = [recentFailures EXCEPT ![p] = WithFailure(@)]

RecordSuccess(p) ==
  /\ failureCount' = [failureCount EXCEPT ![p] = 0]
  /\ recentFailures' = [recentFailures EXCEPT ![p] = NoFailures]
  /\ UNCHANGED sinceFailure
-----------------------------------------------------------------------------
(* refreshServerList.                                                      *)

FindPeersFails ==
  /\ Goto("find", "select")
  /\ UNCHANGED <<controlVars, roundVars, serverPeers, networkVars, failureVars>>

FindPeers ==
  /\ Goto("find", "collect")
  /\ UNCHANGED <<controlVars, roundVars, serverPeers, networkVars, failureVars>>

(* The query is exhausted or QueryTimeoutSec is over.                      *)
ChannelCloses ==
  /\ Goto("collect", "publish")
  /\ UNCHANGED <<controlVars, roundVars, serverPeers, networkVars, failureVars>>

(* Mutant of Full: the limit is off by one.                                *)
FullPastLimit(list) == Len(list) > MaxServers

Full(list) == Len(list) >= MaxServers

(* The next peer of the channel, delivered before or not.                  *)
ReceivePeer(p) ==
  /\ pc = "collect"
  /\ seen' = seen \cup {p}
  /\ \/ /\ p = Self
        /\ UNCHANGED <<pc, candidate, justConnected, failureCount>>
     \/ /\ p # Self
        /\ Full(newServers)
        /\ pc' = "publish"
        /\ UNCHANGED <<candidate, justConnected, failureCount>>
     \/ /\ p # Self
        /\ ~Full(newServers)
        /\ Blacklisted(p)
        /\ UNCHANGED <<pc, candidate, justConnected, failureCount>>
     \/ /\ p # Self
        /\ ~Full(newServers)
        /\ ~Blacklisted(p)
        /\ ForgiveExpired(p)
        /\ candidate' = p
        /\ justConnected' = (p \notin connected)
        /\ pc' = IF p \in connected THEN "verify" ELSE "dial"
  /\ UNCHANGED <<controlVars, newServers, serverPeers, networkVars, sinceFailure, recentFailures>>

(* Host.Connect returns at once when the peer is connected by then, and    *)
(* cannot dial on a cancelled context.                                     *)
DialSucceeds ==
  /\ Goto("dial", "verify")
  /\ ctxDone => candidate \in connected
  /\ connected' = connected \cup {candidate}
  /\ RecordSuccess(candidate)
  /\ UNCHANGED <<controlVars, roundVars, serverPeers, relays>>

DialFails ==
  /\ Goto("dial", "collect")
  /\ RecordFailure(candidate)
  /\ candidate' = NoPeer
  /\ UNCHANGED <<controlVars, seen, justConnected, newServers, serverPeers, networkVars>>

(* isExitCapableServer, after the sleep that gives the peer time to        *)
(* register its protocols.                                                 *)
Verified ==
  /\ Goto("verify", "collect")
  /\ candidate \in relays
  /\ newServers' = Append(newServers, candidate)
  /\ candidate' = NoPeer
  /\ UNCHANGED <<controlVars, seen, justConnected, serverPeers, networkVars, failureVars>>

NotVerified ==
  /\ pc = "verify"
  /\ candidate \notin relays
  /\ IF justConnected
       THEN pc' = "close" /\ UNCHANGED candidate
       ELSE pc' = "collect" /\ candidate' = NoPeer
  /\ UNCHANGED <<controlVars, seen, justConnected, newServers, serverPeers, networkVars, failureVars>>

(* Network().ClosePeer closes every connection of the peer.                *)
ClosePeer ==
  /\ Goto("close", "collect")
  /\ connected' = connected \ {candidate}
  /\ candidate' = NoPeer
  /\ UNCHANGED <<controlVars, seen, justConnected, newServers, serverPeers, relays, failureVars>>

Publish ==
  /\ Goto("publish", "select")
  /\ serverPeers' = newServers
  /\ newServers' = <<>>
  /\ seen' = {}
  /\ justConnected' = FALSE
  /\ UNCHANGED <<controlVars, candidate, networkVars, failureVars>>

Refresh ==
  \/ FindPeersFails
  \/ FindPeers
  \/ ChannelCloses
  \/ \E p \in Peers : ReceivePeer(p)
  \/ DialSucceeds
  \/ DialFails
  \/ Verified
  \/ NotVerified
  \/ ClosePeer
  \/ Publish
-----------------------------------------------------------------------------
(* The network: connections others open, connections that break, protocol  *)
(* lists learnt or updated by identify; and time.                          *)

OtherConnects(p) ==
  /\ connected' = connected \cup {p}
  /\ UNCHANGED <<controlVars, pc, roundVars, serverPeers, relays, failureVars>>

Disconnects(p) ==
  /\ connected' = connected \ {p}
  /\ UNCHANGED <<controlVars, pc, roundVars, serverPeers, relays, failureVars>>

Identify(p) ==
  /\ relays' = IF p \in relays THEN relays \ {p} ELSE relays \cup {p}
  /\ UNCHANGED <<controlVars, pc, roundVars, serverPeers, connected, failureVars>>

Older(age) == IF age < BlacklistTime THEN age + 1 ELSE BlacklistTime

TimePasses ==
  /\ \E p \in Others : sinceFailure[p] < BlacklistTime
  /\ sinceFailure' = [p \in Others |-> Older(sinceFailure[p])]
  /\ recentFailures' = [p \in Others |->
                          [i \in 1 .. MaxFailures + 1 |-> Older(recentFailures[p][i])]]
  /\ UNCHANGED <<controlVars, pc, roundVars, serverPeers, networkVars, failureCount>>

Network == \E p \in Others : OtherConnects(p) \/ Disconnects(p) \/ Identify(p)

Next ==
  \/ Start
  \/ Stop
  \/ TickerFires
  \/ SelectTick
  \/ SelectDone
  \/ Refresh
  \/ Network
  \/ TimePasses

Spec == Init /\ [][Next]_vars

(* The goroutine is scheduled, dials are bounded by a timeout, time        *)
(* passes.  A query ends by QueryTimeoutSec: its channel may deliver       *)
(* whatever it likes, but is not found open for ever.  select chooses at   *)
(* random among its ready cases, so a cancelled context is not passed over *)
(* for ever in favour of the ticker.                                       *)
FairSpec ==
  /\ Spec
  /\ WF_vars(Refresh)
  /\ SF_vars(ChannelCloses)
  /\ WF_vars(TickerFires)
  /\ WF_vars(SelectTick)
  /\ SF_vars(SelectDone)
  /\ WF_vars(TimePasses)
-----------------------------------------------------------------------------
Members(list) == {list[i] : i \in DOMAIN list}

(* Neither the mesh list nor the list being collected ever has more than   *)
(* MaxServers entries, or this node among them.                            *)
MeshSound ==
  \A list \in {serverPeers, newServers} :
    /\ Len(list) <= MaxServers
    /\ Self \notin Members(list)

(* Between two successes no peer is failed on more than MaxFailures times  *)
(* within any BlacklistTime, whatever counts were forgiven meanwhile: the  *)
(* last failure but MaxFailures is always out of date.                     *)
DialRate == \A p \in Others : recentFailures[p][MaxFailures + 1] = BlacklistTime

(* Stop ends the goroutine, in the middle of a refresh or between two.     *)
GoroutineExits == (pc # "idle" /\ ~started) ~> pc = "exited"

(* Blacklisting is never permanent: a relay server the query keeps finding *)
(* and whose dials no longer fail is in the mesh again and again, unless   *)
(* other servers fill the list or discovery is stopped.                    *)
GoodServerJoins ==
  \A p \in Others :
    (/\ <>[](p \in relays)
     /\ <>[][~(DialFails /\ candidate = p)]_vars
     /\ []<>(p \in seen))
    => []<>(p \in Members(serverPeers) \/ Full(serverPeers) \/ pc = "exited")
=============================================================================
