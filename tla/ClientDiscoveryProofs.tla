------------------------ MODULE ClientDiscoveryProofs ------------------------
(***************************************************************************)
(* Proofs about ClientDiscovery for every number of concurrent calls,      *)
(* every set of peers and every MaxServers: its types, the ledger of       *)
(* server loads, and the refinement of ServerSelection.                    *)
(***************************************************************************)
EXTENDS ClientDiscovery, FiniteSetTheorems, TLAPS

Servers == Peers \ {Self}

(* What a range over the cached list, and what GetAvailableServers yields. *)
RangeLists == PartialLists(Peers \cup {NoPeer})
ServerLists == PartialLists(Peers)

(* The types, with room for ActiveConns below zero, and the bounds of the  *)
(* lists that the type of avail depends on.                                *)
SharedTypes ==
  /\ strategy \in Strategies
  /\ ctxDone \in BOOLEAN
  /\ connected \in [Peers -> {"no", "yes", "limited"}]
  /\ serverPeers \in [ptr : Seq(Peers), len : 0 .. MaxServers]
  /\ stale \in BOOLEAN
  /\ activeConns \in [Peers -> Int]
  /\ totalConns \in [Peers -> Nat]

CallTypes ==
  /\ dpc \in [Conns -> CallStates]
  /\ candidate \in [Conns -> Peers \cup {NoPeer}]
  /\ newServers \in [Conns -> Seq(Peers)]
  /\ unwritten \in [Conns -> SUBSET {"ptr", "len"}]
  /\ ranged \in [Conns -> RangeLists]
  /\ avail \in [Conns -> ServerLists]
  /\ chosen \in [Conns -> Peers \cup {NoPeer}]

(* What a goroutine knows at each point of its call.                       *)
CallOK(t) ==
  /\ Len(newServers[t]) <= MaxServers
  /\ dpc[t] = "dial" => candidate[t] \in Servers /\ Len(newServers[t]) < MaxServers
  /\ \A i \in DOMAIN avail[t] : avail[t][i] \in Servers
  /\ dpc[t] \in {"track", "selected", "released"} => chosen[t] \in Servers

CallsOK == \A t \in Conns : CallOK(t)

TypesOK == SharedTypes /\ CallTypes /\ CallsOK

IInv == TypesOK /\ LoadAccounting
-----------------------------------------------------------------------------
LEMMA CardinalityAdd ==
  ASSUME NEW S \in SUBSET Conns, NEW t \in Conns, t \notin S
  PROVE  Cardinality(S \cup {t}) = Cardinality(S) + 1
<1>1. IsFiniteSet(S)
  BY DiscoveryAssumption, FS_Subset DEF DiscoveryAssumption
<1> QED
  BY <1>1, FS_AddElement

LEMMA CardinalityRemove ==
  ASSUME NEW S \in SUBSET Conns, NEW t \in S
  PROVE  Cardinality(S \ {t}) = Cardinality(S) - 1
<1>1. IsFiniteSet(S)
  BY DiscoveryAssumption, FS_Subset DEF DiscoveryAssumption
<1> QED
  BY <1>1, FS_RemoveElement

LEMMA CardinalityNat ==
  ASSUME NEW S \in SUBSET Conns
  PROVE  Cardinality(S) \in Nat
BY DiscoveryAssumption, FS_Subset, FS_CardinalityType DEF DiscoveryAssumption

(* A range over the cached list yields entries, or memory past its array,  *)
(* at no more than MaxServers positions, even when its words are torn.     *)
LEMMA RangeType ==
  ASSUME SharedTypes
  PROVE  CachedList \in RangeLists
<1> DEFINE D == 1 .. serverPeers.len
<1>1. D \in SUBSET (1 .. MaxServers)
  BY DiscoveryAssumption DEF DiscoveryAssumption, SharedTypes
<1>2. \A i \in D : CachedList[i] \in Peers \cup {NoPeer}
  BY DEF CachedList, SharedTypes
<1>3. CachedList \in [D -> Peers \cup {NoPeer}]
  BY <1>2 DEF CachedList
<1> QED
  BY <1>1, <1>3 DEF RangeLists, PartialLists

(* What CheckServer leaves of the range is part of a list.                 *)
LEMMA RestType ==
  ASSUME NEW list \in RangeLists, NEW rest \in SUBSET DOMAIN list
  PROVE  [j \in rest |-> list[j]] \in RangeLists
<1> DEFINE S == Peers \cup {NoPeer}
<1>1. PICK D \in SUBSET (1 .. MaxServers) : list \in [D -> S]
  BY DEF RangeLists, PartialLists
<1>2. rest \in SUBSET (1 .. MaxServers) /\ [j \in rest |-> list[j]] \in [rest -> S]
  BY <1>1
<1> QED
  BY <1>2 DEF RangeLists, PartialLists

(* The servers found so far stay servers when one more entry is looked at. *)
LEMMA CheckServerType ==
  ASSUME TypesOK, NEW t \in Conns, CheckServer(t)
  PROVE  /\ ranged'[t] \in RangeLists
         /\ avail'[t] \in ServerLists
         /\ \A k \in DOMAIN avail'[t] : avail'[t][k] \in Servers
<1>0. /\ ranged \in [Conns -> RangeLists]
      /\ avail \in [Conns -> ServerLists]
      /\ \A k \in DOMAIN avail[t] : avail[t][k] \in Servers
  BY DEF TypesOK, CallTypes, CallsOK, CallOK
<1>1. PICK i \in DOMAIN ranged[t] :
        LET server == ranged[t][i]
            rest == DOMAIN ranged[t] \ {i}
            found == DOMAIN avail[t] \cup (IF Usable(server) THEN {i} ELSE {})
        IN /\ ranged' = [ranged EXCEPT ![t] = [j \in rest |-> ranged[t][j]]]
           /\ avail' = [avail EXCEPT ![t] = [j \in found |-> IF j \in DOMAIN avail[t]
                                                             THEN avail[t][j] ELSE server]]
  BY DEF CheckServer
<1> DEFINE server == ranged[t][i]
           rest == DOMAIN ranged[t] \ {i}
           found == DOMAIN avail[t] \cup (IF Usable(server) THEN {i} ELSE {})
           more == [j \in found |-> IF j \in DOMAIN avail[t] THEN avail[t][j] ELSE server]
<1>2. ranged'[t] = [j \in rest |-> ranged[t][j]] /\ avail'[t] = more
  BY <1>0, <1>1
<1>3. ranged'[t] \in RangeLists
  BY <1>0, <1>2, RestType
<1>4. \A k \in found : more[k] \in Servers
  BY <1>0 DEF Usable, Servers
<1>5. found \in SUBSET (1 .. MaxServers)
  BY <1>0 DEF RangeLists, ServerLists, PartialLists
<1>6. more \in [found -> Peers]
  BY <1>4 DEF Servers
<1>7. more \in ServerLists
  BY <1>5, <1>6 DEF ServerLists, PartialLists
<1>8. \A k \in DOMAIN avail'[t] : avail'[t][k] \in Servers
  BY <1>2, <1>4
<1> QED
  BY <1>2, <1>3, <1>7, <1>8

(* Whatever the strategy, the choice is one of the servers left.           *)
LEMMA ChoiceIsServer ==
  ASSUME NEW t \in Conns, CallOK(t),
         SelectFirst(t) \/ SelectRandom(t) \/ SelectLoadBalanced(t) \/ SelectPreferred(t)
  PROVE  \E p \in Servers : Choose(t, p)
<1>1. ASSUME NEW i \in DOMAIN avail[t] PROVE avail[t][i] \in Servers
  BY <1>1 DEF CallOK
<1>2. CASE SelectFirst(t) \/ SelectRandom(t)
  BY <1>1, <1>2 DEF SelectFirst, SelectRandom
<1>3. CASE SelectLoadBalanced(t)
  BY <1>1, <1>3 DEF SelectLoadBalanced, SelectLeastLoaded
<1>4. CASE SelectPreferred(t)
  <2> DEFINE K == Keep(avail[t], IsPreferred)
  <2>1. PICK servers \in {avail[t], K} : SelectLeastLoaded(t, servers)
    BY <1>4 DEF SelectPreferred
  <2>2. \A i \in DOMAIN K : i \in DOMAIN avail[t] /\ K[i] = avail[t][i]
    BY DEF Keep
  <2> QED
    BY <1>1, <2>1, <2>2 DEF SelectLeastLoaded
<1> QED
  BY <1>2, <1>3, <1>4

(* The empty list is a partial list.                                       *)
LEMMA NothingLeft ==
  /\ <<>> \in ServerLists /\ <<>> \in RangeLists
  /\ DOMAIN <<>> = {}
<1>1. <<>> \in [{} -> Peers] /\ <<>> \in [{} -> Peers \cup {NoPeer}]
  OBVIOUS
<1> QED
  BY <1>1 DEF RangeLists, ServerLists, PartialLists

(* A new ServerDiscovery satisfies the invariant.                          *)
LEMMA InitInvariant == DiscoveryInit => IInv
<1> SUFFICES ASSUME DiscoveryInit PROVE IInv
  OBVIOUS
<1> USE DiscoveryAssumption DEF DiscoveryAssumption, DiscoveryInit
<1>1. SharedTypes
  <2>1. serverPeers \in [ptr : Seq(Peers), len : 0 .. MaxServers]
    OBVIOUS
  <2>2. connected \in [Peers -> {"no", "yes", "limited"}]
    OBVIOUS
  <2>3. activeConns \in [Peers -> Int] /\ totalConns \in [Peers -> Nat]
    OBVIOUS
  <2> QED
    BY <2>1, <2>2, <2>3 DEF SharedTypes
<1>2. CallTypes
  BY NothingLeft DEF CallTypes, CallStates
<1>3. CallsOK
  BY DEF CallsOK, CallOK
<1>4. LoadAccounting
  <2>1. \A p \in Peers : Holding(p) = {} /\ Served(p) = {}
    BY DEF Holding, Served
  <2> QED
    BY <2>1, FS_EmptySet DEF LoadAccounting
<1> QED
  BY <1>1, <1>2, <1>3, <1>4 DEF IInv, TypesOK

(* The types and what each goroutine knows are preserved by every step.    *)
LEMMA TypesStep == TypesOK /\ [DiscoveryNext]_discoveryVars => TypesOK'
<1> SUFFICES ASSUME TypesOK, [DiscoveryNext]_discoveryVars PROVE TypesOK'
  OBVIOUS
<1> USE DiscoveryAssumption
    DEF DiscoveryAssumption, TypesOK, SharedTypes, CallTypes, CallsOK, CallOK, CallStates,
        sharedVars, callVars, discoveryVars
<1>1. CASE UNCHANGED discoveryVars
  BY <1>1
<1>2. CASE IntervalElapses \/ LinkChanges \/ CancelContext
  <2>1. connected' \in [Peers -> {"no", "yes", "limited"}]
    BY <1>2 DEF IntervalElapses, LinkChanges, CancelContext
  <2>2. ctxDone' \in BOOLEAN /\ stale' \in BOOLEAN
    BY <1>2 DEF IntervalElapses, LinkChanges, CancelContext
  <2>3. UNCHANGED <<strategy, serverPeers, activeConns, totalConns, callVars>>
    BY <1>2 DEF IntervalElapses, LinkChanges, CancelContext
  <2> QED
    BY <2>1, <2>2, <2>3
<1>3. ASSUME NEW t \in Conns, Call(t) PROVE TypesOK'
  BY <1>3 DEF Call, Goto
<1>4. ASSUME NEW t \in Conns, ReleaseConnection(t) PROVE TypesOK'
  BY <1>4 DEF ReleaseConnection, Goto, Released, Servers
<1>5. ASSUME NEW t \in Conns, SelectServerStep(t) PROVE TypesOK'
  <2>1. CASE CheckStale(t) \/ FindPeersFails(t) \/ FindPeers(t) \/ SelectNone(t)
    <3>1. PICK state \in {"find", "filter", "collect", "none"} : dpc' = [dpc EXCEPT ![t] = state]
      BY <2>1 DEF CheckStale, FindPeersFails, FindPeers, SelectNone, Goto
    <3>2. UNCHANGED <<sharedVars, candidate, newServers, unwritten, ranged, avail, chosen>>
      BY <2>1 DEF CheckStale, FindPeersFails, FindPeers, SelectNone
    <3> QED
      BY <3>1, <3>2
  <2>2. CASE ChannelCloses(t)
    BY <2>2 DEF ChannelCloses, EndOfList, Goto
  <2>3. ASSUME NEW p \in Peers, ReceivePeer(t, p) PROVE TypesOK'
    <3>1. dpc[t] = "collect"
      BY <2>3 DEF ReceivePeer
    <3>2. CASE UNCHANGED <<sharedVars, dpc, candidate, newServers, unwritten, ranged, avail, chosen>>
      BY <3>1, <3>2
    <3>3. CASE Goto(t, "collect", "publish") /\ EndOfList(t)
      BY <3>1, <3>3 DEF EndOfList, Goto
    <3>4. CASE /\ p # Self
               /\ ~Full(newServers[t])
               /\ Goto(t, "collect", "dial")
               /\ candidate' = [candidate EXCEPT ![t] = p]
               /\ UNCHANGED <<sharedVars, newServers, unwritten, ranged, avail, chosen>>
      BY <3>1, <3>4 DEF Goto, Full, Servers
    <3>5. CASE /\ p # Self
               /\ ~Full(newServers[t])
               /\ newServers' = [newServers EXCEPT ![t] = Append(@, p)]
               /\ UNCHANGED <<sharedVars, dpc, candidate, unwritten, ranged, avail, chosen>>
      BY <3>1, <3>5 DEF Full
    <3> QED
      BY <2>3, <3>2, <3>3, <3>4, <3>5 DEF ReceivePeer
  <2>4. CASE DialSucceeds(t)
    BY <2>4 DEF DialSucceeds, Goto, Servers
  <2>5. CASE DialFails(t)
    BY <2>5 DEF DialFails, Goto
  <2>6. ASSUME NEW w \in {"ptr", "len"}, StoreWord(t, w) PROVE TypesOK'
    BY <2>6 DEF StoreWord, Goto
  <2>7. CASE TouchLastUpdate(t)
    <3>1. <<>> \in Seq(Peers) /\ Len(<<>>) = 0
      OBVIOUS
    <3>2. dpc' = [dpc EXCEPT ![t] = "filter"] /\ stale' = FALSE
      BY <2>7 DEF TouchLastUpdate, Goto
    <3>3. /\ newServers' \in [Conns -> Seq(Peers)]
          /\ \A u \in Conns : Len(newServers'[u]) <= MaxServers
          /\ \A u \in Conns : u # t => newServers'[u] = newServers[u]
      BY <2>7, <3>1 DEF TouchLastUpdate
    <3>4. UNCHANGED <<strategy, ctxDone, connected, serverPeers, activeConns, totalConns,
                      candidate, unwritten, ranged, avail, chosen>>
      BY <2>7 DEF TouchLastUpdate
    <3>5. SharedTypes' /\ CallTypes'
      BY <3>2, <3>3, <3>4
    <3>6. CallsOK'
      BY <3>2, <3>3, <3>4
    <3> QED
      BY <3>5, <3>6
  <2>8. CASE StartRange(t)
    <3>1. ranged' \in [Conns -> RangeLists]
      BY <2>8, RangeType DEF StartRange
    <3>2. PICK state \in {"select", "range"} : dpc' = [dpc EXCEPT ![t] = state]
      BY <2>8 DEF StartRange, Goto
    <3>3. UNCHANGED <<sharedVars, candidate, newServers, unwritten, avail, chosen>>
      BY <2>8 DEF StartRange
    <3> QED
      BY <3>1, <3>2, <3>3
  <2>12. CASE CheckServer(t)
    <3>1. /\ \E l : ranged' = [ranged EXCEPT ![t] = l]
          /\ \E l : avail' = [avail EXCEPT ![t] = l]
      BY <2>12 DEF CheckServer
    <3>2. /\ ranged'[t] \in RangeLists
          /\ avail'[t] \in ServerLists
          /\ \A k \in DOMAIN avail'[t] : avail'[t][k] \in Servers
      BY <2>12, CheckServerType
    <3>3. /\ ranged' \in [Conns -> RangeLists]
          /\ avail' \in [Conns -> ServerLists]
          /\ \A u \in Conns : u # t => avail'[u] = avail[u]
      BY <3>1, <3>2
    <3>4. PICK state \in {"select", "range"} : dpc' = [dpc EXCEPT ![t] = state]
      BY <2>12 DEF CheckServer, Goto
    <3>5. UNCHANGED <<sharedVars, candidate, newServers, unwritten, chosen>>
      BY <2>12 DEF CheckServer
    <3>6. SharedTypes' /\ CallTypes'
      BY <3>3, <3>4, <3>5
    <3>7. CallsOK'
      BY <3>2, <3>3, <3>4, <3>5
    <3> QED
      BY <3>6, <3>7
  <2>9. ASSUME NEW p \in Servers, Choose(t, p) PROVE TypesOK'
    BY <2>9 DEF Choose, Goto, Servers
  <2>10. CASE TrackConnection(t)
    <3>1. chosen[t] \in Servers
      BY <2>10 DEF TrackConnection, Goto
    <3>2. activeConns' \in [Peers -> Int] /\ totalConns' \in [Peers -> Nat]
      BY <2>10, <3>1 DEF TrackConnection, Servers
    <3>3. avail' \in [Conns -> ServerLists] /\ \A u \in Conns : avail'[u] \in {avail[u], <<>>}
      BY <2>10, NothingLeft DEF TrackConnection
    <3>4. \A u \in Conns : \A i \in DOMAIN avail'[u] : avail'[u][i] \in Servers
      BY <3>3, NothingLeft
    <3>5. dpc' = [dpc EXCEPT ![t] = "selected"]
      BY <2>10 DEF TrackConnection, Goto
    <3>6. UNCHANGED <<strategy, ctxDone, connected, serverPeers, stale,
                      candidate, newServers, unwritten, ranged, chosen>>
      BY <2>10 DEF TrackConnection
    <3>7. SharedTypes' /\ CallTypes'
      BY <3>2, <3>3, <3>5, <3>6
    <3>8. CallsOK'
      BY <3>1, <3>4, <3>5, <3>6
    <3> QED
      BY <3>7, <3>8
  <2>11. CASE SelectFirst(t) \/ SelectRandom(t) \/ SelectLoadBalanced(t) \/ SelectPreferred(t)
    BY <2>9, <2>11, ChoiceIsServer
  <2> QED
    BY <1>5, <2>1, <2>2, <2>3, <2>4, <2>5, <2>6, <2>7, <2>8, <2>10, <2>11, <2>12
    DEF SelectServerStep
<1> QED
  BY <1>1, <1>2, <1>3, <1>4, <1>5 DEF DiscoveryNext

(* The ledger: TrackConnection adds the caller to the holders of its       *)
(* server, ReleaseConnection takes it out, no other step touches either.   *)
LEMMA LedgerStep == TypesOK /\ LoadAccounting /\ [DiscoveryNext]_discoveryVars => LoadAccounting'
<1> SUFFICES ASSUME TypesOK, LoadAccounting, [DiscoveryNext]_discoveryVars, NEW q \in Peers
             PROVE  /\ activeConns'[q] = Cardinality(Holding(q)')
                    /\ totalConns'[q] = Cardinality(Served(q)')
  BY DEF LoadAccounting
<1> DEFINE Exact == /\ activeConns'[q] = Cardinality(Holding(q)')
                    /\ totalConns'[q] = Cardinality(Served(q)')
<1>0. /\ activeConns[q] = Cardinality(Holding(q)) /\ totalConns[q] = Cardinality(Served(q))
      /\ Cardinality(Holding(q)) \in Nat
  BY CardinalityNat DEF LoadAccounting, Holding
<1>a. ASSUME Holding(q)' = Holding(q), Served(q)' = Served(q), UNCHANGED <<activeConns, totalConns>>
      PROVE  Exact
  BY <1>0, <1>a
<1>b. ASSUME NEW t \in Conns, dpc[t] \notin {"selected", "released"},
             \E c \in CallStates \ {"selected", "released"} : dpc' = [dpc EXCEPT ![t] = c],
             \A u \in Conns \ {t} : chosen'[u] = chosen[u],
             UNCHANGED <<activeConns, totalConns>>
      PROVE  Exact
  <2>1. Holding(q)' = Holding(q) /\ Served(q)' = Served(q)
    BY <1>b DEF Holding, Served, TypesOK, CallTypes
  <2> QED
    BY <1>a, <1>b, <2>1
<1>1. CASE UNCHANGED <<activeConns, totalConns, dpc, chosen>>
  <2>1. Holding(q)' = Holding(q) /\ Served(q)' = Served(q)
    BY <1>1 DEF Holding, Served
  <2> QED
    BY <1>a, <1>1, <2>1
<1>2. CASE IntervalElapses \/ LinkChanges \/ CancelContext
  BY <1>2, <1>1 DEF IntervalElapses, LinkChanges, CancelContext, callVars
<1>3. ASSUME NEW t \in Conns, Call(t) PROVE Exact
  BY <1>3, <1>b DEF Call, Goto, sharedVars, CallStates
<1>4. ASSUME NEW t \in Conns, ReleaseConnection(t) PROVE Exact
  <2>0. /\ dpc[t] = "selected" /\ dpc' = [dpc EXCEPT ![t] = "released"] /\ chosen' = chosen
        /\ totalConns' = totalConns
    BY <1>4 DEF ReleaseConnection, Goto
  <2>1. Served(q)' = Served(q)
    BY <2>0 DEF Served, TypesOK, CallTypes
  <2>2. CASE q = chosen[t]
    <3>1. t \in Holding(q)
      BY <2>0, <2>2 DEF Holding
    <3>2. Holding(q)' = Holding(q) \ {t}
      BY <2>0, <2>2 DEF Holding, TypesOK, CallTypes
    <3>3. Cardinality(Holding(q)') = Cardinality(Holding(q)) - 1 /\ Cardinality(Holding(q)') \in Nat
      BY <3>1, <3>2, CardinalityRemove, CardinalityNat DEF Holding
    <3>4. activeConns'[q] = Released(activeConns[q])
      BY <1>4, <2>2 DEF ReleaseConnection, TypesOK, SharedTypes
    <3> QED
      BY <1>0, <2>0, <2>1, <3>3, <3>4 DEF Released
  <2>3. CASE q # chosen[t]
    <3>1. Holding(q)' = Holding(q)
      BY <2>0, <2>3 DEF Holding, TypesOK, CallTypes
    <3>2. activeConns'[q] = activeConns[q]
      BY <1>4, <2>3 DEF ReleaseConnection, TypesOK, SharedTypes
    <3> QED
      BY <1>0, <2>0, <2>1, <3>1, <3>2
  <2> QED
    BY <2>2, <2>3
<1>5. ASSUME NEW t \in Conns, TrackConnection(t) PROVE Exact
  <2>0. /\ dpc[t] = "track" /\ dpc' = [dpc EXCEPT ![t] = "selected"] /\ chosen' = chosen
    BY <1>5 DEF TrackConnection, Goto
  <2>1. t \notin Holding(q) /\ t \notin Served(q)
    BY <2>0 DEF Holding, Served
  <2>2. CASE q = chosen[t]
    <3>1. Holding(q)' = Holding(q) \cup {t} /\ Served(q)' = Served(q) \cup {t}
      BY <2>0, <2>2 DEF Holding, Served, TypesOK, CallTypes
    <3>2. /\ Cardinality(Holding(q)') = Cardinality(Holding(q)) + 1
          /\ Cardinality(Served(q)') = Cardinality(Served(q)) + 1
      BY <2>1, <3>1, CardinalityAdd DEF Holding, Served
    <3>3. activeConns'[q] = activeConns[q] + 1 /\ totalConns'[q] = totalConns[q] + 1
      BY <1>5, <2>2 DEF TrackConnection, TypesOK, SharedTypes
    <3> QED
      BY <1>0, <3>2, <3>3
  <2>3. CASE q # chosen[t]
    <3>1. Holding(q)' = Holding(q) /\ Served(q)' = Served(q)
      BY <2>0, <2>3 DEF Holding, Served, TypesOK, CallTypes
    <3>2. activeConns'[q] = activeConns[q] /\ totalConns'[q] = totalConns[q]
      BY <1>5, <2>3 DEF TrackConnection, TypesOK, SharedTypes
    <3> QED
      BY <1>0, <3>1, <3>2
  <2> QED
    BY <2>2, <2>3
<1>6. ASSUME NEW t \in Conns, SelectServerStep(t) PROVE Exact
  <2>1. CASE \/ CheckStale(t) \/ FindPeersFails(t) \/ FindPeers(t) \/ ChannelCloses(t)
             \/ DialFails(t) \/ TouchLastUpdate(t) \/ StartRange(t) \/ CheckServer(t)
             \/ SelectNone(t) \/ DialSucceeds(t)
    BY <2>1, <1>b DEF CheckStale, FindPeersFails, FindPeers, ChannelCloses, EndOfList, DialFails,
          TouchLastUpdate, StartRange, CheckServer, SelectNone, DialSucceeds, Goto, sharedVars, CallStates
  <2>2. ASSUME NEW p \in Peers, ReceivePeer(t, p) PROVE Exact
    <3>1. dpc[t] = "collect" /\ UNCHANGED <<activeConns, totalConns, chosen>>
      BY <2>2 DEF ReceivePeer, EndOfList, sharedVars
    <3>2. dpc' = dpc \/ \E c \in {"publish", "dial"} : dpc' = [dpc EXCEPT ![t] = c]
      BY <2>2 DEF ReceivePeer, Goto
    <3> QED
      BY <1>1, <1>b, <3>1, <3>2 DEF CallStates
  <2>3. ASSUME NEW w \in {"ptr", "len"}, StoreWord(t, w) PROVE Exact
    BY <2>3, <1>b DEF StoreWord, Goto, CallStates
  <2>4. CASE SelectFirst(t) \/ SelectRandom(t) \/ SelectLoadBalanced(t) \/ SelectPreferred(t)
    <3>0. CallOK(t)
      BY DEF TypesOK, CallsOK
    <3>1. PICK p \in Servers : Choose(t, p)
      BY <2>4, <3>0, ChoiceIsServer
    <3>2. /\ dpc[t] = "select" /\ dpc' = [dpc EXCEPT ![t] = "track"]
          /\ chosen' = [chosen EXCEPT ![t] = p] /\ UNCHANGED <<activeConns, totalConns>>
      BY <3>1 DEF Choose, Goto, sharedVars
    <3> QED
      BY <1>b, <3>2 DEF CallStates, TypesOK, CallTypes
  <2> QED
    BY <1>5, <1>6, <2>1, <2>2, <2>3, <2>4 DEF SelectServerStep
<1> QED
  BY <1>1, <1>2, <1>3, <1>4, <1>6 DEF DiscoveryNext, discoveryVars, sharedVars, callVars
-----------------------------------------------------------------------------
(* IInv is inductive.                                                      *)
THEOREM Invariance == DiscoverySpec => []IInv
<1>1. IInv /\ [DiscoveryNext]_discoveryVars => IInv'
  BY TypesStep, LedgerStep DEF IInv, TypesOK
<1> QED
  BY InitInvariant, <1>1, PTL DEF DiscoverySpec

(* Type correctness of the shared state and of every call.                 *)
THEOREM TypeCorrect == DiscoverySpec => []DiscoveryTypeOK
<1>1. IInv => DiscoveryTypeOK
  <2> SUFFICES ASSUME IInv PROVE DiscoveryTypeOK
    OBVIOUS
  <2>1. \A p \in Peers : activeConns[p] \in Nat
    BY CardinalityNat DEF IInv, LoadAccounting, Holding
  <2>2. activeConns \in [Peers -> Nat]
    BY <2>1 DEF IInv, TypesOK, SharedTypes
  <2>3. serverPeers \in [ptr : Seq(Peers), len : Nat]
    BY DiscoveryAssumption DEF DiscoveryAssumption, IInv, TypesOK, SharedTypes
  <2> QED
    BY <2>2, <2>3 DEF IInv, TypesOK, SharedTypes, CallTypes, RangeLists, ServerLists,
          DiscoveryTypeOK
<1> QED
  BY Invariance, <1>1, PTL

(* serverLoads counts exactly the calls that hold, or held, each server.   *)
THEOREM LoadsExact == DiscoverySpec => []LoadAccounting
<1>1. IInv => LoadAccounting
  BY DEF IInv, TypesOK
<1> QED
  BY Invariance, <1>1, PTL
-----------------------------------------------------------------------------
(* Steps inside a call that its caller cannot see.                         *)
LEMMA HiddenStep ==
  ASSUME CallTypes, NEW t \in Conns,
         dpc[t] \in CallStates \ {"idle", "selected", "released", "none"},
         NEW c \in CallStates \ {"idle", "selected", "released", "none"},
         dpc' = [dpc EXCEPT ![t] = c],
         \A u \in Conns \ {t} : chosen'[u] = chosen[u],
         UNCHANGED <<activeConns, totalConns>>
  PROVE  UNCHANGED Selection!selectionVars
<1>1. callSeen' = callSeen
  BY DEF callSeen, CallTypes, CallStates
<1>2. serverSeen' = serverSeen
  BY DEF serverSeen, CallTypes, CallStates
<1> QED
  BY <1>1, <1>2 DEF Selection!selectionVars

(* How the three things a caller does with the discovery look to it: the   *)
(* call, one step of SelectServer, and giving the server back.             *)
LEMMA CallSeen ==
  ASSUME IInv, NEW t \in Conns, Call(t)
  PROVE  Selection!Call(t)
<1>0. CallTypes /\ SharedTypes /\ CallsOK
  BY DEF IInv, TypesOK
<1>1. dpc[t] = "idle" /\ dpc' = [dpc EXCEPT ![t] = "check"]
  BY DEF Call, Goto
<1>2. UNCHANGED <<activeConns, totalConns, chosen>>
  BY DEF Call, sharedVars
<1>3. callSeen[t] = "idle" /\ callSeen' = [callSeen EXCEPT ![t] = "calling"]
  BY <1>0, <1>1 DEF callSeen, CallTypes
<1>4. serverSeen' = serverSeen
  BY <1>0, <1>1, <1>2 DEF serverSeen, CallTypes
<1> QED
  BY <1>2, <1>3, <1>4 DEF Selection!Call, Selection!Progress

LEMMA ReleaseSeen ==
  ASSUME IInv, NEW t \in Conns, ReleaseConnection(t)
  PROVE  Selection!Release(t)
<1>0. CallTypes /\ SharedTypes /\ CallsOK
  BY DEF IInv, TypesOK
<1>1. dpc[t] = "selected" /\ dpc' = [dpc EXCEPT ![t] = "released"]
  BY DEF ReleaseConnection, Goto
<1>2. UNCHANGED <<totalConns, chosen>> /\ chosen[t] \in Peers
  BY <1>0, <1>1 DEF ReleaseConnection, CallsOK, CallOK, Servers
<1>3. callSeen[t] = "selected" /\ callSeen' = [callSeen EXCEPT ![t] = "released"]
  BY <1>0, <1>1 DEF callSeen, CallTypes
<1>4. serverSeen' = serverSeen /\ serverSeen[t] = chosen[t]
  BY <1>0, <1>1, <1>2 DEF serverSeen, CallTypes
<1>5. activeConns[chosen[t]] >= 1
  <2>1. t \in Holding(chosen[t])
    BY <1>1 DEF Holding
  <2>2. Cardinality(Holding(chosen[t]) \ {t}) = Cardinality(Holding(chosen[t])) - 1
    BY <2>1, CardinalityRemove DEF Holding
  <2>3. Cardinality(Holding(chosen[t]) \ {t}) \in Nat /\ Cardinality(Holding(chosen[t])) \in Nat
    BY CardinalityNat DEF Holding
  <2> QED
    BY <1>2, <2>2, <2>3 DEF IInv, LoadAccounting
<1>6. Released(activeConns[chosen[t]]) = activeConns[chosen[t]] - 1
  BY <1>0, <1>2, <1>5 DEF Released, SharedTypes
<1>7. activeConns' = [activeConns EXCEPT ![chosen[t]] = Released(@)]
  BY DEF ReleaseConnection
<1>8. activeConns' = [activeConns EXCEPT ![serverSeen[t]] = @ - 1]
  BY <1>4, <1>6, <1>7
<1> QED
  BY <1>2, <1>3, <1>4, <1>8 DEF Selection!Release, Selection!Progress

LEMMA SelectServerSeen ==
  ASSUME IInv, NEW t \in Conns, SelectServerStep(t)
  PROVE  Selection!CallReturns(t) \/ UNCHANGED Selection!selectionVars
<1> DEFINE Maps == Selection!CallReturns(t) \/ UNCHANGED Selection!selectionVars
<1>0. CallTypes /\ SharedTypes /\ CallsOK
  BY DEF IInv, TypesOK
<1>1. ASSUME UNCHANGED <<activeConns, totalConns, dpc, chosen>> PROVE Maps
  <2>1. callSeen' = callSeen /\ serverSeen' = serverSeen
    BY <1>1 DEF callSeen, serverSeen
  <2> QED
    BY <1>1, <2>1 DEF Selection!selectionVars
<1>2. CASE TrackConnection(t)
  <2>1. dpc[t] = "track" /\ dpc' = [dpc EXCEPT ![t] = "selected"]
    BY <1>2 DEF TrackConnection, Goto
  <2>2. UNCHANGED chosen /\ chosen[t] \in Servers
    BY <1>0, <1>2, <2>1 DEF TrackConnection, CallsOK, CallOK
  <2>3. callSeen[t] = "calling" /\ callSeen' = [callSeen EXCEPT ![t] = "selected"]
    BY <1>0, <2>1 DEF callSeen, CallTypes
  <2>4. serverSeen' = [serverSeen EXCEPT ![t] = chosen[t]]
    BY <1>0, <2>1, <2>2 DEF serverSeen, CallTypes
  <2>5. /\ activeConns' = [activeConns EXCEPT ![chosen[t]] = @ + 1]
        /\ totalConns' = [totalConns EXCEPT ![chosen[t]] = @ + 1]
    BY <1>2 DEF TrackConnection
  <2>6. Selection!Select(t, chosen[t])
    BY <2>3, <2>4, <2>5 DEF Selection!Select, Selection!Progress
  <2> QED
    BY <2>2, <2>6 DEF Selection!CallReturns, Selection!Servers, Servers
<1>3. CASE SelectNone(t)
  <2>1. dpc[t] = "select" /\ dpc' = [dpc EXCEPT ![t] = "none"]
    BY <1>3 DEF SelectNone, Goto
  <2>2. UNCHANGED <<activeConns, totalConns, chosen>>
    BY <1>3 DEF SelectNone, sharedVars
  <2>3. callSeen[t] = "calling" /\ callSeen' = [callSeen EXCEPT ![t] = "none"]
    BY <1>0, <2>1 DEF callSeen, CallTypes
  <2>4. serverSeen' = serverSeen
    BY <1>0, <2>1, <2>2 DEF serverSeen, CallTypes
  <2>5. Selection!SelectNone(t)
    BY <2>2, <2>3, <2>4 DEF Selection!SelectNone, Selection!Progress
  <2> QED
    BY <2>5 DEF Selection!CallReturns
<1>4. CASE \/ CheckStale(t) \/ FindPeersFails(t) \/ FindPeers(t) \/ ChannelCloses(t)
           \/ DialFails(t) \/ TouchLastUpdate(t) \/ StartRange(t) \/ CheckServer(t)
           \/ DialSucceeds(t)
  BY <1>0, <1>4, HiddenStep DEF CheckStale, FindPeersFails, FindPeers, ChannelCloses, EndOfList,
        DialFails, TouchLastUpdate, StartRange, CheckServer, DialSucceeds, Goto, sharedVars, CallStates
<1>5. ASSUME NEW p \in Peers, ReceivePeer(t, p) PROVE Maps
  <2>1. dpc[t] = "collect" /\ UNCHANGED <<activeConns, totalConns, chosen>>
    BY <1>5 DEF ReceivePeer, EndOfList, sharedVars
  <2>2. dpc' = dpc \/ \E c \in {"publish", "dial"} : dpc' = [dpc EXCEPT ![t] = c]
    BY <1>5 DEF ReceivePeer, Goto
  <2> QED
    BY <1>0, <1>1, <2>1, <2>2, HiddenStep DEF CallStates
<1>6. ASSUME NEW w \in {"ptr", "len"}, StoreWord(t, w) PROVE Maps
  BY <1>0, <1>6, HiddenStep DEF StoreWord, Goto, CallStates
<1>7. CASE SelectFirst(t) \/ SelectRandom(t) \/ SelectLoadBalanced(t) \/ SelectPreferred(t)
  <2>1. PICK p \in Servers : Choose(t, p)
    BY <1>0, <1>7, ChoiceIsServer DEF CallsOK
  <2>2. /\ dpc[t] = "select" /\ dpc' = [dpc EXCEPT ![t] = "track"]
        /\ chosen' = [chosen EXCEPT ![t] = p] /\ UNCHANGED <<activeConns, totalConns>>
    BY <2>1 DEF Choose, Goto, sharedVars
  <2>3. \A u \in Conns \ {t} : chosen'[u] = chosen[u]
    BY <1>0, <2>2 DEF CallTypes
  <2> QED
    BY <1>0, <2>2, <2>3, HiddenStep DEF CallStates
<1> QED
  BY <1>2, <1>3, <1>4, <1>5, <1>6, <1>7 DEF SelectServerStep

LEMMA RefinementStep ==
  IInv /\ [DiscoveryNext]_discoveryVars
    => [Selection!SelectionNext]_(Selection!selectionVars)
<1> SUFFICES ASSUME IInv, [DiscoveryNext]_discoveryVars
             PROVE  Selection!SelectionNext \/ UNCHANGED Selection!selectionVars
  OBVIOUS
<1>1. CASE UNCHANGED <<activeConns, totalConns, callVars>>
  <2>1. callSeen' = callSeen /\ serverSeen' = serverSeen
    BY <1>1 DEF callSeen, serverSeen, callVars
  <2> QED
    BY <1>1, <2>1 DEF Selection!selectionVars
<1>2. CASE IntervalElapses \/ LinkChanges \/ CancelContext
  BY <1>2, <1>1 DEF IntervalElapses, LinkChanges, CancelContext
<1>3. ASSUME NEW t \in Conns, Call(t) \/ SelectServerStep(t) \/ ReleaseConnection(t)
      PROVE  Selection!SelectionNext \/ UNCHANGED Selection!selectionVars
  BY <1>3, CallSeen, ReleaseSeen, SelectServerSeen DEF Selection!SelectionNext
<1> QED
  BY <1>1, <1>2, <1>3 DEF DiscoveryNext, discoveryVars, sharedVars

(* Concurrent calls on one ServerDiscovery, with their refreshes and their *)
(* torn lists, implement the atomic selection the SOCKS5 handlers rely on. *)
THEOREM Refinement == DiscoverySpec => ImplementsSelection
<1>1. DiscoveryInit => Selection!SelectionInit
  <2> SUFFICES ASSUME DiscoveryInit PROVE Selection!SelectionInit
    OBVIOUS
  <2>1. callSeen = [t \in Conns |-> "idle"] /\ serverSeen = [t \in Conns |-> NoPeer]
    BY DEF DiscoveryInit, callSeen, serverSeen
  <2> QED
    BY <2>1 DEF DiscoveryInit, Selection!SelectionInit
<1> QED
  BY Invariance, <1>1, RefinementStep, PTL DEF DiscoverySpec, ImplementsSelection, Selection!SelectionSpec
-----------------------------------------------------------------------------
(* No list a refresh collects, nor the array it leaves, has this node.     *)
ListsOK ==
  /\ \A t \in Conns : Self \notin Members(newServers[t])
  /\ Self \notin Members(serverPeers.ptr)
  /\ Len(serverPeers.ptr) <= MaxServers

LEMMA AppendServer ==
  ASSUME NEW list \in Seq(Peers), NEW p \in Servers, Self \notin Members(list)
  PROVE  Self \notin Members(Append(list, p))
<1> DEFINE longer == Append(list, p)
<1>1. /\ DOMAIN longer = DOMAIN list \cup {Len(list) + 1}
      /\ longer[Len(list) + 1] = p
      /\ \A i \in DOMAIN list : longer[i] = list[i]
  OBVIOUS
<1> QED
  BY <1>1 DEF Members, Servers

LEMMA EmptyList == Members(<<>>) = {} /\ Len(<<>>) = 0
BY DEF Members

LEMMA ListsStep == TypesOK /\ ListsOK /\ [DiscoveryNext]_discoveryVars => ListsOK'
<1> SUFFICES ASSUME TypesOK, ListsOK, [DiscoveryNext]_discoveryVars PROVE ListsOK'
  OBVIOUS
<1> USE DEF sharedVars, callVars
<1>0. CallTypes /\ SharedTypes /\ CallsOK
  BY DEF TypesOK
<1>a. ASSUME UNCHANGED <<serverPeers, newServers>> PROVE ListsOK'
  BY <1>a DEF ListsOK, Members
<1>b. ASSUME NEW t \in Conns, NEW list, Self \notin Members(list),
             newServers' = [newServers EXCEPT ![t] = list], UNCHANGED serverPeers
      PROVE  ListsOK'
  <2>1. \A u \in Conns : newServers'[u] \in {newServers[u], list}
    BY <1>0, <1>b DEF CallTypes
  <2>2. \A u \in Conns : Self \notin Members(newServers'[u])
    BY <1>b, <2>1 DEF ListsOK
  <2>3. \A u \in Conns : Self \notin Members(newServers[u])'
    BY <2>2 DEF Members
  <2> QED
    BY <1>b, <2>3 DEF ListsOK, Members
<1>1. CASE UNCHANGED discoveryVars
  BY <1>1, <1>a DEF discoveryVars
<1>2. CASE IntervalElapses \/ LinkChanges \/ CancelContext
  BY <1>2, <1>a DEF IntervalElapses, LinkChanges, CancelContext
<1>3. ASSUME NEW t \in Conns, Call(t) \/ ReleaseConnection(t) PROVE ListsOK'
  BY <1>3, <1>a DEF Call, ReleaseConnection
<1>4. ASSUME NEW t \in Conns, SelectServerStep(t) PROVE ListsOK'
  <2>0. newServers[t] \in Seq(Peers) /\ CallOK(t) /\ Self \notin Members(newServers[t])
    BY <1>0 DEF CallTypes, CallsOK, ListsOK
  <2>1. CASE \/ CheckStale(t) \/ FindPeersFails(t) \/ FindPeers(t) \/ ChannelCloses(t)
             \/ DialFails(t) \/ StartRange(t) \/ CheckServer(t) \/ SelectNone(t) \/ TrackConnection(t)
    BY <2>1, <1>a DEF CheckStale, FindPeersFails, FindPeers, ChannelCloses, EndOfList,
          DialFails, StartRange, CheckServer, SelectNone, TrackConnection
  <2>2. ASSUME NEW p \in Peers, ReceivePeer(t, p) PROVE ListsOK'
    <3>1. CASE p \in Servers /\ newServers' = [newServers EXCEPT ![t] = Append(@, p)]
               /\ UNCHANGED serverPeers
      <4>1. Self \notin Members(Append(newServers[t], p))
        BY <2>0, <3>1, AppendServer
      <4> QED
        BY <1>b, <3>1, <4>1
    <3> QED
      BY <1>a, <2>2, <3>1 DEF ReceivePeer, EndOfList, Servers
  <2>3. CASE DialSucceeds(t)
    <3>1. candidate[t] \in Servers
      BY <2>0, <2>3 DEF DialSucceeds, Goto, CallOK
    <3>2. Self \notin Members(Append(newServers[t], candidate[t]))
      BY <2>0, <3>1, AppendServer
    <3> QED
      BY <1>b, <2>3, <3>2 DEF DialSucceeds
  <2>4. ASSUME NEW w \in {"ptr", "len"}, StoreWord(t, w) PROVE ListsOK'
    <3>1. UNCHANGED newServers
      BY <2>4 DEF StoreWord
    <3>2. serverPeers'.ptr \in {serverPeers.ptr, newServers[t]}
      BY <1>0, <2>4 DEF StoreWord, SharedTypes
    <3>3. Self \notin Members(serverPeers'.ptr) /\ Len(serverPeers'.ptr) <= MaxServers
      BY <2>0, <3>2 DEF ListsOK, CallOK
    <3> QED
      BY <3>1, <3>3 DEF ListsOK, Members
  <2>5. CASE TouchLastUpdate(t)
    BY <1>b, <2>5, EmptyList DEF TouchLastUpdate
  <2>6. CASE SelectFirst(t) \/ SelectRandom(t) \/ SelectLoadBalanced(t) \/ SelectPreferred(t)
    <3>1. PICK p \in Servers : Choose(t, p)
      BY <2>0, <2>6, ChoiceIsServer
    <3> QED
      BY <1>a, <3>1 DEF Choose
  <2> QED
    BY <1>4, <2>1, <2>2, <2>3, <2>4, <2>5, <2>6 DEF SelectServerStep
<1> QED
  BY <1>1, <1>2, <1>3, <1>4 DEF DiscoveryNext

(* Neither word of the cached list passes MaxServers and its array never   *)
(* lists this node, in whatever order concurrent refreshes store them.     *)
THEOREM CacheCorrect == DiscoverySpec => []CacheSound
<1>1. DiscoveryInit => ListsOK
  BY EmptyList, DiscoveryAssumption DEF DiscoveryAssumption, DiscoveryInit, ListsOK
<1>2. IInv /\ ListsOK /\ [DiscoveryNext]_discoveryVars => ListsOK'
  BY ListsStep DEF IInv
<1>3. IInv /\ ListsOK => CacheSound
  BY DiscoveryAssumption
     DEF DiscoveryAssumption, IInv, TypesOK, SharedTypes, ListsOK, CacheSound
<1> QED
  BY Invariance, <1>1, <1>2, <1>3, PTL DEF DiscoverySpec
=============================================================================
