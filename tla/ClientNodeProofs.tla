-------------------------- MODULE ClientNodeProofs ---------------------------
(***************************************************************************)
(* Proofs about ClientNode: put together, the SOCKS5 handlers and the      *)
(* discovery keep what was proved of each on its own, for every number of  *)
(* connections, every set of peers and all limits.                         *)
(***************************************************************************)
EXTENDS ClientNode, ClientDiscoveryProofs

(* The discovery is called as it expects to be.                            *)
LEMMA NodeDiscovers == NodeSpec => DiscoverySpec
<1>1. NodeInit => DiscoveryInit
  BY DEF NodeInit
<1>2. [NodeNext]_nodeVars => [DiscoveryNext]_discoveryVars
  BY DEF NodeNext, Stop, Accepts, CallsSelectServer, SelectServerRuns, BridgeEnds, HandlerRuns,
         Environment, DiscoveryNext, nodeVars
<1> QED
  BY <1>1, <1>2, PTL DEF NodeSpec, DiscoverySpec

(* What the handlers see of the discovery, on its steps that are not calls *)
(* of theirs, stays as it is.                                              *)
LEMMA NothingSeen ==
  ASSUME UNCHANGED <<activeConns, totalConns, callVars>>
  PROVE  UNCHANGED Handler!selectionVars
<1>1. callSeen' = callSeen /\ serverSeen' = serverSeen
  BY DEF callSeen, serverSeen, callVars
<1> QED
  BY <1>1 DEF Handler!selectionVars

LEMMA HandlerStepSeen ==
  ASSUME IInv, [NodeNext]_nodeVars
  PROVE  [Handler!Next]_(Handler!vars)
<1> DEFINE Maps == Handler!Next \/ UNCHANGED Handler!vars
<1>1. ASSUME UNCHANGED <<ctxDone, activeConns, totalConns, callVars, ownVars>> PROVE Maps
  BY <1>1, NothingSeen DEF Handler!vars, Handler!handlerVars, Handler!loopVars, ownVars
<1>2. CASE Stop \/ Accepts
  BY <1>2 DEF Stop, Accepts, Handler!Next
<1>3. CASE Environment
  BY <1>1, <1>3 DEF Environment, IntervalElapses, LinkChanges
<1>4. ASSUME NEW t \in Conns, CallsSelectServer(t) \/ HandlerRuns(t) \/ BridgeEnds(t) PROVE Maps
  BY <1>4 DEF CallsSelectServer, HandlerRuns, BridgeEnds, Handler!Next, Handler!HandlerStep
<1>5. ASSUME NEW t \in Conns, SelectServerRuns(t) PROVE Maps
  <2>1. Selection!CallReturns(t) \/ UNCHANGED Selection!selectionVars
    BY <1>5, SelectServerSeen DEF SelectServerRuns
  <2>2. UNCHANGED <<ctxDone, ownVars>>
    BY <1>5 DEF SelectServerRuns, SelectServerStep, CheckStale, FindPeersFails, FindPeers, ChannelCloses,
           EndOfList, ReceivePeer, DialSucceeds, DialFails, StoreWord, TouchLastUpdate, StartRange,
           CheckServer, SelectNone, SelectFirst, SelectRandom, SelectLoadBalanced, SelectPreferred,
           SelectLeastLoaded, Choose, TrackConnection, sharedVars
  <2>3. Selection!CallReturns(t) => Handler!CallReturns(t)
    BY DEF Selection!CallReturns, Selection!SelectNone, Selection!Select, Selection!Progress,
           Selection!Servers, Handler!CallReturns, Handler!SelectNone, Handler!Select,
           Handler!Progress, Handler!Servers
  <2>4. UNCHANGED <<Handler!handlerVars, Handler!loopVars>>
    BY <2>2 DEF Handler!handlerVars, Handler!loopVars, ownVars
  <2>5. UNCHANGED Selection!selectionVars => UNCHANGED Handler!selectionVars
    BY DEF Selection!selectionVars, Handler!selectionVars
  <2> QED
    BY <2>1, <2>3, <2>4, <2>5 DEF Handler!Next, Handler!HandlerStep, Handler!SelectReturns, Handler!vars
<1>6. CASE UNCHANGED nodeVars
  BY <1>1, <1>6 DEF nodeVars, discoveryVars, sharedVars
<1> QED
  BY <1>2, <1>3, <1>4, <1>5, <1>6 DEF NodeNext

(* With the concurrent refreshes, the torn lists and the dials of          *)
(* discovery.go underneath, the handlers behave as they do over a          *)
(* selection that takes one step.                                          *)
THEOREM NodeIsHandler == NodeSpec => ImplementsHandler
<1>1. NodeInit => Handler!Init
  <2> SUFFICES ASSUME NodeInit PROVE Handler!Init
    OBVIOUS
  <2>1. callSeen = [t \in Conns |-> "idle"] /\ serverSeen = [t \in Conns |-> NoPeer]
    BY DEF NodeInit, DiscoveryInit, callSeen, serverSeen
  <2> QED
    BY <2>1 DEF NodeInit, DiscoveryInit, Handler!Init, Handler!SelectionInit
<1>2. NodeSpec => []IInv
  BY NodeDiscovers, Invariance, PTL
<1>3. IInv /\ [NodeNext]_nodeVars => [Handler!Next]_(Handler!vars)
  BY HandlerStepSeen
<1> QED
  BY <1>1, <1>2, <1>3, PTL DEF NodeSpec, ImplementsHandler, Handler!Spec

(* What was proved of the discovery on its own holds of it in the node.    *)
THEOREM NodeCache == NodeSpec => []CacheSound
BY NodeDiscovers, CacheCorrect, PTL
-----------------------------------------------------------------------------
(* How far a handler is and how far its SelectServer call is.              *)

Finished(t) ==
  \/ outcome[t] \in {"rejected", "handshake"} /\ dpc[t] = "idle"
  \/ outcome[t] = "noserver" /\ dpc[t] = "none"
  \/ outcome[t] \in {"nostream", "notarget"} /\ dpc[t] = "selected"
  \/ outcome[t] = "bridged" /\ dpc[t] = "released"

Underway(t) ==
  /\ outcome[t] = "none"
  /\ \/ hpc[t] \in {"new", "accepted", "admitted", "handshake"} /\ dpc[t] = "idle"
     \/ hpc[t] = "select" /\ dpc[t] \notin {"idle", "released"}
     \/ hpc[t] \in {"opened", "bridge"} /\ dpc[t] = "selected"

InStep(t) == IF hpc[t] \in {"returning", "closed"} THEN Finished(t) ELSE Underway(t)

NodePhases ==
  /\ hpc \in [Conns -> {"new", "accepted", "admitted", "handshake", "select",
                        "opened", "bridge", "returning", "closed"}]
  /\ outcome \in [Conns -> {"none", "rejected", "handshake", "noserver",
                            "nostream", "notarget", "bridged"}]
  /\ \A t \in Conns : InStep(t)

(* Inside SelectServer a call stays inside or returns.                     *)
LEMMA SelectServerGoes ==
  ASSUME CallTypes, NEW t \in Conns, SelectServerStep(t)
  PROVE  /\ dpc[t] \notin {"idle", "selected", "released", "none"}
         /\ \E c \in CallStates \ {"idle", "released"} : dpc' = [dpc EXCEPT ![t] = c]
<1> USE DEF CallTypes, CallStates, Goto
<1>1. CASE \/ CheckStale(t) \/ FindPeersFails(t) \/ FindPeers(t) \/ ChannelCloses(t)
           \/ DialFails(t) \/ TouchLastUpdate(t) \/ StartRange(t) \/ CheckServer(t)
           \/ DialSucceeds(t) \/ SelectNone(t) \/ TrackConnection(t)
  BY <1>1 DEF CheckStale, FindPeersFails, FindPeers, ChannelCloses, DialFails, TouchLastUpdate,
              StartRange, CheckServer, DialSucceeds, SelectNone, TrackConnection
<1>2. ASSUME NEW p \in Peers, ReceivePeer(t, p)
      PROVE  /\ dpc[t] = "collect"
             /\ \E c \in CallStates \ {"idle", "released"} : dpc' = [dpc EXCEPT ![t] = c]
  <2>1. dpc = [dpc EXCEPT ![t] = "collect"]
    BY <1>2 DEF ReceivePeer
  <2> QED
    BY <1>2, <2>1 DEF ReceivePeer
<1>3. ASSUME NEW w \in {"ptr", "len"}, StoreWord(t, w)
      PROVE  /\ dpc[t] = "publish"
             /\ \E c \in CallStates \ {"idle", "released"} : dpc' = [dpc EXCEPT ![t] = c]
  BY <1>3 DEF StoreWord
<1>4. CASE SelectFirst(t) \/ SelectRandom(t) \/ SelectLoadBalanced(t) \/ SelectPreferred(t)
  BY <1>4 DEF SelectFirst, SelectRandom, SelectLoadBalanced, SelectPreferred, SelectLeastLoaded, Choose
<1> QED
  BY <1>1, <1>2, <1>3, <1>4 DEF SelectServerStep

LEMMA NodePhasesStep == CallTypes /\ NodePhases /\ [NodeNext]_nodeVars => NodePhases'
<1> SUFFICES ASSUME CallTypes, NodePhases, [NodeNext]_nodeVars PROVE NodePhases'
  OBVIOUS
<1>0. dpc \in [Conns -> CallStates]
  BY DEF CallTypes
<1> USE <1>0 DEF NodePhases, InStep, Finished, Underway
<1>1. CASE UNCHANGED <<hpc, outcome, dpc>>
  BY <1>1
<1>2. CASE Stop \/ Environment
  <2>1. CASE Stop
    <3>1. CASE CancelContext /\ Handler!StopCancels
      BY <1>1, <3>1 DEF CancelContext, Handler!StopCancels, Handler!handlerVars, callVars
    <3>2. CASE UNCHANGED discoveryVars /\ Handler!StopClosesListener
      BY <1>1, <3>2 DEF discoveryVars, callVars, Handler!StopClosesListener, Handler!handlerVars
    <3> QED
      BY <2>1, <3>1, <3>2 DEF Stop
  <2>2. CASE Environment
    BY <1>1, <2>2 DEF Environment, IntervalElapses, LinkChanges, callVars, ownVars
  <2> QED
    BY <1>2, <2>1, <2>2
<1>3. CASE Accepts
  <2>1. UNCHANGED dpc
    BY <1>3 DEF Accepts, discoveryVars, callVars
  <2>2. CASE Handler!LoopTop \/ Handler!AcceptFails
    BY <1>1, <2>1, <2>2 DEF Handler!LoopTop, Handler!AcceptFails, Handler!handlerVars
  <2>3. ASSUME NEW t \in Conns, Handler!Accept(t) PROVE NodePhases'
    BY <2>1, <2>3 DEF Handler!Accept, Handler!Moves
  <2> QED
    BY <1>3, <2>2, <2>3 DEF Accepts, Handler!LoopStep
<1>4. ASSUME NEW t \in Conns, CallsSelectServer(t) PROVE NodePhases'
  BY <1>4 DEF CallsSelectServer, Call, Goto, Handler!HandshakeSucceeds, Handler!Moves
<1>5. ASSUME NEW t \in Conns, SelectServerRuns(t) PROVE NodePhases'
  <2>1. PICK c \in CallStates \ {"idle", "released"} : dpc' = [dpc EXCEPT ![t] = c]
    BY <1>5, SelectServerGoes DEF SelectServerRuns
  <2>2. hpc[t] = "select"
    BY <1>5, SelectServerGoes DEF SelectServerRuns
  <2>3. hpc' = hpc /\ outcome' = outcome
    BY <1>5 DEF SelectServerRuns, ownVars
  <2>4. dpc'[t] = c /\ \A u \in Conns \ {t} : dpc'[u] = dpc[u]
    BY <2>1
  <2>5. c \notin {"idle", "released"} /\ outcome[t] = "none"
    BY <2>1, <2>2
  <2>6. InStep(t)'
    BY <2>2, <2>3, <2>4, <2>5
  <2>7. \A u \in Conns \ {t} : InStep(u)'
    BY <2>3, <2>4
  <2> QED
    BY <2>3, <2>6, <2>7
<1>6. ASSUME NEW t \in Conns, BridgeEnds(t) PROVE NodePhases'
  BY <1>6 DEF BridgeEnds, ReleaseConnection, Goto, Handler!BridgeEnds, Handler!Leave, Handler!Moves
<1>7. ASSUME NEW t \in Conns, HandlerRuns(t) PROVE NodePhases'
  <2>1. UNCHANGED dpc
    BY <1>7 DEF HandlerRuns, discoveryVars, callVars
  <2>2. callSeen[t] = IF dpc[t] \in {"idle", "selected", "released", "none"} THEN dpc[t] ELSE "calling"
    BY DEF callSeen
  <2>3. CASE Handler!CheckLimit(t)
    BY <2>1, <2>3 DEF Handler!CheckLimit, Handler!Leave, Handler!Moves
  <2>4. CASE Handler!Admit(t)
    BY <2>1, <2>4 DEF Handler!Admit, Handler!Moves
  <2>5. CASE Handler!DeadlineExpires(t)
    BY <2>1, <2>5 DEF Handler!DeadlineExpires
  <2>6. CASE Handler!HandshakeFails(t)
    BY <2>1, <2>6 DEF Handler!HandshakeFails, Handler!Leave, Handler!Moves
  <2>7. CASE Handler!SelectFails(t)
    BY <2>1, <2>2, <2>7 DEF Handler!SelectFails, Handler!Leave, Handler!Moves
  <2>8. CASE Handler!StreamFails(t)
    BY <2>1, <2>2, <2>8 DEF Handler!StreamFails, Handler!Leave, Handler!Moves
  <2>9. CASE Handler!StreamOpens(t)
    BY <2>1, <2>2, <2>9 DEF Handler!StreamOpens, Handler!Moves
  <2>10. CASE Handler!SendTargetFails(t)
    BY <2>1, <2>10 DEF Handler!SendTargetFails, Handler!Leave, Handler!Moves
  <2>11. CASE Handler!SendTarget(t)
    BY <2>1, <2>11 DEF Handler!SendTarget, Handler!Moves
  <2>12. CASE Handler!Return(t)
    BY <2>1, <2>12 DEF Handler!Return, Handler!Moves
  <2> QED
    BY <1>7, <2>3, <2>4, <2>5, <2>6, <2>7, <2>8, <2>9, <2>10, <2>11, <2>12 DEF HandlerRuns
<1> QED
  BY <1>1, <1>2, <1>3, <1>4, <1>5, <1>6, <1>7 DEF NodeNext, nodeVars, ownVars, discoveryVars, callVars

(* The ledger of the discovery and the control flow of the handlers agree: *)
(* the callers that hold a server are the handlers that use it.            *)
THEOREM NodeLoadsExact == NodeSpec => []NodeLoads
<1>1. NodeInit => NodePhases
  BY DEF NodeInit, DiscoveryInit, NodePhases, InStep, Underway
<1>2. IInv /\ NodePhases => NodeLoads
  <2> SUFFICES ASSUME IInv, NodePhases, NEW p \in Peers
               PROVE  activeConns[p] = Cardinality(UsedBy(p))
    BY DEF NodeLoads
  <2>1. UsedBy(p) = Holding(p)
    BY DEF NodePhases, InStep, Finished, Underway, UsedBy, Holding
  <2> QED
    BY <2>1 DEF IInv, TypesOK, LoadAccounting
<1>3. IInv /\ NodePhases /\ [NodeNext]_nodeVars => NodePhases'
  BY NodePhasesStep DEF IInv, TypesOK
<1> QED
  BY <1>1, <1>2, <1>3, NodeDiscovers, Invariance, PTL DEF NodeSpec
=============================================================================
