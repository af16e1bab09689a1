----------------------------- MODULE ClientNode ------------------------------
(***************************************************************************)
(* The client side of a running node: the SOCKS5 handler and the           *)
(* ServerDiscovery that its Start creates, put together.  A handler        *)
(* goroutine calls SelectServer and ReleaseConnection of discovery.go      *)
(* (module ClientDiscovery) where Socks5Handler only assumes a             *)
(* ServerSelection, and both work on one context, s.ctx: a Stop in the     *)
(* middle of a refresh cancels its query and its dials.                    *)
(***************************************************************************)
EXTENDS ClientDiscovery

CONSTANT MaxConnections  \* config.SOCKS5.MaxConnections

ASSUME NodeAssumption == MaxConnections \in Nat \ {0}

VARIABLES
  loop, listening,               \* the accept loop
  activeConnections, hpc,        \* the handlers, see Socks5Handler
  deadline, reply, outcome

(* The handlers over the selection the discovery shows its callers; the    *)
(* context is one and the same variable in both.                           *)
Handler == INSTANCE Socks5Handler WITH call <- callSeen, chosen <- serverSeen

ownVars == <<loop, listening, activeConnections, hpc, deadline, reply, outcome>>
nodeVars == <<discoveryVars, ownVars>>

NodeInit ==
  /\ DiscoveryInit
  /\ loop = "top"
  /\ listening = TRUE
  /\ activeConnections = 0
  /\ hpc = [t \in Conns |-> "new"]
  /\ deadline = [t \in Conns |-> "unset"]
  /\ reply = [t \in Conns |-> "none"]
  /\ outcome = [t \in Conns |-> "none"]
-----------------------------------------------------------------------------
(* Start creates the discovery, Stop cancels the context of both.          *)
Stop ==
  \/ CancelContext /\ Handler!StopCancels
  \/ UNCHANGED discoveryVars /\ Handler!StopClosesListener

Accepts == UNCHANGED discoveryVars /\ Handler!LoopStep

(* serverPeer, err := s.discovery.SelectServer(s.ctx)                      *)
CallsSelectServer(t) == Call(t) /\ Handler!HandshakeSucceeds(t)

(* Mutant of SelectServerRuns: a handler gives up on SelectServer when its *)
(* deadline is over; the call goes on behind its back.                     *)
SelectServerAbandoned(t) ==
  \/ SelectServerStep(t) /\ UNCHANGED ownVars
  \/ /\ deadline[t] = "expired"
     /\ Handler!Leave(t, "select", "noserver")
     /\ UNCHANGED <<discoveryVars, loop, listening, activeConnections, deadline, reply>>

SelectServerRuns(t) == SelectServerStep(t) /\ UNCHANGED ownVars

(* Mutant of BridgeEnds: the server is not given back.                     *)
BridgeEndsHolding(t) == UNCHANGED discoveryVars /\ Handler!BridgeEndsHolding(t)

(* s.discovery.ReleaseConnection(serverPeer.ID)                            *)
BridgeEnds(t) == ReleaseConnection(t) /\ Handler!BridgeEnds(t)

(* The rest of a handler leaves the discovery alone.                       *)
HandlerRuns(t) ==
  /\ UNCHANGED discoveryVars
  /\ \/ Handler!CheckLimit(t)
     \/ Handler!Admit(t)
     \/ Handler!DeadlineExpires(t)
     \/ Handler!HandshakeFails(t)
     \/ Handler!SelectFails(t)
     \/ Handler!StreamFails(t)
     \/ Handler!StreamOpens(t)
     \/ Handler!SendTargetFails(t)
     \/ Handler!SendTarget(t)
     \/ Handler!Return(t)

Environment == (IntervalElapses \/ LinkChanges) /\ UNCHANGED ownVars

NodeNext ==
  \/ Stop
  \/ Accepts
  \/ \E t \in Conns :
       \/ CallsSelectServer(t)
       \/ SelectServerRuns(t)
       \/ BridgeEnds(t)
       \/ HandlerRuns(t)
  \/ Environment

NodeSpec == NodeInit /\ [][NodeNext]_nodeVars
-----------------------------------------------------------------------------
(* The handlers a server should be charged with, whatever the discovery    *)
(* has counted: those that were just handed it, those on their way to it   *)
(* or bridged to it, and those that found it of no use.                    *)
UsedBy(p) ==
  {t \in Conns :
     /\ chosen[t] = p
     /\ \/ hpc[t] = "select" /\ dpc[t] = "selected"
        \/ hpc[t] \in {"opened", "bridge"}
        \/ outcome[t] \in {"nostream", "notarget"}}

(* ActiveConns, which discovery.go keeps and load balancing compares, is   *)
(* the number of handlers socks5.go has on that server, however their      *)
(* calls, failures, deadlines and the Stop of the node interleave.         *)
NodeLoads == \A p \in Peers : activeConns[p] = Cardinality(UsedBy(p))

(* The handlers behave as if selecting a server were one step: all that    *)
(* holds of Socks5Handler holds of the whole.                              *)
ImplementsHandler == Handler!Spec
=============================================================================
