--------------------------- MODULE ServerSelection ---------------------------
(***************************************************************************)
(* What ServerDiscovery promises the goroutines that share it              *)
(* (server/handlers/discovery.go): a call of SelectServer returns one      *)
(* server other than this node, or fails, and serverLoads is an exact      *)
(* ledger of the servers handed out and given back.  How the list of       *)
(* servers is found, cached and filtered is left to ClientDiscovery, which *)
(* implements this specification.                                          *)
(***************************************************************************)
EXTENDS Integers, FiniteSets

CONSTANTS
  Conns,   \* the goroutines, one per accepted SOCKS5 connection
  Peers,   \* the peers advertising the service name, Self included
  Self,    \* this node
  NoPeer   \* no server selected yet

ASSUME SelectionAssumption ==
  /\ IsFiniteSet(Conns)
  /\ Self \in Peers
  /\ NoPeer \notin Peers

VARIABLES
  activeConns,  \* serverLoads[p].ActiveConns, 0 when there is no entry
  totalConns,   \* serverLoads[p].TotalConns, 0 when there is no entry
  call,         \* how far the SelectServer call of each goroutine is
  chosen        \* the server it returned

selectionVars == <<activeConns, totalConns, call, chosen>>

Servers == Peers \ {Self}

SelectionTypeOK ==
  /\ activeConns \in [Peers -> Nat]
  /\ totalConns \in [Peers -> Nat]
  /\ call \in [Conns -> {"idle", "calling", "selected", "released", "none"}]
  /\ chosen \in [Conns -> Servers \cup {NoPeer}]

SelectionInit ==
  /\ activeConns = [p \in Peers |-> 0]
  /\ totalConns = [p \in Peers |-> 0]
  /\ call = [t \in Conns |-> "idle"]
  /\ chosen = [t \in Conns |-> NoPeer]

Progress(t, from, to) == call[t] = from /\ call' = [call EXCEPT ![t] = to]

Call(t) ==
  /\ Progress(t, "idle", "calling")
  /\ UNCHANGED <<activeConns, totalConns, chosen>>

(* SelectServer returns p; TrackConnection has counted it by then.         *)
Select(t, p) ==
  /\ Progress(t, "calling", "selected")
  /\ chosen' = [chosen EXCEPT ![t] = p]
  /\ activeConns' = [activeConns EXCEPT ![p] = @ + 1]
  /\ totalConns' = [totalConns EXCEPT ![p] = @ + 1]

SelectNone(t) ==
  /\ Progress(t, "calling", "none")
  /\ UNCHANGED <<activeConns, totalConns, chosen>>

(* Mutant of Release: the server is given back twice.                      *)
ReleaseTwice(t) ==
  /\ Progress(t, "selected", "released")
  /\ activeConns' = [activeConns EXCEPT ![chosen[t]] = @ - 2]
  /\ UNCHANGED <<totalConns, chosen>>

(* No clamp here: the entry counts the server that is given back.          *)
Release(t) ==
  /\ Progress(t, "selected", "released")
  /\ activeConns' = [activeConns EXCEPT ![chosen[t]] = @ - 1]
  /\ UNCHANGED <<totalConns, chosen>>

CallReturns(t) == SelectNone(t) \/ \E p \in Servers : Select(t, p)

SelectionNext == \E t \in Conns : Call(t) \/ CallReturns(t) \/ Release(t)

SelectionSpec == SelectionInit /\ [][SelectionNext]_selectionVars

(* The calls are bounded: the DHT query by QueryTimeoutSec, each dial by   *)
(* ConnectionTimeout.                                                      *)
FairSelectionSpec ==
  SelectionSpec /\ \A t \in Conns : WF_selectionVars(CallReturns(t))
=============================================================================
