------------------------- MODULE Socks5HandlerProofs -------------------------
(***************************************************************************)
(* Proofs about Socks5Handler for every number of connections, every set   *)
(* of peers and every limit.                                               *)
(***************************************************************************)
EXTENDS Socks5Handler, FiniteSetTheorems, TLAPS

(* The types, without the claim that ActiveConns never goes below zero:    *)
(* that one needs the ledger.                                              *)
Types ==
  /\ activeConns \in [Peers -> Int]
  /\ totalConns \in [Peers -> Nat]
  /\ call \in [Conns -> {"idle", "calling", "selected", "released", "none"}]
  /\ chosen \in [Conns -> Servers \cup {NoPeer}]
  /\ ctxDone \in BOOLEAN
  /\ loop \in {"top", "accepting", "exited"}
  /\ listening \in BOOLEAN
  /\ activeConnections \in Int
  /\ hpc \in [Conns -> {"new", "accepted", "admitted", "handshake", "select",
                        "opened", "bridge", "returning", "closed"}]
  /\ deadline \in [Conns -> {"unset", "armed", "expired"}]
  /\ reply \in [Conns -> {"none", "success", "failure", "lost"}]
  /\ outcome \in [Conns -> {"none", "rejected", "handshake", "noserver",
                            "nostream", "notarget", "bridged"}]

(* How far a handler is decides how far its SelectServer call is.          *)
Finished(t) ==
  \/ outcome[t] \in {"rejected", "handshake"} /\ call[t] = "idle"
  \/ outcome[t] = "noserver" /\ call[t] = "none"
  \/ outcome[t] \in {"nostream", "notarget"} /\ call[t] = "selected"
  \/ outcome[t] = "bridged" /\ call[t] = "released"

Underway(t) ==
  /\ outcome[t] = "none"
  /\ \/ hpc[t] \in {"new", "accepted", "admitted", "handshake"} /\ call[t] = "idle"
     \/ hpc[t] = "select" /\ call[t] \in {"calling", "selected", "none"}
     \/ hpc[t] \in {"opened", "bridge"} /\ call[t] = "selected"

PhaseOK(t) ==
  /\ IF hpc[t] \in {"returning", "closed"} THEN Finished(t) ELSE Underway(t)
  /\ chosen[t] # NoPeer => call[t] \in {"selected", "released"}
  /\ call[t] \in {"selected", "released"} => chosen[t] \in Servers

Phases == \A t \in Conns : PhaseOK(t)

Holding(p) == {t \in Conns : call[t] = "selected" /\ chosen[t] = p}

Ledger == \A p \in Peers : activeConns[p] = Cardinality(Holding(p))

IInv == Types /\ Phases /\ Ledger /\ CounterAccounting
-----------------------------------------------------------------------------
LEMMA CardinalityAdd ==
  ASSUME NEW S \in SUBSET Conns, NEW t \in Conns, t \notin S
  PROVE  Cardinality(S \cup {t}) = Cardinality(S) + 1
<1>1. IsFiniteSet(S)
  BY SelectionAssumption, FS_Subset
<1> QED
  BY <1>1, FS_AddElement

LEMMA CardinalityRemove ==
  ASSUME NEW S \in SUBSET Conns, NEW t \in S
  PROVE  Cardinality(S \ {t}) = Cardinality(S) - 1
<1>1. IsFiniteSet(S)
  BY SelectionAssumption, FS_Subset
<1> QED
  BY <1>1, FS_RemoveElement

LEMMA CardinalityNat ==
  ASSUME NEW S \in SUBSET Conns
  PROVE  Cardinality(S) \in Nat
BY SelectionAssumption, FS_Subset, FS_CardinalityType

(* The invariant holds initially: nobody is counted, nobody holds a server.*)
LEMMA InitInvariant == Init => IInv
<1> SUFFICES ASSUME Init PROVE IInv
  OBVIOUS
<1> USE SelectionAssumption DEF Init, SelectionInit
<1>1. Types
  <2>1. chosen \in [Conns -> Servers \cup {NoPeer}]
    OBVIOUS
  <2>2. activeConns \in [Peers -> Int] /\ totalConns \in [Peers -> Nat]
    OBVIOUS
  <2>3. call \in [Conns -> {"idle", "calling", "selected", "released", "none"}]
    OBVIOUS
  <2> QED
    BY <2>1, <2>2, <2>3 DEF Types
<1>2. Phases
  BY DEF Phases, PhaseOK, Underway, Servers
<1>3. Ledger
  <2>1. \A p \in Peers : Holding(p) = {}
    BY DEF Holding
  <2> QED
    BY <2>1, FS_EmptySet DEF Ledger
<1>4. CounterAccounting
  <2>1. Counted = {} /\ Refused = {}
    BY DEF Counted, Refused
  <2> QED
    BY <2>1, FS_EmptySet DEF CounterAccounting
<1> QED
  BY <1>1, <1>2, <1>3, <1>4 DEF IInv

LEMMA TypesStep == Types /\ [Next]_vars => Types'
<1> SUFFICES ASSUME Types, [Next]_vars PROVE Types'
  OBVIOUS
<1> USE SelectionAssumption DEF Types, Servers, vars, selectionVars, handlerVars, loopVars
<1>1. CASE UNCHANGED vars
  BY <1>1
<1>2. CASE LoopStep
  BY <1>2 DEF LoopStep, LoopTop, AcceptFails, Accept, Moves
<1>3. CASE StopCancels \/ StopClosesListener
  BY <1>3 DEF StopCancels, StopClosesListener
<1>4. ASSUME NEW t \in Conns, HandlerStep(t) PROVE Types'
  <2>1. CASE CheckLimit(t)
    BY <2>1 DEF CheckLimit, Leave, Moves
  <2>2. CASE Admit(t)
    BY <2>2 DEF Admit, Moves
  <2>3. CASE HandshakeSucceeds(t)
    BY <2>3 DEF HandshakeSucceeds, Moves, Call, Progress
  <2>4. CASE HandshakeFails(t)
    BY <2>4 DEF HandshakeFails, Leave, Moves, SendReply
  <2>5. CASE SelectReturns(t)
    <3>1. CASE SelectNone(t)
      BY <2>5, <3>1 DEF SelectReturns, SelectNone, Progress
    <3>2. ASSUME NEW p \in Servers, Select(t, p) PROVE Types'
      BY <2>5, <3>2 DEF SelectReturns, Select, Progress
    <3> QED
      BY <2>5, <3>1, <3>2 DEF SelectReturns, CallReturns
  <2>6. CASE SelectFails(t)
    BY <2>6 DEF SelectFails, Leave, Moves, SendReply
  <2>7. CASE StreamFails(t)
    BY <2>7 DEF StreamFails, Leave, Moves, SendReply
  <2>8. CASE StreamOpens(t)
    BY <2>8 DEF StreamOpens, Moves, SendReply
  <2>9. CASE SendTargetFails(t)
    BY <2>9 DEF SendTargetFails, Leave, Moves
  <2>10. CASE SendTarget(t)
    BY <2>10 DEF SendTarget, Moves
  <2>11. CASE Return(t)
    BY <2>11 DEF Return, Moves
  <2> QED
    BY <1>4, <2>1, <2>2, <2>3, <2>4, <2>5, <2>6, <2>7, <2>8, <2>9, <2>10, <2>11 DEF HandlerStep
<1>5. ASSUME NEW t \in Conns, DeadlineExpires(t) PROVE Types'
  BY <1>5 DEF DeadlineExpires
<1>6. ASSUME NEW t \in Conns, BridgeEnds(t) PROVE Types'
  <2>1. activeConns' \in [Peers -> Int]
    <3>1. activeConns' = [p \in Peers |-> IF p = chosen[t] THEN activeConns[p] - 1
                                                         ELSE activeConns[p]]
      BY <1>6 DEF BridgeEnds, Release
    <3> QED
      BY <3>1
  <2> QED
    BY <1>6, <2>1 DEF BridgeEnds, Release, Progress, Leave, Moves
<1> QED
  BY <1>1, <1>2, <1>3, <1>4, <1>5, <1>6 DEF Next

LEMMA PhasesStep == Types /\ Phases /\ [Next]_vars => Phases'
<1> SUFFICES ASSUME Types, Phases, [Next]_vars, NEW u \in Conns PROVE PhaseOK(u)'
  BY DEF Phases
<1> USE SelectionAssumption
    DEF Types, PhaseOK, Finished, Underway, Servers, vars, selectionVars, handlerVars, loopVars
<1>0. PhaseOK(u)
  BY DEF Phases
<1>1. CASE UNCHANGED vars
  BY <1>0, <1>1
<1>2. CASE LoopStep
  BY <1>0, <1>2 DEF LoopStep, LoopTop, AcceptFails, Accept, Moves
<1>3. CASE StopCancels \/ StopClosesListener
  BY <1>0, <1>3 DEF StopCancels, StopClosesListener
<1>4. ASSUME NEW t \in Conns, HandlerStep(t) PROVE PhaseOK(u)'
  <2>1. CASE CheckLimit(t)
    BY <1>0, <2>1 DEF CheckLimit, Leave, Moves
  <2>2. CASE Admit(t)
    BY <1>0, <2>2 DEF Admit, Moves
  <2>3. CASE HandshakeSucceeds(t)
    BY <1>0, <2>3 DEF HandshakeSucceeds, Moves, Call, Progress
  <2>4. CASE HandshakeFails(t)
    BY <1>0, <2>4 DEF HandshakeFails, Leave, Moves
  <2>5. CASE SelectReturns(t)
    BY <1>0, <2>5 DEF SelectReturns, CallReturns, Select, SelectNone, Progress
  <2>6. CASE SelectFails(t)
    BY <1>0, <2>6 DEF SelectFails, Leave, Moves
  <2>7. CASE StreamFails(t)
    BY <1>0, <2>7 DEF StreamFails, Leave, Moves
  <2>8. CASE StreamOpens(t)
    BY <1>0, <2>8 DEF StreamOpens, Moves
  <2>9. CASE SendTargetFails(t)
    BY <1>0, <2>9 DEF SendTargetFails, Leave, Moves
  <2>10. CASE SendTarget(t)
    BY <1>0, <2>10 DEF SendTarget, Moves
  <2>11. CASE Return(t)
    BY <1>0, <2>11 DEF Return, Moves
  <2> QED
    BY <1>4, <2>1, <2>2, <2>3, <2>4, <2>5, <2>6, <2>7, <2>8, <2>9, <2>10, <2>11 DEF HandlerStep
<1>5. ASSUME NEW t \in Conns, DeadlineExpires(t) PROVE PhaseOK(u)'
  BY <1>0, <1>5 DEF DeadlineExpires
<1>6. ASSUME NEW t \in Conns, BridgeEnds(t) PROVE PhaseOK(u)'
  BY <1>0, <1>6 DEF BridgeEnds, Release, Progress, Leave, Moves
<1> QED
  BY <1>1, <1>2, <1>3, <1>4, <1>5, <1>6 DEF Next
-----------------------------------------------------------------------------
(* The ledger changes at the two places that change serverLoads, and by    *)
(* the goroutine that starts or stops holding the server.                  *)
LEMMA LedgerStep == Types /\ Phases /\ Ledger /\ [Next]_vars => Ledger'
<1> SUFFICES ASSUME Types, Phases, Ledger, [Next]_vars, NEW q \in Peers
             PROVE  activeConns'[q] = Cardinality(Holding(q)')
  BY DEF Ledger
<1>0. activeConns[q] = Cardinality(Holding(q))
  BY DEF Ledger
<1>a. ASSUME UNCHANGED <<activeConns, call, chosen>>
      PROVE  activeConns'[q] = Cardinality(Holding(q)')
  <2>1. Holding(q)' = Holding(q)
    BY <1>a DEF Holding
  <2> QED
    BY <1>0, <1>a, <2>1
<1>b. ASSUME NEW t \in Conns, call[t] \in {"idle", "calling"}, UNCHANGED <<activeConns, chosen>>,
             NEW c \in {"calling", "none"}, call' = [call EXCEPT ![t] = c]
      PROVE  activeConns'[q] = Cardinality(Holding(q)')
  <2>1. Holding(q)' = Holding(q)
    BY <1>b DEF Holding, Types
  <2> QED
    BY <1>0, <1>b, <2>1
<1>1. CASE UNCHANGED vars
  BY <1>1, <1>a DEF vars, selectionVars
<1>2. CASE LoopStep \/ StopCancels \/ StopClosesListener
  BY <1>2, <1>a DEF LoopStep, LoopTop, AcceptFails, Accept, StopCancels, StopClosesListener,
                    selectionVars
<1>3. ASSUME NEW t \in Conns, HandlerStep(t)
      PROVE  activeConns'[q] = Cardinality(Holding(q)')
  <2>1. CASE \/ CheckLimit(t) \/ Admit(t) \/ HandshakeFails(t) \/ SelectFails(t) \/ StreamFails(t)
             \/ StreamOpens(t) \/ SendTargetFails(t) \/ SendTarget(t) \/ Return(t)
    BY <2>1, <1>a DEF CheckLimit, Admit, HandshakeFails, SelectFails, StreamFails, StreamOpens,
                      SendTargetFails, SendTarget, Return, selectionVars
  <2>2. CASE HandshakeSucceeds(t)
    BY <2>2, <1>b DEF HandshakeSucceeds, Call, Progress
  <2>3. CASE SelectNone(t)
    BY <2>3, <1>b DEF SelectNone, Progress
  <2>4. ASSUME NEW p \in Servers, Select(t, p)
        PROVE  activeConns'[q] = Cardinality(Holding(q)')
    <3>1. t \notin Holding(q)
      BY <2>4 DEF Select, Progress, Holding
    <3>2. CASE q = p
      <4>1. Holding(q)' = Holding(q) \cup {t}
        BY <2>4, <3>2 DEF Select, Progress, Holding, Types, Servers
      <4>2. activeConns'[q] = activeConns[q] + 1
        BY <2>4, <3>2 DEF Select, Types
      <4> QED
        BY <1>0, <3>1, <4>1, <4>2, CardinalityAdd DEF Holding
    <3>3. CASE q # p
      <4>1. Holding(q)' = Holding(q)
        BY <2>4, <3>3 DEF Select, Progress, Holding, Types, Servers
      <4>2. activeConns'[q] = activeConns[q]
        BY <2>4, <3>3 DEF Select, Types
      <4> QED
        BY <1>0, <4>1, <4>2
    <3> QED
      BY <3>2, <3>3
  <2> QED
    BY <1>3, <2>1, <2>2, <2>3, <2>4 DEF HandlerStep, SelectReturns, CallReturns
<1>4. ASSUME NEW t \in Conns, DeadlineExpires(t)
      PROVE  activeConns'[q] = Cardinality(Holding(q)')
  BY <1>4, <1>a DEF DeadlineExpires, selectionVars
<1>5. ASSUME NEW t \in Conns, BridgeEnds(t)
      PROVE  activeConns'[q] = Cardinality(Holding(q)')
  <2>1. Release(t)
    BY <1>5 DEF BridgeEnds
  <2>2. CASE q = chosen[t]
    <3>1. t \in Holding(q)
      BY <2>1, <2>2 DEF Release, Progress, Holding
    <3>2. Holding(q)' = Holding(q) \ {t}
      BY <2>1, <2>2 DEF Release, Progress, Holding, Types
    <3>3. activeConns'[q] = activeConns[q] - 1
      BY <2>1, <2>2 DEF Release, Types
    <3> QED
      BY <1>0, <3>1, <3>2, <3>3, CardinalityRemove DEF Holding
  <2>3. CASE q # chosen[t]
    <3>1. Holding(q)' = Holding(q)
      BY <2>1, <2>3 DEF Release, Progress, Holding, Types
    <3>2. activeConns'[q] = activeConns[q]
      BY <2>1, <2>3 DEF Release, Types
    <3> QED
      BY <1>0, <3>1, <3>2
  <2> QED
    BY <2>2, <2>3
<1> QED
  BY <1>1, <1>2, <1>3, <1>4, <1>5 DEF Next

(* The counter moves when a handler joins Counted or leaves it, and once   *)
(* more for a rejected one.                                                *)
LEMMA CounterStep == Types /\ Phases /\ CounterAccounting /\ [Next]_vars => CounterAccounting'
<1> SUFFICES ASSUME Types, Phases, CounterAccounting, [Next]_vars PROVE CounterAccounting'
  OBVIOUS
<1>0. /\ Cardinality(Counted) \in Int
      /\ Cardinality(Refused) \in Int
      /\ activeConnections = Cardinality(Counted) - Cardinality(Refused)
  BY CardinalityNat DEF CounterAccounting, Counted, Refused
<1>a. ASSUME activeConnections' = activeConnections, Counted' = Counted, Refused' = Refused
      PROVE  CounterAccounting'
  BY <1>0, <1>a DEF CounterAccounting
<1>1. CASE UNCHANGED vars
  <2>1. Counted' = Counted /\ Refused' = Refused
    BY <1>1 DEF vars, handlerVars, Counted, Refused
  <2> QED
    BY <1>1, <1>a, <2>1 DEF vars, handlerVars
<1>2. CASE LoopTop \/ AcceptFails \/ StopCancels \/ StopClosesListener
  <2>1. UNCHANGED handlerVars
    BY <1>2 DEF LoopTop, AcceptFails, StopCancels, StopClosesListener
  <2>2. Counted' = Counted /\ Refused' = Refused
    BY <2>1 DEF handlerVars, Counted, Refused
  <2> QED
    BY <1>a, <2>1, <2>2 DEF handlerVars
<1>3. ASSUME NEW t \in Conns, Accept(t) PROVE CounterAccounting'
  <2>1. Counted' = Counted /\ Refused' = Refused
    BY <1>3 DEF Accept, Moves, Counted, Refused, Types
  <2> QED
    BY <1>3, <1>a, <2>1 DEF Accept
<1>4. ASSUME NEW t \in Conns, HandlerStep(t) PROVE CounterAccounting'
  <2>0. PhaseOK(t)
    BY DEF Phases
  <2>1. CASE CheckLimit(t)
    <3>1. Counted' = Counted
      BY <2>1 DEF CheckLimit, Leave, Moves, Counted, Types
    <3>2. Refused' = Refused
      BY <2>1 DEF CheckLimit, Leave, Moves, Refused, Types
    <3> QED
      BY <2>1, <1>a, <3>1, <3>2 DEF CheckLimit
  <2>2. CASE Admit(t)
    <3>1. Counted' = Counted \cup {t} /\ t \notin Counted
      BY <2>0, <2>2 DEF Admit, Moves, Counted, Types
    <3>2. Refused' = Refused
      BY <2>2 DEF Admit, Moves, Refused, Types
    <3>3. Cardinality(Counted') = Cardinality(Counted) + 1
      BY <3>1, CardinalityAdd DEF Counted
    <3> QED
      BY <1>0, <2>2, <3>2, <3>3 DEF Admit, CounterAccounting
  <2>3. CASE HandshakeSucceeds(t) \/ StreamOpens(t) \/ SendTarget(t)
    <3>1. Counted' = Counted /\ Refused' = Refused
      BY <2>3 DEF HandshakeSucceeds, StreamOpens, SendTarget, Moves, Counted, Refused, Types
    <3> QED
      BY <2>3, <1>a, <3>1 DEF HandshakeSucceeds, StreamOpens, SendTarget
  <2>4. CASE HandshakeFails(t) \/ SelectFails(t) \/ StreamFails(t) \/ SendTargetFails(t)
    <3>1. Counted' = Counted /\ Refused' = Refused
      BY <2>4 DEF HandshakeFails, SelectFails, StreamFails, SendTargetFails, Leave, Moves,
                  Counted, Refused, Types
    <3> QED
      BY <2>4, <1>a, <3>1 DEF HandshakeFails, SelectFails, StreamFails, SendTargetFails
  <2>5. CASE SelectReturns(t)
    <3>1. UNCHANGED handlerVars
      BY <2>5 DEF SelectReturns
    <3>2. Counted' = Counted /\ Refused' = Refused
      BY <3>1 DEF handlerVars, Counted, Refused
    <3> QED
      BY <1>a, <3>1, <3>2 DEF handlerVars
  <2>6. CASE Return(t) /\ outcome[t] = "rejected"
    <3>1. Counted' = Counted
      BY <2>6 DEF Return, Moves, Counted, Types
    <3>2. Refused' = Refused \cup {t} /\ t \notin Refused
      BY <2>6 DEF Return, Moves, Refused, Types
    <3>3. Cardinality(Refused') = Cardinality(Refused) + 1
      BY <3>2, CardinalityAdd DEF Refused
    <3> QED
      BY <1>0, <2>6, <3>1, <3>3 DEF Return, CounterAccounting
  <2>7. CASE Return(t) /\ outcome[t] # "rejected"
    <3>1. Counted' = Counted \ {t} /\ t \in Counted
      BY <2>7 DEF Return, Moves, Counted, Types
    <3>2. Refused' = Refused
      BY <2>7 DEF Return, Moves, Refused, Types
    <3>3. Cardinality(Counted') = Cardinality(Counted) - 1
      BY <3>1, CardinalityRemove DEF Counted
    <3> QED
      BY <1>0, <2>7, <3>2, <3>3 DEF Return, CounterAccounting
  <2> QED
    BY <1>4, <2>1, <2>2, <2>3, <2>4, <2>5, <2>6, <2>7 DEF HandlerStep
<1>5. ASSUME NEW t \in Conns, DeadlineExpires(t) PROVE CounterAccounting'
  <2>1. Counted' = Counted /\ Refused' = Refused
    BY <1>5 DEF DeadlineExpires, Counted, Refused
  <2> QED
    BY <1>5, <1>a, <2>1 DEF DeadlineExpires
<1>6. ASSUME NEW t \in Conns, BridgeEnds(t) PROVE CounterAccounting'
  <2>1. Counted' = Counted /\ Refused' = Refused
    BY <1>6 DEF BridgeEnds, Leave, Moves, Counted, Refused, Types
  <2> QED
    BY <1>6, <1>a, <2>1 DEF BridgeEnds
<1> QED
  BY <1>1, <1>2, <1>3, <1>4, <1>5, <1>6 DEF Next, LoopStep
-----------------------------------------------------------------------------
(* IInv is inductive: the types, the phases of handler and call, the       *)
(* ledger and the counter support each other along every step.             *)
THEOREM Invariance == Spec => []IInv
<1>1. IInv /\ [Next]_vars => IInv'
  BY TypesStep, PhasesStep, LedgerStep, CounterStep DEF IInv
<1> QED
  BY InitInvariant, <1>1, PTL DEF Spec

(* Type correctness; that ActiveConns stays a natural number follows from  *)
(* the ledger, not from the types.                                         *)
THEOREM TypeCorrect == Spec => []TypeOK
<1>1. IInv => TypeOK
  <2> SUFFICES ASSUME IInv PROVE TypeOK
    OBVIOUS
  <2>1. \A p \in Peers : activeConns[p] \in Nat
    BY CardinalityNat DEF IInv, Ledger, Holding
  <2>2. activeConns \in [Peers -> Nat]
    BY <2>1 DEF IInv, Types
  <2> QED
    BY <2>2 DEF IInv, Types, TypeOK, SelectionTypeOK
<1> QED
  BY Invariance, <1>1, PTL

(* The connection counter is short by exactly the connections rejected.    *)
THEOREM CounterCorrect == Spec => []CounterAccounting
<1>1. IInv => CounterAccounting
  BY DEF IInv
<1> QED
  BY Invariance, <1>1, PTL

(* ActiveConns is the number of handlers a server is charged for: the      *)
(* phases say which handlers those are.                                    *)
THEOREM LoadCorrect == Spec => []LoadAccounting
<1>1. IInv => LoadAccounting
  <2> SUFFICES ASSUME IInv, NEW p \in Peers PROVE activeConns[p] = Cardinality(Charged(p))
    BY DEF LoadAccounting
  <2>1. \A t \in Conns : t \in Charged(p) <=> t \in Holding(p)
    <3> SUFFICES ASSUME NEW t \in Conns PROVE t \in Charged(p) <=> t \in Holding(p)
      OBVIOUS
    <3>1. PhaseOK(t) /\ p # NoPeer
      BY SelectionAssumption DEF IInv, Phases
    <3> QED
      BY <3>1 DEF PhaseOK, Finished, Underway, Charged, Holding
  <2>2. Charged(p) = Holding(p)
    BY <2>1 DEF Charged, Holding
  <2> QED
    BY <2>2 DEF IInv, Ledger
<1> QED
  BY Invariance, <1>1, PTL

(* Nobody is turned away while MaxConnections handlers or fewer are being  *)
(* served: the counter never exceeds their number.                         *)
THEOREM RejectionJustified == Spec => NoFalseRejection
<1> DEFINE Justified ==
      \A t \in Conns :
        hpc[t] = "accepted" /\ hpc'[t] = "returning" => Cardinality(Counted) > MaxConnections
<1>1. IInv /\ [Next]_vars => [Justified]_vars
  <2> SUFFICES ASSUME IInv, Next, NEW t \in Conns, hpc[t] = "accepted", hpc'[t] = "returning"
               PROVE  Cardinality(Counted) > MaxConnections
    BY DEF Justified
  <2> USE DEF IInv, Types
  <2>1. PICK u \in Conns : HandlerStep(u) \/ BridgeEnds(u)
    BY DEF Next, LoopStep, LoopTop, AcceptFails, Accept, Moves, StopCancels, StopClosesListener,
           DeadlineExpires, handlerVars
  <2>2. CheckLimit(u)
    BY <2>1 DEF HandlerStep, Admit, HandshakeSucceeds, HandshakeFails, SelectReturns, SelectFails,
                StreamFails, StreamOpens, SendTargetFails, SendTarget, Return, BridgeEnds,
                Leave, Moves, handlerVars
  <2>3. activeConnections > MaxConnections
    BY <2>2 DEF CheckLimit, OverLimit, Leave, Moves
  <2>4. Cardinality(Counted) \in Nat /\ Cardinality(Refused) \in Nat
    BY CardinalityNat DEF Counted, Refused
  <2> QED
    BY <2>3, <2>4, Socks5Assumption DEF CounterAccounting
<1> QED
  BY Invariance, <1>1, PTL DEF Spec, NoFalseRejection

(* A handler has told its client nothing before it opens the stream; after *)
(* success it is bridging or has given up on the target, after failure it  *)
(* is on its way out.                                                      *)
ReplyOK(t) ==
  /\ hpc[t] \in {"new", "accepted", "admitted", "handshake", "select"} => reply[t] = "none"
  /\ reply[t] = "success" =>
       \/ hpc[t] \in {"opened", "bridge"}
       \/ hpc[t] \in {"returning", "closed"} /\ outcome[t] \in {"notarget", "bridged"}
  /\ reply[t] = "failure" =>
       hpc[t] \in {"returning", "closed"} /\ outcome[t] \in {"handshake", "noserver", "nostream"}

Replies == \A t \in Conns : ReplyOK(t)

(* The reply is written once, by the step that decides the outcome or by   *)
(* the one that opens the stream; the deadline changes what is written,    *)
(* never what was.                                                         *)
LEMMA RepliesStep == Types /\ Phases /\ Replies /\ [Next]_vars => Replies'
<1> SUFFICES ASSUME Types, Phases, Replies, [Next]_vars, NEW u \in Conns PROVE ReplyOK(u)'
  BY DEF Replies
<1> USE DEF Types, ReplyOK, SendReply, Leave, Moves
<1>0. PhaseOK(u) /\ ReplyOK(u)
  BY DEF Phases, Replies
<1>a. ASSUME UNCHANGED handlerVars PROVE ReplyOK(u)'
  BY <1>0, <1>a DEF handlerVars
<1>1. CASE UNCHANGED vars
  BY <1>1, <1>a DEF vars
<1>2. CASE LoopStep
  BY <1>0, <1>2, <1>a DEF LoopStep, LoopTop, AcceptFails, Accept
<1>3. CASE StopCancels \/ StopClosesListener
  BY <1>3, <1>a DEF StopCancels, StopClosesListener
<1>4. ASSUME NEW t \in Conns, HandlerStep(t) PROVE ReplyOK(u)'
  <2>1. CASE CheckLimit(t) \/ Admit(t) \/ HandshakeSucceeds(t)
    BY <1>0, <2>1 DEF CheckLimit, Admit, HandshakeSucceeds
  <2>2. CASE HandshakeFails(t)
    BY <1>0, <2>2 DEF HandshakeFails
  <2>3. CASE SelectReturns(t)
    BY <2>3, <1>a DEF SelectReturns
  <2>4. CASE SelectFails(t)
    BY <1>0, <2>4 DEF SelectFails
  <2>5. CASE StreamFails(t)
    BY <1>0, <2>5 DEF StreamFails
  <2>6. CASE StreamOpens(t)
    BY <1>0, <2>6 DEF StreamOpens
  <2>7. CASE SendTargetFails(t)
    BY <1>0, <2>7 DEF SendTargetFails
  <2>8. CASE SendTarget(t)
    BY <1>0, <2>8 DEF SendTarget
  <2>9. CASE Return(t)
    BY <1>0, <2>9 DEF Return
  <2> QED
    BY <1>4, <2>1, <2>2, <2>3, <2>4, <2>5, <2>6, <2>7, <2>8, <2>9 DEF HandlerStep
<1>5. ASSUME NEW t \in Conns, DeadlineExpires(t) PROVE ReplyOK(u)'
  BY <1>0, <1>5 DEF DeadlineExpires
<1>6. ASSUME NEW t \in Conns, BridgeEnds(t) PROVE ReplyOK(u)'
  BY <1>0, <1>6 DEF BridgeEnds
<1> QED
  BY <1>1, <1>2, <1>3, <1>4, <1>5, <1>6 DEF Next

(* What a client was told is what happened to it: success only on a stream *)
(* that is open, failure only by a handler that then gives up, whatever    *)
(* the deadline does to the reply in between.                              *)
THEOREM ReplyTrue == Spec => []ReplyTellsOutcome
<1>1. Init => Replies
  BY DEF Init, Replies, ReplyOK
<1>2. IInv /\ Replies /\ [Next]_vars => Replies'
  BY RepliesStep DEF IInv
<1>3. IInv /\ Replies => ReplyTellsOutcome
  BY DEF IInv, Phases, PhaseOK, Finished, Underway, Replies, ReplyOK, ReplyTellsOutcome
<1> QED
  BY Invariance, <1>1, <1>2, <1>3, PTL DEF Spec
=============================================================================
