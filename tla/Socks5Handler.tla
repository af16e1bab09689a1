---------------------------- MODULE Socks5Handler ----------------------------
(***************************************************************************)
(* SOCKS5Handler of a client node (server/handlers/socks5.go): the accept  *)
(* loop, one handler goroutine per accepted connection, and Stop.  A       *)
(* handler passes the connection limit, negotiates with its client, calls  *)
(* SelectServer on the shared ServerDiscovery (module ServerSelection),    *)
(* opens a stream to the server and bridges until one side closes.         *)
(***************************************************************************)
EXTENDS ServerSelection

CONSTANT MaxConnections  \* config.SOCKS5.MaxConnections

ASSUME Socks5Assumption == MaxConnections \in Nat \ {0}

VARIABLES
  ctxDone,            \* s.ctx is cancelled
  loop,               \* where the accept loop is
  listening,          \* the listener is open
  activeConnections,  \* the atomic counter the limit is compared with
  hpc,                \* where each handler is
  deadline,           \* the handshake deadline set on its connection
  reply,              \* the CONNECT reply its client has been sent
  outcome             \* why it returned

handlerVars == <<activeConnections, hpc, deadline, reply, outcome>>
loopVars == <<ctxDone, loop, listening>>
vars == <<selectionVars, handlerVars, loopVars>>

TypeOK ==
  /\ SelectionTypeOK
  /\ ctxDone \in BOOLEAN
  /\ loop \in {"top", "accepting", "exited"}
  /\ listening \in BOOLEAN
  /\ activeConnections \in Int
  /\ hpc \in [Conns -> {"new", "accepted", "admitted", "handshake", "select",
                        "opened", "bridge", "returning", "closed"}]
  /\ deadline \in [Conns -> {"unset", "armed", "expired"}]
  /\ reply \in [Conns -> {"none", "success", "failure", "lost"}]
  /\ outcome \in [Conns -> {"none", "rejected", "handshake", "noserver",
                            "nostream", "notarget", "bridged"}]

Init ==
  /\ SelectionInit
  /\ ctxDone = FALSE
  /\ loop = "top"
  /\ listening = TRUE
  /\ activeConnections = 0
  /\ hpc = [t \in Conns |-> "new"]
  /\ deadline = [t \in Conns |-> "unset"]
  /\ reply = [t \in Conns |-> "none"]
  /\ outcome = [t \in Conns |-> "none"]

Moves(t, from, to) == hpc[t] = from /\ hpc' = [hpc EXCEPT ![t] = to]
-----------------------------------------------------------------------------
(* acceptConnections and Stop.                                             *)

LoopTop ==
  /\ loop = "top"
  /\ loop' = IF ctxDone THEN "exited" ELSE "accepting"
  /\ UNCHANGED <<ctxDone, listening, handlerVars, selectionVars>>

Accept(t) ==
  /\ loop = "accepting"
  /\ listening
  /\ loop' = "top"
  /\ Moves(t, "new", "accepted")
  /\ UNCHANGED <<ctxDone, listening, activeConnections, deadline, reply, outcome, selectionVars>>

(* Accept fails for good once the listener is closed, and now and then     *)
(* before; the loop gives up only when the context is cancelled.           *)
AcceptFails ==
  /\ loop = "accepting"
  /\ loop' = IF ctxDone THEN "exited" ELSE "top"
  /\ UNCHANGED <<ctxDone, listening, handlerVars, selectionVars>>

(* Stop: first the context, then the listener.                             *)
StopCancels ==
  /\ ~ctxDone
  /\ ctxDone' = TRUE
  /\ UNCHANGED <<loop, listening, handlerVars, selectionVars>>

(* Mutant of StopClosesListener: Stop relies on the context alone.         *)
StopKeepsListener ==
  /\ ctxDone
  /\ listening
  /\ UNCHANGED vars

StopClosesListener ==
  /\ ctxDone
  /\ listening
  /\ listening' = FALSE
  /\ UNCHANGED <<ctxDone, loop, handlerVars, selectionVars>>
-----------------------------------------------------------------------------
(* handleConnection.  A return runs the deferred calls: the counter goes   *)
(* down and the connection is closed, whatever the reason.                 *)

Leave(t, from, why) ==
  /\ Moves(t, from, "returning")
  /\ outcome' = [outcome EXCEPT ![t] = why]

OverLimit(n) == n > MaxConnections

CheckLimit(t) ==
  /\ \/ /\ OverLimit(activeConnections)
        /\ Leave(t, "accepted", "rejected")
     \/ /\ ~OverLimit(activeConnections)
        /\ Moves(t, "accepted", "admitted")
        /\ UNCHANGED outcome
  /\ UNCHANGED <<activeConnections, deadline, reply, loopVars, selectionVars>>

(* Mutant of Admit: no deadline for the handshake.                         *)
AdmitWithoutDeadline(t) ==
  /\ Moves(t, "admitted", "handshake")
  /\ activeConnections' = activeConnections + 1
  /\ UNCHANGED <<deadline, reply, outcome, loopVars, selectionVars>>

Admit(t) ==
  /\ Moves(t, "admitted", "handshake")
  /\ activeConnections' = activeConnections + 1
  /\ deadline' = [deadline EXCEPT ![t] = "armed"]
  /\ UNCHANGED <<reply, outcome, loopVars, selectionVars>>

DeadlineExpires(t) ==
  /\ deadline[t] = "armed"
  /\ deadline' = [deadline EXCEPT ![t] = "expired"]
  /\ UNCHANGED <<activeConnections, hpc, reply, outcome, loopVars, selectionVars>>

(* sendConnectResponse ignores the result of its write, which fails on an  *)
(* expired deadline.                                                       *)
SendReply(t, r) ==
  reply' = [reply EXCEPT ![t] = IF deadline[t] = "expired" THEN "lost" ELSE r]

(* handleAuthentication and handleRequest succeed: SelectServer is called. *)
HandshakeSucceeds(t) ==
  /\ deadline[t] = "armed"
  /\ Moves(t, "handshake", "select")
  /\ Call(t)
  /\ UNCHANGED <<activeConnections, deadline, reply, outcome, loopVars>>

(* A read fails or a request is malformed; an unsupported command or       *)
(* address type is answered with a failure reply.                          *)
HandshakeFails(t) ==
  /\ Leave(t, "handshake", "handshake")
  /\ SendReply(t, "failure") \/ UNCHANGED reply
  /\ UNCHANGED <<activeConnections, deadline, loopVars, selectionVars>>

SelectFails(t) ==
  /\ call[t] = "none"
  /\ Leave(t, "select", "noserver")
  /\ SendReply(t, "failure")
  /\ UNCHANGED <<activeConnections, deadline, loopVars, selectionVars>>

(* Mutant of StreamFails: success was promised before the stream opened.   *)
StreamFailsAfterSuccess(t) ==
  /\ call[t] = "selected"
  /\ Leave(t, "select", "nostream")
  /\ SendReply(t, "success")
  /\ UNCHANGED <<activeConnections, deadline, loopVars, selectionVars>>

StreamFails(t) ==
  /\ call[t] = "selected"
  /\ Leave(t, "select", "nostream")
  /\ SendReply(t, "failure")
  /\ UNCHANGED <<activeConnections, deadline, loopVars, selectionVars>>

StreamOpens(t) ==
  /\ call[t] = "selected"
  /\ Moves(t, "select", "opened")
  /\ SendReply(t, "success")
  /\ UNCHANGED <<activeConnections, deadline, outcome, loopVars, selectionVars>>

SendTargetFails(t) ==
  /\ Leave(t, "opened", "notarget")
  /\ UNCHANGED <<activeConnections, deadline, reply, loopVars, selectionVars>>

(* The target address is on its way; conn.SetDeadline(time.Time{}).        *)
SendTarget(t) ==
  /\ Moves(t, "opened", "bridge")
  /\ deadline' = [deadline EXCEPT ![t] = "unset"]
  /\ UNCHANGED <<activeConnections, reply, outcome, loopVars, selectionVars>>

(* Mutant of BridgeEnds: the server is not given back.                     *)
BridgeEndsHolding(t) ==
  /\ Leave(t, "bridge", "bridged")
  /\ UNCHANGED <<activeConnections, deadline, reply, loopVars, selectionVars>>

(* bridgeTraffic returns when either direction ends; then the tracking of  *)
(* the server is released.                                                 *)
BridgeEnds(t) ==
  /\ Leave(t, "bridge", "bridged")
  /\ Release(t)
  /\ UNCHANGED <<activeConnections, deadline, reply, loopVars>>

(* Mutant of Return: the counter goes down at the end of the function      *)
(* instead of in a deferred call.                                          *)
ReturnCountsBridged(t) ==
  /\ Moves(t, "returning", "closed")
  /\ activeConnections' = activeConnections - (IF outcome[t] = "bridged" THEN 1 ELSE 0)
  /\ deadline' = [deadline EXCEPT ![t] = "unset"]
  /\ UNCHANGED <<reply, outcome, loopVars, selectionVars>>

Return(t) ==
  /\ Moves(t, "returning", "closed")
  /\ activeConnections' = activeConnections - 1
  /\ deadline' = [deadline EXCEPT ![t] = "unset"]
  /\ UNCHANGED <<reply, outcome, loopVars, selectionVars>>

SelectReturns(t) ==
  /\ CallReturns(t)
  /\ UNCHANGED <<handlerVars, loopVars>>
-----------------------------------------------------------------------------
HandlerStep(t) ==
  \/ CheckLimit(t)
  \/ Admit(t)
  \/ HandshakeSucceeds(t)
  \/ HandshakeFails(t)
  \/ SelectReturns(t)
  \/ SelectFails(t)
  \/ StreamFails(t)
  \/ StreamOpens(t)
  \/ SendTargetFails(t)
  \/ SendTarget(t)
  \/ Return(t)

LoopStep == LoopTop \/ AcceptFails \/ \E t \in Conns : Accept(t)

Next ==
  \/ LoopStep
  \/ StopCancels
  \/ StopClosesListener
  \/ \E t \in Conns : HandlerStep(t) \/ DeadlineExpires(t) \/ BridgeEnds(t)

Spec == Init /\ [][Next]_vars

(* What a handler does without waiting for its client.  Reads of the       *)
(* handshake fail once the deadline is over; the stream to the server is   *)
(* opened within libp2p's negotiation timeout.                             *)
CertainStep(t) ==
  \/ CheckLimit(t)
  \/ Admit(t)
  \/ deadline[t] = "expired" /\ HandshakeFails(t)
  \/ SelectReturns(t)
  \/ SelectFails(t)
  \/ StreamFails(t)
  \/ StreamOpens(t)
  \/ SendTargetFails(t)
  \/ SendTarget(t)
  \/ Return(t)

(* What a handler may rely on: its goroutine is scheduled and the deadline *)
(* on its connection passes.                                               *)
HandlerFairness(t) == WF_vars(CertainStep(t)) /\ WF_vars(DeadlineExpires(t))

(* The accept loop is scheduled, and Stop, once it has cancelled the       *)
(* context, goes on to close the listener.                                 *)
LoopFairness ==
  /\ WF_vars(LoopTop)
  /\ WF_vars(~listening /\ AcceptFails)
  /\ WF_vars(StopClosesListener)
-----------------------------------------------------------------------------
(* The handlers that have gone through the AddInt32(+1) of Admit and not   *)
(* yet through the deferred AddInt32(-1), and the ones that were rejected. *)
Counted ==
  {t \in Conns : \/ hpc[t] \in {"handshake", "select", "opened", "bridge"}
                 \/ hpc[t] = "returning" /\ outcome[t] # "rejected"}
Refused == {t \in Conns : hpc[t] = "closed" /\ outcome[t] = "rejected"}

(* The counter is short by one for every connection ever rejected, and by  *)
(* nothing else: the decrement is deferred before the limit is checked.    *)
CounterAccounting ==
  activeConnections = Cardinality(Counted) - Cardinality(Refused)

(* A client is turned away only while more than MaxConnections handlers    *)
(* are being served, however checks, admissions and returns interleave.    *)
NoFalseRejection ==
  [][\A t \in Conns :
       hpc[t] = "accepted" /\ hpc'[t] = "returning" =>
         Cardinality(Counted) > MaxConnections]_vars

(* A server is charged for the handlers on their way to it or bridged to   *)
(* it, and for ever for those whose stream or target address failed.       *)
Charged(p) ==
  {t \in Conns : /\ chosen[t] = p
                 /\ \/ hpc[t] \in {"select", "opened", "bridge"}
                    \/ outcome[t] \in {"nostream", "notarget"}}

(* ActiveConns of every server is the number of handlers it is charged     *)
(* for: ledger of discovery.go and control flow of socks5.go agree.        *)
LoadAccounting == \A p \in Peers : activeConns[p] = Cardinality(Charged(p))

(* What a client was told is what happened: success is only ever announced *)
(* on an open stream, failure only by a handler that then gives up.        *)
ReplyTellsOutcome ==
  \A t \in Conns :
    /\ reply[t] = "success" =>
         /\ call[t] \in {"selected", "released"}
         /\ outcome[t] \in {"none", "notarget", "bridged"}
    /\ reply[t] = "failure" => outcome[t] \in {"handshake", "noserver", "nostream"}

(* No client can hold a handler short of the bridge for ever, whatever the *)
(* other goroutines do or fail to do.                                      *)
HandlerEnds ==
  \A t \in Conns :
    HandlerFairness(t) => (hpc[t] = "accepted" ~> hpc[t] \in {"bridge", "closed"})

(* Stop ends the accept loop, wherever it is when the context is           *)
(* cancelled and whatever the handlers do.                                 *)
AcceptLoopExits == LoopFairness => (ctxDone ~> loop = "exited")

(* "Current number of active connections" (socks5.go:25).                  *)
CounterExact == activeConnections = Cardinality(Counted)

(* "ReleaseConnection tracks when a connection to a server is closed"      *)
(* (discovery.go:264): a closed connection holds no server.                *)
ClosedHoldsNothing == \A t \in Conns : hpc[t] = "closed" => call[t] # "selected"

(* "Set connection timeout only for the initial handshake phase"           *)
(* (socks5.go:112): it never costs a bridged client its success reply.     *)
RepliedBeforeBridge == \A t \in Conns : hpc[t] = "bridge" => reply[t] = "success"
=============================================================================
