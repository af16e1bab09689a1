----------------------------- MODULE RelayTunnel -----------------------------
(***************************************************************************)
(* One proxied connection from end to end: the SOCKS5 client, the SOCKS5   *)
(* node (bridgeTraffic), Hops relay nodes (forwardToNextPeer), the exit    *)
(* node (handleProxyTraffic) and the target.  The nodes are numbered       *)
(* 1 .. Exit in the order of the relay protocol name; node n joins link    *)
(* n - 1, towards the client, to link n, towards the target.  Link 0 is    *)
(* the client's TCP connection, link Exit the target's, the others are     *)
(* libp2p streams.  "up" is the direction from client to target.           *)
(*                                                                         *)
(* The model starts when OpenRelay has returned the stream to the first    *)
(* relay peer and the client has its success reply.                        *)
(***************************************************************************)
EXTENDS Integers, Sequences, FiniteSets

CONSTANTS
  Hops,       \* relay nodes between the SOCKS5 node and the exit node
  SendsUp,    \* bound: pieces of data the client may send
  SendsDown,  \* bound: pieces of data the target may send
  Window,     \* pieces a link takes in each direction before writes block
  MaxBreaks   \* bound: links that may break by themselves

ASSUME TunnelAssumption ==
  /\ Hops \in Nat
  /\ SendsUp \in Nat
  /\ SendsDown \in Nat
  /\ Window \in Nat \ {0}
  /\ MaxBreaks \in Nat

Socks == 1
Exit == Hops + 2
Nodes == Socks .. Exit
Links == 0 .. Exit
Dirs == {"up", "down"}
Opposite(d) == IF d = "up" THEN "down" ELSE "up"

(* The link a node reads in a direction, and the one it writes; the links  *)
(* of the client and of the target by the direction they send in.          *)
Source(n, d) == IF d = "up" THEN n - 1 ELSE n
Sink(n, d) == IF d = "up" THEN n ELSE n - 1
Edge(d) == IF d = "up" THEN 0 ELSE Exit
Sends(d) == IF d = "up" THEN SendsUp ELSE SendsDown

(* The frame of sendTargetAddr; data are numbered from 1 in each direction. *)
Address == 0

VARIABLES
  opened,    \* links that exist
  wire,      \* what is under way on a link in a direction
  finished,  \* <<link, direction>> whose writer has closed its side
  deaf,      \* <<link, direction>> whose reader has closed its side
  reset,     \* links that were reset or broke
  stage,     \* where the handler of each node is
  pump,      \* where its two copying goroutines are
  held,      \* what they have read and not yet written
  done,      \* the first result sent to its channel done
  sent,      \* number of pieces the client (up) and the target (down) sent
  got,       \* what the target (up) and the client (down) received
  sawEof     \* directions whose receiver has seen the end of the stream

linkVars == <<opened, wire, finished, deaf, reset>>
nodeVars == <<stage, pump, held, done>>
endVars == <<sent, got, sawEof>>
vars == <<linkVars, nodeVars, endVars>>

TypeOK ==
  /\ opened \subseteq Links
  /\ wire \in [Links -> [Dirs -> Seq(Nat)]]
  /\ \A l \in Links, d \in Dirs : Len(wire[l][d]) <= Window
  /\ finished \subseteq Links \X Dirs
  /\ deaf \subseteq Links \X Dirs
  /\ reset \subseteq opened
  /\ stage \in [Nodes -> {"start", "dial", "bridge", "returned"}]
  /\ pump \in [Nodes -> [Dirs -> {"idle", "copy", "ended"}]]
  /\ held \in [Nodes -> [Dirs -> Seq(Nat)]]
  /\ \A n \in Nodes, d \in Dirs : Len(held[n][d]) <= 1
  /\ done \in [Nodes -> {"nothing", "nil", "error"}]
  /\ sent \in [Dirs -> Nat]
  /\ got \in [Dirs -> Seq(Nat)]
  /\ sawEof \subseteq Dirs

Init ==
  /\ opened = {0, 1}
  /\ wire = [l \in Links |-> [d \in Dirs |-> <<>>]]
  /\ finished = {}
  /\ deaf = {}
  /\ reset = {}
  /\ stage = [n \in Nodes |-> "start"]
  /\ pump = [n \in Nodes |-> [d \in Dirs |-> "idle"]]
  /\ held = [n \in Nodes |-> [d \in Dirs |-> <<>>]]
  /\ done = [n \in Nodes |-> "nothing"]
  /\ sent = [d \in Dirs |-> 0]
  /\ got = [d \in Dirs |-> <<>>]
  /\ sawEof = {}
-----------------------------------------------------------------------------
(* Links.  Each direction delivers in order.  Closing a side ends what it  *)
(* writes after the data under way, and what it reads at once; a reset     *)
(* drops everything.                                                       *)

Readable(l, d) == l \notin reset /\ <<l, d>> \notin deaf /\ wire[l][d] # <<>>
AtEof(l, d) == l \notin reset /\ <<l, d>> \notin deaf /\ wire[l][d] = <<>> /\ <<l, d>> \in finished
ReadFails(l, d) == l \in reset \/ <<l, d>> \in deaf
Writable(l, d) == l \in opened \ reset /\ <<l, d>> \notin finished /\ Len(wire[l][d]) < Window
WriteFails(l, d) == l \in reset \/ <<l, d>> \in finished

(* Close by the end that writes direction d of a link; by a node of both   *)
(* its links.                                                              *)
CloseSide(l, d) ==
  /\ finished' = finished \cup {<<l, d>>}
  /\ deaf' = deaf \cup {<<l, Opposite(d)>>}

CloseBoth(n) ==
  /\ finished' = finished \cup {<<n - 1, "down">>, <<n, "up">>}
  /\ deaf' = deaf \cup {<<n - 1, "up">>, <<n, "down">>}

Drop(l) == [wire EXCEPT ![l] = [d \in Dirs |-> <<>>]]

ResetLink(l) == reset' = reset \cup {l} /\ wire' = Drop(l)

(* Data arrive at a side that has closed: they are dropped (a libp2p       *)
(* stream) or answered with a reset (TCP).                                 *)
LateData(l, d) ==
  /\ <<l, d>> \in deaf
  /\ wire[l][d] # <<>>
  /\ \/ wire' = [wire EXCEPT ![l][d] = <<>>] /\ UNCHANGED reset
     \/ ResetLink(l)
  /\ UNCHANGED <<opened, finished, deaf, nodeVars, endVars>>

Breaks(l) ==
  /\ l \in opened \ reset
  /\ Cardinality(reset) < MaxBreaks
  /\ ResetLink(l)
  /\ UNCHANGED <<opened, finished, deaf, nodeVars, endVars>>
-----------------------------------------------------------------------------
(* From the stream to the bridge.                                          *)

Enters(n, from, to) == stage[n] = from /\ stage' = [stage EXCEPT ![n] = to]

StartPumps(n) == pump' = [pump EXCEPT ![n] = [d \in Dirs |-> "copy"]]

(* sendTargetAddr, one frame here, then bridgeTraffic.                     *)
SendTarget ==
  /\ Enters(Socks, "start", "bridge")
  /\ Writable(1, "up")
  /\ wire' = [wire EXCEPT ![1]["up"] = Append(@, Address)]
  /\ StartPumps(Socks)
  /\ UNCHANGED <<opened, finished, deaf, reset, held, done, endVars>>

(* handleConnection returns; its deferred calls close both links.          *)
SendTargetFails ==
  /\ Enters(Socks, "start", "returned")
  /\ WriteFails(1, "up")
  /\ CloseBoth(Socks)
  /\ UNCHANGED <<opened, wire, reset, pump, held, done, endVars>>

(* Mutant of HandleFails: the outgoing stream is reset instead.            *)
HandleFailsOutgoing(n) ==
  /\ stage' = [stage EXCEPT ![n] = "returned"]
  /\ ResetLink(n)
  /\ CloseSide(n - 1, "down")
  /\ UNCHANGED <<opened, pump, held, done, endVars>>

(* Handle returns an error: the stream it came with is reset.              *)
HandleFails(n) ==
  /\ stage' = [stage EXCEPT ![n] = "returned"]
  /\ ResetLink(n - 1)
  /\ CloseSide(n - 1, "down")
  /\ UNCHANGED <<opened, pump, held, done, endVars>>

(* Mutant of ReadTargetAddr: the frame is looked at and left in place.     *)
PeekTargetAddr ==
  /\ Enters(Exit, "start", "dial")
  /\ Readable(Exit - 1, "up")
  /\ UNCHANGED <<linkVars, pump, held, done, endVars>>

ReadTargetAddr ==
  /\ Enters(Exit, "start", "dial")
  /\ Readable(Exit - 1, "up")
  /\ wire' = [wire EXCEPT ![Exit - 1]["up"] = Tail(@)]
  /\ UNCHANGED <<opened, finished, deaf, reset, pump, held, done, endVars>>

ReadTargetAddrFails ==
  /\ stage[Exit] = "start"
  /\ ReadFails(Exit - 1, "up") \/ AtEof(Exit - 1, "up")
  /\ HandleFails(Exit)

(* Handle, called for the stream on link n - 1: NewStream to the next peer *)
(* of the protocol name, or the exit node's dial of the target.            *)
Dialling(n) ==
  \/ n \in Nodes \ {Socks, Exit} /\ n - 1 \in opened /\ stage[n] = "start"
  \/ n = Exit /\ stage[n] = "dial"

DialNext(n) ==
  /\ Dialling(n)
  /\ stage' = [stage EXCEPT ![n] = "bridge"]
  /\ opened' = opened \cup {n}
  /\ StartPumps(n)
  /\ UNCHANGED <<wire, finished, deaf, reset, held, done, endVars>>

DialNextFails(n) ==
  /\ Dialling(n)
  /\ HandleFails(n)
-----------------------------------------------------------------------------
(* The bridge: io.Copy in both directions until the first one ends.        *)

CopyReads(n, d) ==
  LET l == Source(n, d) IN
  /\ pump[n][d] = "copy"
  /\ held[n][d] = <<>>
  /\ Readable(l, d)
  /\ held' = [held EXCEPT ![n][d] = <<Head(wire[l][d])>>]
  /\ wire' = [wire EXCEPT ![l][d] = Tail(@)]
  /\ UNCHANGED <<opened, finished, deaf, reset, stage, pump, done, endVars>>

CopyWrites(n, d) ==
  LET l == Sink(n, d) IN
  /\ pump[n][d] = "copy"
  /\ held[n][d] # <<>>
  /\ Writable(l, d)
  /\ wire' = [wire EXCEPT ![l][d] = @ \o held[n][d]]
  /\ held' = [held EXCEPT ![n][d] = <<>>]
  /\ UNCHANGED <<opened, finished, deaf, reset, stage, pump, done, endVars>>

(* Mutant of CopyReturns: data read together with the end are dropped.     *)
CopyDropsLast(n, d, result) ==
  /\ pump[n][d] = "copy"
  /\ \/ AtEof(Source(n, d), d) /\ result = "nil"
     \/ held[n][d] = <<>> /\ ReadFails(Source(n, d), d) /\ result = "error"
     \/ held[n][d] # <<>> /\ WriteFails(Sink(n, d), d) /\ result = "error"
  /\ pump' = [pump EXCEPT ![n][d] = "ended"]
  /\ held' = [held EXCEPT ![n][d] = <<>>]
  /\ done' = [done EXCEPT ![n] = IF @ = "nothing" THEN result ELSE @]
  /\ finished' = finished \cup {<<Sink(n, d), d>>}
  /\ UNCHANGED <<opened, wire, deaf, reset, stage, endVars>>

(* io.Copy returns nil at the end of its source, else the error it met;    *)
(* the result goes to done, which has room for both, and the deferred      *)
(* CloseWrite follows.  What can come between the two is a Close, which    *)
(* includes it.                                                            *)
CopyReturns(n, d, result) ==
  /\ pump[n][d] = "copy"
  /\ \/ held[n][d] = <<>> /\ AtEof(Source(n, d), d) /\ result = "nil"
     \/ held[n][d] = <<>> /\ ReadFails(Source(n, d), d) /\ result = "error"
     \/ held[n][d] # <<>> /\ WriteFails(Sink(n, d), d) /\ result = "error"
  /\ pump' = [pump EXCEPT ![n][d] = "ended"]
  /\ held' = [held EXCEPT ![n][d] = <<>>]
  /\ done' = [done EXCEPT ![n] = IF @ = "nothing" THEN result ELSE @]
  /\ finished' = finished \cup {<<Sink(n, d), d>>}
  /\ UNCHANGED <<opened, wire, deaf, reset, stage, endVars>>

(* A relay handler that returns the error of its bridge resets the stream  *)
(* it came with.                                                           *)
Aborts(n) == n # Socks /\ done[n] = "error"

CloseLinks(n) ==
  /\ CloseBoth(n)
  /\ IF Aborts(n) THEN ResetLink(n - 1) ELSE UNCHANGED <<reset, wire>>
  /\ UNCHANGED <<opened, pump, held, done, endVars>>

(* Mutants of BridgeEnds: the bridge waits for both directions; it does    *)
(* not wait at all.                                                        *)
BridgeWaitsForBoth(n) ==
  /\ Enters(n, "bridge", "returned")
  /\ \A d \in Dirs : pump[n][d] = "ended"
  /\ CloseLinks(n)
BridgeWaitsForNone(n) ==
  /\ Enters(n, "bridge", "returned")
  /\ CloseLinks(n)

(* <-done, the first direction to end: both links are closed and the       *)
(* handler returns.                                                        *)
BridgeEnds(n) ==
  /\ Enters(n, "bridge", "returned")
  /\ done[n] # "nothing"
  /\ CloseLinks(n)

Bridge(n) ==
  \/ \E d \in Dirs :
       \/ CopyReads(n, d)
       \/ CopyWrites(n, d)
       \/ \E result \in {"nil", "error"} : CopyReturns(n, d, result)
  \/ BridgeEnds(n)
-----------------------------------------------------------------------------
(* The client and the target.                                              *)

Send(d) ==
  /\ sent[d] < Sends(d)
  /\ Writable(Edge(d), d)
  /\ sent' = [sent EXCEPT ![d] = @ + 1]
  /\ wire' = [wire EXCEPT ![Edge(d)][d] = Append(@, sent[d] + 1)]
  /\ UNCHANGED <<opened, finished, deaf, reset, nodeVars, got, sawEof>>

(* An end stops sending and goes on receiving, or closes altogether.       *)
HalfCloses(d) ==
  /\ Edge(d) \in opened \ reset
  /\ <<Edge(d), d>> \notin finished
  /\ finished' = finished \cup {<<Edge(d), d>>}
  /\ UNCHANGED <<opened, wire, deaf, reset, nodeVars, endVars>>

Closes(d) ==
  /\ Edge(d) \in opened \ reset
  /\ <<Edge(d), Opposite(d)>> \notin deaf
  /\ CloseSide(Edge(d), d)
  /\ UNCHANGED <<opened, wire, reset, nodeVars, endVars>>

Receive(d) ==
  LET l == Edge(Opposite(d)) IN
  \/ /\ Readable(l, d)
     /\ got' = [got EXCEPT ![d] = Append(@, Head(wire[l][d]))]
     /\ wire' = [wire EXCEPT ![l][d] = Tail(@)]
     /\ UNCHANGED <<opened, finished, deaf, reset, nodeVars, sent, sawEof>>
  \/ /\ AtEof(l, d)
     /\ d \notin sawEof
     /\ sawEof' = sawEof \cup {d}
     /\ UNCHANGED <<linkVars, nodeVars, sent, got>>

NodeStep(n) ==
  \/ n = Socks /\ (SendTarget \/ SendTargetFails)
  \/ n = Exit /\ (ReadTargetAddr \/ ReadTargetAddrFails)
  \/ DialNext(n)
  \/ DialNextFails(n)
  \/ Bridge(n)

Next ==
  \/ \E n \in Nodes : NodeStep(n)
  \/ \E l \in Links : Breaks(l) \/ \E d \in Dirs : LateData(l, d)
  \/ \E d \in Dirs : Send(d) \/ HalfCloses(d) \/ Closes(d) \/ Receive(d)

Spec == Init /\ [][Next]_vars

(* Goroutines are scheduled; NewStream and DialTimeout return; the ends    *)
(* read what reaches them until they close, nothing in the program times   *)
(* out on an end that does not.  Behaviours are finite, by the bounds, so  *)
(* that fairness of some node and of some link or end is enough.           *)
FairSpec ==
  /\ Spec
  /\ WF_vars(\E n \in Nodes : NodeStep(n))
  /\ WF_vars(\E d \in Dirs : Receive(d) \/ \E l \in Links : LateData(l, d))
-----------------------------------------------------------------------------
(* Each end receives what the other sent, in order, from the first piece   *)
(* on and nothing else: the address frame, written and read by the first   *)
(* and the last node only, never reaches the target.                       *)
PayloadInOrder ==
  \A d \in Dirs :
    /\ Len(got[d]) <= sent[d]
    /\ \A i \in DOMAIN got[d] : got[d][i] = i

(* An end that has not stopped sending and sees the other direction end    *)
(* has received all that was ever sent to it, as long as no link on the    *)
(* way was reset: first to end, a direction is delivered in full although  *)
(* each bridge closes both its links as soon as one direction is done.     *)
EofMeansComplete ==
  \A d \in Dirs :
    (/\ d \in sawEof
     /\ reset = {}
     /\ <<Edge(Opposite(d)), Opposite(d)>> \notin finished)
    => Len(got[d]) = sent[d]

(* The tunnel as its two ends see it: module Pipe.                         *)
stoppedSeen == {d \in Dirs : <<Edge(d), d>> \in finished}
goneSeen == {d \in Dirs : <<Edge(d), Opposite(d)>> \in deaf}
brokenSeen == reset # {}

EndToEnd == INSTANCE Pipe WITH stopped <- stoppedSeen, gone <- goneSeen, broken <- brokenSeen

(* However many bridges and relay nodes lie between them, client and       *)
(* target see one ordered stream in each direction: the next piece or,     *)
(* after the last, the end, and nothing behind it.                         *)
ImplementsPipe == EndToEnd!PipeSpec

(* Nothing of a node's handler is left: it was never called or is over.    *)
Gone(n) == /\ stage[n] = "returned" \/ n - 1 \notin opened
           /\ \A d \in Dirs : pump[n][d] \in {"idle", "ended"}

(* When one end stops sending or any link is reset, the whole tunnel goes: *)
(* every handler and every copying goroutine of every node ends.           *)
TunnelTornDown ==
  (reset # {} \/ \E d \in Dirs : <<Edge(d), d>> \in finished) ~> \A n \in Nodes : Gone(n)
=============================================================================
