--------------------------- MODULE ServerMeshProofs ---------------------------
(***************************************************************************)
(* Proofs about ServerMesh for every set of peers, every list limit, every *)
(* number of tolerated failures and every time on the blacklist.           *)
(***************************************************************************)
EXTENDS ServerMesh, TLAPS

(* The types, with no bound on the failure count: that one needs the       *)
(* blacklist.                                                              *)
Types ==
  /\ started \in BOOLEAN
  /\ ctxDone \in BOOLEAN
  /\ tickPending \in BOOLEAN
  /\ pc \in {"idle", "find", "collect", "dial", "verify", "close", "publish", "select", "exited"}
  /\ seen \subseteq Peers
  /\ candidate \in Others \cup {NoPeer}
  /\ justConnected \in BOOLEAN
  /\ newServers \in Seq(Others)
  /\ serverPeers \in Seq(Others)
  /\ connected \subseteq Others
  /\ relays \subseteq Others
  /\ failureCount \in [Others -> Nat]
  /\ sinceFailure \in [Others -> 0 .. BlacklistTime]
  /\ recentFailures \in [Others -> History]

InHand == pc \in {"dial", "verify", "close"}

(* The peer in hand is another one than this node and there is room for    *)
(* it.                                                                     *)
Round ==
  InHand => candidate \in Others /\ Len(newServers) < MaxServers

Lists == Len(newServers) <= MaxServers /\ Len(serverPeers) <= MaxServers

(* A peer is dialled below the limit only; the failures the count has      *)
(* forgotten are out of date; and none is more recent than LastFailure, so *)
(* that an expired blacklisting may forget them all.                       *)
Blacklist ==
  /\ pc = "dial" => failureCount[candidate] < MaxFailures
  /\ \A p \in Others :
       /\ failureCount[p] <= MaxFailures
       /\ \A i \in 1 .. MaxFailures + 1 :
            /\ i > failureCount[p] => recentFailures[p][i] = BlacklistTime
            /\ sinceFailure[p] <= recentFailures[p][i]

IInv == Types /\ Round /\ Lists /\ Blacklist
-----------------------------------------------------------------------------
LEMMA NoServers == <<>> \in Seq(Others)
OBVIOUS

LEMMA InitInvariant == Init => IInv
<1> SUFFICES ASSUME Init PROVE IInv
  OBVIOUS
<1> USE MeshAssumption DEF Init
<1>1. NoFailures \in History
  BY DEF NoFailures, History
<1>2. Types
  <2>1. sinceFailure \in [Others -> 0 .. BlacklistTime]
    OBVIOUS
  <2>2. failureCount \in [Others -> Nat] /\ recentFailures \in [Others -> History]
    BY <1>1
  <2> QED
    BY <2>1, <2>2, NoServers DEF Types
<1>3. Round
  BY DEF Round, InHand
<1>4. Lists
  BY MeshAssumption DEF Lists
<1>5. Blacklist
  BY DEF Blacklist, NoFailures
<1> QED
  BY <1>2, <1>3, <1>4, <1>5 DEF IInv

LEMMA HistoryTypes ==
  /\ NoFailures \in History
  /\ \A ages \in History : WithFailure(ages) \in History
  /\ \A age \in 0 .. BlacklistTime : Older(age) \in 0 .. BlacklistTime
BY MeshAssumption DEF NoFailures, WithFailure, History, Older

(* The counts after a forgiven, a failed and a successful dial.            *)
LEMMA CountTypes ==
  ASSUME NEW counts \in [Others -> Nat], NEW p
  PROVE  /\ [counts EXCEPT ![p] = 0] \in [Others -> Nat]
         /\ [counts EXCEPT ![p] = @ + 1] \in [Others -> Nat]
         /\ [counts EXCEPT ![p] = IF @ >= MaxFailures THEN 0 ELSE @] \in [Others -> Nat]
<1> DEFINE forgiven == IF counts[p] >= MaxFailures THEN 0 ELSE counts[p]
<1>1. p \in Others => forgiven \in Nat
  BY Zenon
<1>2. ASSUME NEW n, p \in Others => n \in Nat
      PROVE  [counts EXCEPT ![p] = n] \in [Others -> Nat]
  BY <1>2
<1>3. [counts EXCEPT ![p] = forgiven] \in [Others -> Nat]
  BY <1>1, <1>2
<1>4. /\ [counts EXCEPT ![p] = 0] \in [Others -> Nat]
      /\ [counts EXCEPT ![p] = @ + 1] \in [Others -> Nat]
  BY <1>2
<1> QED
  BY <1>3, <1>4

LEMMA TypesStep == Types /\ [Next]_vars => Types'
<1> SUFFICES ASSUME Types, [Next]_vars PROVE Types'
  OBVIOUS
<1> USE HistoryTypes, NoServers
    DEF Types, vars, controlVars, roundVars, networkVars, failureVars, Goto
<1>1. CASE UNCHANGED vars
  BY <1>1
<1>2. CASE Start \/ Stop \/ TickerFires \/ SelectTick \/ SelectDone
  BY <1>2 DEF Start, Stop, TickerFires, SelectTick, SelectDone
<1>3. CASE FindPeersFails \/ FindPeers \/ ChannelCloses
  BY <1>3 DEF FindPeersFails, FindPeers, ChannelCloses
<1>4. ASSUME NEW p \in Peers, ReceivePeer(p) PROVE Types'
  <2>1. justConnected' \in BOOLEAN
    BY <1>4 DEF ReceivePeer
  <2>2. failureCount' \in [Others -> Nat]
    <3>1. UNCHANGED failureCount \/ ForgiveExpired(p)
      BY <1>4 DEF ReceivePeer
    <3>2. CASE ForgiveExpired(p)
      BY <3>2, CountTypes, Zenon DEF ForgiveExpired
    <3> QED
      BY <3>1, <3>2
  <2>3. candidate' \in Others \cup {NoPeer} /\ seen' \subseteq Peers
    BY <1>4 DEF ReceivePeer, Others
  <2> QED
    BY <1>4, <2>1, <2>2, <2>3 DEF ReceivePeer
<1>5. CASE DialSucceeds
  <2>1. candidate \in Others => RecordSuccess(candidate)
    BY <1>5 DEF DialSucceeds
  <2>2. failureCount' \in [Others -> Nat] /\ recentFailures' \in [Others -> History]
    BY <1>5 DEF DialSucceeds, RecordSuccess
  <2> QED
    BY <1>5, <2>2 DEF DialSucceeds, RecordSuccess
<1>6. CASE DialFails
  <2>1. recentFailures' \in [Others -> History]
    BY <1>6 DEF DialFails, RecordFailure
  <2>2. failureCount' \in [Others -> Nat]
    BY <1>6, CountTypes DEF DialFails, RecordFailure
  <2>3. sinceFailure' \in [Others -> 0 .. BlacklistTime]
    <3>1. 0 \in 0 .. BlacklistTime
      BY MeshAssumption
    <3> QED
      BY <1>6, <3>1 DEF DialFails, RecordFailure
  <2> QED
    BY <1>6, <2>1, <2>2, <2>3 DEF DialFails
<1>7. CASE Verified
  BY <1>7 DEF Verified
<1>8. CASE NotVerified
  BY <1>8 DEF NotVerified
<1>9. CASE ClosePeer \/ Publish
  BY <1>9 DEF ClosePeer, Publish
<1>10. CASE Network
  BY <1>10 DEF Network, OtherConnects, Disconnects, Identify
<1>11. CASE TimePasses
  <2>1. ASSUME NEW p \in Others
        PROVE  [i \in 1 .. MaxFailures + 1 |-> Older(recentFailures[p][i])] \in History
    BY DEF History
  <2> QED
    BY <1>11, <2>1 DEF TimePasses
<1> QED
  BY <1>1, <1>2, <1>3, <1>4, <1>5, <1>6, <1>7, <1>8, <1>9, <1>10, <1>11 DEF Next, Refresh

(* What is known of the types alone holds in every state of the mesh.     *)
THEOREM TypesHold == Spec => []Types
<1>1. Init => Types
  BY InitInvariant DEF IInv
<1> QED
  BY <1>1, TypesStep, PTL DEF Spec
-----------------------------------------------------------------------------
(* No step but these touches the round.                                    *)
LEMMA RoundStep == Types /\ Round /\ [Next]_vars => Round'
<1> SUFFICES ASSUME Types, Round, [Next]_vars PROVE Round'
  OBVIOUS
<1> USE DEF Round, InHand, Goto, controlVars, roundVars, networkVars, failureVars
<1>1. CASE UNCHANGED vars
  BY <1>1 DEF vars
<1>2. CASE Start \/ Stop \/ TickerFires \/ SelectTick \/ SelectDone \/ Network \/ TimePasses
  BY <1>2 DEF Start, Stop, TickerFires, SelectTick, SelectDone, Network, OtherConnects,
              Disconnects, Identify, TimePasses
<1>3. CASE FindPeersFails \/ FindPeers \/ ChannelCloses \/ DialSucceeds \/ DialFails
           \/ NotVerified \/ ClosePeer
  BY <1>3 DEF FindPeersFails, FindPeers, ChannelCloses, DialSucceeds, DialFails,
              NotVerified, ClosePeer
<1>4. ASSUME NEW p \in Peers, ReceivePeer(p) PROVE Round'
  <2>1. newServers \in Seq(Others) /\ MaxServers \in Nat
    BY MeshAssumption DEF Types
  <2>2. CASE pc' \in {"dial", "verify"}
    <3>1. p # Self /\ ~Full(newServers) /\ candidate' = p /\ UNCHANGED newServers
      BY <1>4, <2>2 DEF ReceivePeer
    <3>2. Len(newServers) < MaxServers
      BY <2>1, <3>1 DEF Full
    <3> QED
      BY <2>2, <3>1, <3>2 DEF Others
  <2>3. CASE pc' \notin {"dial", "verify"}
    BY <1>4, <2>3 DEF ReceivePeer
  <2> QED
    BY <2>2, <2>3
<1>5. CASE Verified \/ Publish
  BY <1>5 DEF Verified, Publish
<1> QED
  BY <1>1, <1>2, <1>3, <1>4, <1>5 DEF Next, Refresh

(* A list only ever changes by a verified peer, when there is room, and by *)
(* the publication that starts it again.                                   *)
LEMMA ListsStep == Types /\ Round /\ Lists /\ [Next]_vars => Lists'
<1> SUFFICES ASSUME Types, Round, Lists, [Next]_vars PROVE Lists'
  OBVIOUS
<1>1. UNCHANGED <<newServers, serverPeers>> \/ Verified \/ Publish
  BY DEF Next, vars, Refresh, Start, Stop, TickerFires, SelectTick, SelectDone, Network,
     OtherConnects, Disconnects, Identify, TimePasses, FindPeersFails, FindPeers,
     ChannelCloses, ReceivePeer, DialSucceeds, DialFails, NotVerified, ClosePeer,
     controlVars, roundVars, networkVars, failureVars
<1>2. CASE UNCHANGED <<newServers, serverPeers>>
  BY <1>2 DEF Lists
<1>3. CASE Verified
  <2>1. /\ newServers \in Seq(Others) /\ candidate \in Others
        /\ Len(newServers) < MaxServers
    BY <1>3 DEF Verified, Goto, Round, InHand, Types
  <2>2. newServers' = Append(newServers, candidate) /\ serverPeers' = serverPeers
    BY <1>3 DEF Verified
  <2>3. Len(newServers') = Len(newServers) + 1
    BY <2>1, <2>2
  <2> QED
    BY <2>1, <2>2, <2>3, MeshAssumption DEF Lists
<1>4. CASE Publish
  BY <1>4, MeshAssumption DEF Publish, Lists
<1> QED
  BY <1>1, <1>2, <1>3, <1>4
-----------------------------------------------------------------------------
(* What a failure and the passing of time do to the ages of the failures   *)
(* of one peer.                                                            *)
LEMMA FailureShifts ==
  ASSUME NEW ages \in History, NEW count \in Nat,
         \A i \in 1 .. MaxFailures + 1 : i > count => ages[i] = BlacklistTime
  PROVE  \A i \in 1 .. MaxFailures + 1 :
           /\ i > count + 1 => WithFailure(ages)[i] = BlacklistTime
           /\ 0 <= WithFailure(ages)[i]
<1> SUFFICES ASSUME NEW i \in 1 .. MaxFailures + 1
             PROVE  /\ i > count + 1 => WithFailure(ages)[i] = BlacklistTime
                    /\ 0 <= WithFailure(ages)[i]
  OBVIOUS
<1> USE MeshAssumption DEF History
<1>1. WithFailure(ages)[i] = IF i = 1 THEN 0 ELSE ages[i - 1]
  BY DEF WithFailure
<1>2. CASE i = 1
  BY <1>1, <1>2
<1>3. CASE i # 1
  <2>1. i - 1 \in 1 .. MaxFailures + 1
    BY <1>3
  <2>2. ages[i - 1] \in 0 .. BlacklistTime
    BY <2>1
  <2> QED
    BY <1>1, <1>3, <2>1, <2>2
<1> QED
  BY <1>2, <1>3

LEMMA OlderKeeps ==
  ASSUME NEW age \in 0 .. BlacklistTime, NEW other \in 0 .. BlacklistTime
  PROVE  /\ age = BlacklistTime => Older(age) = BlacklistTime
         /\ age <= other => Older(age) <= Older(other)
BY MeshAssumption DEF Older

(* The conjunct of Blacklist about one peer.                               *)
Forgotten(p) ==
  /\ failureCount[p] <= MaxFailures
  /\ \A i \in 1 .. MaxFailures + 1 :
       /\ i > failureCount[p] => recentFailures[p][i] = BlacklistTime
       /\ sinceFailure[p] <= recentFailures[p][i]

(* The steps that look at or change the failures of the peer in hand.      *)
LEMMA ReceiveForgotten ==
  ASSUME Types, Blacklist, NEW q \in Peers, ReceivePeer(q), NEW p \in Others
  PROVE  Forgotten(p)'
<1> USE MeshAssumption
<1>1. UNCHANGED <<sinceFailure, recentFailures>>
  BY DEF ReceivePeer, networkVars
<1>2. CASE UNCHANGED failureCount
  BY <1>1, <1>2 DEF Blacklist, Forgotten
<1>3. CASE ~UNCHANGED failureCount
  <2>1. ~Blacklisted(q) /\ ForgiveExpired(q)
    BY <1>3 DEF ReceivePeer
  <2>2. CASE q # p \/ failureCount[p] < MaxFailures
    <3>1. failureCount'[p] = failureCount[p]
      BY <2>1, <2>2 DEF ForgiveExpired, Types
    <3> QED
      BY <1>1, <3>1 DEF Blacklist, Forgotten
  <2>3. CASE q = p /\ ~(failureCount[p] < MaxFailures)
    <3>1. failureCount'[p] = 0
      BY <2>1, <2>3 DEF ForgiveExpired, Types
    <3>2. sinceFailure[p] = BlacklistTime
      BY <2>1, <2>3 DEF Blacklisted, Types
    <3>3. \A i \in 1 .. MaxFailures + 1 : recentFailures[p][i] = BlacklistTime
      <4>1. recentFailures[p] \in History
        BY DEF Types
      <4> QED
        BY <3>2, <4>1 DEF Blacklist, History
    <3> QED
      BY <1>1, <3>1, <3>2, <3>3 DEF Forgotten
  <2> QED
    BY <2>2, <2>3
<1> QED
  BY <1>2, <1>3

LEMMA DialFailsForgotten ==
  ASSUME Types, Round, Blacklist, DialFails, NEW p \in Others
  PROVE  Forgotten(p)'
<1> USE MeshAssumption
<1>1. candidate \in Others /\ failureCount[candidate] < MaxFailures /\ RecordFailure(candidate)
  BY DEF DialFails, Goto, Round, InHand, Blacklist
<1>2. CASE p # candidate
  BY <1>1, <1>2 DEF RecordFailure, Types, Blacklist, Forgotten
<1>3. CASE p = candidate
  <2>1. /\ failureCount'[p] = failureCount[p] + 1
        /\ sinceFailure'[p] = 0
        /\ recentFailures'[p] = WithFailure(recentFailures[p])
    BY <1>1, <1>3 DEF RecordFailure, Types
  <2>2. failureCount[p] \in Nat /\ recentFailures[p] \in History
    BY DEF Types
  <2>3. \A i \in 1 .. MaxFailures + 1 : i > failureCount[p] => recentFailures[p][i] = BlacklistTime
    BY DEF Blacklist
  <2>4. \A i \in 1 .. MaxFailures + 1 :
          /\ i > failureCount[p] + 1 => WithFailure(recentFailures[p])[i] = BlacklistTime
          /\ 0 <= WithFailure(recentFailures[p])[i]
    BY <2>2, <2>3, FailureShifts
  <2> QED
    BY <1>1, <1>3, <2>1, <2>2, <2>4 DEF Forgotten
<1> QED
  BY <1>2, <1>3

LEMMA DialSucceedsForgotten ==
  ASSUME Types, Round, Blacklist, DialSucceeds, NEW p \in Others
  PROVE  Forgotten(p)'
<1> USE MeshAssumption
<1>1. candidate \in Others /\ RecordSuccess(candidate)
  BY DEF DialSucceeds, Goto, Round, InHand
<1>2. CASE p # candidate
  BY <1>1, <1>2 DEF RecordSuccess, Types, Blacklist, Forgotten
<1>3. CASE p = candidate
  <2>1. failureCount'[p] = 0 /\ sinceFailure'[p] = sinceFailure[p] /\ recentFailures'[p] = NoFailures
    BY <1>1, <1>3 DEF RecordSuccess, Types
  <2>2. sinceFailure[p] \in 0 .. BlacklistTime
    BY DEF Types
  <2> QED
    BY <2>1, <2>2 DEF Forgotten, NoFailures
<1> QED
  BY <1>2, <1>3

LEMMA TimeForgotten ==
  ASSUME Types, Blacklist, TimePasses, NEW p \in Others
  PROVE  Forgotten(p)'
<1> USE MeshAssumption
<1>1. failureCount'[p] = failureCount[p] /\ sinceFailure'[p] = Older(sinceFailure[p])
  BY DEF TimePasses
<1>2. \A i \in 1 .. MaxFailures + 1 : recentFailures'[p][i] = Older(recentFailures[p][i])
  BY DEF TimePasses
<1>3. sinceFailure[p] \in 0 .. BlacklistTime
      /\ \A i \in 1 .. MaxFailures + 1 : recentFailures[p][i] \in 0 .. BlacklistTime
  BY DEF Types, History
<1>4. ASSUME NEW i \in 1 .. MaxFailures + 1
      PROVE  /\ i > failureCount'[p] => recentFailures'[p][i] = BlacklistTime
             /\ sinceFailure'[p] <= recentFailures'[p][i]
  <2>1. /\ i > failureCount[p] => recentFailures[p][i] = BlacklistTime
        /\ sinceFailure[p] <= recentFailures[p][i]
    BY DEF Blacklist
  <2> QED
    BY <1>1, <1>2, <1>3, <2>1, OlderKeeps
<1> QED
  BY <1>1, <1>4 DEF Forgotten, Blacklist

LEMMA BlacklistStep == Types /\ Round /\ Blacklist /\ [Next]_vars => Blacklist'
<1> SUFFICES ASSUME Types, Round, Blacklist, [Next]_vars PROVE Blacklist'
  OBVIOUS
<1>1. ASSUME NEW p \in Others PROVE Forgotten(p)'
  <2>1. CASE UNCHANGED failureVars
    BY <2>1 DEF failureVars, Blacklist, Forgotten
  <2>2. CASE ~UNCHANGED failureVars
    <3>1. (\E q \in Peers : ReceivePeer(q)) \/ DialSucceeds \/ DialFails \/ TimePasses
      BY <2>2 DEF Next, vars, Refresh, Start, Stop, TickerFires, SelectTick, SelectDone, Network,
         OtherConnects, Disconnects, Identify, FindPeersFails, FindPeers,
         ChannelCloses, Verified, NotVerified, ClosePeer, Publish
    <3> QED
      BY <3>1, ReceiveForgotten, DialSucceedsForgotten, DialFailsForgotten, TimeForgotten
  <2> QED
    BY <2>1, <2>2
<1>2. ASSUME pc' = "dial" PROVE failureCount'[candidate'] < MaxFailures
  <2>1. CASE pc = "dial"
    <3>1. UNCHANGED <<candidate, failureCount>>
      BY <1>2, <2>1 DEF Next, vars, Refresh, Goto, Start, Stop, TickerFires, SelectTick, SelectDone,
         Network, OtherConnects, Disconnects, Identify, TimePasses, FindPeersFails, FindPeers,
         ChannelCloses, ReceivePeer, DialSucceeds, DialFails, Verified, NotVerified, ClosePeer,
         Publish, controlVars, roundVars, networkVars, failureVars
    <3> QED
      BY <2>1, <3>1 DEF Blacklist
  <2>2. CASE pc # "dial"
    <3>1. PICK p \in Peers : ReceivePeer(p)
      BY <1>2, <2>2 DEF Next, vars, Refresh, Goto, Start, Stop, TickerFires, SelectTick, SelectDone,
         Network, OtherConnects, Disconnects, Identify, TimePasses, FindPeersFails, FindPeers,
         ChannelCloses, DialSucceeds, DialFails, Verified, NotVerified, ClosePeer, Publish
    <3>2. p \in Others /\ candidate' = p /\ ForgiveExpired(p)
      BY <1>2, <2>2, <3>1 DEF ReceivePeer, Others
    <3>3. failureCount'[p] = IF failureCount[p] >= MaxFailures THEN 0 ELSE failureCount[p]
      BY <3>2 DEF ForgiveExpired, Types
    <3>4. failureCount[p] \in Nat
      BY <3>2 DEF Types
    <3> QED
      BY <3>2, <3>3, <3>4, MeshAssumption
  <2> QED
    BY <2>1, <2>2
<1> QED
  BY <1>1, <1>2 DEF Blacklist, Forgotten
-----------------------------------------------------------------------------
LEMMA Invariant == Spec => []IInv
<1>1. IInv /\ [Next]_vars => IInv'
  BY TypesStep, RoundStep, ListsStep, BlacklistStep DEF IInv
<1> QED
  BY <1>1, InitInvariant, PTL DEF Spec

(* Every variable keeps its type; no peer is ever charged with more        *)
(* failures than the limit, whatever is forgiven and retried.              *)
THEOREM MeshTypes == Spec => []TypeOK
<1>1. IInv => TypeOK
  <2> SUFFICES ASSUME IInv PROVE TypeOK
    OBVIOUS
  <2>1. failureCount \in [Others -> 0 .. MaxFailures]
    BY MeshAssumption DEF IInv, Types, Blacklist
  <2> QED
    BY <2>1 DEF IInv, Types, TypeOK
<1> QED
  BY <1>1, Invariant, PTL

(* The mesh list and the one being collected keep to MaxServers and never  *)
(* list this node (refreshServerList).                                     *)
THEOREM MeshListsSound == Spec => []MeshSound
<1>1. IInv => MeshSound
  <2> SUFFICES ASSUME IInv, NEW list \in {serverPeers, newServers}
               PROVE  Len(list) <= MaxServers /\ Self \notin Members(list)
    BY DEF MeshSound
  <2>1. list \in Seq(Others) /\ Len(list) <= MaxServers
    BY DEF IInv, Types, Lists
  <2>2. \A i \in DOMAIN list : list[i] \in Others
    BY <2>1
  <2> QED
    BY <2>1, <2>2 DEF Members, Others
<1> QED
  BY <1>1, Invariant, PTL

(* A peer is never failed on more than MaxFailures times within any        *)
(* BlacklistTime between two successes (isBlacklisted and the two record   *)
(* functions).                                                             *)
THEOREM DialRateHolds == Spec => []DialRate
<1>1. IInv => DialRate
  BY MeshAssumption DEF IInv, Types, Blacklist, DialRate
<1> QED
  BY <1>1, Invariant, PTL
=============================================================================
