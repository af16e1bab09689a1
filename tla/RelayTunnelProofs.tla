-------------------------- MODULE RelayTunnelProofs --------------------------
(***************************************************************************)
(* Proofs about RelayTunnel for every number of relay hops, every amount   *)
(* of data, every window and any number of links that break.               *)
(***************************************************************************)
EXTENDS RelayTunnel, SequenceTheorems, TLAPS

(* Nothing is on a link, and no side of it is closed, before it exists; a  *)
(* node that bridges has both its links.                                   *)
Opening ==
  /\ 0 \in opened /\ 1 \in opened
  /\ \A l \in Links, d \in Dirs :
       <<l, d>> \in finished \/ <<l, d>> \in deaf \/ wire[l][d] # <<>> => l \in opened
  /\ \A n \in Nodes : stage[n] = "bridge" => n - 1 \in opened /\ n \in opened
  /\ \A n \in Nodes, d \in Dirs : pump[n][d] = "copy" => n - 1 \in opened /\ n \in opened
  /\ stage[Exit] = "dial" => Exit - 1 \in opened

TypeInv == TypeOK /\ Opening
-----------------------------------------------------------------------------
(* Nodes, links and directions.                                            *)

LEMMA Numbers ==
  /\ Socks \in Nodes /\ Exit \in Nodes /\ Socks # Exit
  /\ 0 \in Links /\ 1 \in Links /\ Exit \in Links /\ Exit - 1 \in Links
  /\ Exit # 0 /\ Exit # 1 /\ Exit \in Nat
  /\ \A n \in Nodes : n \in Links /\ n - 1 \in Links /\ n # n - 1 /\ n \in Nat /\ n - 1 \in Nat
  /\ \A l \in Links : l \in Nat
  /\ \A n \in Nodes, d \in Dirs : Source(n, d) \in Links /\ Sink(n, d) \in Links
  /\ \A d \in Dirs : Edge(d) \in Links /\ Opposite(d) \in Dirs /\ Opposite(d) # d
  /\ "up" \in Dirs /\ "down" \in Dirs
  /\ Opposite("up") = "down" /\ Opposite("down") = "up"
BY TunnelAssumption DEF Nodes, Links, Socks, Exit, Source, Sink, Edge, Opposite, Dirs

(* What holds of an array of sequences after one of them was replaced.     *)
LEMMA Replaced ==
  ASSUME NEW S, NEW T, NEW V, NEW w \in [S -> [T -> V]],
         NEW s \in S, NEW t \in T, NEW v \in V, NEW u, u = [w EXCEPT ![s][t] = v]
  PROVE  /\ u \in [S -> [T -> V]]
         /\ u[s][t] = v
         /\ \A r \in S, q \in T : r # s \/ q # t => u[r][q] = w[r][q]
OBVIOUS

LEMMA Ends ==
  ASSUME NEW w \in Seq(Nat)
  PROVE  /\ Len(w) \in Nat
         /\ DOMAIN w = 1 .. Len(w)
         /\ \A i \in 1 .. Len(w) : w[i] \in Nat
         /\ w # <<>> => /\ Tail(w) \in Seq(Nat)
                        /\ Len(Tail(w)) = Len(w) - 1
                        /\ Head(w) \in Nat
                        /\ Head(w) = w[1]
                        /\ Len(w) > 0
                        /\ \A i \in 1 .. Len(w) - 1 : Tail(w)[i] = w[i + 1]
<1>1. Len(w) \in Nat /\ DOMAIN w = 1 .. Len(w) /\ \A i \in 1 .. Len(w) : w[i] \in Nat
  BY LenProperties
<1>2. ASSUME w # <<>>
      PROVE  /\ Tail(w) \in Seq(Nat) /\ Len(Tail(w)) = Len(w) - 1 /\ Head(w) \in Nat
             /\ \A i \in 1 .. Len(Tail(w)) : Tail(w)[i] = w[i + 1]
  BY <1>2, HeadTailProperties
<1>3. ASSUME w # <<>> PROVE Len(w) > 0
  BY <1>3, EmptySeq
<1>4. w # <<>> => Head(w) = w[1]
  OBVIOUS
<1> QED
  BY <1>1, <1>2, <1>3, <1>4

LEMMA Longer ==
  ASSUME NEW w \in Seq(Nat), NEW x \in Nat
  PROVE  /\ Append(w, x) \in Seq(Nat)
         /\ Len(Append(w, x)) = Len(w) + 1
         /\ \A i \in 1 .. Len(w) : Append(w, x)[i] = w[i]
         /\ Append(w, x)[Len(w) + 1] = x
BY AppendProperties

LEMMA Joined ==
  ASSUME NEW w \in Seq(Nat), NEW h \in Seq(Nat), Len(h) <= 1, h # <<>>
  PROVE  w \o h = Append(w, h[1]) /\ h[1] \in Nat /\ Len(h) = 1
<1>0. Len(h) \in Nat /\ Len(h) > 0 /\ Len(w) \in Nat
  BY Ends
<1>1. Len(h) = 1 /\ h[1] \in Nat
  <2>1. Len(h) = 1
    <3>1. \A x \in Nat : x > 0 /\ x <= 1 => x = 1
      OBVIOUS
    <3> QED
      BY <1>0, <3>1
  <2>2. \A i \in 1 .. Len(h) : h[i] \in Nat
    BY Ends
  <2>3. 1 \in 1 .. Len(h)
    BY <1>0
  <2> QED
    BY <2>1, <2>2, <2>3
<1>2. /\ w \o h \in Seq(Nat) /\ Len(w \o h) = Len(w) + 1
      /\ \A i \in 1 .. Len(w) + 1 : (w \o h)[i] = IF i <= Len(w) THEN w[i] ELSE h[i - Len(w)]
  <2>1. /\ w \o h \in Seq(Nat) /\ Len(w \o h) = Len(w) + Len(h)
        /\ \A i \in 1 .. Len(w) + Len(h) : (w \o h)[i] = IF i <= Len(w) THEN w[i] ELSE h[i - Len(w)]
    BY ConcatProperties
  <2> QED
    BY <1>0, <1>1, <2>1
<1>3. /\ Append(w, h[1]) \in Seq(Nat) /\ Len(Append(w, h[1])) = Len(w) + 1
      /\ \A i \in 1 .. Len(w) : Append(w, h[1])[i] = w[i]
      /\ Append(w, h[1])[Len(w) + 1] = h[1]
  BY <1>1, Longer
<1>4. \A i \in 1 .. Len(w) + 1 : (w \o h)[i] = Append(w, h[1])[i]
  BY <1>1, <1>2, <1>3, Ends
<1>5. w \o h = Append(w, h[1])
  BY <1>2, <1>3, <1>4, SeqEqual
<1> QED
  BY <1>1, <1>5

LEMMA Nothing == <<>> \in Seq(Nat) /\ Len(<<>>) = 0
OBVIOUS
-----------------------------------------------------------------------------
(* What a step does to a wire.                                             *)

WireTyped(w) ==
  /\ w \in [Links -> [Dirs -> Seq(Nat)]]
  /\ \A l \in Links, d \in Dirs : Len(w[l][d]) <= Window

SameBut(l, d) ==
  \A k \in Links, e \in Dirs : k # l \/ e # d => wire'[k][e] = wire[k][e]

LEMMA Taking ==
  ASSUME WireTyped(wire), NEW l \in Links, NEW d \in Dirs, wire[l][d] # <<>>,
         wire' = [wire EXCEPT ![l][d] = Tail(@)]
  PROVE  WireTyped(wire') /\ SameBut(l, d) /\ wire'[l][d] = Tail(wire[l][d])
<1> DEFINE v == Tail(wire[l][d])
<1>1. wire \in [Links -> [Dirs -> Seq(Nat)]] /\ wire[l][d] \in Seq(Nat) /\ Len(wire[l][d]) <= Window
  BY DEF WireTyped
<1>2. v \in Seq(Nat) /\ Len(v) <= Window
  BY <1>1, Ends, TunnelAssumption
<1>3. wire' = [wire EXCEPT ![l][d] = v]
  OBVIOUS
<1> HIDE DEF v
<1>4. wire' \in [Links -> [Dirs -> Seq(Nat)]] /\ wire'[l][d] = v /\ SameBut(l, d)
  BY <1>1, <1>2, <1>3, Replaced DEF SameBut
<1>5. \A k \in Links, e \in Dirs : Len(wire'[k][e]) <= Window
  BY <1>2, <1>4 DEF SameBut, WireTyped
<1> QED
  BY <1>4, <1>5 DEF WireTyped, v

LEMMA Putting ==
  ASSUME WireTyped(wire), NEW l \in Links, NEW d \in Dirs, NEW x \in Nat,
         Len(wire[l][d]) < Window, wire' = [wire EXCEPT ![l][d] = Append(@, x)]
  PROVE  WireTyped(wire') /\ SameBut(l, d) /\ wire'[l][d] = Append(wire[l][d], x)
<1> DEFINE v == Append(wire[l][d], x)
<1>1. wire \in [Links -> [Dirs -> Seq(Nat)]] /\ wire[l][d] \in Seq(Nat) /\ Len(wire[l][d]) < Window
  BY DEF WireTyped
<1>2. v \in Seq(Nat) /\ Len(v) <= Window
  BY <1>1, Ends, Longer, TunnelAssumption
<1>3. wire' = [wire EXCEPT ![l][d] = v]
  OBVIOUS
<1> HIDE DEF v
<1>4. wire' \in [Links -> [Dirs -> Seq(Nat)]] /\ wire'[l][d] = v /\ SameBut(l, d)
  BY <1>1, <1>2, <1>3, Replaced DEF SameBut
<1>5. \A k \in Links, e \in Dirs : Len(wire'[k][e]) <= Window
  BY <1>2, <1>4 DEF SameBut, WireTyped
<1> QED
  BY <1>4, <1>5 DEF WireTyped, v

LEMMA Losing ==
  ASSUME WireTyped(wire), NEW l \in Links, NEW d \in Dirs,
         wire' = [wire EXCEPT ![l][d] = <<>>]
  PROVE  WireTyped(wire') /\ SameBut(l, d) /\ wire'[l][d] = <<>>
<1>1. wire \in [Links -> [Dirs -> Seq(Nat)]]
  BY DEF WireTyped
<1>2. wire' \in [Links -> [Dirs -> Seq(Nat)]] /\ wire'[l][d] = <<>> /\ SameBut(l, d)
  BY <1>1, Nothing, Replaced DEF SameBut
<1>3. \A k \in Links, e \in Dirs : Len(wire'[k][e]) <= Window
  BY <1>2, Nothing, TunnelAssumption DEF SameBut, WireTyped
<1> QED
  BY <1>2, <1>3 DEF WireTyped

LEMMA Resetting ==
  ASSUME WireTyped(wire), NEW l \in Links, wire' = Drop(l)
  PROVE  /\ WireTyped(wire')
         /\ \A k \in Links, e \in Dirs : wire'[k][e] = IF k = l THEN <<>> ELSE wire[k][e]
<1>1. \A k \in Links, e \in Dirs : wire'[k][e] = IF k = l THEN <<>> ELSE wire[k][e]
  BY DEF Drop, WireTyped
<1>2. wire' \in [Links -> [Dirs -> Seq(Nat)]]
  BY Nothing DEF WireTyped, Drop
<1>3. \A k \in Links, e \in Dirs : Len(wire'[k][e]) <= Window
  BY <1>1, Nothing, TunnelAssumption DEF WireTyped
<1> QED
  BY <1>1, <1>2, <1>3 DEF WireTyped
-----------------------------------------------------------------------------
(* Types, and what exists when it is used.                                 *)

LEMMA TypeFacts ==
  ASSUME TypeInv
  PROVE  /\ WireTyped(wire)
         /\ \A l \in Links, d \in Dirs : wire[l][d] \in Seq(Nat) /\ Len(wire[l][d]) \in Nat
         /\ \A n \in Nodes, d \in Dirs :
              /\ held[n][d] \in Seq(Nat) /\ Len(held[n][d]) \in Nat /\ Len(held[n][d]) <= 1
              /\ pump[n][d] \in {"idle", "copy", "ended"}
         /\ \A d \in Dirs : sent[d] \in Nat /\ got[d] \in Seq(Nat) /\ Len(got[d]) \in Nat
         /\ reset \subseteq opened /\ opened \subseteq Links
         /\ finished \subseteq Links \X Dirs /\ deaf \subseteq Links \X Dirs
         /\ \A l \in Links, d \in Dirs :
              <<l, d>> \in finished \/ <<l, d>> \in deaf \/ wire[l][d] # <<>> => l \in opened
<1> USE DEF TypeInv, TypeOK
<1>1. WireTyped(wire)
  BY DEF WireTyped
<1>2. \A l \in Links, d \in Dirs : wire[l][d] \in Seq(Nat)
  OBVIOUS
<1>3. \A n \in Nodes, d \in Dirs : /\ held[n][d] \in Seq(Nat) /\ Len(held[n][d]) <= 1
                                   /\ pump[n][d] \in {"idle", "copy", "ended"}
  OBVIOUS
<1>4. \A d \in Dirs : sent[d] \in Nat /\ got[d] \in Seq(Nat)
  OBVIOUS
<1>5. /\ reset \subseteq opened /\ opened \subseteq Links
      /\ finished \subseteq Links \X Dirs /\ deaf \subseteq Links \X Dirs
  OBVIOUS
<1>6. \A l \in Links, d \in Dirs :
        <<l, d>> \in finished \/ <<l, d>> \in deaf \/ wire[l][d] # <<>> => l \in opened
  BY DEF Opening
<1> HIDE DEF TypeInv, TypeOK
<1> QED
  BY <1>1, <1>2, <1>3, <1>4, <1>5, <1>6, Ends

LEMMA InitTypes == Init => TypeInv
<1> SUFFICES ASSUME Init PROVE TypeInv
  OBVIOUS
<1>1. wire \in [Links -> [Dirs -> Seq(Nat)]] /\ \A l \in Links, d \in Dirs : wire[l][d] = <<>>
  BY Nothing DEF Init
<1>2. held \in [Nodes -> [Dirs -> Seq(Nat)]] /\ \A n \in Nodes, d \in Dirs : held[n][d] = <<>>
  BY Nothing DEF Init
<1>3. got \in [Dirs -> Seq(Nat)]
  BY Nothing DEF Init
<1>4. TypeOK
  BY <1>1, <1>2, <1>3, Numbers, Nothing, TunnelAssumption DEF Init, TypeOK
<1>5. Opening
  BY <1>1, Numbers DEF Init, Opening
<1> QED
  BY <1>4, <1>5 DEF TypeInv

(* A step that leaves all but the wires, the broken links and the sides    *)
(* that are closed as they are.                                            *)
LEMMA LinkTypes ==
  ASSUME TypeInv, WireTyped(wire'),
         UNCHANGED <<opened, stage, pump, held, done, sent, got, sawEof>>,
         reset' \subseteq opened,
         finished' \subseteq Links \X Dirs, deaf' \subseteq Links \X Dirs,
         \A l \in Links, d \in Dirs :
           <<l, d>> \in finished' \/ <<l, d>> \in deaf' \/ wire'[l][d] # <<>> => l \in opened
  PROVE  TypeInv'
<1>1. TypeOK'
  BY DEF TypeInv, TypeOK, WireTyped
<1>2. Opening'
  BY DEF TypeInv, Opening
<1> QED
  BY <1>1, <1>2 DEF TypeInv

LEMMA LateDataTypes ==
  ASSUME TypeInv, NEW l \in Links, NEW d \in Dirs, LateData(l, d)
  PROVE  TypeInv'
<1>0. WireTyped(wire) /\ l \in opened
  BY TypeFacts DEF TypeInv, Opening, LateData
<1>1. CASE wire' = [wire EXCEPT ![l][d] = <<>>] /\ UNCHANGED reset
  <2>1. WireTyped(wire') /\ SameBut(l, d) /\ wire'[l][d] = <<>>
    BY <1>0, <1>1, Losing
  <2>2. UNCHANGED <<opened, finished, deaf, reset, stage, pump, held, done, sent, got, sawEof>>
    BY <1>1 DEF LateData, nodeVars, endVars
  <2>3. \A k \in Links, e \in Dirs : wire'[k][e] # <<>> => wire[k][e] # <<>>
    BY <2>1 DEF SameBut
  <2> QED
    BY <2>1, <2>2, <2>3, TypeFacts, LinkTypes
<1>2. CASE ResetLink(l)
  <2>1. WireTyped(wire') /\ \A k \in Links, e \in Dirs : wire'[k][e] = IF k = l THEN <<>> ELSE wire[k][e]
    BY <1>0, <1>2, Resetting DEF ResetLink
  <2>2. UNCHANGED <<opened, finished, deaf, stage, pump, held, done, sent, got, sawEof>>
        /\ reset' = reset \cup {l}
    BY <1>2 DEF LateData, nodeVars, endVars, ResetLink
  <2>3. \A k \in Links, e \in Dirs : wire'[k][e] # <<>> => wire[k][e] # <<>>
    BY <2>1
  <2> QED
    BY <1>0, <2>1, <2>2, <2>3, TypeFacts, LinkTypes
<1> QED
  BY <1>1, <1>2 DEF LateData

LEMMA BreaksTypes ==
  ASSUME TypeInv, NEW l \in Links, Breaks(l)
  PROVE  TypeInv'
<1>1. WireTyped(wire) /\ l \in opened
  BY TypeFacts DEF Breaks
<1>2. WireTyped(wire') /\ \A k \in Links, e \in Dirs : wire'[k][e] = IF k = l THEN <<>> ELSE wire[k][e]
  BY <1>1, Resetting DEF Breaks, ResetLink
<1>3. UNCHANGED <<opened, finished, deaf, stage, pump, held, done, sent, got, sawEof>>
      /\ reset' = reset \cup {l}
  BY DEF Breaks, nodeVars, endVars, ResetLink
<1>4. \A k \in Links, e \in Dirs : wire'[k][e] # <<>> => wire[k][e] # <<>>
  BY <1>2
<1> QED
  BY <1>1, <1>2, <1>3, <1>4, TypeFacts, LinkTypes

(* A step of node n that leaves what it has read and its ends as they are. *)
LEMMA NodeTypes ==
  ASSUME TypeInv, WireTyped(wire'), NEW n \in Nodes,
         NEW s \in {"dial", "bridge", "returned"}, stage' = [stage EXCEPT ![n] = s],
         UNCHANGED <<held, done, sent, got, sawEof>>,
         \/ UNCHANGED pump
         \/ s = "bridge" /\ pump' = [pump EXCEPT ![n] = [d \in Dirs |-> "copy"]],
         s = "bridge" => n - 1 \in opened' /\ n \in opened',
         s = "dial" => n - 1 \in opened',
         opened \subseteq opened', opened' \subseteq Links, reset' \subseteq opened',
         finished' \subseteq Links \X Dirs, deaf' \subseteq Links \X Dirs,
         \A l \in Links, d \in Dirs :
           <<l, d>> \in finished' \/ <<l, d>> \in deaf' \/ wire'[l][d] # <<>> => l \in opened'
  PROVE  TypeInv'
<1>1. pump' \in [Nodes -> [Dirs -> {"idle", "copy", "ended"}]]
      /\ \A m \in Nodes, d \in Dirs :
           pump'[m][d] = pump[m][d] \/ (m = n /\ s = "bridge" /\ pump'[m][d] = "copy")
  <2>0. pump \in [Nodes -> [Dirs -> {"idle", "copy", "ended"}]]
    BY DEF TypeInv, TypeOK
  <2>1. CASE UNCHANGED pump
    BY <2>0, <2>1
  <2>2. CASE s = "bridge" /\ pump' = [pump EXCEPT ![n] = [d \in Dirs |-> "copy"]]
    BY <2>0, <2>2
  <2> QED
    BY <2>1, <2>2
<1>2. stage' \in [Nodes -> {"start", "dial", "bridge", "returned"}]
      /\ stage'[n] = s /\ \A m \in Nodes : m # n => stage'[m] = stage[m]
  BY DEF TypeInv, TypeOK
<1>3. TypeOK'
  BY <1>1, <1>2 DEF TypeInv, TypeOK, WireTyped
<1>4. Opening'
  BY <1>1, <1>2, Numbers DEF TypeInv, Opening
<1> QED
  BY <1>3, <1>4 DEF TypeInv

LEMMA SendTargetTypes ==
  ASSUME TypeInv, SendTarget
  PROVE  TypeInv'
<1>1. WireTyped(wire) /\ WireTyped(wire') /\ SameBut(1, "up")
  BY TypeFacts, Putting, Numbers DEF SendTarget, Writable, Address
<1>2. 0 \in opened /\ 1 \in opened
  BY DEF TypeInv, Opening
<1>3. /\ stage' = [stage EXCEPT ![Socks] = "bridge"]
      /\ pump' = [pump EXCEPT ![Socks] = [d \in Dirs |-> "copy"]]
      /\ UNCHANGED <<opened, finished, deaf, reset, held, done, sent, got, sawEof>>
  BY DEF SendTarget, Enters, StartPumps, endVars
<1>4. \A k \in Links, e \in Dirs : wire'[k][e] # <<>> => wire[k][e] # <<>> \/ k = 1
  BY <1>1 DEF SameBut
<1>5. Socks - 1 \in opened' /\ Socks \in opened'
  BY <1>2, <1>3 DEF Socks
<1> QED
  BY <1>1, <1>2, <1>3, <1>4, <1>5, Numbers, TypeFacts, NodeTypes

LEMMA SendTargetFailsTypes ==
  ASSUME TypeInv, SendTargetFails
  PROVE  TypeInv'
<1>1. WireTyped(wire')
  BY TypeFacts DEF SendTargetFails
<1>2. 0 \in opened /\ 1 \in opened
  BY DEF TypeInv, Opening
<1>3. /\ stage' = [stage EXCEPT ![Socks] = "returned"]
      /\ UNCHANGED <<opened, wire, reset, pump, held, done, sent, got, sawEof>>
      /\ finished' = finished \cup {<<0, "down">>, <<1, "up">>}
      /\ deaf' = deaf \cup {<<0, "up">>, <<1, "down">>}
  BY DEF SendTargetFails, Enters, CloseBoth, endVars, Socks
<1>4. finished' \subseteq Links \X Dirs /\ deaf' \subseteq Links \X Dirs
  BY <1>3, Numbers, TypeFacts
<1>5. \A l \in Links, d \in Dirs :
        <<l, d>> \in finished' \/ <<l, d>> \in deaf' \/ wire'[l][d] # <<>> => l \in opened'
  BY <1>2, <1>3, TypeFacts
<1> QED
  BY <1>1, <1>3, <1>4, <1>5, Numbers, TypeFacts, NodeTypes

LEMMA HandleFailsTypes ==
  ASSUME TypeInv, NEW n \in Nodes, n - 1 \in opened, HandleFails(n)
  PROVE  TypeInv'
<1>1. WireTyped(wire)
  BY TypeFacts
<1>2. WireTyped(wire') /\ \A k \in Links, e \in Dirs : wire'[k][e] = IF k = n - 1 THEN <<>> ELSE wire[k][e]
  BY <1>1, Resetting, Numbers DEF HandleFails, ResetLink
<1>3. /\ stage' = [stage EXCEPT ![n] = "returned"]
      /\ UNCHANGED <<opened, pump, held, done, sent, got, sawEof>>
      /\ reset' = reset \cup {n - 1}
      /\ finished' = finished \cup {<<n - 1, "down">>}
      /\ deaf' = deaf \cup {<<n - 1, "up">>}
  BY Numbers DEF HandleFails, ResetLink, CloseSide, endVars
<1>4. finished' \subseteq Links \X Dirs /\ deaf' \subseteq Links \X Dirs /\ reset' \subseteq opened'
  BY <1>3, Numbers, TypeFacts
<1>5. \A l \in Links, d \in Dirs :
        <<l, d>> \in finished' \/ <<l, d>> \in deaf' \/ wire'[l][d] # <<>> => l \in opened'
  BY <1>2, <1>3, TypeFacts
<1> QED
  BY <1>2, <1>3, <1>4, <1>5, Numbers, TypeFacts, NodeTypes

LEMMA ReadTargetAddrTypes ==
  ASSUME TypeInv, ReadTargetAddr
  PROVE  TypeInv'
<1>1. WireTyped(wire) /\ wire[Exit - 1]["up"] # <<>>
  BY TypeFacts DEF ReadTargetAddr, Readable
<1>2. WireTyped(wire') /\ SameBut(Exit - 1, "up")
  BY <1>1, Taking, Numbers DEF ReadTargetAddr
<1>3. Exit - 1 \in opened
  BY <1>1, Numbers DEF TypeInv, Opening
<1>4. /\ stage' = [stage EXCEPT ![Exit] = "dial"]
      /\ UNCHANGED <<opened, finished, deaf, reset, pump, held, done, sent, got, sawEof>>
  BY DEF ReadTargetAddr, Enters, endVars
<1>5. \A k \in Links, e \in Dirs : wire'[k][e] # <<>> => wire[k][e] # <<>>
  BY <1>1, <1>2 DEF SameBut
<1> QED
  BY <1>2, <1>3, <1>4, <1>5, Numbers, TypeFacts, NodeTypes

LEMMA DialNextTypes ==
  ASSUME TypeInv, NEW n \in Nodes, DialNext(n)
  PROVE  TypeInv'
<1>1. WireTyped(wire')
  BY TypeFacts DEF DialNext
<1>2. n - 1 \in opened
  BY DEF DialNext, Dialling, TypeInv, Opening
<1>3. /\ stage' = [stage EXCEPT ![n] = "bridge"]
      /\ pump' = [pump EXCEPT ![n] = [d \in Dirs |-> "copy"]]
      /\ opened' = opened \cup {n}
      /\ UNCHANGED <<wire, finished, deaf, reset, held, done, sent, got, sawEof>>
  BY DEF DialNext, StartPumps, endVars
<1>4. opened' \subseteq Links /\ reset' \subseteq opened'
  BY <1>3, Numbers, TypeFacts
<1> QED
  BY <1>1, <1>2, <1>3, <1>4, TypeFacts, NodeTypes

LEMMA BridgeEndsTypes ==
  ASSUME TypeInv, NEW n \in Nodes, BridgeEnds(n)
  PROVE  TypeInv'
<1>1. WireTyped(wire) /\ n - 1 \in opened /\ n \in opened
  BY TypeFacts DEF BridgeEnds, Enters, TypeInv, Opening
<1>2. WireTyped(wire') /\ \A k \in Links, e \in Dirs : wire'[k][e] = <<>> \/ wire'[k][e] = wire[k][e]
  BY <1>1, Resetting, Numbers DEF BridgeEnds, CloseLinks, ResetLink
<1>3. reset' \subseteq opened
  BY <1>1 DEF BridgeEnds, CloseLinks, ResetLink, TypeInv, TypeOK
<1>4. /\ stage' = [stage EXCEPT ![n] = "returned"]
      /\ UNCHANGED <<opened, pump, held, done, sent, got, sawEof>>
      /\ finished' = finished \cup {<<n - 1, "down">>, <<n, "up">>}
      /\ deaf' = deaf \cup {<<n - 1, "up">>, <<n, "down">>}
  BY DEF BridgeEnds, Enters, CloseLinks, CloseBoth, endVars
<1>5. finished' \subseteq Links \X Dirs /\ deaf' \subseteq Links \X Dirs
  BY <1>4, Numbers, TypeFacts
<1>6. \A l \in Links, d \in Dirs :
        <<l, d>> \in finished' \/ <<l, d>> \in deaf' \/ wire'[l][d] # <<>> => l \in opened'
  BY <1>1, <1>2, <1>4, TypeFacts
<1> QED
  BY <1>2, <1>3, <1>4, <1>5, <1>6, Numbers, TypeFacts, NodeTypes


(* A step of one copying goroutine.                                        *)
LEMMA PumpTypes ==
  ASSUME TypeInv, WireTyped(wire'), NEW n \in Nodes, NEW d \in Dirs,
         NEW h \in Seq(Nat), Len(h) <= 1, held' = [held EXCEPT ![n][d] = h],
         UNCHANGED <<opened, deaf, reset, stage, sent, got, sawEof>>,
         UNCHANGED pump \/ pump' = [pump EXCEPT ![n][d] = "ended"],
         done' \in [Nodes -> {"nothing", "nil", "error"}],
         finished' \subseteq Links \X Dirs,
         \A l \in Links, e \in Dirs :
           <<l, e>> \in finished' \/ wire'[l][e] # <<>> => l \in opened
  PROVE  TypeInv'
<1>1. pump' \in [Nodes -> [Dirs -> {"idle", "copy", "ended"}]]
      /\ \A m \in Nodes, e \in Dirs : pump'[m][e] = pump[m][e] \/ pump'[m][e] = "ended"
  <2>0. pump \in [Nodes -> [Dirs -> {"idle", "copy", "ended"}]]
    BY DEF TypeInv, TypeOK
  <2>1. CASE UNCHANGED pump
    BY <2>0, <2>1
  <2>2. CASE pump' = [pump EXCEPT ![n][d] = "ended"]
    BY <2>0, <2>2, Replaced
  <2> QED
    BY <2>1, <2>2
<1>2. held' \in [Nodes -> [Dirs -> Seq(Nat)]]
      /\ \A m \in Nodes, e \in Dirs : Len(held'[m][e]) <= 1
  <2>0. held \in [Nodes -> [Dirs -> Seq(Nat)]]
        /\ \A m \in Nodes, e \in Dirs : Len(held[m][e]) <= 1
    BY DEF TypeInv, TypeOK
  <2>1. /\ held' \in [Nodes -> [Dirs -> Seq(Nat)]] /\ held'[n][d] = h
        /\ \A m \in Nodes, e \in Dirs : m # n \/ e # d => held'[m][e] = held[m][e]
    BY <2>0, Replaced
  <2> QED
    BY <2>0, <2>1
<1>3. TypeOK'
  BY <1>1, <1>2 DEF TypeInv, TypeOK, WireTyped
<1>4. Opening'
  BY <1>1 DEF TypeInv, Opening
<1> QED
  BY <1>3, <1>4 DEF TypeInv

LEMMA CopyReadsTypes ==
  ASSUME TypeInv, NEW n \in Nodes, NEW d \in Dirs, CopyReads(n, d)
  PROVE  TypeInv'
<1> DEFINE l == Source(n, d)
           h == <<Head(wire[l][d])>>
<1>0. l \in Links
  BY Numbers
<1>1. /\ wire[l][d] # <<>> /\ wire' = [wire EXCEPT ![l][d] = Tail(@)]
      /\ held' = [held EXCEPT ![n][d] = h]
      /\ UNCHANGED <<opened, finished, deaf, reset, stage, pump, done, sent, got, sawEof>>
  BY DEF CopyReads, Readable, endVars
<1>2. wire[l][d] \in Seq(Nat) /\ WireTyped(wire)
  BY <1>0, TypeFacts
<1>3. h \in Seq(Nat) /\ Len(h) <= 1
  <2>1. Head(wire[l][d]) \in Nat
    BY <1>1, <1>2, Ends
  <2> QED
    BY <2>1
<1> HIDE DEF l, h
<1>4. WireTyped(wire') /\ SameBut(l, d)
  BY <1>0, <1>1, <1>2, Taking
<1>5. \A k \in Links, e \in Dirs : wire'[k][e] # <<>> => wire[k][e] # <<>>
  BY <1>1, <1>4 DEF SameBut
<1>6. done \in [Nodes -> {"nothing", "nil", "error"}]
  BY DEF TypeInv, TypeOK
<1> QED
  BY <1>1, <1>3, <1>4, <1>5, <1>6, TypeFacts, PumpTypes

LEMMA CopyWritesTypes ==
  ASSUME TypeInv, NEW n \in Nodes, NEW d \in Dirs, CopyWrites(n, d)
  PROVE  TypeInv'
<1> DEFINE l == Sink(n, d)
           x == held[n][d][1]
<1>0. l \in Links
  BY Numbers
<1>1. /\ held[n][d] # <<>> /\ l \in opened /\ Len(wire[l][d]) < Window
      /\ wire' = [wire EXCEPT ![l][d] = wire[l][d] \o held[n][d]]
      /\ held' = [held EXCEPT ![n][d] = <<>>]
      /\ UNCHANGED <<opened, finished, deaf, reset, stage, pump, done, sent, got, sawEof>>
  BY DEF CopyWrites, Writable, endVars
<1>2. wire[l][d] \in Seq(Nat) /\ WireTyped(wire) /\ held[n][d] \in Seq(Nat) /\ Len(held[n][d]) <= 1
  BY <1>0, TypeFacts
<1>3. x \in Nat /\ wire' = [wire EXCEPT ![l][d] = Append(wire[l][d], x)]
  BY <1>1, <1>2, Joined
<1> HIDE DEF l, x
<1>4. WireTyped(wire') /\ SameBut(l, d)
  BY <1>0, <1>1, <1>2, <1>3, Putting
<1>5. \A k \in Links, e \in Dirs : wire'[k][e] # <<>> => wire[k][e] # <<>> \/ k = l
  BY <1>1, <1>4 DEF SameBut
<1>6. done \in [Nodes -> {"nothing", "nil", "error"}]
  BY DEF TypeInv, TypeOK
<1> DEFINE h == <<>>
<1>7. h \in Seq(Nat) /\ Len(h) <= 1 /\ held' = [held EXCEPT ![n][d] = h]
  BY <1>1, Nothing
<1>8. /\ finished' \subseteq Links \X Dirs
      /\ \A k \in Links, e \in Dirs : <<k, e>> \in finished' \/ wire'[k][e] # <<>> => k \in opened
  BY <1>1, <1>5, TypeFacts
<1> HIDE DEF h
<1> QED
  BY <1>1, <1>4, <1>6, <1>7, <1>8, PumpTypes

LEMMA CopyReturnsTypes ==
  ASSUME TypeInv, NEW n \in Nodes, NEW d \in Dirs, NEW r \in {"nil", "error"}, CopyReturns(n, d, r)
  PROVE  TypeInv'
<1>0. Sink(n, d) \in Links /\ Sink(n, d) \in opened
  BY Numbers DEF CopyReturns, TypeInv, Opening, Sink
<1>1. /\ pump' = [pump EXCEPT ![n][d] = "ended"]
      /\ held' = [held EXCEPT ![n][d] = <<>>]
      /\ finished' = finished \cup {<<Sink(n, d), d>>}
      /\ UNCHANGED <<opened, wire, deaf, reset, stage, sent, got, sawEof>>
  BY DEF CopyReturns, endVars
<1>2. done' \in [Nodes -> {"nothing", "nil", "error"}]
  BY DEF CopyReturns, TypeInv, TypeOK
<1>3. finished' \subseteq Links \X Dirs
  BY <1>0, <1>1, TypeFacts
<1>4. WireTyped(wire')
  BY <1>1, TypeFacts
<1>5. \A l \in Links, e \in Dirs : <<l, e>> \in finished' \/ wire'[l][e] # <<>> => l \in opened
  BY <1>0, <1>1, TypeFacts
<1> DEFINE h == <<>>
<1>6. h \in Seq(Nat) /\ Len(h) <= 1 /\ held' = [held EXCEPT ![n][d] = h]
  BY <1>1, Nothing
<1> HIDE DEF h
<1> QED
  BY <1>1, <1>2, <1>3, <1>4, <1>5, <1>6, PumpTypes

(* A step of the client or the target.                                     *)
LEMMA EndTypes ==
  ASSUME TypeInv, WireTyped(wire'),
         UNCHANGED <<opened, reset, stage, pump, held, done>>,
         sent' \in [Dirs -> Nat], got' \in [Dirs -> Seq(Nat)], sawEof' \subseteq Dirs,
         finished' \subseteq Links \X Dirs, deaf' \subseteq Links \X Dirs,
         \A l \in Links, d \in Dirs :
           <<l, d>> \in finished' \/ <<l, d>> \in deaf' \/ wire'[l][d] # <<>> => l \in opened
  PROVE  TypeInv'
<1>1. TypeOK'
  BY DEF TypeInv, TypeOK, WireTyped
<1>2. Opening'
  BY DEF TypeInv, Opening
<1> QED
  BY <1>1, <1>2 DEF TypeInv

LEMMA EndFacts ==
  ASSUME TypeInv
  PROVE  sent \in [Dirs -> Nat] /\ got \in [Dirs -> Seq(Nat)] /\ sawEof \subseteq Dirs
BY DEF TypeInv, TypeOK

LEMMA SendTypes ==
  ASSUME TypeInv, NEW d \in Dirs, Send(d)
  PROVE  TypeInv'
<1> DEFINE x == sent[d] + 1
<1>0. Edge(d) \in Links /\ x \in Nat
  BY Numbers, TypeFacts
<1>1. /\ Edge(d) \in opened /\ Len(wire[Edge(d)][d]) < Window
      /\ wire' = [wire EXCEPT ![Edge(d)][d] = Append(@, x)]
      /\ sent' = [sent EXCEPT ![d] = x]
      /\ UNCHANGED <<opened, finished, deaf, reset, stage, pump, held, done, got, sawEof>>
  BY DEF Send, Writable, nodeVars
<1> HIDE DEF x
<1>2. WireTyped(wire') /\ SameBut(Edge(d), d)
  BY <1>0, <1>1, TypeFacts, Putting
<1>3. sent' \in [Dirs -> Nat]
  BY <1>0, <1>1, EndFacts
<1>4. \A k \in Links, e \in Dirs : wire'[k][e] # <<>> => wire[k][e] # <<>> \/ k = Edge(d)
  BY <1>2 DEF SameBut
<1> QED
  BY <1>1, <1>2, <1>3, <1>4, EndFacts, TypeFacts, EndTypes

LEMMA ClosesTypes ==
  ASSUME TypeInv, NEW d \in Dirs, HalfCloses(d) \/ Closes(d)
  PROVE  TypeInv'
<1>0. Edge(d) \in Links /\ Opposite(d) \in Dirs /\ Edge(d) \in opened
  BY Numbers DEF HalfCloses, Closes
<1>1. /\ finished' = finished \cup {<<Edge(d), d>>}
      /\ deaf' = deaf \/ deaf' = deaf \cup {<<Edge(d), Opposite(d)>>}
      /\ UNCHANGED <<opened, wire, reset, stage, pump, held, done, sent, got, sawEof>>
  BY DEF HalfCloses, Closes, CloseSide, nodeVars, endVars
<1>2. finished' \subseteq Links \X Dirs /\ deaf' \subseteq Links \X Dirs
  BY <1>0, <1>1, TypeFacts
<1>3. WireTyped(wire')
  BY <1>1, TypeFacts
<1>4. \A l \in Links, e \in Dirs :
        <<l, e>> \in finished' \/ <<l, e>> \in deaf' \/ wire'[l][e] # <<>> => l \in opened
  BY <1>0, <1>1, TypeFacts
<1> QED
  BY <1>1, <1>2, <1>3, <1>4, EndFacts, EndTypes

LEMMA ReceiveTypes ==
  ASSUME TypeInv, NEW d \in Dirs, Receive(d)
  PROVE  TypeInv'
<1> DEFINE l == Edge(Opposite(d))
<1>0. l \in Links /\ WireTyped(wire)
  BY Numbers, TypeFacts
<1>1. CASE /\ Readable(l, d)
           /\ got' = [got EXCEPT ![d] = Append(@, Head(wire[l][d]))]
           /\ wire' = [wire EXCEPT ![l][d] = Tail(@)]
           /\ UNCHANGED <<opened, finished, deaf, reset, nodeVars, sent, sawEof>>
  <2>1. wire[l][d] # <<>> /\ wire[l][d] \in Seq(Nat)
        /\ UNCHANGED <<opened, finished, deaf, reset, stage, pump, held, done, sent, sawEof>>
    BY <1>0, <1>1, TypeFacts DEF Readable, nodeVars
  <2>2. Head(wire[l][d]) \in Nat /\ got[d] \in Seq(Nat)
    BY <2>1, Ends, TypeFacts
  <2>3. got' \in [Dirs -> Seq(Nat)]
    <3> DEFINE g == Append(got[d], Head(wire[l][d]))
    <3>1. g \in Seq(Nat)
      BY <2>2, Longer
    <3>2. got' = [got EXCEPT ![d] = g]
      BY <1>1
    <3> HIDE DEF g
    <3> QED
      BY <3>1, <3>2, EndFacts
  <2> HIDE DEF l
  <2>4. WireTyped(wire') /\ SameBut(l, d)
    BY <1>0, <1>1, <2>1, Taking
  <2>5. \A k \in Links, e \in Dirs : wire'[k][e] # <<>> => wire[k][e] # <<>>
    BY <2>1, <2>4 DEF SameBut
  <2> QED
    BY <2>1, <2>3, <2>4, <2>5, EndFacts, TypeFacts, EndTypes
<1>2. CASE sawEof' = sawEof \cup {d} /\ UNCHANGED <<linkVars, nodeVars, sent, got>>
  <2>1. /\ UNCHANGED <<opened, wire, finished, deaf, reset, stage, pump, held, done, sent, got>>
        /\ sawEof' \subseteq Dirs
    BY <1>2, EndFacts DEF linkVars, nodeVars
  <2> QED
    BY <1>0, <2>1, EndFacts, TypeFacts, EndTypes
<1> QED
  BY <1>1, <1>2 DEF Receive

(* The handler of the exit node, whose read of the frame fails, has its    *)
(* stream, as has every node that dials.                                   *)
LEMMA FailsOnOpenLink ==
  ASSUME TypeInv, NEW n \in Nodes,
         (n = Exit /\ ReadTargetAddrFails) \/ DialNextFails(n)
  PROVE  n - 1 \in opened /\ HandleFails(n)
<1>1. CASE n = Exit /\ ReadTargetAddrFails
  BY <1>1, Numbers, TypeFacts DEF ReadTargetAddrFails, ReadFails, AtEof
<1>2. CASE DialNextFails(n)
  BY <1>2, Numbers DEF DialNextFails, Dialling, TypeInv, Opening
<1> QED
  BY <1>1, <1>2

LEMMA TypesKept ==
  ASSUME TypeInv, [Next]_vars
  PROVE  TypeInv'
<1>1. ASSUME NEW n \in Nodes, NodeStep(n) PROVE TypeInv'
  <2>1. CASE n = Socks /\ (SendTarget \/ SendTargetFails)
    BY <2>1, SendTargetTypes, SendTargetFailsTypes
  <2>2. CASE n = Exit /\ ReadTargetAddr
    BY <2>2, ReadTargetAddrTypes
  <2>3. CASE (n = Exit /\ ReadTargetAddrFails) \/ DialNextFails(n)
    BY <2>3, FailsOnOpenLink, HandleFailsTypes
  <2>4. CASE DialNext(n)
    BY <2>4, DialNextTypes
  <2>5. CASE Bridge(n)
    BY <2>5, CopyReadsTypes, CopyWritesTypes, CopyReturnsTypes, BridgeEndsTypes DEF Bridge
  <2> QED
    BY <1>1, <2>1, <2>2, <2>3, <2>4, <2>5 DEF NodeStep
<1>2. ASSUME NEW l \in Links, Breaks(l) \/ \E d \in Dirs : LateData(l, d) PROVE TypeInv'
  BY <1>2, BreaksTypes, LateDataTypes
<1>3. ASSUME NEW d \in Dirs, Send(d) \/ HalfCloses(d) \/ Closes(d) \/ Receive(d) PROVE TypeInv'
  BY <1>3, SendTypes, ClosesTypes, ReceiveTypes
<1>4. CASE UNCHANGED vars
  <2>1. UNCHANGED <<opened, wire, finished, deaf, reset, stage, pump, held, done, sent, got, sawEof>>
    BY <1>4 DEF vars, linkVars, nodeVars, endVars
  <2>2. WireTyped(wire')
    BY <2>1, TypeFacts
  <2> QED
    BY <2>1, <2>2, TypeFacts, LinkTypes
<1> QED
  BY <1>1, <1>2, <1>3, <1>4 DEF Next

(* Every variable keeps its type for every number of hops: no more than    *)
(* Window pieces are ever on a link or one in the hands of a goroutine,    *)
(* and only a link that exists is ever reset.                              *)
THEOREM TunnelTypes == Spec => []TypeOK
<1>1. TypeInv => TypeOK
  BY DEF TypeInv
<1> QED
  BY InitTypes, TypesKept, <1>1, PTL DEF Spec
-----------------------------------------------------------------------------
(* The pieces of a direction are numbered, and f[l][d] is the number of    *)
(* the piece that link l takes next.  What is on a link, in the hands of a *)
(* goroutine or received is then known from f, and so is that nothing is   *)
(* lost in between, as long as it can still be read.                       *)

Numbering == [Links -> [Dirs -> Nat]]

Filled(l, d) == Len(wire[l][d])
Count(d) == Len(got[d])

(* The reader of a link can still read in a direction; the link the client *)
(* or the target reads.                                                    *)
Intact(l, d) == l \notin reset /\ <<l, d>> \notin deaf
Last(d) == Edge(Opposite(d))

(* The address, number 0, is on its way between the first and the last     *)
(* node only: the SOCKS5 node puts it in, the exit node takes it out.      *)
Shift(n, d) ==
  IF d = "up" /\ n = Socks /\ stage[n] = "start" THEN 1
  ELSE IF d = "up" /\ n = Exit /\ stage[n] = "start" THEN -1 ELSE 0

(* How much further node n has read than written in a direction.           *)
Ahead(n, d) == Len(held[n][d]) + Shift(n, d)

Runs(f) ==
  \A l \in Links, d \in Dirs :
    \A i \in 1 .. Filled(l, d) : wire[l][d][i] = f[l][d] - Filled(l, d) + i - 1

Limits(f) ==
  /\ \A d \in Dirs : f[Edge(d)][d] = sent[d] + 1
  /\ \A l \in Links, d \in Dirs : f[l][d] <= sent[d] + 1
  /\ stage[Socks] = "start" => f[1]["up"] = 0

Passages(f) ==
  \A n \in Nodes, d \in Dirs :
    pump[n][d] # "ended" /\ Intact(Source(n, d), d) =>
      f[Sink(n, d)][d] + Ahead(n, d) = f[Source(n, d)][d] - Filled(Source(n, d), d)

InHand(f) ==
  \A n \in Nodes, d \in Dirs :
    held[n][d] # <<>> => held[n][d][1] = f[Sink(n, d)][d] /\ f[Sink(n, d)][d] <= sent[d]

Delivered(f) ==
  \A d \in Dirs : Intact(Last(d), d) => Count(d) + 1 = f[Last(d)][d] - Filled(Last(d), d)

Numbered(f) == Runs(f) /\ Limits(f) /\ Passages(f) /\ InHand(f) /\ Delivered(f)

(* Nothing is copied before the bridge, or held by a goroutine that ended. *)
Awake ==
  \A n \in Nodes, d \in Dirs :
    /\ stage[n] \in {"start", "dial"} => pump[n][d] = "idle"
    /\ held[n][d] # <<>> => pump[n][d] = "copy"

LEMMA Sizes ==
  ASSUME TypeInv
  PROVE  /\ \A l \in Links, d \in Dirs : Filled(l, d) \in Nat
         /\ \A d \in Dirs : Count(d) \in Nat /\ sent[d] \in Nat
         /\ \A n \in Nodes, d \in Dirs : Shift(n, d) \in Int /\ Ahead(n, d) \in Int
<1>1. \A n \in Nodes, d \in Dirs : Shift(n, d) \in Int
  BY DEF Shift
<1> QED
  BY <1>1, TypeFacts DEF Filled, Count, Ahead

LEMMA NumberingFacts ==
  ASSUME NEW f \in Numbering
  PROVE  /\ \A l \in Links, d \in Dirs : f[l][d] \in Nat
         /\ \A l \in Links, d \in Dirs, x \in Nat : \E g \in Numbering :
              /\ g[l][d] = x
              /\ \A k \in Links, e \in Dirs : k # l \/ e # d => g[k][e] = f[k][e]
<1>1. \A l \in Links, d \in Dirs : f[l][d] \in Nat
  BY DEF Numbering
<1>2. ASSUME NEW l \in Links, NEW d \in Dirs, NEW x \in Nat
      PROVE  \E g \in Numbering :
               /\ g[l][d] = x
               /\ \A k \in Links, e \in Dirs : k # l \/ e # d => g[k][e] = f[k][e]
  <2> DEFINE g == [f EXCEPT ![l][d] = x]
  <2>1. g \in Numbering /\ g[l][d] = x
        /\ \A k \in Links, e \in Dirs : k # l \/ e # d => g[k][e] = f[k][e]
    BY Replaced DEF Numbering
  <2> HIDE DEF g
  <2> QED
    BY <2>1
<1> QED
  BY <1>1, <1>2

LEMMA AwakeInit == Init => Awake
BY DEF Init, Awake

LEMMA AwakeKept ==
  ASSUME TypeInv, Awake, [Next]_vars
  PROVE  Awake'
<1>1. ASSUME NEW n \in Nodes, NEW s \in {"dial", "bridge", "returned"},
             stage' = [stage EXCEPT ![n] = s], UNCHANGED held,
             s = "dial" => UNCHANGED pump /\ stage[n] = "start",
             \/ UNCHANGED pump
             \/ pump' = [pump EXCEPT ![n] = [d \in Dirs |-> "copy"]] /\ s = "bridge"
      PROVE  Awake'
  <2>1. \A m \in Nodes : stage'[m] = IF m = n THEN s ELSE stage[m]
    BY <1>1 DEF TypeInv, TypeOK
  <2>2. \A m \in Nodes, d \in Dirs : pump'[m][d] = pump[m][d] \/ (m = n /\ s = "bridge" /\ pump'[m][d] = "copy")
    <3>0. pump \in [Nodes -> [Dirs -> {"idle", "copy", "ended"}]]
      BY DEF TypeInv, TypeOK
    <3>1. CASE UNCHANGED pump
      BY <3>1
    <3>2. CASE pump' = [pump EXCEPT ![n] = [d \in Dirs |-> "copy"]] /\ s = "bridge"
      BY <3>0, <3>2
    <3> QED
      BY <1>1, <3>1, <3>2
  <2> QED
    BY <1>1, <2>1, <2>2 DEF Awake
<1>2. ASSUME NEW n \in Nodes, NodeStep(n) PROVE Awake'
  <2>1. CASE SendTarget
    BY <1>1, <2>1, Numbers DEF SendTarget, Enters, StartPumps
  <2>2. CASE SendTargetFails
    BY <1>1, <2>2, Numbers DEF SendTargetFails, Enters
  <2>3. CASE ReadTargetAddr
    BY <1>1, <2>3, Numbers DEF ReadTargetAddr, Enters
  <2>4. CASE HandleFails(n)
    BY <1>1, <1>2, <2>4 DEF HandleFails
  <2>5. CASE DialNext(n)
    BY <1>1, <1>2, <2>5 DEF DialNext, StartPumps
  <2>6. CASE BridgeEnds(n)
    BY <1>1, <1>2, <2>6 DEF BridgeEnds, Enters, CloseLinks
  <2>7. ASSUME NEW d \in Dirs, NEW h, held' = [held EXCEPT ![n][d] = h], UNCHANGED stage,
               pump[n][d] = "copy",
               \/ UNCHANGED pump
               \/ h = <<>> /\ pump' = [pump EXCEPT ![n][d] = "ended"]
        PROVE  Awake'
    <3>0. /\ held \in [Nodes -> [Dirs -> Seq(Nat)]]
          /\ pump \in [Nodes -> [Dirs -> {"idle", "copy", "ended"}]]
      BY DEF TypeInv, TypeOK
    <3>1. \A m \in Nodes, e \in Dirs : held'[m][e] = IF m = n /\ e = d THEN h ELSE held[m][e]
      BY <2>7, <3>0
    <3>2. CASE UNCHANGED pump
      BY <2>7, <3>1, <3>2 DEF Awake
    <3>3. CASE h = <<>> /\ pump' = [pump EXCEPT ![n][d] = "ended"]
      <4>1. \A m \in Nodes, e \in Dirs : pump'[m][e] = IF m = n /\ e = d THEN "ended" ELSE pump[m][e]
        BY <3>0, <3>3
      <4> QED
        BY <2>7, <3>1, <3>3, <4>1 DEF Awake
    <3> QED
      BY <2>7, <3>2, <3>3
  <2>8. ASSUME NEW d \in Dirs, CopyReads(n, d) PROVE Awake'
    BY <2>7, <2>8 DEF CopyReads
  <2>9. ASSUME NEW d \in Dirs, CopyWrites(n, d) PROVE Awake'
    BY <2>7, <2>9 DEF CopyWrites
  <2>10. ASSUME NEW d \in Dirs, NEW r \in {"nil", "error"}, CopyReturns(n, d, r) PROVE Awake'
    BY <2>7, <2>10 DEF CopyReturns
  <2> QED
    BY <1>2, <2>1, <2>2, <2>3, <2>4, <2>5, <2>6, <2>8, <2>9, <2>10
       DEF NodeStep, ReadTargetAddrFails, DialNextFails, Bridge
<1>3. CASE UNCHANGED nodeVars
  BY <1>3 DEF Awake, nodeVars
<1>4. ASSUME NEW l \in Links, Breaks(l) \/ \E d \in Dirs : LateData(l, d) PROVE UNCHANGED nodeVars
  BY <1>4 DEF Breaks, LateData
<1>5. ASSUME NEW d \in Dirs, Send(d) \/ HalfCloses(d) \/ Closes(d) \/ Receive(d) PROVE UNCHANGED nodeVars
  BY <1>5 DEF Send, HalfCloses, Closes, Receive
<1>6. CASE UNCHANGED vars
  BY <1>3, <1>6 DEF vars
<1> QED
  BY <1>2, <1>3, <1>4, <1>5, <1>6 DEF Next
-----------------------------------------------------------------------------
(* What a step does to the runs of numbers on the wires.                   *)

LEMMA TakeRuns ==
  ASSUME TypeInv, NEW f \in Numbering, Runs(f), NEW l \in Links, NEW d \in Dirs,
         wire[l][d] # <<>>, wire' = [wire EXCEPT ![l][d] = Tail(@)]
  PROVE  /\ Runs(f)'
         /\ Filled(l, d)' = Filled(l, d) - 1
         /\ \A k \in Links, e \in Dirs : k # l \/ e # d => Filled(k, e)' = Filled(k, e)
         /\ Head(wire[l][d]) = f[l][d] - Filled(l, d)
<1>1. wire[l][d] \in Seq(Nat) /\ SameBut(l, d) /\ wire'[l][d] = Tail(wire[l][d])
  BY TypeFacts, Taking
<1>2. Filled(l, d) \in Nat /\ Filled(l, d) > 0 /\ Filled(l, d)' = Filled(l, d) - 1
      /\ Head(wire[l][d]) = wire[l][d][1]
      /\ \A i \in 1 .. Filled(l, d) - 1 : wire'[l][d][i] = wire[l][d][i + 1]
  BY <1>1, Ends DEF Filled
<1>3. \A k \in Links, e \in Dirs : k # l \/ e # d => Filled(k, e)' = Filled(k, e)
  BY <1>1 DEF Filled, SameBut
<1>4. f[l][d] \in Nat
  BY NumberingFacts
<1>5. \A i \in 1 .. Filled(l, d) : wire[l][d][i] = f[l][d] - Filled(l, d) + i - 1
  BY DEF Runs
<1>6. Head(wire[l][d]) = f[l][d] - Filled(l, d)
  BY <1>2, <1>4, <1>5
<1>7. ASSUME NEW i \in 1 .. Filled(l, d)'
      PROVE  wire'[l][d][i] = f[l][d] - Filled(l, d)' + i - 1
  <2>1. i \in 1 .. Filled(l, d) - 1 /\ i + 1 \in 1 .. Filled(l, d) /\ i \in Nat
    BY <1>2
  <2>2. wire'[l][d][i] = f[l][d] - Filled(l, d) + (i + 1) - 1
    BY <1>2, <1>5, <2>1
  <2>3. \A a, b, j \in Int : a - b + (j + 1) - 1 = a - (b - 1) + j - 1
    OBVIOUS
  <2>4. f[l][d] \in Int /\ Filled(l, d) \in Int /\ i \in Int
    BY <1>2, <1>4, <2>1
  <2>5. f[l][d] - Filled(l, d) + (i + 1) - 1 = f[l][d] - (Filled(l, d) - 1) + i - 1
    BY <2>3, <2>4
  <2>6. Filled(l, d)' = Filled(l, d) - 1
    BY <1>2
  <2> QED
    BY <2>2, <2>5, <2>6
<1>8. \A k \in Links, e \in Dirs :
        k # l \/ e # d =>
          \A i \in 1 .. Filled(k, e)' : wire'[k][e][i] = f[k][e] - Filled(k, e)' + i - 1
  BY <1>1, <1>3 DEF Runs, SameBut
<1>9. Runs(f)'
  BY <1>7, <1>8 DEF Runs
<1> QED
  BY <1>2, <1>3, <1>6, <1>9

LEMMA PutRuns ==
  ASSUME TypeInv, NEW f \in Numbering, Runs(f), NEW l \in Links, NEW d \in Dirs,
         Len(wire[l][d]) < Window, wire' = [wire EXCEPT ![l][d] = Append(@, f[l][d])],
         NEW g \in Numbering, g[l][d] = f[l][d] + 1,
         \A k \in Links, e \in Dirs : k # l \/ e # d => g[k][e] = f[k][e]
  PROVE  /\ Runs(g)'
         /\ Filled(l, d)' = Filled(l, d) + 1
         /\ \A k \in Links, e \in Dirs : k # l \/ e # d => Filled(k, e)' = Filled(k, e)
<1>0. f[l][d] \in Nat
  BY NumberingFacts
<1>1. wire[l][d] \in Seq(Nat) /\ SameBut(l, d) /\ wire'[l][d] = Append(wire[l][d], f[l][d])
  BY <1>0, TypeFacts, Putting
<1>2. Filled(l, d) \in Nat /\ Filled(l, d)' = Filled(l, d) + 1
      /\ wire'[l][d][Filled(l, d) + 1] = f[l][d]
      /\ \A i \in 1 .. Filled(l, d) : wire'[l][d][i] = wire[l][d][i]
  BY <1>0, <1>1, Ends, Longer DEF Filled
<1>3. \A k \in Links, e \in Dirs : k # l \/ e # d => Filled(k, e)' = Filled(k, e)
  BY <1>1 DEF Filled, SameBut
<1>5. \A i \in 1 .. Filled(l, d) : wire[l][d][i] = f[l][d] - Filled(l, d) + i - 1
  BY DEF Runs
<1>7. ASSUME NEW i \in 1 .. Filled(l, d)'
      PROVE  wire'[l][d][i] = g[l][d] - Filled(l, d)' + i - 1
  <2>0. \A a, b, j \in Int : /\ a - b + j - 1 = (a + 1) - (b + 1) + j - 1
                             /\ a = (a + 1) - (b + 1) + (b + 1) - 1
    OBVIOUS
  <2>1. i \in 1 .. Filled(l, d) \/ i = Filled(l, d) + 1
    BY <1>2
  <2>4. f[l][d] \in Int /\ Filled(l, d) \in Int /\ i \in Int
    BY <1>0, <1>2
  <2>5. Filled(l, d)' = Filled(l, d) + 1 /\ g[l][d] = f[l][d] + 1
    BY <1>2
  <2>2. CASE i \in 1 .. Filled(l, d)
    <3>1. wire'[l][d][i] = f[l][d] - Filled(l, d) + i - 1
      BY <1>2, <1>5, <2>2
    <3>2. f[l][d] - Filled(l, d) + i - 1 = (f[l][d] + 1) - (Filled(l, d) + 1) + i - 1
      BY <2>0, <2>4
    <3> QED
      BY <2>5, <3>1, <3>2
  <2>3. CASE i = Filled(l, d) + 1
    <3>1. f[l][d] = (f[l][d] + 1) - (Filled(l, d) + 1) + (Filled(l, d) + 1) - 1
      BY <2>0, <2>4
    <3>2. wire'[l][d][i] = f[l][d]
      BY <1>2, <2>3
    <3> QED
      BY <2>3, <2>5, <3>1, <3>2
  <2> QED
    BY <2>1, <2>2, <2>3
<1>8. \A k \in Links, e \in Dirs :
        k # l \/ e # d =>
          \A i \in 1 .. Filled(k, e)' : wire'[k][e][i] = g[k][e] - Filled(k, e)' + i - 1
  BY <1>1, <1>3 DEF Runs, SameBut
<1>9. Runs(g)'
  BY <1>7, <1>8 DEF Runs
<1> QED
  BY <1>2, <1>3, <1>9

(* A step after which every wire and goroutine holds what it held, except  *)
(* where nothing will be read or written any more, keeps the numbering.    *)
LEMMA QuietStep ==
  ASSUME TypeInv, NEW f \in Numbering, Numbered(f), UNCHANGED <<sent, got>>,
         \A l \in Links, d \in Dirs :
           /\ wire'[l][d] = wire[l][d] \/ (wire'[l][d] = <<>> /\ ~Intact(l, d)')
           /\ Intact(l, d)' => Intact(l, d),
         \A n \in Nodes, d \in Dirs :
           /\ held'[n][d] = held[n][d] \/ (held'[n][d] = <<>> /\ pump'[n][d] = "ended")
           /\ pump'[n][d] # "ended" => pump[n][d] # "ended"
           /\ Shift(n, d)' = Shift(n, d) \/ ~Intact(Source(n, d), d)',
         stage'[Socks] = "start" => stage[Socks] = "start"
  PROVE  Numbered(f)'
<1>1. \A l \in Links, d \in Dirs : Intact(l, d)' => Filled(l, d)' = Filled(l, d)
  BY DEF Filled
<1>2. Runs(f)'
  <2> SUFFICES ASSUME NEW l \in Links, NEW d \in Dirs, NEW i \in 1 .. Filled(l, d)'
               PROVE  wire'[l][d][i] = f[l][d] - Filled(l, d)' + i - 1
    BY DEF Runs
  <2>1. wire'[l][d] # <<>>
    BY Nothing DEF Filled
  <2>2. wire'[l][d] = wire[l][d] /\ Filled(l, d)' = Filled(l, d)
    BY <2>1 DEF Filled
  <2> QED
    BY <2>2 DEF Numbered, Runs
<1>3. Limits(f)'
  BY DEF Numbered, Limits
<1>4. Passages(f)'
  <2> SUFFICES ASSUME NEW n \in Nodes, NEW d \in Dirs,
                      pump'[n][d] # "ended", Intact(Source(n, d), d)'
               PROVE  f[Sink(n, d)][d] + Ahead(n, d)'
                        = f[Source(n, d)][d] - Filled(Source(n, d), d)'
    BY DEF Passages, Source, Sink
  <2>1. pump[n][d] # "ended" /\ Intact(Source(n, d), d) /\ Source(n, d) \in Links
    BY Numbers
  <2>2. held'[n][d] = held[n][d]
    OBVIOUS
  <2>3. Ahead(n, d)' = Ahead(n, d)
    BY <2>2 DEF Ahead
  <2>4. Filled(Source(n, d), d)' = Filled(Source(n, d), d)
    BY <1>1, <2>1
  <2> QED
    BY <2>1, <2>3, <2>4 DEF Numbered, Passages
<1>5. InHand(f)'
  BY DEF Numbered, InHand, Source, Sink
<1>6. Delivered(f)'
  BY <1>1, Numbers DEF Numbered, Delivered, Count, Last, Edge, Opposite
<1> QED
  BY <1>2, <1>3, <1>4, <1>5, <1>6 DEF Numbered
-----------------------------------------------------------------------------
(* The links of a direction: each node writes another link than the others *)
(* and than the end that sends, and reads another than the one it writes   *)
(* and than the end that receives.                                         *)
LEMMA Geometry ==
  /\ \A m, n \in Nodes, d \in Dirs :
       /\ Sink(m, d) = Sink(n, d) => m = n
       /\ Source(m, d) = Source(n, d) => m = n
  /\ \A n \in Nodes, d \in Dirs :
       /\ Sink(n, d) \in Links /\ Source(n, d) \in Links
       /\ Sink(n, d) # Source(n, d) /\ Sink(n, d) # Edge(d) /\ Source(n, d) # Last(d)
       /\ Source(n, Opposite(d)) = Sink(n, d)
  /\ \A d \in Dirs : Edge(d) \in Links /\ Last(d) \in Links /\ Edge(d) # Last(d)
  /\ Sink(Socks, "up") = 1 /\ Source(Exit, "up") = Exit - 1
  /\ Last("up") = Exit /\ Edge("up") = 0 /\ Edge("down") = Exit
BY Numbers DEF Nodes, Dirs, Sink, Source, Edge, Last, Opposite, Socks, Exit

LEMMA Balance ==
  \A a, b \in Int : (a + 1) + (b - 1) = a + b /\ a + (b + 1) = a + b + 1
OBVIOUS

(* A step changes no number of a link whose writer has closed its side.    *)
Shut(l, d) == <<l, d>> \in finished
Fixed(f, g) == \A l \in Links, d \in Dirs : Shut(l, d)' => g[l][d] = f[l][d]

(* A piece with the number the link takes next is put on it, by an end     *)
(* that counts it or by a node that has it in hand.                        *)
LEMMA PutStep ==
  ASSUME TypeInv, NEW f \in Numbering, Numbered(f), NEW l \in Links, NEW d \in Dirs,
         Len(wire[l][d]) < Window, wire' = [wire EXCEPT ![l][d] = Append(@, f[l][d])],
         UNCHANGED <<deaf, reset, got>>,
         \A e \in Dirs : sent'[e] = IF e = d /\ l = Edge(d) THEN sent[e] + 1 ELSE sent[e],
         f[l][d] <= sent'[d],
         stage'[Socks] = "start" => stage[Socks] = "start" /\ ~(l = 1 /\ d = "up"),
         \A n \in Nodes, e \in Dirs :
           /\ pump'[n][e] # "ended" => pump[n][e] # "ended"
           /\ Ahead(n, e)' \in Int
           /\ Ahead(n, e)' = IF Sink(n, e) = l /\ e = d THEN Ahead(n, e) - 1 ELSE Ahead(n, e)
           /\ held'[n][e] # <<>> => held'[n][e] = held[n][e] /\ ~(Sink(n, e) = l /\ e = d)
  PROVE  \E g \in Numbering :
           /\ Numbered(g)'
           /\ \A k \in Links, e \in Dirs : k # l \/ e # d => g[k][e] = f[k][e]
<1>0. f[l][d] \in Nat /\ \A k \in Links, e \in Dirs : f[k][e] \in Nat
  BY NumberingFacts
<1>1. PICK g \in Numbering :
        /\ g[l][d] = f[l][d] + 1
        /\ \A k \in Links, e \in Dirs : k # l \/ e # d => g[k][e] = f[k][e]
  <2> DEFINE x == f[l][d] + 1
  <2>1. x \in Nat
    BY <1>0
  <2> HIDE DEF x
  <2>2. \E g \in Numbering :
          /\ g[l][d] = x
          /\ \A k \in Links, e \in Dirs : k # l \/ e # d => g[k][e] = f[k][e]
    BY <2>1, NumberingFacts
  <2> QED
    BY <2>2 DEF x
<1>2. /\ Runs(g)'
      /\ Filled(l, d)' = Filled(l, d) + 1
      /\ \A k \in Links, e \in Dirs : k # l \/ e # d => Filled(k, e)' = Filled(k, e)
  BY <1>1, PutRuns DEF Numbered
<1>3. Limits(g)'
  <2>1. \A e \in Dirs : sent[e] \in Nat
    BY Sizes
  <2>2. \A e \in Dirs : g[Edge(e)][e] = sent'[e] + 1
    BY <1>0, <1>1, <2>1, Geometry DEF Numbered, Limits
  <2>3. ASSUME NEW k \in Links, NEW e \in Dirs PROVE g[k][e] <= sent'[e] + 1
    <3>1. CASE k = l /\ e = d
      BY <1>0, <1>1, <2>1, <3>1
    <3>2. CASE k # l \/ e # d
      <4>1. g[k][e] = f[k][e] /\ f[k][e] \in Nat /\ f[k][e] <= sent[e] + 1 /\ sent[e] \in Nat
        BY <1>0, <1>1, <2>1, <3>2 DEF Numbered, Limits
      <4>2. sent'[e] = sent[e] \/ sent'[e] = sent[e] + 1
        OBVIOUS
      <4> QED
        BY <4>1, <4>2
    <3> QED
      BY <3>1, <3>2
  <2>4. stage'[Socks] = "start" => g[1]["up"] = 0
    BY <1>1, Numbers DEF Numbered, Limits
  <2> QED
    BY <2>2, <2>3, <2>4 DEF Limits, Edge
<1>4. \A k \in Links, e \in Dirs : g[k][e] - Filled(k, e)' = f[k][e] - Filled(k, e)
  <2>1. \A k \in Links, e \in Dirs : Filled(k, e) \in Nat
    BY Sizes
  <2>2. \A a, b \in Int : (a + 1) - (b + 1) = a - b
    OBVIOUS
  <2>3. g[l][d] - Filled(l, d)' = f[l][d] - Filled(l, d)
    <3>1. f[l][d] \in Int /\ Filled(l, d) \in Int
      BY <1>0, <2>1
    <3>2. g[l][d] = f[l][d] + 1 /\ Filled(l, d)' = Filled(l, d) + 1
      BY <1>1, <1>2
    <3>3. (f[l][d] + 1) - (Filled(l, d) + 1) = f[l][d] - Filled(l, d)
      BY <2>2, <3>1
    <3> QED
      BY <3>2, <3>3
  <2> QED
    BY <1>1, <1>2, <2>3
<1>5. Passages(g)'
  <2> SUFFICES ASSUME NEW n \in Nodes, NEW e \in Dirs,
                      pump'[n][e] # "ended", Intact(Source(n, e), e)'
               PROVE  g[Sink(n, e)][e] + Ahead(n, e)'
                        = g[Source(n, e)][e] - Filled(Source(n, e), e)'
    BY DEF Passages, Source, Sink
  <2>1. /\ Sink(n, e) \in Links /\ Source(n, e) \in Links
        /\ Ahead(n, e) \in Int /\ Ahead(n, e)' \in Int /\ f[Sink(n, e)][e] \in Int
    <3>1. Sink(n, e) \in Links /\ Source(n, e) \in Links
      BY Geometry
    <3>2. Ahead(n, e) \in Int
      BY Sizes
    <3>3. Ahead(n, e)' \in Int
      OBVIOUS
    <3>4. f[Sink(n, e)][e] \in Int
      BY <1>0, <3>1
    <3> QED
      BY <3>1, <3>2, <3>3, <3>4
  <2>2. f[Sink(n, e)][e] + Ahead(n, e) = f[Source(n, e)][e] - Filled(Source(n, e), e)
    BY DEF Numbered, Passages, Intact
  <2>3. CASE Sink(n, e) = l /\ e = d
    <3>1. g[Sink(n, e)][e] = f[Sink(n, e)][e] + 1
      BY <1>1, <2>3
    <3>2. Ahead(n, e)' = Ahead(n, e) - 1
      BY <2>3
    <3>3. (f[Sink(n, e)][e] + 1) + (Ahead(n, e) - 1) = f[Sink(n, e)][e] + Ahead(n, e)
      BY <2>1, Balance
    <3>4. g[Sink(n, e)][e] + Ahead(n, e)' = f[Sink(n, e)][e] + Ahead(n, e)
      BY <3>1, <3>2, <3>3
    <3> QED
      BY <1>4, <2>1, <2>2, <3>4
  <2>4. CASE ~(Sink(n, e) = l /\ e = d)
    <3>1. g[Sink(n, e)][e] = f[Sink(n, e)][e]
      BY <1>1, <2>1, <2>4
    <3>2. Ahead(n, e)' = Ahead(n, e)
      BY <2>4
    <3>3. g[Sink(n, e)][e] + Ahead(n, e)' = f[Sink(n, e)][e] + Ahead(n, e)
      BY <3>1, <3>2
    <3> QED
      BY <1>4, <2>1, <2>2, <3>3
  <2> QED
    BY <2>3, <2>4
<1>6. InHand(g)'
  <2> SUFFICES ASSUME NEW n \in Nodes, NEW e \in Dirs, held'[n][e] # <<>>
               PROVE  held'[n][e][1] = g[Sink(n, e)][e] /\ g[Sink(n, e)][e] <= sent'[e]
    BY DEF InHand, Sink
  <2>1. held'[n][e] = held[n][e] /\ g[Sink(n, e)][e] = f[Sink(n, e)][e]
    BY <1>1, Geometry
  <2>2. held[n][e][1] = f[Sink(n, e)][e] /\ f[Sink(n, e)][e] <= sent[e]
    BY <2>1 DEF Numbered, InHand
  <2>3. f[Sink(n, e)][e] \in Nat /\ sent[e] \in Nat
    BY <1>0, Sizes, Geometry
  <2>4. sent'[e] = sent[e] \/ sent'[e] = sent[e] + 1
    OBVIOUS
  <2>5. f[Sink(n, e)][e] <= sent'[e]
    BY <2>2, <2>3, <2>4
  <2> QED
    BY <2>1, <2>2, <2>5
<1>7. Delivered(g)'
  <2> SUFFICES ASSUME NEW e \in Dirs, Intact(Last(e), e)'
               PROVE  Count(e)' + 1 = g[Last(e)][e] - Filled(Last(e), e)'
    BY DEF Delivered, Last, Edge, Opposite
  <2>1. Count(e)' = Count(e) /\ Intact(Last(e), e) /\ Last(e) \in Links
    BY Geometry DEF Count, Intact
  <2>2. Count(e) + 1 = f[Last(e)][e] - Filled(Last(e), e)
    BY <2>1 DEF Numbered, Delivered
  <2> QED
    BY <1>4, <2>1, <2>2
<1>8. Numbered(g)'
  BY <1>2, <1>3, <1>5, <1>6, <1>7 DEF Numbered
<1> QED
  BY <1>1, <1>8

(* The first piece is taken off a link, by a node or by the end that       *)
(* receives.                                                               *)
LEMMA TakeStep ==
  ASSUME TypeInv, NEW f \in Numbering, Numbered(f), NEW l \in Links, NEW d \in Dirs,
         wire[l][d] # <<>>, wire' = [wire EXCEPT ![l][d] = Tail(@)], Intact(l, d),
         UNCHANGED <<deaf, reset, sent>>,
         stage'[Socks] = "start" => stage[Socks] = "start",
         \A n \in Nodes, e \in Dirs :
           /\ pump'[n][e] # "ended" => pump[n][e] # "ended"
           /\ Ahead(n, e)' \in Int
           /\ Ahead(n, e)' = IF Source(n, e) = l /\ e = d THEN Ahead(n, e) + 1 ELSE Ahead(n, e)
           /\ held'[n][e] # <<>> =>
                \/ held'[n][e] = held[n][e]
                \/ /\ Source(n, e) = l /\ e = d /\ held'[n][e][1] = Head(wire[l][d])
                   /\ Ahead(n, e) = 0 /\ pump[n][e] # "ended",
         \A e \in Dirs : Count(e)' = IF Last(e) = l /\ e = d THEN Count(e) + 1 ELSE Count(e)
  PROVE  Numbered(f)'
<1>0. f[l][d] \in Nat /\ \A k \in Links, e \in Dirs : f[k][e] \in Nat
  BY NumberingFacts
<1>1. \A k \in Links, e \in Dirs : Filled(k, e) \in Nat
  BY Sizes
<1>2. /\ Runs(f)'
      /\ Filled(l, d)' = Filled(l, d) - 1
      /\ \A k \in Links, e \in Dirs : k # l \/ e # d => Filled(k, e)' = Filled(k, e)
      /\ Head(wire[l][d]) = f[l][d] - Filled(l, d)
  BY TakeRuns DEF Numbered
<1>3. Limits(f)'
  BY DEF Numbered, Limits
<1>4. \A k \in Links, e \in Dirs :
        f[k][e] - Filled(k, e)' =
          IF k = l /\ e = d THEN f[k][e] - Filled(k, e) + 1 ELSE f[k][e] - Filled(k, e)
  <2>1. \A a, b \in Int : a - (b - 1) = a - b + 1
    OBVIOUS
  <2>2. f[l][d] \in Int /\ Filled(l, d) \in Int
    BY <1>0, <1>1
  <2>3. f[l][d] - (Filled(l, d) - 1) = f[l][d] - Filled(l, d) + 1
    BY <2>1, <2>2
  <2>4. f[l][d] - Filled(l, d)' = f[l][d] - Filled(l, d) + 1
    BY <1>2, <2>3
  <2> QED
    BY <1>2, <2>4
<1>5. Passages(f)'
  <2> SUFFICES ASSUME NEW n \in Nodes, NEW e \in Dirs,
                      pump'[n][e] # "ended", Intact(Source(n, e), e)'
               PROVE  f[Sink(n, e)][e] + Ahead(n, e)'
                        = f[Source(n, e)][e] - Filled(Source(n, e), e)'
    BY DEF Passages, Source, Sink
  <2>1. /\ Sink(n, e) \in Links /\ Source(n, e) \in Links
        /\ Ahead(n, e) \in Int /\ Ahead(n, e)' \in Int /\ f[Sink(n, e)][e] \in Int
    <3>1. Sink(n, e) \in Links /\ Source(n, e) \in Links
      BY Geometry
    <3>2. Ahead(n, e) \in Int
      BY Sizes
    <3>3. Ahead(n, e)' \in Int
      OBVIOUS
    <3>4. f[Sink(n, e)][e] \in Int
      BY <1>0, <3>1
    <3> QED
      BY <3>1, <3>2, <3>3, <3>4
  <2>2. f[Sink(n, e)][e] + Ahead(n, e) = f[Source(n, e)][e] - Filled(Source(n, e), e)
    BY DEF Numbered, Passages, Intact
  <2>3. CASE Source(n, e) = l /\ e = d
    <3>1. Ahead(n, e)' = Ahead(n, e) + 1
      BY <2>3
    <3>2. f[Sink(n, e)][e] + Ahead(n, e)' = f[Sink(n, e)][e] + Ahead(n, e) + 1
      BY <2>1, <3>1, Balance
    <3>3. f[Source(n, e)][e] - Filled(Source(n, e), e)' = f[Source(n, e)][e] - Filled(Source(n, e), e) + 1
      BY <1>4, <2>1, <2>3
    <3> QED
      BY <2>2, <3>2, <3>3
  <2>4. CASE ~(Source(n, e) = l /\ e = d)
    <3>1. Ahead(n, e)' = Ahead(n, e)
      BY <2>4
    <3>2. f[Sink(n, e)][e] + Ahead(n, e)' = f[Sink(n, e)][e] + Ahead(n, e)
      BY <2>1, <3>1, Balance
    <3>3. f[Source(n, e)][e] - Filled(Source(n, e), e)' = f[Source(n, e)][e] - Filled(Source(n, e), e)
      BY <1>4, <2>1, <2>4
    <3> QED
      BY <2>2, <3>2, <3>3
  <2> QED
    BY <2>3, <2>4
<1>6. InHand(f)'
  <2> SUFFICES ASSUME NEW n \in Nodes, NEW e \in Dirs, held'[n][e] # <<>>
               PROVE  held'[n][e][1] = f[Sink(n, e)][e] /\ f[Sink(n, e)][e] <= sent[e]
    BY DEF InHand, Sink
  <2>1. CASE held'[n][e] = held[n][e]
    BY <2>1 DEF Numbered, InHand
  <2>2. CASE /\ Source(n, e) = l /\ e = d /\ held'[n][e][1] = Head(wire[l][d])
             /\ Ahead(n, e) = 0 /\ pump[n][e] # "ended"
    <3>1. f[Sink(n, d)][d] + Ahead(n, d) = f[l][d] - Filled(l, d)
      BY <2>2 DEF Numbered, Passages
    <3>2. f[Sink(n, d)][d] \in Nat /\ sent[d] \in Nat /\ Filled(l, d) \in Nat
      BY <1>0, <1>1, Sizes, Geometry
    <3>3. f[Sink(n, d)][d] = f[l][d] - Filled(l, d)
      BY <2>2, <3>1, <3>2
    <3>4. Filled(l, d) > 0 /\ f[l][d] <= sent[d] + 1
      BY TypeFacts, Ends DEF Numbered, Limits, Filled
    <3>5. f[l][d] - Filled(l, d) <= sent[d]
      BY <1>0, <3>2, <3>4
    <3> QED
      BY <1>2, <2>2, <3>3, <3>5
  <2> QED
    BY <2>1, <2>2
<1>7. Delivered(f)'
  <2> SUFFICES ASSUME NEW e \in Dirs, Intact(Last(e), e)'
               PROVE  Count(e)' + 1 = f[Last(e)][e] - Filled(Last(e), e)'
    BY DEF Delivered, Last, Edge, Opposite
  <2>1. Intact(Last(e), e) /\ Last(e) \in Links /\ Count(e) \in Nat
    BY Geometry, Sizes DEF Intact
  <2>2. Count(e) + 1 = f[Last(e)][e] - Filled(Last(e), e)
    BY <2>1 DEF Numbered, Delivered
  <2>3. CASE Last(e) = l /\ e = d
    <3>1. Count(e)' = Count(e) + 1
      BY <2>3
    <3>2. f[Last(e)][e] - Filled(Last(e), e)' = f[Last(e)][e] - Filled(Last(e), e) + 1
      BY <1>4, <2>1, <2>3
    <3> QED
      BY <2>2, <3>1, <3>2
  <2>4. CASE ~(Last(e) = l /\ e = d)
    <3>1. Count(e)' = Count(e)
      BY <2>4
    <3>2. f[Last(e)][e] - Filled(Last(e), e)' = f[Last(e)][e] - Filled(Last(e), e)
      BY <1>4, <2>1, <2>4
    <3> QED
      BY <2>2, <3>1, <3>2
  <2> QED
    BY <2>3, <2>4
<1> QED
  BY <1>2, <1>3, <1>5, <1>6, <1>7 DEF Numbered
-----------------------------------------------------------------------------
(* Every step keeps a numbering.                                           *)

LEMMA NumberedInit == Init => \E f \in Numbering : Numbered(f)
<1> SUFFICES ASSUME Init PROVE \E f \in Numbering : Numbered(f)
  OBVIOUS
<1> DEFINE f == [l \in Links |-> [d \in Dirs |-> IF d = "up" /\ l # 0 /\ l # Exit THEN 0 ELSE 1]]
<1>1. /\ f \in Numbering
      /\ \A l \in Links, d \in Dirs : f[l][d] = IF d = "up" /\ l # 0 /\ l # Exit THEN 0 ELSE 1
  BY DEF Numbering
<1> HIDE DEF f
<1>2. /\ \A l \in Links, d \in Dirs : Filled(l, d) = 0
      /\ \A n \in Nodes, d \in Dirs : held[n][d] = <<>>
      /\ \A d \in Dirs : Count(d) = 0 /\ sent[d] = 0
  BY Nothing DEF Init, Filled, Count
<1>3. Runs(f)
  BY <1>2 DEF Runs
<1>4. Limits(f)
  BY <1>1, <1>2, Numbers, Geometry DEF Limits, Edge
<1>5. Passages(f)
  <2> SUFFICES ASSUME NEW n \in Nodes, NEW d \in Dirs
               PROVE  f[Sink(n, d)][d] + Ahead(n, d) = f[Source(n, d)][d] - Filled(Source(n, d), d)
    BY DEF Passages
  <2>1. Ahead(n, d) = 0 + Shift(n, d) /\ stage[n] = "start"
    BY <1>2, Nothing DEF Ahead, Init
  <2>2. CASE d = "down"
    <3>1. f[Sink(n, d)][d] = 1 /\ f[Source(n, d)][d] = 1 /\ Shift(n, d) = 0
      BY <1>1, <2>2, Numbers DEF Shift
    <3>2. Filled(Source(n, d), d) = 0
      BY <1>2, Numbers
    <3> QED
      BY <2>1, <3>1, <3>2
  <2>3. CASE d = "up"
    <3>1. /\ Filled(n - 1, d) = 0 /\ n \in Links /\ n - 1 \in Links /\ n \in Nat
          /\ Sink(n, d) = n /\ Source(n, d) = n - 1 /\ n # 0 /\ n - 1 # Exit
      BY <1>2, <2>3, Numbers DEF Sink, Source, Nodes, Exit, Socks
    <3>2. CASE n = Socks
      <4>1. f[n]["up"] = 0 /\ f[n - 1]["up"] = 1 /\ Shift(n, d) = 1
        BY <1>1, <2>1, <2>3, <3>1, <3>2, Numbers DEF Shift, Socks
      <4> QED
        BY <2>1, <2>3, <3>1, <4>1
    <3>3. CASE n = Exit
      <4>1. f[n]["up"] = 1 /\ f[n - 1]["up"] = 0 /\ Shift(n, d) = -1
        BY <1>1, <2>1, <2>3, <3>1, <3>3, Numbers DEF Shift, Socks
      <4> QED
        BY <2>1, <2>3, <3>1, <4>1
    <3>4. CASE n # Socks /\ n # Exit
      <4>1. f[n]["up"] = 0 /\ f[n - 1]["up"] = 0 /\ Shift(n, d) = 0
        BY <1>1, <2>1, <2>3, <3>1, <3>4, Numbers DEF Shift, Socks
      <4> QED
        BY <2>1, <2>3, <3>1, <4>1
    <3> QED
      BY <3>2, <3>3, <3>4
  <2> QED
    BY <2>2, <2>3 DEF Dirs
<1>6. InHand(f)
  BY <1>2 DEF InHand
<1>7. Delivered(f)
  <2> SUFFICES ASSUME NEW d \in Dirs PROVE Count(d) + 1 = f[Last(d)][d] - Filled(Last(d), d)
    BY DEF Delivered
  <2>1. Last(d) \in Links /\ (d = "up" => Last(d) = Exit)
    BY Geometry
  <2>2. f[Last(d)][d] = 1
    BY <1>1, <2>1, Geometry DEF Dirs
  <2> QED
    BY <1>2, <2>1, <2>2
<1> QED
  BY <1>1, <1>3, <1>4, <1>5, <1>6, <1>7 DEF Numbered

LEMMA QuietLinks ==
  ASSUME TypeInv, NEW f \in Numbering, Numbered(f), NEW l \in Links,
         Breaks(l) \/ \E d \in Dirs : LateData(l, d)
  PROVE  Numbered(f)'
<1>1. UNCHANGED <<stage, pump, held, sent, got, deaf>> /\ reset \subseteq reset'
  BY DEF Breaks, LateData, ResetLink, nodeVars, endVars
<1>2. ASSUME NEW k \in Links, NEW e \in Dirs
      PROVE  wire'[k][e] = wire[k][e] \/ (wire'[k][e] = <<>> /\ ~Intact(k, e)')
  <2>1. CASE ResetLink(l)
    <3>1. wire'[k][e] = IF k = l THEN <<>> ELSE wire[k][e]
      BY <2>1, TypeFacts, Resetting DEF ResetLink
    <3> QED
      BY <2>1, <3>1 DEF ResetLink, Intact
  <2>2. ASSUME NEW d \in Dirs, LateData(l, d), wire' = [wire EXCEPT ![l][d] = <<>>]
        PROVE  wire'[k][e] = wire[k][e] \/ (wire'[k][e] = <<>> /\ ~Intact(k, e)')
    <3>1. SameBut(l, d) /\ wire'[l][d] = <<>> /\ <<l, d>> \in deaf
      BY <2>2, TypeFacts, Losing DEF LateData
    <3> QED
      BY <1>1, <3>1 DEF SameBut, Intact
  <2> QED
    BY <2>1, <2>2 DEF Breaks, LateData
<1>3. \A k \in Links, e \in Dirs : Intact(k, e)' => Intact(k, e)
  BY <1>1 DEF Intact
<1>4. \A n \in Nodes, e \in Dirs : Shift(n, e)' = Shift(n, e)
  BY <1>1 DEF Shift
<1> QED
  BY <1>1, <1>2, <1>3, <1>4, QuietStep

(* A handler that fails or returns closes the links it has not read to     *)
(* their end.                                                              *)
LEMMA QuietHandlers ==
  ASSUME TypeInv, Awake, NEW f \in Numbering, Numbered(f), NEW n \in Nodes,
         \/ n = Socks /\ SendTargetFails
         \/ HandleFails(n)
         \/ DialNext(n)
         \/ BridgeEnds(n)
  PROVE  Numbered(f)'
<1>1. UNCHANGED <<held, sent, got>> /\ reset \subseteq reset' /\ deaf \subseteq deaf'
  BY DEF SendTargetFails, HandleFails, DialNext, BridgeEnds, CloseLinks, CloseBoth, CloseSide,
     ResetLink, endVars
<1>2. ASSUME NEW k \in Links, NEW e \in Dirs
      PROVE  wire'[k][e] = wire[k][e] \/ (wire'[k][e] = <<>> /\ ~Intact(k, e)')
  <2>1. CASE ResetLink(n - 1)
    <3>0. n - 1 \in Links /\ WireTyped(wire) /\ wire' = Drop(n - 1)
      BY <2>1, TypeFacts, Numbers DEF ResetLink
    <3>1. wire'[k][e] = IF k = n - 1 THEN <<>> ELSE wire[k][e]
      BY <3>0, Resetting
    <3> QED
      BY <2>1, <3>1 DEF ResetLink, Intact
  <2> QED
    BY <2>1 DEF SendTargetFails, HandleFails, DialNext, BridgeEnds, CloseLinks
<1>3. \A k \in Links, e \in Dirs : Intact(k, e)' => Intact(k, e)
  BY <1>1 DEF Intact
<1>4. \E s \in {"bridge", "returned"} : stage' = [stage EXCEPT ![n] = s]
  BY DEF SendTargetFails, HandleFails, DialNext, BridgeEnds, Enters
<1>5. stage'[n] # "start" /\ \A m \in Nodes : m # n => stage'[m] = stage[m]
  BY <1>4 DEF TypeInv, TypeOK
<1>6. stage[n] = "start" => n \notin {Socks, Exit} \/ <<n - 1, "up">> \in deaf'
  BY DEF SendTargetFails, HandleFails, DialNext, Dialling, BridgeEnds, Enters, CloseBoth, CloseSide,
     Opposite
<1>7. ASSUME NEW m \in Nodes, NEW e \in Dirs
      PROVE  Shift(m, e)' = Shift(m, e) \/ ~Intact(Source(m, e), e)'
  <2>1. CASE m # n
    BY <1>5, <2>1 DEF Shift
  <2>2. CASE m = n
    BY <1>5, <1>6, <2>2 DEF Shift, Intact, Source
  <2> QED
    BY <2>1, <2>2
<1>8. ASSUME NEW m \in Nodes, NEW e \in Dirs, pump'[m][e] # "ended" PROVE pump[m][e] # "ended"
  <2>1. CASE UNCHANGED pump
    BY <1>8, <2>1
  <2>2. CASE DialNext(n)
    <3>1. pump[n][e] = "idle"
      BY <2>2 DEF Awake, DialNext, Dialling
    <3>2. m # n => pump'[m][e] = pump[m][e]
      BY <2>2 DEF DialNext, StartPumps, TypeInv, TypeOK
    <3> QED
      BY <1>8, <3>1, <3>2
  <2> QED
    BY <2>1, <2>2 DEF SendTargetFails, HandleFails, BridgeEnds, CloseLinks
<1> QED
  BY <1>1, <1>2, <1>3, <1>5, <1>7, <1>8, Numbers, QuietStep

LEMMA QuietReturns ==
  ASSUME TypeInv, NEW f \in Numbering, Numbered(f), NEW n \in Nodes, NEW d \in Dirs,
         NEW r \in {"nil", "error"}, CopyReturns(n, d, r)
  PROVE  Numbered(f)'
<1>1. UNCHANGED <<wire, reset, deaf, stage, sent, got>>
  BY DEF CopyReturns, endVars
<1>2. /\ held \in [Nodes -> [Dirs -> Seq(Nat)]]
      /\ pump \in [Nodes -> [Dirs -> {"idle", "copy", "ended"}]]
  BY DEF TypeInv, TypeOK
<1>3. \A m \in Nodes, e \in Dirs :
        IF m = n /\ e = d THEN held'[m][e] = <<>> /\ pump'[m][e] = "ended"
                          ELSE held'[m][e] = held[m][e] /\ pump'[m][e] = pump[m][e]
  BY <1>2 DEF CopyReturns
<1>4. \A m \in Nodes, e \in Dirs : Shift(m, e)' = Shift(m, e)
  BY <1>1 DEF Shift
<1> QED
  BY <1>1, <1>3, <1>4, QuietStep DEF Intact

LEMMA QuietEnds ==
  ASSUME TypeInv, NEW f \in Numbering, Numbered(f),
         \/ UNCHANGED vars
         \/ \E d \in Dirs : HalfCloses(d) \/ Closes(d)
         \/ UNCHANGED <<linkVars, nodeVars, sent, got>>
  PROVE  Numbered(f)'
<1>1. UNCHANGED <<wire, held, pump, stage, reset, sent, got>> /\ deaf \subseteq deaf'
  BY DEF vars, linkVars, nodeVars, endVars, HalfCloses, Closes, CloseSide
<1>2. \A m \in Nodes, e \in Dirs : Shift(m, e)' = Shift(m, e)
  BY <1>1 DEF Shift
<1> QED
  BY <1>1, <1>2, QuietStep DEF Intact
LEMMA NumberedSendTarget ==
  ASSUME TypeInv, Awake, NEW f \in Numbering, Numbered(f), SendTarget
  PROVE  \E g \in Numbering : Numbered(g)' /\ Fixed(f, g)
<1>1. /\ stage[Socks] = "start" /\ stage' = [stage EXCEPT ![Socks] = "bridge"]
      /\ Len(wire[1]["up"]) < Window /\ ~Shut(1, "up")
      /\ wire' = [wire EXCEPT ![1]["up"] = Append(wire[1]["up"], Address)]
      /\ UNCHANGED <<finished, deaf, reset, held, sent, got>>
  BY DEF SendTarget, Enters, Writable, Shut, endVars
<1>2. f[1]["up"] = Address
  BY <1>1 DEF Numbered, Limits, Address
<1>3. \A m \in Nodes : stage'[m] = IF m = Socks THEN "bridge" ELSE stage[m]
  BY <1>1 DEF TypeInv, TypeOK
<1>4. \A m \in Nodes, e \in Dirs : pump'[m][e] # "ended" => pump[m][e] # "ended"
  <2> SUFFICES ASSUME NEW m \in Nodes, NEW e \in Dirs, pump'[m][e] # "ended"
               PROVE  pump[m][e] # "ended"
    OBVIOUS
  <2>1. pump[Socks][e] = "idle"
    BY <1>1, Numbers DEF Awake
  <2>2. m # Socks => pump'[m][e] = pump[m][e]
    BY DEF SendTarget, StartPumps, TypeInv, TypeOK
  <2> QED
    BY <2>1, <2>2
<1>5. ASSUME NEW m \in Nodes, NEW e \in Dirs
      PROVE  /\ Ahead(m, e)' \in Int
             /\ Ahead(m, e)' = IF Sink(m, e) = 1 /\ e = "up" THEN Ahead(m, e) - 1 ELSE Ahead(m, e)
  <2>1. Len(held[m][e]) \in Nat /\ Ahead(m, e) = Len(held[m][e]) + Shift(m, e)
        /\ Ahead(m, e)' = Len(held[m][e]) + Shift(m, e)'
    BY <1>1, TypeFacts DEF Ahead
  <2>2. CASE m = Socks /\ e = "up"
    <3>1. Shift(m, e) = 1 /\ Shift(m, e)' = 0 /\ Sink(m, e) = 1
      BY <1>1, <1>3, <2>2, Numbers, Geometry DEF Shift
    <3>2. \A x \in Int : x + 0 = (x + 1) - 1 /\ x + 0 \in Int
      OBVIOUS
    <3> QED
      BY <2>1, <2>2, <3>1, <3>2
  <2>3. CASE ~(m = Socks /\ e = "up")
    <3>1. Shift(m, e)' = Shift(m, e) /\ ~(Sink(m, e) = 1 /\ e = "up")
      BY <1>3, <2>3, Numbers, Geometry DEF Shift
    <3>2. Ahead(m, e) \in Int
      BY Sizes
    <3> QED
      BY <2>1, <3>1, <3>2
  <2> QED
    BY <2>2, <2>3
<1>6. \A m \in Nodes, e \in Dirs : held'[m][e] # <<>> => ~(Sink(m, e) = 1 /\ e = "up")
  BY <1>1, Numbers, Geometry DEF Awake
<1>7. \A e \in Dirs : sent[e] \in Nat /\ ~(e = "up" /\ 1 = Edge("up"))
  BY Sizes, Geometry
<1>8. f[1]["up"] <= sent'["up"]
  BY <1>1, <1>2, <1>7, Numbers DEF Address
<1>9. \A e \in Dirs : sent'[e] = IF e = "up" /\ 1 = Edge("up") THEN sent[e] + 1 ELSE sent[e]
  BY <1>1, <1>7
<1>10. wire' = [wire EXCEPT ![1]["up"] = Append(wire[1]["up"], f[1]["up"])]
  BY <1>1, <1>2
<1>11. stage'[Socks] = "start" => stage[Socks] = "start" /\ ~(1 = 1 /\ "up" = "up")
  BY <1>3, Numbers
<1>12. \A m \in Nodes, e \in Dirs :
         /\ pump'[m][e] # "ended" => pump[m][e] # "ended"
         /\ Ahead(m, e)' \in Int
         /\ Ahead(m, e)' = IF Sink(m, e) = 1 /\ e = "up" THEN Ahead(m, e) - 1 ELSE Ahead(m, e)
         /\ held'[m][e] # <<>> => held'[m][e] = held[m][e] /\ ~(Sink(m, e) = 1 /\ e = "up")
  BY <1>1, <1>4, <1>5, <1>6
<1>13. 1 \in Links /\ "up" \in Dirs /\ Len(wire[1]["up"]) < Window /\ UNCHANGED <<deaf, reset, got>>
  BY <1>1, Numbers DEF Dirs
<1>14. \E g \in Numbering :
         /\ Numbered(g)'
         /\ \A k \in Links, e \in Dirs : k # 1 \/ e # "up" => g[k][e] = f[k][e]
  BY <1>8, <1>9, <1>10, <1>11, <1>12, <1>13, PutStep
<1>15. ~Shut(1, "up")'
  BY <1>1 DEF Shut
<1> QED
  BY <1>14, <1>15 DEF Fixed

LEMMA NumberedReadTargetAddr ==
  ASSUME TypeInv, NEW f \in Numbering, Numbered(f), ReadTargetAddr
  PROVE  Numbered(f)'
<1> DEFINE l == Exit - 1
<1>1. /\ stage[Exit] = "start" /\ stage' = [stage EXCEPT ![Exit] = "dial"]
      /\ wire[l]["up"] # <<>> /\ Intact(l, "up")
      /\ wire' = [wire EXCEPT ![l]["up"] = Tail(wire[l]["up"])]
      /\ UNCHANGED <<deaf, reset, held, pump, sent, got>>
  BY DEF ReadTargetAddr, Enters, Readable, Intact, endVars
<1>2. l \in Links /\ Source(Exit, "up") = l /\ Last("up") # l
  BY Numbers, Geometry
<1> HIDE DEF l
<1>3. \A m \in Nodes : stage'[m] = IF m = Exit THEN "dial" ELSE stage[m]
  BY <1>1 DEF TypeInv, TypeOK
<1>5. ASSUME NEW m \in Nodes, NEW e \in Dirs
      PROVE  /\ Ahead(m, e)' \in Int
             /\ Ahead(m, e)' = IF Source(m, e) = l /\ e = "up" THEN Ahead(m, e) + 1 ELSE Ahead(m, e)
  <2>1. Len(held[m][e]) \in Nat /\ Ahead(m, e) = Len(held[m][e]) + Shift(m, e)
        /\ Ahead(m, e)' = Len(held[m][e]) + Shift(m, e)'
    BY <1>1, TypeFacts DEF Ahead
  <2>2. CASE m = Exit /\ e = "up"
    <3>1. Shift(m, e) = -1 /\ Shift(m, e)' = 0 /\ Source(m, e) = l
      BY <1>1, <1>2, <1>3, <2>2, Numbers DEF Shift
    <3>2. \A x \in Int : x + 0 = (x + -1) + 1 /\ x + 0 \in Int
      OBVIOUS
    <3> QED
      BY <2>1, <2>2, <3>1, <3>2
  <2>3. CASE ~(m = Exit /\ e = "up")
    <3>1. Shift(m, e)' = Shift(m, e) /\ ~(Source(m, e) = l /\ e = "up")
      BY <1>2, <1>3, <2>3, Numbers, Geometry DEF Shift
    <3>2. Ahead(m, e) \in Int
      BY Sizes
    <3> QED
      BY <2>1, <3>1, <3>2
  <2> QED
    BY <2>2, <2>3
<1>6. \A e \in Dirs : Count(e)' = Count(e) /\ ~(Last(e) = l /\ e = "up")
  BY <1>1, <1>2 DEF Count
<1>7. stage'[Socks] = "start" => stage[Socks] = "start"
  BY <1>3, Numbers
<1>8. \A m \in Nodes, e \in Dirs :
        /\ pump'[m][e] # "ended" => pump[m][e] # "ended"
        /\ Ahead(m, e)' \in Int
        /\ Ahead(m, e)' = IF Source(m, e) = l /\ e = "up" THEN Ahead(m, e) + 1 ELSE Ahead(m, e)
        /\ held'[m][e] # <<>> =>
             \/ held'[m][e] = held[m][e]
             \/ /\ Source(m, e) = l /\ e = "up" /\ held'[m][e][1] = Head(wire[l]["up"])
                /\ Ahead(m, e) = 0 /\ pump[m][e] # "ended"
  BY <1>1, <1>5
<1>9. \A e \in Dirs : Count(e)' = IF Last(e) = l /\ e = "up" THEN Count(e) + 1 ELSE Count(e)
  BY <1>6
<1>10. l \in Links /\ "up" \in Dirs /\ wire[l]["up"] # <<>> /\ Intact(l, "up")
       /\ UNCHANGED <<deaf, reset, sent>>
  BY <1>1, <1>2 DEF Dirs
<1>11. wire' = [wire EXCEPT ![l]["up"] = Tail(wire[l]["up"])]
  BY <1>1
<1> QED
  BY <1>7, <1>8, <1>9, <1>10, <1>11, TakeStep

LEMMA NumberedCopyReads ==
  ASSUME TypeInv, Awake, NEW f \in Numbering, Numbered(f), NEW n \in Nodes, NEW d \in Dirs,
         CopyReads(n, d)
  PROVE  Numbered(f)'
<1> DEFINE l == Source(n, d)
           x == Head(wire[l][d])
<1>1. /\ pump[n][d] = "copy" /\ held[n][d] = <<>>
      /\ wire[l][d] # <<>> /\ Intact(l, d)
      /\ wire' = [wire EXCEPT ![l][d] = Tail(wire[l][d])]
      /\ held' = [held EXCEPT ![n][d] = <<x>>]
      /\ UNCHANGED <<deaf, reset, stage, pump, sent, got>>
  BY DEF CopyReads, Readable, Intact, endVars
<1>2. l \in Links /\ Last(d) # l
  BY Geometry
<1>3. \A m \in Nodes, e \in Dirs : held'[m][e] = IF m = n /\ e = d THEN <<x>> ELSE held[m][e]
  <2>1. held \in [Nodes -> [Dirs -> Seq(Nat)]]
    BY DEF TypeInv, TypeOK
  <2> HIDE DEF x
  <2> QED
    BY <1>1, <2>1
<1>4. Len(<<x>>) = 1 /\ <<x>>[1] = x
  OBVIOUS
<1>5. \A m \in Nodes, e \in Dirs : (Source(m, e) = l /\ e = d) <=> (m = n /\ e = d)
  BY Geometry
<1> HIDE DEF l, x
<1>6. \A m \in Nodes, e \in Dirs : Shift(m, e)' = Shift(m, e) /\ Shift(m, e) \in Int
  BY <1>1, Sizes DEF Shift
<1>7. Ahead(n, d) = 0
  <2>1. stage[n] # "start"
    BY <1>1 DEF Awake
  <2> QED
    BY <1>1, <2>1, Nothing DEF Ahead, Shift
<1>8. ASSUME NEW m \in Nodes, NEW e \in Dirs
      PROVE  /\ Ahead(m, e)' \in Int
             /\ Ahead(m, e)' = IF Source(m, e) = l /\ e = d THEN Ahead(m, e) + 1 ELSE Ahead(m, e)
  <2>1. CASE m = n /\ e = d
    <3>1. Shift(n, d) = 0
      BY <1>1 DEF Awake, Shift
    <3>2. Ahead(n, d)' = 1 + 0
      BY <1>3, <1>4, <1>6, <2>1, <3>1 DEF Ahead
    <3> QED
      BY <1>5, <1>7, <2>1, <3>2
  <2>2. CASE ~(m = n /\ e = d)
    <3>1. Ahead(m, e)' = Ahead(m, e)
      BY <1>3, <1>6, <2>2 DEF Ahead
    <3> QED
      BY <1>5, <2>2, <3>1, Sizes
  <2> QED
    BY <2>1, <2>2
<1>9. ASSUME NEW m \in Nodes, NEW e \in Dirs, held'[m][e] # <<>>
      PROVE  \/ held'[m][e] = held[m][e]
             \/ /\ Source(m, e) = l /\ e = d /\ held'[m][e][1] = Head(wire[l][d])
                /\ Ahead(m, e) = 0 /\ pump[m][e] # "ended"
  BY <1>1, <1>3, <1>4, <1>5, <1>7 DEF x
<1>10. \A e \in Dirs : Count(e)' = Count(e) /\ ~(Last(e) = l /\ e = d)
  BY <1>1, <1>2 DEF Count
<1> QED
  BY <1>1, <1>2, <1>8, <1>9, <1>10, TakeStep

LEMMA NumberedCopyWrites ==
  ASSUME TypeInv, Awake, NEW f \in Numbering, Numbered(f), NEW n \in Nodes, NEW d \in Dirs,
         CopyWrites(n, d)
  PROVE  \E g \in Numbering : Numbered(g)' /\ Fixed(f, g)
<1> DEFINE l == Sink(n, d)
<1>1. /\ pump[n][d] = "copy" /\ held[n][d] # <<>> /\ Len(wire[l][d]) < Window /\ ~Shut(l, d)
      /\ wire' = [wire EXCEPT ![l][d] = wire[l][d] \o held[n][d]]
      /\ held' = [held EXCEPT ![n][d] = <<>>]
      /\ UNCHANGED <<finished, deaf, reset, stage, pump, sent, got>>
  BY DEF CopyWrites, Writable, Shut, endVars
<1>2. l \in Links /\ Edge(d) # l
  BY Geometry
<1>3. \A m \in Nodes, e \in Dirs : held'[m][e] = IF m = n /\ e = d THEN <<>> ELSE held[m][e]
  BY <1>1 DEF TypeInv, TypeOK
<1>4. held[n][d][1] = f[l][d] /\ f[l][d] <= sent[d]
  BY <1>1 DEF Numbered, InHand
<1>5. \A m \in Nodes, e \in Dirs : (Sink(m, e) = l /\ e = d) <=> (m = n /\ e = d)
  BY Geometry
<1> HIDE DEF l
<1>6. wire[l][d] \in Seq(Nat) /\ held[n][d] \in Seq(Nat) /\ Len(held[n][d]) <= 1
  BY <1>2, TypeFacts
<1>7. wire' = [wire EXCEPT ![l][d] = Append(wire[l][d], f[l][d])] /\ Len(held[n][d]) = 1
  BY <1>1, <1>4, <1>6, Joined
<1>8. \A m \in Nodes, e \in Dirs : Shift(m, e)' = Shift(m, e) /\ Shift(m, e) \in Int
  BY <1>1, Sizes DEF Shift
<1>9. ASSUME NEW m \in Nodes, NEW e \in Dirs
      PROVE  /\ Ahead(m, e)' \in Int
             /\ Ahead(m, e)' = IF Sink(m, e) = l /\ e = d THEN Ahead(m, e) - 1 ELSE Ahead(m, e)
  <2>1. CASE m = n /\ e = d
    <3>1. Shift(n, d) = 0
      BY <1>1 DEF Awake, Shift
    <3>2. Ahead(n, d) = 1 + 0
      BY <1>7, <3>1 DEF Ahead
    <3>3. Ahead(n, d)' = 0 + 0
      BY <1>3, <1>8, <2>1, <3>1, Nothing DEF Ahead
    <3> QED
      BY <1>5, <2>1, <3>2, <3>3
  <2>2. CASE ~(m = n /\ e = d)
    <3>1. Ahead(m, e)' = Ahead(m, e)
      BY <1>3, <1>8, <2>2 DEF Ahead
    <3> QED
      BY <1>5, <2>2, <3>1, Sizes
  <2> QED
    BY <2>1, <2>2
<1>10. ASSUME NEW m \in Nodes, NEW e \in Dirs, held'[m][e] # <<>>
       PROVE  held'[m][e] = held[m][e] /\ ~(Sink(m, e) = l /\ e = d)
  BY <1>3, <1>5, <1>10
<1>11. \A e \in Dirs : sent'[e] = IF e = d /\ l = Edge(d) THEN sent[e] + 1 ELSE sent[e]
  BY <1>1, <1>2
<1>12. stage'[Socks] = "start" => stage[Socks] = "start" /\ ~(l = 1 /\ d = "up")
  <2>1. stage[n] # "start"
    BY <1>1 DEF Awake
  <2>2. l = 1 /\ d = "up" => n = Socks
    BY <1>5, Numbers, Geometry
  <2> QED
    BY <1>1, <2>1, <2>2
<1>13. f[l][d] <= sent'[d]
  BY <1>1, <1>4
<1>14. \A m \in Nodes, e \in Dirs :
         /\ pump'[m][e] # "ended" => pump[m][e] # "ended"
         /\ Ahead(m, e)' \in Int
         /\ Ahead(m, e)' = IF Sink(m, e) = l /\ e = d THEN Ahead(m, e) - 1 ELSE Ahead(m, e)
         /\ held'[m][e] # <<>> => held'[m][e] = held[m][e] /\ ~(Sink(m, e) = l /\ e = d)
  BY <1>1, <1>9, <1>10
<1>15. Len(wire[l][d]) < Window /\ UNCHANGED <<deaf, reset, got>>
  BY <1>1
<1>16. wire' = [wire EXCEPT ![l][d] = Append(wire[l][d], f[l][d])]
  BY <1>7
<1>17. \E g \in Numbering :
         /\ Numbered(g)'
         /\ \A k \in Links, e \in Dirs : k # l \/ e # d => g[k][e] = f[k][e]
  BY <1>2, <1>11, <1>12, <1>13, <1>14, <1>15, <1>16, PutStep
<1>18. ~Shut(l, d)'
  BY <1>1 DEF Shut
<1> QED
  BY <1>17, <1>18 DEF Fixed

LEMMA NumberedSend ==
  ASSUME TypeInv, NEW f \in Numbering, Numbered(f), NEW d \in Dirs, Send(d)
  PROVE  \E g \in Numbering : Numbered(g)' /\ Fixed(f, g)
<1> DEFINE l == Edge(d)
<1>1. /\ Len(wire[l][d]) < Window /\ ~Shut(l, d)
      /\ wire' = [wire EXCEPT ![l][d] = Append(wire[l][d], sent[d] + 1)]
      /\ sent' = [sent EXCEPT ![d] = sent[d] + 1]
      /\ UNCHANGED <<finished, deaf, reset, stage, pump, held, got>>
  BY DEF Send, Writable, Shut, nodeVars
<1>2. l \in Links /\ ~(l = 1 /\ d = "up")
  BY Numbers, Geometry
<1>3. f[l][d] = sent[d] + 1
  BY DEF Numbered, Limits
<1>4. \A m \in Nodes : Sink(m, d) # l
  BY Geometry
<1>5. \A e \in Dirs : sent'[e] = IF e = d /\ l = Edge(d) THEN sent[e] + 1 ELSE sent[e]
  BY <1>1, EndFacts
<1> HIDE DEF l
<1>6. \A m \in Nodes, e \in Dirs : Ahead(m, e)' = Ahead(m, e) /\ Ahead(m, e) \in Int
  BY <1>1, Sizes DEF Ahead, Shift
<1>7. f[l][d] <= sent'[d]
  <2>1. sent[d] + 1 \in Nat
    BY Sizes
  <2> QED
    BY <1>3, <1>5, <2>1 DEF l
<1>8. wire' = [wire EXCEPT ![l][d] = Append(wire[l][d], f[l][d])]
  BY <1>1, <1>3
<1>9. \A m \in Nodes, e \in Dirs : ~(Sink(m, e) = l /\ e = d)
  BY <1>4
<1>10. \A m \in Nodes, e \in Dirs :
        /\ Ahead(m, e)' \in Int
        /\ Ahead(m, e)' = IF Sink(m, e) = l /\ e = d THEN Ahead(m, e) - 1 ELSE Ahead(m, e)
  BY <1>6, <1>9
<1>11. \A m \in Nodes, e \in Dirs :
         /\ pump'[m][e] # "ended" => pump[m][e] # "ended"
         /\ Ahead(m, e)' \in Int
         /\ Ahead(m, e)' = IF Sink(m, e) = l /\ e = d THEN Ahead(m, e) - 1 ELSE Ahead(m, e)
         /\ held'[m][e] # <<>> => held'[m][e] = held[m][e] /\ ~(Sink(m, e) = l /\ e = d)
  BY <1>1, <1>9, <1>10
<1>12. Len(wire[l][d]) < Window /\ UNCHANGED <<deaf, reset, got>>
  BY <1>1
<1>13. stage'[Socks] = "start" => stage[Socks] = "start" /\ ~(l = 1 /\ d = "up")
  BY <1>1, <1>2
<1>14. \E g \in Numbering :
         /\ Numbered(g)'
         /\ \A k \in Links, e \in Dirs : k # l \/ e # d => g[k][e] = f[k][e]
  BY <1>2, <1>5, <1>7, <1>8, <1>11, <1>12, <1>13, PutStep
<1>15. ~Shut(l, d)'
  BY <1>1 DEF Shut
<1> QED
  BY <1>14, <1>15 DEF Fixed

LEMMA NumberedReceive ==
  ASSUME TypeInv, NEW f \in Numbering, Numbered(f), NEW d \in Dirs, Receive(d)
  PROVE  Numbered(f)'
<1> DEFINE l == Last(d)
<1>1. CASE sawEof' = sawEof \cup {d} /\ UNCHANGED <<linkVars, nodeVars, sent, got>>
  BY <1>1, QuietEnds
<1>2. CASE /\ Readable(l, d)
           /\ got' = [got EXCEPT ![d] = Append(@, Head(wire[l][d]))]
           /\ wire' = [wire EXCEPT ![l][d] = Tail(@)]
           /\ UNCHANGED <<opened, finished, deaf, reset, nodeVars, sent, sawEof>>
  <2>1. /\ wire[l][d] # <<>> /\ Intact(l, d)
        /\ UNCHANGED <<deaf, reset, stage, pump, held, sent>>
    BY <1>2 DEF Readable, Intact, nodeVars
  <2>2. l \in Links /\ \A m \in Nodes : Source(m, d) # l
    BY Geometry
  <2>3. \A m \in Nodes, e \in Dirs : Ahead(m, e)' = Ahead(m, e) /\ Ahead(m, e) \in Int
    BY <2>1, Sizes DEF Ahead, Shift
  <2>4. got'[d] = Append(got[d], Head(wire[l][d])) /\ \A e \in Dirs : e # d => got'[e] = got[e]
    BY <1>2, EndFacts
  <2>5. got[d] \in Seq(Nat) /\ Head(wire[l][d]) \in Nat
    <3>1. wire[l][d] \in Seq(Nat)
      BY <2>2, TypeFacts
    <3> QED
      BY <2>1, <3>1, Ends, TypeFacts
  <2>6. Count(d)' = Count(d) + 1 /\ \A e \in Dirs : e # d => Count(e)' = Count(e)
    BY <2>4, <2>5, Longer DEF Count
  <2>7. \A e \in Dirs : Count(e)' = IF Last(e) = l /\ e = d THEN Count(e) + 1 ELSE Count(e)
    BY <2>6
  <2> HIDE DEF l
  <2>8. \A m \in Nodes, e \in Dirs :
          /\ Ahead(m, e)' \in Int
          /\ Ahead(m, e)' = IF Source(m, e) = l /\ e = d THEN Ahead(m, e) + 1 ELSE Ahead(m, e)
    BY <2>2, <2>3
  <2> QED
    BY <1>2, <2>1, <2>2, <2>7, <2>8, TakeStep
<1> QED
  BY <1>1, <1>2 DEF Receive, Last

LEMMA NumberedKept ==
  ASSUME TypeInv, Awake, [Next]_vars, NEW f \in Numbering, Numbered(f)
  PROVE  \E g \in Numbering : Numbered(g)' /\ Fixed(f, g)
<1>0. Fixed(f, f)
  BY DEF Fixed
<1>1. ASSUME NEW n \in Nodes, NodeStep(n) PROVE \E g \in Numbering : Numbered(g)' /\ Fixed(f, g)
  <2>1. CASE SendTarget
    BY <2>1, NumberedSendTarget
  <2>2. CASE ReadTargetAddr
    BY <2>2, <1>0, NumberedReadTargetAddr
  <2>3. CASE \/ n = Socks /\ SendTargetFails
             \/ HandleFails(n)
             \/ DialNext(n)
             \/ BridgeEnds(n)
    BY <2>3, <1>0, QuietHandlers
  <2>4. ASSUME NEW d \in Dirs, CopyReads(n, d) PROVE \E g \in Numbering : Numbered(g)' /\ Fixed(f, g)
    BY <2>4, <1>0, NumberedCopyReads
  <2>5. ASSUME NEW d \in Dirs, CopyWrites(n, d) PROVE \E g \in Numbering : Numbered(g)' /\ Fixed(f, g)
    BY <2>5, NumberedCopyWrites
  <2>6. ASSUME NEW d \in Dirs, NEW r \in {"nil", "error"}, CopyReturns(n, d, r)
        PROVE  \E g \in Numbering : Numbered(g)' /\ Fixed(f, g)
    BY <2>6, <1>0, QuietReturns
  <2>7. (n = Exit /\ ReadTargetAddrFails) \/ DialNextFails(n) => HandleFails(n)
    BY FailsOnOpenLink
  <2> QED
    BY <1>1, <2>1, <2>2, <2>3, <2>4, <2>5, <2>6, <2>7 DEF NodeStep, Bridge
<1>2. ASSUME NEW l \in Links, Breaks(l) \/ \E d \in Dirs : LateData(l, d)
      PROVE  \E g \in Numbering : Numbered(g)' /\ Fixed(f, g)
  BY <1>2, <1>0, QuietLinks
<1>3. ASSUME NEW d \in Dirs, Send(d) PROVE \E g \in Numbering : Numbered(g)' /\ Fixed(f, g)
  BY <1>3, NumberedSend
<1>4. ASSUME NEW d \in Dirs, HalfCloses(d) \/ Closes(d) PROVE \E g \in Numbering : Numbered(g)' /\ Fixed(f, g)
  BY <1>4, <1>0, QuietEnds
<1>5. ASSUME NEW d \in Dirs, Receive(d) PROVE \E g \in Numbering : Numbered(g)' /\ Fixed(f, g)
  BY <1>5, <1>0, NumberedReceive
<1>6. CASE UNCHANGED vars
  BY <1>6, <1>0, QuietEnds
<1> QED
  BY <1>1, <1>2, <1>3, <1>4, <1>5, <1>6 DEF Next
-----------------------------------------------------------------------------
(* What an end has received.                                               *)

Arrived == \A d \in Dirs : Count(d) <= sent[d] /\ \A i \in 1 .. Count(d) : got[d][i] = i

TunnelInv == TypeInv /\ Awake /\ Arrived /\ \E f \in Numbering : Numbered(f)

(* The piece a link offers to the end that reads it is the next one.       *)
LEMMA NextPiece ==
  ASSUME TypeInv, NEW f \in Numbering, Numbered(f), NEW d \in Dirs, Readable(Last(d), d),
         wire' = [wire EXCEPT ![Last(d)][d] = Tail(@)]
  PROVE  Head(wire[Last(d)][d]) = Count(d) + 1 /\ Count(d) + 1 <= sent[d]
<1> DEFINE l == Last(d)
<1>1. l \in Links /\ Intact(l, d) /\ wire[l][d] # <<>>
  BY Geometry DEF Readable, Intact
<1>2. Head(wire[l][d]) = f[l][d] - Filled(l, d)
  BY <1>1, TakeRuns DEF Numbered
<1>3. Count(d) + 1 = f[l][d] - Filled(l, d)
  BY <1>1 DEF Numbered, Delivered
<1>4. f[l][d] <= sent[d] + 1
  BY <1>1 DEF Numbered, Limits
<1>5. Filled(l, d) > 0
  BY <1>1, TypeFacts, Ends DEF Filled
<1>6. f[l][d] \in Nat /\ Filled(l, d) \in Nat /\ Count(d) \in Nat /\ sent[d] \in Nat
  BY <1>1, Sizes, NumberingFacts
<1> HIDE DEF l
<1>7. f[l][d] - Filled(l, d) <= sent[d]
  BY <1>4, <1>5, <1>6
<1>8. Count(d) + 1 <= sent[d]
  BY <1>3, <1>7
<1>9. Head(wire[l][d]) = Count(d) + 1
  BY <1>2, <1>3
<1> QED
  BY <1>8, <1>9 DEF l

LEMMA ArrivedKept ==
  ASSUME TunnelInv, [Next]_vars
  PROVE  Arrived'
<1>1. \A d \in Dirs : Count(d) \in Nat /\ sent[d] \in Nat
  BY Sizes DEF TunnelInv
<1>2. CASE UNCHANGED <<sent, got>>
  BY <1>2 DEF TunnelInv, Arrived, Count
<1>3. ASSUME NEW d \in Dirs, Send(d) PROVE Arrived'
  <2>1. UNCHANGED got /\ sent' = [sent EXCEPT ![d] = sent[d] + 1]
    BY <1>3 DEF Send
  <2>2. \A e \in Dirs : sent'[e] = sent[e] \/ sent'[e] = sent[e] + 1
    BY <2>1, EndFacts DEF TunnelInv
  <2>3. \A e \in Dirs : Count(e)' = Count(e) /\ got'[e] = got[e]
    BY <2>1 DEF Count
  <2>4. \A a, b, c \in Nat : a <= b /\ (c = b \/ c = b + 1) => a <= c
    OBVIOUS
  <2>5. \A e \in Dirs : Count(e)' <= sent'[e]
    BY <1>1, <2>2, <2>3, <2>4 DEF TunnelInv, Arrived
  <2> QED
    BY <2>3, <2>5 DEF TunnelInv, Arrived
<1>4. ASSUME NEW d \in Dirs, Receive(d) PROVE Arrived'
  <2> DEFINE l == Last(d)
             x == Head(wire[l][d])
  <2>1. CASE UNCHANGED <<sent, got>>
    BY <1>2, <2>1
  <2>2. CASE /\ Readable(l, d)
             /\ got' = [got EXCEPT ![d] = Append(@, x)]
             /\ wire' = [wire EXCEPT ![l][d] = Tail(@)]
             /\ UNCHANGED sent
    <3>1. x = Count(d) + 1 /\ Count(d) + 1 <= sent[d]
      BY <2>2, NextPiece DEF TunnelInv
    <3>2. got \in [Dirs -> Seq(Nat)] /\ got[d] \in Seq(Nat)
      BY DEF TunnelInv, TypeInv, TypeOK
    <3>3. got'[d] = Append(got[d], x) /\ \A e \in Dirs : e # d => got'[e] = got[e]
      BY <2>2, <3>2
    <3> HIDE DEF x, l
    <3>4. x \in Nat
      BY <1>1, <3>1
    <3>5. /\ Count(d)' = Count(d) + 1
          /\ got'[d][Count(d) + 1] = Count(d) + 1
          /\ \A i \in 1 .. Count(d) : got'[d][i] = got[d][i]
      BY <3>1, <3>2, <3>3, <3>4, Longer DEF Count
    <3>6. \A i \in 1 .. Count(d) + 1 : i \in 1 .. Count(d) \/ i = Count(d) + 1
      BY <1>1
    <3>7. \A i \in 1 .. Count(d)' : got'[d][i] = i
      BY <3>5, <3>6 DEF TunnelInv, Arrived
    <3>8. \A e \in Dirs : e # d => Count(e)' = Count(e)
      BY <3>3 DEF Count
    <3>9. sent' = sent
      BY <2>2
    <3> QED
      BY <3>1, <3>3, <3>5, <3>7, <3>8, <3>9 DEF TunnelInv, Arrived
  <2> QED
    BY <1>4, <2>1, <2>2 DEF Receive, Last
<1>5. ASSUME NEW n \in Nodes, NodeStep(n) PROVE UNCHANGED <<sent, got>>
  <2>1. UNCHANGED endVars
    BY <1>5 DEF NodeStep, SendTarget, SendTargetFails, ReadTargetAddr, ReadTargetAddrFails, HandleFails,
       DialNext, DialNextFails, Bridge, CopyReads, CopyWrites, CopyReturns, BridgeEnds, CloseLinks
  <2> QED
    BY <2>1 DEF endVars
<1>6. ASSUME NEW l \in Links, Breaks(l) \/ \E d \in Dirs : LateData(l, d) PROVE UNCHANGED <<sent, got>>
  BY <1>6 DEF Breaks, LateData, endVars
<1>7. ASSUME NEW d \in Dirs, HalfCloses(d) \/ Closes(d) PROVE UNCHANGED <<sent, got>>
  BY <1>7 DEF HalfCloses, Closes, endVars
<1>8. CASE UNCHANGED vars
  BY <1>2, <1>8 DEF vars, endVars
<1> QED
  BY <1>2, <1>3, <1>4, <1>5, <1>6, <1>7, <1>8 DEF Next

LEMMA ArrivedInit == Init => Arrived
<1> SUFFICES ASSUME Init PROVE Arrived
  OBVIOUS
<1>1. \A d \in Dirs : Count(d) = 0 /\ sent[d] = 0
  BY Nothing DEF Init, Count
<1> QED
  BY <1>1 DEF Arrived

LEMMA TunnelSound == Spec => []TunnelInv
<1>1. Init => TunnelInv
  BY InitTypes, AwakeInit, ArrivedInit, NumberedInit DEF TunnelInv
<1>2. TunnelInv /\ [Next]_vars => TunnelInv'
  <2> SUFFICES ASSUME TunnelInv, [Next]_vars PROVE TunnelInv'
    OBVIOUS
  <2>1. TypeInv' /\ Awake' /\ Arrived'
    BY TypesKept, AwakeKept, ArrivedKept DEF TunnelInv
  <2>2. PICK f \in Numbering : Numbered(f)
    BY DEF TunnelInv
  <2>3. \E g \in Numbering : Numbered(g)'
    BY <2>2, NumberedKept DEF TunnelInv
  <2>4. (\E g \in Numbering : Numbered(g))'
    BY <2>3 DEF Numbering
  <2> QED
    BY <2>1, <2>4 DEF TunnelInv
<1> QED
  BY <1>1, <1>2, PTL DEF Spec

(* Whatever the number of hops, the pieces sent, the size of the links and *)
(* the breaks, an end receives exactly the first pieces the other end      *)
(* sent: no node drops, repeats or swaps data, and the address frame stays *)
(* between the SOCKS5 node and the exit node.                              *)
THEOREM PayloadCorrect == Spec => []PayloadInOrder
<1>1. TunnelInv => PayloadInOrder
  <2> SUFFICES ASSUME TunnelInv, NEW d \in Dirs
               PROVE  /\ Len(got[d]) <= sent[d]
                      /\ \A i \in DOMAIN got[d] : got[d][i] = i
    BY DEF PayloadInOrder
  <2>1. got[d] \in Seq(Nat)
    BY DEF TunnelInv, TypeInv, TypeOK
  <2>2. DOMAIN got[d] = 1 .. Count(d)
    BY <2>1, Ends DEF Count
  <2> QED
    BY <2>2 DEF TunnelInv, Arrived, Count
<1> QED
  BY <1>1, TunnelSound, PTL
-----------------------------------------------------------------------------
(* Which sides are closed, and why, while no link was reset.               *)

Listening(d) == ~Shut(Last(d), Opposite(d))

(* A node shuts what it writes when a copying goroutine ends or its        *)
(* handler returns, and stops reading only then; a bridge ends because of  *)
(* a copying goroutine; an end that stops reading has stopped writing.     *)
Closing ==
  /\ \A n \in Nodes, d \in Dirs :
       /\ stage[n] = "returned" \/ pump[n][d] = "ended" => Shut(Sink(n, d), d)
       /\ Shut(Sink(n, d), d) => stage[n] = "returned" \/ pump[n][d] = "ended"
       /\ ~Intact(Source(n, d), d) => stage[n] = "returned"
  /\ \A n \in Nodes : done[n] # "nothing" => \E d \in Dirs : pump[n][d] = "ended"
  /\ \A d \in Dirs : ~Intact(Last(d), d) => Shut(Last(d), Opposite(d))

(* A direction whose receiver has not stopped sending is the first to end, *)
(* everywhere and in full: what a node writes is shut only when all it     *)
(* reads has come, and before what it writes the other way.                *)
Drained(f, d) ==
  /\ \A n \in Nodes :
       /\ Shut(Sink(n, d), d) =>
            Shut(Source(n, d), d) /\ wire[Source(n, d)][d] = <<>> /\ held[n][d] = <<>>
       /\ Shut(Sink(n, Opposite(d)), Opposite(d)) => Shut(Sink(n, d), d)
  /\ \A l \in Links : Shut(l, d) => f[l][d] = sent[d] + 1 /\ Shut(Edge(d), d)
  /\ d \in sawEof => Shut(Edge(d), d) /\ Count(d) = sent[d]

Draining(f) == \A d \in Dirs : Listening(d) => Drained(f, d)

LEMMA Ways ==
  /\ \A d \in Dirs : /\ Opposite(d) \in Dirs /\ Opposite(Opposite(d)) = d
                     /\ Last(Opposite(d)) = Edge(d) /\ Edge(Opposite(d)) = Last(d)
  /\ \A n \in Nodes, d \in Dirs : Source(n, d) = Sink(n, Opposite(d))
  /\ \A d, e \in Dirs : e = d \/ e = Opposite(d)
  /\ \A l \in Links, d \in Dirs : l # Edge(d) => \E m \in Nodes : Sink(m, d) = l
<1>1. ASSUME NEW l \in Links, NEW d \in Dirs, l # Edge(d) PROVE \E m \in Nodes : Sink(m, d) = l
  <2>1. CASE d = "up"
    <3>1. l \in Nodes
      BY <1>1, <2>1, TunnelAssumption DEF Nodes, Links, Edge, Socks, Exit
    <3> QED
      BY <2>1, <3>1 DEF Sink
  <2>2. CASE d = "down"
    <3>1. l + 1 \in Nodes /\ (l + 1) - 1 = l
      BY <1>1, <2>2, TunnelAssumption DEF Nodes, Links, Edge, Socks, Exit
    <3> QED
      BY <2>2, <3>1 DEF Sink
  <2> QED
    BY <2>1, <2>2 DEF Dirs
<1> QED
  BY <1>1 DEF Dirs, Opposite, Last, Edge, Sink, Source

(* What a handler that returns closes, in the terms of its node.           *)
LEMMA ClosedSides ==
  ASSUME NEW n \in Nodes, CloseBoth(n)
  PROVE  /\ \A l \in Links, e \in Dirs : Shut(l, e)' <=> Shut(l, e) \/ l = Sink(n, e)
         /\ \A l \in Links, e \in Dirs : <<l, e>> \in deaf' <=> <<l, e>> \in deaf \/ l = Source(n, e)
<1>1. ASSUME NEW l \in Links, NEW e \in Dirs
      PROVE  /\ Shut(l, e)' <=> Shut(l, e) \/ l = Sink(n, e)
             /\ <<l, e>> \in deaf' <=> <<l, e>> \in deaf \/ l = Source(n, e)
  <2>1. CASE e = "up"
    BY <2>1 DEF CloseBoth, Shut, Sink, Source
  <2>2. CASE e = "down"
    BY <2>2 DEF CloseBoth, Shut, Sink, Source
  <2> QED
    BY <2>1, <2>2 DEF Dirs
<1> QED
  BY <1>1

(* No step takes a reset back, so that there was none before.              *)
LEMMA NoResetBefore ==
  ASSUME [Next]_vars, reset' = {}
  PROVE  reset = {}
<1>1. ASSUME NEW n \in Nodes, NodeStep(n) PROVE reset \subseteq reset'
  BY <1>1 DEF NodeStep, SendTarget, SendTargetFails, ReadTargetAddr, ReadTargetAddrFails, HandleFails,
     DialNext, DialNextFails, Bridge, CopyReads, CopyWrites, CopyReturns, BridgeEnds, CloseLinks, ResetLink
<1>2. ASSUME NEW l \in Links, Breaks(l) \/ \E d \in Dirs : LateData(l, d) PROVE reset \subseteq reset'
  BY <1>2 DEF Breaks, LateData, ResetLink
<1>3. ASSUME NEW d \in Dirs, Send(d) \/ HalfCloses(d) \/ Closes(d) \/ Receive(d) PROVE UNCHANGED reset
  BY <1>3 DEF Send, HalfCloses, Closes, Receive, linkVars
<1>4. CASE UNCHANGED vars
  BY <1>4 DEF vars, linkVars
<1> QED
  BY <1>1, <1>2, <1>3, <1>4 DEF Next

(* The steps that reset nothing and are possible without a reset.          *)
Moves(n) ==
  \/ n = Socks /\ SendTarget
  \/ n = Exit /\ ReadTargetAddr
  \/ DialNext(n)

LEMMA Steps ==
  ASSUME TypeInv, Awake, Closing, [Next]_vars, reset' = {}
  PROVE  \/ \E n \in Nodes : Moves(n)
         \/ \E n \in Nodes, d \in Dirs : CopyReads(n, d) \/ CopyWrites(n, d)
         \/ \E n \in Nodes, d \in Dirs, r \in {"nil", "error"} : CopyReturns(n, d, r)
         \/ \E n \in Nodes : BridgeEnds(n) /\ UNCHANGED wire
         \/ \E l \in Links, d \in Dirs : LateData(l, d) /\ wire' = [wire EXCEPT ![l][d] = <<>>]
         \/ \E d \in Dirs : Send(d) \/ HalfCloses(d) \/ Closes(d) \/ Receive(d)
         \/ UNCHANGED vars
<1>1. reset = {}
  BY NoResetBefore
<1>2. \A l \in Links : ~ResetLink(l)
  BY DEF ResetLink
<1>3. \A n \in Nodes : ~HandleFails(n)
  BY <1>2, Numbers DEF HandleFails
<1>4. ~SendTargetFails
  <2> SUFFICES ASSUME SendTargetFails PROVE FALSE
    OBVIOUS
  <2>1. stage[Socks] = "start" /\ Shut(1, "up")
    BY <1>1 DEF SendTargetFails, Enters, WriteFails, Shut
  <2>2. stage[Socks] = "returned" \/ pump[Socks]["up"] = "ended"
    BY <2>1, Numbers, Geometry DEF Closing
  <2>3. pump[Socks]["up"] = "idle"
    BY <2>1, Numbers DEF Awake
  <2> QED
    BY <2>1, <2>2, <2>3
<1>5. \A l \in Links : ~Breaks(l)
  BY <1>2 DEF Breaks
<1>6. \A l \in Links, d \in Dirs : LateData(l, d) => wire' = [wire EXCEPT ![l][d] = <<>>]
  BY <1>2 DEF LateData
<1>7. ASSUME NEW n \in Nodes, BridgeEnds(n) PROVE UNCHANGED wire
  BY <1>2, <1>7, Numbers DEF BridgeEnds, CloseLinks
<1>8. ASSUME NEW n \in Nodes, NodeStep(n)
      PROVE  \/ Moves(n)
             \/ \E d \in Dirs : CopyReads(n, d) \/ CopyWrites(n, d)
             \/ \E d \in Dirs, r \in {"nil", "error"} : CopyReturns(n, d, r)
             \/ BridgeEnds(n) /\ UNCHANGED wire
  BY <1>3, <1>4, <1>7, <1>8 DEF NodeStep, Moves, ReadTargetAddrFails, DialNextFails, Bridge
<1> QED
  BY <1>5, <1>6, <1>8 DEF Next
-----------------------------------------------------------------------------
(* Closing is kept.                                                        *)

LEMMA ClosingSame ==
  ASSUME Closing, \A l \in Links, d \in Dirs : (Shut(l, d)' <=> Shut(l, d)) /\ (Intact(l, d)' <=> Intact(l, d)),
         \A n \in Nodes : (stage'[n] = "returned" <=> stage[n] = "returned") /\ done'[n] = done[n],
         \A n \in Nodes, d \in Dirs : pump'[n][d] = "ended" <=> pump[n][d] = "ended"
  PROVE  Closing'
<1>1. \A n \in Nodes, d \in Dirs :
        /\ stage'[n] = "returned" \/ pump'[n][d] = "ended" => Shut(Sink(n, d), d)'
        /\ Shut(Sink(n, d), d)' => stage'[n] = "returned" \/ pump'[n][d] = "ended"
        /\ ~Intact(Source(n, d), d)' => stage'[n] = "returned"
  BY Geometry DEF Closing
<1>2. \A n \in Nodes : done'[n] # "nothing" => \E d \in Dirs : pump'[n][d] = "ended"
  BY DEF Closing
<1>3. \A d \in Dirs : ~Intact(Last(d), d)' => Shut(Last(d), Opposite(d))'
  BY Geometry, Ways DEF Closing
<1> QED
  BY <1>1, <1>2, <1>3 DEF Closing

LEMMA ClosingMoves ==
  ASSUME TypeInv, Awake, Closing, NEW n \in Nodes, Moves(n)
  PROVE  Closing'
<1>1. /\ UNCHANGED <<finished, deaf, reset, done>>
      /\ stage[n] \in {"start", "dial"}
      /\ \E s \in {"dial", "bridge"} : stage' = [stage EXCEPT ![n] = s]
      /\ UNCHANGED pump \/ pump' = [pump EXCEPT ![n] = [d \in Dirs |-> "copy"]]
  BY DEF Moves, SendTarget, ReadTargetAddr, DialNext, Dialling, Enters, StartPumps
<1>2. /\ stage \in [Nodes -> {"start", "dial", "bridge", "returned"}]
      /\ pump \in [Nodes -> [Dirs -> {"idle", "copy", "ended"}]]
  BY DEF TypeInv, TypeOK
<1>3. \A m \in Nodes : stage'[m] = "returned" <=> stage[m] = "returned"
  BY <1>1, <1>2
<1>4. \A d \in Dirs : pump[n][d] = "idle"
  BY <1>1 DEF Awake
<1>5. \A m \in Nodes, d \in Dirs : pump'[m][d] = "ended" <=> pump[m][d] = "ended"
  BY <1>1, <1>2, <1>4
<1>6. \A l \in Links, d \in Dirs : (Shut(l, d)' <=> Shut(l, d)) /\ (Intact(l, d)' <=> Intact(l, d))
  BY <1>1 DEF Shut, Intact
<1> QED
  BY <1>1, <1>3, <1>5, <1>6, ClosingSame

LEMMA ClosingReturns ==
  ASSUME TypeInv, Closing, NEW n \in Nodes, NEW d \in Dirs, NEW r \in {"nil", "error"},
         CopyReturns(n, d, r)
  PROVE  Closing'
<1>1. /\ UNCHANGED <<deaf, reset, stage>>
      /\ \A l \in Links, e \in Dirs : Shut(l, e)' <=> Shut(l, e) \/ (l = Sink(n, d) /\ e = d)
  BY DEF CopyReturns, Shut
<1>2. /\ pump \in [Nodes -> [Dirs -> {"idle", "copy", "ended"}]]
      /\ done \in [Nodes -> {"nothing", "nil", "error"}]
  BY DEF TypeInv, TypeOK
<1>3. \A m \in Nodes, e \in Dirs : pump'[m][e] = IF m = n /\ e = d THEN "ended" ELSE pump[m][e]
  BY <1>2 DEF CopyReturns
<1>4. \A m \in Nodes : m # n => done'[m] = done[m]
  BY <1>2 DEF CopyReturns
<1>5. \A l \in Links, e \in Dirs : Intact(l, e)' <=> Intact(l, e)
  BY <1>1 DEF Intact
<1>6. \A m \in Nodes, e \in Dirs :
        /\ Shut(Sink(m, e), e)' <=> Shut(Sink(m, e), e) \/ (m = n /\ e = d)
        /\ Intact(Source(m, e), e)' <=> Intact(Source(m, e), e)
  BY <1>1, <1>5, Geometry
<1>7. \A m \in Nodes, e \in Dirs :
        /\ stage'[m] = "returned" \/ pump'[m][e] = "ended" => Shut(Sink(m, e), e)'
        /\ Shut(Sink(m, e), e)' => stage'[m] = "returned" \/ pump'[m][e] = "ended"
        /\ ~Intact(Source(m, e), e)' => stage'[m] = "returned"
  BY <1>1, <1>3, <1>6 DEF Closing
<1>8. \A m \in Nodes : done'[m] # "nothing" => \E e \in Dirs : pump'[m][e] = "ended"
  BY <1>3, <1>4 DEF Closing
<1>9. \A e \in Dirs : ~Intact(Last(e), e)' => Shut(Last(e), Opposite(e))'
  BY <1>1, <1>5, Geometry, Ways DEF Closing
<1> QED
  BY <1>7, <1>8, <1>9 DEF Closing

LEMMA ClosingBridge ==
  ASSUME TypeInv, Closing, NEW n \in Nodes, BridgeEnds(n), reset = {}, reset' = {}
  PROVE  Closing'
<1>1. CloseBoth(n) /\ UNCHANGED <<pump, done>> /\ stage' = [stage EXCEPT ![n] = "returned"]
  BY DEF BridgeEnds, CloseLinks, Enters
<1>2. \A m \in Nodes : stage'[m] = IF m = n THEN "returned" ELSE stage[m]
  BY <1>1 DEF TypeInv, TypeOK
<1>3. \A l \in Links, e \in Dirs :
        /\ Shut(l, e)' <=> Shut(l, e) \/ l = Sink(n, e)
        /\ ~Intact(l, e)' <=> ~Intact(l, e) \/ l = Source(n, e)
  BY <1>1, ClosedSides DEF Intact
<1>4. \A m \in Nodes, e \in Dirs :
        /\ Shut(Sink(m, e), e)' <=> Shut(Sink(m, e), e) \/ m = n
        /\ ~Intact(Source(m, e), e)' <=> ~Intact(Source(m, e), e) \/ m = n
  BY <1>3, Geometry
<1>5. \A m \in Nodes, e \in Dirs :
        /\ stage'[m] = "returned" \/ pump'[m][e] = "ended" => Shut(Sink(m, e), e)'
        /\ Shut(Sink(m, e), e)' => stage'[m] = "returned" \/ pump'[m][e] = "ended"
        /\ ~Intact(Source(m, e), e)' => stage'[m] = "returned"
  BY <1>1, <1>2, <1>4 DEF Closing
<1>6. \A m \in Nodes : done'[m] # "nothing" => \E e \in Dirs : pump'[m][e] = "ended"
  BY <1>1 DEF Closing
<1>7. \A e \in Dirs : ~Intact(Last(e), e)' => Shut(Last(e), Opposite(e))'
  BY <1>3, Geometry, Ways DEF Closing
<1> QED
  BY <1>5, <1>6, <1>7 DEF Closing

LEMMA ClosingEnds ==
  ASSUME TypeInv, Closing, NEW d \in Dirs, HalfCloses(d) \/ Closes(d), reset = {}
  PROVE  Closing'
<1>1. UNCHANGED <<reset, stage, pump, done>>
  BY DEF HalfCloses, Closes, nodeVars
<1>2. \A l \in Links, e \in Dirs :
        /\ Shut(l, e)' <=> Shut(l, e) \/ (l = Edge(d) /\ e = d)
        /\ ~Intact(l, e)' => ~Intact(l, e) \/ (l = Edge(d) /\ e = Opposite(d))
  BY <1>1 DEF HalfCloses, Closes, CloseSide, Shut, Intact
<1>3. \A m \in Nodes, e \in Dirs :
        /\ Shut(Sink(m, e), e)' <=> Shut(Sink(m, e), e)
        /\ ~Intact(Source(m, e), e)' => ~Intact(Source(m, e), e)
  BY <1>2, Geometry, Ways
<1>4. \A m \in Nodes, e \in Dirs :
        /\ stage'[m] = "returned" \/ pump'[m][e] = "ended" => Shut(Sink(m, e), e)'
        /\ Shut(Sink(m, e), e)' => stage'[m] = "returned" \/ pump'[m][e] = "ended"
        /\ ~Intact(Source(m, e), e)' => stage'[m] = "returned"
  BY <1>1, <1>3 DEF Closing
<1>5. \A m \in Nodes : done'[m] # "nothing" => \E e \in Dirs : pump'[m][e] = "ended"
  BY <1>1 DEF Closing
<1>6. ASSUME NEW e \in Dirs, ~Intact(Last(e), e)' PROVE Shut(Last(e), Opposite(e))'
  <2>1. Last(e) \in Links /\ Opposite(e) \in Dirs
    BY Geometry, Ways
  <2>2. CASE ~Intact(Last(e), e)
    BY <1>2, <2>1, <2>2 DEF Closing
  <2>3. CASE Last(e) = Edge(d) /\ e = Opposite(d)
    <3>1. Opposite(e) = d
      BY <2>3, Ways
    <3> QED
      BY <1>2, <2>1, <2>3, <3>1
  <2> QED
    BY <1>2, <1>6, <2>1, <2>2, <2>3
<1> QED
  BY <1>4, <1>5, <1>6 DEF Closing

LEMMA ClosingKept ==
  ASSUME TypeInv, Awake, Closing, [Next]_vars, reset' = {}
  PROVE  Closing'
<1>0. reset = {}
  BY NoResetBefore
<1>1. CASE UNCHANGED <<finished, deaf, reset, stage, pump, done>>
  BY <1>1, ClosingSame DEF Shut, Intact
<1>2. ASSUME NEW n \in Nodes, NEW d \in Dirs, CopyReads(n, d) \/ CopyWrites(n, d) PROVE Closing'
  BY <1>1, <1>2 DEF CopyReads, CopyWrites
<1>3. ASSUME NEW l \in Links, NEW d \in Dirs, LateData(l, d) PROVE Closing'
  BY <1>0, <1>1, <1>3 DEF LateData, nodeVars
<1>4. ASSUME NEW d \in Dirs, Send(d) \/ Receive(d) PROVE Closing'
  BY <1>1, <1>4 DEF Send, Receive, nodeVars, linkVars
<1>5. CASE UNCHANGED vars
  BY <1>1, <1>5 DEF vars, nodeVars, linkVars
<1> QED
  BY <1>0, <1>2, <1>3, <1>4, <1>5, Steps, ClosingMoves, ClosingReturns, ClosingBridge, ClosingEnds
-----------------------------------------------------------------------------
(* Draining is kept.                                                       *)

LEMMA DrainedKept ==
  ASSUME NEW f \in Numbering, NEW g \in Numbering, Fixed(f, g), NEW d \in Dirs, Drained(f, d),
         \A l \in Links : Shut(l, d) => Shut(l, d)',
         \A l \in Links : Shut(l, d)' =>
           \/ Shut(l, d)
           \/ /\ f[l][d] = sent[d] + 1 /\ Shut(Edge(d), d)'
              /\ \A n \in Nodes : Sink(n, d) = l =>
                   Shut(Source(n, d), d) /\ wire[Source(n, d)][d] = <<>> /\ held[n][d] = <<>>,
         \A n \in Nodes : Shut(Sink(n, Opposite(d)), Opposite(d))' => Shut(Sink(n, d), d),
         \A n \in Nodes : Shut(Source(n, d), d) /\ wire[Source(n, d)][d] = <<>> /\ held[n][d] = <<>> =>
           wire'[Source(n, d)][d] = <<>> /\ held'[n][d] = <<>>,
         Shut(Edge(d), d)' => sent'[d] = sent[d],
         d \in sawEof' => Shut(Edge(d), d) /\ Count(d)' = sent[d]
  PROVE  Drained(g, d)'
<1>1. Edge(d) \in Links /\ Opposite(d) \in Dirs
      /\ \A n \in Nodes : Sink(n, d) \in Links /\ Source(n, d) \in Links
  BY Geometry, Ways
<1>2. ASSUME NEW n \in Nodes, Shut(Sink(n, d), d)'
      PROVE  Shut(Source(n, d), d)' /\ wire'[Source(n, d)][d] = <<>> /\ held'[n][d] = <<>>
  <2>1. Shut(Source(n, d), d) /\ wire[Source(n, d)][d] = <<>> /\ held[n][d] = <<>>
    <3>1. CASE Shut(Sink(n, d), d)
      BY <3>1 DEF Drained
    <3>2. CASE ~Shut(Sink(n, d), d)
      BY <1>1, <1>2, <3>2
    <3> QED
      BY <3>1, <3>2
  <2> QED
    BY <1>1, <2>1
<1>3. ASSUME NEW n \in Nodes, Shut(Sink(n, Opposite(d)), Opposite(d))' PROVE Shut(Sink(n, d), d)'
  BY <1>1, <1>3
<1>4. ASSUME NEW l \in Links, Shut(l, d)' PROVE g[l][d] = sent'[d] + 1 /\ Shut(Edge(d), d)'
  <2>1. f[l][d] = sent[d] + 1 /\ Shut(Edge(d), d)'
    BY <1>1, <1>4 DEF Drained
  <2>2. g[l][d] = f[l][d]
    BY <1>4 DEF Fixed
  <2>3. sent'[d] = sent[d]
    BY <2>1
  <2> QED
    BY <2>1, <2>2, <2>3
<1>5. ASSUME d \in sawEof' PROVE Shut(Edge(d), d)' /\ Count(d)' = sent'[d]
  <2>1. Shut(Edge(d), d) /\ Count(d)' = sent[d]
    BY <1>5
  <2>2. Shut(Edge(d), d)'
    BY <1>1, <2>1
  <2> QED
    BY <2>1, <2>2
<1> QED
  BY <1>2, <1>3, <1>4, <1>5 DEF Drained

(* Steps that close nothing.                                               *)
LEMMA DrainedOpen ==
  ASSUME NEW f \in Numbering, NEW g \in Numbering, Fixed(f, g), NEW d \in Dirs, Drained(f, d),
         UNCHANGED finished,
         \A n \in Nodes : Shut(Source(n, d), d) /\ wire[Source(n, d)][d] = <<>> /\ held[n][d] = <<>> =>
           wire'[Source(n, d)][d] = <<>> /\ held'[n][d] = <<>>,
         Shut(Edge(d), d) => sent'[d] = sent[d],
         d \in sawEof' => Shut(Edge(d), d) /\ Count(d)' = sent[d]
  PROVE  Drained(g, d)'
<1>1. \A l \in Links, e \in Dirs : Shut(l, e)' <=> Shut(l, e)
  BY DEF Shut
<1>2. Edge(d) \in Links /\ Opposite(d) \in Dirs /\ \A n \in Nodes : Sink(n, Opposite(d)) \in Links
  BY Geometry, Ways
<1>3. \A n \in Nodes : Shut(Sink(n, Opposite(d)), Opposite(d))' => Shut(Sink(n, d), d)
  BY <1>1, <1>2 DEF Drained
<1>4. \A l \in Links : Shut(l, d) => Shut(l, d)'
  BY <1>1
<1>5. \A l \in Links : Shut(l, d)' =>
        \/ Shut(l, d)
        \/ /\ f[l][d] = sent[d] + 1 /\ Shut(Edge(d), d)'
           /\ \A n \in Nodes : Sink(n, d) = l =>
                Shut(Source(n, d), d) /\ wire[Source(n, d)][d] = <<>> /\ held[n][d] = <<>>
  BY <1>1
<1>6. Shut(Edge(d), d)' => sent'[d] = sent[d]
  BY <1>1, <1>2
<1> QED
  BY <1>3, <1>4, <1>5, <1>6, DrainedKept

(* What a piece put on an open link, one taken off or all of them lost do  *)
(* to the links that are empty and shut.                                   *)
LEMMA EmptyStays ==
  ASSUME TypeInv, NEW l \in Links, NEW d \in Dirs, NEW v, wire' = [wire EXCEPT ![l][d] = v],
         ~Shut(l, d) \/ wire[l][d] # <<>> \/ v = <<>>
  PROVE  \A k \in Links, e \in Dirs : Shut(k, e) /\ wire[k][e] = <<>> => wire'[k][e] = <<>>
<1>1. wire \in [Links -> [Dirs -> Seq(Nat)]]
  BY DEF TypeInv, TypeOK
<1>2. \A k \in Links, e \in Dirs : wire'[k][e] = IF k = l /\ e = d THEN v ELSE wire[k][e]
  BY <1>1
<1> QED
  BY <1>2

LEMMA DrainedNodes ==
  ASSUME TypeInv, NEW f \in Numbering, NEW g \in Numbering, Fixed(f, g), NEW d \in Dirs, Drained(f, d),
         \/ \E n \in Nodes : Moves(n)
         \/ \E n \in Nodes, e \in Dirs : CopyReads(n, e) \/ CopyWrites(n, e)
         \/ \E l \in Links, e \in Dirs : LateData(l, e) /\ wire' = [wire EXCEPT ![l][e] = <<>>]
         \/ UNCHANGED vars
  PROVE  Drained(g, d)'
<1>1. UNCHANGED <<finished, sent, got, sawEof>>
  BY DEF Moves, SendTarget, ReadTargetAddr, DialNext, CopyReads, CopyWrites, LateData, vars, linkVars, endVars
<1>2. \A k \in Links, e \in Dirs : Shut(k, e) /\ wire[k][e] = <<>> => wire'[k][e] = <<>>
  <2>1. CASE UNCHANGED wire
    BY <2>1
  <2>2. CASE SendTarget
    BY <2>2, Numbers, EmptyStays DEF SendTarget, Writable, Shut
  <2>3. CASE ReadTargetAddr
    BY <2>3, Numbers, EmptyStays DEF ReadTargetAddr, Readable
  <2>4. ASSUME NEW n \in Nodes, NEW e \in Dirs, CopyReads(n, e)
        PROVE  \A k \in Links, c \in Dirs : Shut(k, c) /\ wire[k][c] = <<>> => wire'[k][c] = <<>>
    BY <2>4, Numbers, EmptyStays DEF CopyReads, Readable
  <2>5. ASSUME NEW n \in Nodes, NEW e \in Dirs, CopyWrites(n, e)
        PROVE  \A k \in Links, c \in Dirs : Shut(k, c) /\ wire[k][c] = <<>> => wire'[k][c] = <<>>
    BY <2>5, Numbers, EmptyStays DEF CopyWrites, Writable, Shut
  <2>6. ASSUME NEW l \in Links, NEW e \in Dirs, wire' = [wire EXCEPT ![l][e] = <<>>]
        PROVE  \A k \in Links, c \in Dirs : Shut(k, c) /\ wire[k][c] = <<>> => wire'[k][c] = <<>>
    BY <2>6, EmptyStays
  <2> QED
    BY <2>1, <2>2, <2>3, <2>4, <2>5, <2>6 DEF Moves, DialNext, vars, linkVars
<1>3. ASSUME NEW n \in Nodes, wire[Source(n, d)][d] = <<>>, held[n][d] = <<>>
      PROVE  held'[n][d] = <<>>
  <2>1. CASE UNCHANGED held
    BY <1>3, <2>1
  <2>2. ASSUME NEW m \in Nodes, NEW e \in Dirs, CopyReads(m, e) PROVE held'[n][d] = <<>>
    <3>1. m # n \/ e # d
      BY <1>3, <2>2 DEF CopyReads, Readable
    <3>2. held \in [Nodes -> [Dirs -> Seq(Nat)]]
      BY DEF TypeInv, TypeOK
    <3> QED
      BY <1>3, <2>2, <3>1, <3>2 DEF CopyReads
  <2>3. ASSUME NEW m \in Nodes, NEW e \in Dirs, CopyWrites(m, e) PROVE held'[n][d] = <<>>
    <3>1. held \in [Nodes -> [Dirs -> Seq(Nat)]]
      BY DEF TypeInv, TypeOK
    <3> QED
      BY <1>3, <2>3, <3>1 DEF CopyWrites
  <2> QED
    BY <2>1, <2>2, <2>3 DEF Moves, SendTarget, ReadTargetAddr, DialNext, LateData, vars, nodeVars
<1>4. \A n \in Nodes : Source(n, d) \in Links
  BY Geometry
<1>5. \A n \in Nodes : Shut(Source(n, d), d) /\ wire[Source(n, d)][d] = <<>> /\ held[n][d] = <<>> =>
        wire'[Source(n, d)][d] = <<>> /\ held'[n][d] = <<>>
  BY <1>2, <1>3, <1>4
<1>6. sent'[d] = sent[d]
  BY <1>1
<1>7. d \in sawEof' => Shut(Edge(d), d) /\ Count(d)' = sent[d]
  BY <1>1 DEF Drained, Count
<1>8. UNCHANGED finished
  BY <1>1
<1> QED
  BY <1>5, <1>6, <1>7, <1>8, DrainedOpen

LEMMA DrainedSend ==
  ASSUME TypeInv, NEW f \in Numbering, NEW g \in Numbering, Fixed(f, g), NEW d \in Dirs, Drained(f, d),
         NEW e \in Dirs, Send(e)
  PROVE  Drained(g, d)'
<1>1. /\ UNCHANGED <<finished, held, got, sawEof>>
      /\ wire' = [wire EXCEPT ![Edge(e)][e] = Append(wire[Edge(e)][e], sent[e] + 1)]
      /\ sent' = [sent EXCEPT ![e] = sent[e] + 1]
      /\ ~Shut(Edge(e), e)
  BY DEF Send, Writable, Shut, nodeVars
<1>2. \A k \in Links, c \in Dirs : Shut(k, c) /\ wire[k][c] = <<>> => wire'[k][c] = <<>>
  BY <1>1, Geometry, EmptyStays
<1>3. \A n \in Nodes : Shut(Source(n, d), d) /\ wire[Source(n, d)][d] = <<>> /\ held[n][d] = <<>> =>
        wire'[Source(n, d)][d] = <<>> /\ held'[n][d] = <<>>
  BY <1>1, <1>2, Geometry
<1>4. Shut(Edge(d), d) => sent'[d] = sent[d]
  BY <1>1, EndFacts
<1>5. d \in sawEof' => Shut(Edge(d), d) /\ Count(d)' = sent[d]
  BY <1>1 DEF Drained, Count
<1>6. UNCHANGED finished
  BY <1>1
<1> QED
  BY <1>3, <1>4, <1>5, <1>6, DrainedOpen

LEMMA DrainedReceive ==
  ASSUME TypeInv, NEW f \in Numbering, NEW g \in Numbering, Fixed(f, g), Numbered(f), NEW d \in Dirs,
         Drained(f, d), NEW e \in Dirs, Receive(e)
  PROVE  Drained(g, d)'
<1> DEFINE l == Last(e)
<1>0. l \in Links
  BY Geometry
<1>1. CASE AtEof(l, e) /\ sawEof' = sawEof \cup {e} /\ UNCHANGED <<linkVars, nodeVars, sent, got>>
  <2>1. /\ UNCHANGED <<finished, wire, held, sent, got>>
        /\ wire[l][e] = <<>> /\ Shut(l, e) /\ Intact(l, e)
    BY <1>1 DEF AtEof, Shut, Intact, linkVars, nodeVars
  <2>2. ASSUME d \in sawEof' PROVE Shut(Edge(d), d) /\ Count(d)' = sent[d]
    <3>1. CASE d \in sawEof
      BY <2>1, <3>1 DEF Drained, Count
    <3>2. CASE d = e
      <4>1. f[l][d] = sent[d] + 1 /\ Shut(Edge(d), d)
        BY <1>0, <2>1, <3>2 DEF Drained
      <4>2. Count(d) + 1 = f[l][d] - Filled(l, d)
        BY <2>1, <3>2 DEF Numbered, Delivered
      <4>3. Filled(l, d) = 0
        BY <2>1, <3>2, Nothing DEF Filled
      <4>4. Count(d) \in Nat /\ sent[d] \in Nat /\ f[l][d] \in Nat
        BY <1>0, Sizes, NumberingFacts
      <4>5. Count(d) = sent[d]
        BY <4>1, <4>2, <4>3, <4>4
      <4> QED
        BY <2>1, <4>1, <4>5 DEF Count
    <3> QED
      BY <1>1, <2>2, <3>1, <3>2
  <2>3. UNCHANGED finished /\ sent'[d] = sent[d]
    BY <2>1
  <2>4. \A n \in Nodes : Shut(Source(n, d), d) /\ wire[Source(n, d)][d] = <<>> /\ held[n][d] = <<>> =>
          wire'[Source(n, d)][d] = <<>> /\ held'[n][d] = <<>>
    BY <2>1
  <2> QED
    BY <2>2, <2>3, <2>4, DrainedOpen
<1>2. CASE /\ Readable(l, e)
           /\ got' = [got EXCEPT ![e] = Append(@, Head(wire[l][e]))]
           /\ wire' = [wire EXCEPT ![l][e] = Tail(@)]
           /\ UNCHANGED <<opened, finished, deaf, reset, nodeVars, sent, sawEof>>
  <2>1. UNCHANGED <<finished, held, sent, sawEof>> /\ wire[l][e] # <<>> /\ Intact(l, e)
    BY <1>2 DEF Readable, Intact, nodeVars
  <2>2. \A k \in Links, c \in Dirs : Shut(k, c) /\ wire[k][c] = <<>> => wire'[k][c] = <<>>
    BY <1>0, <1>2, <2>1, EmptyStays
  <2>3. \A n \in Nodes : Shut(Source(n, d), d) /\ wire[Source(n, d)][d] = <<>> /\ held[n][d] = <<>> =>
          wire'[Source(n, d)][d] = <<>> /\ held'[n][d] = <<>>
    BY <2>1, <2>2, Geometry
  <2>4. ASSUME d \in sawEof' PROVE Shut(Edge(d), d) /\ Count(d)' = sent[d]
    <3>1. Shut(Edge(d), d) /\ Count(d) = sent[d]
      BY <2>1, <2>4 DEF Drained
    <3>2. d # e
      <4>1. Count(e) + 1 <= sent[e]
        BY <1>2, NextPiece
      <4>2. Count(e) \in Nat /\ sent[e] \in Nat
        BY Sizes
      <4>3. Count(e) # sent[e]
        BY <4>1, <4>2
      <4> QED
        BY <3>1, <4>3
    <3>3. got'[d] = got[d]
      BY <1>2, <3>2, EndFacts
    <3> QED
      BY <3>1, <3>3 DEF Count
  <2>5. UNCHANGED finished /\ sent'[d] = sent[d]
    BY <2>1
  <2> QED
    BY <2>3, <2>4, <2>5, DrainedOpen
<1> QED
  BY <1>1, <1>2 DEF Receive, Last

(* The link a copying goroutine reads has ended, in its direction, only if *)
(* the link it writes the other way has, when that way is first to end.    *)
LEMMA OtherWay ==
  ASSUME NEW f \in Numbering, NEW d \in Dirs, Drained(f, d), Listening(d), NEW n \in Nodes,
         Shut(Source(n, Opposite(d)), Opposite(d))
  PROVE  Shut(Sink(n, d), d)
<1> DEFINE o == Opposite(d)
<1>1. o \in Dirs /\ Opposite(o) = d /\ Last(d) = Edge(o)
  BY Ways
<1>2. Source(n, o) # Edge(o)
  BY <1>1 DEF Listening
<1>3. PICK m \in Nodes : Sink(m, o) = Source(n, o)
  BY <1>1, <1>2, Ways, Geometry
<1>4. Shut(Sink(m, d), d)
  BY <1>3 DEF Drained
<1>5. Shut(Source(m, d), d)
  BY <1>4 DEF Drained
<1>6. Source(m, d) = Sink(m, o) /\ Source(n, o) = Sink(n, d)
  BY <1>1, Ways
<1> QED
  BY <1>3, <1>5, <1>6

LEMMA DrainedReturns ==
  ASSUME TypeInv, Awake, Closing, reset = {},
         NEW f \in Numbering, NEW g \in Numbering, Fixed(f, g), Numbered(f), NEW d \in Dirs,
         Drained(f, d), Listening(d), NEW n \in Nodes, NEW e \in Dirs, NEW r \in {"nil", "error"},
         CopyReturns(n, e, r)
  PROVE  Drained(g, d)'
<1> DEFINE s == Source(n, e)
<1>1. /\ UNCHANGED <<wire, deaf, reset, stage, sent, got, sawEof>>
      /\ pump[n][e] = "copy"
      /\ \A l \in Links, c \in Dirs : Shut(l, c)' <=> Shut(l, c) \/ (l = Sink(n, e) /\ c = e)
  BY DEF CopyReturns, Shut, endVars
<1>2. \A m \in Nodes, c \in Dirs : held'[m][c] = IF m = n /\ c = e THEN <<>> ELSE held[m][c]
  BY DEF CopyReturns, TypeInv, TypeOK
<1>3. /\ s \in Links /\ Sink(n, e) \in Links /\ Edge(d) \in Links /\ Opposite(d) \in Dirs
      /\ \A m \in Nodes, c \in Dirs : Sink(m, c) \in Links /\ Source(m, c) \in Links /\ Sink(m, c) # Edge(c)
      /\ \A m \in Nodes, c \in Dirs : Sink(m, c) = Sink(n, c) => m = n
  BY Geometry, Ways
<1>4. \/ Shut(Sink(n, e), e)
      \/ /\ Shut(s, e) /\ wire[s][e] = <<>> /\ held[n][e] = <<>> /\ Intact(s, e)
  <2>1. CASE held[n][e] = <<>> /\ AtEof(s, e)
    BY <2>1 DEF AtEof, Shut, Intact
  <2>2. CASE held[n][e] = <<>> /\ ReadFails(s, e)
    <3>1. ~Intact(s, e)
      BY <2>2 DEF ReadFails, Intact
    <3> QED
      BY <3>1 DEF Closing
  <2>3. CASE WriteFails(Sink(n, e), e)
    BY <2>3 DEF WriteFails, Shut
  <2> QED
    BY <2>1, <2>2, <2>3 DEF CopyReturns
<1>5. \A l \in Links : Shut(l, d) => Shut(l, d)'
  BY <1>1
<1>6. ASSUME NEW l \in Links, Shut(l, d)', ~Shut(l, d)
      PROVE  /\ f[l][d] = sent[d] + 1 /\ Shut(Edge(d), d)'
             /\ \A m \in Nodes : Sink(m, d) = l =>
                  Shut(Source(m, d), d) /\ wire[Source(m, d)][d] = <<>> /\ held[m][d] = <<>>
  <2>1. l = Sink(n, e) /\ d = e
    BY <1>1, <1>6
  <2>2. Shut(s, d) /\ wire[s][d] = <<>> /\ held[n][d] = <<>> /\ Intact(s, d)
    BY <1>4, <1>6, <2>1
  <2>3. f[s][d] = sent[d] + 1 /\ Shut(Edge(d), d)
    BY <1>3, <2>2 DEF Drained
  <2>4. f[Sink(n, d)][d] + Ahead(n, d) = f[s][d] - Filled(s, d)
    BY <1>1, <2>1, <2>2 DEF Numbered, Passages
  <2>5. Ahead(n, d) = 0 + 0
    <3>1. stage[n] # "start"
      BY <1>1 DEF Awake
    <3> QED
      BY <2>2, <3>1, Nothing DEF Ahead, Shift
  <2>6. Filled(s, d) = 0
    BY <2>2, Nothing DEF Filled
  <2>7. f[Sink(n, d)][d] \in Nat /\ f[s][d] \in Nat
    BY <1>3, NumberingFacts
  <2> HIDE DEF s
  <2>8. f[Sink(n, d)][d] = f[s][d]
    BY <2>4, <2>5, <2>6, <2>7
  <2>9. \A m \in Nodes : Sink(m, d) = l => m = n
    BY <1>3, <2>1
  <2> QED
    BY <1>1, <1>3, <2>1, <2>2, <2>3, <2>8, <2>9 DEF s
<1>7. ASSUME NEW m \in Nodes, Shut(Sink(m, Opposite(d)), Opposite(d))' PROVE Shut(Sink(m, d), d)
  <2>1. CASE Shut(Sink(m, Opposite(d)), Opposite(d))
    BY <2>1 DEF Drained
  <2>2. CASE ~Shut(Sink(m, Opposite(d)), Opposite(d))
    <3>1. e = Opposite(d) /\ m = n
      <4>1. Sink(m, Opposite(d)) = Sink(n, e) /\ Opposite(d) = e
        BY <1>1, <1>3, <1>7, <2>2
      <4> QED
        BY <1>3, <4>1
    <3>2. Shut(Source(m, Opposite(d)), Opposite(d))
      BY <1>4, <2>2, <3>1
    <3> QED
      BY <3>2, OtherWay
  <2> QED
    BY <2>1, <2>2
<1>8. \A m \in Nodes : Shut(Source(m, d), d) /\ wire[Source(m, d)][d] = <<>> /\ held[m][d] = <<>> =>
        wire'[Source(m, d)][d] = <<>> /\ held'[m][d] = <<>>
  BY <1>1, <1>2
<1>9. Shut(Edge(d), d)' => sent'[d] = sent[d]
  BY <1>1
<1>10. d \in sawEof' => Shut(Edge(d), d) /\ Count(d)' = sent[d]
  BY <1>1 DEF Drained, Count
<1>11. \A l \in Links : Shut(l, d)' =>
         \/ Shut(l, d)
         \/ /\ f[l][d] = sent[d] + 1 /\ Shut(Edge(d), d)'
            /\ \A m \in Nodes : Sink(m, d) = l =>
                 Shut(Source(m, d), d) /\ wire[Source(m, d)][d] = <<>> /\ held[m][d] = <<>>
  BY <1>6
<1> QED
  BY <1>5, <1>7, <1>8, <1>9, <1>10, <1>11, DrainedKept

LEMMA DrainedBridge ==
  ASSUME TypeInv, Closing, reset = {},
         NEW f \in Numbering, NEW g \in Numbering, Fixed(f, g), NEW d \in Dirs,
         Drained(f, d), NEW n \in Nodes, BridgeEnds(n), UNCHANGED wire
  PROVE  Drained(g, d)'
<1>1. CloseBoth(n) /\ UNCHANGED <<held, sent, got, sawEof>> /\ done[n] # "nothing"
  BY DEF BridgeEnds, CloseLinks, endVars
<1>2. \A l \in Links, e \in Dirs : Shut(l, e)' <=> Shut(l, e) \/ l = Sink(n, e)
  BY <1>1, ClosedSides
<1>3. /\ Edge(d) \in Links /\ Opposite(d) \in Dirs
      /\ \A m \in Nodes, c \in Dirs : Sink(m, c) \in Links
      /\ \A m \in Nodes, c \in Dirs : Sink(m, c) = Sink(n, c) => m = n
  BY Geometry, Ways
<1>4. Shut(Sink(n, d), d)
  <2>1. PICK e \in Dirs : Shut(Sink(n, e), e)
    BY <1>1 DEF Closing
  <2>2. e = d \/ e = Opposite(d)
    BY Ways
  <2> QED
    BY <2>1, <2>2 DEF Drained
<1>5. \A l \in Links : Shut(l, d)' <=> Shut(l, d)
  BY <1>2, <1>4
<1>6. ASSUME NEW m \in Nodes, Shut(Sink(m, Opposite(d)), Opposite(d))' PROVE Shut(Sink(m, d), d)
  <2>1. CASE Shut(Sink(m, Opposite(d)), Opposite(d))
    BY <2>1 DEF Drained
  <2>2. CASE Sink(m, Opposite(d)) = Sink(n, Opposite(d))
    BY <1>3, <1>4, <2>2
  <2> QED
    BY <1>2, <1>3, <1>6, <2>1, <2>2
<1>7. \A m \in Nodes : Shut(Source(m, d), d) /\ wire[Source(m, d)][d] = <<>> /\ held[m][d] = <<>> =>
        wire'[Source(m, d)][d] = <<>> /\ held'[m][d] = <<>>
  BY <1>1
<1>8. Shut(Edge(d), d)' => sent'[d] = sent[d]
  BY <1>1
<1>9. d \in sawEof' => Shut(Edge(d), d) /\ Count(d)' = sent[d]
  BY <1>1 DEF Drained, Count
<1>10. \A l \in Links : Shut(l, d) => Shut(l, d)'
  BY <1>5
<1>11. \A l \in Links : Shut(l, d)' =>
         \/ Shut(l, d)
         \/ /\ f[l][d] = sent[d] + 1 /\ Shut(Edge(d), d)'
            /\ \A m \in Nodes : Sink(m, d) = l =>
                 Shut(Source(m, d), d) /\ wire[Source(m, d)][d] = <<>> /\ held[m][d] = <<>>
  BY <1>5
<1> QED
  BY <1>6, <1>7, <1>8, <1>9, <1>10, <1>11, DrainedKept

LEMMA DrainedEnds ==
  ASSUME TypeInv, NEW f \in Numbering, NEW g \in Numbering, Fixed(f, g), Numbered(f), NEW d \in Dirs,
         Drained(f, d), Listening(d)', NEW e \in Dirs, HalfCloses(e) \/ Closes(e)
  PROVE  Drained(g, d)'
<1>1. UNCHANGED <<wire, held, sent, got, sawEof>>
  BY DEF HalfCloses, Closes, nodeVars, endVars
<1>2. \A l \in Links, c \in Dirs : Shut(l, c)' <=> Shut(l, c) \/ (l = Edge(e) /\ c = e)
  BY DEF HalfCloses, Closes, CloseSide, Shut
<1>3. /\ Edge(d) \in Links /\ Opposite(d) \in Dirs /\ Last(d) \in Links
      /\ \A m \in Nodes, c \in Dirs : Sink(m, c) \in Links /\ Sink(m, c) # Edge(c)
  BY Geometry, Ways
<1>4. e = d
  <2>1. ~Shut(Last(d), Opposite(d))'
    BY DEF Listening, Last, Edge, Opposite
  <2>2. Last(d) = Edge(Opposite(d))
    BY DEF Last
  <2> QED
    BY <1>2, <1>3, <2>1, <2>2, Ways
<1>5. \A l \in Links : Shut(l, d) => Shut(l, d)'
  BY <1>2
<1>6. f[Edge(d)][d] = sent[d] + 1 /\ Shut(Edge(d), d)'
  BY <1>2, <1>3, <1>4 DEF Numbered, Limits
<1>7. \A l \in Links : Shut(l, d)' =>
         \/ Shut(l, d)
         \/ /\ f[l][d] = sent[d] + 1 /\ Shut(Edge(d), d)'
            /\ \A m \in Nodes : Sink(m, d) = l =>
                 Shut(Source(m, d), d) /\ wire[Source(m, d)][d] = <<>> /\ held[m][d] = <<>>
  BY <1>2, <1>3, <1>6
<1>8. \A m \in Nodes : Shut(Sink(m, Opposite(d)), Opposite(d))' => Shut(Sink(m, d), d)
  <2>1. Opposite(d) # e
    BY <1>4, Numbers
  <2> QED
    BY <1>2, <1>3, <2>1 DEF Drained
<1>9. \A m \in Nodes : Shut(Source(m, d), d) /\ wire[Source(m, d)][d] = <<>> /\ held[m][d] = <<>> =>
        wire'[Source(m, d)][d] = <<>> /\ held'[m][d] = <<>>
  BY <1>1
<1>10. Shut(Edge(d), d)' => sent'[d] = sent[d]
  BY <1>1
<1>11. d \in sawEof' => Shut(Edge(d), d) /\ Count(d)' = sent[d]
  BY <1>1 DEF Drained, Count
<1> QED
  BY <1>5, <1>7, <1>8, <1>9, <1>10, <1>11, DrainedKept

LEMMA DrainingKept ==
  ASSUME TypeInv, Awake, Closing, NEW f \in Numbering, Numbered(f), Draining(f), [Next]_vars, reset' = {},
         NEW g \in Numbering, Fixed(f, g)
  PROVE  Draining(g)'
<1>0. reset = {}
  BY NoResetBefore
<1>1. finished \subseteq finished'
  BY Steps DEF Moves, SendTarget, ReadTargetAddr, DialNext, CopyReads, CopyWrites, CopyReturns, BridgeEnds,
     CloseLinks, CloseBoth, CloseSide, LateData, Send, HalfCloses, Closes, Receive, vars, linkVars
<1>2. SUFFICES ASSUME NEW d \in Dirs, Listening(d)' PROVE Drained(g, d)'
  BY DEF Draining
<1>3. Listening(d) /\ Drained(f, d)
  <2>1. Listening(d)
    BY <1>1, <1>2 DEF Listening, Shut, Last, Edge, Opposite
  <2> QED
    BY <2>1 DEF Draining
<1> QED
  BY <1>0, <1>2, <1>3, Steps, DrainedNodes, DrainedSend, DrainedReceive, DrainedReturns, DrainedBridge, DrainedEnds
-----------------------------------------------------------------------------
EofInv ==
  /\ TypeInv
  /\ Awake
  /\ \E f \in Numbering : Numbered(f) /\ (reset = {} => Closing /\ Draining(f))

LEMMA ClosingInit == Init => Closing
BY Geometry DEF Init, Closing, Shut, Intact

LEMMA DrainingInit ==
  ASSUME Init, NEW f \in Numbering
  PROVE  Draining(f)
BY DEF Init, Draining, Drained, Shut

LEMMA EofInvariant == Spec => []EofInv
<1>1. Init => EofInv
  BY InitTypes, AwakeInit, NumberedInit, ClosingInit, DrainingInit DEF EofInv
<1>2. EofInv /\ [Next]_vars => EofInv'
  <2> SUFFICES ASSUME EofInv, [Next]_vars PROVE EofInv'
    OBVIOUS
  <2>1. PICK f \in Numbering : Numbered(f) /\ (reset = {} => Closing /\ Draining(f))
    BY DEF EofInv
  <2>2. TypeInv' /\ Awake'
    BY TypesKept, AwakeKept DEF EofInv
  <2>3. PICK g \in Numbering : Numbered(g)' /\ Fixed(f, g)
    BY <2>1, NumberedKept DEF EofInv
  <2>4. ASSUME reset' = {} PROVE Closing' /\ Draining(g)'
    <3>1. reset = {}
      BY <2>4, NoResetBefore
    <3> QED
      BY <2>1, <2>3, <2>4, <3>1, ClosingKept, DrainingKept DEF EofInv
  <2>5. \E h \in Numbering : Numbered(h)' /\ (reset' = {} => Closing' /\ Draining(h)')
    BY <2>3, <2>4
  <2>6. (\E h \in Numbering : Numbered(h) /\ (reset = {} => Closing /\ Draining(h)))'
    BY <2>5 DEF Numbering
  <2> QED
    BY <2>2, <2>6 DEF EofInv
<1> QED
  BY <1>1, <1>2, PTL DEF Spec

(* However long the chain is, as long as no link was reset and the end has *)
(* not stopped sending itself, the end of its stream comes behind all that *)
(* was ever sent to it: a bridge that closes both its links when one       *)
(* direction is done never cuts the direction that ended first.            *)
THEOREM EofCorrect == Spec => []EofMeansComplete
<1>1. EofInv => EofMeansComplete
  <2> SUFFICES ASSUME EofInv, NEW d \in Dirs, d \in sawEof, reset = {},
                      <<Edge(Opposite(d)), Opposite(d)>> \notin finished
               PROVE  Len(got[d]) = sent[d]
    BY DEF EofMeansComplete
  <2>1. PICK f \in Numbering : Draining(f)
    BY DEF EofInv
  <2>2. Listening(d)
    BY DEF Listening, Last, Shut
  <2> QED
    BY <2>1, <2>2 DEF Draining, Drained, Count
<1> QED
  BY <1>1, EofInvariant, PTL
-----------------------------------------------------------------------------
(* The tunnel implements module Pipe.                                      *)

(* What a step of a node cannot do: it closes neither the sending side of  *)
(* an end nor its receiving side, and takes no reset back.                 *)
LEMMA NodesLeaveEnds ==
  ASSUME NEW n \in Nodes, NodeStep(n)
  PROVE  /\ UNCHANGED <<endVars, stoppedSeen, goneSeen>>
         /\ reset \subseteq reset'
<1>0. n - 1 # Exit /\ n # 0 /\ Exit # 0
  BY Numbers DEF Nodes, Socks, Exit
<1>1. UNCHANGED endVars /\ reset \subseteq reset'
  BY DEF NodeStep, SendTarget, SendTargetFails, ReadTargetAddr, ReadTargetAddrFails, HandleFails,
     DialNext, DialNextFails, Bridge, CopyReads, CopyWrites, CopyReturns, BridgeEnds, CloseLinks,
     ResetLink, linkVars
<1>2. ASSUME UNCHANGED <<finished, deaf>> PROVE UNCHANGED <<stoppedSeen, goneSeen>>
  BY <1>2 DEF stoppedSeen, goneSeen
<1>3. ASSUME HandleFails(n) PROVE UNCHANGED <<stoppedSeen, goneSeen>>
  BY <1>0, <1>3 DEF HandleFails, CloseSide, stoppedSeen, goneSeen, Edge, Opposite, Dirs
<1>4. ASSUME CloseBoth(n) PROVE UNCHANGED <<stoppedSeen, goneSeen>>
  BY <1>0, <1>4 DEF CloseBoth, stoppedSeen, goneSeen, Edge, Opposite, Dirs
<1>5. ASSUME NEW d \in Dirs, NEW r \in {"nil", "error"}, CopyReturns(n, d, r)
      PROVE  UNCHANGED <<stoppedSeen, goneSeen>>
  BY <1>0, <1>5 DEF CopyReturns, stoppedSeen, goneSeen, Sink, Edge, Opposite, Dirs
<1>6. UNCHANGED <<stoppedSeen, goneSeen>>
  <2>1. CASE SendTarget \/ ReadTargetAddr \/ DialNext(n)
             \/ \E d \in Dirs : CopyReads(n, d) \/ CopyWrites(n, d)
    BY <2>1, <1>2 DEF SendTarget, ReadTargetAddr, DialNext, CopyReads, CopyWrites
  <2>2. CASE (n = Socks /\ SendTargetFails) \/ BridgeEnds(n)
    BY <2>2, <1>4 DEF SendTargetFails, BridgeEnds, CloseLinks
  <2>3. CASE (n = Exit /\ ReadTargetAddrFails) \/ DialNextFails(n)
    BY <2>3, <1>3 DEF ReadTargetAddrFails, DialNextFails
  <2> QED
    BY <2>1, <2>2, <2>3, <1>5 DEF NodeStep, Bridge
<1> QED
  BY <1>1, <1>6

(* A side that was closed stays closed.                                    *)
LEMMA ShutStays ==
  ASSUME [Next]_vars
  PROVE  finished \subseteq finished'
<1>1. ASSUME NEW n \in Nodes, NodeStep(n) PROVE finished \subseteq finished'
  BY <1>1 DEF NodeStep, SendTarget, SendTargetFails, ReadTargetAddr, ReadTargetAddrFails, HandleFails,
     DialNext, DialNextFails, Bridge, CopyReads, CopyWrites, CopyReturns, BridgeEnds, CloseLinks,
     CloseSide, CloseBoth, linkVars
<1>2. ASSUME NEW l \in Links, Breaks(l) \/ \E d \in Dirs : LateData(l, d) PROVE UNCHANGED finished
  BY <1>2 DEF Breaks, LateData
<1>3. ASSUME NEW d \in Dirs, Send(d) \/ HalfCloses(d) \/ Closes(d) \/ Receive(d)
      PROVE  finished \subseteq finished'
  BY <1>3 DEF Send, HalfCloses, Closes, Receive, CloseSide, linkVars
<1>4. CASE UNCHANGED vars
  BY <1>4 DEF vars, linkVars
<1> QED
  BY <1>1, <1>2, <1>3, <1>4 DEF Next

(* Nothing is put on a link whose writer has closed its side.              *)
LEMMA DryStays ==
  ASSUME TypeInv, [Next]_vars
  PROVE  \A k \in Links, e \in Dirs : Shut(k, e) /\ wire[k][e] = <<>> => wire'[k][e] = <<>>
<1> DEFINE Dry == \A k \in Links, e \in Dirs : Shut(k, e) /\ wire[k][e] = <<>> => wire'[k][e] = <<>>
<1>1. CASE UNCHANGED wire
  BY <1>1
<1>2. ASSUME NEW l \in Links, ResetLink(l) PROVE Dry
  <2>1. wire \in [Links -> [Dirs -> Seq(Nat)]]
    BY DEF TypeInv, TypeOK
  <2>2. wire' = [wire EXCEPT ![l] = [d \in Dirs |-> <<>>]]
    BY <1>2 DEF ResetLink, Drop
  <2>3. \A k \in Links, e \in Dirs : wire'[k][e] = IF k = l THEN <<>> ELSE wire[k][e]
    BY <2>1, <2>2
  <2> QED
    BY <2>3
<1>3. ASSUME NEW n \in Nodes, NodeStep(n) PROVE Dry
  <2>1. CASE SendTarget
    BY <2>1, Numbers, EmptyStays DEF SendTarget, Writable, Shut
  <2>2. CASE ReadTargetAddr
    BY <2>2, Numbers, EmptyStays DEF ReadTargetAddr, Readable
  <2>3. ASSUME NEW d \in Dirs, CopyReads(n, d) PROVE Dry
    BY <2>3, Numbers, EmptyStays DEF CopyReads, Readable
  <2>4. ASSUME NEW d \in Dirs, CopyWrites(n, d) PROVE Dry
    BY <2>4, Numbers, EmptyStays DEF CopyWrites, Writable, Shut
  <2>5. CASE (n = Exit /\ ReadTargetAddrFails) \/ DialNextFails(n)
    BY <2>5, <1>2, Numbers DEF ReadTargetAddrFails, DialNextFails, HandleFails
  <2>6. CASE BridgeEnds(n)
    BY <2>6, <1>1, <1>2, Numbers DEF BridgeEnds, CloseLinks
  <2>7. CASE SendTargetFails \/ DialNext(n)
             \/ \E d \in Dirs, r \in {"nil", "error"} : CopyReturns(n, d, r)
    BY <2>7, <1>1 DEF SendTargetFails, DialNext, CopyReturns
  <2> QED
    BY <1>3, <2>1, <2>2, <2>3, <2>4, <2>5, <2>6, <2>7 DEF NodeStep, Bridge
<1>4. ASSUME NEW l \in Links, Breaks(l) PROVE Dry
  BY <1>2, <1>4 DEF Breaks
<1>5. ASSUME NEW l \in Links, NEW d \in Dirs, LateData(l, d) PROVE Dry
  BY <1>2, <1>5, EmptyStays DEF LateData
<1>6. ASSUME NEW d \in Dirs, Send(d) PROVE Dry
  BY <1>6, Numbers, EmptyStays DEF Send, Writable, Shut
<1>7. ASSUME NEW d \in Dirs, Receive(d) PROVE Dry
  BY <1>1, <1>7, Numbers, EmptyStays DEF Receive, Readable, linkVars
<1>8. ASSUME NEW d \in Dirs, HalfCloses(d) \/ Closes(d) PROVE Dry
  BY <1>1, <1>8 DEF HalfCloses, Closes
<1> QED
  BY <1>1, <1>3, <1>4, <1>5, <1>6, <1>7, <1>8 DEF Next, vars, linkVars

(* Behind the end of a stream nothing is left to come.                     *)
AfterEnd == \A d \in sawEof : Shut(Last(d), d) /\ wire[Last(d)][d] = <<>>

LEMMA AfterEndKept ==
  ASSUME TypeInv, AfterEnd, [Next]_vars
  PROVE  AfterEnd'
<1>0. sawEof \subseteq Dirs
  BY DEF TypeInv, TypeOK
<1>1. ASSUME NEW d \in sawEof PROVE Shut(Last(d), d)' /\ wire'[Last(d)][d] = <<>>
  BY <1>0, ShutStays, DryStays, Geometry DEF AfterEnd, Shut
<1>2. CASE UNCHANGED sawEof
  BY <1>1, <1>2 DEF AfterEnd, Last, Shut
<1>3. ASSUME NEW d \in Dirs, AtEof(Last(d), d), sawEof' = sawEof \cup {d}, UNCHANGED linkVars PROVE AfterEnd'
  BY <1>1, <1>3 DEF AfterEnd, AtEof, Shut, Last, linkVars
<1>4. ASSUME NEW n \in Nodes, NodeStep(n) PROVE UNCHANGED sawEof
  BY <1>4, NodesLeaveEnds DEF endVars
<1>5. ASSUME NEW l \in Links, Breaks(l) \/ \E d \in Dirs : LateData(l, d) PROVE UNCHANGED sawEof
  BY <1>5 DEF Breaks, LateData, endVars
<1>6. ASSUME NEW d \in Dirs, Send(d) \/ HalfCloses(d) \/ Closes(d) PROVE UNCHANGED sawEof
  BY <1>6 DEF Send, HalfCloses, Closes, endVars
<1>7. ASSUME NEW d \in Dirs, Receive(d) PROVE AfterEnd'
  BY <1>2, <1>3, <1>7 DEF Receive, Last
<1> QED
  BY <1>2, <1>4, <1>5, <1>6, <1>7 DEF Next, vars, endVars
-----------------------------------------------------------------------------
PipeInv == TunnelInv /\ EofInv /\ AfterEnd

(* The two kinds of steps that give an end something.                      *)
LEMMA GetStep ==
  ASSUME PipeInv, NEW d \in Dirs, Readable(Last(d), d),
         got' = [got EXCEPT ![d] = Append(@, Head(wire[Last(d)][d]))],
         wire' = [wire EXCEPT ![Last(d)][d] = Tail(@)],
         UNCHANGED <<opened, finished, deaf, reset, nodeVars, sent, sawEof>>
  PROVE  EndToEnd!Get(d)
<1>1. PICK f \in Numbering : Numbered(f)
  BY DEF PipeInv, TunnelInv
<1>2. Head(wire[Last(d)][d]) = Count(d) + 1 /\ Count(d) + 1 <= sent[d]
  BY <1>1, NextPiece DEF PipeInv, TunnelInv
<1>3. Count(d) \in Nat /\ sent[d] \in Nat
  BY Sizes DEF PipeInv, TunnelInv
<1>4. Len(got[d]) < sent[d]
  BY <1>2, <1>3 DEF Count
<1>5. got' = [got EXCEPT ![d] = Append(@, Len(@) + 1)]
  BY <1>2 DEF Count
<1>6. d \notin sawEof
  BY DEF PipeInv, AfterEnd, Readable
<1>7. Opposite(d) \notin goneSeen
  BY Ways DEF Readable, goneSeen, Last
<1>8. UNCHANGED <<stoppedSeen, goneSeen, brokenSeen>>
  BY DEF stoppedSeen, goneSeen, brokenSeen
<1>9. EndToEnd!Opposite(d) = Opposite(d)
  BY DEF EndToEnd!Opposite, Opposite
<1> QED
  BY <1>4, <1>5, <1>6, <1>7, <1>8, <1>9 DEF EndToEnd!Get

LEMMA SeesEndStep ==
  ASSUME PipeInv, PipeInv', NEW d \in Dirs, AtEof(Last(d), d), d \notin sawEof, sawEof' = sawEof \cup {d},
         UNCHANGED <<linkVars, nodeVars, sent, got>>
  PROVE  EndToEnd!SeesEnd(d)
<1>1. Opposite(d) \notin goneSeen
  BY Ways DEF AtEof, goneSeen, Last
<1>2. UNCHANGED <<stoppedSeen, goneSeen, brokenSeen>>
  BY DEF stoppedSeen, goneSeen, brokenSeen, linkVars
<1>3. \/ d \in stoppedSeen /\ Len(got[d]) = sent[d]
      \/ Opposite(d) \in stoppedSeen
      \/ brokenSeen
  <2> SUFFICES ASSUME Opposite(d) \notin stoppedSeen, ~brokenSeen
               PROVE  d \in stoppedSeen /\ Len(got[d]) = sent[d]
    OBVIOUS
  <2>1. UNCHANGED <<finished, reset>> /\ reset = {}
    BY DEF linkVars, brokenSeen
  <2>2. PICK g \in Numbering' : Draining(g)'
    BY <2>1 DEF PipeInv, EofInv
  <2>3. Listening(d)'
    BY <2>1, Ways DEF Listening, Last, Shut, stoppedSeen
  <2>4. Shut(Edge(d), d)' /\ Count(d)' = sent'[d]
    BY <2>2, <2>3 DEF Draining, Drained
  <2> QED
    BY <2>1, <2>4 DEF Shut, Count, stoppedSeen
<1>4. EndToEnd!Opposite(d) = Opposite(d)
  BY DEF EndToEnd!Opposite, Opposite
<1> QED
  BY <1>1, <1>2, <1>3, <1>4 DEF EndToEnd!SeesEnd

(* Every step of the tunnel is a step of the pipe or changes nothing an    *)
(* end can see.                                                            *)
LEMMA PipeStep ==
  ASSUME PipeInv, PipeInv', [Next]_vars
  PROVE  [EndToEnd!PipeNext]_(EndToEnd!pipeVars)
<1> DEFINE Maps == EndToEnd!PipeNext \/ UNCHANGED EndToEnd!pipeVars
<1>0. EndToEnd!Dirs = Dirs /\ \A d : EndToEnd!Opposite(d) = Opposite(d)
  BY DEF EndToEnd!Dirs, Dirs, EndToEnd!Opposite, Opposite
<1>1. ASSUME UNCHANGED <<endVars, stoppedSeen, goneSeen>>, reset \subseteq reset' PROVE Maps
  <2>1. CASE reset' = {}
    <3>1. UNCHANGED brokenSeen
      BY <1>1, <2>1 DEF brokenSeen
    <3> QED
      BY <1>1, <3>1 DEF EndToEnd!pipeVars, endVars
  <2>2. CASE reset' # {}
    <3>1. brokenSeen' = TRUE
      BY <2>2 DEF brokenSeen
    <3> QED
      BY <1>1, <3>1 DEF EndToEnd!PipeNext, EndToEnd!GoesDown, endVars
  <2> QED
    BY <2>1, <2>2
<1>2. ASSUME NEW n \in Nodes, NodeStep(n) PROVE Maps
  BY <1>1, <1>2, NodesLeaveEnds
<1>3. ASSUME NEW l \in Links, Breaks(l) \/ \E d \in Dirs : LateData(l, d) PROVE Maps
  <2>1. UNCHANGED <<endVars, finished, deaf>> /\ reset \subseteq reset'
    BY <1>3 DEF Breaks, LateData, ResetLink
  <2> QED
    BY <1>1, <2>1 DEF stoppedSeen, goneSeen
<1>4. ASSUME NEW d \in Dirs, Send(d) PROVE Maps
  <2>1. d \notin stoppedSeen /\ UNCHANGED <<stoppedSeen, goneSeen, brokenSeen>>
    BY <1>4 DEF Send, Writable, stoppedSeen, goneSeen, brokenSeen
  <2>2. EndToEnd!Put(d)
    BY <1>4, <2>1 DEF Send, EndToEnd!Put
  <2> QED
    BY <1>0, <2>2 DEF EndToEnd!PipeNext
<1>5. ASSUME NEW d \in Dirs, HalfCloses(d) PROVE Maps
  <2>1. stoppedSeen' = stoppedSeen \cup {d} /\ d \notin stoppedSeen
    BY <1>5 DEF HalfCloses, stoppedSeen, Edge, Dirs
  <2>2. EndToEnd!Stops(d)
    BY <1>5, <2>1 DEF HalfCloses, EndToEnd!Stops, endVars, goneSeen, brokenSeen
  <2> QED
    BY <1>0, <2>2 DEF EndToEnd!PipeNext
<1>6. ASSUME NEW d \in Dirs, Closes(d) PROVE Maps
  <2>1. /\ stoppedSeen' = stoppedSeen \cup {d}
        /\ goneSeen' = goneSeen \cup {d}
        /\ d \notin goneSeen
    BY <1>6, Numbers DEF Closes, CloseSide, stoppedSeen, goneSeen, Edge, Opposite, Dirs
  <2>2. EndToEnd!Leaves(d)
    BY <1>6, <2>1 DEF Closes, EndToEnd!Leaves, endVars, brokenSeen
  <2> QED
    BY <1>0, <2>2 DEF EndToEnd!PipeNext
<1>7. ASSUME NEW d \in Dirs, Receive(d) PROVE Maps
  <2>1. EndToEnd!Get(d) \/ EndToEnd!SeesEnd(d)
    BY <1>7, GetStep, SeesEndStep DEF Receive, Last
  <2> QED
    BY <1>0, <2>1 DEF EndToEnd!PipeNext
<1>8. CASE UNCHANGED vars
  BY <1>1, <1>8 DEF vars, linkVars, stoppedSeen, goneSeen
<1> QED
  BY <1>2, <1>3, <1>4, <1>5, <1>6, <1>7, <1>8 DEF Next

(* Client and target see a Pipe, whatever the number of bridges and relay  *)
(* nodes between them, the data under way and the links that break: the    *)
(* next piece or, after the last, the end, and nothing behind it.          *)
THEOREM TunnelIsPipe == Spec => ImplementsPipe
<1>1. Init => EndToEnd!PipeInit
  BY DEF Init, EndToEnd!PipeInit, EndToEnd!Dirs, Dirs, stoppedSeen, goneSeen, brokenSeen
<1>2. Init => AfterEnd
  BY DEF Init, AfterEnd
<1>3. Spec => []PipeInv
  <2>1. TunnelInv /\ AfterEnd /\ [Next]_vars => AfterEnd'
    BY AfterEndKept DEF TunnelInv
  <2>2. TunnelInv /\ EofInv /\ AfterEnd => PipeInv
    BY DEF PipeInv
  <2> QED
    BY <1>2, <2>1, <2>2, TunnelSound, EofInvariant, PTL DEF Spec
<1>4. PipeInv /\ PipeInv' /\ [Next]_vars => [EndToEnd!PipeNext]_(EndToEnd!pipeVars)
  BY PipeStep
<1> QED
  BY <1>1, <1>3, <1>4, PTL DEF Spec, ImplementsPipe, EndToEnd!PipeSpec
=============================================================================
