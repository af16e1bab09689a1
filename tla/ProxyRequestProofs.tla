-------------------------- MODULE ProxyRequestProofs --------------------------
(***************************************************************************)
(* Proofs about ProxyRequest: types, the route, and what reaches the       *)
(* target, for every byte width, client and route.                         *)
(***************************************************************************)
EXTENDS ProxyRequest, SequenceTheorems, TLAPS

Byte == 0 .. Radix - 1

(* What is left of a sequence behind its first k items.                    *)
LEMMA Remainder ==
  ASSUME NEW X, NEW s \in Seq(X), NEW k \in Nat
  PROVE  /\ SubSeq(s, k + 1, Len(s)) \in Seq(X)
         /\ Len(SubSeq(s, k + 1, Len(s))) = IF k <= Len(s) THEN Len(s) - k ELSE 0
         /\ \A i \in 1 .. Len(s) - k : SubSeq(s, k + 1, Len(s))[i] = s[k + i]
<1>1. /\ Len(s) \in Nat
      /\ \A i \in k + 1 .. Len(s) : s[i] \in X
  BY ElementOfSeq, LenProperties
<1>2. /\ SubSeq(s, k + 1, Len(s)) \in Seq(X)
      /\ Len(SubSeq(s, k + 1, Len(s))) =
           IF k + 1 <= Len(s) THEN Len(s) - (k + 1) + 1 ELSE 0
      /\ \A i \in 1 .. Len(s) - (k + 1) + 1 :
           SubSeq(s, k + 1, Len(s))[i] = s[k + 1 + i - 1]
  BY <1>1, SubSeqProperties
<1> QED  BY <1>1, <1>2

(* The first k items of one sequence behind another.                       *)
LEMMA Piece ==
  ASSUME NEW X, NEW s \in Seq(X), NEW t \in Seq(X), NEW k \in 1 .. Len(t)
  PROVE  /\ s \o SubSeq(t, 1, k) \in Seq(X)
         /\ Len(s \o SubSeq(t, 1, k)) = Len(s) + k
         /\ \A i \in 1 .. Len(s) : (s \o SubSeq(t, 1, k))[i] = s[i]
         /\ \A i \in Len(s) + 1 .. Len(s) + k : (s \o SubSeq(t, 1, k))[i] = t[i - Len(s)]
<1> DEFINE u == SubSeq(t, 1, k)
<1>1. /\ Len(s) \in Nat /\ Len(t) \in Nat
      /\ \A i \in 1 .. k : t[i] \in X
  BY ElementOfSeq, LenProperties
<1>2. u \in Seq(X) /\ Len(u) = k /\ \A i \in 1 .. k : u[i] = t[i]
  <2>1. /\ u \in Seq(X)
        /\ Len(u) = IF 1 <= k THEN k - 1 + 1 ELSE 0
        /\ \A i \in 1 .. k - 1 + 1 : u[i] = t[1 + i - 1]
    BY <1>1, SubSeqProperties
  <2> QED  BY <1>1, <2>1
<1> HIDE DEF u
<1>3. /\ s \o u \in Seq(X)
      /\ Len(s \o u) = Len(s) + Len(u)
      /\ \A i \in 1 .. Len(s) + Len(u) :
           (s \o u)[i] = IF i <= Len(s) THEN s[i] ELSE u[i - Len(s)]
  BY <1>2, ConcatProperties
<1>4. \A i \in Len(s) + 1 .. Len(s) + k : (s \o u)[i] = t[i - Len(s)]
  BY <1>1, <1>2, <1>3
<1>5. \A i \in 1 .. Len(s) : (s \o u)[i] = s[i]
  BY <1>1, <1>2, <1>3
<1> QED  BY <1>2, <1>3, <1>4, <1>5 DEF u

(* Texts made of bytes.                                                    *)
LEMMA Texts ==
  ASSUME NEW s \in Bytes
  PROVE  /\ AsText(s) \in Text
         /\ Len(AsText(s)) = Len(s)
         /\ \A i \in 1 .. Len(s) : AsText(s)[i] = <<s[i]>>
<1>1. Len(s) \in Nat /\ DOMAIN s = 1 .. Len(s) /\ \A i \in 1 .. Len(s) : s[i] \in Byte
  BY ElementOfSeq, LenProperties DEF Bytes, Byte
<1>2. \A i \in 1 .. Len(s) : <<s[i]>> \in Bytes
  BY <1>1 DEF Bytes, Byte
<1>3. AsText(s) = [i \in 1 .. Len(s) |-> <<s[i]>>]
  BY <1>1 DEF AsText
<1>4. AsText(s) \in Text
  BY <1>1, <1>2, <1>3 DEF Text
<1> QED  BY <1>1, <1>3, <1>4

(* A buffer, filled or not.                                                *)
LEMMA Buffers ==
  ASSUME arrived \in Bytes, NEW k \in Nat, RequestAssumption
  PROVE  /\ Buffer(k) \in Bytes
         /\ Len(Buffer(k)) = k
         /\ \A i \in 1 .. k : Buffer(k)[i] \in Byte
         /\ Len(arrived) >= k => \A i \in 1 .. k : Buffer(k)[i] = arrived[i]
<1>1. Len(arrived) \in Nat /\ DOMAIN arrived = 1 .. Len(arrived)
      /\ \A i \in 1 .. Len(arrived) : arrived[i] \in Byte
  BY ElementOfSeq, LenProperties DEF Bytes, Byte
<1>2. 0 \in Byte
  BY DEF RequestAssumption, Byte
<1>3. \A i \in 1 .. k : Buffer(k)[i] \in Byte
  BY <1>1, <1>2 DEF Buffer
<1>4. Buffer(k) \in Bytes /\ Len(Buffer(k)) = k
  BY <1>1, <1>2 DEF Buffer, Bytes, Byte
<1> QED  BY <1>1, <1>3, <1>4 DEF Buffer
-----------------------------------------------------------------------------
(* What the client sends, and where the fields of its request end.         *)
MethodsLen == Len(client.methods)
HostLen == Len(client.host)
Data == client.data
DataLen == Len(Data)
AddressAt == 6 + MethodsLen
HostAt == IF client.atyp = Domain THEN AddressAt + 1 ELSE AddressAt
PortAt == HostAt + HostLen
DataAt == PortAt + 2

(* How much has been read, and that the rest follows in order, whatever    *)
(* the reads returned.                                                     *)
Position == Len(Sent) - Len(arrived) - Len(coming)
InOrder ==
  /\ Position >= 0
  /\ \A i \in 1 .. Len(arrived) : arrived[i] = Sent[Position + i]
  /\ \A i \in 1 .. Len(coming) : coming[i] = Sent[Position + Len(arrived) + i]

(* What has been read and learnt when no read has been short.              *)
Asked == client.cmd = Connect /\ client.atyp \in {IPv4, Domain, IPv6}
Parsed ==
  /\ stage = "greeting" => Position = 0
  /\ stage = "methods" => Position = 2 /\ size = MethodsLen
  /\ stage = "header" => Position = 2 + MethodsLen
  /\ stage = "address" => Position = AddressAt /\ Asked /\ atyp = client.atyp
  /\ stage = "domain" => /\ Position = HostAt /\ Asked /\ atyp = Domain /\ client.atyp = Domain
                        /\ size = HostLen
  /\ stage = "port" => Position = PortAt /\ Asked /\ target = HostText(client.atyp, client.host)
  /\ stage \in {"open", "length", "frame"} => Position = DataAt
  /\ stage = "bridge" => Position >= DataAt
  /\ stage \in {"open", "length", "frame", "bridge"} => Asked /\ target = Target(client)

(* The items that have entered the tunnel are the frame and then data;     *)
(* what the exit node has taken of them and what is under way is a run of  *)
(* consecutive items.                                                      *)

Running == relay \notin {"none", "failed"}

Taken ==
  IF relay \in {"dial", "connected"} THEN 1 + length + Len(received)
  ELSE IF length = 0 THEN 0 ELSE 1

Total == Taken + Len(stream) + Len(sending)

(* The position in what the client sends where the handshake has stopped   *)
(* reading and the bridge goes on.                                         *)
Begin == IF stage = "bridge" THEN Position + Len(target) + 1 - Total ELSE Position

Flow(j) ==
  IF j = 1 THEN <<Len(target) % Radix>>
  ELSE IF j <= Len(target) + 1 THEN target[j - 1]
  ELSE <<Sent[Begin + (j - 1 - Len(target))]>>

Phases ==
  /\ stage \in {"greeting", "methods", "header", "address", "domain", "port", "open"} => relay = "none"
  /\ stage \in {"length", "frame", "bridge"} => relay # "none"
  /\ stage = "closed" => relay \in {"none", "failed"}
  /\ relay = "none" => stream = <<>> /\ sending = <<>>
  /\ relay \in {"none", "handle"} => length = 0
  /\ relay \notin {"connected", "failed"} => received = <<>>
  /\ relay \in {"dial", "connected"} => length > 0

Written ==
  /\ stage = "length" => Total = 0
  /\ stage = "frame" => Total = 1
  /\ stage = "bridge" => Total >= Len(target) + 1 /\ Begin >= 0
  /\ stage = "bridge" /\ ~cut => Total = Len(target) + 1 + Position - DataAt

Aligned ==
  \A j \in Nat :
    /\ \A i \in 1 .. Len(stream) : j = Taken + i => stream[i] = Flow(j)
    /\ \A i \in 1 .. Len(sending) : j = Taken + Len(stream) + i => sending[i] = Flow(j)

Framed ==
  /\ length # 0 => length = Len(target) % Radix
  /\ relay \in {"dial", "connected"} =>
       Len(dialled) = length /\ \A i \in 1 .. length : dialled[i] = target[i]
  /\ relay = "connected" => HasPort(dialled)

Tunnel == Phases /\ (Running => Written /\ Aligned /\ Framed)

(* A target address is never much longer than its length byte can tell.    *)
Sized ==
  /\ stage = "port" => Len(target) < Radix
  /\ stage \in {"open", "length", "frame", "bridge"} => Len(target) <= Radix + 1

(* What the target has, and what the client has been told.                 *)
From(n) ==
  /\ n + Len(received) <= Len(Sent)
  /\ \A i \in 1 .. Len(received) : received[i] = <<Sent[n + i]>>

Received ==
  /\ \E n \in Nat : From(n) /\ (~cut => n = DataAt)
  /\ relay = "connected" => From(Begin)

Answers ==
  /\ method = "accepted" => \E i \in DOMAIN client.methods : client.methods[i] = NoAuthentication
  /\ method = "refused" => \A i \in DOMAIN client.methods : client.methods[i] # NoAuthentication
  /\ reply = "command" => client.cmd # Connect
  /\ reply = "address type" => client.cmd = Connect /\ client.atyp \notin {IPv4, Domain, IPv6}
  /\ reply = "success" => /\ Asked /\ target = Target(client)
                         /\ stage \in {"length", "frame", "bridge", "closed"}

Faithful == ~cut => Parsed /\ Answers

(* The peers of the route that have the stream, and those to come.         *)
Chain ==
  /\ relay = "none" => path = <<>>
  /\ relay \in {"address", "dial", "connected"} => name = <<>>
  /\ relay # "none" =>
       /\ Len(path) + Len(name) = Len(route)
       /\ \A i \in 1 .. Len(path) : path[i] = route[i]
       /\ \A i \in 1 .. Len(name) : name[i] = route[Len(path) + i]

RequestInv == TypeOK /\ InOrder /\ Sized /\ Tunnel /\ Received /\ Faithful /\ Chain

LEMMA Width ==
  ASSUME RequestAssumption
  PROVE  Radix \in Nat /\ Radix > 5 /\ Routes \subseteq Seq(Peers)
BY DEF RequestAssumption

LEMMA TextFacts ==
  ASSUME NEW t \in Text
  PROVE  /\ t \in Seq(Bytes)
         /\ Len(t) \in Nat
         /\ DOMAIN t = 1 .. Len(t)
         /\ t # <<>> => Len(t) > 0
         /\ t = <<>> => Len(t) = 0
         /\ \A i \in 1 .. Len(t) : t[i] \in Bytes
<1>1. t \in Seq(Bytes)
  BY DEF Text
<1>2. Len(t) \in Nat /\ DOMAIN t = 1 .. Len(t) /\ (t # <<>> => Len(t) \in Nat \ {0})
  BY <1>1, LenProperties, EmptySeq
<1>3. t = <<>> => Len(t) = 0
  BY <1>1
<1>4. \A i \in 1 .. Len(t) : t[i] \in Bytes
  BY <1>1, ElementOfSeq
<1> QED  BY <1>1, <1>2, <1>3, <1>4

LEMMA BytesFacts ==
  ASSUME NEW b \in Bytes
  PROVE  /\ b \in Seq(Byte)
         /\ Len(b) \in Nat
         /\ DOMAIN b = 1 .. Len(b)
         /\ b # <<>> => Len(b) > 0
         /\ b = <<>> => Len(b) = 0
         /\ \A i \in 1 .. Len(b) : b[i] \in Byte
<1>1. b \in Seq(Byte)
  BY DEF Bytes, Byte
<1>2. Len(b) \in Nat /\ DOMAIN b = 1 .. Len(b) /\ (b # <<>> => Len(b) \in Nat \ {0})
  BY <1>1, LenProperties, EmptySeq
<1>3. b = <<>> => Len(b) = 0
  BY <1>1
<1>4. \A i \in 1 .. Len(b) : b[i] \in Byte
  BY <1>1, ElementOfSeq
<1> QED  BY <1>1, <1>2, <1>3, <1>4

(* The first item the exit node reads is the length byte.                  *)
LEMMA LengthFirst ==
  ASSUME RequestAssumption, target \in Text, stream \in Text, Tunnel, ReadLength
  PROVE  Len(target) % Radix \in Byte /\ Head(stream) = <<Len(target) % Radix>>
<1>1. Len(target) \in Nat /\ Len(stream) \in Nat /\ Radix \in Nat /\ Radix > 0
  BY Width, TextFacts
<1>2. Len(target) % Radix \in Byte
  BY <1>1 DEF Byte
<1>3. stream # <<>> /\ Running /\ length = 0 /\ Taken = 0
  BY DEF ReadLength, Running, Taken
<1>4. Len(stream) > 0
  BY <1>3, TextFacts
<1>5. Aligned
  BY <1>3 DEF Tunnel
<1>6. stream[1] = Flow(1)
  <2>1. 1 \in 1 .. Len(stream) /\ 1 = Taken + 1
    BY <1>1, <1>3, <1>4
  <2> QED  BY <1>5, <2>1 DEF Aligned
<1>7. Head(stream) = stream[1]
  BY <1>3
<1> QED  BY <1>2, <1>6, <1>7 DEF Flow

LEMMA JoinTypes ==
  ASSUME NEW host \in Text, NEW port \in Bytes
  PROVE  /\ JoinHostPort(host, port) \in Text
         /\ Len(JoinHostPort(host, port)) = Len(host) + 2
         /\ \A i \in 1 .. Len(host) : JoinHostPort(host, port)[i] = host[i]
         /\ JoinHostPort(host, port)[Len(host) + 1] = Colon
         /\ JoinHostPort(host, port)[Len(host) + 2] = port
<1> DEFINE end == <<Colon, port>>
<1>1. end \in Text /\ Len(end) = 2 /\ end[1] = Colon /\ end[2] = port
  BY DEF Colon, Text, Bytes
<1> HIDE DEF end
<1>2. /\ host \o end \in Text
      /\ Len(host \o end) = Len(host) + Len(end)
      /\ \A i \in 1 .. Len(host) + Len(end) :
           (host \o end)[i] = IF i <= Len(host) THEN host[i] ELSE end[i - Len(host)]
  BY <1>1, ConcatProperties DEF Text
<1>3. Len(host) \in Nat
  BY LenProperties DEF Text
<1>4. JoinHostPort(host, port) = host \o end
  BY DEF JoinHostPort, end
<1> QED  BY <1>1, <1>2, <1>3, <1>4

LEMMA HostTypes ==
  ASSUME NEW type, NEW host \in Bytes
  PROVE  /\ HostText(type, host) \in Text
         /\ Len(HostText(type, host)) = IF type = Domain THEN Len(host) ELSE 1
<1>1. <<host>> \in Text /\ Len(<<host>>) = 1
  BY DEF Text
<1> QED  BY <1>1, Texts DEF HostText

LEMMA ReadTypes ==
  ASSUME arrived \in Bytes, cut \in BOOLEAN, NEW k \in Nat, Reads(k)
  PROVE  /\ arrived' \in Bytes /\ cut' \in BOOLEAN
         /\ UNCHANGED <<client, route, coming, path, name, relay, sending, stream, length, dialled, received>>
<1>1. arrived' \in Bytes
  <2>1. arrived \in Seq(Byte) /\ arrived' = SubSeq(arrived, k + 1, Len(arrived))
    BY BytesFacts DEF Reads
  <2>2. arrived' \in Seq(Byte)
    BY <2>1, Remainder
  <2> QED  BY <2>2 DEF Bytes, Byte
<1> QED  BY <1>1 DEF Reads, clientVars, relayVars, tunnelVars, exitVars

(* The sequences an action changes.                                        *)
LEMMA ArriveTypes ==
  ASSUME arrived \in Bytes, coming \in Bytes, NEW k \in DOMAIN coming, Arrive(k)
  PROVE  arrived' \in Bytes /\ coming' \in Bytes
<1>1. arrived \in Seq(Byte) /\ coming \in Seq(Byte) /\ k \in 1 .. Len(coming) /\ k \in Nat
  BY BytesFacts
<1>2. arrived' \in Seq(Byte)
  BY <1>1, Piece DEF Arrive
<1>3. coming' \in Seq(Byte)
  BY <1>1, Remainder DEF Arrive
<1> QED  BY <1>2, <1>3 DEF Bytes, Byte

LEMMA DeliverTypes ==
  ASSUME stream \in Text, sending \in Text, NEW k \in DOMAIN sending, Deliver(k)
  PROVE  stream' \in Text /\ sending' \in Text
<1>1. stream \in Seq(Bytes) /\ sending \in Seq(Bytes) /\ k \in 1 .. Len(sending) /\ k \in Nat
  BY TextFacts
<1>2. stream' \in Seq(Bytes)
  BY <1>1, Piece DEF Deliver
<1>3. sending' \in Seq(Bytes)
  BY <1>1, Remainder DEF Deliver
<1> QED  BY <1>2, <1>3 DEF Text

LEMMA JoinedTexts ==
  ASSUME NEW s \in Text, NEW t \in Text
  PROVE  /\ s \o t \in Text
         /\ Len(s \o t) = Len(s) + Len(t)
         /\ \A i \in 1 .. Len(s) : (s \o t)[i] = s[i]
         /\ \A i \in 1 .. Len(t) : (s \o t)[Len(s) + i] = t[i]
<1>1. s \in Seq(Bytes) /\ t \in Seq(Bytes) /\ Len(s) \in Nat /\ Len(t) \in Nat
  BY TextFacts
<1>2. /\ s \o t \in Seq(Bytes)
      /\ Len(s \o t) = Len(s) + Len(t)
      /\ \A i \in 1 .. Len(s) + Len(t) : (s \o t)[i] = IF i <= Len(s) THEN s[i] ELSE t[i - Len(s)]
  BY <1>1, ConcatProperties
<1>3. \A i \in 1 .. Len(s) : (s \o t)[i] = s[i]
  BY <1>1, <1>2
<1>4. \A i \in 1 .. Len(t) : (s \o t)[Len(s) + i] = t[i]
  BY <1>1, <1>2
<1> QED  BY <1>2, <1>3, <1>4 DEF Text

LEMMA LengthItem ==
  ASSUME RequestAssumption, target \in Text
  PROVE  /\ <<<<Len(target) % Radix>>>> \in Text
         /\ Len(<<<<Len(target) % Radix>>>>) = 1
         /\ <<<<Len(target) % Radix>>>>[1] = <<Len(target) % Radix>>
<1>1. Len(target) % Radix \in 0 .. Radix - 1
  BY Width, TextFacts
<1>2. <<Len(target) % Radix>> \in Bytes
  BY <1>1 DEF Bytes
<1> QED  BY <1>2 DEF Text

LEMMA ReadAddressTypes ==
  ASSUME stream \in Text, length \in Nat, ReadAddress
  PROVE  /\ stream' \in Text
         /\ Len(stream') = Len(stream) - length
         /\ \A i \in 1 .. Len(stream') : stream'[i] = stream[length + i]
         /\ dialled' \in Text
         /\ Len(dialled') = length
         /\ \A i \in 1 .. length : dialled'[i] = stream[i]
<1>1. stream \in Seq(Bytes) /\ Len(stream) \in Nat /\ \A i \in 1 .. Len(stream) : stream[i] \in Bytes
  BY TextFacts
<1>2. length > 0 /\ Len(stream) >= length
  BY DEF ReadAddress
<1>3. /\ stream' \in Seq(Bytes)
      /\ Len(stream') = Len(stream) - length
      /\ \A i \in 1 .. Len(stream) - length : stream'[i] = stream[length + i]
  BY <1>1, <1>2, Remainder DEF ReadAddress
<1>4. /\ dialled' \in Seq(Bytes)
      /\ Len(dialled') = IF 1 <= length THEN length - 1 + 1 ELSE 0
      /\ \A i \in 1 .. length - 1 + 1 : dialled'[i] = stream[1 + i - 1]
  <2>1. \A i \in 1 .. length : stream[i] \in Bytes
    BY <1>1, <1>2
  <2>2. dialled' = SubSeq(stream, 1, length)
    BY DEF ReadAddress
  <2> QED  BY <2>1, <2>2, SubSeqProperties
<1> QED  BY <1>1, <1>2, <1>3, <1>4 DEF Text

LEMMA TailFacts ==
  ASSUME NEW t \in Text, t # <<>>
  PROVE  /\ Tail(t) \in Text
         /\ Len(Tail(t)) = Len(t) - 1
         /\ \A i \in 1 .. Len(t) - 1 : Tail(t)[i] = t[i + 1]
<1>1. t \in Seq(Bytes)
  BY TextFacts
<1>2. /\ Tail(t) \in Seq(Bytes)
      /\ Len(Tail(t)) = Len(t) - 1
      /\ \A i \in 1 .. Len(Tail(t)) : Tail(t)[i] = t[i + 1]
  BY <1>1, HeadTailProperties
<1> QED  BY <1>2 DEF Text

LEMMA TypeStep ==
  ASSUME RequestAssumption, TypeOK, Tunnel, [Next]_vars
  PROVE  TypeOK'
<1>0. /\ Radix \in Nat /\ Radix > 5 /\ Routes \subseteq Seq(Peers)
      /\ arrived \in Bytes /\ coming \in Bytes /\ cut \in BOOLEAN
      /\ target \in Text /\ stream \in Text /\ sending \in Text /\ received \in Text
      /\ path \in Seq(Peers) /\ name \in Seq(Peers) /\ route \in Routes
      /\ atyp \in 0 .. Radix - 1 /\ size \in 0 .. Radix - 1 /\ length \in 0 .. Radix - 1
  BY Width DEF TypeOK
<1>0a. size \in Nat /\ length \in Nat
  BY <1>0
<1>0b. \A k \in Nat : Buffer(k) \in Bytes /\ \A i \in 1 .. k : Buffer(k)[i] \in 0 .. Radix - 1
  BY <1>0, Buffers DEF Byte
<1>1. CASE UNCHANGED vars
  BY <1>1 DEF TypeOK, vars, clientVars, readVars, socksVars, relayVars, tunnelVars, exitVars
<1>2. ASSUME NEW k \in DOMAIN coming, Arrive(k) PROVE TypeOK'
  <2>1. arrived' \in Bytes /\ coming' \in Bytes
    BY <1>0, <1>2, ArriveTypes
  <2> QED
    BY <1>2, <2>1 DEF TypeOK, Arrive, clientVars, socksVars, relayVars, tunnelVars, exitVars
<1>3. ASSUME NEW k \in DOMAIN sending, Deliver(k) PROVE TypeOK'
  <2>1. stream' \in Text /\ sending' \in Text
    BY <1>0, <1>3, DeliverTypes
  <2> QED
    BY <1>3, <2>1 DEF TypeOK, Deliver, clientVars, readVars, socksVars, relayVars, exitVars
<1>4. CASE ReadGreeting
  <2>1. Reads(2) /\ Buffer(2)[2] \in 0 .. Radix - 1
    BY <1>0b, <1>4 DEF ReadGreeting
  <2> QED  BY <1>0, <1>4, <2>1, ReadTypes DEF TypeOK, ReadGreeting
<1>5. CASE ReadMethods
  <2>1. Reads(size)
    BY <1>5 DEF ReadMethods
  <2> QED  BY <1>0, <1>0a, <1>5, <2>1, ReadTypes DEF TypeOK, ReadMethods
<1>6. CASE ReadHeader
  <2>1. Reads(4) /\ Buffer(4)[4] \in 0 .. Radix - 1
    <3>1. Reads(4)
      BY <1>6 DEF ReadHeader
    <3>2. Buffer(4)[4] \in 0 .. Radix - 1
      BY <1>0b
    <3> QED  BY <3>1, <3>2
  <2>2. /\ stage' \in {"closed", "address"}
        /\ reply' \in {reply, "command", "address type"}
        /\ atyp' \in 0 .. Radix - 1
        /\ UNCHANGED <<size, target, method>>
    <3>1. stage' \in {"closed", "address"}
      BY <1>6 DEF ReadHeader
    <3>2. reply' \in {reply, "command", "address type"}
      BY <1>6 DEF ReadHeader
    <3>3. atyp' \in 0 .. Radix - 1 /\ UNCHANGED <<size, target, method>>
      BY <1>6, <2>1 DEF ReadHeader
    <3> QED  BY <3>1, <3>2, <3>3
  <2> QED  BY <1>0, <2>1, <2>2, ReadTypes DEF TypeOK
<1>7. CASE ReadIP
  <2>1. IPLength(atyp) \in Nat /\ Reads(IPLength(atyp))
    BY <1>7 DEF IPLength, ReadIP
  <2>2. target' \in Text
    BY <1>0b, <1>7, <2>1, HostTypes DEF ReadIP
  <2> QED  BY <1>0, <1>7, <2>1, <2>2, ReadTypes DEF TypeOK, ReadIP
<1>8. CASE ReadDomainLength
  <2>1. Reads(1) /\ Buffer(1)[1] \in 0 .. Radix - 1
    BY <1>0b, <1>8 DEF ReadDomainLength
  <2> QED  BY <1>0, <1>8, <2>1, ReadTypes DEF TypeOK, ReadDomainLength
<1>9. CASE ReadDomain
  <2>1. Reads(size)
    BY <1>9 DEF ReadDomain
  <2>2. target' \in Text
    BY <1>0a, <1>0b, <1>9, HostTypes DEF ReadDomain
  <2> QED  BY <1>0, <1>0a, <1>9, <2>1, <2>2, ReadTypes DEF TypeOK, ReadDomain
<1>10. CASE ReadPort
  <2>1. Reads(2) /\ target' \in Text
    BY <1>0, <1>0b, <1>10, JoinTypes DEF ReadPort
  <2> QED  BY <1>0, <1>10, <2>1, ReadTypes DEF TypeOK, ReadPort
<1>11. CASE ReadFails \/ OpenRelayFails \/ WriteFails
  BY <1>11 DEF TypeOK, ReadFails, OpenRelayFails, WriteFails, clientVars, readVars,
     relayVars, tunnelVars, exitVars
<1>12. CASE OpenRelay
  <2>1. route \in Seq(Peers) /\ route # <<>>
    BY <1>0, <1>12 DEF OpenRelay
  <2>2. path' \in Seq(Peers) /\ name' \in Seq(Peers)
    BY <1>12, <2>1, HeadTailProperties DEF OpenRelay
  <2> QED  BY <1>12, <2>2 DEF TypeOK, OpenRelay, clientVars, readVars, tunnelVars, exitVars
<1>13. CASE ForwardToNextPeer
  <2>1. path' \in Seq(Peers) /\ name' \in Seq(Peers)
    BY <1>0, <1>13, HeadTailProperties DEF ForwardToNextPeer
  <2> QED
    BY <1>13, <2>1 DEF TypeOK, ForwardToNextPeer, clientVars, readVars, socksVars, tunnelVars, exitVars
<1>14. CASE HandleProxyTraffic \/ RelayFails \/ Dial
  <2>1. /\ relay' \in {"address", "failed", "connected"}
        /\ UNCHANGED <<path, name, clientVars, readVars, socksVars, tunnelVars, exitVars>>
    BY <1>14 DEF HandleProxyTraffic, RelayFails, Dial
  <2> QED
    BY <2>1 DEF TypeOK, clientVars, readVars, socksVars, tunnelVars, exitVars
<1>15. CASE SendLength
  <2>1. sending' \in Text
    BY <1>0, <1>15, LengthItem, JoinedTexts DEF SendLength, Writes
  <2> QED
    BY <1>15, <2>1 DEF TypeOK, SendLength, Writes, clientVars, readVars, relayVars, exitVars
<1>16. CASE SendAddress
  <2>1. sending' \in Text
    BY <1>0, <1>16, JoinedTexts DEF SendAddress, Writes
  <2> QED
    BY <1>16, <2>1 DEF TypeOK, SendAddress, Writes, clientVars, readVars, relayVars, exitVars
<1>17. CASE CopyUp
  <2>1. sending' \in Text
    BY <1>0, <1>17, Texts, JoinedTexts DEF CopyUp, Writes
  <2>2. arrived' \in Bytes
    BY <1>17 DEF CopyUp, Bytes
  <2> QED
    BY <1>17, <2>1, <2>2 DEF TypeOK, CopyUp, Writes, clientVars, socksVars, relayVars, exitVars
<1>18. CASE ReadLength
  <2>1. length' \in 0 .. Radix - 1
    <3>1. Len(target) % Radix \in 0 .. Radix - 1 /\ Head(stream) = <<Len(target) % Radix>>
      BY <1>0, <1>18, LengthFirst DEF Byte
    <3> QED  BY <1>18, <3>1 DEF ReadLength
  <2>2. stream' \in Text
    BY <1>0, <1>18, TailFacts DEF ReadLength
  <2> QED  BY <1>18, <2>1, <2>2 DEF TypeOK, ReadLength, clientVars, readVars, socksVars
<1>19. CASE ReadAddress
  <2>1. stream' \in Text /\ dialled' \in Text
    BY <1>0, <1>0a, <1>19, ReadAddressTypes
  <2> QED  BY <1>19, <2>1 DEF TypeOK, ReadAddress, clientVars, readVars, socksVars
<1>20. CASE CopyToTarget
  <2>1. received' \in Text
    BY <1>0, <1>20, JoinedTexts DEF CopyToTarget
  <2>2. stream' \in Text
    BY <1>20 DEF CopyToTarget, Text
  <2> QED
    BY <1>20, <2>1, <2>2 DEF TypeOK, CopyToTarget, clientVars, readVars, socksVars, relayVars
<1> QED
  BY <1>1, <1>2, <1>3, <1>4, <1>5, <1>6, <1>7, <1>8, <1>9, <1>10, <1>11, <1>12,
     <1>13, <1>14, <1>15, <1>16, <1>17, <1>18, <1>19, <1>20 DEF Next
-----------------------------------------------------------------------------
LEMMA Joined ==
  ASSUME NEW s \in Bytes, NEW t \in Bytes
  PROVE  /\ s \o t \in Bytes
         /\ Len(s \o t) = Len(s) + Len(t)
         /\ \A i \in 1 .. Len(s) : (s \o t)[i] = s[i]
         /\ \A i \in 1 .. Len(t) : (s \o t)[Len(s) + i] = t[i]
<1>1. s \in Seq(Byte) /\ t \in Seq(Byte) /\ Len(s) \in Nat /\ Len(t) \in Nat
  BY BytesFacts
<1>2. /\ s \o t \in Seq(Byte)
      /\ Len(s \o t) = Len(s) + Len(t)
      /\ \A i \in 1 .. Len(s) + Len(t) : (s \o t)[i] = IF i <= Len(s) THEN s[i] ELSE t[i - Len(s)]
  BY <1>1, ConcatProperties
<1>3. \A i \in 1 .. Len(s) : (s \o t)[i] = s[i]
  BY <1>1, <1>2
<1>4. \A i \in 1 .. Len(t) : (s \o t)[Len(s) + i] = t[i]
  BY <1>1, <1>2
<1> QED  BY <1>2, <1>3, <1>4 DEF Bytes, Byte

LEMMA ClientFacts ==
  ASSUME RequestAssumption, client \in Clients
  PROVE  /\ client.methods \in Bytes /\ MethodsLen \in Byte /\ MethodsLen \in Nat
         /\ client.cmd \in Byte /\ client.atyp \in Byte
         /\ client.host \in Bytes /\ HostLen \in Nat
         /\ client.atyp \notin {IPv4, IPv6} => HostLen \in Byte
         /\ client.atyp \in {IPv4, IPv6} => HostLen = IPLength(client.atyp)
         /\ client.port \in Bytes /\ Len(client.port) = 2
         /\ Data \in Bytes /\ DataLen \in Nat
<1>1. /\ client.methods \in Seq(0 .. Radix - 1) /\ MethodsLen < Radix
      /\ client.cmd \in 0 .. Radix - 1 /\ client.atyp \in 0 .. Radix - 1
      /\ client.host \in Seq(0 .. Radix - 1)
      /\ \/ client.atyp = IPv4 /\ HostLen = 4
         \/ client.atyp = IPv6 /\ HostLen = 16
         \/ client.atyp \notin {IPv4, IPv6} /\ HostLen < Radix
      /\ client.port \in Seq(0 .. Radix - 1) /\ Len(client.port) = 2
      /\ Data \in Seq(0 .. Radix - 1)
  BY DEF RequestAssumption, MethodsLen, HostLen, Data
<1>2. client.methods \in Bytes /\ client.host \in Bytes /\ Data \in Bytes
  BY <1>1 DEF Bytes
<1>3. client.port \in Bytes /\ Len(client.port) = 2
  BY <1>1 DEF Bytes
<1>4. MethodsLen \in Nat /\ HostLen \in Nat /\ DataLen \in Nat
  BY <1>2, BytesFacts DEF MethodsLen, HostLen, DataLen
<1>5. MethodsLen \in Byte
  BY <1>1, <1>4, Width DEF Byte
<1>6. client.atyp \notin {IPv4, IPv6} => HostLen \in Byte
  BY <1>1, <1>4, Width DEF Byte
<1>7. client.atyp \in {IPv4, IPv6} => HostLen = IPLength(client.atyp)
  BY <1>1 DEF IPLength, IPv4, IPv6
<1> QED  BY <1>1, <1>2, <1>3, <1>4, <1>5, <1>6, <1>7 DEF Byte

(* Where the fields of what the client sends are.                          *)
LEMMA Layout ==
  ASSUME RequestAssumption, client \in Clients
  PROVE  /\ Sent \in Bytes
         /\ Len(Sent) = DataAt + DataLen
         /\ Sent[1] = Version /\ Sent[2] = MethodsLen
         /\ \A i \in 1 .. MethodsLen : Sent[2 + i] = client.methods[i]
         /\ Sent[2 + MethodsLen + 1] = Version
         /\ Sent[2 + MethodsLen + 2] = client.cmd
         /\ Sent[2 + MethodsLen + 4] = client.atyp
         /\ client.atyp = Domain => Sent[AddressAt + 1] = HostLen
         /\ \A i \in 1 .. HostLen : Sent[HostAt + i] = client.host[i]
         /\ \A i \in 1 .. 2 : Sent[PortAt + i] = client.port[i]
         /\ \A i \in 1 .. DataLen : Sent[DataAt + i] = Data[i]
         /\ DataAt = Len(Greeting(client) \o Request(client))
<1> DEFINE hello == <<Version, MethodsLen>>
           head == <<Version, client.cmd, 0, client.atyp>>
           len == IF client.atyp = Domain THEN <<HostLen>> ELSE <<>>
           r1 == head \o len
           r2 == r1 \o client.host
           r3 == r2 \o client.port
           g == hello \o client.methods
           s == g \o r3
<1> HIDE DEF hello, head, len, r1, r2, r3, g, s
<1>1. /\ client.methods \in Bytes /\ MethodsLen \in Byte /\ MethodsLen \in Nat
      /\ client.cmd \in Byte /\ client.atyp \in Byte
      /\ client.host \in Bytes /\ HostLen \in Nat
      /\ client.atyp = Domain => HostLen \in Byte
      /\ client.port \in Bytes /\ Len(client.port) = 2
      /\ Data \in Bytes /\ DataLen \in Nat
  BY ClientFacts DEF Domain, IPv4, IPv6
<1>2. Version \in Byte /\ 0 \in Byte
  BY Width DEF Version, Byte
<1>3. hello \in Bytes /\ Len(hello) = 2 /\ hello[1] = Version /\ hello[2] = MethodsLen
  BY <1>1, <1>2 DEF Bytes, Byte, hello
<1>4. /\ head \in Bytes /\ Len(head) = 4
      /\ head[1] = Version /\ head[2] = client.cmd /\ head[4] = client.atyp
  BY <1>1, <1>2 DEF Bytes, Byte, head
<1>5. /\ len \in Bytes
      /\ client.atyp = Domain => Len(len) = 1
      /\ client.atyp # Domain => Len(len) = 0
      /\ client.atyp = Domain => len[1] = HostLen
  <2>1. CASE client.atyp = Domain
    <3>1. <<HostLen>> \in Bytes
      BY <1>1, <2>1 DEF Bytes, Byte
    <3> QED  BY <2>1, <3>1 DEF len
  <2>2. CASE client.atyp # Domain
    BY <2>2 DEF Bytes, len
  <2> QED  BY <2>1, <2>2
<1>6. Sent = s \o Data
  BY DEF Sent, Greeting, Request, hello, head, len, r1, r2, r3, g, s, MethodsLen, HostLen, Data
<1>7. /\ g \in Bytes /\ Len(g) = 2 + MethodsLen /\ g[1] = Version /\ g[2] = MethodsLen
      /\ \A i \in 1 .. MethodsLen : g[2 + i] = client.methods[i]
  <2>1. /\ g \in Bytes /\ Len(g) = Len(hello) + MethodsLen
        /\ \A i \in 1 .. Len(hello) : g[i] = hello[i]
        /\ \A i \in 1 .. MethodsLen : g[Len(hello) + i] = client.methods[i]
    BY <1>1, <1>3, Joined DEF g, MethodsLen
  <2> QED  BY <1>1, <1>3, <2>1
<1>8. /\ r1 \in Bytes /\ Len(r1) = 4 + Len(len)
      /\ r1[1] = Version /\ r1[2] = client.cmd /\ r1[4] = client.atyp
      /\ client.atyp = Domain => r1[5] = HostLen
  <2>1. r1 \in Bytes /\ Len(r1) = Len(head) + Len(len)
    BY <1>4, <1>5, Joined DEF r1
  <2>2. r1[1] = head[1] /\ r1[2] = head[2] /\ r1[4] = head[4]
    <3>1. \A i \in 1 .. Len(head) : r1[i] = head[i]
      BY <1>4, <1>5, Joined DEF r1
    <3> QED  BY <1>4, <3>1
  <2>3. ASSUME client.atyp = Domain PROVE r1[5] = HostLen
    <3>1. \A i \in 1 .. Len(len) : r1[Len(head) + i] = len[i]
      BY <1>4, <1>5, Joined DEF r1
    <3>2. Len(head) = 4 /\ Len(len) = 1 /\ len[1] = HostLen
      BY <1>4, <1>5, <2>3
    <3>3. r1[4 + 1] = len[1]
      BY <3>1, <3>2
    <3> QED  BY <3>2, <3>3
  <2> QED  BY <1>4, <2>1, <2>2, <2>3
<1>9. /\ r2 \in Bytes /\ Len(r2) = Len(r1) + HostLen
      /\ \A i \in 1 .. Len(r1) : r2[i] = r1[i]
      /\ \A i \in 1 .. HostLen : r2[Len(r1) + i] = client.host[i]
  BY <1>1, <1>8, Joined DEF r2, HostLen
<1>10. /\ r3 \in Bytes /\ Len(r3) = Len(r2) + 2
       /\ \A i \in 1 .. Len(r2) : r3[i] = r2[i]
       /\ \A i \in 1 .. 2 : r3[Len(r2) + i] = client.port[i]
  <2>1. /\ r3 \in Bytes /\ Len(r3) = Len(r2) + Len(client.port)
        /\ \A i \in 1 .. Len(r2) : r3[i] = r2[i]
        /\ \A i \in 1 .. Len(client.port) : r3[Len(r2) + i] = client.port[i]
    BY <1>1, <1>9, Joined DEF r3
  <2> QED  BY <1>1, <2>1
<1>11. /\ s \in Bytes /\ Len(s) = Len(g) + Len(r3)
       /\ \A i \in 1 .. Len(g) : s[i] = g[i]
       /\ \A i \in 1 .. Len(r3) : s[Len(g) + i] = r3[i]
  BY <1>7, <1>10, Joined DEF s
<1>12. /\ Sent \in Bytes /\ Len(Sent) = Len(s) + DataLen
       /\ \A i \in 1 .. Len(s) : Sent[i] = s[i]
       /\ \A i \in 1 .. DataLen : Sent[Len(s) + i] = Data[i]
  <2>1. s \in Bytes /\ Data \in Bytes
    BY <1>1, <1>11
  <2>2. /\ s \o Data \in Bytes /\ Len(s \o Data) = Len(s) + DataLen
        /\ \A i \in 1 .. Len(s) : (s \o Data)[i] = s[i]
        /\ \A i \in 1 .. DataLen : (s \o Data)[Len(s) + i] = Data[i]
    BY <2>1, Joined DEF DataLen
  <2> QED  BY <1>6, <2>2
<1>12a. Len(r1) \in Nat /\ Len(r2) \in Nat /\ Len(r3) \in Nat /\ Len(g) \in Nat /\ Len(s) \in Nat
  BY <1>7, <1>8, <1>9, <1>10, <1>11, BytesFacts
<1>13. Len(len) \in 0 .. 1 /\ HostAt = AddressAt + Len(len)
  <2>1. AddressAt \in Nat
    BY <1>1 DEF AddressAt
  <2>2. CASE client.atyp = Domain
    <3>1. Len(len) = 1 /\ HostAt = AddressAt + 1
      BY <1>5, <2>2 DEF HostAt
    <3> QED  BY <3>1
  <2>3. CASE client.atyp # Domain
    <3>1. Len(len) = 0 /\ HostAt = AddressAt
      BY <1>5, <2>3 DEF HostAt
    <3> QED  BY <2>1, <3>1
  <2> QED  BY <2>2, <2>3
<1>13a. /\ Len(g) = 2 + MethodsLen /\ Len(r1) = 4 + Len(len)
        /\ Len(r2) = Len(r1) + HostLen /\ Len(r3) = Len(r2) + 2
        /\ Len(s) = Len(g) + Len(r3) /\ AddressAt = 6 + MethodsLen
        /\ PortAt = HostAt + HostLen /\ DataAt = PortAt + 2
        /\ MethodsLen \in Nat /\ HostLen \in Nat
  BY <1>1, <1>7, <1>8, <1>9, <1>10, <1>11 DEF AddressAt, PortAt, DataAt
<1>13b. /\ HostAt = 2 + MethodsLen + Len(r1) /\ PortAt = 2 + MethodsLen + Len(r2)
        /\ Len(s) = DataAt /\ HostAt \in Nat /\ PortAt \in Nat /\ DataAt \in Nat
  <2>1. Len(len) \in Nat /\ MethodsLen \in Nat /\ HostLen \in Nat
    BY <1>13, <1>13a
  <2>2. HostAt = 6 + MethodsLen + Len(len)
    BY <1>13, <1>13a
  <2>3. HostAt \in Nat /\ HostAt = 2 + MethodsLen + Len(r1)
    <3>1. Len(r1) = 4 + Len(len)
      BY <1>13a
    <3> QED  BY <2>1, <2>2, <3>1
  <2>4. PortAt \in Nat /\ PortAt = 2 + MethodsLen + Len(r2)
    <3>1. Len(r2) = Len(r1) + HostLen /\ PortAt = HostAt + HostLen
      BY <1>13a
    <3> QED  BY <2>1, <2>3, <3>1
  <2>5. DataAt \in Nat /\ DataAt = 2 + MethodsLen + Len(r3)
    <3>1. Len(r3) = Len(r2) + 2 /\ DataAt = PortAt + 2
      BY <1>13a
    <3> QED  BY <2>1, <2>4, <3>1
  <2>6. Len(s) = DataAt
    <3>1. Len(s) = Len(g) + Len(r3) /\ Len(g) = 2 + MethodsLen
      BY <1>13a
    <3> QED  BY <2>1, <2>5, <3>1
  <2> QED  BY <2>3, <2>4, <2>5, <2>6
<1>14. \A i \in 1 .. Len(g) : Sent[i] = g[i]
  <2> SUFFICES ASSUME NEW i \in 1 .. Len(g) PROVE Sent[i] = g[i]
    OBVIOUS
  <2>1. i \in 1 .. Len(s)
    <3>1. Len(g) \in Nat /\ Len(r3) \in Nat /\ Len(s) = Len(g) + Len(r3)
      BY <1>12a, <1>13a
    <3> QED  BY <3>1
  <2>2. s[i] = g[i]
    BY <1>11
  <2> QED  BY <1>12, <2>1, <2>2
<1>15. \A i \in 1 .. Len(r3) : Sent[2 + MethodsLen + i] = r3[i]
  <2> SUFFICES ASSUME NEW i \in 1 .. Len(r3) PROVE Sent[2 + MethodsLen + i] = r3[i]
    OBVIOUS
  <2>1. s[Len(g) + i] = r3[i] /\ Len(g) + i \in 1 .. Len(s)
    BY <1>1, <1>7, <1>11, <1>12a
  <2>2. Sent[Len(g) + i] = s[Len(g) + i]
    BY <1>12, <2>1
  <2> QED  BY <1>7, <2>1, <2>2
<1>16. \A i \in 1 .. Len(r1) : Sent[2 + MethodsLen + i] = r1[i]
  <2> SUFFICES ASSUME NEW i \in 1 .. Len(r1)
               PROVE  Sent[2 + MethodsLen + i] = r1[i]
    OBVIOUS
  <2>1. i \in 1 .. Len(r2) /\ i \in 1 .. Len(r3)
    <3>1. /\ Len(r1) \in Nat /\ HostLen \in Nat
          /\ Len(r2) = Len(r1) + HostLen /\ Len(r3) = Len(r2) + 2
      BY <1>12a, <1>13a
    <3> QED  BY <3>1
  <2>2. r3[i] = r2[i] /\ r2[i] = r1[i]
    BY <1>9, <1>10, <2>1
  <2> QED  BY <1>15, <2>1, <2>2
<1>17. Sent[1] = Version /\ Sent[2] = MethodsLen
  <2>1. 1 \in 1 .. Len(g) /\ 2 \in 1 .. Len(g)
    BY <1>13a
  <2> QED  BY <1>7, <1>14, <2>1
<1>18. \A i \in 1 .. MethodsLen : Sent[2 + i] = client.methods[i]
  <2> SUFFICES ASSUME NEW i \in 1 .. MethodsLen PROVE Sent[2 + i] = client.methods[i]
    OBVIOUS
  <2>1. 2 + i \in 1 .. Len(g)
    BY <1>13a
  <2>2. g[2 + i] = client.methods[i]
    BY <1>7
  <2> QED  BY <1>14, <2>1, <2>2
<1>19. /\ Sent[2 + MethodsLen + 1] = Version /\ Sent[2 + MethodsLen + 2] = client.cmd
       /\ Sent[2 + MethodsLen + 4] = client.atyp
       /\ client.atyp = Domain => Sent[2 + MethodsLen + 5] = HostLen
  <2>1. 1 \in 1 .. Len(r1) /\ 2 \in 1 .. Len(r1) /\ 4 \in 1 .. Len(r1)
    BY <1>13, <1>13a
  <2>2. ASSUME client.atyp = Domain PROVE 5 \in 1 .. Len(r1)
    <3>1. Len(len) = 1
      BY <1>5, <2>2
    <3> QED  BY <1>13a, <3>1
  <2>3. r1[1] = Version /\ r1[2] = client.cmd /\ r1[4] = client.atyp
    BY <1>8
  <2>4. client.atyp = Domain => r1[5] = HostLen
    BY <1>8
  <2> QED  BY <1>16, <2>1, <2>2, <2>3, <2>4
<1>20. client.atyp = Domain => Sent[AddressAt + 1] = HostLen
  <2>1. AddressAt + 1 = 2 + MethodsLen + 5
    BY <1>13, <1>13a, <1>13b
  <2> QED  BY <1>19, <2>1
<1>21. \A i \in 1 .. HostLen : Sent[HostAt + i] = client.host[i]
  <2> SUFFICES ASSUME NEW i \in 1 .. HostLen PROVE Sent[HostAt + i] = client.host[i]
    OBVIOUS
  <2>1. Len(r1) + i \in 1 .. Len(r2) /\ Len(r1) + i \in 1 .. Len(r3)
    <3>1. /\ Len(r1) \in Nat /\ HostLen \in Nat
          /\ Len(r2) = Len(r1) + HostLen /\ Len(r3) = Len(r2) + 2
      BY <1>12a, <1>13a
    <3> QED  BY <3>1
  <2>2. r3[Len(r1) + i] = client.host[i]
    <3>1. r2[Len(r1) + i] = client.host[i]
      BY <1>9
    <3>2. r3[Len(r1) + i] = r2[Len(r1) + i]
      BY <1>10, <2>1
    <3> QED  BY <3>1, <3>2
  <2>3. HostAt + i = 2 + MethodsLen + (Len(r1) + i)
    <3>1. /\ MethodsLen \in Nat /\ HostAt \in Nat /\ i \in Nat /\ Len(r1) \in Nat
          /\ HostAt = 2 + MethodsLen + Len(r1)
      BY <1>12a, <1>13a, <1>13b
    <3> QED  BY <3>1
  <2> QED  BY <1>15, <2>1, <2>2, <2>3
<1>22. \A i \in 1 .. 2 : Sent[PortAt + i] = client.port[i]
  <2> SUFFICES ASSUME NEW i \in 1 .. 2 PROVE Sent[PortAt + i] = client.port[i]
    OBVIOUS
  <2>1. Len(r2) + i \in 1 .. Len(r3)
    <3>1. Len(r2) \in Nat /\ Len(r3) = Len(r2) + 2
      BY <1>12a, <1>13a
    <3> QED  BY <3>1
  <2>2. PortAt + i = 2 + MethodsLen + (Len(r2) + i)
    <3>1. /\ MethodsLen \in Nat /\ PortAt \in Nat /\ i \in Nat /\ Len(r2) \in Nat
          /\ PortAt = 2 + MethodsLen + Len(r2)
      BY <1>12a, <1>13a, <1>13b
    <3> QED  BY <3>1
  <2> QED  BY <1>10, <1>15, <2>1, <2>2
<1>23. \A i \in 1 .. DataLen : Sent[DataAt + i] = Data[i]
  BY <1>12, <1>13b
<1>24. DataAt = Len(Greeting(client) \o Request(client))
  <2>1. s = Greeting(client) \o Request(client)
    BY DEF Greeting, Request, hello, head, len, r1, r2, r3, g, s, MethodsLen, HostLen
  <2> QED  BY <1>13b, <2>1
<1> QED
  BY <1>12, <1>13b, <1>17, <1>18, <1>19, <1>20, <1>21, <1>22, <1>23, <1>24
-----------------------------------------------------------------------------
LEMMA SentFixed ==
  ASSUME UNCHANGED client
  PROVE  /\ UNCHANGED <<Sent, MethodsLen, HostLen, DataLen, AddressAt, HostAt, PortAt, DataAt>>
         /\ UNCHANGED <<Asked, Target(client), HostText(client.atyp, client.host), Data>>
BY DEF Sent, Greeting, Request, MethodsLen, HostLen, Data, DataLen, AddressAt, HostAt, PortAt, DataAt,
   Asked, Target

LEMMA Positions ==
  ASSUME RequestAssumption, client \in Clients
  PROVE  /\ Sent \in Bytes /\ Len(Sent) \in Nat /\ Len(Sent) = DataAt + DataLen
         /\ MethodsLen \in Nat /\ HostLen \in Nat /\ DataLen \in Nat
         /\ AddressAt \in Nat /\ HostAt \in Nat /\ PortAt \in Nat /\ DataAt \in Nat
         /\ AddressAt = 6 + MethodsLen /\ PortAt = HostAt + HostLen /\ DataAt = PortAt + 2
         /\ client.atyp = Domain => HostAt = AddressAt + 1
         /\ client.atyp # Domain => HostAt = AddressAt
<1>1. MethodsLen \in Nat /\ HostLen \in Nat /\ DataLen \in Nat
  BY ClientFacts
<1>2. AddressAt \in Nat /\ AddressAt = 6 + MethodsLen
  BY <1>1 DEF AddressAt
<1>3. /\ HostAt \in Nat
      /\ client.atyp = Domain => HostAt = AddressAt + 1
      /\ client.atyp # Domain => HostAt = AddressAt
  <2>1. CASE client.atyp = Domain
    BY <1>2, <2>1 DEF HostAt
  <2>2. CASE client.atyp # Domain
    BY <1>2, <2>2 DEF HostAt
  <2> QED  BY <2>1, <2>2
<1>4. PortAt \in Nat /\ PortAt = HostAt + HostLen
  BY <1>1, <1>3 DEF PortAt
<1>5. DataAt \in Nat /\ DataAt = PortAt + 2
  BY <1>4 DEF DataAt
<1>6. Sent \in Bytes /\ Len(Sent) = DataAt + DataLen
  BY Layout
<1>7. Len(Sent) \in Nat
  BY <1>6, BytesFacts
<1> QED  BY <1>1, <1>2, <1>3, <1>4, <1>5, <1>6, <1>7

LEMMA PositionInSent ==
  ASSUME RequestAssumption, TypeOK
  PROVE  /\ Len(arrived) \in Nat /\ Len(coming) \in Nat /\ Len(Sent) \in Nat
         /\ Position \in Int /\ Position <= Len(Sent)
<1>1. client \in Clients /\ arrived \in Bytes /\ coming \in Bytes
  BY DEF TypeOK
<1>2. Len(arrived) \in Nat /\ Len(coming) \in Nat /\ Len(Sent) \in Nat
  BY <1>1, BytesFacts, Positions
<1> QED  BY <1>2 DEF Position

(* A read takes the next bytes; a full one fills its buffer with them.     *)
LEMMA ReadField ==
  ASSUME RequestAssumption, client \in Clients, arrived \in Bytes, coming \in Bytes,
         cut \in BOOLEAN, InOrder, NEW k \in Nat, Reads(k)
  PROVE  /\ InOrder'
         /\ ~cut' => ~cut
         /\ ~cut' => Position' = Position + k /\ \A i \in 1 .. k : Buffer(k)[i] = Sent[Position + i]
<1>1. /\ arrived \in Seq(Byte) /\ Len(arrived) \in Nat /\ Len(coming) \in Nat /\ Len(Sent) \in Nat
  BY BytesFacts, Positions
<1>2. /\ Position = Len(Sent) - Len(arrived) - Len(coming) /\ Position >= 0
      /\ \A i \in 1 .. Len(arrived) : arrived[i] = Sent[Position + i]
      /\ \A i \in 1 .. Len(coming) : coming[i] = Sent[Position + Len(arrived) + i]
  BY DEF InOrder, Position
<1>3. /\ arrived' = SubSeq(arrived, k + 1, Len(arrived)) /\ coming' = coming
      /\ cut' = (cut \/ Len(arrived) < k)
      /\ client' = client
  BY DEF Reads, clientVars
<1>4. Sent' = Sent
  BY <1>3, SentFixed
<1>5. /\ Len(arrived') = IF k <= Len(arrived) THEN Len(arrived) - k ELSE 0
      /\ \A i \in 1 .. Len(arrived) - k : arrived'[i] = arrived[k + i]
  BY <1>1, <1>3, Remainder
<1>6. Position' = Len(Sent) - Len(arrived') - Len(coming)
  BY <1>3, <1>4 DEF Position
<1>7. CASE k <= Len(arrived)
  <2>1. Len(arrived') = Len(arrived) - k
    BY <1>5, <1>7
  <2>2. Position' = Position + k /\ Position \in Int
    BY <1>1, <1>2, <1>6, <2>1
  <2>3. \A i \in 1 .. Len(arrived') : arrived'[i] = Sent[Position' + i]
    <3> SUFFICES ASSUME NEW i \in 1 .. Len(arrived') PROVE arrived'[i] = Sent[Position' + i]
      OBVIOUS
    <3>1. arrived'[i] = arrived[k + i] /\ k + i \in 1 .. Len(arrived)
      BY <1>1, <1>5, <1>7, <2>1
    <3>2. arrived[k + i] = Sent[Position + (k + i)] /\ Position + (k + i) = Position' + i
      BY <1>2, <2>2, <3>1
    <3> QED  BY <3>1, <3>2
  <2>4. \A i \in 1 .. Len(coming') : coming'[i] = Sent[Position' + Len(arrived') + i]
    <3>1. Position' + Len(arrived') = Position + Len(arrived)
      BY <1>1, <2>1, <2>2
    <3> QED  BY <1>2, <1>3, <3>1
  <2>5. \A i \in 1 .. k : Buffer(k)[i] = Sent[Position + i]
    <3>1. \A i \in 1 .. k : Buffer(k)[i] = arrived[i]
      BY <1>1, <1>7, Buffers
    <3> QED  BY <1>1, <1>2, <1>7, <3>1
  <2>6. Position' >= 0
    BY <1>2, <2>2
  <2>7. InOrder'
    BY <1>4, <2>3, <2>4, <2>6 DEF InOrder
  <2> QED  BY <1>3, <2>2, <2>5, <2>7
<1>8. CASE ~(k <= Len(arrived))
  <2>0. Len(arrived) < k
    BY <1>1, <1>8
  <2>1. Len(arrived') = 0 /\ cut'
    BY <1>3, <1>5, <1>8, <2>0
  <2>2. Position' = Position + Len(arrived) /\ Position \in Int
    BY <1>1, <1>2, <1>6, <2>1
  <2>3. \A i \in 1 .. Len(coming') : coming'[i] = Sent[Position' + Len(arrived') + i]
    <3>1. Position' + Len(arrived') = Position + Len(arrived)
      BY <1>1, <2>1, <2>2
    <3> QED  BY <1>2, <1>3, <3>1
  <2>4. Position' >= 0
    BY <1>1, <1>2, <2>2
  <2>5. InOrder'
    BY <1>4, <2>1, <2>3, <2>4 DEF InOrder
  <2> QED  BY <2>1, <2>5
<1> QED  BY <1>7, <1>8

LEMMA InOrderStep ==
  ASSUME RequestAssumption, TypeOK, InOrder, [Next]_vars
  PROVE  /\ InOrder'
         /\ ~cut' => ~cut
         /\ UNCHANGED <<client, route, Sent>>
<1>0. /\ client \in Clients /\ arrived \in Bytes /\ coming \in Bytes /\ cut \in BOOLEAN
      /\ size \in Nat /\ Len(arrived) \in Nat /\ Len(coming) \in Nat /\ Len(Sent) \in Nat
      /\ arrived \in Seq(Byte) /\ coming \in Seq(Byte)
  <2>1. /\ client \in Clients /\ arrived \in Bytes /\ coming \in Bytes /\ cut \in BOOLEAN
        /\ size \in 0 .. Radix - 1
    BY DEF TypeOK
  <2>2. size \in Nat
    BY <2>1, Width
  <2> QED  BY <2>1, <2>2, BytesFacts, Positions
<1>1. UNCHANGED <<client, route>>
  BY DEF Next, vars, Arrive, Deliver, Reads, ReadGreeting, ReadMethods, ReadHeader, ReadIP,
     ReadDomainLength, ReadDomain, ReadPort, ReadFails, OpenRelayFails, OpenRelay,
     ForwardToNextPeer, HandleProxyTraffic, RelayFails, SendLength, SendAddress, CopyUp,
     Writes, WriteFails, ReadLength, ReadAddress, Dial, CopyToTarget, clientVars
<1>2. Sent' = Sent
  BY <1>1, SentFixed
<1>3. ASSUME NEW k \in Nat, Reads(k) PROVE InOrder' /\ (~cut' => ~cut)
  BY <1>0, <1>3, ReadField
<1>4. CASE \/ ReadGreeting \/ ReadMethods \/ ReadHeader \/ ReadIP
           \/ ReadDomainLength \/ ReadDomain \/ ReadPort
  <2>1. IPLength(atyp) \in Nat
    BY DEF IPLength
  <2>2. \E k \in Nat : Reads(k)
    BY <1>0, <1>4, <2>1 DEF ReadGreeting, ReadMethods, ReadHeader, ReadIP, ReadDomainLength,
       ReadDomain, ReadPort
  <2> QED  BY <1>1, <1>2, <1>3, <2>2
<1>5. ASSUME NEW k \in DOMAIN coming, Arrive(k) PROVE InOrder' /\ cut' = cut
  <2>1. /\ Position = Len(Sent) - Len(arrived) - Len(coming) /\ Position >= 0
        /\ \A i \in 1 .. Len(arrived) : arrived[i] = Sent[Position + i]
        /\ \A i \in 1 .. Len(coming) : coming[i] = Sent[Position + Len(arrived) + i]
    BY DEF InOrder, Position
  <2>2. k \in 1 .. Len(coming) /\ k \in Nat
    BY <1>0, BytesFacts
  <2>3. /\ Len(arrived') = Len(arrived) + k
        /\ \A i \in 1 .. Len(arrived) : arrived'[i] = arrived[i]
        /\ \A i \in Len(arrived) + 1 .. Len(arrived) + k : arrived'[i] = coming[i - Len(arrived)]
    <3>1. arrived' = arrived \o SubSeq(coming, 1, k)
      BY <1>5 DEF Arrive
    <3> QED  BY <1>0, <2>2, <3>1, Piece
  <2>4. /\ Len(coming') = Len(coming) - k
        /\ \A i \in 1 .. Len(coming) - k : coming'[i] = coming[k + i]
    <3>1. coming' = SubSeq(coming, k + 1, Len(coming))
      BY <1>5 DEF Arrive
    <3>2. k <= Len(coming)
      BY <2>2
    <3>3. /\ Len(coming') = IF k <= Len(coming) THEN Len(coming) - k ELSE 0
          /\ \A i \in 1 .. Len(coming) - k : coming'[i] = coming[k + i]
      BY <1>0, <2>2, <3>1, Remainder
    <3> QED  BY <3>2, <3>3
  <2>5. Position' = Position /\ Position \in Int
    <3>1. Position' = Len(Sent) - Len(arrived') - Len(coming')
      BY <1>2 DEF Position
    <3>2. Position' = Len(Sent) - (Len(arrived) + k) - (Len(coming) - k)
      BY <2>3, <2>4, <3>1
    <3>3. Position' = Len(Sent) - Len(arrived) - Len(coming)
      BY <1>0, <2>2, <3>2
    <3> QED  BY <1>0, <2>1, <3>3
  <2>6. \A i \in 1 .. Len(arrived') : arrived'[i] = Sent[Position + i]
    <3> SUFFICES ASSUME NEW i \in 1 .. Len(arrived') PROVE arrived'[i] = Sent[Position + i]
      OBVIOUS
    <3>1. CASE i <= Len(arrived)
      BY <1>0, <2>1, <2>3, <3>1
    <3>2. CASE i > Len(arrived)
      <4>1. arrived'[i] = coming[i - Len(arrived)] /\ i - Len(arrived) \in 1 .. Len(coming)
        BY <1>0, <2>2, <2>3, <3>2
      <4>2. coming[i - Len(arrived)] = Sent[Position + Len(arrived) + (i - Len(arrived))]
        BY <2>1, <4>1
      <4>3. Position + Len(arrived) + (i - Len(arrived)) = Position + i
        BY <1>0, <2>2, <2>3, <2>5
      <4> QED  BY <4>1, <4>2, <4>3
    <3> QED  BY <1>0, <2>2, <2>3, <3>1, <3>2
  <2>7. \A i \in 1 .. Len(coming') : coming'[i] = Sent[Position + Len(arrived') + i]
    <3> SUFFICES ASSUME NEW i \in 1 .. Len(coming')
                 PROVE  coming'[i] = Sent[Position + Len(arrived') + i]
      OBVIOUS
    <3>1. coming'[i] = coming[k + i] /\ k + i \in 1 .. Len(coming)
      <4>1. i \in 1 .. Len(coming) - k
        BY <2>4
      <4>2. k + i \in 1 .. Len(coming)
        BY <1>0, <2>2, <4>1
      <4> QED  BY <2>4, <4>1, <4>2
    <3>2. coming[k + i] = Sent[Position + Len(arrived) + (k + i)]
      BY <2>1, <3>1
    <3>3. Position + Len(arrived) + (k + i) = Position + Len(arrived') + i
      <4>1. i \in Int /\ k \in Int /\ Len(arrived) \in Int /\ Position \in Int
        BY <1>0, <2>2, <2>4, <2>5
      <4>2. Len(arrived') = Len(arrived) + k
        BY <2>3
      <4> QED  BY <4>1, <4>2
    <3> QED  BY <3>1, <3>2, <3>3
  <2> QED  BY <1>2, <1>5, <2>1, <2>5, <2>6, <2>7 DEF InOrder, Arrive
<1>6. CASE CopyUp
  <2>1. arrived' = <<>> /\ coming' = coming /\ cut' = cut
    BY <1>6 DEF CopyUp
  <2>2. Len(arrived') = 0
    BY <2>1
  <2>3. /\ Position = Len(Sent) - Len(arrived) - Len(coming) /\ Position >= 0
        /\ Position' = Len(Sent) - Len(arrived') - Len(coming)
        /\ \A i \in 1 .. Len(coming) : coming[i] = Sent[Position + Len(arrived) + i]
    BY <1>2, <2>1 DEF InOrder, Position
  <2>4. Position' = Position + Len(arrived) /\ Position \in Int
    BY <1>0, <2>2, <2>3
  <2>5. \A i \in 1 .. Len(coming') : coming'[i] = Sent[Position' + Len(arrived') + i]
    <3>1. Position' + Len(arrived') = Position + Len(arrived)
      BY <1>0, <2>2, <2>4
    <3> QED  BY <2>1, <2>3, <3>1
  <2>6. Position' >= 0
    BY <1>0, <2>3, <2>4
  <2>7. InOrder'
    BY <1>2, <2>2, <2>5, <2>6 DEF InOrder
  <2> QED  BY <1>1, <1>2, <2>1, <2>7
<1>7. CASE UNCHANGED <<client, arrived, coming, cut>>
  BY <1>1, <1>2, <1>7 DEF InOrder, Position
<1> QED
  BY <1>1, <1>2, <1>4, <1>5, <1>6, <1>7 DEF Next, vars, Deliver, ReadFails, OpenRelayFails,
     OpenRelay, ForwardToNextPeer, HandleProxyTraffic, RelayFails, SendLength, SendAddress,
     Writes, WriteFails, ReadLength, ReadAddress, Dial, CopyToTarget, clientVars, readVars
-----------------------------------------------------------------------------
(* What a full read at a known position returns.                           *)
LEMMA SameBytes ==
  ASSUME NEW s \in Bytes, NEW t \in Bytes, Len(s) = Len(t), \A i \in 1 .. Len(s) : s[i] = t[i]
  PROVE  s = t
<1>1. s \in Seq(Byte) /\ t \in Seq(Byte)
  BY BytesFacts
<1> QED  BY <1>1, SeqEqual

LEMMA FullRead ==
  ASSUME RequestAssumption, TypeOK, InOrder, NEW k \in Nat, Reads(k), ~cut'
  PROVE  /\ ~cut /\ Position' = Position + k
         /\ Buffer(k) \in Bytes /\ Len(Buffer(k)) = k
         /\ \A i \in 1 .. k : Buffer(k)[i] = Sent[Position + i]
<1>1. client \in Clients /\ arrived \in Bytes /\ coming \in Bytes /\ cut \in BOOLEAN
  BY DEF TypeOK
<1> QED  BY <1>1, ReadField, Buffers

LEMMA HostRead ==
  ASSUME RequestAssumption, TypeOK, InOrder, Reads(HostLen), ~cut', Position = HostAt
  PROVE  Buffer(HostLen) = client.host /\ Position' = PortAt
<1>1. client \in Clients
  BY DEF TypeOK
<1>2. HostLen \in Nat /\ HostAt \in Nat /\ PortAt = HostAt + HostLen /\ client.host \in Bytes
  BY <1>1, Positions, ClientFacts
<1>3. /\ Position' = Position + HostLen
      /\ Buffer(HostLen) \in Bytes /\ Len(Buffer(HostLen)) = HostLen
      /\ \A i \in 1 .. HostLen : Buffer(HostLen)[i] = Sent[HostAt + i]
  BY <1>2, FullRead
<1>4. \A i \in 1 .. HostLen : Sent[HostAt + i] = client.host[i]
  BY <1>1, Layout
<1>5. Len(client.host) = HostLen
  BY DEF HostLen
<1>6. Buffer(HostLen) = client.host
  <2>1. Len(Buffer(HostLen)) = Len(client.host)
    BY <1>3, <1>5
  <2>2. \A i \in 1 .. Len(Buffer(HostLen)) : Buffer(HostLen)[i] = client.host[i]
    BY <1>3, <1>4
  <2>3. Buffer(HostLen) \in Bytes /\ client.host \in Bytes
    BY <1>2, <1>3
  <2> QED  BY <2>1, <2>2, <2>3, SameBytes
<1> QED  BY <1>2, <1>3, <1>6

LEMMA PortRead ==
  ASSUME RequestAssumption, TypeOK, InOrder, Reads(2), ~cut', Position = PortAt
  PROVE  Buffer(2) = client.port /\ Position' = DataAt
<1>1. client \in Clients
  BY DEF TypeOK
<1>2. PortAt \in Nat /\ DataAt = PortAt + 2 /\ client.port \in Bytes /\ Len(client.port) = 2
  BY <1>1, Positions, ClientFacts
<1>3. /\ Position' = Position + 2
      /\ Buffer(2) \in Bytes /\ Len(Buffer(2)) = 2
      /\ \A i \in 1 .. 2 : Buffer(2)[i] = Sent[PortAt + i]
  BY <1>2, FullRead
<1>4. \A i \in 1 .. 2 : Sent[PortAt + i] = client.port[i]
  BY <1>1, Layout
<1>5. Buffer(2) = client.port
  BY <1>2, <1>3, <1>4, SameBytes
<1> QED  BY <1>2, <1>3, <1>5

LEMMA HeaderRead ==
  ASSUME RequestAssumption, TypeOK, InOrder, Reads(4), ~cut', Position = 2 + MethodsLen
  PROVE  /\ Position' = AddressAt
         /\ Buffer(4)[1] = Version /\ Buffer(4)[2] = client.cmd /\ Buffer(4)[4] = client.atyp
<1>1. client \in Clients
  BY DEF TypeOK
<1>2. MethodsLen \in Nat /\ AddressAt = 6 + MethodsLen
  BY <1>1, Positions
<1>3. /\ Position' = Position + 4
      /\ \A i \in 1 .. 4 : Buffer(4)[i] = Sent[Position + i]
  BY FullRead
<1>4. /\ Sent[2 + MethodsLen + 1] = Version /\ Sent[2 + MethodsLen + 2] = client.cmd
      /\ Sent[2 + MethodsLen + 4] = client.atyp
  BY <1>1, Layout
<1> QED  BY <1>2, <1>3, <1>4

LEMMA MethodsRead ==
  ASSUME RequestAssumption, TypeOK, InOrder, Reads(MethodsLen), ~cut', Position = 2
  PROVE  /\ Position' = 2 + MethodsLen
         /\ \A i \in 1 .. MethodsLen : Buffer(MethodsLen)[i] = client.methods[i]
<1>1. client \in Clients
  BY DEF TypeOK
<1>2. MethodsLen \in Nat
  BY <1>1, Positions
<1>3. /\ Position' = Position + MethodsLen
      /\ \A i \in 1 .. MethodsLen : Buffer(MethodsLen)[i] = Sent[2 + i]
  BY <1>2, FullRead
<1>4. \A i \in 1 .. MethodsLen : Sent[2 + i] = client.methods[i]
  BY <1>1, Layout
<1> QED  BY <1>3, <1>4

LEMMA ArriveFacts ==
  ASSUME RequestAssumption, TypeOK, NEW k \in DOMAIN coming, Arrive(k)
  PROVE  Position' = Position
<1>1. /\ arrived \in Seq(Byte) /\ coming \in Seq(Byte)
      /\ k \in 1 .. Len(coming) /\ Len(coming) \in Nat /\ Len(arrived) \in Nat
  <2>1. arrived \in Bytes /\ coming \in Bytes
    BY DEF TypeOK
  <2> QED  BY <2>1, BytesFacts
<1>2. Len(Sent) \in Nat /\ k \in Nat
  <2>1. client \in Clients
    BY DEF TypeOK
  <2>2. Len(Sent) \in Nat
    BY <2>1, Positions
  <2> QED  BY <1>1, <2>2
<1>3. Len(arrived') = Len(arrived) + k
  <2>1. arrived' = arrived \o SubSeq(coming, 1, k)
    BY DEF Arrive
  <2> QED  BY <1>1, <2>1, Piece
<1>4. Len(coming') = Len(coming) - k
  <2>1. coming' = SubSeq(coming, k + 1, Len(coming))
    BY DEF Arrive
  <2>2. Len(coming') = IF k <= Len(coming) THEN Len(coming) - k ELSE 0
    BY <1>1, <1>2, <2>1, Remainder
  <2> QED  BY <1>1, <2>2
<1>5. Sent' = Sent
  <2>1. client' = client
    BY DEF Arrive, clientVars
  <2> QED  BY <2>1, SentFixed
<1> QED  BY <1>1, <1>2, <1>3, <1>4, <1>5 DEF Position

LEMMA ParsedStep ==
  ASSUME RequestAssumption, TypeOK, InOrder, Faithful, [Next]_vars, ~cut'
  PROVE  ~cut /\ Parsed'
<1>0. /\ ~cut /\ Parsed /\ client \in Clients /\ client' = client
      /\ arrived \in Bytes /\ coming \in Bytes
  BY InOrderStep DEF Faithful, TypeOK
<1>0a. /\ MethodsLen \in Nat /\ HostLen \in Nat /\ AddressAt = 6 + MethodsLen
       /\ client.atyp = Domain => HostAt = AddressAt + 1
       /\ client.atyp # Domain => HostAt = AddressAt
       /\ HostAt \in Nat /\ PortAt \in Nat /\ DataAt \in Nat
  BY <1>0, Positions
<1>0b. /\ MethodsLen' = MethodsLen /\ HostLen' = HostLen /\ AddressAt' = AddressAt
       /\ HostAt' = HostAt /\ PortAt' = PortAt /\ DataAt' = DataAt /\ Asked' = Asked
       /\ Target(client)' = Target(client)
       /\ HostText(client.atyp, client.host)' = HostText(client.atyp, client.host)
       /\ Sent' = Sent
  BY <1>0, SentFixed
<1>1. CASE stage' = "closed"
  BY <1>0, <1>1 DEF Parsed
<1>2. CASE ReadGreeting
  <2>1. Reads(2) /\ stage = "greeting" /\ size' = Buffer(2)[2] /\ stage' \in {"methods", "closed"}
    BY <1>2 DEF ReadGreeting
  <2>2. Position = 0
    BY <1>0, <2>1 DEF Parsed
  <2>3. Position' = Position + 2 /\ \A i \in 1 .. 2 : Buffer(2)[i] = Sent[Position + i]
    BY <2>1, FullRead
  <2>4. Position' = 2 /\ size' = MethodsLen
    <3>1. Sent[2] = MethodsLen
      BY <1>0, Layout
    <3> QED  BY <2>1, <2>2, <2>3, <3>1
  <2> QED  BY <1>0, <1>0b, <1>1, <2>1, <2>4 DEF Parsed
<1>3. CASE ReadMethods
  <2>1. Reads(size) /\ stage = "methods" /\ stage' \in {"header", "closed"}
    BY <1>3 DEF ReadMethods
  <2>2. Position = 2 /\ size = MethodsLen
    BY <1>0, <2>1 DEF Parsed
  <2>3. Position' = 2 + MethodsLen
    BY <2>1, <2>2, MethodsRead
  <2> QED  BY <1>0, <1>0b, <1>1, <2>1, <2>3 DEF Parsed
<1>4. CASE ReadHeader
  <2>1. Reads(4) /\ stage = "header" /\ stage' \in {"address", "closed"}
    BY <1>4 DEF ReadHeader
  <2>2. Position = 2 + MethodsLen
    BY <1>0, <2>1 DEF Parsed
  <2>3. /\ Position' = AddressAt
        /\ Buffer(4)[1] = Version /\ Buffer(4)[2] = client.cmd /\ Buffer(4)[4] = client.atyp
    BY <2>1, <2>2, HeaderRead
  <2>4. atyp' = client.atyp
    BY <1>4, <2>3 DEF ReadHeader
  <2>5. stage' = "address" => Asked
    BY <1>4, <2>3 DEF ReadHeader, Asked
  <2> QED  BY <1>0, <1>0b, <1>1, <2>1, <2>3, <2>4, <2>5 DEF Parsed
<1>5. CASE ReadIP
  <2>1. /\ Reads(IPLength(atyp)) /\ stage = "address" /\ atyp # Domain /\ stage' = "port"
        /\ target' = HostText(atyp, Buffer(IPLength(atyp)))
    BY <1>5 DEF ReadIP
  <2>2. Position = AddressAt /\ Asked /\ atyp = client.atyp
    BY <1>0, <2>1 DEF Parsed
  <2>3. IPLength(atyp) = HostLen
    <3>1. client.atyp \in {IPv4, IPv6}
      BY <2>1, <2>2 DEF Asked
    <3> QED  BY <1>0, <2>2, <3>1, ClientFacts
  <2>4. Position = HostAt
    BY <1>0a, <2>1, <2>2
  <2>5. Reads(HostLen)
    BY <2>1, <2>3
  <2>6. Buffer(HostLen) = client.host /\ Position' = PortAt
    BY <2>4, <2>5, HostRead
  <2>7. target' = HostText(client.atyp, client.host)
    BY <2>1, <2>2, <2>3, <2>6
  <2> QED  BY <1>0, <1>0b, <2>1, <2>2, <2>6, <2>7 DEF Parsed
<1>6. CASE ReadDomainLength
  <2>1. /\ Reads(1) /\ stage = "address" /\ atyp = Domain /\ stage' = "domain"
        /\ size' = Buffer(1)[1] /\ atyp' = atyp
    BY <1>6 DEF ReadDomainLength
  <2>2. Position = AddressAt /\ Asked /\ atyp = client.atyp
    BY <1>0, <2>1 DEF Parsed
  <2>3. Position' = Position + 1 /\ \A i \in 1 .. 1 : Buffer(1)[i] = Sent[Position + i]
    BY <2>1, FullRead
  <2>4. Position' = HostAt
    BY <1>0a, <2>1, <2>2, <2>3
  <2>5. size' = HostLen
    <3>1. Sent[AddressAt + 1] = HostLen
      BY <1>0, <2>1, <2>2, Layout
    <3> QED  BY <2>1, <2>2, <2>3, <3>1
  <2> QED  BY <1>0, <1>0b, <2>1, <2>2, <2>4, <2>5 DEF Parsed
<1>7. CASE ReadDomain
  <2>1. /\ Reads(size) /\ stage = "domain" /\ stage' = "port"
        /\ target' = HostText(atyp, Buffer(size))
    BY <1>7 DEF ReadDomain
  <2>2. Position = HostAt /\ Asked /\ atyp = Domain /\ client.atyp = Domain /\ size = HostLen
    BY <1>0, <2>1 DEF Parsed
  <2>3. Buffer(HostLen) = client.host /\ Position' = PortAt
    BY <2>1, <2>2, HostRead
  <2>4. target' = HostText(client.atyp, client.host)
    BY <2>1, <2>2, <2>3
  <2> QED  BY <1>0, <1>0b, <2>1, <2>2, <2>3, <2>4 DEF Parsed
<1>8. CASE ReadPort
  <2>1. /\ Reads(2) /\ stage = "port" /\ stage' = "open"
        /\ target' = JoinHostPort(target, Buffer(2))
    BY <1>8 DEF ReadPort
  <2>2. Position = PortAt /\ Asked /\ target = HostText(client.atyp, client.host)
    BY <1>0, <2>1 DEF Parsed
  <2>3. Buffer(2) = client.port /\ Position' = DataAt
    BY <2>1, <2>2, PortRead
  <2>4. target' = Target(client)
    BY <2>1, <2>2, <2>3 DEF Target
  <2> QED  BY <1>0, <1>0b, <2>1, <2>2, <2>3, <2>4 DEF Parsed
<1>9. CASE UNCHANGED <<arrived, coming, stage, atyp, size, target>>
  <2>1. Position' = Position
    BY <1>0b, <1>9 DEF Position
  <2> QED  BY <1>0, <1>0b, <1>9, <2>1 DEF Parsed
<1>10. ASSUME NEW k \in DOMAIN coming, Arrive(k) PROVE Parsed'
  <2>1. Position' = Position
    BY <1>10, ArriveFacts
  <2>2. UNCHANGED <<stage, atyp, size, target>>
    BY <1>10 DEF Arrive, socksVars
  <2> QED  BY <1>0, <1>0b, <2>1, <2>2 DEF Parsed
<1>11. CASE CopyUp
  <2>1. stage = "bridge" /\ arrived' = <<>> /\ UNCHANGED <<coming, stage, atyp, size, target>>
    BY <1>11 DEF CopyUp, socksVars
  <2>2. Len(arrived') = 0
    BY <2>1
  <2>3. Len(coming) \in Nat /\ Len(arrived) \in Nat /\ Len(Sent) \in Nat
    BY <1>0, BytesFacts, Positions
  <2>4. Position' = Position + Len(arrived)
    BY <1>0b, <2>1, <2>2, <2>3 DEF Position
  <2>5. Position >= DataAt /\ Asked /\ target = Target(client)
    BY <1>0, <2>1 DEF Parsed
  <2>6. Position \in Int
    BY <2>3 DEF Position
  <2>7. Position' >= DataAt
    BY <1>0a, <2>3, <2>4, <2>5, <2>6
  <2> QED  BY <1>0, <1>0b, <2>1, <2>5, <2>7 DEF Parsed
<1>12. CASE OpenRelay \/ SendLength
  <2>1. /\ stage \in {"open", "length"} /\ stage' \in {"length", "frame"}
        /\ UNCHANGED <<arrived, coming, target>>
    BY <1>12 DEF OpenRelay, SendLength, readVars
  <2>2. Position' = Position
    BY <1>0b, <2>1 DEF Position
  <2> QED  BY <1>0, <1>0b, <2>1, <2>2 DEF Parsed
<1>13. CASE SendAddress
  <2>1. stage = "frame" /\ stage' = "bridge" /\ UNCHANGED <<arrived, coming, target>>
    BY <1>13 DEF SendAddress, readVars
  <2>2. Position' = Position
    BY <1>0b, <2>1 DEF Position
  <2>3. Position' >= DataAt
    BY <1>0, <1>0a, <2>1, <2>2 DEF Parsed
  <2> QED  BY <1>0, <1>0b, <2>1, <2>3 DEF Parsed
<1>14. CASE ReadFails \/ OpenRelayFails \/ WriteFails
  BY <1>1, <1>14 DEF ReadFails, OpenRelayFails, WriteFails
<1>15. CASE \/ UNCHANGED vars
            \/ \E k \in DOMAIN sending : Deliver(k)
            \/ ForwardToNextPeer \/ HandleProxyTraffic \/ RelayFails \/ ReadLength \/ ReadAddress \/ Dial \/ CopyToTarget
  BY <1>9, <1>15 DEF vars, Deliver, ForwardToNextPeer, HandleProxyTraffic, RelayFails, ReadLength,
     ReadAddress, Dial, CopyToTarget, readVars, socksVars
<1> QED
  BY <1>0, <1>2, <1>3, <1>4, <1>5, <1>6, <1>7, <1>8, <1>10, <1>11, <1>12, <1>13, <1>14, <1>15
     DEF Next
-----------------------------------------------------------------------------
LEMMA TunnelFacts ==
  ASSUME RequestAssumption, TypeOK
  PROVE  /\ Len(stream) \in Nat /\ Len(sending) \in Nat /\ Len(received) \in Nat
         /\ Len(target) \in Nat /\ length \in Nat /\ Taken \in Nat
         /\ Total = Taken + Len(stream) + Len(sending) /\ Total \in Nat
<1>1. stream \in Text /\ sending \in Text /\ received \in Text /\ target \in Text
      /\ length \in 0 .. Radix - 1
  BY DEF TypeOK
<1>2. Len(stream) \in Nat /\ Len(sending) \in Nat /\ Len(received) \in Nat /\ Len(target) \in Nat
  BY <1>1, TextFacts
<1>3. length \in Nat
  BY <1>1, Width
<1>4. Taken \in Nat
  BY <1>2, <1>3 DEF Taken
<1> QED  BY <1>2, <1>3, <1>4 DEF Total

LEMMA FlowFixed ==
  ASSUME client' = client, target' = target, Begin' = Begin
  PROVE  \A j \in Nat : Flow(j)' = Flow(j)
<1>1. Sent' = Sent
  BY SentFixed
<1> QED  BY <1>1 DEF Flow

(* Items put behind those already in the tunnel.                           *)
LEMMA TotalWrite ==
  ASSUME RequestAssumption, TypeOK, NEW items \in Text, Writes(items)
  PROVE  Total' = Total + Len(items) /\ Taken' = Taken
<1>1. /\ sending' = sending \o items
      /\ UNCHANGED <<stream, relay, length, received>>
  BY DEF Writes, relayVars, exitVars
<1>2. /\ Len(stream) \in Nat /\ Len(sending) \in Nat /\ Taken \in Nat /\ Len(items) \in Nat
      /\ Total = Taken + Len(stream) + Len(sending)
  BY TunnelFacts, TextFacts
<1>3. Len(sending') = Len(sending) + Len(items)
  <2>1. sending \in Text
    BY DEF TypeOK
  <2> QED  BY <1>1, <2>1, JoinedTexts
<1>4. Taken' = Taken
  BY <1>1 DEF Taken
<1> QED  BY <1>1, <1>2, <1>3, <1>4 DEF Total

LEMMA AlignedWrite ==
  ASSUME RequestAssumption, TypeOK, Aligned, NEW items \in Text, Writes(items),
         target' = target, Begin' = Begin,
         \A i \in 1 .. Len(items) : items[i] = Flow(Total + i)
  PROVE  Aligned'
<1>1. /\ sending' = sending \o items
      /\ UNCHANGED <<stream, client, relay, length, received, dialled>>
  BY DEF Writes, clientVars, relayVars, exitVars
<1>2. /\ Len(stream) \in Nat /\ Len(sending) \in Nat /\ Taken \in Nat /\ Len(items) \in Nat
      /\ Total = Taken + Len(stream) + Len(sending)
  BY TunnelFacts, TextFacts
<1>3. /\ Len(sending') = Len(sending) + Len(items)
      /\ \A i \in 1 .. Len(sending) : sending'[i] = sending[i]
      /\ \A i \in 1 .. Len(items) : sending'[Len(sending) + i] = items[i]
  <2>1. sending \in Text
    BY DEF TypeOK
  <2> QED  BY <1>1, <2>1, JoinedTexts
<1>4. Taken' = Taken /\ Total' = Total + Len(items)
  BY TotalWrite
<1>6. \A j \in Nat : Flow(j)' = Flow(j)
  BY <1>1, FlowFixed
<1>7. ASSUME NEW j \in Nat, NEW i \in 1 .. Len(stream'), j = Taken' + i
      PROVE  stream'[i] = Flow(j)'
  BY <1>1, <1>4, <1>6, <1>7 DEF Aligned
<1>8. ASSUME NEW j \in Nat, NEW i \in 1 .. Len(sending'), j = Taken' + Len(stream') + i
      PROVE  sending'[i] = Flow(j)'
  <2>1. Flow(j)' = Flow(j) /\ j = Taken + Len(stream) + i
    BY <1>1, <1>4, <1>6, <1>8
  <2>2. CASE i <= Len(sending)
    <3>1. i \in 1 .. Len(sending)
      BY <1>2, <1>3, <2>2
    <3> QED  BY <1>3, <2>1, <3>1 DEF Aligned
  <2>3. CASE i > Len(sending)
    <3> DEFINE m == i - Len(sending)
    <3>1. m \in 1 .. Len(items) /\ Len(sending) + m = i
      BY <1>2, <1>3, <2>3
    <3>2. j = Total + m
      BY <1>2, <2>1, <3>1
    <3>3. sending'[i] = items[m]
      BY <1>3, <3>1
    <3>4. items[m] = Flow(j)
      BY <2>1, <3>1, <3>2
    <3> QED  BY <2>1, <3>3, <3>4
  <2>4. i \in Int
    BY <1>8
  <2> QED  BY <1>2, <2>2, <2>3, <2>4
<1>9. Aligned'
  BY <1>7, <1>8 DEF Aligned
<1> QED  BY <1>9

LEMMA AlignedDeliver ==
  ASSUME RequestAssumption, TypeOK, Aligned, NEW k \in DOMAIN sending, Deliver(k),
         Position' = Position
  PROVE  Aligned' /\ Total' = Total /\ Begin' = Begin
<1>1. /\ UNCHANGED <<client, target, stage, relay, length, received>>
      /\ stream' = stream \o SubSeq(sending, 1, k)
      /\ sending' = SubSeq(sending, k + 1, Len(sending))
  BY DEF Deliver, clientVars, readVars, socksVars, relayVars, exitVars
<1>2. /\ Len(stream) \in Nat /\ Len(sending) \in Nat /\ Taken \in Nat
      /\ Total = Taken + Len(stream) + Len(sending)
  BY TunnelFacts
<1>3. /\ stream \in Seq(Bytes) /\ sending \in Seq(Bytes) /\ k \in 1 .. Len(sending) /\ k \in Nat
  <2>1. stream \in Text /\ sending \in Text
    BY DEF TypeOK
  <2>2. stream \in Seq(Bytes) /\ sending \in Seq(Bytes) /\ k \in 1 .. Len(sending)
    BY <2>1, TextFacts
  <2> QED  BY <1>2, <2>2
<1>4. /\ Len(stream') = Len(stream) + k
      /\ \A i \in 1 .. Len(stream) : stream'[i] = stream[i]
      /\ \A i \in Len(stream) + 1 .. Len(stream) + k : stream'[i] = sending[i - Len(stream)]
  BY <1>1, <1>3, Piece
<1>5. /\ Len(sending') = Len(sending) - k
      /\ \A i \in 1 .. Len(sending) - k : sending'[i] = sending[k + i]
  <2>1. /\ Len(sending') = IF k <= Len(sending) THEN Len(sending) - k ELSE 0
        /\ \A i \in 1 .. Len(sending) - k : sending'[i] = sending[k + i]
    BY <1>1, <1>3, Remainder
  <2> QED  BY <1>3, <2>1
<1>6. Taken' = Taken
  BY <1>1 DEF Taken
<1>7. Total' = Total /\ Begin' = Begin
  <2>1. Total' = Total
    BY <1>2, <1>3, <1>4, <1>5, <1>6 DEF Total
  <2> QED  BY <1>1, <2>1 DEF Begin
<1>8. \A j \in Nat : Flow(j)' = Flow(j)
  BY <1>1, <1>7, FlowFixed
<1>9. ASSUME NEW j \in Nat, NEW i \in 1 .. Len(stream'), j = Taken' + i
      PROVE  stream'[i] = Flow(j)'
  <2>1. Flow(j)' = Flow(j) /\ j = Taken + i
    BY <1>6, <1>8, <1>9
  <2>2. CASE i <= Len(stream)
    <3>1. i \in 1 .. Len(stream)
      BY <1>2, <1>4, <2>2
    <3> QED  BY <1>4, <2>1, <3>1 DEF Aligned
  <2>3. CASE i > Len(stream)
    <3> DEFINE m == i - Len(stream)
    <3>1. m \in 1 .. Len(sending) /\ i \in Len(stream) + 1 .. Len(stream) + k
      BY <1>2, <1>3, <1>4, <2>3
    <3>2. j = Taken + Len(stream) + m
      BY <1>2, <2>1
    <3>3. stream'[i] = sending[m]
      BY <1>4, <3>1
    <3>4. sending[m] = Flow(j)
      BY <2>1, <3>1, <3>2 DEF Aligned
    <3> QED  BY <2>1, <3>3, <3>4
  <2>4. i \in Int
    BY <1>9
  <2> QED  BY <1>2, <2>2, <2>3, <2>4
<1>10. ASSUME NEW j \in Nat, NEW i \in 1 .. Len(sending'), j = Taken' + Len(stream') + i
       PROVE  sending'[i] = Flow(j)'
  <2>1. sending'[i] = sending[k + i] /\ k + i \in 1 .. Len(sending)
    <3>1. i \in 1 .. Len(sending) - k
      BY <1>5
    <3>2. k + i \in 1 .. Len(sending)
      BY <1>2, <1>3, <3>1
    <3> QED  BY <1>5, <3>1, <3>2
  <2>2. j = Taken + Len(stream) + (k + i)
    <3>1. i \in Int /\ k \in Int
      BY <1>3, <1>10
    <3>2. Len(stream') = Len(stream) + k
      BY <1>4
    <3>3. j = Taken' + Len(stream') + i
      BY <1>10
    <3> QED  BY <1>2, <1>6, <3>1, <3>2, <3>3
  <2>3. Flow(j)' = Flow(j)
    BY <1>8, <1>10
  <2>4. sending[k + i] = Flow(j)
    BY <2>1, <2>2, <2>3 DEF Aligned
  <2> QED  BY <2>1, <2>3, <2>4
<1>11. Aligned'
  BY <1>9, <1>10 DEF Aligned
<1> QED  BY <1>7, <1>11

(* Items taken from the end of the tunnel.                                 *)
LEMMA AlignedTake ==
  ASSUME RequestAssumption, TypeOK, Aligned, NEW n \in Nat, n <= Len(stream),
         UNCHANGED <<client, target, stage, sending>>, Position' = Position,
         Taken' = Taken + n, Len(stream') = Len(stream) - n,
         \A i \in 1 .. Len(stream) - n : stream'[i] = stream[n + i]
  PROVE  Aligned' /\ Total' = Total /\ Begin' = Begin
<1>1. /\ Len(stream) \in Nat /\ Len(sending) \in Nat /\ Taken \in Nat
      /\ Total = Taken + Len(stream) + Len(sending)
  BY TunnelFacts
<1>2. Total' = Total /\ Begin' = Begin
  <2>1. Total' = Total
    BY <1>1 DEF Total
  <2> QED  BY <2>1 DEF Begin
<1>3. \A j \in Nat : Flow(j)' = Flow(j)
  BY <1>2, FlowFixed
<1>4. ASSUME NEW j \in Nat, NEW i \in 1 .. Len(stream'), j = Taken' + i
      PROVE  stream'[i] = Flow(j)'
  <2>1. i \in 1 .. Len(stream) - n
    OBVIOUS
  <2>2. n + i \in 1 .. Len(stream) /\ j = Taken + (n + i)
    BY <1>1, <1>4, <2>1
  <2>3. stream[n + i] = Flow(j)
    BY <1>3, <1>4, <2>2 DEF Aligned
  <2> QED  BY <1>3, <2>1, <2>3
<1>5. ASSUME NEW j \in Nat, NEW i \in 1 .. Len(sending'), j = Taken' + Len(stream') + i
      PROVE  sending'[i] = Flow(j)'
  <2>1. Taken' + Len(stream') = Taken + Len(stream)
    BY <1>1
  <2>2. i \in 1 .. Len(sending) /\ j = Taken + Len(stream) + i
    BY <1>1, <1>5, <2>1
  <2> QED  BY <1>3, <1>5, <2>2 DEF Aligned
<1> QED  BY <1>2, <1>4, <1>5 DEF Aligned
-----------------------------------------------------------------------------
LEMMA Remainders ==
  ASSUME NEW n \in Nat, NEW m \in Nat, m > 5
  PROVE  /\ n % m <= n
         /\ n < m => n % m = n
         /\ m <= n /\ n <= m + 1 => n % m <= 1
<1>1. ASSUME n < m PROVE n % m = n
  BY <1>1
<1>2. n % m <= n
  BY <1>1
<1>3. ASSUME m <= n, n <= m + 1 PROVE n % m <= 1
  BY <1>3
<1> QED  BY <1>1, <1>2, <1>3

LEMMA PhasesStep ==
  ASSUME RequestAssumption, TypeOK, Tunnel, [Next]_vars
  PROVE  Phases'
<1>0. Phases /\ length \in 0 .. Radix - 1
  BY DEF Tunnel, TypeOK
<1>1. CASE UNCHANGED <<stage, relay, stream, sending, length, received>>
  BY <1>0, <1>1 DEF Phases
<1>2. CASE \/ ReadGreeting \/ ReadMethods \/ ReadHeader \/ ReadIP
           \/ ReadDomainLength \/ ReadDomain \/ ReadPort \/ ReadFails \/ OpenRelayFails
  <2>1. stage \in {"greeting", "methods", "header", "address", "domain", "port", "open"}
    BY <1>2 DEF ReadGreeting, ReadMethods, ReadHeader, ReadIP, ReadDomainLength, ReadDomain,
       ReadPort, ReadFails, OpenRelayFails
  <2>2. stage' \in {"methods", "header", "address", "domain", "port", "open", "closed"}
    BY <1>2 DEF ReadGreeting, ReadMethods, ReadHeader, ReadIP, ReadDomainLength, ReadDomain,
       ReadPort, ReadFails, OpenRelayFails
  <2>3. UNCHANGED <<relay, stream, sending, length, received>>
    BY <1>2 DEF ReadGreeting, ReadMethods, ReadHeader, ReadIP, ReadDomainLength, ReadDomain,
       ReadPort, ReadFails, OpenRelayFails, Reads, relayVars, tunnelVars, exitVars
  <2> QED  BY <1>0, <2>1, <2>2, <2>3 DEF Phases
<1>3. CASE \/ \E k \in DOMAIN coming : Arrive(k)
           \/ UNCHANGED vars
  BY <1>1, <1>3 DEF Arrive, vars, socksVars, relayVars, tunnelVars, exitVars
<1>4. CASE \E k \in DOMAIN sending : Deliver(k)
  <2>1. /\ relay \in {"address", "dial", "connected"}
        /\ UNCHANGED <<stage, relay, length, received>>
    BY <1>4 DEF Deliver, socksVars, relayVars, exitVars
  <2> QED  BY <1>0, <2>1 DEF Phases
<1>5. CASE OpenRelay
  <2>1. /\ stage = "open" /\ stage' = "length" /\ relay' = "handle"
        /\ UNCHANGED <<stream, sending, length, received>>
    BY <1>5 DEF OpenRelay, tunnelVars, exitVars
  <2> QED  BY <1>0, <2>1 DEF Phases
<1>6. CASE ForwardToNextPeer
  BY <1>1, <1>6 DEF ForwardToNextPeer, socksVars, tunnelVars, exitVars
<1>7. CASE HandleProxyTraffic \/ Dial
  <2>1. /\ relay \in {"handle", "dial"} /\ relay' \in {"address", "connected"}
        /\ relay = "handle" => relay' = "address"
        /\ UNCHANGED <<stage, stream, sending, length, received>>
    BY <1>7 DEF HandleProxyTraffic, Dial, socksVars, tunnelVars, exitVars
  <2> QED  BY <1>0, <2>1 DEF Phases
<1>8. CASE RelayFails
  <2>1. /\ relay # "none" /\ relay' = "failed"
        /\ UNCHANGED <<stage, stream, sending, length, received>>
    BY <1>8 DEF RelayFails, socksVars, tunnelVars, exitVars
  <2> QED  BY <1>0, <2>1 DEF Phases
<1>9. CASE SendLength \/ SendAddress \/ CopyUp
  <2>1. /\ stage \in {"length", "frame", "bridge"} /\ stage' \in {"frame", "bridge"}
        /\ UNCHANGED <<relay, stream, length, received>>
    BY <1>9 DEF SendLength, SendAddress, CopyUp, Writes, socksVars, relayVars, exitVars
  <2> QED  BY <1>0, <2>1 DEF Phases
<1>10. CASE WriteFails
  <2>1. relay = "failed" /\ stage' = "closed" /\ UNCHANGED <<relay, stream, sending, length, received>>
    BY <1>10 DEF WriteFails, relayVars, tunnelVars, exitVars
  <2> QED  BY <1>0, <2>1 DEF Phases
<1>11. CASE ReadLength
  <2>1. /\ relay = "address" /\ relay' \in {"address", "failed"}
        /\ UNCHANGED <<stage, sending, received>>
    BY <1>11 DEF ReadLength, socksVars
  <2> QED  BY <1>0, <2>1 DEF Phases
<1>12. CASE ReadAddress
  <2>1. /\ relay = "address" /\ relay' = "dial" /\ length > 0
        /\ UNCHANGED <<stage, sending, length, received>>
    BY <1>12 DEF ReadAddress, socksVars
  <2> QED  BY <1>0, <2>1 DEF Phases
<1>13. CASE CopyToTarget
  <2>1. relay = "connected" /\ UNCHANGED <<stage, relay, sending, length>>
    BY <1>13 DEF CopyToTarget, socksVars, relayVars
  <2> QED  BY <1>0, <2>1 DEF Phases
<1> QED
  BY <1>2, <1>3, <1>4, <1>5, <1>6, <1>7, <1>8, <1>9, <1>10, <1>11, <1>12, <1>13 DEF Next

(* The data CopyUp puts into the tunnel continues the data that is in it.  *)
LEMMA DataCopied ==
  ASSUME RequestAssumption, TypeOK, InOrder, Written, stage = "bridge",
         NEW i \in 1 .. Len(arrived)
  PROVE  <<arrived[i]>> = Flow(Total + i)
<1>1. /\ Len(target) \in Nat /\ Total \in Nat /\ Position \in Int
      /\ i \in Nat /\ i >= 1 /\ Total >= Len(target) + 1
  BY TunnelFacts, PositionInSent DEF Written
<1> DEFINE j == Total + i
<1>2. /\ j # 1 /\ ~(j <= Len(target) + 1) /\ j \in Nat
      /\ Begin + (j - 1 - Len(target)) = Position + i
  BY <1>1 DEF Begin
<1>3. arrived[i] = Sent[Position + i]
  BY DEF InOrder
<1> HIDE DEF j
<1>4. Flow(j) = <<Sent[Begin + (j - 1 - Len(target))]>>
  BY <1>1, <1>2 DEF Flow
<1>5. Flow(j) = <<arrived[i]>>
  BY <1>2, <1>3, <1>4
<1> QED  BY <1>5 DEF j

LEMMA TunnelStep ==
  ASSUME RequestAssumption, TypeOK, InOrder, Faithful, Tunnel, [Next]_vars
  PROVE  Tunnel' /\ (Running /\ Running' => Begin' = Begin)
<1> DEFINE Kept == Tunnel' /\ (Running /\ Running' => Begin' = Begin)
<1>0. /\ Phases /\ Phases' /\ (Running => Written /\ Aligned /\ Framed)
      /\ client' = client /\ DataAt' = DataAt /\ Sent' = Sent
      /\ Position \in Int /\ Position >= 0
      /\ stream \in Text /\ target \in Text /\ length \in Nat /\ Radix \in Nat /\ Radix > 5
  <2>1. client' = client
    BY InOrderStep
  <2>2. stream \in Text /\ target \in Text /\ length \in Nat
    BY TunnelFacts DEF TypeOK
  <2>3. DataAt' = DataAt /\ Sent' = Sent
    BY <2>1, SentFixed
  <2>4. Position \in Int /\ Position >= 0
    BY PositionInSent DEF InOrder
  <2> QED  BY <2>1, <2>2, <2>3, <2>4, PhasesStep, Width DEF Tunnel
<1>0a. /\ Len(stream) \in Nat /\ Len(sending) \in Nat /\ Len(received) \in Nat
       /\ Len(target) \in Nat /\ Taken \in Nat
       /\ Total = Taken + Len(stream) + Len(sending) /\ Total \in Nat
  BY TunnelFacts
<1>1. ASSUME UNCHANGED <<stage, target, cut, stream, sending, length, dialled, received, Position>>,
             Running, relay' \in {"dial", "connected"} <=> relay \in {"dial", "connected"},
             relay' = "connected" => relay = "connected" \/ HasPort(dialled)
      PROVE  Kept
  <2>1. Taken' = Taken /\ Total' = Total /\ Begin' = Begin
    BY <1>1 DEF Taken, Total, Begin
  <2>2. Written'
    BY <1>0, <1>1, <2>1 DEF Written
  <2>3. Aligned'
    <3>1. \A j \in Nat : Flow(j)' = Flow(j)
      BY <1>0, <1>1, <2>1, FlowFixed
    <3> QED  BY <1>0, <1>1, <2>1, <3>1 DEF Aligned
  <2>4. Framed'
    BY <1>0, <1>1 DEF Framed, HasPort
  <2> QED  BY <1>0, <2>1, <2>2, <2>3, <2>4 DEF Tunnel
<1>2. CASE relay' \in {"none", "failed"}
  BY <1>0, <1>2 DEF Tunnel, Running
<1>3. CASE \/ ReadGreeting \/ ReadMethods \/ ReadHeader \/ ReadIP
           \/ ReadDomainLength \/ ReadDomain \/ ReadPort \/ ReadFails \/ OpenRelayFails
  <2>1. stage \in {"greeting", "methods", "header", "address", "domain", "port", "open"}
    BY <1>3 DEF ReadGreeting, ReadMethods, ReadHeader, ReadIP, ReadDomainLength, ReadDomain,
       ReadPort, ReadFails, OpenRelayFails
  <2>2. relay' = relay
    BY <1>3 DEF ReadGreeting, ReadMethods, ReadHeader, ReadIP, ReadDomainLength, ReadDomain,
       ReadPort, ReadFails, OpenRelayFails, Reads, relayVars
  <2> QED  BY <1>0, <1>2, <2>1, <2>2 DEF Phases
<1>4. CASE RelayFails \/ WriteFails
  BY <1>2, <1>4 DEF RelayFails, WriteFails, relayVars
<1>5. CASE relay \in {"none", "failed"} /\ UNCHANGED relay
  BY <1>2, <1>5
<1>6. ASSUME NEW k \in DOMAIN coming, Arrive(k) PROVE Kept
  <2>1. UNCHANGED <<stage, target, cut, stream, sending, relay, length, dialled, received>>
    BY <1>6 DEF Arrive, socksVars, relayVars, tunnelVars, exitVars
  <2>2. Position' = Position
    BY <1>6, ArriveFacts
  <2> QED  BY <1>1, <1>5, <2>1, <2>2 DEF Running
<1>7. CASE UNCHANGED vars
  <2>1. UNCHANGED <<arrived, coming, stage, target, cut, stream, sending, relay, length, dialled, received>>
    BY <1>7 DEF vars, readVars, socksVars, relayVars, tunnelVars, exitVars
  <2>2. Sent' = Sent
    BY <1>0, SentFixed
  <2>3. Position' = Position
    BY <2>1, <2>2 DEF Position
  <2> QED  BY <1>1, <1>5, <2>1, <2>3 DEF Running
<1>8. CASE ForwardToNextPeer \/ HandleProxyTraffic \/ Dial
  <2>1. /\ UNCHANGED <<arrived, coming, stage, target, cut, stream, sending, length, dialled, received>>
        /\ Running
        /\ relay' \in {"dial", "connected"} <=> relay \in {"dial", "connected"}
        /\ relay' = "connected" => relay = "connected" \/ HasPort(dialled)
    BY <1>8 DEF ForwardToNextPeer, HandleProxyTraffic, Dial, Running, readVars, socksVars,
       tunnelVars, exitVars
  <2>2. Sent' = Sent
    BY <1>0, SentFixed
  <2>3. Position' = Position
    BY <2>1, <2>2 DEF Position
  <2> QED  BY <1>1, <2>1, <2>3
<1>9. CASE OpenRelay
  <2>1. /\ stage = "open" /\ stage' = "length" /\ relay' = "handle"
        /\ UNCHANGED <<target, stream, sending, length, received>>
    BY <1>9 DEF OpenRelay, tunnelVars, exitVars
  <2>2. length' = 0 /\ stream' = <<>> /\ sending' = <<>> /\ ~Running
    BY <1>0, <2>1 DEF Phases, Running
  <2>3. Len(stream') = 0 /\ Len(sending') = 0
    BY <2>2
  <2>4. Taken' = 0 /\ Total' = 0
    BY <2>1, <2>2, <2>3 DEF Taken, Total
  <2>5. Written' /\ Framed'
    BY <2>1, <2>2, <2>4 DEF Written, Framed
  <2>6. Aligned'
    BY <2>3 DEF Aligned
  <2> QED  BY <1>0, <2>2, <2>5, <2>6 DEF Tunnel
<1>10. ASSUME NEW k \in DOMAIN sending, Deliver(k) PROVE Kept
  <2>1. /\ UNCHANGED <<arrived, coming, stage, target, cut, relay, length, dialled, received>>
        /\ Running
    BY <1>10 DEF Deliver, Running, readVars, socksVars, relayVars, exitVars
  <2>3. Position' = Position
    BY <1>0, <2>1 DEF Position
  <2>2. Aligned' /\ Total' = Total /\ Begin' = Begin
    BY <1>0, <1>10, <2>1, <2>3, AlignedDeliver
  <2>4. Written'
    BY <1>0, <2>1, <2>2, <2>3 DEF Written
  <2>5. Framed'
    BY <1>0, <2>1 DEF Framed, HasPort
  <2> QED  BY <1>0, <2>2, <2>4, <2>5 DEF Tunnel
<1>11. ASSUME NEW items \in Text, Writes(items), Running,
              target' = target, Begin' = Begin,
              \A i \in 1 .. Len(items) : items[i] = Flow(Total + i)
       PROVE  Aligned' /\ Framed'
  <2>1. Aligned'
    BY <1>0, <1>11, AlignedWrite
  <2>2. UNCHANGED <<relay, length, dialled, received>>
    BY <1>11 DEF Writes, relayVars, exitVars
  <2>3. Framed'
    BY <1>0, <1>11, <2>2 DEF Framed, HasPort
  <2> QED  BY <2>1, <2>3
<1>12. CASE SendLength
  <2> DEFINE items == <<<<Len(target) % Radix>>>>
  <2>1. /\ stage = "length" /\ stage' = "frame" /\ Writes(items)
        /\ UNCHANGED <<arrived, coming, target, relay>>
    BY <1>12 DEF SendLength, Writes, readVars, relayVars
  <2>2. items \in Text /\ Len(items) = 1 /\ items[1] = <<Len(target) % Radix>>
    BY <1>0, LengthItem
  <2> HIDE DEF items
  <2>3. CASE Running
    <3>1. Total = 0
      BY <1>0, <2>1, <2>3 DEF Written
    <3>2. \A i \in 1 .. Len(items) : items[i] = Flow(Total + i)
      <4> SUFFICES ASSUME NEW i \in 1 .. Len(items) PROVE items[i] = Flow(Total + i)
        OBVIOUS
      <4>1. i = 1 /\ Total + i = 1
        BY <2>2, <3>1
      <4> QED  BY <2>2, <4>1 DEF Flow
    <3>3. Total' = Total + Len(items) /\ Begin' = Begin
      BY <1>0, <2>1, <2>2, TotalWrite DEF Begin, Position
    <3>4. Aligned' /\ Framed'
      BY <1>11, <2>1, <2>2, <2>3, <3>2, <3>3
    <3>5. Written'
      BY <2>1, <2>2, <3>1, <3>3 DEF Written
    <3> QED  BY <1>0, <3>3, <3>4, <3>5 DEF Tunnel
  <2> QED  BY <1>5, <2>1, <2>3 DEF Running
<1>13. CASE SendAddress
  <2>1. /\ stage = "frame" /\ stage' = "bridge" /\ Writes(target)
        /\ UNCHANGED <<arrived, coming, target, cut, relay>>
    BY <1>13 DEF SendAddress, Writes, readVars, relayVars
  <2>2. CASE Running
    <3>1. Total = 1
      BY <1>0, <2>1, <2>2 DEF Written
    <3>2. \A i \in 1 .. Len(target) : target[i] = Flow(Total + i)
      <4> SUFFICES ASSUME NEW i \in 1 .. Len(target) PROVE target[i] = Flow(Total + i)
        OBVIOUS
      <4> DEFINE j == Total + i
      <4>1. j # 1 /\ j <= Len(target) + 1 /\ j - 1 = i /\ j \in Nat
        BY <1>0a, <3>1
      <4> HIDE DEF j
      <4>2. Flow(j) = target[j - 1]
        BY <1>0a, <4>1 DEF Flow
      <4> QED  BY <4>1, <4>2 DEF j
    <3>3. Total' = Len(target) + 1
      BY <1>0, <1>0a, <2>1, <3>1, TotalWrite
    <3>4. Position' = Position /\ Begin' = Begin /\ Begin = Position
      <4>1. Position' = Position
        BY <1>0, <2>1 DEF Position
      <4>2. Begin' = Position' + Len(target) + 1 - Total' /\ Begin = Position
        BY <2>1 DEF Begin
      <4> QED  BY <1>0, <1>0a, <3>3, <4>1, <4>2
    <3>5. ~cut' => Position' = DataAt
      BY <2>1, <3>4 DEF Faithful, Parsed
    <3>8. Aligned' /\ Framed'
      BY <1>0, <1>11, <2>1, <2>2, <3>2, <3>4
    <3>6. DataAt \in Nat
      <4>1. client \in Clients
        BY DEF TypeOK
      <4> QED  BY <4>1, Positions
    <3>7. Written'
      <4>1. ~cut' => Total' = Len(target) + 1 + Position' - DataAt
        BY <1>0a, <3>3, <3>5, <3>6
      <4>2. Begin' >= 0 /\ Total' >= Len(target) + 1
        BY <1>0, <1>0a, <3>3, <3>4
      <4> QED  BY <1>0, <2>1, <4>1, <4>2 DEF Written
    <3> QED  BY <1>0, <3>4, <3>7, <3>8 DEF Tunnel
  <2> QED  BY <1>5, <2>1, <2>2 DEF Running
<1>14. CASE CopyUp
  <2> DEFINE items == AsText(arrived)
  <2>1. /\ stage = "bridge" /\ stage' = "bridge" /\ Writes(items)
        /\ arrived' = <<>> /\ UNCHANGED <<coming, target, cut, relay>>
    BY <1>14 DEF CopyUp, Writes, socksVars, relayVars
  <2>2. /\ items \in Text /\ Len(items) = Len(arrived)
        /\ \A i \in 1 .. Len(arrived) : items[i] = <<arrived[i]>>
    <3>1. arrived \in Bytes
      BY DEF TypeOK
    <3> QED  BY <3>1, Texts
  <2> HIDE DEF items
  <2>3. CASE Running
    <3>1. Written
      BY <1>0, <2>3
    <3>2. \A i \in 1 .. Len(items) : items[i] = Flow(Total + i)
      BY <2>1, <2>2, <3>1, DataCopied
    <3>3. Total' = Total + Len(items)
      BY <2>1, <2>2, TotalWrite
    <3>4. Len(arrived) \in Nat /\ Len(coming) \in Nat /\ Len(Sent) \in Nat /\ DataAt \in Nat
      <4>1. arrived \in Bytes /\ coming \in Bytes /\ client \in Clients
        BY DEF TypeOK
      <4> QED  BY <4>1, BytesFacts, Positions
    <3>5. Position' = Position + Len(arrived) /\ Position \in Int
      <4>1. Sent' = Sent
        BY <1>0, SentFixed
      <4>2. Len(arrived') = 0
        BY <2>1
      <4> QED  BY <2>1, <3>4, <4>1, <4>2 DEF Position
    <3>6. /\ Total >= Len(target) + 1 /\ Begin >= 0
          /\ ~cut => Total = Len(target) + 1 + Position - DataAt
      BY <2>1, <3>1 DEF Written
    <3>10. Begin' = Begin
      <4>1. Begin = Position + Len(target) + 1 - Total
        BY <2>1 DEF Begin
      <4>2. Begin' = Position' + Len(target) + 1 - Total'
        BY <2>1 DEF Begin
      <4> QED  BY <1>0a, <2>2, <3>3, <3>4, <3>5, <4>1, <4>2
    <3>7. Total' >= Len(target) + 1 /\ Begin' >= 0
      BY <1>0a, <2>2, <3>3, <3>4, <3>6, <3>10
    <3>11. Aligned' /\ Framed'
      BY <1>11, <2>1, <2>2, <2>3, <3>2, <3>10
    <3>8. ASSUME ~cut PROVE Total' = Len(target) + 1 + Position' - DataAt
      <4>1. Total = Len(target) + 1 + Position - DataAt
        BY <3>6, <3>8
      <4>2. Total' = Total + Len(arrived) /\ Position' = Position + Len(arrived)
        BY <2>2, <3>3, <3>5
      <4>3. /\ Total \in Int /\ Position \in Int /\ Len(arrived) \in Int
            /\ Len(target) \in Int /\ DataAt \in Int
        BY <1>0a, <3>4, <3>5
      <4> QED  BY <4>1, <4>2, <4>3
    <3>9. Written'
      BY <1>0, <2>1, <3>7, <3>8 DEF Written
    <3> QED  BY <1>0, <3>9, <3>10, <3>11 DEF Tunnel
  <2> QED  BY <1>5, <2>1, <2>3 DEF Running
<1>15. ASSUME NEW n \in Nat, n <= Len(stream), Running,
              UNCHANGED <<arrived, coming, stage, target, cut, sending>>,
              Taken' = Taken + n, Len(stream') = Len(stream) - n,
              \A i \in 1 .. Len(stream) - n : stream'[i] = stream[n + i]
       PROVE  Aligned' /\ Written' /\ Begin' = Begin
  <2>2. Position' = Position
    BY <1>0, <1>15 DEF Position
  <2>1. Aligned' /\ Total' = Total /\ Begin' = Begin
    BY <1>0, <1>15, <2>2, AlignedTake
  <2>3. Written'
    BY <1>0, <1>15, <2>1, <2>2 DEF Written
  <2> QED  BY <2>1, <2>3
<1>16. CASE ReadLength
  <2>1. Len(target) % Radix \in Byte /\ Head(stream) = <<Len(target) % Radix>>
    BY <1>0, <1>16, LengthFirst
  <2>2. /\ relay = "address" /\ length = 0 /\ stream # <<>> /\ stream' = Tail(stream)
        /\ length' = Len(target) % Radix
        /\ relay' = IF Len(target) % Radix = 0 THEN "failed" ELSE "address"
        /\ UNCHANGED <<arrived, coming, stage, target, cut, sending, dialled, received>>
    BY <1>16, <2>1 DEF ReadLength, readVars, socksVars
  <2>3. CASE Len(target) % Radix = 0
    BY <1>2, <2>2, <2>3
  <2>4. CASE Len(target) % Radix # 0
    <3>1. relay' = "address" /\ length' # 0 /\ Taken = 0 /\ Taken' = 1
      BY <2>2, <2>4 DEF Taken
    <3>2. Len(stream') = Len(stream) - 1 /\ \A i \in 1 .. Len(stream) - 1 : stream'[i] = stream[i + 1]
      BY <1>0, <2>2, TailFacts
    <3>3. 1 <= Len(stream)
      BY <1>0, <1>0a, <2>2, TextFacts
    <3>4. \A i \in 1 .. Len(stream) - 1 : stream'[i] = stream[1 + i]
      BY <3>2
    <3>5. Aligned' /\ Written' /\ Begin' = Begin
      BY <1>15, <2>2, <3>1, <3>2, <3>3, <3>4 DEF Running
    <3>6. Framed'
      BY <2>2, <3>1 DEF Framed
    <3> QED  BY <1>0, <3>5, <3>6 DEF Tunnel
  <2> QED  BY <2>3, <2>4
<1>17. CASE ReadAddress
  <2>1. /\ relay = "address" /\ length > 0 /\ Len(stream) >= length /\ relay' = "dial"
        /\ UNCHANGED <<arrived, coming, stage, target, cut, sending, length, received>>
    BY <1>17 DEF ReadAddress, readVars, socksVars
  <2>2. /\ Len(stream') = Len(stream) - length
        /\ \A i \in 1 .. Len(stream') : stream'[i] = stream[length + i]
        /\ Len(dialled') = length
        /\ \A i \in 1 .. length : dialled'[i] = stream[i]
    BY <1>0, <1>17, ReadAddressTypes
  <2>3. received' = <<>> /\ Len(received') = 0
    BY <1>0, <2>1 DEF Phases
  <2>4. Taken = 1 /\ Taken' = 1 + length
    BY <1>0, <2>1, <2>3 DEF Taken
  <2>5. Aligned' /\ Written' /\ Begin' = Begin
    BY <1>0, <1>15, <2>1, <2>2, <2>4 DEF Running
  <2>6. length = Len(target) % Radix /\ length <= Len(target)
    <3>1. length = Len(target) % Radix
      BY <1>0, <2>1 DEF Framed, Running
    <3> QED  BY <1>0, <1>0a, <3>1, Remainders
  <2>7. \A i \in 1 .. length : stream[i] = target[i]
    <3> SUFFICES ASSUME NEW i \in 1 .. length PROVE stream[i] = target[i]
      OBVIOUS
    <3> DEFINE j == 1 + i
    <3>1. /\ j \in Nat /\ j # 1 /\ j <= Len(target) + 1 /\ j - 1 = i
          /\ j \in 1 .. Len(target) + 1 /\ j = Taken + i /\ i \in 1 .. Len(stream)
      <4>1. i \in Nat /\ i >= 1 /\ i <= length
        BY <1>0
      <4>2. length \in Nat /\ length <= Len(target) /\ length <= Len(stream) /\ Taken = 1
        BY <1>0, <1>0a, <2>1, <2>4, <2>6
      <4> QED  BY <1>0a, <4>1, <4>2
    <3> HIDE DEF j
    <3>2. stream[i] = Flow(j)
      BY <1>0, <2>1, <3>1 DEF Aligned, Running
    <3>3. Flow(j) = target[j - 1]
      BY <1>0a, <3>1 DEF Flow
    <3> QED  BY <3>1, <3>2, <3>3
  <2>8. Framed'
    BY <2>1, <2>2, <2>6, <2>7 DEF Framed
  <2> QED  BY <1>0, <2>5, <2>8 DEF Tunnel
<1>18. CASE CopyToTarget
  <2>1. /\ relay = "connected" /\ received' = received \o stream /\ stream' = <<>>
        /\ UNCHANGED <<arrived, coming, stage, target, cut, sending, length, dialled, relay>>
    BY <1>18 DEF CopyToTarget, readVars, socksVars, relayVars
  <2>2. Len(received') = Len(received) + Len(stream) /\ Len(stream') = 0
    <3>1. received \in Text
      BY DEF TypeOK
    <3> QED  BY <1>0, <2>1, <3>1, JoinedTexts
  <2>3. Taken' = Taken + Len(stream)
    BY <1>0, <1>0a, <2>1, <2>2 DEF Taken
  <2>4. Aligned' /\ Written' /\ Begin' = Begin
    <3>1. Len(stream) - Len(stream) = 0
      BY <1>0a
    <3> QED  BY <1>0a, <1>15, <2>1, <2>2, <2>3, <3>1 DEF Running
  <2>5. Framed'
    BY <1>0, <2>1 DEF Framed, HasPort, Running
  <2> QED  BY <1>0, <2>4, <2>5 DEF Tunnel
<1> QED
  BY <1>3, <1>4, <1>6, <1>7, <1>8, <1>9, <1>10, <1>12, <1>13, <1>14, <1>16, <1>17, <1>18 DEF Next
-----------------------------------------------------------------------------
(* A length byte that a dialled address has matched is the true length: an *)
(* address of Radix items or more leaves at most one item, and no port.    *)
LEMMA DialledTarget ==
  ASSUME RequestAssumption, TypeOK, Sized, Tunnel, relay \in {"dial", "connected"},
         Len(target) < Radix \/ relay = "connected"
  PROVE  length = Len(target) /\ dialled = target
<1>0. /\ Phases /\ Framed /\ target \in Text /\ dialled \in Text
      /\ Radix \in Nat /\ Radix > 5
  BY Width DEF Tunnel, Running, TypeOK
<1>1. Len(target) \in Nat /\ length \in Nat /\ length > 0
  BY <1>0, TunnelFacts DEF Phases
<1>2. length = Len(target) % Radix /\ Len(dialled) = length
      /\ \A i \in 1 .. length : dialled[i] = target[i]
  BY <1>0, <1>1 DEF Framed
<1>4. Len(target) <= Radix + 1
  <2>1. stage \in {"length", "frame", "bridge"}
    BY <1>0 DEF Phases, TypeOK
  <2> QED  BY <2>1 DEF Sized
<1>5. Len(target) < Radix
  <2> SUFFICES ASSUME ~(Len(target) < Radix) PROVE FALSE
    OBVIOUS
  <2>1. length <= 1
    <3>1. Radix <= Len(target)
      BY <1>0, <1>1
    <3> QED  BY <1>0, <1>1, <1>2, <1>4, <3>1, Remainders
  <2>2. HasPort(dialled)
    BY <1>0 DEF Framed
  <2>3. PICK i \in DOMAIN dialled : i < Len(dialled)
    BY <2>2 DEF HasPort
  <2>4. i \in 1 .. Len(dialled)
    BY <1>0, <2>3, TextFacts
  <2> QED  BY <1>1, <1>2, <2>1, <2>3, <2>4
<1>6. length = Len(target)
  BY <1>0, <1>1, <1>2, <1>5, Remainders
<1>7. dialled = target
  <2>1. dialled \in Seq(Bytes) /\ target \in Seq(Bytes)
    BY <1>0, TextFacts
  <2>2. Len(dialled) = Len(target) /\ \A i \in 1 .. Len(dialled) : dialled[i] = target[i]
    BY <1>2, <1>6
  <2> QED  BY <2>1, <2>2, SeqEqual
<1> QED  BY <1>6, <1>7

(* An address that is about to be sent is of the size its length byte,     *)
(* and Remainders, can deal with.                                          *)
LEMMA SizedStep ==
  ASSUME RequestAssumption, TypeOK, Sized, [Next]_vars
  PROVE  Sized'
<1>0. /\ atyp \in 0 .. Radix - 1 /\ size \in 0 .. Radix - 1 /\ target \in Text /\ arrived \in Bytes
      /\ Radix \in Nat /\ Radix > 5 /\ Len(target) \in Nat
  BY Width, TunnelFacts DEF TypeOK
<1>1. CASE target' = target /\ (stage' \in {"open", "port"} => stage' = stage)
           /\ (stage' \in {"length", "frame", "bridge"} => stage \in {"open", "length", "frame", "bridge"})
  BY <1>1 DEF Sized
<1>2. CASE ReadIP
  <2>1. target' = HostText(atyp, Buffer(IPLength(atyp))) /\ atyp # Domain /\ stage' = "port"
    BY <1>2 DEF ReadIP
  <2>2. Buffer(IPLength(atyp)) \in Bytes
    BY <1>0, Buffers DEF IPLength
  <2>3. Len(target') = 1
    BY <2>1, <2>2, HostTypes
  <2> QED  BY <1>0, <2>1, <2>3 DEF Sized
<1>3. CASE ReadDomain
  <2>1. target' = HostText(atyp, Buffer(size)) /\ stage' = "port"
    BY <1>3 DEF ReadDomain
  <2>2. Buffer(size) \in Bytes /\ Len(Buffer(size)) = size
    BY <1>0, Buffers
  <2>3. Len(target') \in {1, size}
    BY <2>1, <2>2, HostTypes
  <2> QED  BY <1>0, <2>1, <2>3 DEF Sized
<1>4. CASE ReadPort
  <2>1. stage = "port" /\ target' = JoinHostPort(target, Buffer(2)) /\ stage' = "open"
    BY <1>4 DEF ReadPort
  <2>2. Buffer(2) \in Bytes
    BY <1>0, Buffers
  <2>3. Len(target') = Len(target) + 2
    BY <1>0, <2>1, <2>2, JoinTypes
  <2> QED  BY <1>0, <2>1, <2>3 DEF Sized
<1>5. CASE \/ ReadGreeting \/ ReadMethods \/ ReadHeader \/ ReadDomainLength \/ ReadFails
           \/ OpenRelayFails
  BY <1>1, <1>5 DEF ReadGreeting, ReadMethods, ReadHeader, ReadDomainLength, ReadFails, OpenRelayFails
<1>6. CASE OpenRelay \/ SendLength \/ SendAddress \/ CopyUp \/ WriteFails
  BY <1>1, <1>6 DEF OpenRelay, SendLength, SendAddress, CopyUp, WriteFails, socksVars
<1> QED
  BY <1>1, <1>2, <1>3, <1>4, <1>5, <1>6 DEF Next, vars, socksVars, Arrive, Deliver,
     ForwardToNextPeer, HandleProxyTraffic, RelayFails, ReadLength, ReadAddress, Dial, CopyToTarget

(* What has been received stays a run of the client's bytes: the copying   *)
(* to the target takes up where it stopped.                                *)
LEMMA ReceivedStep ==
  ASSUME RequestAssumption, TypeOK, InOrder, Sized, Tunnel, Faithful, Received, [Next]_vars
  PROVE  Received'
<1>0. /\ client' = client /\ (~cut' => ~cut) /\ client \in Clients
      /\ stream \in Text /\ received \in Text
      /\ Running /\ Running' => Begin' = Begin
  BY InOrderStep, TunnelStep DEF TypeOK
<1>1. Sent' = Sent /\ DataAt' = DataAt
  BY <1>0, SentFixed
<1>2. /\ Len(stream) \in Nat /\ Len(sending) \in Nat /\ Len(received) \in Nat
      /\ Len(target) \in Nat /\ Taken \in Nat
      /\ Total = Taken + Len(stream) + Len(sending)
      /\ Position \in Int /\ Len(Sent) \in Nat /\ Position <= Len(Sent)
  BY TunnelFacts, PositionInSent
<1>3. ASSUME relay = "connected" \/ (relay = "dial" /\ Len(received) = 0)
      PROVE  /\ Running /\ stage = "bridge" /\ Begin \in Nat
             /\ Begin + (Total - 1 - Len(target)) = Position
             /\ Total >= Len(target) + 1
             /\ ~cut => Begin = DataAt
  <2>1. Aligned /\ Written /\ Phases /\ Framed /\ Running
    BY <1>3 DEF Tunnel, Running
  <2>2. stage \in {"length", "frame", "bridge"}
    BY <1>3, <2>1 DEF Phases, TypeOK
  <2>3. length \in Nat /\ length > 0
    BY <1>3, <2>1, TunnelFacts DEF Phases
  <2>4. Total >= 2
    BY <1>2, <1>3, <2>3 DEF Taken
  <2>5. stage = "bridge"
    BY <2>1, <2>2, <2>4 DEF Written
  <2>6. Begin = Position + Len(target) + 1 - Total /\ Begin >= 0 /\ Total >= Len(target) + 1
    BY <2>1, <2>5 DEF Begin, Written
  <2>7. ~cut => Total = Len(target) + 1 + Position - DataAt
    BY <2>1, <2>5 DEF Written
  <2>8. DataAt \in Nat /\ Total \in Nat
    BY <1>0, Positions, TunnelFacts
  <2>9. ~cut => Begin = DataAt
    BY <1>2, <2>6, <2>7, <2>8
  <2>10. Begin \in Nat /\ Begin + (Total - 1 - Len(target)) = Position
    BY <1>2, <2>6, <2>8
  <2> QED  BY <2>1, <2>5, <2>6, <2>9, <2>10
<1>4. ASSUME received' = received
      PROVE  /\ \E n \in Nat : From(n)' /\ (~cut' => n = DataAt')
             /\ \A n \in Nat : From(n) => From(n)'
  <2>1. \A n \in Nat : From(n) => From(n)'
    BY <1>1, <1>4 DEF From
  <2> QED  BY <1>0, <1>1, <2>1 DEF Received
<1>5. CASE received' = received /\ (relay' = "connected" => relay = "connected")
  <2>1. ASSUME relay' = "connected" PROVE From(Begin)'
    <3>1. Begin' = Begin /\ Begin \in Nat /\ From(Begin)
      BY <1>0, <1>3, <1>5, <2>1 DEF Running, Received
    <3>2. From(Begin) => received' = received /\ Begin' + Len(received') <= Len(Sent')
                         /\ \A i \in 1 .. Len(received') : received'[i] = <<Sent'[Begin' + i]>>
      BY <1>1, <1>5, <3>1 DEF From
    <3> QED  BY <3>1, <3>2 DEF From
  <2> QED  BY <1>4, <1>5, <2>1 DEF Received
<1>6. CASE Dial
  <2>1. relay = "dial" /\ relay' = "connected" /\ received' = received
    BY <1>6 DEF Dial, exitVars
  <2>2. Len(received) = 0
    <3>1. received = <<>>
      BY <2>1 DEF Tunnel, Phases
    <3> QED  BY <3>1
  <2>3. Begin' = Begin /\ Begin \in Nat /\ Begin <= Len(Sent)
    BY <1>0, <1>2, <1>3, <2>1, <2>2 DEF Running
  <2>4. From(Begin)'
    BY <1>1, <1>2, <2>1, <2>2, <2>3 DEF From
  <2> QED  BY <1>4, <2>1, <2>4 DEF Received
<1>7. CASE CopyToTarget
  <2>1. relay = "connected" /\ relay' = "connected" /\ received' = received \o stream /\ cut' = cut
    BY <1>7 DEF CopyToTarget, relayVars, readVars
  <2>2. length = Len(target)
    BY <2>1, DialledTarget
  <2>3. Taken = 1 + Len(target) + Len(received)
    BY <2>1, <2>2 DEF Taken
  <2>4. /\ Begin' = Begin /\ Begin \in Nat /\ (~cut => Begin = DataAt)
        /\ Begin + (Total - 1 - Len(target)) = Position
    BY <1>0, <1>3, <2>1 DEF Running
  <2>5. Aligned /\ From(Begin)
    BY <2>1 DEF Tunnel, Running, Received
  <2>6. Begin + Len(received) + Len(stream) <= Len(Sent)
    BY <1>2, <2>3, <2>4
  <2>7. /\ Len(received') = Len(received) + Len(stream)
        /\ \A i \in 1 .. Len(received) : received'[i] = received[i]
        /\ \A i \in 1 .. Len(stream) : received'[Len(received) + i] = stream[i]
    BY <1>0, <2>1, JoinedTexts
  <2>8. \A i \in 1 .. Len(received') : received'[i] = <<Sent[Begin + i]>>
    <3> SUFFICES ASSUME NEW i \in 1 .. Len(received') PROVE received'[i] = <<Sent[Begin + i]>>
      OBVIOUS
    <3>1. CASE i <= Len(received)
      <4>1. i \in 1 .. Len(received)
        BY <1>2, <2>7, <3>1
      <4> QED  BY <2>5, <2>7, <4>1 DEF From
    <3>2. CASE i > Len(received)
      <4> DEFINE m == i - Len(received)
                 j == Taken + m
      <4>1. /\ m \in 1 .. Len(stream) /\ Len(received) + m = i
            /\ j \in Nat /\ j # 1 /\ ~(j <= Len(target) + 1) /\ j - 1 - Len(target) = i
        <5>1. i \in Nat /\ i <= Len(received) + Len(stream)
          BY <2>7
        <5> QED  BY <1>2, <2>3, <3>2, <5>1
      <4>2. received'[i] = stream[m]
        BY <2>7, <4>1
      <4>3. j = Taken + m
        OBVIOUS
      <4> HIDE DEF j
      <4>4. stream[m] = Flow(j)
        BY <2>5, <4>1, <4>3 DEF Aligned
      <4>5. Flow(j) = <<Sent[Begin + (j - 1 - Len(target))]>>
        BY <1>2, <4>1 DEF Flow
      <4> QED  BY <4>1, <4>2, <4>4, <4>5
    <3> QED  BY <1>2, <3>1, <3>2
  <2>9. From(Begin)'
    BY <1>1, <2>4, <2>6, <2>7, <2>8, <1>2 DEF From
  <2> QED  BY <1>1, <2>1, <2>4, <2>9 DEF Received
<1>8. CASE \/ ReadGreeting \/ ReadMethods \/ ReadHeader \/ ReadIP
           \/ ReadDomainLength \/ ReadDomain \/ ReadPort \/ ReadFails \/ OpenRelayFails
  BY <1>5, <1>8 DEF ReadGreeting, ReadMethods, ReadHeader, ReadIP, ReadDomainLength, ReadDomain,
     ReadPort, ReadFails, OpenRelayFails, Reads, relayVars, exitVars
<1> QED
  BY <1>5, <1>6, <1>7, <1>8 DEF Next, vars, Arrive, Deliver, OpenRelay, ForwardToNextPeer,
     HandleProxyTraffic, RelayFails, SendLength, SendAddress, CopyUp, Writes, WriteFails, ReadLength,
     ReadAddress, relayVars, exitVars

LEMMA AnswersStep ==
  ASSUME RequestAssumption, TypeOK, InOrder, Faithful, [Next]_vars, ~cut'
  PROVE  Answers'
<1>0. ~cut /\ Answers /\ Parsed /\ client' = client /\ client \in Clients
  BY InOrderStep DEF Faithful, TypeOK
<1>0a. Asked' = Asked /\ Target(client)' = Target(client)
  BY <1>0, SentFixed
<1>1. CASE ReadMethods
  <2>1. /\ Reads(size) /\ stage = "methods" /\ reply' = reply
        /\ IF \E i \in 1 .. size : Buffer(size)[i] = NoAuthentication
             THEN method' = "accepted" ELSE method' = "refused"
    BY <1>1 DEF ReadMethods
  <2>2. Position = 2 /\ size = MethodsLen
    BY <1>0, <2>1 DEF Parsed
  <2>3. \A i \in 1 .. MethodsLen : Buffer(MethodsLen)[i] = client.methods[i]
    BY <2>1, <2>2, MethodsRead
  <2>4. DOMAIN client.methods = 1 .. MethodsLen
    BY <1>0, ClientFacts, BytesFacts DEF MethodsLen
  <2>5. IF \E i \in DOMAIN client.methods : client.methods[i] = NoAuthentication
          THEN method' = "accepted" ELSE method' = "refused"
    BY <2>1, <2>2, <2>3, <2>4
  <2>6. reply # "success"
    BY <1>0, <2>1 DEF Answers
  <2> QED  BY <1>0, <2>1, <2>5, <2>6 DEF Answers
<1>2. CASE ReadHeader
  <2>1. Reads(4) /\ stage = "header" /\ method' = method
    BY <1>2 DEF ReadHeader
  <2>2. Position = 2 + MethodsLen
    BY <1>0, <2>1 DEF Parsed
  <2>3. Buffer(4)[1] = Version /\ Buffer(4)[2] = client.cmd /\ Buffer(4)[4] = client.atyp
    BY <2>1, <2>2, HeaderRead
  <2>4. \/ reply' = reply
        \/ reply' = "command" /\ client.cmd # Connect
        \/ reply' = "address type" /\ client.cmd = Connect /\ client.atyp \notin {IPv4, Domain, IPv6}
    BY <1>2, <2>3 DEF ReadHeader
  <2>5. reply # "success"
    BY <1>0, <2>1 DEF Answers
  <2> QED  BY <1>0, <2>1, <2>4, <2>5 DEF Answers
<1>3. CASE ReadGreeting \/ ReadIP \/ ReadDomainLength \/ ReadDomain \/ ReadPort
  <2>1. /\ stage \notin {"length", "frame", "bridge", "closed"}
        /\ method' = method /\ reply' = reply
    BY <1>3 DEF ReadGreeting, ReadIP, ReadDomainLength, ReadDomain, ReadPort
  <2> QED  BY <1>0, <2>1 DEF Answers
<1>4. CASE OpenRelay
  <2>1. stage = "open" /\ stage' = "length" /\ reply' = "success" /\ UNCHANGED <<method, target>>
    BY <1>4 DEF OpenRelay
  <2> QED  BY <1>0, <1>0a, <2>1 DEF Answers, Parsed
<1>5. CASE OpenRelayFails
  BY <1>0, <1>5 DEF OpenRelayFails, Answers
<1>6. CASE /\ UNCHANGED <<method, reply, target>>
           /\ stage' \in {stage, "frame", "bridge", "closed"}
  BY <1>0, <1>0a, <1>6 DEF Answers
<1>7. CASE ReadFails \/ SendLength \/ SendAddress \/ WriteFails
  BY <1>6, <1>7 DEF ReadFails, SendLength, SendAddress, WriteFails
<1> QED
  BY <1>1, <1>2, <1>3, <1>4, <1>5, <1>6, <1>7 DEF Next, vars, Arrive, Deliver, ForwardToNextPeer,
     HandleProxyTraffic, RelayFails, CopyUp, ReadLength, ReadAddress, Dial, CopyToTarget, socksVars
-----------------------------------------------------------------------------
LEMMA ChainStep ==
  ASSUME RequestAssumption, TypeOK, Chain, [Next]_vars
  PROVE  Chain'
<1>0. /\ path \in Seq(Peers) /\ name \in Seq(Peers) /\ route \in Seq(Peers)
      /\ Len(path) \in Nat /\ Len(name) \in Nat /\ Len(route) \in Nat
      /\ route' = route
  <2>1. path \in Seq(Peers) /\ name \in Seq(Peers) /\ route \in Seq(Peers)
    BY Width DEF TypeOK
  <2>2. route' = route
    BY DEF Next, vars, Arrive, Deliver, Reads, ReadGreeting, ReadMethods, ReadHeader, ReadIP,
       ReadDomainLength, ReadDomain, ReadPort, ReadFails, OpenRelayFails, OpenRelay,
       ForwardToNextPeer, HandleProxyTraffic, RelayFails, SendLength, SendAddress, CopyUp,
       Writes, WriteFails, ReadLength, ReadAddress, Dial, CopyToTarget, clientVars
  <2> QED  BY <2>1, <2>2, LenProperties
<1>1. CASE UNCHANGED relayVars
  BY <1>0, <1>1 DEF Chain, relayVars
<1>2. CASE OpenRelay
  <2>1. path' = <<Head(route)>> /\ name' = Tail(route) /\ relay' = "handle" /\ route # <<>>
    BY <1>2 DEF OpenRelay
  <2>2. /\ Len(Tail(route)) = Len(route) - 1
        /\ \A i \in 1 .. Len(Tail(route)) : Tail(route)[i] = route[i + 1]
        /\ Head(route) = route[1]
    BY <1>0, <2>1, HeadTailProperties
  <2>3. Len(path') = 1 /\ path'[1] = route[1]
    BY <2>1, <2>2
  <2>4. Len(path') + Len(name') = Len(route)
    BY <1>0, <2>1, <2>2, <2>3
  <2>5. \A i \in 1 .. Len(path') : path'[i] = route[i]
    BY <2>3
  <2>6. \A i \in 1 .. Len(name') : name'[i] = route[Len(path') + i]
    <3> SUFFICES ASSUME NEW i \in 1 .. Len(name') PROVE name'[i] = route[Len(path') + i]
      OBVIOUS
    <3>1. name'[i] = route[i + 1] /\ Len(path') + i = i + 1
      BY <2>1, <2>2, <2>3
    <3> QED  BY <3>1
  <2> QED  BY <1>0, <2>1, <2>4, <2>5, <2>6 DEF Chain
<1>3. CASE ForwardToNextPeer
  <2>1. /\ relay = "handle" /\ relay' = relay /\ name # <<>>
        /\ path' = Append(path, Head(name)) /\ name' = Tail(name)
    BY <1>3 DEF ForwardToNextPeer
  <2>2. /\ Len(Tail(name)) = Len(name) - 1
        /\ \A i \in 1 .. Len(Tail(name)) : Tail(name)[i] = name[i + 1]
        /\ Head(name) = name[1] /\ Head(name) \in Peers
        /\ Len(name) >= 1
    <3>1. Len(name) # 0
      BY <1>0, <2>1, EmptySeq
    <3> QED  BY <1>0, <2>1, <3>1, HeadTailProperties
  <2>3. /\ Len(path') = Len(path) + 1 /\ path'[Len(path) + 1] = name[1]
        /\ \A i \in 1 .. Len(path) : path'[i] = path[i]
    BY <1>0, <2>1, <2>2, AppendProperties
  <2>4. /\ Len(path) + Len(name) = Len(route)
        /\ \A i \in 1 .. Len(path) : path[i] = route[i]
        /\ \A i \in 1 .. Len(name) : name[i] = route[Len(path) + i]
    BY <2>1 DEF Chain
  <2>5. Len(path') + Len(name') = Len(route)
    BY <1>0, <2>1, <2>2, <2>3, <2>4
  <2>6. \A i \in 1 .. Len(path') : path'[i] = route[i]
    <3> SUFFICES ASSUME NEW i \in 1 .. Len(path') PROVE path'[i] = route[i]
      OBVIOUS
    <3>1. CASE i <= Len(path)
      BY <1>0, <2>3, <2>4, <3>1
    <3>2. CASE i = Len(path) + 1
      <4>1. name[1] = route[Len(path) + 1]
        BY <1>0, <2>2, <2>4
      <4> QED  BY <2>3, <3>2, <4>1
    <3> QED  BY <1>0, <2>3, <3>1, <3>2
  <2>7. \A i \in 1 .. Len(name') : name'[i] = route[Len(path') + i]
    <3> SUFFICES ASSUME NEW i \in 1 .. Len(name') PROVE name'[i] = route[Len(path') + i]
      OBVIOUS
    <3>1. name'[i] = name[i + 1] /\ i + 1 \in 1 .. Len(name)
      BY <1>0, <2>1, <2>2
    <3>2. name[i + 1] = route[Len(path) + (i + 1)]
      BY <2>4, <3>1
    <3>3. Len(path) + (i + 1) = Len(path') + i
      BY <1>0, <2>3
    <3> QED  BY <3>1, <3>2, <3>3
  <2> QED  BY <1>0, <2>1, <2>5, <2>6, <2>7 DEF Chain
<1>4. CASE HandleProxyTraffic \/ RelayFails \/ Dial
  <2>1. /\ relay # "none" /\ relay' \in {"address", "failed", "connected"}
        /\ relay' # "failed" => name = <<>> \/ relay = "dial"
        /\ UNCHANGED <<path, name>>
    BY <1>4 DEF HandleProxyTraffic, RelayFails, Dial
  <2> QED  BY <1>0, <2>1 DEF Chain
<1>5. CASE ReadLength \/ ReadAddress
  <2>1. /\ relay = "address" /\ relay' \in {"failed", "address", "dial"}
        /\ UNCHANGED <<path, name>>
    BY <1>5 DEF ReadLength, ReadAddress
  <2> QED  BY <1>0, <2>1 DEF Chain
<1> QED
  BY <1>1, <1>2, <1>3, <1>4, <1>5 DEF Next, vars, Arrive, Deliver, Reads, ReadGreeting,
     ReadMethods, ReadHeader, ReadIP, ReadDomainLength, ReadDomain, ReadPort, ReadFails,
     OpenRelayFails, SendLength, SendAddress, CopyUp, Writes, WriteFails, CopyToTarget

LEMMA InitRequestInv ==
  ASSUME RequestAssumption, Init
  PROVE  RequestInv
<1>1. Sent \in Bytes /\ Len(Sent) \in Nat /\ client \in Clients
  BY Positions DEF Init
<1>2. coming = Sent /\ arrived = <<>>
  BY DEF Init, Sent
<1>3. Len(arrived) = 0 /\ Position = 0
  BY <1>1, <1>2 DEF Position
<1>4. TypeOK
  <2>1. <<>> \in Bytes /\ <<>> \in Text /\ <<>> \in Seq(Peers)
    BY DEF Bytes, Text
  <2>2. 0 \in 0 .. Radix - 1
    BY Width
  <2>3. coming \in Bytes
    BY <1>1, <1>2
  <2> QED  BY <2>1, <2>2, <2>3 DEF Init, TypeOK
<1>5. InOrder
  BY <1>1, <1>2, <1>3 DEF InOrder
<1>6. Tunnel
  BY DEF Init, Tunnel, Phases, Running
<1>7. Parsed
  BY <1>3 DEF Init, Parsed
<1>8. Received
  <2>1. received = <<>> /\ Len(received) = 0 /\ relay = "none"
    BY DEF Init
  <2>3. DataAt \in Nat /\ DataAt <= Len(Sent)
    <3>1. DataAt \in Nat /\ DataLen \in Nat /\ Len(Sent) = DataAt + DataLen
      BY <1>1, Positions, Zenon
    <3> QED  BY <3>1
  <2>2. From(DataAt)
    BY <1>1, <2>1, <2>3 DEF From
  <2> QED  BY <2>1, <2>2, <2>3 DEF Received
<1>11. Sized
  BY DEF Init, Sized
<1>9. Answers
  BY DEF Init, Answers
<1>10. Chain
  BY DEF Init, Chain
<1> QED  BY <1>4, <1>5, <1>6, <1>7, <1>8, <1>9, <1>10, <1>11 DEF RequestInv, Faithful

LEMMA NextRequestInv ==
  ASSUME RequestAssumption, RequestInv, [Next]_vars
  PROVE  RequestInv'
<1>0. TypeOK /\ InOrder /\ Sized /\ Tunnel /\ Received /\ Faithful /\ Chain
  BY DEF RequestInv
<1>1. TypeOK'
  BY <1>0, TypeStep
<1>2. InOrder'
  BY <1>0, InOrderStep
<1>3. Tunnel'
  BY <1>0, TunnelStep
<1>4. Faithful'
  BY <1>0, ParsedStep, AnswersStep DEF Faithful
<1>6. Sized' /\ Received'
  BY <1>0, SizedStep, ReceivedStep
<1>5. Chain'
  BY <1>0, ChainStep
<1> QED  BY <1>1, <1>2, <1>3, <1>4, <1>5, <1>6 DEF RequestInv

LEMMA PrefixByItems ==
  ASSUME NEW X, NEW s \in Seq(X), NEW t \in Seq(X), Len(s) <= Len(t),
         \A i \in 1 .. Len(s) : s[i] = t[i]
  PROVE  IsPrefix(s, t)
<1>1. Len(s) \in Nat /\ Len(t) \in Nat
  BY LenProperties
<1>2. ASSUME NEW r \in Seq(X), Len(s) <= Len(r)
      PROVE  /\ SubSeq(r, 1, Len(s)) \in Seq(X)
             /\ Len(SubSeq(r, 1, Len(s))) = Len(s)
             /\ \A i \in 1 .. Len(s) : SubSeq(r, 1, Len(s))[i] = r[i]
  <2>1. Len(r) \in Nat /\ \A i \in 1 .. Len(s) : r[i] \in X
    BY <1>1, <1>2, LenProperties, ElementOfSeq
  <2>2. /\ SubSeq(r, 1, Len(s)) \in Seq(X)
        /\ Len(SubSeq(r, 1, Len(s))) = IF 1 <= Len(s) THEN Len(s) - 1 + 1 ELSE 0
        /\ \A i \in 1 .. Len(s) - 1 + 1 : SubSeq(r, 1, Len(s))[i] = r[1 + i - 1]
    BY <1>1, <2>1, SubSeqProperties
  <2> QED  BY <1>1, <2>2
<1>3. SubSeq(s, 1, Len(s)) = SubSeq(t, 1, Len(s))
  <2> DEFINE u == SubSeq(s, 1, Len(s))
             v == SubSeq(t, 1, Len(s))
  <2>1. u \in Seq(X) /\ Len(u) = Len(s) /\ \A i \in 1 .. Len(s) : u[i] = s[i]
    BY <1>1, <1>2
  <2>2. v \in Seq(X) /\ Len(v) = Len(s) /\ \A i \in 1 .. Len(s) : v[i] = t[i]
    BY <1>2
  <2> HIDE DEF u, v
  <2>3. u = v
    BY <2>1, <2>2, SeqEqual
  <2> QED  BY <2>3 DEF u, v
<1> QED  BY <1>3 DEF IsPrefix

LEMMA Consequences ==
  ASSUME RequestAssumption, RequestInv
  PROVE  TypeOK /\ RightTarget /\ OnlyData /\ RouteFollowed /\ AnswersFit
<1>0. TypeOK /\ Sized /\ Tunnel /\ Received /\ Faithful /\ Chain
  BY DEF RequestInv
<1>1. RightTarget
  <2>1. ASSUME ~cut, relay \in {"dial", "connected"} PROVE target = Target(client)
    <3>1. stage \in {"length", "frame", "bridge"}
      BY <1>0, <2>1 DEF Tunnel, Phases, TypeOK
    <3> QED  BY <1>0, <2>1, <3>1 DEF Faithful, Parsed
  <2>2. ASSUME ~cut, relay \in {"dial", "connected"}, Len(Target(client)) < Radix
        PROVE  dialled = Target(client)
    BY <1>0, <2>1, <2>2, DialledTarget
  <2>3. ASSUME ~cut, relay = "connected" PROVE dialled = Target(client)
    BY <1>0, <2>1, <2>3, DialledTarget
  <2> QED  BY <2>2, <2>3 DEF RightTarget
<1>2. OnlyData
  <2>1. client \in Clients /\ received \in Text
    BY <1>0 DEF TypeOK
  <2>2. Sent \in Bytes /\ Sent \in Seq(Byte) /\ Len(Sent) \in Nat /\ Len(received) \in Nat
    BY <2>1, Positions, BytesFacts, TextFacts
  <2>3. PICK n \in Nat : From(n) /\ (~cut => n = DataAt)
    BY <1>0 DEF Received
  <2>4. n + Len(received) <= Len(Sent) /\ \A i \in 1 .. Len(received) : received[i] = <<Sent[n + i]>>
    BY <2>3 DEF From
  <2>5. n \in 0 .. Len(Sent)
    BY <2>2, <2>4
  <2> DEFINE rest == SubSeq(Sent, n + 1, Len(Sent))
  <2>6. /\ rest \in Bytes /\ Len(rest) = Len(Sent) - n
        /\ \A i \in 1 .. Len(Sent) - n : rest[i] = Sent[n + i]
    <3>1. /\ rest \in Seq(Byte) /\ Len(rest) = IF n <= Len(Sent) THEN Len(Sent) - n ELSE 0
          /\ \A i \in 1 .. Len(Sent) - n : rest[i] = Sent[n + i]
      BY <2>2, Remainder
    <3> QED  BY <2>5, <3>1 DEF Bytes, Byte
  <2> HIDE DEF rest
  <2>7. /\ AsText(rest) \in Text /\ Len(AsText(rest)) = Len(rest)
        /\ \A i \in 1 .. Len(rest) : AsText(rest)[i] = <<rest[i]>>
    BY <2>6, Texts
  <2>8. Len(received) <= Len(rest) /\ \A i \in 1 .. Len(received) : received[i] = AsText(rest)[i]
    <3>1. Len(received) <= Len(Sent) - n
      BY <2>2, <2>4, <2>5
    <3>2. Len(received) <= Len(rest)
      BY <2>6, <3>1
    <3>3. ASSUME NEW i \in 1 .. Len(received) PROVE received[i] = AsText(rest)[i]
      <4>1. i \in 1 .. Len(rest) /\ i \in 1 .. Len(Sent) - n
        BY <2>2, <2>5, <2>6, <3>1
      <4>2. rest[i] = Sent[n + i] /\ AsText(rest)[i] = <<rest[i]>>
        BY <2>6, <2>7, <4>1
      <4> QED  BY <2>4, <4>2
    <3> QED  BY <3>2, <3>3
  <2>9. received \in Seq(Bytes) /\ AsText(rest) \in Seq(Bytes)
    BY <2>1, <2>7, TextFacts
  <2>10. IsPrefix(received, AsText(rest))
    BY <2>7, <2>8, <2>9, PrefixByItems
  <2>11. DataAt = Len(Greeting(client) \o Request(client))
    <3>1. client \in Clients
      BY <2>1
    <3> QED  BY <3>1, Layout
  <2> QED  BY <2>3, <2>5, <2>10, <2>11 DEF OnlyData, rest
<1>3. RouteFollowed
  <2>1. /\ path \in Seq(Peers) /\ name \in Seq(Peers) /\ route \in Seq(Peers)
        /\ Len(path) \in Nat /\ Len(name) \in Nat /\ Len(route) \in Nat
    <3>1. path \in Seq(Peers) /\ name \in Seq(Peers) /\ route \in Seq(Peers)
      BY <1>0, Width DEF TypeOK
    <3> QED  BY <3>1, LenProperties
  <2>2. Len(path) <= Len(route) /\ \A i \in 1 .. Len(path) : path[i] = route[i]
    <3>1. CASE relay = "none"
      <4>1. path = <<>>
        BY <1>0, <3>1 DEF Chain
      <4>2. Len(path) = 0
        BY <4>1
      <4> QED  BY <2>1, <4>2
    <3>2. CASE relay # "none"
      BY <1>0, <2>1, <3>2 DEF Chain
    <3> QED  BY <3>1, <3>2
  <2>3. IsPrefix(path, route)
    BY <2>1, <2>2, PrefixByItems
  <2>4. ASSUME relay \in {"address", "dial", "connected"} PROVE path = route
    <3>1. name = <<>> /\ Len(path) + Len(name) = Len(route)
      BY <1>0, <2>4 DEF Chain
    <3>2. Len(name) = 0
      BY <3>1
    <3>3. Len(path) = Len(route)
      BY <2>1, <3>1, <3>2
    <3> QED  BY <2>1, <2>2, <3>3, SeqEqual
  <2> QED  BY <2>3, <2>4 DEF RouteFollowed
<1>4. AnswersFit
  BY <1>0 DEF Faithful, Answers, Asked, AnswersFit
<1> QED  BY <1>0, <1>1, <1>2, <1>3, <1>4

LEMMA RequestInvariant == Spec => []RequestInv
<1>1. Init => RequestInv
  BY RequestAssumption, InitRequestInv
<1>2. RequestInv /\ [Next]_vars => RequestInv'
  BY RequestAssumption, NextRequestInv
<1> QED  BY <1>1, <1>2, PTL DEF Spec

(* Every variable keeps its type; in particular an item that is read as    *)
(* the length of the frame is one byte.                                    *)
THEOREM RequestTypes == Spec => []TypeOK
<1>1. RequestInv => TypeOK
  BY RequestAssumption, Consequences
<1> QED  BY <1>1, RequestInvariant, PTL

(* Without a short read the exit node connects to the address the client   *)
(* asked for or to none, whatever the width of a byte and the address.     *)
THEOREM ConnectsToTarget == Spec => []RightTarget
<1>1. RequestInv => RightTarget
  BY RequestAssumption, Consequences
<1> QED  BY <1>1, RequestInvariant, PTL

(* The target receives one unbroken run of the client's bytes and nothing  *)
(* of the frame, short reads or not; without one the run begins with the   *)
(* data behind the request.                                                *)
THEOREM DataOnly == Spec => []OnlyData
<1>1. RequestInv => OnlyData
  BY RequestAssumption, Consequences
<1> QED  BY <1>1, RequestInvariant, PTL

(* The stream visits the peers of any route in their order, and the last   *)
(* of them alone acts as the exit node.                                    *)
THEOREM RouteKept == Spec => []RouteFollowed
<1>1. RequestInv => RouteFollowed
  BY RequestAssumption, Consequences
<1> QED  BY <1>1, RequestInvariant, PTL

(* Without a short read the answers to greeting and request are the ones   *)
(* the client's offer and request call for.                                *)
THEOREM AnswersTrue == Spec => []AnswersFit
<1>1. RequestInv => AnswersFit
  BY RequestAssumption, Consequences
<1> QED  BY <1>1, RequestInvariant, PTL
=============================================================================
