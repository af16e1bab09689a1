----------------------------- MODULE ProxyRequest -----------------------------
(***************************************************************************)
(* One CONNECT request from the bytes of the SOCKS5 client to the dial of  *)
(* the exit node: handleAuthentication and handleRequest with single reads *)
(* of a connection that delivers bytes as they come, OpenRelay and         *)
(* forwardToNextPeer along the peers of the protocol name, the frame of    *)
(* sendTargetAddr and readTargetAddr, and what the client sends behind its *)
(* request.  The tunnel is one stream from end to end: how its hops carry  *)
(* bytes and go down is the subject of RelayTunnel.                        *)
(*                                                                         *)
(* Client bytes are numbers below Radix.  Text, what a target address is   *)
(* made of, is a sequence of items; a byte is the item <<b>>, an IP        *)
(* address, a colon and a port are one item each, as only a domain name    *)
(* makes a text too long for the byte that carries its length.             *)
(* A domain name is taken to hold no colon itself.                         *)
(***************************************************************************)
EXTENDS Integers, Sequences, SequencesExt

CONSTANTS
  Radix,    \* values of a byte, 256
  Peers,    \* nodes that run the relay handler
  Routes,   \* lists of peers OpenRelay may be given
  Clients   \* what the client may send: methods, a request and data

Version == 5
NoAuthentication == 0
Connect == 1
IPv4 == 1
Domain == 3
IPv6 == 4
IPLength(atyp) == IF atyp = IPv4 THEN 4 ELSE 16

ASSUME RequestAssumption ==
  /\ Radix \in Nat /\ Radix > 5
  /\ Routes \subseteq Seq(Peers)
  /\ \A c \in Clients :
       /\ c.methods \in Seq(0 .. Radix - 1) /\ Len(c.methods) < Radix
       /\ c.cmd \in 0 .. Radix - 1 /\ c.atyp \in 0 .. Radix - 1
       /\ c.host \in Seq(0 .. Radix - 1)
       /\ \/ c.atyp = IPv4 /\ Len(c.host) = 4
          \/ c.atyp = IPv6 /\ Len(c.host) = 16
          \/ c.atyp \notin {IPv4, IPv6} /\ Len(c.host) < Radix
       /\ c.port \in Seq(0 .. Radix - 1) /\ Len(c.port) = 2
       /\ c.data \in Seq(0 .. Radix - 1)

(* What a client sends for its request.                                    *)
Greeting(c) == <<Version, Len(c.methods)>> \o c.methods
Request(c) ==
  <<Version, c.cmd, 0, c.atyp>>
    \o (IF c.atyp = Domain THEN <<Len(c.host)>> ELSE <<>>) \o c.host \o c.port

(* net.IP.String of the bytes of an address, net.JoinHostPort.             *)
AsText(bytes) == [i \in DOMAIN bytes |-> <<bytes[i]>>]
HostText(atyp, host) == IF atyp = Domain THEN AsText(host) ELSE <<host>>
Colon == <<>>
JoinHostPort(host, port) == host \o <<Colon, port>>
Target(c) == JoinHostPort(HostText(c.atyp, c.host), c.port)

VARIABLES
  client,    \* what the client sends
  route,     \* relayPeers
  coming,    \* bytes of the client on their way
  arrived,   \* bytes that have reached the SOCKS5 node and are not yet read
  cut,       \* history: a read returned less than the field it was made for
  stage,     \* what handleConnection reads or does next
  atyp,      \* address type of the request
  size,      \* length of the field that is read next
  target,    \* host, later targetAddr
  method,    \* answer to the greeting
  reply,     \* answer to the request
  path,      \* peers the stream has been opened to
  name,      \* peers left in the protocol name of the last of them
  relay,     \* what the last of them does
  sending,   \* items in the tunnel
  stream,    \* items that have reached the exit node and are not yet read
  length,    \* addrLength
  dialled,   \* the address given to net.DialTimeout
  received   \* what the target has received

clientVars == <<client, route>>
readVars == <<coming, arrived, cut>>
socksVars == <<stage, atyp, size, target, method, reply>>
relayVars == <<path, name, relay>>
tunnelVars == <<sending, stream>>
exitVars == <<length, dialled, received>>
vars == <<clientVars, readVars, socksVars, relayVars, tunnelVars, exitVars>>

Bytes == Seq(0 .. Radix - 1)
Text == Seq(Bytes)

TypeOK ==
  /\ client \in Clients
  /\ route \in Routes
  /\ coming \in Bytes
  /\ arrived \in Bytes
  /\ cut \in BOOLEAN
  /\ stage \in {"greeting", "methods", "header", "address", "domain", "port",
                "open", "length", "frame", "bridge", "closed"}
  /\ atyp \in 0 .. Radix - 1
  /\ size \in 0 .. Radix - 1
  /\ target \in Text
  /\ method \in {"none", "accepted", "refused"}
  /\ reply \in {"none", "success", "failure", "command", "address type"}
  /\ path \in Seq(Peers)
  /\ name \in Seq(Peers)
  /\ relay \in {"none", "handle", "address", "dial", "connected", "failed"}
  /\ sending \in Text
  /\ stream \in Text
  /\ length \in 0 .. Radix - 1
  /\ dialled \in Text
  /\ received \in Text

Init ==
  /\ client \in Clients
  /\ route \in Routes
  /\ coming = Greeting(client) \o Request(client) \o client.data
  /\ arrived = <<>>
  /\ cut = FALSE
  /\ stage = "greeting"
  /\ atyp = 0
  /\ size = 0
  /\ target = <<>>
  /\ method = "none"
  /\ reply = "none"
  /\ path = <<>>
  /\ name = <<>>
  /\ relay = "none"
  /\ sending = <<>>
  /\ stream = <<>>
  /\ length = 0
  /\ dialled = <<>>
  /\ received = <<>>
-----------------------------------------------------------------------------
(* A connection, or the tunnel, delivers the next bytes, as many as come.  *)
Arrive(k) ==
  /\ k \in DOMAIN coming
  /\ arrived' = arrived \o SubSeq(coming, 1, k)
  /\ coming' = SubSeq(coming, k + 1, Len(coming))
  /\ UNCHANGED <<clientVars, cut, socksVars, relayVars, tunnelVars, exitVars>>

Deliver(k) ==
  /\ relay \in {"address", "dial", "connected"}
  /\ k \in DOMAIN sending
  /\ stream' = stream \o SubSeq(sending, 1, k)
  /\ sending' = SubSeq(sending, k + 1, Len(sending))
  /\ UNCHANGED <<clientVars, readVars, socksVars, relayVars, exitVars>>

(* conn.Read with a fresh buffer of k bytes: what has come, up to k bytes, *)
(* and zeros behind it.  It waits for one byte, for none if k is 0.        *)
Reads(k) ==
  /\ k = 0 \/ arrived # <<>>
  /\ arrived' = SubSeq(arrived, k + 1, Len(arrived))
  /\ cut' = (cut \/ Len(arrived) < k)
  /\ UNCHANGED <<coming, clientVars, relayVars, tunnelVars, exitVars>>

Buffer(k) == [i \in 1 .. k |-> IF i \in DOMAIN arrived THEN arrived[i] ELSE 0]
-----------------------------------------------------------------------------
(* handleAuthentication.                                                   *)

ReadGreeting ==
  /\ stage = "greeting"
  /\ Reads(2)
  /\ \/ Buffer(2)[1] = Version /\ stage' = "methods"
     \/ Buffer(2)[1] # Version /\ stage' = "closed"
  /\ size' = Buffer(2)[2]
  /\ UNCHANGED <<atyp, target, method, reply>>

(* Mutant of ReadMethods: one method is enough.                            *)
ReadFirstMethod ==
  /\ stage = "methods"
  /\ Reads(size)
  /\ size > 0
  /\ IF Buffer(size)[1] = NoAuthentication
       THEN stage' = "header" /\ method' = "accepted"
       ELSE stage' = "closed" /\ method' = "refused"
  /\ UNCHANGED <<atyp, size, target, reply>>

ReadMethods ==
  /\ stage = "methods"
  /\ Reads(size)
  /\ IF \E i \in 1 .. size : Buffer(size)[i] = NoAuthentication
       THEN stage' = "header" /\ method' = "accepted"
       ELSE stage' = "closed" /\ method' = "refused"
  /\ UNCHANGED <<atyp, size, target, reply>>
-----------------------------------------------------------------------------
(* handleRequest.                                                          *)

ReadHeader ==
  /\ stage = "header"
  /\ Reads(4)
  /\ LET version == Buffer(4)[1]
         cmd == Buffer(4)[2]
         type == Buffer(4)[4]
     IN /\ \/ version # Version /\ stage' = "closed" /\ UNCHANGED reply
           \/ version = Version /\ cmd # Connect /\ stage' = "closed" /\ reply' = "command"
           \/ /\ version = Version /\ cmd = Connect
              /\ \/ type \in {IPv4, Domain, IPv6} /\ stage' = "address" /\ UNCHANGED reply
                 \/ type \notin {IPv4, Domain, IPv6} /\ stage' = "closed" /\ reply' = "address type"
        /\ atyp' = type
  /\ UNCHANGED <<size, target, method>>

ReadIP ==
  /\ stage = "address"
  /\ atyp # Domain
  /\ Reads(IPLength(atyp))
  /\ target' = HostText(atyp, Buffer(IPLength(atyp)))
  /\ stage' = "port"
  /\ UNCHANGED <<atyp, size, method, reply>>

ReadDomainLength ==
  /\ stage = "address"
  /\ atyp = Domain
  /\ Reads(1)
  /\ size' = Buffer(1)[1]
  /\ stage' = "domain"
  /\ UNCHANGED <<atyp, target, method, reply>>

ReadDomain ==
  /\ stage = "domain"
  /\ Reads(size)
  /\ target' = HostText(atyp, Buffer(size))
  /\ stage' = "port"
  /\ UNCHANGED <<atyp, size, method, reply>>

ReadPort ==
  /\ stage = "port"
  /\ Reads(2)
  /\ target' = JoinHostPort(target, Buffer(2))
  /\ stage' = "open"
  /\ UNCHANGED <<atyp, size, method, reply>>

(* The client closes or the handshake deadline is over.                    *)
ReadFails ==
  /\ stage \in {"greeting", "methods", "header", "address", "domain", "port"}
  /\ stage' = "closed"
  /\ UNCHANGED <<clientVars, readVars, atyp, size, target, method, reply,
                 relayVars, tunnelVars, exitVars>>
-----------------------------------------------------------------------------
(* OpenRelay and the chain of relay nodes.                                 *)

(* SelectServer finds no server or NewStream fails.                        *)
OpenRelayFails ==
  /\ stage = "open"
  /\ stage' = "closed"
  /\ reply' = "failure"
  /\ UNCHANGED <<clientVars, readVars, atyp, size, target, method,
                 relayVars, tunnelVars, exitVars>>

OpenRelay ==
  /\ stage = "open"
  /\ route # <<>>
  /\ path' = <<Head(route)>>
  /\ name' = Tail(route)
  /\ relay' = "handle"
  /\ stage' = "length"
  /\ reply' = "success"
  /\ UNCHANGED <<clientVars, readVars, atyp, size, target, method, tunnelVars, exitVars>>

(* Mutant of ForwardToNextPeer: the new name lacks one peer too many.      *)
ForwardSkippingPeer ==
  /\ relay = "handle"
  /\ name # <<>>
  /\ Head(name) # Last(path)
  /\ path' = Append(path, Head(name))
  /\ name' = SubSeq(name, 3, Len(name))
  /\ UNCHANGED <<relay, clientVars, readVars, socksVars, tunnelVars, exitVars>>

(* The name OpenRelay builds has no empty peer, so that the filter of      *)
(* forwardToNextPeer leaves it as it is.  A node cannot dial itself.       *)
ForwardToNextPeer ==
  /\ relay = "handle"
  /\ name # <<>>
  /\ Head(name) # Last(path)
  /\ path' = Append(path, Head(name))
  /\ name' = Tail(name)
  /\ UNCHANGED <<relay, clientVars, readVars, socksVars, tunnelVars, exitVars>>

HandleProxyTraffic ==
  /\ relay = "handle"
  /\ name = <<>>
  /\ relay' = "address"
  /\ UNCHANGED <<path, name, clientVars, readVars, socksVars, tunnelVars, exitVars>>

(* A stream to the next peer cannot be opened, or any node or link of the  *)
(* chain goes: what was under way is lost.                                 *)
RelayFails ==
  /\ relay \notin {"none", "failed"}
  /\ relay' = "failed"
  /\ UNCHANGED <<path, name, clientVars, readVars, socksVars, tunnelVars, exitVars>>
-----------------------------------------------------------------------------
(* sendTargetAddr, two writes, and the copying of bridgeTraffic.           *)

Writes(items) ==
  /\ sending' = sending \o items
  /\ UNCHANGED <<stream, clientVars, relayVars, exitVars>>

(* Mutant of SendLength: the length is counted without the port.           *)
SendHostLength ==
  /\ stage = "length"
  /\ Writes(<<<<(Len(target) - 1) % Radix>>>>)
  /\ stage' = "frame"
  /\ UNCHANGED <<readVars, atyp, size, target, method, reply>>

(* Mutant of SendLength: a terminating byte is counted.                    *)
SendLengthAndOne ==
  /\ stage = "length"
  /\ Writes(<<<<(Len(target) + 1) % Radix>>>>)
  /\ stage' = "frame"
  /\ UNCHANGED <<readVars, atyp, size, target, method, reply>>

(* Mutant of SendLength: the length is not narrowed to a byte.             *)
SendWideLength ==
  /\ stage = "length"
  /\ Writes(<<<<Len(target)>>>>)
  /\ stage' = "frame"
  /\ UNCHANGED <<readVars, atyp, size, target, method, reply>>

(* byte(len(addrBytes)).                                                   *)
SendLength ==
  /\ stage = "length"
  /\ Writes(<<<<Len(target) % Radix>>>>)
  /\ stage' = "frame"
  /\ UNCHANGED <<readVars, atyp, size, target, method, reply>>

SendAddress ==
  /\ stage = "frame"
  /\ Writes(target)
  /\ stage' = "bridge"
  /\ UNCHANGED <<readVars, atyp, size, target, method, reply>>

CopyUp ==
  /\ stage = "bridge"
  /\ arrived # <<>>
  /\ Writes(AsText(arrived))
  /\ arrived' = <<>>
  /\ UNCHANGED <<coming, cut, socksVars>>

(* A write to the stream fails, or the bridge ends.                        *)
WriteFails ==
  /\ stage \in {"length", "frame", "bridge"}
  /\ relay = "failed"
  /\ stage' = "closed"
  /\ UNCHANGED <<clientVars, readVars, atyp, size, target, method, reply,
                 relayVars, tunnelVars, exitVars>>
-----------------------------------------------------------------------------
(* readTargetAddr, the dial and the copying of bridgeExitTraffic.          *)

ReadLength ==
  /\ relay = "address"
  /\ length = 0
  /\ stream # <<>>
  /\ length' = Head(stream)[1]
  /\ stream' = Tail(stream)
  /\ relay' = IF Head(stream)[1] = 0 THEN "failed" ELSE "address"
  /\ UNCHANGED <<sending, path, name, dialled, received, clientVars, readVars, socksVars>>

(* Mutant of ReadAddress: a single read instead of io.ReadFull.            *)
ReadSomeAddress ==
  /\ relay = "address"
  /\ length > 0
  /\ stream # <<>>
  /\ dialled' = SubSeq(stream, 1, IF Len(stream) < length THEN Len(stream) ELSE length)
  /\ stream' = SubSeq(stream, length + 1, Len(stream))
  /\ relay' = "dial"
  /\ UNCHANGED <<sending, path, name, length, received, clientVars, readVars, socksVars>>

ReadAddress ==
  /\ relay = "address"
  /\ length > 0
  /\ Len(stream) >= length
  /\ dialled' = SubSeq(stream, 1, length)
  /\ stream' = SubSeq(stream, length + 1, Len(stream))
  /\ relay' = "dial"
  /\ UNCHANGED <<sending, path, name, length, received, clientVars, readVars, socksVars>>

(* net.DialTimeout refuses an address without a port.                      *)
HasPort(text) == \E i \in DOMAIN text : text[i] = Colon /\ i < Len(text)

Dial ==
  /\ relay = "dial"
  /\ HasPort(dialled)
  /\ relay' = "connected"
  /\ UNCHANGED <<path, name, clientVars, readVars, socksVars, tunnelVars, exitVars>>

CopyToTarget ==
  /\ relay = "connected"
  /\ stream # <<>>
  /\ received' = received \o stream
  /\ stream' = <<>>
  /\ UNCHANGED <<sending, length, dialled, clientVars, readVars, socksVars, relayVars>>
-----------------------------------------------------------------------------
Next ==
  \/ \E k \in DOMAIN coming : Arrive(k)
  \/ \E k \in DOMAIN sending : Deliver(k)
  \/ ReadGreeting
  \/ ReadMethods
  \/ ReadHeader
  \/ ReadIP
  \/ ReadDomainLength
  \/ ReadDomain
  \/ ReadPort
  \/ ReadFails
  \/ OpenRelayFails
  \/ OpenRelay
  \/ ForwardToNextPeer
  \/ HandleProxyTraffic
  \/ RelayFails
  \/ SendLength
  \/ SendAddress
  \/ CopyUp
  \/ WriteFails
  \/ ReadLength
  \/ ReadAddress
  \/ Dial
  \/ CopyToTarget

Spec == Init /\ [][Next]_vars

(* The frame is sent without waiting for the client and fits the stream's  *)
(* window; a stream delivers.  Of the client nothing is assumed.           *)
FairSpec ==
  /\ Spec
  /\ WF_vars(HandleProxyTraffic)
  /\ WF_vars(SendLength \/ SendAddress)
  /\ WF_vars(\E k \in DOMAIN sending : Deliver(k))
  /\ WF_vars(ReadLength \/ ReadAddress)
-----------------------------------------------------------------------------
(* As long as every field of the handshake came in one piece: an address   *)
(* that the frame can carry is the one the exit node dials, and a          *)
(* connection is only ever made to the address the client asked for, also  *)
(* when the address is too long for its length byte.                       *)
RightTarget ==
  ~cut =>
    /\ relay \in {"dial", "connected"} /\ Len(Target(client)) < Radix =>
         dialled = Target(client)
    /\ relay = "connected" => dialled = Target(client)

Sent == Greeting(client) \o Request(client) \o client.data

(* What the target receives is one unbroken run of the bytes the client    *)
(* sent: none is lost, repeated, reordered or taken from the frame,        *)
(* wherever the pieces they came in ended.  It begins right behind the     *)
(* request, unless a read of the handshake was short: what that read left  *)
(* behind then goes to the target as data.                                 *)
OnlyData ==
  \E n \in 0 .. Len(Sent) :
    /\ IsPrefix(received, AsText(SubSeq(Sent, n + 1, Len(Sent))))
    /\ ~cut => n = Len(Greeting(client) \o Request(client))

(* The peers of the route handle the stream in their order, each once, and *)
(* only the last of them acts as the exit node.                            *)
RouteFollowed ==
  /\ IsPrefix(path, route)
  /\ relay \in {"address", "dial", "connected"} => path = route

(* As long as every field of the handshake came in one piece the client is *)
(* told the truth: authentication is waived if it offered that and only    *)
(* then, a request is refused for the reason given.                        *)
AnswersFit ==
  ~cut =>
    /\ method = "accepted" => \E i \in DOMAIN client.methods : client.methods[i] = NoAuthentication
    /\ method = "refused" => \A i \in DOMAIN client.methods : client.methods[i] # NoAuthentication
    /\ reply = "command" => client.cmd # Connect
    /\ reply = "address type" => client.cmd = Connect /\ client.atyp \notin {IPv4, Domain, IPv6}
    /\ reply = "success" => client.cmd = Connect /\ target = Target(client)

(* The exit node reads the frame without a deadline, but never for ever:   *)
(* all it waits for has been sent by then or follows without the client.   *)
FrameComplete == relay = "address" ~> relay # "address"
=============================================================================
