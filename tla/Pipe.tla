-------------------------------- MODULE Pipe ---------------------------------
(***************************************************************************)
(* What a proxied connection promises its two ends, the SOCKS5 client and  *)
(* the target: in each direction an ordered stream that loses nothing from *)
(* its beginning, whose end is announced after everything that was sent to *)
(* it unless something on the way was reset or the receiver had stopped    *)
(* sending.  How the stream gets from end to end is left to RelayTunnel,   *)
(* which implements this specification.                                    *)
(***************************************************************************)
EXTENDS Naturals, Sequences

Dirs == {"up", "down"}
Opposite(d) == IF d = "up" THEN "down" ELSE "up"

VARIABLES
  sent,     \* number of pieces the client (up) and the target (down) sent
  got,      \* what the target (up) and the client (down) received
  sawEof,   \* directions whose receiver has seen the end of the stream
  stopped,  \* directions whose sender has closed its side
  gone,     \* directions whose sender has closed its connection altogether
  broken    \* something on the way was reset

pipeVars == <<sent, got, sawEof, stopped, gone, broken>>

PipeInit ==
  /\ sent = [d \in Dirs |-> 0]
  /\ got = [d \in Dirs |-> <<>>]
  /\ sawEof = {}
  /\ stopped = {}
  /\ gone = {}
  /\ broken = FALSE

Put(d) ==
  /\ d \notin stopped
  /\ sent' = [sent EXCEPT ![d] = @ + 1]
  /\ UNCHANGED <<got, sawEof, stopped, gone, broken>>

(* The next piece that was sent reaches a receiver that is still there and *)
(* was not told that nothing more would come.                              *)
Get(d) ==
  /\ d \notin sawEof
  /\ Opposite(d) \notin gone
  /\ Len(got[d]) < sent[d]
  /\ got' = [got EXCEPT ![d] = Append(@, Len(@) + 1)]
  /\ UNCHANGED <<sent, sawEof, stopped, gone, broken>>

(* A stream ends when its sender ended it and everything has arrived; it   *)
(* may end early only when the receiver itself has stopped sending, or     *)
(* something was reset.                                                    *)
SeesEnd(d) ==
  /\ d \notin sawEof
  /\ Opposite(d) \notin gone
  /\ \/ d \in stopped /\ Len(got[d]) = sent[d]
     \/ Opposite(d) \in stopped
     \/ broken
  /\ sawEof' = sawEof \cup {d}
  /\ UNCHANGED <<sent, got, stopped, gone, broken>>

Stops(d) ==
  /\ d \notin stopped
  /\ stopped' = stopped \cup {d}
  /\ UNCHANGED <<sent, got, sawEof, gone, broken>>

Leaves(d) ==
  /\ d \notin gone
  /\ stopped' = stopped \cup {d}
  /\ gone' = gone \cup {d}
  /\ UNCHANGED <<sent, got, sawEof, broken>>

GoesDown ==
  /\ broken' = TRUE
  /\ UNCHANGED <<sent, got, sawEof, stopped, gone>>

PipeNext ==
  \/ \E d \in Dirs : Put(d) \/ Get(d) \/ SeesEnd(d) \/ Stops(d) \/ Leaves(d)
  \/ GoesDown

PipeSpec == PipeInit /\ [][PipeNext]_pipeVars
=============================================================================
