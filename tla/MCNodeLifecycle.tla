--------------------------- MODULE MCNodeLifecycle ---------------------------
(* Configuration files: no mode and each other mode, with a missing and an  *)
(* invalid port for the proxy; and one odd setting at a time.               *)
EXTENDS NodeLifecycle

ClientFile == [Zero EXCEPT !.nodes = 1, !.relayEnabled = TRUE]

MCFiles ==
  {[ClientFile EXCEPT !.mode = m[1], !.socksEnabled = m[2], !.socksPort = port] :
     m \in {<<"", FALSE>>, <<"server", TRUE>>, <<"bootstrap", TRUE>>, <<"bootstrap", FALSE>>},
     port \in {0, 80}}
  \cup {[ClientFile EXCEPT !.socksPort = 1080, !.maxConns = 50],
        [ClientFile EXCEPT !.nodes = 0],
        [ClientFile EXCEPT !.strategy = "preferred"],
        [ClientFile EXCEPT !.level = "verbose"],
        [ClientFile EXCEPT !.advertiseInterval = -1],
        [ClientFile EXCEPT !.mode = "server", !.updateInterval = -1]}
=============================================================================
