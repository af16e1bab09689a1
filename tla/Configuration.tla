---------------------------- MODULE Configuration ----------------------------
(***************************************************************************)
(* The configuration of a node, from the file to what main runs with:      *)
(* json.Unmarshal into a zero Config, ApplyDefaults, Validate, and then    *)
(* the -mode flag.  A configuration is a record of the settings that       *)
(* decide anything before the node is up; an address, a network or a list  *)
(* is represented by what Validate asks of it.                             *)
(***************************************************************************)
EXTENDS Integers

Modes == {"client", "server", "bootstrap"}
Strategies == {"first", "random", "load_balance", "preferred"}

(* The zero Config: what a setting is that the file leaves out.            *)
Zero ==
  [mode |-> "", nodes |-> 0, port |-> 0, minConns |-> 0, maxConns |-> 0,
   socksEnabled |-> FALSE, socksPort |-> 0, bindAddress |-> "", networks |-> {},
   relayEnabled |-> FALSE, updateInterval |-> 0, advertiseInterval |-> 0,
   level |-> "", format |-> "", strategy |-> "", preferred |-> 0]

Default ==
  [mode |-> "client", nodes |-> 0, port |-> 4001, minConns |-> 100, maxConns |-> 400,
   socksEnabled |-> TRUE, socksPort |-> 1080, bindAddress |-> "ip", networks |-> {"cidr"},
   relayEnabled |-> TRUE, updateInterval |-> 30, advertiseInterval |-> 60,
   level |-> "info", format |-> "text", strategy |-> "load_balance", preferred |-> 0]

(* What -generate-config writes: the defaults and five bootstrap nodes.    *)
GeneratedConfig == [Default EXCEPT !.nodes = 5]

(* The number of bootstrap nodes and the two switches have no default; the *)
(* switch of the proxy is set by the mode.                                 *)
ApplyDefaults(c) ==
  LET filled == [s \in DOMAIN Zero |->
        IF c[s] = Zero[s] /\ s \notin {"nodes", "socksEnabled", "relayEnabled"}
        THEN Default[s] ELSE c[s]]
  IN [filled EXCEPT !.socksEnabled =
        filled.mode = "client" \/ (filled.mode # "server" /\ @)]

PortValid(port) == port \in 1024 .. 65535

SocksValid(c) ==
  /\ PortValid(c.socksPort)
  /\ c.bindAddress = "ip"
  /\ c.networks \subseteq {"cidr"}

Validate(c) ==
  /\ c.mode \in Modes
  /\ c.nodes > 0
  /\ PortValid(c.port)
  /\ c.socksEnabled => SocksValid(c)
  /\ c.minConns <= c.maxConns
  /\ c.level \in {"debug", "info", "warn", "error"}
  /\ c.format \in {"text", "json"}
  /\ c.strategy \in Strategies
  /\ c.strategy = "preferred" => c.preferred > 0

(* LoadConfig and the override: the flag is checked and applied after the  *)
(* defaults were filled in and the result was validated.                   *)
LoadConfig(file) == ApplyDefaults(file)
Loads(file) == Validate(LoadConfig(file))
FlagValid(flag) == flag = "" \/ flag \in Modes

(* Mutant of Override: the flag also switches the proxy on.                *)
OverrideEnabling(c, flag) ==
  IF flag = "" THEN c
  ELSE [c EXCEPT !.mode = flag, !.socksEnabled = flag = "client"]

Override(c, flag) == IF flag = "" THEN c ELSE [c EXCEPT !.mode = flag]

(* What runs on a node: nothing but the host in bootstrap mode; otherwise  *)
(* the relay protocol, and the proxy or the mesh discovery by node type.   *)
Handlers(c) ==
  {h \in {"relay", "socks5", "discovery"} :
     /\ c.mode # "bootstrap"
     /\ h = "relay" => c.relayEnabled
     /\ h = "socks5" => c.mode # "server" /\ c.socksEnabled
     /\ h = "discovery" => c.mode = "server" /\ c.updateInterval > 0}
=============================================================================
