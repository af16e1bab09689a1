---------------------------- MODULE NodeLifecycle ----------------------------
(***************************************************************************)
(* Processes of the program started over one data directory, one after the *)
(* other or at the same time: main, LoadConfig, FetchPrivKey, Run,         *)
(* SetupNode, the wait for a signal and ShutdownNode.  The configuration   *)
(* file, the data directory and the key file are durable; the lock of the  *)
(* LevelDB store belongs to the process that holds it.  A process may die  *)
(* at any step.                                                            *)
(***************************************************************************)
EXTENDS Configuration

CONSTANTS
  Procs,       \* processes
  Files,       \* what the configuration file may say at first
  Unreadable,  \* a configuration file that is missing, torn or no JSON
  DirUsable,   \* is a directory made with mode 0666 of use (only to root)
  MaxStarts    \* bound: starts of the program

ASSUME LifecycleAssumption ==
  /\ Unreadable \notin Files \cup {GeneratedConfig}
  /\ DirUsable \in BOOLEAN
  /\ MaxStarts \in Nat

Flags == Modes \cup {"", "invalid"}
Services == {"store", "host", "relay", "socks5", "discovery"}
Starting == {"load", "key", "read", "create", "write", "store", "host", "handlers"}
Stopping == {"stop handlers", "close host", "close store"}
Stages == {"off", "save", "running"} \cup Starting \cup Stopping

(* The configurations a node can run with, and what a process is made of.  *)
Loadable == {c \in Files \cup {GeneratedConfig} : Loads(c)}

Configurations ==
  {Zero} \cup UNION {{Override(LoadConfig(c), flag) : flag \in {""} \cup Modes} : c \in Loadable}

Processes ==
  [stage : Stages, flag : Flags, config : Configurations, key : Nat,
   services : SUBSET Services, signal : BOOLEAN, asked : BOOLEAN]

Off == [stage |-> "off", flag |-> "", config |-> Zero, key |-> 0,
        services |-> {}, signal |-> FALSE, asked |-> FALSE]

(* Key files: none, one that UnmarshalPrivateKey rejects, or a key.        *)
NoKey == -2
TornKey == -1

VARIABLES
  file,     \* the configuration file
  dataDir,  \* the data directory: absent, usable or unusable
  keyFile,  \* priv.key
  node,     \* the processes; key is theirs, or the one they would generate
  starts,   \* starts of the program so far
  hosts,    \* history: the keys hosts have had
  raced     \* history: have two processes generated keys at the same time

diskVars == <<file, dataDir, keyFile>>
vars == <<diskVars, node, starts, hosts, raced>>

TypeOK ==
  /\ file \in Files \cup {GeneratedConfig, Unreadable}
  /\ dataDir \in {"absent", "usable", "unusable"}
  /\ keyFile \in {NoKey, TornKey} \cup Nat
  /\ node \in [Procs -> Processes]
  /\ starts \in Nat
  /\ hosts \subseteq Nat
  /\ raced \in BOOLEAN

Init ==
  /\ file \in Files \cup {Unreadable}
  /\ dataDir \in {"absent", "usable"}
  /\ keyFile = NoKey
  /\ node = [p \in Procs |-> Off]
  /\ starts = 0
  /\ hosts = {}
  /\ raced = FALSE
-----------------------------------------------------------------------------
At(p, s) == node[p].stage = s
GoesTo(p, s) == node' = [node EXCEPT ![p].stage = s]

(* The process ends: the system takes back all it had, the lock included.  *)
Exit(p) == node' = [node EXCEPT ![p] = Off]

Launch(p, flag) ==
  /\ At(p, "off")
  /\ starts < MaxStarts
  /\ starts' = starts + 1
  /\ node' = [node EXCEPT ![p] = [Off EXCEPT !.stage = "load", !.flag = flag, !.key = starts + 1]]
  /\ UNCHANGED <<diskVars, hosts, raced>>

(* -generate-config: os.WriteFile truncates the file, then writes it.      *)
GenerateConfig(p) ==
  /\ At(p, "off")
  /\ starts < MaxStarts
  /\ starts' = starts + 1
  /\ GoesTo(p, "save")
  /\ file' = Unreadable
  /\ UNCHANGED <<dataDir, keyFile, hosts, raced>>

SaveConfig(p) ==
  /\ At(p, "save")
  /\ file' = GeneratedConfig
  /\ Exit(p)
  /\ UNCHANGED <<dataDir, keyFile, starts, hosts, raced>>

Load(p) ==
  /\ At(p, "load")
  /\ file # Unreadable
  /\ Loads(file)
  /\ FlagValid(node[p].flag)
  /\ node' = [node EXCEPT ![p].stage = "key",
                          ![p].config = Override(LoadConfig(file), node[p].flag)]
  /\ UNCHANGED <<diskVars, starts, hosts, raced>>

(* log.Fatalf, a panic, a kill or a crash; main returning although the     *)
(* shutdown failed half way.                                               *)
Dies(p) ==
  /\ ~At(p, "off")
  /\ Exit(p)
  /\ UNCHANGED <<diskVars, starts, hosts, raced>>
-----------------------------------------------------------------------------
(* FetchPrivKey.                                                           *)

(* A process is about to create the key file.                              *)
Generating == \E q \in Procs : At(q, "create")

(* Mutant of OpenKey: a key that cannot be parsed is generated anew.       *)
OpenKeyOrRepair(p) ==
  /\ At(p, "key")
  /\ dataDir # "unusable"
  /\ GoesTo(p, IF keyFile \in {NoKey, TornKey} THEN "create" ELSE "read")
  /\ raced' = (raced \/ (keyFile = NoKey /\ Generating))
  /\ UNCHANGED <<diskVars, starts, hosts>>

(* os.Open; a file that does not exist is to be created, any other error   *)
(* ends the start.                                                         *)
OpenKey(p) ==
  /\ At(p, "key")
  /\ dataDir # "unusable"
  /\ GoesTo(p, IF keyFile = NoKey THEN "create" ELSE "read")
  /\ raced' = (raced \/ (keyFile = NoKey /\ Generating))
  /\ UNCHANGED <<diskVars, starts, hosts>>

(* Mutant of ReadKey: the error of UnmarshalPrivateKey is lost.            *)
ReadAnyKey(p) ==
  /\ At(p, "read")
  /\ node' = [node EXCEPT ![p].stage = "store", ![p].key = keyFile]
  /\ UNCHANGED <<diskVars, starts, hosts, raced>>

(* ReadAll and UnmarshalPrivateKey: what the file holds by now.            *)
ReadKey(p) ==
  /\ At(p, "read")
  /\ keyFile \in Nat
  /\ node' = [node EXCEPT ![p].stage = "store", ![p].key = keyFile]
  /\ UNCHANGED <<diskVars, starts, hosts, raced>>

(* GenerateKeyPair, MkdirAll with mode 0666, and Create, which truncates.  *)
CreateKeyFile(p) ==
  /\ At(p, "create")
  /\ dataDir = "usable" \/ (dataDir = "absent" /\ DirUsable)
  /\ dataDir' = "usable"
  /\ keyFile' = TornKey
  /\ GoesTo(p, "write")
  /\ UNCHANGED <<file, starts, hosts, raced>>

(* The directory is made and Create in it is refused.                      *)
CreateRefused(p) ==
  /\ At(p, "create")
  /\ dataDir = "absent" /\ ~DirUsable
  /\ dataDir' = "unusable"
  /\ Exit(p)
  /\ UNCHANGED <<file, keyFile, starts, hosts, raced>>

(* Write, whose error is overwritten by the result of Close: the node goes *)
(* on with a key that was not saved, or not in full.                       *)
WriteKey(p) ==
  /\ At(p, "write")
  /\ keyFile' \in {node[p].key, TornKey}
  /\ GoesTo(p, "store")
  /\ UNCHANGED <<file, dataDir, starts, hosts, raced>>
-----------------------------------------------------------------------------
(* Run and SetupNode.                                                      *)

Gains(p, services, to) ==
  node' = [node EXCEPT ![p].stage = to, ![p].services = @ \cup services]
Loses(p, services, to) ==
  node' = [node EXCEPT ![p].stage = to, ![p].services = @ \ services]

(* NewDatastore: LevelDB locks the directory or gives up.                  *)
OpenStore(p) ==
  /\ At(p, "store")
  /\ \A q \in Procs : "store" \notin node[q].services
  /\ Gains(p, {"store"}, "host")
  /\ UNCHANGED <<diskVars, starts, hosts, raced>>

(* The rest of Run: the host is up as soon as it is made; a later error    *)
(* of Run ends the process (Dies).                                         *)
StartHost(p) ==
  /\ At(p, "host")
  /\ Gains(p, {"host"}, "handlers")
  /\ hosts' = hosts \cup {node[p].key}
  /\ UNCHANGED <<diskVars, starts, raced>>

(* NewTicker panics on an interval below one, in the goroutine that Run    *)
(* started for the advertisements, while the host is already up.           *)
AdvertisePanics(p) ==
  /\ "host" \in node[p].services
  /\ node[p].config.advertiseInterval < 1
  /\ Dies(p)

SetupHandlers(p) ==
  /\ At(p, "handlers")
  /\ Gains(p, Handlers(node[p].config), "running")
  /\ UNCHANGED <<diskVars, starts, hosts, raced>>
-----------------------------------------------------------------------------
(* Signals and ShutdownNode.                                               *)

(* Mutant of Signal: the channel has no buffer.                            *)
SignalUnbuffered(p) ==
  /\ node[p].stage \notin {"off", "save", "load"}
  /\ ~node[p].asked
  /\ node' = [node EXCEPT ![p].signal = At(p, "running"), ![p].asked = TRUE]
  /\ UNCHANGED <<diskVars, starts, hosts, raced>>

(* Before Notify a signal kills the process (Dies); after it the channel   *)
(* keeps one, whatever main is doing.  A second one would stay in it.      *)
Signal(p) ==
  /\ node[p].stage \notin {"off", "save", "load"}
  /\ ~node[p].asked
  /\ node' = [node EXCEPT ![p].signal = TRUE, ![p].asked = TRUE]
  /\ UNCHANGED <<diskVars, starts, hosts, raced>>

ReceiveSignal(p) ==
  /\ At(p, "running")
  /\ node[p].signal
  /\ node' = [node EXCEPT ![p].stage = "stop handlers", ![p].signal = FALSE]
  /\ UNCHANGED <<diskVars, starts, hosts, raced>>

StopNodeHandlers(p) ==
  /\ At(p, "stop handlers")
  /\ Loses(p, {"socks5", "discovery"}, "close host")
  /\ UNCHANGED <<diskVars, starts, hosts, raced>>

(* Mutant of CloseHost: the store is closed before the host.               *)
CloseStoreFirst(p) ==
  /\ At(p, "close host")
  /\ Loses(p, {"store"}, "close store")
  /\ UNCHANGED <<diskVars, starts, hosts, raced>>

CloseHost(p) ==
  /\ At(p, "close host")
  /\ Loses(p, {"host", "relay"}, "close store")
  /\ UNCHANGED <<diskVars, starts, hosts, raced>>

(* Store.Close; main returns.                                              *)
CloseStore(p) ==
  /\ At(p, "close store")
  /\ Exit(p)
  /\ UNCHANGED <<diskVars, starts, hosts, raced>>

StartStep(p) ==
  \/ Load(p)
  \/ OpenKey(p) \/ ReadKey(p) \/ CreateKeyFile(p) \/ CreateRefused(p) \/ WriteKey(p)
  \/ OpenStore(p) \/ StartHost(p) \/ SetupHandlers(p)
  \/ SaveConfig(p)

ShutdownStep(p) ==
  ReceiveSignal(p) \/ StopNodeHandlers(p) \/ CloseHost(p) \/ CloseStore(p)

Next ==
  \E p \in Procs :
    \/ \E flag \in Flags : Launch(p, flag)
    \/ GenerateConfig(p)
    \/ StartStep(p) \/ ShutdownStep(p)
    \/ Signal(p) \/ Dies(p)

Spec == Init /\ [][Next]_vars

(* Every call of the start and of the shutdown returns, with success or    *)
(* with an error that ends the process; a goroutine that panics takes the  *)
(* process along; what runs on is a running node.                          *)
FairSpec ==
  /\ Spec
  /\ \A p \in Procs :
       WF_vars(\/ StartStep(p) \/ ShutdownStep(p) \/ AdvertisePanics(p)
               \/ node[p].stage \in Starting /\ Dies(p))
-----------------------------------------------------------------------------
(* However often the program is started and wherever it dies, all hosts    *)
(* over one data directory have the same identity, unless two processes    *)
(* once generated keys at the same time: nothing but a missing file makes  *)
(* FetchPrivKey generate one.                                              *)
IdentityKept == raced \/ \A k, l \in hosts : k = l

(* One host at a time runs over a data directory, from the opening of its  *)
(* store until after its host is closed, and a proxy accepts connections   *)
(* only with a host behind it.                                             *)
OneHost ==
  /\ \A p, q \in Procs :
       "host" \in node[p].services /\ "store" \in node[q].services => p = q
  /\ \A p \in Procs :
       /\ "host" \in node[p].services => "store" \in node[p].services
       /\ "socks5" \in node[p].services => "host" \in node[p].services

(* The proxy listens only on a client and only with a section that was     *)
(* validated, though sections of configurations without a proxy are not    *)
(* validated and the mode is overridden after validation; and a client     *)
(* whose mode was not overridden does run its proxy.                       *)
ProxyAsConfigured ==
  \A p \in Procs :
    LET c == node[p].config
        proxy == "socks5" \in node[p].services
    IN /\ proxy => c.mode = "client" /\ SocksValid(c)
       /\ At(p, "running") /\ node[p].flag = "" => (proxy <=> c.mode = "client")

(* A process that was sent a signal after it set up its channel ends, even *)
(* if the signal came while it was still starting.                         *)
SignalStops == \A p \in Procs : node[p].asked ~> At(p, "off")
=============================================================================
