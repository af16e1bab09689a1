------------------------- MODULE NodeLifecycleProofs -------------------------
(***************************************************************************)
(* Proofs about NodeLifecycle for any set of processes, any configuration  *)
(* files and any number of starts.                                         *)
(***************************************************************************)
EXTENDS NodeLifecycle, TLAPS

(* What a process has open follows from how far it has come; the store is  *)
(* open in one process at most.                                            *)
Open(p) ==
  LET s == node[p].stage IN
  IF s = "host" THEN {"store"}
  ELSE IF s = "handlers" THEN {"store", "host"}
  ELSE IF s \in {"running", "stop handlers"} THEN {"store", "host"} \cup Handlers(node[p].config)
  ELSE IF s = "close host" THEN ({"store", "host"} \cup Handlers(node[p].config)) \ {"socks5", "discovery"}
  ELSE IF s = "close store" THEN {"store"}
  ELSE {}

OpenInv ==
  /\ \A p \in Procs : node[p].services = Open(p)
  /\ \A p, q \in Procs :
       "store" \in node[p].services /\ "store" \in node[q].services => p = q

(* A process past Load runs with a validated file and its own flag.        *)
Unconfigured == {"off", "save", "load"}
FromFile(p) ==
  \E c \in Files \cup {GeneratedConfig} :
    /\ Loads(c)
    /\ FlagValid(node[p].flag)
    /\ node[p].config = Override(LoadConfig(c), node[p].flag)
ConfigInv == \A p \in Procs : node[p].stage \notin Unconfigured => FromFile(p)

(* Without a race the key file, the keys of the processes past             *)
(* FetchPrivKey and those hosts have had are the same key, saved or not.   *)
Keyless == {"off", "save", "load", "key", "read", "create", "write"}
Keyed(p) == node[p].stage \notin Keyless
KeyInv ==
  ~raced =>
  /\ keyFile = NoKey => /\ hosts = {}
                        /\ \A p \in Procs : ~Keyed(p) /\ ~At(p, "read") /\ ~At(p, "write")
  /\ keyFile \in Nat => /\ hosts \subseteq {keyFile}
                        /\ \A p \in Procs : Keyed(p) => node[p].key = keyFile
  /\ \A p \in Procs : At(p, "create") =>
       /\ keyFile = NoKey
       /\ \A q \in Procs : At(q, "create") => q = p
  /\ \A p \in Procs : At(p, "write") =>
       /\ keyFile = TornKey
       /\ hosts = {}
       /\ \A q \in Procs : ~Keyed(q) /\ (At(q, "write") => q = p)
  /\ \A p, q \in Procs : Keyed(p) /\ Keyed(q) => node[p].key = node[q].key
  /\ \A p \in Procs : Keyed(p) => hosts \subseteq {node[p].key}
  /\ \A k, l \in hosts : k = l

IInv == TypeOK /\ OpenInv /\ ConfigInv /\ KeyInv
-----------------------------------------------------------------------------
(* What a process record becomes when some of its fields change.           *)
LEMMA OffType == Off \in Processes
BY DEF Off, Processes, Stages, Flags, Configurations, Services

LEMMA StageNames ==
  /\ \A s \in Starting \cup Stopping : s \in Stages
  /\ "off" \in Stages /\ "save" \in Stages /\ "running" \in Stages
  /\ "load" \in Starting /\ "stop handlers" \in Stopping
  /\ "close host" \in Stopping /\ "close store" \in Stopping
BY DEF Stages, Starting, Stopping

LEMMA Fields ==
  ASSUME NEW r \in Processes
  PROVE  /\ \A s \in Stages : [r EXCEPT !.stage = s] \in Processes
         /\ \A f \in Flags : [r EXCEPT !.flag = f] \in Processes
         /\ \A c \in Configurations : [r EXCEPT !.config = c] \in Processes
         /\ \A k \in Nat : [r EXCEPT !.key = k] \in Processes
         /\ \A v \in SUBSET Services : [r EXCEPT !.services = v] \in Processes
         /\ \A b \in BOOLEAN : [r EXCEPT !.signal = b] \in Processes
         /\ \A b \in BOOLEAN : [r EXCEPT !.asked = b] \in Processes
BY DEF Processes

LEMMA Updates ==
  ASSUME NEW p \in Procs, NEW n \in [Procs -> Processes]
  PROVE  /\ \A r \in Processes : [n EXCEPT ![p] = r] \in [Procs -> Processes]
         /\ \A s \in Stages, v \in SUBSET Services :
              [n EXCEPT ![p].stage = s, ![p].services = v] \in [Procs -> Processes]
         /\ \A s \in Stages, b \in BOOLEAN :
              [n EXCEPT ![p].stage = s, ![p].signal = b] \in [Procs -> Processes]
         /\ \A a, b \in BOOLEAN :
              [n EXCEPT ![p].signal = a, ![p].asked = b] \in [Procs -> Processes]
BY Fields

LEMMA ConfigType ==
  ASSUME NEW c \in Files \cup {GeneratedConfig}, Loads(c), NEW flag, FlagValid(flag)
  PROVE  Override(LoadConfig(c), flag) \in Configurations
<1> DEFINE Overridden(f) == {Override(LoadConfig(f), g) : g \in {""} \cup Modes}
<1>1. Override(LoadConfig(c), flag) \in Overridden(c)
  BY DEF FlagValid
<1>2. Overridden(c) \in {Overridden(f) : f \in Loadable}
  BY DEF Loadable
<1> QED
  BY <1>1, <1>2, Zenon DEF Configurations

LEMMA Keys == NoKey \notin Nat /\ TornKey \notin Nat /\ NoKey # TornKey
BY DEF NoKey, TornKey

LEMMA InitTypes == Init => IInv
<1> SUFFICES ASSUME Init PROVE IInv
  OBVIOUS
<1>1. \A p \in Procs : node[p].stage = "off" /\ node[p].services = {}
  BY DEF Init, Off
<1>2. TypeOK
  BY OffType DEF Init, TypeOK
<1>3. OpenInv
  BY <1>1 DEF OpenInv, Open
<1>4. ConfigInv
  BY <1>1 DEF ConfigInv, Unconfigured
<1>5. KeyInv
  BY <1>1, Keys DEF Init, KeyInv, Keyed, Keyless, At
<1> QED
  BY <1>2, <1>3, <1>4, <1>5 DEF IInv

LEMMA StepTypes == TypeOK /\ [Next]_vars => TypeOK'
<1> SUFFICES ASSUME TypeOK, [Next]_vars PROVE TypeOK'
  OBVIOUS
<1> USE DEF TypeOK, diskVars
<1>1. ASSUME NEW p \in Procs, NEW flag \in Flags, Launch(p, flag) PROVE TypeOK'
  <2>1. [Off EXCEPT !.stage = "load", !.flag = flag, !.key = starts + 1] \in Processes
    <3>1. [Off EXCEPT !.stage = "load"] \in Processes
      BY OffType, Fields, StageNames
    <3>2. [Off EXCEPT !.stage = "load", !.flag = flag] \in Processes
      BY <3>1, Fields, Zenon
    <3>3. starts + 1 \in Nat
      OBVIOUS
    <3> QED
      BY <3>2, <3>3, Fields, Zenon
  <2> QED
    BY <1>1, <2>1 DEF Launch
<1>2. ASSUME NEW p \in Procs, GenerateConfig(p) PROVE TypeOK'
  BY <1>2 DEF GenerateConfig, GoesTo, Processes, Stages
<1>3. ASSUME NEW p \in Procs, SaveConfig(p) \/ CloseStore(p) \/ Dies(p) PROVE TypeOK'
  BY <1>3, OffType DEF SaveConfig, CloseStore, Dies, Exit
<1>4. ASSUME NEW p \in Procs, Load(p) PROVE TypeOK'
  <2>1. Override(LoadConfig(file), node[p].flag) \in Configurations
    BY <1>4, ConfigType DEF Load
  <2> QED
    BY <1>4, <2>1 DEF Load, Processes, Stages, Starting
<1>5. ASSUME NEW p \in Procs, OpenKey(p) \/ ReadKey(p) PROVE TypeOK'
  <2>1. CASE OpenKey(p)
    <3>1. raced' \in BOOLEAN
      BY <2>1, Zenon DEF OpenKey
    <3>2. node' \in [Procs -> Processes]
      BY <2>1 DEF OpenKey, GoesTo, Processes, Stages, Starting
    <3> QED
      BY <2>1, <3>1, <3>2 DEF OpenKey
  <2>2. CASE ReadKey(p)
    <3>1. keyFile \in Nat
      BY <2>2 DEF ReadKey
    <3> QED
      BY <2>2, <3>1 DEF ReadKey, Processes, Stages, Starting
  <2> QED
    BY <1>5, <2>1, <2>2
<1>6. ASSUME NEW p \in Procs, CreateKeyFile(p) \/ WriteKey(p) PROVE TypeOK'
  BY <1>6 DEF CreateKeyFile, WriteKey, GoesTo, Processes, Stages, Starting
<1>7. ASSUME NEW p \in Procs, CreateRefused(p) PROVE TypeOK'
  BY <1>7, OffType DEF CreateRefused, Exit
<1>8. ASSUME NEW p \in Procs, OpenStore(p) \/ StartHost(p) \/ SetupHandlers(p) PROVE TypeOK'
  BY <1>8 DEF OpenStore, StartHost, SetupHandlers, Gains, Handlers, Processes, Stages, Starting, Services
<1>9. ASSUME NEW p \in Procs, Signal(p) \/ ReceiveSignal(p) PROVE TypeOK'
  <2>1. node' \in [Procs -> Processes]
    <3>1. "stop handlers" \in Stages /\ TRUE \in BOOLEAN /\ FALSE \in BOOLEAN
      BY StageNames
    <3>2. CASE Signal(p)
      BY <3>1, <3>2, Updates, Zenon DEF Signal
    <3>3. CASE ReceiveSignal(p)
      BY <3>1, <3>3, Updates, Zenon DEF ReceiveSignal
    <3> QED
      BY <1>9, <3>2, <3>3
  <2> QED
    BY <1>9, <2>1 DEF Signal, ReceiveSignal
<1>11. ASSUME NEW p \in Procs, StopNodeHandlers(p) \/ CloseHost(p) PROVE TypeOK'
  <2>1. \A S : node[p].services \ S \in SUBSET Services
    BY DEF Processes
  <2> QED
    <3>1. "close host" \in Stages /\ "close store" \in Stages
      BY StageNames
    <3>2. node' \in [Procs -> Processes]
      <4>1. CASE StopNodeHandlers(p)
        BY <4>1, <2>1, <3>1, Updates, Zenon DEF StopNodeHandlers, Loses
      <4>2. CASE CloseHost(p)
        BY <4>2, <2>1, <3>1, Updates, Zenon DEF CloseHost, Loses
      <4> QED
        BY <1>11, <4>1, <4>2
    <3> QED
      BY <1>11, <3>2 DEF StopNodeHandlers, CloseHost
<1>10. CASE UNCHANGED vars
  BY <1>10 DEF vars
<1> QED
  BY <1>1, <1>2, <1>3, <1>4, <1>5, <1>6, <1>7, <1>8, <1>9, <1>10, <1>11 DEF Next, StartStep, ShutdownStep

(* What the steps of a process do to it; they leave the others alone.      *)
Others(p) == \A q \in Procs \ {p} : node'[q] = node[q]
Passes(p, from, to) ==
  /\ Others(p)
  /\ node[p].stage = from
  /\ node'[p].stage = to
  /\ node'[p].flag = node[p].flag
Serves(p, services) == node'[p].services = services
SameConfig(p) == node'[p].config = node[p].config
SameKey(p) == node'[p].key = node[p].key

LEMMA Effects ==
  ASSUME TypeOK, NEW p \in Procs
  PROVE  /\ \A flag \in Flags : Launch(p, flag) =>
               Others(p) /\ node'[p].stage = "load" /\ Serves(p, {})
         /\ GenerateConfig(p) => Passes(p, "off", "save") /\ Serves(p, node[p].services)
         /\ SaveConfig(p) \/ CloseStore(p) \/ Dies(p) \/ CreateRefused(p) =>
               Others(p) /\ node'[p].stage = "off" /\ Serves(p, {})
         /\ Load(p) => /\ Passes(p, "load", "key") /\ Serves(p, node[p].services)
                       /\ node'[p].config = Override(LoadConfig(file), node[p].flag)
         /\ OpenKey(p) => /\ Passes(p, "key", IF keyFile = NoKey THEN "create" ELSE "read")
                          /\ Serves(p, node[p].services) /\ SameConfig(p) /\ SameKey(p)
         /\ ReadKey(p) => /\ Passes(p, "read", "store") /\ Serves(p, node[p].services)
                          /\ SameConfig(p) /\ node'[p].key = keyFile
         /\ CreateKeyFile(p) => /\ Passes(p, "create", "write") /\ Serves(p, node[p].services)
                                /\ SameConfig(p) /\ SameKey(p)
         /\ WriteKey(p) => /\ Passes(p, "write", "store") /\ Serves(p, node[p].services)
                           /\ SameConfig(p) /\ SameKey(p)
         /\ OpenStore(p) => /\ Passes(p, "store", "host")
                            /\ Serves(p, node[p].services \cup {"store"})
                            /\ SameConfig(p) /\ SameKey(p)
         /\ StartHost(p) => /\ Passes(p, "host", "handlers")
                            /\ Serves(p, node[p].services \cup {"host"})
                            /\ SameConfig(p) /\ SameKey(p)
         /\ SetupHandlers(p) => /\ Passes(p, "handlers", "running")
                                /\ Serves(p, node[p].services \cup Handlers(node[p].config))
                                /\ SameConfig(p) /\ SameKey(p)
         /\ Signal(p) => /\ Passes(p, node[p].stage, node[p].stage)
                         /\ node[p].stage \notin {"off", "save", "load"}
                         /\ Serves(p, node[p].services) /\ SameConfig(p) /\ SameKey(p)
         /\ ReceiveSignal(p) => /\ Passes(p, "running", "stop handlers")
                                /\ Serves(p, node[p].services) /\ SameConfig(p) /\ SameKey(p)
         /\ StopNodeHandlers(p) => /\ Passes(p, "stop handlers", "close host")
                                   /\ Serves(p, node[p].services \ {"socks5", "discovery"})
                                   /\ SameConfig(p) /\ SameKey(p)
         /\ CloseHost(p) => /\ Passes(p, "close host", "close store")
                            /\ Serves(p, node[p].services \ {"host", "relay"})
                            /\ SameConfig(p) /\ SameKey(p)
<1> USE DEF TypeOK, Processes, Others, Passes, Serves, SameConfig, SameKey, At, GoesTo
<1>1. \A flag \in Flags : Launch(p, flag) =>
        Others(p) /\ node'[p].stage = "load" /\ Serves(p, {})
  BY DEF Launch, Off
<1>2. GenerateConfig(p) => Passes(p, "off", "save") /\ Serves(p, node[p].services)
  BY DEF GenerateConfig
<1>3. SaveConfig(p) \/ CloseStore(p) \/ Dies(p) \/ CreateRefused(p) =>
        Others(p) /\ node'[p].stage = "off" /\ Serves(p, {})
  <2>1. Off.stage = "off" /\ Off.services = {}
    BY DEF Off
  <2>2. Exit(p) => Others(p) /\ node'[p].stage = "off" /\ Serves(p, {})
    BY <2>1 DEF Exit
  <2> QED
    BY <2>2 DEF SaveConfig, CloseStore, Dies, CreateRefused
<1>4. Load(p) => /\ Passes(p, "load", "key") /\ Serves(p, node[p].services)
                 /\ node'[p].config = Override(LoadConfig(file), node[p].flag)
  BY DEF Load
<1>5. OpenKey(p) => /\ Passes(p, "key", IF keyFile = NoKey THEN "create" ELSE "read")
                    /\ Serves(p, node[p].services) /\ SameConfig(p) /\ SameKey(p)
  BY DEF OpenKey
<1>6. ReadKey(p) => /\ Passes(p, "read", "store") /\ Serves(p, node[p].services)
                    /\ SameConfig(p) /\ node'[p].key = keyFile
  BY DEF ReadKey
<1>7. /\ CreateKeyFile(p) => /\ Passes(p, "create", "write") /\ Serves(p, node[p].services)
                              /\ SameConfig(p) /\ SameKey(p)
      /\ WriteKey(p) => /\ Passes(p, "write", "store") /\ Serves(p, node[p].services)
                         /\ SameConfig(p) /\ SameKey(p)
  BY DEF CreateKeyFile, WriteKey
<1>8. OpenStore(p) => /\ Passes(p, "store", "host") /\ Serves(p, node[p].services \cup {"store"})
                      /\ SameConfig(p) /\ SameKey(p)
  BY DEF OpenStore, Gains
<1>9. StartHost(p) => /\ Passes(p, "host", "handlers") /\ Serves(p, node[p].services \cup {"host"})
                      /\ SameConfig(p) /\ SameKey(p)
  BY DEF StartHost, Gains
<1>10. SetupHandlers(p) => /\ Passes(p, "handlers", "running")
                           /\ Serves(p, node[p].services \cup Handlers(node[p].config))
                           /\ SameConfig(p) /\ SameKey(p)
  BY DEF SetupHandlers, Gains
<1>11. Signal(p) => /\ Passes(p, node[p].stage, node[p].stage)
                    /\ node[p].stage \notin {"off", "save", "load"}
                    /\ Serves(p, node[p].services) /\ SameConfig(p) /\ SameKey(p)
  BY DEF Signal
<1>12. ReceiveSignal(p) => /\ Passes(p, "running", "stop handlers") /\ Serves(p, node[p].services)
                           /\ SameConfig(p) /\ SameKey(p)
  <2>1. ASSUME NEW b \in BOOLEAN, node' = [node EXCEPT ![p].stage = "stop handlers", ![p].signal = b]
        PROVE  /\ Others(p) /\ node'[p].stage = "stop handlers" /\ node'[p].flag = node[p].flag
               /\ Serves(p, node[p].services) /\ SameConfig(p) /\ SameKey(p)
    BY <2>1
  <2> HIDE DEF TypeOK, Processes, Others, Serves, SameConfig, SameKey
  <2> QED
    BY <2>1, Zenon DEF ReceiveSignal
<1>13. StopNodeHandlers(p) => /\ Passes(p, "stop handlers", "close host")
                              /\ Serves(p, node[p].services \ {"socks5", "discovery"})
                              /\ SameConfig(p) /\ SameKey(p)
  BY DEF StopNodeHandlers, Loses
<1>14. CloseHost(p) => /\ Passes(p, "close host", "close store")
                       /\ Serves(p, node[p].services \ {"host", "relay"})
                       /\ SameConfig(p) /\ SameKey(p)
  BY DEF CloseHost, Loses
<1> HIDE DEF TypeOK, Processes, Others, Passes, Serves, SameConfig, SameKey, At, GoesTo
<1> QED
  BY <1>1, <1>2, <1>3, <1>4, <1>5, <1>6, <1>7, <1>8, <1>9, <1>10, <1>11, <1>12, <1>13, <1>14

(* A step of a process leaves the others as they are.                      *)
LEMMA OpenStep == TypeOK /\ OpenInv /\ [Next]_vars => OpenInv'
<1> SUFFICES ASSUME TypeOK, OpenInv, [Next]_vars PROVE OpenInv'
  OBVIOUS
<1>0. ASSUME NEW p \in Procs, Others(p), node'[p].services = Open(p)',
             "store" \in node'[p].services =>
               "store" \in node[p].services \/ \A q \in Procs : "store" \notin node[q].services
      PROVE  OpenInv'
  <2>1. \A q \in Procs : node'[q].services = Open(q)'
    BY <1>0 DEF OpenInv, Open, Others
  <2> QED
    BY <1>0, <2>1 DEF OpenInv, Others
<1>1. ASSUME NEW p \in Procs, NEW flag \in Flags, Launch(p, flag) PROVE OpenInv'
  <2>1. Others(p) /\ node'[p].stage = "load" /\ node'[p].services = {}
    BY <1>1, Effects DEF Serves
  <2>2. Open(p)' = {}
    BY <2>1 DEF Open
  <2> QED
    BY <1>0, <2>1, <2>2
<1>2. ASSUME NEW p \in Procs, SaveConfig(p) \/ CloseStore(p) \/ Dies(p) \/ CreateRefused(p)
      PROVE OpenInv'
  BY <1>0, <1>2, Effects DEF Serves, Open
<1>3. ASSUME NEW p \in Procs, NEW a, NEW b, Passes(p, a, b), Serves(p, node[p].services),
             {a, b} \subseteq {"off", "save", "load", "key", "read", "create", "write", "store"}
      PROVE  OpenInv'
  BY <1>0, <1>3 DEF Passes, Serves, Open, OpenInv
<1>4. ASSUME NEW p \in Procs,
             \/ GenerateConfig(p) \/ Load(p) \/ OpenKey(p) \/ ReadKey(p)
             \/ CreateKeyFile(p) \/ WriteKey(p)
      PROVE  OpenInv'
  BY <1>3, <1>4, Effects
<1>5. ASSUME NEW p \in Procs, OpenStore(p) PROVE OpenInv'
  <2>1. Passes(p, "store", "host") /\ Serves(p, node[p].services \cup {"store"})
    BY <1>5, Effects
  <2>2. node[p].services = {} /\ Open(p)' = {"store"}
    BY <2>1 DEF Passes, Open, OpenInv
  <2> QED
    BY <1>0, <1>5, <2>1, <2>2 DEF Passes, Serves, OpenStore
<1>6. ASSUME NEW p \in Procs, StartHost(p) PROVE OpenInv'
  <2>1. Passes(p, "host", "handlers") /\ Serves(p, node[p].services \cup {"host"})
    BY <1>6, Effects
  <2>2. node[p].services = {"store"} /\ Open(p)' = {"store", "host"}
    BY <2>1 DEF Passes, Open, OpenInv
  <2> QED
    BY <1>0, <2>1, <2>2 DEF Passes, Serves
<1>7. ASSUME NEW p \in Procs, SetupHandlers(p) PROVE OpenInv'
  <2>1. /\ Passes(p, "handlers", "running") /\ SameConfig(p)
        /\ Serves(p, node[p].services \cup Handlers(node[p].config))
    BY <1>7, Effects
  <2>2. /\ node[p].services = {"store", "host"}
        /\ Open(p)' = {"store", "host"} \cup Handlers(node[p].config)
    BY <2>1 DEF Passes, Open, OpenInv, SameConfig
  <2> QED
    BY <1>0, <2>1, <2>2 DEF Passes, Serves
<1>8. ASSUME NEW p \in Procs, Signal(p) \/ ReceiveSignal(p) PROVE OpenInv'
  <2>1. /\ Others(p) /\ Serves(p, node[p].services) /\ SameConfig(p)
        /\ \/ node'[p].stage = node[p].stage
           \/ node[p].stage = "running" /\ node'[p].stage = "stop handlers"
    BY <1>8, Effects DEF Passes
  <2>2. Open(p)' = Open(p)
    <3>1. CASE node'[p].stage = node[p].stage
      BY <2>1, <3>1 DEF Open, SameConfig
    <3>2. CASE node[p].stage = "running" /\ node'[p].stage = "stop handlers"
      BY <2>1, <3>2 DEF Open, SameConfig
    <3> QED
      BY <2>1, <3>1, <3>2
  <2> QED
    BY <1>0, <2>1, <2>2 DEF Serves, OpenInv
<1>9. ASSUME NEW p \in Procs, StopNodeHandlers(p) PROVE OpenInv'
  <2>1. /\ Passes(p, "stop handlers", "close host") /\ SameConfig(p)
        /\ Serves(p, node[p].services \ {"socks5", "discovery"})
    BY <1>9, Effects
  <2>2. /\ node[p].services = {"store", "host"} \cup Handlers(node[p].config)
        /\ Open(p)' = node[p].services \ {"socks5", "discovery"}
    BY <2>1 DEF Passes, Open, OpenInv, SameConfig
  <2> QED
    BY <1>0, <2>1, <2>2 DEF Passes, Serves
<1>10. ASSUME NEW p \in Procs, CloseHost(p) PROVE OpenInv'
  <2>1. Passes(p, "close host", "close store") /\ Serves(p, node[p].services \ {"host", "relay"})
    BY <1>10, Effects
  <2>2. /\ node[p].services = ({"store", "host"} \cup Handlers(node[p].config)) \ {"socks5", "discovery"}
        /\ Open(p)' = {"store"}
    BY <2>1 DEF Passes, Open, OpenInv
  <2>3. node[p].services \ {"host", "relay"} = {"store"}
    BY <2>2 DEF Handlers
  <2> QED
    BY <1>0, <2>1, <2>2, <2>3 DEF Passes, Serves
<1>11. CASE UNCHANGED vars
  BY <1>11 DEF vars, OpenInv, Open
<1> QED
  BY <1>1, <1>2, <1>4, <1>5, <1>6, <1>7, <1>8, <1>9, <1>10, <1>11
  DEF Next, StartStep, ShutdownStep

LEMMA ConfigStep == TypeOK /\ ConfigInv /\ [Next]_vars => ConfigInv'
<1> SUFFICES ASSUME TypeOK, ConfigInv, [Next]_vars PROVE ConfigInv'
  OBVIOUS
<1>0. ASSUME NEW p \in Procs, Others(p), node'[p].stage \notin Unconfigured => FromFile(p)'
      PROVE  ConfigInv'
  BY <1>0 DEF ConfigInv, FromFile, Others
<1>1. ASSUME NEW p \in Procs, NEW flag \in Flags, Launch(p, flag) PROVE ConfigInv'
  BY <1>0, <1>1, Effects DEF Unconfigured
<1>2. ASSUME NEW p \in Procs,
             \/ GenerateConfig(p) \/ SaveConfig(p) \/ CloseStore(p) \/ Dies(p) \/ CreateRefused(p)
      PROVE  ConfigInv'
  BY <1>0, <1>2, Effects DEF Unconfigured, Passes
<1>3. ASSUME NEW p \in Procs, Load(p) PROVE ConfigInv'
  <2>1. /\ Passes(p, "load", "key")
        /\ node'[p].config = Override(LoadConfig(file), node'[p].flag)
        /\ FlagValid(node'[p].flag)
    BY <1>3, Effects DEF Load, Passes
  <2>2. file \in Files \cup {GeneratedConfig} /\ Loads(file)
    BY <1>3 DEF Load, TypeOK
  <2>3. FromFile(p)'
    BY <2>1, <2>2 DEF FromFile
  <2> QED
    BY <1>0, <2>1, <2>3 DEF Passes
<1>4. ASSUME NEW p \in Procs, NEW a, NEW b, Passes(p, a, b), SameConfig(p), a \notin Unconfigured
      PROVE  ConfigInv'
  BY <1>0, <1>4 DEF Passes, SameConfig, ConfigInv, FromFile
<1>5. ASSUME NEW p \in Procs,
             \/ OpenKey(p) \/ ReadKey(p) \/ CreateKeyFile(p) \/ WriteKey(p) \/ OpenStore(p)
             \/ StartHost(p) \/ SetupHandlers(p) \/ Signal(p) \/ ReceiveSignal(p)
             \/ StopNodeHandlers(p) \/ CloseHost(p)
      PROVE  ConfigInv'
  BY <1>4, <1>5, Effects DEF Unconfigured
<1>6. CASE UNCHANGED vars
  BY <1>6 DEF vars, ConfigInv, FromFile
<1> QED
  BY <1>1, <1>2, <1>3, <1>5, <1>6 DEF Next, StartStep, ShutdownStep

LEMMA KeyStep == TypeOK /\ KeyInv /\ [Next]_vars => KeyInv'
<1> SUFFICES ASSUME TypeOK, KeyInv, [Next]_vars, ~raced' PROVE KeyInv'
  BY DEF KeyInv
<1> USE Keys DEF Keyed, Keyless, At, Others, Passes, SameKey
<1>0. ASSUME NEW p \in Procs, Others(p), UNCHANGED <<keyFile, hosts, raced>>,
             node'[p].stage \in {"read", "create", "write"} => node'[p].stage = node[p].stage,
             Keyed(p)' => Keyed(p) /\ SameKey(p)
      PROVE  KeyInv'
  BY <1>0 DEF KeyInv
<1>1. ASSUME NEW p \in Procs, NEW flag \in Flags, Launch(p, flag) PROVE KeyInv'
  BY <1>0, <1>1, Effects DEF Launch, diskVars
<1>2. ASSUME NEW p \in Procs,
             \/ GenerateConfig(p) \/ SaveConfig(p) \/ CloseStore(p) \/ Dies(p) \/ CreateRefused(p)
             \/ Load(p)
      PROVE  KeyInv'
  <2>1. UNCHANGED <<keyFile, hosts, raced>>
    BY <1>2 DEF GenerateConfig, SaveConfig, CloseStore, Dies, CreateRefused, Load, diskVars
  <2> QED
    BY <1>0, <1>2, <2>1, Effects
<1>3. ASSUME NEW p \in Procs,
             \/ OpenStore(p) \/ SetupHandlers(p) \/ Signal(p) \/ ReceiveSignal(p)
             \/ StopNodeHandlers(p) \/ CloseHost(p)
      PROVE  KeyInv'
  <2>1. UNCHANGED <<keyFile, hosts, raced>>
    BY <1>3 DEF OpenStore, SetupHandlers, Signal, ReceiveSignal, StopNodeHandlers, CloseHost, diskVars
  <2>2. Others(p) /\ SameKey(p)
    BY <1>3, Effects
  <2>3. \/ node'[p].stage = node[p].stage
        \/ Keyed(p) /\ node'[p].stage \notin {"read", "create", "write"}
        \/ node[p].stage = "store" /\ node'[p].stage = "host"
    BY <1>3, Effects
  <2> QED
    BY <1>0, <2>1, <2>2, <2>3
<1>4. ASSUME NEW p \in Procs, OpenKey(p) PROVE KeyInv'
  <2>1. Passes(p, "key", IF keyFile = NoKey THEN "create" ELSE "read") /\ SameKey(p)
    BY <1>4, Effects
  <2>2. UNCHANGED <<keyFile, hosts>> /\ ~raced /\ ~(keyFile = NoKey /\ Generating)
    BY <1>4, Zenon DEF OpenKey, diskVars
  <2>3. keyFile = NoKey => \A q \in Procs : node[q].stage # "create"
    BY <2>2 DEF Generating
  <2> QED
    BY <2>1, <2>2, <2>3 DEF KeyInv
<1>5. ASSUME NEW p \in Procs, ReadKey(p) PROVE KeyInv'
  <2>1. Passes(p, "read", "store") /\ node'[p].key = keyFile
    BY <1>5, Effects
  <2>2. UNCHANGED <<keyFile, hosts, raced>> /\ keyFile \in Nat
    BY <1>5 DEF ReadKey, diskVars
  <2> QED
    BY <2>1, <2>2 DEF KeyInv
<1>6. ASSUME NEW p \in Procs, CreateKeyFile(p) PROVE KeyInv'
  <2>1. Passes(p, "create", "write") /\ SameKey(p)
    BY <1>6, Effects
  <2>2. UNCHANGED <<hosts, raced>> /\ keyFile' = TornKey
    BY <1>6 DEF CreateKeyFile
  <2> QED
    BY <2>1, <2>2 DEF KeyInv
<1>7. ASSUME NEW p \in Procs, WriteKey(p) PROVE KeyInv'
  <2>1. Passes(p, "write", "store") /\ SameKey(p)
    BY <1>7, Effects
  <2>2. UNCHANGED <<hosts, raced>> /\ keyFile' \in {node[p].key, TornKey} /\ node[p].key \in Nat
    BY <1>7 DEF WriteKey, TypeOK, Processes
  <2> QED
    BY <2>1, <2>2 DEF KeyInv
<1>8. ASSUME NEW p \in Procs, StartHost(p) PROVE KeyInv'
  <2>1. Passes(p, "host", "handlers") /\ SameKey(p)
    BY <1>8, Effects
  <2>2. UNCHANGED <<keyFile, raced>> /\ hosts' = hosts \cup {node[p].key}
    BY <1>8 DEF StartHost, diskVars
  <2> QED
    BY <2>1, <2>2 DEF KeyInv
<1>9. CASE UNCHANGED vars
  BY <1>9 DEF vars, diskVars, KeyInv
<1> QED
  BY <1>1, <1>2, <1>3, <1>4, <1>5, <1>6, <1>7, <1>8, <1>9 DEF Next, StartStep, ShutdownStep

LEMMA Invariant == Spec => []IInv
<1>1. IInv /\ [Next]_vars => IInv'
  BY StepTypes, OpenStep, ConfigStep, KeyStep DEF IInv
<1> QED
  BY <1>1, InitTypes, PTL DEF Spec

(* The state of the processes, of the files and of the counts keeps its    *)
(* type: no process runs with a configuration that was not validated and   *)
(* overridden, or with a key that could not be parsed.                     *)
THEOREM LifecycleTypes == Spec => []TypeOK
<1>1. IInv => TypeOK
  BY DEF IInv
<1> QED
  BY <1>1, Invariant, PTL

(* Unless two processes once generated keys at the same time, all hosts    *)
(* over a data directory have one identity, over any number of starts,     *)
(* crashes and lost writes of the key file.                                *)
THEOREM OneIdentity == Spec => []IdentityKept
<1>1. IInv => IdentityKept
  BY DEF IInv, KeyInv, IdentityKept
<1> QED
  BY <1>1, Invariant, PTL

(* The lock of the store keeps the hosts of all processes apart, through   *)
(* start and shutdown, and a proxy never outlives its host.                *)
THEOREM OneHostAtATime == Spec => []OneHost
<1>1. ASSUME IInv PROVE OneHost
  <2>1. ASSUME NEW p \in Procs PROVE "host" \in Open(p) => "store" \in Open(p)
    BY DEF Open, Handlers
  <2>2. ASSUME NEW p \in Procs PROVE "socks5" \in Open(p) => "host" \in Open(p)
    BY DEF Open, Handlers
  <2> QED
    BY <1>1, <2>1, <2>2 DEF IInv, OpenInv, OneHost
<1> QED
  BY <1>1, Invariant, PTL

LEMMA Settings ==
  /\ DOMAIN Zero = {"mode", "nodes", "port", "minConns", "maxConns", "socksEnabled", "socksPort",
                    "bindAddress", "networks", "relayEnabled", "updateInterval",
                    "advertiseInterval", "level", "format", "strategy", "preferred"}
  /\ \A c : DOMAIN LoadConfig(c) = DOMAIN Zero
BY DEF Zero, LoadConfig, ApplyDefaults

(* Defaults and validation see to it that a client has a proxy, a server   *)
(* has none, and what is switched on is valid.                             *)
LEMMA LoadedProxy ==
  ASSUME NEW c, Loads(c)
  PROVE  LET l == LoadConfig(c) IN
         /\ l.mode \in Modes
         /\ l.mode = "client" => l.socksEnabled
         /\ l.mode = "server" => ~l.socksEnabled
         /\ l.socksEnabled => SocksValid(l)
<1>2. LET l == LoadConfig(c) IN
        (l.mode = "client" => l.socksEnabled) /\ (l.mode = "server" => ~l.socksEnabled)
  BY Settings DEF LoadConfig, ApplyDefaults
<1> QED
  BY <1>2 DEF Loads, Validate

(* The proxy runs only on a client, only with a section that was           *)
(* validated, and on every client whose mode was not overridden.           *)
THEOREM ProxyCorrect == Spec => []ProxyAsConfigured
<1>1. ASSUME IInv, NEW p \in Procs
      PROVE  LET c == node[p].config
                 proxy == "socks5" \in node[p].services
             IN /\ proxy => c.mode = "client" /\ SocksValid(c)
                /\ At(p, "running") /\ node[p].flag = "" => (proxy <=> c.mode = "client")
  <2>1. CASE node[p].stage \in Unconfigured
    BY <1>1, <2>1 DEF IInv, OpenInv, Open, Unconfigured, At
  <2>2. CASE node[p].stage \notin Unconfigured
    <3>1. PICK c : /\ Loads(c) /\ FlagValid(node[p].flag)
                   /\ node[p].config = Override(LoadConfig(c), node[p].flag)
      BY <1>1, <2>2 DEF IInv, ConfigInv, FromFile
    <3> DEFINE l == LoadConfig(c)
               o == node[p].config
    <3>2. /\ o.mode \in Modes /\ o.socksEnabled = l.socksEnabled
          /\ SocksValid(l) => SocksValid(o)
          /\ node[p].flag = "" => o = l
      <4>1. CASE node[p].flag = ""
        BY <3>1, <4>1, LoadedProxy DEF Override
      <4>2. CASE node[p].flag # ""
        <5>1. o = [l EXCEPT !.mode = node[p].flag] /\ node[p].flag \in Modes
          BY <3>1, <4>2 DEF Override, FlagValid
        <5>2. {"mode", "socksEnabled", "socksPort", "bindAddress", "networks"} \subseteq DOMAIN l
          BY Settings
        <5> HIDE DEF l, o
        <5> QED
          BY <4>2, <5>1, <5>2 DEF SocksValid
      <4> QED
        BY <4>1, <4>2
    <3>3. node[p].services = Open(p)
      BY <1>1 DEF IInv, OpenInv
    <3>4. "socks5" \in Open(p) => "socks5" \in Handlers(node[p].config)
      BY DEF Open
    <3>5. At(p, "running") => ("socks5" \in Open(p) <=> "socks5" \in Handlers(node[p].config))
      BY DEF Open, At
    <3> HIDE DEF o
    <3>6. "socks5" \in node[p].services => "socks5" \in Handlers(o)
      BY <3>3, <3>4, Zenon DEF o
    <3>7. At(p, "running") => ("socks5" \in node[p].services <=> "socks5" \in Handlers(o))
      BY <3>3, <3>5, Zenon DEF o
    <3>8. "socks5" \in Handlers(o) <=> o.mode # "bootstrap" /\ o.mode # "server" /\ o.socksEnabled
      BY DEF Handlers
    <3>9. /\ l.mode = "client" => l.socksEnabled
          /\ l.socksEnabled => SocksValid(l)
      BY <3>1, LoadedProxy
    <3>10. "socks5" \in node[p].services => o.mode = "client" /\ SocksValid(o)
      BY <3>2, <3>6, <3>8, <3>9 DEF Modes
    <3>11. At(p, "running") /\ node[p].flag = "" => ("socks5" \in node[p].services <=> o.mode = "client")
      BY <3>2, <3>7, <3>8, <3>9, <3>10
    <3> QED
      BY <3>10, <3>11 DEF o
  <2> QED
    BY <2>1, <2>2
<1>2. IInv => ProxyAsConfigured
  BY <1>1 DEF ProxyAsConfigured
<1> QED
  BY <1>2, Invariant, PTL
=============================================================================
