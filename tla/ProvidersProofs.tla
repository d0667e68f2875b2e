-------------------------- MODULE ProvidersProofs ---------------------------
(***************************************************************************)
(* Theorems about Providers, for any set of processes and configurations   *)
(* and any number of requests, forks and calls of putenv.                  *)
(***************************************************************************)
EXTENDS Providers, TLAPS

\* What PHP's putenv remembers are values of the variables, and it remembers nothing
\* between requests.
UnputInv ==
  /\ \A n \in DOMAIN unput :
       unput[n] \in (IF n = "config" THEN Configs ELSE BOOLEAN)
  /\ phase # "running" => DOMAIN unput = {} /\ meters = {}

\* The hash of a request is that of its configuration, but for what putenv changed.
HashIsOfRequest ==
  /\ \A s \in Signals : hash[s] # None => hash[s] = Hashed(s, Unput(env).config)
  /\ module_disabled => \A s \in Signals : hash[s] = None

\* The process whose RINIT built the providers of the request has them all.
ServedInv ==
  /\ phase # "running" => served = None
  /\ served # None => \A s \in Signals : hash[s] # None /\ providers[s][<<served, hash[s]>>] # None

\* Whatever is registered was built in the process of its key, from a configuration with
\* the hash of its key unless it went astray, and works in that process.
EntryOf(s, key, entry) ==
  /\ entry.pid = key[1]
  /\ entry.runtime \in {None, key[1]}
  /\ entry.config \in Configs
  /\ entry.kind = Kind(s, entry.config)
  /\ IF entry.stray THEN s = "traces" ELSE Hashed(s, entry.config) = key[2]

RegistryInv ==
  \A s \in Signals, key \in Keys :
    providers[s][key] # None => EntryOf(s, key, providers[s][key])

\* Where the environment to go back to is: in place, in putenv's memory, or in the
\* backup of the request.
BackupInv ==
  /\ imports = "nothing" => Unput(env) = base /\ \A p \in Pids : env_backup[p] = None
  /\ module_disabled => \A p \in Pids : env_backup[p] = None
  /\ imports # "nothing" /\ dirty = {} =>
       /\ DOMAIN unput = {}
       /\ phase = "idle" => env = base /\ env_backup[pid] = None
       /\ phase = "running" /\ env_backup[pid] = None => env = base
       /\ phase = "running" /\ env_backup[pid] # None => env_backup[pid] = base

\* What the last lookup returned.
LookupsInv == LookupIsUsable /\ LookupIsConfigured

\* A Meter object belongs to a registered provider.
MetersInv == \A key \in meters \cup async_caches : providers["metrics"][key] # None

IndInv ==
  /\ TypeOK /\ UnputInv /\ HashIsOfRequest /\ ServedInv /\ RegistryInv /\ LookupsInv
  /\ BackupInv /\ CachesOfThisRequest /\ MetersInv

-----------------------------------------------------------------------------
(* Environments and keys.                                                   *)

\* Undoing putenv gives an environment, and the same one when there was no putenv.
LEMMA UnputType ==
  ASSUME TypeOK, UnputInv, NEW e \in Envs
  PROVE  /\ Unput(e) \in Envs
         /\ DOMAIN unput = {} => Unput(e) = e
         /\ Unput(e).config = IF "config" \in DOMAIN unput THEN unput["config"] ELSE e.config
BY DEF TypeOK, UnputInv, Unput, Envs, Names

\* A key has a hash in it.
LEMMA HashType ==
  ASSUME NEW s \in Signals, NEW c \in Configs
  PROVE  Hashed(s, c) \in Hashes /\ Hashed(s, c) # None
BY ProvidersAssumption DEF Hashes

\* The key of a lookup is one of this process, and of the configuration that the request
\* wants; and so is what would be built now under it, but for a provider going astray.
LEMMA KeyType ==
  ASSUME TypeOK, UnputInv, HashIsOfRequest, ServedInv, NEW s \in Signals
  PROVE  /\ KeyIn(hash, env, s) \in Keys
         /\ KeyIn(hash, env, s)[1] = pid
         /\ Wanted(s) \in Configs
         /\ KeyIn(hash, env, s)[2] = Hashed(s, Wanted(s))
         /\ \/ Hashed(s, env.config) = KeyIn(hash, env, s)[2]
            \/ providers[s][KeyIn(hash, env, s)] # None
            \/ s = "traces" => Stray
         /\ served = pid => providers[s][KeyIn(hash, env, s)] # None
<1>1. env \in Envs /\ pid \in Pids /\ hash[s] \in Hashes \cup {None}
      /\ env.config \in Configs /\ None \notin Pids
  BY ProvidersAssumption DEF TypeOK, Envs
<1>2. /\ Unput(env) \in Envs /\ Unput(env).config \in Configs
      /\ "config" \notin DOMAIN unput => Unput(env).config = env.config
  BY <1>1, UnputType DEF Envs
<1>3. Hashed(s, env.config) \in Hashes
  BY <1>1, HashType
<1>4. CASE hash[s] = None
  <2>1. KeyIn(hash, env, s) = <<pid, Hashed(s, env.config)>> /\ Wanted(s) = env.config
    BY <1>4 DEF KeyIn, Wanted
  <2>2. served # pid
    BY <1>1, <1>4 DEF ServedInv
  <2>3. QED
    BY <1>1, <1>3, <2>1, <2>2 DEF Keys
<1>5. CASE hash[s] # None
  <2>1. KeyIn(hash, env, s) = <<pid, hash[s]>> /\ Wanted(s) = Unput(env).config
    BY <1>5 DEF KeyIn, Wanted
  <2>2. hash[s] = Hashed(s, Wanted(s))
    BY <1>5, <2>1 DEF HashIsOfRequest
  <2>3. served = pid => providers[s][KeyIn(hash, env, s)] # None
    BY <1>1, <2>1 DEF ServedInv
  <2>4. CASE "config" \notin DOMAIN unput
    BY <1>1, <1>2, <1>5, <2>1, <2>2, <2>3, <2>4 DEF Keys
  <2>5. CASE "config" \in DOMAIN unput
    BY <1>1, <1>2, <1>5, <2>1, <2>2, <2>3, <2>5 DEF Keys, Stray
  <2>6. QED
    BY <2>4, <2>5
<1>6. QED
  BY <1>4, <1>5

\* Configurations that hash alike give providers of one kind, unless they differ by ''
\* and unset: a builder asks for nothing that is not hashed.
LEMMA HashDecides ==
  ASSUME NEW s \in Signals, NEW c \in Configs, NEW d \in Configs,
         Hashed(s, c) = Hashed(s, d), ~BlankApart(c, d)
  PROVE  Kind(s, c) = Kind(s, d)
<1>1. c \in ConfigType /\ d \in ConfigType
  BY ProvidersAssumption
<1>2. /\ OrDefault(c.exporter) = OrDefault(d.exporter)
      /\ OrDefault(c.protocol) = OrDefault(d.protocol)
      /\ c.transport = d.transport
      /\ s # "metrics" => c.simple = d.simple
      /\ s = "traces" => OrDefault(c.batch) = OrDefault(d.batch)
  <2>1. /\ Hashed(s, c).exporter = Hashed(s, d).exporter
        /\ Hashed(s, c).protocol = Hashed(s, d).protocol
        /\ Hashed(s, c).transport = Hashed(s, d).transport
        /\ Hashed(s, c).simple = Hashed(s, d).simple
        /\ Hashed(s, c).batch = Hashed(s, d).batch
    OBVIOUS
  <2>2. QED
    BY <1>1, <2>1 DEF Hashed, ConfigType
<1>3. ASSUME NEW v, NEW w, OrDefault(v) = OrDefault(w), {v, w} # {"unset", "blank"}
      PROVE  v = w
  BY <1>3 DEF OrDefault
<1>4. /\ {c.exporter, d.exporter} # {"unset", "blank"}
      /\ {c.protocol, d.protocol} # {"unset", "blank"}
      /\ {c.batch, d.batch} # {"unset", "blank"}
  <2>1. \A v \in {"exporter", "protocol", "batch"} : {c[v], d[v]} # {"unset", "blank"}
    BY DEF BlankApart
  <2>2. QED
    BY <2>1
<1>5. c.exporter = d.exporter /\ c.protocol = d.protocol /\ (s = "traces" => c.batch = d.batch)
  BY <1>2, <1>3, <1>4
<1>6. CASE s = "traces"
  BY <1>1, <1>2, <1>5, <1>6 DEF Kind, TracerKind, NetworkKind, BatchConfigured, Exporter
<1>7. CASE s = "logs"
  <2>1. LoggerKind(c) = LoggerKind(d)
    BY <1>2, <1>5 DEF LoggerKind
  <2>2. QED
    BY <1>7, <2>1 DEF Kind
<1>8. CASE s = "metrics"
  <2>1. MeterKind(c) = MeterKind(d)
    BY <1>2, <1>5 DEF MeterKind
  <2>2. QED
    BY <1>8, <2>1 DEF Kind
<1>9. QED
  BY <1>6, <1>7, <1>8 DEF Signals

\* Every configuration gives a provider of a known kind.
LEMMA KindType ==
  ASSUME NEW s \in Signals, NEW c \in Configs
  PROVE  Kind(s, c) \in Kinds
<1>1. c \in ConfigType
  BY ProvidersAssumption
<1>2. TracerKind(c) \in Kinds
  BY <1>1 DEF ConfigType, TracerKind, NetworkKind, BatchConfigured, Exporter, Kinds
<1>3. LoggerKind(c) \in Kinds
  BY <1>1 DEF ConfigType, LoggerKind, Exporter, Kinds
<1>4. MeterKind(c) \in Kinds
  BY <1>1 DEF ConfigType, MeterKind, Exporter, Kinds
<1>5. QED
  BY <1>2, <1>3, <1>4 DEF Kind, Signals

\* What init_once builds belongs to this process and to the environment it is given.
LEMMA BuildType ==
  ASSUME NEW s \in Signals, NEW e \in Envs, pid \in Pids, NEW stray \in BOOLEAN
  PROVE  /\ Build(s, e, stray) \in Entries
         /\ Build(s, e, stray).pid = pid
         /\ Build(s, e, stray).config = e.config
         /\ Build(s, e, stray).kind = Kind(s, e.config)
         /\ Build(s, e, stray).stray = stray
         /\ Build(s, e, stray).runtime \in {None, pid}
<1>1. e.config \in Configs
  BY DEF Envs
<1>2. Kind(s, e.config) \in Kinds
  BY <1>1, KindType
<1>3. QED
  BY <1>1, <1>2 DEF Build, Entries, RuntimeFor

\* What a call of init_once does to the registries.
Added(signals, h, e) ==
  /\ providers' \in [Signals -> [Keys -> Entries \cup {None}]]
  /\ runtimes' \subseteq Pids
  /\ RegistryInv'
  /\ \A s \in Signals, key \in Keys :
       providers[s][key] # None => providers'[s][key] = providers[s][key]
  /\ \A s \in signals : providers'[s][KeyIn(h, e, s)] # None

\* init_once adds providers under the keys of its signals and changes no other, when
\* the key of whatever it builds is that of the configuration it builds from.
LEMMA InitOnceStep ==
  ASSUME TypeOK, RegistryInv, NEW signals \in SUBSET Signals, NEW h, NEW e \in Envs,
         NEW stray \in BOOLEAN,
         \A s \in Signals : /\ KeyIn(h, e, s) \in Keys
                            /\ KeyIn(h, e, s)[1] = pid,
         \A s \in signals :
           providers[s][KeyIn(h, e, s)] = None =>
             (stray /\ s = "traces") \/ (~stray /\ Hashed(s, e.config) = KeyIn(h, e, s)[2]),
         InitOnce(signals, h, e, stray)
  PROVE  Added(signals, h, e)
<1>1. pid \in Pids /\ runtimes \subseteq Pids
      /\ providers \in [Signals -> [Keys -> Entries \cup {None}]]
  BY DEF TypeOK
<1>2. \A s \in Signals : Build(s, e, stray) \in Entries
  BY <1>1, BuildType
<1>3. providers' \in [Signals -> [Keys -> Entries \cup {None}]]
  BY <1>1, <1>2 DEF InitOnce
<1>4. runtimes' \subseteq Pids
  BY <1>1 DEF InitOnce
<1>5. \A s \in Signals, key \in Keys :
        \/ providers'[s][key] = providers[s][key]
        \/ /\ providers[s][key] = None
           /\ s \in signals /\ key = KeyIn(h, e, s)
           /\ providers'[s][key] = Build(s, e, stray)
  BY <1>1 DEF InitOnce
<1>6. \A s \in signals : providers[s][KeyIn(h, e, s)] = None =>
                            EntryOf(s, KeyIn(h, e, s), Build(s, e, stray))
  BY <1>1, BuildType DEF EntryOf, Envs
<1>7. RegistryInv'
  BY <1>5, <1>6 DEF RegistryInv, EntryOf
<1>8. \A s \in signals : providers'[s][KeyIn(h, e, s)] # None
  <2>1. None \notin Entries
    BY EntriesAssumption
  <2>2. QED
    BY <1>1, <1>2, <2>1 DEF InitOnce
<1>9. QED
  BY <1>3, <1>4, <1>5, <1>7, <1>8 DEF Added
-----------------------------------------------------------------------------
(* The parts of the invariant that most actions leave alone.                *)

\* Nothing of the environment, its backup or its caches changes.
EnvFrame ==
  UNCHANGED <<pid, module_disabled, imports, env, env_backup, cacheVars, unput, phase,
              requests, base, at_rinit, served, dirty, unwound>>

\* No provider goes.
ProvidersStay ==
  \A s \in Signals, k \in Keys : providers[s][k] # None => providers'[s][k] = providers[s][k]

LEMMA EnvFrameStep ==
  ASSUME IndInv, EnvFrame, ProvidersStay
  PROVE  /\ UnputInv' <=> (phase # "running" => meters' = {})
         /\ HashIsOfRequest' /\ ServedInv' /\ BackupInv' /\ CachesOfThisRequest'
<1>1. UNCHANGED <<unput, env, hash, phase, module_disabled, imports, base, env_backup, dirty,
                  pid, capture, limits, at_rinit, served, unwound>>
  BY DEF EnvFrame, cacheVars
<1>2. Unput(env)' = Unput(env)
  BY <1>1 DEF Unput
<1>3. \A s \in Signals : served # None /\ hash[s] # None => <<served, hash[s]>> \in Keys
  BY DEF IndInv, TypeOK, Keys
<1>4. ServedInv'
  BY <1>1, <1>3 DEF IndInv, ServedInv, ProvidersStay
<1>5. QED
  BY <1>1, <1>2, <1>4 DEF IndInv, UnputInv, HashIsOfRequest, BackupInv, CachesOfThisRequest

\* A lookup returns the no-op provider where there is nothing to find, or a provider that
\* belongs under the key looked up.
LEMMA LookedStep ==
  ASSUME IndInv, NEW signal \in Signals, NEW entry, Looked(signal, entry),
         \/ /\ entry = Noop
            /\ \/ Disabled(env) \/ (signal = "traces" /\ module_disabled)
               \/ signal # "traces" /\ providers[signal][KeyIn(hash, env, signal)] = None
         \/ EntryOf(signal, KeyIn(hash, env, signal), entry)
  PROVE  LookupsInv'
<1> DEFINE key == KeyIn(hash, env, signal)
<1>1. /\ key[1] = pid /\ Wanted(signal) \in Configs
      /\ key[2] = Hashed(signal, Wanted(signal))
      /\ served = pid => providers[signal][key] # None
  BY KeyType DEF IndInv
<1>2. result' = [signal |-> signal, pid |-> pid, entry |-> entry,
                 disabled |-> Disabled(env) \/ (signal = "traces" /\ module_disabled),
                 wanted |-> Wanted(signal), served |-> served]
  BY DEF Looked
<1>3. None \notin Configs
  BY ProvidersAssumption
<1>4. CASE EntryOf(signal, key, entry)
  <2>1. /\ entry.pid = pid /\ entry.runtime \in {None, pid} /\ entry.config \in Configs
        /\ entry.kind = Kind(signal, entry.config)
        /\ ~entry.stray => Hashed(signal, entry.config) = Hashed(signal, Wanted(signal))
    BY <1>1, <1>4 DEF EntryOf
  <2>2. ~entry.stray => \/ entry.kind = Kind(signal, Wanted(signal))
                        \/ BlankApart(entry.config, Wanted(signal))
    BY <1>1, <2>1, HashDecides
  <2>3. LookupIsUsable'
    BY <1>2, <2>1 DEF LookupIsUsable
  <2>4. LookupIsConfigured'
    BY <1>2, <1>3, <2>1, <2>2 DEF LookupIsConfigured
  <2>5. QED
    BY <2>3, <2>4 DEF LookupsInv
<1>5. CASE ~EntryOf(signal, key, entry)
  <2>1. entry.pid = pid /\ entry.runtime = None /\ entry.config = None
    BY <1>5 DEF Noop
  <2>2. \/ Disabled(env) \/ (signal = "traces" /\ module_disabled)
        \/ signal # "traces" /\ served # pid
    BY <1>1, <1>5
  <2>3. QED
    BY <1>2, <2>1, <2>2 DEF LookupsInv, LookupIsUsable, LookupIsConfigured
<1>6. QED
  BY <1>4, <1>5

LEMMA TracerStep == IndInv /\ GetTracerProvider => IndInv'
<1> SUFFICES ASSUME IndInv, GetTracerProvider PROVE IndInv'
  OBVIOUS
<1> DEFINE key == KeyIn(hash, env, "traces")
           off == module_disabled \/ Disabled(env)
           found == providers["traces"][key]
           built == Build("traces", env, Stray)
<1>1. /\ TypeOK /\ UnputInv /\ HashIsOfRequest /\ ServedInv /\ RegistryInv /\ MetersInv
      /\ pid \in Pids /\ env \in Envs /\ Stray \in BOOLEAN /\ "traces" \in Signals
  BY DEF IndInv, TypeOK, Stray, Signals
<1>2. /\ \A s \in Signals : KeyIn(hash, env, s) \in Keys /\ KeyIn(hash, env, s)[1] = pid
      /\ found = None => Stray \/ Hashed("traces", env.config) = key[2]
  BY <1>1, KeyType
<1>3. EnvFrame /\ UNCHANGED <<async_caches, meters>>
  BY DEF GetTracerProvider, EnvFrame
<1>4. /\ providers' \in [Signals -> [Keys -> Entries \cup {None}]]
      /\ runtimes' \subseteq Pids
      /\ RegistryInv'
      /\ ProvidersStay
  <2>1. CASE off
    <3>1. UNCHANGED <<providers, runtimes>>
      BY <2>1 DEF GetTracerProvider
    <3>2. QED
      BY <1>1, <3>1 DEF TypeOK, RegistryInv, EntryOf, ProvidersStay
  <2>2. CASE ~off
    <3>1. InitOnce({"traces"}, hash, env, Stray)
      BY <2>2 DEF GetTracerProvider
    <3>2. \A s \in {"traces"} :
            providers[s][KeyIn(hash, env, s)] = None =>
              \/ Stray /\ s = "traces"
              \/ ~Stray /\ Hashed(s, env.config) = KeyIn(hash, env, s)[2]
      BY <1>2
    <3>3. {"traces"} \in SUBSET Signals
      BY <1>1
    <3>4. Added({"traces"}, hash, env)
      BY <1>1, <1>2, <3>1, <3>2, <3>3, InitOnceStep
    <3>5. QED
      BY <3>4 DEF Added, ProvidersStay
  <2>3. QED
    BY <2>1, <2>2
<1>5. LookupsInv'
  <2>1. CASE off
    <3>1. Looked("traces", Noop)
      BY <2>1 DEF GetTracerProvider
    <3>2. QED
      BY <1>1, <2>1, <3>1, LookedStep
  <2>2. CASE ~off /\ found # None
    <3>1. Looked("traces", found)
      BY <2>2 DEF GetTracerProvider
    <3>2. EntryOf("traces", key, found)
      BY <1>1, <1>2, <2>2 DEF RegistryInv
    <3>3. QED
      BY <1>1, <3>1, <3>2, LookedStep
  <2>3. CASE ~off /\ found = None
    <3>1. Looked("traces", built)
      BY <2>3 DEF GetTracerProvider
    <3>2. EntryOf("traces", key, built)
      BY <1>1, <1>2, <2>3, BuildType DEF EntryOf, Envs
    <3>3. QED
      BY <1>1, <3>1, <3>2, LookedStep
  <2>4. QED
    BY <2>1, <2>2, <2>3
<1>6. MetersInv'
  BY <1>1, <1>3, <1>4 DEF MetersInv, TypeOK, Signals, ProvidersStay
<1>7. TypeOK'
  BY <1>1, <1>3, <1>4 DEF TypeOK, EnvFrame, cacheVars
<1>8. UnputInv' /\ HashIsOfRequest' /\ ServedInv' /\ BackupInv' /\ CachesOfThisRequest'
  BY <1>1, <1>3, <1>4, EnvFrameStep DEF UnputInv
<1>9. QED
  BY <1>4, <1>5, <1>6, <1>7, <1>8 DEF IndInv

\* get_logger_provider and get_meter_provider build nothing.
LEMMA LookupStep == IndInv /\ (GetLoggerProvider \/ GetMeterProvider) => IndInv'
<1> SUFFICES ASSUME IndInv, GetLoggerProvider \/ GetMeterProvider PROVE IndInv'
  OBVIOUS
<1>1. /\ TypeOK /\ UnputInv /\ HashIsOfRequest /\ ServedInv /\ RegistryInv /\ MetersInv
      /\ {"logs", "metrics"} \subseteq Signals
  BY DEF IndInv, Signals
<1>2. /\ EnvFrame /\ UNCHANGED <<providers, runtimes, async_caches>> /\ phase = "running"
      /\ ProvidersStay
  BY DEF GetLoggerProvider, GetMeterProvider, EnvFrame, registryVars, Running, ProvidersStay
<1>3. \A s \in {"logs", "metrics"} :
        /\ KeyIn(hash, env, s) \in Keys
        /\ KeyIn(hash, env, s)[1] = pid
  BY <1>1, KeyType
<1>4. Noop.kind = "noop"
  BY DEF Noop
<1>5. LookupsInv'
  <2>1. ASSUME NEW s \in {"logs", "metrics"},
               Looked(s, IF Disabled(env) \/ providers[s][KeyIn(hash, env, s)] = None
                         THEN Noop ELSE providers[s][KeyIn(hash, env, s)])
        PROVE  LookupsInv'
    <3> DEFINE found == providers[s][KeyIn(hash, env, s)]
    <3>1. CASE Disabled(env) \/ found = None
      <4>1. Looked(s, Noop)
        BY <2>1, <3>1
      <4>2. QED
        BY <1>1, <3>1, <4>1, LookedStep
    <3>2. CASE ~Disabled(env) /\ found # None
      <4>1. Looked(s, found)
        BY <2>1, <3>2
      <4>2. EntryOf(s, KeyIn(hash, env, s), found)
        BY <1>1, <1>3, <3>2 DEF RegistryInv
      <4>3. QED
        BY <1>1, <4>1, <4>2, LookedStep
    <3>3. QED
      BY <3>1, <3>2
  <2>2. CASE GetLoggerProvider
    BY <2>1, <2>2 DEF GetLoggerProvider
  <2>3. CASE GetMeterProvider
    BY <2>1, <2>3 DEF GetMeterProvider
  <2>4. QED
    BY <2>2, <2>3
<1>6. /\ meters' \subseteq Keys
      /\ \A k \in meters' : k \in meters \/ providers["metrics"][k] # None
  <2>1. CASE GetLoggerProvider
    BY <1>1, <2>1 DEF GetLoggerProvider, TypeOK
  <2>2. CASE GetMeterProvider
    BY <1>1, <1>3, <1>4, <2>2 DEF GetMeterProvider, MeterOf, TypeOK
  <2>3. QED
    BY <2>1, <2>2
<1>7. MetersInv' /\ RegistryInv'
  BY <1>1, <1>2, <1>6 DEF MetersInv, RegistryInv, EntryOf
<1>8. TypeOK'
  BY <1>1, <1>2, <1>6 DEF TypeOK, EnvFrame, cacheVars
<1>9. UnputInv' /\ HashIsOfRequest' /\ ServedInv' /\ BackupInv' /\ CachesOfThisRequest'
  BY <1>1, <1>2, EnvFrameStep DEF UnputInv
<1>10. QED
  BY <1>5, <1>7, <1>8, <1>9 DEF IndInv
-----------------------------------------------------------------------------
(* The other actions.                                                       *)

LEMMA CacheStep ==
  ASSUME IndInv, NEW key \in meters, CreateAsyncCache(key)
  PROVE  IndInv'
<1>1. EnvFrame /\ UNCHANGED <<providers, runtimes, meters, result>>
  BY DEF CreateAsyncCache, EnvFrame, historyVars
<1>2. TypeOK' /\ MetersInv'
  BY <1>1 DEF IndInv, TypeOK, MetersInv, CreateAsyncCache, EnvFrame, cacheVars
<1>3. RegistryInv' /\ LookupsInv'
  BY <1>1 DEF IndInv, RegistryInv, EntryOf, LookupsInv, LookupIsUsable,
              LookupIsConfigured
<1>4. UnputInv' /\ HashIsOfRequest' /\ ServedInv' /\ BackupInv' /\ CachesOfThisRequest'
  BY <1>1, EnvFrameStep DEF IndInv, UnputInv, ProvidersStay
<1>5. QED
  BY <1>2, <1>3, <1>4 DEF IndInv

\* What the actions below leave alone: registry, lookups and the Meter objects.
RegistryFrame == UNCHANGED <<providers, runtimes, async_caches>>

LEMMA RegistryFrameStep ==
  ASSUME IndInv, RegistryFrame, meters' \in {meters, {}}, result' \in {result, None}
  PROVE  RegistryInv' /\ MetersInv' /\ LookupsInv'
BY DEF IndInv, RegistryFrame, RegistryInv, EntryOf, MetersInv, LookupsInv, LookupIsUsable,
       LookupIsConfigured

LEMMA FillStep == IndInv /\ FillCaches => IndInv'
<1> SUFFICES ASSUME IndInv, FillCaches PROVE IndInv'
  OBVIOUS
<1>1. /\ TypeOK /\ UnputInv /\ HashIsOfRequest /\ ServedInv /\ BackupInv /\ CachesOfThisRequest
      /\ None \notin Configs /\ None \notin BOOLEAN
  BY ProvidersAssumption DEF IndInv
<1>2. /\ UNCHANGED <<pid, module_disabled, imports, env, env_backup, hash, meters, unput, phase,
                     requests, puts, base, at_rinit, served, result, dirty, unwound>>
      /\ RegistryFrame /\ phase = "running"
  BY DEF FillCaches, RegistryFrame, registryVars, historyVars, Running
<1>3. TypeOK'
  BY <1>1, <1>2 DEF TypeOK, FillCaches, RegistryFrame, Envs
<1>4. UnputInv' /\ HashIsOfRequest' /\ ServedInv' /\ BackupInv'
  BY <1>1, <1>2 DEF UnputInv, HashIsOfRequest, ServedInv, RegistryFrame, BackupInv, Unput
<1>5. CachesOfThisRequest'
  BY <1>1, <1>2 DEF CachesOfThisRequest, FillCaches, TypeOK, Envs
<1>6. QED
  BY <1>2, <1>3, <1>4, <1>5, RegistryFrameStep DEF IndInv

\* putenv remembers the value a variable had when the request first changed it.
LEMMA PutenvStep ==
  ASSUME IndInv, NEW name \in Names, NEW e \in Envs, Putenv(name, e)
  PROVE  IndInv'
<1>1. /\ TypeOK /\ UnputInv /\ HashIsOfRequest /\ ServedInv /\ BackupInv /\ CachesOfThisRequest
      /\ env \in Envs
  BY DEF IndInv, TypeOK
<1>2. /\ UNCHANGED <<pid, module_disabled, imports, env_backup, hash, capture, limits, meters,
                     phase, requests, base, at_rinit, served, result, unwound>>
      /\ RegistryFrame /\ phase = "running" /\ dirty' = dirty \cup {"putenv"}
  BY DEF Putenv, RegistryFrame, registryVars, cacheVars, Running
<1>3. /\ env' \in Envs
      /\ DOMAIN unput' = DOMAIN unput \cup {name}
      /\ \A n \in DOMAIN unput' : unput'[n] = IF n \in DOMAIN unput THEN unput[n] ELSE env[n]
      /\ \A n \in Names : n # name => env'[n] = env[n]
  BY <1>1 DEF Putenv, Envs, Names
<1>4. Unput(env)' = Unput(env)
  BY <1>1, <1>3 DEF Unput, Names, Envs
<1>5. TypeOK'
  BY <1>1, <1>2, <1>3 DEF TypeOK, RegistryFrame
<1>6. UnputInv'
  BY <1>1, <1>2, <1>3 DEF UnputInv, Envs, Names, TypeOK
<1>7. HashIsOfRequest' /\ ServedInv' /\ BackupInv' /\ CachesOfThisRequest'
  BY <1>1, <1>2, <1>4 DEF HashIsOfRequest, ServedInv, RegistryFrame, BackupInv, CachesOfThisRequest
<1>8. QED
  BY <1>2, <1>5, <1>6, <1>7, RegistryFrameStep DEF IndInv

LEMMA ForkStep ==
  ASSUME IndInv, NEW child \in Pids, Fork(child)
  PROVE  IndInv'
<1>1. /\ TypeOK /\ UnputInv /\ HashIsOfRequest /\ ServedInv /\ BackupInv /\ CachesOfThisRequest
  BY DEF IndInv
<1>2. /\ UNCHANGED <<module_disabled, imports, env, env_backup, hash, capture, limits, meters,
                     unput, phase, requests, base, at_rinit, served, result, unwound>>
      /\ RegistryFrame /\ pid' = child /\ env_backup[child] = None
      /\ dirty' = IF phase = "running" THEN dirty \cup {"fork"} ELSE dirty
  BY DEF Fork, RegistryFrame, registryVars, cacheVars, Running
<1>3. Unput(env)' = Unput(env)
  BY <1>2 DEF Unput
<1>4. TypeOK' /\ UnputInv'
  BY <1>1, <1>2 DEF TypeOK, UnputInv, RegistryFrame
<1>5. HashIsOfRequest' /\ ServedInv' /\ BackupInv' /\ CachesOfThisRequest'
  BY <1>1, <1>2, <1>3 DEF HashIsOfRequest, ServedInv, RegistryFrame, BackupInv, CachesOfThisRequest
<1>6. QED
  BY <1>2, <1>4, <1>5, RegistryFrameStep DEF IndInv

LEMMA SkippedStep == IndInv /\ RequestInitSkipped => IndInv'
<1> SUFFICES ASSUME IndInv, RequestInitSkipped PROVE IndInv'
  OBVIOUS
<1>1. /\ TypeOK /\ UnputInv /\ HashIsOfRequest /\ ServedInv /\ BackupInv /\ CachesOfThisRequest
  BY DEF IndInv
<1>2. /\ UNCHANGED <<pid, module_disabled, imports, env, env_backup, hash, capture, limits, meters,
                     unput, base, result, dirty, unwound>>
      /\ RegistryFrame /\ phase = "idle" /\ phase' = "running"
      /\ at_rinit' = None /\ served' = None
      /\ requests' = requests + 1 /\ requests < MaxRequests
  BY DEF RequestInitSkipped, RegistryFrame, registryVars, cacheVars
<1>3. Unput(env)' = Unput(env)
  BY <1>2 DEF Unput
<1>4. TypeOK' /\ UnputInv'
  BY <1>1, <1>2, ProvidersAssumption DEF TypeOK, UnputInv, RegistryFrame
<1>5. HashIsOfRequest' /\ ServedInv' /\ BackupInv' /\ CachesOfThisRequest'
  BY <1>1, <1>2, <1>3 DEF HashIsOfRequest, ServedInv, RegistryFrame, BackupInv, CachesOfThisRequest
<1>6. QED
  BY <1>2, <1>4, <1>5, RegistryFrameStep DEF IndInv

\* RINIT: the import goes to env, what it replaces to the backup.
LEMMA RequestInitStep ==
  ASSUME IndInv, NEW e \in Envs, RequestInit(e)
  PROVE  IndInv'
<1>1. /\ TypeOK /\ UnputInv /\ RegistryInv /\ BackupInv /\ MetersInv /\ LookupsInv
      /\ pid \in Pids /\ env \in Envs /\ env_backup \in [Pids -> Envs \cup {None}]
      /\ None \notin Envs
  BY ProvidersAssumption DEF IndInv, TypeOK
<1>2. /\ UNCHANGED <<pid, module_disabled, imports, async_caches, meters, unput, base, result,
                     dirty, unwound>>
      /\ phase = "idle" /\ ~module_disabled /\ env' = e /\ hash' = RequestHash(e)
      /\ capture' = e.capture /\ limits' = e.config /\ at_rinit' = e
      /\ phase' = "running" /\ requests' = requests + 1 /\ requests < MaxRequests
      /\ imports = "nothing" => e = env /\ env_backup' = env_backup
      /\ imports # "nothing" => env_backup' = [env_backup EXCEPT ![pid] = env]
      /\ served' = IF Disabled(e) THEN None ELSE pid
  BY DEF RequestInit, Importable, Backup
<1>3. \A s \in Signals : /\ KeyIn(RequestHash(e), e, s) = <<pid, Hashed(s, e.config)>>
                         /\ KeyIn(RequestHash(e), e, s) \in Keys
                         /\ KeyIn(RequestHash(e), e, s)[1] = pid
                         /\ KeyIn(RequestHash(e), e, s)[2] = Hashed(s, e.config)
                         /\ RequestHash(e)[s] = Hashed(s, e.config)
                         /\ Hashed(s, e.config) \in Hashes /\ Hashed(s, e.config) # None
  <2>1. e.config \in Configs
    BY DEF Envs
  <2>2. \A s \in Signals : Hashed(s, e.config) \in Hashes /\ Hashed(s, e.config) # None
    BY <2>1, HashType
  <2>3. QED
    BY <1>1, <2>2 DEF KeyIn, RequestHash, Keys
<1>4. /\ providers' \in [Signals -> [Keys -> Entries \cup {None}]]
      /\ runtimes' \subseteq Pids
      /\ RegistryInv'
      /\ \A s \in Signals, k \in Keys :
           providers[s][k] # None => providers'[s][k] = providers[s][k]
      /\ ServedInv'
  <2>1. CASE Disabled(e)
    <3>1. UNCHANGED <<providers, runtimes>>
      BY <2>1 DEF RequestInit
    <3>2. QED
      BY <1>1, <1>2, <2>1, <3>1 DEF TypeOK, RegistryInv, EntryOf, ServedInv
  <2>2. CASE ~Disabled(e)
    <3>1. InitOnce(Signals, RequestHash(e), e, FALSE)
      BY <2>2 DEF RequestInit, Eager
    <3>2. /\ providers' \in [Signals -> [Keys -> Entries \cup {None}]]
          /\ runtimes' \subseteq Pids
          /\ RegistryInv'
          /\ \A s \in Signals, k \in Keys :
               providers[s][k] # None => providers'[s][k] = providers[s][k]
          /\ \A s \in Signals : providers'[s][KeyIn(RequestHash(e), e, s)] # None
      <4>1. \A s \in Signals : KeyIn(RequestHash(e), e, s) \in Keys
                             /\ KeyIn(RequestHash(e), e, s)[1] = pid
        BY <1>3
      <4>2. \A s \in Signals : providers[s][KeyIn(RequestHash(e), e, s)] = None =>
              \/ FALSE /\ s = "traces"
              \/ ~FALSE /\ Hashed(s, e.config) = KeyIn(RequestHash(e), e, s)[2]
        BY <1>3
      <4>3. Added(Signals, RequestHash(e), e)
        BY <1>1, <3>1, <4>1, <4>2, InitOnceStep
      <4>4. QED
        BY <4>3 DEF Added
    <3>3. ServedInv'
      <4>1. served' = pid /\ phase' = "running" /\ hash' = RequestHash(e)
        BY <1>2, <2>2
      <4>2. \A s \in Signals : hash'[s] # None /\ providers'[s][<<served', hash'[s]>>] # None
        BY <1>3, <3>2, <4>1
      <4>3. QED
        BY <4>1, <4>2 DEF ServedInv
    <3>4. QED
      BY <3>2, <3>3
  <2>3. QED
    BY <2>1, <2>2
<1>5. MetersInv' /\ LookupsInv'
  BY <1>1, <1>2, <1>4 DEF MetersInv, TypeOK, Signals, LookupsInv, LookupIsUsable,
                          LookupIsConfigured
<1>6. Unput(env)' = e /\ DOMAIN unput = {}
  BY <1>1, <1>2 DEF Unput, UnputInv, Envs
<1>7. TypeOK'
  <2>1. hash' \in [Signals -> Hashes \cup {None}]
    BY <1>2, <1>3 DEF RequestHash
  <2>2. env_backup' \in [Pids -> Envs \cup {None}]
    BY <1>1, <1>2
  <2>3. capture' \in BOOLEAN /\ limits' \in Configs
    BY <1>2 DEF Envs
  <2>4. QED
    BY <1>1, <1>2, <1>4, <2>1, <2>2, <2>3, ProvidersAssumption DEF TypeOK
<1>8. UnputInv' /\ HashIsOfRequest'
  BY <1>1, <1>2, <1>3, <1>6 DEF UnputInv, HashIsOfRequest
<1>9. BackupInv'
  <2>1. Unput(env) = env
    BY <1>1, <1>6, UnputType
  <2>2. CASE imports = "nothing"
    BY <1>1, <1>2, <1>6, <2>1, <2>2 DEF BackupInv
  <2>3. CASE imports # "nothing"
    BY <1>1, <1>2, <1>6, <2>3 DEF BackupInv
  <2>4. QED
    BY <2>2, <2>3
<1>10. CachesOfThisRequest'
  BY <1>2 DEF CachesOfThisRequest, RequestHash
<1>11. QED
  BY <1>4, <1>5, <1>7, <1>8, <1>9, <1>10 DEF IndInv

\* The end of a request whose environment goes back to e and to what putenv remembers.
LEMMA EndStep ==
  ASSUME IndInv, NEW e \in Envs, RequestEnds(e)
  PROVE  /\ env' = Unput(e) /\ env' \in Envs /\ Unput(env)' = Unput(e)
         /\ DOMAIN unput' = {} /\ meters' = {} /\ UnputInv'
         /\ phase = "running" /\ phase' = "idle" /\ at_rinit' = None
         /\ served' = None /\ ServedInv'
         /\ UNCHANGED <<pid, module_disabled, imports, requests, base>>
         /\ RegistryFrame /\ RegistryInv' /\ MetersInv' /\ LookupsInv'
<1>1. /\ env' = Unput(e) /\ DOMAIN unput' = {} /\ meters' = {} /\ result' = None
      /\ served' = None
      /\ phase = "running" /\ phase' = "idle" /\ at_rinit' = None
      /\ UNCHANGED <<pid, module_disabled, imports, requests, base>> /\ RegistryFrame
  BY DEF RequestEnds, RegistryFrame, registryVars, Running
<1>2. Unput(e) \in Envs
  BY UnputType DEF IndInv
<1>3. Unput(env)' = env'
  BY <1>1, <1>2 DEF Unput, Envs
<1>4. UnputInv' /\ ServedInv'
  BY <1>1 DEF UnputInv, ServedInv
<1>5. QED
  BY <1>1, <1>2, <1>3, <1>4, RegistryFrameStep

LEMMA ShutdownStep == IndInv /\ RequestShutdown => IndInv'
<1> SUFFICES ASSUME IndInv, RequestShutdown PROVE IndInv'
  OBVIOUS
<1> DEFINE e == IF module_disabled THEN env ELSE Restored
<1>1. /\ TypeOK /\ UnputInv /\ HashIsOfRequest /\ ServedInv /\ BackupInv
      /\ pid \in Pids /\ env \in Envs /\ env_backup \in [Pids -> Envs \cup {None}]
      /\ None \notin Envs
  BY ProvidersAssumption DEF IndInv, TypeOK
<1>2. e \in Envs
  BY <1>1 DEF Restored
<1>3. RequestEnds(e)
  BY DEF RequestShutdown
<1>4. /\ env_backup' = IF module_disabled THEN env_backup ELSE [env_backup EXCEPT ![pid] = None]
      /\ hash' = IF module_disabled THEN hash ELSE [s \in Signals |-> None]
      /\ capture' = None /\ limits' = None /\ unwound' = FALSE /\ dirty' = dirty
  BY DEF RequestShutdown
<1>5. /\ env' = Unput(e) /\ env' \in Envs /\ Unput(env)' = Unput(e)
      /\ DOMAIN unput' = {} /\ meters' = {} /\ UnputInv'
      /\ phase = "running" /\ phase' = "idle" /\ at_rinit' = None
      /\ served' = None /\ ServedInv'
      /\ UNCHANGED <<pid, module_disabled, imports, requests, base>>
      /\ RegistryFrame /\ RegistryInv' /\ MetersInv' /\ LookupsInv'
  BY <1>2, <1>3, EndStep
<1>6. \A s \in Signals : hash'[s] = None
  BY <1>1, <1>4 DEF HashIsOfRequest
<1>7. TypeOK'
  <2>1. env_backup' \in [Pids -> Envs \cup {None}] /\ hash' \in [Signals -> Hashes \cup {None}]
    BY <1>1, <1>4 DEF TypeOK
  <2>2. QED
    BY <1>1, <1>4, <1>5, <2>1 DEF TypeOK, RegistryFrame
<1>8. HashIsOfRequest' /\ CachesOfThisRequest'
  BY <1>4, <1>5, <1>6 DEF HashIsOfRequest, CachesOfThisRequest
<1>9. BackupInv'
  <2>1. CASE imports = "nothing"
    <3>1. e = env /\ Unput(e) = base
      BY <1>1, <2>1 DEF BackupInv, Restored
    <3>2. \A p \in Pids : env_backup'[p] = None
      BY <1>1, <1>4, <2>1 DEF BackupInv
    <3>3. QED
      BY <1>5, <2>1, <3>1, <3>2 DEF BackupInv
  <2>2. CASE imports # "nothing" /\ dirty = {}
    <3>1. DOMAIN unput = {} /\ Unput(e) = e
      BY <1>1, <1>2, <2>2, UnputType DEF BackupInv
    <3>2. CASE env_backup[pid] = None
      BY <1>1, <1>4, <1>5, <2>2, <3>1, <3>2 DEF BackupInv, Restored
    <3>3. CASE env_backup[pid] # None /\ ~module_disabled
      BY <1>1, <1>4, <1>5, <2>2, <3>1, <3>3 DEF BackupInv, Restored
    <3>4. CASE env_backup[pid] # None /\ module_disabled
      BY <1>1, <1>4, <1>5, <2>2, <3>1, <3>4 DEF BackupInv, Restored
    <3>5. QED
      BY <3>2, <3>3, <3>4
  <2>3. CASE imports # "nothing" /\ dirty # {}
    BY <1>1, <1>4, <1>5, <2>3 DEF BackupInv
  <2>4. QED
    BY <2>1, <2>2, <2>3
<1>10. QED
  BY <1>5, <1>7, <1>8, <1>9 DEF IndInv

LEMMA PanicStep == IndInv /\ RequestShutdownPanics => IndInv'
<1> SUFFICES ASSUME IndInv, RequestShutdownPanics PROVE IndInv'
  OBVIOUS
<1>1. /\ TypeOK /\ UnputInv /\ HashIsOfRequest /\ ServedInv /\ BackupInv /\ env \in Envs
  BY DEF IndInv, TypeOK
<1>2. /\ env' = Unput(env) /\ env' \in Envs /\ Unput(env)' = Unput(env)
      /\ DOMAIN unput' = {} /\ meters' = {} /\ UnputInv'
      /\ phase = "running" /\ phase' = "idle" /\ at_rinit' = None
      /\ served' = None /\ ServedInv'
      /\ UNCHANGED <<pid, module_disabled, imports, requests, base>>
      /\ RegistryFrame /\ RegistryInv' /\ MetersInv' /\ LookupsInv'
  BY <1>1, EndStep DEF RequestShutdownPanics
<1>3. /\ UNCHANGED <<env_backup, hash, capture, limits>>
      /\ dirty' = dirty \cup {"panic"} /\ unwound' = TRUE
  BY DEF RequestShutdownPanics, cacheVars
<1>4. TypeOK'
  BY <1>1, <1>2, <1>3 DEF TypeOK, RegistryFrame
<1>5. HashIsOfRequest' /\ ServedInv' /\ BackupInv' /\ CachesOfThisRequest'
  BY <1>1, <1>2, <1>3 DEF HashIsOfRequest, ServedInv, RegistryFrame, BackupInv, CachesOfThisRequest
<1>6. QED
  BY <1>2, <1>4, <1>5 DEF IndInv

\* MSHUTDOWN removes the providers of this process together with their caches.
LEMMA ModuleShutdownStep == IndInv /\ ModuleShutdown => IndInv'
<1> SUFFICES ASSUME IndInv, ModuleShutdown PROVE IndInv'
  OBVIOUS
<1>1. /\ TypeOK /\ UnputInv /\ HashIsOfRequest /\ ServedInv /\ BackupInv /\ CachesOfThisRequest
      /\ RegistryInv /\ MetersInv /\ LookupsInv
  BY DEF IndInv
<1>2. /\ UNCHANGED <<pid, module_disabled, imports, env, env_backup, hash, capture, limits,
                     runtimes, meters, unput, requests, base, at_rinit, served, result, dirty,
                     unwound>>
      /\ phase = "idle" /\ phase' = "stopped"
  BY DEF ModuleShutdown, cacheVars, historyVars
<1>3. /\ providers' \in [Signals -> [Keys -> Entries \cup {None}]]
      /\ \A s \in Signals, k \in Keys :
           providers'[s][k] # None => providers'[s][k] = providers[s][k]
      /\ async_caches' \subseteq async_caches
      /\ \A k \in async_caches' : providers'["metrics"][k] # None
  <2>1. CASE module_disabled
    BY <1>1, <2>1 DEF ModuleShutdown, TypeOK, MetersInv
  <2>2. CASE ~module_disabled
    BY <1>1, <2>2 DEF ModuleShutdown, TypeOK, MetersInv, Remaining, OwnCaches, Own, Signals
  <2>3. QED
    BY <2>1, <2>2
<1>4. TypeOK'
  BY <1>1, <1>2, <1>3 DEF TypeOK
<1>5. RegistryInv'
  BY <1>1, <1>3 DEF RegistryInv, EntryOf
<1>6. MetersInv' /\ LookupsInv'
  BY <1>1, <1>2, <1>3 DEF MetersInv, UnputInv, LookupsInv, LookupIsUsable,
                          LookupIsConfigured
<1>7. UnputInv' /\ HashIsOfRequest' /\ ServedInv' /\ BackupInv' /\ CachesOfThisRequest'
  BY <1>1, <1>2 DEF UnputInv, HashIsOfRequest, ServedInv, BackupInv, CachesOfThisRequest, Unput
<1>8. QED
  BY <1>4, <1>5, <1>6, <1>7 DEF IndInv

LEMMA Beginning == Init => IndInv
<1> SUFFICES ASSUME Init PROVE IndInv
  OBVIOUS
<1>1. env \in Envs /\ base = env /\ DOMAIN unput = {}
  BY ProvidersAssumption DEF Init
<1>2. TypeOK
  <2>1. /\ env_backup \in [Pids -> Envs \cup {None}]
        /\ hash \in [Signals -> Hashes \cup {None}]
        /\ capture \in BOOLEAN \cup {None} /\ limits \in Configs \cup {None}
    BY DEF Init
  <2>2. providers \in [Signals -> [Keys -> Entries \cup {None}]]
    BY DEF Init
  <2>3. DOMAIN unput \subseteq Names /\ requests \in 0..MaxRequests
    BY <1>1, ProvidersAssumption DEF Init
  <2>4. QED
    BY <1>1, <2>1, <2>2, <2>3 DEF Init, TypeOK
<1>3. UnputInv /\ HashIsOfRequest /\ ServedInv /\ RegistryInv /\ LookupsInv /\ MetersInv
      /\ CachesOfThisRequest
  BY <1>1 DEF Init, UnputInv, HashIsOfRequest, ServedInv, RegistryInv, LookupsInv, LookupIsUsable,
              LookupIsConfigured, MetersInv, Signals, CachesOfThisRequest
<1>4. Unput(env) = env
  BY <1>1, <1>2, <1>3, UnputType
<1>5. BackupInv
  BY <1>1, <1>2, <1>4 DEF Init, BackupInv, TypeOK
<1>6. QED
  BY <1>2, <1>3, <1>5 DEF IndInv

\* A step that changes nothing keeps every part.
LEMMA Stuttering == IndInv /\ UNCHANGED vars => IndInv'
<1> SUFFICES ASSUME IndInv, UNCHANGED vars PROVE IndInv'
  OBVIOUS
<1>1. EnvFrame /\ UNCHANGED <<providers, runtimes, async_caches, meters, result>> /\ ProvidersStay
  BY DEF vars, EnvFrame, registryVars, historyVars, cacheVars, ProvidersStay
<1>2. TypeOK'
  BY <1>1 DEF IndInv, TypeOK, EnvFrame, cacheVars
<1>3. RegistryInv' /\ MetersInv' /\ LookupsInv'
  BY <1>1, RegistryFrameStep DEF RegistryFrame
<1>4. UnputInv' /\ HashIsOfRequest' /\ ServedInv' /\ BackupInv' /\ CachesOfThisRequest'
  BY <1>1, EnvFrameStep DEF IndInv, UnputInv
<1>5. QED
  BY <1>2, <1>3, <1>4 DEF IndInv

\* The invariant that the theorems below are read off from.
THEOREM Invariance == Spec => []IndInv
<1>1. IndInv /\ [Next]_vars => IndInv'
  <2> SUFFICES ASSUME IndInv, [Next]_vars PROVE IndInv'
    OBVIOUS
  <2>1. CASE \E e \in Envs : RequestInit(e)
    BY <2>1, RequestInitStep
  <2>2. CASE RequestInitSkipped
    BY <2>2, SkippedStep
  <2>3. CASE GetTracerProvider
    BY <2>3, TracerStep
  <2>4. CASE GetLoggerProvider \/ GetMeterProvider
    BY <2>4, LookupStep
  <2>5. CASE \E key \in meters : CreateAsyncCache(key)
    BY <2>5, CacheStep
  <2>6. CASE FillCaches
    BY <2>6, FillStep
  <2>7. CASE \E name \in Names, e \in Envs : Putenv(name, e)
    BY <2>7, PutenvStep
  <2>8. CASE \E child \in Pids : Fork(child)
    BY <2>8, ForkStep
  <2>9. CASE RequestShutdown
    BY <2>9, ShutdownStep
  <2>10. CASE RequestShutdownPanics
    BY <2>10, PanicStep
  <2>11. CASE ModuleShutdown
    BY <2>11, ModuleShutdownStep
  <2>12. CASE UNCHANGED vars
    BY <2>12, Stuttering
  <2>13. QED
    BY <2>1, <2>2, <2>3, <2>4, <2>5, <2>6, <2>7, <2>8, <2>9, <2>10, <2>11, <2>12 DEF Next
<1>2. QED
  BY Beginning, <1>1, PTL DEF Spec

\* getTracer, getLogger and getMeter never return the provider or the runtime of another
\* process.
THEOREM LookupsAreUsable == Spec => []LookupIsUsable
<1>1. IndInv => LookupIsUsable
  BY DEF IndInv, LookupsInv
<1>2. QED
  BY <1>1, Invariance, PTL

\* They return what the configuration of the request asks for, as far as compute_config_hash
\* tells configurations apart, and a no-op provider only where there is nothing to return.
THEOREM LookupsAreConfigured == Spec => []LookupIsConfigured
<1>1. IndInv => LookupIsConfigured
  BY DEF IndInv, LookupsInv
<1>2. QED
  BY <1>1, Invariance, PTL

\* The registries hold a provider under the process and the hash of the configuration it
\* was built from (get_tracer_provider_key, provider_key), but for a tracer provider built
\* after putenv in a process whose RINIT built nothing.
THEOREM RegistryIsKeyed == Spec => []KeyedByConfig
<1>1. IndInv => KeyedByConfig
  BY DEF IndInv, RegistryInv, EntryOf, KeyedByConfig
<1>2. QED
  BY <1>1, Invariance, PTL

\* backup_env and restore_env undo every import between requests, unless a panic, a
\* fork or putenv came between.
THEOREM ImportsAreUndone == Spec => []EnvRestored
<1>1. IndInv => EnvRestored
  <2> SUFFICES ASSUME IndInv, phase = "idle", dirty = {} \/ imports = "nothing"
               PROVE  env = base
    BY DEF EnvRestored
  <2>1. DOMAIN unput = {} /\ env \in Envs /\ TypeOK /\ UnputInv /\ BackupInv
    BY DEF IndInv, UnputInv, TypeOK
  <2>2. Unput(env) = env
    BY <2>1, UnputType
  <2>3. QED
    BY <2>1, <2>2 DEF BackupInv
<1>2. QED
  BY <1>1, Invariance, PTL

\* What is cached for a request or for a provider goes with it.
THEOREM CachesStayCurrent == Spec => []CachesAreCurrent
<1>1. IndInv => CachesAreCurrent
  BY DEF IndInv, CachesAreCurrent, MetersInv, CachesHaveProvider
<1>2. QED
  BY <1>1, Invariance, PTL

KeepsOthers ==
  \A s \in Signals, key \in Keys :
    providers[s][key] # None /\ providers'[s][key] # providers[s][key] =>
      key[1] = pid /\ phase' = "stopped"

\* No step but MSHUTDOWN removes or replaces a provider, and MSHUTDOWN only those of its
\* own process.
THEOREM OthersAreKept == Spec => OnlyOwnShutDown
<1>1. IndInv /\ [Next]_vars => [KeepsOthers]_vars
  <2> SUFFICES ASSUME IndInv, Next PROVE KeepsOthers
    OBVIOUS
  <2>1. TypeOK /\ pid \in Pids /\ env \in Envs
    BY DEF IndInv, TypeOK
  <2>2. ASSUME NEW signals, NEW h, NEW e, NEW stray, InitOnce(signals, h, e, stray)
        PROVE  KeepsOthers
    BY <2>1, <2>2 DEF InitOnce, KeepsOthers, TypeOK
  <2>3. CASE \E e \in Envs : RequestInit(e)
    BY <2>2, <2>3 DEF RequestInit, KeepsOthers
  <2>4. CASE GetTracerProvider
    BY <2>2, <2>4 DEF GetTracerProvider, KeepsOthers
  <2>5. CASE ModuleShutdown
    BY <2>1, <2>5 DEF ModuleShutdown, Remaining, Own, KeepsOthers, TypeOK
  <2>6. CASE UNCHANGED providers
    BY <2>6 DEF KeepsOthers
  <2>7. QED
    BY <2>3, <2>4, <2>5, <2>6 DEF Next, RequestInitSkipped, GetLoggerProvider, GetMeterProvider,
       CreateAsyncCache, FillCaches, Putenv, Fork, RequestShutdown, RequestShutdownPanics,
       RequestEnds, registryVars
<1>2. QED
  BY <1>1, Invariance, PTL DEF Spec, OnlyOwnShutDown, KeepsOthers
=============================================================================
