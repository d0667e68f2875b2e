----------------------------- MODULE Providers ------------------------------
(***************************************************************************)
(* The provider registries of the three signals (trace/tracer_provider.rs, *)
(* logs/logger_provider.rs, metrics/meter_provider.rs, the caches of       *)
(* metrics/meter.rs, runtime.rs), and the process environment they are     *)
(* configured from, which request.rs changes for the duration of a request *)
(* (config/sensitive_data.rs and the limits of util.rs cache parts of it). *)
(*                                                                         *)
(* A process is followed through MINIT, requests and MSHUTDOWN.  A fork    *)
(* copies its memory, so the model goes on with the child: what the parent *)
(* does next is the behaviour without the fork.                            *)
(***************************************************************************)
EXTENDS Integers, FiniteSets

CONSTANTS
  Pids,          \* process ids a lineage of forks may get
  Configs,       \* configurations of the exporters, see ConfigType
  None,          \* Option::None
  StartEnvs,     \* environments the process may be started with
  MaxPuts,       \* bound: calls of putenv
  MaxRequests    \* bound: requests served

Signals == {"traces", "logs", "metrics"}

\* What the OTEL_* variables say, as far as building a provider asks.  A variable that
\* is not set and one that is set to '' ("blank") are different to the builders.
ConfigType ==
  [exporter  : {"unset", "blank", "none", "console", "memory", "otlp", "other"},
   protocol  : {"unset", "blank", "grpc", "http/protobuf", "other"},
   simple    : BOOLEAN,     \* OTEL_SPAN_PROCESSOR, OTEL_LOGS_PROCESSOR is "simple"
   batch     : {"unset", "blank", "valid", "invalid"},       \* OTEL_BSP_*
   transport : BOOLEAN]     \* the transport settings are valid, the exporter is built

\* The OTEL_* variables of the process.  disabled also stands for a URL that
\* OTEL_PHP_EXCLUDED_URLS excludes.
Envs == [config : Configs, disabled : BOOLEAN, capture : BOOLEAN]

Names == {"config", "disabled", "capture"}

\* env::var(..).unwrap_or_default()
OrDefault(value) == IF value = "unset" THEN "blank" ELSE value

\* Mutant: OTEL_*_EXPORTER is missing from the list of hashed variables.
Hashed_NoExporter(signal, c) ==
  [exporter  |-> "blank",
   protocol  |-> OrDefault(c.protocol),
   simple    |-> signal # "metrics" /\ c.simple,
   batch     |-> IF signal = "traces" THEN OrDefault(c.batch) ELSE "blank",
   transport |-> c.transport]

\* compute_config_hash: the variables of a signal, with '' for those that are not set.
\* OTEL_BSP_* is hashed for traces only, a processor for traces and logs.
Hashed(signal, c) ==
  [exporter  |-> OrDefault(c.exporter),
   protocol  |-> OrDefault(c.protocol),
   simple    |-> signal # "metrics" /\ c.simple,
   batch     |-> IF signal = "traces" THEN OrDefault(c.batch) ELSE "blank",
   transport |-> c.transport]

Hashes == {Hashed(s, c) : s \in Signals, c \in Configs}

ASSUME ProvidersAssumption ==
  /\ Configs \subseteq ConfigType
  /\ None \notin Configs /\ None \notin BOOLEAN /\ None \notin Envs /\ None \notin Hashes
  /\ None \notin Pids
  /\ StartEnvs \subseteq Envs
  /\ MaxPuts \in Nat /\ MaxRequests \in Nat

Keys == Pids \X Hashes

VARIABLES
  pid,              \* process::id()
  module_disabled,  \* DISABLED of module.rs
  imports,          \* ini settings: what RINIT imports into the environment
  env,              \* the OTEL_* variables
  env_backup,       \* ENV_BACKUP
  hash,             \* REQUEST_CONFIG_HASH of each signal
  capture,          \* REQUEST_CAPTURE
  limits,           \* ATTRIBUTE_LIMITS
  providers,        \* TRACER_PROVIDERS, LOGGER_PROVIDERS, METER_PROVIDERS
  runtimes,         \* TOKIO_RUNTIMES: pids in it
  async_caches,     \* ASYNC_CACHES: provider keys of its instruments
  meters,           \* provider keys of the enabled Meter objects PHP code holds
  unput,            \* PHP's putenv: what the variables it changed were before
  phase,            \* "idle", "running" a request, "stopped"
  requests, puts,   \* requests begun, calls of putenv
  base,             \* history: the environment the process was started with
  at_rinit,         \* history: the environment when this RINIT filled its caches
  served,           \* history: the process whose RINIT built this request's providers
  result,           \* history: what the last lookup of a provider returned
  dirty,            \* history: what may have kept an environment from its restore
  unwound           \* history: the last RSHUTDOWN unwound

cacheVars    == <<hash, capture, limits>>
registryVars == <<providers, runtimes, async_caches>>
historyVars  == <<base, at_rinit, served, result, dirty, unwound>>

vars == <<pid, module_disabled, imports, env, env_backup, cacheVars, registryVars, meters,
          unput, phase, requests, puts, historyVars>>

-----------------------------------------------------------------------------
(* Building a provider.                                                     *)

\* The exporter of a protocol that is supported; gRPC is the default.
Exporter(protocol) == IF protocol = "http/protobuf" THEN "http/protobuf" ELSE "grpc"

Supported == {"unset", "grpc", "http/protobuf"}

\* The network branch of init_once, TransportSettings::from_env, build_otlp_exporter.
NetworkKind(c) ==
  IF c.protocol \in Supported /\ c.transport THEN Exporter(c.protocol) ELSE "noop"

\* BatchProcessorConfig::from_env succeeds; '' is not a number.
BatchConfigured(c) == c.batch \in {"unset", "valid"}

\* init_once of the tracer provider.  Any other exporter name means OTLP, and a
\* network exporter is never simple.
TracerKind(c) ==
  LET local  == c.exporter \in {"memory", "console"}
      simple == c.simple /\ local
  IN  CASE c.exporter = "none" -> "off"
        [] c.exporter # "none" /\ ~simple /\ ~BatchConfigured(c) -> "noop"
        [] local /\ (simple \/ BatchConfigured(c)) -> "local"
        [] c.exporter # "none" /\ ~local /\ BatchConfigured(c) -> NetworkKind(c)

\* build_provider of the logger provider; an unusable provider is a disabled one.
LoggerKind(c) ==
  CASE c.exporter \in {"none", "other", "blank"} -> "off"
    [] c.exporter \in {"memory", "console"} -> "local"
    [] c.exporter \in {"otlp", "unset"} ->
         IF c.protocol \in Supported /\ c.transport THEN Exporter(c.protocol) ELSE "off"

\* build_provider of the meter provider: any protocol but HTTP means gRPC.
MeterKind(c) ==
  CASE c.exporter \in {"none", "other", "blank"} -> "off"
    [] c.exporter \in {"memory", "console"} -> "local"
    [] c.exporter \in {"otlp", "unset"} ->
         IF c.transport THEN Exporter(c.protocol) ELSE "off"

Kinds == {"off", "noop", "local", "grpc", "http/protobuf"}

Kind(signal, c) ==
  CASE signal = "traces"  -> TracerKind(c)
    [] signal = "logs"    -> LoggerKind(c)
    [] signal = "metrics" -> MeterKind(c)

\* A provider and where it comes from: the process and the configuration it was built
\* in, its export runtime, and whether that may be another configuration than its key's.
Entries == [pid : Pids, config : Configs, kind : Kinds, runtime : Pids \cup {None},
            stray : BOOLEAN]

ASSUME EntriesAssumption == None \notin Entries

\* The shared no-op provider of each signal.
Noop == [pid |-> pid, config |-> None, kind |-> "noop", runtime |-> None, stray |-> FALSE]

\* Mutant: the runtime of whatever process made one first is used.
RuntimeFor_Inherited == IF runtimes = {} THEN pid ELSE CHOOSE p \in runtimes : TRUE

\* init_tokio_runtime: the runtime of this process, made on demand.
RuntimeFor == pid

\* What init_once builds in environment e.
Build(signal, e, stray) ==
  LET kind == Kind(signal, e.config)
  IN  [pid |-> pid, config |-> e.config, kind |-> kind,
       runtime |-> IF kind = "grpc" THEN RuntimeFor ELSE None, stray |-> stray]

\* get_tracer_provider_key, provider_key: the pid is read afresh, the hash is that of
\* the request when there is one.
KeyIn(h, e, signal) ==
  <<pid, IF h[signal] = None THEN Hashed(signal, e.config) ELSE h[signal]>>

\* init_once for a set of signals: an existing provider is kept.
InitOnce(signals, h, e, stray) ==
  /\ providers' = [s \in Signals |->
       IF s \in signals /\ providers[s][KeyIn(h, e, s)] = None
       THEN [providers[s] EXCEPT ![KeyIn(h, e, s)] = Build(s, e, stray)]
       ELSE providers[s]]
  /\ runtimes' = runtimes \cup
       {pid : s \in {s \in signals : /\ providers[s][KeyIn(h, e, s)] = None
                                     /\ Kind(s, e.config) = "grpc"}}

\* request::is_disabled
Disabled(e) == e.disabled

-----------------------------------------------------------------------------
Init ==
  /\ pid \in Pids
  /\ module_disabled \in BOOLEAN
  /\ imports \in {"nothing", "server", "dotenv"}
  /\ env \in StartEnvs
  /\ env_backup = [p \in Pids |-> None]
  /\ hash = [s \in Signals |-> None] /\ capture = None /\ limits = None
  /\ providers = [s \in Signals |-> [k \in Keys |-> None]]
  /\ runtimes = {} /\ async_caches = {} /\ meters = {}
  /\ unput = [n \in {} |-> None]
  /\ phase = "idle" /\ requests = 0 /\ puts = 0
  /\ base = env /\ at_rinit = None /\ served = None /\ result = None /\ dirty = {}
  /\ unwound = FALSE

(* RINIT.                                                                   *)

\* backup_env; a backup that was not used is overwritten.
Backup == env

\* init_environment: $_SERVER may set any variable, a .env file only some.
Importable(e) ==
  CASE imports = "nothing" -> e = env
    [] imports = "server"  -> e \in Envs
    [] imports = "dotenv"  -> e \in Envs /\ e.capture = env.capture

\* Mutant: the hashes of the last request are kept when there are some.
RequestHash_Kept(e) ==
  [s \in Signals |-> IF hash[s] = None THEN Hashed(s, e.config) ELSE hash[s]]

\* begin_request of the three providers.
RequestHash(e) == [s \in Signals |-> Hashed(s, e.config)]

\* Mutant: the tracer provider is left to the first getTracer of the request.
Eager_NoTracer == {"logs", "metrics"}

\* The providers that RINIT builds: init_once of the three.
Eager == Signals

\* on_request_init; a disabled request fills the caches and builds nothing.  The root
\* span that init() starts comes from the provider just looked up.
RequestInit(e) ==
  /\ phase = "idle" /\ ~module_disabled
  /\ requests < MaxRequests
  /\ Importable(e)
  /\ env_backup' = IF imports = "nothing" THEN env_backup
                   ELSE [env_backup EXCEPT ![pid] = Backup]
  /\ env' = e
  /\ hash' = RequestHash(e) /\ capture' = e.capture /\ limits' = e.config
  /\ IF Disabled(e)
     THEN UNCHANGED <<providers, runtimes>>
     ELSE InitOnce(Eager, RequestHash(e), e, FALSE)
  /\ served' = IF Disabled(e) THEN None ELSE pid
  /\ phase' = "running" /\ requests' = requests + 1
  /\ at_rinit' = e
  /\ UNCHANGED <<pid, module_disabled, imports, async_caches, meters, unput, puts, base, result,
                 dirty, unwound>>

\* RINIT does nothing: the module is disabled, or it unwinds before the import.
RequestInitSkipped ==
  /\ phase = "idle"
  /\ requests < MaxRequests
  /\ phase' = "running" /\ requests' = requests + 1
  /\ at_rinit' = None /\ served' = None
  /\ UNCHANGED <<pid, module_disabled, imports, env, env_backup, cacheVars, registryVars,
                 meters, unput, puts, base, result, dirty, unwound>>

-----------------------------------------------------------------------------
(* What PHP code does in a request.                                         *)

Running == phase = "running"

\* PHP undoes putenv after the extensions' RSHUTDOWN.
Unput(e) ==
  LET before(n) == IF n \in DOMAIN unput THEN unput[n] ELSE e[n]
  IN  [config |-> before("config"), disabled |-> before("disabled"),
       capture |-> before("capture")]

\* The configuration that a lookup's key stands for: the one RINIT found, or that of now.
Wanted(signal) == (IF hash[signal] = None THEN env ELSE Unput(env)).config

\* What getTracer builds now may differ from its key: putenv has changed what RINIT
\* hashed, and this process has not built the providers of the request in RINIT (it is
\* a forked child, or the request was disabled).
Stray == "config" \in DOMAIN unput /\ hash["traces"] # None /\ served # pid

Looked(signal, entry) ==
  result' = [signal |-> signal, pid |-> pid, entry |-> entry,
             disabled |-> Disabled(env) \/ (signal = "traces" /\ module_disabled),
             wanted |-> Wanted(signal), served |-> served]

\* get_tracer_provider: one that is missing is built, from the environment of now.
GetTracerProvider ==
  LET key == KeyIn(hash, env, "traces")
      off == module_disabled \/ Disabled(env)
      found == providers["traces"][key]
  IN  /\ Running
      /\ Looked("traces", CASE off -> Noop
                            [] ~off /\ found # None -> found
                            [] ~off /\ found = None -> Build("traces", env, Stray))
      /\ IF off THEN UNCHANGED <<providers, runtimes>>
         ELSE InitOnce({"traces"}, hash, env, Stray)
      /\ UNCHANGED <<pid, module_disabled, imports, env, env_backup, cacheVars, async_caches,
                     meters, unput, phase, requests, puts, base, at_rinit, served, dirty,
                     unwound>>

\* get_logger_provider: one that is missing, as in a forked child, is a no-op.
GetLoggerProvider ==
  LET found == providers["logs"][KeyIn(hash, env, "logs")]
  IN  /\ Running
      /\ Looked("logs", IF Disabled(env) \/ found = None THEN Noop ELSE found)
      /\ UNCHANGED <<pid, module_disabled, imports, env, env_backup, cacheVars, registryVars,
                     meters, unput, phase, requests, puts, base, at_rinit, served, dirty,
                     unwound>>

\* getMeter: the Meter object of an enabled provider remembers the provider's key.
MeterOf(entry, key) == IF entry.kind \in {"off", "noop"} THEN {} ELSE {key}

\* get_meter_provider, likewise.
GetMeterProvider ==
  LET key   == KeyIn(hash, env, "metrics")
      found == providers["metrics"][key]
      entry == IF Disabled(env) \/ found = None THEN Noop ELSE found
  IN  /\ Running
      /\ Looked("metrics", entry)
      /\ meters' = meters \cup MeterOf(entry, key)
      /\ UNCHANGED <<pid, module_disabled, imports, env, env_backup, cacheVars, registryVars,
                     unput, phase, requests, puts, base, at_rinit, served, dirty, unwound>>

\* create_async_cache by a Meter object, which keeps its provider key.
CreateAsyncCache(key) ==
  /\ Running
  /\ key \in meters
  /\ async_caches' = async_caches \cup {key}
  /\ UNCHANGED <<pid, module_disabled, imports, env, env_backup, cacheVars, providers, runtimes,
                 meters, unput, phase, requests, puts, historyVars>>

\* capture(), attribute_limit_config(): read once when RINIT did not.
FillCaches ==
  /\ Running
  /\ capture' = IF capture = None THEN env.capture ELSE capture
  /\ limits' = IF limits = None THEN env.config ELSE limits
  /\ UNCHANGED <<pid, module_disabled, imports, env, env_backup, hash, registryVars, meters,
                 unput, phase, requests, puts, historyVars>>

\* PHP's putenv, which remembers what each variable was before.
Putenv(name, e) ==
  /\ Running
  /\ env' = [env EXCEPT ![name] = e[name]]
  /\ unput' = [n \in DOMAIN unput \cup {name} |->
                 IF n \in DOMAIN unput THEN unput[n] ELSE env[n]]
  /\ puts < MaxPuts /\ puts' = puts + 1
  /\ dirty' = dirty \cup {"putenv"}
  /\ UNCHANGED <<pid, module_disabled, imports, env_backup, cacheVars, registryVars, meters,
                 phase, requests, base, at_rinit, served, result, unwound>>

\* fork, by a process manager or by PHP code, seen by the child.  Thread-local and
\* global state is copied; threads are not.
Fork(child) ==
  /\ phase # "stopped"
  /\ \A s \in Signals, h \in Hashes : providers[s][<<child, h>>] = None
  /\ child \notin runtimes /\ env_backup[child] = None /\ child # pid
  /\ pid' = child
  /\ dirty' = IF Running THEN dirty \cup {"fork"} ELSE dirty
  /\ UNCHANGED <<module_disabled, imports, env, env_backup, cacheVars, registryVars, meters,
                 unput, phase, requests, puts, base, at_rinit, served, result, unwound>>

-----------------------------------------------------------------------------
(* RSHUTDOWN and MSHUTDOWN.                                                 *)

\* Mutant: a variable that the import added stays.
Restored_KeepsAdded ==
  IF env_backup[pid] = None THEN env ELSE [env_backup[pid] EXCEPT !.capture = env.capture]

\* restore_env
Restored == IF env_backup[pid] = None THEN env ELSE env_backup[pid]

RequestEnds(e) ==
  /\ Running
  /\ env' = Unput(e)
  /\ unput' = [n \in {} |-> None]
  /\ meters' = {}
  /\ phase' = "idle"
  /\ at_rinit' = None /\ served' = None /\ result' = None
  /\ UNCHANGED <<pid, module_disabled, imports, registryVars, requests, puts, base>>

\* on_request_shutdown; a disabled module only drops the caches.
RequestShutdown ==
  /\ RequestEnds(IF module_disabled THEN env ELSE Restored)
  /\ env_backup' = IF module_disabled THEN env_backup ELSE [env_backup EXCEPT ![pid] = None]
  /\ hash' = IF module_disabled THEN hash ELSE [s \in Signals |-> None]
  /\ capture' = None /\ limits' = None
  /\ unwound' = FALSE
  /\ UNCHANGED dirty

\* RSHUTDOWN unwinds before shutdown() and is contained: nothing is restored.
RequestShutdownPanics ==
  /\ ~module_disabled
  /\ RequestEnds(env)
  /\ dirty' = dirty \cup {"panic"} /\ unwound' = TRUE
  /\ UNCHANGED <<env_backup, cacheVars>>

\* Mutant: every provider in memory is shut down, the parent's too.
Own_All(key) == TRUE

Own(key) == key[1] = pid

\* Mutant: remove_async_caches is not called.
OwnCaches_None == {}

\* remove_async_caches
OwnCaches == {key \in async_caches : Own(key)}

\* The registry of a signal after its shutdown().
Remaining(registry) == [key \in Keys |-> IF Own(key) THEN None ELSE registry[key]]

\* on_module_shutdown: the providers of this process are shut down and dropped.
ModuleShutdown ==
  /\ phase = "idle"
  /\ phase' = "stopped"
  /\ IF module_disabled THEN UNCHANGED <<providers, async_caches>>
     ELSE /\ providers' = [s \in Signals |-> Remaining(providers[s])]
          /\ async_caches' = async_caches \ OwnCaches
  /\ UNCHANGED <<pid, module_disabled, imports, env, env_backup, cacheVars, runtimes, meters,
                 unput, requests, puts, historyVars>>

Next ==
  \/ \E e \in Envs : RequestInit(e)
  \/ RequestInitSkipped
  \/ GetTracerProvider
  \/ GetLoggerProvider
  \/ GetMeterProvider
  \/ \E key \in meters : CreateAsyncCache(key)
  \/ FillCaches
  \/ \E name \in Names, e \in Envs : Putenv(name, e)
  \/ \E child \in Pids : Fork(child)
  \/ RequestShutdown
  \/ RequestShutdownPanics
  \/ ModuleShutdown

Spec == Init /\ [][Next]_vars

-----------------------------------------------------------------------------
(* Properties.                                                              *)

\* Every variable has its type.
TypeOK ==
  /\ pid \in Pids
  /\ module_disabled \in BOOLEAN
  /\ imports \in {"nothing", "server", "dotenv"}
  /\ env \in Envs
  /\ env_backup \in [Pids -> Envs \cup {None}]
  /\ hash \in [Signals -> Hashes \cup {None}]
  /\ capture \in BOOLEAN \cup {None}
  /\ limits \in Configs \cup {None}
  /\ providers \in [Signals -> [Keys -> Entries \cup {None}]]
  /\ runtimes \subseteq Pids
  /\ async_caches \subseteq Keys /\ meters \subseteq Keys
  /\ DOMAIN unput \subseteq Names
  /\ phase \in {"idle", "running", "stopped"}
  /\ requests \in 0 .. MaxRequests
  /\ base \in Envs /\ at_rinit \in Envs \cup {None} /\ served \in Pids \cup {None}
  /\ dirty \subseteq {"panic", "putenv", "fork"} /\ unwound \in BOOLEAN

\* A lookup never returns the provider, nor the export runtime, of another process:
\* their threads do not exist in a forked child (get_tracer_provider and its siblings).
LookupIsUsable ==
  result # None =>
    /\ result.entry.pid = result.pid
    /\ result.entry.runtime \in {None, result.pid}

\* A provider is found under its process and the hash of the configuration it was built
\* from, although the hash is read at RINIT and the configuration when a provider is
\* built: putenv can come between only where getTracer builds, in a process whose RINIT
\* has built nothing for the request, and so never for a logger or meter provider.
KeyedByConfig ==
  \A s \in Signals, key \in Keys :
    LET entry == providers[s][key]
    IN  entry # None =>
          /\ entry.pid = key[1]
          /\ Hashed(s, entry.config) = key[2] \/ (s = "traces" /\ entry.stray)

\* One of two configurations sets to '' what the other leaves unset.
BlankApart(c, d) ==
  \E variable \in {"exporter", "protocol", "batch"} :
    {c[variable], d[variable]} = {"unset", "blank"}

\* An enabled request is given a provider by getTracer in every process, and by getLogger
\* and getMeter in the process of its RINIT; and any provider given was built from a
\* configuration with the hash of the request's own and is of the kind the request's
\* configuration asks for, but where the two differ by '' and unset, which the hash does
\* not tell apart, and where the provider went astray (KeyedByConfig).
LookupIsConfigured ==
  result # None =>
    LET entry == result.entry
        s     == result.signal
    IN  /\ entry.config = None =>
             result.disabled \/ (s # "traces" /\ result.served # result.pid)
        /\ entry.config # None /\ ~entry.stray =>
             /\ Hashed(s, entry.config) = Hashed(s, result.wanted)
             /\ \/ entry.kind = Kind(s, result.wanted)
                \/ BlankApart(entry.config, result.wanted)

\* Between requests the environment is the one the process was started with: what a
\* request imported does not configure the next.  (A contained panic, a fork inside a
\* request and putenv can each leave an import behind.)
EnvRestored ==
  phase = "idle" /\ (dirty = {} \/ imports = "nothing") => env = base

\* Whatever is cached for a request was read in this request, after its import.
CachesOfThisRequest ==
  /\ phase = "running" /\ at_rinit # None =>
       /\ capture = at_rinit.capture /\ limits = at_rinit.config
       /\ \A s \in Signals : hash[s] = Hashed(s, at_rinit.config)
  /\ phase = "idle" /\ ~unwound =>
       capture = None /\ limits = None /\ \A s \in Signals : hash[s] = None

\* An instrument's cache belongs to a provider that is still registered: the caches
\* of a process go when its meter provider goes.
CachesHaveProvider ==
  \A key \in async_caches : providers["metrics"][key] # None

\* Cached state has the lifetime of what it was derived from: the request's settings
\* that of the request, the instruments' caches that of their provider.
CachesAreCurrent == TypeOK /\ CachesOfThisRequest /\ CachesHaveProvider

\* Only MSHUTDOWN removes providers, and only those of its own process; no provider is
\* ever replaced.
OnlyOwnShutDown ==
  [][\A s \in Signals, key \in Keys :
       providers[s][key] # None /\ providers'[s][key] # providers[s][key] =>
         key[1] = pid /\ phase' = "stopped"]_vars
=============================================================================
