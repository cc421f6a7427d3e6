---------------------------- MODULE MCComponents ----------------------------
(***************************************************************************)
(* The components that share no state with each other or with the log and  *)
(* audit paths, side by side: part says which one runs, from the first     *)
(* state to the last, and the variables of the others keep one initial     *)
(* value.  A behaviour is one of one component, which is checked just as   *)
(* it would be alone.                                                      *)
(***************************************************************************)
EXTENDS ComponentProofs, ReadBackProofs

CONSTANTS
  \* Canary
  Sinks, MaxResets,
  \* SinkDispatch
  Bound, MaxDispatch

VARIABLES
  part,
  \* Canary
  probers, interval_over, consecutive_failures, dead, works, timer,
  reset, resets,
  \* SinkDispatch
  shared_pool, channel, sink_tx, consumer_pc, job, sink_done,
  pool_closed, sent, sink_log, waiter

canaryvars ==
  <<probers, interval_over, consecutive_failures, dead, works, timer,
  reset, resets>>
dispatchvars ==
  <<shared_pool, channel, sink_tx, consumer_pc, job, sink_done,
  pool_closed, sent, sink_log, waiter>>

\* The log path
CN == INSTANCE Canary

\* Sinks
SD == INSTANCE SinkDispatch

Parts ==
  {"record pool", "record identifiers", "rate limit", "backpressure",
   "circuit breaker", "canary", "emergency spill", "shared memory ring",
   "shared memory region", "file sink", "remote sinks", "sink dispatch",
   "replay guard", "key rotation", "external anchor", "log verification",
   "plugin dependencies", "plugin host", "plugin store",
   "plugin migration", "wire records", "frame stream", "record files",
   "configuration files", "logger domains", "engine run"}

(***************************************************************************)
(* What the constants of the modules stand for.                            *)
(***************************************************************************)
CoreNames == [n \in {"host.name"} |-> 7]

MCFiles ==
  {[level |-> "unset", profile |-> "dev", audit |-> "on", batch |-> 0, sinks |-> {}],
   [level |-> "WARN", profile |-> "audit", audit |-> "unset", batch |-> 16,
    sinks |-> {"file"}],
   [level |-> "unset", profile |-> "unset", audit |-> "off", batch |-> -1,
    sinks |-> {"file"}]}

MCSinkLists == {<<"console", "file">>}

(***************************************************************************)
(* The sum.  A component that has several initial states keeps one of them *)
(* while another one runs.                                                 *)
(***************************************************************************)
OneBurst == CHOOSE burst \in BurstSizes : TRUE
OneImage == [l \in Libraries |-> [members |-> <<CHOOSE n \in Names : TRUE>>,
                                  sidecar |-> Nil]]
\* Which plugins require what nobody provides is nothing to the search.
OneLacksAField ==
  {graph \in [Plugins -> SUBSET (Plugins \cup {Unprovided})] :
     \A n \in Plugins : n # "p1" => Unprovided \notin graph[n]}
NoFiles == [l \in {} |-> "unset"]
NothingSet == [level |-> "unset", profile |-> "unset"]
NothingAsked == [level |-> "unset", profile |-> "unset", audit |-> "unset",
                 batch |-> 0]

OneInitialState(p) ==
  /\ IF p = "rate limit" THEN TRUE
     ELSE burst_size = OneBurst
  /\ IF p = "backpressure" THEN TRUE
     ELSE profile = "Dev" /\ is_audit = TRUE
  /\ IF p = "shared memory ring" THEN TRUE
     ELSE policy = "DropNewest" /\ callers = ShmWriters
  /\ IF p = "file sink" THEN TRUE
     ELSE durability_level = 0 /\ fsync_on_write = FALSE
  /\ IF p = "remote sinks" THEN TRUE
     ELSE remote_sink = "otel"
  /\ IF p = "sink dispatch" THEN TRUE
     ELSE shared_pool = TRUE
  /\ IF p = "external anchor" THEN TRUE
     ELSE interval_elapsed = TRUE
  /\ IF p = "log verification" THEN TRUE
     ELSE kind = "frames"
  /\ IF p = "plugin dependencies" THEN requires \in OneLacksAField
     ELSE requires = [n \in Plugins |-> {}]
  /\ IF p = "plugin host" THEN TRUE
     ELSE image = OneImage /\ trust_anchors = {} /\ revoked = {}
        /\ red_allowed = TRUE
  /\ IF p = "plugin store" THEN TRUE
     ELSE trusted_keys = {} /\ require_2fa = FALSE
  /\ IF p = "record files" THEN TRUE
     ELSE total = 0 /\ garbage = 0
  /\ IF p = "configuration files" THEN TRUE
     ELSE layers = NoFiles /\ environment = NothingSet /\ api = NothingAsked
  /\ IF p = "engine run" THEN TRUE
     ELSE config_file = Bad /\ shm_path = NoPath

ComponentsInit ==
  /\ part \in Parts
  /\ OneInitialState(part)
  /\ Init /\ IdInit /\ RateInit /\ PressureInit /\ BreakerInit
  /\ CN!CanaryInit /\ SpillInit /\ ShmRingInit /\ ShmRegionInit
  /\ FileSinkInit /\ RemoteInit /\ SD!DispatchInit /\ ReplayInit
  /\ RotationInit /\ AnchorInit /\ VerifyInit /\ DependencyInit
  /\ PluginHostInit /\ PluginStoreInit /\ MigrationInit
  /\ WireInit /\ StreamInit /\ RecordInit /\ LoadInit
  /\ DomainInit /\ RunInit

Still(p) ==
  /\ IF p = "record pool" THEN TRUE ELSE UNCHANGED vars
  /\ IF p = "record identifiers" THEN TRUE ELSE UNCHANGED idvars
  /\ IF p = "rate limit" THEN TRUE ELSE UNCHANGED ratevars
  /\ IF p = "backpressure" THEN TRUE ELSE UNCHANGED pressurevars
  /\ IF p = "circuit breaker" THEN TRUE ELSE UNCHANGED breakervars
  /\ IF p = "canary" THEN TRUE ELSE UNCHANGED canaryvars
  /\ IF p = "emergency spill" THEN TRUE ELSE UNCHANGED spillvars
  /\ IF p = "shared memory ring" THEN TRUE ELSE UNCHANGED shmvars
  /\ IF p = "shared memory region" THEN TRUE ELSE UNCHANGED regionvars
  /\ IF p = "file sink" THEN TRUE ELSE UNCHANGED filevars
  /\ IF p = "remote sinks" THEN TRUE ELSE UNCHANGED remotevars
  /\ IF p = "sink dispatch" THEN TRUE ELSE UNCHANGED dispatchvars
  /\ IF p = "replay guard" THEN TRUE ELSE UNCHANGED replayvars
  /\ IF p = "key rotation" THEN TRUE ELSE UNCHANGED rotationvars
  /\ IF p = "external anchor" THEN TRUE ELSE UNCHANGED anchorvars
  /\ IF p = "log verification" THEN TRUE ELSE UNCHANGED verifyvars
  /\ IF p = "plugin dependencies" THEN TRUE ELSE UNCHANGED dependencyvars
  /\ IF p = "plugin host" THEN TRUE ELSE UNCHANGED hostvars
  /\ IF p = "plugin store" THEN TRUE ELSE UNCHANGED storevars
  /\ IF p = "plugin migration" THEN TRUE ELSE UNCHANGED migrationvars
  /\ IF p = "wire records" THEN TRUE ELSE UNCHANGED wirevars
  /\ IF p = "frame stream" THEN TRUE ELSE UNCHANGED streamvars
  /\ IF p = "record files" THEN TRUE ELSE UNCHANGED recordvars
  /\ IF p = "configuration files" THEN TRUE ELSE UNCHANGED loadvars
  /\ IF p = "logger domains" THEN TRUE ELSE UNCHANGED domainvars
  /\ IF p = "engine run" THEN TRUE ELSE UNCHANGED runvars

Runs(p) == part = p /\ UNCHANGED part /\ Still(p)

ComponentsNext ==
  \/ part = "record pool" /\ Next /\ Runs("record pool")
  \/ part = "record identifiers" /\ IdNext /\ Runs("record identifiers")
  \/ part = "rate limit" /\ RateNext /\ Runs("rate limit")
  \/ part = "backpressure" /\ PressureNext /\ Runs("backpressure")
  \/ part = "circuit breaker" /\ BreakerNext /\ Runs("circuit breaker")
  \/ part = "canary" /\ CN!CanaryNext /\ Runs("canary")
  \/ part = "emergency spill" /\ SpillNext /\ Runs("emergency spill")
  \/ part = "shared memory ring" /\ ShmRingNext /\ Runs("shared memory ring")
  \/ part = "shared memory region" /\ ShmRegionNext /\ Runs("shared memory region")
  \/ part = "file sink" /\ FileSinkNext /\ Runs("file sink")
  \/ part = "remote sinks" /\ RemoteNext /\ Runs("remote sinks")
  \/ part = "sink dispatch" /\ SD!DispatchNext /\ Runs("sink dispatch")
  \/ part = "replay guard" /\ ReplayNext /\ Runs("replay guard")
  \/ part = "key rotation" /\ RotationNext /\ Runs("key rotation")
  \/ part = "external anchor" /\ AnchorNext /\ Runs("external anchor")
  \/ part = "log verification" /\ VerifyNext /\ Runs("log verification")
  \/ part = "plugin dependencies" /\ DependencyNext /\ Runs("plugin dependencies")
  \/ part = "plugin host" /\ PluginHostNext /\ Runs("plugin host")
  \/ part = "plugin store" /\ PluginStoreNext /\ Runs("plugin store")
  \/ part = "plugin migration" /\ MigrationNext /\ Runs("plugin migration")
  \/ part = "wire records" /\ WireNext /\ Runs("wire records")
  \/ part = "frame stream" /\ StreamNext /\ Runs("frame stream")
  \/ part = "record files" /\ RecordNext /\ Runs("record files")
  \/ part = "configuration files" /\ LoadNext /\ Runs("configuration files")
  \/ part = "logger domains" /\ DomainNext /\ Runs("logger domains")
  \/ part = "engine run" /\ RunNext /\ Runs("engine run")

componentvars ==
  <<part, vars, idvars, ratevars, pressurevars, breakervars, canaryvars,
  spillvars, shmvars, regionvars, filevars, remotevars, dispatchvars,
  replayvars, rotationvars, anchorvars, verifyvars, dependencyvars,
  hostvars, storevars, migrationvars, wirevars, streamvars, recordvars,
  loadvars, domainvars, runvars>>

(***************************************************************************)
(* Fairness, of the component that runs: a caller of the breaker reports   *)
(* what it was let through for and asks again, checks of the fill level go *)
(* on, so do the timer thread and a reset under way while intervals pass,  *)
(* and the threads of an I/O pool run.  Nobody must log, fail or shut down. *)
(***************************************************************************)
BreakerFairness(c) ==
  /\ WF_breakervars(part = "circuit breaker" /\ Report(c))
  /\ WF_breakervars(part = "circuit breaker" /\ Request(c))

PressureFairness ==
  WF_pressurevars(part = "backpressure" /\ \E c \in Checkers : CheckEmergency(c))

CanaryFairness ==
  /\ WF_canaryvars(part = "canary" /\ CN!TimerStep)
  /\ WF_canaryvars(part = "canary" /\ CN!ResetFlag)
  /\ \A s \in Sinks : WF_canaryvars(part = "canary" /\ CN!IntervalPasses(s))

DispatchFairness ==
  /\ WF_dispatchvars(part = "sink dispatch" /\ SD!ConsumerStep)
  /\ WF_dispatchvars(part = "sink dispatch" /\ SD!WorkerStep)
  /\ WF_dispatchvars(part = "sink dispatch"
                            /\ (SD!JoinConsumer \/ SD!ReturnFromShutdown))

ComponentsSpec ==
  /\ ComponentsInit /\ [][ComponentsNext]_componentvars
  /\ \A c \in Callers : BreakerFairness(c)
  /\ PressureFairness /\ CanaryFairness /\ DispatchFairness

(***************************************************************************)
(* Properties: those of the modules, of components of a kind together.     *)
(* AdmissionIsBounded, PluginsAreSafe, SinksKeepRecords, KeysAndAnchorsHold *)
(* and ConfigurationHolds are stated where they are proved, in             *)
(* ComponentProofs, RecordsReadBack in ReadBackProofs, PassMeansIntact in  *)
(* AuditVerify.                                                            *)
(***************************************************************************)

(* What protects the log path from a failing sink gives it back: a circuit  *)
(* does not stay half open, emergency mode ends with its cause, and a sink *)
(* that fails for good is declared dead.                                   *)
ResilienceRecovers == HalfOpenEnds /\ EmergencyEnds /\ CN!FailuresAreNoticed

(* A shutdown of a pipeline that writes through an I/O pool ends, with      *)
(* every record given to the sink in order before it is closed.            *)
DispatchStops == SD!DispatchStops

=============================================================================
