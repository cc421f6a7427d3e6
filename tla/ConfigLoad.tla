----------------------------- MODULE ConfigLoad -----------------------------
(***************************************************************************)
(* The priority ladder of the configuration (core/src/config/settings.rs): *)
(* parse, load_default, apply_profile and apply_api_overrides.  A layer    *)
(* gives some of the settings; a file of a layer replaces the whole        *)
(* configuration, what it leaves out being the default, and only the       *)
(* environment variables and the calls of the host change single settings. *)
(* Ring size, shutdown policy and the like are handled as level is, sinks, *)
(* watcher, encoding and shared memory as the sections of one file are.    *)
(***************************************************************************)
EXTENDS Integers

CONSTANTS
  ConfigFiles,           \* the settings a file may hold: [level, profile, audit, batch, sinks]
  ConfigLevels, Profiles, \* the levels and the profiles of the environment and of the host
  ApiBatches,            \* the batch sizes a host may ask for; 0 stands for none as well
  UsizeSize              \* usize::MAX + 1

VARIABLES
  layers,           \* the files that can be read and parsed, by the rung they are for
  environment,      \* DO_LOG_LEVEL and DO_LOG_PERF_PROFILE
  api,              \* the overrides of the host
  config,
  rung              \* the rung reached

loadvars == <<layers, environment, api, config, rung>>

Unset == "unset"
ProfileNames == {"dev", "perf", "audit", "balanced"}

ASSUME LoadAssumption ==
  /\ Profiles \subseteq ProfileNames
  /\ UsizeSize \in Nat /\ UsizeSize > 256
  /\ ApiBatches \subseteq 0..(UsizeSize - 1)
  /\ \A given \in ConfigFiles :
       given.profile \in ProfileNames \cup {Unset} /\ given.batch \in Int

Rungs == {"system", "local", "env"}

(* DologgerConfig::default. *)
Default == [level |-> "INFO", profile |-> "perf", audit |-> FALSE, signature |-> FALSE,
            batch |-> 256, coop |-> TRUE, sinks |-> {"console"}]

LoadInit ==
  /\ layers \in UNION {[readable -> ConfigFiles] : readable \in SUBSET Rungs}
  /\ environment \in [level : ConfigLevels \cup {Unset}, profile : Profiles \cup {Unset}]
  /\ api \in [level : ConfigLevels \cup {Unset}, profile : Profiles \cup {Unset},
              audit : {"on", "off", Unset}, batch : ApiBatches]
  /\ config = Default /\ rung = "system"

SetTo(value, old) == IF value = Unset THEN old ELSE value

(* "dev" caps the batch and turns audit off; "balanced" leaves what an       *)
(* earlier profile turned on.                                              *)
ApplyProfile(c) ==
  CASE c.profile = "dev"  -> [c EXCEPT !.batch = IF @ < 32 THEN @ ELSE 32, !.audit = FALSE,
                                       !.signature = FALSE, !.coop = FALSE]
    [] c.profile = "perf" -> [c EXCEPT !.batch = IF @ > 256 THEN @ ELSE 256, !.coop = TRUE]
    [] c.profile = "audit" -> [c EXCEPT !.batch = 128, !.audit = TRUE, !.signature = TRUE,
                                        !.coop = FALSE]
    [] c.profile = "balanced" -> [c EXCEPT !.batch = 128, !.coop = FALSE]

Audited(value, old) == IF value = Unset THEN old ELSE value = "on"

(* A sink that is not valid is skipped; with none left there is the console. *)
SinksOf(file, old) == IF file.sinks = {} THEN old ELSE file.sinks

(* as usize: what a negative number becomes. *)
AsUsize(number) == number % UsizeSize

(* parse, which starts from the defaults. *)
Parsed(file) ==
  ApplyProfile([Default EXCEPT
    !.level = SetTo(file.level, @), !.profile = SetTo(file.profile, @),
    !.audit = Audited(file.audit, @), !.signature = Audited(file.audit, @),
    !.batch = AsUsize(file.batch), !.sinks = SinksOf(file, @)])

(* load_from_file: a file that is absent, or that parse refuses for its     *)
(* syntax or its level, leaves what the rungs below gave.                  *)
Read(layer) == IF layer \in DOMAIN layers THEN Parsed(layers[layer]) ELSE config

LoadFile(layer, next) ==
  /\ rung = layer
  /\ config' = Read(layer)
  /\ rung' = next
  /\ UNCHANGED <<layers, environment, api>>

(* DO_LOG_LEVEL is not validated; the file that DO_LOG_CONFIG_FILE names is *)
(* read after the other variables.                                         *)
ReadEnvironment ==
  /\ rung = "environment"
  /\ config' = [config EXCEPT !.level = SetTo(environment.level, @),
                              !.profile = SetTo(environment.profile, @)]
  /\ rung' = "env"
  /\ UNCHANGED <<layers, environment, api>>

(* The end of load_default. *)
SettleProfile ==
  /\ rung = "profile"
  /\ config' = ApplyProfile(config)
  /\ rung' = "api"
  /\ UNCHANGED <<layers, environment, api>>

(* apply_api_overrides: audit and signature can only be turned on, a profile *)
(* is noted and not applied, and a batch of 0 is refused.                   *)
Override ==
  /\ rung = "api"
  /\ config' = [config EXCEPT
       !.level = SetTo(api.level, @), !.profile = SetTo(api.profile, @),
       !.batch = IF api.batch >= 1 THEN api.batch ELSE @,
       !.audit = (api.audit = "on") \/ @, !.signature = (api.audit = "on") \/ @]
  /\ rung' = "loaded"
  /\ UNCHANGED <<layers, environment, api>>

LoadNext ==
  \/ LoadFile("system", "local") \/ LoadFile("local", "environment") \/ ReadEnvironment
  \/ LoadFile("env", "profile") \/ SettleProfile \/ Override

LoadSpec == LoadInit /\ [][LoadNext]_loadvars

(***************************************************************************)
(* Properties.                                                             *)
(***************************************************************************)

(* The file of the highest rung that can be read; without any, the defaults. *)
Base ==
  CASE "env" \in DOMAIN layers   -> Parsed(layers["env"])
    [] "env" \notin DOMAIN layers /\ "local" \in DOMAIN layers -> Parsed(layers["local"])
    [] DOMAIN layers = {"system"} -> Parsed(layers["system"])
    [] OTHER                     -> Default

(* The environment chooses the profile unless it names a file. *)
Chosen ==
  IF "env" \in DOMAIN layers THEN Base.profile ELSE SetTo(environment.profile, Base.profile)

(* Whatever files are missing or broken, what load_with_api_overrides         *)
(* returns is one file, the readable one of the highest rung, and never a     *)
(* mixture: its sinks are that file's, and so is audit unless the profile     *)
(* chosen decides it; that profile holds to the full ("audit" has audit,       *)
(* signatures and its batch, "dev" has neither audit nor a large batch);     *)
(* the host turns audit on, never off, and has the last word on the level.   *)
(* Of a file's batch size, which is not looked at, 0 (a consumer that drains *)
(* nothing) gets through under "dev" alone and more than 256 (a negative     *)
(* number, too) under "perf" alone, and only to a host that asks for none.   *)
OneFileOneProfile ==
  /\ rung = "api" =>
       /\ config.profile = Chosen /\ config.sinks = Base.sinks /\ config.sinks # {}
       /\ Chosen = "audit" => config.audit /\ config.signature /\ config.batch = 128
       /\ Chosen = "dev" => ~config.audit /\ ~config.signature /\ config.batch <= 32
       /\ Chosen \in {"perf", "balanced"} => config.audit = Base.audit
  /\ rung = "loaded" =>
       /\ config.batch = 0 => Chosen = "dev" /\ api.batch = 0
       /\ config.batch > 256 => Chosen = "perf" \/ config.batch = api.batch
       /\ Chosen = "audit" \/ api.audit = "on" => config.audit
       /\ config.level = SetTo(api.level, IF "env" \in DOMAIN layers THEN Base.level
                                          ELSE SetTo(environment.level, Base.level))

=============================================================================
