------------------------------ MODULE EngineRun ------------------------------
(***************************************************************************)
(* `dologctl run` (cli/src/commands/run.rs): the main thread loads a       *)
(* configuration, starts the engine and a watcher of its own, and waits    *)
(* for the signal; the watcher's thread re-reads the file and reloads the  *)
(* engine behind a mutex, the one the main thread shuts it down under.     *)
(* A configuration is [level, shm]; --shm replaces the second, which the   *)
(* engine keeps as it was until it is restarted.                           *)
(***************************************************************************)
EXTENDS Integers

CONSTANTS
  FileLevels, ShmPaths,     \* what the file may say, when it is not Bad
  Bad, NoPath,
  MaxEdits                  \* bound on the edits

RunFiles == [level : FileLevels, shm : ShmPaths]

ASSUME RunAssumption == Bad \notin [level : FileLevels, shm : ShmPaths \cup {"cli"}]

VARIABLES
  config_file, edits,
  shm_path,         \* --shm, or NoPath
  run_config,       \* the engine's configuration
  main_pc, callback_pc,
  engine_mutex,     \* "main", "callback" or "free"
  parsed,           \* the configuration in the callback's hands
  SHUTDOWN_FLAG,
  outcome,          \* of the last reload: "ok", "restart required" or "error"
  shm_edited        \* history: the file has changed its shm path

runvars == <<config_file, edits, shm_path, run_config, main_pc, callback_pc, engine_mutex,
             parsed, SHUTDOWN_FLAG, outcome, shm_edited>>

(* apply_shm_override *)
Overridden(config) ==
  IF shm_path = NoPath THEN config ELSE [config EXCEPT !.shm = shm_path]

RunInit ==
  /\ config_file \in RunFiles \cup {Bad} /\ edits = 0 /\ shm_edited = FALSE
  /\ shm_path \in {NoPath, "cli"}
  /\ run_config = Bad /\ parsed = Bad /\ outcome = "ok"
  /\ main_pc = "load" /\ callback_pc = "off"
  /\ engine_mutex = "free"
  /\ SHUTDOWN_FLAG = FALSE

(***************************************************************************)
(* Outside.  A signal before the handler is there ends the process.        *)
(***************************************************************************)
Edit ==
  /\ edits < MaxEdits /\ main_pc # "exited"
  /\ edits' = edits + 1
  /\ \E new \in RunFiles \cup {Bad} :
       /\ config_file' = new
       /\ shm_edited' = (shm_edited \/ Bad \in {config_file, new}
                                    \/ config_file.shm # new.shm)
  /\ UNCHANGED <<shm_path, run_config, main_pc, callback_pc, engine_mutex, parsed,
                 SHUTDOWN_FLAG, outcome>>

Signal ==
  /\ main_pc # "exited"
  /\ IF main_pc \in {"wait", "shutdown", "leave"}
     THEN SHUTDOWN_FLAG' = TRUE /\ UNCHANGED <<main_pc, callback_pc>>
     ELSE main_pc' = "exited" /\ callback_pc' = "off" /\ UNCHANGED SHUTDOWN_FLAG
  /\ UNCHANGED <<config_file, edits, shm_path, run_config, engine_mutex, parsed,
                 outcome, shm_edited>>

(***************************************************************************)
(* The main thread.  A file it cannot use ends the process.                *)
(***************************************************************************)
Main(from, to) ==
  /\ main_pc = from /\ main_pc' = to
  /\ UNCHANGED <<config_file, edits, shm_path, parsed, SHUTDOWN_FLAG, outcome,
                 shm_edited>>

LoadAndInit ==
  /\ Main("load", IF config_file = Bad THEN "exited" ELSE "watch")
  /\ run_config' = IF config_file = Bad THEN Bad ELSE Overridden(config_file)
  /\ UNCHANGED <<callback_pc, engine_mutex>>

StartWatcher ==
  /\ Main("watch", "install")
  /\ callback_pc' = "idle"
  /\ UNCHANGED <<run_config, engine_mutex>>

InstallHandler ==
  /\ Main("install", "wait")
  /\ UNCHANGED <<run_config, callback_pc, engine_mutex>>

LockForShutdown ==
  /\ SHUTDOWN_FLAG /\ engine_mutex = "free"
  /\ Main("wait", "shutdown")
  /\ engine_mutex' = "main"
  /\ UNCHANGED <<run_config, callback_pc>>

(* The guard is dropped, and the process ends with whatever a callback does. *)
ShutdownEngine ==
  /\ Main("shutdown", "leave")
  /\ engine_mutex' = "free"
  /\ UNCHANGED <<run_config, callback_pc>>

Leave ==
  /\ Main("leave", "exited")
  /\ callback_pc' = "off" /\ engine_mutex' = "free"
  /\ UNCHANGED run_config

(***************************************************************************)
(* The callback of the watcher, at any time: the watcher sees more than    *)
(* one change where the file is written in pieces.                         *)
(***************************************************************************)
Callback(from, to) ==
  /\ callback_pc = from /\ callback_pc' = to
  /\ UNCHANGED <<config_file, edits, shm_path, main_pc, SHUTDOWN_FLAG, shm_edited>>

ReadAndParse ==
  /\ edits > 0
  /\ Callback("idle", IF config_file = Bad THEN "idle" ELSE "lock")
  /\ IF config_file = Bad THEN outcome' = "error" /\ UNCHANGED parsed
                          ELSE parsed' = Overridden(config_file) /\ UNCHANGED outcome
  /\ UNCHANGED <<run_config, engine_mutex>>

LockForReload ==
  /\ engine_mutex = "free"
  /\ Callback("lock", "reload")
  /\ engine_mutex' = "callback"
  /\ UNCHANGED <<run_config, parsed, outcome>>

(* Engine::reload_config: the sinks of the file may not open. *)
Reload(opens) ==
  /\ Callback("reload", "idle")
  /\ engine_mutex' = "free" /\ parsed' = Bad
  /\ IF opens
     THEN /\ run_config' = [parsed EXCEPT !.shm = run_config.shm]
          /\ outcome' = IF parsed.shm # run_config.shm THEN "restart required" ELSE "ok"
     ELSE outcome' = "error" /\ UNCHANGED run_config

RunNext ==
  \/ Edit \/ Signal
  \/ LoadAndInit \/ StartWatcher \/ InstallHandler
  \/ LockForShutdown \/ ShutdownEngine \/ Leave
  \/ ReadAndParse \/ LockForReload
  \/ \E opens \in BOOLEAN : Reload(opens)

RunSpec == RunInit /\ [][RunNext]_runvars

-----------------------------------------------------------------------------

(* "A transient bad edit must NOT terminate the engine" (run.rs:343), and   *)
(* the command line outlives every edit: the shared memory stays the one   *)
(* of --shm, a reload never reports that a restart is required for what    *)
(* --shm decides or nobody edited, and while the engine is shut down no    *)
(* reload is under way.                                                    *)
CommandLineHolds ==
  /\ shm_path # NoPath /\ run_config # Bad => run_config.shm = shm_path
  /\ shm_path # NoPath \/ ~shm_edited => outcome # "restart required"
  /\ main_pc = "shutdown" => callback_pc # "reload"

=============================================================================
