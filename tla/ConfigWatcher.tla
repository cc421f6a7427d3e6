--------------------------- MODULE ConfigWatcher ---------------------------
(***************************************************************************)
(* The configuration file and the thread that watches it                   *)
(* (core/src/config/watcher.rs), with the engine's callback, which parses  *)
(* the file and leaves the result in the engine's pending slot             *)
(* (Engine::start_config_watcher, core/src/lib.rs).                        *)
(*                                                                         *)
(* Modification times are taken to differ between any two writes.  The     *)
(* debounce window is the flag settled, which time sets.                   *)
(***************************************************************************)
EXTENDS Integers, Sequences

CONSTANTS
  Contents,       \* what the file may hold: configurations and Garbage
  Garbage, Missing, None,
  Backends,       \* subset of {"polling", "inotify"}
  MaxWrites       \* bound on the changes of the file

VARIABLES
  backend,
  content, mtime,     \* the file; mtime counts the changes
  inode,              \* "watched": the inode inotify watches; "other" after a replacement
  kernel,             \* "nothing", or "event": an event waits to be read
  wpc,                \* the watcher thread
  last_mtime,         \* None: the file was missing at the last look
  reload_pending, settled,
  loaded,             \* the configuration the callback has parsed
  pending_reload,     \* the engine's slot
  baseline            \* history: the change of the file the watcher started from

filevars  == <<content, mtime, inode, kernel>>
watchvars == <<wpc, last_mtime, reload_pending, settled, loaded, baseline>>
watchervars == <<backend, filevars, watchvars, pending_reload>>

Good(c) == c \notin {Garbage, Missing}

WatcherInit ==
  /\ backend \in Backends
  /\ content \in {c \in Contents : Good(c)}
  /\ mtime = 0 /\ inode = "watched" /\ kernel = "nothing"
  /\ wpc = "new" /\ last_mtime = None
  /\ reload_pending = FALSE /\ settled = FALSE
  /\ loaded = None /\ pending_reload = None /\ baseline = 0

(***************************************************************************)
(* The operator's side: the file is written in place, replaced by a rename *)
(* over it, or removed.                                                    *)
(***************************************************************************)
Change(c) ==
  /\ mtime < MaxWrites
  /\ mtime' = mtime + 1
  /\ content' = c
  /\ UNCHANGED <<backend, watchvars, pending_reload>>

Notified == IF backend = "inotify" /\ inode = "watched" /\ wpc # "new"
            THEN "event" ELSE kernel

WriteFile ==
  /\ content # Missing
  /\ \E c \in Contents : Change(c)
  /\ kernel' = Notified
  /\ UNCHANGED inode

(* The kernel reports the end of the watch itself, once. *)
ReplaceFile ==
  /\ \E c \in Contents \cup {Missing} : Change(c)
  /\ inode' = IF wpc = "new" THEN "watched" ELSE "other"
  /\ kernel' = Notified

(***************************************************************************)
(* ConfigWatcher::start, and the two loops.                                *)
(***************************************************************************)
Mtime == IF content = Missing THEN None ELSE mtime

(* The baseline is what the file is when the watcher starts, not what the   *)
(* engine loaded.  A file that is missing cannot be given to inotify, and  *)
(* the loop degrades to polling.                                           *)
StartWatcher ==
  /\ wpc = "new"
  /\ wpc' = "look"
  /\ last_mtime' = Mtime
  /\ baseline' = mtime
  /\ backend' = IF content = Missing THEN "polling" ELSE backend
  /\ UNCHANGED <<filevars, reload_pending, settled, loaded, pending_reload>>

Mark ==
  /\ last_mtime' = Mtime
  /\ reload_pending' = TRUE
  /\ settled' = FALSE

(* watcher_loop: a file that has appeared or whose time differs. *)
PollFile ==
  /\ wpc = "look" /\ backend = "polling"
  /\ wpc' = "flush"
  /\ \/ content # Missing /\ last_mtime # mtime /\ Mark
     \/ content # Missing /\ last_mtime = mtime
          /\ UNCHANGED <<last_mtime, reload_pending, settled>>
     \/ content = Missing /\ last_mtime' = None /\ reload_pending' = FALSE
          /\ UNCHANGED settled
  /\ UNCHANGED <<backend, filevars, loaded, baseline, pending_reload>>

(* watcher_loop_native_inotify: events are matched by watch descriptor and  *)
(* their kind is not looked at.                                            *)
ReadEvents ==
  /\ wpc = "look" /\ backend = "inotify"
  /\ wpc' = "flush"
  /\ kernel' = "nothing"
  /\ IF kernel = "event" THEN Mark
     ELSE UNCHANGED <<last_mtime, reload_pending, settled>>
  /\ UNCHANGED <<backend, content, mtime, inode, loaded, baseline, pending_reload>>

DebounceElapses ==
  /\ reload_pending /\ ~settled
  /\ settled' = TRUE
  /\ UNCHANGED <<backend, filevars, wpc, last_mtime, reload_pending, loaded,
                 baseline, pending_reload>>

(* flush_pending_reloads: pending is cleared under the lock, the callback   *)
(* runs outside it.                                                        *)
FlushPending ==
  /\ wpc = "flush"
  /\ IF reload_pending /\ settled
     THEN wpc' = "load" /\ reload_pending' = FALSE /\ settled' = FALSE
     ELSE wpc' = "look" /\ UNCHANGED <<reload_pending, settled>>
  /\ UNCHANGED <<backend, filevars, last_mtime, loaded, baseline, pending_reload>>

(* The callback: a file that cannot be read or parsed is only recorded. *)
LoadFile ==
  /\ wpc = "load"
  /\ IF Good(content) THEN wpc' = "queue" /\ loaded' = content
                      ELSE wpc' = "look" /\ UNCHANGED loaded
  /\ UNCHANGED <<backend, filevars, last_mtime, reload_pending, settled,
                 baseline, pending_reload>>

(* Mutant: a configuration that waits is kept. *)
QueueConfigMutant ==
  /\ wpc = "queue"
  /\ wpc' = "look"
  /\ pending_reload' = IF pending_reload = None THEN loaded ELSE pending_reload
  /\ loaded' = None
  /\ UNCHANGED <<backend, filevars, last_mtime, reload_pending, settled, baseline>>

QueueConfig ==
  /\ wpc = "queue"
  /\ wpc' = "look"
  /\ pending_reload' = loaded
  /\ loaded' = None
  /\ UNCHANGED <<backend, filevars, last_mtime, reload_pending, settled, baseline>>

WatcherStep == PollFile \/ ReadEvents \/ FlushPending \/ LoadFile \/ QueueConfig
FileStep    == WriteFile \/ ReplaceFile

=============================================================================
