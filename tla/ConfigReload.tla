---------------------------- MODULE ConfigReload ----------------------------
(***************************************************************************)
(* Hot reload of the engine's configuration (core/src/lib.rs): the thread  *)
(* that owns the engine polls for configurations, which the watcher queues *)
(* and the control plane asks for, and applies them step by step.          *)
(* A configuration is [level, sinks, ring]: ring stands for the structural *)
(* settings, and the sinks BadSinks cannot be opened.                      *)
(***************************************************************************)
EXTENDS ConfigWatcher, ControlPlane, TLAPS

CONSTANTS BadSinks

Whole(c) == c = [level |-> c.level, sinks |-> c.sinks, ring |-> c.ring]

ASSUME ContentsAssumption == \A c \in Contents : Good(c) => Whole(c)

VARIABLES
  config,         \* Engine::config
  sink,           \* what the pipeline writes to: the fan-out swapped in last
  opened,         \* the fan-outs that are open, by the reload that opened them
  min_ring,       \* the ring the pipeline was built with
  epoch,          \* HotReloadManager: the next epoch to allocate
  shown_epoch,    \* the epoch /status reports
  history,        \* the outcome of every reload begun
  opc,            \* the owner thread
  flag, next, restart,      \* its locals
  running,        \* before Engine::shutdown
  overlap         \* a level request met a reload half done

enginevars == <<config, sink, opened, min_ring, epoch, shown_epoch, history,
                opc, flag, next, restart, running, overlap>>
reloadvars == <<watchervars, controlvars, enginevars>>

ReloadInit ==
  /\ WatcherInit
  /\ content.sinks # BadSinks
  /\ ControlInit(content.level)
  /\ config = content
  /\ sink = [id |-> 0, sinks |-> content.sinks] /\ opened = {0}
  /\ min_ring = content.ring
  /\ epoch = 1 /\ shown_epoch = 1 /\ history = <<>>
  /\ opc = "idle" /\ flag = FALSE /\ next = None /\ restart = FALSE
  /\ running = TRUE /\ overlap = FALSE

OwnerStep(from, to) ==
  /\ opc = from
  /\ opc' = to
  /\ overlap' = (overlap \/ (to # "idle" /\ cpc = "display"))
  /\ UNCHANGED <<watchervars, policy, runtime_level, errors, reload_requests,
                 reloads, cpc, clevel, served, status, min_ring, running>>

(***************************************************************************)
(* Engine::poll_config_reload.                                             *)
(***************************************************************************)
Reload == <<config, sink, opened, epoch, shown_epoch, history, restart>>

PollFlag ==
  /\ running
  /\ opc = "idle" /\ opc' = "take"
  /\ flag' = reload_requested
  /\ reload_requested' = FALSE
  /\ UNCHANGED <<watchervars, policy, runtime_level, errors, reload_requests,
                 reloads, cpc, clevel, served, status, Reload, min_ring, next,
                 running, overlap>>

(* A pending configuration is taken first, and the request is used up. *)
TakePending ==
  /\ opc = "take"
  /\ next' = pending_reload
  /\ pending_reload' = None
  /\ flag' = FALSE
  /\ opc' = IF pending_reload # None THEN "begin" ELSE IF flag THEN "load" ELSE "idle"
  /\ UNCHANGED <<backend, filevars, watchvars, controlvars, Reload, min_ring,
                 running, overlap>>

LoadRequested ==
  /\ opc = "load"
  /\ IF Good(content)
     THEN opc' = "begin" /\ next' = content /\ UNCHANGED errors
     ELSE opc' = "idle" /\ errors' = errors + 1 /\ UNCHANGED next
  /\ UNCHANGED <<watchervars, policy, runtime_level, reload_requested,
                 reload_requests, reloads, cpc, clevel, served, status, Reload,
                 min_ring, flag, running, overlap>>

(* Mutant: the new structural settings are kept. *)
BeginReloadMutant ==
  /\ opc = "begin" /\ opc' = "open"
  /\ epoch' = epoch + 1
  /\ shown_epoch' = epoch
  /\ reloads' = reloads + 1
  /\ restart' = (next.ring # config.ring)
  /\ UNCHANGED <<watchervars, policy, runtime_level, reload_requested, errors,
                 reload_requests, cpc, clevel, served, status, config, sink,
                 opened, min_ring, history, flag, next, running, overlap>>

(***************************************************************************)
(* Engine::reload_config.  The epoch is the counter before the increment.  *)
(***************************************************************************)
BeginReload ==
  /\ opc = "begin" /\ opc' = "open"
  /\ epoch' = epoch + 1
  /\ shown_epoch' = epoch
  /\ reloads' = reloads + 1
  /\ next' = [next EXCEPT !.ring = config.ring]
  /\ restart' = (next.ring # config.ring)
  /\ UNCHANGED <<watchervars, policy, runtime_level, reload_requested, errors,
                 reload_requests, cpc, clevel, served, status, config, sink,
                 opened, min_ring, history, flag, running, overlap>>

Complete(success) == history' = Append(history, [epoch |-> shown_epoch, ok |-> success])

(* Mutant: a reload that fails is not recorded. *)
OpenSinksMutant ==
  /\ opc = "open"
  /\ UNCHANGED <<reload_requested, config, sink, epoch, shown_epoch, flag,
                 restart, history>>
  /\ IF next.sinks = BadSinks
     THEN OwnerStep("open", "idle") /\ next' = None /\ UNCHANGED opened
     ELSE OwnerStep("open", "swap") /\ opened' = opened \cup {shown_epoch}
            /\ UNCHANGED next

(* All children of the new fan-out are opened, or the reload ends here. *)
OpenSinks ==
  /\ opc = "open"
  /\ UNCHANGED <<reload_requested, config, sink, epoch, shown_epoch, flag, restart>>
  /\ IF next.sinks = BadSinks
     THEN /\ OwnerStep("open", "idle")
          /\ Complete(FALSE)
          /\ next' = None
          /\ UNCHANGED opened
     ELSE /\ OwnerStep("open", "swap")
          /\ opened' = opened \cup {shown_epoch}
          /\ UNCHANGED <<history, next>>

(* SinkRef::swap under the write lock, the old fan-out closed after it. *)
SwapSink ==
  /\ OwnerStep("swap", "policy")
  /\ sink' = [id |-> shown_epoch, sinks |-> next.sinks]
  /\ opened' = opened \ {sink.id}
  /\ config' = next
  /\ UNCHANGED <<reload_requested, epoch, shown_epoch, history, flag, next,
                 restart>>

SetPolicy ==
  /\ opc = "policy" /\ opc' = "level"
  /\ policy' = config.level
  /\ overlap' = (overlap \/ cpc = "display")
  /\ UNCHANGED <<watchervars, runtime_level, reload_requested, errors,
                 reload_requests, reloads, cpc, clevel, served, status, Reload,
                 min_ring, flag, next, running>>

(* Mutant: the reported level is left as it was. *)
SetLevelMutant ==
  /\ opc = "level" /\ opc' = "idle"
  /\ Complete(~restart)
  /\ next' = None /\ restart' = FALSE
  /\ overlap' = (overlap \/ cpc = "display")
  /\ UNCHANGED <<watchervars, policy, runtime_level, reload_requested, errors,
                 reload_requests, reloads, cpc, clevel, served, status, config,
                 sink, opened, epoch, shown_epoch, min_ring, flag, running>>

SetLevel ==
  /\ opc = "level" /\ opc' = "idle"
  /\ runtime_level' = config.level
  /\ Complete(~restart)
  /\ next' = None /\ restart' = FALSE
  /\ overlap' = (overlap \/ cpc = "display")
  /\ UNCHANGED <<watchervars, policy, reload_requested, errors, reload_requests,
                 reloads, cpc, clevel, served, status, config, sink, opened,
                 epoch, shown_epoch, min_ring, flag, running>>

(* Engine::shutdown stops the listener and the watcher, discards what waits *)
(* and closes the sinks at the end of the pipeline's last drain.           *)
Shutdown ==
  /\ running /\ opc = "idle" /\ cpc = "idle" /\ wpc \in {"new", "look"}
  /\ running' = FALSE
  /\ pending_reload' = None
  /\ opened' = opened \ {sink.id}
  /\ UNCHANGED <<backend, filevars, watchvars, controlvars, config, sink,
                 min_ring, epoch, shown_epoch, history, opc, flag, next, restart,
                 overlap>>

Owner == PollFlag \/ TakePending \/ LoadRequested \/ BeginReload \/ OpenSinks
           \/ SwapSink \/ SetPolicy \/ SetLevel

ReloadNext ==
  \/ FileStep /\ UNCHANGED <<controlvars, enginevars>>
  \/ running /\ (StartWatcher \/ WatcherStep \/ DebounceElapses)
       /\ UNCHANGED <<controlvars, enginevars>>
  \/ running /\ ControlStep /\ UNCHANGED <<watchervars, config, sink, opened,
         min_ring, epoch, shown_epoch, history, opc, flag, next, restart, running>>
       /\ overlap' = (overlap \/ opc \in {"policy", "level"})
  \/ Owner
  \/ Shutdown

(* The watcher's loop and its debounce clock run, and the host polls: the   *)
(* engine reloads only when its owner calls poll_config_reload.            *)
ReloadFairness ==
  /\ WF_reloadvars(/\ running /\ (StartWatcher \/ WatcherStep)
                   /\ UNCHANGED <<controlvars, enginevars>>)
  /\ WF_reloadvars(running /\ DebounceElapses /\ UNCHANGED <<controlvars,
                                                             enginevars>>)
  /\ WF_reloadvars(Owner)

ReloadSpec == ReloadInit /\ [][ReloadNext]_reloadvars /\ ReloadFairness

(***************************************************************************)
(* Properties.                                                             *)
(***************************************************************************)
AtRest == opc = "idle" /\ cpc = "idle"

(* Whatever a reload did, between reloads the pipeline writes to the sinks  *)
(* of the stored configuration, these and no others are open, and the      *)
(* structural settings are those the pipeline was built with.              *)
ReloadIsAllOrNothing ==
  opc = "idle" =>
    /\ sink.sinks = config.sinks
    /\ opened = (IF running THEN {sink.id} ELSE {})
    /\ config.ring = min_ring
    /\ config.sinks # BadSinks

(* /status reports the level the pre-filter uses, unless a level request    *)
(* and a reload have overlapped.                                           *)
ReportedLevelIsReal == AtRest /\ ~overlap => policy = runtime_level

(* Every reload begun is recorded, once, under an epoch of its own and in   *)
(* their order.                                                            *)
EveryReloadIsRecorded ==
  /\ \A i, j \in DOMAIN history : i < j => history[i].epoch < history[j].epoch
  /\ opc = "idle" => Len(history) = epoch - 1

Effective(c) == [c EXCEPT !.ring = min_ring]

(* A configuration that stays in the file is the one the engine ends up     *)
(* with, if the file changed after the watcher started, the watcher polls, *)
(* its sinks can be opened and nobody sets the level by hand.              *)
LastWriteIsApplied ==
  <>[](running /\ backend = "polling" /\ wpc # "new" /\ Good(content)
         /\ content.sinks # BadSinks /\ mtime # baseline
       => config = Effective(content))

(* The same for inotify: "behaviour is uniform regardless of backend"       *)
(* (watcher.rs:26).                                                        *)
UniformBackends ==
  <>[](running /\ wpc # "new" /\ Good(content) /\ content.sinks # BadSinks /\ mtime # baseline
       => config = Effective(content))

(***************************************************************************)
(* Proofs, for every set of contents and requests and every bound.  Beyond *)
(* the properties the invariant says what a reload half done has prepared: *)
(* its epoch is the last one allocated and newer than that of the sinks in *)
(* use, and what it is about to apply is a whole configuration.            *)
(***************************************************************************)
Outcome == [epoch : Nat, ok : BOOLEAN]

Begun == opc \in {"open", "swap", "policy", "level"}

ReloadTypes ==
  /\ opc \in {"idle", "take", "load", "begin", "open", "swap", "policy", "level"}
  /\ epoch \in Nat \ {0} /\ shown_epoch \in Nat
  /\ restart \in BOOLEAN /\ history \in Seq(Outcome)

SourcesInv ==
  /\ content \in Contents \cup {Missing}
  /\ wpc = "queue" => Whole(loaded)
  /\ pending_reload # None => Whole(pending_reload)
  /\ opc = "begin" => Whole(next)

SinksInv ==
  /\ opc # "idle" => running
  /\ sink.id \in Nat /\ sink.id < epoch
  /\ sink.sinks = config.sinks /\ config.sinks # BadSinks
  /\ config.ring = min_ring
  /\ opc \in {"open", "swap"} => next.ring = min_ring /\ sink.id < shown_epoch
  /\ opc = "swap" => next.sinks # BadSinks
  /\ opened = (IF opc = "swap" THEN {sink.id, shown_epoch}
               ELSE IF running THEN {sink.id} ELSE {})

HistoryInv ==
  /\ \A i \in 1 .. Len(history) : history[i].epoch = i
  /\ Begun => shown_epoch = epoch - 1 /\ Len(history) = epoch - 2
  /\ ~Begun => Len(history) = epoch - 1

LevelInv ==
  ~overlap =>
    /\ cpc = "display" => policy = clevel /\ opc \notin {"policy", "level"}
    /\ cpc # "display" /\ opc # "level" => policy = runtime_level
    /\ opc = "level" => policy = config.level

ReloadInv == ReloadTypes /\ SourcesInv /\ SinksInv /\ HistoryInv /\ LevelInv

LEMMA AppendOutcome ==
  ASSUME NEW h \in Seq(Outcome), NEW e \in Nat, NEW b \in BOOLEAN
  PROVE  LET o == [epoch |-> e, ok |-> b]
         IN  /\ Append(h, o) \in Seq(Outcome)
             /\ Len(Append(h, o)) = Len(h) + 1
             /\ \A i \in 1 .. Len(h) : Append(h, o)[i] = h[i]
             /\ Append(h, o)[Len(h) + 1] = o
  BY DEF Outcome

LEMMA CompleteRecords ==
  ASSUME ReloadTypes, HistoryInv, Begun, NEW b \in BOOLEAN, Complete(b)
  PROVE  /\ history' \in Seq(Outcome)
         /\ Len(history') = epoch - 1
         /\ \A i \in 1 .. Len(history') : history'[i].epoch = i
  <1> DEFINE o == [epoch |-> shown_epoch, ok |-> b]
  <1>1. /\ history \in Seq(Outcome) /\ Len(history) \in Nat
        /\ Len(history) = epoch - 2 /\ shown_epoch = epoch - 1
        /\ shown_epoch \in Nat /\ epoch \in Nat
        /\ history' = Append(history, o)
    BY DEF ReloadTypes, HistoryInv, Complete
  <1>2. /\ Append(history, o) \in Seq(Outcome)
        /\ Len(Append(history, o)) = Len(history) + 1
        /\ \A i \in 1 .. Len(history) : Append(history, o)[i] = history[i]
        /\ Append(history, o)[Len(history) + 1] = o
    BY <1>1, AppendOutcome
  <1>3. o.epoch = shown_epoch
    OBVIOUS
  <1> HIDE DEF o
  <1>4. \A i \in 1 .. Len(history) : history[i].epoch = i
    BY DEF HistoryInv
  <1> QED BY <1>1, <1>2, <1>3, <1>4

LEMMA InitHolds == ReloadInit => ReloadInv
  <1> SUFFICES ASSUME ReloadInit PROVE ReloadInv
    OBVIOUS
  <1>1. ReloadTypes
    <2>1. history \in Seq(Outcome)
      BY DEF ReloadInit
    <2>2. restart \in BOOLEAN
      BY DEF ReloadInit
    <2> QED BY <2>1, <2>2 DEF ReloadInit, ReloadTypes
  <1>2. SourcesInv
    BY DEF ReloadInit, WatcherInit, SourcesInv
  <1>3. SinksInv
    BY DEF ReloadInit, SinksInv
  <1>4. HistoryInv
    BY DEF ReloadInit, HistoryInv, Begun
  <1>5. LevelInv
    BY DEF ReloadInit, ControlInit, LevelInv
  <1> QED BY <1>1, <1>2, <1>3, <1>4, <1>5 DEF ReloadInv

(* The steps of other threads leave the reload alone. *)
LEMMA FileAndWatcherKeep ==
  ASSUME ReloadInv, FileStep \/ StartWatcher \/ WatcherStep \/ DebounceElapses,
         UNCHANGED <<controlvars, enginevars>>
  PROVE  ReloadInv'
  <1>1. SourcesInv'
    <2> USE DEF ReloadInv, SourcesInv, enginevars, filevars, watchvars
    <2>1. CASE FileStep
      BY <2>1 DEF FileStep, WriteFile, ReplaceFile, Change
    <2>2. CASE StartWatcher
      BY <2>2 DEF StartWatcher
    <2>3. CASE PollFile
      BY <2>3 DEF PollFile
    <2>4. CASE ReadEvents
      BY <2>4 DEF ReadEvents
    <2>5. CASE FlushPending
      BY <2>5 DEF FlushPending
    <2>6. CASE LoadFile
      BY <2>6, ContentsAssumption DEF LoadFile, Good
    <2>7. CASE QueueConfig
      BY <2>7 DEF QueueConfig
    <2>8. CASE DebounceElapses
      BY <2>8 DEF DebounceElapses
    <2> QED BY <2>1, <2>2, <2>3, <2>4, <2>5, <2>6, <2>7, <2>8 DEF WatcherStep
  <1>2. ReloadTypes' /\ SinksInv' /\ HistoryInv' /\ LevelInv'
    BY DEF ReloadInv, ReloadTypes, SinksInv, HistoryInv, Begun, LevelInv,
           enginevars, controlvars
  <1> QED BY <1>1, <1>2 DEF ReloadInv

LEMMA ControlKeeps ==
  ASSUME ReloadInv, ControlStep, overlap' = (overlap \/ opc \in {"policy", "level"}),
         UNCHANGED <<watchervars, config, sink, opened, min_ring, epoch,
                     shown_epoch, history, opc, flag, next, restart, running>>
  PROVE  ReloadInv'
  <1>1. LevelInv'
    <2>1. ASSUME NEW q \in Requests, Refuse(q) PROVE LevelInv'
      BY <2>1 DEF Refuse, Answer, ReloadInv, LevelInv
    <2>2. ASSUME NEW q \in Requests, Report(q) PROVE LevelInv'
      BY <2>2 DEF Report, Answer, ReloadInv, LevelInv
    <2>3. ASSUME NEW q \in Requests, ApplyLevel(q) PROVE LevelInv'
      BY <2>3 DEF ApplyLevel, Answer, ReloadInv, LevelInv
    <2>4. ASSUME NEW q \in Requests, RequestReload(q) PROVE LevelInv'
      BY <2>4 DEF RequestReload, Answer, ReloadInv, LevelInv
    <2>5. ASSUME NEW q \in Requests, ResetCounters(q) PROVE LevelInv'
      BY <2>5 DEF ResetCounters, Answer, ReloadInv, LevelInv
    <2>6. CASE StoreLevel
      BY <2>6 DEF StoreLevel, ReloadInv, LevelInv
    <2> QED BY <2>1, <2>2, <2>3, <2>4, <2>5, <2>6 DEF ControlStep
  <1>2. ReloadTypes' /\ SourcesInv' /\ SinksInv' /\ HistoryInv'
    BY DEF ReloadInv, ReloadTypes, SourcesInv, SinksInv, HistoryInv, Begun,
           watchervars, filevars, watchvars
  <1> QED BY <1>1, <1>2 DEF ReloadInv

(* The steps of the owner. *)
LEMMA PollKeeps ==
  ASSUME ReloadInv, PollFlag \/ TakePending \/ LoadRequested
  PROVE  ReloadInv'
  <1> USE DEF ReloadInv, Reload, watchervars, controlvars, filevars, watchvars
  <1>1. ReloadTypes'
    BY DEF ReloadTypes, PollFlag, TakePending, LoadRequested
  <1>2. SourcesInv'
    BY ContentsAssumption
       DEF SourcesInv, PollFlag, TakePending, LoadRequested, Good
  <1>3. SinksInv'
    BY DEF SinksInv, PollFlag, TakePending, LoadRequested
  <1>4. HistoryInv'
    BY DEF HistoryInv, Begun, PollFlag, TakePending, LoadRequested
  <1>5. LevelInv'
    BY DEF LevelInv, PollFlag, TakePending, LoadRequested
  <1> QED BY <1>1, <1>2, <1>3, <1>4, <1>5

LEMMA BeginKeeps == ASSUME ReloadInv, BeginReload PROVE ReloadInv'
  <1> USE DEF ReloadInv, BeginReload, watchervars, filevars, watchvars
  <1>1. next'.ring = config.ring
    BY DEF SourcesInv, Whole
  <1>2. ReloadTypes'
    <2>1. restart' \in BOOLEAN
      OBVIOUS
    <2> QED BY <2>1 DEF ReloadTypes
  <1>3. SourcesInv'
    BY DEF SourcesInv
  <1>4. SinksInv'
    BY <1>1 DEF SinksInv, ReloadTypes
  <1>5. HistoryInv'
    BY DEF HistoryInv, Begun, ReloadTypes
  <1>6. LevelInv'
    BY DEF LevelInv
  <1> QED BY <1>2, <1>3, <1>4, <1>5, <1>6

LEMMA OpenKeeps == ASSUME ReloadInv, OpenSinks PROVE ReloadInv'
  <1> USE DEF OpenSinks, OwnerStep, watchervars, filevars, watchvars
  <1>1. CASE next.sinks = BadSinks
    <2>1. /\ opc = "open" /\ opc' = "idle" /\ Complete(FALSE)
          /\ UNCHANGED <<opened, config, sink, epoch, shown_epoch, restart,
                         min_ring, running>>
      BY <1>1
    <2>2. Begun
      BY <2>1 DEF Begun
    <2>3. /\ history' \in Seq(Outcome)
          /\ Len(history') = epoch - 1
          /\ \A i \in 1 .. Len(history') : history'[i].epoch = i
      BY <2>1, <2>2, CompleteRecords DEF ReloadInv
    <2>4. ReloadTypes' /\ HistoryInv'
      BY <2>1, <2>3 DEF ReloadInv, ReloadTypes, HistoryInv, Begun
    <2>5. SourcesInv'
      BY <1>1, <2>1 DEF ReloadInv, SourcesInv
    <2>6. SinksInv'
      BY <2>1 DEF ReloadInv, SinksInv
    <2>7. LevelInv'
      BY <1>1 DEF ReloadInv, LevelInv
    <2> QED BY <2>4, <2>5, <2>6, <2>7 DEF ReloadInv
  <1>2. CASE next.sinks # BadSinks
    <2>1. ReloadTypes' /\ HistoryInv'
      BY <1>2 DEF ReloadInv, ReloadTypes, HistoryInv, Begun
    <2>2. SourcesInv'
      BY <1>2 DEF ReloadInv, SourcesInv
    <2>3. SinksInv'
      BY <1>2 DEF ReloadInv, SinksInv
    <2>4. LevelInv'
      BY <1>2 DEF ReloadInv, LevelInv
    <2> QED BY <2>1, <2>2, <2>3, <2>4 DEF ReloadInv
  <1> QED BY <1>1, <1>2

LEMMA SwapKeeps == ASSUME ReloadInv, SwapSink PROVE ReloadInv'
  <1> USE DEF SwapSink, OwnerStep, watchervars, filevars, watchvars
  <1>1. ReloadTypes' /\ HistoryInv'
    BY DEF ReloadInv, ReloadTypes, HistoryInv, Begun
  <1>2. SourcesInv'
    BY DEF ReloadInv, SourcesInv
  <1>3. SinksInv'
    <2>1. sink' = [id |-> shown_epoch, sinks |-> next.sinks] /\ config' = next
      OBVIOUS
    <2>2. sink'.id = shown_epoch /\ sink'.sinks = next.sinks
      BY <2>1
    <2>3. /\ sink.id \in Nat /\ sink.id < shown_epoch /\ shown_epoch \in Nat
          /\ shown_epoch = epoch - 1 /\ epoch \in Nat
          /\ opened = {sink.id, shown_epoch} /\ running
          /\ next.sinks # BadSinks /\ next.ring = min_ring
      BY DEF ReloadInv, SinksInv, ReloadTypes, HistoryInv, Begun
    <2>4. opened' = {shown_epoch}
      BY <2>3
    <2> QED BY <2>1, <2>2, <2>3, <2>4 DEF SinksInv
  <1>4. LevelInv'
    BY DEF ReloadInv, LevelInv
  <1> QED BY <1>1, <1>2, <1>3, <1>4 DEF ReloadInv

LEMMA PolicyKeeps == ASSUME ReloadInv, SetPolicy PROVE ReloadInv'
  <1> USE DEF SetPolicy, Reload, watchervars, filevars, watchvars
  <1>1. ReloadTypes' /\ HistoryInv'
    BY DEF ReloadInv, ReloadTypes, HistoryInv, Begun
  <1>2. SourcesInv' /\ SinksInv'
    BY DEF ReloadInv, SourcesInv, SinksInv
  <1>3. LevelInv'
    BY DEF ReloadInv, LevelInv
  <1> QED BY <1>1, <1>2, <1>3 DEF ReloadInv

LEMMA LevelKeeps == ASSUME ReloadInv, SetLevel PROVE ReloadInv'
  <1> USE DEF SetLevel, watchervars, filevars, watchvars
  <1>1. Begun /\ Complete(~restart)
    BY DEF Begun
  <1>2. (~restart) \in BOOLEAN
    OBVIOUS
  <1>3. /\ history' \in Seq(Outcome)
        /\ Len(history') = epoch - 1
        /\ \A i \in 1 .. Len(history') : history'[i].epoch = i
    BY <1>1, <1>2, CompleteRecords DEF ReloadInv
  <1>4. ReloadTypes' /\ HistoryInv'
    BY <1>3 DEF ReloadInv, ReloadTypes, HistoryInv, Begun
  <1>5. SourcesInv' /\ SinksInv'
    BY DEF ReloadInv, SourcesInv, SinksInv
  <1>6. LevelInv'
    BY DEF ReloadInv, LevelInv
  <1> QED BY <1>4, <1>5, <1>6 DEF ReloadInv

LEMMA ShutdownKeeps == ASSUME ReloadInv, Shutdown PROVE ReloadInv'
  <1> USE DEF Shutdown, controlvars, filevars, watchvars
  <1>1. ReloadTypes' /\ HistoryInv'
    BY DEF ReloadInv, ReloadTypes, HistoryInv, Begun
  <1>2. SourcesInv' /\ SinksInv' /\ LevelInv'
    BY DEF ReloadInv, SourcesInv, SinksInv, LevelInv
  <1> QED BY <1>1, <1>2 DEF ReloadInv

LEMMA ReloadInvariance == ReloadInv /\ [ReloadNext]_reloadvars => ReloadInv'
  <1> SUFFICES ASSUME ReloadInv, [ReloadNext]_reloadvars PROVE ReloadInv'
    OBVIOUS
  <1>1. CASE UNCHANGED reloadvars
    BY <1>1 DEF reloadvars, watchervars, filevars, watchvars, controlvars,
                enginevars, ReloadInv, ReloadTypes, SourcesInv, SinksInv,
                HistoryInv, Begun, LevelInv
  <1>2. CASE ReloadNext
    <2>1. CASE Owner
      BY <2>1, PollKeeps, BeginKeeps, OpenKeeps, SwapKeeps, PolicyKeeps,
         LevelKeeps DEF Owner
    <2>2. CASE ~Owner
      BY <1>2, <2>2, FileAndWatcherKeep, ControlKeeps, ShutdownKeeps DEF ReloadNext
    <2> QED BY <2>1, <2>2
  <1> QED BY <1>1, <1>2

LEMMA ReloadIsSafe == ReloadSpec => []ReloadInv
  <1> QED BY InitHolds, ReloadInvariance, PTL DEF ReloadSpec

(* Between reloads the stored configuration is the one in use, whatever the *)
(* reloads before it met (Engine::reload_config).                          *)
THEOREM ReloadsAreWhole == ReloadSpec => []ReloadIsAllOrNothing
  <1>1. ReloadInv => ReloadIsAllOrNothing
    BY DEF ReloadInv, SinksInv, ReloadIsAllOrNothing
  <1> QED BY <1>1, ReloadIsSafe, PTL

(* The history holds each reload begun, in order, under its own epoch       *)
(* (HotReloadManager::complete_reload).                                    *)
THEOREM ReloadsAreRecorded == ReloadSpec => []EveryReloadIsRecorded
  <1>1. ReloadInv => EveryReloadIsRecorded
    <2> SUFFICES ASSUME ReloadInv PROVE EveryReloadIsRecorded
      OBVIOUS
    <2>1. history \in Seq(Outcome) /\ DOMAIN history = 1 .. Len(history)
      BY DEF ReloadInv, ReloadTypes
    <2>2. \A i, j \in DOMAIN history : i < j => history[i].epoch < history[j].epoch
      BY <2>1 DEF ReloadInv, HistoryInv
    <2>3. opc = "idle" => Len(history) = epoch - 1
      BY DEF ReloadInv, HistoryInv, Begun
    <2> QED BY <2>2, <2>3 DEF EveryReloadIsRecorded
  <1> QED BY <1>1, ReloadIsSafe, PTL

(* The level reported is the one in force, unless a level request and a     *)
(* reload have overlapped (the callbacks of the control plane).            *)
THEOREM LevelsAgree == ReloadSpec => []ReportedLevelIsReal
  <1>1. ReloadInv => ReportedLevelIsReal
    BY DEF ReloadInv, LevelInv, ReportedLevelIsReal, AtRest
  <1> QED BY <1>1, ReloadIsSafe, PTL

=============================================================================
