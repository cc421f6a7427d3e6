----------------------------- MODULE ShmRegion -----------------------------
(***************************************************************************)
(* The life of the shared-memory object of core/src/sink/shm.rs: producer  *)
(* processes that create, map, mark and unlink it, the engine shutdown     *)
(* that surrounds them (core/src/lib.rs), and `dologctl shm clear`.        *)
(* A region is named after the process that created it.  Pids are not      *)
(* reused.                                                                 *)
(***************************************************************************)
EXTENDS Integers

CONSTANTS MaxProcess, AutoCleanup, Forced

ASSUME ProcessAssumption == MaxProcess \in Nat \ {0}

VARIABLES
  name,       \* the region the path names, or 0
  header,     \* what each region says of its producer
  process,    \* the process that runs, or the last one that did
  running,    \* whether it runs
  sink,       \* its ShmSink: "new", "created", "open", "marked", "shut", "closed"
  mapped,     \* the handle: the region is mapped
  consumer,   \* the pipeline's consumer thread: "idle", "writing", "joined"
  tool,       \* `dologctl shm clear`: "idle" or "unlink"
  cleared     \* what the tool last did

regionvars == <<name, header, process, running, sink, mapped, consumer, tool, cleared>>

Processes == 1..MaxProcess
Zeroed == "zeroed"     \* flags and pid of a region not yet initialised
Alive  == "alive"
Dead   == "dead"

ShmRegionInit ==
  /\ name = 0 /\ header = [p \in Processes |-> Zeroed]
  /\ process = 1 /\ running = TRUE /\ sink = "new" /\ mapped = FALSE
  /\ consumer = "joined" /\ tool = "idle" /\ cleared = "nothing"

SinkStep(from, to) ==
  /\ running
  /\ sink = from
  /\ sink' = to
  /\ UNCHANGED <<process, running, tool, cleared>>

(* shm_open with O_EXCL: an object left behind makes the open fail, and     *)
(* Engine::init with it.                                                   *)
CreateRegion ==
  /\ SinkStep("new", "created")
  /\ name = 0
  /\ name' = process
  /\ mapped' = TRUE
  /\ UNCHANGED <<header, consumer>>

OpenFails ==
  /\ SinkStep("new", "closed")
  /\ name # 0
  /\ UNCHANGED <<name, header, mapped, consumer>>

(* ShmHeader::init, and open is set: the pipeline starts. *)
InitHeader ==
  /\ SinkStep("created", "open")
  /\ header' = [header EXCEPT ![process] = Alive]
  /\ consumer' = "idle"
  /\ UNCHANGED <<name, mapped>>

(* mirror_record_to_shm: open is checked and the pointer loaded, and the    *)
(* memory is written later.                                                *)
BeginWrite ==
  /\ SinkStep(sink, sink)
  /\ sink \in {"open", "marked"}
  /\ consumer = "idle"
  /\ consumer' = "writing"
  /\ UNCHANGED <<name, header, mapped>>

EndWrite ==
  /\ SinkStep(sink, sink)
  /\ consumer = "writing"
  /\ consumer' = "idle"
  /\ UNCHANGED <<name, header, mapped>>

(* Engine::shutdown joins the consumer thread ... *)
JoinPipeline ==
  /\ SinkStep("open", "open")
  /\ consumer = "idle"
  /\ consumer' = "joined"
  /\ UNCHANGED <<name, header, mapped>>

(* Mutant: the sink is closed while the consumer thread runs. *)
MarkDeadMutant ==
  /\ SinkStep("open", "marked")
  /\ header' = [header EXCEPT ![process] = Dead]
  /\ UNCHANGED <<name, mapped, consumer>>

(* ... and then closes the sink: dead in the header, open off, unmapped. *)
MarkDead ==
  /\ SinkStep("open", "marked")
  /\ consumer = "joined"
  /\ header' = [header EXCEPT ![process] = Dead]
  /\ UNCHANGED <<name, mapped, consumer>>

SetClosed ==
  /\ SinkStep("marked", "shut")
  /\ UNCHANGED <<name, header, mapped, consumer>>

(* destroy unmaps and unlinks the path, whatever it names; release only     *)
(* unmaps.                                                                 *)
DropMapping ==
  /\ SinkStep("shut", "closed")
  /\ mapped' = FALSE
  /\ name' = IF AutoCleanup THEN 0 ELSE name
  /\ UNCHANGED <<header, consumer>>

(* The process ends: by itself once the sink is closed, else it crashed and *)
(* nothing of the above ran.                                               *)
Exit ==
  /\ running
  /\ running' = FALSE
  /\ mapped' = FALSE
  /\ consumer' = "joined"
  /\ UNCHANGED <<name, header, process, sink, tool, cleared>>

Restart ==
  /\ ~running
  /\ process < MaxProcess
  /\ process' = process + 1
  /\ running' = TRUE
  /\ sink' = "new"
  /\ UNCHANGED <<name, header, mapped, consumer, tool, cleared>>

(* cmd_shm_clear: a snapshot of the header and of the process table decides *)
(* and the path is unlinked afterwards.  A zeroed header has pid 0, which   *)
(* counts as not alive.                                                    *)
ProcessAlive(p) == header[p] # Zeroed /\ running /\ process = p

ToolReads ==
  /\ tool = "idle"
  /\ cleared' = IF name = 0 THEN "already cleaned"
                ELSE IF header[name] = Dead \/ ~ProcessAlive(name) THEN "orphan"
                ELSE IF Forced THEN "forced" ELSE "aborted"
  /\ tool' = IF cleared' \in {"orphan", "forced"} THEN "unlink" ELSE "idle"
  /\ UNCHANGED <<name, header, process, running, sink, mapped, consumer>>

ToolUnlinks ==
  /\ tool = "unlink"
  /\ tool' = "idle"
  /\ name' = 0
  /\ UNCHANGED <<header, process, running, sink, mapped, consumer, cleared>>

ShmRegionNext ==
  \/ CreateRegion \/ OpenFails \/ InitHeader \/ BeginWrite \/ EndWrite
  \/ JoinPipeline \/ MarkDead \/ SetClosed \/ DropMapping \/ Exit \/ Restart
  \/ ToolReads \/ ToolUnlinks

ShmRegionSpec == ShmRegionInit /\ [][ShmRegionNext]_regionvars

(***************************************************************************)
(* Properties.                                                             *)
(***************************************************************************)

(* "No writer races the close" (lib.rs:897): the consumer thread never      *)
(* writes through a pointer to a region that has been unmapped or declared *)
(* dead, and a region whose producer closed it in order says so.           *)
NoWriterRacesTheClose ==
  /\ consumer = "writing" => mapped /\ header[process] = Alive
  /\ sink \in {"marked", "shut"} => header[process] = Dead
  /\ sink = "closed" /\ header[process] # Zeroed => header[process] = Dead

(* "shm clear: requires producer DEAD or --force" (OperationsManual.md):    *)
(* without --force the tool never takes the path from a live producer.     *)
ClearSparesTheLiving ==
  [][ToolUnlinks /\ ~Forced => name = 0 \/ header[name] = Dead \/ ~running
                                \/ process # name]_regionvars

=============================================================================
