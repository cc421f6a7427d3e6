---------------------------- MODULE SinkDispatch ----------------------------
(***************************************************************************)
(* Writing through an I/O pool: the consumer thread of                     *)
(* core/src/pipeline/scheduler.rs sends messages over a bounded channel to *)
(* a job of a ThreadPool (core/src/sys/thread_pool.rs) that owns the sink. *)
(* The engine itself passes no pool; this is Pipeline::new as a host of    *)
(* the crate can call it.  Records are numbered in the order of sending.   *)
(***************************************************************************)
EXTENDS Integers, Sequences

CONSTANTS
  Bound,            \* of the channel: 256 in the code
  MaxDispatch       \* bound on the records

VARIABLES
  shared_pool,      \* somebody else holds the pool as well
  channel,
  sink_tx,          \* the sender exists
  consumer_pc,      \* "run", "flush", "close", "drop_tx", "drop_pool", "ended"
  job,              \* "recv", "flush", "close", "done", "exit"
  sink_done,
  pool_closed,      \* the job channel of the pool is closed
  sent,             \* records dispatched so far
  sink_log,         \* history: what the sink was asked to do
  waiter            \* Pipeline::shutdown: "running", "join", "wait", "returned"

dispatchvars == <<shared_pool, channel, sink_tx, consumer_pc, job, sink_done, pool_closed,
                  sent, sink_log, waiter>>

DispatchInit ==
  /\ shared_pool \in BOOLEAN
  /\ channel = <<>> /\ sink_tx = TRUE /\ consumer_pc = "run" /\ job = "recv"
  /\ sink_done = FALSE /\ pool_closed = FALSE /\ sent = 0 /\ sink_log = <<>>
  /\ waiter = "running"

Consumer(from, to) == consumer_pc = from /\ consumer_pc' = to

(* send blocks while the channel is full. *)
Send(message) == Len(channel) < Bound /\ channel' = Append(channel, message)

DispatchWrite ==
  /\ Consumer("run", "run") /\ sent < MaxDispatch
  /\ Send(sent + 1)
  /\ sent' = sent + 1
  /\ UNCHANGED <<shared_pool, sink_tx, job, sink_done, pool_closed, sink_log,
                 waiter>>

(* The consumer sees the shutdown flag and has drained the ring. *)
StopConsumer ==
  /\ Consumer("run", "flush") /\ waiter = "join"
  /\ UNCHANGED <<shared_pool, channel, sink_tx, job, sink_done, pool_closed,
                 sent, sink_log, waiter>>

DispatchFlush ==
  /\ Consumer("flush", "close")
  /\ Send("flush")
  /\ UNCHANGED <<shared_pool, sink_tx, job, sink_done, pool_closed, sent,
                 sink_log, waiter>>

DispatchClose ==
  /\ Consumer("close", "drop_tx")
  /\ Send("close")
  /\ UNCHANGED <<shared_pool, sink_tx, job, sink_done, pool_closed, sent,
                 sink_log, waiter>>

(* Mutant: the fields are dropped in the other order. *)
DropSenderMutant ==
  /\ Consumer("drop_tx", "drop_pool") /\ pool_closed' = ~shared_pool
  /\ job = "exit"
  /\ sink_tx' = FALSE
  /\ UNCHANGED <<shared_pool, channel, job, sink_done, sent, sink_log, waiter>>

(* ConsumerCtx: sink_tx is declared, and dropped, before io_pool. *)
DropSender ==
  /\ Consumer("drop_tx", "drop_pool")
  /\ sink_tx' = FALSE
  /\ UNCHANGED <<shared_pool, channel, job, sink_done, pool_closed, sent,
                 sink_log, waiter>>

(* The last handle: ThreadPool::drop closes the channel of jobs and joins   *)
(* the workers.                                                            *)
ClosePool ==
  /\ consumer_pc = "drop_pool" /\ ~shared_pool /\ ~pool_closed
  /\ pool_closed' = TRUE
  /\ UNCHANGED <<shared_pool, channel, sink_tx, consumer_pc, job, sink_done,
                 sent, sink_log, waiter>>

DropPool ==
  /\ Consumer("drop_pool", "ended")
  /\ shared_pool \/ (pool_closed /\ job = "exit")
  /\ UNCHANGED <<shared_pool, channel, sink_tx, job, sink_done, pool_closed,
                 sent, sink_log, waiter>>

(* The job: a message at a time, an error is only counted; then, the        *)
(* channel being closed and empty, flush and close once more.              *)
Receive ==
  /\ job = "recv" /\ channel # <<>>
  /\ channel' = Tail(channel)
  /\ sink_log' = Append(sink_log, Head(channel))
  /\ UNCHANGED <<shared_pool, sink_tx, consumer_pc, job, sink_done, pool_closed,
                 sent, waiter>>

Disconnected ==
  /\ job = "recv" /\ channel = <<>> /\ ~sink_tx
  /\ job' = "done"
  /\ sink_log' = sink_log \o <<"flush", "close">>
  /\ UNCHANGED <<shared_pool, channel, sink_tx, consumer_pc, sink_done,
                 pool_closed, sent, waiter>>

FinishJob ==
  /\ job = "done" /\ ~sink_done
  /\ sink_done' = TRUE
  /\ UNCHANGED <<shared_pool, channel, sink_tx, consumer_pc, job, pool_closed,
                 sent, sink_log, waiter>>

(* Worker: the next job, or the end of the channel of jobs. *)
ExitWorker ==
  /\ job = "done" /\ sink_done /\ pool_closed
  /\ job' = "exit"
  /\ UNCHANGED <<shared_pool, channel, sink_tx, consumer_pc, sink_done, pool_closed, sent,
                 sink_log, waiter>>

(* Pipeline::shutdown; the wait for the job ends after five seconds too. *)
BeginShutdown ==
  /\ waiter = "running"
  /\ waiter' = "join"
  /\ UNCHANGED <<shared_pool, channel, sink_tx, consumer_pc, job, sink_done,
                 pool_closed, sent, sink_log>>

JoinConsumer ==
  /\ waiter = "join" /\ consumer_pc = "ended"
  /\ waiter' = "wait"
  /\ UNCHANGED <<shared_pool, channel, sink_tx, consumer_pc, job, sink_done,
                 pool_closed, sent, sink_log>>

ReturnFromShutdown ==
  /\ waiter = "wait"
  /\ waiter' = "returned"
  /\ UNCHANGED <<shared_pool, channel, sink_tx, consumer_pc, job, sink_done,
                 pool_closed, sent, sink_log>>

ConsumerStep ==
  StopConsumer \/ DispatchFlush \/ DispatchClose \/ DropSender \/ ClosePool \/ DropPool
WorkerStep == Receive \/ Disconnected \/ FinishJob \/ ExitWorker

DispatchNext ==
  \/ DispatchWrite \/ ConsumerStep \/ WorkerStep
  \/ BeginShutdown \/ JoinConsumer \/ ReturnFromShutdown

(***************************************************************************)
(* Properties.                                                             *)
(***************************************************************************)
WrittenThenClosed ==
  /\ sink_done
  /\ SubSeq(sink_log, 1, sent) = [i \in 1..sent |-> i]
  /\ Len(sink_log) = sent + 4

(* A shutdown ends, also when the consumer thread holds the last handle of  *)
(* the pool and joins the worker that waits for it, and every record was   *)
(* given to the sink in order before it was closed.                        *)
DispatchStops == waiter = "join" ~> (waiter = "returned" /\ WrittenThenClosed)

=============================================================================
