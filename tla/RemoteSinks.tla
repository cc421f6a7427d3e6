---------------------------- MODULE RemoteSinks ----------------------------
(***************************************************************************)
(* The sinks that send records away: OtelSink (open_telemetry.rs),         *)
(* WebhookSink (webhook.rs), KafkaSink (kafka.rs), SyslogSink over TCP     *)
(* (syslog.rs) and SqliteSink (sqlite.rs), all in core/src/sink.  A call   *)
(* holds the sink until it returns; a request may reach the other side     *)
(* and its answer be lost, which the sink cannot tell from a request that  *)
(* was not delivered.  Payloads are sequences of records, which are        *)
(* numbered as they are written.                                           *)
(***************************************************************************)
EXTENDS Integers, Sequences, SequencesExt, FiniteSetsExt

CONSTANTS
  SinkKinds,        \* among "otel", "webhook", "kafka", "syslog" and "sqlite"
  batch_size,       \* of OtelSink; 0 and 1 both send at once
  max_retries,      \* of OtelSink and WebhookSink
  max_rows,         \* max_records of SqliteSink; 0: nothing is pruned
  MaxRecords        \* bound on the records written

ASSUME RemoteAssumption == max_retries \in Nat /\ max_rows \in Nat

VARIABLES
  remote_sink,      \* the kind of sink
  remote_open,      \* there is an agent, a producer, a stream or a connection
  broken,           \* SyslogSink: the stream it keeps is broken
  batch,            \* OtelSink: what has not been sent
  payload,          \* the request under way; empty: no call is
  remote_attempts,  \* the attempts of the request that failed
  closing,          \* the request is part of close
  accepted,         \* records_exported, records_sent or records_written
  remote_written,   \* the number of records written
  received,         \* what the other side has, in order
  answered          \* history: the records whose request was answered

remotevars == <<remote_sink, remote_open, broken, batch, payload, remote_attempts,
                closing, accepted, remote_written, received, answered>>

RemoteInit ==
  /\ remote_sink \in SinkKinds
  /\ remote_open = FALSE /\ broken = FALSE /\ closing = FALSE
  /\ batch = <<>> /\ payload = <<>>
  /\ remote_attempts = 0 /\ accepted = 0 /\ remote_written = 0
  /\ received = <<>> /\ answered = {}

NoCall == payload = <<>>
Retries == IF remote_sink \in {"otel", "webhook"} THEN max_retries ELSE 0

(* Opening an open sink replaces its stream. *)
RemoteOpen ==
  /\ NoCall /\ (~remote_open \/ broken)
  /\ remote_open' = TRUE /\ broken' = FALSE
  /\ UNCHANGED <<remote_sink, batch, payload, remote_attempts, closing, accepted,
                 remote_written, received, answered>>

(* flush_batch: the batch is cleared before it is sent. *)
BeginSend(records) ==
  /\ batch' = <<>> /\ payload' = records /\ remote_attempts' = 0

(* write, and write_batch of OtelSink, which sends at once.  What is        *)
(* written to a sink that is not open is lost: SyslogSink reports success, *)
(* the others Closed.                                                      *)
RemoteWrite(at_once) ==
  LET due == Append(batch, remote_written + 1) IN
  /\ NoCall /\ remote_written < MaxRecords
  /\ at_once => remote_sink = "otel"
  /\ remote_written' = remote_written + 1
  /\ IF ~remote_open THEN UNCHANGED <<batch, payload, remote_attempts>>
     ELSE IF remote_sink # "otel" \/ at_once \/ Len(due) >= batch_size THEN BeginSend(due)
     ELSE batch' = due /\ UNCHANGED <<payload, remote_attempts>>
  /\ UNCHANGED <<remote_sink, remote_open, broken, closing, accepted, received,
                 answered>>

(* A batch is what flush and close send first. *)
RemoteFlush ==
  /\ NoCall /\ remote_open /\ batch # <<>>
  /\ BeginSend(batch)
  /\ closing' \in BOOLEAN
  /\ UNCHANGED <<remote_sink, remote_open, broken, accepted, remote_written,
                 received, answered>>

RemoteClose ==
  /\ NoCall /\ remote_open /\ batch = <<>>
  /\ remote_open' = FALSE /\ broken' = FALSE
  /\ UNCHANGED <<remote_sink, batch, payload, remote_attempts, closing, accepted,
                 remote_written, received, answered>>

(* SqliteSink.write_record prunes each time max_records more are written.  *)
Kept(records) ==
  IF remote_sink = "sqlite" /\ max_rows > 0 /\ (accepted + 1) % max_rows = 0
  THEN SubSeq(records, Max({1, Len(records) - max_rows + 1}), Len(records))
  ELSE records

(* The request is delivered and answered; a close that waited for it ends. *)
Answered ==
  /\ ~NoCall /\ ~broken
  /\ received' = Kept(received \o payload)
  /\ accepted' = accepted + Len(payload)
  /\ answered' = answered \cup ToSet(payload)
  /\ payload' = <<>> /\ closing' = FALSE
  /\ remote_open' = ~closing
  /\ UNCHANGED <<remote_sink, broken, batch, remote_attempts, remote_written>>

(* An attempt fails, whether the request was delivered or not; the last     *)
(* one fails the call, and a close leaves the sink open.                   *)
AttemptFails(delivered) ==
  /\ ~NoCall
  /\ delivered => ~broken /\ remote_sink \in {"otel", "webhook", "kafka"}
  /\ received' = IF delivered THEN received \o payload ELSE received
  /\ broken' = (broken \/ remote_sink = "syslog")
  /\ IF remote_attempts < Retries
     THEN remote_attempts' = remote_attempts + 1 /\ UNCHANGED <<payload, closing>>
     ELSE payload' = <<>> /\ closing' = FALSE /\ UNCHANGED remote_attempts
  /\ UNCHANGED <<remote_sink, remote_open, batch, accepted, remote_written, answered>>

(* WebhookSink does not retry what the server refuses. *)
Refused ==
  /\ ~NoCall /\ remote_sink = "webhook"
  /\ payload' = <<>>
  /\ UNCHANGED <<remote_sink, remote_open, broken, batch, remote_attempts, closing,
                 accepted, remote_written, received, answered>>

(* SyslogSink: what was written to the stream does not arrive. *)
SentInVain ==
  /\ ~NoCall /\ remote_sink = "syslog" /\ ~broken
  /\ payload' = <<>>
  /\ UNCHANGED <<remote_sink, remote_open, broken, batch, remote_attempts, closing,
                 accepted, remote_written, received, answered>>

RemoteNext ==
  \/ RemoteOpen \/ RemoteClose \/ RemoteFlush
  \/ \E at_once \in BOOLEAN : RemoteWrite(at_once)
  \/ Answered \/ Refused \/ SentInVain
  \/ \E delivered \in BOOLEAN : AttemptFails(delivered)

RemoteSpec == RemoteInit /\ [][RemoteNext]_remotevars

(***************************************************************************)
(* Properties.                                                             *)
(***************************************************************************)

Places(records, rec) == {i \in DOMAIN records : records[i] = rec}

(* Retries repeat a payload and failures drop one, but nothing is           *)
(* reordered: each record is new when every earlier one has arrived for    *)
(* the first time, if at all; only the retries of one request repeat it;   *)
(* and what was answered is there, and counted, once a table is not pruned.*)
ExportsAreOrdered ==
  /\ \A i, j \in DOMAIN received :
       i < j /\ received[i] > received[j] =>
         \E k \in 1..i : received[k] = received[j]
  /\ \A rec \in ToSet(received) : Cardinality(Places(received, rec)) <= Retries + 1
  /\ remote_sink # "sqlite" \/ max_rows = 0 => answered \subseteq ToSet(received)
  /\ accepted = Cardinality(answered)

=============================================================================
