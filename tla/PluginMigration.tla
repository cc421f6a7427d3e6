--------------------------- MODULE PluginMigration ---------------------------
(***************************************************************************)
(* The state a plugin hands to its next version                            *)
(* (core/src/config/hot_reload.rs, HotReloadManager), for one plugin and   *)
(* threads that serialize, reload and roll back at once.  An epoch is      *)
(* taken from an atomic counter, the map of states is behind a mutex, and  *)
(* nothing holds the two together.                                         *)
(***************************************************************************)
EXTENDS Integers

CONSTANTS
  Reloaders,        \* threads
  MaxEpoch,         \* bound on the epochs
  SupportedFormat,  \* format_version 1
  NoState

VARIABLES
  epoch_counter,
  saved_state,      \* [epoch, format], or NoState
  step,             \* where each thread is
  ticket,           \* the epoch of the call under way
  state_epoch,      \* the epoch of the state it serializes
  migrated          \* history: [reload, state] for each reload that migrated one

migrationvars == <<epoch_counter, saved_state, step, ticket, state_epoch, migrated>>

MigrationInit ==
  /\ epoch_counter = 1
  /\ saved_state = NoState
  /\ step = [t \in Reloaders |-> "idle"]
  /\ ticket = [t \in Reloaders |-> 0] /\ state_epoch = [t \in Reloaders |-> 0]
  /\ migrated = {}

(* next_epoch returns the counter before the increment. *)
NextEpoch(t, from, to) ==
  /\ step[t] = from /\ epoch_counter < MaxEpoch
  /\ step' = [step EXCEPT ![t] = to]
  /\ epoch_counter' = epoch_counter + 1
  /\ UNCHANGED <<saved_state, migrated>>

(* serialize_state, alone or from reload_plugin with new data. *)
BeginSerialize(t) ==
  /\ \E from \in {"idle", "reload with data"} : NextEpoch(t, from, "serialize")
  /\ state_epoch' = [state_epoch EXCEPT ![t] = epoch_counter]
  /\ UNCHANGED ticket

Insert(t, format) ==
  /\ step[t] = "serialize"
  /\ saved_state' = [epoch |-> state_epoch[t], format |-> format]
  /\ step' = [step EXCEPT ![t] = "idle"]
  /\ UNCHANGED <<epoch_counter, ticket, state_epoch, migrated>>

BeginReload(t, to) ==
  /\ NextEpoch(t, "idle", to)
  /\ ticket' = [ticket EXCEPT ![t] = epoch_counter]
  /\ UNCHANGED state_epoch

(* get_state_for_reload. *)
MayMigrate(max_epoch) ==
  /\ saved_state # NoState
  /\ saved_state.epoch <= max_epoch
  /\ saved_state.format <= SupportedFormat

(* reload_plugin without new data: the saved state, or an error. *)
Migrate(t) ==
  /\ step[t] = "reload"
  /\ step' = [step EXCEPT ![t] = "idle"]
  /\ migrated' = IF MayMigrate(ticket[t])
                 THEN migrated \cup {[reload |-> ticket[t], state |-> saved_state.epoch]}
                 ELSE migrated
  /\ UNCHANGED <<epoch_counter, saved_state, ticket, state_epoch>>

(* rollback and clear_state remove it. *)
ClearState(t) ==
  /\ step[t] = "idle" /\ saved_state # NoState
  /\ saved_state' = NoState
  /\ UNCHANGED <<epoch_counter, step, ticket, state_epoch, migrated>>

MigrationNext ==
  \E t \in Reloaders :
    \/ BeginSerialize(t) \/ Migrate(t) \/ ClearState(t)
    \/ \E format \in 1..SupportedFormat + 1 : Insert(t, format)
    \/ \E to \in {"reload", "reload with data"} : BeginReload(t, to)

MigrationSpec == MigrationInit /\ [][MigrationNext]_migrationvars

-----------------------------------------------------------------------------

(* However threads serialize and reload at once, a reload migrates a state  *)
(* whose capture began before the reload did, never one a later call has   *)
(* put in its place meanwhile.                                             *)
StateIsFromBefore == \A m \in migrated : m.state < m.reload

=============================================================================
