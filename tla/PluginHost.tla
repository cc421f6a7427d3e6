----------------------------- MODULE PluginHost -----------------------------
(***************************************************************************)
(* PluginManager (core/src/plugin/manager.rs) in the life of the engine    *)
(* (core/src/lib.rs): libraries are discovered, their plugins admitted and *)
(* initialised, and their functions resolved into the dispatch table which *)
(* the consumer thread of the pipeline calls without looking at the        *)
(* registry again.  A library stays mapped as long as some registered      *)
(* plugin holds it.  A signature is the key it was made with, Nil for no  *)
(* sidecar, or Corrupt.                                                    *)
(***************************************************************************)
EXTENDS Integers, Sequences, FiniteSets, Functions

CONSTANTS
  Libraries, Names, Keys, Nil, Corrupt,
  MaxQueued         \* bound on the records logged

VARIABLES
  image,            \* library -> [members, sidecar]: the names it offers, its signature
  trust_anchors, revoked, red_allowed,    \* dev_mode or allow_red_plugins
  plugins,          \* name -> [library, initialised, trust]
  undiscovered, uninitialised,
  host,             \* "loading", "running", "stopping", "joined", "failed", "gone"
  dispatch,         \* the names resolved
  queued,           \* records in the ring
  calling           \* the plugin whose function the consumer thread is in

hostvars == <<image, trust_anchors, revoked, red_allowed, plugins, undiscovered,
              uninitialised, host, dispatch, queued, calling>>

PluginHostInit ==
  /\ image \in [Libraries -> [members : {<<n>> : n \in Names} \cup {<<n, m>> : n, m \in Names},
                              sidecar : Keys \cup {Nil, Corrupt}]]
  /\ trust_anchors \in SUBSET Keys /\ revoked \in SUBSET Keys
  /\ red_allowed \in BOOLEAN
  /\ plugins = [n \in {} |-> Nil]
  /\ undiscovered = Libraries /\ uninitialised = {}
  /\ host = "loading" /\ dispatch = {} /\ queued = 0 /\ calling = Nil

(***************************************************************************)
(* determine_trust and register_plugin.                                    *)
(***************************************************************************)
Trust(library) ==
  LET key == image[library].sidecar IN
  IF trust_anchors = {} \/ key = Nil THEN "Red"
  ELSE IF key \in trust_anchors \ revoked THEN "Blue" ELSE "Invalid"

Admitted(library) ==
  Trust(library) = "Blue" \/ (Trust(library) = "Red" /\ red_allowed)

(* The members of a library are registered in order up to the first that is *)
(* refused: it exists already, its ABI is another one (the first `abi` members agree), *)
(* or its signature does not admit it.  Those before it stay.              *)
Registered(library, abi) ==
  LET m == image[library].members
      fresh(i) == m[i] \notin DOMAIN plugins /\ \A j \in 1..i-1 : m[j] # m[i]
  IN {m[i] : i \in {k \in 1..Len(m) : Admitted(library) /\ k <= abi /\
                                      \A j \in 1..k : fresh(j)}}

Discover ==
  /\ host = "loading"
  /\ \E library \in undiscovered, abi \in 0..2 :
       LET names == Registered(library, abi) IN
       /\ undiscovered' = undiscovered \ {library}
       /\ uninitialised' = uninitialised \cup names
       /\ plugins' = [n \in DOMAIN plugins \cup names |->
                        IF n \in names
                        THEN [library |-> library, initialised |-> FALSE,
                              trust |-> Trust(library)]
                        ELSE plugins[n]]
  /\ UNCHANGED <<image, trust_anchors, revoked, red_allowed, host, dispatch,
                 queued, calling>>

(* init_plugin: any result counts as initialised, a missing symbol does not. *)
InitPlugin ==
  /\ host = "loading" /\ undiscovered = {}
  /\ \E name \in uninitialised, found \in BOOLEAN :
       /\ uninitialised' = uninitialised \ {name}
       /\ plugins' = [plugins EXCEPT ![name].initialised = found]
  /\ UNCHANGED <<image, trust_anchors, revoked, red_allowed, undiscovered, host,
                 dispatch, queued, calling>>

(* resolve_dispatch takes every registered plugin, and the pipeline starts; *)
(* Engine::init may still fail behind it, and then drops the manager while *)
(* the consumer thread lives on.                                           *)
StartPipeline ==
  /\ host = "loading" /\ undiscovered = {} /\ uninitialised = {}
  /\ dispatch' = DOMAIN plugins
  /\ host' \in {"running", "failed"}
  /\ plugins' = IF host' = "failed" THEN [n \in {} |-> Nil] ELSE plugins
  /\ UNCHANGED <<image, trust_anchors, revoked, red_allowed, undiscovered, uninitialised,
                 queued, calling>>

(***************************************************************************)
(* The consumer thread, and the end of the engine.                         *)
(***************************************************************************)
Log ==
  /\ host = "running" /\ queued < MaxQueued
  /\ queued' = queued + 1
  /\ UNCHANGED <<image, trust_anchors, revoked, red_allowed, plugins, undiscovered,
                 uninitialised, host, dispatch, calling>>

Call ==
  /\ host # "joined" /\ host # "gone"
  /\ queued > 0 /\ calling = Nil
  /\ \E name \in dispatch : calling' = name
  /\ UNCHANGED <<image, trust_anchors, revoked, red_allowed, plugins, undiscovered,
                 uninitialised, host, dispatch, queued>>

Return ==
  /\ queued > 0 /\ (calling # Nil \/ dispatch = {})
  /\ calling' = Nil
  /\ queued' = queued - 1
  /\ UNCHANGED <<image, trust_anchors, revoked, red_allowed, plugins, undiscovered,
                 uninitialised, host, dispatch>>

BeginStop ==
  /\ host = "running"
  /\ host' = "stopping"
  /\ UNCHANGED <<image, trust_anchors, revoked, red_allowed, plugins, undiscovered,
                 uninitialised, dispatch, queued, calling>>

(* Mutant: the thread is told to stop and not joined. *)
JoinMutant ==
  /\ host = "stopping"
  /\ host' = "joined"
  /\ UNCHANGED <<image, trust_anchors, revoked, red_allowed, plugins, undiscovered,
                 uninitialised, dispatch, queued, calling>>

(* The consumer thread ends once it has drained the ring. *)
Join ==
  /\ host = "stopping" /\ queued = 0 /\ calling = Nil
  /\ host' = "joined"
  /\ UNCHANGED <<image, trust_anchors, revoked, red_allowed, plugins, undiscovered,
                 uninitialised, dispatch, queued, calling>>

(* dologger_shutdown drops the engine: shutdown_all, and every library is   *)
(* unmapped.                                                               *)
DropManager ==
  /\ host = "joined"
  /\ host' = "gone"
  /\ plugins' = [n \in {} |-> Nil]
  /\ UNCHANGED <<image, trust_anchors, revoked, red_allowed, undiscovered, uninitialised,
                 dispatch, queued, calling>>

PluginHostNext ==
  \/ Discover \/ InitPlugin \/ StartPipeline \/ Log \/ Call \/ Return
  \/ BeginStop \/ Join \/ DropManager

PluginHostSpec == PluginHostInit /\ [][PluginHostNext]_hostvars

(***************************************************************************)
(* Properties.                                                             *)
(***************************************************************************)

(* The consumer thread is never in a function of a library that has been    *)
(* unmapped, nor of one whose only signature is by a key that was revoked: *)
(* not while the engine stops, not after an initialisation that failed, and *)
(* not when one library of two that offer the same plugin was refused.     *)
DispatchIsLive ==
  calling # Nil =>
    /\ calling \in DOMAIN plugins
    /\ trust_anchors # {} => image[plugins[calling].library].sidecar
                               \in (trust_anchors \ revoked) \cup {Nil}

=============================================================================
