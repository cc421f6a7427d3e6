-------------------------- MODULE DependencyCheck --------------------------
(***************************************************************************)
(* DependencyValidator::validate (core/src/plugin/dependency.rs): the      *)
(* search for cycles, one step per neighbour looked at.  Hash maps and     *)
(* sets are walked in any order.  Each plugin provides the field of its    *)
(* own name: which plugin provides what matters only through the graph.    *)
(* in_stack holds the plugins of path.  Names are distinct.                *)
(***************************************************************************)
EXTENDS Integers, Sequences, SequencesExt, FiniteSets

CONSTANTS Plugins, Unprovided     \* a field that no plugin provides

ASSUME DependencyAssumption == Unprovided \notin Plugins

VARIABLES
  requires,
  visited, path,
  unexplored,       \* the neighbours each plugin of path has not looked at
  cycles            \* the chains reported

dependencyvars == <<requires, visited, path, unexplored, cycles>>

DependencyInit ==
  /\ requires \in [Plugins -> SUBSET (Plugins \cup {Unprovided})]
  /\ visited = {} /\ path = <<>> /\ unexplored = <<>> /\ cycles = {}

DependsOn(plugin) == (requires[plugin] \cap Plugins) \ {plugin}

Enter(plugin) ==
  /\ visited' = visited \cup {plugin}
  /\ path' = Append(path, plugin)
  /\ unexplored' = Append(unexplored, DependsOn(plugin))

Root ==
  /\ path = <<>>
  /\ \E plugin \in Plugins \ visited : DependsOn(plugin) # {} /\ Enter(plugin)
  /\ UNCHANGED <<requires, cycles>>

Neighbours == IF path = <<>> THEN {} ELSE Last(unexplored)
Looked(n) == ReplaceAt(unexplored, Len(path), Last(unexplored) \ {n})

Descend ==
  /\ \E n \in Neighbours :
       /\ n \notin visited
       /\ visited' = visited \cup {n}
       /\ path' = Append(path, n)
       /\ unexplored' = Append(Looked(n), DependsOn(n))
  /\ UNCHANGED <<requires, cycles>>

\* path.iter().position
Position(n) == CHOOSE i \in 1..Len(path) : path[i] = n

Meet ==
  /\ \E n \in Neighbours :
       /\ n \in visited
       /\ unexplored' = Looked(n)
       /\ cycles' = IF Contains(path, n)
                    THEN cycles \cup {SubSeq(path, Position(n), Len(path))}
                    ELSE cycles
  /\ UNCHANGED <<requires, visited, path>>

Backtrack ==
  /\ path # <<>> /\ Neighbours = {}
  /\ path' = Front(path) /\ unexplored' = Front(unexplored)
  /\ UNCHANGED <<requires, visited, cycles>>

DependencyNext == Root \/ Descend \/ Meet \/ Backtrack

DependencySpec == DependencyInit /\ [][DependencyNext]_dependencyvars

missing_required == {p \in Plugins : Unprovided \in requires[p]}
satisfied == missing_required = {} /\ cycles = {}

(***************************************************************************)
(* Properties.                                                             *)
(***************************************************************************)
Needs(p, q) == p # q /\ q \in requires[p]

(* Plugins that wait for each other are found, in whatever order the maps   *)
(* are walked: when the search ends, the result is satisfied exactly if    *)
(* every field is provided and no set of plugins has each of its members   *)
(* need another one; and every chain reported is a cycle.                  *)
CyclesAreFound ==
  /\ path = <<>> /\ (\A p \in Plugins \ visited : DependsOn(p) = {}) =>
       (satisfied <=>
          /\ \A p \in Plugins : requires[p] \subseteq Plugins
          /\ \A S \in (SUBSET Plugins) \ {{}} : \E p \in S : \A q \in S : ~Needs(p, q))
  /\ \A chain \in cycles :
       \A i \in DOMAIN chain : Needs(chain[i], chain[IF i = Len(chain) THEN 1 ELSE i + 1])

=============================================================================
