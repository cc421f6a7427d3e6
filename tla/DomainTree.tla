------------------------------ MODULE DomainTree ------------------------------
(***************************************************************************)
(* Logger domains and their inheritance (core/src/config/domain.rs).       *)
(* add_domain checks a domain against the parent it names and replaces one *)
(* of the same name without a look at those that inherit from it; resolve  *)
(* merges the chain of ancestors from the root down.  The six settings a   *)
(* child may only tighten are handled alike: one stands for them.          *)
(***************************************************************************)
EXTENDS Integers, Sequences, SequencesExt, FiniteSets

CONSTANTS
  DomainNames,      \* domain names; "default" is one of them
  Policies,         \* array merge policies in use
  LogSinks,         \* sinks
  SinkLists,        \* the lists of sinks a domain may have
  NoParent,
  Inherited         \* a setting a domain leaves to its ancestors

VARIABLES
  domains,          \* name -> domain
  stale             \* history: domains an ancestor of which was added after them

domainvars == <<domains, stale>>

ASSUME DomainAssumption ==
  /\ NoParent \notin DomainNames \cup {"default"}
  /\ Inherited \notin BOOLEAN
  /\ SinkLists \subseteq Seq(LogSinks)

Domains ==
  [inherits : DomainNames \cup {NoParent}, enable_signature : BOOLEAN \cup {Inherited},
   sinks : SinkLists, policy : Policies]

DefaultDomain ==
  [inherits |-> NoParent, enable_signature |-> FALSE,
   sinks |-> <<"console">>, policy |-> "UniqueAppend"]

DomainInit ==
  /\ domains = [name \in {"default"} |-> DefaultDomain]
  /\ stale = {}

(* History: the domains that have name among their ancestors.               *)
Heirs(tree, name) ==
  {n \in DOMAIN tree :
     \A S \in SUBSET DOMAIN tree :
       (\A m \in DOMAIN tree : tree[m].inherits \in S \cup {name} => m \in S) => n \in S}

(* check_non_downgradable: both have to say something. *)
Downgrades(parent, child) ==
  parent.enable_signature = TRUE /\ child.enable_signature = FALSE

AddDomain(name, domain) ==
  /\ domain.inherits # NoParent =>
       /\ domain.inherits \in DOMAIN domains
       /\ ~Downgrades(domains[domain.inherits], domain)
  /\ domains' = [n \in DOMAIN domains \cup {name} |->
                   IF n = name THEN domain ELSE domains[n]]
  /\ stale' = {n \in DOMAIN domains' :
                 \/ n \in Heirs(domains', name)
                 \/ n # name /\ n \in stale
                 \/ n = name /\ domain.inherits \in stale}

DomainNext ==
  \E name \in DomainNames, domain \in Domains : AddDomain(name, domain)

DomainSpec == DomainInit /\ [][DomainNext]_domainvars

-----------------------------------------------------------------------------

(* merge_domains: "UniqueAppend" pushes a sink that is not in the list yet. *)
Pushed(list, more) ==
  LET pushed[i \in 0..Len(more)] ==
        IF i = 0 THEN list
        ELSE IF more[i] \in ToSet(pushed[i - 1]) THEN pushed[i - 1]
        ELSE Append(pushed[i - 1], more[i])
  IN pushed

MergedSinks(parent, child) ==
  CASE child.policy = "Replace" -> child.sinks
    [] child.policy = "Append"  -> parent.sinks \o child.sinks
    [] OTHER -> Pushed(parent.sinks, child.sinks)[Len(child.sinks)]

Merge(parent, child) ==
  [parent EXCEPT
     !.enable_signature = IF child.enable_signature = Inherited THEN @
                          ELSE child.enable_signature,
     !.sinks = MergedSinks(parent, child)]

(* The domain, its parent and so on, with as many parents as there are      *)
(* domains.  resolve follows a chain that comes back to itself for ever.   *)
ChainIn(tree, name) ==
  LET up[k \in 0..Cardinality(DOMAIN tree)] ==
        IF k = 0 THEN name
        ELSE IF up[k - 1] = NoParent THEN NoParent
        ELSE tree[up[k - 1]].inherits
  IN up

Loops(tree, name) == ChainIn(tree, name)[Cardinality(DOMAIN tree)] # NoParent

(* From the root down: the chain is collected upwards, then reversed. *)
ChainOf(name) ==
  LET up == ChainIn(domains, name)
      n  == Cardinality({k \in DOMAIN up : up[k] # NoParent})
  IN [i \in 1..n |-> domains[up[n - i]]]

(* What a chain resolves to, turn by turn of the loop. *)
Merging(chain) ==
  LET resolved[i \in 0..Len(chain)-1] ==
        IF i = 0 THEN chain[1] ELSE Merge(resolved[i - 1], chain[i + 1])
  IN resolved

(* Mutant: the chain is merged from the child to the root. *)
ResolveMutant(name) ==
  LET chain == ChainOf(name) IN Merging(Reverse(chain))[Len(chain) - 1]

Resolve(name) ==
  LET chain == ChainOf(name) IN Merging(chain)[Len(chain) - 1]

(* A domain none of whose ancestors was replaced after it was added         *)
(* resolves in finitely many steps to what the nearest of its chain says,  *)
(* keeps the sinks of its parent unless it replaces them, and loosens what *)
(* its parent resolves to only where the parent itself says nothing.       *)
ChildrenTighten ==
  \A name \in DOMAIN domains \ stale :
    LET up == domains[name].inherits IN
    /\ ~Loops(domains, name)
    /\ up # NoParent =>
         /\ domains[up].enable_signature = TRUE => Resolve(name).enable_signature = TRUE
         /\ Resolve(name).enable_signature =
              IF domains[name].enable_signature = Inherited
              THEN Resolve(up).enable_signature ELSE domains[name].enable_signature
         /\ domains[name].policy # "Replace"
              => ToSet(Resolve(up).sinks) \subseteq ToSet(Resolve(name).sinks)

(* "children can only tighten, never loosen" (domain.rs:5).  No run checks   *)
(* it: TLC finds it violated by a chain of three.  The middle domain leaves *)
(* the setting to its parent, so that add_domain, which compares a child   *)
(* with what its parent says and not with what it resolves to, lets the    *)
(* last one turn it off.                                                   *)
ChildrenNeverLoosen ==
  \A name \in DOMAIN domains \ stale :
    LET up == domains[name].inherits IN
    up # NoParent /\ Resolve(up).enable_signature = TRUE
      => Resolve(name).enable_signature = TRUE

=============================================================================
