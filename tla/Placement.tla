----------------------------- MODULE Placement -----------------------------
(***************************************************************************)
(* Where the orchestrator puts one app: the generic placement intent is    *)
(* resolved into mandatory clusters and groups of optional ones (gpic),    *)
(* all of them are added to the AppContext, each optional one with the     *)
(* number of its group, and when the placement controllers have run, all   *)
(* but the first cluster of every group are deleted again.                 *)
(*                                                                         *)
(* A cluster is a number: etcd returns the clusters of an app in the order *)
(* of their keys.                                                          *)
(***************************************************************************)
EXTENDS Naturals, SequencesExt

CONSTANTS
    Clusters,  \* the clusters, numbers above 0
    Labels,    \* the cluster labels
    Labelled,  \* the clusters that have a label (GetClustersWithLabel)
    NoName,    \* an empty "cluster-name"
    NoLabel,   \* an empty "cluster-label-name"
    Intents    \* the intents considered

\* An AllOf or AnyOf element names a cluster or a label.
Choice == [name : Clusters \cup {NoName}, label : Labels \cup {NoLabel}]

PlacementAssumption ==
    /\ Clusters \subseteq Nat \ {0}
    /\ Labelled \in [Labels -> SUBSET Clusters]
    /\ NoName \notin Clusters /\ NoLabel \notin Labels
    /\ \A in \in Intents : \A i \in DOMAIN in.allOf : in.allOf[i].choice \in Choice

VARIABLES
    intent,  \* IntentStruc: allOf, whose elements have a choice and an anyOf,
             \* and a top-level anyOf
    where,   \* the clusters of the app in the AppContext, with their groups
    gmap,    \* deleteExtraClusters' group map, read once
    todo,    \* the groups it has still to visit
    pc

vars == <<intent, where, gmap, todo, pc>>

\* The group of a cluster that has no "!@#metaGrp" entry.
NoGroup == 0

-----------------------------------------------------------------------------
(* gpic.IntentResolver.                                                    *)

\* intentResolverHelper: an element with both or none of the two adds nothing.
Resolve(ch) ==
    IF ch.label = NoLabel /\ ch.name # NoName THEN {ch.name}
    ELSE IF ch.name = NoName /\ ch.label # NoLabel THEN Labelled[ch.label]
    ELSE {}

Mandatory(in) == UNION {Resolve(in.allOf[i].choice) : i \in DOMAIN in.allOf}

\* An anyOf inside an AllOf gives a group per element.  At the top level the
\* list of clusters is declared outside the loop, so that a group holds the
\* clusters of all elements up to its own.
ClusterGroups(in) ==
    FlattenSeq([i \in DOMAIN in.allOf |->
                   [j \in DOMAIN in.allOf[i].anyOf |-> Resolve(in.allOf[i].anyOf[j])]])
    \o [k \in DOMAIN in.anyOf |-> UNION {Resolve(in.anyOf[m]) : m \in 1 .. k}]

\* What the fold of the groups over the elements of an intent gives.
GroupsAssumption == \A in \in Intents : ClusterGroups(in) \in Seq(SUBSET Clusters)

-----------------------------------------------------------------------------
(* The AppContext.                                                         *)

Listed(in) ==
    Mandatory(in) \cup UNION {ClusterGroups(in)[g] : g \in DOMAIN ClusterGroups(in)}

\* AddClusterMetaGrp overwrites the number of a group added before.
GroupOf(in, c) ==
    LET gs == {g \in DOMAIN ClusterGroups(in) : c \in ClusterGroups(in)[g]}
    IN IF gs = {} THEN NoGroup ELSE CHOOSE g \in gs : \A h \in gs : h <= g

Init ==
    /\ intent \in Intents
    /\ where = <<>> /\ gmap = <<>>
    /\ todo = {}
    /\ pc = "add"

\* addClustersToAppContext.
AddClusters ==
    /\ pc = "add"
    /\ where' = [c \in Listed(intent) |-> GroupOf(intent, c)]
    /\ pc' = "groups"
    /\ UNCHANGED <<intent, gmap, todo>>

\* Mutant: the clusters without a group count as one.
GetAllGroups ==
    /\ pc = "groups"
    /\ LET gs == {where[c] : c \in DOMAIN where}
       IN /\ gmap' = [g \in gs |-> {c \in DOMAIN where : where[c] = g}]
          /\ todo' = gs
    /\ pc' = "delete"
    /\ UNCHANGED <<intent, where>>

\* GetClusterGroupMap: the clusters without a group are not in it.
GetClusterGroupMap ==
    /\ pc = "groups"
    /\ LET gs == {where[c] : c \in DOMAIN where} \ {NoGroup}
       IN /\ gmap' = [g \in gs |-> {c \in DOMAIN where : where[c] = g}]
          /\ todo' = gs
    /\ pc' = "delete"
    /\ UNCHANGED <<intent, where>>

\* Mutant: the first one goes too.
ExtraAndFirst(g) == {c \in gmap[g] : \E d \in gmap[g] : d <= c}

\* All clusters of a group but the first.
Extra(g) == {c \in gmap[g] : \E d \in gmap[g] : d < c}

\* deleteExtraClusters visits the groups in the random order of a Go map.
DeleteExtra(g) ==
    /\ pc = "delete"
    /\ g \in todo
    /\ where' = [c \in DOMAIN where \ Extra(g) |-> where[c]]
    /\ todo' = todo \ {g}
    /\ UNCHANGED <<intent, gmap, pc>>

Done ==
    /\ pc = "delete"
    /\ todo = {}
    /\ pc' = "done"
    /\ UNCHANGED <<intent, where, gmap, todo>>

Next == AddClusters \/ GetClusterGroupMap \/ (\E g \in todo : DeleteExtra(g)) \/ Done

Spec == Init /\ [][Next]_vars

-----------------------------------------------------------------------------
(* Properties.                                                             *)

TypeOK ==
    /\ intent \in Intents
    /\ DOMAIN where \subseteq Clusters /\ \A c \in DOMAIN where : where[c] \in Nat
    /\ \A g \in DOMAIN gmap : gmap[g] \subseteq Clusters
    /\ todo \subseteq DOMAIN gmap
    /\ pc \in {"add", "groups", "delete", "done"}

\* An intent in which no cluster is asked for twice.
Separate(in) ==
    LET gs == ClusterGroups(in)
    IN \A g \in DOMAIN gs :
          /\ gs[g] \cap Mandatory(in) = {}
          /\ \A h \in DOMAIN gs : g # h => gs[g] \cap gs[h] = {}

\* If no cluster is asked for twice, the app ends up on every mandatory cluster
\* and on exactly one cluster of every group that has any.
PlacedAsAsked ==
    pc = "done" /\ Separate(intent) =>
        /\ Mandatory(intent) \subseteq DOMAIN where
        /\ \A g \in DOMAIN ClusterGroups(intent) :
             ClusterGroups(intent)[g] # {} =>
                \E c \in ClusterGroups(intent)[g] :
                    ClusterGroups(intent)[g] \cap DOMAIN where = {c}

\* Whatever clusters the groups share, deleting the extra ones never leaves the
\* app without a cluster, and a cluster that remains keeps the last of its
\* groups to itself.
NeverNowhere ==
    pc = "done" =>
        /\ DOMAIN where = {} => Listed(intent) = {}
        /\ \A c, d \in DOMAIN where : where[c] = where[d] /\ c # d => where[c] = NoGroup

=============================================================================
