--------------------------- MODULE ApartProofs -------------------------------
(***************************************************************************)
(* Theorems about Placement, for any clusters, labels and intents: however *)
(* the groups of an intent share clusters, and in whatever order they are  *)
(* visited.                                                                *)
(***************************************************************************)
EXTENDS MCApart, WellFoundedInduction, TLAPS

-----------------------------------------------------------------------------
(* The clusters of an app.                                                 *)

Groups(in) == {GroupOf(in, c) : c \in Listed(in)} \ {NoGroup}
Members(in, g) == {c \in Listed(in) : GroupOf(in, c) = g}
First(in, c) == \A d \in Members(in, GroupOf(in, c)) : ~(d < c)

\* The natural numbers are well ordered.
LEMMA Least ==
    ASSUME NEW S \in SUBSET Nat, S # {}
    PROVE  \E m \in S : \A x \in S : m <= x
<1> DEFINE R == OpToRel(<, Nat)
<1>1. IsWellFoundedOn(R, Nat)
  BY NatLessThanWellFounded
<1>2. \A x, y \in Nat : x < y => <<x, y>> \in R
  <2>1. R = {ss \in Nat \X Nat : ss[1] < ss[2]}
    BY Zenon DEF OpToRel
  <2> HIDE DEF R
  <2> QED
    BY <2>1
<1> HIDE DEF R
<1>3. PICK m \in S : \A y \in S : ~(<<y, m>> \in R)
  BY <1>1, WFMin
<1>4. ASSUME NEW x \in S PROVE m <= x
  <2>1. x \in Nat /\ m \in Nat
    OBVIOUS
  <2>2. ~(x < m)
    BY <1>2, <1>3, <2>1
  <2> QED
    BY <2>1, <2>2
<1> QED
  BY <1>4

\* A set of numbers below a bound has a greatest.
LEMMA Greatest ==
    ASSUME NEW S \in SUBSET Nat, S # {}, NEW n \in Nat, \A x \in S : x <= n
    PROVE  \E m \in S : \A x \in S : x <= m
<1> DEFINE T == {n - x : x \in S}
<1>1. T \in SUBSET Nat /\ T # {}
  <2>1. \A x \in S : n - x \in Nat
    OBVIOUS
  <2> QED
    BY Zenon, <2>1
<1>2. PICK t \in T : \A y \in T : t <= y
  <2> HIDE DEF T
  <2> QED
    BY <1>1, Least
<1>3. PICK m \in S : t = n - m
  BY <1>2
<1>4. \A x \in S : x <= m
  BY <1>2, <1>3
<1> QED
  BY <1>4

\* A cluster with a group number is in a group of the intent.
LEMMA GroupedCluster ==
    ASSUME PlacementAssumption, GroupsAssumption,
           NEW in \in Intents, NEW c, GroupOf(in, c) # NoGroup
    PROVE  c \in Clusters /\ c \in Nat
<1>1. PICK g \in DOMAIN ClusterGroups(in) : c \in ClusterGroups(in)[g]
  BY DEF GroupOf
<1>2. ClusterGroups(in) \in Seq(SUBSET Clusters)
  BY DEF GroupsAssumption
<1>3. ASSUME NEW s \in Seq(SUBSET Clusters), NEW i \in DOMAIN s
      PROVE  s[i] \subseteq Clusters
  OBVIOUS
<1>4. ClusterGroups(in)[g] \subseteq Clusters
  BY <1>2, <1>3
<1> QED
  BY <1>1, <1>4 DEF PlacementAssumption

\* The groups are numbered from 1.
LEMMA GroupNumber ==
    ASSUME GroupsAssumption, NEW in \in Intents, NEW g \in DOMAIN ClusterGroups(in)
    PROVE  g \in Nat /\ g # NoGroup
<1>1. ClusterGroups(in) \in Seq(SUBSET Clusters)
  BY DEF GroupsAssumption
<1>2. ASSUME NEW s \in Seq(SUBSET Clusters), NEW i \in DOMAIN s
      PROVE  i \in Nat /\ i # 0
  OBVIOUS
<1> QED
  BY <1>1, <1>2 DEF NoGroup

\* Every group has a first cluster, and only one.
LEMMA FirstExists ==
    ASSUME PlacementAssumption, GroupsAssumption,
           NEW in \in Intents, NEW g \in Groups(in)
    PROVE  \E c \in Members(in, g) : First(in, c)
<1>1. Members(in, g) # {} /\ g # NoGroup
  BY DEF Groups, Members
<1>2. Members(in, g) \in SUBSET Nat
  BY <1>1, GroupedCluster DEF Members
<1>3. PICK m \in Members(in, g) : \A x \in Members(in, g) : m <= x
  <2> HIDE DEF Members
  <2> QED
    BY <1>1, <1>2, Least
<1>4. GroupOf(in, m) = g
  BY DEF Members
<1>5. \A x \in Members(in, g) : ~(x < m)
  <2> HIDE DEF Members
  <2> QED
    BY <1>2, <1>3
<1> QED
  BY <1>3, <1>4, <1>5 DEF First

LEMMA FirstUnique ==
    ASSUME PlacementAssumption, GroupsAssumption,
           NEW in \in Intents, NEW c \in Listed(in), NEW d \in Listed(in),
           GroupOf(in, c) = GroupOf(in, d), GroupOf(in, c) # NoGroup,
           First(in, c), First(in, d)
    PROVE  c = d
<1>1. c \in Nat /\ d \in Nat
  BY GroupedCluster
<1>2. c \in Members(in, GroupOf(in, d)) /\ d \in Members(in, GroupOf(in, c))
  BY DEF Members
<1>3. ~(c < d) /\ ~(d < c)
  BY <1>2 DEF First
<1> QED
  BY <1>1, <1>3

-----------------------------------------------------------------------------
(* The ranges of the variables.                                            *)

\* An app is asked for on clusters that there are, and numbered groups.
LEMMA ListedClusters ==
    ASSUME NEW in \in Intents
    PROVE  Listed(in) \subseteq Clusters /\ \A c : GroupOf(in, c) \in Nat
<1>1. ASSUME NEW i \in DOMAIN in.allOf PROVE Resolve(in.allOf[i].choice) \subseteq Clusters
  BY ApartAssumption DEF PlacementAssumption, Choice, Resolve
<1>2. \A g \in DOMAIN ClusterGroups(in) : ClusterGroups(in)[g] \subseteq Clusters
  BY ApartAssumption DEF GroupsAssumption
<1>3. ASSUME NEW c PROVE GroupOf(in, c) \in Nat
  <2>1. CASE GroupOf(in, c) = NoGroup
    BY <2>1 DEF NoGroup
  <2>2. CASE GroupOf(in, c) # NoGroup
    <3> DEFINE gs == {g \in DOMAIN ClusterGroups(in) : c \in ClusterGroups(in)[g]}
    <3>1. gs # {} /\ GroupOf(in, c) = CHOOSE g \in gs : \A h \in gs : h <= g
      BY <2>2 DEF GroupOf
    <3>2. PICK n \in Nat : DOMAIN ClusterGroups(in) = 1..n
      BY ApartAssumption DEF GroupsAssumption
    <3>3. \E g \in gs : \A h \in gs : h <= g
      <4>1. gs \in SUBSET Nat /\ \A h \in gs : h <= n
        BY <3>2
      <4> HIDE DEF gs
      <4> QED
        BY <3>1, <4>1, Greatest
    <3>4. GroupOf(in, c) \in gs
      <4> HIDE DEF gs
      <4> QED
        BY <3>1, <3>3
    <3> QED
      BY <3>2, <3>4
  <2> QED
    BY <2>1, <2>2
<1> QED
  BY <1>1, <1>2, <1>3 DEF Listed, Mandatory

LEMMA PlacementTypeInit == Init => TypeOK
BY DEF Init, TypeOK

LEMMA PlacementTypeStep == TypeOK /\ [Next]_vars => TypeOK'
<1> SUFFICES ASSUME TypeOK, [Next]_vars PROVE TypeOK'
  OBVIOUS
<1>1. CASE AddClusters
  BY <1>1, ListedClusters DEF AddClusters, TypeOK
<1>2. CASE GetClusterGroupMap
  BY <1>2 DEF GetClusterGroupMap, TypeOK
<1>3. ASSUME NEW g \in todo, DeleteExtra(g) PROVE TypeOK'
  BY <1>3 DEF DeleteExtra, TypeOK
<1>4. CASE Done
  BY <1>4 DEF Done, TypeOK
<1>5. CASE UNCHANGED vars
  BY <1>5 DEF vars, TypeOK
<1> QED
  BY <1>1, <1>2, <1>3, <1>4, <1>5 DEF Next

\* TypeOK: the clusters and groups that are added, mapped and visited are those
\* that the intent asks for.
THEOREM PlacementTypeCorrect == Spec => []TypeOK
BY PlacementTypeInit, PlacementTypeStep, PTL DEF Spec

-----------------------------------------------------------------------------
(* The invariant: what has been visited has been thinned out to its first  *)
(* clusters, the rest is as it was added.                                  *)

Added ==
    /\ pc = "groups" => where = [c \in Listed(intent) |-> GroupOf(intent, c)]
    /\ pc \in {"add", "groups"} => todo = {}

Thinned ==
    pc \in {"delete", "done"} =>
        /\ gmap = [g \in Groups(intent) |-> Members(intent, g)]
        /\ todo \subseteq Groups(intent)
        /\ where = [c \in DOMAIN where |-> GroupOf(intent, c)]
        /\ DOMAIN where =
              {c \in Listed(intent) :
                  GroupOf(intent, c) \in Groups(intent) \ todo => First(intent, c)}

PlacementInv ==
    /\ intent \in Intents
    /\ pc \in {"add", "groups", "delete", "done"}
    /\ Added
    /\ Thinned
    /\ pc = "done" => todo = {}

LEMMA InitInv == Init => PlacementInv
BY DEF Init, PlacementInv, Added, Thinned

LEMMA StepInv == PlacementInv /\ [Next]_vars => PlacementInv'
<1> SUFFICES ASSUME PlacementInv, [Next]_vars PROVE PlacementInv'
  OBVIOUS
<1>1. CASE AddClusters
  BY <1>1 DEF AddClusters, PlacementInv, Added, Thinned
<1>2. CASE GetClusterGroupMap
  <2>1. /\ where = [c \in Listed(intent) |-> GroupOf(intent, c)]
        /\ pc = "groups" /\ pc' = "delete" /\ UNCHANGED <<intent, where>>
    BY <1>2 DEF GetClusterGroupMap, PlacementInv, Added
  <2> DEFINE gs == {where[c] : c \in DOMAIN where} \ {NoGroup}
  <2>2. gmap' = [g \in gs |-> {c \in DOMAIN where : where[c] = g}] /\ todo' = gs
    BY <1>2 DEF GetClusterGroupMap
  <2>3. DOMAIN where = Listed(intent) /\ \A c \in Listed(intent) : where[c] = GroupOf(intent, c)
    BY <2>1
  <2>4. gs = Groups(intent)
    BY <2>3 DEF Groups
  <2>5. \A g : {c \in DOMAIN where : where[c] = g} = Members(intent, g)
    BY <2>3 DEF Members
  <2>6. gmap' = [g \in Groups(intent) |-> Members(intent, g)] /\ todo' = Groups(intent)
    BY <2>2, <2>4, <2>5
  <2> QED
    BY <2>1, <2>3, <2>6 DEF PlacementInv, Added, Thinned
<1>3. ASSUME NEW g \in todo, DeleteExtra(g) PROVE PlacementInv'
  <2>1. /\ pc = "delete" /\ UNCHANGED <<intent, gmap, pc>> /\ todo' = todo \ {g}
        /\ where' = [c \in DOMAIN where \ Extra(g) |-> where[c]]
    BY <1>3 DEF DeleteExtra
  <2>2. /\ gmap = [h \in Groups(intent) |-> Members(intent, h)]
        /\ todo \subseteq Groups(intent)
        /\ where = [c \in DOMAIN where |-> GroupOf(intent, c)]
        /\ DOMAIN where =
              {c \in Listed(intent) :
                  GroupOf(intent, c) \in Groups(intent) \ todo => First(intent, c)}
    BY <2>1 DEF PlacementInv, Thinned
  <2>3. Extra(g) = {c \in Members(intent, g) : ~First(intent, c)}
    <3>1. gmap[g] = Members(intent, g)
      BY <2>2
    <3>2. \A c \in Members(intent, g) : GroupOf(intent, c) = g
      BY DEF Members
    <3> QED
      BY <3>1, <3>2 DEF Extra, First
  <2>4. DOMAIN where \ Extra(g) =
           {c \in Listed(intent) :
               GroupOf(intent, c) \in Groups(intent) \ (todo \ {g}) => First(intent, c)}
    BY <2>2, <2>3 DEF Members
  <2>5. where' = [c \in DOMAIN where' |-> GroupOf(intent, c)]
    BY <2>1, <2>2
  <2>6. DOMAIN where' = DOMAIN where \ Extra(g)
    BY <2>1
  <2>7. Thinned'
    BY <2>1, <2>2, <2>4, <2>5, <2>6 DEF Thinned, Groups, Members, First
  <2> QED
    BY <2>1, <2>7 DEF PlacementInv, Added
<1>4. CASE Done
  BY <1>4 DEF Done, PlacementInv, Added, Thinned
<1>5. CASE UNCHANGED vars
  BY <1>5 DEF vars, PlacementInv, Added, Thinned
<1> QED
  BY <1>1, <1>2, <1>3, <1>4, <1>5 DEF Next

\* In every reachable state the groups that have been visited are down to their
\* first clusters and nothing else is gone.
THEOREM ThinnedCorrect == Spec => []PlacementInv
BY InitInv, StepInv, PTL DEF Spec

-----------------------------------------------------------------------------
(* The properties.                                                         *)

LEMMA NowhereImplied ==
    PlacementAssumption /\ GroupsAssumption /\ PlacementInv => NeverNowhere
<1> SUFFICES ASSUME PlacementAssumption, GroupsAssumption, PlacementInv, pc = "done"
             PROVE  /\ DOMAIN where = {} => Listed(intent) = {}
                    /\ \A c, d \in DOMAIN where : where[c] = where[d] /\ c # d => where[c] = NoGroup
  BY DEF NeverNowhere
<1>1. /\ intent \in Intents
      /\ where = [c \in DOMAIN where |-> GroupOf(intent, c)]
      /\ DOMAIN where = {c \in Listed(intent) :
                            GroupOf(intent, c) \in Groups(intent) => First(intent, c)}
  BY DEF PlacementInv, Thinned
<1>2. ASSUME NEW c \in Listed(intent) PROVE DOMAIN where # {}
  <2>1. CASE GroupOf(intent, c) \notin Groups(intent)
    BY <1>1, <2>1
  <2>2. CASE GroupOf(intent, c) \in Groups(intent)
    <3>1. PICK d \in Members(intent, GroupOf(intent, c)) : First(intent, d)
      BY <1>1, <2>2, FirstExists
    <3>2. d \in Listed(intent)
      BY DEF Members
    <3> QED
      BY <1>1, <3>1, <3>2
  <2> QED
    BY <2>1, <2>2
<1>3. ASSUME NEW c \in DOMAIN where, NEW d \in DOMAIN where,
             where[c] = where[d], where[c] # NoGroup
      PROVE  c = d
  <2>1. /\ c \in Listed(intent) /\ d \in Listed(intent)
        /\ GroupOf(intent, c) = GroupOf(intent, d) /\ GroupOf(intent, c) # NoGroup
    BY <1>1, <1>3
  <2>2. GroupOf(intent, c) \in Groups(intent) /\ GroupOf(intent, d) \in Groups(intent)
    BY <2>1 DEF Groups
  <2>3. First(intent, c) /\ First(intent, d)
    BY <1>1, <2>2
  <2> QED
    BY <1>1, <2>1, <2>3, FirstUnique
<1> QED
  BY <1>2, <1>3

LEMMA AskedImplied ==
    PlacementAssumption /\ GroupsAssumption /\ PlacementInv => PlacedAsAsked
<1> SUFFICES ASSUME PlacementAssumption, GroupsAssumption, PlacementInv,
                    pc = "done", Separate(intent)
             PROVE  /\ Mandatory(intent) \subseteq DOMAIN where
                    /\ \A g \in DOMAIN ClusterGroups(intent) :
                          ClusterGroups(intent)[g] # {} =>
                             \E c \in ClusterGroups(intent)[g] :
                                 ClusterGroups(intent)[g] \cap DOMAIN where = {c}
  BY DEF PlacedAsAsked
<1>1. /\ intent \in Intents
      /\ DOMAIN where = {c \in Listed(intent) :
                            GroupOf(intent, c) \in Groups(intent) => First(intent, c)}
  BY DEF PlacementInv, Thinned
\* A mandatory cluster is in no group.
<1>2. ASSUME NEW c \in Mandatory(intent) PROVE c \in DOMAIN where
  <2>1. {g \in DOMAIN ClusterGroups(intent) : c \in ClusterGroups(intent)[g]} = {}
    BY <1>2 DEF Separate
  <2>2. GroupOf(intent, c) = NoGroup
    BY <2>1 DEF GroupOf
  <2>3. c \in Listed(intent)
    BY DEF Listed
  <2> QED
    BY <1>1, <2>2, <2>3 DEF Groups
\* A cluster of a group has its number.
<1>3. ASSUME NEW g \in DOMAIN ClusterGroups(intent), NEW c \in ClusterGroups(intent)[g]
      PROVE  c \in Listed(intent) /\ GroupOf(intent, c) = g
  <2>1. {h \in DOMAIN ClusterGroups(intent) : c \in ClusterGroups(intent)[h]} = {g}
    BY <1>3 DEF Separate
  <2>2. g \in Nat
    BY <1>1, GroupNumber
  <2>3. GroupOf(intent, c) = (CHOOSE n \in {g} : \A h \in {g} : h <= n)
    BY <2>1 DEF GroupOf
  <2>4. \E n \in {g} : \A h \in {g} : h <= n
    BY <2>2
  <2>5. GroupOf(intent, c) = g
    BY <2>3, <2>4
  <2> QED
    BY <2>5 DEF Listed
\* And no other cluster has.
<1>4. ASSUME NEW g \in DOMAIN ClusterGroups(intent)
      PROVE  Members(intent, g) = ClusterGroups(intent)[g]
  <2>1. ClusterGroups(intent)[g] \subseteq Members(intent, g)
    BY <1>3 DEF Members
  <2>2. ASSUME NEW c \in Members(intent, g) PROVE c \in ClusterGroups(intent)[g]
    <3>1. GroupOf(intent, c) = g /\ g # NoGroup
      BY <1>1, GroupNumber DEF Members
    <3>2. PICK h \in DOMAIN ClusterGroups(intent) : c \in ClusterGroups(intent)[h]
      BY <3>1 DEF GroupOf
    <3> QED
      BY <1>3, <3>1, <3>2
  <2> QED
    BY <2>1, <2>2
<1>5. ASSUME NEW g \in DOMAIN ClusterGroups(intent), ClusterGroups(intent)[g] # {}
      PROVE  \E c \in ClusterGroups(intent)[g] : ClusterGroups(intent)[g] \cap DOMAIN where = {c}
  <2>1. g \in Groups(intent) /\ g # NoGroup
    BY <1>1, <1>3, <1>5, GroupNumber DEF Groups
  <2>2. PICK c \in Members(intent, g) : First(intent, c)
    BY <1>1, <2>1, FirstExists
  <2>3. c \in ClusterGroups(intent)[g] /\ c \in DOMAIN where
    BY <1>1, <1>3, <1>4, <2>2
  <2>4. ASSUME NEW d \in ClusterGroups(intent)[g], d \in DOMAIN where PROVE d = c
    <3>1. /\ d \in Listed(intent) /\ GroupOf(intent, d) = g
          /\ c \in Listed(intent) /\ GroupOf(intent, c) = g
      BY <1>3, <2>3
    <3>2. First(intent, d)
      BY <1>1, <2>1, <2>4, <3>1
    <3> QED
      BY <1>1, <2>1, <2>2, <3>1, <3>2, FirstUnique
  <2> QED
    BY <2>3, <2>4
<1> QED
  BY <1>2, <1>5

\* However the groups share clusters, an app that asked for clusters keeps one, and
\* every group number is left on one cluster (deleteExtraClusters).
THEOREM NeverNowhereCorrect ==
    ASSUME PlacementAssumption, GroupsAssumption
    PROVE  Spec => []NeverNowhere
BY ThinnedCorrect, NowhereImplied, PTL

\* If no cluster is asked for twice, every mandatory cluster is kept and every
\* group is down to exactly one of its clusters.
THEOREM PlacedAsAskedCorrect ==
    ASSUME PlacementAssumption, GroupsAssumption
    PROVE  Spec => []PlacedAsAsked
BY ThinnedCorrect, AskedImplied, PTL

-----------------------------------------------------------------------------
(* The run apart.  Its parts share no variable, so that ApartSpec is       *)
(* Placement, and Instances, whose theorems are in InstancesProofs.        *)

P == INSTANCE InstancesProofs WITH Requests <- Jobs, MaxFaults <- MaxInstanceFaults,
                                   job <- iJob, faults <- iFaults

LEMMA InstanceAssumption == P!InstancesAssumption
BY ApartAssumption DEF
       I!InstancesAssumption, P!InstancesAssumption, I!Event, P!Event, I!Statuses,
       P!Statuses, I!Entry, P!Entry

LEMMA InstanceAction == I!Next => P!Next
BY Zenon DEF
       I!Next, P!Next, I!Event, P!Event, I!Resource, P!Resource, I!NewEntry,
       P!NewEntry, I!Idle, P!Idle, I!At, P!At, I!Free, P!Free, I!Goto, P!Goto,
       I!End, P!End, I!Fault, P!Fault, I!Opened, P!Opened, I!Update, P!Update,
       I!SetStatus, P!SetStatus, I!Remove, P!Remove, I!Create, P!Create, I!Prepare,
       P!Prepare, I!SetCreating, P!SetCreating, I!CreateKind, P!CreateKind,
       I!DeleteKind, P!DeleteKind, I!CreateResource, P!CreateResource,
       I!AfterCreateFails, P!AfterCreateFails, I!CreateResourceFails,
       P!CreateResourceFails, I!RevertResource, P!RevertResource, I!Drop, P!Drop,
       I!RecordCreated, P!RecordCreated, I!RecordDone, P!RecordDone, I!Hooks,
       P!Hooks, I!RecordProgress, P!RecordProgress, I!Counted, P!Counted,
       I!StartHook, P!StartHook, I!StartHookFails, P!StartHookFails, I!WaitHook,
       P!WaitHook, I!AfterHooks, P!AfterHooks, I!EndHooks, P!EndHooks,
       I!HooksFailed, P!HooksFailed, I!Listed, P!Listed, I!Answered, P!Answered,
       I!Delete, P!Delete, I!SetPreDelete, P!SetPreDelete, I!SetDeleting,
       P!SetDeleting, I!Cleanup, P!Cleanup, I!DeleteResource, P!DeleteResource,
       I!ResourcesDeleted, P!ResourcesDeleted, I!SetPostDelete, P!SetPostDelete,
       I!RecordDeleted, P!RecordDeleted, I!Recover, P!Recover, I!RecoverFrom,
       P!RecoverFrom, I!Recovered, P!Recovered, I!RecordRecovered,
       P!RecordRecovered, I!Crash, P!Crash

LEMMA ApartImplements == ApartSpec => Spec /\ P!Spec
<1>1. I!Init => P!Init
  BY Zenon DEF
         I!Init, P!Init, I!Idle, P!Idle, I!NewEntry, P!NewEntry
<1>2. ApartInit => Init /\ P!Init
  BY <1>1 DEF ApartInit
<1>3. [ApartNext]_apartVars => [Next]_vars /\ [P!Next]_(P!vars)
  <2> SUFFICES ASSUME [ApartNext]_apartVars PROVE [Next]_vars /\ [P!Next]_(P!vars)
    OBVIOUS
  <2> USE DEF placementVars, instanceVars, vars, P!vars
  <2>1. CASE UNCHANGED apartVars
    BY <2>1 DEF apartVars
  <2>2. CASE service = "placement" /\ Next /\ UNCHANGED instanceVars
    BY <2>2
  <2>3. CASE service = "instance" /\ I!Next /\ UNCHANGED placementVars
    BY <2>3, InstanceAction
  <2>4. CASE UNCHANGED <<placementVars, instanceVars>>
    BY <2>4
  <2> QED
    BY <2>1, <2>2, <2>3, <2>4 DEF ApartNext
<1> QED
  BY <1>2, <1>3, PTL DEF ApartSpec, Spec, P!Spec

\* NothingForgotten: but for the moment between the first resource and its record,
\* a resource of an instance in the cluster is recorded where a Delete finds it,
\* however goroutines overwrite each other's entries and the plugin is killed.
THEOREM NothingForgottenCorrect == ApartSpec => []NothingForgotten
<1>1. P!Spec => []P!NothingForgotten
  BY InstanceAssumption, P!NothingForgottenCorrect
<1>2. P!NothingForgotten => NothingForgotten
  BY Zenon DEF NothingForgotten,
         I!NothingForgotten, P!NothingForgotten, I!Recorded, P!Recorded,
         I!Creating, P!Creating
<1> QED
  BY <1>1, <1>2, ApartImplements, PTL

\* ReadyMeansDone: an instance that answers it is ready has all its resources and
\* has run its post-install hooks, but for at most one a crash, unless the templates
\* of the hooks could not be resolved again after one.
THEOREM ReadyMeansDoneCorrect == ApartSpec => []ReadyMeansDone
<1>1. P!Spec => []P!ReadyMeansDone
  BY InstanceAssumption, P!ReadyMeansDoneCorrect
<1>2. P!ReadyMeansDone => ReadyMeansDone
  BY Zenon DEF ReadyMeansDone,
         I!ReadyMeansDone, P!ReadyMeansDone, I!Ready, P!Ready, I!Recorded,
         P!Recorded, I!Resource, P!Resource, I!Cardinality, P!Cardinality
<1> QED
  BY <1>1, <1>2, ApartImplements, PTL

\* HooksOnce: no post-install hook is created twice, or before the ones it follows
\* were created or given up by a crash.
THEOREM HooksOnceCorrect == ApartSpec => []HooksOnce
<1>1. P!Spec => []P!HooksOnce
  BY InstanceAssumption, P!HooksOnceCorrect
<1>2. P!HooksOnce => HooksOnce
  BY Zenon DEF HooksOnce, I!HooksOnce, P!HooksOnce, I!Cardinality, P!Cardinality
<1> QED
  BY <1>1, <1>2, ApartImplements, PTL

-----------------------------------------------------------------------------
(* The monitor.                                                            *)

LEMMA MonitorAssumed == M!MonitorAssumption
BY ApartAssumption

LEMMA NotCR == "cr" \notin Objects
BY MonitorAssumed DEF M!MonitorAssumption

\* The controller of q has its request and is not done with it.
Busy(q) == worker[M!ControllerOf(q)].at # "idle" /\ worker[M!ControllerOf(q)].request = q
OwnPending(q) == q \in queue \/ Busy(q)
\* The controller of the CR will list the objects, or has them.
CRPending == crCached = NoCR \/ "cr" \in queue \/ worker["cr"].at # "idle"
Copying(k) == worker[k].at \in {"list", "write"}

\* The statuses have q as it is in the cache.
Fine(q, statuses) ==
    cached[q].there /\ ~cached[q].dying =>
        /\ statuses[q] # 0
        /\ q \notin Plain => statuses[q] = cached[q].status
\* ... unless the list of the CR's controller has been overtaken.
Right(q, statuses) == Fine(q, statuses) <=> q \notin overtaken

ThereInv ==
    \A q \in Objects : /\ object[q].there => object[q].status # 0
                       /\ cached[q].there => cached[q].status # 0

\* A controller of objects has the status of the cache, or will be asked again.
WorksRight(k) ==
    LET q == worker[k].request
    IN  /\ worker[k].status # 0
        /\ \/ q \in queue
           \/ /\ cached[q].there /\ ~cached[q].dying
              /\ worker[k].status = cached[q].status
WorkInv ==
    /\ worker["cr"].at # "find"
    /\ worker["cr"].at = "write" => worker["cr"].listed = {"status", "plain"}
    /\ \A k \in {"status", "plain"} : worker[k].at # "idle" => WorksRight(k)

TrackInv ==
    /\ (cr # NoCR \/ crCached # NoCR \/ handled) => tracked
    /\ \A k \in M!Controller : Copying(k) => tracked
    /\ cr # NoCR => \A k \in M!Controller : Copying(k) => crCached # NoCR

\* What is no older than the CR is a copy of it.
VersionInv ==
    cr # NoCR =>
        /\ crCached # NoCR => crCached.rv < cr.rv \/ crCached = cr
        /\ \A k \in M!Controller : Copying(k) => worker[k].copy.rv <= cr.rv
        /\ \A k \in {"status", "plain"} :
              worker[k].at = "write" /\ worker[k].copy.rv = cr.rv =>
                 worker[k].copy.statuses =
                    M!UpdateStatuses(cr.statuses, worker[k].request, worker[k].status)

CurrentInv ==
    cr # NoCR /\ ~lost =>
        /\ handled => acStatus = cr.statuses
        /\ \A q \in Objects : Right(q, cr.statuses) \/ OwnPending(q) \/ CRPending
        /\ Copying("cr") /\ worker["cr"].copy.rv = cr.rv =>
              \A q \in Objects : M!ControllerOf(q) \in worker["cr"].listed =>
                 Right(q, worker["cr"].copy.statuses) \/ OwnPending(q)

\* What is overtaken has been listed, and its own controller is done with it.
OvertakenInv ==
    /\ \A q \in overtaken : ~Busy(q)
    /\ worker["cr"].at = "idle" => worker["cr"].listed = {}
    /\ worker["cr"].at = "list" =>
          \A q \in overtaken : M!ControllerOf(q) \in worker["cr"].listed

MonitorInv ==
    M!TypeOK /\ ThereInv /\ WorkInv /\ TrackInv /\ VersionInv /\ CurrentInv /\ OvertakenInv

LEMMA MonitorInit == M!Init => MonitorInv
<1> SUFFICES ASSUME M!Init PROVE MonitorInv
  OBVIOUS
<1>1. M!Idle \in M!Worker /\ M!Idle.at = "idle"
  BY DEF M!Idle, M!Worker, M!CR, M!Statuses, M!NoStatuses
<1>8. M!Idle.listed = {}
  BY DEF M!Idle
<1>2. worker \in [M!Controller -> M!Worker] /\ \A k \in M!Controller : worker[k].at = "idle"
  BY <1>1 DEF M!Init
<1>3. M!TypeOK
  BY <1>2 DEF M!Init, M!TypeOK, M!Object, M!Statuses, M!NoStatuses
<1> HIDE DEF M!Idle
<1>4. ThereInv
  BY DEF M!Init, ThereInv
<1>5. WorkInv
  BY <1>2 DEF WorkInv, M!Controller
<1>7. worker["cr"].listed = {}
  BY <1>8 DEF M!Init, M!Controller
<1>6. TrackInv /\ VersionInv /\ CurrentInv /\ OvertakenInv
  BY <1>2, <1>7 DEF M!Init, TrackInv, VersionInv, CurrentInv, Copying, OvertakenInv, M!Controller
<1> QED
  BY <1>3, <1>4, <1>5, <1>6 DEF MonitorInv

\* The controllers of the objects are two, and not the one of the CR.
LEMMA Controllers ==
    ASSUME NEW q \in Objects
    PROVE  M!ControllerOf(q) \in {"status", "plain"}
BY NotCR DEF M!ControllerOf

LEMMA ObjectKeeps == MonitorInv /\ M!ObjectStep => MonitorInv'
<1> SUFFICES ASSUME MonitorInv, M!ObjectStep PROVE MonitorInv'
  OBVIOUS
<1>1. UNCHANGED <<cached, cr, crCached, tracked, queue, worker, registered, watching,
                  handled, acStatus, lost, overtaken>>
  BY DEF M!ObjectStep
<1>2. PICK o \in Objects : M!Change(o) \/ M!Doom(o) \/ M!Vanish(o)
  BY DEF M!ObjectStep
<1>3. object \in [Objects -> M!Object]
  BY DEF MonitorInv, M!TypeOK
<1>4. object' \in [Objects -> M!Object]
  <2>1. object[o] \in M!Object
    BY <1>3
  <2>2. CASE M!Change(o)
    <3>1. PICK s \in 1..MaxStatus :
             object' = [object EXCEPT ![o] = [object[o] EXCEPT !.there = TRUE, !.version = @ + 1,
                                                !.status = s]]
      BY <1>3, <2>2 DEF M!Change
    <3>2. [object[o] EXCEPT !.there = TRUE, !.version = @ + 1, !.status = s] \in M!Object
      <4>1. object[o].version + 1 \in Nat /\ s \in Nat
        BY <2>1 DEF M!Object
      <4> DEFINE v == object[o].version + 1
      <4> HIDE DEF v
      <4>2. [object[o] EXCEPT !.there = TRUE, !.version = v, !.status = s] \in M!Object
        BY <2>1, <4>1 DEF M!Object, v
      <4> QED
        BY <4>2 DEF v
    <3> QED
      BY <1>3, <3>1, <3>2
  <2>3. CASE M!Doom(o)
    <3>1. object' = [object EXCEPT ![o] = [object[o] EXCEPT !.dying = TRUE]]
      BY <1>3, <2>3 DEF M!Doom
    <3>2. [object[o] EXCEPT !.dying = TRUE] \in M!Object
      BY <2>1 DEF M!Object
    <3> QED
      BY <1>3, <3>1, <3>2
  <2>4. CASE M!Vanish(o)
    <3>1. object' = [object EXCEPT ![o] = [object[o] EXCEPT !.there = FALSE, !.dying = FALSE]]
      BY <1>3, <2>4 DEF M!Vanish
    <3>2. [object[o] EXCEPT !.there = FALSE, !.dying = FALSE] \in M!Object
      BY <2>1 DEF M!Object
    <3> QED
      BY <1>3, <3>1, <3>2
  <2> QED
    BY <1>2, <2>2, <2>3, <2>4
<1>5. M!TypeOK'
  BY <1>1, <1>4 DEF MonitorInv, M!TypeOK
<1>6. \A q \in Objects : object'[q].there => object'[q].status # 0
  BY <1>2, <1>3 DEF MonitorInv, ThereInv, M!Change, M!Doom, M!Vanish, M!Object
<1>7. ThereInv'
  BY <1>1, <1>6 DEF MonitorInv, ThereInv
<1>8. WorkInv' /\ TrackInv'
  BY <1>1 DEF MonitorInv, WorkInv, WorksRight, TrackInv, Copying
<1>9. VersionInv' /\ CurrentInv' /\ OvertakenInv'
  BY <1>1 DEF MonitorInv, VersionInv, CurrentInv, OvertakenInv, Right, Fine, OwnPending, Busy,
             CRPending, Copying, M!UpdateStatuses
<1> QED
  BY <1>5, <1>7, <1>8, <1>9 DEF MonitorInv

LEMMA DeliverKeeps ==
    ASSUME NEW o \in Objects, MonitorInv, M!Deliver(o)
    PROVE  MonitorInv'
<1>1. /\ cached' = [cached EXCEPT ![o] = object[o]] /\ queue' = queue \cup {o}
      /\ UNCHANGED <<object, cr, crCached, tracked, worker, registered, watching,
                     handled, acStatus, lost, overtaken>>
  BY DEF M!Deliver
<1>2. object \in [Objects -> M!Object] /\ cached \in [Objects -> M!Object]
  BY DEF MonitorInv, M!TypeOK
<1>3. M!TypeOK'
  BY <1>1, <1>2 DEF MonitorInv, M!TypeOK
<1>4. ThereInv'
  BY <1>1, <1>2 DEF MonitorInv, ThereInv
<1>5. \A q : q # o => cached'[q] = cached[q]
  BY <1>1, <1>2
<1>6. WorkInv'
  BY <1>1, <1>5 DEF MonitorInv, WorkInv, WorksRight
<1>7. TrackInv'
  BY <1>1 DEF MonitorInv, TrackInv, Copying
<1>8. VersionInv'
  BY <1>1 DEF MonitorInv, VersionInv, Copying, M!UpdateStatuses
<1>9. CurrentInv'
  BY <1>1, <1>5 DEF MonitorInv, CurrentInv, Right, Fine, OwnPending, Busy, CRPending, Copying
<1>10. OvertakenInv'
  BY <1>1 DEF MonitorInv, OvertakenInv, Busy
<1> QED
  BY <1>3, <1>4, <1>6, <1>7, <1>8, <1>9, <1>10 DEF MonitorInv

LEMMA DeliverCRKeeps == MonitorInv /\ M!DeliverCR => MonitorInv'
<1> SUFFICES ASSUME MonitorInv, M!DeliverCR PROVE MonitorInv'
  OBVIOUS
<1>1. /\ crCached' = cr
      /\ queue' = IF crCached = NoCR THEN queue \cup {"cr"} ELSE queue
      /\ UNCHANGED <<object, cached, cr, tracked, worker, registered, watching,
                     handled, acStatus, lost, overtaken>>
  BY DEF M!DeliverCR
<1>2. queue \subseteq queue'
  BY <1>1
<1>3. M!TypeOK'
  BY <1>1 DEF MonitorInv, M!TypeOK
<1>4. ThereInv' /\ WorkInv'
  BY <1>1, <1>2 DEF MonitorInv, ThereInv, WorkInv, WorksRight
<1>5. TrackInv'
  BY <1>1 DEF MonitorInv, TrackInv, Copying
<1>6. VersionInv'
  BY <1>1 DEF MonitorInv, VersionInv, Copying, M!UpdateStatuses
<1>7. CRPending => CRPending'
  BY <1>1 DEF CRPending
<1>8. CurrentInv'
  BY <1>1, <1>2, <1>7 DEF MonitorInv, CurrentInv, Right, Fine, OwnPending, Busy, Copying
<1>9. OvertakenInv'
  BY <1>1 DEF MonitorInv, OvertakenInv, Busy
<1> QED
  BY <1>3, <1>4, <1>5, <1>6, <1>8, <1>9 DEF MonitorInv

LEMMA ReconcileKeeps ==
    ASSUME NEW o \in Objects, MonitorInv, M!Reconcile(o)
    PROVE  MonitorInv'
<1> DEFINE k == M!ControllerOf(o)
           taken == [M!Idle EXCEPT !.at = "find", !.request = o, !.status = cached[o].status]
<1>1. /\ o \in queue /\ worker[k].at = "idle" /\ queue' = queue \ {o}
      /\ overtaken' = overtaken \ {o}
      /\ UNCHANGED <<object, cached, cr, crCached, tracked, registered, watching,
                     handled, acStatus, lost>>
  BY DEF M!Reconcile
<1>2. worker' = IF cached[o].there /\ ~cached[o].dying
                  THEN [worker EXCEPT ![k] = taken] ELSE worker
  BY DEF M!Reconcile
<1>3. /\ k \in {"status", "plain"} /\ worker \in [M!Controller -> M!Worker]
      /\ cached \in [Objects -> M!Object]
  BY Controllers DEF MonitorInv, M!TypeOK
<1>4. /\ taken \in M!Worker /\ taken.at = "find" /\ taken.request = o
      /\ taken.status = cached[o].status
  BY <1>3 DEF M!Idle, M!Worker, M!Object, M!CR, M!Statuses, M!NoStatuses
<1> HIDE DEF taken
<1>5. /\ \A j \in M!Controller : j # k => worker'[j] = worker[j]
      /\ worker'[k] = taken \/ worker'[k] = worker[k]
      /\ cached[o].there /\ ~cached[o].dying => worker'[k] = taken
      /\ worker'[k] = taken => cached[o].there /\ ~cached[o].dying
      /\ worker' \in [M!Controller -> M!Worker]
  <2>1. k \in M!Controller
    BY <1>3 DEF M!Controller
  <2> HIDE DEF k
  <2>2. CASE cached[o].there /\ ~cached[o].dying
    <3>1. worker' = [worker EXCEPT ![k] = taken]
      BY <1>2, <2>2
    <3> QED
      BY <1>3, <1>4, <2>1, <2>2, <3>1
  <2>3. CASE ~(cached[o].there /\ ~cached[o].dying)
    <3>1. worker' = worker /\ worker[k] # taken
      BY <1>1, <1>2, <1>4, <2>3
    <3> QED
      BY <1>3, <2>3, <3>1
  <2> QED
    BY <2>2, <2>3
<1>6. M!TypeOK'
  <2>1. \A j \in M!Controller : worker'[j].at # "idle" => M!ControllerOf(worker'[j].request) = j
    BY <1>1, <1>4, <1>5 DEF MonitorInv, M!TypeOK
  <2> QED
    BY <1>1, <1>5, <2>1 DEF MonitorInv, M!TypeOK
<1>7. ThereInv'
  BY <1>1 DEF MonitorInv, ThereInv
<1>8. worker'["cr"] = worker["cr"]
  BY <1>3, <1>5 DEF M!Controller
<1>9. WorkInv'
  <2>1. ASSUME NEW j \in {"status", "plain"}, worker'[j].at # "idle"
        PROVE  WorksRight(j)'
    <3>1. CASE j = k
      BY <1>1, <1>4, <1>5, <2>1, <3>1 DEF MonitorInv, ThereInv, WorksRight
    <3>2. CASE j # k
      <4>1. worker'[j] = worker[j] /\ M!ControllerOf(worker[j].request) = j
        BY <1>5, <2>1, <3>2 DEF MonitorInv, M!TypeOK, M!Controller
      <4> QED
        BY <1>1, <2>1, <3>2, <4>1 DEF MonitorInv, WorkInv, WorksRight
    <3> QED
      BY <3>1, <3>2
  <2> QED
    BY <1>8, <2>1 DEF MonitorInv, WorkInv, WorksRight
<1>10. \A j \in M!Controller : Copying(j)' = Copying(j) /\ (Copying(j) => worker'[j] = worker[j])
  BY <1>1, <1>4, <1>5 DEF Copying
<1>11. TrackInv'
  BY <1>1, <1>10 DEF MonitorInv, TrackInv
<1>12. VersionInv'
  <2>1. \A j \in {"status", "plain"} : worker'[j].at = "write" => worker'[j] = worker[j]
    BY <1>4, <1>5 DEF M!Controller
  <2> QED
    BY <1>1, <1>10, <2>1 DEF MonitorInv, VersionInv, M!UpdateStatuses
<1> DEFINE After(q, s) == Fine(q, s) <=> q \notin overtaken'
<1>13. ASSUME NEW q \in Objects, OwnPending(q), q # o PROVE OwnPending(q)'
  <2>1. CASE Busy(q)
    <3>1. M!ControllerOf(q) # k /\ M!ControllerOf(q) \in M!Controller
      BY <1>1, <2>1, Controllers DEF Busy, M!Controller
    <3> QED
      BY <1>5, <2>1, <3>1 DEF OwnPending, Busy
  <2>2. CASE q \in queue
    BY <1>1, <1>13, <2>2 DEF OwnPending
  <2> QED
    BY <1>13, <2>1, <2>2 DEF OwnPending
<1>14. CRPending' = CRPending
  <2>1. o # "cr"
    BY NotCR
  <2> QED
    BY <1>1, <1>8, <2>1 DEF CRPending
<1>15. ASSUME NEW s PROVE After(o, s) \/ OwnPending(o)'
  <2>1. CASE cached[o].there /\ ~cached[o].dying
    BY <1>4, <1>5, <2>1 DEF OwnPending, Busy
  <2>2. CASE ~(cached[o].there /\ ~cached[o].dying)
    BY <1>1, <2>2 DEF Right, Fine
  <2> QED
    BY <2>1, <2>2
<1>16. ASSUME NEW q \in Objects, q # o, NEW s, Right(q, s) PROVE After(q, s)
  BY <1>1, <1>16 DEF Right, Fine
<1>17. CurrentInv'
  <2> SUFFICES ASSUME cr # NoCR, ~lost PROVE CurrentInv'
    BY <1>1 DEF CurrentInv
  <2>1. \A q \in Objects : After(q, cr.statuses) \/ OwnPending(q)' \/ CRPending'
    BY <1>13, <1>14, <1>15, <1>16 DEF MonitorInv, CurrentInv
  <2>2. ASSUME Copying("cr"), worker["cr"].copy.rv = cr.rv, NEW q \in Objects,
               M!ControllerOf(q) \in worker["cr"].listed
        PROVE  After(q, worker["cr"].copy.statuses) \/ OwnPending(q)'
    <3>1. CASE q = o
      <4>1. After(o, worker["cr"].copy.statuses) \/ OwnPending(o)'
        BY <1>8, <1>15
      <4> QED
        BY <3>1, <4>1
    <3>2. CASE q # o
      <4>1. Right(q, worker["cr"].copy.statuses) \/ OwnPending(q)
        BY <2>2 DEF MonitorInv, CurrentInv
      <4> QED
        BY <1>8, <1>13, <1>16, <3>2, <4>1
    <3> QED
      BY <3>1, <3>2
  <2> QED
    BY <1>1, <1>8, <2>1, <2>2 DEF MonitorInv, CurrentInv, Copying, Right, Fine
<1>18. OvertakenInv'
  <2>1. ASSUME NEW q \in overtaken, q # o PROVE ~Busy(q)'
    <3>1. q \in Objects
      BY DEF MonitorInv, M!TypeOK
    <3> QED
      BY <1>4, <1>5, <2>1, <3>1, Controllers DEF MonitorInv, OvertakenInv, Busy, M!Controller
  <2> QED
    BY <1>1, <1>8, <2>1 DEF MonitorInv, OvertakenInv
<1> QED
  BY <1>6, <1>7, <1>9, <1>11, <1>12, <1>17, <1>18 DEF MonitorInv

LEMMA FindCRKeeps ==
    ASSUME NEW k \in {"status", "plain"}, MonitorInv, M!FindCR(k)
    PROVE  MonitorInv'
<1> DEFINE q == worker[k].request
           found == [worker[k] EXCEPT !.at = "write",
                       !.copy = [rv |-> crCached.rv,
                                 statuses |-> M!UpdateStatuses(crCached.statuses, q,
                                                             worker[k].status)]]
<1>1. /\ worker[k].at = "find"
      /\ UNCHANGED <<object, cached, cr, crCached, tracked, queue, registered,
                     watching, handled, acStatus, overtaken>>
  BY DEF M!FindCR
<1>2. /\ worker \in [M!Controller -> M!Worker] /\ k \in M!Controller /\ worker[k] \in M!Worker
      /\ crCached \in M!CR \cup {NoCR}
  BY DEF MonitorInv, M!TypeOK, M!Controller
<1>3. M!ControllerOf(q) = k /\ q \in Objects
  <2>1. M!ControllerOf(q) = k /\ q \in Objects \cup {"cr"}
    BY <1>1, <1>2 DEF MonitorInv, M!TypeOK, M!Worker
  <2> QED
    BY <2>1 DEF M!ControllerOf
<1>4. M!Idle \in M!Worker /\ M!Idle.at = "idle"
  BY DEF M!Idle, M!Worker, M!CR, M!Statuses, M!NoStatuses
<1>5. ASSUME crCached # NoCR
      PROVE  found \in M!Worker /\ crCached \in M!CR
  <2>1. crCached \in M!CR /\ crCached.rv \in Nat /\ crCached.statuses \in M!Statuses
    BY <1>2, <1>5 DEF M!CR
  <2>2. M!UpdateStatuses(crCached.statuses, q, worker[k].status) \in M!Statuses
    BY <1>2, <2>1 DEF M!UpdateStatuses, M!Statuses, M!Worker
  <2> QED
    BY <1>2, <2>1, <2>2 DEF M!Worker, M!CR
<1>6. \/ /\ crCached # NoCR /\ worker' = [worker EXCEPT ![k] = found] /\ lost' = lost
      \/ /\ worker' = [worker EXCEPT ![k] = M!Idle]
         /\ (lost' = lost /\ crCached = NoCR) \/ lost' = TRUE
  <2>1. CASE crCached # NoCR /\ UNCHANGED lost
             /\ worker' = [worker EXCEPT ![k].at = "write",
                             ![k].copy = [crCached EXCEPT !.statuses =
                                             M!UpdateStatuses(@, worker[k].request, worker[k].status)]]
    <3>1. [crCached EXCEPT !.statuses = M!UpdateStatuses(@, q, worker[k].status)]
             = [rv |-> crCached.rv,
                statuses |-> M!UpdateStatuses(crCached.statuses, q, worker[k].status)]
      BY <1>5, <2>1 DEF M!CR
    <3> DEFINE c == [rv |-> crCached.rv,
                     statuses |-> M!UpdateStatuses(crCached.statuses, q, worker[k].status)]
    <3>2. worker' = [worker EXCEPT ![k].at = "write", ![k].copy = c]
      BY <2>1, <3>1
    <3> HIDE DEF c
    <3>3. [worker EXCEPT ![k].at = "write", ![k].copy = c]
             = [worker EXCEPT ![k] = [worker[k] EXCEPT !.at = "write", !.copy = c]]
      BY <1>2
    <3> QED
      BY <2>1, <3>2, <3>3 DEF c
  <2> QED
    BY <2>1 DEF M!FindCR
<1> HIDE DEF q, found
<1>7. found.at = "write" /\ found.request = q /\ found.status = worker[k].status
  BY <1>2 DEF found, q, M!Worker
<1>8. /\ found.copy.rv = crCached.rv
      /\ found.copy.statuses = M!UpdateStatuses(crCached.statuses, q, worker[k].status)
  BY <1>2 DEF found, M!Worker
<1>9. /\ \A j \in M!Controller : j # k => worker'[j] = worker[j]
      /\ \/ crCached # NoCR /\ worker'[k] = found /\ lost' = lost
         \/ worker'[k] = M!Idle /\ ((lost' = lost /\ crCached = NoCR) \/ lost' = TRUE)
      /\ worker' \in [M!Controller -> M!Worker]
  BY <1>2, <1>4, <1>5, <1>6
<1>10. M!TypeOK'
  <2>1. \A j \in M!Controller : worker'[j].at # "idle" => M!ControllerOf(worker'[j].request) = j
    BY <1>1, <1>3, <1>4, <1>7, <1>9 DEF MonitorInv, M!TypeOK
  <2> QED
    BY <1>1, <1>9, <2>1 DEF MonitorInv, M!TypeOK
<1>11. ThereInv'
  BY <1>1 DEF MonitorInv, ThereInv
<1>12. worker'["cr"] = worker["cr"]
  BY <1>9 DEF M!Controller
<1>13. WorkInv'
  <2>1. ASSUME NEW j \in {"status", "plain"}, worker'[j].at # "idle"
        PROVE  WorksRight(j)'
    <3>1. worker'[j].status = worker[j].status /\ worker'[j].request = worker[j].request
          /\ worker[j].at # "idle"
      BY <1>1, <1>4, <1>7, <1>9, <2>1 DEF M!Controller, q
    <3> QED
      BY <1>1, <3>1 DEF MonitorInv, WorkInv, WorksRight
  <2> QED
    BY <1>12, <2>1 DEF MonitorInv, WorkInv, WorksRight
<1>14. TrackInv'
  BY <1>1, <1>4, <1>9 DEF MonitorInv, TrackInv, Copying
<1>15. VersionInv'
  <2> SUFFICES ASSUME cr # NoCR PROVE VersionInv'
    BY <1>1 DEF VersionInv
  <2>1. cr \in M!CR /\ cr.rv \in Nat
    BY DEF MonitorInv, M!TypeOK, M!CR
  <2>2. ASSUME crCached # NoCR PROVE crCached.rv \in Nat
    BY <1>5, <2>2 DEF M!CR
  <2>3. ASSUME worker'[k] = found, crCached # NoCR
        PROVE  /\ found.copy.rv <= cr.rv
               /\ found.copy.rv = cr.rv =>
                     found.copy.statuses = M!UpdateStatuses(cr.statuses, q, worker[k].status)
    BY <1>8, <2>1, <2>2, <2>3 DEF MonitorInv, VersionInv
  <2>4. \A j \in M!Controller : Copying(j)' => worker'[j].copy.rv <= cr.rv
    BY <1>4, <1>9, <2>3 DEF MonitorInv, VersionInv, Copying
  <2>5. \A j \in {"status", "plain"} :
           worker'[j].at = "write" /\ worker'[j].copy.rv = cr.rv =>
              worker'[j].copy.statuses =
                 M!UpdateStatuses(cr.statuses, worker'[j].request, worker'[j].status)
    BY <1>4, <1>7, <1>9, <2>3 DEF MonitorInv, VersionInv, M!Controller
  <2> QED
    BY <1>1, <2>4, <2>5 DEF MonitorInv, VersionInv, M!UpdateStatuses
<1>16. ASSUME NEW p \in Objects, OwnPending(p), cr # NoCR, ~lost' PROVE OwnPending(p)' \/ CRPending'
  <2>1. CASE p \in queue
    BY <1>1, <2>1 DEF OwnPending
  <2>2. CASE Busy(p) /\ p # q
    BY <1>9, <2>2, Controllers DEF OwnPending, Busy, M!Controller, q
  <2>3. CASE Busy(p) /\ p = q /\ worker'[k] = found
    BY <1>3, <1>7, <2>3 DEF OwnPending, Busy
  <2>4. CASE worker'[k] = M!Idle
    BY <1>1, <1>4, <1>7, <1>9, <1>16, <2>4 DEF CRPending
  <2> QED
    BY <1>9, <1>16, <2>1, <2>2, <2>3, <2>4 DEF OwnPending
<1>17. CRPending' = CRPending
  BY <1>1, <1>12 DEF CRPending
<1>18. CurrentInv'
  <2> SUFFICES ASSUME cr # NoCR, ~lost' PROVE CurrentInv'
    BY <1>1 DEF CurrentInv
  <2>1. ~lost
    BY <1>9
  <2>2. \A p, s : Right(p, s)' = Right(p, s)
    BY <1>1 DEF Right, Fine
  <2>3. \A p \in Objects : Right(p, cr.statuses) \/ OwnPending(p)' \/ CRPending'
    BY <1>16, <1>17, <2>1 DEF MonitorInv, CurrentInv
  <2>4. ASSUME Copying("cr"), NEW p \in Objects, OwnPending(p) PROVE OwnPending(p)'
    <3>1. crCached # NoCR
      BY <2>4 DEF MonitorInv, TrackInv, M!Controller
    <3>2. CASE p = q
      BY <1>3, <1>7, <1>9, <3>1, <3>2 DEF OwnPending, Busy
    <3>3. CASE p # q
      BY <1>1, <1>9, <2>4, <3>3, Controllers DEF OwnPending, Busy, M!Controller, q
    <3> QED
      BY <3>2, <3>3
  <2>5. Copying("cr")' = Copying("cr")
    BY <1>12 DEF Copying
  <2>6. ASSUME Copying("cr"), worker["cr"].copy.rv = cr.rv, NEW p \in Objects,
               M!ControllerOf(p) \in worker["cr"].listed
        PROVE  Right(p, worker["cr"].copy.statuses) \/ OwnPending(p)'
    BY <2>1, <2>4, <2>6 DEF MonitorInv, CurrentInv
  <2> QED
    BY <1>1, <1>12, <2>1, <2>2, <2>3, <2>5, <2>6 DEF MonitorInv, CurrentInv
<1>19. OvertakenInv'
  <2>1. ASSUME NEW p \in overtaken PROVE ~Busy(p)'
    <3>1. p \in Objects /\ ~Busy(p)
      BY DEF MonitorInv, M!TypeOK, OvertakenInv
    <3>2. CASE p = q
      BY <1>1, <1>3, <3>1, <3>2 DEF Busy, q
    <3>3. CASE p # q
      BY <1>4, <1>7, <1>9, <3>1, <3>3, Controllers DEF Busy, M!Controller
    <3> QED
      BY <3>2, <3>3
  <2> QED
    BY <1>1, <1>12, <2>1 DEF MonitorInv, OvertakenInv
<1> QED
  BY <1>10, <1>11, <1>13, <1>14, <1>15, <1>18, <1>19 DEF MonitorInv

\* What the controllers of the objects do not change while the one of the CR works.
LEMMA OwnPendingKept ==
    ASSUME NEW q \in Objects, queue \ {"cr"} \subseteq queue',
           \A j \in {"status", "plain"} : worker'[j] = worker[j], OwnPending(q)
    PROVE  OwnPending(q)'
BY Controllers, NotCR DEF OwnPending, Busy

LEMMA ReconcileCRKeeps == MonitorInv /\ M!ReconcileCR => MonitorInv'
<1> SUFFICES ASSUME MonitorInv, M!ReconcileCR PROVE MonitorInv'
  OBVIOUS
<1> DEFINE taken == [M!Idle EXCEPT !.at = "list", !.copy = crCached]
<1>1. /\ worker["cr"].at = "idle" /\ queue' = queue \ {"cr"}
      /\ overtaken' = {}
      /\ worker' = IF crCached # NoCR THEN [worker EXCEPT !["cr"] = taken] ELSE worker
      /\ UNCHANGED <<object, cached, cr, crCached, tracked, registered, watching,
                     handled, acStatus, lost>>
  BY DEF M!ReconcileCR
<1>2. /\ worker \in [M!Controller -> M!Worker] /\ crCached \in M!CR \cup {NoCR}
      /\ "cr" \in M!Controller
  BY DEF MonitorInv, M!TypeOK, M!Controller
<1>3. ASSUME crCached # NoCR PROVE taken \in M!Worker
  BY <1>2, <1>3 DEF M!Idle, M!Worker, M!CR, M!Statuses, M!NoStatuses
<1>4. taken.at = "list" /\ taken.copy = crCached /\ taken.listed = {} /\ taken.request = "cr"
  BY DEF M!Idle
<1> HIDE DEF taken
<1>5. /\ \A j \in M!Controller : j # "cr" => worker'[j] = worker[j]
      /\ \/ crCached # NoCR /\ worker'["cr"] = taken
         \/ crCached = NoCR /\ worker' = worker
      /\ worker' \in [M!Controller -> M!Worker]
  BY <1>1, <1>2, <1>3
<1>6. M!TypeOK'
  <2>1. M!ControllerOf("cr") = "cr"
    BY DEF M!ControllerOf
  <2>2. \A j \in M!Controller : worker'[j].at # "idle" => M!ControllerOf(worker'[j].request) = j
    BY <1>1, <1>4, <1>5, <2>1 DEF MonitorInv, M!TypeOK
  <2> QED
    BY <1>1, <1>5, <2>2 DEF MonitorInv, M!TypeOK
<1>7. ThereInv'
  BY <1>1 DEF MonitorInv, ThereInv
<1>8. \A j \in {"status", "plain"} : worker'[j] = worker[j]
  BY <1>5 DEF M!Controller
<1>9. ASSUME NEW j \in {"status", "plain"}, worker[j].at # "idle"
      PROVE  worker[j].request \in queue => worker[j].request \in queue'
  <2>1. M!ControllerOf(worker[j].request) = j
    BY <1>9 DEF MonitorInv, M!TypeOK, M!Controller
  <2> QED
    BY <1>1, <2>1 DEF M!ControllerOf
<1>10. WorkInv'
  BY <1>1, <1>4, <1>5, <1>8, <1>9 DEF MonitorInv, WorkInv, WorksRight
<1>11. TrackInv'
  BY <1>1, <1>4, <1>5 DEF MonitorInv, TrackInv, Copying
<1>12. VersionInv'
  <2> SUFFICES ASSUME cr # NoCR PROVE VersionInv'
    BY <1>1 DEF VersionInv
  <2>1. ASSUME crCached # NoCR PROVE crCached.rv <= cr.rv
    <3>1. cr.rv \in Nat /\ crCached.rv \in Nat
      BY <2>1 DEF MonitorInv, M!TypeOK, M!CR
    <3> QED
      BY <2>1, <3>1 DEF MonitorInv, VersionInv
  <2>2. \A j \in M!Controller : Copying(j)' => worker'[j].copy.rv <= cr.rv
    BY <1>1, <1>4, <1>5, <2>1 DEF MonitorInv, VersionInv, Copying
  <2> QED
    BY <1>1, <1>8, <2>2 DEF MonitorInv, VersionInv, M!UpdateStatuses
<1>13. CurrentInv'
  <2> SUFFICES ASSUME cr # NoCR, ~lost PROVE CurrentInv'
    BY <1>1 DEF CurrentInv
  <2>1. CASE crCached # NoCR
    <3>1. worker'["cr"] = taken
      BY <1>5, <2>1
    <3> QED
      BY <1>1, <1>4, <3>1 DEF MonitorInv, CurrentInv, CRPending
  <2>2. CASE crCached = NoCR
    <3>1. ~Copying("cr")' /\ CRPending'
      BY <1>1, <1>5, <2>2 DEF Copying, CRPending
    <3> QED
      BY <1>1, <3>1 DEF MonitorInv, CurrentInv
  <2> QED
    BY <2>1, <2>2
<1>14. OvertakenInv'
  BY <1>1, <1>4, <1>5 DEF MonitorInv, OvertakenInv
<1> QED
  BY <1>6, <1>7, <1>10, <1>11, <1>12, <1>13, <1>14 DEF MonitorInv

LEMMA ListObjectsKeeps ==
    ASSUME NEW k \in {"status", "plain"}, MonitorInv, M!ListObjects(k)
    PROVE  MonitorInv'
<1> DEFINE w == worker["cr"]
           v == worker'["cr"]
           found == [q \in Objects |->
                       IF q \notin M!ObjectsOf(k) THEN w.copy.statuses[q]
                       ELSE IF cached[q].there THEN cached[q].status ELSE 0]
           at == IF w.listed \cup {k} = {"status", "plain"} THEN "write" ELSE "list"
<1>0. worker' = [worker EXCEPT !["cr"].copy.statuses = found,
                   !["cr"].listed = @ \cup {k}, !["cr"].at = at]
  BY DEF M!ListObjects
<1>1. /\ w.at = "list"
      /\ UNCHANGED <<object, cached, cr, crCached, tracked, queue, registered, watching,
                     handled, acStatus, lost, overtaken>>
  BY DEF M!ListObjects
<1>2. /\ worker \in [M!Controller -> M!Worker] /\ "cr" \in M!Controller /\ w \in M!Worker
      /\ w.copy \in M!CR /\ cached \in [Objects -> M!Object] /\ w.copy.statuses \in [Objects -> Nat]
  BY DEF MonitorInv, M!TypeOK, M!Controller, M!Worker, M!CR, M!Statuses
<1>3. found \in [Objects -> Nat]
  BY <1>2 DEF M!Object
<1>4. at \in {"list", "write"} /\ (at = "write" => w.listed \cup {k} = {"status", "plain"})
  OBVIOUS
<1>5. ASSUME NEW q \in Objects, M!ControllerOf(q) # k PROVE found[q] = w.copy.statuses[q]
  BY <1>5 DEF M!ObjectsOf
<1>6. ASSUME NEW q \in Objects, M!ControllerOf(q) = k PROVE Fine(q, found)
  BY <1>6 DEF M!ObjectsOf, Fine, MonitorInv, ThereInv
<1> HIDE DEF found, at
<1>7. /\ \A j \in M!Controller : j # "cr" => worker'[j] = worker[j]
      /\ v = [w EXCEPT !.copy.statuses = found, !.listed = @ \cup {k}, !.at = at]
  BY <1>0, <1>2
<1>8. /\ v \in M!Worker
      /\ v.at = at /\ v.request = w.request /\ v.listed = w.listed \cup {k}
      /\ v.copy.rv = w.copy.rv /\ v.copy.statuses = found
  <2> DEFINE c == [w.copy EXCEPT !.statuses = found]
             l == w.listed \cup {k}
  <2>1. w \in M!Worker /\ found \in M!Statuses
    BY <1>2, <1>3 DEF M!Statuses
  <2>2. v = [w EXCEPT !.copy.statuses = found, !.listed = @ \cup {k}, !.at = at]
    BY <1>7
  <2> HIDE DEF w, v
  <2>3. c \in M!CR /\ c.rv = w.copy.rv /\ c.statuses = found
    BY <2>1 DEF M!Worker, M!CR
  <2>4. l \in SUBSET {"status", "plain"}
    BY <2>1 DEF M!Worker
  <2>5. v = [w EXCEPT !.copy = c, !.listed = l, !.at = at]
    BY <2>1, <2>2 DEF M!Worker
  <2> HIDE DEF c, l
  <2>6. v \in M!Worker /\ v.copy = c
    BY <1>4, <2>1, <2>3, <2>4, <2>5 DEF M!Worker
  <2>7. v.at = at /\ v.request = w.request /\ v.listed = l
    BY <2>1, <2>5 DEF M!Worker
  <2> QED
    BY <2>3, <2>6, <2>7 DEF l
<1>13. worker' \in [M!Controller -> M!Worker]
  <2>1. worker' = [j \in M!Controller |-> IF j = "cr" THEN v ELSE worker[j]]
    BY <1>0, <1>2, <1>7
  <2> HIDE DEF v
  <2> QED
    BY <1>2, <1>8, <2>1
<1> HIDE DEF v
<1>14. worker'["cr"] = v
  BY DEF v
<1>15. \A j \in {"status", "plain"} : worker'[j] = worker[j]
  BY <1>7 DEF M!Controller
<1>16. M!TypeOK'
  <2>1. \A j \in M!Controller : worker'[j].at # "idle" => M!ControllerOf(worker'[j].request) = j
    <3>1. w.request = "cr"
      BY <1>1, <1>2 DEF MonitorInv, M!TypeOK, M!Worker, M!ControllerOf
    <3>2. v.request = w.request /\ \A j \in M!Controller : j # "cr" => worker'[j] = worker[j]
      BY <1>7, <1>8
    <3> HIDE DEF w
    <3> QED
      BY <1>14, <3>1, <3>2 DEF MonitorInv, M!TypeOK, M!ControllerOf
  <2> QED
    BY <1>1, <1>13, <2>1 DEF MonitorInv, M!TypeOK
<1>17. ThereInv'
  BY <1>1 DEF MonitorInv, ThereInv
<1>18. WorkInv'
  BY <1>1, <1>4, <1>8, <1>14, <1>15 DEF MonitorInv, WorkInv, WorksRight
<1>19. \A j \in M!Controller : Copying(j)' = Copying(j)
  <2>1. \A j \in M!Controller : j # "cr" => worker'[j] = worker[j]
    BY <1>7
  <2>2. v.at \in {"list", "write"} /\ w.at = "list"
    BY <1>1, <1>4, <1>8
  <2> QED
    BY <1>14, <2>1, <2>2 DEF Copying
<1>20. TrackInv'
  BY <1>1, <1>19 DEF MonitorInv, TrackInv
<1>21. VersionInv'
  <2>1. \A j \in M!Controller : worker'[j].copy.rv = worker[j].copy.rv
    BY <1>7, <1>8, <1>14
  <2> QED
    BY <1>1, <1>15, <1>19, <2>1 DEF MonitorInv, VersionInv, M!UpdateStatuses
<1>23. k \notin w.listed
  BY DEF M!ListObjects
<1>22. CurrentInv'
  <2> SUFFICES ASSUME cr # NoCR, ~lost PROVE CurrentInv'
    BY <1>1 DEF CurrentInv
  <2>1. \A q, s : Right(q, s)' = Right(q, s)
    BY <1>1 DEF Right, Fine
  <2>2. ASSUME NEW q \in Objects, OwnPending(q) PROVE OwnPending(q)'
    BY <1>1, <1>15, <2>2, OwnPendingKept
  <2>3. CRPending => CRPending'
    BY <1>1, <1>4, <1>8, <1>14 DEF CRPending
  <2>4. ASSUME w.copy.rv = cr.rv, NEW q \in Objects, M!ControllerOf(q) \in w.listed \cup {k}
        PROVE  Right(q, found) \/ OwnPending(q)
    <3>1. CASE M!ControllerOf(q) = k
      BY <1>1, <1>6, <1>23, <3>1 DEF Right, MonitorInv, OvertakenInv
    <3>2. CASE M!ControllerOf(q) # k
      <4>1. Right(q, w.copy.statuses) \/ OwnPending(q)
        BY <1>1, <2>4, <3>2 DEF MonitorInv, CurrentInv, Copying
      <4> QED
        BY <1>5, <3>2, <4>1 DEF Right, Fine
    <3> QED
      BY <3>1, <3>2
  <2>5. \A q \in Objects : Right(q, cr.statuses) \/ OwnPending(q)' \/ CRPending'
    BY <2>2, <2>3 DEF MonitorInv, CurrentInv
  <2> QED
    BY <1>1, <1>8, <1>14, <2>1, <2>2, <2>4, <2>5 DEF MonitorInv, CurrentInv
<1>24. OvertakenInv'
  BY <1>1, <1>4, <1>8, <1>14, <1>15, Controllers DEF MonitorInv, M!TypeOK, OvertakenInv, Busy
<1> QED
  BY <1>16, <1>17, <1>18, <1>20, <1>21, <1>22, <1>24 DEF MonitorInv

LEMMA RestartKeeps == MonitorInv /\ M!MonitorRestarts => MonitorInv'
<1> SUFFICES ASSUME MonitorInv, M!MonitorRestarts PROVE MonitorInv'
  OBVIOUS
<1>1. /\ cached' = object /\ crCached' = cr
      /\ queue' = {o \in Objects : object[o].there} \cup (IF cr = NoCR THEN {} ELSE {"cr"})
      /\ worker' = [k \in M!Controller |-> M!Idle] /\ overtaken' = {}
      /\ UNCHANGED <<object, cr, tracked, registered, watching, handled, acStatus, lost>>
  BY DEF M!MonitorRestarts
<1>2. M!Idle \in M!Worker /\ M!Idle.at = "idle"
  BY DEF M!Idle, M!Worker, M!CR, M!Statuses, M!NoStatuses
<1>3. worker' \in [M!Controller -> M!Worker] /\ \A k \in M!Controller : worker'[k].at = "idle"
  BY <1>1, <1>2
<1>4. M!TypeOK'
  BY <1>1, <1>3 DEF MonitorInv, M!TypeOK
<1>5. ThereInv'
  BY <1>1 DEF MonitorInv, ThereInv
<1>6. WorkInv'
  BY <1>3 DEF WorkInv, M!Controller
<1>7. TrackInv' /\ VersionInv'
  BY <1>1, <1>3 DEF MonitorInv, TrackInv, VersionInv, Copying, M!Controller
<1>8. CurrentInv'
  <2>1. \A q \in Objects : Right(q, cr.statuses)' \/ q \in queue'
    BY <1>1 DEF Right, Fine
  <2>2. ~Copying("cr")'
    BY <1>3 DEF Copying, M!Controller
  <2>3. cr # NoCR => CRPending'
    BY <1>1 DEF CRPending
  <2> QED
    BY <1>1, <2>1, <2>2, <2>3 DEF MonitorInv, CurrentInv, OwnPending
<1>9. OvertakenInv'
  <2>1. worker'["cr"].listed = {}
    BY <1>1 DEF M!Idle, M!Controller
  <2> QED
    BY <1>1, <2>1 DEF OvertakenInv
<1> QED
  BY <1>4, <1>5, <1>6, <1>7, <1>8, <1>9 DEF MonitorInv

LEMMA TrackKeeps == MonitorInv /\ M!AddStatusTracker => MonitorInv'
<1> SUFFICES ASSUME MonitorInv, M!AddStatusTracker PROVE MonitorInv'
  OBVIOUS
<1>1. /\ ~tracked /\ tracked' = TRUE /\ cr' = [rv |-> 0, statuses |-> M!NoStatuses]
      /\ UNCHANGED <<object, cached, crCached, queue, worker, registered, watching,
                     handled, acStatus, lost, overtaken>>
  BY DEF M!AddStatusTracker
<1>2. crCached = NoCR /\ ~handled /\ \A k \in M!Controller : ~Copying(k)
  BY <1>1 DEF MonitorInv, TrackInv
<1>3. cr' \in M!CR
  BY <1>1 DEF M!CR, M!NoStatuses, M!Statuses
<1>4. M!TypeOK'
  BY <1>1, <1>3 DEF MonitorInv, M!TypeOK
<1>5. ThereInv' /\ WorkInv'
  BY <1>1 DEF MonitorInv, ThereInv, WorkInv, WorksRight
<1>6. TrackInv' /\ VersionInv'
  BY <1>1, <1>2 DEF TrackInv, VersionInv, Copying, M!Controller
<1>7. CurrentInv'
  BY <1>1, <1>2 DEF CurrentInv, CRPending, Copying, M!Controller
<1>8. OvertakenInv'
  BY <1>1 DEF MonitorInv, OvertakenInv, Busy
<1> QED
  BY <1>4, <1>5, <1>6, <1>7, <1>8 DEF MonitorInv

LEMMA RsyncKeeps ==
    MonitorInv /\ (\/ M!DeleteStatusTracker \/ M!StartClusterWatcher
                   \/ M!HandleStatusUpdate \/ M!RsyncRestarts) => MonitorInv'
<1> SUFFICES ASSUME MonitorInv,
                    \/ M!DeleteStatusTracker \/ M!StartClusterWatcher
                    \/ M!HandleStatusUpdate \/ M!RsyncRestarts
             PROVE  MonitorInv'
  OBVIOUS
<1>1. /\ UNCHANGED <<object, cached, crCached, tracked, queue, worker, overtaken>>
      /\ cr' = NoCR \/ cr' = cr
      /\ watching' => registered'
      /\ handled' \in BOOLEAN /\ (cr' # NoCR /\ handled' /\ ~lost' => acStatus' = cr'.statuses)
      /\ acStatus' = acStatus \/ (cr # NoCR /\ acStatus' = cr.statuses)
      /\ ~lost' => ~lost
      /\ (cr' # NoCR \/ handled') => tracked
  <2>1. M!TypeOK /\ TrackInv /\ CurrentInv
    BY DEF MonitorInv
  <2>2. CASE M!DeleteStatusTracker
    BY <2>1, <2>2 DEF M!DeleteStatusTracker, M!TypeOK, TrackInv
  <2>3. CASE M!StartClusterWatcher
    BY <2>1, <2>3 DEF M!StartClusterWatcher, M!TypeOK, TrackInv, CurrentInv
  <2>4. CASE M!HandleStatusUpdate
    BY <2>1, <2>4 DEF M!HandleStatusUpdate, M!TypeOK, TrackInv
  <2>5. CASE M!RsyncRestarts
    BY <2>1, <2>5 DEF M!RsyncRestarts, M!TypeOK, TrackInv
  <2> QED
    BY <2>2, <2>3, <2>4, <2>5
<1>2. M!TypeOK'
  <2>1. acStatus' \in M!Statuses
    BY <1>1 DEF MonitorInv, M!TypeOK, M!CR
  <2>2. cr' \in M!CR \cup {NoCR}
    BY <1>1 DEF MonitorInv, M!TypeOK
  <2> QED
    BY <1>1, <2>1, <2>2 DEF MonitorInv, M!TypeOK
<1>3. ThereInv' /\ WorkInv'
  BY <1>1 DEF MonitorInv, ThereInv, WorkInv, WorksRight
<1>4. TrackInv'
  BY <1>1 DEF MonitorInv, TrackInv, Copying
<1>5. VersionInv'
  BY <1>1 DEF MonitorInv, VersionInv, Copying, M!UpdateStatuses
<1>6. CurrentInv'
  BY <1>1 DEF MonitorInv, CurrentInv, Right, Fine, OwnPending, Busy, CRPending, Copying
<1>7. OvertakenInv'
  BY <1>1 DEF MonitorInv, OvertakenInv, Busy
<1> QED
  BY <1>2, <1>3, <1>4, <1>5, <1>6, <1>7 DEF MonitorInv

LEMMA WriteKeeps ==
    ASSUME NEW k \in M!Controller, MonitorInv, M!Write(k)
    PROVE  MonitorInv'
<1> DEFINE w == worker[k]
           q == w.request
           fits == cr # NoCR /\ cr.rv = w.copy.rv
           same == w.copy.statuses = cr.statuses
           next == [rv |-> cr.rv + 1, statuses |-> w.copy.statuses]
           new == IF same THEN cr ELSE next
           passed == IF k # "cr" /\ same /\ M!ListedOtherwise(q, w.status) THEN {q} ELSE {}
<1>1. /\ w.at = "write" /\ worker' = [worker EXCEPT ![k] = M!Idle]
      /\ handled' = (handled /\ cr' = cr)
      /\ UNCHANGED <<object, cached, crCached, tracked, registered, watching, acStatus, lost>>
  BY DEF M!Write
<1>3. /\ queue' = queue \/ queue' = queue \cup {q}
      /\ cr' = cr \/ (fits /\ cr' = new)
      /\ \/ q \in queue' /\ overtaken' = overtaken
         \/ fits /\ cr' = new /\ overtaken' = overtaken \cup passed
  BY DEF M!Write, M!Requeued
<1>4. /\ worker \in [M!Controller -> M!Worker] /\ w \in M!Worker /\ w.copy \in M!CR
      /\ w.copy.statuses \in M!Statuses /\ q \in Objects \cup {"cr"} /\ w.copy.rv \in Nat
  BY DEF MonitorInv, M!TypeOK, M!Worker, M!CR
<1>5. M!Idle \in M!Worker /\ M!Idle.at = "idle"
  BY DEF M!Idle, M!Worker, M!CR, M!Statuses, M!NoStatuses
<1>6. /\ \A j \in M!Controller : j # k => worker'[j] = worker[j]
      /\ worker'[k] = M!Idle /\ worker' \in [M!Controller -> M!Worker]
  BY <1>1, <1>4, <1>5
<1>7. M!ControllerOf(q) = k
  BY <1>1 DEF MonitorInv, M!TypeOK
<1>8. queue \subseteq queue'
  BY <1>3
\* The CR is as it was, or the copy and newer.
<1>9. \/ cr' = cr
      \/ /\ cr # NoCR /\ cr.rv = w.copy.rv /\ cr' \in M!CR
         /\ cr'.rv = cr.rv + 1 /\ cr'.statuses = w.copy.statuses
  <2>1. CASE fits /\ cr' = next
    <3>1. next \in M!CR
      BY <1>4, <2>1 DEF M!CR
    <3> QED
      BY <2>1, <3>1
  <2> QED
    BY <1>3, <2>1
<1>10. fits /\ cr' = new => cr'.statuses = w.copy.statuses /\ cr.rv = w.copy.rv
  OBVIOUS
<1>11. cr' # NoCR => cr # NoCR
  BY <1>9
<1>2. passed \subseteq {q} /\ (passed # {} => k # "cr" /\ same /\ M!ListedOtherwise(q, w.status))
  OBVIOUS
<1>12. same /\ fits /\ cr' = new => cr' = cr
  OBVIOUS
<1>29. same \/ new.rv = cr.rv + 1
  BY DEF new
<1>30. k # "cr" /\ same /\ M!ListedOtherwise(q, w.status) => passed = {q}
  OBVIOUS
<1> HIDE DEF passed
<1> HIDE DEF fits, new, same, next
<1>13. M!TypeOK'
  <2>1. cr' \in M!CR \cup {NoCR} /\ handled' \in BOOLEAN /\ queue' \subseteq Objects \cup {"cr"}
    BY <1>1, <1>3, <1>4, <1>9 DEF MonitorInv, M!TypeOK
  <2>2. \A j \in M!Controller : worker'[j].at # "idle" => M!ControllerOf(worker'[j].request) = j
    BY <1>5, <1>6 DEF MonitorInv, M!TypeOK
  <2>3. passed \subseteq Objects
    BY <1>2, <1>4, <1>7 DEF M!ControllerOf
  <2>4. overtaken' \subseteq Objects
    BY <1>3, <2>3 DEF MonitorInv, M!TypeOK
  <2> QED
    BY <1>1, <1>6, <2>1, <2>2, <2>4 DEF MonitorInv, M!TypeOK
<1>14. ThereInv'
  BY <1>1 DEF MonitorInv, ThereInv
<1>15. \A j \in M!Controller : worker'[j].at # "idle" => worker'[j] = worker[j]
  BY <1>5, <1>6
<1>16. WorkInv'
  <2>1. worker'["cr"].at # "find"
        /\ (worker'["cr"].at = "write" => worker'["cr"].listed = {"status", "plain"})
    BY <1>15 DEF MonitorInv, WorkInv, M!Controller
  <2>2. ASSUME NEW j \in {"status", "plain"}, worker'[j].at # "idle"
        PROVE  WorksRight(j)'
    <3>1. worker'[j] = worker[j]
      BY <1>15, <2>2 DEF M!Controller
    <3> QED
      BY <1>1, <1>8, <2>2, <3>1 DEF MonitorInv, WorkInv, WorksRight
  <2> QED
    BY <2>1, <2>2 DEF WorkInv
<1>17. \A j \in M!Controller : Copying(j)' => Copying(j) /\ worker'[j] = worker[j]
  BY <1>15 DEF Copying
<1>18. TrackInv'
  BY <1>1, <1>11, <1>17 DEF MonitorInv, TrackInv
<1>19. VersionInv'
  <2> SUFFICES ASSUME cr' # NoCR PROVE VersionInv'
    BY DEF VersionInv
  <2>1. cr # NoCR /\ cr.rv \in Nat
    BY <1>11 DEF MonitorInv, M!TypeOK, M!CR
  <2>2. ASSUME NEW j \in M!Controller, Copying(j)' PROVE worker'[j].copy.rv <= cr.rv
    BY <1>17, <2>1, <2>2 DEF MonitorInv, VersionInv
  <2>3. ASSUME NEW j \in M!Controller PROVE worker'[j].copy.rv \in Nat
    BY <1>6 DEF M!Worker, M!CR
  <2>4. CASE cr' = cr
    BY <1>1, <1>15, <2>1, <2>2, <2>4 DEF MonitorInv, VersionInv, M!UpdateStatuses, M!Controller
  <2>5. CASE cr'.rv = cr.rv + 1
    <3>1. crCached # NoCR => crCached.rv < cr'.rv
      <4>1. crCached # NoCR => crCached.rv \in Nat
        BY DEF MonitorInv, M!TypeOK, M!CR
      <4> QED
        BY <2>1, <2>5, <4>1 DEF MonitorInv, VersionInv
    <3>2. \A j \in M!Controller : Copying(j)' => worker'[j].copy.rv < cr'.rv
      BY <2>1, <2>2, <2>3, <2>5
    <3>3. \A j \in M!Controller : Copying(j)' =>
             worker'[j].copy.rv <= cr'.rv /\ worker'[j].copy.rv # cr'.rv
      BY <2>1, <2>3, <2>5, <3>2
    <3>4. \A j \in {"status", "plain"} : worker'[j].at = "write" => worker'[j].copy.rv # cr'.rv
      BY <3>3 DEF Copying, M!Controller
    <3> QED
      BY <1>1, <3>1, <3>3, <3>4 DEF VersionInv
  <2> QED
    BY <1>9, <2>4, <2>5
<1>20. overtaken' = overtaken \/ (fits /\ cr' = new /\ overtaken' = overtaken \cup passed)
  BY <1>3
<1>21. \A p \in Objects : p # q => ((p \in overtaken') <=> (p \in overtaken))
  BY <1>2, <1>20
<1>22. OvertakenInv'
  <2>1. ASSUME NEW p \in overtaken' PROVE ~Busy(p)'
    <3>1. p \in Objects
      BY <1>13 DEF M!TypeOK
    <3>2. CASE p = q
      BY <1>5, <1>6, <1>7, <3>2 DEF Busy
    <3>3. CASE p # q
      <4>1. ~Busy(p)
        BY <1>21, <2>1, <3>1, <3>3 DEF MonitorInv, OvertakenInv
      <4> QED
        BY <1>15, <3>1, <4>1, Controllers DEF Busy, M!Controller
    <3> QED
      BY <3>2, <3>3
  <2>2. worker'["cr"].at = "list" =>
           \A p \in overtaken' : M!ControllerOf(p) \in worker'["cr"].listed
    <3>1. worker'["cr"].at = "list" => worker'["cr"] = worker["cr"]
      BY <1>15 DEF M!Controller
    <3>2. passed # {} => M!ControllerOf(q) \in worker["cr"].listed
      BY <1>2 DEF M!ListedOtherwise
    <3> QED
      BY <1>2, <1>20, <3>1, <3>2 DEF MonitorInv, OvertakenInv
  <2>3. worker'["cr"].at = "idle" => worker'["cr"].listed = {}
    <3>1. worker'["cr"] = worker["cr"] \/ worker'["cr"] = M!Idle
      BY <1>6 DEF M!Controller
    <3>2. M!Idle.listed = {}
      BY DEF M!Idle
    <3> QED
      BY <3>1, <3>2 DEF MonitorInv, OvertakenInv
  <2> QED
    BY <2>1, <2>2, <2>3 DEF OvertakenInv
<1> DEFINE After(p, s) == Fine(p, s) <=> p \notin overtaken'
<1>23. CurrentInv'
  <2> SUFFICES ASSUME cr' # NoCR, ~lost' PROVE CurrentInv'
    BY DEF CurrentInv
  <2>1. cr # NoCR /\ ~lost /\ cr.rv \in Nat
    BY <1>1, <1>11 DEF MonitorInv, M!TypeOK, M!CR
  <2>2. \A p, s : Fine(p, s)' = Fine(p, s)
    BY <1>1 DEF Fine
  <2>3. \A p \in Objects : Right(p, cr.statuses) \/ OwnPending(p) \/ CRPending
    BY <2>1 DEF MonitorInv, CurrentInv
  <2>4. handled' => acStatus' = cr'.statuses
    BY <1>1, <2>1 DEF MonitorInv, CurrentInv
  <2>5. CASE k = "cr"
    <3>1. ~Copying("cr")' /\ q = "cr" /\ q \notin Objects
      BY <1>5, <1>6, <1>7, <2>5, Controllers, NotCR, <1>4 DEF Copying
    <3>2. \A p \in Objects : \A s : After(p, s) <=> Right(p, s)
      BY <1>21, <2>2, <3>1 DEF Right
    <3>3. CASE fits /\ cr' = new
      <4>1. cr'.statuses = w.copy.statuses /\ cr.rv = w.copy.rv
        BY <1>10, <3>3
      <4>2. Copying("cr") /\ w.listed = {"status", "plain"}
        BY <1>1, <2>5 DEF MonitorInv, WorkInv, Copying
      <4>3. \A p \in Objects : Right(p, cr'.statuses) \/ OwnPending(p)
        BY <2>1, <2>5, <4>1, <4>2, Controllers DEF MonitorInv, CurrentInv
      <4>4. ASSUME NEW p \in Objects, OwnPending(p) PROVE OwnPending(p)'
        BY <1>6, <1>8, <2>5, <4>4, OwnPendingKept DEF M!Controller
      <4>5. \A p \in Objects : After(p, cr'.statuses) \/ OwnPending(p)'
        BY <3>2, <4>3, <4>4
      <4> QED
        BY <2>2, <2>4, <3>1, <4>5 DEF CurrentInv, Right
    <3>4. CASE q \in queue'
      BY <2>4, <3>1, <3>4 DEF CurrentInv, CRPending
    <3> QED
      BY <1>3, <3>3, <3>4
  <2>6. CASE k # "cr"
    <3>1. q \in Objects /\ k \in {"status", "plain"}
      BY <1>4, <1>7, <2>6 DEF M!ControllerOf, M!Controller
    <3>2. worker'["cr"] = worker["cr"]
      BY <1>6, <2>6 DEF M!Controller
    <3>3. CRPending => CRPending'
      BY <1>1, <1>8, <3>2 DEF CRPending
    <3>4. ASSUME NEW p \in Objects, p # q, OwnPending(p) PROVE OwnPending(p)'
      <4>1. CASE p \in queue
        BY <1>8, <4>1 DEF OwnPending
      <4>2. CASE Busy(p)
        <5>1. M!ControllerOf(p) # k /\ M!ControllerOf(p) \in M!Controller
          BY <3>4, <4>2, Controllers DEF Busy, M!Controller
        <5> QED
          BY <1>6, <4>2, <5>1 DEF OwnPending, Busy
      <4> QED
        BY <3>4, <4>1, <4>2 DEF OwnPending
    <3>5. fits => w.copy.statuses = M!UpdateStatuses(cr.statuses, q, w.status)
      BY <1>1, <2>1, <3>1 DEF MonitorInv, VersionInv, fits
    <3>6. cr.statuses \in [Objects -> Nat]
      BY <2>1 DEF MonitorInv, M!TypeOK, M!CR, M!Statuses
    <3>7. q \notin overtaken
      BY <1>1, <1>7, <3>1 DEF MonitorInv, OvertakenInv, Busy
    <3>8. q \notin queue' => /\ w.status # 0 /\ cached[q].there /\ ~cached[q].dying
                            /\ w.status = cached[q].status
      BY <1>1, <1>8, <3>1 DEF MonitorInv, WorkInv, WorksRight
    <3>9. ASSUME NEW p \in Objects
          PROVE  After(p, cr'.statuses) \/ OwnPending(p)' \/ CRPending'
      <4>1. CASE p = q /\ q \in queue'
        BY <4>1 DEF OwnPending
      <4>2. CASE p = q /\ passed # {}
        <5>1. worker["cr"].listed # {} /\ M!ListedOtherwise(q, w.status)
          BY <1>2, <4>2 DEF M!ListedOtherwise
        <5>2. worker["cr"].at # "idle"
          BY <5>1 DEF MonitorInv, OvertakenInv
        <5> QED
          BY <3>2, <5>2 DEF CRPending
      <4>3. CASE p = q /\ fits /\ cr' = new /\ q \notin queue' /\ passed = {}
        <5>1. cr'.statuses = M!UpdateStatuses(cr.statuses, q, w.status)
          BY <1>10, <3>5, <4>3
        <5>2. cr'.statuses[q] # 0 /\ (q \notin Plain => cr'.statuses[q] = cached[q].status)
          BY <3>1, <3>6, <3>8, <4>3, <5>1 DEF M!UpdateStatuses
        <5>3. Fine(q, cr'.statuses) /\ q \notin overtaken'
          BY <1>20, <3>7, <4>3, <5>2 DEF Fine
        <5> QED
          BY <2>2, <4>3, <5>3 DEF Right
      <4>4. CASE p # q
        <5>1. cr'.statuses[p] = cr.statuses[p]
          <6>1. CASE cr' = cr
            BY <6>1
          <6>2. CASE fits /\ cr' = new
            <7>1. cr'.statuses = M!UpdateStatuses(cr.statuses, q, w.status)
              BY <1>10, <3>5, <6>2
            <7> QED
              BY <3>6, <4>4, <7>1 DEF M!UpdateStatuses
          <6> QED
            BY <1>3, <6>1, <6>2
        <5>2. Fine(p, cr.statuses) <=> Fine(p, cr'.statuses)
          BY <5>1 DEF Fine
        <5>3. Right(p, cr.statuses) => After(p, cr'.statuses)
          BY <1>21, <2>2, <4>4, <5>2 DEF Right
        <5> QED
          BY <2>3, <3>3, <3>4, <4>4, <5>3
      <4> QED
        BY <1>3, <4>1, <4>2, <4>3, <4>4
    <3>10. ASSUME Copying("cr")', worker'["cr"].copy.rv = cr'.rv, NEW p \in Objects,
                  M!ControllerOf(p) \in worker'["cr"].listed
           PROVE  After(p, worker'["cr"].copy.statuses) \/ OwnPending(p)'
      <4> DEFINE list == worker["cr"].copy.statuses
      <4>1. Copying("cr") /\ worker["cr"].copy.rv <= cr.rv /\ worker["cr"].copy.rv \in Nat
        BY <1>4, <1>17, <2>1, <3>10 DEF MonitorInv, M!TypeOK, VersionInv, M!Controller, M!Worker, M!CR
      <4>2. cr'.rv # cr.rv + 1
        BY <2>1, <3>2, <3>10, <4>1
      <4>3. cr' = cr /\ worker["cr"].copy.rv = cr.rv
        BY <1>9, <3>2, <3>10, <4>2
      <4>4. Right(p, list) \/ OwnPending(p)
        BY <2>1, <3>2, <3>10, <4>1, <4>3 DEF MonitorInv, CurrentInv
      <4>5. CASE p # q
        <5>1. Right(p, list) => After(p, list)
          BY <1>21, <2>2, <3>2, <4>5 DEF Right
        <5> QED
          BY <3>2, <3>4, <4>4, <4>5, <5>1
      <4>6. CASE p = q /\ q \in queue'
        BY <4>6 DEF OwnPending
      <4>7. CASE p = q /\ q \notin queue'
        <5>1. fits /\ cr' = new /\ overtaken' = overtaken \cup passed
          BY <1>3, <4>7
        <5>2. same
          BY <1>29, <4>2, <5>1
        <5>3. list \in [Objects -> Nat]
          BY <1>4 DEF M!Worker, M!CR, M!Statuses, M!Controller
        <5>4. M!ControllerOf(q) \in worker["cr"].listed
          BY <3>2, <3>10, <4>7
        <5>5. CASE M!UpdateStatuses(list, q, w.status) # list
          <6>1. passed = {q}
            BY <1>30, <2>6, <4>3, <5>2, <5>4, <5>5 DEF M!ListedOtherwise
          <6>2. ~Fine(q, list)
            BY <3>1, <3>8, <4>7, <5>3, <5>5 DEF Fine, M!UpdateStatuses
          <6> QED
            BY <2>2, <3>2, <4>7, <5>1, <6>1, <6>2 DEF Right
        <5>6. CASE M!UpdateStatuses(list, q, w.status) = list
          <6>1. passed = {}
            BY <1>2, <5>6 DEF M!ListedOtherwise
          <6>2. list[q] # 0 /\ (q \notin Plain => list[q] = cached[q].status)
            BY <3>1, <3>8, <4>7, <5>3, <5>6 DEF M!UpdateStatuses
          <6>3. Fine(q, list)
            BY <6>2 DEF Fine
          <6> QED
            BY <2>2, <3>2, <3>7, <4>7, <5>1, <6>1, <6>3 DEF Right
        <5> QED
          BY <5>5, <5>6
      <4> QED
        BY <4>5, <4>6, <4>7
    <3> QED
      BY <2>2, <2>4, <3>9, <3>10 DEF CurrentInv, Right
  <2> QED
    BY <2>5, <2>6
<1> QED
  BY <1>13, <1>14, <1>16, <1>18, <1>19, <1>22, <1>23 DEF MonitorInv

LEMMA MonitorStep == MonitorInv /\ [M!Next]_(M!vars) => MonitorInv'
<1> SUFFICES ASSUME MonitorInv, [M!Next]_(M!vars) PROVE MonitorInv'
  OBVIOUS
<1>1. CASE UNCHANGED M!vars
  BY <1>1 DEF M!vars, MonitorInv, M!TypeOK, ThereInv, WorkInv, TrackInv, VersionInv, CurrentInv,
             OvertakenInv, WorksRight, Right, Fine, OwnPending, Busy, CRPending, Copying,
             M!UpdateStatuses
<1>2. CASE M!Next
  BY <1>2, ObjectKeeps, DeliverKeeps, ReconcileKeeps, DeliverCRKeeps, ReconcileCRKeeps,
     FindCRKeeps, ListObjectsKeeps, WriteKeeps, RestartKeeps, TrackKeeps, RsyncKeeps DEF M!Next
<1> QED
  BY <1>1, <1>2

LEMMA MonitorImplied == MonitorInv => M!SettledIsCurrent
<1> SUFFICES ASSUME MonitorInv, M!Settled, cr # NoCR, ~lost
             PROVE  /\ \A o \in Objects : object[o].there /\ ~object[o].dying =>
                          (M!IsCurrent(o) <=> o \notin overtaken)
                    /\ watching /\ handled => acStatus = cr.statuses
  BY DEF M!SettledIsCurrent
<1>1. ~CRPending /\ \A o \in Objects : ~OwnPending(o)
  BY Controllers DEF M!Settled, CRPending, OwnPending, Busy, M!Controller
<1>2. \A o \in Objects : Right(o, cr.statuses)
  BY <1>1 DEF MonitorInv, CurrentInv
<1>3. cached = object
  BY DEF M!Settled
<1> QED
  BY <1>2, <1>3 DEF Right, Fine, M!IsCurrent, MonitorInv, CurrentInv

LEMMA ApartMonitorStep == MonitorInv /\ [ApartNext]_apartVars => MonitorInv'
<1>1. [ApartNext]_apartVars => [M!Next]_(M!vars)
  BY DEF ApartNext, apartVars, monitorVars, M!vars
<1> QED
  BY <1>1, MonitorStep

\* SettledIsCurrent: when nothing is on its way and no event was dropped on an
\* error, whatever was restarted before, the AppContext has what the CR has, and the
\* CR the status of every object in the cluster, except of exactly those whose last
\* update changed nothing and was followed by the write of an older list.
THEOREM SettledIsCurrentCorrect == ApartSpec => []SettledIsCurrent
<1>1. ApartInit => MonitorInv
  BY MonitorInit DEF ApartInit
<1>2. MonitorInv => SettledIsCurrent
  BY MonitorImplied DEF SettledIsCurrent
<1> QED
  BY <1>1, <1>2, ApartMonitorStep, PTL DEF ApartSpec

-----------------------------------------------------------------------------
(* The middle end of the GUI.                                              *)

LEMMA GuiAssumed == G!MiddleEndAssumption
BY ApartAssumption

Elements(calls) == {calls[i] : i \in DOMAIN calls}
CallSet(verb, kinds) == {G!Call(verb, k) : k \in kinds}
Todo(r) == Elements(job[r].todo)
Own(kinds, r) == G!DocsOf(kinds, {job[r].service})

KindsOf(op) == IF op \in {"CreateApp", "DelSvc"} THEN G!ServiceKinds ELSE G!DigKinds
ReadBy(op) == IF op = "DelDig" THEN {"compositeapp", "app", "dig", "gpint", "nwint", "wlint"}
              ELSE {"compositeapp", "app", "dig", "cprofile", "profile"}
DeletedBy(op) == IF op = "DelDig" THEN G!DigKinds \ {"interface"} ELSE G!ServiceKinds
GoneBy(op) == DeletedBy(op) \ G!Unseen
CallsOf(op) ==
    CASE op \in G!Creator -> CallSet("POST", KindsOf(op))
      [] op \in G!Deleter -> CallSet("GET", ReadBy(op))
                        \cup CallSet("DELETE", DeletedBy(op))
                        \cup (IF op = "DelSvc" THEN {G!Call("CHECK", "dig")} ELSE {})
      [] OTHER -> CallSet("GET", G!Kind)

Before(a, b) ==
    /\ a.verb = "DELETE" => b.verb = "DELETE"
    /\ a.verb = "CHECK" => b.verb # "GET"
    /\ a.verb = "GET" /\ b.verb = "GET" /\ a.kind # "compositeapp" => b.kind # G!Parent[a.kind]
    /\ a.verb = "DELETE" /\ b.kind # "compositeapp" => a.kind # G!Parent[b.kind]
    /\ a.verb = "POST" /\ a.kind \in G!NetworkKinds => b.kind \in G!NetworkKinds
Chain(s, t) == \A i \in DOMAIN s, j \in DOMAIN t : Before(s[i], t[j])
Ordered(calls) == \A i, j \in DOMAIN calls : i < j => Before(calls[i], calls[j])

Alone ==
    \A a, b \in Slots :
        a # b /\ job[a].op # "none" /\ job[b].op # "none" => ~G!Mix(job[a], job[b])
Closed == \A d \in docs : d[1] \in G!Unseen \/ G!ParentIn(d, docs)

ScriptInv(r) ==
    /\ Todo(r) \subseteq CallsOf(job[r].op)
    /\ Ordered(job[r].todo)
    /\ job[r].op \in G!Creator \cup G!Deleter => job[r].service \in Services
    /\ job[r].left # {} => job[r].todo # <<>> /\ job[r].left \subseteq Own({G!Step(r).kind}, r)
CreatorInv(r) ==
    LET s == job[r].service
    IN  job[r].op \in G!Creator =>
            /\ (IF job[r].op = "CreateApp" THEN compositeApp ELSE DigData.service) = s
            /\ \A k \in KindsOf(job[r].op) :
                  G!Call("POST", k) \in Todo(r) \/ Own({k}, r) \subseteq docs
            /\ job[r].left # {} => Own({G!Step(r).kind}, r) \ job[r].left \subseteq docs
DeleterInv(r) ==
    LET s == job[r].service
    IN  job[r].op \in G!Deleter =>
            /\ treeFilter = G!PrepTreeReq(s, job[r].op)
            /\ \A d \in dataRead : d[2] = s
SureInv(r) ==
    LET s == job[r].service
        op == job[r].op
    IN  op \in G!Deleter /\ job[r].sure =>
            /\ \A k \in ReadBy(op) \ G!Unseen :
                  G!Call("GET", k) \in Todo(r) \/ Own({k}, r) \cap docs \subseteq dataRead
            /\ \A k \in GoneBy(op) : G!Call("DELETE", k) \in Todo(r) \/ Own({k}, r) \cap docs = {}
            /\ job[r].left # {} /\ G!Step(r).kind \notin G!Unseen
                  => Own({G!Step(r).kind}, r) \cap docs \subseteq job[r].left
            /\ op = "DelDig" => G!Removable(s)
            /\ op = "DelSvc" => G!Call("CHECK", "dig") \in Todo(r) \/ <<"dig", s, NoApp>> \notin docs

SlotInv(r) == ScriptInv(r) /\ CreatorInv(r) /\ DeleterInv(r) /\ SureInv(r)
GuiInv ==
    /\ G!TypeOK /\ Closed
    /\ ~mixed => Alone /\ \A r \in Slots : SlotInv(r)

-----------------------------------------------------------------------------
LEMMA DocParts ==
    ASSUME NEW K, NEW S, NEW d \in G!DocsOf(K, S)
    PROVE  /\ d[1] \in K /\ d[2] \in S /\ d[3] \in Apps \cup {NoApp}
           /\ K \subseteq G!Kind /\ S \subseteq Services => d \in G!Doc
           /\ d \in G!DocsOf({d[1]}, {d[2]})
BY DEF G!DocsOf, G!Doc

LEMMA OwnParts ==
    ASSUME NEW r, NEW K, NEW d \in Own(K, r)
    PROVE  d[1] \in K /\ d[2] = job[r].service
BY DEF Own, G!DocsOf

LEMMA DocIn ==
    ASSUME NEW d \in G!Doc, NEW K, NEW S
    PROVE  d \in G!DocsOf(K, S) <=> d[1] \in K /\ d[2] \in S
BY DEF G!DocsOf, G!Doc

\* A call is over.
LEMMA TailCalls ==
    ASSUME NEW S, NEW calls \in Seq(S), calls # <<>>, Ordered(calls)
    PROVE  /\ Head(calls) \in S /\ Tail(calls) \in Seq(S) /\ Ordered(Tail(calls))
           /\ Elements(calls)
                 = {Head(calls)} \cup Elements(Tail(calls))
           /\ \A i \in DOMAIN Tail(calls) : Before(Head(calls), Tail(calls)[i])
<1>1. /\ Len(calls) \in Nat /\ Len(calls) >= 1 /\ DOMAIN calls = 1..Len(calls)
      /\ Tail(calls) \in Seq(S) /\ DOMAIN Tail(calls) = 1..(Len(calls) - 1)
      /\ Head(calls) = calls[1]
      /\ \A i \in 1..(Len(calls) - 1) : Tail(calls)[i] = calls[i + 1]
  OBVIOUS
<1>2. Head(calls) \in S
  BY <1>1
<1>3. Ordered(Tail(calls))
  <2>1. ASSUME NEW i \in DOMAIN Tail(calls), NEW j \in DOMAIN Tail(calls), i < j
        PROVE  Before(Tail(calls)[i], Tail(calls)[j])
    <3>1. i + 1 \in DOMAIN calls /\ j + 1 \in DOMAIN calls /\ i + 1 < j + 1
      BY <1>1, <2>1
    <3>2. Tail(calls)[i] = calls[i + 1] /\ Tail(calls)[j] = calls[j + 1]
      BY <1>1
    <3> QED
      BY <3>1, <3>2 DEF Ordered
  <2> QED
    BY <2>1 DEF Ordered
<1>4. ASSUME NEW i \in DOMAIN Tail(calls) PROVE Before(Head(calls), Tail(calls)[i])
  <2>1. i + 1 \in DOMAIN calls /\ 1 \in DOMAIN calls /\ 1 < i + 1
    BY <1>1
  <2> QED
    BY <1>1, <2>1 DEF Ordered
<1>5. Elements(calls)
         = {Head(calls)} \cup Elements(Tail(calls))
  <2>1. ASSUME NEW i \in DOMAIN calls
        PROVE  calls[i] \in {Head(calls)} \cup Elements(Tail(calls))
    <3>1. CASE i = 1
      BY <1>1, <3>1 DEF Elements
    <3>2. CASE i # 1
      <4>1. i - 1 \in DOMAIN Tail(calls) /\ (i - 1) + 1 = i
        BY <1>1, <3>2
      <4>2. Tail(calls)[i - 1] = calls[i]
        BY <1>1, <4>1
      <4> QED
        BY <4>1, <4>2 DEF Elements
    <3> QED
      BY <3>1, <3>2
  <2>2. ASSUME NEW i \in DOMAIN Tail(calls)
        PROVE  Tail(calls)[i] \in Elements(calls)
    <3>1. i + 1 \in DOMAIN calls /\ Tail(calls)[i] = calls[i + 1]
      BY <1>1
    <3> QED
      BY <3>1 DEF Elements
  <2>3. Head(calls) \in Elements(calls)
    BY <1>1 DEF Elements
  <2> QED
    BY <2>1, <2>2, <2>3 DEF Elements
<1> QED
  BY <1>1, <1>2, <1>3, <1>4, <1>5

\* The script of a request is what it calls, in order.
Lists(kinds, n, K) ==
    /\ kinds \in Seq(K) /\ DOMAIN kinds = 1..n
    /\ \A k \in K : \E i \in 1..n : kinds[i] = k
ParentsFirst(kinds, n) ==
    \A i, j \in 1..n : i < j /\ kinds[i] # "compositeapp" => kinds[j] # G!Parent[kinds[i]]
ParentsLast(kinds, n) ==
    \A i, j \in 1..n : i < j /\ kinds[j] # "compositeapp" => kinds[i] # G!Parent[kinds[j]]

LEMMA StepsAre ==
    ASSUME NEW verb, NEW n \in Nat, NEW K, NEW kinds, Lists(kinds, n, K)
    PROVE  /\ G!Steps(verb, kinds) \in Seq(CallSet(verb, K))
           /\ DOMAIN G!Steps(verb, kinds) = 1..n
           /\ \A i \in 1..n : G!Steps(verb, kinds)[i] = G!Call(verb, kinds[i])
           /\ Elements(G!Steps(verb, kinds)) = CallSet(verb, K)
<1>1. /\ DOMAIN G!Steps(verb, kinds) = 1..n
      /\ \A i \in 1..n : G!Steps(verb, kinds)[i] = G!Call(verb, kinds[i])
  BY DEF G!Steps, Lists
<1>2. G!Steps(verb, kinds) \in [1..n -> CallSet(verb, K)]
  BY DEF G!Steps, CallSet, Lists
<1>3. G!Steps(verb, kinds) \in Seq(CallSet(verb, K))
  BY <1>2
<1>4. Elements(G!Steps(verb, kinds)) = CallSet(verb, K)
  BY <1>1 DEF Elements, CallSet, Lists
<1> QED
  BY <1>1, <1>3, <1>4

LEMMA ConcatCalls ==
    ASSUME NEW A, NEW B, NEW s \in Seq(A), NEW t \in Seq(B), Ordered(s), Ordered(t),
           Chain(s, t)
    PROVE  /\ s \o t \in Seq(A \cup B) /\ Ordered(s \o t)
           /\ \A x : x \in Elements(s \o t) <=> x \in Elements(s) \/ x \in Elements(t)
<1> DEFINE u == s \o t
           m == Len(s)
           n == Len(t)
<1>1. /\ m \in Nat /\ n \in Nat /\ DOMAIN s = 1..m /\ DOMAIN t = 1..n /\ DOMAIN u = 1..(m + n)
      /\ \A i \in 1..m : u[i] = s[i] /\ u[i] \in A
      /\ \A i \in 1..(m + n) : i > m => u[i] = t[i - m] /\ u[i] \in B
  OBVIOUS
<1>2. u \in Seq(A \cup B)
  OBVIOUS
<1> HIDE DEF u, m, n
<1>3. ASSUME NEW i \in DOMAIN u, NEW j \in DOMAIN u, i < j PROVE Before(u[i], u[j])
  <2>1. CASE j <= m
    <3>1. i \in DOMAIN s /\ j \in DOMAIN s /\ u[i] = s[i] /\ u[j] = s[j]
      BY <1>1, <1>3, <2>1
    <3> QED
      BY <1>3, <3>1 DEF Ordered
  <2>2. CASE i <= m /\ j > m
    <3>1. i \in DOMAIN s /\ j - m \in DOMAIN t /\ u[i] = s[i] /\ u[j] = t[j - m]
      BY <1>1, <1>3, <2>2
    <3> QED
      BY <3>1 DEF Chain
  <2>3. CASE i > m
    <3>1. i - m \in DOMAIN t /\ j - m \in DOMAIN t /\ i - m < j - m
          /\ u[i] = t[i - m] /\ u[j] = t[j - m]
      BY <1>1, <1>3, <2>3
    <3> QED
      BY <3>1 DEF Ordered
  <2> QED
    BY <1>1, <2>1, <2>2, <2>3
<1>4. \A i \in DOMAIN u : u[i] \in Elements(s) \cup Elements(t)
  <2>1. ASSUME NEW i \in DOMAIN u PROVE (i \in DOMAIN s /\ u[i] = s[i]) \/ (i - m \in DOMAIN t /\ u[i] = t[i - m])
    BY <1>1
  <2> QED
    BY <2>1 DEF Elements
<1>5. \A j \in DOMAIN s : j \in DOMAIN u /\ u[j] = s[j]
  BY <1>1
<1>6. \A j \in DOMAIN t : j + m \in DOMAIN u /\ u[j + m] = t[j]
  <2>1. ASSUME NEW j \in DOMAIN t PROVE j + m \in DOMAIN u /\ u[j + m] = t[j]
    <3>1. j + m \in 1..(m + n) /\ j + m > m /\ (j + m) - m = j
      BY <1>1
    <3> QED
      BY <1>1, <3>1
  <2> QED
    BY <2>1
<1>7. Elements(u) = Elements(s) \cup Elements(t)
  BY <1>4, <1>5, <1>6 DEF Elements
<1>8. Ordered(u)
  BY <1>3 DEF Ordered
<1> QED
  BY <1>2, <1>7, <1>8 DEF u

Calls(op) == Elements(G!Script(op))

LEMMA CreatorScript ==
    ASSUME NEW op \in G!Creator
    PROVE  G!Script(op) \in Seq(CallsOf(op)) /\ Ordered(G!Script(op)) /\ Calls(op) = CallsOf(op)
<1>1. CASE op = "CreateApp"
  <2> DEFINE ks == <<"compositeapp", "app", "cprofile", "profile">>
  <2>1. Lists(ks, 4, G!ServiceKinds) /\ \A i \in 1..4 : ks[i] \notin G!NetworkKinds
    BY DEF Lists, G!ServiceKinds, G!NetworkKinds
  <2>2. G!Script(op) = G!Steps("POST", ks)
    BY <1>1 DEF G!Script
  <2> HIDE DEF ks
  <2>3. CallsOf(op) = CallSet("POST", G!ServiceKinds)
    BY <1>1 DEF CallsOf, G!Creator, G!Deleter, KindsOf
  <2>4. /\ G!Steps("POST", ks) \in Seq(CallSet("POST", G!ServiceKinds))
        /\ DOMAIN G!Steps("POST", ks) = 1..4
        /\ \A i \in 1..4 : G!Steps("POST", ks)[i] = G!Call("POST", ks[i])
        /\ Elements(G!Steps("POST", ks)) = CallSet("POST", G!ServiceKinds)
    BY <2>1, StepsAre
  <2>5. Ordered(G!Steps("POST", ks))
    BY <2>1, <2>4 DEF Ordered, Before, G!Call
  <2> QED
    BY <2>2, <2>3, <2>4, <2>5 DEF Calls
<1>2. CASE op = "CreateDig"
  <2> DEFINE ks == <<"dig", "intents", "gpint", "pint", "nwint", "wlint", "interface">>
  <2>1. Lists(ks, 7, G!DigKinds) /\ \A i \in 1..7 : ks[i] \in G!NetworkKinds <=> i >= 5
    BY DEF Lists, G!DigKinds, G!PlacementKinds, G!NetworkKinds
  <2>2. G!Script(op) = G!Steps("POST", ks)
    BY <1>2 DEF G!Script
  <2> HIDE DEF ks
  <2>3. CallsOf(op) = CallSet("POST", G!DigKinds)
    BY <1>2 DEF CallsOf, G!Creator, G!Deleter, KindsOf
  <2>4. /\ G!Steps("POST", ks) \in Seq(CallSet("POST", G!DigKinds))
        /\ DOMAIN G!Steps("POST", ks) = 1..7
        /\ \A i \in 1..7 : G!Steps("POST", ks)[i] = G!Call("POST", ks[i])
        /\ Elements(G!Steps("POST", ks)) = CallSet("POST", G!DigKinds)
    BY <2>1, StepsAre
  <2>5. Ordered(G!Steps("POST", ks))
    <3>1. ASSUME NEW i \in 1..7, NEW j \in 1..7, i < j, ks[i] \in G!NetworkKinds
          PROVE  ks[j] \in G!NetworkKinds
      BY <2>1, <3>1
    <3> QED
      BY <2>4, <3>1 DEF Ordered, Before, G!Call
  <2> QED
    BY <2>2, <2>3, <2>4, <2>5 DEF Calls
<1> QED
  BY <1>1, <1>2 DEF G!Creator

\* A kind is read after its parent, and deleted before it.
LEMMA ReadsInOrder ==
    ASSUME NEW n \in Nat, NEW K \in SUBSET G!Kind, NEW ks, Lists(ks, n, K), ParentsFirst(ks, n)
    PROVE  /\ G!Steps("GET", ks) \in Seq(CallSet("GET", K))
           /\ Ordered(G!Steps("GET", ks))
           /\ Elements(G!Steps("GET", ks)) = CallSet("GET", K)
<1>1. /\ G!Steps("GET", ks) \in Seq(CallSet("GET", K))
      /\ DOMAIN G!Steps("GET", ks) = 1..n
      /\ \A i \in 1..n : G!Steps("GET", ks)[i] = G!Call("GET", ks[i])
      /\ Elements(G!Steps("GET", ks)) = CallSet("GET", K)
  BY StepsAre
<1>2. \A k, l : G!Call("GET", k).verb = "GET" /\ G!Call("GET", k).kind = k
  BY DEF G!Call
<1>3. Ordered(G!Steps("GET", ks))
  BY <1>1, <1>2 DEF Ordered, Before, ParentsFirst
<1> QED
  BY <1>1, <1>3

LEMMA DeletesInOrder ==
    ASSUME NEW n \in Nat, NEW K \in SUBSET G!Kind, NEW ks, Lists(ks, n, K), ParentsLast(ks, n)
    PROVE  /\ G!Steps("DELETE", ks) \in Seq(CallSet("DELETE", K))
           /\ Ordered(G!Steps("DELETE", ks))
           /\ Elements(G!Steps("DELETE", ks))
                 = CallSet("DELETE", K)
<1>1. /\ G!Steps("DELETE", ks) \in Seq(CallSet("DELETE", K))
      /\ DOMAIN G!Steps("DELETE", ks) = 1..n
      /\ \A i \in 1..n : G!Steps("DELETE", ks)[i] = G!Call("DELETE", ks[i])
      /\ Elements(G!Steps("DELETE", ks)) = CallSet("DELETE", K)
  BY StepsAre
<1>2. \A k : G!Call("DELETE", k).verb = "DELETE" /\ G!Call("DELETE", k).kind = k
  BY DEF G!Call
<1>3. Ordered(G!Steps("DELETE", ks))
  BY <1>1, <1>2 DEF Ordered, Before, ParentsLast
<1> QED
  BY <1>1, <1>3

LEMMA TreeScript ==
    ASSUME NEW op \in G!TreeUser \ {"GetSvc"}
    PROVE  /\ G!Script(op) \in Seq(CallsOf(op)) /\ Ordered(G!Script(op))
           /\ op \in G!Deleter => Calls(op) = CallsOf(op)
<1> DEFINE all == <<"compositeapp", "app", "dig", "gpint", "nwint", "wlint">>
           A == {"compositeapp", "app", "dig", "gpint", "nwint", "wlint"}
           svc == <<"compositeapp", "app", "dig", "cprofile", "profile">>
           S == {"compositeapp", "app", "dig", "cprofile", "profile"}
           R == G!Steps("GET", all)
           V == G!Steps("GET", svc)
<1>1. /\ R \in Seq(CallSet("GET", A)) /\ Ordered(R)
      /\ Elements(R) = CallSet("GET", A)
  <2>1. Lists(all, 6, A)
    BY DEF Lists
  <2>2. A \in SUBSET G!Kind
    BY DEF G!Kind, G!Parent
  <2>3. ParentsFirst(all, 6)
    BY DEF ParentsFirst, G!Parent
  <2> HIDE DEF all, A
  <2> QED
    BY <2>1, <2>2, <2>3, ReadsInOrder
<1>2. /\ V \in Seq(CallSet("GET", S)) /\ Ordered(V)
      /\ Elements(V) = CallSet("GET", S)
  <2>1. Lists(svc, 5, S)
    BY DEF Lists
  <2>2. S \in SUBSET G!Kind
    BY DEF G!Kind, G!Parent
  <2>3. ParentsFirst(svc, 5)
    BY DEF ParentsFirst, G!Parent
  <2> HIDE DEF svc, S
  <2> QED
    BY <2>1, <2>2, <2>3, ReadsInOrder
<1>3. CASE op = "GetAllDigs"
  <2>1. G!Script(op) = R
    BY <1>3 DEF G!Script
  <2>2. CallsOf(op) = CallSet("GET", G!Kind)
    BY <1>3 DEF CallsOf, G!Creator, G!Deleter
  <2>3. CallSet("GET", A) \subseteq CallSet("GET", G!Kind)
    BY DEF G!Kind, G!Parent, CallSet
  <2> HIDE DEF R, A
  <2>4. R \in Seq(CallsOf(op))
    BY <1>1, <2>2, <2>3
  <2> QED
    BY <1>1, <1>3, <2>1, <2>4 DEF G!Deleter
<1>4. CASE op = "DelDig"
  <2> DEFINE ks == <<"wlint", "nwint", "pint", "gpint", "intents", "dig">>
             D == {"wlint", "nwint", "pint", "gpint", "intents", "dig"}
             T == G!Steps("DELETE", ks)
  <2>1. /\ T \in Seq(CallSet("DELETE", D)) /\ Ordered(T)
        /\ Elements(T) = CallSet("DELETE", D)
    <3>1. Lists(ks, 6, D)
      BY DEF Lists
    <3>2. D \in SUBSET G!Kind
      BY DEF G!Kind, G!Parent
    <3>3. ParentsLast(ks, 6)
      BY DEF ParentsLast, G!Parent
    <3> HIDE DEF ks, D
    <3> QED
      BY <3>1, <3>2, <3>3, DeletesInOrder
  <2>2. G!Script(op) = R \o T
    BY <1>4 DEF G!Script, G!DeleteTree
  <2>3. CallsOf(op) = CallSet("GET", A) \cup CallSet("DELETE", D)
    BY <1>4 DEF CallsOf, G!Creator, G!Deleter, ReadBy, DeletedBy, G!DigKinds, G!PlacementKinds, G!NetworkKinds
  <2> HIDE DEF R, A, T, D
  <2>4. \A i \in DOMAIN R, j \in DOMAIN T : R[i].verb = "GET" /\ T[j].verb = "DELETE"
    <3>1. \A i \in DOMAIN R : \E k \in A : R[i] = G!Call("GET", k)
      BY <1>1 DEF Elements, CallSet
    <3>2. \A i \in DOMAIN T : \E k \in D : T[i] = G!Call("DELETE", k)
      BY <2>1 DEF Elements, CallSet
    <3> QED
      BY <3>1, <3>2 DEF G!Call
  <2>5. Chain(R, T)
    BY <2>4 DEF Chain, Before
  <2> QED
    <3>1. /\ R \o T \in Seq(CallSet("GET", A) \cup CallSet("DELETE", D)) /\ Ordered(R \o T)
          /\ Elements(R \o T) = Elements(R) \cup Elements(T)
      <4>1. R \in Seq(CallSet("GET", A)) /\ Ordered(R)
        BY <1>1
      <4>2. T \in Seq(CallSet("DELETE", D)) /\ Ordered(T)
        BY <2>1
      <4> HIDE DEF all, svc, S, V, ks
      <4>3. R \o T \in Seq(CallSet("GET", A) \cup CallSet("DELETE", D))
        BY Zenon, <2>5, <4>1, <4>2, ConcatCalls
      <4>4. Ordered(R \o T)
        BY Zenon, <2>5, <4>1, <4>2, ConcatCalls
      <4>5. \A x : x \in Elements(R \o T) <=> x \in Elements(R) \/ x \in Elements(T)
        BY Zenon, <2>5, <4>1, <4>2, ConcatCalls
      <4> QED
        BY <4>3, <4>4, <4>5
    <3> QED
      BY <1>1, <2>1, <2>2, <2>3, <3>1 DEF Calls
<1>5. CASE op = "DelSvc"
  <2> DEFINE ks == <<"profile", "cprofile", "app", "compositeapp">>
             T == G!Steps("DELETE", ks)
             c == <<G!Call("CHECK", "dig")>>
  <2>1. /\ T \in Seq(CallSet("DELETE", G!ServiceKinds)) /\ Ordered(T)
        /\ Elements(T) = CallSet("DELETE", G!ServiceKinds)
    <3>1. Lists(ks, 4, G!ServiceKinds)
      BY DEF Lists, G!ServiceKinds
    <3>2. G!ServiceKinds \in SUBSET G!Kind
      BY DEF G!Kind, G!Parent, G!ServiceKinds
    <3>3. ParentsLast(ks, 4)
      BY DEF ParentsLast, G!Parent
    <3> HIDE DEF ks
    <3> QED
      BY <3>1, <3>2, <3>3, DeletesInOrder
  <2>2. G!Script(op) = (V \o c) \o T
    BY <1>5 DEF G!Script, G!DeleteTree
  <2>3. CallsOf(op) = (CallSet("GET", S) \cup {G!Call("CHECK", "dig")})
                         \cup CallSet("DELETE", G!ServiceKinds)
    BY <1>5 DEF CallsOf, G!Creator, G!Deleter, ReadBy, DeletedBy
  <2>4. /\ c \in Seq({G!Call("CHECK", "dig")}) /\ DOMAIN c = {1} /\ c[1] = G!Call("CHECK", "dig")
        /\ c[1].verb = "CHECK"
    BY DEF G!Call
  <2> HIDE DEF V, S, T, c
  <2>5. Ordered(c)
    BY <2>4 DEF Ordered
  <2>6. \A i \in DOMAIN V : V[i].verb = "GET"
    <3>1. \A i \in DOMAIN V : \E k \in S : V[i] = G!Call("GET", k)
      BY <1>2 DEF Elements, CallSet
    <3> QED
      BY <3>1 DEF G!Call
  <2>7. \A j \in DOMAIN T : T[j].verb = "DELETE"
    <3>1. \A i \in DOMAIN T : \E k \in G!ServiceKinds : T[i] = G!Call("DELETE", k)
      BY <2>1 DEF Elements, CallSet
    <3> QED
      BY <3>1 DEF G!Call
  <2> DEFINE X == V \o c
             C == {G!Call("CHECK", "dig")}
  <2> HIDE DEF X, C
  <2>8. /\ X \in Seq(CallSet("GET", S) \cup C) /\ Ordered(X)
        /\ Elements(X) = Elements(V) \cup Elements(c)
    <3>1. Chain(V, c)
      BY <2>4, <2>6 DEF Chain, Before
    <3>2. c \in Seq(C)
      BY <2>4 DEF C
    <3> QED
      <4>1. V \in Seq(CallSet("GET", S)) /\ Ordered(V)
        BY <1>2
      <4> HIDE DEF all, svc, R, A, ks
      <4>2. V \o c \in Seq(CallSet("GET", S) \cup C)
        BY Zenon, <2>5, <3>1, <3>2, <4>1, ConcatCalls
      <4>3. Ordered(V \o c)
        BY Zenon, <2>5, <3>1, <3>2, <4>1, ConcatCalls
      <4>4. \A x : x \in Elements(V \o c) <=> x \in Elements(V) \/ x \in Elements(c)
        BY Zenon, <2>5, <3>1, <3>2, <4>1, ConcatCalls
      <4> QED
        BY <4>2, <4>3, <4>4 DEF X
  <2>9. Elements(c) = {G!Call("CHECK", "dig")}
    BY <2>4 DEF Elements
  <2>10. \A i \in DOMAIN X : X[i].verb \in {"GET", "CHECK"}
    <3>1. \A i \in DOMAIN X : X[i] \in Elements(V) \cup Elements(c)
      BY <2>8 DEF Elements
    <3> QED
      BY <2>4, <2>6, <3>1 DEF Elements
  <2>11. Chain(X, T)
    BY <2>7, <2>10 DEF Chain, Before
  <2>12. /\ X \o T \in Seq(CallsOf(op)) /\ Ordered(X \o T)
         /\ Elements(X \o T)
               = Elements(X) \cup Elements(T)
    BY <2>1, <2>3, <2>8, <2>11, ConcatCalls DEF C
  <2>13. G!Script(op) = X \o T
    BY <2>2 DEF X
  <2> QED
    BY <1>2, <2>1, <2>3, <2>8, <2>9, <2>12, <2>13 DEF Calls
<1> QED
  BY <1>3, <1>4, <1>5 DEF G!TreeUser, G!Deleter

-----------------------------------------------------------------------------
(* What becomes of a request.                                              *)
Rest(r) == \A q \in Slots : q # r => job'[q] = job[q]
\* It has answered.
Ended(r, code) ==
    /\ job' \in [Slots -> G!Job] /\ Rest(r)
    /\ job'[r].op = "none" /\ job'[r].todo = <<>> /\ job'[r].left = {}
    /\ job'[r].code = code /\ job'[r].sure = job[r].sure
\* It goes on: with its next call, or with what is left of this one.
Same(r) ==
    /\ job' \in [Slots -> G!Job] /\ Rest(r)
    /\ job'[r].op = job[r].op /\ job'[r].service = job[r].service
Advances(r) ==
    /\ Same(r)
    /\ job'[r].todo = Tail(job[r].todo) /\ job'[r].todo # <<>> /\ job'[r].left = {}
Over(r) == Advances(r) /\ job[r].sure = job'[r].sure
Leaves(r, left) ==
    /\ Same(r) /\ job[r].sure = job'[r].sure
    /\ job'[r].todo = job[r].todo /\ job'[r].left = left

LEMMA IdleJob == G!Idle \in G!Job /\ G!Idle.op = "none" /\ G!Idle.todo = <<>> /\ G!Idle.left = {}
BY DEF G!Idle, G!Job, G!NoDig

LEMMA AnswerIs ==
    ASSUME G!TypeOK, NEW r \in Slots, NEW code \in Nat, G!Answer(r, code)
    PROVE  Ended(r, code)
<1> DEFINE j == [G!Idle EXCEPT !.code = code, !.sure = job[r].sure]
<1>1. job \in [Slots -> G!Job] /\ job[r].sure \in BOOLEAN
  BY DEF G!TypeOK, G!Job
<1>2. /\ j \in G!Job /\ j.op = "none" /\ j.todo = <<>> /\ j.left = {}
      /\ j.code = code /\ j.sure = job[r].sure
  BY <1>1, IdleJob DEF G!Job
<1>3. job' = [job EXCEPT ![r] = j]
  BY DEF G!Answer
<1> HIDE DEF j
<1> QED
  BY <1>1, <1>2, <1>3 DEF Ended, Rest

LEMMA TailJob ==
    ASSUME G!TypeOK, NEW r \in Slots, job[r].todo # <<>>
    PROVE  /\ job[r] \in G!Job
           /\ Tail(job[r].todo) \in Seq([verb : {"POST", "GET", "CHECK", "DELETE"}, kind : G!Kind])
           /\ G!Step(r) \in [verb : {"POST", "GET", "CHECK", "DELETE"}, kind : G!Kind]
           /\ G!Step(r) \in Todo(r)
<1>1. /\ job[r] \in G!Job
      /\ job[r].todo \in Seq([verb : {"POST", "GET", "CHECK", "DELETE"}, kind : G!Kind])
  BY DEF G!TypeOK, G!Job
<1> DEFINE S == [verb : {"POST", "GET", "CHECK", "DELETE"}, kind : G!Kind]
           t == job[r].todo
<1>2. t \in Seq(S) /\ t # <<>>
  BY <1>1
<1> HIDE DEF S, t
<1>3. Head(t) \in S /\ Tail(t) \in Seq(S) /\ 1 \in DOMAIN t /\ Head(t) = t[1]
  BY <1>2
<1>4. Head(t) \in Elements(t)
  BY <1>3 DEF Elements
<1> QED
  BY <1>1, <1>3, <1>4 DEF S, t, G!Step, Todo

LEMMA StepOverIs ==
    ASSUME G!TypeOK, NEW r \in Slots, job[r].todo # <<>>, G!StepOver(r)
    PROVE  (Tail(job[r].todo) = <<>> /\ Ended(r, G!OkCode(job[r].op))) \/ Over(r)
<1>1. CASE Tail(job[r].todo) = <<>>
  <2>1. G!OkCode(job[r].op) \in Nat
    BY DEF G!OkCode
  <2> QED
    BY <1>1, <2>1, AnswerIs DEF G!StepOver
<1>2. CASE Tail(job[r].todo) # <<>>
  <2> DEFINE j == [job[r] EXCEPT !.todo = Tail(@), !.left = {}]
  <2>1. job' = [job EXCEPT ![r].todo = Tail(@), ![r].left = {}]
    BY <1>2 DEF G!StepOver
  <2>2. job \in [Slots -> G!Job]
    BY DEF G!TypeOK
  <2>3. job' = [job EXCEPT ![r] = j]
    BY <2>1, <2>2
  <2> DEFINE t == Tail(job[r].todo)
  <2>4. t \in Seq([verb : {"POST", "GET", "CHECK", "DELETE"}, kind : G!Kind]) /\ job[r] \in G!Job
    BY TailJob
  <2> HIDE DEF t
  <2>5. j = [job[r] EXCEPT !.todo = t, !.left = {}]
    BY DEF t
  <2>6. /\ j \in G!Job /\ j.op = job[r].op /\ j.service = job[r].service /\ j.sure = job[r].sure
        /\ j.todo = t /\ j.left = {}
    BY <2>4, <2>5 DEF G!Job
  <2> HIDE DEF j
  <2> QED
    BY <1>2, <2>2, <2>3, <2>6 DEF Over, Advances, Same, Rest, t
<1> QED
  BY <1>1, <1>2

LEMMA LeavesIs ==
    ASSUME G!TypeOK, NEW r \in Slots, NEW left \in SUBSET G!Doc, job' = [job EXCEPT ![r].left = left]
    PROVE  Leaves(r, left)
<1> DEFINE j == [job[r] EXCEPT !.left = left]
<1>1. job \in [Slots -> G!Job] /\ job[r] \in G!Job
  BY DEF G!TypeOK
<1>2. job' = [job EXCEPT ![r] = j]
  BY <1>1
<1>3. /\ j \in G!Job /\ j.op = job[r].op /\ j.service = job[r].service /\ j.sure = job[r].sure
      /\ j.todo = job[r].todo /\ j.left = left
  BY <1>1 DEF G!Job
<1> HIDE DEF j
<1> QED
  BY <1>1, <1>2, <1>3 DEF Leaves, Same, Rest

LEMMA PostedIs ==
    ASSUME G!TypeOK, NEW r \in Slots, NEW d, job[r].todo # <<>>, G!Left(r) \subseteq G!Doc, G!Posted(r, d)
    PROVE  \/ G!Left(r) \ {d} # {} /\ Leaves(r, G!Left(r) \ {d})
           \/ /\ G!Left(r) \ {d} = {}
              /\ (Tail(job[r].todo) = <<>> /\ Ended(r, 201)) \/ Over(r)
<1> DEFINE at == IF G!Step(r).kind \in {"dig", "gpint", "nwint"} THEN DigData ELSE job[r].at
           j == [job[r] EXCEPT !.at = at]
           moved == [job EXCEPT ![r].at = at]
           rest == G!Left(r) \ {d}
<1>1. job \in [Slots -> G!Job] /\ job[r] \in G!Job
  BY DEF G!TypeOK
<1>2. at \in [service : Services \cup {NoService}, nets : BOOLEAN]
  BY <1>1 DEF G!TypeOK, G!Job
<1>3. IF rest # {} THEN job' = [moved EXCEPT ![r].left = rest]
      ELSE IF Tail(job[r].todo) # <<>>
        THEN job' = [moved EXCEPT ![r].left = {}, ![r].todo = Tail(@)]
      ELSE G!Answer(r, 201)
  BY DEF G!Posted
<1>4. moved = [job EXCEPT ![r] = j]
  BY <1>1
<1> HIDE DEF at
<1>5. j \in G!Job /\ j.op = job[r].op /\ j.service = job[r].service /\ j.sure = job[r].sure
      /\ j.todo = job[r].todo /\ j.left = job[r].left
  BY <1>1, <1>2 DEF G!Job
<1> HIDE DEF j, moved
<1>6. moved \in [Slots -> G!Job] /\ moved[r] = j /\ \A q \in Slots : q # r => moved[q] = job[q]
  BY <1>1, <1>4, <1>5
<1>7. CASE rest # {}
  <2> DEFINE n == [j EXCEPT !.left = rest]
  <2>1. job' = [moved EXCEPT ![r] = n]
    BY <1>3, <1>6, <1>7
  <2>2. rest \in SUBSET G!Doc
    OBVIOUS
  <2> HIDE DEF rest
  <2>3. n \in G!Job /\ n.op = j.op /\ n.service = j.service /\ n.sure = j.sure
        /\ n.todo = j.todo /\ n.left = rest
    BY <1>5, <2>2 DEF G!Job
  <2> HIDE DEF n
  <2>4. Leaves(r, rest)
    BY <1>5, <1>6, <2>1, <2>3 DEF Leaves, Same, Rest
  <2> QED
    BY <1>7, <2>4 DEF rest
<1>8. CASE rest = {} /\ Tail(job[r].todo) # <<>>
  <2> DEFINE t == Tail(job[r].todo)
             n == [j EXCEPT !.left = {}, !.todo = t]
  <2>1. job' = [moved EXCEPT ![r] = [j EXCEPT !.left = {}, !.todo = Tail(@)]]
    BY <1>3, <1>6, <1>8
  <2>2. job' = [moved EXCEPT ![r] = n]
    BY <1>5, <2>1
  <2>3. t \in Seq([verb : {"POST", "GET", "CHECK", "DELETE"}, kind : G!Kind])
    BY TailJob
  <2> HIDE DEF t
  <2>4. n \in G!Job /\ n.op = j.op /\ n.service = j.service /\ n.sure = j.sure
        /\ n.todo = t /\ n.left = {}
    BY <1>5, <2>3 DEF G!Job
  <2> HIDE DEF n
  <2>5. Over(r)
    BY <1>5, <1>6, <1>8, <2>2, <2>4 DEF Over, Advances, Same, Rest, t
  <2> QED
    BY <1>8, <2>5
<1>9. CASE rest = {} /\ Tail(job[r].todo) = <<>>
  BY <1>3, <1>9, AnswerIs
<1> QED
  BY <1>7, <1>8, <1>9

\* Whose calls they are.
LEMMA Caller ==
    ASSUME G!TypeOK, NEW r \in Slots, ScriptInv(r), NEW verb, G!Runs(r, verb)
    PROVE  /\ G!Step(r) = G!Call(verb, G!Step(r).kind) /\ G!Step(r) \in Todo(r) /\ G!Step(r).kind \in G!Kind
           /\ job[r].todo # <<>> /\ job[r].op # "none"
           /\ verb = "POST" => job[r].op \in G!Creator /\ G!Step(r).kind \in KindsOf(job[r].op)
           /\ verb = "GET" => /\ job[r].op \in G!TreeUser
                              /\ job[r].op \in G!Deleter => G!Step(r).kind \in ReadBy(job[r].op)
           /\ verb = "CHECK" => job[r].op = "DelSvc" /\ G!Step(r).kind = "dig"
           /\ verb = "DELETE" => job[r].op \in G!Deleter /\ G!Step(r).kind \in DeletedBy(job[r].op)
<1>1. /\ job[r].todo # <<>> /\ G!Step(r) \in Todo(r) /\ G!Step(r).verb = verb /\ G!Step(r).kind \in G!Kind
      /\ G!Step(r) = G!Call(verb, G!Step(r).kind) /\ job[r].op # "none"
  BY TailJob DEF G!Runs, G!Call, G!TypeOK
<1>2. G!Call(verb, G!Step(r).kind) \in CallsOf(job[r].op)
  BY <1>1 DEF ScriptInv
<1>3. job[r].op \in G!Creator \cup G!TreeUser
  BY <1>1 DEF G!TypeOK, G!Job
<1>4. ASSUME NEW v, NEW K, G!Call(verb, G!Step(r).kind) \in CallSet(v, K)
      PROVE  verb = v /\ G!Step(r).kind \in K
  BY <1>4 DEF CallSet, G!Call
<1>5. CASE job[r].op \in G!Creator
  <2>1. CallsOf(job[r].op) = CallSet("POST", KindsOf(job[r].op))
    BY <1>5 DEF CallsOf, G!Creator, G!Deleter
  <2>2. verb = "POST" /\ G!Step(r).kind \in KindsOf(job[r].op)
    BY <1>2, <1>4, <2>1
  <2> QED
    BY <1>1, <1>5, <2>2
<1>6. CASE job[r].op \in G!Deleter
  <2> DEFINE op == job[r].op
  <2>1. /\ op \notin G!Creator
        /\ CallsOf(op) = CallSet("GET", ReadBy(op)) \cup CallSet("DELETE", DeletedBy(op))
                           \cup (IF op = "DelSvc" THEN {G!Call("CHECK", "dig")} ELSE {})
    BY <1>6 DEF CallsOf, G!Creator, G!Deleter
  <2>2. G!Call("CHECK", "dig").verb = "CHECK" /\ G!Call("CHECK", "dig").kind = "dig"
        /\ G!Call(verb, G!Step(r).kind).verb = verb /\ G!Call(verb, G!Step(r).kind).kind = G!Step(r).kind
    BY DEF G!Call
  <2> HIDE DEF op
  <2>3. \/ verb = "GET" /\ G!Step(r).kind \in ReadBy(op)
        \/ verb = "DELETE" /\ G!Step(r).kind \in DeletedBy(op)
        \/ verb = "CHECK" /\ G!Step(r).kind = "dig" /\ op = "DelSvc"
    <3>1. CASE G!Call(verb, G!Step(r).kind) \in CallSet("GET", ReadBy(op))
      BY <1>4, <3>1
    <3>2. CASE G!Call(verb, G!Step(r).kind) \in CallSet("DELETE", DeletedBy(op))
      BY <1>4, <3>2
    <3>3. CASE op = "DelSvc" /\ G!Call(verb, G!Step(r).kind) = G!Call("CHECK", "dig")
      BY <2>2, <3>3
    <3> QED
      BY <1>2, <2>1, <3>1, <3>2, <3>3 DEF op
  <2> QED
    BY <1>1, <1>6, <2>3 DEF op, G!TreeUser
<1>7. CASE job[r].op \notin G!Creator \cup G!Deleter
  <2>1. CallsOf(job[r].op) = CallSet("GET", G!Kind)
    BY <1>7 DEF CallsOf
  <2>2. verb = "GET"
    BY <1>2, <1>4, <2>1
  <2> QED
    BY <1>1, <1>3, <1>7, <2>2
<1> QED
  BY <1>5, <1>6, <1>7

LEMMA EndedSlot ==
    ASSUME NEW r \in Slots, job'[r].op = "none", job'[r].todo = <<>>, job'[r].left = {}
    PROVE  SlotInv(r)'
<1>1. Elements(<<>>) = {} /\ Ordered(<<>>)
  BY DEF Elements, Ordered
<1>2. ScriptInv(r)'
  BY <1>1 DEF ScriptInv, Todo, G!Creator, G!Deleter
<1> QED
  BY <1>2 DEF SlotInv, CreatorInv, DeleterInv, SureInv, G!Creator, G!Deleter

LEMMA OverScript ==
    ASSUME G!TypeOK, NEW r \in Slots, ScriptInv(r), job[r].todo # <<>>, Advances(r)
    PROVE  /\ ScriptInv(r)'
           /\ Todo(r) = {G!Step(r)} \cup Todo(r)'
           /\ \A c \in Todo(r)' : Before(G!Step(r), c)
<1> DEFINE S == [verb : {"POST", "GET", "CHECK", "DELETE"}, kind : G!Kind]
           t == job[r].todo
<1>1. t \in Seq(S) /\ t # <<>> /\ Ordered(t)
  BY DEF G!TypeOK, G!Job, ScriptInv
<1> HIDE DEF S
<1>2. /\ Ordered(Tail(t)) /\ Elements(t) = {Head(t)} \cup Elements(Tail(t))
      /\ \A i \in DOMAIN Tail(t) : Before(Head(t), Tail(t)[i])
  BY <1>1, TailCalls
<1>3. /\ job'[r].todo = Tail(t) /\ job'[r].op = job[r].op /\ job'[r].service = job[r].service
      /\ job'[r].left = {}
  BY DEF Advances, Same
<1>4. Todo(r) = {G!Step(r)} \cup Todo(r)'
  BY <1>2, <1>3 DEF Todo, G!Step
<1>5. \A c \in Todo(r)' : Before(G!Step(r), c)
  BY <1>2, <1>3 DEF Todo, Elements, G!Step
<1>6. ScriptInv(r)'
  BY <1>2, <1>3, <1>4 DEF ScriptInv
<1> QED
  BY <1>4, <1>5, <1>6

LEMMA LeavesScript ==
    ASSUME NEW r \in Slots, ScriptInv(r), job[r].todo # <<>>, NEW left, Leaves(r, left),
           left \subseteq Own({G!Step(r).kind}, r)
    PROVE  ScriptInv(r)' /\ Todo(r)' = Todo(r) /\ G!Step(r)' = G!Step(r)
BY DEF ScriptInv, Todo, G!Step, Own, Leaves, Same

\* What a request relies on while another one goes on.
LEMMA Keep ==
    ASSUME NEW q \in Slots, SlotInv(q),
           job'[q].op = job[q].op, job'[q].service = job[q].service,
           job'[q].todo = job[q].todo, job'[q].left = job[q].left, job'[q].sure => job[q].sure,
           job[q].op = "CreateApp" => compositeApp' = compositeApp,
           job[q].op = "CreateDig" => DigData' = DigData,
           job[q].op \in G!Deleter => UNCHANGED <<dataRead, treeFilter>>,
           job[q].op \in G!Deleter /\ job'[q].sure /\ running[job[q].service] = "no"
              => running'[job[q].service] = "no",
           job[q].op \in G!Creator => \A d \in docs : d[2] = job[q].service => d \in docs',
           job[q].op \in G!Deleter => \A d : d[2] = job[q].service => (d \in docs <=> d \in docs')
    PROVE  SlotInv(q)'
<1> DEFINE s == job[q].service
<1>1. Todo(q)' = Todo(q) /\ G!Step(q)' = G!Step(q) /\ \A K : Own(K, q)' = Own(K, q)
  BY DEF Todo, G!Step, Own
<1>2. ScriptInv(q)'
  BY <1>1 DEF SlotInv, ScriptInv
<1>3. \A K : \A d \in Own(K, q) : d[2] = s
  BY OwnParts
<1>4. CreatorInv(q)'
  <2> SUFFICES ASSUME job[q].op \in G!Creator PROVE CreatorInv(q)'
    BY DEF CreatorInv
  <2>1. (IF job[q].op = "CreateApp" THEN compositeApp' ELSE DigData'.service) = s
    BY DEF SlotInv, CreatorInv, G!Creator
  <2>2. \A K : \A d \in Own(K, q) : d \in docs => d \in docs'
    BY <1>3
  <2>3. \A k \in KindsOf(job[q].op) : G!Call("POST", k) \in Todo(q) \/ Own({k}, q) \subseteq docs'
    BY <2>2 DEF SlotInv, CreatorInv
  <2>4. job[q].left # {} => Own({G!Step(q).kind}, q) \ job[q].left \subseteq docs'
    BY <2>2 DEF SlotInv, CreatorInv
  <2> QED
    BY <1>1, <2>1, <2>3, <2>4 DEF CreatorInv
<1>5. DeleterInv(q)'
  BY DEF SlotInv, DeleterInv
<1>6. SureInv(q)'
  <2> SUFFICES ASSUME job[q].op \in G!Deleter, job'[q].sure PROVE SureInv(q)'
    BY DEF SureInv
  <2>1. \A K : \A d \in Own(K, q) : d \in docs <=> d \in docs'
    BY <1>3
  <2>2. /\ \A k \in ReadBy(job[q].op) \ G!Unseen :
              G!Call("GET", k) \in Todo(q) \/ Own({k}, q) \cap docs' \subseteq dataRead'
        /\ \A k \in GoneBy(job[q].op) :
              G!Call("DELETE", k) \in Todo(q) \/ Own({k}, q) \cap docs' = {}
        /\ job[q].left # {} /\ G!Step(q).kind \notin G!Unseen
              => Own({G!Step(q).kind}, q) \cap docs' \subseteq job[q].left
    <3>1. /\ \A k \in ReadBy(job[q].op) \ G!Unseen :
                G!Call("GET", k) \in Todo(q) \/ Own({k}, q) \cap docs \subseteq dataRead
          /\ \A k \in GoneBy(job[q].op) :
                G!Call("DELETE", k) \in Todo(q) \/ Own({k}, q) \cap docs = {}
          /\ job[q].left # {} /\ G!Step(q).kind \notin G!Unseen
                => Own({G!Step(q).kind}, q) \cap docs \subseteq job[q].left
      BY DEF SlotInv, SureInv
    <3>2. \A K : Own(K, q) \cap docs' = Own(K, q) \cap docs
      BY <2>1
    <3>3. dataRead' = dataRead
      OBVIOUS
    <3> QED
      BY <3>1, <3>2, <3>3
  <2>3. ASSUME job[q].op = "DelDig" PROVE G!Removable(s)'
    <3>1. G!Removable(s)
      BY <2>3 DEF SlotInv, SureInv
    <3>2. running'[s] = "no"
      BY <3>1 DEF G!Removable
    <3>3. ASSUME NEW d \in docs', d[1] = "pint", d[2] = s PROVE <<"app", s, d[3]>> \in docs'
      <4>1. d \in docs
        BY <3>3
      <4>2. <<"app", s, d[3]>> \in docs
        BY <3>1, <3>3, <4>1 DEF G!Removable
      <4>3. <<"app", s, d[3]>>[2] = s
        OBVIOUS
      <4> QED
        BY <4>2, <4>3
    <3> QED
      BY <3>2, <3>3 DEF G!Removable
  <2>4. ASSUME job[q].op = "DelSvc"
        PROVE  G!Call("CHECK", "dig") \in Todo(q) \/ <<"dig", s, NoApp>> \notin docs'
    <3>1. <<"dig", s, NoApp>>[2] = s
      OBVIOUS
    <3> QED
      BY <2>4, <3>1 DEF SlotInv, SureInv
  <2> HIDE DEF s
  <2>5. job'[q].service = s
    BY DEF s
  <2> QED
    BY <1>1, <2>2, <2>3, <2>4, <2>5 DEF SureInv, s
<1> QED
  BY <1>2, <1>4, <1>5, <1>6 DEF SlotInv

LEMMA OthersKeep ==
    ASSUME Alone, \A q \in Slots : SlotInv(q), NEW r \in Slots, job[r].op # "none", Rest(r),
           UNCHANGED <<compositeApp, DigData, treeFilter>>,
           job[r].op \notin G!TreeUser => dataRead' = dataRead,
           \A s \in Services : running[s] = "no" => running'[s] = "no",
           job[r].op \notin G!Creator => docs' \subseteq docs,
           job[r].op \notin G!Deleter => docs \subseteq docs',
           \A d \in docs : d \notin docs' => d[2] = job[r].service,
           \A d \in docs' : d \notin docs => d[2] = job[r].service
    PROVE  \A q \in Slots : q # r => SlotInv(q)'
<1> SUFFICES ASSUME NEW q \in Slots, q # r PROVE SlotInv(q)'
  OBVIOUS
<1>1. job'[q] = job[q] /\ SlotInv(q)
  BY DEF Rest
<1>2. CASE job[q].op = "none"
  BY <1>1, <1>2, Keep DEF G!Creator, G!Deleter
<1>3. CASE job[q].op # "none"
  <2>1. ~G!Mix(job[q], job[r])
    BY <1>3 DEF Alone
  <2>2. job[q].op \in G!Deleter => job[r].op \notin G!TreeUser
    BY <2>1 DEF G!Mix, G!Deleter, G!TreeUser
  <2>3. /\ job[q].op \in G!Creator /\ job[r].op \in G!Deleter => job[q].service # job[r].service
        /\ job[q].op \in G!Deleter /\ job[r].op \in G!Creator => job[q].service # job[r].service
    BY <2>1 DEF G!Mix
  <2>4. job[q].op \in G!Creator => \A d \in docs : d[2] = job[q].service => d \in docs'
    BY <2>3
  <2>5. job[q].op \in G!Deleter => \A d : d[2] = job[q].service => (d \in docs <=> d \in docs')
    BY <2>2, <2>3 DEF G!TreeUser
  <2>6. job[q].op \in G!Deleter => job[q].service \in Services
    BY <1>1 DEF SlotInv, ScriptInv
  <2> QED
    BY <1>1, <2>2, <2>4, <2>5, <2>6, Keep
<1> QED
  BY <1>2, <1>3

LEMMA AloneKept ==
    ASSUME Alone, NEW r \in Slots, Rest(r),
           \/ job'[r].op = "none"
           \/ job'[r].op = job[r].op /\ job'[r].service = job[r].service
    PROVE  Alone'
<1> SUFFICES ASSUME NEW a \in Slots, NEW b \in Slots, a # b,
                    job'[a].op # "none", job'[b].op # "none"
             PROVE  ~G!Mix(job'[a], job'[b])
  BY DEF Alone, G!Mix
<1>1. /\ job'[a].op = job[a].op /\ job'[a].service = job[a].service
      /\ job'[b].op = job[b].op /\ job'[b].service = job[b].service
  BY DEF Rest
<1>2. ~G!Mix(job[a], job[b])
  BY <1>1 DEF Alone
<1> QED
  BY <1>1, <1>2 DEF G!Mix

LEMMA ClosedKept ==
    ASSUME Closed,
           \/ docs' = docs
           \/ \E d : docs' = docs \cup {d} /\ G!ParentIn(d, docs)
           \/ \E d : docs' = docs \ {d} /\ ~\E c \in docs : c[1] \notin G!Unseen /\ G!IsParent(d, c)
    PROVE  Closed'
<1>1. CASE docs' = docs
  BY <1>1 DEF Closed, G!ParentIn, G!IsParent
<1>2. ASSUME NEW d, docs' = docs \cup {d}, G!ParentIn(d, docs) PROVE Closed'
  BY <1>2 DEF Closed, G!ParentIn, G!IsParent
<1>3. ASSUME NEW d, docs' = docs \ {d}, ~\E c \in docs : c[1] \notin G!Unseen /\ G!IsParent(d, c)
      PROVE  Closed'
  <2> SUFFICES ASSUME NEW c \in docs', c[1] \notin G!Unseen PROVE G!ParentIn(c, docs')
    BY DEF Closed, G!ParentIn
  <2>1. c \in docs /\ G!ParentIn(c, docs)
    BY <1>3 DEF Closed
  <2> QED
    BY <1>3, <2>1 DEF G!ParentIn
<1> QED
  BY <1>1, <1>2, <1>3

-----------------------------------------------------------------------------
(* The steps of the requests.                                              *)

\* In a state that has not been mixed up every request has what it relies on.
LEMMA Unmixed ==
    ASSUME GuiInv, ~mixed
    PROVE  /\ G!TypeOK /\ Closed /\ Alone /\ docs \subseteq G!Doc /\ job \in [Slots -> G!Job]
           /\ \A r \in Slots : /\ SlotInv(r) /\ ScriptInv(r) /\ CreatorInv(r)
                               /\ DeleterInv(r) /\ SureInv(r)
BY DEF GuiInv, SlotInv, G!TypeOK

\* A request goes on or ends, and the others keep what they rely on.
LEMMA Gather ==
    ASSUME GuiInv, ~mixed, NEW r \in Slots, job[r].op # "none", Rest(r), job' \in [Slots -> G!Job],
           UNCHANGED <<compositeApp, DigData, treeFilter>>,
           dataRead' \subseteq G!Doc, job[r].op \notin G!TreeUser => dataRead' = dataRead,
           running' \in [Services -> {"no", "yes", "ending"}],
           \A s \in Services : running[s] = "no" => running'[s] = "no",
           docs' \subseteq G!Doc,
           job[r].op \notin G!Creator => docs' \subseteq docs,
           job[r].op \notin G!Deleter => docs \subseteq docs',
           \A d \in docs : d \notin docs' => d[2] = job[r].service,
           \A d \in docs' : d \notin docs => d[2] = job[r].service,
           Closed',
           \/ job'[r].op = "none" /\ job'[r].todo = <<>> /\ job'[r].left = {}
           \/ /\ job'[r].op = job[r].op /\ job'[r].service = job[r].service
              /\ SlotInv(r)'
    PROVE  GuiInv'
<1>1. Alone /\ \A q \in Slots : SlotInv(q)
  BY Unmixed
<1>2. SlotInv(r)'
  BY EndedSlot
<1>3. \A q \in Slots : q # r => SlotInv(q)'
  BY <1>1, OthersKeep
<1>4. Alone'
  BY <1>1, AloneKept
<1>5. G!TypeOK'
  <2>1. G!TypeOK
    BY DEF GuiInv
  <2>2. \A q \in Slots : job'[q].op = "none" => job'[q].todo = <<>>
    BY <2>1 DEF G!TypeOK, Rest
  <2> QED
    BY <2>1, <2>2 DEF G!TypeOK
<1> QED
  BY <1>2, <1>3, <1>4, <1>5 DEF GuiInv

\* A request that answers without another change.
LEMMA Answers ==
    ASSUME GuiInv, ~mixed, NEW r \in Slots, job[r].op # "none", NEW code \in Nat, G!Answer(r, code),
           UNCHANGED <<docs, running, G!handler>>
    PROVE  GuiInv' /\ job'[r].code = code
<1>1. UNCHANGED <<dataRead, treeFilter, compositeApp, version, DigData>>
  BY DEF G!handler
<1>2. G!TypeOK /\ Closed
  BY DEF GuiInv
<1>3. Ended(r, code)
  BY <1>2, AnswerIs
<1>4. Closed'
  BY <1>2, ClosedKept
<1> QED
  BY <1>1, <1>2, <1>3, <1>4, Gather DEF Ended, G!TypeOK

-----------------------------------------------------------------------------
(* POST.                                                                   *)

\* No call of the script goes before the one at its head.
LEMMA HeadFirst ==
    ASSUME G!TypeOK, NEW r \in Slots, ScriptInv(r), job[r].todo # <<>>
    PROVE  \A c \in Todo(r) : c = G!Step(r) \/ Before(G!Step(r), c)
<1> DEFINE t == job[r].todo
           S == [verb : {"POST", "GET", "CHECK", "DELETE"}, kind : G!Kind]
<1>1. t \in Seq(S) /\ t # <<>> /\ Ordered(t)
  BY DEF G!TypeOK, G!Job, ScriptInv
<1> HIDE DEF S
<1>2. /\ Elements(t) = {Head(t)} \cup Elements(Tail(t))
      /\ \A i \in DOMAIN Tail(t) : Before(Head(t), Tail(t)[i])
  BY <1>1, TailCalls
<1> QED
  BY <1>2 DEF Todo, G!Step, Elements

\* A creator sends what is its own.
LEMMA OwnTarget ==
    ASSUME GuiInv, ~mixed, NEW r \in Slots, G!Runs(r, "POST"),
           G!UrlFits(r) \/ G!Step(r).kind \in {"compositeapp", "cprofile", "dig", "gpint", "nwint"}
    PROVE  /\ G!Target(r) = Own({G!Step(r).kind}, r) /\ G!Left(r) \subseteq Own({G!Step(r).kind}, r)
           /\ Own({G!Step(r).kind}, r) \subseteq G!Doc /\ job[r].op \in G!Creator
           /\ G!Step(r).kind \in KindsOf(job[r].op) /\ job[r].todo # <<>>
           /\ G!Step(r) = G!Call("POST", G!Step(r).kind)
<1>1. /\ job[r].op \in G!Creator /\ G!Step(r).kind \in KindsOf(job[r].op) /\ G!Step(r).kind \in G!Kind
      /\ job[r].todo # <<>> /\ G!Step(r) = G!Call("POST", G!Step(r).kind)
  BY Unmixed, Caller
<1>2. /\ (IF job[r].op = "CreateApp" THEN compositeApp ELSE DigData.service) = job[r].service
      /\ job[r].service \in Services
      /\ job[r].left # {} => job[r].left \subseteq Own({G!Step(r).kind}, r)
  BY <1>1, Unmixed DEF CreatorInv, ScriptInv
<1>3. G!Target(r) = Own({G!Step(r).kind}, r)
  <2>1. CASE job[r].op = "CreateApp"
    <3>1. G!Step(r).kind \in G!ServiceKinds /\ compositeApp = job[r].service
      BY <1>1, <1>2, <2>1 DEF KindsOf
    <3> QED
      BY <3>1 DEF G!Target, Own, G!ServiceKinds
  <2>2. CASE job[r].op = "CreateDig"
    <3>1. G!Step(r).kind \in G!DigKinds /\ DigData.service = job[r].service
      BY <1>1, <1>2, <2>2 DEF KindsOf
    <3>2. G!Step(r).kind \notin G!ServiceKinds
      BY <3>1 DEF G!DigKinds, G!PlacementKinds, G!NetworkKinds, G!ServiceKinds
    <3>3. CASE G!Step(r).kind \in {"dig", "gpint", "nwint"}
      BY <3>1, <3>2, <3>3 DEF G!Target, Own
    <3>4. CASE G!Step(r).kind \notin {"dig", "gpint", "nwint"}
      <4>1. G!Step(r).kind \in {"intents", "pint", "wlint", "interface"} /\ G!UrlFits(r)
        BY <3>1, <3>2, <3>4 DEF G!DigKinds, G!PlacementKinds, G!NetworkKinds, G!ServiceKinds
      <4>2. job[r].at.service = job[r].service
        BY <3>1, <4>1 DEF G!UrlFits
      <4> QED
        BY <3>2, <3>4, <4>2 DEF G!Target, Own
    <3> QED
      BY <3>3, <3>4
  <2> QED
    BY <1>1, <2>1, <2>2 DEF G!Creator
<1>4. Own({G!Step(r).kind}, r) \subseteq G!Doc
  <2> SUFFICES ASSUME NEW d \in Own({G!Step(r).kind}, r) PROVE d \in G!Doc
    OBVIOUS
  <2>1. d[1] = G!Step(r).kind /\ d[2] = job[r].service
    BY OwnParts
  <2> QED
    BY <1>1, <1>2, <2>1 DEF Own, G!DocsOf, G!Doc
<1> QED
  BY <1>1, <1>2, <1>3, <1>4 DEF G!Left

\* A network intent is sent when the group is there, so what is created has its
\* parent.
LEMMA PostedParent ==
    ASSUME GuiInv, ~mixed, NEW r \in Slots, G!Runs(r, "POST"),
           NEW d \in Own({G!Step(r).kind}, r), G!Accepted(d)
    PROVE  G!ParentIn(d, docs)
<1>1. /\ job[r].op \in G!Creator /\ G!Step(r).kind \in KindsOf(job[r].op) /\ job[r].todo # <<>>
      /\ G!Step(r) = G!Call("POST", G!Step(r).kind)
  BY Unmixed, Caller
<1>2. d[1] = G!Step(r).kind /\ d[2] = job[r].service
  BY OwnParts
<1>3. CASE d[1] = "nwint"
  <2>1. job[r].op = "CreateDig" /\ "dig" \in KindsOf(job[r].op)
    BY <1>1, <1>2, <1>3 DEF G!Creator, KindsOf, G!ServiceKinds, G!DigKinds, G!PlacementKinds
  <2>2. G!Call("POST", "dig") \notin Todo(r)
    <3>1. G!Call("POST", "dig").kind = "dig" /\ G!Step(r).verb = "POST"
      BY <1>1 DEF G!Call
    <3>2. G!Step(r).kind \in G!NetworkKinds /\ "dig" \notin G!NetworkKinds
      BY <1>2, <1>3 DEF G!NetworkKinds
    <3> QED
      BY <1>1, <3>1, <3>2, Unmixed, HeadFirst DEF Before
  <2>3. Own({"dig"}, r) \subseteq docs
    BY <1>1, <2>1, <2>2, Unmixed DEF CreatorInv
  <2> DEFINE p == <<"dig", job[r].service, NoApp>>
  <2>4. p \in Own({"dig"}, r)
    BY DEF Own, G!DocsOf, G!PerApp
  <2>5. G!IsParent(p, d)
    BY <1>2, <1>3 DEF G!IsParent, G!Parent
  <2> QED
    BY <2>3, <2>4, <2>5 DEF G!ParentIn
<1>4. CASE d[1] # "nwint"
  BY <1>4 DEF G!Accepted
<1> QED
  BY <1>3, <1>4

LEMMA PostKeeps ==
    ASSUME GuiInv, ~mixed, NEW r \in Slots, G!Post(r)
    PROVE  GuiInv'
<1> DEFINE k == G!Step(r).kind
<1>1. /\ G!Runs(r, "POST")
      /\ UNCHANGED <<running, dataRead, treeFilter, compositeApp, DigData, mixed>>
  BY DEF G!Post
<1>2. PICK d \in G!Left(r) :
         IF G!UrlFits(r) /\ d \notin docs /\ G!Accepted(d)
           THEN G!Posted(r, d)
           ELSE G!Answer(r, 400) /\ UNCHANGED <<docs, version>>
  BY DEF G!Post
<1>3. job[r].op # "none" /\ job[r].op \in G!Creator /\ job[r].todo # <<>>
      /\ G!Step(r) = G!Call("POST", k)
  BY <1>1, Unmixed, Caller
<1>4. CASE G!Answer(r, 400) /\ UNCHANGED <<docs, version>>
  BY <1>1, <1>3, <1>4, Answers DEF G!handler
<1>5. CASE G!UrlFits(r) /\ G!Accepted(d) /\ G!Posted(r, d)
  <2> DEFINE rest == G!Left(r) \ {d}
  <2>1. /\ G!Target(r) = Own({k}, r) /\ G!Left(r) \subseteq Own({k}, r) /\ Own({k}, r) \subseteq G!Doc
        /\ k \in KindsOf(job[r].op)
    BY <1>1, <1>5, OwnTarget
  <2>2. docs' = docs \cup {d}
    BY <1>5 DEF G!Posted
  <2>3. d[2] = job[r].service /\ d \in G!Doc
    BY <2>1, OwnParts
  <2>4. /\ G!TypeOK /\ Closed /\ ScriptInv(r) /\ CreatorInv(r) /\ docs \subseteq G!Doc
    BY Unmixed
  <2>5. \/ rest # {} /\ Leaves(r, rest)
        \/ rest = {} /\ ((Tail(job[r].todo) = <<>> /\ Ended(r, 201)) \/ Over(r))
    <3>1. G!Left(r) \subseteq G!Doc
      BY <2>1
    <3> QED
      BY <1>3, <1>5, <2>4, <3>1, PostedIs
  <2>6. Own({k}, r) \ rest \subseteq docs'
    BY <2>1, <2>2, <2>4, <1>3 DEF CreatorInv, G!Left
  <2>7. Closed'
    <3>1. G!ParentIn(d, docs)
      BY <1>1, <1>5, <2>1, PostedParent
    <3> QED
      BY <2>2, <2>4, <3>1, ClosedKept
  <2> HIDE DEF k
  <2>8. /\ (IF job[r].op = "CreateApp" THEN compositeApp' ELSE DigData'.service) = job[r].service
        /\ \A l \in KindsOf(job[r].op) : G!Call("POST", l) \in Todo(r) \/ Own({l}, r) \subseteq docs'
    BY <1>1, <1>3, <2>2, <2>4 DEF CreatorInv
  <2>9. job[r].op \notin G!Deleter
    BY <1>3 DEF G!Creator, G!Deleter
  <2>10. ASSUME job'[r].op = job[r].op, job'[r].service = job[r].service
         PROVE  /\ \A K : Own(K, r)' = Own(K, r)
                /\ DeleterInv(r)' /\ SureInv(r)'
    BY <2>9, <2>10 DEF DeleterInv, SureInv, Own
  <2>11. CASE rest # {} /\ Leaves(r, rest)
    <3>1. ScriptInv(r)' /\ Todo(r)' = Todo(r) /\ G!Step(r)' = G!Step(r)
      <4>1. rest \subseteq Own({G!Step(r).kind}, r)
        BY <2>1 DEF k
      <4> HIDE DEF rest
      <4> QED
        BY <1>3, <2>4, <2>11, <4>1, LeavesScript
    <3>2. CreatorInv(r)'
      BY <2>6, <2>8, <2>10, <2>11, <3>1 DEF CreatorInv, Leaves, Same, k
    <3>3. SlotInv(r)'
      BY <2>10, <2>11, <3>1, <3>2 DEF SlotInv, Leaves, Same
    <3> QED
      BY <1>1, <1>3, <2>2, <2>3, <2>4, <2>7, <2>9, <2>11, <3>3, Gather DEF Leaves, Same, G!TypeOK
  <2>12. CASE rest = {} /\ Over(r)
    <3>1. /\ ScriptInv(r)' /\ Todo(r) = {G!Step(r)} \cup Todo(r)'
      BY <1>3, <2>4, <2>12, OverScript DEF Over
    <3>2. \A l \in KindsOf(job[r].op) : G!Call("POST", l) \in Todo(r)' \/ Own({l}, r) \subseteq docs'
      <4>1. \A l : G!Call("POST", l) = G!Step(r) => l = k
        BY <1>3 DEF G!Call
      <4> QED
        BY <2>6, <2>8, <2>12, <3>1, <4>1
    <3>3. CreatorInv(r)'
      BY <2>8, <2>10, <2>12, <3>2 DEF CreatorInv, Over, Advances, Same
    <3>4. SlotInv(r)'
      BY <2>10, <2>12, <3>1, <3>3 DEF SlotInv, Over, Advances, Same
    <3> QED
      BY <1>1, <1>3, <2>2, <2>3, <2>4, <2>7, <2>9, <2>12, <3>4, Gather DEF Over, Advances, Same, G!TypeOK
  <2>13. CASE Ended(r, 201)
    BY <1>1, <1>3, <2>2, <2>3, <2>4, <2>7, <2>9, <2>13, Gather DEF Ended, G!TypeOK
  <2> QED
    BY <2>5, <2>11, <2>12, <2>13
<1> QED
  BY <1>2, <1>4, <1>5

LEMMA PostFailsKeeps ==
    ASSUME GuiInv, ~mixed, NEW r \in Slots, G!PostFails(r)
    PROVE  GuiInv'
<1>1. /\ G!Runs(r, "POST") /\ G!Step(r).kind \in {"compositeapp", "cprofile", "dig", "gpint", "nwint"}
      /\ G!Answer(r, 500)
      /\ UNCHANGED <<running, dataRead, treeFilter, compositeApp, DigData, mixed>>
  BY DEF G!PostFails, G!handler
<1>2. PICK d \in G!Left(r) : docs' \in {docs, IF G!Accepted(d) THEN docs \cup {d} ELSE docs}
  BY DEF G!PostFails
<1>3. /\ G!Left(r) \subseteq Own({G!Step(r).kind}, r) /\ Own({G!Step(r).kind}, r) \subseteq G!Doc
      /\ job[r].op \in G!Creator
  BY <1>1, OwnTarget
<1>4. G!TypeOK /\ Closed /\ docs \subseteq G!Doc
  BY Unmixed
<1>5. d[2] = job[r].service /\ d \in G!Doc
  BY <1>3, OwnParts
<1>6. docs' = docs \/ (docs' = docs \cup {d} /\ G!ParentIn(d, docs))
  BY <1>1, <1>2, <1>3, PostedParent
<1>7. Ended(r, 500)
  BY <1>1, <1>4, AnswerIs
<1>8. Closed'
  BY <1>4, <1>6, ClosedKept
<1>9. job[r].op # "none" /\ job[r].op \notin G!Deleter
  BY <1>3 DEF G!Creator, G!Deleter
<1> QED
  BY <1>1, <1>3, <1>4, <1>5, <1>6, <1>7, <1>8, <1>9, Gather DEF Ended, G!TypeOK

-----------------------------------------------------------------------------
(* What G!OnlyAsked and G!AnswersKept say of a step of a request.              *)
AskedBy(r) ==
    /\ \A d \in docs' : d \notin docs => job[r].op \in G!Creator /\ d \in G!Covers(job[r])
    /\ \A d \in docs : d \notin docs' => job[r].op \in G!Deleter /\ d \in G!Covers(job[r])
Promise(r) ==
    job'[r].op = "none" =>
        /\ job'[r].code = 201 =>
             G!Covers(job[r]) \ G!DocsOf(IF DigData.nets THEN {} ELSE G!NetworkKinds, Services) \subseteq docs'
        /\ job'[r].code = 204 /\ job'[r].sure =>
             G!Covers(job[r]) \cap docs' \subseteq G!DocsOf(G!Unseen, Services)

LEMMA OwnKind ==
    ASSUME NEW r, NEW K, NEW d \in Own(K, r)
    PROVE  d[1] \in K /\ d \in Own({d[1]}, r) /\ (\A L : d[1] \in L => d \in Own(L, r))
BY DEF Own, G!DocsOf

LEMMA CoversIs ==
    ASSUME NEW r, job[r].op \in G!Creator \cup G!Deleter
    PROVE  G!Covers(job[r]) = Own(KindsOf(job[r].op), r)
BY DEF G!Covers, Own, KindsOf, G!Creator, G!Deleter

LEMMA DeletedCovered ==
    ASSUME NEW op \in G!Deleter
    PROVE  /\ DeletedBy(op) \subseteq KindsOf(op)
           /\ \A k \in KindsOf(op) : k \in GoneBy(op) \/ k \in G!Unseen
BY DEF GoneBy, DeletedBy, KindsOf, G!Deleter, G!DigKinds, G!PlacementKinds, G!NetworkKinds, G!Unseen

\* A creator whose last call is over has created all, but for the networks it was
\* not asked for.
LEMMA Created ==
    ASSUME GuiInv, ~mixed, NEW r \in Slots, G!Runs(r, "POST"), docs \subseteq docs',
           \/ /\ Tail(job[r].todo) = <<>>
              /\ Own({G!Step(r).kind}, r) \subseteq docs'
           \/ G!Step(r).kind = "nwint" /\ ~DigData.nets
    PROVE  G!Covers(job[r]) \ G!DocsOf(IF DigData.nets THEN {} ELSE G!NetworkKinds, Services) \subseteq docs'
<1>1. /\ job[r].op \in G!Creator /\ G!Step(r) \in Todo(r) /\ G!Step(r) = G!Call("POST", G!Step(r).kind)
      /\ job[r].todo # <<>>
  BY Unmixed, Caller
<1>2. /\ job[r].todo \in Seq([verb : {"POST", "GET", "CHECK", "DELETE"}, kind : G!Kind])
      /\ Ordered(job[r].todo) /\ job[r].service \in Services
      /\ \A k \in KindsOf(job[r].op) : G!Call("POST", k) \in Todo(r) \/ Own({k}, r) \subseteq docs
  BY <1>1, Unmixed DEF G!TypeOK, G!Job, ScriptInv, CreatorInv
<1> DEFINE t == job[r].todo
           S == [verb : {"POST", "GET", "CHECK", "DELETE"}, kind : G!Kind]
<1>3. t \in Seq(S) /\ t # <<>> /\ Ordered(t)
  BY <1>1, <1>2
<1> HIDE DEF S
<1>4. /\ Elements(t) = {Head(t)} \cup Elements(Tail(t))
      /\ \A i \in DOMAIN Tail(t) : Before(Head(t), Tail(t)[i])
  BY <1>3, TailCalls
<1>5. /\ Todo(r) = {G!Step(r)} \cup Elements(Tail(t))
      /\ \A c \in Elements(Tail(t)) : Before(G!Step(r), c)
  BY <1>4 DEF Todo, G!Step, Elements
<1> SUFFICES ASSUME NEW d \in G!Covers(job[r]),
                    d \notin G!DocsOf(IF DigData.nets THEN {} ELSE G!NetworkKinds, Services)
             PROVE  d \in docs'
  OBVIOUS
<1>6. d[1] \in KindsOf(job[r].op) /\ d \in Own({d[1]}, r) /\ d \in Own(KindsOf(job[r].op), r)
  BY <1>1, CoversIs, OwnKind
<1>7. \A k, l : G!Call("POST", k) = G!Call("POST", l) => k = l
  BY DEF G!Call
<1>8. CASE Tail(t) = <<>> /\ Own({G!Step(r).kind}, r) \subseteq docs'
  <2>1. Elements(Tail(t)) = {}
    BY <1>8 DEF Elements
  <2> QED
    BY <1>1, <1>2, <1>5, <1>6, <1>7, <1>8, <2>1
<1>9. CASE G!Step(r).kind = "nwint" /\ ~DigData.nets
  <2>1. d \notin G!DocsOf(G!NetworkKinds, Services)
    BY <1>9
  <2>2. d[1] \notin G!NetworkKinds
    BY <1>2, <1>6, <2>1 DEF Own, G!DocsOf
  <2>3. \A c \in Todo(r) : c.verb = "POST" => c.kind \in G!NetworkKinds
    BY <1>1, <1>5, <1>9 DEF Before, G!Call, G!NetworkKinds
  <2>4. G!Call("POST", d[1]) \notin Todo(r)
    BY <2>2, <2>3 DEF G!Call
  <2> QED
    BY <1>2, <1>6, <2>4
<1> QED
  BY <1>8, <1>9

\* A deleter whose last call is over has deleted all it can.
LEMMA Deleted ==
    ASSUME GuiInv, ~mixed, NEW r \in Slots, job[r].op \in G!Deleter, job[r].sure,
           job[r].todo # <<>>, Tail(job[r].todo) = <<>>, docs' \subseteq docs,
           G!Step(r).verb = "DELETE" /\ G!Step(r).kind \notin G!Unseen => Own({G!Step(r).kind}, r) \cap docs' = {}
    PROVE  G!Covers(job[r]) \cap docs' \subseteq G!DocsOf(G!Unseen, Services)
<1>1. /\ job[r].todo \in Seq([verb : {"POST", "GET", "CHECK", "DELETE"}, kind : G!Kind])
      /\ Ordered(job[r].todo)
      /\ \A k \in GoneBy(job[r].op) :
            G!Call("DELETE", k) \in Todo(r) \/ Own({k}, r) \cap docs = {}
  BY Unmixed DEF G!TypeOK, G!Job, ScriptInv, SureInv
<1> DEFINE t == job[r].todo
           S == [verb : {"POST", "GET", "CHECK", "DELETE"}, kind : G!Kind]
<1>2. t \in Seq(S) /\ t # <<>> /\ Ordered(t)
  BY <1>1
<1> HIDE DEF S
<1>3. Elements(t) = {Head(t)} \cup Elements(Tail(t))
  BY <1>2, TailCalls
<1>4. Todo(r) = {G!Step(r)}
  <2>1. Elements(Tail(t)) = {}
    BY DEF Elements
  <2> QED
    BY <1>3, <2>1 DEF Todo, G!Step
<1>5. \A k \in GoneBy(job[r].op) : Own({k}, r) \cap docs' = {}
  <2>1. ASSUME NEW k, G!Call("DELETE", k) = G!Step(r) PROVE G!Step(r).verb = "DELETE" /\ G!Step(r).kind = k
    BY <2>1 DEF G!Call
  <2> QED
    BY <1>1, <1>4, <2>1 DEF GoneBy
<1> SUFFICES ASSUME NEW d \in G!Covers(job[r]), d \in docs' PROVE d \in G!DocsOf(G!Unseen, Services)
  OBVIOUS
<1>6. d[1] \in KindsOf(job[r].op) /\ d \in Own({d[1]}, r) /\ d \in Own(KindsOf(job[r].op), r)
  BY CoversIs, OwnKind
<1>7. CASE d[1] \in GoneBy(job[r].op)
  BY <1>5, <1>6, <1>7
<1>8. CASE d[1] \in G!Unseen
  <2>1. d \in G!Doc /\ d[2] = job[r].service /\ job[r].service \in Services
    BY <1>6, OwnParts, Unmixed DEF ScriptInv
  <2> QED
    BY <1>8, <2>1, DocIn
<1> QED
  BY <1>6, <1>7, <1>8, DeletedCovered

\* What a creator sends is covered.
LEMMA CoveredTarget ==
    ASSUME NEW r, job[r].op \in G!Creator, G!Step(r).kind \in KindsOf(job[r].op),
           NEW d \in Own({G!Step(r).kind}, r)
    PROVE  d \in G!Covers(job[r])
<1>1. d[1] = G!Step(r).kind
  BY OwnParts
<1>2. d \in Own(KindsOf(job[r].op), r)
  BY <1>1, OwnKind
<1> QED
  BY <1>2, CoversIs

LEMMA PostTold ==
    ASSUME GuiInv, ~mixed, NEW r \in Slots, G!Post(r)
    PROVE  AskedBy(r) /\ Promise(r)
<1> DEFINE k == G!Step(r).kind
<1>1. G!Runs(r, "POST") /\ UNCHANGED DigData
  BY DEF G!Post
<1>2. PICK d \in G!Left(r) :
         IF G!UrlFits(r) /\ d \notin docs /\ G!Accepted(d)
           THEN G!Posted(r, d)
           ELSE G!Answer(r, 400) /\ UNCHANGED <<docs, version>>
  BY DEF G!Post
<1>3. job[r].op # "none" /\ job[r].op \in G!Creator /\ job[r].todo # <<>>
  BY <1>1, Unmixed, Caller
<1>4. G!TypeOK /\ CreatorInv(r)
  BY Unmixed
<1>5. CASE G!Answer(r, 400) /\ UNCHANGED <<docs, version>>
  <2>1. Ended(r, 400)
    BY <1>4, <1>5, AnswerIs
  <2> QED
    BY <1>5, <2>1 DEF AskedBy, Promise, Ended
<1>6. CASE G!UrlFits(r) /\ G!Posted(r, d)
  <2>1. /\ G!Target(r) = Own({k}, r) /\ G!Left(r) \subseteq Own({k}, r) /\ Own({k}, r) \subseteq G!Doc
        /\ k \in KindsOf(job[r].op)
    BY <1>1, <1>6, OwnTarget
  <2>2. docs' = docs \cup {d} /\ d \in G!Covers(job[r])
    BY <1>3, <1>6, <2>1, CoveredTarget DEF G!Posted
  <2>3. AskedBy(r)
    BY <1>3, <2>2 DEF AskedBy
  <2>4. \/ G!Left(r) \ {d} # {} /\ Leaves(r, G!Left(r) \ {d})
        \/ /\ G!Left(r) \ {d} = {}
           /\ (Tail(job[r].todo) = <<>> /\ Ended(r, 201)) \/ Over(r)
    <3>1. G!Left(r) \subseteq G!Doc
      BY <2>1
    <3> QED
      BY <1>3, <1>4, <1>6, <3>1, PostedIs
  <2>5. CASE G!Left(r) \ {d} = {} /\ Tail(job[r].todo) = <<>> /\ Ended(r, 201)
    <3>1. Own({k}, r) \subseteq docs'
      BY <1>3, <1>4, <2>1, <2>2, <2>5 DEF CreatorInv, G!Left
    <3>2. G!Covers(job[r]) \ G!DocsOf(IF DigData.nets THEN {} ELSE G!NetworkKinds, Services) \subseteq docs'
      BY <1>1, <2>2, <2>5, <3>1, Created
    <3> QED
      BY <2>3, <2>5, <3>2 DEF Promise, Ended
  <2>6. CASE job'[r].op = job[r].op
    BY <1>3, <2>3, <2>6 DEF Promise
  <2> QED
    BY <2>4, <2>5, <2>6 DEF Leaves, Over, Advances, Same
<1> QED
  BY <1>2, <1>5, <1>6

LEMMA PostFailsTold ==
    ASSUME GuiInv, ~mixed, NEW r \in Slots, G!PostFails(r)
    PROVE  AskedBy(r) /\ Promise(r)
<1>1. /\ G!Runs(r, "POST") /\ G!Step(r).kind \in {"compositeapp", "cprofile", "dig", "gpint", "nwint"}
      /\ G!Answer(r, 500)
  BY DEF G!PostFails
<1>2. PICK d \in G!Left(r) : docs' \in {docs, IF G!Accepted(d) THEN docs \cup {d} ELSE docs}
  BY DEF G!PostFails
<1>3. /\ G!Left(r) \subseteq Own({G!Step(r).kind}, r) /\ job[r].op \in G!Creator
      /\ G!Step(r).kind \in KindsOf(job[r].op)
  BY <1>1, OwnTarget
<1>4. d \in G!Covers(job[r])
  BY <1>3, CoveredTarget
<1>5. Ended(r, 500)
  BY <1>1, Unmixed, AnswerIs
<1> QED
  BY <1>2, <1>3, <1>4, <1>5 DEF AskedBy, Promise, Ended

LEMMA NoNetworksKeeps ==
    ASSUME GuiInv, ~mixed, NEW r \in Slots, G!NoNetworks(r)
    PROVE  GuiInv' /\ AskedBy(r) /\ Promise(r)
<1>1. /\ G!Runs(r, "POST") /\ G!Step(r).kind = "nwint" /\ ~DigData.nets /\ G!Answer(r, 201)
      /\ UNCHANGED <<docs, running, G!handler>>
  BY DEF G!NoNetworks
<1>2. job[r].op # "none"
  BY <1>1, Unmixed, Caller
<1>3. GuiInv'
  BY <1>1, <1>2, Answers
<1>4. Ended(r, 201)
  BY <1>1, Unmixed, AnswerIs
<1>5. G!Covers(job[r]) \ G!DocsOf(IF DigData.nets THEN {} ELSE G!NetworkKinds, Services) \subseteq docs'
  BY <1>1, Created
<1> QED
  BY <1>1, <1>3, <1>4, <1>5 DEF AskedBy, Promise, Ended

-----------------------------------------------------------------------------
(* GET.                                                                    *)

\* What a deleter relies on when a call is over.
LEMMA SureOver ==
    ASSUME NEW r, SureInv(r), Over(r),
           Todo(r) = {G!Step(r)} \cup Todo(r)', docs' \subseteq docs, dataRead \subseteq dataRead',
           \A d \in docs : d \notin docs' => d[1] # "app" \/ job[r].op # "DelDig",
           running[job[r].service] = "no" => running'[job[r].service] = "no",
           \A k : k \notin G!Unseen /\ G!Step(r) = G!Call("GET", k) => Own({k}, r) \cap docs' \subseteq dataRead',
           \A k : k \notin G!Unseen /\ G!Step(r) = G!Call("DELETE", k) => Own({k}, r) \cap docs' = {},
           G!Step(r) = G!Call("CHECK", "dig") => <<"dig", job[r].service, NoApp>> \notin docs'
    PROVE  SureInv(r)'
<1> DEFINE s == job[r].service
           op == job[r].op
<1>1. /\ job'[r].op = op /\ job'[r].service = s /\ job'[r].sure = job[r].sure
      /\ job'[r].left = {} /\ \A K : Own(K, r)' = Own(K, r)
  BY DEF Over, Advances, Same, Own
<1> SUFFICES ASSUME op \in G!Deleter, job[r].sure PROVE SureInv(r)'
  BY <1>1 DEF SureInv
<1>2. s' = s
  BY <1>1
<1>3. \A k \in ReadBy(op) \ G!Unseen :
         G!Call("GET", k) \in Todo(r)' \/ Own({k}, r) \cap docs' \subseteq dataRead'
  <2>1. ASSUME NEW k \in ReadBy(op) \ G!Unseen, G!Call("GET", k) \notin Todo(r)'
        PROVE  Own({k}, r) \cap docs' \subseteq dataRead'
    <3>1. G!Step(r) = G!Call("GET", k) \/ Own({k}, r) \cap docs \subseteq dataRead
      BY <2>1 DEF SureInv
    <3> QED
      BY <3>1
  <2> QED
    BY <2>1
<1>4. \A k \in GoneBy(op) : G!Call("DELETE", k) \in Todo(r)' \/ Own({k}, r) \cap docs' = {}
  <2>1. ASSUME NEW k \in GoneBy(op), G!Call("DELETE", k) \notin Todo(r)'
        PROVE  Own({k}, r) \cap docs' = {}
    <3>1. G!Step(r) = G!Call("DELETE", k) \/ Own({k}, r) \cap docs = {}
      BY <2>1 DEF SureInv
    <3> QED
      BY <2>1, <3>1 DEF GoneBy
  <2> QED
    BY <2>1
<1>5. op = "DelDig" => G!Removable(s)'
  <2> SUFFICES ASSUME op = "DelDig" PROVE G!Removable(s)'
    OBVIOUS
  <2>1. G!Removable(s)
    BY DEF SureInv
  <2>2. ASSUME NEW d \in docs', d[1] = "pint", d[2] = s PROVE <<"app", s, d[3]>> \in docs'
    <3>1. <<"app", s, d[3]>> \in docs
      BY <2>1, <2>2 DEF G!Removable
    <3>2. <<"app", s, d[3]>>[1] = "app"
      OBVIOUS
    <3> QED
      BY <3>1, <3>2
  <2>3. running'[s] = "no"
    BY <2>1 DEF G!Removable
  <2> HIDE DEF s
  <2> QED
    BY <1>2, <2>2, <2>3 DEF G!Removable
<1>6. op = "DelSvc" => G!Call("CHECK", "dig") \in Todo(r)' \/ <<"dig", s, NoApp>> \notin docs'
  BY DEF SureInv
<1> HIDE DEF op
<1> HIDE DEF s
<1> QED
  BY <1>1, <1>3, <1>4, <1>5, <1>6, <1>2 DEF SureInv, s

LEMMA ReadFailsKeeps ==
    ASSUME GuiInv, ~mixed, NEW r \in Slots, G!ReadFails(r)
    PROVE  GuiInv' /\ AskedBy(r) /\ Promise(r)
<1>1. G!Runs(r, "GET") /\ G!Answer(r, 500) /\ UNCHANGED <<docs, running, G!handler>>
  BY DEF G!ReadFails
<1>2. job[r].op # "none"
  BY <1>1, Unmixed, Caller
<1>3. GuiInv' /\ job'[r].code = 500
  BY <1>1, <1>2, Answers
<1> QED
  BY <1>1, <1>3 DEF AskedBy, Promise

\* The kinds a deleter reads have their parents before them.
LEMMA ReadParents ==
    ASSUME NEW op \in G!Deleter, NEW k \in ReadBy(op), k # "compositeapp"
    PROVE  G!Parent[k] \in ReadBy(op) \ G!Unseen /\ G!Parent[k] # k
BY DEF ReadBy, G!Deleter, G!Parent, G!Unseen

\* A deleter reads its own documents and no others.
LEMMA ReadsOwn ==
    ASSUME GuiInv, ~mixed, NEW r \in Slots, job[r].op \in G!Deleter, NEW k, k = G!Step(r).kind,
           G!Runs(r, "GET"),
           dataRead' = dataRead \cup
               {d \in docs : d[1] = k /\
                   IF k = "compositeapp" THEN G!Asked(k) = {} \/ d \in G!Asked(k)
                   ELSE G!ParentIn(d, dataRead)}
    PROVE  /\ \A d \in dataRead' : d[2] = job[r].service
           /\ job[r].sure /\ k \notin G!Unseen => Own({k}, r) \cap docs \subseteq dataRead'
<1> DEFINE s == job[r].service
           op == job[r].op
<1>1. /\ k \in ReadBy(op) /\ G!Step(r) = G!Call("GET", k) /\ job[r].todo # <<>>
  BY Unmixed, Caller
<1>2. /\ G!TypeOK /\ Closed /\ docs \subseteq G!Doc /\ ScriptInv(r) /\ s \in Services
      /\ treeFilter = G!PrepTreeReq(s, op) /\ \A d \in dataRead : d[2] = s
  BY Unmixed DEF DeleterInv, ScriptInv
<1>3. k = "compositeapp" => G!Asked(k) = G!DocsOf({k}, {s}) /\ <<k, s, NoApp>> \in G!Asked(k)
  <2> SUFFICES ASSUME k = "compositeapp"
               PROVE  G!Asked(k) = G!DocsOf({k}, {s}) /\ <<k, s, NoApp>> \in G!Asked(k)
    OBVIOUS
  <2>1. s # NoService /\ treeFilter.service = s
    BY <1>2, GuiAssumed DEF G!MiddleEndAssumption, G!PrepTreeReq
  <2>2. G!Asked(k) = G!DocsOf({k}, {s})
    BY <2>1 DEF G!Asked
  <2>3. <<k, s, NoApp>> \in G!DocsOf({k}, {s})
    BY DEF G!DocsOf, G!PerApp
  <2> QED
    BY <2>2, <2>3
<1>4. ASSUME NEW d \in docs, d[1] = k,
             IF k = "compositeapp" THEN G!Asked(k) = {} \/ d \in G!Asked(k)
             ELSE G!ParentIn(d, dataRead)
      PROVE  d[2] = s
  <2>1. CASE k = "compositeapp"
    <3>1. d \in G!DocsOf({k}, {s})
      BY <1>3, <1>4, <2>1
    <3> QED
      BY <3>1 DEF G!DocsOf
  <2>2. CASE k # "compositeapp"
    BY <1>2, <1>4, <2>2 DEF G!ParentIn, G!IsParent
  <2> QED
    BY <2>1, <2>2
<1>5. ASSUME job[r].sure, k \notin G!Unseen, NEW d \in Own({k}, r), d \in docs
      PROVE  IF k = "compositeapp" THEN d \in G!Asked(k) ELSE G!ParentIn(d, dataRead)
  <2>1. d[1] = k /\ d[2] = s
    BY <1>5, OwnParts
  <2>2. CASE k = "compositeapp"
    BY <1>3, <1>5, <2>2 DEF Own
  <2>3. CASE k # "compositeapp"
    <3>1. G!Parent[k] \in ReadBy(op) \ G!Unseen /\ G!Parent[k] # k
      BY <1>1, <2>3, ReadParents
    <3>2. G!Call("GET", G!Parent[k]) \notin Todo(r)
      <4> DEFINE t == job[r].todo
                 S == [verb : {"POST", "GET", "CHECK", "DELETE"}, kind : G!Kind]
      <4>1. t \in Seq(S) /\ t # <<>> /\ Ordered(t)
        BY <1>1, <1>2 DEF G!TypeOK, G!Job, ScriptInv
      <4> HIDE DEF S
      <4>2. /\ Elements(t) = {Head(t)} \cup Elements(Tail(t))
            /\ \A i \in DOMAIN Tail(t) : Before(Head(t), Tail(t)[i])
        BY <4>1, TailCalls
      <4>3. /\ Todo(r) = {G!Step(r)} \cup Elements(Tail(t))
            /\ \A c \in Elements(Tail(t)) : Before(G!Step(r), c)
        BY <4>2 DEF Todo, G!Step, Elements
      <4>4. G!Call("GET", G!Parent[k]).verb = "GET" /\ G!Call("GET", G!Parent[k]).kind = G!Parent[k]
            /\ G!Step(r).verb = "GET" /\ G!Step(r).kind = k
        BY <1>1 DEF G!Call
      <4> QED
        BY <2>3, <3>1, <4>3, <4>4 DEF Before
    <3>3. Own({G!Parent[k]}, r) \cap docs \subseteq dataRead
      BY <1>5, <3>1, <3>2, Unmixed DEF SureInv
    <3>4. PICK p \in docs : G!IsParent(p, d)
      BY <1>2, <1>5, <2>1, <2>3 DEF Closed, G!ParentIn
    <3>5. p \in Own({G!Parent[k]}, r)
      <4>1. p \in G!Doc /\ p[1] = G!Parent[k] /\ p[2] = s
        BY <1>2, <2>1, <3>4 DEF G!IsParent
      <4> QED
        BY <4>1, DocIn DEF Own
    <3> QED
      BY <2>3, <3>3, <3>4, <3>5 DEF G!ParentIn
  <2> QED
    BY <2>2, <2>3
<1>6. \A d \in dataRead' : d[2] = s
  BY <1>2, <1>4
<1>7. ASSUME job[r].sure, k \notin G!Unseen, NEW d \in Own({k}, r), d \in docs PROVE d \in dataRead'
  <2>1. d[1] = k
    BY <1>7, OwnParts
  <2>2. IF k = "compositeapp" THEN G!Asked(k) = {} \/ d \in G!Asked(k) ELSE G!ParentIn(d, dataRead)
    BY <1>5, <1>7
  <2> QED
    BY <1>7, <2>1, <2>2
<1> QED
  BY <1>6, <1>7

LEMMA ReadKeeps ==
    ASSUME GuiInv, ~mixed, NEW r \in Slots, G!Read(r)
    PROVE  GuiInv' /\ AskedBy(r) /\ Promise(r)
<1> DEFINE k == G!Step(r).kind
<1>1. /\ G!Runs(r, "GET")
      /\ UNCHANGED <<docs, running, treeFilter, compositeApp, version, DigData, mixed>>
      /\ \/ /\ dataRead' = dataRead \cup
                  {d \in docs : d[1] = k /\
                      IF k = "compositeapp" THEN G!Asked(k) = {} \/ d \in G!Asked(k)
                      ELSE G!ParentIn(d, dataRead)}
            /\ G!StepOver(r)
         \/ G!Answer(r, 404) /\ UNCHANGED dataRead
  BY DEF G!Read
<1>2. /\ job[r].op # "none" /\ job[r].op \in G!TreeUser /\ job[r].todo # <<>>
      /\ G!Step(r) = G!Call("GET", k) /\ G!Step(r).verb = "GET"
  BY <1>1, Unmixed, Caller DEF G!Runs
<1>3. /\ G!TypeOK /\ Closed /\ docs \subseteq G!Doc /\ ScriptInv(r)
  BY Unmixed
<1>4. AskedBy(r)
  BY <1>1 DEF AskedBy
<1>5. CASE G!Answer(r, 404) /\ UNCHANGED dataRead
  <2>1. GuiInv' /\ job'[r].code = 404
    BY <1>1, <1>2, <1>5, Answers DEF G!handler
  <2> QED
    BY <1>4, <2>1 DEF Promise
<1>6. CASE /\ dataRead' = dataRead \cup
                  {d \in docs : d[1] = k /\
                      IF k = "compositeapp" THEN G!Asked(k) = {} \/ d \in G!Asked(k)
                      ELSE G!ParentIn(d, dataRead)}
           /\ G!StepOver(r)
  <2>1. dataRead' \subseteq G!Doc /\ dataRead \subseteq dataRead'
    BY <1>3, <1>6 DEF G!TypeOK
  <2>2. Closed'
    BY <1>1, <1>3, ClosedKept
  <2>3. job[r].op \in G!Deleter =>
           /\ \A d \in dataRead' : d[2] = job[r].service
           /\ job[r].sure /\ k \notin G!Unseen => Own({k}, r) \cap docs \subseteq dataRead'
    BY <1>1, <1>6, ReadsOwn
  <2>4. (Tail(job[r].todo) = <<>> /\ Ended(r, G!OkCode(job[r].op))) \/ Over(r)
    BY <1>2, <1>3, <1>6, StepOverIs
  <2> HIDE DEF k
  <2>5. job[r].op \notin G!Creator
    BY <1>2 DEF G!Creator, G!TreeUser, G!Deleter
  <2>6. CASE Tail(job[r].todo) = <<>> /\ Ended(r, G!OkCode(job[r].op))
    <3>1. GuiInv'
      BY <1>1, <1>2, <1>3, <2>1, <2>2, <2>6, Gather DEF Ended, G!TypeOK
    <3>2. job[r].op \notin G!Deleter => G!OkCode(job[r].op) = 200
      BY <2>5 DEF G!OkCode
    <3>3. job[r].op \in G!Deleter => G!OkCode(job[r].op) = 204
      BY <2>5 DEF G!OkCode
    <3>4. job[r].op \in G!Deleter /\ job[r].sure => G!Covers(job[r]) \cap docs' \subseteq G!DocsOf(G!Unseen, Services)
      BY <1>1, <1>2, <2>2, <2>6, Deleted
    <3> QED
      BY <1>4, <2>6, <3>1, <3>2, <3>3, <3>4 DEF Promise, Ended
  <2>7. CASE Over(r)
    <3>1. /\ ScriptInv(r)' /\ Todo(r) = {G!Step(r)} \cup Todo(r)'
      BY <1>2, <1>3, <2>7, OverScript DEF Over
    <3>2. job'[r].op = job[r].op /\ job'[r].service = job[r].service /\ job'[r].sure = job[r].sure
      BY <2>7 DEF Over, Advances, Same
    <3>3. CreatorInv(r)'
      BY <2>5, <3>2 DEF CreatorInv
    <3>4. DeleterInv(r)'
      BY <1>1, <2>3, <3>2, Unmixed DEF DeleterInv
    <3>5. SureInv(r)'
      <4>1. CASE job[r].op \in G!Deleter /\ job[r].sure
        <5>1. \A l : /\ G!Step(r) = G!Call("GET", l) => l = k
                     /\ G!Step(r) # G!Call("DELETE", l) /\ G!Step(r) # G!Call("CHECK", l)
          BY <1>2 DEF G!Call
        <5>2. SureInv(r)
          BY Unmixed
        <5> QED
          BY <1>1, <2>1, <2>3, <2>7, <3>1, <4>1, <5>1, <5>2, SureOver
      <4>2. CASE ~(job[r].op \in G!Deleter /\ job[r].sure)
        BY <3>2, <4>2 DEF SureInv
      <4> QED
        BY <4>1, <4>2
    <3>6. SlotInv(r)'
      BY <3>1, <3>3, <3>4, <3>5 DEF SlotInv
    <3>7. GuiInv'
      BY <1>1, <1>2, <1>3, <2>1, <2>2, <2>7, <3>2, <3>6, Gather DEF Over, Advances, Same, G!TypeOK
    <3> QED
      BY <1>2, <1>4, <3>2, <3>7 DEF Promise
  <2> QED
    BY <2>4, <2>6, <2>7
<1> QED
  BY <1>1, <1>5, <1>6

LEMMA CheckKeeps ==
    ASSUME GuiInv, ~mixed, NEW r \in Slots, G!CheckNoDig(r)
    PROVE  GuiInv' /\ AskedBy(r) /\ Promise(r)
<1> DEFINE s == job[r].service
<1>1. /\ G!Runs(r, "CHECK") /\ UNCHANGED <<docs, running, G!handler>>
      /\ \/ G!Answer(r, 0) \/ G!Answer(r, 409)
         \/ <<"dig", s, NoApp>> \notin dataRead /\ G!StepOver(r)
  BY DEF G!CheckNoDig
<1>2. UNCHANGED <<docs, running, dataRead, treeFilter, compositeApp, DigData>>
  BY <1>1 DEF G!handler
<1>3. /\ job[r].op = "DelSvc" /\ job[r].op # "none" /\ job[r].todo # <<>>
      /\ G!Step(r) = G!Call("CHECK", "dig")
  BY <1>1, Unmixed, Caller
<1>4. /\ G!TypeOK /\ Closed /\ ScriptInv(r) /\ SureInv(r) /\ DeleterInv(r)
  BY Unmixed
<1>5. job[r].op \in G!Deleter /\ job[r].op \notin G!Creator /\ job[r].op \in G!TreeUser
  BY <1>3 DEF G!Deleter, G!Creator, G!TreeUser
<1>6. AskedBy(r)
  BY <1>1 DEF AskedBy
<1>7. ASSUME NEW code \in {0, 409}, G!Answer(r, code) PROVE GuiInv' /\ Promise(r)
  <2>1. GuiInv' /\ job'[r].code = code
    BY <1>1, <1>3, <1>7, Answers
  <2> QED
    BY <2>1 DEF Promise
<1>8. CASE <<"dig", s, NoApp>> \notin dataRead /\ G!StepOver(r)
  <2>1. (Tail(job[r].todo) = <<>> /\ Ended(r, G!OkCode(job[r].op))) \/ Over(r)
    BY <1>3, <1>4, <1>8, StepOverIs
  <2>2. Closed'
    BY <1>2, <1>4, ClosedKept
  <2>3. G!Step(r).verb = "CHECK"
    BY <1>3 DEF G!Call
  <2>4. CASE Tail(job[r].todo) = <<>> /\ Ended(r, G!OkCode(job[r].op))
    <3>1. GuiInv'
      BY <1>2, <1>3, <1>4, <2>2, <2>4, Gather DEF Ended, G!TypeOK
    <3>2. G!OkCode(job[r].op) = 204
      BY <1>5 DEF G!OkCode
    <3>3. job[r].sure => G!Covers(job[r]) \cap docs' \subseteq G!DocsOf(G!Unseen, Services)
      BY <1>2, <1>3, <1>5, <2>2, <2>3, <2>4, Deleted
    <3>4. job'[r].code = 204 /\ job'[r].sure = job[r].sure
      BY <2>4, <3>2 DEF Ended
    <3> QED
      BY <1>6, <3>1, <3>3, <3>4 DEF Promise
  <2>5. CASE Over(r)
    <3>1. /\ ScriptInv(r)' /\ Todo(r) = {G!Step(r)} \cup Todo(r)'
      BY <1>3, <1>4, <2>5, OverScript DEF Over
    <3>2. job'[r].op = job[r].op /\ job'[r].service = job[r].service /\ job'[r].sure = job[r].sure
      BY <2>5 DEF Over, Advances, Same
    <3>3. CreatorInv(r)' /\ DeleterInv(r)'
      BY <1>2, <1>4, <1>5, <3>2 DEF CreatorInv, DeleterInv
    <3>4. ASSUME job[r].sure PROVE <<"dig", s, NoApp>> \notin docs
      <4>1. G!Call("GET", "dig") \notin Todo(r)
        <5>1. G!Call("GET", "dig").verb = "GET"
          BY DEF G!Call
        <5> QED
          BY <1>3, <1>4, <2>3, <5>1, HeadFirst DEF Before
      <4>2. "dig" \in ReadBy(job[r].op) \ G!Unseen
        BY <1>3 DEF ReadBy, G!Unseen
      <4>3. Own({"dig"}, r) \cap docs \subseteq dataRead
        BY <1>4, <1>5, <3>4, <4>1, <4>2 DEF SureInv
      <4>4. <<"dig", s, NoApp>> \in Own({"dig"}, r)
        BY DEF Own, G!DocsOf, G!PerApp
      <4> QED
        BY <1>8, <4>3, <4>4
    <3>5. SureInv(r)'
      <4>1. CASE job[r].sure
        <5>1. \A l, v : v # "CHECK" => G!Step(r) # G!Call(v, l)
          BY <2>3 DEF G!Call
        <5> QED
          BY <1>2, <1>4, <2>5, <3>1, <3>4, <4>1, <5>1, SureOver
      <4>2. CASE ~job[r].sure
        BY <3>2, <4>2 DEF SureInv
      <4> QED
        BY <4>1, <4>2
    <3>6. SlotInv(r)'
      BY <3>1, <3>3, <3>5 DEF SlotInv
    <3>7. Rest(r) /\ job' \in [Slots -> G!Job]
      BY <2>5 DEF Over, Advances, Same
    <3>8. docs' \subseteq G!Doc /\ dataRead' \subseteq G!Doc
          /\ running' \in [Services -> {"no", "yes", "ending"}]
      BY <1>2, <1>4 DEF G!TypeOK
    <3>9. GuiInv'
      BY <1>2, <1>3, <2>2, <3>2, <3>6, <3>7, <3>8, Gather
    <3> QED
      BY <1>3, <1>6, <3>2, <3>9 DEF Promise
  <2> QED
    BY <2>1, <2>4, <2>5
<1> QED
  BY <1>1, <1>6, <1>7, <1>8

-----------------------------------------------------------------------------
(* DELETE.                                                                 *)

\* What is left of a call to delete: the tree's documents before the first.
LeftToDelete(r) == IF job[r].left = {} THEN G!InTree(G!Step(r).kind) ELSE job[r].left

\* The tree has no documents of others.
LEMMA InTreeOwn ==
    ASSUME GuiInv, ~mixed, NEW r \in Slots, G!Runs(r, "DELETE")
    PROVE  LeftToDelete(r) \subseteq Own({G!Step(r).kind}, r)
<1> DEFINE k == G!Step(r).kind
           s == job[r].service
<1>1. job[r].op \in G!Deleter /\ job[r].left # {} => job[r].left \subseteq Own({k}, r)
  BY Unmixed DEF ScriptInv
<1>2. job[r].op \in G!Deleter /\ k \in G!Kind
  BY Unmixed, Caller
<1>3. dataRead \subseteq G!Doc /\ \A d \in dataRead : d[2] = s
  BY <1>2, Unmixed DEF DeleterInv, G!TypeOK
<1>4. ASSUME NEW d \in G!InTree(k) PROVE d \in Own({k}, r)
  <2>1. CASE k = "pint" \/ k = "intents"
    <3>1. d \in G!DocsOf({k}, Services) /\ G!ParentIn(d, dataRead) /\ d[1] = k
      BY <1>4, <2>1 DEF G!InTree, G!DocsOf
    <3>2. d[2] = s
      BY <1>3, <2>1, <3>1 DEF G!ParentIn, G!IsParent
    <3> QED
      BY <3>1, <3>2 DEF Own, G!DocsOf
  <2>2. CASE k = "wlint"
    BY <1>4, <2>2 DEF G!InTree
  <2>3. CASE k \notin {"pint", "intents", "wlint"}
    <3>1. d \in dataRead /\ d[1] = k
      BY <1>4, <2>3 DEF G!InTree
    <3> QED
      BY <1>3, <3>1, DocIn DEF Own
  <2> QED
    BY <2>1, <2>2, <2>3
<1> QED
  BY <1>1, <1>2, <1>4 DEF LeftToDelete

\* When a surely complete tree is deleted, it has all there is.
LEMMA InTreeAll ==
    ASSUME GuiInv, ~mixed, NEW r \in Slots, G!Runs(r, "DELETE"), job[r].sure,
           G!Step(r).kind \notin G!Unseen
    PROVE  Own({G!Step(r).kind}, r) \cap docs \subseteq LeftToDelete(r)
<1> DEFINE k == G!Step(r).kind
           s == job[r].service
           op == job[r].op
<1>1. /\ op \in G!Deleter /\ k \in DeletedBy(op) /\ job[r].todo # <<>> /\ G!Step(r) = G!Call("DELETE", k)
      /\ G!Step(r).verb = "DELETE"
  BY Unmixed, Caller DEF G!Runs
<1>2. G!TypeOK /\ Closed /\ docs \subseteq G!Doc /\ ScriptInv(r) /\ SureInv(r)
  BY Unmixed
<1>3. \A l \in ReadBy(op) \ G!Unseen : Own({l}, r) \cap docs \subseteq dataRead
  <2>1. ASSUME NEW l \in ReadBy(op) PROVE G!Call("GET", l) \notin Todo(r)
    <3>1. G!Call("GET", l).verb = "GET"
      BY DEF G!Call
    <3> QED
      BY <1>1, <1>2, <3>1, HeadFirst DEF Before
  <2> QED
    BY <1>1, <1>2, <2>1 DEF SureInv
<1>4. ASSUME NEW d \in docs, d[2] = s, d[1] \in ReadBy(op) \ G!Unseen PROVE d \in dataRead
  <2>1. d \in Own({d[1]}, r)
    BY <1>2, <1>4, DocIn DEF Own
  <2> QED
    BY <1>3, <1>4, <2>1
<1> SUFFICES ASSUME NEW d \in Own({k}, r), d \in docs, job[r].left = {}
             PROVE  d \in G!InTree(k)
  BY <1>1, <1>2 DEF LeftToDelete, SureInv
<1>5. /\ d[1] = k /\ d[2] = s /\ d \in G!Doc /\ d \in G!DocsOf({k}, {s}) /\ s \in Services
      /\ (k \in G!PerApp) = (d[3] # NoApp)
  BY <1>1, <1>2, OwnParts DEF Own, G!DocsOf, ScriptInv
<1>6. ASSUME NEW c \in docs, c[2] = s, c[1] # "compositeapp", c[1] \notin G!Unseen
      PROVE  \E p \in docs : G!IsParent(p, c) /\ p[1] = G!Parent[c[1]] /\ p[2] = s
  BY <1>2, <1>6 DEF Closed, G!ParentIn, G!IsParent
<1>7. CASE op = "DelDig"
  <2>1. G!Removable(s)
    BY <1>1, <1>2, <1>7 DEF SureInv
  <2>2. CASE k = "pint"
    <3>1. PICK p \in docs : G!IsParent(p, d) /\ p[1] = "gpint" /\ p[2] = s
      BY <1>5, <1>6, <2>2 DEF G!Parent, G!Unseen
    <3>2. p \in dataRead
      BY <1>4, <1>7, <3>1 DEF ReadBy, G!Unseen
    <3>3. G!ParentIn(d, dataRead)
      BY <3>1, <3>2 DEF G!ParentIn
    <3>4. <<"app", s, d[3]>> \in docs
      BY <1>5, <2>1, <2>2 DEF G!Removable
    <3>5. <<"app", s, d[3]>> \in dataRead
      <4> DEFINE a == <<"app", s, d[3]>>
      <4>1. a[1] = "app" /\ a[2] = s
        OBVIOUS
      <4> HIDE DEF a
      <4>2. a \in dataRead
        BY <1>4, <1>7, <3>4, <4>1 DEF ReadBy, G!Unseen, a
      <4> QED
        BY <4>2 DEF a
    <3>6. d \in G!DocsOf({"pint"}, Services)
      BY <1>5, <2>2, DocIn
    <3> QED
      BY <1>5, <2>2, <3>3, <3>5, <3>6 DEF G!InTree
  <2>3. CASE k = "intents"
    <3>1. PICK p \in docs : G!IsParent(p, d) /\ p[1] = "dig" /\ p[2] = s
      BY <1>5, <1>6, <2>3 DEF G!Parent, G!Unseen
    <3>2. p \in dataRead
      BY <1>4, <1>7, <3>1 DEF ReadBy, G!Unseen
    <3>3. G!ParentIn(d, dataRead)
      BY <3>1, <3>2 DEF G!ParentIn
    <3>4. d \in G!DocsOf({"intents"}, Services)
      BY <1>5, <2>3, DocIn
    <3> QED
      BY <2>3, <3>3, <3>4 DEF G!InTree
  <2>4. CASE k \notin {"pint", "intents"}
    <3>1. k \in ReadBy(op) \ G!Unseen
      BY <1>1, <1>7, <2>4 DEF G!Unseen, ReadBy, DeletedBy, G!DigKinds, G!PlacementKinds, G!NetworkKinds
    <3>2. d \in dataRead
      BY <1>4, <1>5, <3>1
    <3> QED
      BY <1>5, <2>4, <3>2 DEF G!InTree, G!Unseen
  <2> QED
    BY <2>2, <2>3, <2>4
<1>8. CASE op = "DelSvc"
  <2>1. k \in ReadBy(op) \ G!Unseen /\ k \notin {"pint", "intents", "wlint"}
    BY <1>1, <1>8 DEF G!Unseen, ReadBy, DeletedBy, G!ServiceKinds
  <2>2. d \in dataRead
    BY <1>4, <1>5, <2>1
  <2> QED
    BY <1>5, <2>1, <2>2 DEF G!InTree
<1> QED
  BY <1>1, <1>7, <1>8 DEF G!Deleter

\* What it deletes has no children that count any more.
LEMMA NoChildren ==
    ASSUME GuiInv, ~mixed, NEW r \in Slots, G!Runs(r, "DELETE"), job[r].sure,
           NEW d \in Own({G!Step(r).kind}, r), NEW c \in docs, c[1] \notin G!Unseen, G!IsParent(d, c)
    PROVE  FALSE
<1> DEFINE k == G!Step(r).kind
           s == job[r].service
           op == job[r].op
<1>1. /\ op \in G!Deleter /\ k \in DeletedBy(op) /\ job[r].todo # <<>> /\ G!Step(r) = G!Call("DELETE", k)
      /\ G!Step(r).verb = "DELETE"
  BY Unmixed, Caller DEF G!Runs
<1>2. G!TypeOK /\ Closed /\ docs \subseteq G!Doc /\ ScriptInv(r) /\ SureInv(r)
  BY Unmixed
<1>3. c[1] # "compositeapp" /\ k = G!Parent[c[1]] /\ c[2] = s /\ c \in G!Doc
  BY <1>2, OwnParts DEF G!IsParent
<1>4. c[1] \in G!Kind /\ c[1] # k
  <2>1. c[1] \in G!Kind
    BY <1>3 DEF G!Doc, G!DocsOf
  <2> QED
    BY <1>3, <2>1 DEF G!Kind, G!Parent
<1>5. CASE c[1] \in GoneBy(op)
  <2>1. G!Call("DELETE", c[1]) \notin Todo(r)
    <3>1. G!Call("DELETE", c[1]).kind = c[1] /\ G!Step(r).kind = k
      BY DEF G!Call
    <3> QED
      BY <1>1, <1>2, <1>3, <1>4, <3>1, HeadFirst DEF Before
  <2>2. Own({c[1]}, r) \cap docs = {}
    BY <1>1, <1>2, <1>5, <2>1 DEF SureInv
  <2>3. c \in Own({c[1]}, r)
    BY <1>3, DocIn DEF Own
  <2> QED
    BY <2>2, <2>3
<1>6. CASE op = "DelDig" /\ c[1] \notin GoneBy(op)
  BY <1>1, <1>3, <1>4, <1>6
     DEF GoneBy, DeletedBy, G!Unseen, G!Kind, G!Parent, G!DigKinds, G!PlacementKinds, G!NetworkKinds
<1>7. CASE op = "DelSvc" /\ c[1] \notin GoneBy(op)
  <2>1. c[1] = "dig"
    BY <1>1, <1>3, <1>4, <1>7 DEF GoneBy, DeletedBy, G!Kind, G!Parent, G!ServiceKinds
  <2>2. c = <<"dig", s, NoApp>>
    BY <1>3, <2>1 DEF G!Doc, G!DocsOf, G!PerApp
  <2>3. G!Call("CHECK", "dig") \notin Todo(r)
    <3>1. G!Call("CHECK", "dig").verb = "CHECK"
      BY DEF G!Call
    <3> QED
      BY <1>1, <1>2, <3>1, HeadFirst DEF Before
  <2> QED
    BY <1>1, <1>2, <1>7, <2>2, <2>3 DEF SureInv
<1> QED
  BY <1>1, <1>5, <1>6, <1>7 DEF G!Deleter

\* A call to delete is over, or goes on with what is left of it.
LEMMA DeleteMoves ==
    ASSUME GuiInv, ~mixed, NEW r \in Slots, G!Runs(r, "DELETE"),
           UNCHANGED <<dataRead, treeFilter, compositeApp, DigData>>,
           running' \in [Services -> {"no", "yes", "ending"}],
           \A s \in Services : running[s] = "no" => running'[s] = "no",
           docs' = docs \/ \E d \in Own({G!Step(r).kind}, r) :
                              docs' = docs \ {d} /\ ~\E c \in docs : c[1] \notin G!Unseen /\ G!IsParent(d, c),
           NEW left, left \subseteq Own({G!Step(r).kind}, r),
           job[r].sure /\ G!Step(r).kind \notin G!Unseen => Own({G!Step(r).kind}, r) \cap docs' \subseteq left,
           \/ left # {} /\ Leaves(r, left)
           \/ Over(r) /\ (job[r].sure => left = {})
           \/ /\ Ended(r, 204) /\ Tail(job[r].todo) = <<>>
              /\ job[r].sure => left = {}
    PROVE  GuiInv' /\ AskedBy(r) /\ Promise(r)
<1> DEFINE k == G!Step(r).kind
           op == job[r].op
<1>1. /\ op \in G!Deleter /\ k \in DeletedBy(op) /\ k \in G!Kind /\ job[r].todo # <<>>
      /\ G!Step(r) = G!Call("DELETE", k) /\ op # "none"
  BY Unmixed, Caller
<1>2. /\ G!TypeOK /\ Closed /\ docs \subseteq G!Doc /\ ScriptInv(r) /\ SureInv(r) /\ DeleterInv(r)
  BY Unmixed
<1>3. op \notin G!Creator
  BY <1>1 DEF G!Creator, G!Deleter
<1>4. Closed'
  BY <1>2, ClosedKept
<1>5. /\ docs' \subseteq docs /\ docs' \subseteq G!Doc
      /\ \A d \in docs : d \notin docs' => d \in Own({k}, r)
  BY <1>2
<1>6. \A d \in Own({k}, r) : d[1] = k /\ d[2] = job[r].service /\ d \in G!Covers(job[r])
  <2>1. ASSUME NEW d \in Own({k}, r) PROVE d[1] = k /\ d[2] = job[r].service /\ d \in G!Covers(job[r])
    <3>1. d[1] = k /\ d[2] = job[r].service
      BY OwnParts
    <3>2. k \in KindsOf(op)
      BY <1>1, DeletedCovered
    <3>3. d \in Own(KindsOf(op), r)
      BY <3>1, <3>2, OwnKind
    <3> QED
      BY <1>1, <3>1, <3>3, CoversIs
  <2> QED
    BY <2>1
<1>7. AskedBy(r)
  BY <1>1, <1>5, <1>6 DEF AskedBy
<1>8. dataRead' \subseteq G!Doc
  BY <1>2 DEF G!TypeOK
<1>9. ASSUME Rest(r), job' \in [Slots -> G!Job],
             \/ job'[r].op = "none" /\ job'[r].todo = <<>> /\ job'[r].left = {}
             \/ job'[r].op = op /\ job'[r].service = job[r].service /\ SlotInv(r)'
      PROVE  GuiInv'
  <2> HIDE DEF k
  <2> QED
    BY <1>1, <1>3, <1>4, <1>5, <1>6, <1>8, <1>9, Gather
<1>10. \A d \in docs : d \notin docs' => d[1] # "app" \/ op # "DelDig"
  <2>1. op = "DelDig" => k # "app"
    BY <1>1 DEF DeletedBy, G!DigKinds, G!PlacementKinds, G!NetworkKinds
  <2> QED
    BY <1>5, <1>6, <2>1
<1>11. ASSUME job'[r].op = op, job'[r].service = job[r].service PROVE CreatorInv(r)' /\ DeleterInv(r)'
  BY <1>2, <1>3, <1>11 DEF CreatorInv, DeleterInv
<1>12. op = "DelDig" /\ G!Removable(job[r].service) =>
          /\ running'[job[r].service] = "no"
          /\ \A d \in docs' : d[1] = "pint" /\ d[2] = job[r].service
                => <<"app", job[r].service, d[3]>> \in docs'
  <2> SUFFICES ASSUME op = "DelDig", G!Removable(job[r].service)
               PROVE  /\ running'[job[r].service] = "no"
                                  /\ \A d \in docs' : d[1] = "pint" /\ d[2] = job[r].service
                            => <<"app", job[r].service, d[3]>> \in docs'
    OBVIOUS
  <2>1. ASSUME NEW d \in docs', d[1] = "pint", d[2] = job[r].service
        PROVE  <<"app", job[r].service, d[3]>> \in docs'
    <3>1. <<"app", job[r].service, d[3]>> \in docs
      BY <1>5, <2>1 DEF G!Removable
    <3>2. <<"app", job[r].service, d[3]>>[1] = "app"
      OBVIOUS
    <3> QED
      BY <1>10, <3>1, <3>2
  <2>2. job[r].service \in Services
    BY <1>1, <1>2 DEF ScriptInv
  <2> QED
    BY <1>5, <2>1, <2>2 DEF G!Removable
<1>13. CASE left # {} /\ Leaves(r, left)
  <2>1. ScriptInv(r)' /\ Todo(r)' = Todo(r) /\ G!Step(r)' = G!Step(r)
    BY <1>1, <1>2, <1>13, LeavesScript
  <2>2. /\ job'[r].op = op /\ job'[r].service = job[r].service /\ job'[r].sure = job[r].sure
        /\ job'[r].left = left /\ Rest(r) /\ job' \in [Slots -> G!Job]
    BY <1>13 DEF Leaves, Same
  <2>3. SureInv(r)'
    <3> SUFFICES ASSUME job[r].sure PROVE SureInv(r)'
      BY <2>2 DEF SureInv
    <3>1. \A K : Own(K, r)' = Own(K, r)
      BY <2>2 DEF Own
    <3>2. /\ \A l \in ReadBy(op) \ G!Unseen : G!Call("GET", l) \in Todo(r) \/ Own({l}, r) \cap docs' \subseteq dataRead'
          /\ \A l \in GoneBy(op) : G!Call("DELETE", l) \in Todo(r) \/ Own({l}, r) \cap docs' = {}
          /\ op = "DelDig" => G!Removable(job[r].service)
          /\ op = "DelSvc" => G!Call("CHECK", "dig") \in Todo(r)
                                \/ <<"dig", job[r].service, NoApp>> \notin docs'
      <4>1. /\ \A l \in ReadBy(op) \ G!Unseen : G!Call("GET", l) \in Todo(r) \/ Own({l}, r) \cap docs \subseteq dataRead
            /\ \A l \in GoneBy(op) : G!Call("DELETE", l) \in Todo(r) \/ Own({l}, r) \cap docs = {}
            /\ op = "DelDig" => G!Removable(job[r].service)
            /\ op = "DelSvc" => G!Call("CHECK", "dig") \in Todo(r)
                                  \/ <<"dig", job[r].service, NoApp>> \notin docs
        BY <1>1, <1>2 DEF SureInv
      <4>2. \A l : Own({l}, r) \cap docs' \subseteq Own({l}, r) \cap docs
        BY <1>5
      <4> QED
        BY <1>5, <4>1, <4>2
    <3>3. op = "DelDig" => G!Removable(job[r].service)'
      BY <1>12, <2>2, <3>2 DEF G!Removable
    <3>4. G!Step(r)'.kind \notin G!Unseen => (Own({G!Step(r).kind}, r) \cap docs)' \subseteq job'[r].left
      BY <2>1, <2>2, <3>1
    <3>5. \A l \in ReadBy(op) \ G!Unseen :
             G!Call("GET", l) \in Todo(r)' \/ (Own({l}, r) \cap docs \subseteq dataRead)'
      BY <2>1, <3>1, <3>2
    <3>6. \A l \in GoneBy(op) : G!Call("DELETE", l) \in Todo(r)' \/ (Own({l}, r) \cap docs = {})'
      BY <2>1, <3>1, <3>2
    <3>7. (G!Step(r).kind \notin G!Unseen => Own({G!Step(r).kind}, r) \cap docs \subseteq job[r].left)'
      BY <3>4
    <3>8. op = "DelSvc" => G!Call("CHECK", "dig") \in Todo(r)' \/ <<"dig", job'[r].service, NoApp>> \notin docs'
      BY <2>1, <2>2, <3>2
    <3> QED
      BY <2>2, <3>3, <3>5, <3>6, <3>7, <3>8 DEF SureInv
  <2>4. SlotInv(r)'
    BY <1>11, <2>1, <2>2, <2>3 DEF SlotInv
  <2>5. GuiInv'
    BY <1>9, <2>2, <2>4
  <2> QED
    BY <1>1, <1>7, <2>2, <2>5 DEF Promise
<1>14. CASE Over(r) /\ (job[r].sure => left = {})
  <2>1. /\ ScriptInv(r)' /\ Todo(r) = {G!Step(r)} \cup Todo(r)'
    BY <1>1, <1>2, <1>14, OverScript DEF Over
  <2>2. /\ job'[r].op = op /\ job'[r].service = job[r].service /\ job'[r].sure = job[r].sure
        /\ Rest(r) /\ job' \in [Slots -> G!Job]
    BY <1>14 DEF Over, Advances, Same
  <2>3. SureInv(r)'
    <3>1. CASE job[r].sure
      <4>1. \A l : /\ G!Step(r) = G!Call("DELETE", l) => l = k
                   /\ G!Step(r) # G!Call("GET", l) /\ G!Step(r) # G!Call("CHECK", l)
        BY <1>1 DEF G!Call
      <4>2. k \notin G!Unseen => Own({k}, r) \cap docs' = {}
        BY <1>14, <3>1
      <4>3. running[job[r].service] = "no" => running'[job[r].service] = "no"
        BY <1>1, <1>2 DEF ScriptInv
      <4> HIDE DEF k, op
      <4> QED
        BY <1>2, <1>5, <1>10, <1>14, <2>1, <4>1, <4>2, <4>3, SureOver DEF op
    <3>2. CASE ~job[r].sure
      BY <2>2, <3>2 DEF SureInv
    <3> QED
      BY <3>1, <3>2
  <2>4. SlotInv(r)'
    BY <1>11, <2>1, <2>2, <2>3 DEF SlotInv
  <2>5. GuiInv'
    BY <1>9, <2>2, <2>4
  <2> QED
    BY <1>1, <1>7, <2>2, <2>5 DEF Promise
<1>15. CASE Ended(r, 204) /\ Tail(job[r].todo) = <<>> /\ (job[r].sure => left = {})
  <2>1. GuiInv'
    BY <1>9, <1>15 DEF Ended
  <2>2. job[r].sure => G!Covers(job[r]) \cap docs' \subseteq G!DocsOf(G!Unseen, Services)
    <3> SUFFICES ASSUME job[r].sure PROVE G!Covers(job[r]) \cap docs' \subseteq G!DocsOf(G!Unseen, Services)
      OBVIOUS
    <3>1. k \notin G!Unseen => Own({k}, r) \cap docs' = {}
      BY <1>15
    <3> QED
      BY <1>1, <1>4, <1>5, <1>15, <3>1, Deleted
  <2>3. job'[r].code = 204 /\ job'[r].sure = job[r].sure
    BY <1>15 DEF Ended
  <2> QED
    BY <1>7, <2>1, <2>2, <2>3 DEF Promise
<1> QED
  BY <1>13, <1>14, <1>15

LEMMA DeleteKeeps ==
    ASSUME GuiInv, ~mixed, NEW r \in Slots, G!Delete(r)
    PROVE  GuiInv' /\ AskedBy(r) /\ Promise(r)
<1> DEFINE k == G!Step(r).kind
           s == job[r].service
           all == LeftToDelete(r)
<1>1. /\ G!Runs(r, "DELETE") /\ UNCHANGED <<G!handler, mixed>>
      /\ \/ all = {} /\ G!StepOver(r) /\ UNCHANGED <<docs, running>>
         \/ \E d \in all :
              LET state == IF running[d[2]] = "yes" /\ d \in docs THEN "ending" ELSE running[d[2]]
              IN  /\ running' = IF k = "dig" THEN [running EXCEPT ![d[2]] = state] ELSE running
                  /\ IF G!Refuses(d, state)
                       THEN G!StepOver(r) /\ UNCHANGED docs
                       ELSE docs' = docs \ {d} /\ G!Send(r, d, all)
  BY DEF G!Delete, LeftToDelete
<1>2. UNCHANGED <<dataRead, treeFilter, compositeApp, DigData>>
  BY <1>1 DEF G!handler
<1>3. /\ job[r].op \in G!Deleter /\ job[r].todo # <<>> /\ G!Step(r).kind \in DeletedBy(job[r].op)
      /\ k \in G!Kind
  BY <1>1, Unmixed, Caller
<1>4. /\ G!TypeOK /\ docs \subseteq G!Doc /\ s \in Services /\ SureInv(r)
      /\ running \in [Services -> {"no", "yes", "ending"}]
  BY <1>3, Unmixed DEF ScriptInv, G!TypeOK
<1>5. /\ all \subseteq Own({k}, r) /\ (job[r].sure /\ k \notin G!Unseen => Own({k}, r) \cap docs \subseteq all)
  BY <1>1, InTreeOwn, InTreeAll
<1>6. Own({k}, r) \subseteq G!Doc /\ \A d \in Own({k}, r) : d[1] = k /\ d[2] = s
  <2>1. ASSUME NEW d \in Own({k}, r) PROVE d \in G!Doc /\ d[1] = k /\ d[2] = s
    <3>1. d[1] = k /\ d[2] = s
      BY OwnParts
    <3> QED
      BY <1>3, <1>4, <3>1 DEF Own, G!DocsOf, G!Doc
  <2> QED
    BY <2>1
<1>7. G!OkCode(job[r].op) = 204
  BY <1>3 DEF G!OkCode, G!Creator, G!Deleter
<1>8. ASSUME G!StepOver(r) PROVE (Ended(r, 204) /\ Tail(job[r].todo) = <<>>) \/ Over(r)
  BY <1>3, <1>4, <1>7, <1>8, StepOverIs
<1> HIDE DEF k, s, all
<1>9. CASE all = {} /\ G!StepOver(r) /\ UNCHANGED <<docs, running>>
  BY <1>1, <1>2, <1>4, <1>5, <1>8, <1>9, DeleteMoves DEF k
<1>10. ASSUME NEW d \in all, NEW state,
              state = IF running[d[2]] = "yes" /\ d \in docs THEN "ending" ELSE running[d[2]],
              running' = IF k = "dig" THEN [running EXCEPT ![d[2]] = state] ELSE running
       PROVE  /\ running' \in [Services -> {"no", "yes", "ending"}]
              /\ \A t \in Services : running[t] = "no" => running'[t] = "no"
              /\ running[s] = "no" => state = "no"
  <2>1. d[2] = s
    BY <1>5, <1>6
  <2> QED
    BY <1>4, <1>10, <2>1
<1>11. ASSUME NEW d \in all, NEW state,
              state = IF running[d[2]] = "yes" /\ d \in docs THEN "ending" ELSE running[d[2]],
              running' = IF k = "dig" THEN [running EXCEPT ![d[2]] = state] ELSE running,
              G!Refuses(d, state), G!StepOver(r), UNCHANGED docs
       PROVE  GuiInv' /\ AskedBy(r) /\ Promise(r)
  <2>1. ASSUME job[r].sure, k \notin G!Unseen PROVE Own({k}, r) \cap docs = {}
    <3>1. ~\E c \in docs : c[1] \notin G!Unseen /\ G!IsParent(d, c)
      BY <1>1, <1>5, <2>1, NoChildren DEF k
    <3>2. d[1] = "dig" /\ (d \notin docs \/ state # "no")
      BY <1>11, <3>1 DEF G!Refuses
    <3>3. k = "dig" /\ d[2] = s
      BY <1>5, <1>6, <3>2
    <3>4. job[r].op = "DelDig"
      BY <1>3, <3>3 DEF DeletedBy, G!ServiceKinds, G!Deleter, k
    <3>5. running[s] = "no"
      BY <1>3, <1>4, <2>1, <3>4 DEF SureInv, G!Removable, s
    <3>6. d \notin docs
      BY <1>10, <1>11, <3>2, <3>5
    <3>7. \A c \in Own({k}, r) : c = d
      <4>1. \A c \in Own({k}, r) : c = <<"dig", s, NoApp>>
        BY <3>3 DEF Own, G!DocsOf, G!PerApp, s
      <4> QED
        BY <1>5, <4>1
    <3> QED
      BY <3>6, <3>7
  <2>2. /\ running' \in [Services -> {"no", "yes", "ending"}]
        /\ \A t \in Services : running[t] = "no" => running'[t] = "no"
    BY <1>10, <1>11
  <2>3. (Ended(r, 204) /\ Tail(job[r].todo) = <<>>) \/ Over(r)
    BY <1>8, <1>11
  <2> DEFINE left == {}
  <2>4. /\ left \subseteq Own({k}, r) /\ left = {}
        /\ job[r].sure /\ k \notin G!Unseen => Own({k}, r) \cap docs' \subseteq left
    BY <1>11, <2>1
  <2> HIDE DEF left
  <2> QED
    BY <1>1, <1>2, <1>11, <2>2, <2>3, <2>4, DeleteMoves DEF k
<1>12. ASSUME NEW d \in all, NEW state,
              state = IF running[d[2]] = "yes" /\ d \in docs THEN "ending" ELSE running[d[2]],
              running' = IF k = "dig" THEN [running EXCEPT ![d[2]] = state] ELSE running,
              ~G!Refuses(d, state), docs' = docs \ {d}, G!Send(r, d, all)
       PROVE  GuiInv' /\ AskedBy(r) /\ Promise(r)
  <2>1. /\ running' \in [Services -> {"no", "yes", "ending"}]
        /\ \A t \in Services : running[t] = "no" => running'[t] = "no"
    BY <1>10, <1>12
  <2>2. ~\E c \in docs : c[1] \notin G!Unseen /\ G!IsParent(d, c)
    BY <1>12 DEF G!Refuses
  <2>3. d \in Own({k}, r)
    BY <1>5
  <2> DEFINE left == all \ {d}
  <2>4. \/ left # {} /\ Leaves(r, left)
        \/ left = {} /\ ((Ended(r, 204) /\ Tail(job[r].todo) = <<>>) \/ Over(r))
    <3>1. left \in SUBSET G!Doc
      BY <1>5, <1>6
    <3>2. CASE left = {}
      BY <1>8, <1>12, <3>2 DEF G!Send
    <3>3. CASE left # {}
      <4>1. job' = [job EXCEPT ![r].left = left]
        BY <1>12, <3>3 DEF G!Send
      <4> HIDE DEF left
      <4> QED
        BY <1>4, <3>1, <3>3, <4>1, LeavesIs
    <3> QED
      BY <3>2, <3>3
  <2>5. job[r].sure /\ k \notin G!Unseen => Own({k}, r) \cap docs' \subseteq left
    BY <1>5, <1>12
  <2>6. left \subseteq Own({k}, r)
    BY <1>5
  <2> HIDE DEF left
  <2> QED
    BY <1>1, <1>2, <1>12, <2>1, <2>2, <2>3, <2>4, <2>5, <2>6, DeleteMoves DEF k
<1> QED
  BY <1>1, <1>9, <1>11, <1>12

LEMMA DeleteFailsKeeps ==
    ASSUME GuiInv, ~mixed, NEW r \in Slots, G!DeleteFails(r)
    PROVE  GuiInv' /\ AskedBy(r) /\ Promise(r)
<1> DEFINE k == G!Step(r).kind
<1>1. /\ G!Runs(r, "DELETE") /\ UNCHANGED <<running, G!handler>>
      /\ IF Tail(job[r].todo) = <<>>
           THEN job' = [job EXCEPT ![r] = [G!Idle EXCEPT !.code = 204]]
           ELSE job' = [job EXCEPT ![r].todo = Tail(@), ![r].left = {}, ![r].sure = FALSE]
  BY DEF G!DeleteFails
<1>2. PICK d \in LeftToDelete(r) :
         docs' \in {docs, IF G!Refuses(d, running[d[2]]) THEN docs ELSE docs \ {d}}
  BY DEF G!DeleteFails, LeftToDelete
<1>3. UNCHANGED <<running, dataRead, treeFilter, compositeApp, DigData>>
  BY <1>1 DEF G!handler
<1>4. /\ job[r].op \in G!Deleter /\ job[r].todo # <<>> /\ k \in DeletedBy(job[r].op)
      /\ job[r].op # "none"
  BY <1>1, Unmixed, Caller
<1>5. job[r].op \notin G!Creator
  BY <1>4 DEF G!Creator, G!Deleter
<1>6. /\ G!TypeOK /\ Closed /\ docs \subseteq G!Doc /\ ScriptInv(r) /\ DeleterInv(r)
      /\ job \in [Slots -> G!Job]
  BY Unmixed
<1>7. d[2] = job[r].service /\ d \in G!Covers(job[r])
  <2>1. d \in Own({k}, r)
    BY <1>1, InTreeOwn
  <2>2. d[1] = k /\ d[2] = job[r].service
    BY <2>1, OwnParts
  <2>3. k \in KindsOf(job[r].op)
    BY <1>4, DeletedCovered
  <2>4. d \in Own(KindsOf(job[r].op), r)
    BY <2>1, <2>2, <2>3, OwnKind
  <2> QED
    BY <1>4, <2>2, <2>4, CoversIs
<1>8. docs' = docs \/ (docs' = docs \ {d} /\ ~\E c \in docs : c[1] \notin G!Unseen /\ G!IsParent(d, c))
  BY <1>2 DEF G!Refuses
<1>9. Closed'
  BY <1>6, <1>8, ClosedKept
<1>10. AskedBy(r)
  BY <1>4, <1>7, <1>8 DEF AskedBy
<1>11. \/ /\ job' \in [Slots -> G!Job] /\ Rest(r) /\ job'[r].op = "none" /\ job'[r].todo = <<>>
          /\ job'[r].left = {} /\ job'[r].code = 204 /\ ~job'[r].sure
       \/ Advances(r) /\ ~job'[r].sure
  <2>1. CASE Tail(job[r].todo) = <<>>
    <3> DEFINE j == [G!Idle EXCEPT !.code = 204]
    <3>1. job' = [job EXCEPT ![r] = j]
      BY <1>1, <2>1
    <3>2. j \in G!Job /\ j.op = "none" /\ j.todo = <<>> /\ j.left = {} /\ j.code = 204 /\ ~j.sure
      <4>1. ~G!Idle.sure /\ "code" \in DOMAIN G!Idle
        BY DEF G!Idle
      <4>2. j \in G!Job
        BY IdleJob DEF G!Job
      <4> HIDE DEF G!Idle
      <4> QED
        BY <4>1, <4>2, IdleJob
    <3> HIDE DEF j
    <3> QED
      BY <1>6, <3>1, <3>2 DEF Rest
  <2>2. CASE Tail(job[r].todo) # <<>>
    <3> DEFINE j == [job[r] EXCEPT !.todo = Tail(@), !.left = {}, !.sure = FALSE]
    <3>1. job' = [job EXCEPT ![r] = j]
      BY <1>1, <1>6, <2>2
    <3> DEFINE t == Tail(job[r].todo)
    <3>2. t \in Seq([verb : {"POST", "GET", "CHECK", "DELETE"}, kind : G!Kind]) /\ job[r] \in G!Job
      BY <1>4, <1>6, TailJob
    <3> HIDE DEF t
    <3>3. j = [job[r] EXCEPT !.todo = t, !.left = {}, !.sure = FALSE]
      BY DEF t
    <3>4. /\ j \in G!Job /\ j.op = job[r].op /\ j.service = job[r].service /\ ~j.sure
          /\ j.todo = t /\ j.left = {}
      BY <3>2, <3>3 DEF G!Job
    <3> HIDE DEF j
    <3> QED
      BY <1>6, <2>2, <3>1, <3>4 DEF Advances, Same, Rest, t
  <2> QED
    BY <2>1, <2>2
<1>12. ASSUME Advances(r), ~job'[r].sure
       PROVE  SlotInv(r)' /\ job'[r].op = job[r].op /\ job'[r].service = job[r].service
  <2>1. job'[r].op = job[r].op /\ job'[r].service = job[r].service
    BY <1>12 DEF Advances, Same
  <2>2. ScriptInv(r)'
    BY <1>4, <1>6, <1>12, OverScript
  <2>3. CreatorInv(r)' /\ DeleterInv(r)' /\ SureInv(r)'
    BY <1>3, <1>5, <1>6, <1>12, <2>1 DEF CreatorInv, DeleterInv, SureInv
  <2> QED
    BY <2>1, <2>2, <2>3 DEF SlotInv
<1>13. /\ docs' \subseteq G!Doc /\ docs' \subseteq docs /\ dataRead' \subseteq G!Doc
       /\ running' \in [Services -> {"no", "yes", "ending"}]
       /\ \A c \in docs : c \notin docs' => c[2] = job[r].service
  BY <1>3, <1>6, <1>7, <1>8 DEF G!TypeOK
<1>14. Rest(r) /\ job' \in [Slots -> G!Job]
  BY <1>11 DEF Advances, Same
<1> HIDE DEF k
<1>15. GuiInv'
  BY <1>3, <1>4, <1>5, <1>9, <1>11, <1>12, <1>13, <1>14, Gather
<1>16. Promise(r)
  BY <1>4, <1>11, <1>12 DEF Promise
<1> QED
  BY <1>10, <1>15, <1>16

-----------------------------------------------------------------------------
(* The start of a request, and what is done to the requests.               *)

\* Two requests get in each other's way whichever is first.
LEMMA MixSame ==
    ASSUME NEW a, NEW b, NEW c, NEW d, a.op = c.op, a.service = c.service,
           b.op = d.op, b.service = d.service, G!Mix(a, b)
    PROVE  G!Mix(c, d) /\ G!Mix(d, c)
<1>1. {b.op, a.op} = {a.op, b.op} /\ {c.op, d.op} = {a.op, b.op} /\ {d.op, c.op} = {a.op, b.op}
  OBVIOUS
<1> DEFINE E == {a.op, b.op}
<1>2. \/ E \subseteq G!TreeUser /\ E \cap G!Deleter # {}
      \/ E \in {{"CreateApp"}, {"CreateDig"}, {"CreateApp", "GetSvc"}}
      \/ E \cap G!Creator # {} /\ E \cap G!Deleter # {} /\ a.service = b.service
  BY DEF G!Mix
<1>3. {c.op, d.op} = E /\ {d.op, c.op} = E
  BY <1>1
<1> HIDE DEF E
<1> QED
  BY <1>2, <1>3 DEF G!Mix

Requested(op, s) == [G!Idle EXCEPT !.op = op, !.service = s]
Apart(op, s) == \A q \in Slots : job[q].op # "none" => ~G!Mix(job[q], Requested(op, s))

\* Of a request that begins beside others: what they rely on and it changes.
LEMMA ApartMeans ==
    ASSUME NEW op, NEW s, Apart(op, s), NEW q \in Slots, job[q].op # "none"
    PROVE  /\ op \in G!TreeUser => job[q].op \notin G!Deleter
           /\ op \in {"CreateApp", "GetSvc"} => job[q].op # "CreateApp"
           /\ op = "CreateDig" => job[q].op # "CreateDig"
<1> DEFINE j == Requested(op, s)
<1>1. j.op = op /\ ~G!Mix(job[q], j)
  BY DEF Requested, G!Idle, Apart
<1> HIDE DEF j
<1>2. op \in G!TreeUser => job[q].op \notin G!Deleter
  BY <1>1 DEF G!Mix, G!TreeUser
<1>3. op = "CreateDig" => job[q].op # "CreateDig"
  BY <1>1 DEF G!Mix
<1>4. op \in {"CreateApp", "GetSvc"} => job[q].op # "CreateApp"
  BY <1>1 DEF G!Mix
<1> QED
  BY <1>2, <1>3, <1>4

\* The calls are all to be made.
LEMMA BegunScript ==
    ASSUME NEW op \in (G!Creator \cup G!TreeUser) \ {"GetSvc"}
    PROVE  /\ G!Script(op) \in Seq([verb : {"POST", "GET", "CHECK", "DELETE"}, kind : G!Kind])
           /\ Elements(G!Script(op)) \subseteq CallsOf(op) /\ Ordered(G!Script(op))
           /\ op \in G!Creator \cup G!Deleter => Elements(G!Script(op)) = CallsOf(op)
<1> DEFINE S == [verb : {"POST", "GET", "CHECK", "DELETE"}, kind : G!Kind]
           t == G!Script(op)
<1>1. /\ t \in Seq(CallsOf(op)) /\ Ordered(t)
      /\ op \in G!Creator \cup G!Deleter => Elements(t) = CallsOf(op)
  BY CreatorScript, TreeScript DEF Calls, G!Creator, G!TreeUser, G!Deleter
<1>2. CallsOf(op) \subseteq S
  <2>1. ASSUME NEW K \in SUBSET G!Kind, NEW verb \in {"POST", "GET", "CHECK", "DELETE"}
        PROVE  CallSet(verb, K) \subseteq S
    BY DEF CallSet, G!Call
  <2>2. /\ KindsOf(op) \subseteq G!Kind /\ ReadBy(op) \subseteq G!Kind /\ DeletedBy(op) \subseteq G!Kind
        /\ "dig" \in G!Kind
    BY DEF KindsOf, ReadBy, DeletedBy, G!Kind, G!Parent, G!ServiceKinds, G!DigKinds, G!PlacementKinds,
           G!NetworkKinds
  <2>3. G!Call("CHECK", "dig") \in S
    BY <2>2 DEF G!Call
  <2> HIDE DEF S
  <2>4. /\ CallSet("POST", KindsOf(op)) \subseteq S /\ CallSet("GET", ReadBy(op)) \subseteq S
        /\ CallSet("DELETE", DeletedBy(op)) \subseteq S /\ CallSet("GET", G!Kind) \subseteq S
    BY <2>1, <2>2
  <2>5. CASE op \in G!Creator
    BY <2>4, <2>5 DEF CallsOf, G!Creator, G!Deleter
  <2>6. CASE op \in G!Deleter
    BY <2>3, <2>4, <2>6 DEF CallsOf, G!Creator, G!Deleter
  <2>7. CASE op \notin G!Creator \cup G!Deleter
    BY <2>4, <2>7 DEF CallsOf
  <2> QED
    BY <2>5, <2>6, <2>7
<1> HIDE DEF S, t
<1>3. t \in Seq(S)
  BY <1>1, <1>2
<1>4. Elements(t) \subseteq CallsOf(op)
  BY <1>1 DEF Elements
<1> QED
  BY <1>1, <1>3, <1>4 DEF S, t

LEMMA BeginKeeps ==
    ASSUME GuiInv, ~mixed, NEW r \in Slots,
           NEW op \in (G!Creator \cup G!TreeUser) \ {"GetSvc"}, NEW s \in Services \cup {NoService},
           G!Begin(r, op, s), op \in G!Creator \cup G!Deleter => s \in Services,
           dataRead' \in {dataRead, {}},
           treeFilter' \in [service : Services \cup {NoService}, dig : BOOLEAN],
           compositeApp' \in Services \cup {NoService},
           DigData' \in [service : Services \cup {NoService}, nets : BOOLEAN],
           op \notin G!TreeUser => UNCHANGED <<dataRead, treeFilter>>,
           op \in G!Deleter => treeFilter' = G!PrepTreeReq(s, op) /\ dataRead' = {},
           IF op = "CreateApp" THEN compositeApp' = s ELSE compositeApp' = compositeApp,
           IF op = "CreateDig" THEN DigData'.service = s ELSE DigData' = DigData
    PROVE  GuiInv' /\ docs' = docs /\ \A q \in Slots : job[q].op # "none" => job'[q] = job[q]
<1> DEFINE t == G!Script(op)
           sure == op = "DelDig" => G!Removable(s)
           j == [G!Idle EXCEPT !.op = op, !.service = s, !.todo = t, !.sure = sure]
<1>1. /\ job[r].op = "none" /\ UNCHANGED <<docs, running, faults>>
      /\ job' = [job EXCEPT ![r] = j]
      /\ ~mixed' => Apart(op, s)
  BY DEF G!Begin, G!Starts, Apart, Requested
<1>2. /\ t \in Seq([verb : {"POST", "GET", "CHECK", "DELETE"}, kind : G!Kind])
      /\ Elements(t) \subseteq CallsOf(op) /\ Ordered(t)
      /\ op \in G!Creator \cup G!Deleter => Elements(t) = CallsOf(op)
  BY BegunScript
<1>3. G!TypeOK /\ Closed /\ Alone /\ job \in [Slots -> G!Job] /\ \A q \in Slots : SlotInv(q)
  BY Unmixed
<1>4. sure \in BOOLEAN
  OBVIOUS
<1> HIDE DEF t, sure
<1>5. /\ j \in G!Job /\ j.op = op /\ j.service = s /\ j.todo = t /\ j.left = {} /\ j.sure = sure
  BY <1>2, <1>4, IdleJob DEF G!Job, G!Idle, G!NoDig
<1> HIDE DEF j
<1>6. job' \in [Slots -> G!Job] /\ Rest(r) /\ job'[r] = j
  BY <1>1, <1>3, <1>5 DEF Rest
<1>7. op # "none"
  BY DEF G!Creator, G!TreeUser, G!Deleter
<1>8. G!TypeOK'
  <2>1. \A q \in Slots : job'[q].op = "none" => job'[q].todo = <<>>
    BY <1>3, <1>5, <1>6, <1>7 DEF G!TypeOK, Rest
  <2>2. dataRead' \subseteq G!Doc
    BY <1>3 DEF G!TypeOK
  <2> QED
    BY <1>1, <1>3, <1>6, <2>1, <2>2 DEF G!TypeOK
<1>9. Closed'
  BY <1>1, <1>3, ClosedKept
<1>10. ASSUME Apart(op, s), NEW a \in Slots, NEW b \in Slots, a # b,
              job'[a].op # "none", job'[b].op # "none"
       PROVE  ~G!Mix(job'[a], job'[b])
  <2> DEFINE n == Requested(op, s)
  <2>1. n.op = op /\ n.service = s
    BY DEF Requested, G!Idle
  <2>2. \A q \in Slots : job[q].op # "none" => ~G!Mix(job[q], n)
    BY <1>10 DEF Apart
  <2> HIDE DEF n
  <2>3. CASE a = r
    <3>1. job'[b] = job[b] /\ job'[a].op = n.op /\ job'[a].service = n.service
      BY <1>5, <1>6, <1>10, <2>1, <2>3 DEF Rest
    <3>2. ~G!Mix(job[b], n)
      BY <1>10, <2>2, <3>1
    <3> QED
      BY <3>1, <3>2, MixSame
  <2>4. CASE b = r
    <3>1. job'[a] = job[a] /\ job'[b].op = n.op /\ job'[b].service = n.service
      BY <1>5, <1>6, <1>10, <2>1, <2>4 DEF Rest
    <3>2. ~G!Mix(job[a], n)
      BY <1>10, <2>2, <3>1
    <3> QED
      BY <3>1, <3>2, MixSame
  <2>5. CASE a # r /\ b # r
    <3>1. job'[a] = job[a] /\ job'[b] = job[b]
      BY <1>6, <2>5 DEF Rest
    <3> QED
      BY <1>3, <1>10, <3>1 DEF Alone
  <2> QED
    BY <2>3, <2>4, <2>5
<1>11. Apart(op, s) => Alone'
  BY <1>10 DEF Alone
<1>12. ASSUME Apart(op, s), NEW q \in Slots, q # r PROVE SlotInv(q)'
  <2>1. job'[q] = job[q] /\ SlotInv(q)
    BY <1>3, <1>6, <1>12 DEF Rest
  <2>2. CASE job[q].op = "none"
    BY <2>1, <2>2, Keep DEF G!Creator, G!Deleter
  <2>3. CASE job[q].op # "none"
    <3>1. /\ op \in G!TreeUser => job[q].op \notin G!Deleter
          /\ op = "CreateApp" => job[q].op # "CreateApp"
          /\ op = "CreateDig" => job[q].op # "CreateDig"
      BY <1>12, <2>3, ApartMeans
    <3> QED
      BY <1>1, <2>1, <3>1, Keep
  <2> QED
    BY <2>2, <2>3
<1>13. SlotInv(r)'
  <2>1. Todo(r)' = Elements(t) /\ job'[r].left = {} /\ job'[r].op = op /\ job'[r].service = s
        /\ job'[r].todo = t /\ job'[r].sure = sure
    BY <1>5, <1>6 DEF Todo
  <2>2. ScriptInv(r)'
    BY <1>2, <2>1 DEF ScriptInv
  <2>3. CreatorInv(r)'
    <3> SUFFICES ASSUME op \in G!Creator PROVE CreatorInv(r)'
      BY <2>1 DEF CreatorInv
    <3>1. \A k \in KindsOf(op) : G!Call("POST", k) \in Elements(t)
      BY <1>2 DEF CallsOf, CallSet, G!Creator, G!Deleter
    <3>2. (IF op = "CreateApp" THEN compositeApp' ELSE DigData'.service) = s
      BY DEF G!Creator
    <3> QED
      BY <2>1, <3>1, <3>2 DEF CreatorInv
  <2>4. DeleterInv(r)'
    BY <2>1 DEF DeleterInv
  <2>5. SureInv(r)'
    <3> SUFFICES ASSUME op \in G!Deleter, sure PROVE SureInv(r)'
      BY <2>1 DEF SureInv
    <3>1. CallsOf(op) = CallSet("GET", ReadBy(op)) \cup CallSet("DELETE", DeletedBy(op))
                           \cup (IF op = "DelSvc" THEN {G!Call("CHECK", "dig")} ELSE {})
      BY DEF CallsOf, G!Creator, G!Deleter
    <3>2. /\ \A k \in ReadBy(op) : G!Call("GET", k) \in Elements(t)
          /\ \A k \in GoneBy(op) : G!Call("DELETE", k) \in Elements(t)
          /\ op = "DelSvc" => G!Call("CHECK", "dig") \in Elements(t)
      BY <1>2, <3>1 DEF CallSet, GoneBy
    <3>3. op = "DelDig" => G!Removable(job[r].service)'
      BY <1>1, <2>1 DEF sure, G!Removable
    <3> QED
      BY <2>1, <3>2, <3>3 DEF SureInv
  <2> QED
    BY <2>2, <2>3, <2>4, <2>5 DEF SlotInv
<1>14. GuiInv'
  BY <1>1, <1>8, <1>9, <1>11, <1>12, <1>13 DEF GuiInv
<1> QED
  BY <1>1, <1>6, <1>14 DEF Rest

LEMMA BeginsKeep ==
    ASSUME GuiInv, ~mixed, NEW r \in Slots,
           \/ \E s \in Services :
                 G!CreateApp(r, s) \/ G!CreateDig(r, s) \/ G!Del(r, "DelDig", s) \/ G!Del(r, "DelSvc", s)
           \/ G!GetAllDigs(r)
    PROVE  GuiInv' /\ docs' = docs /\ \A q \in Slots : job[q].op # "none" => job'[q] = job[q]
<1>1. G!TypeOK
  BY Unmixed
<1>2. ASSUME NEW s \in Services, G!CreateApp(r, s)
      PROVE  GuiInv' /\ docs' = docs /\ \A q \in Slots : job[q].op # "none" => job'[q] = job[q]
  <2>1. "CreateApp" \in (G!Creator \cup G!TreeUser) \ {"GetSvc"} /\ "CreateApp" \notin G!TreeUser
        /\ "CreateApp" \notin G!Deleter
    BY DEF G!Creator, G!TreeUser, G!Deleter
  <2> QED
    BY <1>1, <1>2, <2>1, BeginKeeps DEF G!CreateApp, G!TypeOK
<1>3. ASSUME NEW s \in Services, G!CreateDig(r, s)
      PROVE  GuiInv' /\ docs' = docs /\ \A q \in Slots : job[q].op # "none" => job'[q] = job[q]
  <2>1. "CreateDig" \in (G!Creator \cup G!TreeUser) \ {"GetSvc"} /\ "CreateDig" \notin G!TreeUser
        /\ "CreateDig" \notin G!Deleter
    BY DEF G!Creator, G!TreeUser, G!Deleter
  <2>2. DigData' \in [service : Services \cup {NoService}, nets : BOOLEAN] /\ DigData'.service = s
    BY <1>3 DEF G!CreateDig
  <2> QED
    BY <1>1, <1>3, <2>1, <2>2, BeginKeeps DEF G!CreateDig, G!TypeOK
<1>4. ASSUME NEW s \in Services, NEW op \in G!Deleter, G!Del(r, op, s)
      PROVE  GuiInv' /\ docs' = docs /\ \A q \in Slots : job[q].op # "none" => job'[q] = job[q]
  <2>1. op \in (G!Creator \cup G!TreeUser) \ {"GetSvc"} /\ op \in G!TreeUser
        /\ op # "CreateApp" /\ op # "CreateDig"
    BY DEF G!Creator, G!TreeUser, G!Deleter
  <2>2. treeFilter' \in [service : Services \cup {NoService}, dig : BOOLEAN]
    BY <1>4 DEF G!Del, G!PrepTreeReq
  <2> QED
    BY <1>1, <1>4, <2>1, <2>2, BeginKeeps DEF G!Del, G!TypeOK
<1>5. ASSUME G!GetAllDigs(r)
      PROVE  GuiInv' /\ docs' = docs /\ \A q \in Slots : job[q].op # "none" => job'[q] = job[q]
  <2>1. "GetAllDigs" \in (G!Creator \cup G!TreeUser) \ {"GetSvc"} /\ "GetAllDigs" \in G!TreeUser
        /\ "GetAllDigs" \notin G!Deleter /\ "GetAllDigs" \notin G!Creator
    BY DEF G!Creator, G!TreeUser, G!Deleter
  <2>2. treeFilter' \in [service : Services \cup {NoService}, dig : BOOLEAN]
    BY <1>5 DEF G!GetAllDigs, G!NoFilter
  <2> QED
    BY <1>1, <1>5, <2>1, <2>2, BeginKeeps DEF G!GetAllDigs, G!TypeOK
<1> QED
  BY <1>2, <1>3, <1>4, <1>5 DEF G!Deleter

LEMMA GetSvcKeeps ==
    ASSUME GuiInv, ~mixed, NEW s \in Services, G!GetSvc(s)
    PROVE  GuiInv' /\ docs' = docs /\ job' = job
<1>1. /\ UNCHANGED <<docs, running, DigData, job>> /\ compositeApp' = s /\ dataRead' = {}
      /\ treeFilter' = G!NoFilter /\ (~mixed' => Apart("GetSvc", s))
  BY DEF G!GetSvc, G!Starts, Apart, Requested
<1>2. G!TypeOK /\ Closed /\ Alone /\ \A q \in Slots : SlotInv(q)
  BY Unmixed
<1>3. G!TypeOK'
  BY <1>1, <1>2 DEF G!TypeOK, G!NoFilter
<1>4. Closed' /\ Alone'
  BY <1>1, <1>2 DEF Closed, G!ParentIn, G!IsParent, Alone, G!Mix
<1>5. ASSUME Apart("GetSvc", s), NEW q \in Slots PROVE SlotInv(q)'
  <2>1. job[q].op # "none" => job[q].op \notin G!Deleter /\ job[q].op # "CreateApp"
    BY <1>5, ApartMeans DEF G!TreeUser
  <2>2. job[q].op \notin G!Deleter /\ job[q].op # "CreateApp"
    BY <2>1 DEF G!Deleter
  <2> QED
    BY <1>1, <1>2, <2>2, Keep
<1> QED
  BY <1>1, <1>3, <1>4, <1>5 DEF GuiInv

LEMMA RunningKeeps ==
    ASSUME GuiInv, ~mixed, NEW s \in Services, G!Instantiate(s) \/ G!Terminated(s)
    PROVE  GuiInv' /\ docs' = docs /\ \A q \in Slots : job'[q].op = job[q].op
<1>1. G!TypeOK /\ Closed /\ Alone /\ \A q \in Slots : SlotInv(q)
  BY Unmixed
<1>2. UNCHANGED <<docs, dataRead, treeFilter, compositeApp, DigData, mixed>>
  BY DEF G!Instantiate, G!Terminated, G!handler
<1>3. /\ job' \in [Slots -> G!Job]
      /\ \A q \in Slots :
            /\ job'[q].op = job[q].op /\ job'[q].service = job[q].service
            /\ job'[q].todo = job[q].todo /\ job'[q].left = job[q].left
            /\ job'[q].sure => job[q].sure
            /\ job'[q].sure /\ running[job[q].service] = "no" => running'[job[q].service] = "no"
  <2>1. running \in [Services -> {"no", "yes", "ending"}] /\ job \in [Slots -> G!Job]
    BY <1>1 DEF G!TypeOK
  <2>2. CASE G!Terminated(s)
    BY <2>1, <2>2 DEF G!Terminated
  <2>3. CASE G!Instantiate(s)
    <3>1. /\ running' = [running EXCEPT ![s] = "yes"]
          /\ job' = [q \in Slots |-> IF job[q].service = s THEN [job[q] EXCEPT !.sure = FALSE]
                                     ELSE job[q]]
      BY <2>3 DEF G!Instantiate
    <3>2. ASSUME NEW q \in Slots
          PROVE  /\ job'[q] \in G!Job
                 /\ job'[q].op = job[q].op /\ job'[q].service = job[q].service
                 /\ job'[q].todo = job[q].todo /\ job'[q].left = job[q].left
                 /\ job'[q].sure => job[q].sure /\ job[q].service # s
      <4> DEFINE j == [job[q] EXCEPT !.sure = FALSE]
      <4>1. /\ j \in G!Job /\ j.op = job[q].op /\ j.service = job[q].service
            /\ j.todo = job[q].todo /\ j.left = job[q].left /\ ~j.sure
        BY <2>1 DEF G!Job
      <4>2. job'[q] = IF job[q].service = s THEN j ELSE job[q]
        BY <3>1
      <4> HIDE DEF j
      <4> QED
        BY <2>1, <4>1, <4>2
    <3> QED
      BY <2>1, <3>1, <3>2
  <2> QED
    BY <2>2, <2>3
<1>4. G!TypeOK'
  <2>1. running' \in [Services -> {"no", "yes", "ending"}]
    BY <1>1 DEF G!TypeOK, G!Instantiate, G!Terminated
  <2> QED
    BY <1>1, <1>2, <1>3, <2>1 DEF G!TypeOK
<1>5. Closed' /\ Alone'
  <2>1. Closed'
    BY <1>1, <1>2 DEF Closed, G!ParentIn, G!IsParent
  <2>2. ASSUME NEW p \in Slots, NEW q \in Slots, p # q, job'[p].op # "none", job'[q].op # "none"
        PROVE  ~G!Mix(job'[p], job'[q])
    <3>1. ~G!Mix(job[p], job[q])
      BY <1>1, <1>3, <2>2 DEF Alone
    <3> QED
      BY <1>3, <3>1 DEF G!Mix
  <2> QED
    BY <2>1, <2>2 DEF Alone
<1>6. ASSUME NEW q \in Slots PROVE SlotInv(q)'
  BY <1>1, <1>2, <1>3, Keep
<1> QED
  BY <1>2, <1>3, <1>4, <1>5, <1>6 DEF GuiInv

LEMMA DiesKeeps ==
    ASSUME GuiInv, ~mixed, G!Dies
    PROVE  GuiInv' /\ docs' = docs /\ \A r \in Slots : job'[r].code = 0
<1>1. /\ UNCHANGED <<docs, running, mixed>> /\ job' = [r \in Slots |-> G!Idle]
      /\ dataRead' = {} /\ treeFilter' = G!NoFilter /\ compositeApp' = NoService /\ DigData' = G!NoDig
  BY DEF G!Dies
<1>2. G!Idle \in G!Job /\ G!Idle.op = "none" /\ G!Idle.todo = <<>> /\ G!Idle.left = {} /\ G!Idle.code = 0
  BY IdleJob DEF G!Idle
<1> HIDE DEF G!Idle
<1>3. /\ job' \in [Slots -> G!Job]
      /\ \A r \in Slots : /\ job'[r].op = "none" /\ job'[r].todo = <<>> /\ job'[r].left = {}
                          /\ job'[r].code = 0
  BY <1>1, <1>2
<1>4. G!TypeOK'
  BY <1>1, <1>3, Unmixed DEF G!TypeOK, G!NoFilter, G!NoDig
<1>5. Closed' /\ Alone'
  BY <1>1, <1>3, Unmixed DEF Closed, G!ParentIn, G!IsParent, Alone
<1>6. \A r \in Slots : SlotInv(r)'
  BY <1>3, EndedSlot
<1> QED
  BY <1>1, <1>3, <1>4, <1>5, <1>6 DEF GuiInv

LEMMA GuiInit == G!Init => GuiInv
<1> SUFFICES ASSUME G!Init PROVE GuiInv
  OBVIOUS
<1>0. PICK S \in SUBSET Services :
         \E D \in SUBSET S : docs = G!DocsOf(G!ServiceKinds, S) \cup G!DocsOf(G!PlacementKinds, D)
  BY DEF G!Init
<1>1. PICK D \in SUBSET S :
         docs = G!DocsOf(G!ServiceKinds, S) \cup G!DocsOf(G!PlacementKinds, D)
  BY <1>0
<1>2. G!Idle \in G!Job /\ G!Idle.op = "none" /\ G!Idle.todo = <<>> /\ G!Idle.left = {}
  BY IdleJob
<1> HIDE DEF G!Idle
<1>3. /\ job \in [Slots -> G!Job]
      /\ \A r \in Slots : job[r].op = "none" /\ job[r].todo = <<>> /\ job[r].left = {}
  BY <1>2 DEF G!Init
<1>4. docs \subseteq G!Doc
  <2>1. G!ServiceKinds \subseteq G!Kind /\ G!PlacementKinds \subseteq G!Kind
    BY DEF G!Kind, G!Parent, G!ServiceKinds, G!PlacementKinds
  <2> QED
    BY <1>1, <2>1 DEF G!Doc, G!DocsOf
<1>5. G!TypeOK
  BY <1>3, <1>4 DEF G!Init, G!TypeOK, G!NoFilter, G!NoDig
<1>6. ASSUME NEW d \in docs PROVE G!ParentIn(d, docs)
  <2>1. CASE d[1] = "compositeapp"
    BY <2>1 DEF G!ParentIn
  <2>2. CASE d[1] # "compositeapp"
    <3> DEFINE p == <<G!Parent[d[1]], d[2], NoApp>>
    <3>1. /\ d[1] \in G!ServiceKinds \cup G!PlacementKinds /\ d[2] \in S
          /\ d[1] \in G!PlacementKinds => d[2] \in D
      <4>1. CASE d \in G!DocsOf(G!ServiceKinds, S)
        <5>1. d[1] \in G!ServiceKinds /\ d[2] \in S
          BY <4>1 DEF G!DocsOf
        <5> QED
          BY <5>1 DEF G!ServiceKinds, G!PlacementKinds
      <4>2. CASE d \in G!DocsOf(G!PlacementKinds, D)
        BY <4>2 DEF G!DocsOf
      <4> QED
        BY <1>1, <4>1, <4>2
    <3>2. /\ G!Parent[d[1]] \in G!ServiceKinds \cup G!PlacementKinds /\ G!Parent[d[1]] \notin G!PerApp
          /\ G!Parent[d[1]] \in G!PlacementKinds => d[1] \in G!PlacementKinds
      BY <2>2, <3>1 DEF G!ServiceKinds, G!PlacementKinds, G!Parent, G!PerApp
    <3>3. p \in docs
      <4>1. CASE G!Parent[d[1]] \in G!ServiceKinds
        <5>1. p \in G!DocsOf(G!ServiceKinds, S)
          BY <3>1, <3>2, <4>1 DEF G!DocsOf
        <5> QED
          BY <1>1, <5>1
      <4>2. CASE G!Parent[d[1]] \in G!PlacementKinds
        <5>1. p \in G!DocsOf(G!PlacementKinds, D)
          BY <3>1, <3>2, <4>2 DEF G!DocsOf
        <5> QED
          BY <1>1, <5>1
      <4> QED
        BY <3>2, <4>1, <4>2
    <3>4. G!IsParent(p, d)
      BY <2>2 DEF G!IsParent
    <3> QED
      BY <3>3, <3>4 DEF G!ParentIn
  <2> QED
    BY <2>1, <2>2
<1>7. Alone
  BY <1>3 DEF Alone
<1>8. \A r \in Slots : SlotInv(r)
  <2>1. Elements(<<>>) = {} /\ Ordered(<<>>)
    BY DEF Elements, Ordered
  <2> SUFFICES ASSUME NEW r \in Slots PROVE SlotInv(r)
    OBVIOUS
  <2>2. ScriptInv(r)
    BY <1>3, <2>1 DEF ScriptInv, Todo, G!Creator, G!Deleter
  <2> QED
    BY <1>3, <2>2 DEF SlotInv, CreatorInv, DeleterInv, SureInv, G!Creator, G!Deleter
<1> QED
  BY <1>5, <1>6, <1>7, <1>8 DEF GuiInv, Closed

-----------------------------------------------------------------------------
(* Every step.                                                             *)
OnlyAskedStep ==
    /\ docs' \ docs \subseteq UNION {G!Covers(job[r]) : r \in {q \in Slots : job[q].op \in G!Creator}}
    /\ docs \ docs' \subseteq UNION {G!Covers(job[r]) : r \in {q \in Slots : job[q].op \in G!Deleter}}
AnswersKeptStep ==
    \A r \in Slots : job[r].op # "none" /\ job'[r].op = "none" =>
        /\ job'[r].code = 201 =>
             G!Covers(job[r]) \ G!DocsOf(IF DigData.nets THEN {} ELSE G!NetworkKinds, Services) \subseteq docs'
        /\ job'[r].code = 204 /\ job'[r].sure =>
             G!Covers(job[r]) \cap docs' \subseteq G!DocsOf(G!Unseen, Services)

\* Nobody but the request that takes the step ends.
LEMMA Told ==
    ASSUME NEW r \in Slots, AskedBy(r), Promise(r), \A q \in Slots : q # r => job'[q].op = job[q].op
    PROVE  OnlyAskedStep /\ AnswersKeptStep
<1>1. OnlyAskedStep
  BY DEF OnlyAskedStep, AskedBy
<1>2. AnswersKeptStep
  BY DEF AnswersKeptStep, Promise
<1> QED
  BY <1>1, <1>2

LEMMA StillRest ==
    ASSUME G!TypeOK, NEW r \in Slots,
           \/ G!NoNetworks(r) \/ G!Post(r) \/ G!PostFails(r) \/ G!Read(r) \/ G!ReadFails(r)
           \/ G!CheckNoDig(r) \/ G!Delete(r) \/ G!DeleteFails(r)
    PROVE  \A q \in Slots : q # r => job'[q].op = job[q].op
<1> SUFFICES ASSUME NEW q \in Slots, q # r PROVE job'[q] = job[q]
  OBVIOUS
<1>1. job \in [Slots -> G!Job]
  BY DEF G!TypeOK
<1>2. ASSUME NEW code, G!Answer(r, code) PROVE job'[q] = job[q]
  BY <1>1, <1>2 DEF G!Answer
<1>3. ASSUME G!StepOver(r) PROVE job'[q] = job[q]
  BY <1>1, <1>2, <1>3 DEF G!StepOver
<1>4. ASSUME NEW d, NEW left, G!Send(r, d, left) PROVE job'[q] = job[q]
  BY <1>1, <1>3, <1>4 DEF G!Send
<1>5. ASSUME NEW d, G!Posted(r, d) PROVE job'[q] = job[q]
  <2>1. ASSUME NEW at PROVE [job EXCEPT ![r].at = at][q] = job[q] /\ q \in DOMAIN [job EXCEPT ![r].at = at]
    BY <1>1
  <2> QED
    BY <1>1, <1>2, <1>5 DEF G!Posted
<1> QED
  BY <1>1, <1>2, <1>3, <1>4, <1>5
     DEF G!NoNetworks, G!Post, G!PostFails, G!Read, G!ReadFails, G!CheckNoDig, G!Delete, G!DeleteFails

LEMMA GuiStep == GuiInv /\ ~mixed /\ [G!Next]_(G!vars) => GuiInv' /\ OnlyAskedStep /\ AnswersKeptStep
<1> SUFFICES ASSUME GuiInv, ~mixed, [G!Next]_(G!vars) PROVE GuiInv' /\ OnlyAskedStep /\ AnswersKeptStep
  OBVIOUS
<1>1. ASSUME docs' = docs, \A r \in Slots : job[r].op # "none" =>
                              job'[r].op # "none" \/ job'[r].code = 0
      PROVE  OnlyAskedStep /\ AnswersKeptStep
  BY <1>1 DEF OnlyAskedStep, AnswersKeptStep
<1>2. CASE UNCHANGED G!vars
  <2>1. UNCHANGED <<docs, running, dataRead, treeFilter, compositeApp, DigData, job, mixed>>
    BY <1>2 DEF G!vars, G!handler
  <2>2. G!TypeOK' /\ Closed'
    BY <1>2, <2>1, Unmixed DEF G!TypeOK, Closed, G!ParentIn, G!IsParent, G!vars, G!handler
  <2>3. Alone'
    BY <2>1, Unmixed DEF Alone, G!Mix
  <2>4. ASSUME NEW q \in Slots PROVE SlotInv(q)'
    BY <2>1, Unmixed, Keep
  <2>5. GuiInv'
    BY <2>2, <2>3, <2>4 DEF GuiInv
  <2> QED
    BY <1>1, <2>1, <2>5
<1>3. ASSUME NEW r \in Slots,
             \/ G!NoNetworks(r) \/ G!Post(r) \/ G!PostFails(r) \/ G!Read(r) \/ G!ReadFails(r)
             \/ G!CheckNoDig(r) \/ G!Delete(r) \/ G!DeleteFails(r)
      PROVE  GuiInv' /\ OnlyAskedStep /\ AnswersKeptStep
  <2>1. GuiInv' /\ AskedBy(r) /\ Promise(r)
    BY <1>3, PostKeeps, PostTold, PostFailsKeeps, PostFailsTold, NoNetworksKeeps, ReadKeeps,
       ReadFailsKeeps, CheckKeeps, DeleteKeeps, DeleteFailsKeeps
  <2>2. \A q \in Slots : q # r => job'[q].op = job[q].op
    BY <1>3, Unmixed, StillRest
  <2> QED
    BY <2>1, <2>2, Told
<1>4. CASE \E r \in Slots :
              \/ \E s \in Services : G!CreateApp(r, s) \/ G!CreateDig(r, s)
                                     \/ G!Del(r, "DelDig", s) \/ G!Del(r, "DelSvc", s)
              \/ G!GetAllDigs(r)
  BY <1>1, <1>4, BeginsKeep
<1>5. CASE \E s \in Services : G!GetSvc(s) \/ G!Instantiate(s) \/ G!Terminated(s)
  BY <1>1, <1>5, GetSvcKeeps, RunningKeeps
<1>6. CASE G!Dies
  BY <1>1, <1>6, DiesKeeps
<1> QED
  BY <1>2, <1>3, <1>4, <1>5, <1>6 DEF G!Next

LEMMA ApartGuiInit == ApartInit => GuiInv
BY GuiInit DEF ApartInit

LEMMA ApartGuiStep ==
    ASSUME GuiInv, [ApartNext]_apartVars
    PROVE  /\ GuiInv'
           /\ ~mixed => OnlyAskedStep /\ AnswersKeptStep
<1>1. ASSUME ~mixed, [G!Next]_(G!vars) PROVE GuiInv' /\ OnlyAskedStep /\ AnswersKeptStep
  BY <1>1, GuiStep
<1>2. CASE UNCHANGED guiVars
  <2>1. UNCHANGED G!vars
    BY <1>2 DEF guiVars, G!vars, G!handler
  <2>2. CASE ~mixed
    BY <1>1, <2>1, <2>2
  <2>3. CASE mixed
    <3>1. mixed' /\ G!TypeOK' /\ Closed'
      BY <1>2, <2>1, <2>3
         DEF guiVars, G!vars, GuiInv, G!TypeOK, Closed, G!ParentIn, G!IsParent
    <3> QED
      BY <2>3, <3>1 DEF GuiInv
  <2> QED
    BY <2>2, <2>3
<1>3. CASE service = "gui" /\ ~mixed /\ G!Next
  BY <1>1, <1>3
<1> QED
  BY <1>2, <1>3 DEF ApartNext, apartVars

\* OnlyAsked: a document comes only for a request that creates in its service, and
\* goes only for one that deletes there, however the requests share the handler.
THEOREM OnlyAskedCorrect == ApartSpec => OnlyAsked
<1>1. GuiInv /\ [ApartNext]_apartVars => GuiInv'
  BY ApartGuiStep
<1>2. GuiInv /\ [ApartNext]_apartVars => [~mixed => OnlyAskedStep]_(G!vars)
  BY ApartGuiStep
<1> QED
  BY <1>1, <1>2, ApartGuiInit, PTL DEF ApartSpec, OnlyAsked, G!OnlyAsked, OnlyAskedStep

\* AnswersKept: a 201 means that all the request was to create is there; a 204, that
\* all it was to delete is gone but the workload intents and the interfaces, if
\* every call was answered, the group was not running, and it had no placement
\* intents of apps that were never created.
THEOREM AnswersKeptCorrect == ApartSpec => AnswersKept
<1>1. GuiInv /\ [ApartNext]_apartVars => GuiInv'
  BY ApartGuiStep
<1>2. GuiInv /\ [ApartNext]_apartVars => [~mixed => AnswersKeptStep]_(G!vars)
  BY ApartGuiStep
<1> QED
  BY <1>1, <1>2, ApartGuiInit, PTL DEF ApartSpec, AnswersKept, G!AnswersKept, AnswersKeptStep

-----------------------------------------------------------------------------
(* All parts.                                                              *)

\* ApartTypeOK: the variables of every part stay in their ranges, whatever the
\* clusters, jobs, objects, requests and bounds.
THEOREM ApartTypeCorrect == ApartSpec => []ApartTypeOK
<1> DEFINE Parts == service \in {"placement", "instance", "monitor", "gui"}
<1>1. P!Spec => []P!TypeOK
  BY InstanceAssumption, P!TypeCorrect
<1>2. P!TypeOK => I!TypeOK
  BY Zenon DEF
         I!TypeOK, P!TypeOK, I!Entry, P!Entry, I!Event, P!Event, I!Steps, P!Steps,
         I!Statuses, P!Statuses, I!Resource, P!Resource, I!Doors, P!Doors
<1>3. ApartInit => Parts /\ MonitorInv /\ GuiInv
  BY MonitorInit, ApartGuiInit DEF ApartInit
<1>4. Parts /\ MonitorInv /\ GuiInv /\ [ApartNext]_apartVars => (Parts /\ MonitorInv /\ GuiInv)'
  <2>1. Parts /\ [ApartNext]_apartVars => Parts'
    BY DEF ApartNext, apartVars
  <2> QED
    BY <2>1, ApartMonitorStep, ApartGuiStep
<1>5. TypeOK /\ I!TypeOK /\ Parts /\ MonitorInv /\ GuiInv => ApartTypeOK
  BY DEF ApartTypeOK, MonitorInv, GuiInv
<1> QED
  BY <1>1, <1>2, <1>3, <1>4, <1>5, PlacementTypeCorrect, ApartImplements, PTL DEF ApartSpec

=============================================================================
