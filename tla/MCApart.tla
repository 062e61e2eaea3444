------------------------------- MODULE MCApart -------------------------------
(***************************************************************************)
(* Parts of the system that share no state, for TLC in one run: where an   *)
(* app is placed (Placement), an instance of the k8splugin (Instances),    *)
(* the status that comes back from a cluster (Monitor) and the requests of *)
(* the GUI (MiddleEnd).  A behaviour is about one of them.                 *)
(***************************************************************************)
EXTENDS Placement, TLC

CONSTANTS
    la, lb,
    Jobs, NRes, NoEntry, MaxDeletes, MaxInstanceFaults,
    Objects, Plain, NoCR, MaxChanges, MaxStatus, MaxMonitorFaults,
    Slots, Services, s1, Apps, NoApp, NoService, MaxStarts, MaxGuiFaults

VARIABLES
    service, \* the one a behaviour is about
    chart, entry, installed, iJob, born, restarted, deletes, iFaults, started,
    crashes, doors,
    object, cached, cr, crCached, tracked, queue, worker, registered, watching,
    handled, acStatus, mFaults, lost, overtaken,
    docs, running, dataRead, treeFilter, compositeApp, version, DigData, job,
    starts, faults, mixed

placementVars == <<intent, where, gmap, todo, pc>>
instanceVars == <<chart, entry, installed, iJob, born, restarted, deletes, iFaults,
                  started, crashes, doors>>
monitorVars == <<object, cached, cr, crCached, tracked, queue, worker, registered,
                 watching, handled, acStatus, mFaults, lost, overtaken>>
guiVars == <<docs, running, dataRead, treeFilter, compositeApp, version, DigData, job,
             starts, faults, mixed>>
apartVars == <<service, placementVars, instanceVars, monitorVars, guiVars>>

\* A label on the first two clusters, one on the last two, and every intent with
\* at most one AllOf and at most two AnyOf elements inside and outside it.
MCLabelled == [l \in {la, lb} |-> IF l = la THEN {1, 2} ELSE {2, 3}]

ElementChoices == {[name |-> c, label |-> NoLabel] : c \in Clusters}
           \cup {[name |-> NoName, label |-> l] : l \in Labels}

MCIntents ==
    LET anys == SeqOf(ElementChoices, 2)
        allOf == {<<>>} \cup {<<[choice |-> ch, anyOf |-> a]>> :
                                 ch \in ElementChoices \cup {[name |-> NoName, label |-> NoLabel]},
                                 a \in anys}
    IN [allOf : allOf, anyOf : anys]

\* Charts with hooks before and after, and without.
Hooks(preInstall, postInstall, preDelete, postDelete) ==
    ("pre-install" :> preInstall) @@ ("post-install" :> postInstall)
    @@ ("pre-delete" :> preDelete) @@ ("post-delete" :> postDelete)

Charts == {Hooks(1, 2, 1, 1), Hooks(0, 0, 0, 0)}

I == INSTANCE Instances WITH Requests <- Jobs, MaxFaults <- MaxInstanceFaults,
                             job <- iJob, faults <- iFaults
M == INSTANCE Monitor WITH MaxFaults <- MaxMonitorFaults, faults <- mFaults
G == INSTANCE MiddleEnd WITH MaxFaults <- MaxGuiFaults

ASSUME ApartAssumption ==
    /\ PlacementAssumption /\ GroupsAssumption
    /\ I!InstancesAssumption /\ M!MonitorAssumption /\ G!MiddleEndAssumption

\* One initial state of the parts a behaviour is not about.  The services of the
\* GUI are alike: the first one has no less than the others.
ApartInit ==
    /\ service \in {"placement", "instance", "monitor", "gui"}
    /\ Init /\ (service # "placement" => intent = [allOf |-> <<>>, anyOf |-> <<>>])
    /\ I!Init /\ (service # "instance" => chart = Hooks(0, 0, 0, 0))
    /\ M!Init
    /\ G!Init /\ (service # "gui" => docs = {})
    /\ \A d \in docs : <<d[1], s1, d[3]>> \in docs

\* Nothing is said of the monitor after it has lost something, nor of requests of
\* the GUI that have got in each other's way.
ApartNext ==
    \/ /\ service = "placement" /\ Next
       /\ UNCHANGED <<service, instanceVars, monitorVars, guiVars>>
    \/ /\ service = "instance" /\ I!Next
       /\ UNCHANGED <<service, placementVars, monitorVars, guiVars>>
    \/ /\ service = "monitor" /\ ~lost /\ M!Next
       /\ UNCHANGED <<service, placementVars, instanceVars, guiVars>>
    \/ /\ service = "gui" /\ ~mixed /\ G!Next
       /\ UNCHANGED <<service, placementVars, instanceVars, monitorVars>>

ApartSpec == ApartInit /\ [][ApartNext]_apartVars

\* Every variable of the part stays in its range.
ApartTypeOK ==
    CASE service = "placement" -> TypeOK
      [] service = "instance" -> I!TypeOK
      [] service = "monitor" -> M!TypeOK
      [] service = "gui" -> G!TypeOK

\* A resource in the cluster is recorded where a Delete finds it.
NothingForgotten == I!NothingForgotten

\* An instance that answers it is ready has run its post-install hooks, unless
\* their templates could not be resolved again after a crash.
ReadyMeansDone == I!ReadyMeansDone

\* No post-install hook is created twice, or out of turn.
HooksOnce == I!HooksOnce

\* When nothing is on its way, the AppContext has the statuses of the objects, but
\* for exactly those that an older list has overtaken.
SettledIsCurrent == M!SettledIsCurrent

\* A document comes or goes only for a request of the GUI that is about it.
OnlyAsked == G!OnlyAsked

\* A request of the GUI that answers success has done what it was to do, but for
\* the removal of workload intents and interfaces.
AnswersKept == G!AnswersKept

=============================================================================
