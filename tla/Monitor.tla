------------------------------- MODULE Monitor -------------------------------
(***************************************************************************)
(* How the status of the objects of an app comes back from a cluster       *)
(* (monitor/pkg/controller, rsync/pkg/status).  In the cluster, the        *)
(* monitor keeps a ResourceBundleState (CR) with the statuses of the       *)
(* objects that carry its label: one controller for each kind of object,   *)
(* and one for the CR itself, which lists all objects when the CR comes.   *)
(* They read a cache that lags behind the API server and race with each    *)
(* other to write the one CR.  rsync watches the CR and copies its status  *)
(* to the AppContext.                                                      *)
(*                                                                         *)
(* A status is a number, 0 is none.  An object that changes, or is gone    *)
(* and comes again, may have a status it had before.                       *)
(***************************************************************************)
EXTENDS Integers, FiniteSets, Functions

CONSTANTS
    Objects,    \* the objects with the label of the CR
    Plain,      \* those of a kind without a status: ConfigMaps, Secrets
    NoCR,       \* there is no ResourceBundleState
    MaxChanges, \* bound: changes of the objects
    MaxStatus,  \* bound: statuses of an object
    MaxFaults   \* bound: failing calls and restarts

MonitorAssumption ==
    /\ Plain \subseteq Objects
    /\ "cr" \notin Objects
    /\ MaxChanges \in Nat /\ MaxStatus \in Nat /\ MaxFaults \in Nat

VARIABLES
    object,     \* the objects in the API server
    cached,     \* the objects in the monitor's cache
    cr,         \* the ResourceBundleState in the API server, or NoCR
    crCached,   \* the one in the monitor's cache
    tracked,    \* rsync has created it once
    queue,      \* requests that wait for their controller
    worker,     \* what each controller is doing
    registered, \* rsync has a channel for the cluster
    watching,   \* the goroutine that watches the cluster runs
    handled,    \* it has handled the CR as it is
    acStatus,   \* the status of the app and cluster in the AppContext
    faults,
    lost,       \* ghost: an event was dropped on an error
    overtaken   \* ghost: objects the CR's controller has listed otherwise than the CR
                \* has them, when an update of theirs changed nothing

vars == <<object, cached, cr, crCached, tracked, queue, worker, registered,
          watching, handled, acStatus, faults, lost, overtaken>>

Controller == {"status", "plain", "cr"}
ControllerOf(q) == IF q = "cr" THEN "cr" ELSE IF q \in Plain THEN "plain" ELSE "status"
ObjectsOf(k) == {o \in Objects : ControllerOf(o) = k}

Object == [there : BOOLEAN, version : Nat, status : Nat, dying : BOOLEAN]
Statuses == [Objects -> Nat]
NoStatuses == [o \in Objects |-> 0]
CR == [rv : Nat, statuses : Statuses]

Worker == [at : {"idle", "find", "list", "write"}, request : Objects \cup {"cr"},
           status : Nat, copy : CR, listed : SUBSET {"status", "plain"}]
Idle == [at |-> "idle", request |-> "cr", status |-> 0,
         copy |-> [rv |-> 0, statuses |-> NoStatuses], listed |-> {}]

TypeOK ==
    /\ object \in [Objects -> Object]
    /\ cached \in [Objects -> Object]
    /\ cr \in CR \cup {NoCR}
    /\ crCached \in CR \cup {NoCR}
    /\ queue \subseteq Objects \cup {"cr"}
    /\ worker \in [Controller -> Worker]
    /\ \A k \in Controller :
          worker[k].at # "idle" => ControllerOf(worker[k].request) = k
    /\ watching => registered
    /\ handled \in BOOLEAN
    /\ acStatus \in Statuses
    /\ overtaken \subseteq Objects

Init ==
    /\ object = [o \in Objects |-> [there |-> FALSE, version |-> 0, status |-> 0,
                                dying |-> FALSE]]
    /\ cached = object
    /\ cr = NoCR
    /\ crCached = NoCR
    /\ tracked = FALSE
    /\ queue = {}
    /\ worker = [k \in Controller |-> Idle]
    /\ registered = FALSE
    /\ watching = FALSE
    /\ handled = FALSE
    /\ acStatus = NoStatuses
    /\ faults = 0
    /\ lost = FALSE
    /\ overtaken = {}

Fault == faults < MaxFaults /\ faults' = faults + 1

(***************************************************************************)
(* The cluster.                                                            *)
(***************************************************************************)
Changes == SumFunction([o \in Objects |-> object[o].version])

\* An object comes or changes, is asked to go, is gone.  Its statuses are numbered
\* as they first come.
Change(o) ==
    /\ Changes < MaxChanges /\ ~object[o].dying
    /\ \E s \in 1..MaxStatus :
          /\ s <= object[o].version + 1
          /\ object' = [object EXCEPT ![o].there = TRUE, ![o].version = @ + 1, ![o].status = s]
Doom(o) ==
    /\ object[o].there /\ ~object[o].dying
    /\ object' = [object EXCEPT ![o].dying = TRUE]
Vanish(o) ==
    /\ object[o].there
    /\ object' = [object EXCEPT ![o].there = FALSE, ![o].dying = FALSE]

ObjectStep ==
    /\ \E o \in Objects : Change(o) \/ Doom(o) \/ Vanish(o)
    /\ UNCHANGED <<cached, cr, crCached, tracked, queue, worker, registered,
                   watching, handled, acStatus, faults, lost, overtaken>>

\* The cache learns of an object, and its event passes the predicate: the object
\* has the label.
Deliver(o) ==
    /\ cached[o] # object[o]
    /\ cached' = [cached EXCEPT ![o] = object[o]]
    /\ queue' = queue \cup {o}
    /\ UNCHANGED <<object, cr, crCached, tracked, worker, registered, watching,
                   handled, acStatus, faults, lost, overtaken>>

\* Of the CR's own events EventHandler lets only its creation pass.
DeliverCR ==
    /\ crCached # cr
    /\ crCached' = cr
    /\ queue' = IF crCached = NoCR THEN queue \cup {"cr"} ELSE queue
    /\ UNCHANGED <<object, cached, cr, tracked, worker, registered, watching,
                   handled, acStatus, faults, lost, overtaken>>

(***************************************************************************)
(* The controllers: one request at a time each.                            *)
(***************************************************************************)
\* The controller of a kind reads the object.  The status of one that is gone, or
\* is about to go, is removed from a copy of the CR that nobody writes.
Reconcile(o) ==
    LET k == ControllerOf(o)
    IN  /\ o \in queue /\ worker[k].at = "idle"
        /\ queue' = queue \ {o}
        /\ worker' = IF cached[o].there /\ ~cached[o].dying
                       THEN [worker EXCEPT ![k] = [Idle EXCEPT !.at = "find", !.request = o,
                                                     !.status = cached[o].status]]
                       ELSE worker
        /\ overtaken' = overtaken \ {o}
        /\ UNCHANGED <<object, cached, cr, crCached, tracked, registered,
                       watching, handled, acStatus, faults, lost>>

\* An object without a status keeps what the CR has of it.
UpdateStatuses(statuses, o, status) ==
    IF o \in Plain /\ statuses[o] # 0 THEN statuses
    ELSE [statuses EXCEPT ![o] = status]

\* It looks for the CR with the label.  None, or an error, ends the request.
FindCR(k) ==
    LET w == worker[k]
    IN  /\ w.at = "find"
        /\ \/ /\ crCached # NoCR
              /\ worker' = [worker EXCEPT ![k].at = "write",
                              ![k].copy = [crCached EXCEPT !.statuses =
                                             UpdateStatuses(@, w.request, w.status)]]
              /\ UNCHANGED <<faults, lost>>
           \/ /\ crCached = NoCR
              /\ worker' = [worker EXCEPT ![k] = Idle]
              /\ UNCHANGED <<faults, lost>>
           \/ /\ Fault
              /\ worker' = [worker EXCEPT ![k] = Idle]
              /\ lost' = TRUE
        /\ UNCHANGED <<object, cached, cr, crCached, tracked, queue, registered,
                       watching, handled, acStatus, overtaken>>

\* The controller of the CR reads it and lists the objects, a kind at a time.
ReconcileCR ==
    /\ "cr" \in queue /\ worker["cr"].at = "idle"
    /\ queue' = queue \ {"cr"}
    /\ worker' = IF crCached # NoCR
                   THEN [worker EXCEPT !["cr"] = [Idle EXCEPT !.at = "list", !.copy = crCached]]
                   ELSE worker
    /\ overtaken' = {}
    /\ UNCHANGED <<object, cached, cr, crCached, tracked, registered, watching,
                   handled, acStatus, faults, lost>>

ListObjects(k) ==
    LET w == worker["cr"]
        found == [o \in Objects |->
                    IF o \notin ObjectsOf(k) THEN w.copy.statuses[o]
                    ELSE IF cached[o].there THEN cached[o].status ELSE 0]
    IN  /\ w.at = "list" /\ k \notin w.listed
        /\ k = "plain" => "status" \in w.listed
        /\ worker' = [worker EXCEPT !["cr"].copy.statuses = found,
                        !["cr"].listed = @ \cup {k},
                        !["cr"].at = IF w.listed \cup {k} = {"status", "plain"}
                                       THEN "write" ELSE "list"]
        /\ UNCHANGED <<object, cached, cr, crCached, tracked, queue, registered,
                       watching, handled, acStatus, faults, lost, overtaken>>

\* Mutant: an update that fails is not tried again.
RequeuedNot(q) == {}
\* A request that ends with an error is queued again.
Requeued(q) == {q}

\* The CR's controller has listed the object, and not with this status, and nobody
\* has written the CR since it has read it.
ListedOtherwise(o, status) ==
    LET w == worker["cr"]
    IN  /\ ControllerOf(o) \in w.listed /\ w.copy.rv = cr.rv
        /\ UpdateStatuses(w.copy.statuses, o, status) # w.copy.statuses

\* The API server refuses an update of a CR that has changed since it was read,
\* or is gone.  One that changes nothing is no change: it does not stop the CR's
\* controller from writing what it has listed before.
Write(k) ==
    LET w == worker[k]
        same == w.copy.statuses = cr.statuses
        new == IF same THEN cr ELSE [rv |-> cr.rv + 1, statuses |-> w.copy.statuses]
        fits == cr # NoCR /\ cr.rv = w.copy.rv
        passed == IF k # "cr" /\ same /\ ListedOtherwise(w.request, w.status)
                    THEN {w.request} ELSE {}
    IN  /\ w.at = "write"
        /\ worker' = [worker EXCEPT ![k] = Idle]
        /\ \/ /\ fits /\ cr' = new
              /\ overtaken' = overtaken \cup passed
              /\ UNCHANGED <<queue, faults>>
           \/ /\ ~fits
              /\ queue' = queue \cup Requeued(w.request)
              /\ UNCHANGED <<cr, faults, overtaken>>
           \/ /\ Fault
              /\ queue' = queue \cup Requeued(w.request)
              /\ cr' = cr \/ (fits /\ cr' = new)
              /\ UNCHANGED overtaken
        /\ handled' = (handled /\ cr' = cr)
        /\ UNCHANGED <<object, cached, crCached, tracked, registered, watching,
                       acStatus, lost>>

\* The monitor is restarted: it has the objects in its cache before it begins, and
\* gets all of them as new ones.
MonitorRestarts ==
    /\ Fault
    /\ cached' = object
    /\ crCached' = cr
    /\ queue' = {o \in Objects : object[o].there} \cup (IF cr = NoCR THEN {} ELSE {"cr"})
    /\ worker' = [k \in Controller |-> Idle]
    /\ overtaken' = {}
    /\ UNCHANGED <<object, cr, tracked, registered, watching, handled, acStatus,
                   lost>>

(***************************************************************************)
(* rsync.                                                                  *)
(***************************************************************************)
\* An installation applies the CR, a termination deletes it.
AddStatusTracker ==
    /\ ~tracked
    /\ tracked' = TRUE
    /\ cr' = [rv |-> 0, statuses |-> NoStatuses]
    /\ UNCHANGED <<object, cached, crCached, queue, worker, registered, watching,
                   handled, acStatus, faults, lost, overtaken>>

DeleteStatusTracker ==
    /\ cr # NoCR
    /\ cr' = NoCR
    /\ UNCHANGED <<object, cached, crCached, tracked, queue, worker, registered,
                   watching, handled, acStatus, faults, lost, overtaken>>

\* Mutant: the channel is not kept.
StartClusterWatcherAgain ==
    /\ ~registered
    /\ watching' = TRUE
    /\ UNCHANGED <<object, cached, cr, crCached, tracked, queue, worker, registered,
                   handled, acStatus, faults, lost, overtaken>>

\* The first time, for a cluster; if the client cannot be made, the channel is
\* registered all the same.
StartClusterWatcher ==
    /\ ~registered
    /\ registered' = TRUE
    /\ \/ watching' = TRUE /\ UNCHANGED faults
       \/ watching' = FALSE /\ Fault
    /\ UNCHANGED <<object, cached, cr, crCached, tracked, queue, worker, handled,
                   acStatus, lost, overtaken>>

\* An added or updated CR; what fails is logged, and the event is over.
HandleStatusUpdate ==
    /\ watching /\ cr # NoCR /\ ~handled
    /\ handled' = TRUE
    /\ \/ acStatus' = cr.statuses /\ UNCHANGED <<faults, lost>>
       \/ /\ Fault
          /\ lost' = TRUE
          /\ UNCHANGED acStatus
    /\ UNCHANGED <<object, cached, cr, crCached, tracked, queue, worker,
                   registered, watching, overtaken>>

RsyncRestarts ==
    /\ Fault
    /\ registered' = FALSE
    /\ watching' = FALSE
    /\ handled' = FALSE
    /\ UNCHANGED <<object, cached, cr, crCached, tracked, queue, worker,
                   acStatus, lost, overtaken>>

Next ==
    \/ ObjectStep
    \/ \E o \in Objects : Deliver(o) \/ Reconcile(o)
    \/ DeliverCR \/ ReconcileCR
    \/ \E k \in {"status", "plain"} : FindCR(k) \/ ListObjects(k)
    \/ \E k \in Controller : Write(k)
    \/ MonitorRestarts
    \/ AddStatusTracker \/ DeleteStatusTracker
    \/ StartClusterWatcher \/ HandleStatusUpdate \/ RsyncRestarts

Spec == Init /\ [][Next]_vars

(***************************************************************************)
(* Properties.                                                             *)
(***************************************************************************)
\* Nothing is on its way in the cluster.
Settled ==
    /\ queue = {} /\ \A k \in Controller : worker[k].at = "idle"
    /\ cached = object /\ crCached = cr

\* The CR has the object as it is; a ConfigMap or Secret, as it was once.
IsCurrent(o) ==
    /\ cr.statuses[o] # 0
    /\ o \notin Plain => cr.statuses[o] = object[o].status

\* However the controllers race, are refused or restarted: when nothing is on its
\* way any more, the CR has the status of every object that is there to stay, and
\* the AppContext has what the CR has.  Two things go wrong in the code for good.
\* An event is dropped on an error, which nothing repeats: nothing is said then.
\* And, with no error at all, the last update of an object changes nothing in the
\* CR (a ConfigMap or Secret that was gone and has come again, or an object that is
\* back at an old status) while the CR's controller holds a list that has the object
\* otherwise: the list still fits the CR and is written over it.  Those objects,
\* and no other, are wrong.
SettledIsCurrent ==
    Settled /\ cr # NoCR /\ ~lost =>
        /\ \A o \in Objects : object[o].there /\ ~object[o].dying =>
              (IsCurrent(o) <=> o \notin overtaken)
        /\ watching /\ handled => acStatus = cr.statuses

=============================================================================
