----------------------------- MODULE Instances -----------------------------
(***************************************************************************)
(* An instance of a resource bundle in the k8splugin (instance.go,         *)
(* hook.go, client.go): Create installs the resources of a chart in a      *)
(* cluster between its pre-install and post-install hooks, Delete removes  *)
(* them between the other two, and RecoverCreateOrDelete goes on with the  *)
(* hooks a killed plugin was in.  What is to be done is recorded in a      *)
(* database entry that every goroutine overwrites with a copy of its own.  *)
(*                                                                         *)
(* A resource is its position in the chart, which is the order of          *)
(* createResources; so is a hook, among those of its event.  What the      *)
(* objects of hooks leave behind is not modelled.                          *)
(***************************************************************************)
EXTENDS Integers, FiniteSets

CONSTANTS
    Requests,     \* slots of requests and of the goroutines they start
    NRes,         \* the resources of the chart
    Charts,       \* the charts: how many hooks each event has
    NoEntry,      \* the instance is not in the database
    MaxDeletes,   \* bound: requests to delete
    MaxFaults     \* bound: failing calls and crashes

Event == {"pre-install", "post-install", "pre-delete", "post-delete"}

Statuses == {"PRE-INSTALL", "CREATING", "CREATED", "POST-INSTALL",
             "POST-INSTALL-FAILED", "DONE", "PRE-DELETE", "PRE-DELETE-FAILED",
             "DELETING", "POST-DELETE", "POST-DELETE-FAILED", "DELETED"}

\* The entry.  Resources holds the first res ones; HookProgress is "" (0) or the
\* hook begun last; the templates of Hooks are files of the container, which a
\* restart removes, and nothing is left of hooks that could not be resolved.
Entry == [status : Statuses, res : 0..NRes, prog : Nat,
          hooks : {"fresh", "stale", "none"}]

InstancesAssumption ==
    /\ NRes \in Nat \ {0}
    /\ Charts \subseteq [Event -> Nat]
    /\ NoEntry \notin Entry

VARIABLES
    chart,     \* the hooks of the chart
    entry,     \* InstanceDbData in the database, or NoEntry
    installed, \* the resources in the cluster
    job,       \* the requests and goroutines in progress
    born,      \* Create has been called: ids are never used twice
    restarted, \* the plugin has restarted and has had no request yet
    deletes, faults,
    started,   \* ghost: how often each post-install hook was created
    crashes,   \* ghost: how often the plugin was killed
    doors      \* ghost: how the properties can be broken, see below

vars == <<chart, entry, installed, job, born, restarted, deletes, faults,
           started, crashes, doors>>

Resource == 1..NRes

NewEntry == [status |-> "PRE-INSTALL", res |-> 0, prog |-> 0, hooks |-> "fresh"]

Steps == {"idle", "prepare", "hooks", "start", "wait", "failed", "setCreating",
          "create", "revert", "done", "drop", "preDelete", "deleting",
          "cleanup", "delete", "postDelete", "deleted", "recover"}

Idle == [at |-> "idle", copy |-> NewEntry, event |-> "pre-install", i |-> 0,
         made |-> 0, clear |-> TRUE]

\* The doors: a crash or a failed call between the first resource and its record
\* ("lost"); a Delete of an instance whose Create has not answered ("early");
\* the templates of the hooks could not be resolved again ("unresolved").
Doors == {"lost", "early", "unresolved"}

TypeOK ==
    /\ chart \in Charts
    /\ entry \in Entry \cup {NoEntry}
    /\ installed \subseteq Resource
    /\ \A r \in Requests :
          /\ job[r].at \in Steps
          /\ job[r].copy \in Entry
          /\ job[r].event \in Event
          /\ job[r].i \in 0..chart[job[r].event]
          /\ job[r].made \in 0..NRes
          /\ job[r].at \in {"start", "wait"} => job[r].i < chart[job[r].event]
    /\ doors \subseteq Doors

At(r, step) == job[r].at = step
Free(r) == At(r, "idle")
Goto(r, step) == job' = [job EXCEPT ![r].at = step]
End(r) == job' = [job EXCEPT ![r] = Idle]

Fault == faults < MaxFaults /\ faults' = faults + 1
Opened(door) == doors' = doors \cup {door}

Init ==
    /\ chart \in Charts
    /\ entry = NoEntry
    /\ installed = {}
    /\ job = [r \in Requests |-> Idle]
    /\ born = FALSE
    /\ restarted = FALSE
    /\ deletes = 0
    /\ faults = 0
    /\ started = [h \in 1..chart["post-install"] |-> 0]
    /\ crashes = 0
    /\ doors = {}

(***************************************************************************)
(* The database.  Update changes an entry that is there and is an error    *)
(* otherwise.  A failing call may have worked.                             *)
(***************************************************************************)
Update(r, data, done, failed) ==
    \/ /\ entry # NoEntry
       /\ entry' = data
       /\ job' = [job EXCEPT ![r] = done]
       /\ UNCHANGED faults
    \/ /\ entry = NoEntry
       /\ job' = [job EXCEPT ![r] = failed]
       /\ UNCHANGED <<entry, faults>>
    \/ /\ Fault
       /\ entry # NoEntry /\ entry' \in {entry, data}
       /\ job' = [job EXCEPT ![r] = failed]

\* Update of the request's own copy, under a new status.
SetStatus(r, status, done, failed) ==
    LET data == [job[r].copy EXCEPT !.status = status]
    IN  Update(r, data, [job[r] EXCEPT !.copy = data, !.at = done],
                        [job[r] EXCEPT !.copy = data, !.at = failed])

Remove ==
    \/ entry' = NoEntry /\ UNCHANGED faults
    \/ Fault /\ entry' \in {entry, NoEntry}

(***************************************************************************)
(* Create.                                                                 *)
(***************************************************************************)
Create(r) ==
    /\ ~born /\ Free(r)
    /\ born' = TRUE
    /\ \/ /\ entry' = NewEntry
          /\ job' = [job EXCEPT ![r] = [Idle EXCEPT !.at = "prepare"]]
          /\ UNCHANGED faults
       \/ /\ Fault
          /\ entry' \in {entry, NewEntry}
          /\ UNCHANGED job
    /\ restarted' = FALSE
    /\ UNCHANGED <<chart, installed, deletes, started, crashes, doors>>

\* ensureNamespace and the CRDs; their failure leaves the entry.
Prepare(r) ==
    /\ At(r, "prepare")
    /\ \/ Goto(r, "hooks") /\ UNCHANGED faults
       \/ End(r) /\ Fault
    /\ UNCHANGED <<chart, entry, installed, born, restarted, deletes, started,
                   crashes, doors>>

SetCreating(r) ==
    /\ At(r, "setCreating")
    /\ SetStatus(r, "CREATING", "create", "drop")
    /\ UNCHANGED <<chart, installed, born, restarted, deletes, started, crashes, doors>>

\* What a call does to the cluster when it works; a resource that is not there is
\* deleted without an error.
CreateKind(n) == installed' = installed \cup {n}
DeleteKind(n) == installed' = installed \ {n}

CreateResource(r) ==
    /\ At(r, "create") /\ job[r].made < NRes
    /\ CreateKind(job[r].made + 1)
    /\ job' = [job EXCEPT ![r].made = @ + 1]
    /\ UNCHANGED <<chart, entry, born, restarted, deletes, faults, started,
                   crashes, doors>>

\* A template that the cluster refuses, or a call whose answer is lost: the
\* resources created before it are deleted again.
AfterCreateFailsDrop == "drop" \* Mutant: what was created stays.
AfterCreateFails == "revert"
CreateResourceFails(r) ==
    /\ At(r, "create") /\ job[r].made < NRes
    /\ Goto(r, AfterCreateFails)
    /\ \/ UNCHANGED <<installed, faults, doors>>
       \/ /\ Fault
          /\ CreateKind(job[r].made + 1)
          /\ Opened("lost")
    /\ UNCHANGED <<chart, entry, born, restarted, deletes, started, crashes>>

RevertResource(r) ==
    /\ At(r, "revert")
    /\ IF job[r].made = 0
         THEN Goto(r, "drop") /\ UNCHANGED <<installed, faults, doors>>
         ELSE \/ /\ DeleteKind(job[r].made)
                 /\ job' = [job EXCEPT ![r].made = @ - 1]
                 /\ UNCHANGED <<faults, doors>>
              \/ /\ Fault
                 /\ Goto(r, "drop")
                 /\ Opened("lost")
                 /\ UNCHANGED installed
    /\ UNCHANGED <<chart, entry, born, restarted, deletes, started, crashes>>

\* A Create that has failed, a Delete that is over: the entry goes, and an error
\* of removing it is at most reported.
Drop(r) ==
    /\ At(r, "drop")
    /\ Remove
    /\ End(r)
    /\ UNCHANGED <<chart, installed, born, restarted, deletes, started, crashes, doors>>

\* CREATED, with the resources.  Create has answered when the post-install
\* hooks begin: they run in a goroutine.
RecordCreated(r) ==
    LET data == [job[r].copy EXCEPT !.status = "CREATED", !.res = NRes]
        copy == [data EXCEPT !.status = "POST-INSTALL", !.prog = 0]
    IN  /\ At(r, "create") /\ job[r].made = NRes
        /\ Update(r, data, [Idle EXCEPT !.at = "hooks", !.copy = copy,
                                        !.event = "post-install"], Idle)
        /\ IF job'[r] = Idle THEN Opened("lost") ELSE UNCHANGED doors
        /\ UNCHANGED <<chart, installed, born, restarted, deletes, started, crashes>>

RecordDone(r) ==
    /\ At(r, "done")
    /\ Update(r, [job[r].copy EXCEPT !.status = "DONE"], Idle, Idle)
    /\ UNCHANGED <<chart, installed, born, restarted, deletes, started, crashes, doors>>

(***************************************************************************)
(* ExecHook: the hooks of an event in order, from the i-th on.  The        *)
(* progress is recorded before the hook is created, so that a hook is      *)
(* rather left out than created again.                                     *)
(***************************************************************************)
Hooks(r) == IF job[r].copy.hooks = "none" THEN 0 ELSE chart[job[r].event]

RecordProgress(r) ==
    LET data == [job[r].copy EXCEPT !.prog = job[r].i + 1]
        to(step) == [job[r] EXCEPT !.copy = data, !.at = step]
    IN  /\ At(r, "hooks") /\ job[r].i < Hooks(r)
        /\ Update(r, data, to("start"), to("failed"))
        /\ UNCHANGED <<chart, installed, born, restarted, deletes, started, crashes, doors>>

\* Its template must be on disk, and the hook begins to run.
Counted(r) ==
    started' = IF job[r].event = "post-install"
                 THEN [started EXCEPT ![job[r].i + 1] = @ + 1] ELSE started
StartHook(r) ==
    /\ At(r, "start") /\ job[r].copy.hooks = "fresh"
    /\ Counted(r)
    /\ Goto(r, "wait")
    /\ UNCHANGED <<chart, entry, installed, born, restarted, deletes, faults,
                   crashes, doors>>

\* No template, a refusal, or a lost answer.
StartHookFails(r) ==
    /\ At(r, "start")
    /\ \/ UNCHANGED <<started, faults>>
       \/ job[r].copy.hooks = "fresh" /\ Counted(r) /\ Fault
    /\ Goto(r, "failed")
    /\ UNCHANGED <<chart, entry, installed, born, restarted, deletes, crashes, doors>>

\* WatchHookUntilReady: it is ready, or has failed, or the time is over.
WaitHook(r) ==
    /\ At(r, "wait")
    /\ \/ job' = [job EXCEPT ![r].at = "hooks", ![r].i = @ + 1]
       \/ Goto(r, "failed")
    /\ UNCHANGED <<chart, entry, installed, born, restarted, deletes, faults,
                   started, crashes, doors>>

\* What follows the hooks of an event.
AfterHooks(j) ==
    CASE j.event = "pre-install"  -> "setCreating"
      [] j.event = "post-install" -> "done"
      [] j.event = "pre-delete"   -> IF j.clear THEN "deleting" ELSE "delete"
      [] j.event = "post-delete"  -> "deleted"

\* All have run; deleting by policy, before each one or now, may fail.
EndHooks(r) ==
    /\ At(r, "hooks")
    /\ \/ job[r].i >= Hooks(r) /\ Goto(r, AfterHooks(job[r])) /\ UNCHANGED faults
       \/ Hooks(r) > 0 /\ Goto(r, "failed") /\ Fault
    /\ UNCHANGED <<chart, entry, installed, born, restarted, deletes, started,
                   crashes, doors>>

\* A failed hook before the installation takes the entry away, any other one is
\* recorded.
HooksFailed(r) ==
    LET failed == [e \in Event \ {"pre-install"} |->
                     CASE e = "post-install" -> "POST-INSTALL-FAILED"
                       [] e = "pre-delete"   -> "PRE-DELETE-FAILED"
                       [] e = "post-delete"  -> "POST-DELETE-FAILED"]
    IN  /\ At(r, "failed")
        /\ IF job[r].event = "pre-install"
             THEN Remove /\ End(r)
             ELSE Update(r, [job[r].copy EXCEPT !.status = failed[job[r].event]], Idle, Idle)
        /\ UNCHANGED <<chart, installed, born, restarted, deletes, started, crashes, doors>>

(***************************************************************************)
(* Delete.  A client knows an instance from the answer of Create, or from  *)
(* List, which hides the ones in PRE-INSTALL.                              *)
(***************************************************************************)
Listed == entry # NoEntry /\ entry.status # "PRE-INSTALL"
Answered(r) == job[r].event # "pre-install"

Delete(r) ==
    /\ Listed /\ Free(r) /\ deletes < MaxDeletes
    /\ deletes' = deletes + 1
    /\ job' = [job EXCEPT ![r] =
                 [Idle EXCEPT !.at = IF entry.status = "DELETED" THEN "drop" ELSE "preDelete",
                              !.copy = [entry EXCEPT !.prog = 0], !.event = "pre-delete",
                              !.made = entry.res]]
    /\ IF \E q \in Requests : ~Free(q) /\ ~Answered(q)
         THEN Opened("early") ELSE UNCHANGED doors
    /\ restarted' = FALSE
    /\ UNCHANGED <<chart, entry, installed, born, faults, started, crashes>>

\* The errors of these two updates are logged, and the deletion goes on.
SetPreDelete(r) ==
    /\ At(r, "preDelete")
    /\ SetStatus(r, "PRE-DELETE", "hooks", "hooks")
    /\ UNCHANGED <<chart, installed, born, restarted, deletes, started, crashes, doors>>

SetDeleting(r) ==
    /\ At(r, "deleting")
    /\ SetStatus(r, "DELETING", "cleanup", "cleanup")
    /\ UNCHANGED <<chart, installed, born, restarted, deletes, started, crashes, doors>>

\* Cleanup of the configurations (ConfigVersions); a recovered deletion goes
\* past it.
Cleanup(r) ==
    /\ At(r, "cleanup")
    /\ \/ Goto(r, "delete") /\ UNCHANGED faults
       \/ End(r) /\ Fault
    /\ UNCHANGED <<chart, entry, installed, born, restarted, deletes, started,
                   crashes, doors>>

\* In reverse order; the first error ends the deletion, and the entry stays.
DeleteResource(r) ==
    /\ At(r, "delete") /\ job[r].made > 0
    /\ \/ /\ DeleteKind(job[r].made)
          /\ job' = [job EXCEPT ![r].made = @ - 1]
          /\ UNCHANGED faults
       \/ /\ Fault
          /\ DeleteKind(job[r].made) \/ UNCHANGED installed
          /\ End(r)
    /\ UNCHANGED <<chart, entry, born, restarted, deletes, started, crashes, doors>>

\* Without post-delete hooks the entry goes at once; a recovered deletion keeps
\* it in any case.
ResourcesDeleted(r) ==
    LET j == [job[r] EXCEPT !.event = "post-delete", !.i = 0, !.copy.prog = 0]
        noHooks == j.copy.hooks = "none" \/ chart["post-delete"] = 0
    IN  /\ At(r, "delete") /\ job[r].made = 0
        /\ job' = [job EXCEPT ![r] =
                     [j EXCEPT !.at = IF j.clear /\ noHooks THEN "drop" ELSE "postDelete"]]
        /\ UNCHANGED <<chart, entry, installed, born, restarted, deletes, faults,
                       started, crashes, doors>>

\* runPostDelete.
SetPostDelete(r) ==
    /\ At(r, "postDelete")
    /\ SetStatus(r, "POST-DELETE", "hooks", "hooks")
    /\ UNCHANGED <<chart, installed, born, restarted, deletes, started, crashes, doors>>

RecordDeleted(r) ==
    /\ At(r, "deleted")
    /\ IF job[r].clear
         THEN Remove /\ End(r)
         ELSE Update(r, [job[r].copy EXCEPT !.status = "DELETED"], Idle, Idle)
    /\ UNCHANGED <<chart, installed, born, restarted, deletes, started, crashes, doors>>

(***************************************************************************)
(* RecoverCreateOrDelete, which a restarted plugin is meant to call before *)
(* it takes requests.                                                      *)
(***************************************************************************)
Recover(r) ==
    /\ restarted /\ entry # NoEntry /\ Free(r)
    /\ restarted' = FALSE
    /\ \/ /\ job' = [job EXCEPT ![r] = [Idle EXCEPT !.at = "recover",
                                          !.copy = [entry EXCEPT !.hooks = "fresh"]]]
          /\ UNCHANGED <<faults, doors>>
       \/ /\ Fault
          /\ job' = [job EXCEPT ![r] = [Idle EXCEPT !.at = "recover",
                                          !.copy = [entry EXCEPT !.hooks = "none"]]]
          /\ Opened("unresolved")
    /\ UNCHANGED <<chart, entry, installed, born, deletes, started, crashes>>

\* Mutants: the hook in progress is run again; the one after it is left out too.
RecoverFromSame(copy) == copy.prog - 1
RecoverFromNext(copy) == IF copy.prog < chart["post-install"] THEN copy.prog + 1 ELSE copy.prog

\* The hook to go on with: the one begun last counts as done.
RecoverFrom(copy) == copy.prog

Recovered(copy) ==
    LET goOn(e, step, clear) == [Idle EXCEPT !.at = step, !.copy = copy, !.event = e,
                                   !.i = RecoverFrom(copy), !.made = copy.res,
                                   !.clear = clear]
    IN  CASE copy.prog = 0 -> Idle
          [] copy.prog > 0 /\ copy.status = "POST-INSTALL" -> goOn("post-install", "hooks", TRUE)
          [] copy.prog > 0 /\ copy.status = "PRE-DELETE"   -> goOn("pre-delete", "hooks", FALSE)
          [] copy.prog > 0 /\ copy.status = "POST-DELETE"  -> goOn("post-delete", "postDelete", TRUE)
          [] OTHER -> Idle

RecordRecovered(r) ==
    /\ At(r, "recover")
    /\ Update(r, job[r].copy, Recovered(job[r].copy), Idle)
    /\ UNCHANGED <<chart, installed, born, restarted, deletes, started, crashes, doors>>

\* The plugin is killed: its goroutines and the files of the templates are gone.
Crash ==
    /\ Fault
    /\ \E r \in Requests : ~Free(r)
    /\ job' = [r \in Requests |-> Idle]
    /\ entry' = IF entry # NoEntry /\ entry.hooks = "fresh"
                  THEN [entry EXCEPT !.hooks = "stale"] ELSE entry
    /\ restarted' = TRUE
    /\ crashes' = crashes + 1
    /\ IF \E r \in Requests : job[r].at \in {"create", "revert"}
         THEN Opened("lost") ELSE UNCHANGED doors
    /\ UNCHANGED <<chart, installed, born, deletes, started>>

Next ==
    \/ \E r \in Requests :
          \/ Create(r) \/ Prepare(r) \/ SetCreating(r) \/ CreateResource(r)
          \/ CreateResourceFails(r) \/ RevertResource(r) \/ Drop(r)
          \/ RecordCreated(r) \/ RecordDone(r)
          \/ RecordProgress(r) \/ StartHook(r) \/ StartHookFails(r) \/ WaitHook(r)
          \/ EndHooks(r) \/ HooksFailed(r)
          \/ Delete(r) \/ SetPreDelete(r) \/ SetDeleting(r) \/ Cleanup(r)
          \/ DeleteResource(r) \/ ResourcesDeleted(r) \/ SetPostDelete(r)
          \/ RecordDeleted(r) \/ Recover(r) \/ RecordRecovered(r)
    \/ Crash

Spec == Init /\ [][Next]_vars

(***************************************************************************)
(* Properties.                                                             *)
(***************************************************************************)
\* Resources a Create still has to record or to delete.
Creating == UNION {1..job[r].made : r \in {q \in Requests : job[q].at \in {"create", "revert"}}}

Recorded == IF entry = NoEntry THEN {} ELSE 1..entry.res

\* No resource is forgotten, whatever goroutines overwrite each other's entries,
\* whatever hooks and calls fail and wherever the plugin is killed, but for the
\* time between the first resource and the record (instance.go:320, "very quick
\* -> no need to support recover"): a resource in the cluster is recorded where a
\* Delete finds it, and none is left when the post-delete hooks begin.
NothingForgotten ==
    doors \cap {"lost", "early"} = {} =>
        /\ installed \subseteq Recorded \cup Creating
        /\ entry # NoEntry /\ entry.status \in {"POST-DELETE", "POST-DELETE-FAILED", "DELETED"}
             => installed = {}

\* Status answers that the instance is ready (instance.go:541).
Ready == entry # NoEntry /\ entry.status = "DONE" /\ Recorded \subseteq installed

\* Unless the hooks' templates could not be resolved again after a crash: an
\* instance that is ready has all its resources and has run its post-install
\* hooks, but for at most one a crash (hook.go:92, "it will continue from next
\* hook and consider that this one is done").
ReadyMeansDone ==
    Ready /\ "unresolved" \notin doors =>
        /\ installed = Resource
        /\ Cardinality({h \in DOMAIN started : started[h] = 0}) <= crashes

\* No post-install hook is created twice, and none before the ones it follows
\* were created or given up by a crash, however often the plugin is killed and
\* recovers, beside any Delete.
HooksOnce ==
    \A h \in DOMAIN started :
        /\ started[h] <= 1
        /\ started[h] = 1 => Cardinality({g \in 1..(h - 1) : started[g] = 0}) <= crashes

=============================================================================
