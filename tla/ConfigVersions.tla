--------------------------- MODULE ConfigVersions ---------------------------
(* The configurations of an instance in the k8splugin, for one instance    *)
(* and one configuration name.  etcd holds the configuration, its numbered *)
(* versions, their counter and a tag; a mutex per instance is meant to     *)
(* serialise the requests; a goroutine per instance applies configurations *)
(* to the cluster.  cluster is what the configuration's resources look     *)
(* like there.                                                             *)
EXTENDS Integers, Functions

CONSTANTS
    Requests,    \* the requests that can be in flight at the same time
    Values,      \* the contents of a configuration
    NoConfig,    \* no configuration, or the empty Config{}
    NoOne,       \* the holder of a free mutex
    MaxStarts,   \* bound: requests in all
    MaxFaults,   \* bound: failing calls and crashes
    MaxGens      \* bound: mutexes made

ASSUME ConfigAssumption ==
    /\ MaxStarts \in Nat /\ MaxFaults \in Nat /\ MaxGens \in Nat
    /\ NoConfig \notin Values /\ NoOne \notin Requests
    /\ Requests \cap {"listen", "back", "stopped"} = {}

NoTag == -10
\* getProfileData makes a new mutex, channel and goroutine after removeProfileData.
Gens == 1 .. MaxGens

VARIABLES
    config, counter, versions, tag,    \* etcd
    cluster,                           \* the resources of the configuration
    gen, present, holder, thread,      \* profileData: mutexes and goroutines
    pc, job,                           \* the requests, and their locals
    left, faults,                      \* how much more may happen
    doors,                             \* ghost: what has gone past the mutex
    dropped                            \* ghost: a list was not sent

etcd == <<config, counter, versions, tag>>
profileData == <<gen, present, holder, thread>>
bounds == <<left, faults>>
vars == <<etcd, cluster, profileData, pc, job, bounds, doors, dropped>>

NoJob == [op |-> "none", whole |-> "self", val |-> NoConfig, idx |-> 0, gen |-> 0,
          cur |-> 0, i |-> 0, res |-> "none", prev |-> NoConfig, act |-> "none",
          what |-> NoConfig, end |-> "ok"]

Above(i, idx) == idx >= 0 /\ (i < 0 \/ i > idx)    \* i > idx for uint

At(r, p) == pc[r] = p
Goto(r, p) == pc' = [pc EXCEPT ![r] = p]
\* The locked part of a request ends, with or without an error.
Leave(r, end) == /\ Goto(r, "unlock")
                 /\ job' = [job EXCEPT ![r].end = end]
\* Outside the locked part a request goes on, or ends.
Continue(r, p) == /\ Goto(r, p)
                  /\ job' = [job EXCEPT ![r] = IF p = "idle" THEN NoJob
                                               ELSE [job[r] EXCEPT !.op = "Delete"]]
\* Where a call of DeleteAll returns to.
Return(r) == IF job[r].whole = "Cleanup" THEN "remove" ELSE "idle"

Purging == {"purge", "purgeVersions", "purgeCounter", "purgeTag"}
Inside == {"read", "step", "send", "await", "store", "incr", "count", "record",
           "drop", "decr", "unlock"}
\* Another request is between Lock and Unlock, or deletes without the mutex.
Overlap(r) == IF \E q \in Requests \ {r} : pc[q] \in Inside \cup Purging
              THEN {"overlap"} ELSE {}
Halfway(r) == IF job[r].op = "Rollback" /\ job[r].i # job[r].cur
              THEN {"rollback"} ELSE {}
-----------------------------------------------------------------------------
\* What a request does before it takes the mutex.

Call(r, p, j) == /\ At(r, "idle") /\ left > 0
                 /\ left' = left - 1
                 /\ Goto(r, p)
                 /\ job' = [job EXCEPT ![r] = j]
                 /\ UNCHANGED <<etcd, cluster, profileData, faults, doors, dropped>>

\* For a configuration that exists, Create returns at once and without an
\* error: the error it wraps is nil.
Create(r, v) == /\ config = NoConfig
                /\ Call(r, "get", [NoJob EXCEPT !.op = "Create", !.val = v, !.what = v,
                                                  !.act = "POST"])

Update(r, v) == /\ config # NoConfig
                /\ Call(r, "get", [NoJob EXCEPT !.op = "Update", !.val = v, !.what = v,
                                                  !.act = "PUT"])

Delete(r) == Call(r, "delete", [NoJob EXCEPT !.op = "Delete"])

Get(r) == Call(r, "get", [NoJob EXCEPT !.op = "Get"])

Tagit(r) == Call(r, "get", [NoJob EXCEPT !.op = "Tagit"])

Rollback(r) == \E idx \in 0 .. counter + 1 \cup ({tag} \ {NoTag}) :
                  Call(r, "get", [NoJob EXCEPT !.op = "Rollback", !.idx = idx])

DeleteAll(r) == Call(r, "check", [NoJob EXCEPT !.op = "Delete", !.whole = "DeleteAll"])

\* Cleanup begins with List, under the mutex.
Cleanup(r) == Call(r, "get", [NoJob EXCEPT !.op = "Get", !.whole = "Cleanup"])

\* DeleteAll looks at the current version; its three reads are one step.
DeleteAllChecks(r) ==
    /\ At(r, "check")
    /\ LET found == config # NoConfig /\ counter \in DOMAIN versions
           deleted == found /\ versions[counter].action = "DELETE"
       IN /\ Continue(r, IF ~found THEN Return(r) ELSE IF deleted THEN "purge" ELSE "delete")
          /\ doors' = IF deleted THEN doors \cup Overlap(r) ELSE doors
    /\ UNCHANGED <<etcd, cluster, profileData, bounds, dropped>>

\* Delete reads the configuration it will write back under the mutex.
DeleteReads(r) ==
    /\ At(r, "delete")
    /\ IF config = NoConfig
       THEN Continue(r, Return(r))
       ELSE /\ Goto(r, "get")
            /\ job' = [job EXCEPT ![r].val = config, ![r].what = config, ![r].act = "DELETE"]
    /\ UNCHANGED <<etcd, cluster, profileData, bounds, doors, dropped>>

\* removeProfileData holds the mutex of profileData while it sends STOP.
MapFree == \A q \in Requests : pc[q] # "stop"

\* A new goroutine has five seconds to start listening.
GetProfileData(r) ==
    /\ At(r, "get") /\ MapFree /\ (present \/ gen < MaxGens)
    /\ LET g == IF present THEN gen ELSE gen + 1
       IN /\ gen' = g /\ present' = TRUE
          /\ thread' = IF present THEN thread ELSE [thread EXCEPT ![g] = "listen"]
          /\ job' = [job EXCEPT ![r].gen = g]
    /\ Goto(r, "lock")
    /\ UNCHANGED <<etcd, cluster, holder, bounds, doors, dropped>>

Lock(r) ==
    /\ At(r, "lock") /\ holder[job[r].gen] = NoOne
    /\ holder' = [holder EXCEPT ![job[r].gen] = r]
    /\ doors' = doors \cup Overlap(r)
    /\ Goto(r, IF job[r].op \in {"Create", "Update"} THEN "send" ELSE "read")
    /\ UNCHANGED <<etcd, cluster, gen, present, thread, job, bounds, dropped>>
-----------------------------------------------------------------------------
\* Under the mutex: the reads.

ReadConfig(r) ==
    /\ At(r, "read") /\ job[r].op = "Get"
    /\ job' = [job EXCEPT ![r].val = config]
    /\ Goto(r, "unlock")
    /\ UNCHANGED <<etcd, cluster, profileData, bounds, doors, dropped>>

TagCurrentVersion(r) ==
    /\ At(r, "read") /\ job[r].op = "Tagit"
    /\ tag' = counter
    /\ Goto(r, "unlock")
    /\ UNCHANGED <<config, counter, versions, cluster, profileData, job, bounds, doors, dropped>>

\* Mutant: Delete does not look up what the current version applied.
ReadNoResources(r) ==
    /\ At(r, "read") /\ job[r].op = "Delete"
    /\ Goto(r, "send") /\ UNCHANGED job
    /\ UNCHANGED <<etcd, cluster, profileData, bounds, doors, dropped>>

ReadResources(r) ==
    /\ At(r, "read") /\ job[r].op = "Delete"
    /\ IF counter \in DOMAIN versions
       THEN /\ Goto(r, "send")
            /\ job' = [job EXCEPT ![r].res = versions[counter].res]
       ELSE Leave(r, "error")
    /\ UNCHANGED <<etcd, cluster, profileData, bounds, doors, dropped>>

\* The check of the index rejects nothing: with both conditions true, the
\* error it wraps is nil and there is nothing to roll back.
ReadCurrent(r) ==
    /\ At(r, "read") /\ job[r].op = "Rollback"
    /\ job' = [job EXCEPT ![r].cur = counter, ![r].i = counter]
    /\ Goto(r, "step")
    /\ UNCHANGED <<etcd, cluster, profileData, bounds, doors, dropped>>

\* The first loop of Rollback: version i is undone.
RollbackStep(r) ==
    LET i == job[r].i
        undo == versions[i]
        act == versions[i - 1].action
    IN /\ At(r, "step")
       /\ \/ /\ ~Above(i, job[r].idx)
             /\ job' = [job EXCEPT ![r].i = job[r].cur]
             /\ Goto(r, "drop") /\ UNCHANGED doors
          \/ /\ Above(i, job[r].idx) /\ ~({i, i - 1} \subseteq DOMAIN versions)
             /\ Leave(r, "error") /\ doors' = doors \cup Halfway(r)
          \/ /\ Above(i, job[r].idx) /\ {i, i - 1} \subseteq DOMAIN versions
             /\ job' = [job EXCEPT ![r].act = act, ![r].res = undo.res, ![r].prev = undo.prev,
                            ![r].what = IF act = "DELETE" THEN undo.new ELSE undo.prev]
             /\ Goto(r, "send") /\ UNCHANGED doors
       /\ UNCHANGED <<etcd, cluster, profileData, bounds, dropped>>
-----------------------------------------------------------------------------
\* applyConfig and scheduleResources.

\* The send does not wait for the goroutine, and the receive that follows
\* waits for its answer in any case.  The empty Config has no template.
Send(r) ==
    LET g == job[r].gen
    IN /\ At(r, "send")
       /\ IF job[r].what = NoConfig
          THEN /\ Leave(r, "error") /\ doors' = doors \cup Halfway(r)
               /\ UNCHANGED <<thread, dropped>>
          ELSE /\ Goto(r, "await") /\ UNCHANGED <<job, doors>>
               /\ thread' = IF thread[g] = "listen" THEN [thread EXCEPT ![g] = r] ELSE thread
               /\ dropped' = (dropped \/ thread[g] # "listen")
       /\ UNCHANGED <<etcd, cluster, gen, present, holder, bounds>>

\* POST creates the resources or else updates them, PUT only updates, DELETE
\* deletes the resources it is given.
Outcome(j) ==
    CASE j.act = "POST" -> [cluster |-> j.what, res |-> "some"]
      [] j.act = "PUT" -> IF cluster = NoConfig THEN [cluster |-> NoConfig, res |-> "none"]
                          ELSE [cluster |-> j.what, res |-> "some"]
      [] j.act = "DELETE" -> [cluster |-> IF j.res = "some" THEN NoConfig ELSE cluster,
                              res |-> "none"]

Answer(g) ==
    /\ thread[g] \in Requests
    /\ LET r == thread[g]
           out == Outcome(job[r])
       IN /\ cluster' = out.cluster
          /\ job' = [job EXCEPT ![r].res = out.res]
          /\ Goto(r, "store")
    /\ thread' = [thread EXCEPT ![g] = "back"]
    /\ UNCHANGED <<etcd, gen, present, holder, bounds, doors, dropped>>

Listen(g) ==
    /\ thread[g] = "back"
    /\ thread' = [thread EXCEPT ![g] = "listen"]
    /\ UNCHANGED <<etcd, cluster, gen, present, holder, pc, job, bounds, doors, dropped>>
-----------------------------------------------------------------------------
\* Under the mutex: the writes.

\* createConfig leaves an existing entry alone and returns no error.
CreateConfig(r) ==
    /\ At(r, "store") /\ job[r].op = "Create"
    /\ config' = IF config = NoConfig THEN job[r].val ELSE config
    /\ doors' = IF config = NoConfig THEN doors ELSE doors \cup {"creation"}
    /\ Goto(r, "incr")
    /\ UNCHANGED <<counter, versions, tag, cluster, profileData, job, bounds, dropped>>

\* Mutant: what is returned as the previous configuration is the new one.
UpdateConfigForgets(r) ==
    /\ At(r, "store") /\ job[r].op \in {"Update", "Delete"}
    /\ config' = job[r].val
    /\ job' = [job EXCEPT ![r].prev = job[r].val]
    /\ Goto(r, "incr")
    /\ UNCHANGED <<counter, versions, tag, cluster, profileData, bounds, doors, dropped>>

UpdateConfig(r) ==
    /\ At(r, "store") /\ job[r].op \in {"Update", "Delete"}
    /\ config' = job[r].val
    /\ job' = [job EXCEPT ![r].prev = config]
    /\ Goto(r, "incr")
    /\ UNCHANGED <<counter, versions, tag, cluster, profileData, bounds, doors, dropped>>

\* The empty Config would be stored under the empty name.
RestoreConfig(r) ==
    /\ At(r, "store") /\ job[r].op = "Rollback"
    /\ config' = IF job[r].prev = NoConfig THEN config ELSE job[r].prev
    /\ job' = [job EXCEPT ![r].i = @ - 1]
    /\ Goto(r, "step")
    /\ UNCHANGED <<counter, versions, tag, cluster, profileData, bounds, doors, dropped>>

\* Mutant: the version is numbered before it is counted.
ReadCounterEarly(r) ==
    /\ At(r, "incr")
    /\ job' = [job EXCEPT ![r].cur = counter]
    /\ Goto(r, "count")
    /\ UNCHANGED <<etcd, cluster, profileData, bounds, doors, dropped>>

\* incrementVersion reads the counter, and then writes it.
ReadCounter(r) ==
    /\ At(r, "incr")
    /\ job' = [job EXCEPT ![r].cur = counter + 1]
    /\ Goto(r, "count")
    /\ UNCHANGED <<etcd, cluster, profileData, bounds, doors, dropped>>

IncrementVersion(r) ==
    /\ At(r, "count")
    /\ counter' = job[r].cur
    /\ Goto(r, "record")
    /\ UNCHANGED <<config, versions, tag, cluster, profileData, job, bounds, doors, dropped>>

CreateConfigVersion(r) ==
    /\ At(r, "record")
    /\ LET j == job[r]
           version == [new |-> j.val, prev |-> j.prev, action |-> j.act, res |-> j.res]
       IN versions' = [n \in DOMAIN versions \cup {j.cur} |->
                           IF n = j.cur THEN version ELSE versions[n]]
    /\ Leave(r, "ok")
    /\ UNCHANGED <<config, counter, tag, cluster, profileData, bounds, doors, dropped>>

\* The second loop of Rollback: deleteConfigVersion, in its two writes.
DeleteConfigVersion(r) ==
    /\ At(r, "drop")
    /\ IF Above(job[r].i, job[r].idx)
       THEN /\ versions' = Restrict(versions, DOMAIN versions \ {counter})
            /\ Goto(r, "decr") /\ UNCHANGED job
       ELSE Leave(r, "ok") /\ UNCHANGED versions
    /\ UNCHANGED <<config, counter, tag, cluster, profileData, bounds, doors, dropped>>

DecrementVersion(r) ==
    /\ At(r, "decr")
    /\ counter' = counter - 1
    /\ job' = [job EXCEPT ![r].i = @ - 1]
    /\ Goto(r, "drop")
    /\ UNCHANGED <<config, versions, tag, cluster, profileData, bounds, doors, dropped>>

\* What a request does after its locked part.
AfterUnlock(r) ==
    CASE job[r].whole = "self" -> "idle"
      [] job[r].whole = "Cleanup" /\ job[r].op = "Get" ->
             IF job[r].end # "ok" THEN "idle"
             ELSE IF job[r].val = NoConfig THEN "remove" ELSE "check"
      [] OTHER -> IF job[r].end = "ok" THEN "purge" ELSE Return(r)

Unlock(r) ==
    /\ At(r, "unlock")
    /\ holder' = [holder EXCEPT ![job[r].gen] = NoOne]
    /\ Continue(r, AfterUnlock(r))
    /\ doors' = IF AfterUnlock(r) = "purge" THEN doors \cup Overlap(r) ELSE doors
    /\ UNCHANGED <<etcd, cluster, gen, present, thread, bounds, dropped>>
-----------------------------------------------------------------------------
\* The end of DeleteAll and of Cleanup, without the mutex.

\* Mutant: the counter goes before the versions.
PurgeCounterFirst(r) ==
    /\ At(r, "purge")
    /\ config' = NoConfig /\ counter' = 0
    /\ Continue(r, IF config = NoConfig THEN Return(r) ELSE "purgeVersions")
    /\ UNCHANGED <<versions, tag, cluster, profileData, bounds, doors, dropped>>

PurgeConfig(r) ==
    /\ At(r, "purge")
    /\ config' = NoConfig
    /\ Continue(r, IF config = NoConfig THEN Return(r) ELSE "purgeVersions")
    /\ UNCHANGED <<counter, versions, tag, cluster, profileData, bounds, doors, dropped>>

PurgeVersions(r) ==
    /\ At(r, "purgeVersions")
    /\ versions' = Restrict(versions, {})
    /\ Goto(r, "purgeCounter")
    /\ UNCHANGED <<config, counter, tag, cluster, profileData, job, bounds, doors, dropped>>

PurgeCounter(r) ==
    /\ At(r, "purgeCounter")
    /\ counter' = 0
    /\ Goto(r, "purgeTag")
    /\ UNCHANGED <<config, versions, tag, cluster, profileData, job, bounds, doors, dropped>>

PurgeTag(r) ==
    /\ At(r, "purgeTag")
    /\ tag' = NoTag
    /\ Continue(r, Return(r))
    /\ UNCHANGED <<config, counter, versions, cluster, profileData, bounds, doors, dropped>>

RemoveProfileData(r) ==
    /\ At(r, "remove") /\ MapFree
    /\ Continue(r, IF present THEN "stop" ELSE "idle")
    /\ UNCHANGED <<etcd, cluster, profileData, bounds, doors, dropped>>

\* Mutant: STOP does not wait for the goroutine to listen.
StopThreadAtOnce(r) ==
    /\ At(r, "stop")
    /\ thread' = [thread EXCEPT ![gen] = "stopped"]
    /\ present' = FALSE
    /\ Continue(r, "idle")
    /\ UNCHANGED <<etcd, cluster, gen, holder, bounds, doors, dropped>>

StopThread(r) ==
    /\ At(r, "stop") /\ thread[gen] = "listen"
    /\ thread' = [thread EXCEPT ![gen] = "stopped"]
    /\ present' = FALSE
    /\ Continue(r, "idle")
    /\ UNCHANGED <<etcd, cluster, gen, holder, bounds, doors, dropped>>
-----------------------------------------------------------------------------
\* Failures.

Fault(what) == /\ faults < MaxFaults
               /\ faults' = faults + 1
               /\ doors' = doors \cup what

\* A call of etcd, or the resolution of a template, fails under the mutex.
CallFails(r) ==
    /\ pc[r] \in Inside \ {"await", "unlock"}
    /\ Fault({"fault"})
    /\ Leave(r, "error")
    /\ UNCHANGED <<etcd, cluster, profileData, left, dropped>>

\* The failures of DeleteAll's deletions: the first ends it, the others are
\* only logged.
PurgeFails(r) ==
    /\ pc[r] \in Purging
    /\ Fault({"fault", "purge"})
    /\ Continue(r, CASE At(r, "purge") -> Return(r)
                     [] At(r, "purgeVersions") -> "purgeCounter"
                     [] At(r, "purgeCounter") -> "purgeTag"
                     [] At(r, "purgeTag") -> Return(r))
    /\ UNCHANGED <<etcd, cluster, profileData, left, dropped>>

\* The cluster refuses: the goroutine answers with no resources.
ClusterFails(g) ==
    /\ thread[g] \in Requests
    /\ Fault({"fault"})
    /\ job' = [job EXCEPT ![thread[g]].res = "none"]
    /\ Goto(thread[g], "store")
    /\ thread' = [thread EXCEPT ![g] = "back"]
    /\ UNCHANGED <<etcd, cluster, gen, present, holder, left, dropped>>

\* The k8splugin is killed: every request ends where it is.
Crash ==
    /\ Fault({"fault"})
    /\ pc' = [r \in Requests |-> "idle"] /\ job' = [r \in Requests |-> NoJob]
    /\ present' = FALSE
    /\ holder' = [g \in Gens |-> NoOne] /\ thread' = [g \in Gens |-> "stopped"]
    /\ UNCHANGED <<etcd, cluster, gen, left, dropped>>
-----------------------------------------------------------------------------
Init ==
    /\ config = NoConfig /\ counter = 0 /\ tag = NoTag
    /\ versions = [n \in {} |-> NoConfig]
    /\ cluster = NoConfig
    /\ gen = 0 /\ present = FALSE
    /\ holder = [g \in Gens |-> NoOne] /\ thread = [g \in Gens |-> "stopped"]
    /\ pc = [r \in Requests |-> "idle"] /\ job = [r \in Requests |-> NoJob]
    /\ left = MaxStarts /\ faults = 0 /\ doors = {} /\ dropped = FALSE

Begin(r) == \/ \E v \in Values : Create(r, v) \/ Update(r, v)
            \/ Delete(r) \/ Get(r) \/ Tagit(r) \/ Rollback(r) \/ DeleteAll(r) \/ Cleanup(r)

Step(r) ==
    \/ DeleteAllChecks(r) \/ DeleteReads(r) \/ GetProfileData(r) \/ Lock(r)
    \/ ReadConfig(r) \/ TagCurrentVersion(r) \/ ReadResources(r) \/ ReadCurrent(r)
    \/ RollbackStep(r) \/ Send(r)
    \/ CreateConfig(r) \/ UpdateConfig(r) \/ RestoreConfig(r)
    \/ ReadCounter(r) \/ IncrementVersion(r) \/ CreateConfigVersion(r)
    \/ DeleteConfigVersion(r) \/ DecrementVersion(r) \/ Unlock(r)
    \/ PurgeConfig(r) \/ PurgeVersions(r) \/ PurgeCounter(r) \/ PurgeTag(r)
    \/ RemoveProfileData(r) \/ StopThread(r)

Failure == \/ \E r \in Requests : CallFails(r) \/ PurgeFails(r)
           \/ \E g \in Gens : ClusterFails(g)
           \/ Crash

Next == \/ \E r \in Requests : Begin(r) \/ Step(r)
        \/ \E g \in Gens : Answer(g) \/ Listen(g)
        \/ Failure

Spec == Init /\ [][Next]_vars
-----------------------------------------------------------------------------
Version == [new : Values \cup {NoConfig}, prev : Values \cup {NoConfig},
            action : {"POST", "PUT", "DELETE"}, res : {"some", "none"}]

\* Types.  A request inside holds the mutex it asked for, and one that waits
\* for an answer is the one its goroutine works for, unless its list was
\* dropped (applyConfig's select, removeProfileData's STOP).
TypeOK ==
    /\ config \in Values \cup {NoConfig} /\ cluster \in Values \cup {NoConfig}
    /\ counter \in Int /\ tag \in Int
    /\ DOMAIN versions \subseteq Int /\ \A n \in DOMAIN versions : versions[n] \in Version
    /\ gen \in 0 .. MaxGens /\ present \in BOOLEAN
    /\ holder \in [Gens -> Requests \cup {NoOne}]
    /\ thread \in [Gens -> Requests \cup {"listen", "back", "stopped"}]
    /\ \A r \in Requests : pc[r] \in Inside => holder[job[r].gen] = r
    /\ \A r \in Requests : At(r, "await") => thread[job[r].gen] = r \/ dropped

\* No request is between two of its writes.
Quiet == \A r \in Requests : pc[r] \notin (Inside \ {"unlock"}) \cup Purging

\* The history is whole when no request is at work: the versions are those
\* from 1 to the counter, each begins where the one before it ended, and the
\* configuration is what the last one left.  Requests that interleave outside
\* the mutex, with what they read before it, do not break this; a failure, a
\* rollback that ends halfway, two creations of one configuration, and a
\* request that goes round the mutex do (doors).
History ==
    doors = {} /\ Quiet =>
        /\ DOMAIN versions = 1 .. counter
        /\ config = IF counter = 0 THEN NoConfig ELSE versions[counter].new
        /\ \A n \in 1 .. counter :
               versions[n].prev = IF n = 1 THEN NoConfig ELSE versions[n - 1].new

\* Failures and crashes included, at every moment: no version is stored under
\* a number that is not counted, so that the next one cannot meet it
\* (createConfigVersion, deleteConfigVersion and cleanupIstanceTags order
\* their writes for it).
Counted ==
    doors \cap {"purge", "overlap"} = {} =>
        \A n \in DOMAIN versions : n \in 1 .. counter

\* Failures and crashes included: what a version number stands for never
\* changes while the version exists (createConfigVersion).
Unchanged ==
    [][doors' \cap {"purge", "overlap"} = {} =>
         \A n \in DOMAIN versions \cap DOMAIN versions' : versions'[n] = versions[n]]_versions

\* When no request is at work the cluster has the configuration as etcd has
\* it or none of its resources, and none when the current version recorded
\* none: nothing is left in the cluster that no Delete would find
\* (scheduleResources, Delete, Rollback, DeleteAll).
ClusterTruth ==
    doors = {} /\ Quiet =>
        /\ cluster \in {NoConfig, config}
        /\ counter > 0 /\ versions[counter].res = "none" => cluster = NoConfig
=============================================================================
