------------------------------- MODULE Rsync -------------------------------
(***************************************************************************)
(* The resource synchroniser of EMCO (rsync), for one AppContext: the gRPC *)
(* handlers InstallApp and UninstallApp start a run of applyFnComApp each, *)
(* in a goroutine nobody waits for.  A run has a main goroutine, one       *)
(* worker per (app, cluster) of the context, a retry watcher that passes   *)
(* the stop flag on to the workers over channels, and one goroutine per    *)
(* reachability check.  The runs share the AppContext (in etcd), the       *)
(* clusters, and the directory of kubeconfig files.                        *)
(*                                                                         *)
(* One action is one step between two points where another goroutine can   *)
(* interfere: an etcd access, a call to a cluster, a lock, a channel.      *)
(***************************************************************************)
EXTENDS Naturals, Sequences, FiniteSets

CONSTANTS
    Inst,        \* the run InstallApp starts
    Terms,       \* the runs UninstallApp can start
    Units,       \* the (app, cluster) pairs of the context
    Clusters,    \* the clusters
    ClusterOf,   \* the cluster of a unit
    NRes,        \* the number of resources in the "resorder" of a unit
    Approval,    \* the resources with a "subresource/approval"
    Malformed,   \* the resources whose value is not valid YAML
    UninstallWhen, \* where the install run can be when UninstallApp is called
    MaxChecks,   \* reachability checks in flight in one waitForClusterReady
    MaxFlips,    \* how often clusters become reachable or unreachable
    MaxDbErrs,   \* how many database accesses fail
    MaxCrashes   \* how often the rsync process is killed and restarted

Runs == {Inst} \cup Terms
Res == 1 .. NRes

MainPC == {"idle", "waitForDone", "clearFlag", "initStatus", "initRes",
           "kickoff", "gWait", "wgWait", "cleanup", "returned", "dead"}

ASSUME RsyncAssumption ==
    /\ Inst \notin Terms
    /\ ClusterOf \in [Units -> Clusters]
    /\ NRes \in Nat \ {0}
    /\ Approval \subseteq Res
    /\ Malformed \subseteq Res
    /\ UninstallWhen \subseteq MainPC \ {"idle"}
    /\ MaxChecks \in Nat \ {0}
    /\ MaxFlips \in Nat
    /\ MaxDbErrs \in Nat
    /\ MaxCrashes \in Nat

VARIABLES
    \* the AppContext, in etcd
    acStatus,    \* the value of the "status" level of the composite app
    stopflag,    \* its "stopflag" level (no run reads it before it exists)
    resStatus,   \* the "status" level of each resource of each unit
    \* the clusters
    reachable,   \* which clusters answer
    installed,   \* the resources of each unit that exist in its cluster
    approved,    \* the resources whose approval reached the cluster
    tracker,     \* the units whose ResourceBundleState CR exists
    \* the rsync process
    kubeconfig,  \* the clusters with a file under /tmp/rsync/<cid>
    main,        \* where the main goroutine of a run is
    todo,        \* units initializeResourceStatus has still to handle
    clients,     \* the clusters in the run's Connector.Clients
    watch,       \* where the retry watcher of a run is
    snap,        \* the status the watcher read last
    cur,         \* the index in chans the watcher is sending to
    chans,       \* CompositeAppContext.chans, each channel named by its unit
    worker,      \* where a worker is
    idx,         \* the resource a worker is handling
    retried,     \* resStateUpdated of waitForClusterReady
    rch,         \* the buffered channel of reachability results
    checks,      \* checkReachable goroutines that have not answered yet
    failed,      \* the run's errgroup has recorded an error
    \* bounds
    flips, dbErrs, crashes

etcdVars == <<acStatus, stopflag, resStatus>>
clusterVars == <<reachable, installed, approved, tracker>>
mainVars == <<main, todo>>
watchVars == <<watch, snap, cur>>
waitVars == <<retried, rch, checks>>
connVars == <<kubeconfig, clients>>
workVars == <<worker, idx, failed>>
boundVars == <<flips, crashes>>
vars == <<etcdVars, clusterVars, connVars, mainVars, watchVars, chans,
          workVars, waitVars, boundVars, dbErrs>>

-----------------------------------------------------------------------------
(* Values.                                                                 *)

None == "none"

AppContextStatusValue ==
    {"Instantiating", "Instantiated", "InstantiateFailed",
     "Terminating", "Terminated", "TerminateFailed"}

RsyncStatus == {"Pending", "Applied", "Failed", "Retrying", "Deleted"}

\* The statuses allResourcesDone and updateResourceStatus call 'done'.
DoneStatus == {"Applied", "Failed", "Deleted"}

\* The acStatus argument a run of applyFnComApp is started with.
Kind(r) == IF r = Inst THEN "Instantiating" ELSE "Terminating"

\* The statuses that make waitForDone return and the install watcher stop.
InstDone == {"Instantiated", "InstantiateFailed"}
TermDone == {"Terminated", "TerminateFailed"}

WatchPC == {"off", "poll", "flag", "send", "exit"}
WorkerPC == {"off", "getClient", "allDone", "addChan", "select", "stopped",
             "ready", "giveUp", "f", "ok", "bad", "approve", "isReachable",
             "sfn", "exit"}

\* Workers whose channel is registered: inside waitForClusterReady.
Waiting == {"select", "stopped", "ready", "giveUp"}

\* Workers of the errgroup that have been started and have not returned.
Running(r, u) == worker[r][u] \notin {"off", "exit"}

-----------------------------------------------------------------------------
(* The environment.                                                        *)

\* An access to etcd (or to mongo, for the kubeconfig) works or fails, the
\* latter MaxDbErrs times.
DbOk == UNCHANGED dbErrs
DbFails == dbErrs < MaxDbErrs /\ dbErrs' = dbErrs + 1

\* A call of a Kubernetes client for the cluster of u can get through: the
\* client reads its kubeconfig file again on every call.
Up(u) == ClusterOf[u] \in kubeconfig /\ reachable[ClusterOf[u]]

\* A cluster becomes reachable or unreachable.
Flip(c) ==
    /\ flips < MaxFlips
    /\ flips' = flips + 1
    /\ reachable' = [reachable EXCEPT ![c] = ~@]
    /\ UNCHANGED <<etcdVars, installed, approved, tracker, connVars, mainVars,
                   watchVars, chans, workVars, waitVars, crashes, dbErrs>>

\* Everything rsync keeps in memory and in its container is gone; etcd and
\* the clusters stay.  Nothing resumes the runs when rsync starts again.
ProcessDies ==
    /\ main' = [r \in Runs |-> IF main[r] = "idle" THEN "idle" ELSE "dead"]
    /\ todo' = [r \in Runs |-> {}]
    /\ kubeconfig' = {}
    /\ clients' = [r \in Runs |-> {}]
    /\ watch' = [r \in Runs |-> "off"]
    /\ snap' = [r \in Runs |-> None]
    /\ cur' = [r \in Runs |-> 1]
    /\ chans' = [r \in Runs |-> <<>>]
    /\ worker' = [r \in Runs |-> [u \in Units |-> "off"]]
    /\ idx' = [r \in Runs |-> [u \in Units |-> 1]]
    /\ failed' = [r \in Runs |-> FALSE]
    /\ retried' = [r \in Runs |-> [u \in Units |-> FALSE]]
    /\ rch' = [r \in Runs |-> [u \in Units |-> None]]
    /\ checks' = [r \in Runs |-> [u \in Units |-> 0]]
    /\ UNCHANGED <<etcdVars, clusterVars, flips, dbErrs>>

Crash ==
    /\ crashes < MaxCrashes
    /\ crashes' = crashes + 1
    /\ ProcessDies

-----------------------------------------------------------------------------
(* The gRPC handlers.                                                      *)

\* InstallApp: InstantiateComApp clears the stop flag and starts a run.  When
\* the flag cannot be written, TerminateComApp is called instead; when it
\* cannot write the flag either (the same outage), nothing starts.
InstallApp ==
    /\ main[Inst] = "idle"
    /\ \/ /\ DbOk
          /\ stopflag' = FALSE
          /\ main' = [main EXCEPT ![Inst] = "initStatus"]
       \/ /\ DbFails
          /\ \/ /\ main' = [main EXCEPT ![Inst] = "returned"]
                /\ UNCHANGED stopflag
             \/ \E t \in Terms :
                  /\ main[t] = "idle"
                  /\ main' = [main EXCEPT ![Inst] = "returned",
                                          ![t] = "waitForDone"]
                  /\ stopflag' = TRUE
    /\ UNCHANGED <<acStatus, resStatus, clusterVars, connVars, todo, watchVars,
                   chans, workVars, waitVars, boundVars>>

\* UninstallApp: TerminateComApp raises the stop flag and starts a run.
UninstallApp(t) ==
    /\ main[t] = "idle"
    /\ main[Inst] \in UninstallWhen
    /\ \/ /\ DbOk
          /\ stopflag' = TRUE
          /\ main' = [main EXCEPT ![t] = "waitForDone"]
       \/ /\ DbFails
          /\ main' = [main EXCEPT ![t] = "returned"]
          /\ UNCHANGED stopflag
    /\ UNCHANGED <<acStatus, resStatus, clusterVars, connVars, todo, watchVars,
                   chans, workVars, waitVars, boundVars>>

-----------------------------------------------------------------------------
(* The main goroutine of a run: applyFnComApp.                             *)

MainStep(r, from, to) ==
    /\ main[r] = from
    /\ main' = [main EXCEPT ![r] = to]

\* Mutant: any status ends the wait.
WaitForAnyStatus == acStatus \in AppContextStatusValue

\* The statuses waitForDone takes for the end of the install run.  A status
\* level that does not exist yet is an error, and an error ends the wait too.
WaitIsOver == acStatus = None \/ acStatus \in InstDone

\* waitForDone of a terminate run, when it returns.
WaitForDone(t) ==
    /\ MainStep(t, "waitForDone", "clearFlag")
    /\ \/ DbOk /\ WaitIsOver
       \/ DbFails
    /\ UNCHANGED <<etcdVars, clusterVars, connVars, todo, watchVars, chans,
                   workVars, waitVars, boundVars>>

\* updateAppContextFlag(cid, false), after the wait.
ClearFlag(t) ==
    /\ \/ DbOk /\ MainStep(t, "clearFlag", "initStatus") /\ stopflag' = FALSE
       \/ DbFails /\ MainStep(t, "clearFlag", "cleanup") /\ UNCHANGED stopflag
    /\ UNCHANGED <<acStatus, resStatus, clusterVars, connVars, todo, watchVars,
                   chans, workVars, waitVars, boundVars>>

\* initializeAppContextStatus.
InitStatus(r) ==
    /\ \/ /\ DbOk
          /\ MainStep(r, "initStatus", "initRes")
          /\ acStatus' = Kind(r)
          /\ todo' = [todo EXCEPT ![r] = Units]
       \/ /\ DbFails
          /\ MainStep(r, "initStatus", "cleanup")
          /\ UNCHANGED <<acStatus, todo>>
    /\ UNCHANGED <<stopflag, resStatus, clusterVars, connVars, watchVars, chans,
                   workVars, waitVars, boundVars>>

\* Mutant: a terminate run leaves the statuses it finds.
StatusKept(r, s) == IF r = Inst THEN "Pending" ELSE s

\* initializeResourceStatus, one resource: the status it gets.
InitialStatus(r, s) ==
    IF r = Inst \/ s = "Applied" THEN "Pending" ELSE "Deleted"

\* initializeResourceStatus, the resources of one unit.
InitRes(r, u) ==
    /\ main[r] = "initRes"
    /\ u \in todo[r]
    /\ \/ /\ DbOk
          /\ resStatus' = [resStatus EXCEPT ![u] =
                              [i \in Res |-> InitialStatus(r, @[i])]]
          /\ todo' = [todo EXCEPT ![r] = @ \ {u}]
          /\ main' = [main EXCEPT ![r] = IF todo[r] = {u} THEN "kickoff" ELSE @]
       \/ /\ DbFails
          /\ MainStep(r, "initRes", "cleanup")
          /\ UNCHANGED <<resStatus, todo>>
    /\ UNCHANGED <<acStatus, stopflag, clusterVars, connVars, watchVars, chans,
                   workVars, waitVars, boundVars>>

\* The order of the apps is read, then the watcher and a worker per unit start.
Kickoff(r) ==
    /\ \/ /\ DbOk
          /\ MainStep(r, "kickoff", "gWait")
          /\ watch' = [watch EXCEPT ![r] = "poll"]
          /\ worker' = [worker EXCEPT ![r] = [u \in Units |-> "getClient"]]
       \/ /\ DbFails
          /\ MainStep(r, "kickoff", "cleanup")
          /\ UNCHANGED <<watch, worker>>
    /\ UNCHANGED <<etcdVars, clusterVars, connVars, todo, snap, cur, chans, idx,
                   failed, waitVars, boundVars>>

\* Mutant: g.Wait returns with the first worker.
FirstWorkerGone(r) == \E u \in Units : ~ Running(r, u)

WorkersGone(r) == \A u \in Units : ~ Running(r, u)

\* The status updateEndingAppContextStatus derives from the one it reads,
\* which need not be the one this run wrote.
EndingStatus(s, failure) ==
    IF s = "Instantiating"
      THEN IF failure THEN "InstantiateFailed" ELSE "Instantiated"
      ELSE IF failure THEN "TerminateFailed" ELSE "Terminated"

\* g.Wait() and updateEndingAppContextStatus.  Only a run without an error
\* goes on to wait for its watcher.
GWait(r) ==
    /\ main[r] = "gWait"
    /\ WorkersGone(r)
    /\ \/ /\ DbOk
          /\ acStatus \in {"Instantiating", "Terminating"}
          /\ acStatus' = EndingStatus(acStatus, failed[r])
          /\ main' = [main EXCEPT ![r] = IF failed[r] THEN "cleanup" ELSE "wgWait"]
       \/ /\ DbOk
          /\ acStatus \notin {"Instantiating", "Terminating"}
          /\ main' = [main EXCEPT ![r] = "cleanup"]
          /\ UNCHANGED acStatus
       \/ /\ DbFails
          /\ main' = [main EXCEPT ![r] = "cleanup"]
          /\ UNCHANGED acStatus
    /\ UNCHANGED <<stopflag, resStatus, clusterVars, connVars, todo, watchVars,
                   chans, workVars, waitVars, boundVars>>

\* wg.Wait().
WgWait(r) ==
    /\ MainStep(r, "wgWait", "cleanup")
    /\ watch[r] = "exit"
    /\ UNCHANGED <<etcdVars, clusterVars, connVars, todo, watchVars, chans,
                   workVars, waitVars, boundVars, dbErrs>>

\* The deferred RemoveClient deletes the directory of the AppContext, which
\* every run of that AppContext uses.
Cleanup(r) ==
    /\ MainStep(r, "cleanup", "returned")
    /\ kubeconfig' = {}
    /\ UNCHANGED <<etcdVars, clusterVars, clients, todo, watchVars, chans,
                   workVars, waitVars, boundVars, dbErrs>>

-----------------------------------------------------------------------------
(* The retry watcher: kickoffRetryWatcher.                                 *)

\* Mutant: every watcher looks for the end of an instantiation.
WatchEndInst(r) == InstDone

\* The statuses that end the watcher of a run.
WatchEnd(r) == IF r = Inst THEN InstDone ELSE TermDone

\* getAppContextStatus, after a second of sleep.
WatcherPoll(r) ==
    /\ watch[r] = "poll"
    /\ \/ /\ DbOk
          /\ watch' = [watch EXCEPT ![r] = "flag"]
          /\ snap' = [snap EXCEPT ![r] = acStatus]
       \/ /\ DbFails
          /\ watch' = [watch EXCEPT ![r] = "exit"]
          /\ UNCHANGED snap
    /\ UNCHANGED <<etcdVars, clusterVars, connVars, mainVars, cur, chans,
                   workVars, waitVars, boundVars>>

\* getAppContextFlag.  A raised flag makes the watcher take the mutex and keep
\* it until every channel it finds in chans has taken a message; otherwise the
\* status it read before the flag tells it whether to go on.
WatcherFlag(r) ==
    /\ watch[r] = "flag"
    /\ snap' = [snap EXCEPT ![r] = None]
    /\ \/ /\ DbOk
          /\ watch' = [watch EXCEPT ![r] =
                          IF stopflag THEN "send"
                          ELSE IF snap[r] \in WatchEnd(r) THEN "exit" ELSE "poll"]
       \/ /\ DbFails
          /\ watch' = [watch EXCEPT ![r] = "exit"]
    /\ UNCHANGED <<etcdVars, clusterVars, connVars, mainVars, cur, chans,
                   workVars, waitVars, boundVars>>

\* chans[i] <- true: the channel is unbuffered, so the worker must be in its
\* select.
WatcherSend(r, u) ==
    /\ watch[r] = "send"
    /\ cur[r] <= Len(chans[r])
    /\ chans[r][cur[r]] = u
    /\ worker[r][u] = "select"
    /\ cur' = [cur EXCEPT ![r] = @ + 1]
    /\ worker' = [worker EXCEPT ![r][u] = "stopped"]
    /\ UNCHANGED <<etcdVars, clusterVars, connVars, mainVars, watch, snap, chans,
                   idx, failed, waitVars, boundVars, dbErrs>>

\* Every channel has its message: the watcher unlocks and returns.
WatcherUnlock(r) ==
    /\ watch[r] = "send"
    /\ cur[r] > Len(chans[r])
    /\ watch' = [watch EXCEPT ![r] = "exit"]
    /\ cur' = [cur EXCEPT ![r] = 1]
    /\ UNCHANGED <<etcdVars, clusterVars, connVars, mainVars, snap, chans,
                   workVars, waitVars, boundVars, dbErrs>>

\* instca.mutex: nobody but the watcher keeps it over more than one step.
MutexFree(r) == watch[r] # "send"

-----------------------------------------------------------------------------
(* A worker: the goroutine of one app on one cluster.                      *)

WorkerStep(r, u, from, to) ==
    /\ worker[r][u] = from
    /\ worker' = [worker EXCEPT ![r][u] = to]

Fail(r) == failed' = [failed EXCEPT ![r] = TRUE]

\* con.GetClient, which writes the kubeconfig file unless this run has a
\* client for the cluster already, and GetResourceInstruction.
GetClient(r, u) ==
    LET c == ClusterOf[u]
        Connected == /\ clients' = [clients EXCEPT ![r] = @ \cup {c}]
                     /\ kubeconfig' = IF c \in clients[r] THEN kubeconfig
                                      ELSE kubeconfig \cup {c}
    IN
    /\ \/ /\ DbOk
          /\ WorkerStep(r, u, "getClient", "allDone")
          /\ Connected
          /\ UNCHANGED failed
       \/ /\ DbFails
          /\ WorkerStep(r, u, "getClient", "exit")
          /\ Connected \/ UNCHANGED connVars
          /\ Fail(r)
    /\ UNCHANGED <<etcdVars, clusterVars, mainVars, watchVars, chans, idx,
                   waitVars, boundVars>>

\* allResourcesDone: a worker whose resources are all done returns without an
\* error.  A database error counts as not done.
AllResourcesDone(u) == \A i \in Res : resStatus[u][i] \in DoneStatus

AllDone(r, u) ==
    /\ \/ DbOk /\ ~ AllResourcesDone(u) /\ WorkerStep(r, u, "allDone", "addChan")
       \/ DbOk /\ AllResourcesDone(u) /\ WorkerStep(r, u, "allDone", "exit")
       \/ DbFails /\ WorkerStep(r, u, "allDone", "addChan")
    /\ UNCHANGED <<etcdVars, clusterVars, connVars, mainVars, watchVars, chans,
                   idx, failed, waitVars, boundVars>>

\* waitForClusterReady: addChan and the first reachability check.
AddChan(r, u) ==
    /\ MutexFree(r)
    /\ WorkerStep(r, u, "addChan", "select")
    /\ chans' = [chans EXCEPT ![r] = Append(@, u)]
    /\ checks' = [checks EXCEPT ![r][u] = 1]
    /\ UNCHANGED <<etcdVars, clusterVars, connVars, mainVars, watchVars, idx,
                   failed, retried, rch, boundVars, dbErrs>>

\* checkReachable: the result waits in the buffer of rch; a second one blocks.
\* Without its kubeconfig file IsReachable dereferences a nil client.
CheckReachable(r, u) ==
    /\ worker[r][u] = "select"
    /\ checks[r][u] > 0
    /\ rch[r][u] = None
    /\ ClusterOf[u] \in kubeconfig
    /\ checks' = [checks EXCEPT ![r][u] = @ - 1]
    /\ rch' = [rch EXCEPT ![r][u] = IF Up(u) THEN "ok" ELSE "err"]
    /\ UNCHANGED <<etcdVars, clusterVars, connVars, mainVars, watchVars, chans,
                   workVars, retried, boundVars, dbErrs>>

\* The select receives a result.
SelectReach(r, u) ==
    /\ rch[r][u] # None
    /\ WorkerStep(r, u, "select", IF rch[r][u] = "ok" THEN "ready" ELSE "select")
    /\ rch' = [rch EXCEPT ![r][u] = None]
    /\ UNCHANGED <<etcdVars, clusterVars, connVars, mainVars, watchVars, chans,
                   idx, failed, retried, checks, boundVars, dbErrs>>

\* updateResourceStatus over the first n resources of the order.
Update(u, s, n) ==
    resStatus' = [resStatus EXCEPT ![u] =
        [i \in Res |-> IF i <= n /\ @[i] \notin DoneStatus THEN s ELSE @[i]]]

\* Mutant: only the first timeout starts a check.
SelectTimeoutOnce(r, u) ==
    /\ checks[r][u] < MaxChecks
    /\ DbOk
    /\ WorkerStep(r, u, "select", "select")
    /\ retried' = [retried EXCEPT ![r][u] = TRUE]
    /\ IF retried[r][u]
         THEN UNCHANGED <<checks, resStatus>>
         ELSE checks' = [checks EXCEPT ![r][u] = @ + 1] /\ Update(u, "Retrying", NRes)
    /\ UNCHANGED <<acStatus, stopflag, clusterVars, connVars, mainVars,
                   watchVars, chans, idx, failed, rch, boundVars>>

\* The select times out: the first time the resources become Retrying; a check
\* is started every time.
SelectTimeout(r, u) ==
    /\ checks[r][u] < MaxChecks
    /\ \/ /\ DbOk
          /\ WorkerStep(r, u, "select", "select")
          /\ retried' = [retried EXCEPT ![r][u] = TRUE]
          /\ checks' = [checks EXCEPT ![r][u] = @ + 1]
          /\ IF retried[r][u] THEN UNCHANGED resStatus ELSE Update(u, "Retrying", NRes)
       \/ /\ DbFails
          /\ ~ retried[r][u]
          /\ WorkerStep(r, u, "select", "giveUp")
          /\ \E n \in Res : Update(u, "Retrying", n - 1)
          /\ UNCHANGED <<retried, checks>>
    /\ UNCHANGED <<acStatus, stopflag, clusterVars, connVars, mainVars,
                   watchVars, chans, idx, failed, rch, boundVars>>

\* The select has received the stop message: the resources become Failed.
Stopped(r, u) ==
    /\ WorkerStep(r, u, "stopped", "giveUp")
    /\ \/ DbOk /\ Update(u, "Failed", NRes)
       \/ DbFails /\ \E n \in Res : Update(u, "Failed", n - 1)
    /\ UNCHANGED <<acStatus, stopflag, clusterVars, connVars, mainVars,
                   watchVars, chans, idx, failed, waitVars, boundVars>>

\* Mutant: the list is cut without the swap.
WithoutLastChan(s, u) == SubSeq(s, 1, Len(s) - 1)

\* deleteChan moves the last channel to the place of the deleted one.
WithoutChan(s, u) ==
    LET n == Len(s)
        k == CHOOSE j \in 1 .. n : s[j] = u
    IN [j \in 1 .. n - 1 |-> IF j = k THEN s[n] ELSE s[j]]

\* waitForClusterReady returns: with an error, or into the loop over the
\* resources.  Checks still in flight answer into a channel nobody reads.
DeleteChan(r, u) ==
    /\ MutexFree(r)
    /\ \/ /\ WorkerStep(r, u, "ready", "f")
          /\ UNCHANGED failed
       \/ /\ WorkerStep(r, u, "giveUp", "exit")
          /\ Fail(r)
    /\ chans' = [chans EXCEPT ![r] = WithoutChan(@, u)]
    /\ idx' = [idx EXCEPT ![r][u] = 1]
    /\ retried' = [retried EXCEPT ![r][u] = FALSE]
    /\ rch' = [rch EXCEPT ![r][u] = None]
    /\ checks' = [checks EXCEPT ![r][u] = 0]
    /\ UNCHANGED <<etcdVars, clusterVars, connVars, mainVars, watchVars,
                   boundVars, dbErrs>>

-----------------------------------------------------------------------------
(* A worker: the loop over the resources, in order.                        *)

\* Mutant: the loop ends one resource late.
ToNextResLate(r, u, from) ==
    /\ WorkerStep(r, u, from, IF idx[r][u] <= NRes THEN "f" ELSE "sfn")
    /\ idx' = [idx EXCEPT ![r][u] = @ + 1]

\* The next resource, or the status tracker after the last one.
ToNextRes(r, u, from) ==
    /\ WorkerStep(r, u, from, IF idx[r][u] < NRes THEN "f" ELSE "sfn")
    /\ idx' = [idx EXCEPT ![r][u] = IF @ < NRes THEN @ + 1 ELSE @]

\* The part of f before its status write: getRes, the decoding, and Apply or
\* Delete, of which only the error may get back.
CallCluster(r, u, effect) ==
    /\ \/ \* the object reached the API server, and so did its answer
          /\ DbOk
          /\ Up(u)
          /\ r = Inst => idx[r][u] \notin Malformed
          /\ r # Inst => idx[r][u] \in installed[u]
          /\ WorkerStep(r, u, "f", "ok")
          /\ installed' = [installed EXCEPT ![u] = effect]
       \/ \* Apply or Delete returns an error
          /\ DbOk
          /\ r = Inst => idx[r][u] \notin Malformed
          /\ WorkerStep(r, u, "f", "bad")
          /\ \/ UNCHANGED installed
             \/ Up(u) /\ installed' = [installed EXCEPT ![u] = effect]
       \/ \* DecodeYAMLData fails: instantiateResource writes no status
          /\ DbOk
          /\ r = Inst /\ idx[r][u] \in Malformed
          /\ WorkerStep(r, u, "f", "isReachable")
          /\ UNCHANGED installed
       \/ \* getRes fails, with or without the handle of the status
          /\ DbFails
          /\ \/ WorkerStep(r, u, "f", "bad")
             \/ WorkerStep(r, u, "f", "isReachable")
          /\ UNCHANGED installed
    /\ UNCHANGED <<etcdVars, reachable, approved, tracker, connVars, mainVars,
                   watchVars, chans, idx, failed, waitVars, boundVars>>

InstantiateResource(u) ==
    CallCluster(Inst, u, installed[u] \cup {idx[Inst][u]})

TerminateResource(t, u) ==
    CallCluster(t, u, installed[u] \ {idx[t][u]})

\* UpdateStatusValue: its error is ignored.
WriteStatus(r, u, s) ==
    \/ DbOk /\ resStatus' = [resStatus EXCEPT ![u][idx[r][u]] = s]
    \/ DbFails /\ UNCHANGED resStatus

\* The status after a call that worked, which in instantiateResource the
\* approval of the resource follows.
StatusOk(r, u) ==
    /\ IF r = Inst /\ idx[r][u] \in Approval
         THEN WorkerStep(r, u, "ok", "approve") /\ UNCHANGED idx
         ELSE ToNextRes(r, u, "ok")
    /\ WriteStatus(r, u, IF r = Inst THEN "Applied" ELSE "Deleted")
    /\ UNCHANGED <<acStatus, stopflag, clusterVars, connVars, mainVars,
                   watchVars, chans, failed, waitVars, boundVars>>

\* Mutant: a failed delete counts.
StatusBadDeleted(r, u) ==
    /\ WorkerStep(r, u, "bad", "isReachable")
    /\ WriteStatus(r, u, IF r = Inst THEN "Failed" ELSE "Deleted")
    /\ UNCHANGED <<acStatus, stopflag, clusterVars, connVars, mainVars,
                   watchVars, chans, idx, failed, waitVars, boundVars>>

StatusBad(r, u) ==
    /\ WorkerStep(r, u, "bad", "isReachable")
    /\ WriteStatus(r, u, "Failed")
    /\ UNCHANGED <<acStatus, stopflag, clusterVars, connVars, mainVars,
                   watchVars, chans, idx, failed, waitVars, boundVars>>

\* getSubResApprove and Approve, which uses the clientset made by GetClient and
\* needs no file.  A database error there reads as "no approval asked for".
Approve(u) ==
    /\ \/ /\ DbOk
          /\ reachable[ClusterOf[u]]
          /\ approved' = [approved EXCEPT ![u] = @ \cup {idx[Inst][u]}]
          /\ ToNextRes(Inst, u, "approve")
       \/ /\ DbOk
          /\ WorkerStep(Inst, u, "approve", "isReachable")
          /\ UNCHANGED <<approved, idx>>
       \/ /\ DbFails
          /\ ToNextRes(Inst, u, "approve")
          /\ UNCHANGED approved
    /\ UNCHANGED <<etcdVars, reachable, installed, tracker, connVars, mainVars,
                   watchVars, chans, failed, waitVars, boundVars>>

\* Mutants: an install worker goes on after an error; it writes the tracker
\* after an error on the first resource too.
AfterErrorGoesOn(r, u) ==
    /\ ClusterOf[u] \in kubeconfig
    /\ IF Up(u) THEN ToNextRes(r, u, "isReachable")
       ELSE WorkerStep(r, u, "isReachable", "allDone") /\ UNCHANGED idx
    /\ UNCHANGED <<etcdVars, clusterVars, connVars, mainVars, watchVars, chans,
                   failed, waitVars, boundVars, dbErrs>>

AfterErrorTracks(r, u) ==
    /\ ClusterOf[u] \in kubeconfig
    /\ WorkerStep(r, u, "isReachable", IF Up(u) THEN "sfn" ELSE "allDone")
    /\ UNCHANGED <<etcdVars, clusterVars, connVars, mainVars, watchVars, chans,
                   idx, failed, waitVars, boundVars, dbErrs>>

\* After an error of f: an unreachable cluster sends the worker back to
\* allResourcesDone.  A reachable one has replaced the error by nil: the
\* install worker writes the tracker if it handled a resource before and
\* returns nil, the terminate worker goes on with the next resource.
AfterError(r, u) ==
    /\ ClusterOf[u] \in kubeconfig
    /\ IF ~ Up(u)
         THEN WorkerStep(r, u, "isReachable", "allDone") /\ UNCHANGED idx
       ELSE IF r # Inst
         THEN ToNextRes(r, u, "isReachable")
         ELSE /\ WorkerStep(r, u, "isReachable",
                            IF idx[r][u] > 1 THEN "sfn" ELSE "exit")
              /\ UNCHANGED idx
    /\ UNCHANGED <<etcdVars, clusterVars, connVars, mainVars, watchVars, chans,
                   failed, waitVars, boundVars, dbErrs>>

\* The status function, addStatusTracker or deleteStatusTracker, whose error is
\* only logged; then the worker returns nil.
StatusTracker(r, u) ==
    /\ WorkerStep(r, u, "sfn", "exit")
    /\ \/ UNCHANGED tracker
       \/ Up(u) /\ tracker' = IF r = Inst THEN tracker \cup {u} ELSE tracker \ {u}
    /\ UNCHANGED <<etcdVars, reachable, installed, approved, connVars, mainVars,
                   watchVars, chans, idx, failed, waitVars, boundVars, dbErrs>>

\* IsReachable without the kubeconfig file: a nil pointer, in a goroutine
\* nothing recovers, takes the process down with all its runs.
Panic(r, u) ==
    /\ ClusterOf[u] \notin kubeconfig
    /\ \/ worker[r][u] = "isReachable"
       \/ worker[r][u] = "select" /\ checks[r][u] > 0
    /\ UNCHANGED crashes
    /\ ProcessDies

-----------------------------------------------------------------------------

MainNext(r) ==
    \/ InitStatus(r) \/ Kickoff(r) \/ GWait(r) \/ WgWait(r) \/ Cleanup(r)
    \/ \E u \in Units : InitRes(r, u)

WatcherNext(r) ==
    \/ WatcherPoll(r) \/ WatcherFlag(r) \/ WatcherUnlock(r)
    \/ \E u \in Units : WatcherSend(r, u)

WorkerNext(r, u) ==
    \/ GetClient(r, u) \/ AllDone(r, u) \/ AddChan(r, u)
    \/ SelectReach(r, u) \/ SelectTimeout(r, u) \/ Stopped(r, u)
    \/ DeleteChan(r, u)
    \/ StatusOk(r, u) \/ StatusBad(r, u)
    \/ AfterError(r, u) \/ StatusTracker(r, u)
    \/ r = Inst /\ (InstantiateResource(u) \/ Approve(u))
    \/ r # Inst /\ TerminateResource(r, u)
    \/ Panic(r, u)

Next ==
    \/ InstallApp
    \/ \E t \in Terms : UninstallApp(t) \/ WaitForDone(t) \/ ClearFlag(t)
    \/ \E r \in Runs : MainNext(r) \/ WatcherNext(r)
    \/ \E r \in Runs, u \in Units : WorkerNext(r, u) \/ CheckReachable(r, u)
    \/ \E c \in Clusters : Flip(c)
    \/ Crash

Init ==
    /\ acStatus = None
    /\ stopflag = FALSE
    /\ resStatus = [u \in Units |-> [i \in Res |-> None]]
    /\ reachable \in [Clusters -> BOOLEAN]
    /\ installed = [u \in Units |-> {}]
    /\ approved = [u \in Units |-> {}]
    /\ tracker = {}
    /\ kubeconfig = {}
    /\ main = [r \in Runs |-> "idle"]
    /\ todo = [r \in Runs |-> {}]
    /\ clients = [r \in Runs |-> {}]
    /\ watch = [r \in Runs |-> "off"]
    /\ snap = [r \in Runs |-> None]
    /\ cur = [r \in Runs |-> 1]
    /\ chans = [r \in Runs |-> <<>>]
    /\ worker = [r \in Runs |-> [u \in Units |-> "off"]]
    /\ idx = [r \in Runs |-> [u \in Units |-> 1]]
    /\ failed = [r \in Runs |-> FALSE]
    /\ retried = [r \in Runs |-> [u \in Units |-> FALSE]]
    /\ rch = [r \in Runs |-> [u \in Units |-> None]]
    /\ checks = [r \in Runs |-> [u \in Units |-> 0]]
    /\ flips = 0 /\ dbErrs = 0 /\ crashes = 0

Spec == Init /\ [][Next]_vars

\* Every goroutine that can take a step takes one in the end, and every
\* reachability check answers.  Calls of the handlers, crashes and the network
\* are not fair.
Fairness ==
    /\ \A t \in Terms : WF_vars(WaitForDone(t)) /\ WF_vars(ClearFlag(t))
    /\ \A r \in Runs :
        /\ WF_vars(MainNext(r))
        /\ WF_vars(WatcherNext(r))
        /\ \A u \in Units : WF_vars(WorkerNext(r, u)) /\ WF_vars(CheckReachable(r, u))

FairSpec == Spec /\ Fairness

-----------------------------------------------------------------------------
(* Properties.                                                             *)

\* Every variable stays in its range.
EtcdTypeOK ==
    /\ acStatus \in AppContextStatusValue \cup {None}
    /\ stopflag \in BOOLEAN
    /\ resStatus \in [Units -> [Res -> RsyncStatus \cup {None}]]

ClusterTypeOK ==
    /\ reachable \in [Clusters -> BOOLEAN]
    /\ installed \in [Units -> SUBSET Res]
    /\ approved \in [Units -> SUBSET Res]
    /\ tracker \subseteq Units

ConnTypeOK ==
    /\ kubeconfig \subseteq Clusters
    /\ clients \in [Runs -> SUBSET Clusters]

MainTypeOK ==
    /\ main \in [Runs -> MainPC]
    /\ todo \in [Runs -> SUBSET Units]

WatchTypeOK ==
    /\ watch \in [Runs -> WatchPC]
    /\ snap \in [Runs -> AppContextStatusValue \cup {None}]
    /\ cur \in [Runs -> Nat \ {0}]

WorkTypeOK ==
    /\ worker \in [Runs -> [Units -> WorkerPC]]
    /\ idx \in [Runs -> [Units -> Res]]
    /\ failed \in [Runs -> BOOLEAN]

WaitTypeOK ==
    /\ retried \in [Runs -> [Units -> BOOLEAN]]
    /\ rch \in [Runs -> [Units -> {None, "ok", "err"}]]
    /\ checks \in [Runs -> [Units -> Nat]]

TypeOK ==
    /\ EtcdTypeOK /\ ClusterTypeOK /\ ConnTypeOK /\ MainTypeOK /\ WatchTypeOK
    /\ chans \in [Runs -> Seq(Units)]
    /\ WorkTypeOK /\ WaitTypeOK
    /\ flips \in Nat /\ dbErrs \in Nat /\ crashes \in Nat

\* context.go:699, "wait for all retrying instantiate threads to exit": while a
\* worker of a terminate run works, no worker of the install run does, unless
\* a database error cut the wait short.
NoOverlap ==
    dbErrs = 0 =>
        \A t \in Terms, u, v \in Units : ~ (Running(t, u) /\ Running(Inst, v))

\* deleteChan's swap keeps the list of channels right: a worker has a channel in
\* it exactly while it is in waitForClusterReady, and has it once.
Registry ==
    \A r \in Runs :
        /\ \A j, k \in DOMAIN chans[r] : chans[r][j] = chans[r][k] => j = k
        /\ \A u \in Units :
             (\E j \in DOMAIN chans[r] : chans[r][j] = u) <=> worker[r][u] \in Waiting

\* Before a terminate run gets past its wait, the resources of a unit exist in
\* the order of its "resorder", whatever fails and is retried, and a resource
\* follows another that asks for approval only after the approval (a database
\* error reads as no approval asked for).
BeforeTerminate == \A t \in Terms : main[t] \in {"idle", "waitForDone"}

InOrder ==
    BeforeTerminate =>
        \A u \in Units : \A i \in installed[u] : \A j \in 1 .. i - 1 :
            /\ j \in installed[u]
            /\ dbErrs = 0 /\ j \in Approval => j \in approved[u]

\* A resource the AppContext reports as Applied exists in its cluster, unless a
\* database error has let two runs work on it or lost a status.
AppliedMeansInstalled ==
    dbErrs = 0 =>
        \A u \in Units, i \in Res :
            resStatus[u][i] = "Applied" => i \in installed[u]

\* Before a terminate run gets past its wait, a unit has a status tracker only
\* if its first resource exists (addStatusTracker runs for a handled unit).
TrackerMeansInstalled ==
    BeforeTerminate => \A u \in tracker : 1 \in installed[u]

\* A resource that a terminate run had still to delete (Pending or Retrying)
\* becomes Deleted only when its cluster has it no more.
DeletedMeansGone ==
    [][\A u \in Units, i \in Res :
          /\ resStatus[u][i] \in {"Pending", "Retrying"}
          /\ resStatus'[u][i] = "Deleted"
          => i \notin installed'[u]]_vars

\* The AppContext goes through its life as AppContext.tla says: a resource
\* appears only while the status is Instantiating, in the order of its unit,
\* and goes only while it is Terminating.
Abs == INSTANCE AppContext WITH status <- acStatus, present <- installed
ImplementsAppContext == Abs!Spec

\* The stop flag reaches the run: a terminate run does not wait for ever.
WaitReturns ==
    \A t \in Terms : main[t] = "waitForDone" ~> main[t] # "waitForDone"

AlwaysReachable == <>[](\A c \in Clusters : reachable[c])

\* If the clusters stay reachable from some time on, an install run sets an
\* ended status.
InstallEnds ==
    AlwaysReachable => (acStatus = "Instantiating" ~> acStatus \in InstDone)

\* ... and so does a terminate run, which also returns.
TerminateEnds ==
    AlwaysReachable =>
        \A t \in Terms : main[t] = "waitForDone"
                           ~> acStatus \in TermDone /\ main[t] = "returned"

\* appcontext.go:42, "the instantiate action has failed": it is InstantiateFailed
\* that an AppContext shows when a resource could not be applied.
InstantiatedMeansApplied ==
    acStatus = "Instantiated" =>
        \A u \in Units, i \in Res : resStatus[u][i] = "Applied"

=============================================================================
