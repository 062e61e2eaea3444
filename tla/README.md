# TLA+ models of EMCO

The repository collects the O-RAN SC tree. The part of it with a logic of its
own is EMCO, the Edge Multi-Cluster Orchestrator, under
`dep/smo-install/multicloud-k8s/src` (Go): services that place the apps of a
composite application on Kubernetes clusters and install them there. Most other
directories are Helm charts, scripts, generated ASN.1 code and vendored
packages. The models are about EMCO, beginning with what it promises last: that
the resources of an application are in the clusters when, and as long as, its
status says so.

Paths below are relative to `dep/smo-install/multicloud-k8s/src`.

## The system

| component | state | operations | interacts with |
|---|---|---|---|
| orchestrator, deployment intent group (`orchestrator/pkg/module/deployment_intent_groups.go`, `instantiation.go`) | a document in mongo: metadata and a history of actions (`StateInfo.Actions`) | Create, Approve, Instantiate, Terminate, Delete, Status | makes and deletes AppContexts in etcd, calls the controllers and rsync over gRPC |
| orchestrator, placement (`gpic/gpic.go`, `instantiation_appcontext_helper.go`, `instantiation_scheduler_helper.go`) | the clusters of an app and their group numbers, in the AppContext | resolve an intent, add clusters, delete the extra ones | clm (clusters of a label), placement controllers between the two halves |
| entity modules and REST handlers of all services (`orchestrator/pkg/module`, `clm/pkg/cluster`, `ncm/pkg/networkintents`, `dcm/pkg/module`, `ovnaction/pkg/module` and the `api` beside each) | documents in mongo, each under the ones its key has the fields of | POST, PUT, GET, DELETE of every kind | each other's documents, through parent checks and the count of children |
| document store (`orchestrator/pkg/infra/db/mongo.go`) | collections of documents with tags | Insert, Find, Remove | every service, without transactions |
| AppContext library (`orchestrator/pkg/appcontext`, `rtcontext`, `infra/contextdb`) | a tree of keys in etcd: status, stop flag, apps, clusters, resources with a status each, orders | add, get, update, delete a key | shared by every service, without transactions |
| rsync (`rsync/pkg/context`, `grpc`) | goroutines and channels per run, kubeconfig files, all in memory or in the container | InstallApp, UninstallApp | AppContext in etcd, the clusters' API servers |
| rsync, connector and client (`rsync/pkg/connector`, `client`) | `Connector.Clients`, files under `/tmp/rsync/<cid>` | GetClient, RemoveClient, IsReachable, Apply, Delete, Approve | mongo (kubeconfig), clusters |
| rsync, status watcher (`rsync/pkg/status`) | a map of channels, one informer per cluster | start, handle an event | `ResourceBundleState` CRs, AppContext |
| monitor (`monitor/pkg/controller`) | `ResourceBundleState` objects, through a cache | reconcile an object, reconcile the CR | the cluster it runs in; rsync creates, watches and deletes the CR |
| controllers and RPC (`module/controller`, `infra/rpc`) | a table of connections | create, delete, call | gRPC services |
| clm and ncm (`clm/pkg/cluster`, `ncm/pkg/scheduler`, `ncm/pkg/networkintents`) | a cluster with a history of actions, its networks; an AppContext per application of them | CRUD, Apply, Terminate | rsync |
| dcm (`dcm/pkg/module`) | a logical cloud with the id of its context and a private key, cluster references, quotas | CRUD, Apply, Terminate | rsync |
| ovnaction (`ovnaction/internal/action`) | documents of intents | CRUD; rewrite the resources of an AppContext | AppContext |
| k8splugin, configurations (`k8splugin/internal/app/config.go`, `config_backend.go`) | per configuration: content, numbered versions, counter, tags in etcd; per instance: a mutex, a channel and a goroutine | Create, Update, Delete, Rollback, Tagit, DeleteAll, Cleanup | clusters, through the goroutine |
| k8splugin, instances (`instance.go`, `hook.go`, `client.go`) | one entry per instance, with the progress of its hooks | Create, Delete, RecoverCreateOrDelete | clusters directly; Cleanup of the configurations |
| GUI middle end (`tools/emcoui/middle_end/app`) | one handler whose fields all requests share | create, read, delete a composite application or a group with all it has | orchestrator and ovnaction over REST |
| e2sim, xApps, Bouncer | an E2 association | setup, subscription, indication | RIC |

What is hard in it:

* Nothing locks a document, an AppContext or a group. A run of rsync, another
  run, and the orchestrator read and write the same keys; a request reads a
  state, relies on it, and writes back the copy it read at its beginning.
* Everything in rsync is asynchronous: `InstallApp` answers before the run has
  done anything. A run is a main goroutine, one goroutine per (app, cluster), a
  retry watcher, and one goroutine per reachability check. They meet in a mutex,
  unbuffered channels and a buffered channel.
* Clusters go and come back, answers get lost, the database fails, any process
  is killed. rsync resumes nothing after a restart; the k8splugin is meant to
  resume hooks; the monitor starts from a full list.
* What is one operation for a client is several store calls: a creation writes
  tag after tag, a removal counts and then deletes, the GUI sends dozens of
  requests.
* Errors are overwritten, logged or ignored in many places, on purpose or not.

The hazards, each at its line, are listed in `PROJECT.json`.

## Modules

| module | models | state of the code it keeps |
|---|---|---|
| `AppContext` | abstract specification: what rsync promises about one AppContext | |
| `Rsync` | the runs of rsync for one AppContext | AppContext, goroutines, channels, clusters |
| `DeploymentIntentGroup` | the requests about one group, with rsync as far as the status of a context goes | the document, the contexts, the requests |
| `Placement` | an app's intent, resolved, added and pruned | clusters and group numbers |
| `ConfigVersions` | the configurations of an instance in the k8splugin | etcd, mutexes, goroutine, requests |
| `EntityTree` | abstract specification: documents are a forest, created and removed at once | |
| `Entities` | for every kind of document its key, and every route as the sequence of store calls it makes | none: tables |
| `Documents` | concurrent requests that run those sequences, and the store | documents with their tags, requests |
| `NetworkIntents` | clm and ncm for one cluster | stateInfo, networks, contexts, requests |
| `LogicalClouds` | dcm for one logical cloud | the document, children, contexts, keys, requests |
| `Instances` | an instance of the k8splugin with its hooks | the entry, the cluster, goroutines |
| `Monitor` | the way of a status from an object to the AppContext | API server, cache, controllers, rsync's watcher |
| `MiddleEnd` | the requests of the GUI | the handler, the documents behind the REST calls |
| `RsyncProofs`, `DeploymentIntentGroupProofs`, `ConfigVersionsProofs`, `DocumentsProofs`, `NetworkIntentsProofs`, `LogicalCloudsProofs`, `InstancesProofs` | theorems about the module of the name, and in `LogicalCloudsProofs` about `MCServices` | |
| `ApartProofs` | theorems about `MCApart` and its parts `Placement`, `Monitor` and `MiddleEnd` | |
| `MCRsync`, `MCDeploymentIntentGroup`, `MCConfigVersions`, `MCDocuments` | values for TLC | |
| `MCServices` | `NetworkIntents` and `LogicalClouds` on the contexts they share; a behaviour has the requests of one | |
| `MCApart` | `Placement`, `Instances`, `Monitor`, `MiddleEnd`, which share nothing; a behaviour is about one | |

Operators that only serve to show that a property can fail stand next to what
they are variants of and are marked `Mutant`; the specifications do not use
them. The intended use is to replace the definition below by the mutant above.

### Rsync

State: the three levels of the AppContext that matter (`acStatus`, `stopflag`,
`resStatus`), the clusters (`reachable`, `installed`, `approved`, `tracker`), and
the process: for every run the position of its main goroutine (`main`), of its
watcher (`watch`, the status it read `snap`, the channel it sends to `cur`) and
of its workers (`worker`, `idx`), the registry `chans`, and what
`waitForClusterReady` keeps (`retried`, `rch`, `checks`).

An action is what a goroutine does between two points where another can
interfere: an access to etcd, a call to a cluster, a lock, a channel operation.

| code | actions |
|---|---|
| `InstallApp`, `InstantiateComApp` | `InstallApp` |
| `UninstallApp`, `TerminateComApp` | `UninstallApp` |
| `waitForDone`, flag reset | `WaitForDone`, `ClearFlag` |
| `initializeAppContextStatus`, `initializeResourceStatus` | `InitStatus`, `InitRes` |
| `applyFnComApp`, its start, `g.Wait`, `wg.Wait`, deferred `RemoveClient` | `Kickoff`, `GWait`, `WgWait`, `Cleanup` |
| `kickoffRetryWatcher` | `WatcherPoll`, `WatcherFlag`, `WatcherSend`, `WatcherUnlock` |
| a worker before its loop | `GetClient`, `AllDone` |
| `waitForClusterReady`, `checkReachable`, `addChan`, `deleteChan`, `updateResourceStatus` | `AddChan`, `CheckReachable`, `SelectReach`, `SelectTimeout`, `Stopped`, `DeleteChan` |
| `instantiateResource`, `terminateResource` | `InstantiateResource`, `TerminateResource`, `StatusOk`, `StatusBad`, `Approve` |
| the loop's error path and its end | `AfterError`, `StatusTracker` |
| a nil client in `IsReachable` | `Panic` |
| environment | `Flip`, `Crash` |

A call to a cluster has four outcomes: it works; it fails; it took effect and the
answer was lost; its argument cannot be decoded. An access to etcd or mongo works,
or fails `MaxDbErrs` times. `Panic` is in the model because the code does it:
`RemoveClient` of one run removes the files every run of the AppContext uses, and
`IsReachable` of another run then dereferences a nil client.

What is simplified: the resources of one unit get their initial status in one
step; `updateEndingAppContextStatus` reads and writes in one step; the answers of
reachability checks nobody waits for any more are dropped; failing to read the
clusters of an app is merged with failing to make a client; patches, namespaces
and the contents of resources are not told apart; a database outage that makes
`InstallApp` fall back to `TerminateComApp` counts as one error; the stop flag is
FALSE before it exists, since nothing reads it then.

### DeploymentIntentGroup

State: the document (`meta`, `actions`), the AppContexts (`made`, `record`,
`status`, `asked`) and, for every request in progress, its position, the copy of
the history it read (`snap`) and the context it works with. Every request reads
in its first step, and writes `snap` plus one action in its last. `Instantiate`
makes a context, prepares it, calls rsync, records; every stage can fail, with the
clean-up the code does for that stage. `Crash` drops all requests. rsync is
`RsyncStep`: a status goes from Instantiating to Terminated when asked;
"Instantiated" and "Terminated" stand for the failed ends too, which `Delete` does
not treat differently. Requests the code refuses change nothing and are left out.

### Placement

One app. `Init` chooses an intent out of `Intents`; the steps are
`addClustersToAppContext`, `GetClusterGroupMap`, and the visits of
`deleteExtraClusters`, in any order since they follow a Go map. The clusters of
an app come out of etcd in key order, hence numbers. Two peculiarities of the code
are kept: the groups of a top-level AnyOf accumulate, and a cluster keeps only the
last group number written. So a mandatory cluster that is in an AnyOf group too may
be deleted as an extra one; `PlacedAsAsked` excludes it (`Separate`).

### ConfigVersions

One instance, one configuration name, one cluster. State: what etcd holds
(`config`, `counter`, `versions`, `tag`), the resources in the cluster, the
instance's mutex and goroutine, and for every request its position and locals
(`job`). `removeProfileData` forgets the mutex, the channel and the goroutine, and
`getProfileData` makes new ones, while an old request keeps the old ones: they come
in generations (`gen`, `holder`, `thread`).

| code | actions |
|---|---|
| the handlers, up to the mutex | `Create`, `Update`, `Delete` and `DeleteReads`, `Rollback`, `Tagit`, `Get`, `DeleteAll` and `DeleteAllChecks`, `Cleanup`, `GetProfileData`, `Lock` |
| reads under the mutex | `ReadConfig`, `ReadResources`, `ReadCurrent`, `RollbackStep` |
| `applyConfig`, `scheduleResources` | `Send`, `Answer`, `Listen` |
| `createConfig`, `updateConfig`, `createConfigVersion`, `incrementVersion` | `CreateConfig`, `UpdateConfig`, `RestoreConfig`, `ReadCounter`, `IncrementVersion`, `CreateConfigVersion` |
| `deleteConfigVersion`, `tagCurrentVersion` | `DeleteConfigVersion`, `DecrementVersion`, `TagCurrentVersion` |
| `deleteConfig`, `cleanupIstanceTags`, `removeProfileData` | `PurgeConfig`, `PurgeVersions`, `PurgeCounter`, `PurgeTag`, `RemoveProfileData`, `StopThread` |
| environment | `CallFails`, `PurgeFails`, `ClusterFails`, `Crash` |

Every write to etcd is a step of its own. The mutex does not cover everything the
code does, so what it is meant to protect can be broken; `doors` records how:
`fault` (a failure or crash), `rollback` (a rollback that ends halfway, as one to
version 0 does: the check of the index rejects nothing), `creation` (two creations
that both found nothing), `overlap` (a request inside while another is inside with
an older mutex, or is in the part of `DeleteAll` that takes none), `purge` (a
deletion of `DeleteAll` failed and was only logged). Each property names the doors
it needs closed, and holds with all others open. A request whose list was dropped by
the non-blocking send waits for ever with the mutex held (`dropped`).

Simplified: the three reads at the start of `DeleteAll` are one step; the resources
of a template appear and go together, and are the same for every content; a request
with a body for another configuration name, a request that is refused before its
first effect, and the entry under an empty name that a rollback to an empty `Config`
writes are left out. `ApplyAllConfig` has no caller.

### Entities, Documents and EntityTree

A request is a script: a sequence of store calls, each `absent` (refuse when the
document is there), `present` (refuse when it is not), `put` (insert one tag),
`query` (the second update of an insert with a query), `count` and `delete`.
`Entities` writes the script of every POST, PUT and DELETE route of the five
services as the composition of what the handler and the module function call, in
their order, and what a GET reads. `Documents` runs them: every call is a step, two
requests interleave between any two, a call fails or its answer is lost.

| code (`mongo.go`) | action or operator |
|---|---|
| `findFilter`: the fields of the key, the rest is free | `Above`, `Matches`, `Firsts` |
| `Insert` (`FindOneAndUpdate`, upsert) and its second update | `Insert` / `Upsert`, `InsertQuery` / `Update` |
| `Find`, in the look-ups of `Create...` | `MustNotFind`, `MustNotFindForApp`, `MustFind` |
| `Remove` | `CountChildren`, `Delete` |
| errors | `ReadFails`, `WriteFails`, `AnswerLost` |

The filter of a document also matches every document under it. That is how `Remove`
counts children, and also why a look-up for a project can be answered by a
composite application of that project. There is one document of each kind, since a
field has one value; two of a kind meet only through their common parent, where one
child is as good as another. The state of a group or a cluster is `Created` here.

`Entities` keeps the order in which the code checks and writes where it matters for a
refusal, and one creation without any check (`NetControlIntent`, whose handler tests
nothing above it): `Unchecked`. Workload intents and their
interfaces keep the name of the project in a field `provider`
(`ovnaction/pkg/module/workloadintent.go:39`), so the filter of their project does
not match them, and neither a look-up nor a count for it sees them.

### NetworkIntents

State: the cluster's metadata and stateInfo (clm), its networks and provider
networks (ncm), the AppContexts, and for every request the copy of the history it
read. `Apply` makes a context, copies the networks, then the provider networks, into
it, calls rsync, records; `Terminate` calls and records; `DeleteCluster` deletes the
contexts before `Remove` counts children, and so loses them when it is then refused.
The two kinds of networks differ in one thing the code does: a refusal of a provider
network, and of `Terminate`, wraps a nil error, and the client is told of a success
(`NotChangeable`, ghost `told`).

### LogicalClouds

State: the three tags of the document, its cluster references and quotas, the
contexts with the key whose signing request they hold, the requests. `Apply` draws a
key, makes a context, and for every cluster adds its resources (`AddCluster`) and
saves the key (`SaveKey`); then it saves the id of the context and calls rsync.
`GetLogicalCloudContext` is called with the tag of the document (`Found`), so it
never finds a context: `Terminate` and `GetClusterConfig` always fail and are no
steps, `Delete` and `Apply` go the way of a cloud that has none. With no quota
`createQuota` indexes an empty list and the request dies: a guard of `Apply`.

### Instances

State: the entry in the database, the resources in the cluster, the request or
goroutine in each slot with its own copy of the entry. Post-install hooks run in a
goroutine after `Create` has answered, and overwrite the entry a `Delete` may be
writing. `RecoverCreateOrDelete` is modelled as what a restarted plugin does before
it takes requests; in the repository nothing calls it yet (`instance.go:142` has the
TODO). `doors` records how `NothingForgotten` and `ReadyMeansDone` can be broken:
`lost` (a crash or a failed call between the first resource and its record, which the
code excludes by a comment), `early` (a Delete of an instance whose Create has not
answered), `unresolved` (the templates of the hooks could not be rendered again).

### Monitor

State: the objects in the API server and in the monitor's cache, the
`ResourceBundleState` and its resource version, a queue and a worker for each
controller, rsync's channel for the cluster and the status in the AppContext. The
nine controllers of kinds come in two sorts: with a status (Pod, Deployment, ...),
copied at each event, and without (ConfigMap, Secret), entered once. An update of a CR
that has changed since it was read is refused and the request queued again. A
deletion changes a copy of the CR that nobody writes (`pod_controller.go:132-147`),
so statuses of objects that are gone stay: `SettledIsCurrent` speaks of objects that
are there.

An object may come back to a status it had, and a ConfigMap or Secret that was deleted
and created again changes nothing in the CR, which still has it. An update that changes
nothing leaves the resource version of the CR as it was. So it does not stop the
controller of the CR, when that has read the CR and listed the objects before
(`controller.go:62-126`), from writing its older list (`controller.go:131`), and nobody
looks at the object again. The ghost `overtaken` names the objects of which the CR's
controller holds such a list; `ListedOtherwise` is its condition.

### MiddleEnd

State: the fields of `OrchestrationHandler`, the documents behind the REST calls, and
for each request the steps it has left. A step posts, reads or deletes a kind of
documents, one document at a time. What a step works on is read from the handler at
that moment, as the code does; so `CreateApp` beside `CreateApp`, or a deletion beside
any reader of the tree, work on each other's (`Mix`; ghost `mixed`). Kept from the
code: `GetSvc` prepares a tree and answers with an empty one; the URLs of workload
intents and interfaces lack a `/`, so their DELETE removes nothing; the removal of a network
intent does not count its workload intents, whose key keeps the project under `provider`
(`Unseen`), and succeeds over them; nobody looks for the group of a new network intent
(`Accepted`); `deleteTree` answers 204 whatever its calls answered; a placement intent is
asked to be deleted for every app in the tree; `log.Fatalln` ends the process when the POST of an object has
no answer (`Dies`).

## Runs

| run | instance | shows |
|---|---|---|
| `rsync_runs` | two units on one cluster, one resource each, one install and one terminate run, one database error | `Registry`: `deleteChan`'s swap keeps the list exact. `NoOverlap`: the workers of the two runs never work at the same time unless the database failed |
| `rsync_resources` | one unit, three resources, the first with an approval and the last malformed, two changes of reachability, one crash | `InOrder`, `TrackerMeansInstalled`, `DeletedMeansGone`, `AppliedMeansInstalled`, and `ImplementsAppContext`: `Rsync` refines `AppContext` with `status <- acStatus`, `present <- installed` |
| `rsync_live` | two units on a cluster each, two changes of reachability, terminate after the install run has returned | `InstallEnds`, `TerminateEnds` |
| `rsync_wait` (violated) | one unit, terminate at any time | `WaitReturns`: a terminate run can wait for ever |
| `rsync_hidden` (violated) | one unit, two resources | `InstantiatedMeansApplied`: a failed resource does not fail the instantiation |
| `dig` | two requests at a time, eight in all, three contexts, two faults | `HistoryLegal`, `RecordedMeansCalled`, `NoOrphan`, `LastContextExists` |
| `dig_delete` (violated) | one request at a time, no faults | `DeletedMeansTerminated`: a group approved again is removed with a context still terminating |
| `config` | four requests, two at a time, two contents, one failure or crash | `History`, `ClusterTruth`: without doors, versions, configuration and cluster agree. `Counted`, `Unchanged`: in spite of failures and crashes, numbers are counted before they are used and never reused |
| `documents` | 28 sets of two or three kinds of documents with what they stand on; two clients, one failing call or lost answer | `NoDangling`: parent checks and the count of children together leave no document under one that is gone, unless a creation and a removal race. `Usable`: what was created can be read, listed and removed. `RefusedLeavesNoTrace`. `ImplementsEntityTree`: `Documents` refines `EntityTree` with `live <- Live`, `void <- ~clean` |
| `services` | clm and ncm: six requests, two at a time, one network of each sort; dcm: seven requests, two at a time, two clusters, two keys, one quota; three contexts, one fault or crash | `HistoryCalled`: the stateInfo of a cluster names calls that were made. `AppliedIsCurrent`: an applied context holds the stored networks. `AnswersTrue`. `SavedContextExists`, `KeyFitsContext`: the context a cloud names can be loaded and has the signing request of the key the cloud keeps |
| `logicalcloud_delete` (violated) | one request at a time, no faults | `AppliedIsNotRemoved`: an applied logical cloud can be deleted |
| `apart` | placement: every intent with at most one AllOf and two AnyOf elements inside and outside it, three clusters, two labels; an instance of two resources, with a chart of hooks before and after, and one without; the monitor with one object of each sort, two changes and two statuses; the GUI with two services of two apps | `PlacedAsAsked`, `NeverNowhere`; `NothingForgotten`, `ReadyMeansDone`, `HooksOnce`; `SettledIsCurrent`: statuses arrive, but for the objects `overtaken` names; `OnlyAsked`; `AnswersKept`: a 201 or 204 is true, but for workload intents and interfaces |

`services` and `apart` check several modules in one run. Each has a variable
`service`, chosen in the initial state, and the steps of a behaviour are those of the
module it names; so the states are the sum and not the product of the modules'.

Why the bounds suffice to see the interesting cases.

* `rsync_*`. Two units are needed for the swap in `deleteChan` and for a failing and
  a working unit side by side; one terminate run for every conflict between an
  install and a terminate. Three resources have a first, a middle and a last one.
  Two changes of reachability let a cluster go in the middle of a list and come back
  (or come, and go again); two checks in flight show a stale result in the channel.
  One database error is enough to cut short every wait.
* `dig`. Eight requests create, approve, instantiate, terminate, approve and
  instantiate again, with two to spare for races.
* `config`. Four requests create a configuration, change it twice or delete it and roll
  back over more than one version, or delete it all and create it again; two at a time
  are enough for every door.
* `documents`. A route reads, counts and writes documents of its own kind, of the kinds
  above and of those it counts below; the focuses are the pairs of a parent and a child,
  and triples with two children of one parent or two levels. What a focus stands on is there and
  stays. Requests are not bounded: the states are finite.
* `services`. Six requests create a cluster and a network, apply, change or delete,
  terminate; seven create a cloud with a cluster and a quota, apply twice, delete and
  begin again. Three contexts are two that are used and one that was cleaned up.
* `apart`. Two changes of the monitor's objects, each to one of two statuses, so that one
  may keep or change its status, or be gone and come again with it; two Deletes of an
  instance; two requests of the GUI that may be beside or after each other; two faults for
  an instance, so that one may hit the recovery from the other; one for the monitor and for the GUI.
  `~lost` and `~mixed` cut a behaviour where the properties stop saying anything. The
  services of the GUI are alike, so only initial states are taken in which the first
  has no fewer documents than the others.

What the properties assume, and why:

* `NoOverlap` and `AppliedMeansInstalled` are stated for `dbErrs = 0`, and
  `UninstallApp` comes after the install run's first status write (`OnceStarted`).
  Without either the code does overlap: `waitForDone` ends on any error of reading
  the status, a status level that does not exist yet included (`context.go:577`).
  The first is the code's choice; the second is a window of one etcd write after
  `InstallApp` has answered.
* `InOrder` and `TrackerMeansInstalled` speak of the time before a terminate run
  is past its wait: it deletes in the same order in which resources were installed.
* `DeletedMeansGone` is about Pending and Retrying resources. A Failed one, whose
  Apply may have worked with its answer lost, is set to Deleted by
  `initializeResourceStatus` without a call.
* `NoOrphan` and `LastContextExists` are for histories without races and faults;
  with them the code can orphan a context, by design of the two stores.
* `PlacedAsAsked` is for intents in which no cluster is asked for twice.
* `NoDangling`, `Usable` and `ImplementsEntityTree` are stated for `clean`: no creation
  has begun or gone on beside a removal of what it stands on. Nothing in the code keeps
  the two apart. `Usable` also needs that no call has failed, since a document of
  several tags may be left with some. `RefusedLeavesNoTrace` has no premise.
* `AppliedIsCurrent` and `AnswersTrue` are for requests one at a time without faults;
  `AnswersTrue` is about networks and not provider networks (see below).
  `HistoryCalled` has no premise. `KeyFitsContext` is for undisturbed requests,
  `SavedContextExists` for all.
* `NothingForgotten` and `ReadyMeansDone` name the doors they need closed. For
  `ReadyMeansDone` it is `unresolved`: a recovery that cannot render the templates of the
  hooks again goes on as if there were none, and the instance is ready without them.
* `SettledIsCurrent` is about moments when nothing is on its way, and no event was `lost`
  on an error: rsync's watcher drops one when etcd refuses it, a controller of a kind when it
  cannot look for the CR, and nothing repeats it. With no error at all an object can be wrong
  in the CR for good, as described under Monitor. The property does not pass over this:
  it says that the objects that are wrong are those of `overtaken`, and no other.
* `OnlyAsked` and `AnswersKept` hold until two requests of the GUI that use the same
  fields of the handler overlap (`mixed`). A 204 of a group, for `AnswersKept`, also needs
  that all calls were answered, that the group was not running, and that it had no placement
  intents of apps that were never created. Even then workload intents and interfaces stay:
  the property says that nothing else does. A group created again with the same names
  finds them, and its creation is refused there.

`CHECK_DEADLOCK FALSE` stands in every cfg but that of `documents`: the environment may
make no more requests, a placement ends, rsync has the deadlock `rsync_wait` shows, and
a request about a configuration may wait for ever.

Fairness (`FairSpec`, used by `rsync_live` and `rsync_wait`): weak fairness of each
goroutine, since Go schedules every runnable goroutine and every etcd or cluster
call returns after a timeout at the latest, and of each reachability check. Calls
of the handlers, crashes and the network are not fair; that a cluster stays
reachable from some time on is a premise of the properties. A select with a ready
result and an expired timer may take either, so the timeouts in the model are
bounded only by `MaxChecks`, the checks in flight.
`rsync_live` starts the terminate run after the install run has returned, because
otherwise the deadlock of `rsync_wait` is a counterexample.

## Findings

1. `rsync_wait`. The watcher takes the mutex and sends on every registered
   channel. A worker whose check has just succeeded has left its select and waits
   for the mutex in `deleteChan`. Neither goes on; the install run never ends, nor
   does a terminate run that waits for it.
2. `rsync_hidden`. `if err = c.IsReachable(); err != nil` replaces the error of a
   resource by nil when the cluster answers; the run ends as Instantiated.
3. `dig_delete`. `Delete` waits for the end of a termination only in the state
   Terminated; after Approve it waits for nothing and deletes no context.
4. `logicalcloud_delete`. `Delete` looks for the context of the cloud under the tag of
   the document, finds the document, cannot load it, and takes that for a cloud that
   was never applied. Terminate and GetClusterConfig fail for the same reason.

Other places where the code surprises. The models do what it does, and the properties
are stated so that they hold; no run is about them.

* Placement: a mandatory cluster that is in an AnyOf group too gets the group's number
  and is deleted as an extra one, unless it is the first (`instantiation_scheduler_helper.go:267`).
* Configurations: undoing a DELETE applies the action of the version before it. For an
  Update that is a PUT, and a PUT of resources that do not exist fails, which is logged
  and not answered: Create, Update, Delete, Rollback to 2 succeeds, and the cluster has
  nothing. A rollback to 0 passes the check of the index and ends halfway.
* Networks: `providernet.go:105` and `scheduler.go:275` wrap a nil error, so a refusal
  is answered as a success. clm's `DeleteCluster` deletes the contexts of a cluster
  before `Remove` refuses it because it has children.
* Logical clouds: an Apply that fails, or overlaps another, replaces the private key
  of the cloud, which no longer fits the certificates of the context it names.
* Documents: a creation that has passed its parent check and a removal of the parent
  leave a document under none. Workload intents carry the project under `provider`.
* Monitor: the deletion of an object changes a copy of the CR that nobody writes. And
  without any failure the CR can stay wrong about an object that exists: a ConfigMap is
  entered in a new CR and deleted; only then the controller of the CR reads it and lists;
  the ConfigMap is created again, its own controller finds it in the CR, and its update
  changes nothing; the list without it is written after that. A Pod whose status goes
  to another and back can meet the same.
* GUI: `GetSvc` answers with nothing; workload intents and interfaces are never removed, for
  want of a `/` in their URLs, and are left behind when their network intent and group are
  removed over them with a 204; `deleteTree` answers 204 whatever it was answered; two requests at
  a time can mix their applications.
* Instances: `RecoverCreateOrDelete` has no caller.

## Proofs

For every value of the constants that satisfies the assumption of the module
(`RsyncAssumption`, `DigAssumption`, `ConfigAssumption`, `DocumentsAssumption`,
`PlacementAssumption`, `LogicalCloudsAssumption`, `NetworkIntentsAssumption`,
`InstancesAssumption`):

* `RsyncProofs!TypeCorrect`, `Spec => []TypeOK`. One step per action, under it one
  per group of variables the action changes.
* `RsyncProofs!RegistryCorrect`, `Spec => []Registry`. Rests on
  `WithoutChanCorrect`, what `deleteChan` does to a list in which every channel
  occurs once. The inductive invariant adds `WorkersInGWait` (a worker runs only
  while its main goroutine is in `g.Wait`): it is needed because `Kickoff` restarts
  all workers of a run at their beginning, which would be wrong were one registered.
* `RsyncProofs!NoOverlapCorrect`, `Spec => []NoOverlap`, assuming that
  `UninstallWhen` does not contain `initStatus`. `NoOverlap` is not inductive: it says
  nothing of how `waitForDone` knows. `WaitRespected` does: an ended status means
  the install run has no workers and never will, the status exists while the run
  goes on, and whoever is past the wait came there by an ended status. The two cases
  the assumption excludes are where the status does not exist yet.
* `RsyncProofs!InOrderCorrect` and `TrackerMeansInstalledCorrect`, without any
  assumption about faults or calls. `OrderInv`: until a terminate run is past its wait,
  all that a worker of the install run has gone past exists and is approved (`Behind`),
  wherever the worker is in its loop. No terminate run has workers then
  (`WorkersInGWait`), and none goes back to its wait (`WaitIsFirst`).
* `RsyncProofs!AppliedMeansInstalledCorrect`, with the premise of `NoOverlapCorrect`, on
  which it rests. `AppliedInv` adds to the property that the resource a worker is about
  to report exists, and that no resource is Applied in a unit whose statuses a terminate
  run has reset (`Reset`): only such a run deletes.
* `RsyncProofs!DeletedMeansGoneCorrect` and `ImplementsAppContextCorrect`, under
  `OneTermination`: the premise of `NoOverlapCorrect`, a database that works, and one
  terminate run at most. Without the last, the second terminate run marks Deleted what
  the first has still to delete. `PhaseInv` says what the status of the AppContext tells
  of every run. `GoneInv` says that a resource that exists has a done status until a
  terminate run begins with its unit, unless its worker is about to write one: so what
  the reset finds Pending, and marks Deleted, was never installed. An install run that
  was cut off is the exception (its status stays Instantiating, and no terminate run
  gets past its wait). In the refinement a terminate run begins in `InitStatus`;
  `CallImplements` takes the order of an abstract Install from `OrderInv`.
* `DeploymentIntentGroupProofs!TypeCorrect`, and `HistoryLegalCorrect` and
  `RecordedMeansCalledCorrect`. The inductive invariant `HistoryInv` says of every copy in
  every request what the two properties say of the recorded history, and that what
  a request has checked holds of its copy. So a request that writes a stale copy back
  replaces one good history by another, which is why the missing lock costs updates
  but never consistency. `GoodAppend` and `LegalAppend` are about one more action.
* `DeploymentIntentGroupProofs!NoOrphanCorrect` and `LastContextExistsCorrect`. Neither is
  inductive: between a call to rsync and its record the group does not know the context.
  `CalmInv`, for requests one at a time without faults, adds the request about to record it
  (`Known`), and that what a request has checked is still true of the document (`StillTrue`).
* `ConfigVersionsProofs!TypeCorrect`, `CountedCorrect` (`Spec => []Counted`) and
  `UnchangedCorrect` (`Spec => Unchanged`). The inductive invariant `ConfigInv` has
  three parts beyond the types. `LockInv`: a request inside holds the mutex of the
  generation it asked for, a goroutine works for the request that waits for it. From
  it `Exclusive`: while no door `overlap` or `purge` is used, one request at a time is
  among the writes. From that `Between`: what a request has read of the counter is
  still true where it writes, so that it numbers a version that is counted and not
  stored. Failures and crashes need no part of their own, because the counter is
  raised before a version is stored and lowered after it is deleted. `Effects` says
  which actions write what, so that an invariant over the data has a step for
  each of those only.
* `ConfigVersionsProofs!HistoryCorrect` (`Spec => []History`) and `ClusterTruthCorrect`
  (`Spec => []ClusterTruth`). Both speak of moments when no request is at work, so
  neither is inductive. `HistInv` closes the gap: by `Exclusive` one request at most is at
  work, and `Part` says for each place in it which of its writes are done, in versions,
  counter, configuration and cluster. `Chain` is `History` between neighbours, with one
  fact more: no version has resources after one without, which is why a Rollback over a
  PUT finds resources to update where the version it goes back to recorded some.
  `JobInv` says that a request carries to its writes the content and action it was called
  with. A fault opens a door, after which the two properties claim nothing.
* `DocumentsProofs!Types`, `NoneDangles` (`Spec => []NoDangling`) and `ImplementsTree`
  (`Spec => ImplementsEntityTree`), for any kinds, keys and scripts with the properties
  `DocumentsAssumption` lists, which TLC finds true of `Entities`: a creation looks for all
  that is above it, or the kind is `Unchecked`; a removal counts before it deletes. The inductive
  invariant has, while `clean`, four parts: `Forest`, the property; `NoRace`, no
  creation and removal that touch each other are both under way; `FoundThere`, what a
  creation has found above it is still there; `CountedAlone`, a removal that has
  counted no children has none. The last two say that what a request read is still
  true when it writes, which is what a lock would give, and which `NoRace` gives here.
  For the refinement, `TreeStep` is what a step does to the set of live documents;
  `InsertKeeps`, `DeleteKeeps` and `ReadKeeps` prove it together with the invariant.
* `DocumentsProofs!RefusedLeavesNoTraceCorrect` and `UsableCorrect`. They need three more
  properties of the tables, which TLC finds true of `Entities` too: a script looks before it
  writes (`ReadsFirstAssumption`), an update leaves all the tags a creation leaves
  (`LeavesAssumption`), and what is read is among them (`ReadableAssumption`). `Traced`: a
  request that has written is past a write, so no look-up of its can follow. `TagInv`, while
  `clean`: what a request has written so far is there (`Left`), and a document that
  lacks a tag is one such a request is still at (`Whole`, `Begun`). The second holds
  only as long as no call fails, which is the premise of `Usable`; several creations of
  one document may be under way, and any of them may be the one that completes it.
* `ApartProofs!NeverNowhereCorrect`, `PlacedAsAskedCorrect` and `PlacementTypeCorrect`. `PlacementInv` says
  where the app is: `Added` before the extra clusters go, and `Thinned` while they do,
  all ungrouped clusters, the first of every group, and those still to be visited. The lemmas
  `FirstExists` and `FirstUnique` are about the order of the clusters. The group numbers
  come out of a fold over the intent; what it gives is the assumption
  `GroupsAssumption`, which TLC checks of all intents of `apart`, since induction over
  data is out of the prover's reach.
* `LogicalCloudsProofs!TypeCorrect`, `SavedContextExistsCorrect`, `WorkedOnStaysCorrect`
  (no context rsync works on is removed) and `KeyFitsContextCorrect`. `ContextInv`: a
  request that holds a context holds one nobody else has, which exists, and which until
  it is saved neither the document nor rsync knows; so the clean-up of a failed Apply
  takes nothing from anybody. `KeyInv`, while `Undisturbed`: one request at a time, and a
  key reaches the context first and the document second; between the two they differ,
  and no request can end there.
* `NetworkIntentsProofs!TypeCorrect`, `HistoryCalledCorrect`, `AppliedIsCurrentCorrect`
  and `AnswersTrueCorrect`. The first two hold whatever requests race and fail, by an
  argument like that of the group: `HistoryInv` says that the stateInfo and every copy of
  it in a request is a good history (`Good`), and that what a request has checked is still
  true of its copy, so that what it appends may follow (`GoodAppend`). The other two
  are about quiet moments, and a request changes stateInfo, context and networks one by
  one. `CalmInv` is therefore about the moments when one request is at work and no call
  has failed: its copy is the recorded history, its context holds what the database has,
  and networks are changed only while nothing is applied.
* `InstancesProofs!TypeCorrect`, `HooksOnceCorrect`, `ReadyMeansDoneCorrect` and
  `NothingForgottenCorrect`, for any chart and number of resources, requests, failures and
  crashes. None is inductive, since every goroutine overwrites the entry with the copy
  it has. The invariants state of each copy what is to hold of the entry once it is
  written (`JobOK`, `HookJob`, `ReadyJob`, `AccountJob`). `LineInv` is what makes the
  overwriting harmless: of the jobs that Create or the recovery began there is one
  at a time, and only such a job writes the progress of post-install hooks. `HookInv`
  says that a hook which has begun is recorded before it is created (`Begun`), so that
  a recovery leaves out one hook at most; `Gaps` counts the hooks left out, and the entry
  may be one ahead of the crashes until the plugin restarts. `AccountInv` says for each
  step of a job which resources are in the cluster at most: those created so far, those
  of its copy, or none. It needs that a job before the installation is alone, which is
  what a Delete before the answer of Create breaks (the door `early`). The lemmas whose
  names end in `Move` say once for each kind of step what it makes of its job and of
  the entry; every invariant takes its steps from them.
* `ApartProofs!SettledIsCurrentCorrect`, for any objects, changes and faults. The property
  is about the moments when nothing is on its way; `MonitorInv` says what is on its way at
  all others. `CurrentInv`: as long as no event was dropped on an error, the CR is right
  about an object (`Right`: it has the status of the cache, `Fine`, if and only if the object
  is not `overtaken`), or the object has a request in the queue or with its controller
  (`OwnPending`), or the controller of the CR has not written yet (`CRPending`); and what that
  controller has listed for its write is right in the same sense. `OvertakenInv`: an
  overtaken object has no request on its way, and its list is complete or holds it; so
  its being wrong is final until the next event. `VersionInv`
  is what the refusal of stale updates gives: whoever still has the version of the CR
  writes what the CR has with its own change, the others are refused and asked again.
  `WorkInv`: a controller of objects has the version of the cache or its request again.
* `ApartProofs!OnlyAskedCorrect` and `AnswersKeptCorrect`, for any services, applications,
  requests and failed calls, while no two requests use one field of the handler for
  different things (`mixed`). `GuiInv` says of each request under way: `ScriptInv`, the calls
  it has left are in an order in which parents are created before and removed after what is
  under them (`Before`); `CreatorInv`, all documents of the kinds it has posted are there;
  `DeleterInv`, the tree it reads is that of its service; `SureInv`, while all its calls
  were answered, what is in the database of the kinds it has read is in the tree, and of
  the kinds it has deleted nothing is left. `Closed`, no document without its parent
  but the `Unseen`, is needed since a read goes from parent to child. It holds because the
  services refuse what would break it, but for one thing: nobody looks for the group of a
  network intent. `PostedParent` shows that the group is there all the same, since the same
  request has posted it before and nobody beside it deletes in its service. `Alone` is the premise as a fact about the requests under way.
* `LogicalCloudsProofs!ServicesTypeCorrect`, `HistoryCalledCorrect`,
  `AppliedIsCurrentCorrect` and `AnswersTrueCorrect` carry these over to `ServicesSpec`, the
  specification TLC checks in `services`: a behaviour in which ncm works implements
  `NetworkIntents`, one in which dcm works implements `LogicalClouds` and leaves the documents
  of ncm alone (`OneService`, `Untouched`). `ApartProofs!NothingForgottenCorrect`,
  `ReadyMeansDoneCorrect` and `HooksOnceCorrect` do the same for `ApartSpec`, which
  implements both `Placement` and `Instances` (`ApartImplements`). `ApartTypeCorrect` joins
  the types of its four parts.

The invariants used in the inductions were checked by TLC before they were proved.

Every invariant and action property of a passing run is a theorem for all values of
the constants that satisfy the named assumptions. Only model-checked are the liveness
properties, which are out of the prover's reach (fairness needs ENABLED), and what the
assumptions on tables and folds say (`DocumentsAssumption` and those beside it,
`GroupsAssumption`), which TLC evaluates: what a fold computes for every input needs an
induction over data.

## Not modelled

* The table of connections of the controllers, and the order in which placement and
  action controllers are called: their documents are in `Entities`.
* `Status` of the orchestrator, ncm and dcm, queries and status of the k8splugin: they
  read and format.
* `ovnaction/internal/action/action.go`: rewrites resources of an AppContext and keeps
  nothing.
* Definitions, profiles and connections of the k8splugin: single documents and
  archives on disk.
* emcoctl and the inventory: clients of the REST interfaces.
* e2sim, the xApps, Bouncer: a simulator and test traffic around generated ASN.1.
* The tree of keys and the handles of the AppContext library, the contents of
  resources, kubeconfigs and certificates: below what the models tell apart.
* Helm charts, scripts, generated code: no state of their own.

## Plan

What is left, in this order:

1. `Emco`: `DeploymentIntentGroup` composed with two instances of `AppContext`, in
   which a group is instantiated again while the first context is still terminating,
   and two terminate runs of one AppContext in `Rsync` on a smaller instance.
2. The connection table of the orchestrator (`infra/rpc`): a controller deleted while a
   group that uses it is instantiated.
