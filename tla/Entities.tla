------------------------------ MODULE Entities ------------------------------
(***************************************************************************)
(* The kinds of documents the EMCO services keep in mongo, and what every  *)
(* REST route does with them: orchestrator, clm, ncm, dcm and ovnaction.   *)
(*                                                                         *)
(* A request is a sequence of calls of the store, in the order the code    *)
(* makes them: look a document up and refuse when it is there or when it   *)
(* is not, write one tag of it, remove it.  Module Documents runs them.    *)
(*                                                                         *)
(* The key of a document is the set of the fields of the Go struct it is   *)
(* marshalled from; there is one name for every field, so that a kind has  *)
(* at most one document.  The states of a cluster and of a deployment      *)
(* intent group are "Created" all along (modules NetworkIntents and        *)
(* DeploymentIntentGroup have their lives).  Parsing and validating a body *)
(* and the wording of an answer are left out.                              *)
(***************************************************************************)
EXTENDS Sequences, TLC

-----------------------------------------------------------------------------
(* The calls of the store.                                                 *)

\* What a Get function reads: one tag of the first document with the key.
Doc(kind, tag) == [kind |-> kind, tag |-> tag]

Absent(doc)  == <<[op |-> "absent", kind |-> doc.kind, tag |-> doc.tag]>>
Present(doc) == <<[op |-> "present", kind |-> doc.kind, tag |-> doc.tag]>>
Put(doc)     == <<[op |-> "put", kind |-> doc.kind, tag |-> doc.tag]>>
Removal(doc) == <<[op |-> "count", kind |-> doc.kind, tag |-> doc.tag],
                      [op |-> "delete", kind |-> doc.kind, tag |-> doc.tag]>>

\* Insert with a query: the second update adds the name of the app.
AppName == "app-name"
PutForApp(doc) ==
    Put(doc) \o <<[op |-> "query", kind |-> doc.kind, tag |-> AppName]>>

\* The look-up by the name of the app instead of the name of the document.
AbsentForApp(doc) ==
    <<[op |-> "absentForApp", kind |-> doc.kind, tag |-> doc.tag]>>

\* The check of a Create that is told the document may exist.
Fresh(mayExist, doc) == IF mayExist THEN <<>> ELSE Absent(doc)

-----------------------------------------------------------------------------
(* orchestrator: projects and composite apps.                              *)

ProjectKey == {"project"}
GetProject == Doc("Project", "projectmetadata")
CreateProject(mayExist) == Fresh(mayExist, GetProject) \o Put(GetProject)
DeleteProject == Removal(GetProject)
projectHandler ==
    [POST   |-> CreateProject(FALSE),
     PUT    |-> CreateProject(TRUE),
     DELETE |-> Present(GetProject) \o DeleteProject,
     GET    |-> {GetProject}]

CompositeAppKey == {"compositeapp", "compositeappversion"} \cup ProjectKey
GetCompositeApp == Doc("CompositeApp", "compositeappmetadata")
CreateCompositeApp ==
    Absent(GetCompositeApp) \o Present(GetProject) \o Put(GetCompositeApp)
DeleteCompositeApp == Removal(GetCompositeApp)
compositeAppHandler ==
    [POST   |-> CreateCompositeApp,
     DELETE |-> Present(GetCompositeApp) \o DeleteCompositeApp,
     GET    |-> {GetCompositeApp}]

AppKey == {"app"} \cup CompositeAppKey
GetApp == Doc("App", "appmetadata")
GetAppContent == Doc("App", "appcontent")
CreateApp ==
    Absent(GetApp) \o Present(GetProject) \o Present(GetCompositeApp)
    \o Put(GetApp) \o Put(GetAppContent)
DeleteApp == Removal(GetApp)
appHandler == [POST |-> CreateApp]
appReadHandler == [GET |-> {GetApp, GetAppContent}, DELETE |-> DeleteApp]

CompositeProfileKey == {"compositeprofile"} \cup CompositeAppKey
GetCompositeProfile == Doc("CompositeProfile", "compositeprofilemetadata")
CreateCompositeProfile ==
    Absent(GetCompositeProfile) \o Present(GetProject)
    \o Present(GetCompositeApp) \o Put(GetCompositeProfile)
DeleteCompositeProfile == Removal(GetCompositeProfile)
compositeProfileHandler ==
    [POST   |-> CreateCompositeProfile,
     DELETE |-> DeleteCompositeProfile,
     GET    |-> {GetCompositeProfile}]

AppProfileKey == {"profile"} \cup CompositeProfileKey
GetAppProfile == Doc("AppProfile", "profilemetadata")
GetAppProfileContent == Doc("AppProfile", "profilecontent")
CreateAppProfile ==
    Absent(GetAppProfile) \o AbsentForApp(GetAppProfile)
    \o Present(GetCompositeProfile)
    \o PutForApp(GetAppProfile) \o PutForApp(GetAppProfileContent)
DeleteAppProfile == Removal(GetAppProfile)
appProfileHandler == [POST |-> CreateAppProfile]
appProfileReadHandler ==
    [GET |-> {GetAppProfile, GetAppProfileContent}, DELETE |-> DeleteAppProfile]

-----------------------------------------------------------------------------
(* orchestrator: deployment intent groups and what they hold.              *)

DeploymentIntentGroupKey == {"deploymentintentgroup"} \cup CompositeAppKey
GetDeploymentIntentGroup ==
    Doc("DeploymentIntentGroup", "deploymentintentgroupmetadata")
GetDeploymentIntentGroupState == Doc("DeploymentIntentGroup", "stateInfo")
CreateDeploymentIntentGroup ==
    Absent(GetDeploymentIntentGroup) \o Present(GetProject)
    \o Present(GetCompositeApp)
    \o Put(GetDeploymentIntentGroup) \o Put(GetDeploymentIntentGroupState)
DeleteDeploymentIntentGroup ==
    Present(GetDeploymentIntentGroupState) \o Removal(GetDeploymentIntentGroup)
deploymentIntentGroupHandler ==
    [POST   |-> CreateDeploymentIntentGroup,
     DELETE |-> DeleteDeploymentIntentGroup,
     GET    |-> {GetDeploymentIntentGroup}]

GenericPlacementIntentKey == {"genericplacement"} \cup DeploymentIntentGroupKey
GetGenericPlacementIntent ==
    Doc("GenericPlacementIntent", "genericplacementintentmetadata")
CreateGenericPlacementIntent ==
    Absent(GetGenericPlacementIntent) \o Present(GetProject)
    \o Present(GetCompositeApp) \o Present(GetDeploymentIntentGroup)
    \o Put(GetGenericPlacementIntent)
DeleteGenericPlacementIntent == Removal(GetGenericPlacementIntent)
genericPlacementIntentHandler ==
    [POST   |-> CreateGenericPlacementIntent,
     DELETE |-> DeleteGenericPlacementIntent,
     GET    |-> {GetGenericPlacementIntent}]

AppIntentKey == {"appintent"} \cup GenericPlacementIntentKey
GetAppIntent == Doc("AppIntent", "appintentmetadata")
CreateAppIntent ==
    Absent(GetAppIntent) \o Present(GetProject) \o Present(GetCompositeApp)
    \o Present(GetGenericPlacementIntent) \o Present(GetDeploymentIntentGroup)
    \o PutForApp(GetAppIntent)
DeleteAppIntent == Removal(GetAppIntent)
appIntentHandler == [POST |-> CreateAppIntent, GET |-> {GetAppIntent}]
appIntentReadHandler == [DELETE |-> DeleteAppIntent]

IntentKey == {"intentname"} \cup DeploymentIntentGroupKey
GetIntent == Doc("Intent", "addintent")
AddIntent ==
    Absent(GetIntent) \o Present(GetProject) \o Present(GetCompositeApp)
    \o Present(GetDeploymentIntentGroup) \o Put(GetIntent)
DeleteIntent == Removal(GetIntent)
intentHandler == [POST |-> AddIntent, GET |-> {GetIntent}]
intentDeleteHandler == [DELETE |-> DeleteIntent]

ControllerKey == {"controller-name"}
GetController == Doc("Controller", "controllermetadata")
CreateController(mayExist) == Fresh(mayExist, GetController) \o Put(GetController)
DeleteController == Removal(GetController)
controllerHandler ==
    [POST |-> CreateController(FALSE), PUT |-> CreateController(TRUE)]
controllerReadHandler == [GET |-> {GetController}, DELETE |-> DeleteController]

-----------------------------------------------------------------------------
(* clm: clusters; their collection is "cluster".                           *)

ClusterProviderKey == {"provider"}
GetClusterProvider == Doc("ClusterProvider", "clustermetadata")
CreateClusterProvider == Absent(GetClusterProvider) \o Put(GetClusterProvider)
DeleteClusterProvider == Removal(GetClusterProvider)
clusterProviderHandler ==
    [POST   |-> CreateClusterProvider,
     DELETE |-> DeleteClusterProvider,
     GET    |-> {GetClusterProvider}]

ClusterKey == {"cluster"} \cup ClusterProviderKey
GetCluster == Doc("Cluster", "clustermetadata")
GetClusterContent == Doc("Cluster", "clustercontent")
GetClusterState == Doc("Cluster", "stateInfo")
CreateCluster ==
    Present(GetClusterProvider) \o Absent(GetCluster)
    \o Put(GetCluster) \o Put(GetClusterContent) \o Put(GetClusterState)
DeleteCluster == Present(GetClusterState) \o Removal(GetCluster)
clusterHandler == [POST |-> CreateCluster]
clusterReadHandler ==
    [GET |-> {GetCluster, GetClusterContent}, DELETE |-> DeleteCluster]

ClusterLabelKey == {"label"} \cup ClusterKey
GetClusterLabel == Doc("ClusterLabel", "clustermetadata")
CreateClusterLabel ==
    Present(GetCluster) \o Absent(GetClusterLabel) \o Put(GetClusterLabel)
DeleteClusterLabel == Removal(GetClusterLabel)
clusterLabelHandler ==
    [POST   |-> CreateClusterLabel,
     DELETE |-> DeleteClusterLabel,
     GET    |-> {GetClusterLabel}]

ClusterKvPairsKey == {"kvname"} \cup ClusterKey
GetClusterKvPairs == Doc("ClusterKvPairs", "clustermetadata")
CreateClusterKvPairs ==
    Present(GetCluster) \o Absent(GetClusterKvPairs) \o Put(GetClusterKvPairs)
DeleteClusterKvPairs == Removal(GetClusterKvPairs)
clusterKvPairsHandler ==
    [POST   |-> CreateClusterKvPairs,
     DELETE |-> DeleteClusterKvPairs,
     GET    |-> {GetClusterKvPairs}]

-----------------------------------------------------------------------------
(* ncm: networks, in the collection of the clusters.                       *)

NetworkKey == {"network"} \cup ClusterKey
GetNetwork == Doc("Network", "networkmetadata")
CreateNetwork(exists) ==
    Present(GetClusterState) \o Fresh(exists, GetNetwork) \o Put(GetNetwork)
DeleteNetwork == Present(GetClusterState) \o Removal(GetNetwork)
networkHandler == [POST |-> CreateNetwork(FALSE), PUT |-> CreateNetwork(TRUE)]
networkReadHandler == [GET |-> {GetNetwork}, DELETE |-> DeleteNetwork]

ProviderNetKey == {"providernet"} \cup ClusterKey
GetProviderNet == Doc("ProviderNet", "networkmetadata")
CreateProviderNet(exists) ==
    Present(GetClusterState) \o Fresh(exists, GetProviderNet) \o Put(GetProviderNet)
DeleteProviderNet == Present(GetClusterState) \o Removal(GetProviderNet)
providernetHandler ==
    [POST |-> CreateProviderNet(FALSE), PUT |-> CreateProviderNet(TRUE)]
providernetReadHandler == [GET |-> {GetProviderNet}, DELETE |-> DeleteProviderNet]

-----------------------------------------------------------------------------
(* dcm: logical clouds (their contexts are in module LogicalClouds).       *)

LogicalCloudKey == {"logical-cloud-name"} \cup ProjectKey
GetLogicalCloud == Doc("LogicalCloud", "logicalcloud")
CreateLogicalCloud ==
    Present(GetProject) \o Absent(GetLogicalCloud) \o Put(GetLogicalCloud)
UpdateLogicalCloud == Present(GetLogicalCloud) \o Put(GetLogicalCloud)
DeleteLogicalCloud == Present(GetLogicalCloud) \o Removal(GetLogicalCloud)
logicalCloudHandler ==
    [POST   |-> Present(GetProject) \o CreateLogicalCloud,
     PUT    |-> UpdateLogicalCloud,
     DELETE |-> DeleteLogicalCloud,
     GET    |-> {GetLogicalCloud}]

\* What the four kinds inside a logical cloud have in common.
CreateInCloud(doc) ==
    Present(GetProject) \o Present(GetLogicalCloud) \o Absent(doc) \o Put(doc)
UpdateInCloud(doc) == Present(doc) \o Put(doc)
ClientRoutes(create, update, delete, doc) ==
    [POST |-> create, PUT |-> update, DELETE |-> delete, GET |-> {doc}]

ClusterReferenceKey == {"clname"} \cup LogicalCloudKey
GetClusterReference == Doc("ClusterReference", "cluster")
CreateClusterReference == CreateInCloud(GetClusterReference)
UpdateClusterReference == UpdateInCloud(GetClusterReference)
DeleteClusterReference == Removal(GetClusterReference)
clusterReferenceHandler ==
    ClientRoutes(CreateClusterReference, UpdateClusterReference,
                 DeleteClusterReference, GetClusterReference)

QuotaKey == {"qname"} \cup LogicalCloudKey
GetQuota == Doc("Quota", "quota")
CreateQuota == CreateInCloud(GetQuota)
UpdateQuota == UpdateInCloud(GetQuota)
DeleteQuota == Removal(GetQuota)
quotaHandler == ClientRoutes(CreateQuota, UpdateQuota, DeleteQuota, GetQuota)

KeyValueKey == {"kvname"} \cup LogicalCloudKey
GetKVPair == Doc("KeyValue", "keyvalue")
CreateKVPair == CreateInCloud(GetKVPair)
UpdateKVPair == UpdateInCloud(GetKVPair)
DeleteKVPair == Removal(GetKVPair)
keyValueHandler == ClientRoutes(CreateKVPair, UpdateKVPair, DeleteKVPair, GetKVPair)

UserPermissionKey == {"upname"} \cup LogicalCloudKey
GetUserPerm == Doc("UserPermission", "userpermission")
CreateUserPerm == CreateInCloud(GetUserPerm)
UpdateUserPerm == UpdateInCloud(GetUserPerm)
DeleteUserPerm == Removal(GetUserPerm)
userPermissionHandler ==
    ClientRoutes(CreateUserPerm, UpdateUserPerm, DeleteUserPerm, GetUserPerm)

-----------------------------------------------------------------------------
(* ovnaction: network controller intents.  The intents of workloads and of *)
(* their interfaces keep the name of the project in a field "provider".    *)

NetControlIntentKey == {"netcontrolintent"} \cup DeploymentIntentGroupKey
GetNetControlIntent == Doc("NetControlIntent", "netcontrolintentmetadata")
CreateNetControlIntent(exists) ==
    Fresh(exists, GetNetControlIntent) \o Put(GetNetControlIntent)
DeleteNetControlIntent == Removal(GetNetControlIntent)
netcontrolintentHandler ==
    [POST |-> CreateNetControlIntent(FALSE), PUT |-> CreateNetControlIntent(TRUE)]
netcontrolintentReadHandler ==
    [GET |-> {GetNetControlIntent}, DELETE |-> DeleteNetControlIntent]

WorkloadIntentKey ==
    {"workloadintent", "netcontrolintent", "deploymentintentgroup",
     "compositeapp", "compositeappversion", "provider"}
GetWorkloadIntent == Doc("WorkloadIntent", "workloadintentmetadata")
CreateWorkloadIntent(exists) ==
    Present(GetNetControlIntent) \o Fresh(exists, GetWorkloadIntent)
    \o Put(GetWorkloadIntent)
DeleteWorkloadIntent == Removal(GetWorkloadIntent)
workloadintentHandler ==
    [POST |-> CreateWorkloadIntent(FALSE), PUT |-> CreateWorkloadIntent(TRUE)]
workloadintentReadHandler ==
    [GET |-> {GetWorkloadIntent}, DELETE |-> DeleteWorkloadIntent]

WorkloadIfIntentKey == {"workloadifintent"} \cup WorkloadIntentKey
GetWorkloadIfIntent == Doc("WorkloadIfIntent", "workloadifintentmetadata")
CreateWorkloadIfIntent(exists) ==
    Present(GetWorkloadIntent) \o Fresh(exists, GetWorkloadIfIntent)
    \o Put(GetWorkloadIfIntent)
DeleteWorkloadIfIntent == Removal(GetWorkloadIfIntent)
workloadifintentHandler ==
    [POST |-> CreateWorkloadIfIntent(FALSE), PUT |-> CreateWorkloadIfIntent(TRUE)]
workloadifintentReadHandler ==
    [GET |-> {GetWorkloadIfIntent}, DELETE |-> DeleteWorkloadIfIntent]

ChainKey == {"networkchain"} \cup NetControlIntentKey
GetChain == Doc("Chain", "chainmetadata")
CreateChain(exists) ==
    Present(GetNetControlIntent) \o Fresh(exists, GetChain) \o Put(GetChain)
DeleteChain == Removal(GetChain)
chainHandler == [POST |-> CreateChain(FALSE), PUT |-> CreateChain(TRUE)]
chainReadHandler == [GET |-> {GetChain}, DELETE |-> DeleteChain]

-----------------------------------------------------------------------------
(* The tables the other modules take: per kind its collection, the fields  *)
(* of its key, and the routes.                                             *)

OrchestratorKey ==
    [Project |-> ProjectKey, CompositeApp |-> CompositeAppKey, App |-> AppKey,
     CompositeProfile |-> CompositeProfileKey, AppProfile |-> AppProfileKey,
     DeploymentIntentGroup |-> DeploymentIntentGroupKey,
     GenericPlacementIntent |-> GenericPlacementIntentKey,
     AppIntent |-> AppIntentKey, Intent |-> IntentKey,
     LogicalCloud |-> LogicalCloudKey, ClusterReference |-> ClusterReferenceKey,
     Quota |-> QuotaKey, KeyValue |-> KeyValueKey,
     UserPermission |-> UserPermissionKey,
     NetControlIntent |-> NetControlIntentKey, WorkloadIntent |-> WorkloadIntentKey,
     WorkloadIfIntent |-> WorkloadIfIntentKey, Chain |-> ChainKey]

ClusterCollectionKey ==
    [ClusterProvider |-> ClusterProviderKey, Cluster |-> ClusterKey,
     ClusterLabel |-> ClusterLabelKey, ClusterKvPairs |-> ClusterKvPairsKey,
     Network |-> NetworkKey, ProviderNet |-> ProviderNetKey]

ControllerCollectionKey == [Controller |-> ControllerKey]

\* A filter looks into one collection only: its name counts as a field.
KeyOf ==
    LET In(coll, keys) == [k \in DOMAIN keys |-> {coll} \cup keys[k]]
    IN  In("in orchestrator", OrchestratorKey)
        @@ In("in cluster", ClusterCollectionKey)
        @@ In("in controller", ControllerCollectionKey)

RoutesOf ==
    [Project |-> projectHandler, CompositeApp |-> compositeAppHandler,
     App |-> appHandler @@ appReadHandler,
     CompositeProfile |-> compositeProfileHandler,
     AppProfile |-> appProfileHandler @@ appProfileReadHandler,
     DeploymentIntentGroup |-> deploymentIntentGroupHandler,
     GenericPlacementIntent |-> genericPlacementIntentHandler,
     AppIntent |-> appIntentHandler @@ appIntentReadHandler,
     Intent |-> intentHandler @@ intentDeleteHandler,
     Controller |-> controllerHandler @@ controllerReadHandler,
     ClusterProvider |-> clusterProviderHandler,
     Cluster |-> clusterHandler @@ clusterReadHandler,
     ClusterLabel |-> clusterLabelHandler, ClusterKvPairs |-> clusterKvPairsHandler,
     Network |-> networkHandler @@ networkReadHandler,
     ProviderNet |-> providernetHandler @@ providernetReadHandler,
     LogicalCloud |-> logicalCloudHandler, ClusterReference |-> clusterReferenceHandler,
     Quota |-> quotaHandler, KeyValue |-> keyValueHandler,
     UserPermission |-> userPermissionHandler,
     NetControlIntent |-> netcontrolintentHandler @@ netcontrolintentReadHandler,
     WorkloadIntent |-> workloadintentHandler @@ workloadintentReadHandler,
     WorkloadIfIntent |-> workloadifintentHandler @@ workloadifintentReadHandler,
     Chain |-> chainHandler @@ chainReadHandler]

=============================================================================
