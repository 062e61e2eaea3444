---------------------------- MODULE LogicalClouds ----------------------------
(***************************************************************************)
(* One logical cloud of the distributed cloud manager (dcm): its document  *)
(* in mongo with the tags "logicalcloud", "privatekey" and "lccontext",    *)
(* the cluster references and quotas below it, and the AppContexts that    *)
(* Apply makes of them for rsync.                                          *)
(*                                                                         *)
(* Apply, Terminate, Delete and GetClusterConfig look for the context of   *)
(* the cloud under the tag "logicalcloud", where the cloud itself is, and  *)
(* not under "lccontext": they never find one (GetLogicalCloudContext).    *)
(* Terminate and GetClusterConfig then always fail and change nothing, and *)
(* what Apply and Delete do with a context they found is out of reach.     *)
(* A request that is refused changes nothing and is no step.               *)
(***************************************************************************)
EXTENDS Naturals, FiniteSets

CONSTANTS
    Reqs,        \* the requests that can be in progress at the same time
    Ctxs, NoCtx, \* the AppContext ids that InitAppContext can draw
    Keys, NoKey, \* the private keys that can be generated
    Clusters,    \* the names of cluster references
    Quotas,      \* the names of quotas
    MaxRequests, \* how many requests are made
    MaxFaults    \* how many calls fail or are cut off by a crash

LogicalCloudsAssumption ==
    /\ NoCtx \notin Ctxs /\ NoKey \notin Keys
    /\ Clusters \cap Quotas = {} /\ "none" \notin Clusters \cup Quotas
    /\ MaxRequests \in Nat /\ MaxFaults \in Nat

VARIABLES
    cloud,    \* whether the document has its tag "logicalcloud"
    lccontext, privatekey, \* its other tags
    children, \* the cluster references and quotas in the database
    made,     \* the context ids that have been used
    record,   \* the contexts etcd has
    csr,      \* the key whose signing request is in a context
    placed,   \* the clusters a context has
    status,   \* what rsync has made of a context
    used,     \* the keys that have been generated
    lcReq,    \* the requests
    lcReqs, lcFaults, \* bounds
    overlap   \* two requests have been in progress at the same time

docVars == <<cloud, lccontext, privatekey, children>>
ctxVars == <<made, record, csr, placed, status>>
vars == <<docVars, ctxVars, used, lcReq, lcReqs, lcFaults, overlap>>

PC == {"idle", "insert", "count", "remove", "insertChild", "removeChild",
       "key", "context", "clusters", "saveKey", "saveContext", "install"}
Idle == [pc |-> "idle", child |-> "none", key |-> NoKey, ctx |-> NoCtx, left |-> {}]
Request ==
    [pc : PC, child : Clusters \cup Quotas \cup {"none"}, key : Keys \cup {NoKey},
     ctx : Ctxs \cup {NoCtx}, left : SUBSET Clusters]

Init ==
    /\ cloud = FALSE /\ lccontext = NoCtx /\ privatekey = NoKey
    /\ children = {} /\ made = {} /\ record = {} /\ used = {}
    /\ csr = [c \in Ctxs |-> NoKey]
    /\ placed = [c \in Ctxs |-> {}]
    /\ status = [c \in Ctxs |-> "none"]
    /\ lcReq = [q \in Reqs |-> Idle]
    /\ lcReqs = 0 /\ lcFaults = 0
    /\ overlap = FALSE

-----------------------------------------------------------------------------
(* Requests.                                                               *)

At(q, pc) == lcReq[q].pc = pc

\* A request arrives and has passed its checks.
Arrive(q, start) ==
    /\ At(q, "idle")
    /\ lcReqs < MaxRequests
    /\ lcReqs' = lcReqs + 1
    /\ lcReq' = [lcReq EXCEPT ![q] = start]
    /\ overlap' = (overlap \/ \E p \in Reqs \ {q} : ~ At(p, "idle"))
    /\ UNCHANGED <<docVars, ctxVars, used, lcFaults>>

Set(q, new) == lcReq' = [lcReq EXCEPT ![q] = new] /\ UNCHANGED <<lcReqs, overlap>>
Finish(q) == Set(q, Idle)
NoFault == UNCHANGED lcFaults
Fault == lcFaults < MaxFaults /\ lcFaults' = lcFaults + 1

\* GetLogicalCloudContext: what the tag holds, if it is a context etcd has.
\* The value of "logicalcloud" is a cloud, and no context has its id.
Stored(tag) == IF tag = "lccontext" THEN lccontext ELSE NoCtx
GetLogicalCloudContext(tag) ==
    IF Stored(tag) \in record THEN Stored(tag) ELSE NoCtx
Found == GetLogicalCloudContext("logicalcloud")

-----------------------------------------------------------------------------
(* Create, Update and Delete of the cloud.                                 *)

Create(q) == ~ cloud /\ Arrive(q, [Idle EXCEPT !.pc = "insert"])

\* Update inserts the same tag of a cloud that is there.
Update(q) == cloud /\ Arrive(q, [Idle EXCEPT !.pc = "insert"])

Insert(q) ==
    /\ At(q, "insert")
    /\ \/ NoFault /\ cloud' = TRUE
       \/ Fault /\ UNCHANGED cloud
    /\ Finish(q)
    /\ UNCHANGED <<lccontext, privatekey, children, ctxVars, used>>

\* No context is found: the cloud goes without a look at what rsync does.
Delete(q) ==
    /\ cloud
    /\ Found = NoCtx
    /\ Arrive(q, [Idle EXCEPT !.pc = "count"])

CountChildren(q) ==
    /\ At(q, "count")
    /\ IF children = {} THEN Set(q, [Idle EXCEPT !.pc = "remove"]) ELSE Finish(q)
    /\ UNCHANGED <<docVars, ctxVars, used, lcFaults>>

Remove(q) ==
    /\ At(q, "remove")
    /\ \/ NoFault /\ cloud' = FALSE /\ lccontext' = NoCtx /\ privatekey' = NoKey
       \/ Fault /\ UNCHANGED <<cloud, lccontext, privatekey>>
    /\ Finish(q)
    /\ UNCHANGED <<children, ctxVars, used>>

-----------------------------------------------------------------------------
(* Cluster references and quotas.                                          *)

CreateChild(q, child) ==
    /\ cloud /\ child \notin children
    /\ Arrive(q, [Idle EXCEPT !.pc = "insertChild", !.child = child])

DeleteChild(q, child) == Arrive(q, [Idle EXCEPT !.pc = "removeChild", !.child = child])

InsertChild(q) ==
    /\ At(q, "insertChild")
    /\ \/ NoFault /\ children' = children \cup {lcReq[q].child}
       \/ Fault /\ UNCHANGED children
    /\ Finish(q)
    /\ UNCHANGED <<cloud, lccontext, privatekey, ctxVars, used>>

RemoveChild(q) ==
    /\ At(q, "removeChild")
    /\ \/ NoFault /\ children' = children \ {lcReq[q].child}
       \/ Fault /\ UNCHANGED children
    /\ Finish(q)
    /\ UNCHANGED <<cloud, lccontext, privatekey, ctxVars, used>>

-----------------------------------------------------------------------------
(* applyHandler and Apply.  With no cluster it is refused; with no quota   *)
(* createQuota indexes an empty list and the request dies.                 *)

Apply(q) ==
    /\ cloud
    /\ children \cap Clusters # {} /\ children \cap Quotas # {}
    /\ Found = NoCtx
    /\ Arrive(q, [Idle EXCEPT !.pc = "key", !.left = children \cap Clusters])

\* createUserCSR.
GenerateKey(q, k) ==
    /\ At(q, "key")
    /\ k \in Keys \ used
    /\ used' = used \cup {k}
    /\ Set(q, [lcReq[q] EXCEPT !.pc = "context", !.key = k])
    /\ UNCHANGED <<docVars, ctxVars, lcFaults>>

MakeContext(q, c) ==
    /\ At(q, "context")
    /\ c \in Ctxs \ made
    /\ made' = made \cup {c}
    /\ record' = record \cup {c}
    /\ Set(q, [lcReq[q] EXCEPT !.pc = "clusters", !.ctx = c])
    /\ UNCHANGED <<docVars, csr, placed, status, used, lcFaults>>

\* The loop over the clusters: the namespace and the signing request ...
AddCluster(q, cl) ==
    /\ At(q, "clusters")
    /\ cl \in lcReq[q].left
    /\ placed' = [placed EXCEPT ![lcReq[q].ctx] = @ \cup {cl}]
    /\ csr' = [csr EXCEPT ![lcReq[q].ctx] = lcReq[q].key]
    /\ Set(q, [lcReq[q] EXCEPT !.pc = "saveKey", !.left = @ \ {cl}])
    /\ UNCHANGED <<docVars, made, record, status, used, lcFaults>>

\* Mutant: the key is saved only if the cloud has none.
SaveFirstKey(q) ==
    /\ At(q, "saveKey")
    /\ privatekey' = IF privatekey = NoKey THEN lcReq[q].key ELSE privatekey
    /\ Set(q, [lcReq[q] EXCEPT !.pc = IF lcReq[q].left = {}
                                      THEN "saveContext" ELSE "clusters"])
    /\ UNCHANGED <<cloud, lccontext, children, ctxVars, used, lcFaults>>

\* ... the key in the document, and the rest of the resources.
SaveKey(q) ==
    /\ At(q, "saveKey")
    /\ privatekey' = lcReq[q].key
    /\ Set(q, [lcReq[q] EXCEPT !.pc = IF lcReq[q].left = {} THEN "saveContext" ELSE "clusters"])
    /\ UNCHANGED <<cloud, lccontext, children, ctxVars, used, lcFaults>>

\* cleanupCompositeApp.
ApplyFails(q) ==
    /\ lcReq[q].pc \in {"clusters", "saveKey", "saveContext"}
    /\ Fault
    /\ record' = record \ {lcReq[q].ctx}
    /\ Finish(q)
    /\ UNCHANGED <<docVars, made, csr, placed, status, used>>

SaveContext(q) ==
    /\ At(q, "saveContext")
    /\ lccontext' = lcReq[q].ctx
    /\ Set(q, [lcReq[q] EXCEPT !.pc = "install"])
    /\ UNCHANGED <<cloud, privatekey, children, ctxVars, used, lcFaults>>

Install(q) == [status EXCEPT ![lcReq[q].ctx] = "Instantiating"]

CallInstall(q) ==
    /\ At(q, "install")
    /\ status' = Install(q)
    /\ Finish(q)
    /\ UNCHANGED <<docVars, made, record, csr, placed, used, lcFaults>>

\* Mutant: a failed call cleans up like the failures before it.
CallInstallCleansUp(q) ==
    /\ At(q, "install")
    /\ Fault
    /\ status' \in {status, Install(q)}
    /\ record' = record \ {lcReq[q].ctx}
    /\ Finish(q)
    /\ UNCHANGED <<docVars, made, csr, placed, used>>

\* Neither the context nor its id in the document is taken back.
CallInstallFails(q) ==
    /\ At(q, "install")
    /\ Fault
    /\ status' \in {status, Install(q)}
    /\ Finish(q)
    /\ UNCHANGED <<docVars, made, record, csr, placed, used>>

-----------------------------------------------------------------------------

Crash ==
    /\ Fault
    /\ \E q \in Reqs : ~ At(q, "idle")
    /\ lcReq' = [q \in Reqs |-> Idle]
    /\ UNCHANGED <<docVars, ctxVars, used, lcReqs, overlap>>

\* rsync installs; nobody ever asks it to uninstall.
RsyncStep(c) ==
    /\ c \in record
    /\ status[c] = "Instantiating"
    /\ status' = [status EXCEPT ![c] = "Instantiated"]
    /\ UNCHANGED <<docVars, made, record, csr, placed, used, lcReq, lcReqs, lcFaults, overlap>>

RequestNext(q) ==
    \/ Create(q) \/ Update(q) \/ Insert(q)
    \/ Delete(q) \/ CountChildren(q) \/ Remove(q)
    \/ \E child \in Clusters \cup Quotas : CreateChild(q, child) \/ DeleteChild(q, child)
    \/ InsertChild(q) \/ RemoveChild(q)
    \/ Apply(q)
    \/ \E k \in Keys : GenerateKey(q, k)
    \/ \E c \in Ctxs : MakeContext(q, c)
    \/ \E cl \in Clusters : AddCluster(q, cl)
    \/ SaveKey(q) \/ ApplyFails(q) \/ SaveContext(q) \/ CallInstall(q) \/ CallInstallFails(q)

Next ==
    \/ \E q \in Reqs : RequestNext(q)
    \/ \E c \in Ctxs : RsyncStep(c)
    \/ Crash

Spec == Init /\ [][Next]_vars

-----------------------------------------------------------------------------
(* Properties.                                                             *)

\* Every variable stays in its range.
TypeOK ==
    /\ cloud \in BOOLEAN /\ overlap \in BOOLEAN
    /\ lccontext \in Ctxs \cup {NoCtx} /\ privatekey \in Keys \cup {NoKey}
    /\ children \subseteq Clusters \cup Quotas
    /\ made \subseteq Ctxs /\ record \subseteq made
    /\ csr \in [Ctxs -> Keys \cup {NoKey}]
    /\ placed \in [Ctxs -> SUBSET Clusters]
    /\ status \in [Ctxs -> {"none", "Instantiating", "Instantiated"}]
    /\ used \subseteq Keys
    /\ lcReq \in [Reqs -> Request]
    /\ \A q \in Reqs : At(q, "insertChild") => lcReq[q].child # "none"
    /\ lcReqs \in Nat /\ lcFaults \in Nat

\* The context the cloud names can be loaded, whatever requests overlap or
\* fail: a context is cleaned up only before its id is saved.
SavedContextExists == lccontext # NoCtx => lccontext \in record

\* A context is handed to rsync only after it has its whole content, and then
\* stays: what rsync works on is never deleted under it.
WorkedOnStays == \A c \in Ctxs : status[c] # "none" => c \in record

LcQuiet == lcFaults = 0 /\ ~ overlap /\ \A q \in Reqs : At(q, "idle")

\* The user's key in the document is the one whose signing request went to
\* every cluster of the context the document names, so that the certificates
\* which come back fit it.
KeyFitsContext ==
    LcQuiet /\ lccontext # NoCtx =>
        /\ privatekey = csr[lccontext]
        /\ placed[lccontext] # {}

\* logicalcloud.go:241, "The Logical Cloud is applied, please terminate first.":
\* a cloud whose context rsync has installed is not removed.
AppliedIsNotRemoved ==
    [][ lccontext # NoCtx /\ status[lccontext] = "Instantiated" => (cloud => cloud') ]_vars

=============================================================================
