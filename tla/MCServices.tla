----------------------------- MODULE MCServices -----------------------------
(***************************************************************************)
(* The services beside the orchestrator that hand AppContexts to rsync,    *)
(* for TLC: clm and ncm (NetworkIntents), and dcm (LogicalClouds).  They   *)
(* share etcd, and so the ids, records and statuses of the contexts, and   *)
(* nothing else: a behaviour has the requests of one of them.              *)
(***************************************************************************)
EXTENDS LogicalClouds, TLC

CONSTANTS
    Networks, ProviderNets, NoNet, MaxNetworkRequests

VARIABLES
    service, \* the one a behaviour is about
    meta, actions, nets, asked, holds, req, reqs, faults, raced, told

ncmVars == <<meta, actions, nets, asked, holds, req, reqs, faults, raced, told>>
dcmVars == <<cloud, lccontext, privatekey, children, csr, placed, used,
             lcReq, lcReqs, lcFaults, overlap>>
servicesVars == <<service, made, record, status, ncmVars, dcmVars>>

N == INSTANCE NetworkIntents WITH MaxRequests <- MaxNetworkRequests

ASSUME ServicesAssumption == N!NetworkIntentsAssumption /\ LogicalCloudsAssumption

ServicesInit == service \in {"ncm", "dcm"} /\ N!Init /\ Init

ServicesNext ==
    \/ service = "ncm" /\ N!Next /\ UNCHANGED <<service, dcmVars>>
    \/ service = "dcm" /\ Next /\ UNCHANGED <<service, ncmVars>>

ServicesSpec == ServicesInit /\ [][ServicesNext]_servicesVars

Symmetry ==
    Permutations(Reqs) \cup Permutations(Ctxs) \cup Permutations(Keys)
    \cup Permutations(Clusters)

\* Every variable of the service stays in its range.
ServicesTypeOK == (service = "ncm" => N!TypeOK) /\ (service = "dcm" => TypeOK)

\* The stateInfo of the cluster is a history of calls that were made.
HistoryCalled == N!HistoryCalled

\* The context of an applied cluster holds the networks that are stored.
AppliedIsCurrent == N!AppliedIsCurrent

\* A client that was told a network is there, or gone, was told the truth.
AnswersTrue == N!AnswersTrue

=============================================================================
