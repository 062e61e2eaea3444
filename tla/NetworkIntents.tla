--------------------------- MODULE NetworkIntents ---------------------------
(***************************************************************************)
(* The networks of one cluster: clm keeps the cluster and its stateInfo,   *)
(* ncm the networks and provider networks below it, and the scheduler of   *)
(* ncm turns them into an AppContext that rsync installs and uninstalls.   *)
(* Networks may change while the cluster is Created or Terminated only;    *)
(* but every request reads the stateInfo first and relies on it later, and *)
(* nothing locks the cluster in between.                                   *)
(*                                                                         *)
(* A request that is refused changes nothing and is no step, except one    *)
(* whose client is told that it worked.  Labels and key-value pairs, which *)
(* are in the way of a removal like networks, are in module Documents.     *)
(***************************************************************************)
EXTENDS Naturals, Sequences, FiniteSets

CONSTANTS
    Reqs,         \* the requests that can be in progress at the same time
    Ctxs,         \* the AppContext ids that InitAppContext can draw
    NoCtx,        \* the empty ContextId
    Networks, ProviderNets, \* the names of the two kinds
    NoNet,
    MaxRequests,  \* how many requests are made
    MaxFaults     \* how many calls fail or are cut off by a crash

NetworkIntentsAssumption ==
    /\ NoCtx \notin Ctxs
    /\ Networks \cap ProviderNets = {}
    /\ NoNet \notin Networks \cup ProviderNets
    /\ MaxRequests \in Nat /\ MaxFaults \in Nat

Nets == Networks \cup ProviderNets

VARIABLES
    \* mongo
    meta,     \* whether the cluster has its metadata
    actions,  \* StateInfo.Actions; <<>> when there is no stateInfo
    nets,     \* the networks and provider networks it has
    \* the AppContexts
    made, record, status, asked, \* as in module DeploymentIntentGroup
    holds,    \* the networks whose resources are in a context
    \* the requests
    req,
    \* bounds and history
    reqs, faults,
    raced,    \* two requests have been in progress at the same time
    told      \* the networks whose last request said they are there

docVars == <<meta, actions, nets>>
ctxVars == <<made, record, status, asked, holds>>
vars == <<docVars, ctxVars, req, reqs, faults, raced, told>>

StateValue == {"Created", "Applied", "Terminated"}
ActionEntry == [state : StateValue, ctx : Ctxs \cup {NoCtx}]
Entry(s, c) == [state |-> s, ctx |-> c]
Status == {"none", "Instantiating", "Instantiated", "Terminating", "Terminated"}

Last(s) == s[Len(s)]
CurrentState(s) == IF s = <<>> THEN "Undefined" ELSE Last(s).state

\* Mutant: the empty ids are kept.
AllContextIds(s) == {s[i].ctx : i \in DOMAIN s}

ContextIds(s) == {s[i].ctx : i \in DOMAIN s} \ {NoCtx}

PC == {"idle", "meta", "state", "build", "networks", "providernets", "install",
       "recordApplied", "uninstall", "recordTerm", "deleteCtxs", "count",
       "remove", "insertNet", "removeNet"}
Request ==
    [pc : PC, snap : Seq(ActionEntry), ctx : Ctxs \cup {NoCtx},
     net : Nets \cup {NoNet}, todo : SUBSET Ctxs]
Idle == [pc |-> "idle", snap |-> <<>>, ctx |-> NoCtx, net |-> NoNet, todo |-> {}]

Init ==
    /\ meta = TRUE
    /\ actions = <<Entry("Created", NoCtx)>>
    /\ nets = {} /\ told = {}
    /\ made = {} /\ record = {} /\ asked = {}
    /\ status = [c \in Ctxs |-> "none"]
    /\ holds = [c \in Ctxs |-> {}]
    /\ req = [q \in Reqs |-> Idle]
    /\ reqs = 0 /\ faults = 0
    /\ raced = FALSE

-----------------------------------------------------------------------------
(* Requests.                                                               *)

Alone(q) == \A p \in Reqs \ {q} : req[p].pc = "idle"

\* A request arrives: it has read the stateInfo and passed its checks.
Arrive(q, start) ==
    /\ reqs < MaxRequests
    /\ reqs' = reqs + 1
    /\ req[q].pc = "idle"
    /\ req' = [req EXCEPT ![q] = [start EXCEPT !.snap = actions]]
    /\ raced' = (raced \/ ~ Alone(q))
    /\ UNCHANGED <<docVars, ctxVars, faults>>

At(q, pc) == req[q].pc = pc
Goto(q, pc) ==
    /\ req' = [req EXCEPT ![q].pc = pc]
    /\ UNCHANGED <<reqs, raced>>
Finish(q) ==
    /\ req' = [req EXCEPT ![q] = Idle]
    /\ UNCHANGED <<reqs, raced>>

NoFault == UNCHANGED faults
Fault == faults < MaxFaults /\ faults' = faults + 1

\* db.Insert of the stateInfo: an upsert of the request's own copy.
Record(q, entry) ==
    /\ Finish(q)
    /\ \/ NoFault /\ actions' = Append(req[q].snap, entry)
       \/ Fault /\ UNCHANGED actions
    /\ UNCHANGED <<meta, nets, ctxVars, told>>

-----------------------------------------------------------------------------
(* clm: CreateCluster, its metadata and then its stateInfo.                *)

CreateCluster(q) ==
    /\ ~ meta
    /\ Arrive(q, [Idle EXCEPT !.pc = "meta"])
    /\ UNCHANGED told

InsertMeta(q) ==
    /\ At(q, "meta")
    /\ meta' = TRUE
    /\ Goto(q, "state")
    /\ UNCHANGED <<actions, nets, ctxVars, faults, told>>

InsertState(q) ==
    /\ At(q, "state")
    /\ \/ NoFault /\ actions' = <<Entry("Created", NoCtx)>>
       \/ Fault /\ UNCHANGED actions
    /\ Finish(q)
    /\ UNCHANGED <<meta, nets, ctxVars, told>>

-----------------------------------------------------------------------------
(* ncm: networks and provider networks.  The switch on the state returns   *)
(* an error for a network; for a provider network it wraps the nil error   *)
(* of the read before it, so that the client is told that all is well.     *)

\* Mutant: the switch of a provider network for both kinds.
RefusedIsNil(n) == TRUE

Refused(n) == n \in ProviderNets

\* Mutant: networks may change while they are applied.
ChangeableApplied(s) == CurrentState(s) \in StateValue

Changeable(s) == CurrentState(s) \in {"Created", "Terminated"}

CreateNet(q, n) ==
    /\ Changeable(actions)
    /\ Arrive(q, [Idle EXCEPT !.pc = "insertNet", !.net = n])
    /\ UNCHANGED told

DeleteNet(q, n) ==
    /\ Changeable(actions)
    /\ Arrive(q, [Idle EXCEPT !.pc = "removeNet", !.net = n])
    /\ UNCHANGED told

\* The request is over at once, and is a success.
NotChangeable(q, n) ==
    /\ CurrentState(actions) = "Applied"
    /\ Refused(n)
    /\ reqs < MaxRequests /\ At(q, "idle")
    /\ reqs' = reqs + 1
    /\ told' \in {told \cup {n}, told \ {n}}
    /\ UNCHANGED <<docVars, ctxVars, req, faults, raced>>

InsertNet(q) ==
    /\ At(q, "insertNet")
    /\ \/ NoFault /\ nets' = nets \cup {req[q].net} /\ told' = told \cup {req[q].net}
       \/ Fault /\ UNCHANGED <<nets, told>>
    /\ Finish(q)
    /\ UNCHANGED <<meta, actions, ctxVars>>

RemoveNet(q) ==
    /\ At(q, "removeNet")
    /\ \/ NoFault /\ nets' = nets \ {req[q].net} /\ told' = told \ {req[q].net}
       \/ Fault /\ UNCHANGED <<nets, told>>
    /\ Finish(q)
    /\ UNCHANGED <<meta, actions, ctxVars>>

-----------------------------------------------------------------------------
(* ncm: ApplyNetworkIntents.                                               *)

\* Mutant: what is applied can be applied again.
ApplicableAgain(s) == CurrentState(s) \in StateValue

Applicable(s) == CurrentState(s) \in {"Created", "Terminated"}

Apply(q) ==
    /\ Applicable(actions)
    /\ Arrive(q, [Idle EXCEPT !.pc = "build"])
    /\ UNCHANGED told

\* InitAppContext, CreateCompositeApp, AddApp, AddCluster.
MakeContext(q, c) ==
    /\ At(q, "build")
    /\ c \in Ctxs \ made
    /\ made' = made \cup {c}
    /\ record' = record \cup {c}
    /\ req' = [req EXCEPT ![q].ctx = c, ![q].pc = "networks"]
    /\ UNCHANGED <<docVars, status, asked, holds, reqs, faults, raced, told>>

\* oc.Apply: GetNetworks and then GetProviderNets, into the context.
AddNets(q, kind, from, to) ==
    /\ At(q, from)
    /\ holds' = [holds EXCEPT ![req[q].ctx] = @ \cup (nets \cap kind)]
    /\ Goto(q, to)
    /\ UNCHANGED <<docVars, made, record, status, asked, faults, told>>

AddNetworks(q) == AddNets(q, Networks, "networks", "providernets")

AddProviderNets(q) == AddNets(q, ProviderNets, "providernets", "install")

\* deleteAppContext, whatever failed.
BuildFails(q) ==
    /\ req[q].pc \in {"networks", "providernets"}
    /\ Fault
    /\ record' = record \ {req[q].ctx}
    /\ Finish(q)
    /\ UNCHANGED <<docVars, made, status, asked, holds, told>>

CallInstall(q) ==
    /\ At(q, "install")
    /\ status' = [status EXCEPT ![req[q].ctx] = "Instantiating"]
    /\ Goto(q, "recordApplied")
    /\ UNCHANGED <<docVars, made, record, asked, holds, faults, told>>

\* rsync may have started although the call failed.
CallInstallFails(q) ==
    /\ At(q, "install")
    /\ Fault
    /\ status' \in {status, [status EXCEPT ![req[q].ctx] = "Instantiating"]}
    /\ record' = record \ {req[q].ctx}
    /\ Finish(q)
    /\ UNCHANGED <<docVars, made, asked, holds, told>>

RecordApplied(q) ==
    At(q, "recordApplied") /\ Record(q, Entry("Applied", req[q].ctx))

-----------------------------------------------------------------------------
(* ncm: TerminateNetworkIntents.  In a state that does not allow it, it    *)
(* does nothing and wraps a nil error: a success.                          *)

Terminate(q) ==
    /\ CurrentState(actions) = "Applied"
    /\ Arrive(q, [Idle EXCEPT !.pc = "uninstall", !.ctx = Last(actions).ctx])
    /\ UNCHANGED told

CallUninstall(q) ==
    /\ At(q, "uninstall")
    /\ req[q].ctx \in record
    /\ asked' = asked \cup {req[q].ctx}
    /\ Goto(q, "recordTerm")
    /\ UNCHANGED <<docVars, made, record, status, holds, faults, told>>

CallUninstallFails(q) ==
    /\ At(q, "uninstall")
    /\ \/ req[q].ctx \notin record /\ NoFault /\ UNCHANGED asked
       \/ Fault /\ asked' \in {asked, asked \cup (record \cap {req[q].ctx})}
    /\ Finish(q)
    /\ UNCHANGED <<docVars, made, record, status, holds, told>>

RecordTerminated(q) ==
    At(q, "recordTerm") /\ Record(q, Entry("Terminated", req[q].ctx))

-----------------------------------------------------------------------------
(* clm: DeleteCluster.  The contexts go before Remove finds that the       *)
(* cluster still has networks.                                             *)

Ended(c) == c \in record => status[c] = "Terminated"

DeleteCluster(q) ==
    /\ \/ /\ CurrentState(actions) = "Created"
          /\ Arrive(q, [Idle EXCEPT !.pc = "count"])
       \/ /\ CurrentState(actions) = "Terminated"
          /\ Ended(Last(actions).ctx)
          /\ Arrive(q, [Idle EXCEPT !.pc = "deleteCtxs", !.todo = ContextIds(actions)])
    /\ UNCHANGED told

DeleteContext(q, c) ==
    /\ At(q, "deleteCtxs")
    /\ c \in req[q].todo \cap record
    /\ record' = record \ {c}
    /\ req' = [req EXCEPT ![q].todo = @ \ {c},
                          ![q].pc = IF req[q].todo = {c} THEN "count" ELSE @]
    /\ UNCHANGED <<docVars, made, status, asked, holds, reqs, faults, raced, told>>

\* A context that is gone is an error, and so is one etcd fails to delete.
DeleteContextFails(q) ==
    /\ At(q, "deleteCtxs")
    /\ \/ NoFault /\ ~ (req[q].todo \subseteq record)
       \/ Fault
    /\ Finish(q)
    /\ UNCHANGED <<docVars, ctxVars, told>>

CountChildren(q) ==
    /\ At(q, "count")
    /\ IF nets = {} THEN Goto(q, "remove") ELSE Finish(q)
    /\ UNCHANGED <<docVars, ctxVars, faults, told>>

Remove(q) ==
    /\ At(q, "remove")
    /\ \/ NoFault /\ meta' = FALSE /\ actions' = <<>>
       \/ Fault /\ UNCHANGED <<meta, actions>>
    /\ Finish(q)
    /\ UNCHANGED <<nets, ctxVars, told>>

-----------------------------------------------------------------------------

\* clm or ncm is killed: its requests are gone, mongo and etcd stay.
Crash ==
    /\ Fault
    /\ \E q \in Reqs : ~ At(q, "idle")
    /\ req' = [q \in Reqs |-> Idle]
    /\ UNCHANGED <<docVars, ctxVars, reqs, raced, told>>

\* rsync, as in module AppContext.
RsyncStep(c) ==
    /\ c \in record
    /\ \/ status[c] = "Instantiating" /\ status' = [status EXCEPT ![c] = "Instantiated"]
       \/ /\ status[c] = "Instantiated"
          /\ c \in asked
          /\ status' = [status EXCEPT ![c] = "Terminating"]
       \/ status[c] = "Terminating" /\ status' = [status EXCEPT ![c] = "Terminated"]
    /\ UNCHANGED <<docVars, made, record, asked, holds, req, reqs, faults, raced, told>>

RequestNext(q) ==
    \/ CreateCluster(q) \/ InsertMeta(q) \/ InsertState(q)
    \/ \E n \in Nets : CreateNet(q, n) \/ DeleteNet(q, n) \/ NotChangeable(q, n)
    \/ InsertNet(q) \/ RemoveNet(q)
    \/ Apply(q) \/ AddNetworks(q) \/ AddProviderNets(q) \/ BuildFails(q)
    \/ CallInstall(q) \/ CallInstallFails(q) \/ RecordApplied(q)
    \/ Terminate(q) \/ CallUninstall(q) \/ CallUninstallFails(q) \/ RecordTerminated(q)
    \/ DeleteCluster(q) \/ DeleteContextFails(q) \/ CountChildren(q) \/ Remove(q)
    \/ \E c \in Ctxs : MakeContext(q, c) \/ DeleteContext(q, c)

Next ==
    \/ \E q \in Reqs : RequestNext(q)
    \/ \E c \in Ctxs : RsyncStep(c)
    \/ Crash

Spec == Init /\ [][Next]_vars

-----------------------------------------------------------------------------
(* Properties.                                                             *)

\* Every variable stays in its range.
TypeOK ==
    /\ meta \in BOOLEAN
    /\ actions \in Seq(ActionEntry)
    /\ nets \subseteq Nets /\ told \subseteq Nets
    /\ made \subseteq Ctxs /\ record \subseteq made /\ asked \subseteq made
    /\ status \in [Ctxs -> Status]
    /\ holds \in [Ctxs -> SUBSET Nets]
    /\ req \in [Reqs -> Request]
    /\ reqs \in Nat /\ faults \in Nat
    /\ raced \in BOOLEAN

\* Which action the scheduler records after which: applications with a context
\* of their own, each followed by the termination of the same context.
LegalStep(a, b) ==
    \/ a.state \in {"Created", "Terminated"} /\ b.state = "Applied" /\ b.ctx \in Ctxs
    \/ a.state = "Applied" /\ b = Entry("Terminated", a.ctx)

\* Whatever requests race, fail or are cut off, the stateInfo of the cluster is
\* a history that requests one after another could have left, and rsync has
\* been called for each of its actions.
HistoryCalled ==
    /\ actions # <<>> => actions[1] = Entry("Created", NoCtx)
    /\ \A i \in DOMAIN actions :
          /\ i + 1 \in DOMAIN actions => LegalStep(actions[i], actions[i + 1])
          /\ actions[i].state = "Applied" => status[actions[i].ctx] # "none"
          /\ actions[i].state = "Terminated" => actions[i].ctx \in asked

\* No two requests at a time, and no faults.
Quiet == faults = 0 /\ ~ raced /\ \A q \in Reqs : At(q, "idle")

\* What is applied is what is stored: the context of an applied cluster holds
\* the networks and provider networks the database has, as long as requests
\* come one at a time.
AppliedIsCurrent ==
    Quiet /\ CurrentState(actions) = "Applied" =>
        holds[Last(actions).ctx] = nets

\* A client that was told that a network is there or gone was told the truth;
\* for provider networks this is not so while they are applied.
AnswersTrue == Quiet => told \cap Networks = nets \cap Networks

=============================================================================
