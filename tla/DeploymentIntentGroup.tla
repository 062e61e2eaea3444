----------------------- MODULE DeploymentIntentGroup -----------------------
(***************************************************************************)
(* The life of one deployment intent group in the EMCO orchestrator: the   *)
(* API requests that create, approve, instantiate, terminate and delete it.*)
(* Every request reads the stateInfo of the group from mongo, works, and   *)
(* writes its own copy back with one action appended.  Nothing locks the   *)
(* group between the two.  An instantiation makes an AppContext in etcd    *)
(* and hands it to rsync, of which only the status an AppContext goes      *)
(* through is kept here (module AppContext).                               *)
(*                                                                         *)
(* A request that is refused changes nothing and is not modelled.          *)
(***************************************************************************)
EXTENDS Naturals, Sequences

CONSTANTS
    Reqs,        \* the requests that can be in progress at the same time
    Ctxs,        \* the AppContext ids that RtcInit can draw
    NoCtx,       \* the empty ContextId
    MaxRequests, \* how many requests are made
    MaxFaults    \* how many calls fail or are cut off by a crash

ASSUME DigAssumption ==
    /\ NoCtx \notin Ctxs
    /\ MaxRequests \in Nat
    /\ MaxFaults \in Nat

VARIABLES
    \* the document of the group in mongo
    meta,     \* whether it has its metadata
    actions,  \* StateInfo.Actions; <<>> when there is no stateInfo
    \* the AppContexts
    made,     \* the ids that have been used
    record,   \* the contexts etcd has
    status,   \* the status of a context, as rsync sets it
    asked,    \* the contexts rsync has been asked to uninstall
    \* the requests
    pc,       \* where a request is
    snap,     \* the copy of actions a request works with
    ctx,      \* the context a request works with
    todo,     \* the contexts a Delete request has still to remove
    \* bounds and history
    reqs, faults,
    raced     \* two requests have been in progress at the same time

docVars == <<meta, actions>>
ctxVars == <<made, record, status, asked>>
reqVars == <<pc, snap, ctx, todo>>
vars == <<docVars, ctxVars, reqVars, reqs, faults, raced>>

StateValue == {"Created", "Approved", "Instantiated", "Terminated"}
ActionEntry == [state : StateValue, ctx : Ctxs \cup {NoCtx}]
Entry(s, c) == [state |-> s, ctx |-> c]

PC == {"idle", "createMeta", "createState", "approve", "build", "prepare",
       "recordInst", "uninstall", "recordTerm", "deleteCtxs", "remove"}

\* "Instantiated" and "Terminated" stand for the failed ends as well, which
\* Delete treats alike.
Status == {"none", "Instantiating", "Instantiated", "Terminating", "Terminated"}

\* GetCurrentStateFromStateInfo and GetLastContextIdFromStateInfo.
Last(s) == s[Len(s)]
CurrentState(s) == IF s = <<>> THEN "Undefined" ELSE Last(s).state

\* Mutant: the empty ids are kept.
AllContextIds(s) == {s[i].ctx : i \in DOMAIN s}

\* GetContextIdsFromStateInfo.
ContextIds(s) == {s[i].ctx : i \in DOMAIN s} \ {NoCtx}

Init ==
    /\ meta = FALSE
    /\ actions = <<>>
    /\ made = {} /\ record = {} /\ asked = {}
    /\ status = [c \in Ctxs |-> "none"]
    /\ pc = [q \in Reqs |-> "idle"]
    /\ snap = [q \in Reqs |-> <<>>]
    /\ ctx = [q \in Reqs |-> NoCtx]
    /\ todo = [q \in Reqs |-> {}]
    /\ reqs = 0 /\ faults = 0
    /\ raced = FALSE

-----------------------------------------------------------------------------
(* Requests.                                                               *)

\* A request arrives; it reads the stateInfo and passes its checks.
Arrive(q, next) ==
    /\ reqs < MaxRequests
    /\ reqs' = reqs + 1
    /\ pc[q] = "idle"
    /\ pc' = [pc EXCEPT ![q] = next]
    /\ snap' = [snap EXCEPT ![q] = actions]
    /\ raced' = (raced \/ \E p \in Reqs : p # q /\ pc[p] # "idle")
    /\ UNCHANGED <<docVars, ctxVars, faults>>

Step(q, from, to) ==
    /\ pc[q] = from
    /\ pc' = [pc EXCEPT ![q] = to]
    /\ UNCHANGED <<snap, reqs, raced>>

\* The request is over.
Finish(q, from) ==
    /\ pc[q] = from
    /\ pc' = [pc EXCEPT ![q] = "idle"]
    /\ snap' = [snap EXCEPT ![q] = <<>>]
    /\ ctx' = [ctx EXCEPT ![q] = NoCtx]
    /\ todo' = [todo EXCEPT ![q] = {}]
    /\ UNCHANGED <<reqs, raced>>

NoFault == UNCHANGED faults
Fault == faults < MaxFaults /\ faults' = faults + 1

\* db.Insert of the stateInfo: an upsert, whatever has become of the document.
\* When it fails the request returns the error and undoes nothing.
Record(q, from, entry) ==
    /\ Finish(q, from)
    /\ \/ NoFault /\ actions' = Append(snap[q], entry)
       \/ Fault /\ UNCHANGED actions
    /\ UNCHANGED <<meta, ctxVars>>

-----------------------------------------------------------------------------
(* CreateDeploymentIntentGroup: two inserts.                               *)

Create(q) ==
    /\ ~ meta
    /\ Arrive(q, "createMeta")
    /\ UNCHANGED <<ctx, todo>>

CreateMeta(q) ==
    /\ Step(q, "createMeta", "createState")
    /\ meta' = TRUE
    /\ UNCHANGED <<actions, ctxVars, ctx, todo, faults>>

\* The history starts anew, not from the copy.
CreateState(q) ==
    /\ Finish(q, "createState")
    /\ \/ NoFault /\ actions' = <<Entry("Created", NoCtx)>>
       \/ Fault /\ UNCHANGED actions
    /\ UNCHANGED <<meta, ctxVars>>

-----------------------------------------------------------------------------
(* Approve.                                                                *)

\* Mutant: an instantiated group can be approved again.
ApprovableAgain(s) == CurrentState(s) \in {"Created", "Instantiated", "Terminated"}

Approvable(s) == CurrentState(s) \in {"Created", "Terminated"}

Approve(q) ==
    /\ Approvable(actions)
    /\ Arrive(q, "approve")
    /\ UNCHANGED <<ctx, todo>>

RecordApproved(q) == Record(q, "approve", Entry("Approved", NoCtx))

-----------------------------------------------------------------------------
(* Instantiate.                                                            *)

\* Mutant: a group can be instantiated without approval.
InstantiableUnapproved(s) == CurrentState(s) \in {"Created", "Approved", "Terminated"}

Instantiable(s) == CurrentState(s) \in {"Approved", "Terminated"}

Instantiate(q) ==
    /\ meta
    /\ Instantiable(actions)
    /\ Arrive(q, "build")
    /\ UNCHANGED <<ctx, todo>>

\* makeAppContextForCompositeApp.
MakeContext(q, c) ==
    /\ Step(q, "build", "prepare")
    /\ c \in Ctxs \ made
    /\ made' = made \cup {c}
    /\ record' = record \cup {c}
    /\ ctx' = [ctx EXCEPT ![q] = c]
    /\ UNCHANGED <<docVars, status, asked, todo, faults>>

\* Templates, intents, placement and the controllers: an error deletes the
\* context, except one of getPrioritizedControllerList, which leaves it.
PrepareFails(q) ==
    /\ Finish(q, "prepare")
    /\ Fault
    /\ record' \in {record, record \ {ctx[q]}}
    /\ UNCHANGED <<docVars, made, status, asked>>

\* Mutant: the context is deleted whether the call worked or not.
CallInstallCleansUp(q) ==
    /\ Step(q, "prepare", "recordInst")
    /\ status' = [status EXCEPT ![ctx[q]] = "Instantiating"]
    /\ record' = record \ {ctx[q]}
    /\ UNCHANGED <<docVars, made, asked, ctx, todo, faults>>

\* callRsyncInstall.  An error, which may hide that rsync has started (the
\* call has a deadline of ten seconds), deletes the context.
CallInstall(q) ==
    /\ Step(q, "prepare", "recordInst")
    /\ status' = [status EXCEPT ![ctx[q]] = "Instantiating"]
    /\ UNCHANGED <<docVars, made, record, asked, ctx, todo, faults>>

CallInstallFails(q) ==
    /\ Finish(q, "prepare")
    /\ Fault
    /\ status' \in {status, [status EXCEPT ![ctx[q]] = "Instantiating"]}
    /\ record' = record \ {ctx[q]}
    /\ UNCHANGED <<docVars, made, asked>>

RecordInstantiated(q) == Record(q, "recordInst", Entry("Instantiated", ctx[q]))

-----------------------------------------------------------------------------
(* Terminate.                                                              *)

Terminable(s) == CurrentState(s) = "Instantiated"

Terminate(q) ==
    /\ Terminable(actions)
    /\ Arrive(q, "uninstall")
    /\ ctx' = [ctx EXCEPT ![q] = Last(actions).ctx]
    /\ UNCHANGED todo

\* callRsyncUninstall: rsync refuses a context etcd does not have.
CallUninstall(q) ==
    /\ ctx[q] \in record
    /\ Step(q, "uninstall", "recordTerm")
    /\ asked' = asked \cup {ctx[q]}
    /\ UNCHANGED <<docVars, made, record, status, ctx, todo, faults>>

\* Mutant: the error of the call is not returned.
CallUninstallFailsSilently(q) ==
    /\ Step(q, "uninstall", "recordTerm")
    /\ \/ ctx[q] \notin record /\ NoFault
       \/ Fault
    /\ UNCHANGED <<docVars, ctxVars, ctx, todo>>

CallUninstallFails(q) ==
    /\ Finish(q, "uninstall")
    /\ \/ ctx[q] \notin record /\ NoFault /\ UNCHANGED asked
       \/ Fault /\ asked' \in {asked, asked \cup (record \cap {ctx[q]})}
    /\ UNCHANGED <<docVars, made, record, status>>

RecordTerminated(q) == Record(q, "recordTerm", Entry("Terminated", ctx[q]))

-----------------------------------------------------------------------------
(* DeleteDeploymentIntentGroup.                                            *)

\* The state in which the group goes with no look at its contexts.
Removable(s) == CurrentState(s) \in {"Created", "Approved"}

\* The last context must have ended terminating; an error in reading its
\* status (it has no record any more) counts as that.
Terminated(s) ==
    /\ CurrentState(s) = "Terminated"
    /\ Last(s).ctx \in record => status[Last(s).ctx] = "Terminated"

Delete(q) ==
    /\ \/ Removable(actions) /\ Arrive(q, "remove") /\ UNCHANGED todo
       \/ /\ Terminated(actions)
          /\ Arrive(q, "deleteCtxs")
          /\ todo' = [todo EXCEPT ![q] = ContextIds(actions)]
    /\ UNCHANGED ctx

\* The contexts of the history, in no particular order.
DeleteContext(q, c) ==
    /\ c \in todo[q] \cap record
    /\ Step(q, "deleteCtxs", IF todo[q] = {c} THEN "remove" ELSE "deleteCtxs")
    /\ todo' = [todo EXCEPT ![q] = @ \ {c}]
    /\ record' = record \ {c}
    /\ UNCHANGED <<docVars, made, status, asked, ctx, faults>>

\* A context that is gone is an error, and so is one etcd fails to delete.
DeleteContextFails(q) ==
    /\ Finish(q, "deleteCtxs")
    /\ \/ NoFault /\ ~ (todo[q] \subseteq record)
       \/ Fault
    /\ UNCHANGED <<docVars, ctxVars>>

Remove(q) ==
    /\ Finish(q, "remove")
    /\ \/ NoFault /\ meta' = FALSE /\ actions' = <<>>
       \/ Fault /\ UNCHANGED docVars
    /\ UNCHANGED ctxVars

-----------------------------------------------------------------------------
(* The orchestrator is killed: the requests are gone, mongo and etcd stay. *)

Crash ==
    /\ Fault
    /\ \E q \in Reqs : pc[q] # "idle"
    /\ pc' = [q \in Reqs |-> "idle"]
    /\ snap' = [q \in Reqs |-> <<>>]
    /\ ctx' = [q \in Reqs |-> NoCtx]
    /\ todo' = [q \in Reqs |-> {}]
    /\ UNCHANGED <<docVars, ctxVars, reqs, raced>>

\* rsync, on a context that etcd has: it ends the instantiation, begins the
\* termination it was asked for, and ends that.
RsyncStep(c) ==
    /\ c \in record
    /\ \/ status[c] = "Instantiating" /\ status' = [status EXCEPT ![c] = "Instantiated"]
       \/ /\ status[c] = "Instantiated"
          /\ c \in asked
          /\ status' = [status EXCEPT ![c] = "Terminating"]
       \/ status[c] = "Terminating" /\ status' = [status EXCEPT ![c] = "Terminated"]
    /\ UNCHANGED <<docVars, made, record, asked, reqVars, reqs, faults, raced>>

RequestNext(q) ==
    \/ Create(q) \/ CreateMeta(q) \/ CreateState(q)
    \/ Approve(q) \/ RecordApproved(q)
    \/ Instantiate(q) \/ PrepareFails(q) \/ CallInstall(q) \/ CallInstallFails(q)
    \/ RecordInstantiated(q)
    \/ Terminate(q) \/ CallUninstall(q) \/ CallUninstallFails(q) \/ RecordTerminated(q)
    \/ Delete(q) \/ DeleteContextFails(q) \/ Remove(q)
    \/ \E c \in Ctxs : MakeContext(q, c) \/ DeleteContext(q, c)

Next ==
    \/ \E q \in Reqs : RequestNext(q)
    \/ \E c \in Ctxs : RsyncStep(c)
    \/ Crash

Spec == Init /\ [][Next]_vars

-----------------------------------------------------------------------------
(* Properties.                                                             *)

\* Every variable stays in its range.
TypeOK ==
    /\ meta \in BOOLEAN
    /\ actions \in Seq(ActionEntry)
    /\ made \subseteq Ctxs /\ record \subseteq made /\ asked \subseteq made
    /\ status \in [Ctxs -> Status]
    /\ pc \in [Reqs -> PC]
    /\ snap \in [Reqs -> Seq(ActionEntry)]
    /\ ctx \in [Reqs -> Ctxs \cup {NoCtx}]
    /\ todo \in [Reqs -> SUBSET Ctxs]
    /\ reqs \in Nat /\ faults \in Nat
    /\ raced \in BOOLEAN

\* The switch statements of Approve and Instantiate and the test of Terminate:
\* which action may follow which.
LegalStep(a, b) ==
    \/ a.state \in {"Created", "Terminated"} /\ b = Entry("Approved", NoCtx)
    \/ a.state \in {"Approved", "Terminated"} /\ b.state = "Instantiated" /\ b.ctx \in Ctxs
    \/ a.state = "Instantiated" /\ b = Entry("Terminated", a.ctx)

Legal(s) ==
    /\ s # <<>> => s[1] = Entry("Created", NoCtx)
    /\ \A i \in DOMAIN s : i + 1 \in DOMAIN s => LegalStep(s[i], s[i + 1])
    /\ \A i, j \in DOMAIN s :
         s[i].state = "Instantiated" /\ s[j].state = "Instantiated" /\ s[i].ctx = s[j].ctx
         => i = j

\* Whatever requests race, fail or are cut off, the recorded history is one that
\* requests made one after another could have left: a legal path of states, in
\* which no context is instantiated twice and a termination names the context
\* of the instantiation before it.
HistoryLegal == Legal(actions)

\* An action is recorded only after the call to rsync it stands for, so a
\* context the group believes terminated has been handed to UninstallApp.
RecordedMeansCalled ==
    \A i \in DOMAIN actions :
        /\ actions[i].state = "Instantiated" => status[actions[i].ctx] # "none"
        /\ actions[i].state = "Terminated" => actions[i].ctx \in asked

Quiet == faults = 0 /\ ~ raced /\ \A q \in Reqs : pc[q] = "idle"

\* As long as requests come one at a time and none fails, no context is left
\* running without the group knowing: a context rsync installs and was not
\* asked to uninstall is the one the group would terminate next.
NoOrphan ==
    Quiet =>
        \A c \in Ctxs :
            status[c] # "none" /\ c \notin asked
            => CurrentState(actions) = "Instantiated" /\ Last(actions).ctx = c

\* ... and Terminate can reach it: etcd still has its record.
LastContextExists ==
    Quiet /\ CurrentState(actions) = "Instantiated" => Last(actions).ctx \in record

\* deployment_intent_groups.go:276, "Verify that the appcontext has completed
\* terminating": the group goes only when all its contexts have ended.
DeletedMeansTerminated ==
    [][ actions # <<>> /\ actions' = <<>>
        => \A c \in ContextIds(actions) : status[c] = "Terminated" ]_vars

=============================================================================
