------------------------------ MODULE MiddleEnd ------------------------------
(***************************************************************************)
(* The middle end of the GUI (tools/emcoui/middle_end): one request makes, *)
(* reads or deletes a composite application with all it has, or a          *)
(* deployment intent group with its intents, by a script of calls to the   *)
(* orchestrator and ovnaction.  All requests use one OrchestrationHandler  *)
(* and leave in its fields what their later steps need.                    *)
(*                                                                         *)
(* One project; a service is a composite application in one version, with  *)
(* at most one group.  A document is <<its kind, its service, its app>>.   *)
(***************************************************************************)
EXTENDS Naturals, Sequences

CONSTANTS
    Slots,        \* the requests that can be in progress
    Services,
    Apps,         \* the apps of a service
    NoApp, NoService,
    MaxStarts,    \* bound: requests in all
    MaxFaults     \* bound: failing calls, instantiations and restarts

MiddleEndAssumption ==
    /\ NoApp \notin Apps /\ NoService \notin Services
    /\ MaxStarts \in Nat /\ MaxFaults \in Nat

VARIABLES
    \* the database of the orchestrator and ovnaction
    docs,
    running,      \* of the groups: "no", "yes", or "ending" after a terminate
    \* OrchestrationHandler, shared by all requests
    dataRead,     \* the documents in the tree
    treeFilter,   \* the service it is restricted to, and whether to its group
    compositeApp, \* the service being created, or asked for
    version,      \* whether it is the version of the service
    DigData,      \* the group being created, and whether with networks
    \* the requests
    job,
    starts, faults,
    mixed         \* ghost: two requests have got in each other's way

handler == <<dataRead, treeFilter, compositeApp, version, DigData>>
vars == <<docs, running, handler, job, starts, faults, mixed>>

PerApp == {"app", "profile", "pint", "wlint", "interface"}
Parent == [app |-> "compositeapp", cprofile |-> "compositeapp", profile |-> "cprofile",
           dig |-> "compositeapp", intents |-> "dig", gpint |-> "dig", pint |-> "gpint",
           nwint |-> "dig", wlint |-> "nwint", interface |-> "wlint"]
Kind == {"compositeapp"} \cup DOMAIN Parent

DocsOf(kinds, services) ==
    {d \in kinds \X services \X (Apps \cup {NoApp}) : (d[1] \in PerApp) = (d[3] # NoApp)}
Doc == DocsOf(Kind, Services)

ServiceKinds == {"compositeapp", "app", "cprofile", "profile"}
PlacementKinds == {"dig", "intents", "gpint", "pint"}
NetworkKinds == {"nwint", "wlint", "interface"}
DigKinds == PlacementKinds \cup NetworkKinds

\* Their keys hold the project under "provider", so what counts the children of a
\* document does not see them.
Unseen == {"wlint", "interface"}

IsParent(p, d) ==
    /\ d[1] # "compositeapp" /\ p[1] = Parent[d[1]] /\ p[2] = d[2]
    /\ p[3] \in {d[3], NoApp}
ParentIn(d, ds) == d[1] = "compositeapp" \/ \E p \in ds : IsParent(p, d)

NoFilter == [service |-> NoService, dig |-> FALSE]
NoDig == [service |-> NoService, nets |-> FALSE]

Creator == {"CreateApp", "CreateDig"}
Deleter == {"DelDig", "DelSvc"}
TreeUser == Deleter \cup {"GetAllDigs", "GetSvc"}

Idle == [op |-> "none", service |-> NoService, code |-> 0, todo |-> <<>>,
         left |-> {}, at |-> NoDig, sure |-> FALSE]

Call(verb, kind) == [verb |-> verb, kind |-> kind]
Job == [op : Creator \cup TreeUser \cup {"none"}, service : Services \cup {NoService},
        code : Nat, todo : Seq([verb : {"POST", "GET", "CHECK", "DELETE"}, kind : Kind]),
        left : SUBSET Doc, at : [service : Services \cup {NoService}, nets : BOOLEAN],
        sure : BOOLEAN]

TypeOK ==
    /\ docs \subseteq Doc
    /\ running \in [Services -> {"no", "yes", "ending"}]
    /\ dataRead \subseteq Doc
    /\ treeFilter \in [service : Services \cup {NoService}, dig : BOOLEAN]
    /\ compositeApp \in Services \cup {NoService}
    /\ DigData \in [service : Services \cup {NoService}, nets : BOOLEAN]
    /\ job \in [Slots -> Job]
    /\ \A r \in Slots : job[r].op = "none" => job[r].todo = <<>>

\* Whole services, some with a whole group.
Init ==
    /\ \E S \in SUBSET Services : \E D \in SUBSET S :
          docs = DocsOf(ServiceKinds, S) \cup DocsOf(PlacementKinds, D)
    /\ running = [s \in Services |-> "no"]
    /\ dataRead = {}
    /\ treeFilter = NoFilter
    /\ compositeApp = NoService
    /\ version = FALSE
    /\ DigData = NoDig
    /\ job = [r \in Slots |-> Idle]
    /\ starts = 0 /\ faults = 0
    /\ mixed = FALSE

Fault == faults < MaxFaults /\ faults' = faults + 1

(***************************************************************************)
(* What the requests do, step by step: a kind of documents is posted, read *)
(* or deleted.                                                             *)
(***************************************************************************)
\* Mutant: the group is deleted before its intents.
DeleteTreeAnchorsFirst(op) ==
    IF op = "DelDig" THEN <<"dig", "intents", "wlint", "nwint", "pint", "gpint">>
    ELSE <<"profile", "cprofile", "app", "compositeapp">>

\* deleteTree.
DeleteTree(op) ==
    IF op = "DelDig" THEN <<"wlint", "nwint", "pint", "gpint", "intents", "dig">>
    ELSE <<"profile", "cprofile", "app", "compositeapp">>

Steps(verb, kinds) == [i \in DOMAIN kinds |-> Call(verb, kinds[i])]

\* GetSvc does not read the composite application that its tree would begin with.
Script(op) ==
    CASE op = "CreateApp" -> Steps("POST", <<"compositeapp", "app", "cprofile", "profile">>)
      [] op = "CreateDig" -> Steps("POST", <<"dig", "intents", "gpint", "pint",
                                             "nwint", "wlint", "interface">>)
      [] op = "GetSvc" -> <<>>
      [] op = "GetAllDigs" -> Steps("GET", <<"compositeapp", "app", "dig", "gpint", "nwint", "wlint">>)
      [] op = "DelDig" -> Steps("GET", <<"compositeapp", "app", "dig", "gpint", "nwint", "wlint">>)
                          \o Steps("DELETE", DeleteTree(op))
      [] op = "DelSvc" -> Steps("GET", <<"compositeapp", "app", "dig", "cprofile", "profile">>)
                          \o <<Call("CHECK", "dig")>>
                          \o Steps("DELETE", DeleteTree(op))

Step(r) == Head(job[r].todo)
Runs(r, verb) == job[r].todo # <<>> /\ Step(r).verb = verb

Answer(r, code) ==
    job' = [job EXCEPT ![r] = [Idle EXCEPT !.code = code, !.sure = job[r].sure]]

OkCode(op) == CASE op \in Creator -> 201 [] op \in Deleter -> 204 [] OTHER -> 200

\* A step is over: its documents are all sent.
StepOver(r) ==
    IF Tail(job[r].todo) = <<>> THEN Answer(r, OkCode(job[r].op))
    ELSE job' = [job EXCEPT ![r].todo = Tail(@), ![r].left = {}]

Send(r, d, left) ==
    IF left \ {d} = {} THEN StepOver(r)
    ELSE job' = [job EXCEPT ![r].left = left \ {d}]

-----------------------------------------------------------------------------
\* Two requests that use the same field of the handler for different things, or
\* make and delete in one service.
Mix(a, b) ==
    \/ {a.op, b.op} \subseteq TreeUser /\ {a.op, b.op} \cap Deleter # {}
    \/ {a.op, b.op} \in {{"CreateApp"}, {"CreateDig"}, {"CreateApp", "GetSvc"}}
    \/ /\ {a.op, b.op} \cap Creator # {} /\ {a.op, b.op} \cap Deleter # {}
       /\ a.service = b.service

Starts(op, s) ==
    /\ starts < MaxStarts
    /\ starts' = starts + 1
    /\ mixed' = (mixed \/ \E q \in Slots :
                    job[q].op # "none" /\ Mix(job[q], [Idle EXCEPT !.op = op, !.service = s]))
    /\ UNCHANGED <<docs, running, faults>>

\* The placement intents of a group are found under the apps that the tree lists,
\* and the group is not running.
Removable(s) ==
    /\ running[s] = "no"
    /\ \A d \in docs : d[1] = "pint" /\ d[2] = s => <<"app", s, d[3]>> \in docs

Begin(r, op, s) ==
    /\ job[r].op = "none"
    /\ job' = [job EXCEPT ![r] =
                 [Idle EXCEPT !.op = op, !.service = s, !.todo = Script(op),
                              !.sure = op = "DelDig" => Removable(s)]]
    /\ Starts(op, s)

CreateApp(r, s) ==
    /\ Begin(r, "CreateApp", s)
    /\ compositeApp' = s
    /\ UNCHANGED <<dataRead, treeFilter, version, DigData>>

CreateDig(r, s) ==
    /\ Begin(r, "CreateDig", s)
    /\ \E nets \in BOOLEAN : DigData' = [service |-> s, nets |-> nets]
    /\ UNCHANGED <<dataRead, treeFilter, compositeApp, version>>

GetAllDigs(r) ==
    /\ Begin(r, "GetAllDigs", NoService)
    /\ version' = FALSE
    /\ dataRead' = {}
    /\ treeFilter' = NoFilter
    /\ UNCHANGED <<compositeApp, DigData>>

\* The tree is empty, and so is the answer.
GetSvc(s) ==
    /\ Starts("GetSvc", s)
    /\ compositeApp' = s
    /\ version' = TRUE
    /\ dataRead' = {}
    /\ treeFilter' = NoFilter
    /\ UNCHANGED <<DigData, job>>

\* Mutant: the filter is left as the handler has it.
PrepTreeReqNot(s, op) == NoFilter
PrepTreeReq(s, op) == [service |-> s, dig |-> op = "DelDig"]

Del(r, op, s) ==
    /\ Begin(r, op, s)
    /\ treeFilter' = PrepTreeReq(s, op)
    /\ dataRead' = {}
    /\ UNCHANGED <<compositeApp, version, DigData>>

-----------------------------------------------------------------------------
(* POST.                                                                   *)

\* The documents of the step, from the fields of the handler as they are now; an
\* object goes where the handler's anchor has gone.
Target(r) ==
    LET k == Step(r).kind
    IN  CASE k \in ServiceKinds -> DocsOf({k}, {compositeApp})
          [] k \in {"dig", "gpint", "nwint"} -> DocsOf({k}, {DigData.service})
          [] OTHER -> DocsOf({k}, {job[r].at.service})

\* Whether the URL and the body are of one service.
UrlFits(r) ==
    LET k == Step(r).kind
    IN  CASE k = "app" -> version
          [] k \in {"intents", "pint", "wlint", "interface"} -> job[r].at.service = DigData.service
          [] OTHER -> TRUE

\* There are no networks in the request without interfaces.
NoNetworks(r) ==
    /\ Runs(r, "POST") /\ Step(r).kind = "nwint" /\ job[r].left = {} /\ ~DigData.nets
    /\ Answer(r, 201)
    /\ UNCHANGED <<docs, running, handler, starts, faults, mixed>>

Left(r) == IF job[r].left = {} THEN Target(r) ELSE job[r].left

\* A document whose parent is not there is not created; nobody looks for the group
\* of a network intent.
Accepted(d) == d[1] = "nwint" \/ ParentIn(d, docs)

\* What an accepted POST leaves in the handler and the request.
Posted(r, d) ==
    LET k == Step(r).kind
        moved == [job EXCEPT ![r].at = IF k \in {"dig", "gpint", "nwint"} THEN DigData ELSE @]
        rest == Left(r) \ {d}
    IN  /\ docs' = docs \cup {d}
        /\ version' = (version \/ k = "compositeapp")
        /\ IF rest # {} THEN job' = [moved EXCEPT ![r].left = rest]
           ELSE IF Tail(job[r].todo) # <<>>
             THEN job' = [moved EXCEPT ![r].left = {}, ![r].todo = Tail(@)]
           ELSE Answer(r, 201)

\* Nor is one that is there created again; the request answers that it was refused.
Post(r) ==
    /\ Runs(r, "POST")
    /\ Step(r).kind = "nwint" => DigData.nets
    /\ \E d \in Left(r) :
          IF UrlFits(r) /\ d \notin docs /\ Accepted(d)
            THEN Posted(r, d)
            ELSE Answer(r, 400) /\ UNCHANGED <<docs, version>>
    /\ UNCHANGED <<running, dataRead, treeFilter, compositeApp, DigData, starts, faults, mixed>>

\* A call without an answer: for an anchor the request answers 500, whether the
\* document was created or not; for an object the process ends, see Dies.
PostFails(r) ==
    /\ Runs(r, "POST") /\ Step(r).kind \in {"compositeapp", "cprofile", "dig", "gpint", "nwint"}
    /\ Fault
    /\ Answer(r, 500)
    /\ \E d \in Left(r) :
          docs' \in {docs, IF Accepted(d) THEN docs \cup {d} ELSE docs}
    /\ UNCHANGED <<running, handler, starts, mixed>>

-----------------------------------------------------------------------------
(* GET: constructTree.                                                     *)

\* Whose children are listed; composite applications are asked for by the filter.
Asked(kind) ==
    IF kind = "compositeapp"
      THEN IF treeFilter.service = NoService THEN {} ELSE DocsOf({kind}, {treeFilter.service})
    ELSE IF kind = "dig" /\ treeFilter.dig
      THEN {d \in DocsOf({"dig"}, Services) : ParentIn(d, dataRead)}
    ELSE {p \in dataRead : p[1] = Parent[kind]}

Read(r) ==
    /\ Runs(r, "GET")
    /\ LET k == Step(r).kind
       IN  IF Asked(k) \subseteq docs
             THEN /\ dataRead' = dataRead \cup
                        {d \in docs : d[1] = k /\
                            IF k = "compositeapp" THEN Asked(k) = {} \/ d \in Asked(k)
                            ELSE ParentIn(d, dataRead)}
                  /\ StepOver(r)
             ELSE Answer(r, 404) /\ UNCHANGED dataRead
    /\ UNCHANGED <<docs, running, treeFilter, compositeApp, version, DigData, starts, faults, mixed>>

ReadFails(r) ==
    /\ Runs(r, "GET")
    /\ Fault
    /\ Answer(r, 500)
    /\ UNCHANGED <<docs, running, handler, starts, mixed>>

\* DelSvc refuses a service that has a group; if the tree is another request's and
\* has not the service, the request panics without an answer.
CheckNoDig(r) ==
    /\ Runs(r, "CHECK")
    /\ IF <<"compositeapp", job[r].service, NoApp>> \notin dataRead THEN Answer(r, 0)
       ELSE IF <<"dig", job[r].service, NoApp>> \in dataRead THEN Answer(r, 409)
       ELSE StepOver(r)
    /\ UNCHANGED <<docs, running, handler, starts, faults, mixed>>

-----------------------------------------------------------------------------
(* DELETE: deleteTree, which answers 204 whatever its calls answer.        *)

\* The documents in the tree; the placement intents of the apps in it, which need
\* not be there.  The URL of a workload intent or an interface lacks a "/".
InTree(k) ==
    CASE k = "pint" -> {d \in DocsOf({"pint"}, Services) :
                           ParentIn(d, dataRead) /\ <<"app", d[2], d[3]>> \in dataRead}
      [] k = "intents" -> {d \in DocsOf({"intents"}, Services) : ParentIn(d, dataRead)}
      [] k = "wlint" -> {}
      [] OTHER -> {d \in dataRead : d[1] = k}

\* A parent is not removed with children that are counted, nor is a group before it
\* has ended; what is not there is removed without an error, but for a group.
Refuses(d, state) ==
    \/ \E c \in docs : c[1] \notin Unseen /\ IsParent(d, c)
    \/ d[1] = "dig" /\ (d \notin docs \/ state # "no")

Delete(r) ==
    LET k == Step(r).kind
        left == IF job[r].left = {} THEN InTree(k) ELSE job[r].left
    IN  /\ Runs(r, "DELETE")
        /\ \/ left = {} /\ StepOver(r) /\ UNCHANGED <<docs, running>>
           \/ \E d \in left :
                LET state == IF running[d[2]] = "yes" /\ d \in docs THEN "ending" ELSE running[d[2]]
                IN  /\ running' = IF k = "dig" THEN [running EXCEPT ![d[2]] = state] ELSE running
                    /\ IF Refuses(d, state)
                         THEN StepOver(r) /\ UNCHANGED docs
                         ELSE docs' = docs \ {d} /\ Send(r, d, left)
        /\ UNCHANGED <<handler, starts, faults, mixed>>

\* A call without an answer ends the step, like one that is refused.
DeleteFails(r) ==
    LET left == IF job[r].left = {} THEN InTree(Step(r).kind) ELSE job[r].left
    IN  /\ Runs(r, "DELETE") /\ left # {}
        /\ Fault
        /\ IF Tail(job[r].todo) = <<>>
             THEN job' = [job EXCEPT ![r] = [Idle EXCEPT !.code = 204]]
             ELSE job' = [job EXCEPT ![r].todo = Tail(@), ![r].left = {}, ![r].sure = FALSE]
        /\ \E d \in left : docs' \in {docs, IF Refuses(d, running[d[2]]) THEN docs ELSE docs \ {d}}
        /\ UNCHANGED <<running, handler, starts, mixed>>

-----------------------------------------------------------------------------
\* Somebody instantiates a group; a termination completes.
Instantiate(s) ==
    /\ <<"dig", s, NoApp>> \in docs /\ running[s] = "no"
    /\ Fault
    /\ running' = [running EXCEPT ![s] = "yes"]
    /\ job' = [r \in Slots |-> IF job[r].service = s THEN [job[r] EXCEPT !.sure = FALSE] ELSE job[r]]
    /\ UNCHANGED <<docs, handler, starts, mixed>>

Terminated(s) ==
    /\ running[s] = "ending"
    /\ running' = [running EXCEPT ![s] = "no"]
    /\ UNCHANGED <<docs, handler, job, starts, faults, mixed>>

\* The process is killed, ends itself (log.Fatalln) when the POST of an object has
\* no answer, or is ended by the runtime when two requests write one map.
Dies ==
    /\ Fault
    /\ \E r \in Slots : job[r].op # "none"
    /\ job' = [r \in Slots |-> Idle]
    /\ dataRead' = {}
    /\ treeFilter' = NoFilter
    /\ compositeApp' = NoService
    /\ version' = FALSE
    /\ DigData' = NoDig
    /\ UNCHANGED <<docs, running, starts, mixed>>

Next ==
    \/ \E r \in Slots :
          \/ \E s \in Services :
                CreateApp(r, s) \/ CreateDig(r, s) \/ Del(r, "DelDig", s) \/ Del(r, "DelSvc", s)
          \/ GetAllDigs(r)
          \/ NoNetworks(r) \/ Post(r) \/ PostFails(r)
          \/ Read(r) \/ ReadFails(r) \/ CheckNoDig(r)
          \/ Delete(r) \/ DeleteFails(r)
    \/ \E s \in Services : GetSvc(s) \/ Instantiate(s) \/ Terminated(s)
    \/ Dies

Spec == Init /\ [][Next]_vars

(***************************************************************************)
(* Properties.                                                             *)
(***************************************************************************)
\* The documents a request is about.
Covers(j) ==
    CASE j.op \in {"CreateApp"} -> DocsOf(ServiceKinds, {j.service})
      [] j.op \in {"CreateDig", "DelDig"} -> DocsOf(DigKinds, {j.service})
      [] j.op = "DelSvc" -> DocsOf(ServiceKinds, {j.service})
      [] OTHER -> {}

\* As long as no two requests get in each other's way, a document comes or goes
\* only for a request that is about it, although every request finds in the
\* handler what the others have left there: reads beside creations, the creation
\* of an application beside that of a group, and requests after others that failed
\* or were cut off.
OnlyAsked ==
    [][~mixed =>
          /\ docs' \ docs \subseteq
               UNION {Covers(job[r]) : r \in {q \in Slots : job[q].op \in Creator}}
          /\ docs \ docs' \subseteq
               UNION {Covers(job[r]) : r \in {q \in Slots : job[q].op \in Deleter}}]_vars

\* As long, a request keeps what it answers.  After 201 all it was to create is
\* there.  After 204 the service is gone, or the group with all its intents but the
\* workload intents and the interfaces, although no answer to a DELETE is looked
\* at, if all calls were answered, the group was not running, and it had no
\* placement intents of apps that were never created.  Workload intents and
\* interfaces stay: nobody asks for their removal, and nothing is refused for them.
AnswersKept ==
    [][~mixed => \A r \in Slots : job[r].op # "none" /\ job'[r].op = "none" =>
          /\ job'[r].code = 201 =>
               Covers(job[r]) \ DocsOf(IF DigData.nets THEN {} ELSE NetworkKinds, Services) \subseteq docs'
          /\ job'[r].code = 204 /\ job'[r].sure =>
               Covers(job[r]) \cap docs' \subseteq DocsOf(Unseen, Services)]_vars

=============================================================================
