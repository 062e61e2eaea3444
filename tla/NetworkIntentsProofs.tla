------------------------ MODULE NetworkIntentsProofs ------------------------
(***************************************************************************)
(* Theorems about NetworkIntents, for any number of requests, contexts,    *)
(* networks, failing calls and crashes.                                    *)
(***************************************************************************)
EXTENDS NetworkIntents, TLAPS

-----------------------------------------------------------------------------
(* The invariants.                                                         *)

\* A request about a network is about one that has a name.
NetInv == \A q \in Reqs : req[q].pc \in {"insertNet", "removeNet"} => req[q].net \in Nets

-----------------------------------------------------------------------------
(* Type correctness.                                                       *)

USE DEF docVars, ctxVars, vars, Entry

\* The fields of a request.
LEMMA RequestType ==
    ASSUME TypeOK, NEW q \in Reqs
    PROVE  /\ req[q] \in Request
           /\ req[q].pc \in PC /\ req[q].snap \in Seq(ActionEntry)
           /\ req[q].ctx \in Ctxs \cup {NoCtx} /\ req[q].net \in Nets \cup {NoNet}
           /\ req[q].todo \subseteq Ctxs
BY DEF TypeOK, Request

LEMMA IdleType == Idle \in Request /\ Idle.pc = "idle" /\ Idle.snap = <<>>
<1>1. <<>> \in Seq(ActionEntry)
  OBVIOUS
<1> QED
  BY <1>1 DEF Idle, Request, PC

\* The type invariant, and what it needs.
TypeInv == TypeOK /\ NetInv

LEMMA TypeInit == Init => TypeInv
<1> SUFFICES ASSUME Init PROVE TypeInv
  OBVIOUS
<1>1. actions \in Seq(ActionEntry)
  <2>1. Entry("Created", NoCtx) \in ActionEntry
    BY DEF ActionEntry, StateValue
  <2> QED
    BY <2>1 DEF Init
<1>2. req \in [Reqs -> Request] /\ NetInv
  BY IdleType DEF Init, NetInv
<1>3. reqs \in Nat /\ faults \in Nat /\ raced \in BOOLEAN /\ meta \in BOOLEAN
  BY DEF Init
<1>4. /\ status \in [Ctxs -> Status] /\ holds \in [Ctxs -> SUBSET Nets]
      /\ nets \subseteq Nets /\ told \subseteq Nets
      /\ made \subseteq Ctxs /\ record \subseteq made /\ asked \subseteq made
  BY DEF Init, Status
<1> QED
  BY <1>1, <1>2, <1>3, <1>4 DEF TypeInv, TypeOK

\* The type of what is not a request and not a document.
RestType ==
    /\ made \subseteq Ctxs /\ record \subseteq made /\ asked \subseteq made
    /\ status \in [Ctxs -> Status]
    /\ holds \in [Ctxs -> SUBSET Nets]

DocType ==
    /\ meta \in BOOLEAN
    /\ actions \in Seq(ActionEntry)
    /\ nets \subseteq Nets /\ told \subseteq Nets

ReqType ==
    /\ req \in [Reqs -> Request]
    /\ NetInv
    /\ reqs \in Nat /\ raced \in BOOLEAN

LEMMA Parts ==
    /\ TypeInv <=> RestType /\ DocType /\ ReqType /\ faults \in Nat
    /\ (RestType /\ DocType /\ ReqType /\ faults \in Nat)' => TypeInv'
BY DEF TypeInv, TypeOK, RestType, DocType, ReqType

\* A request that is replaced by one that may be in its place.
LEMMA SetType ==
    ASSUME TypeInv, NEW q \in Reqs, NEW new \in Request,
           req' = [req EXCEPT ![q] = new],
           new.pc \in {"insertNet", "removeNet"} => new.net \in Nets
    PROVE  req' \in [Reqs -> Request] /\ NetInv'
BY DEF TypeInv, TypeOK, NetInv

LEMMA FinishType ==
    ASSUME TypeInv, NEW q \in Reqs, Finish(q)
    PROVE  ReqType'
<1>1. req' \in [Reqs -> Request] /\ NetInv'
  BY IdleType, SetType DEF Finish
<1> QED
  BY <1>1 DEF Finish, TypeInv, TypeOK, ReqType

LEMMA GotoType ==
    ASSUME TypeInv, NEW q \in Reqs, NEW pc \in PC \ {"insertNet", "removeNet"}, Goto(q, pc)
    PROVE  ReqType'
<1> DEFINE new == [req[q] EXCEPT !.pc = pc]
<1>1. new \in Request /\ new.pc = pc
  BY RequestType DEF Request, TypeInv
<1>2. req' = [req EXCEPT ![q] = new]
  BY DEF Goto
<1>3. req' \in [Reqs -> Request] /\ NetInv'
  BY <1>1, <1>2, SetType
<1> QED
  BY <1>3 DEF Goto, TypeInv, TypeOK, ReqType

\* A request that begins with the copy it has read.
LEMMA ArriveType ==
    ASSUME TypeInv, NEW q \in Reqs, NEW start \in Request, Arrive(q, start),
           start.pc \in {"insertNet", "removeNet"} => start.net \in Nets
    PROVE  ReqType'
<1> DEFINE new == [start EXCEPT !.snap = actions]
<1>1. new \in Request /\ new.pc = start.pc /\ new.net = start.net
  BY DEF Request, TypeInv, TypeOK
<1>2. req' = [req EXCEPT ![q] = new]
  BY DEF Arrive
<1>3. req' \in [Reqs -> Request] /\ NetInv'
  BY <1>1, <1>2, SetType
<1>4. raced' \in BOOLEAN /\ reqs' \in Nat
  BY DEF Arrive, TypeInv, TypeOK
<1> QED
  BY <1>3, <1>4 DEF ReqType

\* A fault, or none.
LEMMA FaultType ==
    ASSUME TypeInv, NoFault \/ Fault
    PROVE  faults' \in Nat
BY DEF TypeInv, TypeOK, NoFault, Fault

\* The requests that begin.
LEMMA StartType ==
    ASSUME TypeInv, NEW q \in Reqs,
           \/ CreateCluster(q) \/ Apply(q) \/ Terminate(q) \/ DeleteCluster(q)
           \/ \E n \in Nets : CreateNet(q, n) \/ DeleteNet(q, n)
    PROVE  TypeInv'
<1>1. ASSUME NEW start \in Request, Arrive(q, start), UNCHANGED told,
             start.pc \in {"insertNet", "removeNet"} => start.net \in Nets
      PROVE  TypeInv'
  <2>1. ReqType'
    BY <1>1, ArriveType
  <2> QED
    BY <1>1, <2>1, Parts DEF Arrive, RestType, DocType
<1>2. CASE CreateCluster(q) \/ Apply(q)
  <2> DEFINE S(pc) == [Idle EXCEPT !.pc = pc]
  <2>1. S("meta") \in Request /\ S("build") \in Request
        /\ S("meta").pc = "meta" /\ S("build").pc = "build"
    BY IdleType DEF Request, PC, Idle
  <2> QED
    BY <1>1, <1>2, <2>1 DEF CreateCluster, Apply
<1>3. CASE Terminate(q)
  <2> DEFINE S == [Idle EXCEPT !.pc = "uninstall", !.ctx = Last(actions).ctx]
  <2>1. actions # <<>> /\ actions \in Seq(ActionEntry)
    BY <1>3 DEF Terminate, CurrentState, TypeInv, TypeOK
  <2>2. Last(actions) \in ActionEntry
    BY <2>1 DEF Last
  <2>3. Last(actions).ctx \in Ctxs \cup {NoCtx}
    BY <2>2 DEF ActionEntry
  <2>4. S \in Request /\ S.pc = "uninstall"
    BY <2>3, IdleType DEF Request, PC, Idle
  <2> QED
    BY <1>1, <1>3, <2>4 DEF Terminate
<1>4. CASE DeleteCluster(q)
  <2> DEFINE S == [Idle EXCEPT !.pc = "deleteCtxs", !.todo = ContextIds(actions)]
             C == [Idle EXCEPT !.pc = "count"]
  <2>1. \A i \in DOMAIN actions : actions[i] \in ActionEntry
    BY DEF TypeInv, TypeOK
  <2>2. ContextIds(actions) \subseteq Ctxs
    BY <2>1 DEF ContextIds, ActionEntry
  <2>3. /\ S \in Request /\ S.pc = "deleteCtxs"
        /\ C \in Request /\ C.pc = "count"
    BY <2>2, IdleType DEF Request, PC, Idle
  <2> QED
    BY <1>1, <1>4, <2>3 DEF DeleteCluster
<1>5. ASSUME NEW n \in Nets, CreateNet(q, n) \/ DeleteNet(q, n)
      PROVE  TypeInv'
  <2> DEFINE S(pc) == [Idle EXCEPT !.pc = pc, !.net = n]
  <2>1. S("insertNet") \in Request /\ S("removeNet") \in Request
        /\ S("insertNet").net = n /\ S("removeNet").net = n
    BY IdleType DEF Request, PC, Idle
  <2> QED
    BY <1>1, <1>5, <2>1 DEF CreateNet, DeleteNet
<1> QED
  BY <1>2, <1>3, <1>4, <1>5

\* The writes at the end of a request.
LEMMA WriteType ==
    ASSUME TypeInv, NEW q \in Reqs,
           \/ InsertState(q) \/ InsertNet(q) \/ RemoveNet(q) \/ RecordApplied(q)
           \/ RecordTerminated(q) \/ Remove(q)
    PROVE  TypeInv'
<1>1. Finish(q) /\ (NoFault \/ Fault) /\ UNCHANGED ctxVars
  BY DEF InsertState, InsertNet, RemoveNet, RecordApplied, RecordTerminated, Remove, Record
<1>2. RestType' /\ ReqType' /\ faults' \in Nat
  BY <1>1, FinishType, FaultType, Parts DEF RestType
<1>3. DocType'
  <2>1. CASE InsertState(q)
    <3>1. <<Entry("Created", NoCtx)>> \in Seq(ActionEntry)
      BY DEF ActionEntry, StateValue
    <3> QED
      BY <2>1, <3>1, Parts DEF InsertState, DocType
  <2>2. CASE InsertNet(q) \/ RemoveNet(q)
    <3>1. req[q].net \in Nets
      BY <2>2 DEF InsertNet, RemoveNet, At, TypeInv, NetInv
    <3> QED
      BY <2>2, <3>1, Parts DEF InsertNet, RemoveNet, DocType
  <2>3. ASSUME NEW s \in {"Applied", "Terminated"}, Record(q, Entry(s, req[q].ctx))
        PROVE  DocType'
    <3> DEFINE e == Entry(s, req[q].ctx)
    <3>1. e \in ActionEntry
      BY RequestType DEF ActionEntry, StateValue, TypeInv
    <3>2. req[q].snap \in Seq(ActionEntry)
      BY RequestType DEF TypeInv
    <3> HIDE DEF e
    <3>3. Append(req[q].snap, e) \in Seq(ActionEntry)
      BY <3>1, <3>2
    <3>4. actions' \in Seq(ActionEntry)
      BY <2>3, <3>3, Parts DEF Record, DocType, e
    <3> QED
      BY <2>3, <3>4, Parts DEF Record, DocType
  <2>4. CASE Remove(q)
    BY <2>4, Parts, <<>> \in Seq(ActionEntry) DEF Remove, DocType
  <2> QED
    BY <2>1, <2>2, <2>3, <2>4 DEF RecordApplied, RecordTerminated
<1> QED
  BY <1>2, <1>3, Parts

\* The steps on a context.
LEMMA ContextType ==
    ASSUME TypeInv, NEW q \in Reqs,
           \/ AddNetworks(q) \/ AddProviderNets(q) \/ BuildFails(q) \/ CallInstall(q)
           \/ CallInstallFails(q) \/ CallUninstall(q) \/ CallUninstallFails(q)
           \/ \E c \in Ctxs : MakeContext(q, c) \/ DeleteContext(q, c)
    PROVE  TypeInv'
<1>1. DocType'
  BY Parts DEF AddNetworks, AddProviderNets, AddNets, BuildFails, CallInstall,
     CallInstallFails, CallUninstall, CallUninstallFails, MakeContext, DeleteContext, DocType
<1>2. RestType'
  BY Parts DEF AddNetworks, AddProviderNets, AddNets, BuildFails, CallInstall,
     CallInstallFails, CallUninstall, CallUninstallFails, MakeContext, DeleteContext,
     RestType, DocType, Status
<1>3. ReqType' /\ faults' \in Nat
  <2>1. CASE \/ AddNetworks(q) \/ AddProviderNets(q) \/ CallInstall(q) \/ CallUninstall(q)
    <3>1. PICK pc \in PC \ {"insertNet", "removeNet"} : Goto(q, pc) /\ UNCHANGED faults
      BY <2>1 DEF AddNetworks, AddProviderNets, AddNets, CallInstall, CallUninstall, PC
    <3> QED
      BY <3>1, GotoType, Parts
  <2>2. CASE BuildFails(q) \/ CallInstallFails(q) \/ CallUninstallFails(q)
    BY <2>2, FinishType, FaultType DEF BuildFails, CallInstallFails, CallUninstallFails
  <2>3. ASSUME NEW c \in Ctxs, MakeContext(q, c)
        PROVE  ReqType' /\ faults' \in Nat
    <3> DEFINE new == [req[q] EXCEPT !.ctx = c, !.pc = "networks"]
    <3>1. new \in Request /\ new.pc = "networks"
      BY RequestType DEF Request, PC, TypeInv
    <3>2. req' = [req EXCEPT ![q] = new]
      BY <2>3 DEF MakeContext
    <3>3. req' \in [Reqs -> Request] /\ NetInv'
      BY <3>1, <3>2, SetType
    <3> QED
      BY <2>3, <3>3, Parts DEF MakeContext, ReqType
  <2>4. ASSUME NEW c \in Ctxs, DeleteContext(q, c)
        PROVE  ReqType' /\ faults' \in Nat
    <3> DEFINE new == [req[q] EXCEPT !.todo = @ \ {c},
                                     !.pc = IF req[q].todo = {c} THEN "count" ELSE @]
    <3>1. req[q].pc = "deleteCtxs"
      BY <2>4 DEF DeleteContext, At
    <3>2. new \in Request /\ new.pc \notin {"insertNet", "removeNet"}
      BY <3>1, RequestType DEF Request, PC, TypeInv
    <3>3. req' = [req EXCEPT ![q] = new]
      BY <2>4 DEF DeleteContext
    <3>4. req' \in [Reqs -> Request] /\ NetInv'
      BY <3>2, <3>3, SetType
    <3> QED
      BY <2>4, <3>4, Parts DEF DeleteContext, ReqType
  <2> QED
    BY <2>1, <2>2, <2>3, <2>4
<1> QED
  BY <1>1, <1>2, <1>3, Parts

LEMMA TypeStep ==
    ASSUME TypeInv, [Next]_vars
    PROVE  TypeInv'
<1>1. ASSUME NEW q \in Reqs, InsertMeta(q)
      PROVE  TypeInv'
  <2>1. ReqType'
    BY <1>1, GotoType DEF InsertMeta, PC
  <2> QED
    BY <1>1, <2>1, Parts DEF InsertMeta, RestType, DocType
<1>2. ASSUME NEW q \in Reqs, NEW n \in Nets, NotChangeable(q, n)
      PROVE  TypeInv'
  <2>1. ReqType'
    BY <1>2, Parts DEF NotChangeable, ReqType, NetInv
  <2>2. DocType'
    BY <1>2, Parts DEF NotChangeable, DocType
  <2> QED
    BY <1>2, <2>1, <2>2, Parts DEF NotChangeable, RestType
<1>3. ASSUME NEW q \in Reqs, DeleteContextFails(q)
      PROVE  TypeInv'
  <2>1. ReqType' /\ faults' \in Nat
    BY <1>3, FinishType, FaultType DEF DeleteContextFails
  <2> QED
    BY <1>3, <2>1, Parts DEF DeleteContextFails, RestType, DocType
<1>4. ASSUME NEW q \in Reqs, CountChildren(q)
      PROVE  TypeInv'
  <2>1. ReqType'
    BY <1>4, FinishType, GotoType DEF CountChildren, PC
  <2> QED
    BY <1>4, <2>1, Parts DEF CountChildren, RestType, DocType
<1>5. CASE Crash
  <2>1. ReqType'
    BY <1>5, IdleType, Parts DEF Crash, ReqType, NetInv
  <2>2. faults' \in Nat
    BY <1>5, FaultType DEF Crash
  <2> QED
    BY <1>5, <2>1, <2>2, Parts DEF Crash, RestType, DocType
<1>6. ASSUME NEW c \in Ctxs, RsyncStep(c)
      PROVE  TypeInv'
  <2>1. RestType'
    BY <1>6, Parts DEF RsyncStep, RestType, Status
  <2>2. ReqType' /\ DocType'
    BY <1>6, Parts DEF RsyncStep, ReqType, DocType, NetInv
  <2> QED
    BY <1>6, <2>1, <2>2, Parts DEF RsyncStep
<1>7. CASE UNCHANGED vars
  BY <1>7 DEF TypeInv, TypeOK, NetInv
<1> QED
  BY <1>1, <1>2, <1>3, <1>4, <1>5, <1>6, <1>7, StartType, WriteType, ContextType
     DEF Next, RequestNext

\* Every variable stays in its range in every reachable state, whatever
\* requests race and whatever fails; a context etcd has was made by a request.
THEOREM TypeCorrect == ASSUME NetworkIntentsAssumption PROVE Spec => []TypeOK
<1>1. Init => TypeInv
  BY TypeInit
<1>2. TypeInv /\ [Next]_vars => TypeInv'
  BY TypeStep
<1>3. TypeInv => TypeOK
  BY DEF TypeInv
<1> QED
  BY <1>1, <1>2, <1>3, PTL DEF Spec

-----------------------------------------------------------------------------
(* Histories.                                                              *)

\* The contexts rsync has been asked to install.
Installed == {c \in Ctxs : status[c] # "none"}

\* A history that requests one after another could have left, where inst are
\* the contexts rsync was asked to install, unin those it was asked to uninstall.
Good(s, inst, unin) ==
    /\ s # <<>> => s[1] = Entry("Created", NoCtx)
    /\ \A i \in DOMAIN s :
          /\ i + 1 \in DOMAIN s => LegalStep(s[i], s[i + 1])
          /\ s[i].state = "Applied" => s[i].ctx \in inst
          /\ s[i].state = "Terminated" => s[i].ctx \in unin

\* What a request has checked stays true of its copy of the history.
Ready(q) ==
    LET r == req[q] IN
    /\ r.pc \in {"build", "networks", "providernets", "install", "recordApplied"} =>
          Applicable(r.snap)
    /\ r.pc \in {"networks", "providernets", "install", "recordApplied"} => r.ctx \in made
    /\ r.pc = "recordApplied" => r.ctx \in Installed
    /\ r.pc \in {"uninstall", "recordTerm"} =>
          CurrentState(r.snap) = "Applied" /\ r.ctx = Last(r.snap).ctx
    /\ r.pc = "recordTerm" => r.ctx \in asked
    /\ r.pc \in {"insertNet", "removeNet"} => Changeable(r.snap)

\* The stateInfo is a good history, and so is every copy of it in a request: a
\* stale copy that is written back is a good history all the same.
HistoryInv ==
    /\ Good(actions, Installed, asked)
    /\ \A q \in Reqs : Good(req[q].snap, Installed, asked) /\ Ready(q)

\* A history stays good: contexts are only added to the two sets.
LEMMA GoodStays ==
    ASSUME NEW s, NEW inst, NEW unin, Good(s, inst, unin),
           NEW inst2, NEW unin2, inst \subseteq inst2, unin \subseteq unin2
    PROVE  Good(s, inst2, unin2)
BY DEF Good

\* The histories a cluster begins with.
LEMMA GoodShort ==
    ASSUME NEW inst, NEW unin
    PROVE  Good(<<>>, inst, unin) /\ Good(<<Entry("Created", NoCtx)>>, inst, unin)
<1>1. Good(<<>>, inst, unin)
  BY DEF Good
<1> DEFINE e == Entry("Created", NoCtx)
           s == <<e>>
<1>2. e.state = "Created"
  OBVIOUS
<1> HIDE DEF e
<1>3. DOMAIN s = {1} /\ s[1] = e
  OBVIOUS
<1> HIDE DEF s
<1>4. Good(s, inst, unin)
  BY <1>2, <1>3 DEF Good, e
<1> QED
  BY <1>1, <1>4 DEF s, e

\* Appending an action that may follow the last one, and whose call was made,
\* keeps a history good.
LEMMA GoodAppend ==
    ASSUME NEW s \in Seq(ActionEntry), NEW e \in ActionEntry, s # <<>>,
           NEW inst, NEW unin, Good(s, inst, unin), LegalStep(Last(s), e),
           e.state = "Applied" => e.ctx \in inst,
           e.state = "Terminated" => e.ctx \in unin
    PROVE  Good(Append(s, e), inst, unin)
<1> DEFINE n == Len(s)
           w == Append(s, e)
<1>1. n \in Nat \ {0} /\ DOMAIN s = 1 .. n
  OBVIOUS
<1>2. DOMAIN w = 1 .. n + 1 /\ w[n + 1] = e /\ \A i \in 1 .. n : w[i] = s[i]
  OBVIOUS
<1>3. s[n] = Last(s)
  BY DEF Last
<1> HIDE DEF n, w
<1>4. w[1] = Entry("Created", NoCtx)
  BY <1>1, <1>2 DEF Good
<1>5. ASSUME NEW i \in DOMAIN w, i + 1 \in DOMAIN w
      PROVE  LegalStep(w[i], w[i + 1])
  <2>1. CASE i = n
    BY <1>1, <1>2, <1>3, <2>1
  <2>2. CASE i # n
    <3>1. i \in 1 .. n /\ i + 1 \in 1 .. n
      BY <1>1, <1>2, <1>5, <2>2
    <3> QED
      BY <1>1, <1>2, <3>1 DEF Good
  <2> QED
    BY <2>1, <2>2
<1>6. \A i \in DOMAIN w : i = n + 1 \/ (i \in DOMAIN s /\ w[i] = s[i])
  BY <1>1, <1>2
<1>7. \A i \in DOMAIN w :
        /\ w[i].state = "Applied" => w[i].ctx \in inst
        /\ w[i].state = "Terminated" => w[i].ctx \in unin
  BY <1>2, <1>6 DEF Good
<1> QED
  BY <1>4, <1>5, <1>7 DEF Good, w

\* Contexts are made, installed and uninstalled for good.
Grows == made \subseteq made' /\ Installed \subseteq Installed' /\ asked \subseteq asked'

LEMMA HistoryInit == Init => HistoryInv
BY GoodShort DEF Init, HistoryInv, Ready, Idle

\* A step that leaves the requests of others alone, the copy of q good and q
\* ready, keeps the invariant, if the recorded history stays good.
LEMMA OneRequest ==
    ASSUME HistoryInv, Grows, NEW q \in Reqs,
           Good(actions', Installed', asked'),
           Good(req'[q].snap, Installed', asked'), Ready(q)',
           \A p \in Reqs \ {q} : req'[p] = req[p]
    PROVE  HistoryInv'
<1>1. \A p \in Reqs \ {q} : Good(req'[p].snap, Installed', asked')
  BY GoodStays DEF HistoryInv, Grows
<1>2. \A p \in Reqs \ {q} : Ready(p)'
  BY DEF HistoryInv, Ready, Grows
<1> QED
  BY <1>1, <1>2 DEF HistoryInv

\* The recorded history and the copies stay good when they do not change.
LEMMA Unchanged ==
    ASSUME HistoryInv, Grows
    PROVE  /\ UNCHANGED actions => Good(actions', Installed', asked')
           /\ \A q \in Reqs : req'[q].snap = req[q].snap =>
                 Good(req'[q].snap, Installed', asked')
           /\ \A q \in Reqs : req'[q].snap = actions =>
                 Good(req'[q].snap, Installed', asked')
BY GoodStays DEF HistoryInv, Grows

\* A request that ends is ready for nothing.
LEMMA FinishHistory ==
    ASSUME TypeInv, HistoryInv, Grows, NEW q \in Reqs, Finish(q),
           Good(actions', Installed', asked')
    PROVE  HistoryInv'
<1>1. req'[q] = Idle /\ \A p \in Reqs \ {q} : req'[p] = req[p]
  BY DEF Finish, TypeInv, TypeOK
<1>2. Good(req'[q].snap, Installed', asked')
  BY <1>1, GoodShort, IdleType
<1>3. Ready(q)'
  BY <1>1, IdleType DEF Ready
<1> QED
  BY <1>1, <1>2, <1>3, OneRequest

\* A request that arrives has a copy of the recorded history.
LEMMA ArriveHistory ==
    ASSUME TypeInv, HistoryInv, NEW q \in Reqs, NEW start \in Request, Arrive(q, start),
           Ready(q)'
    PROVE  HistoryInv'
<1>1. Grows
  BY DEF Arrive, Grows, Installed
<1>2. req'[q].snap = actions /\ UNCHANGED actions
  BY DEF Arrive, TypeInv, TypeOK, Request
<1>3. \A p \in Reqs \ {q} : req'[p] = req[p]
  BY DEF Arrive, TypeInv, TypeOK
<1> QED
  BY <1>1, <1>2, <1>3, Unchanged, OneRequest

\* The write at the end of a request.
LEMMA RecordHistory ==
    ASSUME TypeInv, HistoryInv, NEW q \in Reqs, NEW entry, Record(q, entry),
           Good(Append(req[q].snap, entry), Installed, asked)
    PROVE  HistoryInv'
<1>1. UNCHANGED <<made, Installed, asked>>
  BY DEF Record, Installed
<1>2. Good(actions', Installed', asked')
  BY <1>1 DEF Record, HistoryInv
<1>3. Finish(q)
  BY DEF Record
<1> QED
  BY <1>1, <1>2, <1>3, FinishHistory DEF Grows

\* A request that goes on with the copy it has.
LEMMA KeepHistory ==
    ASSUME TypeInv, HistoryInv, Grows, UNCHANGED actions, NEW q \in Reqs,
           \A p \in Reqs \ {q} : req'[p] = req[p],
           req'[q].snap = req[q].snap, Ready(q)'
    PROVE  HistoryInv'
BY Unchanged, OneRequest

\* A step that moves a request on and changes no other field of it.
LEMMA GotoFields ==
    ASSUME TypeInv, NEW q \in Reqs, NEW pc \in PC, Goto(q, pc)
    PROVE  /\ req'[q].pc = pc /\ req'[q].snap = req[q].snap /\ req'[q].ctx = req[q].ctx
           /\ \A p \in Reqs \ {q} : req'[p] = req[p]
BY DEF Goto, TypeInv, TypeOK, Request

\* What a request was given when it arrived.
LEMMA ArriveFields ==
    ASSUME TypeInv, NEW q \in Reqs, NEW start \in Request, Arrive(q, start)
    PROVE  /\ req'[q].pc = start.pc /\ req'[q].snap = actions /\ req'[q].ctx = start.ctx
           /\ UNCHANGED actions
BY DEF Arrive, TypeInv, TypeOK, Request

\* The requests that begin.
LEMMA StartHistory ==
    ASSUME TypeInv, HistoryInv, NEW q \in Reqs,
           \/ CreateCluster(q) \/ Apply(q) \/ Terminate(q) \/ DeleteCluster(q)
           \/ \E n \in Nets : CreateNet(q, n) \/ DeleteNet(q, n)
    PROVE  HistoryInv'
<1>1. CASE CreateCluster(q) \/ DeleteCluster(q)
  <2> DEFINE S(pc, todo) == [Idle EXCEPT !.pc = pc, !.todo = todo]
             M == [Idle EXCEPT !.pc = "meta"]
             C == [Idle EXCEPT !.pc = "count"]
  <2>1. ContextIds(actions) \subseteq Ctxs
    <3>1. \A i \in DOMAIN actions : actions[i] \in ActionEntry
      BY DEF TypeInv, TypeOK
    <3> QED
      BY <3>1 DEF ContextIds, ActionEntry
  <2>2. /\ M \in Request /\ C \in Request /\ S("deleteCtxs", ContextIds(actions)) \in Request
        /\ M.pc = "meta" /\ C.pc = "count"
        /\ S("deleteCtxs", ContextIds(actions)).pc = "deleteCtxs"
    BY <2>1, IdleType DEF Request, PC, Idle
  <2>3. PICK start \in Request :
           Arrive(q, start) /\ start.pc \in {"meta", "count", "deleteCtxs"}
    BY <1>1, <2>2 DEF CreateCluster, DeleteCluster
  <2>4. Ready(q)'
    BY <2>3, ArriveFields DEF Ready
  <2> QED
    BY <2>3, <2>4, ArriveHistory
<1>2. CASE Apply(q)
  <2> DEFINE S == [Idle EXCEPT !.pc = "build"]
  <2>1. S \in Request /\ S.pc = "build"
    BY IdleType DEF Request, PC, Idle
  <2>2. Arrive(q, S) /\ Applicable(actions)
    BY <1>2 DEF Apply
  <2>3. Ready(q)'
    BY <2>1, <2>2, ArriveFields DEF Ready
  <2> QED
    BY <2>1, <2>2, <2>3, ArriveHistory
<1>3. CASE Terminate(q)
  <2> DEFINE S == [Idle EXCEPT !.pc = "uninstall", !.ctx = Last(actions).ctx]
  <2>1. actions # <<>> /\ actions \in Seq(ActionEntry)
    BY <1>3 DEF Terminate, CurrentState, TypeInv, TypeOK
  <2>2. Last(actions) \in ActionEntry
    BY <2>1 DEF Last
  <2>3. Last(actions).ctx \in Ctxs \cup {NoCtx}
    BY <2>2 DEF ActionEntry
  <2>4. S \in Request /\ S.pc = "uninstall" /\ S.ctx = Last(actions).ctx
    BY <2>3, IdleType DEF Request, PC, Idle
  <2>5. Arrive(q, S) /\ CurrentState(actions) = "Applied"
    BY <1>3 DEF Terminate
  <2>6. Ready(q)'
    BY <2>4, <2>5, ArriveFields DEF Ready
  <2> QED
    BY <2>4, <2>5, <2>6, ArriveHistory
<1>4. ASSUME NEW n \in Nets, CreateNet(q, n) \/ DeleteNet(q, n)
      PROVE  HistoryInv'
  <2> DEFINE S(pc) == [Idle EXCEPT !.pc = pc, !.net = n]
  <2>1. /\ S("insertNet") \in Request /\ S("removeNet") \in Request
        /\ S("insertNet").pc = "insertNet" /\ S("removeNet").pc = "removeNet"
    BY IdleType DEF Request, PC, Idle
  <2>2. PICK start \in Request : Arrive(q, start) /\ start.pc \in {"insertNet", "removeNet"}
    BY <1>4, <2>1 DEF CreateNet, DeleteNet
  <2>3. Changeable(actions)
    BY <1>4 DEF CreateNet, DeleteNet
  <2>4. Ready(q)'
    BY <2>2, <2>3, ArriveFields DEF Ready
  <2> QED
    BY <2>2, <2>4, ArriveHistory
<1> QED
  BY <1>1, <1>2, <1>3, <1>4

\* The writes at the end of a request.
LEMMA WriteHistory ==
    ASSUME NetworkIntentsAssumption, TypeInv, HistoryInv, NEW q \in Reqs,
           \/ InsertState(q) \/ InsertNet(q) \/ RemoveNet(q) \/ RecordApplied(q)
           \/ RecordTerminated(q) \/ Remove(q)
    PROVE  HistoryInv'
<1>1. CASE InsertState(q) \/ InsertNet(q) \/ RemoveNet(q) \/ Remove(q)
  <2>1. Grows /\ Finish(q)
    BY <1>1 DEF InsertState, InsertNet, RemoveNet, Remove, Grows, Installed
  <2>2. \/ UNCHANGED actions \/ actions' = <<>>
        \/ actions' = <<Entry("Created", NoCtx)>>
    BY <1>1 DEF InsertState, InsertNet, RemoveNet, Remove
  <2>3. Good(actions', Installed', asked')
    BY <2>1, <2>2, GoodShort, Unchanged
  <2> QED
    BY <2>1, <2>3, FinishHistory
<1>2. ASSUME NEW s \in {"Applied", "Terminated"}, Record(q, Entry(s, req[q].ctx)),
             req[q].snap # <<>>, LegalStep(Last(req[q].snap), Entry(s, req[q].ctx)),
             s = "Applied" => req[q].ctx \in Installed,
             s = "Terminated" => req[q].ctx \in asked
      PROVE  HistoryInv'
  <2> DEFINE e == Entry(s, req[q].ctx)
  <2>1. e \in ActionEntry /\ e.state = s /\ e.ctx = req[q].ctx
    BY RequestType DEF ActionEntry, StateValue, TypeInv
  <2>2. req[q].snap \in Seq(ActionEntry) /\ Good(req[q].snap, Installed, asked)
    BY RequestType DEF TypeInv, HistoryInv
  <2> HIDE DEF e
  <2>3. Good(Append(req[q].snap, e), Installed, asked)
    BY <1>2, <2>1, <2>2, GoodAppend DEF e
  <2> QED
    BY <1>2, <2>3, RecordHistory DEF e
<1>3. CASE RecordApplied(q)
  <2>1. req[q].ctx \in Installed /\ Applicable(req[q].snap)
    BY <1>3 DEF RecordApplied, At, HistoryInv, Ready
  <2>2. /\ req[q].snap # <<>>
        /\ LegalStep(Last(req[q].snap), Entry("Applied", req[q].ctx))
    BY <2>1 DEF Applicable, CurrentState, LegalStep, Installed
  <2> QED
    BY <1>2, <1>3, <2>1, <2>2 DEF RecordApplied
<1>4. CASE RecordTerminated(q)
  <2>1. /\ CurrentState(req[q].snap) = "Applied" /\ req[q].ctx = Last(req[q].snap).ctx
        /\ req[q].ctx \in asked
    BY <1>4 DEF RecordTerminated, At, HistoryInv, Ready
  <2>2. /\ req[q].snap # <<>>
        /\ LegalStep(Last(req[q].snap), Entry("Terminated", req[q].ctx))
    BY <2>1 DEF CurrentState, LegalStep
  <2> QED
    BY <1>2, <1>4, <2>1, <2>2 DEF RecordTerminated
<1> QED
  BY <1>1, <1>3, <1>4

\* The steps on a context.
LEMMA ContextHistory ==
    ASSUME TypeInv, HistoryInv, NEW q \in Reqs,
           \/ AddNetworks(q) \/ AddProviderNets(q) \/ BuildFails(q) \/ CallInstall(q)
           \/ CallInstallFails(q) \/ CallUninstall(q) \/ CallUninstallFails(q)
           \/ DeleteContextFails(q)
           \/ \E c \in Ctxs : MakeContext(q, c) \/ DeleteContext(q, c)
    PROVE  HistoryInv'
<1>1. UNCHANGED actions
  BY DEF AddNetworks, AddProviderNets, AddNets, BuildFails, CallInstall, CallInstallFails,
     CallUninstall, CallUninstallFails, MakeContext, DeleteContext, DeleteContextFails
<1>2. Grows
  <2>1. made \subseteq made' /\ asked \subseteq asked'
    BY DEF AddNetworks, AddProviderNets, AddNets, BuildFails, CallInstall, CallInstallFails,
       CallUninstall, CallUninstallFails, MakeContext, DeleteContext, DeleteContextFails
  <2>2. \A c \in Ctxs : status'[c] \in {status[c], "Instantiating"}
    BY DEF AddNetworks, AddProviderNets, AddNets, BuildFails, CallInstall, CallInstallFails,
       CallUninstall, CallUninstallFails, MakeContext, DeleteContext, DeleteContextFails,
       TypeInv, TypeOK
  <2> QED
    BY <2>1, <2>2 DEF Grows, Installed
<1>3. CASE \/ BuildFails(q) \/ CallInstallFails(q) \/ CallUninstallFails(q)
           \/ DeleteContextFails(q)
  <2>1. Finish(q)
    BY <1>3 DEF BuildFails, CallInstallFails, CallUninstallFails, DeleteContextFails
  <2> QED
    BY <1>1, <1>2, <2>1, Unchanged, FinishHistory
<1>4. CASE AddNetworks(q) \/ AddProviderNets(q)
  <2>1. PICK from \in {"networks", "providernets"}, to \in {"providernets", "install"} :
           At(q, from) /\ Goto(q, to)
    BY <1>4 DEF AddNetworks, AddProviderNets, AddNets
  <2>2. to \in PC
    BY DEF PC
  <2>3. Applicable(req[q].snap) /\ req[q].ctx \in made'
    BY <1>2, <2>1 DEF At, HistoryInv, Ready, Grows
  <2>4. Ready(q)'
    BY <2>1, <2>2, <2>3, GotoFields DEF Ready
  <2> QED
    BY <1>1, <1>2, <2>1, <2>2, <2>4, GotoFields, KeepHistory
<1>5. CASE CallInstall(q)
  <2>1. At(q, "install") /\ Goto(q, "recordApplied") /\ "recordApplied" \in PC
    BY <1>5 DEF CallInstall, PC
  <2>2. Applicable(req[q].snap) /\ req[q].ctx \in Ctxs /\ req[q].ctx \in made'
    BY <1>2, <2>1 DEF At, HistoryInv, Ready, Grows, TypeInv, TypeOK
  <2>3. req[q].ctx \in Installed'
    BY <1>5, <2>2 DEF CallInstall, Installed, TypeInv, TypeOK
  <2>4. Ready(q)'
    BY <2>1, <2>2, <2>3, GotoFields DEF Ready
  <2> QED
    BY <1>1, <1>2, <2>1, <2>4, GotoFields, KeepHistory
<1>6. CASE CallUninstall(q)
  <2>1. At(q, "uninstall") /\ Goto(q, "recordTerm") /\ "recordTerm" \in PC
    BY <1>6 DEF CallUninstall, PC
  <2>2. CurrentState(req[q].snap) = "Applied" /\ req[q].ctx = Last(req[q].snap).ctx
    BY <2>1 DEF At, HistoryInv, Ready
  <2>3. req[q].ctx \in asked'
    BY <1>6 DEF CallUninstall
  <2>4. Ready(q)'
    BY <2>1, <2>2, <2>3, GotoFields DEF Ready
  <2> QED
    BY <1>1, <1>2, <2>1, <2>4, GotoFields, KeepHistory
<1>7. ASSUME NEW c \in Ctxs, MakeContext(q, c)
      PROVE  HistoryInv'
  <2>1. /\ req'[q].pc = "networks" /\ req'[q].ctx = c /\ req'[q].snap = req[q].snap
        /\ \A p \in Reqs \ {q} : req'[p] = req[p]
    BY <1>7 DEF MakeContext, TypeInv, TypeOK, Request
  <2>2. Applicable(req[q].snap) /\ c \in made'
    BY <1>7 DEF MakeContext, At, HistoryInv, Ready
  <2>3. Ready(q)'
    BY <2>1, <2>2 DEF Ready
  <2> QED
    BY <1>1, <1>2, <2>1, <2>3, KeepHistory
<1>8. ASSUME NEW c \in Ctxs, DeleteContext(q, c)
      PROVE  HistoryInv'
  <2> DEFINE new == [req[q] EXCEPT !.todo = @ \ {c},
                                   !.pc = IF req[q].todo = {c} THEN "count" ELSE @]
  <2>1. req' = [req EXCEPT ![q] = new]
    BY <1>8 DEF DeleteContext
  <2>2. new.pc \in {"deleteCtxs", "count"} /\ new.snap = req[q].snap
    BY <1>8, RequestType DEF DeleteContext, At, Request, TypeInv
  <2>3. /\ req'[q].pc \in {"deleteCtxs", "count"} /\ req'[q].snap = req[q].snap
        /\ \A p \in Reqs \ {q} : req'[p] = req[p]
    BY <2>1, <2>2 DEF TypeInv, TypeOK
  <2>4. Ready(q)'
    BY <2>3 DEF Ready
  <2> QED
    BY <1>1, <1>2, <2>3, <2>4, KeepHistory
<1> QED
  BY <1>3, <1>4, <1>5, <1>6, <1>7, <1>8

LEMMA HistoryStep ==
    ASSUME NetworkIntentsAssumption, TypeInv, HistoryInv, [Next]_vars
    PROVE  HistoryInv'
<1>1. ASSUME NEW q \in Reqs, InsertMeta(q)
      PROVE  HistoryInv'
  <2>1. Grows /\ Goto(q, "state") /\ "state" \in PC /\ UNCHANGED actions
    BY <1>1 DEF InsertMeta, Grows, Installed, PC
  <2>2. Ready(q)'
    BY <2>1, GotoFields DEF Ready
  <2> QED
    BY <2>1, <2>2, GotoFields, KeepHistory
<1>2. ASSUME NEW q \in Reqs, CountChildren(q)
      PROVE  HistoryInv'
  <2>1. Grows /\ UNCHANGED actions /\ "remove" \in PC
    BY <1>2 DEF CountChildren, Grows, Installed, PC
  <2>2. CASE Finish(q)
    BY <2>1, <2>2, Unchanged, FinishHistory
  <2>3. CASE Goto(q, "remove")
    <3>1. Ready(q)'
      BY <2>1, <2>3, GotoFields DEF Ready
    <3> QED
      BY <2>1, <2>3, <3>1, GotoFields, KeepHistory
  <2> QED
    BY <1>2, <2>2, <2>3 DEF CountChildren
<1>3. CASE Crash
  <2>1. Grows /\ UNCHANGED actions
    BY <1>3 DEF Crash, Grows, Installed
  <2>2. \A q \in Reqs : req'[q].snap = <<>> /\ req'[q].pc = "idle"
    BY <1>3, IdleType DEF Crash
  <2>3. \A q \in Reqs : Ready(q)'
    BY <2>2 DEF Ready
  <2> QED
    BY <2>1, <2>2, <2>3, GoodShort, Unchanged DEF HistoryInv
<1>4. CASE UNCHANGED <<actions, asked, req>> /\ Grows
  <2>1. \A q \in Reqs : Ready(q)'
    BY <1>4 DEF HistoryInv, Ready, Grows
  <2> QED
    BY <1>4, <2>1, Unchanged DEF HistoryInv
<1>5. ASSUME NEW c \in Ctxs, RsyncStep(c)
      PROVE  HistoryInv'
  BY <1>4, <1>5 DEF RsyncStep, Grows, Installed, TypeInv, TypeOK
<1>6. ASSUME NEW q \in Reqs, NEW n \in Nets, NotChangeable(q, n)
      PROVE  HistoryInv'
  BY <1>4, <1>6 DEF NotChangeable, Grows, Installed
<1>7. CASE UNCHANGED vars
  BY <1>4, <1>7 DEF Grows, Installed
<1> QED
  BY <1>1, <1>2, <1>3, <1>5, <1>6, <1>7, StartHistory, WriteHistory, ContextHistory
     DEF Next, RequestNext

\* Whatever requests race, fail or are cut off, the stateInfo of a cluster is a
\* history that requests one after another could have left, and rsync has been
\* called for each of its actions.
THEOREM HistoryCalledCorrect == ASSUME NetworkIntentsAssumption PROVE Spec => []HistoryCalled
<1>1. Init => TypeInv /\ HistoryInv
  BY TypeInit, HistoryInit
<1>2. TypeInv /\ HistoryInv /\ [Next]_vars => (TypeInv /\ HistoryInv)'
  BY TypeStep, HistoryStep
<1>3. HistoryInv => HistoryCalled
  BY DEF HistoryInv, Good, HistoryCalled, Installed
<1> QED
  BY <1>1, <1>2, <1>3, PTL DEF Spec

-----------------------------------------------------------------------------
(* Requests one at a time, and none fails.                                 *)

\* A context that was not made holds nothing.
FreshInv == \A c \in Ctxs \ made : holds[c] = {}

\* What a request has put into its context.
Built(q) ==
    LET r == req[q] IN
    /\ r.pc = "networks" => holds[r.ctx] = {}
    /\ r.pc = "providernets" => holds[r.ctx] = nets \cap Networks
    /\ r.pc \in {"install", "recordApplied"} => holds[r.ctx] = nets

Calm == faults = 0 /\ ~ raced

\* While requests come one at a time and none fails: the copy a request has of
\* the history is the history, and its context holds what the database has.
CalmInv ==
    Calm =>
        /\ \A q \in Reqs : req[q].pc # "idle" => Alone(q) /\ req[q].snap = actions
        /\ \A q \in Reqs : Built(q)
        /\ CurrentState(actions) = "Applied" => holds[Last(actions).ctx] = nets

\* Clients are told of networks when they come and go.
ToldInv == told \cap Networks = nets \cap Networks

LEMMA FreshInit == Init => FreshInv
BY DEF Init, FreshInv

\* Networks are put into contexts that were made.
LEMMA FreshStep ==
    ASSUME TypeInv, HistoryInv, FreshInv, [Next]_vars
    PROVE  FreshInv'
<1>1. ASSUME UNCHANGED holds, made \subseteq made'
      PROVE  FreshInv'
  BY <1>1 DEF FreshInv
<1>2. ASSUME NEW q \in Reqs, AddNetworks(q) \/ AddProviderNets(q)
      PROVE  FreshInv'
  <2>1. req[q].ctx \in made
    BY <1>2 DEF AddNetworks, AddProviderNets, AddNets, At, HistoryInv, Ready
  <2>2. UNCHANGED made /\ \A c \in Ctxs \ {req[q].ctx} : holds'[c] = holds[c]
    BY <1>2 DEF AddNetworks, AddProviderNets, AddNets, TypeInv, TypeOK
  <2> QED
    BY <2>1, <2>2 DEF FreshInv
<1>3. ASSUME NEW q \in Reqs, RequestNext(q), ~ (AddNetworks(q) \/ AddProviderNets(q))
      PROVE  UNCHANGED holds /\ made \subseteq made'
  BY <1>3 DEF RequestNext, CreateCluster, InsertMeta, InsertState, CreateNet, DeleteNet,
     NotChangeable, InsertNet, RemoveNet, Apply, BuildFails, CallInstall, CallInstallFails,
     RecordApplied, Terminate, CallUninstall, CallUninstallFails, RecordTerminated, Record,
     DeleteCluster, DeleteContextFails, CountChildren, Remove, MakeContext, DeleteContext,
     Arrive
<1>4. CASE (\E c \in Ctxs : RsyncStep(c)) \/ Crash \/ UNCHANGED vars
  BY <1>1, <1>4 DEF RsyncStep, Crash
<1> QED
  BY <1>1, <1>2, <1>3, <1>4 DEF Next

\* A calm state comes after a calm one, and no call failed in between.
LEMMA CalmBefore ==
    ASSUME TypeInv, [Next]_vars, Calm'
    PROVE  Calm /\ ~ Fault
<1>1. ~ Fault
  BY DEF Fault, Calm, TypeInv, TypeOK
<1>2. UNCHANGED faults
  <2>1. ASSUME NEW q \in Reqs, RequestNext(q)
        PROVE  UNCHANGED faults
    BY <1>1, <2>1 DEF RequestNext, CreateCluster, InsertMeta, InsertState, CreateNet,
       DeleteNet, NotChangeable, InsertNet, RemoveNet, Apply, BuildFails, CallInstall,
       CallInstallFails, RecordApplied, Terminate, CallUninstall, CallUninstallFails,
       RecordTerminated, Record, DeleteCluster, DeleteContextFails, CountChildren, Remove,
       MakeContext, DeleteContext, Arrive, AddNetworks, AddProviderNets, AddNets, NoFault
  <2>2. CASE (\E c \in Ctxs : RsyncStep(c)) \/ Crash \/ UNCHANGED vars
    BY <1>1, <2>2 DEF RsyncStep, Crash
  <2> QED
    BY <2>1, <2>2 DEF Next
<1>3. raced => raced'
  <2>1. ASSUME NEW q \in Reqs, RequestNext(q)
        PROVE  raced => raced'
    BY <2>1 DEF RequestNext, CreateCluster, InsertMeta, InsertState, CreateNet,
       DeleteNet, NotChangeable, InsertNet, RemoveNet, Apply, BuildFails, CallInstall,
       CallInstallFails, RecordApplied, Terminate, CallUninstall, CallUninstallFails,
       RecordTerminated, Record, DeleteCluster, DeleteContextFails, CountChildren, Remove,
       MakeContext, DeleteContext, Arrive, AddNetworks, AddProviderNets, AddNets, Goto, Finish
  <2>2. CASE (\E c \in Ctxs : RsyncStep(c)) \/ Crash \/ UNCHANGED vars
    BY <2>2 DEF RsyncStep, Crash
  <2> QED
    BY <2>1, <2>2 DEF Next
<1> QED
  BY <1>1, <1>2, <1>3 DEF Calm

\* While it is calm, the context of an applied cluster holds what is stored.
Current == CurrentState(actions) = "Applied" => holds[Last(actions).ctx] = nets

LEMMA CalmInit == Init => CalmInv
BY DEF Init, CalmInv, Calm, Built, Idle, CurrentState, Last, Entry

\* The request in progress, and what the invariant says of it.
LEMMA OnlyOne ==
    ASSUME CalmInv, Calm, NEW q \in Reqs, req[q].pc # "idle"
    PROVE  /\ \A p \in Reqs \ {q} : req[p].pc = "idle"
           /\ req[q].snap = actions /\ Built(q) /\ Current
BY DEF CalmInv, Alone, Current

\* The request in progress goes on.
LEMMA KeepCalm ==
    ASSUME CalmInv, Calm, NEW q \in Reqs, req[q].pc # "idle",
           \A p \in Reqs \ {q} : req'[p] = req[p],
           req'[q].snap = req[q].snap, UNCHANGED actions, Built(q)', Current'
    PROVE  CalmInv'
<1>1. \A p \in Reqs \ {q} : req'[p].pc = "idle"
  BY OnlyOne
<1>2. \A p \in Reqs \ {q} : Built(p)'
  BY <1>1 DEF Built
<1> QED
  BY <1>1, <1>2, OnlyOne DEF CalmInv, Alone, Current

\* The request in progress ends.
LEMMA EndCalm ==
    ASSUME TypeInv, CalmInv, Calm, NEW q \in Reqs, req[q].pc # "idle", Finish(q), Current'
    PROVE  CalmInv'
<1>1. \A p \in Reqs : req'[p].pc = "idle"
  BY OnlyOne, IdleType DEF Finish, TypeInv, TypeOK
<1>2. \A p \in Reqs : Built(p)'
  BY <1>1 DEF Built
<1> QED
  BY <1>1, <1>2 DEF CalmInv, Current

\* A request begins, while no other is in progress.
LEMMA StartCalm ==
    ASSUME TypeInv, CalmInv, Calm, Calm', NEW q \in Reqs, NEW start \in Request,
           Arrive(q, start),
           start.pc \notin {"networks", "providernets", "install", "recordApplied"}
    PROVE  CalmInv'
<1>1. Alone(q)
  BY DEF Arrive, Calm
<1>2. /\ \A p \in Reqs \ {q} : req'[p].pc = "idle"
      /\ req'[q].pc = start.pc /\ req'[q].snap = actions'
  BY <1>1, ArriveFields DEF Arrive, Alone, TypeInv, TypeOK
<1>3. \A p \in Reqs : Built(p)'
  BY <1>2 DEF Built
<1>4. Current'
  BY DEF Arrive, CalmInv, Current
<1> QED
  BY <1>2, <1>3, <1>4 DEF CalmInv, Alone, Current

\* Every request begins with one of these.
LEMMA Starts ==
    ASSUME TypeInv, NEW q \in Reqs,
           \/ CreateCluster(q) \/ Apply(q) \/ Terminate(q) \/ DeleteCluster(q)
           \/ \E n \in Nets : CreateNet(q, n) \/ DeleteNet(q, n)
    PROVE  \E start \in Request :
              /\ Arrive(q, start)
              /\ start.pc \notin {"networks", "providernets", "install", "recordApplied"}
<1>1. ContextIds(actions) \subseteq Ctxs
  <2>1. \A i \in DOMAIN actions : actions[i] \in ActionEntry
    BY DEF TypeInv, TypeOK
  <2> QED
    BY <2>1 DEF ContextIds, ActionEntry
<1> DEFINE S(pc) == [Idle EXCEPT !.pc = pc]
           D == [Idle EXCEPT !.pc = "deleteCtxs", !.todo = ContextIds(actions)]
<1>2. CASE CreateCluster(q) \/ Apply(q) \/ DeleteCluster(q)
  <2>1. /\ S("meta") \in Request /\ S("build") \in Request /\ S("count") \in Request
        /\ S("meta").pc = "meta" /\ S("build").pc = "build" /\ S("count").pc = "count"
        /\ D \in Request /\ D.pc = "deleteCtxs"
    BY <1>1, IdleType DEF Request, PC, Idle
  <2> QED
    BY <1>2, <2>1 DEF CreateCluster, Apply, DeleteCluster
<1>3. CASE Terminate(q)
  <2> DEFINE T == [Idle EXCEPT !.pc = "uninstall", !.ctx = Last(actions).ctx]
  <2>1. actions # <<>> /\ actions \in Seq(ActionEntry)
    BY <1>3 DEF Terminate, CurrentState, TypeInv, TypeOK
  <2>2. Last(actions) \in ActionEntry
    BY <2>1 DEF Last
  <2>3. Last(actions).ctx \in Ctxs \cup {NoCtx}
    BY <2>2 DEF ActionEntry
  <2>4. T \in Request /\ T.pc = "uninstall"
    BY <2>3, IdleType DEF Request, PC, Idle
  <2> QED
    BY <1>3, <2>4 DEF Terminate
<1>4. ASSUME NEW n \in Nets, CreateNet(q, n) \/ DeleteNet(q, n)
      PROVE  \E start \in Request :
                /\ Arrive(q, start)
                /\ start.pc \notin {"networks", "providernets", "install", "recordApplied"}
  <2> DEFINE N(pc) == [Idle EXCEPT !.pc = pc, !.net = n]
  <2>1. /\ N("insertNet") \in Request /\ N("removeNet") \in Request
        /\ N("insertNet").pc = "insertNet" /\ N("removeNet").pc = "removeNet"
    BY IdleType DEF Request, PC, Idle
  <2> QED
    BY <1>4, <2>1 DEF CreateNet, DeleteNet
<1> QED
  BY <1>2, <1>3, <1>4

\* A request that builds or changes networks does so while nothing is applied.
LEMMA NotApplied ==
    ASSUME HistoryInv, CalmInv, Calm, NEW q \in Reqs,
           req[q].pc \in {"build", "networks", "providernets", "install", "recordApplied",
                          "insertNet", "removeNet"}
    PROVE  CurrentState(actions) # "Applied"
<1>1. Ready(q) /\ req[q].snap = actions
  BY OnlyOne DEF HistoryInv
<1> QED
  BY <1>1 DEF Ready, Applicable, Changeable

LEMMA CalmStep ==
    ASSUME NetworkIntentsAssumption, TypeInv, HistoryInv, FreshInv, CalmInv, [Next]_vars
    PROVE  CalmInv'
<1> SUFFICES ASSUME Calm'
             PROVE  CalmInv'
  BY DEF CalmInv
<1>1. Calm /\ ~ Fault
  BY CalmBefore
<1>2. ASSUME UNCHANGED <<actions, nets, holds, req>>
      PROVE  CalmInv'
  <2>1. \A q \in Reqs : Built(q)'
    BY <1>1, <1>2 DEF CalmInv, Built
  <2> QED
    BY <1>1, <1>2, <2>1 DEF CalmInv, Alone
<1>3. ASSUME NEW q \in Reqs,
             \/ CreateCluster(q) \/ Apply(q) \/ Terminate(q) \/ DeleteCluster(q)
             \/ \E n \in Nets : CreateNet(q, n) \/ DeleteNet(q, n)
      PROVE  CalmInv'
  BY <1>1, <1>3, Starts, StartCalm
<1>4. ASSUME NEW q \in Reqs, req[q].pc # "idle", NEW pc \in PC, Goto(q, pc),
             UNCHANGED <<actions, nets, holds>>,
             pc \notin {"networks", "providernets", "install", "recordApplied"}
      PROVE  CalmInv'
  <2>1. Built(q)'
    BY <1>4, GotoFields DEF Built
  <2>2. Current'
    BY <1>1, <1>4, OnlyOne DEF Current
  <2> QED
    BY <1>1, <1>4, <2>1, <2>2, GotoFields, KeepCalm
<1>5. ASSUME NEW q \in Reqs, req[q].pc # "idle", Finish(q), UNCHANGED <<actions, nets, holds>>
      PROVE  CalmInv'
  <2>1. Current'
    BY <1>1, <1>5, OnlyOne DEF Current
  <2> QED
    BY <1>1, <1>5, <2>1, EndCalm
<1>6. ASSUME NEW q \in Reqs, InsertMeta(q) \/ CallUninstall(q)
      PROVE  CalmInv'
  BY <1>4, <1>6 DEF InsertMeta, CallUninstall, At, PC
<1>7. ASSUME NEW q \in Reqs, CountChildren(q)
      PROVE  CalmInv'
  BY <1>4, <1>5, <1>7 DEF CountChildren, At, PC
<1>8. ASSUME NEW q \in Reqs, CallUninstallFails(q) \/ DeleteContextFails(q)
      PROVE  CalmInv'
  BY <1>5, <1>8 DEF CallUninstallFails, DeleteContextFails, At
<1>9. ASSUME NEW q \in Reqs, BuildFails(q) \/ CallInstallFails(q)
      PROVE  CalmInv'
  BY <1>1, <1>9 DEF BuildFails, CallInstallFails
<1>10. ASSUME NEW q \in Reqs, InsertState(q) \/ Remove(q)
       PROVE  CalmInv'
  <2>1. Finish(q) /\ req[q].pc # "idle"
    BY <1>10 DEF InsertState, Remove, At
  <2>2. actions' = <<>> \/ actions' = <<Entry("Created", NoCtx)>>
    BY <1>1, <1>10 DEF InsertState, Remove
  <2>3. CurrentState(actions)' # "Applied"
    BY <2>2 DEF CurrentState, Last
  <2> QED
    BY <1>1, <2>1, <2>3, EndCalm DEF Current
<1>11. ASSUME NEW q \in Reqs, InsertNet(q) \/ RemoveNet(q)
       PROVE  CalmInv'
  <2>1. Finish(q) /\ req[q].pc \in {"insertNet", "removeNet"} /\ UNCHANGED actions
    BY <1>11 DEF InsertNet, RemoveNet, At
  <2>2. CurrentState(actions) # "Applied"
    BY <1>1, <2>1, NotApplied
  <2> QED
    BY <1>1, <2>1, <2>2, EndCalm DEF Current, CurrentState
<1>12. ASSUME NEW q \in Reqs, NEW c \in Ctxs, MakeContext(q, c)
       PROVE  CalmInv'
  <2>1. /\ req[q].pc = "build" /\ UNCHANGED <<actions, nets, holds>> /\ holds[c] = {}
    BY <1>12 DEF MakeContext, At, FreshInv
  <2>2. /\ req'[q].pc = "networks" /\ req'[q].ctx = c /\ req'[q].snap = req[q].snap
        /\ \A p \in Reqs \ {q} : req'[p] = req[p]
    BY <1>12 DEF MakeContext, TypeInv, TypeOK, Request
  <2>3. Built(q)'
    BY <2>1, <2>2 DEF Built
  <2>4. Current'
    BY <1>1, <2>1, OnlyOne DEF Current
  <2> QED
    BY <1>1, <2>1, <2>2, <2>3, <2>4, KeepCalm
<1>13. ASSUME NEW q \in Reqs, AddNetworks(q)
       PROVE  CalmInv'
  <2>1. /\ req[q].pc = "networks" /\ Goto(q, "providernets") /\ UNCHANGED <<actions, nets>>
        /\ "providernets" \in PC
    BY <1>13 DEF AddNetworks, AddNets, At, PC
  <2>2. req[q].ctx \in Ctxs /\ holds[req[q].ctx] = {}
    BY <1>1, <2>1, OnlyOne DEF HistoryInv, Ready, Built, TypeInv, TypeOK
  <2>3. holds'[req[q].ctx] = nets \cap Networks
    BY <1>13, <2>2 DEF AddNetworks, AddNets, TypeInv, TypeOK
  <2>4. Built(q)'
    BY <2>1, <2>3, GotoFields DEF Built
  <2>5. Current'
    BY <1>1, <2>1, NotApplied DEF Current, CurrentState
  <2> QED
    BY <1>1, <2>1, <2>4, <2>5, GotoFields, KeepCalm
<1>14. ASSUME NEW q \in Reqs, AddProviderNets(q)
       PROVE  CalmInv'
  <2>1. /\ req[q].pc = "providernets" /\ Goto(q, "install") /\ UNCHANGED <<actions, nets>>
        /\ "install" \in PC
    BY <1>14 DEF AddProviderNets, AddNets, At, PC
  <2>2. req[q].ctx \in Ctxs /\ holds[req[q].ctx] = nets \cap Networks
    BY <1>1, <2>1, OnlyOne DEF HistoryInv, Ready, Built, TypeInv, TypeOK
  <2>3. holds'[req[q].ctx] = (nets \cap Networks) \cup (nets \cap ProviderNets)
    BY <1>14, <2>2 DEF AddProviderNets, AddNets, TypeInv, TypeOK
  <2>4. holds'[req[q].ctx] = nets
    BY <2>3 DEF TypeInv, TypeOK, Nets
  <2>5. Built(q)'
    BY <2>1, <2>4, GotoFields DEF Built
  <2>6. Current'
    BY <1>1, <2>1, NotApplied DEF Current, CurrentState
  <2> QED
    BY <1>1, <2>1, <2>5, <2>6, GotoFields, KeepCalm
<1>15. ASSUME NEW q \in Reqs, CallInstall(q)
       PROVE  CalmInv'
  <2>1. /\ req[q].pc = "install" /\ Goto(q, "recordApplied")
        /\ UNCHANGED <<actions, nets, holds>> /\ "recordApplied" \in PC
    BY <1>15 DEF CallInstall, At, PC
  <2>2. Built(q)'
    BY <1>1, <2>1, OnlyOne, GotoFields DEF Built
  <2>3. Current'
    BY <1>1, <2>1, OnlyOne DEF Current
  <2> QED
    BY <1>1, <2>1, <2>2, <2>3, GotoFields, KeepCalm
<1>16. ASSUME NEW q \in Reqs, NEW s \in {"Applied", "Terminated"}, req[q].pc # "idle",
              Record(q, Entry(s, req[q].ctx)),
              s = "Applied" => holds[req[q].ctx] = nets
       PROVE  CalmInv'
  <2> DEFINE e == Entry(s, req[q].ctx)
  <2>1. Finish(q) /\ actions' = Append(req[q].snap, e) /\ UNCHANGED <<nets, holds>>
    BY <1>1, <1>16 DEF Record
  <2>2. e.state = s /\ e.ctx = req[q].ctx
    OBVIOUS
  <2>3. req[q].snap \in Seq(ActionEntry)
    BY RequestType DEF TypeInv
  <2> HIDE DEF e
  <2>4. Append(req[q].snap, e) # <<>> /\ Last(Append(req[q].snap, e)) = e
    BY <2>3 DEF Last
  <2>5. CurrentState(actions)' = s /\ Last(actions)' = e
    BY <2>1, <2>2, <2>4 DEF CurrentState
  <2>6. Current'
    BY <1>16, <2>1, <2>2, <2>5 DEF Current
  <2> QED
    BY <1>1, <1>16, <2>1, <2>6, EndCalm
<1>17. ASSUME NEW q \in Reqs, RecordApplied(q)
       PROVE  CalmInv'
  <2>1. req[q].pc = "recordApplied"
    BY <1>17 DEF RecordApplied, At
  <2>2. holds[req[q].ctx] = nets
    BY <1>1, <2>1, OnlyOne DEF Built
  <2> QED
    BY <1>16, <1>17, <2>1, <2>2 DEF RecordApplied
<1>18. ASSUME NEW q \in Reqs, RecordTerminated(q)
       PROVE  CalmInv'
  BY <1>16, <1>18 DEF RecordTerminated, At
<1>19. ASSUME NEW q \in Reqs, NEW c \in Ctxs, DeleteContext(q, c)
       PROVE  CalmInv'
  <2> DEFINE new == [req[q] EXCEPT !.todo = @ \ {c},
                                   !.pc = IF req[q].todo = {c} THEN "count" ELSE @]
  <2>1. req' = [req EXCEPT ![q] = new]
    BY <1>19 DEF DeleteContext
  <2>2. new.pc \in {"deleteCtxs", "count"} /\ new.snap = req[q].snap
    BY <1>19, RequestType DEF DeleteContext, At, Request, TypeInv
  <2>3. /\ req'[q].pc \in {"deleteCtxs", "count"} /\ req'[q].snap = req[q].snap
        /\ \A p \in Reqs \ {q} : req'[p] = req[p]
    BY <2>1, <2>2 DEF TypeInv, TypeOK
  <2>4. req[q].pc # "idle" /\ UNCHANGED <<actions, nets, holds>>
    BY <1>19 DEF DeleteContext, At
  <2>5. Built(q)'
    BY <2>3 DEF Built
  <2>6. Current'
    BY <1>1, <2>4, OnlyOne DEF Current
  <2> QED
    BY <1>1, <2>3, <2>4, <2>5, <2>6, KeepCalm
<1>20. ASSUME NEW c \in Ctxs, RsyncStep(c)
       PROVE  CalmInv'
  BY <1>2, <1>20 DEF RsyncStep
<1>21. ASSUME NEW q \in Reqs, NEW n \in Nets, NotChangeable(q, n)
       PROVE  CalmInv'
  BY <1>2, <1>21 DEF NotChangeable
<1>22. CASE Crash \/ UNCHANGED vars
  BY <1>1, <1>2, <1>22 DEF Crash
<1> QED
  BY <1>3, <1>6, <1>7, <1>8, <1>9, <1>10, <1>11, <1>12, <1>13, <1>14, <1>15, <1>17,
     <1>18, <1>19, <1>20, <1>21, <1>22 DEF Next, RequestNext

LEMMA CalmCorrect ==
    ASSUME NetworkIntentsAssumption PROVE Spec => [](TypeInv /\ HistoryInv /\ FreshInv /\ CalmInv)
<1>1. Init => TypeInv /\ HistoryInv /\ FreshInv /\ CalmInv
  BY TypeInit, HistoryInit, FreshInit, CalmInit
<1>2. TypeInv /\ HistoryInv /\ FreshInv /\ CalmInv /\ [Next]_vars =>
         (TypeInv /\ HistoryInv /\ FreshInv /\ CalmInv)'
  BY TypeStep, HistoryStep, FreshStep, CalmStep
<1> QED
  BY <1>1, <1>2, PTL DEF Spec

\* What is applied is what is stored: while requests come one at a time and none
\* fails, the context of an applied cluster holds the networks and provider
\* networks the database has, although the networks are read one kind after the
\* other and stay changeable while nothing is recorded.
THEOREM AppliedIsCurrentCorrect ==
    ASSUME NetworkIntentsAssumption PROVE Spec => []AppliedIsCurrent
<1>1. CalmInv => AppliedIsCurrent
  BY DEF CalmInv, AppliedIsCurrent, Quiet, Calm
<1> QED
  BY <1>1, CalmCorrect, PTL

-----------------------------------------------------------------------------
(* Answers.                                                                *)

LEMMA ToldInit == Init => ToldInv
BY DEF Init, ToldInv

LEMMA ToldStep ==
    ASSUME NetworkIntentsAssumption, ToldInv, [Next]_vars
    PROVE  ToldInv'
<1>1. ASSUME UNCHANGED <<told, nets>>
      PROVE  ToldInv'
  BY <1>1 DEF ToldInv
<1>2. ASSUME NEW q \in Reqs, InsertNet(q) \/ RemoveNet(q)
      PROVE  ToldInv'
  BY <1>2 DEF InsertNet, RemoveNet, ToldInv
<1>3. ASSUME NEW q \in Reqs, NEW n \in Nets, NotChangeable(q, n)
      PROVE  ToldInv'
  <2>1. n \notin Networks
    BY <1>3 DEF NotChangeable, Refused, NetworkIntentsAssumption
  <2> QED
    BY <1>3, <2>1 DEF NotChangeable, ToldInv
<1>4. ASSUME NEW q \in Reqs, RequestNext(q), ~ (InsertNet(q) \/ RemoveNet(q)),
             ~ \E n \in Nets : NotChangeable(q, n)
      PROVE  UNCHANGED <<told, nets>>
  BY <1>4 DEF RequestNext, CreateCluster, InsertMeta, InsertState, CreateNet, DeleteNet,
     Apply, BuildFails, CallInstall, CallInstallFails, RecordApplied, Terminate,
     CallUninstall, CallUninstallFails, RecordTerminated, Record, DeleteCluster,
     DeleteContextFails, CountChildren, Remove, MakeContext, DeleteContext, Arrive,
     AddNetworks, AddProviderNets, AddNets
<1>5. CASE (\E c \in Ctxs : RsyncStep(c)) \/ Crash \/ UNCHANGED vars
  BY <1>1, <1>5 DEF RsyncStep, Crash
<1> QED
  BY <1>1, <1>2, <1>3, <1>4, <1>5 DEF Next

\* A client that was told that a network is there or gone was told the truth,
\* whatever races or fails: only a provider network is refused as a success.
THEOREM AnswersTrueCorrect ==
    ASSUME NetworkIntentsAssumption PROVE Spec => []AnswersTrue
<1>1. Init => ToldInv
  BY ToldInit
<1>2. ToldInv /\ [Next]_vars => ToldInv'
  BY ToldStep
<1>3. ToldInv => AnswersTrue
  BY DEF ToldInv, AnswersTrue
<1> QED
  BY <1>1, <1>2, <1>3, PTL DEF Spec

=============================================================================
