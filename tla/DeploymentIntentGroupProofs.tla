-------------------- MODULE DeploymentIntentGroupProofs --------------------
(***************************************************************************)
(* Theorems about DeploymentIntentGroup, for any number of requests,       *)
(* contexts and faults: whatever requests race, fail or are cut off, the   *)
(* recorded history is a legal one, and it records no call that was not    *)
(* made; and while they come one at a time and none fails, the group knows *)
(* every context that runs.                                                *)
(***************************************************************************)
EXTENDS DeploymentIntentGroup, TLAPS

USE DEF docVars, ctxVars, reqVars, vars, Entry

-----------------------------------------------------------------------------
(* Type correctness.                                                       *)

LEMMA TypeInit == Init => TypeOK
<1> SUFFICES ASSUME Init PROVE TypeOK
  OBVIOUS
<1>1. <<>> \in Seq(ActionEntry)
  OBVIOUS
<1> QED
  BY <1>1 DEF Init, TypeOK, PC, Status

\* The end of a request.
LEMMA FinishType ==
    ASSUME TypeOK, NEW q \in Reqs, NEW from, Finish(q, from)
    PROVE  /\ pc' \in [Reqs -> PC]
           /\ snap' \in [Reqs -> Seq(ActionEntry)]
           /\ ctx' \in [Reqs -> Ctxs \cup {NoCtx}]
           /\ todo' \in [Reqs -> SUBSET Ctxs]
           /\ reqs' \in Nat /\ raced' \in BOOLEAN
<1>1. <<>> \in Seq(ActionEntry)
  OBVIOUS
<1> QED
  BY <1>1 DEF TypeOK, Finish, PC

\* A fault, or none.
LEMMA FaultType ==
    ASSUME TypeOK, NoFault \/ Fault
    PROVE  faults' \in Nat
BY DEF TypeOK, NoFault, Fault

\* A request that begins with the copy it has read.
LEMMA ArriveType ==
    ASSUME TypeOK, NEW q \in Reqs, NEW next \in PC, Arrive(q, next),
           ctx' \in [Reqs -> Ctxs \cup {NoCtx}], todo' \in [Reqs -> SUBSET Ctxs]
    PROVE  TypeOK'
<1>1. raced' \in BOOLEAN
  BY DEF Arrive
<1>2. snap' \in [Reqs -> Seq(ActionEntry)] /\ reqs' \in Nat
  BY DEF Arrive, TypeOK
<1> QED
  BY <1>1, <1>2 DEF Arrive, TypeOK

\* The write at the end of a request.
LEMMA RecordType ==
    ASSUME TypeOK, NEW q \in Reqs, NEW from, NEW entry \in ActionEntry,
           Record(q, from, entry)
    PROVE  TypeOK'
<1>1. Append(snap[q], entry) \in Seq(ActionEntry)
  BY DEF TypeOK
<1>2. actions' \in Seq(ActionEntry)
  BY <1>1 DEF Record, TypeOK
<1>3. Finish(q, from) /\ (NoFault \/ Fault)
  BY DEF Record
<1> QED
  BY <1>2, <1>3, FinishType, FaultType DEF Record, TypeOK

LEMMA TypeStep ==
    ASSUME TypeOK, [Next]_vars
    PROVE  TypeOK'
<1>1. ASSUME NEW q \in Reqs, Create(q) \/ Approve(q) \/ Instantiate(q)
      PROVE  TypeOK'
  BY <1>1, ArriveType DEF Create, Approve, Instantiate, PC, TypeOK
<1>2. ASSUME NEW q \in Reqs, Terminate(q)
      PROVE  TypeOK'
  <2>1. actions # <<>>
    BY <1>2 DEF Terminate, Terminable, CurrentState
  <2>2. Last(actions) \in ActionEntry
    BY <2>1 DEF Last, TypeOK
  <2>3. ctx' \in [Reqs -> Ctxs \cup {NoCtx}]
    BY <1>2, <2>2 DEF Terminate, TypeOK, ActionEntry
  <2> QED
    BY <1>2, <2>3, ArriveType DEF Terminate, PC, TypeOK
<1>3. ASSUME NEW q \in Reqs, Delete(q)
      PROVE  TypeOK'
  <2>1. ContextIds(actions) \subseteq Ctxs
    <3>1. \A i \in DOMAIN actions : actions[i] \in ActionEntry
      BY DEF TypeOK
    <3>2. \A i \in DOMAIN actions : actions[i].ctx \in Ctxs \cup {NoCtx}
      BY <3>1 DEF ActionEntry
    <3> QED
      BY <3>2 DEF ContextIds
  <2>2. todo' \in [Reqs -> SUBSET Ctxs]
    BY <1>3, <2>1 DEF Delete, TypeOK
  <2> QED
    BY <1>3, <2>2, ArriveType DEF Delete, PC, TypeOK
<1>4. ASSUME NEW q \in Reqs, CreateMeta(q)
      PROVE  TypeOK'
  BY <1>4 DEF CreateMeta, Step, TypeOK, PC
<1>5. ASSUME NEW q \in Reqs, CreateState(q)
      PROVE  TypeOK'
  <2>1. <<Entry("Created", NoCtx)>> \in Seq(ActionEntry)
    BY DEF ActionEntry, StateValue
  <2>2. actions' \in Seq(ActionEntry)
    BY <1>5, <2>1 DEF CreateState, TypeOK
  <2>3. Finish(q, "createState") /\ (NoFault \/ Fault)
    BY <1>5 DEF CreateState
  <2> QED
    BY <1>5, <2>2, <2>3, FinishType, FaultType DEF CreateState, TypeOK
<1>6. ASSUME NEW q \in Reqs,
             RecordApproved(q) \/ RecordInstantiated(q) \/ RecordTerminated(q)
      PROVE  TypeOK'
  <2>1. /\ Entry("Approved", NoCtx) \in ActionEntry
        /\ Entry("Instantiated", ctx[q]) \in ActionEntry
        /\ Entry("Terminated", ctx[q]) \in ActionEntry
    BY DEF TypeOK, ActionEntry, StateValue
  <2> QED
    BY <1>6, <2>1, RecordType DEF RecordApproved, RecordInstantiated, RecordTerminated
<1>7. ASSUME NEW q \in Reqs, NEW c \in Ctxs, MakeContext(q, c)
      PROVE  TypeOK'
  BY <1>7 DEF MakeContext, Step, TypeOK, PC
<1>8. ASSUME NEW q \in Reqs, PrepareFails(q)
      PROVE  TypeOK'
  BY <1>8, FinishType, FaultType DEF PrepareFails, TypeOK
<1>9. ASSUME NEW q \in Reqs, CallInstall(q)
      PROVE  TypeOK'
  BY <1>9 DEF CallInstall, Step, TypeOK, PC, Status
<1>10. ASSUME NEW q \in Reqs, CallInstallFails(q)
       PROVE  TypeOK'
  <2>1. status' \in [Ctxs -> Status]
    BY <1>10 DEF CallInstallFails, TypeOK, Status
  <2> QED
    BY <1>10, <2>1, FinishType, FaultType DEF CallInstallFails, TypeOK
<1>11. ASSUME NEW q \in Reqs, CallUninstall(q)
       PROVE  TypeOK'
  BY <1>11 DEF CallUninstall, Step, TypeOK, PC
<1>12. ASSUME NEW q \in Reqs, CallUninstallFails(q)
       PROVE  TypeOK'
  <2>1. asked' \subseteq made'
    BY <1>12 DEF CallUninstallFails, TypeOK
  <2> QED
    BY <1>12, <2>1, FinishType, FaultType DEF CallUninstallFails, TypeOK
<1>13. ASSUME NEW q \in Reqs, NEW c \in Ctxs, DeleteContext(q, c)
       PROVE  TypeOK'
  BY <1>13 DEF DeleteContext, Step, TypeOK, PC
<1>14. ASSUME NEW q \in Reqs, DeleteContextFails(q)
       PROVE  TypeOK'
  BY <1>14, FinishType, FaultType DEF DeleteContextFails, TypeOK
<1>15. ASSUME NEW q \in Reqs, Remove(q)
       PROVE  TypeOK'
  <2>1. meta' \in BOOLEAN /\ actions' \in Seq(ActionEntry)
    BY <1>15, <<>> \in Seq(ActionEntry) DEF Remove, TypeOK
  <2> QED
    BY <1>15, <2>1, FinishType, FaultType DEF Remove, TypeOK
<1>16. CASE Crash
  BY <1>16, <<>> \in Seq(ActionEntry) DEF Crash, Fault, TypeOK, PC
<1>17. ASSUME NEW c \in Ctxs, RsyncStep(c)
       PROVE  TypeOK'
  BY <1>17 DEF RsyncStep, TypeOK, Status
<1>18. CASE UNCHANGED vars
  BY <1>18 DEF TypeOK
<1> QED
  BY <1>1, <1>2, <1>3, <1>4, <1>5, <1>6, <1>7, <1>8, <1>9, <1>10, <1>11, <1>12,
     <1>13, <1>14, <1>15, <1>16, <1>17, <1>18 DEF Next, RequestNext

\* Every variable stays in its range in every reachable state; an AppContext
\* that etcd has was made by a request.
THEOREM TypeCorrect == Spec => []TypeOK
<1>1. Init => TypeOK
  BY TypeInit
<1>2. TypeOK /\ [Next]_vars => TypeOK'
  BY TypeStep
<1> QED
  BY <1>1, <1>2, PTL DEF Spec

-----------------------------------------------------------------------------
(* Histories.                                                              *)

\* The contexts rsync has been asked to install.
Installed == {c \in Ctxs : status[c] # "none"}

\* A history is good when it is legal, names only contexts that were made, and
\* every call it records was made: inst are the contexts rsync was asked to
\* install, unin those it was asked to uninstall.
Good(s, mk, inst, unin) ==
    /\ Legal(s)
    /\ ContextIds(s) \subseteq mk
    /\ \A i \in DOMAIN s :
        /\ s[i].state = "Instantiated" => s[i].ctx \in inst
        /\ s[i].state = "Terminated" => s[i].ctx \in unin

\* A history stays good: contexts are only added to the three sets.
LEMMA GoodStays ==
    ASSUME NEW s, NEW mk, NEW inst, NEW unin, Good(s, mk, inst, unin),
           NEW mk2, NEW inst2, NEW unin2,
           mk \subseteq mk2, inst \subseteq inst2, unin \subseteq unin2
    PROVE  Good(s, mk2, inst2, unin2)
BY DEF Good

\* The histories a group begins with.
LEMMA GoodShort ==
    ASSUME NEW mk, NEW inst, NEW unin
    PROVE  /\ Good(<<>>, mk, inst, unin)
           /\ Good(<<Entry("Created", NoCtx)>>, mk, inst, unin)
<1>1. Good(<<>>, mk, inst, unin)
  BY DEF Good, Legal, ContextIds
<1> DEFINE e == Entry("Created", NoCtx)
           s == <<e>>
<1>2. e.state = "Created" /\ e.ctx = NoCtx
  OBVIOUS
<1> HIDE DEF e
<1>3. DOMAIN s = {1} /\ s[1] = e
  OBVIOUS
<1> HIDE DEF s
<1>4. Legal(s)
  BY <1>2, <1>3 DEF Legal, e
<1>5. Good(s, mk, inst, unin)
  BY <1>2, <1>3, <1>4 DEF Good, ContextIds
<1> QED
  BY <1>1, <1>5 DEF s, e

\* Appending an action that may follow the last one, and that instantiates no
\* context of the history again, keeps a history legal.
LEMMA LegalAppend ==
    ASSUME NEW s \in Seq(ActionEntry), NEW e \in ActionEntry, s # <<>>,
           Legal(s), LegalStep(Last(s), e),
           e.state = "Instantiated" => e.ctx \notin ContextIds(s)
    PROVE  Legal(Append(s, e))
<1> DEFINE n == Len(s)
           w == Append(s, e)
<1>1. n \in Nat \ {0} /\ DOMAIN s = 1 .. n
  OBVIOUS
<1>2. DOMAIN w = 1 .. n + 1 /\ w[n + 1] = e /\ \A i \in 1 .. n : w[i] = s[i]
  OBVIOUS
<1>3. s[n] = Last(s)
  BY DEF Last
<1> HIDE DEF n, w
<1>4. w # <<>> /\ w[1] = Entry("Created", NoCtx)
  BY <1>1, <1>2 DEF Legal
<1>5. ASSUME NEW i \in DOMAIN w, i + 1 \in DOMAIN w
      PROVE  LegalStep(w[i], w[i + 1])
  <2>1. CASE i = n
    BY <1>1, <1>2, <1>3, <2>1
  <2>2. CASE i # n
    <3>1. i \in 1 .. n /\ i + 1 \in 1 .. n
      BY <1>1, <1>2, <1>5, <2>2
    <3> QED
      BY <1>1, <1>2, <3>1 DEF Legal
  <2> QED
    BY <2>1, <2>2
<1>6. ASSUME NEW i \in DOMAIN s, s[i].state = "Instantiated",
             e.state = "Instantiated"
      PROVE  s[i].ctx # e.ctx
  <2>1. e.ctx \in Ctxs
    BY <1>6 DEF LegalStep
  <2>2. e.ctx # NoCtx
    BY <2>1, DigAssumption
  <2> QED
    BY <1>6, <2>2 DEF ContextIds
<1>7. ASSUME NEW i \in DOMAIN w, NEW j \in DOMAIN w,
             w[i].state = "Instantiated", w[j].state = "Instantiated",
             w[i].ctx = w[j].ctx
      PROVE  i = j
  <2>1. CASE i \in 1 .. n /\ j \in 1 .. n
    BY <1>1, <1>2, <1>7, <2>1 DEF Legal
  <2>2. CASE i \in 1 .. n /\ j = n + 1
    BY <1>1, <1>2, <1>6, <1>7, <2>2
  <2>3. CASE i = n + 1 /\ j \in 1 .. n
    BY <1>1, <1>2, <1>6, <1>7, <2>3
  <2>4. CASE i = n + 1 /\ j = n + 1
    BY <2>4
  <2> QED
    BY <1>1, <1>2, <2>1, <2>2, <2>3, <2>4
<1> QED
  BY <1>4, <1>5, <1>7 DEF Legal, w

LEMMA GoodAppend ==
    ASSUME NEW s \in Seq(ActionEntry), NEW e \in ActionEntry, s # <<>>,
           NEW mk, NEW inst, NEW unin, Good(s, mk, inst, unin),
           LegalStep(Last(s), e),
           e.ctx \in mk \cup {NoCtx},
           e.state = "Instantiated" => e.ctx \in inst /\ e.ctx \notin ContextIds(s),
           e.state = "Terminated" => e.ctx \in unin
    PROVE  Good(Append(s, e), mk, inst, unin)
<1> DEFINE n == Len(s)
           w == Append(s, e)
<1>1. n \in Nat \ {0} /\ DOMAIN s = 1 .. n
  OBVIOUS
<1>2. DOMAIN w = 1 .. n + 1 /\ w[n + 1] = e /\ \A i \in 1 .. n : w[i] = s[i]
  OBVIOUS
<1> HIDE DEF n
<1>3. Legal(w)
  BY LegalAppend DEF Good
<1> HIDE DEF w
<1>4. \A i \in DOMAIN w : i = n + 1 \/ (i \in DOMAIN s /\ w[i] = s[i])
  BY <1>1, <1>2
<1>5. ContextIds(w) \subseteq mk
  BY <1>2, <1>4 DEF ContextIds, Good
<1>6. \A i \in DOMAIN w :
        /\ w[i].state = "Instantiated" => w[i].ctx \in inst
        /\ w[i].state = "Terminated" => w[i].ctx \in unin
  BY <1>2, <1>4 DEF Good
<1> QED
  BY <1>3, <1>5, <1>6 DEF Good, w

-----------------------------------------------------------------------------
(* The inductive invariant.                                                *)

\* What a request has checked stays true of its copy, and the context it
\* works with is a new one, or the one of the instantiation it terminates.
Ready(q) ==
    /\ pc[q] = "approve" => Approvable(snap[q])
    /\ pc[q] \in {"build", "prepare", "recordInst"} => Instantiable(snap[q])
    /\ pc[q] \in {"prepare", "recordInst"} =>
          ctx[q] \in made \ ContextIds(snap[q])
    /\ pc[q] = "recordInst" => ctx[q] \in Installed
    /\ pc[q] \in {"uninstall", "recordTerm"} =>
          Terminable(snap[q]) /\ ctx[q] = Last(snap[q]).ctx
    /\ pc[q] = "recordTerm" => ctx[q] \in asked

\* The history in mongo is good, and so is every copy of it in a request: a
\* stale copy that is written back is a good history all the same.
HistoryInv ==
    /\ Good(actions, made, Installed, asked)
    /\ \A q \in Reqs : Good(snap[q], made, Installed, asked) /\ Ready(q)

\* Contexts are made, installed and uninstalled for good.
Grows == made \subseteq made' /\ Installed \subseteq Installed' /\ asked \subseteq asked'

LEMMA HistoryInit == Init => HistoryInv
BY GoodShort DEF Init, HistoryInv, Ready

\* A step that leaves the requests of others alone, the copy of q good and q
\* ready, keeps the invariant, if the recorded history stays good.
LEMMA OneRequest ==
    ASSUME HistoryInv, Grows, NEW q \in Reqs,
           Good(actions', made', Installed', asked'),
           Good(snap'[q], made', Installed', asked'), Ready(q)',
           \A p \in Reqs \ {q} :
              pc'[p] = pc[p] /\ snap'[p] = snap[p] /\ ctx'[p] = ctx[p]
    PROVE  HistoryInv'
<1>1. \A p \in Reqs \ {q} : Good(snap'[p], made', Installed', asked')
  BY GoodStays DEF HistoryInv, Grows
<1>2. \A p \in Reqs \ {q} : Ready(p)'
  BY DEF HistoryInv, Ready, Grows
<1> QED
  BY <1>1, <1>2 DEF HistoryInv

\* The recorded history and the copies stay good when they do not change.
LEMMA Unchanged ==
    ASSUME HistoryInv, Grows
    PROVE  /\ UNCHANGED actions => Good(actions', made', Installed', asked')
           /\ \A q \in Reqs : snap'[q] = snap[q] => Good(snap'[q], made', Installed', asked')
           /\ \A q \in Reqs : snap'[q] = actions => Good(snap'[q], made', Installed', asked')
BY GoodStays DEF HistoryInv, Grows

\* A request that ends is ready for nothing.
LEMMA FinishHistory ==
    ASSUME TypeOK, HistoryInv, Grows, NEW q \in Reqs, NEW from, Finish(q, from),
           Good(actions', made', Installed', asked')
    PROVE  HistoryInv'
<1>1. snap'[q] = <<>> /\ pc'[q] = "idle"
  BY DEF Finish, TypeOK
<1>2. \A p \in Reqs \ {q} :
         pc'[p] = pc[p] /\ snap'[p] = snap[p] /\ ctx'[p] = ctx[p]
  BY DEF Finish, TypeOK
<1>3. Good(snap'[q], made', Installed', asked')
  BY <1>1, GoodShort
<1>4. Ready(q)'
  BY <1>1 DEF Ready
<1> QED
  BY <1>2, <1>3, <1>4, OneRequest

\* The write at the end of a request.
LEMMA RecordHistory ==
    ASSUME TypeOK, HistoryInv, NEW q \in Reqs, NEW from, NEW entry,
           Record(q, from, entry), Good(Append(snap[q], entry), made, Installed, asked)
    PROVE  HistoryInv'
<1>1. UNCHANGED <<made, Installed, asked>>
  BY DEF Record, Installed
<1>2. Good(actions', made', Installed', asked')
  BY <1>1 DEF Record, HistoryInv
<1>3. Finish(q, from)
  BY DEF Record
<1> QED
  BY <1>1, <1>2, <1>3, FinishHistory DEF Grows

LEMMA HistoryStep ==
    ASSUME TypeOK, HistoryInv, [Next]_vars
    PROVE  HistoryInv'
<1>1. ASSUME NEW q \in Reqs, NEW next, Arrive(q, next),
             \A p \in Reqs \ {q} : ctx'[p] = ctx[p], Ready(q)'
      PROVE  HistoryInv'
  <2>1. Grows
    BY <1>1 DEF Arrive, Grows, Installed
  <2>2. snap'[q] = actions /\ UNCHANGED actions
    BY <1>1 DEF Arrive, TypeOK
  <2>3. \A p \in Reqs \ {q} : pc'[p] = pc[p] /\ snap'[p] = snap[p]
    BY <1>1 DEF Arrive, TypeOK
  <2> QED
    BY <1>1, <2>1, <2>2, <2>3, Unchanged, OneRequest
<1>2. ASSUME NEW q \in Reqs, Create(q) \/ Approve(q) \/ Instantiate(q) \/ Delete(q)
      PROVE  HistoryInv'
  <2>1. PICK next : Arrive(q, next)
    BY <1>2 DEF Create, Approve, Instantiate, Delete
  <2>2. UNCHANGED ctx
    BY <1>2 DEF Create, Approve, Instantiate, Delete
  <2>3. Ready(q)'
    BY <1>2 DEF Create, Approve, Instantiate, Delete, Arrive, Ready, TypeOK
  <2> QED
    BY <1>1, <2>1, <2>2, <2>3
<1>3. ASSUME NEW q \in Reqs, Terminate(q)
      PROVE  HistoryInv'
  <2>1. Ready(q)' /\ \A p \in Reqs \ {q} : ctx'[p] = ctx[p]
    BY <1>3 DEF Terminate, Arrive, Ready, TypeOK
  <2> QED
    BY <1>1, <1>3, <2>1 DEF Terminate
<1>4. ASSUME NEW q \in Reqs, NEW from, NEW to, Step(q, from, to), UNCHANGED actions,
             \A p \in Reqs \ {q} : ctx'[p] = ctx[p], Ready(q)', Grows
      PROVE  HistoryInv'
  <2>1. UNCHANGED snap /\ \A p \in Reqs \ {q} : pc'[p] = pc[p]
    BY <1>4 DEF Step, TypeOK
  <2> QED
    BY <1>4, <2>1, Unchanged, OneRequest
<1>5. ASSUME NEW q \in Reqs, NEW from, Finish(q, from), UNCHANGED actions, Grows
      PROVE  HistoryInv'
  BY <1>5, Unchanged, FinishHistory
<1>6. ASSUME NEW q \in Reqs, CreateMeta(q)
      PROVE  HistoryInv'
  <2>1. Ready(q)' /\ Grows
    BY <1>6 DEF CreateMeta, Step, Ready, Grows, Installed, TypeOK
  <2> QED
    BY <1>4, <1>6, <2>1 DEF CreateMeta
<1>7. ASSUME NEW q \in Reqs, CreateState(q)
      PROVE  HistoryInv'
  <2>1. Grows
    BY <1>7 DEF CreateState, Grows, Installed
  <2>2. Good(actions', made', Installed', asked')
    BY <1>7, <2>1, GoodShort, Unchanged DEF CreateState
  <2> QED
    BY <1>7, <2>1, <2>2, FinishHistory DEF CreateState
<1>8. ASSUME NEW q \in Reqs, NEW c \in Ctxs, MakeContext(q, c)
      PROVE  HistoryInv'
  <2>1. Grows
    BY <1>8 DEF MakeContext, Grows, Installed
  <2>2. Instantiable(snap[q]) /\ ContextIds(snap[q]) \subseteq made
    BY <1>8 DEF MakeContext, Step, HistoryInv, Ready, Good
  <2>3. Ready(q)'
    BY <1>8, <2>2 DEF MakeContext, Step, Ready, TypeOK
  <2>4. \A p \in Reqs \ {q} : ctx'[p] = ctx[p]
    BY <1>8 DEF MakeContext, TypeOK
  <2> QED
    BY <1>4, <1>8, <2>1, <2>3, <2>4 DEF MakeContext
<1>9. ASSUME NEW q \in Reqs, CallInstall(q)
      PROVE  HistoryInv'
  <2>1. Grows
    BY <1>9 DEF CallInstall, Grows, Installed, TypeOK
  <2>2. pc[q] = "prepare" /\ pc'[q] = "recordInst" /\ UNCHANGED <<snap, ctx, made>>
    BY <1>9 DEF CallInstall, Step, TypeOK
  <2>3. ctx[q] \in made \ ContextIds(snap[q]) /\ Instantiable(snap[q])
    BY <2>2 DEF HistoryInv, Ready
  <2>4. ctx[q] \in Installed'
    BY <1>9, <2>3 DEF CallInstall, Installed, TypeOK
  <2>5. Ready(q)'
    BY <2>2, <2>3, <2>4 DEF Ready
  <2> QED
    BY <1>4, <1>9, <2>1, <2>5 DEF CallInstall
<1>10. ASSUME NEW q \in Reqs, CallUninstall(q)
       PROVE  HistoryInv'
  <2>1. Grows
    BY <1>10 DEF CallUninstall, Grows, Installed
  <2>2. Ready(q)'
    BY <1>10 DEF CallUninstall, Step, HistoryInv, Ready, TypeOK
  <2> QED
    BY <1>4, <1>10, <2>1, <2>2 DEF CallUninstall
<1>11. ASSUME NEW q \in Reqs, NEW c \in Ctxs, DeleteContext(q, c)
       PROVE  HistoryInv'
  <2>1. Grows
    BY <1>11 DEF DeleteContext, Grows, Installed
  <2>2. Ready(q)'
    BY <1>11 DEF DeleteContext, Step, Ready, TypeOK
  <2> QED
    BY <1>4, <1>11, <2>1, <2>2 DEF DeleteContext
<1>12. ASSUME NEW q \in Reqs,
              \/ PrepareFails(q) \/ CallInstallFails(q) \/ CallUninstallFails(q)
              \/ DeleteContextFails(q)
       PROVE  HistoryInv'
  <2>1. Grows
    <3>1. CASE PrepareFails(q)
      BY <3>1 DEF PrepareFails, Grows, Installed
    <3>2. CASE CallInstallFails(q)
      BY <3>2 DEF CallInstallFails, Grows, Installed, TypeOK
    <3>3. CASE CallUninstallFails(q)
      BY <3>3 DEF CallUninstallFails, Grows, Installed
    <3>4. CASE DeleteContextFails(q)
      BY <3>4 DEF DeleteContextFails, Grows, Installed
    <3> QED
      BY <1>12, <3>1, <3>2, <3>3, <3>4
  <2> QED
    BY <1>5, <1>12, <2>1 DEF PrepareFails, CallInstallFails, CallUninstallFails,
       DeleteContextFails
<1>13. ASSUME NEW q \in Reqs, RecordApproved(q)
       PROVE  HistoryInv'
  <2> DEFINE e == Entry("Approved", NoCtx)
  <2>1. Approvable(snap[q]) /\ Good(snap[q], made, Installed, asked)
    BY <1>13 DEF RecordApproved, Record, Finish, HistoryInv, Ready
  <2>2. snap[q] # <<>> /\ LegalStep(Last(snap[q]), e)
    BY <2>1 DEF Approvable, CurrentState, LegalStep
  <2>3. e \in ActionEntry /\ e.state = "Approved" /\ e.ctx = NoCtx
    BY DEF ActionEntry, StateValue
  <2>4. snap[q] \in Seq(ActionEntry)
    BY DEF TypeOK
  <2> HIDE DEF e
  <2>5. Good(Append(snap[q], e), made, Installed, asked)
    BY <2>1, <2>2, <2>3, <2>4, GoodAppend
  <2> QED
    BY <1>13, <2>5, RecordHistory DEF RecordApproved, e
<1>14. ASSUME NEW q \in Reqs, RecordInstantiated(q)
       PROVE  HistoryInv'
  <2> DEFINE e == Entry("Instantiated", ctx[q])
  <2>1. /\ Instantiable(snap[q]) /\ Good(snap[q], made, Installed, asked)
        /\ ctx[q] \in made \ ContextIds(snap[q]) /\ ctx[q] \in Installed
    BY <1>14 DEF RecordInstantiated, Record, Finish, HistoryInv, Ready
  <2>2. ctx[q] \in Ctxs
    BY <2>1 DEF Installed
  <2>3. snap[q] # <<>> /\ LegalStep(Last(snap[q]), e)
    BY <2>1, <2>2 DEF Instantiable, CurrentState, LegalStep
  <2>4. e \in ActionEntry /\ e.state = "Instantiated" /\ e.ctx = ctx[q]
    BY <2>2 DEF ActionEntry, StateValue
  <2>5. snap[q] \in Seq(ActionEntry)
    BY DEF TypeOK
  <2> HIDE DEF e
  <2>6. Good(Append(snap[q], e), made, Installed, asked)
    BY <2>1, <2>3, <2>4, <2>5, GoodAppend
  <2> QED
    BY <1>14, <2>6, RecordHistory DEF RecordInstantiated, e
<1>15. ASSUME NEW q \in Reqs, RecordTerminated(q)
       PROVE  HistoryInv'
  <2> DEFINE e == Entry("Terminated", ctx[q])
  <2>1. /\ Terminable(snap[q]) /\ Good(snap[q], made, Installed, asked)
        /\ ctx[q] = Last(snap[q]).ctx /\ ctx[q] \in asked
    BY <1>15 DEF RecordTerminated, Record, Finish, HistoryInv, Ready
  <2>2. ctx[q] \in made
    BY <2>1 DEF TypeOK
  <2>3. snap[q] # <<>> /\ LegalStep(Last(snap[q]), e)
    BY <2>1 DEF Terminable, CurrentState, LegalStep
  <2>4. e \in ActionEntry /\ e.state = "Terminated" /\ e.ctx = ctx[q]
    BY DEF ActionEntry, StateValue, TypeOK
  <2>5. snap[q] \in Seq(ActionEntry)
    BY DEF TypeOK
  <2> HIDE DEF e
  <2>6. Good(Append(snap[q], e), made, Installed, asked)
    BY <2>1, <2>2, <2>3, <2>4, <2>5, GoodAppend
  <2> QED
    BY <1>15, <2>6, RecordHistory DEF RecordTerminated, e
<1>16. ASSUME NEW q \in Reqs, Remove(q)
       PROVE  HistoryInv'
  <2>1. Grows
    BY <1>16 DEF Remove, Grows, Installed
  <2>2. Good(actions', made', Installed', asked')
    BY <1>16, <2>1, GoodShort, Unchanged DEF Remove
  <2> QED
    BY <1>16, <2>1, <2>2, FinishHistory DEF Remove
<1>17. CASE Crash
  <2>1. Grows /\ UNCHANGED actions
    BY <1>17 DEF Crash, Grows, Installed
  <2>2. \A q \in Reqs : snap'[q] = <<>> /\ pc'[q] = "idle"
    BY <1>17 DEF Crash
  <2>3. \A q \in Reqs : Ready(q)'
    BY <2>2 DEF Ready
  <2> QED
    BY <2>1, <2>2, <2>3, GoodShort, Unchanged DEF HistoryInv
<1>18. CASE UNCHANGED <<actions, made, asked, reqVars>> /\ Grows
  <2>1. \A q \in Reqs : Ready(q)'
    BY <1>18 DEF HistoryInv, Ready, Grows
  <2> QED
    BY <1>18, <2>1, Unchanged DEF HistoryInv
<1>19. ASSUME NEW c \in Ctxs, RsyncStep(c)
       PROVE  HistoryInv'
  BY <1>18, <1>19 DEF RsyncStep, Grows, Installed, TypeOK
<1>20. CASE UNCHANGED vars
  BY <1>18, <1>20 DEF Grows, Installed
<1> QED
  BY <1>2, <1>3, <1>6, <1>7, <1>8, <1>9, <1>10, <1>11, <1>12, <1>13, <1>14, <1>15,
     <1>16, <1>17, <1>19, <1>20 DEF Next, RequestNext

\* The recorded history is one that requests made one after another could have
\* left, although nothing locks the group while a request works on its copy.
THEOREM HistoryLegalCorrect == Spec => []HistoryLegal
<1>1. Init => TypeOK /\ HistoryInv
  BY TypeInit, HistoryInit
<1>2. TypeOK /\ HistoryInv /\ [Next]_vars => (TypeOK /\ HistoryInv)'
  BY TypeStep, HistoryStep
<1>3. HistoryInv => HistoryLegal
  BY DEF HistoryInv, Good, HistoryLegal
<1> QED
  BY <1>1, <1>2, <1>3, PTL DEF Spec

\* No history records a call to rsync that was not made.
THEOREM RecordedMeansCalledCorrect == Spec => []RecordedMeansCalled
<1>1. Init => TypeOK /\ HistoryInv
  BY TypeInit, HistoryInit
<1>2. TypeOK /\ HistoryInv /\ [Next]_vars => (TypeOK /\ HistoryInv)'
  BY TypeStep, HistoryStep
<1>3. HistoryInv => RecordedMeansCalled
  BY DEF HistoryInv, Good, RecordedMeansCalled, Installed
<1> QED
  BY <1>1, <1>2, <1>3, PTL DEF Spec

-----------------------------------------------------------------------------
(* Undisturbed requests.                                                   *)

\* No two requests so far were in progress at the same time, and none failed.
Calm == faults = 0 /\ ~ raced

Alone == \A p, q \in Reqs : pc[p] # "idle" /\ pc[q] # "idle" => p = q

\* What a request has checked is still true of the document.
StillTrue(q) ==
    /\ pc[q] \in {"createMeta", "createState"} => actions = <<>>
    /\ pc[q] = "createState" => meta
    /\ pc[q] = "approve" => Approvable(actions)
    /\ pc[q] \in {"build", "prepare", "recordInst"} => Instantiable(actions)
    /\ pc[q] \in {"prepare", "recordInst"} => ctx[q] \in record
    /\ pc[q] \in {"uninstall", "recordTerm"} =>
          Terminable(actions) /\ ctx[q] = Last(actions).ctx
    /\ pc[q] = "recordTerm" => ctx[q] \in asked
    /\ pc[q] \in {"deleteCtxs", "remove"} => ~ Terminable(actions)

\* A context that runs and is not asked to end is known: to the document, or to
\* the request that is about to record it.
Known(c) ==
    \/ CurrentState(actions) = "Instantiated" /\ Last(actions).ctx = c
    \/ \E q \in Reqs : pc[q] = "recordInst" /\ ctx[q] = c

NoneUnknown == \A c \in Ctxs : status[c] # "none" /\ c \notin asked => Known(c)

Reachable == CurrentState(actions) = "Instantiated" => Last(actions).ctx \in record

Fresh == ~ meta => actions = <<>>

CalmInv ==
    Calm => /\ Alone /\ \A q \in Reqs : StillTrue(q)
            /\ NoneUnknown /\ Reachable /\ Fresh

LEMMA CalmInit == Init => CalmInv
BY DEF Init, CalmInv, Calm, Alone, StillTrue, NoneUnknown, Reachable, Fresh, CurrentState

\* What the last action of a history says.
LEMMA AppendLast ==
    ASSUME NEW s \in Seq(ActionEntry), NEW e \in ActionEntry
    PROVE  /\ Last(Append(s, e)) = e
           /\ CurrentState(Append(s, e)) = e.state
           /\ Append(s, e) # <<>>
BY DEF Last, CurrentState

\* The states a request accepts, by name.
LEMMA StatesApart ==
    ASSUME NEW s
    PROVE  /\ Approvable(s) => ~ Terminable(s)
           /\ Instantiable(s) => ~ Terminable(s)
           /\ Removable(s) => ~ Terminable(s)
           /\ Terminated(s) => ~ Terminable(s)
           /\ s = <<>> => ~ Terminable(s)
           /\ Terminable(s) <=> CurrentState(s) = "Instantiated"
BY DEF Approvable, Instantiable, Removable, Terminated, Terminable, CurrentState

\* Only one request moves, and what it has checked is true after the step.
LEMMA OneMoves ==
    ASSUME NEW q \in Reqs, pc \in [Reqs -> PC],
           \A p \in Reqs : p # q => pc[p] = "idle",
           NEW to, pc' = [pc EXCEPT ![q] = to],
           StillTrue(q)'
    PROVE  Alone' /\ \A p \in Reqs : StillTrue(p)'
BY DEF Alone, StillTrue

\* A request that arrives finds what it checks.
LEMMA ArriveCalm ==
    ASSUME TypeOK, CalmInv, NEW q \in Reqs, NEW next \in PC, Arrive(q, next), Calm',
           next # "recordInst",
           StillTrue(q)'
    PROVE  CalmInv'
<1>1. Calm /\ \A p \in Reqs : p # q => pc[p] = "idle"
  BY DEF Arrive, Calm, TypeOK
<1>2. pc' = [pc EXCEPT ![q] = next] /\ pc[q] = "idle"
  BY DEF Arrive
<1>3. Alone' /\ \A p \in Reqs : StillTrue(p)'
  BY <1>1, <1>2, OneMoves DEF TypeOK
<1>4. \A c \in Ctxs : Known(c) => Known(c)'
  BY <1>1, <1>2 DEF Arrive, Known, CurrentState, Last
<1>5. UNCHANGED <<meta, actions, record, status, asked>>
  BY DEF Arrive
<1>6. NoneUnknown'
  BY <1>1, <1>4, <1>5 DEF CalmInv, NoneUnknown
<1>7. Reachable' /\ Fresh'
  BY <1>1, <1>5 DEF CalmInv, Reachable, Fresh, CurrentState, Last
<1> QED
  BY <1>3, <1>6, <1>7 DEF CalmInv

\* A request that goes on does so alone.
LEMMA AloneGoes ==
    ASSUME CalmInv, Calm, NEW q \in Reqs, pc[q] # "idle"
    PROVE  \A p \in Reqs : p # q => pc[p] = "idle"
BY DEF CalmInv, Alone

\* The end of a request.
LEMMA FinishCalm ==
    ASSUME TypeOK, CalmInv, Calm, NEW q \in Reqs, NEW from, from # "idle",
           Finish(q, from)
    PROVE  /\ Alone' /\ \A p \in Reqs : StillTrue(p)'
           /\ \A p \in Reqs : pc'[p] = "idle"
           /\ \A p \in Reqs : p # q => pc[p] = "idle"
<1>1. pc[q] = from /\ pc' = [pc EXCEPT ![q] = "idle"]
  BY DEF Finish
<1>2. \A p \in Reqs : p # q => pc[p] = "idle"
  BY <1>1, AloneGoes
<1>3. StillTrue(q)'
  BY <1>1 DEF TypeOK, StillTrue
<1> QED
  BY <1>1, <1>2, <1>3, OneMoves DEF TypeOK

\* A step inside a request that leaves the document alone.
LEMMA StepCalm ==
    ASSUME TypeOK, CalmInv, Calm, NEW q \in Reqs, NEW from, NEW to, from # "idle",
           Step(q, from, to), StillTrue(q)'
    PROVE  /\ Alone' /\ \A p \in Reqs : StillTrue(p)'
           /\ pc'[q] = to /\ pc[q] = from
           /\ \A p \in Reqs : p # q => pc[p] = "idle" /\ pc'[p] = "idle"
<1>1. pc[q] = from /\ pc' = [pc EXCEPT ![q] = to]
  BY DEF Step
<1>2. \A p \in Reqs : p # q => pc[p] = "idle"
  BY <1>1, AloneGoes
<1> QED
  BY <1>1, <1>2, OneMoves DEF TypeOK

\* The write of an action at the end of a request.
LEMMA RecordCalm ==
    ASSUME TypeOK, CalmInv, Calm', NEW q \in Reqs, NEW from, from # "idle",
           NEW entry \in ActionEntry, Record(q, from, entry), Fresh', 
           entry.state = "Instantiated" => entry.ctx \in record,
           \A c \in Ctxs : status[c] # "none" /\ c \notin asked =>
               entry.state = "Instantiated" /\ entry.ctx = c
    PROVE  CalmInv'
<1>1. Finish(q, from) /\ NoFault /\ actions' = Append(snap[q], entry) /\ UNCHANGED ctxVars
  BY DEF Record, Calm, NoFault, Fault, TypeOK
<1>2. Calm
  BY <1>1 DEF Calm, NoFault, Finish
<1>3. Last(actions') = entry /\ CurrentState(actions') = entry.state
  BY <1>1, AppendLast DEF TypeOK
<1>4. Alone' /\ \A p \in Reqs : StillTrue(p)'
  BY <1>1, <1>2, FinishCalm
<1>5. CurrentState(actions)' = entry.state /\ Last(actions)' = entry
  BY <1>3 DEF CurrentState, Last
<1>6. UNCHANGED <<record, status, asked>>
  BY <1>1
<1>7. \A c \in Ctxs : status'[c] # "none" /\ c \notin asked' => Known(c)'
  BY <1>5, <1>6 DEF Known
<1>8. Reachable'
  BY <1>5, <1>6 DEF Reachable
<1> QED
  BY <1>4, <1>7, <1>8 DEF CalmInv, NoneUnknown

LEMMA CalmStep == TypeOK /\ CalmInv /\ [Next]_vars => CalmInv'
<1> SUFFICES ASSUME TypeOK, CalmInv, [Next]_vars, Calm'
             PROVE  CalmInv'
  BY DEF CalmInv
<1> USE StatesApart
<1>1. ASSUME NEW q \in Reqs, Create(q)
      PROVE  CalmInv'
  <2>1. Calm /\ actions = <<>> /\ actions' = <<>>
    BY <1>1 DEF Create, Arrive, Calm, CalmInv, Fresh
  <2>2. StillTrue(q)'
    BY <1>1, <2>1 DEF Create, Arrive, TypeOK, StillTrue
  <2> QED
    BY <1>1, <2>2, ArriveCalm DEF Create, PC
<1>2. ASSUME NEW q \in Reqs, Approve(q) \/ Instantiate(q)
      PROVE  CalmInv'
  <2>1. StillTrue(q)'
    BY <1>2 DEF Approve, Instantiate, Approvable, Instantiable, CurrentState, Last,
                Arrive, TypeOK, StillTrue
  <2> QED
    BY <1>2, <2>1, ArriveCalm DEF Approve, Instantiate, PC
<1>3. ASSUME NEW q \in Reqs, Terminate(q)
      PROVE  CalmInv'
  <2>1. StillTrue(q)'
    BY <1>3 DEF Terminate, Terminable, CurrentState, Last, Arrive, TypeOK, StillTrue
  <2> QED
    BY <1>3, <2>1, ArriveCalm DEF Terminate, PC
<1>4. ASSUME NEW q \in Reqs, Delete(q)
      PROVE  CalmInv'
  <2>1. ~ Terminable(actions) /\ ~ Terminable(actions)'
    BY <1>4 DEF Delete, Arrive, Terminable, CurrentState, Last
  <2>2. StillTrue(q)'
    BY <1>4, <2>1 DEF Delete, Arrive, TypeOK, StillTrue
  <2> QED
    BY <1>4, <2>2, ArriveCalm DEF Delete, PC
<1>5. ASSUME NEW q \in Reqs, CreateMeta(q)
      PROVE  CalmInv'
  <2>1. Calm /\ Step(q, "createMeta", "createState")
        /\ UNCHANGED <<actions, ctxVars, ctx>> /\ meta'
    BY <1>5 DEF CreateMeta, Step, Calm
  <2>2. StillTrue(q)'
    BY <2>1 DEF CalmInv, Step, TypeOK, StillTrue
  <2>3. /\ Alone' /\ \A p \in Reqs : StillTrue(p)'
        /\ \A p \in Reqs : pc[p] # "recordInst"
    BY <2>1, <2>2, StepCalm
  <2>4. NoneUnknown'
    BY <2>1, <2>3 DEF CalmInv, NoneUnknown, Known, CurrentState, Last
  <2> QED
    BY <2>1, <2>3, <2>4 DEF CalmInv, Reachable, Fresh, CurrentState, Last
<1>6. ASSUME NEW q \in Reqs, CreateState(q)
      PROVE  CalmInv'
  <2>1. /\ Calm /\ Finish(q, "createState") /\ UNCHANGED <<meta, ctxVars>>
        /\ actions' = <<Entry("Created", NoCtx)>>
    BY <1>6 DEF CreateState, Finish, Calm, NoFault, Fault, TypeOK
  <2>2. /\ Alone' /\ \A p \in Reqs : StillTrue(p)'
        /\ \A p \in Reqs : p # q => pc[p] = "idle"
    BY <2>1, FinishCalm
  <2>3. pc[q] = "createState" /\ actions = <<>> /\ meta
    BY <2>1 DEF Finish, CalmInv, StillTrue
  <2>4. \A c \in Ctxs : ~ Known(c)
    BY <2>2, <2>3 DEF Known, CurrentState
  <2>5. CurrentState(actions)' = "Created"
    BY <2>1 DEF CurrentState, Last
  <2> QED
    BY <2>1, <2>2, <2>3, <2>4, <2>5 DEF CalmInv, NoneUnknown, Reachable, Fresh
<1>7. ASSUME NEW q \in Reqs, RecordApproved(q)
      PROVE  CalmInv'
  <2>1. Record(q, "approve", Entry("Approved", NoCtx))
    BY <1>7 DEF RecordApproved
  <2>2. Calm /\ pc[q] = "approve" /\ UNCHANGED <<meta, ctxVars>>
    BY <2>1 DEF Record, Finish, Calm, NoFault, Fault, TypeOK
  <2>3. Approvable(actions) /\ meta
    BY <2>2 DEF CalmInv, StillTrue, Fresh, Approvable, CurrentState, TypeOK
  <2>4. \A c \in Ctxs : ~ Known(c)
    BY <2>2, <2>3, AloneGoes DEF Known
  <2>5. Entry("Approved", NoCtx) \in ActionEntry
    BY DEF ActionEntry, StateValue
  <2> QED
    BY <2>1, <2>2, <2>3, <2>4, <2>5, RecordCalm DEF CalmInv, NoneUnknown, Fresh
<1>8. ASSUME NEW q \in Reqs, RecordInstantiated(q)
      PROVE  CalmInv'
  <2> DEFINE e == Entry("Instantiated", ctx[q])
  <2>1. Record(q, "recordInst", e)
    BY <1>8 DEF RecordInstantiated
  <2>2. Calm /\ pc[q] = "recordInst" /\ UNCHANGED <<meta, ctxVars>>
    BY <2>1 DEF Record, Finish, Calm, NoFault, Fault, TypeOK
  <2>3. Instantiable(actions) /\ ctx[q] \in record /\ meta
    BY <2>2 DEF CalmInv, StillTrue, Fresh, Instantiable, CurrentState, TypeOK
  <2>4. \A c \in Ctxs : Known(c) => c = ctx[q]
    BY <2>2, <2>3, AloneGoes DEF Known
  <2>5. e \in ActionEntry /\ e.state = "Instantiated" /\ e.ctx = ctx[q]
    BY DEF ActionEntry, StateValue, TypeOK
  <2> QED
    BY <2>1, <2>2, <2>3, <2>4, <2>5, RecordCalm DEF CalmInv, NoneUnknown, Fresh
<1>9. ASSUME NEW q \in Reqs, RecordTerminated(q)
      PROVE  CalmInv'
  <2> DEFINE e == Entry("Terminated", ctx[q])
  <2>1. Record(q, "recordTerm", e)
    BY <1>9 DEF RecordTerminated
  <2>2. Calm /\ pc[q] = "recordTerm" /\ UNCHANGED <<meta, ctxVars>>
    BY <2>1 DEF Record, Finish, Calm, NoFault, Fault, TypeOK
  <2>3. /\ Terminable(actions) /\ ctx[q] = Last(actions).ctx /\ ctx[q] \in asked
        /\ meta
    BY <2>2 DEF CalmInv, StillTrue, Fresh, Terminable, CurrentState, TypeOK
  <2>4. \A c \in Ctxs : Known(c) => c \in asked
    BY <2>2, <2>3, AloneGoes DEF Known
  <2>5. e \in ActionEntry /\ e.state # "Instantiated"
    BY DEF ActionEntry, StateValue, TypeOK
  <2> QED
    BY <2>1, <2>2, <2>3, <2>4, <2>5, RecordCalm DEF CalmInv, NoneUnknown, Fresh
<1>10. ASSUME NEW q \in Reqs, NEW c \in Ctxs, MakeContext(q, c)
       PROVE  CalmInv'
  <2>1. /\ Calm /\ Step(q, "build", "prepare")
        /\ UNCHANGED <<docVars, status, asked>>
        /\ record' = record \cup {c} /\ ctx' = [ctx EXCEPT ![q] = c]
    BY <1>10 DEF MakeContext, Step, Calm
  <2>2. StillTrue(q)'
    BY <2>1 DEF CalmInv, Step, TypeOK, StillTrue, Instantiable, CurrentState, Last
  <2>3. /\ Alone' /\ \A p \in Reqs : StillTrue(p)'
        /\ \A p \in Reqs : pc[p] # "recordInst"
    BY <2>1, <2>2, StepCalm
  <2>4. NoneUnknown'
    BY <2>1, <2>3 DEF CalmInv, NoneUnknown, Known, CurrentState, Last
  <2> QED
    BY <2>1, <2>3, <2>4 DEF CalmInv, Reachable, Fresh, CurrentState, Last
<1>11. ASSUME NEW q \in Reqs, CallInstall(q)
       PROVE  CalmInv'
  <2>1. /\ Calm /\ Step(q, "prepare", "recordInst")
        /\ UNCHANGED <<docVars, record, asked, ctx>>
        /\ status' = [status EXCEPT ![ctx[q]] = "Instantiating"]
    BY <1>11 DEF CallInstall, Step, Calm
  <2>2. StillTrue(q)'
    BY <2>1 DEF CalmInv, Step, TypeOK, StillTrue, Instantiable, CurrentState, Last
  <2>3. /\ Alone' /\ \A p \in Reqs : StillTrue(p)'
        /\ \A p \in Reqs : pc[p] # "recordInst"
        /\ pc'[q] = "recordInst"
    BY <2>1, <2>2, StepCalm
  <2>4. ASSUME NEW c \in Ctxs, status'[c] # "none", c \notin asked'
        PROVE  Known(c)'
    <3>1. CASE c = ctx[q]
      BY <2>1, <2>3, <3>1 DEF Known
    <3>2. CASE c # ctx[q]
      BY <2>1, <2>3, <2>4, <3>2 DEF CalmInv, NoneUnknown, Known, CurrentState, Last, TypeOK
    <3> QED
      BY <3>1, <3>2
  <2> QED
    BY <2>1, <2>3, <2>4 DEF CalmInv, NoneUnknown, Reachable, Fresh, CurrentState, Last
<1>12. ASSUME NEW q \in Reqs, CallUninstall(q)
       PROVE  CalmInv'
  <2>1. /\ Calm /\ Step(q, "uninstall", "recordTerm")
        /\ UNCHANGED <<docVars, record, status, ctx>>
        /\ asked' = asked \cup {ctx[q]}
    BY <1>12 DEF CallUninstall, Step, Calm
  <2>2. StillTrue(q)'
    BY <2>1 DEF CalmInv, Step, TypeOK, StillTrue, Terminable, CurrentState, Last
  <2>3. /\ Alone' /\ \A p \in Reqs : StillTrue(p)'
        /\ \A p \in Reqs : pc[p] # "recordInst"
    BY <2>1, <2>2, StepCalm
  <2>4. NoneUnknown'
    BY <2>1, <2>3 DEF CalmInv, NoneUnknown, Known, CurrentState, Last
  <2> QED
    BY <2>1, <2>3, <2>4 DEF CalmInv, Reachable, Fresh, CurrentState, Last
<1>13. ASSUME NEW q \in Reqs, NEW c \in Ctxs, DeleteContext(q, c)
       PROVE  CalmInv'
  <2>1. PICK to \in {"remove", "deleteCtxs"} :
           /\ Calm /\ Step(q, "deleteCtxs", to)
           /\ UNCHANGED <<docVars, status, asked, ctx>>
    BY <1>13 DEF DeleteContext, Step, Calm
  <2>2. ~ Terminable(actions)
    BY <2>1 DEF CalmInv, Step, StillTrue
  <2>3. StillTrue(q)'
    BY <2>1, <2>2 DEF Step, TypeOK, StillTrue, Terminable, CurrentState, Last
  <2>4. /\ Alone' /\ \A p \in Reqs : StillTrue(p)'
        /\ \A p \in Reqs : pc[p] # "recordInst"
    BY <2>1, <2>3, StepCalm
  <2>5. NoneUnknown'
    BY <2>1, <2>4 DEF CalmInv, NoneUnknown, Known, CurrentState, Last
  <2> QED
    BY <2>1, <2>2, <2>4, <2>5 DEF CalmInv, Reachable, Fresh, CurrentState, Last
<1>14. ASSUME NEW q \in Reqs, CallUninstallFails(q)
       PROVE  CalmInv'
  <2>1. /\ Calm /\ Finish(q, "uninstall") /\ UNCHANGED <<docVars, ctxVars>>
    BY <1>14 DEF CallUninstallFails, Finish, Calm, NoFault, Fault, TypeOK
  <2>2. /\ Alone' /\ \A p \in Reqs : StillTrue(p)'
        /\ \A p \in Reqs : pc[p] # "recordInst"
    BY <2>1, FinishCalm DEF Finish
  <2>3. NoneUnknown'
    BY <2>1, <2>2 DEF CalmInv, NoneUnknown, Known, CurrentState, Last
  <2> QED
    BY <2>1, <2>2, <2>3 DEF CalmInv, Reachable, Fresh, CurrentState, Last
<1>15. ASSUME NEW q \in Reqs, DeleteContextFails(q)
       PROVE  CalmInv'
  <2>1. /\ Calm /\ Finish(q, "deleteCtxs") /\ UNCHANGED <<docVars, ctxVars>>
    BY <1>15 DEF DeleteContextFails, Finish, Calm, NoFault, Fault, TypeOK
  <2>2. /\ Alone' /\ \A p \in Reqs : StillTrue(p)'
        /\ \A p \in Reqs : pc[p] # "recordInst"
    BY <2>1, FinishCalm DEF Finish
  <2>3. NoneUnknown'
    BY <2>1, <2>2 DEF CalmInv, NoneUnknown, Known, CurrentState, Last
  <2> QED
    BY <2>1, <2>2, <2>3 DEF CalmInv, Reachable, Fresh, CurrentState, Last
<1>16. ASSUME NEW q \in Reqs, Remove(q)
       PROVE  CalmInv'
  <2>1. /\ Calm /\ Finish(q, "remove") /\ actions' = <<>> /\ UNCHANGED ctxVars
    BY <1>16 DEF Remove, Finish, Calm, NoFault, Fault, TypeOK
  <2>2. /\ Alone' /\ \A p \in Reqs : StillTrue(p)'
        /\ \A p \in Reqs : pc[p] # "recordInst"
        /\ ~ Terminable(actions)
    BY <2>1, FinishCalm DEF Finish, CalmInv, StillTrue
  <2>3. \A c \in Ctxs : ~ Known(c)
    BY <2>2 DEF Known
  <2>4. ~ Terminable(actions)'
    BY <2>1 DEF Terminable, CurrentState
  <2> QED
    BY <2>1, <2>2, <2>3, <2>4 DEF CalmInv, NoneUnknown, Reachable, Fresh, Terminable
<1>17. ASSUME NEW c \in Ctxs, RsyncStep(c)
       PROVE  CalmInv'
  <2>1. /\ Calm /\ UNCHANGED <<docVars, record, asked, reqVars>>
        /\ \A k \in Ctxs : status'[k] # "none" => status[k] # "none"
    BY <1>17 DEF RsyncStep, Calm, TypeOK
  <2>2. Alone' /\ \A p \in Reqs : StillTrue(p)'
    BY <2>1 DEF CalmInv, Alone, StillTrue, Approvable, Instantiable, Terminable,
                CurrentState, Last
  <2>3. NoneUnknown'
    BY <2>1 DEF CalmInv, NoneUnknown, Known, CurrentState, Last
  <2> QED
    BY <2>1, <2>2, <2>3 DEF CalmInv, Reachable, Fresh, CurrentState, Last
<1>18. ASSUME NEW q \in Reqs, PrepareFails(q) \/ CallInstallFails(q)
       PROVE  CalmInv'
  BY <1>18 DEF PrepareFails, CallInstallFails, Fault, Calm, TypeOK
<1>19. CASE Crash
  BY <1>19 DEF Crash, Fault, Calm, TypeOK
<1>20. CASE UNCHANGED vars
  <2>1. UNCHANGED <<meta, actions, record, status, asked, pc, ctx, faults, raced>>
    BY <1>20
  <2>2. Calm
    BY <2>1 DEF Calm
  <2>3. Alone' /\ \A p \in Reqs : StillTrue(p)'
    BY <2>1, <2>2 DEF CalmInv, Alone, StillTrue, Approvable, Instantiable, Terminable,
                CurrentState, Last
  <2>4. NoneUnknown'
    BY <2>1, <2>2 DEF CalmInv, NoneUnknown, Known, CurrentState, Last
  <2> QED
    BY <2>1, <2>2, <2>3, <2>4 DEF CalmInv, Reachable, Fresh, CurrentState, Last
<1> QED
  BY <1>1, <1>2, <1>3, <1>4, <1>5, <1>6, <1>7, <1>8, <1>9, <1>10, <1>11, <1>12,
     <1>13, <1>14, <1>15, <1>16, <1>17, <1>18, <1>19, <1>20 DEF Next, RequestNext

LEMMA CalmAlways == Spec => []CalmInv
<1>1. Init => TypeOK /\ CalmInv
  BY TypeInit, CalmInit
<1>2. TypeOK /\ CalmInv /\ [Next]_vars => (TypeOK /\ CalmInv)'
  BY TypeStep, CalmStep
<1> QED
  BY <1>1, <1>2, PTL DEF Spec

\* As long as requests come one at a time and none fails, a context that runs
\* and was not asked to end is the one Terminate would end next.
THEOREM NoOrphanCorrect == Spec => []NoOrphan
<1>1. CalmInv => NoOrphan
  BY DEF CalmInv, NoOrphan, NoneUnknown, Known, Quiet, Calm
<1> QED
  BY <1>1, CalmAlways, PTL

\* ... and etcd still has it.
THEOREM LastContextExistsCorrect == Spec => []LastContextExists
<1>1. CalmInv => LastContextExists
  BY DEF CalmInv, LastContextExists, Reachable, Quiet, Calm
<1> QED
  BY <1>1, CalmAlways, PTL
=============================================================================
