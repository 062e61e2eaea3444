------------------------- MODULE LogicalCloudsProofs -------------------------
(***************************************************************************)
(* Theorems about LogicalClouds, for any number of requests, contexts,     *)
(* keys, clusters and quotas, and of failing calls and crashes; and, at    *)
(* the end, what they and the theorems about NetworkIntents say of the two *)
(* modules in one specification, MCServices.                               *)
(***************************************************************************)
EXTENDS MCServices, TLAPS

-----------------------------------------------------------------------------
(* Type correctness.                                                       *)

\* A request that goes on, or ends, stays a request.
Named(new) == new.pc = "insertChild" => new.child # "none"

LEMMA SetType ==
    ASSUME TypeOK, NEW q \in Reqs, NEW new \in Request, Named(new), Set(q, new)
    PROVE  /\ lcReq' \in [Reqs -> Request]
           /\ \A p \in Reqs : At(p, "insertChild")' => lcReq'[p].child # "none"
BY DEF Set, TypeOK, Named, At

LEMMA IdleType == Idle \in Request
BY DEF Idle, Request, PC

LEMMA InitType == Init => TypeOK
<1> SUFFICES ASSUME Init PROVE TypeOK
  OBVIOUS
<1>1. lcReq \in [Reqs -> Request] /\ \A q \in Reqs : lcReq[q].pc = "idle"
  BY IdleType DEF Init, Idle
<1>2. lcReqs \in Nat /\ lcFaults \in Nat
  BY DEF Init
<1>3. cloud \in BOOLEAN /\ overlap \in BOOLEAN
  BY DEF Init
<1> QED
  BY <1>1, <1>2, <1>3 DEF Init, TypeOK, At

\* A request that ends.
LEMMA FinishType ==
    ASSUME TypeOK, NEW q \in Reqs, Finish(q)
    PROVE  /\ lcReq' \in [Reqs -> Request]
           /\ \A p \in Reqs : At(p, "insertChild")' => lcReq'[p].child # "none"
           /\ lcReqs' \in Nat /\ overlap' \in BOOLEAN
<1>1. Named(Idle)
  BY DEF Named, Idle
<1> QED
  BY <1>1, IdleType, SetType DEF TypeOK, Finish, Set

LEMMA FaultType ==
    ASSUME TypeOK, NoFault \/ Fault
    PROVE  lcFaults' \in Nat
BY DEF TypeOK, NoFault, Fault

LEMMA RequestType ==
    ASSUME TypeOK, NEW q \in Reqs
    PROVE  /\ lcReq[q] \in Request
           /\ lcReq[q].pc \in PC /\ lcReq[q].child \in Clusters \cup Quotas \cup {"none"}
           /\ lcReq[q].key \in Keys \cup {NoKey} /\ lcReq[q].ctx \in Ctxs \cup {NoCtx}
           /\ lcReq[q].left \subseteq Clusters
BY DEF TypeOK, Request

LEMMA ArriveType ==
    ASSUME TypeOK, NEW q \in Reqs, NEW start \in Request, Named(start), Arrive(q, start)
    PROVE  TypeOK'
BY DEF TypeOK, Arrive, Named, At, docVars, ctxVars

LEMMA RequestNextType ==
    ASSUME LogicalCloudsAssumption, TypeOK, NEW q \in Reqs, RequestNext(q)
    PROVE  TypeOK'
<1> USE RequestType, IdleType
<1>1. CASE Create(q)
  <2>1. [Idle EXCEPT !.pc = "insert"] \in Request
    BY DEF Idle, Request, PC
  <2>2. Named([Idle EXCEPT !.pc = "insert"])
    BY DEF Named, Idle
  <2> QED
    BY <1>1, <2>1, <2>2, ArriveType DEF Create
<1>2. CASE Update(q)
  <2>1. [Idle EXCEPT !.pc = "insert"] \in Request
    BY DEF Idle, Request, PC
  <2>2. Named([Idle EXCEPT !.pc = "insert"])
    BY DEF Named, Idle
  <2> QED
    BY <1>2, <2>1, <2>2, ArriveType DEF Update
<1>3. CASE Insert(q)
  <2>1. Finish(q) /\ (NoFault \/ Fault)
    BY <1>3 DEF Insert
  <2> QED
    BY <1>3, <2>1, FinishType, FaultType DEF Insert, TypeOK, ctxVars
<1>4. CASE Delete(q)
  <2>1. [Idle EXCEPT !.pc = "count"] \in Request
    BY DEF Idle, Request, PC
  <2>2. Named([Idle EXCEPT !.pc = "count"])
    BY DEF Named, Idle
  <2> QED
    BY <1>4, <2>1, <2>2, ArriveType DEF Delete
<1>5. CASE CountChildren(q)
  <2>1. [Idle EXCEPT !.pc = "remove"] \in Request
    BY DEF Idle, Request, PC
  <2>2. Named([Idle EXCEPT !.pc = "remove"])
    BY DEF Named, Idle
  <2>3. CASE Finish(q)
    BY <1>5, <2>3, FinishType DEF CountChildren, TypeOK, docVars, ctxVars
  <2>4. CASE Set(q, [Idle EXCEPT !.pc = "remove"])
    BY <1>5, <2>1, <2>2, <2>4, SetType DEF CountChildren, TypeOK, Set, docVars, ctxVars
  <2> QED
    BY <1>5, <2>3, <2>4 DEF CountChildren
<1>6. CASE Remove(q)
  <2>1. Finish(q) /\ (NoFault \/ Fault)
    BY <1>6 DEF Remove
  <2> QED
    BY <1>6, <2>1, FinishType, FaultType DEF Remove, TypeOK, ctxVars
<1>7. ASSUME NEW child \in Clusters \cup Quotas, CreateChild(q, child) PROVE TypeOK'
  <2>1. [Idle EXCEPT !.pc = "insertChild", !.child = child] \in Request
    BY DEF Idle, Request, PC
  <2>2. Named([Idle EXCEPT !.pc = "insertChild", !.child = child])
    BY DEF Named, Idle, LogicalCloudsAssumption
  <2> QED
    BY <1>7, <2>1, <2>2, ArriveType DEF CreateChild
<1>8. ASSUME NEW child \in Clusters \cup Quotas, DeleteChild(q, child) PROVE TypeOK'
  <2>1. [Idle EXCEPT !.pc = "removeChild", !.child = child] \in Request
    BY DEF Idle, Request, PC
  <2>2. Named([Idle EXCEPT !.pc = "removeChild", !.child = child])
    BY DEF Named, Idle
  <2> QED
    BY <1>8, <2>1, <2>2, ArriveType DEF DeleteChild
<1>9. CASE InsertChild(q)
  <2>1. Finish(q) /\ (NoFault \/ Fault)
    BY <1>9 DEF InsertChild
  <2> QED
    BY <1>9, <2>1, FinishType, FaultType DEF InsertChild, TypeOK, ctxVars
<1>10. CASE RemoveChild(q)
  <2>1. Finish(q) /\ (NoFault \/ Fault)
    BY <1>10 DEF RemoveChild
  <2> QED
    BY <1>10, <2>1, FinishType, FaultType DEF RemoveChild, TypeOK, ctxVars
<1>11. CASE Apply(q)
  <2>1. [Idle EXCEPT !.pc = "key", !.left = children \cap Clusters] \in Request
    BY DEF Idle, Request, PC
  <2>2. Named([Idle EXCEPT !.pc = "key", !.left = children \cap Clusters])
    BY DEF Named, Idle
  <2> QED
    BY <1>11, <2>1, <2>2, ArriveType DEF Apply
<1>12. ASSUME NEW k \in Keys, GenerateKey(q, k) PROVE TypeOK'
  <2>1. [lcReq[q] EXCEPT !.pc = "context", !.key = k] \in Request
    BY DEF Request, PC
  <2>2. Named([lcReq[q] EXCEPT !.pc = "context", !.key = k])
    BY DEF Named, Request, PC
  <2> QED
    BY <1>12, <2>1, <2>2, SetType DEF GenerateKey, TypeOK, Set, docVars, ctxVars
<1>13. ASSUME NEW c \in Ctxs, MakeContext(q, c) PROVE TypeOK'
  <2>1. [lcReq[q] EXCEPT !.pc = "clusters", !.ctx = c] \in Request
    BY DEF Request, PC
  <2>2. Named([lcReq[q] EXCEPT !.pc = "clusters", !.ctx = c])
    BY DEF Named, Request, PC
  <2> QED
    BY <1>13, <2>1, <2>2, SetType DEF MakeContext, TypeOK, Set, docVars
<1>14. ASSUME NEW cl \in Clusters, AddCluster(q, cl) PROVE TypeOK'
  <2>1. [lcReq[q] EXCEPT !.pc = "saveKey", !.left = @ \ {cl}] \in Request
    BY DEF Request, PC
  <2>2. Named([lcReq[q] EXCEPT !.pc = "saveKey", !.left = @ \ {cl}])
    BY DEF Named, Request, PC
  <2>3. placed' \in [Ctxs -> SUBSET Clusters] /\ csr' \in [Ctxs -> Keys \cup {NoKey}]
    BY <1>14 DEF AddCluster, TypeOK
  <2> QED
    BY <1>14, <2>1, <2>2, <2>3, SetType DEF AddCluster, TypeOK, Set, docVars
<1>15. CASE SaveKey(q)
  <2>1. [lcReq[q] EXCEPT !.pc = IF lcReq[q].left = {} THEN "saveContext" ELSE "clusters"] \in Request
    BY DEF Request, PC
  <2>2. Named([lcReq[q] EXCEPT !.pc = IF lcReq[q].left = {} THEN "saveContext" ELSE "clusters"])
    BY DEF Named, Request, PC
  <2> QED
    BY <1>15, <2>1, <2>2, SetType DEF SaveKey, TypeOK, Set, ctxVars
<1>16. CASE ApplyFails(q)
  BY <1>16, FinishType DEF ApplyFails, TypeOK, Fault, docVars
<1>17. CASE SaveContext(q)
  <2>1. [lcReq[q] EXCEPT !.pc = "install"] \in Request
    BY DEF Request, PC
  <2>2. Named([lcReq[q] EXCEPT !.pc = "install"])
    BY DEF Named, Request, PC
  <2> QED
    BY <1>17, <2>1, <2>2, SetType DEF SaveContext, TypeOK, Set, ctxVars
<1>18. CASE CallInstall(q)
  BY <1>18, FinishType DEF CallInstall, Install, TypeOK, docVars
<1>19. CASE CallInstallFails(q)
  BY <1>19, FinishType DEF CallInstallFails, Install, TypeOK, Fault, docVars
<1> QED
  BY <1>1, <1>2, <1>3, <1>4, <1>5, <1>6, <1>7, <1>8, <1>9, <1>10, <1>11, <1>12,
     <1>13, <1>14, <1>15, <1>16, <1>17, <1>18, <1>19 DEF RequestNext

LEMMA NextType == LogicalCloudsAssumption /\ TypeOK /\ [Next]_vars => TypeOK'
<1> SUFFICES ASSUME LogicalCloudsAssumption, TypeOK, [Next]_vars PROVE TypeOK'
  OBVIOUS
<1>1. ASSUME NEW q \in Reqs, RequestNext(q) PROVE TypeOK'
  BY <1>1, RequestNextType
<1>2. ASSUME NEW c \in Ctxs, RsyncStep(c) PROVE TypeOK'
  BY <1>2 DEF RsyncStep, TypeOK, At, docVars
<1>3. CASE Crash
  BY <1>3, IdleType DEF Crash, Fault, TypeOK, At, Idle, docVars, ctxVars
<1>4. CASE UNCHANGED vars
  BY <1>4 DEF TypeOK, At, vars, docVars, ctxVars
<1> QED
  BY <1>1, <1>2, <1>3, <1>4 DEF Next

\* Every reachable state of the cloud, its contexts and its requests is well typed.
THEOREM TypeCorrect ==
    ASSUME LogicalCloudsAssumption
    PROVE  Spec => []TypeOK
BY InitType, NextType, PTL DEF Spec

-----------------------------------------------------------------------------
(* The contexts of the requests, of the document and of rsync.             *)

Building == {"clusters", "saveKey", "saveContext"}
Holds(q) == lcReq[q].pc \in Building \cup {"install"}

\* A request that holds a context holds one that exists, of its own; until it is
\* saved, neither the document nor rsync knows it.
ContextInv ==
    /\ \A q \in Reqs : Holds(q) => lcReq[q].ctx \in record
    /\ \A p, q \in Reqs : Holds(p) /\ Holds(q) /\ p # q => lcReq[p].ctx # lcReq[q].ctx
    /\ \A q \in Reqs : lcReq[q].pc \in Building =>
          lcReq[q].ctx # lccontext /\ status[lcReq[q].ctx] = "none"
    /\ SavedContextExists
    /\ WorkedOnStays

\* What happens to the requests in a step of one of them.
LEMMA OnlyOne ==
    ASSUME TypeOK, NEW q \in Reqs, RequestNext(q)
    PROVE  \A p \in Reqs \ {q} : lcReq'[p] = lcReq[p]
<1>1. ASSUME NEW start, Arrive(q, start) PROVE \A p \in Reqs \ {q} : lcReq'[p] = lcReq[p]
  BY <1>1 DEF Arrive, TypeOK
<1>2. ASSUME NEW new, Set(q, new) PROVE \A p \in Reqs \ {q} : lcReq'[p] = lcReq[p]
  BY <1>2 DEF Set, TypeOK
<1> QED
  BY <1>1, <1>2 DEF RequestNext, Create, Update, Insert, Delete, CountChildren, Remove,
     CreateChild, DeleteChild, InsertChild, RemoveChild, Apply, GenerateKey, MakeContext,
     AddCluster, SaveKey, ApplyFails, SaveContext, CallInstall, CallInstallFails, Finish

\* A step of a request that holds no context before or after it, and leaves the
\* contexts alone.
Outside(q) ==
    /\ ~ Holds(q) /\ ~ Holds(q)'
    /\ UNCHANGED <<record, status>>
    /\ lccontext' \in {lccontext, NoCtx}

LEMMA OutsideContextInv ==
    ASSUME TypeOK, LogicalCloudsAssumption, ContextInv, NEW q \in Reqs, Outside(q),
           \A p \in Reqs \ {q} : lcReq'[p] = lcReq[p]
    PROVE  ContextInv'
<1>1. \A p \in Reqs : Holds(p)' => Holds(p) /\ lcReq'[p] = lcReq[p]
  BY DEF Outside, Holds
<1>2. \A p \in Reqs : lcReq'[p].pc \in Building => Holds(p)'
  BY DEF Holds
<1>3. \A p \in Reqs : Holds(p) => lcReq[p].ctx # NoCtx
  BY DEF ContextInv, TypeOK, LogicalCloudsAssumption
<1> QED
  BY <1>1, <1>2, <1>3 DEF ContextInv, Outside, SavedContextExists, WorkedOnStays

LEMMA SetAt ==
    ASSUME TypeOK, NEW q \in Reqs, NEW new, Set(q, new)
    PROVE  lcReq'[q] = new
BY DEF TypeOK, Set

\* Everything but the last five steps of an Apply is outside.
LEMMA MostOutside ==
    ASSUME TypeOK, NEW q \in Reqs,
           \/ Create(q) \/ Update(q) \/ Insert(q)
           \/ Delete(q) \/ CountChildren(q) \/ Remove(q)
           \/ \E child \in Clusters \cup Quotas : CreateChild(q, child) \/ DeleteChild(q, child)
           \/ InsertChild(q) \/ RemoveChild(q)
           \/ Apply(q)
           \/ \E k \in Keys : GenerateKey(q, k)
    PROVE  Outside(q)
<1> USE DEF Outside, Holds, Building, At, docVars, ctxVars
<1>1. ASSUME NEW start, start.pc \notin Building \cup {"install"}, Arrive(q, start)
      PROVE  Outside(q)
  BY <1>1 DEF Arrive, TypeOK
<1>2. ASSUME NEW new, new.pc \notin Building \cup {"install"}, Set(q, new),
             lcReq[q].pc \notin Building \cup {"install"}
      PROVE  ~ Holds(q) /\ ~ Holds(q)'
  BY <1>2, SetAt
<1>3. Idle.pc = "idle"
  BY DEF Idle
<1>4. CASE Create(q) \/ Update(q) \/ Delete(q) \/ Apply(q)
  BY <1>1, <1>4 DEF Create, Update, Delete, Apply, Idle
<1>5. CASE \E child \in Clusters \cup Quotas : CreateChild(q, child) \/ DeleteChild(q, child)
  BY <1>1, <1>5 DEF CreateChild, DeleteChild, Idle
<1>6. CASE Insert(q)
  BY <1>2, <1>3, <1>6 DEF Insert, Finish
<1>7. CASE CountChildren(q)
  <2>1. [Idle EXCEPT !.pc = "remove"].pc = "remove"
    BY DEF Idle
  <2> QED
    BY <1>2, <1>3, <1>7, <2>1 DEF CountChildren, Finish
<1>8. CASE Remove(q)
  BY <1>2, <1>3, <1>8 DEF Remove, Finish
<1>9. CASE InsertChild(q)
  BY <1>2, <1>3, <1>9 DEF InsertChild, Finish
<1>10. CASE RemoveChild(q)
  BY <1>2, <1>3, <1>10 DEF RemoveChild, Finish
<1>11. ASSUME NEW k \in Keys, GenerateKey(q, k) PROVE Outside(q)
  <2>1. [lcReq[q] EXCEPT !.pc = "context", !.key = k].pc = "context"
    BY RequestType DEF Request
  <2> QED
    BY <1>2, <1>11, <2>1 DEF GenerateKey
<1> QED
  BY <1>4, <1>5, <1>6, <1>7, <1>8, <1>9, <1>10, <1>11

\* What a step of an Apply that keeps its context leaves of it.
SameContext(q) ==
    /\ lcReq'[q].ctx = lcReq[q].ctx
    /\ Holds(q)
    /\ \A p \in Reqs \ {q} : lcReq'[p] = lcReq[p]

\* The clusters of the context are written and the key is saved.
LEMMA FillContextInv ==
    ASSUME ContextInv, NEW q \in Reqs, SameContext(q),
           lcReq[q].pc \in Building, lcReq'[q].pc \in Building,
           UNCHANGED <<lccontext, record, status>>
    PROVE  ContextInv'
<1>1. \A p \in Reqs : Holds(p)' => Holds(p) /\ lcReq'[p].ctx = lcReq[p].ctx
  BY DEF SameContext, Holds
<1>2. \A p \in Reqs : lcReq'[p].pc \in Building => lcReq[p].pc \in Building
  BY DEF SameContext
<1> QED
  BY <1>1, <1>2 DEF ContextInv, SavedContextExists, WorkedOnStays, Holds

\* Apply makes its context, under an id no other one has.
LEMMA MakeContextInv ==
    ASSUME TypeOK, LogicalCloudsAssumption, ContextInv,
           NEW q \in Reqs, NEW c \in Ctxs, MakeContext(q, c)
    PROVE  ContextInv'
<1>1. /\ lcReq'[q] = [lcReq[q] EXCEPT !.pc = "clusters", !.ctx = c]
      /\ \A p \in Reqs \ {q} : lcReq'[p] = lcReq[p]
  BY SetAt, OnlyOne DEF MakeContext, RequestNext
<1>2. lcReq'[q].pc = "clusters" /\ lcReq'[q].ctx = c
  BY <1>1, RequestType DEF Request
<1>3. /\ c \notin record /\ record' = record \cup {c}
      /\ lccontext' = lccontext /\ status' = status
  BY DEF MakeContext, TypeOK, docVars
<1>4. c # lccontext /\ status[c] = "none"
  BY <1>3 DEF ContextInv, SavedContextExists, WorkedOnStays, TypeOK, LogicalCloudsAssumption
<1>5. \A p \in Reqs : Holds(p)' => p = q \/ (Holds(p) /\ lcReq'[p] = lcReq[p])
  BY <1>1 DEF Holds
<1>6. \A p \in Reqs : Holds(p) => lcReq[p].ctx \in record
  BY DEF ContextInv
<1>7. (\A p \in Reqs : Holds(p) => lcReq[p].ctx \in record)'
  BY <1>2, <1>3, <1>5, <1>6
<1>8. (\A p, r \in Reqs : Holds(p) /\ Holds(r) /\ p # r => lcReq[p].ctx # lcReq[r].ctx)'
  <2> SUFFICES ASSUME NEW p \in Reqs, NEW r \in Reqs, Holds(p)', Holds(r)', p # r
               PROVE  lcReq'[p].ctx # lcReq'[r].ctx
    OBVIOUS
  <2>1. CASE p = q
    BY <1>2, <1>3, <1>5, <1>6, <2>1
  <2>2. CASE r = q
    BY <1>2, <1>3, <1>5, <1>6, <2>2
  <2>3. CASE p # q /\ r # q
    BY <1>5, <2>3 DEF ContextInv
  <2> QED
    BY <2>1, <2>2, <2>3
<1>9. (\A p \in Reqs : lcReq[p].pc \in Building =>
          lcReq[p].ctx # lccontext /\ status[lcReq[p].ctx] = "none")'
  <2> SUFFICES ASSUME NEW p \in Reqs, lcReq'[p].pc \in Building
               PROVE  lcReq'[p].ctx # lccontext' /\ status'[lcReq'[p].ctx] = "none"
    OBVIOUS
  <2>1. CASE p = q
    BY <1>2, <1>3, <1>4, <2>1
  <2>2. CASE p # q
    BY <1>1, <1>3, <2>2 DEF ContextInv
  <2> QED
    BY <2>1, <2>2
<1>10. SavedContextExists' /\ WorkedOnStays'
  BY <1>3 DEF ContextInv, SavedContextExists, WorkedOnStays
<1> QED
  BY <1>7, <1>8, <1>9, <1>10 DEF ContextInv

\* A failed Apply removes its own context, which nobody knows.
LEMMA ApplyFailsInv ==
    ASSUME TypeOK, LogicalCloudsAssumption, ContextInv, NEW q \in Reqs, ApplyFails(q)
    PROVE  ContextInv'
<1>1. /\ lcReq'[q] = Idle
      /\ \A p \in Reqs \ {q} : lcReq'[p] = lcReq[p]
  BY SetAt, OnlyOne DEF ApplyFails, RequestNext, Finish
<1>2. /\ record' = record \ {lcReq[q].ctx}
      /\ lccontext' = lccontext /\ status' = status
      /\ lcReq[q].pc \in Building
  BY DEF ApplyFails, docVars, Building
<1>3. lcReq[q].ctx # lccontext /\ status[lcReq[q].ctx] = "none" /\ Holds(q)
  BY <1>2 DEF ContextInv, Holds
<1>4. \A p \in Reqs : Holds(p)' => p # q /\ Holds(p) /\ lcReq'[p] = lcReq[p]
  BY <1>1 DEF Holds, Idle, Building
<1>5. \A p \in Reqs : lcReq'[p].pc \in Building => Holds(p)'
  BY DEF Holds
<1>6. SavedContextExists' /\ WorkedOnStays'
  BY <1>2, <1>3 DEF ContextInv, SavedContextExists, WorkedOnStays
<1> QED
  BY <1>2, <1>3, <1>4, <1>5, <1>6 DEF ContextInv

\* The document names the context that is complete.
LEMMA SaveContextInv ==
    ASSUME TypeOK, LogicalCloudsAssumption, ContextInv, NEW q \in Reqs, SaveContext(q)
    PROVE  ContextInv'
<1>1. /\ lcReq'[q] = [lcReq[q] EXCEPT !.pc = "install"]
      /\ \A p \in Reqs \ {q} : lcReq'[p] = lcReq[p]
  BY SetAt, OnlyOne DEF SaveContext, RequestNext
<1>2. lcReq'[q].pc = "install" /\ lcReq'[q].ctx = lcReq[q].ctx
  BY <1>1, RequestType DEF Request
<1>3. /\ lcReq[q].pc \in Building /\ Holds(q)
      /\ lccontext' = lcReq[q].ctx /\ record' = record /\ status' = status
  BY DEF SaveContext, At, Building, Holds, ctxVars
<1>4. \A p \in Reqs : Holds(p)' => Holds(p) /\ lcReq'[p].ctx = lcReq[p].ctx
  BY <1>1, <1>2, <1>3 DEF Holds
<1>5. \A p \in Reqs : lcReq'[p].pc \in Building => p # q /\ lcReq'[p] = lcReq[p] /\ Holds(p)
  BY <1>1, <1>2 DEF Building, Holds
<1> QED
  BY <1>3, <1>4, <1>5 DEF ContextInv, SavedContextExists, WorkedOnStays

\* The context goes to rsync, and stays whether the call fails or not.
LEMMA InstallInv ==
    ASSUME TypeOK, LogicalCloudsAssumption, ContextInv,
           NEW q \in Reqs, CallInstall(q) \/ CallInstallFails(q)
    PROVE  ContextInv'
<1>1. /\ lcReq'[q] = Idle
      /\ \A p \in Reqs \ {q} : lcReq'[p] = lcReq[p]
  BY SetAt, OnlyOne DEF CallInstall, CallInstallFails, RequestNext, Finish
<1>2. /\ lccontext' = lccontext /\ record' = record
      /\ status' \in {status, Install(q)}
      /\ Holds(q)
  BY DEF CallInstall, CallInstallFails, docVars, At, Holds
<1>3. \A p \in Reqs : Holds(p)' => p # q /\ Holds(p) /\ lcReq'[p] = lcReq[p]
  BY <1>1 DEF Holds, Idle, Building
<1>4. \A p \in Reqs : lcReq'[p].pc \in Building =>
         p # q /\ lcReq[p].pc \in Building /\ Holds(p) /\ lcReq'[p] = lcReq[p]
  BY <1>1 DEF Holds, Idle, Building
<1>5. \A c \in Ctxs : status'[c] = status[c] \/ c = lcReq[q].ctx
  BY <1>2 DEF Install, TypeOK
<1>6. \A p \in Reqs : lcReq'[p].pc \in Building =>
         lcReq'[p].ctx # lccontext' /\ status'[lcReq'[p].ctx] = "none"
  <2> SUFFICES ASSUME NEW p \in Reqs, lcReq'[p].pc \in Building
               PROVE  lcReq[p].ctx # lccontext /\ status'[lcReq[p].ctx] = "none"
    BY <1>2, <1>4
  <2>1. lcReq[p].ctx # lcReq[q].ctx /\ lcReq[p].ctx \in Ctxs
    BY <1>2, <1>4 DEF ContextInv, TypeOK
  <2> QED
    BY <1>4, <1>5, <2>1 DEF ContextInv
<1>7. WorkedOnStays'
  BY <1>2, <1>5 DEF ContextInv, WorkedOnStays
<1> QED
  BY <1>2, <1>3, <1>6, <1>7 DEF ContextInv, SavedContextExists

LEMMA StepContextInv ==
    TypeOK /\ LogicalCloudsAssumption /\ ContextInv /\ [Next]_vars => ContextInv'
<1> SUFFICES ASSUME TypeOK, LogicalCloudsAssumption, ContextInv, [Next]_vars
             PROVE  ContextInv'
  OBVIOUS
<1>1. ASSUME NEW q \in Reqs, RequestNext(q), Outside(q) PROVE ContextInv'
  BY <1>1, OnlyOne, OutsideContextInv
<1>2. ASSUME NEW q \in Reqs, NEW cl \in Clusters, AddCluster(q, cl) PROVE ContextInv'
  <2>1. lcReq'[q] = [lcReq[q] EXCEPT !.pc = "saveKey", !.left = @ \ {cl}]
    BY <1>2, SetAt DEF AddCluster
  <2>2. lcReq'[q].pc = "saveKey" /\ lcReq'[q].ctx = lcReq[q].ctx
    BY <2>1, RequestType DEF Request
  <2>3. SameContext(q) /\ lcReq[q].pc \in Building
    BY <1>2, <2>2, OnlyOne DEF RequestNext, AddCluster, At, SameContext, Holds, Building
  <2> QED
    BY <1>2, <2>2, <2>3, FillContextInv DEF AddCluster, docVars, Building
<1>3. ASSUME NEW q \in Reqs, SaveKey(q) PROVE ContextInv'
  <2>1. lcReq'[q] = [lcReq[q] EXCEPT !.pc = IF lcReq[q].left = {}
                                            THEN "saveContext" ELSE "clusters"]
    BY <1>3, SetAt DEF SaveKey
  <2>2. lcReq'[q].pc \in Building /\ lcReq'[q].ctx = lcReq[q].ctx
    BY <2>1, RequestType DEF Request, Building
  <2>3. SameContext(q) /\ lcReq[q].pc \in Building
    BY <1>3, <2>2, OnlyOne DEF RequestNext, SaveKey, At, SameContext, Holds, Building
  <2> QED
    BY <1>3, <2>2, <2>3, FillContextInv DEF SaveKey, ctxVars
<1>4. ASSUME NEW q \in Reqs, RequestNext(q) PROVE ContextInv'
  <2>1. \/ Outside(q)
        \/ \E c \in Ctxs : MakeContext(q, c)
        \/ \E cl \in Clusters : AddCluster(q, cl)
        \/ SaveKey(q) \/ ApplyFails(q) \/ SaveContext(q)
        \/ CallInstall(q) \/ CallInstallFails(q)
    BY <1>4, MostOutside DEF RequestNext
  <2> QED
    BY <1>1, <1>2, <1>3, <1>4, <2>1, MakeContextInv, ApplyFailsInv, SaveContextInv, InstallInv
<1>5. ASSUME NEW c \in Ctxs, RsyncStep(c) PROVE ContextInv'
  <2>1. /\ lccontext' = lccontext /\ record' = record /\ lcReq' = lcReq
        /\ c \in record /\ status[c] = "Instantiating"
        /\ \A d \in Ctxs : status'[d] = status[d] \/ d = c
    BY <1>5 DEF RsyncStep, docVars, TypeOK
  <2>2. \A q \in Reqs : lcReq[q].pc \in Building => lcReq[q].ctx # c /\ lcReq[q].ctx \in Ctxs
    BY <2>1 DEF ContextInv, TypeOK, Holds
  <2> QED
    BY <2>1, <2>2 DEF ContextInv, SavedContextExists, WorkedOnStays, Holds
<1>6. CASE Crash
  <2>1. \A q \in Reqs : lcReq'[q].pc = "idle"
    BY <1>6 DEF Crash, Idle
  <2> QED
    BY <1>6, <2>1 DEF ContextInv, Crash, Holds, Building, SavedContextExists,
       WorkedOnStays, docVars, ctxVars
<1>7. CASE UNCHANGED vars
  BY <1>7 DEF vars, docVars, ctxVars, ContextInv, SavedContextExists, WorkedOnStays, Holds
<1> QED
  BY <1>4, <1>5, <1>6, <1>7 DEF Next

LEMMA InitContextInv == Init => ContextInv
BY DEF Init, Idle, ContextInv, Holds, Building, SavedContextExists, WorkedOnStays

\* SavedContextExists: a context is cleaned up only before its id is saved, by
\* the request that made it, so that whatever overlaps, fails or crashes, the id
\* in the document is that of a context etcd has.
THEOREM SavedContextExistsCorrect ==
    ASSUME LogicalCloudsAssumption
    PROVE  Spec => []SavedContextExists
<1>1. ContextInv => SavedContextExists
  BY DEF ContextInv
<1> QED
  BY <1>1, InitType, NextType, InitContextInv, StepContextInv, PTL DEF Spec

\* WorkedOnStays: what rsync was asked to install is never removed from etcd.
THEOREM WorkedOnStaysCorrect ==
    ASSUME LogicalCloudsAssumption
    PROVE  Spec => []WorkedOnStays
<1>1. ContextInv => WorkedOnStays
  BY DEF ContextInv
<1> QED
  BY <1>1, InitType, NextType, InitContextInv, StepContextInv, PTL DEF Spec

-----------------------------------------------------------------------------
(* The key of the context, as long as nothing fails and nothing overlaps.  *)

Undisturbed == lcFaults = 0 /\ ~ overlap

\* One request at a time; the key goes to the context first and to the document
\* next, so that between two Applies the document's key is that of its context.
KeyInv ==
    Undisturbed =>
    /\ \A p, q \in Reqs : p # q => At(p, "idle") \/ At(q, "idle")
    /\ \A q \in Reqs : lcReq[q].pc \in {"saveKey", "saveContext"} =>
          csr[lcReq[q].ctx] = lcReq[q].key /\ placed[lcReq[q].ctx] # {}
    /\ \A q \in Reqs : At(q, "saveContext") => privatekey = lcReq[q].key
    /\ (\A q \in Reqs : lcReq[q].pc \notin Building) /\ lccontext # NoCtx =>
          privatekey = csr[lccontext] /\ placed[lccontext] # {}

\* A step of a request while the others are idle.
Alone(q) == \A p \in Reqs \ {q} : At(p, "idle") /\ lcReq'[p] = lcReq[p]

LEMMA IsAlone ==
    ASSUME TypeOK, KeyInv, Undisturbed, Undisturbed', NEW q \in Reqs, RequestNext(q)
    PROVE  Alone(q)
<1>1. CASE \E start : Arrive(q, start)
  BY <1>1, OnlyOne DEF Arrive, Alone, Undisturbed
<1>2. CASE ~ At(q, "idle")
  BY <1>2, OnlyOne DEF KeyInv, Alone
<1> QED
  BY <1>1, <1>2 DEF RequestNext, Create, Update, Insert, Delete, CountChildren, Remove,
     CreateChild, DeleteChild, InsertChild, RemoveChild, Apply, GenerateKey, MakeContext,
     AddCluster, SaveKey, ApplyFails, SaveContext, CallInstall, CallInstallFails, At

\* A step before the context is made, or after it is saved, does not touch it.
LEMMA OutsideKeyInv ==
    ASSUME TypeOK, KeyInv, Undisturbed, NEW q \in Reqs, Alone(q),
           lcReq[q].pc \notin Building, lcReq'[q].pc \notin Building,
           UNCHANGED <<csr, placed>>,
           \/ lccontext' = NoCtx
           \/ UNCHANGED <<lccontext, privatekey>>
    PROVE  KeyInv'
<1>1. \A p \in Reqs : lcReq[p].pc \notin Building /\ lcReq'[p].pc \notin Building
  BY DEF Alone, At, Building
<1>2. (\A p, r \in Reqs : p # r => At(p, "idle") \/ At(r, "idle"))'
  BY DEF Alone, At
<1> QED
  BY <1>1, <1>2 DEF KeyInv, Building, At

\* The other steps of an Apply that fills a context.
LEMMA FillKeyInv ==
    ASSUME TypeOK, KeyInv, Undisturbed, NEW q \in Reqs, Alone(q),
           lcReq'[q].pc \in Building,
           lcReq'[q].pc \in {"saveKey", "saveContext"} =>
              csr'[lcReq'[q].ctx] = lcReq'[q].key /\ placed'[lcReq'[q].ctx] # {},
           lcReq'[q].pc = "saveContext" => privatekey' = lcReq'[q].key
    PROVE  KeyInv'
<1>1. \A p \in Reqs \ {q} : lcReq'[p].pc = "idle"
  BY DEF Alone, At
<1> QED
  BY <1>1 DEF KeyInv, Building, At

LEMMA RequestKeyInv ==
    ASSUME TypeOK, LogicalCloudsAssumption, ContextInv, KeyInv, Undisturbed, Undisturbed',
           NEW q \in Reqs, RequestNext(q)
    PROVE  KeyInv'
<1> USE IsAlone
<1>1. CASE Outside(q)
  <2>1. lcReq[q].pc \notin Building /\ lcReq'[q].pc \notin Building
    BY <1>1 DEF Outside, Holds
  <2>2. UNCHANGED <<csr, placed>> /\ (lccontext' = NoCtx \/ UNCHANGED <<lccontext, privatekey>>)
    BY <1>1, RequestType DEF Outside, Holds, Building, RequestNext, Create, Update, Insert,
       Delete, CountChildren, Remove, CreateChild, DeleteChild, InsertChild, RemoveChild,
       Apply, Arrive, GenerateKey, MakeContext, AddCluster, SaveKey, ApplyFails,
       SaveContext, CallInstall, CallInstallFails, At, docVars, ctxVars
  <2> QED
    BY <2>1, <2>2, OutsideKeyInv
<1>2. ASSUME NEW c \in Ctxs, MakeContext(q, c) PROVE KeyInv'
  <2>1. lcReq'[q] = [lcReq[q] EXCEPT !.pc = "clusters", !.ctx = c]
    BY <1>2, SetAt DEF MakeContext
  <2>2. lcReq'[q].pc = "clusters"
    BY <2>1, RequestType DEF Request
  <2> QED
    BY <2>2, FillKeyInv DEF Building
<1>3. ASSUME NEW cl \in Clusters, AddCluster(q, cl) PROVE KeyInv'
  <2>1. lcReq'[q] = [lcReq[q] EXCEPT !.pc = "saveKey", !.left = @ \ {cl}]
    BY <1>3, SetAt DEF AddCluster
  <2>2. /\ lcReq'[q].pc = "saveKey" /\ lcReq'[q].ctx = lcReq[q].ctx
        /\ lcReq'[q].key = lcReq[q].key
    BY <2>1, RequestType DEF Request
  <2>3. lcReq[q].ctx \in Ctxs
    BY <1>3 DEF AddCluster, At, ContextInv, Holds, Building, TypeOK
  <2>4. csr'[lcReq[q].ctx] = lcReq[q].key /\ cl \in placed'[lcReq[q].ctx]
    BY <1>3, <2>3 DEF AddCluster, TypeOK
  <2> QED
    BY <2>2, <2>4, FillKeyInv DEF Building
<1>4. CASE SaveKey(q)
  <2>1. lcReq'[q] = [lcReq[q] EXCEPT !.pc = IF lcReq[q].left = {}
                                            THEN "saveContext" ELSE "clusters"]
    BY <1>4, SetAt DEF SaveKey
  <2>2. /\ lcReq'[q].pc \in Building /\ lcReq'[q].ctx = lcReq[q].ctx
        /\ lcReq'[q].key = lcReq[q].key
    BY <2>1, RequestType DEF Request, Building
  <2>3. csr[lcReq[q].ctx] = lcReq[q].key /\ placed[lcReq[q].ctx] # {}
    BY <1>4 DEF SaveKey, At, KeyInv
  <2>4. privatekey' = lcReq[q].key /\ csr' = csr /\ placed' = placed
    BY <1>4 DEF SaveKey, ctxVars
  <2> QED
    BY <2>2, <2>3, <2>4, FillKeyInv
<1>5. CASE SaveContext(q)
  <2>1. lcReq'[q] = [lcReq[q] EXCEPT !.pc = "install"]
    BY <1>5, SetAt DEF SaveContext
  <2>2. lcReq'[q].pc = "install"
    BY <2>1, RequestType DEF Request
  <2>3. /\ csr[lcReq[q].ctx] = lcReq[q].key /\ placed[lcReq[q].ctx] # {}
        /\ privatekey = lcReq[q].key
    BY <1>5 DEF SaveContext, At, KeyInv
  <2>4. /\ privatekey' = privatekey /\ csr' = csr /\ placed' = placed
        /\ lccontext' = lcReq[q].ctx
    BY <1>5 DEF SaveContext, ctxVars
  <2>5. \A p \in Reqs \ {q} : lcReq'[p].pc = "idle"
    BY DEF Alone, At
  <2>6. \A p \in Reqs : lcReq'[p].pc \notin {"saveKey", "saveContext"}
    BY <2>2, <2>5
  <2> QED
    BY <2>3, <2>4, <2>5, <2>6 DEF KeyInv, At
<1>6. CASE CallInstall(q)
  <2>1. lcReq'[q].pc = "idle" /\ lcReq[q].pc = "install"
    BY <1>6, SetAt DEF CallInstall, Finish, Idle, At
  <2> QED
    BY <1>6, <2>1, OutsideKeyInv DEF CallInstall, docVars, Building
<1>7. CASE ApplyFails(q) \/ CallInstallFails(q)
  BY <1>7 DEF ApplyFails, CallInstallFails, Fault, Undisturbed, TypeOK
<1> QED
  BY <1>1, <1>2, <1>3, <1>4, <1>5, <1>6, <1>7, MostOutside DEF RequestNext

LEMMA StepKeyInv ==
    TypeOK /\ LogicalCloudsAssumption /\ ContextInv /\ KeyInv /\ [Next]_vars => KeyInv'
<1> SUFFICES ASSUME TypeOK, LogicalCloudsAssumption, ContextInv, KeyInv, [Next]_vars,
                    Undisturbed'
             PROVE  KeyInv'
  BY DEF KeyInv
<1>1. ASSUME NEW q \in Reqs, RequestNext(q) PROVE KeyInv'
  <2>1. lcFaults' = lcFaults \/ Fault
    BY <1>1 DEF RequestNext, Create, Update, Insert, Delete, CountChildren, Remove,
       CreateChild, DeleteChild, InsertChild, RemoveChild, Apply, Arrive, GenerateKey,
       MakeContext, AddCluster, SaveKey, ApplyFails, SaveContext, CallInstall,
       CallInstallFails, NoFault
  <2>2. overlap' = overlap \/ \E start : Arrive(q, start)
    BY <1>1 DEF RequestNext, Create, Update, Insert, Delete, CountChildren, Remove,
       CreateChild, DeleteChild, InsertChild, RemoveChild, Apply, GenerateKey,
       MakeContext, AddCluster, SaveKey, ApplyFails, SaveContext, CallInstall,
       CallInstallFails, Finish, Set
  <2>3. Undisturbed
    BY <2>1, <2>2 DEF Fault, Arrive, Undisturbed, TypeOK
  <2> QED
    BY <1>1, <2>3, RequestKeyInv
<1>2. ASSUME NEW c \in Ctxs, RsyncStep(c) PROVE KeyInv'
  BY <1>2 DEF RsyncStep, KeyInv, Undisturbed, At, docVars
<1>3. CASE Crash
  BY <1>3 DEF Crash, Fault, Undisturbed, TypeOK
<1>4. CASE UNCHANGED vars
  BY <1>4 DEF vars, docVars, ctxVars, KeyInv, Undisturbed, At
<1> QED
  BY <1>1, <1>2, <1>3, <1>4 DEF Next

LEMMA InitKeyInv == Init => KeyInv
BY DEF Init, Idle, KeyInv, At

\* KeyFitsContext: after any sequence of undisturbed requests the private key in
\* the document is the one whose signing request is in the context it names, and
\* that context has clusters.
THEOREM KeyFitsContextCorrect ==
    ASSUME LogicalCloudsAssumption
    PROVE  Spec => []KeyFitsContext
<1>1. KeyInv => KeyFitsContext
  BY DEF KeyInv, KeyFitsContext, LcQuiet, Undisturbed, At, Building
<1> QED
  BY <1>1, InitType, NextType, InitContextInv, StepContextInv, InitKeyInv, StepKeyInv,
     PTL DEF Spec

-----------------------------------------------------------------------------
(* The services together, as in the run services.  With requests of ncm,   *)
(* ServicesSpec is NetworkIntents, whose theorems are in                   *)
(* NetworkIntentsProofs; with requests of dcm it is LogicalClouds, and the *)
(* documents of ncm stay as they are.                                      *)

P == INSTANCE NetworkIntentsProofs WITH MaxRequests <- MaxNetworkRequests

Ncm == service = "ncm"
Dcm == service = "dcm"

LEMMA NcmAssumption == P!NetworkIntentsAssumption
BY ServicesAssumption DEF N!NetworkIntentsAssumption, P!NetworkIntentsAssumption

LEMMA ServicesStart == ServicesInit => (Ncm \/ Dcm) /\ P!Init /\ Init
<1>1. N!Init => P!Init
  BY Zenon DEF
       N!Init, P!Init, N!Entry, P!Entry, N!Idle, P!Idle
<1> QED
  BY <1>1 DEF ServicesInit, Ncm, Dcm

LEMMA NcmAction == N!Next => P!Next
BY Zenon DEF
       N!Next, P!Next, N!Nets, P!Nets, N!docVars, P!docVars, N!ctxVars, P!ctxVars,
       N!StateValue, P!StateValue, N!ActionEntry, P!ActionEntry, N!Entry, P!Entry,
       N!Last, P!Last, N!CurrentState, P!CurrentState, N!ContextIds, P!ContextIds,
       N!Idle, P!Idle, N!Alone, P!Alone, N!Arrive, P!Arrive, N!At, P!At, N!Goto,
       P!Goto, N!Finish, P!Finish, N!NoFault, P!NoFault, N!Fault, P!Fault,
       N!Record, P!Record, N!CreateCluster, P!CreateCluster, N!InsertMeta,
       P!InsertMeta, N!InsertState, P!InsertState, N!Refused, P!Refused,
       N!Changeable, P!Changeable, N!CreateNet, P!CreateNet, N!DeleteNet,
       P!DeleteNet, N!NotChangeable, P!NotChangeable, N!InsertNet, P!InsertNet,
       N!RemoveNet, P!RemoveNet, N!Applicable, P!Applicable, N!Apply, P!Apply,
       N!MakeContext, P!MakeContext, N!AddNets, P!AddNets, N!AddNetworks,
       P!AddNetworks, N!AddProviderNets, P!AddProviderNets, N!BuildFails,
       P!BuildFails, N!CallInstall, P!CallInstall, N!CallInstallFails,
       P!CallInstallFails, N!RecordApplied, P!RecordApplied, N!Terminate,
       P!Terminate, N!CallUninstall, P!CallUninstall, N!CallUninstallFails,
       P!CallUninstallFails, N!RecordTerminated, P!RecordTerminated, N!Ended,
       P!Ended, N!DeleteCluster, P!DeleteCluster, N!DeleteContext, P!DeleteContext,
       N!DeleteContextFails, P!DeleteContextFails, N!CountChildren,
       P!CountChildren, N!Remove, P!Remove, N!Crash, P!Crash, N!RsyncStep,
       P!RsyncStep, N!RequestNext, P!RequestNext

LEMMA NcmStep == Ncm /\ [ServicesNext]_servicesVars => Ncm' /\ [P!Next]_(P!vars)
<1> SUFFICES ASSUME Ncm, [ServicesNext]_servicesVars PROVE Ncm' /\ [P!Next]_(P!vars)
  OBVIOUS
<1>1. CASE UNCHANGED servicesVars
  BY <1>1 DEF Ncm, servicesVars, ncmVars, P!vars, P!docVars, P!ctxVars
<1>2. CASE ServicesNext
  BY <1>2, NcmAction DEF Ncm, ServicesNext
<1> QED
  BY <1>1, <1>2

LEMMA DcmStep == Dcm /\ [ServicesNext]_servicesVars => Dcm' /\ [Next]_vars
<1> SUFFICES ASSUME Dcm, [ServicesNext]_servicesVars PROVE Dcm' /\ [Next]_vars
  OBVIOUS
<1>1. CASE UNCHANGED servicesVars
  BY <1>1 DEF Dcm, servicesVars, dcmVars, vars, docVars, ctxVars
<1>2. CASE ServicesNext
  BY <1>2 DEF Dcm, ServicesNext
<1> QED
  BY <1>1, <1>2

\* A behaviour is one of ncm, or one of dcm.
LEMMA OneService ==
    /\ ServicesSpec => []Ncm \/ []Dcm
    /\ ServicesSpec /\ []Ncm => P!Spec
    /\ ServicesSpec /\ []Dcm => Spec
<1>1. ServicesSpec => []Ncm \/ []Dcm
  BY ServicesStart, NcmStep, DcmStep, PTL DEF ServicesSpec
<1>2. ServicesSpec /\ []Ncm => P!Spec
  BY ServicesStart, NcmStep, PTL DEF ServicesSpec, P!Spec
<1>3. ServicesSpec /\ []Dcm => Spec
  BY ServicesStart, DcmStep, PTL DEF ServicesSpec, Spec
<1> QED
  BY <1>1, <1>2, <1>3

\* The documents of ncm before its first request.
NcmUntouched ==
    /\ actions = <<[state |-> "Created", ctx |-> NoCtx]>>
    /\ nets = {} /\ told = {}

LEMMA Untouched == ServicesSpec /\ []Dcm => []NcmUntouched
<1>1. ServicesInit => NcmUntouched
  BY DEF ServicesInit, N!Init, N!Entry, NcmUntouched
<1>2. Dcm /\ NcmUntouched /\ [ServicesNext]_servicesVars => NcmUntouched'
  BY DEF Dcm, NcmUntouched, ServicesNext, servicesVars, ncmVars
<1> QED
  BY <1>1, <1>2, PTL DEF ServicesSpec

\* Types, of whichever service a behaviour is about.
THEOREM ServicesTypeCorrect == ServicesSpec => []ServicesTypeOK
<1>1. Spec => []TypeOK
  BY ServicesAssumption, TypeCorrect
<1>2. P!Spec => []P!TypeOK
  BY NcmAssumption, P!TypeCorrect
<1>3. TypeOK /\ Dcm => ServicesTypeOK
  BY DEF Dcm, ServicesTypeOK
<1>4. P!TypeOK /\ Ncm => ServicesTypeOK
  <2>1. P!TypeOK => N!TypeOK
    BY Zenon DEF
         N!TypeOK, P!TypeOK, N!ActionEntry, P!ActionEntry, N!StateValue,
         P!StateValue, N!Nets, P!Nets, N!Status, P!Status, N!Request, P!Request,
         N!PC, P!PC
  <2> QED
    BY <2>1 DEF Ncm, ServicesTypeOK
<1> QED
  BY <1>1, <1>2, <1>3, <1>4, OneService, PTL

\* HistoryCalled: whatever requests of ncm race, fail or are cut off, the
\* stateInfo of the cluster is a history of calls that were made.
THEOREM HistoryCalledCorrect == ServicesSpec => []HistoryCalled
<1>1. P!Spec => []P!HistoryCalled
  BY NcmAssumption, P!HistoryCalledCorrect
<1>2. P!HistoryCalled => HistoryCalled
  BY Zenon DEF HistoryCalled,
         N!HistoryCalled, P!HistoryCalled, N!LegalStep, P!LegalStep, N!Entry,
         P!Entry
<1>3. NcmUntouched => HistoryCalled
  BY DEF NcmUntouched, HistoryCalled, N!HistoryCalled, N!Entry
<1> QED
  BY <1>1, <1>2, <1>3, OneService, Untouched, PTL

\* AppliedIsCurrent: the context of an applied cluster holds the networks that
\* are stored.
THEOREM AppliedIsCurrentCorrect == ServicesSpec => []AppliedIsCurrent
<1>1. P!Spec => []P!AppliedIsCurrent
  BY NcmAssumption, P!AppliedIsCurrentCorrect
<1>2. P!AppliedIsCurrent => AppliedIsCurrent
  BY Zenon DEF AppliedIsCurrent,
         N!AppliedIsCurrent, P!AppliedIsCurrent, N!Quiet, P!Quiet, N!At, P!At,
         N!CurrentState, P!CurrentState, N!Last, P!Last
<1>3. NcmUntouched => AppliedIsCurrent
  BY DEF NcmUntouched, AppliedIsCurrent, N!AppliedIsCurrent, N!CurrentState, N!Last
<1> QED
  BY <1>1, <1>2, <1>3, OneService, Untouched, PTL

\* AnswersTrue: a client that was told a network is there, or gone, was told
\* the truth.
THEOREM AnswersTrueCorrect == ServicesSpec => []AnswersTrue
<1>1. P!Spec => []P!AnswersTrue
  BY NcmAssumption, P!AnswersTrueCorrect
<1>2. P!AnswersTrue => AnswersTrue
  BY Zenon DEF AnswersTrue, N!AnswersTrue, P!AnswersTrue, N!Quiet, P!Quiet, N!At, P!At
<1>3. NcmUntouched => AnswersTrue
  BY DEF NcmUntouched, AnswersTrue, N!AnswersTrue
<1> QED
  BY <1>1, <1>2, <1>3, OneService, Untouched, PTL

=============================================================================
