---------------------------- MODULE RsyncProofs ----------------------------
(***************************************************************************)
(* Theorems about Rsync, for any units, clusters, resources and terminate  *)
(* runs: its variables stay in their ranges, the registry of channels      *)
(* stays exact, a terminate run does not overlap the install run, the      *)
(* resources are installed in order, what is reported Applied exists, what *)
(* is reported Deleted is gone, and the runs implement AppContext.         *)
(***************************************************************************)
EXTENDS Rsync, TLAPS

USE DEF Runs, Res, None, DbOk, DbFails, MainStep, Fail, etcdVars, clusterVars,
        connVars, mainVars, watchVars, workVars, waitVars, boundVars, vars

-----------------------------------------------------------------------------
(* Types of the operators the actions are built from.                      *)

\* deleteChan leaves a list of channels.
LEMMA WithoutChanType ==
    ASSUME NEW s \in Seq(Units), NEW u
    PROVE  WithoutChan(s, u) \in Seq(Units)
<1> DEFINE n == Len(s)
           k == CHOOSE j \in 1 .. n : s[j] = u
           e(j) == IF j = k THEN s[n] ELSE s[j]
<1>1. CASE n = 0
  <2>1. WithoutChan(s, u) = << >>
    BY <1>1 DEF WithoutChan
  <2> QED
    BY <2>1
<1>2. CASE n # 0
  <2>1. n - 1 \in Nat
    BY <1>2
  <2> HIDE DEF k
  <2>2. [j \in 1 .. n - 1 |-> e(j)] \in [1 .. n - 1 -> Units]
    BY <1>2
  <2>3. [j \in 1 .. n - 1 |-> e(j)] \in Seq(Units)
    BY <2>1, <2>2
  <2>4. WithoutChan(s, u) = [j \in 1 .. n - 1 |-> e(j)]
    BY DEF WithoutChan, k
  <2> QED
    BY <2>3, <2>4
<1> QED
  BY <1>1, <1>2

\* A step of a worker keeps the types of all workers.
LEMMA WorkerStepType ==
    ASSUME WorkTypeOK, NEW r \in Runs, NEW u \in Units,
           NEW from, NEW to \in WorkerPC, WorkerStep(r, u, from, to)
    PROVE  worker' \in [Runs -> [Units -> WorkerPC]]
BY DEF WorkTypeOK, WorkerStep

\* ... and so does a step that touches nothing else of them than the error of
\* the errgroup.
LEMMA WorkStepType ==
    ASSUME WorkTypeOK, NEW r \in Runs, NEW u \in Units,
           NEW from, NEW to \in WorkerPC, WorkerStep(r, u, from, to),
           UNCHANGED idx, Fail(r) \/ UNCHANGED failed
    PROVE  WorkTypeOK'
<1>1. worker' \in [Runs -> [Units -> WorkerPC]]
  BY WorkerStepType
<1>2. failed' \in [Runs -> BOOLEAN]
  BY DEF WorkTypeOK
<1> QED
  BY <1>1, <1>2 DEF WorkTypeOK

\* The next resource is one of the order.
LEMMA ToNextResType ==
    ASSUME WorkTypeOK, NEW r \in Runs, NEW u \in Units, NEW from,
           ToNextRes(r, u, from)
    PROVE  /\ worker' \in [Runs -> [Units -> WorkerPC]]
           /\ idx' \in [Runs -> [Units -> Res]]
<1>1. PICK to \in WorkerPC : WorkerStep(r, u, from, to)
  BY DEF ToNextRes, WorkerPC
<1>2. idx[r][u] \in Res
  BY DEF WorkTypeOK
<1>3. idx[r][u] < NRes => idx[r][u] + 1 \in Res
  BY <1>2, RsyncAssumption
<1>4. PICK i \in Res : idx' = [idx EXCEPT ![r][u] = i]
  BY <1>2, <1>3 DEF ToNextRes
<1>5. idx' \in [Runs -> [Units -> Res]]
  BY <1>4 DEF WorkTypeOK
<1> QED
  BY <1>1, <1>5, WorkerStepType

\* Giving the resources of one unit new statuses keeps the types of all.
LEMMA RowType ==
    ASSUME EtcdTypeOK, NEW u \in Units,
           NEW row \in [Res -> RsyncStatus \cup {None}],
           resStatus' = [resStatus EXCEPT ![u] = row]
    PROVE  resStatus' \in [Units -> [Res -> RsyncStatus \cup {None}]]
BY DEF EtcdTypeOK

LEMMA UpdateType ==
    ASSUME EtcdTypeOK, NEW u \in Units, NEW s \in RsyncStatus, NEW n,
           Update(u, s, n)
    PROVE  resStatus' \in [Units -> [Res -> RsyncStatus \cup {None}]]
<1> DEFINE e(i) == IF i <= n /\ resStatus[u][i] \notin DoneStatus THEN s
                   ELSE resStatus[u][i]
<1>1. \A i \in Res : e(i) \in RsyncStatus \cup {None}
  BY DEF EtcdTypeOK
<1>2. resStatus' = [resStatus EXCEPT ![u] = [i \in Res |-> e(i)]]
  BY DEF Update, EtcdTypeOK
<1> HIDE DEF e
<1>3. [i \in Res |-> e(i)] \in [Res -> RsyncStatus \cup {None}]
  BY <1>1
<1> QED
  BY <1>2, <1>3, RowType

LEMMA WriteStatusType ==
    ASSUME EtcdTypeOK, WorkTypeOK, NEW r \in Runs, NEW u \in Units,
           NEW s \in RsyncStatus, WriteStatus(r, u, s)
    PROVE  resStatus' \in [Units -> [Res -> RsyncStatus \cup {None}]]
<1> DEFINE row == [resStatus[u] EXCEPT ![idx[r][u]] = s]
<1>1. resStatus[u] \in [Res -> RsyncStatus \cup {None}]
  BY DEF EtcdTypeOK
<1>2. row \in [Res -> RsyncStatus \cup {None}]
  BY <1>1
<1>3. CASE resStatus' = [resStatus EXCEPT ![u] = row]
  BY <1>2, <1>3, RowType
<1>4. CASE resStatus' = resStatus
  BY <1>4 DEF EtcdTypeOK
<1> QED
  BY <1>3, <1>4 DEF WriteStatus

-----------------------------------------------------------------------------
(* Type correctness.                                                       *)

LEMMA TypeInit == Init => TypeOK
<1> SUFFICES ASSUME Init PROVE TypeOK
  OBVIOUS
<1> USE RsyncAssumption DEF Init
<1>1. EtcdTypeOK
  BY DEF EtcdTypeOK
<1>2. ClusterTypeOK /\ ConnTypeOK
  BY DEF ClusterTypeOK, ConnTypeOK
<1>3. MainTypeOK /\ WatchTypeOK
  BY DEF MainTypeOK, MainPC, WatchTypeOK, WatchPC
<1>4. WorkTypeOK
  BY DEF WorkTypeOK, WorkerPC
<1>5. WaitTypeOK
  BY DEF WaitTypeOK
<1>6. chans \in [Runs -> Seq(Units)]
  BY <<>> \in Seq(Units)
<1> QED
  BY <1>1, <1>2, <1>3, <1>4, <1>5, <1>6 DEF TypeOK

\* Every step keeps the variables in their ranges: for each action, the groups
\* of variables it changes.
LEMMA TypeStep ==
    ASSUME TypeOK, [Next]_vars
    PROVE  TypeOK'
<1>1. ASSUME InstallApp
      PROVE  TypeOK'
  <2>1. EtcdTypeOK'
    BY <1>1 DEF InstallApp, TypeOK, EtcdTypeOK
  <2>2. MainTypeOK'
    BY <1>1 DEF InstallApp, TypeOK, MainTypeOK, MainPC
  <2>3. dbErrs' \in Nat /\ flips' \in Nat /\ crashes' \in Nat
    BY <1>1 DEF InstallApp, TypeOK
  <2> QED
    BY <1>1, <2>1, <2>2, <2>3 DEF InstallApp, TypeOK, ClusterTypeOK,
       ConnTypeOK, WatchTypeOK, WorkTypeOK, WaitTypeOK
<1>2. ASSUME NEW t \in Terms, UninstallApp(t)
      PROVE  TypeOK'
  <2>1. EtcdTypeOK'
    BY <1>2 DEF UninstallApp, TypeOK, EtcdTypeOK
  <2>2. MainTypeOK'
    BY <1>2 DEF UninstallApp, TypeOK, MainTypeOK, MainPC
  <2>3. dbErrs' \in Nat /\ flips' \in Nat /\ crashes' \in Nat
    BY <1>2 DEF UninstallApp, TypeOK
  <2> QED
    BY <1>2, <2>1, <2>2, <2>3 DEF UninstallApp, TypeOK, ClusterTypeOK,
       ConnTypeOK, WatchTypeOK, WorkTypeOK, WaitTypeOK
<1>3. ASSUME NEW t \in Terms, WaitForDone(t)
      PROVE  TypeOK'
  <2>1. MainTypeOK'
    BY <1>3 DEF WaitForDone, TypeOK, MainTypeOK, MainPC
  <2>2. dbErrs' \in Nat /\ flips' \in Nat /\ crashes' \in Nat
    BY <1>3 DEF WaitForDone, TypeOK
  <2> QED
    BY <1>3, <2>1, <2>2 DEF WaitForDone, TypeOK, EtcdTypeOK, ClusterTypeOK,
       ConnTypeOK, WatchTypeOK, WorkTypeOK, WaitTypeOK
<1>4. ASSUME NEW t \in Terms, ClearFlag(t)
      PROVE  TypeOK'
  <2>1. EtcdTypeOK'
    BY <1>4 DEF ClearFlag, TypeOK, EtcdTypeOK
  <2>2. MainTypeOK'
    BY <1>4 DEF ClearFlag, TypeOK, MainTypeOK, MainPC
  <2>3. dbErrs' \in Nat /\ flips' \in Nat /\ crashes' \in Nat
    BY <1>4 DEF ClearFlag, TypeOK
  <2> QED
    BY <1>4, <2>1, <2>2, <2>3 DEF ClearFlag, TypeOK, ClusterTypeOK,
       ConnTypeOK, WatchTypeOK, WorkTypeOK, WaitTypeOK
<1>5. ASSUME NEW r \in Runs, InitStatus(r)
      PROVE  TypeOK'
  <2>1. EtcdTypeOK'
    BY <1>5 DEF InitStatus, Kind, AppContextStatusValue, TypeOK, EtcdTypeOK
  <2>2. MainTypeOK'
    BY <1>5 DEF InitStatus, TypeOK, MainTypeOK, MainPC
  <2>3. dbErrs' \in Nat /\ flips' \in Nat /\ crashes' \in Nat
    BY <1>5 DEF InitStatus, TypeOK
  <2> QED
    BY <1>5, <2>1, <2>2, <2>3 DEF InitStatus, TypeOK, ClusterTypeOK,
       ConnTypeOK, WatchTypeOK, WorkTypeOK, WaitTypeOK
<1>6. ASSUME NEW r \in Runs, NEW u \in Units, InitRes(r, u)
      PROVE  TypeOK'
  <2>1. EtcdTypeOK'
    <3>1. CASE UNCHANGED resStatus
      BY <1>6, <3>1 DEF InitRes, TypeOK, EtcdTypeOK
    <3>2. CASE resStatus' = [resStatus EXCEPT ![u] =
                                [i \in Res |-> InitialStatus(r, @[i])]]
      <4>1. [i \in Res |-> InitialStatus(r, resStatus[u][i])]
              \in [Res -> RsyncStatus \cup {None}]
        BY DEF InitialStatus, RsyncStatus
      <4> QED
        BY <1>6, <3>2, <4>1, RowType DEF InitRes, TypeOK, EtcdTypeOK
    <3> QED
      BY <1>6, <3>1, <3>2 DEF InitRes
  <2>2. MainTypeOK'
    <3>1. main' \in [Runs -> MainPC]
      BY <1>6 DEF InitRes, TypeOK, MainTypeOK, MainPC
    <3>2. todo' \in [Runs -> SUBSET Units]
      BY <1>6 DEF InitRes, TypeOK, MainTypeOK
    <3> QED
      BY <3>1, <3>2 DEF MainTypeOK
  <2>3. dbErrs' \in Nat /\ flips' \in Nat /\ crashes' \in Nat
    BY <1>6 DEF InitRes, TypeOK
  <2> QED
    BY <1>6, <2>1, <2>2, <2>3 DEF InitRes, TypeOK, ClusterTypeOK, ConnTypeOK,
       WatchTypeOK, WorkTypeOK, WaitTypeOK
<1>7. ASSUME NEW r \in Runs, Kickoff(r)
      PROVE  TypeOK'
  <2>1. MainTypeOK'
    BY <1>7 DEF Kickoff, TypeOK, MainTypeOK, MainPC
  <2>2. WatchTypeOK'
    BY <1>7 DEF Kickoff, TypeOK, WatchTypeOK, WatchPC
  <2>3. WorkTypeOK'
    <3>1. [v \in Units |-> "getClient"] \in [Units -> WorkerPC]
      BY DEF WorkerPC
    <3>2. CASE UNCHANGED worker
      BY <1>7, <3>2 DEF Kickoff, TypeOK, WorkTypeOK
    <3>3. CASE worker' = [worker EXCEPT ![r] = [v \in Units |-> "getClient"]]
      BY <1>7, <3>1, <3>3 DEF Kickoff, TypeOK, WorkTypeOK
    <3> QED
      BY <1>7, <3>2, <3>3 DEF Kickoff
  <2>4. dbErrs' \in Nat /\ flips' \in Nat /\ crashes' \in Nat
    BY <1>7 DEF Kickoff, TypeOK
  <2> QED
    BY <1>7, <2>1, <2>2, <2>3, <2>4 DEF Kickoff, TypeOK, EtcdTypeOK,
       ClusterTypeOK, ConnTypeOK, WaitTypeOK
<1>8. ASSUME NEW r \in Runs, GWait(r)
      PROVE  TypeOK'
  <2>1. EtcdTypeOK'
    BY <1>8 DEF GWait, EndingStatus, AppContextStatusValue, TypeOK, EtcdTypeOK
  <2>2. MainTypeOK'
    BY <1>8 DEF GWait, TypeOK, MainTypeOK, MainPC
  <2>3. dbErrs' \in Nat /\ flips' \in Nat /\ crashes' \in Nat
    BY <1>8 DEF GWait, TypeOK
  <2> QED
    BY <1>8, <2>1, <2>2, <2>3 DEF GWait, TypeOK, ClusterTypeOK, ConnTypeOK,
       WatchTypeOK, WorkTypeOK, WaitTypeOK
<1>9. ASSUME NEW r \in Runs, WgWait(r)
      PROVE  TypeOK'
  <2>1. MainTypeOK'
    BY <1>9 DEF WgWait, TypeOK, MainTypeOK, MainPC
  <2> QED
    BY <1>9, <2>1 DEF WgWait, TypeOK, EtcdTypeOK, ClusterTypeOK, ConnTypeOK,
       WatchTypeOK, WorkTypeOK, WaitTypeOK
<1>10. ASSUME NEW r \in Runs, Cleanup(r)
      PROVE  TypeOK'
  <2>1. ConnTypeOK'
    BY <1>10 DEF Cleanup, TypeOK, ConnTypeOK
  <2>2. MainTypeOK'
    BY <1>10 DEF Cleanup, TypeOK, MainTypeOK, MainPC
  <2> QED
    BY <1>10, <2>1, <2>2 DEF Cleanup, TypeOK, EtcdTypeOK, ClusterTypeOK,
       WatchTypeOK, WorkTypeOK, WaitTypeOK
<1>11. ASSUME NEW r \in Runs, WatcherPoll(r)
      PROVE  TypeOK'
  <2>1. WatchTypeOK'
    <3>1. watch' \in [Runs -> WatchPC]
      BY <1>11 DEF WatcherPoll, TypeOK, WatchTypeOK, WatchPC
    <3>2. snap' \in [Runs -> AppContextStatusValue \cup {None}]
      BY <1>11 DEF WatcherPoll, TypeOK, WatchTypeOK, EtcdTypeOK
    <3> QED
      BY <1>11, <3>1, <3>2 DEF WatcherPoll, TypeOK, WatchTypeOK
  <2>2. dbErrs' \in Nat /\ flips' \in Nat /\ crashes' \in Nat
    BY <1>11 DEF WatcherPoll, TypeOK
  <2> QED
    BY <1>11, <2>1, <2>2 DEF WatcherPoll, TypeOK, EtcdTypeOK, ClusterTypeOK,
       ConnTypeOK, MainTypeOK, WorkTypeOK, WaitTypeOK
<1>12. ASSUME NEW r \in Runs, WatcherFlag(r)
      PROVE  TypeOK'
  <2>1. WatchTypeOK'
    BY <1>12 DEF WatcherFlag, TypeOK, WatchTypeOK, WatchPC
  <2>2. dbErrs' \in Nat /\ flips' \in Nat /\ crashes' \in Nat
    BY <1>12 DEF WatcherFlag, TypeOK
  <2> QED
    BY <1>12, <2>1, <2>2 DEF WatcherFlag, TypeOK, EtcdTypeOK, ClusterTypeOK,
       ConnTypeOK, MainTypeOK, WorkTypeOK, WaitTypeOK
<1>13. ASSUME NEW r \in Runs, NEW u \in Units, WatcherSend(r, u)
      PROVE  TypeOK'
  <2>1. WatchTypeOK'
    BY <1>13 DEF WatcherSend, TypeOK, WatchTypeOK, WatchPC
  <2>2. WorkTypeOK'
    BY <1>13 DEF WatcherSend, WorkerStep, TypeOK, WorkTypeOK, WorkerPC
  <2> QED
    BY <1>13, <2>1, <2>2 DEF WatcherSend, TypeOK, EtcdTypeOK, ClusterTypeOK,
       ConnTypeOK, MainTypeOK, WaitTypeOK
<1>14. ASSUME NEW r \in Runs, WatcherUnlock(r)
      PROVE  TypeOK'
  <2>1. WatchTypeOK'
    BY <1>14 DEF WatcherUnlock, TypeOK, WatchTypeOK, WatchPC
  <2> QED
    BY <1>14, <2>1 DEF WatcherUnlock, TypeOK, EtcdTypeOK, ClusterTypeOK,
       ConnTypeOK, MainTypeOK, WorkTypeOK, WaitTypeOK
<1>15. ASSUME NEW r \in Runs, NEW u \in Units, GetClient(r, u)
      PROVE  TypeOK'
  <2>1. ConnTypeOK'
    <3>1. ClusterOf[u] \in Clusters
      BY RsyncAssumption
    <3>2. clients' \in [Runs -> SUBSET Clusters]
      BY <1>15, <3>1 DEF GetClient, TypeOK, ConnTypeOK
    <3>3. kubeconfig' \subseteq Clusters
      BY <1>15, <3>1 DEF GetClient, TypeOK, ConnTypeOK
    <3> QED
      BY <3>2, <3>3 DEF ConnTypeOK
  <2>2. WorkTypeOK'
    <3>1. PICK to \in WorkerPC : WorkerStep(r, u, "getClient", to)
      BY <1>15 DEF GetClient, WorkerPC
    <3> QED
      BY <1>15, <3>1, WorkStepType DEF GetClient, TypeOK
  <2>3. dbErrs' \in Nat /\ flips' \in Nat /\ crashes' \in Nat
    BY <1>15 DEF GetClient, TypeOK
  <2> QED
    BY <1>15, <2>1, <2>2, <2>3 DEF GetClient, TypeOK, EtcdTypeOK,
       ClusterTypeOK, MainTypeOK, WatchTypeOK, WaitTypeOK
<1>16. ASSUME NEW r \in Runs, NEW u \in Units, AllDone(r, u)
      PROVE  TypeOK'
  <2>1. WorkTypeOK'
    <3>1. PICK to \in WorkerPC : WorkerStep(r, u, "allDone", to)
      BY <1>16 DEF AllDone, WorkerPC
    <3> QED
      BY <1>16, <3>1, WorkStepType DEF AllDone, TypeOK
  <2>2. dbErrs' \in Nat /\ flips' \in Nat /\ crashes' \in Nat
    BY <1>16 DEF AllDone, TypeOK
  <2> QED
    BY <1>16, <2>1, <2>2 DEF AllDone, TypeOK, EtcdTypeOK, ClusterTypeOK,
       ConnTypeOK, MainTypeOK, WatchTypeOK, WaitTypeOK
<1>17. ASSUME NEW r \in Runs, NEW u \in Units, AddChan(r, u)
      PROVE  TypeOK'
  <2>1. chans' \in [Runs -> Seq(Units)]
    BY <1>17 DEF AddChan, TypeOK
  <2>2. WorkTypeOK'
    BY <1>17 DEF AddChan, WorkerStep, TypeOK, WorkTypeOK, WorkerPC
  <2>3. WaitTypeOK'
    BY <1>17 DEF AddChan, TypeOK, WaitTypeOK
  <2> QED
    BY <1>17, <2>1, <2>2, <2>3 DEF AddChan, TypeOK, EtcdTypeOK, ClusterTypeOK,
       ConnTypeOK, MainTypeOK, WatchTypeOK
<1>18. ASSUME NEW r \in Runs, NEW u \in Units, CheckReachable(r, u)
      PROVE  TypeOK'
  <2>1. WaitTypeOK'
    BY <1>18 DEF CheckReachable, TypeOK, WaitTypeOK
  <2> QED
    BY <1>18, <2>1 DEF CheckReachable, TypeOK, EtcdTypeOK, ClusterTypeOK,
       ConnTypeOK, MainTypeOK, WatchTypeOK, WorkTypeOK
<1>19. ASSUME NEW r \in Runs, NEW u \in Units, SelectReach(r, u)
      PROVE  TypeOK'
  <2>1. WorkTypeOK'
    <3>1. PICK to \in WorkerPC : WorkerStep(r, u, "select", to)
      BY <1>19 DEF SelectReach, WorkerPC
    <3> QED
      BY <1>19, <3>1, WorkStepType DEF SelectReach, TypeOK
  <2>2. WaitTypeOK'
    BY <1>19 DEF SelectReach, TypeOK, WaitTypeOK
  <2> QED
    BY <1>19, <2>1, <2>2 DEF SelectReach, TypeOK, EtcdTypeOK, ClusterTypeOK,
       ConnTypeOK, MainTypeOK, WatchTypeOK
<1>20. ASSUME NEW r \in Runs, NEW u \in Units, SelectTimeout(r, u)
      PROVE  TypeOK'
  <2>1. EtcdTypeOK'
    <3>1. CASE UNCHANGED resStatus
      BY <1>20, <3>1 DEF SelectTimeout, TypeOK, EtcdTypeOK
    <3>2. CASE \E n : Update(u, "Retrying", n)
      BY <1>20, <3>2, UpdateType DEF SelectTimeout, TypeOK, EtcdTypeOK,
         RsyncStatus
    <3> QED
      BY <1>20, <3>1, <3>2 DEF SelectTimeout
  <2>2. WorkTypeOK'
    <3>1. PICK to \in WorkerPC : WorkerStep(r, u, "select", to)
      BY <1>20 DEF SelectTimeout, WorkerPC
    <3> QED
      BY <1>20, <3>1, WorkStepType DEF SelectTimeout, TypeOK
  <2>3. WaitTypeOK'
    <3>1. CASE UNCHANGED <<retried, checks>>
      BY <1>20, <3>1 DEF SelectTimeout, TypeOK, WaitTypeOK
    <3>2. CASE /\ retried' = [retried EXCEPT ![r][u] = TRUE]
               /\ checks' = [checks EXCEPT ![r][u] = @ + 1]
      BY <1>20, <3>2 DEF SelectTimeout, TypeOK, WaitTypeOK
    <3> QED
      BY <1>20, <3>1, <3>2 DEF SelectTimeout
  <2>4. dbErrs' \in Nat /\ flips' \in Nat /\ crashes' \in Nat
    BY <1>20 DEF SelectTimeout, TypeOK
  <2> QED
    BY <1>20, <2>1, <2>2, <2>3, <2>4 DEF SelectTimeout, TypeOK, ClusterTypeOK,
       ConnTypeOK, MainTypeOK, WatchTypeOK
<1>21. ASSUME NEW r \in Runs, NEW u \in Units, Stopped(r, u)
      PROVE  TypeOK'
  <2>1. EtcdTypeOK'
    <3>1. \E n : Update(u, "Failed", n)
      BY <1>21 DEF Stopped
    <3> QED
      BY <1>21, <3>1, UpdateType DEF Stopped, TypeOK, EtcdTypeOK, RsyncStatus
  <2>2. WorkTypeOK'
    <3>1. PICK to \in WorkerPC : WorkerStep(r, u, "stopped", to)
      BY <1>21 DEF Stopped, WorkerPC
    <3> QED
      BY <1>21, <3>1, WorkStepType DEF Stopped, TypeOK
  <2>3. dbErrs' \in Nat /\ flips' \in Nat /\ crashes' \in Nat
    BY <1>21 DEF Stopped, TypeOK
  <2> QED
    BY <1>21, <2>1, <2>2, <2>3 DEF Stopped, TypeOK, ClusterTypeOK, ConnTypeOK,
       MainTypeOK, WatchTypeOK, WaitTypeOK
<1>22. ASSUME NEW r \in Runs, NEW u \in Units, DeleteChan(r, u)
      PROVE  TypeOK'
  <2>1. chans' \in [Runs -> Seq(Units)]
    BY <1>22, WithoutChanType DEF DeleteChan, TypeOK
  <2>2. WorkTypeOK'
    <3>1. PICK to \in WorkerPC, from \in WorkerPC : WorkerStep(r, u, from, to)
      BY <1>22 DEF DeleteChan, WorkerPC
    <3>2. worker' \in [Runs -> [Units -> WorkerPC]]
      BY <3>1, WorkerStepType DEF TypeOK
    <3>3. idx' \in [Runs -> [Units -> Res]]
      BY <1>22, RsyncAssumption DEF DeleteChan, TypeOK, WorkTypeOK
    <3>4. failed' \in [Runs -> BOOLEAN]
      BY <1>22 DEF DeleteChan, TypeOK, WorkTypeOK
    <3> QED
      BY <3>2, <3>3, <3>4 DEF WorkTypeOK
  <2>3. WaitTypeOK'
    BY <1>22 DEF DeleteChan, TypeOK, WaitTypeOK
  <2> QED
    BY <1>22, <2>1, <2>2, <2>3 DEF DeleteChan, TypeOK, EtcdTypeOK,
       ClusterTypeOK, ConnTypeOK, MainTypeOK, WatchTypeOK
<1>23. ASSUME NEW u \in Units, InstantiateResource(u)
      PROVE  TypeOK'
  <2>1. ClusterTypeOK'
    <3>1. PICK i \in Res :
             \/ installed' = installed
             \/ installed' = [installed EXCEPT ![u] = installed[u] \cup {i}]
      BY <1>23 DEF InstantiateResource, CallCluster, TypeOK, WorkTypeOK
    <3>2. installed' \in [Units -> SUBSET Res]
      BY <3>1 DEF TypeOK, ClusterTypeOK
    <3> QED
      BY <1>23, <3>2 DEF InstantiateResource, CallCluster, TypeOK, ClusterTypeOK
  <2>2. WorkTypeOK'
    <3>1. PICK to \in WorkerPC : WorkerStep(Inst, u, "f", to)
      BY <1>23 DEF InstantiateResource, CallCluster, WorkerPC
    <3>2. Inst \in Runs
      OBVIOUS
    <3> QED
      BY <1>23, <3>1, <3>2, WorkStepType DEF InstantiateResource, CallCluster,
         TypeOK
  <2>3. dbErrs' \in Nat /\ flips' \in Nat /\ crashes' \in Nat
    BY <1>23 DEF InstantiateResource, CallCluster, TypeOK
  <2> QED
    BY <1>23, <2>1, <2>2, <2>3 DEF InstantiateResource, CallCluster, TypeOK,
       EtcdTypeOK, ConnTypeOK, MainTypeOK, WatchTypeOK, WaitTypeOK
<1>24. ASSUME NEW r \in Runs, NEW u \in Units, TerminateResource(r, u)
      PROVE  TypeOK'
  <2>1. ClusterTypeOK'
    BY <1>24 DEF TerminateResource, CallCluster, TypeOK, ClusterTypeOK
  <2>2. WorkTypeOK'
    <3>1. PICK to \in WorkerPC : WorkerStep(r, u, "f", to)
      BY <1>24 DEF TerminateResource, CallCluster, WorkerPC
    <3> QED
      BY <1>24, <3>1, WorkStepType DEF TerminateResource, CallCluster, TypeOK
  <2>3. dbErrs' \in Nat /\ flips' \in Nat /\ crashes' \in Nat
    BY <1>24 DEF TerminateResource, CallCluster, TypeOK
  <2> QED
    BY <1>24, <2>1, <2>2, <2>3 DEF TerminateResource, CallCluster, TypeOK,
       EtcdTypeOK, ConnTypeOK, MainTypeOK, WatchTypeOK, WaitTypeOK
<1>25. ASSUME NEW r \in Runs, NEW u \in Units, StatusOk(r, u)
      PROVE  TypeOK'
  <2>1. EtcdTypeOK'
    <3>1. PICK s \in RsyncStatus : WriteStatus(r, u, s)
      BY <1>25 DEF StatusOk, RsyncStatus
    <3> QED
      BY <1>25, <3>1, WriteStatusType DEF StatusOk, TypeOK, EtcdTypeOK
  <2>2. WorkTypeOK'
    <3>1. CASE r = Inst /\ idx[r][u] \in Approval
      BY <1>25, <3>1, WorkStepType DEF StatusOk, TypeOK, WorkerPC
    <3>2. CASE ~ (r = Inst /\ idx[r][u] \in Approval)
      BY <1>25, <3>2, ToNextResType DEF StatusOk, TypeOK, WorkTypeOK
    <3> QED
      BY <3>1, <3>2
  <2>3. dbErrs' \in Nat /\ flips' \in Nat /\ crashes' \in Nat
    BY <1>25 DEF StatusOk, WriteStatus, TypeOK
  <2> QED
    BY <1>25, <2>1, <2>2, <2>3 DEF StatusOk, TypeOK, ClusterTypeOK,
       ConnTypeOK, MainTypeOK, WatchTypeOK, WaitTypeOK
<1>26. ASSUME NEW r \in Runs, NEW u \in Units, StatusBad(r, u)
      PROVE  TypeOK'
  <2>1. EtcdTypeOK'
    <3>1. PICK s \in RsyncStatus : WriteStatus(r, u, s)
      BY <1>26 DEF StatusBad, RsyncStatus
    <3> QED
      BY <1>26, <3>1, WriteStatusType DEF StatusBad, TypeOK, EtcdTypeOK
  <2>2. WorkTypeOK'
    <3>1. PICK to \in WorkerPC : WorkerStep(r, u, "bad", to)
      BY <1>26 DEF StatusBad, WorkerPC
    <3> QED
      BY <1>26, <3>1, WorkStepType DEF StatusBad, TypeOK
  <2>3. dbErrs' \in Nat /\ flips' \in Nat /\ crashes' \in Nat
    BY <1>26 DEF StatusBad, WriteStatus, TypeOK
  <2> QED
    BY <1>26, <2>1, <2>2, <2>3 DEF StatusBad, TypeOK, ClusterTypeOK,
       ConnTypeOK, MainTypeOK, WatchTypeOK, WaitTypeOK
<1>27. ASSUME NEW u \in Units, Approve(u)
      PROVE  TypeOK'
  <2>1. ClusterTypeOK'
    <3>1. PICK i \in Res :
             \/ approved' = approved
             \/ approved' = [approved EXCEPT ![u] = approved[u] \cup {i}]
      BY <1>27 DEF Approve, TypeOK, WorkTypeOK
    <3>2. approved' \in [Units -> SUBSET Res]
      BY <3>1 DEF TypeOK, ClusterTypeOK
    <3> QED
      BY <1>27, <3>2 DEF Approve, TypeOK, ClusterTypeOK
  <2>2. WorkTypeOK'
    <3>1. Inst \in Runs
      OBVIOUS
    <3>2. CASE ToNextRes(Inst, u, "approve")
      BY <1>27, <3>1, <3>2, ToNextResType DEF Approve, TypeOK, WorkTypeOK
    <3>3. CASE WorkerStep(Inst, u, "approve", "isReachable") /\ UNCHANGED idx
      BY <1>27, <3>1, <3>3, WorkStepType DEF Approve, TypeOK, WorkerPC
    <3> QED
      BY <1>27, <3>2, <3>3 DEF Approve
  <2>3. dbErrs' \in Nat /\ flips' \in Nat /\ crashes' \in Nat
    BY <1>27 DEF Approve, TypeOK
  <2> QED
    BY <1>27, <2>1, <2>2, <2>3 DEF Approve, TypeOK, EtcdTypeOK, ConnTypeOK,
       MainTypeOK, WatchTypeOK, WaitTypeOK
<1>28. ASSUME NEW r \in Runs, NEW u \in Units, AfterError(r, u)
      PROVE  TypeOK'
  <2>1. WorkTypeOK'
    <3>1. CASE ToNextRes(r, u, "isReachable")
      BY <1>28, <3>1, ToNextResType DEF AfterError, TypeOK, WorkTypeOK
    <3>2. CASE UNCHANGED idx
      <4>1. PICK to \in WorkerPC : WorkerStep(r, u, "isReachable", to)
        BY <1>28 DEF AfterError, ToNextRes, WorkerPC
      <4> QED
        BY <1>28, <3>2, <4>1, WorkStepType DEF AfterError, TypeOK
    <3> QED
      BY <1>28, <3>1, <3>2 DEF AfterError
  <2> QED
    BY <1>28, <2>1 DEF AfterError, TypeOK, EtcdTypeOK, ClusterTypeOK,
       ConnTypeOK, MainTypeOK, WatchTypeOK, WaitTypeOK
<1>29. ASSUME NEW r \in Runs, NEW u \in Units, StatusTracker(r, u)
      PROVE  TypeOK'
  <2>1. ClusterTypeOK'
    BY <1>29 DEF StatusTracker, TypeOK, ClusterTypeOK
  <2>2. WorkTypeOK'
    <3>1. PICK to \in WorkerPC : WorkerStep(r, u, "sfn", to)
      BY <1>29 DEF StatusTracker, WorkerPC
    <3> QED
      BY <1>29, <3>1, WorkStepType DEF StatusTracker, TypeOK
  <2> QED
    BY <1>29, <2>1, <2>2 DEF StatusTracker, TypeOK, EtcdTypeOK, ConnTypeOK,
       MainTypeOK, WatchTypeOK, WaitTypeOK
<1>30. ASSUME ProcessDies, dbErrs' \in Nat, crashes' \in Nat
      PROVE  TypeOK'
  <2>1. ConnTypeOK'
    BY <1>30 DEF ProcessDies, TypeOK, ConnTypeOK
  <2>2. MainTypeOK'
    BY <1>30 DEF ProcessDies, TypeOK, MainTypeOK, MainPC
  <2>3. WatchTypeOK'
    BY <1>30 DEF ProcessDies, TypeOK, WatchTypeOK, WatchPC
  <2>4. chans' \in [Runs -> Seq(Units)]
    BY <1>30 DEF ProcessDies, TypeOK
  <2>5. WorkTypeOK'
    BY <1>30, RsyncAssumption DEF ProcessDies, WorkTypeOK, WorkerPC
  <2>6. WaitTypeOK'
    BY <1>30 DEF ProcessDies, TypeOK, WaitTypeOK
  <2> QED
    BY <1>30, <2>1, <2>2, <2>3, <2>4, <2>5, <2>6 DEF ProcessDies, TypeOK,
       EtcdTypeOK, ClusterTypeOK
<1>31. ASSUME NEW c \in Clusters, Flip(c)
      PROVE  TypeOK'
  <2>1. ClusterTypeOK'
    BY <1>31 DEF Flip, TypeOK, ClusterTypeOK
  <2>2. dbErrs' \in Nat /\ flips' \in Nat /\ crashes' \in Nat
    BY <1>31 DEF Flip, TypeOK
  <2> QED
    BY <1>31, <2>1, <2>2 DEF Flip, TypeOK, EtcdTypeOK, ConnTypeOK, MainTypeOK,
       WatchTypeOK, WorkTypeOK, WaitTypeOK
<1>32. CASE UNCHANGED vars
  BY <1>32 DEF TypeOK, EtcdTypeOK, ClusterTypeOK, ConnTypeOK, MainTypeOK,
     WatchTypeOK, WorkTypeOK, WaitTypeOK
<1>33. ASSUME Crash PROVE TypeOK'
  BY <1>33, <1>30 DEF Crash, ProcessDies, TypeOK
<1>34. ASSUME NEW r \in Runs, NEW u \in Units, Panic(r, u) PROVE TypeOK'
  BY <1>34, <1>30 DEF Panic, ProcessDies, TypeOK
<1>35. ASSUME NEW r \in Runs, MainNext(r) PROVE TypeOK'
  BY <1>35, <1>5, <1>6, <1>7, <1>8, <1>9, <1>10 DEF MainNext
<1>36. ASSUME NEW r \in Runs, WatcherNext(r) PROVE TypeOK'
  BY <1>36, <1>11, <1>12, <1>13, <1>14 DEF WatcherNext
<1>37. ASSUME NEW r \in Runs, NEW u \in Units, WorkerNext(r, u) PROVE TypeOK'
  BY <1>37, <1>34, <1>15, <1>16, <1>17, <1>19, <1>20,
     <1>21, <1>22, <1>23, <1>24, <1>25,
     <1>26, <1>27, <1>28, <1>29 DEF WorkerNext
<1> QED
  BY <1>32, <1>33, <1>35, <1>36, <1>37, <1>1, <1>2, <1>3, <1>4,
     <1>18, <1>31 DEF Next

\* Every variable stays in its range in every reachable state: the statuses in
\* the AppContext are among those the code defines, the channel list holds
\* channels of workers, and a worker handles a resource of its order.
THEOREM TypeCorrect == Spec => []TypeOK
<1>1. Init => TypeOK
  BY TypeInit
<1>2. TypeOK /\ [Next]_vars => TypeOK'
  BY TypeStep
<1> QED
  BY <1>1, <1>2, PTL DEF Spec

-----------------------------------------------------------------------------
(* What a step of a worker leaves alone.                                   *)

\* A step of a worker that neither starts nor ends waitForClusterReady.
Local(r, u) ==
    /\ \E from \in WorkerPC \ {"off", "exit"}, to \in WorkerPC :
          /\ WorkerStep(r, u, from, to)
          /\ from \in Waiting <=> to \in Waiting
    /\ UNCHANGED <<acStatus, main, chans>>
    /\ DbOk \/ DbFails

\* Every step of a worker but addChan, deleteChan and a panic is such a step.
LEMMA WorkerLocal ==
    ASSUME NEW r \in Runs, NEW u \in Units, WorkerNext(r, u)
    PROVE  Local(r, u) \/ AddChan(r, u) \/ DeleteChan(r, u) \/ Panic(r, u)
<1> USE DEF Local, WorkerPC, Waiting
<1>1. CASE GetClient(r, u)
  BY <1>1 DEF GetClient
<1>2. CASE AllDone(r, u)
  BY <1>2 DEF AllDone
<1>3. CASE SelectReach(r, u)
  BY <1>3 DEF SelectReach
<1>4. CASE SelectTimeout(r, u)
  BY <1>4 DEF SelectTimeout
<1>5. CASE Stopped(r, u)
  BY <1>5 DEF Stopped
<1>6. CASE StatusOk(r, u)
  BY <1>6 DEF StatusOk, ToNextRes, WriteStatus
<1>7. CASE StatusBad(r, u)
  BY <1>7 DEF StatusBad, WriteStatus
<1>8. CASE AfterError(r, u)
  BY <1>8 DEF AfterError, ToNextRes
<1>9. CASE StatusTracker(r, u)
  BY <1>9 DEF StatusTracker
<1>10. CASE r = Inst /\ InstantiateResource(u)
  BY <1>10 DEF InstantiateResource, CallCluster
<1>11. CASE r = Inst /\ Approve(u)
  BY <1>11 DEF Approve, ToNextRes
<1>12. CASE r # Inst /\ TerminateResource(r, u)
  BY <1>12 DEF TerminateResource, CallCluster
<1> QED
  BY <1>1, <1>2, <1>3, <1>4, <1>5, <1>6, <1>7, <1>8, <1>9, <1>10, <1>11, <1>12
     DEF WorkerNext

-----------------------------------------------------------------------------
(* Workers run only while their main goroutine waits for them.             *)

WorkersInGWait == \A r \in Runs, u \in Units : Running(r, u) => main[r] = "gWait"

LEMMA WorkersInGWaitStep ==
    ASSUME TypeOK, WorkersInGWait, [Next]_vars
    PROVE  WorkersInGWait'
<1> USE DEF WorkersInGWait, Running, TypeOK, WorkTypeOK, MainTypeOK
<1>1. ASSUME NEW r \in Runs, NEW u \in Units, NEW from, NEW to,
             from \notin {"off", "exit"}, WorkerStep(r, u, from, to), UNCHANGED main
      PROVE  WorkersInGWait'
  BY <1>1 DEF WorkerStep
<1>2. CASE UNCHANGED <<main, worker>>
  BY <1>2
<1>3. CASE InstallApp
  BY <1>3 DEF InstallApp
<1>4. ASSUME NEW t \in Terms, UninstallApp(t) \/ WaitForDone(t) \/ ClearFlag(t)
      PROVE  WorkersInGWait'
  BY <1>4 DEF UninstallApp, WaitForDone, ClearFlag
<1>5. ASSUME NEW r \in Runs, MainNext(r)
      PROVE  WorkersInGWait'
  <2>1. CASE InitStatus(r)
    BY <2>1 DEF InitStatus
  <2>2. ASSUME NEW u \in Units, InitRes(r, u)
        PROVE  WorkersInGWait'
    BY <2>2 DEF InitRes
  <2>3. CASE Kickoff(r)
    BY <2>3 DEF Kickoff
  <2>4. CASE GWait(r)
    BY <2>4 DEF GWait, WorkersGone
  <2>5. CASE WgWait(r)
    BY <2>5 DEF WgWait
  <2>6. CASE Cleanup(r)
    BY <2>6 DEF Cleanup
  <2> QED
    BY <1>5, <2>1, <2>2, <2>3, <2>4, <2>5, <2>6 DEF MainNext
<1>6. ASSUME NEW r \in Runs, WatcherNext(r)
      PROVE  WorkersInGWait'
  <2>1. ASSUME NEW u \in Units, WatcherSend(r, u)
        PROVE  WorkersInGWait'
    BY <2>1 DEF WatcherSend
  <2> QED
    BY <1>2, <1>6, <2>1 DEF WatcherNext, WatcherPoll, WatcherFlag, WatcherUnlock
<1>7. CASE ProcessDies
  BY <1>7 DEF ProcessDies
<1>8. ASSUME NEW r \in Runs, NEW u \in Units, WorkerNext(r, u)
      PROVE  WorkersInGWait'
  <2>1. CASE Local(r, u)
    BY <1>1, <2>1 DEF Local
  <2>2. CASE AddChan(r, u)
    BY <1>1, <2>2 DEF AddChan
  <2>3. CASE DeleteChan(r, u)
    BY <1>1, <2>3 DEF DeleteChan
  <2> QED
    BY <1>7, <1>8, <2>1, <2>2, <2>3, WorkerLocal DEF Panic
<1> QED
  BY <1>2, <1>3, <1>4, <1>5, <1>6, <1>7, <1>8 DEF Next, CheckReachable, Flip,
     Crash

-----------------------------------------------------------------------------
(* The registry of channels.                                               *)

\* deleteChan removes the channel of u and no other, and no channel is lost or
\* listed twice by the swap.
LEMMA WithoutChanCorrect ==
    ASSUME NEW s \in Seq(Units), NEW u \in Units,
           \A j, k \in DOMAIN s : s[j] = s[k] => j = k,
           \E j \in DOMAIN s : s[j] = u
    PROVE  LET w == WithoutChan(s, u)
           IN /\ \A j, k \in DOMAIN w : w[j] = w[k] => j = k
              /\ \A v \in Units : (\E j \in DOMAIN w : w[j] = v)
                                   <=> v # u /\ (\E j \in DOMAIN s : s[j] = v)
<1> DEFINE n == Len(s)
           w == WithoutChan(s, u)
<1>1. n \in Nat /\ DOMAIN s = 1 .. n
  OBVIOUS
<1>2. PICK k \in 1 .. n : k = CHOOSE j \in 1 .. n : s[j] = u
  BY <1>1
<1>3. s[k] = u
  BY <1>1, <1>2
<1>4. w = [j \in 1 .. n - 1 |-> IF j = k THEN s[n] ELSE s[j]]
  BY <1>2 DEF WithoutChan
<1> HIDE DEF w, n
<1>5. \A j \in 1 .. n - 1 : w[j] = IF j = k THEN s[n] ELSE s[j]
  BY <1>4
<1>6. DOMAIN w = 1 .. n - 1
  BY <1>4
<1>7. \A i, j \in DOMAIN w : w[i] = w[j] => i = j
  BY <1>1, <1>2, <1>5, <1>6
<1>8. ASSUME NEW v \in Units, NEW j \in DOMAIN w, w[j] = v
      PROVE  v # u /\ \E i \in DOMAIN s : s[i] = v
  BY <1>1, <1>2, <1>3, <1>5, <1>6, <1>8
<1>9. ASSUME NEW v \in Units, v # u, NEW i \in DOMAIN s, s[i] = v
      PROVE  \E j \in DOMAIN w : w[j] = v
  <2>1. i # k
    BY <1>3, <1>9
  <2>2. CASE i = n
    BY <1>1, <1>5, <1>6, <1>9, <2>1, <2>2
  <2>3. CASE i # n
    BY <1>1, <1>5, <1>6, <1>9, <2>1, <2>3
  <2> QED
    BY <2>2, <2>3
<1> QED
  BY <1>7, <1>8, <1>9 DEF w

\* The registry of one run.
Listed(s, row) ==
    /\ \A j, k \in DOMAIN s : s[j] = s[k] => j = k
    /\ \A u \in Units : (\E j \in DOMAIN s : s[j] = u) <=> row[u] \in Waiting

\* A step of run r that leaves the others alone.
LEMMA ListedStep ==
    ASSUME Registry, NEW r \in Runs, Listed(chans'[r], worker'[r]),
           \A q \in Runs \ {r} : chans'[q] = chans[q] /\ worker'[q] = worker[q]
    PROVE  Registry'
<1>1. \A q \in Runs : Listed(chans[q], worker[q])
  BY DEF Registry, Listed
<1>2. \A q \in Runs : Listed(chans'[q], worker'[q])
  BY <1>1
<1> QED
  BY <1>2 DEF Registry, Listed

LEMMA RegistryStep ==
    ASSUME TypeOK, WorkersInGWait, Registry, [Next]_vars
    PROVE  Registry'
<1> USE DEF TypeOK, WorkTypeOK
<1>1. ASSUME NEW r \in Runs, NEW u \in Units, NEW from, NEW to,
             from \in Waiting <=> to \in Waiting, WorkerStep(r, u, from, to),
             UNCHANGED chans
      PROVE  Registry'
  BY <1>1 DEF WorkerStep, Registry
<1>2. CASE UNCHANGED <<chans, worker>>
  BY <1>2 DEF Registry
<1>3. ASSUME NEW r \in Runs, Kickoff(r)
      PROVE  Registry'
  <2>1. CASE UNCHANGED worker
    BY <1>2, <1>3, <2>1 DEF Kickoff
  <2>2. CASE worker' = [worker EXCEPT ![r] = [v \in Units |-> "getClient"]]
    <3>1. \A v \in Units : worker[r][v] \notin Waiting
      BY <1>3 DEF Kickoff, MainTypeOK, WorkersInGWait, Running, Waiting
    <3>2. \A v \in Units : worker'[r][v] \notin Waiting
      BY <2>2 DEF Waiting
    <3>3. \A q \in Runs \ {r} : worker'[q] = worker[q]
      BY <2>2
    <3>4. Listed(chans'[r], worker'[r])
      BY <1>3, <3>1, <3>2 DEF Kickoff, Registry, Listed
    <3> QED
      BY <1>3, <3>3, <3>4, ListedStep DEF Kickoff
  <2> QED
    BY <1>3, <2>1, <2>2 DEF Kickoff
<1>4. ASSUME NEW r \in Runs, NEW u \in Units, WatcherSend(r, u)
      PROVE  Registry'
  BY <1>4 DEF WatcherSend, Registry, Waiting
<1>5. ASSUME NEW r \in Runs, NEW u \in Units, AddChan(r, u)
      PROVE  Registry'
  <2> DEFINE s == chans[r]
  <2>1. s \in Seq(Units) /\ chans'[r] = Append(s, u)
    BY <1>5 DEF AddChan
  <2>2. \A j \in DOMAIN s : s[j] # u
    BY <1>5 DEF AddChan, WorkerStep, Registry, Waiting
  <2>3. \A v \in Units : worker'[r][v] \in Waiting <=> v = u \/ worker[r][v] \in Waiting
    BY <1>5 DEF AddChan, WorkerStep, Waiting
  <2>4. \A q \in Runs \ {r} : chans'[q] = chans[q] /\ worker'[q] = worker[q]
    BY <1>5 DEF AddChan, WorkerStep
  <2>5. /\ \A j, k \in DOMAIN s : s[j] = s[k] => j = k
        /\ \A v \in Units : (\E j \in DOMAIN s : s[j] = v) <=> worker[r][v] \in Waiting
    BY DEF Registry
  <2> HIDE DEF s
  <2>6. \A j, k \in DOMAIN Append(s, u) : Append(s, u)[j] = Append(s, u)[k] => j = k
    BY <2>1, <2>2, <2>5
  <2>7. \A v \in Units : (\E j \in DOMAIN Append(s, u) : Append(s, u)[j] = v)
                            <=> v = u \/ (\E j \in DOMAIN s : s[j] = v)
    <3>1. Append(s, u)[Len(s) + 1] = u /\ Len(s) + 1 \in DOMAIN Append(s, u)
      BY <2>1
    <3>2. \A j \in DOMAIN s : j \in DOMAIN Append(s, u) /\ Append(s, u)[j] = s[j]
      BY <2>1
    <3>3. \A j \in DOMAIN Append(s, u) : j = Len(s) + 1 \/ j \in DOMAIN s
      BY <2>1
    <3> QED
      BY <3>1, <3>2, <3>3
  <2>8. Listed(chans'[r], worker'[r])
    <3>1. \A v \in Units : (\E j \in DOMAIN Append(s, u) : Append(s, u)[j] = v)
                              <=> worker'[r][v] \in Waiting
      BY <2>3, <2>5, <2>7
    <3> QED
      BY <2>1, <2>6, <3>1, Zenon DEF Listed
  <2> QED
    BY <2>4, <2>8, ListedStep
<1>6. ASSUME NEW r \in Runs, NEW u \in Units, DeleteChan(r, u)
      PROVE  Registry'
  <2> DEFINE s == chans[r]
             w == WithoutChan(s, u)
  <2>1. s \in Seq(Units) /\ chans'[r] = w
    BY <1>6 DEF DeleteChan
  <2>2. /\ \A j, k \in DOMAIN s : s[j] = s[k] => j = k
        /\ \A v \in Units : (\E j \in DOMAIN s : s[j] = v) <=> worker[r][v] \in Waiting
    BY DEF Registry
  <2>3. worker[r][u] \in Waiting
    BY <1>6 DEF DeleteChan, WorkerStep, Waiting
  <2>4. /\ \A j, k \in DOMAIN w : w[j] = w[k] => j = k
        /\ \A v \in Units : (\E j \in DOMAIN w : w[j] = v)
                              <=> v # u /\ (\E j \in DOMAIN s : s[j] = v)
    BY <2>1, <2>2, <2>3, WithoutChanCorrect
  <2>5. \A v \in Units : worker'[r][v] \in Waiting <=> v # u /\ worker[r][v] \in Waiting
    BY <1>6 DEF DeleteChan, WorkerStep, Waiting
  <2>6. \A q \in Runs \ {r} : chans'[q] = chans[q] /\ worker'[q] = worker[q]
    BY <1>6 DEF DeleteChan, WorkerStep
  <2> HIDE DEF s, w
  <2>7. Listed(chans'[r], worker'[r])
    BY <2>1, <2>2, <2>4, <2>5 DEF Listed
  <2> QED
    BY <2>6, <2>7, ListedStep
<1>7. CASE ProcessDies
  BY <1>7 DEF ProcessDies, Registry, Waiting
<1>8. ASSUME NEW r \in Runs, NEW u \in Units, WorkerNext(r, u)
      PROVE  Registry'
  <2>1. CASE Local(r, u)
    BY <1>1, <2>1 DEF Local
  <2> QED
    BY <1>5, <1>6, <1>7, <1>8, <2>1, WorkerLocal DEF Panic
<1>9. ASSUME NEW t \in Terms, UninstallApp(t) \/ WaitForDone(t) \/ ClearFlag(t)
      PROVE  Registry'
  BY <1>2, <1>9 DEF UninstallApp, WaitForDone, ClearFlag
<1>10. ASSUME NEW r \in Runs, MainNext(r)
       PROVE  Registry'
  BY <1>2, <1>3, <1>10 DEF MainNext, InitStatus, InitRes, GWait, WgWait, Cleanup
<1>11. ASSUME NEW r \in Runs, WatcherNext(r)
       PROVE  Registry'
  BY <1>2, <1>4, <1>11 DEF WatcherNext, WatcherPoll, WatcherFlag, WatcherUnlock
<1> QED
  BY <1>2, <1>7, <1>8, <1>9, <1>10, <1>11 DEF Next, InstallApp, CheckReachable,
     Flip, Crash

\* deleteChan's swap keeps the list of channels right: a worker has a channel in
\* it exactly while it is in waitForClusterReady, and has it once.
THEOREM RegistryCorrect == Spec => []Registry
<1>1. Init => TypeOK /\ WorkersInGWait /\ Registry
  BY TypeInit DEF Init, WorkersInGWait, Running, Registry, Waiting
<1>2. TypeOK /\ WorkersInGWait /\ Registry /\ [Next]_vars
        => (TypeOK /\ WorkersInGWait /\ Registry)'
  BY TypeStep, WorkersInGWaitStep, RegistryStep
<1> QED
  BY <1>1, <1>2, PTL DEF Spec

-----------------------------------------------------------------------------
(* No overlap of the install run and a terminate run.                      *)

\* The install run has no worker any more, and will not have one again.
InstQuiet == main[Inst] \in {"wgWait", "cleanup", "returned", "dead"}

\* Where a terminate run is once waitForDone has returned without an error.
PastWait == {"clearFlag", "initStatus", "initRes", "kickoff", "gWait", "wgWait"}

\* While the database works, waitForDone keeps its promise: a terminate run is
\* past it only when the install run is over.  The promise needs the status:
\* it must exist (a status that does not ends the wait) while the install run
\* is going on, and it must not be an ended one before the run is over.
WaitRespected ==
    dbErrs = 0 =>
        /\ acStatus \in InstDone => InstQuiet
        /\ main[Inst] \in {"initRes", "kickoff", "gWait"} => acStatus # None
        /\ main[Inst] \notin {"waitForDone", "clearFlag"}
        /\ \A t \in Terms :
            /\ main[t] \in PastWait => InstQuiet
            /\ main[t] = "waitForDone" => acStatus # None \/ InstQuiet

LEMMA WaitRespectedStep ==
    ASSUME "initStatus" \notin UninstallWhen, TypeOK, WaitRespected, [Next]_vars
    PROVE  WaitRespected'
<1> USE RsyncAssumption DEF TypeOK, MainTypeOK
<1>1. CASE DbFails
  BY <1>1 DEF WaitRespected
<1>2. CASE UNCHANGED <<acStatus, main, dbErrs>>
  BY <1>2 DEF WaitRespected, InstQuiet
<1> USE DEF WaitRespected, InstQuiet, PastWait, InstDone
<1>3. CASE InstallApp
  BY <1>1, <1>3 DEF InstallApp
<1>4. ASSUME NEW t \in Terms, UninstallApp(t)
      PROVE  WaitRespected'
  BY <1>1, <1>4 DEF UninstallApp, MainPC
<1>5. ASSUME NEW t \in Terms, WaitForDone(t)
      PROVE  WaitRespected'
  BY <1>1, <1>5 DEF WaitForDone, WaitIsOver
<1>6. ASSUME NEW t \in Terms, ClearFlag(t)
      PROVE  WaitRespected'
  BY <1>1, <1>6 DEF ClearFlag
<1>7. ASSUME NEW r \in Runs, MainNext(r)
      PROVE  WaitRespected'
  <2>1. CASE InitStatus(r)
    BY <1>1, <2>1 DEF InitStatus, Kind
  <2>2. ASSUME NEW u \in Units, InitRes(r, u)
        PROVE  WaitRespected'
    BY <1>1, <2>2 DEF InitRes
  <2>3. CASE Kickoff(r)
    BY <1>1, <2>3 DEF Kickoff
  <2>4. CASE GWait(r)
    BY <1>1, <2>4 DEF GWait, EndingStatus
  <2>5. CASE WgWait(r)
    BY <2>5 DEF WgWait
  <2>6. CASE Cleanup(r)
    BY <2>6 DEF Cleanup
  <2> QED
    BY <1>7, <2>1, <2>2, <2>3, <2>4, <2>5, <2>6 DEF MainNext
<1>8. CASE ProcessDies
  BY <1>8 DEF ProcessDies
<1>9. ASSUME NEW r \in Runs, NEW u \in Units, WorkerNext(r, u)
      PROVE  WaitRespected'
  BY <1>1, <1>2, <1>8, <1>9, WorkerLocal DEF Local, AddChan, DeleteChan, Panic
<1>10. ASSUME NEW r \in Runs, WatcherNext(r)
       PROVE  WaitRespected'
  BY <1>1, <1>2, <1>10 DEF WatcherNext, WatcherPoll, WatcherFlag, WatcherSend,
     WatcherUnlock
<1> QED
  BY <1>2, <1>3, <1>4, <1>5, <1>6, <1>7, <1>8, <1>9, <1>10 DEF Next,
     CheckReachable,
     Flip, Crash

\* waitForDone keeps the workers of a terminate run and of the install run
\* apart, as long as the database works and UninstallApp does not come before
\* the install run has written its status.
THEOREM NoOverlapCorrect ==
    ASSUME "initStatus" \notin UninstallWhen
    PROVE  Spec => []NoOverlap
<1> DEFINE IInv == TypeOK /\ WorkersInGWait /\ WaitRespected
<1>1. Init => IInv
  BY TypeInit, RsyncAssumption DEF Init, WorkersInGWait, Running, WaitRespected,
     InstDone, PastWait
<1>2. IInv /\ [Next]_vars => IInv'
  BY TypeStep, WorkersInGWaitStep, WaitRespectedStep
<1>3. IInv => NoOverlap
  BY DEF WorkersInGWait, WaitRespected, InstQuiet, PastWait, NoOverlap
<1> QED
  BY <1>1, <1>2, <1>3, PTL DEF Spec

-----------------------------------------------------------------------------
(* The order of the resources.                                             *)

\* The steps of a worker's loop over the resources.
InLoop == {"f", "ok", "bad", "approve", "isReachable", "sfn"}

\* Resource j of u is behind the install run.
Behind(u, j) == j \in installed[u] /\ (dbErrs = 0 /\ j \in Approval => j \in approved[u])

\* What the worker of the install run has gone past exists, and what exists
\* follows what exists.
Orderly(u) ==
    /\ \A i \in installed[u] : \A j \in 1 .. i - 1 : Behind(u, j)
    /\ worker[Inst][u] \in InLoop => \A j \in 1 .. idx[Inst][u] - 1 : Behind(u, j)
    /\ worker[Inst][u] \in {"ok", "approve"} => idx[Inst][u] \in installed[u]
    /\ worker[Inst][u] = "sfn" => 1 \in installed[u]
    /\ u \in tracker => 1 \in installed[u]

OrderInv == BeforeTerminate => \A u \in Units : Orderly(u)

\* Nothing takes a terminate run back to its wait.
LEMMA WaitIsFirst ==
    ASSUME TypeOK, [Next]_vars, NEW t \in Terms, main'[t] \in {"idle", "waitForDone"}
    PROVE  main[t] \in {"idle", "waitForDone"}
<1> USE RsyncAssumption DEF TypeOK, MainTypeOK
<1>1. CASE UNCHANGED main
  BY <1>1
<1>2. CASE InstallApp
  BY <1>2 DEF InstallApp
<1>3. ASSUME NEW s \in Terms, UninstallApp(s) \/ WaitForDone(s) \/ ClearFlag(s)
      PROVE  main[t] \in {"idle", "waitForDone"}
  BY <1>3 DEF UninstallApp, WaitForDone, ClearFlag
<1>4. ASSUME NEW r \in Runs, MainNext(r)
      PROVE  main[t] \in {"idle", "waitForDone"}
  BY <1>4 DEF MainNext, InitStatus, InitRes, Kickoff, GWait, WgWait, Cleanup
<1>5. CASE ProcessDies
  BY <1>5 DEF ProcessDies
<1>6. ASSUME NEW r \in Runs, NEW u \in Units, WorkerNext(r, u)
      PROVE  main[t] \in {"idle", "waitForDone"}
  BY <1>1, <1>5, <1>6, WorkerLocal DEF Local, AddChan, DeleteChan, Panic
<1>7. ASSUME NEW r \in Runs, WatcherNext(r)
      PROVE  main[t] \in {"idle", "waitForDone"}
  BY <1>1, <1>7 DEF WatcherNext, WatcherPoll, WatcherFlag, WatcherSend, WatcherUnlock
<1> QED
  BY <1>1, <1>2, <1>3, <1>4, <1>5, <1>6, <1>7 DEF Next, CheckReachable, Flip, Crash

\* A step that leaves the cluster alone and takes no worker of the install run on
\* in its loop.
LEMMA OrderlyStays ==
    ASSUME TypeOK, NEW u \in Units, Orderly(u),
           UNCHANGED <<installed, approved, tracker>>, dbErrs' = 0 => dbErrs = 0,
           worker'[Inst][u] \in InLoop =>
               \/ worker'[Inst][u] = worker[Inst][u] /\ idx'[Inst][u] = idx[Inst][u]
               \/ worker'[Inst][u] = "f" /\ idx'[Inst][u] = 1
               \/ /\ worker[Inst][u] \in InLoop /\ worker'[Inst][u] \in {"bad", "isReachable"}
                  /\ idx'[Inst][u] = idx[Inst][u]
    PROVE  Orderly(u)'
<1>1. \A j \in Res : Behind(u, j) => Behind(u, j)'
  BY DEF Behind
<1>2. \A i \in installed[u] : i \in Res /\ 1 .. i - 1 \subseteq Res
  BY RsyncAssumption DEF TypeOK, ClusterTypeOK
<1>3. idx[Inst][u] \in Res /\ 1 .. idx[Inst][u] - 1 \subseteq Res
  BY RsyncAssumption DEF TypeOK, WorkTypeOK
<1>4. \A i \in installed'[u] : \A j \in 1 .. i - 1 : Behind(u, j)'
  BY <1>1, <1>2 DEF Orderly
<1>5. worker'[Inst][u] \in InLoop => \A j \in 1 .. idx'[Inst][u] - 1 : Behind(u, j)'
  BY <1>1, <1>3 DEF Orderly
<1> QED
  BY <1>4, <1>5 DEF Orderly, InLoop

\* From a resource that is behind to the next one.
LEMMA OrderlyGoesOn ==
    ASSUME TypeOK, NEW u \in Units, Orderly(u), NEW from \in {"ok", "approve"},
           ToNextRes(Inst, u, from),
           UNCHANGED <<installed, tracker>>, approved[u] \subseteq approved'[u],
           dbErrs' = 0 => dbErrs = 0,
           dbErrs' = 0 /\ idx[Inst][u] \in Approval => idx[Inst][u] \in approved'[u]
    PROVE  Orderly(u)'
<1>0. idx[Inst][u] \in Res /\ NRes \in Nat
  BY RsyncAssumption DEF TypeOK, WorkTypeOK
<1>1. PICK n \in Res : n = idx[Inst][u]
  BY <1>0
<1>2. worker[Inst][u] = from /\ worker'[Inst][u] \in {"f", "sfn"}
      /\ (idx'[Inst][u] = n \/ idx'[Inst][u] = n + 1)
  BY <1>1 DEF ToNextRes, WorkerStep, TypeOK, WorkTypeOK
<1>3. \A j \in Res : Behind(u, j) => Behind(u, j)'
  BY DEF Behind
<1>4. Behind(u, n)'
  BY <1>1, <1>2 DEF Orderly, Behind
<1>5. \A j \in 1 .. n - 1 : Behind(u, j)
  BY <1>1, <1>2 DEF Orderly, InLoop
<1>6. \A j \in 1 .. n : Behind(u, j)'
  BY <1>0, <1>1, <1>3, <1>4, <1>5
<1>7. \A j \in 1 .. idx'[Inst][u] - 1 : Behind(u, j)'
  BY <1>0, <1>1, <1>2, <1>6
<1>8. 1 \in installed'[u]
  BY <1>0, <1>1, <1>6 DEF Behind
<1>9. \A i \in installed[u] : 1 .. i - 1 \subseteq Res
  BY <1>0, <1>1 DEF TypeOK, ClusterTypeOK
<1>10. \A i \in installed'[u] : \A j \in 1 .. i - 1 : Behind(u, j)'
  BY <1>3, <1>9 DEF Orderly
<1> QED
  BY <1>2, <1>7, <1>8, <1>10 DEF Orderly

\* A worker of the install run whose call went to the cluster.
LEMMA OrderlyCalls ==
    ASSUME TypeOK, NEW u \in Units, Orderly(u), InstantiateResource(u)
    PROVE  Orderly(u)'
<1> DEFINE n == idx[Inst][u]
<1>1. n \in Res /\ NRes \in Nat /\ Inst \in Runs
  BY RsyncAssumption DEF TypeOK, WorkTypeOK
<1>2. /\ worker[Inst][u] = "f" /\ idx' = idx
      /\ worker'[Inst][u] \in {"ok", "bad", "isReachable"}
      /\ UNCHANGED <<approved, tracker>> /\ (dbErrs' = 0 => dbErrs = 0)
      /\ installed'[u] \in {installed[u], installed[u] \cup {n}}
      /\ worker'[Inst][u] = "ok" => n \in installed'[u]
  BY <1>1 DEF InstantiateResource, CallCluster, WorkerStep, TypeOK, WorkTypeOK, ClusterTypeOK
<1>3. \A j \in 1 .. n - 1 : Behind(u, j)
  BY <1>2 DEF Orderly, InLoop
<1>4. \A j \in Res : Behind(u, j) => Behind(u, j)'
  BY <1>2 DEF Behind
<1> HIDE DEF n
<1>5. \A j \in 1 .. n - 1 : Behind(u, j)'
  BY <1>1, <1>3, <1>4
<1>6. \A i \in installed[u] : 1 .. i - 1 \subseteq Res
  BY <1>1 DEF TypeOK, ClusterTypeOK
<1>7. \A i \in installed'[u] : \A j \in 1 .. i - 1 : Behind(u, j)'
  BY <1>2, <1>4, <1>5, <1>6 DEF Orderly
<1> QED
  BY <1>2, <1>5, <1>7 DEF Orderly, n

LEMMA OrderStep ==
    ASSUME TypeOK, WorkersInGWait, OrderInv, [Next]_vars
    PROVE  OrderInv'
<1> SUFFICES ASSUME BeforeTerminate', NEW u \in Units
             PROVE  Orderly(u)'
  BY DEF OrderInv
<1>1. BeforeTerminate
  BY WaitIsFirst DEF BeforeTerminate
<1>2. Orderly(u)
  BY <1>1 DEF OrderInv
<1>3. ASSUME NEW t \in Terms, NEW v \in Units
      PROVE  ~ Running(t, v)
  BY <1>1 DEF BeforeTerminate, WorkersInGWait
<1> USE RsyncAssumption DEF TypeOK, WorkTypeOK
<1>4. CASE UNCHANGED <<installed, approved, tracker, worker, idx>> /\ (DbOk \/ DbFails)
  BY <1>2, <1>4, OrderlyStays
<1>5. ASSUME NEW r \in Runs, NEW v \in Units, WorkerNext(r, v), r # Inst \/ v # u,
             ~ Panic(r, v)
      PROVE  Orderly(u)'
  <2>1. \E from \in WorkerPC \ {"off", "exit"}, to \in WorkerPC : WorkerStep(r, v, from, to)
    BY <1>5, WorkerLocal DEF Local, AddChan, DeleteChan, WorkerPC
  <2>2. r = Inst
    BY <1>3, <2>1 DEF WorkerStep, Running
  <2>3. v # u
    BY <1>5, <2>2
  <2>4. /\ worker'[Inst][u] = worker[Inst][u] /\ idx'[Inst][u] = idx[Inst][u]
        /\ installed'[u] = installed[u] /\ approved'[u] = approved[u]
        /\ u \in tracker' <=> u \in tracker
        /\ dbErrs' = 0 => dbErrs = 0
    BY <1>5, <2>2, <2>3 DEF WorkerNext, GetClient, AllDone, AddChan, SelectReach, SelectTimeout,
       Stopped, DeleteChan, StatusOk, StatusBad, WriteStatus, AfterError, StatusTracker,
       InstantiateResource, CallCluster, Approve, ToNextRes, WorkerStep, ClusterTypeOK
  <2> QED
    BY <1>2, <2>4 DEF Orderly, Behind
<1>6. ASSUME WorkerNext(Inst, u), ~ Panic(Inst, u)
      PROVE  Orderly(u)'
  <2> Inst \in Runs
    OBVIOUS
  <2>1. CASE GetClient(Inst, u)
    <3>1. /\ worker'[Inst][u] \notin InLoop
          /\ UNCHANGED <<installed, approved, tracker>> /\ (dbErrs' = 0 => dbErrs = 0)
      BY <2>1 DEF GetClient, WorkerStep, InLoop
    <3> QED
      BY <1>2, <3>1, OrderlyStays
  <2>2. CASE AllDone(Inst, u)
    <3>1. /\ worker'[Inst][u] \notin InLoop
          /\ UNCHANGED <<installed, approved, tracker>> /\ (dbErrs' = 0 => dbErrs = 0)
      BY <2>2 DEF AllDone, WorkerStep, InLoop
    <3> QED
      BY <1>2, <3>1, OrderlyStays
  <2>3. CASE AddChan(Inst, u)
    BY <1>2, <2>3, OrderlyStays DEF AddChan, WorkerStep, InLoop
  <2>4. CASE SelectReach(Inst, u)
    BY <1>2, <2>4, OrderlyStays DEF SelectReach, WorkerStep, InLoop
  <2>5. CASE SelectTimeout(Inst, u)
    <3>1. /\ worker'[Inst][u] \notin InLoop
          /\ UNCHANGED <<installed, approved, tracker>> /\ (dbErrs' = 0 => dbErrs = 0)
      BY <2>5 DEF SelectTimeout, WorkerStep, InLoop
    <3> QED
      BY <1>2, <3>1, OrderlyStays
  <2>6. CASE Stopped(Inst, u)
    BY <1>2, <2>6, OrderlyStays DEF Stopped, WorkerStep, InLoop
  <2>7. CASE DeleteChan(Inst, u)
    <3>1. /\ worker'[Inst][u] \in {"f", "exit"} /\ idx'[Inst][u] = 1
          /\ UNCHANGED <<installed, approved, tracker, dbErrs>>
      BY <2>7 DEF DeleteChan, WorkerStep
    <3> QED
      BY <1>2, <3>1, OrderlyStays DEF InLoop
  <2>8. CASE StatusOk(Inst, u)
    <3>1. CASE idx[Inst][u] \in Approval
      <4>1. /\ worker[Inst][u] = "ok" /\ worker'[Inst][u] = "approve"
            /\ UNCHANGED <<installed, approved, tracker, idx>> /\ (dbErrs' = 0 => dbErrs = 0)
        BY <2>8, <3>1 DEF StatusOk, WorkerStep, WriteStatus
      <4> QED
        BY <1>2, <4>1 DEF Orderly, Behind, InLoop
    <3>2. CASE idx[Inst][u] \notin Approval
      <4>1. /\ ToNextRes(Inst, u, "ok")
            /\ UNCHANGED <<installed, approved, tracker>> /\ (dbErrs' = 0 => dbErrs = 0)
        BY <2>8, <3>2 DEF StatusOk, WriteStatus
      <4> QED
        BY <1>2, <3>2, <4>1, OrderlyGoesOn
    <3> QED
      BY <3>1, <3>2
  <2>9. CASE StatusBad(Inst, u)
    BY <1>2, <2>9, OrderlyStays DEF StatusBad, WriteStatus, WorkerStep, InLoop
  <2>10. CASE InstantiateResource(u)
    BY <1>2, <2>10, OrderlyCalls
  <2>11. CASE Approve(u)
    <3>1. CASE UNCHANGED <<approved, idx>> /\ WorkerStep(Inst, u, "approve", "isReachable")
      BY <1>2, <2>11, <3>1, OrderlyStays DEF Approve, WorkerStep, InLoop
    <3>2. CASE ToNextRes(Inst, u, "approve") /\ DbFails /\ UNCHANGED approved
      BY <1>2, <2>11, <3>2, OrderlyGoesOn DEF Approve
    <3>3. CASE /\ ToNextRes(Inst, u, "approve") /\ DbOk
               /\ approved' = [approved EXCEPT ![u] = @ \cup {idx[Inst][u]}]
      <4>1. approved'[u] = approved[u] \cup {idx[Inst][u]} /\ UNCHANGED <<installed, tracker>>
        BY <2>11, <3>3 DEF Approve, ClusterTypeOK
      <4> QED
        BY <1>2, <3>3, <4>1, OrderlyGoesOn
    <3> QED
      BY <2>11, <3>1, <3>2, <3>3 DEF Approve
  <2>12. CASE AfterError(Inst, u)
    <3>1. /\ worker[Inst][u] = "isReachable" /\ worker'[Inst][u] \in {"allDone", "sfn", "exit"}
          /\ worker'[Inst][u] = "sfn" => idx[Inst][u] > 1
          /\ UNCHANGED <<installed, approved, tracker, dbErrs, idx>>
      BY <2>12 DEF AfterError, WorkerStep
    <3>2. worker'[Inst][u] = "sfn" => 1 \in installed[u]
      <4>1. worker'[Inst][u] = "sfn" => 1 \in 1 .. idx[Inst][u] - 1
        BY <3>1
      <4> QED
        BY <1>2, <3>1, <4>1 DEF Orderly, Behind, InLoop
    <3> QED
      BY <1>2, <3>1, <3>2 DEF Orderly, Behind, InLoop
  <2>13. CASE StatusTracker(Inst, u)
    <3>1. /\ worker[Inst][u] = "sfn" /\ worker'[Inst][u] = "exit"
          /\ UNCHANGED <<installed, approved, dbErrs>>
      BY <2>13 DEF StatusTracker, WorkerStep
    <3> QED
      BY <1>2, <3>1 DEF Orderly, Behind, InLoop
  <2> QED
    BY <1>6, <2>1, <2>2, <2>3, <2>4, <2>5, <2>6, <2>7, <2>8, <2>9, <2>10, <2>11, <2>12,
       <2>13 DEF WorkerNext
<1>7. CASE ProcessDies
  BY <1>2, <1>7, OrderlyStays DEF ProcessDies, InLoop
<1>8. ASSUME NEW r \in Runs, MainNext(r)
      PROVE  Orderly(u)'
  <2>1. CASE Kickoff(r)
    <3>1. /\ worker'[Inst][u] = worker[Inst][u] \/ worker'[Inst][u] = "getClient"
      <4>1. CASE UNCHANGED worker
        BY <4>1
      <4>2. CASE worker' = [worker EXCEPT ![r] = [v \in Units |-> "getClient"]]
        BY <4>2
      <4> QED
        BY <2>1, <4>1, <4>2 DEF Kickoff
    <3>2. UNCHANGED <<installed, approved, tracker, idx>> /\ (dbErrs' = 0 => dbErrs = 0)
      BY <2>1 DEF Kickoff
    <3> QED
      BY <1>2, <3>1, <3>2, OrderlyStays DEF InLoop
  <2> QED
    BY <1>4, <1>8, <2>1 DEF MainNext, InitStatus, InitRes, GWait, WgWait, Cleanup
<1>9. ASSUME NEW r \in Runs, WatcherNext(r)
      PROVE  Orderly(u)'
  <2>1. ASSUME NEW v \in Units, WatcherSend(r, v)
        PROVE  Orderly(u)'
    BY <1>2, <2>1, OrderlyStays DEF WatcherSend, InLoop
  <2> QED
    BY <1>4, <1>9, <2>1 DEF WatcherNext, WatcherPoll, WatcherFlag, WatcherUnlock
<1>10. ASSUME NEW t \in Terms, UninstallApp(t) \/ WaitForDone(t) \/ ClearFlag(t)
       PROVE  Orderly(u)'
  BY <1>4, <1>10 DEF UninstallApp, WaitForDone, ClearFlag
<1>11. ASSUME NEW r \in Runs, NEW v \in Units, CheckReachable(r, v)
       PROVE  Orderly(u)'
  BY <1>4, <1>11 DEF CheckReachable
<1>12. ASSUME NEW c \in Clusters, Flip(c)
       PROVE  Orderly(u)'
  BY <1>4, <1>12 DEF Flip
<1>13. CASE InstallApp
  BY <1>4, <1>13 DEF InstallApp
<1> QED
  BY <1>4, <1>5, <1>6, <1>7, <1>8, <1>9, <1>10, <1>11, <1>12, <1>13 DEF Next, Crash, Panic

LEMMA OrderAlways == Spec => []OrderInv
<1>1. Init => TypeOK /\ WorkersInGWait /\ OrderInv
  BY TypeInit DEF Init, WorkersInGWait, Running, OrderInv, Orderly, InLoop
<1>2. TypeOK /\ WorkersInGWait /\ OrderInv /\ [Next]_vars
        => (TypeOK /\ WorkersInGWait /\ OrderInv)'
  BY TypeStep, WorkersInGWaitStep, OrderStep
<1> QED
  BY <1>1, <1>2, PTL DEF Spec

\* The resources of a unit appear in their order, each after the approvals of
\* those before, whatever is retried, times out, is answered late or not at all.
THEOREM InOrderCorrect == Spec => []InOrder
<1>1. OrderInv => InOrder
  BY DEF OrderInv, Orderly, Behind, InOrder
<1> QED
  BY <1>1, OrderAlways, PTL

\* A unit has a status tracker only if its first resource exists.
THEOREM TrackerMeansInstalledCorrect == Spec => []TrackerMeansInstalled
<1>1. TypeOK => tracker \subseteq Units
  BY DEF TypeOK, ClusterTypeOK
<1>2. OrderInv /\ TypeOK => TrackerMeansInstalled
  BY <1>1 DEF OrderInv, Orderly, TrackerMeansInstalled
<1> QED
  BY <1>2, OrderAlways, TypeCorrect, PTL

-----------------------------------------------------------------------------
(* The statuses of the resources.                                          *)

\* Terminate run t has reset the statuses of u, and may delete its resources.
Reset(t, u) ==
    \/ main[t] \in {"kickoff", "gWait"}
    \/ main[t] = "initRes" /\ u \notin todo[t]

\* While the database works, an Applied resource exists, and so does the one whose
\* status the install run is about to write; and none is Applied in a unit that a
\* terminate run is deleting.
AppliedInv ==
    dbErrs = 0 =>
        \A u \in Units :
            /\ \A i \in Res : resStatus[u][i] = "Applied" => i \in installed[u]
            /\ worker[Inst][u] = "ok" => idx[Inst][u] \in installed[u]
            /\ \A t \in Terms : Reset(t, u) => \A i \in Res : resStatus[u][i] # "Applied"

\* A step that marks nothing Applied, deletes nothing, and brings no worker to a
\* status and no terminate run to its deletions.
LEMMA AppliedStays ==
    ASSUME TypeOK, AppliedInv, dbErrs' = 0 => dbErrs = 0,
           \A u \in Units : installed[u] \subseteq installed'[u],
           \A u \in Units, i \in Res : resStatus'[u][i] = "Applied" => resStatus[u][i] = "Applied",
           \A u \in Units : worker'[Inst][u] = "ok" =>
               idx'[Inst][u] \in installed'[u] \/ (worker[Inst][u] = "ok" /\ idx'[Inst][u] = idx[Inst][u]),
           \A t \in Terms, u \in Units : Reset(t, u)' => Reset(t, u)
    PROVE  AppliedInv'
<1> SUFFICES ASSUME dbErrs' = 0, NEW u \in Units
             PROVE  /\ \A i \in Res : resStatus'[u][i] = "Applied" => i \in installed'[u]
                    /\ worker'[Inst][u] = "ok" => idx'[Inst][u] \in installed'[u]
                    /\ \A t \in Terms : Reset(t, u)' => \A i \in Res : resStatus'[u][i] # "Applied"
  BY DEF AppliedInv
<1> QED
  BY DEF AppliedInv

\* The new statuses of updateResourceStatus are no Applied ones.
LEMMA UpdateApplied ==
    ASSUME TypeOK, NEW u \in Units, NEW s \in {"Retrying", "Failed"}, NEW n, Update(u, s, n)
    PROVE  \A v \in Units, i \in Res : resStatus'[v][i] = "Applied" => resStatus[v][i] = "Applied"
BY DEF Update, TypeOK, EtcdTypeOK

LEMMA AppliedStep ==
    ASSUME "initStatus" \notin UninstallWhen,
           TypeOK, WorkersInGWait, WaitRespected, AppliedInv, [Next]_vars
    PROVE  AppliedInv'
<1> USE RsyncAssumption
<1> Inst \in Runs /\ Terms \subseteq Runs /\ \A t \in Terms : t # Inst
  OBVIOUS
<1>0. dbErrs \in Nat /\ (DbFails => dbErrs' # 0)
  BY DEF TypeOK
<1>1. CASE DbFails
  BY <1>0, <1>1 DEF AppliedInv
<1>2. CASE UNCHANGED <<installed, resStatus, worker, idx, main, todo>> /\ DbOk
  BY <1>2, AppliedStays DEF Reset
<1>3. ASSUME NEW t \in Terms, NEW u \in Units, dbErrs = 0, Reset(t, u)
      PROVE  \A v \in Units : ~ Running(Inst, v)
  BY <1>3 DEF Reset, WaitRespected, PastWait, InstQuiet, WorkersInGWait
<1>4. CASE InstallApp
  <2>1. \A t \in Terms, u \in Units : Reset(t, u)' => Reset(t, u)
    BY <1>4 DEF InstallApp, Reset, TypeOK, MainTypeOK
  <2> QED
    BY <1>1, <1>4, <2>1, AppliedStays DEF InstallApp
<1>5. ASSUME NEW t \in Terms, UninstallApp(t) \/ WaitForDone(t) \/ ClearFlag(t)
      PROVE  AppliedInv'
  <2>1. \A s \in Terms, u \in Units : Reset(s, u)' => Reset(s, u)
    BY <1>5 DEF UninstallApp, WaitForDone, ClearFlag, Reset, TypeOK, MainTypeOK
  <2>2. UNCHANGED <<installed, resStatus, worker, idx>>
    BY <1>5 DEF UninstallApp, WaitForDone, ClearFlag
  <2>3. DbOk \/ DbFails
    BY <1>5 DEF UninstallApp, WaitForDone, ClearFlag
  <2> QED
    BY <1>1, <2>1, <2>2, <2>3, AppliedStays
<1>6. ASSUME NEW r \in Runs, NEW u \in Units, InitRes(r, u), DbOk
      PROVE  AppliedInv'
  <2>1. \A v \in Units, i \in Res :
          /\ resStatus'[v][i] = "Applied" => resStatus[v][i] = "Applied" /\ v # u
    BY <1>0, <1>6 DEF InitRes, InitialStatus, TypeOK, EtcdTypeOK
  <2>2. \A t \in Terms, v \in Units : Reset(t, v)' => Reset(t, v) \/ v = u
    BY <1>0, <1>6 DEF InitRes, Reset, TypeOK, MainTypeOK
  <2>3. UNCHANGED <<installed, worker, idx, dbErrs>>
    BY <1>6 DEF InitRes
  <2> QED
    BY <2>1, <2>2, <2>3 DEF AppliedInv
<1>7. ASSUME NEW r \in Runs, MainNext(r)
      PROVE  AppliedInv'
  <2>1. CASE InitStatus(r)
    <3>1. CASE DbOk
      <4>1. main'[r] = "initRes" /\ todo'[r] = Units
            /\ \A t \in Terms : t # r => main'[t] = main[t] /\ todo'[t] = todo[t]
        BY <1>0, <2>1, <3>1 DEF InitStatus, TypeOK, MainTypeOK
      <4>2. \A t \in Terms, u \in Units : Reset(t, u)' => Reset(t, u)
        BY <4>1 DEF Reset
      <4>3. UNCHANGED <<installed, resStatus, worker, idx>>
        BY <2>1 DEF InitStatus
      <4> QED
        BY <3>1, <4>2, <4>3, AppliedStays
    <3> QED
      BY <1>1, <2>1, <3>1 DEF InitStatus
  <2>2. ASSUME NEW u \in Units, InitRes(r, u)
        PROVE  AppliedInv'
    BY <1>1, <1>6, <2>2 DEF InitRes
  <2>3. CASE Kickoff(r)
    <3>1. CASE DbOk
      <4>1. worker' = [worker EXCEPT ![r] = [v \in Units |-> "getClient"]]
            /\ main[r] = "kickoff" /\ main' = [main EXCEPT ![r] = "gWait"]
            /\ UNCHANGED <<installed, resStatus, idx, todo>>
        BY <1>0, <2>3, <3>1 DEF Kickoff
      <4>2. \A u \in Units : worker'[Inst][u] = "ok" => worker[Inst][u] = "ok"
        BY <4>1 DEF TypeOK, WorkTypeOK
      <4>3. \A t \in Terms, u \in Units : Reset(t, u)' => Reset(t, u)
        BY <4>1 DEF Reset, TypeOK, MainTypeOK
      <4> QED
        BY <3>1, <4>1, <4>2, <4>3, AppliedStays
    <3> QED
      BY <1>1, <2>3, <3>1 DEF Kickoff
  <2>4. CASE GWait(r) \/ WgWait(r) \/ Cleanup(r)
    <3>1. \A t \in Terms, u \in Units : Reset(t, u)' => Reset(t, u)
      BY <2>4 DEF GWait, WgWait, Cleanup, Reset, TypeOK, MainTypeOK
    <3>2. UNCHANGED <<installed, resStatus, worker, idx>> /\ (DbOk \/ DbFails)
      BY <2>4 DEF GWait, WgWait, Cleanup
    <3> QED
      BY <1>1, <3>1, <3>2, AppliedStays
  <2> QED
    BY <1>7, <2>1, <2>2, <2>3, <2>4 DEF MainNext
<1>8. CASE ProcessDies
  <2>1. \A t \in Terms, u \in Units : Reset(t, u)' => Reset(t, u)
    BY <1>8 DEF ProcessDies, Reset
  <2>2. \A u \in Units : worker'[Inst][u] # "ok"
    BY <1>8 DEF ProcessDies
  <2>3. UNCHANGED <<installed, resStatus, dbErrs>>
    BY <1>8 DEF ProcessDies
  <2> QED
    BY <2>1, <2>2, <2>3, AppliedStays
<1>9. ASSUME NEW r \in Runs, NEW u \in Units, StatusOk(r, u), DbOk
      PROVE  AppliedInv'
  <2>1. /\ worker[r][u] = "ok" /\ worker'[r][u] # "ok"
        /\ \A q \in Runs, v \in Units : q # r \/ v # u =>
              worker'[q][v] = worker[q][v] /\ idx'[q][v] = idx[q][v]
        /\ UNCHANGED <<installed, main, todo>>
    BY <1>9 DEF StatusOk, ToNextRes, WorkerStep, TypeOK, WorkTypeOK
  <2>2. \A v \in Units : worker'[Inst][v] = "ok" =>
            worker[Inst][v] = "ok" /\ idx'[Inst][v] = idx[Inst][v]
    BY <2>1
  <2>3. \A t \in Terms, v \in Units : Reset(t, v)' <=> Reset(t, v)
    BY <2>1 DEF Reset
  <2>4. idx[r][u] \in Res
    BY DEF TypeOK, WorkTypeOK
  <2>5. CASE r = Inst
    <3>1. resStatus' = [resStatus EXCEPT ![u][idx[r][u]] = "Applied"]
      BY <1>0, <1>9, <2>5 DEF StatusOk, WriteStatus
    <3>2. \A v \in Units, i \in Res :
            resStatus'[v][i] = "Applied" => resStatus[v][i] = "Applied" \/ (v = u /\ i = idx[r][u])
      BY <2>4, <3>1 DEF TypeOK, EtcdTypeOK
    <3>3. dbErrs = 0 => idx[r][u] \in installed[u] /\ \A t \in Terms, v \in Units : ~ Reset(t, v)
      BY <1>3, <2>1, <2>5 DEF AppliedInv, Running
    <3> QED
      BY <1>9, <2>1, <2>2, <2>3, <3>2, <3>3 DEF AppliedInv
  <2>6. CASE r # Inst
    <3>1. resStatus' = [resStatus EXCEPT ![u][idx[r][u]] = "Deleted"]
      BY <1>0, <1>9, <2>6 DEF StatusOk, WriteStatus
    <3>2. \A v \in Units, i \in Res :
            resStatus'[v][i] = "Applied" => resStatus[v][i] = "Applied"
      BY <2>4, <3>1 DEF TypeOK, EtcdTypeOK
    <3> QED
      BY <1>9, <2>1, <2>2, <2>3, <3>2, AppliedStays
  <2> QED
    BY <2>5, <2>6
<1>10. ASSUME NEW t \in Terms, NEW u \in Units, TerminateResource(t, u)
       PROVE  AppliedInv'
  <2>1. /\ worker[t][u] = "f"
        /\ \A v \in Units : worker'[Inst][v] = worker[Inst][v]
        /\ \A v \in Units : v # u => installed'[v] = installed[v]
        /\ UNCHANGED <<resStatus, idx, main, todo>>
    BY <1>10 DEF TerminateResource, CallCluster, WorkerStep, TypeOK, WorkTypeOK, ClusterTypeOK
  <2>2. Reset(t, u)
    <3>1. t \in Runs /\ Running(t, u)
      BY <2>1 DEF Running
    <3>2. main[t] = "gWait"
      BY <3>1 DEF WorkersInGWait
    <3> QED
      BY <3>2 DEF Reset
  <2>3. dbErrs = 0 => \A v \in Units : worker[Inst][v] # "ok"
    BY <1>3, <2>2 DEF Running
  <2>4. DbOk \/ DbFails
    BY <1>10 DEF TerminateResource, CallCluster
  <2>5. \A s \in Terms, v \in Units : Reset(s, v)' <=> Reset(s, v)
    BY <2>1 DEF Reset
  <2> QED
    BY <1>1, <2>1, <2>2, <2>3, <2>4, <2>5 DEF AppliedInv
<1>11. ASSUME NEW u \in Units, InstantiateResource(u), DbOk
       PROVE  AppliedInv'
  <2>1. /\ \A v \in Units : installed[v] \subseteq installed'[v]
        /\ worker'[Inst][u] = "ok" => idx[Inst][u] \in installed'[u]
        /\ \A v \in Units : v # u => worker'[Inst][v] = worker[Inst][v]
        /\ UNCHANGED <<resStatus, idx, main, todo>>
    <3>1. UNCHANGED <<resStatus, idx, main, todo>>
      BY <1>11 DEF InstantiateResource, CallCluster
    <3>2. \/ /\ WorkerStep(Inst, u, "f", "ok")
             /\ installed' = [installed EXCEPT ![u] = @ \cup {idx[Inst][u]}]
          \/ /\ WorkerStep(Inst, u, "f", "bad") \/ WorkerStep(Inst, u, "f", "isReachable")
             /\ \/ UNCHANGED installed
                \/ installed' = [installed EXCEPT ![u] = @ \cup {idx[Inst][u]}]
      BY <1>0, <1>11 DEF InstantiateResource, CallCluster, TypeOK, ClusterTypeOK
    <3>3. \A v \in Units : installed[v] \subseteq installed'[v]
      BY <3>2 DEF TypeOK, ClusterTypeOK
    <3>4. worker'[Inst][u] = "ok" => idx[Inst][u] \in installed'[u]
      BY <3>2 DEF WorkerStep, TypeOK, WorkTypeOK, ClusterTypeOK
    <3>5. \A v \in Units : v # u => worker'[Inst][v] = worker[Inst][v]
      BY <3>2 DEF WorkerStep, TypeOK, WorkTypeOK
    <3> QED
      BY <3>1, <3>3, <3>4, <3>5
  <2>2. \A s \in Terms, v \in Units : Reset(s, v)' <=> Reset(s, v)
    BY <2>1 DEF Reset
  <2>3. \A v \in Units : worker'[Inst][v] = "ok" =>
            idx'[Inst][v] \in installed'[v] \/ (worker[Inst][v] = "ok" /\ idx'[Inst][v] = idx[Inst][v])
    BY <2>1
  <2> QED
    BY <1>11, <2>1, <2>2, <2>3, AppliedStays
<1>12. ASSUME NEW r \in Runs, NEW u \in Units,
              \/ GetClient(r, u) \/ AllDone(r, u) \/ AddChan(r, u) \/ SelectReach(r, u)
              \/ SelectTimeout(r, u) \/ Stopped(r, u) \/ DeleteChan(r, u)
              \/ StatusBad(r, u) \/ AfterError(r, u) \/ StatusTracker(r, u)
              \/ r = Inst /\ Approve(u),
              DbOk
       PROVE  AppliedInv'
  <2>1. /\ UNCHANGED <<installed, main, todo>>
        /\ worker'[r][u] # "ok"
        /\ \A q \in Runs, v \in Units : q # r \/ v # u =>
              worker'[q][v] = worker[q][v] /\ idx'[q][v] = idx[q][v]
    <3>1. UNCHANGED <<installed, main, todo>>
      BY <1>12 DEF GetClient, AllDone, AddChan, SelectReach, SelectTimeout, Stopped,
         DeleteChan, StatusBad, AfterError, StatusTracker, Approve
    <3>2. \E from \in WorkerPC, to \in WorkerPC \ {"ok"} : WorkerStep(r, u, from, to)
      BY <1>12 DEF GetClient, AllDone, AddChan, SelectReach, SelectTimeout, Stopped,
         DeleteChan, StatusBad, AfterError, StatusTracker, Approve, ToNextRes, WorkerPC
    <3>3. \E i : idx' = [idx EXCEPT ![r][u] = i]
      <4>1. CASE UNCHANGED idx
        <5>1. idx' = [idx EXCEPT ![r][u] = idx[r][u]]
          BY <4>1 DEF TypeOK, WorkTypeOK
        <5> QED
          BY <5>1
      <4>2. CASE DeleteChan(r, u)
        BY <4>2 DEF DeleteChan
      <4>3. CASE AfterError(r, u) \/ (r = Inst /\ Approve(u))
        BY <4>1, <4>3 DEF AfterError, Approve, ToNextRes
      <4> QED
        BY <1>12, <4>1, <4>2, <4>3 DEF GetClient, AllDone, AddChan, SelectReach, SelectTimeout,
           Stopped, StatusBad, StatusTracker
    <3> QED
      BY <3>1, <3>2, <3>3 DEF WorkerStep, TypeOK, WorkTypeOK
  <2>2. \A v \in Units : worker'[Inst][v] = "ok" =>
            worker[Inst][v] = "ok" /\ idx'[Inst][v] = idx[Inst][v]
    BY <2>1
  <2>3. \A t \in Terms, v \in Units : Reset(t, v)' <=> Reset(t, v)
    BY <2>1 DEF Reset
  <2>4. idx[r][u] \in Res
    BY DEF TypeOK, WorkTypeOK
  <2>5. \A v \in Units, i \in Res :
          resStatus'[v][i] = "Applied" => resStatus[v][i] = "Applied"
    <3>1. CASE UNCHANGED resStatus
      BY <3>1
    <3>2. CASE SelectTimeout(r, u) \/ Stopped(r, u)
      BY <3>1, <3>2, UpdateApplied DEF SelectTimeout, Stopped
    <3>3. CASE StatusBad(r, u)
      <4>1. resStatus' = [resStatus EXCEPT ![u][idx[r][u]] = "Failed"]
        BY <1>0, <1>12, <3>3 DEF StatusBad, WriteStatus
      <4> QED
        BY <2>4, <4>1 DEF TypeOK, EtcdTypeOK
    <3> QED
      BY <1>12, <3>1, <3>2, <3>3 DEF GetClient, AllDone, AddChan, SelectReach, DeleteChan,
         AfterError, StatusTracker, Approve
  <2> QED
    BY <1>12, <2>1, <2>2, <2>3, <2>5, AppliedStays
<1>13. ASSUME NEW r \in Runs, NEW u \in Units, WorkerNext(r, u)
       PROVE  AppliedInv'
  <2>1. DbOk \/ DbFails \/ Panic(r, u)
    BY <1>13, WorkerLocal DEF Local, AddChan, DeleteChan
  <2> QED
    BY <1>1, <1>8, <1>9, <1>10, <1>11, <1>12, <1>13, <2>1 DEF WorkerNext, Panic
<1>14. ASSUME NEW r \in Runs, WatcherNext(r)
       PROVE  AppliedInv'
  <2>1. ASSUME NEW u \in Units, WatcherSend(r, u)
        PROVE  AppliedInv'
    <3>1. \A v \in Units : worker'[Inst][v] = "ok" => worker[Inst][v] = "ok"
      BY <2>1 DEF WatcherSend, TypeOK, WorkTypeOK
    <3>2. UNCHANGED <<installed, resStatus, idx, main, todo, dbErrs>>
      BY <2>1 DEF WatcherSend
    <3> QED
      BY <3>1, <3>2, AppliedStays DEF Reset
  <2>2. CASE WatcherPoll(r) \/ WatcherFlag(r) \/ WatcherUnlock(r)
    <3>1. UNCHANGED <<installed, resStatus, worker, idx, main, todo>> /\ (DbOk \/ DbFails)
      BY <2>2 DEF WatcherPoll, WatcherFlag, WatcherUnlock
    <3> QED
      BY <1>1, <1>2, <3>1
  <2> QED
    BY <1>14, <2>1, <2>2 DEF WatcherNext
<1>15. ASSUME NEW r \in Runs, NEW u \in Units, CheckReachable(r, u)
       PROVE  AppliedInv'
  BY <1>2, <1>15 DEF CheckReachable
<1>16. ASSUME NEW c \in Clusters, Flip(c)
       PROVE  AppliedInv'
  BY <1>2, <1>16 DEF Flip
<1>17. CASE UNCHANGED vars
  BY <1>2, <1>17
<1> QED
  BY <1>4, <1>5, <1>7, <1>8, <1>13, <1>14, <1>15, <1>16, <1>17 DEF Next, Crash

\* An Applied resource exists, as long as the database works and UninstallApp does
\* not come before the install run has written its status: no terminate run deletes
\* what the install run is about to report, and none deletes before it has reset the
\* statuses.
THEOREM AppliedMeansInstalledCorrect ==
    ASSUME "initStatus" \notin UninstallWhen
    PROVE  Spec => []AppliedMeansInstalled
<1> DEFINE IInv == TypeOK /\ WorkersInGWait /\ WaitRespected /\ AppliedInv
<1>1. Init => IInv
  <2>1. Init => TypeOK /\ WorkersInGWait /\ WaitRespected
    BY TypeInit, RsyncAssumption DEF Init, WorkersInGWait, Running, WaitRespected,
       InstDone, PastWait
  <2>2. Init => AppliedInv
    BY RsyncAssumption DEF Init, AppliedInv, Reset
  <2> QED
    BY <2>1, <2>2
<1>2. IInv /\ [Next]_vars => IInv'
  BY TypeStep, WorkersInGWaitStep, WaitRespectedStep, AppliedStep
<1>3. IInv => AppliedMeansInstalled
  BY DEF AppliedInv, AppliedMeansInstalled
<1> QED
  BY <1>1, <1>2, <1>3, PTL DEF Spec

-----------------------------------------------------------------------------
(* The runs implement AppContext.                                          *)

\* The status tells where the runs are: none before the install run has begun,
\* Instantiating and Terminating while one of them has work to do, and an ended
\* one (or none) when a terminate run has waited.
PhaseInv ==
    /\ main[Inst] \notin {"waitForDone", "clearFlag"}
    /\ main[Inst] \in {"idle", "initStatus"} =>
         acStatus = None /\ \A t \in Terms : main[t] = "idle"
    /\ main[Inst] \in {"initRes", "kickoff", "gWait"} => acStatus = "Instantiating"
    /\ \A t \in Terms :
        /\ main[t] \notin {"idle", "waitForDone"} => InstQuiet
        /\ main[t] \in {"clearFlag", "initStatus"} => acStatus \in {None} \cup InstDone
        /\ main[t] \in {"initRes", "kickoff", "gWait"} => acStatus = "Terminating"

\* PhaseInv holds where the database works, one terminate run comes at most, and
\* not before the install run has written its status.
OneTermination ==
    /\ "initStatus" \notin UninstallWhen
    /\ MaxDbErrs = 0
    /\ \A s, t \in Terms : s = t

LEMMA PhaseStep ==
    ASSUME OneTermination, TypeOK, PhaseInv, [Next]_vars
    PROVE  PhaseInv'
<1> USE RsyncAssumption DEF TypeOK, EtcdTypeOK, MainTypeOK, OneTermination
<1>1. ~ DbFails
  OBVIOUS
<1>2. CASE UNCHANGED <<acStatus, main>>
  BY <1>2 DEF PhaseInv, InstQuiet
<1> USE DEF PhaseInv, InstQuiet, InstDone
<1>3. CASE InstallApp
  BY <1>1, <1>3 DEF InstallApp
<1>4. ASSUME NEW t \in Terms, UninstallApp(t)
      PROVE  PhaseInv'
  BY <1>1, <1>4 DEF UninstallApp
<1>5. ASSUME NEW t \in Terms, WaitForDone(t)
      PROVE  PhaseInv'
  BY <1>1, <1>5 DEF WaitForDone, WaitIsOver, MainPC
<1>6. ASSUME NEW t \in Terms, ClearFlag(t)
      PROVE  PhaseInv'
  BY <1>1, <1>6 DEF ClearFlag
<1>7. ASSUME NEW r \in Runs, MainNext(r)
      PROVE  PhaseInv'
  <2>1. CASE InitStatus(r)
    BY <1>1, <2>1 DEF InitStatus, Kind
  <2>2. ASSUME NEW u \in Units, InitRes(r, u)
        PROVE  PhaseInv'
    BY <1>1, <2>2 DEF InitRes
  <2>3. CASE Kickoff(r)
    BY <1>1, <2>3 DEF Kickoff
  <2>4. CASE GWait(r)
    BY <1>1, <2>4 DEF GWait, EndingStatus
  <2>5. CASE WgWait(r)
    BY <2>5 DEF WgWait
  <2>6. CASE Cleanup(r)
    BY <2>6 DEF Cleanup
  <2> QED
    BY <1>7, <2>1, <2>2, <2>3, <2>4, <2>5, <2>6 DEF MainNext
<1>8. CASE ProcessDies
  BY <1>8 DEF ProcessDies
<1>9. ASSUME NEW r \in Runs, NEW u \in Units, WorkerNext(r, u)
      PROVE  PhaseInv'
  BY <1>2, <1>8, <1>9, WorkerLocal DEF Local, AddChan, DeleteChan, Panic
<1>10. ASSUME NEW r \in Runs, WatcherNext(r)
       PROVE  PhaseInv'
  BY <1>2, <1>10 DEF WatcherNext, WatcherPoll, WatcherFlag, WatcherSend,
     WatcherUnlock
<1> QED
  BY <1>2, <1>3, <1>4, <1>5, <1>6, <1>7, <1>8, <1>9, <1>10 DEF Next,
     CheckReachable, Flip, Crash

\* A call of a worker to its cluster installs the next resource, or deletes one.
LEMMA CallImplements ==
    ASSUME TypeOK, WorkersInGWait, OrderInv, PhaseInv, NEW u \in Units,
           \/ InstantiateResource(u)
           \/ \E t \in Terms : TerminateResource(t, u)
    PROVE  [Abs!Next]_(Abs!absVars)
<1> USE RsyncAssumption DEF TypeOK, WorkTypeOK, ClusterTypeOK, MainTypeOK, CallCluster
<1>1. CASE InstantiateResource(u)
  <2> DEFINE i == idx[Inst][u]
  <2>1. worker[Inst][u] = "f"
    BY <1>1 DEF InstantiateResource, WorkerStep
  <2>2. main[Inst] = "gWait"
    BY <2>1 DEF WorkersInGWait, Running
  <2>3. acStatus = "Instantiating"
    BY <2>2 DEF PhaseInv
  <2>4. BeforeTerminate
    BY <2>2 DEF PhaseInv, InstQuiet, BeforeTerminate
  <2>5. \A j \in 1 .. i - 1 : j \in installed[u]
    BY <2>1, <2>4 DEF OrderInv, Orderly, InLoop, Behind
  <2>6. i \in 1 .. NRes
    OBVIOUS
  <2>7. \/ UNCHANGED installed
        \/ installed' = [installed EXCEPT ![u] = @ \cup {i}]
    BY <1>1 DEF InstantiateResource
  <2>8. UNCHANGED acStatus
    BY <1>1 DEF InstantiateResource
  <2> HIDE DEF i
  <2>9. CASE installed' = [installed EXCEPT ![u] = @ \cup {i}]
    <3>1. Abs!Install(u, i)
      BY <2>3, <2>5, <2>8, <2>9 DEF Abs!Install
    <3> QED
      BY <2>6, <3>1 DEF Abs!Next
  <2> QED
    BY <2>7, <2>8, <2>9 DEF Abs!absVars
<1>2. ASSUME NEW t \in Terms, TerminateResource(t, u)
      PROVE  [Abs!Next]_(Abs!absVars)
  <2> DEFINE i == idx[t][u]
  <2>1. worker[t][u] = "f"
    BY <1>2 DEF TerminateResource, WorkerStep
  <2>2. acStatus = "Terminating"
    BY <2>1 DEF WorkersInGWait, Running, PhaseInv
  <2>3. i \in 1 .. NRes
    OBVIOUS
  <2>4. \/ UNCHANGED installed
        \/ installed' = [installed EXCEPT ![u] = @ \ {i}]
    BY <1>2 DEF TerminateResource
  <2>5. UNCHANGED acStatus
    BY <1>2 DEF TerminateResource
  <2> HIDE DEF i
  <2>6. CASE installed' = [installed EXCEPT ![u] = @ \ {i}]
    <3>1. Abs!Delete(u, i)
      BY <2>2, <2>5, <2>6 DEF Abs!Delete
    <3> QED
      BY <2>3, <3>1 DEF Abs!Next
  <2> QED
    BY <2>4, <2>5, <2>6 DEF Abs!absVars
<1> QED
  BY <1>1, <1>2

\* A step of a main goroutine begins or ends a phase of the AppContext.
LEMMA MainImplements ==
    ASSUME OneTermination, TypeOK, PhaseInv, NEW r \in Runs, MainNext(r)
    PROVE  [Abs!Next]_(Abs!absVars)
<1> USE RsyncAssumption DEF TypeOK, MainTypeOK, OneTermination
<1>1. ~ DbFails
  OBVIOUS
<1>2. CASE InitStatus(r) /\ r = Inst
  BY <1>1, <1>2 DEF InitStatus, Kind, PhaseInv, Abs!BeginInstantiate, Abs!Next
<1>3. CASE InitStatus(r) /\ r # Inst
  BY <1>1, <1>3 DEF InitStatus, Kind, PhaseInv, InstDone, Abs!BeginTerminate, Abs!Next
<1>4. CASE GWait(r) /\ r = Inst
  BY <1>1, <1>4 DEF GWait, PhaseInv, EndingStatus, Abs!EndInstantiate, Abs!Next
<1>5. CASE GWait(r) /\ r # Inst
  BY <1>1, <1>5 DEF GWait, PhaseInv, EndingStatus, Abs!EndTerminate, Abs!Next
<1>6. CASE \/ Kickoff(r) \/ WgWait(r) \/ Cleanup(r)
           \/ \E u \in Units : InitRes(r, u)
  BY <1>6 DEF Kickoff, WgWait, Cleanup, InitRes, Abs!absVars
<1> QED
  BY <1>2, <1>3, <1>4, <1>5, <1>6 DEF MainNext

\* The runs implement AppContext, where one terminate run comes at most, after
\* the install run has written its status, and the database works: resources
\* appear in order and only while the status is Instantiating, go only while it is
\* Terminating, and a termination begins when the instantiation has ended.
THEOREM ImplementsAppContextCorrect ==
    ASSUME OneTermination
    PROVE  Spec => ImplementsAppContext
<1> DEFINE IInv == TypeOK /\ WorkersInGWait /\ PhaseInv
<1>1. Init => IInv
  <2>1. Init => TypeOK
    BY TypeInit
  <2>2. Init => WorkersInGWait
    BY DEF Init, WorkersInGWait, Running
  <2>3. Init => PhaseInv
    BY RsyncAssumption DEF Init, PhaseInv
  <2> QED
    BY <2>1, <2>2, <2>3
<1>2. IInv /\ [Next]_vars => IInv'
  BY TypeStep, WorkersInGWaitStep, PhaseStep
<1>3. Init => Abs!Init
  BY DEF Init, Abs!Init
<1>4. IInv /\ OrderInv /\ [Next]_vars => [Abs!Next]_(Abs!absVars)
  <2> SUFFICES ASSUME IInv, OrderInv, [Next]_vars
               PROVE  [Abs!Next]_(Abs!absVars)
    OBVIOUS
  <2>1. CASE UNCHANGED <<acStatus, installed>>
    BY <2>1 DEF Abs!absVars
  <2>2. ASSUME NEW r \in Runs, MainNext(r)
        PROVE  [Abs!Next]_(Abs!absVars)
    BY <2>2, MainImplements
  <2>3. ASSUME NEW r \in Runs, NEW u \in Units, WorkerNext(r, u)
        PROVE  [Abs!Next]_(Abs!absVars)
    <3>1. CASE r = Inst /\ InstantiateResource(u)
      BY <3>1, CallImplements
    <3>2. CASE r # Inst /\ TerminateResource(r, u)
      BY <3>2, CallImplements
    <3>3. CASE \/ GetClient(r, u) \/ AllDone(r, u) \/ AddChan(r, u)
               \/ SelectReach(r, u) \/ SelectTimeout(r, u) \/ Stopped(r, u)
               \/ DeleteChan(r, u)
      BY <2>1, <3>3 DEF GetClient, AllDone, AddChan, SelectReach, SelectTimeout,
         Stopped, DeleteChan
    <3>4. CASE \/ StatusOk(r, u) \/ StatusBad(r, u) \/ AfterError(r, u)
               \/ StatusTracker(r, u) \/ Approve(u) \/ Panic(r, u)
      BY <2>1, <3>4 DEF StatusOk, StatusBad, AfterError, StatusTracker, Approve,
         Panic, ProcessDies
    <3> QED
      BY <2>3, <3>1, <3>2, <3>3, <3>4 DEF WorkerNext
  <2>4. CASE InstallApp \/ Crash
    BY <2>1, <2>4 DEF InstallApp, Crash, ProcessDies
  <2>5. ASSUME NEW t \in Terms, UninstallApp(t) \/ WaitForDone(t) \/ ClearFlag(t)
        PROVE  [Abs!Next]_(Abs!absVars)
    BY <2>1, <2>5 DEF UninstallApp, WaitForDone, ClearFlag
  <2>6. ASSUME NEW r \in Runs, WatcherNext(r)
        PROVE  [Abs!Next]_(Abs!absVars)
    BY <2>1, <2>6 DEF WatcherNext, WatcherPoll, WatcherFlag, WatcherSend, WatcherUnlock
  <2>7. ASSUME NEW r \in Runs, NEW u \in Units, CheckReachable(r, u)
        PROVE  [Abs!Next]_(Abs!absVars)
    BY <2>1, <2>7 DEF CheckReachable
  <2>8. ASSUME NEW c \in Clusters, Flip(c)
        PROVE  [Abs!Next]_(Abs!absVars)
    BY <2>1, <2>8 DEF Flip
  <2> QED
    BY <2>1, <2>2, <2>3, <2>4, <2>5, <2>6, <2>7, <2>8 DEF Next
<1> QED
  BY <1>1, <1>2, <1>3, <1>4, OrderAlways, PTL DEF Spec, ImplementsAppContext, Abs!Spec

-----------------------------------------------------------------------------
(* What is reported Deleted is gone.                                       *)

\* Before a terminate run has reset the statuses of u.
Untouched(u) ==
    \A t \in Terms :
        \/ main[t] \in {"idle", "waitForDone", "clearFlag", "initStatus"}
        \/ main[t] = "initRes" /\ u \in todo[t]

\* The install run has not been cut off, and no terminate run has begun with u.
Installing(u) ==
    /\ main[Inst] = "dead" => acStatus # "Instantiating"
    /\ Untouched(u)

\* A resource of such a unit that exists has a done status, or the worker of the
\* install run is about to write one; nothing exists before the workers start; and
\* what a terminate run is about to report Deleted is gone.
GoneInv ==
    /\ main[Inst] \in {"idle", "initStatus", "initRes", "kickoff"} =>
         \A u \in Units : installed[u] = {}
    /\ \A u \in Units :
        /\ Installing(u) =>
             \A i \in installed[u] :
                \/ resStatus[u][i] \in DoneStatus
                \/ worker[Inst][u] \in {"ok", "bad"} /\ idx[Inst][u] = i
        /\ \A t \in Terms : worker[t][u] = "ok" => idx[t][u] \notin installed[u]

\* Where the install run is before its workers start.
Early == {"idle", "initStatus", "initRes", "kickoff"}

\* A step that installs nothing, takes back no done status, and brings no unit to a
\* new state.
LEMMA GoneStays ==
    ASSUME TypeOK, GoneInv,
           \A u \in Units : installed'[u] \subseteq installed[u],
           \A u \in Units, i \in Res :
               resStatus[u][i] \in DoneStatus => resStatus'[u][i] \in DoneStatus,
           \A u \in Units : worker[Inst][u] \in {"ok", "bad"} =>
               worker'[Inst][u] \in {"ok", "bad"} /\ idx'[Inst][u] = idx[Inst][u],
           \A t \in Terms, u \in Units : worker'[t][u] = "ok" =>
               worker[t][u] = "ok" /\ idx'[t][u] = idx[t][u],
           \A u \in Units : Installing(u)' => Installing(u),
           main'[Inst] \in Early => main[Inst] \in Early
    PROVE  GoneInv'
<1>1. main'[Inst] \in Early => \A u \in Units : installed'[u] = {}
  BY DEF GoneInv, Early
<1>2. ASSUME NEW u \in Units, Installing(u)', NEW i \in installed'[u]
      PROVE  \/ resStatus'[u][i] \in DoneStatus
             \/ worker'[Inst][u] \in {"ok", "bad"} /\ idx'[Inst][u] = i
  <2>1. i \in installed[u] /\ i \in Res
    BY <1>2 DEF TypeOK, ClusterTypeOK
  <2> QED
    BY <1>2, <2>1 DEF GoneInv
<1>3. ASSUME NEW u \in Units, NEW t \in Terms, worker'[t][u] = "ok"
      PROVE  idx'[t][u] \notin installed'[u]
  BY <1>3 DEF GoneInv
<1> QED
  BY <1>1, <1>2, <1>3 DEF GoneInv, Early

\* A terminate run that works keeps the install run from working, and none works
\* beside it.
LEMMA OneWorks ==
    ASSUME OneTermination, TypeOK, WorkersInGWait, PhaseInv,
           NEW t \in Terms, NEW u \in Units, Running(t, u)
    PROVE  /\ \A v \in Units : ~ Running(Inst, v) /\ ~ Installing(v)
           /\ main[t] = "gWait"
           /\ \A s \in Terms : s = t
<1>1. main[t] = "gWait"
  BY DEF WorkersInGWait
<1> QED
  BY <1>1, RsyncAssumption DEF OneTermination, WorkersInGWait, PhaseInv, InstQuiet,
     Installing, Untouched

LEMMA GoneStep ==
    ASSUME OneTermination, TypeOK, WorkersInGWait, PhaseInv, GoneInv, [Next]_vars
    PROVE  GoneInv'
<1> USE RsyncAssumption
<1> Inst \in Runs /\ Terms \subseteq Runs /\ \A t \in Terms : t # Inst
  OBVIOUS
<1>0. ~ DbFails
  BY DEF TypeOK, OneTermination
<1>1. CASE UNCHANGED <<acStatus, installed, resStatus, worker, idx, main, todo>>
  BY <1>1, GoneStays DEF Installing, Untouched, Early
<1>2. CASE InstallApp
  <2>1. /\ UNCHANGED <<acStatus, installed, resStatus, worker, idx, todo>>
        /\ main[Inst] = "idle" /\ main' = [main EXCEPT ![Inst] = "initStatus"]
    BY <1>0, <1>2 DEF InstallApp
  <2>2. \A u \in Units : Installing(u)' => Installing(u)
    BY <2>1 DEF Installing, Untouched, TypeOK, MainTypeOK
  <2> QED
    BY <2>1, <2>2, GoneStays DEF Early
<1>3. ASSUME NEW t \in Terms, UninstallApp(t) \/ WaitForDone(t) \/ ClearFlag(t)
      PROVE  GoneInv'
  <2>1. /\ UNCHANGED <<acStatus, installed, resStatus, worker, idx, todo>>
        /\ main[t] \in {"idle", "waitForDone", "clearFlag"}
        /\ \A r \in Runs : r # t => main'[r] = main[r]
    BY <1>0, <1>3 DEF UninstallApp, WaitForDone, ClearFlag, TypeOK, MainTypeOK
  <2>2. \A u \in Units : Installing(u)' => Installing(u)
    BY <2>1 DEF Installing, Untouched
  <2> QED
    BY <2>1, <2>2, GoneStays DEF Early
<1>4. ASSUME NEW r \in Runs, MainNext(r)
      PROVE  GoneInv'
  <2>1. CASE InitStatus(r)
    <3>1. /\ UNCHANGED <<installed, resStatus, worker, idx>>
          /\ main[r] = "initStatus" /\ main'[r] = "initRes" /\ todo'[r] = Units
          /\ \A q \in Runs : q # r => main'[q] = main[q] /\ todo'[q] = todo[q]
      BY <1>0, <2>1 DEF InitStatus, TypeOK, MainTypeOK
    <3>2. \A u \in Units : Untouched(u)' => Untouched(u)
      BY <3>1 DEF Untouched
    <3>3. r = Inst => main[Inst] = "initStatus"
      BY <3>1
    <3>4. r # Inst => acStatus # "Instantiating"
      BY <3>1 DEF PhaseInv, InstDone
    <3>5. \A u \in Units : Installing(u)' => Installing(u)
      BY <3>2, <3>3, <3>4 DEF Installing
    <3> QED
      BY <3>1, <3>5, GoneStays DEF Early
  <2>2. ASSUME NEW u \in Units, InitRes(r, u)
        PROVE  GoneInv'
    <3>1. /\ UNCHANGED <<acStatus, installed, worker, idx>>
          /\ main[r] = "initRes"
          /\ \A q \in Runs : q # r => main'[q] = main[q] /\ todo'[q] = todo[q]
          /\ \A v \in Units : v # u => resStatus'[v] = resStatus[v]
          /\ todo'[r] = todo[r] \ {u}
          /\ main'[r] = "initRes" \/ (main'[r] = "kickoff" /\ todo'[r] = {})
      BY <1>0, <2>2 DEF InitRes, TypeOK, MainTypeOK, EtcdTypeOK
    <3>2. CASE r = Inst
      <4>1. main[Inst] \in Early /\ \A v \in Units : installed'[v] = {}
        BY <3>1, <3>2 DEF GoneInv, Early
      <4>2. UNCHANGED worker /\ \A t \in Terms, v \in Units : worker'[t][v] # "ok" \/ idx'[t][v] \notin installed'[v]
        BY <3>1, <4>1
      <4> QED
        BY <4>1, <4>2 DEF GoneInv
    <3>3. CASE r # Inst
      <4>1. ~ Untouched(u)'
        BY <3>1, <3>3 DEF Untouched
      <4>2. \A v \in Units : Installing(v)' => Installing(v) /\ v # u
        BY <3>1, <3>3, <4>1 DEF Installing, Untouched
      <4>3. main'[Inst] = main[Inst]
        BY <3>1, <3>3
      <4> QED
        BY <3>1, <4>2, <4>3 DEF GoneInv
    <3> QED
      BY <3>2, <3>3
  <2>3. CASE Kickoff(r)
    <3>1. /\ worker' = [worker EXCEPT ![r] = [v \in Units |-> "getClient"]]
          /\ main[r] = "kickoff" /\ main' = [main EXCEPT ![r] = "gWait"]
          /\ UNCHANGED <<acStatus, installed, resStatus, idx, todo>>
      BY <1>0, <2>3 DEF Kickoff
    <3>2. \A v \in Units : Installing(v)' => Installing(v)
      BY <3>1 DEF Installing, Untouched, TypeOK, MainTypeOK
    <3>3. \A v \in Units : ~ Running(r, v)
      BY <3>1 DEF WorkersInGWait
    <3>4. \A q \in Runs, v \in Units :
            \/ q # r /\ worker'[q][v] = worker[q][v]
            \/ q = r /\ worker'[q][v] = "getClient" /\ worker[q][v] \notin {"ok", "bad"}
      BY <3>1, <3>3 DEF Running, TypeOK, WorkTypeOK
    <3>5. main'[Inst] \in Early => main[Inst] \in Early
      BY <3>1 DEF TypeOK, MainTypeOK, Early
    <3> QED
      BY <3>1, <3>2, <3>4, <3>5, GoneStays
  <2>4. CASE GWait(r) \/ WgWait(r) \/ Cleanup(r)
    <3>1. /\ UNCHANGED <<installed, resStatus, worker, idx, todo>>
          /\ main[r] \in {"gWait", "wgWait", "cleanup"}
          /\ main'[r] \in {"wgWait", "cleanup", "returned"}
          /\ \A q \in Runs : q # r => main'[q] = main[q]
          /\ main[r] = "gWait" \/ UNCHANGED acStatus
      BY <2>4 DEF GWait, WgWait, Cleanup, TypeOK, MainTypeOK
    <3>2. \A v \in Units : Installing(v)' => Installing(v)
      BY <3>1 DEF Installing, Untouched
    <3>3. main'[Inst] \in Early => main[Inst] \in Early
      BY <3>1 DEF Early
    <3> QED
      BY <3>1, <3>2, <3>3, GoneStays
  <2> QED
    BY <1>4, <2>1, <2>2, <2>3, <2>4 DEF MainNext
<1>5. CASE ProcessDies
  <2>1. /\ UNCHANGED <<acStatus, installed, resStatus>>
        /\ \A r \in Runs : main'[r] = IF main[r] = "idle" THEN "idle" ELSE "dead"
        /\ \A r \in Runs, u \in Units : worker'[r][u] = "off"
    BY <1>5 DEF ProcessDies
  <2>2. main'[Inst] \in Early => main[Inst] \in Early
    BY <2>1 DEF Early
  <2>3. ASSUME NEW u \in Units, Installing(u)'
        PROVE  Installing(u) /\ worker[Inst][u] \notin {"ok", "bad"}
    <3>1. \A t \in Terms : main[t] = "idle"
      BY <2>1, <2>3 DEF Installing, Untouched
    <3>2. main[Inst] # "idle" => acStatus # "Instantiating"
      BY <2>1, <2>3 DEF Installing
    <3>3. main[Inst] # "gWait"
      BY <3>2 DEF PhaseInv
    <3> QED
      BY <3>1, <3>2, <3>3 DEF Installing, Untouched, WorkersInGWait, Running
  <2> QED
    BY <2>1, <2>2, <2>3 DEF GoneInv, Early
<1>6. ASSUME NEW u \in Units, StatusOk(Inst, u) \/ StatusBad(Inst, u)
      PROVE  GoneInv'
  <2> DEFINE n == idx[Inst][u]
  <2>1. /\ UNCHANGED <<acStatus, installed, main, todo>>
        /\ worker[Inst][u] \in {"ok", "bad"}
        /\ \A q \in Runs, v \in Units : q # Inst \/ v # u =>
              worker'[q][v] = worker[q][v] /\ idx'[q][v] = idx[q][v]
    BY <1>6 DEF StatusOk, StatusBad, ToNextRes, WorkerStep, TypeOK, WorkTypeOK
  <2>2. \E s \in DoneStatus : resStatus' = [resStatus EXCEPT ![u][n] = s]
    BY <1>0, <1>6 DEF StatusOk, StatusBad, WriteStatus, DoneStatus
  <2>3. n \in Res
    BY DEF TypeOK, WorkTypeOK
  <2>4. /\ resStatus'[u][n] \in DoneStatus
        /\ \A v \in Units, i \in Res : v # u \/ i # n => resStatus'[v][i] = resStatus[v][i]
    BY <2>2, <2>3 DEF TypeOK, EtcdTypeOK
  <2>5. main[Inst] = "gWait"
    BY <2>1 DEF WorkersInGWait, Running
  <2>6. \A v \in Units : Installing(v)' => Installing(v)
    BY <2>1 DEF Installing, Untouched
  <2>7. ASSUME NEW v \in Units, Installing(v)', NEW i \in installed'[v]
        PROVE  \/ resStatus'[v][i] \in DoneStatus
               \/ worker'[Inst][v] \in {"ok", "bad"} /\ idx'[Inst][v] = i
    <3>1. i \in Res /\ i \in installed[v]
      BY <2>1, <2>7 DEF TypeOK, ClusterTypeOK
    <3>2. \/ resStatus[v][i] \in DoneStatus
          \/ worker[Inst][v] \in {"ok", "bad"} /\ idx[Inst][v] = i
      BY <2>6, <2>7, <3>1 DEF GoneInv
    <3>3. CASE v = u /\ i = n
      BY <2>4, <3>3
    <3>4. CASE v = u /\ i # n
      BY <2>4, <3>1, <3>2, <3>4
    <3>5. CASE v # u
      BY <2>1, <2>4, <3>1, <3>2, <3>5
    <3> QED
      BY <3>3, <3>4, <3>5
  <2> QED
    BY <2>1, <2>5, <2>7 DEF GoneInv
<1>7. ASSUME NEW t \in Terms, NEW u \in Units, StatusOk(t, u) \/ StatusBad(t, u)
      PROVE  GoneInv'
  <2>1. /\ UNCHANGED <<acStatus, installed, main, todo>>
        /\ worker[t][u] \in {"ok", "bad"} /\ worker'[t][u] # "ok"
        /\ \A q \in Runs, v \in Units : q # t \/ v # u =>
              worker'[q][v] = worker[q][v] /\ idx'[q][v] = idx[q][v]
    BY <1>7 DEF StatusOk, StatusBad, ToNextRes, WorkerStep, TypeOK, WorkTypeOK
  <2>2. \A v \in Units : ~ Installing(v)
    BY <2>1, OneWorks DEF Running
  <2>3. \A v \in Units : ~ Installing(v)'
    BY <2>1, <2>2 DEF Installing, Untouched
  <2> QED
    BY <2>1, <2>3 DEF GoneInv
<1>8. ASSUME NEW t \in Terms, NEW u \in Units, TerminateResource(t, u)
      PROVE  GoneInv'
  <2>1. /\ UNCHANGED <<acStatus, resStatus, main, todo, idx>>
        /\ worker[t][u] = "f"
        /\ \A v \in Units : installed'[v] \subseteq installed[v]
        /\ \A q \in Runs, v \in Units : q # t \/ v # u => worker'[q][v] = worker[q][v]
        /\ worker'[t][u] = "ok" => idx[t][u] \notin installed'[u]
    <3>1. UNCHANGED <<acStatus, resStatus, main, todo, idx>>
      BY <1>8 DEF TerminateResource, CallCluster
    <3>2. \/ /\ WorkerStep(t, u, "f", "ok")
             /\ installed' = [installed EXCEPT ![u] = @ \ {idx[t][u]}]
          \/ /\ WorkerStep(t, u, "f", "bad") \/ WorkerStep(t, u, "f", "isReachable")
             /\ \/ UNCHANGED installed
                \/ installed' = [installed EXCEPT ![u] = @ \ {idx[t][u]}]
      BY <1>0, <1>8 DEF TerminateResource, CallCluster
    <3>3. \A v \in Units : installed'[v] \subseteq installed[v]
      BY <3>2 DEF TypeOK, ClusterTypeOK
    <3>4. worker'[t][u] = "ok" => idx[t][u] \notin installed'[u]
      BY <3>2 DEF WorkerStep, TypeOK, WorkTypeOK, ClusterTypeOK
    <3>5. worker[t][u] = "f"
          /\ \A q \in Runs, v \in Units : q # t \/ v # u => worker'[q][v] = worker[q][v]
      BY <3>2 DEF WorkerStep, TypeOK, WorkTypeOK
    <3> QED
      BY <3>1, <3>3, <3>4, <3>5
  <2>2. \A v \in Units : ~ Installing(v)
    BY <2>1, OneWorks DEF Running
  <2>3. \A v \in Units : ~ Installing(v)'
    BY <2>1, <2>2 DEF Installing, Untouched
  <2>4. \A v \in Units : installed[v] = {} => installed'[v] = {}
    BY <2>1
  <2>5. \A s \in Terms, v \in Units : worker'[s][v] = "ok" => idx'[s][v] \notin installed'[v]
    BY <2>1 DEF GoneInv
  <2> QED
    BY <2>1, <2>3, <2>4, <2>5 DEF GoneInv
<1>9. ASSUME NEW u \in Units, InstantiateResource(u)
      PROVE  GoneInv'
  <2>1. /\ UNCHANGED <<acStatus, resStatus, idx, main, todo>>
        /\ \A v \in Units : v # u => installed'[v] = installed[v]
        /\ worker[Inst][u] = "f"
        /\ \A q \in Runs, v \in Units : q # Inst \/ v # u => worker'[q][v] = worker[q][v]
        /\ \/ installed'[u] = installed[u]
           \/ /\ installed'[u] = installed[u] \cup {idx[Inst][u]}
              /\ worker'[Inst][u] \in {"ok", "bad"}
    <3>1. UNCHANGED <<acStatus, resStatus, idx, main, todo>>
      BY <1>9 DEF InstantiateResource, CallCluster
    <3>2. \/ /\ WorkerStep(Inst, u, "f", "ok") \/ WorkerStep(Inst, u, "f", "bad")
             /\ \/ UNCHANGED installed
                \/ installed' = [installed EXCEPT ![u] = @ \cup {idx[Inst][u]}]
          \/ WorkerStep(Inst, u, "f", "isReachable") /\ UNCHANGED installed
      BY <1>0, <1>9 DEF InstantiateResource, CallCluster
    <3>3. \A v \in Units : v # u => installed'[v] = installed[v]
      BY <3>2 DEF TypeOK, ClusterTypeOK
    <3>4. \/ installed'[u] = installed[u]
          \/ /\ installed'[u] = installed[u] \cup {idx[Inst][u]}
             /\ worker'[Inst][u] \in {"ok", "bad"}
      BY <3>2 DEF WorkerStep, TypeOK, WorkTypeOK, ClusterTypeOK
    <3>5. worker[Inst][u] = "f"
          /\ \A q \in Runs, v \in Units : q # Inst \/ v # u => worker'[q][v] = worker[q][v]
      BY <3>2 DEF WorkerStep, TypeOK, WorkTypeOK
    <3> QED
      BY <3>1, <3>3, <3>4, <3>5
  <2>2. \A v \in Units : Installing(v)' => Installing(v)
    BY <2>1 DEF Installing, Untouched
  <2>3. main[Inst] = "gWait"
    BY <2>1 DEF WorkersInGWait, Running
  <2>4. \A t \in Terms, v \in Units : worker[t][v] # "ok"
    BY <2>1, OneWorks DEF Running
  <2> QED
    BY <2>1, <2>2, <2>3, <2>4 DEF GoneInv
<1>10. ASSUME NEW r \in Runs, NEW u \in Units,
              \/ GetClient(r, u) \/ AllDone(r, u) \/ AddChan(r, u) \/ SelectReach(r, u)
              \/ SelectTimeout(r, u) \/ Stopped(r, u) \/ DeleteChan(r, u)
              \/ AfterError(r, u) \/ StatusTracker(r, u)
              \/ r = Inst /\ Approve(u)
       PROVE  GoneInv'
  <2>1. /\ UNCHANGED <<acStatus, installed, main, todo>>
        /\ worker[r][u] \notin {"ok", "bad"} /\ worker'[r][u] \notin {"ok", "bad"}
        /\ \A q \in Runs, v \in Units : q # r \/ v # u =>
              worker'[q][v] = worker[q][v] /\ idx'[q][v] = idx[q][v]
    <3>1. UNCHANGED <<acStatus, installed, main, todo>>
      BY <1>10 DEF GetClient, AllDone, AddChan, SelectReach, SelectTimeout, Stopped,
         DeleteChan, AfterError, StatusTracker, Approve
    <3>2. \E from \in WorkerPC \ {"ok", "bad"}, to \in WorkerPC \ {"ok", "bad"} :
            WorkerStep(r, u, from, to)
      BY <1>10 DEF GetClient, AllDone, AddChan, SelectReach, SelectTimeout, Stopped,
         DeleteChan, AfterError, StatusTracker, Approve, ToNextRes, WorkerPC
    <3>3. \E i : idx' = [idx EXCEPT ![r][u] = i]
      <4>1. CASE UNCHANGED idx
        <5>1. idx' = [idx EXCEPT ![r][u] = idx[r][u]]
          BY <4>1 DEF TypeOK, WorkTypeOK
        <5> QED
          BY <5>1
      <4>2. CASE DeleteChan(r, u)
        BY <4>2 DEF DeleteChan
      <4>3. CASE AfterError(r, u) \/ (r = Inst /\ Approve(u))
        BY <4>1, <4>3 DEF AfterError, Approve, ToNextRes
      <4> QED
        BY <1>10, <4>1, <4>2, <4>3 DEF GetClient, AllDone, AddChan, SelectReach,
           SelectTimeout, Stopped, StatusTracker
    <3> QED
      BY <3>1, <3>2, <3>3 DEF WorkerStep, TypeOK, WorkTypeOK
  <2>2. \A v \in Units, i \in Res :
          resStatus[v][i] \in DoneStatus => resStatus'[v][i] = resStatus[v][i]
    <3>1. CASE UNCHANGED resStatus
      BY <3>1
    <3>2. CASE SelectTimeout(r, u) \/ Stopped(r, u)
      <4>1. UNCHANGED resStatus \/ \E s, n : Update(u, s, n)
        BY <3>2 DEF SelectTimeout, Stopped
      <4>2. ASSUME NEW s, NEW n, Update(u, s, n)
            PROVE  \A v \in Units, i \in Res :
                     resStatus[v][i] \in DoneStatus => resStatus'[v][i] = resStatus[v][i]
        BY <4>2 DEF Update, TypeOK, EtcdTypeOK
      <4> QED
        BY <3>1, <4>1, <4>2
    <3> QED
      BY <1>10, <3>1, <3>2 DEF GetClient, AllDone, AddChan, SelectReach, DeleteChan,
         AfterError, StatusTracker, Approve
  <2>3. \A v \in Units : Installing(v)' => Installing(v)
    BY <2>1 DEF Installing, Untouched
  <2>4. \A v \in Units : worker[Inst][v] \in {"ok", "bad"} =>
            worker'[Inst][v] = worker[Inst][v] /\ idx'[Inst][v] = idx[Inst][v]
    BY <2>1
  <2>5. \A t \in Terms, v \in Units : worker'[t][v] = "ok" =>
            worker[t][v] = "ok" /\ idx'[t][v] = idx[t][v]
    BY <2>1
  <2> QED
    BY <2>1, <2>2, <2>3, <2>4, <2>5, GoneStays
<1>11. ASSUME NEW r \in Runs, NEW u \in Units, WorkerNext(r, u)
       PROVE  GoneInv'
  BY <1>5, <1>6, <1>7, <1>8, <1>9, <1>10, <1>11 DEF WorkerNext, Panic
<1>12. ASSUME NEW r \in Runs, WatcherNext(r)
       PROVE  GoneInv'
  <2>1. ASSUME NEW u \in Units, WatcherSend(r, u)
        PROVE  GoneInv'
    <3>0. worker[r][u] = "select" /\ worker' = [worker EXCEPT ![r][u] = "stopped"]
      BY <2>1 DEF WatcherSend
    <3>1. \A q \in Runs, v \in Units :
            \/ worker'[q][v] = worker[q][v]
            \/ worker[q][v] = "select" /\ worker'[q][v] = "stopped"
      BY <3>0 DEF TypeOK, WorkTypeOK
    <3>2. UNCHANGED <<acStatus, installed, resStatus, idx, main, todo>>
      BY <2>1 DEF WatcherSend
    <3>3. \A v \in Units : Installing(v)' => Installing(v)
      BY <3>2 DEF Installing, Untouched
    <3>4. \A q \in Runs, v \in Units : worker[q][v] \in {"ok", "bad"} \/ worker'[q][v] \in {"ok", "bad"}
              => worker'[q][v] = worker[q][v]
      BY <3>1
    <3> QED
      BY <3>2, <3>3, <3>4, GoneStays
  <2> QED
    BY <1>1, <1>12, <2>1 DEF WatcherNext, WatcherPoll, WatcherFlag, WatcherUnlock
<1>13. CASE UNCHANGED vars
  BY <1>1, <1>13
<1> QED
  BY <1>1, <1>2, <1>3, <1>4, <1>5, <1>11, <1>12, <1>13 DEF Next, Crash, CheckReachable, Flip

\* A resource a terminate run had still to delete becomes Deleted only when its
\* cluster has it no more, where one terminate run comes at most, after the install
\* run has written its status, and the database works: neither the reset of the
\* statuses nor the report of a deletion hides a resource.
THEOREM DeletedMeansGoneCorrect ==
    ASSUME OneTermination
    PROVE  Spec => DeletedMeansGone
<1> DEFINE IInv == TypeOK /\ WorkersInGWait /\ PhaseInv /\ GoneInv
           Deletes == \A u \in Units, i \in Res :
                         /\ resStatus[u][i] \in {"Pending", "Retrying"}
                         /\ resStatus'[u][i] = "Deleted"
                         => i \notin installed'[u]
<1>1. Init => IInv
  <2>1. Init => TypeOK
    BY TypeInit
  <2>2. Init => WorkersInGWait
    BY DEF Init, WorkersInGWait, Running
  <2>3. Init => PhaseInv /\ GoneInv
    BY RsyncAssumption DEF Init, PhaseInv, GoneInv
  <2> QED
    BY <2>1, <2>2, <2>3
<1>2. IInv /\ [Next]_vars => IInv'
  BY TypeStep, WorkersInGWaitStep, PhaseStep, GoneStep
<1>3. IInv /\ [Next]_vars => [Deletes]_vars
  <2> SUFFICES ASSUME IInv, [Next]_vars, NEW u \in Units, NEW i \in Res,
                      resStatus[u][i] \in {"Pending", "Retrying"},
                      resStatus'[u][i] = "Deleted"
               PROVE  i \notin installed'[u]
    OBVIOUS
  <2> USE RsyncAssumption
  <2>0. ~ DbFails
    BY DEF TypeOK, OneTermination
  <2>1. ASSUME NEW r \in Runs, NEW v \in Units, InitRes(r, v)
        PROVE  i \notin installed'[u]
    <3>1. /\ main[r] = "initRes" /\ v \in todo[r] /\ UNCHANGED installed
          /\ resStatus' = [resStatus EXCEPT ![v] = [j \in Res |-> InitialStatus(r, @[j])]]
      BY <2>0, <2>1 DEF InitRes
    <3>2. r # Inst /\ v = u
      BY <3>1 DEF TypeOK, EtcdTypeOK, InitialStatus
    <3>3. acStatus = "Terminating" /\ InstQuiet
      BY <3>1, <3>2 DEF PhaseInv
    <3>4. Installing(u)
      BY <3>1, <3>2, <3>3 DEF Installing, Untouched, OneTermination
    <3>5. worker[Inst][u] \notin {"ok", "bad"}
      BY <3>3 DEF InstQuiet, WorkersInGWait, Running
    <3> QED
      BY <3>1, <3>4, <3>5 DEF GoneInv, DoneStatus
  <2>2. ASSUME NEW r \in Runs, NEW v \in Units, StatusOk(r, v) \/ StatusBad(r, v)
        PROVE  i \notin installed'[u]
    <3>1. /\ UNCHANGED installed
          /\ \/ r # Inst /\ worker[r][v] = "ok" /\ resStatus' = [resStatus EXCEPT ![v][idx[r][v]] = "Deleted"]
             \/ resStatus' = [resStatus EXCEPT ![v][idx[r][v]] = "Applied"]
             \/ resStatus' = [resStatus EXCEPT ![v][idx[r][v]] = "Failed"]
      BY <2>0, <2>2 DEF StatusOk, StatusBad, WriteStatus, WorkerStep, ToNextRes
    <3>2. ASSUME NEW s, s # "Deleted", resStatus' = [resStatus EXCEPT ![v][idx[r][v]] = s]
          PROVE  FALSE
      BY <3>2 DEF TypeOK, EtcdTypeOK, WorkTypeOK
    <3>3. r # Inst /\ worker[r][v] = "ok" /\ resStatus' = [resStatus EXCEPT ![v][idx[r][v]] = "Deleted"]
      BY <3>1, <3>2
    <3>4. v = u /\ i = idx[r][v]
      BY <3>3 DEF TypeOK, EtcdTypeOK, WorkTypeOK
    <3> QED
      BY <3>1, <3>3, <3>4 DEF GoneInv
  <2>3. ASSUME NEW r \in Runs, NEW v \in Units, SelectTimeout(r, v) \/ Stopped(r, v)
        PROVE  i \notin installed'[u]
    <3>1. UNCHANGED resStatus \/ \E n : Update(v, "Retrying", n) \/ Update(v, "Failed", n)
      BY <2>3 DEF SelectTimeout, Stopped
    <3>2. ASSUME NEW s, NEW n, s # "Deleted", Update(v, s, n)
          PROVE  FALSE
      <4>1. resStatus'[u][i] = resStatus[u][i] \/ resStatus'[u][i] = s
        BY <3>2 DEF Update, TypeOK, EtcdTypeOK
      <4> QED
        BY <3>2, <4>1
    <3>3. ~ UNCHANGED resStatus
      OBVIOUS
    <3> QED
      BY <3>1, <3>2, <3>3
  <2>4. ASSUME UNCHANGED resStatus
        PROVE  i \notin installed'[u]
    BY <2>4
  <2>5. ASSUME NEW r \in Runs, NEW v \in Units, WorkerNext(r, v)
        PROVE  i \notin installed'[u]
    BY <2>2, <2>3, <2>4, <2>5 DEF WorkerNext, GetClient, AllDone, AddChan, SelectReach,
       DeleteChan, AfterError, StatusTracker, InstantiateResource, TerminateResource,
       CallCluster, Approve, Panic, ProcessDies
  <2>6. ASSUME NEW r \in Runs, MainNext(r)
        PROVE  i \notin installed'[u]
    BY <2>1, <2>4, <2>6 DEF MainNext, InitStatus, Kickoff, GWait, WgWait, Cleanup
  <2>7. ASSUME NEW r \in Runs, WatcherNext(r)
        PROVE  i \notin installed'[u]
    BY <2>4, <2>7 DEF WatcherNext, WatcherPoll, WatcherFlag, WatcherSend, WatcherUnlock
  <2>8. ASSUME NEW t \in Terms, UninstallApp(t) \/ WaitForDone(t) \/ ClearFlag(t)
        PROVE  i \notin installed'[u]
    BY <2>4, <2>8 DEF UninstallApp, WaitForDone, ClearFlag
  <2>9. CASE InstallApp \/ Crash \/ UNCHANGED vars
    BY <2>4, <2>9 DEF InstallApp, Crash, ProcessDies
  <2>10. ASSUME NEW r \in Runs, NEW v \in Units, CheckReachable(r, v)
         PROVE  i \notin installed'[u]
    BY <2>4, <2>10 DEF CheckReachable
  <2>11. ASSUME NEW c \in Clusters, Flip(c)
         PROVE  i \notin installed'[u]
    BY <2>4, <2>11 DEF Flip
  <2> QED
    BY <2>5, <2>6, <2>7, <2>8, <2>9, <2>10, <2>11 DEF Next
<1> QED
  BY <1>1, <1>2, <1>3, PTL DEF Spec, DeletedMeansGone

=============================================================================
