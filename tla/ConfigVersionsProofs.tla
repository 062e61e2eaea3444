------------------------ MODULE ConfigVersionsProofs ------------------------
(***************************************************************************)
(* Theorems about ConfigVersions, for any number of requests, contents,    *)
(* mutexes, failures and crashes: its types, Counted and Unchanged first,  *)
(* then History and ClusterTruth.                                          *)
(*                                                                         *)
(* Counted is not inductive.  It needs that as long as nobody goes round   *)
(* the mutex only one request is among the writes (Exclusive), which rests *)
(* on a request inside holding the mutex it asked for (LockInv), and that  *)
(* what it has read of the counter is still true where it writes (Between).*)
(***************************************************************************)
EXTENDS ConfigVersions, TLAPS

Configs == Values \cup {NoConfig}
Actions == {"POST", "PUT", "DELETE"}
PCs == {"idle", "get", "lock", "check", "delete", "remove", "stop"} \cup Inside \cup Purging

Job == [op : {"none", "Create", "Update", "Delete", "Get", "Tagit", "Rollback"},
        whole : {"self", "DeleteAll", "Cleanup"}, val : Configs, idx : Int,
        gen : 0 .. MaxGens, cur : Int, i : Int, res : {"some", "none"}, prev : Configs,
        act : Actions \cup {"none"}, what : Configs, end : {"ok", "error"}]

DataType == /\ config \in Configs /\ cluster \in Configs
            /\ counter \in Int /\ tag \in Int
            /\ DOMAIN versions \subseteq Int
            /\ \A n \in DOMAIN versions : versions[n] \in Version

RegType == /\ gen \in 0 .. MaxGens /\ present \in BOOLEAN
           /\ present => gen # 0
           /\ holder \in [Gens -> Requests \cup {NoOne}]
           /\ thread \in [Gens -> Requests \cup {"listen", "back", "stopped"}]
           /\ dropped \in BOOLEAN

ReqType == /\ pc \in [Requests -> PCs]
           /\ job \in [Requests -> Job]

\* What is sent, and then recorded, has an action.
ActInv ==
    \A r \in Requests :
        \/ pc[r] \in {"send", "await", "store", "incr", "count", "record"}
        \/ pc[r] \in {"get", "lock", "read"} /\ job[r].op \in {"Create", "Update", "Delete"}
        => job[r].act \in Actions

\* A request that has asked for its mutex has asked for one that was made.
\* Inside it holds it; a goroutine works for one that waits for its answer.
GenInv == \A r \in Requests : pc[r] \in Inside \cup {"lock"} => job[r].gen \in 1 .. gen

HolderInv == \A r \in Requests : pc[r] \in Inside => holder[job[r].gen] = r

ThreadInv ==
    /\ \A g \in Gens : thread[g] \in Requests =>
           pc[thread[g]] = "await" /\ job[thread[g]].gen = g
    /\ \A r \in Requests : pc[r] = "await" => thread[job[r].gen] = r \/ dropped

LockInv == GenInv /\ HolderInv /\ ThreadInv

StopInv == /\ \A r \in Requests : pc[r] = "stop" => present
           /\ \A r, q \in Requests : pc[r] = "stop" /\ pc[q] = "stop" => r = q

Sound == doors \cap {"purge", "overlap"} = {}

\* Without detours round the mutex only one request writes at a time.
Exclusive ==
    Sound => \A r, q \in Requests :
        pc[r] \in Inside \cup Purging /\ pc[q] \in Inside \cup Purging => r = q

\* Where a request stands between its writes.
Place(r) ==
    /\ pc[r] = "count" => job[r].cur = counter + 1
    /\ pc[r] = "record" => job[r].cur = counter /\ counter > 0
                           /\ counter \notin DOMAIN versions
    /\ pc[r] = "step" => job[r].cur = counter
    /\ pc[r] \in {"send", "await", "store"} /\ job[r].op = "Rollback"
         => job[r].cur = counter
    /\ pc[r] \in {"drop", "decr"} => job[r].i = counter
    /\ pc[r] = "decr" => counter > 0 /\ counter \notin DOMAIN versions
    /\ pc[r] = "purgeCounter" => DOMAIN versions = {}

Between == Sound => \A r \in Requests : Place(r)

CountInv == Sound => counter >= 0 /\ \A n \in DOMAIN versions : n \in 1 .. counter

ConfigInv == /\ DataType /\ RegType /\ ReqType /\ ActInv
             /\ LockInv /\ StopInv /\ Exclusive /\ Between /\ CountInv

\* A step of r that leaves the other requests alone and neither waits for an
\* answer, nor has waited, nor comes to the mutex.
Keeps(r) == /\ \A q \in Requests \ {r} : pc'[q] = pc[q] /\ job'[q] = job[q]
            /\ pc[r] # "await" /\ pc'[r] # "await"
            /\ pc'[r] \in Inside \cup {"lock"} =>
                   pc[r] \in Inside /\ job'[r].gen = job[r].gen

\* What a number stands for does not change in a step.
Stays == Sound' => \A n \in DOMAIN versions \cap DOMAIN versions' :
                       versions'[n] = versions[n]

\* What the actions write.
CountWritten == \E r \in Requests :
    \/ IncrementVersion(r) \/ CreateConfigVersion(r) \/ DeleteConfigVersion(r)
    \/ DecrementVersion(r) \/ PurgeVersions(r) \/ PurgeCounter(r)

DataWritten ==
    \/ \E r \in Requests :
          \/ TagCurrentVersion(r) \/ CreateConfig(r) \/ UpdateConfig(r) \/ RestoreConfig(r)
          \/ IncrementVersion(r) \/ CreateConfigVersion(r) \/ DeleteConfigVersion(r)
          \/ DecrementVersion(r) \/ PurgeConfig(r) \/ PurgeVersions(r) \/ PurgeCounter(r)
          \/ PurgeTag(r)
    \/ \E g \in Gens : Answer(g)

RegWritten ==
    \/ \E r \in Requests : \/ GetProfileData(r) \/ Lock(r) \/ Send(r) \/ Unlock(r)
                           \/ StopThread(r)
    \/ \E g \in Gens : Answer(g) \/ Listen(g) \/ ClusterFails(g)
    \/ Crash

Effect == /\ Sound' => Sound
          /\ CountWritten \/ UNCHANGED <<counter, versions>>
          /\ DataWritten \/ UNCHANGED <<etcd, cluster>>
          /\ RegWritten \/ UNCHANGED <<profileData, dropped>>

\* A step of r leaves the other requests alone, and writes the counter and
\* the versions only where r is by itself.
Alone(r) == /\ \A q \in Requests \ {r} : pc'[q] = pc[q] /\ job'[q] = job[q]
            /\ pc[r] \in Inside \cup Purging \/ UNCHANGED <<counter, versions>>
-----------------------------------------------------------------------------

\* The locals of a request that has not begun are well-typed.
LEMMA NoJobType == NoJob \in Job
BY ConfigAssumption DEF NoJob, Job, Configs

\* The eight requests begin alike: an idle request gets well-typed locals, and
\* a Create or an Update that goes for the mutex knows its action.
LEMMA BeginCalls ==
    ASSUME ConfigInv, NEW r \in Requests, Begin(r)
    PROVE  \E p \in {"get", "delete", "check"}, j \in Job :
               /\ Call(r, p, j)
               /\ j.op \in {"Create", "Update"} => j.act \in Actions
               /\ p = "get" => j.op # "Delete"
<1> DEFINE Begins(p, j) == /\ Call(r, p, j)
                           /\ j.op \in {"Create", "Update"} => j.act \in Actions
                           /\ p = "get" => j.op # "Delete"
           Goal == \E p \in {"get", "delete", "check"}, j \in Job : Begins(p, j)
<1>1. ASSUME NEW v \in Values, Create(r, v) \/ Update(r, v) PROVE Goal
  <2>1. v \in Configs
    BY DEF Configs
  <2>2. CASE Create(r, v)
    <3> DEFINE j == [NoJob EXCEPT !.op = "Create", !.val = v, !.what = v, !.act = "POST"]
    <3>1. j \in Job /\ j.act \in Actions /\ j.op = "Create"
      BY <2>1, NoJobType DEF Job, Actions
    <3> QED BY <2>2, <3>1 DEF Create
  <2>3. CASE Update(r, v)
    <3> DEFINE j == [NoJob EXCEPT !.op = "Update", !.val = v, !.what = v, !.act = "PUT"]
    <3>1. j \in Job /\ j.act \in Actions /\ j.op = "Update"
      BY <2>1, NoJobType DEF Job, Actions
    <3> QED BY <2>3, <3>1 DEF Update
  <2> QED BY <1>1, <2>2, <2>3
<1>2. ASSUME NEW o \in {"Get", "Tagit"}, Call(r, "get", [NoJob EXCEPT !.op = o])
      PROVE  Goal
  <2>1. [NoJob EXCEPT !.op = o] \in Job /\ [NoJob EXCEPT !.op = o].op = o
    BY NoJobType DEF Job
  <2> QED BY <1>2, <2>1
<1>3. ASSUME Cleanup(r) PROVE Goal
  <2> DEFINE j == [NoJob EXCEPT !.op = "Get", !.whole = "Cleanup"]
  <2>1. j \in Job /\ j.op = "Get"
    BY NoJobType DEF Job
  <2> QED BY <1>3, <2>1 DEF Cleanup
<1>4. ASSUME Rollback(r) PROVE Goal
  <2>1. PICK idx \in 0 .. counter + 1 \cup ({tag} \ {NoTag}) :
             Call(r, "get", [NoJob EXCEPT !.op = "Rollback", !.idx = idx])
    BY <1>4 DEF Rollback
  <2> DEFINE j == [NoJob EXCEPT !.op = "Rollback", !.idx = idx]
  <2>2. idx \in Int
    BY DEF ConfigInv
  <2>3. j \in Job /\ j.op = "Rollback"
    BY <2>2, NoJobType DEF Job
  <2> QED BY <2>1, <2>3
<1>5. ASSUME Delete(r) PROVE Goal
  <2> DEFINE j == [NoJob EXCEPT !.op = "Delete"]
  <2>1. j \in Job /\ j.op = "Delete"
    BY NoJobType DEF Job
  <2> QED BY <1>5, <2>1 DEF Delete
<1>6. ASSUME DeleteAll(r) PROVE Goal
  <2> DEFINE j == [NoJob EXCEPT !.op = "Delete", !.whole = "DeleteAll"]
  <2>1. j \in Job /\ j.op = "Delete"
    BY NoJobType DEF Job
  <2> QED BY <1>6, <2>1 DEF DeleteAll
<1> QED
    BY <1>1, <1>2, <1>3, <1>4, <1>5, <1>6 DEF Begin, Get, Tagit

\* The frame of a step: which actions write the counter and the versions, the
\* data, and the registry of mutexes and goroutines.  No door is forgotten.
LEMMA Effects == ConfigInv /\ [Next]_vars => Effect
<1> SUFFICES ASSUME ConfigInv, [Next]_vars PROVE Effect
    OBVIOUS
<1>1. ASSUME NEW r \in Requests, Begin(r) PROVE Effect
    BY <1>1, BeginCalls DEF Effect, Sound, Call, etcd
<1>2. ASSUME NEW r \in Requests, DeleteAllChecks(r) PROVE Effect
    BY <1>2 DEF Effect, Sound, DeleteAllChecks, etcd
<1>3. ASSUME NEW r \in Requests, DeleteReads(r) PROVE Effect
    BY <1>3 DEF Effect, Sound, DeleteReads, etcd
<1>4. ASSUME NEW r \in Requests, GetProfileData(r) PROVE Effect
    BY <1>4 DEF Effect, Sound, RegWritten, GetProfileData, etcd
<1>5. ASSUME NEW r \in Requests, Lock(r) PROVE Effect
    BY <1>5 DEF Effect, Sound, RegWritten, Lock, etcd
<1>6. ASSUME NEW r \in Requests, ReadConfig(r) PROVE Effect
    BY <1>6 DEF Effect, Sound, ReadConfig, etcd
<1>7. ASSUME NEW r \in Requests, TagCurrentVersion(r) PROVE Effect
    BY <1>7 DEF Effect, Sound, DataWritten, TagCurrentVersion
<1>8. ASSUME NEW r \in Requests, ReadResources(r) PROVE Effect
    BY <1>8 DEF Effect, Sound, ReadResources, etcd
<1>9. ASSUME NEW r \in Requests, ReadCurrent(r) PROVE Effect
    BY <1>9 DEF Effect, Sound, ReadCurrent, etcd
<1>10. ASSUME NEW r \in Requests, RollbackStep(r) PROVE Effect
    BY <1>10 DEF Effect, Sound, RollbackStep, etcd
<1>11. ASSUME NEW r \in Requests, Send(r) PROVE Effect
    BY <1>11 DEF Effect, Sound, RegWritten, Send, etcd
<1>12. ASSUME NEW r \in Requests, CreateConfig(r) PROVE Effect
    BY <1>12 DEF Effect, Sound, DataWritten, CreateConfig
<1>13. ASSUME NEW r \in Requests, UpdateConfig(r) PROVE Effect
    BY <1>13 DEF Effect, Sound, DataWritten, UpdateConfig
<1>14. ASSUME NEW r \in Requests, RestoreConfig(r) PROVE Effect
    BY <1>14 DEF Effect, Sound, DataWritten, RestoreConfig
<1>15. ASSUME NEW r \in Requests, ReadCounter(r) PROVE Effect
    BY <1>15 DEF Effect, Sound, ReadCounter, etcd
<1>16. ASSUME NEW r \in Requests, IncrementVersion(r) PROVE Effect
    BY <1>16 DEF Effect, Sound, CountWritten, DataWritten, IncrementVersion
<1>17. ASSUME NEW r \in Requests, CreateConfigVersion(r) PROVE Effect
    BY <1>17 DEF Effect, Sound, CountWritten, DataWritten, CreateConfigVersion
<1>18. ASSUME NEW r \in Requests, DeleteConfigVersion(r) PROVE Effect
    BY <1>18 DEF Effect, Sound, CountWritten, DataWritten, DeleteConfigVersion
<1>19. ASSUME NEW r \in Requests, DecrementVersion(r) PROVE Effect
    BY <1>19 DEF Effect, Sound, CountWritten, DataWritten, DecrementVersion
<1>20. ASSUME NEW r \in Requests, Unlock(r) PROVE Effect
    BY <1>20 DEF Effect, Sound, RegWritten, Unlock, etcd
<1>21. ASSUME NEW r \in Requests, PurgeConfig(r) PROVE Effect
    BY <1>21 DEF Effect, Sound, DataWritten, PurgeConfig
<1>22. ASSUME NEW r \in Requests, PurgeVersions(r) PROVE Effect
    BY <1>22 DEF Effect, Sound, CountWritten, DataWritten, PurgeVersions
<1>23. ASSUME NEW r \in Requests, PurgeCounter(r) PROVE Effect
    BY <1>23 DEF Effect, Sound, CountWritten, DataWritten, PurgeCounter
<1>24. ASSUME NEW r \in Requests, PurgeTag(r) PROVE Effect
    BY <1>24 DEF Effect, Sound, DataWritten, PurgeTag
<1>25. ASSUME NEW r \in Requests, RemoveProfileData(r) PROVE Effect
    BY <1>25 DEF Effect, Sound, RemoveProfileData, etcd
<1>26. ASSUME NEW r \in Requests, StopThread(r) PROVE Effect
    BY <1>26 DEF Effect, Sound, RegWritten, StopThread, etcd
<1>27. ASSUME NEW g \in Gens, Answer(g) PROVE Effect
    BY <1>27 DEF Effect, Sound, DataWritten, RegWritten, Answer, etcd
<1>28. ASSUME NEW g \in Gens, Listen(g) PROVE Effect
    BY <1>28 DEF Effect, Sound, RegWritten, Listen, etcd
<1>29. ASSUME NEW r \in Requests, CallFails(r) PROVE Effect
    BY <1>29 DEF Effect, Sound, CallFails, Fault, etcd
<1>30. ASSUME NEW r \in Requests, PurgeFails(r) PROVE Effect
    BY <1>30 DEF Effect, Sound, PurgeFails, Fault, etcd
<1>31. ASSUME NEW g \in Gens, ClusterFails(g) PROVE Effect
    BY <1>31 DEF Effect, Sound, RegWritten, ClusterFails, Fault, etcd
<1>32. ASSUME Crash PROVE Effect
    BY <1>32 DEF Effect, Sound, RegWritten, Crash, Fault, etcd
<1>33. CASE UNCHANGED vars
    BY <1>33 DEF Effect, Sound, vars, etcd
<1> QED
    BY <1>1, <1>2, <1>3, <1>4, <1>5, <1>6, <1>7, <1>8, <1>9, <1>10, <1>11,
       <1>12, <1>13, <1>14, <1>15, <1>16, <1>17, <1>18, <1>19, <1>20, <1>21,
       <1>22, <1>23, <1>24, <1>25, <1>26, <1>27, <1>28, <1>29, <1>30, <1>31,
       <1>32, <1>33 DEF Next, Step, Failure

\* Whatever a step writes to etcd and to the cluster is well-typed: a version
\* is recorded with an action, because what was sent had one.
LEMMA DataStep == ConfigInv /\ [Next]_vars => DataType'
<1> SUFFICES ASSUME ConfigInv, [Next]_vars PROVE DataType'
    OBVIOUS
<1>1. ASSUME NEW r \in Requests, TagCurrentVersion(r) PROVE DataType'
    BY <1>1 DEF ConfigInv, DataType, TagCurrentVersion
<1>2. ASSUME NEW g \in Gens, Answer(g) PROVE DataType'
  <2>1. PICK r \in Requests : r = thread[g]
    BY <1>2 DEF Answer
  <2>2. job[r] \in Job /\ job[r].act \in Actions
    BY <1>2, <2>1 DEF ConfigInv, LockInv, ThreadInv, ReqType, ActInv
  <2>3. Outcome(job[r]).cluster \in Configs
    BY <2>2 DEF ConfigInv, DataType, Outcome, Job, Configs, Actions
  <2> QED BY <1>2, <2>1, <2>3 DEF ConfigInv, DataType, Answer, etcd
<1>3. ASSUME NEW r \in Requests, CreateConfig(r) PROVE DataType'
    BY <1>3 DEF ConfigInv, DataType, CreateConfig, ReqType, Job
<1>4. ASSUME NEW r \in Requests, UpdateConfig(r) PROVE DataType'
    BY <1>4 DEF ConfigInv, DataType, UpdateConfig, ReqType, Job
<1>5. ASSUME NEW r \in Requests, RestoreConfig(r) PROVE DataType'
    BY <1>5 DEF ConfigInv, DataType, RestoreConfig, ReqType, Job
<1>6. ASSUME NEW r \in Requests, IncrementVersion(r) PROVE DataType'
    BY <1>6 DEF ConfigInv, DataType, IncrementVersion, ReqType, Job
<1>7. ASSUME NEW r \in Requests, CreateConfigVersion(r) PROVE DataType'
  <2> DEFINE j == job[r]
             v == [new |-> j.val, prev |-> j.prev, action |-> j.act, res |-> j.res]
  <2>1. j \in Job /\ j.act \in Actions
    BY <1>7 DEF ConfigInv, ReqType, ActInv, CreateConfigVersion, At
  <2>2. v \in Version /\ j.cur \in Int
    BY <2>1 DEF Version, Job, Configs, Actions
  <2>3. versions' = [n \in {j.cur} \cup DOMAIN versions |->
                       IF n = j.cur THEN v ELSE versions[n]]
    BY <1>7 DEF CreateConfigVersion
  <2>4. DOMAIN versions' \subseteq Int /\ \A n \in DOMAIN versions' : versions'[n] \in Version
    BY <2>2, <2>3 DEF ConfigInv, DataType
  <2> QED BY <2>4, <1>7 DEF ConfigInv, DataType, CreateConfigVersion
<1>8. ASSUME NEW r \in Requests, DeleteConfigVersion(r) PROVE DataType'
    BY <1>8 DEF ConfigInv, DataType, DeleteConfigVersion, Restrict
<1>9. ASSUME NEW r \in Requests, DecrementVersion(r) PROVE DataType'
    BY <1>9 DEF ConfigInv, DataType, DecrementVersion
<1>10. ASSUME NEW r \in Requests, PurgeConfig(r) PROVE DataType'
    BY <1>10 DEF ConfigInv, DataType, PurgeConfig, Configs
<1>11. ASSUME NEW r \in Requests, PurgeVersions(r) PROVE DataType'
    BY <1>11 DEF ConfigInv, DataType, PurgeVersions, Restrict
<1>12. ASSUME NEW r \in Requests, PurgeCounter(r) PROVE DataType'
    BY <1>12 DEF ConfigInv, DataType, PurgeCounter
<1>13. ASSUME NEW r \in Requests, PurgeTag(r) PROVE DataType'
    BY <1>13 DEF ConfigInv, DataType, PurgeTag, NoTag
<1>14. CASE UNCHANGED <<etcd, cluster>>
    BY <1>14 DEF ConfigInv, DataType, etcd
<1> QED
    BY <1>1, <1>2, <1>3, <1>4, <1>5, <1>6, <1>7, <1>8, <1>9, <1>10, <1>11,
       <1>12, <1>13, <1>14, Effects DEF Effect, DataWritten

\* The registry keeps its types: a mutex is made only within the bound, and a
\* goroutine is given a request or told to stop.
LEMMA RegStep == ConfigInv /\ [Next]_vars => RegType'
<1> SUFFICES ASSUME ConfigInv, [Next]_vars PROVE RegType'
    OBVIOUS
<1>1. ASSUME NEW r \in Requests, GetProfileData(r) PROVE RegType'
  <2>1. CASE present
    BY <1>1, <2>1 DEF ConfigInv, RegType, GetProfileData
  <2>2. CASE ~present
    BY <1>1, <2>2, ConfigAssumption DEF ConfigInv, RegType, Gens, GetProfileData
  <2> QED BY <2>1, <2>2
<1>2. ASSUME NEW r \in Requests, Lock(r) PROVE RegType'
    BY <1>2 DEF ConfigInv, RegType, Lock
<1>3. ASSUME NEW r \in Requests, Send(r) PROVE RegType'
  <2>1. CASE job[r].what = NoConfig
    BY <1>3, <2>1 DEF ConfigInv, RegType, Send
  <2>2. CASE job[r].what # NoConfig
    BY <1>3, <2>2 DEF ConfigInv, RegType, Send
  <2> QED BY <2>1, <2>2
<1>4. ASSUME NEW r \in Requests, Unlock(r) PROVE RegType'
    BY <1>4 DEF ConfigInv, RegType, Unlock
<1>5. ASSUME NEW r \in Requests, StopThread(r) PROVE RegType'
    BY <1>5 DEF ConfigInv, RegType, StopThread
<1>6. ASSUME NEW g \in Gens, Answer(g) PROVE RegType'
    BY <1>6 DEF ConfigInv, RegType, Answer
<1>7. ASSUME NEW g \in Gens, Listen(g) PROVE RegType'
    BY <1>7 DEF ConfigInv, RegType, Listen
<1>8. ASSUME NEW g \in Gens, ClusterFails(g) PROVE RegType'
    BY <1>8 DEF ConfigInv, RegType, ClusterFails
<1>9. ASSUME Crash PROVE RegType'
    BY <1>9 DEF ConfigInv, RegType, Crash
<1>10. CASE UNCHANGED <<profileData, dropped>>
    BY <1>10 DEF ConfigInv, RegType, profileData
<1> QED
    BY <1>1, <1>2, <1>3, <1>4, <1>5, <1>6, <1>7, <1>8, <1>9, <1>10, Effects
       DEF Effect, RegWritten

\* Leaving the locked part keeps the locals' types.
LEMMA LeaveType ==
    ASSUME ConfigInv, NEW r \in Requests, NEW end \in {"ok", "error"}, Leave(r, end)
    PROVE  ReqType'
BY DEF ConfigInv, ReqType, Job, PCs, Inside, Leave, Goto

\* A step keeps the types of the places and locals of the requests.
LEMMA ReqStep == ConfigInv /\ [Next]_vars => ReqType'
<1> SUFFICES ASSUME ConfigInv, [Next]_vars PROVE ReqType'
    OBVIOUS
<1>1. ASSUME NEW r \in Requests, Begin(r) PROVE ReqType'
    BY <1>1, BeginCalls DEF ConfigInv, ReqType, PCs, Call, Goto
<1>2. ASSUME NEW r \in Requests, DeleteAllChecks(r) PROVE ReqType'
    BY <1>2, NoJobType DEF ConfigInv, ReqType, Job, PCs, Purging,
       DeleteAllChecks, Continue, Goto, Return
<1>3. ASSUME NEW r \in Requests, DeleteReads(r) PROVE ReqType'
    BY <1>3, NoJobType DEF ConfigInv, ReqType, Job, PCs, DeleteReads, Goto, At,
       Continue, Return, profileData
<1>4. ASSUME NEW r \in Requests, GetProfileData(r) PROVE ReqType'
  <2>1. gen' \in 0 .. MaxGens
    BY <1>4, ConfigAssumption DEF ConfigInv, RegType, GetProfileData
  <2>2. [job[r] EXCEPT !.gen = gen'] \in Job
    BY <2>1 DEF ConfigInv, ReqType, Job
  <2>3. job' = [job EXCEPT ![r] = [job[r] EXCEPT !.gen = gen']]
    BY <1>4 DEF GetProfileData
  <2> QED BY <1>4, <2>2, <2>3 DEF ConfigInv, ReqType, PCs, GetProfileData, Goto
<1>5. ASSUME NEW r \in Requests, Lock(r) PROVE ReqType'
    BY <1>5 DEF ConfigInv, ReqType, PCs, Inside, Lock, Goto
<1>6. ASSUME NEW r \in Requests, ReadConfig(r) PROVE ReqType'
    BY <1>6 DEF ConfigInv, DataType, ReqType, Job, PCs, Inside, ReadConfig, Goto
<1>7. ASSUME NEW r \in Requests, TagCurrentVersion(r) PROVE ReqType'
    BY <1>7 DEF ConfigInv, ReqType, PCs, Inside, TagCurrentVersion, Goto
<1>8. ASSUME NEW r \in Requests, ReadResources(r) PROVE ReqType'
  <2>1. CASE counter \in DOMAIN versions
    <3>1. [job[r] EXCEPT !.res = versions[counter].res] \in Job
      BY <2>1 DEF ConfigInv, DataType, ReqType, Job, Version
    <3> QED BY <1>8, <2>1, <3>1 DEF ConfigInv, ReqType, PCs, Inside, ReadResources, Goto
  <2>2. CASE counter \notin DOMAIN versions
    BY <1>8, <2>2, LeaveType DEF ReadResources
  <2> QED BY <2>1, <2>2
<1>9. ASSUME NEW r \in Requests, ReadCurrent(r) PROVE ReqType'
  <2>1. [job[r] EXCEPT !.cur = counter, !.i = counter] \in Job
    BY DEF ConfigInv, DataType, ReqType, Job
  <2>2. job' = [job EXCEPT ![r] = [job[r] EXCEPT !.cur = counter, !.i = counter]]
    BY <1>9 DEF ConfigInv, ReadCurrent
  <2> QED BY <1>9, <2>1, <2>2 DEF ConfigInv, ReqType, PCs, Inside, ReadCurrent, Goto
<1>10. ASSUME NEW r \in Requests, RollbackStep(r) PROVE ReqType'
  <2> DEFINE i == job[r].i
             undo == versions[i]
             act == versions[i - 1].action
             j == [job[r] EXCEPT !.act = act, !.res = undo.res, !.prev = undo.prev,
                      !.what = IF act = "DELETE" THEN undo.new ELSE undo.prev]
  <2>1. CASE /\ job' = [job EXCEPT ![r].i = job[r].cur]
             /\ Goto(r, "drop")
    BY <2>1 DEF ConfigInv, ReqType, Job, PCs, Inside, Goto
  <2>2. CASE Leave(r, "error")
    BY <2>2, LeaveType
  <2>3. CASE /\ {i, i - 1} \subseteq DOMAIN versions
             /\ job' = [job EXCEPT ![r] = j]
             /\ Goto(r, "send")
    <3>1. undo \in Version /\ versions[i - 1] \in Version
      BY <2>3 DEF ConfigInv, DataType
    <3>2. /\ act \in Actions \cup {"none"} /\ undo.res \in {"some", "none"}
          /\ undo.prev \in Configs
          /\ (IF act = "DELETE" THEN undo.new ELSE undo.prev) \in Configs
      BY <3>1 DEF Version, Configs, Actions
    <3>3. job[r] \in Job
      BY DEF ConfigInv, ReqType
    <3>4. \A a \in Actions \cup {"none"}, e \in {"some", "none"}, p, w \in Configs :
             [job[r] EXCEPT !.act = a, !.res = e, !.prev = p, !.what = w] \in Job
      BY <3>3 DEF Job
    <3>5. j \in Job
      BY <3>2, <3>4
    <3> QED BY <2>3, <3>5 DEF ConfigInv, ReqType, PCs, Inside, Goto
  <2> QED BY <1>10, <2>1, <2>2, <2>3 DEF RollbackStep
<1>11. ASSUME NEW r \in Requests, Send(r) PROVE ReqType'
  <2>1. CASE job[r].what = NoConfig
    BY <1>11, <2>1, LeaveType DEF Send
  <2>2. CASE job[r].what # NoConfig
    BY <1>11, <2>2 DEF ConfigInv, ReqType, PCs, Inside, Send, Goto
  <2> QED BY <2>1, <2>2
<1>12. ASSUME NEW r \in Requests, CreateConfig(r) PROVE ReqType'
    BY <1>12 DEF ConfigInv, ReqType, PCs, Inside, CreateConfig, Goto
<1>13. ASSUME NEW r \in Requests, UpdateConfig(r) PROVE ReqType'
    BY <1>13 DEF ConfigInv, DataType, ReqType, Job, PCs, Inside, UpdateConfig,
       Goto, At
<1>14. ASSUME NEW r \in Requests, RestoreConfig(r) PROVE ReqType'
    BY <1>14 DEF ConfigInv, ReqType, Job, PCs, Inside, RestoreConfig, Goto
<1>15. ASSUME NEW r \in Requests, ReadCounter(r) PROVE ReqType'
    BY <1>15 DEF ConfigInv, DataType, ReqType, Job, PCs, Inside, ReadCounter,
       Goto
<1>16. ASSUME NEW r \in Requests, IncrementVersion(r) PROVE ReqType'
    BY <1>16 DEF ConfigInv, ReqType, PCs, Inside, IncrementVersion, Goto
<1>17. ASSUME NEW r \in Requests, CreateConfigVersion(r) PROVE ReqType'
    BY <1>17 DEF ConfigInv, ReqType, Job, PCs, Inside, Purging,
       CreateConfigVersion, At, Leave, Goto
<1>18. ASSUME NEW r \in Requests, DeleteConfigVersion(r) PROVE ReqType'
    BY <1>18 DEF ConfigInv, ReqType, Job, PCs, Inside, DeleteConfigVersion,
       Goto, Leave
<1>19. ASSUME NEW r \in Requests, DecrementVersion(r) PROVE ReqType'
    BY <1>19 DEF ConfigInv, ReqType, Job, PCs, Inside, DecrementVersion, Goto
<1>20. ASSUME NEW r \in Requests, Unlock(r) PROVE ReqType'
    BY <1>20, NoJobType DEF ConfigInv, ReqType, Job, PCs, Purging, Unlock,
       Continue, Goto, AfterUnlock, Return
<1>21. ASSUME NEW r \in Requests, PurgeConfig(r) PROVE ReqType'
    BY <1>21, NoJobType DEF ConfigInv, ReqType, Job, PCs, Purging, PurgeConfig,
       Continue, Goto, Return
<1>22. ASSUME NEW r \in Requests, PurgeVersions(r) PROVE ReqType'
    BY <1>22 DEF ConfigInv, ReqType, PCs, Purging, PurgeVersions, Goto
<1>23. ASSUME NEW r \in Requests, PurgeCounter(r) PROVE ReqType'
    BY <1>23 DEF ConfigInv, ReqType, PCs, Purging, PurgeCounter, Goto
<1>24. ASSUME NEW r \in Requests, PurgeTag(r) PROVE ReqType'
    BY <1>24, NoJobType DEF ConfigInv, ReqType, Job, PCs, PurgeTag, Continue,
       Goto, Return
<1>25. ASSUME NEW r \in Requests, RemoveProfileData(r) PROVE ReqType'
    BY <1>25, NoJobType DEF ConfigInv, ReqType, Job, PCs, RemoveProfileData,
       Continue, Goto
<1>26. ASSUME NEW r \in Requests, StopThread(r) PROVE ReqType'
    BY <1>26, NoJobType DEF ConfigInv, ReqType, PCs, StopThread, Continue, Goto
<1>27. ASSUME NEW g \in Gens, Answer(g) PROVE ReqType'
    BY <1>27 DEF ConfigInv, ReqType, Job, PCs, Actions, Inside, Answer, Goto,
       Outcome, bounds, LockInv, ThreadInv, ActInv
<1>28. ASSUME NEW g \in Gens, Listen(g) PROVE ReqType'
    BY <1>28 DEF ConfigInv, ReqType, Listen
<1>29. ASSUME NEW r \in Requests, CallFails(r) PROVE ReqType'
    BY <1>29 DEF ConfigInv, ReqType, Job, PCs, Inside, CallFails, Leave, Goto
<1>30. ASSUME NEW r \in Requests, PurgeFails(r) PROVE ReqType'
  <2>1. PICK p \in PCs : Continue(r, p)
    BY <1>30 DEF PurgeFails, PCs, Purging, At, Return
  <2>2. (IF p = "idle" THEN NoJob ELSE [job[r] EXCEPT !.op = "Delete"]) \in Job
    BY NoJobType DEF ConfigInv, ReqType, Job
  <2> QED BY <2>1, <2>2 DEF ConfigInv, ReqType, Continue, Goto
<1>31. ASSUME NEW g \in Gens, ClusterFails(g) PROVE ReqType'
    BY <1>31 DEF ConfigInv, ReqType, Job, PCs, Inside, ClusterFails, Goto
<1>32. ASSUME Crash PROVE ReqType'
    BY <1>32, NoJobType DEF ConfigInv, ReqType, PCs, Crash
<1>33. CASE UNCHANGED vars
    BY <1>33 DEF ConfigInv, ReqType, vars
<1> QED
    BY <1>1, <1>2, <1>3, <1>4, <1>5, <1>6, <1>7, <1>8, <1>9, <1>10, <1>11,
       <1>12, <1>13, <1>14, <1>15, <1>16, <1>17, <1>18, <1>19, <1>20, <1>21,
       <1>22, <1>23, <1>24, <1>25, <1>26, <1>27, <1>28, <1>29, <1>30, <1>31,
       <1>32, <1>33 DEF Next, Step, Failure

\* Up to the version it records a request has an action: Create, Update and
\* Delete bring theirs, Rollback takes that of the version it goes back to.
LEMMA ActStep == ConfigInv /\ [Next]_vars => ActInv'
<1> SUFFICES ASSUME ConfigInv, [Next]_vars PROVE ActInv'
    OBVIOUS
<1>1. ASSUME NEW r \in Requests, Begin(r) PROVE ActInv'
    BY <1>1, BeginCalls DEF ConfigInv, ReqType, ActInv, Call, Goto
<1>2. ASSUME NEW r \in Requests, DeleteAllChecks(r) PROVE ActInv'
    BY <1>2 DEF ConfigInv, ReqType, ActInv, DeleteAllChecks, Continue, Goto,
       Return
<1>3. ASSUME NEW r \in Requests, DeleteReads(r) PROVE ActInv'
    BY <1>3 DEF ConfigInv, ReqType, Job, ActInv, DeleteReads, Goto, Continue,
       Return
<1>4. ASSUME NEW r \in Requests, GetProfileData(r) PROVE ActInv'
    BY <1>4 DEF ConfigInv, ActInv, GetProfileData, Goto, At
<1>5. ASSUME NEW r \in Requests, Lock(r) PROVE ActInv'
    BY <1>5 DEF ConfigInv, ActInv, Lock, Goto, At
<1>6. ASSUME NEW r \in Requests, ReadConfig(r) PROVE ActInv'
    BY <1>6 DEF ConfigInv, ActInv, ReadConfig, Goto
<1>7. ASSUME NEW r \in Requests, TagCurrentVersion(r) PROVE ActInv'
    BY <1>7 DEF ConfigInv, ActInv, TagCurrentVersion, Goto
<1>8. ASSUME NEW r \in Requests, ReadResources(r) PROVE ActInv'
    BY <1>8 DEF ConfigInv, ReqType, Job, ActInv, ReadResources, Goto, At, Leave
<1>9. ASSUME NEW r \in Requests, ReadCurrent(r) PROVE ActInv'
    BY <1>9 DEF ConfigInv, ReqType, ActInv, ReadCurrent, Goto
<1>10. ASSUME NEW r \in Requests, RollbackStep(r) PROVE ActInv'
    BY <1>10 DEF ConfigInv, ReqType, Job, ActInv, Actions, RollbackStep, Goto,
       Leave, DataType, Version
<1>11. ASSUME NEW r \in Requests, Send(r) PROVE ActInv'
    BY <1>11 DEF ConfigInv, ReqType, ActInv, Send, Goto, At, Leave
<1>12. ASSUME NEW r \in Requests, CreateConfig(r) PROVE ActInv'
    BY <1>12 DEF ConfigInv, ActInv, CreateConfig, Goto, At
<1>13. ASSUME NEW r \in Requests, UpdateConfig(r) PROVE ActInv'
    BY <1>13 DEF ConfigInv, ActInv, UpdateConfig, Goto, At
<1>14. ASSUME NEW r \in Requests, RestoreConfig(r) PROVE ActInv'
    BY <1>14 DEF ConfigInv, ActInv, RestoreConfig, Goto
<1>15. ASSUME NEW r \in Requests, ReadCounter(r) PROVE ActInv'
    BY <1>15 DEF ConfigInv, ActInv, ReadCounter, Goto, At
<1>16. ASSUME NEW r \in Requests, IncrementVersion(r) PROVE ActInv'
    BY <1>16 DEF ConfigInv, ActInv, IncrementVersion, Goto, At
<1>17. ASSUME NEW r \in Requests, CreateConfigVersion(r) PROVE ActInv'
    BY <1>17 DEF ConfigInv, ActInv, CreateConfigVersion, Leave, Goto
<1>18. ASSUME NEW r \in Requests, DeleteConfigVersion(r) PROVE ActInv'
    BY <1>18 DEF ConfigInv, ReqType, ActInv, DeleteConfigVersion, Goto, Leave
<1>19. ASSUME NEW r \in Requests, DecrementVersion(r) PROVE ActInv'
    BY <1>19 DEF ConfigInv, ActInv, DecrementVersion, Goto
<1>20. ASSUME NEW r \in Requests, Unlock(r) PROVE ActInv'
    BY <1>20 DEF ConfigInv, ReqType, ActInv, Unlock, Continue, Goto,
       AfterUnlock, Return
<1>21. ASSUME NEW r \in Requests, PurgeConfig(r) PROVE ActInv'
    BY <1>21 DEF ConfigInv, ReqType, ActInv, PurgeConfig, Continue, Goto, Return
<1>22. ASSUME NEW r \in Requests, PurgeVersions(r) PROVE ActInv'
    BY <1>22 DEF ConfigInv, ActInv, PurgeVersions, Goto
<1>23. ASSUME NEW r \in Requests, PurgeCounter(r) PROVE ActInv'
    BY <1>23 DEF ConfigInv, ActInv, PurgeCounter, Goto
<1>24. ASSUME NEW r \in Requests, PurgeTag(r) PROVE ActInv'
    BY <1>24 DEF ConfigInv, ReqType, ActInv, PurgeTag, Continue, Goto, Return
<1>25. ASSUME NEW r \in Requests, RemoveProfileData(r) PROVE ActInv'
    BY <1>25 DEF ConfigInv, ReqType, ActInv, RemoveProfileData, Continue, Goto
<1>26. ASSUME NEW r \in Requests, StopThread(r) PROVE ActInv'
    BY <1>26 DEF ConfigInv, ReqType, ActInv, StopThread, Continue, Goto
<1>27. ASSUME NEW g \in Gens, Answer(g) PROVE ActInv'
    BY <1>27 DEF ConfigInv, ActInv, Answer, Goto, LockInv, ThreadInv
<1>28. ASSUME NEW g \in Gens, Listen(g) PROVE ActInv'
    BY <1>28 DEF ConfigInv, ActInv, Listen
<1>29. ASSUME NEW r \in Requests, CallFails(r) PROVE ActInv'
    BY <1>29 DEF ConfigInv, ActInv, CallFails, Leave, Goto
<1>30. ASSUME NEW r \in Requests, PurgeFails(r) PROVE ActInv'
    BY <1>30 DEF ConfigInv, ActInv, PurgeFails, At, Continue, Goto, Return,
       Purging
<1>31. ASSUME NEW g \in Gens, ClusterFails(g) PROVE ActInv'
    BY <1>31 DEF ConfigInv, ActInv, ClusterFails, Goto, LockInv, ThreadInv
<1>32. ASSUME Crash PROVE ActInv'
    BY <1>32 DEF ConfigInv, ActInv, Crash
<1>33. CASE UNCHANGED vars
    BY <1>33 DEF ConfigInv, ActInv, vars
<1> QED
    BY <1>1, <1>2, <1>3, <1>4, <1>5, <1>6, <1>7, <1>8, <1>9, <1>10, <1>11,
       <1>12, <1>13, <1>14, <1>15, <1>16, <1>17, <1>18, <1>19, <1>20, <1>21,
       <1>22, <1>23, <1>24, <1>25, <1>26, <1>27, <1>28, <1>29, <1>30, <1>31,
       <1>32, <1>33 DEF Next, Step, Failure

\* A step by which a request neither comes to the mutex nor waits for an answer,
\* nor touches the registry, disturbs no mutex and no goroutine.
LEMMA KeepsLocks ==
    ASSUME ConfigInv, NEW r \in Requests, Keeps(r), UNCHANGED <<gen, holder, thread, dropped>>
    PROVE  LockInv'
<1>1. GenInv'
  BY DEF ConfigInv, LockInv, GenInv, Keeps
<1>2. HolderInv'
  BY DEF ConfigInv, LockInv, HolderInv, Keeps
<1>3. ThreadInv'
  BY DEF ConfigInv, LockInv, ThreadInv, Keeps
<1> QED BY <1>1, <1>2, <1>3 DEF LockInv

\* A request inside holds the mutex of the generation it asked for, even after
\* removeProfileData has replaced the mutex; a goroutine works for the one
\* request that waits for it, unless the list was dropped (applyConfig's select).
LEMMA LockStep == ConfigInv /\ [Next]_vars => LockInv'
<1> SUFFICES ASSUME ConfigInv, [Next]_vars PROVE LockInv'
    OBVIOUS
<1>1. ASSUME NEW r \in Requests, Begin(r) PROVE LockInv'
  <2>1. Keeps(r)
    BY <1>1, BeginCalls DEF ConfigInv, ReqType, Keeps, Inside, Call, Goto, At
  <2> QED
    BY <1>1, <2>1, KeepsLocks, BeginCalls DEF Call, profileData
<1>2. ASSUME NEW r \in Requests, DeleteAllChecks(r) PROVE LockInv'
  <2>1. Keeps(r)
    BY <1>2 DEF ConfigInv, Keeps, Inside, DeleteAllChecks, At, Continue, Goto,
       Return
  <2> QED
    BY <1>2, <2>1, KeepsLocks DEF DeleteAllChecks, profileData
<1>3. ASSUME NEW r \in Requests, DeleteReads(r) PROVE LockInv'
  <2>1. Keeps(r)
    BY <1>3 DEF ConfigInv, ReqType, Keeps, Inside, DeleteReads, Goto, At,
       Continue, Return
  <2> QED
    BY <1>3, <2>1, KeepsLocks DEF DeleteReads, profileData
<1>4. ASSUME NEW r \in Requests, GetProfileData(r) PROVE LockInv'
  <2>1. /\ gen' \in 1 .. MaxGens /\ gen' >= gen
        /\ job' = [job EXCEPT ![r].gen = gen'] /\ pc' = [pc EXCEPT ![r] = "lock"]
        /\ UNCHANGED <<holder, dropped>> /\ pc[r] = "get"
    BY <1>4, ConfigAssumption DEF ConfigInv, RegType, GetProfileData, Goto, At
  <2>2. /\ job'[r].gen = gen' /\ pc'[r] = "lock"
        /\ \A q \in Requests \ {r} : pc'[q] = pc[q] /\ job'[q] = job[q]
    BY <2>1 DEF ConfigInv, ReqType
  <2>3. GenInv'
    BY <2>1, <2>2 DEF ConfigInv, RegType, LockInv, GenInv
  <2>4. HolderInv'
    BY <2>1, <2>2 DEF ConfigInv, LockInv, HolderInv, Inside
  <2>5. \A h \in 1 .. gen : thread'[h] = thread[h]
    BY <1>4 DEF ConfigInv, RegType, GetProfileData
  <2>6. \A h \in Gens : thread'[h] \in Requests => thread'[h] = thread[h]
    BY <1>4, ConfigAssumption DEF ConfigInv, GetProfileData
  <2>7. ThreadInv'
    BY <2>1, <2>2, <2>5, <2>6 DEF ConfigInv, LockInv, GenInv, ThreadInv, Inside
  <2> QED BY <2>3, <2>4, <2>7 DEF LockInv
<1>5. ASSUME NEW r \in Requests, Lock(r) PROVE LockInv'
  <2>1. GenInv'
    BY <1>5, ConfigAssumption DEF ConfigInv, LockInv, GenInv, Lock, Goto, At
  <2>2. HolderInv'
    BY <1>5, ConfigAssumption DEF ConfigInv, RegType, LockInv, Gens, GenInv,
       HolderInv, Lock, Goto, At
  <2>3. ThreadInv'
    BY <1>5, ConfigAssumption DEF ConfigInv, LockInv, Inside, HolderInv,
       ThreadInv, Lock, Goto
  <2> QED BY <2>1, <2>2, <2>3 DEF LockInv
<1>6. ASSUME NEW r \in Requests, ReadConfig(r) PROVE LockInv'
  <2>1. Keeps(r)
    BY <1>6 DEF ConfigInv, Keeps, Inside, ReadConfig, Goto, At
  <2> QED
    BY <1>6, <2>1, KeepsLocks DEF ReadConfig, profileData
<1>7. ASSUME NEW r \in Requests, TagCurrentVersion(r) PROVE LockInv'
  <2>1. Keeps(r)
    BY <1>7 DEF ConfigInv, Keeps, Inside, TagCurrentVersion, Goto, At
  <2> QED
    BY <1>7, <2>1, KeepsLocks DEF TagCurrentVersion, profileData
<1>8. ASSUME NEW r \in Requests, ReadResources(r) PROVE LockInv'
  <2>1. Keeps(r)
    BY <1>8 DEF ConfigInv, ReqType, Job, Keeps, Inside, ReadResources, Goto, At,
       Leave
  <2> QED
    BY <1>8, <2>1, KeepsLocks DEF ReadResources, profileData
<1>9. ASSUME NEW r \in Requests, ReadCurrent(r) PROVE LockInv'
  <2>1. Keeps(r)
    BY <1>9 DEF ConfigInv, ReqType, Keeps, Inside, ReadCurrent, Goto, At
  <2> QED
    BY <1>9, <2>1, KeepsLocks DEF ReadCurrent, profileData
<1>10. ASSUME NEW r \in Requests, RollbackStep(r) PROVE LockInv'
  <2>1. Keeps(r)
    BY <1>10 DEF ConfigInv, ReqType, Job, Keeps, Inside, RollbackStep, Goto, At,
       Leave
  <2> QED
    BY <1>10, <2>1, KeepsLocks DEF RollbackStep, profileData
<1>11. ASSUME NEW r \in Requests, Send(r) PROVE LockInv'
  <2> DEFINE g == job[r].gen
  <2>1. CASE job[r].what = NoConfig
    <3>1. Keeps(r)
      BY <1>11, <2>1 DEF ConfigInv, ReqType, Job, Keeps, Inside, Send, Leave,
         Goto, At
    <3> QED BY <1>11, <2>1, <3>1, KeepsLocks DEF Send
  <2>2. CASE job[r].what # NoConfig
    <3>1. /\ pc[r] = "send" /\ pc' = [pc EXCEPT ![r] = "await"]
          /\ thread' = IF thread[g] = "listen" THEN [thread EXCEPT ![g] = r] ELSE thread
          /\ dropped' = (dropped \/ thread[g] # "listen")
          /\ UNCHANGED <<job, gen, holder>>
      BY <1>11, <2>2 DEF Send, Goto, At
    <3>2. /\ pc'[r] = "await" /\ \A q \in Requests \ {r} : pc'[q] = pc[q]
          /\ g \in 1 .. gen /\ g \in Gens
      BY <3>1, ConfigAssumption DEF ConfigInv, RegType, ReqType, LockInv,
         GenInv, Inside, Gens
    <3>3. GenInv' /\ HolderInv'
      BY <3>1, <3>2 DEF ConfigInv, LockInv, GenInv, HolderInv, Inside
    <3>4. CASE thread[g] = "listen"
      <4>1. /\ thread'[g] = r /\ \A h \in Gens \ {g} : thread'[h] = thread[h]
            /\ dropped' = dropped
        BY <3>1, <3>2, <3>4 DEF ConfigInv, RegType <4>2. \A q \in Requests :
           pc[q] = "await" => job[q].gen # g \/ dropped BY <3>4,
           ConfigAssumption DEF ConfigInv, LockInv, ThreadInv <4>3. ThreadInv'
           <5>1. ASSUME NEW h \in Gens, thread'[h] \in Requests PROVE
           pc'[thread'[h]] = "await" /\ job'[thread'[h]].gen = h BY <3>1, <3>2,
           <4>1, <5>1 DEF ConfigInv, LockInv, ThreadInv <5>2. ASSUME NEW q \in
           Requests, pc'[q] = "await" PROVE thread'[job'[q].gen] = q \/ dropped'
           BY <3>1, <3>2, <4>1, <4>2, <5>2 DEF ConfigInv, LockInv, ThreadInv <5>
           QED BY <5>1, <5>2 DEF ThreadInv <4> QED BY <3>3, <4>3 DEF LockInv
    <3>5. CASE thread[g] # "listen"
      <4>1. thread' = thread /\ dropped'
        BY <3>1, <3>5 <4>2. ThreadInv' BY <3>1, <3>2, <4>1 DEF ConfigInv,
           LockInv, ThreadInv <4> QED BY <3>3, <4>2 DEF LockInv
    <3> QED BY <3>4, <3>5
  <2> QED BY <2>1, <2>2
<1>12. ASSUME NEW r \in Requests, CreateConfig(r) PROVE LockInv'
  <2>1. Keeps(r)
    BY <1>12 DEF ConfigInv, Keeps, Inside, CreateConfig, Goto, At
  <2> QED
    BY <1>12, <2>1, KeepsLocks DEF CreateConfig, profileData
<1>13. ASSUME NEW r \in Requests, UpdateConfig(r) PROVE LockInv'
  <2>1. Keeps(r)
    BY <1>13 DEF ConfigInv, Keeps, Inside, UpdateConfig, Goto, At
  <2> QED
    BY <1>13, <2>1, KeepsLocks DEF UpdateConfig, profileData
<1>14. ASSUME NEW r \in Requests, RestoreConfig(r) PROVE LockInv'
  <2>1. Keeps(r)
    BY <1>14 DEF ConfigInv, Keeps, Inside, RestoreConfig, Goto, At
  <2> QED
    BY <1>14, <2>1, KeepsLocks DEF RestoreConfig, profileData
<1>15. ASSUME NEW r \in Requests, ReadCounter(r) PROVE LockInv'
  <2>1. Keeps(r)
    BY <1>15 DEF ConfigInv, Keeps, Inside, ReadCounter, Goto, At
  <2> QED
    BY <1>15, <2>1, KeepsLocks DEF ReadCounter, profileData
<1>16. ASSUME NEW r \in Requests, IncrementVersion(r) PROVE LockInv'
  <2>1. Keeps(r)
    BY <1>16 DEF ConfigInv, Keeps, Inside, IncrementVersion, Goto, At
  <2> QED
    BY <1>16, <2>1, KeepsLocks DEF IncrementVersion, profileData
<1>17. ASSUME NEW r \in Requests, CreateConfigVersion(r) PROVE LockInv'
  <2>1. Keeps(r)
    BY <1>17 DEF ConfigInv, Keeps, Inside, CreateConfigVersion, At, Leave, Goto
  <2> QED
    BY <1>17, <2>1, KeepsLocks DEF CreateConfigVersion, profileData
<1>18. ASSUME NEW r \in Requests, DeleteConfigVersion(r) PROVE LockInv'
  <2>1. Keeps(r)
    BY <1>18 DEF ConfigInv, ReqType, Job, Keeps, Inside, DeleteConfigVersion,
       Goto, At, Leave
  <2> QED
    BY <1>18, <2>1, KeepsLocks DEF DeleteConfigVersion, profileData
<1>19. ASSUME NEW r \in Requests, DecrementVersion(r) PROVE LockInv'
  <2>1. Keeps(r)
    BY <1>19 DEF ConfigInv, Keeps, Inside, DecrementVersion, Goto, At
  <2> QED
    BY <1>19, <2>1, KeepsLocks DEF DecrementVersion, profileData
<1>20. ASSUME NEW r \in Requests, Unlock(r) PROVE LockInv'
  <2>1. GenInv'
    BY <1>20, ConfigAssumption DEF ConfigInv, ReqType, LockInv, Inside, GenInv,
       Unlock, At, Continue, Goto
  <2>2. HolderInv'
    BY <1>20, ConfigAssumption DEF ConfigInv, ReqType, LockInv, Inside,
       HolderInv, Unlock, At, Continue, Goto, AfterUnlock, Return
  <2>3. ThreadInv'
    BY <1>20, ConfigAssumption DEF ConfigInv, LockInv, ThreadInv, Unlock, At,
       Continue, Goto, AfterUnlock, Return
  <2> QED BY <2>1, <2>2, <2>3 DEF LockInv
<1>21. ASSUME NEW r \in Requests, PurgeConfig(r) PROVE LockInv'
  <2>1. Keeps(r)
    BY <1>21 DEF ConfigInv, Keeps, Inside, PurgeConfig, At, Continue, Goto,
       Return
  <2> QED
    BY <1>21, <2>1, KeepsLocks DEF PurgeConfig, profileData
<1>22. ASSUME NEW r \in Requests, PurgeVersions(r) PROVE LockInv'
  <2>1. Keeps(r)
    BY <1>22 DEF ConfigInv, Keeps, Inside, PurgeVersions, Goto, At
  <2> QED
    BY <1>22, <2>1, KeepsLocks DEF PurgeVersions, profileData
<1>23. ASSUME NEW r \in Requests, PurgeCounter(r) PROVE LockInv'
  <2>1. Keeps(r)
    BY <1>23 DEF ConfigInv, Keeps, Inside, PurgeCounter, Goto, At
  <2> QED
    BY <1>23, <2>1, KeepsLocks DEF PurgeCounter, profileData
<1>24. ASSUME NEW r \in Requests, PurgeTag(r) PROVE LockInv'
  <2>1. Keeps(r)
    BY <1>24 DEF ConfigInv, Keeps, Inside, PurgeTag, At, Continue, Goto, Return
  <2> QED
    BY <1>24, <2>1, KeepsLocks DEF PurgeTag, profileData
<1>25. ASSUME NEW r \in Requests, RemoveProfileData(r) PROVE LockInv'
  <2>1. Keeps(r)
    BY <1>25 DEF ConfigInv, Keeps, Inside, RemoveProfileData, At, Continue, Goto
  <2> QED
    BY <1>25, <2>1, KeepsLocks DEF RemoveProfileData, profileData
<1>26. ASSUME NEW r \in Requests, StopThread(r) PROVE LockInv'
  <2>1. GenInv'
    BY <1>26, ConfigAssumption DEF ConfigInv, ReqType, LockInv, Inside, GenInv,
       StopThread, Continue, Goto
  <2>2. HolderInv'
    BY <1>26, ConfigAssumption DEF ConfigInv, ReqType, LockInv, Inside,
       HolderInv, StopThread, Continue, Goto
  <2>3. ThreadInv'
    BY <1>26, ConfigAssumption DEF ConfigInv, LockInv, ThreadInv, StopThread,
       At, Continue, Goto
  <2> QED BY <2>1, <2>2, <2>3 DEF LockInv
<1>27. ASSUME NEW g \in Gens, Answer(g) PROVE LockInv'
  <2> DEFINE r == thread[g]
  <2>1. /\ r \in Requests /\ pc[r] = "await" /\ job[r].gen = g /\ job[r] \in Job
        /\ pc' = [pc EXCEPT ![r] = "store"] /\ thread' = [thread EXCEPT ![g] = "back"]
        /\ UNCHANGED <<gen, holder, dropped>>
    BY <1>27 DEF ConfigInv, ReqType, LockInv, ThreadInv, Answer, Goto
  <2>2. PICK e : job' = [job EXCEPT ![r].res = e]
    BY <1>27 DEF Answer
  <2>3. job'[r].gen = g /\ \A q \in Requests \ {r} : job'[q] = job[q]
    BY <2>1, <2>2 DEF ConfigInv
  <2>4. /\ pc'[r] = "store" /\ \A q \in Requests \ {r} : pc'[q] = pc[q]
        /\ thread'[g] = "back" /\ \A h \in Gens \ {g} : thread'[h] = thread[h]
    BY <2>1 DEF ConfigInv, RegType, ReqType
  <2>5. GenInv' /\ HolderInv'
    BY <2>1, <2>3, <2>4 DEF ConfigInv, LockInv, GenInv, HolderInv, Inside
  <2>6. ASSUME NEW h \in Gens, thread'[h] \in Requests
        PROVE  pc'[thread'[h]] = "await" /\ job'[thread'[h]].gen = h
    <3>1. h # g /\ thread'[h] = thread[h]
      BY <2>4, <2>6, ConfigAssumption
    <3>2. pc[thread[h]] = "await" /\ job[thread[h]].gen = h
      BY <2>6, <3>1 DEF ConfigInv, LockInv, ThreadInv
    <3>3. thread[h] # r
      BY <2>1, <3>1, <3>2
    <3> QED BY <2>3, <2>4, <2>6, <3>1, <3>2, <3>3
  <2>7. ASSUME NEW q \in Requests, pc'[q] = "await"
        PROVE  thread'[job'[q].gen] = q \/ dropped'
    <3>1. q # r /\ pc[q] = "await" /\ job'[q] = job[q]
      BY <2>3, <2>4, <2>7
    <3>2. job[q].gen \in Gens
      BY <3>1, ConfigAssumption DEF ConfigInv, RegType, LockInv, GenInv, Inside,
         Gens
    <3>3. CASE dropped
      BY <2>1, <3>3
    <3>4. CASE thread[job[q].gen] = q
      BY <2>1, <2>4, <3>1, <3>2, <3>4
    <3> QED BY <3>1, <3>3, <3>4 DEF ConfigInv, LockInv, ThreadInv
  <2>8. ThreadInv'
    BY <2>6, <2>7 DEF ThreadInv
  <2> QED BY <2>5, <2>8 DEF LockInv
<1>28. ASSUME NEW g \in Gens, Listen(g) PROVE LockInv'
  <2>1. GenInv'
    BY <1>28, ConfigAssumption DEF ConfigInv, LockInv, GenInv, Listen
  <2>2. HolderInv'
    BY <1>28, ConfigAssumption DEF ConfigInv, LockInv, HolderInv, Listen
  <2>3. ThreadInv'
    BY <1>28, ConfigAssumption DEF ConfigInv, LockInv, ThreadInv, Listen
  <2> QED BY <2>1, <2>2, <2>3 DEF LockInv
<1>29. ASSUME NEW r \in Requests, CallFails(r) PROVE LockInv'
  <2>1. Keeps(r)
    BY <1>29 DEF ConfigInv, Keeps, CallFails, Leave, Goto
  <2> QED
    BY <1>29, <2>1, KeepsLocks DEF CallFails, profileData
<1>30. ASSUME NEW r \in Requests, PurgeFails(r) PROVE LockInv'
  <2>1. Keeps(r)
    BY <1>30 DEF ConfigInv, Keeps, Inside, PurgeFails, At, Continue, Goto,
       Return, Purging
  <2> QED
    BY <1>30, <2>1, KeepsLocks DEF PurgeFails, profileData
<1>31. ASSUME NEW g \in Gens, ClusterFails(g) PROVE LockInv'
  <2> DEFINE r == thread[g]
  <2>1. /\ r \in Requests /\ pc[r] = "await" /\ job[r].gen = g /\ job[r] \in Job
        /\ pc' = [pc EXCEPT ![r] = "store"] /\ thread' = [thread EXCEPT ![g] = "back"]
        /\ UNCHANGED <<gen, holder, dropped>>
    BY <1>31 DEF ConfigInv, ReqType, LockInv, ThreadInv, ClusterFails, Goto
  <2>2. PICK e : job' = [job EXCEPT ![r].res = e]
    BY <1>31 DEF ClusterFails
  <2>3. job'[r].gen = g /\ \A q \in Requests \ {r} : job'[q] = job[q]
    BY <2>1, <2>2 DEF ConfigInv
  <2>4. /\ pc'[r] = "store" /\ \A q \in Requests \ {r} : pc'[q] = pc[q]
        /\ thread'[g] = "back" /\ \A h \in Gens \ {g} : thread'[h] = thread[h]
    BY <2>1 DEF ConfigInv, RegType, ReqType
  <2>5. GenInv' /\ HolderInv'
    BY <2>1, <2>3, <2>4 DEF ConfigInv, LockInv, GenInv, HolderInv, Inside
  <2>6. ASSUME NEW h \in Gens, thread'[h] \in Requests
        PROVE  pc'[thread'[h]] = "await" /\ job'[thread'[h]].gen = h
    <3>1. h # g /\ thread'[h] = thread[h]
      BY <2>4, <2>6, ConfigAssumption
    <3>2. pc[thread[h]] = "await" /\ job[thread[h]].gen = h
      BY <2>6, <3>1 DEF ConfigInv, LockInv, ThreadInv
    <3>3. thread[h] # r
      BY <2>1, <3>1, <3>2
    <3> QED BY <2>3, <2>4, <2>6, <3>1, <3>2, <3>3
  <2>7. ASSUME NEW q \in Requests, pc'[q] = "await"
        PROVE  thread'[job'[q].gen] = q \/ dropped'
    <3>1. q # r /\ pc[q] = "await" /\ job'[q] = job[q]
      BY <2>3, <2>4, <2>7
    <3>2. job[q].gen \in Gens
      BY <3>1, ConfigAssumption DEF ConfigInv, RegType, LockInv, GenInv, Inside,
         Gens
    <3>3. CASE dropped
      BY <2>1, <3>3
    <3>4. CASE thread[job[q].gen] = q
      BY <2>1, <2>4, <3>1, <3>2, <3>4
    <3> QED BY <3>1, <3>3, <3>4 DEF ConfigInv, LockInv, ThreadInv
  <2>8. ThreadInv'
    BY <2>6, <2>7 DEF ThreadInv
  <2> QED BY <2>5, <2>8 DEF LockInv
<1>32. ASSUME Crash PROVE LockInv'
  <2>1. GenInv'
    BY <1>32, ConfigAssumption DEF ConfigInv, Inside, GenInv, Crash
  <2>2. HolderInv'
    BY <1>32, ConfigAssumption DEF ConfigInv, Inside, HolderInv, Crash
  <2>3. ThreadInv'
    BY <1>32, ConfigAssumption DEF ConfigInv, ThreadInv, Crash
  <2> QED BY <2>1, <2>2, <2>3 DEF LockInv
<1>33. CASE UNCHANGED vars
    BY <1>33 DEF ConfigInv, LockInv, GenInv, HolderInv, ThreadInv, vars,
       profileData
<1> QED
    BY <1>1, <1>2, <1>3, <1>4, <1>5, <1>6, <1>7, <1>8, <1>9, <1>10, <1>11,
       <1>12, <1>13, <1>14, <1>15, <1>16, <1>17, <1>18, <1>19, <1>20, <1>21,
       <1>22, <1>23, <1>24, <1>25, <1>26, <1>27, <1>28, <1>29, <1>30, <1>31,
       <1>32, <1>33 DEF Next, Step, Failure

\* One request at a time is in removeProfileData, and the mutex it removes is
\* there: it holds the mutex of profileData.
LEMMA StopStep == ConfigInv /\ [Next]_vars => StopInv'
<1> SUFFICES ASSUME ConfigInv, [Next]_vars PROVE StopInv'
    OBVIOUS
<1>1. ASSUME NEW r \in Requests, Begin(r) PROVE StopInv'
    BY <1>1, BeginCalls DEF ConfigInv, ReqType, StopInv, Call, Goto, profileData
<1>2. ASSUME NEW r \in Requests, DeleteAllChecks(r) PROVE StopInv'
    BY <1>2 DEF ConfigInv, StopInv, DeleteAllChecks, Continue, Goto, Return,
       profileData
<1>3. ASSUME NEW r \in Requests, DeleteReads(r) PROVE StopInv'
    BY <1>3 DEF ConfigInv, ReqType, StopInv, DeleteReads, Goto, Continue,
       Return, profileData
<1>4. ASSUME NEW r \in Requests, GetProfileData(r) PROVE StopInv'
    BY <1>4 DEF ConfigInv, StopInv, GetProfileData, Goto
<1>5. ASSUME NEW r \in Requests, Lock(r) PROVE StopInv'
    BY <1>5 DEF ConfigInv, StopInv, Lock, Goto
<1>6. ASSUME NEW r \in Requests, ReadConfig(r) PROVE StopInv'
    BY <1>6 DEF ConfigInv, StopInv, ReadConfig, Goto, profileData
<1>7. ASSUME NEW r \in Requests, TagCurrentVersion(r) PROVE StopInv'
    BY <1>7 DEF ConfigInv, StopInv, TagCurrentVersion, Goto, profileData
<1>8. ASSUME NEW r \in Requests, ReadResources(r) PROVE StopInv'
    BY <1>8 DEF ConfigInv, ReqType, StopInv, ReadResources, Goto, Leave,
       profileData
<1>9. ASSUME NEW r \in Requests, ReadCurrent(r) PROVE StopInv'
    BY <1>9 DEF ConfigInv, StopInv, ReadCurrent, Goto, profileData
<1>10. ASSUME NEW r \in Requests, RollbackStep(r) PROVE StopInv'
    BY <1>10 DEF ConfigInv, ReqType, StopInv, RollbackStep, Goto, Leave,
       profileData
<1>11. ASSUME NEW r \in Requests, Send(r) PROVE StopInv'
    BY <1>11 DEF ConfigInv, ReqType, StopInv, Send, Goto, Leave
<1>12. ASSUME NEW r \in Requests, CreateConfig(r) PROVE StopInv'
    BY <1>12 DEF ConfigInv, StopInv, CreateConfig, Goto, profileData
<1>13. ASSUME NEW r \in Requests, UpdateConfig(r) PROVE StopInv'
    BY <1>13 DEF ConfigInv, StopInv, UpdateConfig, Goto, profileData
<1>14. ASSUME NEW r \in Requests, RestoreConfig(r) PROVE StopInv'
    BY <1>14 DEF ConfigInv, StopInv, RestoreConfig, Goto, profileData
<1>15. ASSUME NEW r \in Requests, ReadCounter(r) PROVE StopInv'
    BY <1>15 DEF ConfigInv, StopInv, ReadCounter, Goto, profileData
<1>16. ASSUME NEW r \in Requests, IncrementVersion(r) PROVE StopInv'
    BY <1>16 DEF ConfigInv, StopInv, IncrementVersion, Goto, profileData
<1>17. ASSUME NEW r \in Requests, CreateConfigVersion(r) PROVE StopInv'
    BY <1>17 DEF ConfigInv, StopInv, CreateConfigVersion, Leave, Goto,
       profileData
<1>18. ASSUME NEW r \in Requests, DeleteConfigVersion(r) PROVE StopInv'
    BY <1>18 DEF ConfigInv, ReqType, StopInv, DeleteConfigVersion, Goto, Leave,
       profileData
<1>19. ASSUME NEW r \in Requests, DecrementVersion(r) PROVE StopInv'
    BY <1>19 DEF ConfigInv, StopInv, DecrementVersion, Goto, profileData
<1>20. ASSUME NEW r \in Requests, Unlock(r) PROVE StopInv'
    BY <1>20 DEF ConfigInv, StopInv, Unlock, Continue, Goto, AfterUnlock, Return
<1>21. ASSUME NEW r \in Requests, PurgeConfig(r) PROVE StopInv'
    BY <1>21 DEF ConfigInv, StopInv, PurgeConfig, Continue, Goto, Return,
       profileData
<1>22. ASSUME NEW r \in Requests, PurgeVersions(r) PROVE StopInv'
    BY <1>22 DEF ConfigInv, StopInv, PurgeVersions, Goto, profileData
<1>23. ASSUME NEW r \in Requests, PurgeCounter(r) PROVE StopInv'
    BY <1>23 DEF ConfigInv, StopInv, PurgeCounter, Goto, profileData
<1>24. ASSUME NEW r \in Requests, PurgeTag(r) PROVE StopInv'
    BY <1>24 DEF ConfigInv, StopInv, PurgeTag, Continue, Goto, Return,
       profileData
<1>25. ASSUME NEW r \in Requests, RemoveProfileData(r) PROVE StopInv'
    BY <1>25 DEF ConfigInv, StopInv, RemoveProfileData, Continue, Goto, MapFree,
       profileData
<1>26. ASSUME NEW r \in Requests, StopThread(r) PROVE StopInv'
    BY <1>26 DEF ConfigInv, ReqType, StopInv, StopThread, At, Continue, Goto
<1>27. ASSUME NEW g \in Gens, Answer(g) PROVE StopInv'
    BY <1>27 DEF ConfigInv, StopInv, Answer, Goto
<1>28. ASSUME NEW g \in Gens, Listen(g) PROVE StopInv'
    BY <1>28 DEF ConfigInv, StopInv, Listen
<1>29. ASSUME NEW r \in Requests, CallFails(r) PROVE StopInv'
    BY <1>29 DEF ConfigInv, StopInv, CallFails, Leave, Goto, profileData
<1>30. ASSUME NEW r \in Requests, PurgeFails(r) PROVE StopInv'
    BY <1>30 DEF ConfigInv, StopInv, PurgeFails, At, Continue, Goto, Return,
       profileData, Purging
<1>31. ASSUME NEW g \in Gens, ClusterFails(g) PROVE StopInv'
    BY <1>31 DEF ConfigInv, StopInv, ClusterFails, Goto
<1>32. ASSUME Crash PROVE StopInv'
    BY <1>32 DEF ConfigInv, StopInv, Crash
<1>33. CASE UNCHANGED vars
    BY <1>33 DEF ConfigInv, StopInv, vars, profileData
<1> QED
    BY <1>1, <1>2, <1>3, <1>4, <1>5, <1>6, <1>7, <1>8, <1>9, <1>10, <1>11,
       <1>12, <1>13, <1>14, <1>15, <1>16, <1>17, <1>18, <1>19, <1>20, <1>21,
       <1>22, <1>23, <1>24, <1>25, <1>26, <1>27, <1>28, <1>29, <1>30, <1>31,
       <1>32, <1>33 DEF Next, Step, Failure

\* As long as no door is used (a second mutex, DeleteAll's deletions), the
\* mutex of the instance lets one request at a time in.
LEMMA ExclusiveStep == ConfigInv /\ [Next]_vars => Exclusive'
<1> SUFFICES ASSUME ConfigInv, [Next]_vars PROVE Exclusive'
    OBVIOUS
<1>1. ASSUME NEW r \in Requests, Begin(r) PROVE Exclusive'
    BY <1>1, BeginCalls DEF ConfigInv, ReqType, Exclusive, Sound, Inside,
       Purging, Call, Goto
<1>2. ASSUME NEW r \in Requests, DeleteAllChecks(r) PROVE Exclusive'
    BY <1>2 DEF ConfigInv, Exclusive, Sound, Inside, Purging, DeleteAllChecks,
       Continue, Goto, Return, Overlap
<1>3. ASSUME NEW r \in Requests, DeleteReads(r) PROVE Exclusive'
    BY <1>3 DEF ConfigInv, ReqType, Exclusive, Sound, Inside, Purging,
       DeleteReads, Goto, Continue, Return
<1>4. ASSUME NEW r \in Requests, GetProfileData(r) PROVE Exclusive'
    BY <1>4 DEF ConfigInv, Exclusive, Sound, Inside, Purging, GetProfileData,
       Goto
<1>5. ASSUME NEW r \in Requests, Lock(r) PROVE Exclusive'
    BY <1>5 DEF ConfigInv, Exclusive, Sound, Lock, Goto, Overlap
<1>6. ASSUME NEW r \in Requests, ReadConfig(r) PROVE Exclusive'
    BY <1>6 DEF ConfigInv, Exclusive, Sound, Inside, ReadConfig, Goto, At
<1>7. ASSUME NEW r \in Requests, TagCurrentVersion(r) PROVE Exclusive'
    BY <1>7 DEF ConfigInv, Exclusive, Sound, Inside, TagCurrentVersion, Goto, At
<1>8. ASSUME NEW r \in Requests, ReadResources(r) PROVE Exclusive'
    BY <1>8 DEF ConfigInv, ReqType, Exclusive, Sound, Inside, ReadResources,
       Goto, At, Leave
<1>9. ASSUME NEW r \in Requests, ReadCurrent(r) PROVE Exclusive'
    BY <1>9 DEF ConfigInv, Exclusive, Sound, Inside, ReadCurrent, Goto, At
<1>10. ASSUME NEW r \in Requests, RollbackStep(r) PROVE Exclusive'
    BY <1>10 DEF ConfigInv, ReqType, Exclusive, Sound, Inside, RollbackStep,
       Goto, At, Leave
<1>11. ASSUME NEW r \in Requests, Send(r) PROVE Exclusive'
    BY <1>11 DEF ConfigInv, ReqType, Exclusive, Sound, Inside, Send, Goto, At,
       Leave
<1>12. ASSUME NEW r \in Requests, CreateConfig(r) PROVE Exclusive'
    BY <1>12 DEF ConfigInv, Exclusive, Sound, Inside, CreateConfig, Goto, At
<1>13. ASSUME NEW r \in Requests, UpdateConfig(r) PROVE Exclusive'
    BY <1>13 DEF ConfigInv, Exclusive, Sound, Inside, UpdateConfig, Goto, At
<1>14. ASSUME NEW r \in Requests, RestoreConfig(r) PROVE Exclusive'
    BY <1>14 DEF ConfigInv, Exclusive, Sound, Inside, RestoreConfig, Goto, At
<1>15. ASSUME NEW r \in Requests, ReadCounter(r) PROVE Exclusive'
    BY <1>15 DEF ConfigInv, Exclusive, Sound, Inside, ReadCounter, Goto, At
<1>16. ASSUME NEW r \in Requests, IncrementVersion(r) PROVE Exclusive'
    BY <1>16 DEF ConfigInv, Exclusive, Sound, Inside, IncrementVersion, Goto, At
<1>17. ASSUME NEW r \in Requests, CreateConfigVersion(r) PROVE Exclusive'
    BY <1>17 DEF ConfigInv, Exclusive, Sound, Inside, CreateConfigVersion, At,
       Leave, Goto
<1>18. ASSUME NEW r \in Requests, DeleteConfigVersion(r) PROVE Exclusive'
    BY <1>18 DEF ConfigInv, ReqType, Exclusive, Sound, Inside,
       DeleteConfigVersion, Goto, At, Leave
<1>19. ASSUME NEW r \in Requests, DecrementVersion(r) PROVE Exclusive'
    BY <1>19 DEF ConfigInv, Exclusive, Sound, Inside, DecrementVersion, Goto, At
<1>20. ASSUME NEW r \in Requests, Unlock(r) PROVE Exclusive'
    BY <1>20 DEF ConfigInv, Exclusive, Sound, Inside, Unlock, At, Continue, Goto
<1>21. ASSUME NEW r \in Requests, PurgeConfig(r) PROVE Exclusive'
    BY <1>21 DEF ConfigInv, Exclusive, Sound, Purging, PurgeConfig, At,
       Continue, Goto
<1>22. ASSUME NEW r \in Requests, PurgeVersions(r) PROVE Exclusive'
    BY <1>22 DEF ConfigInv, Exclusive, Sound, Purging, PurgeVersions, Goto, At
<1>23. ASSUME NEW r \in Requests, PurgeCounter(r) PROVE Exclusive'
    BY <1>23 DEF ConfigInv, Exclusive, Sound, Purging, PurgeCounter, Goto, At
<1>24. ASSUME NEW r \in Requests, PurgeTag(r) PROVE Exclusive'
    BY <1>24 DEF ConfigInv, Exclusive, Sound, Purging, PurgeTag, At, Continue,
       Goto
<1>25. ASSUME NEW r \in Requests, RemoveProfileData(r) PROVE Exclusive'
    BY <1>25 DEF ConfigInv, Exclusive, Sound, Inside, Purging,
       RemoveProfileData, Continue, Goto
<1>26. ASSUME NEW r \in Requests, StopThread(r) PROVE Exclusive'
    BY <1>26 DEF ConfigInv, Exclusive, Sound, Inside, Purging, StopThread,
       Continue, Goto
<1>27. ASSUME NEW g \in Gens, Answer(g) PROVE Exclusive'
    BY <1>27 DEF ConfigInv, Exclusive, Sound, Inside, Answer, Goto, LockInv,
       ThreadInv
<1>28. ASSUME NEW g \in Gens, Listen(g) PROVE Exclusive'
    BY <1>28 DEF ConfigInv, Exclusive, Sound, Listen
<1>29. ASSUME NEW r \in Requests, CallFails(r) PROVE Exclusive'
    BY <1>29 DEF ConfigInv, Exclusive, Sound, CallFails, Leave, Goto, Fault
<1>30. ASSUME NEW r \in Requests, PurgeFails(r) PROVE Exclusive'
    BY <1>30 DEF ConfigInv, Exclusive, Sound, PurgeFails, Fault
<1>31. ASSUME NEW g \in Gens, ClusterFails(g) PROVE Exclusive'
    BY <1>31 DEF ConfigInv, Exclusive, Sound, Inside, ClusterFails, Goto, Fault,
       LockInv, ThreadInv
<1>32. ASSUME Crash PROVE Exclusive'
    BY <1>32 DEF ConfigInv, Exclusive, Inside, Purging, Crash
<1>33. CASE UNCHANGED vars
    BY <1>33 DEF ConfigInv, Exclusive, Sound, vars
<1> QED
    BY <1>1, <1>2, <1>3, <1>4, <1>5, <1>6, <1>7, <1>8, <1>9, <1>10, <1>11,
       <1>12, <1>13, <1>14, <1>15, <1>16, <1>17, <1>18, <1>19, <1>20, <1>21,
       <1>22, <1>23, <1>24, <1>25, <1>26, <1>27, <1>28, <1>29, <1>30, <1>31,
       <1>32, <1>33 DEF Next, Step, Failure

\* What one request writes by itself disturbs no other: the others have read
\* nothing yet.
LEMMA OthersStay ==
    ASSUME ConfigInv, NEW r \in Requests, Alone(r), Sound, Place(r)'
    PROVE  \A q \in Requests : Place(q)'
<1> SUFFICES ASSUME NEW q \in Requests, q # r PROVE Place(q)'
    OBVIOUS
<1>1. Place(q)
  BY DEF ConfigInv, Between
<1>2. pc'[q] = pc[q] /\ job'[q] = job[q]
  BY DEF Alone
<1>3. CASE UNCHANGED <<counter, versions>>
  BY <1>1, <1>2, <1>3 DEF Place
<1>4. CASE pc[r] \in Inside \cup Purging
  <2>1. pc[q] \notin Inside \cup Purging
    BY <1>4 DEF ConfigInv, Exclusive
  <2> QED BY <1>2, <2>1 DEF Place, Inside, Purging
<1> QED BY <1>3, <1>4 DEF Alone

\* What a request has read of the counter is still true where it writes:
\* incrementVersion and the loops of Rollback are not undercut.
LEMMA BetweenStep == ConfigInv /\ [Next]_vars => Between'
<1> SUFFICES ASSUME ConfigInv, [Next]_vars PROVE Between'
    OBVIOUS
<1>1. ASSUME NEW r \in Requests, Begin(r) PROVE Between'
  <2>1. PICK p \in {"get", "delete", "check"}, j \in Job : Call(r, p, j)
    BY <1>1, BeginCalls
  <2>2. pc'[r] = p /\ Alone(r) /\ (Sound' => Sound)
    BY <2>1 DEF ConfigInv, ReqType, Call, Goto, Alone, Sound, etcd
  <2> QED BY <2>1, <2>2, OthersStay DEF Between, Place
<1>2. ASSUME NEW r \in Requests, DeleteAllChecks(r) PROVE Between'
  <2>1. Alone(r) /\ (Sound' => Sound)
    BY <1>2 DEF ConfigInv, Alone, Sound, DeleteAllChecks, Continue, Goto, etcd
  <2>2. Sound' => Place(r)'
    BY <1>2, <2>1 DEF ConfigInv, ReqType, Place, DeleteAllChecks, Continue,
       Goto, Return
  <2> QED BY <2>1, <2>2, OthersStay DEF Between
<1>3. ASSUME NEW r \in Requests, DeleteReads(r) PROVE Between'
  <2>1. Alone(r) /\ (Sound' => Sound)
    BY <1>3 DEF ConfigInv, ReqType, Alone, Sound, DeleteReads, Goto, Continue,
       etcd
  <2>2. Sound' => Place(r)'
    BY <1>3, <2>1 DEF ConfigInv, ReqType, Place, DeleteReads, Goto, Continue,
       Return
  <2> QED BY <2>1, <2>2, OthersStay DEF Between
<1>4. ASSUME NEW r \in Requests, GetProfileData(r) PROVE Between'
  <2>1. Alone(r) /\ (Sound' => Sound)
    BY <1>4 DEF ConfigInv, Alone, Sound, GetProfileData, Goto, etcd
  <2>2. Sound' => Place(r)'
    BY <1>4, <2>1 DEF ConfigInv, ReqType, Place, GetProfileData, Goto
  <2> QED BY <2>1, <2>2, OthersStay DEF Between
<1>5. ASSUME NEW r \in Requests, Lock(r) PROVE Between'
  <2>1. Alone(r) /\ (Sound' => Sound)
    BY <1>5 DEF ConfigInv, Alone, Sound, Lock, Goto, etcd
  <2>2. Sound' => Place(r)'
    BY <1>5, <2>1 DEF ConfigInv, ReqType, Place, Lock, Goto
  <2> QED BY <2>1, <2>2, OthersStay DEF Between
<1>6. ASSUME NEW r \in Requests, ReadConfig(r) PROVE Between'
  <2>1. Alone(r) /\ (Sound' => Sound)
    BY <1>6 DEF ConfigInv, Alone, Sound, Inside, ReadConfig, Goto, At
  <2>2. Sound' => Place(r)'
    BY <1>6, <2>1 DEF ConfigInv, ReqType, Place, ReadConfig, Goto
  <2> QED BY <2>1, <2>2, OthersStay DEF Between
<1>7. ASSUME NEW r \in Requests, TagCurrentVersion(r) PROVE Between'
  <2>1. Alone(r) /\ (Sound' => Sound)
    BY <1>7 DEF ConfigInv, Alone, Sound, TagCurrentVersion, Goto
  <2>2. Sound' => Place(r)'
    BY <1>7, <2>1 DEF ConfigInv, Between, Place, TagCurrentVersion, Goto
  <2> QED BY <2>1, <2>2, OthersStay DEF Between
<1>8. ASSUME NEW r \in Requests, ReadResources(r) PROVE Between'
  <2>1. Alone(r) /\ (Sound' => Sound)
    BY <1>8 DEF ConfigInv, ReqType, Alone, Sound, Inside, ReadResources, Goto,
       At, Leave
  <2>2. CASE counter \in DOMAIN versions
    <3>1. pc'[r] = "send" /\ job'[r].op = "Delete"
      BY <1>8, <2>2 DEF ConfigInv, ReqType, Job, ReadResources, Goto
    <3> QED BY <2>1, <3>1, OthersStay DEF Between, Place
  <2>3. CASE counter \notin DOMAIN versions
    <3>1. pc'[r] = "unlock"
      BY <1>8, <2>3 DEF ConfigInv, ReqType, ReadResources, Leave, Goto
    <3> QED BY <2>1, <3>1, OthersStay DEF Between, Place
  <2> QED BY <2>2, <2>3
<1>9. ASSUME NEW r \in Requests, ReadCurrent(r) PROVE Between'
  <2>1. Alone(r) /\ (Sound' => Sound)
    BY <1>9 DEF ConfigInv, ReqType, Alone, Sound, Inside, ReadCurrent, Goto, At
  <2>2. Sound' => Place(r)'
    BY <1>9, <2>1 DEF ConfigInv, ReqType, Place, ReadCurrent, Goto, etcd
  <2> QED BY <2>1, <2>2, OthersStay DEF Between
<1>10. ASSUME NEW r \in Requests, RollbackStep(r) PROVE Between'
  <2>1. Alone(r) /\ (Sound' => Sound)
    BY <1>10 DEF ConfigInv, ReqType, Alone, Sound, Inside, RollbackStep, Goto,
       At, Leave
  <2>2. Sound' => Place(r)'
    BY <1>10, <2>1 DEF ConfigInv, ReqType, Job, Between, Place, RollbackStep,
       Goto, At, Leave, etcd
  <2> QED BY <2>1, <2>2, OthersStay DEF Between
<1>11. ASSUME NEW r \in Requests, Send(r) PROVE Between'
  <2>1. Alone(r) /\ (Sound' => Sound)
    BY <1>11 DEF ConfigInv, ReqType, Alone, Sound, Inside, Send, Goto, At, Leave
  <2>2. Sound' => Place(r)'
    BY <1>11, <2>1 DEF ConfigInv, ReqType, Between, Place, Send, Goto, At,
       Leave, etcd
  <2> QED BY <2>1, <2>2, OthersStay DEF Between
<1>12. ASSUME NEW r \in Requests, CreateConfig(r) PROVE Between'
  <2>1. Alone(r) /\ (Sound' => Sound)
    BY <1>12 DEF ConfigInv, Alone, Sound, CreateConfig, Goto
  <2>2. Sound' => Place(r)'
    BY <1>12, <2>1 DEF ConfigInv, Between, Place, CreateConfig, Goto
  <2> QED BY <2>1, <2>2, OthersStay DEF Between
<1>13. ASSUME NEW r \in Requests, UpdateConfig(r) PROVE Between'
  <2>1. Alone(r) /\ (Sound' => Sound)
    BY <1>13 DEF ConfigInv, Alone, Sound, UpdateConfig, Goto
  <2>2. Sound' => Place(r)'
    BY <1>13, <2>1 DEF ConfigInv, Between, Place, UpdateConfig, Goto
  <2> QED BY <2>1, <2>2, OthersStay DEF Between
<1>14. ASSUME NEW r \in Requests, RestoreConfig(r) PROVE Between'
  <2>1. Alone(r) /\ (Sound' => Sound)
    BY <1>14 DEF ConfigInv, Alone, Sound, RestoreConfig, Goto
  <2>2. Sound' => Place(r)'
    BY <1>14, <2>1 DEF ConfigInv, Between, Place, RestoreConfig, Goto, At
  <2> QED BY <2>1, <2>2, OthersStay DEF Between
<1>15. ASSUME NEW r \in Requests, ReadCounter(r) PROVE Between'
  <2>1. Alone(r) /\ (Sound' => Sound)
    BY <1>15 DEF ConfigInv, Alone, Sound, Inside, ReadCounter, Goto, At
  <2>2. Sound' => Place(r)'
    BY <1>15, <2>1 DEF ConfigInv, ReqType, Place, ReadCounter, Goto, etcd
  <2> QED BY <2>1, <2>2, OthersStay DEF Between
<1>16. ASSUME NEW r \in Requests, IncrementVersion(r) PROVE Between'
  <2>1. Alone(r) /\ (Sound' => Sound)
    BY <1>16 DEF ConfigInv, Alone, Sound, Inside, IncrementVersion, Goto, At
  <2>2. Sound' => Place(r)'
    BY <1>16, <2>1 DEF ConfigInv, ReqType, DataType, Between, CountInv, Place,
       IncrementVersion, Goto, At
  <2> QED BY <2>1, <2>2, OthersStay DEF Between
<1>17. ASSUME NEW r \in Requests, CreateConfigVersion(r) PROVE Between'
  <2>1. Alone(r) /\ (Sound' => Sound)
    BY <1>17 DEF ConfigInv, Alone, Sound, Inside, CreateConfigVersion, At,
       Leave, Goto
  <2>2. Sound' => Place(r)'
    BY <1>17, <2>1 DEF ConfigInv, ReqType, Place, CreateConfigVersion, Leave,
       Goto
  <2> QED BY <2>1, <2>2, OthersStay DEF Between
<1>18. ASSUME NEW r \in Requests, DeleteConfigVersion(r) PROVE Between'
  <2>1. Alone(r) /\ (Sound' => Sound)
    BY <1>18 DEF ConfigInv, ReqType, Alone, Sound, Inside, DeleteConfigVersion,
       Goto, At, Leave
  <2>2. Sound' => Place(r)'
    BY <1>18, <2>1 DEF ConfigInv, ReqType, Job, Between, CountInv, Place,
       Restrict, DeleteConfigVersion, Goto, At, Leave, Above
  <2> QED BY <2>1, <2>2, OthersStay DEF Between
<1>19. ASSUME NEW r \in Requests, DecrementVersion(r) PROVE Between'
  <2>1. Alone(r) /\ (Sound' => Sound)
    BY <1>19 DEF ConfigInv, Alone, Sound, Inside, DecrementVersion, Goto, At
  <2>2. Sound' => Place(r)'
    BY <1>19, <2>1 DEF ConfigInv, ReqType, Between, Place, DecrementVersion,
       Goto, At
  <2> QED BY <2>1, <2>2, OthersStay DEF Between
<1>20. ASSUME NEW r \in Requests, Unlock(r) PROVE Between'
  <2>1. Alone(r) /\ (Sound' => Sound)
    BY <1>20 DEF ConfigInv, Alone, Sound, Inside, Unlock, At, Continue, Goto
  <2>2. Sound' => Place(r)'
    BY <1>20, <2>1 DEF ConfigInv, ReqType, Place, Unlock, Continue, Goto,
       AfterUnlock, Return
  <2> QED BY <2>1, <2>2, OthersStay DEF Between
<1>21. ASSUME NEW r \in Requests, PurgeConfig(r) PROVE Between'
  <2>1. Alone(r) /\ (Sound' => Sound)
    BY <1>21 DEF ConfigInv, Alone, Sound, PurgeConfig, Continue, Goto
  <2>2. Sound' => Place(r)'
    BY <1>21, <2>1 DEF ConfigInv, ReqType, Place, PurgeConfig, Continue, Goto,
       Return
  <2> QED BY <2>1, <2>2, OthersStay DEF Between
<1>22. ASSUME NEW r \in Requests, PurgeVersions(r) PROVE Between'
  <2>1. Alone(r) /\ (Sound' => Sound)
    BY <1>22 DEF ConfigInv, Alone, Sound, Purging, PurgeVersions, Goto, At
  <2>2. Sound' => Place(r)'
    BY <1>22, <2>1 DEF ConfigInv, Between, Place, Restrict, PurgeVersions, Goto
  <2> QED BY <2>1, <2>2, OthersStay DEF Between
<1>23. ASSUME NEW r \in Requests, PurgeCounter(r) PROVE Between'
  <2>1. Alone(r) /\ (Sound' => Sound)
    BY <1>23 DEF ConfigInv, Alone, Sound, Purging, PurgeCounter, Goto, At
  <2>2. Sound' => Place(r)'
    BY <1>23, <2>1 DEF ConfigInv, ReqType, Place, PurgeCounter, Goto
  <2> QED BY <2>1, <2>2, OthersStay DEF Between
<1>24. ASSUME NEW r \in Requests, PurgeTag(r) PROVE Between'
  <2>1. Alone(r) /\ (Sound' => Sound)
    BY <1>24 DEF ConfigInv, Alone, Sound, PurgeTag, Continue, Goto
  <2>2. Sound' => Place(r)'
    BY <1>24, <2>1 DEF ConfigInv, ReqType, Place, PurgeTag, Continue, Goto,
       Return
  <2> QED BY <2>1, <2>2, OthersStay DEF Between
<1>25. ASSUME NEW r \in Requests, RemoveProfileData(r) PROVE Between'
  <2>1. Alone(r) /\ (Sound' => Sound)
    BY <1>25 DEF ConfigInv, Alone, Sound, RemoveProfileData, Continue, Goto,
       etcd
  <2>2. Sound' => Place(r)'
    BY <1>25, <2>1 DEF ConfigInv, ReqType, Place, RemoveProfileData, Continue,
       Goto
  <2> QED BY <2>1, <2>2, OthersStay DEF Between
<1>26. ASSUME NEW r \in Requests, StopThread(r) PROVE Between'
  <2>1. Alone(r) /\ (Sound' => Sound)
    BY <1>26 DEF ConfigInv, Alone, Sound, StopThread, Continue, Goto, etcd
  <2>2. Sound' => Place(r)'
    BY <1>26, <2>1 DEF ConfigInv, ReqType, Place, StopThread, Continue, Goto
  <2> QED BY <2>1, <2>2, OthersStay DEF Between
<1>27. ASSUME NEW g \in Gens, Answer(g) PROVE Between'
  <2> PICK r \in Requests : r = thread[g]
    BY <1>27 DEF Answer
  <2>1. /\ pc[r] = "await" /\ job[r] \in Job
        /\ pc' = [pc EXCEPT ![r] = "store"]
        /\ UNCHANGED <<counter, versions>>
    BY <1>27 DEF ConfigInv, ReqType, LockInv, ThreadInv, Answer, Goto, etcd
  <2>2. Sound' => Sound
    BY <1>27 DEF Sound, Answer
  <2>3. PICK e : job' = [job EXCEPT ![r].res = e]
    BY <1>27 DEF Answer
  <2>4. /\ pc'[r] = "store" /\ job'[r].op = job[r].op /\ job'[r].cur = job[r].cur
        /\ Alone(r)
    BY <2>1, <2>3 DEF ConfigInv, ReqType, Alone
  <2>5. Sound' => Place(r)'
    BY <2>1, <2>2, <2>4 DEF ConfigInv, Between, Place
  <2> QED BY <2>1, <2>2, <2>4, <2>5, OthersStay DEF Between
<1>28. ASSUME NEW g \in Gens, Listen(g) PROVE Between'
  BY <1>28 DEF ConfigInv, Between, Sound, Place, Listen, etcd
<1>29. ASSUME NEW r \in Requests, CallFails(r) PROVE Between'
  <2>1. Alone(r) /\ (Sound' => Sound)
    BY <1>29 DEF ConfigInv, Alone, Sound, CallFails, Leave, Goto, Fault
  <2>2. Sound' => Place(r)'
    BY <1>29, <2>1 DEF ConfigInv, ReqType, Place, CallFails, Leave, Goto
  <2> QED BY <2>1, <2>2, OthersStay DEF Between
<1>30. ASSUME NEW r \in Requests, PurgeFails(r) PROVE Between'
  <2>1. Alone(r) /\ (Sound' => Sound)
    BY <1>30 DEF ConfigInv, Alone, Sound, PurgeFails, Continue, Goto, Fault
  <2>2. Sound' => Place(r)'
    BY <1>30, <2>1 DEF ConfigInv, Place, Sound, PurgeFails, Fault
  <2> QED BY <2>1, <2>2, OthersStay DEF Between
<1>31. ASSUME NEW g \in Gens, ClusterFails(g) PROVE Between'
  <2> PICK r \in Requests : r = thread[g]
    BY <1>31 DEF ClusterFails
  <2>1. /\ pc[r] = "await" /\ job[r] \in Job
        /\ pc' = [pc EXCEPT ![r] = "store"]
        /\ UNCHANGED <<counter, versions>>
    BY <1>31 DEF ConfigInv, ReqType, LockInv, ThreadInv, ClusterFails, Goto,
       etcd
  <2>2. Sound' => Sound
    BY <1>31 DEF Sound, ClusterFails, Fault
  <2>3. PICK e : job' = [job EXCEPT ![r].res = e]
    BY <1>31 DEF ClusterFails
  <2>4. /\ pc'[r] = "store" /\ job'[r].op = job[r].op /\ job'[r].cur = job[r].cur
        /\ Alone(r)
    BY <2>1, <2>3 DEF ConfigInv, ReqType, Alone
  <2>5. Sound' => Place(r)'
    BY <2>1, <2>2, <2>4 DEF ConfigInv, Between, Place
  <2> QED BY <2>1, <2>2, <2>4, <2>5, OthersStay DEF Between
<1>32. ASSUME Crash PROVE Between'
  BY <1>32 DEF Between, Place, Crash
<1>33. CASE UNCHANGED vars
    BY <1>33 DEF ConfigInv, Between, Place, Sound, vars, etcd
<1> QED
    BY <1>1, <1>2, <1>3, <1>4, <1>5, <1>6, <1>7, <1>8, <1>9, <1>10, <1>11,
       <1>12, <1>13, <1>14, <1>15, <1>16, <1>17, <1>18, <1>19, <1>20, <1>21,
       <1>22, <1>23, <1>24, <1>25, <1>26, <1>27, <1>28, <1>29, <1>30, <1>31,
       <1>32, <1>33 DEF Next, Step, Failure

\* No version is stored under a number that is not counted: the counter goes
\* up before a version is stored (createConfigVersion) and down after it is
\* deleted (deleteConfigVersion), and cleanup deletes the versions first.
LEMMA CountStep == ConfigInv /\ [Next]_vars => CountInv'
<1> SUFFICES ASSUME ConfigInv, [Next]_vars PROVE CountInv'
    OBVIOUS
<1>1. Sound' => Sound
    BY Effects DEF Effect
<1>2. ASSUME NEW r \in Requests, IncrementVersion(r) PROVE CountInv'
  <2>1. Sound' => Sound /\ counter' = counter + 1 /\ versions' = versions
    BY <1>2, <1>1 DEF ConfigInv, Between, Place, IncrementVersion, At
  <2> QED BY <2>1 DEF ConfigInv, DataType, CountInv
<1>3. ASSUME NEW r \in Requests, CreateConfigVersion(r) PROVE CountInv'
  <2>1. Sound' => /\ job[r].cur = counter /\ counter > 0 /\ Sound
    BY <1>3, <1>1 DEF ConfigInv, Between, Place, CreateConfigVersion, At
  <2>2. DOMAIN versions' = DOMAIN versions \cup {job[r].cur} /\ counter' = counter
    BY <1>3, <1>1 DEF CreateConfigVersion
  <2> QED BY <2>1, <2>2 DEF ConfigInv, DataType, CountInv
<1>4. ASSUME NEW r \in Requests, DeleteConfigVersion(r) PROVE CountInv'
  <2>1. DOMAIN versions' \subseteq DOMAIN versions /\ counter' = counter /\ doors' = doors
    BY <1>4, <1>1 DEF DeleteConfigVersion, Restrict
  <2> QED BY <2>1 DEF ConfigInv, CountInv, Sound
<1>5. ASSUME NEW r \in Requests, DecrementVersion(r) PROVE CountInv'
  <2>1. Sound' => counter > 0 /\ counter \notin DOMAIN versions /\ Sound
    BY <1>5, <1>1 DEF ConfigInv, Between, Place, DecrementVersion, At
  <2>2. versions' = versions /\ counter' = counter - 1
    BY <1>5, <1>1 DEF DecrementVersion
  <2> QED BY <2>1, <2>2 DEF ConfigInv, DataType, CountInv
<1>6. ASSUME NEW r \in Requests, PurgeVersions(r) PROVE CountInv'
  <2>1. DOMAIN versions' = {} /\ counter' = counter /\ doors' = doors
    BY <1>6, <1>1 DEF PurgeVersions, Restrict
  <2> QED BY <2>1 DEF ConfigInv, CountInv, Sound
<1>7. ASSUME NEW r \in Requests, PurgeCounter(r) PROVE CountInv'
  <2>1. Sound' => DOMAIN versions = {}
    BY <1>7, <1>1 DEF ConfigInv, Between, Place, PurgeCounter, At
  <2>2. counter' = 0 /\ versions' = versions
    BY <1>7, <1>1 DEF PurgeCounter
  <2> QED BY <2>1, <2>2 DEF CountInv
<1>8. CASE UNCHANGED <<counter, versions>>
    BY <1>8, <1>1 DEF ConfigInv, CountInv
<1> QED
    BY <1>2, <1>3, <1>4, <1>5, <1>6, <1>7, <1>8, Effects DEF Effect,
       CountWritten

\* Only a number that is counted and not stored is written: what a number
\* stands for never changes (createConfigVersion).
LEMMA StaysStep == ConfigInv /\ [Next]_vars => Stays
<1> SUFFICES ASSUME ConfigInv, [Next]_vars PROVE Stays
    OBVIOUS
<1>1. Sound' => Sound
    BY Effects DEF Effect
<1>2. ASSUME NEW r \in Requests, IncrementVersion(r) PROVE Stays
    BY <1>2, <1>1 DEF Stays, IncrementVersion
<1>3. ASSUME NEW r \in Requests, CreateConfigVersion(r) PROVE Stays
  <2>1. Sound' => counter \notin DOMAIN versions /\ job[r].cur = counter
    BY <1>3, <1>1 DEF ConfigInv, Between, Place, CreateConfigVersion, At
  <2>2. \A n \in DOMAIN versions : n # job[r].cur => versions'[n] = versions[n]
    BY <1>3, <1>1 DEF CreateConfigVersion
  <2> QED BY <2>1, <2>2 DEF Stays
<1>4. ASSUME NEW r \in Requests, DeleteConfigVersion(r) PROVE Stays
    BY <1>4, <1>1 DEF Stays, DeleteConfigVersion, Restrict
<1>5. ASSUME NEW r \in Requests, DecrementVersion(r) PROVE Stays
    BY <1>5, <1>1 DEF Stays, DecrementVersion
<1>6. ASSUME NEW r \in Requests, PurgeVersions(r) PROVE Stays
    BY <1>6, <1>1 DEF Stays, PurgeVersions, Restrict
<1>7. ASSUME NEW r \in Requests, PurgeCounter(r) PROVE Stays
    BY <1>7, <1>1 DEF Stays, PurgeCounter
<1>8. CASE UNCHANGED <<counter, versions>>
    BY <1>8, <1>1 DEF Stays
<1> QED
    BY <1>2, <1>3, <1>4, <1>5, <1>6, <1>7, <1>8, Effects DEF Effect,
       CountWritten

-----------------------------------------------------------------------------
\* The invariant holds before the first request.
LEMMA InitInv == Init => ConfigInv
<1> SUFFICES ASSUME Init PROVE ConfigInv
    OBVIOUS
<1>1. DataType /\ CountInv
  BY DEF Init, DataType, CountInv, Configs, NoTag
<1>2. RegType
  <2>1. gen \in 0 .. MaxGens /\ present = FALSE /\ dropped = FALSE
    BY ConfigAssumption DEF Init
  <2>2. /\ holder \in [Gens -> Requests \cup {NoOne}]
        /\ thread \in [Gens -> Requests \cup {"listen", "back", "stopped"}]
    BY DEF Init
  <2> QED BY <2>1, <2>2 DEF RegType
<1>3. ReqType
  BY NoJobType DEF Init, ReqType, PCs
<1>4. \A r \in Requests : pc[r] = "idle"
  BY DEF Init
<1>5. ActInv /\ GenInv /\ HolderInv /\ StopInv /\ Exclusive /\ Between
  BY <1>4 DEF ActInv, GenInv, HolderInv, StopInv, Exclusive, Between, Place,
     Inside, Purging
<1>6. ThreadInv
  BY <1>4, ConfigAssumption DEF Init, ThreadInv
<1> QED BY <1>1, <1>2, <1>3, <1>5, <1>6 DEF ConfigInv, LockInv

\* The invariant holds at every moment.
LEMMA ConfigInvariant == Spec => []ConfigInv
<1>1. ConfigInv /\ [Next]_vars => ConfigInv'
  BY DataStep, RegStep, ReqStep, ActStep, LockStep, StopStep, ExclusiveStep,
     BetweenStep, CountStep DEF ConfigInv
<1> QED BY <1>1, InitInv, PTL DEF Spec

\* Types, for all constants: etcd and the cluster hold what they should, a
\* request inside holds the mutex it asked for, and one that waits for an answer
\* is the one its goroutine works for unless its list was dropped (applyConfig).
THEOREM TypeCorrect == Spec => []TypeOK
<1>1. ConfigInv => TypeOK
  BY DEF ConfigInv, DataType, RegType, LockInv, HolderInv, ThreadInv, TypeOK,
     Configs, At
<1> QED BY <1>1, ConfigInvariant, PTL

\* At every moment, failures and crashes included, no version is stored under a
\* number that is not counted, unless a request has gone round the mutex
\* (createConfigVersion, deleteConfigVersion, cleanup of DeleteAll).
THEOREM CountedCorrect == Spec => []Counted
<1>1. ConfigInv => Counted
  BY DEF ConfigInv, CountInv, Sound, Counted
<1> QED BY <1>1, ConfigInvariant, PTL

\* What a version number stands for never changes while the version exists,
\* failures and crashes included, unless a request has gone round the mutex
\* (createConfigVersion).
THEOREM UnchangedCorrect == Spec => Unchanged
<1>1. ConfigInv /\ [Next]_vars =>
          [doors' \cap {"purge", "overlap"} = {} =>
             \A n \in DOMAIN versions \cap DOMAIN versions' : versions'[n] = versions[n]]_versions
  BY StaysStep DEF Stays, Sound
<1> QED BY <1>1, ConfigInvariant, PTL DEF Spec, Unchanged

-----------------------------------------------------------------------------
(* History and ClusterTruth.                                               *)
(*                                                                         *)
(* Neither is inductive: they speak of moments when no request is at work. *)
(* HistInv says, of the one request that is at work (Exclusive), how far   *)
(* it has come (Part), so that each of its writes finds what the one       *)
(* before it left; JobInv says what the requests carry to their writes.    *)

Writes == {"Create", "Update", "Delete"}

\* What r carries to its writes.
JobOK(r) ==
    LET j == job[r] IN
    /\ j.whole = "DeleteAll" => j.op = "Delete"
    /\ j.whole = "Cleanup" => j.op \in {"Get", "Delete"}
    /\ pc[r] = "delete" => j.op = "Delete"
    /\ pc[r] \in {"step", "drop", "decr"} => j.op = "Rollback"
    /\ pc[r] \in {"incr", "count", "record"} => j.op \in Writes
    /\ pc[r] \in {"send", "await", "store"} => j.op \in Writes \cup {"Rollback"}
    /\ pc[r] \in {"get", "lock", "read", "send", "await", "store", "incr", "count", "record"}
       /\ j.op \in Writes =>
         /\ j.val # NoConfig /\ j.what = j.val
         /\ j.op = "Create" => j.act = "POST" /\ j.prev = NoConfig
         /\ j.op = "Update" => j.act = "PUT"
         /\ j.op = "Delete" => j.act = "DELETE"

JobInv == \A r \in Requests : JobOK(r)

\* The configuration version n left, and whether it has resources.
Last(n) == IF n = 0 THEN NoConfig ELSE versions[n].new
Some(n) == n = 0 \/ versions[n].res = "some"

\* The cluster is as version n left it, and without resources if it recorded none.
Truth(n) == /\ cluster \in {NoConfig, Last(n)}
            /\ n > 0 /\ versions[n].res = "none" => cluster = NoConfig

\* Versions go on where the ones before them ended; no version has resources
\* after one without.
Chain ==
    \A n \in DOMAIN versions :
        /\ versions[n].new # NoConfig
        /\ versions[n].prev = Last(n - 1)
        /\ versions[n].action = "POST" => versions[n].res = "some"
        /\ versions[n].action = "DELETE" => versions[n].res = "none"
        /\ versions[n].res = "some" => Some(n - 1)

\* The versions from 1 to n are stored, and no others.
Stored(n) == DOMAIN versions = 1 .. n

Whole == Stored(counter) /\ config = Last(counter) /\ Truth(counter)

\* r has written a part of what it has to write.
Mid(r) ==
    \/ pc[r] \in {"store", "incr", "count", "record", "step", "drop", "decr",
                  "purgeVersions", "purgeCounter"}
    \/ pc[r] \in {"send", "await"} /\ job[r].op = "Rollback"

\* The cluster is as the version that r will store says.
Applied(r) ==
    /\ cluster \in {NoConfig, job[r].val}
    /\ job[r].res = "none" => cluster = NoConfig
    /\ job[r].act = "POST" => job[r].res = "some"
    /\ job[r].act = "DELETE" => job[r].res = "none"

\* The version a Rollback goes back to.
Target(r) == IF job[r].idx >= 0 /\ job[r].idx < counter THEN job[r].idx ELSE counter

\* How far r is.
Part(r) ==
    LET j == job[r] IN
    /\ pc[r] = "store" /\ j.op \in Writes =>
         /\ Stored(counter) /\ config = Last(counter) /\ Applied(r)
         /\ j.op # "Create" /\ j.res = "some" => Some(counter)
    /\ pc[r] \in {"incr", "count"} =>
         /\ Stored(counter) /\ config = j.val /\ Applied(r)
         /\ j.prev = Last(counter) /\ (j.res = "some" => Some(counter))
    /\ pc[r] = "record" =>
         /\ Stored(counter - 1) /\ config = j.val /\ Applied(r)
         /\ j.prev = Last(counter - 1) /\ (j.res = "some" => Some(counter - 1))
    /\ pc[r] = "step" =>
         /\ Stored(counter) /\ j.i \in 0 .. counter /\ config = Last(j.i) /\ Truth(j.i)
         /\ j.i < counter => j.idx >= 0 /\ j.i >= j.idx
    /\ pc[r] \in {"send", "await", "store"} /\ j.op = "Rollback" =>
         /\ Stored(counter) /\ j.i \in 2 .. counter /\ config = Last(j.i)
         /\ j.idx >= 0 /\ j.i > j.idx /\ j.prev = Last(j.i - 1)
         /\ Truth(IF pc[r] = "store" THEN j.i - 1 ELSE j.i)
    /\ pc[r] \in {"send", "await"} /\ j.op = "Rollback" =>
         /\ j.act = versions[j.i - 1].action
         /\ j.res = versions[j.i].res
         /\ j.act # "DELETE" => j.what = j.prev
    /\ pc[r] = "drop" => Stored(counter) /\ config = Last(Target(r)) /\ Truth(Target(r))
    /\ pc[r] = "decr" =>
         /\ Stored(counter - 1) /\ config = Last(j.idx) /\ Truth(j.idx)
         /\ j.idx \in 0 .. counter - 1
    /\ pc[r] = "purgeVersions" => Stored(counter) /\ config = NoConfig
    /\ pc[r] = "purgeCounter" => Stored(0) /\ config = NoConfig
    /\ pc[r] \in {"purge", "purgeVersions", "purgeCounter"} => cluster = NoConfig

\* What r has read, or left, of the cluster.
Aside(r) ==
    /\ pc[r] \in {"send", "await"} /\ job[r].op = "Delete" =>
         counter \in DOMAIN versions /\ job[r].res = versions[counter].res
    /\ pc[r] = "unlock" /\ job[r].op = "Delete" /\ job[r].end = "ok" => cluster = NoConfig

\* The history is whole but for what the request at work has still to write.
HistInv ==
    doors = {} =>
        /\ Chain
        /\ \A r \in Requests : Part(r) /\ Aside(r)
        /\ (\A r \in Requests : ~ Mid(r)) => Whole

-----------------------------------------------------------------------------
(* What the requests carry.                                                *)

\* What a request carries from its first step, to p.
Carries(p, j) ==
    /\ j.whole = "DeleteAll" => j.op = "Delete"
    /\ j.whole = "Cleanup" => j.op \in {"Get", "Delete"}
    /\ p = "delete" => j.op = "Delete"
    /\ p = "get" /\ j.op \in Writes =>
         /\ j.val # NoConfig /\ j.what = j.val
         /\ j.op = "Create" => j.act = "POST" /\ j.prev = NoConfig
         /\ j.op = "Update" => j.act = "PUT"
         /\ j.op = "Delete" => j.act = "DELETE"

\* Every request begins with what it should carry.
LEMMA JobBegins ==
    ASSUME NEW r \in Requests, Begin(r)
    PROVE  \E p \in {"get", "delete", "check"} : \E j : Call(r, p, j) /\ Carries(p, j)
<1> USE DEF Carries, NoJob, Writes
<1>1. ASSUME NEW v \in Values, Create(r, v) \/ Update(r, v)
      PROVE  \E j : Call(r, "get", j) /\ Carries("get", j)
  <2>1. v # NoConfig
    BY ConfigAssumption
  <2>2. CASE Create(r, v)
    <3> DEFINE j == [NoJob EXCEPT !.op = "Create", !.val = v, !.what = v, !.act = "POST"]
    <3>1. Call(r, "get", j)
      BY <2>2 DEF Create
    <3>2. Carries("get", j)
      BY <2>1
    <3> HIDE DEF j
    <3> QED
      BY <3>1, <3>2
  <2>3. CASE Update(r, v)
    <3> DEFINE j == [NoJob EXCEPT !.op = "Update", !.val = v, !.what = v, !.act = "PUT"]
    <3>1. Call(r, "get", j)
      BY <2>3 DEF Update
    <3>2. Carries("get", j)
      BY <2>1
    <3> HIDE DEF j
    <3> QED
      BY <3>1, <3>2
  <2> QED
    BY <1>1, <2>2, <2>3
<1>2. CASE Delete(r)
  <2> DEFINE j == [NoJob EXCEPT !.op = "Delete"]
  <2>1. j.op = "Delete" /\ j.whole = "self"
    OBVIOUS
  <2>2. Call(r, "delete", j)
    BY <1>2 DEF Delete
  <2> HIDE DEF j
  <2>3. Carries("delete", j)
    BY <2>1
  <2> QED
    BY <2>2, <2>3
<1>3. CASE Get(r)
  <2> DEFINE j == [NoJob EXCEPT !.op = "Get"]
  <2>1. j.op = "Get" /\ j.whole = "self"
    OBVIOUS
  <2>2. Call(r, "get", j)
    BY <1>3 DEF Get
  <2> HIDE DEF j
  <2>3. Carries("get", j)
    BY <2>1
  <2> QED
    BY <2>2, <2>3
<1>4. CASE Tagit(r)
  <2> DEFINE j == [NoJob EXCEPT !.op = "Tagit"]
  <2>1. j.op = "Tagit" /\ j.whole = "self"
    OBVIOUS
  <2>2. Call(r, "get", j)
    BY <1>4 DEF Tagit
  <2> HIDE DEF j
  <2>3. Carries("get", j)
    BY <2>1
  <2> QED
    BY <2>2, <2>3
<1>5. CASE Rollback(r)
  <2>0. PICK i : Call(r, "get", [NoJob EXCEPT !.op = "Rollback", !.idx = i])
    BY <1>5 DEF Rollback
  <2> DEFINE j == [NoJob EXCEPT !.op = "Rollback", !.idx = i]
  <2>1. j.op = "Rollback" /\ j.whole = "self"
    OBVIOUS
  <2>2. Call(r, "get", j)
    BY <2>0
  <2> HIDE DEF j
  <2>3. Carries("get", j)
    BY <2>1
  <2> QED
    BY <2>2, <2>3
<1>6. CASE DeleteAll(r)
  <2> DEFINE j == [NoJob EXCEPT !.op = "Delete", !.whole = "DeleteAll"]
  <2>1. j.op = "Delete" /\ j.whole = "DeleteAll"
    OBVIOUS
  <2>2. Call(r, "check", j)
    BY <1>6 DEF DeleteAll
  <2> HIDE DEF j
  <2>3. Carries("check", j)
    BY <2>1
  <2> QED
    BY <2>2, <2>3
<1>7. CASE Cleanup(r)
  <2> DEFINE j == [NoJob EXCEPT !.op = "Get", !.whole = "Cleanup"]
  <2>1. j.op = "Get" /\ j.whole = "Cleanup"
    OBVIOUS
  <2>2. Call(r, "get", j)
    BY <1>7 DEF Cleanup
  <2> HIDE DEF j
  <2>3. Carries("get", j)
    BY <2>1
  <2> QED
    BY <2>2, <2>3
<1> HIDE DEF Carries, NoJob, Writes
<1> QED
  BY <1>1, <1>2, <1>3, <1>4, <1>5, <1>6, <1>7 DEF Begin

\* A request that Continue sends on carries nothing.
LEMMA JobContinues ==
    ASSUME ConfigInv, NEW r \in Requests, NEW p, Continue(r, p),
           p \notin {"step", "drop", "decr", "incr", "count", "record", "send", "await",
                     "store", "get", "lock", "read"},
           JobOK(r)
    PROVE  JobOK(r)'
<1>1. pc'[r] = p
  BY DEF Continue, Goto, ConfigInv, ReqType
<1>2. CASE p = "idle"
  <2>1. job'[r] = NoJob
    BY <1>2 DEF Continue, ConfigInv, ReqType
  <2> QED
    BY <1>1, <1>2, <2>1 DEF JobOK, NoJob
<1>3. CASE p # "idle"
  <2>1. /\ job'[r].op = "Delete" /\ job'[r].whole = job[r].whole
    BY <1>3 DEF Continue, ConfigInv, ReqType, Job
  <2> QED
    BY <1>1, <2>1 DEF JobOK
<1> QED
  BY <1>2, <1>3

\* What the requests carry is kept by every step.
LEMMA JobStep == ConfigInv /\ JobInv /\ [Next]_vars => JobInv'
<1> SUFFICES ASSUME ConfigInv, JobInv, [Next]_vars PROVE JobInv'
    OBVIOUS
<1>0. ASSUME NEW r \in Requests, JobOK(r)',
             \A q \in Requests \ {r} : pc'[q] = pc[q] /\ job'[q] = job[q]
      PROVE  JobInv'
  BY <1>0 DEF JobInv, JobOK
<1> USE DEF ConfigInv, ReqType, Goto, Leave, At
<1>1. ASSUME NEW r \in Requests, Begin(r) PROVE JobInv'
  <2>0. PICK p \in {"get", "delete", "check"} : \E j : Call(r, p, j) /\ Carries(p, j)
    BY <1>1, JobBegins
  <2>1. PICK j : Call(r, p, j) /\ Carries(p, j)
    BY <2>0
  <2>2. /\ pc'[r] = p /\ job'[r] = j
        /\ \A q \in Requests \ {r} : pc'[q] = pc[q] /\ job'[q] = job[q]
    BY <2>1 DEF Call
  <2> QED
    BY <1>0, <2>1, <2>2 DEF JobOK, Carries
<1>2. ASSUME NEW r \in Requests, NEW p, Continue(r, p),
             p \notin {"step", "drop", "decr", "incr", "count", "record", "send", "await",
                       "store", "get", "lock", "read"}
      PROVE  JobInv'
  <2>1. JobOK(r)'
    BY <1>2, JobContinues DEF JobInv
  <2> QED
    BY <1>0, <1>2, <2>1 DEF Continue
<1>3. ASSUME NEW r \in Requests,
             \/ DeleteAllChecks(r) \/ Unlock(r) \/ PurgeConfig(r) \/ PurgeTag(r)
             \/ RemoveProfileData(r) \/ StopThread(r) \/ PurgeFails(r)
      PROVE  JobInv'
  <2>1. CASE DeleteAllChecks(r)
    BY <1>2, <2>1 DEF DeleteAllChecks, Return
  <2>2. CASE Unlock(r)
    BY <1>2, <2>2 DEF Unlock, AfterUnlock, Return
  <2>3. CASE PurgeConfig(r)
    BY <1>2, <2>3 DEF PurgeConfig, Return
  <2>4. CASE PurgeTag(r)
    BY <1>2, <2>4 DEF PurgeTag, Return
  <2>5. CASE RemoveProfileData(r)
    BY <1>2, <2>5 DEF RemoveProfileData
  <2>6. CASE StopThread(r)
    BY <1>2, <2>6 DEF StopThread
  <2>7. CASE PurgeFails(r)
    BY <1>2, <2>7 DEF PurgeFails, Return, Purging
  <2> QED
    BY <1>3, <2>1, <2>2, <2>3, <2>4, <2>5, <2>6, <2>7
<1>4. ASSUME NEW r \in Requests, DeleteReads(r) PROVE JobInv'
  <2>1. CASE config = NoConfig
    BY <1>2, <1>4, <2>1 DEF DeleteReads, Return
  <2>2. CASE config # NoConfig
    <3>1. /\ pc' = [pc EXCEPT ![r] = "get"]
          /\ job' = [job EXCEPT ![r].val = config, ![r].what = config, ![r].act = "DELETE"]
          /\ job[r].op = "Delete"
      BY <1>4, <2>2 DEF DeleteReads, JobInv, JobOK
    <3>2. /\ pc'[r] = "get" /\ job'[r].op = "Delete" /\ job'[r].whole = job[r].whole
          /\ job'[r].val = config /\ job'[r].what = config /\ job'[r].act = "DELETE"
      BY <3>1 DEF Job
    <3> QED
      BY <1>0, <2>2, <3>1, <3>2 DEF JobInv, JobOK
  <2> QED
    BY <2>1, <2>2
\* The other steps change what the request carries in these fields only.
<1>5. ASSUME NEW r \in Requests, NEW p,
             pc' = [pc EXCEPT ![r] = p],
             job'[r].op = job[r].op, job'[r].whole = job[r].whole,
             \A q \in Requests \ {r} : job'[q] = job[q],
             p = "unlock"
      PROVE  JobInv'
  <2>1. JobOK(r)'
    BY <1>5 DEF JobInv, JobOK
  <2> QED
    BY <1>0, <1>5, <2>1
<1>6. ASSUME NEW r \in Requests, GetProfileData(r) PROVE JobInv'
  BY <1>6 DEF GetProfileData, JobInv, JobOK, Writes, Job
<1>7. ASSUME NEW r \in Requests, Lock(r) PROVE JobInv'
  BY <1>7 DEF Lock, JobInv, JobOK, Writes, Job
<1>8. ASSUME NEW r \in Requests,
             ReadConfig(r) \/ TagCurrentVersion(r) \/ CreateConfigVersion(r) \/ CallFails(r)
      PROVE  JobInv'
  BY <1>5, <1>8 DEF ReadConfig, TagCurrentVersion, CreateConfigVersion, CallFails, Job
<1>9. ASSUME NEW r \in Requests, ReadResources(r) PROVE JobInv'
  BY <1>5, <1>9 DEF ReadResources, JobInv, JobOK, Writes, Job
<1>10. ASSUME NEW r \in Requests, ReadCurrent(r) PROVE JobInv'
  BY <1>10 DEF ReadCurrent, JobInv, JobOK, Writes, Job
<1>11. ASSUME NEW r \in Requests, RollbackStep(r) PROVE JobInv'
  BY <1>11 DEF RollbackStep, JobInv, JobOK, Writes, Job
<1>12. ASSUME NEW r \in Requests, Send(r) PROVE JobInv'
  BY <1>12 DEF Send, JobInv, JobOK, Writes, Job
<1>13. ASSUME NEW r \in Requests, NEW e, pc[r] = "await",
              pc' = [pc EXCEPT ![r] = "store"], job' = [job EXCEPT ![r].res = e]
       PROVE  JobInv'
  BY <1>13 DEF JobInv, JobOK, Writes, Job
<1>14. ASSUME NEW g \in Gens, Answer(g) \/ ClusterFails(g) PROVE JobInv'
  <2> PICK r \in Requests : r = thread[g]
    BY <1>14 DEF Answer, ClusterFails
  <2>1. pc[r] = "await" /\ pc' = [pc EXCEPT ![r] = "store"]
    BY <1>14 DEF Answer, ClusterFails, LockInv, ThreadInv
  <2>2. \E e : job' = [job EXCEPT ![r].res = e]
    BY <1>14 DEF Answer, ClusterFails
  <2> QED
    BY <1>13, <2>1, <2>2
<1>15. ASSUME NEW r \in Requests, CreateConfig(r) PROVE JobInv'
  BY <1>15 DEF CreateConfig, JobInv, JobOK, Writes, Job
<1>16. ASSUME NEW r \in Requests, UpdateConfig(r) PROVE JobInv'
  BY <1>16 DEF UpdateConfig, JobInv, JobOK, Writes, Job
<1>17. ASSUME NEW r \in Requests, RestoreConfig(r) PROVE JobInv'
  BY <1>17 DEF RestoreConfig, JobInv, JobOK, Writes, Job
<1>18. ASSUME NEW r \in Requests, ReadCounter(r) \/ IncrementVersion(r) PROVE JobInv'
  BY <1>18 DEF ReadCounter, IncrementVersion, JobInv, JobOK, Writes, Job
<1>19. ASSUME NEW r \in Requests, DeleteConfigVersion(r) PROVE JobInv'
  BY <1>5, <1>19 DEF DeleteConfigVersion, JobInv, JobOK, Writes, Job
<1>20. ASSUME NEW r \in Requests, DecrementVersion(r) PROVE JobInv'
  BY <1>20 DEF DecrementVersion, JobInv, JobOK, Writes, Job
<1>21. ASSUME NEW r \in Requests, PurgeVersions(r) \/ PurgeCounter(r) PROVE JobInv'
  BY <1>21 DEF PurgeVersions, PurgeCounter, JobInv, JobOK
<1>22. CASE UNCHANGED <<pc, job>>
  BY <1>22 DEF JobInv, JobOK
<1>23. CASE Crash
  BY <1>23 DEF Crash, JobInv, JobOK, NoJob
<1> QED
  BY <1>1, <1>3, <1>4, <1>6, <1>7, <1>8, <1>9, <1>10, <1>11, <1>12, <1>14, <1>15, <1>16,
     <1>17, <1>18, <1>19, <1>20, <1>21, <1>22, <1>23
     DEF Next, Step, Failure, Listen, vars

-----------------------------------------------------------------------------
(* The chain of the versions.                                              *)

\* The chain is about the versions alone.
LEMMA ChainSame ==
    ASSUME Chain, UNCHANGED versions
    PROVE  Chain'
BY DEF Chain, Last, Some

\* The last version goes (deleteConfigVersion).
LEMMA ChainCut ==
    ASSUME Chain, NEW n \in Nat \ {0}, Stored(n),
           versions' = Restrict(versions, DOMAIN versions \ {n})
    PROVE  /\ Chain' /\ Stored(n - 1)'
           /\ \A m \in 0 .. n - 1 :
                 /\ Last(m)' = Last(m)
                 /\ Truth(m)' <=> /\ cluster' \in {NoConfig, Last(m)}
                                  /\ m > 0 /\ versions[m].res = "none" => cluster' = NoConfig
<1>1. DOMAIN versions' = 1 .. n - 1
  BY DEF Stored, Restrict
<1>2. \A m \in 1 .. n - 1 : versions'[m] = versions[m]
  BY DEF Stored, Restrict
<1>0. \A m \in 0 .. n - 1 : m = 0 \/ m \in 1 .. n - 1
  OBVIOUS
<1>3. \A m \in 0 .. n - 1 : Last(m)' = Last(m)
  BY <1>0, <1>2 DEF Last
<1>4. \A m \in 0 .. n - 1 : Some(m)' <=> Some(m)
  BY <1>0, <1>2 DEF Some
<1>5. \A m \in 1 .. n - 1 : m \in DOMAIN versions /\ m - 1 \in 0 .. n - 1
  BY DEF Stored
<1>6. Chain'
  BY <1>1, <1>2, <1>3, <1>4, <1>5 DEF Chain
<1>7. \A m \in 0 .. n - 1 : m > 0 => versions'[m] = versions[m]
  BY <1>2
<1> QED
  BY <1>1, <1>3, <1>6, <1>7 DEF Stored, Truth

\* A version is stored after the last one (createConfigVersion).
LEMMA ChainGrows ==
    ASSUME Chain, NEW n \in Nat \ {0}, Stored(n - 1), NEW v,
           versions' = [m \in DOMAIN versions \cup {n} |-> IF m = n THEN v ELSE versions[m]],
           v.new # NoConfig, v.prev = Last(n - 1),
           v.action = "POST" => v.res = "some", v.action = "DELETE" => v.res = "none",
           v.res = "some" => Some(n - 1)
    PROVE  Chain' /\ Stored(n)' /\ versions'[n] = v
<1>1. DOMAIN versions' = 1 .. n
  BY DEF Stored
<1>2. versions'[n] = v
  OBVIOUS
<1>3. \A m \in 1 .. n - 1 : versions'[m] = versions[m]
  BY DEF Stored
<1>4. \A m \in 0 .. n - 1 : (Last(m)' = Last(m)) /\ (Some(m)' <=> Some(m))
  BY <1>3 DEF Last, Some
<1>5. \A m \in 1 .. n - 1 : m \in DOMAIN versions /\ m - 1 \in 0 .. n - 1 /\ m # n
  BY DEF Stored
<1>6. n - 1 \in 0 .. n - 1
  OBVIOUS
<1>7. ASSUME NEW m \in DOMAIN versions'
      PROVE  /\ versions'[m].new # NoConfig
             /\ versions'[m].prev = Last(m - 1)'
             /\ versions'[m].action = "POST" => versions'[m].res = "some"
             /\ versions'[m].action = "DELETE" => versions'[m].res = "none"
             /\ versions'[m].res = "some" => Some(m - 1)'
  <2>1. CASE m = n
    BY <1>2, <1>4, <1>6, <2>1
  <2>2. CASE m # n
    <3>1. m \in 1 .. n - 1
      BY <1>1, <1>7, <2>2
    <3> QED
      BY <1>3, <1>4, <1>5, <3>1 DEF Chain
  <2> QED
    BY <2>1, <2>2
<1> QED
  BY <1>1, <1>2, <1>7 DEF Chain, Stored

-----------------------------------------------------------------------------
(* One request at a time.                                                  *)

\* A step that begins or ends nothing, and writes neither etcd nor the cluster.
LEMMA HistStays ==
    ASSUME HistInv, NEW r \in Requests,
           \A q \in Requests \ {r} : pc'[q] = pc[q] /\ job'[q] = job[q],
           UNCHANGED <<config, counter, versions, cluster>>,
           doors' = {} => doors = {},
           ~ Mid(r), ~ Mid(r)',
           doors' = {} => Aside(r)' /\ (pc'[r] = "purge" => cluster = NoConfig)
    PROVE  HistInv'
<1> SUFFICES ASSUME doors' = {} PROVE HistInv'
  BY DEF HistInv
<1>1. Chain'
  BY ChainSame DEF HistInv
<1>2. ASSUME NEW q \in Requests, q # r
      PROVE  Part(q)' /\ Aside(q)' /\ (Mid(q)' <=> Mid(q))
  <2>1. Part(q) /\ Aside(q)
    BY DEF HistInv
  <2>2. pc'[q] = pc[q] /\ job'[q] = job[q]
    BY <1>2
  <2>3. Part(q)'
    BY <2>1, <2>2 DEF Part, Stored, Last, Truth, Some, Applied, Target
  <2>4. Aside(q)'
    BY <2>1, <2>2 DEF Aside
  <2>5. Mid(q)' <=> Mid(q)
    BY <2>2 DEF Mid
  <2> QED
    BY <2>3, <2>4, <2>5
<1>3. Part(r)'
  BY DEF Mid, Part
<1>4. (\A q \in Requests : ~ Mid(q)') => \A q \in Requests : ~ Mid(q)
  BY <1>2
<1>5. Whole => Whole'
  BY DEF Whole, Stored, Last, Truth
<1> QED
  BY <1>1, <1>2, <1>3, <1>4, <1>5 DEF HistInv

\* A step of the request that is at work.
LEMMA HistMoves ==
    ASSUME ConfigInv, NEW r \in Requests, pc[r] \in Inside \cup Purging,
           \A q \in Requests \ {r} : pc'[q] = pc[q] /\ job'[q] = job[q],
           doors' = {} => doors = {},
           doors' = {} => Chain' /\ Part(r)' /\ Aside(r)' /\ (Mid(r)' \/ Whole')
    PROVE  HistInv'
<1> SUFFICES ASSUME doors' = {} PROVE HistInv'
  BY DEF HistInv
<1>1. Sound
  BY DEF Sound
<1>2. ASSUME NEW q \in Requests, q # r
      PROVE  Part(q)' /\ Aside(q)'
  <2>1. pc'[q] \notin Inside \cup Purging
    BY <1>1, <1>2 DEF ConfigInv, Exclusive
  <2> QED
    BY <2>1 DEF Part, Aside, Inside, Purging
<1> QED
  BY <1>2 DEF HistInv

\* What is known where a request is at work.
LEMMA HistAt ==
    ASSUME ConfigInv, HistInv, doors = {}, NEW r \in Requests, pc[r] \in Inside \cup Purging
    PROVE  /\ Chain /\ Part(r) /\ Aside(r)
           /\ Mid(r) \/ Whole
           /\ Place(r)
           /\ counter \in Nat
<1>1. Sound
  BY DEF Sound
<1>2. \A q \in Requests : q # r => ~ Mid(q)
  <2>1. \A q \in Requests : q # r => pc[q] \notin Inside \cup Purging
    BY <1>1 DEF ConfigInv, Exclusive
  <2> QED
    BY <2>1 DEF Mid, Inside, Purging
<1>3. counter \in Nat
  BY <1>1 DEF ConfigInv, CountInv, DataType
<1> QED
  BY <1>1, <1>2, <1>3 DEF HistInv, ConfigInv, Between

-----------------------------------------------------------------------------
(* The steps of the requests.                                              *)

\* The steps before and after a request is at work, and the reads.
LEMMA StaysSteps ==
    ASSUME ConfigInv, JobInv, HistInv, NEW r \in Requests,
           \/ Begin(r) \/ DeleteReads(r) \/ GetProfileData(r) \/ Lock(r)
           \/ ReadConfig(r) \/ TagCurrentVersion(r) \/ ReadResources(r)
           \/ PurgeTag(r) \/ RemoveProfileData(r) \/ StopThread(r)
    PROVE  HistInv'
<1> USE DEF ConfigInv, ReqType, Goto, Leave, At, etcd
<1>1. CASE Begin(r)
  <2>0. PICK p \in {"get", "delete", "check"} : \E j : Call(r, p, j) /\ Carries(p, j)
    BY <1>1, JobBegins
  <2>1. PICK j : Call(r, p, j) /\ Carries(p, j)
    BY <2>0
  <2>2. /\ pc[r] = "idle" /\ pc'[r] = p
        /\ \A q \in Requests \ {r} : pc'[q] = pc[q] /\ job'[q] = job[q]
        /\ UNCHANGED <<config, counter, versions, cluster, doors>>
    BY <2>1 DEF Call
  <2> QED
    BY <2>2, HistStays DEF Mid, Aside
<1>2. ASSUME NEW p \in {"idle", "remove", "stop"}, Continue(r, p),
             pc[r] \in {"delete", "remove", "stop", "purgeTag"},
             UNCHANGED <<config, counter, versions, cluster, doors>>
      PROVE  HistInv'
  <2>1. /\ pc'[r] = p
        /\ \A q \in Requests \ {r} : pc'[q] = pc[q] /\ job'[q] = job[q]
    BY <1>2 DEF Continue
  <2> QED
    BY <1>2, <2>1, HistStays DEF Mid, Aside
<1>3. CASE DeleteReads(r)
  <2>1. CASE config = NoConfig
    BY <1>2, <1>3, <2>1 DEF DeleteReads, Return
  <2>2. CASE config # NoConfig
    <3>1. /\ pc[r] = "delete" /\ pc'[r] = "get"
          /\ \A q \in Requests \ {r} : pc'[q] = pc[q] /\ job'[q] = job[q]
          /\ UNCHANGED <<config, counter, versions, cluster, doors>>
      BY <1>3, <2>2 DEF DeleteReads
    <3> QED
      BY <3>1, HistStays DEF Mid, Aside
  <2> QED
    BY <2>1, <2>2
<1>4. CASE GetProfileData(r)
  <2>1. /\ pc[r] = "get" /\ pc'[r] = "lock"
        /\ \A q \in Requests \ {r} : pc'[q] = pc[q] /\ job'[q] = job[q]
        /\ UNCHANGED <<config, counter, versions, cluster, doors>>
    BY <1>4 DEF GetProfileData
  <2> QED
    BY <2>1, HistStays DEF Mid, Aside
<1>5. CASE Lock(r)
  <2>1. /\ pc[r] = "lock" /\ UNCHANGED job
        /\ \/ pc'[r] = "send" /\ job[r].op \in {"Create", "Update"}
           \/ pc'[r] = "read"
        /\ \A q \in Requests \ {r} : pc'[q] = pc[q]
        /\ UNCHANGED <<config, counter, versions, cluster>>
        /\ doors \subseteq doors'
    BY <1>5 DEF Lock
  <2> QED
    BY <2>1, HistStays DEF Mid, Aside
<1>6. CASE ReadConfig(r) \/ TagCurrentVersion(r)
  <2>1. /\ pc[r] = "read" /\ pc'[r] = "unlock" /\ job'[r].op \in {"Get", "Tagit"}
        /\ \A q \in Requests \ {r} : pc'[q] = pc[q] /\ job'[q] = job[q]
        /\ UNCHANGED <<config, counter, versions, cluster, doors>>
    BY <1>6 DEF ReadConfig, TagCurrentVersion, Job
  <2> QED
    BY <2>1, HistStays DEF Mid, Aside
<1>7. CASE ReadResources(r)
  <2>1. /\ pc[r] = "read" /\ job'[r].op = "Delete"
        /\ \/ pc'[r] = "send" /\ counter \in DOMAIN versions
              /\ job'[r].res = versions[counter].res
           \/ pc'[r] = "unlock" /\ job'[r].end = "error"
        /\ \A q \in Requests \ {r} : pc'[q] = pc[q] /\ job'[q] = job[q]
        /\ UNCHANGED <<config, counter, versions, cluster, doors>>
    BY <1>7 DEF ReadResources, Job
  <2> QED
    BY <2>1, HistStays DEF Mid, Aside
<1>8. CASE PurgeTag(r) \/ RemoveProfileData(r) \/ StopThread(r)
  BY <1>2, <1>8 DEF PurgeTag, RemoveProfileData, StopThread, Return
<1> QED
  BY <1>1, <1>3, <1>4, <1>5, <1>6, <1>7, <1>8

\* The doors to the end of DeleteAll: the cluster has no resources any more.
LEMMA PurgeDoors ==
    ASSUME ConfigInv, JobInv, HistInv, NEW r \in Requests, DeleteAllChecks(r) \/ Unlock(r)
    PROVE  HistInv'
<1> USE DEF ConfigInv, ReqType
<1>1. CASE DeleteAllChecks(r)
  <2>1. PICK p \in {"idle", "remove", "purge", "delete"} :
          /\ Continue(r, p)
          /\ p = "purge" => counter \in DOMAIN versions /\ versions[counter].action = "DELETE"
                            /\ doors' = doors \cup Overlap(r)
    BY <1>1 DEF DeleteAllChecks, Return
  <2>2. /\ pc[r] = "check" /\ pc'[r] = p
        /\ \A q \in Requests \ {r} : pc'[q] = pc[q] /\ job'[q] = job[q]
        /\ UNCHANGED <<config, counter, versions, cluster>>
        /\ doors \subseteq doors'
    BY <1>1, <2>1 DEF DeleteAllChecks, Continue, Goto, At, etcd
  <2>3. ASSUME doors' = {}, p = "purge"
        PROVE  cluster = NoConfig
    <3>1. Overlap(r) = {} /\ doors = {}
      BY <2>1, <2>3
    <3>2. \A q \in Requests \ {r} : pc[q] \notin Inside \cup Purging
      BY <3>1 DEF Overlap
    <3>3. \A q \in Requests : ~ Mid(q)
      BY <2>2, <3>2 DEF Mid, Inside, Purging
    <3>4. Whole /\ Chain
      BY <3>1, <3>3 DEF HistInv
    <3>5. counter > 0 /\ versions[counter].res = "none"
      BY <2>1, <2>3, <3>4 DEF Whole, Stored, Chain, DataType
    <3> QED
      BY <3>4, <3>5 DEF Whole, Truth
  <2> QED
    BY <2>2, <2>3, HistStays DEF Mid, Aside
<1>2. CASE Unlock(r)
  <2>1. /\ Continue(r, AfterUnlock(r)) /\ pc[r] = "unlock" /\ pc'[r] = AfterUnlock(r)
        /\ \A q \in Requests \ {r} : pc'[q] = pc[q] /\ job'[q] = job[q]
        /\ UNCHANGED <<config, counter, versions, cluster>>
        /\ doors \subseteq doors'
    BY <1>2 DEF Unlock, Continue, Goto, At, etcd
  <2>2. AfterUnlock(r) \in {"idle", "remove", "check", "purge"}
    BY DEF AfterUnlock, Return
  <2>3. ASSUME AfterUnlock(r) = "purge", doors' = {}
        PROVE  cluster = NoConfig
    <3>1. job[r].op = "Delete" /\ job[r].end = "ok"
      BY <2>3 DEF AfterUnlock, Return, JobInv, JobOK, Job
    <3>2. doors = {}
      BY <2>1, <2>3
    <3> QED
      BY <2>1, <3>1, <3>2 DEF HistInv, Aside
  <2> QED
    BY <2>1, <2>2, <2>3, HistStays DEF Mid, Aside
<1> QED
  BY <1>1, <1>2

\* applyConfig: the request sends, and the goroutine answers.
LEMMA SendStep ==
    ASSUME ConfigInv, JobInv, HistInv, NEW r \in Requests, Send(r)
    PROVE  HistInv'
<1> USE DEF ConfigInv, ReqType, Goto, Leave, At, etcd
<1>1. /\ pc[r] = "send"
      /\ \A q \in Requests \ {r} : pc'[q] = pc[q] /\ job'[q] = job[q]
      /\ UNCHANGED <<config, counter, versions, cluster>>
      /\ \/ /\ pc'[r] = "unlock" /\ job'[r].end = "error" /\ job'[r].op = job[r].op
            /\ doors' = doors \cup Halfway(r)
         \/ pc'[r] = "await" /\ job'[r] = job[r] /\ doors' = doors
  BY DEF Send, Job
<1>2. pc[r] \in Inside \cup Purging
  BY <1>1 DEF Inside
<1>3. ASSUME doors' = {}
      PROVE  Chain' /\ Part(r)' /\ Aside(r)' /\ (Mid(r)' \/ Whole')
  <2>1. doors = {}
    BY <1>1, <1>3
  <2>2. Chain /\ Part(r) /\ Aside(r) /\ (Mid(r) \/ Whole) /\ Place(r)
    BY <1>2, <2>1, HistAt
  <2>3. Chain'
    BY <1>1, <2>2, ChainSame
  <2>4. CASE pc'[r] = "await" /\ job'[r] = job[r]
    <3>2. Part(r)'
      BY <1>1, <2>2, <2>4 DEF Part, Stored, Last, Truth
    <3>3. Aside(r)'
      BY <1>1, <2>2, <2>4 DEF Aside
    <3>4. Mid(r)' \/ Whole'
      BY <1>1, <2>2, <2>4 DEF Mid, Whole, Stored, Last, Truth
    <3> QED
      BY <2>3, <3>2, <3>3, <3>4
  <2>5. CASE pc'[r] = "unlock" /\ job'[r].end = "error" /\ doors' = doors \cup Halfway(r)
    <3>1. Part(r)' /\ Aside(r)'
      BY <2>5 DEF Part, Aside
    <3>2. CASE job[r].op = "Rollback"
      <4>1. job[r].i = job[r].cur
        BY <1>3, <2>5, <3>2 DEF Halfway
      <4>2. job[r].i = counter
        BY <1>1, <2>2, <3>2, <4>1 DEF Place
      <4>3. Stored(counter) /\ config = Last(counter) /\ Truth(counter)
        BY <1>1, <2>2, <3>2, <4>2 DEF Part
      <4> QED
        BY <1>1, <2>3, <3>1, <4>3 DEF Whole, Stored, Last, Truth
    <3>3. CASE job[r].op # "Rollback"
      <4>1. Whole
        BY <1>1, <2>2, <3>3 DEF Mid
      <4> QED
        BY <1>1, <2>3, <3>1, <4>1 DEF Whole, Stored, Last, Truth
    <3> QED
      BY <3>2, <3>3
  <2> QED
    BY <1>1, <2>4, <2>5
<1> QED
  BY <1>1, <1>2, <1>3, HistMoves

\* The goroutine answers, for a write or for a step back of Rollback.
LEMMA AnswerStep ==
    ASSUME ConfigInv, JobInv, HistInv, NEW g \in Gens, Answer(g)
    PROVE  HistInv'
<1> PICK r \in Requests : r = thread[g]
  BY DEF Answer
<1> DEFINE j == job[r]
           out == Outcome(j)
<1>1. /\ pc[r] = "await" /\ pc' = [pc EXCEPT ![r] = "store"]
      /\ job' = [job EXCEPT ![r].res = out.res] /\ cluster' = out.cluster
      /\ UNCHANGED <<config, counter, versions, doors>>
  BY DEF Answer, ConfigInv, LockInv, ThreadInv, Goto, etcd
<1>2. /\ pc'[r] = "store" /\ job'[r] = [j EXCEPT !.res = out.res]
      /\ \A q \in Requests \ {r} : pc'[q] = pc[q] /\ job'[q] = job[q]
  BY <1>1 DEF ConfigInv, ReqType
<1>3. pc[r] \in Inside \cup Purging
  BY <1>1 DEF Inside
<1>4. j \in Job /\ j.act \in Actions /\ j.op \in Writes \cup {"Rollback"}
  BY <1>1 DEF ConfigInv, ReqType, ActInv, JobInv, JobOK
<1>5. /\ job'[r].op = j.op /\ job'[r].val = j.val /\ job'[r].act = j.act
      /\ job'[r].prev = j.prev /\ job'[r].i = j.i /\ job'[r].idx = j.idx
      /\ job'[r].res = out.res
  BY <1>2, <1>4 DEF Job
<1>6. /\ j.act = "POST" => out.cluster = j.what /\ out.res = "some"
      /\ j.act = "PUT" /\ cluster = NoConfig => out.cluster = NoConfig /\ out.res = "none"
      /\ j.act = "PUT" /\ cluster # NoConfig => out.cluster = j.what /\ out.res = "some"
      /\ j.act = "DELETE" => /\ out.res = "none"
                             /\ out.cluster = IF j.res = "some" THEN NoConfig ELSE cluster
  BY DEF Outcome
<1> HIDE DEF j, out
<1>7. ASSUME doors' = {}
      PROVE  Chain' /\ Part(r)' /\ Aside(r)' /\ (Mid(r)' \/ Whole')
  <2>1. /\ Chain /\ Part(r) /\ Aside(r) /\ (Mid(r) \/ Whole)
        /\ counter \in Nat
    BY <1>1, <1>3, <1>7, HistAt
  <2>2. Chain' /\ Mid(r)' /\ Aside(r)'
    BY <1>1, <1>2, <2>1, ChainSame DEF Mid, Aside
  <2>3. CASE j.op \in Writes
    <3>1. /\ j.val # NoConfig /\ j.what = j.val
          /\ j.op = "Create" => j.act = "POST"
          /\ j.op = "Update" => j.act = "PUT"
          /\ j.op = "Delete" => j.act = "DELETE"
      BY <1>1, <2>3 DEF JobInv, JobOK, j
    <3>2. Whole
      BY <1>1, <2>1, <2>3 DEF Mid, Writes, j
    <3>3. j.op = "Update" /\ cluster # NoConfig => Some(counter)
      BY <2>1, <3>2 DEF Whole, Truth, Some, Stored, ConfigInv, DataType, Version
    <3>4. j.op = "Delete" => out.cluster = NoConfig
      <4>1. j.op = "Delete" => counter \in DOMAIN versions /\ j.res = versions[counter].res
        BY <1>1, <2>1 DEF Aside, j
      <4>2. j.op = "Delete" /\ j.res # "some" => cluster = NoConfig
        BY <2>1, <3>2, <4>1 DEF Whole, Truth, Stored, ConfigInv, DataType, Version
      <4> QED
        BY <1>6, <3>1, <4>2
    <3>5. Applied(r)'
      BY <1>1, <1>5, <1>6, <2>3, <3>1, <3>4 DEF Applied, Writes
    <3>6. j.op # "Create" /\ out.res = "some" => Some(counter)
      BY <1>6, <2>3, <3>1, <3>3 DEF Writes
    <3>7. Stored(counter)' /\ config' = Last(counter)' /\ (Some(counter)' <=> Some(counter))
      BY <1>1, <3>2 DEF Whole, Stored, Last, Some
    <3>8. Part(r)'
      BY <1>2, <1>5, <2>3, <3>5, <3>6, <3>7 DEF Part, Writes
    <3> QED
      BY <2>2, <3>8
  <2>4. CASE j.op = "Rollback"
    <3> PICK i \in Int : i = j.i
      BY <1>4 DEF Job
    <3>1. /\ Stored(counter) /\ i \in 2 .. counter /\ config = Last(i)
          /\ j.idx >= 0 /\ i > j.idx /\ j.prev = Last(i - 1) /\ Truth(i)
          /\ j.act = versions[i - 1].action
          /\ j.res = versions[i].res
          /\ j.act # "DELETE" => j.what = j.prev
      BY <1>1, <2>1, <2>4 DEF Part, j
    <3>2. /\ i \in DOMAIN versions /\ i - 1 \in DOMAIN versions /\ i - 1 \in Nat \ {0}
          /\ i > 0 /\ i - 1 > 0 /\ i - 1 # 0
      BY <2>1, <3>1 DEF Stored
    <3>3. versions[i].res \in {"some", "none"} /\ versions[i - 1].res \in {"some", "none"}
      BY <3>2 DEF ConfigInv, DataType, Version
    <3>4. cluster # NoConfig => versions[i - 1].res = "some"
      BY <2>1, <3>1, <3>2, <3>3 DEF Truth, Chain, Some
    <3>5. /\ out.cluster \in {NoConfig, Last(i - 1)}
          /\ versions[i - 1].res = "none" => out.cluster = NoConfig
      <4>1. CASE j.act = "POST"
        BY <1>6, <2>1, <3>1, <3>2, <4>1 DEF Chain
      <4>2. CASE j.act = "PUT"
        BY <1>6, <3>1, <3>4, <4>2
      <4>3. CASE j.act = "DELETE"
        <5>1. out.cluster = NoConfig
          BY <1>6, <3>1, <3>2, <3>3, <4>3 DEF Truth
        <5> QED
          BY <5>1
      <4> QED
        BY <1>4, <4>1, <4>2, <4>3 DEF Actions
    <3>6. Truth(i - 1)'
      BY <1>1, <3>5 DEF Truth, Last
    <3>7. Stored(counter)' /\ config' = Last(i)' /\ (Last(i - 1)' = Last(i - 1))
      BY <1>1, <3>1 DEF Stored, Last
    <3>9. pc'[r] = "store" /\ job'[r].op = "Rollback" /\ job'[r].i = i
          /\ job'[r].idx = j.idx /\ job'[r].prev = j.prev /\ counter' = counter
      BY <1>1, <1>2, <1>5, <2>4
    <3>8. Part(r)'
      BY <3>1, <3>6, <3>7, <3>9 DEF Part, Writes
    <3> QED
      BY <2>2, <3>8
  <2> QED
    BY <1>4, <2>3, <2>4
<1>8. doors' = {} => doors = {}
  BY <1>1
<1> QED
  BY <1>2, <1>3, <1>7, <1>8, HistMoves

\* Rollback reads the counter; nothing is undone yet.
LEMMA ReadCurrentStep ==
    ASSUME ConfigInv, JobInv, HistInv, NEW r \in Requests, ReadCurrent(r)
    PROVE  HistInv'
<1>1. /\ pc[r] = "read" /\ pc'[r] = "step" /\ job'[r].i = counter /\ job'[r].idx = job[r].idx
      /\ \A q \in Requests \ {r} : pc'[q] = pc[q] /\ job'[q] = job[q]
      /\ UNCHANGED <<config, counter, versions, cluster, doors>>
  BY DEF ReadCurrent, ConfigInv, ReqType, Job, Goto, At, etcd
<1>2. pc[r] \in Inside \cup Purging
  BY <1>1 DEF Inside
<1>3. ASSUME doors' = {}
      PROVE  Chain' /\ Part(r)' /\ Aside(r)' /\ (Mid(r)' \/ Whole')
  <2>1. Chain /\ Whole /\ counter \in Nat
    BY <1>1, <1>2, <1>3, HistAt DEF Mid
  <2>2. Stored(counter)' /\ config' = Last(counter)' /\ Truth(counter)'
    BY <1>1, <2>1 DEF Whole, Stored, Last, Truth
  <2>3. job'[r].i = counter' /\ counter' \in Nat
    BY <1>1, <2>1
  <2>4. Part(r)'
    BY <1>1, <2>2, <2>3 DEF Part
  <2> QED
    BY <1>1, <2>1, <2>4, ChainSame DEF Aside, Mid
<1> QED
  BY <1>1, <1>2, <1>3, HistMoves

\* The first loop of Rollback: to the versions' deletion, out, or to applyConfig.
LEMMA UndoStep ==
    ASSUME ConfigInv, JobInv, HistInv, NEW r \in Requests, RollbackStep(r)
    PROVE  HistInv'
<1> PICK i \in Int, d \in Int : i = job[r].i /\ d = job[r].idx
  BY DEF ConfigInv, ReqType, Job
<1>1. /\ pc[r] = "step"
      /\ \A q \in Requests \ {r} : pc'[q] = pc[q] /\ job'[q] = job[q]
      /\ UNCHANGED <<config, counter, versions, cluster>>
      /\ doors \subseteq doors' /\ job[r].op = "Rollback"
      /\ job'[r].op = "Rollback" /\ job'[r].idx = d
  BY DEF RollbackStep, ConfigInv, ReqType, Job, JobInv, JobOK, Goto, Leave, At, etcd
<1>2. pc[r] \in Inside \cup Purging
  BY <1>1 DEF Inside
<1>3. ASSUME doors' = {}
      PROVE  Chain' /\ Part(r)' /\ Aside(r)' /\ (Mid(r)' \/ Whole')
  <2>1. Chain /\ Part(r) /\ Place(r) /\ counter \in Nat
    BY <1>1, <1>2, <1>3, HistAt
  <2>2. /\ Stored(counter) /\ i \in 0 .. counter /\ config = Last(i) /\ Truth(i)
        /\ i < counter => d >= 0 /\ i >= d
        /\ job[r].cur = counter
    BY <1>1, <2>1 DEF Part, Place
  <2>3. Chain' /\ Aside(r)' /\ Stored(counter)'
        /\ \A n : (Last(n)' = Last(n)) /\ (Truth(n)' <=> Truth(n))
    BY <1>1, <2>1, <2>2, ChainSame DEF Aside, Stored, Last, Truth
  <2>4. CASE ~Above(i, d) /\ pc'[r] = "drop"
    <3>1. i = Target(r)
      BY <2>1, <2>2, <2>4 DEF Above, Target
    <3>2. Target(r)' = Target(r) /\ Target(r) \in 0 .. counter
      BY <1>1, <2>2, <3>1 DEF Target
    <3>3. config' = Last(i)' /\ Truth(i)' /\ Target(r)' = i
      BY <1>1, <2>2, <2>3, <3>1, <3>2
    <3>4. config' = Last(Target(r))' /\ Truth(Target(r))'
      BY <3>3 DEF Last, Truth
    <3>5. Part(r)'
      BY <2>3, <2>4, <3>4 DEF Part
    <3> QED
      BY <2>3, <2>4, <3>5 DEF Mid
  <2>5. CASE pc'[r] = "unlock" /\ doors' = doors \cup Halfway(r)
    <3>1. i = counter
      BY <1>1, <1>3, <2>2, <2>5 DEF Halfway
    <3>2. Whole'
      BY <1>1, <2>2, <2>3, <3>1 DEF Whole, Stored, Last, Truth
    <3> QED
      BY <2>3, <2>5, <3>2 DEF Part
  <2>6. CASE /\ Above(i, d) /\ {i, i - 1} \subseteq DOMAIN versions /\ pc'[r] = "send"
             /\ job'[r].i = i /\ job'[r].act = versions[i - 1].action
             /\ job'[r].res = versions[i].res /\ job'[r].prev = versions[i].prev
             /\ job'[r].what = IF versions[i - 1].action = "DELETE" THEN versions[i].new
                               ELSE versions[i].prev
    <3>1. i \in 2 .. counter /\ d >= 0 /\ i > d
      BY <2>1, <2>2, <2>6 DEF Above, Stored
    <3>2. job'[r].prev = Last(i - 1)
      BY <2>1, <2>6 DEF Chain
    <3>3. /\ counter' = counter /\ config' = Last(i)' /\ Truth(i)'
          /\ job'[r].prev = Last(i - 1)'
          /\ versions' = versions
      BY <1>1, <2>2, <2>3, <3>2
    <3>4. Part(r)'
      BY <1>1, <2>3, <2>6, <3>1, <3>3 DEF Part, Writes, Last, Truth
    <3> QED
      BY <1>1, <2>3, <2>6, <3>4 DEF Mid
  <2>7. \/ ~Above(i, d) /\ pc'[r] = "drop"
        \/ pc'[r] = "unlock" /\ doors' = doors \cup Halfway(r)
        \/ /\ Above(i, d) /\ {i, i - 1} \subseteq DOMAIN versions /\ pc'[r] = "send"
           /\ job'[r].i = i /\ job'[r].act = versions[i - 1].action
           /\ job'[r].res = versions[i].res /\ job'[r].prev = versions[i].prev
           /\ job'[r].what = IF versions[i - 1].action = "DELETE" THEN versions[i].new
                             ELSE versions[i].prev
    BY DEF RollbackStep, ConfigInv, ReqType, Job, Goto, Leave
  <2> QED
    BY <2>4, <2>5, <2>6, <2>7
<1>4. doors' = {} => doors = {}
  BY <1>1
<1> QED
  BY <1>1, <1>2, <1>3, <1>4, HistMoves

\* The first write: the configuration (createConfig, updateConfig).
LEMMA StoreStep ==
    ASSUME ConfigInv, JobInv, HistInv, NEW r \in Requests, CreateConfig(r) \/ UpdateConfig(r)
    PROVE  HistInv'
<1> PICK v, a, e : v = job[r].val /\ a = job[r].act /\ e = job[r].res
  OBVIOUS
<1>1. /\ pc[r] = "store" /\ pc'[r] = "incr" /\ job[r].op \in Writes
      /\ job'[r].op = job[r].op /\ job'[r].val = v /\ job'[r].act = a /\ job'[r].res = e
      /\ \A q \in Requests \ {r} : pc'[q] = pc[q] /\ job'[q] = job[q]
      /\ UNCHANGED <<counter, versions, cluster>>
      /\ doors \subseteq doors'
  BY DEF CreateConfig, UpdateConfig, ConfigInv, ReqType, Job, Writes, Goto, At
<1>2. pc[r] \in Inside \cup Purging
  BY <1>1 DEF Inside
<1>3. ASSUME doors' = {}
      PROVE  Chain' /\ Part(r)' /\ Aside(r)' /\ (Mid(r)' \/ Whole')
  <2>1. Chain /\ Part(r) /\ counter \in Nat
    BY <1>1, <1>2, <1>3, HistAt
  <2>2. /\ Stored(counter) /\ config = Last(counter) /\ Applied(r)
        /\ job[r].op # "Create" /\ e = "some" => Some(counter)
    BY <1>1, <2>1 DEF Part
  <2>3. config' = v /\ job'[r].prev = Last(counter) /\ (e = "some" => Some(counter))
    <3>1. CASE CreateConfig(r)
      <4>1. config = NoConfig /\ config' = v /\ job'[r].prev = NoConfig
        BY <1>3, <3>1 DEF CreateConfig, JobInv, JobOK, Writes, At
      <4>2. counter = 0
        BY <2>1, <2>2, <4>1 DEF Chain, Stored, Last
      <4> QED
        BY <4>1, <4>2 DEF Last, Some
    <3>2. CASE UpdateConfig(r)
      <4>1. config' = v /\ job'[r].prev = config /\ job[r].op # "Create"
        BY <3>2 DEF UpdateConfig, ConfigInv, ReqType, Job
      <4> QED
        BY <2>2, <4>1
    <3> QED
      BY <3>1, <3>2
  <2>4. Applied(r)'
    BY <1>1, <2>2 DEF Applied
  <2>5. Chain' /\ Stored(counter)' /\ (Last(counter)' = Last(counter))
        /\ (Some(counter)' <=> Some(counter))
    BY <1>1, <2>1, <2>2, ChainSame DEF Stored, Last, Some
  <2>6. Part(r)'
    BY <1>1, <2>3, <2>4, <2>5 DEF Part
  <2> QED
    BY <1>1, <2>5, <2>6 DEF Aside, Mid
<1>4. doors' = {} => doors = {}
  BY <1>1
<1> QED
  BY <1>1, <1>2, <1>3, <1>4, HistMoves

\* Rollback writes the configuration before the version it has undone.
LEMMA RestoreStep ==
    ASSUME ConfigInv, JobInv, HistInv, NEW r \in Requests, RestoreConfig(r)
    PROVE  HistInv'
<1> PICK i \in Int, d \in Int : i = job[r].i /\ d = job[r].idx
  BY DEF ConfigInv, ReqType, Job
<1>1. /\ pc[r] = "store" /\ pc'[r] = "step" /\ job[r].op = "Rollback"
      /\ job'[r].i = i - 1 /\ job'[r].idx = d
      /\ config' = IF job[r].prev = NoConfig THEN config ELSE job[r].prev
      /\ \A q \in Requests \ {r} : pc'[q] = pc[q] /\ job'[q] = job[q]
      /\ UNCHANGED <<counter, versions, cluster, doors>>
  BY DEF RestoreConfig, ConfigInv, ReqType, Job, Goto, At
<1>2. pc[r] \in Inside \cup Purging
  BY <1>1 DEF Inside
<1>3. ASSUME doors' = {}
      PROVE  Chain' /\ Part(r)' /\ Aside(r)' /\ (Mid(r)' \/ Whole')
  <2>1. Chain /\ Part(r) /\ counter \in Nat
    BY <1>1, <1>2, <1>3, HistAt
  <2>2. /\ Stored(counter) /\ i \in 2 .. counter /\ d >= 0 /\ i > d
        /\ job[r].prev = Last(i - 1) /\ Truth(i - 1)
    BY <1>1, <2>1 DEF Part
  <2>3. i - 1 \in DOMAIN versions /\ i - 1 # 0
    BY <2>1, <2>2 DEF Stored
  <2>4. config' = Last(i - 1)
    BY <1>1, <2>1, <2>2, <2>3 DEF Chain, Last
  <2>5. config' = Last(i - 1)' /\ Truth(i - 1)' /\ Stored(counter)'
    BY <1>1, <2>2, <2>4 DEF Last, Truth, Stored
  <2>6. counter' = counter
    BY <1>1
  <2>7. Part(r)'
    BY <1>1, <2>1, <2>2, <2>5, <2>6 DEF Part, Last, Truth
  <2> QED
    BY <1>1, <2>1, <2>7, ChainSame DEF Aside, Mid
<1> QED
  BY <1>1, <1>2, <1>3, HistMoves

\* The second write: the counter (incrementVersion).
LEMMA IncrementStep ==
    ASSUME ConfigInv, JobInv, HistInv, NEW r \in Requests,
           ReadCounter(r) \/ IncrementVersion(r)
    PROVE  HistInv'
<1> PICK v, a, e, p : v = job[r].val /\ a = job[r].act /\ e = job[r].res /\ p = job[r].prev
  OBVIOUS
<1>1. /\ pc[r] \in {"incr", "count"}
      /\ job'[r].val = v /\ job'[r].act = a /\ job'[r].res = e /\ job'[r].prev = p
      /\ \A q \in Requests \ {r} : pc'[q] = pc[q] /\ job'[q] = job[q]
      /\ UNCHANGED <<config, versions, cluster, doors>>
      /\ \/ pc'[r] = "count" /\ counter' = counter
         \/ pc[r] = "count" /\ pc'[r] = "record" /\ counter' = job[r].cur
  BY DEF ReadCounter, IncrementVersion, ConfigInv, ReqType, Job, Goto, At, etcd
<1>2. pc[r] \in Inside \cup Purging
  BY <1>1 DEF Inside
<1>3. ASSUME doors' = {}
      PROVE  Chain' /\ Part(r)' /\ Aside(r)' /\ (Mid(r)' \/ Whole')
  <2>1. Chain /\ Part(r) /\ Place(r) /\ counter \in Nat
    BY <1>1, <1>2, <1>3, HistAt
  <2>2. /\ Stored(counter) /\ config = v /\ Applied(r)
        /\ p = Last(counter) /\ (e = "some" => Some(counter))
    BY <1>1, <2>1 DEF Part
  <2>3. Applied(r)'
    BY <1>1, <2>2 DEF Applied
  <2> PICK c \in Nat : c = counter
    BY <2>1
  <2>4. Chain' /\ Stored(c)' /\ (Last(c)' = Last(c)) /\ (Some(c)' <=> Some(c))
    BY <1>1, <2>1, <2>2, ChainSame DEF Stored, Last, Some
  <2>5. CASE pc'[r] = "count" /\ counter' = c
    <3>1. /\ Stored(counter)' /\ config' = v /\ p = Last(counter)'
          /\ (e = "some" => Some(counter)')
      BY <1>1, <2>2, <2>4, <2>5 DEF Stored, Last, Some
    <3>2. Part(r)'
      BY <1>1, <2>3, <2>5, <3>1 DEF Part
    <3> QED
      BY <2>4, <2>5, <3>2 DEF Aside, Mid
  <2>6. CASE pc'[r] = "record" /\ counter' = c + 1
    <3>0. counter' - 1 = c
      BY <2>6
    <3>1. /\ Stored(counter - 1)' /\ config' = v /\ p = Last(counter - 1)'
          /\ (e = "some" => Some(counter - 1)')
      BY <1>1, <2>2, <2>4, <3>0 DEF Stored, Last, Some
    <3>2. Part(r)'
      BY <1>1, <2>3, <2>6, <3>1 DEF Part
    <3> QED
      BY <2>4, <2>6, <3>2 DEF Aside, Mid
  <2> QED
    BY <1>1, <2>1, <2>5, <2>6 DEF Place
<1> QED
  BY <1>1, <1>2, <1>3, HistMoves

\* The last write: the version (createConfigVersion).
LEMMA RecordStep ==
    ASSUME ConfigInv, JobInv, HistInv, NEW r \in Requests, CreateConfigVersion(r)
    PROVE  HistInv'
<1> PICK j : j = job[r]
  OBVIOUS
<1> DEFINE version == [new |-> j.val, prev |-> j.prev, action |-> j.act, res |-> j.res]
<1>1. /\ pc[r] = "record" /\ pc'[r] = "unlock" /\ job'[r].op = j.op
      /\ \A q \in Requests \ {r} : pc'[q] = pc[q] /\ job'[q] = job[q]
      /\ UNCHANGED <<config, counter, cluster, doors>>
      /\ versions' = [n \in DOMAIN versions \cup {j.cur} |->
                          IF n = j.cur THEN version ELSE versions[n]]
  BY DEF CreateConfigVersion, ConfigInv, ReqType, Job, Goto, Leave, At
<1>2. pc[r] \in Inside \cup Purging
  BY <1>1 DEF Inside
<1>4. /\ version.new = j.val /\ version.prev = j.prev /\ version.action = j.act
      /\ version.res = j.res
  OBVIOUS
<1> HIDE DEF version
<1>3. ASSUME doors' = {}
      PROVE  Chain' /\ Part(r)' /\ Aside(r)' /\ (Mid(r)' \/ Whole')
  <2>1. Chain /\ Part(r) /\ Place(r) /\ counter \in Nat
    BY <1>1, <1>2, <1>3, HistAt
  <2>2. /\ Stored(counter - 1) /\ config = j.val /\ Applied(r)
        /\ j.prev = Last(counter - 1) /\ (j.res = "some" => Some(counter - 1))
        /\ j.cur = counter /\ counter > 0
    BY <1>1, <2>1 DEF Part, Place
  <2>3. /\ cluster \in {NoConfig, j.val}
        /\ j.res = "none" => cluster = NoConfig
        /\ j.act = "POST" => j.res = "some"
        /\ j.act = "DELETE" => j.res = "none"
    BY <2>2 DEF Applied
  <2>4. /\ j.op \in Writes /\ j.val # NoConfig /\ (j.op = "Delete" => j.act = "DELETE")
    BY <1>1 DEF JobInv, JobOK
  <2> PICK c \in Nat \ {0} : c = counter
    BY <2>1, <2>2
  <2>5. Chain' /\ Stored(c)' /\ versions'[c] = version
    <3>1. versions' = [n \in DOMAIN versions \cup {c} |-> IF n = c THEN version ELSE versions[n]]
      BY <1>1, <2>2
    <3>2. Stored(c - 1) /\ version.new # NoConfig /\ version.prev = Last(c - 1)
      BY <1>4, <2>2, <2>4
    <3>3. /\ version.action = "POST" => version.res = "some"
          /\ version.action = "DELETE" => version.res = "none"
          /\ version.res = "some" => Some(c - 1)
      BY <1>4, <2>2, <2>3
    <3> QED
      BY <2>1, <3>1, <3>2, <3>3, ChainGrows
  <2>6. counter' = c /\ config' = j.val /\ cluster' = cluster
    BY <1>1, <2>2
  <2>7. Whole'
    BY <1>4, <2>3, <2>5, <2>6 DEF Whole, Stored, Last, Truth
  <2>8. Aside(r)'
    BY <1>1, <2>3, <2>4, <2>6 DEF Aside
  <2> QED
    BY <1>1, <2>5, <2>7, <2>8 DEF Part
<1> QED
  BY <1>1, <1>2, <1>3, HistMoves

\* The second loop of Rollback: a version goes, or the loop ends.
LEMMA DropStep ==
    ASSUME ConfigInv, JobInv, HistInv, NEW r \in Requests, DeleteConfigVersion(r)
    PROVE  HistInv'
<1> PICK i \in Int, d \in Int : i = job[r].i /\ d = job[r].idx
  BY DEF ConfigInv, ReqType, Job
<1>1. /\ pc[r] = "drop" /\ job'[r].op = job[r].op /\ job'[r].idx = d
      /\ \A q \in Requests \ {r} : pc'[q] = pc[q] /\ job'[q] = job[q]
      /\ UNCHANGED <<config, counter, cluster, doors>>
      /\ \/ /\ Above(i, d) /\ pc'[r] = "decr"
            /\ versions' = Restrict(versions, DOMAIN versions \ {counter})
         \/ ~Above(i, d) /\ pc'[r] = "unlock" /\ versions' = versions
  BY DEF DeleteConfigVersion, ConfigInv, ReqType, Job, Goto, Leave, At
<1>2. pc[r] \in Inside \cup Purging
  BY <1>1 DEF Inside
<1>3. ASSUME doors' = {}
      PROVE  Chain' /\ Part(r)' /\ Aside(r)' /\ (Mid(r)' \/ Whole')
  <2>1. Chain /\ Part(r) /\ Place(r) /\ counter \in Nat
    BY <1>1, <1>2, <1>3, HistAt
  <2> PICK c \in Nat, t \in Int : c = counter /\ t = Target(r)
    BY <2>1 DEF Target
  <2>2. Stored(c) /\ config = Last(t) /\ Truth(t) /\ i = c
    BY <1>1, <2>1 DEF Part, Place
  <2>3. t = IF d >= 0 /\ d < c THEN d ELSE c
    BY DEF Target
  <2>4. job[r].op = "Rollback" /\ job'[r].op = "Rollback"
    BY <1>1 DEF JobInv, JobOK
  <2>5. CASE Above(i, d) /\ pc'[r] = "decr"
             /\ versions' = Restrict(versions, DOMAIN versions \ {counter})
    <3>1. d \in 0 .. c - 1 /\ c \in Nat \ {0} /\ t = d
      BY <2>2, <2>3, <2>5 DEF Above
    <3>2. /\ Chain' /\ Stored(c - 1)'
          /\ (Last(d)' = Last(d))
          /\ (Truth(d)' <=> cluster' \in {NoConfig, Last(d)}
                            /\ (d > 0 /\ versions[d].res = "none" => cluster' = NoConfig))
      BY <2>1, <2>2, <2>5, <3>1, ChainCut
    <3>3. Truth(d)' /\ config' = Last(d)'
      BY <1>1, <2>2, <3>1, <3>2 DEF Truth
    <3>4. counter' = c
      BY <1>1
    <3>5. Part(r)'
      BY <1>1, <2>5, <3>1, <3>2, <3>3, <3>4 DEF Part, Stored, Last, Truth
    <3> QED
      BY <2>5, <3>2, <3>5 DEF Aside, Mid
  <2>6. CASE ~Above(i, d) /\ pc'[r] = "unlock" /\ versions' = versions
    <3>1. t = c
      BY <2>2, <2>3, <2>6 DEF Above
    <3>2. Whole'
      BY <1>1, <2>2, <2>6, <3>1 DEF Whole, Stored, Last, Truth
    <3> QED
      BY <2>1, <2>4, <2>6, <3>2, ChainSame DEF Aside, Part
  <2> QED
    BY <1>1, <2>5, <2>6
<1> QED
  BY <1>1, <1>2, <1>3, HistMoves

\* The counter follows it (decrementVersion).
LEMMA DecrementStep ==
    ASSUME ConfigInv, JobInv, HistInv, NEW r \in Requests, DecrementVersion(r)
    PROVE  HistInv'
<1> PICK d \in Int : d = job[r].idx
  BY DEF ConfigInv, ReqType, Job
<1>1. /\ pc[r] = "decr" /\ pc'[r] = "drop" /\ job'[r].idx = d
      /\ \A q \in Requests \ {r} : pc'[q] = pc[q] /\ job'[q] = job[q]
      /\ UNCHANGED <<config, versions, cluster, doors>>
      /\ counter' = counter - 1
  BY DEF DecrementVersion, ConfigInv, ReqType, Job, Goto, At
<1>2. pc[r] \in Inside \cup Purging
  BY <1>1 DEF Inside
<1>3. ASSUME doors' = {}
      PROVE  Chain' /\ Part(r)' /\ Aside(r)' /\ (Mid(r)' \/ Whole')
  <2>1. Chain /\ Part(r) /\ counter \in Nat
    BY <1>1, <1>2, <1>3, HistAt
  <2> PICK c \in Nat : c = counter
    BY <2>1
  <2>2. Stored(c - 1) /\ config = Last(d) /\ Truth(d) /\ d \in 0 .. c - 1
    BY <1>1, <2>1 DEF Part
  <2>3. counter' = c - 1
    BY <1>1
  <2>4. Stored(c - 1)' /\ config' = Last(d)' /\ Truth(d)'
    BY <1>1, <2>2 DEF Stored, Last, Truth
  <2>5. Target(r)' = d
    BY <1>1, <2>2, <2>3 DEF Target
  <2>6. Stored(counter)' /\ config' = Last(Target(r))' /\ Truth(Target(r))'
    BY <2>3, <2>4, <2>5 DEF Stored, Last, Truth
  <2>7. Part(r)'
    BY <1>1, <2>6 DEF Part
  <2> QED
    BY <1>1, <2>1, <2>7, ChainSame DEF Aside, Mid
<1> QED
  BY <1>1, <1>2, <1>3, HistMoves

\* The deletions at the end of DeleteAll.
LEMMA PurgeSteps ==
    ASSUME ConfigInv, JobInv, HistInv, NEW r \in Requests,
           PurgeConfig(r) \/ PurgeVersions(r) \/ PurgeCounter(r)
    PROVE  HistInv'
<1>1. /\ pc[r] \in {"purge", "purgeVersions", "purgeCounter"}
      /\ \A q \in Requests \ {r} : pc'[q] = pc[q] /\ job'[q] = job[q]
      /\ UNCHANGED <<cluster, doors>>
  BY DEF PurgeConfig, PurgeVersions, PurgeCounter, Continue, Goto, At, ConfigInv, ReqType
<1>2. pc[r] \in Inside \cup Purging
  BY <1>1 DEF Purging
<1>3. ASSUME doors' = {}
      PROVE  Chain' /\ Part(r)' /\ Aside(r)' /\ (Mid(r)' \/ Whole')
  <2>1. Chain /\ Part(r) /\ (Mid(r) \/ Whole) /\ counter \in Nat
    BY <1>1, <1>2, <1>3, HistAt
  <2>2. cluster = NoConfig /\ cluster' = NoConfig
    BY <1>1, <2>1 DEF Part
  <2>3. CASE PurgeConfig(r)
    <3>1. /\ pc[r] = "purge" /\ config' = NoConfig /\ UNCHANGED <<counter, versions>>
          /\ pc'[r] = IF config = NoConfig THEN Return(r) ELSE "purgeVersions"
      BY <2>3 DEF PurgeConfig, Continue, Goto, At, ConfigInv, ReqType
    <3>2. Whole
      BY <1>1, <2>1, <3>1 DEF Mid
    <3>3. Chain' /\ Stored(counter)'
      BY <2>1, <3>1, <3>2, ChainSame DEF Whole, Stored
    <3>4. CASE config = NoConfig
      <4>1. Whole'
        BY <1>1, <3>1, <3>2, <3>4 DEF Whole, Stored, Last, Truth
      <4>2. pc'[r] \in {"idle", "remove"}
        BY <3>1, <3>4 DEF Return
      <4> QED
        BY <3>3, <4>1, <4>2 DEF Part, Aside
    <3>5. CASE config # NoConfig
      <4>1. pc'[r] = "purgeVersions"
        BY <3>1, <3>5
      <4>2. Part(r)'
        BY <2>2, <3>1, <3>3, <4>1 DEF Part
      <4> QED
        BY <3>3, <4>1, <4>2 DEF Aside, Mid
    <3> QED
      BY <3>4, <3>5
  <2>4. CASE PurgeVersions(r)
    <3>1. /\ pc[r] = "purgeVersions" /\ pc'[r] = "purgeCounter" /\ config' = config
          /\ DOMAIN versions' = {}
      BY <2>4 DEF PurgeVersions, Goto, At, ConfigInv, ReqType, Restrict
    <3>2. config' = NoConfig /\ Stored(0)'
      BY <2>1, <3>1 DEF Part, Stored
    <3>3. Part(r)'
      BY <2>2, <3>1, <3>2 DEF Part
    <3> QED
      BY <3>1, <3>3 DEF Chain, Aside, Mid
  <2>5. CASE PurgeCounter(r)
    <3>1. /\ pc[r] = "purgeCounter" /\ pc'[r] = "purgeTag" /\ counter' = 0
          /\ UNCHANGED <<config, versions>>
      BY <2>5 DEF PurgeCounter, Goto, At, ConfigInv, ReqType
    <3>2. Stored(0)' /\ config' = NoConfig
      BY <2>1, <3>1 DEF Part, Stored
    <3>3. Whole'
      BY <2>2, <3>1, <3>2 DEF Whole, Stored, Last, Truth
    <3> QED
      BY <2>1, <3>1, <3>3, ChainSame DEF Part, Aside
  <2> QED
    BY <2>3, <2>4, <2>5
<1> QED
  BY <1>1, <1>2, <1>3, HistMoves

-----------------------------------------------------------------------------
(* The theorems.                                                           *)

\* HistInv is about etcd, the cluster, the doors and the requests.
LEMMA HistSame ==
    ASSUME HistInv, UNCHANGED <<config, counter, versions, cluster, doors, pc, job>>
    PROVE  HistInv'
BY DEF HistInv, Chain, Part, Aside, Mid, Whole, Stored, Last, Some, Truth, Applied, Target

\* Every step keeps the history whole but for what is left to write.
LEMMA HistStep == ConfigInv /\ JobInv /\ HistInv /\ [Next]_vars => HistInv'
<1> SUFFICES ASSUME ConfigInv, JobInv, HistInv, [Next]_vars PROVE HistInv'
    OBVIOUS
<1>1. ASSUME NEW r \in Requests, Begin(r) \/ Step(r) PROVE HistInv'
  BY <1>1, StaysSteps, PurgeDoors, SendStep, ReadCurrentStep, UndoStep, StoreStep,
     RestoreStep, IncrementStep, RecordStep, DropStep, DecrementStep, PurgeSteps DEF Step
<1>2. ASSUME NEW g \in Gens, Listen(g) PROVE HistInv'
  BY <1>2, HistSame DEF Listen, etcd
<1>3. CASE Failure
  <2>1. doors' # {}
    BY <1>3 DEF Failure, CallFails, PurgeFails, ClusterFails, Crash, Fault
  <2> QED
    BY <2>1 DEF HistInv
<1>4. CASE UNCHANGED vars
  BY <1>4, HistSame DEF vars, etcd
<1> QED
  BY <1>1, <1>2, <1>3, <1>4, AnswerStep DEF Next

\* Before the first request there is no history.
LEMMA HistInit == Init => JobInv /\ HistInv
<1> SUFFICES ASSUME Init PROVE JobInv /\ HistInv
    OBVIOUS
<1>1. \A r \in Requests : pc[r] = "idle" /\ job[r] = NoJob
  BY DEF Init
<1>2. JobInv
  BY <1>1 DEF JobInv, JobOK, NoJob, Writes
<1>3. DOMAIN versions = {} /\ counter = 0 /\ config = NoConfig /\ cluster = NoConfig
  BY DEF Init
<1>4. Chain /\ Whole
  BY <1>3 DEF Chain, Whole, Stored, Last, Truth
<1>5. \A r \in Requests : Part(r) /\ Aside(r)
  BY <1>1 DEF Part, Aside
<1> QED
  BY <1>2, <1>4, <1>5 DEF HistInv

\* The invariants hold at every moment.
LEMMA HistInvariant == Spec => [](ConfigInv /\ JobInv /\ HistInv)
<1>1. JobInv /\ HistInv /\ ConfigInv /\ [Next]_vars => JobInv' /\ HistInv'
  BY JobStep, HistStep
<1> QED
  BY <1>1, ConfigInvariant, HistInit, PTL DEF Spec

\* When no request is at work the history is whole.
LEMMA QuietWhole ==
    ASSUME ConfigInv, HistInv, doors = {}, Quiet
    PROVE  Whole /\ Chain /\ counter \in Nat
<1>1. \A r \in Requests : ~ Mid(r)
  BY DEF Quiet, Mid, Inside, Purging
<1>2. counter \in Nat
  BY DEF ConfigInv, CountInv, DataType, Sound
<1> QED
  BY <1>1, <1>2 DEF HistInv

\* The history is whole when no request is at work, for all constants: the
\* versions are those from 1 to the counter, each begins where the one before it
\* ended, and the configuration is what the last one left, however the requests
\* interleave outside the mutex (Create, Update, Delete, Rollback, DeleteAll).
THEOREM HistoryCorrect == Spec => []History
<1>1. ConfigInv /\ HistInv => History
  <2> SUFFICES ASSUME ConfigInv, HistInv, doors = {}, Quiet
               PROVE  /\ DOMAIN versions = 1 .. counter
                      /\ config = IF counter = 0 THEN NoConfig ELSE versions[counter].new
                      /\ \A n \in 1 .. counter :
                             versions[n].prev = IF n = 1 THEN NoConfig ELSE versions[n - 1].new
    BY DEF History
  <2>1. Whole /\ Chain /\ counter \in Nat
    BY QuietWhole
  <2>2. \A n \in 1 .. counter : n - 1 = 0 <=> n = 1
    BY <2>1
  <2> QED
    BY <2>1, <2>2 DEF Whole, Stored, Chain, Last
<1> QED
  BY <1>1, HistInvariant, PTL

\* When no request is at work the cluster has the configuration as etcd has it or
\* none of its resources, and none when the current version recorded none, for
\* all constants (scheduleResources, Delete, Rollback, DeleteAll).
THEOREM ClusterTruthCorrect == Spec => []ClusterTruth
<1>1. ConfigInv /\ HistInv => ClusterTruth
  BY QuietWhole DEF ClusterTruth, Whole, Truth
<1> QED
  BY <1>1, HistInvariant, PTL
=============================================================================
