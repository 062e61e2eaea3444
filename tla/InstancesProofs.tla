--------------------------- MODULE InstancesProofs ---------------------------
(***************************************************************************)
(* Theorems about Instances, for any chart, number of resources, requests, *)
(* failing calls and crashes.                                              *)
(*                                                                         *)
(* None of the properties is inductive: they speak of the entry, which     *)
(* every goroutine overwrites with its copy.  What holds of the entry is   *)
(* therefore stated of each copy that may be written over it (JobOK,       *)
(* HookJob, Keeps), and a step is seen as one job that is replaced.        *)
(***************************************************************************)
EXTENDS Instances, FiniteSetTheorems, TLAPS

-----------------------------------------------------------------------------
(* The invariants: types, and what a job is at.                            *)

\* The status under which the hooks of an event run.
StatusOf == [e \in Event |-> CASE e = "pre-install"  -> "PRE-INSTALL"
                               [] e = "post-install" -> "POST-INSTALL"
                               [] e = "pre-delete"   -> "PRE-DELETE"
                               [] e = "post-delete"  -> "POST-DELETE"]

\* The progress of an entry is one of the event its status names.
Fits(e) == \A ev \in Event : e.status = StatusOf[ev] => e.prog <= chart[ev]

Job == [at : Steps, copy : Entry, event : Event, i : Nat, made : 0..NRes, clear : BOOLEAN]

\* A job is at a step of the event it is about, with the copy it has there.
JobOK(j) ==
    /\ j \in Job
    /\ j.i <= chart[j.event]
    /\ j.at \in {"start", "wait"} => j.i < chart[j.event]
    /\ j.at \in {"prepare", "setCreating", "create", "revert", "recover"} =>
          j.event = "pre-install"
    /\ j.at = "done" => j.event = "post-install"
    /\ j.at = "done" => j.copy.hooks = "none" \/ j.i = chart["post-install"]
    /\ j.at \in {"preDelete", "deleting", "cleanup", "delete"} => j.event = "pre-delete"
    /\ j.at \in {"postDelete", "deleted"} => j.event = "post-delete"
    /\ j.at = "drop" => j.event # "post-install"
    /\ j.at \in {"hooks", "start", "wait", "failed"} => j.copy.status = StatusOf[j.event]
    /\ j.at = "prepare" => j.copy.status = "PRE-INSTALL"
    /\ j.at = "preDelete" => j.copy.prog = 0
    /\ j.at = "postDelete" => j.copy.prog <= chart["post-delete"]
    /\ Fits(j.copy)

TypeInv ==
    /\ chart \in Charts /\ chart \in [Event -> Nat]
    /\ entry \in Entry \cup {NoEntry} /\ (entry # NoEntry => Fits(entry))
    /\ installed \subseteq Resource
    /\ job \in [Requests -> Job] /\ \A r \in Requests : JobOK(job[r])
    /\ faults \in Nat /\ crashes \in Nat
    /\ started \in [1..chart["post-install"] -> Nat]
    /\ doors \subseteq Doors

\* Of the jobs that Create or the recovery began there is one at a time: ids are
\* never used twice, and a restarted plugin has no other jobs.
Lineage(r) == ~ Free(r) /\ job[r].event \in {"pre-install", "post-install"}

LineInv ==
    /\ \A r, s \in Requests : Lineage(r) /\ Lineage(s) => r = s
    /\ restarted => \A r \in Requests : Free(r)
    /\ ~ born => /\ \A r \in Requests : Free(r)
                 /\ entry = NoEntry /\ installed = {} /\ ~ restarted
                 /\ \A h \in DOMAIN started : started[h] = 0

-----------------------------------------------------------------------------
(* The invariants: hooks.                                                  *)

\* How many of the first k post-install hooks were left out, s being started.
Gaps(s, k) == Cardinality({g \in 1..k : s[g] = 0})

\* The post-install hooks that were created are among the first k.
Within(s, k) == \A h \in DOMAIN s : s[h] # 0 => h <= k

\* Hooks begun are recorded by an entry before they are created.
Begun(e, s, gaps) ==
    e.status = "POST-INSTALL" => Gaps(s, e.prog) <= gaps /\ Within(s, e.prog)

\* A job, with the entry e, the hooks s that were started and c crashes.
HookJob(j, e, s, c) ==
    /\ j.at \notin {"idle", "recover"} /\ j.event = "pre-install" => Within(s, 0)
    /\ j.at = "recover" => Begun(j.copy, s, c)
    /\ j.at # "idle" /\ j.event = "post-install" => Gaps(s, j.i) <= c
    /\ j.at \in {"hooks", "start"} /\ j.event = "post-install" => Within(s, j.i)
    /\ j.at = "start" /\ j.event = "post-install" =>
          e = NoEntry \/ e.status # "POST-INSTALL" \/ e.prog > j.i
    /\ j.at = "wait" /\ j.event = "post-install" =>
          s[j.i + 1] # 0 /\ Within(s, j.i + 1)

HookInv ==
    /\ \A r \in Requests : HookJob(job[r], entry, started, crashes)
    /\ entry # NoEntry => Begun(entry, started, crashes + 1)
    /\ entry # NoEntry /\ restarted => Begun(entry, started, crashes)
    /\ \A h \in DOMAIN started : started[h] <= 1
    /\ \A h \in DOMAIN started : started[h] # 0 => Gaps(started, h - 1) <= crashes

-----------------------------------------------------------------------------
(* The invariants: resources.                                              *)

\* An entry whose resources were recorded after they were created, and a ready
\* one, whose hooks s have run but for c crashes; d are the doors.
Made(e, s, c, d) ==
    /\ e.status \in {"CREATED", "POST-INSTALL", "POST-INSTALL-FAILED", "DONE"} => e.res = NRes
    /\ e.hooks = "none" => "unresolved" \in d
    /\ e.status = "DONE" =>
          "unresolved" \in d \/ Gaps(s, chart["post-install"]) <= c

ReadyJob(j, s, c, d) ==
    /\ j.at # "idle" /\ j.event = "post-install" => j.copy.res = NRes
    /\ j.at = "recover" => Made(j.copy, s, c, d)
    /\ j.copy.hooks = "none" => "unresolved" \in d

ReadyInv ==
    /\ \A r \in Requests : ReadyJob(job[r], started, crashes, doors)
    /\ entry # NoEntry => Made(entry, started, crashes, doors)

\* All resources have been deleted.
Gone == {"POST-DELETE", "POST-DELETE-FAILED", "DELETED"}

\* An entry from which a Delete would find every resource of the cluster x.
Keeps(e, x) == x \subseteq 1..e.res /\ (e.status \in Gone => x = {})

Busy(r) == job[r].at \in {"create", "revert"}

\* A job, with the entry e and the resources x in the cluster.
AccountJob(j, e, x) ==
    /\ j.at \in {"create", "revert"} => x \subseteq 1..j.made
    /\ j.at \notin {"idle", "create", "revert", "recover"} /\ j.event = "pre-install" => x = {}
    /\ j.at \notin {"idle", "recover"} /\ j.event = "pre-install" =>
          e = NoEntry \/ e.status \notin Gone
    /\ j.at = "recover" => Keeps(j.copy, x)
    /\ j.at # "idle" /\ j.event = "post-install" => x \subseteq 1..j.copy.res
    /\ j.at # "idle" /\ j.event = "pre-delete" => x \subseteq 1..j.made /\ x \subseteq 1..j.copy.res
    /\ j.at = "drop" => x = {}
    /\ j.at # "idle" /\ j.event = "post-delete" => x = {}

\* A job before the installation is alone.
Alone == \A r, s \in Requests :
             ~ Free(r) /\ job[r].event = "pre-install" /\ ~ Free(s) => r = s

AccountInv ==
    doors \cap {"lost", "early"} = {} =>
        /\ \A r \in Requests : AccountJob(job[r], entry, installed)
        /\ Alone
        /\ entry # NoEntry /\ entry.status \in Gone => installed = {}
        /\ (\A r \in Requests : ~ Busy(r)) => installed \subseteq Recorded

-----------------------------------------------------------------------------
(* Type correctness.                                                       *)

USE DEF vars

LEMMA StatusOfEvent ==
    /\ StatusOf["pre-install"] = "PRE-INSTALL" /\ StatusOf["post-install"] = "POST-INSTALL"
    /\ StatusOf["pre-delete"] = "PRE-DELETE" /\ StatusOf["post-delete"] = "POST-DELETE"
BY DEF StatusOf, Event

LEMMA FitsDef ==
    ASSUME NEW e
    PROVE  Fits(e) <=> /\ e.status = "PRE-INSTALL" => e.prog <= chart["pre-install"]
                       /\ e.status = "POST-INSTALL" => e.prog <= chart["post-install"]
                       /\ e.status = "PRE-DELETE" => e.prog <= chart["pre-delete"]
                       /\ e.status = "POST-DELETE" => e.prog <= chart["post-delete"]
BY StatusOfEvent DEF Fits, Event

\* The fields of a job and of its copy.
LEMMA JobType ==
    ASSUME TypeInv, NEW r \in Requests
    PROVE  /\ job[r] \in Job /\ JobOK(job[r])
           /\ job[r].at \in Steps /\ job[r].event \in Event /\ job[r].i \in Nat
           /\ job[r].made \in 0..NRes /\ job[r].clear \in BOOLEAN
           /\ job[r].copy \in Entry
           /\ job[r].copy.status \in Statuses /\ job[r].copy.res \in 0..NRes
           /\ job[r].copy.prog \in Nat /\ job[r].copy.hooks \in {"fresh", "stale", "none"}
           /\ chart \in [Event -> Nat] /\ chart[job[r].event] \in Nat
BY DEF TypeInv, Job, Entry

LEMMA EntryType ==
    ASSUME TypeInv, entry # NoEntry
    PROVE  /\ entry \in Entry /\ Fits(entry)
           /\ entry.status \in Statuses /\ entry.res \in 0..NRes /\ entry.prog \in Nat
           /\ entry.hooks \in {"fresh", "stale", "none"}
BY DEF TypeInv, Entry

\* A copy whose status, progress or hooks are others.
LEMMA EditStatus ==
    ASSUME NEW e \in Entry, NEW s \in Statuses
    PROVE  /\ [e EXCEPT !.status = s] \in Entry
           /\ [e EXCEPT !.status = s].status = s /\ [e EXCEPT !.status = s].prog = e.prog
           /\ [e EXCEPT !.status = s].res = e.res /\ [e EXCEPT !.status = s].hooks = e.hooks
BY DEF Entry

LEMMA EditProg ==
    ASSUME NEW e \in Entry, NEW n \in Nat
    PROVE  /\ [e EXCEPT !.prog = n] \in Entry
           /\ [e EXCEPT !.prog = n].status = e.status /\ [e EXCEPT !.prog = n].prog = n
           /\ [e EXCEPT !.prog = n].res = e.res /\ [e EXCEPT !.prog = n].hooks = e.hooks
BY DEF Entry

LEMMA EditHooks ==
    ASSUME NEW e \in Entry, NEW h \in {"fresh", "stale", "none"}
    PROVE  /\ [e EXCEPT !.hooks = h] \in Entry
           /\ [e EXCEPT !.hooks = h].status = e.status /\ [e EXCEPT !.hooks = h].prog = e.prog
           /\ [e EXCEPT !.hooks = h].res = e.res /\ [e EXCEPT !.hooks = h].hooks = h
BY DEF Entry

\* A job at another step.
LEMMA EditAt ==
    ASSUME NEW j \in Job, NEW s \in Steps
    PROVE  /\ [j EXCEPT !.at = s] \in Job
           /\ [j EXCEPT !.at = s].at = s /\ [j EXCEPT !.at = s].copy = j.copy
           /\ [j EXCEPT !.at = s].event = j.event /\ [j EXCEPT !.at = s].i = j.i
           /\ [j EXCEPT !.at = s].made = j.made /\ [j EXCEPT !.at = s].clear = j.clear
BY DEF Job

LEMMA IdleType ==
    ASSUME InstancesAssumption, chart \in [Event -> Nat]
    PROVE  /\ NewEntry \in Entry /\ NewEntry.prog = 0 /\ NewEntry.status = "PRE-INSTALL"
           /\ NewEntry.res = 0 /\ NewEntry.hooks = "fresh" /\ Fits(NewEntry)
           /\ Idle \in Job /\ Idle.at = "idle" /\ Idle.copy = NewEntry /\ Idle.i = 0
           /\ Idle.event = "pre-install" /\ Idle.made = 0 /\ Idle.clear = TRUE
           /\ JobOK(Idle)
<1>1. NewEntry \in Entry /\ NewEntry.prog = 0 /\ NewEntry.status = "PRE-INSTALL"
      /\ NewEntry.res = 0 /\ NewEntry.hooks = "fresh"
  BY DEF InstancesAssumption, NewEntry, Entry, Statuses
<1>2. Fits(NewEntry)
  BY <1>1, FitsDef DEF Event
<1>3. Idle \in Job /\ Idle.at = "idle" /\ Idle.copy = NewEntry /\ Idle.i = 0
      /\ Idle.event = "pre-install" /\ Idle.made = 0 /\ Idle.clear = TRUE
  BY <1>1 DEF InstancesAssumption, Idle, Job, Steps, Event
<1>4. JobOK(Idle)
  BY <1>2, <1>3 DEF JobOK, Event
<1> QED
  BY <1>1, <1>2, <1>3, <1>4

LEMMA TypeInit == ASSUME InstancesAssumption, Init PROVE TypeInv
<1>1. chart \in [Event -> Nat] /\ chart \in Charts
  BY DEF Init, InstancesAssumption
<1>2. job \in [Requests -> Job] /\ \A r \in Requests : JobOK(job[r])
  BY <1>1, IdleType DEF Init
<1>3. started \in [1..chart["post-install"] -> Nat]
  BY DEF Init
<1> QED
  BY <1>1, <1>2, <1>3 DEF Init, TypeInv, Doors

\* A step that replaces a job by one that is in order, and the entry by nothing
\* or by one that is in order.
Replaces(r, new) ==
    /\ job' = [job EXCEPT ![r] = new]
    /\ UNCHANGED chart

Written(data) == entry' = data /\ data \in Entry /\ Fits(data)

LEMMA Replaced ==
    ASSUME TypeInv, NEW r \in Requests, NEW new, Replaces(r, new)
    PROVE  job'[r] = new /\ \A q \in Requests \ {r} : job'[q] = job[q]
BY DEF TypeInv, Replaces

LEMMA TypeFrame ==
    ASSUME TypeInv, NEW r \in Requests, NEW new, JobOK(new), Replaces(r, new),
           UNCHANGED entry \/ entry' = NoEntry \/ Written(entry'),
           installed' \subseteq Resource, faults' = faults \/ Fault, UNCHANGED crashes,
           started' \in [1..chart["post-install"] -> Nat], doors' \subseteq Doors
    PROVE  TypeInv'
<1>1. new \in Job
  BY DEF JobOK
<1>2. job' \in [Requests -> Job] /\ \A q \in Requests : JobOK(job'[q])
  BY <1>1 DEF TypeInv, Replaces
<1>3. \A q \in Requests : JobOK(job[q])'
  BY <1>2 DEF JobOK, Replaces, Fits
<1>4. entry' \in Entry \cup {NoEntry} /\ (entry' # NoEntry => Fits(entry)')
  BY DEF TypeInv, Written, Replaces, Fits
<1>5. faults' \in Nat
  BY DEF Fault, TypeInv
<1> QED
  BY <1>2, <1>3, <1>4, <1>5 DEF TypeInv, Replaces

-----------------------------------------------------------------------------
(* What each step makes of its job.                                        *)

\* The job at another step only.
Same(new, j) ==
    /\ new.event = j.event /\ new.copy = j.copy /\ new.i = j.i
    /\ new.made = j.made /\ new.clear = j.clear

LEMMA GotoMove ==
    ASSUME TypeInv, NEW r \in Requests, NEW s \in Steps, Goto(r, s), UNCHANGED chart
    PROVE  \E new \in Job : Replaces(r, new) /\ Same(new, job[r]) /\ new.at = s
<1> DEFINE new == [job[r] EXCEPT !.at = s]
<1>1. new \in Job /\ Same(new, job[r]) /\ new.at = s
  BY JobType, EditAt DEF Same
<1>2. Replaces(r, new)
  BY DEF Goto, Replaces
<1> QED
  BY <1>1, <1>2

LEMMA EndMove ==
    ASSUME NEW r \in Requests, End(r), UNCHANGED chart
    PROVE  Replaces(r, Idle)
BY DEF End, Replaces

\* A write that was made, or was lost or refused.
LEMMA UpdateMove ==
    ASSUME NEW r \in Requests, NEW data, NEW done, NEW failed,
           Update(r, data, done, failed), UNCHANGED chart
    PROVE  /\ Replaces(r, failed) \/ (Replaces(r, done) /\ entry' = data)
           /\ entry' \in {entry, data} /\ (entry = NoEntry => UNCHANGED entry)
           /\ faults' = faults \/ Fault
BY DEF Update, Replaces

LEMMA SetStatusMove ==
    ASSUME TypeInv, NEW r \in Requests, NEW s \in Statuses, NEW done \in Steps,
           NEW failed \in Steps, SetStatus(r, s, done, failed), UNCHANGED chart
    PROVE  /\ faults' = faults \/ Fault
           /\ \E new \in Job :
                /\ Replaces(r, new)
                /\ new.at \in {done, failed}
                /\ new.event = job[r].event /\ new.i = job[r].i
                /\ new.made = job[r].made /\ new.clear = job[r].clear
                /\ new.copy \in Entry /\ new.copy.status = s
                /\ new.copy.prog = job[r].copy.prog
                /\ new.copy.res = job[r].copy.res /\ new.copy.hooks = job[r].copy.hooks
                /\ entry' \in {entry, new.copy} /\ (entry = NoEntry => UNCHANGED entry)
<1> DEFINE data == [job[r].copy EXCEPT !.status = s]
           N(at) == [job[r] EXCEPT !.copy = data, !.at = at]
<1>1. Update(r, data, N(done), N(failed))
  BY DEF SetStatus
<1>2. /\ data \in Entry /\ data.status = s /\ data.prog = job[r].copy.prog
      /\ data.res = job[r].copy.res /\ data.hooks = job[r].copy.hooks
  BY JobType, EditStatus
<1> HIDE DEF data
<1>3. ASSUME NEW at \in Steps
      PROVE  /\ N(at) \in Job /\ N(at).at = at /\ N(at).copy = data
             /\ N(at).event = job[r].event /\ N(at).i = job[r].i
             /\ N(at).made = job[r].made /\ N(at).clear = job[r].clear
  <2>1. job[r] \in Job /\ data \in Entry
    BY <1>2, JobType
  <2> QED
    BY <2>1 DEF Job
<1> HIDE DEF N
<1>4. PICK at \in {done, failed} : Replaces(r, N(at))
  BY <1>1, UpdateMove
<1>5. /\ entry' \in {entry, data} /\ (entry = NoEntry => UNCHANGED entry)
      /\ faults' = faults \/ Fault
  BY <1>1, UpdateMove
<1> QED
  BY <1>2, <1>3, <1>4, <1>5

LEMMA RemoveMove ==
    ASSUME Remove
    PROVE  entry' \in {entry, NoEntry} /\ (faults' = faults \/ Fault)
BY DEF Remove

\* The steps that leave the entry and the cluster alone.
LEMMA QuietMove ==
    ASSUME TypeInv, NEW r \in Requests,
           \/ Prepare(r) \/ EndHooks(r) \/ WaitHook(r) \/ Cleanup(r)
           \/ StartHook(r) \/ StartHookFails(r)
    PROVE  \/ Replaces(r, Idle)
           \/ \E new :
                /\ Replaces(r, new) /\ JobOK(new)
                /\ new.event = job[r].event /\ new.copy = job[r].copy
                /\ new.made = job[r].made /\ new.clear = job[r].clear
                /\ \/ At(r, "prepare") /\ new.at = "hooks" /\ new.i = job[r].i
                   \/ At(r, "cleanup") /\ new.at = "delete" /\ new.i = job[r].i
                   \/ At(r, "hooks") /\ new.at = "failed" /\ new.i = job[r].i
                   \/ /\ At(r, "hooks") /\ new.i = job[r].i /\ job[r].i >= Hooks(r)
                      /\ new.at = AfterHooks(job[r])
                   \/ At(r, "start") /\ new.at \in {"wait", "failed"} /\ new.i = job[r].i
                   \/ At(r, "wait") /\ new.at = "failed" /\ new.i = job[r].i
                   \/ At(r, "wait") /\ new.at = "hooks" /\ new.i = job[r].i + 1
<1>0. UNCHANGED chart
  BY DEF Prepare, EndHooks, WaitHook, Cleanup, StartHook, StartHookFails
<1>1. CASE (Prepare(r) \/ Cleanup(r)) /\ End(r)
  BY <1>0, <1>1, EndMove
<1>2. ASSUME NEW s \in Steps, Goto(r, s),
             \/ At(r, "prepare") /\ s = "hooks"
             \/ At(r, "cleanup") /\ s = "delete"
             \/ At(r, "hooks") /\ s = "failed"
             \/ At(r, "start") /\ s \in {"wait", "failed"}
             \/ At(r, "wait") /\ s = "failed"
             \/ At(r, "hooks") /\ job[r].i >= Hooks(r) /\ s = AfterHooks(job[r])
      PROVE  \E new : /\ Replaces(r, new) /\ JobOK(new)
                      /\ Same(new, job[r]) /\ new.at = s
  <2>1. PICK new \in Job : Replaces(r, new) /\ Same(new, job[r]) /\ new.at = s
    BY <1>0, <1>2, GotoMove
  <2>2. CASE At(r, "hooks") /\ job[r].i >= Hooks(r) /\ s = AfterHooks(job[r])
    <3>1. /\ job[r].event = "pre-install" => s = "setCreating"
          /\ job[r].event = "post-install" => s = "done"
          /\ job[r].event = "pre-delete" => s \in {"deleting", "delete"}
          /\ job[r].event = "post-delete" => s = "deleted"
      BY <2>2 DEF AfterHooks
    <3>2. job[r].event = "post-install" =>
             job[r].copy.hooks = "none" \/ job[r].i = chart["post-install"]
      BY <2>2, JobType DEF Hooks, JobOK
    <3> QED
      BY <2>1, <2>2, <3>1, <3>2, JobType DEF JobOK, Same, At, Event
  <2>3. CASE ~ (At(r, "hooks") /\ job[r].i >= Hooks(r) /\ s = AfterHooks(job[r]))
    BY <1>2, <2>1, <2>3, JobType, StatusOfEvent DEF JobOK, Same, At
  <2> QED
    BY <1>2, <2>1, <2>2, <2>3
<1>3. CASE WaitHook(r) /\ job' = [job EXCEPT ![r].at = "hooks", ![r].i = @ + 1]
  <2> DEFINE new == [job[r] EXCEPT !.at = "hooks", !.i = @ + 1]
  <2>1. /\ new \in Job /\ new.at = "hooks" /\ new.i = job[r].i + 1
        /\ new.event = job[r].event /\ new.copy = job[r].copy
        /\ new.made = job[r].made /\ new.clear = job[r].clear
    <3>1. job[r] \in Job /\ job[r].i + 1 \in Nat /\ "hooks" \in Steps
      BY JobType DEF Steps
    <3> QED
      BY <3>1 DEF Job
  <2>2. Replaces(r, new)
    BY <1>0, <1>3 DEF Replaces
  <2> HIDE DEF new
  <2>3. JobOK(new)
    BY <1>3, <2>1, JobType DEF WaitHook, JobOK, At
  <2> QED
    BY <1>3, <2>1, <2>2, <2>3 DEF WaitHook
<1>4. AfterHooks(job[r]) \in Steps
  BY JobType DEF AfterHooks, Steps, Event
<1>5. CASE Prepare(r) /\ Goto(r, "hooks")
  BY <1>2, <1>5 DEF Prepare, Same, Steps
<1>6. CASE Cleanup(r) /\ Goto(r, "delete")
  BY <1>2, <1>6 DEF Cleanup, Same, Steps
<1>7. CASE EndHooks(r)
  <2>1. CASE Goto(r, "failed")
    BY <1>2, <1>7, <2>1 DEF EndHooks, Same, Steps
  <2>2. CASE job[r].i >= Hooks(r) /\ Goto(r, AfterHooks(job[r]))
    <3> DEFINE s == AfterHooks(job[r])
    <3>1. s \in Steps /\ s = AfterHooks(job[r])
      BY <1>4
    <3>2. Goto(r, s) /\ At(r, "hooks")
      BY <1>7, <2>2 DEF EndHooks
    <3> HIDE DEF s
    <3>3. PICK new : Replaces(r, new) /\ JobOK(new) /\ Same(new, job[r]) /\ new.at = s
      BY <1>2, <2>2, <3>1, <3>2
    <3> QED
      BY <2>2, <3>1, <3>2, <3>3 DEF Same
  <2> QED
    BY <1>7, <2>1, <2>2 DEF EndHooks
<1>8. CASE StartHook(r) \/ StartHookFails(r)
  <2>1. At(r, "start") /\ (Goto(r, "wait") \/ Goto(r, "failed"))
    BY <1>8 DEF StartHook, StartHookFails
  <2> QED
    BY <1>2, <2>1 DEF Same, Steps
<1>9. CASE WaitHook(r) /\ Goto(r, "failed")
  BY <1>2, <1>9 DEF WaitHook, Same, Steps
<1> QED
  BY <1>1, <1>3, <1>5, <1>6, <1>7, <1>8, <1>9 DEF Prepare, Cleanup, WaitHook

\* The steps that record a status.
LEMMA StatusMove ==
    ASSUME TypeInv, NEW r \in Requests,
           \/ SetCreating(r) \/ SetPreDelete(r) \/ SetDeleting(r) \/ SetPostDelete(r)
    PROVE  /\ faults' = faults \/ Fault
           /\ \E new :
                /\ Replaces(r, new) /\ JobOK(new)
                /\ new.event = job[r].event /\ new.i = job[r].i
                /\ new.made = job[r].made /\ new.clear = job[r].clear
                /\ new.copy.prog = job[r].copy.prog
                /\ new.copy.res = job[r].copy.res /\ new.copy.hooks = job[r].copy.hooks
                /\ \/ /\ At(r, "setCreating") /\ new.copy.status = "CREATING"
                      /\ new.at \in {"create", "drop"}
                   \/ At(r, "preDelete") /\ new.copy.status = "PRE-DELETE" /\ new.at = "hooks"
                   \/ At(r, "deleting") /\ new.copy.status = "DELETING" /\ new.at = "cleanup"
                   \/ At(r, "postDelete") /\ new.copy.status = "POST-DELETE" /\ new.at = "hooks"
                /\ new.copy \in Entry /\ Fits(new.copy)
                /\ entry' \in {entry, new.copy} /\ (entry = NoEntry => UNCHANGED entry)
<1>0. UNCHANGED chart
  BY DEF SetCreating, SetPreDelete, SetDeleting, SetPostDelete
<1>1. CASE SetCreating(r)
  <2>1. At(r, "setCreating") /\ SetStatus(r, "CREATING", "create", "drop")
    BY <1>1 DEF SetCreating
  <2>2. "CREATING" \in Statuses /\ "create" \in Steps /\ "drop" \in Steps
    BY DEF Statuses, Steps
  <2> QED
    BY <1>0, <2>1, <2>2, SetStatusMove, JobType, FitsDef DEF JobOK, At
<1>2. CASE SetPreDelete(r)
  <2>1. At(r, "preDelete") /\ SetStatus(r, "PRE-DELETE", "hooks", "hooks")
    BY <1>2 DEF SetPreDelete
  <2>2. "PRE-DELETE" \in Statuses /\ "hooks" \in Steps
    BY DEF Statuses, Steps
  <2>3. job[r].copy.prog = 0 /\ job[r].event = "pre-delete" /\ chart["pre-delete"] \in Nat
    BY <2>1, JobType DEF JobOK, At
  <2> QED
    BY <1>0, <2>1, <2>2, <2>3, SetStatusMove, JobType, FitsDef, StatusOfEvent DEF JobOK, At
<1>3. CASE SetDeleting(r)
  <2>1. At(r, "deleting") /\ SetStatus(r, "DELETING", "cleanup", "cleanup")
    BY <1>3 DEF SetDeleting
  <2>2. "DELETING" \in Statuses /\ "cleanup" \in Steps
    BY DEF Statuses, Steps
  <2> QED
    BY <1>0, <2>1, <2>2, SetStatusMove, JobType, FitsDef DEF JobOK, At
<1>4. CASE SetPostDelete(r)
  <2>1. At(r, "postDelete") /\ SetStatus(r, "POST-DELETE", "hooks", "hooks")
    BY <1>4 DEF SetPostDelete
  <2>2. "POST-DELETE" \in Statuses /\ "hooks" \in Steps
    BY DEF Statuses, Steps
  <2>3. job[r].copy.prog <= chart["post-delete"] /\ job[r].event = "post-delete"
    BY <2>1, JobType DEF JobOK, At
  <2> QED
    BY <1>0, <2>1, <2>2, <2>3, SetStatusMove, JobType, FitsDef, StatusOfEvent DEF JobOK, At
<1> QED
  BY <1>1, <1>2, <1>3, <1>4

\* The steps on the resources of the cluster.
LEMMA ClusterMove ==
    ASSUME InstancesAssumption, TypeInv, NEW r \in Requests,
           CreateResource(r) \/ CreateResourceFails(r) \/ RevertResource(r) \/ DeleteResource(r)
    PROVE  \/ At(r, "delete") /\ Replaces(r, Idle)
           \/ \E new :
                /\ Replaces(r, new) /\ JobOK(new)
                /\ new.event = job[r].event /\ new.copy = job[r].copy
                /\ new.i = job[r].i /\ new.clear = job[r].clear
                /\ \/ /\ CreateResource(r) /\ new.at = "create" /\ new.made = job[r].made + 1
                   \/ /\ CreateResourceFails(r) /\ new.at = "revert" /\ new.made = job[r].made
                   \/ /\ RevertResource(r) /\ new.at = "drop"
                      /\ "lost" \in doors' \/ (UNCHANGED installed /\ job[r].made = 0)
                   \/ /\ RevertResource(r) /\ new.at = "revert" /\ DeleteKind(job[r].made)
                      /\ job[r].made > 0 /\ new.made = job[r].made - 1
                   \/ /\ At(r, "delete") /\ new.at = "delete" /\ DeleteKind(job[r].made)
                      /\ job[r].made > 0 /\ new.made = job[r].made - 1
<1>0. UNCHANGED chart
  BY DEF CreateResource, CreateResourceFails, RevertResource, DeleteResource
<1> DEFINE Makes(n) == \E new : /\ Replaces(r, new) /\ JobOK(new) /\ new.at = job[r].at
                                 /\ new.event = job[r].event /\ new.copy = job[r].copy
                                 /\ new.i = job[r].i /\ new.clear = job[r].clear
                                 /\ new.made = n
<1>1. ASSUME NEW n \in 0..NRes, job' = [job EXCEPT ![r].made = n],
             job[r].at \in {"create", "revert", "delete"}
      PROVE  Makes(n)
  <2> DEFINE new == [job[r] EXCEPT !.made = n]
  <2>1. /\ new \in Job /\ new.at = job[r].at /\ new.made = n
        /\ new.event = job[r].event /\ new.copy = job[r].copy
        /\ new.i = job[r].i /\ new.clear = job[r].clear
    BY JobType DEF Job
  <2>2. Replaces(r, new)
    BY <1>0, <1>1 DEF Replaces
  <2> HIDE DEF new
  <2>3. JobOK(new)
    BY <1>1, <2>1, JobType DEF JobOK
  <2> QED
    BY <2>1, <2>2, <2>3
<1>2. ASSUME NEW s \in {"revert", "drop"}, Goto(r, s), job[r].at \in {"create", "revert"}
      PROVE  \E new : /\ Replaces(r, new) /\ JobOK(new)
                      /\ Same(new, job[r]) /\ new.at = s
  <2>1. s \in Steps
    BY DEF Steps
  <2>2. PICK new \in Job : Replaces(r, new) /\ Same(new, job[r]) /\ new.at = s
    BY <1>0, <1>2, <2>1, GotoMove
  <2> QED
    BY <1>2, <2>2, JobType DEF JobOK, Same
<1>3. job[r].made \in 0..NRes /\ NRes \in Int
  BY JobType DEF InstancesAssumption
<1>4. CASE CreateResource(r)
  <2>1. job[r].made + 1 \in 0..NRes /\ At(r, "create")
    BY <1>3, <1>4 DEF CreateResource
  <2>2. job' = [job EXCEPT ![r].made = job[r].made + 1]
    BY <1>4 DEF CreateResource
  <2>3. job[r].at \in {"create", "revert", "delete"}
    BY <2>1 DEF At
  <2>4. Makes(job[r].made + 1)
    BY <1>1, <2>1, <2>2, <2>3
  <2> QED
    BY <1>4, <2>1, <2>4 DEF At
<1>5. CASE CreateResourceFails(r)
  <2>1. At(r, "create") /\ Goto(r, "revert")
    BY <1>5 DEF CreateResourceFails, AfterCreateFails
  <2> QED
    BY <1>2, <1>5, <2>1 DEF At, Same
<1>6. CASE RevertResource(r)
  <2>1. At(r, "revert")
    BY <1>6 DEF RevertResource
  <2>2. CASE Goto(r, "drop") /\ ("lost" \in doors' \/ (UNCHANGED installed /\ job[r].made = 0))
    BY <1>2, <1>6, <2>1, <2>2 DEF At, Same
  <2>3. CASE /\ job[r].made # 0 /\ DeleteKind(job[r].made)
             /\ job' = [job EXCEPT ![r].made = job[r].made - 1]
    <3>1. job[r].made - 1 \in 0..NRes /\ job[r].made > 0
      BY <1>3, <2>3
    <3>2. job[r].at \in {"create", "revert", "delete"}
      BY <2>1 DEF At
    <3>3. Makes(job[r].made - 1)
      BY <1>1, <2>3, <3>1, <3>2
    <3> QED
      BY <1>6, <2>1, <2>3, <3>1, <3>3 DEF At
  <2> QED
    BY <1>6, <2>2, <2>3 DEF RevertResource, Opened
<1>7. CASE DeleteResource(r)
  <2>1. At(r, "delete") /\ job[r].made > 0
    BY <1>7 DEF DeleteResource
  <2>2. CASE End(r)
    BY <1>0, <2>1, <2>2, EndMove
  <2>3. CASE DeleteKind(job[r].made) /\ job' = [job EXCEPT ![r].made = job[r].made - 1]
    <3>1. job[r].made - 1 \in 0..NRes
      BY <1>3, <2>1
    <3>2. job[r].at \in {"create", "revert", "delete"}
      BY <2>1 DEF At
    <3>3. Makes(job[r].made - 1)
      BY <1>1, <2>3, <3>1, <3>2
    <3> QED
      BY <2>1, <2>3, <3>3 DEF At
  <2> QED
    BY <1>7, <2>2, <2>3 DEF DeleteResource
<1> QED
  BY <1>4, <1>5, <1>6, <1>7

\* The steps that end a job with a write or with the removal of the entry.
LEMMA LastMove ==
    ASSUME TypeInv, NEW r \in Requests,
           Drop(r) \/ RecordDone(r) \/ HooksFailed(r) \/ RecordDeleted(r)
    PROVE  /\ Replaces(r, Idle)
           /\ faults' = faults \/ Fault
           /\ \/ entry' = entry
              \/ /\ entry' = NoEntry
                 /\ \/ At(r, "drop")
                    \/ At(r, "failed") /\ job[r].event = "pre-install"
                    \/ At(r, "deleted")
              \/ /\ entry # NoEntry /\ Written(entry')
                 /\ entry'.res = job[r].copy.res /\ entry'.hooks = job[r].copy.hooks
                 /\ \/ At(r, "done") /\ entry'.status = "DONE"
                    \/ /\ At(r, "failed") /\ job[r].event = "post-install"
                       /\ entry'.status = "POST-INSTALL-FAILED"
                    \/ /\ At(r, "failed") /\ job[r].event = "pre-delete"
                       /\ entry'.status = "PRE-DELETE-FAILED"
                    \/ /\ At(r, "failed") /\ job[r].event = "post-delete"
                       /\ entry'.status = "POST-DELETE-FAILED"
                    \/ At(r, "deleted") /\ entry'.status = "DELETED"
<1>0. UNCHANGED chart
  BY DEF Drop, RecordDone, HooksFailed, RecordDeleted
<1>1. ASSUME NEW s \in {"DONE", "POST-INSTALL-FAILED", "PRE-DELETE-FAILED",
                        "POST-DELETE-FAILED", "DELETED"},
             Update(r, [job[r].copy EXCEPT !.status = s], Idle, Idle)
      PROVE  /\ Replaces(r, Idle) /\ (faults' = faults \/ Fault)
             /\ \/ entry' = entry
                \/ /\ entry # NoEntry /\ Written(entry') /\ entry'.status = s
                   /\ entry'.res = job[r].copy.res /\ entry'.hooks = job[r].copy.hooks
  <2> DEFINE data == [job[r].copy EXCEPT !.status = s]
  <2>1. s \in Statuses
    BY DEF Statuses
  <2>2. /\ data \in Entry /\ data.status = s
        /\ data.res = job[r].copy.res /\ data.hooks = job[r].copy.hooks
    BY <2>1, JobType, EditStatus
  <2>3. Update(r, data, Idle, Idle)
    BY <1>1
  <2> HIDE DEF data
  <2>4. Fits(data)
    BY <2>2, FitsDef
  <2> QED
    BY <1>0, <2>2, <2>3, <2>4, UpdateMove DEF Written
<1>2. CASE Drop(r)
  BY <1>0, <1>2, EndMove, RemoveMove DEF Drop
<1>3. CASE RecordDone(r)
  BY <1>1, <1>3 DEF RecordDone
<1>4. CASE HooksFailed(r)
  <2>1. At(r, "failed") /\ job[r].event \in Event
    BY <1>4, JobType DEF HooksFailed
  <2>2. CASE job[r].event = "pre-install"
    BY <1>0, <1>4, <2>1, <2>2, EndMove, RemoveMove DEF HooksFailed
  <2>3. CASE job[r].event = "post-install"
    <3>1. Update(r, [job[r].copy EXCEPT !.status = "POST-INSTALL-FAILED"], Idle, Idle)
      BY <1>4, <2>3 DEF HooksFailed, Event
    <3> QED
      BY <1>1, <2>1, <2>3, <3>1
  <2>4. CASE job[r].event = "pre-delete"
    <3>1. Update(r, [job[r].copy EXCEPT !.status = "PRE-DELETE-FAILED"], Idle, Idle)
      BY <1>4, <2>4 DEF HooksFailed, Event
    <3> QED
      BY <1>1, <2>1, <2>4, <3>1
  <2>5. CASE job[r].event = "post-delete"
    <3>1. Update(r, [job[r].copy EXCEPT !.status = "POST-DELETE-FAILED"], Idle, Idle)
      BY <1>4, <2>5 DEF HooksFailed, Event
    <3> QED
      BY <1>1, <2>1, <2>5, <3>1
  <2> QED
    BY <2>1, <2>2, <2>3, <2>4, <2>5 DEF Event
<1>5. CASE RecordDeleted(r)
  <2>1. At(r, "deleted")
    BY <1>5 DEF RecordDeleted
  <2>2. CASE job[r].clear
    BY <1>0, <1>5, <2>1, <2>2, EndMove, RemoveMove DEF RecordDeleted
  <2>3. CASE ~ job[r].clear
    BY <1>1, <1>5, <2>1, <2>3 DEF RecordDeleted
  <2> QED
    BY <2>2, <2>3
<1> QED
  BY <1>2, <1>3, <1>4, <1>5

LEMMA ProgressMove ==
    ASSUME TypeInv, NEW r \in Requests, RecordProgress(r)
    PROVE  /\ faults' = faults \/ Fault
           /\ At(r, "hooks") /\ job[r].i < chart[job[r].event]
           /\ \E new :
                /\ Replaces(r, new) /\ JobOK(new) /\ new.at \in {"start", "failed"}
                /\ new.event = job[r].event /\ new.i = job[r].i
                /\ new.made = job[r].made /\ new.clear = job[r].clear
                /\ new.copy.status = StatusOf[job[r].event]
                /\ new.copy.prog = job[r].i + 1
                /\ new.copy.res = job[r].copy.res /\ new.copy.hooks = job[r].copy.hooks
                /\ entry' = entry \/ (entry # NoEntry /\ Written(new.copy))
                /\ new.at = "start" => entry' = new.copy
<1> DEFINE data == [job[r].copy EXCEPT !.prog = job[r].i + 1]
           N(at) == [job[r] EXCEPT !.copy = data, !.at = at]
<1>1. /\ At(r, "hooks") /\ job[r].i < Hooks(r) /\ UNCHANGED chart
      /\ Update(r, data, N("start"), N("failed"))
  BY DEF RecordProgress
<1>2. job[r].i + 1 \in Nat
  BY JobType
<1>3. /\ data \in Entry /\ data.status = job[r].copy.status /\ data.prog = job[r].i + 1
      /\ data.res = job[r].copy.res /\ data.hooks = job[r].copy.hooks
  BY <1>2, JobType, EditProg
<1> HIDE DEF data
<1>4. ASSUME NEW at \in Steps
      PROVE  /\ N(at) \in Job /\ N(at).at = at /\ N(at).copy = data
             /\ N(at).event = job[r].event /\ N(at).i = job[r].i
             /\ N(at).made = job[r].made /\ N(at).clear = job[r].clear
  <2>1. job[r] \in Job /\ data \in Entry
    BY <1>3, JobType
  <2> QED
    BY <2>1 DEF Job
<1>5. "start" \in Steps /\ "failed" \in Steps
  BY DEF Steps
<1> HIDE DEF N
<1>6. PICK at \in {"start", "failed"} :
         Replaces(r, N(at)) /\ (at = "start" => entry' = data)
  BY <1>1, UpdateMove
<1>7. /\ entry' \in {entry, data} /\ (entry = NoEntry => UNCHANGED entry)
      /\ faults' = faults \/ Fault
  BY <1>1, UpdateMove
<1>8. job[r].i < chart[job[r].event]
  BY <1>1, JobType DEF Hooks
<1>9. data.status = StatusOf[job[r].event]
  BY <1>1, <1>3, JobType DEF JobOK, At
<1>10. Fits(data)
  BY <1>3, <1>8, <1>9, FitsDef, StatusOfEvent, JobType DEF Event
<1>11. JobOK(N(at))
  BY <1>4, <1>5, <1>6, <1>8, <1>9, <1>10, JobType DEF JobOK
<1> QED
  BY <1>1, <1>3, <1>4, <1>5, <1>6, <1>7, <1>8, <1>9, <1>10, <1>11 DEF Written

\* CREATED, and the goroutine of the post-install hooks.
LEMMA CreatedMove ==
    ASSUME InstancesAssumption, TypeInv, NEW r \in Requests, RecordCreated(r)
    PROVE  /\ faults' = faults \/ Fault
           /\ At(r, "create") /\ job[r].made = NRes
           /\ \/ entry' = entry
              \/ /\ entry # NoEntry /\ Written(entry') /\ entry'.status = "CREATED"
                 /\ entry'.res = NRes /\ entry'.hooks = job[r].copy.hooks
           /\ \/ Replaces(r, Idle) /\ doors' = doors \cup {"lost"}
              \/ /\ entry' # NoEntry /\ entry'.res = NRes /\ entry'.status = "CREATED"
                 /\ doors' \in {doors, doors \cup {"lost"}}
                 /\ \E new :
                      /\ Replaces(r, new) /\ JobOK(new) /\ new.at = "hooks"
                      /\ new.event = "post-install" /\ new.i = 0
                      /\ new.copy.status = "POST-INSTALL" /\ new.copy.res = NRes
                      /\ new.copy.prog = 0 /\ new.copy.hooks = job[r].copy.hooks
<1> DEFINE data == [job[r].copy EXCEPT !.status = "CREATED", !.res = NRes]
           copy == [data EXCEPT !.status = "POST-INSTALL", !.prog = 0]
           new == [Idle EXCEPT !.at = "hooks", !.copy = copy, !.event = "post-install"]
<1>0. job[r].copy \in Entry /\ NRes \in 0..NRes /\ chart \in [Event -> Nat]
  BY JobType DEF InstancesAssumption
<1>1. /\ data \in Entry /\ data.status = "CREATED" /\ data.res = NRes
      /\ data.hooks = job[r].copy.hooks
  BY <1>0 DEF Entry, Statuses
<1>2. /\ copy \in Entry /\ copy.status = "POST-INSTALL" /\ copy.prog = 0
      /\ copy.res = NRes /\ copy.hooks = job[r].copy.hooks
  BY <1>0 DEF Entry, Statuses
<1>3. At(r, "create") /\ job[r].made = NRes /\ UNCHANGED chart /\ Update(r, data, new, Idle)
  BY DEF RecordCreated
<1>4. IF job'[r] = Idle THEN doors' = doors \cup {"lost"} ELSE UNCHANGED doors
  BY DEF RecordCreated, Opened
<1> HIDE DEF data, copy
<1>5. Fits(data) /\ Fits(copy)
  <2>1. chart["post-install"] \in Nat
    BY <1>0 DEF Event
  <2> QED
    BY <1>1, <1>2, <2>1, FitsDef
<1>6. /\ new \in Job /\ new.at = "hooks" /\ new.copy = copy /\ new.i = 0
      /\ new.event = "post-install"
  BY <1>0, <1>2, IdleType DEF Job, Steps, Event
<1> HIDE DEF new
<1>7. JobOK(new)
  BY <1>0, <1>2, <1>5, <1>6, StatusOfEvent DEF JobOK, Event
<1>8. NoEntry \notin Entry
  BY DEF InstancesAssumption
<1>9. Replaces(r, Idle) => job'[r] = Idle
  BY Replaced
<1>10. /\ Replaces(r, Idle) \/ (Replaces(r, new) /\ entry' = data)
       /\ entry' \in {entry, data} /\ (entry = NoEntry => UNCHANGED entry)
       /\ faults' = faults \/ Fault
  BY <1>3, UpdateMove
<1>11. \/ entry' = entry
       \/ /\ entry # NoEntry /\ Written(entry') /\ entry'.status = "CREATED"
          /\ entry'.res = NRes /\ entry'.hooks = job[r].copy.hooks
  BY <1>1, <1>5, <1>10 DEF Written
<1>12. CASE Replaces(r, Idle)
  BY <1>3, <1>4, <1>9, <1>10, <1>11, <1>12
<1>13. CASE Replaces(r, new) /\ entry' = data
  <2>1. entry' # NoEntry /\ entry'.res = NRes /\ entry'.status = "CREATED"
    BY <1>1, <1>8, <1>13
  <2>2. doors' \in {doors, doors \cup {"lost"}}
    BY <1>4
  <2> QED
    BY <1>2, <1>3, <1>6, <1>7, <1>10, <1>11, <1>13, <2>1, <2>2
<1> QED
  BY <1>10, <1>12, <1>13

LEMMA DeletedMove ==
    ASSUME TypeInv, NEW r \in Requests, ResourcesDeleted(r)
    PROVE  /\ At(r, "delete") /\ job[r].made = 0
           /\ \E new :
                /\ Replaces(r, new) /\ JobOK(new) /\ new.at \in {"drop", "postDelete"}
                /\ new.event = "post-delete" /\ new.i = 0
                /\ new.copy.res = job[r].copy.res /\ new.copy.hooks = job[r].copy.hooks
<1> DEFINE j == [job[r] EXCEPT !.event = "post-delete", !.i = 0, !.copy.prog = 0]
           N(at) == [j EXCEPT !.at = at]
<1>1. /\ At(r, "delete") /\ job[r].made = 0 /\ UNCHANGED chart
      /\ \E at \in {"drop", "postDelete"} : job' = [job EXCEPT ![r] = N(at)]
  BY DEF ResourcesDeleted
<1>2. job[r] \in Job /\ job[r].copy \in Entry /\ chart \in [Event -> Nat]
  BY JobType
<1>3. [job[r].copy EXCEPT !.prog = 0] \in Entry
  BY <1>2, EditProg
<1>4. /\ j.copy.prog = 0 /\ j.copy.res = job[r].copy.res
      /\ j.copy.hooks = job[r].copy.hooks /\ j.copy.status = job[r].copy.status
  BY <1>2 DEF Job, Entry
<1>5. j \in Job /\ j.event = "post-delete" /\ j.i = 0
  BY <1>2, <1>3 DEF Job, Event
<1> HIDE DEF j
<1>6. PICK at \in {"drop", "postDelete"} : job' = [job EXCEPT ![r] = N(at)]
  BY <1>1
<1>7. N(at) \in Job /\ N(at).at = at /\ N(at).event = "post-delete" /\ N(at).i = 0
      /\ N(at).copy = j.copy
  BY <1>5 DEF Job, Steps
<1>8. Replaces(r, N(at))
  BY <1>1, <1>6 DEF Replaces
<1> HIDE DEF N
<1>9. Fits(N(at).copy)
  BY <1>2, <1>4, <1>7, FitsDef DEF Event
<1>10. JobOK(N(at))
  BY <1>2, <1>4, <1>7, <1>9 DEF JobOK, Event
<1> QED
  BY <1>1, <1>4, <1>6, <1>7, <1>8, <1>10

LEMMA RecoveredMove ==
    ASSUME InstancesAssumption, TypeInv, NEW r \in Requests, RecordRecovered(r)
    PROVE  /\ faults' = faults \/ Fault
           /\ At(r, "recover")
           /\ entry' = entry \/ (entry # NoEntry /\ Written(job[r].copy))
           /\ \/ Replaces(r, Idle)
              \/ \E new :
                   /\ Replaces(r, new) /\ JobOK(new)
                   /\ new.copy = job[r].copy /\ new.i = job[r].copy.prog
                   /\ new.made = job[r].copy.res
                   /\ \/ /\ new.at = "hooks" /\ new.event = "post-install"
                         /\ job[r].copy.status = "POST-INSTALL"
                      \/ /\ new.at = "hooks" /\ new.event = "pre-delete"
                         /\ job[r].copy.status = "PRE-DELETE"
                      \/ /\ new.at = "postDelete" /\ new.event = "post-delete"
                         /\ job[r].copy.status = "POST-DELETE"
<1> DEFINE copy == job[r].copy
           new == Recovered(copy)
           G(e, step, clear) == [Idle EXCEPT !.at = step, !.copy = copy, !.event = e,
                                   !.i = RecoverFrom(copy), !.made = copy.res,
                                   !.clear = clear]
           Goes(j, e, step) == /\ j \in Job /\ j.at = step /\ j.event = e /\ j.copy = copy
                               /\ j.i = copy.prog /\ j.made = copy.res
<1>1. At(r, "recover") /\ UNCHANGED chart /\ Update(r, copy, new, Idle)
  BY DEF RecordRecovered
<1>2. copy \in Entry /\ copy.prog \in Nat /\ copy.res \in 0..NRes /\ Fits(copy)
  BY JobType DEF JobOK
<1>3. /\ entry' \in {entry, copy} /\ (entry = NoEntry => UNCHANGED entry)
      /\ faults' = faults \/ Fault
      /\ Replaces(r, Idle) \/ Replaces(r, new)
  BY <1>1, UpdateMove
<1>4. entry' = entry \/ (entry # NoEntry /\ Written(copy))
  BY <1>2, <1>3 DEF Written
<1>5. CASE Replaces(r, Idle)
  BY <1>1, <1>3, <1>4, <1>5
<1>6. CASE Replaces(r, new) /\ new # Idle
  <2>1. ASSUME NEW e \in Event, NEW step \in {"hooks", "postDelete"}, NEW clear \in {TRUE, FALSE}
        PROVE  Goes(G(e, step, clear), e, step)
    BY <1>2, <2>1, IdleType, JobType DEF Job, Steps, RecoverFrom
  <2>2. copy.prog # 0
    BY <1>6 DEF Recovered
  <2>3. copy.prog > 0
    BY <1>2, <2>2
  <2>4. copy.status \in {"POST-INSTALL", "PRE-DELETE", "POST-DELETE"}
    BY <1>6, <2>2 DEF Recovered
  <2>5. /\ copy.status = "POST-INSTALL" => new = G("post-install", "hooks", TRUE)
        /\ copy.status = "PRE-DELETE" => new = G("pre-delete", "hooks", FALSE)
        /\ copy.status = "POST-DELETE" => new = G("post-delete", "postDelete", TRUE)
    BY <2>2, <2>3 DEF Recovered
  <2> HIDE DEF G
  <2>6. /\ copy.status = "POST-INSTALL" => Goes(new, "post-install", "hooks")
        /\ copy.status = "PRE-DELETE" => Goes(new, "pre-delete", "hooks")
        /\ copy.status = "POST-DELETE" => Goes(new, "post-delete", "postDelete")
    <3>1. /\ Goes(G("post-install", "hooks", TRUE), "post-install", "hooks")
          /\ Goes(G("pre-delete", "hooks", FALSE), "pre-delete", "hooks")
          /\ Goes(G("post-delete", "postDelete", TRUE), "post-delete", "postDelete")
      BY <2>1 DEF Event
    <3> HIDE DEF new, copy, Goes
    <3> QED
      BY <2>5, <3>1
  <2>7. /\ new \in Job /\ new.copy = copy /\ new.i = copy.prog /\ new.made = copy.res
        /\ \/ /\ new.at = "hooks" /\ new.event = "post-install"
              /\ copy.status = "POST-INSTALL"
           \/ /\ new.at = "hooks" /\ new.event = "pre-delete"
              /\ copy.status = "PRE-DELETE"
           \/ /\ new.at = "postDelete" /\ new.event = "post-delete"
              /\ copy.status = "POST-DELETE"
    BY <2>4, <2>6
  <2> HIDE DEF new, copy
  <2>8. JobOK(new)
    BY <1>2, <2>7, FitsDef, StatusOfEvent DEF JobOK
  <2> QED
    BY <1>1, <1>3, <1>4, <1>6, <2>7, <2>8 DEF copy
<1> QED
  BY <1>3, <1>5, <1>6


\* The first job of the instance.
LEMMA CreateMove ==
    ASSUME InstancesAssumption, TypeInv, NEW r \in Requests, Create(r)
    PROVE  /\ ~ born /\ born' /\ Free(r) /\ ~ restarted'
           /\ faults' = faults \/ Fault
           /\ UNCHANGED entry \/ (entry' = NewEntry /\ Written(entry'))
           /\ \/ Replaces(r, job[r])
              \/ \E new :
                   /\ Replaces(r, new) /\ JobOK(new)
                   /\ new.at = "prepare" /\ new.event = "pre-install" /\ new.copy = NewEntry
                   /\ new.i = 0 /\ new.made = 0 /\ entry' = NewEntry
<1> DEFINE new == [Idle EXCEPT !.at = "prepare"]
<1>1. chart \in [Event -> Nat] /\ job = [job EXCEPT ![r] = job[r]] /\ "prepare" \in Steps
  BY DEF TypeInv, Steps
<1>2. /\ new \in Job /\ new.at = "prepare" /\ new.event = "pre-install"
      /\ new.copy = NewEntry /\ new.i = 0 /\ new.made = 0
  BY <1>1, IdleType, EditAt
<1>3. JobOK(new)
  BY <1>1, <1>2, IdleType DEF JobOK, Event
<1>4. \/ Replaces(r, job[r])
      \/ Replaces(r, new) /\ entry' = NewEntry
  BY <1>1 DEF Create, Replaces
<1> HIDE DEF new
<1>5. /\ ~ born /\ born' /\ Free(r) /\ ~ restarted'
      /\ faults' = faults \/ Fault
      /\ entry' \in {entry, NewEntry}
  BY DEF Create
<1> QED
  BY <1>1, <1>2, <1>3, <1>4, <1>5, IdleType DEF Written

\* A deletion, with what the entry says.
LEMMA DeleteMove ==
    ASSUME InstancesAssumption, TypeInv, NEW r \in Requests, Delete(r)
    PROVE  /\ Listed /\ Free(r) /\ ~ restarted' /\ UNCHANGED faults
           /\ IF \E q \in Requests : ~Free(q) /\ ~Answered(q)
                THEN doors' = doors \cup {"early"} ELSE UNCHANGED doors
           /\ \E new :
                /\ Replaces(r, new) /\ JobOK(new)
                /\ new.event = "pre-delete" /\ new.made = entry.res /\ new.i = 0
                /\ \/ new.at = "drop" /\ entry.status = "DELETED"
                   \/ new.at = "preDelete"
                /\ new.copy.res = entry.res /\ new.copy.hooks = entry.hooks
<1> DEFINE copy == [entry EXCEPT !.prog = 0]
           N(at) == [Idle EXCEPT !.at = at, !.copy = copy, !.event = "pre-delete",
                                 !.made = entry.res]
<1>0. chart \in [Event -> Nat]
  BY DEF TypeInv
<1>1. /\ Listed /\ Free(r) /\ ~ restarted' /\ UNCHANGED <<faults, chart>>
      /\ job' = [job EXCEPT ![r] = N(IF entry.status = "DELETED" THEN "drop" ELSE "preDelete")]
      /\ IF \E q \in Requests : ~Free(q) /\ ~Answered(q)
           THEN doors' = doors \cup {"early"} ELSE UNCHANGED doors
  BY DEF Delete, Opened
<1>2. /\ copy \in Entry /\ copy.prog = 0 /\ copy.status = entry.status
      /\ copy.res = entry.res /\ copy.hooks = entry.hooks
  BY <1>1, EntryType, EditProg DEF Listed
<1>3. entry.res \in 0..NRes
  BY <1>1, EntryType DEF Listed
<1> HIDE DEF copy
<1>4. PICK at \in {"drop", "preDelete"} :
         /\ job' = [job EXCEPT ![r] = N(at)]
         /\ at = "drop" => entry.status = "DELETED"
  BY <1>1
<1>5. /\ N(at) \in Job /\ N(at).at = at /\ N(at).event = "pre-delete" /\ N(at).i = 0
      /\ N(at).copy = copy /\ N(at).made = entry.res
  <2>1. Idle \in Job /\ Idle.i = 0
    BY <1>0, IdleType
  <2> QED
    BY <1>2, <1>3, <2>1 DEF Job, Steps, Event
<1> HIDE DEF N
<1>6. Fits(copy)
  BY <1>0, <1>2, FitsDef DEF Event
<1>7. JobOK(N(at))
  BY <1>0, <1>2, <1>5, <1>6 DEF JobOK, Event
<1>8. Replaces(r, N(at))
  BY <1>1, <1>4 DEF Replaces
<1> QED
  BY <1>1, <1>2, <1>4, <1>5, <1>7, <1>8

\* The recovery, with what the entry says and the templates it could resolve.
LEMMA RecoverMove ==
    ASSUME InstancesAssumption, TypeInv, NEW r \in Requests, Recover(r)
    PROVE  /\ restarted /\ entry # NoEntry /\ Free(r) /\ ~ restarted'
           /\ faults' = faults \/ Fault
           /\ doors' \in {doors, doors \cup {"unresolved"}}
           /\ \E new :
                /\ Replaces(r, new) /\ JobOK(new)
                /\ new.at = "recover" /\ new.event = "pre-install"
                /\ new.copy.status = entry.status /\ new.copy.res = entry.res
                /\ new.copy.prog = entry.prog
                /\ new.copy.hooks = "none" => "unresolved" \in doors'
<1> DEFINE copy(h) == [entry EXCEPT !.hooks = h]
           N(h) == [Idle EXCEPT !.at = "recover", !.copy = copy(h)]
<1>0. chart \in [Event -> Nat]
  BY DEF TypeInv
<1>1. /\ restarted /\ entry # NoEntry /\ Free(r) /\ ~ restarted' /\ UNCHANGED chart
      /\ faults' = faults \/ Fault
      /\ doors' \in {doors, doors \cup {"unresolved"}}
  BY DEF Recover, Opened
<1>2. PICK h \in {"fresh", "none"} :
         /\ job' = [job EXCEPT ![r] = N(h)]
         /\ h = "none" => "unresolved" \in doors'
  BY DEF Recover, Opened
<1>3. /\ copy(h) \in Entry /\ copy(h).prog = entry.prog /\ copy(h).status = entry.status
      /\ copy(h).res = entry.res /\ copy(h).hooks = h
  <2>1. entry \in Entry /\ h \in {"fresh", "stale", "none"}
    BY <1>1, <1>2, EntryType
  <2> QED
    BY <2>1, EditHooks
<1> HIDE DEF copy
<1>4. /\ N(h) \in Job /\ N(h).at = "recover" /\ N(h).event = "pre-install"
      /\ N(h).i = 0 /\ N(h).copy = copy(h)
  <2>1. Idle \in Job /\ Idle.i = 0 /\ Idle.event = "pre-install"
    BY <1>0, IdleType
  <2> QED
    BY <1>3, <2>1 DEF Job, Steps
<1> HIDE DEF N
<1>5. Fits(copy(h))
  BY <1>1, <1>3, EntryType, FitsDef
<1>6. JobOK(N(h))
  BY <1>0, <1>3, <1>4, <1>5 DEF JobOK, Event
<1>7. Replaces(r, N(h))
  BY <1>1, <1>2 DEF Replaces
<1> QED
  BY <1>1, <1>2, <1>3, <1>4, <1>6, <1>7

\* A crash: the templates of the entry are gone.
LEMMA CrashMove ==
    ASSUME TypeInv, Crash
    PROVE  /\ job' = [q \in Requests |-> Idle] /\ crashes' = crashes + 1 /\ restarted'
           /\ Fault /\ UNCHANGED <<chart, installed, started, born>>
           /\ IF \E q \in Requests : Busy(q)
                THEN doors' = doors \cup {"lost"} ELSE UNCHANGED doors
           /\ entry = NoEntry => UNCHANGED entry
           /\ entry # NoEntry =>
                /\ Written(entry') /\ entry'.status = entry.status
                /\ entry'.res = entry.res /\ entry'.prog = entry.prog
                /\ entry'.hooks = "none" => entry.hooks = "none"
<1>1. /\ job' = [q \in Requests |-> Idle] /\ crashes' = crashes + 1 /\ restarted'
      /\ Fault /\ UNCHANGED <<chart, installed, started, born>>
      /\ IF \E q \in Requests : Busy(q)
           THEN doors' = doors \cup {"lost"} ELSE UNCHANGED doors
      /\ entry' = IF entry # NoEntry /\ entry.hooks = "fresh"
                    THEN [entry EXCEPT !.hooks = "stale"] ELSE entry
  BY DEF Crash, Busy, Opened
<1>2. ASSUME entry # NoEntry
      PROVE  /\ entry' \in Entry /\ entry'.status = entry.status
             /\ entry'.res = entry.res /\ entry'.prog = entry.prog
             /\ entry'.hooks = "none" => entry.hooks = "none"
  BY <1>1, <1>2, EntryType, EditHooks
<1>3. entry # NoEntry => Fits(entry')
  BY <1>2, EntryType, FitsDef
<1> QED
  BY <1>1, <1>2, <1>3 DEF Written

\* A hook is counted among those of its event.
LEMMA CountedMove ==
    ASSUME TypeInv, NEW r \in Requests, At(r, "start"), Counted(r)
    PROVE  /\ job[r].event # "post-install" => UNCHANGED started
           /\ job[r].event = "post-install" =>
                /\ job[r].i + 1 \in 1..chart["post-install"]
                /\ started' = [started EXCEPT ![job[r].i + 1] = @ + 1]
           /\ started' \in [1..chart["post-install"] -> Nat]
<1>1. job[r].event = "post-install" => job[r].i + 1 \in 1..chart["post-install"]
  BY JobType DEF JobOK, At
<1> QED
  BY <1>1, JobType DEF Counted, TypeInv

-----------------------------------------------------------------------------
(* Types, step by step.                                                    *)

\* The steps, by what they make of their job.
Quiet(r)   == \/ Prepare(r) \/ EndHooks(r) \/ WaitHook(r) \/ Cleanup(r)
              \/ StartHook(r) \/ StartHookFails(r)
Status(r)  == SetCreating(r) \/ SetPreDelete(r) \/ SetDeleting(r) \/ SetPostDelete(r)
Cluster(r) == CreateResource(r) \/ CreateResourceFails(r) \/ RevertResource(r) \/ DeleteResource(r)
Last(r)    == Drop(r) \/ RecordDone(r) \/ HooksFailed(r) \/ RecordDeleted(r)

LEMMA StepsOf ==
    ASSUME Next
    PROVE  \/ Crash
           \/ \E r \in Requests :
                 \/ Quiet(r) \/ Status(r) \/ Cluster(r) \/ Last(r) \/ RecordProgress(r)
                 \/ RecordCreated(r) \/ ResourcesDeleted(r) \/ RecordRecovered(r)
                 \/ Create(r) \/ Delete(r) \/ Recover(r)
BY DEF Next, Quiet, Status, Cluster, Last

\* What a group of steps leaves alone.
LEMMA QuietRest ==
    ASSUME TypeInv, NEW r \in Requests, Quiet(r)
    PROVE  /\ UNCHANGED <<entry, installed, crashes, doors, born, restarted>>
           /\ faults' = faults \/ Fault
           /\ \/ UNCHANGED started
              \/ At(r, "start") /\ Counted(r)
           /\ StartHook(r) => At(r, "start") /\ Counted(r)
BY DEF Quiet, Prepare, EndHooks, WaitHook, Cleanup, StartHook, StartHookFails

LEMMA StatusRest ==
    ASSUME NEW r \in Requests, Status(r)
    PROVE  UNCHANGED <<installed, started, crashes, doors, born, restarted>>
BY DEF Status, SetCreating, SetPreDelete, SetDeleting, SetPostDelete

LEMMA ClusterRest ==
    ASSUME InstancesAssumption, TypeInv, NEW r \in Requests, Cluster(r)
    PROVE  /\ UNCHANGED <<entry, started, crashes, born, restarted>>
           /\ doors' \in {doors, doors \cup {"lost"}}
           /\ faults' = faults \/ Fault
           /\ \/ /\ CreateResource(r) /\ At(r, "create") /\ UNCHANGED doors
                 /\ job[r].made < NRes /\ CreateKind(job[r].made + 1)
              \/ /\ CreateResourceFails(r) /\ At(r, "create") /\ job[r].made < NRes
                 /\ \/ UNCHANGED <<installed, doors>>
                    \/ CreateKind(job[r].made + 1) /\ "lost" \in doors'
              \/ /\ RevertResource(r) /\ At(r, "revert")
                 /\ UNCHANGED installed \/ (DeleteKind(job[r].made) /\ UNCHANGED doors)
              \/ /\ DeleteResource(r) /\ At(r, "delete") /\ job[r].made > 0 /\ UNCHANGED doors
                 /\ UNCHANGED installed \/ DeleteKind(job[r].made)
           /\ installed' \subseteq Resource
<1>1. job[r].made \in 0..NRes /\ installed \subseteq Resource /\ NRes \in Nat
  BY JobType DEF TypeInv, InstancesAssumption
<1>2. /\ UNCHANGED <<entry, started, crashes, born, restarted>>
      /\ doors' \in {doors, doors \cup {"lost"}}
      /\ faults' = faults \/ Fault
  BY DEF Cluster, CreateResource, CreateResourceFails, RevertResource, DeleteResource, Opened
<1>3. \/ /\ CreateResource(r) /\ At(r, "create") /\ UNCHANGED doors
         /\ job[r].made < NRes /\ CreateKind(job[r].made + 1)
      \/ /\ CreateResourceFails(r) /\ At(r, "create") /\ job[r].made < NRes
         /\ \/ UNCHANGED <<installed, doors>>
            \/ CreateKind(job[r].made + 1) /\ "lost" \in doors'
      \/ /\ RevertResource(r) /\ At(r, "revert")
         /\ UNCHANGED installed \/ (DeleteKind(job[r].made) /\ UNCHANGED doors)
      \/ /\ DeleteResource(r) /\ At(r, "delete") /\ job[r].made > 0 /\ UNCHANGED doors
         /\ UNCHANGED installed \/ DeleteKind(job[r].made)
  BY DEF Cluster, CreateResource, CreateResourceFails, RevertResource, DeleteResource, Opened
<1>4. installed' \subseteq Resource
  <2>1. job[r].made < NRes => job[r].made + 1 \in Resource
    BY <1>1 DEF Resource
  <2> QED
    BY <1>1, <1>3, <2>1 DEF CreateKind, DeleteKind
<1> QED
  BY <1>2, <1>3, <1>4

LEMMA RecordRest ==
    ASSUME NEW r \in Requests,
           \/ Last(r) \/ RecordProgress(r) \/ RecordRecovered(r) \/ ResourcesDeleted(r)
    PROVE  /\ UNCHANGED <<installed, started, crashes, doors, born, restarted>>
           /\ ResourcesDeleted(r) => UNCHANGED <<entry, faults>>
BY DEF Last, Drop, RecordDone, HooksFailed, RecordDeleted, RecordProgress,
       RecordRecovered, ResourcesDeleted

LEMMA OtherRest ==
    ASSUME NEW r \in Requests
    PROVE  /\ RecordCreated(r) => UNCHANGED <<installed, started, crashes, born, restarted>>
           /\ Create(r) => UNCHANGED <<installed, started, crashes, doors>>
           /\ Delete(r) => UNCHANGED <<entry, installed, started, crashes, born>>
           /\ Recover(r) => UNCHANGED <<entry, installed, started, crashes, born>>
BY DEF RecordCreated, Create, Delete, Recover

LEMMA TypeStep == ASSUME InstancesAssumption, TypeInv, [Next]_vars PROVE TypeInv'
<1>0. /\ chart \in [Event -> Nat] /\ installed \subseteq Resource /\ doors \subseteq Doors
      /\ started \in [1..chart["post-install"] -> Nat]
      /\ "lost" \in Doors /\ "early" \in Doors /\ "unresolved" \in Doors
  BY DEF TypeInv, Doors
<1>1. JobOK(Idle)
  BY <1>0, IdleType
<1>2. ASSUME NEW r \in Requests, Quiet(r) PROVE TypeInv'
  <2>1. started' \in [1..chart["post-install"] -> Nat]
    BY <1>0, <1>2, QuietRest, CountedMove
  <2> QED
    BY <1>0, <1>1, <1>2, <2>1, QuietMove, QuietRest, TypeFrame DEF Quiet
<1>3. ASSUME NEW r \in Requests, Status(r) PROVE TypeInv'
  BY <1>0, <1>3, StatusMove, StatusRest, TypeFrame DEF Status, Written
<1>4. ASSUME NEW r \in Requests, Cluster(r) PROVE TypeInv'
  BY <1>0, <1>1, <1>4, ClusterMove, ClusterRest, TypeFrame DEF Cluster
<1>5. ASSUME NEW r \in Requests, Last(r) PROVE TypeInv'
  BY <1>0, <1>1, <1>5, LastMove, RecordRest, TypeFrame DEF Last
<1>6. ASSUME NEW r \in Requests, RecordProgress(r) PROVE TypeInv'
  BY <1>0, <1>6, ProgressMove, RecordRest, TypeFrame DEF Written
<1>7. ASSUME NEW r \in Requests, RecordCreated(r) PROVE TypeInv'
  BY <1>0, <1>1, <1>7, CreatedMove, OtherRest, TypeFrame
<1>8. ASSUME NEW r \in Requests, ResourcesDeleted(r) PROVE TypeInv'
  BY <1>0, <1>8, DeletedMove, RecordRest, TypeFrame
<1>9. ASSUME NEW r \in Requests, RecordRecovered(r) PROVE TypeInv'
  BY <1>0, <1>1, <1>9, RecoveredMove, RecordRest, TypeFrame DEF Written
<1>10. ASSUME NEW r \in Requests, Create(r) PROVE TypeInv'
  BY <1>0, <1>10, CreateMove, OtherRest, JobType, TypeFrame
<1>11. ASSUME NEW r \in Requests, Delete(r) PROVE TypeInv'
  BY <1>0, <1>11, DeleteMove, OtherRest, TypeFrame
<1>12. ASSUME NEW r \in Requests, Recover(r) PROVE TypeInv'
  BY <1>0, <1>12, RecoverMove, OtherRest, TypeFrame
<1>13. CASE Crash
  <2>1. /\ job' \in [Requests -> Job] /\ \A r \in Requests : JobOK(job'[r])
        /\ UNCHANGED <<chart, installed, started>>
    BY <1>0, <1>1, <1>13, IdleType, CrashMove
  <2>2. \A r \in Requests : JobOK(job[r])'
    BY <2>1 DEF JobOK, Fits
  <2>3. entry' \in Entry \cup {NoEntry} /\ (entry' # NoEntry => Fits(entry)')
    BY <1>13, <2>1, CrashMove DEF TypeInv, Written, Fits
  <2>4. faults' \in Nat /\ crashes' \in Nat /\ doors' \subseteq Doors
    BY <1>0, <1>13, CrashMove DEF Fault, TypeInv
  <2> QED
    BY <2>1, <2>2, <2>3, <2>4 DEF TypeInv
<1>14. CASE UNCHANGED vars
  BY <1>14 DEF TypeInv, JobOK, Fits
<1> QED
  BY <1>2, <1>3, <1>4, <1>5, <1>6, <1>7, <1>8, <1>9, <1>10, <1>11, <1>12, <1>13, <1>14, StepsOf

\* Every variable stays in its range.
THEOREM TypeCorrect == ASSUME InstancesAssumption PROVE Spec => []TypeOK
<1>1. Init => TypeInv
  BY TypeInit
<1>2. TypeInv /\ [Next]_vars => TypeInv'
  BY TypeStep
<1>3. TypeInv => TypeOK
  BY JobType DEF TypeInv, TypeOK, JobOK
<1> QED
  BY <1>1, <1>2, <1>3, PTL DEF Spec

-----------------------------------------------------------------------------
(* One job of Create or of the recovery at a time.                         *)

LEMMA NotFree ==
    ASSUME NEW r \in Requests,
           \/ Quiet(r) \/ Status(r) \/ Cluster(r) \/ Last(r) \/ RecordProgress(r)
           \/ RecordCreated(r) \/ ResourcesDeleted(r) \/ RecordRecovered(r)
    PROVE  ~ Free(r)
BY DEF Quiet, Prepare, EndHooks, WaitHook, Cleanup, StartHook, StartHookFails,
       Status, SetCreating, SetPreDelete, SetDeleting, SetPostDelete, SetStatus,
       Cluster, CreateResource, CreateResourceFails, RevertResource, DeleteResource,
       Last, Drop, RecordDone, HooksFailed, RecordDeleted,
       RecordProgress, RecordCreated, ResourcesDeleted, RecordRecovered, At, Free

LEMMA LineInit == ASSUME InstancesAssumption, Init PROVE LineInv
<1>1. \A r \in Requests : Free(r)
  BY DEF Init, Free, At, Idle
<1> QED
  BY <1>1 DEF Init, LineInv, Lineage

\* The job goes on, or ends.
LEMMA LineFrame ==
    ASSUME TypeInv, LineInv, NEW r \in Requests, NEW new, Replaces(r, new), ~ Free(r),
           UNCHANGED <<born, restarted>>,
           new.at = "idle" \/ new.event \notin {"pre-install", "post-install"} \/ Lineage(r)
    PROVE  LineInv'
<1>1. born' /\ ~ restarted'
  BY DEF LineInv
<1>2. \A q \in Requests : Lineage(q)' => Lineage(q)
  BY Replaced DEF Lineage, Free, At
<1> QED
  BY <1>1, <1>2 DEF LineInv

LEMMA LineStep == ASSUME InstancesAssumption, TypeInv, LineInv, [Next]_vars PROVE LineInv'
<1>1. Idle.at = "idle"
  BY DEF Idle
<1>2. ASSUME NEW r \in Requests, Quiet(r) PROVE LineInv'
  <2>1. UNCHANGED <<born, restarted>> /\ ~ Free(r)
    BY <1>2, QuietRest, NotFree
  <2>2. PICK new : /\ Replaces(r, new)
                   /\ new = Idle \/ new.event = job[r].event
    BY <1>2, QuietMove DEF Quiet
  <2> QED
    BY <1>1, <2>1, <2>2, LineFrame DEF Lineage
<1>3. ASSUME NEW r \in Requests, Status(r) PROVE LineInv'
  <2>1. UNCHANGED <<born, restarted>> /\ ~ Free(r)
    BY <1>3, StatusRest, NotFree
  <2>2. PICK new : Replaces(r, new) /\ new.event = job[r].event
    BY <1>3, StatusMove DEF Status
  <2> QED
    BY <2>1, <2>2, LineFrame DEF Lineage
<1>4. ASSUME NEW r \in Requests, Cluster(r) PROVE LineInv'
  <2>1. UNCHANGED <<born, restarted>> /\ ~ Free(r)
    BY <1>4, ClusterRest, NotFree
  <2>2. PICK new : /\ Replaces(r, new)
                   /\ new = Idle \/ new.event = job[r].event
    BY <1>4, ClusterMove DEF Cluster
  <2> QED
    BY <1>1, <2>1, <2>2, LineFrame DEF Lineage
<1>5. ASSUME NEW r \in Requests, Last(r) PROVE LineInv'
  <2>1. UNCHANGED <<born, restarted>> /\ ~ Free(r)
    BY <1>5, RecordRest, NotFree
  <2>2. Replaces(r, Idle)
    BY <1>5, LastMove DEF Last
  <2> QED
    BY <1>1, <2>1, <2>2, LineFrame
<1>6. ASSUME NEW r \in Requests, RecordProgress(r) PROVE LineInv'
  <2>1. UNCHANGED <<born, restarted>> /\ ~ Free(r)
    BY <1>6, RecordRest, NotFree
  <2>2. PICK new : Replaces(r, new) /\ new.event = job[r].event
    BY <1>6, ProgressMove
  <2> QED
    BY <2>1, <2>2, LineFrame DEF Lineage
<1>7. ASSUME NEW r \in Requests, RecordCreated(r) PROVE LineInv'
  <2>1. UNCHANGED <<born, restarted>> /\ ~ Free(r)
    BY <1>7, OtherRest, NotFree
  <2>2. Lineage(r)
    BY <1>7, <2>1, CreatedMove, JobType DEF JobOK, Lineage, At
  <2>3. PICK new : Replaces(r, new)
    BY <1>7, CreatedMove
  <2> QED
    BY <2>1, <2>2, <2>3, LineFrame
<1>8. ASSUME NEW r \in Requests, ResourcesDeleted(r) PROVE LineInv'
  <2>1. UNCHANGED <<born, restarted>> /\ ~ Free(r)
    BY <1>8, RecordRest, NotFree
  <2>2. PICK new : Replaces(r, new) /\ new.event = "post-delete"
    BY <1>8, DeletedMove
  <2> QED
    BY <2>1, <2>2, LineFrame
<1>9. ASSUME NEW r \in Requests, RecordRecovered(r) PROVE LineInv'
  <2>1. UNCHANGED <<born, restarted>> /\ ~ Free(r)
    BY <1>9, RecordRest, NotFree
  <2>2. Lineage(r)
    BY <1>9, <2>1, RecoveredMove, JobType DEF JobOK, Lineage, At
  <2>3. PICK new : Replaces(r, new)
    BY <1>9, RecoveredMove
  <2> QED
    BY <2>1, <2>2, <2>3, LineFrame
<1>10. ASSUME NEW r \in Requests, Create(r) PROVE LineInv'
  <2>1. /\ born' /\ ~ restarted'
        /\ \A q \in Requests : Free(q)
    BY <1>10, CreateMove DEF LineInv
  <2>2. PICK new : Replaces(r, new)
    BY <1>10, CreateMove
  <2>3. \A q \in Requests \ {r} : ~ Lineage(q)'
    BY <2>1, <2>2, Replaced DEF Lineage, Free, At
  <2> QED
    BY <2>1, <2>3 DEF LineInv
<1>11. ASSUME NEW r \in Requests, Delete(r) PROVE LineInv'
  <2>1. /\ born' /\ ~ restarted'
    BY <1>11, DeleteMove, OtherRest DEF LineInv, Listed
  <2>2. PICK new : Replaces(r, new) /\ new.event = "pre-delete"
    BY <1>11, DeleteMove
  <2>3. \A q \in Requests : Lineage(q)' => Lineage(q)
    BY <2>2, Replaced DEF Lineage, Free, At
  <2> QED
    BY <2>1, <2>3 DEF LineInv
<1>12. ASSUME NEW r \in Requests, Recover(r) PROVE LineInv'
  <2>1. /\ born' /\ ~ restarted'
        /\ \A q \in Requests : Free(q)
    BY <1>12, RecoverMove, OtherRest DEF LineInv
  <2>2. PICK new : Replaces(r, new)
    BY <1>12, RecoverMove
  <2>3. \A q \in Requests \ {r} : ~ Lineage(q)'
    BY <2>1, <2>2, Replaced DEF Lineage, Free, At
  <2> QED
    BY <2>1, <2>3 DEF LineInv
<1>13. CASE Crash
  <2>1. \A q \in Requests : Free(q)'
    BY <1>1, <1>13, CrashMove DEF Free, At
  <2>2. born'
    BY <1>13 DEF Crash, LineInv
  <2> QED
    BY <2>1, <2>2 DEF LineInv, Lineage
<1>14. CASE UNCHANGED vars
  BY <1>14 DEF LineInv, Lineage, Free, At
<1> QED
  BY <1>2, <1>3, <1>4, <1>5, <1>6, <1>7, <1>8, <1>9, <1>10, <1>11, <1>12, <1>13, <1>14, StepsOf

-----------------------------------------------------------------------------
(* Hooks left out, and hooks created.                                      *)

LEMMA GapsFinite == ASSUME NEW s, NEW k \in Nat PROVE IsFiniteSet({g \in 1..k : s[g] = 0})
<1>1. IsFiniteSet(1..k)
  BY FS_Interval
<1> QED
  BY <1>1, FS_Subset

LEMMA GapsType == ASSUME NEW s, NEW k \in Nat PROVE Gaps(s, k) \in Nat
BY GapsFinite, FS_CardinalityType DEF Gaps

LEMMA GapsZero == ASSUME NEW s PROVE Gaps(s, 0) = 0
<1>1. {g \in 1..0 : s[g] = 0} = {}
  OBVIOUS
<1> QED
  BY <1>1, FS_EmptySet DEF Gaps

\* One more hook is one more gap at most, and none if it was created.
LEMMA GapsNext ==
    ASSUME NEW s, NEW k \in Nat
    PROVE  /\ Gaps(s, k + 1) <= Gaps(s, k) + 1
           /\ s[k + 1] # 0 => Gaps(s, k + 1) = Gaps(s, k)
<1> DEFINE S == {g \in 1..k : s[g] = 0}
           T == {g \in 1..(k + 1) : s[g] = 0}
<1>1. IsFiniteSet(S) /\ Gaps(s, k) = Cardinality(S) /\ Gaps(s, k) \in Nat
  BY GapsFinite, GapsType DEF Gaps
<1>2. Gaps(s, k + 1) = Cardinality(T)
  BY DEF Gaps
<1>3. s[k + 1] # 0 => T = S
  OBVIOUS
<1>4. s[k + 1] = 0 => T = S \cup {k + 1}
  OBVIOUS
<1> HIDE DEF S, T
<1>5. Cardinality(S \cup {k + 1}) \in {Cardinality(S), Cardinality(S) + 1}
  BY <1>1, FS_AddElement
<1> QED
  BY <1>1, <1>2, <1>3, <1>4, <1>5

\* A hook that is created is a gap no more.
LEMMA GapsFewer ==
    ASSUME NEW s, NEW t, NEW k \in Nat, \A h \in 1..k : t[h] = 0 => s[h] = 0
    PROVE  Gaps(t, k) <= Gaps(s, k)
<1>1. {g \in 1..k : t[g] = 0} \subseteq {g \in 1..k : s[g] = 0}
  OBVIOUS
<1>2. IsFiniteSet({g \in 1..k : s[g] = 0})
  BY GapsFinite
<1> QED
  BY <1>1, <1>2, FS_Subset DEF Gaps

LEMMA HookInit == ASSUME InstancesAssumption, Init PROVE HookInv
BY DEF Init, HookInv, HookJob, Idle

LEMMA HookIdle == ASSUME NEW e, NEW s, NEW c PROVE HookJob(Idle, e, s, c)
BY DEF HookJob, Idle

\* A job of a deletion has nothing to do with the hooks of the installation.
LEMMA HookDeletes ==
    ASSUME NEW j, JobOK(j), j.at = "idle" \/ j.event \notin {"pre-install", "post-install"},
           NEW e, NEW s, NEW c
    PROVE  HookJob(j, e, s, c)
BY DEF HookJob, JobOK

\* A step that creates no hook, and writes no progress of a post-install hook but
\* the one of its job.
LEMMA HookFrame ==
    ASSUME TypeInv, LineInv, HookInv, NEW r \in Requests, NEW new, Replaces(r, new),
           UNCHANGED <<started, crashes>>, ~ restarted',
           \/ entry' \in {entry, NoEntry}
           \/ entry'.status # "POST-INSTALL"
           \/ Begun(entry', started, crashes + 1) /\ Lineage(r),
           HookJob(new, entry', started, crashes)
    PROVE  HookInv'
<1>1. ASSUME NEW q \in Requests \ {r}
      PROVE  HookJob(job[q], entry', started, crashes)
  <2>1. HookJob(job[q], entry, started, crashes) /\ JobOK(job[q])
    BY JobType DEF HookInv
  <2>2. CASE Lineage(q)
    <3>1. ~ Lineage(r)
      BY <2>2 DEF LineInv
    <3> QED
      BY <2>1, <3>1 DEF HookJob
  <2>3. CASE ~ Lineage(q)
    BY <2>1, <2>3, HookDeletes DEF Lineage, Free, At
  <2> QED
    BY <2>2, <2>3
<1>2. \A q \in Requests : HookJob(job'[q], entry', started', crashes')
  BY <1>1, Replaced
<1>3. entry' # NoEntry => Begun(entry', started, crashes + 1)
  BY DEF HookInv, Begun
<1> QED
  BY <1>2, <1>3 DEF HookInv

\* The creation of a hook.
LEMMA HookStarts ==
    ASSUME InstancesAssumption, TypeInv, LineInv, HookInv, NEW r \in Requests, NEW new,
           Replaces(r, new), JobOK(new), At(r, "start"), Counted(r),
           job[r].event = "post-install", UNCHANGED <<entry, crashes, restarted>>,
           new.event = job[r].event, new.i = job[r].i, new.at \in {"wait", "failed"}
    PROVE  HookInv'
<1> DEFINE i == job[r].i
           n == chart["post-install"]
<1>1. /\ i \in Nat /\ i < n /\ n \in Nat /\ crashes \in Nat
      /\ started \in [1..n -> Nat]
      /\ started' = [started EXCEPT ![i + 1] = @ + 1]
  BY JobType, CountedMove DEF TypeInv, JobOK, At, Event
<1>2. /\ Within(started, i) /\ Gaps(started, i) <= crashes
      /\ entry = NoEntry \/ entry.status # "POST-INSTALL" \/ entry.prog > i
  BY DEF HookInv, HookJob, At
<1> HIDE DEF i, n
<1>3. started[i + 1] = 0 /\ started'[i + 1] = 1
  BY <1>1, <1>2 DEF Within
<1>4. DOMAIN started = 1..n /\ DOMAIN started' = 1..n
  BY <1>1
<1>5. \A h \in 1..n : h # i + 1 => started'[h] = started[h]
  BY <1>1
<1>6. \A k \in 0..n : Gaps(started', k) <= Gaps(started, k)
  <2> TAKE k \in 0..n
  <2>1. \A h \in 1..k : started'[h] = 0 => started[h] = 0
    BY <1>1, <1>3, <1>5
  <2>2. k \in Nat
    BY <1>1
  <2> QED
    BY <2>1, <2>2, GapsFewer
<1>7. \A k \in 0..n : Within(started, k) /\ i + 1 <= k => Within(started', k)
  BY <1>1, <1>4, <1>5 DEF Within
<1>8. ASSUME NEW q \in Requests
      PROVE  HookJob(job'[q], entry', started', crashes')
  <2>1. Lineage(r)
    BY DEF Lineage, Free, At
  <2>2. CASE q = r
    <3>1. job'[q] = new
      BY <2>2, Replaced
    <3>2. Gaps(started', i) <= crashes
      <4>1. Gaps(started, i) \in Nat /\ Gaps(started', i) \in Nat
        BY <1>1, GapsType
      <4>2. i \in 0..n
        BY <1>1
      <4>3. Gaps(started', i) <= Gaps(started, i)
        BY <1>6, <4>2
      <4> QED
        BY <1>1, <1>2, <4>1, <4>3
    <3>3. Within(started', i + 1)
      BY <1>1, <1>2, <1>3, <1>4, <1>5 DEF Within
    <3> QED
      BY <1>3, <3>1, <3>2, <3>3 DEF HookJob, i
  <2>3. CASE q # r
    <3>1. job'[q] = job[q] /\ ~ Lineage(q) /\ JobOK(job[q])
      BY <2>1, <2>3, Replaced, JobType DEF LineInv
    <3> QED
      BY <3>1, HookDeletes DEF Lineage, Free, At
  <2> QED
    BY <2>2, <2>3
<1>9. entry # NoEntry => Begun(entry, started', crashes + 1)
  <2> SUFFICES ASSUME entry # NoEntry, entry.status = "POST-INSTALL"
               PROVE  Gaps(started', entry.prog) <= crashes + 1 /\ Within(started', entry.prog)
    BY DEF Begun
  <2>1. entry.prog \in 0..n
    BY <1>1, EntryType, FitsDef DEF n
  <2>2. Gaps(started, entry.prog) <= crashes + 1 /\ Within(started, entry.prog)
    BY DEF HookInv, Begun
  <2>3. Gaps(started, entry.prog) \in Nat /\ Gaps(started', entry.prog) \in Nat
    BY <2>1, GapsType
  <2>4. Gaps(started', entry.prog) <= Gaps(started, entry.prog)
    BY <1>6, <2>1
  <2>5. Gaps(started', entry.prog) <= crashes + 1
    BY <1>1, <2>2, <2>3, <2>4
  <2>6. i + 1 <= entry.prog
    BY <1>1, <1>2, <2>1
  <2>7. Within(started', entry.prog)
    BY <1>7, <2>1, <2>2, <2>6
  <2> QED
    BY <2>5, <2>7
<1>10. ~ restarted'
  BY DEF LineInv, Free, At
<1>11. \A h \in DOMAIN started' : started'[h] <= 1
  BY <1>1, <1>3, <1>4, <1>5 DEF HookInv
<1>12. ASSUME NEW h \in 1..n, started'[h] # 0
       PROVE  Gaps(started', h - 1) <= crashes
  <2>1. Gaps(started, h - 1) <= crashes
    BY <1>1, <1>2, <1>4, <1>5, <1>12 DEF HookInv
  <2>2. h - 1 \in 0..n
    BY <1>1
  <2>3. Gaps(started', h - 1) <= Gaps(started, h - 1)
    BY <1>6, <2>2
  <2>4. Gaps(started, h - 1) \in Nat /\ Gaps(started', h - 1) \in Nat
    BY <2>2, GapsType
  <2> QED
    BY <1>1, <2>1, <2>3, <2>4
<1> QED
  BY <1>4, <1>8, <1>9, <1>10, <1>11, <1>12 DEF HookInv

LEMMA HookStep ==
    ASSUME InstancesAssumption, TypeInv, LineInv, HookInv, [Next]_vars
    PROVE  HookInv'
<1>0. crashes \in Nat /\ started \in [1..chart["post-install"] -> Nat]
      /\ chart["post-install"] \in Nat
  BY DEF TypeInv, Event
<1>1. ASSUME NEW r \in Requests, ~ Free(r)
      PROVE  /\ HookJob(job[r], entry, started, crashes) /\ JobOK(job[r]) /\ ~ restarted
             /\ job[r].at # "idle"
             /\ job[r].event \in {"pre-install", "post-install"} => Lineage(r)
  BY <1>1, JobType DEF HookInv, LineInv, Lineage, Free, At
<1>2. ASSUME NEW r \in Requests, Quiet(r) PROVE HookInv'
  <2>1. /\ UNCHANGED <<entry, crashes, restarted>> /\ ~ Free(r)
        /\ UNCHANGED started \/ (At(r, "start") /\ Counted(r))
        /\ StartHook(r) => At(r, "start") /\ Counted(r)
    BY <1>2, QuietRest, NotFree
  <2>2. HookJob(job[r], entry, started, crashes) /\ JobOK(job[r]) /\ ~ restarted
    BY <1>1, <2>1
  <2>3. CASE UNCHANGED started /\ Replaces(r, Idle)
    BY <2>1, <2>2, <2>3, HookIdle, HookFrame
  <2>4. CASE ~ UNCHANGED started /\ Replaces(r, Idle)
    <3>1. Goto(r, "wait") \/ Goto(r, "failed")
      BY <1>2, <2>4 DEF Quiet, Prepare, EndHooks, WaitHook, Cleanup, StartHook, StartHookFails
    <3>2. job'[r].at # "idle"
      BY <3>1, JobType DEF Goto, TypeInv, Job
    <3> QED
      BY <2>4, <3>2, Replaced DEF Idle
  <2>5. ASSUME NEW new, Replaces(r, new), JobOK(new),
               new.event = job[r].event,
               \/ At(r, "prepare") /\ new.at = "hooks" /\ new.i = job[r].i
               \/ At(r, "cleanup") /\ new.at = "delete" /\ new.i = job[r].i
               \/ At(r, "hooks") /\ new.at = "failed" /\ new.i = job[r].i
               \/ /\ At(r, "hooks") /\ new.i = job[r].i
                  /\ new.at = AfterHooks(job[r])
               \/ At(r, "start") /\ new.at \in {"wait", "failed"} /\ new.i = job[r].i
               \/ At(r, "wait") /\ new.at = "failed" /\ new.i = job[r].i
               \/ At(r, "wait") /\ new.at = "hooks" /\ new.i = job[r].i + 1
        PROVE  HookInv'
    <3>1. CASE job[r].event \notin {"pre-install", "post-install"}
      <4>1. UNCHANGED started
        BY <2>1, <3>1, CountedMove
      <4> QED
        BY <2>1, <2>2, <2>5, <3>1, <4>1, HookDeletes, HookFrame
    <3>2. CASE job[r].event = "pre-install"
      <4>1. UNCHANGED started
        BY <2>1, <3>2, CountedMove
      <4>2. new.at \notin {"recover", "idle"}
        BY <2>5, <3>2 DEF AfterHooks
      <4>3. HookJob(new, entry', started, crashes)
        BY <2>1, <2>2, <2>5, <3>2, <4>2 DEF HookJob, At
      <4> QED
        BY <2>1, <2>2, <2>5, <4>1, <4>3, HookFrame
    <3>3. CASE job[r].event = "post-install" /\ At(r, "start")
      <4>1. new.at \in {"wait", "failed"} /\ new.i = job[r].i
        BY <2>5, <3>3 DEF At
      <4>2. CASE Counted(r)
        BY <2>1, <2>5, <3>3, <4>1, <4>2, HookStarts
      <4>3. CASE ~ Counted(r)
        <5>1. StartHookFails(r) /\ UNCHANGED started
          BY <1>2, <2>1, <3>3, <4>3
             DEF Quiet, Prepare, EndHooks, WaitHook, Cleanup, At
        <5>2. job'[r].at = "failed"
          BY <5>1, JobType DEF StartHookFails, Goto, TypeInv, Job
        <5>3. new.at = "failed"
          BY <2>5, <5>2, Replaced
        <5>4. HookJob(new, entry', started, crashes)
          BY <2>1, <2>2, <2>5, <3>3, <4>1, <5>3 DEF HookJob, At
        <5> QED
          BY <2>1, <2>2, <2>5, <5>1, <5>4, HookFrame
      <4> QED
        BY <4>2, <4>3
    <3>4. CASE job[r].event = "post-install" /\ ~ At(r, "start")
      <4>1. UNCHANGED started
        BY <2>1, <3>4
      <4>2. /\ Gaps(started, job[r].i) <= crashes
            /\ At(r, "wait") => /\ started[job[r].i + 1] # 0
                                /\ Within(started, job[r].i + 1)
        BY <2>2, <3>4, <1>1, <2>1 DEF HookJob, At, Free
      <4>3. At(r, "wait") => Gaps(started, job[r].i + 1) = Gaps(started, job[r].i)
        BY <4>2, GapsNext, JobType
      <4>4. new.at \in {"hooks", "failed", "done"}
        BY <2>5, <2>2, <3>4 DEF AfterHooks, JobOK, At
      <4>5. Gaps(started, new.i) <= crashes
        BY <2>5, <3>4, <4>2, <4>3
      <4>6. new.at = "hooks" => Within(started, new.i)
        BY <2>2, <2>5, <3>4, <4>2 DEF AfterHooks, JobOK, At
      <4>7. HookJob(new, entry', started, crashes)
        BY <2>5, <3>4, <4>4, <4>5, <4>6 DEF HookJob
      <4> QED
        BY <2>1, <2>2, <2>5, <4>1, <4>7, HookFrame
    <3> QED
      BY <3>1, <3>2, <3>3, <3>4
  <2> QED
    BY <1>2, <2>3, <2>4, <2>5, QuietMove DEF Quiet
<1>3. ASSUME NEW r \in Requests, Status(r) PROVE HookInv'
  <2>1. UNCHANGED <<started, crashes, restarted>> /\ ~ Free(r)
    BY <1>3, StatusRest, NotFree
  <2>2. HookJob(job[r], entry, started, crashes) /\ JobOK(job[r]) /\ ~ restarted
    BY <1>1, <2>1
  <2>3. PICK new :
           /\ Replaces(r, new) /\ JobOK(new) /\ new.event = job[r].event
           /\ \/ At(r, "setCreating") /\ new.at \in {"create", "drop"}
              \/ At(r, "preDelete") \/ At(r, "deleting") \/ At(r, "postDelete")
           /\ entry' = entry \/ entry'.status # "POST-INSTALL"
    BY <1>3, StatusMove DEF Status
  <2>4. HookJob(new, entry', started, crashes)
    <3>1. CASE At(r, "setCreating")
      <4>1. job[r].event = "pre-install" /\ Within(started, 0)
        BY <2>2, <3>1 DEF HookJob, JobOK, At
      <4> QED
        BY <2>3, <3>1, <4>1 DEF HookJob, At
    <3>2. CASE ~ At(r, "setCreating")
      <4>1. new.event \in {"pre-delete", "post-delete"}
        BY <2>2, <2>3, <3>2 DEF JobOK, At
      <4> QED
        BY <2>3, <4>1, HookDeletes
    <3> QED
      BY <3>1, <3>2
  <2> QED
    BY <2>1, <2>2, <2>3, <2>4, HookFrame
<1>4. ASSUME NEW r \in Requests, Cluster(r) PROVE HookInv'
  <2>1. UNCHANGED <<entry, started, crashes, restarted>> /\ ~ Free(r)
    BY <1>4, ClusterRest, NotFree
  <2>2. HookJob(job[r], entry, started, crashes) /\ JobOK(job[r]) /\ ~ restarted
    BY <1>1, <2>1
  <2>3. CASE Replaces(r, Idle)
    BY <2>1, <2>2, <2>3, HookIdle, HookFrame
  <2>4. ASSUME NEW new, Replaces(r, new), JobOK(new), new.event = job[r].event,
               new.at \in {"create", "revert", "drop", "delete"}
        PROVE  HookInv'
    <3>1. At(r, "create") \/ At(r, "revert") \/ At(r, "delete")
      BY <1>4, ClusterRest
    <3>2. HookJob(new, entry', started, crashes)
      BY <2>1, <2>2, <2>4, <3>1 DEF HookJob, JobOK, At
    <3> QED
      BY <2>1, <2>2, <2>4, <3>2, HookFrame
  <2> QED
    BY <1>4, <2>3, <2>4, ClusterMove DEF Cluster
<1>5. ASSUME NEW r \in Requests, Last(r) PROVE HookInv'
  <2>1. UNCHANGED <<started, crashes, restarted>> /\ ~ Free(r)
    BY <1>5, RecordRest, NotFree
  <2>2. Replaces(r, Idle) /\ (entry' \in {entry, NoEntry} \/ entry'.status # "POST-INSTALL")
    BY <1>5, LastMove DEF Last
  <2> QED
    BY <1>1, <2>1, <2>2, HookIdle, HookFrame
<1>6. ASSUME NEW r \in Requests, RecordProgress(r) PROVE HookInv'
  <2>1. UNCHANGED <<started, crashes, restarted>> /\ ~ Free(r)
    BY <1>6, RecordRest, NotFree
  <2>2. HookJob(job[r], entry, started, crashes) /\ JobOK(job[r]) /\ ~ restarted
        /\ (job[r].event = "post-install" => Lineage(r))
    BY <1>1, <2>1
  <2>3. At(r, "hooks") /\ job[r].i \in Nat
    BY <1>6, ProgressMove, JobType
  <2>4. PICK new :
           /\ Replaces(r, new) /\ JobOK(new) /\ new.at \in {"start", "failed"}
           /\ new.event = job[r].event /\ new.i = job[r].i
           /\ new.copy.status = StatusOf[job[r].event] /\ new.copy.prog = job[r].i + 1
           /\ entry' = entry \/ entry' = new.copy
           /\ new.at = "start" => entry' = new.copy
    BY <1>6, ProgressMove DEF Written
  <2>5. CASE job[r].event = "post-install"
    <3>1. Gaps(started, job[r].i) <= crashes /\ Within(started, job[r].i)
      BY <2>2, <2>3, <2>5 DEF HookJob, At
    <3>2. Gaps(started, job[r].i + 1) <= crashes + 1
      <4>1. /\ Gaps(started, job[r].i) \in Nat /\ Gaps(started, job[r].i + 1) \in Nat
            /\ Gaps(started, job[r].i + 1) <= Gaps(started, job[r].i) + 1
        BY <2>3, GapsType, GapsNext
      <4> QED
        BY <1>0, <3>1, <4>1
    <3>3. Within(started, job[r].i + 1)
      BY <1>0, <2>3, <3>1 DEF Within
    <3>4. Begun(new.copy, started, crashes + 1)
      BY <2>4, <3>2, <3>3 DEF Begun
    <3>5. HookJob(new, entry', started, crashes)
      BY <2>3, <2>4, <2>5, <3>1 DEF HookJob
    <3> QED
      BY <2>1, <2>2, <2>4, <2>5, <3>4, <3>5, HookFrame
  <2>6. CASE job[r].event # "post-install"
    <3>1. new.copy.status # "POST-INSTALL"
      BY <2>4, <2>6, StatusOfEvent, JobType DEF Event
    <3>2. HookJob(new, entry', started, crashes)
      BY <2>2, <2>3, <2>4, <2>6 DEF HookJob, At
    <3> QED
      BY <2>1, <2>2, <2>4, <3>1, <3>2, HookFrame
  <2> QED
    BY <2>5, <2>6
<1>7. ASSUME NEW r \in Requests, RecordCreated(r) PROVE HookInv'
  <2>1. UNCHANGED <<started, crashes, restarted>> /\ ~ Free(r)
    BY <1>7, OtherRest, NotFree
  <2>2. /\ At(r, "create")
        /\ entry' = entry \/ entry'.status # "POST-INSTALL"
    BY <1>7, CreatedMove
  <2>3. Within(started, 0)
    BY <1>1, <2>1, <2>2 DEF HookJob, JobOK, At
  <2>4. CASE Replaces(r, Idle)
    BY <1>1, <2>1, <2>2, <2>4, HookIdle, HookFrame
  <2>5. ASSUME NEW new, Replaces(r, new), new.at = "hooks", new.event = "post-install", new.i = 0
        PROVE  HookInv'
    <3>1. HookJob(new, entry', started, crashes)
      BY <1>0, <2>3, <2>5, GapsZero DEF HookJob
    <3> QED
      BY <1>1, <2>1, <2>2, <2>5, <3>1, HookFrame
  <2> QED
    BY <1>7, <2>4, <2>5, CreatedMove
<1>8. ASSUME NEW r \in Requests, ResourcesDeleted(r) PROVE HookInv'
  <2>1. UNCHANGED <<entry, started, crashes, restarted>> /\ ~ Free(r)
    BY <1>8, RecordRest, NotFree
  <2>2. PICK new : Replaces(r, new) /\ JobOK(new) /\ new.event = "post-delete"
    BY <1>8, DeletedMove
  <2> QED
    BY <1>1, <2>1, <2>2, HookDeletes, HookFrame
<1>9. ASSUME NEW r \in Requests, RecordRecovered(r) PROVE HookInv'
  <2>1. UNCHANGED <<started, crashes, restarted>> /\ ~ Free(r)
    BY <1>9, RecordRest, NotFree
  <2>2. /\ At(r, "recover") /\ job[r].copy.prog \in Nat
        /\ entry' = entry \/ entry' = job[r].copy
    BY <1>9, RecoveredMove, JobType DEF Written
  <2>3. Begun(job[r].copy, started, crashes) /\ Lineage(r) /\ ~ restarted
    BY <1>1, <2>1, <2>2 DEF HookJob, JobOK, At
  <2>4. Begun(job[r].copy, started, crashes + 1)
    <3>1. Gaps(started, job[r].copy.prog) \in Nat
      BY <2>2, GapsType
    <3> QED
      BY <1>0, <2>3, <3>1 DEF Begun
  <2>5. CASE Replaces(r, Idle)
    BY <2>1, <2>2, <2>3, <2>4, <2>5, HookIdle, HookFrame
  <2>6. ASSUME NEW new, Replaces(r, new), JobOK(new), new.i = job[r].copy.prog,
               \/ /\ new.at = "hooks" /\ new.event = "post-install"
                  /\ job[r].copy.status = "POST-INSTALL"
               \/ new.event = "pre-delete"
               \/ new.event = "post-delete"
        PROVE  HookInv'
    <3>1. HookJob(new, entry', started, crashes)
      <4>1. CASE new.event = "post-install"
        BY <2>3, <2>6, <4>1 DEF HookJob, Begun
      <4>2. CASE new.event # "post-install"
        BY <2>6, <4>2, HookDeletes
      <4> QED
        BY <4>1, <4>2
    <3> QED
      BY <2>1, <2>2, <2>3, <2>4, <2>6, <3>1, HookFrame
  <2> QED
    BY <1>9, <2>5, <2>6, RecoveredMove
<1>10. ASSUME NEW r \in Requests, Create(r) PROVE HookInv'
  <2>1. UNCHANGED <<started, crashes>>
    BY <1>10, OtherRest
  <2>2. /\ ~ born /\ ~ restarted' /\ Free(r)
        /\ entry' = entry \/ (entry' = NewEntry /\ entry'.status # "POST-INSTALL")
    BY <1>10, CreateMove DEF NewEntry
  <2>3. CASE Replaces(r, job[r])
    <3>1. HookJob(job[r], entry', started, crashes)
      BY <2>2 DEF HookJob, Free, At
    <3> QED
      BY <2>1, <2>2, <2>3, <3>1, HookFrame
  <2>4. ASSUME NEW new, Replaces(r, new), new.at = "prepare", new.event = "pre-install"
        PROVE  HookInv'
    <3>1. HookJob(new, entry', started, crashes)
      BY <2>2, <2>4 DEF HookJob, LineInv, Within
    <3> QED
      BY <2>1, <2>2, <2>4, <3>1, HookFrame
  <2> QED
    BY <1>10, <2>3, <2>4, CreateMove
<1>11. ASSUME NEW r \in Requests, Delete(r) PROVE HookInv'
  <2>1. UNCHANGED <<entry, started, crashes>> /\ ~ restarted'
    BY <1>11, OtherRest, DeleteMove
  <2>2. PICK new : Replaces(r, new) /\ JobOK(new) /\ new.event = "pre-delete"
    BY <1>11, DeleteMove
  <2> QED
    BY <2>1, <2>2, HookDeletes, HookFrame
<1>12. ASSUME NEW r \in Requests, Recover(r) PROVE HookInv'
  <2>1. /\ UNCHANGED <<entry, started, crashes>> /\ ~ restarted'
        /\ restarted /\ entry # NoEntry
    BY <1>12, OtherRest, RecoverMove
  <2>2. PICK new : /\ Replaces(r, new) /\ new.at = "recover" /\ new.event = "pre-install"
                   /\ new.copy.status = entry.status /\ new.copy.prog = entry.prog
    BY <1>12, RecoverMove
  <2>3. HookJob(new, entry', started, crashes)
    BY <2>1, <2>2 DEF HookJob, HookInv, Begun
  <2> QED
    BY <2>1, <2>2, <2>3, HookFrame
<1>13. CASE Crash
  <2>1. /\ \A q \in Requests : job'[q] = Idle
        /\ UNCHANGED started /\ crashes' = crashes + 1
        /\ entry = NoEntry => entry' = NoEntry
        /\ entry # NoEntry => entry'.status = entry.status /\ entry'.prog = entry.prog
    BY <1>13, CrashMove
  <2>2. \A q \in Requests : HookJob(job'[q], entry', started', crashes')
    BY <2>1, HookIdle
  <2>3. ASSUME entry' # NoEntry
        PROVE  /\ Begun(entry', started', crashes')
               /\ Begun(entry', started', crashes' + 1)
    <3>1. entry # NoEntry /\ entry.prog \in Nat /\ Begun(entry, started, crashes + 1)
      BY <2>1, <2>3, EntryType DEF HookInv
    <3>2. Gaps(started, entry.prog) \in Nat
      BY <3>1, GapsType
    <3> QED
      BY <1>0, <2>1, <3>1, <3>2 DEF Begun
  <2>4. ASSUME NEW h \in DOMAIN started, started[h] # 0
        PROVE  Gaps(started, h - 1) <= crashes + 1
    <3>1. h - 1 \in Nat
      BY <1>0
    <3>2. Gaps(started, h - 1) \in Nat
      BY <3>1, GapsType
    <3> QED
      BY <1>0, <2>4, <3>2 DEF HookInv
  <2> QED
    BY <2>1, <2>2, <2>3, <2>4 DEF HookInv
<1>14. CASE UNCHANGED vars
  BY <1>14 DEF HookInv
<1> QED
  BY <1>2, <1>3, <1>4, <1>5, <1>6, <1>7, <1>8, <1>9, <1>10, <1>11, <1>12, <1>13, <1>14, StepsOf

\* No post-install hook is created twice, and one before it was left out only by
\* a crash.
THEOREM HooksOnceCorrect == ASSUME InstancesAssumption PROVE Spec => []HooksOnce
<1>1. Init => TypeInv /\ LineInv /\ HookInv
  BY TypeInit, LineInit, HookInit
<1>2. TypeInv /\ LineInv /\ HookInv /\ [Next]_vars => (TypeInv /\ LineInv /\ HookInv)'
  BY TypeStep, LineStep, HookStep
<1>3. TypeInv /\ LineInv /\ HookInv => HooksOnce
  BY DEF HookInv, HooksOnce, Gaps
<1> QED
  BY <1>1, <1>2, <1>3, PTL DEF Spec

-----------------------------------------------------------------------------
(* Ready instances.                                                        *)

LEMMA ReadyInit == ASSUME InstancesAssumption, Init PROVE ReadyInv
BY DEF Init, ReadyInv, ReadyJob, Idle, NewEntry

LEMMA ReadyIdle == ASSUME NEW s, NEW c, NEW d PROVE ReadyJob(Idle, s, c, d)
BY DEF ReadyJob, Idle, NewEntry

\* A crash, an open door or a hook that was created since does no harm.
LEMMA MadeGrows ==
    ASSUME NEW e, NEW s, NEW t, NEW c \in Nat, NEW b \in Nat, NEW d, NEW f,
           Made(e, s, c, d), c <= b, d \subseteq f,
           Gaps(s, chart["post-install"]) \in Nat, Gaps(t, chart["post-install"]) \in Nat,
           Gaps(t, chart["post-install"]) <= Gaps(s, chart["post-install"])
    PROVE  Made(e, t, b, f)
BY DEF Made

LEMMA HooksGrow ==
    ASSUME TypeInv, NEW r \in Requests, UNCHANGED started \/ (At(r, "start") /\ Counted(r))
    PROVE  /\ Gaps(started, chart["post-install"]) \in Nat
           /\ Gaps(started', chart["post-install"]) \in Nat
           /\ Gaps(started', chart["post-install"]) <= Gaps(started, chart["post-install"])
<1> DEFINE n == chart["post-install"]
<1>1. n \in Nat /\ started \in [1..n -> Nat]
  BY DEF TypeInv, Event
<1>2. Gaps(started, n) \in Nat /\ Gaps(started', n) \in Nat
  BY <1>1, GapsType
<1>3. \A h \in 1..n : started'[h] = 0 => started[h] = 0
  <2>1. CASE UNCHANGED started
    BY <2>1
  <2>2. CASE started' = [started EXCEPT ![job[r].i + 1] = @ + 1]
    BY <1>1, <2>2
  <2> QED
    BY <2>1, <2>2, CountedMove
<1> HIDE DEF n
<1>4. Gaps(started', n) <= Gaps(started, n)
  BY <1>1, <1>3, GapsFewer
<1> QED
  BY <1>2, <1>4 DEF n

LEMMA ReadyFrame ==
    ASSUME TypeInv, ReadyInv, NEW r \in Requests, NEW new, Replaces(r, new),
           UNCHANGED crashes, doors \subseteq doors',
           UNCHANGED started \/ (At(r, "start") /\ Counted(r)),
           entry' \in {entry, NoEntry} \/ Made(entry', started, crashes, doors'),
           ReadyJob(new, started, crashes, doors')
    PROVE  ReadyInv'
<1>1. \A e : Made(e, started, crashes, doors) => Made(e, started', crashes, doors')
  BY HooksGrow, MadeGrows DEF TypeInv
<1>2. \A e : Made(e, started, crashes, doors') => Made(e, started', crashes, doors')
  BY HooksGrow, MadeGrows DEF TypeInv
<1>3. ASSUME NEW q \in Requests
      PROVE  ReadyJob(job'[q], started', crashes, doors')
  <2>1. CASE q = r
    BY <1>2, <2>1, Replaced DEF ReadyJob
  <2>2. CASE q # r
    BY <1>1, <2>2, Replaced DEF ReadyJob, ReadyInv
  <2> QED
    BY <2>1, <2>2
<1>4. entry' # NoEntry => Made(entry', started', crashes, doors')
  BY <1>1, <1>2 DEF ReadyInv
<1>5. \A e : Made(e, started', crashes, doors') => Made(e, started, crashes, doors)'
  BY DEF Made, Replaces
<1>6. \A q \in Requests : ReadyJob(job[q], started, crashes, doors)'
  BY <1>3, <1>5 DEF ReadyJob
<1> QED
  BY <1>4, <1>5, <1>6 DEF ReadyInv

LEMMA ReadyStep ==
    ASSUME InstancesAssumption, TypeInv, LineInv, HookInv, ReadyInv, [Next]_vars
    PROVE  ReadyInv'
<1>0. /\ crashes \in Nat /\ chart["post-install"] \in Nat
      /\ \A r \in Requests : JobOK(job[r]) /\ ReadyJob(job[r], started, crashes, doors)
  BY DEF TypeInv, Event, ReadyInv
<1>2. ASSUME NEW r \in Requests, Quiet(r) PROVE ReadyInv'
  <2>1. /\ UNCHANGED <<entry, crashes, doors>> /\ ~ Free(r)
        /\ UNCHANGED started \/ (At(r, "start") /\ Counted(r))
    BY <1>2, QuietRest, NotFree
  <2>2. CASE Replaces(r, Idle)
    BY <2>1, <2>2, ReadyIdle, ReadyFrame
  <2>3. ASSUME NEW new, Replaces(r, new), new.event = job[r].event, new.copy = job[r].copy,
               new.at # "recover"
        PROVE  ReadyInv'
    <3>1. ReadyJob(new, started, crashes, doors')
      BY <1>0, <2>1, <2>3 DEF ReadyJob, Free, At
    <3> QED
      BY <2>1, <2>3, <3>1, ReadyFrame
  <2>4. AfterHooks(job[r]) # "recover"
    BY JobType DEF AfterHooks, Event
  <2> QED
    BY <1>2, <2>2, <2>3, <2>4, QuietMove DEF Quiet
<1>3. ASSUME NEW r \in Requests, Status(r) PROVE ReadyInv'
  <2>1. UNCHANGED <<started, crashes, doors>> /\ ~ Free(r)
    BY <1>3, StatusRest, NotFree
  <2>2. PICK new :
           /\ Replaces(r, new) /\ new.event = job[r].event
           /\ new.copy.res = job[r].copy.res /\ new.copy.hooks = job[r].copy.hooks
           /\ new.at \in {"create", "drop", "hooks", "cleanup"}
           /\ new.copy.status \in {"CREATING", "PRE-DELETE", "DELETING", "POST-DELETE"}
           /\ entry' \in {entry, new.copy}
    BY <1>3, StatusMove DEF Status
  <2>3. ReadyJob(new, started, crashes, doors')
    BY <1>0, <2>1, <2>2 DEF ReadyJob, Free, At
  <2>4. Made(new.copy, started, crashes, doors')
    BY <1>0, <2>1, <2>2 DEF ReadyJob, Made
  <2> QED
    BY <2>1, <2>2, <2>3, <2>4, ReadyFrame
<1>4. ASSUME NEW r \in Requests, Cluster(r) PROVE ReadyInv'
  <2>1. UNCHANGED <<entry, started, crashes>> /\ ~ Free(r) /\ doors \subseteq doors'
    BY <1>4, ClusterRest, NotFree
  <2>2. CASE Replaces(r, Idle)
    BY <2>1, <2>2, ReadyIdle, ReadyFrame
  <2>3. ASSUME NEW new, Replaces(r, new), new.event = job[r].event, new.copy = job[r].copy,
               new.at \in {"create", "revert", "drop", "delete"}
        PROVE  ReadyInv'
    <3>1. ReadyJob(new, started, crashes, doors')
      BY <1>0, <2>1, <2>3 DEF ReadyJob, Free, At
    <3> QED
      BY <2>1, <2>3, <3>1, ReadyFrame
  <2> QED
    BY <1>4, <2>2, <2>3, ClusterMove DEF Cluster
<1>5. ASSUME NEW r \in Requests, Last(r) PROVE ReadyInv'
  <2>1. UNCHANGED <<started, crashes, doors>> /\ ~ Free(r)
    BY <1>5, RecordRest, NotFree
  <2>2. Replaces(r, Idle)
    BY <1>5, LastMove DEF Last
  <2>3. CASE entry' \in {entry, NoEntry}
    BY <2>1, <2>2, <2>3, ReadyIdle, ReadyFrame
  <2>4. CASE entry' \notin {entry, NoEntry}
    <3>1. /\ entry'.res = job[r].copy.res /\ entry'.hooks = job[r].copy.hooks
          /\ \/ At(r, "done") /\ entry'.status = "DONE"
             \/ /\ At(r, "failed") /\ job[r].event = "post-install"
                /\ entry'.status = "POST-INSTALL-FAILED"
             \/ entry'.status \in {"PRE-DELETE-FAILED", "POST-DELETE-FAILED", "DELETED"}
      BY <1>5, <2>4, LastMove DEF Last
    <3>2. At(r, "done") =>
             /\ job[r].event = "post-install"
             /\ job[r].copy.hooks = "none" \/ Gaps(started, chart["post-install"]) <= crashes
      BY <1>0 DEF JobOK, HookInv, HookJob, At
    <3>3. Made(entry', started, crashes, doors')
      BY <1>0, <2>1, <3>1, <3>2 DEF Made, ReadyJob, At
    <3> QED
      BY <2>1, <2>2, <3>3, ReadyIdle, ReadyFrame
  <2> QED
    BY <2>3, <2>4
<1>6. ASSUME NEW r \in Requests, RecordProgress(r) PROVE ReadyInv'
  <2>1. UNCHANGED <<started, crashes, doors>> /\ ~ Free(r)
    BY <1>6, RecordRest, NotFree
  <2>2. PICK new :
           /\ Replaces(r, new) /\ new.at \in {"start", "failed"}
           /\ new.event = job[r].event
           /\ new.copy.status = StatusOf[job[r].event]
           /\ new.copy.res = job[r].copy.res /\ new.copy.hooks = job[r].copy.hooks
           /\ entry' \in {entry, new.copy}
    BY <1>6, ProgressMove DEF Written
  <2>3. ReadyJob(new, started, crashes, doors')
    BY <1>0, <2>1, <2>2 DEF ReadyJob, Free, At
  <2>4. Made(new.copy, started, crashes, doors')
    <3>1. job[r].event = "post-install" \/ new.copy.status \in {"PRE-INSTALL", "PRE-DELETE", "POST-DELETE"}
      BY <2>2, StatusOfEvent, JobType DEF Event
    <3>2. new.copy.status # "DONE"
      BY <2>2, StatusOfEvent, JobType DEF Event
    <3> QED
      BY <1>0, <2>1, <2>2, <3>1, <3>2 DEF ReadyJob, Made, Free, At
  <2> QED
    BY <2>1, <2>2, <2>3, <2>4, ReadyFrame
<1>7. ASSUME NEW r \in Requests, RecordCreated(r) PROVE ReadyInv'
  <2>1. UNCHANGED <<started, crashes>> /\ doors \subseteq doors'
    BY <1>7, OtherRest, CreatedMove
  <2>2. entry' = entry \/ Made(entry', started, crashes, doors')
    BY <1>0, <1>7, <2>1, CreatedMove DEF Made, ReadyJob
  <2>3. CASE Replaces(r, Idle)
    BY <2>1, <2>2, <2>3, ReadyIdle, ReadyFrame
  <2>4. ASSUME NEW new, Replaces(r, new), new.at = "hooks", new.copy.res = NRes,
               new.copy.hooks = job[r].copy.hooks
        PROVE  ReadyInv'
    <3>1. ReadyJob(new, started, crashes, doors')
      BY <1>0, <2>1, <2>4 DEF ReadyJob
    <3> QED
      BY <2>1, <2>2, <2>4, <3>1, ReadyFrame
  <2> QED
    BY <1>7, <2>3, <2>4, CreatedMove
<1>8. ASSUME NEW r \in Requests, ResourcesDeleted(r) PROVE ReadyInv'
  <2>1. UNCHANGED <<entry, started, crashes, doors>>
    BY <1>8, RecordRest
  <2>2. PICK new : /\ Replaces(r, new) /\ new.at \in {"drop", "postDelete"}
                   /\ new.event = "post-delete" /\ new.copy.hooks = job[r].copy.hooks
    BY <1>8, DeletedMove
  <2>3. ReadyJob(new, started, crashes, doors')
    BY <1>0, <2>1, <2>2 DEF ReadyJob
  <2> QED
    BY <2>1, <2>2, <2>3, ReadyFrame
<1>9. ASSUME NEW r \in Requests, RecordRecovered(r) PROVE ReadyInv'
  <2>1. UNCHANGED <<started, crashes, doors>>
    BY <1>9, RecordRest
  <2>2. /\ At(r, "recover") /\ Made(job[r].copy, started, crashes, doors')
        /\ entry' \in {entry, job[r].copy}
    BY <1>0, <1>9, <2>1, RecoveredMove DEF ReadyJob, At, Written
  <2>3. CASE Replaces(r, Idle)
    BY <2>1, <2>2, <2>3, ReadyIdle, ReadyFrame
  <2>4. ASSUME NEW new, Replaces(r, new), new.copy = job[r].copy,
               new.at \in {"hooks", "postDelete"},
               new.event = "post-install" => job[r].copy.status = "POST-INSTALL"
        PROVE  ReadyInv'
    <3>1. ReadyJob(new, started, crashes, doors')
      BY <2>2, <2>4 DEF ReadyJob, Made
    <3> QED
      BY <2>1, <2>2, <2>4, <3>1, ReadyFrame
  <2> QED
    BY <1>9, <2>3, <2>4, RecoveredMove
<1>10. ASSUME NEW r \in Requests, Create(r) PROVE ReadyInv'
  <2>1. UNCHANGED <<started, crashes, doors>>
    BY <1>10, OtherRest
  <2>2. entry' = entry \/ Made(entry', started, crashes, doors')
    BY <1>10, CreateMove DEF Made, NewEntry
  <2>3. CASE Replaces(r, job[r])
    BY <1>0, <2>1, <2>2, <2>3, ReadyFrame
  <2>4. ASSUME NEW new, Replaces(r, new), new.at = "prepare", new.event = "pre-install",
               new.copy = NewEntry
        PROVE  ReadyInv'
    <3>1. ReadyJob(new, started, crashes, doors')
      BY <2>4 DEF ReadyJob, NewEntry
    <3> QED
      BY <2>1, <2>2, <2>4, <3>1, ReadyFrame
  <2> QED
    BY <1>10, <2>3, <2>4, CreateMove
<1>11. ASSUME NEW r \in Requests, Delete(r) PROVE ReadyInv'
  <2>1. UNCHANGED <<entry, started, crashes>> /\ doors \subseteq doors' /\ entry # NoEntry
    BY <1>11, OtherRest, DeleteMove DEF Listed
  <2>2. PICK new : /\ Replaces(r, new) /\ new.event = "pre-delete" /\ new.at # "recover"
                   /\ new.copy.hooks = entry.hooks
    BY <1>11, DeleteMove
  <2>3. ReadyJob(new, started, crashes, doors')
    BY <2>1, <2>2 DEF ReadyJob, ReadyInv, Made
  <2> QED
    BY <2>1, <2>2, <2>3, ReadyFrame
<1>12. ASSUME NEW r \in Requests, Recover(r) PROVE ReadyInv'
  <2>1. /\ UNCHANGED <<entry, started, crashes>> /\ doors \subseteq doors' /\ entry # NoEntry
    BY <1>12, OtherRest, RecoverMove
  <2>2. PICK new : /\ Replaces(r, new) /\ new.at = "recover" /\ new.event = "pre-install"
                   /\ new.copy.status = entry.status /\ new.copy.res = entry.res
                   /\ new.copy.hooks = "none" => "unresolved" \in doors'
    BY <1>12, RecoverMove
  <2>3. ReadyJob(new, started, crashes, doors')
    BY <2>1, <2>2 DEF ReadyJob, ReadyInv, Made
  <2> QED
    BY <2>1, <2>2, <2>3, ReadyFrame
<1>13. CASE Crash
  <2>1. /\ \A q \in Requests : job'[q] = Idle
        /\ UNCHANGED <<chart, started>> /\ crashes' = crashes + 1 /\ doors \subseteq doors'
        /\ entry = NoEntry => entry' = NoEntry
        /\ entry # NoEntry => /\ entry'.status = entry.status /\ entry'.res = entry.res
                              /\ entry'.hooks = "none" => entry.hooks = "none"
    BY <1>13, CrashMove
  <2>2. \A q \in Requests : ReadyJob(job[q], started, crashes, doors)'
    BY <2>1, ReadyIdle DEF ReadyJob, Idle, NewEntry
  <2>3. entry' # NoEntry => Made(entry, started, crashes, doors)'
    <3>1. Gaps(started, chart["post-install"]) \in Nat
      BY <1>0, GapsType
    <3> QED
      BY <1>0, <2>1, <3>1 DEF ReadyInv, Made
  <2> QED
    BY <2>2, <2>3 DEF ReadyInv
<1>14. CASE UNCHANGED vars
  BY <1>14 DEF ReadyInv, ReadyJob, Made
<1> QED
  BY <1>2, <1>3, <1>4, <1>5, <1>6, <1>7, <1>8, <1>9, <1>10, <1>11, <1>12, <1>13, <1>14, StepsOf

\* An instance that is ready has all its resources and has run its post-install
\* hooks, but for at most one a crash, unless the templates of the hooks could not
\* be resolved again after one.
THEOREM ReadyMeansDoneCorrect == ASSUME InstancesAssumption PROVE Spec => []ReadyMeansDone
<1>1. Init => TypeInv /\ LineInv /\ HookInv /\ ReadyInv
  BY TypeInit, LineInit, HookInit, ReadyInit
<1>2. TypeInv /\ LineInv /\ HookInv /\ ReadyInv /\ [Next]_vars =>
          (TypeInv /\ LineInv /\ HookInv /\ ReadyInv)'
  BY TypeStep, LineStep, HookStep, ReadyStep
<1>3. TypeInv /\ ReadyInv => ReadyMeansDone
  <2> SUFFICES ASSUME TypeInv, ReadyInv, Ready, "unresolved" \notin doors
               PROVE  /\ installed = Resource
                      /\ Cardinality({h \in DOMAIN started : started[h] = 0}) <= crashes
    BY DEF ReadyMeansDone
  <2>1. entry.res = NRes /\ Gaps(started, chart["post-install"]) <= crashes /\ entry # NoEntry
    BY DEF Ready, ReadyInv, Made
  <2>2. installed = Resource
    BY <2>1 DEF Ready, Recorded, TypeInv, Resource
  <2>3. DOMAIN started = 1..chart["post-install"]
    BY DEF TypeInv
  <2> QED
    BY <2>1, <2>2, <2>3 DEF Gaps
<1> QED
  BY <1>1, <1>2, <1>3, PTL DEF Spec

-----------------------------------------------------------------------------
(* Resources.                                                              *)

\* Nothing was lost, and no deletion was early.
Safe(d) == d \cap {"lost", "early"} = {}

OthersFree(r) == \A q \in Requests \ {r} : Free(q)

\* No job but r is before the installation.
OthersLate(r) == \A q \in Requests \ {r} : ~ Free(q) => job[q].event # "pre-install"

LEMMA AccountInit == ASSUME InstancesAssumption, Init PROVE AccountInv
<1>1. \A r \in Requests : job[r] = Idle /\ Free(r)
  BY DEF Init, Free, At, Idle
<1> QED
  BY <1>1 DEF Init, AccountInv, AccountJob, Alone, Idle

LEMMA AccountIdle == ASSUME NEW e, NEW x PROVE AccountJob(Idle, e, x)
BY DEF AccountJob, Idle

LEMMA BusyEvent ==
    ASSUME TypeInv, NEW r \in Requests, Busy(r)
    PROVE  ~ Free(r) /\ job[r].event = "pre-install"
BY JobType DEF Busy, JobOK, Free, At

\* A set of the first n, without the last one or with the next.
LEMMA FirstOnes ==
    ASSUME NEW x, NEW n \in Nat, x \subseteq 1..n
    PROVE  /\ n = 0 => x = {}
           /\ n > 0 => x \ {n} \subseteq 1..(n - 1)
           /\ x \cup {n + 1} \subseteq 1..(n + 1)
<1>1. n = 0 => x = {}
  OBVIOUS
<1>2. n > 0 => x \ {n} \subseteq 1..(n - 1)
  OBVIOUS
<1>3. x \cup {n + 1} \subseteq 1..(n + 1)
  OBVIOUS
<1> QED
  BY <1>1, <1>2, <1>3

\* A job that does not create resources finds them all recorded.
LEMMA AllRecorded ==
    ASSUME TypeInv, AccountInv, Safe(doors), NEW r \in Requests, OthersLate(r), ~ Busy(r)
    PROVE  installed \subseteq Recorded
BY BusyEvent DEF AccountInv, OthersLate, Safe

LEMMA AtWork ==
    ASSUME TypeInv, AccountInv, Safe(doors), NEW r \in Requests, ~ Free(r)
    PROVE  /\ AccountJob(job[r], entry, installed) /\ JobOK(job[r]) /\ job[r].at # "idle"
           /\ OthersLate(r)
           /\ job[r].event = "pre-install" => OthersFree(r)
           /\ ~ Busy(r) => installed \subseteq Recorded
           /\ entry # NoEntry /\ entry.status \in Gone => installed = {}
<1>1. AccountJob(job[r], entry, installed) /\ JobOK(job[r]) /\ Alone
      /\ (entry # NoEntry /\ entry.status \in Gone => installed = {})
  BY JobType DEF AccountInv, Safe
<1>2. OthersLate(r) /\ (job[r].event = "pre-install" => OthersFree(r))
  BY <1>1 DEF Alone, OthersLate, OthersFree
<1> QED
  BY <1>1, <1>2, AllRecorded DEF Free, At

LEMMA AccountFrame ==
    ASSUME TypeInv, AccountInv, Safe(doors), NEW r \in Requests, NEW new, Replaces(r, new),
           OthersLate(r),
           installed' \subseteq installed \/ OthersFree(r),
           new.at = "idle" \/ new.event # "pre-install" \/ OthersFree(r),
           AccountJob(new, entry', installed'),
           entry' # NoEntry /\ entry'.status \in Gone => installed' = {},
           new.at \in {"create", "revert"} \/ installed' \subseteq Recorded'
    PROVE  AccountInv'
<1>1. ASSUME NEW q \in Requests \ {r}
      PROVE  AccountJob(job[q], entry', installed')
  <2>1. AccountJob(job[q], entry, installed) /\ JobOK(job[q])
    BY JobType DEF AccountInv, Safe
  <2>2. CASE Free(q)
    BY <2>2 DEF AccountJob, Free, At
  <2>3. CASE ~ Free(q)
    <3>1. job[q].event # "pre-install" /\ installed' \subseteq installed
      BY <2>3 DEF OthersLate, OthersFree
    <3>2. job[q].at \notin {"create", "revert", "recover"}
      BY <2>1, <3>1 DEF JobOK
    <3> QED
      BY <2>1, <3>1, <3>2 DEF AccountJob
  <2> QED
    BY <2>2, <2>3
<1>2. \A q \in Requests : AccountJob(job'[q], entry', installed')
  BY <1>1, Replaced
<1>3. Alone'
  <2> SUFFICES ASSUME NEW p \in Requests, NEW q \in Requests,
                      job'[p].at # "idle", job'[p].event = "pre-install", job'[q].at # "idle"
               PROVE  p = q
    BY DEF Alone, Free, At
  <2>1. p = r
    BY Replaced DEF OthersLate, Free, At
  <2>2. OthersFree(r)
    BY <2>1, Replaced
  <2>3. q = r
    BY <2>2, Replaced DEF OthersFree, Free, At
  <2> QED
    BY <2>1, <2>3
<1>4. (\A q \in Requests : ~ Busy(q)') => installed' \subseteq Recorded'
  BY Replaced DEF Busy
<1> QED
  BY <1>2, <1>3, <1>4 DEF AccountInv

\* An entry that a deletion finds everything in.
LEMMA KeptIsRecorded ==
    ASSUME NEW data, entry' = data, entry' # NoEntry, installed' \subseteq 1..data.res
    PROVE  installed' \subseteq Recorded'
BY DEF Recorded

LEMMA AccountStep ==
    ASSUME InstancesAssumption, TypeInv, LineInv, AccountInv, [Next]_vars
    PROVE  AccountInv'
<1> SUFFICES ASSUME Safe(doors') PROVE AccountInv'
  BY DEF AccountInv, Safe
<1>1. doors \subseteq doors'
  BY DEF Next, Create, Prepare, SetCreating, CreateResource, CreateResourceFails,
         RevertResource, Drop, RecordCreated, RecordDone, RecordProgress, StartHook,
         StartHookFails, WaitHook, EndHooks, HooksFailed, Delete, SetPreDelete,
         SetDeleting, Cleanup, DeleteResource, ResourcesDeleted, SetPostDelete,
         RecordDeleted, Recover, RecordRecovered, Crash, Opened
<1>2. Safe(doors)
  BY <1>1 DEF Safe
<1>3. ASSUME UNCHANGED <<entry, installed>>
      PROVE  Recorded' = Recorded
  BY <1>3 DEF Recorded
<1>4. ASSUME NEW r \in Requests, Quiet(r) PROVE AccountInv'
  <2>1. UNCHANGED <<entry, installed>> /\ ~ Free(r)
    BY <1>4, QuietRest, NotFree
  <2>2. /\ AccountJob(job[r], entry, installed) /\ JobOK(job[r]) /\ OthersLate(r)
        /\ job[r].event = "pre-install" => OthersFree(r)
        /\ entry # NoEntry /\ entry.status \in Gone => installed = {}
        /\ ~ Busy(r) => installed \subseteq Recorded
    BY <1>2, <2>1, AtWork
  <2>3. ~ Busy(r)
    BY <1>4 DEF Quiet, Prepare, EndHooks, WaitHook, Cleanup, StartHook, StartHookFails, Busy, At
  <2>4. CASE Replaces(r, Idle)
    BY <1>2, <1>3, <2>1, <2>2, <2>3, <2>4, AccountIdle, AccountFrame DEF Idle
  <2>5. ASSUME NEW new, Replaces(r, new), new.event = job[r].event, new.copy = job[r].copy,
               new.made = job[r].made,
               new.at \in {"hooks", "delete", "failed", "setCreating", "done", "deleting",
                           "deleted", "wait"},
               job[r].event = "pre-install" =>
                   job[r].at \in {"prepare", "hooks", "start", "wait"}
        PROVE  AccountInv'
    <3>1. AccountJob(new, entry', installed')
      BY <2>1, <2>2, <2>5 DEF AccountJob, Free, At
    <3> QED
      BY <1>2, <1>3, <2>1, <2>2, <2>3, <2>5, <3>1, AccountFrame
  <2>6. AfterHooks(job[r]) \in {"setCreating", "done", "deleting", "delete", "deleted"}
    BY JobType DEF AfterHooks, Event
  <2>7. job[r].event = "pre-install" => ~ At(r, "cleanup")
    BY <2>2 DEF JobOK, At
  <2> QED
    BY <1>4, <2>4, <2>5, <2>6, <2>7, QuietMove DEF Quiet, At
<1>5. ASSUME NEW r \in Requests, Status(r) PROVE AccountInv'
  <2>1. UNCHANGED installed /\ ~ Free(r)
    BY <1>5, StatusRest, NotFree
  <2>2. /\ AccountJob(job[r], entry, installed) /\ JobOK(job[r]) /\ OthersLate(r)
        /\ job[r].event = "pre-install" => OthersFree(r)
        /\ entry # NoEntry /\ entry.status \in Gone => installed = {}
        /\ ~ Busy(r) => installed \subseteq Recorded
    BY <1>2, <2>1, AtWork
  <2>3. PICK new :
           /\ Replaces(r, new) /\ new.event = job[r].event /\ new.made = job[r].made
           /\ new.copy \in Entry /\ new.copy.res = job[r].copy.res
           /\ \/ /\ At(r, "setCreating") /\ new.copy.status = "CREATING"
                 /\ new.at \in {"create", "drop"}
              \/ At(r, "preDelete") /\ new.copy.status = "PRE-DELETE" /\ new.at = "hooks"
              \/ At(r, "deleting") /\ new.copy.status = "DELETING" /\ new.at = "cleanup"
              \/ At(r, "postDelete") /\ new.copy.status = "POST-DELETE" /\ new.at = "hooks"
           /\ entry' \in {entry, new.copy} /\ (entry = NoEntry => UNCHANGED entry)
    BY <1>5, StatusMove DEF Status
  <2>4. ~ Busy(r)
    BY <2>3 DEF Busy, At
  <2>5. CASE At(r, "setCreating")
    <3>1. job[r].event = "pre-install" /\ installed = {}
          /\ (entry = NoEntry \/ entry.status \notin Gone)
      BY <2>2, <2>5 DEF AccountJob, JobOK, At
    <3>2. new.copy.status = "CREATING" /\ new.at \in {"create", "drop"}
      BY <2>3, <2>5 DEF At
    <3>3. entry' = NoEntry \/ entry'.status \notin Gone
      BY <2>3, <3>1, <3>2 DEF Gone
    <3>4. AccountJob(new, entry', installed')
      BY <2>1, <2>3, <3>1, <3>2, <3>3 DEF AccountJob
    <3> QED
      BY <1>2, <2>1, <2>2, <2>3, <3>1, <3>3, <3>4, AccountFrame
  <2>6. CASE At(r, "preDelete") \/ At(r, "deleting")
    <3>1. job[r].event = "pre-delete" /\ installed \subseteq 1..job[r].made
          /\ installed \subseteq 1..job[r].copy.res
      BY <2>2, <2>6 DEF AccountJob, JobOK, At
    <3>2. new.copy.status \in {"PRE-DELETE", "DELETING"} /\ new.at \in {"hooks", "cleanup"}
      BY <2>3, <2>6 DEF At
    <3>3. entry' # NoEntry /\ entry'.status \in Gone => installed' = {}
      BY <2>1, <2>2, <2>3, <3>2 DEF Gone
    <3>4. AccountJob(new, entry', installed')
      BY <2>1, <2>3, <3>1, <3>2 DEF AccountJob
    <3>5. installed' \subseteq Recorded'
      <4>1. CASE entry' = entry
        BY <1>3, <2>1, <2>2, <2>4, <4>1
      <4>2. CASE entry' = new.copy
        BY <2>1, <2>3, <3>1, <4>2, KeptIsRecorded DEF InstancesAssumption
      <4> QED
        BY <2>3, <4>1, <4>2
    <3> QED
      BY <1>2, <2>1, <2>2, <2>3, <3>1, <3>3, <3>4, <3>5, AccountFrame
  <2>7. CASE At(r, "postDelete")
    <3>1. job[r].event = "post-delete" /\ installed = {}
      BY <2>2, <2>7 DEF AccountJob, JobOK, At
    <3>2. AccountJob(new, entry', installed')
      BY <2>1, <2>3, <2>7, <3>1 DEF AccountJob, At
    <3> QED
      BY <1>2, <2>1, <2>2, <2>3, <3>1, <3>2, AccountFrame
  <2> QED
    BY <2>3, <2>5, <2>6, <2>7
<1>6. ASSUME NEW r \in Requests, Cluster(r) PROVE AccountInv'
  <2>1. UNCHANGED entry /\ ~ Free(r) /\ "lost" \notin doors'
    BY <1>6, ClusterRest, NotFree DEF Safe
  <2>2. /\ AccountJob(job[r], entry, installed) /\ JobOK(job[r]) /\ OthersLate(r)
        /\ job[r].event = "pre-install" => OthersFree(r)
        /\ entry # NoEntry /\ entry.status \in Gone => installed = {}
        /\ ~ Busy(r) => installed \subseteq Recorded
        /\ job[r].made \in Nat
    BY <1>2, <2>1, AtWork, JobType
  <2>3. ASSUME At(r, "create") \/ At(r, "revert"),
               NEW new, Replaces(r, new), new.event = job[r].event,
               \/ /\ new.at = "create" /\ new.made = job[r].made + 1
                  /\ installed' = installed \cup {job[r].made + 1}
               \/ new.at = "revert" /\ new.made = job[r].made /\ UNCHANGED installed
               \/ new.at = "drop" /\ UNCHANGED installed /\ job[r].made = 0
               \/ /\ new.at = "revert" /\ installed' = installed \ {job[r].made}
                  /\ job[r].made > 0 /\ new.made = job[r].made - 1
        PROVE  AccountInv'
    <3>1. job[r].event = "pre-install" /\ installed \subseteq 1..job[r].made
          /\ (entry' = NoEntry \/ entry'.status \notin Gone) /\ OthersFree(r)
      BY <2>1, <2>2, <2>3 DEF AccountJob, JobOK, At
    <3>2. /\ job[r].made = 0 => installed = {}
          /\ job[r].made > 0 => installed \ {job[r].made} \subseteq 1..(job[r].made - 1)
          /\ installed \cup {job[r].made + 1} \subseteq 1..(job[r].made + 1)
      BY <2>2, <3>1, FirstOnes
    <3>3. /\ new.at = "drop" => installed' = {}
          /\ new.at \in {"create", "revert"} => installed' \subseteq 1..new.made
      BY <2>3, <3>1, <3>2
    <3>4. AccountJob(new, entry', installed')
      BY <2>3, <3>1, <3>3 DEF AccountJob
    <3>5. new.at \in {"create", "revert"} \/ installed' \subseteq Recorded'
      BY <2>3, <3>3
    <3> QED
      BY <1>2, <2>2, <2>3, <3>1, <3>4, <3>5, AccountFrame
  <2>4. ASSUME At(r, "delete"), installed' \subseteq installed,
               NEW new, Replaces(r, new), AccountJob(new, entry', installed'),
               new.at = "idle" \/ new.event = "pre-delete"
        PROVE  AccountInv'
    <3>1. installed' \subseteq Recorded'
      BY <2>1, <2>2, <2>4 DEF Recorded, Busy, At
    <3>2. entry' # NoEntry /\ entry'.status \in Gone => installed' = {}
      BY <2>1, <2>2, <2>4
    <3> QED
      BY <1>2, <2>2, <2>4, <3>1, <3>2, AccountFrame
  <2>5. CASE At(r, "delete") /\ Replaces(r, Idle)
    <3>1. installed' \subseteq installed
      BY <1>6, <2>5, ClusterRest DEF At, DeleteKind
    <3> QED
      BY <2>4, <2>5, <3>1, AccountIdle DEF Idle
  <2>6. ASSUME NEW new, Replaces(r, new), new.event = job[r].event, new.copy = job[r].copy,
               At(r, "delete"), new.at = "delete", DeleteKind(job[r].made),
               job[r].made > 0, new.made = job[r].made - 1
        PROVE  AccountInv'
    <3>1. job[r].event = "pre-delete" /\ installed \subseteq 1..job[r].made
          /\ installed \subseteq 1..job[r].copy.res
      BY <2>2, <2>6 DEF AccountJob, JobOK, At
    <3>2. installed' \subseteq installed /\ installed' \subseteq 1..new.made
      BY <2>2, <2>6, <3>1, FirstOnes DEF DeleteKind
    <3>3. AccountJob(new, entry', installed')
      BY <2>6, <3>1, <3>2 DEF AccountJob
    <3> QED
      BY <2>4, <2>6, <3>1, <3>2, <3>3
  <2>7. PICK new :
           \/ At(r, "delete") /\ Replaces(r, Idle)
           \/ /\ Replaces(r, new) /\ new.event = job[r].event /\ new.copy = job[r].copy
              /\ \/ /\ CreateResource(r) /\ new.at = "create" /\ new.made = job[r].made + 1
                 \/ /\ CreateResourceFails(r) /\ new.at = "revert" /\ new.made = job[r].made
                 \/ /\ RevertResource(r) /\ new.at = "drop"
                    /\ UNCHANGED installed /\ job[r].made = 0
                 \/ /\ RevertResource(r) /\ new.at = "revert" /\ DeleteKind(job[r].made)
                    /\ job[r].made > 0 /\ new.made = job[r].made - 1
                 \/ /\ At(r, "delete") /\ new.at = "delete" /\ DeleteKind(job[r].made)
                    /\ job[r].made > 0 /\ new.made = job[r].made - 1
    BY <1>6, <2>1, ClusterMove DEF Cluster
  <2>8. CreateResource(r) => At(r, "create") /\ installed' = installed \cup {job[r].made + 1}
    BY DEF CreateResource, CreateKind
  <2>9. CreateResourceFails(r) => At(r, "create") /\ UNCHANGED installed
    BY <2>1 DEF CreateResourceFails, Opened
  <2>10. RevertResource(r) => At(r, "revert")
    BY DEF RevertResource
  <2> QED
    BY <2>3, <2>5, <2>6, <2>7, <2>8, <2>9, <2>10 DEF DeleteKind
<1>7. ASSUME NEW r \in Requests, Last(r) PROVE AccountInv'
  <2>1. UNCHANGED installed /\ ~ Free(r)
    BY <1>7, RecordRest, NotFree
  <2>2. /\ AccountJob(job[r], entry, installed) /\ JobOK(job[r]) /\ OthersLate(r)
        /\ entry # NoEntry /\ entry.status \in Gone => installed = {}
        /\ ~ Busy(r) => installed \subseteq Recorded
    BY <1>2, <2>1, AtWork
  <2>3. /\ Replaces(r, Idle) /\ AccountJob(Idle, entry', installed') /\ Idle.at = "idle"
        /\ ~ Busy(r)
    BY <1>7, LastMove, AccountIdle
       DEF Last, Idle, Drop, RecordDone, HooksFailed, RecordDeleted, Busy, At
  <2>4. ASSUME entry' # NoEntry /\ entry'.status \in Gone => installed' = {},
               installed' \subseteq Recorded'
        PROVE  AccountInv'
    BY <1>2, <2>1, <2>2, <2>3, <2>4, AccountFrame
  <2>5. CASE entry' = entry
    BY <1>3, <2>1, <2>2, <2>3, <2>4, <2>5
  <2>6. CASE installed = {}
    BY <2>1, <2>4, <2>6
  <2>7. CASE entry' # entry /\ installed # {}
    <3>1. ~ At(r, "drop") /\ ~ At(r, "deleted")
          /\ (At(r, "failed") => job[r].event \notin {"pre-install", "post-delete"})
      BY <2>2, <2>7 DEF AccountJob, JobOK, At
    <3>2. /\ entry # NoEntry /\ entry' \in Entry /\ entry'.res = job[r].copy.res
          /\ \/ At(r, "done") /\ entry'.status = "DONE"
             \/ /\ At(r, "failed") /\ job[r].event = "post-install"
                /\ entry'.status = "POST-INSTALL-FAILED"
             \/ /\ At(r, "failed") /\ job[r].event = "pre-delete"
                /\ entry'.status = "PRE-DELETE-FAILED"
      BY <1>7, <2>7, <3>1, LastMove DEF Last, Written
    <3>3. installed \subseteq 1..job[r].copy.res
      BY <2>2, <3>2 DEF AccountJob, JobOK, At
    <3>4. installed' \subseteq Recorded'
      BY <2>1, <3>2, <3>3 DEF Recorded, InstancesAssumption
    <3>5. entry'.status \notin Gone
      BY <3>2 DEF Gone
    <3> QED
      BY <2>4, <3>4, <3>5
  <2> QED
    BY <2>5, <2>6, <2>7
<1>8. ASSUME NEW r \in Requests, RecordProgress(r) PROVE AccountInv'
  <2>1. UNCHANGED installed /\ ~ Free(r)
    BY <1>8, RecordRest, NotFree
  <2>2. /\ AccountJob(job[r], entry, installed) /\ JobOK(job[r]) /\ OthersLate(r)
        /\ job[r].event = "pre-install" => OthersFree(r)
        /\ entry # NoEntry /\ entry.status \in Gone => installed = {}
        /\ ~ Busy(r) => installed \subseteq Recorded
    BY <1>2, <2>1, AtWork
  <2>3. At(r, "hooks") /\ ~ Busy(r) /\ job[r].event \in Event
    BY <1>8, ProgressMove, JobType DEF Busy, At
  <2>4. PICK new :
           /\ Replaces(r, new) /\ new.at \in {"start", "failed"}
           /\ new.event = job[r].event /\ new.made = job[r].made
           /\ new.copy.status = StatusOf[job[r].event] /\ new.copy.res = job[r].copy.res
           /\ entry' = entry \/ (entry' = new.copy /\ entry # NoEntry /\ new.copy \in Entry)
    BY <1>8, ProgressMove DEF Written
  <2>5. /\ job[r].event = "pre-install" =>
              installed = {} /\ (entry = NoEntry \/ entry.status \notin Gone)
        /\ job[r].event = "post-delete" => installed = {}
        /\ job[r].event = "pre-delete" => installed \subseteq 1..job[r].made
        /\ installed \subseteq 1..job[r].copy.res
    BY <2>2, <2>3 DEF AccountJob, At, Event
  <2>6. job[r].event # "post-delete" => new.copy.status \notin Gone
    BY <2>3, <2>4, StatusOfEvent DEF Event, Gone
  <2>7. entry' # NoEntry /\ entry'.status \in Gone => installed' = {}
    BY <2>1, <2>2, <2>4, <2>5, <2>6
  <2>8. installed' \subseteq Recorded'
    <3>1. CASE entry' = entry
      BY <1>3, <2>1, <2>2, <2>3, <3>1
    <3>2. CASE entry' = new.copy /\ new.copy \in Entry
      BY <2>1, <2>4, <2>5, <3>2, KeptIsRecorded DEF InstancesAssumption
    <3> QED
      BY <2>4, <3>1, <3>2
  <2>9. job[r].event = "pre-install" => entry' = NoEntry \/ entry'.status \notin Gone
    BY <2>4, <2>5, <2>6
  <2>10. AccountJob(new, entry', installed')
    BY <2>1, <2>4, <2>5, <2>9 DEF AccountJob
  <2> QED
    BY <1>2, <2>1, <2>2, <2>4, <2>7, <2>8, <2>10, AccountFrame
<1>9. ASSUME NEW r \in Requests, RecordCreated(r) PROVE AccountInv'
  <2>1. UNCHANGED installed /\ ~ Free(r) /\ "lost" \notin doors'
    BY <1>9, OtherRest, NotFree DEF Safe
  <2>2. /\ AccountJob(job[r], entry, installed) /\ OthersLate(r)
    BY <1>2, <2>1, AtWork
  <2>3. At(r, "create") /\ job[r].made = NRes
    BY <1>9, CreatedMove
  <2>4. installed \subseteq 1..NRes
    BY <2>2, <2>3 DEF AccountJob, At
  <2>5. PICK new : /\ Replaces(r, new) /\ new.at = "hooks" /\ new.event = "post-install"
                   /\ new.copy.res = NRes
                   /\ entry' # NoEntry /\ entry'.res = NRes /\ entry'.status = "CREATED"
    BY <1>9, <2>1, CreatedMove
  <2>6. AccountJob(new, entry', installed') /\ installed' \subseteq Recorded'
    BY <2>1, <2>4, <2>5 DEF AccountJob, Recorded
  <2> QED
    BY <1>2, <2>1, <2>2, <2>5, <2>6, AccountFrame DEF Gone
<1>10. ASSUME NEW r \in Requests, ResourcesDeleted(r) PROVE AccountInv'
  <2>1. UNCHANGED <<entry, installed>> /\ ~ Free(r)
    BY <1>10, RecordRest, NotFree
  <2>2. /\ AccountJob(job[r], entry, installed) /\ JobOK(job[r]) /\ OthersLate(r)
    BY <1>2, <2>1, AtWork
  <2>3. PICK new : /\ Replaces(r, new) /\ new.at \in {"drop", "postDelete"}
                   /\ new.event = "post-delete"
                   /\ At(r, "delete") /\ job[r].made = 0
    BY <1>10, DeletedMove
  <2>4. installed = {}
    BY <2>2, <2>3 DEF AccountJob, JobOK, At
  <2>5. AccountJob(new, entry', installed')
    BY <2>1, <2>3, <2>4 DEF AccountJob
  <2> QED
    BY <1>2, <2>1, <2>2, <2>3, <2>4, <2>5, AccountFrame
<1>11. ASSUME NEW r \in Requests, RecordRecovered(r) PROVE AccountInv'
  <2>1. UNCHANGED installed /\ ~ Free(r)
    BY <1>11, RecordRest, NotFree
  <2>2. /\ AccountJob(job[r], entry, installed) /\ JobOK(job[r]) /\ OthersLate(r)
        /\ entry # NoEntry /\ entry.status \in Gone => installed = {}
        /\ ~ Busy(r) => installed \subseteq Recorded
    BY <1>2, <2>1, AtWork
  <2>3. /\ At(r, "recover") /\ ~ Busy(r)
        /\ entry' = entry \/ (entry' = job[r].copy /\ job[r].copy \in Entry)
    BY <1>11, RecoveredMove DEF Written, Busy, At
  <2>4. Keeps(job[r].copy, installed)
    BY <2>2, <2>3 DEF AccountJob, At
  <2>5. /\ entry' # NoEntry /\ entry'.status \in Gone => installed' = {}
        /\ installed' \subseteq Recorded'
    <3>1. CASE entry' = entry
      BY <1>3, <2>1, <2>2, <2>3, <3>1
    <3>2. CASE entry' = job[r].copy /\ job[r].copy \in Entry
      BY <2>1, <2>4, <3>2, KeptIsRecorded DEF Keeps, InstancesAssumption
    <3> QED
      BY <2>3, <3>1, <3>2
  <2>6. CASE Replaces(r, Idle)
    BY <1>2, <2>1, <2>2, <2>5, <2>6, AccountIdle, AccountFrame DEF Idle
  <2>7. ASSUME NEW new, Replaces(r, new), new.copy = job[r].copy, new.made = job[r].copy.res,
               \/ new.at = "hooks" /\ new.event = "post-install"
               \/ new.at = "hooks" /\ new.event = "pre-delete"
               \/ /\ new.at = "postDelete" /\ new.event = "post-delete"
                  /\ job[r].copy.status = "POST-DELETE"
        PROVE  AccountInv'
    <3>1. AccountJob(new, entry', installed')
      BY <2>1, <2>4, <2>7 DEF AccountJob, Keeps, Gone
    <3> QED
      BY <1>2, <2>1, <2>2, <2>5, <2>7, <3>1, AccountFrame
  <2> QED
    BY <1>11, <2>6, <2>7, RecoveredMove
<1>12. ASSUME NEW r \in Requests, Create(r) PROVE AccountInv'
  <2>1. UNCHANGED installed /\ entry' \in {entry, NewEntry} /\ ~ born
    BY <1>12, OtherRest, CreateMove
  <2>2. installed' = {} /\ OthersFree(r) /\ OthersLate(r) /\ Free(r) /\ entry = NoEntry
    BY <2>1 DEF LineInv, OthersFree, OthersLate
  <2>3. entry' = NoEntry \/ entry'.status \notin Gone
    BY <2>1, <2>2 DEF NewEntry, Gone
  <2>4. CASE Replaces(r, job[r])
    <3>1. AccountJob(job[r], entry', installed')
      BY <2>2 DEF AccountJob, Free, At
    <3> QED
      BY <1>2, <2>2, <2>3, <2>4, <3>1, AccountFrame
  <2>5. ASSUME NEW new, Replaces(r, new), new.at = "prepare", new.event = "pre-install"
        PROVE  AccountInv'
    <3>1. AccountJob(new, entry', installed')
      BY <2>2, <2>3, <2>5 DEF AccountJob
    <3> QED
      BY <1>2, <2>2, <2>3, <2>5, <3>1, AccountFrame
  <2> QED
    BY <1>12, <2>4, <2>5, CreateMove
<1>13. ASSUME NEW r \in Requests, Delete(r) PROVE AccountInv'
  <2>1. UNCHANGED <<entry, installed>> /\ entry # NoEntry /\ Free(r)
    BY <1>13, OtherRest, DeleteMove DEF Listed
  <2>2. OthersLate(r)
    BY <1>13, DeleteMove DEF Safe, OthersLate, Answered
  <2>3. /\ installed \subseteq Recorded
        /\ entry.status \in Gone => installed = {}
    BY <1>2, <2>1, <2>2, AllRecorded DEF Free, At, Busy, AccountInv, Safe
  <2>4. PICK new : /\ Replaces(r, new) /\ new.event = "pre-delete" /\ new.made = entry.res
                   /\ \/ new.at = "drop" /\ entry.status = "DELETED"
                      \/ new.at = "preDelete"
                   /\ new.copy.res = entry.res
    BY <1>13, DeleteMove
  <2>5. AccountJob(new, entry', installed')
    BY <2>1, <2>3, <2>4 DEF AccountJob, Recorded, Gone
  <2> QED
    BY <1>2, <1>3, <2>1, <2>2, <2>3, <2>4, <2>5, AccountFrame
<1>14. ASSUME NEW r \in Requests, Recover(r) PROVE AccountInv'
  <2>1. UNCHANGED <<entry, installed>> /\ entry # NoEntry /\ restarted
    BY <1>14, OtherRest, RecoverMove
  <2>2. OthersFree(r) /\ OthersLate(r) /\ Free(r)
    BY <2>1 DEF LineInv, OthersFree, OthersLate
  <2>3. /\ installed \subseteq Recorded
        /\ entry.status \in Gone => installed = {}
    BY <1>2, <2>1, <2>2, AllRecorded DEF Free, At, Busy, AccountInv, Safe
  <2>4. PICK new : /\ Replaces(r, new) /\ new.at = "recover" /\ new.event = "pre-install"
                   /\ new.copy.status = entry.status /\ new.copy.res = entry.res
    BY <1>14, RecoverMove
  <2>5. AccountJob(new, entry', installed')
    BY <2>1, <2>3, <2>4 DEF AccountJob, Keeps, Recorded
  <2> QED
    BY <1>2, <1>3, <2>1, <2>2, <2>3, <2>4, <2>5, AccountFrame
<1>15. CASE Crash
  <2>1. /\ \A q \in Requests : job'[q] = Idle
        /\ UNCHANGED installed /\ \A q \in Requests : ~ Busy(q)
        /\ entry = NoEntry => entry' = NoEntry
        /\ entry # NoEntry => /\ entry' \in Entry /\ entry'.status = entry.status
                              /\ entry'.res = entry.res
    BY <1>15, CrashMove DEF Safe, Written
  <2>2. \A q \in Requests : AccountJob(job'[q], entry', installed')
    BY <2>1, AccountIdle
  <2>3. Alone'
    BY <2>1 DEF Alone, Free, At, Idle
  <2>4. /\ installed \subseteq Recorded
        /\ entry # NoEntry /\ entry.status \in Gone => installed = {}
    BY <1>2, <2>1 DEF AccountInv, Safe
  <2>5. Recorded' = Recorded
    BY <2>1 DEF Recorded, InstancesAssumption
  <2> QED
    BY <2>1, <2>2, <2>3, <2>4, <2>5 DEF AccountInv
<1>16. CASE UNCHANGED vars
  BY <1>16 DEF AccountInv, Alone, Free, At, Busy, Recorded
<1> QED
  BY <1>4, <1>5, <1>6, <1>7, <1>8, <1>9, <1>10, <1>11, <1>12, <1>13, <1>14, <1>15, <1>16, StepsOf

\* A resource in the cluster is recorded where a Delete finds it, and none is left
\* when the post-delete hooks begin.
THEOREM NothingForgottenCorrect == ASSUME InstancesAssumption PROVE Spec => []NothingForgotten
<1>1. Init => TypeInv /\ LineInv /\ AccountInv
  BY TypeInit, LineInit, AccountInit
<1>2. TypeInv /\ LineInv /\ AccountInv /\ [Next]_vars => (TypeInv /\ LineInv /\ AccountInv)'
  BY TypeStep, LineStep, AccountStep
<1>3. TypeInv /\ AccountInv => NothingForgotten
  <2> SUFFICES ASSUME TypeInv, AccountInv, Safe(doors)
               PROVE  /\ installed \subseteq Recorded \cup Creating
                      /\ entry # NoEntry /\ entry.status \in Gone => installed = {}
    BY DEF NothingForgotten, Safe, Gone
  <2>1. CASE \A r \in Requests : ~ Busy(r)
    BY <2>1 DEF AccountInv, Safe
  <2>2. ASSUME NEW r \in Requests, Busy(r)
        PROVE  installed \subseteq Creating
    <3>1. installed \subseteq 1..job[r].made
      BY <2>2 DEF AccountInv, AccountJob, Safe, Busy
    <3>2. 1..job[r].made \subseteq Creating
      BY <2>2 DEF Creating, Busy
    <3> QED
      BY <3>1, <3>2
  <2> QED
    BY <2>1, <2>2 DEF AccountInv, Safe
<1> QED
  BY <1>1, <1>2, <1>3, PTL DEF Spec
=============================================================================
