--------------------------- MODULE CompletionProofs ---------------------------
(***************************************************************************)
(* A plan that is complete has been applied, for every set of nodes,       *)
(* versions, specs and secrets and every number of edits and failures,     *)
(* unless a secret disappears within one sync or a plan has concurrency 0. *)
(*                                                                         *)
(* The argument: a hash that is not empty names the version it was made    *)
(* from; so do the jobs created under it and their successes; a plan is    *)
(* set complete when every node that is selected has the label of its      *)
(* hash, so that a job of its version succeeded there; and what is carried *)
(* from one write of a status to the next keeps that.                      *)
(***************************************************************************)
EXTENDS RolloutProofs, FiniteSetTheorems

\* The hash of a status names its version and, if the status is complete, jobs in S
\* succeeded with that version on all nodes outside U.
Truthful(status, S, U) ==
    /\ HashNames(status)
    /\ IsTrue(status.complete) =>
         \A n \in Node \ U : \E h \in Hash : <<<<n, h>>, status.version>> \in S

\* Every copy of the status that may still be written, or be a base of what is written.
StatusesTruthful ==
    /\ Truthful(plan.status, succeeded, touched)
    /\ Truthful(planCache.status, succeeded, touched)
    /\ worker.pc # "idle" => /\ Truthful(worker.plan.status, succeeded, touched)
                             /\ Truthful(worker.out, succeeded, touched)
    /\ \A k \in DOMAIN handling : IsFailed(handling[k].job) =>
         Truthful(handling[k].plan.status, succeeded, touched)

\* A job, and its success, is for the version that the hash in its key names.
JobsNamed ==
    /\ \A k \in DOMAIN job : k[2] # NoHash /\ job[k].template.version = k[2][1]
    /\ \A x \in succeeded : x[1][2] # NoHash /\ x[2] = x[1][2][1]

\* A node that no user touched is selected.
NodesSelected ==
    \A n \in Node \ touched : \A r \in {node[n], nodeCache[n]} : r.mode = "in" /\ r.label # Disabled

CompleteInv == LabelInv /\ JobsNamed /\ NodesSelected /\ StatusesTruthful

-------------------------------------------------------------------------------
\* A node that a user touched stays one that a user touched.
LEMMA TouchedGrows == [Next]_vars => touched \subseteq touched'
  BY NodeSteps DEF nodeVars, JobComplete, PodStart, NodeWatch, Heartbeat, Relabel, Restart

\* Only a user takes a node away from the selector or disables the plan on it.
LEMMA SelectedStep == TypeOK /\ NodesSelected /\ [Next]_vars => NodesSelected'
  <1> SUFFICES ASSUME TypeOK, NodesSelected, [Next]_vars,
                      NEW n \in Node \ touched', NEW r \in {node'[n], nodeCache'[n]}
               PROVE  r.mode = "in" /\ r.label # Disabled
    BY DEF NodesSelected
  <1>1. n \in Node \ touched
    BY TouchedGrows
  <1>2. \/ \E q \in {node[n], nodeCache[n]} : r.label = q.label /\ r.mode = q.mode
        \/ \E k \in DOMAIN handling : r.label = k[2] /\ r.mode = nodeCache[n].mode
    BY NodeSources
  <1>3. \A k \in DOMAIN handling : k[2] # Disabled
    BY NotHashes DEF TypeOK, Key
  <1> QED BY <1>1, <1>2, <1>3 DEF NodesSelected

\* Jobs are created under a hash that names the version they run.
LEMMA NamedStep ==
    TypeOK /\ JobsNamed /\ StatusesTruthful /\ JobChange => JobsNamed'
  <1> SUFFICES ASSUME TypeOK, JobsNamed, StatusesTruthful, JobChange PROVE JobsNamed'
    OBVIOUS
  <1>1. CASE UNCHANGED <<job, handling, succeeded>>
    BY <1>1 DEF JobsNamed
  <1>2. ASSUME NEW T \in SUBSET Node, worker.pc = "generate", Ready, Apply(worker.plan, T),
               UNCHANGED <<handling, succeeded>>
        PROVE  JobsNamed'
    <2>1. worker.plan \in Plan
      BY <1>2, WorkerParts DEF TypeOK
    <2>2. /\ worker.plan.status.hash # NoHash
          /\ worker.plan.status.hash[1] = worker.plan.status.version
      BY <1>2 DEF StatusesTruthful, Truthful, HashNames, Ready
    <2>3. \A k \in DOMAIN job' : k[2] # NoHash /\ job'[k].template.version = k[2][1]
      BY <1>2, <2>1, <2>2, AppliedJobs DEF JobsNamed
    <2> QED BY <1>2, <2>3 DEF JobsNamed
  <1>3. ASSUME NEW k, JobGet(k) \/ JobGetLater(k) PROVE JobsNamed'
    BY <1>3 DEF JobGet, JobGetLater, JobsNamed
  <1>4. ASSUME NEW k, UNCHANGED succeeded, job' = job \/ job' = Remove(job, k) PROVE JobsNamed'
    BY <1>4 DEF JobsNamed, Remove
  <1>5. ASSUME NEW k, PodStep(k) \/ JobFails(k) \/ TTLDelete(k) PROVE JobsNamed'
    <2>1. k \in DOMAIN job /\ job[k] \in Job /\ k \in Key
      BY <1>5 DEF PodStep, PodStart, JobSucceeds, Elapse, JobFails, TTLDelete, TypeOK
    <2>2. CASE TTLDelete(k)
      BY <2>2 DEF TTLDelete, Deletes, Remove, JobsNamed
    <2>3. CASE ~TTLDelete(k)
      <3>1. DOMAIN job' = DOMAIN job /\ \A x \in DOMAIN job : job'[x].template = job[x].template
        <4>1. \/ \E s : job' = [job EXCEPT ![k].state = s]
              \/ \E a : job' = [job EXCEPT ![k].age = a]
          BY <1>5, <2>3 DEF PodStep, PodStart, JobSucceeds, Elapse, JobFails
        <4> QED BY <2>1, <4>1 DEF TypeOK, Job
      <3>2. succeeded' \subseteq succeeded \cup {<<k, job[k].template.version>>}
        BY <1>5, <2>3 DEF PodStep, PodStart, JobSucceeds, Elapse, JobFails
      <3> QED BY <2>1, <3>1, <3>2 DEF JobsNamed
    <2> QED BY <2>2, <2>3
  <1>6. CASE Restart
    BY <1>6 DEF Restart, JobsNamed
  <1> QED BY <1>1, <1>2, <1>3, <1>4, <1>5, <1>6 DEF JobChange

\* No node is selected only if no node in the cache is left to be applied on.
LEMMA NothingLeft ==
    ASSUME TypeOK, worker.pc # "idle", worker.plan.spec.concurrency >= 1, Selected({})
    PROVE  Eligible(nodeCache, worker.plan.status.hash) = {}
  <1> DEFINE hash == worker.plan.status.hash
             applying == worker.plan.status.applying
             c == worker.plan.spec.concurrency
             kept == Kept(nodeCache, hash, applying)
             candidates == Candidates(nodeCache, hash, applying)
  <1>1. c \in Int
    BY WorkerParts, PlanParts DEF TypeOK, PlanSpec
  <1>2. SelectConcurrentNodes(nodeCache, hash, applying, c, {})
    BY DEF Selected
  <1>3. Cardinality({}) = 0
    BY FS_EmptySet
  <1> HIDE DEF hash, applying, c
  <1>4. kept = {} /\ candidates = {}
    <2> HIDE DEF kept, candidates
    <2>1. /\ kept \subseteq {}
          /\ \/ Cardinality(kept) >= c
             \/ Cardinality({}) = c
             \/ {} \ kept = candidates
      BY <1>2 DEF SelectConcurrentNodes, kept, candidates
    <2>2. c >= 1
      BY DEF c
    <2> QED BY <1>1, <1>3, <2>1, <2>2
  <1> QED BY <1>4 DEF Kept, Candidates, hash

\* Setting a plan complete is justified: see the head of the module.
LEMMA CompleteEarned ==
    ASSUME CompleteInv, \A s \in Specs : s.concurrency >= 1,
           worker.pc # "idle", Ready, Selected({})
    PROVE  \A n \in Node \ touched :
               \E h \in Hash : <<<<n, h>>, worker.plan.status.version>> \in succeeded
  <1>1. worker.plan \in Plan /\ worker.plan.spec \in Specs
    BY WorkerParts, PlanParts DEF CompleteInv, LabelInv, TypeOK
  <1> DEFINE hash == worker.plan.status.hash
  <1>2. Eligible(nodeCache, hash) = {}
    BY <1>1, NothingLeft DEF CompleteInv, LabelInv
  <1>3. hash \in Hash /\ hash # NoHash /\ hash[1] = worker.plan.status.version
    BY <1>1, PlanParts DEF CompleteInv, StatusesTruthful, Truthful, HashNames, Ready
  <1> HIDE DEF hash
  <1> TAKE n \in Node \ touched
  <1>4. nodeCache[n].label = hash
    BY <1>2 DEF Eligible, CompleteInv, NodesSelected
  <1>5. PICK v \in Version \cup {NoVersion} : <<<<n, hash>>, v>> \in succeeded
    BY <1>3, <1>4 DEF CompleteInv, LabelInv, LabelEarned
  <1>6. v = hash[1]
    BY <1>5 DEF CompleteInv, JobsNamed
  <1> QED BY <1>3, <1>5, <1>6

-------------------------------------------------------------------------------
(* What is carried from one status to the next. *)

\* A status whose Complete is written, with anything but True, stays truthful.
LEMMA TruthfulWrites ==
    ASSUME NEW st \in Status(HostnameValue), NEW S, NEW U, Truthful(st, S, U),
           NEW c \in Condition, NEW applying \in SUBSET HostnameValue,
           IsTrue(c) => \A n \in Node \ U : \E h \in Hash : <<<<n, h>>, st.version>> \in S
    PROVE  /\ Truthful([st EXCEPT !.complete = c], S, U)
           /\ Truthful([st EXCEPT !.applying = applying, !.complete = c], S, U)
  BY DEF Status, Truthful, HashNames

\* Later successes and later edits of nodes take nothing away.
LEMMA TruthfulGrows ==
    ASSUME NEW st, NEW S, NEW U, NEW S2, NEW U2, S \subseteq S2, U \subseteq U2, Truthful(st, S, U)
    PROVE  Truthful(st, S2, U2)
  BY DEF Truthful

\* The writes of Complete that say it is not, for any condition.
LEMMA NotComplete ==
    ASSUME NEW c \in Condition
    PROVE  /\ ~IsTrue(SetError(c, "NotReady", "NotReady", Now))
           /\ ~IsTrue(SetError(c, "Waiting", "OutsideWindow", Now))
           /\ \A n \in Node : ~IsTrue(SetError(c, "JobFailed", n, Now))
           /\ ~IsTrue(Reset(c, "SyncJob", Now))
  <1>1. /\ "NotReady" \in Message /\ "OutsideWindow" \in Message /\ Node \subseteq Message
        /\ Now \in Nat
    BY MessageAssumption DEF Now
  <1>2. {"NotReady", "Waiting", "Complete", "JobFailed", "SyncJob"} \subseteq Reason
    BY DEF Reason
  <1> QED BY <1>1, <1>2, ErrorAssumption, SetErrorType, ResetType

\* The copies of a status that a step leaves, in terms of the state before it.
StillTruthful ==
    /\ Truthful(plan'.status, succeeded, touched)
    /\ Truthful(planCache'.status, succeeded, touched)
    /\ worker'.pc # "idle" => /\ Truthful(worker'.plan.status, succeeded, touched)
                              /\ Truthful(worker'.out, succeeded, touched)
    /\ \A k \in DOMAIN handling' : IsFailed(handling'[k].job) =>
         Truthful(handling'[k].plan.status, succeeded, touched)

\* A write that succeeds leaves the status it writes.
LEMMA WithStatusHas ==
    ASSUME TypeOK, NEW st
    PROVE  WithStatus(st).status = st
  BY DEF WithStatus, TypeOK, Plan

\* What a sync writes, and hands to the generating handler.
LEMMA SyncOutcome ==
    ASSUME TypeOK, PlanSync
    PROVE  LET out == SyncOut(secret')
           IN  /\ out.status \in Status(HostnameValue)
               /\ plan' = plan \/ (Current(planCache) /\ plan' = WithStatus(out.status))
               /\ worker'.plan = SyncKept(secret')
                    \/ (plan' = WithStatus(out.status) /\ worker'.plan = plan')
               /\ worker'.out = out.status /\ worker'.plan.status = out.status
  <1>1. PICK d : secret' = d /\ SyncOut(d).status \in Status(HostnameValue)
                 /\ (SyncWrites(d) \/ SyncKeeps(d))
    BY SyncCases
  <1>2. SyncKept(d).status = SyncOut(d).status
    BY DEF SyncKept, TypeOK, Plan
  <1>3. WithStatus(SyncOut(d).status).status = SyncOut(d).status
    BY WithStatusHas
  <1> QED BY <1>1, <1>2, <1>3 DEF SyncWrites, SyncKeeps

\* A sync with one view of the secret leaves the hash naming the version.
LEMMA SyncTruthful ==
    ASSUME ~SecretVanishes, CompleteInv, PlanSync
    PROVE  StillTruthful
  <1> DEFINE out == SyncOut(secret)
  <1>1. /\ plan' = plan \/ plan' = WithStatus(out.status)
        /\ worker'.out = out.status /\ worker'.plan.status = out.status
    <2>1. secret' = secret
      BY DEF PlanSync
    <2>2. TypeOK
      BY DEF CompleteInv, LabelInv
    <2> QED BY <2>1, <2>2, SyncOutcome
  <1>2. /\ secret \in Secret \cup {Missing} /\ planCache \in Plan /\ TypeOK
        /\ Truthful(planCache.status, succeeded, touched)
    BY DEF CompleteInv, LabelInv, TypeOK, StatusesTruthful
  <1>3. /\ IsTrue(out.status.complete) =>
             IsTrue(planCache.status.complete) /\ out.status.version = planCache.status.version
        /\ HashNames(planCache.status) => HashNames(out.status)
    <2>1. /\ planCache.spec \in PlanSpec /\ planCache.status \in Status(HostnameValue)
          /\ Now \in Nat /\ NoAnswer \in RawVersion \cup {NoAnswer}
      BY <1>2, PlanParts DEF Now
    <2>2. ASSUME NEW spec \in PlanSpec, NEW st \in Status(HostnameValue),
                 NEW sec \in Secret \cup {Missing}
          PROVE  LET o == StatusHandler(spec, st, sec, sec, NoAnswer, Now)
                 IN  /\ IsTrue(o.status.complete) =>
                          IsTrue(st.complete) /\ o.status.version = st.version
                     /\ HashNames(st) => HashNames(o.status)
      BY <2>1, TextsAreMessages, StatusHandlerKeeps
    <2> QED BY <1>2, <2>1, <2>2 DEF SyncOut
  <1>4. Truthful(out.status, succeeded, touched)
    BY <1>2, <1>3 DEF Truthful
  <1> HIDE DEF out
  <1>5. plan'.status \in {plan.status, out.status}
    BY <1>1, <1>2, WithStatusHas
  <1>6. UNCHANGED <<planCache, handling>>
    BY DEF PlanSync, jobVars
  <1> QED BY <1>1, <1>4, <1>5, <1>6 DEF StillTruthful, CompleteInv, StatusesTruthful

\* A handler that ends leaves the worker idle or with the status it returned.
LEMMA FinishTruthful ==
    ASSUME CompleteInv, worker.pc # "idle", UNCHANGED <<plan, planCache, handling>>,
           NEW st, Truthful(st, succeeded, touched), Finish(st) \/ Fail
    PROVE  StillTruthful
  <1>1. CASE worker' = Idle
    BY <1>1 DEF StillTruthful, CompleteInv, StatusesTruthful, Idle
  <1>2. CASE worker' = [worker EXCEPT !.pc = "update", !.out = st]
    <2>1. worker \in [pc : {"generate", "update"}, plan : Plan,
                      out : Status(HostnameValue), err : BOOLEAN]
      BY DEF CompleteInv, LabelInv, TypeOK, Worker, Idle
    <2>2. worker'.plan = worker.plan /\ worker'.out = st
      BY <1>2, <2>1
    <2> QED BY <2>2 DEF StillTruthful, CompleteInv, StatusesTruthful
  <1> QED BY <1>1, <1>2 DEF Finish, Fail

\* The generating handler sets Complete only when CompleteEarned applies.
LEMMA GenerateTruthful ==
    ASSUME CompleteInv, \A s \in Specs : s.concurrency >= 1,
           GenerateNotReady \/ GenerateRejected \/ GenerateSelected
    PROVE  StillTruthful
  <1> DEFINE st == worker.plan.status
  <1>1. worker.pc # "idle" /\ UNCHANGED <<plan, planCache, handling>>
    BY DEF GenerateNotReady, GenerateRejected, GenerateSelected, Generating
  <1>2. st \in Status(HostnameValue) /\ st.complete \in Condition
    BY <1>1, WorkerParts, PlanParts DEF CompleteInv, LabelInv, TypeOK
  <1>3. Truthful(st, succeeded, touched)
    BY <1>1 DEF CompleteInv, StatusesTruthful
  <1> HIDE DEF st
  <1>4. ASSUME NEW c \in Condition, ~IsTrue(c), NEW applying \in SUBSET HostnameValue
        PROVE  /\ Truthful([st EXCEPT !.complete = c], succeeded, touched)
               /\ Truthful([st EXCEPT !.applying = applying, !.complete = c], succeeded, touched)
    BY <1>2, <1>3, <1>4, TruthfulWrites
  <1>5. {} \in SUBSET HostnameValue
    OBVIOUS
  <1>6. CASE GenerateNotReady
    <2>1. Truthful([st EXCEPT !.complete = SetError(st.complete, "NotReady", "NotReady", Now)],
                   succeeded, touched)
      BY <1>2, <1>4, <1>5, CompleteWrites, NotComplete
    <2> QED BY <1>1, <1>6, <2>1, FinishTruthful DEF GenerateNotReady, Return, st
  <1>7. CASE GenerateRejected
    BY <1>1, <1>3, <1>7, FinishTruthful DEF GenerateRejected
  <1>8. CASE GenerateSelected
    <2>1. PICK T \in SUBSET Node :
            Selected(T) /\ (GenerateWaiting(T) \/ GenerateComplete(T) \/ GenerateJobs(T))
      BY <1>8 DEF GenerateSelected
    <2>2. CASE GenerateWaiting(T)
      <3>1. Truthful([st EXCEPT !.complete = SetError(st.complete, "Waiting", "OutsideWindow", Now)],
                     succeeded, touched)
        BY <1>2, <1>4, <1>5, CompleteWrites, NotComplete
      <3> QED BY <1>1, <2>2, <3>1, FinishTruthful DEF GenerateWaiting, st
    <2>3. CASE GenerateComplete(T)
      <3>1. Ready /\ Selected({})
        BY <1>8, <2>1, <2>3 DEF GenerateSelected, GenerateComplete
      <3>2. \A n \in Node \ touched : \E h \in Hash : <<<<n, h>>, st.version>> \in succeeded
        BY <1>1, <3>1, CompleteEarned DEF st
      <3>3. Truthful([st EXCEPT !.applying = {},
                                !.complete = SetError(st.complete, "Complete", NoError, Now)],
                     succeeded, touched)
        BY <1>2, <1>3, <1>5, <3>2, CompleteWrites, TruthfulWrites
      <3> QED BY <1>1, <2>3, <3>3, FinishTruthful DEF GenerateComplete, Return, st
    <2>4. CASE GenerateJobs(T)
      <3> DEFINE hostnames == {Hostname[n] : n \in T}
      <3>1. hostnames \in SUBSET HostnameValue
        BY HostnameAssumption
      <3> HIDE DEF hostnames
      <3>2. Truthful([st EXCEPT !.applying = hostnames,
                                !.complete = Reset(st.complete, "SyncJob", Now)],
                     succeeded, touched)
        BY <1>2, <1>4, <3>1, CompleteWrites, NotComplete
      <3>3. Truthful(Synced(T), succeeded, touched)
        BY <1>3, <3>2 DEF Synced, st, hostnames
      <3>4. Finish(Synced(T)) \/ Fail
        BY <2>4 DEF GenerateJobs, Return
      <3> QED BY <1>1, <3>3, <3>4, FinishTruthful
    <2> QED BY <2>1, <2>2, <2>3, <2>4
  <1> QED BY <1>6, <1>7, <1>8

\* The job handler's write of a plan keeps its status truthful, and is not Complete.
LEMMA JobTruthful ==
    ASSUME CompleteInv, NEW k, JobStep(k)
    PROVE  StillTruthful
  <1> USE DEF CompleteInv, StatusesTruthful, StillTruthful
  <1>1. CASE JobGet(k) \/ JobGetLater(k)
    <2>1. PICK j \in Job : handling'[k] = Reads(j)
      BY <1>1, StartSteps DEF LabelInv
    <2>2. /\ DOMAIN handling' = DOMAIN handling \cup {k}
          /\ \A x \in DOMAIN handling \ {k} : handling'[x] = handling[x]
      BY <1>1, StartSteps DEF LabelInv
    <2>3. UNCHANGED <<plan, planCache, worker>>
      BY <1>1 DEF JobGet, JobGetLater, planVars
    <2>4. IsFailed(Reads(j).job) => Reads(j).plan = plan
      BY ReadsJob DEF Reads, IsFailed
    <2> QED BY <2>1, <2>2, <2>3, <2>4
  <1>2. CASE JobAct(k)
    <2>1. /\ UNCHANGED <<planCache, worker>> /\ k \in DOMAIN handling
          /\ handling' = Remove(handling, k)
      BY <1>2 DEF JobAct, JobOrphaned, JobNodeGone, JobFailed, JobComplete, JobOutOfTurn,
             JobInTurn, Handled, Belongs, Ends, QueuesPlan, planVars
    <2>2. \A x \in DOMAIN handling' : x \in DOMAIN handling /\ handling'[x] = handling[x]
      BY <2>1 DEF Remove
    <2>3. Truthful(plan'.status, succeeded, touched)
      <3>1. CASE JobFailed(k)
        <4> DEFINE p == handling[k].plan
                   st == [p.status EXCEPT !.complete = SetError(@, "JobFailed", k[1], Now)]
        <4>1. p \in Plan /\ k[1] \in Node /\ TypeOK
          BY <2>1 DEF LabelInv, TypeOK, Key
        <4>2. Truthful(p.status, succeeded, touched)
          BY <2>1, <3>1 DEF JobFailed
        <4>3. p.status \in Status(HostnameValue) /\ p.status.complete \in Condition
          BY <4>1, PlanParts
        <4>4. /\ SetError(p.status.complete, "JobFailed", k[1], Now) \in Condition
              /\ ~IsTrue(SetError(p.status.complete, "JobFailed", k[1], Now))
          BY <4>1, <4>3, CompleteWrites, NotComplete
        <4>5. Truthful(st, succeeded, touched)
          BY <4>2, <4>3, <4>4, TruthfulWrites
        <4> HIDE DEF st
        <4>6. plan' = plan \/ plan' = WithStatus(st)
          BY <3>1 DEF JobFailed, Writes, WriteFails, st
        <4> QED BY <4>1, <4>5, <4>6, WithStatusHas
      <3>2. CASE ~JobFailed(k)
        BY <1>2, <3>2 DEF JobAct, JobOrphaned, JobNodeGone, JobComplete, JobOutOfTurn, JobInTurn,
               planVars
      <3> QED BY <3>1, <3>2
    <2> QED BY <2>1, <2>2, <2>3
  <1> QED BY <1>1, <1>2 DEF JobStep

\* A plan that was just created is not complete.
LEMMA NewTruthful == \A S, U : Truthful(NewStatus, S, U)
  BY DEF Truthful, NewStatus, HashNames, IsTrue, Absent

\* Every step leaves truthful copies of the status only.
LEMMA StatusStep ==
    ASSUME ~SecretVanishes, \A s \in Specs : s.concurrency >= 1, CompleteInv, [Next]_vars
    PROVE  StillTruthful
  <1>1. CASE PlanStep
    <2>1. CASE PlanRemove
      BY <2>1 DEF PlanRemove, jobVars, CompleteInv, StatusesTruthful, StillTruthful
    <2>2. CASE PlanUpdate
      <3>1. plan' = plan \/ plan'.status = worker.out
        BY <2>2, WithStatusHas DEF PlanUpdate, Writes, WriteFails, CompleteInv, LabelInv
      <3>2. Truthful(plan'.status, succeeded, touched)
        BY <2>2, <3>1 DEF PlanUpdate, CompleteInv, StatusesTruthful
      <3> QED BY <2>2, <3>2 DEF PlanUpdate, Idle, jobVars, CompleteInv, StatusesTruthful,
                                StillTruthful
    <2> QED BY <1>1, <2>1, <2>2, SyncTruthful, GenerateTruthful DEF PlanStep
  <1>2. ASSUME NEW k, JobStep(k) PROVE StillTruthful
    BY <1>2, JobTruthful
  <1>3. ASSUME NEW k, PodStep(k) \/ JobFails(k) \/ TTLDelete(k) PROVE StillTruthful
    BY <1>3 DEF PodStep, PodStart, JobSucceeds, Elapse, JobFails, TTLDelete, ClusterStep, planVars,
           CompleteInv, StatusesTruthful, StillTruthful
  <1>4. CASE PlanWatch \/ Restart
    BY <1>4 DEF PlanWatch, Restart, Idle, Nothing, jobVars, CompleteInv, StatusesTruthful,
           StillTruthful
  <1>5. CASE Resync \/ (\E n \in Node : NodeWatch(n) \/ Heartbeat(n) \/ Relabel(n))
             \/ EditSecret \/ WindowOpens \/ WindowCloses
    BY <1>5 DEF Resync, NodeWatch, Heartbeat, Relabel, EditSecret, WindowOpens, WindowCloses,
           planVars, jobVars, CompleteInv, StatusesTruthful, StillTruthful
  <1>6. CASE EditPlan \/ DeletePlan \/ CreatePlan
    <2>1. plan'.status = plan.status \/ plan'.status = NewStatus
      <3>1. plan \in Plan
        BY DEF CompleteInv, LabelInv, TypeOK
      <3>2. CASE EditPlan
        <4>1. PICK s : plan' = [plan EXCEPT !.rv = plan.rv + 1, !.spec = s]
          BY <3>1, <3>2 DEF EditPlan, Plan
        <4> QED BY <3>1, <4>1 DEF Plan
      <3>3. CASE DeletePlan
        <4>1. plan' = [plan EXCEPT !.rv = plan.rv + 1, !.exists = FALSE]
          BY <3>1, <3>3 DEF DeletePlan, Plan
        <4> QED BY <3>1, <4>1 DEF Plan
      <3>4. CASE CreatePlan
        BY <3>4 DEF CreatePlan
      <3> QED BY <1>6, <3>2, <3>3, <3>4
    <2>2. Truthful(plan'.status, succeeded, touched)
      BY <2>1, NewTruthful DEF CompleteInv, StatusesTruthful
    <2> QED BY <1>6, <2>2 DEF EditPlan, DeletePlan, CreatePlan, jobVars, CompleteInv,
               StatusesTruthful, StillTruthful
  <1>7. CASE UNCHANGED vars
    BY <1>7 DEF vars, planVars, jobVars, CompleteInv, StatusesTruthful, StillTruthful
  <1> QED BY <1>1, <1>2, <1>3, <1>4, <1>5, <1>6, <1>7 DEF Next

\* Every step keeps the inductive invariant.
LEMMA CompleteStep ==
    ASSUME ~SecretVanishes, \A s \in Specs : s.concurrency >= 1, CompleteInv, [Next]_vars
    PROVE  CompleteInv'
  <1>1. LabelInv' /\ JobsNamed' /\ NodesSelected'
    BY LabelStep, JobSteps, NamedStep, SelectedStep DEF CompleteInv, LabelInv
  <1>2. succeeded \subseteq succeeded' /\ touched \subseteq touched'
    BY JobSteps, CountedStep, TouchedGrows DEF CompleteInv, LabelInv
  <1>3. StatusesTruthful'
    BY <1>2, StatusStep, TruthfulGrows DEF StillTruthful, StatusesTruthful
  <1> QED BY <1>1, <1>3 DEF CompleteInv

\* At first the plan is not complete and every node is selected.
LEMMA CompleteInit == Init => CompleteInv
  <1> SUFFICES ASSUME Init PROVE LabelInv /\ JobsNamed /\ NodesSelected /\ StatusesTruthful
    BY DEF CompleteInv
  <1>1. LabelInv
    BY LabelInit
  <1>2. JobsNamed
    BY DEF Init, Nothing, JobsNamed
  <1>3. NodesSelected
    BY DEF Init, NewNode, NodesSelected, NoLabel, Disabled
  <1>4. StatusesTruthful
    BY NewTruthful DEF Init, Nothing, Idle, StatusesTruthful
  <1> QED BY <1>1, <1>2, <1>3, <1>4

\* Complete is truthful for every instance in which no secret disappears within one
\* sync (SecretRace shows what happens then) and every plan allows at least one node.
THEOREM CompleteCorrect ==
    ASSUME ~SecretVanishes, \A s \in Specs : s.concurrency >= 1
    PROVE  Spec => []CompleteTruthful
  <1>1. CompleteInv /\ [Next]_vars => CompleteInv'
    BY CompleteStep
  <1>2. CompleteInv => CompleteTruthful
    BY DEF CompleteInv, StatusesTruthful, Truthful, CompleteTruthful
  <1> QED BY <1>1, <1>2, CompleteInit, PTL DEF Spec
===============================================================================
