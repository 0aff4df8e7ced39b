------------------------ MODULE UpgradeControllerProofs -----------------------
(***************************************************************************)
(* Theorems about UpgradeController for every set of nodes, versions,      *)
(* plan specs and secrets, and every number of edits and failures.         *)
(***************************************************************************)
EXTENDS UpgradeController, PlanStatusProofs

\* What a plan in the right set is made of.
LEMMA PlanParts ==
    ASSUME NEW p \in Plan
    PROVE  /\ p.exists \in BOOLEAN /\ p.rv \in Nat /\ p.spec \in Specs /\ p.spec \in PlanSpec
           /\ p.status \in Status(HostnameValue)
           /\ p.status.hash \in Hash /\ p.status.version \in Version \cup {NoVersion}
           /\ p.status.applying \subseteq HostnameValue
           /\ p.status.complete \in Condition
           /\ p.spec.cordon \in BOOLEAN /\ p.spec.delay \in BOOLEAN /\ p.spec.upgrade \in Upgrade
  BY SpecsAssumption DEF Plan, Status, PlanSpec

\* A worker that is not idle holds a plan and a status.
LEMMA WorkerParts ==
    ASSUME NEW w \in Worker, w.pc # "idle"
    PROVE  w.plan \in Plan /\ w.out \in Status(HostnameValue) /\ w.err \in BOOLEAN
  BY DEF Worker, Idle

\* The texts of the status handler are messages.
LEMMA TextsAreMessages == Texts \subseteq Message
  BY MessageAssumption DEF Texts

\* A status keeps its type when Complete or Applying is written.
LEMMA StatusWrites ==
    ASSUME NEW st \in Status(HostnameValue), NEW c \in Condition,
           NEW applying \in SUBSET HostnameValue
    PROVE  /\ [st EXCEPT !.complete = c] \in Status(HostnameValue)
           /\ [st EXCEPT !.applying = applying, !.complete = c] \in Status(HostnameValue)
  BY DEF Status

\* The error and reset forms of Complete that the handlers write.
LEMMA CompleteWrites ==
    ASSUME NEW c \in Condition
    PROVE  /\ SetError(c, "NotReady", "NotReady", Now) \in Condition
           /\ SetError(c, "Waiting", "OutsideWindow", Now) \in Condition
           /\ SetError(c, "Complete", NoError, Now) \in Condition
           /\ \A n \in Node : SetError(c, "JobFailed", n, Now) \in Condition
           /\ Reset(c, "SyncJob", Now) \in Condition
  <1>1. /\ "NotReady" \in Message /\ "OutsideWindow" \in Message /\ Node \subseteq Message
        /\ Now \in Nat
    BY MessageAssumption DEF Now
  <1>2. {"NotReady", "Waiting", "Complete", "JobFailed", "SyncJob"} \subseteq Reason
    BY DEF Reason
  <1> QED BY <1>1, <1>2, SetErrorType, ResetType

\* Finite maps keep their type.
LEMMA MapTypes ==
    ASSUME NEW K, NEW V, NEW f, DOMAIN f \subseteq K, f \in [DOMAIN f -> V],
           NEW k \in K, NEW v \in V
    PROVE  /\ DOMAIN Put(f, k, v) \subseteq K /\ Put(f, k, v) \in [DOMAIN Put(f, k, v) -> V]
           /\ DOMAIN Put(f, k, v) = DOMAIN f \cup {k}
           /\ DOMAIN Remove(f, k) \subseteq K /\ Remove(f, k) \in [DOMAIN Remove(f, k) -> V]
           /\ DOMAIN Remove(f, k) = DOMAIN f \ {k}
  BY DEF Put, Remove

\* Creating and patching the jobs of the nodes in T leaves jobs.
LEMMA ApplyType ==
    ASSUME TypeOK, NEW p \in Plan, NEW T \in SUBSET Node, Apply(p, T)
    PROVE  /\ DOMAIN job' \subseteq Key /\ job' \in [DOMAIN job' -> Job]
           /\ jobQueue' \subseteq DOMAIN job'
  <1>1. \A n \in Node : NewJob(p, n) \in Job
    BY PlanParts DEF NewJob, JobTemplate, Job, Template
  <1>2. \A k \in DOMAIN job, par \in {0, 1} : Patched(job[k], par) \in Job
    <2>1. \A j \in Job, par \in {0, 1} : Patched(j, par) \in Job
      BY DEF Patched, Job
    <2> QED BY <2>1 DEF TypeOK
  <1>3. \A n \in Node : NewJob(p, n).parallelism \in {0, 1} /\ <<n, p.status.hash>> \in Key
    BY PlanParts DEF NewJob, Key
  <1> DEFINE keys == {<<n, p.status.hash>> : n \in T}
             gone == ReplacedJobs(p, T)
             D == (DOMAIN job \cup keys) \ gone
  <1>4. D \subseteq Key
    BY <1>3 DEF TypeOK
  <1>5. \A k \in keys : k[1] \in Node
    OBVIOUS
  <1> HIDE DEF gone
  <1>6. /\ DOMAIN job' = D /\ job' \in [D -> Job]
    BY <1>1, <1>2, <1>3, <1>5 DEF Apply, TypeOK, gone
  <1>7. jobQueue' \subseteq D
    <2> HIDE DEF keys
    <2> QED BY DEF Apply, TypeOK, gone, keys
  <1> QED BY <1>4, <1>6, <1>7

-------------------------------------------------------------------------------
(* Type correctness, one lemma per group of actions. *)

\* A new plan has a status.
LEMMA NewStatusType == NewStatus \in Status(HostnameValue)
  BY DEF NewStatus, Status, Absent, Condition, ConditionStatus, Reason, NoError, Never, Hash

\* A new plan, its nodes and an idle controller have their types.
LEMMA TypeInit == Init => TypeOK
  <1> SUFFICES ASSUME Init PROVE TypeOK
    OBVIOUS
  <1>2. plan \in Plan /\ planCache \in Plan
    BY NewStatusType, SpecsAssumption DEF Init, Plan
  <1>3. node \in [Node -> NodeRecord] /\ nodeCache \in [Node -> NodeRecord]
    BY DEF Init, NewNode, NodeRecord
  <1>4. DOMAIN job = {} /\ DOMAIN handling = {}
    BY DEF Init, Nothing
  <1>5. job \in [DOMAIN job -> Job] /\ handling \in [DOMAIN handling -> [job : Job, plan : Plan]]
    BY <1>4 DEF Init, Nothing
  <1>6. inWindow \in BOOLEAN
    BY <1>2, PlanParts DEF Init, PlanSpec
  <1> QED BY <1>2, <1>3, <1>4, <1>5, <1>6, BoundsAssumption DEF Init, TypeOK, Worker

\* A write that succeeds leaves a plan.
LEMMA WithStatusType ==
    ASSUME plan \in Plan, NEW st \in Status(HostnameValue)
    PROVE  WithStatus(st) \in Plan
  <1>1. ASSUME NEW p \in Plan PROVE [p EXCEPT !.rv = @ + 1, !.status = st] \in Plan
    <2>1. p.rv + 1 \in Nat
      BY DEF Plan
    <2>2. [p EXCEPT !.rv = @ + 1, !.status = st] = [p EXCEPT !.rv = p.rv + 1, !.status = st]
      BY DEF Plan
    <2>3. \A r \in Nat : [p EXCEPT !.rv = r, !.status = st] \in Plan
      BY DEF Plan
    <2> QED BY <2>1, <2>2, <2>3
  <1> QED BY <1>1 DEF WithStatus

\* What the status handler makes of the cached plan, and the object it leaves behind.
SyncOut(d) == StatusHandler(planCache.spec, planCache.status, secret, d, NoAnswer, Now)

SyncKept(d) == [planCache EXCEPT !.status = SyncOut(d).status]

\* The two outcomes of a sync's first half: its status is written and goes on, or the
\* object in hand goes on, with an error if its status differs from the cached one.
SyncWrites(d) ==
    /\ ~SyncOut(d).err /\ SyncOut(d).status # planCache.status
    /\ Current(planCache) /\ plan' = WithStatus(SyncOut(d).status) /\ UNCHANGED faults
    /\ worker' = [pc |-> "generate", plan |-> plan', out |-> SyncOut(d).status, err |-> FALSE]

SyncKeeps(d) ==
    \E err \in BOOLEAN :
        /\ worker' = [pc |-> "generate", plan |-> SyncKept(d), out |-> SyncOut(d).status, err |-> err]
        /\ err \/ SyncOut(d).status = planCache.status
        /\ \/ UNCHANGED <<plan, faults>>
           \/ Current(planCache) /\ Fault /\ plan' \in {plan, WithStatus(SyncOut(d).status)}

\* A sync ends its first half in one of the two.
LEMMA SyncCases ==
    ASSUME TypeOK, PlanSync
    PROVE  \E d \in {secret} \cup (IF SecretVanishes THEN {Missing} ELSE {}) :
             /\ secret' = d /\ d \in Secret \cup {Missing}
             /\ SyncOut(d).status \in Status(HostnameValue) /\ SyncOut(d).err \in BOOLEAN
             /\ SyncWrites(d) \/ SyncKeeps(d)
  <1>1. PICK d \in {secret} \cup (IF SecretVanishes THEN {Missing} ELSE {}) :
          LET out == SyncOut(d)
              changed == ~out.err /\ out.status # planCache.status
              Continue(p, err) ==
                 worker' = [pc |-> "generate", plan |-> p, out |-> out.status, err |-> err]
          IN  /\ secret' = d
              /\ \/ ~changed /\ UNCHANGED <<plan, faults>> /\ Continue(SyncKept(d), out.err)
                 \/ changed /\ Writes(planCache, out.status) /\ Continue(plan', FALSE)
                 \/ changed /\ WriteFails(planCache, out.status) /\ Continue(SyncKept(d), TRUE)
    BY DEF PlanSync, SyncOut, SyncKept
  <1>2. secret \in Secret \cup {Missing} /\ d \in Secret \cup {Missing} /\ planCache \in Plan
    BY DEF TypeOK
  <1>3. SyncOut(d).status \in Status(HostnameValue) /\ SyncOut(d).err \in BOOLEAN
    BY <1>2, PlanParts, TextsAreMessages, StatusHandlerKeeps DEF SyncOut, Now
  <1>4. SyncWrites(d) \/ SyncKeeps(d)
    BY <1>1, <1>3 DEF Writes, WriteFails, SyncWrites, SyncKeeps
  <1> QED BY <1>1, <1>2, <1>3, <1>4

\* One more failure is still within the bound.
LEMMA FaultsType == ASSUME TypeOK, Fault \/ UNCHANGED faults PROVE faults' \in 0..MaxFaults
  BY BoundsAssumption DEF Fault, TypeOK

\* A plan stays one whether a write of its status succeeds, fails or loses its answer.
LEMMA WriteType ==
    ASSUME TypeOK, NEW p, NEW st \in Status(HostnameValue), Writes(p, st) \/ WriteFails(p, st)
    PROVE  plan' \in Plan /\ faults' \in 0..MaxFaults
  <1>1. WithStatus(st) \in Plan /\ plan \in Plan
    BY WithStatusType DEF TypeOK
  <1> QED BY <1>1, FaultsType DEF Writes, WriteFails

\* The status handler and its write, from StatusHandlerKeeps.
LEMMA TypePlanSync == TypeOK /\ PlanSync => TypeOK'
  <1> SUFFICES ASSUME TypeOK, PlanSync PROVE TypeOK'
    OBVIOUS
  <1>1. PICK d : /\ secret' = d /\ d \in Secret \cup {Missing}
                 /\ SyncOut(d).status \in Status(HostnameValue) /\ SyncOut(d).err \in BOOLEAN
                 /\ SyncWrites(d) \/ SyncKeeps(d)
    BY SyncCases
  <1>2. planCache \in Plan /\ plan \in Plan /\ WithStatus(SyncOut(d).status) \in Plan
    BY <1>1, WithStatusType DEF TypeOK
  <1>3. SyncKept(d) \in Plan
    BY <1>1, <1>2 DEF SyncKept, Plan
  <1>4. plan' \in Plan
    BY <1>1, <1>2 DEF SyncWrites, SyncKeeps
  <1>5. worker' \in Worker
    <2>1. ASSUME NEW p \in Plan, NEW e \in BOOLEAN, NEW o \in Status(HostnameValue)
          PROVE  [pc |-> "generate", plan |-> p, out |-> o, err |-> e] \in Worker
      BY DEF Worker
    <2> QED BY <1>1, <1>3, <1>4, <2>1 DEF SyncWrites, SyncKeeps
  <1>6. faults' \in 0..MaxFaults
    BY <1>1, FaultsType DEF SyncWrites, SyncKeeps
  <1> QED BY <1>1, <1>4, <1>5, <1>6 DEF TypeOK, PlanSync, nodeVars, jobVars

\* What the generating handler leaves to be written is a status.
LEMMA TypeFinish ==
    ASSUME TypeOK, worker.pc # "idle", NEW st \in Status(HostnameValue)
    PROVE  /\ Finish(st) => worker' \in Worker
           /\ Return(st) => worker' \in Worker /\ planQueue' \in BOOLEAN
  <1>1. [worker EXCEPT !.pc = "update", !.out = st] \in Worker
    <2>1. worker \in [pc : {"generate", "update"}, plan : Plan,
                      out : Status(HostnameValue), err : BOOLEAN]
      BY DEF TypeOK, Worker, Idle
    <2> QED BY <2>1 DEF Worker
  <1>2. worker.err \in BOOLEAN
    BY WorkerParts DEF TypeOK
  <1> QED BY <1>1, <1>2 DEF Finish, Return, TypeOK, Worker

\* The statuses that the generating handler returns.
LEMMA SyncedType ==
    ASSUME TypeOK, worker.pc # "idle", NEW T \in SUBSET Node
    PROVE  /\ worker.plan \in Plan
           /\ [worker.plan.status EXCEPT !.complete = SetError(@, "NotReady", "NotReady", Now)]
                \in Status(HostnameValue)
           /\ [worker.plan.status EXCEPT !.complete = SetError(@, "Waiting", "OutsideWindow", Now)]
                \in Status(HostnameValue)
           /\ [worker.plan.status EXCEPT !.applying = {},
                                         !.complete = SetError(@, "Complete", NoError, Now)]
                \in Status(HostnameValue)
           /\ Synced(T) \in Status(HostnameValue)
  <1> DEFINE st == worker.plan.status
             hostnames == {Hostname[n] : n \in T}
  <1>1. worker.plan \in Plan
    BY WorkerParts DEF TypeOK
  <1>2. st \in Status(HostnameValue) /\ st.complete \in Condition
    BY <1>1, PlanParts
  <1>3. hostnames \in SUBSET HostnameValue
    BY HostnameAssumption
  <1>4. {} \in SUBSET HostnameValue
    OBVIOUS
  <1> HIDE DEF st, hostnames
  <1>5. /\ [st EXCEPT !.complete = SetError(st.complete, "NotReady", "NotReady", Now)]
             \in Status(HostnameValue)
        /\ [st EXCEPT !.complete = SetError(st.complete, "Waiting", "OutsideWindow", Now)]
             \in Status(HostnameValue)
        /\ [st EXCEPT !.applying = {}, !.complete = SetError(st.complete, "Complete", NoError, Now)]
             \in Status(HostnameValue)
        /\ [st EXCEPT !.applying = hostnames, !.complete = Reset(st.complete, "SyncJob", Now)]
             \in Status(HostnameValue)
    BY <1>2, <1>3, <1>4, CompleteWrites, StatusWrites
  <1> QED BY <1>1, <1>2, <1>5 DEF Synced, st, hostnames

\* The generating handler, with what it returns and the jobs it applies.
LEMMA TypeGenerate ==
    TypeOK /\ (GenerateNotReady \/ GenerateRejected \/ GenerateSelected) => TypeOK'
  <1> SUFFICES ASSUME TypeOK, GenerateNotReady \/ GenerateRejected \/ GenerateSelected
               PROVE  TypeOK'
    OBVIOUS
  <1>1. Generating /\ worker.pc # "idle"
    BY DEF GenerateNotReady, GenerateRejected, GenerateSelected, Generating
  <1>2. worker.plan \in Plan /\ worker.plan.rv \in Nat
    BY <1>1, WorkerParts, PlanParts DEF TypeOK
  <1>3. Fail => worker' \in Worker /\ planQueue' \in BOOLEAN
    BY DEF Fail, Worker
  <1>4. CASE GenerateNotReady
    <2>1. worker' \in Worker /\ planQueue' \in BOOLEAN
      BY <1>1, <1>4, SyncedType, TypeFinish DEF GenerateNotReady
    <2> QED BY <1>1, <1>2, <1>4, <2>1 DEF TypeOK, GenerateNotReady, Generating, nodeVars
  <1>5. CASE GenerateRejected
    BY <1>1, <1>3, <1>5 DEF TypeOK, GenerateRejected, Generating, nodeVars
  <1>6. CASE GenerateSelected
    <2>1. PICK T \in SUBSET Node : GenerateWaiting(T) \/ GenerateComplete(T) \/ GenerateJobs(T)
      BY <1>6 DEF GenerateSelected
    <2>2. CASE GenerateWaiting(T)
      <3>1. worker' \in Worker
        BY <1>1, <2>2, SyncedType, TypeFinish DEF GenerateWaiting
      <3> QED BY <1>1, <1>2, <2>2, <3>1 DEF TypeOK, GenerateWaiting, Generating, nodeVars
    <2>3. CASE GenerateComplete(T)
      <3>1. worker' \in Worker /\ planQueue' \in BOOLEAN
        BY <1>1, <2>3, SyncedType, TypeFinish DEF GenerateComplete
      <3> QED BY <1>1, <1>2, <2>3, <3>1 DEF TypeOK, GenerateComplete, Generating, nodeVars
    <2>4. CASE GenerateJobs(T)
      <3>1. Return(Synced(T)) => worker' \in Worker /\ planQueue' \in BOOLEAN
        BY <1>1, SyncedType, TypeFinish
      <3>2. worker' \in Worker /\ planQueue' \in BOOLEAN /\ seen' \in Nat
        BY <1>2, <1>3, <2>4, <3>1 DEF GenerateJobs, TypeOK
      <3>3. /\ DOMAIN job' \subseteq Key /\ job' \in [DOMAIN job' -> Job]
            /\ jobQueue' \subseteq DOMAIN job'
        <4>1. CASE UNCHANGED <<job, jobQueue>>
          BY <4>1 DEF TypeOK
        <4>2. CASE \E U \in SUBSET Node : Apply(worker.plan, U)
          BY <1>2, <4>2, ApplyType
        <4> QED BY <2>4, <4>1, <4>2 DEF GenerateJobs
      <3>4. faults' \in 0..MaxFaults
        BY <2>4, FaultsType DEF GenerateJobs
      <3> QED BY <1>1, <3>2, <3>3, <3>4 DEF TypeOK, Generating, nodeVars
    <2> QED BY <2>1, <2>2, <2>3, <2>4
  <1> QED BY <1>4, <1>5, <1>6

\* The removal of a plan, and the write that ends a sync.
LEMMA TypePlanEnds == TypeOK /\ (PlanRemove \/ PlanUpdate) => TypeOK'
  <1> SUFFICES ASSUME TypeOK, PlanRemove \/ PlanUpdate PROVE TypeOK'
    OBVIOUS
  <1>1. CASE PlanRemove
    BY <1>1 DEF TypeOK, PlanRemove, nodeVars, jobVars, envVars
  <1>2. CASE PlanUpdate
    <2>1. worker.out \in Status(HostnameValue) /\ worker.err \in BOOLEAN
      BY <1>2, WorkerParts DEF TypeOK, PlanUpdate
    <2>2. plan' \in Plan /\ faults' \in 0..MaxFaults
      BY <1>2, <2>1, WriteType DEF PlanUpdate
    <2>3. planQueue' \in BOOLEAN /\ worker' \in Worker
      BY <1>2, <2>1 DEF TypeOK, PlanUpdate, Worker
    <2> QED BY <1>2, <2>2, <2>3 DEF TypeOK, PlanUpdate, nodeVars, jobVars
  <1> QED BY <1>1, <1>2

\* A handler's snapshot has the type of what it copies.
LEMMA ReadsType ==
    ASSUME TypeOK, NEW j \in Job
    PROVE  Reads(j) \in [job : Job, plan : Plan]
  <1>1. plan \in Plan
    BY DEF TypeOK
  <1>2. [j EXCEPT !.parallelism = 0] \in Job
    BY DEF Job
  <1>3. Absent \in Condition
    BY DEF Absent, Condition, ConditionStatus, Reason, NoError, Never
  <1> DEFINE st == [plan.status EXCEPT !.validated = Absent, !.resolved = Absent,
                                       !.complete = Absent,
                                       !.applying = IF Unfinished(j) THEN @ ELSE {}]
             q == [plan EXCEPT !.rv = 0,
                               !.status.validated = Absent, !.status.resolved = Absent,
                               !.status.complete = Absent,
                               !.status.applying = IF Unfinished(j) THEN @ ELSE {}]
  <1>4. st \in Status(HostnameValue)
    BY <1>1, <1>3, PlanParts DEF Status
  <1>5. q = [plan EXCEPT !.rv = 0, !.status = st]
    BY <1>1 DEF Plan, Status
  <1> HIDE DEF st
  <1>6. [plan EXCEPT !.rv = 0, !.status = st] \in Plan
    BY <1>1, <1>4 DEF Plan
  <1>7. q \in Plan
    BY <1>5, <1>6
  <1> HIDE DEF q
  <1> QED BY <1>1, <1>2, <1>7 DEF Reads, q

\* A job handler starts with a snapshot, whose plan may turn out to be a later one.
LEMMA TypeJobStarts == \A k : TypeOK /\ (JobGet(k) \/ JobGetLater(k)) => TypeOK'
  <1> SUFFICES ASSUME NEW k, TypeOK, JobGet(k) \/ JobGetLater(k) PROVE TypeOK'
    OBVIOUS
  <1>1. DOMAIN handling' \subseteq Key /\ handling' \in [DOMAIN handling' -> [job : Job, plan : Plan]]
    <2>1. CASE JobGet(k)
      <3>1. k \in DOMAIN job /\ k \in Key /\ job[k] \in Job
        BY <2>1 DEF JobGet, TypeOK
      <3>2. Reads(job[k]) \in [job : Job, plan : Plan]
        BY <3>1, ReadsType
      <3> HIDE DEF Reads
      <3> QED BY <2>1, <3>1, <3>2 DEF JobGet, Put, TypeOK
    <2>2. CASE JobGetLater(k)
      <3>1. k \in DOMAIN handling /\ handling[k].job \in Job
        BY <2>2 DEF JobGetLater, TypeOK
      <3>2. Reads(handling[k].job) \in [job : Job, plan : Plan]
        BY <3>1, ReadsType
      <3>3. handling' = [handling EXCEPT ![k] = Reads(handling[k].job)]
        BY <2>2, <3>1 DEF JobGetLater
      <3> HIDE DEF Reads
      <3> QED BY <3>1, <3>2, <3>3 DEF TypeOK
    <2> QED BY <2>1, <2>2
  <1> QED BY <1>1 DEF TypeOK, JobGet, JobGetLater, planVars, nodeVars, envVars

\* The three ways a handler can leave the jobs.
LEMMA TypeJobEnds ==
    ASSUME TypeOK, NEW k \in DOMAIN handling, Ends(k),
           Deletes(k) \/ Retries(k) \/ UNCHANGED <<job, jobQueue>>
    PROVE  /\ DOMAIN handling' \subseteq Key
           /\ handling' \in [DOMAIN handling' -> [job : Job, plan : Plan]]
           /\ succeeded' = succeeded
           /\ DOMAIN job' \subseteq Key /\ job' \in [DOMAIN job' -> Job]
           /\ jobQueue' \subseteq DOMAIN job'
  <1>1. k \in Key
    BY DEF TypeOK
  <1>2. /\ DOMAIN handling' \subseteq Key
        /\ handling' \in [DOMAIN handling' -> [job : Job, plan : Plan]]
    BY DEF Ends, Remove, TypeOK
  <1>3. Deletes(k) => /\ DOMAIN job' = DOMAIN job \ {k} /\ job' \in [DOMAIN job' -> Job]
                      /\ jobQueue' = jobQueue \ {k}
    BY DEF Deletes, Remove, TypeOK
  <1> QED BY <1>1, <1>2, <1>3 DEF Ends, Retries, TypeOK

\* The cached node that handleJobs changes stays a node.
LEMMA TaggedType ==
    ASSUME TypeOK, NEW k \in DOMAIN handling
    PROVE  k[1] \in Node /\ k[2] \in Hash /\ Tagged(k) \in NodeRecord
  <1>1. k[1] \in Node /\ k[2] \in Hash
    BY DEF TypeOK, Key
  <1>2. nodeCache[k[1]] \in NodeRecord
    BY <1>1 DEF TypeOK
  <1> DEFINE spec == handling[k].plan.spec
             over == DelayOver(handling[k].job, spec)
             version == handling[k].plan.status.version
  <1>3. spec.cordon \in BOOLEAN /\ version \in Version \cup {NoVersion}
    BY PlanParts DEF TypeOK
  <1> HIDE DEF spec, over, version
  <1>4. [nodeCache[k[1]] EXCEPT !.label = IF over THEN k[2] ELSE @,
                                !.post = IF over THEN version ELSE @,
                                !.unschedulable = @ /\ ~spec.cordon] \in NodeRecord
    BY <1>1, <1>2, <1>3 DEF NodeRecord
  <1> QED BY <1>1, <1>4 DEF Tagged, spec, over, version

\* The node that handleJobs writes, and its nodes afterwards, are nodes.
LEMMA TypeUpdateNode ==
    ASSUME TypeOK, NEW k \in DOMAIN handling, UpdateNode(k, k[1], Tagged(k))
    PROVE  /\ node' \in [Node -> NodeRecord] /\ nodeCache' \in [Node -> NodeRecord]
           /\ nodeStale' \in [Node -> BOOLEAN]
           /\ Deletes(k) \/ Retries(k) \/ UNCHANGED <<job, jobQueue>>
           /\ faults' \in 0..MaxFaults
  <1>1. k[1] \in Node /\ Tagged(k) \in NodeRecord
    BY TaggedType
  <1>2. faults' \in 0..MaxFaults
    BY FaultsType DEF UpdateNode
  <1>3. NodeWritten(k[1], Tagged(k)) =>
          node' \in [Node -> NodeRecord] /\ nodeStale' \in [Node -> BOOLEAN]
    BY <1>1 DEF NodeWritten, TypeOK
  <1> QED BY <1>1, <1>2, <1>3 DEF UpdateNode, EnqueueOrDelete, TypeOK

\* A job handler ends: it writes plan or node, deletes the job, or is run again.
LEMMA TypeJobAct == \A k : TypeOK /\ JobAct(k) => TypeOK'
  <1> SUFFICES ASSUME NEW k, TypeOK, JobAct(k) PROVE TypeOK'
    OBVIOUS
  <1> USE DEF Handled, Belongs
  <1>1. k \in DOMAIN handling /\ Ends(k)
    BY DEF JobAct, JobOrphaned, JobNodeGone, JobFailed, JobComplete, JobOutOfTurn, JobInTurn
  <1>2. /\ UNCHANGED <<planCache, worker, seen, secret, inWindow, edits, touched>>
        /\ planQueue' \in BOOLEAN
    BY DEF JobAct, JobOrphaned, JobNodeGone, JobFailed, JobComplete, JobOutOfTurn, JobInTurn,
           QueuesPlan, Ends, planVars, nodeVars, TypeOK
  <1>3. Deletes(k) \/ Retries(k) \/ UNCHANGED <<job, jobQueue>>
    BY <1>1, TypeUpdateNode
       DEF JobAct, JobOrphaned, JobNodeGone, JobFailed, JobComplete, JobOutOfTurn, JobInTurn,
           EnqueueOrDelete, DeleteJob
  <1>4. plan' \in Plan /\ faults' \in 0..MaxFaults
    <2>1. CASE JobFailed(k)
      <3> DEFINE p == handling[k].plan
                 st == [p.status EXCEPT !.complete = SetError(@, "JobFailed", k[1], Now)]
      <3>1. p \in Plan /\ k[1] \in Node
        BY <1>1 DEF TypeOK, Key
      <3>2. st \in Status(HostnameValue)
        BY <3>1, PlanParts, CompleteWrites, StatusWrites
      <3>3. Writes(p, st) \/ WriteFails(p, st)
        BY <2>1 DEF JobFailed
      <3> HIDE DEF st, p
      <3> QED BY <3>2, <3>3, WriteType
    <2>2. CASE JobComplete(k)
      BY <1>1, <2>2, TypeUpdateNode DEF JobComplete, TypeOK
    <2>3. CASE JobOrphaned(k) \/ JobNodeGone(k) \/ JobOutOfTurn(k) \/ JobInTurn(k)
      <3>1. Fault \/ UNCHANGED faults
        BY <2>3 DEF JobOrphaned, JobNodeGone, JobOutOfTurn, JobInTurn, DeleteJob
      <3>2. plan' = plan
        BY <2>3 DEF JobOrphaned, JobNodeGone, JobOutOfTurn, JobInTurn, planVars
      <3> QED BY <3>1, <3>2, FaultsType DEF TypeOK
    <2> QED BY <2>1, <2>2, <2>3 DEF JobAct
  <1>5. /\ node' \in [Node -> NodeRecord] /\ nodeCache' \in [Node -> NodeRecord]
        /\ nodeStale' \in [Node -> BOOLEAN]
    <2>1. CASE JobComplete(k)
      BY <1>1, <2>1, TypeUpdateNode DEF JobComplete
    <2>2. CASE ~JobComplete(k)
      BY <2>2 DEF JobAct, JobOrphaned, JobNodeGone, JobFailed, JobOutOfTurn, JobInTurn,
             nodeVars, TypeOK
    <2> QED BY <2>1, <2>2
  <1>6. /\ DOMAIN handling' \subseteq Key
        /\ handling' \in [DOMAIN handling' -> [job : Job, plan : Plan]]
        /\ succeeded' = succeeded
        /\ DOMAIN job' \subseteq Key /\ job' \in [DOMAIN job' -> Job]
        /\ jobQueue' \subseteq DOMAIN job'
    BY <1>1, <1>3, TypeJobEnds
  <1> QED BY <1>2, <1>4, <1>5, <1>6 DEF TypeOK

\* The informers' events, the resync, a restart, and other writers of a node.
LEMMA TypeWatches ==
    TypeOK /\ (PlanWatch \/ Resync \/ Restart \/ \E n \in Node : NodeWatch(n) \/ Heartbeat(n))
        => TypeOK'
  <1> SUFFICES ASSUME TypeOK,
                      PlanWatch \/ Resync \/ Restart
                        \/ \E n \in Node : NodeWatch(n) \/ Heartbeat(n)
               PROVE  TypeOK'
    OBVIOUS
  <1>1. plan.exists \in BOOLEAN /\ planCache.exists \in BOOLEAN
    BY PlanParts DEF TypeOK
  <1>2. CASE PlanWatch
    BY <1>2 DEF TypeOK, PlanWatch, nodeVars, jobVars, envVars
  <1>3. CASE Resync
    BY <1>1, <1>3 DEF TypeOK, Resync, nodeVars, envVars
  <1>4. CASE Restart
    <2>1. DOMAIN handling' = {} /\ handling' \in [DOMAIN handling' -> [job : Job, plan : Plan]]
      BY <1>4 DEF Restart, Nothing
    <2>2. faults' \in 0..MaxFaults
      BY <1>4, FaultsType DEF Restart
    <2> QED BY <1>1, <1>4, <2>1, <2>2 DEF TypeOK, Restart, Worker
  <1>5. ASSUME NEW n \in Node, NodeWatch(n) PROVE TypeOK'
    BY <1>1, <1>5 DEF TypeOK, NodeWatch, jobVars, envVars
  <1>6. ASSUME NEW n \in Node, Heartbeat(n) PROVE TypeOK'
    <2>1. faults' \in 0..MaxFaults
      BY <1>6, FaultsType DEF Heartbeat
    <2> QED BY <1>6, <2>1 DEF TypeOK, Heartbeat, planVars, jobVars
  <1> QED BY <1>2, <1>3, <1>4, <1>5, <1>6

\* The jobs of the cluster's steps: an existing job is changed, and queued, or deleted.
LEMMA TypeCluster ==
    \A k : TypeOK /\ (PodStep(k) \/ JobFails(k) \/ TTLDelete(k)) => TypeOK'
  <1> SUFFICES ASSUME NEW k, TypeOK, PodStep(k) \/ JobFails(k) \/ TTLDelete(k) PROVE TypeOK'
    OBVIOUS
  <1>1. ClusterStep /\ k \in DOMAIN job
    BY DEF PodStep, PodStart, JobSucceeds, Elapse, JobFails, TTLDelete
  <1>2. job[k] \in Job /\ k \in Key /\ k[1] \in Node
    BY <1>1 DEF TypeOK, Key
  <1>3. ASSUME NEW s \in {"active", "running", "complete", "failed"}, 
               job' = [job EXCEPT ![k].state = s], jobQueue' = jobQueue \cup {k}
        PROVE  /\ DOMAIN job' \subseteq Key /\ job' \in [DOMAIN job' -> Job]
               /\ jobQueue' \subseteq DOMAIN job'
    <2>1. [job[k] EXCEPT !.state = s] \in Job
      BY <1>2 DEF Job
    <2>2. job' = [job EXCEPT ![k] = [job[k] EXCEPT !.state = s]]
      BY <1>1, <1>3 DEF TypeOK
    <2> QED BY <1>1, <1>3, <2>1, <2>2 DEF TypeOK
  <1>4. CASE PodStart(k)
    <2>1. node' \in [Node -> NodeRecord]
      <3> DEFINE c == job[k].template.cordon /\ ~node[k[1]].unschedulable
      <3>1. node' = [node EXCEPT ![k[1]] =
                       [node[k[1]] EXCEPT !.unschedulable = node[k[1]].unschedulable \/ c]]
        BY <1>2, <1>4 DEF PodStart, TypeOK
      <3>2. ASSUME NEW r \in NodeRecord, NEW d \in BOOLEAN
            PROVE  [r EXCEPT !.unschedulable = r.unschedulable \/ d] \in NodeRecord
        BY DEF NodeRecord
      <3>3. c \in BOOLEAN /\ node[k[1]] \in NodeRecord
        BY <1>2 DEF TypeOK
      <3> HIDE DEF c
      <3> QED BY <1>2, <3>1, <3>2, <3>3 DEF TypeOK
    <2>2. nodeStale' \in [Node -> BOOLEAN]
      BY <1>2, <1>4 DEF PodStart, TypeOK
    <2> QED BY <1>1, <1>3, <1>4, <2>1, <2>2 DEF PodStart, ClusterStep, planVars, TypeOK
  <1>5. CASE JobSucceeds(k)
    <2>1. job[k].template.version \in Version \cup {NoVersion}
      BY <1>2 DEF Job, Template
    <2> QED BY <1>1, <1>2, <1>3, <1>5, <2>1
            DEF JobSucceeds, ClusterStep, planVars, nodeVars, TypeOK
  <1>6. CASE JobFails(k)
    <2>1. faults' \in 0..MaxFaults
      BY <1>6, FaultsType DEF JobFails
    <2> QED BY <1>1, <1>3, <1>6, <2>1 DEF JobFails, ClusterStep, planVars, nodeVars, TypeOK
  <1>7. CASE Elapse(k)
    <2>1. PICK a : job' = [job EXCEPT ![k].age = a] /\ a = IF plan.spec.delay THEN job[k].age + 1 ELSE 2
      BY <1>2, <1>7 DEF Elapse
    <2>2. a \in 0..2
      BY <1>2, <1>7, <2>1 DEF Elapse, Job
    <2>3. [job[k] EXCEPT !.age = a] \in Job
      BY <1>2, <2>2 DEF Job
    <2>4. job' = [job EXCEPT ![k] = [job[k] EXCEPT !.age = a]]
      BY <1>1, <2>1 DEF TypeOK
    <2> QED BY <1>1, <1>7, <2>3, <2>4 DEF Elapse, ClusterStep, planVars, nodeVars, TypeOK
  <1>8. CASE TTLDelete(k)
    <2>1. /\ DOMAIN job' = DOMAIN job \ {k} /\ job' \in [DOMAIN job' -> Job]
          /\ jobQueue' = jobQueue \ {k}
      BY <1>8 DEF TTLDelete, Deletes, Remove, TypeOK
    <2> QED BY <1>1, <1>8, <2>1 DEF TTLDelete, ClusterStep, planVars, nodeVars, TypeOK
  <1> QED BY <1>4, <1>5, <1>6, <1>7, <1>8 DEF PodStep

\* The edits of plan, nodes and secret, and the window.
LEMMA TypeUsers ==
    TypeOK /\ (EditPlan \/ DeletePlan \/ CreatePlan \/ EditSecret \/ WindowOpens \/ WindowCloses
               \/ \E n \in Node : Relabel(n))
        => TypeOK'
  <1> SUFFICES ASSUME TypeOK,
                      EditPlan \/ DeletePlan \/ CreatePlan \/ EditSecret
                        \/ WindowOpens \/ WindowCloses \/ \E n \in Node : Relabel(n)
               PROVE  TypeOK'
    OBVIOUS
  <1>1. Edit => edits' \in 0..MaxEdits
    BY BoundsAssumption DEF Edit, TypeOK
  <1>2. plan.rv + 1 \in Nat /\ NewStatus \in Status(HostnameValue)
    BY PlanParts, NewStatusType DEF TypeOK
  <1>3. CASE EditPlan
    <2>1. PICK s \in Specs : plan' = [plan EXCEPT !.rv = plan.rv + 1, !.spec = s]
      BY <1>3 DEF EditPlan, TypeOK, Plan
    <2>2. plan' \in Plan
      BY <1>2, <2>1 DEF TypeOK, Plan
    <2> QED BY <1>1, <1>3, <2>2 DEF TypeOK, EditPlan, nodeVars, jobVars
  <1>4. CASE DeletePlan
    <2>1. plan' = [plan EXCEPT !.rv = plan.rv + 1, !.exists = FALSE]
      BY <1>4 DEF DeletePlan, TypeOK, Plan
    <2>2. plan' \in Plan
      BY <1>2, <2>1 DEF TypeOK, Plan
    <2> QED BY <1>1, <1>4, <2>2 DEF TypeOK, DeletePlan, nodeVars, jobVars
  <1>5. CASE CreatePlan
    <2>1. plan' \in Plan
      BY <1>2, <1>5 DEF TypeOK, CreatePlan, Plan
    <2> QED BY <1>5, <2>1 DEF TypeOK, CreatePlan, nodeVars, jobVars, envVars
  <1>6. CASE EditSecret
    BY <1>1, <1>6 DEF TypeOK, EditSecret, nodeVars, jobVars
  <1>7. CASE WindowOpens
    BY <1>7 DEF TypeOK, WindowOpens, planVars, nodeVars, jobVars
  <1>8. CASE WindowCloses
    BY <1>1, <1>8 DEF TypeOK, WindowCloses, planVars, nodeVars, jobVars
  <1>9. ASSUME NEW n \in Node, Relabel(n) PROVE TypeOK'
    <2>1. node' \in [Node -> NodeRecord]
      <3>1. CASE node' = [node EXCEPT ![n] = [NewNode EXCEPT !.mode = "gone"]]
        BY <3>1 DEF TypeOK, NewNode, NodeRecord
      <3>2. ASSUME NEW mode \in {"in", "out"}, NEW label \in {node[n].label, NoLabel, Disabled},
                   node' = [node EXCEPT ![n] = [@ EXCEPT !.mode = mode, !.label = label]]
            PROVE  node' \in [Node -> NodeRecord]
        <4>1. node[n] \in NodeRecord /\ label \in Hash \cup {NoLabel, Disabled}
          BY DEF TypeOK, NodeRecord
        <4>2. [node[n] EXCEPT !.mode = mode, !.label = label] \in NodeRecord
          BY <4>1 DEF NodeRecord
        <4> QED BY <3>2, <4>2 DEF TypeOK
      <3> QED BY <1>9, <3>1, <3>2 DEF Relabel
    <2>2. touched' \subseteq UserNodes /\ nodeStale' \in [Node -> BOOLEAN]
      BY <1>9 DEF Relabel, TypeOK
    <2> QED BY <1>1, <1>9, <2>1, <2>2 DEF TypeOK, Relabel, planVars, jobVars
  <1> QED BY <1>3, <1>4, <1>5, <1>6, <1>7, <1>8, <1>9

\* Every step keeps the types.
LEMMA TypeStep == TypeOK /\ [Next]_vars => TypeOK'
  <1> SUFFICES ASSUME TypeOK, [Next]_vars PROVE TypeOK'
    OBVIOUS
  <1>1. CASE PlanStep
    BY <1>1, TypePlanSync, TypeGenerate, TypePlanEnds DEF PlanStep
  <1>2. ASSUME NEW k \in Keys, JobStep(k) \/ PodStep(k) \/ JobFails(k) \/ TTLDelete(k)
        PROVE  TypeOK'
    BY <1>2, TypeJobStarts, TypeJobAct, TypeCluster DEF JobStep
  <1>3. CASE PlanWatch \/ Resync \/ Restart \/ \E n \in Node : NodeWatch(n) \/ Heartbeat(n)
    BY <1>3, TypeWatches
  <1>4. CASE EditPlan \/ DeletePlan \/ CreatePlan \/ EditSecret \/ WindowOpens \/ WindowCloses
             \/ \E n \in Node : Relabel(n)
    BY <1>4, TypeUsers
  <1>5. CASE UNCHANGED vars
    BY <1>5 DEF vars, planVars, nodeVars, jobVars, envVars, TypeOK
  <1> QED BY <1>1, <1>2, <1>3, <1>4, <1>5 DEF Next

\* Type correctness of the whole machine: among the rest, the hash and the version in
\* the status come from the digest and from the munged version, job keys name nodes
\* and hashes, and no work queue holds the key of a job that is gone.
THEOREM TypeCorrect == Spec => []TypeOK
  <1> QED BY TypeInit, TypeStep, PTL DEF Spec
===============================================================================
