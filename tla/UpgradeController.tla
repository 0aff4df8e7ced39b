--------------------------- MODULE UpgradeController --------------------------
(***************************************************************************)
(* One Plan, the nodes it selects and the jobs that apply it, driven by    *)
(* the handlers of the system-upgrade-controller (pkg/upgrade) and by the  *)
(* cluster they run in.                                                    *)
(*                                                                         *)
(* The controller reads plans, nodes and secrets through caches that trail *)
(* the API server, writes with optimistic concurrency (a write names the   *)
(* resourceVersion it is based on and fails when that is not current), and *)
(* runs the handlers of different keys in parallel.  Its work queues hold  *)
(* a key at most once and never run one key twice at the same time.        *)
(*                                                                         *)
(* A queued key may wait for any length of time.  A key whose object is    *)
(* gone is dropped: all that its handler does is return.                   *)
(***************************************************************************)
EXTENDS PlanStatus, NodeSelection

CONSTANTS
    Specs,          \* the plan specs a user may write
    InitialSpecs,   \* the ones the plan may have at first
    PlanReplaced,   \* may a user delete the plan and create it again?
    UserNodes,      \* nodes whose labels and membership a user may change
    BlockedNodes,   \* Windows nodes, when no Windows kubectl image is configured
    Threads,        \* workers of the job controller
    LateHandlers,   \* may a job's handler run only after the job's TTL?
    SecretVanishes, \* may the secret disappear between the two reads of one sync?
    MaxEdits,       \* bound: user edits of plan, nodes and secret
    MaxFaults,      \* bound: failed jobs and calls, restarts, writes of other node clients
    MaxEvents       \* bound: edits and faults together

ASSUME SpecsAssumption == Specs \subseteq PlanSpec /\ InitialSpecs \subseteq Specs

ASSUME BoundsAssumption ==
    /\ Threads \in Nat /\ MaxEdits \in Nat /\ MaxFaults \in Nat /\ MaxEvents \in Nat
    /\ PlanReplaced \in BOOLEAN /\ LateHandlers \in BOOLEAN /\ SecretVanishes \in BOOLEAN
    /\ UserNodes \subseteq Node /\ BlockedNodes \subseteq Node

ASSUME OrderAssumption == \A h \in Hash, n \in Node : NodeOrder(h, n) \in Int

ASSUME MessageAssumption ==
    {"Invalid", "SecretMissing", "Unresolvable", "NotReady", "OutsideWindow"} \cup Node
        \subseteq Message

VARIABLES
    plan,       \* the Plan at the API server
    planCache,  \* the Plan in the informer's cache
    planQueue,  \* is the plan's key in its work queue?
    worker,     \* the plan controller's worker, between the steps of one sync
    seen,       \* the generating handler's record of the last applied resourceVersion
    node,       \* the Nodes at the API server
    nodeCache,  \* the Nodes in the informer's cache
    nodeStale,  \* is a node's resourceVersion in the cache behind the API server's?
    secret,     \* the Secret in the informer's cache
    job,        \* the Jobs at the API server, by node and hash (the name of a job)
    jobQueue,   \* the job keys in the job controller's work queue
    handling,   \* what each running job handler has read
    inWindow,   \* is the time of day inside the plan's window?
    succeeded,  \* history: the node, hash and version of every job that succeeded
    touched,    \* history: the nodes a user changed
    edits, faults

planVars == <<plan, planCache, planQueue, worker, seen>>
nodeVars == <<node, nodeCache, nodeStale, touched>>
jobVars == <<job, jobQueue, handling, succeeded>>
envVars == <<secret, inWindow, edits, faults>>
vars == <<planVars, nodeVars, jobVars, envVars>>

-------------------------------------------------------------------------------
(* Types. *)

Plan == [exists : BOOLEAN, rv : Nat, spec : Specs, status : Status(HostnameValue)]

\* Between the status handler's write and the generating handler the worker holds
\* the object the first one returned; before the last write, the status to write.
Idle == [pc |-> "idle"]

Worker == {Idle} \cup [pc : {"generate", "update"}, plan : Plan,
                       out : Status(HostnameValue), err : BOOLEAN]

NodeRecord == [mode : {"in", "out", "gone"},            \* does the selector match it?
               label : Hash \cup {NoLabel, Disabled},   \* the plan's label
               post : Version \cup {NoVersion},         \* a label $(LATEST_VERSION)
               unschedulable : BOOLEAN]

NewNode == [mode |-> "in", label |-> NoLabel, post |-> NoVersion, unschedulable |-> FALSE]

Template == [version : Version \cup {NoVersion}, upgrade : Upgrade, cordon : BOOLEAN]

\* A paused job has parallelism 0.  An active job has no pod that started; age
\* counts what has passed since a job finished: nothing, the post-complete delay,
\* the TTL (which job.New makes the longer of the two).
Job == [state : {"active", "running", "complete", "failed"},
        parallelism : {0, 1}, template : Template, age : 0..2]

Key == Node \X Hash

\* Finite maps: the empty one, one with an entry set, one without a key.
Nothing == [k \in {} |-> k]
Put(f, k, v) == [x \in DOMAIN f \cup {k} |-> IF x = k THEN v ELSE f[x]]
Remove(f, k) == [x \in DOMAIN f \ {k} |-> f[x]]

\* The clock plays no part here: it matters to channel polling only.
Now == 1

TypeOK ==
    /\ plan \in Plan /\ planCache \in Plan
    /\ planQueue \in BOOLEAN
    /\ worker \in Worker
    /\ seen \in Nat
    /\ node \in [Node -> NodeRecord] /\ nodeCache \in [Node -> NodeRecord]
    /\ nodeStale \in [Node -> BOOLEAN]
    /\ secret \in Secret \cup {Missing}
    /\ DOMAIN job \subseteq Key /\ job \in [DOMAIN job -> Job]
    /\ jobQueue \subseteq DOMAIN job
    /\ DOMAIN handling \subseteq Key
    /\ handling \in [DOMAIN handling -> [job : Job, plan : Plan]]
    /\ inWindow \in BOOLEAN
    /\ succeeded \subseteq Key \X (Version \cup {NoVersion})
    /\ touched \subseteq UserNodes
    /\ edits \in 0..MaxEdits /\ faults \in 0..MaxFaults

Init ==
    /\ \E s \in InitialSpecs : plan = [exists |-> TRUE, rv |-> 1, spec |-> s, status |-> NewStatus]
    /\ planCache = plan
    /\ planQueue = TRUE
    /\ worker = Idle
    /\ seen = 0
    /\ node = [n \in Node |-> NewNode]
    /\ nodeCache = node
    /\ nodeStale = [n \in Node |-> FALSE]
    /\ secret \in Secret \cup {Missing}
    /\ job = Nothing /\ jobQueue = {} /\ handling = Nothing
    /\ inWindow = ~plan.spec.window
    /\ succeeded = {} /\ touched = {}
    /\ edits = 0 /\ faults = 0

-------------------------------------------------------------------------------
(* The plan controller. *)

\* A write of p's status succeeds when p is based on the current object; writing an
\* equal status leaves the resourceVersion alone.  Otherwise it is refused.  It may also
\* fail, as any call to the API server, before it takes effect, or after, when only the
\* answer is lost.
Current(p) == plan.exists /\ plan.rv = p.rv

WithStatus(status) ==
    IF plan.status = status THEN plan ELSE [plan EXCEPT !.rv = @ + 1, !.status = status]

\* Edits and faults happen as far as the bounds allow.
Edit == edits < MaxEdits /\ edits + faults < MaxEvents /\ edits' = edits + 1

Fault == faults < MaxFaults /\ edits + faults < MaxEvents /\ faults' = faults + 1

Writes(p, status) == Current(p) /\ plan' = WithStatus(status) /\ UNCHANGED faults

WriteFails(p, status) ==
    \/ ~Current(p) /\ UNCHANGED <<plan, faults>>
    \/ Current(p) /\ Fault /\ plan' \in {plan, WithStatus(status)}

\* The status handler and its write: what planStatusHandler.sync returns goes to the
\* generating handler, after an error too.  Then it is the object as the status handler
\* left it, with the resourceVersion it had.
PlanSync ==
    /\ worker.pc = "idle" /\ planQueue /\ planCache.exists
    /\ planQueue' = FALSE
    /\ \E atDigest \in {secret} \cup (IF SecretVanishes THEN {Missing} ELSE {}) :
       \E out \in {StatusHandler(planCache.spec, planCache.status, secret, atDigest, NoAnswer, Now)} :
         LET changed == ~out.err /\ out.status # planCache.status
             kept == [planCache EXCEPT !.status = out.status]
             Continue(p, err) ==
                 worker' = [pc |-> "generate", plan |-> p, out |-> out.status, err |-> err]
         IN  /\ secret' = atDigest
             /\ \/ ~changed /\ UNCHANGED <<plan, faults>> /\ Continue(kept, out.err)
                \/ changed /\ Writes(planCache, out.status) /\ Continue(plan', FALSE)
                \/ changed /\ WriteFails(planCache, out.status) /\ Continue(kept, TRUE)
    /\ UNCHANGED <<planCache, seen, nodeVars, jobVars, inWindow, edits>>

\* The plan is gone: both handlers return, and Remove forgets what was applied.  Its
\* apply deletes nothing, because the controller's apply has WithNoDelete.
PlanRemove ==
    /\ worker.pc = "idle" /\ planQueue /\ ~planCache.exists
    /\ planQueue' = FALSE /\ seen' = 0
    /\ UNCHANGED <<plan, planCache, worker, nodeVars, jobVars, envVars>>

\* The generating handler returned status out, or an error; the rest of sync writes
\* out if it differs from what the object had, and an error requeues the key.
Finish(out) ==
    worker' = IF out = worker.plan.status THEN Idle
              ELSE [worker EXCEPT !.pc = "update", !.out = out]

Return(out) ==
    /\ Finish(out)
    /\ planQueue' = (planQueue \/ (worker.err /\ out = worker.plan.status))

Fail == worker' = Idle /\ planQueue' = TRUE

Ready == IsTrue(worker.plan.status.validated) /\ IsTrue(worker.plan.status.resolved)

\* Mutant of Selected: one node too many.
SelectedOneMore(T) ==
    SelectConcurrentNodes(nodeCache, worker.plan.status.hash, worker.plan.status.applying,
                          worker.plan.spec.concurrency + 1, T)

Selected(T) ==
    SelectConcurrentNodes(nodeCache, worker.plan.status.hash, worker.plan.status.applying,
                          worker.plan.spec.concurrency, T)

Generating ==
    /\ worker.pc = "generate"
    /\ UNCHANGED <<plan, planCache, nodeVars, handling, succeeded, secret, inWindow, edits>>

GenerateNotReady ==
    /\ Generating /\ ~Ready
    /\ seen' = worker.plan.rv
    /\ Return([worker.plan.status EXCEPT !.complete = SetError(@, "NotReady", "NotReady", Now)])
    /\ UNCHANGED <<job, jobQueue, faults>>

\* The selector does not parse, or a selected node cannot have a job: an error, so
\* nothing is applied and the conditions set on the way are dropped.
GenerateRejected ==
    /\ Generating /\ Ready
    /\ \/ ~worker.plan.spec.selectable
       \/ \E T \in SUBSET Node : Selected(T) /\ T \cap BlockedNodes # {}
    /\ Fail
    /\ UNCHANGED <<seen, job, jobQueue, faults>>

\* Mutant of MustWait: the time of day is not looked at.
MustWaitAlways == worker.plan.spec.window /\ worker.plan.status.applying = {}

\* Nothing is started outside the window; what is in progress goes on.
MustWait == worker.plan.spec.window /\ worker.plan.status.applying = {} /\ ~inWindow

\* There is something to apply, but not now.  The key is queued again.
GenerateWaiting(T) ==
    /\ T # {} /\ MustWait
    /\ seen' = worker.plan.rv
    /\ Finish([worker.plan.status EXCEPT !.complete = SetError(@, "Waiting", "OutsideWindow", Now)])
    /\ planQueue' = TRUE
    /\ UNCHANGED <<job, jobQueue, faults>>

\* Mutant of GenerateComplete: a plan with no new node to start on is marked.
GenerateCompleteEarly(T) ==
    /\ {Hostname[n] : n \in T} \subseteq worker.plan.status.applying
    /\ seen' = worker.plan.rv
    /\ Return([worker.plan.status EXCEPT !.applying = {},
                                         !.complete = SetError(@, "Complete", NoError, Now)])
    /\ UNCHANGED <<job, jobQueue, faults>>

GenerateComplete(T) ==
    /\ T = {}
    /\ seen' = worker.plan.rv
    /\ Return([worker.plan.status EXCEPT !.applying = {},
                                         !.complete = SetError(@, "Complete", NoError, Now)])
    /\ UNCHANGED <<job, jobQueue, faults>>

JobTemplate(p) ==
    [version |-> p.status.version, upgrade |-> p.spec.upgrade, cordon |-> p.spec.cordon]

\* Mutant of NewJob: a job is never paused.
NewJobUnpaused(p, n) ==
    [state |-> "active", parallelism |-> 1, template |-> JobTemplate(p), age |-> 0]

\* The job of node n: paused until the node is registered as being applied on.
NewJob(p, n) ==
    [state |-> "active",
     parallelism |-> IF Hostname[n] \in p.status.applying THEN 1 ELSE 0,
     template |-> JobTemplate(p),
     age |-> 0]

\* Applying the jobs of the nodes in T creates the ones that are missing, sets the
\* parallelism of the ones that exist (pausing a job stops its pod), and deletes the
\* ones whose pod template differs, which is an error: a later sync creates them anew.
Differs(p, n) == job[<<n, p.status.hash>>].template # JobTemplate(p)

ReplacedJobs(p, T) ==
    {k \in DOMAIN job : k[1] \in T /\ k[2] = p.status.hash /\ Differs(p, k[1])}

Patched(j, parallelism) ==
    [j EXCEPT !.parallelism = parallelism,
              !.state = IF @ = "running" /\ parallelism = 0 THEN "active" ELSE @]

Apply(p, T) ==
    LET keys == {<<n, p.status.hash>> : n \in T}
    IN  /\ job' = [k \in (DOMAIN job \cup keys) \ ReplacedJobs(p, T) |->
                      IF k \notin keys THEN job[k]
                      ELSE IF k \in DOMAIN job
                        THEN Patched(job[k], NewJob(p, k[1]).parallelism)
                      ELSE NewJob(p, k[1])]
        /\ jobQueue' = (jobQueue \ ReplacedJobs(p, T)) \cup
                {k \in keys \ ReplacedJobs(p, T) :
                   k \in DOMAIN job => job[k].parallelism # NewJob(p, k[1]).parallelism}

\* Mutants of Synced: the nodes are not registered; the status is set anew although the
\* nodes are the same.
SyncedNothing(T) == [worker.plan.status EXCEPT !.complete = Reset(@, "SyncJob", Now)]

SyncedAlways(T) ==
    [worker.plan.status EXCEPT !.applying = {Hostname[n] : n \in T},
                               !.complete = Reset(@, "SyncJob", Now)]

Synced(T) ==
    LET hostnames == {Hostname[n] : n \in T}
        status == worker.plan.status
    IN  IF status.applying = hostnames THEN status
        ELSE [status EXCEPT !.applying = hostnames, !.complete = Reset(@, "SyncJob", Now)]

\* A resourceVersion that was applied before is not applied again.
GenerateJobs(T) ==
    /\ T # {} /\ ~MustWait
    /\ \/ /\ seen = worker.plan.rv
          /\ Return(Synced(T))
          /\ UNCHANGED <<seen, job, jobQueue, faults>>
       \/ /\ seen # worker.plan.rv
          /\ Apply(worker.plan, T)
          /\ IF ReplacedJobs(worker.plan, T) = {}
               THEN seen' = worker.plan.rv /\ Return(Synced(T))
               ELSE seen' = seen /\ Fail
          /\ UNCHANGED faults
       \* a call to the API server fails, after some of the jobs were applied
       \/ /\ seen # worker.plan.rv
          /\ Fault
          /\ \E done \in SUBSET T : Apply(worker.plan, done)
          /\ Fail
          /\ UNCHANGED seen

\* The generating handler, for a plan that is ready and a selection that is valid.
GenerateSelected ==
    /\ Generating /\ Ready /\ worker.plan.spec.selectable
    /\ \E T \in SUBSET Node :
         /\ Selected(T) /\ T \cap BlockedNodes = {}
         /\ GenerateWaiting(T) \/ GenerateComplete(T) \/ GenerateJobs(T)

\* The write that ends a sync; when it fails the key is queued again.
PlanUpdate ==
    /\ worker.pc = "update" /\ worker' = Idle
    /\ \/ Writes(worker.plan, worker.out) /\ planQueue' = (planQueue \/ worker.err)
       \/ WriteFails(worker.plan, worker.out) /\ planQueue' = TRUE
    /\ UNCHANGED <<planCache, seen, nodeVars, jobVars, secret, inWindow, edits>>

-------------------------------------------------------------------------------
(* The job controller. *)

IsFailed(j) == j.state = "failed"

\* Mutant of IsComplete: a job that did not fail counts as complete.
IsCompleteUnlessFailed(j) == j.state # "failed"

IsComplete(j) == j.state = "complete"

Unfinished(j) == ~IsFailed(j) /\ ~IsComplete(j)

\* Mutants of Orphaned: the version of the job, or that the plan is gone, is not looked at.
OrphanedUnlessGone(j, p) == ~p.exists

OrphanedByVersion(j, p) == j.template.version # p.status.version

\* The job belongs to another version of the plan, or the plan is gone.
Orphaned(j, p) == ~p.exists \/ j.template.version # p.status.version

\* The handler looks for the node's name in the list of hostnames being applied on, and
\* does so by binary search.
InTurn(n, p) ==
    LET list == ApplyingList(p.status.applying)
        i == SearchStrings(list, n)
    IN  i < Len(list) /\ list[i + 1] = n

\* What the rest of the handler depends on: a failed job's handler writes the plan
\* back; any other one does not look at the plan's conditions again.
Reads(j) ==
    IF IsFailed(j) THEN [job |-> j, plan |-> plan]
    ELSE [job |-> [j EXCEPT !.parallelism = 0],
          plan |-> [plan EXCEPT !.rv = 0,
                                !.status.validated = Absent, !.status.resolved = Absent,
                                !.status.complete = Absent,
                                !.status.applying = IF Unfinished(j) THEN @ ELSE {}]]

\* The handler of a job starts: it has the job from the cache and gets the plan from
\* the API server.  What it does next is based on what it read.
JobGet(k) ==
    /\ k \in jobQueue \ DOMAIN handling
    /\ Cardinality(DOMAIN handling) < Threads
    /\ jobQueue' = jobQueue \ {k}
    /\ handling' = Put(handling, k, Reads(job[k]))
    /\ UNCHANGED <<job, succeeded, planVars, nodeVars, envVars>>

\* The plan may be newer than the job: the handler gets it later, the cache is behind.
JobGetLater(k) ==
    /\ k \in DOMAIN handling /\ handling[k] # Reads(handling[k].job)
    /\ handling' = [handling EXCEPT ![k] = Reads(@.job)]
    /\ UNCHANGED <<job, jobQueue, succeeded, planVars, nodeVars, envVars>>

\* The handler of k ends and, but for jobs of a plan or version that is gone, queues
\* the plan.  A handler that returns an error is run again.
Ends(k) ==
    /\ handling' = Remove(handling, k)
    /\ UNCHANGED <<succeeded, secret, inWindow, edits>>

QueuesPlan == planQueue' = TRUE /\ UNCHANGED <<planCache, worker, seen>>

Deletes(k) == job' = Remove(job, k) /\ jobQueue' = jobQueue \ {k}

Retries(k) == jobQueue' = jobQueue \cup ({k} \cap DOMAIN job) /\ UNCHANGED job

\* A delete that fails is tried again.
DeleteJob(k) ==
    \/ Deletes(k) /\ UNCHANGED faults
    \/ Fault /\ Retries(k)

\* Before the end of the TTL the key is to be queued at that time: see Elapse.
EnqueueOrDelete(k) == IF handling[k].job.age < 2 THEN UNCHANGED <<job, jobQueue>> ELSE Deletes(k)

JobOrphaned(k) ==
    /\ k \in DOMAIN handling /\ Orphaned(handling[k].job, handling[k].plan)
    /\ Ends(k) /\ DeleteJob(k)
    /\ UNCHANGED <<planVars, nodeVars>>

\* The job belongs to this version of the plan.
Belongs(k) ==
    /\ k \in DOMAIN handling /\ ~Orphaned(handling[k].job, handling[k].plan)
    /\ Ends(k) /\ QueuesPlan

JobNodeGone(k) ==
    /\ Belongs(k) /\ nodeCache[k[1]].mode = "gone"
    /\ DeleteJob(k)
    /\ UNCHANGED <<plan, nodeVars>>

\* The job belongs to this version of the plan and its node is in the cache.
Handled(k) == Belongs(k) /\ nodeCache[k[1]].mode # "gone"

JobFailed(k) ==
    /\ Handled(k) /\ IsFailed(handling[k].job)
    /\ LET p == handling[k].plan
           status == [p.status EXCEPT !.complete = SetError(@, "JobFailed", k[1], Now)]
       IN  \/ Writes(p, status) /\ EnqueueOrDelete(k)
           \/ WriteFails(p, status) /\ Retries(k)
    /\ UNCHANGED nodeVars

\* Mutant of DelayOver: the delay is ignored.
DelayIgnored(j, spec) == TRUE

DelayOver(j, spec) == ~spec.delay \/ j.age >= 1

\* The cached node with the job's hash as its plan label and the labels that are to be
\* set on completion, unless the delay still runs, and schedulable again if this plan is
\* one that cordons.
Tagged(k) ==
    LET spec == handling[k].plan.spec
        over == DelayOver(handling[k].job, spec)
    IN  [nodeCache[k[1]] EXCEPT
           !.label = IF over THEN k[2] ELSE @,
           !.post = IF over THEN handling[k].plan.status.version ELSE @,
           !.unschedulable = @ /\ ~spec.cordon]

NodeWritten(n, tagged) ==
    /\ node' = [node EXCEPT ![n] = tagged]
    /\ nodeStale' = [nodeStale EXCEPT ![n] = (node[n] # tagged)]

\* Mutant of UpdateNode: an error other than a conflict ends the handler.
UpdateNodeOnce(k, n, tagged) ==
    /\ nodeCache' = [nodeCache EXCEPT ![n] = tagged]
    /\ \/ ~nodeStale[n] /\ NodeWritten(n, tagged) /\ EnqueueOrDelete(k) /\ UNCHANGED faults
       \/ nodeStale[n] /\ Retries(k) /\ UNCHANGED <<node, nodeStale, faults>>
       \/ ~nodeStale[n] /\ Fault /\ UNCHANGED <<job, jobQueue, node, nodeStale>>

\* The handler changes the node in the cache itself and then writes it; when that
\* write fails, the change stays in the cache until the next event for the node.
UpdateNode(k, n, tagged) ==
    /\ nodeCache' = [nodeCache EXCEPT ![n] = tagged]
    /\ \/ ~nodeStale[n] /\ NodeWritten(n, tagged) /\ EnqueueOrDelete(k) /\ UNCHANGED faults
       \/ nodeStale[n] /\ Retries(k) /\ UNCHANGED <<node, nodeStale, faults>>
       \/ /\ ~nodeStale[n] /\ Fault /\ Retries(k)
          /\ NodeWritten(n, tagged) \/ UNCHANGED <<node, nodeStale>>

JobComplete(k) ==
    /\ Handled(k)
    /\ ~IsFailed(handling[k].job) /\ IsComplete(handling[k].job)
    /\ UpdateNode(k, k[1], Tagged(k))
    /\ UNCHANGED <<plan, touched>>

JobOutOfTurn(k) ==
    /\ Handled(k)
    /\ Unfinished(handling[k].job) /\ ~InTurn(k[1], handling[k].plan)
    /\ DeleteJob(k)
    /\ UNCHANGED <<plan, nodeVars>>

\* The job of a node that is being applied on is left alone.
JobInTurn(k) ==
    /\ Handled(k)
    /\ Unfinished(handling[k].job) /\ InTurn(k[1], handling[k].plan)
    /\ UNCHANGED <<job, jobQueue, plan, nodeVars, faults>>

JobAct(k) ==
    \/ JobOrphaned(k) \/ JobNodeGone(k) \/ JobFailed(k)
    \/ JobComplete(k) \/ JobOutOfTurn(k) \/ JobInTurn(k)

-------------------------------------------------------------------------------
(* The caches of the informers, and what their events queue. *)

PlanWatch ==
    /\ planCache # plan
    /\ planCache' = plan /\ planQueue' = TRUE
    /\ UNCHANGED <<plan, worker, seen, nodeVars, jobVars, envVars>>

\* The node handler queues the plan when its selector matches the node.
NodeWatch(n) ==
    /\ nodeStale[n]
    /\ nodeCache' = [nodeCache EXCEPT ![n] = node[n]]
    /\ nodeStale' = [nodeStale EXCEPT ![n] = FALSE]
    /\ planQueue' = (planQueue \/ (/\ planCache.exists /\ planCache.spec.selectable
                                   /\ node[n].mode = "in"))
    /\ UNCHANGED <<plan, planCache, worker, seen, node, touched, jobVars, envVars>>

\* The resync queues everything in the caches.  Its period, hours, is far longer than
\* any burst of work and than the TTL of a finished job, so it finds the controller
\* at rest.
AtRest ==
    /\ worker.pc = "idle" /\ ~planQueue /\ jobQueue = {} /\ handling = Nothing
    /\ \A k \in DOMAIN job : Unfinished(job[k]) \/ job[k].age = 2

Resync ==
    /\ AtRest /\ (planCache.exists \/ job # Nothing)
    /\ planQueue' = planCache.exists
    /\ jobQueue' = DOMAIN job
    /\ UNCHANGED <<plan, planCache, worker, seen, nodeVars, job, handling, succeeded, envVars>>

\* The process stops and another one starts: what it kept in memory is lost, and its
\* caches are filled from the API server.
Restart ==
    /\ Fault
    /\ worker' = Idle /\ seen' = 0
    /\ planCache' = plan /\ planQueue' = plan.exists
    /\ nodeCache' = node /\ nodeStale' = [n \in Node |-> FALSE]
    /\ jobQueue' = DOMAIN job /\ handling' = Nothing
    /\ UNCHANGED <<plan, node, touched, job, succeeded, secret, inWindow, edits>>

-------------------------------------------------------------------------------
(* The cluster: the Job controller, the pods and the TTL controller. *)

ClusterStep == UNCHANGED <<planVars, secret, inWindow, edits, handling>>

\* The pod of a job that is not paused starts when no other pod of the plan runs on
\* the node; its first containers cordon the node.
PodStart(k) ==
    /\ ClusterStep
    /\ k \in DOMAIN job /\ job[k].state = "active" /\ job[k].parallelism = 1
    /\ \A x \in DOMAIN job : x[1] = k[1] => job[x].state # "running"
    /\ node[k[1]].mode # "gone"
    /\ job' = [job EXCEPT ![k].state = "running"]
    /\ jobQueue' = jobQueue \cup {k}
    /\ LET cordons == job[k].template.cordon /\ ~node[k[1]].unschedulable
       IN  /\ node' = [node EXCEPT ![k[1]].unschedulable = @ \/ cordons]
           /\ nodeStale' = [nodeStale EXCEPT ![k[1]] = @ \/ cordons]
    /\ UNCHANGED <<nodeCache, touched, succeeded, faults>>

JobSucceeds(k) ==
    /\ ClusterStep
    /\ k \in DOMAIN job /\ job[k].state = "running"
    /\ job' = [job EXCEPT ![k].state = "complete"]
    /\ succeeded' = succeeded \cup {<<k, job[k].template.version>>}
    /\ jobQueue' = jobQueue \cup {k}
    /\ UNCHANGED <<nodeVars, faults>>

\* The deadline runs for a paused job as well.
JobFails(k) ==
    /\ ClusterStep
    /\ Fault
    /\ k \in DOMAIN job /\ Unfinished(job[k])
    /\ job' = [job EXCEPT ![k].state = "failed"]
    /\ jobQueue' = jobQueue \cup {k}
    /\ UNCHANGED <<nodeVars, succeeded>>

\* Time passes after a job finished, up to the end of the delay or of the TTL.  The
\* handler of the job asked to run again then.  Unless LateHandlers says otherwise, a
\* handler that has something to do for the job is not late by such a time.
Elapse(k) ==
    /\ ClusterStep
    /\ k \in DOMAIN job /\ ~Unfinished(job[k]) /\ job[k].age < 2
    /\ k \in jobQueue \cup DOMAIN handling => LateHandlers
    /\ job' = [job EXCEPT ![k].age = IF plan.spec.delay THEN @ + 1 ELSE 2]
    /\ jobQueue' = jobQueue \cup {k}
    /\ UNCHANGED <<succeeded, nodeVars, faults>>

\* The TTL controller deletes a finished job.
TTLDelete(k) ==
    /\ ClusterStep
    /\ k \in DOMAIN job /\ job[k].age = 2
    /\ Deletes(k)
    /\ UNCHANGED <<succeeded, nodeVars, faults>>

\* Another client (the kubelet) writes the node, as it does every few minutes.  What is
\* bounded is how often it does so when the cache has nothing to learn from it.
Heartbeat(n) ==
    /\ ~nodeStale[n]
    /\ IF nodeCache[n] = node[n] THEN Fault ELSE UNCHANGED faults
    /\ nodeStale' = [nodeStale EXCEPT ![n] = TRUE]
    /\ UNCHANGED <<planVars, node, nodeCache, touched, jobVars, secret, inWindow, edits>>

-------------------------------------------------------------------------------
(* Users. *)

\* Specs are the plans a user may write; deleting and creating a plan start over.
EditPlan ==
    /\ Edit /\ plan.exists
    /\ \E s \in Specs \ {plan.spec} : plan' = [plan EXCEPT !.rv = @ + 1, !.spec = s]
    /\ UNCHANGED <<planCache, planQueue, worker, seen, nodeVars, jobVars, secret, inWindow, faults>>

DeletePlan ==
    /\ Edit /\ PlanReplaced /\ plan.exists
    /\ plan' = [plan EXCEPT !.rv = @ + 1, !.exists = FALSE]
    /\ UNCHANGED <<planCache, planQueue, worker, seen, nodeVars, jobVars, secret, inWindow, faults>>

\* Creating the plan again belongs to its deletion, and so is not counted as an edit.
CreatePlan ==
    /\ PlanReplaced /\ ~plan.exists
    /\ \E s \in Specs :
         plan' = [exists |-> TRUE, rv |-> plan.rv + 1, spec |-> s, status |-> NewStatus]
    /\ UNCHANGED <<planCache, planQueue, worker, seen, nodeVars, jobVars, envVars>>

\* A user removes or disables the plan's label on a node, changes what the selector
\* matches, or takes the node out of the cluster and back.
Relabel(n) ==
    /\ Edit /\ n \in UserNodes
    /\ \/ /\ node[n].mode # "gone"
          /\ node' = [node EXCEPT ![n] = [NewNode EXCEPT !.mode = "gone"]]
       \/ \E mode \in {"in", "out"}, label \in {node[n].label, NoLabel, Disabled} :
            /\ <<mode, label>> # <<node[n].mode, node[n].label>>
            /\ node' = [node EXCEPT ![n] = [@ EXCEPT !.mode = mode, !.label = label]]
    /\ nodeStale' = [nodeStale EXCEPT ![n] = TRUE]
    /\ touched' = touched \cup {n}
    /\ UNCHANGED <<planVars, nodeCache, jobVars, secret, inWindow, faults>>

\* A deleted secret queues nothing; any other change queues a plan that watches it.
EditSecret ==
    /\ Edit
    /\ \E s \in (Secret \cup {Missing}) \ {secret} :
         /\ secret' = s
         /\ planQueue' = (planQueue \/ (/\ s # Missing
                                        /\ planCache.exists
                                        /\ planCache.spec.secret = "watched"))
    /\ UNCHANGED <<plan, planCache, worker, seen, nodeVars, jobVars, inWindow, faults>>

\* The window of the plan opens and closes; how often it closes is bounded.
WindowOpens ==
    /\ ~inWindow /\ inWindow' = TRUE
    /\ UNCHANGED <<planVars, nodeVars, jobVars, secret, edits, faults>>

WindowCloses ==
    /\ Edit /\ inWindow /\ inWindow' = FALSE
    /\ plan.exists /\ plan.spec.window
    /\ UNCHANGED <<planVars, nodeVars, jobVars, secret, faults>>

-------------------------------------------------------------------------------
PlanStep == PlanSync \/ PlanRemove \/ GenerateNotReady \/ GenerateRejected
            \/ GenerateSelected \/ PlanUpdate

JobStep(k) == JobGet(k) \/ JobGetLater(k) \/ JobAct(k)

PodStep(k) == PodStart(k) \/ JobSucceeds(k) \/ Elapse(k)

\* The keys in use: jobs that exist or are being handled.
Keys == DOMAIN job \cup DOMAIN handling

Next ==
    \/ PlanStep
    \/ \E k \in Keys : JobStep(k) \/ PodStep(k) \/ JobFails(k) \/ TTLDelete(k)
    \/ PlanWatch \/ Resync \/ Restart
    \/ \E n \in Node : NodeWatch(n) \/ Heartbeat(n) \/ Relabel(n)
    \/ EditPlan \/ DeletePlan \/ CreatePlan \/ EditSecret
    \/ WindowOpens \/ WindowCloses

Spec == Init /\ [][Next]_vars

(***************************************************************************)
(* Fairness: the workers of the controller do not stop while there is work *)
(* (which key they take is left open), the watches deliver, the resync is  *)
(* periodic, the cluster runs the pods it can run, and time passes (a      *)
(* handler that is queued only holds up Elapse and Resync), so that the    *)
(* window opens again.  Nothing is assumed of failures and of users.       *)
(***************************************************************************)
Fairness ==
    /\ WF_vars(PlanStep)
    /\ WF_vars(WindowOpens)
    /\ WF_vars(\E k \in Keys : JobStep(k))
    /\ WF_vars(PlanWatch)
    /\ WF_vars(\E n \in Node : NodeWatch(n) \/ (nodeCache[n] # node[n] /\ Heartbeat(n)))
    /\ WF_vars(\E k \in Keys : PodStart(k) \/ JobSucceeds(k))
    /\ SF_vars(\E k \in Keys : Elapse(k))
    /\ SF_vars(Resync)

FairSpec == Spec /\ Fairness

-------------------------------------------------------------------------------
(* Properties. *)

\* A node carries a hash as its plan label, at the API server or in the cache that the
\* controller selects from, only if a job for that node and that hash succeeded: the
\* label is what handleJobs writes and what keeps a node from being upgraded again.
LabelEarned ==
    \A n \in Node : \A h \in Hash :
        node[n].label = h \/ nodeCache[n].label = h =>
            \E v \in Version \cup {NoVersion} : <<<<n, h>>, v>> \in succeeded

\* A label that postCompleteLabels sets to $(LATEST_VERSION) names, at the API server and
\* in the cache, a version that a job applied on this very node: handleJobs expands it
\* from the plan it read, not from the job, and edits come in between.
PostLabelEarned ==
    \A n \in Node : \A v \in {node[n].post, nodeCache[n].post} \ {NoVersion} :
        \E h \in Hash : <<<<n, h>>, v>> \in succeeded

\* A plan whose Complete condition is True has had its latest version applied, by a
\* job that succeeded, on every node that was selected all along, whatever the plan,
\* node and secret caches missed and whatever failed, restarted or was edited while
\* the generating handler's status was on its way to the API server.
CompleteTruthful ==
    plan.exists /\ IsTrue(plan.status.complete) =>
        \A n \in Node \ touched :
            \E h \in Hash : <<<<n, h>>, plan.status.version>> \in succeeded

\* A job of the plan's latest hash is unpaused only while its node is registered in
\* Status.Applying: what the two passes of the generating handler are for.
RegisteredFirst ==
    \A k \in DOMAIN job :
        /\ plan.exists /\ k[2] = plan.status.hash
        /\ Unfinished(job[k]) /\ job[k].parallelism = 1
        => Hostname[k[1]] \in plan.status.applying

\* Pods of the plan run on no more nodes than its concurrency at the same time, with
\* jobs paused, unpaused and deleted by handlers that act on what they read before.
NodesAtOnce ==
    plan.exists =>
        Cardinality({n \in Node : \E k \in DOMAIN job : k[1] = n /\ job[k].state = "running"})
            <= plan.spec.concurrency

\* What handleJobs does to a node in the shared cache, and the API server does not know,
\* is tried again: when no event that would undo it is on its way, the handler of the
\* node's complete job is queued or running, whichever way its write failed.
CacheConfirmed ==
    \A n \in Node : ~nodeStale[n] /\ nodeCache[n] # node[n] =>
        \A k \in DOMAIN job :
            k[1] = n /\ IsComplete(job[k]) => k \in jobQueue \cup DOMAIN handling

\* While the post-complete delay of one node's job runs, a plan with concurrency 1 has
\* no unfinished job for another node (the delay of handleJobs against the plan syncs
\* that node and job events trigger).
DelayHeld ==
    \A k, x \in DOMAIN job :
        /\ plan.exists /\ plan.spec.delay /\ plan.spec.concurrency = 1
        /\ k[2] = plan.status.hash /\ job[k].state = "complete" /\ job[k].age = 0
        /\ x[2] = plan.status.hash /\ x[1] # k[1] /\ {k[1], x[1]} \cap touched = {}
        => ~Unfinished(job[x])

\* Nothing is queued or being handled, and no event is on its way.
Quiet ==
    /\ worker.pc = "idle" /\ ~planQueue /\ jobQueue = {} /\ handling = Nothing
    /\ planCache = plan /\ \A n \in Node : ~nodeStale[n]

\* A failed job's message in the plan's Complete condition is not lost to a sync that was
\* under way, to a conflict or to a restart: when all is quiet, a plan with concurrency 1
\* says JobFailed as long as the failed job of a node that lacks the hash is there.
FailureReported ==
    Quiet /\ plan.exists /\ plan.spec.concurrency = 1 =>
        \A k \in DOMAIN job :
            /\ IsFailed(job[k]) /\ job[k].parallelism = 1
            /\ k[2] = plan.status.hash /\ job[k].template.version = plan.status.version
            /\ node[k[1]].mode # "gone" /\ node[k[1]].label # k[2]
            => ~IsTrue(plan.status.complete) /\ plan.status.complete.reason = "JobFailed"

\* Of the finished jobs that wait for their TTL, the version check of handleJobs leaves
\* one per node.
OneJobRetained ==
    plan.exists =>
        \A k, x \in DOMAIN job :
            /\ k[1] = x[1] /\ IsComplete(job[k]) /\ IsComplete(job[x])
            /\ job[k].template.version = plan.status.version
            /\ job[x].template.version = plan.status.version
            => k = x

\* Every selected node has the plan's hash, and the plan says so.
RolledOut ==
    /\ IsTrue(plan.status.complete)
    /\ \A n \in Node : node[n].mode = "in" => node[n].label \in {Disabled, plan.status.hash}

\* A registered node has no job, or one that is paused, and its plan's resourceVersion was
\* applied before.
Stalled ==
    \E n \in Node : LET k == <<n, plan.status.hash>>
                    IN  /\ Hostname[n] \in plan.status.applying
                        /\ k \in DOMAIN job => Unfinished(job[k]) /\ job[k].parallelism = 0
                        /\ seen = plan.rv

Unready == ~IsTrue(plan.status.validated) \/ ~IsTrue(plan.status.resolved)

Rejected ==
    \/ ~plan.spec.selectable
    \/ BlockedNodes \cap Eligible(node, plan.status.hash) # {}

\* Once users and failures stop, the handlers of plans, jobs and nodes bring the plan
\* to one of its four resting places: rolled out on every selected node; stalled (a
\* job that failed, or was deleted as out of turn, is not created again, and a paused
\* one not unpaused, for a resourceVersion that was applied); not ready; or rejected.
\* A deleted plan's jobs go.
Settles ==
    <>[](IF plan.exists THEN RolledOut \/ Stalled \/ Unready \/ Rejected ELSE job = Nothing)

\* A node that is registered in Status.Applying has its job unpaused or is taken off
\* the list: the second pass that the generating handler announces does come.
RegisteredRuns ==
    \A n \in Node : \A h \in Hash :
        LET registered == Hostname[n] \in plan.status.applying /\ plan.status.hash = h
        IN  registered ~> (~registered \/ (<<n, h>> \in DOMAIN job /\ job[<<n, h>>].parallelism = 1))

\* The handler of an unfinished job deletes it as out of turn only if the job's node was
\* not on the list of nodes being applied on when the handler read the plan.
InTurnKept ==
    [][\A k \in DOMAIN handling :
         /\ k \in DOMAIN job \ DOMAIN job' /\ k \notin DOMAIN handling'
         /\ Unfinished(handling[k].job) /\ ~Orphaned(handling[k].job, handling[k].plan)
         /\ nodeCache[k[1]].mode # "gone"
         => Hostname[k[1]] \notin handling[k].plan.status.applying]_vars

\* For a plan with a window, the generating handler creates jobs inside it only.
WindowKept ==
    [][\A k \in DOMAIN job' \ DOMAIN job : plan.spec.window => inWindow]_vars
===============================================================================
