# A TLA+ model of the system-upgrade-controller

The controller applies *plans* to the nodes of a Kubernetes cluster: for every
selected node it runs a job, no more than the plan's concurrency at a time, and it
labels the node with the plan's hash when the job has succeeded. This directory
models the handlers that do so together with the caches, queues, conflicts,
failures and users they have to live with, checks them with TLC on small
instances, and proves the main safety properties with TLAPS for all instances.

## 1. Inventory

| part | code | state | operations | talks to |
|---|---|---|---|---|
| plan status handler | `pkg/upgrade/handle_upgrade.go:30-111`, `pkg/upgrade/plan/plan.go` | plan status: three conditions, latest version, latest hash | validate, resolve the version (static or from a channel), digest | reads secrets through a cache; its result is written by the wrapper |
| plan generating handler | `handle_upgrade.go:113-196` | plan status: `applying`, condition Complete | select nodes, wait for the window, create or unpause jobs, mark complete | reads nodes through a cache; hands jobs to apply |
| handler wrappers | `pkg/generated/controllers/upgrade.cattle.io/v1/plan.go` | `seen`: the last applied resourceVersion | run handler, write status if changed, apply once per resourceVersion, forget on removal | API server (optimistic concurrency) |
| node selection | `plan.go:143-220`, `pkg/upgrade/node/node.go` | none | keep nodes in progress, fill up from candidates in hash order | node cache |
| job handler | `pkg/upgrade/handle_batch.go` | none of its own | delete jobs of another version, record failures in the plan, tag and uncordon nodes, delete jobs out of turn, delete after TTL | gets the plan from the API server, the node from the cache and changes it there, queues the plan |
| node and secret handlers | `pkg/upgrade/handle_core.go` | none | queue the plan | plan cache |
| conditions | `pkg/apis/condition/condition.go` | fields of a condition | setters; what touches LastUpdateTime | |
| job builder | `pkg/upgrade/job` | settings from the environment | TTL, deadline, containers in order, anti-affinity, parallelism | |
| container builder | `pkg/upgrade/container` | none | construct a container | |
| process | `pkg/upgrade/controller.go`, `main.go` | caches, queues | start, resync every two hours, N workers per controller, leader election | |
| environment | not in the repository | API server, informers, work queues, wrangler apply, Job and TTL controllers, kubelet, users | | |

What is hard: the handlers of plan, jobs and nodes run in parallel and act on
what they read earlier; caches trail the API server and one of them is modified
in place; a sync consists of several writes, each of which can be refused, fail,
take effect without an answer, or be the last before a restart; users change plan, nodes and secret at any
time; three clocks (delay, TTL, deadline) and a time window run alongside. What
makes it correct: a label is earned, Complete is true only when it should be, no
job runs before its node is registered, no more nodes than the concurrency are
worked on, the delay is kept, a failure is reported, a channel is followed, plans that
share a node do not get in each other's way, and every plan comes to rest with its
nodes schedulable. The hazards, each at its line, are in `PROJECT.json`.

## 2. Modules

| module | models |
|---|---|
| `Conditions` | the condition setters |
| `PlanStatus` | the status handler as a function of spec, status, the two reads of the secret, the channel's answer and the time |
| `NodeSelection` | `SelectConcurrentNodes` as a relation |
| `UpgradeController` | the machine: EXTENDS the three above; one plan, its nodes, jobs and secret, the handlers, caches and queues, the cluster and the users; their properties |
| `PlanContract` | the abstract specification: what a plan promises to its user, without caches, queues, handlers and jobs |
| `UpgradeContract` | the refinement mapping from `UpgradeController` to `PlanContract` |
| `PlanResolution` | EXTENDS `PlanStatus`: polling of a release channel with a clock, calls that take time, delayed keys, edits and restarts |
| `JobSpec` | `job.New` and the settings it uses: TTL, deadline, containers, anti-affinity |
| `SharedNode` | EXTENDS `JobSpec`: several plans on one node, their pods container by container, their job handlers around one cached object |
| `MCUpgrade`, `MCResolution`, `MCShared` | the specs and constants of the runs |
| `PlanStatusProofs`, `UpgradeControllerProofs`, `RolloutProofs`, `CompletionProofs`, `ContractProofs`, `ConcurrencyProofs`, `PlanResolutionProofs`, `SharedNodeProofs` | lemmas and theorems: of the status handler; of `UpgradeController`, in three modules of which each extends the one before it, and `ContractProofs` and `ConcurrencyProofs` on top of them; of the other two machines |

The three machines share operators, not state: `UpgradeController` and
`PlanResolution` run the same `StatusHandler`, and `SharedNode` takes up the job handler
where `UpgradeController` has it act on a node, with one step more (the change of the
cached object and the write of it) and with more than one plan.

### State of `UpgradeController`

`plan`, `node`, `job` are the objects at the API server; `planCache`,
`nodeCache`, `secret` are what the informers' caches hold (nothing but the caches
is read for secrets). `nodeStale[n]` says that the cached resourceVersion of a
node is old: an update of it will be refused and an event is on its way.
`planQueue` and `jobQueue` are the work queues. `worker` is the plan controller's
worker between the steps of a sync, `handling` what each running job handler has
read, `seen` the wrapper's record. `succeeded` and `touched` are history: they
are never read by a handler.

A digest is the tuple of what is hashed (version, secret, upgrade container if
the annotation includes it), so that the collision freedom of SHA-224 is an
assumption. A job's name is its node and hash. A version is munged by a given
function. `post` is a label that `postCompleteLabels` sets to `$(LATEST_VERSION)`.
`Status.Applying` is a set; where its order matters, in the binary search of the job
handler, it is made into the list that the generating handler writes (`ApplyingList`).

### Actions

- *Plan sync*: `PlanSync` (status handler and its write), then one of
  `GenerateNotReady`, `GenerateRejected`, `GenerateSelected` (with
  `GenerateWaiting`, `GenerateComplete`, `GenerateJobs` as alternatives; the last
  includes the call to apply, its skip for a known resourceVersion and its
  failure part-way), then `PlanUpdate` if the status changed. `PlanRemove` is the
  sync of a deleted plan.
- *Job handler*: `JobGet` takes the job and the plan, `JobGetLater` stands for a plan
  that is read later than that, so that the job is an old copy; one of `JobOrphaned`,
  `JobNodeGone`, `JobFailed`, `JobComplete`, `JobOutOfTurn`, `JobInTurn` acts on both,
  reading the node from the cache at that point. Every one of them but the first queues
  the plan.
- *Caches*: `PlanWatch`, `NodeWatch` (with the node handler), `Resync`, `Restart`.
- *Cluster*: `PodStart` (with cordon), `JobSucceeds`, `JobFails`, `Elapse`,
  `TTLDelete`, `Heartbeat`.
- *Users*: `EditPlan`, `DeletePlan`, `CreatePlan`, `Relabel`, `EditSecret` (with the
  secret handler), and the window's `WindowOpens`, `WindowCloses`.

### `PlanContract` and the refinement

The contract has what a user can see: what was applied where, the plan's label on each
node, the version that the plan names and whether it says that it is complete, and which
nodes users have changed. Its steps allow a label only after an upgrade, and Complete only for a version that was applied on every node left alone. That
may be a version which the plan has not named before: when the status handler's write fails,
but not by a conflict, the generating handler's one carries the new version and Complete
together (the plan was deleted and created again, say, and its node has the hash). A plan
that is created names no version and is not complete. `KeepsContract` is its
specification under the mapping in `UpgradeContract`, a property of three runs and a
theorem (section 4). The
contract is untimed and without fairness; that plans come to rest is `Settles`.

### `PlanResolution`

The status handler runs to its end in `Sync`, or in two steps, `Ask` and `Answered`, when it
calls the channel; `Generate` stands for the generating handler, of which only the
condition Complete and the second write matter here. Time passes in `Tick`: the present is
always the same number and what was recorded gets older, up to the polling interval,
because the code only compares ages with it. So the state space is finite though time does
not end. `timer` is the delayed key of the work queue. Of a resourceVersion each copy of the
plan keeps whether it is behind.

### `JobSpec` and `SharedNode`

`TTL`, `EffectiveTTL` and `ActiveDeadline` are the arithmetic of `job.New` and of
`enqueueOrDelete`; durations are in a unit of which `Second` and `Minute` are multiples, as
the TTL is rounded down to seconds. `Containers` is the sequence of the pod's containers, and
`KeepsAway` its required anti-affinity, which the scheduler applies in both directions.

In `SharedNode` every plan has one job, already unpaused. `handling[p]` says whether the
handler of p's job has changed the cached object and not written it yet, and whether the
informer has replaced that object since: then its resourceVersion is old and the write is
refused. Any other write may fail too, before or after it took effect. A write by one handler
carries what the others have done to the object.

### Abstractions

- A call to the API server fails in one of three ways: by a conflict, when the object it is
  based on is not the current one; before it takes effect, at any time; or after it has taken
  effect, when only the answer is lost (`WriteFails`, and `Fault` in the other actions). The last two count as faults. A Get of the plan that fails leaves the job's key
  in the queue, and so is no step.
- A job handler has its job from the cache and the plan from the API server, which may be
  newer: `JobGetLater` reads it again until the handler acts. A handler keeps only what it
  depends on (`Reads`).
- The key of an object that is gone is dropped from its queue: its handler only
  returns.
- `EnqueueAfter` is part of `Elapse`: when a job's delay or TTL is over, the job is
  queued. A job counts the time since it finished in three steps, 0, 1 (delay
  over) and 2 (TTL over); job.New makes the TTL the longer one.
- Unless `LateHandlers` is TRUE a handler that has something to do is not late by
  the length of a delay or TTL (minutes).
- The resync finds the controller at rest: its period is two hours, the TTL
  fifteen minutes by default.
- Deleting or pausing a job ends its pod. A job fails as a whole; retries of its
  pod are within "running".
- Malformed jobs and events are left out; the exclusive flag is in `SharedNode` only.
- `PlanResolution` has plans without secrets and windows and with a valid selector; a
  failed HTTP request is a reply with an error status.
- `SharedNode` takes the delay from the plan as it was when the job was made, and delays
  and settings to be so small that no `int32` overflows. `PodFails` covers a container that
  fails at any point; the pod starts again with its first container.

## 3. Runs

Bounds: `Node` (one to three nodes), `Plan` (two plans), `Threads` (job workers),
`MaxEdits` (user steps and closings of the window), `MaxMoves` (changes of the channel's
reply), `MaxFaults` (failed jobs and pods, deadlines, calls that fail or whose answer is lost,
restarts, conflicting writers; a write of the kubelet that ends a difference between a cached
node and the API server is not counted), `MaxEvents` (edits and faults together). Hostnames equal node names.

| run | instance | checks |
|---|---|---|
| `rollout` | 2 nodes, no cordon, 2 workers, concurrency 1 or 2, 1 fault | `TypeOK`, `LabelEarned`, `CompleteTruthful`, `RegisteredFirst`, `NodesAtOnce`, `FailureReported`, `InTurnKept`, `KeepsContract` |
| `delay` | 3 nodes, one of them a Windows node without image, a post-complete delay, 1 change of labels or membership, handlers may be late by the TTL, fair | `DelayHeld`, `CompleteTruthful`, `Settles` |
| `failures` | 1 node that is cordoned, 2 faults, or 1 and the deletion of the plan and its creation anew, fair | `LabelEarned`, `CompleteTruthful`, `CacheConfirmed`, `Settles`, `KeepsContract` |
| `edits` | 1 node, a watched secret and a window, 1 edit to one of six specs or of the secret, closing of the window, or deletion of the plan and its creation with any spec, fair | `LabelEarned`, `PostLabelEarned`, `CompleteTruthful`, `Settles`, `KeepsContract` |
| `resolution` | an interval of 2 units, a release, another redirect and an error as replies, 1 edit, 1 change of the reply, 1 fault, fair | `TypeOK`, `ChannelVersionGiven`, `NextPollComes`, `StaticVersionRules`, `NoLateAnswer`, `FollowsChannel` |
| `shared` | 2 plans: exclusive and draining with exclusive and delayed, the same not exclusive, one that does not cordon with one that does; a user may have cordoned the node; 2 faults, 2 workers, fair | `TypeOK`, `OwnLabelEarned`, `ExclusiveApart`, `UncordonEarned`, `CordonedFirst`, `LabelArrives`, `SchedulableAgain` |
| `overlap` | 2 nodes, 2 versions, 1 edit | violates `NodesAtOnce` |
| `lost_job` | 2 nodes, no fault, fair | violates `RegisteredRuns` |
| `secret_race` | 1 node, 1 edit, the secret may vanish within a sync | violates `CompleteTruthful` |
| `window` | 2 nodes, a window that closes once, fair | violates `WindowKept` |
| `rotated` | 1 node, a secret that is rotated once | violates `OneJobRetained` |
| `uncordon` | 2 exclusive plans that cordon, no fault | violates `CordonedBefore` |

Two nodes are what it takes for one to wait for the other, three for one to be out of
the cluster or blocked while two others follow each other; one fault or edit can
fall between any two steps of a rollout, two can meet (a restart during the
repetition of a failed apply). One node is enough where the question is about versions,
secrets and jobs of the same node, one edit for a job and a plan to disagree. Plans cordon
their nodes in `failures` and in `shared`; elsewhere the further writers of a node would
multiply the states without touching what is asked. With an interval of two units a version
is new, half an interval old, or due. The passing runs have finite state spaces although
resourceVersions grow with every write, so that they also show that the handlers stop
writing the plan.

`Settles` names the four resting places of a plan: rolled out; *stalled*, a
registered node whose job failed or was deleted and is not created again, or is paused and
not unpaused, for the resourceVersion that was applied; not ready; rejected selection. The
second one is the documented behaviour for failed jobs. A job stays paused when the answer to
the write that registered its node was lost: a sync from an older copy, which does not have
the node on its list yet, pauses the job again at a resourceVersion that is recorded as
applied. A deleted plan's jobs disappear. `Settles` is about progress to one of these, not
about which: that a job is lost to a late deletion is `RegisteredRuns`, that it is
created outside the window `WindowKept`.

`shared` does not check for deadlock, since all is over when all jobs are gone; neither do
the violations of invariants, where a bound that is used up is an end.

### What the violations show

- `overlap`: concurrency is not kept across a change of version. The job of the old
  version is deleted only by its own handler. Its node stays selected for the new version and
  finishes it; the next node is registered and starts; and the old job, unpaused all the
  time and not started until then, has a pod on the first node.
- `lost_job`: the handler of a new, paused job reads the plan before the node is
  registered, and deletes the job as out of turn after it was. The plan's
  resourceVersion has been applied, so nothing creates the job again before the
  next change of the plan or a restart; a node that was cordoned stays so.
- `secret_race`: an error of `DigestStatus` leaves the new version next to the old
  hash in the object that is handed on, and all nodes already have the old hash.
- `window`: the window is looked at only when no node is in progress. A registered node
  whose paused job was deleted as out of turn (as in `lost_job`, but before the sync that
  unpauses it) gets a new job, unpaused, though the window has closed since.
- `rotated`: a new secret makes a new hash for the same version, and the version is all
  that the job handler compares, so that the old job stays beside the new one for its TTL.
  (When that ends its handler writes the old hash back, which is beyond this run.)
- `uncordon`: the handler of one plan's job makes the node schedulable whatever the pods of
  other plans are doing, also when it runs again at the end of its delay and of its TTL.
  `CordonedFirst` is what holds: the node is cordoned when the upgrade starts unless another
  plan that cordons has been applied on it.

Observations that are not runs:

- When the write of a node fails otherwise than by a conflict, nothing brings the cached node
  and the API server together but another run of the handler (`CacheConfirmed`) or the next
  write of the kubelet. If the job goes before the handler has run again, as handlers that are
  late by the TTL allow, the controller counts the node as done until that write.
- After a refused node update the label is visible in the cache before it is written, so a
  plan may report Complete and take it back; `CompleteTruthful` holds since the job did
  succeed.
- The list that the job handler searches holds hostnames in the order of node names, and it
  searches for a node's name. `InTurnKept` holds where the two are equal. With a hostname
  that differs from the name every job of that node is deleted as out of turn.
- The time of the condition LatestResolved is not touched by a poll that finds the same
  version. So after the first interval every sync polls the channel, no key is delayed any
  more, and the next poll comes with the next event or the resync, every two hours.
  `NextPollComes` is about the first interval after a change, `FollowsChannel` about the rest.
- Any reply from 200 to 399 other than 302 resolves to the last element of the channel's own
  URL (`ChannelVersionGiven` says so).
- With a concurrency above 1, `FailureReported` does not hold: another node that finishes
  changes the list, and the reset of Complete takes the message of the failed job with it.
- A plan with concurrency 0, the default of the field, is complete at once.

### Fairness

Weak fairness for the plan worker, for the job workers together, for the watches (with the
kubelet, which writes its node every few minutes, so that a cached node which differs from the
API server gets an event), for pods that can start or finish, and for the opening of the window: work queues and
watches do not stop, and which key is taken first is left open. Strong fairness for
`Elapse` and `Resync`, which are enabled only while no handler is at work on the job or at
all: time does not stop because handlers run now and then. Nothing is assumed about
failures, other writers and users; the bounds end them.

In `PlanResolution` the worker, the watch and the clock are weakly fair, which includes that
a call to the channel ends, and `Poke` is strongly fair, because the resync comes again and
again whatever else queues the plan. In `SharedNode` the pods that can run do, the workers
go on, the watch delivers and time passes for each finished job.

## 4. Proofs

Assumptions on constants: nodes are a finite set with a hostname each; `Munge` maps
raw versions to versions and the empty version is not one; the empty error text is not
a message, and the texts that the handlers set are; `Specs` are plan specs; the order of the
nodes for a hash is given by integers; bounds are natural numbers. TLC evaluates all of them in
the runs.

| theorem | statement |
|---|---|
| `StatusHandlerKeeps` | the status handler keeps `Applying`; keeps Complete true only if it was and the version is the same; with one view of the secret it leaves a hash that names the version, and is never without a hash once resolved, in the channel branch too |
| `TypeCorrect` | `Spec => []TypeOK` |
| `LabelCorrect` | `Spec => []LabelEarned` |
| `CompleteCorrect` | `Spec => []CompleteTruthful`, if secrets do not vanish within a sync and every spec has concurrency 1 or more |
| `PostLabelCorrect` | `Spec => []PostLabelEarned` |
| `ContractKept` | `Spec => KeepsContract`, the refinement, under the assumptions of `CompleteCorrect` |
| `RegisteredCorrect` | `Spec /\ [][Unedited]_vars => []RegisteredFirst`, if no handler is late by a job's TTL |
| `NodesCorrect` | the same for `NodesAtOnce`, if also hostnames differ and no concurrency is negative |
| `DelayCorrect` | the same for `DelayHeld`, if also hostnames differ |
| `FailureCorrect` | the same for `FailureReported`, if also no concurrency is negative |
| `CacheCorrect` | the same for `CacheConfirmed`, without further assumptions |
| `NothingEdited` | `Spec => [][Unedited]_vars`, if there are no edits and no secret vanishes: the condition of these five holds in every behaviour of the `rollout` run, and of any instance with its bounds |
| `StatusHandlerRecords` | what the status handler may record as the version, its reason and its time, whatever the channel answers |
| `TypeCorrect` of `PlanResolutionProofs` | `Spec => []TypeOK` of `PlanResolution` |
| `ChannelGave` | `Spec => []ChannelVersionGiven` |
| `PollComes` | `Spec => []NextPollComes` |
| `StaticRules` | `Spec => []StaticVersionRules` |
| `NoAnswerLate` | `Spec => NoLateAnswer`, an action property |
| `SharedTypeCorrect` | `Spec => []TypeOK` of `SharedNode` |
| `OwnLabelsEarned` | `Spec => []OwnLabelEarned` |
| `ExclusivePlansApart` | `Spec => []ExclusiveApart` |
| `UncordonsEarned` | `Spec => UncordonEarned`, an action property |
| `CordonComesFirst` | `Spec => CordonedFirst`, an action property |
| `TTLOutlastsDelay` | for every delay and environment, the TTL that `job.New` computes is longer than the delay |
| `DeadlineCapped` | a configured maximum bounds every deadline; without one only a plan that asks for no deadline has none |

`LabelEarned` is not inductive: the label is written from a handler's snapshot of a
job. `LabelInv` adds `JobsCounted`: every complete job, and every snapshot of one, is in
`succeeded`.

`CompleteTruthful` speaks of the status at the API server, but that status comes from
the cache, from the worker and from failed jobs' handlers. `CompleteInv` says of each of
those copies that its hash names its version and that, if complete, its version was
applied (`StatusesTruthful`); that jobs and successes are for the version their hash
names (`JobsNamed`); and that a node no user touched matches the selector (`NodesSelected`).
The step that sets Complete is `CompleteEarned`: nothing selected with a concurrency of at
least one means that nothing is eligible (`NothingLeft`), so every untouched node carries
the hash, and by `LabelEarned` a job of that hash succeeded there. Both assumptions are
needed: `secret_race` is the counterexample without the first, and a plan with
concurrency 0 is complete at once.

`PostLabelEarned` rests on `JobsCounted` too: the handler has dropped a job whose version is
not the one of the plan it read, so the version it writes is the job's.

The refinement needs, beyond `CompleteInv`, that a handler which writes a cached node whose
delay still runs carries no other label to the API server than one that was earned: the cached
label of a node whose events have all arrived is the node's own, or a hash that an earlier
handler set and could not write (`CacheLabels`). Each
step then maps to one step of the contract: `HandlerClaims`, `UserClaims`, `NodeClaims`,
`JobClaims`.

`RegisteredFirst`, `NodesAtOnce`, `DelayHeld` and `FailureReported` are about one rollout:
`overlap` shows that the second does not survive an edit of the plan. `Unedited` says that plan,
nodes and secret are not edited in the behaviour; conflicts, failed calls, failed jobs,
restarts, other writers of the nodes and the window, which may open and close as it likes, are
left in. Then all copies of the plan aim at one version and one hash (`CopiesAgree`,
`JobsAgree`), so no job is replaced or orphaned; jobs that exist before the plan has its version,
because the write of it failed and the sync went on, are paused (`Fresh`). What is left to show is that an old list of
nodes does no harm. A sync may work from a list that still holds a node which the plan has
dropped, and would unpause that node's job. It does not, because a node is dropped only
when the cache that the controller selects from has its label (`ListsAgree`), and then the node's
job is *past*: the node carries the label, or the complete job stands and no
handler that read it unfinished is about to delete it (`LabelsAgree`). The
cache has a label before the API server when a handler's write was refused; the label
comes all the same, because that handler runs again before the TTL ends
(`HandlerLabels`, `AgedLabelled`, `ReadCurrent`), which is what the assumption on late handlers is
for. These make up `TurnInv`, and what is past stays past through every step (`TurnKept`).

`CacheConfirmed` adds `CacheKnown`: a handler that read its job before that job succeeded has an
event to come, so that the job's key is in the queue.

For `NodesAtOnce` no list, the plan's or a copy's, is longer than the concurrency (`ListsShort`),
since every list was selected by a worker or is a copy of one (`ListsStep`); with concurrency
below zero even the empty list is. For `DelayHeld` the nodes have their turns (`TurnsTaken`): a
node has a job, or is on any list, only if the job of every node before it in the order of the hash is
past; of two nodes that have their turn and are not past, each would come before the other
(`OneTurn`). For `FailureReported` a worker that is about to write the current plan leaves no
node unfinished (`UpdateIdle`): it writes only a Complete plan, a plan that waits for its window
with nothing on the list, or a changed list, and a list of one that is selected again does not
change (`SameList`). So none but the handler of the failed job touches its message
(`FailuresSeen`); a status handler that has seen the version leaves it alone
(`StatusHandlerReports`). With two nodes at a time `SameList` is what fails.

`PlanResolution` has one inductive invariant, `ResolutionInv`. Each copy of the plan, at the API
server, in the cache and with the worker, is *recorded*: a version that is called the channel's was in
some reply, and no time is in the future (`CopiesRecorded`). The latter is what bounds a delayed
key: a time in the future would put the poll off by more than an interval. `TimerSet` says that a
sync that found a young version has left a key that comes in time, `CacheSettled` that a cached
plan which nothing has queued has the version and the hash of its spec. `WorkerBased` ties the
answer of the channel to the spec for which it was asked: a copy that is not behind has
the plan's spec, so a write that succeeds records an answer only where the spec still asks for one.

`SharedNode` is proved for any number of plans of any shape. Its type invariant needs that a
pod which is to run has a container left (`ContainerLeft`): that is why no job counts more
containers than there are. `OwnLabelEarned` needs that complete jobs are those of plans in
`upgraded` (`CompleteUpgraded`); it is inductive for node and cache together, not for the node
alone, since the handlers write the cached object. `UncordonEarned` rests on
`CacheUncordoned`: an object that is schedulable in the cache, at the resourceVersion of a node
that is not, was made so by the handler of a plan that cordons and is done.
`TTLOutlastsDelay` uses that a minute is not shorter than a second, and is what the comment in
the job handler takes for granted (`handle_batch.go:117`).

`CordonedFirst` rests on `CordonHeld`: while the pods of a plan that cordons wait with their cordon
container behind them, and no other plan that cordons was applied, the node is
unschedulable. Only handlers of applied plans that cordon release it (`CacheUncordoned`), and a
plan that waits is not among the applied ones (`WaitsNotUpgraded`).

Only model-checked: all liveness (`Settles`, `FollowsChannel`, `LabelArrives`,
`SchedulableAgain`), which is out of the prover's reach; and `InTurnKept`, which says that the
binary search of the job handler finds every node that is on the list. What the search
computes for every list needs induction over its recursion. Every other property of a
passing run is a theorem. `DelayHeld` is checked with one change of labels or membership, for
the nodes that were not changed, and proved without such changes; `CacheConfirmed` is checked
with the deletion of the plan and its creation anew, and proved without.

## 5. Not modelled

The container builder, and of the job builder volumes, security contexts, images and the
arguments of `kubectl drain` (pure construction that no handler reads); job names that are
shared by nodes whose names differ after the first dot; CRD registration, leader election
and flags, which come before any handler; generated clients and deep copies; events; the HTTP
request of the channel; and the computation of time windows, a library.

## 6. Plan

Done: the controller around one plan, the contract, its refinement and the proof of it,
channel polling, the job builder's arithmetic, several plans on a node, and proofs of all safety
properties but one. Left, in this order:

1. A theorem that keeps the other nodes apart when single nodes are relabelled (`RegisteredFirst`,
   `DelayHeld`): `Past` for the nodes that users left alone.
2. `InTurnKept` for plans with concurrency 1, whose lists have one element.
3. The frame of the job handlers under edits of the plan: which of the four properties come back
   once the jobs of the old version are gone.
