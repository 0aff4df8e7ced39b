------------------------------ MODULE SharedNode ------------------------------
(***************************************************************************)
(* One node that several plans select: their pods run side by side unless  *)
(* the plans are exclusive, each pod cordons the node and each job handler *)
(* labels and uncordons it, through one object in the informer's cache     *)
(* that all handlers change in place.                                      *)
(*                                                                         *)
(* The plan handlers are those of UpgradeController; here each plan has    *)
(* one job, which they have created and unpaused.  An object that the      *)
(* informer has replaced is older than the node, so the write of a handler *)
(* that holds it is refused whatever it contains.                          *)
(***************************************************************************)
EXTENDS JobSpec, FiniteSets

CONSTANTS
    Plan,           \* the plans
    Shapes,         \* the specs they may have
    UserCordons,    \* may the node have been cordoned by a user before?
    BackoffLimit,   \* pods that may fail before their job does
    Threads,        \* workers of the job controller
    MaxFaults       \* bound: failed pods and writes, deadlines, restarts, other writers

ASSUME PlanAssumption ==
    /\ Shapes \subseteq [Plan -> JobShape]
    /\ \A s \in Shapes : \A p \in Plan :
         Optional(s[p].delay) /\ Optional(s[p].jobActiveDeadlineSecs)
    /\ UserCordons \in BOOLEAN /\ BackoffLimit \in Nat /\ Threads \in Nat /\ MaxFaults \in Nat

VARIABLES
    shape,      \* the spec of each plan
    keptTTL,    \* does the API server keep the TTL field of a job?
    node,       \* the Node at the API server
    cache,      \* the Node in the informer's cache
    behind,     \* is the cached node's resourceVersion behind the API server's?
    job,        \* the job of each plan
    jobQueue,   \* the plans whose job's key is in the work queue
    handling,   \* the object that the handler of a plan's job has changed and not written
    upgraded,   \* history: the plans whose job succeeded
    faults

setting == <<shape, keptTTL>>
nodeVars == <<node, cache, behind>>
vars == <<setting, nodeVars, job, jobQueue, handling, upgraded, faults>>

\* The plans whose label, with their job's hash, is on the node.
NodeRecord == [labels : SUBSET Plan, unschedulable : BOOLEAN]

Job == [state : {"pending", "running", "complete", "failed", "gone"},
        done : 0..3, busy : BOOLEAN,        \* the containers of the pod
        tries : Nat, age : Nat]

\* A job that has no pod: it waits for one, has failed or was deleted.
Podless(state, tries) ==
    [state |-> state, done |-> 0, busy |-> FALSE, tries |-> tries, age |-> 0]

TypeOK ==
    /\ shape \in Shapes /\ keptTTL \in BOOLEAN
    /\ node \in NodeRecord /\ cache \in NodeRecord /\ behind \in BOOLEAN
    /\ job \in [Plan -> Job]
    /\ jobQueue \subseteq Plan
    /\ handling \in [Plan -> {"none", "shared", "replaced"}]
    /\ upgraded \subseteq Plan
    /\ faults \in 0..MaxFaults

Init ==
    /\ shape \in Shapes /\ keptTTL \in BOOLEAN
    /\ node \in [labels : {{}}, unschedulable : {FALSE, UserCordons}]
    /\ cache = node /\ behind = FALSE
    /\ job = [p \in Plan |-> Podless("pending", 0)]
    /\ jobQueue = Plan
    /\ handling = [p \in Plan |-> "none"]
    /\ upgraded = {} /\ faults = 0

-------------------------------------------------------------------------------
(* The pods. *)

Fault == faults < MaxFaults /\ faults' = faults + 1

\* Required anti-affinity works in both directions.
Excluded(p, q) ==
    \/ KeepsAway(p, shape[p], q, shape[q])
    \/ KeepsAway(q, shape[q], p, shape[p])

PodStart(p) ==
    /\ job[p].state = "pending"
    /\ \A q \in Plan \ {p} : job[q].state = "running" => ~Excluded(p, q)
    /\ job' = [job EXCEPT ![p].state = "running"]
    /\ jobQueue' = jobQueue \cup {p}
    /\ UNCHANGED <<setting, nodeVars, handling, upgraded, faults>>

ContainerStarts(p) ==
    /\ job[p].state = "running" /\ ~job[p].busy
    /\ job' = [job EXCEPT ![p].busy = TRUE]
    /\ UNCHANGED <<setting, nodeVars, jobQueue, handling, upgraded, faults>>

Running(p) == Containers(shape[p])[job[p].done + 1]

\* A container has done its work: the cordon and drain containers write the node.  With
\* the last one the job is complete.
ContainerEnds(p) ==
    /\ job[p].state = "running" /\ job[p].busy
    /\ LET last == job[p].done + 1 = Len(Containers(shape[p]))
           cordons == Running(p) \in {"cordon", "drain"} /\ ~node.unschedulable
       IN  /\ node' = [node EXCEPT !.unschedulable = @ \/ cordons]
           /\ behind' = (behind \/ cordons)
           /\ job' = [job EXCEPT ![p].done = @ + 1, ![p].busy = FALSE,
                                 ![p].state = IF last THEN "complete" ELSE @]
           /\ jobQueue' = IF last THEN jobQueue \cup {p} ELSE jobQueue
           /\ upgraded' = IF last THEN upgraded \cup {p} ELSE upgraded
    /\ UNCHANGED <<setting, cache, handling, faults>>

\* A pod that fails is replaced by another one, up to the backoff limit.
PodFails(p) ==
    /\ Fault /\ job[p].state = "running"
    /\ job' = [job EXCEPT ![p] = IF @.tries < BackoffLimit
                                   THEN Podless("pending", @.tries + 1)
                                   ELSE Podless("failed", @.tries)]
    /\ jobQueue' = jobQueue \cup {p}
    /\ UNCHANGED <<setting, nodeVars, handling, upgraded>>

\* The deadline counts while the pod waits for another plan's as well.
DeadlinePasses(p) ==
    /\ Fault /\ job[p].state \in {"pending", "running"}
    /\ ActiveDeadline(shape[p].jobActiveDeadlineSecs) # {}
    /\ job' = [job EXCEPT ![p] = Podless("failed", @.tries)]
    /\ jobQueue' = jobQueue \cup {p}
    /\ UNCHANGED <<setting, nodeVars, handling, upgraded>>

-------------------------------------------------------------------------------
(* The job controller. *)

Finished(j) == j.state \in {"complete", "failed"}

Delay(p) == IF shape[p].delay = {} THEN 0 ELSE The(shape[p].delay)

\* New puts the TTL into the job and into an annotation of it.
Retained(p) ==
    LET ttl == TTL(shape[p].delay)
    IN  EffectiveTTL(IF keptTTL THEN {ttl} ELSE {}, {ttl}) * Second

\* Before the end of the TTL the key is to be queued at that time: see Elapse.
EnqueueOrDelete(p) ==
    job' = IF Finished(job[p]) /\ job[p].age >= Retained(p)
             THEN [job EXCEPT ![p] = Podless("gone", 0)]
             ELSE job

Takes(p) ==
    /\ p \in jobQueue /\ handling[p] = "none"
    /\ Cardinality({q \in Plan : handling[q] # "none"}) < Threads
    /\ jobQueue' = jobQueue \ {p}

\* A job that is in turn is left alone, one that failed is kept for its TTL; the message in
\* the plan's status is not part of this module.  A delete that fails is tried again.
HandleOther(p) ==
    /\ Takes(p) /\ job[p].state # "complete"
    /\ EnqueueOrDelete(p)
    /\ UNCHANGED <<setting, nodeVars, handling, upgraded, faults>>

\* Mutant of Tagged: the labels of all plans are written.
TaggedAll(p) == [labels |-> Plan, unschedulable |-> cache.unschedulable /\ ~Cordons(shape[p])]

\* Mutant of Tagged: the node is made schedulable whatever the plan says.
TaggedSchedulable(p) ==
    [labels |-> cache.labels \cup {p}, unschedulable |-> FALSE]

\* Mutant of Tagged: the node stays cordoned.
TaggedOnly(p) ==
    [cache EXCEPT !.labels = IF job[p].age >= Delay(p) THEN @ \cup {p} ELSE @]

\* The cached node with the plan's label, unless the delay still runs, and schedulable if
\* this plan is one that cordons.
Tagged(p) ==
    [labels |-> IF job[p].age >= Delay(p) THEN cache.labels \cup {p} ELSE cache.labels,
     unschedulable |-> cache.unschedulable /\ ~Cordons(shape[p])]

\* The handler of a complete job changes the object in the cache.
HandleComplete(p) ==
    /\ Takes(p) /\ job[p].state = "complete"
    /\ cache' = Tagged(p)
    /\ handling' = [handling EXCEPT ![p] = "shared"]
    /\ UNCHANGED <<setting, node, behind, job, upgraded, faults>>

NodeWritten == node' = cache /\ behind' = (node # cache)

\* An error makes the handler start again: a conflict, or another one, before or after
\* the write took effect.
Refused(p) ==
    /\ jobQueue' = jobQueue \cup {p} /\ UNCHANGED job
    /\ IF handling[p] = "replaced" \/ behind
         THEN UNCHANGED <<node, behind, faults>>
         ELSE Fault /\ (NodeWritten \/ UNCHANGED <<node, behind>>)

\* Then it writes what that object has become by now, by the changes of other handlers too.
UpdateNode(p) ==
    /\ handling[p] # "none"
    /\ handling' = [handling EXCEPT ![p] = "none"]
    /\ \/ Refused(p)
       \/ /\ handling[p] = "shared" /\ ~behind
          /\ NodeWritten /\ EnqueueOrDelete(p)
          /\ UNCHANGED <<jobQueue, faults>>
    /\ UNCHANGED <<setting, cache, upgraded>>

JobStep(p) == HandleOther(p) \/ HandleComplete(p) \/ UpdateNode(p)

-------------------------------------------------------------------------------
(* Time, the informer, the TTL controller, other clients. *)

\* A handler that is waiting to run is not late by a unit of time.  It asked to run again
\* at the end of the delay and at the end of the TTL.
Elapse(p) ==
    /\ Finished(job[p]) /\ job[p].age < Retained(p)
    /\ p \notin jobQueue /\ handling[p] = "none"
    /\ job' = [job EXCEPT ![p].age = @ + 1]
    /\ jobQueue' = IF job[p].age + 1 \in {Delay(p), Retained(p)} THEN jobQueue \cup {p} ELSE jobQueue
    /\ UNCHANGED <<setting, nodeVars, handling, upgraded, faults>>

TTLDelete(p) ==
    /\ keptTTL /\ Finished(job[p]) /\ job[p].age >= Retained(p)
    /\ job' = [job EXCEPT ![p] = Podless("gone", 0)]
    /\ jobQueue' = jobQueue \ {p}
    /\ UNCHANGED <<setting, nodeVars, handling, upgraded, faults>>

\* The informer puts a new object into its cache; handlers keep the one they have.
Watch ==
    /\ behind /\ behind' = FALSE /\ cache' = node
    /\ handling' = [p \in Plan |-> IF handling[p] = "none" THEN "none" ELSE "replaced"]
    /\ UNCHANGED <<setting, node, job, jobQueue, upgraded, faults>>

Heartbeat ==
    /\ Fault /\ ~behind /\ behind' = TRUE
    /\ UNCHANGED <<setting, node, cache, job, jobQueue, handling, upgraded>>

Restart ==
    /\ Fault
    /\ cache' = node /\ behind' = FALSE
    /\ handling' = [p \in Plan |-> "none"]
    /\ jobQueue' = {p \in Plan : job[p].state # "gone"}
    /\ UNCHANGED <<setting, node, job, upgraded>>

PodStep(p) == PodStart(p) \/ ContainerStarts(p) \/ ContainerEnds(p)

Next ==
    \/ \E p \in Plan : PodStep(p) \/ PodFails(p) \/ DeadlinePasses(p) \/ JobStep(p)
                       \/ Elapse(p) \/ TTLDelete(p)
    \/ Watch \/ Heartbeat \/ Restart

Spec == Init /\ [][Next]_vars

\* Pods that can run do, the workers and the watch do not stop, and time passes.
Fairness ==
    /\ \A p \in Plan : WF_vars(PodStep(p)) /\ WF_vars(Elapse(p))
    /\ WF_vars(\E p \in Plan : JobStep(p))
    /\ WF_vars(Watch)

FairSpec == Spec /\ Fairness

-------------------------------------------------------------------------------
(* Properties. *)

\* The node has a plan's label, at the API server or in the cache from which all plans
\* select, only if a job of that plan succeeded: a handler writes an object to which the
\* handlers of other plans may have added labels that they have not written themselves.
OwnLabelEarned == node.labels \cup cache.labels \subseteq upgraded

\* "Jobs for exclusive plans cannot be run alongside any other exclusive plan": not on the
\* same node, with pods that fail, are replaced and wait for each other.
ExclusiveApart ==
    \A p, q \in Plan :
        /\ p # q /\ shape[p].exclusive /\ shape[q].exclusive
        => ~(job[p].state = "running" /\ job[q].state = "running")

\* "If neither drain nor cordon are specified and the node is marked as schedulable=false it
\* will not be marked as schedulable=true when the Job completes": the write that makes a
\* node schedulable carries the decision of a plan that cordons and that is done.
UncordonEarned ==
    [][node.unschedulable /\ ~node'.unschedulable =>
         \E p \in upgraded : Cordons(shape[p])]_vars

\* The step that starts the upgrade container of p.
StartsUpgrade(p) == ~job[p].busy /\ job'[p].busy /\ Running(p) = "upgrade"

\* The node is cordoned when the upgrade container of a plan that cordons starts, unless
\* another plan that cordons has been applied on it.
CordonedFirst ==
    [][\A p \in Plan :
         /\ StartsUpgrade(p) /\ Cordons(shape[p])
         /\ \A q \in upgraded \ {p} : ~Cordons(shape[q])
         => node.unschedulable]_vars

\* "If Cordon is true, the node is cordoned before the upgrade container is run."
CordonedBefore ==
    [][\A p \in Plan : StartsUpgrade(p) /\ Cordons(shape[p]) => node.unschedulable]_vars

\* The label of a job that succeeded arrives: not lost to the conflicts of handlers that
\* share the object, to a restart, or to a TTL that ends before the delay.
LabelArrives == \A p \in Plan : p \in upgraded ~> p \in node.labels

\* When all plans are done, a node that one of them cordoned is schedulable.
SchedulableAgain ==
    <>[](upgraded = Plan /\ (\E p \in Plan : Cordons(shape[p])) => ~node.unschedulable)
===============================================================================
