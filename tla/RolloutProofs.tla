----------------------------- MODULE RolloutProofs ----------------------------
(***************************************************************************)
(* The safety of a rollout, for every set of nodes, versions, plan specs   *)
(* and secrets and every number of edits and failures: a plan label and a  *)
(* post-complete label are earned.                                         *)
(***************************************************************************)
EXTENDS UpgradeControllerProofs

\* The steps that change a node, at the API server or in the cache.
LEMMA NodeSteps ==
    [Next]_vars => \/ UNCHANGED nodeVars
                   \/ \E k : JobComplete(k)
                   \/ \E k : PodStart(k)
                   \/ \E n \in Node : NodeWatch(n) \/ Heartbeat(n) \/ Relabel(n)
                   \/ Restart
  <1> SUFFICES ASSUME [Next]_vars
               PROVE  \/ UNCHANGED nodeVars
                      \/ \E k : JobComplete(k)
                      \/ \E k : PodStart(k)
                      \/ \E n \in Node : NodeWatch(n) \/ Heartbeat(n) \/ Relabel(n)
                      \/ Restart
    OBVIOUS
  <1>1. PlanStep => UNCHANGED nodeVars
    BY DEF PlanStep, PlanSync, PlanRemove, GenerateNotReady, GenerateRejected, GenerateSelected,
           Generating, PlanUpdate
  <1>2. \A k : JobStep(k) => UNCHANGED nodeVars \/ JobComplete(k)
    BY DEF JobStep, JobGet, JobGetLater, JobAct, JobOrphaned, JobNodeGone, JobFailed,
           JobOutOfTurn, JobInTurn
  <1>3. \A k : PodStep(k) \/ JobFails(k) \/ TTLDelete(k) => UNCHANGED nodeVars \/ PodStart(k)
    BY DEF PodStep, JobSucceeds, Elapse, JobFails, TTLDelete
  <1>4. PlanWatch \/ Resync \/ EditPlan \/ DeletePlan \/ CreatePlan \/ EditSecret
          \/ WindowOpens \/ WindowCloses => UNCHANGED nodeVars
    BY DEF PlanWatch, Resync, EditPlan, DeletePlan, CreatePlan, EditSecret, WindowOpens,
           WindowCloses
  <1>5. UNCHANGED vars => UNCHANGED nodeVars
    BY DEF vars
  <1> QED BY <1>1, <1>2, <1>3, <1>4, <1>5 DEF Next

-------------------------------------------------------------------------------
(* A plan label is earned.  The inductive invariant counts what the label is *)
(* written for: a job that is complete, and a handler's copy of one, is in   *)
(* the history of the jobs that succeeded, under the version it ran.         *)

Counted(k, j) == j.state = "complete" => <<k, j.template.version>> \in succeeded

JobsCounted ==
    /\ \A k \in DOMAIN job : Counted(k, job[k])
    /\ \A k \in DOMAIN handling : Counted(k, handling[k].job)

\* A step changes jobs, or the handlers' copies of them, in one of these ways.
JobChange ==
    \/ UNCHANGED <<job, handling, succeeded>>
    \/ /\ worker.pc = "generate" /\ Ready
       /\ \E T \in SUBSET Node : Apply(worker.plan, T)
       /\ UNCHANGED <<handling, succeeded>>
    \/ \E k : JobGet(k) \/ JobGetLater(k)
    \/ \E k : /\ handling' = Remove(handling, k) /\ UNCHANGED succeeded
              /\ job' = job \/ job' = Remove(job, k)
    \/ \E k : PodStep(k) \/ JobFails(k) \/ TTLDelete(k)
    \/ Restart

\* JobChange covers every step.
LEMMA JobSteps == [Next]_vars => JobChange
  <1> SUFFICES ASSUME [Next]_vars PROVE JobChange
    OBVIOUS
  <1>1. CASE PlanStep
    <2>1. CASE GenerateSelected
      BY <2>1 DEF GenerateSelected, Generating, GenerateWaiting, GenerateComplete, GenerateJobs,
                  JobChange
    <2>2. CASE ~GenerateSelected
      BY <1>1, <2>2 DEF PlanStep, PlanSync, PlanRemove, GenerateNotReady, GenerateRejected,
                        Generating, PlanUpdate, jobVars, JobChange
    <2> QED BY <2>1, <2>2
  <1>2. ASSUME NEW k, JobStep(k) PROVE JobChange
    <2>1. CASE JobAct(k)
      <3>1. /\ handling' = Remove(handling, k) /\ UNCHANGED succeeded
            /\ job' = job \/ job' = Remove(job, k)
        BY <2>1 DEF JobAct, JobOrphaned, JobNodeGone, JobFailed, JobComplete, JobOutOfTurn,
               JobInTurn, Handled, Belongs, Ends, UpdateNode, EnqueueOrDelete, DeleteJob,
               Retries, Deletes
      <3> QED BY <3>1 DEF JobChange
    <2> QED BY <1>2, <2>1 DEF JobStep, JobChange
  <1>3. ASSUME NEW k, PodStep(k) \/ JobFails(k) \/ TTLDelete(k) PROVE JobChange
    BY <1>3 DEF JobChange
  <1>4. CASE Restart
    BY <1>4 DEF JobChange
  <1>5. PlanWatch \/ Resync \/ (\E n \in Node : NodeWatch(n) \/ Heartbeat(n) \/ Relabel(n))
          \/ EditPlan \/ DeletePlan \/ CreatePlan \/ EditSecret \/ WindowOpens \/ WindowCloses
          => JobChange
    BY DEF PlanWatch, Resync, NodeWatch, Heartbeat, Relabel, EditPlan, DeletePlan, CreatePlan,
           EditSecret, WindowOpens, WindowCloses, jobVars, JobChange
  <1>6. UNCHANGED vars => JobChange
    BY DEF vars, jobVars, JobChange
  <1> QED BY <1>1, <1>2, <1>3, <1>4, <1>5, <1>6 DEF Next

\* What applying jobs does to each of them: it is new and paused or not, or it keeps
\* its template and is complete only if it was.
LEMMA AppliedJobs ==
    ASSUME TypeOK, NEW p \in Plan, NEW T \in SUBSET Node, Apply(p, T), NEW k \in DOMAIN job'
    PROVE  \/ /\ k \in DOMAIN job /\ job'[k].template = job[k].template
              /\ job'[k].state = "complete" => job[k].state = "complete"
           \/ /\ k[2] = p.status.hash /\ job'[k].template.version = p.status.version
              /\ job'[k].state = "active"
  <1> DEFINE keys == {<<n, p.status.hash>> : n \in T}
             D == (DOMAIN job \cup keys) \ ReplacedJobs(p, T)
  <1>1. k \in D /\ job'[k] = IF k \notin keys THEN job[k]
                             ELSE IF k \in DOMAIN job
                               THEN Patched(job[k], NewJob(p, k[1]).parallelism)
                             ELSE NewJob(p, k[1])
    BY DEF Apply
  <1>2. CASE k \in DOMAIN job
    <2>1. \A par : \A j \in Job :
            /\ Patched(j, par).template = j.template
            /\ Patched(j, par).state = "complete" => j.state = "complete"
      BY DEF Patched, Job
    <2>2. job[k] \in Job
      BY <1>2 DEF TypeOK
    <2> QED BY <1>1, <1>2, <2>1, <2>2
  <1>3. CASE k \notin DOMAIN job
    <2>1. k \in keys /\ job'[k] = NewJob(p, k[1])
      BY <1>1, <1>3
    <2>2. k[2] = p.status.hash
      BY <2>1
    <2> QED BY <2>1, <2>2 DEF NewJob, JobTemplate
  <1> QED BY <1>2, <1>3

\* A handler's copy of a job has the state, template and age of the job.
LEMMA ReadsJob ==
    ASSUME NEW j \in Job
    PROVE  Reads(j).job.state = j.state /\ Reads(j).job.template = j.template
           /\ Reads(j).job.age = j.age
  <1>1. LET q == [j EXCEPT !.parallelism = 0]
        IN  q.state = j.state /\ q.template = j.template /\ q.age = j.age
    BY DEF Job
  <1> QED BY <1>1 DEF Reads

\* Handlers start with, or go on with, a copy of their job.
LEMMA StartSteps ==
    ASSUME TypeOK, NEW k, JobGet(k) \/ JobGetLater(k)
    PROVE  /\ UNCHANGED <<job, succeeded>> /\ DOMAIN handling' = DOMAIN handling \cup {k}
           /\ \A x \in DOMAIN handling \ {k} : handling'[x] = handling[x]
           /\ \E j \in Job : /\ handling'[k] = Reads(j)
                             /\ \/ k \in DOMAIN job /\ j = job[k]
                                \/ k \in DOMAIN handling /\ j = handling[k].job
  <1>1. CASE JobGet(k)
    <2>1. k \in DOMAIN job /\ job[k] \in Job
      BY <1>1 DEF JobGet, TypeOK
    <2> HIDE DEF Reads
    <2> QED BY <1>1, <2>1 DEF JobGet, Put
  <1>2. CASE JobGetLater(k)
    <2>1. k \in DOMAIN handling /\ handling[k].job \in Job
      BY <1>2 DEF JobGetLater, TypeOK
    <2>2. handling' = [handling EXCEPT ![k] = Reads(handling[k].job)]
      BY <1>2, <2>1 DEF JobGetLater
    <2> HIDE DEF Reads
    <2> QED BY <1>2, <2>1, <2>2 DEF JobGetLater, TypeOK
  <1> QED BY <1>1, <1>2

\* A complete job was counted when it succeeded, and nothing is uncounted.
LEMMA CountedStep ==
    TypeOK /\ JobsCounted /\ JobChange => JobsCounted' /\ succeeded \subseteq succeeded'
  <1> SUFFICES ASSUME TypeOK, JobsCounted, JobChange
               PROVE  JobsCounted' /\ succeeded \subseteq succeeded'
    OBVIOUS
  <1>1. CASE UNCHANGED <<job, handling, succeeded>>
    BY <1>1 DEF JobsCounted, Counted
  <1>2. ASSUME NEW T \in SUBSET Node, worker.pc = "generate", Apply(worker.plan, T),
               UNCHANGED <<handling, succeeded>>
        PROVE  JobsCounted' /\ succeeded' = succeeded
    <2>1. worker.plan \in Plan
      BY <1>2, WorkerParts DEF TypeOK
    <2>2. \A k \in DOMAIN job' : job'[k].state = "complete" =>
             /\ k \in DOMAIN job /\ job'[k].template = job[k].template
             /\ job[k].state = "complete"
      BY <1>2, <2>1, AppliedJobs
    <2> QED BY <1>2, <2>2 DEF JobsCounted, Counted
  <1>3. ASSUME NEW k, JobGet(k) \/ JobGetLater(k) PROVE JobsCounted' /\ succeeded' = succeeded
    <2>1. PICK j \in Job : /\ handling'[k] = Reads(j)
                           /\ \/ k \in DOMAIN job /\ j = job[k]
                              \/ k \in DOMAIN handling /\ j = handling[k].job
      BY <1>3, StartSteps
    <2>2. handling'[k].job.state = j.state /\ handling'[k].job.template = j.template
      BY <2>1, ReadsJob
    <2>3. /\ UNCHANGED <<job, succeeded>> /\ DOMAIN handling' = DOMAIN handling \cup {k}
          /\ \A x \in DOMAIN handling \ {k} : handling'[x] = handling[x]
      BY <1>3, StartSteps
    <2>4. handling'[k].job.state = "complete" =>
            <<k, handling'[k].job.template.version>> \in succeeded
      BY <2>1, <2>2, <2>3 DEF JobsCounted, Counted
    <2> QED BY <2>3, <2>4 DEF JobsCounted, Counted
  <1>4. ASSUME NEW k, handling' = Remove(handling, k), UNCHANGED succeeded,
               job' = job \/ job' = Remove(job, k)
        PROVE  JobsCounted' /\ succeeded' = succeeded
    BY <1>4 DEF JobsCounted, Counted, Remove
  <1>5. ASSUME NEW k, PodStep(k) \/ JobFails(k) \/ TTLDelete(k)
        PROVE  JobsCounted' /\ succeeded \subseteq succeeded'
    <2>1. k \in DOMAIN job /\ handling' = handling /\ job[k] \in Job
      BY <1>5 DEF PodStep, PodStart, JobSucceeds, Elapse, JobFails, TTLDelete, ClusterStep, TypeOK
    <2>2. CASE PodStart(k) \/ JobFails(k)
      <3>1. PICK s : s # "complete" /\ job' = [job EXCEPT ![k].state = s] /\ succeeded' = succeeded
        BY <2>2 DEF PodStart, JobFails
      <3>2. \A x \in DOMAIN job : job'[x].state = "complete" => job'[x] = job[x]
        BY <2>1, <3>1 DEF TypeOK, Job
      <3>3. DOMAIN job' = DOMAIN job
        BY <2>1, <3>1 DEF TypeOK
      <3> QED BY <2>1, <3>1, <3>2, <3>3 DEF JobsCounted, Counted
    <2>3. CASE JobSucceeds(k)
      <3>1. /\ job' = [job EXCEPT ![k].state = "complete"]
            /\ succeeded' = succeeded \cup {<<k, job[k].template.version>>}
        BY <2>3 DEF JobSucceeds
      <3>2. DOMAIN job' = DOMAIN job /\ \A x \in DOMAIN job : job'[x].template = job[x].template
        BY <2>1, <3>1 DEF TypeOK, Job
      <3>3. \A x \in DOMAIN job : x # k => job'[x] = job[x]
        BY <2>1, <3>1 DEF TypeOK
      <3> QED BY <2>1, <3>1, <3>2, <3>3 DEF JobsCounted, Counted
    <2>4. CASE Elapse(k)
      <3>1. PICK a : job' = [job EXCEPT ![k].age = a] /\ succeeded' = succeeded
        BY <2>4 DEF Elapse
      <3>2. /\ DOMAIN job' = DOMAIN job
            /\ \A x \in DOMAIN job : /\ job'[x].template = job[x].template
                                     /\ job'[x].state = job[x].state
        BY <2>1, <3>1 DEF TypeOK, Job
      <3> QED BY <2>1, <3>1, <3>2 DEF JobsCounted, Counted
    <2>5. CASE TTLDelete(k)
      BY <2>1, <2>5 DEF TTLDelete, Deletes, Remove, JobsCounted, Counted
    <2> QED BY <1>5, <2>2, <2>3, <2>4, <2>5 DEF PodStep
  <1>6. CASE Restart
    BY <1>6 DEF Restart, Nothing, JobsCounted, Counted
  <1> QED BY <1>1, <1>2, <1>3, <1>4, <1>5, <1>6 DEF JobChange

\* A label that is not a hash.
LEMMA NotHashes == NoLabel \notin Hash /\ Disabled \notin Hash
  BY DEF NoLabel, Disabled, Hash, NoHash

\* A user changes one node, and leaves its label, removes it or disables the plan there.
LEMMA RelabelSets ==
    ASSUME TypeOK, NEW m \in Node, Relabel(m)
    PROVE  /\ node'[m].label \in {node[m].label, NoLabel, Disabled}
           /\ \A n \in Node \ {m} : node'[n] = node[n]
  <1>1. CASE node' = [node EXCEPT ![m] = [NewNode EXCEPT !.mode = "gone"]]
    BY <1>1 DEF TypeOK, NewNode
  <1>2. ASSUME NEW mode, NEW label \in {node[m].label, NoLabel, Disabled},
               node' = [node EXCEPT ![m] = [@ EXCEPT !.mode = mode, !.label = label]]
        PROVE  node'[m].label = label
    <2>1. node'[m] = [node[m] EXCEPT !.mode = mode, !.label = label] /\ node[m] \in NodeRecord
      BY <1>2 DEF TypeOK
    <2> QED BY <2>1 DEF NodeRecord
  <1>3. \A n \in Node \ {m} : node'[n] = node[n]
    BY DEF Relabel, TypeOK
  <1> QED BY <1>1, <1>2, <1>3 DEF Relabel

\* Where the label and the membership of a node come from: the node itself, at the API
\* server or in the cache, a user, or a handler that holds a complete job of the node.
LEMMA NodeSources ==
    ASSUME TypeOK, [Next]_vars, NEW n \in Node, NEW r \in {node'[n], nodeCache'[n]}
    PROVE  \/ \E q \in {node[n], nodeCache[n]} : r.label = q.label /\ r.mode = q.mode
           \/ /\ n \in touched'
              /\ r.label \in {node[n].label, NoLabel, Disabled}
           \/ \E k \in DOMAIN handling :
                /\ k[1] = n /\ handling[k].job.state = "complete"
                /\ r.label = k[2] /\ r.mode = nodeCache[n].mode
  <1>1. CASE UNCHANGED nodeVars
    BY <1>1 DEF nodeVars
  <1>2. ASSUME NEW k, JobComplete(k)
        PROVE  \/ \E q \in {node[n], nodeCache[n]} : r.label = q.label /\ r.mode = q.mode
               \/ /\ k \in DOMAIN handling /\ k[1] = n /\ handling[k].job.state = "complete"
                  /\ r.label = k[2] /\ r.mode = nodeCache[n].mode
    <2>1. /\ k \in DOMAIN handling /\ k[1] \in Node /\ handling[k].job.state = "complete"
          /\ nodeCache[k[1]] \in NodeRecord
      BY <1>2 DEF JobComplete, Handled, Belongs, IsComplete, TypeOK, Key
    <2> DEFINE tagged == Tagged(k)
    <2>2. UpdateNode(k, k[1], tagged)
      BY <1>2 DEF JobComplete
    <2>3. /\ tagged.mode = nodeCache[k[1]].mode
          /\ tagged.label = nodeCache[k[1]].label \/ tagged.label = k[2]
      BY <2>1 DEF Tagged, NodeRecord
    <2> HIDE DEF tagged
    <2>4. r \in {node[n], nodeCache[n]} \/ (k[1] = n /\ r = tagged)
      BY <2>1, <2>2 DEF UpdateNode, NodeWritten, TypeOK
    <2> QED BY <2>1, <2>3, <2>4
  <1>3. ASSUME NEW k, PodStart(k)
        PROVE  \E q \in {node[n], nodeCache[n]} : r.label = q.label /\ r.mode = q.mode
    <2>1. k[1] \in Node
      BY <1>3 DEF PodStart, TypeOK, Key
    <2>2. nodeCache' = nodeCache /\ \E u : node' = [node EXCEPT ![k[1]].unschedulable = u]
      BY <1>3 DEF PodStart
    <2>3. node'[n].label = node[n].label /\ node'[n].mode = node[n].mode
      BY <2>1, <2>2 DEF TypeOK, NodeRecord
    <2> QED BY <2>2, <2>3
  <1>4. ASSUME NEW m \in Node, NodeWatch(m) \/ Heartbeat(m)
        PROVE  r \in {node[n], nodeCache[n]}
    BY <1>4 DEF NodeWatch, Heartbeat, TypeOK
  <1>5. ASSUME NEW m \in Node, Relabel(m)
        PROVE  \/ r \in {node[n], nodeCache[n]}
               \/ n \in touched' /\ r.label \in {node[n].label, NoLabel, Disabled}
    <2>1. nodeCache' = nodeCache /\ m \in touched'
      BY <1>5 DEF Relabel
    <2>2. node'[n] = node[n] \/ m = n
      BY <1>5, RelabelSets
    <2>3. node'[m].label \in {node[m].label, NoLabel, Disabled}
      BY <1>5, RelabelSets
    <2> QED BY <2>1, <2>2, <2>3
  <1>6. CASE Restart
    BY <1>6 DEF Restart
  <1> QED BY <1>1, <1>2, <1>3, <1>4, <1>5, <1>6, NodeSteps

LabelInv == TypeOK /\ JobsCounted /\ LabelEarned

\* Every step keeps labels earned.
LEMMA LabelStep == LabelInv /\ [Next]_vars => LabelInv'
  <1> SUFFICES ASSUME TypeOK, JobsCounted, LabelEarned, [Next]_vars
               PROVE  TypeOK' /\ JobsCounted' /\ LabelEarned'
    BY DEF LabelInv
  <1>1. TypeOK'
    BY TypeStep
  <1>2. JobsCounted' /\ succeeded \subseteq succeeded'
    BY JobSteps, CountedStep
  <1>3. LabelEarned'
    <2> SUFFICES ASSUME NEW n \in Node, NEW h \in Hash, NEW r \in {node'[n], nodeCache'[n]},
                        r.label = h
                 PROVE  \E v \in Version \cup {NoVersion} : <<<<n, h>>, v>> \in succeeded
      BY <1>2 DEF LabelEarned
    <2>1. CASE h \in {node[n].label, nodeCache[n].label}
      BY <2>1 DEF LabelEarned
    <2>2. ASSUME NEW k \in DOMAIN handling, k[1] = n, k[2] = h,
                 handling[k].job.state = "complete"
          PROVE  \E v \in Version \cup {NoVersion} : <<<<n, h>>, v>> \in succeeded
      <3>1. <<k, handling[k].job.template.version>> \in succeeded
        BY <2>2 DEF JobsCounted, Counted
      <3>2. handling[k].job.template.version \in Version \cup {NoVersion} /\ k = <<n, h>>
        BY <2>2 DEF TypeOK, Key, Job, Template
      <3> QED BY <3>1, <3>2
    <2>3. \/ \E q \in {node[n], nodeCache[n]} : r.label = q.label /\ r.mode = q.mode
          \/ /\ n \in touched'
             /\ r.label \in {node[n].label, NoLabel, Disabled}
          \/ \E k \in DOMAIN handling :
               /\ k[1] = n /\ handling[k].job.state = "complete"
               /\ r.label = k[2] /\ r.mode = nodeCache[n].mode
      BY NodeSources
    <2> QED BY <2>1, <2>2, <2>3, NotHashes
  <1> QED BY <1>1, <1>2, <1>3

\* At first there are no jobs and no labels.
LEMMA LabelInit == Init => LabelInv
  <1> SUFFICES ASSUME Init PROVE JobsCounted /\ LabelEarned
    BY TypeInit DEF LabelInv
  <1>1. JobsCounted
    BY DEF Init, Nothing, JobsCounted
  <1>2. LabelEarned
    BY NotHashes DEF Init, NewNode, LabelEarned
  <1> QED BY <1>1, <1>2

\* No interleaving of stale caches, refused writes, restarts and edits puts the hash of
\* a plan on a node that no job of that hash succeeded on.
THEOREM LabelCorrect == Spec => []LabelEarned
  <1>1. LabelInv => LabelEarned
    BY DEF LabelInv
  <1> QED BY <1>1, LabelInit, LabelStep, PTL DEF Spec

-------------------------------------------------------------------------------
(* A post-complete label is earned: the handler that writes it has dropped the jobs *)
(* whose version is not the one of the plan it read.                               *)

\* Every step writes as a post-complete label what is on the node, nothing, or the
\* version of a job that succeeded on it.
LEMMA PostStep ==
    ASSUME LabelInv, PostLabelEarned, [Next]_vars
    PROVE  PostLabelEarned'
  <1> DEFINE Earned(n, v) == v = NoVersion \/ \E h \in Hash : <<<<n, h>>, v>> \in succeeded
  <1>1. /\ TypeOK /\ node \in [Node -> NodeRecord] /\ nodeCache \in [Node -> NodeRecord]
        /\ \A n \in Node : Earned(n, node[n].post) /\ Earned(n, nodeCache[n].post)
    BY DEF LabelInv, TypeOK, PostLabelEarned
  <1>2. succeeded \subseteq succeeded'
    BY JobSteps, CountedStep DEF LabelInv
  <1> HIDE DEF Earned
  <1> SUFFICES \A n \in Node : Earned(n, node'[n].post) /\ Earned(n, nodeCache'[n].post)
    BY <1>2 DEF Earned, PostLabelEarned
  <1>3. CASE UNCHANGED nodeVars
    BY <1>1, <1>3 DEF nodeVars
  <1>4. ASSUME NEW k, JobComplete(k)
        PROVE  \A n \in Node : Earned(n, node'[n].post) /\ Earned(n, nodeCache'[n].post)
    <2> DEFINE tagged == Tagged(k)
               m == k[1]
               v == handling[k].plan.status.version
    <2>1. /\ k \in DOMAIN handling /\ k = <<m, k[2]>> /\ m \in Node /\ k[2] \in Hash
          /\ handling[k].job.state = "complete" /\ handling[k].job.template.version = v
      BY <1>1, <1>4 DEF JobComplete, Handled, Belongs, IsComplete, Orphaned, TypeOK, Key
    <2>2. <<<<m, k[2]>>, v>> \in succeeded
      BY <2>1 DEF LabelInv, JobsCounted, Counted
    <2>3. UpdateNode(k, m, tagged)
      BY <1>4 DEF JobComplete
    <2>4. tagged.post = nodeCache[m].post \/ tagged.post = v
      BY <1>1, <2>1 DEF Tagged, NodeRecord
    <2> HIDE DEF tagged, m, v
    <2>5. Earned(m, tagged.post)
      BY <1>1, <2>1, <2>2, <2>4 DEF Earned
    <2>6. ASSUME NEW n \in Node
          PROVE  \A r \in {node'[n], nodeCache'[n]} :
                     r \in {node[n], nodeCache[n]} \/ (n = m /\ r = tagged)
      BY <1>1, <2>1, <2>3 DEF UpdateNode, NodeWritten
    <2> QED BY <1>1, <2>5, <2>6
  <1>5. ASSUME NEW k, PodStart(k)
        PROVE  \A n \in Node : Earned(n, node'[n].post) /\ Earned(n, nodeCache'[n].post)
    <2>1. k[1] \in Node
      BY <1>1, <1>5 DEF PodStart, TypeOK, Key
    <2>2. nodeCache' = nodeCache /\ \E u : node' = [node EXCEPT ![k[1]].unschedulable = u]
      BY <1>5 DEF PodStart
    <2>3. \A n \in Node : node'[n].post = node[n].post
      BY <1>1, <2>1, <2>2 DEF NodeRecord
    <2> QED BY <1>1, <2>2, <2>3
  <1>6. ASSUME NEW m \in Node, NodeWatch(m) \/ Heartbeat(m)
        PROVE  \A n \in Node : Earned(n, node'[n].post) /\ Earned(n, nodeCache'[n].post)
    BY <1>1, <1>6 DEF NodeWatch, Heartbeat
  <1>7. ASSUME NEW m \in Node, Relabel(m)
        PROVE  \A n \in Node : Earned(n, node'[n].post) /\ Earned(n, nodeCache'[n].post)
    <2>1. nodeCache' = nodeCache /\ \A n \in Node \ {m} : node'[n] = node[n]
      BY <1>1, <1>7, RelabelSets DEF Relabel
    <2>2. node'[m].post = node[m].post \/ node'[m].post = NoVersion
      <3>1. CASE node' = [node EXCEPT ![m] = [NewNode EXCEPT !.mode = "gone"]]
        BY <1>1, <3>1 DEF NewNode
      <3>2. ASSUME NEW mode, NEW label,
                   node' = [node EXCEPT ![m] = [@ EXCEPT !.mode = mode, !.label = label]]
            PROVE  node'[m].post = node[m].post
        <4>1. node'[m] = [node[m] EXCEPT !.mode = mode, !.label = label] /\ node[m] \in NodeRecord
          BY <1>1, <3>2
        <4> QED BY <4>1 DEF NodeRecord
      <3> QED BY <1>7, <3>1, <3>2 DEF Relabel
    <2>3. Earned(m, NoVersion)
      BY DEF Earned
    <2> QED BY <1>1, <2>1, <2>2, <2>3
  <1>8. CASE Restart
    BY <1>1, <1>8 DEF Restart
  <1> QED BY <1>3, <1>4, <1>5, <1>6, <1>7, <1>8, NodeSteps

\* No edit of the plan between the success of a job and its handling makes handleJobs put
\* on the node the name of a version that was not applied there.
THEOREM PostLabelCorrect == Spec => []PostLabelEarned
  <1>1. Init => PostLabelEarned
    BY DEF Init, NewNode, PostLabelEarned
  <1>2. LabelInv /\ PostLabelEarned /\ [Next]_vars => PostLabelEarned'
    BY PostStep
  <1> QED BY <1>1, <1>2, LabelInit, LabelStep, PTL DEF Spec
===============================================================================
