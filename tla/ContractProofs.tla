---------------------------- MODULE ContractProofs ----------------------------
(***************************************************************************)
(* The controller implements the contract of a Plan, for every instance in *)
(* which no secret disappears within one sync and every plan allows at     *)
(* least one node.                                                         *)
(*                                                                         *)
(* CompletionProofs shows that what is written as complete has been        *)
(* applied, whichever handler writes it and whether the answer to the      *)
(* write is lost or not.  What is left is the labels.  A handler writes    *)
(* the cached node, whose label may be one that an earlier handler set     *)
(* there and could not write: then it is a hash, and was earned.           *)
(***************************************************************************)
EXTENDS UpgradeContract, CompletionProofs

\* The cached label of a node whose events have all arrived is the node's own, or one
\* that a job handler has set.
CacheLabels ==
    \A n \in Node :
        ~nodeStale[n] => nodeCache[n].label = node[n].label \/ nodeCache[n].label \in Hash

ContractInv == CompleteInv /\ CacheLabels

\* Nothing else sets a label in the cache, and an event brings the node's own.
LEMMA CacheLabelsStep == TypeOK /\ CacheLabels /\ [Next]_vars => CacheLabels'
  <1> SUFFICES ASSUME TypeOK, CacheLabels, [Next]_vars PROVE CacheLabels'
    OBVIOUS
  <1>1. CASE UNCHANGED nodeVars
    BY <1>1 DEF nodeVars, CacheLabels
  <1>2. ASSUME NEW k, JobComplete(k) PROVE CacheLabels'
    <2> DEFINE tagged == Tagged(k)
    <2>1. k \in DOMAIN handling /\ k[1] \in Node /\ k[2] \in Hash /\ nodeCache[k[1]] \in NodeRecord
      BY <1>2 DEF JobComplete, Handled, Belongs, TypeOK, Key
    <2>2. tagged.label = nodeCache[k[1]].label \/ tagged.label = k[2]
      BY <2>1 DEF Tagged, NodeRecord
    <2> HIDE DEF tagged
    <2>3. UpdateNode(k, k[1], tagged)
      BY <1>2 DEF JobComplete, tagged
    <2> QED BY <2>1, <2>2, <2>3 DEF UpdateNode, NodeWritten, CacheLabels, TypeOK
  <1>3. ASSUME NEW k, PodStart(k) PROVE CacheLabels'
    <2>1. k[1] \in Node /\ nodeCache' = nodeCache
      BY <1>3 DEF PodStart, TypeOK, Key
    <2>2. \E u : node' = [node EXCEPT ![k[1]].unschedulable = u]
      BY <1>3 DEF PodStart
    <2>3. \E u : nodeStale' = [nodeStale EXCEPT ![k[1]] = nodeStale[k[1]] \/ u]
      BY <1>3, <2>1 DEF PodStart, TypeOK
    <2>4. \A n \in Node : node'[n].label = node[n].label
      BY <2>1, <2>2 DEF TypeOK, NodeRecord
    <2> QED BY <2>1, <2>3, <2>4 DEF CacheLabels, TypeOK
  <1>4. ASSUME NEW n \in Node, NodeWatch(n) \/ Heartbeat(n) \/ Relabel(n) PROVE CacheLabels'
    <2>1. CASE NodeWatch(n)
      BY <2>1 DEF NodeWatch, CacheLabels, TypeOK
    <2>2. CASE Heartbeat(n)
      BY <2>2 DEF Heartbeat, CacheLabels, TypeOK
    <2>3. CASE Relabel(n)
      <3>1. nodeStale'[n] /\ \A m \in Node \ {n} : node'[m] = node[m] /\ nodeStale'[m] = nodeStale[m]
        BY <2>3, RelabelSets DEF Relabel, TypeOK
      <3>2. nodeCache' = nodeCache
        BY <2>3 DEF Relabel
      <3> QED BY <3>1, <3>2 DEF CacheLabels
    <2> QED BY <1>4, <2>1, <2>2, <2>3
  <1>5. CASE Restart
    BY <1>5 DEF Restart, CacheLabels
  <1> QED BY <1>1, <1>2, <1>3, <1>4, <1>5, NodeSteps

-------------------------------------------------------------------------------
(* The steps of the contract. *)

\* What a user sees of a plan and of the nodes: the mapping of UpgradeContract.
Claim(p) == [exists |-> p.exists,
             version |-> IF p.exists THEN p.status.version ELSE NoVersion,
             complete |-> p.exists /\ IsTrue(p.status.complete)]

Labels(nodes) == [n \in Node |-> nodes[n].label]

\* A status that is not complete reopens the plan; one that is complete, completes it.
LEMMA WriteClaims ==
    ASSUME TypeOK, plan.exists, NEW st \in Status(HostnameValue),
           Truthful(st, succeeded, touched),
           plan' = WithStatus(st), UNCHANGED <<node, touched, succeeded>>
    PROVE  Contract!Complete \/ Contract!Reopen
  <1>1. /\ plan \in Plan /\ plan'.exists /\ plan'.status = st
        /\ st.version \in Version \cup {NoVersion}
        /\ plan.exists = TRUE /\ plan'.exists = TRUE
    <2>1. /\ plan \in Plan /\ plan.exists = TRUE /\ plan'.status = st
          /\ st.version \in Version \cup {NoVersion}
      BY WithStatusHas DEF TypeOK, Status, Plan
    <2>2. [plan EXCEPT !.rv = plan.rv + 1, !.status = st].exists = plan.exists
      BY <2>1 DEF Plan
    <2> QED BY <2>1, <2>2 DEF WithStatus
  <1>2. Claim(plan).exists
    BY DEF Claim
  <1>3. CASE IsTrue(st.complete)
    <2>1. \A n \in Node \ touched : \E h \in Hash : <<<<n, h>>, st.version>> \in succeeded
      BY <1>3 DEF Truthful
    <2>2. Claim(plan') = [exists |-> TRUE, version |-> st.version, complete |-> TRUE]
      BY <1>1, <1>3 DEF Claim, IsTrue
    <2> QED BY <1>1, <1>2, <2>1, <2>2 DEF Contract!Complete, Contract!Done, Claim
  <1>4. CASE ~IsTrue(st.complete)
    <2>1. Claim(plan') = [exists |-> TRUE, version |-> st.version, complete |-> FALSE]
      BY <1>1, <1>4 DEF Claim, IsTrue
    <2> QED BY <1>1, <1>2, <2>1 DEF Contract!Reopen, Contract!Open, Claim
  <1> QED BY <1>3, <1>4

\* The claim of the plan that is deleted, edited or created again.
LEMMA UserClaims ==
    ASSUME TypeOK, EditPlan \/ DeletePlan \/ CreatePlan
    PROVE  Contract!Next \/ UNCHANGED Contract!vars
  <1>1. UNCHANGED <<node, touched, succeeded>> /\ plan \in Plan
    BY DEF EditPlan, DeletePlan, CreatePlan, nodeVars, jobVars, TypeOK
  <1>2. CASE EditPlan
    <2>1. PICK s : plan' = [plan EXCEPT !.rv = plan.rv + 1, !.spec = s]
      BY <1>2 DEF EditPlan
    <2>2. plan'.exists = plan.exists /\ plan'.status = plan.status
      BY <1>1, <2>1 DEF Plan
    <2> QED BY <1>1, <2>2 DEF Contract!vars
  <1>3. CASE DeletePlan
    <2>1. plan' = [plan EXCEPT !.rv = plan.rv + 1, !.exists = FALSE]
      BY <1>3 DEF DeletePlan
    <2>2. plan'.exists = FALSE
      BY <1>1, <2>1 DEF Plan
    <2>3. Claim(plan') = [exists |-> FALSE, version |-> NoVersion, complete |-> FALSE]
      BY <2>2 DEF Claim
    <2>4. Contract!Withdraw
      BY <1>1, <2>3 DEF Contract!Withdraw, Contract!Withdrawn, Claim
    <2> QED BY <2>4 DEF Contract!Next
  <1>4. CASE CreatePlan
    <2>1. ~plan.exists /\ plan'.exists = TRUE /\ plan'.status = NewStatus
      BY <1>4 DEF CreatePlan
    <2>2. Claim(plan') = [exists |-> TRUE, version |-> NoVersion, complete |-> FALSE]
      <3>1. NewStatus.version = NoVersion /\ IsTrue(NewStatus.complete) = FALSE
        BY DEF NewStatus, Absent, IsTrue
      <3> QED BY <2>1, <3>1 DEF Claim
    <2>3. ~Claim(plan).exists
      BY <2>1 DEF Claim
    <2>4. Contract!Announce
      BY <1>1, <2>2, <2>3 DEF Contract!Announce, Contract!Open, Claim
    <2> QED BY <2>4 DEF Contract!Next
  <1> QED BY <1>2, <1>3, <1>4

\* The writes of the handlers are of statuses that are truthful.
LEMMA HandlerClaims ==
    ASSUME ~SecretVanishes, \A s \in Specs : s.concurrency >= 1, ContractInv, [Next]_vars,
           PlanSync \/ PlanUpdate \/ \E k : JobFailed(k)
    PROVE  Contract!Next \/ UNCHANGED Contract!vars
  <1>1. TypeOK /\ UNCHANGED <<node, touched, succeeded>> /\ plan \in Plan /\ planCache \in Plan
    BY DEF ContractInv, CompleteInv, LabelInv, TypeOK, PlanSync, PlanUpdate, JobFailed, Handled,
           Belongs, Ends, nodeVars, jobVars
  <1>2. CASE plan' = plan
    BY <1>1, <1>2 DEF Contract!vars
  <1>3. ASSUME NEW st \in Status(HostnameValue), NEW p, Current(p), plan' = WithStatus(st)
        PROVE  Contract!Next
    <2>1. plan'.status = st /\ plan.exists
      BY <1>1, <1>3, WithStatusHas DEF Current
    <2>2. Truthful(st, succeeded, touched)
      BY <2>1, StatusStep DEF ContractInv, StillTruthful
    <2> QED BY <1>1, <1>3, <2>1, <2>2, WriteClaims DEF Contract!Next
  <1>4. CASE PlanSync
    <2> DEFINE out == SyncOut(secret')
    <2>1. /\ out.status \in Status(HostnameValue)
          /\ plan' = plan \/ (Current(planCache) /\ plan' = WithStatus(out.status))
      BY <1>1, <1>4, SyncOutcome
    <2> HIDE DEF out
    <2> QED BY <1>2, <1>3, <2>1
  <1>5. CASE PlanUpdate
    <2>1. plan' = plan \/ (Current(worker.plan) /\ plan' = WithStatus(worker.out))
      BY <1>5 DEF PlanUpdate, Writes, WriteFails
    <2>2. worker.out \in Status(HostnameValue)
      BY <1>1, <1>5, WorkerParts DEF PlanUpdate, TypeOK
    <2> QED BY <1>2, <1>3, <2>1, <2>2
  <1>6. ASSUME NEW k, JobFailed(k) PROVE Contract!Next \/ UNCHANGED Contract!vars
    <2> DEFINE p == handling[k].plan
               st == [p.status EXCEPT !.complete = SetError(@, "JobFailed", k[1], Now)]
    <2>1. p \in Plan /\ k[1] \in Node
      BY <1>1, <1>6 DEF JobFailed, Handled, Belongs, TypeOK, Key
    <2>2. st \in Status(HostnameValue)
      BY <2>1, PlanParts, CompleteWrites, StatusWrites
    <2>3. plan' = plan \/ (Current(p) /\ plan' = WithStatus(st))
      BY <1>6 DEF JobFailed, Writes, WriteFails
    <2> HIDE DEF p, st
    <2> QED BY <1>2, <1>3, <2>2, <2>3
  <1> QED BY <1>4, <1>5, <1>6

\* A node's label changes to what a complete job earned there, or to what a user sets.
LEMMA NodeClaims ==
    ASSUME ContractInv, [Next]_vars, ~UNCHANGED nodeVars
    PROVE  Contract!Next \/ UNCHANGED Contract!vars
  <1>1. TypeOK /\ node \in [Node -> NodeRecord] /\ nodeCache \in [Node -> NodeRecord]
    BY DEF ContractInv, CompleteInv, LabelInv, TypeOK
  <1>2. ASSUME UNCHANGED <<plan, touched, succeeded>>, Labels(node') = Labels(node)
        PROVE  UNCHANGED Contract!vars
    BY <1>2 DEF Contract!vars, Labels
  <1>3. ASSUME NEW k, JobComplete(k) PROVE Contract!Next \/ UNCHANGED Contract!vars
    <2> DEFINE tagged == Tagged(k)
               n == k[1]
               v == handling[k].job.template.version
    <2>1. /\ k \in DOMAIN handling /\ n \in Node /\ k[2] \in Hash /\ k = <<n, k[2]>>
          /\ v \in Version \cup {NoVersion} /\ handling[k].job.state = "complete"
      BY <1>1, <1>3 DEF JobComplete, Handled, Belongs, IsComplete, TypeOK, Key, Job, Template
    <2>2. <<<<n, k[2]>>, v>> \in succeeded
      BY <2>1 DEF ContractInv, CompleteInv, LabelInv, JobsCounted, Counted
    <2>3. UNCHANGED <<plan, touched, succeeded>>
      BY <1>3 DEF JobComplete, Handled, Belongs, Ends
    <2>4. \/ node' = node
          \/ node' = [node EXCEPT ![n] = tagged] /\ ~nodeStale[n]
      BY <1>3 DEF JobComplete, UpdateNode, NodeWritten
    <2>5. tagged.label = nodeCache[n].label \/ tagged.label = k[2]
      BY <1>1, <2>1 DEF Tagged, NodeRecord
    <2> HIDE DEF tagged, n, v
    <2>6. CASE node' = node
      BY <1>2, <2>3, <2>6
    <2>7. CASE node' = [node EXCEPT ![n] = tagged] /\ ~nodeStale[n]
      <3>1. Labels(node') = [Labels(node) EXCEPT ![n] = tagged.label]
        BY <1>1, <2>1, <2>7 DEF Labels
      <3>2. ASSUME tagged.label = k[2] PROVE Contract!Tag
        BY <2>1, <2>2, <2>3, <3>1, <3>2 DEF Contract!Tag, Labels
      <3>3. CASE tagged.label = nodeCache[n].label
        <4>1. CASE nodeCache[n].label = node[n].label
          <5>1. Labels(node') = Labels(node)
            BY <1>1, <2>1, <3>1, <3>3, <4>1 DEF Labels
          <5> QED BY <1>2, <2>3, <5>1
        <4>2. CASE nodeCache[n].label \in Hash
          <5>1. PICK w \in Version \cup {NoVersion} : <<<<n, tagged.label>>, w>> \in succeeded
            BY <2>1, <3>3, <4>2 DEF ContractInv, CompleteInv, LabelInv, LabelEarned
          <5>2. Contract!Tag
            BY <2>1, <2>3, <3>1, <3>3, <4>2, <5>1 DEF Contract!Tag, Labels
          <5> QED BY <5>2 DEF Contract!Next
        <4> QED BY <2>1, <2>7, <4>1, <4>2 DEF ContractInv, CacheLabels
      <3> QED BY <2>5, <3>2, <3>3 DEF Contract!Next
    <2> QED BY <2>4, <2>6, <2>7
  <1>4. ASSUME NEW k, PodStart(k) PROVE UNCHANGED Contract!vars
    <2>1. k[1] \in Node /\ UNCHANGED <<plan, touched, succeeded>>
      BY <1>1, <1>4 DEF PodStart, ClusterStep, planVars, TypeOK, Key
    <2>2. \E u : node' = [node EXCEPT ![k[1]].unschedulable = u]
      BY <1>4 DEF PodStart
    <2>3. Labels(node') = Labels(node)
      BY <1>1, <2>1, <2>2 DEF Labels, NodeRecord
    <2> QED BY <1>2, <2>1, <2>3
  <1>5. ASSUME NEW m \in Node, NodeWatch(m) \/ Heartbeat(m) PROVE UNCHANGED Contract!vars
    BY <1>2, <1>5 DEF NodeWatch, Heartbeat, planVars, jobVars
  <1>6. ASSUME NEW m \in Node, Relabel(m) PROVE Contract!Exempt
    <2>1. UNCHANGED <<plan, succeeded>> /\ touched' = touched \cup {m}
      BY <1>6 DEF Relabel, planVars, jobVars
    <2>2. /\ node'[m].label \in {node[m].label, NoLabel, Disabled}
          /\ \A n \in Node \ {m} : node'[n] = node[n]
      BY <1>1, <1>6, RelabelSets
    <2>3. Labels(node') = [Labels(node) EXCEPT ![m] = node'[m].label]
      BY <2>2 DEF Labels
    <2>4. node'[m].label \in {NoLabel, Disabled} \cup {Labels(node)[m]}
      BY <2>2 DEF Labels
    <2> QED BY <2>1, <2>3, <2>4 DEF Contract!Exempt, Labels
  <1>7. CASE Restart
    BY <1>2, <1>7 DEF Restart
  <1> QED BY <1>3, <1>4, <1>5, <1>6, <1>7, NodeSteps DEF Contract!Next

\* What is applied grows by the success of a job.
LEMMA JobClaims ==
    ASSUME TypeOK, NEW k, JobSucceeds(k)
    PROVE  Contract!Succeed
  <1>1. /\ k \in Key /\ job[k].template.version \in Version \cup {NoVersion}
        /\ succeeded' = succeeded \cup {<<k, job[k].template.version>>}
        /\ UNCHANGED <<plan, node, touched>>
    BY DEF JobSucceeds, ClusterStep, planVars, nodeVars, TypeOK, Job, Template
  <1>2. PICK n \in Node, h \in Hash : k = <<n, h>>
    BY <1>1 DEF Key
  <1> QED BY <1>1, <1>2 DEF Contract!Succeed

\* Where the plan and what is applied change.
LEMMA SeenSteps ==
    ASSUME [Next]_vars
    PROVE  \/ UNCHANGED <<plan, succeeded>>
           \/ PlanSync \/ PlanUpdate \/ (\E k : JobFailed(k))
           \/ EditPlan \/ DeletePlan \/ CreatePlan
           \/ \E k : JobSucceeds(k)
  <1>1. PlanStep => UNCHANGED <<plan, succeeded>> \/ PlanSync \/ PlanUpdate
    BY DEF PlanStep, PlanRemove, GenerateNotReady, GenerateRejected, GenerateSelected, Generating,
           jobVars
  <1>2. \A k : JobStep(k) => UNCHANGED <<plan, succeeded>> \/ JobFailed(k)
    BY DEF JobStep, JobGet, JobGetLater, JobAct, JobOrphaned, JobNodeGone, JobComplete,
           JobOutOfTurn, JobInTurn, Handled, Belongs, Ends, planVars
  <1>3. \A k : PodStep(k) \/ JobFails(k) \/ TTLDelete(k) =>
               UNCHANGED <<plan, succeeded>> \/ JobSucceeds(k)
    BY DEF PodStep, PodStart, Elapse, JobFails, TTLDelete, ClusterStep, planVars
  <1>4. PlanWatch \/ Resync \/ Restart \/ (\E n \in Node : NodeWatch(n) \/ Heartbeat(n) \/ Relabel(n))
          \/ EditSecret \/ WindowOpens \/ WindowCloses \/ UNCHANGED vars
          => UNCHANGED <<plan, succeeded>>
    BY DEF PlanWatch, Resync, Restart, NodeWatch, Heartbeat, Relabel, EditSecret, WindowOpens,
           WindowCloses, vars, planVars, jobVars
  <1> QED BY <1>1, <1>2, <1>3, <1>4 DEF Next

\* Every step of the controller, the cluster and the users keeps the contract.
LEMMA ContractStep ==
    ASSUME ~SecretVanishes, \A s \in Specs : s.concurrency >= 1, ContractInv, [Next]_vars
    PROVE  [Contract!Next]_Contract!vars
  <1>1. TypeOK
    BY DEF ContractInv, CompleteInv, LabelInv
  <1>2. CASE ~UNCHANGED nodeVars
    BY <1>2, NodeClaims
  <1>3. CASE UNCHANGED nodeVars /\ UNCHANGED <<plan, succeeded>>
    BY <1>3 DEF nodeVars, Contract!vars
  <1>4. CASE PlanSync \/ PlanUpdate \/ \E k : JobFailed(k)
    BY <1>4, HandlerClaims
  <1>5. CASE EditPlan \/ DeletePlan \/ CreatePlan
    BY <1>1, <1>5, UserClaims
  <1>6. ASSUME NEW k, JobSucceeds(k) PROVE Contract!Next
    BY <1>1, <1>6, JobClaims DEF Contract!Next
  <1> QED BY <1>2, <1>3, <1>4, <1>5, <1>6, SeenSteps

\* A new plan claims nothing.
LEMMA ContractInit == Init => ContractInv /\ Contract!Init
  <1> SUFFICES ASSUME Init PROVE ContractInv /\ Contract!Init
    OBVIOUS
  <1>1. CompleteInv
    BY CompleteInit
  <1>2. CacheLabels
    BY DEF Init, CacheLabels
  <1>3. Contract!Init
    <2>1. Claim(plan) = [exists |-> TRUE, version |-> NoVersion, complete |-> FALSE]
      <3>1. NewStatus.version = NoVersion /\ IsTrue(NewStatus.complete) = FALSE
        BY DEF NewStatus, Absent, IsTrue
      <3>2. plan.exists = TRUE /\ plan.status = NewStatus
        BY DEF Init
      <3> QED BY <3>1, <3>2 DEF Claim
    <2>2. Labels(node) \in [Node -> {NoLabel, Disabled}]
      BY DEF Init, NewNode, Labels
    <2>3. succeeded = {} /\ touched = {}
      BY DEF Init
    <2> QED BY <2>1, <2>2, <2>3 DEF Contract!Init, Contract!Open, Claim, Labels
  <1> QED BY <1>1, <1>2, <1>3 DEF ContractInv

\* The controller of pkg/upgrade, with its caches, queues, handlers and jobs, implements the
\* contract of a Plan: no interleaving of them shows a user a step the contract lacks.
THEOREM ContractKept ==
    ASSUME ~SecretVanishes, \A s \in Specs : s.concurrency >= 1
    PROVE  Spec => KeepsContract
  <1>1. ContractInv /\ [Next]_vars => ContractInv'
    <2> SUFFICES ASSUME ContractInv, [Next]_vars PROVE ContractInv'
      OBVIOUS
    <2> QED BY CompleteStep, CacheLabelsStep DEF ContractInv, CompleteInv, LabelInv
  <1>2. ContractInv /\ [Next]_vars => [Contract!Next]_Contract!vars
    BY ContractStep
  <1> QED BY <1>1, <1>2, ContractInit, PTL DEF Spec, KeepsContract, Contract!Spec
===============================================================================
