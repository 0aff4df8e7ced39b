--------------------------- MODULE ConcurrencyProofs --------------------------
(***************************************************************************)
(* One rollout, while nobody edits plan, nodes or secret, for every set of *)
(* nodes and every number of conflicts, failures, restarts and turns of    *)
(* the window: a plan runs on no more nodes than its concurrency, one node *)
(* at a time in a fixed order, the message of a failed job stays, and what *)
(* a failed write leaves in the node cache is tried again.                 *)
(*                                                                         *)
(* The argument: then all copies of the plan aim at one version and hash,  *)
(* so no job is replaced, and only a job made before the plan's status was *)
(* ever written is orphaned.  A node leaves Status.Applying only           *)
(* because the cache the controller selects from has its label, and it has *)
(* that label only when the node's job is over for good: the node carries  *)
(* the label, or the complete job still stands and no handler is about to  *)
(* delete it.  So whatever old list of nodes a sync works from, it does    *)
(* not unpause the job of a node that was taken off the list.              *)
(***************************************************************************)
EXTENDS CompletionProofs

\* Nobody changes the plan, a node or the secret.
Unedited == UNCHANGED <<plan.exists, plan.spec, touched, secret>>

\* The status handler can resolve the version of the plan.
Usable(spec, sec) == Validate(spec, sec) = NoError /\ spec.version # NoVersion

\* The hash it then computes.
Target(spec, sec) ==
    Digest(MungeVersion(spec.version),
           IF spec.secret = "watched" THEN sec ELSE NotHashed,
           IF spec.annotated THEN spec.upgrade ELSE NotHashed)

\* A status that the status handler has seen.
Settled(st, spec, sec) ==
    IF Usable(spec, sec)
      THEN /\ IsTrue(st.validated) /\ IsTrue(st.resolved)
           /\ st.version = MungeVersion(spec.version) /\ st.hash = Target(spec, sec)
      ELSE ~IsTrue(st.resolved)

\* The hash that everything aims at while nothing is edited.
Aim == Target(plan.spec, secret)

-------------------------------------------------------------------------------
(* The inductive invariant. *)

\* What a worker and a job handler hold of the plan, next to the plan p itself.
WorkerAgrees(w, p, sec) ==
    /\ w.plan.spec = p.spec /\ w.plan.rv <= p.rv
    /\ w.plan.rv = p.rv => w.plan.status.applying = p.status.applying
    /\ Settled(w.plan.status, p.spec, sec) /\ Settled(w.out, p.spec, sec)

\* A handler that read the plan before the plan had its version finds its job orphaned.
HandlerAgrees(h, p, sec) ==
    /\ h.plan.exists /\ h.plan.spec = p.spec
    /\ h.job.template.version = MungeVersion(p.spec.version)
    /\ Orphaned(h.job, h.plan) => ~IsComplete(h.job)
    /\ IsFailed(h.job) /\ ~Orphaned(h.job, h.plan) =>
         /\ h.plan.rv <= p.rv /\ Settled(h.plan.status, p.spec, sec)
         /\ h.plan.rv = p.rv => h.plan.status.applying = p.status.applying

CopiesAgree ==
    /\ plan.exists /\ touched = {}
    /\ planCache.spec = plan.spec /\ planCache.rv <= plan.rv
    /\ planCache.rv = plan.rv => planCache.status = plan.status
    /\ IsTrue(planCache.status.resolved) => Usable(plan.spec, secret)
    /\ worker.pc # "idle" => WorkerAgrees(worker, plan, secret)
    /\ \A k \in DOMAIN handling : HandlerAgrees(handling[k], plan, secret)

\* A job as this plan makes it.
JobAgrees(j, spec) ==
    /\ j.template = [version |-> MungeVersion(spec.version),
                     upgrade |-> spec.upgrade, cordon |-> spec.cordon]
    /\ j.state = "running" => j.parallelism = 1
    /\ Unfinished(j) => j.age = 0

\* Until the plan's status is written, all jobs are paused, even when a sync whose write
\* failed goes on to make them.
Fresh ==
    /\ plan.status = NewStatus /\ planCache = plan
    /\ worker.pc # "idle" => worker.plan.status.applying = {}
    /\ \A k \in DOMAIN job : job[k].parallelism = 0 /\ ~IsComplete(job[k])
    /\ \A k \in DOMAIN handling : ~IsComplete(handling[k].job)

\* Once it is written, the plan has its version and hash for good.
JobsAgree ==
    /\ Settled(plan.status, plan.spec, secret) \/ Fresh
    /\ DOMAIN job # {} \/ DOMAIN handling # {} => Usable(plan.spec, secret)
    /\ \A k \in DOMAIN job : k[2] = Aim /\ JobAgrees(job[k], plan.spec)
    /\ \A k \in DOMAIN handling : k[2] = Aim

Labelled(k) == node[k[1]].label = k[2]

Cached(k) == nodeCache[k[1]].label = k[2]

Stands(k) == k \in DOMAIN job /\ IsComplete(job[k]) /\ DelayOver(job[k], plan.spec)

\* The job of k is over for good.
Past(k) == Labelled(k) \/ (Stands(k) /\ (k \in DOMAIN handling => IsComplete(handling[k].job)))

\* A handler's copy of a finished job is current until the end of the TTL.
ReadCurrent ==
    \A k \in DOMAIN handling :
        ~Unfinished(handling[k].job) /\ handling[k].job.age < 2 =>
            /\ k \in DOMAIN job
            /\ job[k].state = handling[k].job.state /\ job[k].age = handling[k].job.age

\* At the end of its TTL a complete job has labelled its node.
AgedLabelled ==
    /\ \A k \in DOMAIN job : IsComplete(job[k]) /\ job[k].age = 2 => Labelled(k)
    /\ \A k \in DOMAIN handling :
         IsComplete(handling[k].job) /\ handling[k].job.age = 2 => Labelled(k)

\* A complete job whose delay is over labels its node before its handler is done.
HandlerLabels ==
    \A k \in DOMAIN job :
        /\ IsComplete(job[k]) /\ DelayOver(job[k], plan.spec) /\ k \notin jobQueue
        /\ k \in DOMAIN handling => ~IsComplete(handling[k].job)
        => Labelled(k)

\* The label in the cache, the label on the node and the job.
LabelsAgree ==
    /\ \A k \in Key : k[2] = Aim /\ Cached(k) => Past(k)
    /\ \A k \in Key : k[2] = Aim /\ Labelled(k) => Cached(k)
    /\ \A k \in DOMAIN job : Labelled(k) => Stands(k)

\* A node on an old list that is not on the plan's is done with, and so is one that the
\* worker is about to take off.
ListsAgree ==
    \A k \in Key : k[2] = Aim =>
        /\ Hostname[k[1]] \in planCache.status.applying \ plan.status.applying => Past(k)
        /\ worker.pc # "idle" /\ Hostname[k[1]] \in worker.plan.status.applying \ plan.status.applying
             => Past(k)
        /\ worker.pc = "update" /\ Hostname[k[1]] \in worker.plan.status.applying \ worker.out.applying
             => Past(k)

Registered ==
    \A k \in DOMAIN job :
        ~IsComplete(job[k]) /\ job[k].parallelism = 1 => Hostname[k[1]] \in plan.status.applying

TurnInv ==
    /\ TypeOK /\ NodesSelected
    /\ CopiesAgree /\ JobsAgree
    /\ ReadCurrent /\ AgedLabelled /\ HandlerLabels /\ LabelsAgree
    /\ ListsAgree /\ Registered

-------------------------------------------------------------------------------
(* The status handler. *)

\* What the status handler leaves when no channel answers.
Resolves(spec, status, sec, out) ==
    /\ Usable(spec, sec) => ~out.err /\ Settled(out.status, spec, sec)
    /\ ~Usable(spec, sec) /\ ~IsTrue(status.resolved) => ~IsTrue(out.status.resolved)

\* The status handler resolves the version that the spec names and no other.
LEMMA StatusHandlerSettles ==
    ASSUME NEW spec \in PlanSpec, NEW status \in Status(HostnameValue),
           NEW sec \in Secret \cup {Missing}
    PROVE  Resolves(spec, status, sec, StatusHandler(spec, status, sec, sec, NoAnswer, Now))
  <1> DEFINE st == Validated(spec, status, sec, Now)
             unresolved == [st EXCEPT !.resolved = SetError(@, "Error", "Unresolvable", Now)]
             latest == Resolve(st, MungeVersion(spec.version), "Version", Now)
             Good(o) == Resolves(spec, status, sec, o)
  <1>1. Now \in Nat /\ Texts \subseteq Message
    BY TextsAreMessages DEF Now
  <1>2. st \in Status(HostnameValue) /\ (IsTrue(st.resolved) <=> IsTrue(status.resolved))
    BY <1>1, ValidatedType
  <1>3. ASSUME NEW s \in Status(HostnameValue)
        PROVE  DigestStatus(spec, s, sec).status.resolved = s.resolved
    <2> DEFINE o == DigestStatus(spec, s, sec)
    <2>1. o.status = [s EXCEPT !.hash = o.status.hash]
      BY DigestType
    <2> HIDE DEF o
    <2> QED BY <2>1 DEF Status, o
  <1>4. ASSUME Validate(spec, sec) # NoError
        PROVE  Good(DigestStatus(spec, st, sec))
    <2> HIDE DEF st
    <2> QED BY <1>2, <1>3, <1>4 DEF Resolves, Usable
  <1>5. ASSUME spec.version = NoVersion
        PROVE  Good(DigestStatus(spec, unresolved, sec))
    <2> DEFINE resolved == SetError(st.resolved, "Error", "Unresolvable", Now)
    <2> HIDE DEF st
    <2>1. resolved \in Condition /\ ~IsTrue(resolved)
      <3>1. st.resolved \in Condition
        BY <1>2 DEF Status
      <3>2. "Unresolvable" \in Message \cup {NoError} /\ "Error" \in Reason
        BY <1>1 DEF Texts, Reason
      <3>3. "Unresolvable" # NoError
        BY DEF NoError
      <3> QED BY <1>1, <3>1, <3>2, <3>3, SetErrorType
    <2>2. unresolved = [st EXCEPT !.resolved = resolved]
      BY <1>2 DEF Status
    <2> HIDE DEF resolved, unresolved
    <2>3. unresolved \in Status(HostnameValue) /\ unresolved.resolved = resolved
      BY <1>2, <2>1, <2>2 DEF Status
    <2>4. ~IsTrue(DigestStatus(spec, unresolved, sec).status.resolved)
      BY <1>3, <2>1, <2>3
    <2> QED BY <1>5, <2>4 DEF Resolves, Usable
  <1>6. ASSUME Validate(spec, sec) = NoError, spec.version # NoVersion
        PROVE  Good(DigestStatus(spec, latest, sec))
    <2> DEFINE v == MungeVersion(spec.version)
               h == Target(spec, sec)
               d == DigestStatus(spec, latest, sec)
    <2>1. v \in Version
      BY <1>6, VersionAssumption DEF MungeVersion, PlanSpec
    <2>2. /\ latest \in Status(HostnameValue) /\ latest.version = v
          /\ latest.resolved.reason # "Error"
      <3> HIDE DEF st
      <3> QED BY <1>1, <1>2, <2>1, ResolveType
    <2>3. IsTrue(latest.resolved)
      <3> DEFINE r == SetError(st.resolved, "Version", NoError, Now)
      <3> HIDE DEF st
      <3>1. st.resolved \in Condition /\ "Version" \in Reason
        BY <1>2 DEF Status, Reason
      <3>2. IsTrue(r)
        BY <1>1, <3>1, SetErrorType
      <3> HIDE DEF r
      <3>3. latest.resolved = r
        BY <1>2 DEF Resolve, Status, r
      <3> QED BY <3>2, <3>3
    <2>4. spec.secret = "watched" => sec # Missing
      BY <1>6, ValidateType
    <2>9. IsTrue(latest.validated)
      <3> DEFINE v1 == SetError(status.validated, "PlanIsValid", NoError, Now)
      <3>1. status.validated \in Condition /\ "PlanIsValid" \in Reason
        BY DEF Status, Reason
      <3>2. IsTrue(v1)
        BY <1>1, <3>1, SetErrorType
      <3> HIDE DEF v1
      <3>3. st.validated = v1
        BY <1>6 DEF Validated, Status, v1
      <3> HIDE DEF st
      <3>4. latest.validated = st.validated
        BY <1>2 DEF Resolve, Status
      <3> QED BY <3>2, <3>3, <3>4
    <2> HIDE DEF st, latest
    <2>5. d = Outcome([latest EXCEPT !.hash = h], FALSE)
      BY <2>2, <2>4 DEF DigestStatus, Target
    <2> HIDE DEF d, h
    <2>6. ~d.err /\ d.status = [latest EXCEPT !.hash = h]
      BY <2>5 DEF Outcome
    <2>7. /\ d.status.validated = latest.validated /\ d.status.resolved = latest.resolved
          /\ d.status.version = v /\ d.status.hash = h
      BY <2>2, <2>6 DEF Status
    <2>8. Settled(d.status, spec, sec)
      BY <1>6, <2>3, <2>7, <2>9 DEF Settled, Usable, h
    <2> QED BY <1>6, <2>6, <2>8 DEF Resolves, Usable, d
  <1>7. ASSUME spec.version = NoVersion
        PROVE  Good(Outcome(st, FALSE)) /\ Good(Outcome(st, TRUE))
    <2> HIDE DEF st
    <2> QED BY <1>2, <1>7 DEF Outcome, Resolves, Usable
  <1>8. Good(StatusHandler(spec, status, sec, sec, NoAnswer, Now))
    <2> HIDE DEF Good
    <2>1. CASE Validate(spec, sec) # NoError
      BY <1>4, <2>1 DEF StatusHandler
    <2>2. CASE Validate(spec, sec) = NoError /\ spec.version = NoVersion /\ ~spec.channel
      BY <1>5, <2>2 DEF StatusHandler
    <2>3. CASE Validate(spec, sec) = NoError /\ spec.version # NoVersion
      BY <1>6, <2>3 DEF StatusHandler
    <2>4. CASE Validate(spec, sec) = NoError /\ spec.version = NoVersion /\ spec.channel
      BY <1>7, <2>4 DEF StatusHandler
    <2> QED BY <2>1, <2>2, <2>3, <2>4
  <1> QED BY <1>8

\* The Complete condition that says that a job failed.
Reported(c) == c.status = "False" /\ c.reason = "JobFailed"

\* The handler of a failed job sets it so.
LEMMA FailureReports ==
    ASSUME NEW c \in Condition, NEW n \in Node
    PROVE  Reported(SetError(c, "JobFailed", n, Now))
  <1> DEFINE a == FindOrCreate(c)
             b == SetStatus(a, "False", Now)
             d == SetMessage(b, n, Now)
  <1>1. Now \in Nat /\ n \in Message /\ n # NoError
    BY MessageAssumption, ErrorAssumption DEF Now
  <1>2. a \in Condition
    BY CreateType
  <1> HIDE DEF a
  <1>3. b \in Condition /\ b.status = "False"
    BY <1>1, <1>2, SetStatusType DEF ConditionStatus
  <1> HIDE DEF b
  <1>4. d \in Condition /\ d.status = "False"
    BY <1>1, <1>3, SetMessageType
  <1> HIDE DEF d
  <1>5. SetReason(d, "JobFailed").status = "False" /\ SetReason(d, "JobFailed").reason = "JobFailed"
    BY <1>4 DEF SetReason, Condition
  <1>6. SetError(c, "JobFailed", n, Now) = SetReason(d, "JobFailed")
    BY <1>1 DEF SetError, a, b, d
  <1> QED BY <1>5, <1>6 DEF Reported

\* The status handler leaves it alone, once it has seen the version.
LEMMA StatusHandlerReports ==
    ASSUME NEW spec \in PlanSpec, NEW status \in Status(HostnameValue),
           NEW sec \in Secret \cup {Missing},
           Usable(spec, sec), Settled(status, spec, sec), Reported(status.complete)
    PROVE  Reported(StatusHandler(spec, status, sec, sec, NoAnswer, Now).status.complete)
  <1> DEFINE st == Validated(spec, status, sec, Now)
             latest == Resolve(st, MungeVersion(spec.version), "Version", Now)
             out == DigestStatus(spec, latest, sec)
  <1>1. Now \in Nat /\ Texts \subseteq Message
    BY TextsAreMessages DEF Now
  <1>2. MungeVersion(spec.version) \in Version
    BY VersionAssumption DEF MungeVersion, PlanSpec, Usable
  <1>3. st \in Status(HostnameValue) /\ st.version = status.version /\ IsTrue(st.resolved)
    BY <1>1, ValidatedType DEF Settled
  <1>4. st.complete = status.complete
    <2>1. CreateUnknownIfNotExists(status.complete) = status.complete
      BY DEF CreateUnknownIfNotExists, FindOrCreate, Reported
    <2> QED BY <2>1 DEF Validated, Status
  <1> HIDE DEF st
  <1>5. latest \in Status(HostnameValue)
    BY <1>1, <1>2, <1>3, ResolveType
  <1>6. latest.complete = status.complete
    BY <1>3, <1>4 DEF Resolve, Status, Settled
  <1> HIDE DEF latest
  <1>7. out.status = [latest EXCEPT !.hash = out.status.hash]
    BY <1>5, DigestType
  <1>8. StatusHandler(spec, status, sec, sec, NoAnswer, Now) = out
    BY DEF StatusHandler, Usable, latest, st
  <1> HIDE DEF out
  <1>9. out.status.complete = status.complete
    BY <1>5, <1>6, <1>7 DEF Status
  <1> QED BY <1>8, <1>9

\* The status handler leaves the list of nodes alone.
LEMMA StatusHandlerLists ==
    ASSUME NEW spec \in PlanSpec, NEW status \in Status(HostnameValue),
           NEW sec \in Secret \cup {Missing}
    PROVE  LET out == StatusHandler(spec, status, sec, sec, NoAnswer, Now)
           IN  out.status \in Status(HostnameValue) /\ out.status.applying = status.applying
  <1>1. Now \in Nat /\ Texts \subseteq Message /\ NoAnswer \in RawVersion \cup {NoAnswer}
    BY TextsAreMessages DEF Now
  <1> HIDE DEF Now
  <1> QED BY <1>1, StatusHandlerKeeps

-------------------------------------------------------------------------------
(* Steps of the plan controller that leave the jobs alone. *)

\* The plan is as it was, or its status was written and its resourceVersion went up.
Written(st) ==
    /\ plan'.exists = plan.exists /\ plan'.spec = plan.spec /\ plan'.rv \in Nat
    /\ \/ plan'.rv = plan.rv /\ plan'.status = plan.status
       \/ plan'.rv > plan.rv /\ plan'.status = st

\* A write that succeeds is such a change.
LEMMA WithStatusWrites ==
    ASSUME TypeOK, NEW st \in Status(HostnameValue), plan' = WithStatus(st)
    PROVE  Written(st) /\ plan'.status = st
  <1>1. plan \in Plan /\ plan.rv \in Nat
    BY PlanParts DEF TypeOK
  <1>2. CASE plan.status = st
    BY <1>1, <1>2 DEF WithStatus, Written
  <1>3. CASE plan.status # st
    <2>1. plan' = [plan EXCEPT !.rv = plan.rv + 1, !.status = st]
      BY <1>1, <1>3 DEF WithStatus, Plan
    <2>2. /\ plan'.exists = plan.exists /\ plan'.spec = plan.spec
          /\ plan'.rv = plan.rv + 1 /\ plan'.status = st
      BY <1>1, <2>1 DEF Plan
    <2> QED BY <1>1, <2>2 DEF Written
  <1> QED BY <1>2, <1>3

\* What agreed with the plan agrees with it after a write, which makes it older.
LEMMA WrittenAgrees ==
    ASSUME TypeOK, NEW st, Written(st), secret' = secret
    PROVE  /\ Aim' = Aim
           /\ \A w : w.plan.rv \in Nat /\ WorkerAgrees(w, plan, secret)
                       => WorkerAgrees(w, plan', secret')
           /\ \A h : h.plan.rv \in Nat /\ HandlerAgrees(h, plan, secret)
                       => HandlerAgrees(h, plan', secret')
           /\ \A r \in Nat : r <= plan.rv =>
                r <= plan'.rv /\ (r = plan'.rv => r = plan.rv /\ plan'.status = plan.status)
  <1>1. /\ plan.rv \in Nat /\ plan'.rv \in Nat /\ plan'.spec = plan.spec
        /\ plan'.rv = plan.rv \/ plan'.rv > plan.rv
    BY PlanParts DEF TypeOK, Written
  <1>2. plan'.rv = plan.rv => plan'.status = plan.status
    BY <1>1 DEF Written
  <1>3. \A r \in Nat : r <= plan.rv =>
          r <= plan'.rv /\ (r = plan'.rv => r = plan.rv /\ plan'.status = plan.status)
    BY <1>1, <1>2
  <1> QED BY <1>1, <1>3 DEF Aim, WorkerAgrees, HandlerAgrees

\* Parts of the invariant that speak of jobs, nodes and the plan's spec only.
LabelParts == ReadCurrent /\ AgedLabelled /\ HandlerLabels /\ LabelsAgree

\* A step keeps the invariant, and what was over stays over.
TurnKept ==
    /\ CopiesAgree' /\ JobsAgree' /\ LabelParts' /\ ListsAgree' /\ Registered'
    /\ \A k \in Key : k[2] = Aim /\ Past(k) => Past(k)'

\* A step that leaves jobs and nodes alone keeps those parts.
LEMMA LabelsUntouched ==
    ASSUME TurnInv, UNCHANGED <<job, jobQueue, handling, node, nodeCache, secret>>,
           plan'.spec = plan.spec
    PROVE  LabelParts' /\ \A k : Past(k)' <=> Past(k)
  <1>1. Aim' = Aim
    BY DEF Aim
  <1>2. \A k : /\ (Past(k)' <=> Past(k)) /\ (Stands(k)' <=> Stands(k))
               /\ (Labelled(k)' <=> Labelled(k)) /\ (Cached(k)' <=> Cached(k))
    BY DEF Past, Labelled, Cached, Stands
  <1>3. ReadCurrent'
    BY DEF TurnInv, ReadCurrent
  <1>4. AgedLabelled'
    BY <1>2 DEF TurnInv, AgedLabelled
  <1>5. HandlerLabels'
    BY <1>2 DEF TurnInv, HandlerLabels
  <1>6. LabelsAgree'
    BY <1>1, <1>2 DEF TurnInv, LabelsAgree
  <1> QED BY <1>2, <1>3, <1>4, <1>5, <1>6 DEF LabelParts

\* The copies of the plan after a write of the plan, if the worker's agrees.
LEMMA CopiesKept ==
    ASSUME TurnInv, NEW st, Written(st), UNCHANGED <<secret, touched, planCache>>,
           worker'.pc # "idle" => WorkerAgrees(worker', plan', secret'),
           \A k \in DOMAIN handling' : k \in DOMAIN handling /\ handling'[k] = handling[k]
    PROVE  CopiesAgree'
  <1>1. /\ TypeOK /\ CopiesAgree /\ planCache.rv \in Nat
        /\ \A k \in DOMAIN handling : handling[k].plan.rv \in Nat
    BY PlanParts DEF TurnInv, TypeOK
  <1>2. plan'.exists /\ plan'.spec = plan.spec
    BY <1>1 DEF Written, CopiesAgree
  <1>3. \A k \in DOMAIN handling' : HandlerAgrees(handling'[k], plan', secret')
    BY <1>1, WrittenAgrees DEF CopiesAgree
  <1>4. planCache.rv <= plan'.rv /\ (planCache.rv = plan'.rv => planCache.status = plan'.status)
    BY <1>1, WrittenAgrees DEF CopiesAgree
  <1> QED BY <1>1, <1>2, <1>3, <1>4 DEF CopiesAgree

\* What a sync of the status handler with the cached plan leaves.
LEMMA SyncFields ==
    ASSUME TurnInv, PlanSync, secret' = secret
    PROVE  \E st \in Status(HostnameValue) :
             /\ Settled(st, plan.spec, secret) /\ st.applying = planCache.status.applying
             /\ Written(st) /\ plan'.status.applying = plan.status.applying
             /\ plan' = plan \/ plan'.status = st
             /\ worker'.pc = "generate" /\ worker'.out = st /\ worker'.plan.status = st
             /\ worker'.plan.spec = plan.spec /\ worker'.plan.rv <= plan'.rv
             /\ worker'.plan.rv = plan'.rv => st.applying = plan'.status.applying
             /\ /\ Usable(plan.spec, secret) /\ Settled(plan.status, plan.spec, secret)
                /\ Reported(plan.status.complete)
                => Reported(plan'.status.complete)
  <1> DEFINE out == StatusHandler(planCache.spec, planCache.status, secret, secret, NoAnswer, Now)
             st == out.status
             kept == [planCache EXCEPT !.status = st]
  <1>1. /\ TypeOK /\ CopiesAgree
        /\ plan \in Plan /\ planCache \in Plan /\ plan.rv \in Nat /\ planCache.rv \in Nat
        /\ planCache.spec \in PlanSpec /\ planCache.status \in Status(HostnameValue)
        /\ secret \in Secret \cup {Missing} /\ planCache.spec = plan.spec
        /\ planCache.rv <= plan.rv
    BY PlanParts DEF TurnInv, TypeOK, CopiesAgree
  <1>2. /\ plan' = plan \/ (Current(planCache) /\ plan' = WithStatus(st))
        /\ worker'.plan = kept \/ (plan' = WithStatus(st) /\ worker'.plan = plan')
        /\ worker'.out = st /\ worker'.plan.status = st
    <2>1. SyncOut(secret') = out /\ SyncKept(secret') = kept
      BY DEF SyncOut, SyncKept
    <2> HIDE DEF out
    <2> QED BY <1>1, <2>1, SyncOutcome
  <1>3. worker'.pc = "generate"
    BY DEF PlanSync
  <1>4. st \in Status(HostnameValue) /\ st.applying = planCache.status.applying
    BY <1>1, StatusHandlerLists
  <1>5. Resolves(planCache.spec, planCache.status, secret, out)
    BY <1>1, StatusHandlerSettles
  <1>6. /\ Usable(planCache.spec, secret) /\ Settled(planCache.status, planCache.spec, secret)
        /\ Reported(planCache.status.complete)
        => Reported(st.complete)
    BY <1>1, StatusHandlerReports
  <1> HIDE DEF out
  <1>7. Settled(st, plan.spec, secret)
    BY <1>1, <1>5 DEF Resolves, Settled, CopiesAgree
  <1>8. planCache.rv = plan.rv => planCache.status = plan.status
    BY <1>1 DEF CopiesAgree
  <1> HIDE DEF st
  <1>9. kept.spec = plan.spec /\ kept.rv = planCache.rv
    BY <1>1 DEF Plan
  <1> HIDE DEF kept
  <1>10. CASE plan' = plan
    <2>1. worker'.plan = kept \/ worker'.plan = plan
      BY <1>2, <1>10
    <2>2. worker'.plan = plan => st = plan.status
      BY <1>2
    <2>3. worker'.plan.spec = plan.spec /\ worker'.plan.rv <= plan'.rv
          /\ (worker'.plan.rv = plan'.rv => st.applying = plan'.status.applying)
      BY <1>1, <1>4, <1>8, <1>9, <1>10, <2>1, <2>2
    <2>4. Written(st)
      BY <1>1, <1>10 DEF Written
    <2> QED BY <1>2, <1>3, <1>4, <1>7, <1>10, <2>3, <2>4
  <1>11. CASE Current(planCache) /\ plan' = WithStatus(st)
    <2>1. planCache.rv = plan.rv /\ planCache.status = plan.status
      BY <1>8, <1>11 DEF Current
    <2>2. Written(st) /\ plan'.status = st
      BY <1>1, <1>4, <1>11, WithStatusWrites
    <2>3. plan'.spec = plan.spec /\ plan'.rv \in Nat /\ plan.rv <= plan'.rv
      BY <1>1, <2>2 DEF Written
    <2>4. worker'.plan.spec = plan.spec /\ worker'.plan.rv <= plan'.rv
      BY <1>2, <1>9, <2>1, <2>3
    <2> QED BY <1>1, <1>2, <1>3, <1>4, <1>6, <1>7, <2>1, <2>2, <2>4
  <1> QED BY <1>2, <1>10, <1>11

\* The invariant after a sync.
LEMMA SyncTurn ==
    ASSUME TurnInv, PlanSync, Unedited
    PROVE  TurnKept
  <1>1. /\ UNCHANGED <<planCache, job, jobQueue, handling, node, nodeCache>>
        /\ secret' = secret /\ touched' = touched /\ plan'.spec = plan.spec
    BY DEF PlanSync, nodeVars, jobVars, Unedited
  <1>2. PICK st \in Status(HostnameValue) :
             /\ Settled(st, plan.spec, secret) /\ st.applying = planCache.status.applying
             /\ Written(st) /\ plan'.status.applying = plan.status.applying
             /\ plan' = plan \/ plan'.status = st
             /\ worker'.pc = "generate" /\ worker'.out = st /\ worker'.plan.status = st
             /\ worker'.plan.spec = plan.spec /\ worker'.plan.rv <= plan'.rv
             /\ worker'.plan.rv = plan'.rv => st.applying = plan'.status.applying
    BY <1>1, SyncFields
  <1>3. WorkerAgrees(worker', plan', secret')
    BY <1>1, <1>2 DEF WorkerAgrees
  <1>4. CopiesAgree'
    BY <1>1, <1>2, <1>3, CopiesKept
  <1>5. LabelParts' /\ \A k : Past(k)' <=> Past(k)
    BY <1>1, LabelsUntouched
  <1>6. Aim' = Aim
    BY <1>1 DEF Aim
  <1>7. Settled(plan'.status, plan'.spec, secret') \/ Fresh'
    <2>1. Fresh /\ plan' = plan => Fresh'
      <3>1. NewStatus.applying = {}
        BY DEF NewStatus
      <3> QED BY <1>1, <1>2, <3>1 DEF Fresh
    <2> QED BY <1>1, <1>2, <2>1 DEF TurnInv, JobsAgree
  <1>8. JobsAgree'
    BY <1>1, <1>6, <1>7 DEF TurnInv, JobsAgree
  <1>9. ListsAgree'
    BY <1>1, <1>2, <1>5, <1>6 DEF TurnInv, ListsAgree
  <1>10. Registered'
    BY <1>1, <1>2 DEF TurnInv, Registered
  <1> QED BY <1>4, <1>5, <1>8, <1>9, <1>10 DEF TurnKept

\* A job that is over for good is finished.
LEMMA PastFinished ==
    ASSUME TurnInv, NEW k \in DOMAIN job, Past(k)
    PROVE  IsComplete(job[k])
  BY DEF TurnInv, LabelsAgree, Past, Stands

\* The invariant after the write that ends a sync.
LEMMA UpdateKeeps ==
    ASSUME TurnInv, PlanUpdate, Unedited
    PROVE  TurnKept
  <1>1. /\ UNCHANGED <<planCache, job, jobQueue, handling, node, nodeCache>>
        /\ secret' = secret /\ touched' = touched /\ plan'.spec = plan.spec
        /\ worker' = Idle /\ worker.pc = "update"
    BY DEF PlanUpdate, nodeVars, jobVars, Unedited
  <1>2. /\ TypeOK /\ worker.out \in Status(HostnameValue) /\ worker.plan \in Plan
        /\ WorkerAgrees(worker, plan, secret) /\ plan.rv \in Nat
        /\ DOMAIN job \subseteq Key
    BY <1>1, WorkerParts, PlanParts DEF TurnInv, TypeOK, CopiesAgree
  <1>3. \/ plan' = plan
        \/ /\ plan' = WithStatus(worker.out) /\ plan'.status = worker.out
           /\ worker.plan.status.applying = plan.status.applying
    BY <1>2, WithStatusHas DEF PlanUpdate, Writes, WriteFails, Current, WorkerAgrees
  <1>4. Written(worker.out)
    <2>1. CASE plan' = plan
      BY <1>2, <2>1 DEF Written
    <2>2. CASE plan' = WithStatus(worker.out)
      BY <1>2, <2>2, WithStatusWrites
    <2> QED BY <1>3, <2>1, <2>2
  <1>5. CopiesAgree'
    BY <1>1, <1>4, CopiesKept DEF Idle
  <1>6. LabelParts' /\ \A k : Past(k)' <=> Past(k)
    BY <1>1, LabelsUntouched
  <1>7. Aim' = Aim
    BY <1>1 DEF Aim
  <1>8. Settled(plan'.status, plan'.spec, secret') \/ Fresh'
    <2>1. CASE plan' = plan
      BY <1>1, <2>1 DEF TurnInv, JobsAgree, Fresh, Idle
    <2>2. CASE plan'.status = worker.out
      BY <1>1, <1>2, <2>2 DEF WorkerAgrees
    <2> QED BY <1>3, <2>1, <2>2
  <1>9. JobsAgree'
    BY <1>1, <1>7, <1>8 DEF TurnInv, JobsAgree
  <1>10. ASSUME NEW k \in Key, k[2] = Aim,
                Hostname[k[1]] \in plan.status.applying \ plan'.status.applying
         PROVE  Past(k)
    BY <1>1, <1>3, <1>10 DEF TurnInv, ListsAgree
  <1>11. ListsAgree'
    BY <1>1, <1>6, <1>7, <1>10 DEF TurnInv, ListsAgree, Idle
  <1>12. Registered'
    <2> SUFFICES ASSUME NEW k \in DOMAIN job, ~IsComplete(job[k]), job[k].parallelism = 1
                 PROVE  Hostname[k[1]] \in plan'.status.applying
      BY <1>1 DEF Registered
    <2>1. Hostname[k[1]] \in plan.status.applying /\ k \in Key /\ k[2] = Aim
      BY <1>2 DEF TurnInv, Registered, JobsAgree
    <2> QED BY <1>10, <2>1, PastFinished
  <1> QED BY <1>5, <1>6, <1>9, <1>11, <1>12 DEF TurnKept

\* A plan that says it is resolved can be.
LEMMA ResolvedUsable ==
    ASSUME TurnInv, IsTrue(plan.status.resolved)
    PROVE  Usable(plan.spec, secret)
  <1>1. ~IsTrue(NewStatus.resolved)
    BY DEF NewStatus, Absent, IsTrue
  <1> QED BY <1>1 DEF TurnInv, JobsAgree, Settled, Fresh

\* The plan in the cache catches up, or the key of a plan that is gone is dropped.
LEMMA WatchKeeps ==
    ASSUME TurnInv, PlanWatch \/ PlanRemove, Unedited
    PROVE  TurnKept
  <1>1. /\ UNCHANGED <<plan, worker, job, jobQueue, handling, node, nodeCache, secret, touched>>
        /\ planCache' = planCache \/ planCache' = plan
    BY DEF PlanWatch, PlanRemove, nodeVars, jobVars, envVars
  <1>2. LabelParts' /\ (\A k : Past(k)' <=> Past(k)) /\ Aim' = Aim
    BY <1>1, LabelsUntouched DEF Aim
  <1>3. plan.rv \in Nat
    BY PlanParts DEF TurnInv, TypeOK
  <1>4. CopiesAgree'
    <2>1. IsTrue(plan.status.resolved) => Usable(plan.spec, secret)
      BY ResolvedUsable
    <2> QED BY <1>1, <1>3, <2>1 DEF TurnInv, CopiesAgree
  <1>5. JobsAgree'
    BY <1>1, <1>2 DEF TurnInv, JobsAgree, Fresh
  <1>6. ListsAgree' /\ Registered'
    BY <1>1, <1>2 DEF TurnInv, ListsAgree, Registered
  <1> QED BY <1>2, <1>4, <1>5, <1>6 DEF TurnKept

-------------------------------------------------------------------------------
(* The generating handler. *)

\* A worker that is ready aims where everything aims.
LEMMA ReadyAims ==
    ASSUME TurnInv, worker.pc # "idle", Ready
    PROVE  /\ Usable(plan.spec, secret) /\ worker.plan.status.hash = Aim
           /\ worker.plan.status.version = MungeVersion(plan.spec.version)
           /\ worker.plan.spec = plan.spec
  BY DEF TurnInv, CopiesAgree, WorkerAgrees, Settled, Ready, Aim

\* A node that is registered and not selected again is done with.
LEMMA UnselectedPast ==
    ASSUME TurnInv, worker.pc # "idle", Ready, NEW T \in SUBSET Node, Selected(T),
           NEW k \in Key, k[2] = Aim, k[1] \notin T,
           Hostname[k[1]] \in worker.plan.status.applying
    PROVE  Past(k)
  <1>1. k[1] \in Node /\ worker.plan.status.hash = Aim
    BY ReadyAims DEF Key
  <1>2. Kept(nodeCache, worker.plan.status.hash, worker.plan.status.applying) \subseteq T
    BY DEF Selected, SelectConcurrentNodes
  <1>3. k[1] \notin Eligible(nodeCache, Aim)
    BY <1>1, <1>2 DEF Kept
  <1>4. nodeCache[k[1]].mode = "in" /\ nodeCache[k[1]].label # Disabled
    BY <1>1 DEF TurnInv, NodesSelected, CopiesAgree
  <1>5. Cached(k)
    BY <1>1, <1>3, <1>4 DEF Eligible, Cached
  <1> QED BY <1>5 DEF TurnInv, LabelsAgree

\* The hostnames of a selection of the worker.
Chosen(list) ==
    Ready /\ \E T \in SUBSET Node : Selected(T) /\ list = {Hostname[n] : n \in T}

\* What a worker may return: a settled status that drops only nodes that are done with.
Returnable(st) ==
    /\ Settled(st, plan.spec, secret)
    /\ st.applying = worker.plan.status.applying \/ Chosen(st.applying)
    /\ \A k \in Key :
         k[2] = Aim /\ Hostname[k[1]] \in worker.plan.status.applying \ st.applying => Past(k)

\* The generating handler ends with such a status, or with an error.
LEMMA GenerateReturns ==
    ASSUME TurnInv, GenerateNotReady \/ GenerateRejected \/ GenerateSelected
    PROVE  Fail \/ \E st : Returnable(st) /\ Finish(st)
  <1> DEFINE st == worker.plan.status
  <1>1. worker.pc # "idle"
    BY DEF GenerateNotReady, GenerateRejected, GenerateSelected, Generating
  <1>2. st \in Status(HostnameValue) /\ st.complete \in Condition
    BY <1>1, WorkerParts, PlanParts DEF TurnInv, TypeOK
  <1>3. Settled(st, plan.spec, secret)
    BY <1>1 DEF TurnInv, CopiesAgree, WorkerAgrees
  <1> HIDE DEF st
  <1>4. ASSUME NEW c \in Condition PROVE Returnable([st EXCEPT !.complete = c])
    <2> DEFINE new == [st EXCEPT !.complete = c]
    <2>1. new.applying = st.applying /\ Settled(new, plan.spec, secret)
      BY <1>2, <1>3 DEF Status, Settled
    <2> HIDE DEF new
    <2> QED BY <2>1 DEF Returnable, st, new
  <1>5. ASSUME Ready, NEW T \in SUBSET Node, Selected(T), NEW c \in Condition
        PROVE  Returnable([st EXCEPT !.applying = {Hostname[n] : n \in T}, !.complete = c])
    <2> DEFINE hostnames == {Hostname[n] : n \in T}
               new == [st EXCEPT !.applying = hostnames, !.complete = c]
    <2>1. hostnames \in SUBSET HostnameValue
      BY HostnameAssumption
    <2>2. \A k \in Key : Hostname[k[1]] \notin hostnames => k[1] \notin T
      OBVIOUS
    <2> HIDE DEF hostnames
    <2>3. new.applying = hostnames /\ Settled(new, plan.spec, secret)
      <3>1. ASSUME NEW a \in SUBSET HostnameValue
            PROVE  /\ [st EXCEPT !.applying = a, !.complete = c].applying = a
                   /\ Settled([st EXCEPT !.applying = a, !.complete = c], plan.spec, secret)
        BY <1>2, <1>3 DEF Status, Settled
      <3> QED BY <2>1, <3>1
    <2> HIDE DEF new
    <2>4. ASSUME NEW k \in Key, k[2] = Aim, Hostname[k[1]] \in st.applying \ new.applying
          PROVE  Past(k)
      BY <1>1, <1>5, <2>2, <2>3, <2>4, UnselectedPast DEF st
    <2>5. Chosen(new.applying)
      BY <1>5, <2>3 DEF Chosen, hostnames
    <2> QED BY <2>3, <2>4, <2>5 DEF Returnable, st, new, hostnames
  <1>6. CASE GenerateNotReady
    <2>1. Returnable([st EXCEPT !.complete = SetError(st.complete, "NotReady", "NotReady", Now)])
      BY <1>2, <1>4, CompleteWrites
    <2> QED BY <1>6, <2>1 DEF GenerateNotReady, Return, st
  <1>7. CASE GenerateRejected
    BY <1>7 DEF GenerateRejected
  <1>8. CASE GenerateSelected
    <2>1. PICK T \in SUBSET Node :
            Selected(T) /\ (GenerateWaiting(T) \/ GenerateComplete(T) \/ GenerateJobs(T))
      BY <1>8 DEF GenerateSelected
    <2>2. Ready
      BY <1>8 DEF GenerateSelected
    <2>3. CASE GenerateWaiting(T)
      <3>1. Returnable([st EXCEPT !.complete =
                          SetError(st.complete, "Waiting", "OutsideWindow", Now)])
        BY <1>2, <1>4, CompleteWrites
      <3> QED BY <2>3, <3>1 DEF GenerateWaiting, st
    <2>4. CASE GenerateComplete(T)
      <3>1. {Hostname[n] : n \in T} = {}
        BY <2>4 DEF GenerateComplete
      <3>2. Returnable([st EXCEPT !.applying = {Hostname[n] : n \in T},
                                  !.complete = SetError(st.complete, "Complete", NoError, Now)])
        BY <1>2, <1>5, <2>1, <2>2, CompleteWrites
      <3>3. Returnable([st EXCEPT !.applying = {},
                                  !.complete = SetError(st.complete, "Complete", NoError, Now)])
        BY <3>1, <3>2
      <3> QED BY <2>4, <3>3 DEF GenerateComplete, Return, st
    <2>5. CASE GenerateJobs(T)
      <3>1. Returnable([st EXCEPT !.applying = {Hostname[n] : n \in T},
                                  !.complete = Reset(st.complete, "SyncJob", Now)])
        BY <1>2, <1>5, <2>1, <2>2, CompleteWrites
      <3>2. Returnable(st)
        BY <1>3 DEF Returnable, st
      <3>3. Returnable(Synced(T))
        BY <3>1, <3>2 DEF Synced, st
      <3>4. Finish(Synced(T)) \/ Fail
        BY <2>5 DEF GenerateJobs, Return
      <3> QED BY <3>3, <3>4
    <2> QED BY <2>1, <2>3, <2>4, <2>5
  <1> QED BY <1>6, <1>7, <1>8

\* What the worker holds after the generating handler.
LEMMA GenerateWorker ==
    ASSUME TurnInv, GenerateNotReady \/ GenerateRejected \/ GenerateSelected
    PROVE  \/ worker' = Idle
           \/ /\ worker'.pc = "update" /\ worker'.plan = worker.plan /\ Returnable(worker'.out)
  <1>1. worker.pc # "idle"
    BY DEF GenerateNotReady, GenerateRejected, GenerateSelected, Generating
  <1>2. worker \in [pc : {"generate", "update"}, plan : Plan,
                    out : Status(HostnameValue), err : BOOLEAN]
    BY <1>1 DEF TurnInv, TypeOK, Worker, Idle
  <1>3. ASSUME NEW st, worker' = [worker EXCEPT !.pc = "update", !.out = st]
        PROVE  worker'.pc = "update" /\ worker'.plan = worker.plan /\ worker'.out = st
    BY <1>2, <1>3
  <1> QED BY <1>3, GenerateReturns DEF Fail, Finish

\* A patch sets the parallelism of a job, and stops its pod when it pauses the job.
LEMMA PatchedFields ==
    ASSUME NEW j \in Job, NEW par \in {0, 1}
    PROVE  LET q == Patched(j, par)
           IN  /\ q.template = j.template /\ q.age = j.age /\ q.parallelism = par
               /\ q.state = IF j.state = "running" /\ par = 0 THEN "active" ELSE j.state
  BY DEF Patched, Job

\* How applying jobs leaves job k: as it was, or with the parallelism that the list of
\* the applied plan gives it, finished if and only if it was, and then queued if that is
\* a change.
AppliedTo(k, T) ==
    \/ k \in DOMAIN job /\ job'[k] = job[k]
    \/ /\ k[1] \in T /\ k[2] = Aim /\ JobAgrees(job'[k], plan.spec)
       /\ job'[k].parallelism \in {0, 1}
       /\ job'[k].parallelism = 1 => Hostname[k[1]] \in worker.plan.status.applying
       /\ \/ k \notin DOMAIN job /\ Unfinished(job'[k])
          \/ /\ k \in DOMAIN job /\ job'[k].age = job[k].age
             /\ job'[k].state = job[k].state \/ (Unfinished(job[k]) /\ Unfinished(job'[k]))
             /\ job'[k].parallelism = job[k].parallelism \/ k \in jobQueue'

\* Applying jobs while everything aims at one hash: no job is replaced.
LEMMA ApplyFields ==
    ASSUME TurnInv, worker.pc # "idle", Ready, NEW T \in SUBSET Node, Apply(worker.plan, T)
    PROVE  /\ ReplacedJobs(worker.plan, T) = {}
           /\ DOMAIN job \subseteq DOMAIN job' /\ jobQueue \subseteq jobQueue'
           /\ \A k \in DOMAIN job' : k \in Key /\ AppliedTo(k, T)
  <1> DEFINE p == worker.plan
             keys == {<<n, p.status.hash>> : n \in T}
  <1>1. /\ TypeOK /\ JobsAgree /\ p \in Plan /\ p.status.hash = Aim /\ p.spec = plan.spec
        /\ p.status.version = MungeVersion(plan.spec.version)
        /\ \A k \in DOMAIN job : job[k] \in Job /\ k \in Key /\ k[2] = Aim
        /\ \A k \in DOMAIN job : JobAgrees(job[k], plan.spec)
    BY WorkerParts, ReadyAims DEF TurnInv, TypeOK, JobsAgree
  <1>2. JobTemplate(p) = [version |-> MungeVersion(plan.spec.version),
                          upgrade |-> plan.spec.upgrade, cordon |-> plan.spec.cordon]
    BY <1>1 DEF JobTemplate
  <1>3. \A k \in DOMAIN job : job[k].template = JobTemplate(p)
    BY <1>1, <1>2 DEF JobAgrees
  <1>4. ReplacedJobs(p, T) = {}
    <2> SUFFICES ASSUME NEW k \in DOMAIN job, k[2] = p.status.hash, Differs(p, k[1]) PROVE FALSE
      BY DEF ReplacedJobs
    <2>1. k = <<k[1], p.status.hash>>
      BY <1>1 DEF Key
    <2> QED BY <1>3, <2>1 DEF Differs
  <1>5. ASSUME NEW n \in Node
        PROVE  LET j == NewJob(p, n)
               IN  /\ j.state = "active" /\ j.age = 0 /\ j.template = JobTemplate(p)
                   /\ j.parallelism \in {0, 1}
                   /\ j.parallelism = 1 => Hostname[n] \in p.status.applying
    BY DEF NewJob
  <1>6. \A k \in keys : k[1] \in T /\ k[1] \in Node /\ k[2] = Aim /\ k \in Key
    BY <1>1, PlanParts DEF Key
  <1> HIDE DEF p, keys
  <1>7. /\ DOMAIN job' = DOMAIN job \cup keys
        /\ \A k \in DOMAIN job' :
             job'[k] = IF k \notin keys THEN job[k]
                       ELSE IF k \in DOMAIN job
                         THEN Patched(job[k], NewJob(p, k[1]).parallelism)
                       ELSE NewJob(p, k[1])
        /\ jobQueue \subseteq jobQueue'
        /\ \A k \in keys \cap DOMAIN job :
             job[k].parallelism # NewJob(p, k[1]).parallelism => k \in jobQueue'
    BY <1>4 DEF Apply, p, keys
  <1>8. ASSUME NEW k \in DOMAIN job' PROVE k \in Key /\ AppliedTo(k, T)
    <2>1. k \in Key
      BY <1>1, <1>6, <1>7
    <2>2. CASE k \notin keys
      BY <1>7, <2>1, <2>2 DEF AppliedTo
    <2>3. CASE k \in keys /\ k \in DOMAIN job
      <3> DEFINE par == NewJob(p, k[1]).parallelism
                 q == Patched(job[k], par)
      <3>1. par \in {0, 1} /\ (par = 1 => Hostname[k[1]] \in p.status.applying)
        BY <1>5, <1>6, <2>3
      <3>2. job'[k] = q /\ (job[k].parallelism # par => k \in jobQueue')
        BY <1>7, <2>3
      <3> HIDE DEF par
      <3>3. /\ q.template = job[k].template /\ q.age = job[k].age /\ q.parallelism = par
            /\ q.state = IF job[k].state = "running" /\ par = 0 THEN "active" ELSE job[k].state
        BY <1>1, <2>3, <3>1, PatchedFields
      <3> HIDE DEF q
      <3>4. JobAgrees(q, plan.spec)
        BY <1>1, <2>3, <3>1, <3>3 DEF JobAgrees, Unfinished, IsFailed, IsComplete
      <3>5. q.state = job[k].state \/ (Unfinished(job[k]) /\ Unfinished(q))
        BY <3>3 DEF Unfinished, IsFailed, IsComplete
      <3> QED BY <1>6, <2>1, <2>3, <3>1, <3>2, <3>3, <3>4, <3>5 DEF AppliedTo, p
    <2>4. CASE k \in keys /\ k \notin DOMAIN job
      <3> DEFINE q == NewJob(p, k[1])
      <3>1. /\ q.state = "active" /\ q.age = 0 /\ q.template = JobTemplate(p)
            /\ q.parallelism \in {0, 1}
            /\ q.parallelism = 1 => Hostname[k[1]] \in p.status.applying
        BY <1>5, <1>6, <2>4
      <3>2. job'[k] = q
        BY <1>7, <2>4
      <3> HIDE DEF q
      <3>3. JobAgrees(q, plan.spec) /\ Unfinished(q)
        BY <1>2, <3>1 DEF JobAgrees, Unfinished, IsFailed, IsComplete
      <3> QED BY <1>6, <2>1, <2>4, <3>1, <3>2, <3>3 DEF AppliedTo, p
    <2> QED BY <2>2, <2>3, <2>4
  <1> QED BY <1>4, <1>7, <1>8 DEF p

\* Nodes are selected from those without the label in the cache.
LEMMA SelectedUnlabelled ==
    ASSUME TurnInv, worker.pc # "idle", Ready, NEW T \in SUBSET Node, Selected(T), NEW n \in T
    PROVE  nodeCache[n].label # Aim
  <1>1. worker.plan.status.hash = Aim
    BY ReadyAims
  <1>2. n \in Eligible(nodeCache, Aim)
    BY <1>1 DEF Selected, SelectConcurrentNodes, Kept, Candidates
  <1> QED BY <1>2 DEF Eligible

\* What the generating handler does to the jobs.
LEMMA GenerateApplies ==
    ASSUME TurnInv, GenerateNotReady \/ GenerateRejected \/ GenerateSelected
    PROVE  \/ UNCHANGED <<job, jobQueue>>
           \/ /\ Ready
              /\ \E S \in SUBSET Node : \E T \in SUBSET S :
                   /\ Selected(S) /\ Apply(worker.plan, T)
                   /\ \A n \in T : nodeCache[n].label # Aim
  <1>1. worker.pc # "idle"
    BY DEF GenerateNotReady, GenerateRejected, GenerateSelected, Generating
  <1>2. CASE GenerateNotReady \/ GenerateRejected
    BY <1>2 DEF GenerateNotReady, GenerateRejected
  <1>3. CASE GenerateSelected
    <2>1. PICK T \in SUBSET Node :
            Selected(T) /\ (GenerateWaiting(T) \/ GenerateComplete(T) \/ GenerateJobs(T))
      BY <1>3 DEF GenerateSelected
    <2>2. Ready
      BY <1>3 DEF GenerateSelected
    <2>3. \/ UNCHANGED <<job, jobQueue>>
          \/ \E U \in SUBSET T : Apply(worker.plan, U)
      BY <2>1 DEF GenerateWaiting, GenerateComplete, GenerateJobs
    <2>4. \A n \in T : nodeCache[n].label # Aim
      BY <1>1, <2>1, <2>2, SelectedUnlabelled
    <2> QED BY <2>1, <2>2, <2>3, <2>4
  <1> QED BY <1>2, <1>3

\* The invariant of jobs and labels after jobs are applied.
LEMMA ApplyKeeps ==
    ASSUME TurnInv, worker.pc # "idle", Ready, NEW T \in SUBSET Node, Apply(worker.plan, T),
           \A n \in T : nodeCache[n].label # Aim,
           UNCHANGED <<plan, planCache, handling, node, nodeCache, secret>>,
           worker'.pc # "idle" => worker'.plan = worker.plan
    PROVE  /\ JobsAgree' /\ LabelParts' /\ Registered'
           /\ \A k : Past(k) => Past(k)'
  <1>1. /\ DOMAIN job \subseteq DOMAIN job' /\ jobQueue \subseteq jobQueue'
        /\ \A k \in DOMAIN job' : k \in Key /\ AppliedTo(k, T)
    BY ApplyFields
  <1>2. Aim' = Aim
    BY DEF Aim
  <1>3. \A k \in DOMAIN job : ~Unfinished(job[k]) =>
          job'[k].state = job[k].state /\ job'[k].age = job[k].age
    BY <1>1 DEF AppliedTo
  <1>4. \A k \in DOMAIN job' : ~Unfinished(job'[k]) =>
          k \in DOMAIN job /\ job'[k].state = job[k].state /\ job'[k].age = job[k].age
    BY <1>1 DEF AppliedTo, Unfinished, IsFailed, IsComplete
  <1>5. \A k \in DOMAIN job' : IsComplete(job'[k]) =>
          k \in DOMAIN job /\ IsComplete(job[k]) /\ job'[k].age = job[k].age
    BY <1>4 DEF Unfinished, IsComplete
  <1>6. \A k : Past(k) => Past(k)'
    <2>1. \A k \in DOMAIN job : IsComplete(job[k]) =>
            k \in DOMAIN job' /\ IsComplete(job'[k]) /\ job'[k].age = job[k].age
      BY <1>1, <1>3 DEF Unfinished, IsComplete
    <2>2. \A k : Stands(k) => Stands(k)'
      BY <2>1 DEF Stands, DelayOver
    <2> QED BY <2>2 DEF Past, Labelled
  <1>7. \A k : (Labelled(k)' <=> Labelled(k)) /\ (Cached(k)' <=> Cached(k))
    BY DEF Labelled, Cached
  <1>8. \A k \in Key : k[2] = Aim /\ k[1] \in T => ~Labelled(k)
    BY DEF TurnInv, LabelsAgree, Cached
  <1>9. JobsAgree'
    <2>1. Usable(plan.spec, secret)
      BY ReadyAims
    <2>3. Fresh => Fresh'
      <3> SUFFICES ASSUME Fresh PROVE Fresh'
        OBVIOUS
      <3>1. \A k \in DOMAIN job' : job'[k].parallelism \in {0, 1} /\ job'[k].parallelism # 1
        BY <1>1 DEF AppliedTo, Fresh
      <3>2. \A k \in DOMAIN job' : job'[k].parallelism = 0 /\ ~IsComplete(job'[k])
        BY <1>5, <3>1 DEF Fresh
      <3> QED BY <3>2 DEF Fresh
    <2>2. \A k \in DOMAIN job' : k[2] = Aim /\ JobAgrees(job'[k], plan.spec)
      BY <1>1 DEF TurnInv, JobsAgree, AppliedTo
    <2> QED BY <1>2, <2>1, <2>2, <2>3 DEF TurnInv, JobsAgree
  <1>10. ReadCurrent'
    <2>1. \A k \in DOMAIN handling : ~Unfinished(handling[k].job) /\ handling[k].job.age < 2 =>
            k \in DOMAIN job' /\ job'[k].state = job[k].state /\ job'[k].age = job[k].age
      <3> SUFFICES ASSUME NEW k \in DOMAIN handling,
                          ~Unfinished(handling[k].job), handling[k].job.age < 2
                   PROVE  k \in DOMAIN job' /\ job'[k].state = job[k].state
                          /\ job'[k].age = job[k].age
        OBVIOUS
      <3>1. k \in DOMAIN job /\ job[k].state = handling[k].job.state
        BY DEF TurnInv, ReadCurrent
      <3>2. ~Unfinished(job[k])
        BY <3>1 DEF Unfinished, IsFailed, IsComplete
      <3> QED BY <1>1, <1>3, <3>1, <3>2
    <2> QED BY <2>1 DEF TurnInv, ReadCurrent
  <1>11. AgedLabelled'
    BY <1>5, <1>7 DEF TurnInv, AgedLabelled
  <1>12. HandlerLabels'
    BY <1>1, <1>5, <1>7 DEF TurnInv, HandlerLabels, DelayOver
  <1>13. LabelsAgree'
    <2>1. \A k \in DOMAIN job' : Labelled(k) => Stands(k)'
      <3> SUFFICES ASSUME NEW k \in DOMAIN job', Labelled(k) PROVE Stands(k)'
        OBVIOUS
      <3>1. k \in DOMAIN job /\ job'[k] = job[k]
        BY <1>1, <1>8 DEF AppliedTo
      <3>2. Stands(k)
        BY <3>1 DEF TurnInv, LabelsAgree
      <3> QED BY <3>1, <3>2 DEF Stands
    <2> QED BY <1>2, <1>6, <1>7, <2>1 DEF TurnInv, LabelsAgree
  <1>14. Registered'
    <2> SUFFICES ASSUME NEW k \in DOMAIN job', ~IsComplete(job'[k]), job'[k].parallelism = 1
                 PROVE  Hostname[k[1]] \in plan.status.applying
      BY DEF Registered
    <2>1. CASE k \in DOMAIN job /\ job'[k] = job[k]
      BY <2>1 DEF TurnInv, Registered
    <2>2. CASE /\ k[1] \in T /\ k[2] = Aim /\ Hostname[k[1]] \in worker.plan.status.applying
      <3> SUFFICES ASSUME Hostname[k[1]] \notin plan.status.applying PROVE FALSE
        OBVIOUS
      <3>1. k \in Key /\ Past(k) /\ ~Labelled(k)
        BY <1>1, <1>8, <2>2 DEF TurnInv, ListsAgree
      <3>2. k \in DOMAIN job /\ IsComplete(job[k])
        BY <3>1 DEF Past, Stands
      <3> QED BY <1>3, <3>2 DEF Unfinished, IsFailed, IsComplete
    <2> QED BY <1>1, <2>1, <2>2 DEF AppliedTo
  <1> QED BY <1>6, <1>9, <1>10, <1>11, <1>12, <1>13, <1>14 DEF LabelParts

\* The invariant after the generating handler.
LEMMA GenerateKeeps ==
    ASSUME TurnInv, GenerateNotReady \/ GenerateRejected \/ GenerateSelected
    PROVE  TurnKept
  <1>1. /\ UNCHANGED <<plan, planCache, handling, node, nodeCache, secret, touched>>
        /\ worker.pc # "idle"
    BY DEF GenerateNotReady, GenerateRejected, GenerateSelected, Generating, nodeVars
  <1>2. \/ worker' = Idle
        \/ worker'.pc = "update" /\ worker'.plan = worker.plan /\ Returnable(worker'.out)
    BY GenerateWorker
  <1>3. WorkerAgrees(worker, plan, secret) /\ plan.rv \in Nat
    BY <1>1, PlanParts DEF TurnInv, TypeOK, CopiesAgree
  <1>4. worker'.pc # "idle" => WorkerAgrees(worker', plan', secret')
    BY <1>1, <1>2, <1>3 DEF WorkerAgrees, Returnable, Idle
  <1>5. CopiesAgree'
    <2>1. Written(plan.status)
      BY <1>1, <1>3 DEF Written
    <2> QED BY <1>1, <1>4, <2>1, CopiesKept
  <1>6. /\ JobsAgree' /\ LabelParts' /\ Registered' /\ \A k : Past(k) => Past(k)'
    <2>1. CASE UNCHANGED <<job, jobQueue>>
      <3>1. LabelParts' /\ \A k : Past(k)' <=> Past(k)
        BY <1>1, <2>1, LabelsUntouched
      <3>2. Fresh => Fresh'
        BY <1>1, <1>2, <2>1 DEF Fresh, Idle
      <3>3. JobsAgree'
        BY <1>1, <2>1, <3>2 DEF TurnInv, JobsAgree, Aim
      <3>4. Registered'
        BY <1>1, <2>1 DEF TurnInv, Registered
      <3> QED BY <3>1, <3>3, <3>4
    <2>2. CASE /\ Ready
               /\ \E T \in SUBSET Node : /\ Apply(worker.plan, T)
                                         /\ \A n \in T : nodeCache[n].label # Aim
      BY <1>1, <1>2, <2>2, ApplyKeeps DEF Idle
    <2> QED BY <2>1, <2>2, GenerateApplies
  <1>7. ListsAgree'
    <2>1. Aim' = Aim
      BY <1>1 DEF Aim
    <2>2. CASE worker' = Idle
      BY <1>1, <1>6, <2>1, <2>2 DEF TurnInv, ListsAgree, Idle
    <2>3. CASE worker'.pc = "update" /\ worker'.plan = worker.plan /\ Returnable(worker'.out)
      BY <1>1, <1>6, <2>1, <2>3 DEF TurnInv, ListsAgree, Returnable
    <2> QED BY <1>2, <2>2, <2>3
  <1> QED BY <1>5, <1>6, <1>7 DEF TurnKept

-------------------------------------------------------------------------------
(* The job handlers. *)

\* What a handler reads of a job and of the plan.
LEMMA ReadsFields ==
    ASSUME TurnInv, NEW j \in Job, j.template.version = MungeVersion(plan.spec.version),
           Usable(plan.spec, secret), Fresh => ~IsComplete(j)
    PROVE  HandlerAgrees(Reads(j), plan, secret)
  <1> DEFINE q == [plan EXCEPT !.rv = 0,
                               !.status.validated = Absent, !.status.resolved = Absent,
                               !.status.complete = Absent,
                               !.status.applying = IF Unfinished(j) THEN @ ELSE {}]
  <1>1. /\ plan \in Plan /\ plan.exists /\ plan.rv \in Nat
        /\ plan.status \in Status(HostnameValue)
    BY PlanParts DEF TurnInv, TypeOK, CopiesAgree
  <1>2. q.exists /\ q.spec = plan.spec /\ q.status.version = plan.status.version
    BY <1>1 DEF Plan, Status
  <1> HIDE DEF q
  <1>3. /\ Reads(j).job.state = j.state /\ Reads(j).job.template = j.template
        /\ IsFailed(j) => Reads(j).plan = plan
        /\ ~IsFailed(j) => Reads(j).plan = q
    BY ReadsJob DEF Reads, q
  <1>4. /\ Reads(j).plan.exists /\ Reads(j).plan.spec = plan.spec
        /\ Reads(j).plan.status.version = plan.status.version
    BY <1>1, <1>2, <1>3
  <1>5. CASE Settled(plan.status, plan.spec, secret)
    <2>1. ~Orphaned(Reads(j).job, Reads(j).plan)
      BY <1>3, <1>4, <1>5 DEF Orphaned, Settled
    <2> HIDE DEF Reads
    <2> QED BY <1>1, <1>3, <1>4, <1>5, <2>1 DEF HandlerAgrees, IsFailed
  <1>6. CASE Fresh
    <2>1. plan.status.version = NoVersion /\ ~IsComplete(j)
      BY <1>6 DEF Fresh, NewStatus
    <2>2. j.template.version # NoVersion
      BY VersionAssumption, PlanParts, <1>1 DEF MungeVersion, PlanSpec, Usable
    <2>3. Orphaned(Reads(j).job, Reads(j).plan) /\ ~IsComplete(Reads(j).job)
      BY <1>3, <1>4, <2>1, <2>2 DEF Orphaned, IsComplete
    <2> HIDE DEF Reads
    <2> QED BY <1>3, <1>4, <2>3 DEF HandlerAgrees
  <1> QED BY <1>5, <1>6 DEF TurnInv, JobsAgree

\* The invariant after a handler has started, or has read the plan again.
LEMMA GetKeeps ==
    ASSUME TurnInv, NEW k, JobGet(k) \/ JobGetLater(k)
    PROVE  TurnKept
  <1>1. /\ UNCHANGED <<plan, planCache, worker, job, node, nodeCache, secret, touched>>
        /\ jobQueue \ {k} \subseteq jobQueue'
    BY DEF JobGet, JobGetLater, planVars, nodeVars, envVars
  <1>2. /\ DOMAIN handling' = DOMAIN handling \cup {k}
        /\ \A x \in DOMAIN handling \ {k} : handling'[x] = handling[x]
    BY StartSteps DEF TurnInv
  <1>3. PICK j \in Job : /\ handling'[k] = Reads(j)
                         /\ \/ k \in DOMAIN job /\ j = job[k]
                            \/ k \in DOMAIN handling /\ j = handling[k].job
    BY StartSteps DEF TurnInv
  <1>4. k \in DOMAIN job \/ k \in DOMAIN handling
    BY <1>3
  <1>5. k \in Key /\ k[2] = Aim /\ Aim' = Aim /\ Usable(plan.spec, secret)
    BY <1>1, <1>4 DEF TurnInv, TypeOK, JobsAgree, Aim
  <1>6. /\ handling'[k].job.state = j.state /\ handling'[k].job.age = j.age
        /\ HandlerAgrees(handling'[k], plan, secret)
    <2>1. j.template.version = MungeVersion(plan.spec.version)
      BY <1>3 DEF TurnInv, JobsAgree, JobAgrees, CopiesAgree, HandlerAgrees
    <2>2. Fresh => ~IsComplete(j)
      BY <1>3 DEF Fresh
    <2> QED BY <1>3, <1>5, <2>1, <2>2, ReadsFields, ReadsJob
  <1>7. CopiesAgree'
    BY <1>1, <1>2, <1>6 DEF TurnInv, CopiesAgree
  <1>8. JobsAgree'
    <2>1. Fresh => Fresh'
      <3> SUFFICES ASSUME Fresh PROVE Fresh'
        OBVIOUS
      <3>1. ~IsComplete(j)
        BY <1>3 DEF Fresh
      <3>2. \A x \in DOMAIN handling' : ~IsComplete(handling'[x].job)
        BY <1>2, <1>6, <3>1 DEF Fresh, IsComplete
      <3> QED BY <1>1, <3>2 DEF Fresh
    <2> QED BY <1>1, <1>2, <1>5, <2>1 DEF TurnInv, JobsAgree
  <1>9. \A x : /\ (Labelled(x)' <=> Labelled(x)) /\ (Cached(x)' <=> Cached(x))
               /\ (Stands(x)' <=> Stands(x))
    BY <1>1 DEF Labelled, Cached, Stands
  <1>10. \A x : Past(x) => Past(x)'
    <2> SUFFICES ASSUME NEW x, Stands(x), x \in DOMAIN handling => IsComplete(handling[x].job),
                        x \in DOMAIN handling'
                 PROVE  IsComplete(handling'[x].job)
      BY <1>9 DEF Past
    <2>1. CASE x = k
      BY <1>3, <1>6, <2>1 DEF Stands, IsComplete
    <2>2. CASE x # k
      BY <1>2, <2>2
    <2> QED BY <2>1, <2>2
  <1>11. ReadCurrent'
    <2> SUFFICES ASSUME NEW x \in DOMAIN handling', ~Unfinished(handling'[x].job),
                        handling'[x].job.age < 2
                 PROVE  /\ x \in DOMAIN job /\ job[x].state = handling'[x].job.state
                        /\ job[x].age = handling'[x].job.age
      BY <1>1 DEF ReadCurrent
    <2>1. CASE x = k
      BY <1>3, <1>6, <2>1 DEF TurnInv, ReadCurrent, Unfinished, IsFailed, IsComplete
    <2>2. CASE x # k
      BY <1>2, <2>2 DEF TurnInv, ReadCurrent
    <2> QED BY <2>1, <2>2
  <1>12. AgedLabelled'
    <2>1. ASSUME NEW x \in DOMAIN handling', IsComplete(handling'[x].job), handling'[x].job.age = 2
          PROVE  Labelled(x)
      <3>1. CASE x = k
        BY <1>3, <1>6, <2>1, <3>1 DEF TurnInv, AgedLabelled, IsComplete
      <3>2. CASE x # k
        BY <1>2, <2>1, <3>2 DEF TurnInv, AgedLabelled
      <3> QED BY <3>1, <3>2
    <2> QED BY <1>1, <1>9, <2>1 DEF TurnInv, AgedLabelled
  <1>13. HandlerLabels'
    <2> SUFFICES ASSUME NEW x \in DOMAIN job, IsComplete(job[x]), DelayOver(job[x], plan.spec),
                        x \notin jobQueue',
                        x \in DOMAIN handling' => ~IsComplete(handling'[x].job)
                 PROVE  Labelled(x)
      BY <1>1, <1>9 DEF HandlerLabels
    <2>1. CASE x = k
      <3>1. j = handling[k].job /\ k \in DOMAIN handling /\ ~IsComplete(j)
        BY <1>2, <1>3, <1>6, <2>1 DEF IsComplete
      <3>2. CASE JobGet(k)
        BY <3>1, <3>2 DEF JobGet
      <3>3. CASE JobGetLater(k)
        BY <2>1, <3>1, <3>3 DEF JobGetLater, TurnInv, HandlerLabels
      <3> QED BY <3>2, <3>3
    <2>2. CASE x # k
      BY <1>1, <1>2, <2>2 DEF TurnInv, HandlerLabels
    <2> QED BY <2>1, <2>2
  <1>14. LabelsAgree'
    BY <1>1, <1>5, <1>9, <1>10 DEF TurnInv, LabelsAgree
  <1>15. ListsAgree' /\ Registered'
    BY <1>1, <1>5, <1>10 DEF TurnInv, ListsAgree, Registered
  <1> QED BY <1>7, <1>8, <1>10, <1>11, <1>12, <1>13, <1>14, <1>15 DEF LabelParts, TurnKept

\* What the end of a handler does to jobs, queue and handlers.
LEMMA EndFields ==
    ASSUME TypeOK, NEW k \in DOMAIN handling, handling' = Remove(handling, k),
           Deletes(k) \/ Retries(k) \/ UNCHANGED <<job, jobQueue>>
    PROVE  /\ DOMAIN handling' = DOMAIN handling \ {k}
           /\ \A x \in DOMAIN handling' : handling'[x] = handling[x]
           /\ DOMAIN job' \subseteq DOMAIN job /\ DOMAIN job \ {k} \subseteq DOMAIN job'
           /\ \A x \in DOMAIN job' : job'[x] = job[x]
           /\ jobQueue \ {k} \subseteq jobQueue'
           /\ k \in DOMAIN job' => jobQueue \subseteq jobQueue'
  <1>1. /\ DOMAIN handling' = DOMAIN handling \ {k}
        /\ \A x \in DOMAIN handling' : handling'[x] = handling[x]
    BY DEF Remove
  <1>2. CASE Deletes(k)
    BY <1>1, <1>2 DEF Deletes, Remove
  <1>3. CASE Retries(k) \/ UNCHANGED <<job, jobQueue>>
    BY <1>1, <1>3 DEF Retries
  <1> QED BY <1>2, <1>3

\* Jobs that are left or gone agree as before.
LEMMA FewerAgree ==
    ASSUME TurnInv, plan'.spec = plan.spec, secret' = secret,
           \/ Settled(plan'.status, plan'.spec, secret')
           \/ UNCHANGED <<plan, planCache, worker>>,
           DOMAIN job' \subseteq DOMAIN job, \A x \in DOMAIN job' : job'[x] = job[x],
           DOMAIN handling' \subseteq DOMAIN handling,
           \A x \in DOMAIN handling' : handling'[x] = handling[x]
    PROVE  JobsAgree'
  <1>1. Aim' = Aim
    BY DEF Aim
  <1>2. \A x \in DOMAIN job' : x[2] = Aim /\ JobAgrees(job'[x], plan.spec)
    BY DEF TurnInv, JobsAgree
  <1>3. Settled(plan'.status, plan'.spec, secret') \/ Fresh'
    <2>1. CASE UNCHANGED <<plan, planCache, worker>>
      <3>1. Fresh => Fresh'
        BY <2>1 DEF Fresh
      <3> QED BY <2>1, <3>1 DEF TurnInv, JobsAgree
    <2> QED BY <2>1
  <1> QED BY <1>1, <1>2, <1>3 DEF TurnInv, JobsAgree

\* The invariant after a handler that does not touch its node: one whose job was not
\* complete when it read it.
LEMMA EndKeeps ==
    ASSUME TurnInv, NEW k \in DOMAIN handling, handling' = Remove(handling, k),
           ~IsComplete(handling[k].job),
           Deletes(k) \/ Retries(k) \/ UNCHANGED <<job, jobQueue>>,
           UNCHANGED <<planCache, worker, node, nodeCache, secret, touched>>,
           NEW st, Written(st), plan'.status.applying = plan.status.applying,
           Settled(plan'.status, plan'.spec, secret') \/ plan' = plan
    PROVE  TurnKept
  <1>1. /\ DOMAIN handling' = DOMAIN handling \ {k}
        /\ \A x \in DOMAIN handling' : handling'[x] = handling[x]
        /\ DOMAIN job' \subseteq DOMAIN job /\ DOMAIN job \ {k} \subseteq DOMAIN job'
        /\ \A x \in DOMAIN job' : job'[x] = job[x]
        /\ jobQueue \ {k} \subseteq jobQueue'
        /\ k \in DOMAIN job' => jobQueue \subseteq jobQueue'
    BY EndFields DEF TurnInv
  <1>2. Aim' = Aim /\ plan'.spec = plan.spec
    BY DEF Written, Aim
  <1>3. CopiesAgree'
    <2>1. worker'.pc # "idle" => WorkerAgrees(worker', plan', secret')
      <3>1. worker.pc # "idle" => worker.plan.rv \in Nat /\ WorkerAgrees(worker, plan, secret)
        BY WorkerParts, PlanParts DEF TurnInv, TypeOK, CopiesAgree
      <3> QED BY <3>1, WrittenAgrees DEF TurnInv
    <2> QED BY <1>1, <2>1, CopiesKept
  <1>4. JobsAgree'
    BY <1>1, <1>2, FewerAgree
  <1>5. \A x : (Labelled(x)' <=> Labelled(x)) /\ (Cached(x)' <=> Cached(x))
    BY DEF Labelled, Cached
  <1>6. /\ \A x \in DOMAIN job' : Stands(x) => Stands(x)'
        /\ \A x : Past(x) => Past(x)'
    BY <1>1, <1>2, <1>5 DEF Past, Stands
  <1>7. ReadCurrent'
    BY <1>1 DEF TurnInv, ReadCurrent
  <1>8. AgedLabelled'
    BY <1>1, <1>5 DEF TurnInv, AgedLabelled
  <1>9. HandlerLabels'
    <2> SUFFICES ASSUME NEW x \in DOMAIN job', IsComplete(job[x]), DelayOver(job[x], plan.spec),
                        x \notin jobQueue',
                        x \in DOMAIN handling' => ~IsComplete(handling'[x].job)
                 PROVE  Labelled(x)
      BY <1>1, <1>2, <1>5 DEF HandlerLabels
    <2>1. x \notin jobQueue /\ x \in DOMAIN job
      BY <1>1
    <2>2. x \in DOMAIN handling => ~IsComplete(handling[x].job)
      BY <1>1
    <2> QED BY <2>1, <2>2 DEF TurnInv, HandlerLabels
  <1>10. LabelsAgree'
    BY <1>1, <1>2, <1>5, <1>6 DEF TurnInv, LabelsAgree
  <1>11. ListsAgree'
    BY <1>2, <1>6 DEF TurnInv, ListsAgree
  <1>12. Registered'
    BY <1>1 DEF TurnInv, Registered
  <1> QED BY <1>3, <1>4, <1>6, <1>7, <1>8, <1>9, <1>10, <1>11, <1>12 DEF LabelParts, TurnKept

\* While nothing is edited no handler finds its node gone, and only one whose job is not
\* complete may find it orphaned.
LEMMA ActCases ==
    ASSUME TurnInv, NEW k, JobAct(k)
    PROVE  /\ k \in DOMAIN handling /\ k \in Key /\ k[2] = Aim /\ k[1] \in Node
           /\ HandlerAgrees(handling[k], plan, secret)
           /\ \/ JobFailed(k) \/ JobComplete(k) \/ JobOutOfTurn(k) \/ JobInTurn(k)
              \/ JobOrphaned(k) /\ ~IsComplete(handling[k].job)
  <1>1. k \in DOMAIN handling
    BY DEF JobAct, JobOrphaned, JobNodeGone, JobFailed, JobComplete, JobOutOfTurn, JobInTurn,
           Handled, Belongs
  <1>2. k \in Key /\ k[2] = Aim /\ k[1] \in Node /\ HandlerAgrees(handling[k], plan, secret)
    BY <1>1 DEF TurnInv, TypeOK, JobsAgree, CopiesAgree, Key
  <1>3. JobOrphaned(k) => ~IsComplete(handling[k].job)
    BY <1>2 DEF HandlerAgrees, JobOrphaned
  <1>4. nodeCache[k[1]].mode = "in"
    BY <1>2 DEF TurnInv, NodesSelected, CopiesAgree
  <1> QED BY <1>1, <1>2, <1>3, <1>4 DEF JobAct, JobNodeGone

\* The handler of a failed job has written the plan.
FailureWritten(k) ==
    /\ JobFailed(k) /\ Current(handling[k].plan)
    /\ plan' = WithStatus([handling[k].plan.status EXCEPT
                             !.complete = SetError(@, "JobFailed", k[1], Now)])

\* If it has not, it is run again.
LEMMA FailureCases ==
    ASSUME NEW k, JobFailed(k)
    PROVE  FailureWritten(k) \/ (plan' = plan /\ Retries(k))
  BY DEF JobFailed, FailureWritten, Writes, WriteFails

\* It writes its message and the list of nodes that the plan has.
LEMMA FailedWrites ==
    ASSUME TurnInv, NEW k, JobAct(k), FailureWritten(k)
    PROVE  \E st : /\ Written(st) /\ plan'.status = st /\ st.applying = plan.status.applying
                   /\ Settled(st, plan.spec, secret) /\ Reported(st.complete)
  <1> DEFINE p == handling[k].plan
             c == SetError(p.status.complete, "JobFailed", k[1], Now)
             st == [p.status EXCEPT !.complete = c]
  <1>1. k \in DOMAIN handling /\ k[1] \in Node /\ HandlerAgrees(handling[k], plan, secret)
    BY ActCases
  <1>2. p \in Plan /\ p.status \in Status(HostnameValue) /\ p.status.complete \in Condition
    BY <1>1, PlanParts DEF TurnInv, TypeOK
  <1>3. c \in Condition /\ Reported(c)
    BY <1>1, <1>2, CompleteWrites, FailureReports
  <1>4. Settled(p.status, plan.spec, secret) /\ p.status.applying = plan.status.applying
    BY <1>1 DEF FailureWritten, JobFailed, Handled, Belongs, Current, HandlerAgrees
  <1>5. plan' = WithStatus(st)
    BY DEF FailureWritten
  <1> HIDE DEF p, c
  <1>6. /\ st \in Status(HostnameValue) /\ st.applying = plan.status.applying
        /\ Settled(st, plan.spec, secret) /\ Reported(st.complete)
    BY <1>2, <1>3, <1>4 DEF Status, Settled
  <1> HIDE DEF st
  <1>7. Written(st) /\ plan'.status = st
    BY <1>5, <1>6, WithStatusWrites DEF TurnInv
  <1> QED BY <1>6, <1>7

\* The invariant after the handler of a failed job, which writes the plan, or of an
\* unfinished one.
LEMMA UnfinishedKeeps ==
    ASSUME TurnInv, NEW k, JobAct(k),
           \/ JobFailed(k) \/ JobOutOfTurn(k) \/ JobInTurn(k)
           \/ JobOrphaned(k) /\ ~IsComplete(handling[k].job)
    PROVE  TurnKept
  <1>1. k \in DOMAIN handling /\ k[1] \in Node /\ HandlerAgrees(handling[k], plan, secret)
    BY ActCases
  <1>2. /\ handling' = Remove(handling, k) /\ ~IsComplete(handling[k].job)
        /\ UNCHANGED <<planCache, worker, node, nodeCache, secret, touched>>
        /\ Deletes(k) \/ Retries(k) \/ UNCHANGED <<job, jobQueue>>
    BY DEF JobFailed, JobOutOfTurn, JobInTurn, JobOrphaned, Handled, Belongs, Ends, QueuesPlan,
           DeleteJob, EnqueueOrDelete, planVars, nodeVars, Unfinished, IsFailed, IsComplete
  <1>3. TypeOK /\ plan.rv \in Nat
    BY PlanParts DEF TurnInv, TypeOK
  <1>4. CASE plan' = plan
    <2>1. Written(plan.status)
      BY <1>3, <1>4 DEF Written
    <2> QED BY <1>1, <1>2, <1>3, <1>4, <2>1, EndKeeps
  <1>5. CASE FailureWritten(k)
    <2>1. PICK st : /\ Written(st) /\ plan'.status = st /\ st.applying = plan.status.applying
                    /\ Settled(st, plan.spec, secret)
      BY <1>5, FailedWrites
    <2>2. plan'.spec = plan.spec
      BY <2>1 DEF Written
    <2> QED BY <1>1, <1>2, <2>1, <2>2, EndKeeps
  <1> QED BY <1>4, <1>5, FailureCases DEF JobOutOfTurn, JobInTurn, JobOrphaned, planVars

\* What the handler of a complete job does to its node, and to the job.
LEMMA CompleteFields ==
    ASSUME TurnInv, NEW k \in DOMAIN handling, k \in Key, k[1] \in Node,
           handling[k].plan.spec = plan.spec, JobComplete(k)
    PROVE  /\ \A m \in Node : m # k[1] => nodeCache'[m] = nodeCache[m] /\ node'[m] = node[m]
           /\ nodeCache'[k[1]].label =
                IF DelayOver(handling[k].job, plan.spec) THEN k[2] ELSE nodeCache[k[1]].label
           /\ node' = node \/ node'[k[1]].label = nodeCache'[k[1]].label
           /\ \/ job' = job /\ (k \in DOMAIN job => k \in jobQueue')
              \/ /\ node'[k[1]].label = nodeCache'[k[1]].label
                 /\ \/ handling[k].job.age < 2 /\ job' = job
                    \/ handling[k].job.age = 2 /\ k \notin DOMAIN job'
           /\ Deletes(k) \/ Retries(k) \/ UNCHANGED <<job, jobQueue>>
           /\ handling' = Remove(handling, k) /\ IsComplete(handling[k].job)
           /\ UNCHANGED <<plan, planCache, worker, secret, touched>>
  <1> DEFINE n == k[1]
             over == DelayOver(handling[k].job, plan.spec)
  <1>1. /\ TypeOK /\ n \in Node /\ nodeCache[n] \in NodeRecord /\ k[2] \in Hash
        /\ handling[k].job.age \in 0..2 /\ nodeCache \in [Node -> NodeRecord]
        /\ node \in [Node -> NodeRecord]
    BY DEF TurnInv, TypeOK, Key, Job
  <1>2. UpdateNode(k, n, Tagged(k))
    BY DEF JobComplete
  <1>3. Tagged(k).label = IF over THEN k[2] ELSE nodeCache[n].label
    BY <1>1 DEF Tagged, NodeRecord
  <1>4. /\ handling' = Remove(handling, k) /\ IsComplete(handling[k].job)
        /\ UNCHANGED <<plan, planCache, worker, secret, touched>>
    BY DEF JobComplete, Handled, Belongs, Ends, QueuesPlan
  <1>5. nodeCache'[n] = Tagged(k) /\ \A m \in Node : m # n => nodeCache'[m] = nodeCache[m]
    BY <1>1, <1>2 DEF UpdateNode
  <1> HIDE DEF n, over
  <1>6. ASSUME NodeWritten(n, Tagged(k))
        PROVE  node'[n] = Tagged(k) /\ \A m \in Node : m # n => node'[m] = node[m]
    BY <1>1, <1>6 DEF NodeWritten
  <1>7. /\ \/ node' = node
           \/ node'[n] = Tagged(k) /\ \A m \in Node : m # n => node'[m] = node[m]
        /\ Retries(k) \/ (node'[n] = Tagged(k) /\ EnqueueOrDelete(k))
    BY <1>2, <1>6 DEF UpdateNode
  <1>8. Retries(k) => job' = job /\ (k \in DOMAIN job => k \in jobQueue')
    BY DEF Retries
  <1>9. EnqueueOrDelete(k) => \/ handling[k].job.age < 2 /\ UNCHANGED <<job, jobQueue>>
                              \/ handling[k].job.age = 2 /\ Deletes(k)
    BY <1>1 DEF EnqueueOrDelete
  <1>10. Deletes(k) => k \notin DOMAIN job'
    BY DEF Deletes, Remove
  <1> QED BY <1>3, <1>4, <1>5, <1>7, <1>8, <1>9, <1>10 DEF n, over

\* The invariant after the handler of a complete job.
LEMMA CompleteKeeps ==
    ASSUME TurnInv, NEW k, JobAct(k), JobComplete(k)
    PROVE  TurnKept
  <1> DEFINE over == DelayOver(handling[k].job, plan.spec)
             written == node'[k[1]].label = nodeCache'[k[1]].label
             again == job' = job /\ (k \in DOMAIN job => k \in jobQueue')
             done == \/ handling[k].job.age < 2 /\ job' = job
                     \/ handling[k].job.age = 2 /\ k \notin DOMAIN job'
  <1>1. /\ k \in DOMAIN handling /\ k \in Key /\ k[2] = Aim /\ k[1] \in Node
        /\ handling[k].plan.spec = plan.spec
    BY ActCases DEF HandlerAgrees
  <1>2. /\ \A m \in Node : m # k[1] => nodeCache'[m] = nodeCache[m] /\ node'[m] = node[m]
        /\ nodeCache'[k[1]].label = IF over THEN k[2] ELSE nodeCache[k[1]].label
        /\ (node' = node \/ written) /\ (again \/ (written /\ done))
        /\ Deletes(k) \/ Retries(k) \/ UNCHANGED <<job, jobQueue>>
        /\ handling' = Remove(handling, k) /\ IsComplete(handling[k].job)
        /\ UNCHANGED <<plan, planCache, worker, secret, touched>>
    BY <1>1, CompleteFields
  <1>3. /\ DOMAIN handling' = DOMAIN handling \ {k}
        /\ \A x \in DOMAIN handling' : handling'[x] = handling[x]
        /\ DOMAIN job' \subseteq DOMAIN job /\ DOMAIN job \ {k} \subseteq DOMAIN job'
        /\ \A x \in DOMAIN job' : job'[x] = job[x]
        /\ jobQueue \ {k} \subseteq jobQueue'
        /\ k \in DOMAIN job' => jobQueue \subseteq jobQueue'
    BY <1>1, <1>2, EndFields DEF TurnInv
  <1>4. /\ Aim' = Aim /\ handling[k].job.age \in 0..2
        /\ \A x \in Key : x[2] = Aim /\ x # k => x[1] \in Node /\ x[1] # k[1]
        /\ \A x \in DOMAIN job \cup DOMAIN handling : x \in Key /\ x[2] = Aim
    BY <1>1, <1>2 DEF TurnInv, TypeOK, JobsAgree, Key, Job, Aim
  <1>5. handling[k].job.age = 2 => over
    BY DEF DelayOver
  <1>6. \A x \in Key : x[2] = Aim /\ x # k =>
          (Labelled(x)' <=> Labelled(x)) /\ (Cached(x)' <=> Cached(x))
    BY <1>2, <1>4 DEF Labelled, Cached
  <1>7. handling[k].job.age = 2 => Labelled(k)
    BY <1>1, <1>2 DEF TurnInv, AgedLabelled
  <1>8. handling[k].job.age < 2 =>
          k \in DOMAIN job /\ IsComplete(job[k]) /\ job[k].age = handling[k].job.age
    BY <1>1, <1>2 DEF TurnInv, ReadCurrent, Unfinished, IsComplete
  <1> HIDE DEF over
  <1>9. Labelled(k) => Cached(k) /\ Labelled(k)' /\ Cached(k)'
    BY <1>1, <1>2 DEF TurnInv, LabelsAgree, Labelled, Cached
  <1>cached. Cached(k) /\ handling[k].job.age < 2 => over
    <2>1. Cached(k) => Past(k)
      BY <1>1 DEF TurnInv, LabelsAgree
    <2>2. k \in DOMAIN job /\ Labelled(k) => Stands(k)
      BY DEF TurnInv, LabelsAgree
    <2> QED BY <1>8, <2>1, <2>2 DEF Past, Stands, over, DelayOver
  <1>10. \A x \in Key : x[2] = Aim /\ Labelled(x) => Labelled(x)'
    BY <1>6, <1>9
  <1>11. written /\ over => Labelled(k)'
    BY <1>2 DEF Labelled
  <1>12. \A x \in Key : x[2] = Aim /\ Past(x) => Past(x)'
    <2> SUFFICES ASSUME NEW x \in Key, x[2] = Aim, Past(x) PROVE Past(x)'
      OBVIOUS
    <2>1. CASE Labelled(x)
      BY <1>10, <2>1 DEF Past
    <2>2. CASE ~Labelled(x) /\ x # k
      BY <1>2, <1>3, <2>2 DEF Past, Stands
    <2>3. CASE ~Labelled(x) /\ x = k
      BY <1>2, <1>3, <1>7, <2>3 DEF Past, Stands
    <2> QED BY <2>1, <2>2, <2>3
  <1>13. CopiesAgree'
    <2>1. Written(plan.status)
      BY <1>2, PlanParts DEF TurnInv, TypeOK, Written
    <2>2. worker'.pc # "idle" => WorkerAgrees(worker', plan', secret')
      BY <1>2 DEF TurnInv, CopiesAgree
    <2> QED BY <1>2, <1>3, <2>1, <2>2, CopiesKept
  <1>14. JobsAgree'
    BY <1>2, <1>3, FewerAgree
  <1>15. ReadCurrent'
    BY <1>3 DEF TurnInv, ReadCurrent
  <1>16. AgedLabelled'
    BY <1>3, <1>4, <1>10 DEF TurnInv, AgedLabelled
  <1>17. HandlerLabels'
    <2> SUFFICES ASSUME NEW x \in DOMAIN job', IsComplete(job[x]), DelayOver(job[x], plan.spec),
                        x \notin jobQueue',
                        x \in DOMAIN handling' => ~IsComplete(handling'[x].job)
                 PROVE  Labelled(x)'
      BY <1>2, <1>3 DEF HandlerLabels
    <2>1. CASE x # k
      <3>1. x \in DOMAIN job /\ x \notin jobQueue /\ x \in Key /\ x[2] = Aim
            /\ (x \in DOMAIN handling => ~IsComplete(handling[x].job))
        BY <1>3, <1>4, <2>1
      <3>2. Labelled(x)
        BY <3>1 DEF TurnInv, HandlerLabels
      <3> QED BY <1>10, <3>1, <3>2
    <2>2. CASE x = k
      <3>1. written /\ handling[k].job.age < 2
        BY <1>2, <1>3, <2>2
      <3>2. over
        BY <1>8, <2>2, <3>1 DEF DelayOver, over
      <3> QED BY <1>11, <2>2, <3>1, <3>2
    <2> QED BY <2>1, <2>2
  <1>18. LabelsAgree'
    <2>1. ASSUME NEW x \in Key, x[2] = Aim, Cached(x)' PROVE Past(x)'
      <3>1. CASE Cached(x)
        BY <1>12, <2>1, <3>1 DEF TurnInv, LabelsAgree
      <3>2. CASE ~Cached(x)
        <4>1. x = k /\ over
          BY <1>2, <1>6, <2>1, <3>2 DEF Cached
        <4>2. CASE written
          BY <1>11, <4>1, <4>2 DEF Past
        <4>3. CASE ~written
          <5>1. CASE handling[k].job.age = 2
            BY <1>7, <1>9, <4>1, <5>1 DEF Past
          <5>2. CASE handling[k].job.age < 2
            <6>1. Stands(k)'
              BY <1>2, <1>8, <4>1, <4>3, <5>2 DEF Stands, over, DelayOver
            <6> QED BY <1>3, <4>1, <6>1 DEF Past
          <5> QED BY <1>4, <5>1, <5>2
        <4> QED BY <1>2, <4>2, <4>3
      <3> QED BY <3>1, <3>2
    <2>2. ASSUME NEW x \in Key, x[2] = Aim, Labelled(x)' PROVE Cached(x)'
      <3>1. CASE x # k
        BY <1>6, <2>2, <3>1 DEF TurnInv, LabelsAgree
      <3>2. CASE x = k
        BY <1>2, <1>9, <2>2, <3>2 DEF Labelled, Cached
      <3> QED BY <3>1, <3>2
    <2>3. ASSUME NEW x \in DOMAIN job', Labelled(x)' PROVE Stands(x)'
      <3>1. CASE Labelled(x)
        <4>1. Stands(x)
          BY <1>3, <3>1 DEF TurnInv, LabelsAgree
        <4> QED BY <1>2, <1>3, <4>1 DEF Stands
      <3>2. CASE ~Labelled(x)
        <4>1. x = k
          BY <1>3, <1>4, <1>6, <2>3, <3>2
        <4>2. written /\ handling[k].job.age < 2
          BY <1>2, <1>4, <1>7, <2>3, <3>2, <4>1 DEF Labelled
        <4>3. over
          BY <1>2, <1>cached, <2>3, <3>2, <4>1, <4>2 DEF Labelled, Cached
        <4> QED BY <1>2, <1>3, <1>8, <4>1, <4>2, <4>3 DEF Stands, over, DelayOver
      <3> QED BY <3>1, <3>2
    <2> QED BY <1>4, <2>1, <2>2, <2>3 DEF LabelsAgree
  <1>19. ListsAgree'
    BY <1>2, <1>4, <1>12 DEF TurnInv, ListsAgree
  <1>20. Registered'
    BY <1>2, <1>3 DEF TurnInv, Registered
  <1> QED BY <1>12, <1>13, <1>14, <1>15, <1>16, <1>17, <1>18, <1>19, <1>20 DEF LabelParts, TurnKept

-------------------------------------------------------------------------------
(* The cluster. *)

\* The invariant after a step of one job.
LEMMA OneJobKeeps ==
    ASSUME TurnInv, NEW k \in DOMAIN job, DOMAIN job' = DOMAIN job,
           \A x \in DOMAIN job : x # k => job'[x] = job[x],
           jobQueue' = jobQueue \cup {k}, \A n \in Node : node'[n].label = node[n].label,
           UNCHANGED <<plan, planCache, worker, handling, nodeCache, secret, touched>>,
           JobAgrees(job'[k], plan.spec), job'[k].parallelism = job[k].parallelism,
           IsComplete(job[k]) => IsComplete(job'[k]), job[k].age <= job'[k].age,
           Unfinished(job'[k]) => Unfinished(job[k]),
           Unfinished(job[k]) \/ k \notin DOMAIN handling,
           IsComplete(job'[k]) => IsComplete(job[k]) \/ job[k].parallelism = 1,
           job'[k].age \in 0..2, IsComplete(job'[k]) /\ job'[k].age = 2 => Labelled(k)
    PROVE  TurnKept
  <1>1. Aim' = Aim /\ \A x \in DOMAIN job \cup DOMAIN handling : x \in Key
    BY DEF TurnInv, TypeOK, Aim
  <1>2. \A x \in Key : (Labelled(x)' <=> Labelled(x)) /\ (Cached(x)' <=> Cached(x))
    BY DEF Labelled, Cached, Key
  <1>3. /\ \A x : Stands(x) => Stands(x)'
        /\ \A x \in Key : Past(x) => Past(x)'
    <2>1. ASSUME NEW x, Stands(x) PROVE Stands(x)'
      <3>1. job[x].age \in Nat /\ job'[x].age \in Nat /\ job[x].age <= job'[x].age
        BY <2>1 DEF TurnInv, TypeOK, Job, Stands
      <3> QED BY <2>1, <3>1 DEF Stands, DelayOver
    <2> QED BY <1>2, <2>1 DEF Past
  <1>4. CopiesAgree'
    BY DEF TurnInv, CopiesAgree
  <1>5. JobsAgree'
    <2>1. Fresh => Fresh'
      BY DEF Fresh
    <2> QED BY <1>1, <2>1 DEF TurnInv, JobsAgree
  <1>6. ReadCurrent'
    <2> SUFFICES ASSUME NEW x \in DOMAIN handling,
                        ~Unfinished(handling[x].job), handling[x].job.age < 2
                 PROVE  /\ x \in DOMAIN job /\ job'[x].state = handling[x].job.state
                        /\ job'[x].age = handling[x].job.age
      BY DEF ReadCurrent
    <2>1. /\ x \in DOMAIN job /\ job[x].state = handling[x].job.state
          /\ job[x].age = handling[x].job.age
      BY DEF TurnInv, ReadCurrent
    <2>2. x # k
      BY <2>1 DEF Unfinished, IsFailed, IsComplete
    <2> QED BY <2>1, <2>2
  <1>7. AgedLabelled'
    BY <1>1, <1>2 DEF TurnInv, AgedLabelled
  <1>8. HandlerLabels'
    <2> SUFFICES ASSUME NEW x \in DOMAIN job, IsComplete(job'[x]), DelayOver(job'[x], plan.spec),
                        x \notin jobQueue',
                        x \in DOMAIN handling => ~IsComplete(handling[x].job)
                 PROVE  Labelled(x)
      BY <1>1, <1>2 DEF HandlerLabels
    <2>1. x # k /\ x \notin jobQueue
      OBVIOUS
    <2> QED BY <2>1 DEF TurnInv, HandlerLabels
  <1>9. LabelsAgree'
    BY <1>1, <1>2, <1>3 DEF TurnInv, LabelsAgree
  <1>10. ListsAgree' /\ Registered'
    BY <1>1, <1>3 DEF TurnInv, ListsAgree, Registered
  <1> QED BY <1>3, <1>4, <1>5, <1>6, <1>7, <1>8, <1>9, <1>10 DEF LabelParts, TurnKept

\* A pod starts, succeeds or fails, or time passes for a job whose handler is done.
LEMMA PodKeeps ==
    ASSUME ~LateHandlers, TurnInv, NEW k, PodStep(k) \/ JobFails(k)
    PROVE  TurnKept
  <1>1. /\ UNCHANGED <<plan, planCache, worker, handling, nodeCache, secret, touched>>
        /\ k \in DOMAIN job /\ jobQueue' = jobQueue \cup {k}
    BY DEF PodStep, PodStart, JobSucceeds, Elapse, JobFails, ClusterStep, planVars, nodeVars
  <1>2. /\ k[1] \in Node /\ job[k] \in Job /\ node \in [Node -> NodeRecord]
        /\ job \in [DOMAIN job -> Job] /\ JobAgrees(job[k], plan.spec)
    BY <1>1 DEF TurnInv, TypeOK, Key, JobsAgree
  <1>3. \A n \in Node : node'[n].label = node[n].label
    <2>1. CASE PodStart(k)
      <3> DEFINE c == job[k].template.cordon /\ ~node[k[1]].unschedulable
      <3>1. node' = [node EXCEPT ![k[1]] =
                       [node[k[1]] EXCEPT !.unschedulable = node[k[1]].unschedulable \/ c]]
        BY <1>2, <2>1 DEF PodStart
      <3> HIDE DEF c
      <3> QED BY <1>2, <3>1 DEF NodeRecord
    <2>2. CASE ~PodStart(k)
      BY <2>2 DEF PodStep, JobSucceeds, Elapse, JobFails, nodeVars
    <2> QED BY <2>1, <2>2
  <1>4. ASSUME NEW s, job' = [job EXCEPT ![k].state = s]
        PROVE  /\ DOMAIN job' = DOMAIN job /\ \A x \in DOMAIN job : x # k => job'[x] = job[x]
               /\ job'[k].state = s /\ job'[k].age = job[k].age
               /\ job'[k].parallelism = job[k].parallelism
               /\ job'[k].template = job[k].template
               /\ job[k].age <= job'[k].age /\ job'[k].age \in 0..2
    BY <1>1, <1>2, <1>4 DEF Job
  <1>5. CASE PodStart(k)
    <2>1. job' = [job EXCEPT ![k].state = "running"] /\ job[k].state = "active"
          /\ job[k].parallelism = 1
      BY <1>5 DEF PodStart
    <2>2. JobAgrees(job'[k], plan.spec) /\ Unfinished(job[k]) /\ ~IsComplete(job'[k])
      BY <1>2, <1>4, <2>1 DEF JobAgrees, Unfinished, IsFailed, IsComplete
    <2>3. /\ DOMAIN job' = DOMAIN job /\ \A x \in DOMAIN job : x # k => job'[x] = job[x]
          /\ job'[k].parallelism = job[k].parallelism
          /\ job[k].age <= job'[k].age /\ job'[k].age \in 0..2
      BY <1>4, <2>1
    <2>4. ~IsComplete(job[k])
      BY <2>2 DEF Unfinished
    <2> QED BY <1>1, <1>3, <2>2, <2>3, <2>4, OneJobKeeps
  <1>6. CASE JobSucceeds(k)
    <2>1. job' = [job EXCEPT ![k].state = "complete"] /\ job[k].state = "running"
      BY <1>6 DEF JobSucceeds
    <2>2. /\ JobAgrees(job'[k], plan.spec) /\ Unfinished(job[k]) /\ IsComplete(job'[k])
          /\ job'[k].age = 0 /\ job[k].parallelism = 1
      BY <1>2, <1>4, <2>1 DEF JobAgrees, Unfinished, IsFailed, IsComplete
    <2>3. /\ DOMAIN job' = DOMAIN job /\ \A x \in DOMAIN job : x # k => job'[x] = job[x]
          /\ job'[k].parallelism = job[k].parallelism
          /\ job[k].age <= job'[k].age /\ job'[k].age \in 0..2
      BY <1>4, <2>1
    <2>4. job'[k].age # 2
      BY <2>2
    <2> QED BY <1>1, <1>3, <2>2, <2>3, <2>4, OneJobKeeps
  <1>7. CASE JobFails(k)
    <2>1. job' = [job EXCEPT ![k].state = "failed"] /\ Unfinished(job[k])
      BY <1>7 DEF JobFails
    <2>2. JobAgrees(job'[k], plan.spec) /\ ~IsComplete(job'[k]) /\ ~Unfinished(job'[k])
      BY <1>2, <1>4, <2>1 DEF JobAgrees, Unfinished, IsFailed, IsComplete
    <2>3. /\ DOMAIN job' = DOMAIN job /\ \A x \in DOMAIN job : x # k => job'[x] = job[x]
          /\ job'[k].parallelism = job[k].parallelism
          /\ job[k].age <= job'[k].age /\ job'[k].age \in 0..2
      BY <1>4, <2>1
    <2>4. ~IsComplete(job[k])
      BY <2>1 DEF Unfinished
    <2> QED BY <1>1, <1>3, <2>1, <2>2, <2>3, <2>4, OneJobKeeps
  <1>8. CASE Elapse(k)
    <2>1. /\ ~Unfinished(job[k]) /\ job[k].age < 2 /\ k \notin jobQueue /\ k \notin DOMAIN handling
          /\ job' = [job EXCEPT ![k].age = IF plan.spec.delay THEN @ + 1 ELSE 2]
      BY <1>8 DEF Elapse
    <2>2. /\ DOMAIN job' = DOMAIN job /\ \A x \in DOMAIN job : x # k => job'[x] = job[x]
          /\ job'[k].state = job[k].state
          /\ job'[k].age = IF plan.spec.delay THEN job[k].age + 1 ELSE 2
          /\ job'[k].parallelism = job[k].parallelism
          /\ job'[k].template = job[k].template
      BY <1>1, <1>2, <2>1 DEF Job
    <2>3. JobAgrees(job'[k], plan.spec) /\ ~Unfinished(job'[k])
          /\ (IsComplete(job'[k]) <=> IsComplete(job[k]))
      BY <1>2, <2>1, <2>2 DEF JobAgrees, Unfinished, IsFailed, IsComplete
    <2>4. job'[k].age = 2 => DelayOver(job[k], plan.spec)
      BY <1>2, <2>2 DEF DelayOver, Job
    <2>5. IsComplete(job'[k]) /\ job'[k].age = 2 => Labelled(k)
      BY <1>1, <2>1, <2>3, <2>4 DEF TurnInv, HandlerLabels
    <2>6. job[k].age <= job'[k].age /\ job'[k].age \in 0..2
      BY <1>2, <2>1, <2>2 DEF Job
    <2> QED BY <1>1, <1>3, <2>1, <2>2, <2>3, <2>5, <2>6, OneJobKeeps
  <1> QED BY <1>5, <1>6, <1>7, <1>8 DEF PodStep

\* A job is deleted at the end of its TTL, and by then it has labelled its node.
LEMMA TTLKeeps ==
    ASSUME TurnInv, NEW k, TTLDelete(k)
    PROVE  TurnKept
  <1>1. /\ UNCHANGED <<plan, planCache, worker, handling, node, nodeCache, secret, touched>>
        /\ k \in DOMAIN job /\ job[k].age = 2 /\ Deletes(k)
    BY DEF TTLDelete, ClusterStep, planVars, nodeVars
  <1>2. /\ DOMAIN job' = DOMAIN job \ {k} /\ jobQueue' = jobQueue \ {k}
        /\ \A x \in DOMAIN job' : job'[x] = job[x]
    BY <1>1 DEF Deletes, Remove
  <1>3. Aim' = Aim /\ \A x : (Labelled(x)' <=> Labelled(x)) /\ (Cached(x)' <=> Cached(x))
    BY <1>1 DEF Aim, Labelled, Cached
  <1>4. IsComplete(job[k]) => Labelled(k)
    BY <1>1 DEF TurnInv, AgedLabelled
  <1>5. /\ \A x \in DOMAIN job' : Stands(x) => Stands(x)'
        /\ \A x : Past(x) => Past(x)'
    BY <1>1, <1>2, <1>3, <1>4 DEF Past, Stands
  <1>6. CopiesAgree'
    BY <1>1 DEF TurnInv, CopiesAgree
  <1>7. JobsAgree'
    BY <1>1, <1>2, FewerAgree
  <1>8. ReadCurrent'
    <2> SUFFICES ASSUME NEW x \in DOMAIN handling,
                        ~Unfinished(handling[x].job), handling[x].job.age < 2
                 PROVE  /\ x \in DOMAIN job' /\ job'[x].state = handling[x].job.state
                        /\ job'[x].age = handling[x].job.age
      BY <1>1 DEF ReadCurrent
    <2>1. /\ x \in DOMAIN job /\ job[x].state = handling[x].job.state
          /\ job[x].age = handling[x].job.age
      BY DEF TurnInv, ReadCurrent
    <2>2. x # k
      BY <1>1, <2>1
    <2> QED BY <1>2, <2>1, <2>2
  <1>9. AgedLabelled' /\ HandlerLabels'
    BY <1>1, <1>2, <1>3 DEF TurnInv, AgedLabelled, HandlerLabels
  <1>10. LabelsAgree'
    BY <1>2, <1>3, <1>5 DEF TurnInv, LabelsAgree
  <1>11. ListsAgree' /\ Registered'
    BY <1>1, <1>2, <1>3, <1>5 DEF TurnInv, ListsAgree, Registered
  <1> QED BY <1>5, <1>6, <1>7, <1>8, <1>9, <1>10, <1>11 DEF LabelParts, TurnKept

\* The event of a node puts what the node has into the cache.
LEMMA NodeWatchKeeps ==
    ASSUME TurnInv, NEW n \in Node, NodeWatch(n)
    PROVE  TurnKept
  <1>1. /\ UNCHANGED <<plan, planCache, worker, job, jobQueue, handling, node, secret, touched>>
        /\ nodeCache' = [nodeCache EXCEPT ![n] = node[n]]
    BY DEF NodeWatch, jobVars, envVars
  <1>2. /\ Aim' = Aim
        /\ \A x : /\ (Labelled(x)' <=> Labelled(x)) /\ (Past(x)' <=> Past(x))
                  /\ (Stands(x)' <=> Stands(x))
    BY <1>1 DEF Aim, Labelled, Past, Stands
  <1>3. \A x \in Key : IF x[1] = n THEN Cached(x)' <=> Labelled(x) ELSE Cached(x)' <=> Cached(x)
    BY <1>1 DEF TurnInv, TypeOK, Key, Cached, Labelled
  <1>4. CopiesAgree' /\ JobsAgree'
    <2>1. Fresh => Fresh'
      BY <1>1 DEF Fresh
    <2> QED BY <1>1, <1>2, <2>1 DEF TurnInv, CopiesAgree, JobsAgree
  <1>5. ReadCurrent' /\ AgedLabelled' /\ HandlerLabels'
    BY <1>1, <1>2 DEF TurnInv, ReadCurrent, AgedLabelled, HandlerLabels
  <1>6. LabelsAgree'
    <2>1. \A x \in Key : Labelled(x) => Past(x)
      BY DEF Past
    <2> QED BY <1>1, <1>2, <1>3, <2>1 DEF TurnInv, LabelsAgree
  <1>7. ListsAgree' /\ Registered'
    BY <1>1, <1>2 DEF TurnInv, ListsAgree, Registered
  <1> QED BY <1>2, <1>4, <1>5, <1>6, <1>7 DEF LabelParts, TurnKept

\* A new process has current caches, every job in its queue and no handler running.
LEMMA RestartKeeps ==
    ASSUME TurnInv, Restart
    PROVE  TurnKept
  <1>1. /\ UNCHANGED <<plan, job, node, secret, touched>>
        /\ planCache' = plan /\ worker' = Idle /\ nodeCache' = node
        /\ jobQueue' = DOMAIN job /\ handling' = Nothing
    BY DEF Restart
  <1>2. DOMAIN handling' = {} /\ worker'.pc = "idle"
    BY <1>1 DEF Nothing, Idle
  <1>3. Aim' = Aim /\ \A x : (Labelled(x)' <=> Labelled(x)) /\ (Cached(x)' <=> Labelled(x))
    BY <1>1 DEF Aim, Labelled, Cached
  <1>4. \A x : (Past(x) => Past(x)') /\ (Stands(x)' <=> Stands(x))
    BY <1>1, <1>2, <1>3 DEF Past, Stands
  <1>5. CopiesAgree'
    <2>1. IsTrue(plan.status.resolved) => Usable(plan.spec, secret)
      BY ResolvedUsable
    <2>2. plan.rv \in Nat
      BY PlanParts DEF TurnInv, TypeOK
    <2> QED BY <1>1, <1>2, <2>1, <2>2 DEF TurnInv, CopiesAgree
  <1>6. JobsAgree'
    <2>1. Fresh => Fresh'
      BY <1>1, <1>2 DEF Fresh
    <2> QED BY <1>1, <1>2, <1>3, <2>1 DEF TurnInv, JobsAgree
  <1>7. ReadCurrent' /\ AgedLabelled' /\ HandlerLabels'
    BY <1>1, <1>2, <1>3 DEF TurnInv, ReadCurrent, AgedLabelled, HandlerLabels
  <1>8. LabelsAgree'
    BY <1>1, <1>3, <1>4 DEF TurnInv, LabelsAgree, Past
  <1>9. ListsAgree' /\ Registered'
    BY <1>1, <1>2, <1>3 DEF TurnInv, ListsAgree, Registered
  <1> QED BY <1>4, <1>5, <1>6, <1>7, <1>8, <1>9 DEF LabelParts, TurnKept

\* Steps that at most queue jobs.
LEMMA QuietKeeps ==
    ASSUME TurnInv, jobQueue \subseteq jobQueue',
           UNCHANGED <<plan, planCache, worker, job, handling, node, nodeCache, secret, touched>>
    PROVE  TurnKept
  <1>1. /\ Aim' = Aim
        /\ \A x : /\ (Labelled(x)' <=> Labelled(x)) /\ (Cached(x)' <=> Cached(x))
                  /\ (Past(x)' <=> Past(x)) /\ (Stands(x)' <=> Stands(x))
    BY DEF Aim, Labelled, Cached, Past, Stands
  <1>2. CopiesAgree' /\ JobsAgree'
    <2>1. Fresh => Fresh'
      BY DEF Fresh
    <2> QED BY <1>1, <2>1 DEF TurnInv, CopiesAgree, JobsAgree
  <1>3. ReadCurrent' /\ AgedLabelled' /\ HandlerLabels' /\ LabelsAgree'
    BY <1>1 DEF TurnInv, ReadCurrent, AgedLabelled, HandlerLabels, LabelsAgree
  <1>4. ListsAgree' /\ Registered'
    BY <1>1 DEF TurnInv, ListsAgree, Registered
  <1> QED BY <1>1, <1>2, <1>3, <1>4 DEF LabelParts, TurnKept

\* No edit leaves plan, nodes and secret as they are.
LEMMA EditsSeen ==
    ASSUME TurnInv, Unedited
    PROVE  ~EditPlan /\ ~DeletePlan /\ ~CreatePlan /\ ~EditSecret /\ \A n : ~Relabel(n)
  <1>1. plan \in Plan /\ plan.exists /\ touched = {}
    BY DEF TurnInv, TypeOK, CopiesAgree
  <1>2. ~EditPlan
    BY <1>1 DEF EditPlan, Unedited, Plan
  <1>3. ~DeletePlan
    BY <1>1 DEF DeletePlan, Unedited, Plan
  <1>4. ~CreatePlan /\ ~EditSecret
    BY <1>1 DEF CreatePlan, EditSecret, Unedited
  <1>5. \A n : ~Relabel(n)
    BY <1>1 DEF Relabel, Unedited
  <1> QED BY <1>2, <1>3, <1>4, <1>5

-------------------------------------------------------------------------------
(* The theorem. *)

\* Every step of the system that edits nothing keeps the invariant.
LEMMA TurnStep ==
    ASSUME ~LateHandlers, TurnInv, [Next]_vars, [Unedited]_vars
    PROVE  TurnInv' /\ TurnKept
  <1>1. TypeOK' /\ NodesSelected'
    BY TypeStep, SelectedStep DEF TurnInv
  <1> SUFFICES TurnKept
    BY <1>1 DEF TurnInv, LabelParts, TurnKept
  <1>2. Unedited
    BY DEF Unedited, vars, planVars, nodeVars, envVars
  <1>3. CASE PlanStep
    BY <1>2, <1>3, SyncTurn, WatchKeeps, GenerateKeeps, UpdateKeeps DEF PlanStep
  <1>4. ASSUME NEW k \in Keys, JobStep(k) \/ PodStep(k) \/ JobFails(k) \/ TTLDelete(k)
        PROVE  TurnKept
    <2>1. CASE JobAct(k)
      <3>1. \/ JobFailed(k) \/ JobComplete(k) \/ JobOutOfTurn(k) \/ JobInTurn(k)
            \/ JobOrphaned(k) /\ ~IsComplete(handling[k].job)
        BY <2>1, ActCases
      <3> QED BY <2>1, <3>1, UnfinishedKeeps, CompleteKeeps
    <2>2. CASE JobGet(k) \/ JobGetLater(k)
      BY <2>2, GetKeeps
    <2>3. CASE PodStep(k) \/ JobFails(k)
      BY <2>3, PodKeeps
    <2>4. CASE TTLDelete(k)
      BY <2>4, TTLKeeps
    <2> QED BY <1>4, <2>1, <2>2, <2>3, <2>4 DEF JobStep
  <1>5. CASE PlanWatch \/ Restart
    BY <1>2, <1>5, WatchKeeps, RestartKeeps
  <1>6. ASSUME NEW n \in Node, NodeWatch(n) \/ Heartbeat(n) \/ Relabel(n)
        PROVE  TurnKept
    <2>1. CASE NodeWatch(n)
      BY <2>1, NodeWatchKeeps
    <2>2. CASE Heartbeat(n)
      BY <2>2, QuietKeeps DEF Heartbeat, planVars, jobVars
    <2> QED BY <1>2, <1>6, <2>1, <2>2, EditsSeen
  <1>7. CASE Resync \/ WindowOpens \/ WindowCloses \/ UNCHANGED vars
    <2>1. jobQueue \subseteq jobQueue'
      BY <1>7 DEF Resync, WindowOpens, WindowCloses, vars, jobVars, TurnInv, TypeOK
    <2>2. UNCHANGED <<plan, planCache, worker, job, handling, node, nodeCache, secret, touched>>
      BY <1>7 DEF Resync, WindowOpens, WindowCloses, vars, planVars, nodeVars, jobVars, envVars
    <2> QED BY <2>1, <2>2, QuietKeeps
  <1>8. CASE EditPlan \/ DeletePlan \/ CreatePlan \/ EditSecret
    BY <1>2, <1>8, EditsSeen
  <1> QED BY <1>3, <1>4, <1>5, <1>6, <1>7, <1>8 DEF Next

\* A new plan has no jobs and nothing is behind.
LEMMA TurnInit == Init => TurnInv
  <1> SUFFICES ASSUME Init PROVE TurnInv
    OBVIOUS
  <1>1. TypeOK /\ NodesSelected
    BY CompleteInit DEF CompleteInv, LabelInv
  <1>2. /\ DOMAIN job = {} /\ DOMAIN handling = {} /\ worker = Idle /\ worker.pc = "idle"
        /\ planCache = plan /\ touched = {} /\ nodeCache = node
    BY DEF Init, Nothing, Idle
  <1>3. plan.exists /\ plan.rv = 1 /\ ~IsTrue(plan.status.resolved) /\ plan.status = NewStatus
    <2>1. plan.exists /\ plan.rv = 1 /\ plan.status = NewStatus
      BY DEF Init
    <2>2. ~IsTrue(NewStatus.resolved)
      BY DEF NewStatus, Absent, IsTrue
    <2> QED BY <2>1, <2>2
  <1>4. CopiesAgree /\ JobsAgree
    BY <1>2, <1>3 DEF CopiesAgree, JobsAgree, Fresh
  <1>5. ReadCurrent /\ AgedLabelled /\ HandlerLabels
    BY <1>2 DEF ReadCurrent, AgedLabelled, HandlerLabels
  <1>6. LabelsAgree
    BY <1>2 DEF LabelsAgree, Past, Labelled, Cached
  <1>7. ListsAgree /\ Registered
    BY <1>2 DEF ListsAgree, Registered
  <1> QED BY <1>1, <1>4, <1>5, <1>6, <1>7 DEF TurnInv

\* While nobody edits plan, nodes and secret, and handlers are not late by a job's TTL, a
\* job of the plan's latest hash is unpaused only while its node is in Status.Applying,
\* whatever fails, restarts, conflicts or is read late (job.New, handleJobs and the two
\* passes of the generating handler).
THEOREM RegisteredCorrect ==
    ASSUME ~LateHandlers
    PROVE  Spec /\ [][Unedited]_vars => []RegisteredFirst
  <1>1. TurnInv /\ [Next]_vars /\ [Unedited]_vars => TurnInv'
    BY TurnStep
  <1>2. TurnInv => RegisteredFirst
    BY DEF TurnInv, Registered, RegisteredFirst, Unfinished
  <1> QED BY <1>1, <1>2, TurnInit, PTL DEF Spec

\* Where users may edit nothing and no secret vanishes, every behaviour is of the kind that
\* the theorems of this module speak of.
THEOREM NothingEdited ==
    ASSUME MaxEdits = 0, ~SecretVanishes
    PROVE  Spec => [][Unedited]_vars
  <1>1. ASSUME TypeOK, plan.exists, [Next]_vars PROVE Unedited
    <2>1. ~Edit
      BY <1>1 DEF Edit, TypeOK
    <2>2. plan \in Plan
      BY <1>1 DEF TypeOK
    <2>3. \A st : WithStatus(st).exists = plan.exists /\ WithStatus(st).spec = plan.spec
      BY <2>2 DEF WithStatus, Plan
    <2>4. CASE PlanStep
      <3>1. CASE PlanSync
        BY <2>3, <3>1 DEF PlanSync, Writes, WriteFails, Unedited, nodeVars
      <3>2. CASE PlanUpdate
        BY <2>3, <3>2 DEF PlanUpdate, Writes, WriteFails, Unedited, nodeVars
      <3>3. CASE PlanRemove \/ GenerateNotReady \/ GenerateRejected \/ GenerateSelected
        BY <3>3 DEF PlanRemove, GenerateNotReady, GenerateRejected, GenerateSelected, Generating,
                    Unedited, nodeVars, envVars
      <3> QED BY <2>4, <3>1, <3>2, <3>3 DEF PlanStep
    <2>5. ASSUME NEW k, JobStep(k) PROVE Unedited
      <3>1. secret' = secret /\ touched' = touched
        BY <2>5 DEF JobStep, JobGet, JobGetLater, JobAct, JobOrphaned, JobNodeGone, JobFailed,
                    JobComplete, JobOutOfTurn, JobInTurn, Handled, Belongs, Ends, nodeVars, envVars
      <3>2. plan' = plan \/ \E st : plan' = WithStatus(st)
        BY <2>5 DEF JobStep, JobGet, JobGetLater, JobAct, JobOrphaned, JobNodeGone, JobFailed,
                    JobComplete, JobOutOfTurn, JobInTurn, Writes, WriteFails, planVars
      <3> QED BY <2>3, <3>1, <3>2 DEF Unedited
    <2>6. ASSUME NEW k, PodStep(k) \/ JobFails(k) \/ TTLDelete(k) PROVE Unedited
      BY <2>6 DEF PodStep, PodStart, JobSucceeds, Elapse, JobFails, TTLDelete, ClusterStep,
                  Unedited, planVars, nodeVars
    <2>7. ASSUME NEW n, NodeWatch(n) \/ Heartbeat(n) \/ Relabel(n) PROVE Unedited
      BY <2>1, <2>7 DEF NodeWatch, Heartbeat, Relabel, Unedited, planVars, envVars
    <2>8. CASE \/ PlanWatch \/ Resync \/ Restart \/ WindowOpens \/ WindowCloses \/ UNCHANGED vars
               \/ EditPlan \/ DeletePlan \/ CreatePlan \/ EditSecret
      BY <1>1, <2>1, <2>8 DEF PlanWatch, Resync, Restart, WindowOpens, WindowCloses, EditPlan,
            DeletePlan, CreatePlan, EditSecret, Unedited, vars, planVars, nodeVars, envVars
    <2> QED BY <1>1, <2>4, <2>5, <2>6, <2>7, <2>8 DEF Next
  <1>2. TypeOK /\ plan.exists /\ [Next]_vars => (plan.exists)' /\ [Unedited]_vars
    BY <1>1 DEF Unedited
  <1>3. Init => plan.exists
    BY DEF Init
  <1> QED BY <1>2, <1>3, TypeCorrect, PTL DEF Spec

-------------------------------------------------------------------------------
(* The cached nodes.  Nothing tells the controller that a node in its cache has what *)
(* the API server has not; the handler that changed it does, as it is run again.     *)

\* A handler that read a job before the job succeeded is run again.
CacheKnown ==
    /\ CacheConfirmed
    /\ \A k \in DOMAIN job \cap DOMAIN handling :
         IsComplete(job[k]) /\ ~IsComplete(handling[k].job) => k \in jobQueue

\* Steps that leave cache and handlers alone, and queue the jobs that they complete.
LEMMA CacheKept ==
    ASSUME CacheKnown, UNCHANGED <<nodeCache, handling>>,
           \A n \in Node : nodeStale'[n] \/ (node'[n] = node[n] /\ nodeStale'[n] = nodeStale[n]),
           \A k \in DOMAIN job' : IsComplete(job'[k]) =>
               \/ k \in jobQueue'
               \/ k \in DOMAIN job \ jobQueue /\ IsComplete(job[k])
    PROVE  CacheKnown'
  <1>1. CacheConfirmed'
    <2> SUFFICES ASSUME NEW n \in Node, ~nodeStale'[n], nodeCache[n] # node'[n],
                        NEW k \in DOMAIN job', k[1] = n, IsComplete(job'[k])
                 PROVE  k \in jobQueue' \cup DOMAIN handling
      BY DEF CacheConfirmed, IsComplete
    <2>1. ~nodeStale[n] /\ nodeCache[n] # node[n]
      OBVIOUS
    <2> QED BY <2>1 DEF CacheKnown, CacheConfirmed
  <1>2. \A k \in DOMAIN job' \cap DOMAIN handling' :
          IsComplete(job'[k]) /\ ~IsComplete(handling'[k].job) => k \in jobQueue'
    BY DEF CacheKnown
  <1> QED BY <1>1, <1>2 DEF CacheKnown, IsComplete

\* The end of a handler: one whose job was complete leaves its node as it is at the API
\* server or is queued again, and no other job speaks for that node.
LEMMA CacheActs ==
    ASSUME TurnInv, CacheKnown, NEW k, JobAct(k)
    PROVE  CacheKnown'
  <1>1. /\ k \in DOMAIN handling /\ k \in Key /\ k[2] = Aim /\ k[1] \in Node
        /\ \/ JobFailed(k) \/ JobComplete(k) \/ JobOutOfTurn(k) \/ JobInTurn(k)
           \/ JobOrphaned(k) /\ ~IsComplete(handling[k].job)
    BY ActCases
  <1>2. /\ handling' = Remove(handling, k)
        /\ Deletes(k) \/ Retries(k) \/ UNCHANGED <<job, jobQueue>>
    BY <1>1 DEF JobFailed, JobComplete, JobOutOfTurn, JobInTurn, JobOrphaned, Handled, Belongs,
                Ends, DeleteJob, EnqueueOrDelete, UpdateNode
  <1>3. /\ DOMAIN handling' = DOMAIN handling \ {k}
        /\ \A x \in DOMAIN handling' : handling'[x] = handling[x]
        /\ DOMAIN job' \subseteq DOMAIN job /\ \A x \in DOMAIN job' : job'[x] = job[x]
        /\ jobQueue \ {k} \subseteq jobQueue'
        /\ k \in DOMAIN job' => jobQueue \subseteq jobQueue'
    BY <1>1, <1>2, EndFields DEF TurnInv
  <1>4. \A x \in DOMAIN job' \cap DOMAIN handling' :
          IsComplete(job'[x]) /\ ~IsComplete(handling'[x].job) => x \in jobQueue'
    BY <1>3 DEF CacheKnown
  <1>5. ASSUME NEW n \in Node, NEW x \in DOMAIN job', x[1] = n, IsComplete(job'[x]),
               ~nodeStale'[n], nodeCache'[n] # node'[n]
        PROVE  x \in jobQueue' \cup DOMAIN handling'
    <2>1. CASE ~JobComplete(k)
      <3>1. UNCHANGED <<node, nodeCache, nodeStale>> /\ ~IsComplete(handling[k].job)
        BY <1>1, <2>1 DEF JobFailed, JobOutOfTurn, JobInTurn, JobOrphaned, nodeVars, Unfinished,
                          IsFailed, IsComplete
      <3>2. x \in jobQueue \cup DOMAIN handling
        BY <1>3, <1>5, <3>1 DEF CacheKnown, CacheConfirmed
      <3> QED BY <1>3, <1>5, <3>1, <3>2 DEF CacheKnown
    <2>2. CASE JobComplete(k) /\ n = k[1]
      <3>1. x = k
        BY <1>1, <1>3, <1>5, <2>2 DEF TurnInv, TypeOK, JobsAgree, Key
      <3>2. UpdateNode(k, n, Tagged(k))
        BY <2>2 DEF JobComplete
      <3>3. /\ nodeCache \in [Node -> NodeRecord] /\ node \in [Node -> NodeRecord]
            /\ nodeStale \in [Node -> BOOLEAN]
        BY DEF TurnInv, TypeOK
      <3>4. nodeCache'[n] = Tagged(k) /\ ~NodeWritten(n, Tagged(k))
        BY <1>5, <3>2, <3>3 DEF UpdateNode, NodeWritten
      <3>5. Retries(k)
        BY <3>2, <3>4 DEF UpdateNode
      <3> QED BY <1>5, <3>1, <3>5 DEF Retries
    <2>3. CASE JobComplete(k) /\ n # k[1]
      <3>1. UpdateNode(k, k[1], Tagged(k)) /\ nodeStale \in [Node -> BOOLEAN]
            /\ nodeCache \in [Node -> NodeRecord] /\ node \in [Node -> NodeRecord]
        BY <2>3 DEF JobComplete, TurnInv, TypeOK
      <3>2. nodeCache'[n] = nodeCache[n] /\ node'[n] = node[n] /\ nodeStale'[n] = nodeStale[n]
        BY <1>1, <2>3, <3>1 DEF UpdateNode, NodeWritten
      <3>3. x \in jobQueue \cup DOMAIN handling
        BY <1>3, <1>5, <3>2 DEF CacheKnown, CacheConfirmed
      <3> QED BY <1>3, <1>5, <2>3, <3>3
    <2> QED BY <2>1, <2>2, <2>3
  <1>6. CacheConfirmed'
    BY <1>5 DEF CacheConfirmed, IsComplete
  <1> QED BY <1>4, <1>6 DEF CacheKnown, IsComplete

\* Every step of the system that edits nothing keeps it.
LEMMA CacheStep ==
    ASSUME TurnInv, CacheKnown, [Next]_vars, [Unedited]_vars
    PROVE  CacheKnown'
  <1>1. Unedited
    BY DEF Unedited, vars, planVars, nodeVars, envVars
  <1>2. ASSUME UNCHANGED <<nodeCache, node, nodeStale, handling, job>>, jobQueue \subseteq jobQueue'
        PROVE  CacheKnown'
    BY <1>2, CacheKept
  <1>3. CASE GenerateNotReady \/ GenerateRejected \/ GenerateSelected
    <2>1. UNCHANGED <<nodeCache, node, nodeStale, handling>> /\ worker.pc # "idle"
      BY <1>3 DEF GenerateNotReady, GenerateRejected, GenerateSelected, Generating, nodeVars
    <2>2. CASE UNCHANGED <<job, jobQueue>>
      BY <1>2, <2>1, <2>2
    <2>3. CASE Ready /\ \E T \in SUBSET Node : Apply(worker.plan, T)
      <3>1. PICK T \in SUBSET Node : jobQueue \subseteq jobQueue'
                                     /\ \A k \in DOMAIN job' : AppliedTo(k, T)
        BY <2>1, <2>3, ApplyFields
      <3>2. ASSUME NEW k \in DOMAIN job', IsComplete(job'[k])
            PROVE  k \in DOMAIN job /\ IsComplete(job[k])
        BY <3>1, <3>2 DEF AppliedTo, Unfinished, IsComplete
      <3>3. \A k \in DOMAIN job' : IsComplete(job'[k]) =>
               k \in jobQueue' \/ (k \in DOMAIN job \ jobQueue /\ IsComplete(job[k]))
        BY <3>1, <3>2
      <3> QED BY <2>1, <3>3, CacheKept
    <2> QED BY <1>3, <2>2, <2>3, GenerateApplies
  <1>4. CASE PlanSync \/ PlanRemove \/ PlanUpdate \/ PlanWatch \/ WindowOpens \/ WindowCloses
             \/ UNCHANGED vars
    BY <1>2, <1>4 DEF PlanSync, PlanRemove, PlanUpdate, PlanWatch, WindowOpens, WindowCloses, vars,
                      nodeVars, jobVars
  <1>5. ASSUME NEW k, JobGet(k) \/ JobGetLater(k) PROVE CacheKnown'
    <2>1. /\ job' = job /\ DOMAIN handling' = DOMAIN handling \cup {k}
          /\ \A x \in DOMAIN handling \ {k} : handling'[x] = handling[x]
      BY <1>5, StartSteps DEF TurnInv
    <2>2. PICK j \in Job : /\ handling'[k] = Reads(j)
                           /\ \/ k \in DOMAIN job /\ j = job[k]
                              \/ k \in DOMAIN handling /\ j = handling[k].job
      BY <1>5, StartSteps DEF TurnInv
    <2>3. handling'[k].job.state = j.state
      BY <2>2, ReadsJob
    <2>4. /\ UNCHANGED <<node, nodeCache, nodeStale>> /\ jobQueue \ {k} \subseteq jobQueue'
          /\ JobGetLater(k) => jobQueue' = jobQueue
          /\ JobGet(k) => k \notin DOMAIN handling
      BY <1>5 DEF JobGet, JobGetLater, nodeVars
    <2>5. CacheConfirmed'
      BY <2>1, <2>4 DEF CacheKnown, CacheConfirmed
    <2>6. ASSUME NEW x \in DOMAIN job', x \in DOMAIN handling', IsComplete(job'[x]),
                 ~IsComplete(handling'[x].job)
          PROVE  x \in jobQueue'
      <3>1. CASE x # k
        BY <2>1, <2>4, <2>6, <3>1 DEF CacheKnown
      <3>2. CASE x = k
        <4>1. ~IsComplete(j) /\ IsComplete(job[k]) /\ k \in DOMAIN job
          BY <2>1, <2>3, <2>6, <3>2 DEF IsComplete
        <4>2. k \in DOMAIN handling /\ j = handling[k].job
          BY <2>2, <4>1
        <4> QED BY <1>5, <2>4, <3>2, <4>1, <4>2 DEF CacheKnown
      <3> QED BY <3>1, <3>2
    <2> QED BY <2>5, <2>6 DEF CacheKnown, IsComplete
  <1>6. ASSUME NEW k, PodStep(k) \/ JobFails(k) \/ TTLDelete(k) PROVE CacheKnown'
    <2>1. UNCHANGED <<nodeCache, handling>>
      BY <1>6 DEF PodStep, PodStart, JobSucceeds, Elapse, JobFails, TTLDelete, ClusterStep, nodeVars
    <2>2. \A n \in Node : nodeStale'[n] \/ (node'[n] = node[n] /\ nodeStale'[n] = nodeStale[n])
      <3>1. CASE PodStart(k)
        <4> DEFINE cordons == job[k].template.cordon /\ ~node[k[1]].unschedulable
        <4>1. /\ node \in [Node -> NodeRecord] /\ nodeStale \in [Node -> BOOLEAN]
              /\ k[1] \in Node
          BY <3>1 DEF PodStart, TurnInv, TypeOK, Key
        <4>2. /\ node' = [node EXCEPT ![k[1]].unschedulable = @ \/ cordons]
              /\ nodeStale' = [nodeStale EXCEPT ![k[1]] = @ \/ cordons]
          BY <3>1 DEF PodStart
        <4>3. CASE cordons
          BY <4>1, <4>2, <4>3
        <4>4. CASE ~cordons
          BY <4>1, <4>2, <4>4 DEF NodeRecord
        <4> QED BY <4>3, <4>4
      <3>2. CASE ~PodStart(k)
        BY <1>6, <3>2 DEF PodStep, JobSucceeds, Elapse, JobFails, TTLDelete, nodeVars
      <3> QED BY <3>1, <3>2
    <2>3. ASSUME NEW x \in DOMAIN job', IsComplete(job'[x])
          PROVE  x \in jobQueue' \/ (x \in DOMAIN job \ jobQueue /\ IsComplete(job[x]))
      <3>1. CASE TTLDelete(k)
        BY <2>3, <3>1 DEF TTLDelete, Deletes, Remove
      <3>2. CASE ~TTLDelete(k)
        <4>1. /\ DOMAIN job' = DOMAIN job /\ jobQueue' = jobQueue \cup {k}
              /\ \A y \in DOMAIN job : y # k => job'[y] = job[y]
          BY <1>6, <3>2 DEF PodStep, PodStart, JobSucceeds, Elapse, JobFails
        <4> QED BY <2>3, <4>1
      <3> QED BY <3>1, <3>2
    <2> QED BY <2>1, <2>2, <2>3, CacheKept
  <1>7. CASE Resync
    BY <1>2, <1>7 DEF Resync, nodeVars, TurnInv, TypeOK
  <1>8. CASE Restart
    BY <1>8 DEF Restart, CacheKnown, CacheConfirmed, Nothing
  <1>9. ASSUME NEW n \in Node, NodeWatch(n) PROVE CacheKnown'
    <2>1. /\ UNCHANGED <<node, job, jobQueue, handling>>
          /\ nodeCache' = [nodeCache EXCEPT ![n] = node[n]]
          /\ nodeStale' = [nodeStale EXCEPT ![n] = FALSE]
          /\ nodeCache \in [Node -> NodeRecord] /\ nodeStale \in [Node -> BOOLEAN]
      BY <1>9 DEF NodeWatch, jobVars, TurnInv, TypeOK
    <2>2. nodeCache'[n] = node'[n]
      BY <2>1
    <2>3. \A m \in Node : m # n => nodeCache'[m] = nodeCache[m] /\ nodeStale'[m] = nodeStale[m]
      BY <2>1
    <2>4. CacheConfirmed'
      BY <2>1, <2>2, <2>3 DEF CacheKnown, CacheConfirmed
    <2> QED BY <2>1, <2>4 DEF CacheKnown, IsComplete
  <1>10. ASSUME NEW n \in Node, Heartbeat(n) PROVE CacheKnown'
    <2>1. /\ UNCHANGED <<node, nodeCache, job, jobQueue, handling>>
          /\ nodeStale' = [nodeStale EXCEPT ![n] = TRUE] /\ nodeStale \in [Node -> BOOLEAN]
      BY <1>10 DEF Heartbeat, jobVars, TurnInv, TypeOK
    <2>2. \A m \in Node : nodeStale'[m] \/ nodeStale'[m] = nodeStale[m]
      BY <2>1
    <2> QED BY <2>1, <2>2, CacheKept
  <1> QED BY <1>1, <1>3, <1>4, <1>5, <1>6, <1>7, <1>8, <1>9, <1>10, CacheActs, EditsSeen
          DEF Next, PlanStep, JobStep

\* While nobody edits plan, nodes and secret, and handlers are not late by a job's TTL, what
\* handleJobs did to a cached node, and the API server does not know, is tried again: the
\* handler of the node's complete job is queued or running, or an event is on its way.
THEOREM CacheCorrect ==
    ASSUME ~LateHandlers
    PROVE  Spec /\ [][Unedited]_vars => []CacheConfirmed
  <1>1. TurnInv /\ CacheKnown /\ [Next]_vars /\ [Unedited]_vars => TurnInv' /\ CacheKnown'
    BY TurnStep, CacheStep
  <1>2. Init => CacheKnown
    BY DEF Init, CacheKnown, CacheConfirmed, Nothing
  <1>3. CacheKnown => CacheConfirmed
    BY DEF CacheKnown
  <1> QED BY <1>1, <1>2, <1>3, TurnInit, PTL DEF Spec

-------------------------------------------------------------------------------
(* The number of nodes. *)

\* The lists of nodes that a worker, a write or an event may pass on.
Lists ==
    {plan.status.applying, planCache.status.applying} \cup
    (IF worker.pc = "idle" THEN {} ELSE {worker.plan.status.applying, worker.out.applying})

\* At first all lists are empty.
LEMMA ListsInit == Init => \A list \in Lists : list = {}
  <1>1. NewStatus.applying = {}
    BY DEF NewStatus
  <1> QED BY <1>1 DEF Init, Idle, Lists

\* No step makes a list but the selection of a worker.
LEMMA ListsStep ==
    ASSUME TurnInv, [Next]_vars, [Unedited]_vars
    PROVE  \A list \in Lists' : list \in Lists \/ (worker.pc # "idle" /\ Chosen(list))
  <1> DEFINE Known == \A list \in Lists' : list \in Lists \/ (worker.pc # "idle" /\ Chosen(list))
  <1>1. Unedited
    BY DEF Unedited, vars, planVars, nodeVars, envVars
  <1>2. ASSUME UNCHANGED <<worker, planCache>>, plan'.status.applying = plan.status.applying
        PROVE  Known
    BY <1>2 DEF Lists
  <1>3. CASE PlanSync
    <2>1. secret' = secret /\ planCache' = planCache
      BY <1>1, <1>3 DEF PlanSync, Unedited
    <2>2. /\ plan'.status.applying = plan.status.applying
          /\ worker'.out.applying = planCache.status.applying
          /\ worker'.plan.status.applying = planCache.status.applying
      BY <1>3, <2>1, SyncFields
    <2> QED BY <2>1, <2>2 DEF Lists
  <1>4. CASE GenerateNotReady \/ GenerateRejected \/ GenerateSelected
    <2>1. UNCHANGED <<plan, planCache>> /\ worker.pc # "idle"
      BY <1>4 DEF GenerateNotReady, GenerateRejected, GenerateSelected, Generating
    <2>2. CASE worker' = Idle
      BY <2>1, <2>2 DEF Lists, Idle
    <2>3. CASE worker'.plan = worker.plan /\ Returnable(worker'.out)
      BY <2>1, <2>3 DEF Lists, Returnable
    <2> QED BY <1>4, <2>2, <2>3, GenerateWorker
  <1>5. CASE PlanUpdate
    <2>1. plan' = plan \/ plan'.status = worker.out
      BY <1>5, WithStatusHas DEF PlanUpdate, Writes, WriteFails, TurnInv
    <2>2. planCache' = planCache /\ worker.pc # "idle" /\ worker'.pc = "idle"
      BY <1>5 DEF PlanUpdate, Idle
    <2> QED BY <2>1, <2>2 DEF Lists
  <1>6. CASE PlanWatch \/ PlanRemove
    BY <1>6 DEF PlanWatch, PlanRemove, Lists
  <1>7. ASSUME NEW k, JobStep(k) PROVE Known
    <2>1. UNCHANGED <<worker, planCache>>
      BY <1>7 DEF JobStep, JobGet, JobGetLater, JobAct, JobOrphaned, JobNodeGone, JobFailed,
                  JobComplete, JobOutOfTurn, JobInTurn, Handled, Belongs, QueuesPlan, planVars
    <2>2. CASE JobAct(k) /\ FailureWritten(k)
      BY <1>2, <2>1, <2>2, FailedWrites
    <2>3. CASE plan' = plan
      BY <1>2, <2>1, <2>3
    <2> QED BY <1>7, <2>2, <2>3, FailureCases
            DEF JobStep, JobGet, JobGetLater, JobAct, JobOrphaned, JobNodeGone,
                JobComplete, JobOutOfTurn, JobInTurn, planVars
  <1>8. ASSUME NEW k, PodStep(k) \/ JobFails(k) \/ TTLDelete(k) PROVE Known
    BY <1>2, <1>8 DEF PodStep, PodStart, JobSucceeds, Elapse, JobFails, TTLDelete, ClusterStep,
                      planVars
  <1>9. CASE Restart
    BY <1>9 DEF Restart, Lists, Idle
  <1>10. ASSUME NEW n, NodeWatch(n) \/ Heartbeat(n) PROVE Known
    BY <1>2, <1>10 DEF NodeWatch, Heartbeat, planVars
  <1>11. CASE Resync \/ WindowOpens \/ WindowCloses \/ UNCHANGED vars
    BY <1>2, <1>11 DEF Resync, WindowOpens, WindowCloses, vars, planVars
  <1> QED BY <1>1, <1>3, <1>4, <1>5, <1>6, <1>7, <1>8, <1>9, <1>10, <1>11, EditsSeen
          DEF Next, PlanStep

\* A step that makes and unpauses no job: a complete one stays so, and one that fails is
\* queued.
JobsStay ==
    \A k \in DOMAIN job' :
        /\ k \in DOMAIN job /\ job'[k].parallelism = job[k].parallelism
        /\ IsComplete(job[k]) => IsComplete(job'[k])
        /\ IsFailed(job'[k]) => IsFailed(job[k]) \/ k \in jobQueue'

\* Only the generating handler makes and unpauses jobs.
LEMMA JobsMade ==
    ASSUME TurnInv, [Next]_vars
    PROVE  GenerateNotReady \/ GenerateRejected \/ GenerateSelected \/ JobsStay
  <1>1. ASSUME job' = job PROVE JobsStay
    BY <1>1 DEF JobsStay
  <1>2. CASE PlanStep
    BY <1>1, <1>2 DEF PlanStep, PlanSync, PlanRemove, PlanUpdate, jobVars
  <1>3. ASSUME NEW k, job' = Remove(job, k) PROVE JobsStay
    BY <1>3 DEF JobsStay, Remove
  <1>4. ASSUME NEW k, JobStep(k) \/ TTLDelete(k) PROVE JobsStay
    <2>1. job' = job \/ job' = Remove(job, k)
      BY <1>4 DEF JobStep, JobGet, JobGetLater, JobAct, JobOrphaned, JobNodeGone, JobFailed,
                  JobComplete, JobOutOfTurn, JobInTurn, UpdateNode, EnqueueOrDelete, Retries,
                  DeleteJob, Deletes, TTLDelete
    <2> QED BY <1>1, <1>3, <2>1
  <1>5. ASSUME NEW k, PodStep(k) \/ JobFails(k) PROVE JobsStay
    <2>1. \A x \in DOMAIN job : job[x] \in Job
      BY DEF TurnInv, TypeOK
    <2>2. k \in DOMAIN job /\ k \in jobQueue'
      BY <1>5 DEF PodStep, PodStart, JobSucceeds, Elapse, JobFails
    <2>3. DOMAIN job' = DOMAIN job /\ \A x \in DOMAIN job : x # k => job'[x] = job[x]
      BY <1>5 DEF PodStep, PodStart, JobSucceeds, Elapse, JobFails
    <2>4. job'[k].parallelism = job[k].parallelism
      BY <1>5, <2>1, <2>2 DEF PodStep, PodStart, JobSucceeds, Elapse, JobFails, Job
    <2>5. IsComplete(job[k]) => IsComplete(job'[k])
      BY <1>5, <2>1, <2>2 DEF PodStep, PodStart, JobSucceeds, Elapse, JobFails, Job, IsComplete,
                              Unfinished
    <2> QED BY <2>2, <2>3, <2>4, <2>5 DEF JobsStay
  <1>6. ASSUME NEW n, NodeWatch(n) \/ Heartbeat(n) \/ Relabel(n) PROVE job' = job
    BY <1>6 DEF NodeWatch, Heartbeat, Relabel, jobVars
  <1>7. CASE PlanWatch \/ Resync \/ Restart \/ EditPlan \/ DeletePlan \/ CreatePlan \/ EditSecret
             \/ WindowOpens \/ WindowCloses \/ UNCHANGED vars
    BY <1>1, <1>7 DEF PlanWatch, Resync, Restart, EditPlan, DeletePlan, CreatePlan, EditSecret,
                WindowOpens, WindowCloses, vars, jobVars
  <1> QED BY <1>1, <1>2, <1>4, <1>5, <1>6, <1>7 DEF Next

\* The hostnames of a selection are no more than the concurrency, if the list that the
\* selection started from was not longer.
LEMMA ChosenShort ==
    ASSUME TypeOK, worker.pc # "idle", NEW list, Chosen(list),
           IsFiniteSet(worker.plan.status.applying),
           Cardinality(worker.plan.status.applying) <= worker.plan.spec.concurrency
    PROVE  IsFiniteSet(list) /\ Cardinality(list) <= worker.plan.spec.concurrency
  <1> DEFINE applying == worker.plan.status.applying
             c == worker.plan.spec.concurrency
             kept == Kept(nodeCache, worker.plan.status.hash, applying)
  <1>1. c \in Int
    BY WorkerParts, PlanParts DEF TypeOK, PlanSpec
  <1>2. PICK T \in SUBSET Node : Selected(T) /\ list = {Hostname[n] : n \in T}
    BY DEF Chosen
  <1>3. IsFiniteSet(T) /\ Cardinality(T) \in Nat
    BY NodeAssumption, FS_Subset, FS_CardinalityType
  <1>4. IsFiniteSet(list) /\ Cardinality(list) <= Cardinality(T) /\ Cardinality(list) \in Nat
    <2> DEFINE f == [n \in T |-> Hostname[n]]
    <2>1. f \in Surjection(T, list)
      BY <1>2 DEF Surjection
    <2> HIDE DEF f
    <2> QED BY <1>3, <2>1, FS_Surjection, FS_CardinalityType
  <1>5. T = kept \/ Cardinality(T) <= c
    <2>1. /\ kept \subseteq T
          /\ \/ T \ kept = {}
             \/ Cardinality(T) = c \/ Cardinality(T) < c
      BY <1>2 DEF Selected, SelectConcurrentNodes
    <2> QED BY <1>1, <1>3, <2>1
  <1>6. ASSUME T = kept PROVE Cardinality(list) <= c
    <2>1. list \in SUBSET applying
      BY <1>2, <1>6 DEF Kept
    <2>2. Cardinality(list) <= Cardinality(applying) /\ Cardinality(applying) \in Nat
      BY <2>1, FS_Subset, FS_CardinalityType
    <2> QED BY <1>1, <1>4, <2>2
  <1> QED BY <1>1, <1>3, <1>4, <1>5, <1>6

\* Every list is finite and no longer than the concurrency.
ListsShort ==
    \A list \in Lists : IsFiniteSet(list) /\ Cardinality(list) <= plan.spec.concurrency

\* Every step that edits nothing keeps the lists short.
LEMMA ShortStep ==
    ASSUME TurnInv, ListsShort, [Next]_vars, [Unedited]_vars
    PROVE  ListsShort'
  <1>1. plan'.spec = plan.spec
    BY DEF Unedited, vars, planVars
  <1>2. ASSUME NEW list, worker.pc # "idle", Chosen(list)
        PROVE  IsFiniteSet(list) /\ Cardinality(list) <= plan.spec.concurrency
    <2>1. worker.plan.spec = plan.spec
      BY <1>2 DEF TurnInv, CopiesAgree, WorkerAgrees
    <2>2. worker.plan.status.applying \in Lists
      BY <1>2 DEF Lists
    <2>3. /\ IsFiniteSet(worker.plan.status.applying)
          /\ Cardinality(worker.plan.status.applying) <= worker.plan.spec.concurrency
      BY <2>1, <2>2 DEF ListsShort
    <2> QED BY <1>2, <2>1, <2>3, ChosenShort DEF TurnInv
  <1> QED BY <1>1, <1>2, ListsStep DEF ListsShort

\* A new plan's lists are empty.
LEMMA ShortInit ==
    ASSUME \A s \in Specs : s.concurrency >= 0, Init
    PROVE  ListsShort
  <1>1. plan.spec \in Specs
    BY SpecsAssumption DEF Init
  <1> QED BY <1>1, ListsInit, FS_EmptySet DEF ListsShort

\* While nobody edits plan, nodes and secret, and handlers are not late by a job's TTL,
\* pods of the plan run on no more nodes than its concurrency, for any number of nodes
\* with different hostnames (SelectConcurrentNodes, job.New and handleJobs together).
THEOREM NodesCorrect ==
    ASSUME ~LateHandlers, \A s \in Specs : s.concurrency >= 0,
           \A m, n \in Node : Hostname[m] = Hostname[n] => m = n
    PROVE  Spec /\ [][Unedited]_vars => []NodesAtOnce
  <1>1. TurnInv /\ ListsShort /\ [Next]_vars /\ [Unedited]_vars => TurnInv' /\ ListsShort'
    BY TurnStep, ShortStep
  <1>2. Init => ListsShort
    BY ShortInit
  <1>3. TurnInv /\ ListsShort => NodesAtOnce
    <2> SUFFICES ASSUME TurnInv, ListsShort PROVE NodesAtOnce
      OBVIOUS
    <2> DEFINE running == {n \in Node : \E k \in DOMAIN job : k[1] = n /\ job[k].state = "running"}
               applying == plan.status.applying
               f == [n \in running |-> Hostname[n]]
    <2>1. \A n \in running : Hostname[n] \in applying
      BY DEF TurnInv, JobsAgree, JobAgrees, Registered, Unfinished, IsFailed, IsComplete
    <2>2. f \in Injection(running, applying)
      BY <2>1 DEF Injection, IsInjective
    <2>3. IsFiniteSet(applying) /\ Cardinality(applying) <= plan.spec.concurrency
      BY DEF ListsShort, Lists
    <2> HIDE DEF f, running, applying
    <2>4. IsFiniteSet(running) /\ Cardinality(running) <= Cardinality(applying)
      BY <2>2, <2>3, FS_Injection
    <2>5. /\ Cardinality(running) \in Nat /\ Cardinality(applying) \in Nat
          /\ plan.spec.concurrency \in Int
      BY <2>3, <2>4, FS_CardinalityType, PlanParts DEF TurnInv, TypeOK, PlanSpec
    <2>6. Cardinality(running) <= plan.spec.concurrency
      BY <2>3, <2>4, <2>5
    <2> QED BY <2>6 DEF NodesAtOnce, running
  <1> QED BY <1>1, <1>2, <1>3, TurnInit, PTL DEF Spec

-------------------------------------------------------------------------------
(* The order of the nodes.  One node at a time is a fixed order of nodes for one hash: *)
(* a node gets a job only when the job of every node before it is over for good.       *)

Turn(n) ==
    \A k \in Key : k[2] = Aim /\ k[1] # n => Past(k) \/ NodeOrder(Aim, n) < NodeOrder(Aim, k[1])

TurnsTaken ==
    plan.spec.concurrency = 1 =>
        /\ \A k \in DOMAIN job : Turn(k[1])
        /\ \A list \in Lists : \A n \in Node : Hostname[n] \in list => Turn(n)

\* A node that a worker selects has its turn.
LEMMA SelectedTurn ==
    ASSUME TurnInv, TurnsTaken, plan.spec.concurrency = 1, worker.pc # "idle", Ready,
           NEW T \in SUBSET Node, Selected(T), NEW n \in T
    PROVE  Turn(n)
  <1> DEFINE applying == worker.plan.status.applying
             kept == Kept(nodeCache, Aim, applying)
             candidates == Candidates(nodeCache, Aim, applying)
  <1>1. worker.plan.status.hash = Aim /\ worker.plan.spec = plan.spec
    BY ReadyAims
  <1>2. /\ kept \subseteq T /\ T \ kept \subseteq candidates
        /\ \/ Cardinality(kept) >= 1 /\ T \ kept = {}
           \/ /\ Cardinality(kept) < 1
              /\ Cardinality(T) = 1 \/ Cardinality(T) < 1
        /\ \A a \in T \ kept, c \in candidates \ (T \ kept) : NodeOrder(Aim, a) < NodeOrder(Aim, c)
    BY <1>1 DEF Selected, SelectConcurrentNodes
  <1>3. CASE n \in kept
    <2>1. applying \in Lists
      BY DEF Lists
    <2>2. Hostname[n] \in applying
      BY <1>3 DEF Kept
    <2> QED BY <2>1, <2>2 DEF TurnsTaken
  <1>4. CASE n \notin kept
    <2>1. IsFiniteSet(T) /\ IsFiniteSet(kept)
      BY <1>2, NodeAssumption, FS_Subset
    <2> HIDE DEF kept, candidates
    <2>2. Cardinality(kept) \in Nat /\ Cardinality(T) \in Nat
      BY <2>1, FS_CardinalityType
    <2>3. Cardinality(kept) < 1 /\ (Cardinality(T) = 1 \/ Cardinality(T) < 1)
      BY <1>2, <1>4
    <2>4. Cardinality(kept) = 0 /\ (Cardinality(T) = 1 \/ Cardinality(T) = 0)
      BY <2>2, <2>3
    <2>5. kept = {} /\ T = {n}
      BY <2>1, <2>4, FS_EmptySet, FS_Singleton
    <2> SUFFICES ASSUME NEW k \in Key, k[2] = Aim, k[1] # n
                 PROVE  Past(k) \/ NodeOrder(Aim, n) < NodeOrder(Aim, k[1])
      BY DEF Turn
    <2>6. CASE k[1] \in candidates
      BY <1>2, <2>5, <2>6
    <2>7. CASE k[1] \notin candidates
      <3>1. k[1] \in Node /\ k[1] \notin Eligible(nodeCache, Aim)
        BY <2>5, <2>7 DEF Key, kept, candidates, Kept, Candidates
      <3>2. nodeCache[k[1]].mode = "in" /\ nodeCache[k[1]].label # Disabled
        BY <3>1 DEF TurnInv, NodesSelected, CopiesAgree
      <3>3. Cached(k)
        BY <3>1, <3>2 DEF Eligible, Cached
      <3> QED BY <3>3 DEF TurnInv, LabelsAgree
    <2> QED BY <2>6, <2>7
  <1> QED BY <1>3, <1>4

\* Every step that edits nothing keeps the turns.
LEMMA TurnsStep ==
    ASSUME ~LateHandlers, \A m, n \in Node : Hostname[m] = Hostname[n] => m = n,
           TurnInv, TurnsTaken, [Next]_vars, [Unedited]_vars
    PROVE  TurnsTaken'
  <1>1. plan'.spec = plan.spec /\ secret' = secret /\ Aim' = Aim
    BY DEF Unedited, vars, planVars, envVars, Aim
  <1>2. \A n : Turn(n) => Turn(n)'
    BY <1>1, TurnStep DEF TurnKept, Turn
  <1> SUFFICES ASSUME plan.spec.concurrency = 1
               PROVE  /\ \A k \in DOMAIN job' : Turn(k[1])
                      /\ \A list \in Lists' : \A n \in Node : Hostname[n] \in list => Turn(n)
    BY <1>1, <1>2 DEF TurnsTaken
  <1>3. ASSUME NEW k \in DOMAIN job' PROVE Turn(k[1])
    <2>1. CASE k \in DOMAIN job
      BY <2>1 DEF TurnsTaken
    <2>2. CASE k \notin DOMAIN job
      <3>1. GenerateNotReady \/ GenerateRejected \/ GenerateSelected
        BY <1>3, <2>2, JobsMade DEF JobsStay
      <3>2. worker.pc # "idle"
        BY <3>1 DEF GenerateNotReady, GenerateRejected, GenerateSelected, Generating
      <3>3. PICK S \in SUBSET Node : \E T \in SUBSET S : Ready /\ Selected(S) /\ Apply(worker.plan, T)
        BY <1>3, <2>2, <3>1, GenerateApplies
      <3>4. PICK T \in SUBSET S : Apply(worker.plan, T)
        BY <3>3
      <3>5. AppliedTo(k, T)
        BY <1>3, <3>2, <3>3, <3>4, ApplyFields
      <3>6. k[1] \in S
        BY <2>2, <3>5 DEF AppliedTo
      <3> QED BY <3>2, <3>3, <3>6, SelectedTurn
    <2> QED BY <2>1, <2>2
  <1>4. ASSUME NEW list \in Lists', NEW n \in Node, Hostname[n] \in list PROVE Turn(n)
    <2>1. CASE list \in Lists
      BY <1>4, <2>1 DEF TurnsTaken
    <2>2. CASE worker.pc # "idle" /\ Chosen(list)
      <3>1. PICK T \in SUBSET Node : Ready /\ Selected(T) /\ list = {Hostname[m] : m \in T}
        BY <2>2 DEF Chosen
      <3>2. n \in T
        BY <1>4, <3>1
      <3> QED BY <2>2, <3>1, <3>2, SelectedTurn
    <2> QED BY <2>1, <2>2, ListsStep
  <1> QED BY <1>3, <1>4

\* A new plan has neither jobs nor lists of nodes.
LEMMA TurnsInit == Init => TurnsTaken
  <1> SUFFICES ASSUME Init PROVE TurnsTaken
    OBVIOUS
  <1>1. DOMAIN job = {}
    BY DEF Init, Nothing
  <1>2. \A list \in Lists : list = {}
    BY ListsInit
  <1> QED BY <1>1, <1>2 DEF TurnsTaken

\* At most one node has its turn and is not done.
LEMMA OneTurn ==
    ASSUME NEW k \in Key, NEW x \in Key, k[2] = Aim, x[2] = Aim, Turn(k[1]), Turn(x[1]),
           ~Past(k), ~Past(x)
    PROVE  k[1] = x[1]
  <1>1. NodeOrder(Aim, k[1]) \in Int /\ NodeOrder(Aim, x[1]) \in Int
    BY OrderAssumption DEF Key
  <1> SUFFICES ASSUME k[1] # x[1] PROVE FALSE
    OBVIOUS
  <1>2. NodeOrder(Aim, k[1]) < NodeOrder(Aim, x[1]) /\ NodeOrder(Aim, x[1]) < NodeOrder(Aim, k[1])
    BY DEF Turn
  <1> QED BY <1>1, <1>2

\* While nobody edits plan, nodes and secret, and handlers are not late by a job's TTL, a
\* plan with concurrency 1 has no unfinished job for another node while the post-complete
\* delay of a node's job runs, for any number of nodes with different hostnames.
THEOREM DelayCorrect ==
    ASSUME ~LateHandlers, \A m, n \in Node : Hostname[m] = Hostname[n] => m = n
    PROVE  Spec /\ [][Unedited]_vars => []DelayHeld
  <1>1. TurnInv /\ TurnsTaken /\ [Next]_vars /\ [Unedited]_vars => TurnInv' /\ TurnsTaken'
    BY TurnStep, TurnsStep
  <1>2. TurnInv /\ TurnsTaken => DelayHeld
    <2> SUFFICES ASSUME TurnInv, TurnsTaken, NEW k \in DOMAIN job, NEW x \in DOMAIN job,
                        plan.spec.delay, plan.spec.concurrency = 1, job[k].state = "complete",
                        job[k].age = 0, x[1] # k[1], Unfinished(job[x])
                 PROVE  FALSE
      BY DEF DelayHeld
    <2>1. k \in Key /\ x \in Key /\ k[2] = Aim /\ x[2] = Aim
      BY DEF TurnInv, TypeOK, JobsAgree
    <2>2. ~Past(x)
      BY PastFinished DEF Unfinished
    <2>3. ~Past(k)
      <3>1. ~Stands(k)
        BY DEF Stands, DelayOver
      <3> QED BY <3>1 DEF TurnInv, LabelsAgree, Past
    <2>4. Turn(k[1]) /\ Turn(x[1])
      BY DEF TurnsTaken
    <2> QED BY <2>1, <2>2, <2>3, <2>4, OneTurn
  <1> QED BY <1>1, <1>2, TurnInit, TurnsInit, PTL DEF Spec

-------------------------------------------------------------------------------
(* The message of a failed job.  With one node at a time it is not lost to a sync that *)
(* works from the current plan: such a sync writes only when no job is left on the     *)
(* list, or when the list changes, which it does only for nodes that are done with.    *)

\* A worker that is about to write the current plan leaves no node unfinished.
UpdateIdle ==
    plan.spec.concurrency = 1 /\ worker.pc = "update" /\ worker.plan.rv = plan.rv =>
        \A k \in DOMAIN job : job[k].parallelism = 1 => IsComplete(job[k])

\* A failed job that no handler is going to report has been reported.
FailuresSeen ==
    plan.spec.concurrency = 1 =>
        \A k \in DOMAIN job :
            /\ IsFailed(job[k]) /\ job[k].parallelism = 1 /\ k \notin jobQueue
            /\ k \in DOMAIN handling => ~IsFailed(handling[k].job)
            => Reported(plan.status.complete)

\* One node at a time: if a node of the list is selected, then nothing but the list is.
LEMMA SameList ==
    ASSUME TurnInv, ListsShort, plan.spec.concurrency = 1, worker.pc # "idle", Ready,
           NEW T \in SUBSET Node, Selected(T), NEW n \in T,
           Hostname[n] \in worker.plan.status.applying
    PROVE  {Hostname[m] : m \in T} = worker.plan.status.applying
  <1> DEFINE applying == worker.plan.status.applying
             kept == Kept(nodeCache, Aim, applying)
  <1>1. IsFiniteSet(applying) /\ Cardinality(applying) <= 1
    <2>1. applying \in Lists
      BY DEF Lists
    <2> QED BY <2>1 DEF ListsShort
  <1>2. worker.plan.status.hash = Aim /\ worker.plan.spec = plan.spec
    BY ReadyAims
  <1>3. /\ kept \subseteq T /\ T \ kept \subseteq Candidates(nodeCache, Aim, applying)
        /\ \/ Cardinality(kept) >= 1 /\ T \ kept = {}
           \/ Cardinality(kept) < 1
    BY <1>2 DEF Selected, SelectConcurrentNodes
  <1>4. n \in kept
    <2>1. n \in Eligible(nodeCache, Aim)
      BY <1>3 DEF Kept, Candidates
    <2> QED BY <2>1 DEF Kept
  <1>5. T = kept
    <2>1. IsFiniteSet(kept) /\ Cardinality(kept) \in Nat
      BY <1>3, NodeAssumption, FS_Subset, FS_CardinalityType
    <2>2. Cardinality(kept) # 0
      BY <1>4, <2>1, FS_EmptySet
    <2> HIDE DEF kept
    <2> QED BY <1>3, <2>1, <2>2
  <1>6. {Hostname[m] : m \in T} \subseteq applying
    BY <1>5 DEF Kept
  <1>7. \A a, b \in applying : a = b
    <2> SUFFICES ASSUME NEW a \in applying, NEW b \in applying, a # b PROVE FALSE
      OBVIOUS
    <2>1. b \in applying \ {a}
      OBVIOUS
    <2> HIDE DEF applying
    <2>2. /\ IsFiniteSet(applying \ {a}) /\ Cardinality(applying) \in Nat
          /\ Cardinality(applying \ {a}) = Cardinality(applying) - 1
      BY <1>1, FS_RemoveElement, FS_CardinalityType
    <2>3. Cardinality(applying \ {a}) = 0
      BY <1>1, <2>2, FS_CardinalityType
    <2>4. applying \ {a} = {}
      BY <2>2, <2>3, FS_EmptySet
    <2> QED BY <2>1, <2>4
  <1> QED BY <1>6, <1>7

\* A sync of the current plan that is to be written leaves no node unfinished.
LEMMA GenerateIdles ==
    ASSUME TurnInv, TypeOK', ListsShort, plan.spec.concurrency = 1,
           GenerateNotReady \/ GenerateRejected \/ GenerateSelected,
           worker'.pc = "update", worker'.plan.rv = plan.rv
    PROVE  \A k \in DOMAIN job' : job'[k].parallelism = 1 => IsComplete(job'[k])
  <1>1. /\ worker.pc # "idle" /\ UNCHANGED <<plan, nodeCache, secret>>
        /\ worker'.plan = worker.plan /\ worker' # Idle
    BY GenerateWorker DEF GenerateNotReady, GenerateRejected, GenerateSelected, Generating,
                          nodeVars, Idle
  <1>2. /\ TurnKept /\ WorkerAgrees(worker, plan, secret)
        /\ worker.plan.status.applying = plan.status.applying
    BY <1>1, GenerateKeeps DEF TurnInv, CopiesAgree, WorkerAgrees
  <1> SUFFICES ASSUME NEW k \in DOMAIN job', job'[k].parallelism = 1, ~IsComplete(job'[k])
               PROVE  FALSE
    OBVIOUS
  <1>3. k \in Key /\ k[2] = Aim /\ k[1] \in Node
    BY <1>1, <1>2 DEF TypeOK, TurnKept, JobsAgree, Aim, Key
  <1>4. Hostname[k[1]] \in worker.plan.status.applying
    BY <1>1, <1>2 DEF TurnKept, Registered
  <1>5. ~Past(k)
    BY <1>2, <1>3 DEF TurnKept, LabelParts, LabelsAgree, Past, Stands
  <1>6. CASE GenerateNotReady
    <2>1. job' = job /\ ~Ready
      BY <1>6 DEF GenerateNotReady
    <2>2. Usable(plan.spec, secret)
      BY <2>1 DEF TurnInv, JobsAgree
    <2> QED BY <1>2, <2>1, <2>2 DEF WorkerAgrees, Settled, Ready
  <1>7. CASE GenerateRejected
    BY <1>1, <1>7 DEF GenerateRejected, Fail
  <1>8. CASE GenerateSelected
    <2>1. PICK T \in SUBSET Node :
            Selected(T) /\ (GenerateWaiting(T) \/ GenerateComplete(T) \/ GenerateJobs(T))
      BY <1>8 DEF GenerateSelected
    <2>2. Ready
      BY <1>8 DEF GenerateSelected
    <2>3. k[1] \in T
      BY <1>1, <1>3, <1>4, <1>5, <2>1, <2>2, UnselectedPast
    <2>4. CASE GenerateWaiting(T)
      BY <1>4, <2>4 DEF GenerateWaiting, MustWait
    <2>5. CASE GenerateComplete(T)
      BY <2>3, <2>5 DEF GenerateComplete
    <2>6. CASE GenerateJobs(T)
      <3>1. Synced(T) = worker.plan.status
        BY <1>1, <1>4, <2>1, <2>2, <2>3, SameList DEF Synced
      <3> QED BY <1>1, <2>6, <3>1 DEF GenerateJobs, Return, Finish, Fail
    <2> QED BY <2>1, <2>4, <2>5, <2>6
  <1> QED BY <1>6, <1>7, <1>8

\* The steps that write the plan.
PlanWrites ==
    \/ PlanSync
    \/ PlanUpdate /\ Current(worker.plan)
    \/ \E k : JobAct(k) /\ FailureWritten(k)

\* No other step does, and none takes its resourceVersion back.
LEMMA WritesKnown ==
    ASSUME TurnInv, [Next]_vars, [Unedited]_vars
    PROVE  plan' = plan \/ (PlanWrites /\ plan'.rv >= plan.rv)
  <1>1. Unedited /\ plan \in Plan /\ plan.rv \in Nat
    BY PlanParts DEF TurnInv, TypeOK, Unedited, vars, planVars, nodeVars, envVars
  <1>2. \A st : WithStatus(st).rv >= plan.rv
    BY <1>1 DEF WithStatus, Plan
  <1>3. CASE PlanStep
    <2>1. CASE PlanSync
      BY <1>1, <1>2, <2>1 DEF PlanSync, Writes, WriteFails, PlanWrites
    <2>2. CASE PlanUpdate
      BY <1>1, <1>2, <2>2 DEF PlanUpdate, Writes, WriteFails, PlanWrites
    <2>3. CASE PlanRemove \/ GenerateNotReady \/ GenerateRejected \/ GenerateSelected
      BY <2>3 DEF PlanRemove, GenerateNotReady, GenerateRejected, GenerateSelected, Generating
    <2> QED BY <1>3, <2>1, <2>2, <2>3 DEF PlanStep
  <1>4. ASSUME NEW k, JobStep(k) PROVE plan' = plan \/ (PlanWrites /\ plan'.rv >= plan.rv)
    <2>1. CASE JobAct(k) /\ FailureWritten(k)
      BY <1>2, <2>1 DEF FailureWritten, PlanWrites
    <2> QED BY <1>4, <2>1, FailureCases
            DEF JobStep, JobGet, JobGetLater, JobAct, JobOrphaned, JobNodeGone,
                JobComplete, JobOutOfTurn, JobInTurn, planVars
  <1>5. ASSUME NEW k, PodStep(k) \/ JobFails(k) \/ TTLDelete(k) PROVE plan' = plan
    BY <1>5 DEF PodStep, PodStart, JobSucceeds, Elapse, JobFails, TTLDelete, ClusterStep, planVars
  <1>6. ASSUME NEW n, NodeWatch(n) \/ Heartbeat(n) PROVE plan' = plan
    BY <1>6 DEF NodeWatch, Heartbeat, planVars
  <1>7. CASE PlanWatch \/ Resync \/ Restart \/ WindowOpens \/ WindowCloses \/ UNCHANGED vars
    BY <1>7 DEF PlanWatch, Resync, Restart, WindowOpens, WindowCloses, vars, planVars
  <1> QED BY <1>1, <1>3, <1>4, <1>5, <1>6, <1>7, EditsSeen DEF Next

\* Every step that edits nothing keeps UpdateIdle.
LEMMA IdleStep ==
    ASSUME ~LateHandlers, TurnInv, ListsShort, UpdateIdle, [Next]_vars, [Unedited]_vars
    PROVE  UpdateIdle'
  <1>1. TurnInv' /\ plan'.spec = plan.spec
    BY TurnStep DEF Unedited, vars, planVars
  <1> SUFFICES ASSUME plan.spec.concurrency = 1, worker'.pc = "update",
                      worker'.plan.rv = plan'.rv
               PROVE  \A k \in DOMAIN job' : job'[k].parallelism = 1 => IsComplete(job'[k])
    BY <1>1 DEF UpdateIdle
  <1>2. CASE GenerateNotReady \/ GenerateRejected \/ GenerateSelected
    <2>1. plan' = plan
      BY <1>2 DEF GenerateNotReady, GenerateRejected, GenerateSelected, Generating
    <2> QED BY <1>1, <1>2, <2>1, GenerateIdles DEF TurnInv
  <1>3. CASE ~(GenerateNotReady \/ GenerateRejected \/ GenerateSelected)
    <2>1. JobsStay
      BY <1>3, JobsMade
    <2>2. worker' = worker
      <3>1. ASSUME NEW k, JobStep(k) \/ PodStep(k) \/ JobFails(k) \/ TTLDelete(k)
            PROVE  worker' = worker
        BY <3>1 DEF JobStep, JobGet, JobGetLater, JobAct, JobOrphaned, JobNodeGone,
                    JobFailed, JobComplete, JobOutOfTurn, JobInTurn, Handled, Belongs, QueuesPlan,
                    PodStep, PodStart, JobSucceeds, Elapse, JobFails, TTLDelete, ClusterStep,
                    planVars
      <3>2. ASSUME NEW n, NodeWatch(n) \/ Heartbeat(n) \/ Relabel(n) PROVE worker' = worker
        BY <3>2 DEF NodeWatch, Heartbeat, Relabel, planVars
      <3>3. CASE PlanStep
        BY <1>3, <3>3 DEF PlanStep, PlanSync, PlanRemove, PlanUpdate, Idle
      <3>4. CASE Restart
        BY <3>4 DEF Restart, Idle
      <3>5. CASE PlanWatch \/ Resync \/ WindowOpens \/ WindowCloses \/ UNCHANGED vars
        BY <3>5 DEF PlanWatch, Resync, WindowOpens, WindowCloses, vars, planVars
      <3>6. CASE EditPlan \/ DeletePlan \/ CreatePlan \/ EditSecret
        BY <3>6 DEF EditPlan, DeletePlan, CreatePlan, EditSecret
      <3> QED BY <3>1, <3>2, <3>3, <3>4, <3>5, <3>6 DEF Next
    <2>3. worker.plan.rv = plan.rv
      <3>1. worker.plan.rv <= plan.rv /\ plan.rv \in Nat /\ worker.plan.rv \in Nat
        BY <2>2, WorkerParts, PlanParts DEF TurnInv, TypeOK, CopiesAgree, WorkerAgrees
      <3>2. plan'.rv = plan.rv \/ plan'.rv >= plan.rv
        BY WritesKnown
      <3>3. plan'.rv \in Nat
        BY <1>1, <2>2, <3>1
      <3> QED BY <2>2, <3>1, <3>2, <3>3
    <2> QED BY <2>1, <2>2, <2>3 DEF UpdateIdle, JobsStay
  <1> QED BY <1>2, <1>3

\* What a step does to the message, once it is there.
LEMMA ReportStays ==
    ASSUME ~LateHandlers, TurnInv, UpdateIdle, [Next]_vars, [Unedited]_vars,
           plan.spec.concurrency = 1, Reported(plan.status.complete),
           NEW k \in DOMAIN job, ~IsComplete(job[k]), job[k].parallelism = 1
    PROVE  Reported(plan'.status.complete)
  <1>1. secret' = secret
    BY DEF Unedited, vars, envVars
  <1>2. Usable(plan.spec, secret) /\ Settled(plan.status, plan.spec, secret)
    BY DEF TurnInv, JobsAgree, Fresh
  <1>3. CASE PlanSync
    BY <1>1, <1>2, <1>3, SyncFields
  <1>4. CASE PlanUpdate /\ Current(worker.plan)
    <2>1. worker.pc = "update" /\ worker.plan.rv = plan.rv
      BY <1>4 DEF PlanUpdate, Current
    <2> QED BY <2>1 DEF UpdateIdle
  <1>5. CASE \E x : JobAct(x) /\ FailureWritten(x)
    BY <1>5, FailedWrites
  <1> QED BY <1>3, <1>4, <1>5, WritesKnown DEF PlanWrites

\* The job of k failed, its node is the one being applied on, and nobody will report it.
Unreported(k) ==
    /\ k \in DOMAIN job /\ IsFailed(job[k]) /\ job[k].parallelism = 1 /\ k \notin jobQueue
    /\ k \in DOMAIN handling => ~IsFailed(handling[k].job)

\* A job only comes to that by the handler that reports it.
LEMMA UnreportedBefore ==
    ASSUME TurnInv, [Next]_vars, [Unedited]_vars, NEW k, Unreported(k)'
    PROVE  Unreported(k) \/ (JobAct(k) /\ FailureWritten(k))
  <1>1. /\ k \in DOMAIN job' /\ IsFailed(job'[k]) /\ job'[k].parallelism = 1
        /\ k \notin jobQueue' /\ (k \in DOMAIN handling' => ~IsFailed(handling'[k].job))
    BY DEF Unreported, IsFailed
  <1>2. ASSUME handling' = handling, jobQueue \subseteq jobQueue',
               k \in DOMAIN job => job'[k] = job[k], DOMAIN job' \subseteq DOMAIN job
        PROVE  Unreported(k)
    BY <1>1, <1>2 DEF Unreported
  <1>3. CASE GenerateNotReady \/ GenerateRejected \/ GenerateSelected
    <2>1. handling' = handling /\ worker.pc # "idle"
      BY <1>3 DEF GenerateNotReady, GenerateRejected, GenerateSelected, Generating
    <2>2. CASE UNCHANGED <<job, jobQueue>>
      BY <1>2, <2>1, <2>2
    <2>3. CASE Ready /\ \E T \in SUBSET Node : Apply(worker.plan, T)
      <3>1. PICK T \in SUBSET Node : jobQueue \subseteq jobQueue' /\ AppliedTo(k, T)
        BY <1>1, <2>1, <2>3, ApplyFields
      <3>2. k \in DOMAIN job /\ IsFailed(job[k]) /\ job[k].parallelism = 1
        BY <1>1, <3>1 DEF AppliedTo, Unfinished, IsFailed
      <3> QED BY <1>1, <2>1, <3>1, <3>2 DEF Unreported
    <2> QED BY <1>3, <2>2, <2>3, GenerateApplies
  <1>4. CASE PlanSync \/ PlanRemove \/ PlanUpdate \/ PlanWatch
    BY <1>2, <1>4 DEF PlanSync, PlanRemove, PlanUpdate, PlanWatch, jobVars
  <1>5. ASSUME NEW x, JobGet(x) \/ JobGetLater(x) PROVE Unreported(k)
    <2>1. /\ job' = job /\ DOMAIN handling' = DOMAIN handling \cup {x}
          /\ \A y \in DOMAIN handling \ {x} : handling'[y] = handling[y]
      BY <1>5, StartSteps DEF TurnInv
    <2>2. PICK j \in Job : /\ handling'[x] = Reads(j)
                           /\ \/ x \in DOMAIN job /\ j = job[x]
                              \/ x \in DOMAIN handling /\ j = handling[x].job
      BY <1>5, StartSteps DEF TurnInv
    <2>3. handling'[x].job.state = j.state
      BY <2>2, ReadsJob
    <2>4. CASE x # k
      <3>1. jobQueue \ {x} \subseteq jobQueue'
        BY <1>5 DEF JobGet, JobGetLater
      <3> QED BY <1>1, <2>1, <2>4, <3>1 DEF Unreported
    <2>5. CASE x = k
      <3>1. ~IsFailed(j)
        BY <1>1, <2>1, <2>3, <2>5 DEF IsFailed
      <3>2. j = handling[k].job /\ k \in DOMAIN handling
        BY <1>1, <2>1, <2>2, <2>5, <3>1
      <3>3. jobQueue' = jobQueue
        BY <1>5, <2>5, <3>2 DEF JobGet, JobGetLater
      <3> QED BY <1>1, <2>1, <3>1, <3>2, <3>3 DEF Unreported
    <2> QED BY <2>4, <2>5
  <1>6. ASSUME NEW x, JobAct(x)
        PROVE  Unreported(k) \/ (JobAct(k) /\ FailureWritten(k))
    <2>1. /\ x \in DOMAIN handling /\ handling' = Remove(handling, x)
          /\ Deletes(x) \/ Retries(x) \/ UNCHANGED <<job, jobQueue>>
      BY <1>6, ActCases DEF JobFailed, JobComplete, JobOutOfTurn, JobInTurn, JobOrphaned, Handled,
                            Belongs, Ends, DeleteJob, EnqueueOrDelete, UpdateNode
    <2>2. /\ DOMAIN handling' = DOMAIN handling \ {x}
          /\ \A y \in DOMAIN handling' : handling'[y] = handling[y]
          /\ DOMAIN job' \subseteq DOMAIN job
          /\ \A y \in DOMAIN job' : job'[y] = job[y]
          /\ jobQueue \ {x} \subseteq jobQueue'
          /\ x \in DOMAIN job' => jobQueue \subseteq jobQueue'
      BY <2>1, EndFields DEF TurnInv
    <2>3. k \in DOMAIN job /\ IsFailed(job[k]) /\ job[k].parallelism = 1 /\ k \notin jobQueue
      BY <1>1, <2>2
    <2>4. CASE x # k \/ ~IsFailed(handling[x].job)
      BY <1>1, <2>2, <2>3, <2>4 DEF Unreported
    <2>5. CASE x = k /\ IsFailed(handling[k].job)
      <3>1. ~Deletes(k) /\ ~Retries(k)
        BY <1>1, <2>3 DEF Deletes, Remove, Retries
      <3>2. JobFailed(k)
        BY <1>6, <2>5, <3>1, ActCases
           DEF JobComplete, JobOutOfTurn, JobInTurn, JobOrphaned, DeleteJob, Unfinished
      <3> QED BY <1>6, <2>5, <3>1, <3>2, FailureCases
    <2> QED BY <2>4, <2>5
  <1>7. ASSUME NEW x, PodStep(x) \/ JobFails(x) \/ TTLDelete(x) PROVE Unreported(k)
    <2>1. handling' = handling
      BY <1>7 DEF PodStep, PodStart, JobSucceeds, Elapse, JobFails, TTLDelete, ClusterStep
    <2>2. CASE TTLDelete(x)
      BY <1>1, <2>1, <2>2 DEF TTLDelete, Deletes, Remove, Unreported
    <2>3. CASE PodStep(x) \/ JobFails(x)
      <3>1. /\ x \in DOMAIN job /\ jobQueue' = jobQueue \cup {x} /\ DOMAIN job' = DOMAIN job
            /\ \A y \in DOMAIN job : y # x => job'[y] = job[y]
        BY <2>3 DEF PodStep, PodStart, JobSucceeds, Elapse, JobFails
      <3> QED BY <1>1, <1>2, <2>1, <3>1
    <2> QED BY <1>7, <2>2, <2>3
  <1>8. CASE Restart \/ Resync
    BY <1>1, <1>8 DEF Restart, Resync
  <1>9. ASSUME NEW n, NodeWatch(n) \/ Heartbeat(n) PROVE Unreported(k)
    BY <1>2, <1>9 DEF NodeWatch, Heartbeat, jobVars
  <1>10. CASE WindowOpens \/ WindowCloses \/ UNCHANGED vars
    BY <1>2, <1>10 DEF WindowOpens, WindowCloses, vars, jobVars
  <1>11. Unedited
    BY DEF Unedited, vars, planVars, nodeVars, envVars
  <1> QED BY <1>3, <1>4, <1>5, <1>6, <1>7, <1>8, <1>9, <1>10, <1>11, EditsSeen
          DEF Next, PlanStep, JobStep

\* Every step that edits nothing keeps FailuresSeen.
LEMMA SeenStep ==
    ASSUME ~LateHandlers, TurnInv, UpdateIdle, FailuresSeen, [Next]_vars, [Unedited]_vars
    PROVE  FailuresSeen'
  <1>1. plan'.spec = plan.spec
    BY DEF Unedited, vars, planVars
  <1> SUFFICES ASSUME plan.spec.concurrency = 1, NEW k, Unreported(k)'
               PROVE  Reported(plan'.status.complete)
    BY <1>1 DEF FailuresSeen, Unreported
  <1>2. CASE JobAct(k) /\ FailureWritten(k)
    BY <1>2, FailedWrites
  <1>3. CASE Unreported(k)
    <2>1. k \in DOMAIN job /\ ~IsComplete(job[k]) /\ job[k].parallelism = 1
      BY <1>3 DEF Unreported, IsFailed, IsComplete
    <2>2. Reported(plan.status.complete)
      BY <1>3 DEF FailuresSeen, Unreported
    <2> QED BY <2>1, <2>2, ReportStays
  <1> QED BY <1>2, <1>3, UnreportedBefore

\* While nobody edits plan, nodes and secret, and handlers are not late by a job's TTL, the
\* message of a failed job is in the Complete condition of a plan with concurrency 1 when
\* all is quiet, whatever conflicts, restarts and syncs were under way when the job failed.
THEOREM FailureCorrect ==
    ASSUME ~LateHandlers, \A s \in Specs : s.concurrency >= 0
    PROVE  Spec /\ [][Unedited]_vars => []FailureReported
  <1> DEFINE Inv == TurnInv /\ ListsShort /\ UpdateIdle /\ FailuresSeen
  <1>1. Inv /\ [Next]_vars /\ [Unedited]_vars => Inv'
    BY TurnStep, ShortStep, IdleStep, SeenStep
  <1>2. Init => UpdateIdle /\ FailuresSeen
    BY DEF Init, UpdateIdle, FailuresSeen, Idle, Nothing
  <1>3. Init => ListsShort
    BY ShortInit
  <1>4. Inv => FailureReported
    <2>1. Quiet => jobQueue = {} /\ DOMAIN handling = {}
      BY DEF Quiet, Nothing
    <2> QED BY <2>1 DEF FailureReported, FailuresSeen, Reported, IsTrue
  <1> QED BY <1>1, <1>2, <1>3, <1>4, TurnInit, PTL DEF Spec
===============================================================================
