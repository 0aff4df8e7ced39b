-------------------------- MODULE PlanResolutionProofs ------------------------
(***************************************************************************)
(* That the plan's version comes from where the plan says it does, for     *)
(* every channel, interval, spec and number of faults: proofs of the       *)
(* safety properties of PlanResolution.                                    *)
(***************************************************************************)
EXTENDS PlanResolution, PlanStatusProofs

\* Status v was given by reply r.
GivenBy(r, v) ==
    \/ r.code = 302 /\ v = MungeVersion(r.location)
    \/ r.code \in (200..399) \ {302} /\ v = MungeVersion(UrlBase)

\* A version said to be the channel's is one of those replies gave, and no condition is
\* of the future.
Recorded(status, given) ==
    /\ status.resolved.updated <= Present
    /\ status.resolved.reason = "Channel" => \E r \in given : GivenBy(r, status.version)

\* Every copy of the plan is so recorded.
CopiesRecorded ==
    /\ Recorded(plan.status, replies)
    /\ Recorded(planCache.plan.status, replies)
    /\ worker # Idle => Recorded(worker.copy.plan.status, replies)

\* A cache that is not behind is up to date.
CacheCurrent == ~planCache.behind => planCache.plan = plan

\* Until the key is queued again, the cache is as it was when the channel was asked.
AskedDue == worker.pc = "asked" /\ ~planQueue => Polls(planCache.plan)

\* A sync that found the cached version young has left a delayed key that comes in time.
TimerSet ==
    /\ worker.pc # "asked" /\ ~planQueue /\ ~planCache.behind
    /\ ByChannel(planCache.plan) /\ ~PollDue(planCache.plan.status, Present)
    => timer \in 1..(planCache.plan.status.resolved.updated - 1)

\* The version and the hash of the spec, if that names one.
Settled(p) ==
    p.spec.version # NoVersion /\ IsTrue(p.status.validated) =>
        p.status.version = MungeVersion(p.spec.version) /\ p.status.hash[1] = p.status.version

\* What was synced and has not changed since is settled, unless the write failed: the key
\* is then queued again when the generating handler has returned.
CacheSettled ==
    ~planQueue /\ ~planCache.behind =>
        Settled(planCache.plan) \/ (worker.pc = "generate" /\ worker.err)

\* The worker asks for a plan that has a channel and no version; what it holds, unless
\* overtaken, has the plan's spec, and the plan's version or the one the spec names, which
\* it keeps when its write has failed.
WorkerBased ==
    /\ worker.pc = "asked" => ByChannel(worker.copy.plan)
    /\ worker # Idle /\ ~worker.copy.behind =>
         /\ worker.copy.plan.spec = plan.spec
         /\ plan.spec.version # NoVersion =>
              worker.copy.plan.status.version \in
                {plan.status.version, MungeVersion(plan.spec.version)}

ResolutionInv ==
    /\ TypeOK /\ CopiesRecorded /\ CacheCurrent /\ AskedDue /\ TimerSet
    /\ CacheSettled /\ WorkerBased

-------------------------------------------------------------------------------
(* The operators. *)

LEMMA PresentType == Present \in Nat /\ Present = PollingInterval + 1 /\ PollingInterval \in Nat
  BY PollingIntervalAssumption DEF Present

LEMMA TextsKnown == Texts \subseteq Message
  BY MessageAssumption DEF Texts

\* The fields of a plan.
LEMMA PlanFields ==
    ASSUME NEW p \in Plan
    PROVE  /\ p.spec \in Specs /\ p.spec \in PlanSpec /\ p.spec.secret = "none"
           /\ p.status \in Status({})
           /\ p.status.resolved \in Condition /\ p.status.resolved.updated \in Nat
           /\ p.status.complete \in Condition
  BY ResponseAssumption DEF Plan, Status, Condition

\* The fields of the worker.
LEMMA WorkerFields ==
    ASSUME NEW w \in Worker
    PROVE  /\ w # Idle <=> w.pc # "idle"
           /\ w # Idle => /\ w \in [pc : {"asked", "generate"}, copy : Copy, err : BOOLEAN]
                          /\ w.copy \in Copy /\ w.copy.plan \in Plan
  BY DEF Worker, Idle, Copy

\* A reply gives the version that ResolveChannel reads from it.
LEMMA ReplyGives ==
    ASSUME NEW r \in Response, ResolveChannel(r) # NoAnswer
    PROVE  GivenBy(r, MungeVersion(ResolveChannel(r)))
  <1>1. r.code \in Nat
    BY ResponseAssumption
  <1>2. CASE r.code = 302
    BY <1>2 DEF ResolveChannel, GivenBy
  <1>3. CASE r.code # 302
    <2>1. r.code \div 200 = 1 /\ ResolveChannel(r) = UrlBase
      BY <1>3 DEF ResolveChannel
    <2>2. r.code \in (200..399) \ {302}
      BY <1>1, <1>3, <2>1
    <2> QED BY <2>1, <2>2 DEF GivenBy
  <1> QED BY <1>2, <1>3

\* What a reply says is a version or no answer.
LEMMA ReplyType ==
    ASSUME NEW r \in Response
    PROVE  ResolveChannel(r) \in RawVersion \cup {NoAnswer}
  BY ResponseAssumption DEF ResolveChannel

\* What is not due for the status that validation leaves is not due before either.
LEMMA DueKept ==
    ASSUME NEW p \in Plan, ByChannel(p)
    PROVE  Polls(p) <=> PollDue(p.status, Present)
  <1> DEFINE st == Validated(p.spec, p.status, Missing, Present)
  <1>1. p.spec \in PlanSpec /\ p.status \in Status({}) /\ Present \in Nat
    BY PlanFields, PresentType
  <1>2. /\ IsTrue(st.resolved) <=> IsTrue(p.status.resolved)
        /\ st.resolved \in {p.status.resolved, CreateUnknownIfNotExists(p.status.resolved)}
    BY <1>1, TextsKnown, ValidatedType, ValidatedResolved
  <1>3. IsTrue(p.status.resolved) => st.resolved = p.status.resolved
    BY <1>2 DEF IsTrue, CreateUnknownIfNotExists, FindOrCreate
  <1> HIDE DEF st
  <1>4. PollDue(st, Present) <=> PollDue(p.status, Present)
    BY <1>2, <1>3 DEF PollDue
  <1> QED BY <1>4 DEF Polls, st

\* What is younger than the interval has a time to go, and it is at most the interval.
LEMMA YoungLeft ==
    ASSUME NEW p \in Plan, p.status.resolved.updated <= Present, ~PollDue(p.status, Present)
    PROVE  /\ IsTrue(p.status.resolved)
           /\ p.status.resolved.updated - 1 \in 1..PollingInterval
           /\ PollingInterval - (Present - p.status.resolved.updated)
                = p.status.resolved.updated - 1
  BY PlanFields, PresentType DEF PollDue

\* Time passing changes one field of a plan.
LEMMA OlderFields ==
    ASSUME NEW p \in Plan
    PROVE  LET q == Older(p)
           IN  /\ q \in Plan /\ q.spec = p.spec
               /\ q.status.version = p.status.version /\ q.status.hash = p.status.hash
               /\ q.status.validated = p.status.validated
               /\ q.status.resolved.status = p.status.resolved.status
               /\ q.status.resolved.reason = p.status.resolved.reason
               /\ q.status.resolved.updated =
                    IF p.status.resolved.updated > 1 THEN p.status.resolved.updated - 1
                    ELSE p.status.resolved.updated
  <1> DEFINE n == IF p.status.resolved.updated > 1 THEN p.status.resolved.updated - 1
                  ELSE p.status.resolved.updated
             c == [p.status.resolved EXCEPT !.updated = n]
             s == [p.status EXCEPT !.resolved = c]
  <1>1. n \in Nat
    BY PlanFields
  <1>2. Older(p) = [p EXCEPT !.status = s]
    BY DEF Older, Plan, Status
  <1> HIDE DEF n
  <1>3. /\ c \in Condition /\ c.status = p.status.resolved.status
        /\ c.reason = p.status.resolved.reason /\ c.updated = n
    BY <1>1, PlanFields DEF Condition
  <1> HIDE DEF c
  <1>4. /\ s \in Status({}) /\ s.resolved = c /\ s.version = p.status.version
        /\ s.hash = p.status.hash /\ s.validated = p.status.validated
    BY <1>3, PlanFields DEF Status
  <1> HIDE DEF s
  <1>5. Older(p) \in Plan /\ Older(p).spec = p.spec /\ Older(p).status = s
    BY <1>2, <1>4 DEF Plan
  <1> QED BY <1>3, <1>4, <1>5 DEF n

-------------------------------------------------------------------------------
(* What the steps change, field by field. *)

\* A sync of a recorded plan, with an answer that a reply gave.
LEMMA OutcomeRecorded ==
    ASSUME NEW p \in Plan, NEW given \in SUBSET Response, Recorded(p.status, given),
           NEW answer \in RawVersion \cup {NoAnswer},
           answer # NoAnswer => \E r \in given : GivenBy(r, MungeVersion(answer))
    PROVE  LET out == StatusOutcome(p, answer)
           IN  /\ out.status \in Status({}) /\ out.err \in BOOLEAN
               /\ Recorded(out.status, given)
               /\ out.err => out.status.version = p.status.version
               /\ p.spec.version # NoVersion =>
                    /\ out.status.version \in {p.status.version, MungeVersion(p.spec.version)}
                    /\ ~out.err /\ Settled([spec |-> p.spec, status |-> out.status])
  <1> DEFINE out == StatusOutcome(p, answer)
             p2 == [spec |-> p.spec, status |-> out.status]
  <1>1. /\ p.spec \in PlanSpec /\ p.status \in Status({}) /\ p.spec.secret = "none"
        /\ Present \in Nat /\ Missing \in Secret \cup {Missing}
    BY PlanFields, PresentType
  <1>2. out = StatusHandler(p.spec, p.status, Missing, Missing, answer, Present)
    BY DEF StatusOutcome
  <1> HIDE DEF out
  <1>3. ASSUME NEW spec \in PlanSpec, NEW st \in Status({})
        PROVE  LET o == StatusHandler(spec, st, Missing, Missing, answer, Present)
               IN  o.status \in Status({}) /\ o.err \in BOOLEAN
    BY <1>1, TextsKnown, StatusHandlerKeeps
  <1>4. Records(p.spec, p.status, answer, Present, out)
    BY <1>1, <1>2, TextsKnown, StatusHandlerRecords
  <1>5. p.spec.version # NoVersion =>
          /\ out.status.version \in {p.status.version, MungeVersion(p.spec.version)}
          /\ ~out.err
          /\ IsTrue(out.status.validated) =>
               /\ out.status.version = MungeVersion(p.spec.version)
               /\ out.status.hash[1] = out.status.version
    BY <1>1, <1>4 DEF Records
  <1>6. Recorded(out.status, given)
    BY <1>4 DEF Recorded, Records
  <1>7. p2.spec = p.spec /\ p2.status = out.status
    OBVIOUS
  <1>8. p.spec.version # NoVersion => Settled(p2)
    <2> HIDE DEF p2
    <2> QED BY <1>5, <1>7 DEF Settled
  <1>9. /\ out.status \in Status({}) /\ out.err \in BOOLEAN
        /\ out.err => out.status.version = p.status.version
        /\ p.spec.version # NoVersion =>
             /\ out.status.version \in {p.status.version, MungeVersion(p.spec.version)}
             /\ ~out.err
    BY <1>1, <1>2, <1>3, <1>4, <1>5 DEF Records
  <1> QED BY <1>6, <1>8, <1>9 DEF out

\* A write replaces the status, and leaves the cache behind.
LEMMA WriteFields ==
    ASSUME plan \in Plan, planCache \in Copy, NEW st \in Status({}), Write(st)
    PROVE  /\ plan' \in Plan /\ plan'.spec = plan.spec /\ plan'.status = st
           /\ planCache' \in Copy /\ planCache'.plan = planCache.plan /\ planCache'.behind
  BY DEF Write, Plan, Copy

\* One more fault is within the bound.
LEMMA FaultType ==
    ASSUME faults \in 0..MaxFaults, Fault \/ UNCHANGED faults
    PROVE  faults' \in 0..MaxFaults
  BY BoundsAssumption DEF Fault

\* The status handler has returned.
LEMMA ContinueFields ==
    ASSUME TypeOK, NEW copy \in Copy,
           NEW out, out.status \in Status({}), out.err \in BOOLEAN, Continue(copy, out)
    PROVE  /\ worker' \in Worker /\ worker' # Idle /\ worker'.pc = "generate"
           /\ worker'.copy.plan.spec = copy.plan.spec /\ worker'.copy.plan.status = out.status
           /\ copy.behind => worker'.copy.behind
           /\ faults' \in 0..MaxFaults
           /\ plan' \in Plan /\ plan'.spec = plan.spec
           /\ planCache' \in Copy /\ planCache'.plan = planCache.plan
           /\ planCache.behind => planCache'.behind
           /\ \/ /\ ~copy.behind /\ ~out.err
                 /\ plan'.status = out.status /\ planCache'.behind
              \/ /\ copy.behind \/ out.err \/ out.status = copy.plan.status
                 /\ UNCHANGED <<plan, planCache>>
              \/ ~copy.behind /\ ~out.err /\ worker'.err /\ UNCHANGED <<plan, planCache>>
  <1> DEFINE kept == [copy EXCEPT !.plan.status = out.status]
             lost == [kept EXCEPT !.behind = TRUE]
             Goes(c, err) == worker' = [pc |-> "generate", copy |-> c, err |-> err]
  <1>1. /\ plan \in Plan /\ planCache \in Copy /\ faults \in 0..MaxFaults
        /\ copy.behind \in BOOLEAN
    BY DEF TypeOK, Copy
  <1>2. /\ kept \in Copy /\ kept.plan.spec = copy.plan.spec
        /\ kept.plan.status = out.status /\ kept.behind = copy.behind
    BY DEF Copy, Plan
  <1>3. lost \in Copy /\ lost.plan = kept.plan /\ lost.behind
    <2> HIDE DEF kept
    <2> QED BY <1>2 DEF Copy
  <1>4. \/ /\ Goes(kept, out.err) /\ UNCHANGED <<plan, planCache, faults>>
           /\ out.err \/ out.status = copy.plan.status
        \/ /\ ~copy.behind /\ ~out.err /\ Write(out.status)
           /\ \/ UNCHANGED faults /\ Goes(kept, FALSE)
              \/ Fault /\ Goes(lost, TRUE)
        \/ /\ ~out.err /\ UNCHANGED <<plan, planCache>>
           /\ Fault \/ UNCHANGED faults
           /\ Goes(kept, TRUE)
    BY DEF Continue, Written, NotWritten, Accepted
  <1> HIDE DEF kept, lost
  <1>5. \E c \in {kept, lost}, e \in BOOLEAN :
          worker' = [pc |-> "generate", copy |-> c, err |-> e]
    <2>1. ASSUME NEW c \in {kept, lost}, NEW e \in BOOLEAN, Goes(c, e)
          PROVE  \E cc \in {kept, lost}, ee \in BOOLEAN :
                   worker' = [pc |-> "generate", copy |-> cc, err |-> ee]
      BY <2>1
    <2>2. \/ Goes(kept, out.err) \/ Goes(kept, FALSE) \/ Goes(lost, TRUE) \/ Goes(kept, TRUE)
      <3> HIDE DEF Goes
      <3> QED BY <1>4
    <2> HIDE DEF Goes
    <2> QED BY <2>1, <2>2
  <1>6. /\ worker' \in Worker /\ worker'.pc = "generate" /\ worker'.copy \in {kept, lost}
    <2>1. PICK c \in {kept, lost}, e \in BOOLEAN :
            worker' = [pc |-> "generate", copy |-> c, err |-> e]
      BY <1>5
    <2> QED BY <1>2, <1>3, <2>1 DEF Worker
  <1>7. worker' # Idle
    BY <1>6, WorkerFields DEF Idle
  <1>8. faults' \in 0..MaxFaults
    BY <1>1, <1>4, FaultType
  <1>9. CASE Write(out.status) /\ ~copy.behind /\ ~out.err
    BY <1>1, <1>2, <1>3, <1>6, <1>7, <1>8, <1>9, WriteFields
  <1>10. CASE /\ UNCHANGED <<plan, planCache>>
              /\ \/ out.err \/ out.status = copy.plan.status
                 \/ ~out.err /\ worker'.err
    BY <1>1, <1>2, <1>3, <1>6, <1>7, <1>8, <1>10
  <1> QED BY <1>4, <1>9, <1>10

\* The generating handler has returned.
LEMMA GenerateFields ==
    ASSUME TypeOK, Generate
    PROVE  /\ worker # Idle /\ worker.pc = "generate" /\ worker' = Idle
           /\ planQueue' \in BOOLEAN /\ (planQueue \/ worker.err => planQueue')
           /\ faults' \in 0..MaxFaults
           /\ plan' \in Plan /\ plan'.spec = plan.spec
           /\ planCache' \in Copy /\ planCache'.plan = planCache.plan
           /\ planCache.behind => planCache'.behind
           /\ \/ /\ ~worker.copy.behind /\ planCache'.behind
                 /\ plan'.status.version = worker.copy.plan.status.version
                 /\ plan'.status.resolved = worker.copy.plan.status.resolved
              \/ UNCHANGED <<plan, planCache>>
  <1> DEFINE s == worker.copy.plan.status
             WithComplete(c) == [s EXCEPT !.complete = c]
  <1>1. /\ worker.pc = "generate" /\ worker' = Idle
        /\ plan \in Plan /\ planCache \in Copy /\ worker \in Worker /\ planQueue \in BOOLEAN
    BY DEF Generate, TypeOK
  <1>2. /\ worker # Idle /\ worker.copy \in Copy /\ s \in Status({}) /\ worker.err \in BOOLEAN
    BY <1>1, WorkerFields, PlanFields
  <1>3. PICK c \in Generated(s) :
          /\ \/ UNCHANGED <<plan, planCache>>
             \/ ~worker.copy.behind /\ Write(WithComplete(c))
          /\ planQueue' \in {TRUE, planQueue \/ worker.err}
          /\ Fault \/ UNCHANGED faults
    BY DEF Generate, Written, NotWritten, Accepted
  <1>4. c \in Condition
    <2>1. s.complete \in Condition /\ Present \in Nat
      BY <1>2, PresentType DEF Status
    <2>2. /\ "NotReady" \in Message \cup {NoError} /\ NoError \in Message \cup {NoError}
          /\ {"NotReady", "SyncJob", "Complete"} \subseteq Reason
      BY MessageAssumption DEF Reason
    <2>3. /\ SetError(s.complete, "NotReady", "NotReady", Present) \in Condition
          /\ SetError(s.complete, "Complete", NoError, Present) \in Condition
      BY <2>1, <2>2, SetErrorType
    <2>4. Reset(s.complete, "SyncJob", Present) \in Condition
      BY <2>1, <2>2, ResetType
    <2> QED BY <2>1, <2>3, <2>4 DEF Generated
  <1>5. /\ WithComplete(c) \in Status({}) /\ WithComplete(c).version = s.version
        /\ WithComplete(c).resolved = s.resolved
    BY <1>2, <1>4 DEF Status
  <1>6. /\ planQueue' \in BOOLEAN /\ (planQueue \/ worker.err => planQueue')
        /\ faults' \in 0..MaxFaults
    BY <1>1, <1>2, <1>3, FaultType DEF TypeOK
  <1> HIDE DEF WithComplete
  <1>7. CASE ~worker.copy.behind /\ Write(WithComplete(c))
    BY <1>1, <1>2, <1>5, <1>6, <1>7, WriteFields
  <1>8. CASE UNCHANGED <<plan, planCache>>
    BY <1>1, <1>2, <1>6, <1>8
  <1> QED BY <1>3, <1>7, <1>8

\* Time has passed.
LEMMA TickFields ==
    ASSUME TypeOK, Tick
    PROVE  /\ plan' = Older(plan) /\ plan' \in Plan
           /\ planCache' \in Copy /\ planCache'.plan = Older(planCache.plan)
           /\ planCache'.behind = planCache.behind
           /\ worker' \in Worker /\ worker'.pc = worker.pc
           /\ worker = Idle => worker' = Idle
           /\ worker # Idle => /\ worker' # Idle
                               /\ worker'.copy.plan = Older(worker.copy.plan)
                               /\ worker'.copy.behind = worker.copy.behind
                               /\ worker'.err = worker.err
  <1>1. plan \in Plan /\ planCache \in Copy /\ planCache.plan \in Plan /\ worker \in Worker
    BY DEF TypeOK, Copy
  <1>2. plan' = Older(plan) /\ plan' \in Plan
    BY <1>1, OlderFields DEF Tick
  <1>3. ASSUME NEW c \in Copy, NEW d, d = [c EXCEPT !.plan = Older(c.plan)]
        PROVE  d \in Copy /\ d.plan = Older(c.plan) /\ d.behind = c.behind
    <2>1. Older(c.plan) \in Plan
      BY OlderFields DEF Copy
    <2> QED BY <1>3, <2>1 DEF Copy
  <1>4. planCache' \in Copy /\ planCache'.plan = Older(planCache.plan)
        /\ planCache'.behind = planCache.behind
    BY <1>1, <1>3 DEF Tick
  <1>5. CASE worker = Idle
    BY <1>1, <1>2, <1>4, <1>5 DEF Tick
  <1>6. CASE worker # Idle
    <2> DEFINE d == [worker.copy EXCEPT !.plan = Older(worker.copy.plan)]
    <2>1. /\ worker \in [pc : {"asked", "generate"}, copy : Copy, err : BOOLEAN]
          /\ worker.copy \in Copy
      BY <1>1, <1>6, WorkerFields
    <2>2. worker' = [worker EXCEPT !.copy = d]
      BY <1>6, <2>1 DEF Tick, Copy
    <2>3. d \in Copy /\ d.plan = Older(worker.copy.plan) /\ d.behind = worker.copy.behind
      BY <1>3, <2>1
    <2> HIDE DEF d
    <2>4. /\ worker' \in Worker /\ worker'.pc = worker.pc /\ worker'.copy = d
          /\ worker'.err = worker.err
      BY <2>1, <2>2, <2>3 DEF Worker
    <2>5. worker' # Idle
      BY <1>1, <1>6, <2>4, WorkerFields DEF Idle
    <2> QED BY <1>2, <1>4, <1>6, <2>3, <2>4, <2>5
  <1> QED BY <1>5, <1>6

\* Another client has written the plan.
LEMMA OvertakenFields ==
    ASSUME TypeOK, Overtaken
    PROVE  /\ planCache' \in Copy /\ planCache'.plan = planCache.plan /\ planCache'.behind
           /\ worker' \in Worker /\ worker'.pc = worker.pc
           /\ worker = Idle => worker' = Idle
           /\ worker # Idle => /\ worker' # Idle
                               /\ worker'.copy.plan = worker.copy.plan /\ worker'.copy.behind
  <1>1. planCache \in Copy /\ worker \in Worker
    BY DEF TypeOK
  <1>2. ASSUME NEW c \in Copy, NEW d, d = [c EXCEPT !.behind = TRUE]
        PROVE  d \in Copy /\ d.plan = c.plan /\ d.behind
    BY <1>2 DEF Copy
  <1>3. planCache' \in Copy /\ planCache'.plan = planCache.plan /\ planCache'.behind
    BY <1>1, <1>2 DEF Overtaken
  <1>4. CASE worker = Idle
    BY <1>1, <1>3, <1>4 DEF Overtaken
  <1>5. CASE worker # Idle
    <2> DEFINE d == [worker.copy EXCEPT !.behind = TRUE]
    <2>1. /\ worker \in [pc : {"asked", "generate"}, copy : Copy, err : BOOLEAN]
          /\ worker.copy \in Copy
      BY <1>1, <1>5, WorkerFields
    <2>2. worker' = [worker EXCEPT !.copy = d]
      BY <1>5, <2>1 DEF Overtaken, Copy
    <2>3. d \in Copy /\ d.plan = worker.copy.plan /\ d.behind
      BY <1>2, <2>1
    <2> HIDE DEF d
    <2>4. /\ worker' \in Worker /\ worker'.pc = worker.pc /\ worker'.copy = d
      BY <2>1, <2>2, <2>3 DEF Worker
    <2>5. worker' # Idle
      BY <1>1, <1>5, <2>4, WorkerFields DEF Idle
    <2> QED BY <1>3, <1>5, <2>3, <2>4, <2>5
  <1> QED BY <1>4, <1>5

-------------------------------------------------------------------------------
(* Each step keeps the invariant. *)

\* What time leaves of a plan's claims.
LEMMA OlderKeeps ==
    ASSUME NEW p \in Plan, NEW given
    PROVE  LET q == Older(p)
           IN  /\ Recorded(p.status, given) => Recorded(q.status, given)
               /\ Settled(p) => Settled(q)
               /\ ByChannel(q) <=> ByChannel(p)
               /\ PollDue(p.status, Present) => PollDue(q.status, Present)
               /\ Polls(p) => Polls(q)
  <1> DEFINE q == Older(p)
  <1>1. /\ q \in Plan /\ q.spec = p.spec
        /\ q.status.version = p.status.version /\ q.status.hash = p.status.hash
        /\ q.status.validated = p.status.validated
        /\ q.status.resolved.status = p.status.resolved.status
        /\ q.status.resolved.reason = p.status.resolved.reason
        /\ q.status.resolved.updated =
             IF p.status.resolved.updated > 1 THEN p.status.resolved.updated - 1
             ELSE p.status.resolved.updated
    BY OlderFields
  <1>2. p.status.resolved.updated \in Nat /\ Present \in Nat /\ PollingInterval \in Nat
    BY PlanFields, PresentType
  <1> HIDE DEF q
  <1>3. Recorded(p.status, given) => Recorded(q.status, given)
    BY <1>1, <1>2 DEF Recorded
  <1>4. Settled(p) => Settled(q)
    BY <1>1 DEF Settled
  <1>5. ByChannel(q) <=> ByChannel(p)
    BY <1>1 DEF ByChannel
  <1>6. PollDue(p.status, Present) => PollDue(q.status, Present)
    BY <1>1, <1>2, PresentType DEF PollDue, IsTrue, Never
  <1>7. Polls(p) => Polls(q)
    BY <1>1, <1>5, <1>6, DueKept DEF Polls
  <1> QED BY <1>3, <1>4, <1>5, <1>6, <1>7 DEF q

\* More replies record no less.
LEMMA RecordedMore ==
    ASSUME NEW st, NEW given, NEW more, given \subseteq more, Recorded(st, given)
    PROVE  Recorded(st, more)
  BY DEF Recorded

\* A sync that does not poll.
LEMMA SyncKeeps ==
    ASSUME ResolutionInv, Sync
    PROVE  ResolutionInv'
  <1> DEFINE p == planCache.plan
             out == StatusOutcome(p, NoAnswer)
  <1>1. /\ plan \in Plan /\ planCache \in Copy /\ p \in Plan /\ timer \in 0..PollingInterval
        /\ TypeOK /\ replies \subseteq Response
    BY DEF ResolutionInv, TypeOK, Copy
  <1>2. /\ out.status \in Status({}) /\ out.err \in BOOLEAN
        /\ Recorded(out.status, replies)
        /\ out.err => out.status.version = p.status.version
        /\ p.spec.version # NoVersion =>
             /\ out.status.version \in {p.status.version, MungeVersion(p.spec.version)}
             /\ ~out.err /\ Settled([spec |-> p.spec, status |-> out.status])
    <2>1. Recorded(p.status, replies) /\ NoAnswer \in RawVersion \cup {NoAnswer}
      BY DEF ResolutionInv, CopiesRecorded
    <2> QED BY <1>1, <2>1, OutcomeRecorded
  <1>3. /\ worker = Idle /\ ~Polls(p) /\ planQueue' = FALSE
        /\ timer' = IF ByChannel(p) THEN Delay(p.status) ELSE timer
        /\ Continue(planCache, out)
        /\ UNCHANGED <<channel, replies, edits, moves>>
    BY DEF Sync
  <1> HIDE DEF out
  <1>4. /\ worker' \in Worker /\ worker' # Idle /\ worker'.pc = "generate"
        /\ worker'.copy.plan.spec = p.spec /\ worker'.copy.plan.status = out.status
        /\ planCache.behind => worker'.copy.behind
        /\ faults' \in 0..MaxFaults
        /\ plan' \in Plan /\ plan'.spec = plan.spec
        /\ planCache' \in Copy /\ planCache'.plan = p
        /\ planCache.behind => planCache'.behind
        /\ \/ /\ ~planCache.behind /\ ~out.err
              /\ plan'.status = out.status /\ planCache'.behind
           \/ /\ planCache.behind \/ out.err \/ out.status = p.status
              /\ UNCHANGED <<plan, planCache>>
           \/ ~planCache.behind /\ ~out.err /\ worker'.err /\ UNCHANGED <<plan, planCache>>
    BY <1>1, <1>2, <1>3, ContinueFields
  <1>5. /\ timer' \in 0..PollingInterval
        /\ ByChannel(p) /\ ~PollDue(p.status, Present)
             => timer' \in 1..(p.status.resolved.updated - 1)
    <2>1. CASE ByChannel(p)
      <3>1. ~PollDue(p.status, Present)
        BY <1>1, <1>3, <2>1, DueKept
      <3>2. p.status.resolved.updated <= Present /\ p.status.resolved.updated \in Nat
        BY <1>1, PlanFields DEF ResolutionInv, CopiesRecorded, Recorded
      <3>3. /\ p.status.resolved.updated - 1 \in 1..PollingInterval
            /\ PollingInterval - (Present - p.status.resolved.updated)
                 = p.status.resolved.updated - 1
        BY <1>1, <3>1, <3>2, YoungLeft
      <3>4. timer' = IF timer = 0 \/ p.status.resolved.updated - 1 < timer
                     THEN p.status.resolved.updated - 1 ELSE timer
        BY <1>3, <2>1, <3>3 DEF Delay
      <3> QED BY <1>1, <3>2, <3>3, <3>4, PresentType
    <2>2. CASE ~ByChannel(p)
      BY <1>1, <1>3, <2>2
    <2> QED BY <2>1, <2>2
  <1>6. TypeOK'
    BY <1>1, <1>3, <1>4, <1>5 DEF TypeOK
  <1>7. CopiesRecorded'
    BY <1>2, <1>3, <1>4 DEF ResolutionInv, CopiesRecorded
  <1>8. CacheCurrent' /\ AskedDue'
    BY <1>4 DEF ResolutionInv, CacheCurrent, AskedDue
  <1>9. TimerSet'
    BY <1>4, <1>5 DEF TimerSet
  <1>10. CacheSettled'
    <2> DEFINE s == [spec |-> p.spec, status |-> out.status]
    <2>1. s.spec = p.spec /\ s.status = out.status
      OBVIOUS
    <2> HIDE DEF s
    <2>2. ~planCache'.behind /\ ~worker'.err /\ p.spec.version # NoVersion =>
            out.status = p.status /\ Settled(s)
      BY <1>2, <1>4 DEF s
    <2>3. ~planCache'.behind => Settled(p) \/ worker'.err
      BY <2>1, <2>2 DEF Settled
    <2> QED BY <1>4, <2>3 DEF CacheSettled
  <1>11. WorkerBased'
    <2>1. ~planCache.behind => p = plan
      BY DEF ResolutionInv, CacheCurrent
    <2> QED BY <1>2, <1>4, <2>1 DEF WorkerBased
  <1> QED BY <1>6, <1>7, <1>8, <1>9, <1>10, <1>11 DEF ResolutionInv

\* A sync that polls.
LEMMA AskKeeps ==
    ASSUME ResolutionInv, Ask
    PROVE  ResolutionInv'
  <1>1. /\ planQueue' = FALSE /\ Polls(planCache.plan)
        /\ worker' = [pc |-> "asked", copy |-> planCache, err |-> FALSE]
        /\ UNCHANGED <<plan, planCache, timer, channel, replies, edits, moves, faults>>
    BY DEF Ask
  <1>2. TypeOK /\ planCache \in Copy
    BY DEF ResolutionInv, TypeOK
  <1>3. worker' \in Worker /\ worker'.pc = "asked" /\ worker'.copy = planCache
    BY <1>1, <1>2 DEF Worker
  <1>4. TypeOK'
    BY <1>1, <1>2, <1>3 DEF TypeOK
  <1>5. CopiesRecorded' /\ CacheCurrent'
    BY <1>1, <1>3 DEF ResolutionInv, CopiesRecorded, CacheCurrent
  <1>6. AskedDue' /\ TimerSet' /\ WorkerBased'
    BY <1>1, <1>3 DEF ResolutionInv, AskedDue, TimerSet, WorkerBased, CacheCurrent, Polls
  <1>7. CacheSettled'
    BY <1>1 DEF CacheSettled, Settled, Polls, ByChannel
  <1> QED BY <1>4, <1>5, <1>6, <1>7 DEF ResolutionInv

\* The channel has answered.
LEMMA AnsweredKeeps ==
    ASSUME ResolutionInv, Answered
    PROVE  ResolutionInv'
  <1> DEFINE copy == worker.copy
             p == copy.plan
             answer == ResolveChannel(channel)
             out == StatusOutcome(p, answer)
  <1>1. /\ TypeOK /\ plan \in Plan /\ planCache \in Copy /\ worker \in Worker
        /\ replies \subseteq Response /\ channel \in Response
        /\ worker.pc = "asked" /\ replies' = replies \cup {channel}
        /\ Continue(copy, out)
        /\ UNCHANGED <<planQueue, timer, channel, edits, moves>>
    BY DEF ResolutionInv, TypeOK, Answered
  <1>2. worker # Idle /\ copy \in Copy /\ p \in Plan
    BY <1>1, WorkerFields
  <1>3. /\ out.status \in Status({}) /\ out.err \in BOOLEAN
        /\ Recorded(out.status, replies')
        /\ out.err => out.status.version = p.status.version
    <2>1. Recorded(p.status, replies')
      BY <1>1, <1>2, RecordedMore DEF ResolutionInv, CopiesRecorded
    <2>2. answer # NoAnswer => \E r \in replies' : GivenBy(r, MungeVersion(answer))
      BY <1>1, ReplyGives
    <2>3. answer \in RawVersion \cup {NoAnswer} /\ replies' \in SUBSET Response
      BY <1>1, ReplyType
    <2> HIDE DEF answer, copy
    <2>4. \A given \in SUBSET Response :
             Recorded(p.status, given)
               /\ (answer # NoAnswer => \E r \in given : GivenBy(r, MungeVersion(answer)))
             => /\ out.status \in Status({}) /\ out.err \in BOOLEAN
                /\ Recorded(out.status, given)
                /\ out.err => out.status.version = p.status.version
      BY <1>2, <2>3, OutcomeRecorded
    <2> QED BY <2>1, <2>2, <2>3, <2>4
  <1> HIDE DEF out
  <1>4. /\ worker' \in Worker /\ worker' # Idle /\ worker'.pc = "generate"
        /\ worker'.copy.plan.spec = p.spec /\ worker'.copy.plan.status = out.status
        /\ copy.behind => worker'.copy.behind
        /\ faults' \in 0..MaxFaults
        /\ plan' \in Plan /\ plan'.spec = plan.spec
        /\ planCache' \in Copy /\ planCache'.plan = planCache.plan
        /\ planCache.behind => planCache'.behind
        /\ \/ /\ ~copy.behind /\ ~out.err
              /\ plan'.status = out.status /\ planCache'.behind
           \/ /\ copy.behind \/ out.err \/ out.status = p.status
              /\ UNCHANGED <<plan, planCache>>
           \/ ~copy.behind /\ ~out.err /\ worker'.err /\ UNCHANGED <<plan, planCache>>
    BY <1>1, <1>2, <1>3, ContinueFields
  <1>5. TypeOK'
    BY <1>1, <1>4 DEF TypeOK
  <1>6. CopiesRecorded'
    <2>1. Recorded(plan.status, replies') /\ Recorded(planCache.plan.status, replies')
      BY <1>1, RecordedMore DEF ResolutionInv, CopiesRecorded
    <2> QED BY <1>3, <1>4, <2>1 DEF CopiesRecorded
  <1>7. CacheCurrent' /\ AskedDue' /\ CacheSettled'
    BY <1>1, <1>4 DEF ResolutionInv, CacheCurrent, AskedDue, CacheSettled
  <1>8. TimerSet'
    <2>1. ~planQueue => Polls(planCache.plan)
      BY <1>1 DEF ResolutionInv, AskedDue
    <2>2. ~planQueue => PollDue(planCache.plan.status, Present)
      BY <1>1, <2>1, DueKept DEF Copy, Polls
    <2> QED BY <1>1, <1>4, <2>2 DEF TimerSet
  <1>9. WorkerBased'
    <2>1. p.spec.version = NoVersion
      BY <1>1 DEF ResolutionInv, WorkerBased, ByChannel
    <2>2. ~copy.behind => p.spec = plan.spec
      BY <1>2 DEF ResolutionInv, WorkerBased
    <2> QED BY <1>4, <2>1, <2>2 DEF WorkerBased
  <1> QED BY <1>5, <1>6, <1>7, <1>8, <1>9 DEF ResolutionInv

\* The generating handler has returned.
LEMMA GenerateKeeps ==
    ASSUME ResolutionInv, Generate
    PROVE  ResolutionInv'
  <1>1. /\ TypeOK /\ UNCHANGED <<timer, channel, replies, edits, moves>>
    BY DEF ResolutionInv, Generate
  <1>2. /\ worker # Idle /\ worker.pc = "generate" /\ worker' = Idle
        /\ planQueue' \in BOOLEAN /\ (planQueue \/ worker.err => planQueue')
        /\ faults' \in 0..MaxFaults
        /\ plan' \in Plan /\ plan'.spec = plan.spec
        /\ planCache' \in Copy /\ planCache'.plan = planCache.plan
        /\ planCache.behind => planCache'.behind
        /\ \/ /\ planCache'.behind
              /\ plan'.status.version = worker.copy.plan.status.version
              /\ plan'.status.resolved = worker.copy.plan.status.resolved
           \/ UNCHANGED <<plan, planCache>>
    BY <1>1, GenerateFields
  <1>3. TypeOK'
    BY <1>1, <1>2 DEF TypeOK, Worker
  <1>4. CopiesRecorded'
    BY <1>1, <1>2 DEF ResolutionInv, CopiesRecorded, Recorded
  <1>5. CacheCurrent' /\ AskedDue' /\ CacheSettled' /\ WorkerBased'
    BY <1>1, <1>2 DEF ResolutionInv, CacheCurrent, AskedDue, CacheSettled, WorkerBased, Idle
  <1>6. TimerSet'
    BY <1>1, <1>2 DEF ResolutionInv, TimerSet
  <1> QED BY <1>3, <1>4, <1>5, <1>6 DEF ResolutionInv

\* Time has passed.
LEMMA TickKeeps ==
    ASSUME ResolutionInv, Tick
    PROVE  ResolutionInv'
  <1>1. /\ TypeOK /\ plan \in Plan /\ planCache \in Copy /\ planCache.plan \in Plan
        /\ worker \in Worker /\ planQueue \in BOOLEAN /\ timer \in 0..PollingInterval
        /\ timer' = (IF timer = 0 THEN 0 ELSE timer - 1)
        /\ planQueue' = (planQueue \/ timer = 1)
        /\ UNCHANGED <<channel, replies, edits, moves, faults>>
    BY DEF ResolutionInv, TypeOK, Tick, Copy
  <1>2. /\ plan' = Older(plan) /\ plan' \in Plan
        /\ planCache' \in Copy /\ planCache'.plan = Older(planCache.plan)
        /\ planCache'.behind = planCache.behind
        /\ worker' \in Worker /\ worker'.pc = worker.pc
        /\ worker = Idle => worker' = Idle
        /\ worker # Idle => /\ worker' # Idle
                            /\ worker'.copy.plan = Older(worker.copy.plan)
                            /\ worker'.copy.behind = worker.copy.behind
                            /\ worker'.err = worker.err
    BY <1>1, TickFields
  <1>3. worker # Idle => worker.copy.plan \in Plan
    BY <1>1, WorkerFields
  <1>4. TypeOK'
    <2>1. timer' \in 0..PollingInterval /\ planQueue' \in BOOLEAN
      BY <1>1, PresentType
    <2> QED BY <1>1, <1>2, <2>1 DEF TypeOK
  <1>5. CopiesRecorded'
    BY <1>1, <1>2, <1>3, OlderKeeps DEF ResolutionInv, CopiesRecorded
  <1>6. CacheCurrent' /\ AskedDue'
    <2>1. Polls(planCache.plan) => Polls(Older(planCache.plan))
      BY <1>1, OlderKeeps
    <2> QED BY <1>1, <1>2, <2>1 DEF ResolutionInv, CacheCurrent, AskedDue
  <1>7. TimerSet'
    <2> DEFINE q == Older(planCache.plan)
    <2> SUFFICES ASSUME worker.pc # "asked", ~planQueue, timer # 1, ~planCache.behind,
                        ByChannel(q), ~PollDue(q.status, Present)
                 PROVE  timer' \in 1..(q.status.resolved.updated - 1)
      BY <1>1, <1>2 DEF TimerSet
    <2>1. timer \in 1..(planCache.plan.status.resolved.updated - 1)
      BY <1>1, OlderKeeps DEF ResolutionInv, TimerSet
    <2>2. q.status.resolved.updated >= planCache.plan.status.resolved.updated - 1
      BY <1>1, OlderFields, PlanFields
    <2>3. q.status.resolved.updated \in Nat /\ planCache.plan.status.resolved.updated \in Nat
      BY <1>1, OlderFields, PlanFields
    <2> HIDE DEF q
    <2> QED BY <1>1, <2>1, <2>2, <2>3
  <1>8. CacheSettled'
    <2>1. worker.pc = "generate" => worker # Idle
      BY <1>1, WorkerFields
    <2> QED BY <1>1, <1>2, <2>1, OlderKeeps DEF ResolutionInv, CacheSettled
  <1>9. WorkerBased'
    <2>1. plan'.spec = plan.spec /\ plan'.status.version = plan.status.version
      BY <1>1, <1>2, OlderFields
    <2>2. worker # Idle => /\ worker'.copy.plan.spec = worker.copy.plan.spec
                           /\ worker'.copy.plan.status.version = worker.copy.plan.status.version
                           /\ ByChannel(worker.copy.plan) => ByChannel(worker'.copy.plan)
      <3>1. ASSUME NEW c \in Plan
            PROVE  /\ Older(c).spec = c.spec /\ Older(c).status.version = c.status.version
                   /\ ByChannel(c) => ByChannel(Older(c))
        BY OlderFields, OlderKeeps
      <3> QED BY <1>2, <1>3, <3>1
    <2>3. worker.pc = "asked" => worker # Idle
      BY <1>1, WorkerFields
    <2> QED BY <1>2, <2>1, <2>2, <2>3 DEF ResolutionInv, WorkerBased
  <1> QED BY <1>4, <1>5, <1>6, <1>7, <1>8, <1>9 DEF ResolutionInv

\* The watch has delivered the plan, or the process was started again.
LEMMA RefreshKeeps ==
    ASSUME ResolutionInv, Watch \/ Restart
    PROVE  ResolutionInv'
  <1>1. /\ planCache' = [plan |-> plan, behind |-> FALSE] /\ planQueue' = TRUE
        /\ UNCHANGED <<plan, channel, replies, edits, moves>>
        /\ \/ UNCHANGED <<timer, worker, faults>>
           \/ timer' = 0 /\ worker' = Idle /\ Fault
    BY DEF Watch, Restart
  <1>2. TypeOK /\ plan \in Plan
    BY DEF ResolutionInv, TypeOK
  <1>3. planCache' \in Copy /\ planCache'.plan = plan
    BY <1>1, <1>2 DEF Copy
  <1>4. TypeOK'
    <2>1. faults' \in 0..MaxFaults /\ timer' \in 0..PollingInterval /\ worker' \in Worker
      BY <1>1, <1>2, PresentType, FaultType DEF TypeOK, Worker
    <2> QED BY <1>1, <1>2, <1>3, <2>1 DEF TypeOK
  <1>5. CopiesRecorded' /\ CacheCurrent' /\ AskedDue' /\ CacheSettled' /\ TimerSet'
    BY <1>1, <1>3 DEF ResolutionInv, CopiesRecorded, CacheCurrent, AskedDue, CacheSettled, TimerSet
  <1>6. WorkerBased'
    BY <1>1 DEF ResolutionInv, WorkerBased, Idle
  <1> QED BY <1>4, <1>5, <1>6 DEF ResolutionInv

\* The key is queued, or the channel moves.
LEMMA OutsideKeeps ==
    ASSUME ResolutionInv, Poke \/ ChannelMoves \/ UNCHANGED vars
    PROVE  ResolutionInv'
  <1>1. /\ UNCHANGED <<plan, planCache, timer, worker, replies, edits, faults>>
        /\ planQueue' \in BOOLEAN /\ (planQueue => planQueue')
        /\ channel' \in Response /\ moves' \in 0..MaxMoves
    <2>1. TypeOK
      BY DEF ResolutionInv
    <2>2. CASE Poke
      BY <2>1, <2>2 DEF TypeOK, Poke
    <2>3. CASE ChannelMoves
      BY <2>1, <2>3, BoundsAssumption DEF TypeOK, ChannelMoves
    <2>4. CASE UNCHANGED vars
      BY <2>1, <2>4 DEF TypeOK, vars
    <2> QED BY <2>2, <2>3, <2>4
  <1>2. TypeOK'
    BY <1>1 DEF ResolutionInv, TypeOK
  <1>3. CopiesRecorded' /\ CacheCurrent' /\ WorkerBased'
    BY <1>1 DEF ResolutionInv, CopiesRecorded, CacheCurrent, WorkerBased
  <1>4. AskedDue' /\ CacheSettled' /\ TimerSet'
    BY <1>1 DEF ResolutionInv, AskedDue, CacheSettled, TimerSet
  <1> QED BY <1>2, <1>3, <1>4 DEF ResolutionInv

\* A user edits the spec, or the job handler records a failure.
LEMMA WriterKeeps ==
    ASSUME ResolutionInv, EditSpec \/ JobFailed
    PROVE  ResolutionInv'
  <1>1. /\ TypeOK /\ plan \in Plan /\ Overtaken
        /\ UNCHANGED <<planQueue, timer, channel, replies, moves>>
        /\ edits' \in 0..MaxEdits /\ faults' \in 0..MaxFaults
    BY BoundsAssumption, FaultType DEF ResolutionInv, TypeOK, EditSpec, JobFailed
  <1>2. /\ plan' \in Plan /\ plan'.status.version = plan.status.version
        /\ plan'.status.resolved = plan.status.resolved
    <2>1. CASE EditSpec
      BY <1>1, <2>1 DEF EditSpec, Plan
    <2>2. CASE JobFailed
      <3> DEFINE c == SetError(plan.status.complete, "JobFailed", "JobFailed", Present)
      <3>1. c \in Condition
        <4>1. "JobFailed" \in Message \cup {NoError} /\ "JobFailed" \in Reason
          BY MessageAssumption DEF Reason
        <4> QED BY <1>1, <4>1, PlanFields, PresentType, SetErrorType
      <3>2. plan' = [plan EXCEPT !.status.complete = c]
        BY <1>1, <2>2 DEF JobFailed, Plan, Status
      <3> HIDE DEF c
      <3> QED BY <1>1, <3>1, <3>2 DEF Plan, Status
    <2> QED BY <2>1, <2>2
  <1>3. /\ planCache' \in Copy /\ planCache'.plan = planCache.plan /\ planCache'.behind
        /\ worker' \in Worker /\ worker'.pc = worker.pc
        /\ worker = Idle => worker' = Idle
        /\ worker # Idle => /\ worker' # Idle
                            /\ worker'.copy.plan = worker.copy.plan /\ worker'.copy.behind
    BY <1>1, OvertakenFields
  <1>4. TypeOK'
    BY <1>1, <1>2, <1>3 DEF TypeOK
  <1>5. CopiesRecorded'
    BY <1>1, <1>2, <1>3 DEF ResolutionInv, CopiesRecorded, Recorded
  <1>6. CacheCurrent' /\ AskedDue' /\ CacheSettled' /\ TimerSet'
    BY <1>1, <1>3 DEF ResolutionInv, CacheCurrent, AskedDue, CacheSettled, TimerSet
  <1>7. WorkerBased'
    <2>1. worker.pc = "asked" => worker # Idle
      BY <1>1, WorkerFields DEF TypeOK
    <2> QED BY <1>3, <2>1 DEF ResolutionInv, WorkerBased
  <1> QED BY <1>4, <1>5, <1>6, <1>7 DEF ResolutionInv

\* The invariant holds at first.
LEMMA InitHolds == Init => ResolutionInv
  <1> SUFFICES ASSUME Init PROVE ResolutionInv
    OBVIOUS
  <1>1. /\ plan.spec \in InitialSpecs /\ plan.status = NewStatus
        /\ plan \in [spec : InitialSpecs, status : {NewStatus}]
        /\ planCache = [plan |-> plan, behind |-> FALSE]
        /\ planQueue = TRUE /\ timer = 0 /\ worker = Idle
        /\ channel \in Response /\ replies = {}
        /\ edits = 0 /\ moves = 0 /\ faults = 0
    BY DEF Init
  <1>2. /\ NewStatus \in Status({})
        /\ NewStatus.resolved.updated = 0 /\ NewStatus.resolved.reason = ""
    BY DEF NewStatus, Status, Absent, Condition, ConditionStatus, Reason, Never, Hash
  <1>3. plan \in Plan
    BY <1>1, <1>2, ResponseAssumption DEF Plan
  <1>4. planCache \in Copy /\ planCache.plan = plan
    BY <1>1, <1>3 DEF Copy
  <1>5. TypeOK
    BY <1>1, <1>3, <1>4, PresentType, BoundsAssumption DEF TypeOK, Worker
  <1>6. CopiesRecorded
    <2>1. 0 <= Present
      BY PresentType
    <2>2. Recorded(NewStatus, replies)
      BY <1>2, <2>1 DEF Recorded
    <2> QED BY <1>1, <1>4, <2>2 DEF CopiesRecorded
  <1> QED BY <1>1, <1>4, <1>5, <1>6 DEF ResolutionInv, CacheCurrent, AskedDue, TimerSet,
             CacheSettled, WorkerBased, Idle

LEMMA ResolutionStep ==
    ASSUME ResolutionInv, [Next]_vars
    PROVE  ResolutionInv'
  BY SyncKeeps, AskKeeps, AnsweredKeeps, GenerateKeeps, TickKeeps, RefreshKeeps, OutsideKeeps,
     WriterKeeps DEF Next, PlanStep

(***************************************************************************)
(* The inductive invariant: what every copy of the plan records, when the  *)
(* cache is up to date, what it then has of the spec, and the delayed key. *)
(***************************************************************************)
THEOREM ResolutionInvariant == Spec => []ResolutionInv
  BY InitHolds, ResolutionStep, PTL DEF Spec

-------------------------------------------------------------------------------
(* The properties. *)

(***************************************************************************)
(* The plan, its copies, the timer and the worker have their types: in     *)
(* particular the delay of a key (handle_upgrade.go:86) is never negative. *)
(***************************************************************************)
THEOREM TypeCorrect == Spec => []TypeOK
  <1>1. ResolutionInv => TypeOK
    BY DEF ResolutionInv
  <1> QED BY <1>1, ResolutionInvariant, PTL

(***************************************************************************)
(* A version with the reason Channel is one that the channel gave, for any *)
(* number of edits, conflicts, restarts and changes of the channel.        *)
(***************************************************************************)
THEOREM ChannelGave == Spec => []ChannelVersionGiven
  <1>1. ResolutionInv => ChannelVersionGiven
    BY DEF ResolutionInv, CopiesRecorded, Recorded, GivenBy, ChannelVersionGiven
  <1> QED BY <1>1, ResolutionInvariant, PTL

(***************************************************************************)
(* A plan polled less than an interval ago has a delayed key that comes    *)
(* before the interval ends (EnqueueAfter, handle_upgrade.go:86).          *)
(***************************************************************************)
THEOREM PollComes == Spec => []NextPollComes
  <1>1. ASSUME ResolutionInv, Quiet, ByChannel(plan), ~PollDue(plan.status, Present)
        PROVE  timer \in 1..(PollingInterval - (Present - plan.status.resolved.updated))
    <2>1. plan \in Plan /\ planCache.plan = plan /\ plan.status.resolved.updated <= Present
      BY <1>1 DEF ResolutionInv, TypeOK, Quiet, CacheCurrent, CopiesRecorded, Recorded
    <2>2. timer \in 1..(plan.status.resolved.updated - 1)
      BY <1>1, <2>1 DEF ResolutionInv, Quiet, TimerSet, Idle
    <2> QED BY <1>1, <2>1, <2>2, YoungLeft
  <1>2. ResolutionInv => NextPollComes
    BY <1>1 DEF NextPollComes
  <1> QED BY <1>2, ResolutionInvariant, PTL

(***************************************************************************)
(* When all is quiet a spec that names a version has it, whatever the      *)
(* channel answered to calls that were under way.                          *)
(***************************************************************************)
THEOREM StaticRules == Spec => []StaticVersionRules
  <1>1. ResolutionInv => StaticVersionRules
    BY DEF ResolutionInv, CacheSettled, CacheCurrent, Settled, Quiet, StaticVersionRules, Idle
  <1> QED BY <1>1, ResolutionInvariant, PTL

(***************************************************************************)
(* No write that comes after a version was given in the spec records an    *)
(* answer of the channel: the write of a sync that asked before the edit   *)
(* is refused (UpdateStatus with the resourceVersion that was read).       *)
(***************************************************************************)
THEOREM NoAnswerLate == Spec => NoLateAnswer
  <1> DEFINE A == plan.spec.version # NoVersion /\ plan'.status.version # plan.status.version =>
                    plan'.status.version = MungeVersion(plan.spec.version)
  <1>1. ASSUME ResolutionInv, [Next]_vars PROVE [A]_vars
    <2> SUFFICES ASSUME plan.spec.version # NoVersion,
                        plan'.status.version # plan.status.version
                 PROVE  plan'.status.version = MungeVersion(plan.spec.version)
      OBVIOUS
    <2>1. /\ TypeOK /\ plan \in Plan /\ planCache \in Copy /\ worker \in Worker
          /\ planCache.plan \in Plan /\ replies \subseteq Response
      BY <1>1 DEF ResolutionInv, TypeOK, Copy
    <2>2. CASE Sync
      <3> DEFINE out == StatusOutcome(planCache.plan, NoAnswer)
      <3>1. /\ out.status \in Status({}) /\ out.err \in BOOLEAN
            /\ planCache.plan.spec.version # NoVersion =>
                 out.status.version \in {planCache.plan.status.version,
                                         MungeVersion(planCache.plan.spec.version)}
        <4>1. Recorded(planCache.plan.status, replies) /\ NoAnswer \in RawVersion \cup {NoAnswer}
          BY <1>1 DEF ResolutionInv, CopiesRecorded
        <4> QED BY <2>1, <4>1, OutcomeRecorded
      <3>2. Continue(planCache, out)
        BY <2>2 DEF Sync
      <3> HIDE DEF out
      <3>3. (~planCache.behind /\ plan'.status = out.status) \/ plan' = plan
        BY <2>1, <3>1, <3>2, ContinueFields
      <3>4. ~planCache.behind => planCache.plan = plan
        BY <1>1 DEF ResolutionInv, CacheCurrent
      <3> QED BY <3>1, <3>3, <3>4
    <2>3. CASE Answered
      <3> DEFINE out == StatusOutcome(worker.copy.plan, ResolveChannel(channel))
      <3>1. Continue(worker.copy, out) /\ worker.pc = "asked"
        BY <2>3 DEF Answered
      <3>2. worker # Idle /\ worker.copy \in Copy
        BY <2>1, <3>1, WorkerFields
      <3>3. worker.copy.behind
        BY <1>1, <3>1, <3>2 DEF ResolutionInv, WorkerBased, ByChannel, Copy
      <3>4. plan' = plan
        BY <3>1, <3>3 DEF Continue, Accepted, Written, NotWritten
      <3> QED BY <3>4
    <2>4. CASE Generate
      BY <1>1, <2>1, <2>4, GenerateFields DEF ResolutionInv, WorkerBased
    <2>5. CASE Tick
      BY <2>1, <2>5, TickFields, OlderFields
    <2>6. CASE EditSpec \/ JobFailed
      BY <2>1, <2>6 DEF EditSpec, JobFailed, Plan, Status
    <2>7. CASE Ask \/ Watch \/ Poke \/ Restart \/ ChannelMoves \/ UNCHANGED vars
      BY <2>7 DEF Ask, Watch, Poke, Restart, ChannelMoves, vars
    <2> QED BY <1>1, <2>2, <2>3, <2>4, <2>5, <2>6, <2>7 DEF Next, PlanStep
  <1>2. Spec => [][A]_vars
    BY <1>1, ResolutionInvariant, PTL DEF Spec
  <1> QED BY <1>2 DEF NoLateAnswer
===============================================================================
