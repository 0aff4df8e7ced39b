---------------------------- MODULE PlanResolution ----------------------------
(***************************************************************************)
(* How a Plan finds its version while time passes: the polling of a        *)
(* release channel by the plan status handler, whose call to the channel   *)
(* takes any length of time while users and other handlers write the plan. *)
(*                                                                         *)
(* The present is always the same number, and time passes by making what   *)
(* was recorded older, up to the polling interval: the code only compares  *)
(* ages with that.  Of a resourceVersion the code uses whether it is the   *)
(* current one, so the copies of the plan say whether they are behind.     *)
(***************************************************************************)
EXTENDS PlanStatus

CONSTANTS
    Specs,              \* the plan specs a user may write
    InitialSpecs,       \* the ones the plan may have at first
    Response,           \* what the channel may reply: an HTTP status and a location
    UrlBase,            \* the last element of the channel's URL
    IntervalSetting,    \* SYSTEM_UPGRADE_PLAN_POLLING_INTERVAL: no duration, or one
    DefaultInterval, Minute,
    MaxEdits,           \* bound: edits of the spec
    MaxMoves,           \* bound: changes of what the channel replies
    MaxFaults           \* bound: restarts, failed jobs, failed writes

\* The interval is the duration that was set, if it is one and longer than a minute.
IntervalFrom(setting) ==
    IF \E d \in setting : d > Minute THEN CHOOSE d \in setting : d > Minute ELSE DefaultInterval

ASSUME IntervalAssumption ==
    PollingInterval = IntervalFrom(IntervalSetting) /\ PollingInterval > 0

ASSUME ResponseAssumption ==
    /\ Specs \subseteq PlanSpec /\ InitialSpecs \subseteq Specs
    /\ \A s \in Specs : s.secret = "none" /\ s.selectable /\ ~s.window
    /\ UrlBase \in RawVersion
    /\ Response \subseteq [code : Nat, location : RawVersion]

ASSUME MessageAssumption ==
    {"Invalid", "SecretMissing", "Unresolvable", "NotReady", "JobFailed"} \subseteq Message

ASSUME BoundsAssumption == MaxEdits \in Nat /\ MaxMoves \in Nat /\ MaxFaults \in Nat

VARIABLES
    plan,       \* the Plan at the API server: its spec and its status
    planCache,  \* the Plan in the informer's cache, and whether it is behind
    planQueue,  \* is the plan's key in its work queue?
    timer,      \* how long until the delayed key is queued; 0 if there is none
    worker,     \* the plan controller's worker, between the steps of one sync
    channel,    \* what the channel replies
    replies,    \* history: what the channel replied
    edits, moves, faults

vars == <<plan, planCache, planQueue, timer, worker, channel, replies, edits, moves, faults>>

Plan == [spec : Specs, status : Status({})]
Copy == [plan : Plan, behind : BOOLEAN]

Idle == [pc |-> "idle"]
Worker == {Idle} \cup [pc : {"asked", "generate"}, copy : Copy, err : BOOLEAN]

TypeOK ==
    /\ plan \in Plan /\ planCache \in Copy
    /\ planQueue \in BOOLEAN /\ timer \in 0..PollingInterval
    /\ worker \in Worker
    /\ channel \in Response /\ replies \subseteq Response
    /\ edits \in 0..MaxEdits /\ moves \in 0..MaxMoves /\ faults \in 0..MaxFaults

Init ==
    /\ plan \in [spec : InitialSpecs, status : {NewStatus}]
    /\ planCache = [plan |-> plan, behind |-> FALSE]
    /\ planQueue = TRUE /\ timer = 0 /\ worker = Idle
    /\ channel \in Response /\ replies = {}
    /\ edits = 0 /\ moves = 0 /\ faults = 0

Present == PollingInterval + 1

-------------------------------------------------------------------------------
(* One sync of the plan. *)

\* Mutant of ResolveChannel: a reply that is an error names a version too.
ResolveAnyReply(reply) == IF reply.code = 302 THEN reply.location ELSE UrlBase

\* A 302 names the version by its location; any other status from 200 to 399 makes it the
\* last element of the URL.
ResolveChannel(reply) ==
    IF reply.code = 302 THEN reply.location
    ELSE IF reply.code \div 200 = 1 THEN UrlBase
    ELSE NoAnswer

\* Does the status handler get as far as the age of the resolved version?
ByChannel(p) ==
    Validate(p.spec, Missing) = NoError /\ p.spec.version = NoVersion /\ p.spec.channel

Polls(p) == ByChannel(p) /\ PollDue(Validated(p.spec, p.status, Missing, Present), Present)

StatusOutcome(p, answer) == StatusHandler(p.spec, p.status, Missing, Missing, answer, Present)

\* Mutant of Accepted: the write does not name the resourceVersion it is based on.
AcceptedAlways(copy) == TRUE

\* A write is accepted when the copy it is based on is not behind.
Accepted(copy) == ~copy.behind

\* Mutant of Write: the new status is not sent.
WriteNothing(status) == UNCHANGED <<plan, planCache>>

\* The write makes the other copies of the plan behind.
Write(status) ==
    /\ plan' = [plan EXCEPT !.status = status]
    /\ planCache' = [planCache EXCEPT !.behind = TRUE]

Fault == faults < MaxFaults /\ faults' = faults + 1

Written(copy, status) == Accepted(copy) /\ Write(status)

\* A write is refused when the copy is behind, and may fail when it is not.
NotWritten(copy) ==
    /\ UNCHANGED <<plan, planCache>>
    /\ IF Accepted(copy) THEN Fault ELSE UNCHANGED faults

\* The status handler has returned: its status is written if it differs, and the
\* generating handler goes on with the object, after an error too.  When only the answer
\* to the write is lost, that object is behind.
Continue(copy, out) ==
    LET changed == ~out.err /\ out.status # copy.plan.status
        kept == [copy EXCEPT !.plan.status = out.status]
        Goes(c, err) == worker' = [pc |-> "generate", copy |-> c, err |-> err]
    IN  \/ ~changed /\ UNCHANGED <<plan, planCache, faults>> /\ Goes(kept, out.err)
        \/ /\ changed /\ Written(copy, out.status)
           /\ \/ UNCHANGED faults /\ Goes(kept, FALSE)
              \/ Fault /\ Goes([kept EXCEPT !.behind = TRUE], TRUE)
        \/ changed /\ NotWritten(copy) /\ Goes(kept, TRUE)

\* Mutant of Delay: the key is not queued for the next interval.
DelayNothing(status) == timer

\* A delayed key is queued at the earliest of the times asked for.
Delay(status) ==
    LET left == PollingInterval - (Present - status.resolved.updated)
    IN  IF timer = 0 \/ left < timer THEN left ELSE timer

\* A sync that does not poll runs the status handler to its end.
Sync ==
    /\ worker = Idle /\ planQueue /\ ~Polls(planCache.plan)
    /\ planQueue' = FALSE
    /\ timer' = IF ByChannel(planCache.plan) THEN Delay(planCache.plan.status) ELSE timer
    /\ Continue(planCache, StatusOutcome(planCache.plan, NoAnswer))
    /\ UNCHANGED <<channel, replies, edits, moves>>

\* A sync that polls waits for the channel with the plan it has read.
Ask ==
    /\ worker = Idle /\ planQueue /\ Polls(planCache.plan)
    /\ planQueue' = FALSE
    /\ worker' = [pc |-> "asked", copy |-> planCache, err |-> FALSE]
    /\ UNCHANGED <<plan, planCache, timer, channel, replies, edits, moves, faults>>

Answered ==
    /\ worker.pc = "asked"
    /\ Continue(worker.copy, StatusOutcome(worker.copy.plan, ResolveChannel(channel)))
    /\ replies' = replies \cup {channel}
    /\ UNCHANGED <<planQueue, timer, channel, edits, moves>>

\* What the generating handler makes of the Complete condition: not ready; else an
\* error, nothing new, jobs that are synced, or nothing left to do.
Generated(status) ==
    IF ~IsTrue(status.validated) \/ ~IsTrue(status.resolved)
      THEN {SetError(status.complete, "NotReady", "NotReady", Present)}
      ELSE {status.complete,
            Reset(status.complete, "SyncJob", Present),
            SetError(status.complete, "Complete", NoError, Present)}

Generate ==
    /\ worker.pc = "generate"
    /\ \E complete \in Generated(worker.copy.plan.status) :
         LET status == [worker.copy.plan.status EXCEPT !.complete = complete]
             changed == status # worker.copy.plan.status
         IN  \/ /\ ~changed /\ UNCHANGED <<plan, planCache, faults>>
                /\ planQueue' = (planQueue \/ worker.err)
             \/ /\ changed /\ Written(worker.copy, status)
                /\ \/ UNCHANGED faults /\ planQueue' = (planQueue \/ worker.err)
                   \/ Fault /\ planQueue' = TRUE
             \/ changed /\ NotWritten(worker.copy) /\ planQueue' = TRUE
    /\ worker' = Idle
    /\ UNCHANGED <<timer, channel, replies, edits, moves>>

-------------------------------------------------------------------------------
(* Everything else: time, the informer, other writers, the channel. *)

Older(p) == [p EXCEPT !.status.resolved.updated = IF @ > 1 THEN @ - 1 ELSE @]

\* The delayed key is queued when its time has come.
Tick ==
    /\ plan' = Older(plan)
    /\ planCache' = [planCache EXCEPT !.plan = Older(@)]
    /\ worker' = IF worker = Idle THEN Idle ELSE [worker EXCEPT !.copy.plan = Older(@)]
    /\ timer' = IF timer = 0 THEN 0 ELSE timer - 1
    /\ planQueue' = (planQueue \/ timer = 1)
    /\ UNCHANGED <<channel, replies, edits, moves, faults>>

Watch ==
    /\ planCache.behind
    /\ planCache' = [plan |-> plan, behind |-> FALSE] /\ planQueue' = TRUE
    /\ UNCHANGED <<plan, timer, worker, channel, replies, edits, moves, faults>>

\* Events of nodes, jobs and secrets, and the periodic resync, queue the plan.
Poke ==
    /\ ~planQueue /\ planQueue' = TRUE
    /\ UNCHANGED <<plan, planCache, timer, worker, channel, replies, edits, moves, faults>>

\* Another client has written the plan.
Overtaken ==
    /\ planCache' = [planCache EXCEPT !.behind = TRUE]
    /\ worker' = IF worker = Idle THEN Idle ELSE [worker EXCEPT !.copy.behind = TRUE]

EditSpec ==
    /\ edits < MaxEdits /\ edits' = edits + 1
    /\ \E s \in Specs \ {plan.spec} : plan' = [plan EXCEPT !.spec = s]
    /\ Overtaken
    /\ UNCHANGED <<planQueue, timer, channel, replies, moves, faults>>

\* The job handler records a job that failed.
JobFailed ==
    /\ Fault
    /\ plan' = [plan EXCEPT !.status.complete = SetError(@, "JobFailed", "JobFailed", Present)]
    /\ plan' # plan
    /\ Overtaken
    /\ UNCHANGED <<planQueue, timer, channel, replies, edits, moves>>

\* Delayed keys are lost with the process; the new one queues the plan.
Restart ==
    /\ Fault
    /\ worker' = Idle /\ timer' = 0
    /\ planCache' = [plan |-> plan, behind |-> FALSE] /\ planQueue' = TRUE
    /\ UNCHANGED <<plan, channel, replies, edits, moves>>

ChannelMoves ==
    /\ moves < MaxMoves /\ moves' = moves + 1
    /\ channel' \in Response \ {channel}
    /\ UNCHANGED <<plan, planCache, planQueue, timer, worker, replies, edits, faults>>

PlanStep == Sync \/ Ask \/ Answered \/ Generate

Next == PlanStep \/ Tick \/ Watch \/ Poke \/ EditSpec \/ JobFailed \/ Restart \/ ChannelMoves

Spec == Init /\ [][Next]_vars

\* The worker runs while there is work, a call to the channel ends, the watch delivers,
\* time passes, and the resync is periodic.
Fairness == WF_vars(PlanStep) /\ WF_vars(Watch) /\ WF_vars(Tick) /\ SF_vars(Poke)

FairSpec == Spec /\ Fairness

-------------------------------------------------------------------------------
(* Properties. *)

\* A version that the plan says it has from its channel, whatever was written, retried or
\* restarted since, is one that the channel gave: the location of a 302, or the name of
\* the channel itself for a reply that is neither a 302 nor an error.
ChannelVersionGiven ==
    plan.status.resolved.reason = "Channel" =>
        \E r \in replies :
            \/ r.code = 302 /\ plan.status.version = MungeVersion(r.location)
            \/ r.code \in (200..399) \ {302} /\ plan.status.version = MungeVersion(UrlBase)

\* Nothing is queued or under way, and the cache is up to date.
Quiet == worker = Idle /\ ~planQueue /\ ~planCache.behind

\* A plan whose channel was polled less than an interval ago will be synced when the
\* interval ends: the delayed key survives writes, conflicts, edits and restarts.
NextPollComes ==
    /\ Quiet /\ ByChannel(plan)
    /\ IsTrue(plan.status.resolved) /\ ~PollDue(plan.status, Present)
    => timer \in 1..(PollingInterval - (Present - plan.status.resolved.updated))

\* When all is quiet, the version and the hash are those of the spec, if that names one:
\* whatever the channel answered to a call that was under way when the spec was edited.
StaticVersionRules ==
    Quiet /\ plan.spec.version # NoVersion /\ IsTrue(plan.status.validated) =>
        /\ plan.status.version = MungeVersion(plan.spec.version)
        /\ plan.status.hash[1] = plan.status.version

\* "Providing a value for version will prevent polling/resolution of the channel": no
\* write that comes after the edit records an answer of the channel.
NoLateAnswer ==
    [][plan.spec.version # NoVersion /\ plan'.status.version # plan.status.version =>
         plan'.status.version = MungeVersion(plan.spec.version)]_vars

\* A version that the channel keeps giving becomes the plan's, and is kept.
FollowsChannel ==
    \A r \in Response :
        LET v == ResolveChannel(r)
        IN  <>[](channel = r /\ v # NoAnswer /\ ByChannel(plan)) =>
                <>[](v # NoAnswer => plan.status.version = MungeVersion(v))
===============================================================================
