-------------------------------- MODULE JobSpec -------------------------------
(***************************************************************************)
(* What pkg/upgrade/job puts into the Job that applies a plan on a node:   *)
(* its times, the order of its containers and the pods it keeps away, from *)
(* the plan's spec and the controller's environment.                       *)
(*                                                                         *)
(* An optional value is a set with no or one member.  Durations are in the *)
(* units in which Second and Minute are given; TTLs and deadlines are in   *)
(* seconds.  Delays are taken to be so short that no int32 overflows.      *)
(***************************************************************************)
EXTENDS Integers, Sequences

CONSTANTS
    Second, Minute,             \* in units of durations
    TTLSetting,                 \* SYSTEM_UPGRADE_JOB_TTL_SECONDS_AFTER_FINISH, if it is a number
    DeadlineSetting,            \* SYSTEM_UPGRADE_JOB_ACTIVE_DEADLINE_SECONDS, if it is a number
    DeadlineMaxSetting,         \* SYSTEM_UPGRADE_JOB_ACTIVE_DEADLINE_SECONDS_MAX, if it is a number
    DefaultTTL, DefaultDeadline \* the defaults of the first two; the third has 0, no maximum

ASSUME DurationAssumption ==
    /\ Second \in Nat \ {0} /\ Minute \in Nat /\ Minute >= Second
    /\ DefaultTTL \in Nat /\ DefaultDeadline \in Nat

\* At most one member.
Optional(set) == \A a, b \in set : a = b

ASSUME SettingAssumption ==
    \A setting \in {TTLSetting, DeadlineSetting, DeadlineMaxSetting} :
        setting \subseteq Int /\ Optional(setting)

The(optional) == CHOOSE x \in optional : TRUE

\* A variable that is not set, or does not parse, leaves the default.
FromEnvironment(parsed, default) == IF parsed = {} THEN default ELSE The(parsed)

TTLSecondsAfterFinished == FromEnvironment(TTLSetting, DefaultTTL)
ActiveDeadlineSeconds == FromEnvironment(DeadlineSetting, DefaultDeadline)
ActiveDeadlineSecondsMax == FromEnvironment(DeadlineMaxSetting, 0)

-------------------------------------------------------------------------------
\* Mutant of TTL: the plan's delay is not considered.
TTLWithoutDelay(delay) == TTLSecondsAfterFinished

\* A finished job is kept for a minute longer than the plan's postCompleteDelay.
TTL(delay) ==
    IF \E d \in delay : TTLSecondsAfterFinished * Second < d + Minute
      THEN (The(delay) + Minute) \div Second
      ELSE TTLSecondsAfterFinished

\* The job handler takes the TTL from the job, or from its annotation where the API
\* server does not know the field; without either, or with an annotation that is not a
\* number, the job goes at once.
EffectiveTTL(field, annotation) ==
    IF field # {} THEN The(field) ELSE IF annotation # {} THEN The(annotation) ELSE 0

\* 0 asks for no deadline, a negative number or nothing for the controller's default; a
\* maximum bounds them all, and no deadline too.
ActiveDeadline(jobActiveDeadlineSecs) ==
    LET asked == IF \E s \in jobActiveDeadlineSecs : s >= 0
                   THEN jobActiveDeadlineSecs \ {0}
                   ELSE {ActiveDeadlineSeconds}
        max == ActiveDeadlineSecondsMax
    IN  IF max > 0 /\ (asked = {} \/ \E s \in asked : s > max) THEN {max} ELSE asked

-------------------------------------------------------------------------------
\* The spec of a plan, as far as it matters here.
JobShape == [exclusive : BOOLEAN, prepare : BOOLEAN, cordon : BOOLEAN, drain : BOOLEAN,
             delay : SUBSET Nat, jobActiveDeadlineSecs : SUBSET Int]

Cordons(spec) == spec.cordon \/ spec.drain

\* Mutant of Containers: the upgrade comes before the node is cordoned.
ContainersUpgradeFirst(spec) ==
    <<"upgrade">> \o (IF spec.drain THEN <<"drain">> ELSE IF spec.cordon THEN <<"cordon">> ELSE <<>>)

\* Mutant of Containers: the node is cordoned although it is drained.
ContainersBoth(spec) ==
    (IF spec.prepare THEN <<"prepare">> ELSE <<>>)
    \o (IF spec.drain THEN <<"drain">> ELSE <<>>) \o (IF spec.cordon THEN <<"cordon">> ELSE <<>>)
    \o <<"upgrade">>

\* The containers of the pod in the order in which they run, one after the other.
Containers(spec) ==
    (IF spec.prepare THEN <<"prepare">> ELSE <<>>)
    \o (IF spec.drain THEN <<"drain">> ELSE IF spec.cordon THEN <<"cordon">> ELSE <<>>)
    \o <<"upgrade">>

\* Mutant of KeepsAway: an exclusive plan is treated like any other.
KeepsAwayOwn(plan, spec, otherPlan, otherSpec) == plan = otherPlan

\* The anti-affinity of a pod of plan: it is not put on a node with a pod of the same plan
\* or, if it is exclusive, with a pod of any exclusive plan.
KeepsAway(plan, spec, otherPlan, otherSpec) ==
    IF spec.exclusive THEN otherSpec.exclusive ELSE plan = otherPlan
===============================================================================
