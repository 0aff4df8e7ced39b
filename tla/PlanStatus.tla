------------------------------ MODULE PlanStatus ------------------------------
(***************************************************************************)
(* What the plan status handler computes from a Plan and the secrets it    *)
(* refers to: validation, the latest version, and the digest that names a  *)
(* rollout (pkg/upgrade/handle_upgrade.go, pkg/upgrade/plan/plan.go).      *)
(*                                                                         *)
(* A plan refers to at most one secret.  A digest is the tuple of what is  *)
(* hashed: SHA-224 is taken to be free of collisions, and the service      *)
(* account, which does not change here, is left out.                       *)
(***************************************************************************)
EXTENDS Conditions, Integers

CONSTANTS
    RawVersion,         \* versions as a spec or a channel gives them
    Version,            \* versions with "+" replaced by "-"
    Munge,              \* the replacement, as a function
    Upgrade,            \* the contents of .spec.upgrade
    Secret,             \* the contents of the secret
    PollingInterval     \* PollingInterval, in units of the clock

NoVersion == ""
Missing == "missing"    \* the secret does not exist
NotHashed == "none"     \* a part that this plan's digest leaves out

ASSUME VersionAssumption ==
    /\ NoVersion \notin RawVersion
    /\ NoVersion \notin Version
    /\ Munge \in [RawVersion -> Version]

ASSUME SecretAssumption == Missing \notin Secret

ASSUME PollingIntervalAssumption == PollingInterval \in Nat

\* The part of .spec that the controller's control flow depends on.
PlanSpec == [version : RawVersion \cup {NoVersion},
             channel : BOOLEAN,                     \* is a channel set?
             valid : BOOLEAN,                       \* drain, window and delay are well formed
             selectable : BOOLEAN,                  \* nodeSelector is a valid selector
             secret : {"none", "watched", "ignored"},
             annotated : BOOLEAN,                   \* .spec.upgrade is included in the digest
             upgrade : Upgrade,
             cordon : BOOLEAN,                      \* cordon or drain
             concurrency : Int,
             window : BOOLEAN,
             delay : BOOLEAN]                       \* postCompleteDelay is positive

NoHash == <<>>

Digest(version, secret, upgrade) == <<version, secret, upgrade>>

Hash == {NoHash} \cup ((Version \cup {NoVersion})
                         \X (Secret \cup {NotHashed}) \X (Upgrade \cup {NotHashed}))

\* The status of a plan whose nodes have the given hostnames.
Status(hostnames) == [validated : Condition, resolved : Condition, complete : Condition,
                      version : Version \cup {NoVersion}, hash : Hash,
                      applying : SUBSET hostnames]

NewStatus == [validated |-> Absent, resolved |-> Absent, complete |-> Absent,
              version |-> NoVersion, hash |-> NoHash, applying |-> {}]

-------------------------------------------------------------------------------
\* Mutant of MungeVersion: the version is used as it is.
MungeNothing(version) == version

MungeVersion(version) == Munge[version]

\* The error of plan.Validate, given the secret in the cache when it reads it.
Validate(spec, secret) ==
    IF ~spec.valid THEN "Invalid"
    ELSE IF spec.secret = "watched" /\ secret = Missing THEN "SecretMissing"
    ELSE NoError

\* The status a handler leaves in the object, and whether it returned an error.
Outcome(status, err) == [status |-> status, err |-> err]

DigestStatus(spec, status, secret) ==
    IF status.resolved.reason = "Error" THEN Outcome(status, FALSE)
    ELSE IF spec.secret = "watched" /\ secret = Missing THEN Outcome(status, TRUE)
    ELSE Outcome([status EXCEPT !.hash =
                    Digest(status.version,
                           IF spec.secret = "watched" THEN secret ELSE NotHashed,
                           IF spec.annotated THEN spec.upgrade ELSE NotHashed)],
                 FALSE)

\* Mutant of Resolve: the plan is not made incomplete.
ResolveSilently(status, latest, reason, now) ==
    [status EXCEPT !.version = latest, !.resolved = SetError(@, reason, NoError, now)]

\* Mutant of Resolve: a plan that has a version keeps it.
ResolveOnce(status, latest, reason, now) ==
    IF IsTrue(status.resolved) THEN status
    ELSE [status EXCEPT !.version = latest, !.resolved = SetError(@, reason, NoError, now)]

\* Record latest as the resolved version; a change makes the plan incomplete.
Resolve(status, latest, reason, now) ==
    LET changed == ~IsTrue(status.resolved) \/ status.version # latest
    IN  [status EXCEPT
           !.complete = IF changed THEN Reset(@, "Resolved", now) ELSE @,
           !.version = latest,
           !.resolved = SetError(@, reason, NoError, now)]

\* Both conditions exist from the first sync on; validation sets its own.
Validated(spec, status, secret, now) ==
    LET err == Validate(spec, secret)
    IN  [status EXCEPT
           !.complete = CreateUnknownIfNotExists(@),
           !.validated = SetError(@, IF err = NoError THEN "PlanIsValid" ELSE "Error", err, now),
           !.resolved = IF err = NoError THEN CreateUnknownIfNotExists(@) ELSE @]

\* A resolved version that is younger than the polling interval is not polled again.
PollDue(status, now) ==
    \/ ~IsTrue(status.resolved)
    \/ status.resolved.updated = Never
    \/ now - status.resolved.updated >= PollingInterval

NoAnswer == "no answer"     \* ResolveChannel returned an error

(***************************************************************************)
(* The whole status handler.  The secret is read twice, by Validate and by *)
(* DigestStatus; answer is what the channel would say if it were polled.   *)
(***************************************************************************)
StatusHandler(spec, status, atValidate, atDigest, answer, now) ==
    LET st == Validated(spec, status, atValidate, now)
    IN  IF Validate(spec, atValidate) # NoError
          THEN DigestStatus(spec, st, atDigest)
        ELSE IF spec.version = NoVersion /\ ~spec.channel
          THEN DigestStatus(spec, [st EXCEPT !.resolved =
                                     SetError(@, "Error", "Unresolvable", now)], atDigest)
        ELSE IF spec.version # NoVersion
          THEN DigestStatus(spec, Resolve(st, MungeVersion(spec.version), "Version", now), atDigest)
        ELSE IF ~PollDue(st, now)
          THEN Outcome(st, FALSE)
        ELSE IF answer = NoAnswer
          THEN Outcome(st, TRUE)
        ELSE DigestStatus(spec, Resolve(st, MungeVersion(answer), "Channel", now), atDigest)
===============================================================================
