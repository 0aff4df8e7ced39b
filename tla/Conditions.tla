------------------------------ MODULE Conditions ------------------------------
(***************************************************************************)
(* The status conditions of a Plan, as pkg/apis/condition reads and writes *)
(* them.  A condition is found by its type in the list of conditions; here *)
(* each type has a field of its own that is Absent until it is created.    *)
(*                                                                         *)
(* Times are natural numbers; a condition that was only created has no     *)
(* LastUpdateTime (the empty string in the code, which does not parse).    *)
(***************************************************************************)
EXTENDS Naturals

CONSTANT Message        \* the texts of errors

\* A nil error, and the text it leaves in a condition.
NoError == ""

ASSUME ErrorAssumption == NoError \notin Message

Never == 0

ConditionStatus == {"", "Unknown", "True", "False"}

Reason == {"", "PlanIsValid", "Error", "Version", "Channel", "Resolved",
           "NotReady", "Waiting", "SyncJob", "Complete", "JobFailed"}

Condition == [status : ConditionStatus, reason : Reason,
              message : Message \cup {NoError}, updated : Nat]

Absent == [status |-> "", reason |-> "", message |-> NoError, updated |-> Never]

\* Status and message touch LastUpdateTime, and only when they change.
SetStatus(c, status, now) ==
    IF c.status = status THEN c
    ELSE [c EXCEPT !.status = status, !.updated = now]

SetMessage(c, message, now) ==
    IF c.message = message THEN c
    ELSE [c EXCEPT !.message = message, !.updated = now]

\* The reason never touches LastUpdateTime.
SetReason(c, reason) == [c EXCEPT !.reason = reason]

\* A condition created by a lookup starts as Unknown, with no time.
FindOrCreate(c) == IF c.status = "" THEN [Absent EXCEPT !.status = "Unknown"] ELSE c

CreateUnknownIfNotExists(c) == FindOrCreate(c)

SetError(c, reason, err, now) ==
    LET status == IF err = NoError THEN "True" ELSE "False"
    IN  SetReason(SetMessage(SetStatus(FindOrCreate(c), status, now), err, now), reason)

\* The three calls False, Message "" and Reason that reset a condition.
Reset(c, reason, now) ==
    SetReason(SetMessage(SetStatus(FindOrCreate(c), "False", now), NoError, now), reason)

IsTrue(c) == c.status = "True"
===============================================================================
