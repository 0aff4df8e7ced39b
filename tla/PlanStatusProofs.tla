---------------------------- MODULE PlanStatusProofs --------------------------
(***************************************************************************)
(* What the plan status handler leaves in a status, for every plan, secret *)
(* and answer of the channel: its type, that the digest names the version, *)
(* and that a plan stays complete only with the version it was complete    *)
(* for.                                                                    *)
(***************************************************************************)
EXTENDS PlanStatus, TLAPS

\* The texts that the status handler writes.
Texts == {"Invalid", "SecretMissing", "Unresolvable"}

\* Each setter writes its own field and leaves a condition.
LEMMA SetStatusType ==
    ASSUME NEW c \in Condition, NEW status \in ConditionStatus, NEW now \in Nat
    PROVE  SetStatus(c, status, now) \in Condition /\ SetStatus(c, status, now).status = status
  BY DEF Condition, SetStatus

\* A message that is set leaves the status alone.
LEMMA SetMessageType ==
    ASSUME NEW c \in Condition, NEW text \in Message \cup {NoError}, NEW now \in Nat
    PROVE  SetMessage(c, text, now) \in Condition /\ SetMessage(c, text, now).status = c.status
  BY DEF Condition, SetMessage

\* A reason that is set leaves the status alone.
LEMMA SetReasonType ==
    ASSUME NEW c \in Condition, NEW reason \in Reason
    PROVE  /\ SetReason(c, reason) \in Condition
           /\ SetReason(c, reason).status = c.status
           /\ SetReason(c, reason).reason = reason
  BY DEF Condition, SetReason

\* A condition that is looked up is created as Unknown; one that exists is kept.
LEMMA CreateType ==
    ASSUME NEW c \in Condition
    PROVE  /\ CreateUnknownIfNotExists(c) \in Condition
           /\ FindOrCreate(c) \in Condition
           /\ IsTrue(CreateUnknownIfNotExists(c)) <=> IsTrue(c)
           /\ c.status # "" => CreateUnknownIfNotExists(c) = c
  BY DEF Condition, ConditionStatus, Reason, CreateUnknownIfNotExists, FindOrCreate, Absent,
         IsTrue, NoError, Never

\* SetError writes a condition, which is True exactly when there is no error.
LEMMA SetErrorType ==
    ASSUME NEW c \in Condition, NEW reason \in Reason,
           NEW err \in Message \cup {NoError}, NEW now \in Nat
    PROVE  /\ SetError(c, reason, err, now) \in Condition
           /\ IsTrue(SetError(c, reason, err, now)) <=> err = NoError
           /\ SetError(c, reason, err, now).reason = reason
  <1> DEFINE status == IF err = NoError THEN "True" ELSE "False"
             a == FindOrCreate(c)
             b == SetStatus(a, status, now)
             d == SetMessage(b, err, now)
  <1>1. a \in Condition
    BY CreateType
  <1>2. status \in ConditionStatus
    BY DEF ConditionStatus
  <1> HIDE DEF status, a
  <1>3. b \in Condition /\ b.status = status
    BY <1>1, <1>2, SetStatusType
  <1> HIDE DEF b
  <1>4. d \in Condition /\ d.status = status
    BY <1>3, SetMessageType
  <1> HIDE DEF d
  <1>5. /\ SetReason(d, reason) \in Condition
        /\ SetReason(d, reason).status = status
        /\ SetReason(d, reason).reason = reason
    BY <1>4, SetReasonType
  <1>6. SetError(c, reason, err, now) = SetReason(d, reason)
    BY DEF SetError, status, a, b, d
  <1> QED BY <1>5, <1>6 DEF status, IsTrue

\* Reset writes a condition that is not True.
LEMMA ResetType ==
    ASSUME NEW c \in Condition, NEW reason \in Reason, NEW now \in Nat
    PROVE  Reset(c, reason, now) \in Condition /\ ~IsTrue(Reset(c, reason, now))
  <1> DEFINE a == FindOrCreate(c)
             b == SetStatus(a, "False", now)
             d == SetMessage(b, NoError, now)
  <1>1. a \in Condition
    BY CreateType
  <1> HIDE DEF a
  <1>2. b \in Condition /\ b.status = "False"
    BY <1>1, SetStatusType DEF ConditionStatus
  <1> HIDE DEF b
  <1>3. d \in Condition /\ d.status = "False"
    BY <1>2, SetMessageType
  <1> HIDE DEF d
  <1>4. SetReason(d, reason) \in Condition /\ SetReason(d, reason).status = "False"
    BY <1>3, SetReasonType
  <1>5. Reset(c, reason, now) = SetReason(d, reason)
    BY DEF Reset, a, b, d
  <1> QED BY <1>4, <1>5 DEF IsTrue

\* The digest, when it is taken, names the version of the status; nothing else changes.
LEMMA DigestType ==
    ASSUME NEW H, NEW spec \in PlanSpec, NEW status \in Status(H),
           NEW secret \in Secret \cup {Missing}
    PROVE  LET out == DigestStatus(spec, status, secret)
           IN  /\ out.status \in Status(H) /\ out.err \in BOOLEAN
               /\ out.status = [status EXCEPT !.hash = out.status.hash]
               /\ \/ out.status.hash = status.hash
                  \/ out.status.hash # NoHash /\ out.status.hash[1] = status.version
               /\ ~out.err /\ status.resolved.reason # "Error"
                    => out.status.hash # NoHash /\ out.status.hash[1] = status.version
               /\ out.err => out.status = status
               /\ spec.secret = "watched" /\ secret # Missing => ~out.err
               /\ spec.secret # "watched" => ~out.err
  <1> DEFINE digest == Digest(status.version,
                              IF spec.secret = "watched" THEN secret ELSE NotHashed,
                              IF spec.annotated THEN spec.upgrade ELSE NotHashed)
  <1>1. CASE status.resolved.reason = "Error" \/ (spec.secret = "watched" /\ secret = Missing)
    BY <1>1 DEF DigestStatus, Outcome, Status
  <1>2. CASE ~(status.resolved.reason = "Error" \/ (spec.secret = "watched" /\ secret = Missing))
    <2>1. digest \in Hash /\ digest # NoHash /\ digest[1] = status.version
      BY <1>2 DEF Digest, Hash, NoHash, Status, PlanSpec
    <2>2. DigestStatus(spec, status, secret) = Outcome([status EXCEPT !.hash = digest], FALSE)
      BY <1>2 DEF DigestStatus
    <2> QED BY <2>1, <2>2 DEF Outcome, Status
  <1> QED BY <1>1, <1>2

\* A plan that validates has the secret that it watches.
LEMMA ValidateType ==
    ASSUME NEW spec, NEW secret
    PROVE  /\ Validate(spec, secret) \in Texts \cup {NoError}
           /\ Validate(spec, secret) = NoError =>
                (spec.secret = "watched" => secret # Missing)
  BY DEF Validate, Texts, NoError

\* Creating the conditions and validating touches nothing else.
LEMMA ValidatedType ==
    ASSUME Texts \subseteq Message,
           NEW H, NEW spec \in PlanSpec, NEW status \in Status(H), NEW secret, NEW now \in Nat
    PROVE  LET st == Validated(spec, status, secret, now)
           IN  /\ st \in Status(H)
               /\ st.version = status.version /\ st.hash = status.hash
               /\ st.applying = status.applying
               /\ IsTrue(st.complete) <=> IsTrue(status.complete)
               /\ IsTrue(st.resolved) <=> IsTrue(status.resolved)
  <1> DEFINE err == Validate(spec, secret)
             reason == IF err = NoError THEN "PlanIsValid" ELSE "Error"
             complete == CreateUnknownIfNotExists(status.complete)
             validated == SetError(status.validated, reason, err, now)
             resolved == IF err = NoError THEN CreateUnknownIfNotExists(status.resolved)
                         ELSE status.resolved
  <1>1. status.complete \in Condition /\ status.validated \in Condition /\ status.resolved \in Condition
    BY DEF Status
  <1>2. err \in Message \cup {NoError} /\ reason \in Reason
    BY ValidateType DEF Reason
  <1>3. complete \in Condition /\ (IsTrue(complete) <=> IsTrue(status.complete))
    BY <1>1, CreateType
  <1>4. validated \in Condition
    BY <1>1, <1>2, SetErrorType
  <1>5. resolved \in Condition /\ (IsTrue(resolved) <=> IsTrue(status.resolved))
    BY <1>1, CreateType
  <1>6. Validated(spec, status, secret, now) =
            [status EXCEPT !.complete = complete, !.validated = validated, !.resolved = resolved]
    BY DEF Validated, Status
  <1> HIDE DEF complete, validated, resolved
  <1> QED BY <1>3, <1>4, <1>5, <1>6 DEF Status

\* A version that is resolved keeps a plan complete only if it was the latest before.
LEMMA ResolveType ==
    ASSUME NEW H, NEW status \in Status(H), NEW latest \in Version,
           NEW reason \in {"Version", "Channel"}, NEW now \in Nat
    PROVE  LET st == Resolve(status, latest, reason, now)
           IN  /\ st \in Status(H)
               /\ st.version = latest /\ st.hash = status.hash /\ st.applying = status.applying
               /\ IsTrue(st.complete) => IsTrue(status.complete) /\ status.version = latest
               /\ st.resolved.reason # "Error"
  <1> DEFINE changed == ~IsTrue(status.resolved) \/ status.version # latest
             complete == IF changed THEN Reset(status.complete, "Resolved", now) ELSE status.complete
             resolved == SetError(status.resolved, reason, NoError, now)
  <1>1. status.complete \in Condition /\ status.resolved \in Condition
    BY DEF Status
  <1>2. /\ complete \in Condition
        /\ IsTrue(complete) => IsTrue(status.complete) /\ status.version = latest
    BY <1>1, ResetType DEF Reason
  <1>3. resolved \in Condition /\ resolved.reason # "Error"
    BY <1>1, SetErrorType DEF Reason
  <1>4. Resolve(status, latest, reason, now) =
            [status EXCEPT !.complete = complete, !.version = latest, !.resolved = resolved]
    BY DEF Resolve, Status
  <1> HIDE DEF complete, resolved
  <1> QED BY <1>2, <1>3, <1>4 DEF Status

\* The hash of a plan that has a version resolved is a digest of the version it names.
HashNames(status) ==
    /\ IsTrue(status.resolved) => status.hash # NoHash
    /\ status.hash # NoHash => status.hash[1] = status.version

(***************************************************************************)
(* The status handler (handle_upgrade.go:31-111), with whatever it reads:  *)
(* it returns a status, leaves Applying alone, keeps Complete true only if *)
(* the version stays what it was and, when both of its reads of the secret *)
(* agree, leaves a hash that names the version.                            *)
(***************************************************************************)
THEOREM StatusHandlerKeeps ==
    ASSUME Texts \subseteq Message,
           NEW H, NEW spec \in PlanSpec, NEW status \in Status(H),
           NEW atValidate \in Secret \cup {Missing}, NEW atDigest \in Secret \cup {Missing},
           NEW answer \in RawVersion \cup {NoAnswer}, NEW now \in Nat
    PROVE  LET out == StatusHandler(spec, status, atValidate, atDigest, answer, now)
           IN  /\ out.status \in Status(H) /\ out.err \in BOOLEAN
               /\ out.status.applying = status.applying
               /\ IsTrue(out.status.complete) =>
                    IsTrue(status.complete) /\ out.status.version = status.version
               /\ atDigest = atValidate /\ HashNames(status) => HashNames(out.status)
  <1> DEFINE Good(o) == /\ o.status \in Status(H) /\ o.err \in BOOLEAN
                        /\ o.status.applying = status.applying
                        /\ IsTrue(o.status.complete) =>
                             IsTrue(status.complete) /\ o.status.version = status.version
                        /\ atDigest = atValidate /\ HashNames(status) => HashNames(o.status)
             st == Validated(spec, status, atValidate, now)
             unresolved == [st EXCEPT !.resolved = SetError(@, "Error", "Unresolvable", now)]
             Latest(raw, reason) == Resolve(st, MungeVersion(raw), reason, now)
  <1>1. /\ st \in Status(H)
        /\ st.version = status.version /\ st.hash = status.hash
        /\ st.applying = status.applying
        /\ IsTrue(st.complete) <=> IsTrue(status.complete)
        /\ IsTrue(st.resolved) <=> IsTrue(status.resolved)
    BY ValidatedType
  <1>2. Good(DigestStatus(spec, st, atDigest))
    <2> DEFINE d == DigestStatus(spec, st, atDigest)
    <2> HIDE DEF st
    <2>1. /\ d.status \in Status(H) /\ d.err \in BOOLEAN
          /\ d.status = [st EXCEPT !.hash = d.status.hash]
          /\ \/ d.status.hash = st.hash
             \/ d.status.hash # NoHash /\ d.status.hash[1] = st.version
      <3>1. st \in Status(H)
        BY <1>1
      <3> QED BY <3>1, DigestType
    <2> HIDE DEF d
    <2>2. /\ d.status.applying = st.applying /\ d.status.complete = st.complete
          /\ d.status.version = st.version /\ d.status.resolved = st.resolved
      BY <1>1, <2>1 DEF Status
    <2>3. HashNames(status) => HashNames(d.status)
      BY <1>1, <2>1, <2>2 DEF HashNames
    <2> QED BY <1>1, <2>1, <2>2, <2>3 DEF d
  <1>3. Good(DigestStatus(spec, unresolved, atDigest))
    <2> HIDE DEF st
    <2> DEFINE resolved == SetError(st.resolved, "Error", "Unresolvable", now)
    <2>1. resolved \in Condition /\ ~IsTrue(resolved) /\ resolved.reason = "Error"
      <3>1. st.resolved \in Condition
        BY <1>1 DEF Status
      <3>2. "Unresolvable" \in Message \cup {NoError} /\ "Unresolvable" # NoError /\ "Error" \in Reason
        BY DEF Texts, NoError, Reason
      <3> QED BY <3>1, <3>2, SetErrorType
    <2>2. unresolved = [st EXCEPT !.resolved = resolved]
      BY <1>1 DEF Status
    <2> HIDE DEF resolved, unresolved
    <2>3. unresolved \in Status(H) /\ unresolved.resolved = resolved
      BY <1>1, <2>1, <2>2 DEF Status
    <2>4. DigestStatus(spec, unresolved, atDigest) = Outcome(unresolved, FALSE)
      BY <2>1, <2>3 DEF DigestStatus
    <2>5. /\ unresolved.applying = st.applying /\ unresolved.complete = st.complete
          /\ unresolved.version = st.version /\ unresolved.hash = st.hash
      BY <1>1, <2>2 DEF Status
    <2>6. HashNames(status) => HashNames(unresolved)
      BY <1>1, <2>1, <2>3, <2>5 DEF HashNames
    <2>7. Good(Outcome(unresolved, FALSE))
      BY <1>1, <2>3, <2>5, <2>6 DEF Outcome
    <2> QED BY <2>4, <2>7
  <1>4. ASSUME NEW raw \in RawVersion, NEW reason \in {"Version", "Channel"},
               Validate(spec, atValidate) = NoError
        PROVE  Good(DigestStatus(spec, Latest(raw, reason), atDigest))
    <2> DEFINE r == Latest(raw, reason)
    <2>1. MungeVersion(raw) \in Version
      BY VersionAssumption DEF MungeVersion
    <2> HIDE DEF st
    <2>2. /\ r \in Status(H)
          /\ r.hash = st.hash /\ r.applying = st.applying
          /\ IsTrue(r.complete) => IsTrue(st.complete) /\ st.version = r.version
          /\ r.resolved.reason # "Error"
      BY <1>1, <2>1, ResolveType
    <2>3. atDigest = atValidate => spec.secret # "watched" \/ atDigest # Missing
      BY <1>4, ValidateType
    <2> HIDE DEF r
    <2>4. LET out == DigestStatus(spec, r, atDigest)
          IN  /\ out.status \in Status(H) /\ out.err \in BOOLEAN
              /\ out.status = [r EXCEPT !.hash = out.status.hash]
              /\ ~out.err => out.status.hash # NoHash /\ out.status.hash[1] = r.version
              /\ atDigest = atValidate => ~out.err
      BY <2>2, <2>3, DigestType
    <2> QED BY <1>1, <2>2, <2>4 DEF HashNames, Status, r
  <1>5. Good(Outcome(st, FALSE)) /\ Good(Outcome(st, TRUE))
    <2> HIDE DEF st
    <2> QED BY <1>1 DEF HashNames, Outcome
  <1>6. spec.version # NoVersion => spec.version \in RawVersion
    BY DEF PlanSpec
  <1>7. Good(StatusHandler(spec, status, atValidate, atDigest, answer, now))
    <2> HIDE DEF Good
    <2>1. CASE Validate(spec, atValidate) # NoError
      BY <1>2, <2>1 DEF StatusHandler
    <2>2. CASE Validate(spec, atValidate) = NoError /\ spec.version = NoVersion /\ ~spec.channel
      BY <1>3, <2>2 DEF StatusHandler
    <2>3. CASE Validate(spec, atValidate) = NoError /\ spec.version # NoVersion
      BY <1>4, <1>6, <2>3 DEF StatusHandler
    <2>4. CASE Validate(spec, atValidate) = NoError /\ spec.version = NoVersion /\ spec.channel
      <3>1. answer # NoAnswer => answer \in RawVersion
        OBVIOUS
      <3> QED BY <1>4, <1>5, <2>4, <3>1 DEF StatusHandler
    <2> QED BY <2>1, <2>2, <2>3, <2>4
  <1> QED BY <1>7

-------------------------------------------------------------------------------
(* What a sync records of the version, and when. *)

\* A condition that is created has neither a time nor a reason.
LEMMA CreatedBare ==
    ASSUME NEW c
    PROVE  \/ FindOrCreate(c) = c
           \/ FindOrCreate(c).updated = Never /\ FindOrCreate(c).reason = ""
  <1>1. Absent \in Condition
    BY DEF Absent, Condition, ConditionStatus, Reason, Never
  <1>2. Absent.updated = Never /\ Absent.reason = ""
    BY DEF Absent
  <1> QED BY <1>1, <1>2 DEF FindOrCreate, Condition

\* No setter gives a condition a time later than the present.
LEMMA SettersAge ==
    ASSUME NEW c \in Condition, NEW now \in Nat, c.updated <= now
    PROVE  /\ FindOrCreate(c).updated <= now
           /\ CreateUnknownIfNotExists(c).updated <= now
           /\ \A status : SetStatus(c, status, now).updated <= now
           /\ \A text : SetMessage(c, text, now).updated <= now
           /\ \A reason : SetReason(c, reason).updated <= now
  <1>1. FindOrCreate(c).updated <= now
    <2>1. FindOrCreate(c) = c \/ FindOrCreate(c).updated = Never
      BY CreatedBare
    <2>2. CASE FindOrCreate(c) = c
      BY <2>2
    <2>3. CASE FindOrCreate(c).updated = Never
      BY <2>3 DEF Never
    <2> QED BY <2>1, <2>2, <2>3
  <1>2. \A status : SetStatus(c, status, now).updated <= now
    BY DEF Condition, SetStatus
  <1>3. \A text : SetMessage(c, text, now).updated <= now
    BY DEF Condition, SetMessage
  <1>4. \A reason : SetReason(c, reason).updated <= now
    BY DEF Condition, SetReason
  <1> QED BY <1>1, <1>2, <1>3, <1>4 DEF CreateUnknownIfNotExists

\* Neither does the sequence of them that records an error or its absence.
LEMMA SetErrorAge ==
    ASSUME NEW c \in Condition, NEW reason \in Reason,
           NEW err \in Message \cup {NoError}, NEW now \in Nat, c.updated <= now
    PROVE  SetError(c, reason, err, now).updated <= now
  <1> DEFINE status == IF err = NoError THEN "True" ELSE "False"
             a == FindOrCreate(c)
             b == SetStatus(a, status, now)
             d == SetMessage(b, err, now)
  <1>1. a \in Condition /\ a.updated <= now
    BY CreateType, SettersAge
  <1>2. status \in ConditionStatus
    BY DEF ConditionStatus
  <1> HIDE DEF status, a
  <1>3. b \in Condition /\ b.updated <= now
    BY <1>1, <1>2, SetStatusType, SettersAge
  <1> HIDE DEF b
  <1>4. d \in Condition /\ d.updated <= now
    BY <1>3, SetMessageType, SettersAge
  <1> HIDE DEF d
  <1>5. SetReason(d, reason).updated <= now
    BY <1>4, SettersAge
  <1> QED BY <1>5 DEF SetError, status, a, b, d

\* Validation leaves Resolved as it is, or creates it.
LEMMA ValidatedResolved ==
    ASSUME Texts \subseteq Message,
           NEW H, NEW spec \in PlanSpec, NEW status \in Status(H), NEW secret, NEW now \in Nat
    PROVE  LET st == Validated(spec, status, secret, now)
           IN  /\ st.resolved \in {status.resolved, CreateUnknownIfNotExists(status.resolved)}
               /\ st.resolved.reason = "Channel" => status.resolved.reason = "Channel"
               /\ status.resolved.updated <= now => st.resolved.updated <= now
               /\ IsTrue(st.validated) <=> Validate(spec, secret) = NoError
  <1> DEFINE err == Validate(spec, secret)
             why == IF err = NoError THEN "PlanIsValid" ELSE "Error"
             st == Validated(spec, status, secret, now)
  <1>1. status.validated \in Condition /\ status.resolved \in Condition
    BY DEF Status
  <1>2. st.resolved \in {status.resolved, CreateUnknownIfNotExists(status.resolved)}
    BY DEF Validated, Status
  <1>3. st.validated = SetError(status.validated, why, err, now)
    BY DEF Validated, Status
  <1>4. err \in Message \cup {NoError} /\ why \in Reason
    BY ValidateType DEF Reason
  <1> HIDE DEF st, err, why
  <1>5. IsTrue(st.validated) <=> err = NoError
    <2> DEFINE c == SetError(status.validated, why, err, now)
    <2>1. c.status = "True" <=> err = NoError
      BY <1>1, <1>4, SetErrorType DEF IsTrue
    <2> QED BY <1>3, <2>1 DEF IsTrue
  <1>6. status.resolved.updated <= now => st.resolved.updated <= now
    BY <1>1, <1>2, SettersAge
  <1>7. CreateUnknownIfNotExists(status.resolved).reason = "Channel" =>
          status.resolved.reason = "Channel"
    BY CreatedBare DEF CreateUnknownIfNotExists
  <1> QED BY <1>2, <1>5, <1>6, <1>7 DEF st, err

\* A version that is resolved is recorded with its source, and no later than now.
LEMMA ResolveRecords ==
    ASSUME NEW H, NEW status \in Status(H), NEW latest \in Version,
           NEW reason \in {"Version", "Channel"}, NEW now \in Nat
    PROVE  LET st == Resolve(status, latest, reason, now)
           IN  /\ st.resolved.reason = reason /\ st.validated = status.validated
               /\ status.resolved.updated <= now => st.resolved.updated <= now
  <1> DEFINE st == Resolve(status, latest, reason, now)
             resolved == SetError(status.resolved, reason, NoError, now)
  <1>1. status.resolved \in Condition /\ reason \in Reason
    BY DEF Status, Reason
  <1>2. /\ resolved.reason = reason
        /\ status.resolved.updated <= now => resolved.updated <= now
    BY <1>1, SetErrorType, SetErrorAge
  <1>3. st.resolved = resolved /\ st.validated = status.validated
    BY DEF Resolve, Status
  <1> HIDE DEF st, resolved
  <1> QED BY <1>2, <1>3 DEF st

\* What an outcome of the status handler may record of a version: the time is not a
\* later one, a version said to be the channel's was already or is the answer, an error
\* leaves the version, and a spec that names a version gets that one or none.
Records(spec, status, answer, now, out) ==
    /\ status.resolved.updated <= now => out.status.resolved.updated <= now
    /\ out.status.resolved.reason = "Channel" =>
         \/ status.resolved.reason = "Channel" /\ out.status.version = status.version
         \/ answer # NoAnswer /\ out.status.version = MungeVersion(answer)
    /\ out.err => out.status.version = status.version
    /\ out.err => spec.secret = "watched" \/ spec.version = NoVersion
    /\ spec.version # NoVersion =>
         /\ out.status.version \in {status.version, MungeVersion(spec.version)}
         /\ IsTrue(out.status.validated) =>
              /\ ~out.err /\ out.status.version = MungeVersion(spec.version)
              /\ out.status.hash[1] = out.status.version

(***************************************************************************)
(* The status handler (handle_upgrade.go:31-111), when both its reads of   *)
(* the secret agree, records nothing else.                                 *)
(***************************************************************************)
THEOREM StatusHandlerRecords ==
    ASSUME Texts \subseteq Message,
           NEW H, NEW spec \in PlanSpec, NEW status \in Status(H),
           NEW sec \in Secret \cup {Missing},
           NEW answer \in RawVersion \cup {NoAnswer}, NEW now \in Nat
    PROVE  Records(spec, status, answer, now,
                   StatusHandler(spec, status, sec, sec, answer, now))
  <1> DEFINE Good(o) == Records(spec, status, answer, now, o)
             st == Validated(spec, status, sec, now)
             unresolved == [st EXCEPT !.resolved = SetError(@, "Error", "Unresolvable", now)]
             Latest(raw, reason) == Resolve(st, MungeVersion(raw), reason, now)
  <1>1. st \in Status(H) /\ st.version = status.version
    BY ValidatedType
  <1>2. /\ st.resolved.reason = "Channel" => status.resolved.reason = "Channel"
        /\ status.resolved.updated <= now => st.resolved.updated <= now
        /\ IsTrue(st.validated) <=> Validate(spec, sec) = NoError
    BY ValidatedResolved
  <1>3. ASSUME NEW s \in Status(H)
        PROVE  LET o == DigestStatus(spec, s, sec)
               IN  /\ o.status.resolved = s.resolved /\ o.status.version = s.version
                   /\ o.status.validated = s.validated
                   /\ Validate(spec, sec) = NoError \/ spec.secret # "watched" => ~o.err
                   /\ ~o.err /\ s.resolved.reason # "Error" => o.status.hash[1] = s.version
    <2> DEFINE o == DigestStatus(spec, s, sec)
    <2>1. /\ o.status = [s EXCEPT !.hash = o.status.hash]
          /\ ~o.err /\ s.resolved.reason # "Error" => o.status.hash[1] = s.version
          /\ spec.secret = "watched" /\ sec # Missing => ~o.err
          /\ spec.secret # "watched" => ~o.err
      BY DigestType
    <2>2. Validate(spec, sec) = NoError => (spec.secret = "watched" => sec # Missing)
      BY ValidateType
    <2> HIDE DEF o
    <2> QED BY <2>1, <2>2 DEF Status, o
  <1>4. ASSUME Validate(spec, sec) # NoError
        PROVE  Good(DigestStatus(spec, st, sec))
    <2> DEFINE d == DigestStatus(spec, st, sec)
    <2> HIDE DEF st
    <2>1. /\ d.status.resolved = st.resolved /\ d.status.version = st.version
          /\ d.status.validated = st.validated
          /\ spec.secret # "watched" => ~d.err
      BY <1>1, <1>3
    <2>2. ~IsTrue(d.status.validated)
      BY <1>2, <1>4, <2>1
    <2> HIDE DEF d
    <2>3. Good(d)
      BY <1>1, <1>2, <2>1, <2>2 DEF Records
    <2> QED BY <2>3 DEF d
  <1>5. ASSUME spec.version = NoVersion
        PROVE  Good(DigestStatus(spec, unresolved, sec))
    <2> DEFINE resolved == SetError(st.resolved, "Error", "Unresolvable", now)
               d == DigestStatus(spec, unresolved, sec)
    <2> HIDE DEF st
    <2>1. /\ resolved \in Condition /\ resolved.reason = "Error"
          /\ st.resolved.updated <= now => resolved.updated <= now
      <3>1. st.resolved \in Condition
        BY <1>1 DEF Status
      <3>2. "Unresolvable" \in Message \cup {NoError} /\ "Error" \in Reason
        BY DEF Texts, Reason
      <3> QED BY <3>1, <3>2, SetErrorType, SetErrorAge
    <2>2. unresolved = [st EXCEPT !.resolved = resolved]
      BY <1>1 DEF Status
    <2> HIDE DEF resolved, unresolved
    <2>3. /\ unresolved \in Status(H) /\ unresolved.resolved = resolved
          /\ unresolved.version = st.version
      BY <1>1, <2>1, <2>2 DEF Status
    <2>4. d.status.resolved = resolved /\ d.status.version = st.version
      BY <1>3, <2>3
    <2> HIDE DEF d
    <2>5. Good(d)
      BY <1>1, <1>2, <1>5, <2>1, <2>4 DEF Records
    <2> QED BY <2>5 DEF d
  <1>6. ASSUME NEW raw \in RawVersion, NEW reason \in {"Version", "Channel"},
               Validate(spec, sec) = NoError,
               \/ spec.version # NoVersion /\ reason = "Version" /\ raw = spec.version
               \/ spec.version = NoVersion /\ answer # NoAnswer /\ raw = answer
        PROVE  Good(DigestStatus(spec, Latest(raw, reason), sec))
    <2> DEFINE r == Latest(raw, reason)
               d == DigestStatus(spec, r, sec)
    <2>1. MungeVersion(raw) \in Version
      BY VersionAssumption DEF MungeVersion
    <2> HIDE DEF st
    <2>2. /\ r \in Status(H) /\ r.version = MungeVersion(raw)
          /\ r.resolved.reason = reason
          /\ st.resolved.updated <= now => r.resolved.updated <= now
      BY <1>1, <2>1, ResolveType, ResolveRecords
    <2> HIDE DEF r
    <2>3. /\ d.status.resolved = r.resolved /\ d.status.version = r.version
          /\ ~d.err /\ d.status.hash[1] = r.version
      BY <1>3, <1>6, <2>2
    <2> HIDE DEF d
    <2>4. Good(d)
      BY <1>1, <1>2, <1>6, <2>2, <2>3 DEF Records
    <2> QED BY <2>4 DEF d, r
  <1>7. ASSUME spec.version = NoVersion
        PROVE  Good(Outcome(st, FALSE)) /\ Good(Outcome(st, TRUE))
    <2> HIDE DEF st
    <2> QED BY <1>1, <1>2, <1>7 DEF Outcome, Records
  <1>8. spec.version # NoVersion => spec.version \in RawVersion
    BY DEF PlanSpec
  <1>9. answer # NoAnswer => answer \in RawVersion
    OBVIOUS
  <1>10. Good(StatusHandler(spec, status, sec, sec, answer, now))
    <2> HIDE DEF Good
    <2>1. CASE Validate(spec, sec) # NoError
      BY <1>4, <2>1 DEF StatusHandler
    <2>2. CASE Validate(spec, sec) = NoError /\ spec.version = NoVersion /\ ~spec.channel
      BY <1>5, <2>2 DEF StatusHandler
    <2>3. CASE Validate(spec, sec) = NoError /\ spec.version # NoVersion
      BY <1>6, <1>8, <2>3 DEF StatusHandler
    <2>4. CASE Validate(spec, sec) = NoError /\ spec.version = NoVersion /\ spec.channel
      BY <1>6, <1>7, <1>9, <2>4 DEF StatusHandler
    <2> QED BY <2>1, <2>2, <2>3, <2>4
  <1> QED BY <1>10
===============================================================================
