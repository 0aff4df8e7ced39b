--------------------------- MODULE SharedNodeProofs ---------------------------
(***************************************************************************)
(* Proofs about JobSpec and SharedNode, for any number of plans of any     *)
(* shape on the node, any environment and any number of failures.          *)
(***************************************************************************)
EXTENDS SharedNode, TLAPS

-------------------------------------------------------------------------------
(* The times of a job. *)

\* The member of an optional value that is not empty.
LEMMA TheMember ==
    ASSUME NEW S, NEW x \in S, Optional(S)
    PROVE  The(S) = x
  BY DEF The, Optional

LEMMA TheIn ==
    ASSUME NEW S, S # {}
    PROVE  The(S) \in S
  BY DEF The

LEMMA EnvironmentTypes ==
    /\ TTLSecondsAfterFinished \in Int
    /\ ActiveDeadlineSeconds \in Int
    /\ ActiveDeadlineSecondsMax \in Int
  <1>1. ASSUME NEW S, S \subseteq Int, NEW d \in Int
        PROVE  FromEnvironment(S, d) \in Int
    BY <1>1, TheIn DEF FromEnvironment
  <1>2. 0 \in Int
    OBVIOUS
  <1> QED
    BY <1>1, <1>2, DurationAssumption, SettingAssumption
       DEF TTLSecondsAfterFinished, ActiveDeadlineSeconds, ActiveDeadlineSecondsMax

\* job.New keeps a finished job for longer than the plan's postCompleteDelay, as the job
\* handler takes for granted, whatever TTL the controller's environment sets: the handler
\* that runs at the end of the delay finds the job, which the TTL controller may delete
\* only later.
THEOREM TTLOutlastsDelay ==
    ASSUME NEW d \in Nat
    PROVE  TTL({d}) \in Int /\ TTL({d}) * Second > d
  <1>1. Optional({d}) /\ d \in {d}
    BY DEF Optional
  <1>2. The({d}) = d
    BY <1>1, TheMember
  <1> DEFINE ttl == TTLSecondsAfterFinished
  <1>3. ttl \in Int
    BY EnvironmentTypes
  <1>4. CASE ttl * Second < d + Minute
    <2>1. TTL({d}) = (d + Minute) \div Second
      BY <1>2, <1>4 DEF TTL
    <2> DEFINE q == (d + Minute) \div Second
               r == (d + Minute) % Second
    <2>2. q \in Int /\ r \in 0..(Second - 1) /\ d + Minute = Second * q + r
      BY DurationAssumption
    <2>3. q * Second = d + Minute - r
      BY <2>2, DurationAssumption
    <2> QED
      BY <2>1, <2>2, <2>3, DurationAssumption
  <1>5. CASE ~(ttl * Second < d + Minute)
    <2>1. TTL({d}) = ttl
      BY <1>5 DEF TTL
    <2>2. ttl * Second \in Int
      BY <1>3, DurationAssumption
    <2> QED
      BY <2>1, <2>2, <1>3, <1>5, DurationAssumption
  <1> QED
    BY <1>4, <1>5

\* A maximum that is configured bounds the deadline of every job, also of the plans that
\* ask for none, and without one only a plan that asks for none has none.
THEOREM DeadlineCapped ==
    ASSUME NEW secs \in SUBSET Int, Optional(secs)
    PROVE  /\ Optional(ActiveDeadline(secs))
           /\ ActiveDeadlineSecondsMax > 0 =>
                /\ ActiveDeadline(secs) # {}
                /\ \A s \in ActiveDeadline(secs) : s \in Int /\ s <= ActiveDeadlineSecondsMax
           /\ ~(ActiveDeadlineSecondsMax > 0) =>
                (ActiveDeadline(secs) = {} <=> secs = {0})
  <1> DEFINE max == ActiveDeadlineSecondsMax
             asked == IF \E s \in secs : s >= 0 THEN secs \ {0} ELSE {ActiveDeadlineSeconds}
  <1>1. max \in Int /\ ActiveDeadlineSeconds \in Int
    BY EnvironmentTypes
  <1>2. asked \subseteq Int /\ Optional(asked)
    BY <1>1 DEF Optional
  <1>3. asked = {} <=> secs = {0}
    <2>1. CASE \E s \in secs : s >= 0
      <3>1. PICK s \in secs : s >= 0
        BY <2>1
      <3>2. secs = {s}
        BY <3>1 DEF Optional
      <3>3. asked = {s} \ {0}
        BY <2>1, <3>2
      <3> QED
        BY <3>1, <3>2, <3>3
    <2>2. CASE ~\E s \in secs : s >= 0
      <3>1. asked = {ActiveDeadlineSeconds}
        BY <2>2
      <3>2. secs # {0}
        BY <2>2
      <3> QED
        BY <3>1, <3>2
    <2> QED
      BY <2>1, <2>2
  <1>4. ActiveDeadline(secs) =
          IF max > 0 /\ (asked = {} \/ \E s \in asked : s > max) THEN {max} ELSE asked
    BY DEF ActiveDeadline
  <1> HIDE DEF max, asked
  <1>5. CASE max > 0
    <2>1. CASE asked = {} \/ \E s \in asked : s > max
      BY <1>1, <1>4, <1>5, <2>1 DEF Optional, max
    <2>2. CASE ~(asked = {} \/ \E s \in asked : s > max)
      <3>1. ActiveDeadline(secs) = asked
        BY <1>4, <2>2
      <3>2. asked # {} /\ \A s \in asked : s \in Int /\ s <= max
        BY <1>1, <1>2, <2>2
      <3> QED
        BY <1>2, <1>5, <3>1, <3>2 DEF max
    <2> QED
      BY <2>1, <2>2
  <1>6. CASE ~(max > 0)
    BY <1>2, <1>3, <1>4, <1>6 DEF max
  <1> QED
    BY <1>5, <1>6

-------------------------------------------------------------------------------
(* The machine. *)

LEMMA OneElement ==
    ASSUME NEW S, NEW x \in S
    PROVE  <<x>> \in Seq(S) /\ Len(<<x>>) = 1 /\ <<>> \in Seq(S) /\ Len(<<>>) = 0
  OBVIOUS

LEMMA ConcatLength ==
    ASSUME NEW S, NEW s \in Seq(S), NEW t \in Seq(S)
    PROVE  s \o t \in Seq(S) /\ Len(s \o t) = Len(s) + Len(t)
  OBVIOUS

\* Arithmetic that the provers do not find around Len.
LEMMA SumOfLengths ==
    ASSUME NEW x, NEW y, NEW z, x = 1 \/ x = 0, y = 1 \/ y = 0, z = 1
    PROVE  x + y + z \in 1..3
  OBVIOUS

LEMMA NoneOfSome ==
    ASSUME NEW d, NEW n, d = 0, n \in 1..3
    PROVE  d + 1 <= n
  OBVIOUS

\* A pod has one to three containers.
LEMMA ContainersLength ==
    ASSUME NEW s
    PROVE  Len(Containers(s)) \in 1..3
  <1> DEFINE S == {"prepare", "drain", "cordon", "upgrade"}
             a == IF s.prepare THEN <<"prepare">> ELSE <<>>
             b == IF s.drain THEN <<"drain">> ELSE IF s.cordon THEN <<"cordon">> ELSE <<>>
             c == <<"upgrade">>
  <1>1. /\ a = <<"prepare">> \/ a = <<>>
        /\ b = <<"drain">> \/ b = <<"cordon">> \/ b = <<>>
    OBVIOUS
  <1>2. Containers(s) = (a \o b) \o c
    BY DEF Containers
  <1>3. ASSUME NEW x \in S
        PROVE  <<x>> \in Seq(S) /\ Len(<<x>>) = 1 /\ <<>> \in Seq(S) /\ Len(<<>>) = 0
    BY OneElement, Zenon
  <1>4. "prepare" \in S /\ "drain" \in S /\ "cordon" \in S /\ "upgrade" \in S
    OBVIOUS
  <1>5. c \in Seq(S) /\ Len(c) = 1
    BY <1>3, <1>4, Zenon
  <1> HIDE DEF a, b, c, S
  <1>6. a \in Seq(S) /\ (Len(a) = 1 \/ Len(a) = 0)
    BY <1>1, <1>3, <1>4, Zenon
  <1>7. b \in Seq(S) /\ (Len(b) = 1 \/ Len(b) = 0)
    BY <1>1, <1>3, <1>4, Zenon
  <1> DEFINE ab == a \o b
  <1>8. ab \in Seq(S) /\ Len(ab) = Len(a) + Len(b)
    BY <1>6, <1>7, ConcatLength, Zenon
  <1> HIDE DEF ab
  <1>9. Len(ab \o c) = Len(ab) + Len(c)
    BY <1>5, <1>8, ConcatLength, Zenon
  <1>10. Containers(s) = ab \o c
    BY <1>2 DEF ab
  <1>11. Len(Containers(s)) = Len(a) + Len(b) + Len(c)
    BY <1>8, <1>9, <1>10
  <1> QED
    BY <1>5, <1>6, <1>7, <1>11, SumOfLengths, Zenon

\* The elements of a concatenation.
LEMMA ConcatFirst ==
    ASSUME NEW S, NEW s \in Seq(S), NEW t \in Seq(S), NEW i \in 1..Len(s)
    PROVE  (s \o t)[i] = s[i]
  OBVIOUS

LEMMA ConcatBeyond ==
    ASSUME NEW S, NEW s \in Seq(S), NEW t \in Seq(S),
           NEW i \in Int, i > Len(s), i <= Len(s) + Len(t)
    PROVE  (s \o t)[i] = t[i - Len(s)]
  OBVIOUS

LEMMA NextAfter ==
    ASSUME NEW n \in Nat, NEW m, m = 1
    PROVE  n + 1 \in Int /\ n + 1 > n /\ n + 1 <= n + m /\ (n + 1) - n = 1
  OBVIOUS

LEMMA ConcatSecond ==
    ASSUME NEW S, NEW s \in Seq(S), NEW t \in Seq(S), Len(t) = 1
    PROVE  (s \o t)[Len(s) + 1] = t[1]
  <1>1. Len(s) \in Nat
    OBVIOUS
  <1>2. /\ Len(s) + 1 \in Int /\ Len(s) + 1 > Len(s) /\ Len(s) + 1 <= Len(s) + Len(t)
        /\ (Len(s) + 1) - Len(s) = 1
    BY <1>1, NextAfter, Zenon
  <1>3. (s \o t)[Len(s) + 1] = t[(Len(s) + 1) - Len(s)]
    BY <1>2, ConcatBeyond, Zenon
  <1> QED BY <1>2, <1>3, Zenon

\* In the pod of a plan that cordons, the container that cordons or drains is before the
\* one that upgrades.
LEMMA CordonThenUpgrade ==
    ASSUME NEW s, Cordons(s), NEW n \in Nat, Containers(s)[n + 1] = "upgrade"
    PROVE  \E i \in 1..n : Containers(s)[i] \in {"cordon", "drain"}
  <1> DEFINE S == {"prepare", "drain", "cordon", "upgrade"}
             a == IF s.prepare THEN <<"prepare">> ELSE <<>>
             b == IF s.drain THEN <<"drain">> ELSE IF s.cordon THEN <<"cordon">> ELSE <<>>
             c == <<"upgrade">>
             ab == a \o b
  <1>1. /\ a = <<"prepare">> \/ a = <<>>
        /\ b = <<"drain">> \/ b = <<"cordon">>
    BY DEF Cordons
  <1>2. Containers(s) = ab \o c
    BY DEF Containers
  <1>3. ASSUME NEW x \in S
        PROVE  <<x>> \in Seq(S) /\ Len(<<x>>) = 1 /\ <<>> \in Seq(S) /\ Len(<<>>) = 0
    BY OneElement, Zenon
  <1>4. "prepare" \in S /\ "drain" \in S /\ "cordon" \in S /\ "upgrade" \in S
    OBVIOUS
  <1>5. c \in Seq(S) /\ Len(c) = 1
    BY <1>3, <1>4, Zenon
  <1>6. \A x : <<x>>[1] = x
    OBVIOUS
  <1> HIDE DEF a, b, c, S
  <1>7. a \in Seq(S) /\ (Len(a) = 0 \/ (Len(a) = 1 /\ a[1] = "prepare"))
    BY <1>1, <1>3, <1>4, <1>6, Zenon
  <1>8. b \in Seq(S) /\ Len(b) = 1 /\ (b[1] = "drain" \/ b[1] = "cordon")
    BY <1>1, <1>3, <1>4, <1>6, Zenon
  <1>9. ab \in Seq(S) /\ Len(ab) = Len(a) + Len(b) /\ ab[Len(a) + 1] = b[1]
    BY <1>7, <1>8, ConcatLength, ConcatSecond, Zenon
  <1>10. \A i \in 1..Len(a) : ab[i] = a[i]
    BY <1>7, <1>8, ConcatFirst, Zenon
  <1> HIDE DEF ab
  <1>11. \A i \in 1..Len(ab) : Containers(s)[i] = ab[i]
    <2>1. \A i \in 1..Len(ab) : (ab \o c)[i] = ab[i]
      BY <1>5, <1>9, ConcatFirst, Zenon
    <2> QED BY <1>2, <2>1, Zenon
  <1> DEFINE k == Len(a) + 1
  <1>12. k \in 1..2 /\ k = Len(ab)
    <2>1. ASSUME NEW x, x = 0 \/ x = 1, NEW y, y = 1
          PROVE  x + 1 \in 1..2 /\ x + y = x + 1
      BY <2>1
    <2> QED BY <1>7, <1>8, <1>9, <2>1
  <1>13. Containers(s)[k] = b[1]
    BY <1>9, <1>11, <1>12
  <1>14. k = 2 => Containers(s)[1] = "prepare"
    <2>1. k = 2 => Len(a) = 1
      BY <1>7
    <2>2. k = 2 => 1 \in 1..Len(ab) /\ 1 \in 1..Len(a)
      BY <1>12, <2>1
    <2> QED BY <1>7, <1>10, <1>11, <2>1, <2>2
  <1> HIDE DEF k
  <1>15. n + 1 # k /\ ~(k = 2 /\ n + 1 = 1)
    BY <1>8, <1>13, <1>14
  <1>16. k \in 1..n
    BY <1>12, <1>15
  <1> QED BY <1>8, <1>13, <1>16

\* A pod that is to run, or runs, has a container left to run.
ContainerLeft ==
    \A p \in Plan : job[p].state \in {"pending", "running"} =>
        job[p].done + 1 <= Len(Containers(shape[p]))

TypeInv == TypeOK /\ ContainerLeft

LEMMA PodlessType ==
    ASSUME NEW state \in {"pending", "failed", "gone"}, NEW t \in Nat
    PROVE  Podless(state, t) \in Job /\ Podless(state, t).done = 0 /\ Podless(state, t).state = state
  BY DEF Podless, Job

LEMMA InitTypeInv == Init => TypeInv
  <1> SUFFICES ASSUME Init PROVE TypeInv
    OBVIOUS
  <1>1. 0 \in 0..MaxFaults
    BY PlanAssumption
  <1>2. node \in NodeRecord
    BY PlanAssumption DEF Init, NodeRecord
  <1>3. TypeOK
    BY <1>1, <1>2, PodlessType DEF Init, TypeOK
  <1> QED
    <2>1. ASSUME NEW p \in Plan
          PROVE  job[p].done + 1 <= Len(Containers(shape[p]))
      <3>1. job[p] = Podless("pending", 0)
        BY DEF Init
      <3>2. job[p].done = 0
        BY <3>1, PodlessType
      <3>3. Len(Containers(shape[p])) \in 1..3
        BY ContainersLength
      <3> HIDE DEF Init
      <3> QED
        BY <3>2, <3>3, NoneOfSome, Zenon
    <2> QED
      BY <1>3, <2>1 DEF TypeInv, ContainerLeft

LEMMA NextTypeInv == TypeInv /\ [Next]_vars => TypeInv'
  <1> SUFFICES ASSUME TypeInv, [Next]_vars PROVE TypeInv'
    OBVIOUS
  <1> USE DEF TypeInv
  <1>f. ASSUME Fault PROVE faults' \in 0..MaxFaults
    BY <1>f, PlanAssumption DEF Fault, TypeOK
  \* a job that is over after the step has no container left to have, a new one has all
  <1>g. ASSUME NEW p \in Plan, NEW j \in Job, j.done = 0,
               job' = [job EXCEPT ![p] = j], shape' = shape
        PROVE  job' \in [Plan -> Job] /\ ContainerLeft'
    <2>1. job' \in [Plan -> Job]
      BY <1>g DEF TypeOK
    <2>2. ASSUME NEW q \in Plan, job'[q].state \in {"pending", "running"}
          PROVE  job'[q].done + 1 <= Len(Containers(shape[q]))
      <3>1. CASE q = p
        <4>1. job'[q].done = 0
          BY <1>g, <3>1 DEF TypeOK
        <4>2. Len(Containers(shape[q])) \in 1..3
          BY ContainersLength
        <4> QED
          BY <4>1, <4>2, NoneOfSome, Zenon
      <3>2. CASE q # p
        <4>1. job'[q] = job[q]
          BY <1>g, <3>2 DEF TypeOK
        <4> QED
          BY <2>2, <4>1 DEF ContainerLeft
      <3> QED
        BY <3>1, <3>2
    <2> QED
      BY <1>g, <2>1, <2>2 DEF ContainerLeft
  <1>h. Podless("gone", 0) \in Job /\ Podless("gone", 0).done = 0
    BY PodlessType
  <1>i. ASSUME NEW p \in Plan, EnqueueOrDelete(p), shape' = shape
        PROVE  job' \in [Plan -> Job] /\ ContainerLeft'
    <2>1. CASE job' = job
      BY <1>i, <2>1 DEF TypeOK, ContainerLeft
    <2>2. CASE job' = [job EXCEPT ![p] = Podless("gone", 0)]
      BY <1>g, <1>h, <1>i, <2>2
    <2> QED
      BY <1>i, <2>1, <2>2 DEF EnqueueOrDelete
  <1>1. ASSUME NEW p \in Plan, PodStart(p) PROVE TypeInv'
    <2>1. job[p] \in Job /\ job' = [job EXCEPT ![p].state = "running"]
      BY <1>1 DEF PodStart, TypeOK
    <2>2. job' \in [Plan -> Job]
      BY <2>1 DEF TypeOK, Job
    <2>3. TypeOK'
      BY <1>1, <2>2 DEF PodStart, setting, nodeVars, TypeOK
    <2>4. job[p].done + 1 <= Len(Containers(shape[p]))
      BY <1>1 DEF PodStart, ContainerLeft
    <2> QED
      BY <1>1, <2>3, <2>4 DEF PodStart, setting, ContainerLeft
  <1>2. ASSUME NEW p \in Plan, ContainerStarts(p) PROVE TypeInv'
    BY <1>2 DEF ContainerStarts, setting, nodeVars, TypeOK, ContainerLeft, Job
  <1>3. ASSUME NEW p \in Plan, ContainerEnds(p) PROVE TypeInv'
    <2> DEFINE n == Len(Containers(shape[p]))
    <2>1. n \in 1..3 /\ job[p].done + 1 <= n
      BY <1>3, ContainersLength DEF ContainerEnds, ContainerLeft
    <2>2. job[p] \in Job /\ node \in NodeRecord
      BY DEF TypeOK
    <2>3. job' \in [Plan -> Job]
      BY <1>3, <2>1, <2>2 DEF ContainerEnds, TypeOK, Job
    <2>4. node' \in NodeRecord /\ behind' \in BOOLEAN
      BY <1>3, <2>2 DEF ContainerEnds, NodeRecord, TypeOK
    <2>5. TypeOK'
      BY <1>3, <2>3, <2>4 DEF ContainerEnds, setting, TypeOK
    <2>6. ContainerLeft'
      BY <1>3, <2>1, <2>2 DEF ContainerEnds, setting, ContainerLeft, TypeOK, Job
    <2> QED
      BY <2>5, <2>6
  <1>4. ASSUME NEW p \in Plan, PodFails(p) PROVE TypeInv'
    <2>1. job[p] \in Job /\ job[p].tries \in Nat
      BY DEF TypeOK, Job
    <2> DEFINE again == Podless("pending", job[p].tries + 1)
               over == Podless("failed", job[p].tries)
    <2>2. again \in Job /\ again.done = 0 /\ over \in Job /\ over.done = 0
      BY <2>1, PodlessType
    <2>3. job' = [job EXCEPT ![p] = again] \/ job' = [job EXCEPT ![p] = over]
      BY <1>4 DEF PodFails, TypeOK
    <2>4. job' \in [Plan -> Job] /\ ContainerLeft'
      BY <1>4, <1>g, <2>2, <2>3 DEF PodFails, setting
    <2> QED
      BY <1>4, <1>f, <2>4 DEF PodFails, setting, nodeVars, TypeOK
  <1>5. ASSUME NEW p \in Plan, DeadlinePasses(p) PROVE TypeInv'
    <2>1. job[p] \in Job /\ job[p].tries \in Nat
      BY DEF TypeOK, Job
    <2> DEFINE over == Podless("failed", job[p].tries)
    <2>2. over \in Job /\ over.done = 0
      BY <2>1, PodlessType
    <2>3. job' = [job EXCEPT ![p] = over]
      BY <1>5 DEF DeadlinePasses
    <2>4. job' \in [Plan -> Job] /\ ContainerLeft'
      BY <1>5, <1>g, <2>2, <2>3 DEF DeadlinePasses, setting
    <2> QED
      BY <1>5, <1>f, <2>4 DEF DeadlinePasses, setting, nodeVars, TypeOK
  <1>6. ASSUME NEW p \in Plan, HandleOther(p) PROVE TypeInv'
    <2>1. job' \in [Plan -> Job] /\ ContainerLeft'
      BY <1>6, <1>i DEF HandleOther, setting
    <2> QED
      BY <1>6, <2>1 DEF HandleOther, Takes, setting, nodeVars, TypeOK
  <1>7. ASSUME NEW p \in Plan, HandleComplete(p) PROVE TypeInv'
    <2>1. cache' \in NodeRecord
      BY <1>7 DEF HandleComplete, Tagged, TypeOK, NodeRecord
    <2> QED
      BY <1>7, <2>1 DEF HandleComplete, Takes, setting, TypeOK, ContainerLeft
  <1>8. ASSUME NEW p \in Plan, UpdateNode(p) PROVE TypeInv'
    <2>1. CASE Refused(p)
      <3>1. node' \in NodeRecord /\ behind' \in BOOLEAN
        BY <2>1 DEF Refused, NodeWritten, TypeOK
      <3>2. faults' \in 0..MaxFaults
        BY <2>1, <1>f DEF Refused, TypeOK
      <3>3. job' = job /\ jobQueue' = jobQueue \cup {p}
        BY <2>1 DEF Refused
      <3> QED
        BY <1>8, <3>1, <3>2, <3>3 DEF UpdateNode, setting, TypeOK, ContainerLeft
    <2>2. CASE NodeWritten /\ EnqueueOrDelete(p) /\ UNCHANGED <<jobQueue, faults>>
      <3>1. job' \in [Plan -> Job] /\ ContainerLeft'
        BY <1>8, <2>2, <1>i DEF UpdateNode, setting
      <3> QED
        BY <1>8, <2>2, <3>1 DEF UpdateNode, NodeWritten, setting, TypeOK
    <2> QED
      BY <1>8, <2>1, <2>2 DEF UpdateNode
  <1>9. ASSUME NEW p \in Plan, Elapse(p) PROVE TypeInv'
    <2>1. job[p] \in Job /\ job[p].age \in Nat
      BY DEF TypeOK, Job
    <2>2. job' \in [Plan -> Job]
      BY <1>9, <2>1 DEF Elapse, TypeOK, Job
    <2>3. jobQueue' \subseteq Plan
      BY <1>9 DEF Elapse, TypeOK
    <2>4. TypeOK'
      BY <1>9, <2>2, <2>3 DEF Elapse, setting, nodeVars, TypeOK
    <2> QED
      BY <1>9, <2>1, <2>4 DEF Elapse, setting, ContainerLeft, TypeOK
  <1>10. ASSUME NEW p \in Plan, TTLDelete(p) PROVE TypeInv'
    <2>1. job' \in [Plan -> Job] /\ ContainerLeft'
      BY <1>10, <1>g, <1>h DEF TTLDelete, setting
    <2> QED
      BY <1>10, <2>1 DEF TTLDelete, setting, nodeVars, TypeOK
  <1>11. CASE Watch
    BY <1>11 DEF Watch, setting, TypeOK, ContainerLeft
  <1>12. CASE Heartbeat
    BY <1>12, <1>f DEF Heartbeat, setting, TypeOK, ContainerLeft
  <1>13. CASE Restart
    BY <1>13, <1>f DEF Restart, setting, TypeOK, ContainerLeft
  <1>14. CASE UNCHANGED vars
    BY <1>14 DEF vars, setting, nodeVars, TypeOK, ContainerLeft
  <1> QED
    BY <1>1, <1>2, <1>3, <1>4, <1>5, <1>6, <1>7, <1>8, <1>9, <1>10, <1>11, <1>12, <1>13, <1>14
       DEF Next, PodStep, JobStep

\* Type correctness of the shared node, with the fact it rests on: a pod
\* that runs has a container left.
THEOREM SharedTypeCorrect == Spec => []TypeOK
  <1>1. TypeInv => TypeOK
    BY DEF TypeInv
  <1> QED
    BY InitTypeInv, NextTypeInv, <1>1, PTL DEF Spec

-------------------------------------------------------------------------------
(* Labels. *)

\* A job is complete only in a plan that upgraded, and from complete jobs come all labels.
CompleteUpgraded == \A p \in Plan : job[p].state = "complete" => p \in upgraded

EarnedInv == TypeOK /\ CompleteUpgraded /\ OwnLabelEarned

LEMMA InitEarnedInv == Init => EarnedInv
  <1> SUFFICES ASSUME Init PROVE EarnedInv
    OBVIOUS
  <1>1. TypeOK
    BY InitTypeInv DEF TypeInv
  <1>2. CompleteUpgraded
    BY DEF Init, CompleteUpgraded, Podless
  <1>3. OwnLabelEarned
    BY DEF Init, OwnLabelEarned
  <1> QED
    BY <1>1, <1>2, <1>3 DEF EarnedInv

\* A job that is replaced by one without a pod is not complete.
LEMMA PodlessNotComplete ==
    ASSUME TypeOK, CompleteUpgraded, NEW p \in Plan, NEW st \in {"pending", "failed", "gone"},
           NEW t \in Nat, job' = [job EXCEPT ![p] = Podless(st, t)], upgraded \subseteq upgraded'
    PROVE  CompleteUpgraded'
  <1>1. Podless(st, t).state # "complete"
    BY PodlessType
  <1> QED
    BY <1>1 DEF CompleteUpgraded, TypeOK

LEMMA NextEarnedInv == EarnedInv /\ [Next]_vars /\ TypeOK' => EarnedInv'
  <1> SUFFICES ASSUME EarnedInv, [Next]_vars, TypeOK' PROVE CompleteUpgraded' /\ OwnLabelEarned'
    BY DEF EarnedInv
  <1> USE DEF EarnedInv
  <1>i. ASSUME NEW p \in Plan, EnqueueOrDelete(p), upgraded' = upgraded
        PROVE  CompleteUpgraded'
    <2>1. CASE job' = job
      BY <1>i, <2>1 DEF CompleteUpgraded
    <2>2. CASE job' = [job EXCEPT ![p] = Podless("gone", 0)]
      BY <1>i, <2>2, PodlessNotComplete
    <2> QED
      BY <1>i, <2>1, <2>2 DEF EnqueueOrDelete
  <1>1. ASSUME NEW p \in Plan, PodStart(p) PROVE CompleteUpgraded' /\ OwnLabelEarned'
    BY <1>1 DEF PodStart, nodeVars, TypeOK, CompleteUpgraded, OwnLabelEarned
  <1>2. ASSUME NEW p \in Plan, ContainerStarts(p) PROVE CompleteUpgraded' /\ OwnLabelEarned'
    BY <1>2 DEF ContainerStarts, nodeVars, TypeOK, CompleteUpgraded, OwnLabelEarned
  <1>3. ASSUME NEW p \in Plan, ContainerEnds(p) PROVE CompleteUpgraded' /\ OwnLabelEarned'
    <2>1. node'.labels = node.labels /\ cache' = cache /\ upgraded \subseteq upgraded'
      BY <1>3 DEF ContainerEnds, TypeOK, NodeRecord
    <2>2. OwnLabelEarned'
      BY <2>1 DEF OwnLabelEarned
    <2>3. CompleteUpgraded'
      BY <1>3 DEF ContainerEnds, TypeOK, Job, CompleteUpgraded
    <2> QED
      BY <2>2, <2>3
  <1>4. ASSUME NEW p \in Plan, PodFails(p) PROVE CompleteUpgraded' /\ OwnLabelEarned'
    <2>1. job[p].tries \in Nat /\ job[p].tries + 1 \in Nat
      BY DEF TypeOK, Job
    <2>2. \/ job' = [job EXCEPT ![p] = Podless("pending", job[p].tries + 1)]
          \/ job' = [job EXCEPT ![p] = Podless("failed", job[p].tries)]
      BY <1>4 DEF PodFails, TypeOK
    <2>3. CompleteUpgraded'
      BY <1>4, <2>1, <2>2, PodlessNotComplete DEF PodFails
    <2> QED
      BY <1>4, <2>3 DEF PodFails, nodeVars, OwnLabelEarned
  <1>5. ASSUME NEW p \in Plan, DeadlinePasses(p) PROVE CompleteUpgraded' /\ OwnLabelEarned'
    <2>1. job[p].tries \in Nat
      BY DEF TypeOK, Job
    <2>2. CompleteUpgraded'
      BY <1>5, <2>1, PodlessNotComplete DEF DeadlinePasses
    <2> QED
      BY <1>5, <2>2 DEF DeadlinePasses, nodeVars, OwnLabelEarned
  <1>6. ASSUME NEW p \in Plan, HandleOther(p) PROVE CompleteUpgraded' /\ OwnLabelEarned'
    BY <1>6, <1>i DEF HandleOther, nodeVars, OwnLabelEarned
  <1>7. ASSUME NEW p \in Plan, HandleComplete(p) PROVE CompleteUpgraded' /\ OwnLabelEarned'
    <2>1. p \in upgraded
      BY <1>7 DEF HandleComplete, CompleteUpgraded
    <2>2. cache'.labels \subseteq cache.labels \cup {p}
      BY <1>7 DEF HandleComplete, Tagged
    <2> QED
      BY <1>7, <2>1, <2>2 DEF HandleComplete, CompleteUpgraded, OwnLabelEarned
  <1>8. ASSUME NEW p \in Plan, UpdateNode(p) PROVE CompleteUpgraded' /\ OwnLabelEarned'
    <2>1. CASE Refused(p)
      BY <1>8, <2>1 DEF UpdateNode, Refused, NodeWritten, CompleteUpgraded, OwnLabelEarned
    <2>2. CASE node' = cache /\ EnqueueOrDelete(p)
      BY <1>8, <2>2, <1>i DEF UpdateNode, OwnLabelEarned
    <2> QED
      BY <1>8, <2>1, <2>2 DEF UpdateNode, NodeWritten
  <1>9. ASSUME NEW p \in Plan, Elapse(p) PROVE CompleteUpgraded' /\ OwnLabelEarned'
    BY <1>9 DEF Elapse, nodeVars, TypeOK, CompleteUpgraded, OwnLabelEarned
  <1>10. ASSUME NEW p \in Plan, TTLDelete(p) PROVE CompleteUpgraded' /\ OwnLabelEarned'
    <2>1. CompleteUpgraded'
      BY <1>10, PodlessNotComplete DEF TTLDelete
    <2> QED
      BY <1>10, <2>1 DEF TTLDelete, nodeVars, OwnLabelEarned
  <1>11. CASE Watch \/ Heartbeat \/ Restart \/ UNCHANGED vars
    BY <1>11 DEF Watch, Heartbeat, Restart, vars, nodeVars, CompleteUpgraded, OwnLabelEarned
  <1> QED
    BY <1>1, <1>2, <1>3, <1>4, <1>5, <1>6, <1>7, <1>8, <1>9, <1>10, <1>11
       DEF Next, PodStep, JobStep

\* With any number of plans on the node, whose job handlers change one cached object and
\* write what it has become, a plan's label comes only from a job of that plan that
\* succeeded.
THEOREM OwnLabelsEarned == Spec => []OwnLabelEarned
  <1>1. EarnedInv => OwnLabelEarned
    BY DEF EarnedInv
  <1> QED
    BY InitEarnedInv, NextEarnedInv, SharedTypeCorrect, <1>1, PTL DEF Spec

-------------------------------------------------------------------------------
(* Exclusive plans. *)

\* A step that starts no pod keeps exclusive plans apart.
LEMMA NoneStarted ==
    ASSUME ExclusiveApart, shape' = shape,
           \A p \in Plan : job'[p].state = "running" => job[p].state = "running"
    PROVE  ExclusiveApart'
  BY DEF ExclusiveApart

LEMMA NextExclusiveApart == TypeOK /\ ExclusiveApart /\ [Next]_vars => ExclusiveApart'
  <1> SUFFICES ASSUME TypeOK, ExclusiveApart, [Next]_vars PROVE ExclusiveApart'
    OBVIOUS
  <1>s. shape' = shape
    BY DEF Next, PodStep, JobStep, PodStart, ContainerStarts, ContainerEnds, PodFails,
           DeadlinePasses, HandleOther, HandleComplete, UpdateNode, Elapse, TTLDelete, Watch,
           Heartbeat, Restart, vars, setting
  <1> DEFINE NoStart == \A p \in Plan : job'[p].state = "running" => job[p].state = "running"
  <1>g. ASSUME NEW p \in Plan, NEW st \in {"pending", "failed", "gone"}, NEW t \in Nat,
               job' = [job EXCEPT ![p] = Podless(st, t)]
        PROVE  NoStart
    <2>1. Podless(st, t).state # "running"
      BY PodlessType
    <2> QED
      BY <1>g, <2>1 DEF TypeOK
  <1>i. ASSUME NEW p \in Plan, EnqueueOrDelete(p) PROVE NoStart
    <2>1. CASE job' = [job EXCEPT ![p] = Podless("gone", 0)]
      BY <2>1, <1>g
    <2> QED
      BY <1>i, <2>1 DEF EnqueueOrDelete
  <1>1. ASSUME NEW p \in Plan, PodStart(p) PROVE ExclusiveApart'
    <2>1. ASSUME NEW q \in Plan, q # p, shape[p].exclusive, shape[q].exclusive
          PROVE  job[q].state # "running"
      BY <1>1, <2>1 DEF PodStart, Excluded, KeepsAway
    <2>2. \A q \in Plan \ {p} : job'[q] = job[q]
      BY <1>1 DEF PodStart, TypeOK
    <2> QED
      BY <1>s, <2>1, <2>2 DEF ExclusiveApart
  <1>2. ASSUME NEW p \in Plan, ContainerStarts(p) PROVE NoStart
    BY <1>2 DEF ContainerStarts, TypeOK, Job
  <1>3. ASSUME NEW p \in Plan, ContainerEnds(p) PROVE NoStart
    BY <1>3 DEF ContainerEnds, TypeOK, Job
  <1>4. ASSUME NEW p \in Plan, PodFails(p) PROVE NoStart
    <2>1. job[p].tries \in Nat /\ job[p].tries + 1 \in Nat
      BY DEF TypeOK, Job
    <2>2. \/ job' = [job EXCEPT ![p] = Podless("pending", job[p].tries + 1)]
          \/ job' = [job EXCEPT ![p] = Podless("failed", job[p].tries)]
      BY <1>4 DEF PodFails, TypeOK
    <2> QED
      BY <2>1, <2>2, <1>g
  <1>5. ASSUME NEW p \in Plan, DeadlinePasses(p) PROVE NoStart
    <2>1. job[p].tries \in Nat
      BY DEF TypeOK, Job
    <2> QED
      BY <1>5, <2>1, <1>g DEF DeadlinePasses
  <1>6. ASSUME NEW p \in Plan, HandleOther(p) PROVE NoStart
    BY <1>6, <1>i DEF HandleOther
  <1>7. ASSUME NEW p \in Plan, HandleComplete(p) PROVE NoStart
    BY <1>7 DEF HandleComplete
  <1>8. ASSUME NEW p \in Plan, UpdateNode(p) PROVE NoStart
    BY <1>8, <1>i DEF UpdateNode, Refused
  <1>9. ASSUME NEW p \in Plan, Elapse(p) PROVE NoStart
    BY <1>9 DEF Elapse, TypeOK, Job
  <1>10. ASSUME NEW p \in Plan, TTLDelete(p) PROVE NoStart
    BY <1>10, <1>g DEF TTLDelete
  <1>11. ASSUME Watch \/ Heartbeat \/ Restart \/ UNCHANGED vars PROVE NoStart
    BY <1>11 DEF Watch, Heartbeat, Restart, vars
  <1> HIDE DEF NoStart
  <1>12. NoStart => ExclusiveApart'
    BY <1>s, NoneStarted DEF NoStart
  <1> QED
    BY <1>1, <1>2, <1>3, <1>4, <1>5, <1>6, <1>7, <1>8, <1>9, <1>10, <1>11, <1>12
       DEF Next, PodStep, JobStep

\* The anti-affinity that job.New gives to the pods keeps two exclusive plans from running
\* on the node at once, in every order of starts, failures and replacements.
THEOREM ExclusivePlansApart == Spec => []ExclusiveApart
  <1>1. Init => ExclusiveApart
    BY DEF Init, ExclusiveApart, Podless
  <1> QED
    BY <1>1, NextExclusiveApart, SharedTypeCorrect, PTL DEF Spec

-------------------------------------------------------------------------------
(* Who makes the node schedulable. *)

\* The object in the cache is schedulable, at the resourceVersion of a node that is not,
\* only by the handler of a plan that cordons and is done.
CacheUncordoned ==
    node.unschedulable /\ ~cache.unschedulable /\ ~behind =>
        \E p \in upgraded : Cordons(shape[p])

LEMMA NextCacheUncordoned ==
    EarnedInv /\ CacheUncordoned /\ [Next]_vars =>
        CacheUncordoned' /\ (node.unschedulable /\ ~node'.unschedulable =>
                                \E p \in upgraded : Cordons(shape[p]))
  <1> DEFINE Earned == \E p \in upgraded : Cordons(shape[p])
             Goal == CacheUncordoned' /\ (node.unschedulable /\ ~node'.unschedulable => Earned)
  <1> SUFFICES ASSUME EarnedInv, CacheUncordoned, [Next]_vars PROVE Goal
    OBVIOUS
  <1>n. ASSUME UNCHANGED <<setting, nodeVars, upgraded>> PROVE Goal
    BY <1>n DEF setting, nodeVars, CacheUncordoned
  <1>1. ASSUME NEW p \in Plan, PodStart(p) PROVE Goal
    BY <1>1, <1>n DEF PodStart
  <1>2. ASSUME NEW p \in Plan, ContainerStarts(p) PROVE Goal
    BY <1>2, <1>n DEF ContainerStarts
  <1>3. ASSUME NEW p \in Plan, ContainerEnds(p) PROVE Goal
    <2>1. /\ cache' = cache /\ shape' = shape /\ upgraded \subseteq upgraded'
          /\ node.unschedulable => node'.unschedulable
          /\ ~behind' => ~behind /\ (node'.unschedulable => node.unschedulable)
      BY <1>3 DEF ContainerEnds, setting, EarnedInv, TypeOK, NodeRecord
    <2> QED
      BY <2>1 DEF CacheUncordoned
  <1>4. ASSUME NEW p \in Plan, PodFails(p) PROVE Goal
    BY <1>4, <1>n DEF PodFails
  <1>5. ASSUME NEW p \in Plan, DeadlinePasses(p) PROVE Goal
    BY <1>5, <1>n DEF DeadlinePasses
  <1>6. ASSUME NEW p \in Plan, HandleOther(p) PROVE Goal
    BY <1>6, <1>n DEF HandleOther
  <1>7. ASSUME NEW p \in Plan, HandleComplete(p) PROVE Goal
    <2>1. /\ node' = node /\ behind' = behind /\ shape' = shape /\ upgraded' = upgraded
          /\ p \in upgraded
          /\ cache'.unschedulable = (cache.unschedulable /\ ~Cordons(shape[p]))
      BY <1>7 DEF HandleComplete, Tagged, setting, EarnedInv, CompleteUpgraded
    <2> QED
      BY <2>1 DEF CacheUncordoned
  <1>8. ASSUME NEW p \in Plan, UpdateNode(p) PROVE Goal
    <2>1. CASE UNCHANGED <<node, behind>>
      BY <1>8, <2>1, <1>n DEF UpdateNode, nodeVars
    <2>2. CASE node' = cache /\ ~behind
      BY <1>8, <2>2 DEF UpdateNode, setting, CacheUncordoned
    <2> QED
      BY <1>8, <2>1, <2>2 DEF UpdateNode, Refused, NodeWritten
  <1>9. ASSUME NEW p \in Plan, Elapse(p) PROVE Goal
    BY <1>9, <1>n DEF Elapse
  <1>10. ASSUME NEW p \in Plan, TTLDelete(p) PROVE Goal
    BY <1>10, <1>n DEF TTLDelete
  <1>11. CASE Watch \/ Heartbeat \/ Restart
    BY <1>11 DEF Watch, Heartbeat, Restart, setting, CacheUncordoned
  <1>12. CASE UNCHANGED vars
    BY <1>12, <1>n DEF vars
  <1> QED
    BY <1>1, <1>2, <1>3, <1>4, <1>5, <1>6, <1>7, <1>8, <1>9, <1>10, <1>11, <1>12
       DEF Next, PodStep, JobStep

\* A node that a user cordoned stays so until a plan that cordons is done: the handlers of
\* plans that do not cordon write the object too, and it holds only what was decided.
THEOREM UncordonsEarned == Spec => UncordonEarned
  <1>1. Init => CacheUncordoned
    BY DEF Init, CacheUncordoned
  <1>2. EarnedInv /\ CacheUncordoned /\ [Next]_vars =>
          [node.unschedulable /\ ~node'.unschedulable => \E p \in upgraded : Cordons(shape[p])]_vars
    BY NextCacheUncordoned
  <1> QED
    BY <1>1, <1>2, InitEarnedInv, NextEarnedInv, NextCacheUncordoned, SharedTypeCorrect, PTL
       DEF Spec, UncordonEarned

-------------------------------------------------------------------------------
(* The node while a plan that cordons it is under way. *)

\* The job is neither done nor given up.
Waits(p) == job[p].state \in {"pending", "running"}

\* A container of the pod has cordoned the node.
CordonPassed(p) == \E i \in 1..job[p].done : Containers(shape[p])[i] \in {"cordon", "drain"}

\* No other plan that cordons has been applied.
FirstToCordon(p) == \A q \in upgraded \ {p} : ~Cordons(shape[q])

\* Such a node is held until the pod ends; a plan that waits has not been applied.
CordonHeld ==
    \A p \in Plan : Waits(p) /\ CordonPassed(p) /\ FirstToCordon(p) => node.unschedulable

WaitsNotUpgraded == \A p \in Plan : Waits(p) => p \notin upgraded

HeldInv == TypeInv /\ EarnedInv /\ CacheUncordoned /\ CordonHeld /\ WaitsNotUpgraded

\* What every step but the end of a container does to the pods: none goes on.
Unpassed ==
    /\ shape' = shape /\ upgraded' = upgraded
    /\ \A p \in Plan : Waits(p)' => /\ Waits(p)
                                    /\ job'[p].done = job[p].done \/ job'[p].done = 0

\* Only the handler of a plan that cordons and is done releases the node, and that is not
\* the plan under way.
LEMMA HeldUnpassed ==
    ASSUME CordonHeld, WaitsNotUpgraded, Unpassed,
           node.unschedulable /\ ~node'.unschedulable => \E q \in upgraded : Cordons(shape[q])
    PROVE  CordonHeld' /\ WaitsNotUpgraded'
  <1>1. ASSUME NEW p \in Plan, Waits(p)', CordonPassed(p)', FirstToCordon(p)'
        PROVE  node'.unschedulable
    <2>1. Waits(p) /\ job'[p].done = job[p].done
      <3>1. job'[p].done # 0
        BY <1>1 DEF CordonPassed
      <3> QED BY <1>1, <3>1 DEF Unpassed
    <2>2. CordonPassed(p) /\ FirstToCordon(p)
      BY <1>1, <2>1 DEF CordonPassed, FirstToCordon, Unpassed
    <2>3. node.unschedulable /\ p \notin upgraded
      BY <2>1, <2>2 DEF CordonHeld, WaitsNotUpgraded
    <2> QED BY <2>2, <2>3 DEF FirstToCordon
  <1>2. ASSUME NEW p \in Plan, Waits(p)' PROVE p \notin upgraded'
    BY <1>2 DEF Unpassed, WaitsNotUpgraded
  <1> QED BY <1>1, <1>2 DEF CordonHeld, WaitsNotUpgraded

\* Every step but the end of a container is one of those.
LEMMA StepsUnpassed ==
    ASSUME TypeOK, [Next]_vars, \A p \in Plan : ~ContainerEnds(p)
    PROVE  Unpassed
  <1>s. shape' = shape /\ upgraded' = upgraded
    BY DEF Next, PodStep, JobStep, PodStart, ContainerStarts, PodFails,
           DeadlinePasses, HandleOther, HandleComplete, UpdateNode, Elapse, TTLDelete, Watch,
           Heartbeat, Restart, vars, setting
  <1> DEFINE Goal == \A p \in Plan : Waits(p)' =>
                        Waits(p) /\ (job'[p].done = job[p].done \/ job'[p].done = 0)
  <1>n. ASSUME job' = job PROVE Goal
    BY <1>n DEF Waits
  <1>g. ASSUME NEW p \in Plan, NEW st \in {"pending", "failed", "gone"}, NEW t \in Nat,
               job' = [job EXCEPT ![p] = Podless(st, t)], st = "pending" => Waits(p)
        PROVE  Goal
    <2>1. Podless(st, t).state = st /\ Podless(st, t).done = 0
      BY PodlessType
    <2> HIDE DEF Goal
    <2>2. job'[p].state = st /\ job'[p].done = 0 /\ \A q \in Plan \ {p} : job'[q] = job[q]
      BY <1>g, <2>1 DEF TypeOK
    <2> QED BY <1>g, <2>2 DEF Waits, Goal
  <1>i. ASSUME NEW p \in Plan, EnqueueOrDelete(p) PROVE Goal
    <2>1. CASE job' = [job EXCEPT ![p] = Podless("gone", 0)]
      BY <2>1, <1>g
    <2> QED
      BY <1>i, <2>1, <1>n DEF EnqueueOrDelete
  <1>1. ASSUME NEW p \in Plan, PodStart(p) PROVE Goal
    BY <1>1 DEF PodStart, TypeOK, Job, Waits
  <1>2. ASSUME NEW p \in Plan, ContainerStarts(p) PROVE Goal
    BY <1>2 DEF ContainerStarts, TypeOK, Job, Waits
  <1>3. ASSUME NEW p \in Plan, PodFails(p) PROVE Goal
    <2>1. job[p].tries \in Nat /\ job[p].tries + 1 \in Nat
      BY DEF TypeOK, Job
    <2>2. \/ job' = [job EXCEPT ![p] = Podless("pending", job[p].tries + 1)]
          \/ job' = [job EXCEPT ![p] = Podless("failed", job[p].tries)]
      BY <1>3 DEF PodFails, TypeOK
    <2>3. Waits(p)
      BY <1>3 DEF PodFails, Waits
    <2> QED
      BY <2>1, <2>2, <2>3, <1>g
  <1>4. ASSUME NEW p \in Plan, DeadlinePasses(p) PROVE Goal
    <2>1. job[p].tries \in Nat
      BY DEF TypeOK, Job
    <2> QED
      BY <1>4, <2>1, <1>g DEF DeadlinePasses
  <1>5. ASSUME NEW p \in Plan, HandleOther(p) \/ UpdateNode(p) PROVE Goal
    BY <1>5, <1>i, <1>n DEF HandleOther, UpdateNode, Refused
  <1>6. ASSUME NEW p \in Plan, Elapse(p) PROVE Goal
    BY <1>6 DEF Elapse, TypeOK, Job, Waits
  <1>7. ASSUME NEW p \in Plan, TTLDelete(p) PROVE Goal
    BY <1>7, <1>g DEF TTLDelete
  <1>8. ASSUME NEW p \in Plan, HandleComplete(p) PROVE Goal
    BY <1>8, <1>n DEF HandleComplete
  <1>9. ASSUME Watch \/ Heartbeat \/ Restart \/ UNCHANGED vars PROVE Goal
    BY <1>9, <1>n DEF Watch, Heartbeat, Restart, vars
  <1> HIDE DEF Goal
  <1>10. Goal
    BY <1>1, <1>2, <1>3, <1>4, <1>5, <1>6, <1>7, <1>8, <1>9 DEF Next, PodStep, JobStep
  <1> QED BY <1>s, <1>10 DEF Unpassed, Goal

\* The container that has ended has cordoned the node itself, if it is the one.
LEMMA HeldPassed ==
    ASSUME TypeOK, CordonHeld, WaitsNotUpgraded, NEW p \in Plan, ContainerEnds(p)
    PROVE  CordonHeld' /\ WaitsNotUpgraded'
  <1>1. /\ shape' = shape /\ upgraded \subseteq upgraded'
        /\ node.unschedulable => node'.unschedulable
        /\ Running(p) \in {"cordon", "drain"} => node'.unschedulable
        /\ \A q \in Plan \ {p} : job'[q] = job[q] /\ (q \in upgraded' => q \in upgraded)
    BY DEF ContainerEnds, setting, TypeOK, NodeRecord
  <1>2. /\ job[p].done \in Nat /\ job'[p].done = job[p].done + 1
        /\ job'[p].state # "complete" => job'[p].state = "running" /\ upgraded' = upgraded
    BY DEF ContainerEnds, TypeOK, Job
  <1>3. Waits(p)
    BY DEF ContainerEnds, Waits
  <1>4. ASSUME NEW q \in Plan, Waits(q)', CordonPassed(q)', FirstToCordon(q)'
        PROVE  node'.unschedulable
    <2>1. Waits(q) /\ FirstToCordon(q)
      BY <1>1, <1>3, <1>4 DEF Waits, FirstToCordon
    <2>2. CASE q # p
      BY <1>1, <1>4, <2>1, <2>2 DEF CordonPassed, CordonHeld
    <2>3. CASE q = p
      <3>1. PICK i \in 1..(job[p].done + 1) : Containers(shape[p])[i] \in {"cordon", "drain"}
        BY <1>1, <1>2, <1>4, <2>3 DEF CordonPassed
      <3>2. CASE i = job[p].done + 1
        BY <1>1, <3>1, <3>2 DEF Running
      <3>3. CASE i # job[p].done + 1
        <4>1. i \in 1..job[p].done
          BY <1>2, <3>3
        <4> QED BY <1>1, <2>1, <2>3, <3>1, <4>1 DEF CordonPassed, CordonHeld
      <3> QED BY <3>2, <3>3
    <2> QED BY <2>2, <2>3
  <1>5. ASSUME NEW q \in Plan, Waits(q)' PROVE q \notin upgraded'
    BY <1>1, <1>2, <1>3, <1>5 DEF Waits, WaitsNotUpgraded
  <1> QED BY <1>4, <1>5 DEF CordonHeld, WaitsNotUpgraded

LEMMA HeldStep == HeldInv /\ [Next]_vars => HeldInv'
  <1> SUFFICES ASSUME HeldInv, [Next]_vars PROVE HeldInv'
    OBVIOUS
  <1>1. TypeInv' /\ TypeOK /\ TypeOK'
    BY NextTypeInv DEF HeldInv, TypeInv
  <1>2. EarnedInv' /\ CacheUncordoned'
    BY <1>1, NextEarnedInv, NextCacheUncordoned DEF HeldInv
  <1>3. node.unschedulable /\ ~node'.unschedulable => \E q \in upgraded : Cordons(shape[q])
    BY NextCacheUncordoned DEF HeldInv
  <1>4. CordonHeld' /\ WaitsNotUpgraded'
    BY <1>1, <1>3, HeldUnpassed, HeldPassed, StepsUnpassed DEF HeldInv
  <1> QED BY <1>1, <1>2, <1>4 DEF HeldInv

\* The node is cordoned when the upgrade container of a plan that cordons starts, unless
\* another plan that cordons has been applied on it: for any number of plans, whichever
\* handlers write the node, with pods that fail and are replaced.
THEOREM CordonComesFirst == Spec => CordonedFirst
  <1> DEFINE A == \A p \in Plan :
                    /\ StartsUpgrade(p) /\ Cordons(shape[p])
                    /\ \A q \in upgraded \ {p} : ~Cordons(shape[q])
                    => node.unschedulable
  <1>1. Init => HeldInv
    <2> SUFFICES ASSUME Init PROVE HeldInv
      OBVIOUS
    <2>1. TypeInv /\ EarnedInv
      BY InitTypeInv, InitEarnedInv
    <2>2. CacheUncordoned /\ WaitsNotUpgraded
      BY DEF Init, CacheUncordoned, WaitsNotUpgraded
    <2>3. \A p \in Plan : job[p] = Podless("pending", 0)
      BY DEF Init
    <2>4. \A p \in Plan : job[p].done = 0
      BY <2>3, PodlessType
    <2>5. CordonHeld
      BY <2>4 DEF CordonHeld, CordonPassed
    <2> QED BY <2>1, <2>2, <2>5 DEF HeldInv
  <1>2. ASSUME HeldInv, [Next]_vars PROVE [A]_vars
    <2> SUFFICES ASSUME NEW p \in Plan, StartsUpgrade(p), Cordons(shape[p]), FirstToCordon(p)
                 PROVE  node.unschedulable
      BY DEF FirstToCordon
    <2>1. TypeOK
      BY <1>2 DEF HeldInv, TypeInv
    <2>2. Waits(p)
      <3>1. job'[p] # job[p] /\ job'[p].busy
        BY DEF StartsUpgrade
      <3>2. PICK q \in Plan : ContainerStarts(q)
        <4>1. CASE \E q \in Plan : ContainerStarts(q)
          BY <4>1
        <4>2. ASSUME NEW q \in Plan, PodStart(q) \/ ContainerEnds(q) \/ Elapse(q) PROVE FALSE
          BY <2>1, <3>1, <4>2 DEF PodStart, ContainerEnds, Elapse, TypeOK, Job, StartsUpgrade
        <4>3. ASSUME NEW q \in Plan, NEW st, NEW t, job' = [job EXCEPT ![q] = Podless(st, t)]
              PROVE  FALSE
          BY <2>1, <3>1, <4>3 DEF TypeOK, Podless
        <4>4. ASSUME NEW q \in Plan, EnqueueOrDelete(q) PROVE FALSE
          BY <3>1, <4>3, <4>4 DEF EnqueueOrDelete
        <4>5. ASSUME NEW q \in Plan, PodFails(q) \/ DeadlinePasses(q) \/ TTLDelete(q) PROVE FALSE
          <5>1. \/ job' = [job EXCEPT ![q] = Podless("pending", job[q].tries + 1)]
                \/ job' = [job EXCEPT ![q] = Podless("failed", job[q].tries)]
                \/ job' = [job EXCEPT ![q] = Podless("gone", 0)]
            BY <2>1, <4>5 DEF PodFails, DeadlinePasses, TTLDelete, TypeOK
          <5> QED BY <4>3, <5>1
        <4>6. ASSUME NEW q \in Plan, JobStep(q) PROVE FALSE
          BY <3>1, <4>4, <4>6 DEF JobStep, HandleOther, HandleComplete, UpdateNode, Refused
        <4>7. CASE Watch \/ Heartbeat \/ Restart \/ UNCHANGED vars
          BY <3>1, <4>7 DEF Watch, Heartbeat, Restart, vars
        <4> QED BY <1>2, <4>1, <4>2, <4>5, <4>6, <4>7 DEF Next, PodStep
      <3> QED BY <2>1, <3>1, <3>2 DEF ContainerStarts, Waits, TypeOK
    <2>3. CordonPassed(p)
      <3>1. job[p].done \in Nat /\ Containers(shape[p])[job[p].done + 1] = "upgrade"
        BY <2>1 DEF TypeOK, Job, StartsUpgrade, Running
      <3> QED BY <3>1, CordonThenUpgrade DEF CordonPassed
    <2> QED BY <1>2, <2>2, <2>3 DEF HeldInv, CordonHeld
  <1>3. Spec => [][A]_vars
    BY <1>1, <1>2, HeldStep, PTL DEF Spec
  <1> QED BY <1>3 DEF CordonedFirst
===============================================================================
