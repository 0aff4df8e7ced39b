------------------------------ MODULE MCUpgrade -------------------------------
(***************************************************************************)
(* Small instances of UpgradeController: the plan specs of each run, and   *)
(* the constants they share.                                               *)
(***************************************************************************)
EXTENDS UpgradeContract

MCMessage == {"Invalid", "SecretMissing", "Unresolvable", "NotReady", "OutsideWindow"} \cup Node

MCHostname == [n \in Node |-> n]

\* The order of strings.
MCRank == [s \in Node |-> CASE s = "n1" -> 1 [] s = "n2" -> 2 [] s = "n3" -> 3]

MCMunge == [v \in RawVersion |-> IF v = "v1+r" THEN "v1-r" ELSE v]

\* One order of the nodes for every hash but that of v2, which swaps the first two.
MCNodeOrder(hash, n) ==
    LET swapped == hash # <<>> /\ hash[1] = "v2"
    IN  CASE n = "n1" -> IF swapped THEN 2 ELSE 1
          [] n = "n2" -> IF swapped THEN 1 ELSE 2
          [] n = "n3" -> 3

\* A static plan with one node at a time.
BaseSpec == [version |-> "v1+r", channel |-> FALSE, valid |-> TRUE, selectable |-> TRUE,
             secret |-> "none", annotated |-> FALSE, upgrade |-> "u1", cordon |-> TRUE,
             concurrency |-> 1, window |-> FALSE, delay |-> FALSE]

BaseSpecs == {BaseSpec}

WatchingSpec == [BaseSpec EXCEPT !.secret = "watched"]

WatchingSpecs == {WatchingSpec}

\* What a user may make of the plan, which waits for its window at first: another version
\* or container, something invalid, a spec without a version or with a bad selector.
WaitingSpec == [BaseSpec EXCEPT !.secret = "watched", !.window = TRUE, !.cordon = FALSE]

WaitingSpecs == {WaitingSpec}

EditSpecs == {WaitingSpec,
              [WaitingSpec EXCEPT !.version = "v2"],
              [WaitingSpec EXCEPT !.upgrade = "u2"],
              [WaitingSpec EXCEPT !.valid = FALSE],
              [WaitingSpec EXCEPT !.version = NoVersion],
              [WaitingSpec EXCEPT !.selectable = FALSE]}

ChangeSpecs == {WatchingSpec, [WatchingSpec EXCEPT !.version = "v2"]}

DelaySpecs == {[BaseSpec EXCEPT !.delay = TRUE, !.cordon = FALSE]}

WindowSpecs == {[BaseSpec EXCEPT !.window = TRUE]}

VersionSpecs == {BaseSpec, [BaseSpec EXCEPT !.version = "v2"]}

\* Plans that do not cordon: the pods write nothing to the nodes.
PlainSpecs == {[s EXCEPT !.cordon = FALSE] : s \in VersionSpecs}

FirstPlainSpecs == {s \in PlainSpecs : s.version = BaseSpec.version}

\* The same plan, one node or two at a time.
RolloutSpecs == {[s EXCEPT !.concurrency = c] : s \in FirstPlainSpecs, c \in 1..2}

===============================================================================
