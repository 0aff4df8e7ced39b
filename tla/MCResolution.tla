----------------------------- MODULE MCResolution -----------------------------
(***************************************************************************)
(* A small instance of PlanResolution: a plan that follows a channel, or   *)
(* has a version of its own, or neither.                                   *)
(***************************************************************************)
EXTENDS PlanResolution

MCMessage == {"Invalid", "SecretMissing", "Unresolvable", "NotReady", "JobFailed"}

MCMunge == [v \in RawVersion |-> IF v = "v2+r" THEN "v2-r" ELSE v]

ChannelSpec == [version |-> NoVersion, channel |-> TRUE, valid |-> TRUE, selectable |-> TRUE,
                secret |-> "none", annotated |-> FALSE, upgrade |-> "u1", cordon |-> FALSE,
                concurrency |-> 1, window |-> FALSE, delay |-> FALSE]

MCSpecs == {ChannelSpec,
            [ChannelSpec EXCEPT !.version = "v1"],
            [ChannelSpec EXCEPT !.channel = FALSE],
            [ChannelSpec EXCEPT !.valid = FALSE]}

MCInitialSpecs == {ChannelSpec, [ChannelSpec EXCEPT !.version = "v1"]}

\* A release, a redirect of another kind, which is answered with the URL's own last
\* element, and a server error.
MCResponse == {[code |-> 302, location |-> "v2+r"], [code |-> 307, location |-> "v2+r"],
               [code |-> 503, location |-> "v1"]}

NotSet == {}
===============================================================================
