------------------------------ MODULE PlanContract ----------------------------
(***************************************************************************)
(* What a Plan promises to its user, without caches, queues, handlers or   *)
(* jobs: the state a user can see and the steps it may take.               *)
(*                                                                         *)
(* A node is labelled with a hash only after it was applied on that node.  *)
(* When a plan says that it is complete, the version that it names in the  *)
(* same breath was applied on every node that users left alone.  A plan    *)
(* that is created, or created again, names no version and is not complete.*)
(***************************************************************************)
CONSTANTS
    Node,           \* the nodes that may be selected
    Hash,           \* the hashes that name a rollout
    VersionValue,   \* the versions a plan may name, and its having none yet
    Unnamed,        \* the member of VersionValue that means none
    UserLabel       \* what a user may set the plan's label on a node to

VARIABLES
    applied,        \* node, hash and version of all that was applied
    label,          \* the plan's label on each node
    claim,          \* the version the plan names, and whether it says it is complete
    exempt          \* the nodes that users changed

vars == <<applied, label, claim, exempt>>

\* There is no plan, or one that is not complete.
Withdrawn == [exists |-> FALSE, version |-> Unnamed, complete |-> FALSE]

Open(v) == [exists |-> TRUE, version |-> v, complete |-> FALSE]

Done(v) == [exists |-> TRUE, version |-> v, complete |-> TRUE]

Init ==
    /\ applied = {}
    /\ label \in [Node -> UserLabel]
    /\ claim = Open(Unnamed)
    /\ exempt = {}

\* An upgrade of a node succeeds, whatever the plan says by then.
Succeed ==
    /\ \E n \in Node, h \in Hash, v \in VersionValue : applied' = applied \cup {<<<<n, h>>, v>>}
    /\ UNCHANGED <<label, claim, exempt>>

\* One node at a time is labelled, and with what was applied on it.
Tag ==
    /\ \E n \in Node, h \in Hash :
         /\ \E v \in VersionValue : <<<<n, h>>, v>> \in applied
         /\ label' = [label EXCEPT ![n] = h]
    /\ UNCHANGED <<applied, claim, exempt>>

\* The version may be one that the plan has not named before.
Complete ==
    /\ claim.exists
    /\ \E v \in VersionValue :
         /\ \A n \in Node \ exempt : \E h \in Hash : <<<<n, h>>, v>> \in applied
         /\ claim' = Done(v)
    /\ UNCHANGED <<applied, label, exempt>>

\* There is something to do: a version, a node, a secret or the spec is new.
Reopen ==
    /\ claim.exists
    /\ \E v \in VersionValue : claim' = Open(v)
    /\ UNCHANGED <<applied, label, exempt>>

Withdraw ==
    /\ claim' = Withdrawn
    /\ UNCHANGED <<applied, label, exempt>>

Announce ==
    /\ ~claim.exists /\ claim' = Open(Unnamed)
    /\ UNCHANGED <<applied, label, exempt>>

Exempt ==
    /\ \E n \in Node :
         /\ exempt' = exempt \cup {n}
         /\ \E l \in UserLabel \cup {label[n]} : label' = [label EXCEPT ![n] = l]
    /\ UNCHANGED <<applied, claim>>

Next == Succeed \/ Tag \/ Complete \/ Reopen \/ Withdraw \/ Announce \/ Exempt

Spec == Init /\ [][Next]_vars
===============================================================================
