--------------------------- MODULE UpgradeContract ----------------------------
(***************************************************************************)
(* The controller keeps the contract of a Plan: UpgradeController under    *)
(* the refinement mapping below implements PlanContract.                   *)
(***************************************************************************)
EXTENDS UpgradeController

Contract ==
    INSTANCE PlanContract WITH
        VersionValue <- Version \cup {NoVersion},
        Unnamed <- NoVersion,
        UserLabel <- {NoLabel, Disabled},
        applied <- succeeded,
        label <- [n \in Node |-> node[n].label],
        claim <- [exists |-> plan.exists,
                  version |-> IF plan.exists THEN plan.status.version ELSE NoVersion,
                  complete |-> plan.exists /\ IsTrue(plan.status.complete)],
        exempt <- touched

\* Every step of handlers, caches, cluster and users is a step of the contract or changes
\* nothing that a user sees: in particular each write of Complete and of a version, by the
\* sync or by a failed job's handler, claims what is true of the version it leaves, and no
\* job handler puts a label on a node that no job of that node and hash has earned.
KeepsContract == Contract!Spec
===============================================================================
