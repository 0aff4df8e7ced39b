---------------------------- MODULE NodeSelection -----------------------------
(***************************************************************************)
(* SelectConcurrentNodes (pkg/upgrade/plan/plan.go): the nodes a plan is   *)
(* applied on next.  Nodes already being applied on are kept; the rest of  *)
(* the concurrency is filled with candidates in an order that is fixed by  *)
(* the plan and its hash.                                                  *)
(***************************************************************************)
EXTENDS Integers, FiniteSets, Sequences

CONSTANTS
    Node,
    HostnameValue,
    Hostname,           \* the hostname of each node (pkg/upgrade/node)
    NodeOrder(_, _),    \* NodeOrder(hash, n): sha256 of node UID, plan UID and hash
    Rank                \* the place of each name and hostname in the order of strings

ASSUME NodeAssumption == IsFiniteSet(Node)

ASSUME HostnameAssumption == Hostname \in [Node -> HostnameValue]

ASSUME RankAssumption ==
    /\ Rank \in [Node \cup HostnameValue -> Nat]
    /\ \A a, b \in Node \cup HostnameValue : Rank[a] = Rank[b] => a = b

\* What the plan's label on a node says when it is not a hash.
NoLabel == <<"none">>
Disabled == <<"disabled">>

\* The nodes that match the plan's selector and do not have the hash yet.  A node
\* that lacks the label passes NotIn.
Eligible(nodes, hash) ==
    {n \in Node : nodes[n].mode = "in" /\ nodes[n].label \notin {Disabled, hash}}

\* Mutant of Kept: nodes in progress are forgotten.
KeptNone(nodes, hash, applying) == {}

Kept(nodes, hash, applying) ==
    {n \in Eligible(nodes, hash) : Hostname[n] \in applying}

Candidates(nodes, hash, applying) ==
    {n \in Eligible(nodes, hash) : Hostname[n] \notin applying}

\* T is what SelectConcurrentNodes returns (as a set: the result is sorted by name).
SelectConcurrentNodes(nodes, hash, applying, concurrency, T) ==
    LET kept == Kept(nodes, hash, applying)
        candidates == Candidates(nodes, hash, applying)
        added == T \ kept
    IN  /\ kept \subseteq T
        /\ added \subseteq candidates
        /\ \/ /\ Cardinality(kept) >= concurrency
              /\ added = {}
           \/ /\ Cardinality(kept) < concurrency
              /\ \/ Cardinality(T) = concurrency
                 \/ Cardinality(T) < concurrency /\ added = candidates
        /\ \A a \in added, c \in candidates \ added : NodeOrder(hash, a) < NodeOrder(hash, c)

\* Status.Applying as the list it is: hostnames, in the order of the names of the nodes.
ApplyingList(applying) ==
    LET T == {n \in Node : Hostname[n] \in applying}
        before(n) == {m \in T : Rank[m] < Rank[n]}
    IN  [i \in 1..Cardinality(T) |->
            Hostname[CHOOSE n \in T : Cardinality(before(n)) = i - 1]]

\* Mutant of SearchStrings: the last entry is not looked at.
SearchAllButLast(list, name) ==
    LET search[i \in 0..Len(list), j \in 0..Len(list)] ==
          IF i >= j THEN i
          ELSE LET h == (i + j) \div 2
               IN  IF Rank[list[h + 1]] < Rank[name] THEN search[h + 1, j] ELSE search[i, h]
    IN  IF list = <<>> THEN 0 ELSE search[0, Len(list) - 1] + 1

\* sort.SearchStrings, the binary search for the first entry that is not less than the
\* name: its index from 0, or the length of the list.
SearchStrings(list, name) ==
    LET search[i \in 0..Len(list), j \in 0..Len(list)] ==
          IF i >= j THEN i
          ELSE LET h == (i + j) \div 2
               IN  IF Rank[list[h + 1]] < Rank[name] THEN search[h + 1, j] ELSE search[i, h]
    IN  search[0, Len(list)]
===============================================================================
