------------------------------- MODULE MCFlow -------------------------------
(* Instances of FlowRuntime: a pair of tasks and a quorum graph.           *)
EXTENDS FlowRuntime

CONSTANTS a, b, c, d, g, h

AllOf == [mode |-> "all", count |-> 1]
AnyOf == [mode |-> "any", count |-> 1]
TwoOf == [mode |-> "count", count |-> 2]

\* Two independent tasks that want the same resource; one may be retried.
PairOrder == <<a, b>>
PairRequires == [t \in Tasks |-> {}]
PairQuorum == [t \in Tasks |-> AllOf]
PairAttemptLimit == [t \in Tasks |-> IF t = a THEN 2 ELSE 1]
PairResources == [t \in Tasks |-> {"repo"}]
NoNames == [t \in Tasks |-> {}]

\* Three roots; d joins two of them, and two more tasks wait in line behind it.
FanOrder == <<a, b, c, d, g, h>>
FanRequires == [t \in Tasks |-> CASE t = d -> {a, b} [] t = g -> {d} [] t = h -> {g} [] OTHER -> {}]
FanQuorum == [t \in Tasks |-> AllOf]
FanAttemptLimit == [t \in Tasks |-> 1]

\* Two roots, a join of either that needs a's plan, and a join of any two.
JoinOrder == <<a, b, c, d>>
JoinRequires == [t \in Tasks |-> CASE t = c -> {a, b} [] t = d -> {a, b, c} [] OTHER -> {}]
JoinQuorum == [t \in Tasks |-> CASE t = c -> AnyOf [] t = d -> TwoOf [] OTHER -> AllOf]
JoinAttemptLimit == [t \in Tasks |-> IF t = a THEN 2 ELSE 1]
JoinConsumes == [t \in Tasks |-> IF t = c THEN {"plan"} ELSE {}]
JoinProduces == [t \in Tasks |-> IF t = a THEN {"plan"} ELSE {}]

\* A task and the one that builds on it.
ChainOrder == <<a, b>>
ChainRequires == [t \in Tasks |-> IF t = b THEN {a} ELSE {}]
=============================================================================
