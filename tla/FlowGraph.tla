----------------------------- MODULE FlowGraph -----------------------------
(***************************************************************************)
(* The immutable half of a flow: the task specifications a record carries  *)
(* (_models.py), and the pure dependency and readiness functions at the    *)
(* end of _runtime.py, as operators of the tasks' statuses.                *)
(***************************************************************************)
EXTENDS Naturals, FiniteSets, Sequences

CONSTANTS
    Tasks,          \* task ids
    Order,          \* the order of record.tasks, and of sorted task ids
    Requires,       \* [Tasks -> SUBSET Tasks]   TaskSpec.requires
    Quorum,         \* [Tasks -> [mode, count]]  TaskSpec.quorum
    AttemptLimit,   \* [Tasks -> Nat]            TaskPolicy.max_attempts
    Resources,      \* [Tasks -> SUBSET names]   TaskSpec.resources
    Consumes,       \* [Tasks -> SUBSET names]   TaskSpec.consumes
    Produces        \* [Tasks -> SUBSET names]   TaskSpec.produces

QuorumModes == {"all", "any", "count"}

\* TaskSpec's constructor checks; record.tasks is a tuple without duplicates.
\* A task may only require tasks added before it, so the graph is acyclic.
ASSUME GraphAssumption ==
    /\ IsFiniteSet(Tasks)
    /\ Order \in Seq(Tasks)
    /\ \A t \in Tasks : \E i \in DOMAIN Order : Order[i] = t
    /\ \A i, j \in DOMAIN Order : Order[i] = Order[j] => i = j
    /\ Requires \in [Tasks -> SUBSET Tasks]
    /\ \A i, j \in DOMAIN Order : Order[j] \in Requires[Order[i]] => j < i
    /\ Quorum \in [Tasks -> [mode : QuorumModes, count : Nat \ {0}]]
    /\ AttemptLimit \in [Tasks -> Nat \ {0}]

TaskStatuses == {"pending", "running", "succeeded", "failed", "blocked", "cancelled"}
TerminalTask == {"succeeded", "failed", "blocked", "cancelled"}
FlowStatuses == {"pending", "running", "succeeded", "failed", "cancelled"}
TerminalFlow == {"succeeded", "failed", "cancelled"}

\* How many of t's dependencies must have succeeded before t may run.
QuorumRequired(t) ==
    CASE Requires[t] = {}          -> 0
      [] Quorum[t].mode = "all"    -> Cardinality(Requires[t])
      [] Quorum[t].mode = "any"    -> 1
      [] OTHER                     -> Quorum[t].count

\* st is the function from tasks to their statuses.
Succeeded(t, st) == {d \in Requires[t] : st[d] = "succeeded"}
Possible(t, st) == {d \in Requires[t] : st[d] \in {"succeeded", "pending", "running"}}

DependencyReady(t, st) == Cardinality(Succeeded(t, st)) >= QuorumRequired(t)
DependencyImpossible(t, st) == Cardinality(Possible(t, st)) < QuorumRequired(t)
=============================================================================
