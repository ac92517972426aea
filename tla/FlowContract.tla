---------------------------- MODULE FlowContract ----------------------------
(***************************************************************************)
(* What skills/flow promises of a flow, whatever children, executors and   *)
(* kernels do: the life of its tasks, its attempts and its artifacts.      *)
(* FlowRuntime implements this specification (ImplementsContract).         *)
(***************************************************************************)
EXTENDS FlowGraph

CONSTANT BudgetAttempts

VARIABLES
    members,    \* the tasks of the flow
    phase,      \* FlowRecord.status
    status,     \* the status of each task
    attempts,   \* the attempts of each task
    total,      \* the attempts of the flow
    artifacts   \* the tasks whose outputs can be queried

contract == <<members, phase, status, attempts, total, artifacts>>

Init ==
    /\ members = {} /\ phase = "pending"
    /\ status = [t \in Tasks |-> "pending"]
    /\ attempts = [t \in Tasks |-> 0] /\ total = 0
    /\ artifacts = {}

Successes == {t \in members : status[t] = "succeeded"}

\* The graph grows before the flow runs, behind its dependencies.
Add(t) ==
    /\ phase = "pending" /\ t \notin members /\ Requires[t] \subseteq members
    /\ members' = members \cup {t}
    /\ UNCHANGED <<phase, status, attempts, total, artifacts>>

Open ==
    /\ phase = "pending" /\ phase' = "running"
    /\ UNCHANGED <<members, status, attempts, total, artifacts>>

\* An attempt starts behind its quorum and within both budgets.
Start(t) ==
    /\ phase = "running" /\ t \in members /\ status[t] = "pending"
    /\ DependencyReady(t, status)
    /\ attempts[t] < AttemptLimit[t] /\ total < BudgetAttempts
    /\ status' = [status EXCEPT ![t] = "running"]
    /\ attempts' = [attempts EXCEPT ![t] = @ + 1] /\ total' = total + 1
    /\ UNCHANGED <<members, phase, artifacts>>

\* It ends once: with a success, a failure, or a chance to be run again.
End(t) ==
    /\ phase = "running" /\ status[t] = "running"
    /\ \E st \in {"succeeded", "failed", "pending"} : status' = [status EXCEPT ![t] = st]
    /\ UNCHANGED <<members, phase, attempts, total, artifacts>>

\* Tasks are given up without an attempt.
GiveUp(S) ==
    /\ phase = "running" /\ S \subseteq members
    /\ \A t \in S : status[t] = "pending"
    /\ \E st \in {"blocked", "failed"} :
          status' = [t \in Tasks |-> IF t \in S THEN st ELSE status[t]]
    /\ UNCHANGED <<members, phase, attempts, total, artifacts>>

\* Outputs become visible behind the success of their task.
Commit ==
    /\ artifacts' \in SUBSET members /\ artifacts \subseteq artifacts'
    /\ artifacts' \subseteq Successes
    /\ UNCHANGED <<members, phase, status, attempts, total>>

\* A runtime that recovered an interrupted flow lets it be run again.
Reopen ==
    /\ phase = "running" /\ phase' = "pending"
    /\ \A t \in members : status[t] # "running"
    /\ artifacts' = Successes
    /\ UNCHANGED <<members, status, attempts, total>>

\* The flow ends, once: every task gets an end, no success is taken back, and
\* the flow only succeeds complete.
Close ==
    /\ phase \in {"pending", "running"} /\ phase' \in TerminalFlow
    /\ status' \in [Tasks -> TaskStatuses]
    /\ \A t \in Tasks :
          IF t \in members /\ status[t] \notin TerminalTask
          THEN status'[t] \in {"failed", "cancelled"} /\ phase' # "succeeded"
          ELSE status'[t] = status[t]
    /\ phase' = "succeeded" => Successes = members /\ artifacts' = members
    /\ artifacts \subseteq artifacts' /\ artifacts' \subseteq Successes
    /\ UNCHANGED <<members, attempts, total>>

Next ==
    \/ \E t \in Tasks : Add(t) \/ Start(t) \/ End(t)
    \/ \E S \in SUBSET Tasks : GiveUp(S)
    \/ Open \/ Commit \/ Reopen \/ Close

Spec == Init /\ [][Next]_contract
=============================================================================
