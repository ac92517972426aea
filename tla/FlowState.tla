----------------------------- MODULE FlowState -----------------------------
(***************************************************************************)
(* The state of one durable flow of skills/flow.                           *)
(*                                                                         *)
(* Durable: the record in SQLite (FlowStore), the artifact manifests       *)
(* (ArtifactBlackboard) and the outputs.json files.  Host: the direct RLM  *)
(* children.  Volatile: the coroutines of the runtime that holds the       *)
(* flow's lease (module FlowLease: there is one at most).  The kernel may  *)
(* die between any two awaits; then only the volatile part is lost.        *)
(***************************************************************************)
EXTENDS FlowGraph, FiniteSetsExt

CONSTANTS
    UsesRlm,        \* the executor is an RlmTaskExecutor
    MaxParallel,    \* Flow.max_parallel
    BudgetAttempts, \* FlowBudget.max_attempts
    BudgetFailures, \* FlowBudget.max_failures
    BudgetTokens,   \* FlowBudget.max_tokens, or NoLimit for None
    Backoff,        \* the tasks whose policy.backoff_seconds is positive
    Usages,         \* what a child may report as usage_tokens
    NoLimit, NoUsage, NoTask,
    Faults,         \* what the environment of this instance may do
    MaxCrashes      \* bound: how often the kernel may die

FaultKinds == {"list",      \* rlm.list_subagents or rlm.run raises
               "delete",    \* rlm.delete_subagent fails, the child lives on
               "slow",      \* the host may admit a child after a later listing
               "commit",    \* commit_attempt raises
               "timeout",   \* policy.timeout_seconds elapses
               "wall",      \* budget.wall_time_seconds elapses
               "cancel",    \* Flow.cancel, or cancellation of Flow.run
               "vanish"}    \* somebody else deletes a child

ASSUME RuntimeAssumption ==
    /\ UsesRlm \in BOOLEAN
    /\ MaxParallel \in Nat \ {0}
    /\ BudgetAttempts \in Nat \ {0}
    /\ BudgetFailures \in Nat \ {0}
    /\ NoLimit \notin Nat /\ BudgetTokens \in Nat \cup {NoLimit}
    /\ Backoff \subseteq Tasks
    /\ NoUsage \notin Nat /\ Usages # {} /\ Usages \subseteq Nat \cup {NoUsage}
    /\ NoTask \notin Tasks
    /\ Faults \subseteq FaultKinds
    /\ MaxCrashes \in Nat

VARIABLES
    graph,          \* ids of the tasks added so far
    flow,           \* FlowRecord: status, total_attempts, total_failures
    tokens,         \* FlowRecord.total_tokens
    started,        \* FlowRecord.started_at is set
    expired,        \* the wall deadline has passed
    task,           \* TaskRecords
    published,      \* <<task, attempt>> with a committed manifest
    written,        \* <<task, attempt>> with a valid outputs.json
    kids,           \* kids[t][a]: the child of attempt a of task t
    drive,          \* where Flow._drive, FlowRuntime.load or Flow.cancel is
    exec,           \* the executor coroutine of each live attempt
    batch,          \* completions _apply_completions has still to apply
    focus,          \* the task whose transition or recovery is half done
    cursor,         \* position of the launch loop
    launched,       \* _drive's local of that name
    stale,          \* the record _drive holds is older than the stored one
    cancelled,      \* cancel_event
    recovery,       \* locals of _recover_interrupted and of its caller
    crashes

ledger == <<graph, flow, tokens, started, expired>>
disk == <<published, written>>
loop == <<batch, focus, cursor, launched>>
control == <<cancelled, recovery, crashes>>
vars == <<ledger, task, disk, kids, drive, exec, loop, stale, control>>

ChildStatuses == {"none", "running", "completed", "error", "deleted"}
ExecPoints == {"none", "start", "spawning", "polling", "cleanup", "cleaned",
               "settle", "report", "working", "done"}
Results == {"none", "ok", "retryable", "fatal", "unsettled", "cancelled"}
DrivePoints == {"top", "apply", "commit", "launch", "rest",
                "cancelling", "failingBudget", "raising"}
RecoveryPoints == {"recover", "recovered", "recommit", "marking"}
MaybeUsage == Nat \cup {NoUsage}

\* TaskRecord; artifact is the attempt whose artifact_ids it carries, or 0,
\* delayed says that available_at lies in the future.
TaskRecord ==
    [status : TaskStatuses, attempts : Nat, artifact : Nat, delayed : BOOLEAN,
     known : BOOLEAN, child : ChildStatuses, usage : MaybeUsage,
     settled : {"unset", "no", "yes"}]
NewTask == [status |-> "pending", attempts |-> 0, artifact |-> 0, delayed |-> FALSE,
            known |-> FALSE, child |-> "none", usage |-> NoUsage, settled |-> "unset"]

\* Locals of RlmTaskExecutor.execute and Flow._execute.
Exec == [pc : ExecPoints, known : BOOLEAN, why : {"none", "error", "timeout", "cancel"},
         settled : BOOLEAN, result : Results, used : MaybeUsage]
NoExec == [pc |-> "none", known |-> FALSE, why |-> "none", settled |-> FALSE,
           result |-> "none", used |-> NoUsage]

\* A child of the host: requested but not yet admitted, listed (running,
\* completed, error), or gone.  usage is what it has reported in the end.
Child == [st : {"none", "requested", "running", "completed", "error", "gone"},
          usage : MaybeUsage]
NoChild == [st |-> "none", usage |-> NoUsage]
Listed(k) == k.st \in {"running", "completed", "error"}
Terminal(k) == k.st \in {"completed", "error"}

Recovery == [goal : {"none", "load", "cancel"}, result : Results, used : MaybeUsage,
             failClosed : BOOLEAN]
NoRecovery == [goal |-> "none", result |-> "none", used |-> NoUsage, failClosed |-> FALSE]

Measured(u) == IF u = NoUsage THEN 0 ELSE u     \* Python's "usage or 0"
RequireUsage == BudgetTokens # NoLimit          \* context.require_token_usage
MaybeFault(kind) == IF kind \in Faults THEN BOOLEAN ELSE {FALSE}

Status == [t \in Tasks |-> task[t].status]
Nonterminal == {t \in graph : task[t].status \notin TerminalTask}
Pending == {t \in graph : task[t].status = "pending"}
Running == {t \in graph : task[t].status = "running"}
AllTerminal == Nonterminal = {}
Live == {t \in Tasks : exec[t].pc # "none"}
Driving == drive \in DrivePoints
IsFirst(t, S) == t \in S /\ \A i, j \in DOMAIN Order : Order[i] = t /\ Order[j] \in S => i <= j
Kid(t) == kids[t][task[t].attempts]
SetKid(t, k) == kids' = [kids EXCEPT ![t][task[t].attempts] = k]

Init ==
    /\ graph = {}
    /\ flow = [status |-> "pending", attempts |-> 0, failures |-> 0]
    /\ tokens = 0 /\ started = FALSE /\ expired = FALSE
    /\ task = [t \in Tasks |-> NewTask]
    /\ published = {} /\ written = {}
    /\ kids = [t \in Tasks |-> [a \in 1..AttemptLimit[t] |-> NoChild]]
    /\ drive = "idle" /\ exec = [t \in Tasks |-> NoExec]
    /\ batch = {} /\ focus = NoTask /\ cursor = 1 /\ launched = FALSE
    /\ stale = FALSE /\ cancelled = FALSE /\ recovery = NoRecovery /\ crashes = 0
=============================================================================
