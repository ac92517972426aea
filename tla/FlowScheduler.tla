--------------------------- MODULE FlowScheduler ---------------------------
(***************************************************************************)
(* The scheduler of a flow: Flow.task, Flow.run and the loop of            *)
(* Flow._drive.  One action runs from one await of the loop to the next.   *)
(***************************************************************************)
EXTENDS FlowExecutor

\* Flow.task: tasks join a pending flow, after everything they require.
AddTask(t) ==
    /\ drive = "idle" /\ flow.status = "pending"
    /\ t \notin graph /\ Requires[t] \subseteq graph
    /\ \A i, j \in DOMAIN Order : Order[j] = t /\ i < j => Order[i] \in graph
    /\ graph' = graph \cup {t}
    /\ UNCHANGED <<flow, tokens, started, expired, task, disk, kids, drive, exec, loop, stale,
                   control>>

\* _start_run and the head of _drive: a record that already says "running"
\* raises FlowConflict, a terminal one is returned as it is.
Run ==
    /\ drive = "idle" /\ flow.status = "pending"
    /\ flow' = [flow EXCEPT !.status = "running"]
    /\ started' = TRUE /\ drive' = "top"
    /\ UNCHANGED <<graph, tokens, expired, task, disk, kids, exec, loop, stale, control>>

\* Flow.cancel with an active run, or cancellation of the awaiting Flow.run.
RequestCancel ==
    /\ "cancel" \in Faults /\ Driving /\ ~cancelled
    /\ cancelled' = TRUE
    /\ UNCHANGED <<ledger, task, disk, kids, drive, exec, loop, stale, recovery, crashes>>

\* The run is over: _run_finished drops its coroutines and the lease.
DriveEnds ==
    /\ drive' = "idle" /\ exec' = [t \in Tasks |-> NoExec]
    /\ batch' = {} /\ focus' = NoTask /\ cursor' = 1 /\ launched' = FALSE
    /\ stale' = FALSE /\ cancelled' = FALSE

\* An exception leaves the loop: the live attempts are cancelled and settled,
\* the record keeps the status "running".
Raise ==
    /\ drive' = "raising" /\ CancelLive
    /\ batch' = {} /\ focus' = NoTask
    /\ UNCHANGED <<ledger, task, disk, kids, cursor, launched, stale, control>>

\* _persist of a record the store has left behind raises FlowConflict.
Conflict == stale

TopOfLoop ==
    /\ drive = "top" /\ ~cancelled
    /\ drive' = "apply" /\ stale' = FALSE
    /\ batch' = {t \in Live : exec[t].pc = "done"}
    /\ UNCHANGED <<ledger, task, disk, kids, exec, focus, cursor, launched, control>>

StartCancel ==
    /\ drive = "top" /\ cancelled
    /\ drive' = "cancelling" /\ CancelLive
    /\ UNCHANGED <<ledger, task, disk, kids, loop, stale, control>>

-----------------------------------------------------------------------------
(* _apply_completions, in the order of the task ids.                       *)

\* Mutant: only successful attempts are charged.
ApplyingChargeSuccess(t) ==
    /\ drive = "apply" /\ IsFirst(t, batch)
    /\ exec' = [exec EXCEPT ![t] = NoExec]
    /\ batch' = batch \ {t}
    /\ tokens' = tokens + (IF exec[t].result = "ok" THEN Measured(exec[t].used) ELSE 0)
    /\ stale' = FALSE

Applying(t) ==
    /\ drive = "apply" /\ IsFirst(t, batch)
    /\ exec' = [exec EXCEPT ![t] = NoExec]
    /\ batch' = batch \ {t}
    /\ tokens' = tokens + Measured(exec[t].used)
    /\ stale' = FALSE

\* Mutant: the outputs are published ahead of the transition.
ApplySuccessManifestFirst(t) ==
    /\ Applying(t) /\ exec[t].result = "ok"
    /\ published' = published \cup {<<t, task[t].attempts>>}
    /\ drive' = "commit" /\ focus' = t
    /\ UNCHANGED <<graph, flow, started, expired, task, written, kids, cursor, launched, control>>

\* The transition is stored first, then the manifest of its outputs committed.
ApplySuccess(t) ==
    /\ Applying(t) /\ exec[t].result = "ok"
    /\ task' = [task EXCEPT ![t].status = "succeeded", ![t].artifact = task[t].attempts,
                            ![t].delayed = FALSE]
    /\ drive' = "commit" /\ focus' = t
    /\ UNCHANGED <<graph, flow, started, expired, disk, kids, cursor, launched, control>>

CommitManifest ==
    /\ drive = "commit"
    /\ published' = published \cup {<<focus, task[focus].artifact>>}
    /\ drive' = "apply" /\ focus' = NoTask
    /\ UNCHANGED <<ledger, task, written, kids, exec, batch, cursor, launched, stale, control>>

CommitFails == drive = "commit" /\ "commit" \in Faults /\ Raise

MayRetry(t) ==
    /\ exec[t].result = "retryable" /\ task[t].settled # "no"
    /\ task[t].attempts < AttemptLimit[t]

ApplyFailure(t) ==
    /\ Applying(t) /\ exec[t].result # "ok"
    /\ task' = [task EXCEPT ![t].status = IF MayRetry(t) THEN "pending" ELSE "failed",
                            ![t].delayed = MayRetry(t) /\ t \in Backoff]
    /\ flow' = [flow EXCEPT !.failures = @ + 1]
    /\ UNCHANGED <<graph, started, expired, disk, kids, drive, focus, cursor, launched, control>>

-----------------------------------------------------------------------------
(* Budgets, impossible joins, and the end of the flow.                     *)

Applied == drive = "apply" /\ batch = {}

BudgetExceeded ==
    \/ started /\ expired
    \/ ~AllTerminal /\ Live = {} /\ flow.attempts >= BudgetAttempts
    \/ ~AllTerminal /\ flow.failures >= BudgetFailures
    \/ /\ BudgetTokens # NoLimit
       /\ tokens > BudgetTokens \/ (~AllTerminal /\ tokens >= BudgetTokens)

StartFailBudget ==
    /\ Applied /\ BudgetExceeded
    /\ drive' = "failingBudget" /\ CancelLive
    /\ UNCHANGED <<ledger, task, disk, kids, loop, stale, control>>

\* Mutant: a dependency that is running no longer counts as possible.
ImpossibleUnlessRunning ==
    {t \in Pending : Cardinality({d \in Requires[t] : task[d].status \in {"succeeded", "pending"}})
                      < QuorumRequired(t)}
Impossible == {t \in Pending : DependencyImpossible(t, Status)}

\* _block_impossible: one pass over the statuses the record came with.
BlockImpossible ==
    /\ Applied /\ ~BudgetExceeded /\ Impossible # {} /\ ~Conflict
    /\ task' = [t \in Tasks |-> IF t \in Impossible
                                THEN [task[t] EXCEPT !.status = "blocked", !.delayed = FALSE]
                                ELSE task[t]]
    /\ drive' = "launch" /\ cursor' = 1 /\ launched' = FALSE
    /\ UNCHANGED <<ledger, disk, kids, exec, batch, focus, stale, control>>

BlockConflict == Applied /\ ~BudgetExceeded /\ Impossible # {} /\ Conflict /\ Raise

StartLaunching ==
    /\ Applied /\ ~BudgetExceeded /\ ~AllTerminal /\ Impossible = {}
    /\ drive' = "launch" /\ cursor' = 1 /\ launched' = FALSE
    /\ UNCHANGED <<ledger, task, disk, kids, exec, batch, focus, stale, control>>

Finish ==
    /\ \/ Applied /\ ~BudgetExceeded
       \/ drive = "rest" /\ Live = {}
    /\ AllTerminal
    /\ flow' = [flow EXCEPT !.status = IF \A t \in graph : task[t].status = "succeeded"
                                      THEN "succeeded" ELSE "failed"]
    /\ DriveEnds
    /\ UNCHANGED <<graph, tokens, started, expired, task, disk, kids, recovery, crashes>>

-----------------------------------------------------------------------------
(* The launch loop.                                                        *)

\* Mutant: only the resources of attempts about to be applied are busy.
BusyOfBatch == UNION {Resources[t] : t \in batch}
BusyResources == UNION {Resources[t] : t \in Live}

\* _context finds, for every name consumed, a committed artifact of that name
\* from a dependency that succeeded.
InputsAvailable(t) ==
    \A name \in Consumes[t] : \E d \in Requires[t] :
        /\ task[d].status = "succeeded" /\ name \in Produces[d]
        /\ <<d, task[d].artifact>> \in published

Exhausted(t) == task[t].attempts >= AttemptLimit[t]

\* Mutant: a task is launched before its dependencies' quorum.
EligibleEarly(t) ==
    /\ t \in Pending /\ ~task[t].delayed
    /\ Exhausted(t) \/ Resources[t] \cap BusyResources = {}
\* What the loop does not skip: an exhausted task, or a ready one whose
\* resources no live task holds.
Eligible(t) ==
    /\ t \in Pending /\ ~task[t].delayed
    /\ Exhausted(t) \/ ( /\ DependencyReady(t, Status)
                         /\ Resources[t] \cap BusyResources = {} )
Upcoming == {i \in DOMAIN Order : i >= cursor /\ Eligible(Order[i])}
Reached(i) == i \in Upcoming /\ \A j \in Upcoming : i <= j

\* The loop reaches t, and something changes there.
Visiting(t) ==
    /\ drive = "launch" /\ Cardinality(Live) < MaxParallel
    /\ \E i \in DOMAIN Order : Order[i] = t /\ Reached(i) /\ cursor' = i + 1
    /\ launched' = TRUE

\* _terminal_attempts_exhausted.
FailExhausted(t) ==
    /\ Visiting(t) /\ Exhausted(t)
    /\ task' = [task EXCEPT ![t].status = "failed"]
    /\ UNCHANGED <<ledger, disk, kids, drive, exec, batch, focus, stale, control>>

BlockWithoutInputs(t) ==
    /\ Visiting(t) /\ ~Exhausted(t) /\ flow.attempts < BudgetAttempts
    /\ ~InputsAvailable(t)
    /\ task' = [task EXCEPT ![t].status = "blocked"]
    /\ stale' = FALSE
    /\ UNCHANGED <<ledger, disk, kids, drive, exec, batch, focus, control>>

\* The new attempt is durable before its coroutine exists.
Launch(t) ==
    /\ Visiting(t) /\ ~Exhausted(t) /\ flow.attempts < BudgetAttempts
    /\ InputsAvailable(t)
    /\ task' = [task EXCEPT ![t] =
                   [NewTask EXCEPT !.status = "running", !.attempts = task[t].attempts + 1,
                                   !.settled = IF UsesRlm THEN "no" ELSE "yes"]]
    /\ flow' = [flow EXCEPT !.attempts = @ + 1]
    /\ exec' = [exec EXCEPT ![t].pc = IF UsesRlm THEN "start" ELSE "working"]
    /\ stale' = FALSE
    /\ UNCHANGED <<graph, tokens, started, expired, disk, kids, drive, batch, focus, control>>

\* The loop ends, or breaks at the parallelism bound or the attempt budget.
EndLaunching ==
    /\ drive = "launch"
    /\ \/ Cardinality(Live) >= MaxParallel
       \/ Upcoming = {}
       \/ /\ flow.attempts >= BudgetAttempts
          /\ \E i \in DOMAIN Order : Reached(i) /\ ~Exhausted(Order[i])
    /\ drive' = "rest" /\ cursor' = 1
    /\ UNCHANGED <<ledger, task, disk, kids, exec, batch, focus, launched, stale, control>>

SomeDelayed == \E t \in Pending : task[t].delayed

\* Wait for a completion (0.25 s at most), sleep until a backoff ends, or go
\* round because the launch loop changed something.
WaitOrSleep ==
    /\ drive = "rest"
    /\ Live # {} \/ (Pending # {} /\ (SomeDelayed \/ launched))
    /\ drive' = "top" /\ launched' = FALSE
    /\ UNCHANGED <<ledger, task, disk, kids, exec, batch, focus, cursor, stale, control>>

\* "dependency graph cannot make progress".  The clock is read a second time:
\* a backoff may have ended since the launch loop skipped its task.
Stall ==
    /\ drive = "rest" /\ Live = {} /\ Pending # {} /\ ~SomeDelayed /\ ~launched
    /\ task' = [t \in Tasks |-> IF t \in Pending THEN [task[t] EXCEPT !.status = "blocked"]
                                ELSE task[t]]
    /\ drive' = "top"
    /\ UNCHANGED <<ledger, disk, kids, exec, loop, stale, control>>

-----------------------------------------------------------------------------
(* The ends of a run that first settles the live attempts.                 *)

Quiet == \A t \in Live : exec[t].pc = "done"

\* Every task that has no end yet gets the one st gives it.
Close(st) ==
    task' = [t \in Tasks |-> IF t \in Nonterminal
                             THEN [task[t] EXCEPT !.status = st[t], !.delayed = FALSE]
                             ELSE task[t]]

\* child_usage_tokens of the attempts that were live, or 0.
ChargeLive == tokens' = tokens + MapThenSumSet(LAMBDA t : Measured(task[t].usage), Live)

Unsettled ==
    {t \in Live : exec[t].result = "unsettled"} \cup {t \in Running : task[t].settled = "no"}

SettleCancel ==
    /\ drive = "cancelling" /\ Quiet
    /\ Close([t \in Tasks |-> IF t \in Unsettled THEN "failed" ELSE "cancelled"])
    /\ flow' = [flow EXCEPT !.status = IF Unsettled = {} THEN "cancelled" ELSE "failed"]
    /\ ChargeLive /\ DriveEnds
    /\ UNCHANGED <<graph, started, expired, disk, kids, recovery, crashes>>

FailBudget ==
    /\ drive = "failingBudget" /\ Quiet
    /\ Close([t \in Tasks |-> "failed"])
    /\ flow' = [flow EXCEPT !.status = "failed"]
    /\ ChargeLive /\ DriveEnds
    /\ UNCHANGED <<graph, started, expired, disk, kids, recovery, crashes>>

RunRaises ==
    /\ drive = "raising" /\ Quiet /\ DriveEnds
    /\ UNCHANGED <<ledger, task, disk, kids, recovery, crashes>>

DriveStep ==
    \/ TopOfLoop \/ StartCancel \/ CommitManifest \/ CommitFails
    \/ \E t \in Tasks : ApplySuccess(t) \/ ApplyFailure(t)
    \/ StartFailBudget \/ BlockImpossible \/ BlockConflict \/ StartLaunching \/ Finish
    \/ \E t \in Tasks : FailExhausted(t) \/ BlockWithoutInputs(t) \/ Launch(t)
    \/ EndLaunching \/ WaitOrSleep \/ Stall
    \/ SettleCancel \/ FailBudget \/ RunRaises
=============================================================================
