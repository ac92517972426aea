---------------------------- MODULE FlowRuntime ----------------------------
(***************************************************************************)
(* A flow as a whole: caller, scheduler, executors, host, recovery, clock  *)
(* and crashes, and what must hold of it.                                  *)
(***************************************************************************)
EXTENDS FlowRecovery

\* available_at has passed.
BackoffEnds(t) ==
    /\ task[t].delayed
    /\ task' = [task EXCEPT ![t].delayed = FALSE]
    /\ UNCHANGED <<ledger, disk, kids, drive, exec, loop, stale, control>>

\* The deadline counts from the first run's started_at, downtime included.
WallExpires ==
    /\ "wall" \in Faults /\ flow.status = "running" /\ ~expired
    /\ expired' = TRUE
    /\ UNCHANGED <<graph, flow, tokens, started, task, disk, kids, drive, exec, loop, stale,
                   control>>

CallerStep ==
    \/ \E t \in Tasks : AddTask(t)
    \/ Run \/ RequestCancel \/ Load \/ CancelIdle

TaskStep(t) == ExecStep(t) \/ ExecTimeout(t) \/ HostStep(t) \/ BackoffEnds(t)

Next ==
    \/ CallerStep \/ DriveStep \/ RecoveryStep
    \/ \E t \in Tasks : TaskStep(t)
    \/ WallExpires \/ Crash

Spec == Init /\ [][Next]_vars

\* Every variable but tokens keeps its type.
TypeOK ==
    /\ graph \subseteq Tasks
    /\ flow \in [status : FlowStatuses, attempts : Nat, failures : Nat]
    /\ started \in BOOLEAN /\ expired \in BOOLEAN
    /\ task \in [Tasks -> TaskRecord]
    /\ drive \in DrivePoints \cup RecoveryPoints \cup {"idle"}
    /\ exec \in [Tasks -> Exec]
    /\ batch \subseteq Tasks /\ focus \in Tasks \cup {NoTask}
    /\ cursor \in Nat /\ launched \in BOOLEAN
    /\ stale \in BOOLEAN /\ cancelled \in BOOLEAN
    /\ recovery \in Recovery /\ crashes \in Nat

-----------------------------------------------------------------------------
(* Attempts and their children.                                            *)

Attempts(t) == 1..AttemptLimit[t]
Kids == UNION {{t} \X Attempts(t) : t \in Tasks}
KidRuns(t, a) == kids[t][a].st = "running"

\* An attempt is only replaced once its child is gone: two children of one task
\* never run side by side.  SKILL.md: recovery "never starts a replacement while
\* the prior child may still be live".
NoSecondLiveChild ==
    \A t \in Tasks : \A a, b \in Attempts(t) : KidRuns(t, a) /\ KidRuns(t, b) => a = b

\* A child still running under a task that is over has been given up by the
\* runtime, and the record says so: the task failed with child_settled=False.
OrphansAreRecorded ==
    \A t \in Tasks : \A a \in Attempts(t) :
        KidRuns(t, a) /\ task[t].status # "running" =>
            task[t].status = "failed" /\ task[t].settled = "no" /\ task[t].attempts = a

\* Children of two tasks that name a common resource only run side by side
\* when one of them is such an orphan (_drive's `active` set of resources).
ResourcesExclusive ==
    \A t, u \in Tasks : t # u /\ Resources[t] \cap Resources[u] # {} =>
        \A a \in Attempts(t), b \in Attempts(u) :
            KidRuns(t, a) /\ KidRuns(u, b) =>
                \E w \in {t, u} : task[w].status = "failed" /\ task[w].settled = "no"

-----------------------------------------------------------------------------
(* Tasks, dependencies and results.                                        *)

\* No step, recovery and cancellation included, takes a success back, runs its
\* task again or points it at other artifacts ("never reruns a succeeded task").
SucceededIsFinal ==
    [][\A t \in Tasks : task[t].status = "succeeded" =>
          /\ task'[t].status = "succeeded"
          /\ task'[t].attempts = task[t].attempts /\ task'[t].artifact = task[t].artifact]_vars

\* Neither run, load nor cancel reopens a flow that has ended, or one of its tasks.
FlowEndIsFinal ==
    [][flow.status \in TerminalFlow => flow' = flow /\ Status' = Status]_vars

\* A task has only ever been started behind a quorum of successes, and that
\* quorum still stands (_dependency_ready; dependencies are never undone).
StartedAfterQuorum ==
    \A t \in Tasks : task[t].attempts > 0 => DependencyReady(t, Status)

\* The scheduler blocks a task only for a join that has become impossible, by the
\* tasks blocked beside it if by nothing else, or for an input no successful
\* dependency has committed (_block_impossible, _context, the stall of _drive).
BlockedIsJustified ==
    [][\A t \in Tasks : task[t].status # "blocked" /\ task'[t].status = "blocked" =>
          DependencyImpossible(t, Status') \/ ~InputsAvailable(t)]_vars

\* An artifact is queryable only behind the successful transition of its task:
\* SKILL.md, "only after a manifest and the successful task transition commit".
PublishedOnlySucceeded ==
    \A p \in published : task[p[1]].status = "succeeded" /\ task[p[1]].artifact = p[2]

\* A flow succeeds only with every task's outputs written and committed, even
\* if a commit failed or the kernel died between the transition and the manifest.
SuccessIsComplete ==
    flow.status = "succeeded" =>
        \A t \in graph : /\ <<t, task[t].artifact>> \in published
                         /\ UsesRlm => <<t, task[t].artifact>> \in written

-----------------------------------------------------------------------------
(* The ledgers the budgets are checked against.                            *)

\* No flow and no task has more attempts than its policy allows.
AttemptLimits ==
    /\ flow.attempts <= BudgetAttempts
    /\ \A t \in Tasks : task[t].attempts <= AttemptLimit[t]

Total(f) == MapThenSumSet(LAMBDA k : f[k], DOMAIN f)
Reported == [k \in Kids |-> Measured(kids[k[1]][k[2]].usage)]

\* With a token budget, a flow that succeeded has charged every child it ever
\* had, once, with what the child reported.
TokensLedger == RequireUsage /\ flow.status = "succeeded" => tokens = Total(Reported)

-----------------------------------------------------------------------------
(* The contract.                                                           *)

Contract == INSTANCE FlowContract WITH
    members <- graph, phase <- flow.status, status <- Status,
    attempts <- [t \in Tasks |-> task[t].attempts], total <- flow.attempts,
    artifacts <- {p[1] : p \in published}

\* Each step of the runtime, recovery and crashes included, is a step of the
\* contract between a flow and its caller, or none of the caller's business.
ImplementsContract == Contract!Spec

-----------------------------------------------------------------------------
(* Progress.                                                               *)

\* asyncio runs every coroutine that can go on; policy.timeout_seconds and
\* backoff_seconds are finite.  Nothing is assumed of the children, the caller or
\* an injected executor, and no fault has to happen.
Fairness ==
    /\ WF_vars(DriveStep) /\ WF_vars(RecoveryStep)
    /\ \A t \in Tasks : WF_vars(ExecProgress(t)) /\ WF_vars(ExecTimeout(t)) /\ WF_vars(BackoffEnds(t))

FairSpec == Spec /\ Fairness

\* Flow.run, Flow.cancel and FlowRuntime.load return or raise in the end, and
\* free the lease, whatever the children do.
CallsReturn == (drive # "idle") ~> (drive = "idle")
=============================================================================
