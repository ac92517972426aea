---------------------------- MODULE FlowRecovery ----------------------------
(***************************************************************************)
(* FlowRuntime.load and Flow.cancel without an active run: both hold the   *)
(* lease, and both settle the attempts an earlier runtime left "running"   *)
(* (Flow._recover_interrupted, RlmTaskExecutor.recover_attempt).           *)
(***************************************************************************)
EXTENDS FlowScheduler

Enter(goal, point) ==
    /\ drive = "idle"
    /\ drive' = point /\ recovery' = [NoRecovery EXCEPT !.goal = goal]
    /\ UNCHANGED <<ledger, task, disk, kids, exec, loop, stale, cancelled, crashes>>

Load == Enter("load", "recover")

\* Flow.cancel recovers only if some task is still "running".
CancelIdle ==
    "cancel" \in Faults /\ Enter("cancel", IF Running # {} THEN "recover" ELSE "marking")

\* The caller returns or raises; in both cases the lease is released.
Leave == drive' = "idle" /\ focus' = NoTask /\ recovery' = NoRecovery

Recovering(t) == drive = "recover" /\ IsFirst(t, Running)

\* A local executor has nothing to reconcile: the attempt is simply run again.
RecoverLocal(t) ==
    /\ Recovering(t) /\ ~UsesRlm
    /\ task' = [task EXCEPT ![t].status = "pending", ![t].delayed = FALSE]
    /\ UNCHANGED <<ledger, disk, kids, drive, exec, loop, stale, control>>

Outcome(t, result, used) ==
    /\ drive' = "recovered" /\ focus' = t
    /\ recovery' = [recovery EXCEPT !.result = result, !.used = used]
    /\ UNCHANGED <<ledger, disk, exec, batch, cursor, launched, cancelled, crashes>>

WithOutputs(t) == IF <<t, task[t].attempts>> \in written THEN "ok" ELSE "retryable"
ToRecover(t) == Recovering(t) /\ UsesRlm
Completed(t) == task[t].child = "completed" /\ task[t].settled = "yes"

\* The terminal state was persisted before the crash: only re-read the outputs.
RecoverCompleted(t) ==
    /\ ToRecover(t) /\ Completed(t)
    /\ Outcome(t, IF RequireUsage /\ task[t].usage = NoUsage THEN "fatal" ELSE WithOutputs(t),
               task[t].usage)
    /\ UNCHANGED <<task, kids, stale>>

RecoverUnlistable(t) ==
    /\ ToRecover(t) /\ ~Completed(t) /\ "list" \in Faults
    /\ Outcome(t, "unsettled", NoUsage)
    /\ UNCHANGED <<task, kids, stale>>

RecoverAbsent(t) ==
    /\ ToRecover(t) /\ ~Completed(t) /\ ~Listed(Kid(t))
    /\ Outcome(t, IF RequireUsage /\ task[t].usage = NoUsage THEN "fatal" ELSE "retryable",
               task[t].usage)
    /\ UNCHANGED <<task, kids, stale>>

RecoverTerminal(t) ==
    /\ ToRecover(t) /\ ~Completed(t) /\ Terminal(Kid(t))
    /\ Notify(t, TRUE, Kid(t).st, Kid(t).usage, "yes")
    /\ CleanUp(t)
    /\ Outcome(t, CASE RequireUsage /\ Kid(t).usage = NoUsage -> "fatal"
                    [] Kid(t).st = "error" -> "retryable"
                    [] OTHER -> WithOutputs(t),
               Kid(t).usage)

\* An interrupted child is deleted; it must be seen to be gone.
RecoverRunning(t) ==
    /\ ToRecover(t) /\ ~Completed(t) /\ Kid(t).st = "running"
    /\ \E end \in Deletions, used \in Usages :
          /\ SetKid(t, [st |-> end.st, usage |-> used])
          /\ IF ~end.settled
             THEN Notify(t, TRUE, "running", used, "no") /\ Outcome(t, "unsettled", used)
             ELSE /\ Notify(t, TRUE, "deleted", used, "yes")
                  /\ Outcome(t, IF RequireUsage /\ used = NoUsage THEN "fatal" ELSE "retryable",
                             used)

RecoverStep(t) ==
    \/ RecoverLocal(t) \/ RecoverCompleted(t) \/ RecoverUnlistable(t)
    \/ RecoverAbsent(t) \/ RecoverTerminal(t) \/ RecoverRunning(t)

\* The outcome becomes the task's transition.
Settle(status, settled, failures, failClosed) ==
    /\ task' = [task EXCEPT ![focus].status = status, ![focus].delayed = FALSE,
                            ![focus].settled = settled,
                            ![focus].artifact = IF status = "succeeded"
                                                THEN task[focus].attempts ELSE 0]
    /\ flow' = [flow EXCEPT !.failures = @ + failures]
    /\ tokens' = tokens + Measured(recovery.used)
    /\ recovery' = [recovery EXCEPT !.result = "none", !.used = NoUsage,
                                    !.failClosed = @ \/ failClosed]
    /\ UNCHANGED <<graph, started, expired, disk, kids, exec, batch, cursor, launched, stale,
                   cancelled, crashes>>

RecoveredUnsettled ==
    /\ drive = "recovered" /\ recovery.result = "unsettled"
    /\ Settle("failed", "no", 1, TRUE)
    /\ drive' = "recover" /\ focus' = NoTask

RecoveredOutputs ==
    /\ drive = "recovered" /\ recovery.result = "ok"
    /\ Settle("succeeded", "yes", 0, FALSE)
    /\ drive' = "recommit" /\ UNCHANGED focus

RecoveredFailure ==
    /\ drive = "recovered" /\ recovery.result \in {"retryable", "fatal"}
    /\ LET retry == recovery.result = "retryable" /\ ~Exhausted(focus)
       IN  Settle(IF retry THEN "pending" ELSE "failed", "yes", 1, recovery.result = "fatal")
    /\ drive' = "recover" /\ focus' = NoTask

Recommit ==
    /\ drive = "recommit"
    /\ published' = published \cup {<<focus, task[focus].artifact>>}
    /\ drive' = "recover" /\ focus' = NoTask
    /\ UNCHANGED <<ledger, task, written, kids, exec, batch, cursor, launched, stale, control>>

SucceededTasks == {t \in graph : task[t].status = "succeeded"}

RecommitFails ==
    /\ "commit" \in Faults
    /\ drive = "recommit" \/ (drive = "recover" /\ Running = {} /\ SucceededTasks # {})
    /\ Leave
    /\ UNCHANGED <<ledger, task, disk, kids, exec, batch, cursor, launched, stale, cancelled,
                   crashes>>

\* Mutant: the manifests of earlier successes are taken for granted.
EndRecoveryNoCommit ==
    /\ drive = "recover" /\ Running = {}
    /\ UNCHANGED published
    /\ IF recovery.failClosed
       THEN Close([t \in Tasks |-> "failed"]) /\ flow' = [flow EXCEPT !.status = "failed"]
       ELSE /\ UNCHANGED task
            /\ flow' = [flow EXCEPT !.status = IF @ = "running" THEN "pending" ELSE @]
    /\ IF recovery.goal = "cancel"
       THEN drive' = "marking" /\ UNCHANGED <<focus, recovery>>
       ELSE Leave
    /\ UNCHANGED <<graph, tokens, started, expired, written, kids, exec, batch, cursor, launched,
                   stale, cancelled, crashes>>

\* Every manifest is written again, then the flow fails closed, or can run.
EndRecovery ==
    /\ drive = "recover" /\ Running = {}
    /\ published' = published \cup {<<t, task[t].artifact>> : t \in SucceededTasks}
    /\ IF recovery.failClosed
       THEN Close([t \in Tasks |-> "failed"]) /\ flow' = [flow EXCEPT !.status = "failed"]
       ELSE /\ UNCHANGED task
            /\ flow' = [flow EXCEPT !.status = IF @ = "running" THEN "pending" ELSE @]
    /\ IF recovery.goal = "cancel"
       THEN drive' = "marking" /\ UNCHANGED <<focus, recovery>>
       ELSE Leave
    /\ UNCHANGED <<graph, tokens, started, expired, written, kids, exec, batch, cursor, launched,
                   stale, cancelled, crashes>>

\* Mutant: cancellation does not look whether the flow has ended.
MarkCancelledAgain ==
    /\ drive = "marking" /\ Leave
    /\ task' = [t \in Tasks |-> IF t \in Nonterminal
                                THEN [task[t] EXCEPT !.status = "cancelled"]
                                ELSE task[t]]
    /\ flow' = [flow EXCEPT !.status = "cancelled"]
    /\ UNCHANGED <<graph, tokens, started, expired, disk, kids, exec, batch, cursor, launched,
                   stale, cancelled, crashes>>

\* The tail of Flow.cancel.
MarkCancelled ==
    /\ drive = "marking" /\ Leave
    /\ IF flow.status \in TerminalFlow
       THEN UNCHANGED <<task, flow>>
       ELSE /\ task' = [t \in Tasks |-> IF t \in Nonterminal
                                        THEN [task[t] EXCEPT !.status = "cancelled"]
                                        ELSE task[t]]
            /\ flow' = [flow EXCEPT !.status = "cancelled"]
    /\ UNCHANGED <<graph, tokens, started, expired, disk, kids, exec, batch, cursor, launched,
                   stale, cancelled, crashes>>

RecoveryStep ==
    \/ \E t \in Tasks : RecoverStep(t)
    \/ RecoveredUnsettled \/ RecoveredOutputs \/ RecoveredFailure
    \/ Recommit \/ RecommitFails \/ EndRecovery \/ MarkCancelled

-----------------------------------------------------------------------------
(* The kernel dies: coroutines and locals are gone, the lease is free, the *)
(* children and their requests live on in the host.                        *)

Crash ==
    /\ crashes < MaxCrashes /\ drive # "idle"
    /\ crashes' = crashes + 1
    /\ recovery' = NoRecovery /\ DriveEnds
    /\ UNCHANGED <<ledger, task, disk, kids>>
=============================================================================
