---------------------------- MODULE FlowExecutor ----------------------------
(***************************************************************************)
(* The executor coroutine of a live attempt: Flow._execute around          *)
(* RlmTaskExecutor.execute, or around an injected local TaskExecutor; and  *)
(* the host that runs the children it spawns.                              *)
(***************************************************************************)
EXTENDS FlowState

\* The callback that persists a child's lifecycle (_child_lifecycle_callback).
\* It retries a lost revision race, so it always lands, and it leaves behind
\* any record that _drive keeps across its wait for commit_attempt.
Notify(t, known, child, usage, settled) ==
    /\ task' = [task EXCEPT ![t].known = known, ![t].child = child,
                            ![t].usage = usage, ![t].settled = settled]
    /\ stale' = (stale \/ drive = "commit")

Moves(t, e) == exec' = [exec EXCEPT ![t] = e]
Finished(result, used) == [NoExec EXCEPT !.pc = "done", !.result = result, !.used = used]
Settling(e, why) == [e EXCEPT !.pc = "settle", !.why = why]
Reporting(e, settled, used, known) ==
    [e EXCEPT !.pc = "report", !.settled = settled, !.used = used, !.known = known]

\* _delete_existing finds no namesake: a child name is used by one attempt.
ExecSpawn(t) ==
    /\ exec[t].pc = "start" /\ Kid(t).st = "none"
    /\ SetKid(t, [NoChild EXCEPT !.st = IF "slow" \in Faults THEN "requested" ELSE "running"])
    /\ Moves(t, [exec[t] EXCEPT !.pc = "spawning"])
    /\ UNCHANGED <<ledger, task, disk, drive, loop, stale, control>>

ExecAdmitted(t) ==
    /\ exec[t].pc = "spawning" /\ Kid(t).st \notin {"none", "requested"}
    /\ Notify(t, TRUE, "running", NoUsage, "no")
    /\ Moves(t, [exec[t] EXCEPT !.pc = "polling", !.known = TRUE])
    /\ UNCHANGED <<ledger, disk, kids, drive, loop, control>>

\* _wait_for_terminal returns: status and usage are persisted before cleanup.
ExecObserve(t) ==
    LET k == Kid(t)
        result == CASE RequireUsage /\ k.usage = NoUsage -> "fatal"
                    [] k.st = "completed" /\ <<t, task[t].attempts>> \in written -> "ok"
                    [] OTHER -> "retryable"
    IN  /\ exec[t].pc = "polling" /\ Terminal(k)
        /\ Notify(t, TRUE, k.st, k.usage, "yes")
        /\ Moves(t, [exec[t] EXCEPT !.pc = "cleanup", !.result = result, !.used = k.usage])
        /\ UNCHANGED <<ledger, disk, kids, drive, loop, control>>

\* rlm.run or a listing raises.
ExecFails(t) ==
    /\ "list" \in Faults /\ exec[t].pc \in {"start", "polling"}
    /\ Moves(t, Settling(exec[t], "error"))
    /\ UNCHANGED <<ledger, task, disk, kids, drive, loop, stale, control>>

\* Four polls in a row miss the child: it was deleted by somebody else.
ExecMisses(t) ==
    /\ exec[t].pc = "polling" /\ Kid(t).st = "gone"
    /\ Moves(t, Settling(exec[t], "error"))
    /\ UNCHANGED <<ledger, task, disk, kids, drive, loop, stale, control>>

\* _cleanup_terminal: a deletion that fails is only reported in the metadata.
CleanUp(t) ==
    \E fails \in MaybeFault("delete") :
        IF fails THEN UNCHANGED kids ELSE SetKid(t, [Kid(t) EXCEPT !.st = "gone"])

\* Mutant: a deletion that was not confirmed counts as one.
DeletionsUnconfirmed ==
    {[settled |-> TRUE, st |-> "gone"]}
    \cup (IF "delete" \in Faults
          THEN {[settled |-> TRUE, st |-> "running"], [settled |-> TRUE, st |-> "error"]}
          ELSE {})
    \cup (IF "list" \in Faults THEN {[settled |-> FALSE, st |-> "gone"]} ELSE {})

\* _delete_and_confirm of a running child.  The deletion can fail, with the
\* child still running or just ended, or the listing that is to confirm it.
Deletions ==
    {[settled |-> TRUE, st |-> "gone"]}
    \cup (IF "delete" \in Faults
          THEN {[settled |-> FALSE, st |-> "running"], [settled |-> TRUE, st |-> "error"]}
          ELSE {})
    \cup (IF "list" \in Faults THEN {[settled |-> FALSE, st |-> "gone"]} ELSE {})

ExecCleanup(t) ==
    /\ exec[t].pc = "cleanup" /\ CleanUp(t)
    /\ Moves(t, [exec[t] EXCEPT !.pc = "cleaned"])
    /\ UNCHANGED <<ledger, task, disk, drive, loop, stale, control>>

ExecReturn(t) ==
    /\ exec[t].pc = "cleaned"
    /\ Moves(t, Finished(exec[t].result, exec[t].used))
    /\ UNCHANGED <<ledger, task, disk, kids, drive, loop, stale, control>>

\* _settle_cancelled_child, in the four cases of its listing.
SettleUnlistable(t) ==
    /\ exec[t].pc = "settle" /\ "list" \in Faults
    /\ Moves(t, Reporting(exec[t], FALSE, NoUsage, exec[t].known))
    /\ UNCHANGED <<ledger, task, disk, kids, drive, loop, stale, control>>

SettleAbsent(t) ==
    /\ exec[t].pc = "settle" /\ ~Listed(Kid(t))
    /\ Moves(t, Reporting(exec[t], TRUE, NoUsage, exec[t].known))
    /\ UNCHANGED <<ledger, task, disk, kids, drive, loop, stale, control>>

SettleTerminal(t) ==
    /\ exec[t].pc = "settle" /\ Terminal(Kid(t))
    /\ Moves(t, Reporting(exec[t], TRUE, Kid(t).usage, TRUE))
    /\ CleanUp(t)
    /\ UNCHANGED <<ledger, task, disk, drive, loop, stale, control>>

SettleRunning(t) ==
    /\ exec[t].pc = "settle" /\ Kid(t).st = "running"
    /\ \E end \in Deletions, used \in Usages :
          /\ Moves(t, Reporting(exec[t], end.settled, used, TRUE))
          /\ SetKid(t, [st |-> end.st, usage |-> used])
    /\ UNCHANGED <<ledger, task, disk, drive, loop, stale, control>>

\* What the attempt ends with: the tails of execute and the timeout of _execute.
SettledResult(e) ==
    LET unmeasured == RequireUsage /\ e.used = NoUsage
    IN  CASE ~e.settled                               -> "unsettled"
          [] e.why # "error" /\ unmeasured            -> "unsettled"
          [] e.why = "error" /\ unmeasured /\ e.known -> "fatal"
          [] e.why = "cancel"                         -> "cancelled"
          [] OTHER                                    -> "retryable"

\* Mutant: a settlement is reported as done whether or not it succeeded.
ExecReportSettled(t) ==
    LET e == exec[t]
    IN  /\ e.pc = "report"
        /\ IF e.known THEN Notify(t, TRUE, "deleted", e.used, "yes")
                      ELSE UNCHANGED <<task, stale>>
        /\ Moves(t, Finished(IF e.why = "cancel" THEN "cancelled" ELSE "retryable", e.used))
        /\ UNCHANGED <<ledger, disk, kids, drive, loop, control>>

ExecReport(t) ==
    LET e == exec[t]
    IN  /\ e.pc = "report"
        /\ IF e.known
           THEN Notify(t, TRUE, IF e.settled THEN "deleted" ELSE "running", e.used,
                       IF e.settled THEN "yes" ELSE "no")
           ELSE UNCHANGED <<task, stale>>
        /\ Moves(t, Finished(SettledResult(e), e.used))
        /\ UNCHANGED <<ledger, disk, kids, drive, loop, control>>

\* Mutant: the timeout covers the spawn but not the wait for the child.
ExecTimeoutOfSpawn(t) ==
    /\ "timeout" \in Faults
    /\ exec[t].pc \in {"start", "spawning"} /\ exec[t].why = "none"
    /\ Moves(t, Settling(exec[t], "timeout"))
    /\ UNCHANGED <<ledger, task, disk, kids, drive, loop, stale, control>>

\* asyncio.wait_for fires.  The attempt is cancelled and settles its child; if
\* it was settling one already, that settlement is cut short unreported.
ExecTimeout(t) ==
    LET e == exec[t]
        unmeasured == RequireUsage /\ task[t].known /\ task[t].usage = NoUsage
    IN  /\ "timeout" \in Faults
        /\ e.pc \notin {"none", "done"} /\ e.why \in {"none", "error"}
        /\ Moves(t, IF e.pc = "working" \/ e.why = "error"
                    THEN Finished(IF unmeasured THEN "fatal" ELSE "retryable", task[t].usage)
                    ELSE Settling(e, "timeout"))
        /\ UNCHANGED <<ledger, task, disk, kids, drive, loop, stale, control>>

\* execution.cancel(), of every live attempt at once: an attempt that is
\* settling its child stops there, any other one starts to.
CancelExec(e) ==
    CASE e.pc \in {"none", "done"}                -> e
      [] e.pc \in {"working", "settle", "report"} -> Finished("cancelled", NoUsage)
      [] OTHER                                    -> Settling(e, "cancel")
CancelLive == exec' = [t \in Tasks |-> CancelExec(exec[t])]

\* An injected TaskExecutor returns outputs, or raises.
LocalReturn(t) ==
    /\ exec[t].pc = "working"
    /\ \E result \in {"ok", "retryable"} : Moves(t, Finished(result, 0))
    /\ UNCHANGED <<ledger, task, disk, kids, drive, loop, stale, control>>

\* What a coroutine does of itself, and what only a fault of the host makes it do.
ExecProgress(t) ==
    \/ ExecSpawn(t) \/ ExecAdmitted(t) \/ ExecObserve(t) \/ ExecMisses(t)
    \/ ExecCleanup(t) \/ ExecReturn(t)
    \/ SettleAbsent(t) \/ SettleTerminal(t) \/ SettleRunning(t)
    \/ ExecReport(t)
ExecStep(t) == ExecProgress(t) \/ ExecFails(t) \/ SettleUnlistable(t) \/ LocalReturn(t)

-----------------------------------------------------------------------------
(* The host.                                                               *)

HostIdle == UNCHANGED <<ledger, task, published, drive, exec, loop, stale, control>>

\* The run is registered only after the awaits of _startRlmChildRun.
HostAdmits(t, a) ==
    /\ kids[t][a].st = "requested"
    /\ kids' = [kids EXCEPT ![t][a].st = "running"]
    /\ HostIdle /\ UNCHANGED written

\* A child ends, with or without the outputs.json its contract asks for.
ChildEnds(t, a) ==
    /\ kids[t][a].st = "running"
    /\ \E st \in {"completed", "error"}, used \in Usages, good \in BOOLEAN :
          /\ kids' = [kids EXCEPT ![t][a] = [st |-> st, usage |-> used]]
          /\ good => st = "completed"
          /\ written' = IF good THEN written \cup {<<t, a>>} ELSE written
    /\ HostIdle

ChildVanishes(t, a) ==
    /\ "vanish" \in Faults /\ Listed(kids[t][a])
    /\ kids' = [kids EXCEPT ![t][a].st = "gone"]
    /\ HostIdle /\ UNCHANGED written

HostStep(t) ==
    \E a \in 1..AttemptLimit[t] : HostAdmits(t, a) \/ ChildEnds(t, a) \/ ChildVanishes(t, a)
=============================================================================
