------------------------ MODULE FlowInvariantProofs ------------------------
(***************************************************************************)
(* The inductive invariant of a flow, for any graph of tasks, any budgets  *)
(* and any faults of the environment.                                      *)
(*                                                                         *)
(* None of the properties is inductive by itself.  That a success is final *)
(* needs a live attempt to belong to a task that still runs (LiveOK), and  *)
(* a half-done transition to be that of a task in the status it starts     *)
(* from (FocusOK).  That an end is final needs to know that nobody works   *)
(* on a flow that has ended except a load or a cancel that finds nothing   *)
(* to do (EndOK).  The steps of the five kinds of actors are reduced to a  *)
(* few lemmas about what such a step may change.                           *)
(*                                                                         *)
(* On top of it comes what the record knows of the children (AttemptInv):  *)
(* a child only runs under the last attempt of its task while the record   *)
(* says it is not settled (ChildOK), a recovery concludes no more than the *)
(* host has shown it (RecoveredOK), and only a run, or a crash of one,     *)
(* leaves tasks running (RunningOK).                                       *)
(***************************************************************************)
EXTENDS FlowRuntime, TLAPS

-----------------------------------------------------------------------------
(* The inductive invariant.                                                *)

\* The children are a table of one per possible attempt.
KidsOK ==
    /\ DOMAIN kids = Tasks
    /\ \A t \in Tasks : /\ DOMAIN kids[t] = 1..AttemptLimit[t]
                        /\ \A n \in 1..AttemptLimit[t] : kids[t][n] \in Child

\* No budget of attempts is exceeded, and a running task has had one.
AttemptsOK ==
    /\ AttemptLimits
    /\ \A t \in Tasks : task[t].status = "running" => task[t].attempts >= 1

\* A live attempt belongs to a running task; only a run has live attempts.
LiveOK ==
    /\ \A t \in Tasks : exec[t].pc # "none" => task[t].status = "running"
    /\ ~Driving => \A t \in Tasks : exec[t].pc = "none"
    /\ \A t \in batch : exec[t].pc = "done"

\* A half-done transition is that of a task with the status it is made from.
FocusOK ==
    /\ drive \in {"commit", "recommit"} =>
          focus \in Tasks /\ task[focus].status = "succeeded"
    /\ drive = "recovered" => focus \in Tasks /\ task[focus].status = "running"

\* Tasks only leave "pending" inside the graph.
GraphOK == \A t \in Tasks : task[t].status # "pending" => t \in graph

\* A flow has ended with all its tasks, and nobody works on it but a load or
\* cancel that finds nothing to do.
EndOK ==
    /\ Driving => flow.status = "running"
    /\ flow.status \in TerminalFlow =>
          /\ AllTerminal
          /\ drive \in {"idle", "recover", "marking"}
          /\ drive = "recover" => ~recovery.failClosed

IInv == TypeOK /\ KidsOK /\ AttemptsOK /\ LiveOK /\ FocusOK /\ GraphOK /\ EndOK

-----------------------------------------------------------------------------
(* What the constants and the helpers guarantee.                           *)

\* What the assumptions say of the constants.
LEMMA Constants ==
    /\ AttemptLimit \in [Tasks -> Nat \ {0}]
    /\ BudgetAttempts \in Nat \ {0}
    /\ Usages \subseteq MaybeUsage
    /\ NoUsage \in MaybeUsage
    /\ NoTask \notin Tasks
    /\ \A i \in DOMAIN Order : Order[i] \in Tasks /\ i \in Nat
  BY GraphAssumption, RuntimeAssumption DEF GraphAssumption, RuntimeAssumption, MaybeUsage

\* The invariant holds in the beginning.
LEMMA InitIInv == Init => IInv
<1> SUFFICES ASSUME Init PROVE IInv
  OBVIOUS
<1> USE Constants DEF Init
<1>1. TypeOK
  BY DEF TypeOK, FlowStatuses, NewTask, TaskRecord, TaskStatuses, ChildStatuses, RecoveryPoints,
     MaybeUsage, Exec, NoExec, ExecPoints, Results, Recovery, NoRecovery
<1>2. KidsOK
  BY DEF KidsOK, Child, NoChild, MaybeUsage
<1>3. AttemptsOK /\ GraphOK
  BY DEF AttemptsOK, AttemptLimits, GraphOK, NewTask
<1>4. LiveOK /\ FocusOK /\ EndOK
  BY DEF LiveOK, FocusOK, EndOK, Driving, DrivePoints, NoExec, TerminalFlow
<1> QED
  BY <1>1, <1>2, <1>3, <1>4 DEF IInv

\* A child's entry may be replaced by another child.
LEMMA KidStep ==
    ASSUME KidsOK, NEW t \in Tasks, NEW n, NEW k \in Child,
           kids' = [kids EXCEPT ![t][n] = k]
    PROVE  KidsOK'
  BY DEF KidsOK

\* The current child of a running task is one of the table.
LEMMA KidTyped ==
    ASSUME IInv, NEW t \in Tasks, task[t].status = "running"
    PROVE  Kid(t) \in Child
<1>1. task[t].attempts \in Nat
  BY DEF IInv, TypeOK, TaskRecord
<1>2. AttemptLimit[t] \in Nat
  BY Constants
<1>3. task[t].attempts \in 1..AttemptLimit[t]
  BY <1>1, <1>2 DEF IInv, AttemptsOK, AttemptLimits
<1> QED
  BY <1>3 DEF IInv, KidsOK, Kid

\* Persisting a child's lifecycle touches nothing else of its task.
LEMMA NotifyTyped ==
    ASSUME TypeOK, NEW t \in Tasks, NEW known \in BOOLEAN, NEW child \in ChildStatuses,
           NEW usage \in MaybeUsage, NEW settled \in {"unset", "no", "yes"},
           Notify(t, known, child, usage, settled)
    PROVE  /\ task' \in [Tasks -> TaskRecord]
           /\ \A u \in Tasks : /\ task'[u].status = task[u].status
                               /\ task'[u].attempts = task[u].attempts
                               /\ task'[u].artifact = task[u].artifact
           /\ stale' \in BOOLEAN
<1> DEFINE r == [task[t] EXCEPT !.known = known, !.child = child, !.usage = usage,
                                !.settled = settled]
<1>1. task' = [task EXCEPT ![t] = r] /\ task \in [Tasks -> TaskRecord]
  BY DEF TypeOK, Notify
<1>2. task[t] \in TaskRecord
  BY <1>1
<1>3. /\ r \in TaskRecord
      /\ r.status = task[t].status /\ r.attempts = task[t].attempts
      /\ r.artifact = task[t].artifact
  BY <1>2 DEF TaskRecord
<1>4. stale' \in BOOLEAN
  BY DEF TypeOK, Notify
<1> HIDE DEF r
<1> QED
  BY <1>1, <1>3, <1>4

\* The end of a coroutine has its type.
LEMMA FinishedTyped ==
    ASSUME NEW r \in Results, NEW u \in MaybeUsage
    PROVE  Finished(r, u) \in Exec /\ Finished(r, u).pc = "done"
  BY DEF Finished, Exec, NoExec, ExecPoints, Results, MaybeUsage

-----------------------------------------------------------------------------
(* Attempts and the host.                                                  *)

\* A step of one attempt, whatever it tells the record of its child.
LEMMA AttemptStep ==
    ASSUME IInv, NEW t \in Tasks, NEW e \in Exec, Moves(t, e), e.pc # "none",
           exec[t].pc \notin {"none", "done"}, KidsOK', stale' \in BOOLEAN,
           task' \in [Tasks -> TaskRecord],
           \A u \in Tasks : /\ task'[u].status = task[u].status
                            /\ task'[u].attempts = task[u].attempts
                            /\ task'[u].artifact = task[u].artifact,
           UNCHANGED <<ledger, drive, loop, control>>
    PROVE  IInv'
<1> USE DEF IInv, Moves, ledger, loop, control
<1>1. TypeOK' /\ exec \in [Tasks -> Exec]
  BY DEF TypeOK
<1>2. AttemptsOK' /\ GraphOK'
  BY DEF AttemptsOK, AttemptLimits, GraphOK, TypeOK
<1>3. LiveOK'
  BY <1>1 DEF LiveOK, Driving, TypeOK
<1>4. FocusOK'
  BY DEF FocusOK
<1>5. EndOK'
  BY DEF EndOK, Driving, AllTerminal, Nonterminal, TypeOK
<1> QED
  BY <1>1, <1>2, <1>3, <1>4, <1>5

\* A step of the host.
LEMMA KidsStep ==
    ASSUME IInv, KidsOK', UNCHANGED <<ledger, task, drive, exec, loop, stale, control>>
    PROVE  IInv'
<1> USE DEF IInv, ledger, loop, control
<1>1. TypeOK'
  BY DEF TypeOK
<1>2. AttemptsOK' /\ GraphOK' /\ LiveOK' /\ FocusOK'
  BY DEF AttemptsOK, AttemptLimits, GraphOK, LiveOK, FocusOK, Driving
<1>3. EndOK'
  BY DEF EndOK, Driving, AllTerminal, Nonterminal
<1> QED
  BY <1>1, <1>2, <1>3

\* What a deletion may come to.
LEMMA DeletionTyped ==
    \A end \in Deletions : end.st \in {"gone", "running", "error"} /\ end.settled \in BOOLEAN
<1>1. ASSUME NEW end \in Deletions
      PROVE  \E s \in BOOLEAN, st \in {"gone", "running", "error"} :
                end = [settled |-> s, st |-> st]
  BY <1>1 DEF Deletions
<1> QED
  BY <1>1

\* Every step of the executor is one of AttemptStep's.
LEMMA ExecPreserves ==
    ASSUME IInv, NEW t \in Tasks, ExecStep(t) \/ ExecTimeout(t)
    PROVE  IInv'
<1>1. /\ exec[t] \in Exec /\ KidsOK /\ TypeOK
      /\ task \in [Tasks -> TaskRecord] /\ stale \in BOOLEAN
  BY DEF IInv, TypeOK
<1>2. exec[t].pc # "none" => Kid(t) \in Child
  BY KidTyped DEF IInv, LiveOK
<1>3. task[t].usage \in MaybeUsage /\ Usages \subseteq MaybeUsage /\ NoUsage \in MaybeUsage
  BY Constants DEF IInv, TypeOK, TaskRecord
<1> USE <1>1, <1>2, <1>3
<1> DEFINE Frame == UNCHANGED <<ledger, drive, loop, control>>
<1>4. UNCHANGED kids => KidsOK'
  BY DEF KidsOK
<1>5. UNCHANGED <<task, stale>> =>
        /\ stale' \in BOOLEAN /\ task' \in [Tasks -> TaskRecord]
        /\ \A u \in Tasks : /\ task'[u].status = task[u].status
                            /\ task'[u].attempts = task[u].attempts
                            /\ task'[u].artifact = task[u].artifact
  OBVIOUS
<1>6. ASSUME NEW k \in Child, SetKid(t, k) PROVE KidsOK'
  BY <1>6, KidStep DEF SetKid
<1>7. CleanUp(t) /\ exec[t].pc # "none" => KidsOK'
  <2>1. Kid(t) \in Child => [Kid(t) EXCEPT !.st = "gone"] \in Child
    BY DEF Child
  <2> QED
    BY <2>1, <1>4, <1>6 DEF CleanUp
<1>8. CASE ExecSpawn(t)
  <2> DEFINE k == [NoChild EXCEPT !.st = IF "slow" \in Faults THEN "requested" ELSE "running"]
             e == [exec[t] EXCEPT !.pc = "spawning"]
  <2>1. k \in Child /\ e \in Exec /\ e.pc # "none"
    BY DEF Child, NoChild, Exec, ExecPoints
  <2>2. SetKid(t, k) /\ Moves(t, e) /\ exec[t].pc = "start" /\ Frame /\ UNCHANGED <<task, stale>>
    BY <1>8 DEF ExecSpawn
  <2> HIDE DEF k, e
  <2> QED
    BY <2>1, <2>2, <1>5, <1>6, AttemptStep
<1>9. CASE ExecAdmitted(t)
  <2> DEFINE e == [exec[t] EXCEPT !.pc = "polling", !.known = TRUE]
  <2>1. e \in Exec /\ e.pc # "none"
    BY DEF Exec, ExecPoints
  <2>2. /\ Notify(t, TRUE, "running", NoUsage, "no") /\ Moves(t, e)
        /\ exec[t].pc = "spawning" /\ Frame /\ UNCHANGED kids
    BY <1>9 DEF ExecAdmitted
  <2> HIDE DEF e
  <2> QED
    BY <2>1, <2>2, <1>4, NotifyTyped, AttemptStep DEF ChildStatuses
<1>10. CASE ExecObserve(t)
  <2>1. PICK result \in Results :
          /\ Moves(t, [exec[t] EXCEPT !.pc = "cleanup", !.result = result,
                                      !.used = Kid(t).usage])
          /\ Notify(t, TRUE, Kid(t).st, Kid(t).usage, "yes")
          /\ exec[t].pc = "polling" /\ Terminal(Kid(t)) /\ Frame /\ UNCHANGED kids
    BY <1>10 DEF ExecObserve, Results
  <2> DEFINE e == [exec[t] EXCEPT !.pc = "cleanup", !.result = result, !.used = Kid(t).usage]
  <2>2. Kid(t).usage \in MaybeUsage /\ Kid(t).st \in ChildStatuses
    BY <2>1 DEF Child, Terminal, ChildStatuses
  <2>3. e \in Exec /\ e.pc # "none"
    BY <2>2 DEF Exec, ExecPoints
  <2> HIDE DEF e
  <2>4. Moves(t, e)
    BY <2>1 DEF e
  <2> QED
    BY <2>1, <2>2, <2>3, <2>4, <1>4, NotifyTyped, AttemptStep
<1>11. CASE ExecFails(t) \/ ExecMisses(t)
  <2> DEFINE e == Settling(exec[t], "error")
  <2>1. e \in Exec /\ e.pc # "none"
    BY DEF Settling, Exec, ExecPoints
  <2>2. /\ Moves(t, e) /\ exec[t].pc \in {"start", "polling"} /\ Frame
        /\ UNCHANGED <<task, kids, stale>>
    BY <1>11 DEF ExecFails, ExecMisses
  <2> HIDE DEF e
  <2> QED
    BY <2>1, <2>2, <1>4, <1>5, AttemptStep
<1>12. CASE ExecCleanup(t)
  <2> DEFINE e == [exec[t] EXCEPT !.pc = "cleaned"]
  <2>1. e \in Exec /\ e.pc # "none"
    BY DEF Exec, ExecPoints
  <2>2. Moves(t, e) /\ exec[t].pc = "cleanup" /\ CleanUp(t) /\ Frame /\ UNCHANGED <<task, stale>>
    BY <1>12 DEF ExecCleanup
  <2> HIDE DEF e
  <2> QED
    BY <2>1, <2>2, <1>5, <1>7, AttemptStep
<1>13. CASE ExecReturn(t)
  <2> DEFINE e == Finished(exec[t].result, exec[t].used)
  <2>1. e \in Exec /\ e.pc # "none"
    BY FinishedTyped DEF Exec
  <2>2. Moves(t, e) /\ exec[t].pc = "cleaned" /\ Frame /\ UNCHANGED <<task, kids, stale>>
    BY <1>13 DEF ExecReturn
  <2> HIDE DEF e
  <2> QED
    BY <2>1, <2>2, <1>4, <1>5, AttemptStep
<1>14. ASSUME NEW settled \in BOOLEAN, NEW used \in MaybeUsage, NEW known \in BOOLEAN,
              Moves(t, Reporting(exec[t], settled, used, known)), KidsOK', Frame,
              exec[t].pc = "settle", UNCHANGED <<task, stale>>
       PROVE  IInv'
  <2> DEFINE e == Reporting(exec[t], settled, used, known)
  <2>1. e \in Exec /\ e.pc # "none"
    BY DEF Reporting, Exec, ExecPoints
  <2> HIDE DEF e
  <2>2. Moves(t, e)
    BY <1>14 DEF e
  <2> QED
    BY <2>1, <2>2, <1>5, <1>14, AttemptStep
<1>15. CASE SettleUnlistable(t) \/ SettleAbsent(t)
  BY <1>4, <1>14, <1>15 DEF SettleUnlistable, SettleAbsent, Exec
<1>16. CASE SettleTerminal(t)
  <2>1. Kid(t).usage \in MaybeUsage
    BY <1>16 DEF SettleTerminal, Child
  <2> QED
    BY <2>1, <1>7, <1>14, <1>16 DEF SettleTerminal
<1>17. CASE SettleRunning(t)
  <2>1. PICK end \in Deletions, used \in Usages :
          /\ Moves(t, Reporting(exec[t], end.settled, used, TRUE))
          /\ SetKid(t, [st |-> end.st, usage |-> used])
    BY <1>17 DEF SettleRunning
  <2>2. end.st \in {"gone", "running", "error"} /\ end.settled \in BOOLEAN
    BY DeletionTyped
  <2>3. [st |-> end.st, usage |-> used] \in Child
    BY <2>2 DEF Child
  <2> QED
    BY <2>1, <2>2, <2>3, <1>6, <1>14, <1>17 DEF SettleRunning
<1>18. CASE ExecReport(t)
  <2> DEFINE e == Finished(SettledResult(exec[t]), exec[t].used)
             settled == IF exec[t].settled THEN "yes" ELSE "no"
             child == IF exec[t].settled THEN "deleted" ELSE "running"
  <2>1. e \in Exec /\ e.pc # "none"
    BY FinishedTyped DEF Exec, SettledResult, Results
  <2>2. Moves(t, e) /\ exec[t].pc = "report" /\ Frame /\ UNCHANGED kids
    BY <1>18 DEF ExecReport
  <2>3. UNCHANGED <<task, stale>> \/ Notify(t, TRUE, child, exec[t].used, settled)
    BY <1>18 DEF ExecReport
  <2>4. child \in ChildStatuses /\ settled \in {"unset", "no", "yes"} /\ exec[t].used \in MaybeUsage
    BY DEF ChildStatuses, Exec
  <2> HIDE DEF e, settled, child
  <2> QED
    BY <2>1, <2>2, <2>3, <2>4, <1>4, <1>5, NotifyTyped, AttemptStep
<1>19. CASE LocalReturn(t)
  <2>1. PICK result \in {"ok", "retryable"} : Moves(t, Finished(result, 0))
    BY <1>19 DEF LocalReturn
  <2>2. Finished(result, 0) \in Exec /\ Finished(result, 0).pc # "none"
    BY FinishedTyped DEF Results, MaybeUsage
  <2>3. exec[t].pc = "working" /\ Frame /\ UNCHANGED <<task, kids, stale>>
    BY <1>19 DEF LocalReturn
  <2> QED
    BY <2>1, <2>2, <2>3, <1>4, <1>5, AttemptStep
<1>20. CASE ExecTimeout(t)
  <2>1. PICK e \in Exec : Moves(t, e) /\ e.pc # "none"
    <3>1. Settling(exec[t], "timeout") \in Exec /\ Settling(exec[t], "timeout").pc # "none"
      BY DEF Settling, Exec, ExecPoints
    <3>2. \A r \in {"fatal", "retryable"} :
             Finished(r, task[t].usage) \in Exec /\ Finished(r, task[t].usage).pc # "none"
      BY FinishedTyped DEF Results
    <3> QED
      BY <1>20, <3>1, <3>2 DEF ExecTimeout
  <2>2. /\ exec[t].pc \notin {"none", "done"} /\ Frame
        /\ UNCHANGED <<task, kids, stale>>
    BY <1>20 DEF ExecTimeout
  <2> QED
    BY <2>1, <2>2, <1>4, <1>5, AttemptStep
<1> QED
  BY <1>8, <1>9, <1>10, <1>11, <1>12, <1>13, <1>15, <1>16, <1>17, <1>18, <1>19, <1>20
  DEF ExecStep, ExecProgress

\* Every step of the host preserves the invariant.
LEMMA HostPreserves ==
    ASSUME IInv, NEW t \in Tasks, HostStep(t)
    PROVE  IInv'
<1>1. KidsOK /\ KidsOK'
  <2>1. PICK n \in 1..AttemptLimit[t] : HostAdmits(t, n) \/ ChildEnds(t, n) \/ ChildVanishes(t, n)
    BY DEF HostStep
  <2>2. kids[t][n] \in Child /\ KidsOK
    BY DEF IInv, KidsOK
  <2>3. PICK k \in Child : kids' = [kids EXCEPT ![t][n] = k]
    <3>1. \A st \in {"running", "gone"} : [kids[t][n] EXCEPT !.st = st] \in Child
      BY <2>2 DEF Child
    <3>2. \A st \in {"completed", "error"}, used \in Usages : [st |-> st, usage |-> used] \in Child
      BY Constants DEF Child
    <3>3. CASE HostAdmits(t, n)
      BY <3>1, <3>3 DEF HostAdmits
    <3>4. CASE ChildEnds(t, n)
      BY <3>2, <3>4 DEF ChildEnds
    <3>5. CASE ChildVanishes(t, n)
      BY <3>1, <3>5 DEF ChildVanishes
    <3> QED
      BY <2>1, <3>3, <3>4, <3>5
  <2> QED
    BY <2>2, <2>3, KidStep
<1> QED
  BY <1>1, KidsStep DEF HostStep, HostAdmits, ChildEnds, ChildVanishes, HostIdle

-----------------------------------------------------------------------------
(* The scheduler.                                                          *)

\* Cancelling the live attempts neither starts nor removes one.
LEMMA CancelTyped ==
    ASSUME TypeOK, CancelLive
    PROVE  /\ exec' \in [Tasks -> Exec]
           /\ \A t \in Tasks : exec'[t].pc = "none" <=> exec[t].pc = "none"
           /\ \A t \in Tasks : exec[t].pc = "done" => exec'[t].pc = "done"
<1>1. ASSUME NEW e \in Exec
      PROVE  /\ CancelExec(e) \in Exec
             /\ CancelExec(e).pc = "none" <=> e.pc = "none"
             /\ e.pc = "done" => CancelExec(e).pc = "done"
  <2>1. Finished("cancelled", NoUsage) \in Exec /\ Finished("cancelled", NoUsage).pc = "done"
    BY FinishedTyped, Constants DEF Results
  <2>2. Settling(e, "cancel") \in Exec /\ Settling(e, "cancel").pc = "settle"
    BY DEF Settling, Exec, ExecPoints
  <2> QED
    BY <2>1, <2>2 DEF CancelExec
<1> QED
  BY <1>1 DEF CancelLive, TypeOK

\* A step that leaves the records alone and moves the loop.
LEMMA LoopStep ==
    ASSUME IInv, Driving, Driving', drive' \notin {"commit"},
           UNCHANGED <<ledger, task, kids, control>>,
           exec' \in [Tasks -> Exec],
           \A t \in Tasks : exec'[t].pc = "none" <=> exec[t].pc = "none",
           batch' \subseteq Tasks, \A t \in batch' : exec'[t].pc = "done",
           focus' \in Tasks \cup {NoTask}, cursor' \in Nat, launched' \in BOOLEAN,
           stale' \in BOOLEAN
    PROVE  IInv'
<1> USE DEF IInv, ledger, control
<1>1. TypeOK'
  BY DEF TypeOK, Driving
<1>2. KidsOK' /\ AttemptsOK' /\ GraphOK'
  BY DEF KidsOK, AttemptsOK, AttemptLimits, GraphOK
<1>3. LiveOK'
  BY DEF LiveOK
<1>4. FocusOK'
  BY DEF FocusOK, Driving, DrivePoints
<1>5. EndOK'
  BY DEF EndOK, Driving, AllTerminal, Nonterminal, DrivePoints, FlowStatuses, TerminalFlow
<1> QED
  BY <1>1, <1>2, <1>3, <1>4, <1>5

\* A step of a run that gives tasks new statuses (attempts stay as they are).
LEMMA StatusStep ==
    ASSUME IInv, Driving, Driving',
           UNCHANGED <<graph, started, expired, kids, control>>,
           flow'.status = flow.status, flow'.attempts = flow.attempts,
           flow' \in [status : FlowStatuses, attempts : Nat, failures : Nat],
           task' \in [Tasks -> TaskRecord],
           \A t \in Tasks : /\ task'[t].attempts = task[t].attempts
                            /\ \/ task'[t].status = task[t].status
                               \/ t \in graph /\ task'[t].status # "running",
           exec' \in [Tasks -> Exec],
           \A t \in Tasks : exec'[t].pc # "none" => exec'[t] = exec[t],
           \A t \in Tasks : exec'[t].pc # "none" => task'[t].status = "running",
           batch' \subseteq Tasks, \A t \in batch' : exec'[t].pc = "done",
           focus' \in Tasks \cup {NoTask}, cursor' \in Nat, launched' \in BOOLEAN,
           stale' \in BOOLEAN,
           drive' = "commit" => focus' \in Tasks /\ task'[focus'].status = "succeeded"
    PROVE  IInv'
<1> USE DEF IInv, control
<1>1. TypeOK'
  BY DEF TypeOK, Driving
<1>2. KidsOK' /\ AttemptsOK' /\ GraphOK'
  BY DEF KidsOK, AttemptsOK, AttemptLimits, GraphOK
<1>3. LiveOK'
  BY DEF LiveOK
<1>4. FocusOK'
  BY DEF FocusOK, Driving, DrivePoints
<1>5. EndOK'
  BY DEF EndOK, Driving, DrivePoints, FlowStatuses, TerminalFlow
<1> QED
  BY <1>1, <1>2, <1>3, <1>4, <1>5

\* The end of a run, with or without an end of the flow.
LEMMA RunEnds ==
    ASSUME IInv, DriveEnds, UNCHANGED <<graph, started, expired, kids>>,
           crashes' \in Nat,
           recovery' \in Recovery,
           flow'.attempts = flow.attempts,
           flow' \in [status : FlowStatuses, attempts : Nat, failures : Nat],
           task' \in [Tasks -> TaskRecord],
           \A t \in Tasks : /\ task'[t].attempts = task[t].attempts
                            /\ \/ task'[t].status = task[t].status
                               \/ t \in graph /\ task'[t].status # "running",
           flow'.status \in TerminalFlow => AllTerminal'
    PROVE  IInv'
<1> USE DEF IInv, DriveEnds
<1>1. TypeOK'
  <2>1. NoExec \in Exec
    BY Constants DEF NoExec, Exec, ExecPoints, Results
  <2> QED
    BY <2>1 DEF TypeOK
<1>2. KidsOK' /\ AttemptsOK' /\ GraphOK'
  BY DEF KidsOK, AttemptsOK, AttemptLimits, GraphOK
<1>3. LiveOK'
  BY DEF LiveOK, NoExec
<1>4. FocusOK' /\ EndOK'
  BY DEF FocusOK, EndOK, Driving, DrivePoints
<1> QED
  BY <1>1, <1>2, <1>3, <1>4

\* Closing the open tasks ends them all.
LEMMA Closing ==
    ASSUME TypeOK, NEW st \in [Tasks -> {"failed", "cancelled"}], Close(st), graph' = graph
    PROVE  /\ task' \in [Tasks -> TaskRecord]
           /\ AllTerminal'
           /\ \A t \in Tasks : /\ task'[t].attempts = task[t].attempts
                               /\ task'[t].artifact = task[t].artifact
                               /\ t \notin Nonterminal => task'[t].status = task[t].status
                               /\ t \in Nonterminal => task'[t].status = st[t]
<1>1. ASSUME NEW t \in Tasks, NEW s \in {"failed", "cancelled"}
      PROVE  /\ [task[t] EXCEPT !.status = s, !.delayed = FALSE] \in TaskRecord
             /\ [task[t] EXCEPT !.status = s, !.delayed = FALSE].status = s
             /\ [task[t] EXCEPT !.status = s, !.delayed = FALSE].attempts = task[t].attempts
             /\ [task[t] EXCEPT !.status = s, !.delayed = FALSE].artifact = task[t].artifact
  <2>1. task[t] \in TaskRecord
    BY DEF TypeOK
  <2> QED
    BY <2>1 DEF TaskRecord, TaskStatuses
<1>2. task' \in [Tasks -> TaskRecord]
  BY <1>1 DEF Close, TypeOK
<1>3. \A t \in Tasks : /\ task'[t].attempts = task[t].attempts
                       /\ task'[t].artifact = task[t].artifact
                       /\ t \notin Nonterminal => task'[t].status = task[t].status
                       /\ t \in Nonterminal => task'[t].status = st[t]
  BY <1>1 DEF Close
<1>4. AllTerminal'
  BY <1>3 DEF AllTerminal, Nonterminal, TerminalTask, TypeOK
<1> QED
  BY <1>2, <1>3, <1>4

\* The record of an attempt about to start.
LEMMA FreshAttempt ==
    ASSUME NEW n \in Nat, NEW s \in {"no", "yes"}
    PROVE  LET r == [NewTask EXCEPT !.status = "running", !.attempts = n, !.settled = s]
           IN  r \in TaskRecord /\ r.status = "running" /\ r.attempts = n
  BY Constants DEF NewTask, TaskRecord, TaskStatuses, ChildStatuses

\* Every step of the run preserves the invariant.
LEMMA DrivePreserves ==
    ASSUME IInv, DriveStep
    PROVE  IInv'
<1> USE DEF IInv
<1>1. /\ exec \in [Tasks -> Exec] /\ task \in [Tasks -> TaskRecord]
      /\ batch \subseteq Tasks /\ focus \in Tasks \cup {NoTask} /\ cursor \in Nat
      /\ launched \in BOOLEAN /\ stale \in BOOLEAN /\ graph \subseteq Tasks
      /\ flow \in [status : FlowStatuses, attempts : Nat, failures : Nat]
      /\ recovery \in Recovery /\ crashes \in Nat
  BY DEF TypeOK
<1>2. \A t \in batch : exec[t].pc = "done"
  BY DEF LiveOK
<1>3. \A t \in Tasks : exec[t].pc # "none" => task[t].status = "running"
  BY DEF LiveOK
<1>4. {"top", "apply", "commit", "launch", "rest", "cancelling", "failingBudget", "raising"}
         = DrivePoints
  BY DEF DrivePoints
<1>5. NoExec \in Exec /\ NoExec.pc = "none"
  BY Constants DEF NoExec, Exec, ExecPoints, Results
<1>6. \A t \in Tasks : task[t].status # "pending" => t \in graph
  BY DEF GraphOK
<1> USE <1>1, <1>4 DEF ledger, loop, control, disk, Driving
<1>10. CASE TopOfLoop
  <2>1. batch' \subseteq Tasks /\ \A t \in batch' : exec'[t].pc = "done"
    BY <1>10 DEF TopOfLoop, Live
  <2> QED
    BY <1>10, <2>1, LoopStep DEF TopOfLoop
<1>11. CASE StartCancel \/ StartFailBudget \/ CommitFails \/ BlockConflict
  <2>1. CancelLive /\ Driving
    BY <1>11 DEF StartCancel, StartFailBudget, CommitFails, BlockConflict, Raise, Applied
  <2>2. batch' \subseteq batch
    BY <1>11 DEF StartCancel, StartFailBudget, CommitFails, BlockConflict, Raise, Applied
  <2>3. /\ drive' \in {"cancelling", "failingBudget", "raising"}
        /\ UNCHANGED <<ledger, task, kids, control, cursor, launched, stale>>
        /\ focus' \in Tasks \cup {NoTask}
    BY <1>11 DEF StartCancel, StartFailBudget, CommitFails, BlockConflict, Raise, Applied
  <2> QED
    BY <1>2, <2>1, <2>2, <2>3, CancelTyped, LoopStep
<1>12. CASE CommitManifest
  BY <1>2, <1>12, LoopStep DEF CommitManifest
<1>13. CASE StartLaunching \/ EndLaunching \/ WaitOrSleep
  <2>1. /\ Driving /\ drive' \in {"launch", "rest", "top"} /\ cursor' \in Nat
        /\ launched' \in BOOLEAN
        /\ UNCHANGED <<ledger, task, kids, control, exec, batch, focus, stale>>
    <3>1. CASE StartLaunching
      BY <3>1 DEF StartLaunching, Applied
    <3>2. CASE EndLaunching
      BY <3>2 DEF EndLaunching
    <3>3. CASE WaitOrSleep
      BY <3>3 DEF WaitOrSleep
    <3> QED
      BY <1>13, <3>1, <3>2, <3>3
  <2> QED
    BY <1>2, <2>1, LoopStep
<1>14. ASSUME NEW t \in Tasks, ApplySuccess(t) \/ ApplyFailure(t)
       PROVE  IInv'
  <2>1. /\ t \in batch /\ exec' = [exec EXCEPT ![t] = NoExec] /\ batch' = batch \ {t}
        /\ stale' = FALSE /\ drive = "apply"
    BY <1>14 DEF ApplySuccess, ApplyFailure, Applying, IsFirst
  <2>2. PICK r \in TaskRecord :
          /\ task' = [task EXCEPT ![t] = r] /\ r.attempts = task[t].attempts
          /\ r.status \in {"succeeded", "pending", "failed"}
          /\ ApplySuccess(t) => r.status = "succeeded"
    <3> DEFINE r1 == [task[t] EXCEPT !.status = "succeeded", !.artifact = task[t].attempts,
                                     !.delayed = FALSE]
               r2 == [task[t] EXCEPT !.status = IF MayRetry(t) THEN "pending" ELSE "failed",
                                     !.delayed = MayRetry(t) /\ t \in Backoff]
    <3>1. task[t] \in TaskRecord
      BY DEF TypeOK
    <3>2. r1 \in TaskRecord /\ r1.attempts = task[t].attempts /\ r1.status = "succeeded"
      BY <3>1 DEF TaskRecord, TaskStatuses
    <3>3. /\ r2 \in TaskRecord /\ r2.attempts = task[t].attempts
          /\ r2.status \in {"pending", "failed"}
      <4>1. (MayRetry(t) /\ t \in Backoff) \in BOOLEAN
        BY DEF MayRetry
      <4> QED
        BY <3>1, <4>1 DEF TaskRecord, TaskStatuses
    <3>4. ApplySuccess(t) => task' = [task EXCEPT ![t] = r1]
      BY DEF ApplySuccess
    <3>5. ApplyFailure(t) => task' = [task EXCEPT ![t] = r2]
      BY DEF ApplyFailure
    <3>6. ApplySuccess(t) => ~ApplyFailure(t)
      BY DEF ApplySuccess, ApplyFailure
    <3> HIDE DEF r1, r2
    <3> QED
      BY <1>14, <3>2, <3>3, <3>4, <3>5, <3>6
  <2>3. /\ UNCHANGED <<graph, started, expired, kids, control, cursor, launched>>
        /\ flow'.status = flow.status /\ flow'.attempts = flow.attempts
        /\ flow' \in [status : FlowStatuses, attempts : Nat, failures : Nat]
    BY <1>14 DEF ApplySuccess, ApplyFailure
  <2>4. /\ drive' \in {"apply", "commit"} /\ focus' \in Tasks \cup {NoTask}
        /\ drive' = "commit" => ApplySuccess(t) /\ focus' = t
    BY <1>14, <2>1 DEF ApplySuccess, ApplyFailure
  <2>5. t \in graph
    BY <1>2, <1>3, <1>6, <2>1
  <2>6. \A u \in Tasks : exec'[u].pc # "none" => u # t /\ exec'[u] = exec[u]
    BY <1>5, <2>1
  <2>7. \A u \in batch' : u # t /\ exec'[u].pc = "done"
    BY <1>2, <2>1
  <2> QED
    BY <1>3, <1>5, <2>1, <2>2, <2>3, <2>4, <2>5, <2>6, <2>7, StatusStep
<1>15. ASSUME NEW S \in SUBSET Pending, NEW r \in [Tasks -> TaskRecord],
              \A t \in S : /\ r[t].status \in {"blocked", "failed"}
                           /\ r[t].attempts = task[t].attempts,
              task' = [t \in Tasks |-> IF t \in S THEN r[t] ELSE task[t]],
              UNCHANGED <<ledger, kids, exec, batch, focus, control>>,
              cursor' \in Nat, launched' \in BOOLEAN, stale' \in BOOLEAN,
              Driving, drive' \in {"launch", "top"}
       PROVE  IInv'
  <2>1. \A t \in S : t \in graph /\ t \in Tasks /\ task[t].status = "pending"
    BY DEF Pending
  <2>2. task' \in [Tasks -> TaskRecord]
    BY <1>15
  <2>3. \A t \in Tasks : /\ task'[t].attempts = task[t].attempts
                         /\ \/ task'[t].status = task[t].status
                            \/ t \in graph /\ task'[t].status # "running"
    BY <1>15, <2>1
  <2>4. \A t \in Tasks : exec[t].pc # "none" => t \notin S
    BY <1>3, <2>1
  <2>5. \A t \in Tasks : exec'[t].pc # "none" => task'[t].status = "running"
    BY <1>3, <1>15, <2>4
  <2> QED
    BY <1>2, <1>15, <2>2, <2>3, <2>5, StatusStep
<1>16. ASSUME NEW t \in Tasks, NEW st \in {"blocked", "failed"}
       PROVE  LET r == [task[t] EXCEPT !.status = st]
                  q == [task[t] EXCEPT !.status = st, !.delayed = FALSE]
              IN  /\ r \in TaskRecord /\ r.status = st /\ r.attempts = task[t].attempts
                  /\ q \in TaskRecord /\ q.status = st /\ q.attempts = task[t].attempts
  <2>1. task[t] \in TaskRecord
    OBVIOUS
  <2> QED
    BY <2>1 DEF TaskRecord, TaskStatuses
<1>17. CASE BlockImpossible \/ Stall
  <2> DEFINE S == IF BlockImpossible THEN Impossible ELSE Pending
             r == IF BlockImpossible
                  THEN [t \in Tasks |-> [task[t] EXCEPT !.status = "blocked", !.delayed = FALSE]]
                  ELSE [t \in Tasks |-> [task[t] EXCEPT !.status = "blocked"]]
  <2>1. S \in SUBSET Pending /\ \A t \in S : t \in Tasks
    BY DEF Impossible, Pending
  <2>2. /\ r \in [Tasks -> TaskRecord]
        /\ \A t \in Tasks : r[t].status = "blocked" /\ r[t].attempts = task[t].attempts
    BY <1>16
  <2>3. task' = [t \in Tasks |-> IF t \in S THEN r[t] ELSE task[t]]
    BY <1>17 DEF BlockImpossible, Stall
  <2>4. /\ UNCHANGED <<ledger, kids, exec, batch, focus, control>>
        /\ cursor' \in Nat /\ launched' \in BOOLEAN /\ stale' \in BOOLEAN
        /\ Driving /\ drive' \in {"launch", "top"}
    <3>1. CASE BlockImpossible
      BY <3>1 DEF BlockImpossible, Applied
    <3>2. CASE Stall
      BY <3>2 DEF Stall
    <3> QED
      BY <1>17, <3>1, <3>2
  <2> HIDE DEF S, r
  <2> QED
    BY <1>15, <2>1, <2>2, <2>3, <2>4
<1>18. ASSUME NEW t \in Tasks, FailExhausted(t) \/ BlockWithoutInputs(t)
       PROVE  IInv'
  <2>1. /\ drive = "launch" /\ drive' = "launch" /\ launched' = TRUE
        /\ UNCHANGED <<ledger, kids, exec, batch, focus, control>>
        /\ stale' \in BOOLEAN
    BY <1>18 DEF FailExhausted, BlockWithoutInputs, Visiting
  <2>2. t \in Pending /\ cursor' \in Nat
    BY <1>18, Constants DEF FailExhausted, BlockWithoutInputs, Visiting, Reached, Upcoming, Eligible
  <2>3. PICK st \in {"blocked", "failed"} : task' = [task EXCEPT ![t].status = st]
    BY <1>18 DEF FailExhausted, BlockWithoutInputs
  <2> DEFINE r == [u \in Tasks |-> [task[u] EXCEPT !.status = st]]
  <2>4. /\ r \in [Tasks -> TaskRecord]
        /\ \A u \in Tasks : r[u].status = st /\ r[u].attempts = task[u].attempts
    BY <1>16
  <2> DEFINE S == {t}
  <2>5. task' = [u \in Tasks |-> IF u \in S THEN r[u] ELSE task[u]]
    BY <2>3
  <2>6. S \in SUBSET Pending /\ \A u \in S : u \in Tasks
    BY <2>2
  <2> HIDE DEF r, S
  <2> QED
    BY <1>15, <2>1, <2>2, <2>4, <2>5, <2>6
<1>19. ASSUME NEW t \in Tasks, Launch(t)
       PROVE  IInv'
  <2>1. /\ drive = "launch" /\ drive' = "launch" /\ launched' = TRUE /\ stale' = FALSE
        /\ UNCHANGED <<graph, tokens, started, expired, kids, batch, focus, control>>
        /\ exec' = [exec EXCEPT ![t].pc = IF UsesRlm THEN "start" ELSE "working"]
        /\ flow' = [flow EXCEPT !.attempts = @ + 1]
        /\ flow.attempts < BudgetAttempts /\ ~Exhausted(t)
    BY <1>19 DEF Launch, Visiting
  <2>2. t \in Pending /\ cursor' \in Nat
    BY <1>19, Constants DEF Launch, Visiting, Reached, Upcoming, Eligible
  <2> DEFINE r == [NewTask EXCEPT !.status = "running", !.attempts = task[t].attempts + 1,
                                  !.settled = IF UsesRlm THEN "no" ELSE "yes"]
             e == [exec[t] EXCEPT !.pc = IF UsesRlm THEN "start" ELSE "working"]
  <2>3. task' = [task EXCEPT ![t] = r] /\ exec' = [exec EXCEPT ![t] = e]
    BY <1>19 DEF Launch
  <2>4. task[t].attempts \in Nat /\ task[t].attempts < AttemptLimit[t] /\ AttemptLimit[t] \in Nat
    <3>1. task[t] \in TaskRecord
      OBVIOUS
    <3>2. task[t].attempts \in Nat /\ AttemptLimit[t] \in Nat
      BY <3>1, Constants DEF TaskRecord
    <3> QED
      BY <2>1, <3>2 DEF Exhausted
  <2>5. /\ r \in TaskRecord /\ r.status = "running" /\ r.attempts = task[t].attempts + 1
        /\ e \in Exec /\ e.pc # "none"
    <3>1. task[t].attempts + 1 \in Nat
      BY <2>4
    <3>2. e \in Exec /\ e.pc # "none"
      BY DEF Exec, ExecPoints
    <3> QED
      BY ZenonT(60), <3>1, <3>2, FreshAttempt
  <2>6. t \in graph /\ task[t].status = "pending" /\ t \notin batch
    BY <1>2, <1>3, <2>2 DEF Pending
  <2> HIDE DEF r, e
  <2>7. /\ flow' \in [status : FlowStatuses, attempts : Nat, failures : Nat]
        /\ flow'.attempts = flow.attempts + 1 /\ flow'.status = flow.status
    BY <2>1
  <2>8. TypeOK'
    BY ZenonT(60), <2>1, <2>2, <2>3, <2>5, <2>7 DEF TypeOK
  <2>9. KidsOK' /\ AttemptsOK' /\ GraphOK'
    BY <2>1, <2>3, <2>4, <2>5, <2>6, <2>7, Constants DEF KidsOK, AttemptsOK, AttemptLimits, GraphOK
  <2>10. LiveOK'
    BY <1>2, <1>3, <2>1, <2>3, <2>5, <2>6 DEF LiveOK
  <2>11. FocusOK' /\ EndOK'
    BY <2>1, <2>7 DEF FocusOK, EndOK, FlowStatuses, TerminalFlow
  <2> QED
    BY <2>8, <2>9, <2>10, <2>11
<1>20. CASE Finish
  BY <1>20, RunEnds DEF Finish, AllTerminal, Nonterminal, FlowStatuses
<1>21. CASE RunRaises
  <2>1. flow.status = "running"
    BY <1>21 DEF RunRaises, EndOK
  <2> QED
    BY <1>21, <2>1, RunEnds DEF RunRaises, TerminalFlow
<1>22. CASE SettleCancel
  <2> DEFINE st == [t \in Tasks |-> IF t \in Unsettled THEN "failed" ELSE "cancelled"]
  <2>1. st \in [Tasks -> {"failed", "cancelled"}] /\ Close(st) /\ graph' = graph
    BY <1>22 DEF SettleCancel
  <2> HIDE DEF st
  <2>2. \A t \in Nonterminal : t \in graph
    BY DEF Nonterminal
  <2> QED
    BY <1>22, <2>1, <2>2, Closing, RunEnds DEF SettleCancel, FlowStatuses
<1>23. CASE FailBudget
  <2> DEFINE st == [t \in Tasks |-> "failed"]
  <2>1. st \in [Tasks -> {"failed", "cancelled"}] /\ Close(st) /\ graph' = graph
    BY <1>23 DEF FailBudget
  <2> HIDE DEF st
  <2>2. \A t \in Nonterminal : t \in graph
    BY DEF Nonterminal
  <2> QED
    BY <1>23, <2>1, <2>2, Closing, RunEnds DEF FailBudget, FlowStatuses
<1> QED
  BY <1>10, <1>11, <1>12, <1>13, <1>14, <1>17, <1>18, <1>19, <1>20, <1>21, <1>22, <1>23
  DEF DriveStep

-----------------------------------------------------------------------------
(* Recovery, the caller, time and crashes.                                 *)

\* A step while no run is active.
LEMMA RestingStep ==
    ASSUME IInv, ~Driving, drive' \in RecoveryPoints \cup {"idle"},
           UNCHANGED <<graph, started, exec, batch, cursor, launched, cancelled, crashes>>,
           expired' \in BOOLEAN, KidsOK',
           flow' \in [status : FlowStatuses, attempts : Nat, failures : Nat],
           flow'.attempts = flow.attempts,
           task' \in [Tasks -> TaskRecord],
           \A t \in Tasks : /\ task'[t].attempts = task[t].attempts
                            /\ \/ task'[t].status = task[t].status
                               \/ t \in graph /\ task'[t].status # "running",
           focus' \in Tasks \cup {NoTask}, stale' \in BOOLEAN, recovery' \in Recovery,
           drive' = "recommit" => focus' \in Tasks /\ task'[focus'].status = "succeeded",
           drive' = "recovered" => focus' \in Tasks /\ task'[focus'].status = "running",
           flow'.status \in TerminalFlow =>
              /\ AllTerminal' /\ drive' \in {"idle", "recover", "marking"}
              /\ drive' = "recover" => ~recovery'.failClosed
    PROVE  IInv'
<1> USE DEF IInv
<1>1. TypeOK'
  BY DEF TypeOK
<1>2. AttemptsOK' /\ GraphOK'
  BY DEF AttemptsOK, AttemptLimits, GraphOK
<1>3. LiveOK'
  BY DEF LiveOK
<1>4. FocusOK' /\ EndOK'
  BY DEF FocusOK, EndOK, Driving, DrivePoints, RecoveryPoints
<1> QED
  BY <1>1, <1>2, <1>3, <1>4

\* What a settled attempt makes of its task.
LEMMA SettleTyped ==
    ASSUME TypeOK, focus \in Tasks, NEW status \in {"succeeded", "pending", "failed"},
           NEW settled \in {"no", "yes"}, NEW failures \in {0, 1}, NEW failClosed \in BOOLEAN,
           Settle(status, settled, failures, failClosed)
    PROVE  /\ task' \in [Tasks -> TaskRecord] /\ task'[focus].status = status
           /\ \A t \in Tasks : /\ task'[t].attempts = task[t].attempts
                               /\ t # focus => task'[t] = task[t]
           /\ flow' \in [status : FlowStatuses, attempts : Nat, failures : Nat]
           /\ flow'.attempts = flow.attempts /\ flow'.status = flow.status
           /\ recovery' \in Recovery
<1> DEFINE r == [task[focus] EXCEPT !.status = status, !.delayed = FALSE, !.settled = settled,
                                    !.artifact = IF status = "succeeded"
                                                 THEN task[focus].attempts ELSE 0]
<1>1. task' = [task EXCEPT ![focus] = r] /\ task \in [Tasks -> TaskRecord]
  BY DEF TypeOK, Settle
<1>2. task[focus] \in TaskRecord
  BY <1>1
<1>3. r \in TaskRecord /\ r.status = status /\ r.attempts = task[focus].attempts
  BY <1>2 DEF TaskRecord, TaskStatuses
<1>4. /\ flow' \in [status : FlowStatuses, attempts : Nat, failures : Nat]
      /\ flow'.attempts = flow.attempts /\ flow'.status = flow.status
  BY DEF TypeOK, Settle
<1>5. recovery' \in Recovery
  BY Constants DEF TypeOK, Settle, Recovery, Results
<1> HIDE DEF r
<1> QED
  BY <1>1, <1>3, <1>4, <1>5

\* Every step of a recovery preserves the invariant.
LEMMA RecoveryPreserves ==
    ASSUME IInv, RecoveryStep
    PROVE  IInv'
<1> USE DEF IInv
<1>1. /\ task \in [Tasks -> TaskRecord] /\ focus \in Tasks \cup {NoTask}
      /\ stale \in BOOLEAN /\ expired \in BOOLEAN /\ graph \subseteq Tasks
      /\ flow \in [status : FlowStatuses, attempts : Nat, failures : Nat]
      /\ recovery \in Recovery /\ crashes \in Nat
  BY DEF TypeOK
<1>2. \A t \in Tasks : task[t].status # "pending" => t \in graph
  BY DEF GraphOK
<1>3. Nonterminal \subseteq graph /\ Running \subseteq Nonterminal /\ \A t \in Running : t \in Tasks
  BY <1>1 DEF Nonterminal, Running, TerminalTask
<1>4. flow.status \in TerminalFlow =>
         Running = {} /\ (drive = "recover" => ~recovery.failClosed) /\ AllTerminal
  BY <1>3 DEF EndOK, AllTerminal
<1>5. UNCHANGED kids => KidsOK'
  BY DEF KidsOK
<1>6. drive \in {"recover", "recovered", "recommit", "marking"} => ~Driving
  BY DEF Driving, DrivePoints
<1> USE <1>1 DEF ledger, disk
<1>7. ASSUME NEW t \in Tasks, RecoverLocal(t)
      PROVE  IInv'
  <2> DEFINE r == [task[t] EXCEPT !.status = "pending", !.delayed = FALSE]
  <2>1. drive = "recover" /\ t \in Running /\ task' = [task EXCEPT ![t] = r]
    BY <1>7 DEF RecoverLocal, Recovering, IsFirst
  <2>2. task[t] \in TaskRecord
    OBVIOUS
  <2>3. r \in TaskRecord /\ r.status = "pending" /\ r.attempts = task[t].attempts
    BY <2>2 DEF TaskRecord, TaskStatuses
  <2>4. UNCHANGED <<graph, flow, started, expired, kids, drive, exec, batch, focus, cursor,
                    launched, stale, cancelled, recovery, crashes>>
    BY <1>7 DEF RecoverLocal, loop, control
  <2> HIDE DEF r
  <2>5. t \in graph
    BY <1>3, <2>1
  <2> QED
    BY <1>4, <1>5, <1>6, <2>1, <2>3, <2>4, <2>5, RestingStep DEF RecoveryPoints
<1>8. ASSUME NEW t \in Tasks, NEW result \in Results, NEW used \in MaybeUsage,
             Outcome(t, result, used), drive = "recover", t \in Running, KidsOK',
             stale' \in BOOLEAN, task' \in [Tasks -> TaskRecord],
             \A u \in Tasks : /\ task'[u].status = task[u].status
                              /\ task'[u].attempts = task[u].attempts
                              /\ task'[u].artifact = task[u].artifact
      PROVE  IInv'
  <2>1. /\ drive' = "recovered" /\ focus' = t
        /\ UNCHANGED <<graph, flow, started, expired, exec, batch, cursor, launched,
                       cancelled, crashes>>
        /\ task[t].status = "running"
    BY <1>8 DEF Outcome, Running
  <2>2. recovery' \in Recovery
    BY <1>8 DEF Outcome, Recovery
  <2> QED
    BY <1>4, <1>6, <1>8, <2>1, <2>2, RestingStep DEF RecoveryPoints
<1>9. ASSUME NEW t \in Tasks, RecoverCompleted(t) \/ RecoverUnlistable(t) \/ RecoverAbsent(t)
      PROVE  IInv'
  <2>1. task[t].usage \in MaybeUsage
    BY DEF TaskRecord
  <2>2. PICK result \in Results, used \in MaybeUsage : Outcome(t, result, used)
    <3>1. CASE RecoverCompleted(t)
      BY <2>1, <3>1 DEF RecoverCompleted, WithOutputs, Results
    <3>2. CASE RecoverUnlistable(t)
      BY <3>2, Constants DEF RecoverUnlistable, Results
    <3>3. CASE RecoverAbsent(t)
      BY <2>1, <3>3 DEF RecoverAbsent, Results
    <3> QED
      BY <1>9, <3>1, <3>2, <3>3
  <2>3. drive = "recover" /\ t \in Running /\ UNCHANGED <<task, kids, stale>>
    BY <1>9 DEF RecoverCompleted, RecoverUnlistable, RecoverAbsent, ToRecover, Recovering, IsFirst
  <2> QED
    BY <1>5, <1>8, <2>2, <2>3
<1>10. ASSUME NEW t \in Tasks, RecoverTerminal(t)
       PROVE  IInv'
  <2>1. drive = "recover" /\ t \in Running /\ Terminal(Kid(t)) /\ CleanUp(t)
    BY <1>10 DEF RecoverTerminal, ToRecover, Recovering, IsFirst
  <2>2. Kid(t) \in Child
    BY <2>1, KidTyped DEF Running
  <2>3. Kid(t).usage \in MaybeUsage /\ Kid(t).st \in ChildStatuses
    BY <2>1, <2>2 DEF Child, Terminal, ChildStatuses
  <2>4. KidsOK'
    <3>1. [Kid(t) EXCEPT !.st = "gone"] \in Child
      BY <2>2 DEF Child
    <3> QED
      BY <1>5, <2>1, <3>1, KidStep DEF CleanUp, SetKid
  <2>5. Notify(t, TRUE, Kid(t).st, Kid(t).usage, "yes")
    BY <1>10 DEF RecoverTerminal
  <2>6. PICK result \in Results : Outcome(t, result, Kid(t).usage)
    BY <1>10 DEF RecoverTerminal, WithOutputs, Results
  <2> QED
    BY <1>8, <2>1, <2>3, <2>4, <2>5, <2>6, NotifyTyped
<1>11. ASSUME NEW t \in Tasks, RecoverRunning(t)
       PROVE  IInv'
  <2>1. drive = "recover" /\ t \in Running
    BY <1>11 DEF RecoverRunning, ToRecover, Recovering, IsFirst
  <2>2. PICK end \in Deletions, used \in Usages :
          /\ SetKid(t, [st |-> end.st, usage |-> used])
          /\ IF ~end.settled
             THEN Notify(t, TRUE, "running", used, "no") /\ Outcome(t, "unsettled", used)
             ELSE /\ Notify(t, TRUE, "deleted", used, "yes")
                  /\ Outcome(t, IF RequireUsage /\ used = NoUsage THEN "fatal" ELSE "retryable",
                             used)
    BY <1>11 DEF RecoverRunning
  <2>3. used \in MaybeUsage /\ end.st \in {"gone", "running", "error"}
    BY Constants, DeletionTyped
  <2>4. KidsOK'
    <3>1. [st |-> end.st, usage |-> used] \in Child
      BY <2>3 DEF Child
    <3> QED
      BY <2>2, <3>1, KidStep DEF SetKid
  <2>5. PICK child \in ChildStatuses, settled \in {"unset", "no", "yes"} :
           Notify(t, TRUE, child, used, settled)
    BY <2>2 DEF ChildStatuses
  <2>6. PICK result \in Results : Outcome(t, result, used)
    BY <2>2 DEF Results
  <2> QED
    BY <1>8, <2>1, <2>3, <2>4, <2>5, <2>6, NotifyTyped
<1>12. ASSUME NEW status \in {"succeeded", "pending", "failed"}, NEW settled \in {"no", "yes"},
              NEW failures \in {0, 1}, NEW failClosed \in BOOLEAN, drive = "recovered",
              Settle(status, settled, failures, failClosed),
              \/ status # "succeeded" /\ drive' = "recover" /\ focus' = NoTask
              \/ status = "succeeded" /\ drive' = "recommit" /\ focus' = focus
       PROVE  IInv'
  <2>1. focus \in Tasks /\ task[focus].status = "running"
    BY <1>12 DEF FocusOK
  <2>2. focus \in graph
    BY <1>2, <2>1
  <2>3. flow.status \notin TerminalFlow
    BY <1>12 DEF EndOK
  <2>4. UNCHANGED <<graph, started, expired, kids, exec, batch, cursor, launched, stale,
                    cancelled, crashes>>
    BY <1>12 DEF Settle
  <2> QED
    BY <1>5, <1>6, <1>12, <2>1, <2>2, <2>3, <2>4, SettleTyped, RestingStep DEF RecoveryPoints
<1>13. CASE RecoveredUnsettled
  BY <1>12, <1>13 DEF RecoveredUnsettled
<1>14. CASE RecoveredOutputs
  BY <1>12, <1>14 DEF RecoveredOutputs
<1>15. CASE RecoveredFailure
  <2>1. PICK status \in {"pending", "failed"}, failClosed \in BOOLEAN :
           Settle(status, "yes", 1, failClosed)
    BY <1>15 DEF RecoveredFailure
  <2> QED
    BY <1>12, <1>15, <2>1 DEF RecoveredFailure
<1>16. CASE Recommit
  <2>1. flow.status \notin TerminalFlow
    BY <1>16 DEF EndOK, Recommit
  <2> QED
    BY <1>5, <1>6, <1>16, <2>1, RestingStep
    DEF Recommit, RecoveryPoints, control
<1>17. NoRecovery \in Recovery
  BY Constants DEF NoRecovery, Recovery, Results
<1>18. CASE RecommitFails
  <2>1. /\ drive \in {"recover", "recommit"} /\ drive' = "idle" /\ focus' = NoTask
        /\ recovery' = NoRecovery
        /\ UNCHANGED <<graph, flow, started, expired, task, kids, exec, batch, cursor, launched,
                       stale, cancelled, crashes>>
    BY <1>18 DEF RecommitFails, Leave
  <2>2. AllTerminal => AllTerminal'
    BY <2>1 DEF AllTerminal, Nonterminal
  <2> QED
    BY <1>4, <1>5, <1>6, <1>17, <2>1, <2>2, RestingStep
<1>19. CASE EndRecovery
  <2>1. /\ drive = "recover" /\ drive' \in {"idle", "marking"} /\ focus' \in Tasks \cup {NoTask}
        /\ UNCHANGED <<graph, started, expired, kids, exec, batch, cursor, launched, stale,
                       cancelled, crashes>>
        /\ recovery' \in Recovery
    BY <1>17, <1>19 DEF EndRecovery, Leave
  <2>2. CASE recovery.failClosed
    <3> DEFINE st == [t \in Tasks |-> "failed"]
    <3>1. st \in [Tasks -> {"failed", "cancelled"}] /\ Close(st)
      BY <1>19, <2>2 DEF EndRecovery
    <3>2. /\ flow' \in [status : FlowStatuses, attempts : Nat, failures : Nat]
          /\ flow'.attempts = flow.attempts
      BY <1>19, <2>2 DEF EndRecovery, FlowStatuses
    <3> HIDE DEF st
    <3> QED
      BY <1>3, <1>5, <1>6, <2>1, <3>1, <3>2, Closing, RestingStep DEF RecoveryPoints
  <2>3. CASE ~recovery.failClosed
    <3>1. /\ UNCHANGED task
          /\ flow' \in [status : FlowStatuses, attempts : Nat, failures : Nat]
          /\ flow'.attempts = flow.attempts
          /\ flow'.status \in TerminalFlow => flow.status \in TerminalFlow
      BY <1>19, <2>3 DEF EndRecovery, FlowStatuses, TerminalFlow
    <3>2. AllTerminal => AllTerminal'
      BY <2>1, <3>1 DEF AllTerminal, Nonterminal
    <3> QED
      BY <1>4, <1>5, <1>6, <2>1, <3>1, <3>2, RestingStep DEF RecoveryPoints
  <2> QED
    BY <2>2, <2>3
<1>20. CASE MarkCancelled
  <2>1. /\ drive = "marking" /\ drive' = "idle" /\ focus' = NoTask /\ recovery' = NoRecovery
        /\ UNCHANGED <<graph, started, expired, kids, exec, batch, cursor, launched, stale,
                       cancelled, crashes>>
    BY <1>20 DEF MarkCancelled, Leave
  <2>2. CASE flow.status \in TerminalFlow
    <3>1. UNCHANGED <<task, flow>> /\ AllTerminal'
      BY <1>4, <1>20, <2>1, <2>2 DEF MarkCancelled, AllTerminal, Nonterminal
    <3> QED
      BY <1>5, <1>6, <1>17, <2>1, <3>1, RestingStep
  <2>3. CASE flow.status \notin TerminalFlow
    <3>1. \A t \in Tasks : LET r == [task[t] EXCEPT !.status = "cancelled"]
                           IN  /\ r \in TaskRecord /\ r.status = "cancelled"
                               /\ r.attempts = task[t].attempts
      <4> TAKE t \in Tasks
      <4>1. task[t] \in TaskRecord
        OBVIOUS
      <4> QED
        BY <4>1 DEF TaskRecord, TaskStatuses
    <3>2. task' = [t \in Tasks |-> IF t \in Nonterminal
                                   THEN [task[t] EXCEPT !.status = "cancelled"] ELSE task[t]]
      BY <1>20, <2>3 DEF MarkCancelled
    <3>3. task' \in [Tasks -> TaskRecord]
      BY <3>1, <3>2
    <3>4. \A t \in Tasks : /\ task'[t].attempts = task[t].attempts
                           /\ IF t \in Nonterminal THEN task'[t].status = "cancelled"
                                                   ELSE task'[t].status = task[t].status
      BY <3>1, <3>2
    <3>5. AllTerminal'
      BY <2>1, <3>4 DEF AllTerminal, Nonterminal, TerminalTask
    <3>6. /\ flow' \in [status : FlowStatuses, attempts : Nat, failures : Nat]
          /\ flow'.attempts = flow.attempts
      BY <1>20, <2>3 DEF MarkCancelled, FlowStatuses
    <3> QED
      BY <1>3, <1>5, <1>6, <1>17, <2>1, <3>3, <3>4, <3>5, <3>6, RestingStep
  <2> QED
    BY <2>2, <2>3
<1> QED
  BY <1>7, <1>9, <1>10, <1>11, <1>13, <1>14, <1>15, <1>16, <1>18, <1>19, <1>20
  DEF RecoveryStep, RecoverStep

\* Every step of the caller, of time and every crash preserves the invariant.
LEMMA OthersPreserve ==
    ASSUME IInv,
           \/ CallerStep \/ WallExpires \/ Crash
           \/ \E t \in Tasks : BackoffEnds(t)
    PROVE  IInv'
<1> USE DEF IInv
<1>1. /\ task \in [Tasks -> TaskRecord] /\ focus \in Tasks \cup {NoTask}
      /\ stale \in BOOLEAN /\ expired \in BOOLEAN /\ graph \subseteq Tasks
      /\ flow \in [status : FlowStatuses, attempts : Nat, failures : Nat]
      /\ recovery \in Recovery /\ crashes \in Nat /\ KidsOK
  BY DEF TypeOK
<1>2. NoRecovery \in Recovery
  BY Constants DEF NoRecovery, Recovery, Results
<1>3. UNCHANGED kids => KidsOK'
  BY DEF KidsOK
<1>4. UNCHANGED <<graph, task>> => (AllTerminal <=> AllTerminal')
  BY DEF AllTerminal, Nonterminal
<1> USE <1>1 DEF ledger, disk, loop, control
<1>5. ASSUME NEW t \in Tasks, AddTask(t)
      PROVE  IInv'
  <2>1. /\ drive = "idle" /\ flow.status = "pending" /\ graph' = graph \cup {t}
        /\ UNCHANGED <<flow, started, expired, task, kids, drive, exec, batch, focus, cursor,
                       launched, stale, cancelled, recovery, crashes>>
    BY <1>5 DEF AddTask
  <2>2. TypeOK'
    BY <2>1 DEF TypeOK
  <2>3. AttemptsOK' /\ GraphOK' /\ LiveOK' /\ FocusOK'
    BY <2>1 DEF AttemptsOK, AttemptLimits, GraphOK, LiveOK, FocusOK, Driving
  <2>4. EndOK'
    BY <2>1 DEF EndOK, Driving, DrivePoints, TerminalFlow
  <2> QED
    BY <1>3, <2>1, <2>2, <2>3, <2>4
<1>6. CASE Run
  <2>1. /\ drive = "idle" /\ drive' = "top" /\ started' = TRUE
        /\ flow' = [flow EXCEPT !.status = "running"]
        /\ UNCHANGED <<graph, expired, task, kids, exec, batch, focus, cursor,
                       launched, stale, cancelled, recovery, crashes>>
    BY <1>6 DEF Run
  <2>2. TypeOK'
    BY <2>1 DEF TypeOK, DrivePoints, FlowStatuses
  <2>3. AttemptsOK' /\ GraphOK' /\ LiveOK' /\ FocusOK'
    BY <2>1 DEF AttemptsOK, AttemptLimits, GraphOK, LiveOK, FocusOK, Driving, DrivePoints
  <2>4. EndOK'
    BY <2>1 DEF EndOK, TerminalFlow
  <2> QED
    BY <1>3, <2>1, <2>2, <2>3, <2>4
<1>7. ASSUME \/ RequestCancel \/ \E t \in Tasks : BackoffEnds(t)
             \/ WallExpires
      PROVE  IInv'
  <2>1. /\ UNCHANGED <<graph, flow, started, kids, drive, exec, batch, focus, cursor,
                       launched, stale, recovery, crashes>>
        /\ expired' \in BOOLEAN /\ cancelled' \in BOOLEAN
    BY <1>7 DEF RequestCancel, BackoffEnds, WallExpires, TypeOK
  <2>2. /\ task' \in [Tasks -> TaskRecord]
        /\ \A t \in Tasks : /\ task'[t].status = task[t].status
                            /\ task'[t].attempts = task[t].attempts
                            /\ task'[t].artifact = task[t].artifact
    <3>1. ASSUME NEW t \in Tasks, BackoffEnds(t)
          PROVE  <2>2!:
      <4> DEFINE r == [task[t] EXCEPT !.delayed = FALSE]
      <4>1. task[t] \in TaskRecord /\ task' = [task EXCEPT ![t] = r]
        BY <3>1 DEF BackoffEnds
      <4>2. /\ r \in TaskRecord /\ r.status = task[t].status /\ r.attempts = task[t].attempts
            /\ r.artifact = task[t].artifact
        BY <4>1 DEF TaskRecord
      <4> HIDE DEF r
      <4> QED
        BY <4>1, <4>2
    <3>2. CASE UNCHANGED task
      BY <3>2
    <3> QED
      BY <1>7, <3>1, <3>2 DEF RequestCancel, WallExpires
  <2>3. TypeOK'
    BY <2>1, <2>2 DEF TypeOK
  <2>4. AttemptsOK' /\ GraphOK' /\ LiveOK' /\ FocusOK'
    BY <2>1, <2>2 DEF AttemptsOK, AttemptLimits, GraphOK, LiveOK, FocusOK, Driving
  <2>5. EndOK'
    BY <2>1, <2>2 DEF EndOK, Driving, AllTerminal, Nonterminal
  <2> QED
    BY <1>3, <2>1, <2>3, <2>4, <2>5
<1>8. CASE Load \/ CancelIdle
  <2>1. PICK goal \in {"load", "cancel"}, point \in {"recover", "marking"} : Enter(goal, point)
    BY <1>8 DEF Load, CancelIdle
  <2>2. /\ drive = "idle" /\ drive' = point
        /\ UNCHANGED <<graph, flow, started, expired, task, kids, exec, batch, focus, cursor,
                       launched, stale, cancelled, crashes>>
    BY <2>1 DEF Enter
  <2>3. recovery' \in Recovery /\ ~recovery'.failClosed
    BY <2>1, <1>2 DEF Enter, Recovery, NoRecovery
  <2>4. flow.status \in TerminalFlow => AllTerminal
    BY DEF EndOK
  <2> QED
    BY <1>3, <1>4, <2>2, <2>3, <2>4, RestingStep DEF Driving, DrivePoints, RecoveryPoints
<1>9. CASE Crash
  <2>1. /\ DriveEnds /\ recovery' = NoRecovery /\ crashes' = crashes + 1
        /\ UNCHANGED <<graph, flow, started, expired, task, kids>>
    BY <1>9 DEF Crash
  <2>2. flow.status \in TerminalFlow => AllTerminal
    BY DEF EndOK
  <2> QED
    BY <1>2, <1>4, <2>1, <2>2, RunEnds
<1> QED
  BY <1>5, <1>6, <1>7, <1>8, <1>9 DEF CallerStep

-----------------------------------------------------------------------------
(* The invariant, and what follows from it.                                *)

\* So does a step that changes nothing.
LEMMA StutterPreserves ==
    ASSUME IInv, UNCHANGED vars
    PROVE  IInv'
<1> USE DEF IInv, vars, ledger, disk, loop, control
<1>1. TypeOK' /\ KidsOK'
  BY DEF TypeOK, KidsOK
<1>2. AttemptsOK' /\ GraphOK' /\ LiveOK' /\ FocusOK'
  BY DEF AttemptsOK, AttemptLimits, GraphOK, LiveOK, FocusOK, Driving
<1>3. EndOK'
  BY DEF EndOK, Driving, AllTerminal, Nonterminal
<1> QED
  BY <1>1, <1>2, <1>3

\* The invariant is inductive.
LEMMA StepPreserves == IInv /\ [Next]_vars => IInv'
  BY StutterPreserves, OthersPreserve, RecoveryPreserves, DrivePreserves, HostPreserves,
     ExecPreserves DEF Next, TaskStep

\* The invariant holds in every state.
LEMMA Invariance == Spec => []IInv
  BY InitIInv, StepPreserves, PTL DEF Spec

\* Every variable of the runtime keeps its type, for any graph, budgets and faults.
THEOREM RuntimeTypeOK == Spec => []TypeOK
<1>1. IInv => TypeOK
  BY DEF IInv
<1> QED
  BY <1>1, Invariance, PTL

-----------------------------------------------------------------------------
(* The invariant of attempts, children and results.                        *)

\* Children are only asked of an RLM executor, and a local attempt always counts
\* as settled.
ExecutorOK(t) ==
    IF UsesRlm THEN exec[t].pc # "working"
    ELSE exec[t].pc \in {"none", "working", "done"} /\ task[t].settled # "no"

\* A success that has yet to be applied is settled, and its outputs are written.
ResultOK(t) ==
    exec[t].result = "ok" /\ exec[t].pc \in {"cleanup", "cleaned", "done"} =>
        /\ task[t].settled # "no"
        /\ UsesRlm => <<t, task[t].attempts>> \in written

\* A child that runs belongs to the last attempt, and the record knows that it
\* is not settled; no child is left of a task that may be started again.
ChildOK(t) ==
    /\ \A n \in 1..AttemptLimit[t] :
          /\ kids[t][n].st # "requested"
          /\ n > task[t].attempts => kids[t][n].st = "none"
          /\ kids[t][n].st = "running" =>
                /\ n = task[t].attempts /\ task[t].settled = "no"
                /\ task[t].status \in {"running", "failed"}
    /\ exec[t].pc = "start" => task[t].settled = "no"
    /\ exec[t].pc = "report" /\ exec[t].settled => Kid(t).st # "running"

\* Only a run, or a crash of one, leaves tasks running, and tasks that run share
\* no resource.
RunningOK ==
    /\ flow.status = "pending" => drive # "recommit" /\ \A t \in Tasks : task[t].status # "running"
    /\ drive = "marking" => \A t \in Tasks : task[t].status # "running"
    /\ Driving => \A t \in Tasks : task[t].status = "running" => exec[t].pc # "none"
    /\ \A t, u \in Tasks :
          t # u /\ task[t].status = "running" /\ task[u].status = "running" =>
              Resources[t] \cap Resources[u] = {}

\* What a recovery concluded is true of the task it is about to settle.
RecoveredOK ==
    drive = "recovered" =>
        /\ UsesRlm
        /\ recovery.result = "ok" => <<focus, task[focus].attempts>> \in written
        /\ "slow" \notin Faults /\ recovery.result # "unsettled" => Kid(focus).st # "running"

AttemptInv ==
    /\ \A t \in Tasks : ExecutorOK(t) /\ ResultOK(t) /\ ("slow" \notin Faults => ChildOK(t))
    /\ RunningOK /\ RecoveredOK

\* Notify keeps all that does not concern the child.
LEMMA NotifyKeeps ==
    ASSUME IInv, NEW u \in Tasks, NEW known, NEW child, NEW usage, NEW settled,
           Notify(u, known, child, usage, settled)
    PROVE  \A t \in Tasks : /\ task'[t].status = task[t].status
                            /\ task'[t].attempts = task[t].attempts
                            /\ task'[t].artifact = task[t].artifact
<1> DEFINE r == [task[u] EXCEPT !.known = known, !.child = child, !.usage = usage,
                                !.settled = settled]
<1>1. task' = [task EXCEPT ![u] = r] /\ task \in [Tasks -> TaskRecord]
  BY DEF IInv, TypeOK, Notify
<1>2. task[u] \in TaskRecord
  BY <1>1
<1>3. r.status = task[u].status /\ r.attempts = task[u].attempts /\ r.artifact = task[u].artifact
  BY <1>2 DEF TaskRecord
<1> HIDE DEF r
<1> QED
  BY <1>1, <1>3

\* Attempts, children and the clock change no status and publish nothing.
LEMMA ExecutorKeeps ==
    ASSUME IInv, NEW u \in Tasks, TaskStep(u)
    PROVE  /\ UNCHANGED published
           /\ \A t \in Tasks : /\ task'[t].status = task[t].status
                               /\ task'[t].attempts = task[t].attempts
                               /\ task'[t].artifact = task[t].artifact
<1>1. task \in [Tasks -> TaskRecord] /\ UNCHANGED published
  BY DEF IInv, TypeOK, TaskStep, ExecStep, ExecProgress, ExecSpawn, ExecAdmitted, ExecObserve,
     ExecFails, ExecMisses, ExecCleanup, ExecReturn, SettleUnlistable, SettleAbsent,
     SettleTerminal, SettleRunning, ExecReport, LocalReturn, ExecTimeout, HostStep, HostAdmits,
     ChildEnds, ChildVanishes, HostIdle, BackoffEnds, disk
<1>2. \/ UNCHANGED task
      \/ \E known, child, usage, settled : Notify(u, known, child, usage, settled)
      \/ BackoffEnds(u)
  BY DEF TaskStep, ExecStep, ExecProgress, ExecSpawn, ExecAdmitted, ExecObserve,
     ExecFails, ExecMisses, ExecCleanup, ExecReturn, SettleUnlistable, SettleAbsent,
     SettleTerminal, SettleRunning, ExecReport, LocalReturn, ExecTimeout, HostStep, HostAdmits,
     ChildEnds, ChildVanishes, HostIdle
<1>3. ASSUME NEW t \in Tasks
      PROVE  /\ task'[t].status = task[t].status /\ task'[t].attempts = task[t].attempts
             /\ task'[t].artifact = task[t].artifact
  <2>1. task[t] \in TaskRecord
    BY <1>1
  <2> QED
    BY <1>1, <1>2, <2>1, NotifyKeeps DEF BackoffEnds, TaskRecord
<1> QED
  BY <1>1, <1>3

\* The attempt a running task is at is one of its possible ones.
LEMMA CurrentAttempt ==
    ASSUME IInv, NEW t \in Tasks, task[t].status = "running"
    PROVE  task[t].attempts \in 1..AttemptLimit[t]
<1>1. task[t].attempts \in Nat /\ AttemptLimit[t] \in Nat
  BY Constants DEF IInv, TypeOK, TaskRecord
<1> QED
  BY <1>1 DEF IInv, AttemptsOK, AttemptLimits

\* An attempt, its host and its clock only touch their own task's state.
LEMMA AttemptFrame ==
    ASSUME IInv, NEW u \in Tasks, TaskStep(u)
    PROVE  /\ \A t \in Tasks : t # u => /\ task'[t] = task[t] /\ exec'[t] = exec[t]
                                        /\ kids'[t] = kids[t]
           /\ \A t \in Tasks : /\ task'[t].status = task[t].status
                               /\ task'[t].attempts = task[t].attempts
                               /\ task'[t].artifact = task[t].artifact
           /\ written \subseteq written'
           /\ UNCHANGED <<ledger, published, drive, loop, control>>
<1>1. task \in [Tasks -> TaskRecord] /\ exec \in [Tasks -> Exec] /\ DOMAIN kids = Tasks
  BY DEF IInv, TypeOK, KidsOK
<1>2. /\ written \subseteq written'
      /\ UNCHANGED <<ledger, published, drive, loop, control>>
  BY DEF TaskStep, ExecStep, ExecProgress, ExecSpawn, ExecAdmitted, ExecObserve,
     ExecFails, ExecMisses, ExecCleanup, ExecReturn, SettleUnlistable, SettleAbsent,
     SettleTerminal, SettleRunning, ExecReport, LocalReturn, ExecTimeout, HostStep, HostAdmits,
     ChildEnds, ChildVanishes, HostIdle, BackoffEnds, disk
<1>3. ASSUME NEW t \in Tasks, t # u
      PROVE  task'[t] = task[t] /\ exec'[t] = exec[t] /\ kids'[t] = kids[t]
  BY <1>1, <1>3 DEF TaskStep, ExecStep, ExecProgress, ExecSpawn, ExecAdmitted, ExecObserve,
     ExecFails, ExecMisses, ExecCleanup, ExecReturn, SettleUnlistable, SettleAbsent,
     SettleTerminal, SettleRunning, ExecReport, LocalReturn, ExecTimeout, HostStep, HostAdmits,
     ChildEnds, ChildVanishes, HostIdle, BackoffEnds, Notify, Moves, SetKid, CleanUp
<1>4. \A t \in Tasks : /\ task'[t].status = task[t].status
                       /\ task'[t].attempts = task[t].attempts
                       /\ task'[t].artifact = task[t].artifact
  BY ExecutorKeeps
<1> QED
  BY <1>2, <1>3, <1>4

\* The three conditions on a task only depend on its own state.
LEMMA TaskSame ==
    ASSUME NEW t \in Tasks, task'[t] = task[t], exec'[t] = exec[t] \/ exec'[t] = NoExec,
           kids'[t] = kids[t],
           written \subseteq written'
    PROVE  /\ ExecutorOK(t) => ExecutorOK(t)'
           /\ ResultOK(t) => ResultOK(t)'
           /\ ChildOK(t) => ChildOK(t)'
  BY DEF ExecutorOK, ResultOK, ChildOK, Kid, NoExec

\* An attempt stays what its executor allows, and its success stays settled.
LEMMA AttemptResults ==
    ASSUME IInv, NEW t \in Tasks, ExecStep(t) \/ ExecTimeout(t), ExecutorOK(t), ResultOK(t)
    PROVE  ExecutorOK(t)' /\ ResultOK(t)'
<1>1. exec[t] \in Exec /\ exec \in [Tasks -> Exec] /\ task \in [Tasks -> TaskRecord]
  BY DEF IInv, TypeOK
<1> USE <1>1 DEF ExecutorOK, ResultOK, Moves, disk
<1>2. task'[t].attempts = task[t].attempts /\ written \subseteq written'
  BY AttemptFrame DEF TaskStep
<1>3. UNCHANGED task \/ UsesRlm
  BY DEF ExecStep, ExecProgress, ExecTimeout, ExecSpawn, ExecAdmitted, ExecObserve,
     ExecFails, ExecMisses, ExecCleanup, ExecReturn, SettleUnlistable, SettleAbsent,
     SettleTerminal, SettleRunning, ExecReport, LocalReturn
<1>4. CASE ExecSpawn(t) \/ ExecAdmitted(t) \/ ExecFails(t) \/ ExecMisses(t)
  <2>1. UsesRlm
    BY <1>4 DEF ExecSpawn, ExecAdmitted, ExecFails, ExecMisses
  <2>2. exec'[t].pc \in {"spawning", "polling", "settle"}
    <3>1. CASE ExecSpawn(t)
      BY <3>1 DEF ExecSpawn, Exec
    <3>2. CASE ExecAdmitted(t)
      BY <3>2 DEF ExecAdmitted, Exec
    <3>3. CASE ExecFails(t) \/ ExecMisses(t)
      BY <3>3 DEF ExecFails, ExecMisses, Settling, Exec
    <3> QED
      BY <1>4, <3>1, <3>2, <3>3
  <2> QED
    BY <2>1, <2>2
<1>5. CASE ExecObserve(t)
  <2>1. task'[t].settled = "yes"
    <3>1. task[t] \in TaskRecord
      OBVIOUS
    <3> QED
      BY <1>5, <3>1 DEF ExecObserve, Notify, TaskRecord
  <2> QED
    BY <1>2, <1>3, <1>5, <2>1 DEF ExecObserve, Exec
<1>6. CASE ExecCleanup(t) \/ ExecReturn(t)
  BY ZenonT(60), <1>2, <1>6 DEF ExecCleanup, ExecReturn, Finished, NoExec, Exec
<1>7. CASE SettleUnlistable(t) \/ SettleAbsent(t) \/ SettleTerminal(t) \/ SettleRunning(t)
  <2>1. PICK settled, used, known : Moves(t, Reporting(exec[t], settled, used, known))
    BY <1>7 DEF SettleUnlistable, SettleAbsent, SettleTerminal, SettleRunning
  <2>2. exec'[t].pc = "report" /\ exec[t].pc = "settle"
    BY <1>7, <2>1 DEF Reporting, Exec, SettleUnlistable, SettleAbsent, SettleTerminal, SettleRunning
  <2> QED
    BY <1>3, <2>2
<1>8. CASE ExecReport(t)
  BY <1>3, <1>8 DEF ExecReport, Finished, NoExec, SettledResult, Exec
<1>9. CASE LocalReturn(t)
  BY <1>2, <1>9 DEF LocalReturn, Finished, NoExec, Exec
<1>10. CASE ExecTimeout(t)
  BY <1>2, <1>10 DEF ExecTimeout, Finished, Settling, NoExec, Exec
<1> QED
  BY <1>4, <1>5, <1>6, <1>7, <1>8, <1>9, <1>10 DEF ExecStep, ExecProgress

\* What a step may do to the children of a task, and to the record of them.
ChildKept(t) ==
    /\ \A n \in 1..AttemptLimit[t] :
          \/ kids'[t][n].st = kids[t][n].st
          \/ /\ kids'[t][n].st # "requested" /\ kids[t][n].st # "none"
             /\ kids'[t][n].st = "running" => kids[t][n].st \in {"running", "requested"}
    /\ task'[t].attempts = task[t].attempts /\ task'[t].status = task[t].status
    /\ task'[t].settled = task[t].settled \/ task'[t].settled = "no"
       \/ kids'[t][task[t].attempts].st # "running"
    /\ exec'[t].pc = "start" => exec[t].pc = "start" /\ task'[t].settled = task[t].settled
    /\ exec'[t].pc = "report" /\ exec'[t].settled =>
          \/ kids'[t][task[t].attempts].st # "running"
          \/ exec[t].pc = "report" /\ exec[t].settled

LEMMA ChildKeeps ==
    ASSUME IInv, NEW t \in Tasks, ChildOK(t), ChildKept(t), task[t].status = "running"
    PROVE  ChildOK(t)'
<1>1. task[t].attempts \in 1..AttemptLimit[t]
  BY CurrentAttempt
<1> QED
  BY <1>1 DEF ChildOK, ChildKept, Kid

\* The children of an attempt stay known to the record.
LEMMA AttemptChildren ==
    ASSUME IInv, NEW t \in Tasks, ExecStep(t) \/ ExecTimeout(t), ChildOK(t), "slow" \notin Faults
    PROVE  ChildOK(t)'
<1> DEFINE a == task[t].attempts
<1>1. exec[t] \in Exec /\ exec \in [Tasks -> Exec] /\ task \in [Tasks -> TaskRecord] /\ KidsOK
  BY DEF IInv, TypeOK
<1>2. task'[t].attempts = a /\ task'[t].status = task[t].status
  BY AttemptFrame DEF TaskStep
<1>3. exec[t].pc # "none"
  BY DEF ExecStep, ExecProgress, ExecTimeout, ExecSpawn, ExecAdmitted, ExecObserve,
     ExecFails, ExecMisses, ExecCleanup, ExecReturn, SettleUnlistable, SettleAbsent,
     SettleTerminal, SettleRunning, ExecReport, LocalReturn
<1>4. task[t].status = "running"
  BY <1>3 DEF IInv, LiveOK
<1>5. a \in 1..AttemptLimit[t]
  BY <1>4, CurrentAttempt
<1>6. kids[t][a] \in Child /\ DOMAIN kids = Tasks /\ DOMAIN kids[t] = 1..AttemptLimit[t]
  BY <1>1, <1>5 DEF KidsOK
<1>7. task[t] \in TaskRecord
  BY <1>1
<1>8. ASSUME NEW k, SetKid(t, k)
      PROVE  /\ \A n \in 1..AttemptLimit[t] : n # a => kids'[t][n] = kids[t][n]
             /\ kids'[t][a] = k
  BY <1>5, <1>6, <1>8 DEF SetKid
<1>9. Kid(t) = kids[t][a] /\ Kid(t)' = kids'[t][a]
  BY <1>2 DEF Kid
<1> USE <1>1, <1>2, <1>4, <1>5, <1>6, <1>7, <1>9
<1>10. CASE ExecSpawn(t)
  <2>1. /\ kids'[t][a].st = "running"
        /\ \A n \in 1..AttemptLimit[t] : n # a => kids'[t][n] = kids[t][n]
    BY <1>8, <1>10 DEF ExecSpawn, NoChild
  <2>2. exec[t].pc = "start" /\ exec'[t].pc = "spawning" /\ task' = task
    BY <1>10 DEF ExecSpawn, Moves, Exec
  <2> QED
    BY <2>1, <2>2 DEF ChildOK
<1>11. CASE UNCHANGED kids /\ UNCHANGED task /\ exec'[t].pc \notin {"start", "report"}
  BY <1>11 DEF ChildOK, Kid
<1>12. ASSUME NEW known, NEW child, NEW usage, NEW settled, Notify(t, known, child, usage, settled)
       PROVE  task'[t].settled = settled
  BY <1>12 DEF Notify, TaskRecord
<1>13. CASE ExecAdmitted(t)
  <2>1. task'[t].settled = "no" /\ exec'[t].pc = "polling" /\ kids' = kids
    BY <1>12, <1>13 DEF ExecAdmitted, Moves, Exec
  <2> QED
    BY <2>1, ChildKeeps DEF ChildKept
<1>14. CASE ExecObserve(t)
  <2>1. kids'[t][a].st # "running" /\ exec'[t].pc = "cleanup" /\ kids' = kids
    BY <1>14 DEF ExecObserve, Terminal, Moves, Exec
  <2> QED
    BY <2>1, ChildKeeps DEF ChildKept
<1>15. CASE ExecFails(t) \/ ExecMisses(t) \/ ExecReturn(t) \/ LocalReturn(t)
  BY ZenonT(60), <1>11, <1>15 DEF ExecFails, ExecMisses, ExecReturn, LocalReturn, Moves, Settling,
     Finished, NoExec, Exec
<1>16. CASE ExecTimeout(t)
  BY <1>11, <1>16 DEF ExecTimeout, Moves, Settling, Finished, NoExec, Exec
<1>17. ASSUME CleanUp(t), kids[t][a].st \notin {"none", "requested"}
       PROVE  \A n \in 1..AttemptLimit[t] :
                 \/ kids'[t][n].st = kids[t][n].st
                 \/ kids'[t][n].st = "gone" /\ kids[t][n].st # "none"
  <2>1. CASE UNCHANGED kids
    BY <2>1
  <2>2. CASE SetKid(t, [Kid(t) EXCEPT !.st = "gone"])
    <3>1. kids'[t][a].st = "gone"
      BY <1>8, <2>2 DEF Child
    <3> QED
      BY <1>8, <1>17, <2>2, <3>1
  <2> QED
    BY <1>17, <2>1, <2>2 DEF CleanUp
<1>18. CASE ExecCleanup(t)
  <2>1. CASE UNCHANGED kids
    BY <1>11, <1>18, <2>1 DEF ExecCleanup, Moves, Exec
  <2>2. CASE SetKid(t, [Kid(t) EXCEPT !.st = "gone"])
    <3>1. kids'[t][a].st = "gone" /\ \A n \in 1..AttemptLimit[t] : n # a => kids'[t][n] = kids[t][n]
      BY <1>8, <2>2 DEF Child
    <3>2. exec'[t].pc = "cleaned" /\ task' = task
      BY <1>18 DEF ExecCleanup, Moves, Exec
    <3> QED
      BY <3>1, <3>2 DEF ChildOK
  <2> QED
    BY <1>18, <2>1, <2>2 DEF ExecCleanup, CleanUp
<1>19. CASE SettleUnlistable(t) \/ SettleAbsent(t) \/ SettleTerminal(t)
  <2>1. /\ exec'[t].pc = "report" /\ task' = task
        /\ exec'[t].settled => kids[t][a].st # "running"
    BY ZenonT(60), <1>19 DEF SettleUnlistable, SettleAbsent, SettleTerminal, Moves, Reporting, Exec,
       Listed, Terminal
  <2>2. \A n \in 1..AttemptLimit[t] :
           \/ kids'[t][n].st = kids[t][n].st
           \/ kids'[t][n].st = "gone" /\ kids[t][n].st # "none"
    BY <1>17, <1>19 DEF SettleUnlistable, SettleAbsent, SettleTerminal, Terminal
  <2>3. exec'[t].settled => kids'[t][task[t].attempts].st # "running"
    BY <2>1, <2>2
  <2>4. ChildKept(t)
    BY <2>1, <2>2, <2>3 DEF ChildKept
  <2> QED
    BY <2>4, ChildKeeps
<1>20. CASE SettleRunning(t)
  <2>1. PICK end \in Deletions, used \in Usages :
          /\ Moves(t, Reporting(exec[t], end.settled, used, TRUE))
          /\ SetKid(t, [st |-> end.st, usage |-> used])
    BY <1>20 DEF SettleRunning
  <2>2. end.st \in {"gone", "running", "error"} /\ (end.settled => end.st # "running")
    BY DEF Deletions
  <2>3. exec'[t].pc = "report" /\ task' = task /\ exec'[t].settled = end.settled
    BY <1>20, <2>1 DEF SettleRunning, Moves, Reporting, Exec
  <2>4. /\ kids'[t][a].st = end.st /\ kids[t][a].st = "running"
        /\ \A n \in 1..AttemptLimit[t] : n # a => kids'[t][n] = kids[t][n]
    BY <1>8, <1>20, <2>1 DEF SettleRunning
  <2>5. exec'[t].settled => kids'[t][task[t].attempts].st # "running"
    BY <2>2, <2>3, <2>4
  <2>6. \A n \in 1..AttemptLimit[t] :
           \/ kids'[t][n].st = kids[t][n].st
           \/ kids'[t][n].st # "requested" /\ kids[t][n].st = "running"
    BY <2>2, <2>4
  <2>7. ChildKept(t)
    BY <2>3, <2>5, <2>6 DEF ChildKept
  <2> QED
    BY <2>7, ChildKeeps
<1>21. CASE ExecReport(t)
  <2>1. exec'[t].pc = "done" /\ kids' = kids /\ exec[t].pc = "report"
    BY <1>21 DEF ExecReport, Moves, Finished, NoExec, Exec
  <2>2. \/ task'[t].settled = task[t].settled
        \/ task'[t].settled = IF exec[t].settled THEN "yes" ELSE "no"
    BY <1>12, <1>21 DEF ExecReport
  <2>3. exec[t].settled => kids[t][a].st # "running"
    BY <2>1 DEF ChildOK
  <2> QED
    BY <2>1, <2>2, <2>3, ChildKeeps DEF ChildKept
<1> QED
  BY <1>10, <1>13, <1>14, <1>15, <1>16, <1>18, <1>19, <1>20, <1>21 DEF ExecStep, ExecProgress

\* Without late admissions, no child starts of itself.
LEMMA HostChildren ==
    ASSUME IInv, NEW t \in Tasks, HostStep(t) \/ BackoffEnds(t)
    PROVE  /\ exec'[t] = exec[t] /\ task'[t].settled = task[t].settled
           /\ ChildOK(t) =>
                /\ ChildOK(t)'
                /\ \A n \in 1..AttemptLimit[t] :
                      kids'[t][n].st = "running" => kids[t][n].st = "running"
<1>1. exec' = exec /\ task \in [Tasks -> TaskRecord] /\ KidsOK
  BY DEF IInv, TypeOK, HostStep, HostAdmits, ChildEnds, ChildVanishes, HostIdle, BackoffEnds
<1>2. task[t] \in TaskRecord /\ DOMAIN kids = Tasks
  BY <1>1 DEF KidsOK
<1>3. /\ task'[t].settled = task[t].settled
      /\ task'[t].attempts = task[t].attempts /\ task'[t].status = task[t].status
  <2>1. task' = task \/ task' = [task EXCEPT ![t].delayed = FALSE]
    BY DEF HostStep, HostAdmits, ChildEnds, ChildVanishes, HostIdle, BackoffEnds
  <2> QED
    BY <1>1, <1>2, <2>1 DEF TaskRecord
<1>4. ASSUME ChildOK(t), NEW n \in 1..AttemptLimit[t]
      PROVE  \/ kids'[t][n].st = kids[t][n].st
             \/ Listed(kids[t][n]) /\ kids'[t][n].st \in {"completed", "error", "gone"}
  <2>1. CASE BackoffEnds(t)
    BY <2>1 DEF BackoffEnds
  <2>2. CASE HostStep(t)
    <3>1. PICK a \in 1..AttemptLimit[t] : HostAdmits(t, a) \/ ChildEnds(t, a) \/ ChildVanishes(t, a)
      BY <2>2 DEF HostStep
    <3>2. ~HostAdmits(t, a)
      BY <1>4 DEF ChildOK, HostAdmits
    <3>3. kids[t][a] \in Child /\ DOMAIN kids[t] = 1..AttemptLimit[t]
      BY <1>1 DEF KidsOK
    <3>4. CASE ChildEnds(t, a)
      BY <1>2, <3>3, <3>4 DEF ChildEnds, Listed, Child
    <3>5. CASE ChildVanishes(t, a)
      BY <1>2, <3>3, <3>5 DEF ChildVanishes, Child
    <3> QED
      BY <3>1, <3>2, <3>4, <3>5
  <2> QED
    BY <2>1, <2>2
<1>5. ASSUME ChildOK(t)
      PROVE  \A n \in 1..AttemptLimit[t] : kids'[t][n].st = "running" => kids[t][n].st = "running"
  BY <1>4, <1>5
<1>6. ASSUME ChildOK(t)
      PROVE  ChildOK(t)'
  <2>1. \A n \in 1..AttemptLimit[t] :
           /\ kids'[t][n].st # "requested"
           /\ kids[t][n].st = "none" => kids'[t][n].st = "none"
    BY <1>4, <1>6 DEF ChildOK, Listed
  <2>2. exec[t].pc = "report" /\ Kid(t).st # "running" => Kid(t)'.st # "running"
    <3>1. exec[t].pc = "report" => task[t].attempts \in 1..AttemptLimit[t]
      BY CurrentAttempt DEF IInv, LiveOK
    <3> QED
      BY <1>3, <1>5, <1>6, <3>1 DEF Kid
  <2> QED
    BY <1>1, <1>3, <1>5, <1>6, <2>1, <2>2 DEF ChildOK
<1> QED
  BY <1>1, <1>3, <1>5, <1>6

\* An attempt leaves a run's tasks as live as they were.
LEMMA AttemptLives ==
    ASSUME IInv, NEW u \in Tasks, TaskStep(u)
    PROVE  \A t \in Tasks : exec[t].pc # "none" => exec'[t].pc # "none"
<1>1. exec \in [Tasks -> Exec]
  BY DEF IInv, TypeOK
<1>2. CASE HostStep(u) \/ BackoffEnds(u)
  BY <1>2 DEF HostStep, HostAdmits, ChildEnds, ChildVanishes, HostIdle, BackoffEnds
<1>3. CASE ExecStep(u) \/ ExecTimeout(u)
  <2>1. exec'[u].pc # "none"
    <3>1. exec[u] \in Exec
      BY <1>1
    <3>2. CASE ExecSpawn(u) \/ ExecAdmitted(u) \/ ExecObserve(u) \/ ExecFails(u) \/ ExecMisses(u)
      BY <1>1, <3>1, <3>2 DEF ExecSpawn, ExecAdmitted, ExecObserve, ExecFails, ExecMisses, Moves,
         Settling, Exec
    <3>3. CASE ExecCleanup(u) \/ ExecReturn(u) \/ ExecReport(u) \/ LocalReturn(u)
      BY ZenonT(60), <1>1, <3>1, <3>3 DEF ExecCleanup, ExecReturn, ExecReport, LocalReturn, Moves,
         Finished, NoExec, Exec
    <3>4. CASE SettleUnlistable(u) \/ SettleAbsent(u) \/ SettleTerminal(u) \/ SettleRunning(u)
      BY ZenonT(60), <1>1, <3>1, <3>4 DEF SettleUnlistable, SettleAbsent, SettleTerminal,
         SettleRunning, Moves, Reporting, Exec
    <3>5. CASE ExecTimeout(u)
      BY <1>1, <3>1, <3>5 DEF ExecTimeout, Moves, Finished, Settling, NoExec, Exec
    <3> QED
      BY <1>3, <3>2, <3>3, <3>4, <3>5 DEF ExecStep, ExecProgress
  <2> QED
    BY <2>1, AttemptFrame
<1> QED
  BY <1>2, <1>3 DEF TaskStep

\* Attempts, children and the clock preserve the invariant.
LEMMA AttemptPreserves ==
    ASSUME IInv, AttemptInv, NEW u \in Tasks, TaskStep(u)
    PROVE  AttemptInv'
<1>1. /\ \A t \in Tasks : t # u => /\ task'[t] = task[t] /\ exec'[t] = exec[t]
                                   /\ kids'[t] = kids[t]
      /\ \A t \in Tasks : /\ task'[t].status = task[t].status
                          /\ task'[t].attempts = task[t].attempts
      /\ written \subseteq written'
      /\ UNCHANGED <<ledger, published, drive, loop, control>>
  BY AttemptFrame
<1>2. ExecutorOK(u)' /\ ResultOK(u)' /\ ("slow" \notin Faults => ChildOK(u)')
  <2>1. CASE HostStep(u) \/ BackoffEnds(u)
    <3>1. /\ exec'[u] = exec[u] /\ task'[u].settled = task[u].settled
          /\ ChildOK(u) => ChildOK(u)'
      BY <2>1, HostChildren
    <3> QED
      BY <1>1, <3>1 DEF AttemptInv, ExecutorOK, ResultOK
  <2>2. CASE ExecStep(u) \/ ExecTimeout(u)
    BY <2>2, AttemptResults, AttemptChildren DEF AttemptInv
  <2> QED
    BY <2>1, <2>2 DEF TaskStep
<1>3. ASSUME NEW t \in Tasks
      PROVE  ExecutorOK(t)' /\ ResultOK(t)' /\ ("slow" \notin Faults => ChildOK(t)')
  BY <1>1, <1>2, <1>3, TaskSame DEF AttemptInv
<1>4. RunningOK'
  BY <1>1, AttemptLives DEF AttemptInv, RunningOK, ledger, Driving
<1>5. RecoveredOK'
  <2> SUFFICES ASSUME drive = "recovered"
               PROVE  RecoveredOK'
    BY <1>1 DEF RecoveredOK
  <2>1. focus \in Tasks /\ task[focus].status = "running" /\ \A t \in Tasks : exec[t].pc = "none"
    BY DEF IInv, FocusOK, LiveOK, Driving, DrivePoints
  <2>2. HostStep(u) \/ BackoffEnds(u)
    BY <2>1 DEF TaskStep, ExecStep, ExecProgress, ExecSpawn, ExecAdmitted, ExecObserve,
       ExecFails, ExecMisses, ExecCleanup, ExecReturn, SettleUnlistable, SettleAbsent,
       SettleTerminal, SettleRunning, ExecReport, LocalReturn, ExecTimeout
  <2>3. task[focus].attempts \in 1..AttemptLimit[focus]
    BY <2>1, CurrentAttempt
  <2>4. "slow" \notin Faults /\ Kid(focus).st # "running" => Kid(focus)'.st # "running"
    <3>1. CASE focus = u
      BY <1>1, <2>1, <2>2, <2>3, <3>1, HostChildren DEF AttemptInv, Kid, loop
    <3>2. CASE focus # u
      BY <1>1, <2>1, <3>2 DEF Kid, loop
    <3> QED
      BY <3>1, <3>2
  <2> QED
    BY <1>1, <2>1, <2>4 DEF AttemptInv, RecoveredOK, loop, control
<1> QED
  BY <1>3, <1>4, <1>5 DEF AttemptInv

\* What cancelling an attempt makes of it.
LEMMA CancelKeeps ==
    ASSUME NEW e \in Exec
    PROVE  /\ CancelExec(e).pc = "none" <=> e.pc = "none"
           /\ CancelExec(e).pc \in {"none", "settle", "done"}
           /\ e.pc = "working" => CancelExec(e).pc = "done"
           /\ e.pc = "none" => CancelExec(e).pc = "none"
           /\ CancelExec(e).pc = "done" /\ CancelExec(e).result = "ok" =>
                 e.pc = "done" /\ e.result = "ok"
           /\ e.pc = "done" => CancelExec(e) = e
  BY DEF CancelExec, Finished, Settling, NoExec, Exec

\* Steps that only change statuses, or end attempts, keep the three conditions.
LEMMA StatusKeeps ==
    ASSUME IInv, NEW t \in Tasks, UNCHANGED <<kids, written>>,
           task'[t].attempts = task[t].attempts, task'[t].settled = task[t].settled,
           \/ task'[t].status \in {task[t].status, "failed"}
           \/ task[t].status \notin {"running", "failed"}
           \/ task[t].settled # "no",
           exec'[t] \in {exec[t], NoExec, CancelExec(exec[t])}
    PROVE  /\ ExecutorOK(t) => ExecutorOK(t)'
           /\ ResultOK(t) => ResultOK(t)'
           /\ ChildOK(t) => ChildOK(t)'
<1>1. exec[t] \in Exec
  BY DEF IInv, TypeOK
<1>2. NoExec.pc = "none"
  BY DEF NoExec
<1>3. ExecutorOK(t) => ExecutorOK(t)'
  BY <1>1, <1>2, CancelKeeps DEF ExecutorOK
<1>4. ResultOK(t) => ResultOK(t)'
  BY <1>1, <1>2, CancelKeeps DEF ResultOK
<1>5. /\ exec'[t].pc = "start" => exec[t].pc = "start"
      /\ exec'[t].pc = "report" /\ exec'[t].settled => exec[t].pc = "report" /\ exec[t].settled
  BY <1>1, <1>2, CancelKeeps
<1>6. ChildOK(t) => ChildOK(t)'
  BY <1>5 DEF ChildOK, Kid
<1> QED
  BY <1>3, <1>4, <1>6

\* A run's step that starts no attempt.
LEMMA RunKeeps ==
    ASSUME IInv, AttemptInv, Driving, drive' \in DrivePoints \cup {"idle"},
           UNCHANGED <<kids, written>>,
           \A t \in Tasks :
              /\ task'[t].attempts = task[t].attempts /\ task'[t].settled = task[t].settled
              /\ \/ task'[t].status \in {task[t].status, "failed"}
                 \/ task[t].status \notin {"running", "failed"} /\ task'[t].status # "running"
                 \/ task[t].settled # "no" /\ task'[t].status # "running"
              /\ exec'[t] \in {exec[t], NoExec, CancelExec(exec[t])}
              /\ drive' # "idle" /\ task'[t].status = "running" =>
                    exec'[t] # NoExec \/ exec'[t] = exec[t],
           flow'.status # "pending"
    PROVE  AttemptInv'
<1>1. ASSUME NEW t \in Tasks
      PROVE  ExecutorOK(t)' /\ ResultOK(t)' /\ ("slow" \notin Faults => ChildOK(t)')
  BY <1>1, StatusKeeps DEF AttemptInv
<1>2. ASSUME NEW t \in Tasks
      PROVE  task'[t].status = "running" => task[t].status = "running"
  OBVIOUS
<1>3. ASSUME Driving', NEW t \in Tasks, task'[t].status = "running"
      PROVE  exec'[t].pc # "none"
  <2>1. exec[t].pc # "none" /\ exec[t] \in Exec
    BY <1>2, <1>3 DEF AttemptInv, RunningOK, IInv, TypeOK
  <2>2. drive' # "idle"
    BY <1>3 DEF Driving, DrivePoints
  <2> QED
    BY <1>3, <2>1, <2>2, CancelKeeps
<1>4. RunningOK'
  BY <1>2, <1>3 DEF AttemptInv, RunningOK, DrivePoints
<1>5. RecoveredOK'
  BY DEF RecoveredOK, DrivePoints
<1> QED
  BY <1>1, <1>4, <1>5 DEF AttemptInv

\* Every step of the run preserves the invariant.
LEMMA RunPreserves ==
    ASSUME IInv, AttemptInv, DriveStep
    PROVE  AttemptInv'
<1>1. /\ task \in [Tasks -> TaskRecord] /\ exec \in [Tasks -> Exec] /\ batch \subseteq Tasks
      /\ \A u \in Tasks : task[u] \in TaskRecord
      /\ flow \in [status : FlowStatuses, attempts : Nat, failures : Nat]
  BY DEF IInv, TypeOK
<1>2. Driving /\ flow.status = "running"
  <2>1. Driving
    BY DEF DriveStep, Driving, DrivePoints, TopOfLoop, StartCancel, CommitManifest, CommitFails,
       ApplySuccess, ApplyFailure, Applying, StartFailBudget, Applied, BlockImpossible,
       BlockConflict, StartLaunching, Finish, FailExhausted, BlockWithoutInputs, Launch,
       Visiting, EndLaunching, WaitOrSleep, Stall, SettleCancel, FailBudget, RunRaises
  <2> QED
    BY <2>1 DEF IInv, EndOK
<1>3. \A t \in batch : exec[t].pc = "done" /\ task[t].status = "running"
  BY <1>1 DEF IInv, LiveOK
<1> USE <1>1, <1>2
<1>4. {"top", "apply", "commit", "launch", "rest", "cancelling", "failingBudget", "raising"}
         = DrivePoints
  BY DEF DrivePoints
<1>5. CASE UNCHANGED <<task, exec, flow, kids, written>> /\ drive' \in DrivePoints
  BY <1>5, RunKeeps
<1>6. CASE CancelLive /\ UNCHANGED <<task, flow, kids, written>> /\ drive' \in DrivePoints
  <2>1. \A t \in Tasks : exec'[t] = CancelExec(exec[t])
    BY <1>6 DEF CancelLive
  <2>2. \A t \in Tasks : exec[t].pc # "none" => exec'[t].pc # "none"
    BY <2>1, CancelKeeps
  <2>3. NoExec.pc = "none"
    BY DEF NoExec
  <2>4. \A t \in Tasks : task[t].status = "running" => exec[t].pc # "none"
    BY DEF AttemptInv, RunningOK
  <2> QED
    BY <1>6, <2>1, <2>2, <2>3, <2>4, RunKeeps
<1>7. ASSUME NEW t \in Tasks, ApplySuccess(t) \/ ApplyFailure(t)
      PROVE  AttemptInv'
  <2>1. /\ t \in batch /\ exec' = [exec EXCEPT ![t] = NoExec]
        /\ drive' \in {"apply", "commit"} /\ UNCHANGED <<kids, written>>
        /\ flow'.status = flow.status
    BY <1>7 DEF ApplySuccess, ApplyFailure, Applying, IsFirst, disk
  <2>2. \A u \in Tasks : u # t => task'[u] = task[u] /\ exec'[u] = exec[u]
    BY <1>7, <2>1 DEF ApplySuccess, ApplyFailure
  <2>3. /\ task'[t].attempts = task[t].attempts /\ task'[t].settled = task[t].settled
        /\ task'[t].status # "running" /\ exec'[t] = NoExec
    BY <1>7, <2>1 DEF ApplySuccess, ApplyFailure, TaskRecord
  <2>4. task'[t].status = "failed" \/ task[t].settled # "no"
    <3>1. CASE ApplySuccess(t)
      BY <1>3, <2>1, <3>1 DEF ApplySuccess, AttemptInv, ResultOK
    <3>2. CASE ApplyFailure(t)
      BY <3>2 DEF ApplyFailure, MayRetry, TaskRecord
    <3> QED
      BY <1>7, <3>1, <3>2
  <2> QED
    BY <1>4, <2>1, <2>2, <2>3, <2>4, RunKeeps
<1>8. CASE BlockImpossible \/ Stall
  <2>1. \A t \in Tasks : \/ task'[t] = task[t]
                         \/ /\ task[t].status = "pending" /\ task'[t].status = "blocked"
                            /\ task'[t].attempts = task[t].attempts
                            /\ task'[t].settled = task[t].settled
    <3> SUFFICES ASSUME NEW t \in Tasks
                 PROVE  \/ task'[t] = task[t]
                        \/ /\ task[t].status = "pending" /\ task'[t].status = "blocked"
                           /\ task'[t].attempts = task[t].attempts
                           /\ task'[t].settled = task[t].settled
      OBVIOUS
    <3>1. LET r == [task[t] EXCEPT !.status = "blocked", !.delayed = FALSE]
          IN  r.attempts = task[t].attempts /\ r.status = "blocked" /\ r.settled = task[t].settled
      BY DEF TaskRecord
    <3>2. LET r == [task[t] EXCEPT !.status = "blocked"]
          IN  r.attempts = task[t].attempts /\ r.status = "blocked" /\ r.settled = task[t].settled
      BY DEF TaskRecord
    <3> QED
      BY <1>8, <3>1, <3>2 DEF BlockImpossible, Stall, Impossible, Pending
  <2>2. UNCHANGED <<exec, flow, kids, written>> /\ drive' \in {"launch", "top"}
    BY <1>8 DEF BlockImpossible, Stall, ledger, disk
  <2> QED
    BY <1>4, <2>1, <2>2, RunKeeps
<1>9. ASSUME NEW u \in Tasks, FailExhausted(u) \/ BlockWithoutInputs(u)
      PROVE  AttemptInv'
  <2>1. /\ u \in Pending /\ UNCHANGED <<exec, flow, kids, written>> /\ drive' = drive
        /\ drive = "launch"
    BY <1>9 DEF FailExhausted, BlockWithoutInputs, Visiting, Reached, Upcoming, Eligible, ledger,
       disk
  <2>2. \A t \in Tasks : u # t => task'[t] = task[t]
    BY <1>9 DEF FailExhausted, BlockWithoutInputs
  <2>3. /\ task'[u].attempts = task[u].attempts /\ task'[u].settled = task[u].settled
        /\ task'[u].status # "running" /\ task[u].status = "pending"
    BY <1>9, <2>1 DEF FailExhausted, BlockWithoutInputs, TaskRecord, Pending
  <2> QED
    BY <1>4, <2>1, <2>2, <2>3, RunKeeps
<1>10. ASSUME NEW u \in Tasks, Launch(u)
       PROVE  AttemptInv'
  <2> DEFINE r == [NewTask EXCEPT !.status = "running", !.attempts = task[u].attempts + 1,
                                  !.settled = IF UsesRlm THEN "no" ELSE "yes"]
             e == [exec[u] EXCEPT !.pc = IF UsesRlm THEN "start" ELSE "working"]
  <2>1. /\ drive = "launch" /\ drive' = "launch" /\ UNCHANGED <<kids, written, focus, recovery>>
        /\ task' = [task EXCEPT ![u] = r] /\ exec' = [exec EXCEPT ![u] = e]
        /\ flow'.status = flow.status
    BY <1>10 DEF Launch, Visiting, disk, control
  <2>2. u \in Pending /\ Resources[u] \cap BusyResources = {} /\ ~Exhausted(u)
    BY <1>10 DEF Launch, Visiting, Reached, Upcoming, Eligible
  <2>3. /\ r.status = "running" /\ r.attempts = task[u].attempts + 1
        /\ r.settled = IF UsesRlm THEN "no" ELSE "yes"
    BY DEF NewTask
  <2>4. e.pc = IF UsesRlm THEN "start" ELSE "working"
    BY DEF Exec
  <2>5. task[u].attempts \in Nat /\ AttemptLimit[u] \in Nat
    BY Constants DEF TaskRecord
  <2>6. /\ \A t \in Tasks : t # u => task'[t] = task[t] /\ exec'[t] = exec[t]
        /\ task'[u] = r /\ exec'[u] = e
    BY <2>1
  <2> HIDE DEF r, e
  <2>7. "slow" \notin Faults => ChildOK(u)'
    <3> SUFFICES ASSUME "slow" \notin Faults
                 PROVE  ChildOK(u)'
      OBVIOUS
    <3>1. ASSUME NEW n \in 1..AttemptLimit[u]
          PROVE  /\ kids[u][n].st \notin {"requested", "running"}
                 /\ n > task[u].attempts => kids[u][n].st = "none"
      BY <2>2, <3>1 DEF AttemptInv, ChildOK, Pending
    <3>2. UsesRlm \/ exec'[u].pc \notin {"start", "report"}
      BY <2>4, <2>6
    <3>3. exec'[u].pc # "report"
      BY <2>4, <2>6
    <3> QED
      BY <2>1, <2>3, <2>5, <2>6, <3>1, <3>2, <3>3 DEF ChildOK
  <2>8. ExecutorOK(u)' /\ ResultOK(u)'
    BY <2>3, <2>4, <2>6 DEF ExecutorOK, ResultOK
  <2>9. ASSUME NEW t \in Tasks
        PROVE  ExecutorOK(t)' /\ ResultOK(t)' /\ ("slow" \notin Faults => ChildOK(t)')
    BY <2>1, <2>6, <2>7, <2>8, <2>9, TaskSame DEF AttemptInv
  <2>10. ASSUME NEW t \in Tasks, t # u, task[t].status = "running"
         PROVE  Resources[t] \cap Resources[u] = {}
    <3>1. exec[t].pc # "none"
      BY <2>10 DEF AttemptInv, RunningOK
    <3> QED
      BY <2>2, <3>1 DEF BusyResources, Live
  <2>11. RunningOK'
    <3>1. \A t \in Tasks : task'[t].status = "running" => t = u \/ task[t].status = "running"
      BY <2>6
    <3>2. \A t \in Tasks : task'[t].status = "running" => exec'[t].pc # "none"
      BY <2>4, <2>6, <3>1 DEF AttemptInv, RunningOK
    <3>3. \A t, w \in Tasks :
             t # w /\ task'[t].status = "running" /\ task'[w].status = "running" =>
                 Resources[t] \cap Resources[w] = {}
      BY <2>10, <3>1 DEF AttemptInv, RunningOK
    <3> QED
      BY <2>1, <3>2, <3>3 DEF RunningOK
  <2>12. RecoveredOK'
    BY <2>1 DEF RecoveredOK
  <2> QED
    BY <2>9, <2>11, <2>12 DEF AttemptInv
<1>11. CASE Finish \/ RunRaises
  <2>1. /\ UNCHANGED <<task, kids, written>> /\ DriveEnds
        /\ flow'.status \in {"succeeded", "failed", "running"}
    BY <1>11 DEF Finish, RunRaises, disk, ledger
  <2> QED
    BY <2>1, RunKeeps DEF DriveEnds
<1>12. CASE SettleCancel \/ FailBudget
  <2>1. /\ UNCHANGED <<kids, written, graph>> /\ DriveEnds
        /\ flow'.status \in {"cancelled", "failed"}
    BY <1>12 DEF SettleCancel, FailBudget, disk
  <2>2. ASSUME NEW t \in Tasks
        PROVE  \/ task'[t] = task[t]
               \/ /\ task'[t].attempts = task[t].attempts /\ task'[t].settled = task[t].settled
                  /\ task'[t].status \in {"failed", "cancelled"}
                  /\ \/ task'[t].status = "failed" \/ task[t].status # "running"
                     \/ task[t].settled # "no"
    <3>1. \A st \in {"failed", "cancelled"} :
             LET r == [task[t] EXCEPT !.status = st, !.delayed = FALSE]
             IN  /\ r.attempts = task[t].attempts /\ r.status = st
                 /\ r.settled = task[t].settled
      BY DEF TaskRecord
    <3>2. CASE FailBudget
      BY <3>1, <3>2 DEF FailBudget, Close
    <3>3. CASE SettleCancel
      <4>1. task[t].status = "running" => t \in graph
        BY DEF IInv, GraphOK
      <4> QED
        BY <3>1, <3>3, <4>1 DEF SettleCancel, Close, Unsettled, Running
    <3> QED
      BY <1>12, <3>2, <3>3
  <2>3. \A t \in Tasks : task'[t] = task[t] => task'[t].status = task[t].status
    OBVIOUS
  <2>4. \A t \in Tasks : task'[t] # task[t] => task[t].status \notin {"failed"}
    BY <1>12 DEF SettleCancel, FailBudget, Close, Nonterminal, TerminalTask
  <2> QED
    BY <2>1, <2>2, <2>4, RunKeeps DEF DriveEnds
<1> QED
  BY <1>4, <1>5, <1>6, <1>7, <1>8, <1>9, <1>10, <1>11, <1>12
  DEF DriveStep, TopOfLoop, StartCancel, CommitManifest, CommitFails, Raise, StartFailBudget,
      BlockConflict, StartLaunching, EndLaunching, WaitOrSleep, ledger, disk

\* A recovery's step gives a running task another status, or none.
LEMMA RecoveryKeeps ==
    ASSUME IInv, AttemptInv, ~Driving, ~Driving', UNCHANGED written,
           \A t \in Tasks :
              /\ ExecutorOK(t)' /\ ResultOK(t)' /\ ("slow" \notin Faults => ChildOK(t)')
              /\ task'[t].status = "running" => task[t].status = "running",
           drive' = "marking" => \A t \in Tasks : task'[t].status # "running",
           flow'.status = "pending" =>
               drive' # "recommit" /\ \A t \in Tasks : task'[t].status # "running",
           RecoveredOK'
    PROVE  AttemptInv'
  BY DEF AttemptInv, RunningOK

\* A task is settled by its recovery as the record and the host know it.
LEMMA SettlingKeeps ==
    ASSUME IInv, AttemptInv, NEW status, NEW settled, NEW failures, NEW failClosed,
           Settle(status, settled, failures, failClosed), drive = "recovered",
           drive' \in {"recover", "recommit"},
           \/ /\ status = "failed" /\ settled = "no" /\ recovery.result = "unsettled"
           \/ /\ status \in {"succeeded", "pending", "failed"} /\ settled = "yes"
              /\ recovery.result # "unsettled"
    PROVE  AttemptInv'
<1>1. /\ focus \in Tasks /\ task[focus].status = "running" /\ UsesRlm
      /\ task \in [Tasks -> TaskRecord] /\ ~Driving /\ flow.status # "pending"
      /\ flow \in [status : FlowStatuses, attempts : Nat, failures : Nat]
  BY DEF IInv, TypeOK, FocusOK, AttemptInv, RecoveredOK, Driving, DrivePoints, RunningOK
<1>2. PICK f \in Tasks : f = focus
  BY <1>1
<1>3. UNCHANGED <<kids, written, exec>> /\ flow'.status = flow.status
  BY <1>1 DEF Settle, disk
<1>4. /\ \A t \in Tasks : t # f => task'[t] = task[t]
      /\ task'[f].status = status /\ task'[f].attempts = task[f].attempts
      /\ task'[f].settled = settled
  <2>1. task[f] \in TaskRecord
    BY <1>1
  <2> QED
    BY <1>1, <1>2, <2>1 DEF Settle, TaskRecord
<1>5. \A t \in Tasks : exec[t].pc = "none"
  BY <1>1 DEF IInv, LiveOK
<1>6. "slow" \notin Faults => ChildOK(f)'
  <2>1. task[f].attempts \in 1..AttemptLimit[f]
    BY <1>1, <1>2, CurrentAttempt
  <2>2. "slow" \notin Faults => ChildOK(f)
    BY DEF AttemptInv
  <2>3. "slow" \notin Faults /\ settled # "no" =>
           \A n \in 1..AttemptLimit[f] : kids[f][n].st # "running"
    BY <1>1, <1>2, <2>1, <2>2 DEF AttemptInv, RecoveredOK, ChildOK, Kid
  <2>4. exec'[f].pc = "none"
    BY <1>3, <1>5
  <2>5. CASE settled = "no"
    BY <1>3, <1>4, <2>2, <2>4, <2>5 DEF ChildOK
  <2>6. CASE settled # "no"
    BY <1>3, <1>4, <2>2, <2>3, <2>4, <2>6 DEF ChildOK
  <2> QED
    BY <2>5, <2>6
<1>7. ExecutorOK(f)' /\ ResultOK(f)'
  BY <1>1, <1>3, <1>5 DEF ExecutorOK, ResultOK
<1>8. ASSUME NEW t \in Tasks
      PROVE  ExecutorOK(t)' /\ ResultOK(t)' /\ ("slow" \notin Faults => ChildOK(t)')
  <2>1. CASE t = f
    BY <1>6, <1>7, <2>1
  <2>2. CASE t # f
    BY <1>3, <1>4, <1>8, <2>2, TaskSame DEF AttemptInv
  <2> QED
    BY <2>1, <2>2
<1>9. \A t \in Tasks : task'[t].status = "running" => task[t].status = "running"
  BY <1>1, <1>2, <1>4
<1>10. ~Driving' /\ RecoveredOK' /\ drive' # "marking" /\ flow'.status # "pending"
  BY <1>1, <1>3 DEF Driving, DrivePoints, RecoveredOK
<1> QED
  BY <1>1, <1>3, <1>8, <1>9, <1>10, RecoveryKeeps

\* What a recovery learns of a child is what it records of it.
LEMMA OutcomeKeeps ==
    ASSUME IInv, AttemptInv, NEW t \in Tasks, ToRecover(t), NEW result, NEW used,
           Outcome(t, result, used),
           \A u \in Tasks : u # t => task'[u] = task[u] /\ kids'[u] = kids[u],
           task'[t].status = task[t].status, task'[t].attempts = task[t].attempts,
           \A n \in 1..AttemptLimit[t] :
              kids'[t][n].st \in {kids[t][n].st, "gone", "error"},
           \A n \in 1..AttemptLimit[t] :
              kids[t][n].st = "none" => kids'[t][n].st = "none",
           \/ task'[t].settled \in {task[t].settled, "no"}
           \/ kids'[t][task[t].attempts].st # "running",
           result = "ok" => <<t, task[t].attempts>> \in written,
           \/ "slow" \in Faults \/ result = "unsettled"
           \/ kids'[t][task[t].attempts].st # "running"
    PROVE  AttemptInv'
<1>1. /\ drive = "recover" /\ UsesRlm /\ task[t].status = "running"
      /\ ~Driving /\ flow.status # "pending"
  BY DEF ToRecover, Recovering, IsFirst, Running, Driving, DrivePoints, AttemptInv, RunningOK
<1>2. /\ drive' = "recovered" /\ focus' = t /\ recovery'.result = result
      /\ UNCHANGED <<written, exec, flow>>
  BY DEF Outcome, ledger, disk, IInv, TypeOK, Recovery
<1>3. \A u \in Tasks : exec[u].pc = "none" /\ exec'[u].pc = "none"
  BY <1>1, <1>2 DEF IInv, LiveOK
<1>4. task[t].attempts \in 1..AttemptLimit[t]
  BY <1>1, CurrentAttempt
<1>5. ExecutorOK(t)' /\ ResultOK(t)'
  BY <1>1, <1>3 DEF ExecutorOK, ResultOK
<1>6. ASSUME "slow" \notin Faults
      PROVE  ChildOK(t)'
  <2>1. ChildOK(t)
    BY <1>6 DEF AttemptInv
  <2> QED
    BY <1>3, <1>4, <2>1 DEF ChildOK
<1>7. ASSUME NEW u \in Tasks
      PROVE  ExecutorOK(u)' /\ ResultOK(u)' /\ ("slow" \notin Faults => ChildOK(u)')
  <2>1. CASE u = t
    BY <1>5, <1>6, <2>1
  <2>2. CASE u # t
    BY <1>2, <1>7, <2>2, TaskSame DEF AttemptInv
  <2> QED
    BY <2>1, <2>2
<1>8. RecoveredOK'
  BY <1>1, <1>2 DEF RecoveredOK, Kid
<1>9. \A u \in Tasks : task'[u].status = "running" => task[u].status = "running"
  OBVIOUS
<1>10. ~Driving' /\ drive' # "marking" /\ flow'.status # "pending"
  BY <1>1, <1>2 DEF Driving, DrivePoints
<1> QED
  BY <1>1, <1>2, <1>7, <1>8, <1>9, <1>10, RecoveryKeeps

\* A local attempt that was interrupted is over.
LEMMA LocalKeeps ==
    ASSUME IInv, AttemptInv, NEW t \in Tasks, RecoverLocal(t)
    PROVE  AttemptInv'
<1>1. /\ drive = "recover" /\ ~UsesRlm /\ task[t].status = "running"
      /\ ~Driving /\ flow.status # "pending"
  BY DEF RecoverLocal, Recovering, IsFirst, Running, Driving, DrivePoints, AttemptInv, RunningOK
<1>2. /\ \A u \in Tasks : u # t => task'[u] = task[u]
      /\ task'[t].status = "pending" /\ task'[t].attempts = task[t].attempts
      /\ task'[t].settled = task[t].settled
      /\ UNCHANGED <<kids, written, exec, flow, drive>>
  <2>1. task[t] \in TaskRecord /\ task \in [Tasks -> TaskRecord]
    BY DEF IInv, TypeOK
  <2> QED
    BY <2>1 DEF RecoverLocal, TaskRecord, disk, ledger
<1>3. task[t].settled # "no"
  BY <1>1 DEF AttemptInv, ExecutorOK
<1>4. ExecutorOK(t)' /\ ResultOK(t)' /\ ("slow" \notin Faults => ChildOK(t)')
  BY <1>2, <1>3, StatusKeeps DEF AttemptInv
<1>5. ASSUME NEW u \in Tasks
      PROVE  ExecutorOK(u)' /\ ResultOK(u)' /\ ("slow" \notin Faults => ChildOK(u)')
  BY <1>2, <1>4, <1>5, TaskSame DEF AttemptInv
<1>6. ~Driving' /\ drive' # "marking" /\ drive' # "recovered" /\ flow'.status # "pending"
  BY <1>1, <1>2 DEF Driving, DrivePoints
<1> QED
  BY <1>1, <1>2, <1>5, <1>6, RecoveryKeeps DEF RecoveredOK

\* A recovery settles what the earlier runtime has left behind.
LEMMA ReconcilingKeeps ==
    ASSUME IInv, AttemptInv, NEW t \in Tasks, RecoverStep(t)
    PROVE  AttemptInv'
<1>1. task \in [Tasks -> TaskRecord] /\ task[t] \in TaskRecord /\ KidsOK
  BY DEF IInv, TypeOK
<1>2. ASSUME ToRecover(t)
      PROVE  task[t].status = "running" /\ task[t].attempts \in 1..AttemptLimit[t]
  BY <1>2, CurrentAttempt DEF ToRecover, Recovering, IsFirst, Running
<1>3. CASE RecoverCompleted(t)
  <2>1. ToRecover(t) /\ UNCHANGED <<task, kids>> /\ task[t].settled = "yes"
    BY <1>3 DEF RecoverCompleted, Completed
  <2>2. "slow" \notin Faults => Kid(t).st # "running"
    BY <1>2, <2>1 DEF AttemptInv, ChildOK, Kid
  <2>3. PICK result, used :
           /\ Outcome(t, result, used) /\ result \in {"fatal", WithOutputs(t)}
           /\ result \in {"fatal", "ok", "retryable"}
    BY <1>3 DEF RecoverCompleted, WithOutputs
  <2>4. result = "ok" => <<t, task[t].attempts>> \in written
    BY <2>3 DEF WithOutputs
  <2> QED
    BY <2>1, <2>2, <2>3, <2>4, OutcomeKeeps DEF Kid
<1>4. CASE RecoverUnlistable(t)
  BY <1>4, OutcomeKeeps DEF RecoverUnlistable
<1>5. CASE RecoverAbsent(t)
  <2>1. ToRecover(t) /\ UNCHANGED <<task, kids>> /\ Kid(t).st # "running"
    BY <1>5 DEF RecoverAbsent, Listed
  <2>2. PICK result, used : Outcome(t, result, used) /\ result \in {"fatal", "retryable"}
    BY <1>5 DEF RecoverAbsent
  <2> QED
    BY <2>1, <2>2, OutcomeKeeps DEF Kid
<1>6. CASE RecoverTerminal(t)
  <2>1. /\ ToRecover(t) /\ Kid(t).st \in {"completed", "error"} /\ CleanUp(t)
        /\ Notify(t, TRUE, Kid(t).st, Kid(t).usage, "yes")
    BY <1>6 DEF RecoverTerminal, Terminal
  <2>2. PICK result, used :
           Outcome(t, result, used) /\ (result = "ok" => <<t, task[t].attempts>> \in written)
    BY <1>6 DEF RecoverTerminal, WithOutputs
  <2>3. /\ \A u \in Tasks : u # t => task'[u] = task[u] /\ kids'[u] = kids[u]
        /\ task'[t].status = task[t].status /\ task'[t].attempts = task[t].attempts
    BY <1>1, <2>1, NotifyKeeps DEF Notify, CleanUp, SetKid, KidsOK
  <2>4. /\ \A n \in 1..AttemptLimit[t] :
              \/ kids'[t][n] = kids[t][n]
              \/ n = task[t].attempts /\ kids'[t][n].st = "gone"
    <3>1. CASE UNCHANGED kids
      BY <3>1
    <3>2. CASE SetKid(t, [Kid(t) EXCEPT !.st = "gone"])
      <4>1. [Kid(t) EXCEPT !.st = "gone"].st = "gone"
        BY <1>1, <1>2, <2>1 DEF KidsOK, Kid, Child
      <4> DEFINE k == [Kid(t) EXCEPT !.st = "gone"]
      <4>2. k.st = "gone" /\ kids' = [kids EXCEPT ![t][task[t].attempts] = k]
        BY <3>2, <4>1 DEF SetKid
      <4> HIDE DEF k
      <4> QED
        BY <1>1, <1>2, <2>1, <4>2 DEF KidsOK
    <3> QED
      BY <2>1, <3>1, <3>2 DEF CleanUp
  <2>5. kids'[t][task[t].attempts].st # "running"
    BY <1>2, <2>1, <2>4 DEF Kid
  <2>6. \A n \in 1..AttemptLimit[t] :
           /\ kids'[t][n].st \in {kids[t][n].st, "gone", "error"}
           /\ kids[t][n].st = "none" => kids'[t][n].st = "none"
    BY <2>1, <2>4 DEF Kid
  <2> QED
    BY <2>1, <2>2, <2>3, <2>5, <2>6, OutcomeKeeps
<1>7. CASE RecoverRunning(t)
  <2>1. ToRecover(t) /\ Kid(t).st = "running"
    BY <1>7 DEF RecoverRunning
  <2>2. PICK end \in Deletions, used \in Usages :
          /\ SetKid(t, [st |-> end.st, usage |-> used])
          /\ IF ~end.settled
             THEN Notify(t, TRUE, "running", used, "no") /\ Outcome(t, "unsettled", used)
             ELSE /\ Notify(t, TRUE, "deleted", used, "yes")
                  /\ Outcome(t, IF RequireUsage /\ used = NoUsage THEN "fatal" ELSE "retryable",
                             used)
    BY <1>7 DEF RecoverRunning
  <2>3. end.st \in {"running", "gone", "error"} /\ (end.settled => end.st # "running")
    BY <2>2 DEF Deletions
  <2>4. PICK settled, child, result :
           /\ settled \in {"no", "yes"} /\ Notify(t, TRUE, child, used, settled)
           /\ Outcome(t, result, used) /\ result # "ok"
           /\ \/ settled = "no" /\ result = "unsettled"
              \/ end.settled
    BY <2>2
  <2>5. task' = [task EXCEPT ![t].known = TRUE, ![t].child = child,
                             ![t].usage = used, ![t].settled = settled]
    BY <2>4 DEF Notify
  <2>6. task'[t].settled = settled
    BY <1>1, <2>5 DEF TaskRecord
  <2>7. /\ \A u \in Tasks : u # t => task'[u] = task[u] /\ kids'[u] = kids[u]
        /\ task'[t].status = task[t].status /\ task'[t].attempts = task[t].attempts
    BY <1>1, <2>2, <2>4, <2>5, NotifyKeeps DEF SetKid, KidsOK
  <2>8. \A n \in 1..AttemptLimit[t] :
           \/ kids'[t][n] = kids[t][n] /\ n # task[t].attempts
           \/ n = task[t].attempts /\ kids'[t][n].st = end.st
    BY <1>1, <1>2, <2>1, <2>2 DEF SetKid, KidsOK, Kid
  <2>9. kids'[t][task[t].attempts].st = end.st
    BY <1>2, <2>1, <2>8
  <2>10. \A n \in 1..AttemptLimit[t] :
            /\ kids'[t][n].st \in {kids[t][n].st, "gone", "error"}
            /\ kids[t][n].st = "none" => kids'[t][n].st = "none"
    BY <2>1, <2>3, <2>8 DEF Kid
  <2>11. \/ task'[t].settled \in {task[t].settled, "no"}
         \/ kids'[t][task[t].attempts].st # "running"
    BY <2>3, <2>4, <2>6, <2>9
  <2>12. result = "unsettled" \/ kids'[t][task[t].attempts].st # "running"
    BY <2>3, <2>4, <2>9
  <2> QED
    BY <2>1, <2>4, <2>7, <2>10, <2>11, <2>12, OutcomeKeeps
<1> QED
  BY <1>3, <1>4, <1>5, <1>6, <1>7, LocalKeeps DEF RecoverStep

\* Recovery and the cancellation of a flow that does not run.
LEMMA RestKeeps ==
    ASSUME IInv, AttemptInv, RecoveryStep
    PROVE  AttemptInv'
<1>1. task \in [Tasks -> TaskRecord] /\ \A t \in Tasks : task[t] \in TaskRecord
  BY DEF IInv, TypeOK
<1>2. flow \in [status : FlowStatuses, attempts : Nat, failures : Nat]
  BY DEF IInv, TypeOK
<1>3. CASE \E t \in Tasks : RecoverStep(t)
  BY <1>3, ReconcilingKeeps
<1>4. CASE RecoveredUnsettled
  BY <1>4, SettlingKeeps DEF RecoveredUnsettled
<1>5. CASE RecoveredOutputs
  BY <1>5, SettlingKeeps DEF RecoveredOutputs
<1>6. CASE RecoveredFailure
  <2>1. PICK status, failClosed :
           status \in {"pending", "failed"} /\ Settle(status, "yes", 1, failClosed)
    BY <1>6 DEF RecoveredFailure
  <2> QED
    BY <1>6, <2>1, SettlingKeeps DEF RecoveredFailure
<1>7. ASSUME ~Driving, \A t \in Tasks : task[t].status # "running",
             UNCHANGED <<kids, written, exec>>, drive' \in {"idle", "marking"},
             \A t \in Tasks :
                /\ task'[t].attempts = task[t].attempts /\ task'[t].settled = task[t].settled
                /\ task'[t].status # "running"
                /\ \/ task'[t].status \in {task[t].status, "failed"}
                   \/ task[t].status \notin {"running", "failed"}
      PROVE  AttemptInv'
  <2>1. \A t \in Tasks :
           ExecutorOK(t)' /\ ResultOK(t)' /\ ("slow" \notin Faults => ChildOK(t)')
    BY <1>7, StatusKeeps DEF AttemptInv
  <2>2. ~Driving' /\ RecoveredOK' /\ drive' # "recommit"
    BY <1>7 DEF Driving, DrivePoints, RecoveredOK
  <2> QED
    BY <1>7, <2>1, <2>2, RecoveryKeeps
<1>8. CASE Recommit \/ RecommitFails
  <2>1. /\ UNCHANGED <<task, kids, written, exec, flow>> /\ ~Driving
        /\ drive' \in {"recover", "idle"}
    BY <1>8 DEF Recommit, RecommitFails, Leave, Driving, DrivePoints, ledger, disk
  <2>2. \A t \in Tasks :
           ExecutorOK(t)' /\ ResultOK(t)' /\ ("slow" \notin Faults => ChildOK(t)')
    BY <2>1, TaskSame DEF AttemptInv
  <2>3. ~Driving' /\ RecoveredOK' /\ drive' \notin {"recommit", "marking"}
    BY <2>1 DEF Driving, DrivePoints, RecoveredOK
  <2>4. flow.status = "pending" => \A t \in Tasks : task[t].status # "running"
    BY DEF AttemptInv, RunningOK
  <2> QED
    BY <2>1, <2>2, <2>3, <2>4, RecoveryKeeps
<1>9. CASE EndRecovery
  <2>1. ~Driving /\ \A t \in Tasks : task[t].status # "running"
    BY <1>9 DEF EndRecovery, Running, Driving, DrivePoints, IInv, GraphOK
  <2>2. /\ UNCHANGED <<kids, written, exec>> /\ drive' \in {"idle", "marking"}
        /\ UNCHANGED task \/ Close([t \in Tasks |-> "failed"])
    BY <1>9 DEF EndRecovery, Leave
  <2>3. ASSUME NEW t \in Tasks
        PROVE  /\ task'[t].attempts = task[t].attempts /\ task'[t].settled = task[t].settled
               /\ task'[t].status \in {task[t].status, "failed"}
    <3>1. [task[t] EXCEPT !.status = "failed", !.delayed = FALSE].attempts = task[t].attempts
      BY <1>1 DEF TaskRecord
    <3>2. [task[t] EXCEPT !.status = "failed", !.delayed = FALSE].settled = task[t].settled
      BY <1>1 DEF TaskRecord
    <3>3. [task[t] EXCEPT !.status = "failed", !.delayed = FALSE].status = "failed"
      BY <1>1 DEF TaskRecord
    <3> QED
      BY <2>2, <3>1, <3>2, <3>3 DEF Close
  <2> QED
    BY <1>7, <2>1, <2>2, <2>3
<1>10. CASE MarkCancelled
  <2>1. ~Driving /\ \A t \in Tasks : task[t].status # "running"
    BY <1>10 DEF MarkCancelled, Driving, DrivePoints, AttemptInv, RunningOK
  <2>2. /\ UNCHANGED <<kids, written, exec>> /\ drive' = "idle"
        /\ \/ UNCHANGED task
           \/ task' = [t \in Tasks |-> IF t \in Nonterminal
                                       THEN [task[t] EXCEPT !.status = "cancelled"]
                                       ELSE task[t]]
    BY <1>10 DEF MarkCancelled, Leave, disk
  <2>3. ASSUME NEW t \in Tasks
        PROVE  /\ task'[t].attempts = task[t].attempts /\ task'[t].settled = task[t].settled
               /\ task'[t].status # "running"
               /\ task'[t].status = task[t].status \/ task[t].status \notin {"running", "failed"}
    <3>1. [task[t] EXCEPT !.status = "cancelled"].attempts = task[t].attempts
      BY <1>1 DEF TaskRecord
    <3>2. [task[t] EXCEPT !.status = "cancelled"].settled = task[t].settled
      BY <1>1 DEF TaskRecord
    <3>3. [task[t] EXCEPT !.status = "cancelled"].status = "cancelled"
      BY <1>1 DEF TaskRecord
    <3> QED
      BY <2>1, <2>2, <3>1, <3>2, <3>3 DEF Nonterminal, TerminalTask
  <2> QED
    BY <1>7, <2>1, <2>2, <2>3
<1> QED
  BY <1>3, <1>4, <1>5, <1>6, <1>8, <1>9, <1>10 DEF RecoveryStep

\* The caller, the clock and a crash leave tasks and children alone.
LEMMA OutsideKeeps ==
    ASSUME IInv, AttemptInv, CallerStep \/ WallExpires \/ Crash \/ UNCHANGED vars
    PROVE  AttemptInv'
<1>1. flow \in [status : FlowStatuses, attempts : Nat, failures : Nat]
  BY DEF IInv, TypeOK
<1>2. /\ UNCHANGED <<task, kids, written>>
      /\ UNCHANGED exec \/ exec' = [t \in Tasks |-> NoExec]
  BY DEF CallerStep, AddTask, Run, RequestCancel, Load, CancelIdle, Enter, WallExpires, Crash,
     DriveEnds, vars, disk
<1>3. \A t \in Tasks :
         ExecutorOK(t)' /\ ResultOK(t)' /\ ("slow" \notin Faults => ChildOK(t)')
  BY <1>2, TaskSame DEF AttemptInv
<1>4. RunningOK'
  <2>1. CASE Run
    BY <1>1, <1>2, <2>1 DEF Run, AttemptInv, RunningOK
  <2>2. CASE Load \/ CancelIdle
    BY <1>2, <2>2 DEF Load, CancelIdle, Enter, AttemptInv, RunningOK, ledger, Driving, DrivePoints,
       Running, IInv, GraphOK
  <2>3. CASE Crash
    BY <1>2, <2>3 DEF Crash, DriveEnds, AttemptInv, RunningOK, ledger, Driving, DrivePoints
  <2>4. CASE UNCHANGED <<flow, drive, exec>>
    BY <1>2, <2>4 DEF AttemptInv, RunningOK, Driving
  <2> QED
    BY <2>1, <2>2, <2>3, <2>4
    DEF CallerStep, AddTask, RequestCancel, WallExpires, vars, ledger
<1>5. RecoveredOK'
  <2>1. drive' = "recovered" => UNCHANGED <<drive, focus, recovery>>
    BY DEF CallerStep, AddTask, Run, RequestCancel, Load, CancelIdle, Enter, WallExpires, Crash,
       DriveEnds, vars, loop, control
  <2> QED
    BY <1>2, <2>1 DEF AttemptInv, RecoveredOK, Kid
<1> QED
  BY <1>3, <1>4, <1>5 DEF AttemptInv

\* The invariant of attempts holds in every state.
LEMMA AttemptInvariance == Spec => [](IInv /\ AttemptInv)
<1>1. Init => AttemptInv
  <2> SUFFICES ASSUME Init PROVE AttemptInv
    OBVIOUS
  <2>1. \A t \in Tasks : ExecutorOK(t) /\ ResultOK(t) /\ ChildOK(t)
    BY Constants DEF Init, ExecutorOK, ResultOK, ChildOK, NoExec, NewTask, NoChild
  <2>2. RunningOK /\ RecoveredOK
    BY DEF Init, RunningOK, RecoveredOK, Driving, DrivePoints, NewTask
  <2> QED
    BY <2>1, <2>2 DEF AttemptInv
<1>2. IInv /\ AttemptInv /\ [Next]_vars => AttemptInv'
  BY AttemptPreserves, RunPreserves, RestKeeps, OutsideKeeps DEF Next
<1> QED
  BY <1>1, <1>2, Invariance, PTL DEF Spec
=============================================================================
