------------------------- MODULE FlowRuntimeProofs -------------------------
(***************************************************************************)
(* What the invariants of module FlowInvariantProofs show of a flow: its   *)
(* attempts are limited, successes and ends are final, artifacts belong to *)
(* successes, attempts start behind a quorum, no two children of one task  *)
(* run at once, a success is complete and has charged every child once,    *)
(* and tasks are not blocked without a reason.  In the end, the runtime    *)
(* implements its contract.                                                *)
(***************************************************************************)
EXTENDS FlowInvariantProofs, FiniteSetTheorems, WellFoundedInduction

\* No flow and no task is attempted more often than its budget and policy allow,
\* whatever crashes and recoveries come in between.
THEOREM AttemptsAreLimited == Spec => []AttemptLimits
<1>1. IInv => AttemptLimits
  BY DEF IInv, AttemptsOK
<1> QED
  BY <1>1, Invariance, PTL

\* What a step may do to the tasks, and to the manifests.
Publishable == {<<u, task[u].artifact>> : u \in {w \in Tasks : task[w].status = "succeeded"}}
TasksAdvance ==
    /\ \A t \in Tasks :
          /\ task[t].status = "succeeded" =>
                /\ task'[t].status = "succeeded"
                /\ task'[t].attempts = task[t].attempts /\ task'[t].artifact = task[t].artifact
          /\ task'[t].attempts = task[t].attempts \/ Launch(t)
    /\ published' \subseteq published \cup Publishable

LEMMA ExecutorSteps ==
    ASSUME IInv, NEW u \in Tasks, TaskStep(u)
    PROVE  TasksAdvance
BY ExecutorKeeps DEF TasksAdvance

\* The run only changes tasks that have not succeeded.
LEMMA SchedulerSteps ==
    ASSUME IInv, DriveStep
    PROVE  TasksAdvance
<1>1. /\ task \in [Tasks -> TaskRecord] /\ batch \subseteq Tasks
      /\ \A u \in batch : task[u].status = "running"
      /\ \A u \in Tasks : task[u] \in TaskRecord
  BY DEF IInv, TypeOK, LiveOK
<1> USE <1>1 DEF TasksAdvance, ledger, disk
<1>2. CASE UNCHANGED <<task, published>>
  BY <1>2
<1>3. CASE CommitManifest
  <2>1. focus \in Tasks /\ task[focus].status = "succeeded" /\ UNCHANGED task
    BY <1>3 DEF CommitManifest, IInv, FocusOK
  <2> QED
    BY <1>3, <2>1 DEF CommitManifest, Publishable
<1>4. ASSUME NEW u \in Tasks, ApplySuccess(u) \/ ApplyFailure(u)
      PROVE  TasksAdvance
  <2>1. u \in batch /\ UNCHANGED published
    BY <1>4 DEF ApplySuccess, ApplyFailure, Applying, IsFirst
  <2>2. \A t \in Tasks : u # t => task'[t] = task[t]
    BY <1>4 DEF ApplySuccess, ApplyFailure
  <2>3. task'[u].attempts = task[u].attempts
    BY <1>4 DEF ApplySuccess, ApplyFailure, TaskRecord
  <2> QED
    BY <2>1, <2>2, <2>3
<1>5. CASE BlockImpossible \/ Stall
  <2>1. \A t \in Tasks : \/ task'[t] = task[t]
                         \/ task[t].status = "pending" /\ task'[t].attempts = task[t].attempts
    <3> SUFFICES ASSUME NEW t \in Tasks
                 PROVE  \/ task'[t] = task[t]
                        \/ task[t].status = "pending" /\ task'[t].attempts = task[t].attempts
      OBVIOUS
    <3>1. [task[t] EXCEPT !.status = "blocked", !.delayed = FALSE].attempts = task[t].attempts
      BY DEF TaskRecord
    <3>2. [task[t] EXCEPT !.status = "blocked"].attempts = task[t].attempts
      BY DEF TaskRecord
    <3> QED
      BY <1>5, <3>1, <3>2 DEF BlockImpossible, Stall, Impossible, Pending
  <2> QED
    BY <1>5, <2>1 DEF BlockImpossible, Stall
<1>6. ASSUME NEW u \in Tasks, FailExhausted(u) \/ BlockWithoutInputs(u) \/ Launch(u)
      PROVE  TasksAdvance
  <2>1. u \in Pending /\ UNCHANGED published
    BY <1>6 DEF FailExhausted, BlockWithoutInputs, Launch, Visiting, Reached, Upcoming, Eligible
  <2>2. \A t \in Tasks : u # t => task'[t] = task[t]
    BY <1>6 DEF FailExhausted, BlockWithoutInputs, Launch
  <2>3. Launch(u) \/ task'[u].attempts = task[u].attempts
    BY <1>6 DEF FailExhausted, BlockWithoutInputs, TaskRecord
  <2> QED
    BY <2>1, <2>2, <2>3 DEF Pending
<1>7. CASE SettleCancel \/ FailBudget
  <2>1. UNCHANGED published /\ \E st \in [Tasks -> {"failed", "cancelled"}] : Close(st)
    <3>1. CASE SettleCancel
      <4> DEFINE st == [u \in Tasks |-> IF u \in Unsettled THEN "failed" ELSE "cancelled"]
      <4>1. st \in [Tasks -> {"failed", "cancelled"}] /\ Close(st)
        BY <3>1 DEF SettleCancel
      <4> HIDE DEF st
      <4> QED
        BY <3>1, <4>1 DEF SettleCancel
    <3>2. CASE FailBudget
      <4> DEFINE st == [u \in Tasks |-> "failed"]
      <4>1. st \in [Tasks -> {"failed", "cancelled"}] /\ Close(st)
        BY <3>2 DEF FailBudget
      <4> HIDE DEF st
      <4> QED
        BY <3>2, <4>1 DEF FailBudget
    <3> QED
      BY <1>7, <3>1, <3>2
  <2>2. graph' = graph
    BY <1>7 DEF SettleCancel, FailBudget
  <2>3. \A t \in Tasks : task[t].status = "succeeded" => t \notin Nonterminal
    BY DEF Nonterminal, TerminalTask
  <2> QED
    BY <2>1, <2>2, <2>3, Closing DEF IInv
<1> QED
  BY <1>2, <1>3, <1>4, <1>5, <1>6, <1>7
  DEF DriveStep, TopOfLoop, StartCancel, CommitFails, Raise, StartFailBudget, BlockConflict,
      StartLaunching, Finish, EndLaunching, WaitOrSleep, RunRaises

\* So do recovery and cancellation.
LEMMA RecoverySteps ==
    ASSUME IInv, RecoveryStep
    PROVE  TasksAdvance
<1>1. task \in [Tasks -> TaskRecord] /\ graph \subseteq Tasks
  BY DEF IInv, TypeOK
<1> USE <1>1 DEF TasksAdvance, ledger, disk
<1>2. ASSUME NEW u \in Tasks, RecoverStep(u)
      PROVE  TasksAdvance
  <2>1. u \in Running /\ UNCHANGED published
    BY <1>2 DEF RecoverStep, RecoverLocal, RecoverCompleted, RecoverUnlistable, RecoverAbsent,
       RecoverTerminal, RecoverRunning, Outcome, ToRecover, Recovering, IsFirst
  <2>2. \/ UNCHANGED task \/ task' = [task EXCEPT ![u].status = "pending", ![u].delayed = FALSE]
        \/ \E known, child, usage, settled : Notify(u, known, child, usage, settled)
    BY <1>2 DEF RecoverStep, RecoverLocal, RecoverCompleted, RecoverUnlistable, RecoverAbsent,
       RecoverTerminal, RecoverRunning
  <2>3. \A t \in Tasks : u # t => task'[t] = task[t]
    BY <2>2 DEF Notify
  <2>4. task'[u].attempts = task[u].attempts
    <3>1. task[u] \in TaskRecord
      OBVIOUS
    <3> QED
      BY <2>2, <3>1, NotifyKeeps DEF TaskRecord
  <2> QED
    BY <2>1, <2>3, <2>4 DEF Running
<1>3. CASE RecoveredUnsettled \/ RecoveredOutputs \/ RecoveredFailure
  <2>1. focus \in Tasks /\ task[focus].status = "running"
    BY <1>3 DEF RecoveredUnsettled, RecoveredOutputs, RecoveredFailure, IInv, FocusOK
  <2>2. PICK status \in {"succeeded", "pending", "failed"}, settled \in {"no", "yes"},
             failures \in {0, 1}, failClosed \in BOOLEAN :
           Settle(status, settled, failures, failClosed)
    BY <1>3 DEF RecoveredUnsettled, RecoveredOutputs, RecoveredFailure
  <2>3. UNCHANGED published
    BY <2>2 DEF Settle
  <2> QED
    BY <2>1, <2>2, <2>3, SettleTyped DEF IInv
<1>4. CASE Recommit
  <2>1. focus \in Tasks /\ task[focus].status = "succeeded" /\ UNCHANGED task
    BY <1>4 DEF Recommit, IInv, FocusOK
  <2> QED
    BY <1>4, <2>1 DEF Recommit, Publishable
<1>5. CASE RecommitFails
  BY <1>5 DEF RecommitFails
<1>6. CASE EndRecovery
  <2>1. published' \subseteq published \cup Publishable
    BY <1>6 DEF EndRecovery, SucceededTasks, Publishable
  <2>2. CASE recovery.failClosed
    <3> DEFINE st == [u \in Tasks |-> "failed"]
    <3>1. st \in [Tasks -> {"failed", "cancelled"}] /\ Close(st) /\ graph' = graph
      BY <1>6, <2>2 DEF EndRecovery
    <3>2. \A t \in Tasks : task[t].status = "succeeded" => t \notin Nonterminal
      BY DEF Nonterminal, TerminalTask
    <3> HIDE DEF st
    <3> QED
      BY <2>1, <3>1, <3>2, Closing DEF IInv
  <2>3. CASE ~recovery.failClosed
    BY <1>6, <2>1, <2>3 DEF EndRecovery
  <2> QED
    BY <2>2, <2>3
<1>7. CASE MarkCancelled
  <2>1. /\ UNCHANGED published
        /\ \/ UNCHANGED task
           \/ task' = [u \in Tasks |-> IF u \in Nonterminal
                                       THEN [task[u] EXCEPT !.status = "cancelled"]
                                       ELSE task[u]]
    BY <1>7 DEF MarkCancelled
  <2>2. \A t \in Tasks : task[t].status = "succeeded" => t \notin Nonterminal
    BY DEF Nonterminal, TerminalTask
  <2>3. \A t \in Tasks : task[t] \in TaskRecord
    OBVIOUS
  <2> QED
    BY <2>1, <2>2, <2>3 DEF TaskRecord
<1> QED
  BY <1>2, <1>3, <1>4, <1>5, <1>6, <1>7 DEF RecoveryStep

\* And so does every step.
LEMMA StepsOfTasks ==
    ASSUME IInv, [Next]_vars
    PROVE  TasksAdvance
<1>1. CASE UNCHANGED <<task, published>>
  BY <1>1 DEF TasksAdvance
<1> QED
  BY <1>1, ExecutorSteps, SchedulerSteps, RecoverySteps
  DEF Next, CallerStep, AddTask, Run, RequestCancel, Load, CancelIdle, Enter, WallExpires, Crash,
      ledger, disk, vars

\* Neither a run, a recovery nor a cancellation ever takes a success back, runs
\* its task again or points it at other artifacts.
THEOREM SuccessIsFinal == Spec => SucceededIsFinal
<1>1. IInv /\ [Next]_vars =>
        [\A t \in Tasks : task[t].status = "succeeded" =>
            /\ task'[t].status = "succeeded"
            /\ task'[t].attempts = task[t].attempts /\ task'[t].artifact = task[t].artifact]_vars
  BY StepsOfTasks DEF TasksAdvance
<1> QED
  BY <1>1, Invariance, PTL DEF Spec, SucceededIsFinal

\* Every manifest is that of an attempt of a task that has succeeded with it.
ManifestsOK == published \subseteq Tasks \X Nat /\ PublishedOnlySucceeded

LEMMA ManifestInvariance == Spec => [](IInv /\ ManifestsOK)
<1>1. Init => ManifestsOK
  BY DEF Init, ManifestsOK, PublishedOnlySucceeded
<1>2. IInv /\ [Next]_vars /\ ManifestsOK => ManifestsOK'
  <2> SUFFICES ASSUME IInv, [Next]_vars, ManifestsOK
               PROVE  ManifestsOK'
    OBVIOUS
  <2>1. task \in [Tasks -> TaskRecord]
    BY DEF IInv, TypeOK
  <2>2. published' \subseteq published \cup Publishable
    BY StepsOfTasks DEF TasksAdvance
  <2>3. ASSUME NEW p \in published'
        PROVE  /\ p \in Tasks \X Nat /\ task[p[1]].status = "succeeded"
               /\ task[p[1]].artifact = p[2]
    <3>1. CASE p \in published
      BY <3>1 DEF ManifestsOK, PublishedOnlySucceeded
    <3>2. CASE p \in Publishable
      <4>1. PICK u \in Tasks : p = <<u, task[u].artifact>> /\ task[u].status = "succeeded"
        BY <3>2 DEF Publishable
      <4>2. task[u].artifact \in Nat
        BY <2>1 DEF TaskRecord
      <4> QED
        BY <4>1, <4>2
    <3> QED
      BY <2>2, <3>1, <3>2
  <2>4. \A p \in published' : task'[p[1]].status = "succeeded" /\ task'[p[1]].artifact = p[2]
    BY <2>3, StepsOfTasks DEF TasksAdvance
  <2> QED
    BY <2>3, <2>4 DEF ManifestsOK, PublishedOnlySucceeded
<1> QED
  BY <1>1, <1>2, Invariance, PTL DEF Spec

\* Artifacts can be queried only behind the success of their task.
THEOREM OnlySuccessesArePublished == Spec => []PublishedOnlySucceeded
<1>1. ManifestsOK => PublishedOnlySucceeded
  BY DEF ManifestsOK
<1> QED
  BY <1>1, ManifestInvariance, PTL

\* No step touches a flow that has ended.
LEMMA EndStays ==
    ASSUME IInv, Next, flow.status \in TerminalFlow
    PROVE  flow' = flow /\ Status' = Status
<1>1. /\ drive \in {"idle", "recover", "marking"} /\ AllTerminal /\ ~Driving
      /\ drive = "recover" => ~recovery.failClosed
      /\ task \in [Tasks -> TaskRecord]
      /\ flow.status \notin {"pending", "running"}
  BY DEF IInv, TypeOK, EndOK, Driving, DrivePoints, TerminalFlow
<1>2. \A t \in Tasks : exec[t].pc = "none"
  BY <1>1 DEF IInv, LiveOK
<1>3. Running = {}
  BY <1>1 DEF AllTerminal, Nonterminal, Running, TerminalTask
<1> USE <1>1 DEF Status, ledger
<1>4. ASSUME NEW u \in Tasks, TaskStep(u)
      PROVE  flow' = flow /\ Status' = Status
  <2>1. HostStep(u) \/ BackoffEnds(u)
    BY <1>2, <1>4 DEF TaskStep, ExecStep, ExecProgress, ExecSpawn, ExecAdmitted, ExecObserve,
       ExecFails, ExecMisses, ExecCleanup, ExecReturn, SettleUnlistable, SettleAbsent,
       SettleTerminal, SettleRunning, ExecReport, LocalReturn, ExecTimeout
  <2>2. \A t \in Tasks : task[t] \in TaskRecord
    OBVIOUS
  <2>3. flow' = flow /\ \A t \in Tasks : task'[t].status = task[t].status
    BY <2>1, <2>2 DEF HostStep, HostAdmits, ChildEnds, ChildVanishes, HostIdle, BackoffEnds,
       TaskRecord
  <2> QED
    BY <2>3
<1>5. ASSUME RecoveryStep
      PROVE  UNCHANGED <<flow, task>>
  <2>1. RecommitFails \/ EndRecovery \/ MarkCancelled
    BY <1>3, <1>5 DEF RecoveryStep, RecoverStep, RecoverLocal, RecoverCompleted,
       RecoverUnlistable, RecoverAbsent, RecoverTerminal, RecoverRunning, ToRecover, Recovering,
       IsFirst, RecoveredUnsettled, RecoveredOutputs, RecoveredFailure, Recommit
  <2>2. CASE RecommitFails
    BY <2>2 DEF RecommitFails
  <2>3. CASE EndRecovery
    <3>1. UNCHANGED task /\ flow' = [flow EXCEPT !.status = flow.status]
      BY <2>3 DEF EndRecovery
    <3>2. flow \in [status : FlowStatuses, attempts : Nat, failures : Nat]
      BY DEF IInv, TypeOK
    <3> QED
      BY <3>1, <3>2
  <2>4. CASE MarkCancelled
    BY <2>4 DEF MarkCancelled
  <2> QED
    BY <2>1, <2>2, <2>3, <2>4
<1>6. ~DriveStep
  <2>1. DriveStep => Driving
    BY DEF DriveStep, Driving, DrivePoints, TopOfLoop, StartCancel, CommitManifest, CommitFails,
       ApplySuccess, ApplyFailure, Applying, StartFailBudget, Applied, BlockImpossible,
       BlockConflict, StartLaunching, Finish, FailExhausted, BlockWithoutInputs, Launch,
       Visiting, EndLaunching, WaitOrSleep, Stall, SettleCancel, FailBudget, RunRaises
  <2> QED
    BY <2>1
<1>7. CallerStep \/ WallExpires \/ Crash => UNCHANGED <<flow, task>>
  BY DEF CallerStep, AddTask, Run, RequestCancel, Load, CancelIdle, Enter, WallExpires, Crash
<1> QED
  BY <1>4, <1>5, <1>6, <1>7 DEF Next

\* Neither run, load, cancel nor any coroutine touches a flow that has ended.
THEOREM EndIsFinal == Spec => FlowEndIsFinal
<1>1. IInv /\ [Next]_vars =>
        [flow.status \in TerminalFlow => flow' = flow /\ Status' = Status]_vars
  BY EndStays
<1> QED
  BY <1>1, Invariance, PTL DEF Spec, FlowEndIsFinal

\* A quorum that was reached stays reached while successes are kept.
LEMMA QuorumStays ==
    ASSUME NEW st, NEW st2, NEW t \in Tasks,
           \A d \in Tasks : st[d] = "succeeded" => st2[d] = "succeeded",
           DependencyReady(t, st)
    PROVE  DependencyReady(t, st2)
<1>1. Requires[t] \subseteq Tasks /\ IsFiniteSet(Tasks)
  BY GraphAssumption DEF GraphAssumption
<1>2. IsFiniteSet(Requires[t])
  BY <1>1, FS_Subset
<1>3. /\ Succeeded(t, st) \subseteq Succeeded(t, st2) /\ Succeeded(t, st2) \subseteq Requires[t]
  BY <1>1 DEF Succeeded
<1>4. IsFiniteSet(Succeeded(t, st2))
  BY <1>2, <1>3, FS_Subset
<1>5. /\ IsFiniteSet(Succeeded(t, st))
      /\ Cardinality(Succeeded(t, st)) <= Cardinality(Succeeded(t, st2))
  BY <1>3, <1>4, FS_Subset
<1>6. Cardinality(Succeeded(t, st)) \in Nat /\ Cardinality(Succeeded(t, st2)) \in Nat
  BY <1>4, <1>5, FS_CardinalityType
<1>7. QuorumRequired(t) \in Nat
  BY <1>2, FS_CardinalityType, GraphAssumption DEF GraphAssumption, QuorumRequired, QuorumModes
<1> QED
  BY <1>5, <1>6, <1>7 DEF DependencyReady

\* For any graph and any quorums, an attempt has only ever been made behind a
\* quorum of successful dependencies, which then still stands.
THEOREM StartsBehindQuorum == Spec => []StartedAfterQuorum
<1>1. Init => StartedAfterQuorum
  BY DEF Init, StartedAfterQuorum, NewTask
<1>2. IInv /\ [Next]_vars /\ StartedAfterQuorum => StartedAfterQuorum'
  <2> SUFFICES ASSUME IInv, [Next]_vars, StartedAfterQuorum, NEW t \in Tasks,
                      task'[t].attempts > 0
               PROVE  DependencyReady(t, Status')
    BY DEF StartedAfterQuorum, DependencyReady, Succeeded
  <2>1. \A d \in Tasks : Status[d] = "succeeded" => Status'[d] = "succeeded"
    BY StepsOfTasks DEF TasksAdvance, Status
  <2>2. DependencyReady(t, Status)
    <3>1. CASE Launch(t)
      BY <3>1 DEF Launch, Visiting, Reached, Upcoming, Eligible
    <3>2. CASE task'[t].attempts = task[t].attempts
      BY <3>2 DEF StartedAfterQuorum
    <3> QED
      BY <3>1, <3>2, StepsOfTasks DEF TasksAdvance
  <2> QED
    BY <2>1, <2>2, QuorumStays
<1> QED
  BY <1>1, <1>2, Invariance, PTL DEF Spec

-----------------------------------------------------------------------------
(* Children.                                                               *)

\* Whatever crashes, deletions and listings fail, two children of one task never
\* run side by side, as long as the host admits a child when it is asked to.
THEOREM OneChildAtATime ==
    ASSUME "slow" \notin Faults
    PROVE  Spec => []NoSecondLiveChild
<1>1. AttemptInv => NoSecondLiveChild
  BY DEF AttemptInv, ChildOK, NoSecondLiveChild, Attempts, KidRuns
<1> QED
  BY <1>1, AttemptInvariance, PTL

\* A child that outlives its task is one the record says was not settled.
THEOREM EveryOrphanIsRecorded ==
    ASSUME "slow" \notin Faults
    PROVE  Spec => []OrphansAreRecorded
<1>1. AttemptInv => OrphansAreRecorded
  BY DEF AttemptInv, ChildOK, OrphansAreRecorded, Attempts, KidRuns
<1> QED
  BY <1>1, AttemptInvariance, PTL

\* Of two children that want the same resource one is an orphan.
THEOREM ResourcesAreExclusive ==
    ASSUME "slow" \notin Faults
    PROVE  Spec => []ResourcesExclusive
<1>1. AttemptInv => ResourcesExclusive
  <2> SUFFICES ASSUME AttemptInv, NEW t \in Tasks, NEW u \in Tasks, t # u,
                      Resources[t] \cap Resources[u] # {},
                      NEW m \in Attempts(t), NEW n \in Attempts(u), KidRuns(t, m), KidRuns(u, n)
               PROVE  \E w \in {t, u} : task[w].status = "failed" /\ task[w].settled = "no"
    BY DEF ResourcesExclusive
  <2>1. \A w \in {t, u} : task[w].settled = "no" /\ task[w].status \in {"running", "failed"}
    BY DEF AttemptInv, ChildOK, Attempts, KidRuns
  <2>2. ~(task[t].status = "running" /\ task[u].status = "running")
    BY DEF AttemptInv, RunningOK
  <2> QED
    BY <2>1, <2>2
<1> QED
  BY <1>1, AttemptInvariance, PTL

-----------------------------------------------------------------------------
(* Manifests and outputs.                                                  *)

\* A run looks at its tasks, or the flow may be run again, or has succeeded.
Looking ==
    \/ flow.status \in {"pending", "succeeded"}
    \/ drive \in {"top", "apply", "commit", "launch", "rest"}

\* The outputs of a success are written; its manifest is committed whenever a
\* run looks at it, and before the flow may be run again or succeed.
CommitOK ==
    /\ UsesRlm => \A t \in Tasks :
          task[t].status = "succeeded" => <<t, task[t].artifact>> \in written
    /\ Looking => \A t \in Tasks :
          task[t].status = "succeeded" /\ ~(drive = "commit" /\ t = focus) =>
              <<t, task[t].artifact>> \in published
    /\ flow.status = "succeeded" => \A t \in graph : task[t].status = "succeeded"

\* What closing a flow makes of a task.
LEMMA Closed ==
    ASSUME IInv, NEW st, Close(st), NEW t \in Tasks
    PROVE  /\ task'[t].status = IF t \in Nonterminal THEN st[t] ELSE task[t].status
           /\ task'[t].attempts = task[t].attempts /\ task'[t].artifact = task[t].artifact
           /\ task'[t].delayed = TRUE => task[t].delayed = TRUE
<1>1. task[t] \in TaskRecord
  BY DEF IInv, TypeOK
<1>2. task'[t] = IF t \in Nonterminal
                 THEN [task[t] EXCEPT !.status = st[t], !.delayed = FALSE] ELSE task[t]
  BY DEF Close
<1> QED
  BY <1>1, <1>2 DEF TaskRecord

\* Only a completion that is applied or recovered makes a task succeed.
LEMMA WhoSucceeds ==
    ASSUME IInv, [Next]_vars, NEW t \in Tasks, task'[t].status = "succeeded"
    PROVE  \/ task[t].status = "succeeded"
           \/ ApplySuccess(t)
           \/ RecoveredOutputs /\ t = focus
<1>1. task \in [Tasks -> TaskRecord] /\ \A u \in Tasks : task[u] \in TaskRecord
  BY DEF IInv, TypeOK
<1>2. CASE UNCHANGED task
  BY <1>2
<1>3. CASE \E u \in Tasks : TaskStep(u)
  BY <1>3, ExecutorKeeps
<1>4. CASE \E u \in Tasks : ApplySuccess(u)
  BY <1>1, <1>4 DEF ApplySuccess
<1>5. CASE \E u \in Tasks : ApplyFailure(u)
  BY <1>1, <1>5 DEF ApplyFailure, TaskRecord
<1>6. CASE BlockImpossible \/ Stall
  <2>1. task'[t] \in {task[t], [task[t] EXCEPT !.status = "blocked"],
                      [task[t] EXCEPT !.status = "blocked", !.delayed = FALSE]}
    BY <1>6 DEF BlockImpossible, Stall
  <2> QED
    BY <1>1, <2>1 DEF TaskRecord
<1>7. CASE SettleCancel
  <2> DEFINE st == [u \in Tasks |-> IF u \in Unsettled THEN "failed" ELSE "cancelled"]
  <2>1. Close(st) /\ \A u \in Tasks : st[u] # "succeeded"
    BY <1>7 DEF SettleCancel
  <2> HIDE DEF st
  <2> QED
    BY <2>1, Closed
<1>8. CASE FailBudget \/ EndRecovery
  <2> DEFINE st == [u \in Tasks |-> "failed"]
  <2>1. Close(st) \/ UNCHANGED task
    BY <1>8 DEF FailBudget, EndRecovery
  <2>2. \A u \in Tasks : st[u] # "succeeded"
    OBVIOUS
  <2> HIDE DEF st
  <2> QED
    BY <2>1, <2>2, Closed
<1>9. CASE MarkCancelled
  <2>1. task'[t] \in {task[t], [task[t] EXCEPT !.status = "cancelled"]}
    BY <1>9 DEF MarkCancelled
  <2> QED
    BY <1>1, <2>1 DEF TaskRecord
<1>10. ASSUME NEW u \in Tasks, FailExhausted(u) \/ BlockWithoutInputs(u) \/ Launch(u)
       PROVE  task[t].status = "succeeded"
  <2>1. CASE FailExhausted(u) \/ BlockWithoutInputs(u)
    BY <1>1, <2>1 DEF FailExhausted, BlockWithoutInputs, TaskRecord
  <2>2. CASE Launch(u)
    BY <1>1, <2>2 DEF Launch, NewTask
  <2> QED
    BY <1>10, <2>1, <2>2
<1>11. ASSUME NEW u \in Tasks, RecoverStep(u)
       PROVE  task[t].status = "succeeded"
  <2>1. CASE RecoverLocal(u)
    BY <1>1, <2>1 DEF RecoverLocal, TaskRecord
  <2>2. CASE \/ UNCHANGED task
             \/ \E known, child, usage, settled : Notify(u, known, child, usage, settled)
    BY <2>2, NotifyKeeps
  <2> QED
    BY <1>11, <2>1, <2>2 DEF RecoverStep, RecoverCompleted, RecoverUnlistable, RecoverAbsent,
       RecoverTerminal, RecoverRunning
<1>12. ASSUME RecoveredUnsettled \/ RecoveredOutputs \/ RecoveredFailure
       PROVE  task[t].status = "succeeded" \/ (RecoveredOutputs /\ t = focus)
  <2>1. focus \in Tasks
    BY <1>12 DEF RecoveredUnsettled, RecoveredOutputs, RecoveredFailure, IInv, FocusOK
  <2>2. PICK status \in {"succeeded", "pending", "failed"}, settled \in {"no", "yes"},
             failures \in {0, 1}, failClosed \in BOOLEAN :
           /\ Settle(status, settled, failures, failClosed)
           /\ status = "succeeded" => RecoveredOutputs
    BY <1>12 DEF RecoveredUnsettled, RecoveredOutputs, RecoveredFailure
  <2> QED
    BY <2>1, <2>2, SettleTyped DEF IInv
<1> QED
  BY <1>2, <1>3, <1>4, <1>5, <1>6, <1>7, <1>8, <1>9, <1>10, <1>11, <1>12
  DEF Next, CallerStep, AddTask, Run, RequestCancel, Load, CancelIdle, Enter, WallExpires, Crash,
      DriveStep, TopOfLoop, StartCancel, CommitManifest, CommitFails, Raise, StartFailBudget,
      BlockConflict, StartLaunching, Finish, EndLaunching, WaitOrSleep, RunRaises,
      RecoveryStep, Recommit, RecommitFails, ledger, vars

\* Manifests and outputs are never taken back.
LEMMA DiskGrows ==
    ASSUME IInv, [Next]_vars
    PROVE  published \subseteq published' /\ written \subseteq written'
<1>1. CASE UNCHANGED disk
  BY <1>1 DEF disk
<1>2. CASE \E u \in Tasks : TaskStep(u)
  BY <1>2, AttemptFrame
<1>3. CASE CommitManifest \/ Recommit \/ EndRecovery
  BY <1>3 DEF CommitManifest, Recommit, EndRecovery
<1> QED
  BY <1>1, <1>2, <1>3
  DEF Next, CallerStep, AddTask, Run, RequestCancel, Load, CancelIdle, Enter, WallExpires, Crash,
      DriveStep, TopOfLoop, StartCancel, CommitFails, Raise, StartFailBudget, ApplySuccess,
      ApplyFailure,
      BlockImpossible, Stall, SettleCancel, FailBudget, FailExhausted, BlockWithoutInputs, Launch,
      BlockConflict, StartLaunching, Finish, EndLaunching, WaitOrSleep, RunRaises,
      RecoveryStep, RecoverStep, RecoverLocal, RecoverCompleted, RecoverUnlistable, RecoverAbsent,
      RecoverTerminal, RecoverRunning, Outcome, RecoveredUnsettled, RecoveredOutputs,
      RecoveredFailure, Settle, RecommitFails, MarkCancelled, vars

\* A run only gets to look at tasks whose manifests were committed: by the run so
\* far, or by the recovery that lets it start.
LEMMA LookedBefore ==
    ASSUME IInv, AttemptInv, [Next]_vars, Looking'
    PROVE  \/ EndRecovery
           \/ /\ Looking
              /\ drive = "commit" => CommitManifest \/ UNCHANGED <<drive, focus>>
<1> USE DEF Looking
<1>1. /\ flow \in [status : FlowStatuses, attempts : Nat, failures : Nat]
      /\ Driving => flow.status = "running"
      /\ focus \in Tasks \cup {NoTask}
  BY DEF IInv, TypeOK, EndOK
<1>2. CASE UNCHANGED <<flow, drive, focus>>
  BY <1>2
<1>3. CASE CallerStep \/ WallExpires \/ Crash
  BY <1>1, <1>3 DEF CallerStep, AddTask, Run, RequestCancel, Load, CancelIdle, Enter, WallExpires,
     Crash, DriveEnds, ledger, loop, Driving, DrivePoints
<1>4. CASE \E u \in Tasks : TaskStep(u)
  BY <1>2, <1>4, AttemptFrame DEF ledger, loop
<1>5. CASE DriveStep
  <2>1. CASE \E u \in Tasks : ApplySuccess(u) \/ ApplyFailure(u)
    BY <2>1 DEF ApplySuccess, ApplyFailure, Applying
  <2>2. CASE Finish \/ SettleCancel \/ FailBudget \/ RunRaises
    <3>1. drive \notin {"commit"} /\ drive' = "idle"
      BY <2>2 DEF Finish, Applied, SettleCancel, FailBudget, RunRaises, DriveEnds
    <3>2. CASE Finish
      BY <3>1, <3>2 DEF Finish, Applied
    <3>3. CASE SettleCancel \/ FailBudget
      BY <1>1, <3>1, <3>3 DEF SettleCancel, FailBudget
    <3>4. CASE RunRaises
      BY <1>1, <3>1, <3>4 DEF RunRaises, ledger, Driving, DrivePoints
    <3> QED
      BY <2>2, <3>2, <3>3, <3>4
  <2>3. CASE CommitManifest
    BY <2>3 DEF CommitManifest
  <2>4. CASE CommitFails \/ BlockConflict \/ StartCancel
    BY <1>1, <2>4 DEF CommitFails, BlockConflict, Raise, StartCancel, ledger, Driving, DrivePoints,
       Applied
  <2>5. CASE \/ TopOfLoop \/ StartFailBudget \/ BlockImpossible \/ StartLaunching
             \/ EndLaunching \/ WaitOrSleep \/ Stall
             \/ \E u \in Tasks : FailExhausted(u) \/ BlockWithoutInputs(u) \/ Launch(u)
    BY <2>5 DEF TopOfLoop, StartFailBudget, BlockImpossible, StartLaunching, Applied,
       EndLaunching, WaitOrSleep, Stall, FailExhausted, BlockWithoutInputs, Launch, Visiting
  <2> QED
    BY <1>5, <2>1, <2>2, <2>3, <2>4, <2>5 DEF DriveStep
<1>6. CASE RecoveryStep
  <2>1. ~Driving /\ (EndRecovery \/ drive' \in RecoveryPoints \cup {"idle"})
    BY <1>6 DEF RecoveryStep, RecoverStep, RecoverLocal, RecoverCompleted, RecoverUnlistable,
       RecoverAbsent, RecoverTerminal, RecoverRunning, ToRecover, Recovering, Outcome,
       RecoveredUnsettled, RecoveredOutputs, RecoveredFailure, Recommit, RecommitFails, EndRecovery,
       MarkCancelled, Leave, Driving, DrivePoints, RecoveryPoints
  <2>2. EndRecovery \/ flow'.status \in {flow.status, "cancelled"}
    <3>1. CASE \E u \in Tasks : RecoverStep(u)
      BY <3>1 DEF RecoverStep, RecoverLocal, RecoverCompleted, RecoverUnlistable,
         RecoverAbsent, RecoverTerminal, RecoverRunning, Outcome, ledger
    <3>2. CASE RecoveredUnsettled \/ RecoveredOutputs \/ RecoveredFailure
      BY <1>1, <3>2 DEF RecoveredUnsettled, RecoveredOutputs, RecoveredFailure, Settle
    <3>3. CASE Recommit \/ RecommitFails \/ MarkCancelled
      BY <1>1, <3>3 DEF Recommit, RecommitFails, MarkCancelled, ledger
    <3> QED
      BY <1>6, <3>1, <3>2, <3>3 DEF RecoveryStep
  <2> QED
    BY <2>1, <2>2 DEF RecoveryPoints, Driving, DrivePoints
<1> QED
  BY <1>2, <1>3, <1>4, <1>5, <1>6 DEF Next, vars, ledger, loop

\* A flow only ends as a success when its tasks have.
LEMMA WhoEnds ==
    ASSUME IInv, [Next]_vars, flow'.status = "succeeded"
    PROVE  flow.status = "succeeded" \/ Finish
<1>1. flow \in [status : FlowStatuses, attempts : Nat, failures : Nat]
  BY DEF IInv, TypeOK
<1>2. CASE UNCHANGED flow
  BY <1>2
<1>3. CASE \E u \in Tasks : ApplyFailure(u) \/ Launch(u)
  BY <1>1, <1>3 DEF ApplyFailure, Launch
<1>4. CASE SettleCancel \/ FailBudget \/ MarkCancelled \/ EndRecovery \/ Run
  BY <1>1, <1>4 DEF SettleCancel, FailBudget, MarkCancelled, EndRecovery, Run
<1>5. CASE RecoveredUnsettled \/ RecoveredOutputs \/ RecoveredFailure
  BY <1>1, <1>5 DEF RecoveredUnsettled, RecoveredOutputs, RecoveredFailure, Settle
<1>6. CASE \E u \in Tasks : TaskStep(u)
  BY <1>2, <1>6, AttemptFrame DEF ledger
<1> QED
  BY <1>2, <1>3, <1>4, <1>5, <1>6
  DEF Next, CallerStep, AddTask, RequestCancel, Load, CancelIdle, Enter, WallExpires, Crash,
      DriveStep, TopOfLoop, StartCancel, CommitManifest, CommitFails, Raise, StartFailBudget,
      ApplySuccess, FailExhausted, BlockWithoutInputs, BlockImpossible, Stall,
      BlockConflict, StartLaunching, EndLaunching, WaitOrSleep, RunRaises,
      RecoveryStep, RecoverStep, RecoverLocal, RecoverCompleted, RecoverUnlistable, RecoverAbsent,
      RecoverTerminal, RecoverRunning, Outcome, Recommit, RecommitFails, ledger, vars

\* Only Flow.task adds tasks.
LEMMA GraphGrows ==
    ASSUME IInv, [Next]_vars
    PROVE  graph' = graph \/ \E t \in Tasks : AddTask(t)
<1>1. CASE \E u \in Tasks : TaskStep(u)
  BY <1>1, AttemptFrame DEF ledger
<1> QED
  BY <1>1 DEF Next, CallerStep, Run, RequestCancel, Load, CancelIdle, Enter,
     WallExpires, Crash, DriveStep, TopOfLoop, StartCancel, CommitManifest, CommitFails,
     Raise, StartFailBudget, ApplySuccess, ApplyFailure, BlockImpossible, Stall,
     SettleCancel, FailBudget, FailExhausted, BlockWithoutInputs, Launch, BlockConflict,
     StartLaunching, Finish, EndLaunching, WaitOrSleep, RunRaises, RecoveryStep,
     RecoverStep, RecoverLocal, RecoverCompleted, RecoverUnlistable, RecoverAbsent,
     RecoverTerminal, RecoverRunning, Outcome, RecoveredUnsettled, RecoveredOutputs,
     RecoveredFailure, Settle, RecommitFails, Recommit, EndRecovery, MarkCancelled, ledger,
     vars

\* Manifests and outputs stand behind the successes.
LEMMA CommitKeeps ==
    ASSUME IInv, AttemptInv, CommitOK, [Next]_vars
    PROVE  CommitOK'
<1>1. /\ task \in [Tasks -> TaskRecord] /\ \A t \in Tasks : task[t] \in TaskRecord
      /\ flow \in [status : FlowStatuses, attempts : Nat, failures : Nat]
  BY DEF IInv, TypeOK
<1>2. ASSUME NEW t \in Tasks, task[t].status = "succeeded"
      PROVE  task'[t].status = "succeeded" /\ task'[t].artifact = task[t].artifact
  BY <1>2, StepsOfTasks DEF TasksAdvance
<1>3. ASSUME NEW t \in Tasks, ApplySuccess(t)
      PROVE  /\ task'[t].artifact = task[t].attempts /\ exec[t].pc = "done"
             /\ exec[t].result = "ok" /\ drive' = "commit" /\ focus' = t
  BY <1>1, <1>3 DEF ApplySuccess, Applying, IsFirst, IInv, LiveOK, TaskRecord
<1>4. ASSUME RecoveredOutputs
      PROVE  /\ focus \in Tasks /\ task'[focus].artifact = task[focus].attempts
             /\ recovery.result = "ok" /\ drive = "recovered"
             /\ drive' = "recommit" /\ flow'.status = "running"
  <2>1. /\ focus \in Tasks /\ task[focus].status = "running" /\ drive = "recovered"
    BY <1>4 DEF RecoveredOutputs, IInv, FocusOK
  <2>2. task'[focus].artifact = task[focus].attempts /\ flow'.status = flow.status
    BY <1>1, <1>4, <2>1 DEF RecoveredOutputs, Settle, TaskRecord
  <2>3. flow.status = "running"
    BY <1>1, <2>1 DEF AttemptInv, RunningOK, IInv, EndOK, FlowStatuses, TerminalFlow
  <2> QED
    BY <1>4, <2>1, <2>2, <2>3 DEF RecoveredOutputs
<1>5. ASSUME UsesRlm, NEW t \in Tasks, task'[t].status = "succeeded"
      PROVE  <<t, task'[t].artifact>> \in written'
  <2>1. CASE task[t].status = "succeeded"
    BY <1>2, <1>5, <2>1, DiskGrows DEF CommitOK
  <2>2. CASE ApplySuccess(t)
    BY <1>3, <1>5, <2>2, DiskGrows DEF AttemptInv, ResultOK
  <2>3. CASE RecoveredOutputs /\ t = focus
    BY <1>4, <1>5, <2>3, DiskGrows DEF AttemptInv, RecoveredOK
  <2> QED
    BY <1>5, <2>1, <2>2, <2>3, WhoSucceeds
<1>6. ASSUME Looking', NEW t \in Tasks, task'[t].status = "succeeded",
             ~(drive' = "commit" /\ t = focus')
      PROVE  <<t, task'[t].artifact>> \in published'
  <2>1. task[t].status = "succeeded"
    <3>1. ~RecoveredOutputs
      BY <1>4, <1>6 DEF Looking
    <3> QED
      BY <1>3, <1>6, <3>1, WhoSucceeds
  <2>2. CASE EndRecovery
    <3>1. t \in graph
      BY <2>1 DEF IInv, GraphOK
    <3> QED
      BY <1>2, <2>1, <2>2, <3>1 DEF EndRecovery, SucceededTasks
  <2>3. CASE drive = "commit" /\ t = focus /\ CommitManifest
    BY <2>3 DEF CommitManifest
  <2>4. CASE Looking /\ ~(drive = "commit" /\ t = focus)
    BY <1>2, <2>1, <2>4, DiskGrows DEF CommitOK
  <2> QED
    BY <1>6, <2>2, <2>3, <2>4, LookedBefore
<1>7. ASSUME flow'.status = "succeeded"
      PROVE  \A t \in graph' : task'[t].status = "succeeded"
  <2>1. CASE flow.status = "succeeded"
    <3>1. Status' = Status
      BY <2>1, EndStays DEF TerminalFlow, Status, vars
    <3>2. \A t \in Tasks : Status'[t] = task'[t].status /\ Status[t] = task[t].status
      BY DEF Status
    <3>3. graph' = graph /\ graph \subseteq Tasks
      BY <2>1, GraphGrows DEF AddTask, IInv, TypeOK
    <3> QED
      BY <2>1, <3>1, <3>2, <3>3 DEF CommitOK
  <2>2. CASE Finish
    BY <1>1, <1>7, <2>2 DEF Finish
  <2> QED
    BY <1>7, <2>1, <2>2, WhoEnds
<1> QED
  BY <1>5, <1>6, <1>7 DEF CommitOK

\* The invariant of manifests holds in every state.
LEMMA CommitInvariance == Spec => [](IInv /\ AttemptInv /\ CommitOK)
<1>1. Init => CommitOK
  BY DEF Init, CommitOK, NewTask
<1> QED
  BY <1>1, CommitKeeps, AttemptInvariance, PTL DEF Spec

\* A flow that says it has succeeded has every task's manifest committed and every
\* task's outputs on disk, whatever commits failed and whenever the kernel died.
THEOREM SuccessMeansComplete == Spec => []SuccessIsComplete
<1>1. IInv /\ CommitOK => SuccessIsComplete
  BY DEF IInv, TypeOK, EndOK, Driving, DrivePoints, TerminalFlow, CommitOK, Looking,
     SuccessIsComplete
<1> QED
  BY <1>1, CommitInvariance, PTL

-----------------------------------------------------------------------------
(* What attempts and recoveries know of the usage of a child.              *)

\* A token budget, and a host whose children disappear only when the runtime
\* deletes them.
Metered == RequireUsage /\ "vanish" \notin Faults

\* A child that has been asked for and has not ended.
Unended(k) == k.st \in {"requested", "running"}

\* A child that is open is that of the last attempt, of a task that runs or that was
\* given up: what was not measured is not retried, and has not succeeded.
AsksOK(t) ==
    \A n \in 1..AttemptLimit[t] :
        /\ n > task[t].attempts => kids[t][n].st = "none"
        /\ Unended(kids[t][n]) => /\ n = task[t].attempts
                               /\ task[t].status \notin {"pending", "succeeded"}

\* What the record r and the locals e of a running attempt know of its child k:
\* the persisted usage is final unless the child was left running; an error
\* meets a child the record knows of, or none; a result that may be charged
\* carries the usage of a child that is over.
Accounts(r, e, k) ==
    /\ \/ r.usage = NoUsage
       \/ r.usage = k.usage /\ ~Unended(k)
       \/ Listed(k) /\ r.child = "running" /\ e.pc \in {"none", "done"}
    /\ e.pc = "start" => k.st = "none" /\ ~r.known /\ r.usage = NoUsage
    /\ e.pc = "polling" => r.known /\ e.known /\ r.usage = NoUsage
    /\ e.pc \in {"cleanup", "cleaned"} => e.used = k.usage /\ k.st # "none" /\ ~Unended(k)
    /\ e.why = "error" => /\ e.pc \in {"settle", "report"} /\ r.usage = NoUsage
                          /\ r.known => e.known
                          /\ r.known \/ k.st = "none"
    /\ e.pc = "report" => \/ e.used = NoUsage
                          \/ e.used = k.usage /\ ~Unended(k)
                          \/ ~e.settled /\ Listed(k)
    /\ e.pc = "done" /\ e.result \in {"ok", "retryable"} =>
          Measured(e.used) = Measured(k.usage) /\ ~Unended(k)

\* A child that has not begun has used nothing; a local executor has no children;
\* a coroutine that is gone has left no locals.
TableOK(t) ==
    \A n \in 1..AttemptLimit[t] : /\ kids[t][n].st \in {"none", "requested"} =>
                                       kids[t][n].usage = NoUsage
                                  /\ ~UsesRlm => kids[t][n].st = "none"
AccountOK(t) ==
    /\ TableOK(t)
    /\ exec[t].pc = "none" => exec[t] = NoExec
    /\ task[t].status = "running" => Accounts(task[t], exec[t], Kid(t))

\* What a recovery is about to charge is what the child used.
ChargeOK ==
    drive = "recovered" /\ recovery.result \in {"ok", "retryable"} =>
        Measured(recovery.used) = Measured(Kid(focus).usage) /\ ~Unended(Kid(focus))

\* An attempt that runs has a child, which its steps may replace.
LEMMA AccountStep ==
    ASSUME IInv, NEW t \in Tasks, task[t].status = "running", AccountOK(t),
           task'[t].attempts = task[t].attempts, exec'[t].pc # "none" \/ exec'[t] = exec[t],
           NEW k,
           \/ UNCHANGED kids /\ k = Kid(t)
           \/ SetKid(t, k) /\ UsesRlm /\ k.st # "none" /\ (k.st = "requested" => k.usage = NoUsage),
           task'[t].status = "running" => Accounts(task'[t], exec'[t], k)
    PROVE  AccountOK(t)'
<1> DEFINE a == task[t].attempts
<1>1. a \in 1..AttemptLimit[t] /\ DOMAIN kids = Tasks /\ DOMAIN kids[t] = 1..AttemptLimit[t]
  BY CurrentAttempt DEF IInv, KidsOK
<1>2. \A n \in 1..AttemptLimit[t] : n # a => kids'[t][n] = kids[t][n]
  BY <1>1 DEF SetKid
<1>3. kids'[t][a] = k /\ Kid(t)' = k
  BY <1>1 DEF SetKid, Kid
<1>4. kids'[t] = kids[t] \/ (UsesRlm /\ k.st # "none" /\ (k.st = "requested" => k.usage = NoUsage))
  OBVIOUS
<1>5. TableOK(t)'
  BY <1>2, <1>3, <1>4 DEF TableOK, AccountOK
<1> QED
  BY <1>3, <1>5 DEF AccountOK

\* What Notify makes of its task's record.
LEMMA NotifyFields ==
    ASSUME IInv, NEW t \in Tasks, NEW known, NEW child, NEW usage, NEW settled,
           Notify(t, known, child, usage, settled)
    PROVE  /\ task'[t].known = known /\ task'[t].child = child /\ task'[t].usage = usage
           /\ task'[t].status = task[t].status /\ task'[t].attempts = task[t].attempts
           /\ \A u \in Tasks : u # t => task'[u] = task[u]
<1>1. task \in [Tasks -> TaskRecord] /\ task[t] \in TaskRecord
  BY DEF IInv, TypeOK
<1> QED
  BY <1>1 DEF Notify, TaskRecord

\* Every step of an attempt keeps its account.
LEMMA AttemptAccounts ==
    ASSUME IInv, AttemptInv, Metered, NEW t \in Tasks, ExecStep(t) \/ ExecTimeout(t), AccountOK(t)
    PROVE  AccountOK(t)'
<1>1. /\ exec[t] \in Exec /\ exec \in [Tasks -> Exec] /\ task \in [Tasks -> TaskRecord]
      /\ ExecutorOK(t)
  BY DEF IInv, TypeOK, AttemptInv
<1>2. task'[t].attempts = task[t].attempts /\ task'[t].status = task[t].status
  BY AttemptFrame DEF TaskStep
<1>3. exec[t].pc # "none"
  BY DEF ExecStep, ExecProgress, ExecTimeout, ExecSpawn, ExecAdmitted, ExecObserve,
     ExecFails, ExecMisses, ExecCleanup, ExecReturn, SettleUnlistable, SettleAbsent,
     SettleTerminal, SettleRunning, ExecReport, LocalReturn
<1>4. exec'[t].pc # "none"
  BY <1>3, AttemptLives DEF TaskStep
<1>5. task[t].status = "running" /\ task[t].attempts \in 1..AttemptLimit[t]
  BY <1>3, CurrentAttempt DEF IInv, LiveOK
<1>6. task[t] \in TaskRecord /\ Kid(t) \in Child
  BY <1>1, <1>5, KidTyped
<1>7. Accounts(task[t], exec[t], Kid(t))
  BY <1>5 DEF AccountOK
<1>8. (Kid(t).st = "none" => Kid(t).usage = NoUsage) /\ (~UsesRlm => Kid(t).st = "none")
  BY <1>5 DEF AccountOK, TableOK, Kid
<1>9. exec[t].pc = "working" \/ UsesRlm \/ exec[t].pc = "done"
  BY <1>1, <1>3 DEF ExecutorOK
<1>10. ASSUME UNCHANGED kids, Accounts(task'[t], exec'[t], Kid(t))
      PROVE  AccountOK(t)'
  BY <1>4, <1>2, <1>5, <1>10, AccountStep
<1>11. ASSUME NEW k, SetKid(t, k), k.st # "none", UsesRlm, k.st = "requested" => k.usage = NoUsage,
              Accounts(task'[t], exec'[t], k)
       PROVE  AccountOK(t)'
  BY <1>4, <1>2, <1>5, <1>11, AccountStep
<1>12. RequireUsage /\ (Kid(t).st \in {"none", "requested"} => Kid(t).usage = NoUsage)
  BY <1>5 DEF Metered, AccountOK, TableOK, Kid
<1> USE <1>1, <1>6 DEF Unended
<1>13. CASE ExecSpawn(t)
  <2> DEFINE k == [NoChild EXCEPT !.st = IF "slow" \in Faults THEN "requested" ELSE "running"]
  <2>1. SetKid(t, k) /\ UsesRlm /\ UNCHANGED task
    BY <1>9, <1>13 DEF ExecSpawn
  <2>2. k.st \in {"requested", "running"} /\ k.usage = NoUsage
    BY DEF NoChild
  <2>3. exec[t].pc = "start" /\ exec'[t].pc = "spawning" /\ exec'[t].why = exec[t].why
    BY <1>13 DEF ExecSpawn, Moves, Exec
  <2> HIDE DEF k
  <2>4. Accounts(task'[t], exec'[t], k)
    BY <1>7, <2>1, <2>2, <2>3 DEF Accounts
  <2> QED
    BY <1>11, <2>1, <2>2, <2>4
<1>14. CASE ExecAdmitted(t)
  <2>1. UNCHANGED kids /\ task'[t].known = TRUE /\ task'[t].usage = NoUsage
    <3>1. UNCHANGED kids /\ Notify(t, TRUE, "running", NoUsage, "no")
      BY <1>14 DEF ExecAdmitted
    <3> QED
      BY <3>1 DEF Notify, TaskRecord
  <2>2. /\ exec[t].pc = "spawning" /\ exec'[t].pc = "polling" /\ exec'[t].why = exec[t].why
        /\ exec'[t].known = TRUE
    BY <1>14 DEF ExecAdmitted, Moves, Exec
  <2> QED
    BY <1>7, <1>10, <2>1, <2>2 DEF Accounts
<1>15. CASE ExecObserve(t)
  <2>1. /\ UNCHANGED kids /\ task'[t].known = TRUE /\ task'[t].usage = Kid(t).usage
        /\ Kid(t).st \in {"completed", "error"} /\ exec[t].pc = "polling"
    <3>1. UNCHANGED kids /\ Notify(t, TRUE, Kid(t).st, Kid(t).usage, "yes")
      BY <1>15 DEF ExecObserve
    <3>2. Kid(t).st \in {"completed", "error"} /\ exec[t].pc = "polling"
      BY <1>15 DEF ExecObserve, Terminal
    <3> QED
      BY <3>1, <3>2 DEF Notify, TaskRecord
  <2>2. exec'[t].pc = "cleanup" /\ exec'[t].why = exec[t].why /\ exec'[t].used = Kid(t).usage
    BY <1>15 DEF ExecObserve, Moves, Exec
  <2> QED
    BY <1>7, <1>10, <2>1, <2>2 DEF Accounts
<1>16. CASE ExecFails(t) \/ ExecMisses(t)
  <2>1. UNCHANGED <<task, kids>> /\ exec[t].pc \in {"start", "polling"}
    BY <1>16 DEF ExecFails, ExecMisses
  <2>2. exec'[t].pc = "settle" /\ exec'[t].known = exec[t].known
    BY <1>16 DEF ExecFails, ExecMisses, Moves, Settling, Exec
  <2> QED
    BY <1>7, <1>10, <2>1, <2>2 DEF Accounts
<1>17. ASSUME CleanUp(t), Kid(t).st # "none", ~Unended(Kid(t)), UsesRlm, UNCHANGED task,
              \A k \in Child : k.usage = Kid(t).usage /\ k.st # "none" /\ ~Unended(k) =>
                                  Accounts(task[t], exec'[t], k)
       PROVE  AccountOK(t)'
  <2>1. CASE UNCHANGED kids
    BY <1>10, <1>17, <2>1
  <2>2. CASE SetKid(t, [Kid(t) EXCEPT !.st = "gone"])
    <3> DEFINE k == [Kid(t) EXCEPT !.st = "gone"]
    <3>1. k \in Child /\ k.usage = Kid(t).usage /\ k.st = "gone" /\ SetKid(t, k)
      BY <2>2 DEF Child
    <3> HIDE DEF k
    <3> QED
      BY <1>11, <1>17, <3>1
  <2> QED
    BY <1>17, <2>1, <2>2 DEF CleanUp
<1>18. CASE ExecCleanup(t)
  <2>1. UNCHANGED task /\ exec[t].pc = "cleanup" /\ CleanUp(t) /\ UsesRlm
    BY <1>9, <1>18 DEF ExecCleanup
  <2>2. exec'[t].pc = "cleaned" /\ exec'[t].why = exec[t].why /\ exec'[t].used = exec[t].used
    BY <1>18 DEF ExecCleanup, Moves, Exec
  <2> QED
    BY <1>7, <1>17, <2>1, <2>2 DEF Accounts
<1>19. CASE ExecReturn(t)
  <2>1. UNCHANGED <<task, kids>> /\ exec[t].pc = "cleaned"
    BY <1>19 DEF ExecReturn
  <2>2. exec'[t].pc = "done" /\ exec'[t].why = "none" /\ exec'[t].used = exec[t].used
    BY <1>19 DEF ExecReturn, Moves, Finished, NoExec
  <2> QED
    BY <1>7, <1>10, <2>1, <2>2 DEF Accounts
<1>20. ASSUME NEW settled, NEW used, NEW known, Moves(t, Reporting(exec[t], settled, used, known))
       PROVE  /\ exec'[t].pc = "report" /\ exec'[t].why = exec[t].why
              /\ exec'[t].settled = settled /\ exec'[t].used = used /\ exec'[t].known = known
  BY <1>20 DEF Moves, Reporting, Exec
<1>21. CASE SettleUnlistable(t) \/ SettleAbsent(t)
  <2>1. UNCHANGED <<task, kids>> /\ exec[t].pc = "settle"
    BY <1>21 DEF SettleUnlistable, SettleAbsent
  <2>2. /\ exec'[t].pc = "report" /\ exec'[t].why = exec[t].why /\ exec'[t].used = NoUsage
        /\ exec'[t].known = exec[t].known
    BY <1>20, <1>21 DEF SettleUnlistable, SettleAbsent
  <2> QED
    BY <1>7, <1>10, <2>1, <2>2 DEF Accounts
<1>22. CASE SettleTerminal(t)
  <2>1. /\ UNCHANGED task /\ exec[t].pc = "settle" /\ CleanUp(t) /\ UsesRlm
        /\ Kid(t).st \in {"completed", "error"}
    BY <1>9, <1>22 DEF SettleTerminal, Terminal
  <2>2. /\ exec'[t].pc = "report" /\ exec'[t].why = exec[t].why /\ exec'[t].used = Kid(t).usage
        /\ exec'[t].known = TRUE
    BY <1>20, <1>22 DEF SettleTerminal
  <2> QED
    BY <1>7, <1>17, <2>1, <2>2 DEF Accounts
<1>23. CASE SettleRunning(t)
  <2>1. PICK end \in Deletions, used \in Usages :
          /\ Moves(t, Reporting(exec[t], end.settled, used, TRUE))
          /\ SetKid(t, [st |-> end.st, usage |-> used])
    BY <1>23 DEF SettleRunning
  <2>2. /\ end.st \in {"gone", "running", "error"}
        /\ end.st = "running" => ~end.settled
    BY DEF Deletions
  <2>3. UNCHANGED task /\ exec[t].pc = "settle" /\ Kid(t).st = "running" /\ UsesRlm
    BY <1>9, <1>23 DEF SettleRunning
  <2>4. /\ exec'[t].pc = "report" /\ exec'[t].why = exec[t].why /\ exec'[t].used = used
        /\ exec'[t].known = TRUE /\ exec'[t].settled = end.settled
    BY <1>20, <2>1
  <2>5. task[t].usage = NoUsage
    BY <1>7, <2>3 DEF Accounts
  <2>6. Accounts(task'[t], exec'[t], [st |-> end.st, usage |-> used])
    BY <1>7, <2>2, <2>3, <2>4, <2>5 DEF Accounts, Listed
  <2> QED
    BY <1>11, <2>1, <2>2, <2>3, <2>6
<1>24. CASE ExecReport(t)
  <2>1. UNCHANGED kids /\ exec[t].pc = "report"
    BY <1>24 DEF ExecReport
  <2>2. /\ exec'[t].pc = "done" /\ exec'[t].why = "none" /\ exec'[t].used = exec[t].used
        /\ exec'[t].result = SettledResult(exec[t])
    BY <1>24 DEF ExecReport, Moves, Finished, NoExec
  <2>3. \/ UNCHANGED task /\ ~exec[t].known
        \/ /\ task'[t].usage = exec[t].used
           /\ ~exec[t].settled => task'[t].child = "running"
    <3> DEFINE child == IF exec[t].settled THEN "deleted" ELSE "running"
               settled == IF exec[t].settled THEN "yes" ELSE "no"
    <3>1. \/ UNCHANGED task /\ ~exec[t].known
          \/ Notify(t, TRUE, child, exec[t].used, settled)
      BY <1>24 DEF ExecReport
    <3>2. ~exec[t].settled => child = "running"
      OBVIOUS
    <3> HIDE DEF child, settled
    <3>3. ASSUME Notify(t, TRUE, child, exec[t].used, settled)
          PROVE  task'[t].usage = exec[t].used /\ task'[t].child = child
      BY <1>1, <3>3 DEF Notify, TaskRecord
    <3> QED
      BY <3>1, <3>2, <3>3
  <2>5. ASSUME exec'[t].result \in {"ok", "retryable"}
        PROVE  Measured(exec[t].used) = Measured(Kid(t).usage) /\ ~Unended(Kid(t))
    <3>1. exec[t].settled /\ (exec[t].used = NoUsage => exec[t].why = "error" /\ ~exec[t].known)
      BY <1>12, <2>2, <2>5 DEF SettledResult
    <3>2. CASE exec[t].used = NoUsage
      <4>1. Kid(t).st = "none"
        BY <1>7, <3>1, <3>2 DEF Accounts
      <4> QED
        BY <1>8, <3>2, <4>1
    <3>3. CASE exec[t].used # NoUsage
      BY <1>7, <2>1, <3>1, <3>3 DEF Accounts
    <3> QED
      BY <3>2, <3>3
  <2>6. \/ task'[t].usage = NoUsage
        \/ task'[t].usage = Kid(t).usage /\ ~Unended(Kid(t))
        \/ Listed(Kid(t)) /\ task'[t].child = "running"
    BY <1>7, <2>1, <2>3 DEF Accounts
  <2>7. Accounts(task'[t], exec'[t], Kid(t))
    BY <2>2, <2>5, <2>6 DEF Accounts
  <2> QED
    BY <1>10, <2>1, <2>7
<1>25. CASE LocalReturn(t)
  <2>1. UNCHANGED <<task, kids>> /\ exec[t].pc = "working"
    BY <1>25 DEF LocalReturn
  <2>2. exec'[t].pc = "done" /\ exec'[t].why = "none" /\ exec'[t].used = 0
    BY <1>25 DEF LocalReturn, Moves, Finished, NoExec
  <2>3. Kid(t).st = "none" /\ Kid(t).usage = NoUsage
    BY <1>1, <1>8, <2>1 DEF ExecutorOK
  <2>4. Measured(0) = 0 /\ Measured(NoUsage) = 0
    BY DEF Measured
  <2> QED
    BY <1>7, <1>10, <2>1, <2>2, <2>3, <2>4 DEF Accounts, Listed
<1>26. CASE ExecTimeout(t)
  <2>1. UNCHANGED <<task, kids>> /\ exec[t].pc \notin {"none", "done"}
    BY <1>26 DEF ExecTimeout
  <2>2. CASE exec[t].pc = "working" \/ exec[t].why = "error"
    <3>1. /\ exec'[t].pc = "done" /\ exec'[t].why = "none" /\ exec'[t].used = task[t].usage
          /\ exec'[t].result = IF task[t].known /\ task[t].usage = NoUsage
                               THEN "fatal" ELSE "retryable"
      BY <1>12, <1>26, <2>2 DEF ExecTimeout, Moves, Finished, NoExec
    <3>2. ASSUME exec'[t].result = "retryable"
          PROVE  task[t].usage = Kid(t).usage /\ ~Unended(Kid(t))
      <4>1. CASE exec[t].pc = "working"
        <5>1. Kid(t).st = "none" /\ Kid(t).usage = NoUsage
          BY <1>1, <1>8, <4>1 DEF ExecutorOK
        <5> QED
          BY <1>7, <4>1, <5>1 DEF Accounts
      <4>2. CASE exec[t].why = "error"
        <5>1. task[t].usage = NoUsage /\ ~task[t].known
          BY <1>7, <3>1, <3>2, <4>2 DEF Accounts
        <5>2. Kid(t).st = "none"
          BY <1>7, <4>2, <5>1 DEF Accounts
        <5> QED
          BY <1>8, <5>1, <5>2
      <4> QED
        BY <2>2, <4>1, <4>2
    <3> QED
      BY <1>7, <1>10, <2>1, <3>1, <3>2 DEF Accounts
  <2>3. CASE ~(exec[t].pc = "working" \/ exec[t].why = "error")
    <3>1. exec'[t].pc = "settle" /\ exec'[t].why = "timeout"
      BY <1>26, <2>3 DEF ExecTimeout, Moves, Settling, Exec
    <3> QED
      BY <1>7, <1>10, <2>1, <3>1 DEF Accounts
  <2> QED
    BY <2>2, <2>3
<1> QED
  BY <1>13, <1>14, <1>15, <1>16, <1>18, <1>19, <1>21, <1>22, <1>23, <1>24, <1>25, <1>26
  DEF ExecStep, ExecProgress

\* The host admits children that were asked for, and ends those that run.
LEMMA HostKids ==
    ASSUME IInv, Metered, NEW t \in Tasks, HostStep(t) \/ BackoffEnds(t), AsksOK(t)
    PROVE  /\ exec' = exec
           /\ task'[t].status = task[t].status /\ task'[t].attempts = task[t].attempts
           /\ task'[t].known = task[t].known /\ task'[t].child = task[t].child
           /\ task'[t].usage = task[t].usage
           /\ \A n \in 1..AttemptLimit[t] :
                 \/ kids'[t][n] = kids[t][n]
                 \/ /\ \/ /\ kids[t][n].st = "requested" /\ kids'[t][n].st = "running"
                          /\ kids'[t][n].usage = kids[t][n].usage
                       \/ kids[t][n].st = "running" /\ kids'[t][n].st \in {"completed", "error"}
                    /\ n = task[t].attempts /\ task[t].status \notin {"pending", "succeeded"}
<1>1. /\ task \in [Tasks -> TaskRecord] /\ task[t] \in TaskRecord /\ DOMAIN kids = Tasks
      /\ DOMAIN kids[t] = 1..AttemptLimit[t] /\ \A n \in 1..AttemptLimit[t] : kids[t][n] \in Child
  BY DEF IInv, TypeOK, KidsOK
<1>2. CASE BackoffEnds(t)
  BY <1>1, <1>2 DEF BackoffEnds, TaskRecord
<1>3. CASE HostStep(t)
  <2>1. PICK a \in 1..AttemptLimit[t] : HostAdmits(t, a) \/ ChildEnds(t, a) \/ ChildVanishes(t, a)
    BY <1>3 DEF HostStep
  <2>2. ~ChildVanishes(t, a)
    BY DEF ChildVanishes, Metered
  <2>3. exec' = exec /\ task' = task /\ Unended(kids[t][a])
    BY <2>1, <2>2 DEF HostAdmits, ChildEnds, HostIdle, Unended
  <2>4. PICK k : kids' = [kids EXCEPT ![t][a] = k] /\
                 \/ kids[t][a].st = "requested" /\ k.st = "running" /\ k.usage = kids[t][a].usage
                 \/ kids[t][a].st = "running" /\ k.st \in {"completed", "error"}
    <3>1. CASE HostAdmits(t, a)
      <4> DEFINE k == [kids[t][a] EXCEPT !.st = "running"]
      <4>1. kids' = [kids EXCEPT ![t][a] = k] /\ kids[t][a].st = "requested"
        BY <1>1, <3>1 DEF HostAdmits
      <4>2. k.st = "running" /\ k.usage = kids[t][a].usage
        BY <1>1 DEF Child
      <4> HIDE DEF k
      <4> QED
        BY <4>1, <4>2
    <3>2. CASE ChildEnds(t, a)
      <4>1. PICK st \in {"completed", "error"}, used \in Usages :
               kids' = [kids EXCEPT ![t][a] = [st |-> st, usage |-> used]]
        BY <3>2 DEF ChildEnds
      <4> DEFINE k == [st |-> st, usage |-> used]
      <4>2. kids' = [kids EXCEPT ![t][a] = k] /\ k.st \in {"completed", "error"}
        BY <4>1
      <4>3. kids[t][a].st = "running"
        BY <3>2 DEF ChildEnds
      <4> HIDE DEF k
      <4> QED
        BY <4>2, <4>3
    <3> QED
      BY <2>1, <2>2, <3>1, <3>2
  <2>5. kids'[t][a] = k /\ \A n \in 1..AttemptLimit[t] : n # a => kids'[t][n] = kids[t][n]
    BY <1>1, <2>4
  <2>6. a = task[t].attempts /\ task[t].status \notin {"pending", "succeeded"}
    BY <2>3 DEF AsksOK
  <2> QED
    BY <2>3, <2>4, <2>5, <2>6
<1> QED
  BY <1>2, <1>3

LEMMA HostAccounts ==
    ASSUME IInv, Metered, NEW t \in Tasks, HostStep(t) \/ BackoffEnds(t), AccountOK(t), AsksOK(t)
    PROVE  AccountOK(t)'
<1>1. TableOK(t)'
  BY HostKids DEF AccountOK, TableOK
<1>2. ASSUME task'[t].status = "running"
      PROVE  Accounts(task'[t], exec'[t], Kid(t)')
  <2>1. /\ task[t].status = "running" /\ task[t].attempts \in 1..AttemptLimit[t]
        /\ Accounts(task[t], exec[t], Kid(t))
    BY <1>2, HostKids, CurrentAttempt DEF AccountOK
  <2>2. \/ Kid(t)' = Kid(t)
        \/ /\ Kid(t).st = "requested" /\ Kid(t)'.st = "running"
           /\ Kid(t)'.usage = NoUsage /\ Kid(t).usage = NoUsage
        \/ Kid(t).st = "running" /\ Kid(t)'.st \in {"completed", "error"}
    BY <2>1, HostKids DEF Kid, AccountOK, TableOK
  <2>3. /\ exec'[t] = exec[t] /\ task'[t].known = task[t].known /\ task'[t].child = task[t].child
        /\ task'[t].usage = task[t].usage
    BY HostKids
  <2> QED
    BY <2>1, <2>2, <2>3 DEF Accounts, Listed, Unended
<1> QED
  BY <1>1, <1>2, HostKids DEF AccountOK

\* What is not told of an attempt that still runs.
Untold(t) ==
    /\ kids'[t] = kids[t] /\ exec'[t] \in {exec[t], NoExec, CancelExec(exec[t])}
    /\ task'[t].status = "running" => task'[t] = task[t]

\* Dropping or cancelling an attempt leaves its account as it is.
LEMMA UntoldAccounts ==
    ASSUME IInv, NEW t \in Tasks, AccountOK(t), Untold(t)
    PROVE  AccountOK(t)'
<1>1. TableOK(t)'
  BY DEF AccountOK, TableOK, Untold
<1>2. ASSUME task'[t].status = "running"
      PROVE  Accounts(task'[t], exec'[t], Kid(t)')
  <2>1. /\ task'[t] = task[t] /\ Accounts(task[t], exec[t], Kid(t)) /\ Kid(t)' = Kid(t)
        /\ exec[t] \in Exec
    BY <1>2 DEF AccountOK, Untold, Kid, IInv, TypeOK
  <2>2. CASE exec'[t] = exec[t]
    BY <2>1, <2>2
  <2>3. CASE exec'[t] = NoExec
    BY <2>1, <2>3 DEF Accounts, NoExec
  <2>4. CASE exec'[t] = CancelExec(exec[t])
    <3>1. CASE exec[t].pc \in {"none", "done"}
      BY <2>1, <2>4, <3>1 DEF CancelExec
    <3>2. CASE exec[t].pc \in {"working", "settle", "report"}
      <4>1. exec'[t].pc = "done" /\ exec'[t].why = "none" /\ exec'[t].result = "cancelled"
        BY <2>4, <3>2 DEF CancelExec, Finished, NoExec
      <4> QED
        BY <2>1, <3>2, <4>1 DEF Accounts
    <3>3. CASE exec[t].pc \notin {"none", "done", "working", "settle", "report"}
      <4>1. exec'[t].pc = "settle" /\ exec'[t].why = "cancel"
        BY <2>1, <2>4, <3>3 DEF CancelExec, Settling, Exec
      <4> QED
        BY <2>1, <3>3, <4>1 DEF Accounts
    <3> QED
      BY <3>1, <3>2, <3>3
  <2> QED
    BY <2>2, <2>3, <2>4 DEF Untold
<1>3. exec'[t].pc = "none" => exec'[t] = NoExec
  <2>1. exec[t] \in Exec
    BY DEF IInv, TypeOK
  <2>2. exec[t].pc = "none" => exec[t] = NoExec /\ CancelExec(exec[t]) = exec[t]
    BY DEF AccountOK, CancelExec
  <2>3. CancelExec(exec[t]).pc = "none" => exec[t].pc = "none"
    BY <2>1, CancelKeeps
  <2> QED
    BY <2>2, <2>3 DEF Untold
<1> QED
  BY <1>1, <1>2, <1>3 DEF AccountOK

\* A new attempt has no child yet.
LEMMA LaunchAccounts ==
    ASSUME IInv, NEW t \in Tasks, Launch(t), AccountOK(t), AsksOK(t)
    PROVE  AccountOK(t)'
<1>1. /\ task[t] \in TaskRecord /\ task \in [Tasks -> TaskRecord] /\ exec \in [Tasks -> Exec]
      /\ exec[t] \in Exec /\ AttemptLimit[t] \in Nat /\ task[t].attempts \in Nat
  BY Constants DEF IInv, TypeOK, TaskRecord
<1>2. task[t].status = "pending" /\ task[t].attempts < AttemptLimit[t] /\ UNCHANGED kids
  BY <1>1 DEF Launch, Visiting, Reached, Upcoming, Eligible, Pending, Exhausted
<1>3. /\ task'[t].attempts = task[t].attempts + 1 /\ task'[t].known = FALSE
      /\ task'[t].usage = NoUsage
  BY <1>1 DEF Launch, NewTask
<1>4. exec[t].pc = "none"
  BY <1>2 DEF IInv, LiveOK
<1>5. exec'[t].pc \in {"start", "working"} /\ exec'[t].why = "none"
  BY <1>1, <1>4 DEF Launch, AccountOK, NoExec
<1>6. TableOK(t)'
  BY <1>2 DEF AccountOK, TableOK
<1>7. Kid(t)'.st = "none"
  <2>1. task[t].attempts + 1 \in 1..AttemptLimit[t] /\ task[t].attempts + 1 > task[t].attempts
    BY <1>1, <1>2
  <2> QED
    BY <1>1, <1>2, <1>3, <2>1 DEF AsksOK, Kid
<1>8. Accounts(task'[t], exec'[t], Kid(t)')
  BY <1>3, <1>5, <1>7 DEF Accounts, Unended
<1> QED
  BY <1>5, <1>6, <1>8 DEF AccountOK

\* A recovery concludes from the record and the host what the child used.
LEMMA RecoveryAccounts ==
    ASSUME IInv, Metered, NEW t \in Tasks, RecoverStep(t), AccountOK(t)
    PROVE  AccountOK(t)' /\ (ToRecover(t) => ChargeOK')
<1>1. /\ drive = "recover" /\ t \in graph /\ task[t].status = "running" /\ exec' = exec
  BY DEF RecoverStep, RecoverLocal, RecoverCompleted, RecoverUnlistable, RecoverAbsent,
     RecoverTerminal, RecoverRunning, ToRecover, Recovering, IsFirst, Running, Outcome
<1>2. /\ task \in [Tasks -> TaskRecord] /\ task[t] \in TaskRecord /\ Kid(t) \in Child
      /\ exec[t].pc = "none" /\ task[t].attempts \in 1..AttemptLimit[t]
      /\ recovery \in Recovery
  <2>1. task[t].attempts \in 1..AttemptLimit[t] /\ Kid(t) \in Child
    BY <1>1, CurrentAttempt, KidTyped
  <2>2. exec[t].pc = "none"
    BY <1>1 DEF IInv, LiveOK, Driving, DrivePoints
  <2> QED
    BY <1>1, <2>1, <2>2 DEF IInv, TypeOK
<1>3. /\ Accounts(task[t], exec[t], Kid(t)) /\ exec[t] = NoExec
      /\ Kid(t).st = "none" => Kid(t).usage = NoUsage
  BY <1>1, <1>2 DEF AccountOK, TableOK, Kid
<1> USE <1>2 DEF Metered, Unended
<1>4. ASSUME NEW k,
             \/ UNCHANGED kids /\ k = Kid(t)
             \/ SetKid(t, k) /\ k.st \notin {"none", "requested"} /\ UsesRlm,
             task'[t].attempts = task[t].attempts,
             \/ task'[t].usage = NoUsage
             \/ task'[t].usage = k.usage /\ ~Unended(k)
             \/ Listed(k) /\ task'[t].child = "running"
      PROVE  AccountOK(t)' /\ Kid(t)' = k
  <2>1. Accounts(task'[t], exec'[t], k)
    BY <1>1, <1>3, <1>4 DEF Accounts, NoExec
  <2>2. AccountOK(t)'
    BY <1>1, <1>4, <2>1, AccountStep
  <2>3. Kid(t)' = k
    BY <1>4 DEF SetKid, Kid, IInv, KidsOK
  <2> QED
    BY <2>2, <2>3
<1>5. ASSUME UNCHANGED kids, task'[t].attempts = task[t].attempts,
              \/ task'[t].usage = NoUsage
              \/ task'[t].usage = Kid(t).usage /\ ~Unended(Kid(t))
              \/ Listed(Kid(t)) /\ task'[t].child = "running"
       PROVE  AccountOK(t)' /\ Kid(t)' = Kid(t)
  <2>1. Kid(t)' = Kid(t)
    BY <1>5 DEF Kid
  <2>2. Accounts(task'[t], exec'[t], Kid(t))
    BY <1>1, <1>3, <1>5 DEF Accounts, NoExec
  <2>3. AccountOK(t)'
    BY <1>1, <1>5, <2>2, AccountStep
  <2> QED
    BY <2>1, <2>3
<1>6. ASSUME NEW result, NEW used, Outcome(t, result, used),
             result \in {"ok", "retryable"} =>
                Measured(used) = Measured(Kid(t)'.usage) /\ ~Unended(Kid(t)')
      PROVE  ChargeOK'
  BY <1>6 DEF Outcome, Recovery, ChargeOK
<1>7. CASE RecoverLocal(t)
  <2>1. /\ UNCHANGED kids /\ task'[t].attempts = task[t].attempts
        /\ task'[t].usage = task[t].usage /\ task'[t].child = task[t].child
    BY <1>7 DEF RecoverLocal, TaskRecord
  <2>2. \/ task'[t].usage = NoUsage
        \/ task'[t].usage = Kid(t).usage /\ ~Unended(Kid(t))
        \/ Listed(Kid(t)) /\ task'[t].child = "running"
    BY <1>3, <2>1 DEF Accounts
  <2>3. AccountOK(t)'
    BY <1>5, <2>1, <2>2
  <2> QED
    BY <1>7, <2>3 DEF RecoverLocal, ToRecover
<1>8. CASE RecoverCompleted(t) \/ RecoverUnlistable(t) \/ RecoverAbsent(t)
  <2>1. UNCHANGED <<kids, task>>
    BY <1>8 DEF RecoverCompleted, RecoverUnlistable, RecoverAbsent
  <2>2. AccountOK(t)' /\ Kid(t)' = Kid(t)
    <3>1. \/ task'[t].usage = NoUsage
          \/ task'[t].usage = Kid(t).usage /\ ~Unended(Kid(t))
          \/ Listed(Kid(t)) /\ task'[t].child = "running"
      BY <1>3, <2>1 DEF Accounts
    <3> QED
      BY <1>5, <2>1, <3>1
  <2>3. PICK result, used :
           /\ Outcome(t, result, used)
           /\ result \in {"ok", "retryable"} =>
                 /\ used = task[t].usage /\ used # NoUsage
                 /\ Completed(t) \/ ~Listed(Kid(t))
    BY <1>8 DEF RecoverCompleted, RecoverUnlistable, RecoverAbsent, WithOutputs
  <2>4. Completed(t) \/ ~Listed(Kid(t)) =>
           task[t].usage = NoUsage \/ (task[t].usage = Kid(t).usage /\ ~Unended(Kid(t)))
    BY <1>3 DEF Accounts, Completed
  <2> QED
    BY <1>6, <2>2, <2>3, <2>4
<1>9. CASE RecoverTerminal(t)
  <2>1. /\ Notify(t, TRUE, Kid(t).st, Kid(t).usage, "yes") /\ CleanUp(t) /\ UsesRlm
        /\ Kid(t).st \in {"completed", "error"}
    BY <1>9 DEF RecoverTerminal, Terminal, ToRecover
  <2>2. task'[t].usage = Kid(t).usage /\ task'[t].attempts = task[t].attempts
    BY <2>1 DEF Notify, TaskRecord
  <2>3. PICK k : /\ \/ UNCHANGED kids /\ k = Kid(t)
                    \/ SetKid(t, k) /\ k.st = "gone"
                 /\ k.usage = Kid(t).usage /\ ~Unended(k)
    <3>1. CASE UNCHANGED kids
      BY <2>1, <3>1
    <3>2. CASE SetKid(t, [Kid(t) EXCEPT !.st = "gone"])
      <4> DEFINE k == [Kid(t) EXCEPT !.st = "gone"]
      <4>1. SetKid(t, k) /\ k.usage = Kid(t).usage /\ k.st = "gone"
        BY <3>2 DEF Child
      <4> HIDE DEF k
      <4> QED
        BY <4>1
    <3> QED
      BY <2>1, <3>1, <3>2 DEF CleanUp
  <2>4. AccountOK(t)' /\ Kid(t)' = k
    BY <1>4, <2>1, <2>2, <2>3
  <2>5. PICK result : Outcome(t, result, Kid(t).usage)
    BY <1>9 DEF RecoverTerminal
  <2> QED
    BY <1>6, <2>3, <2>4, <2>5
<1>10. CASE RecoverRunning(t)
  <2>1. PICK end \in Deletions, used \in Usages :
          /\ SetKid(t, [st |-> end.st, usage |-> used])
          /\ IF ~end.settled
             THEN Notify(t, TRUE, "running", used, "no") /\ Outcome(t, "unsettled", used)
             ELSE /\ Notify(t, TRUE, "deleted", used, "yes")
                  /\ Outcome(t, IF RequireUsage /\ used = NoUsage THEN "fatal" ELSE "retryable",
                             used)
    BY <1>10 DEF RecoverRunning
  <2>2. /\ end.st \in {"gone", "running", "error"}
        /\ end.st = "running" => ~end.settled
    BY DEF Deletions
  <2> DEFINE k == [st |-> end.st, usage |-> used]
  <2>3. k.st = end.st /\ k.usage = used /\ SetKid(t, k) /\ UsesRlm
    BY <1>10, <2>1 DEF RecoverRunning, ToRecover
  <2>4. /\ task'[t].usage = used /\ task'[t].attempts = task[t].attempts
        /\ ~end.settled => task'[t].child = "running"
    BY <2>1 DEF Notify, TaskRecord
  <2> HIDE DEF k
  <2>5. AccountOK(t)' /\ Kid(t)' = k
    BY <1>4, <2>2, <2>3, <2>4 DEF Listed
  <2>6. PICK result : /\ Outcome(t, result, used)
                      /\ result \in {"ok", "retryable"} => end.settled
    <3>1. CASE ~end.settled
      BY <2>1, <3>1
    <3>2. CASE end.settled
      BY <2>1, <3>2
    <3> QED
      BY <3>1, <3>2
  <2> QED
    BY <1>6, <2>2, <2>3, <2>5, <2>6
<1> QED
  BY <1>7, <1>8, <1>9, <1>10 DEF RecoverStep

\* Apart from an attempt's own steps, its host's, its launch and its recovery, a step
\* only ever drops or cancels the attempt.
LEMMA OthersTellNothing ==
    ASSUME IInv, [Next]_vars, NEW t \in Tasks, ~TaskStep(t), ~RecoverStep(t), ~Launch(t)
    PROVE  kids'[t] = kids[t] /\ exec'[t] \in {exec[t], NoExec, CancelExec(exec[t])}
<1>1. exec \in [Tasks -> Exec] /\ DOMAIN kids = Tasks
  BY DEF IInv, TypeOK, KidsOK
<1>2. CASE UNCHANGED <<kids, exec>>
  BY <1>2
<1>3. CASE UNCHANGED kids /\ (CancelLive \/ DriveEnds)
  BY <1>3 DEF CancelLive, DriveEnds
<1>4. ASSUME NEW u \in Tasks, TaskStep(u)
      PROVE  kids'[t] = kids[t] /\ exec'[t] = exec[t]
  BY <1>4, AttemptFrame
<1>5. ASSUME NEW u \in Tasks, ApplySuccess(u) \/ ApplyFailure(u) \/ Launch(u)
      PROVE  kids'[t] = kids[t] /\ exec'[t] \in {exec[t], NoExec}
  BY <1>1, <1>5 DEF ApplySuccess, ApplyFailure, Applying, Launch
<1>6. ASSUME NEW u \in Tasks, RecoverStep(u)
      PROVE  kids'[t] = kids[t] /\ exec'[t] = exec[t]
  <2>1. u # t
    BY <1>6
  <2>2. exec' = exec /\ (UNCHANGED kids \/ \E k : SetKid(u, k))
    BY <1>6 DEF RecoverStep, RecoverLocal, RecoverCompleted, RecoverUnlistable, RecoverAbsent,
       RecoverTerminal, RecoverRunning, Outcome, CleanUp
  <2> QED
    BY <1>1, <2>1, <2>2 DEF SetKid
<1>7. CASE RecoveredUnsettled \/ RecoveredOutputs \/ RecoveredFailure
  BY <1>2, <1>7 DEF RecoveredUnsettled, RecoveredOutputs, RecoveredFailure, Settle
<1> QED
  BY <1>2, <1>3, <1>4, <1>5, <1>6, <1>7
  DEF Next, CallerStep, AddTask, Run, RequestCancel, Load, CancelIdle, Enter, WallExpires, Crash,
      DriveStep, TopOfLoop, StartCancel, CommitManifest, CommitFails, Raise, StartFailBudget,
      BlockImpossible, Stall, SettleCancel, FailBudget, FailExhausted, BlockWithoutInputs,
      BlockConflict, StartLaunching, Finish, EndLaunching, WaitOrSleep, RunRaises,
      RecoveryStep, Recommit, RecommitFails, EndRecovery, MarkCancelled, vars

\* The steps that charge what an attempt has used.
Settles(t) ==
    \/ ApplySuccess(t) \/ ApplyFailure(t)
    \/ t = focus /\ (RecoveredOutputs \/ RecoveredFailure)

\* They, and the ends of flows, are what such a step may tell the record.
LEMMA OthersEndAttempts ==
    ASSUME IInv, [Next]_vars, NEW t \in Tasks, ~TaskStep(t), ~RecoverStep(t), ~Launch(t)
    PROVE  \/ task'[t] = task[t]
           \/ /\ task'[t].status # "running" /\ task'[t].attempts = task[t].attempts
              /\ task'[t].status \in {"pending", "succeeded"} => Settles(t)
<1>1. task \in [Tasks -> TaskRecord] /\ task[t] \in TaskRecord
  BY DEF IInv, TypeOK
<1>2. CASE UNCHANGED task
  BY <1>2
<1>3. ASSUME NEW u \in Tasks, TaskStep(u)
      PROVE  task'[t] = task[t]
  BY <1>3, AttemptFrame
<1>4. ASSUME NEW u \in Tasks, RecoverStep(u) \/ Launch(u)
      PROVE  task'[t] = task[t]
  <2>1. u # t
    BY <1>4
  <2>2. CASE UNCHANGED task
    BY <2>2
  <2>3. CASE \E known, child, usage, settled : Notify(u, known, child, usage, settled)
    BY <1>1, <2>1, <2>3 DEF Notify
  <2>4. CASE RecoverLocal(u) \/ Launch(u)
    BY <1>1, <2>1, <2>4 DEF RecoverLocal, Launch
  <2> QED
    BY <1>4, <2>2, <2>3, <2>4 DEF RecoverStep, RecoverCompleted, RecoverUnlistable, RecoverAbsent,
       RecoverTerminal, RecoverRunning
<1>5. ASSUME NEW u \in Tasks, ApplySuccess(u) \/ ApplyFailure(u)
      PROVE  \/ task'[t] = task[t]
             \/ /\ u = t /\ task'[t].attempts = task[t].attempts
                /\ task'[t].status # "running"
  BY <1>1, <1>5 DEF ApplySuccess, ApplyFailure, TaskRecord
<1>6. CASE BlockImpossible \/ Stall
  <2>1. task'[t] \in {task[t], [task[t] EXCEPT !.status = "blocked"],
                      [task[t] EXCEPT !.status = "blocked", !.delayed = FALSE]}
    BY <1>6 DEF BlockImpossible, Stall
  <2> QED
    BY <1>1, <2>1 DEF TaskRecord
<1>7. ASSUME NEW st, Close(st), \A u \in Tasks : st[u] \in {"failed", "cancelled"}
      PROVE  \/ task'[t] = task[t]
             \/ /\ task'[t].status \in {"failed", "cancelled"}
                /\ task'[t].attempts = task[t].attempts
  <2>1. t \notin Nonterminal => task'[t] = task[t]
    BY <1>7 DEF Close
  <2> QED
    BY <1>7, <2>1, Closed
<1>8. CASE SettleCancel \/ FailBudget \/ EndRecovery
  <2>1. UNCHANGED task \/ \E st : Close(st) /\ \A u \in Tasks : st[u] \in {"failed", "cancelled"}
    <3>1. CASE SettleCancel
      <4> DEFINE st == [u \in Tasks |-> IF u \in Unsettled THEN "failed" ELSE "cancelled"]
      <4>1. Close(st) /\ \A u \in Tasks : st[u] \in {"failed", "cancelled"}
        BY <3>1 DEF SettleCancel
      <4> HIDE DEF st
      <4> QED
        BY <4>1
    <3>2. CASE FailBudget \/ EndRecovery
      <4> DEFINE st == [u \in Tasks |-> "failed"]
      <4>1. Close(st) \/ UNCHANGED task
        BY <3>2 DEF FailBudget, EndRecovery
      <4>2. \A u \in Tasks : st[u] \in {"failed", "cancelled"}
        OBVIOUS
      <4> HIDE DEF st
      <4> QED
        BY <4>1, <4>2
    <3> QED
      BY <1>8, <3>1, <3>2
  <2> QED
    BY <1>7, <2>1
<1>9. CASE MarkCancelled
  <2>1. task'[t] \in {task[t], [task[t] EXCEPT !.status = "cancelled"]}
    BY <1>9 DEF MarkCancelled
  <2> QED
    BY <1>1, <2>1 DEF TaskRecord
<1>10. ASSUME NEW u \in Tasks, FailExhausted(u) \/ BlockWithoutInputs(u)
       PROVE  \/ task'[t] = task[t]
              \/ /\ task'[t].status \in {"failed", "blocked"}
                 /\ task'[t].attempts = task[t].attempts
  BY <1>1, <1>10 DEF FailExhausted, BlockWithoutInputs, TaskRecord
<1>11. CASE RecoveredUnsettled \/ RecoveredOutputs \/ RecoveredFailure
  <2>1. focus \in Tasks
    BY <1>11 DEF RecoveredUnsettled, RecoveredOutputs, RecoveredFailure, IInv, FocusOK
  <2>2. PICK status \in {"succeeded", "pending", "failed"}, settled \in {"no", "yes"},
             failures \in {0, 1}, failClosed \in BOOLEAN :
           /\ Settle(status, settled, failures, failClosed)
           /\ status # "failed" => RecoveredOutputs \/ RecoveredFailure
    BY <1>11 DEF RecoveredUnsettled, RecoveredOutputs, RecoveredFailure
  <2> QED
    BY <2>1, <2>2, SettleTyped DEF IInv, Settles
<1>12. (\E u \in Tasks : ApplySuccess(u) \/ ApplyFailure(u)) =>
          \/ task'[t] = task[t]
          \/ task'[t].attempts = task[t].attempts /\ task'[t].status # "running" /\ Settles(t)
  BY <1>5 DEF Settles
<1> QED
  BY <1>2, <1>3, <1>4, <1>6, <1>8, <1>9, <1>10, <1>11, <1>12
  DEF Next, CallerStep, AddTask, Run, RequestCancel, Load, CancelIdle, Enter, WallExpires, Crash,
      DriveStep, TopOfLoop, StartCancel, CommitManifest, CommitFails, Raise, StartFailBudget,
      BlockConflict, StartLaunching, Finish, EndLaunching, WaitOrSleep, RunRaises,
      RecoveryStep, Recommit, RecommitFails, ledger, vars

\* The accounts are true in every state.
AccountInv == (\A t \in Tasks : AccountOK(t) /\ AsksOK(t)) /\ ChargeOK

\* A recovery still charges what the child used when it has been told so.
LEMMA ChargeKeeps ==
    ASSUME IInv, Metered, AccountInv, [Next]_vars
    PROVE  ChargeOK'
<1> USE DEF AccountInv
<1>1. CASE \E u \in Tasks : RecoverStep(u)
  <2>1. PICK u \in Tasks : RecoverStep(u)
    BY <1>1
  <2>2. CASE ToRecover(u)
    BY <2>1, <2>2, RecoveryAccounts
  <2>3. CASE ~ToRecover(u)
    BY <2>1, <2>3 DEF RecoverStep, RecoverLocal, RecoverCompleted, RecoverUnlistable, RecoverAbsent,
       RecoverTerminal, RecoverRunning, Recovering, ToRecover, ChargeOK
  <2> QED
    BY <2>2, <2>3
<1>2. CASE UNCHANGED <<task, kids, drive, focus, recovery>>
  BY <1>2 DEF ChargeOK, Kid
<1>3. CASE \E u \in Tasks : TaskStep(u)
  <2>1. PICK u \in Tasks : TaskStep(u)
    BY <1>3
  <2>2. UNCHANGED <<drive, focus, recovery>>
    BY <2>1, AttemptFrame DEF loop, control
  <2> SUFFICES ASSUME drive = "recovered", recovery.result \in {"ok", "retryable"}
               PROVE  Kid(focus)' = Kid(focus)
    BY <2>2 DEF ChargeOK
  <2>3. /\ focus \in Tasks /\ task[focus].status = "running"
        /\ exec[focus].pc = "none" /\ ~Unended(Kid(focus)) /\ AsksOK(focus)
    BY DEF IInv, FocusOK, LiveOK, Driving, DrivePoints, ChargeOK
  <2>4. CASE u # focus
    BY <2>1, <2>2, <2>3, <2>4, AttemptFrame DEF Kid
  <2>5. CASE u = focus
    <3>1. HostStep(focus) \/ BackoffEnds(focus)
      BY <2>1, <2>3, <2>5 DEF TaskStep, ExecStep, ExecProgress, ExecTimeout, ExecSpawn,
         ExecAdmitted, ExecObserve, ExecFails, ExecMisses, ExecCleanup, ExecReturn,
         SettleUnlistable, SettleAbsent,
         SettleTerminal, SettleRunning, ExecReport, LocalReturn
    <3>2. task[focus].attempts \in 1..AttemptLimit[focus]
      BY <2>3, CurrentAttempt
    <3>3. kids'[focus][task[focus].attempts] = kids[focus][task[focus].attempts]
      BY <2>3, <3>1, <3>2, HostKids DEF Kid, Unended
    <3> QED
      BY <2>2, <2>3, <3>1, <3>3, HostKids DEF Kid
  <2> QED
    BY <2>4, <2>5
<1>4. CASE drive' # "recovered"
  BY <1>4 DEF ChargeOK
<1>5. CASE CallerStep \/ WallExpires \/ Crash
  BY <1>2, <1>4, <1>5 DEF CallerStep, AddTask, Run, RequestCancel, Load, CancelIdle, Enter,
     WallExpires, Crash, DriveEnds, ledger, loop, control
<1>6. CASE DriveStep
  <2>1. drive' # "recovered"
    BY <1>6 DEF DriveStep, TopOfLoop, StartCancel, CommitManifest, CommitFails, Raise,
       StartFailBudget, ApplySuccess, ApplyFailure, Applying, BlockImpossible, Stall, SettleCancel,
       FailBudget, FailExhausted, BlockWithoutInputs, Launch, Visiting, BlockConflict, Finish,
       StartLaunching, EndLaunching, WaitOrSleep, RunRaises, DriveEnds, Applied
  <2> QED
    BY <1>4, <2>1
<1>7. CASE RecoveryStep /\ ~ \E u \in Tasks : RecoverStep(u)
  <2>1. drive' # "recovered"
    BY <1>7 DEF RecoveryStep, RecoveredUnsettled, RecoveredOutputs, RecoveredFailure, Recommit,
       RecommitFails, EndRecovery, MarkCancelled, Leave
  <2> QED
    BY <1>4, <2>1
<1> QED
  BY <1>1, <1>2, <1>3, <1>5, <1>6, <1>7 DEF Next, vars, loop, control

\* A step that settles an attempt adds what its child used to the ledger, and to the
\* charges of that attempt, which were none.
LEMMA SettlingCharges ==
    ASSUME IInv, AccountInv, NEW t \in Tasks, Settles(t),
           task'[t].status \in {"pending", "running", "succeeded"}
    PROVE  /\ task[t].status = "running" /\ task'[t].status # "running" /\ ~Unended(Kid(t))
           /\ UNCHANGED kids /\ tokens' = tokens + Measured(Kid(t).usage)
           /\ \A u \in Tasks : u # t => task'[u] = task[u]
<1>1. task \in [Tasks -> TaskRecord] /\ task[t] \in TaskRecord /\ AccountOK(t)
  BY DEF IInv, TypeOK, AccountInv
<1>2. task'[t].status \in {"pending", "running", "succeeded"}
  OBVIOUS
<1>3. CASE ApplySuccess(t) \/ ApplyFailure(t)
  <2>1. exec[t].pc = "done" /\ task[t].status = "running"
    BY <1>3 DEF ApplySuccess, ApplyFailure, Applying, IsFirst, IInv, LiveOK
  <2>2. /\ exec[t].result \in {"ok", "retryable"} /\ task'[t].status # "running"
        /\ \A u \in Tasks : u # t => task'[u] = task[u]
    <3>1. CASE ApplySuccess(t)
      BY <1>1, <3>1 DEF ApplySuccess, TaskRecord
    <3>2. CASE ApplyFailure(t)
      <4>1. /\ task'[t].status = IF MayRetry(t) THEN "pending" ELSE "failed"
            /\ \A u \in Tasks : u # t => task'[u] = task[u]
        BY <1>1, <3>2 DEF ApplyFailure, TaskRecord
      <4> QED
        BY <1>2, <4>1 DEF MayRetry
    <3> QED
      BY <1>3, <3>1, <3>2
  <2>3. UNCHANGED kids /\ tokens' = tokens + Measured(exec[t].used)
    BY <1>3 DEF ApplySuccess, ApplyFailure, Applying
  <2> QED
    BY <1>1, <2>1, <2>2, <2>3 DEF AccountOK, Accounts
<1>4. CASE t = focus /\ (RecoveredOutputs \/ RecoveredFailure)
  <2>1. PICK status \in {"succeeded", "pending", "failed"}, settled \in {"no", "yes"},
             failures \in {0, 1}, failClosed \in BOOLEAN :
           /\ Settle(status, settled, failures, failClosed)
           /\ drive = "recovered"
           /\ status # "failed" => recovery.result \in {"ok", "retryable"}
    BY <1>4 DEF RecoveredOutputs, RecoveredFailure
  <2>2. /\ task[t].status = "running" /\ task'[t].status = status
        /\ \A u \in Tasks : u # t => task'[u] = task[u]
    BY <1>4, <2>1, SettleTyped DEF IInv, FocusOK
  <2>3. Measured(recovery.used) = Measured(Kid(t).usage) /\ ~Unended(Kid(t))
    BY <1>2, <1>4, <2>1, <2>2 DEF AccountInv, ChargeOK
  <2>4. UNCHANGED kids /\ tokens' = tokens + Measured(recovery.used)
    BY <2>1 DEF Settle
  <2> QED
    BY <1>2, <2>1, <2>2, <2>3, <2>4
<1> QED
  BY <1>3, <1>4 DEF Settles

\* A child is not forgotten open: it is charged, or the flow is given up.
LEMMA AsksKeep ==
    ASSUME IInv, Metered, AccountInv, [Next]_vars, NEW t \in Tasks
    PROVE  AsksOK(t)'
<1> DEFINE a == task[t].attempts
<1>1. /\ task \in [Tasks -> TaskRecord] /\ task[t] \in TaskRecord /\ KidsOK
      /\ AccountOK(t) /\ AsksOK(t) /\ a \in Nat
  BY DEF IInv, TypeOK, AccountInv, TaskRecord
<1>2. ASSUME UNCHANGED kids \/ \E k : SetKid(t, k), task[t].status = "running",
             task'[t].attempts = a, task'[t].status = "running"
      PROVE  AsksOK(t)'
  <2>1. \A n \in 1..AttemptLimit[t] : kids'[t][n] = kids[t][n] \/ n = a
    BY <1>1, <1>2 DEF SetKid, KidsOK
  <2> QED
    BY <1>1, <1>2, <2>1 DEF AsksOK
<1>3. CASE ExecStep(t) \/ ExecTimeout(t)
  <2>1. task'[t].status = task[t].status /\ task'[t].attempts = a
    BY <1>3, AttemptFrame DEF TaskStep
  <2>2. UNCHANGED kids \/ \E k : SetKid(t, k)
    BY <1>3 DEF ExecStep, ExecProgress, ExecTimeout, ExecSpawn, ExecAdmitted, ExecObserve,
       ExecFails, ExecMisses, ExecCleanup, ExecReturn, SettleUnlistable, SettleAbsent,
       SettleTerminal, SettleRunning, ExecReport, LocalReturn, CleanUp
  <2>3. exec[t].pc # "none"
    BY <1>3 DEF ExecStep, ExecProgress, ExecTimeout, ExecSpawn, ExecAdmitted, ExecObserve,
       ExecFails, ExecMisses, ExecCleanup, ExecReturn, SettleUnlistable, SettleAbsent,
       SettleTerminal, SettleRunning, ExecReport, LocalReturn
  <2>4. task[t].status = "running"
    BY <2>3 DEF IInv, LiveOK
  <2> QED
    BY <1>2, <2>1, <2>2, <2>4
<1>4. CASE HostStep(t) \/ BackoffEnds(t)
  <2>1. /\ task'[t].status = task[t].status /\ task'[t].attempts = a
        /\ \A n \in 1..AttemptLimit[t] :
              \/ kids'[t][n] = kids[t][n]
              \/ n = a /\ task[t].status \notin {"pending", "succeeded"}
    BY <1>1, <1>4, HostKids
  <2> QED
    BY <1>1, <2>1 DEF AsksOK
<1>5. CASE RecoverLocal(t)
  <2>1. UNCHANGED kids /\ task'[t].attempts = a
    BY <1>1, <1>5 DEF RecoverLocal, TaskRecord
  <2>2. \A n \in 1..AttemptLimit[t] : kids[t][n].st = "none"
    BY <1>1, <1>5 DEF RecoverLocal, AccountOK, TableOK
  <2> QED
    BY <1>1, <2>1, <2>2 DEF AsksOK, Unended
<1>6. CASE RecoverStep(t) /\ ~RecoverLocal(t)
  <2>1. task[t].status = "running"
    BY <1>6 DEF RecoverStep, RecoverCompleted, RecoverUnlistable, RecoverAbsent, RecoverTerminal,
       RecoverRunning, ToRecover, Recovering, IsFirst, Running
  <2>2. UNCHANGED kids \/ \E k : SetKid(t, k)
    BY <1>6 DEF RecoverStep, RecoverCompleted, RecoverUnlistable, RecoverAbsent, RecoverTerminal,
       RecoverRunning, CleanUp
  <2>3. UNCHANGED task \/ \E known, child, usage, settled : Notify(t, known, child, usage, settled)
    BY <1>6 DEF RecoverStep, RecoverCompleted, RecoverUnlistable, RecoverAbsent, RecoverTerminal,
       RecoverRunning
  <2>4. task'[t].status = task[t].status /\ task'[t].attempts = a
    BY <2>3, NotifyFields
  <2> QED
    BY <1>2, <2>1, <2>2, <2>4
<1>7. CASE Launch(t)
  <2>1. /\ UNCHANGED kids /\ task[t].status = "pending"
        /\ task'[t].attempts = a + 1
    BY <1>1, <1>7 DEF Launch, Visiting, Reached, Upcoming, Eligible, Pending, NewTask
  <2>2. \A n \in 1..AttemptLimit[t] : n > a + 1 => n > a
    BY <1>1
  <2> QED
    BY <1>1, <2>1, <2>2 DEF AsksOK
<1>8. CASE ~TaskStep(t) /\ ~RecoverStep(t) /\ ~Launch(t)
  <2>1. kids'[t] = kids[t]
    BY <1>8, OthersTellNothing
  <2>2. CASE task'[t] = task[t]
    BY <1>1, <2>1, <2>2 DEF AsksOK
  <2>3. CASE task'[t] # task[t]
    <3>1. /\ task'[t].status # "running" /\ task'[t].attempts = a
          /\ task'[t].status \in {"pending", "succeeded"} => Settles(t)
      BY <1>8, <2>3, OthersEndAttempts
    <3>2. \A n \in 1..AttemptLimit[t] :
             Unended(kids[t][n]) => n = a /\ task'[t].status \notin {"pending", "succeeded"}
      BY <1>1, <3>1, SettlingCharges DEF AsksOK, Kid
    <3> QED
      BY <1>1, <2>1, <3>1, <3>2 DEF AsksOK
  <2> QED
    BY <2>2, <2>3
<1> QED
  BY <1>3, <1>4, <1>5, <1>6, <1>7, <1>8 DEF TaskStep

LEMMA AccountsKeep ==
    ASSUME IInv, AttemptInv, Metered, AccountInv, [Next]_vars
    PROVE  AccountInv'
<1>1. ASSUME NEW t \in Tasks
      PROVE  AccountOK(t)'
  <2>1. AccountOK(t) /\ AsksOK(t)
    BY DEF AccountInv
  <2>2. CASE TaskStep(t)
    BY <2>1, <2>2, AttemptAccounts, HostAccounts DEF TaskStep
  <2>3. CASE RecoverStep(t)
    BY <2>1, <2>3, RecoveryAccounts
  <2>4. CASE Launch(t)
    BY <2>1, <2>4, LaunchAccounts
  <2>5. CASE ~TaskStep(t) /\ ~RecoverStep(t) /\ ~Launch(t)
    <3>1. Untold(t)
      BY <2>5, OthersTellNothing, OthersEndAttempts DEF Untold
    <3> QED
      BY <2>1, <3>1, UntoldAccounts
  <2> QED
    BY <2>2, <2>3, <2>4, <2>5
<1> QED
  BY <1>1, ChargeKeeps, AsksKeep DEF AccountInv

LEMMA AccountInvariance ==
    ASSUME Metered
    PROVE  Spec => [](IInv /\ AttemptInv /\ AccountInv)
<1>1. Init => AccountInv
  BY DEF Init, AccountInv, AccountOK, AsksOK, Unended, TableOK, ChargeOK, NewTask, NoChild, NoExec
<1> QED
  BY <1>1, AccountsKeep, AttemptInvariance, PTL DEF Spec

-----------------------------------------------------------------------------
(* Sums.  Total folds a function over its domain.  The recursion of that   *)
(* fold is well defined on a finite set (SumsExist): of the sizes for which *)
(* it is not there would be a least one.  The same argument, over the least *)
(* set that violates a claim, then gives the two facts the ledger needs.   *)

\* The sums of a finite function over the subsets of its domain.
First(S) == CHOOSE k \in S : TRUE
Sums(f, g) ==
    g = [S \in SUBSET DOMAIN f |-> IF S = {} THEN 0 ELSE f[First(S)] + g[S \ {First(S)}]]

\* A family of sets has one that no removal of an element leads out of.
LEMMA LeastSet ==
    ASSUME NEW D, IsFiniteSet(D), NEW F \in SUBSET SUBSET D, F # {}
    PROVE  \E S \in F : \A x \in S : S \ {x} \notin F
<1> DEFINE R == StrictSubsetOrdering(D)
<1>1. IsWellFoundedOn(R, SUBSET D)
  BY FS_StrictSubsetOrderingWellFounded, FS_FiniteSubsetsOfFinite
<1>2. \A S, T \in SUBSET D : T \subseteq S /\ T # S => <<T, S>> \in R
  BY DEF StrictSubsetOrdering
<1> HIDE DEF R
<1>3. PICK S \in F : \A T \in F : ~ (<<T, S>> \in R)
  BY <1>1, WFMin
<1>4. ASSUME NEW x \in S, S \ {x} \in F
      PROVE  FALSE
  BY <1>2, <1>3, <1>4
<1> QED
  BY <1>3, <1>4

LEMMA Least ==
    ASSUME NEW S \in SUBSET Nat, S # {}
    PROVE  \E n \in S : \A m \in S : n <= m
<1> DEFINE R == OpToRel(<, Nat)
<1>1. IsWellFoundedOn(R, Nat)
  BY NatLessThanWellFounded
<1>2. \A x, y \in Nat : <<y, x>> \in R <=> y < x
  BY DEF OpToRel
<1> HIDE DEF R
<1>3. PICK x \in S : \A y \in S : ~ (<<y, x>> \in R)
  BY <1>1, WFMin
<1>4. \A y \in S : x \in Nat /\ y \in Nat /\ ~(y < x)
  BY <1>2, <1>3
<1>5. \A y \in S : x <= y
  BY <1>4
<1> QED
  BY <1>3, <1>5

\* Such sums exist, one size of subsets after the other,
LEMMA SumsExist ==
    ASSUME NEW f, IsFiniteSet(DOMAIN f)
    PROVE  \E g : Sums(f, g)
<1> DEFINE D == DOMAIN f
           Upto(n) == {S \in SUBSET D : Cardinality(S) <= n}
           Body(g, S) == IF S = {} THEN 0 ELSE f[First(S)] + g[S \ {First(S)}]
           Level(g, n) == g = [S \in Upto(n) |-> Body(g, S)]
           Short == {n \in Nat : ~ \E g : Level(g, n)}
<1>1. \A S \in SUBSET D :
         IsFiniteSet(S) /\ Cardinality(S) \in Nat /\ Cardinality(S) <= Cardinality(D)
  BY FS_Subset, FS_CardinalityType
<1>2. \A S \in SUBSET D : S # {} => /\ First(S) \in S /\ S \ {First(S)} \in SUBSET D
                                    /\ Cardinality(S \ {First(S)}) = Cardinality(S) - 1
  <2> SUFFICES ASSUME NEW S \in SUBSET D, S # {}
               PROVE  /\ First(S) \in S /\ S \ {First(S)} \in SUBSET D
                      /\ Cardinality(S \ {First(S)}) = Cardinality(S) - 1
    OBVIOUS
  <2>1. First(S) \in S
    BY DEF First
  <2> QED
    BY <1>1, <2>1, FS_RemoveElement
<1>3. \A S \in SUBSET D : S # {} => Cardinality(S) # 0
  BY <1>1, FS_EmptySet
<1> HIDE DEF D
<1>4. ASSUME NEW n \in Nat, NEW g, NEW h, h = [S \in Upto(n) |-> Body(g, S)],
             \A S \in SUBSET D : Cardinality(S) < n => g[S] = Body(g, S)
      PROVE  Level(h, n)
  <2>1. ASSUME NEW S \in Upto(n), S # {}
        PROVE  h[S \ {First(S)}] = g[S \ {First(S)}]
    <3> DEFINE T == S \ {First(S)}
    <3>1. T \in SUBSET D /\ Cardinality(T) \in Nat /\ Cardinality(T) < n
      BY <1>1, <1>2, <2>1
    <3>2. T \in Upto(n)
      BY <3>1
    <3>3. h[T] = Body(g, T) /\ g[T] = Body(g, T)
      <4> HIDE DEF T, Body, Upto
      <4> QED
        BY <1>4, <3>1, <3>2
    <3> QED
      BY <3>3
  <2>2. \A S \in Upto(n) : Body(h, S) = Body(g, S)
    BY <2>1
  <2> HIDE DEF Upto, Body
  <2> QED
    BY <1>4, <2>2
<1>5. Short = {}
  <2> SUFFICES ASSUME Short # {} PROVE FALSE
    OBVIOUS
  <2>1. PICK n \in Short : \A m \in Short : n <= m
    <3>1. Short \in SUBSET Nat
      OBVIOUS
    <3> HIDE DEF Short
    <3> QED
      BY <3>1, Least
  <2>2. n \in Nat /\ ~ \E g : Level(g, n)
    BY <2>1
  <2>3. \E g : \A S \in SUBSET D : Cardinality(S) < n => g[S] = Body(g, S)
    <3>1. CASE n = 0
      <4>1. \A S \in SUBSET D : ~(Cardinality(S) < n)
        BY <1>1, <3>1
      <4> QED
        BY <4>1
    <3>2. CASE n # 0
      <4>1. n - 1 \in Nat /\ ~(n <= n - 1)
        BY <2>2, <3>2
      <4>2. n - 1 \notin Short
        <5> HIDE DEF Short
        <5> QED
          BY <2>1, <4>1
      <4>3. PICK g : Level(g, n - 1)
        BY <4>1, <4>2
      <4>4. \A S \in SUBSET D : Cardinality(S) < n => S \in Upto(n - 1)
        BY <1>1, <2>2
      <4> HIDE DEF Upto, Body
      <4> QED
        BY <4>3, <4>4
    <3> QED
      BY <3>1, <3>2
  <2>4. PICK g : \A S \in SUBSET D : Cardinality(S) < n => g[S] = Body(g, S)
    BY <2>3
  <2>5. Level([S \in Upto(n) |-> Body(g, S)], n)
    <3> HIDE DEF Level, Upto, Body
    <3> QED
      BY <1>4, <2>2, <2>4
  <2> HIDE DEF Level
  <2> QED
    BY <2>2, <2>5
<1>6. Cardinality(D) \in Nat
  BY <1>1
<1>7. PICK g : Level(g, Cardinality(D))
  <2> HIDE DEF Level
  <2> QED
    BY <1>5, <1>6
<1>8. Upto(Cardinality(D)) = SUBSET D
  BY <1>1
<1>9. Sums(f, g)
  <2> HIDE DEF Upto
  <2> QED
    BY <1>7, <1>8 DEF Sums, D
<1> QED
  BY <1>9

\* and the total is the one over the whole domain.
LEMMA TotalUnfolds ==
    ASSUME NEW f, IsFiniteSet(DOMAIN f)
    PROVE  \E g : Sums(f, g) /\ Total(f) = g[DOMAIN f]
<1> DEFINE g == CHOOSE h : Sums(f, h)
<1>1. Sums(f, g)
  BY SumsExist, Zenon
<1>2. Total(f) = g[DOMAIN f]
  BY Zenon DEF Total, MapThenSumSet, MapThenFoldSet, Sums, First
<1> QED
  BY <1>1, <1>2

LEMMA SumStep ==
    ASSUME NEW f, NEW g, NEW D, DOMAIN f = D, Sums(f, g)
    PROVE  \A S \in SUBSET D :
              /\ S = {} => g[S] = 0
              /\ S # {} => First(S) \in S /\ g[S] = f[First(S)] + g[S \ {First(S)}]
<1> SUFFICES ASSUME NEW S \in SUBSET D
             PROVE  /\ S = {} => g[S] = 0
                    /\ S # {} => First(S) \in S /\ g[S] = f[First(S)] + g[S \ {First(S)}]
  OBVIOUS
<1>1. S # {} => First(S) \in S
  BY DEF First
<1>2. g[S] = IF S = {} THEN 0 ELSE f[First(S)] + g[S \ {First(S)}]
  BY DEF Sums
<1> QED
  BY <1>1, <1>2

\* A sum of natural numbers is one, and what one of them gains the sum gains.
LEMMA SumAdds ==
    ASSUME NEW D, IsFiniteSet(D), NEW f \in [D -> Nat], NEW k \in D, NEW n \in Nat, NEW h,
           h = [f EXCEPT ![k] = f[k] + n]
    PROVE  Total(f) \in Nat /\ Total(h) = Total(f) + n
<1>1. DOMAIN f = D /\ DOMAIN h = D
  OBVIOUS
<1>2. PICK g : Sums(f, g) /\ Total(f) = g[D]
  BY <1>1, TotalUnfolds
<1>3. PICK e : Sums(h, e) /\ Total(h) = e[D]
  BY <1>1, TotalUnfolds
<1>4. \A S \in SUBSET D :
         /\ S = {} => g[S] = 0
         /\ S # {} => First(S) \in S /\ g[S] = f[First(S)] + g[S \ {First(S)}]
  <2>1. DOMAIN f = D /\ Sums(f, g)
    BY <1>1, <1>2
  <2> QED
    BY ONLY <2>1, SumStep, ZenonT(60)
<1>5. \A S \in SUBSET D :
         /\ S = {} => e[S] = 0
         /\ S # {} => First(S) \in S /\ e[S] = h[First(S)] + e[S \ {First(S)}]
  <2>1. DOMAIN h = D /\ Sums(h, e)
    BY <1>1, <1>3
  <2> QED
    BY ONLY <2>1, SumStep, ZenonT(60)
<1> DEFINE Right(S) == g[S] \in Nat /\ e[S] = g[S] + (IF k \in S THEN n ELSE 0)
           Wrong == {S \in SUBSET D : ~Right(S)}
<1>6. Wrong = {}
  <2> SUFFICES ASSUME Wrong # {} PROVE FALSE
    OBVIOUS
  <2>1. PICK S \in Wrong : \A x \in S : S \ {x} \notin Wrong
    <3>1. Wrong \in SUBSET SUBSET D
      OBVIOUS
    <3> HIDE DEF Wrong
    <3> QED
      BY <3>1, LeastSet
  <2>2. S \in SUBSET D /\ ~Right(S)
    BY <2>1
  <2>3. S # {}
    <3> SUFFICES ASSUME S = {} PROVE FALSE
      OBVIOUS
    <3>1. g[S] = 0 /\ e[S] = 0 /\ k \notin S
      BY <1>4, <1>5
    <3> QED
      BY <2>2, <3>1
  <2> DEFINE x == First(S)
             T == S \ {x}
  <2>4. x \in S /\ g[S] = f[x] + g[T] /\ e[S] = h[x] + e[T]
    BY <1>4, <1>5, <2>2, <2>3
  <2> HIDE DEF x
  <2>5. Right(T)
    <3>1. T \in SUBSET D /\ T \notin Wrong
      BY <2>1, <2>2, <2>4
    <3> HIDE DEF T, Right
    <3> QED
      BY <3>1
  <2>6. f[x] \in Nat /\ h[x] = IF x = k THEN f[x] + n ELSE f[x]
    BY <2>2, <2>4
  <2>7. k \in T <=> k \in S /\ k # x
    OBVIOUS
  <2>8. /\ g[T] \in Nat /\ e[T] = g[T] + (IF k \in T THEN n ELSE 0)
        /\ ~(g[S] \in Nat /\ e[S] = g[S] + (IF k \in S THEN n ELSE 0))
    BY <2>2, <2>5
  <2> HIDE DEF T, Right, Wrong
  <2> QED
    BY ONLY <2>4, <2>6, <2>7, <2>8, n \in Nat, SMTT(30)
<1>7. Right(D)
  <2>1. D \in SUBSET D
    OBVIOUS
  <2> HIDE DEF Right
  <2> QED
    BY <1>6, <2>1
<1> QED
  BY <1>2, <1>3, <1>7

\* A sum of zeroes is zero.
LEMMA SumOfZeroes ==
    ASSUME NEW D, IsFiniteSet(D), NEW f, f = [k \in D |-> 0]
    PROVE  Total(f) = 0
<1>1. DOMAIN f = D
  OBVIOUS
<1>2. PICK g : Sums(f, g) /\ Total(f) = g[D]
  BY <1>1, TotalUnfolds
<1> DEFINE Wrong == {S \in SUBSET D : g[S] # 0}
<1>3. Wrong = {}
  <2> SUFFICES ASSUME Wrong # {} PROVE FALSE
    OBVIOUS
  <2>1. PICK S \in Wrong : \A x \in S : S \ {x} \notin Wrong
    <3>1. Wrong \in SUBSET SUBSET D
      OBVIOUS
    <3> HIDE DEF Wrong
    <3> QED
      BY <3>1, LeastSet
  <2>2. S \in SUBSET D /\ g[S] # 0
    BY <2>1
  <2>3. First(S) \in S /\ g[S] = f[First(S)] + g[S \ {First(S)}]
    BY <1>1, <1>2, <2>2, SumStep
  <2>4. g[S \ {First(S)}] = 0
    BY <2>1, <2>2, <2>3
  <2> QED
    BY <2>2, <2>3, <2>4
<1>4. D \in SUBSET D
  OBVIOUS
<1> QED
  BY <1>2, <1>3, <1>4

-----------------------------------------------------------------------------
(* The ledger.                                                             *)

\* What attempt n of task t has been charged for: nothing while it runs, then what
\* its child used.
Charged(t, n) ==
    IF task[t].status = "running" /\ n = task[t].attempts THEN 0 ELSE Measured(kids[t][n].usage)
Charges == [k \in Kids |-> Charged(k[1], k[2])]

\* A flow that has given up on none of its tasks.
Hopeful ==
    /\ flow.status \notin {"failed", "cancelled"}
    /\ \A t \in Tasks : task[t].status \in {"pending", "running", "succeeded"}

\* Until a flow gives up, its ledger is the sum of what its attempts were charged for.
LedgerOK == Hopeful => tokens = Total(Charges)

LEMMA KidsFinite == IsFiniteSet(Kids)
<1> DEFINE F == [t \in Tasks |-> {t} \X Attempts(t)]
           S == {F[t] : t \in Tasks}
<1>1. IsFiniteSet(Tasks) /\ \A t \in Tasks : AttemptLimit[t] \in Int
  BY Constants, GraphAssumption DEF GraphAssumption
<1>2. F \in Surjection(Tasks, S)
  BY DEF Surjection
<1>3. IsFiniteSet(S)
  <2> HIDE DEF F, S
  <2> QED
    BY <1>1, <1>2, FS_Surjection
<1>4. \A T \in S : IsFiniteSet(T)
  <2> SUFFICES ASSUME NEW t \in Tasks PROVE IsFiniteSet({t} \X Attempts(t))
    OBVIOUS
  <2>1. IsFiniteSet({t})
    BY FS_Singleton
  <2>2. IsFiniteSet(Attempts(t))
    <3>1. AttemptLimit[t] \in Int /\ 1 \in Int
      BY <1>1
    <3>2. IsFiniteSet(1..AttemptLimit[t])
      BY <3>1, FS_Interval
    <3> QED
      BY <3>2 DEF Attempts
  <2> QED
    BY <2>1, <2>2, FS_Product
<1>5. IsFiniteSet(UNION S)
  <2> HIDE DEF S
  <2> QED
    BY <1>3, <1>4, FS_UNION
<1>6. S = {{t} \X Attempts(t) : t \in Tasks}
  OBVIOUS
<1> QED
  BY <1>5, <1>6 DEF Kids

LEMMA EachKid ==
    /\ \A t \in Tasks : \A n \in 1..AttemptLimit[t] : <<t, n>> \in Kids
    /\ \A k \in Kids : k[1] \in Tasks /\ k[2] \in 1..AttemptLimit[k[1]] /\ k = <<k[1], k[2]>>
  BY DEF Kids, Attempts

\* Usage that is measured is a number.
LEMMA ChargesTyped ==
    ASSUME IInv
    PROVE  Charges \in [Kids -> Nat]
<1>1. ASSUME NEW t \in Tasks, NEW n \in 1..AttemptLimit[t]
      PROVE  Charged(t, n) \in Nat
  <2>1. kids[t][n].usage \in MaybeUsage
    BY DEF IInv, KidsOK, Child
  <2> QED
    BY <2>1 DEF Charged, Measured, MaybeUsage
<1> QED
  BY <1>1, EachKid DEF Charges

\* A step that settles no attempt of a task leaves its charges as they are.
LEMMA ChargesStay ==
    ASSUME IInv, Metered, AccountInv, [Next]_vars, NEW t \in Tasks, Hopeful, Hopeful',
           ~Settles(t), NEW n \in 1..AttemptLimit[t]
    PROVE  Charged(t, n)' = Charged(t, n)
<1> DEFINE a == task[t].attempts
<1>1. /\ task \in [Tasks -> TaskRecord] /\ task[t] \in TaskRecord /\ KidsOK
      /\ AccountOK(t) /\ AsksOK(t)
  BY DEF IInv, TypeOK, AccountInv
<1>2. ASSUME task'[t].status = task[t].status, task'[t].attempts = a,
             kids'[t][n] = kids[t][n] \/ (n = a /\ task[t].status = "running")
      PROVE  Charged(t, n)' = Charged(t, n)
  BY <1>2 DEF Charged
<1>3. ASSUME UNCHANGED kids \/ \E k : SetKid(t, k)
      PROVE  kids'[t][n] = kids[t][n] \/ n = a
  BY <1>1, <1>3 DEF SetKid, KidsOK
<1>4. CASE ExecStep(t) \/ ExecTimeout(t)
  <2>1. task'[t].status = task[t].status /\ task'[t].attempts = a
    BY <1>4, AttemptFrame DEF TaskStep
  <2>2. UNCHANGED kids \/ \E k : SetKid(t, k)
    BY <1>4 DEF ExecStep, ExecProgress, ExecTimeout, ExecSpawn, ExecAdmitted, ExecObserve,
       ExecFails, ExecMisses, ExecCleanup, ExecReturn, SettleUnlistable, SettleAbsent,
       SettleTerminal, SettleRunning, ExecReport, LocalReturn, CleanUp
  <2>3. exec[t].pc # "none"
    BY <1>4 DEF ExecStep, ExecProgress, ExecTimeout, ExecSpawn, ExecAdmitted, ExecObserve,
       ExecFails, ExecMisses, ExecCleanup, ExecReturn, SettleUnlistable, SettleAbsent,
       SettleTerminal, SettleRunning, ExecReport, LocalReturn
  <2>4. task[t].status = "running"
    BY <2>3 DEF IInv, LiveOK
  <2> QED
    BY <1>2, <1>3, <2>1, <2>2, <2>4
<1>5. CASE HostStep(t) \/ BackoffEnds(t)
  <2>1. /\ task'[t].status = task[t].status /\ task'[t].attempts = a
        /\ \/ kids'[t][n] = kids[t][n]
           \/ n = a /\ task[t].status \notin {"pending", "succeeded"}
    BY <1>1, <1>5, HostKids
  <2> QED
    BY <1>2, <2>1 DEF Hopeful
<1>6. CASE RecoverLocal(t)
  <2>1. UNCHANGED kids /\ kids[t][n].usage = NoUsage
    BY <1>1, <1>6 DEF RecoverLocal, AccountOK, TableOK
  <2> QED
    BY <2>1 DEF Charged, Measured
<1>7. CASE RecoverStep(t) /\ ~RecoverLocal(t)
  <2>1. task[t].status = "running"
    BY <1>7 DEF RecoverStep, RecoverCompleted, RecoverUnlistable, RecoverAbsent, RecoverTerminal,
       RecoverRunning, ToRecover, Recovering, IsFirst, Running
  <2>2. UNCHANGED kids \/ \E k : SetKid(t, k)
    BY <1>7 DEF RecoverStep, RecoverCompleted, RecoverUnlistable, RecoverAbsent, RecoverTerminal,
       RecoverRunning, CleanUp
  <2>3. UNCHANGED task \/ \E known, child, usage, settled : Notify(t, known, child, usage, settled)
    BY <1>7 DEF RecoverStep, RecoverCompleted, RecoverUnlistable, RecoverAbsent, RecoverTerminal,
       RecoverRunning
  <2>4. task'[t].status = task[t].status /\ task'[t].attempts = a
    BY <2>3, NotifyFields
  <2> QED
    BY <1>2, <1>3, <2>1, <2>2, <2>4
<1>8. CASE Launch(t)
  <2>1. /\ UNCHANGED kids /\ task[t].status = "pending"
        /\ task'[t].status = "running" /\ task'[t].attempts = a + 1
    BY <1>1, <1>8 DEF Launch, Visiting, Reached, Upcoming, Eligible, Pending, NewTask
  <2>2. CASE n = a + 1
    <3>1. n > a
      BY <1>1, <2>2 DEF TaskRecord
    <3>2. kids[t][n].usage = NoUsage
      BY <1>1, <3>1 DEF AsksOK, AccountOK, TableOK
    <3> QED
      BY <2>1, <2>2, <3>2 DEF Charged, Measured
  <2>3. CASE n # a + 1
    BY <2>1, <2>3 DEF Charged
  <2> QED
    BY <2>2, <2>3
<1>9. CASE ~TaskStep(t) /\ ~RecoverStep(t) /\ ~Launch(t)
  <2>1. kids'[t] = kids[t]
    BY <1>9, OthersTellNothing
  <2>2. CASE task'[t] = task[t]
    BY <2>1, <2>2 DEF Charged
  <2>3. CASE task'[t] # task[t]
    <3>1. task'[t].status \notin {"running", "pending", "succeeded"}
      BY <1>9, <2>3, OthersEndAttempts
    <3> QED
      BY <3>1 DEF Hopeful
  <2> QED
    BY <2>2, <2>3
<1> QED
  BY <1>4, <1>5, <1>6, <1>7, <1>8, <1>9 DEF TaskStep

\* Nobody takes a flow or a task back that was given up.
LEMMA HopefulBefore ==
    ASSUME IInv, [Next]_vars, Hopeful'
    PROVE  Hopeful
<1>1. flow.status \notin {"failed", "cancelled"}
  BY EndStays DEF Hopeful, vars, ledger, TerminalFlow
<1>2. ASSUME NEW t \in Tasks
      PROVE  task[t].status \in {"pending", "running", "succeeded"}
  <2>1. task'[t].status \in {"pending", "running", "succeeded"}
    BY DEF Hopeful
  <2>2. CASE TaskStep(t)
    BY <2>1, <2>2, AttemptFrame
  <2>3. CASE RecoverStep(t)
    BY <2>3 DEF RecoverStep, RecoverLocal, RecoverCompleted, RecoverUnlistable, RecoverAbsent,
       RecoverTerminal, RecoverRunning, ToRecover, Recovering, IsFirst, Running
  <2>4. CASE Launch(t)
    BY <2>4 DEF Launch, Visiting, Reached, Upcoming, Eligible, Pending
  <2>5. CASE ~TaskStep(t) /\ ~RecoverStep(t) /\ ~Launch(t)
    <3>1. task'[t] = task[t] \/ Settles(t)
      BY <2>1, <2>5, OthersEndAttempts
    <3>2. Settles(t) => task[t].status = "running"
      BY DEF Settles, ApplySuccess, ApplyFailure, Applying, IsFirst, RecoveredOutputs,
         RecoveredFailure, IInv, LiveOK, FocusOK
    <3> QED
      BY <2>1, <3>1, <3>2
  <2> QED
    BY <2>2, <2>3, <2>4, <2>5
<1> QED
  BY <1>1, <1>2 DEF Hopeful

\* A flow that is not given up only has its ledger changed by a settlement.
LEMMA WhoCharges ==
    ASSUME IInv, [Next]_vars, Hopeful'
    PROVE  UNCHANGED tokens \/ \E t \in Tasks : Settles(t)
<1>1. CASE UNCHANGED tokens
  BY <1>1
<1>2. CASE \E u \in Tasks : TaskStep(u)
  BY <1>2, AttemptFrame DEF ledger
<1>3. CASE \E u \in Tasks : ApplySuccess(u) \/ ApplyFailure(u)
  BY <1>3 DEF Settles
<1>4. CASE SettleCancel \/ FailBudget
  <2>1. flow'.status \in {"failed", "cancelled"}
    BY <1>4 DEF SettleCancel, FailBudget, IInv, TypeOK
  <2> QED
    BY <2>1 DEF Hopeful
<1>5. CASE RecoveredUnsettled
  <2>1. focus \in Tasks /\ Settle("failed", "no", 1, TRUE)
    BY <1>5 DEF RecoveredUnsettled, IInv, FocusOK
  <2>2. task'[focus].status = "failed"
    BY <2>1 DEF Settle, IInv, TypeOK, TaskRecord
  <2> QED
    BY <2>1, <2>2 DEF Hopeful
<1>6. CASE RecoveredOutputs \/ RecoveredFailure
  BY <1>6 DEF Settles, RecoveredOutputs, RecoveredFailure, IInv, FocusOK
<1> QED
  BY <1>1, <1>2, <1>3, <1>4, <1>5, <1>6
  DEF Next, CallerStep, AddTask, Run, RequestCancel, Load, CancelIdle, Enter, WallExpires, Crash,
      DriveStep, TopOfLoop, StartCancel, CommitManifest, CommitFails, Raise, StartFailBudget,
      FailExhausted, BlockWithoutInputs, Launch, BlockImpossible, Stall,
      BlockConflict, StartLaunching, Finish, EndLaunching, WaitOrSleep, RunRaises,
      RecoveryStep, RecoverStep, RecoverLocal, RecoverCompleted, RecoverUnlistable, RecoverAbsent,
      RecoverTerminal, RecoverRunning, Outcome, Recommit, RecommitFails, EndRecovery, MarkCancelled,
      ledger, vars

LEMMA LedgerKeeps ==
    ASSUME IInv, Metered, AccountInv, LedgerOK, [Next]_vars
    PROVE  LedgerOK'
<1> SUFFICES ASSUME Hopeful' PROVE tokens' = Total(Charges')
  BY DEF LedgerOK
<1>1. Hopeful /\ tokens = Total(Charges) /\ Charges \in [Kids -> Nat] /\ IsFiniteSet(Kids)
  BY HopefulBefore, ChargesTyped, KidsFinite DEF LedgerOK
<1>2. \A k \in Kids : k[1] \in Tasks /\ k[2] \in 1..AttemptLimit[k[1]]
  BY EachKid
<1>3. CASE ~ \E t \in Tasks : Settles(t)
  <2>1. \A k \in Kids : Charged(k[1], k[2])' = Charged(k[1], k[2])
    BY <1>1, <1>2, <1>3, ChargesStay
  <2>2. Charges' = Charges
    BY <2>1 DEF Charges
  <2> QED
    BY <1>1, <1>3, <2>2, WhoCharges
<1>4. ASSUME NEW t \in Tasks, Settles(t)
      PROVE  tokens' = Total(Charges')
  <2>1. /\ task[t].status = "running" /\ task'[t].status # "running"
        /\ UNCHANGED kids /\ tokens' = tokens + Measured(Kid(t).usage)
        /\ \A u \in Tasks : u # t => task'[u] = task[u]
    BY <1>4, SettlingCharges DEF Hopeful
  <2>2. PICK k : k = <<t, task[t].attempts>>
    OBVIOUS
  <2>3. PICK n : n = Measured(Kid(t).usage)
    OBVIOUS
  <2>4. k \in Kids /\ Charges[k] = 0 /\ n \in Nat
    <3>1. task[t].attempts \in 1..AttemptLimit[t] /\ Kid(t) \in Child
      BY <2>1, CurrentAttempt, KidTyped
    <3>2. k \in Kids
      BY <2>2, <3>1, EachKid
    <3>3. Charges[k] = 0
      BY <2>1, <2>2, <3>2 DEF Charges, Charged
    <3> QED
      BY <2>3, <3>1, <3>2, <3>3 DEF Child, Measured, MaybeUsage
  <2>5. ASSUME NEW j \in Kids
        PROVE  Charged(j[1], j[2])' = IF j = k THEN n ELSE Charged(j[1], j[2])
    <3>1. CASE j[1] # t
      BY <1>2, <2>1, <2>2, <3>1 DEF Charged
    <3>2. CASE j[1] = t
      <4>1. Charged(t, j[2])' = Measured(kids[t][j[2]].usage)
        BY <2>1 DEF Charged
      <4>2. CASE j[2] = task[t].attempts
        <5>1. j = k
          BY <2>2, <3>2, <4>2, EachKid
        <5> QED
          BY <2>3, <3>2, <4>1, <4>2, <5>1 DEF Kid
      <4>3. CASE j[2] # task[t].attempts
        BY <2>2, <3>2, <4>1, <4>3 DEF Charged
      <4> QED
        BY <4>2, <4>3
    <3> QED
      BY <3>1, <3>2
  <2>6. Charges' = [Charges EXCEPT ![k] = Charges[k] + n]
    <3>1. Charges[k] + n = n
      BY <2>4
    <3>2. \A j \in Kids : Charges'[j] = IF j = k THEN n ELSE Charges[j]
      BY <2>5 DEF Charges
    <3>3. Charges' = [j \in Kids |-> IF j = k THEN n ELSE Charges[j]]
      BY <3>2 DEF Charges
    <3> DEFINE f == Charges
    <3>4. f = [j \in Kids |-> f[j]]
      BY DEF Charges
    <3> HIDE DEF f
    <3>5. f[k] + n = n
      BY <3>1 DEF f
    <3>6. [f EXCEPT ![k] = f[k] + n] = [j \in Kids |-> IF j = k THEN n ELSE f[j]]
      BY ONLY <3>4, <3>5
    <3> QED
      BY ONLY <3>3, <3>6 DEF f
  <2>7. Total(Charges') = Total(Charges) + n
    <3>1. PICK f, h : f = Charges /\ h = Charges'
      OBVIOUS
    <3>2. /\ IsFiniteSet(Kids) /\ f \in [Kids -> Nat] /\ k \in Kids /\ n \in Nat
          /\ h = [f EXCEPT ![k] = f[k] + n]
      BY <1>1, <2>4, <2>6, <3>1
    <3>3. Total(h) = Total(f) + n
      BY ONLY <3>2, SumAdds, ZenonT(30)
    <3> QED
      BY <3>1, <3>3
  <2> QED
    BY <1>1, <2>1, <2>3, <2>7
<1> QED
  BY <1>3, <1>4

LEMMA LedgerInvariance ==
    ASSUME Metered
    PROVE  Spec => [](IInv /\ AttemptInv /\ AccountInv /\ LedgerOK)
<1>1. Init => LedgerOK
  <2> SUFFICES ASSUME Init PROVE tokens = Total(Charges)
    BY DEF LedgerOK
  <2>1. \A k \in Kids : Charged(k[1], k[2]) = 0
    <3> SUFFICES ASSUME NEW k \in Kids PROVE Measured(kids[k[1]][k[2]].usage) = 0
      BY DEF Charged
    <3>1. k[1] \in Tasks /\ k[2] \in 1..AttemptLimit[k[1]]
      BY EachKid
    <3> QED
      BY <3>1 DEF Init, NoChild, Measured
  <2>2. Charges = [k \in Kids |-> 0]
    BY <2>1 DEF Charges
  <2> QED
    BY <2>2, KidsFinite, SumOfZeroes DEF Init
<1> QED
  BY <1>1, LedgerKeeps, AccountInvariance, PTL DEF Spec

\* With a token budget, a flow that has succeeded was charged once for every child
\* it ever had, retried, timed out, recovered after a crash or never heard of again,
\* with what that child used, however late the host admits it: as long as nobody but the
\* runtime deletes a child.
THEOREM LedgerIsComplete ==
    ASSUME "vanish" \notin Faults
    PROVE  Spec => []TokensLedger
<1>1. CASE RequireUsage
  <2>1. Metered
    BY <1>1 DEF Metered
  <2>2. IInv /\ CommitOK /\ LedgerOK => TokensLedger
    <3> SUFFICES ASSUME IInv, CommitOK, LedgerOK, flow.status = "succeeded"
                 PROVE  tokens = Total(Reported)
      BY DEF TokensLedger
    <3>1. \A t \in Tasks : task[t].status \in {"pending", "succeeded"}
      BY DEF IInv, GraphOK, CommitOK
    <3>2. Hopeful
      BY <3>1 DEF Hopeful
    <3>3. \A k \in Kids : Charged(k[1], k[2]) = Measured(kids[k[1]][k[2]].usage)
      BY <3>1, EachKid DEF Charged
    <3>4. Charges = Reported
      BY <3>3 DEF Charges, Reported
    <3> QED
      BY <3>2, <3>4 DEF LedgerOK
  <2> QED
    BY <2>1, <2>2, LedgerInvariance, CommitInvariance, PTL
<1>2. CASE ~RequireUsage
  <2>1. TokensLedger
    BY <1>2 DEF TokensLedger
  <2> QED
    BY <2>1, PTL
<1> QED
  BY <1>1, <1>2

-----------------------------------------------------------------------------
(* Blocked tasks.                                                          *)

\* The launch loop has looked at nothing yet, and if nothing is live the budget
\* leaves room for an attempt.
LaunchOK ==
    drive = "launch" /\ ~launched =>
        /\ cursor = 1
        /\ Live = {} /\ Pending # {} => flow.attempts < BudgetAttempts

\* When nothing is live and the loop has launched nothing, nothing was ready.
RestOK ==
    drive = "rest" /\ ~launched /\ Live = {} =>
        \A t \in Pending : ~DependencyReady(t, Status)

\* Without backoff no task is ever kept waiting; tasks join behind what they require.
StallInv ==
    /\ \A t \in Tasks : ~task[t].delayed
    /\ \A t \in graph : Requires[t] \subseteq graph
    /\ LaunchOK /\ RestOK

\* Attempts and the host neither start nor drop a coroutine.
LEMMA LiveStays ==
    ASSUME IInv, NEW u \in Tasks, TaskStep(u)
    PROVE  Live' = Live /\ Pending' = Pending /\ Status' = Status
<1>1. /\ \A t \in Tasks : t # u => exec'[t] = exec[t]
      /\ \A t \in Tasks : task'[t].status = task[t].status
      /\ graph' = graph /\ graph \subseteq Tasks
  BY AttemptFrame DEF ledger, IInv, TypeOK
<1>2. exec'[u].pc = "none" <=> exec[u].pc = "none"
  <2>1. exec[u].pc # "none" \/ exec' = exec
    BY DEF TaskStep, ExecStep, ExecProgress, ExecTimeout, ExecSpawn, ExecAdmitted, ExecObserve,
       ExecFails, ExecMisses, ExecCleanup, ExecReturn, SettleUnlistable, SettleAbsent,
       SettleTerminal, SettleRunning, ExecReport, LocalReturn, HostStep, HostAdmits, ChildEnds,
       ChildVanishes, HostIdle, BackoffEnds
  <2> QED
    BY <2>1, AttemptLives
<1>3. \A t \in Tasks : exec'[t].pc = "none" <=> exec[t].pc = "none"
  BY <1>1, <1>2
<1>4. Live' = Live
  BY <1>3 DEF Live
<1>5. Pending' = Pending
  BY <1>1 DEF Pending
<1> QED
  BY <1>1, <1>4, <1>5 DEF Status

\* Only a failure that is retried with a backoff makes a task wait.
LEMMA WhoDelays ==
    ASSUME IInv, [Next]_vars, NEW t \in Tasks, task'[t].delayed
    PROVE  task[t].delayed \/ t \in Backoff
<1>1. task \in [Tasks -> TaskRecord] /\ \A u \in Tasks : task[u] \in TaskRecord
  BY DEF IInv, TypeOK
<1>2. CASE UNCHANGED task
  BY <1>2
<1>3. CASE \E u \in Tasks : BackoffEnds(u)
  BY <1>1, <1>3 DEF BackoffEnds, TaskRecord
<1>4. CASE \E u \in Tasks : \E known, child, usage, settled : Notify(u, known, child, usage, settled)
  BY <1>1, <1>4 DEF Notify, TaskRecord
<1>5. CASE \E u \in Tasks : ApplySuccess(u) \/ ApplyFailure(u)
  BY <1>1, <1>5 DEF ApplySuccess, ApplyFailure, TaskRecord
<1>6. CASE BlockImpossible \/ Stall
  <2>1. task'[t] \in {task[t], [task[t] EXCEPT !.status = "blocked"],
                      [task[t] EXCEPT !.status = "blocked", !.delayed = FALSE]}
    BY <1>6 DEF BlockImpossible, Stall
  <2> QED
    BY <1>1, <2>1 DEF TaskRecord
<1>7. CASE \E st : Close(st)
  BY <1>1, <1>7, Closed DEF TaskRecord
<1>8. CASE MarkCancelled
  <2>1. task'[t] \in {task[t], [task[t] EXCEPT !.status = "cancelled"]}
    BY <1>8 DEF MarkCancelled
  <2> QED
    BY <1>1, <2>1 DEF TaskRecord
<1>9. CASE \E u \in Tasks : FailExhausted(u) \/ BlockWithoutInputs(u)
  BY <1>1, <1>9 DEF FailExhausted, BlockWithoutInputs, TaskRecord
<1>10. CASE \E u \in Tasks : Launch(u)
  BY <1>1, <1>10 DEF Launch, NewTask
<1>11. CASE \E u \in Tasks : RecoverLocal(u)
  BY <1>1, <1>11 DEF RecoverLocal, TaskRecord
<1>12. CASE RecoveredUnsettled \/ RecoveredOutputs \/ RecoveredFailure
  <2>1. focus \in Tasks
    BY <1>12 DEF RecoveredUnsettled, RecoveredOutputs, RecoveredFailure, IInv, FocusOK
  <2>2. \E status, settled, failures, failClosed : Settle(status, settled, failures, failClosed)
    BY <1>12 DEF RecoveredUnsettled, RecoveredOutputs, RecoveredFailure
  <2> QED
    BY <1>1, <2>1, <2>2 DEF Settle, TaskRecord
<1>13. CASE \E u \in Tasks : TaskStep(u)
  <2>1. PICK u \in Tasks : TaskStep(u)
    BY <1>13
  <2>2. CASE ExecTimeout(u) \/ HostStep(u)
    BY <1>2, <2>2 DEF ExecTimeout, HostStep, HostAdmits, ChildEnds, ChildVanishes, HostIdle
  <2>3. CASE ExecStep(u)
    <3>1. \/ UNCHANGED task
          \/ \E known, child, usage, settled : Notify(u, known, child, usage, settled)
      BY <2>3 DEF ExecStep, ExecProgress, ExecSpawn, ExecAdmitted, ExecObserve, ExecFails,
         ExecMisses, ExecCleanup, ExecReturn, SettleUnlistable, SettleAbsent, SettleTerminal,
         SettleRunning, ExecReport, LocalReturn
    <3> QED
      BY <1>2, <1>4, <3>1
  <2> QED
    BY <1>3, <2>1, <2>2, <2>3 DEF TaskStep
<1>14. CASE \E u \in Tasks : RecoverStep(u)
  BY <1>2, <1>4, <1>11, <1>14 DEF RecoverStep, RecoverCompleted, RecoverUnlistable, RecoverAbsent,
     RecoverTerminal, RecoverRunning
<1>15. CASE SettleCancel \/ FailBudget \/ EndRecovery
  BY <1>2, <1>7, <1>15 DEF SettleCancel, FailBudget, EndRecovery
<1> QED
  BY <1>2, <1>5, <1>6, <1>8, <1>9, <1>10, <1>12, <1>13, <1>14, <1>15
  DEF Next, CallerStep, AddTask, Run, RequestCancel, Load, CancelIdle, Enter, WallExpires, Crash,
      DriveStep, TopOfLoop, StartCancel, CommitManifest, CommitFails, Raise, StartFailBudget,
      BlockConflict, StartLaunching, Finish, EndLaunching, WaitOrSleep, RunRaises,
      RecoveryStep, Recommit, RecommitFails, ledger, vars

\* Of the steps that leave a run in its launch loop, or at the end of it, with
\* nothing launched, these are the ones that change anything of it.
LEMMA WhoLaunches ==
    ASSUME IInv, [Next]_vars, drive' \in {"launch", "rest"}, ~launched'
    PROVE  \/ BlockImpossible \/ StartLaunching \/ EndLaunching
           \/ /\ UNCHANGED <<drive, launched, cursor, flow>>
              /\ Live' = Live /\ Pending' = Pending /\ Status' = Status
<1>1. CASE UNCHANGED <<graph, task, exec, drive, launched, cursor, flow>>
  BY <1>1 DEF Live, Pending, Status
<1>2. CASE \E u \in Tasks : TaskStep(u)
  BY <1>2, LiveStays, AttemptFrame DEF ledger, loop
<1>3. CASE CallerStep \/ WallExpires \/ Crash
  BY <1>1, <1>3 DEF CallerStep, AddTask, Run, RequestCancel, Load, CancelIdle, Enter, WallExpires,
     Crash, DriveEnds, ledger, loop
<1>4. CASE DriveStep
  BY <1>4 DEF DriveStep, TopOfLoop, StartCancel, CommitManifest, CommitFails, Raise,
     StartFailBudget, ApplySuccess, ApplyFailure, Applying, Stall, SettleCancel, FailBudget,
     FailExhausted, BlockWithoutInputs, Launch, Visiting, BlockConflict, Finish, WaitOrSleep,
     RunRaises, DriveEnds
<1>5. CASE RecoveryStep
  BY <1>5 DEF RecoveryStep, RecoverStep, RecoverLocal, RecoverCompleted, RecoverUnlistable,
     RecoverAbsent, RecoverTerminal, RecoverRunning, ToRecover, Recovering, Outcome,
     RecoveredUnsettled, RecoveredOutputs, RecoveredFailure, Recommit, RecommitFails,
     EndRecovery, MarkCancelled, Leave
<1> QED
  BY <1>1, <1>2, <1>3, <1>4, <1>5 DEF Next, vars, ledger, loop

\* A launch loop that ends with nothing launched and nothing live found no task ready.
LEMMA NothingReady ==
    ASSUME IInv, StallInv, EndLaunching, ~launched, Live = {}, NEW t \in Pending
    PROVE  ~DependencyReady(t, Status)
<1>1. drive = "launch" /\ cursor = 1 /\ flow.attempts < BudgetAttempts /\ t \in Tasks
  BY DEF EndLaunching, StallInv, LaunchOK, IInv, TypeOK, Pending
<1>2. flow.attempts \in Nat /\ BudgetAttempts \in Nat /\ MaxParallel \in Nat \ {0}
  BY RuntimeAssumption DEF RuntimeAssumption, IInv, TypeOK
<1>3. Cardinality(Live) = 0
  BY FS_EmptySet
<1>4. Upcoming = {}
  BY <1>1, <1>2, <1>3 DEF EndLaunching
<1>5. PICK i \in DOMAIN Order : Order[i] = t /\ i \in Nat /\ i >= 1
  <2>1. PICK i \in DOMAIN Order : Order[i] = t
    BY <1>1, GraphAssumption DEF GraphAssumption
  <2>2. i \in 1..Len(Order) /\ Len(Order) \in Nat
    BY <2>1, GraphAssumption DEF GraphAssumption
  <2> QED
    BY <2>1, <2>2
<1>6. ~Eligible(t)
  BY <1>1, <1>4, <1>5 DEF Upcoming
<1>7. ~task[t].delayed
  BY <1>1 DEF StallInv
<1>8. Resources[t] \cap BusyResources = {}
  BY DEF BusyResources
<1> QED
  BY <1>6, <1>7, <1>8 DEF Eligible

\* Without backoff, the invariant of the launch loop is kept by every step.
LEMMA StallKeeps ==
    ASSUME Backoff = {}, IInv, StallInv, [Next]_vars
    PROVE  StallInv'
<1>1. /\ graph \subseteq Tasks /\ graph' \subseteq Tasks
      /\ flow \in [status : FlowStatuses, attempts : Nat, failures : Nat]
  BY StepPreserves DEF IInv, TypeOK
<1>2. \A t \in Tasks : ~task'[t].delayed
  BY WhoDelays DEF StallInv
<1>3. \A t \in graph' : Requires'[t] \subseteq graph'
  BY GraphGrows DEF AddTask, StallInv
<1>4. ASSUME drive' = "launch", ~launched'
      PROVE  /\ cursor' = 1
             /\ Live' = {} /\ Pending' # {} => flow'.attempts < BudgetAttempts
  <2>1. CASE UNCHANGED <<drive, launched, cursor, flow>> /\ Live' = Live /\ Pending' = Pending
    BY <1>4, <2>1 DEF StallInv, LaunchOK
  <2>2. CASE BlockImpossible \/ StartLaunching
    <3>1. /\ cursor' = 1 /\ Live' = Live /\ flow' = flow /\ ~BudgetExceeded
          /\ Pending' # {} => ~AllTerminal
      <4>1. /\ cursor' = 1 /\ exec' = exec /\ flow' = flow /\ ~BudgetExceeded /\ graph' = graph
        BY <2>2 DEF BlockImpossible, StartLaunching, ledger
      <4>2. CASE BlockImpossible
        BY <4>1, <4>2 DEF BlockImpossible, Live, Impossible, Pending, AllTerminal, Nonterminal,
           TerminalTask
      <4>3. CASE StartLaunching
        BY <4>1, <4>3 DEF StartLaunching, Live
      <4> QED
        BY <2>2, <4>2, <4>3
    <3>2. flow.attempts \in Nat /\ BudgetAttempts \in Nat
      BY <1>1, Constants
    <3> QED
      BY <3>1, <3>2 DEF BudgetExceeded
  <2>3. CASE EndLaunching
    BY <1>4, <2>3 DEF EndLaunching
  <2> QED
    BY <1>4, <2>1, <2>2, <2>3, WhoLaunches
<1>5. ASSUME drive' = "rest", ~launched', Live' = {}, NEW t \in Pending'
      PROVE  ~DependencyReady(t, Status')
  <2>1. CASE /\ UNCHANGED <<drive, launched>>
             /\ Live' = Live /\ Pending' = Pending /\ Status' = Status
    BY <1>5, <2>1 DEF StallInv, RestOK
  <2>2. CASE BlockImpossible \/ StartLaunching
    BY <1>5, <2>2 DEF BlockImpossible, StartLaunching
  <2>3. CASE EndLaunching
    <3>1. UNCHANGED <<graph, task, exec, launched>>
      BY <2>3 DEF EndLaunching, ledger
    <3>2. Live' = Live /\ Pending' = Pending /\ Status' = Status
      BY <3>1 DEF Live, Pending, Status
    <3> QED
      BY <1>5, <2>3, <3>1, <3>2, NothingReady
  <2> QED
    BY <1>5, <2>1, <2>2, <2>3, WhoLaunches
<1>6. LaunchOK'
  BY <1>4 DEF LaunchOK
<1>7. RestOK'
  BY <1>5 DEF RestOK, DependencyReady, Succeeded
<1> QED
  BY <1>2, <1>3, <1>6, <1>7 DEF StallInv

\* Only these steps block a task.
LEMMA WhoBlocks ==
    ASSUME IInv, [Next]_vars, NEW t \in Tasks, task[t].status # "blocked",
           task'[t].status = "blocked"
    PROVE  \/ BlockImpossible /\ t \in Impossible
           \/ Stall /\ t \in Pending
           \/ BlockWithoutInputs(t)
<1>1. task \in [Tasks -> TaskRecord] /\ \A u \in Tasks : task[u] \in TaskRecord
  BY DEF IInv, TypeOK
<1>2. ~UNCHANGED task
  OBVIOUS
<1>3. ~\E u \in Tasks : TaskStep(u)
  BY ExecutorKeeps
<1>4. ~\E u \in Tasks : ApplySuccess(u) \/ ApplyFailure(u)
  <2>1. ASSUME NEW u \in Tasks, ApplySuccess(u) PROVE FALSE
    BY <1>1, <2>1 DEF ApplySuccess, TaskRecord
  <2>2. ASSUME NEW u \in Tasks, ApplyFailure(u) PROVE FALSE
    BY <1>1, <2>2 DEF ApplyFailure, TaskRecord
  <2> QED
    BY <2>1, <2>2
<1>5. ~\E st : Close(st) /\ \A u \in Tasks : st[u] # "blocked"
  BY Closed
<1>6. ~(SettleCancel \/ FailBudget \/ EndRecovery)
  <2>1. ASSUME SettleCancel PROVE FALSE
    <3> DEFINE st == [u \in Tasks |-> IF u \in Unsettled THEN "failed" ELSE "cancelled"]
    <3>1. Close(st) /\ \A u \in Tasks : st[u] # "blocked"
      BY <2>1 DEF SettleCancel
    <3> HIDE DEF st
    <3> QED
      BY <1>5, <3>1
  <2>2. ASSUME FailBudget \/ EndRecovery PROVE FALSE
    <3> DEFINE st == [u \in Tasks |-> "failed"]
    <3>1. Close(st) \/ UNCHANGED task
      BY <2>2 DEF FailBudget, EndRecovery
    <3>2. \A u \in Tasks : st[u] # "blocked"
      OBVIOUS
    <3> HIDE DEF st
    <3> QED
      BY <1>2, <1>5, <3>1, <3>2
  <2> QED
    BY <2>1, <2>2
<1>7. ~MarkCancelled
  <2>1. MarkCancelled => task'[t] \in {task[t], [task[t] EXCEPT !.status = "cancelled"]}
    BY DEF MarkCancelled
  <2> QED
    BY <1>1, <2>1 DEF TaskRecord
<1>8. ~\E u \in Tasks : FailExhausted(u) \/ Launch(u)
  <2>1. ASSUME NEW u \in Tasks, FailExhausted(u) PROVE FALSE
    BY <1>1, <2>1 DEF FailExhausted, TaskRecord
  <2>2. ASSUME NEW u \in Tasks, Launch(u) PROVE FALSE
    BY <1>1, <2>2 DEF Launch, NewTask
  <2> QED
    BY <2>1, <2>2
<1>9. ~\E u \in Tasks : RecoverStep(u)
  <2>1. ASSUME NEW u \in Tasks, RecoverLocal(u) PROVE FALSE
    BY <1>1, <2>1 DEF RecoverLocal, TaskRecord
  <2>2. ASSUME NEW u \in Tasks, NEW known, NEW child, NEW usage, NEW settled,
               Notify(u, known, child, usage, settled)
        PROVE  FALSE
    BY <2>2, NotifyKeeps
  <2> QED
    BY <1>2, <2>1, <2>2 DEF RecoverStep, RecoverCompleted, RecoverUnlistable, RecoverAbsent,
       RecoverTerminal, RecoverRunning
<1>10. ~(RecoveredUnsettled \/ RecoveredOutputs \/ RecoveredFailure)
  <2> SUFFICES ASSUME RecoveredUnsettled \/ RecoveredOutputs \/ RecoveredFailure
               PROVE  FALSE
    OBVIOUS
  <2>1. focus \in Tasks
    BY DEF RecoveredUnsettled, RecoveredOutputs, RecoveredFailure, IInv, FocusOK
  <2>2. PICK status \in {"succeeded", "pending", "failed"}, settled \in {"no", "yes"},
             failures \in {0, 1}, failClosed \in BOOLEAN :
           Settle(status, settled, failures, failClosed)
    BY DEF RecoveredUnsettled, RecoveredOutputs, RecoveredFailure
  <2> QED
    BY <2>1, <2>2, SettleTyped DEF IInv
<1>11. \/ BlockImpossible \/ Stall
       \/ \E u \in Tasks : BlockWithoutInputs(u)
  BY <1>2, <1>3, <1>4, <1>6, <1>7, <1>8, <1>9, <1>10
  DEF Next, CallerStep, AddTask, Run, RequestCancel, Load, CancelIdle, Enter, WallExpires, Crash,
      DriveStep, TopOfLoop, StartCancel, CommitManifest, CommitFails, Raise, StartFailBudget,
      BlockConflict, StartLaunching, Finish, EndLaunching, WaitOrSleep, RunRaises,
      RecoveryStep, Recommit, RecommitFails, ledger, vars
<1> QED
  BY <1>1, <1>11 DEF BlockImpossible, Stall, BlockWithoutInputs

\* Fewer dependencies that can still succeed make no join possible.
LEMMA ImpossibleStays ==
    ASSUME NEW st, NEW st2, NEW t \in Tasks,
           Possible(t, st2) \subseteq Possible(t, st), DependencyImpossible(t, st)
    PROVE  DependencyImpossible(t, st2)
<1>1. Requires[t] \subseteq Tasks /\ IsFiniteSet(Tasks)
  BY GraphAssumption DEF GraphAssumption
<1>2. IsFiniteSet(Requires[t])
  BY <1>1, FS_Subset
<1>3. IsFiniteSet(Possible(t, st))
  BY <1>2, FS_Subset DEF Possible
<1>4. /\ IsFiniteSet(Possible(t, st2))
      /\ Cardinality(Possible(t, st2)) <= Cardinality(Possible(t, st))
  BY <1>3, FS_Subset
<1>5. Cardinality(Possible(t, st)) \in Nat /\ Cardinality(Possible(t, st2)) \in Nat
  BY <1>3, <1>4, FS_CardinalityType
<1>6. QuorumRequired(t) \in Nat
  BY <1>2, FS_CardinalityType, GraphAssumption DEF GraphAssumption, QuorumRequired, QuorumModes
<1> QED
  BY <1>4, <1>5, <1>6 DEF DependencyImpossible

\* Without backoff, a task is only ever blocked for a join that has become
\* impossible or for an input that no successful dependency has committed.
THEOREM BlocksAreJustified ==
    ASSUME Backoff = {}
    PROVE  Spec => BlockedIsJustified
<1>1. ASSUME IInv, AttemptInv, StallInv, [Next]_vars, NEW t \in Tasks,
             task[t].status # "blocked", task'[t].status = "blocked"
      PROVE  DependencyImpossible(t, Status') \/ ~InputsAvailable(t)
  <2>1. /\ Requires[t] \subseteq Tasks /\ graph \subseteq Tasks
        /\ \A u \in Tasks : task[u] \in TaskRecord
    BY <1>1, GraphAssumption DEF GraphAssumption, IInv, TypeOK
  <2>2. CASE BlockImpossible /\ t \in Impossible
    <3>1. DependencyImpossible(t, Status)
      BY <2>2 DEF Impossible
    <3>2. \A u \in Tasks : Status'[u] = Status[u] \/ Status'[u] = "blocked"
      <4> SUFFICES ASSUME NEW u \in Tasks
                   PROVE  task'[u].status = task[u].status \/ task'[u].status = "blocked"
        BY DEF Status
      <4>1. task'[u] \in {task[u], [task[u] EXCEPT !.status = "blocked", !.delayed = FALSE]}
        BY <2>2 DEF BlockImpossible
      <4> QED
        BY <2>1, <4>1 DEF TaskRecord
    <3>3. Possible(t, Status') \subseteq Possible(t, Status)
      BY <2>1, <3>2 DEF Possible
    <3> QED
      BY <3>1, <3>3, ImpossibleStays
  <2>3. CASE Stall /\ t \in Pending
    <3>1. /\ drive = "rest" /\ Live = {} /\ ~launched /\ t \in graph
          /\ \A u \in Pending : task'[u].status = "blocked"
          /\ \A u \in Tasks : u \notin Pending => task'[u] = task[u]
      <4>1. \A u \in Pending : task'[u] = [task[u] EXCEPT !.status = "blocked"]
        BY <2>1, <2>3 DEF Stall, Pending
      <4>2. \A u \in Pending : task'[u].status = "blocked"
        BY <2>1, <4>1 DEF TaskRecord, Pending
      <4> QED
        BY <2>3, <4>2 DEF Stall, Pending
    <3>2. ~DependencyReady(t, Status)
      BY <1>1, <2>3, <3>1 DEF StallInv, RestOK
    <3>3. \A u \in Tasks : task[u].status # "running"
      BY <1>1, <3>1 DEF AttemptInv, RunningOK, Driving, DrivePoints, Live
    <3>4. Requires[t] \subseteq graph
      BY <1>1, <3>1 DEF StallInv
    <3>5. Possible(t, Status') = Succeeded(t, Status)
      <4>1. \A d \in Requires[t] : task'[d].status \in {"succeeded", "pending", "running"}
                                      <=> task[d].status = "succeeded"
        BY <2>1, <3>1, <3>3, <3>4 DEF Pending
      <4> QED
        BY <2>1, <4>1 DEF Possible, Succeeded, Status
    <3>6. Cardinality(Succeeded(t, Status)) \in Nat /\ QuorumRequired(t) \in Nat
      <4>1. IsFiniteSet(Requires[t])
        BY <2>1, FS_Subset, GraphAssumption DEF GraphAssumption
      <4>2. IsFiniteSet(Succeeded(t, Status))
        BY <4>1, FS_Subset DEF Succeeded
      <4> QED
        BY <4>1, <4>2, FS_CardinalityType, GraphAssumption
        DEF GraphAssumption, QuorumRequired, QuorumModes
    <3> QED
      BY <3>2, <3>5, <3>6 DEF DependencyReady, DependencyImpossible
  <2>4. CASE BlockWithoutInputs(t)
    BY <2>4 DEF BlockWithoutInputs
  <2> QED
    BY <1>1, <2>2, <2>3, <2>4, WhoBlocks
<1>2. IInv /\ AttemptInv /\ StallInv /\ [Next]_vars =>
        [\A t \in Tasks : task[t].status # "blocked" /\ task'[t].status = "blocked" =>
            DependencyImpossible(t, Status') \/ ~InputsAvailable(t)]_vars
  BY <1>1
<1>3. Init => StallInv
  BY DEF Init, StallInv, LaunchOK, RestOK, NewTask
<1> QED
  BY <1>2, <1>3, StallKeeps, AttemptInvariance, PTL DEF Spec, BlockedIsJustified

-----------------------------------------------------------------------------
(* The contract.                                                           *)

Artifacts == {p[1] : p \in published}
Started == [t \in Tasks |-> task[t].attempts]

\* A step that changes no status, attempt or manifest is none of the caller's business.
LEMMA ContractStutters ==
    ASSUME UNCHANGED <<graph, published>>, flow'.status = flow.status,
           flow'.attempts = flow.attempts,
           \A t \in Tasks : /\ task'[t].status = task[t].status
                            /\ task'[t].attempts = task[t].attempts
    PROVE  UNCHANGED Contract!contract
  BY DEF Contract!contract, Status

\* Artifacts belong to successes.
LEMMA ArtifactsOfSuccesses ==
    ASSUME IInv, ManifestsOK
    PROVE  /\ Artifacts \subseteq SucceededTasks
           /\ SucceededTasks = Contract!Successes /\ graph \subseteq Tasks
           /\ Status \in [Tasks -> TaskStatuses]
<1>1. graph \subseteq Tasks /\ task \in [Tasks -> TaskRecord]
  BY DEF IInv, TypeOK
<1>2. \A t \in Tasks : /\ task[t].status \in TaskStatuses
                       /\ task[t].status # "pending" => t \in graph
  BY <1>1 DEF TaskRecord, IInv, GraphOK
<1>3. Status \in [Tasks -> TaskStatuses]
  BY <1>2 DEF Status
<1>4. SucceededTasks = Contract!Successes
  BY <1>1 DEF SucceededTasks, Contract!Successes, Status
<1>5. \A p \in published : p[1] \in Tasks /\ task[p[1]].status = "succeeded"
  BY DEF ManifestsOK, PublishedOnlySucceeded
<1>6. \A p \in published : p[1] \in SucceededTasks
  BY <1>2, <1>5 DEF SucceededTasks
<1> QED
  BY <1>1, <1>3, <1>4, <1>6 DEF Artifacts

\* One task gets another status, by the transition of its attempt.
LEMMA ContractEnds ==
    ASSUME IInv, NEW t \in Tasks, flow.status = "running", task[t].status = "running",
           UNCHANGED <<graph, published>>, flow'.status = flow.status,
           flow'.attempts = flow.attempts,
           \A u \in Tasks : task'[u].attempts = task[u].attempts,
           \A u \in Tasks : u # t => task'[u].status = task[u].status,
           task'[t].status \in {"succeeded", "failed", "pending"}
    PROVE  Contract!Next
<1>1. Status' = [Status EXCEPT ![t] = task'[t].status]
  BY DEF Status
<1>2. Status[t] = "running"
  BY DEF Status
<1>3. Contract!End(t)
  BY <1>1, <1>2 DEF Contract!End
<1> QED
  BY <1>3 DEF Contract!Next

\* Pending tasks are given up.
LEMMA ContractGivesUp ==
    ASSUME IInv, NEW S \in SUBSET Tasks, flow.status = "running", S \subseteq Pending,
           NEW st \in {"blocked", "failed"}, UNCHANGED <<graph, flow, published>>,
           \A u \in Tasks : task'[u].attempts = task[u].attempts,
           \A u \in Tasks : task'[u].status = IF u \in S THEN st ELSE task[u].status
    PROVE  Contract!Next
<1>1. Status' = [u \in Tasks |-> IF u \in S THEN st ELSE Status[u]]
  BY DEF Status
<1>2. \A u \in S : u \in graph /\ Status[u] = "pending"
  BY DEF Status, Pending
<1>3. Contract!GiveUp(S)
  BY <1>1, <1>2 DEF Contract!GiveUp
<1> QED
  BY <1>3 DEF Contract!Next

\* The manifest of a success is committed.
LEMMA ContractCommits ==
    ASSUME IInv, ManifestsOK, UNCHANGED <<graph, flow, task>>,
           published \subseteq published',
           \A p \in published' : p \in published \/ p[1] \in SucceededTasks
    PROVE  Contract!Next
<1>1. Artifacts \subseteq SucceededTasks /\ SucceededTasks = Contract!Successes
  BY ArtifactsOfSuccesses
<1>2. Artifacts \subseteq Artifacts' /\ Artifacts' \subseteq SucceededTasks
  BY <1>1 DEF Artifacts
<1>3. SucceededTasks \subseteq graph
  BY DEF SucceededTasks
<1>4. Contract!Commit
  BY <1>1, <1>2, <1>3 DEF Contract!Commit, Artifacts, Status
<1> QED
  BY <1>4 DEF Contract!Next

\* The flow ends, and every task that has none gets an end.
LEMMA ContractCloses ==
    ASSUME IInv, ManifestsOK, flow.status \in {"pending", "running"}, graph' = graph,
           flow'.status \in {"failed", "cancelled"}, flow'.attempts = flow.attempts,
           published \subseteq published',
           \A p \in published' : p \in published \/ p[1] \in SucceededTasks,
           \A t \in Tasks : task'[t].attempts = task[t].attempts,
           \A t \in Nonterminal : task'[t].status \in {"failed", "cancelled"},
           \A t \in Tasks : t \notin Nonterminal => task'[t].status = task[t].status
    PROVE  Contract!Next
<1>1. /\ Artifacts \subseteq SucceededTasks /\ SucceededTasks = Contract!Successes
      /\ Status \in [Tasks -> TaskStatuses]
  BY ArtifactsOfSuccesses
<1>2. Artifacts \subseteq Artifacts' /\ Artifacts' \subseteq SucceededTasks
  BY <1>1 DEF Artifacts
<1>3. \A t \in Tasks : Status[t] = task[t].status /\ Status'[t] = task'[t].status
  BY DEF Status
<1>4. Status' \in [Tasks -> TaskStatuses]
  <2>1. \A t \in Tasks : task'[t].status \in TaskStatuses
    BY <1>1, <1>3 DEF TaskStatuses
  <2> QED
    BY <2>1 DEF Status
<1>5. \A t \in Tasks :
         IF t \in graph /\ Status[t] \notin TerminalTask
         THEN Status'[t] \in {"failed", "cancelled"}
         ELSE Status'[t] = Status[t]
  BY <1>3 DEF Nonterminal
<1>6. Contract!Close
  BY <1>1, <1>2, <1>4, <1>5 DEF Contract!Close, Artifacts, Contract!TaskStatuses, TaskStatuses,
     Contract!TerminalTask, TerminalTask, Contract!TerminalFlow
<1> QED
  BY <1>6 DEF Contract!Next

\* The contract counts as the runtime does.
LEMMA ContractCounts == \A S : Contract!Cardinality(S) = Cardinality(S)
  BY DEF Contract!Cardinality, Cardinality

LEMMA ContractReady ==
    ASSUME NEW t \in Tasks, NEW st, DependencyReady(t, st)
    PROVE  Contract!DependencyReady(t, st)
<1>1. Contract!Succeeded(t, st) = Succeeded(t, st)
  BY DEF Contract!Succeeded, Succeeded
<1>2. Contract!QuorumRequired(t) = QuorumRequired(t)
  <2>1. CASE Requires[t] = {}
    BY <2>1 DEF Contract!QuorumRequired, QuorumRequired
  <2>2. CASE Requires[t] # {}
    BY <2>2, ContractCounts DEF Contract!QuorumRequired, QuorumRequired
  <2> QED
    BY <2>1, <2>2
<1> QED
  BY <1>1, <1>2, ContractCounts DEF Contract!DependencyReady, DependencyReady

\* Every step of a run is one of the contract.
LEMMA RunImplements ==
    ASSUME IInv, AttemptInv, CommitOK, ManifestsOK, DriveStep
    PROVE  Contract!Next \/ UNCHANGED Contract!contract
<1>1. /\ task \in [Tasks -> TaskRecord] /\ \A t \in Tasks : task[t] \in TaskRecord
      /\ flow \in [status : FlowStatuses, attempts : Nat, failures : Nat]
      /\ batch \subseteq Tasks /\ graph \subseteq Tasks
      /\ \A t \in batch : task[t].status = "running"
  BY DEF IInv, TypeOK, LiveOK
<1>2. flow.status = "running"
  <2>1. Driving
    BY DEF DriveStep, Driving, DrivePoints, TopOfLoop, StartCancel, CommitManifest, CommitFails,
       ApplySuccess, ApplyFailure, Applying, StartFailBudget, Applied, BlockImpossible,
       BlockConflict, StartLaunching, Finish, FailExhausted, BlockWithoutInputs, Launch,
       Visiting, EndLaunching, WaitOrSleep, Stall, SettleCancel, FailBudget, RunRaises
  <2> QED
    BY <2>1 DEF IInv, EndOK
<1>3. CASE UNCHANGED <<graph, flow, task, published>>
  BY <1>3, ContractStutters
<1>4. ASSUME NEW t \in Tasks, ApplySuccess(t) \/ ApplyFailure(t)
      PROVE  Contract!Next
  <2>1. task[t].status = "running" /\ UNCHANGED <<graph, published>>
    BY <1>1, <1>4 DEF ApplySuccess, ApplyFailure, Applying, IsFirst, disk
  <2>2. flow'.status = flow.status /\ flow'.attempts = flow.attempts
    BY <1>1, <1>4 DEF ApplySuccess, ApplyFailure
  <2>3. /\ task'[t].status \in {"succeeded", "failed", "pending"}
        /\ task'[t].attempts = task[t].attempts
        /\ \A u \in Tasks : u # t => task'[u] = task[u]
    <3>1. CASE ApplySuccess(t)
      BY <1>1, <3>1 DEF ApplySuccess, TaskRecord
    <3>2. CASE ApplyFailure(t)
      BY <1>1, <3>2 DEF ApplyFailure, TaskRecord
    <3> QED
      BY <1>4, <3>1, <3>2
  <2> QED
    BY <1>2, <2>1, <2>2, <2>3, ContractEnds
<1>5. CASE CommitManifest
  <2>1. focus \in SucceededTasks
    BY <1>5 DEF CommitManifest, IInv, FocusOK, GraphOK, SucceededTasks
  <2>2. /\ UNCHANGED <<graph, flow, task>>
        /\ published' = published \cup {<<focus, task[focus].artifact>>}
    BY <1>5 DEF CommitManifest, ledger
  <2> QED
    BY <2>1, <2>2, ContractCommits
<1>6. CASE BlockImpossible \/ Stall
  <2>1. PICK S : /\ S \subseteq Pending /\ UNCHANGED <<graph, flow, published>>
                 /\ \A u \in S : task'[u] \in {[task[u] EXCEPT !.status = "blocked"],
                                    [task[u] EXCEPT !.status = "blocked", !.delayed = FALSE]}
                 /\ \A u \in Tasks : u \notin S => task'[u] = task[u]
    <3>1. CASE BlockImpossible
      <4>1. Impossible \subseteq Pending /\ Pending \subseteq Tasks
        BY <1>1 DEF Impossible, Pending
      <4> QED
        BY <3>1, <4>1 DEF BlockImpossible, ledger, disk
    <3>2. CASE Stall
      <4>1. Pending \subseteq Tasks
        BY <1>1 DEF Pending
      <4> QED
        BY <3>2, <4>1 DEF Stall, ledger, disk
    <3> QED
      BY <1>6, <3>1, <3>2
  <2>2. S \in SUBSET Tasks
    BY <1>1, <2>1 DEF Pending
  <2>3. ASSUME NEW u \in S
        PROVE  task'[u].status = "blocked" /\ task'[u].attempts = task[u].attempts
    <3>1. task[u] \in TaskRecord
      BY <1>1, <2>2
    <3> QED
      BY <2>1, <3>1 DEF TaskRecord
  <2>4. \A u \in Tasks : /\ task'[u].attempts = task[u].attempts
                         /\ task'[u].status = IF u \in S THEN "blocked" ELSE task[u].status
    BY <2>1, <2>3
  <2> QED
    BY <1>2, <2>1, <2>2, <2>4, ContractGivesUp
<1>7. ASSUME NEW t \in Tasks, FailExhausted(t) \/ BlockWithoutInputs(t)
      PROVE  Contract!Next
  <2>1. t \in Pending /\ UNCHANGED <<graph, flow, published>>
    BY <1>7 DEF FailExhausted, BlockWithoutInputs, Visiting, Reached, Upcoming, Eligible, ledger,
       disk
  <2>2. PICK st \in {"blocked", "failed"} : task' = [task EXCEPT ![t].status = st]
    BY <1>7 DEF FailExhausted, BlockWithoutInputs
  <2>3. \A u \in Tasks : /\ task'[u].attempts = task[u].attempts
                         /\ task'[u].status = IF u \in {t} THEN st ELSE task[u].status
    BY <1>1, <2>2 DEF TaskRecord
  <2> QED
    BY <1>2, <2>1, <2>3, ContractGivesUp
<1>8. ASSUME NEW t \in Tasks, Launch(t)
      PROVE  Contract!Next
  <2>1. /\ t \in Pending /\ ~Exhausted(t) /\ DependencyReady(t, Status)
        /\ flow.attempts < BudgetAttempts
    BY <1>8 DEF Launch, Visiting, Reached, Upcoming, Eligible
  <2>2. task'[t].status = "running" /\ task'[t].attempts = task[t].attempts + 1
    <3> DEFINE r == [NewTask EXCEPT !.status = "running", !.attempts = task[t].attempts + 1,
                                    !.settled = IF UsesRlm THEN "no" ELSE "yes"]
    <3>1. r.status = "running" /\ r.attempts = task[t].attempts + 1
      BY DEF NewTask
    <3>2. task' = [task EXCEPT ![t] = r]
      BY <1>8 DEF Launch
    <3> HIDE DEF r
    <3> QED
      BY <1>1, <3>1, <3>2
  <2>3. /\ \A u \in Tasks : u # t => task'[u] = task[u]
        /\ flow'.status = flow.status /\ flow'.attempts = flow.attempts + 1
        /\ UNCHANGED <<graph, published>>
    BY <1>1, <1>8 DEF Launch, disk
  <2>4. Status' = [Status EXCEPT ![t] = "running"]
    BY <2>2, <2>3 DEF Status
  <2>5. Started' = [Started EXCEPT ![t] = @ + 1]
    BY <2>2, <2>3 DEF Started
  <2>6. task[t].attempts < AttemptLimit[t]
    <3>1. task[t].attempts \in Nat /\ AttemptLimit[t] \in Nat
      BY <1>1, Constants DEF TaskRecord
    <3> QED
      BY <2>1, <3>1 DEF Exhausted
  <2>7. Contract!DependencyReady(t, Status)
    BY <2>1, ContractReady
  <2>8. Contract!Start(t)
    BY <1>2, <2>1, <2>3, <2>4, <2>5, <2>6, <2>7 DEF Contract!Start, Started, Status, Pending
  <2> QED
    BY <2>8 DEF Contract!Next
<1>9. CASE Finish
  <2>1. /\ AllTerminal /\ UNCHANGED <<graph, task, published>>
        /\ drive \in {"apply", "rest"} /\ flow'.attempts = flow.attempts
        /\ flow'.status = IF \A t \in graph : task[t].status = "succeeded"
                          THEN "succeeded" ELSE "failed"
    BY <1>1, <1>9 DEF Finish, Applied, disk
  <2>2. CASE flow'.status = "failed"
    BY <1>2, <2>1, <2>2, ContractCloses DEF AllTerminal
  <2>3. CASE flow'.status = "succeeded"
    <3>1. /\ Artifacts \subseteq SucceededTasks /\ SucceededTasks = Contract!Successes
          /\ Status \in [Tasks -> TaskStatuses]
      BY ArtifactsOfSuccesses
    <3>2. SucceededTasks = graph
      BY <2>1, <2>3 DEF SucceededTasks
    <3>3. \A t \in graph : <<t, task[t].artifact>> \in published
      BY <1>1, <2>1, <3>2 DEF CommitOK, Looking, SucceededTasks
    <3>4. \A t \in graph : <<t, task[t].artifact>>[1] \in Artifacts
      BY <3>3 DEF Artifacts
    <3>5. Artifacts = graph
      BY <3>1, <3>2, <3>4
    <3>6. Artifacts' = Artifacts /\ Status' = Status /\ Started' = Started
      BY <2>1 DEF Artifacts, Status, Started
    <3>7. \A t \in graph : Status[t] \in TerminalTask
      BY <1>1, <2>1 DEF AllTerminal, Nonterminal, Status
    <3>8. Contract!Close
      BY <1>2, <2>1, <2>3, <3>1, <3>2, <3>5, <3>6, <3>7
      DEF Contract!Close, Artifacts, Started, Contract!TaskStatuses, TaskStatuses,
          Contract!TerminalTask, TerminalTask, Contract!TerminalFlow
    <3> QED
      BY <3>8 DEF Contract!Next
  <2> QED
    BY <2>1, <2>2, <2>3
<1>10. CASE SettleCancel \/ FailBudget
  <2>1. PICK st : /\ Close(st) /\ \A t \in Nonterminal : st[t] \in {"failed", "cancelled"}
    <3>1. CASE SettleCancel
      <4> DEFINE st == [u \in Tasks |-> IF u \in Unsettled THEN "failed" ELSE "cancelled"]
      <4>1. Close(st) /\ \A t \in Nonterminal : st[t] \in {"failed", "cancelled"}
        BY <1>1, <3>1 DEF SettleCancel, Nonterminal
      <4> HIDE DEF st
      <4> QED
        BY <4>1
    <3>2. CASE FailBudget
      <4> DEFINE st == [u \in Tasks |-> "failed"]
      <4>1. Close(st) /\ \A t \in Nonterminal : st[t] \in {"failed", "cancelled"}
        BY <1>1, <3>2 DEF FailBudget, Nonterminal
      <4> HIDE DEF st
      <4> QED
        BY <4>1
    <3> QED
      BY <1>10, <3>1, <3>2
  <2>2. /\ flow'.status \in {"failed", "cancelled"} /\ flow'.attempts = flow.attempts
        /\ UNCHANGED <<graph, published>>
    BY <1>1, <1>10 DEF SettleCancel, FailBudget, disk
  <2>3. \A t \in Tasks : /\ task'[t].attempts = task[t].attempts
                         /\ task'[t].status = IF t \in Nonterminal THEN st[t] ELSE task[t].status
    BY <2>1, Closed
  <2>4. \A t \in Nonterminal : task'[t].status \in {"failed", "cancelled"}
    BY <1>1, <2>1, <2>3 DEF Nonterminal
  <2> QED
    BY <1>2, <2>2, <2>3, <2>4, ContractCloses
<1> QED
  BY <1>3, <1>4, <1>5, <1>6, <1>7, <1>8, <1>9, <1>10
  DEF DriveStep, TopOfLoop, StartCancel, CommitFails, Raise, StartFailBudget, BlockConflict,
      StartLaunching, EndLaunching, WaitOrSleep, RunRaises, ledger, disk

\* So is every step of a recovery or a cancellation.
LEMMA RestImplements ==
    ASSUME IInv, AttemptInv, ManifestsOK, RecoveryStep
    PROVE  Contract!Next \/ UNCHANGED Contract!contract
<1>1. /\ task \in [Tasks -> TaskRecord] /\ \A t \in Tasks : task[t] \in TaskRecord
      /\ flow \in [status : FlowStatuses, attempts : Nat, failures : Nat]
      /\ graph \subseteq Tasks
  BY DEF IInv, TypeOK
<1>2. ASSUME NEW t \in Tasks, task[t].status = "running"
      PROVE  flow.status = "running"
  BY <1>1, <1>2 DEF AttemptInv, RunningOK, IInv, EndOK, GraphOK, AllTerminal, Nonterminal,
     TerminalTask, FlowStatuses, TerminalFlow
<1>3. ASSUME NEW t \in Tasks, RecoverStep(t)
      PROVE  Contract!Next \/ UNCHANGED Contract!contract
  <2>1. CASE RecoverLocal(t)
    <3>1. task[t].status = "running" /\ UNCHANGED <<graph, flow, published>>
      BY <2>1 DEF RecoverLocal, Recovering, IsFirst, Running, ledger, disk
    <3>2. /\ task'[t].status = "pending" /\ task'[t].attempts = task[t].attempts
          /\ \A u \in Tasks : u # t => task'[u] = task[u]
      BY <1>1, <2>1 DEF RecoverLocal, TaskRecord
    <3> QED
      BY <1>2, <3>1, <3>2, ContractEnds
  <2>2. CASE ~RecoverLocal(t)
    <3>1. UNCHANGED <<graph, flow, published>>
      BY <1>3, <2>2 DEF RecoverStep, RecoverCompleted, RecoverUnlistable, RecoverAbsent,
         RecoverTerminal, RecoverRunning, Outcome, ledger, disk
    <3>2. \/ UNCHANGED task
          \/ \E known, child, usage, settled : Notify(t, known, child, usage, settled)
      BY <1>3, <2>2 DEF RecoverStep, RecoverCompleted, RecoverUnlistable, RecoverAbsent,
         RecoverTerminal, RecoverRunning
    <3>3. \A u \in Tasks : /\ task'[u].status = task[u].status
                           /\ task'[u].attempts = task[u].attempts
      BY <3>2, NotifyKeeps
    <3> QED
      BY <3>1, <3>3, ContractStutters
  <2> QED
    BY <2>1, <2>2
<1>4. CASE RecoveredUnsettled \/ RecoveredOutputs \/ RecoveredFailure
  <2>1. focus \in Tasks /\ task[focus].status = "running"
    BY <1>4 DEF RecoveredUnsettled, RecoveredOutputs, RecoveredFailure, IInv, FocusOK
  <2>2. PICK status \in {"succeeded", "pending", "failed"}, settled \in {"no", "yes"},
             failures \in {0, 1}, failClosed \in BOOLEAN :
           Settle(status, settled, failures, failClosed)
    BY <1>4 DEF RecoveredUnsettled, RecoveredOutputs, RecoveredFailure
  <2>3. UNCHANGED <<graph, published>>
    BY <2>2 DEF Settle, disk
  <2>4. /\ task'[focus].status = status
        /\ \A t \in Tasks : /\ task'[t].attempts = task[t].attempts
                            /\ t # focus => task'[t] = task[t]
        /\ flow'.attempts = flow.attempts /\ flow'.status = flow.status
    BY <2>1, <2>2, SettleTyped DEF IInv
  <2> QED
    BY <1>2, <2>1, <2>3, <2>4, ContractEnds
<1>5. CASE Recommit
  <2>1. focus \in SucceededTasks
    BY <1>5 DEF Recommit, IInv, FocusOK, GraphOK, SucceededTasks
  <2>2. /\ UNCHANGED <<graph, flow, task>>
        /\ published' = published \cup {<<focus, task[focus].artifact>>}
    BY <1>5 DEF Recommit, ledger
  <2> QED
    BY <2>1, <2>2, ContractCommits
<1>6. CASE RecommitFails
  BY <1>6, ContractStutters DEF RecommitFails, ledger, disk
<1>7. CASE EndRecovery
  <2>1. /\ drive = "recover" /\ Running = {} /\ graph' = graph
        /\ published' = published \cup {<<t, task[t].artifact>> : t \in SucceededTasks}
    BY <1>7 DEF EndRecovery
  <2>2. /\ published \subseteq published'
        /\ \A p \in published' : p \in published \/ p[1] \in SucceededTasks
    BY <2>1
  <2>3. CASE recovery.failClosed
    <3> DEFINE st == [t \in Tasks |-> "failed"]
    <3>1. /\ Close(st) /\ \A t \in Nonterminal : st[t] = "failed"
          /\ flow'.status = "failed" /\ flow'.attempts = flow.attempts
      BY <1>1, <1>7, <2>3 DEF EndRecovery, Nonterminal
    <3> HIDE DEF st
    <3>2. \A t \in Tasks : /\ task'[t].attempts = task[t].attempts
                           /\ task'[t].status = IF t \in Nonterminal THEN st[t] ELSE task[t].status
      BY <3>1, Closed
    <3>3. \A t \in Nonterminal : task'[t].status \in {"failed", "cancelled"}
      BY <1>1, <3>1, <3>2 DEF Nonterminal
    <3>4. flow.status \in {"pending", "running"}
      BY <1>1, <2>1, <2>3 DEF IInv, EndOK, FlowStatuses, TerminalFlow
    <3> QED
      BY <2>1, <2>2, <3>1, <3>2, <3>3, <3>4, ContractCloses
  <2>4. CASE ~recovery.failClosed /\ flow.status # "running"
    <3>1. UNCHANGED task /\ flow' = flow
      BY <1>1, <1>7, <2>4 DEF EndRecovery
    <3> QED
      BY <2>1, <2>2, <3>1, ContractCommits
  <2>5. CASE ~recovery.failClosed /\ flow.status = "running"
    <3>1. /\ UNCHANGED task /\ flow'.status = "pending" /\ flow'.attempts = flow.attempts
      BY <1>1, <1>7, <2>5 DEF EndRecovery
    <3>2. Artifacts \subseteq SucceededTasks /\ SucceededTasks = Contract!Successes
      BY ArtifactsOfSuccesses
    <3>3. Artifacts' = SucceededTasks
      <4>1. Artifacts' \subseteq SucceededTasks
        BY <2>2, <3>2 DEF Artifacts
      <4>2. ASSUME NEW t \in SucceededTasks
            PROVE  t \in Artifacts'
        <5>1. <<t, task[t].artifact>> \in published'
          BY <2>1
        <5>2. <<t, task[t].artifact>>[1] \in Artifacts'
          BY <5>1 DEF Artifacts
        <5> QED
          BY <5>2
      <4> QED
        BY <4>1, <4>2
    <3>4. \A t \in graph : Status[t] # "running"
      BY <1>1, <2>1 DEF Running, Status
    <3>5. Status' = Status /\ Started' = Started
      BY <3>1 DEF Status, Started
    <3>6. Contract!Reopen
      BY <2>1, <2>5, <3>1, <3>2, <3>3, <3>4, <3>5 DEF Contract!Reopen, Artifacts, Started
    <3> QED
      BY <3>6 DEF Contract!Next
  <2> QED
    BY <2>3, <2>4, <2>5
<1>8. CASE MarkCancelled
  <2>1. UNCHANGED <<graph, published>>
    BY <1>8 DEF MarkCancelled, disk
  <2>2. CASE flow.status \in TerminalFlow
    BY <1>8, <2>1, <2>2, ContractStutters DEF MarkCancelled
  <2>3. CASE flow.status \notin TerminalFlow
    <3>1. /\ flow'.status = "cancelled" /\ flow'.attempts = flow.attempts
          /\ \A t \in Nonterminal : task'[t] = [task[t] EXCEPT !.status = "cancelled"]
          /\ \A t \in Tasks : t \notin Nonterminal => task'[t] = task[t]
      BY <1>1, <1>8, <2>3 DEF MarkCancelled, Nonterminal
    <3>2. ASSUME NEW t \in Nonterminal
          PROVE  task'[t].status = "cancelled" /\ task'[t].attempts = task[t].attempts
      <4>1. task[t] \in TaskRecord
        BY <1>1 DEF Nonterminal
      <4> QED
        BY <3>1, <4>1 DEF TaskRecord
    <3>3. flow.status \in {"pending", "running"}
      BY <1>1, <2>3 DEF FlowStatuses, TerminalFlow
    <3> QED
      BY <2>1, <3>1, <3>2, <3>3, ContractCloses
  <2> QED
    BY <2>2, <2>3
<1> QED
  BY <1>3, <1>4, <1>5, <1>6, <1>7, <1>8 DEF RecoveryStep

\* The caller adds tasks and opens the flow.
LEMMA CallerImplements ==
    ASSUME IInv, CallerStep \/ WallExpires \/ Crash \/ UNCHANGED vars
    PROVE  Contract!Next \/ UNCHANGED Contract!contract
<1>1. flow \in [status : FlowStatuses, attempts : Nat, failures : Nat]
  BY DEF IInv, TypeOK
<1>2. CASE UNCHANGED <<graph, flow, task, published>>
  BY <1>2, ContractStutters
<1>3. ASSUME NEW t \in Tasks, AddTask(t)
      PROVE  Contract!Next
  <2>1. Contract!Add(t)
    BY <1>3 DEF AddTask, Contract!Add, Status, disk
  <2> QED
    BY <2>1 DEF Contract!Next
<1>4. CASE Run
  <2>1. Contract!Open
    BY <1>1, <1>4 DEF Run, Contract!Open, Status, disk
  <2> QED
    BY <2>1 DEF Contract!Next
<1> QED
  BY <1>2, <1>3, <1>4 DEF CallerStep, RequestCancel, Load, CancelIdle, Enter, WallExpires, Crash,
     vars, ledger, disk

\* Every behaviour of the runtime, with its recoveries and crashes, is one of the
\* contract: what the caller sees of tasks, attempts and artifacts.
THEOREM RuntimeImplementsContract == Spec => ImplementsContract
<1>1. Init => Contract!Init
  BY DEF Init, Contract!Init, Status, NewTask
<1>2. IInv /\ AttemptInv /\ CommitOK /\ ManifestsOK /\ [Next]_vars =>
        [Contract!Next]_(Contract!contract)
  <2> SUFFICES ASSUME IInv, AttemptInv, CommitOK, ManifestsOK, [Next]_vars
               PROVE  Contract!Next \/ UNCHANGED Contract!contract
    OBVIOUS
  <2>1. CASE \E u \in Tasks : TaskStep(u)
    BY <2>1, AttemptFrame, ContractStutters DEF ledger
  <2> QED
    BY <2>1, RunImplements, RestImplements, CallerImplements DEF Next
<1> QED
  BY <1>1, <1>2, CommitInvariance, ManifestInvariance, PTL
  DEF Spec, ImplementsContract, Contract!Spec
=============================================================================
