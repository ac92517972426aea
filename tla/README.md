# A TLA+ development of oh-my-prime's coordination core

oh-my-prime is a coding agent: a TUI and CLI in TypeScript (`packages/`), a
daemon that keeps sessions alive behind it, a Python runtime in which the agent
works, and skills written for that runtime. Most of the 1 200 files render,
parse, stream or call models. What is hard to get right, and hard to test, is
how long-running work survives retries, cancellations, races and crashes. That
is what these modules model.

Paths below are relative to the repository; `RT` is
`packages/coding-agent/skills/flow/src/flow/_runtime.py`, `daemon/` is
`packages/coding-agent/src/modes/daemon/`.

## 1. Inventory

| Component | State it keeps | Operations | Interacts with | Hard behaviour | What makes it correct |
|---|---|---|---|---|---|
| Flow runtime (`RT`) | live attempts, record in hand, `cancel_event` | `task`, `run`, `cancel`, `load`, the loop of `_drive`, `RlmTaskExecutor.execute`, `recover_attempt` | Flow store, blackboard, host children | callbacks of children against the loop; timeouts; failing deletions; crash between transition and manifest | one live child per task, budgets charged once, successes and ends final, blocked only for a reason, calls return |
| Flow lease and run table (`RT` 780-830) | file lock, `_active_runs`, `_guard` | acquire, register, done callback, release | all kernels that share the state directory | two kernels, two calls, cancellation while a thread acquires | one writer per flow; the lease comes back |
| Flow store (`_store.py`) | SQLite rows with a revision, event log | create, get, update(expected revision), list | Flow runtime | revision conflicts | no lost update |
| Artifact blackboard (`_blackboard.py`) | manifests, artifact files | stage, commit, query, resolve | Flow runtime | crash around the commit | artifacts only behind a stored success |
| RLM children (`agent-session.ts` 9138-9760, `rlm/__init__.py`) | registry of direct children | run, list, delete | Flow runtime | admission after awaits; late or lost children | a listing tells the truth about what lives |
| Command recovery journal (`daemon/command-recovery-journal.ts`) | append-only JSONL, `entries` | begin, recordResult, acknowledge, load, compact | supervisor | crashes in and between appends | a command runs once; answers are true |
| Supervisor (`daemon/daemon-supervisor.ts`) | clients, workers, descriptors, phases | start, end, handleLine and about 60 commands, launch, adopt, recover and replace a worker, eviction, update restart | clients, workers, journals | drain against new mutations; death at any await of a launch; a successor that starts meanwhile | admitted work is not lost; one process per worker |
| Supervisor ownership (`daemon-supervisor-ownership.ts`, `daemon-socket.ts`) | owner record, lock on the socket path, socket file, shutdown admissions | claim, assert, release, admit a shutdown | other supervisors, workers | stale locks, several starters, cleanup after a failed start | one supervisor on the socket; nothing done for a superseded one |
| Daemon client (`daemon-client.ts`) | pending requests | request, resend, acknowledge, reconnect | supervisor | answers after a reconnect | each request ends once |
| Session worker (`daemon-mode.ts`, `worker-recovery-journal.ts`) | a session, its supervisor claim, a startup gate, a watch timer | authenticate, adopt, fence, prompt, cron dispatch, prepare for a restart | supervisor, session | adoption after a supervisor restart; commands of an old supervisor still in the socket | obeys the owner; gets a new supervisor when its own dies |
| Session lease (`core/session-lease.ts`) | lease file with pid and heartbeat | acquire, renew, release | other processes | stale owners | one writer per session file |
| Session action store (`core/session-action-store.ts`) | the prompts of a session, two queues, tickets | admit, select, prepare, commit, rollback, remove, settle | agent session | rollback and removal between two awaits of the pump | every accepted prompt ends, in order, and its caller hears the truth |
| Cron jobs (`core/cron-jobs.ts`) | jobs with next-run times, claims, a timer, one lane per runtime | create, pause, resume, cancel, claim due jobs, dispatch, recover | session delivery | claim before delivery; sessions switched or killed while a dispatch waits; restart | at most one delivery per run time; no claim left behind |
| Agent loop (`packages/agent`) | messages, tool calls, two queues, the active run | prompt, steer, followUp, continue, abort | providers, tools, hooks | steering, aborts and failures at every await; parallel tools | each tool call is answered once and in order; no message is dropped; an aborted run ends |
| Agent session (`core/agent-session.ts`) | conversation, action pump, event queue, retries, pauses, bash, compaction, children | prompt, abort, pause, clear, take back, bash, checkpoint; session commands, compaction | nearly everything | pump, run, event queue and retry interleave with every interruption | no accepted prompt sleeps or is lost; the checkpoint is exact |
| Evolution Lab (`skills/evolve`) | revisions, evaluation, promotions | propose, replay, promote, roll back | file system | crash while files are swapped | promoted content is what was evaluated |
| Workspace Manager (`skills/workspace`) | worktrees, leases | create, integrate, remove | git | failure between git steps | no work is deleted unmerged |
| Verifier, ProofTree, Model Mesh, Code Atlas | evidence, trees, statistics, graphs | mostly sequential computations | Flow, models, files | little | - |
| Providers, TUI, CLI, extensions, MCP | streams, widgets | I/O and rendering | - | - | - |

`PROJECT.json` lists the same components with their files and status, and the
hazards found in them, each at its line.

## 2. Modules

| Module | Models |
|---|---|
| `FlowGraph` | task specifications; the pure functions at the end of `RT`: quorums, readiness, impossible joins |
| `FlowState` | constants and variables of one flow: durable record and manifests, host children, coroutines and their locals |
| `FlowExecutor` | the coroutine of an attempt (`_execute` around `RlmTaskExecutor.execute`, or a local executor) and the host of its child |
| `FlowScheduler` | `Flow.task`, `Flow.run`, the loop of `_drive`: completions, budgets, blocking, launching, waiting, and the three ends that settle live attempts |
| `FlowRecovery` | `FlowRuntime.load`, `Flow.cancel` without an active run, `_recover_interrupted`, `recover_attempt`, crashes |
| `FlowRuntime` | the composition, time, fairness and every property of a flow |
| `FlowContract` | the abstract specification: what a flow promises its caller |
| `FlowLease` | lock, run table and guard for any number of kernels and callers: why `FlowState` may have one `drive` |
| `FlowInvariantProofs`, `FlowRuntimeProofs`, `FlowLeaseProofs` | the theorems |
| `CommandJournal`, `JournalProofs` | client, supervisor and journal of mutating commands; its theorems |
| `Supervision`, `SupervisionProofs` | the supervisors of one socket and the worker they look after: ownership, takeover, launch, adoption, recovery, fences; its theorems |
| `CronJobs`, `CronProofs` | job files, timer, dispatch lanes and delivery, sessions that open, switch and die, update restart, crash; its theorems |
| `SessionActions`, `SessionActionsProofs` | admission behind the commit fence, the pump, the agent's run, the event queue, retries, pauses with checkpoint, bash; its theorems |
| `AgentLoop`, `AgentLoopProofs` | the agent's queues, runs, turns and tool batches, abort and failing hooks, and the replay of a transcript to a provider; its theorems |
| `MCFlow`, `MCFlowLease`, `MCCommandJournal`, `MCSupervision`, `MCCronJobs`, `MCSessionActions`, `MCAgentLoop` | graphs, homes, job kinds, queue modes and model values for the instances |

### How state and actions correspond to the code

*Flow.* `task[t]` is a `TaskRecord`: `known` and `child` are `child_id` and
`child_status`, `settled` is `child_settled`, `delayed` says that `available_at`
is in the future, `artifact` names the attempt whose `artifact_ids` the record
carries. `kids[t][a]` is the host's child of attempt `a`: the name of a child
contains task and attempt. One action of the scheduler runs from one `await` of
`_drive` to the next, except where a loop in between is unrolled into one action
per task (`ApplySuccess`, `ApplyFailure`, the launch loop): no other coroutine
can observe the difference, because each writes only its own task's record
between awaits. `drive` is the program counter of whoever holds the lease,
`exec[t].pc` that of the attempt's coroutine.

The record in `_drive`'s hand is the stored one, except after
`commit_attempt`'s await: `stale` says that a child's callback has written the
row since, `Conflict` that `_persist` would raise. The loop reads the row again
on its next round.

`Faults` chooses what the environment of an instance may do: failing listings,
failing deletions, late admissions, failing commits, timeouts, the wall clock,
cancellation, children deleted by others. Time is abstracted to events: a
timeout may fire at any moment an attempt is live, a backoff ends at any moment.

*Lease.* `record` is the flow's status, `lease` the owner of the file lock:
a call, a registered run, or `"lost"`, a descriptor opened by a thread whose
awaiting call has been cancelled (`RT` 797). `pc[c]` is where a call is between
`_start_run`, `load`, `cancel` and their end.

*Journal.* `disk` is the file, one record per line, `torn` says that its last
line has no newline; `entries` and `count` are the journal's memory. `handler[c]`
is the `handleLine` of a command between its receipt and its recorded result.
`connected`, `wire`, `reply` and `acks` are one client's socket; what is in it
dies with the connection. `Recovered` is `load`, `Compacted` is `compact`.

*Supervision.* `sup[s]` is one supervisor process: its phase on the way from
start to end, and `step` with `mode`, where it is with the worker (adopting,
connecting, recovering, spawning, recording). `worker[p]` is a worker process:
waiting at its startup gate or running, the supervisor it is bound to, and the
timer that looks for one when it has none. `lease` is the lock on the socket
path, `owner` the owner record, `sock` the socket file, `desc` the process the
worker's descriptor names, `mail` what a worker has yet to read. A supervisor
that has died stays in `lease`, `owner` and `sock`: the next one has to find it
dead. `latest` and `stray` are history: who acquired the ownership last, and
what was done for somebody else.

*Cron.* A run time of a job is "later" or "due", never a number; `tick` counts
them. `claims` are the dispatch records on disk, `lane[r]` the queue of
dispatches of a runtime and `step[r]` the await its first one is at. Each store
operation is one action, for it has no await in the code.

*Session actions.* `pump.pc` is the await the action pump is at, `sched` its
flags and the pumps chained behind it, `door[a]` where the call of `prompt` for
`a` is, `fence` the commit fence (its head holds it), `run` the agent's run,
`events` the queue of its events, `retry` the three things a retry consists of.
An action of the module runs from one await to the next. `Scheduled` is the wake
of the pump, `Defers` its rollback, `Looped` its way back to the selection.

*Agent loop.* `pc` is the await of `runLoop` the active run is at; every await
that the code races with the abort signal has an alternative that goes on as
soon as `aborted` is set, and tools that lose that race live on in `alive`.
`Replayed` is the second pass of `transformMessages`, `Owed` the calls that it
still has to answer.

Definitions that start with the comment "Mutant:" are plausible bugs, used by
nothing: each stands before the definition it would replace, and `PROJECT.json`
says which property it breaks.

## 3. Runs

| Run | Instance | Shows |
|---|---|---|
| `flow_settlement` | two tasks that share a resource, one of them retried once; token, failure and attempt budgets; all faults but late admission and vanishing; one crash. 1.5 million states | `NoSecondLiveChild`, `OrphansAreRecorded`, `ResourcesExclusive`, `TokensLedger` |
| `flow_late_admission` | a chain of two, children admitted late or deleted by others, all faults, one crash, fairness. 340 000 states | `CallsReturn` (liveness), `FlowEndIsFinal`, `SuccessIsComplete` |
| `flow_fan_out` | six tasks, three at a time, a join and two tasks in line behind it; children admitted late, failing commits. 413 000 states | `PublishedOnlySucceeded`, `BlockedIsJustified`, with the scheduler's record going stale |
| `flow_joins` | quorums "any" and "2 of 3", a consumed artifact, a retry, a local executor, failing commits, timeouts, cancellation, a crash. 26 000 states | that the runtime implements `FlowContract`: successes are final, tasks start behind their quorum, attempts are charged |
| `flow_lease` | two kernels, three calls, any number of kernel restarts and abandoned calls. 1 354 states | `OneWriter`, `LiveRunIsUndisturbed`, `LeaseComesBack` (liveness) |
| `daemon_journal` | two commands, one dropped connection, two crashes between appends, any number of update restarts, compaction after three records. 42 000 states | `DispatchedOnce`, `AnswersAreTrue`, `MemoryOnDisk`, `UncertainNeedsALoss` |
| `supervision` | three supervisors, two worker processes, three attempts, any two crashes, signals or shutdown admissions. 570 000 states | `RunningIsRecorded`, `ObeysTheOwner`, `ResultsOfTheOwner`, `SocketOfTheOwner`, `AloneIsAnswered` (liveness) |
| `cron_jobs` | a one-time job and a heartbeat, two sessions, two runtimes, two run times each, one crash. 860 000 states | `NoReplay`, `ClaimsAreDispatches`, `NextRunIsArmed`, `RestartIsQuiet`, `DeliveredWhileActive`, `DueIsClaimed` (liveness) |
| `session_actions` | two follow-ups that may be sent together, one retry, a user's bash command, one interruption. 690 000 states | `TakenInOrder`, `TicketsTellTheTruth`, `CheckpointIsExact`, `NothingSleeps`, `PreparedForTheLast`, `BegunEnds` (liveness) |
| `agent_loop` | two message batches, two turns, up to two tools each, two runs, both queue modes. 920 000 states | `AnsweredInOrder`, `ModelSeesAnswers`, `OneSteeringPerTurn`, `OnlyAbortsLeaveTools`, `KeepsMessages`, `AbortEndsRun` (liveness) |

Two more runs, `flow_late_child` and `daemon_torn_journal`, are refuted: see
section 4. Type invariants are in no run: where a theorem says them, TLAPS has
proved them, and in `SessionActions` `TypeOK` documents the shape of the state.

*Why the bounds suffice.* A task needs two attempts for a replacement to exist
beside an earlier child, two tasks for a resource to be contended and for one
task's callback to meet another's transition, four for a join whose
dependencies end differently while a third slot is busy, and two more behind the
join for one step to block a task because of another that it blocks with it. One crash is enough for
every point at which durable and volatile state differ; recovery after recovery
is reached because `load` may be called again. Budgets are chosen so that each
one binds in some behaviour. The lease needs two kernels to contend and a third
call to share a kernel. The journal needs two commands for compaction to keep one
while another is acknowledged, and two crashes for a recovered entry to be
recovered again; `CompactAfter` is 3 instead of 4096 so that compaction happens.
`BudgetAttempts` and `AttemptLimit` bound the counters by the code's own limits;
`MaxCrashes` and `MaxDrops` are the only bounds of these modules' own.

Supervision needs a predecessor, a successor and a third supervisor that fails
to start beside them; two worker processes are the old one and its replacement,
and a process name is used again once it is dead. `MaxFaults` bounds crashes,
signals and shutdown admissions together: two of them leave a dead owner with a
dead or a fenced worker. Cron jobs need two jobs for lanes to hold more than one
dispatch, two sessions and runtimes for a switch to take a job away from its
lane, and two run times for a late delivery of the first to meet the second
(`MaxTicks`). `MaxStops` bounds what the user of a session may interrupt: with
one, every interruption meets every state of pump, run, events and retry; the
safety properties were also explored with two stops and with both kinds of bash
command (5.1 million states). The agent loop needs two tools for a batch to be
half finished when something else happens, two turns for a tool to outlive its
turn, two runs for a retry, two message batches for a queue to keep one;
`MaxBatches`, `MaxTurns`, `MaxCalls` and `MaxRuns` bound just that.

*Fairness.* `FlowRuntime!Fairness` has weak fairness of the loop of `_drive`, of
recovery and of each attempt's own progress (asyncio resumes every coroutine
that can go on), of the timeout of an attempt and of the end of a backoff (both
are finite in every policy). Nothing is assumed of children, callers or injected
executors, and no fault is fair: a listing need not fail, a child need not end.
`FlowLease!Fairness` has weak fairness of threads, registered runs and done
callbacks; a run and a recovery end by `CallsReturn`.

`AgentLoop!Spec` has weak fairness of the loop's own steps, which Node resumes
once their promise is settled; providers, tools and hooks owe nothing, so that
`AbortEndsRun` rests on `raceWithAbort` alone. `CronJobs!Spec` has that of
`RunDue`: a timeout that is set fires. `SessionActions!FairSpec` has one weak
fairness condition for all of a session's own steps and the answers it waits
for; that extensions and models answer at all is an assumption, and `BegunEnds`
says that nothing but such an answer is waited for. `Supervision!Fairness` has
weak fairness of the steps of processes that run (a supervisor's start, cleanup
and care for the worker, a worker's watch and its startup gate) and of the end
of an admission, whose lease expires; clients, commands, signals and crashes owe
nothing.

## 4. Disagreements between the code and what it says of itself

Each is a run that TLC refutes, listed under `findings`.

* `flow_late_child`: `SKILL.md` 118 says recovery "never starts a replacement
  while the prior child may still be live"; a child that is still being admitted
  when the kernel dies is in no listing (`agent-session.ts` 9746), and recovery
  takes it for gone (`RT` 297).
* `daemon_torn_journal`: `docs/daemon.md` 138 says a received command without a
  durable result "is not replayed". `load` skips a line that a crash cut short
  but leaves it in the file, so the next receipt joins it
  (`command-recovery-journal.ts` 174) and is lost for the supervisor after next,
  which dispatches the resent command again.

`NoSecondLiveChild` and `DispatchedOnce` are therefore shown under the condition
that excludes those cases (`"slow" \notin Faults`, `Tears = {}`).

The models also show the following, which no run is spent on. Where a property
would meet one of them, it leaves exactly that case out and says so.

*Flow.*
* `_apply_completions` returns the record it read before `commit_attempt` was
  awaited (`RT` 1517). If a sibling's callback lands meanwhile and a join has
  become impossible, `_block_impossible` (`RT` 1619) persists the outdated
  record, `FlowConflict` leaves `_drive`, the live attempts are cancelled and the
  flow stays "running"; `SKILL.md` 76 says the join "becomes `blocked`".
* The launch loop (`RT` 1293) and the stall check (`RT` 1381) read the clock
  separately; a backoff that ends in between makes every pending task "blocked".
  All of them are blocked in one step, one perhaps because of another, so
  `BlockedIsJustified` speaks of the statuses after the step.
* `_settle_cancel` (`RT` 1687) only looks at tasks still running, so a flow can
  end "cancelled" beside a child that `SKILL.md` 85 says "fails the flow".

*Sessions.* `S` is `core/agent-session.ts`.
* A prompt may stay queued in a quiet session, contrary to `docs/usage.md` 71,
  when what ended last wakes nobody: a command of `execute_bash_and_wait`
  (`daemon-mode.ts` 4099), `clearQueue`'s new epoch under a waiting pump
  (`S` 6044), a prompt an extension handled after an abort (`S` 4621), a pump
  that gives its prompts back after the pause or abort is over (`unwoken`).
* An abort between `agent_end` and its processing, or after the backoff while
  the timeout of `continue()` is pending, does not stop the retry
  (`S` 10250, 10312; `docs/rpc.md` 456).
* The queued `agent_end` of an earlier run may release the capture of a prompt
  that was taken back during its own run (`S` 3457); the prompt is then kept.
* With three prompts, one selected at its admission while the pump waits for the
  events (`S` 5453, 5478) is overtaken by the one behind it.
* With four prompts, a batch may be sent with a preparation that was made for
  its first prompt alone: the prompt that overtakes and the overtaken one are
  each prepared alone and given back for a bash command; when they come together
  nobody is unprepared (`S` 5725), and `activeTurns()[0]`'s preparation is taken
  for both (`S` 5742). This needs a run that `continue()` started after an abort
  to end just before they arrive.
* A selected prompt that waits for a bash command keeps
  `waitForSessionInputCheckpoint` waiting for as long.

*Daemon.*
* A worker whose check found the socket answering stops looking
  (`daemon-mode.ts` 668). If that supervisor dies before it adopts the worker, or
  an admission cancels the adoption, nobody starts another one, contrary to
  `docs/daemon.md` 36 (`watch = "content"`).
* A recovery that has read its descriptor before the session is stopped writes
  it again afterwards (`daemon-supervisor.ts` 2095); intentional stops are not
  modelled, this is from reading.
* Two supervisors that reclaim the same stale lock at once may both hold it for
  a moment; the owner record, taken under the registry guard, decides. Also from
  reading: `Supervision` takes the lock in one step.

## 5. Proofs

TLAPS proves, for every graph, every budget, every set of faults and any number
of crashes:

* `RuntimeTypeOK`, `SuccessIsFinal`, `EndIsFinal`, `StartsBehindQuorum`,
  `OnlySuccessesArePublished`, `AttemptsAreLimited`, `SuccessMeansComplete` (a
  flow), and `RuntimeImplementsContract`: the runtime implements `FlowContract`;
* for `"slow" \notin Faults` `OneChildAtATime`, `EveryOrphanIsRecorded`,
  `ResourcesAreExclusive` (a flow and the children it has on the host), for
  `"vanish" \notin Faults` `LedgerIsComplete`, and for `Backoff = {}`
  `BlocksAreJustified`;
* `LeaseTypeOK`, `WritersHoldTheLease`, `RunsAreUndisturbed`, `LeaseExcludes`
  (the lease, for any number of kernels and calls);
* `SupervisionTypeOK`, `SocketIsKept`, `OneRecordedWorker`, `OwnerIsObeyed`,
  `OwnerRecords` (any number of supervisors, worker processes, attempts, faults);
* `JournalTypeOK`, and for `Tears = {}` `NoSecondDispatch`, `AnswersHold`,
  `DiskKnowsAll`, `RestartsLoseNothing` (any number of commands, drops and
  crashes, any threshold of compaction);
* `CronTypeOK`, `NothingIsReplayed`, `ClaimsAreKept`, `TimerIsArmed`,
  `RestartsAreQuiet`, `DeliveriesAreChecked` (any number of jobs, sessions,
  runtimes, run times and crashes);
* `AgentTypeOK`, `ResultsInOrder`, `TurnsAreSteeredOnce`, `ToolsAreAwaited`,
  `MessagesAreKept`, `ContextIsTranscript`, `RequestsAnswerCalls` (an agent, for
  any number of messages, turns, tool calls and runs, and either mode of either
  queue);
* `SessionTypeOK`, `TicketsAreTrue`, `CheckpointsAreExact`, `PromptsAreTakenOnce`,
  `WaitersAreWoken`, `NoPromptSleeps` and, as long as the pump overlooks no
  preselected prompt, `OnlyTheOverlookedAreOvertaken` and `BatchesArePrepared`
  (a session, for any number of prompts, retries, stops and shell commands, and
  either mode of either queue).

They rest on the assumptions in `FlowGraph` (the graph is finite and given in a
topological order, as `TaskSpec` and `Flow.task` enforce), `FlowState`,
`FlowLease`, `Supervision` (processes have names of their own), `CommandJournal`
and `CronJobs` (finitely many commands and jobs, as in any execution) and
`AgentLoop` (bounds are numbers, modes are modes).

*The flow.* No property is inductive by itself. `FlowInvariantProofs!IInv` adds
what the code takes for granted between awaits: the table of children matches
the attempts (`KidsOK`); a live coroutine belongs to a task that says "running",
and only a run has live coroutines (`LiveOK`); a half-done transition concerns a
task in the status that transition starts from (`FocusOK`); tasks only move
inside the graph (`GraphOK`); and a flow that has ended has ended with all its
tasks and is only touched by a `load` or `cancel` that finds nothing to do
(`EndOK`). The fifty actions are reduced to a few lemmas about kinds of steps
(`AttemptStep`, `KidsStep`, `LoopStep`, `StatusStep`, `RunEnds`, `RestingStep`);
an action's proof only shows of what kind it is. `FlowRuntimeProofs` derives one
lemma on what any step may do to a task (`StepsOfTasks`), from which the
theorems follow; `StartsBehindQuorum` also needs that the cardinality of a set of
successes grows with the set.

The children need a second invariant, `AttemptInv`, about what a coroutine holds
in its locals. `ChildOK`: a live child is that of the last attempt, of a task that
is running or has failed, and the record says that it is not settled.
`ResultOK`: a success that has yet to be applied is settled and its outputs are
written; `RecoveredOK` says the same of what recovery has found. `RunningOK`: two
tasks that say "running" share no resource. With late admission `ChildOK` is
false, which is what `flow_late_child` shows. Success is complete by `CommitOK`:
wherever a run looks at the tasks to decide what follows, each success but the
one in hand has its manifest. A task is blocked for a reason because nothing is
live when the loop stalls, and then nothing was ready when it looked
(`StallInv`); a backoff that ends in between breaks just this.

The ledger of tokens needs to know what was charged for which child. `Accounts`
compares what a record and a coroutine know with the child: the usage on record
is final unless the child was left running, and a result that may be charged
carries the usage of a child that has ended. `AsksOK`: a child that has not ended
is that of the last attempt, of a task that runs or was given up, since with a
token budget an attempt without a measured usage is neither retried nor a success;
so a late admission cannot cost tokens that nobody counts. `LedgerOK`: until a
flow gives up on a task, `tokens` is the sum of what its attempts were charged
for. A step settles one attempt and changes one term of that sum; that a sum over
a finite set can be taken apart at any element is shown once, with the least set
for which it could not (`LeastSet`). When the flow has succeeded no attempt runs,
and the sum is `Total(Reported)`. The hypothesis is needed: a child that someone
else deletes before its usage was read is never charged, and TLC refutes
`TokensLedger` with "vanish". Late admission is no such exception; this was
explored with two crashes as well (3 million states).

The refinement is proved step by step: `Status`, the attempts and the manifests
are all the contract sees, so a lemma per kind of contract step (`ContractEnds`,
`ContractGivesUp`, `ContractCommits`, `ContractCloses`, `ContractStutters`) says
what an action must do to them, and `RunImplements`, `RestImplements` and
`CallerImplements` go through the actions.

*The lease.* `OneWriter` follows from `LeaseIsHeld`: whoever has got past the
acquisition holds the lock in the role it acquired it for. That is inductive
with `LiveRunIsUndisturbed`, because every step that hands the lock on finds it
free or finds its own descriptor in it.

*Supervision.* Two facts carry the four properties. `Standing`: a supervisor past
a stage of its start holds what that stage gave it (lock, owner record, socket
file), because the next holder takes each only from a process it finds dead; so
the owner that lives is the last one to have acquired, and whatever it does, it
does for itself. `Launching`: only the owner tends the worker, so between its
decision to replace a worker process and the record of the new one the recorded
process stays dead, and the new one waits at its startup gate until it is
recorded. `SupervisionProofs!IInv` is their conjunction with the types; each
action is taken twice, once for either fact.

*The journal.* First the file: `RecoveredAppend` says what one more line does to
the entry that `load` finds, `RecoveredCompact` that a compacted file is read
back as the entries it was written from. Then the invariant, per command: what
is on the connection (`SocketOK`), that the file knows every command that was
begun until its client is answered (`WorkOK`), what a client may have been told
(`ToldOK`), and that nothing is uncertain before something is lost (`LossOK`). A
client that is answered sends nothing more, so a command the file has forgotten
is never received again. `Tears = {}` is needed: with a torn append the file
loses a receipt, and `daemon_torn_journal` shows the second dispatch.

*Cron jobs.* `TicksOK`: a run time that was claimed or delivered is behind its
job's schedule and never due again, so a new claim is a new dispatch. `LanesOK`
and `ClaimsWait`: a dispatch waits in one lane, once, and the claims in the
artifacts the worker knows are just these. The step to watch is `Bind`: an
artifact that is new to the worker loses the claims of the last worker before
the jobs of other artifacts move to it; the other way round, a waiting dispatch
would lose its claim. `JobOK` says that an active recurring job always has a
next run time, which is what keeps the timer set when a dispatch ends.

*The agent loop.* `AgentLoopProofs!IInv` joins what the loop's locals say to what
the transcript says. `BatchOK`: while tools run, the answer they belong to is in
the transcript and everything behind it is the results published so far, so the
next results are appended where `AnsweredInOrder` wants them. `ToolsOK`: a tool
that is alive is one the batch still waits for, or an abort has cut its batch.
`PendingOK`: at every exit of the loop, and wherever a poll overwrites `pending`,
nothing is pending, which is what keeps messages. `SteeringOK`: steering is
pending only while none was said since the last answer, and a loop started by
`continue` with drained steering skips its first poll; this is why
`skipInitialSteeringPoll` exists. `ContextIsTranscript` is the invariant behind
`RequestsAnswerCalls`: every result in the transcript stands behind the answer
with its call and the results of the calls before it, a gap being possible only
at the end of an aborted answer. `Replayed` is a recursive function over the
transcript; what it makes of each prefix is shown with the shortest prefix for
which it would fail.

*Session prompts.* `SessionActionsProofs!IInv` is a table, `PromptOK`: for each
lifecycle of a prompt, what its two promises say, whether a capture is on, and
in which of `run.todo`, `transcript`, `events` and `persisted` it is. A prompt
that waits is in none (`Fresh`), one that was taken in is in the file or its
event is queued (`Kept`); `TicketsAreTrue` reads this off the table. The table
needs that no sequence holds a prompt twice (`SequencesOK`, which is also
`PromptsAreTakenOnce`), or the removal of one copy would leave another behind;
that the queue of events tells of a message once and that a backoff sleeps on
the `agent_end` at its head (`EventsOK`), or an abort would cut a message out;
and that the commit fence is held by whoever is at its head (`FenceOK`), or a
prompt could leave it for another. `CheckpointOK` says that nothing leaves the
queue between the wait of `waitForSessionInputCheckpoint` and the release of the
pause. Most of the forty actions do not touch most of this: `Kinds` sorts them
once by what they touch (`Footprint`), and each part of the invariant has its
cases only for the rest. The filters of the store are recursive functions
(`Only`); what they return is shown by way of the least number for which it
would fail (`Least`), since the induction theorems of the library are out of
reach here.

Whether a prompt sleeps is a question of who wakes the pump. `WakesOK`: where a
prompt can be selected and no wake was forgotten (`unwoken`), a pump is on, or
chained behind one, or a run, a retry, a shell command, a pause or an abort is
there whose end schedules one; and a requested pump has one chained. Every step
that takes the last of these away schedules a pump (`Scheduled`, `Looped`) or is
one of the four that set `unwoken`, so that `NoPromptSleeps` says there is no
fifth.

The order of the queues is kept by `OrderInv`. `LinesOK`: the batch, `run.todo`,
the events, the transcript and the file each stand in the order of admission, per
queue; what was taken in is before what is still to be taken in, and what is in the
file before what the events are still to bring there. `QueuesOK`:
before a prompt that was taken or is being prepared nobody waits in its queue, and
before one that was selected at its admission nobody is left at all.
`PreparingOK`: who is being prepared is in the batch of the pump. The selection
takes the front of a queue and a rollback gives the whole batch back, with one
exception: a pump that has looked for a preselected prompt in vain may then find
one in the queue. `NoneIsOverlooked` excludes just this, the case of section 4,
and is assumed of the behaviour. TLC explored three prompts with it as a
constraint (10 million states, nobody is overtaken) and without it (somebody is).
`TakenInOrder` by itself is only true of the two prompts of `session_actions`.

The same assumption decides what a batch is prepared with (`BatchesArePrepared`).
`PreparationsOK`: a preparation is made for a prompt `p`, and those of the queue
that wait and are not behind `p` share it, its status and its execution policy
(`Shares`); who was not selected by the pump has none. As the pump takes a queue
from its front, a batch holds all of those that share or none of them; if `p` is
not in it, `p` was removed. `BatchOK`: a batch is of one queue and one policy.
`TurnsOK`: at the commit fence all that are being prepared are known to the pump,
and one of them is without a preparation only if another was removed, which makes
the pump prepare anew (`S` 5725). So at the dispatch nobody lacks a preparation,
all share that of the first, and it was made for the last or for one that is
gone. TLC checked `IInv` with these parts under the same constraint for three
prompts (two stops; a shell command; both queues) and for four (5.5 million
states), and without it finds the exception of section 4 with four prompts.

The inductive invariants were checked with TLC on small instances before they
were proved.

*Only model-checked:* liveness (`CallsReturn`, `LeaseComesBack`,
`AloneIsAnswered`, `DueIsClaimed`, `BegunEnds`, `AbortEndsRun`), which is out of
the prover's reach. `TakenInOrder` and `PreparedForTheLast` are proved of the
behaviours without the exceptions of section 4, and checked as they stand on an
instance that is too small for them.

## 6. Not modelled

* Prompts, models, output contents, paths, digests, output validation: data that
  no property tells apart. An attempt's outputs are valid or not, as the child
  chooses.
* SQLite and the file system: a transaction, an append or a rename is atomic,
  except the append a crash cuts short in `CommandJournal`.
* `Flow.map` and `Flow.artifacts`, which only call `task` and read.
* What the supervisor's commands do, and several clients at once: command keys
  contain the client's id, so clients share nothing in the journal.
* In `Supervision`: more than one worker (they meet only at the socket); a
  process whose identity cannot be read; intentional stops with their tombstones,
  owner cleanup, eviction, `retry_worker`, shutdown together with the workers, the
  startup fence of an update, the catalog. Sections under the registry guard and
  the taking of a lock are atomic, and a kill takes effect at once. A supervisor
  that died without a trace may return as a fresh process, so that few names
  stand for many.
* The eviction fence around `Dispatch` in `CommandJournal`.
* In `CronJobs`: schedule syntax, the mode without a worker, a clock that steps
  back, why a busy session skips a run.
* In `SessionActions`: session commands, compaction, refinement, coalescing by
  `queueKey`, context messages for the next turn, placing a prompt at the front,
  `dispose`, more than one pause at once, tickets settled without a durable
  delivery, extensions other than as callbacks that return or throw.
* In `AgentLoop`: streaming deltas, `reset` (it has no caller), listeners that
  are not synchronous (none is).
* The components marked `not_modelled` in `PROJECT.json`, with their reasons.

The model covers a small share of the repository's lines: three quarters of them
are rendering, provider formats, generated tables, package management and
examples, where there is no protocol to check. It covers the parts where several
processes or callbacks share durable state.

## 7. Plan

Done, in this order: `FlowGraph`, `FlowState`, `FlowExecutor`, `FlowScheduler`,
`FlowRecovery`, `FlowRuntime` with `FlowContract`; `FlowLease` with its proofs;
`CommandJournal`; the invariant of a flow and its theorems; `AgentLoop`;
`CronJobs`; `SessionActions`; `Supervision` with its proofs; the proofs about
`CommandJournal`, `CronJobs` and `AgentLoop`; the children, resources, commits and
blocked tasks of a flow, and its refinement of `FlowContract`; the prompts of a
session: tickets, checkpoint, each taken once; the ledger of a flow, what a
provider is sent, who wakes the pump, the order of the queues and what a batch is
prepared with.

Next:

1. `WorkerRecovery`: intentional stops, tombstones, owner cleanup and eviction on
   top of `Supervision`; the worker's recovery journal; `Supervision` composed
   with `CommandJournal`.
2. `SessionLease`: claim, heartbeat and takeover of a session file.
3. `SessionActions`: session commands and compaction in the pump.
4. `Promotion` (Evolution Lab) and `Worktrees` (Workspace Manager): crash between
   file-system steps.
5. Proofs: the liveness properties, with a prover that knows `ENABLED`.

Runs are kept few: instances of one module are merged before new ones are added.
