------------------------------- MODULE CronJobs -------------------------------
(***************************************************************************)
(* Scheduled prompts of a session worker: the job files of its sessions    *)
(* (AgentCronJobStore), the timer and the dispatch lanes of                *)
(* AgentCronScheduler, the delivery in daemon-mode.ts, and what moves jobs *)
(* about: sessions that are opened, switched, closed and killed, crashes,  *)
(* and update restarts.                                                    *)
(*                                                                         *)
(* Time is abstract: a run time is none, ahead or past.  The clock never   *)
(* steps back: the store drops a write whose updatedAt is older than the   *)
(* one on disk.  Every store operation is one step: it runs without an     *)
(* await, and one process has a session's files at a time.                 *)
(***************************************************************************)
EXTENDS Naturals, FiniteSets, SequencesExt

CONSTANTS
    Jobs,           \* jobs that may be created
    Kind,           \* Kind[j]: "once", "cron" or "heartbeat" (the user's)
    Sessions,       \* session files, each with its artifact directory
    Runtimes,       \* ids of active sessions of the worker
    None,
    MaxTicks,       \* bound: run times of a job that pass
    MaxCrashes      \* bound: ends of the worker process

ASSUME CronAssumption ==
    /\ IsFiniteSet(Jobs) /\ Kind \in [Jobs -> {"once", "cron", "heartbeat"}]
    /\ None \notin Sessions \cup Runtimes
    /\ MaxTicks \in Nat /\ MaxCrashes \in Nat

VARIABLES
    job,            \* AgentCronJob of each job; file says whose artifact holds it
    claims,         \* the dispatch records on disk
    registered,     \* sessionArtifactFiles
    open,           \* the session of each runtime
    up, stopped,    \* the worker runs; AgentCronScheduler.stopped
    timer,          \* a timeout is set
    lane,           \* dispatchLanes, by activeSessionId at the claim
    step,           \* where the first dispatch of a lane is
    phase,          \* updateRestart
    deliveries,     \* prompts handed to a session
    crashes

store == <<job, claims>>
sessions == <<registered, open>>
scheduler == <<stopped, timer, lane, step>>
vars == <<store, sessions, up, scheduler, phase, deliveries, crashes>>

Live == {"active", "paused"}
NoJob == [status |-> "none", next |-> "none", tick |-> 0, file |-> None, bound |-> None]
Dispatch(j) == [job |-> j, tick |-> job[j].tick]

Init ==
    /\ job = [j \in Jobs |-> NoJob] /\ claims = {}
    /\ registered = {} /\ open = [r \in Runtimes |-> None]
    /\ up = TRUE /\ stopped = FALSE /\ timer = FALSE
    /\ lane = [r \in Runtimes |-> <<>>] /\ step = [r \in Runtimes |-> "queued"]
    /\ phase = "none" /\ deliveries = <<>> /\ crashes = 0

\* readJobs sees the registered artifacts only.
Visible(js, files) == {j \in Jobs : js[j].status # "none" /\ js[j].file \in files}
Claimed(j) == \E c \in claims : c.job = j
IsDue(j) == job[j].status = "active" /\ job[j].next = "due"

\* nextActiveRunAt is defined.
HasNextRun(js, files) ==
    \E j \in Visible(js, files) : js[j].status = "active" /\ js[j].next # "none"

\* nextRunAtForSchedule and withoutNextRunAt.
Advanced(j) == IF Kind[j] = "once" THEN "none" ELSE "later"
Ended(j) == IF Kind[j] = "once" THEN "completed" ELSE "active"

\* AgentCronScheduler.wake.
Wake == timer' = (timer \/ ~stopped)

-----------------------------------------------------------------------------
(* The store's operations, as the worker calls them.                       *)

Accepting == up /\ phase # "prepared"

\* create, createHeartbeat: a user's heartbeat takes the place of the others
\* of its session.
Create(j, r) ==
    /\ Accepting /\ job[j].status = "none" /\ open[r] # None
    /\ job' = [k \in Jobs |->
            IF k = j THEN [NoJob EXCEPT !.status = "active", !.next = "later",
                                        !.file = open[r], !.bound = r]
            ELSE IF /\ Kind[j] = "heartbeat" /\ Kind[k] = "heartbeat"
                    /\ k \in Visible(job, registered)
                    /\ job[k].bound = r /\ job[k].status \in Live
            THEN [job[k] EXCEPT !.status = "cancelled", !.next = "none"]
            ELSE job[k]]
    /\ Wake
    /\ UNCHANGED <<claims, sessions, up, stopped, lane, step, phase, deliveries, crashes>>

Manage(j, status, next) ==
    /\ job' = [job EXCEPT ![j].status = status, ![j].next = next]
    /\ UNCHANGED <<claims, sessions, up, stopped, lane, step, phase, deliveries, crashes>>

\* pauseHeartbeat, resumeHeartbeat, manageHeartbeat.
Pause(j) ==
    /\ Accepting /\ j \in Visible(job, registered)
    /\ Kind[j] = "heartbeat" /\ job[j].status \in Live
    /\ Manage(j, "paused", "none") /\ Wake

\* Mutant: resuming does not wake the scheduler.
ResumeAsleep(j) ==
    /\ Accepting /\ j \in Visible(job, registered)
    /\ Kind[j] = "heartbeat" /\ job[j].status \in Live
    /\ Manage(j, "active", "later") /\ UNCHANGED timer

Resume(j) ==
    /\ Accepting /\ j \in Visible(job, registered)
    /\ Kind[j] = "heartbeat" /\ job[j].status \in Live
    /\ Manage(j, "active", "later") /\ Wake

\* cancel.
Cancel(j) ==
    /\ Accepting /\ j \in Visible(job, registered) /\ job[j].status # "cancelled"
    /\ Manage(j, "cancelled", "none") /\ Wake

-----------------------------------------------------------------------------
(* Sessions.                                                               *)

\* recoverInterruptedInState for the jobs of one artifact.
Interrupted(s) == {c \in claims : job[c.job].file = s}
Recovered(s) ==
    [j \in Jobs |->
        IF job[j].status = "active" /\ \E c \in Interrupted(s) : c.job = j
        THEN [job[j] EXCEPT !.status = Ended(j)] ELSE job[j]]

\* rebindSessionJobs: the jobs bound to the runtime and those of its file.
Rebound(js, files, r, s) ==
    [j \in Jobs |->
        IF j \in Visible(js, files) /\ (js[j].bound = r \/ js[j].file = s)
        THEN [js[j] EXCEPT !.file = s, !.bound = r] ELSE js[j]]

\* Mutant: the jobs move to the artifact before it is recovered.
BindLate(r, s) ==
    LET fresh == s \notin registered
        files == registered \cup {s}
        bound == Rebound(job, files, r, s)
        lost == {c \in claims : fresh /\ bound[c.job].file = s}
    IN  /\ registered' = files
        /\ claims' = claims \ lost
        /\ job' = [j \in Jobs |->
                IF bound[j].status = "active" /\ \E c \in lost : c.job = j
                THEN [bound[j] EXCEPT !.status = Ended(j)] ELSE bound[j]]
        /\ timer' = (timer \/ ~stopped)

\* registerCronStoreForState, then rebindCronJobsToState: an artifact that is
\* new to the worker loses the claims a former worker left in it.
Bind(r, s) ==
    LET fresh == s \notin registered
        files == registered \cup {s}
        recovered == IF fresh THEN Recovered(s) ELSE job
    IN  /\ registered' = files
        /\ claims' = IF fresh THEN claims \ Interrupted(s) ELSE claims
        /\ job' = Rebound(recovered, files, r, s)
        /\ IF fresh \/ \E j \in Jobs : job'[j] # recovered[j] /\ job'[j].status = "active"
           THEN Wake ELSE UNCHANGED timer

\* A session is opened in a new runtime, or takes the place of another one in
\* its runtime (switch, fork, new session).
OpenSession(r, s) ==
    /\ Accepting /\ s \notin Range(open)
    /\ open' = [open EXCEPT ![r] = s]
    /\ Bind(r, s)
    /\ UNCHANGED <<up, stopped, lane, step, phase, deliveries, crashes>>

\* A session that is closed keeps its jobs; killing it cancels them.
CloseSession(r, killed) ==
    /\ up /\ open[r] # None
    /\ open' = [open EXCEPT ![r] = None]
    /\ IF killed
       THEN /\ job' = [j \in Jobs |->
                    IF /\ j \in Visible(job, registered) /\ job[j].status \in Live
                       /\ (job[j].bound = r \/ job[j].file = open[r])
                    THEN [job[j] EXCEPT !.status = "cancelled", !.next = "none"]
                    ELSE job[j]]
            /\ IF job' # job THEN Wake ELSE UNCHANGED timer
       ELSE UNCHANGED <<job, timer>>
    /\ UNCHANGED <<claims, registered, up, stopped, lane, step, phase, deliveries, crashes>>

-----------------------------------------------------------------------------
(* The scheduler.                                                          *)

RunTimePasses(j) ==
    /\ job[j].status = "active" /\ job[j].next = "later" /\ job[j].tick < MaxTicks
    /\ job' = [job EXCEPT ![j].next = "due", ![j].tick = @ + 1]
    /\ UNCHANGED <<claims, sessions, up, scheduler, phase, deliveries, crashes>>

\* due, isDueJob.
DueJobs == {j \in Visible(job, registered) : IsDue(j)}
NewDispatches == {Dispatch(j) : j \in {k \in DueJobs : ~Claimed(k)}}

\* Mutant: the schedule is advanced when the dispatch ends.
ClaimedUnadvanced == job

\* claimDueInState: every due job advances, claimed or not.
ClaimedJobs == [j \in Jobs |-> IF j \in DueJobs THEN [job[j] EXCEPT !.next = Advanced(j)]
                               ELSE job[j]]

\* Mutant: the timer is not set again after it fired.
RunDueOnce ==
    /\ up /\ timer /\ ~stopped
    /\ job' = ClaimedJobs /\ claims' = claims \cup NewDispatches
    /\ lane' = [r \in Runtimes |->
            lane[r] \o SetToSeq({d \in NewDispatches : job[d.job].bound = r})]
    /\ timer' = FALSE
    /\ UNCHANGED <<sessions, up, stopped, step, phase, deliveries, crashes>>

\* runDue, called by the timer: claim, fill the lanes, set the next timer.
RunDue ==
    /\ up /\ timer /\ ~stopped
    /\ job' = ClaimedJobs /\ claims' = claims \cup NewDispatches
    /\ lane' = [r \in Runtimes |->
            lane[r] \o SetToSeq({d \in NewDispatches : job[d.job].bound = r})]
    /\ timer' = HasNextRun(ClaimedJobs, registered)
    /\ UNCHANGED <<sessions, up, stopped, step, phase, deliveries, crashes>>

\* getRunnableCronJob and isCronJobRunnableForState.
Runnable(j) ==
    /\ job[j].status = "active" /\ job[j].file \in registered
    /\ Claimed(j) \/ job[j].next = "due"
OpenFor(j) == {r \in Runtimes : open[r] # None /\ open[r] = job[j].file}
RunnableFor(j) == Runnable(j) /\ job[j].bound \in OpenFor(j)

\* recordDispatchResult, and the end of the lane's first dispatch.
Record(r, outcome) ==
    LET d == Head(lane[r]) j == d.job IN
    /\ lane' = [lane EXCEPT ![r] = Tail(@)]
    /\ step' = [step EXCEPT ![r] = "queued"]
    /\ claims' = claims \ {d}
    /\ job' = IF d \notin claims \/ job[j].status # "active" THEN job
              ELSE [job EXCEPT ![j].status = Ended(j),
                               ![j].next = IF outcome = "skipped" THEN Advanced(j) ELSE @]
    /\ UNCHANGED <<sessions, up, stopped, timer, phase, deliveries, crashes>>

\* The first dispatch of a lane, at a given step.
AtStep(r, at) == up /\ lane[r] # <<>> /\ step[r] = at

\* A dispatch whose job has been cancelled or paused since is skipped.
StartDispatch(r) ==
    /\ AtStep(r, "queued")
    /\ LET j == Head(lane[r]).job IN
        IF job[j].status = "active" /\ Claimed(j)
        THEN /\ step' = [step EXCEPT ![r] = "session"]
             /\ UNCHANGED <<store, sessions, up, stopped, timer, lane, phase, deliveries,
                            crashes>>
        ELSE Record(r, "skipped")

\* getOrCreateCronJobSession finds the session open.
FindSession(r) ==
    /\ AtStep(r, "session")
    /\ LET j == Head(lane[r]).job IN
        /\ OpenFor(j) # {}
        /\ step' = [step EXCEPT ![r] = "ready"]
        /\ \E owner \in OpenFor(j) : Bind(owner, job[j].file)
    /\ UNCHANGED <<open, up, stopped, lane, phase, deliveries, crashes>>

\* It opens it; in the meantime anything may have happened.
CreateSession(r, owner) ==
    /\ AtStep(r, "session") /\ open[owner] = None /\ phase # "prepared"
    /\ LET j == Head(lane[r]).job IN
        /\ Runnable(j) /\ OpenFor(j) = {}
        /\ open' = [open EXCEPT ![owner] = job[j].file]
        /\ Bind(owner, job[j].file)
    /\ step' = [step EXCEPT ![r] = "ready"]
    /\ UNCHANGED <<up, stopped, lane, phase, deliveries, crashes>>

\* isPersistedCronJobRunnable: the session's file is gone or archived, and the
\* jobs of that file are cancelled.
SessionGone(r) ==
    /\ AtStep(r, "session")
    /\ LET j == Head(lane[r]).job IN
        /\ Runnable(j) /\ OpenFor(j) = {}
        /\ job' = [k \in Jobs |->
                IF /\ k \in Visible(job, registered) /\ job[k].status \in Live
                   /\ job[k].file = job[j].file
                THEN [job[k] EXCEPT !.status = "cancelled", !.next = "none"] ELSE job[k]]
    /\ Wake
    /\ UNCHANGED <<claims, sessions, up, stopped, lane, step, phase, deliveries, crashes>>

\* The job is not runnable any more, its session cannot be opened or is busy,
\* or the prompt fails.
EndDispatch(r) ==
    /\ AtStep(r, "session") \/ AtStep(r, "ready")
    /\ \E outcome \in {"skipped", "ran"} : Record(r, outcome)

\* Mutant: nothing is read again after the session was opened.
DeliverUnchecked(r) ==
    /\ AtStep(r, "ready")
    /\ deliveries' = Append(deliveries, Head(lane[r]))
    /\ step' = [step EXCEPT ![r] = "prompted"]
    /\ UNCHANGED <<store, sessions, up, stopped, timer, lane, phase, crashes>>

\* The last check and the prompt, without an await between them.
Deliver(r) ==
    /\ AtStep(r, "ready") /\ RunnableFor(Head(lane[r]).job)
    /\ deliveries' = Append(deliveries, Head(lane[r]))
    /\ step' = [step EXCEPT ![r] = "prompted"]
    /\ UNCHANGED <<store, sessions, up, stopped, timer, lane, phase, crashes>>

FinishDispatch(r) == AtStep(r, "prompted") /\ Record(r, "ran")

-----------------------------------------------------------------------------
(* The worker.                                                             *)

\* beginUpdateRestartTransaction.
PrepareRestart ==
    /\ up /\ phase = "none"
    /\ phase' = "preparing" /\ stopped' = TRUE /\ timer' = FALSE
    /\ UNCHANGED <<store, sessions, up, lane, step, deliveries, crashes>>

\* Mutant: a dispatch counts once it runs.
DrainRunning ==
    /\ up /\ phase = "preparing"
    /\ \A r \in Runtimes : lane[r] = <<>> \/ step[r] = "queued"
    /\ phase' = "prepared"
    /\ UNCHANGED <<store, sessions, up, scheduler, deliveries, crashes>>

\* waitForDrain: a dispatch counts from its claim on (beginDispatch).
Drain ==
    /\ up /\ phase = "preparing"
    /\ \A r \in Runtimes : lane[r] = <<>>
    /\ phase' = "prepared"
    /\ UNCHANGED <<store, sessions, up, scheduler, deliveries, crashes>>

\* cancelPreparedUpdateRestart; start() recovers nothing the second time.
CancelRestart ==
    /\ up /\ phase # "none"
    /\ phase' = "none" /\ stopped' = FALSE /\ timer' = HasNextRun(job, registered)
    /\ UNCHANGED <<store, sessions, up, lane, step, deliveries, crashes>>

\* The process ends, by a crash or after it prepared for it.  The id of one
\* runtime may come back with its session (restoreActiveSessionId), the others
\* are not used again.
Crash(kept) ==
    /\ up /\ crashes < MaxCrashes
    /\ crashes' = crashes + 1
    /\ up' = FALSE /\ registered' = {} /\ timer' = FALSE /\ stopped' = FALSE
    /\ open' = [r \in Runtimes |-> IF r = kept THEN open[r] ELSE None]
    /\ job' = [j \in Jobs |-> IF job[j].bound = kept THEN job[j]
                              ELSE [job[j] EXCEPT !.bound = None]]
    /\ phase' = "none"
    /\ lane' = [r \in Runtimes |-> <<>>] /\ step' = [r \in Runtimes |-> "queued"]
    /\ UNCHANGED <<claims, deliveries>>

\* start() recovers nothing, for no artifact is registered yet; then the session
\* that comes back is opened.
StartWorker ==
    /\ ~up /\ up' = TRUE
    /\ IF Range(open) = {None} THEN UNCHANGED <<store, registered, timer>>
       ELSE \E r \in Runtimes : open[r] # None /\ Bind(r, open[r])
    /\ UNCHANGED <<open, stopped, lane, step, phase, deliveries, crashes>>

-----------------------------------------------------------------------------
Owner ==
    \/ \E j \in Jobs : Pause(j) \/ Resume(j) \/ Cancel(j) \/ RunTimePasses(j)
    \/ \E j \in Jobs, r \in Runtimes : Create(j, r)
    \/ \E r \in Runtimes, s \in Sessions : OpenSession(r, s)
    \/ \E r \in Runtimes, killed \in BOOLEAN : CloseSession(r, killed)
    \/ PrepareRestart \/ Drain \/ CancelRestart \/ StartWorker
    \/ \E kept \in Runtimes \cup {None} : Crash(kept)

Lanes ==
    \E r \in Runtimes :
        \/ StartDispatch(r) \/ FindSession(r) \/ \E owner \in Runtimes : CreateSession(r, owner)
        \/ SessionGone(r) \/ Deliver(r) \/ FinishDispatch(r) \/ EndDispatch(r)

Next == RunDue \/ Lanes \/ Owner

\* A timeout that is set fires.
Spec == Init /\ [][Next]_vars /\ WF_vars(RunDue)

-----------------------------------------------------------------------------
(* Properties.                                                             *)

\* The shape of the state (AgentCronJob, AgentCronDispatchRecord).
TypeOK ==
    /\ job \in [Jobs -> [status : Live \cup {"none", "completed", "cancelled"},
                        next : {"none", "later", "due"}, tick : 0..MaxTicks,
                        file : Sessions \cup {None}, bound : Runtimes \cup {None}]]
    /\ claims \subseteq [job : Jobs, tick : 1..MaxTicks]
    /\ registered \subseteq Sessions /\ open \in [Runtimes -> Sessions \cup {None}]
    /\ up \in BOOLEAN /\ stopped \in BOOLEAN /\ timer \in BOOLEAN
    /\ lane \in [Runtimes -> Seq([job : Jobs, tick : 1..MaxTicks])]
    /\ step \in [Runtimes -> {"queued", "session", "ready", "prompted"}]
    /\ phase \in {"none", "preparing", "prepared"}
    /\ deliveries \in Seq([job : Jobs, tick : 1..MaxTicks])
    /\ crashes \in 0..MaxCrashes

\* Whatever crashes, restarts, pauses, closes or moves sessions, one run time of
\* a job is delivered at most once, and a one-time job altogether once
\* (daemon.md:72: "A crash therefore does not replay an uncertain prompt").
NoReplay ==
    \A m, n \in DOMAIN deliveries :
        deliveries[m] = deliveries[n]
            \/ (deliveries[m].job = deliveries[n].job /\ Kind[deliveries[n].job] = "once")
        => m = n

\* What a worker's lanes hold is what is claimed on disk in the artifacts it has
\* registered: no claim outlives its dispatch and blocks its job for good, and no
\* dispatch loses its claim while it waits, also when its job moves to another
\* session's artifact (recoverSessionArtifact, writeJobs).
ClaimsAreDispatches ==
    up => /\ \A c \in claims : job[c.job].file \in registered =>
                \E r \in Runtimes : c \in ToSet(lane[r])
          /\ \A r \in Runtimes : ToSet(lane[r]) \subseteq claims

\* While the scheduler is started, a run time ahead of a job it can see has a
\* timeout set, so the job cannot fall asleep (the wake() calls of daemon-mode.ts
\* and the scheduleNext calls of the scheduler).
NextRunIsArmed == up /\ ~stopped /\ HasNextRun(job, registered) => timer

\* An update restart is prepared only when no claim is left: none that runs and
\* none that waits in a lane (beginDispatch, MutationDrainLatch).
RestartIsQuiet ==
    phase = "prepared" =>
        /\ \A r \in Runtimes : lane[r] = <<>>
        /\ \A c \in claims : job[c.job].file \notin registered

\* A prompt reaches a session only while its job is active, whatever was
\* cancelled, paused, closed or switched while its session was being opened, and
\* it reaches the session the job belongs to (runCronJob's repeated checks).
DeliveredWhileActive ==
    [][deliveries' # deliveries =>
            LET j == Last(deliveries').job IN
            job[j].status = "active" /\ open[job[j].bound] = job[j].file]_vars

\* A run time that has passed is claimed, or skipped because the last one is
\* still being delivered, unless the worker ends or prepares for it.
DueIsClaimed ==
    \A j \in Jobs :
        (up /\ ~stopped /\ j \in DueJobs) ~> (~up \/ stopped \/ j \notin DueJobs)
=============================================================================
