----------------------------- MODULE SessionActions -----------------------------
(***************************************************************************)
(* The prompts of a session (agent-session.ts, session-action-store.ts):   *)
(* their admission behind the commit fence, the two queues, the pump that  *)
(* prepares and dispatches them in batches, the runs of the agent and the  *)
(* queue of its events, retries, and whatever interrupts this: abort,      *)
(* pauses with their checkpoint, cleared and taken back prompts, bash.     *)
(*                                                                         *)
(* One action runs from one await to the next.  Session commands,          *)
(* compaction, refinement and the injected context messages are left out.  *)
(***************************************************************************)
EXTENDS Naturals, FiniteSets, SequencesExt

CONSTANTS
    Actions,        \* prompts that may arrive
    Delivery,       \* streamingBehavior: "steer" or "followUp"
    Batching,       \* steeringMode, followUpMode: "all" or "one"
    None,
    Shells,         \* bash commands: "user" (runUserBash), "raw" (executeBash)
    MaxRetries,     \* retry.maxRetries
    MaxStops        \* bound: aborts, pauses, clears and prompts taken back

Policies == {"steer", "followUp"}

ASSUME SessionAssumption ==
    /\ Delivery \in [Actions -> Policies]
    /\ Batching \in [Policies -> {"all", "one"}]
    /\ MaxRetries \in Nat /\ MaxStops \in Nat
    /\ Actions \cap {None, "pump", "checkpoint"} = {} /\ Shells \subseteq {"user", "raw"}

VARIABLES
    admitted,       \* the actions in the order of their admission
    act,            \* SessionAction: lifecycle, queueVisible, preparation, capture
    ticket,         \* ActionTicket: delivered, completed
    door,           \* where the caller of prompt() is
    fence,          \* _sessionActionCommitTail: the head holds the fence
    sched,          \* the flags of the scheduler; chain: pumps not yet started
    pump,           \* the pump that runs
    run,            \* the agent's run; todo: prompts it has not taken in yet
    transcript,     \* agent.state.messages, prompts only
    persisted,      \* the session file, prompts only
    events,         \* _agentEventQueue
    retry,          \* _retryPromise, the backoff, the timeout of continue()
    bash,           \* the bash command that runs
    checkpoint,     \* waitForSessionInputCheckpoint, for the pause held
    stops,
    unwoken         \* a wake was due and not given: see NothingSleeps

admission == <<door, fence>>
input == <<admitted, act, ticket>>
agent == <<run, transcript>>
vars == <<input, admission, sched, pump, agent, persisted, events, retry, bash, checkpoint,
          stops, unwoken>>

Clearable == {"queued", "selected", "preparing"}
Active == {"selected", "preparing", "committing", "running"}
Terminal == {"completed", "failed", "cancelled"}

NewAction == [st |-> "new", visible |-> FALSE, prep |-> None, durable |-> FALSE, capture |-> "no"]
NoPump == [pc |-> "off", epoch |-> 0, pre |-> None, batch |-> <<>>, turns |-> <<>>, anchor |-> None]
NoRun == [st |-> "idle", todo |-> <<>>, aborted |-> FALSE]

Init ==
    /\ admitted = <<>> /\ act = [a \in Actions |-> NewAction]
    /\ ticket = [a \in Actions |-> [delivered |-> "open", completed |-> "open"]]
    /\ door = [a \in Actions |-> "out"] /\ fence = <<>>
    /\ sched = [requested |-> FALSE, epoch |-> 0, suspended |-> FALSE, paused |-> FALSE,
                chain |-> <<>>]
    /\ pump = NoPump /\ run = NoRun
    /\ transcript = <<>> /\ persisted = <<>> /\ events = <<>>
    /\ retry = [promise |-> FALSE, sleeping |-> FALSE, timer |-> FALSE, attempt |-> 0]
    /\ bash = "none" /\ checkpoint = "none" /\ stops = 0 /\ unwoken = FALSE

-----------------------------------------------------------------------------
(* What the code asks before it goes on.                                   *)

\* The elements of a sequence that are in A, in their order (a filter in the code):
\* SelectSeq, written so that one can reason about it.
Only(seq, A) ==
    LET kept[n \in 0..Len(seq)] ==
            IF n = 0 THEN <<>>
            ELSE IF seq[n] \in A THEN Append(kept[n - 1], seq[n]) ELSE kept[n - 1]
    IN  kept[Len(seq)]

Having(ac, states) == {a \in Actions : ac[a].st \in states}
Unfinished == Having(act, Clearable \cup {"committing", "running"})
Selectable(ac) == Having(ac, {"queued", "selected"}) # {}

Streaming == run.st # "idle"
BashRunning == bash \in {"user", "raw"}
Held == sched.suspended \/ sched.paused
BusyPreflight == retry.promise \/ BashRunning \/ Unfinished # {}
BusyPump == retry.promise \/ BashRunning \/ Held
\* canSelectSessionAction; _canStartSessionActionImmediately asks the same.
CanSelect == ~Streaming /\ ~BusyPump

\* Cancelled prompts whose dispatch has not ended (captureRunMessages).
Captured == {a \in Actions : act[a].capture = "on"}
\* Prompts whose message is not processed yet.
Pending == {events[n].action : n \in DOMAIN events}
Without(seq, A) == Only(seq, Actions \ A)

\* _scheduleSessionInputPump, with the actions as they are afterwards.
Scheduled(s, ac) ==
    IF s.suspended \/ s.paused \/ s.requested \/ ~Selectable(ac) THEN s
    ELSE [s EXCEPT !.requested = TRUE, !.chain = Append(@, s.epoch)]

-----------------------------------------------------------------------------
(* prompt(): a prompt that finds no run takes the fence first, and lifts   *)
(* the suspension an abort has left.                                       *)

Arrive(a) ==
    /\ door[a] = "out"
    /\ door' = [door EXCEPT ![a] = IF Streaming THEN "open"
                                   ELSE IF sched.paused THEN "paused" ELSE "fence"]
    /\ fence' = IF door'[a] = "fence" THEN Append(fence, a) ELSE fence
    /\ sched' = [sched EXCEPT !.suspended = @ /\ Streaming]
    /\ unwoken' = (unwoken \/ sched' # sched)
    /\ UNCHANGED <<input, pump, agent, persisted, events, retry, bash, checkpoint, stops>>

\* _assertSessionActionAdmissionAvailable throws.
Refuses == sched.suspended /\ Unfinished # {}

\* A pause is over, and the caller queues for the fence again.
Return(a) ==
    /\ door[a] = "paused" /\ ~sched.paused
    /\ door' = [door EXCEPT ![a] = IF Refuses THEN "done" ELSE "fence"]
    /\ fence' = IF Refuses THEN fence ELSE Append(fence, a)
    /\ UNCHANGED <<input, sched, pump, agent, persisted, events, retry, bash, checkpoint, stops,
                   unwoken>>

Enter(a) ==
    /\ door[a] = "fence" /\ Head(fence) = a
    /\ door' = [door EXCEPT ![a] = IF sched.paused THEN "paused"
                                   ELSE IF Refuses THEN "done" ELSE "in"]
    /\ fence' = IF door'[a] = "in" THEN fence ELSE Tail(fence)
    /\ UNCHANGED <<input, sched, pump, agent, persisted, events, retry, bash, checkpoint, stops,
                   unwoken>>

Leave(a) ==
    /\ door[a] \in {"in", "open"}
    /\ door' = [door EXCEPT ![a] = "done"]
    /\ fence' = IF door[a] = "in" THEN Tail(fence) ELSE fence

\* Mutant: a prompt starts at once although others wait.
AdmitAhead(a, queueIfBusy) ==
    LET visible == Streaming \/ (queueIfBusy /\ BusyPreflight)
        immediate == ~visible \/ (queueIfBusy /\ CanSelect)
    IN  /\ Leave(a)
        /\ admitted' = Append(admitted, a)
        /\ act' = [act EXCEPT ![a].st = IF ~visible /\ CanSelect THEN "selected" ELSE "queued",
                              ![a].visible = visible]
        /\ sched' = IF immediate \/ (Delivery[a] = "steer" /\ Streaming)
                    THEN Scheduled([sched EXCEPT !.suspended = @ /\ ~immediate], act')
                    ELSE sched
        /\ UNCHANGED <<ticket, pump, agent, persisted, events, retry, bash, checkpoint, stops,
                       unwoken>>

\* The input handlers are done, and _admitSessionInput enqueues the prompt.
\* A prompt that can start at once is selected at once.
Admit(a, queueIfBusy) ==
    LET visible == Streaming \/ (queueIfBusy /\ BusyPreflight)
        immediate == ~visible \/ (queueIfBusy /\ CanSelect)
        starts == ~visible /\ CanSelect /\ Unfinished = {}
    IN  /\ Leave(a)
        /\ admitted' = Append(admitted, a)
        /\ act' = [act EXCEPT ![a].st = IF starts THEN "selected" ELSE "queued",
                              ![a].visible = visible]
        /\ sched' = IF immediate \/ (Delivery[a] = "steer" /\ Streaming)
                    THEN Scheduled([sched EXCEPT !.suspended = @ /\ ~immediate], act')
                    ELSE sched
        /\ UNCHANGED <<ticket, pump, agent, persisted, events, retry, bash, checkpoint, stops,
                       unwoken>>

\* An extension command, or an input handler that takes the prompt.
Handle(a) ==
    /\ Leave(a)
    /\ UNCHANGED <<input, sched, pump, agent, persisted, events, retry, bash, checkpoint, stops,
                   unwoken>>

-----------------------------------------------------------------------------
(* _pumpSessionInputs, up to the dispatch.                                 *)

Stale == pump.epoch # sched.epoch
Deferred == Stale \/ BusyPump
\* A stale pump wakes nobody; who began the new epoch may have found nothing to wake.
Forgotten == unwoken \/ (Stale /\ ~Held)

\* The head of the pump's loop.
Looped(ac) == IF Selectable(ac) THEN [NoPump EXCEPT !.pc = "idle", !.epoch = pump.epoch] ELSE NoPump

PumpStarts ==
    /\ pump.pc = "off" /\ sched.chain # <<>>
    /\ sched' = [sched EXCEPT !.requested = FALSE, !.chain = Tail(@)]
    /\ pump' = IF Selectable(act) THEN [NoPump EXCEPT !.pc = "idle", !.epoch = Head(sched.chain)]
               ELSE NoPump
    /\ unwoken' = (unwoken /\ Head(sched.chain) # sched.epoch)
    /\ UNCHANGED <<input, admission, agent, persisted, events, retry, bash, checkpoint, stops>>

\* agent.waitForIdle; a pump of an old epoch gives its selected action back.
PumpFindsAgentIdle ==
    /\ pump.pc = "idle" /\ ~Streaming
    /\ act' = [a \in Actions |-> IF Stale /\ act[a].st = "selected"
                                 THEN [act[a] EXCEPT !.st = "queued"] ELSE act[a]]
    /\ pump' = IF Stale THEN NoPump
               ELSE [pump EXCEPT !.pc = IF Captured = {} THEN "events" ELSE "select",
                                 !.pre = IF Having(act, {"selected"}) = {} THEN None
                                         ELSE CHOOSE a \in Actions : act[a].st = "selected"]
    /\ unwoken' = Forgotten
    /\ UNCHANGED <<admitted, ticket, admission, sched, agent, persisted, events, retry, bash,
                   checkpoint, stops>>

PumpFindsEventsDone ==
    /\ pump.pc = "events" /\ events = <<>>
    /\ pump' = [pump EXCEPT !.pc = "select"]
    /\ UNCHANGED <<input, admission, sched, agent, persisted, events, retry, bash, checkpoint,
                   stops, unwoken>>

QueuedIn(policy) == Only(admitted, {a \in Having(act, {"queued"}) : Delivery[a] = policy})

\* Steering comes first; in mode "all" the prompts behind the first that have
\* its execution policy come with it.
Batch ==
    LET queue == IF QueuedIn("steer") # <<>> THEN QueuedIn("steer") ELSE QueuedIn("followUp")
        alike == {n \in DOMAIN queue :
                     \A m \in 1..n : act[queue[m]].visible = act[Head(queue)].visible}
    IN  IF queue = <<>> THEN <<>>
        ELSE IF Batching[Delivery[Head(queue)]] = "one" THEN <<Head(queue)>>
        ELSE SubSeq(queue, 1, Cardinality(alike))

Becomes(A, st) == [a \in Actions |-> IF a \in A THEN [act[a] EXCEPT !.st = st] ELSE act[a]]

PumpIsBlocked ==
    /\ pump.pc = "select" /\ (Stale \/ ~CanSelect)
    /\ pump' = NoPump /\ unwoken' = Forgotten
    /\ UNCHANGED <<input, admission, sched, agent, persisted, events, retry, bash, checkpoint,
                   stops>>

\* What the pump had found selected is cancelled, or nothing is left to select.
PumpFindsNothing ==
    /\ pump.pc = "select" /\ ~Stale /\ CanSelect
    /\ IF pump.pre = None THEN Batch = <<>> ELSE act[pump.pre].st # "selected"
    /\ pump' = NoPump /\ sched' = Scheduled(sched, act)
    /\ UNCHANGED <<input, admission, agent, persisted, events, retry, bash, checkpoint, stops,
                   unwoken>>

PumpSelects ==
    LET batch == IF pump.pre = None THEN Batch ELSE <<pump.pre>> IN
    /\ pump.pc = "select" /\ ~Stale /\ CanSelect
    /\ batch # <<>> /\ (pump.pre # None => act[pump.pre].st = "selected")
    /\ act' = Becomes(Range(batch), "preparing")
    /\ pump' = [pump EXCEPT !.pc = "validate", !.batch = batch]
    /\ UNCHANGED <<admitted, ticket, admission, sched, agent, persisted, events, retry, bash,
                   checkpoint, stops, unwoken>>

\* The turns of the batch that nobody has cancelled yet.
ActiveTurns == Only(pump.batch, Having(act, {"preparing"}))

\* A DeferredSessionInputError, or any error while the session is busy: what is
\* not delivered goes back to the queue, preparation and all.
Defers ==
    /\ act' = Becomes(Range(ActiveTurns), "queued")
    /\ pump' = IF Deferred THEN NoPump ELSE Looped(act')
    /\ unwoken' = Forgotten
    /\ UNCHANGED <<admitted, ticket>>

\* Another error fails the batch.
Fails ==
    /\ act' = Becomes(Range(ActiveTurns), "failed")
    /\ ticket' = [a \in Actions |-> IF a \in Range(ActiveTurns)
                                    THEN [delivered |-> "rejected", completed |-> "error"]
                                    ELSE ticket[a]]
    /\ pump' = Looped(act') /\ UNCHANGED <<admitted, unwoken>>

\* _validateCanStartAgentRun, afterValidation.
Validated(valid) ==
    /\ pump.pc = "validate"
    /\ IF Deferred THEN Defers
       ELSE IF valid THEN pump' = [pump EXCEPT !.pc = "extend"] /\ UNCHANGED <<input, unwoken>>
       ELSE Fails
    /\ UNCHANGED <<admission, sched, agent, persisted, events, retry, bash, checkpoint, stops>>

Unprepared == \E a \in Range(ActiveTurns) : act[a].prep = None

\* before_agent_start is emitted for the last turn, or the batch is ready for
\* the fence, or all of it has been cancelled.
PumpPrepares ==
    /\ pump.pc = "extend"
    /\ IF Deferred THEN Defers /\ UNCHANGED fence
       ELSE /\ pump' = IF Unprepared THEN [pump EXCEPT !.pc = "extended", !.anchor = Last(ActiveTurns)]
                       ELSE IF ActiveTurns = <<>> THEN Looped(act)
                       ELSE [pump EXCEPT !.pc = "fence", !.turns = ActiveTurns]
            /\ fence' = IF Unprepared \/ ActiveTurns = <<>> THEN fence ELSE Append(fence, "pump")
            /\ UNCHANGED <<input, unwoken>>
    /\ UNCHANGED <<door, sched, agent, persisted, events, retry, bash, checkpoint, stops>>

\* Mutant: a turn that was prepared before keeps its old preparation.
PumpPreparesTheRest ==
    /\ pump.pc = "extended"
    /\ act' = IF ActiveTurns # <<>> /\ Last(ActiveTurns) = pump.anchor
              THEN [a \in Actions |-> IF a \in Range(ActiveTurns) /\ act[a].prep = None
                                      THEN [act[a] EXCEPT !.prep = pump.anchor] ELSE act[a]]
              ELSE act
    /\ pump' = [pump EXCEPT !.pc = "extend"]
    /\ UNCHANGED <<admitted, ticket, admission, sched, agent, persisted, events, retry, bash,
                   checkpoint, stops, unwoken>>

\* The handlers answer; their answer counts if their turn is still the last.
PumpIsPrepared ==
    /\ pump.pc = "extended"
    /\ act' = IF ActiveTurns # <<>> /\ Last(ActiveTurns) = pump.anchor
              THEN [a \in Actions |-> IF a \in Range(ActiveTurns)
                                      THEN [act[a] EXCEPT !.prep = pump.anchor] ELSE act[a]]
              ELSE act
    /\ pump' = [pump EXCEPT !.pc = "extend"]
    /\ UNCHANGED <<admitted, ticket, admission, sched, agent, persisted, events, retry, bash,
                   checkpoint, stops, unwoken>>

\* Behind the fence everything is asked again, and the run begins.
PumpDispatches ==
    /\ pump.pc = "fence" /\ Head(fence) = "pump"
    /\ fence' = Tail(fence)
    /\ IF Deferred \/ Streaming \/ ActiveTurns # pump.turns
       THEN Defers /\ UNCHANGED run
       ELSE /\ act' = Becomes(Range(pump.turns), "committing")
            /\ run' = [NoRun EXCEPT !.st = "running", !.todo = pump.turns]
            /\ pump' = [pump EXCEPT !.pc = "run"]
            /\ UNCHANGED <<admitted, ticket, unwoken>>
    /\ UNCHANGED <<door, sched, transcript, persisted, events, retry, bash, checkpoint, stops>>

-----------------------------------------------------------------------------
(* The agent's run and its events.                                         *)

\* message_start and message_end of a prompt (_handleAgentEvent).
TakeIn ==
    LET a == Head(run.todo) IN
    /\ run.st = "running" /\ run.todo # <<>>
    /\ run' = [run EXCEPT !.todo = Tail(@)]
    /\ transcript' = Append(transcript, a)
    /\ act' = [act EXCEPT ![a].durable = TRUE,
                          ![a].st = IF @ = "committing" THEN "running" ELSE @]
    /\ ticket' = [ticket EXCEPT ![a].delivered = IF @ = "open" THEN "delivered" ELSE @]
    /\ events' = Append(events, [type |-> "message", action |-> a, retryable |-> FALSE])
    /\ UNCHANGED <<admitted, admission, sched, pump, persisted, retry, bash, checkpoint, stops,
                   unwoken>>

\* agent_end.  A retryable error creates the retry promise at once, and the
\* messages of a captured dispatch leave the transcript.
EndRun(retryable) ==
    /\ run.st = "running" /\ run.todo = <<>> /\ (retryable => ~run.aborted)
    /\ run' = [run EXCEPT !.st = "ending"]
    /\ transcript' = Without(transcript, Captured)
    /\ retry' = [retry EXCEPT !.promise = @ \/ retryable]
    /\ events' = Append(events, [type |-> "agent_end", action |-> None, retryable |-> retryable])
    /\ UNCHANGED <<input, admission, sched, pump, persisted, bash, checkpoint, stops, unwoken>>

FinishRun ==
    /\ run.st = "ending" /\ run' = NoRun
    /\ unwoken' = (unwoken \/ pump.pc = "off")
    /\ UNCHANGED <<input, admission, sched, pump, transcript, persisted, events, retry, bash,
                   checkpoint, stops>>

\* _resolveRetry, which also lets the pump's waitForRetry go on.
ResolveRetry(attempt, sleeping) ==
    /\ retry' = [retry EXCEPT !.promise = FALSE, !.attempt = attempt, !.sleeping = sleeping]
    /\ pump' = IF retry.promise /\ pump.pc = "retry" THEN [pump EXCEPT !.pc = "retried"] ELSE pump

\* Mutant: a captured prompt is persisted.
PersistsCaptured ==
    /\ events # <<>> /\ Head(events).type = "message"
    /\ persisted' = Append(persisted, Head(events).action)
    /\ transcript' = Without(transcript, Captured \cap {Head(events).action})
    /\ events' = Tail(events)
    /\ UNCHANGED <<input, admission, sched, pump, run, retry, bash, checkpoint, stops, unwoken>>

\* _processAgentEvent of a message.
Persists ==
    LET a == Head(events).action IN
    /\ events # <<>> /\ Head(events).type = "message"
    /\ persisted' = IF a \in Captured THEN persisted ELSE Append(persisted, a)
    /\ transcript' = IF a \in Captured THEN Without(transcript, Captured) ELSE transcript
    /\ events' = Tail(events)
    /\ UNCHANGED <<input, admission, sched, pump, run, retry, bash, checkpoint, stops, unwoken>>

EndHandled == events # <<>> /\ Head(events).type = "agent_end" /\ ~retry.sleeping

\* The end of a dispatch that was taken back.
ReleasesCaptured ==
    /\ EndHandled /\ Captured # {}
    /\ transcript' = Without(transcript, Captured)
    /\ act' = [a \in Actions |->
            IF a \notin Captured THEN act[a]
            ELSE [act[a] EXCEPT !.capture = IF a \in Range(run.todo) \cup Pending THEN "lost"
                                            ELSE "no"]]
    /\ events' = Tail(events)
    /\ ResolveRetry(retry.attempt, FALSE)
    /\ sched' = IF retry.promise THEN Scheduled(sched, act') ELSE sched
    /\ UNCHANGED <<admitted, ticket, admission, run, persisted, bash, checkpoint, stops, unwoken>>

Retries == Head(events).retryable /\ retry.attempt < MaxRetries

\* _handleRetryableError sleeps inside the event queue.
StartsBackoff ==
    /\ EndHandled /\ Captured = {} /\ Retries
    /\ retry' = [retry EXCEPT !.promise = TRUE, !.sleeping = TRUE, !.attempt = @ + 1]
    /\ UNCHANGED <<input, admission, sched, pump, agent, persisted, events, bash, checkpoint,
                   stops, unwoken>>

EndsForGood ==
    /\ EndHandled /\ Captured = {} /\ ~Retries
    /\ events' = Tail(events)
    /\ ResolveRetry(0, FALSE)
    /\ sched' = IF retry.promise THEN Scheduled(sched, act) ELSE sched
    /\ UNCHANGED <<input, admission, agent, persisted, bash, checkpoint, stops, unwoken>>

BackoffEnds ==
    /\ retry.sleeping
    /\ retry' = [retry EXCEPT !.sleeping = FALSE, !.timer = TRUE]
    /\ events' = Tail(events)
    /\ UNCHANGED <<input, admission, sched, pump, agent, persisted, bash, checkpoint, stops,
                   unwoken>>

\* agent.continue(), which a run in progress refuses.  The timer comes up after the
\* microtasks in which a run that has emitted agent_end finishes.
Continues ==
    /\ retry.timer /\ run.st # "ending"
    /\ retry' = [retry EXCEPT !.timer = FALSE]
    /\ run' = IF Streaming THEN run ELSE [NoRun EXCEPT !.st = "running"]
    /\ UNCHANGED <<input, admission, sched, pump, transcript, persisted, events, bash, checkpoint,
                   stops, unwoken>>

-----------------------------------------------------------------------------
(* The pump after the run.                                                 *)

PumpSeesRunEnd ==
    /\ pump.pc = "run" /\ ~Streaming
    /\ pump' = [pump EXCEPT !.pc = IF retry.promise THEN "retry" ELSE "retried"]
    /\ UNCHANGED <<input, admission, sched, agent, persisted, events, retry, bash, checkpoint,
                   stops, unwoken>>

PumpSeesRetryEnd ==
    /\ pump.pc = "retried" /\ ~Streaming
    /\ pump' = [pump EXCEPT !.pc = IF Captured = {} THEN "settle" ELSE "settled"]
    /\ UNCHANGED <<input, admission, sched, agent, persisted, events, retry, bash, checkpoint,
                   stops, unwoken>>

PumpSettles ==
    /\ pump.pc = "settle" /\ events = <<>>
    /\ pump' = [pump EXCEPT !.pc = "settled"]
    /\ UNCHANGED <<input, admission, sched, agent, persisted, events, retry, bash, checkpoint,
                   stops, unwoken>>

\* The turns of the run are completed, unless one was taken back.
PumpCompletes ==
    LET done == {a \in Range(pump.turns) : act[a].st = "running"} IN
    /\ pump.pc = "settled"
    /\ act' = Becomes(done, "completed")
    /\ ticket' = [a \in Actions |-> IF a \in done THEN [ticket[a] EXCEPT !.completed = "ok"]
                                    ELSE ticket[a]]
    /\ pump' = IF Stale THEN NoPump ELSE Looped(act')
    /\ unwoken' = Forgotten
    /\ UNCHANGED <<admitted, admission, sched, agent, persisted, events, retry, bash, checkpoint,
                   stops>>

-----------------------------------------------------------------------------
(* Interruptions.                                                          *)

Stops == stops < MaxStops /\ stops' = stops + 1
NewEpoch(s) == [s EXCEPT !.epoch = @ + 1]
Unrequested(s) == [s EXCEPT !.requested = FALSE]

Preparing == Only(admitted, Having(act, {"preparing"}))

\* _cancelSessionActions.
Cancel(A) ==
    /\ act' = [a \in Actions |->
            IF a \in A THEN [act[a] EXCEPT !.st = "cancelled",
                                         !.capture = IF act[a].st = "committing" THEN "on" ELSE "no"]
            ELSE IF act[a].st = "preparing" /\ Last(Preparing) \in A
            THEN [act[a] EXCEPT !.prep = None] ELSE act[a]]
    /\ ticket' = [a \in Actions |->
            IF a \in A
            THEN [delivered |-> IF act[a].visible /\ act[a].st = "queued"
                                THEN "not_applicable" ELSE "rejected",
                  completed |-> "error"]
            ELSE ticket[a]]
    /\ UNCHANGED admitted

AbortsRun(r) == IF r.st = "running" THEN [r EXCEPT !.aborted = TRUE] ELSE r

\* Mutant: the delay is cut short, and who waits for the retry waits on.
AbortLeavesRetry ==
    /\ Stops
    /\ Cancel({a \in Having(act, Clearable) : ~act[a].visible})
    /\ sched' = [NewEpoch(Unrequested(sched)) EXCEPT !.suspended = TRUE]
    /\ retry' = [retry EXCEPT !.attempt = 0, !.sleeping = FALSE]
    /\ events' = IF retry.sleeping THEN Tail(events) ELSE events
    /\ run' = AbortsRun(run)
    /\ UNCHANGED <<admission, pump, transcript, persisted, bash, checkpoint, unwoken>>

\* requestAbort.  A backoff that is slept through ends, with its event.
Abort ==
    /\ Stops
    /\ Cancel({a \in Having(act, Clearable) : ~act[a].visible})
    /\ sched' = [NewEpoch(Unrequested(sched)) EXCEPT !.suspended = TRUE]
    /\ ResolveRetry(0, FALSE)
    /\ events' = IF retry.sleeping THEN Tail(events) ELSE events
    /\ run' = AbortsRun(run)
    /\ UNCHANGED <<admission, transcript, persisted, bash, checkpoint, unwoken>>

\* resumeQueuedWork.
Resume ==
    /\ sched.suspended
    /\ sched' = Scheduled([sched EXCEPT !.suspended = FALSE], act)
    /\ UNCHANGED <<input, admission, pump, agent, persisted, events, retry, bash, checkpoint, stops,
                   unwoken>>

\* acquireQueuedWorkPause.
Pause ==
    /\ Stops /\ ~sched.paused
    /\ sched' = [NewEpoch(Unrequested(sched)) EXCEPT !.paused = TRUE]
    /\ UNCHANGED <<input, admission, pump, agent, persisted, events, retry, bash, checkpoint,
                   unwoken>>

Release ==
    /\ sched.paused /\ checkpoint \in {"none", "taken"}
    /\ checkpoint' = "none"
    /\ sched' = Scheduled([sched EXCEPT !.paused = FALSE], act)
    /\ UNCHANGED <<input, admission, pump, agent, persisted, events, retry, bash, stops, unwoken>>

BlocksCheckpoint ==
    \E a \in Actions : act[a].st \in {"selected", "preparing"}
                       \/ (act[a].st = "committing" /\ ~act[a].durable)

\* waitForSessionInputCheckpoint.
CheckpointArrives ==
    /\ sched.paused /\ checkpoint = "none" /\ ~BlocksCheckpoint
    /\ checkpoint' = "fence" /\ fence' = Append(fence, "checkpoint")
    /\ UNCHANGED <<input, door, sched, pump, agent, persisted, events, retry, bash, stops, unwoken>>

CheckpointEnters ==
    /\ checkpoint = "fence" /\ Head(fence) = "checkpoint"
    /\ checkpoint' = IF BlocksCheckpoint THEN "none" ELSE "events"
    /\ fence' = IF BlocksCheckpoint THEN Tail(fence) ELSE fence
    /\ UNCHANGED <<input, door, sched, pump, agent, persisted, events, retry, bash, stops, unwoken>>

\* Mutant: the checkpoint does not wait for the events to be processed.
CheckpointTakenAtOnce ==
    /\ checkpoint = "events"
    /\ checkpoint' = "taken" /\ fence' = Tail(fence)
    /\ UNCHANGED <<input, door, sched, pump, agent, persisted, events, retry, bash, stops, unwoken>>

CheckpointTaken ==
    /\ checkpoint = "events" /\ events = <<>>
    /\ checkpoint' = "taken" /\ fence' = Tail(fence)
    /\ UNCHANGED <<input, door, sched, pump, agent, persisted, events, retry, bash, stops, unwoken>>

\* clearQueue: what the user can see in the queue goes back to the editor.
ClearQueue ==
    LET cleared == {a \in Having(act, Clearable) : act[a].visible}
        begun == \E a \in cleared : act[a].st = "preparing"
    IN  /\ Stops /\ cleared # {}
        /\ Cancel(cleared)
        /\ sched' = IF begun THEN NewEpoch(sched) ELSE sched
        /\ UNCHANGED <<admission, pump, agent, persisted, events, retry, bash, checkpoint, unwoken>>

\* clearQueuedUserMessagesMatching, for one prompt: also a dispatched one, when
\* it is the only one and its message has not started.
TakeBack(a) ==
    LET dispatched == Having(act, {"committing", "running"}) IN
    /\ Stops
    /\ act[a].st \in Clearable
       \/ (act[a].st = "committing" /\ dispatched = {a} /\ ~act[a].durable)
    /\ Cancel({a})
    /\ run' = IF act[a].st = "committing" THEN AbortsRun(run) ELSE run
    /\ UNCHANGED <<admission, sched, pump, transcript, persisted, events, retry, bash, checkpoint,
                   unwoken>>

\* runUserBash and executeBash.
StartBash ==
    /\ bash = "none" /\ bash' \in Shells
    /\ UNCHANGED <<input, admission, sched, pump, agent, persisted, events, retry, checkpoint,
                   stops, unwoken>>

\* _drainQueuedMessagesAfterBash follows a user's command only.
EndBash ==
    /\ BashRunning
    /\ bash' = IF bash = "user" THEN "drain" ELSE "none"
    /\ unwoken' = (unwoken \/ bash = "raw")
    /\ UNCHANGED <<input, admission, sched, pump, agent, persisted, events, retry, checkpoint,
                   stops>>

\* Mutant: nobody is woken after a command of the user.
DrainBashSilently ==
    /\ bash = "drain" /\ ~Streaming
    /\ bash' = "none"
    /\ UNCHANGED <<input, admission, sched, pump, agent, persisted, events, retry, checkpoint,
                   stops, unwoken>>

DrainBash ==
    /\ bash = "drain" /\ ~Streaming
    /\ bash' = "none" /\ sched' = Scheduled(sched, act)
    /\ UNCHANGED <<input, admission, pump, agent, persisted, events, retry, checkpoint, stops,
                   unwoken>>

-----------------------------------------------------------------------------
PumpStep ==
    \/ PumpStarts \/ PumpFindsAgentIdle \/ PumpFindsEventsDone \/ PumpIsBlocked
    \/ PumpFindsNothing \/ PumpSelects \/ (\E valid \in BOOLEAN : Validated(valid))
    \/ PumpPrepares \/ PumpIsPrepared \/ PumpDispatches
    \/ PumpSeesRunEnd \/ PumpSeesRetryEnd \/ PumpSettles \/ PumpCompletes
RunStep == TakeIn \/ (\E retryable \in BOOLEAN : EndRun(retryable)) \/ FinishRun
EventStep == Persists \/ ReleasesCaptured \/ StartsBackoff \/ EndsForGood \/ BackoffEnds
CallerStep(a) == Return(a) \/ Enter(a) \/ (\E q \in BOOLEAN : Admit(a, q)) \/ Handle(a)
CheckpointStep == CheckpointArrives \/ CheckpointEnters \/ CheckpointTaken

Next ==
    \/ PumpStep \/ RunStep \/ EventStep \/ Continues \/ CheckpointStep
    \/ \E a \in Actions : Arrive(a) \/ CallerStep(a) \/ TakeBack(a)
    \/ Abort \/ Resume \/ Pause \/ Release \/ ClearQueue
    \/ StartBash \/ EndBash \/ DrainBash

Spec == Init /\ [][Next]_vars

\* The event loop runs on: while a promise, a timer, an extension or a model has an
\* answer to deliver, one is delivered.  Nobody owes an interruption or a command.
Progress ==
    \/ PumpStep \/ RunStep \/ EventStep \/ Continues \/ CheckpointStep
    \/ \E a \in Actions : CallerStep(a)

FairSpec == Spec /\ WF_vars(Progress)

-----------------------------------------------------------------------------
(* Properties.                                                             *)

ActionRecord == [st : {"new"} \cup Clearable \cup Active \cup Terminal, visible : BOOLEAN,
                 prep : Actions \cup {None}, durable : BOOLEAN, capture : {"no", "on", "lost"}]
TicketRecord == [delivered : {"open", "delivered", "not_applicable", "rejected"},
                 completed : {"open", "ok", "error"}]
SchedRecord == [requested : BOOLEAN, epoch : Nat, suspended : BOOLEAN, paused : BOOLEAN,
                chain : Seq(Nat)]
PumpRecord == [pc : {"off", "idle", "events", "select", "validate", "extend", "extended", "fence",
                     "run", "retry", "retried", "settle", "settled"},
               epoch : Nat, pre : Actions \cup {None}, batch : Seq(Actions),
               turns : Seq(Actions), anchor : Actions \cup {None}]
RunRecord == [st : {"idle", "running", "ending"}, todo : Seq(Actions), aborted : BOOLEAN]
EventRecord == [type : {"message"}, action : Actions, retryable : {FALSE}]
               \cup [type : {"agent_end"}, action : {None}, retryable : BOOLEAN]
RetryRecord == [promise : BOOLEAN, sleeping : BOOLEAN, timer : BOOLEAN, attempt : 0..MaxRetries]

\* The shape of the state (SessionAction, ActionTicket, the scheduler's flags).
TypeOK ==
    /\ admitted \in Seq(Actions) /\ transcript \in Seq(Actions) /\ persisted \in Seq(Actions)
    /\ act \in [Actions -> ActionRecord] /\ ticket \in [Actions -> TicketRecord]
    /\ door \in [Actions -> {"out", "paused", "fence", "in", "open", "done"}]
    /\ fence \in Seq(Actions \cup {"pump", "checkpoint"})
    /\ sched \in SchedRecord /\ pump \in PumpRecord /\ run \in RunRecord
    /\ events \in Seq(EventRecord) /\ retry \in RetryRecord
    /\ bash \in {"none", "user", "raw", "drain"}
    /\ checkpoint \in {"none", "fence", "events", "taken"}
    /\ stops \in 0..MaxStops /\ unwoken \in BOOLEAN

Position(seq, a) == CHOOSE n \in DOMAIN seq : seq[n] = a

\* No prompt is taken in or persisted twice.
TakenOnce == \A seq \in {transcript, persisted} : IsInjective(seq)

\* Through rollbacks, retries, aborts and batches no prompt is taken in twice,
\* and the prompts of one queue are taken in and persisted in the order of their
\* admission (ActionStore, rollback).  With three prompts there is one exception: a
\* prompt that is selected at its admission, after the pump has looked for one
\* (preselected) and while it awaits the events, is overtaken by the one behind it.
TakenInOrder ==
    /\ TakenOnce
    /\ \A seq \in {transcript, persisted} : \A a, b \in Range(seq) : Delivery[a] = Delivery[b] =>
           (Position(seq, a) < Position(seq, b) <=> Position(admitted, a) < Position(admitted, b))

\* A ticket tells its caller the truth: a prompt that was reported delivered is
\* in the session file or on its way there, one that failed or was cleared leaves
\* no trace in it, nor in the transcript once its run is over, and an action that
\* ended leaves no promise open (ActionTicketController, captureRunMessages).
\* A capture that is lost is left aside: the agent_end of an earlier run, still in the
\* queue, is taken for the end of the prompt's own run, and the prompt is kept.
TicketsTellTheTruth ==
    \A a \in Actions : act[a].capture # "lost" =>
        /\ ticket[a].delivered = "delivered" <=> a \in Range(persisted) \/ (a \in Pending /\ a \notin Captured)
        /\ ticket[a].completed = "ok" => ticket[a].delivered = "delivered"
        /\ ticket[a].completed = "error" =>
               a \notin Range(persisted) /\ (a \in Range(transcript) => a \in Captured)
        /\ act[a].st \in Terminal => "open" \notin {ticket[a].delivered, ticket[a].completed}

\* While a pause with its checkpoint is held, every prompt that was accepted is
\* either queued, and so in the restart's snapshot, or in the session file:
\* none is between the two (prepareUpdateRestart, waitForSessionInputCheckpoint).
CheckpointIsExact ==
    checkpoint = "taken" =>
        \A a \in Range(admitted) :
            act[a].st \in Terminal \cup {"queued"} \/ a \in Range(persisted)

\* Nothing runs any more, and nothing will by itself.
Quiet ==
    /\ pump.pc = "off" /\ sched.chain = <<>> /\ ~Streaming /\ events = <<>> /\ fence = <<>>
    /\ ~retry.promise /\ ~retry.timer /\ bash = "none" /\ ~Held

\* A quiet session has no prompt left in its queues, unless the last thing that
\* happened was one of four that wake nobody: a command of executeBash ended,
\* clearQueue replaced the epoch under a waiting pump, a prompt that an extension
\* handled had lifted the suspension of an abort, or a pump gave its prompts back
\* after the pause or the abort that stopped it was already over.
NothingSleeps == Quiet /\ ~unwoken => ~Selectable(act)

\* A batch starts with one preparation, made for its last prompt, or for one
\* behind it that has been removed since (emitBeforeAgentStart, prepared).  With four
\* prompts there is one exception: two prompts that were prepared and given back one
\* after the other come together again, and are dispatched with the first one's
\* preparation, since none of them is without one.  It takes a pump that has overlooked
\* a prompt selected at its admission.
PreparedForTheLast ==
    [][\A a, b \in Actions :
            /\ act[a].st = "preparing" /\ act'[a].st = "committing"
            /\ act[b].st = "preparing" /\ act'[b].st = "committing"
            => /\ act[a].prep = act[b].prep
               /\ LET anchor == act[a].prep IN
                  act[anchor].st = "cancelled" \/ anchor = Last(pump.turns)]_vars

\* A prompt that the pump has begun to prepare is dispatched and its run ends, or
\* it is given back or ended, whatever waits for the fence, the events, the retries
\* or the agent in the meantime, and whatever is interrupted.
BegunEnds ==
    LET Begun == {"preparing", "committing", "running"} IN
    \A a \in Actions : (act[a].st \in Begun) ~> (act[a].st \notin Begun)
=============================================================================
