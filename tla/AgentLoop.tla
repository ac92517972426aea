------------------------------ MODULE AgentLoop ------------------------------
(***************************************************************************)
(* The Agent of packages/agent: its two queues, the loop of model turns    *)
(* and tool batches, and the abort signal that races with every await of   *)
(* the loop; and how the transcript is replayed to a provider              *)
(* (transform-messages.ts).                                                *)
(*                                                                         *)
(* A batch of messages is queued, injected and removed as a whole and is   *)
(* one name here.  Listeners of events are synchronous, as AgentSession's  *)
(* is; reset() has no caller in the repository.                            *)
(***************************************************************************)
EXTENDS Naturals, FiniteSets, SequencesExt

CONSTANTS
    InitialModes,   \* the options the agent may be constructed with
    MaxBatches,     \* bound: message batches ever handed to the agent
    MaxTurns,       \* bound: assistant turns that end without an error
    MaxCalls,       \* bound: tool calls of one assistant message
    MaxRuns         \* bound: runs started

Queues == {"steer", "follow"}
Modes == {"one-at-a-time", "all"}     \* QueueMode

ASSUME AgentAssumption ==
    /\ InitialModes \subseteq [Queues -> Modes]
    /\ {MaxBatches, MaxTurns, MaxCalls, MaxRuns} \subseteq Nat

VARIABLES
    mode,           \* QueueMode of each PendingMessageQueue
    queue,          \* its batches
    transcript,     \* Agent.state.messages
    pc,             \* where the loop of the active run is; "idle": no run
    aborted,        \* activeRun.abortController.signal.aborted
    skipPoll,       \* skipInitialSteeringPoll
    context,        \* currentContext.messages of the loop
    pending,        \* the prompts, later pendingMessages
    more,           \* hasMoreToolCalls
    tools,          \* the tool batch at hand
    alive,          \* calls whose execute() has not settled, whoever awaits it
    sent, turn, runs,
    base,           \* history: messages the active run started from
    cut             \* history: turns aborted among their tool calls

run == <<pc, aborted, skipPoll, context, pending, more, tools>>
bounds == <<sent, turn, runs>>
history == <<base, cut>>
vars == <<mode, queue, transcript, run, alive, bounds, history>>

User(b, from) == [role |-> "user", id |-> b, from |-> from]
Assistant(t, calls, stop) ==
    [role |-> "assistant", id |-> t, calls |-> calls, stop |-> stop]
ToolResult(t, i) == [role |-> "toolResult", id |-> t, call |-> i]

NoTools == [sequential |-> FALSE, call |-> <<>>, published |-> 0]
Stages == {"new", "prepared", "running", "done", "terminate"}
Finished == {"done", "terminate"}

Init ==
    /\ mode \in InitialModes
    /\ queue = [q \in Queues |-> <<>>]
    /\ transcript = <<>> /\ context = <<>> /\ pending = <<>>
    /\ pc = "idle" /\ aborted = FALSE /\ skipPoll = FALSE /\ more = FALSE
    /\ tools = NoTools /\ alive = {} /\ cut = {}
    /\ sent = 0 /\ turn = 0 /\ runs = 0 /\ base = 0

-----------------------------------------------------------------------------
(* The queues and the calls of the Agent's owner.                          *)

\* PendingMessageQueue.drain: what it returns and what it leaves.
Drained(q) == IF mode[q] = "all" \/ queue[q] = <<>> THEN queue[q] ELSE <<Head(queue[q])>>
Kept(q) == IF mode[q] = "all" \/ queue[q] = <<>> THEN <<>> ELSE Tail(queue[q])
Drain(q) == queue' = [queue EXCEPT ![q] = Kept(q)]
Messages(bs, from) == [i \in DOMAIN bs |-> User(bs[i], from)]

Enqueue(q) ==
    /\ sent < MaxBatches
    /\ sent' = sent + 1
    /\ queue' = [queue EXCEPT ![q] = Append(@, sent + 1)]
    /\ UNCHANGED <<mode, transcript, run, alive, turn, runs, history>>

ClearAllQueues ==
    /\ \E q \in Queues : queue[q] # <<>>
    /\ queue' = [q \in Queues |-> <<>>]
    /\ UNCHANGED <<mode, transcript, run, alive, bounds, history>>

\* A predicate that picks several batches is several of these steps.
RemoveQueuedMessages(q, i) ==
    /\ queue' = [queue EXCEPT ![q] = RemoveAt(@, i)]
    /\ UNCHANGED <<mode, transcript, run, alive, bounds, history>>

Abort ==
    /\ pc # "idle" /\ ~aborted
    /\ aborted' = TRUE
    /\ cut' = IF pc = "tools" THEN cut \cup {turn} ELSE cut
    /\ UNCHANGED <<mode, queue, transcript, pc, skipPoll, context, pending, more,
                   tools, alive, bounds, base>>

\* Mutant: a drained steering batch does not suppress the poll.
StartRunPolling(messages, skip) ==
    /\ runs < MaxRuns
    /\ runs' = runs + 1
    /\ pc' = "start" /\ aborted' = FALSE /\ skipPoll' = FALSE
    /\ context' = transcript /\ pending' = messages /\ more' = TRUE
    /\ tools' = NoTools /\ base' = Len(transcript)
    /\ UNCHANGED <<mode, transcript, alive, turn, cut>>

\* runWithLifecycle, up to the first await of runAgentLoop.
StartRun(messages, skip) ==
    /\ runs < MaxRuns
    /\ runs' = runs + 1
    /\ pc' = "start" /\ aborted' = FALSE /\ skipPoll' = skip
    /\ context' = transcript /\ pending' = messages /\ more' = TRUE
    /\ tools' = NoTools /\ base' = Len(transcript)
    /\ UNCHANGED <<mode, transcript, alive, turn, cut>>

\* prompt() throws while a run is active.
Prompt ==
    /\ pc = "idle" /\ sent < MaxBatches
    /\ sent' = sent + 1
    /\ StartRun(<<User(sent + 1, "prompt")>>, FALSE)
    /\ UNCHANGED queue

LastRole == IF transcript = <<>> THEN "none" ELSE Last(transcript).role

\* continue() after an answer (or a custom message, a user's here) runs what
\* is queued, steering first; without any it throws.
ContinueQueued ==
    /\ pc = "idle"
    /\ LastRole # "toolResult"
    /\ IF queue["steer"] # <<>>
       THEN Drain("steer") /\ StartRun(Messages(Drained("steer"), "steer"), TRUE)
       ELSE /\ queue["follow"] # <<>>
            /\ Drain("follow") /\ StartRun(Messages(Drained("follow"), "follow"), FALSE)
    /\ UNCHANGED sent

ContinueTranscript ==
    /\ pc = "idle" /\ LastRole \in {"user", "toolResult"}
    /\ StartRun(<<>>, FALSE)
    /\ UNCHANGED <<queue, sent>>

\* AgentSession takes a failed answer off the transcript before it retries.
PrepareRetry ==
    /\ pc = "idle" /\ LastRole = "assistant" /\ Last(transcript).stop = "error"
    /\ transcript' = Front(transcript)
    /\ UNCHANGED <<mode, queue, run, alive, bounds, history>>

-----------------------------------------------------------------------------
(* The loop.                                                               *)

Goto(label) == pc' = label
Say(messages) ==
    /\ transcript' = transcript \o messages
    /\ context' = context \o messages

\* The prompts are emitted; continuations have none.
EmitPrompts ==
    /\ pc = "start"
    /\ Say(pending) /\ pending' = <<>> /\ Goto("poll")
    /\ UNCHANGED <<mode, queue, aborted, skipPoll, more, tools, alive, bounds, history>>

\* The poll for messages typed while the run was waiting.
InitialPoll ==
    /\ pc = "poll" /\ Goto("top")
    /\ IF aborted \/ skipPoll
       THEN UNCHANGED <<queue, pending>>
       ELSE Drain("steer") /\ pending' = Messages(Drained("steer"), "steer")
    /\ UNCHANGED <<mode, transcript, aborted, skipPoll, context, more, tools,
                   alive, bounds, history>>

\* The head of the inner loop: a turn starts with the pending messages.
StartTurn ==
    /\ pc = "top" /\ ~aborted
    /\ Say(pending) /\ pending' = <<>> /\ Goto("stream")
    /\ UNCHANGED <<mode, queue, aborted, skipPoll, more, tools, alive, bounds, history>>

\* throwIfAborted leaves the loop and with it the pending messages.
ThrowIfAborted ==
    /\ pc = "top" /\ aborted
    /\ Goto("failed") /\ pending' = <<>>
    /\ UNCHANGED <<mode, queue, transcript, aborted, skipPoll, context, more, tools,
                   alive, bounds, history>>

\* streamAssistantResponse ends with a message; tool calls are run next.
ModelAnswers ==
    /\ pc = "stream" /\ ~aborted /\ turn < MaxTurns
    /\ turn' = turn + 1
    /\ \E n \in 0..MaxCalls, sequential \in BOOLEAN :
        /\ n = 0 => sequential
        /\ Say(<<Assistant(turn + 1, n, "stop")>>)
        /\ more' = FALSE
        /\ tools' = [sequential |-> sequential, call |-> [i \in 1..n |-> "new"],
                     published |-> 0]
        /\ Goto(IF n = 0 THEN "turn_end" ELSE "tools")
    /\ UNCHANGED <<mode, queue, aborted, skipPoll, pending, alive, sent, runs, history>>

\* It ends with an error, or with the partial message of an aborted request,
\* whose tool calls nobody runs.
ModelStops ==
    /\ pc = "stream" /\ Goto("agent_end")
    /\ \E n \in {0, MaxCalls} :
        Say(<<Assistant(0, n, IF aborted THEN "aborted" ELSE "error")>>)
    /\ UNCHANGED <<mode, queue, aborted, skipPoll, pending, more, tools, alive,
                   bounds, history>>

\* A hook of the stream, or later of the loop, throws.
Throw ==
    /\ pc \in {"stream", "stop", "continue"} /\ ~aborted
    /\ Goto("failed")
    /\ UNCHANGED <<mode, queue, transcript, aborted, skipPoll, context, pending, more,
                   tools, alive, bounds, history>>

-----------------------------------------------------------------------------
(* Tool batches.                                                           *)

Calls == DOMAIN tools.call
Stage(i, s) == tools' = [tools EXCEPT !.call[i] = s]
Settled(i) == tools.call[i] \in Finished

\* prepareToolCall: a call that is unknown, invalid or blocked has its result
\* at once, and so has one whose hook is aborted; a sequential batch executes
\* the call that is prepared.
PrepareToolCall(i) ==
    /\ pc = "tools" /\ tools.call[i] = "new"
    /\ \A j \in Calls : j < i => tools.call[j] # "new"
    /\ tools.sequential => tools.published = i - 1 /\ ~aborted
    /\ \/ Stage(i, "done") /\ UNCHANGED alive
       \/ /\ ~aborted /\ tools.sequential
          /\ Stage(i, "running") /\ alive' = alive \cup {<<turn, i>>}
       \/ /\ ~tools.sequential
          /\ Stage(i, "prepared") /\ UNCHANGED alive
    /\ UNCHANGED <<mode, queue, transcript, pc, aborted, skipPoll, context, pending,
                   more, bounds, history>>

\* A parallel batch starts all its prepared calls in one step; after an abort
\* each of them fails before its tool is called.
LaunchBatch ==
    /\ pc = "tools" /\ ~tools.sequential
    /\ "new" \notin Range(tools.call) /\ "prepared" \in Range(tools.call)
    /\ LET ready == {i \in Calls : tools.call[i] = "prepared"} IN
        /\ tools' = [tools EXCEPT !.call = [i \in Calls |->
                IF i \notin ready THEN @[i] ELSE IF aborted THEN "done" ELSE "running"]]
        /\ alive' = IF aborted THEN alive ELSE alive \cup {<<turn, i>> : i \in ready}
    /\ UNCHANGED <<mode, queue, transcript, pc, aborted, skipPoll, context, pending,
                   more, bounds, history>>

\* A tool ends, well or with an error; it may ask the agent to stop.  After
\* an abort nobody listens.
ToolSettles(t, i) ==
    /\ <<t, i>> \in alive
    /\ alive' = alive \ {<<t, i>>}
    /\ IF ~aborted /\ t = turn /\ i \in Calls /\ tools.call[i] = "running"
       THEN \E s \in Finished : Stage(i, s)
       ELSE UNCHANGED tools
    /\ UNCHANGED <<mode, queue, transcript, pc, aborted, skipPoll, context, pending,
                   more, bounds, history>>

\* Mutant: the call waits for its tool even when it is aborted.
ToolAbortedLate(i) ==
    /\ pc = "tools" /\ aborted /\ tools.call[i] = "running" /\ <<turn, i>> \notin alive
    /\ Stage(i, "done")
    /\ UNCHANGED <<mode, queue, transcript, pc, aborted, skipPoll, context, pending,
                   more, alive, bounds, history>>

\* The abort wins the race: the call is answered, its tool may go on.
ToolAborted(i) ==
    /\ pc = "tools" /\ aborted /\ tools.call[i] = "running"
    /\ Stage(i, "done")
    /\ UNCHANGED <<mode, queue, transcript, pc, aborted, skipPoll, context, pending,
                   more, alive, bounds, history>>

\* Mutant: the first call that ends releases its batch (race, not all).
PublishableEarly ==
    IF tools.sequential
    THEN {i \in Calls : i = tools.published + 1 /\ Settled(i)}
    ELSE IF \E i \in Calls : Settled(i) THEN Calls ELSE {}

\* The results a batch may publish now: the next one, or all in call order.
Publishable ==
    IF tools.sequential
    THEN {i \in Calls : i = tools.published + 1 /\ Settled(i)}
    ELSE IF \A i \in Calls : Settled(i) THEN Calls ELSE {}

PublishResults ==
    /\ pc = "tools" /\ Publishable # {} /\ tools.published < Len(tools.call)
    /\ LET first == tools.published
           results == [k \in 1..Cardinality(Publishable) |-> ToolResult(turn, first + k)]
       IN  /\ transcript' = transcript \o results
           /\ tools' = [tools EXCEPT !.published = first + Cardinality(Publishable)]
    /\ UNCHANGED <<mode, queue, pc, aborted, skipPoll, context, pending, more, alive,
                   bounds, history>>

\* shouldTerminateToolBatch: all the results of the batch, and there are some.
ShouldTerminate ==
    /\ tools.published > 0
    /\ \A i \in 1..tools.published : tools.call[i] = "terminate"

\* Mutant: a result that asks to stop ends a sequential batch, too.
EndBatchAtTerminate ==
    /\ pc = "tools"
    /\ \/ tools.sequential /\ (aborted \/ "terminate" \in Range(tools.call))
       \/ tools.published = Len(tools.call)
    /\ \A i \in Calls : i > tools.published => tools.call[i] = "new"
    /\ context' = context \o [k \in 1..tools.published |-> ToolResult(turn, k)]
    /\ more' = ~ShouldTerminate
    /\ Goto("turn_end")
    /\ UNCHANGED <<mode, queue, transcript, aborted, skipPoll, pending, tools, alive,
                   bounds, history>>

\* The batch is over; an abort ends a sequential one between two calls.
EndBatch ==
    /\ pc = "tools"
    /\ (tools.sequential /\ aborted) \/ tools.published = Len(tools.call)
    /\ \A i \in Calls : i > tools.published => tools.call[i] = "new"
    /\ context' = context \o [k \in 1..tools.published |-> ToolResult(turn, k)]
    /\ more' = ~ShouldTerminate
    /\ Goto("turn_end")
    /\ UNCHANGED <<mode, queue, transcript, aborted, skipPoll, pending, tools, alive,
                   bounds, history>>

-----------------------------------------------------------------------------
(* The end of a turn.                                                      *)

\* Mutant: shouldStopBeforeTurn is heeded whatever the poll has drained.
StopAnyway ==
    /\ \/ pc = "turn_end" /\ aborted
       \/ pc \in {"stop", "polled", "follow", "continue"}
       \/ pc = "followed" /\ aborted
    /\ Goto("agent_end") /\ pending' = <<>>
    /\ UNCHANGED <<mode, queue, transcript, aborted, skipPoll, context, more, tools,
                   alive, bounds, history>>

\* The loop's exits to agent_end: an aborted signal, or a hook that says stop.
Stop ==
    /\ \/ pc = "turn_end" /\ aborted
       \/ pc = "stop"
       \/ pc = "polled" /\ (aborted \/ pending = <<>>)
       \/ pc = "follow"
       \/ pc = "followed" /\ aborted
       \/ pc = "continue"
    /\ Goto("agent_end") /\ pending' = <<>>
    /\ UNCHANGED <<mode, queue, transcript, aborted, skipPoll, context, more, tools,
                   alive, bounds, history>>

TurnEnds ==
    /\ pc = "turn_end" /\ ~aborted /\ Goto("stop")
    /\ UNCHANGED <<mode, queue, transcript, aborted, skipPoll, context, pending, more,
                   tools, alive, bounds, history>>

\* shouldStopAfterTurn and shouldStopBeforeTurn say no; steering is polled.
PollSteering ==
    /\ pc = "stop" /\ Goto("polled")
    /\ IF aborted
       THEN pending' = <<>> /\ UNCHANGED queue
       ELSE Drain("steer") /\ pending' = Messages(Drained("steer"), "steer")
    /\ UNCHANGED <<mode, transcript, aborted, skipPoll, context, more, tools, alive,
                   bounds, history>>

NextTurn ==
    /\ pc = "polled"
    /\ Goto(IF more \/ pending # <<>> THEN "top" ELSE "follow")
    /\ UNCHANGED <<mode, queue, transcript, aborted, skipPoll, context, pending, more,
                   tools, alive, bounds, history>>

PollFollowUps ==
    /\ pc = "follow" /\ Goto("followed")
    /\ IF aborted
       THEN pending' = <<>> /\ UNCHANGED queue
       ELSE Drain("follow") /\ pending' = Messages(Drained("follow"), "follow")
    /\ UNCHANGED <<mode, transcript, aborted, skipPoll, context, more, tools, alive,
                   bounds, history>>

FollowUp ==
    /\ pc = "followed"
    /\ IF pending = <<>>
       THEN Goto("continue") /\ UNCHANGED more
       ELSE Goto("top") /\ more' = TRUE
    /\ UNCHANGED <<mode, queue, transcript, aborted, skipPoll, context, pending, tools,
                   alive, bounds, history>>

\* getContinuationMessages has something to add.
Continuation ==
    /\ pc = "continue" /\ ~aborted /\ sent < MaxBatches
    /\ sent' = sent + 1
    /\ pending' = <<User(sent + 1, "continuation")>> /\ more' = TRUE /\ Goto("top")
    /\ UNCHANGED <<mode, queue, transcript, aborted, skipPoll, context, tools, alive,
                   turn, runs, history>>

\* handleRunFailure answers for a run that threw.
HandleRunFailure ==
    /\ pc = "failed" /\ Goto("agent_end")
    /\ transcript' = Append(transcript, Assistant(0, 0, IF aborted THEN "aborted" ELSE "error"))
    /\ UNCHANGED <<mode, queue, aborted, skipPoll, context, pending, more, tools, alive,
                   bounds, history>>

FinishRun ==
    /\ pc = "agent_end" /\ Goto("idle")
    /\ aborted' = FALSE /\ skipPoll' = FALSE /\ context' = <<>> /\ pending' = <<>>
    /\ more' = FALSE /\ tools' = NoTools
    /\ UNCHANGED <<mode, queue, transcript, alive, bounds, history>>

-----------------------------------------------------------------------------
(* What a provider is sent.                                                *)

NoReplay == [out |-> <<>>, owner |-> 0, owed |-> {}]

\* The k-th call, in call order, that still waits for its result.
Owed(r, k) == CHOOSE i \in r.owed : Cardinality({j \in r.owed : j <= i}) = k

\* insertSyntheticToolResults: the calls without an answer get one.
Synthesized(r) ==
    [r EXCEPT !.out = @ \o [k \in 1..Cardinality(r.owed) |-> ToolResult(r.owner, Owed(r, k))],
              !.owed = {}]

\* Mutant: only the next answer closes a batch, not a user's message.
ReplayLate(r, m) ==
    CASE m.role = "toolResult" -> [r EXCEPT !.out = Append(@, m), !.owed = @ \ {m.call}]
      [] m.role = "user" -> [r EXCEPT !.out = Append(@, m)]
      [] OTHER ->
            IF m.stop # "stop" THEN Synthesized(r)
            ELSE [out |-> Append(Synthesized(r).out, m), owner |-> m.id,
                  owed |-> 1..m.calls]

\* One message of transformMessages' second pass: failed answers are left out.
Replay(r, m) ==
    CASE m.role = "toolResult" -> [r EXCEPT !.out = Append(@, m), !.owed = @ \ {m.call}]
      [] m.role = "user" -> [Synthesized(r) EXCEPT !.out = Append(@, m)]
      [] OTHER ->
            IF m.stop # "stop" THEN Synthesized(r)
            ELSE [out |-> Append(Synthesized(r).out, m), owner |-> m.id,
                  owed |-> 1..m.calls]

Replayed(messages) ==
    LET replay[n \in 0..Len(messages)] ==
            IF n = 0 THEN NoReplay ELSE Replay(replay[n - 1], messages[n])
    IN  Synthesized(replay[Len(messages)]).out

-----------------------------------------------------------------------------
Loop ==
    \/ EmitPrompts \/ InitialPoll \/ StartTurn \/ ThrowIfAborted
    \/ pc = "stream" /\ aborted /\ ModelStops
    \/ \E i \in Calls : PrepareToolCall(i) \/ ToolAborted(i)
    \/ LaunchBatch \/ PublishResults \/ EndBatch
    \/ Stop \/ TurnEnds \/ PollSteering \/ NextTurn \/ PollFollowUps \/ FollowUp
    \/ HandleRunFailure \/ FinishRun

\* Providers, tools and hooks.
World ==
    \/ ModelAnswers \/ ModelStops \/ Throw \/ Continuation
    \/ \E c \in alive : ToolSettles(c[1], c[2])

Owner ==
    \/ \E q \in Queues : Enqueue(q)
    \/ ClearAllQueues \/ \E q \in Queues : \E i \in DOMAIN queue[q] : RemoveQueuedMessages(q, i)
    \/ Abort \/ Prompt \/ ContinueQueued \/ ContinueTranscript \/ PrepareRetry

Next == Loop \/ World \/ Owner

\* Node resumes every coroutine whose promise is settled: the loop's own steps
\* are fair.  No fairness of providers, tools or hooks, nor of the owner.
Spec == Init /\ [][Next]_vars /\ WF_vars(Loop)

-----------------------------------------------------------------------------
(* Properties.                                                             *)

Entry ==
    [role : {"user"}, id : 1..MaxBatches, from : Queues \cup {"prompt", "continuation"}]
    \cup [role : {"assistant"}, id : 0..MaxTurns, calls : 0..MaxCalls,
          stop : {"stop", "error", "aborted"}]
    \cup [role : {"toolResult"}, id : 1..MaxTurns, call : 1..MaxCalls]

\* The shape of the state (agent.ts fields and runLoop's locals).
TypeOK ==
    /\ mode \in [Queues -> Modes] /\ queue \in [Queues -> Seq(1..MaxBatches)]
    /\ transcript \in Seq(Entry) /\ context \in Seq(Entry) /\ pending \in Seq(Entry)
    /\ pc \in {"idle", "start", "poll", "top", "stream", "tools", "turn_end", "stop",
              "polled", "follow", "followed", "continue", "failed", "agent_end"}
    /\ aborted \in BOOLEAN /\ skipPoll \in BOOLEAN /\ more \in BOOLEAN
    /\ tools \in [sequential : BOOLEAN, call : Seq(Stages), published : Nat]
    /\ tools.published <= Len(tools.call) /\ Len(tools.call) <= MaxCalls
    /\ alive \subseteq (1..MaxTurns) \X (1..MaxCalls)
    /\ sent \in 0..MaxBatches /\ turn \in 0..MaxTurns /\ runs \in 0..MaxRuns
    /\ base \in Nat /\ cut \subseteq 0..MaxTurns

\* The results behind the answer at position k.
Answers(messages, k) ==
    LET m == messages[k] IN
    {n \in 0..m.calls : \A i \in 1..n :
        k + i \in DOMAIN messages /\ messages[k + i] = ToolResult(m.id, i)}

IsResult(messages, k) == k \in DOMAIN messages /\ messages[k].role = "toolResult"

\* Whatever order the tools of a batch finish in, and whatever is steered,
\* aborted or retried meanwhile, the transcript holds their results directly
\* behind the calls and in call order (types.ts:34), and unless an abort hit
\* that very batch it holds all of them (executeToolCalls*, runLoop).
AnsweredInOrder ==
    \A k \in DOMAIN transcript : LET m == transcript[k] IN
        m.role = "assistant" /\ m.stop = "stop" =>
            \E n \in Answers(transcript, k) :
                /\ ~IsResult(transcript, k + n + 1)
                /\ n = m.calls \/ m.id \in cut \/ (pc = "tools" /\ m.id = turn)

\* A provider is called with the transcript, and in what it is sent every tool
\* call is answered exactly once and at once, also the calls an aborted batch,
\* a retry or a failed run left open (streamAssistantResponse,
\* transformMessages).
ModelSeesAnswers ==
    pc = "stream" =>
        /\ context = transcript
        /\ LET prompt == Replayed(context) IN
            /\ \A k \in DOMAIN prompt : prompt[k].role = "assistant" =>
                  prompt[k].calls \in Answers(prompt, k)
            /\ \A k \in DOMAIN prompt : prompt[k].role = "toolResult" =>
                  \E j \in 1..k : /\ prompt[j].role = "assistant"
                                 /\ prompt[j].id = prompt[k].id
                                 /\ k - j = prompt[k].call

\* With queues drained one at a time, a turn of a run is steered by at most one
\* batch: continue() does not poll again after it drained one itself
\* (skipInitialSteeringPoll).
OneSteeringPerTurn ==
    mode["steer"] = "one-at-a-time" /\ pc = "stream" =>
        \A j, k \in (base + 1)..Len(transcript) :
            /\ j < k
            /\ \A i \in j..k : transcript[i].role = "user"
            => {transcript[j].from, transcript[k].from} # {"steer"}

\* A tool outlives its run only if an abort hit its batch: a run never ends, or
\* moves to its next turn, over a tool it still waits for (Promise.all in
\* executeToolCallsParallel).
OnlyAbortsLeaveTools ==
    \A c \in alive : c[1] \in cut \/ (pc = "tools" /\ c[1] = turn)

\* A batch is queued, about to be injected, or in the transcript.
Held(b) ==
    \/ \E q \in Queues : b \in Range(queue[q])
    \/ \E m \in Range(pending) \cup Range(transcript) : m.role = "user" /\ m.id = b

\* A message that was queued or drained is lost only by being cleared or by an
\* abort: no stop hook, failing hook or end of a run drops one that a poll took
\* off its queue (runLoop: "Steering drained by this poll owns the turn
\* boundary; stop only when it was empty").
KeepsMessages ==
    [][\/ \A b \in 1..MaxBatches : Held(b) => Held(b)'
       \/ aborted
       \/ ClearAllQueues
       \/ \E q \in Queues : \E i \in DOMAIN queue[q] : RemoveQueuedMessages(q, i)]_vars

\* Whatever a provider, a tool or a hook does or fails to do, an aborted run
\* becomes idle (raceWithAbort around every await of the loop).
AbortEndsRun == aborted ~> pc = "idle"
=============================================================================
