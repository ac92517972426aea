-------------------------- MODULE AgentLoopProofs --------------------------
(***************************************************************************)
(* What an agent promises its transcript, its tools and its owner, for any *)
(* number of messages, turns, tool calls and runs, and for every order in  *)
(* which tools end, providers answer or fail, hooks throw and aborts hit.  *)
(*                                                                         *)
(* The results a batch has published stand at the transcript's end, right  *)
(* behind its calls (BatchOK); a call whose tool is alive is waited for,   *)
(* or an abort hit its batch (ToolsOK); messages are pending only between  *)
(* a poll and the turn they are said in (PendingOK), and steering is       *)
(* pending only when none was said since the last answer (SteeringOK).     *)
(* The loop's context is the transcript, up to results it is not yet given *)
(* (ContextOK), and a result stands where its call puts it (OwnedResults): *)
(* of such messages a replay never has more calls open than the last       *)
(* answer's, and those from the next one on (Standing).                    *)
(***************************************************************************)
EXTENDS AgentLoop, FiniteSetTheorems, SequenceTheorems, WellFoundedInduction, TLAPS

-----------------------------------------------------------------------------
(* The invariant.                                                          *)

\* Published calls have ended, and a tool that is alive is waited for, unless
\* an abort hit its batch.
ToolsOK ==
    /\ \A i \in 1..tools.published : tools.call[i] \in Finished
    /\ ~tools.sequential => tools.published \in {0, Len(tools.call)}
    /\ pc = "tools" => turn >= 1 /\ (aborted => turn \in cut)
    /\ \A c \in alive :
          /\ c[1] <= turn
          /\ \/ c[1] \in cut
             \/ /\ pc = "tools" /\ c[1] = turn /\ c[2] \in 1..Len(tools.call)
                /\ tools.call[c[2]] = "running"

\* What is pending was taken off a queue, and nothing is where a poll, the end
\* of the run or a hook that throws would drop it.
PendingOK ==
    /\ \A i \in 1..Len(pending) : pending[i].role = "user"
    /\ pc \in {"idle", "poll", "stream", "tools", "turn_end", "stop", "follow",
               "continue", "failed", "agent_end"} => pending = <<>>

\* The run's messages since its last answer are no steering.
UserTail(k) == \A i \in k..Len(transcript) : transcript[i].role = "user"
Unsteered == \A k \in (base + 1)..Len(transcript) : UserTail(k) => transcript[k].from # "steer"

Answered ==
    /\ Len(transcript) >= 1
    /\ transcript[Len(transcript)].role # "user"

\* Two steering messages of a run have an answer between them.
SteeredApart ==
    \A j, k \in (base + 1)..Len(transcript) :
        /\ j < k
        /\ \A i \in j..k : transcript[i].role = "user"
        => transcript[j].from # "steer" \/ transcript[k].from # "steer"

PendingSteering == {i \in 1..Len(pending) : pending[i].from = "steer"}

SteeringOK ==
    /\ pc \in {"tools", "turn_end", "stop", "polled", "follow", "followed", "continue"} => Answered
    /\ pc = "start" => base = Len(transcript)
    /\ mode["steer"] = "one-at-a-time" =>
        /\ SteeredApart
        /\ \A i, j \in PendingSteering : i = j
        /\ PendingSteering # {} => Unsteered
        /\ pc = "start" /\ PendingSteering # {} => skipPoll
        /\ pc = "poll" /\ ~skipPoll => Unsteered

\* The batch at hand stands at the end of the transcript.
Batch == Len(transcript) - tools.published
IsAnswer(k) == transcript[k].role = "assistant" /\ transcript[k].stop = "stop"
BatchOK ==
    /\ \A k \in 1..Len(transcript) : IsAnswer(k) => transcript[k].id <= turn
    /\ pc = "tools" =>
        /\ Batch >= 1 /\ transcript[Batch] = Assistant(turn, Len(tools.call), "stop")
        /\ \A i \in 1..tools.published : transcript[Batch + i] = ToolResult(turn, i)
        /\ \A k \in 1..Len(transcript) : IsAnswer(k) /\ transcript[k].id = turn => k = Batch

IInv == TypeOK /\ ToolsOK /\ PendingOK /\ SteeringOK /\ BatchOK /\ AnsweredInOrder

\* A result stands behind its answer and the results of the calls before it.
Owned(messages, k) ==
    LET m == messages[k]
        j == k - m.call
    IN  /\ j >= 1
        /\ messages[j].role = "assistant" /\ messages[j].stop = "stop"
        /\ messages[j].id = m.id /\ m.call <= messages[j].calls
        /\ \A i \in 1..m.call : messages[j + i] = ToolResult(m.id, i)
OwnedResults(messages) ==
    \A k \in 1..Len(messages) : messages[k].role = "toolResult" => Owned(messages, k)

\* What the loop of a run has read is the transcript, up to the results its batch
\* has published and not yet handed to it.
ContextOK ==
    /\ pc \in {"start", "poll", "top", "stream", "turn_end", "stop", "polled", "follow",
               "followed", "continue"} => context = transcript
    /\ pc = "tools" =>
          /\ Len(transcript) = Len(context) + tools.published
          /\ \A i \in 1..Len(context) : transcript[i] = context[i]

ReplayOK == ContextOK /\ OwnedResults(transcript)

-----------------------------------------------------------------------------
(* The shape of the state.                                                 *)

\* Messages, answers and results are entries of a transcript.
LEMMA Entries ==
    ASSUME AgentAssumption
    PROVE  /\ \A b \in 1..MaxBatches : \A f \in Queues \cup {"prompt", "continuation"} :
                 User(b, f) \in Entry
           /\ \A t \in 0..MaxTurns : \A n \in 0..MaxCalls : \A s \in {"stop", "error", "aborted"} :
                 Assistant(t, n, s) \in Entry
           /\ \A t \in 1..MaxTurns : \A i \in 1..MaxCalls : ToolResult(t, i) \in Entry
BY DEF Entry, User, Assistant, ToolResult

\* What a poll takes off its queue, and what it leaves.
LEMMA DrainTypes ==
    ASSUME AgentAssumption, TypeOK, NEW q \in Queues
    PROVE  /\ Drained(q) \in Seq(1..MaxBatches) /\ Kept(q) \in Seq(1..MaxBatches)
           /\ Messages(Drained(q), q) \in Seq(Entry)
           /\ Len(Messages(Drained(q), q)) = Len(Drained(q))
           /\ \A i \in 1..Len(Drained(q)) : Messages(Drained(q), q)[i] = User(Drained(q)[i], q)
           /\ mode[q] = "one-at-a-time" => Len(Drained(q)) <= 1
           /\ \A i \in 1..Len(queue[q]) :
                 \/ \E j \in 1..Len(Drained(q)) : Drained(q)[j] = queue[q][i]
                 \/ \E j \in 1..Len(Kept(q)) : Kept(q)[j] = queue[q][i]
<1> DEFINE B == 1..MaxBatches
<1> DEFINE s == queue[q]
<1>1. s \in Seq(B) /\ Len(s) \in Nat
  BY DEF TypeOK
<1> HIDE DEF s
<1>2. s # <<>> => /\ Head(s) \in B /\ Head(s) = s[1] /\ Tail(s) \in Seq(B)
                  /\ Len(s) >= 1 /\ Len(Tail(s)) = Len(s) - 1
                  /\ \A i \in 1..Len(Tail(s)) : Tail(s)[i] = s[i + 1]
  BY <1>1
<1>3. CASE mode[q] = "all" \/ s = <<>>
  <2>1. Drained(q) = s /\ Kept(q) = <<>>
    BY <1>3 DEF Drained, Kept, s
  <2>2. s = <<>> => Len(s) = 0
    OBVIOUS
  <2>3. <<>> \in Seq(B)
    OBVIOUS
  <2>4. mode[q] = "one-at-a-time" => Len(s) <= 1
    BY <1>3, <2>2
  <2>5. Drained(q) \in Seq(B) /\ Kept(q) \in Seq(B) /\ Len(Drained(q)) \in Nat
    BY <1>1, <2>1, <2>3
  <2>6. /\ Messages(s, q) \in Seq(Entry) /\ Len(Messages(s, q)) = Len(s)
        /\ \A i \in 1..Len(s) : Messages(s, q)[i] = User(s[i], q)
    <3>1. \A i \in 1..Len(s) : s[i] \in B
      BY <1>1
    <3>2. \A i \in 1..Len(s) : User(s[i], q) \in Entry
      BY <3>1, Entries
    <3>3. Messages(s, q) = [i \in 1..Len(s) |-> User(s[i], q)]
      BY <1>1 DEF Messages
    <3> HIDE DEF B
    <3> QED
      BY <1>1, <3>2, <3>3
  <2>7. \A i \in 1..Len(s) : \E j \in 1..Len(Drained(q)) : Drained(q)[j] = s[i]
    BY <2>1
  <2> QED
    BY <2>1, <2>4, <2>5, <2>6, <2>7 DEF s
<1>4. CASE mode[q] # "all" /\ s # <<>>
  <2>1. Drained(q) = <<Head(s)>> /\ Kept(q) = Tail(s)
    BY <1>4 DEF Drained, Kept, s
  <2>2. Drained(q) \in Seq(B) /\ Len(Drained(q)) = 1 /\ Drained(q)[1] = s[1]
    BY <1>2, <1>4, <2>1
  <2>3. ASSUME NEW i \in 1..Len(s)
        PROVE  \/ \E j \in 1..Len(Drained(q)) : Drained(q)[j] = s[i]
               \/ \E j \in 1..Len(Kept(q)) : Kept(q)[j] = s[i]
    <3>1. CASE i = 1
      BY <2>2, <3>1
    <3>2. CASE i # 1
      <4>1. i - 1 \in 1..Len(Kept(q)) /\ Kept(q)[i - 1] = s[i]
        BY SMTT(30), <1>1, <1>2, <1>4, <2>1, <3>2
      <4> QED
        BY <4>1
    <3> QED
      BY <3>1, <3>2
  <2>4. Messages(Drained(q), q) \in Seq(Entry) /\ Len(Messages(Drained(q), q)) = 1
        /\ Messages(Drained(q), q)[1] = User(Drained(q)[1], q)
    <3>1. Drained(q)[1] \in B
      BY <1>2, <1>4, <2>2
    <3>2. User(Drained(q)[1], q) \in Entry
      BY <3>1, Entries
    <3>3. Messages(Drained(q), q) = [i \in 1..1 |-> User(Drained(q)[i], q)]
      BY <2>2 DEF Messages
    <3> HIDE DEF B
    <3> QED
      BY <3>2, <3>3
  <2> QED
    BY <1>2, <1>4, <2>1, <2>2, <2>3, <2>4 DEF s
<1> QED
  BY <1>3, <1>4

\* Publishing never goes past a batch, nor past a call that has not ended.
LEMMA PublishTypes ==
    ASSUME TypeOK, ToolsOK, Publishable # {}, tools.published < Len(tools.call)
    PROVE  /\ Cardinality(Publishable) \in Nat \ {0}
           /\ tools.published + Cardinality(Publishable) <= Len(tools.call)
           /\ \A i \in 1..(tools.published + Cardinality(Publishable)) : tools.call[i] \in Finished
           /\ ~tools.sequential =>
                tools.published = 0 /\ Cardinality(Publishable) = Len(tools.call)
<1> DEFINE n == tools.published
<1>1. n \in Nat /\ Len(tools.call) \in Nat /\ Calls = 1..Len(tools.call)
  BY DEF TypeOK, Calls
<1>2. CASE tools.sequential
  <2>1. n + 1 \in Calls /\ Settled(n + 1) /\ Publishable = {n + 1}
    BY <1>1, <1>2 DEF Publishable
  <2>2. Cardinality(Publishable) = 1
    BY <2>1, FS_Singleton
  <2>3. \A i \in 1..n : tools.call[i] \in Finished
    BY DEF ToolsOK
  <2>4. n + 1 <= Len(tools.call) /\ tools.call[n + 1] \in Finished
    BY <1>1, <2>1 DEF Settled
  <2>5. \A i \in 1..(n + 1) : i \in 1..n \/ i = n + 1
    BY <1>1
  <2> HIDE DEF n
  <2>6. \A i \in 1..(n + 1) : tools.call[i] \in Finished
    BY <2>3, <2>4, <2>5
  <2> QED
    BY <1>1, <1>2, <2>2, <2>4, <2>6 DEF n
<1>3. CASE ~tools.sequential
  <2>1. n = 0
    BY <1>1, <1>3 DEF ToolsOK
  <2>2. Publishable = 1..Len(tools.call) /\ \A i \in Calls : Settled(i)
    BY <1>1, <1>3 DEF Publishable
  <2>3. Cardinality(Publishable) = Len(tools.call)
    BY <1>1, <2>2, FS_Interval
  <2> QED
    BY <1>1, <2>1, <2>2, <2>3 DEF Settled
<1> QED
  BY <1>2, <1>3

\* What is said goes to the end of the transcript.
LEMMA SayTypes ==
    ASSUME TypeOK, NEW s \in Seq(Entry), Say(s)
    PROVE  /\ transcript' \in Seq(Entry) /\ context' \in Seq(Entry)
           /\ Len(transcript') = Len(transcript) + Len(s)
           /\ \A i \in 1..Len(transcript) : transcript'[i] = transcript[i]
           /\ \A i \in 1..Len(s) : transcript'[Len(transcript) + i] = s[i]
<1>1. transcript \in Seq(Entry) /\ context \in Seq(Entry)
      /\ transcript' = transcript \o s /\ context' = context \o s
  BY DEF TypeOK, Say
<1> HIDE DEF Entry
<1>2. Len(s) \in Nat /\ Len(transcript) \in Nat
  BY <1>1
<1> QED
  BY <1>1, <1>2, ConcatProperties

\* A message by itself.
LEMMA OneEntry ==
    ASSUME NEW e \in Entry
    PROVE  <<e>> \in Seq(Entry) /\ Len(<<e>>) = 1 /\ <<e>>[1] = e
<1> HIDE DEF Entry
<1> QED
  OBVIOUS

\* The types of the messages behind a call of the model.
LEMMA ResultTypes ==
    ASSUME AgentAssumption, TypeOK, ToolsOK, pc = "tools", NEW a \in Nat, NEW n \in Nat,
           a + n <= Len(tools.call)
    PROVE  [k \in 1..n |-> ToolResult(turn, a + k)] \in Seq(Entry)
<1>1. turn \in 1..MaxTurns /\ Len(tools.call) \in Nat /\ Len(tools.call) <= MaxCalls
      /\ MaxCalls \in Nat /\ MaxTurns \in Nat
  BY DEF ToolsOK, TypeOK, AgentAssumption
<1>2. \A k \in 1..n : a + k \in 1..MaxCalls
  BY <1>1
<1>3. \A k \in 1..n : ToolResult(turn, a + k) \in Entry
  BY <1>1, <1>2, Entries
<1> HIDE DEF Entry
<1> QED
  BY <1>3

\* A run starts with entries.
LEMMA StartTypes ==
    ASSUME AgentAssumption, TypeOK, NEW m \in Seq(Entry), NEW skip \in BOOLEAN, StartRun(m, skip),
           sent' \in 0..MaxBatches, queue' \in [Queues -> Seq(1..MaxBatches)]
    PROVE  TypeOK'
<1>1. NoTools \in [sequential : BOOLEAN, call : Seq(Stages), published : Nat]
      /\ NoTools.published = 0 /\ NoTools.call = <<>> /\ Len(<<>>) = 0
  BY DEF NoTools
<1>2. Len(transcript) \in Nat /\ MaxCalls \in Nat /\ MaxRuns \in Nat
  BY DEF TypeOK, AgentAssumption
<1>3. tools' = NoTools /\ runs' = runs + 1 /\ runs < MaxRuns /\ base' = Len(transcript)
  BY DEF StartRun
<1> HIDE DEF Entry, NoTools
<1>4. tools' \in [sequential : BOOLEAN, call : Seq(Stages), published : Nat]
      /\ tools'.published <= Len(tools'.call) /\ Len(tools'.call) <= MaxCalls
  BY <1>1, <1>2, <1>3
<1>5. runs' \in 0..MaxRuns /\ base' \in Nat
  BY <1>2, <1>3 DEF TypeOK
<1> QED
  BY <1>4, <1>5 DEF TypeOK, StartRun

\* Every call of the agent keeps the types.
LEMMA OwnerTypes ==
    ASSUME AgentAssumption, IInv, Owner
    PROVE  TypeOK'
<1> USE DEF IInv
<1> HIDE DEF Entry, TypeOK
<1>0. MaxBatches \in Nat /\ sent \in 0..MaxBatches
  BY DEF TypeOK, AgentAssumption
<1>1. ASSUME NEW q \in Queues, Enqueue(q)
      PROVE  TypeOK'
  <2>1. queue[q] \in Seq(1..MaxBatches) /\ sent + 1 \in 1..MaxBatches
    BY <1>0, <1>1 DEF TypeOK, Enqueue
  <2>2. Append(queue[q], sent + 1) \in Seq(1..MaxBatches)
    BY <2>1
  <2>3. queue' \in [Queues -> Seq(1..MaxBatches)] /\ sent' \in 0..MaxBatches
    BY <1>0, <1>1, <2>1, <2>2 DEF TypeOK, Enqueue
  <2> QED
    BY <1>1, <2>3 DEF TypeOK, Enqueue, run, history
<1>2. CASE ClearAllQueues
  <2>1. <<>> \in Seq(1..MaxBatches)
    OBVIOUS
  <2>2. queue' \in [Queues -> Seq(1..MaxBatches)]
    BY <1>2, <2>1 DEF ClearAllQueues
  <2> QED
    BY <1>2, <2>2 DEF TypeOK, ClearAllQueues, run, history, bounds
<1>3. ASSUME NEW q \in Queues, NEW i \in DOMAIN queue[q], RemoveQueuedMessages(q, i)
      PROVE  TypeOK'
  <2> DEFINE s == queue[q]
  <2>0. s \in Seq(1..MaxBatches) /\ i \in DOMAIN s
    BY <1>3 DEF TypeOK
  <2> HIDE DEF s
  <2>1. i \in 1..Len(s) /\ Len(s) \in Nat /\ \A j \in 1..Len(s) : s[j] \in 1..MaxBatches
    BY <2>0
  <2>2. SubSeq(s, 1, i - 1) \in Seq(1..MaxBatches) /\ SubSeq(s, i + 1, Len(s)) \in Seq(1..MaxBatches)
    BY <2>1, SubSeqProperties
  <2>3. RemoveAt(s, i) \in Seq(1..MaxBatches)
    BY <2>2, ConcatProperties DEF RemoveAt
  <2>4. queue' \in [Queues -> Seq(1..MaxBatches)]
    BY <1>3, <2>3 DEF TypeOK, RemoveQueuedMessages, s
  <2> QED
    BY <1>3, <2>4 DEF TypeOK, RemoveQueuedMessages, run, history, bounds
<1>4. CASE Abort
  BY <1>4 DEF TypeOK, Abort, bounds
<1>5. CASE Prompt
  <2>1. sent + 1 \in 1..MaxBatches
    BY <1>0, <1>5 DEF Prompt
  <2>2. User(sent + 1, "prompt") \in Entry
    BY <2>1, Entries
  <2>3. <<User(sent + 1, "prompt")>> \in Seq(Entry)
    BY <2>2, OneEntry
  <2>4. sent' \in 0..MaxBatches /\ queue' \in [Queues -> Seq(1..MaxBatches)]
    BY <1>0, <1>5, <2>1 DEF Prompt, TypeOK
  <2> QED
    BY <1>5, <2>3, <2>4, StartTypes DEF Prompt
<1>6. CASE ContinueQueued
  <2>1. ASSUME NEW q \in Queues, Drain(q) PROVE queue' \in [Queues -> Seq(1..MaxBatches)]
    BY <2>1, DrainTypes DEF Drain, TypeOK
  <2>2. sent' \in 0..MaxBatches
    BY <1>0, <1>6 DEF ContinueQueued
  <2>3. "steer" \in Queues /\ "follow" \in Queues
    BY DEF Queues
  <2>4. CASE Drain("steer") /\ StartRun(Messages(Drained("steer"), "steer"), TRUE)
    BY <2>1, <2>2, <2>3, <2>4, DrainTypes, StartTypes
  <2>5. CASE Drain("follow") /\ StartRun(Messages(Drained("follow"), "follow"), FALSE)
    BY <2>1, <2>2, <2>3, <2>5, DrainTypes, StartTypes
  <2> QED
    BY <1>6, <2>4, <2>5 DEF ContinueQueued
<1>7. CASE ContinueTranscript
  <2>1. <<>> \in Seq(Entry)
    OBVIOUS
  <2>2. sent' \in 0..MaxBatches /\ queue' \in [Queues -> Seq(1..MaxBatches)]
    BY <1>0, <1>7 DEF ContinueTranscript, TypeOK
  <2> QED
    BY <1>7, <2>1, <2>2, StartTypes DEF ContinueTranscript
<1>8. CASE PrepareRetry
  <2>1. transcript \in Seq(Entry) /\ \A i \in 1..(Len(transcript) - 1) : transcript[i] \in Entry
    BY DEF TypeOK
  <2>2. Front(transcript) \in Seq(Entry)
    BY <2>1, SubSeqProperties DEF Front
  <2> QED
    BY <1>8, <2>2 DEF PrepareRetry, TypeOK, run, history, bounds
<1> QED
  BY <1>1, <1>2, <1>3, <1>4, <1>5, <1>6, <1>7, <1>8 DEF Owner

\* Every step of the loop and of the world keeps the types: those of turns,
LEMMA TurnTypes ==
    ASSUME AgentAssumption, IInv,
           \/ EmitPrompts \/ InitialPoll \/ StartTurn \/ ThrowIfAborted \/ ModelAnswers
           \/ ModelStops \/ Throw
    PROVE  TypeOK'
<1> USE DEF IInv
<1> HIDE DEF Entry, TypeOK
<1>1. pending \in Seq(Entry)
  BY DEF TypeOK
<1>2. <<>> \in Seq(Entry)
  OBVIOUS
<1>3. CASE EmitPrompts
  <2>1. transcript' \in Seq(Entry) /\ context' \in Seq(Entry)
    BY <1>1, <1>3, SayTypes DEF EmitPrompts
  <2> QED
    BY <1>2, <1>3, <2>1 DEF EmitPrompts, TypeOK, Goto, bounds, history
<1>4. CASE InitialPoll
  <2>1. "steer" \in Queues
    BY DEF Queues
  <2>2. pending' \in Seq(Entry) /\ queue' \in [Queues -> Seq(1..MaxBatches)]
    BY <1>1, <1>4, <2>1, DrainTypes DEF InitialPoll, Drain, TypeOK
  <2> QED
    BY <1>4, <2>2 DEF InitialPoll, TypeOK, Goto, bounds, history
<1>5. CASE StartTurn
  <2>1. transcript' \in Seq(Entry) /\ context' \in Seq(Entry)
    BY <1>1, <1>5, SayTypes DEF StartTurn
  <2> QED
    BY <1>2, <1>5, <2>1 DEF StartTurn, TypeOK, Goto, bounds, history
<1>6. CASE ThrowIfAborted
  BY <1>2, <1>6 DEF ThrowIfAborted, TypeOK, Goto, bounds, history
<1>7. CASE ModelAnswers
  <2>1. turn' = turn + 1 /\ turn + 1 \in 0..MaxTurns
    BY <1>7 DEF ModelAnswers, TypeOK, AgentAssumption
  <2>2. PICK n \in 0..MaxCalls, sequential \in BOOLEAN :
          /\ Say(<<Assistant(turn + 1, n, "stop")>>)
          /\ more' = FALSE
          /\ tools' = [sequential |-> sequential, call |-> [i \in 1..n |-> "new"], published |-> 0]
          /\ Goto(IF n = 0 THEN "turn_end" ELSE "tools")
    BY <1>7 DEF ModelAnswers
  <2>3. Assistant(turn + 1, n, "stop") \in Entry
    BY <2>1, Entries
  <2>4. transcript' \in Seq(Entry) /\ context' \in Seq(Entry)
    BY <2>2, <2>3, OneEntry, SayTypes
  <2>5. n \in Nat /\ n <= MaxCalls
    BY DEF AgentAssumption
  <2>6. [i \in 1..n |-> "new"] \in Seq(Stages) /\ Len([i \in 1..n |-> "new"]) = n
    BY <2>5 DEF Stages
  <2>7. /\ tools' \in [sequential : BOOLEAN, call : Seq(Stages), published : Nat]
        /\ tools'.published <= Len(tools'.call) /\ Len(tools'.call) <= MaxCalls
    BY <2>2, <2>5, <2>6
  <2>8. more' \in BOOLEAN /\ pc' \in {"turn_end", "tools"}
    BY <2>2 DEF Goto
  <2> QED
    BY <1>7, <2>1, <2>4, <2>7, <2>8 DEF ModelAnswers, TypeOK, history
<1>8. CASE ModelStops
  <2>1. PICK n \in {0, MaxCalls} : Say(<<Assistant(0, n, IF aborted THEN "aborted" ELSE "error")>>)
    BY <1>8 DEF ModelStops
  <2>2. n \in 0..MaxCalls /\ 0 \in 0..MaxTurns
    BY DEF AgentAssumption
  <2>3. Assistant(0, n, IF aborted THEN "aborted" ELSE "error") \in Entry
    BY <2>2, Entries
  <2>4. transcript' \in Seq(Entry) /\ context' \in Seq(Entry)
    BY <2>1, <2>3, OneEntry, SayTypes
  <2> QED
    BY <1>8, <2>4 DEF ModelStops, TypeOK, Goto, bounds, history
<1>9. CASE Throw
  BY <1>9 DEF Throw, TypeOK, Goto, bounds, history
<1> QED
  BY <1>3, <1>4, <1>5, <1>6, <1>7, <1>8, <1>9

\* A call of the batch that gets on.
LEMMA StageTypes ==
    ASSUME TypeOK, NEW i \in Calls, NEW s \in Stages, Stage(i, s)
    PROVE  /\ tools' \in [sequential : BOOLEAN, call : Seq(Stages), published : Nat]
           /\ Len(tools'.call) = Len(tools.call) /\ tools'.published = tools.published
           /\ tools'.sequential = tools.sequential
           /\ \A j \in 1..Len(tools.call) :
                 tools'.call[j] = IF j = i THEN s ELSE tools.call[j]
           /\ i \in 1..Len(tools.call)
<1> DEFINE c == tools.call
<1>1. tools \in [sequential : BOOLEAN, call : Seq(Stages), published : Nat]
      /\ tools.published <= Len(c) /\ c \in Seq(Stages) /\ i \in DOMAIN c
      /\ tools' = [tools EXCEPT !.call = [c EXCEPT ![i] = s]]
  BY DEF TypeOK, Stage, Calls
<1> HIDE DEF c
<1>2. i \in 1..Len(c) /\ Len(c) \in Nat
  BY <1>1
<1>3. /\ [c EXCEPT ![i] = s] \in Seq(Stages) /\ Len([c EXCEPT ![i] = s]) = Len(c)
      /\ \A j \in 1..Len(c) : [c EXCEPT ![i] = s][j] = IF j = i THEN s ELSE c[j]
  BY <1>1, <1>2, ExceptSeq
<1> DEFINE d == [c EXCEPT ![i] = s]
<1> HIDE DEF d
<1>4. tools' = [tools EXCEPT !.call = d] /\ d \in Seq(Stages) /\ Len(d) = Len(c)
      /\ \A j \in 1..Len(c) : d[j] = IF j = i THEN s ELSE c[j]
  BY <1>1, <1>3 DEF d
<1>5. tools'.call = d /\ tools'.published = tools.published /\ tools'.sequential = tools.sequential
      /\ tools' \in [sequential : BOOLEAN, call : Seq(Stages), published : Nat]
  BY <1>1, <1>4
<1> QED
  BY <1>1, <1>2, <1>4, <1>5 DEF c

\* All the prepared calls of a batch run, or fail if it is aborted.
LEMMA LaunchTypes ==
    ASSUME TypeOK, LaunchBatch
    PROVE  /\ tools' \in [sequential : BOOLEAN, call : Seq(Stages), published : Nat]
           /\ Len(tools'.call) = Len(tools.call) /\ tools'.published = tools.published
           /\ tools'.sequential = tools.sequential
           /\ \A j \in 1..Len(tools.call) : tools'.call[j] =
                 IF tools.call[j] # "prepared" THEN tools.call[j]
                 ELSE IF aborted THEN "done" ELSE "running"
<1> DEFINE c == tools.call
<1> DEFINE ready == {i \in Calls : tools.call[i] = "prepared"}
<1> DEFINE d == [i \in Calls |-> IF i \notin ready THEN c[i] ELSE IF aborted THEN "done" ELSE "running"]
<1>1. c \in Seq(Stages) /\ Calls = 1..Len(c) /\ Len(c) \in Nat
  BY DEF TypeOK, Calls
<1>2. \A j \in 1..Len(c) : c[j] \in Stages
  BY <1>1
<1>3. \A j \in 1..Len(c) : d[j] \in Stages /\ d[j] =
         IF c[j] # "prepared" THEN c[j] ELSE IF aborted THEN "done" ELSE "running"
  BY <1>1, <1>2 DEF Stages
<1>4. d \in [1..Len(c) -> Stages]
  BY <1>1, <1>3
<1>5. tools \in [sequential : BOOLEAN, call : Seq(Stages), published : Nat]
      /\ tools' = [tools EXCEPT !.call = d]
  BY DEF TypeOK, LaunchBatch
<1> HIDE DEF d, c
<1>6. d \in Seq(Stages) /\ Len(d) = Len(c)
  BY <1>1, <1>4
<1>7. tools'.call = d /\ tools'.published = tools.published /\ tools'.sequential = tools.sequential
      /\ tools' \in [sequential : BOOLEAN, call : Seq(Stages), published : Nat]
  BY <1>5, <1>6
<1> QED
  BY <1>3, <1>6, <1>7 DEF c

\* of tool batches,
LEMMA BatchTypes ==
    ASSUME AgentAssumption, IInv,
           \/ \E i \in Calls : PrepareToolCall(i) \/ ToolAborted(i)
           \/ LaunchBatch \/ PublishResults \/ EndBatch
           \/ \E c \in alive : ToolSettles(c[1], c[2])
    PROVE  TypeOK'
<1> USE DEF IInv
<1> HIDE DEF Entry, TypeOK, ToolsOK
<1>1. /\ Calls = 1..Len(tools.call) /\ Len(tools.call) \in Nat /\ Len(tools.call) <= MaxCalls
      /\ MaxCalls \in Nat /\ tools.published <= Len(tools.call) /\ tools.published \in Nat
      /\ pc = "tools" => turn \in 1..MaxTurns
  BY DEF Calls, TypeOK, ToolsOK, AgentAssumption
<1>2. {"done", "running", "prepared", "terminate"} \subseteq Stages
  BY DEF Stages
<1>3. ASSUME NEW i \in Calls, pc = "tools"
      PROVE  alive \cup {<<turn, i>>} \subseteq (1..MaxTurns) \X (1..MaxCalls)
  BY <1>1, <1>3 DEF TypeOK
<1>4. ASSUME NEW i \in Calls, PrepareToolCall(i)
      PROVE  TypeOK'
  <2>1. \E s \in {"done", "running", "prepared"} : Stage(i, s)
    BY <1>4 DEF PrepareToolCall
  <2>2. PICK s \in Stages : Stage(i, s)
    BY <1>2, <2>1
  <2>3. alive' \subseteq (1..MaxTurns) \X (1..MaxCalls)
    BY <1>3, <1>4 DEF PrepareToolCall, TypeOK
  <2> QED
    BY <1>1, <1>4, <2>2, <2>3, StageTypes DEF PrepareToolCall, TypeOK, bounds, history
<1>5. ASSUME NEW i \in Calls, ToolAborted(i)
      PROVE  TypeOK'
  BY <1>1, <1>2, <1>5, StageTypes DEF ToolAborted, TypeOK, bounds, history
<1>6. CASE LaunchBatch
  <2>1. \A i \in Calls : <<turn, i>> \in (1..MaxTurns) \X (1..MaxCalls)
    BY <1>1, <1>6 DEF LaunchBatch
  <2>2. alive' \subseteq (1..MaxTurns) \X (1..MaxCalls)
    BY <1>6, <2>1 DEF LaunchBatch, TypeOK
  <2> QED
    BY <1>1, <1>6, <2>2, LaunchTypes DEF LaunchBatch, TypeOK, bounds, history
<1>7. CASE PublishResults
  <2> DEFINE n == Cardinality(Publishable)
  <2>1. n \in Nat /\ tools.published + n <= Len(tools.call)
    BY <1>7, PublishTypes DEF PublishResults
  <2> HIDE DEF n
  <2>2. /\ transcript' = transcript \o [k \in 1..n |-> ToolResult(turn, tools.published + k)]
        /\ tools' = [tools EXCEPT !.published = tools.published + n] /\ pc = "tools"
    BY <1>7 DEF PublishResults, n
  <2>3. [k \in 1..n |-> ToolResult(turn, tools.published + k)] \in Seq(Entry)
    BY <1>1, <2>1, <2>2, ResultTypes
  <2>4. transcript' \in Seq(Entry)
    BY <2>2, <2>3, ConcatProperties DEF TypeOK
  <2>5. /\ tools' \in [sequential : BOOLEAN, call : Seq(Stages), published : Nat]
        /\ tools'.published <= Len(tools'.call) /\ Len(tools'.call) <= MaxCalls
    <3>1. tools \in [sequential : BOOLEAN, call : Seq(Stages), published : Nat]
      BY DEF TypeOK
    <3> DEFINE p == tools.published + n
    <3>2. p \in Nat /\ p <= Len(tools.call) /\ tools' = [tools EXCEPT !.published = p]
      BY <1>1, <2>1, <2>2
    <3> HIDE DEF p
    <3>3. tools'.call = tools.call /\ tools'.published = p
          /\ tools' \in [sequential : BOOLEAN, call : Seq(Stages), published : Nat]
      BY <3>1, <3>2
    <3> QED
      BY <1>1, <3>2, <3>3
  <2> QED
    BY <1>7, <2>4, <2>5 DEF PublishResults, TypeOK, bounds, history
<1>8. CASE EndBatch
  <2> DEFINE s == [k \in 1..tools.published |-> ToolResult(turn, 0 + k)]
  <2>1. s \in Seq(Entry)
    <3>1. 0 \in Nat /\ 0 + tools.published <= Len(tools.call) /\ pc = "tools"
      BY <1>1, <1>8 DEF EndBatch
    <3> QED
      BY <1>1, <3>1, ResultTypes
  <2>2. s = [k \in 1..tools.published |-> ToolResult(turn, k)]
    BY <1>1
  <2>3. context' = context \o s
    BY <1>8, <2>2 DEF EndBatch
  <2> HIDE DEF s
  <2>4. context' \in Seq(Entry)
    BY <2>1, <2>3, ConcatProperties DEF TypeOK
  <2>5. more' \in BOOLEAN
    BY <1>8 DEF EndBatch
  <2> QED
    BY <1>8, <2>4, <2>5 DEF EndBatch, TypeOK, Goto, bounds, history
<1>9. ASSUME NEW c \in alive, ToolSettles(c[1], c[2])
      PROVE  TypeOK'
  <2>1. alive' \subseteq (1..MaxTurns) \X (1..MaxCalls)
    BY <1>9 DEF ToolSettles, TypeOK
  <2>2. CASE UNCHANGED tools
    BY <1>9, <2>1, <2>2 DEF ToolSettles, TypeOK, bounds, history
  <2>3. CASE \E s \in Finished : c[2] \in Calls /\ Stage(c[2], s)
    <3>1. PICK s \in Stages : c[2] \in Calls /\ Stage(c[2], s)
      BY <2>3 DEF Finished, Stages
    <3> QED
      BY <1>1, <1>9, <2>1, <3>1, StageTypes DEF ToolSettles, TypeOK, bounds, history
  <2> QED
    BY <1>9, <2>2, <2>3 DEF ToolSettles
<1> QED
  BY <1>4, <1>5, <1>6, <1>7, <1>8, <1>9

\* and of the end of a turn.
LEMMA EndTypes ==
    ASSUME AgentAssumption, IInv,
           \/ Stop \/ TurnEnds \/ PollSteering \/ NextTurn \/ PollFollowUps \/ FollowUp
           \/ Continuation \/ HandleRunFailure \/ FinishRun
    PROVE  TypeOK'
<1> USE DEF IInv
<1> HIDE DEF Entry, TypeOK, ToolsOK
<1>1. "steer" \in Queues /\ "follow" \in Queues /\ <<>> \in Seq(Entry)
  BY DEF Queues
<1>2. CASE Stop
  BY <1>1, <1>2 DEF Stop, TypeOK, Goto, bounds, history
<1>3. CASE TurnEnds
  BY <1>3 DEF TurnEnds, TypeOK, Goto, bounds, history
<1>4. CASE PollSteering
  <2>1. pending' \in Seq(Entry) /\ queue' \in [Queues -> Seq(1..MaxBatches)]
    BY <1>1, <1>4, DrainTypes DEF PollSteering, Drain, TypeOK
  <2> QED
    BY <1>4, <2>1 DEF PollSteering, TypeOK, Goto, bounds, history
<1>5. CASE NextTurn
  BY <1>5 DEF NextTurn, TypeOK, Goto, bounds, history
<1>6. CASE PollFollowUps
  <2>1. pending' \in Seq(Entry) /\ queue' \in [Queues -> Seq(1..MaxBatches)]
    BY <1>1, <1>6, DrainTypes DEF PollFollowUps, Drain, TypeOK
  <2> QED
    BY <1>6, <2>1 DEF PollFollowUps, TypeOK, Goto, bounds, history
<1>7. CASE FollowUp
  BY <1>7 DEF FollowUp, TypeOK, Goto, bounds, history
<1>8. CASE Continuation
  <2>1. sent + 1 \in 1..MaxBatches /\ sent' = sent + 1
    BY <1>8 DEF Continuation, TypeOK, AgentAssumption
  <2>2. User(sent + 1, "continuation") \in Entry
    BY <2>1, Entries
  <2>3. pending' \in Seq(Entry) /\ sent' \in 0..MaxBatches
    BY <1>8, <2>1, <2>2, OneEntry DEF Continuation
  <2> QED
    BY <1>8, <2>3 DEF Continuation, TypeOK, Goto, history
<1>9. CASE HandleRunFailure
  <2>1. 0 \in 0..MaxTurns /\ 0 \in 0..MaxCalls
    BY DEF AgentAssumption
  <2>2. Assistant(0, 0, IF aborted THEN "aborted" ELSE "error") \in Entry
    BY <2>1, Entries
  <2>3. transcript' \in Seq(Entry)
    BY <1>9, <2>2, AppendProperties DEF HandleRunFailure, TypeOK
  <2> QED
    BY <1>9, <2>3 DEF HandleRunFailure, TypeOK, Goto, bounds, history
<1>10. CASE FinishRun
  <2>1. NoTools \in [sequential : BOOLEAN, call : Seq(Stages), published : Nat]
        /\ NoTools.published <= Len(NoTools.call) /\ Len(NoTools.call) <= MaxCalls
    BY DEF NoTools, AgentAssumption
  <2> QED
    BY <1>1, <1>10, <2>1 DEF FinishRun, TypeOK, Goto, bounds, history
<1> QED
  BY <1>2, <1>3, <1>4, <1>5, <1>6, <1>7, <1>8, <1>9, <1>10

\* Every step keeps the types.
LEMMA TypeStep ==
    ASSUME AgentAssumption, IInv, Next
    PROVE  TypeOK'
BY OwnerTypes, TurnTypes, BatchTypes, EndTypes DEF Next, Loop, World

-----------------------------------------------------------------------------
(* Tools and their batch.                                                  *)

\* A step that touches neither the batch nor its tools.
LEMMA ToolsSame ==
    ASSUME ToolsOK, UNCHANGED <<tools, alive, turn>>, cut \subseteq cut',
           \/ pc # "tools" /\ pc' # "tools"
           \/ pc' = pc /\ (pc = "tools" /\ aborted' => turn \in cut')
    PROVE  ToolsOK'
BY DEF ToolsOK

\* No batch is at hand before a run's first answer.
LEMMA NoBatch ==
    ASSUME ToolsOK, pc # "tools", tools' = NoTools, UNCHANGED <<alive, turn, cut>>, pc' # "tools"
    PROVE  ToolsOK'
<1>1. tools'.published = 0
  BY DEF NoTools
<1> QED
  BY <1>1 DEF ToolsOK

\* What the owner does, and the turns around a batch, leave its tools alone.
LEMMA ToolsAlone ==
    ASSUME IInv,
           \/ Owner \/ EmitPrompts \/ InitialPoll \/ StartTurn \/ ThrowIfAborted
           \/ ModelStops \/ Throw \/ Stop \/ TurnEnds \/ PollSteering \/ NextTurn
           \/ PollFollowUps \/ FollowUp \/ Continuation \/ HandleRunFailure \/ FinishRun
    PROVE  ToolsOK'
<1> USE DEF IInv
<1> HIDE DEF TypeOK, ToolsOK
<1>1. CASE ContinueQueued \/ ContinueTranscript \/ Prompt
  <2>1. \E m, skip : StartRun(m, skip) /\ pc = "idle"
    BY <1>1 DEF ContinueQueued, ContinueTranscript, Prompt
  <2> QED
    BY <2>1, NoBatch DEF StartRun
<1>2. CASE FinishRun
  BY <1>2, NoBatch DEF FinishRun, Goto, bounds, history
<1>3. CASE Abort
  BY <1>3, ToolsSame DEF Abort, bounds, ToolsOK
<1>4. CASE \/ \E q \in Queues : Enqueue(q)
           \/ ClearAllQueues \/ \E q \in Queues : \E i \in DOMAIN queue[q] : RemoveQueuedMessages(q, i)
           \/ PrepareRetry
  <2>1. UNCHANGED <<tools, alive, turn, cut, pc, aborted>>
    BY <1>4 DEF Enqueue, ClearAllQueues, RemoveQueuedMessages, PrepareRetry, run, bounds, history
  <2> QED
    BY <2>1, ToolsSame DEF ToolsOK
<1>5. CASE \/ EmitPrompts \/ InitialPoll \/ StartTurn \/ ThrowIfAborted
           \/ ModelStops \/ Throw \/ Stop \/ TurnEnds \/ PollSteering \/ NextTurn
           \/ PollFollowUps \/ FollowUp \/ Continuation \/ HandleRunFailure
  <2>1. UNCHANGED <<tools, alive, turn, cut>> /\ pc # "tools" /\ pc' # "tools"
    BY <1>5 DEF EmitPrompts, InitialPoll, StartTurn, ThrowIfAborted, ModelStops, Throw, Stop,
            TurnEnds, PollSteering, NextTurn, PollFollowUps, FollowUp, Continuation,
            HandleRunFailure, Goto, bounds, history
  <2> QED
    BY <2>1, ToolsSame
<1> QED
  BY <1>1, <1>2, <1>3, <1>4, <1>5 DEF Owner

\* A batch begins with no call published, and every older tool was cut.
LEMMA ToolsBegin ==
    ASSUME AgentAssumption, IInv, ModelAnswers
    PROVE  ToolsOK'
<1> USE DEF IInv
<1> HIDE DEF TypeOK
<1>1. turn \in Nat /\ turn' = turn + 1 /\ pc = "stream" /\ ~aborted /\ UNCHANGED <<aborted, alive, cut>>
  BY DEF ModelAnswers, TypeOK, history
<1>2. tools'.published = 0
  BY DEF ModelAnswers
<1>3. \A c \in alive : c[1] <= turn' /\ c[1] \in cut
  <2> SUFFICES ASSUME NEW c \in alive
               PROVE  c[1] <= turn + 1 /\ c[1] \in cut
    BY <1>1
  <2>1. c[1] \in Nat
    BY DEF TypeOK
  <2> QED
    BY <1>1, <2>1 DEF ToolsOK
<1> QED
  BY <1>1, <1>2, <1>3 DEF ToolsOK

\* A batch's steps: a call is prepared, runs, ends or is aborted, and results
\* are published.
LEMMA ToolsBatch ==
    ASSUME AgentAssumption, IInv,
           \/ \E i \in Calls : PrepareToolCall(i) \/ ToolAborted(i)
           \/ LaunchBatch \/ PublishResults \/ EndBatch
           \/ \E c \in alive : ToolSettles(c[1], c[2])
    PROVE  ToolsOK'
<1> USE DEF IInv
<1> HIDE DEF TypeOK, ToolsOK
<1>1. /\ Calls = 1..Len(tools.call) /\ Len(tools.call) \in Nat /\ tools.published \in Nat
      /\ tools.published <= Len(tools.call) /\ turn \in Nat
      /\ \A c \in alive : c[1] \in Nat /\ c[2] \in Nat /\ c = <<c[1], c[2]>>
  BY SMTT(30) DEF Calls, TypeOK
<1>2. {"done", "running", "prepared", "terminate"} \subseteq Stages
  BY DEF Stages
<1>3. ASSUME NEW i \in Calls, NEW s \in Stages, Stage(i, s), tools.call[i] \notin Finished
      PROVE  /\ \A k \in 1..tools'.published : tools'.call[k] \in Finished
             /\ ~tools'.sequential => tools'.published \in {0, Len(tools'.call)}
  <2>1. /\ Len(tools'.call) = Len(tools.call) /\ tools'.published = tools.published
        /\ tools'.sequential = tools.sequential
        /\ \A j \in 1..Len(tools.call) : tools'.call[j] = IF j = i THEN s ELSE tools.call[j]
    BY <1>3, StageTypes
  <2>2. ASSUME NEW k \in 1..tools.published
        PROVE  tools'.call[k] \in Finished
    <3>1. k \in 1..Len(tools.call) /\ tools.call[k] \in Finished /\ k # i
      BY <1>1, <1>3 DEF ToolsOK
    <3> QED
      BY <2>1, <3>1
  <2>3. ~tools.sequential => tools.published \in {0, Len(tools.call)}
    BY DEF ToolsOK
  <2> QED
    BY <2>1, <2>2, <2>3
<1>4. ASSUME NEW i \in Calls, PrepareToolCall(i)
      PROVE  ToolsOK'
  <2>1. PICK s \in Stages :
            /\ Stage(i, s)
            /\ \/ s # "running" /\ UNCHANGED alive
               \/ s = "running" /\ ~aborted /\ alive' = alive \cup {<<turn, i>>}
    BY <1>2, <1>4 DEF PrepareToolCall
  <2>2. tools.call[i] = "new" /\ pc = "tools" /\ UNCHANGED <<pc, turn, aborted, cut>>
    BY <1>4 DEF PrepareToolCall, bounds, history
  <2>3. /\ Len(tools'.call) = Len(tools.call)
        /\ \A j \in 1..Len(tools.call) : tools'.call[j] = IF j = i THEN s ELSE tools.call[j]
    BY <2>1, StageTypes
  <2>4. \A c \in alive' :
            /\ c[1] <= turn
            /\ \/ c[1] \in cut
               \/ c[1] = turn /\ c[2] \in 1..Len(tools.call) /\ tools'.call[c[2]] = "running"
    <3> SUFFICES ASSUME NEW c \in alive'
                 PROVE  /\ c[1] <= turn
                        /\ \/ c[1] \in cut
                           \/ c[1] = turn /\ c[2] \in 1..Len(tools.call) /\ tools'.call[c[2]] = "running"
      OBVIOUS
    <3>1. CASE c \in alive
      BY <2>2, <2>3, <3>1 DEF ToolsOK
    <3>2. CASE c = <<turn, i>> /\ s = "running"
      BY <1>1, <2>3, <3>2
    <3> QED
      BY <2>1, <3>1, <3>2
  <2> QED
    BY <1>3, <2>1, <2>2, <2>3, <2>4 DEF ToolsOK, Finished
<1>5. ASSUME NEW i \in Calls, ToolAborted(i)
      PROVE  ToolsOK'
  <2>1. tools.call[i] = "running" /\ pc = "tools" /\ aborted /\ Stage(i, "done")
        /\ UNCHANGED <<pc, turn, aborted, cut, alive>> /\ turn \in cut
    BY <1>5 DEF ToolAborted, bounds, history, ToolsOK
  <2> QED
    BY <1>2, <1>3, <2>1 DEF ToolsOK, Finished
<1>6. CASE LaunchBatch
  <2>1. /\ Len(tools'.call) = Len(tools.call) /\ tools'.published = tools.published
        /\ tools'.sequential = tools.sequential
        /\ \A j \in 1..Len(tools.call) : tools'.call[j] =
              IF tools.call[j] # "prepared" THEN tools.call[j]
              ELSE IF aborted THEN "done" ELSE "running"
    BY <1>6, LaunchTypes
  <2>2. pc = "tools" /\ UNCHANGED <<pc, turn, aborted, cut>>
        /\ alive' = IF aborted THEN alive
                    ELSE alive \cup {<<turn, i>> : i \in {j \in Calls : tools.call[j] = "prepared"}}
    BY <1>6 DEF LaunchBatch, bounds, history
  <2>3. \A c \in alive' :
            /\ c[1] <= turn
            /\ \/ c[1] \in cut
               \/ c[1] = turn /\ c[2] \in 1..Len(tools.call) /\ tools'.call[c[2]] = "running"
    <3> SUFFICES ASSUME NEW c \in alive'
                 PROVE  /\ c[1] <= turn
                        /\ \/ c[1] \in cut
                           \/ c[1] = turn /\ c[2] \in 1..Len(tools.call) /\ tools'.call[c[2]] = "running"
      OBVIOUS
    <3>1. CASE c \in alive
      BY <2>1, <2>2, <3>1 DEF ToolsOK
    <3>2. CASE c \notin alive
      <4>1. ~aborted /\ \E i \in Calls : tools.call[i] = "prepared" /\ c = <<turn, i>>
        BY <2>2, <3>2
      <4> QED
        BY <1>1, <2>1, <4>1
    <3> QED
      BY <3>1, <3>2
  <2>4. \A k \in 1..tools.published : tools'.call[k] \in Finished
    BY SMTT(30), <1>1, <2>1 DEF ToolsOK, Finished
  <2> QED
    BY <2>1, <2>2, <2>3, <2>4 DEF ToolsOK
<1>7. CASE PublishResults
  <2> DEFINE n == Cardinality(Publishable)
  <2>1. /\ n \in Nat /\ tools.published + n <= Len(tools.call)
        /\ \A i \in 1..(tools.published + n) : tools.call[i] \in Finished
        /\ ~tools.sequential => tools.published = 0 /\ n = Len(tools.call)
    BY <1>7, PublishTypes DEF PublishResults
  <2>2. tools' = [tools EXCEPT !.published = tools.published + n] /\ pc = "tools"
        /\ UNCHANGED <<pc, turn, aborted, cut, alive>>
    BY <1>7 DEF PublishResults, bounds, history
  <2> HIDE DEF n
  <2>3. tools'.call = tools.call /\ tools'.published = tools.published + n
        /\ tools'.sequential = tools.sequential
    BY <2>2 DEF TypeOK
  <2>4. ~tools'.sequential => tools'.published = Len(tools'.call)
    BY <1>1, <2>1, <2>3
  <2> QED
    BY <2>1, <2>2, <2>3, <2>4 DEF ToolsOK
<1>8. CASE EndBatch
  <2>1. pc = "tools" /\ pc' = "turn_end" /\ UNCHANGED <<tools, turn, cut, alive>>
        /\ (aborted \/ tools.published = Len(tools.call))
    BY <1>8 DEF EndBatch, Goto, bounds, history
  <2>2. ASSUME NEW c \in alive
        PROVE  c[1] \in cut
    BY <2>1 DEF ToolsOK, Finished
  <2> QED
    BY <2>1, <2>2 DEF ToolsOK
<1>9. ASSUME NEW c \in alive, ToolSettles(c[1], c[2])
      PROVE  ToolsOK'
  <2>1. alive' = alive \ {<<c[1], c[2]>>} /\ UNCHANGED <<pc, turn, aborted, cut>>
    BY <1>9 DEF ToolSettles, bounds, history
  <2>2. CASE UNCHANGED tools
    BY <2>1, <2>2 DEF ToolsOK
  <2>3. CASE /\ c[1] = turn /\ c[2] \in Calls /\ tools.call[c[2]] = "running"
             /\ \E s \in Finished : Stage(c[2], s)
    <3>1. PICK s \in Stages : Stage(c[2], s) /\ s \in Finished
      BY <2>3 DEF Finished, Stages
    <3>2. /\ Len(tools'.call) = Len(tools.call)
          /\ \A j \in 1..Len(tools.call) : tools'.call[j] = IF j = c[2] THEN s ELSE tools.call[j]
      BY <2>3, <3>1, StageTypes
    <3>3. ASSUME NEW d \in alive'
          PROVE  /\ d[1] <= turn
                 /\ \/ d[1] \in cut
                    \/ /\ pc = "tools" /\ d[1] = turn /\ d[2] \in 1..Len(tools.call)
                       /\ tools'.call[d[2]] = "running"
      <4>1. d \in alive /\ d # <<c[1], c[2]>>
        BY <2>1
      <4>2. CASE d[1] = turn /\ d[2] = c[2]
        BY <1>1, <2>3, <4>1, <4>2
      <4>3. CASE ~(d[1] = turn /\ d[2] = c[2])
        BY <3>2, <4>1, <4>3 DEF ToolsOK
      <4> QED
        BY <4>2, <4>3
    <3>4. tools.call[c[2]] \notin Finished
      BY <2>3 DEF Finished
    <3> QED
      BY <1>3, <2>1, <2>3, <3>1, <3>2, <3>3, <3>4 DEF ToolsOK
  <2> QED
    BY <1>9, <2>2, <2>3 DEF ToolSettles
<1> QED
  BY <1>4, <1>5, <1>6, <1>7, <1>8, <1>9

\* Every step waits for the tools that no abort cut off.
LEMMA ToolsStep ==
    ASSUME AgentAssumption, IInv, Next
    PROVE  ToolsOK'
BY ToolsAlone, ToolsBegin, ToolsBatch DEF Next, Loop, World

-----------------------------------------------------------------------------
(* Pending messages.                                                       *)

\* What a queue is drained to are its owner's messages.
LEMMA DrainedUsers ==
    ASSUME AgentAssumption, TypeOK, NEW q \in Queues
    PROVE  \A i \in 1..Len(Messages(Drained(q), q)) :
              /\ Messages(Drained(q), q)[i].role = "user"
              /\ Messages(Drained(q), q)[i].from = q
<1>1. Len(Messages(Drained(q), q)) = Len(Drained(q))
  BY DrainTypes
<1>2. \A i \in 1..Len(Drained(q)) : Messages(Drained(q), q)[i] = User(Drained(q)[i], q)
  BY DrainTypes
<1> QED
  <2> SUFFICES ASSUME NEW i \in 1..Len(Messages(Drained(q), q))
               PROVE  /\ Messages(Drained(q), q)[i].role = "user"
                      /\ Messages(Drained(q), q)[i].from = q
    OBVIOUS
  <2>1. i \in 1..Len(Drained(q))
    BY <1>1
  <2>2. Messages(Drained(q), q)[i] = User(Drained(q)[i], q)
    BY <1>2, <2>1
  <2> QED
    BY <2>2 DEF User

\* Every step leaves the owner's messages pending, and only where they are said
\* next.
LEMMA PendingStep ==
    ASSUME AgentAssumption, IInv, Next
    PROVE  PendingOK'
<1> USE DEF IInv
<1> HIDE DEF TypeOK, PendingOK
<1>1. "steer" \in Queues /\ "follow" \in Queues /\ Len(<<>>) = 0
  BY DEF Queues
<1>2. CASE \/ \E q \in Queues : Enqueue(q)
           \/ ClearAllQueues \/ \E q \in Queues : \E i \in DOMAIN queue[q] : RemoveQueuedMessages(q, i)
           \/ Abort \/ PrepareRetry \/ LaunchBatch \/ PublishResults
           \/ \E i \in Calls : PrepareToolCall(i) \/ ToolAborted(i)
           \/ \E c \in alive : ToolSettles(c[1], c[2])
  <2>1. UNCHANGED <<pending, pc>>
    BY <1>2 DEF Enqueue, ClearAllQueues, RemoveQueuedMessages, Abort, PrepareRetry, LaunchBatch,
            PublishResults, PrepareToolCall, ToolAborted, ToolSettles, run
  <2> QED
    BY <2>1 DEF PendingOK
<1>3. CASE Prompt
  <2>1. pending' = <<User(sent + 1, "prompt")>> /\ pc' = "start"
    BY <1>3 DEF Prompt, StartRun
  <2>2. Len(pending') = 1 /\ pending'[1].role = "user"
    BY <2>1 DEF User
  <2> QED
    BY <2>1, <2>2 DEF PendingOK
<1>4. CASE ContinueQueued
  <2>1. pc' = "start" /\ \E q \in Queues : pending' = Messages(Drained(q), q)
    BY <1>1, <1>4 DEF ContinueQueued, StartRun
  <2> QED
    BY <2>1, DrainedUsers DEF PendingOK
<1>5. CASE ContinueTranscript
  BY <1>1, <1>5 DEF ContinueTranscript, StartRun, PendingOK
<1>6. CASE EmitPrompts \/ StartTurn \/ ThrowIfAborted \/ Stop \/ FinishRun
  <2>1. pending' = <<>>
    BY <1>6 DEF EmitPrompts, StartTurn, ThrowIfAborted, Stop, FinishRun
  <2> QED
    BY <1>1, <2>1 DEF PendingOK
<1>7. CASE InitialPoll \/ PollSteering \/ PollFollowUps
  <2>1. pc' \in {"top", "polled", "followed"}
        /\ \/ pending' = pending \/ pending' = <<>>
           \/ \E q \in Queues : pending' = Messages(Drained(q), q)
    BY <1>1, <1>7 DEF InitialPoll, PollSteering, PollFollowUps, Goto
  <2> QED
    BY <1>1, <2>1, DrainedUsers DEF PendingOK
<1>8. CASE ModelAnswers \/ ModelStops \/ Throw \/ EndBatch \/ TurnEnds \/ NextTurn
           \/ FollowUp \/ HandleRunFailure
  <2>1. pending' = pending /\ (pending = <<>> \/ pc' = "top")
    BY <1>8 DEF PendingOK, ModelAnswers, ModelStops, Throw, EndBatch, TurnEnds, NextTurn,
            FollowUp, HandleRunFailure, Goto
  <2> QED
    BY <2>1 DEF PendingOK
<1>9. CASE Continuation
  <2>1. pending' = <<User(sent + 1, "continuation")>> /\ pc' = "top"
    BY <1>9 DEF Continuation, Goto
  <2>2. Len(pending') = 1 /\ pending'[1].role = "user"
    BY <2>1 DEF User
  <2> QED
    BY <2>1, <2>2 DEF PendingOK
<1> QED
  BY <1>2, <1>3, <1>4, <1>5, <1>6, <1>7, <1>8, <1>9 DEF Next, Loop, World, Owner

-----------------------------------------------------------------------------
(* Steering.                                                               *)

\* What does not extend the transcript leaves the messages apart.
LEMMA ApartKept ==
    ASSUME TypeOK, base \in Nat, UNCHANGED base, Len(transcript') \in Nat,
           Len(transcript') <= Len(transcript),
           \A i \in 1..Len(transcript') : transcript'[i] = transcript[i]
    PROVE  SteeredApart => SteeredApart'
<1> SUFFICES ASSUME SteeredApart, NEW j \in (base + 1)..Len(transcript'),
                    NEW k \in (base + 1)..Len(transcript'), j < k,
                    \A i \in j..k : transcript'[i].role = "user"
             PROVE  transcript'[j].from # "steer" \/ transcript'[k].from # "steer"
  BY DEF SteeredApart
<1>1. Len(transcript) \in Nat
  BY DEF TypeOK
<1>2. j \in (base + 1)..Len(transcript) /\ k \in (base + 1)..Len(transcript) /\ k \in 1..Len(transcript')
      /\ j \in 1..Len(transcript')
  BY <1>1
<1>3. \A i \in j..k : i \in 1..Len(transcript')
  BY <1>2
<1>4. \A i \in j..k : transcript[i].role = "user"
  BY <1>3
<1> QED
  BY <1>2, <1>4 DEF SteeredApart

\* Behind an answer nothing was steered yet.
LEMMA AnsweredUnsteered ==
    ASSUME TypeOK, Answered
    PROVE  Unsteered
<1>1. Len(transcript) \in Nat
  BY DEF TypeOK
<1> QED
  BY <1>1 DEF Answered, Unsteered, UserTail

\* What is said keeps the steering apart when it steers at most once, and only
\* a turn that nothing has steered.
LEMMA ApartSaid ==
    ASSUME TypeOK, SteeredApart, UNCHANGED base, NEW s \in Seq(Entry),
           Len(transcript') = Len(transcript) + Len(s),
           \A i \in 1..Len(transcript) : transcript'[i] = transcript[i],
           \A i \in 1..Len(s) : transcript'[Len(transcript) + i] = s[i],
           NEW Steers, Steers = {i \in 1..Len(s) : s[i].role = "user" /\ s[i].from = "steer"},
           \A i, j \in Steers : i = j,
           Steers # {} => Unsteered
    PROVE  SteeredApart'
<1> DEFINE L == Len(transcript)
<1> SUFFICES ASSUME NEW j \in (base + 1)..Len(transcript'), NEW k \in (base + 1)..Len(transcript'),
                    j < k, \A i \in j..k : transcript'[i].role = "user",
                    transcript'[j].from = "steer", transcript'[k].from = "steer"
             PROVE  FALSE
  BY DEF SteeredApart
<1>1. L \in Nat /\ Len(s) \in Nat /\ base \in Nat
  <2> HIDE DEF Entry
  <2> QED
    BY DEF TypeOK
<1> HIDE DEF Entry, L
<1>2. Len(transcript') = L + Len(s) /\ j \in Nat /\ k \in Nat /\ j >= 1 /\ k >= 1 /\ k <= L + Len(s)
  BY <1>1 DEF L
<1>3. CASE k <= L
  <2>1. j \in (base + 1)..L /\ k \in (base + 1)..L /\ j <= L
    BY <1>1, <1>2, <1>3
  <2>2. \A i \in j..k : i \in 1..L
    BY <1>1, <1>2, <1>3
  <2>3. \A i \in j..k : transcript[i].role = "user"
    BY <2>2 DEF L
  <2>4. transcript[j].from = "steer" /\ transcript[k].from = "steer"
    BY <1>2, <1>3, <2>1 DEF L
  <2> QED
    BY <2>1, <2>3, <2>4 DEF SteeredApart, L
<1>4. CASE k > L
  <2>1. k - L \in 1..Len(s) /\ s[k - L] = transcript'[k]
    <3>1. k - L \in 1..Len(s) /\ L + (k - L) = k
      BY <1>1, <1>2, <1>4
    <3> QED
      BY <3>1 DEF L
  <2>2. k - L \in Steers
    BY <1>2, <2>1
  <2>3. CASE j > L
    <3>1. j - L \in 1..Len(s) /\ L + (j - L) = j
      BY <1>1, <1>2, <2>3
    <3>2. s[j - L] = transcript'[j] /\ transcript'[j].role = "user"
      BY <1>2, <3>1 DEF L
    <3>3. j - L \in Steers
      BY <3>1, <3>2
    <3> QED
      BY SMTT(30), <1>1, <1>2, <2>2, <3>3
  <2>4. CASE j <= L
    <3>1. j \in (base + 1)..L /\ \A i \in j..L : i \in 1..L /\ i \in j..k
      BY <1>1, <1>2, <1>4, <2>4
    <3>2. UserTail(j)
      BY <3>1 DEF UserTail, L
    <3>3. transcript[j].from = "steer"
      BY <3>1, <1>2, <2>4 DEF L
    <3> QED
      BY <2>2, <3>1, <3>2, <3>3 DEF Unsteered, L
  <2> QED
    BY <1>1, <1>2, <2>3, <2>4
<1> QED
  BY <1>1, <1>2, <1>3, <1>4

\* Saying what is no message of the owner.
LEMMA AnswerSaid ==
    ASSUME TypeOK, UNCHANGED base, NEW s \in Seq(Entry), s # <<>>,
           \A i \in 1..Len(s) : s[i].role # "user",
           Len(transcript') = Len(transcript) + Len(s),
           \A i \in 1..Len(transcript) : transcript'[i] = transcript[i],
           \A i \in 1..Len(s) : transcript'[Len(transcript) + i] = s[i]
    PROVE  (SteeredApart => SteeredApart') /\ Answered'
<1>1. {i \in 1..Len(s) : s[i].role = "user" /\ s[i].from = "steer"} = {}
  OBVIOUS
<1>2. SteeredApart => SteeredApart'
  BY <1>1, ApartSaid
<1>3. Len(transcript) \in Nat /\ Len(s) \in Nat /\ Len(s) >= 1
  <2> HIDE DEF Entry
  <2> QED
    BY DEF TypeOK
<1> QED
  BY <1>2, <1>3 DEF Answered

\* Saying what is pending.
LEMMA PendingSaid ==
    ASSUME IInv, UNCHANGED base, Say(pending), mode["steer"] = "one-at-a-time"
    PROVE  SteeredApart'
<1> DEFINE Steers == {i \in 1..Len(pending) : pending[i].role = "user" /\ pending[i].from = "steer"}
<1>1. pending \in Seq(Entry)
  BY DEF IInv, TypeOK
<1>2. Steers \subseteq PendingSteering
  BY DEF PendingSteering
<1>3. (\A i, j \in Steers : i = j) /\ (Steers # {} => Unsteered) /\ SteeredApart
  BY <1>2 DEF IInv, SteeringOK
<1>4. /\ Len(transcript') = Len(transcript) + Len(pending)
      /\ \A i \in 1..Len(transcript) : transcript'[i] = transcript[i]
      /\ \A i \in 1..Len(pending) : transcript'[Len(transcript) + i] = pending[i]
  BY <1>1, SayTypes DEF IInv
<1> HIDE DEF Steers
<1>5. Steers = {i \in 1..Len(pending) : pending[i].role = "user" /\ pending[i].from = "steer"}
  BY DEF Steers
<1> QED
  BY <1>1, <1>3, <1>4, <1>5, ApartSaid DEF IInv

\* Nothing is pending, or nothing that steers.
LEMMA NoneSteers ==
    ASSUME NEW s, s = <<>> \/ \A i \in 1..Len(s) : s[i].from # "steer"
    PROVE  {i \in 1..Len(s) : s[i].from = "steer"} = {}
OBVIOUS

\* A drained steering queue steers once, and another queue does not.
LEMMA DrainSteers ==
    ASSUME AgentAssumption, TypeOK
    PROVE  /\ mode["steer"] = "one-at-a-time" =>
                \A i, j \in 1..Len(Messages(Drained("steer"), "steer")) : i = j
           /\ \A i \in 1..Len(Messages(Drained("follow"), "follow")) :
                Messages(Drained("follow"), "follow")[i].from # "steer"
<1>1. "steer" \in Queues /\ "follow" \in Queues
  BY DEF Queues
<1>2. Len(Messages(Drained("steer"), "steer")) \in Nat
      /\ (mode["steer"] = "one-at-a-time" => Len(Messages(Drained("steer"), "steer")) <= 1)
  <2> HIDE DEF Entry
  <2>1. Messages(Drained("steer"), "steer") \in Seq(Entry)
        /\ Len(Messages(Drained("steer"), "steer")) = Len(Drained("steer"))
        /\ (mode["steer"] = "one-at-a-time" => Len(Drained("steer")) <= 1)
    BY <1>1, DrainTypes
  <2> QED
    BY <2>1
<1>3. \A i \in 1..Len(Messages(Drained("follow"), "follow")) :
         Messages(Drained("follow"), "follow")[i].from = "follow"
  BY <1>1, DrainedUsers
<1> QED
  BY <1>2, <1>3

\* Every step keeps the steering apart.
LEMMA SteeringStep ==
    ASSUME AgentAssumption, IInv, Next
    PROVE  SteeringOK'
<1> USE DEF IInv
<1> HIDE DEF TypeOK, PendingOK, Entry
<1> DEFINE After == {"tools", "turn_end", "stop", "polled", "follow", "followed", "continue"}
<1>0. Len(transcript) \in Nat /\ base \in Nat /\ pending \in Seq(Entry)
  BY DEF TypeOK
<1>1. CASE \/ \E q \in Queues : Enqueue(q)
           \/ ClearAllQueues \/ \E q \in Queues : \E i \in DOMAIN queue[q] : RemoveQueuedMessages(q, i)
           \/ Abort \/ LaunchBatch \/ \E i \in Calls : PrepareToolCall(i) \/ ToolAborted(i)
           \/ \E c \in alive : ToolSettles(c[1], c[2])
  <2>1. UNCHANGED <<transcript, pending, pc, base, mode, skipPoll>>
    BY <1>1 DEF Enqueue, ClearAllQueues, RemoveQueuedMessages, Abort, LaunchBatch,
            PrepareToolCall, ToolAborted, ToolSettles, run, history
  <2> QED
    BY <2>1 DEF SteeringOK, SteeredApart, Unsteered, UserTail, Answered, PendingSteering
<1>2. CASE EndBatch \/ TurnEnds \/ NextTurn \/ FollowUp \/ Throw
  <2>1. UNCHANGED <<transcript, pending, base, mode, skipPoll>>
        /\ pc' \notin {"start", "poll"} /\ (pc' \in After => pc \in After)
    BY <1>2 DEF EndBatch, TurnEnds, NextTurn, FollowUp, Throw, Goto, history
  <2> QED
    BY <2>1 DEF SteeringOK, SteeredApart, Unsteered, UserTail, Answered, PendingSteering
<1>3. CASE ThrowIfAborted \/ Stop \/ FinishRun
  <2>1. UNCHANGED <<transcript, base, mode>> /\ pending' = <<>>
        /\ pc' \notin {"start", "poll"} /\ pc' \notin After
    BY <1>3 DEF ThrowIfAborted, Stop, FinishRun, Goto, history
  <2> QED
    BY <2>1, NoneSteers DEF SteeringOK, SteeredApart, PendingSteering
<1>4. CASE PublishResults
  <2> DEFINE n == Cardinality(Publishable)
  <2> DEFINE s == [k \in 1..n |-> ToolResult(turn, tools.published + k)]
  <2>1. n \in Nat \ {0} /\ tools.published + n <= Len(tools.call) /\ tools.published \in Nat
    BY <1>4, PublishTypes DEF PublishResults, TypeOK
  <2>2. transcript' = transcript \o s /\ pc = "tools" /\ UNCHANGED <<base, mode, pending, pc, skipPoll>>
    BY <1>4 DEF PublishResults, history
  <2> HIDE DEF n
  <2>3. s \in Seq(Entry)
    BY <2>1, <2>2, ResultTypes
  <2>4. Len(s) = n /\ \A i \in 1..n : s[i].role # "user"
    BY <2>1 DEF ToolResult
  <2> HIDE DEF s
  <2>5. /\ Len(transcript') = Len(transcript) + Len(s)
        /\ \A i \in 1..Len(transcript) : transcript'[i] = transcript[i]
        /\ \A i \in 1..Len(s) : transcript'[Len(transcript) + i] = s[i]
    <3>1. transcript \in Seq(Entry)
      BY DEF TypeOK
    <3> QED
      BY <2>2, <2>3, <3>1, ConcatProperties
  <2>6. s # <<>>
    BY <2>1, <2>4
  <2>7. (SteeredApart => SteeredApart') /\ Answered'
    BY <2>2, <2>3, <2>4, <2>5, <2>6, AnswerSaid
  <2>8. pending' = <<>>
    BY <2>2 DEF PendingOK
  <2> QED
    BY <2>2, <2>7, <2>8, NoneSteers DEF SteeringOK, PendingSteering
<1>5. CASE EmitPrompts
  <2>1. pc = "start" /\ pc' = "poll" /\ Say(pending) /\ pending' = <<>> /\ UNCHANGED <<base, mode, skipPoll>>
    BY <1>5 DEF EmitPrompts, Goto, history
  <2>2. mode["steer"] = "one-at-a-time" => SteeredApart'
    BY <2>1, PendingSaid
  <2>3. ASSUME mode["steer"] = "one-at-a-time", ~skipPoll
        PROVE  Unsteered'
    <3>1. /\ Len(transcript') = Len(transcript) + Len(pending) /\ base = Len(transcript)
          /\ \A i \in 1..Len(pending) : transcript'[Len(transcript) + i] = pending[i]
          /\ Len(pending) \in Nat
      <4>1. base = Len(transcript) /\ Len(pending) \in Nat
        BY <1>0, <2>1 DEF SteeringOK
      <4> QED
        BY <1>0, <2>1, <4>1, SayTypes
    <3>2. \A i \in 1..Len(pending) : pending[i].from # "steer"
      BY <2>1, <2>3 DEF SteeringOK, PendingSteering
    <3>3. ASSUME NEW k \in (base + 1)..Len(transcript')
          PROVE  transcript'[k].from # "steer"
      <4>1. k - base \in 1..Len(pending) /\ Len(transcript) + (k - base) = k
        BY <1>0, <3>1
      <4>2. transcript'[k] = pending[k - base]
        BY <3>1, <4>1
      <4> QED
        BY <3>2, <4>1, <4>2
    <3> QED
      BY <2>1, <3>3 DEF Unsteered
  <2> QED
    BY <2>1, <2>2, <2>3, NoneSteers DEF SteeringOK, PendingSteering
<1>6. CASE InitialPoll
  <2>1. pc = "poll" /\ pc' = "top" /\ UNCHANGED <<transcript, base, mode, skipPoll>>
        /\ \/ pending' = <<>>
           \/ pending' = Messages(Drained("steer"), "steer") /\ ~skipPoll
    BY <1>6 DEF InitialPoll, Goto, history, PendingOK
  <2>2. CASE pending' = <<>>
    BY <2>1, <2>2, NoneSteers DEF SteeringOK, SteeredApart, PendingSteering
  <2>3. CASE pending' = Messages(Drained("steer"), "steer") /\ ~skipPoll
    BY <2>1, <2>3, DrainSteers DEF SteeringOK, SteeredApart, PendingSteering, Unsteered, UserTail
  <2> QED
    BY <2>1, <2>2, <2>3
<1>7. CASE StartTurn
  <2>1. pc' = "stream" /\ Say(pending) /\ pending' = <<>> /\ UNCHANGED <<base, mode, skipPoll>>
    BY <1>7 DEF StartTurn, Goto, history
  <2>2. mode["steer"] = "one-at-a-time" => SteeredApart'
    BY <2>1, PendingSaid
  <2> QED
    BY <2>1, <2>2, NoneSteers DEF SteeringOK, PendingSteering
<1>8. CASE ModelAnswers \/ ModelStops
  <2>1. /\ pc = "stream" /\ pc' \notin {"start", "poll"} /\ UNCHANGED <<base, mode, skipPoll, pending>>
        /\ \E t, n, stop : Say(<<Assistant(t, n, stop)>>) /\ Assistant(t, n, stop) \in Entry
    <3>1. CASE ModelAnswers
      <4>1. turn + 1 \in 0..MaxTurns
        BY <3>1 DEF ModelAnswers, TypeOK, AgentAssumption
      <4>2. \A n \in 0..MaxCalls : Assistant(turn + 1, n, "stop") \in Entry
        BY <4>1, Entries
      <4> QED
        BY <3>1, <4>2 DEF ModelAnswers, Goto, history
    <3>2. CASE ModelStops
      <4>1. 0 \in 0..MaxTurns /\ 0 \in 0..MaxCalls /\ MaxCalls \in 0..MaxCalls
        BY DEF AgentAssumption
      <4>2. \A n \in {0, MaxCalls} :
               Assistant(0, n, IF aborted THEN "aborted" ELSE "error") \in Entry
        BY <4>1, Entries
      <4> QED
        BY <3>2, <4>2 DEF ModelStops, Goto, history
    <3> QED
      BY <1>8, <3>1, <3>2
  <2>2. PICK t, n, stop : Say(<<Assistant(t, n, stop)>>) /\ Assistant(t, n, stop) \in Entry
    BY <2>1
  <2>3. (SteeredApart => SteeredApart') /\ Answered'
    <3> DEFINE a == Assistant(t, n, stop)
    <3>1. a.role # "user"
      BY DEF Assistant
    <3> HIDE DEF a
    <3>2. a \in Entry /\ Say(<<a>>)
      BY <2>2 DEF a
    <3>3. <<a>> \in Seq(Entry) /\ Len(<<a>>) = 1 /\ <<a>> # <<>>
          /\ \A i \in 1..Len(<<a>>) : <<a>>[i].role # "user"
      BY <3>1, <3>2, OneEntry
    <3> QED
      BY <2>1, <3>2, <3>3, SayTypes, AnswerSaid
  <2>4. pending' = <<>>
    BY <2>1 DEF PendingOK
  <2> QED
    BY <2>1, <2>3, <2>4, NoneSteers DEF SteeringOK, PendingSteering
<1>9. CASE HandleRunFailure
  <2> DEFINE a == Assistant(0, 0, IF aborted THEN "aborted" ELSE "error")
  <2>1. pc = "failed" /\ pc' = "agent_end" /\ transcript' = Append(transcript, a)
        /\ UNCHANGED <<base, mode, skipPoll, pending>>
    BY <1>9 DEF HandleRunFailure, Goto, history
  <2>2. a \in Entry /\ a.role # "user"
    <3>1. 0 \in 0..MaxTurns /\ 0 \in 0..MaxCalls
      BY DEF AgentAssumption
    <3> QED
      BY <3>1, Entries DEF Assistant
  <2> HIDE DEF a
  <2>3. <<a>> \in Seq(Entry) /\ Len(<<a>>) = 1 /\ <<a>> # <<>> /\ <<a>>[1] = a
        /\ \A i \in 1..Len(<<a>>) : <<a>>[i].role # "user"
    BY <2>2, OneEntry
  <2>4. /\ Len(transcript') = Len(transcript) + 1
        /\ \A i \in 1..Len(transcript) : transcript'[i] = transcript[i]
        /\ transcript'[Len(transcript) + 1] = a
    BY <2>1, <2>2, AppendProperties DEF TypeOK
  <2>5. \A i \in 1..Len(<<a>>) : transcript'[Len(transcript) + i] = <<a>>[i]
    BY <2>3, <2>4
  <2>6. SteeredApart => SteeredApart'
    BY <2>1, <2>3, <2>4, <2>5, AnswerSaid
  <2>7. pending' = <<>>
    BY <2>1 DEF PendingOK
  <2> QED
    BY <2>1, <2>6, <2>7, NoneSteers DEF SteeringOK, PendingSteering
<1>10. CASE PollSteering
  <2>1. pc = "stop" /\ pc' = "polled" /\ UNCHANGED <<transcript, base, mode, skipPoll>>
        /\ (pending' = <<>> \/ pending' = Messages(Drained("steer"), "steer"))
    BY <1>10 DEF PollSteering, Goto, history
  <2>2. Answered /\ Unsteered
    BY <2>1, AnsweredUnsteered DEF SteeringOK
  <2>3. Answered' /\ Unsteered'
    BY <2>1, <2>2 DEF Answered, Unsteered, UserTail
  <2>4. mode["steer"] = "one-at-a-time" => \A i, j \in PendingSteering' : i = j
    BY <2>1, DrainSteers, NoneSteers DEF PendingSteering
  <2> QED
    BY <2>1, <2>3, <2>4 DEF SteeringOK, SteeredApart
<1>11. CASE PollFollowUps
  <2>1. pc = "follow" /\ pc' = "followed" /\ UNCHANGED <<transcript, base, mode, skipPoll>>
        /\ (pending' = <<>> \/ pending' = Messages(Drained("follow"), "follow"))
    BY <1>11 DEF PollFollowUps, Goto, history
  <2>2. PendingSteering' = {}
    BY <2>1, DrainSteers, NoneSteers DEF PendingSteering
  <2> QED
    BY <2>1, <2>2 DEF SteeringOK, SteeredApart, Answered
<1>12. CASE Continuation
  <2>1. pc = "continue" /\ pc' = "top" /\ UNCHANGED <<transcript, base, mode, skipPoll>>
        /\ pending' = <<User(sent + 1, "continuation")>>
    BY <1>12 DEF Continuation, Goto, history
  <2>2. \A i \in 1..Len(pending') : pending'[i].from # "steer"
    BY <2>1 DEF User
  <2>3. PendingSteering' = {}
    BY <2>2 DEF PendingSteering
  <2> QED
    BY <2>1, <2>3 DEF SteeringOK, SteeredApart
<1>13. CASE Prompt \/ ContinueQueued \/ ContinueTranscript
  <2>1. PICK m, skip : StartRun(m, skip) /\
            \/ m = <<User(sent + 1, "prompt")>>
            \/ m = Messages(Drained("steer"), "steer") /\ skip
            \/ m = Messages(Drained("follow"), "follow")
            \/ m = <<>>
    BY <1>13 DEF Prompt, ContinueQueued, ContinueTranscript
  <2>2. pc' = "start" /\ UNCHANGED <<mode, transcript>> /\ base' = Len(transcript)
        /\ pending' = m /\ skipPoll' = skip
    BY <2>1 DEF StartRun
  <2>3. SteeredApart' /\ Unsteered'
    BY <1>0, <2>2 DEF SteeredApart, Unsteered
  <2>4. mode["steer"] = "one-at-a-time" => \A i, j \in PendingSteering' : i = j
    BY <2>1, <2>2, DrainSteers, NoneSteers DEF PendingSteering, User
  <2>5. PendingSteering' # {} => skipPoll'
    BY <2>1, <2>2, DrainSteers, NoneSteers DEF PendingSteering, User
  <2> QED
    BY <2>2, <2>3, <2>4, <2>5 DEF SteeringOK
<1>14. CASE PrepareRetry
  <2>1. transcript # <<>> /\ transcript' = Front(transcript) /\ pc = "idle"
        /\ UNCHANGED <<pc, base, mode, skipPoll, pending>>
    BY <1>14 DEF PrepareRetry, LastRole, run, history
  <2>2. pending = <<>>
    BY <2>1 DEF PendingOK
  <2>3. Len(transcript) >= 1 /\ \A i \in 1..(Len(transcript) - 1) : transcript[i] \in Entry
    BY <1>0, <2>1 DEF TypeOK
  <2>4. Len(transcript') = Len(transcript) - 1
        /\ \A i \in 1..Len(transcript') : transcript'[i] = transcript[i]
    <3> DEFINE m == Len(transcript) - 1
    <3>1. m \in Nat /\ 1 \in Int /\ m \in Int /\ (1 <= m \/ m = 0)
      <4> DEFINE n == Len(transcript)
      <4>1. n \in Nat /\ n >= 1
        BY <1>0, <2>3
      <4> HIDE DEF n
      <4>2. n - 1 \in Nat
        BY <4>1
      <4> QED
        BY <4>2 DEF n
    <3>2. /\ Len(SubSeq(transcript, 1, m)) = IF 1 <= m THEN m - 1 + 1 ELSE 0
          /\ \A i \in 1..(m - 1 + 1) : SubSeq(transcript, 1, m)[i] = transcript[1 + i - 1]
      BY <2>3, <3>1, SubSeqProperties
    <3>3. \A i \in 1..m : i \in 1..(m - 1 + 1) /\ 1 + i - 1 = i
      BY <3>1
    <3>4. transcript' = SubSeq(transcript, 1, m)
      BY <2>1 DEF Front
    <3> HIDE DEF m
    <3>5. Len(transcript') = m /\ \A i \in 1..m : transcript'[i] = transcript[i]
      BY <3>1, <3>2, <3>3, <3>4
    <3> QED
      BY <3>5 DEF m
  <2>5. SteeredApart => SteeredApart'
    BY <1>0, <2>1, <2>3, <2>4, ApartKept
  <2> QED
    BY <2>1, <2>2, <2>5, NoneSteers DEF SteeringOK, PendingSteering
<1> QED
  BY <1>1, <1>2, <1>3, <1>4, <1>5, <1>6, <1>7, <1>8, <1>9, <1>10, <1>11, <1>12, <1>13, <1>14
     DEF Next, Loop, World, Owner

-----------------------------------------------------------------------------
(* Answers and their results.                                              *)

\* An answer's number, and how many calls it makes.
LEMMA AnswerTypes ==
    ASSUME AgentAssumption, TypeOK, NEW k \in 1..Len(transcript)
    PROVE  /\ transcript[k] \in Entry
           /\ IsAnswer(k) => transcript[k].calls \in Nat /\ transcript[k].id \in Nat
<1>1. transcript[k] \in Entry
  <2> HIDE DEF Entry
  <2> QED
    BY DEF TypeOK
<1>2. ASSUME NEW m \in Entry, m.role = "assistant"
      PROVE  m.calls \in Nat /\ m.id \in Nat
  BY <1>2 DEF Entry, AgentAssumption
<1> HIDE DEF Entry
<1> QED
  BY <1>1, <1>2 DEF IsAnswer

\* The results behind an answer stay behind it when the transcript grows.
LEMMA AnswersGrow ==
    ASSUME AgentAssumption, TypeOK, NEW s \in Seq(Entry), transcript' \in Seq(Entry),
           Len(transcript') = Len(transcript) + Len(s),
           \A i \in 1..Len(transcript) : transcript'[i] = transcript[i],
           \A i \in 1..Len(s) : transcript'[Len(transcript) + i] = s[i],
           NEW k \in 1..Len(transcript), IsAnswer(k), NEW n \in Answers(transcript, k)
    PROVE  /\ n \in Nat /\ k + n <= Len(transcript) /\ n \in Answers(transcript', k)
           /\ \A j \in 1..Len(transcript) : IsResult(transcript', j) = IsResult(transcript, j)
           /\ ~IsResult(transcript, k + n + 1) /\ (s = <<>> \/ s[1].role # "toolResult")
                => ~IsResult(transcript', k + n + 1)
<1> DEFINE L == Len(transcript)
<1> HIDE DEF Entry
<1>1. /\ L \in Nat /\ DOMAIN transcript = 1..L /\ Len(s) \in Nat
      /\ DOMAIN transcript' = 1..(L + Len(s)) /\ (s # <<>> => Len(s) >= 1)
  BY SMTT(30) DEF TypeOK
<1>2. transcript[k].calls \in Nat
  BY AnswerTypes
<1> DEFINE m == transcript[k]
<1>3. n \in 0..m.calls /\ \A i \in 1..n : k + i \in 1..L /\ transcript[k + i] = ToolResult(m.id, i)
  BY <1>1 DEF Answers
<1>4. n \in Nat
  BY <1>2, <1>3
<1>5. k + n <= L
  <2>1. CASE n = 0
    BY <1>1, <2>1
  <2>2. CASE n # 0
    <3>1. n \in 1..n
      BY <1>4, <2>2
    <3> QED
      BY <1>1, <1>3, <3>1
  <2> QED
    BY <2>1, <2>2
<1>6. transcript'[k] = transcript[k]
  OBVIOUS
<1>7. n \in Answers(transcript', k)
  <2>1. \A i \in 1..n : k + i \in DOMAIN transcript' /\ transcript'[k + i] = ToolResult(m.id, i)
    BY SMTT(30), <1>1, <1>3
  <2> QED
    BY <1>3, <1>6, <2>1 DEF Answers
<1>8. \A j \in 1..L : IsResult(transcript', j) = IsResult(transcript, j)
  BY <1>1 DEF IsResult
<1>9. ASSUME ~IsResult(transcript, k + n + 1), s = <<>> \/ s[1].role # "toolResult"
      PROVE  ~IsResult(transcript', k + n + 1)
  <2>1. CASE k + n + 1 <= L
    <3>1. k + n + 1 \in 1..L
      BY <1>1, <1>4, <2>1
    <3> QED
      BY <1>8, <1>9, <3>1
  <2>2. CASE k + n + 1 > L
    <3>1. k + n + 1 = L + 1
      <4>1. L \in Nat /\ k \in 1..L /\ n \in Nat /\ k + n <= L
        BY <1>1, <1>4, <1>5
      <4> HIDE DEF L
      <4> QED
        BY <2>2, <4>1
    <3>2. CASE s = <<>>
      BY <1>1, <3>1, <3>2 DEF IsResult
    <3>3. CASE s # <<>> /\ s[1].role # "toolResult"
      <4>1. transcript'[L + 1] = s[1]
        BY <1>1, <3>3
      <4> QED
        BY <3>1, <3>3, <4>1 DEF IsResult
    <3> QED
      BY <1>9, <3>2, <3>3
  <2> QED
    BY <1>1, <1>4, <2>1, <2>2
<1> QED
  BY <1>4, <1>5, <1>7, <1>8, <1>9

\* Answers of ended batches keep their results.
LEMMA SaidBehind ==
    ASSUME AgentAssumption, TypeOK, AnsweredInOrder, cut \subseteq cut',
           NEW s \in Seq(Entry), s = <<>> \/ s[1].role # "toolResult", transcript' \in Seq(Entry),
           Len(transcript') = Len(transcript) + Len(s),
           \A i \in 1..Len(transcript) : transcript'[i] = transcript[i],
           \A i \in 1..Len(s) : transcript'[Len(transcript) + i] = s[i],
           NEW k \in 1..Len(transcript), IsAnswer(k), pc # "tools"
    PROVE  \E n \in Answers(transcript', k) :
              /\ ~IsResult(transcript', k + n + 1)
              /\ n = transcript'[k].calls \/ transcript'[k].id \in cut'
<1> HIDE DEF Entry
<1>1. k \in DOMAIN transcript
  BY DEF TypeOK
<1>2. PICK n \in Answers(transcript, k) :
         /\ ~IsResult(transcript, k + n + 1)
         /\ n = transcript[k].calls \/ transcript[k].id \in cut
  BY <1>1 DEF AnsweredInOrder, IsAnswer
<1>3. n \in Answers(transcript', k) /\ ~IsResult(transcript', k + n + 1)
  BY <1>2, AnswersGrow
<1> QED
  BY <1>2, <1>3

\* Saying anything but an answer and its results.
LEMMA SaidOther ==
    ASSUME AgentAssumption, TypeOK, AnsweredInOrder, BatchOK, cut \subseteq cut', turn' = turn,
           NEW s \in Seq(Entry), transcript' \in Seq(Entry),
           Len(transcript') = Len(transcript) + Len(s),
           \A i \in 1..Len(transcript) : transcript'[i] = transcript[i],
           \A i \in 1..Len(s) : transcript'[Len(transcript) + i] = s[i],
           \A i \in 1..Len(s) : s[i].role = "user" \/ (s[i].role = "assistant" /\ s[i].stop # "stop"),
           pc # "tools", pc' # "tools"
    PROVE  BatchOK' /\ AnsweredInOrder'
<1> HIDE DEF Entry
<1>1. /\ Len(transcript) \in Nat /\ Len(s) \in Nat /\ (s # <<>> => Len(s) >= 1)
      /\ DOMAIN transcript' = 1..(Len(transcript) + Len(s))
  BY DEF TypeOK
<1>2. ASSUME NEW k \in 1..Len(transcript'), k \notin 1..Len(transcript)
      PROVE  ~IsAnswer(k)'
  <2>1. k - Len(transcript) \in 1..Len(s) /\ Len(transcript) + (k - Len(transcript)) = k
    BY <1>1, <1>2
  <2>2. transcript'[k] = s[k - Len(transcript)]
    BY <2>1
  <2> QED
    BY <2>1, <2>2 DEF IsAnswer
<1>3. ASSUME NEW k \in 1..Len(transcript)
      PROVE  IsAnswer(k)' = IsAnswer(k) /\ transcript'[k] = transcript[k]
  BY <1>3 DEF IsAnswer
<1>4. BatchOK'
  BY <1>2, <1>3 DEF BatchOK
<1>5. s = <<>> \/ s[1].role # "toolResult"
  <2>1. s # <<>> => 1 \in 1..Len(s)
    BY <1>1
  <2>2. s # <<>> => s[1].role = "user" \/ s[1].role = "assistant"
    BY <2>1
  <2> QED
    BY <2>2
<1>6. AnsweredInOrder'
  <2> SUFFICES ASSUME NEW k \in 1..Len(transcript'), IsAnswer(k)'
               PROVE  \E n \in Answers(transcript', k) :
                         /\ ~IsResult(transcript', k + n + 1)
                         /\ n = transcript'[k].calls \/ transcript'[k].id \in cut'
    BY <1>1 DEF AnsweredInOrder, IsAnswer
  <2>1. k \in 1..Len(transcript) /\ IsAnswer(k)
    BY <1>2, <1>3
  <2> QED
    BY <1>5, <2>1, SaidBehind
<1> QED
  BY <1>4, <1>6

\* A new answer is behind the others, its calls still without results.
LEMMA AnswerBegins ==
    ASSUME AgentAssumption, IInv, ModelAnswers
    PROVE  BatchOK' /\ AnsweredInOrder'
<1> USE DEF IInv
<1> HIDE DEF TypeOK, ToolsOK, PendingOK, SteeringOK, Entry
<1> DEFINE L == Len(transcript)
<1>1. PICK c \in 0..MaxCalls, sequential \in BOOLEAN :
         /\ Say(<<Assistant(turn + 1, c, "stop")>>)
         /\ tools' = [sequential |-> sequential, call |-> [i \in 1..c |-> "new"], published |-> 0]
         /\ Goto(IF c = 0 THEN "turn_end" ELSE "tools")
  BY DEF ModelAnswers
<1>2. pc # "tools" /\ turn' = turn + 1 /\ turn \in Nat /\ turn + 1 \in 0..MaxTurns /\ UNCHANGED cut
      /\ c \in Nat /\ L \in Nat
  BY DEF ModelAnswers, TypeOK, history, AgentAssumption
<1> DEFINE a == Assistant(turn + 1, c, "stop")
<1>3. a \in Entry
  BY <1>2, Entries
<1>4. a.role = "assistant" /\ a.stop = "stop" /\ a.id = turn + 1 /\ a.calls = c
  BY DEF Assistant
<1>5. tools'.published = 0 /\ Len(tools'.call) = c
  BY <1>1, <1>2
<1> HIDE DEF a
<1>6. <<a>> \in Seq(Entry) /\ Len(<<a>>) = 1 /\ <<a>>[1] = a
  BY <1>3, OneEntry
<1>7. /\ transcript' \in Seq(Entry) /\ Len(transcript') = L + Len(<<a>>)
      /\ \A i \in 1..L : transcript'[i] = transcript[i]
      /\ \A i \in 1..Len(<<a>>) : transcript'[L + i] = <<a>>[i]
  BY <1>1, <1>6, SayTypes DEF a
<1>8. Len(transcript') = L + 1 /\ transcript'[L + 1] = a /\ DOMAIN transcript' = 1..(L + 1)
  BY <1>2, <1>6, <1>7
<1>9. ASSUME NEW k \in 1..Len(transcript'), k # L + 1
      PROVE  k \in 1..L /\ IsAnswer(k)' = IsAnswer(k) /\ transcript'[k] = transcript[k]
  <2>1. k \in 1..L
    BY <1>2, <1>8, <1>9
  <2> QED
    BY <1>7, <2>1 DEF IsAnswer
<1>10. BatchOK'
  <2>1. ASSUME NEW k \in 1..Len(transcript'), IsAnswer(k)', k # L + 1
        PROVE  transcript'[k].id <= turn /\ transcript'[k].id \in Nat
    <3>1. k \in 1..L /\ IsAnswer(k) /\ transcript'[k] = transcript[k]
      BY <1>9, <2>1
    <3> QED
      BY <3>1, AnswerTypes DEF BatchOK
  <2>2. \A k \in 1..Len(transcript') : IsAnswer(k)' => transcript'[k].id <= turn + 1
    BY <1>2, <1>4, <1>8, <2>1
  <2>3. \A k \in 1..Len(transcript') : IsAnswer(k)' /\ transcript'[k].id = turn + 1 => k = L + 1
    BY <1>2, <2>1
  <2>4. Batch' = L + 1 /\ transcript'[Batch'] = a /\ L + 1 >= 1
    BY <1>2, <1>5, <1>8 DEF Batch
  <2>5. a = Assistant(turn', Len(tools'.call), "stop")
    BY <1>2, <1>5 DEF a
  <2>6. \A i \in 1..tools'.published : FALSE
    BY <1>5
  <2> QED
    BY <1>2, <2>2, <2>3, <2>4, <2>5, <2>6 DEF BatchOK
<1>11. AnsweredInOrder'
  <2> SUFFICES ASSUME NEW k \in 1..Len(transcript'), IsAnswer(k)'
               PROVE  \E n \in Answers(transcript', k) :
                         /\ ~IsResult(transcript', k + n + 1)
                         /\ \/ n = transcript'[k].calls \/ transcript'[k].id \in cut'
                            \/ pc' = "tools" /\ transcript'[k].id = turn'
    BY <1>2, <1>8 DEF AnsweredInOrder, IsAnswer
  <2>1. CASE k # L + 1
    <3>1. k \in 1..L /\ IsAnswer(k)
      BY <1>9, <2>1
    <3>2. <<a>>[1].role # "toolResult"
      BY <1>4, <1>6
    <3>3. cut \subseteq cut'
      BY <1>2
    <3> QED
      BY <1>2, <1>6, <1>7, <3>1, <3>2, <3>3, SaidBehind
  <2>2. CASE k = L + 1
    <3>1. transcript'[k].calls = c /\ transcript'[k].id = turn'
      BY <1>2, <1>4, <1>8, <2>2
    <3>2. 0 \in Answers(transcript', k)
      BY <1>2, <3>1 DEF Answers
    <3>3. k + 0 + 1 \notin DOMAIN transcript'
      BY <1>2, <1>8, <2>2
    <3>4. ~IsResult(transcript', k + 0 + 1)
      BY <3>3 DEF IsResult
    <3>5. c = 0 \/ pc' = "tools"
      BY <1>1 DEF Goto
    <3> QED
      BY <3>1, <3>2, <3>4, <3>5
  <2> QED
    BY <2>1, <2>2
<1> QED
  BY <1>10, <1>11

\* Results are published behind their calls.
LEMMA ResultsFollow ==
    ASSUME AgentAssumption, IInv, PublishResults
    PROVE  BatchOK' /\ AnsweredInOrder'
<1> USE DEF IInv
<1> HIDE DEF TypeOK, ToolsOK, PendingOK, SteeringOK, Entry
<1> DEFINE L == Len(transcript)
<1> DEFINE p == tools.published
<1> DEFINE n == Cardinality(Publishable)
<1> DEFINE s == [i \in 1..n |-> ToolResult(turn, p + i)]
<1>1. /\ n \in Nat \ {0} /\ p + n <= Len(tools.call) /\ p \in Nat /\ L \in Nat
      /\ Len(tools.call) \in Nat
  <2>1. n \in Nat \ {0} /\ p + n <= Len(tools.call)
    BY PublishTypes DEF PublishResults
  <2>2. p \in Nat /\ L \in Nat /\ Len(tools.call) \in Nat
    BY DEF TypeOK
  <2> QED
    BY <2>1, <2>2
<1>2. transcript' = transcript \o s /\ pc = "tools" /\ pc' = "tools" /\ turn' = turn /\ UNCHANGED cut
      /\ tools' = [tools EXCEPT !.published = p + n]
  BY DEF PublishResults, bounds, history
<1>3. s \in Seq(Entry)
  BY <1>1, <1>2, ResultTypes
<1> HIDE DEF n
<1>4. Len(s) = n /\ \A i \in 1..n : s[i] = ToolResult(turn, p + i)
  BY <1>1
<1>5. tools'.published = p + n /\ tools'.call = tools.call
  BY <1>2 DEF TypeOK
<1> HIDE DEF s
<1>6. /\ transcript' \in Seq(Entry) /\ Len(transcript') = L + n /\ Len(transcript') = L + Len(s)
      /\ \A i \in 1..L : transcript'[i] = transcript[i]
      /\ \A i \in 1..Len(s) : transcript'[L + i] = s[i]
      /\ \A i \in 1..n : transcript'[L + i] = ToolResult(turn, p + i)
  <2>1. transcript \in Seq(Entry)
    BY DEF TypeOK
  <2>2. /\ transcript \o s \in Seq(Entry) /\ Len(transcript \o s) = L + Len(s)
        /\ \A i \in 1..L : (transcript \o s)[i] = transcript[i]
        /\ \A i \in 1..Len(s) : (transcript \o s)[L + i] = s[i]
    <3>1. Len(s) \in Nat
      BY <1>1, <1>4
    <3> QED
      BY SMTT(30), <1>1, <1>3, <2>1, <3>1, ConcatProperties
  <2> QED
    BY <1>2, <1>4, <2>2
<1>7. DOMAIN transcript' = 1..(L + n) /\ DOMAIN transcript = 1..L
  BY <1>6 DEF TypeOK
<1>8. /\ Batch >= 1 /\ transcript[Batch] = Assistant(turn, Len(tools.call), "stop")
      /\ \A i \in 1..p : transcript[Batch + i] = ToolResult(turn, i)
      /\ \A k \in 1..L : IsAnswer(k) /\ transcript[k].id = turn => k = Batch
      /\ \A k \in 1..L : IsAnswer(k) => transcript[k].id <= turn
  BY <1>2 DEF BatchOK
<1>9. Batch = L - p /\ Batch' = Batch /\ Batch \in 1..L /\ Batch \in Nat
  <2>1. Batch = L - p /\ Batch' = (L + n) - (p + n)
    BY <1>5, <1>6 DEF Batch
  <2>2. L \in Nat /\ p \in Nat /\ n \in Nat /\ L - p >= 1
    BY <1>1, <1>8, <2>1
  <2> HIDE DEF L, p
  <2>3. (L + n) - (p + n) = L - p /\ L - p \in 1..L
    BY <2>2
  <2> QED
    BY <2>1, <2>2, <2>3
<1> DEFINE B == L - p
<1>10. ASSUME NEW k \in 1..Len(transcript'), IsAnswer(k)'
       PROVE  k \in 1..L /\ IsAnswer(k) /\ transcript'[k] = transcript[k]
  <2>1. ASSUME k > L
        PROVE  FALSE
    <3>1. k - L \in 1..n /\ L + (k - L) = k
      BY <1>1, <1>6, <2>1
    <3>2. transcript'[k] = ToolResult(turn, p + (k - L))
      BY <1>6, <3>1
    <3> QED
      BY <1>10, <3>2 DEF IsAnswer, ToolResult
  <2>2. k \in 1..L
    BY <1>1, <2>1
  <2> QED
    BY <1>6, <1>10, <2>2 DEF IsAnswer
<1>11. ASSUME NEW i \in 1..(p + n)
       PROVE  B + i \in 1..(L + n) /\ transcript'[B + i] = ToolResult(turn, i)
  <2>1. B + i \in 1..(L + n) /\ B \in Nat /\ B >= 1
    BY SMTT(30), <1>1, <1>9
  <2>2. CASE i <= p
    <3>1. i \in 1..p /\ B + i \in 1..L
      BY SMTT(30), <1>1, <1>9, <2>2
    <3> QED
      BY <1>6, <1>8, <1>9, <2>1, <3>1
  <2>3. CASE i > p
    <3>1. i - p \in 1..n /\ L + (i - p) = B + i /\ p + (i - p) = i
      BY <1>1, <2>3
    <3>2. transcript'[L + (i - p)] = ToolResult(turn, p + (i - p))
      BY <1>6, <3>1
    <3> QED
      BY <2>1, <3>1, <3>2
  <2> QED
    BY <1>1, <2>2, <2>3
<1>12. transcript'[B] = Assistant(turn, Len(tools.call), "stop")
  BY <1>6, <1>8, <1>9
<1>13. BatchOK'
  <2>1. \A k \in 1..Len(transcript') : IsAnswer(k)' => transcript'[k].id <= turn
    BY <1>8, <1>10
  <2>2. \A k \in 1..Len(transcript') : IsAnswer(k)' /\ transcript'[k].id = turn => k = B
    BY <1>8, <1>9, <1>10
  <2> QED
    BY <1>2, <1>5, <1>8, <1>9, <1>11, <1>12, <2>1, <2>2 DEF BatchOK
<1>14. AnsweredInOrder'
  <2> SUFFICES ASSUME NEW k \in 1..Len(transcript'), IsAnswer(k)'
               PROVE  \E c \in Answers(transcript', k) :
                         /\ ~IsResult(transcript', k + c + 1)
                         /\ \/ c = transcript'[k].calls \/ transcript'[k].id \in cut'
                            \/ pc' = "tools" /\ transcript'[k].id = turn'
    BY <1>6, <1>7 DEF AnsweredInOrder, IsAnswer
  <2>1. k \in 1..L /\ IsAnswer(k) /\ transcript'[k] = transcript[k]
    BY <1>10
  <2>2. CASE k = B
    <3>1. transcript'[k].id = turn /\ transcript'[k].calls = Len(tools.call)
      BY <1>12, <2>2 DEF Assistant
    <3>2. p + n \in Answers(transcript', k)
      BY <1>1, <1>7, <1>11, <2>2, <3>1 DEF Answers
    <3>3. k + (p + n) + 1 \notin DOMAIN transcript'
      <4>1. L \in Nat /\ p \in Nat /\ n \in Nat /\ k = L - p
        BY <1>1, <2>2
      <4> HIDE DEF L, p
      <4>2. k + (p + n) + 1 = L + n + 1
        BY <4>1
      <4>3. L + n + 1 \notin 1..(L + n)
        BY <4>1
      <4> QED
        BY <1>7, <4>2, <4>3
    <3>4. ~IsResult(transcript', k + (p + n) + 1)
      BY <3>3 DEF IsResult
    <3> QED
      BY <1>2, <3>1, <3>2, <3>4
  <2>3. CASE k # B
    <3>1. PICK c \in Answers(transcript, k) :
             /\ ~IsResult(transcript, k + c + 1)
             /\ c = transcript[k].calls \/ transcript[k].id \in cut
      BY <1>7, <1>8, <1>9, <2>1, <2>3 DEF AnsweredInOrder, IsAnswer
    <3>2. c \in Nat /\ k + c <= L /\ c \in Answers(transcript', k)
          /\ \A j \in 1..L : IsResult(transcript', j) = IsResult(transcript, j)
      BY <1>3, <1>6, <2>1, AnswersGrow
    <3>3. k < B
      <4>1. ASSUME k > B
            PROVE  FALSE
        <5>1. k - B \in 1..p /\ B + (k - B) = k
          <6>1. L \in Nat /\ p \in Nat /\ k \in 1..L /\ B = L - p
            BY <1>1, <2>1
          <6> HIDE DEF L, p, B
          <6> QED
            BY <4>1, <6>1
        <5>2. transcript[k] = ToolResult(turn, k - B)
          BY <1>8, <1>9, <5>1
        <5> QED
          BY <2>1, <5>2 DEF IsAnswer, ToolResult
      <4> QED
        BY <1>1, <2>1, <2>3, <4>1
    <3>4. k + c < B
      <4>1. ASSUME k + c >= B
            PROVE  FALSE
        <5>1. B - k \in 1..c /\ k + (B - k) = B
          <6>1. B \in Nat /\ k \in Nat /\ c \in Nat /\ k < B
            BY <1>9, <2>1, <3>2, <3>3
          <6> HIDE DEF B
          <6> QED
            BY <4>1, <6>1
        <5>2. transcript[B] = ToolResult(transcript[k].id, B - k)
          BY <3>1, <5>1 DEF Answers
        <5> QED
          BY <1>8, <1>9, <5>2 DEF Assistant, ToolResult
      <4>2. B \in Nat /\ k + c \in Nat
        BY <1>9, <2>1, <3>2
      <4> HIDE DEF B
      <4> QED
        BY <4>1, <4>2
    <3>5. k + c + 1 \in 1..L
      <4>1. B \in 1..L /\ L \in Nat /\ k \in 1..L /\ c \in Nat
        BY <1>1, <1>9, <2>1, <3>2
      <4> HIDE DEF B, L
      <4> QED
        BY <3>4, <4>1
    <3> QED
      BY <1>2, <2>1, <3>1, <3>2, <3>5
  <2> QED
    BY <2>2, <2>3
<1> QED
  BY <1>13, <1>14

\* A batch that ends has all its results, or an abort hit it.
LEMMA BatchEnds ==
    ASSUME AgentAssumption, IInv, EndBatch
    PROVE  BatchOK' /\ AnsweredInOrder'
<1> USE DEF IInv
<1> HIDE DEF TypeOK, ToolsOK, PendingOK, SteeringOK, Entry
<1> DEFINE L == Len(transcript)
<1> DEFINE p == tools.published
<1>1. /\ UNCHANGED <<transcript, turn, cut>> /\ pc = "tools" /\ pc' = "turn_end"
      /\ aborted \/ p = Len(tools.call)
  BY DEF EndBatch, Goto, bounds, history
<1>2. p \in Nat /\ p <= Len(tools.call) /\ L \in Nat /\ DOMAIN transcript = 1..L
      /\ Len(tools.call) \in Nat
  BY DEF TypeOK
<1>3. /\ Batch >= 1 /\ transcript[Batch] = Assistant(turn, Len(tools.call), "stop")
      /\ \A i \in 1..p : transcript[Batch + i] = ToolResult(turn, i)
      /\ \A k \in 1..L : IsAnswer(k) /\ transcript[k].id = turn => k = Batch
  BY <1>1 DEF BatchOK
<1>4. Batch = L - p
  BY DEF Batch
<1>5. BatchOK'
  BY <1>1 DEF BatchOK, IsAnswer
<1>6. ASSUME NEW k \in 1..L, IsAnswer(k)
      PROVE  \E n \in Answers(transcript, k) :
                /\ ~IsResult(transcript, k + n + 1)
                /\ n = transcript[k].calls \/ transcript[k].id \in cut
  <2>1. CASE transcript[k].id = turn
    <3>1. k = Batch /\ transcript[k].calls = Len(tools.call)
      BY <1>3, <1>6, <2>1 DEF Assistant
    <3>2. k = L - p /\ k \in Nat
      BY <1>4, <3>1
    <3>3. \A i \in 1..p : k + i \in 1..L
      BY <1>2, <3>2
    <3>4. k + p + 1 \notin 1..L
      BY <1>2, <3>2
    <3>5. p \in Answers(transcript, k)
      BY <1>2, <1>3, <2>1, <3>1, <3>3 DEF Answers
    <3>6. ~IsResult(transcript, k + p + 1)
      BY <1>2, <3>4 DEF IsResult
    <3>7. p = Len(tools.call) \/ turn \in cut
      BY <1>1 DEF ToolsOK
    <3> QED
      BY <2>1, <3>1, <3>5, <3>6, <3>7
  <2>2. CASE transcript[k].id # turn
    BY <1>2, <1>6, <2>2 DEF AnsweredInOrder, IsAnswer
  <2> QED
    BY <2>1, <2>2
<1>7. AnsweredInOrder'
  BY <1>1, <1>2, <1>6 DEF AnsweredInOrder, IsAnswer
<1> QED
  BY <1>5, <1>7

\* A failed answer that is taken back had no results.
LEMMA FrontAnswers ==
    ASSUME AgentAssumption, IInv, PrepareRetry
    PROVE  BatchOK' /\ AnsweredInOrder'
<1> USE DEF IInv
<1> HIDE DEF TypeOK, ToolsOK, PendingOK, SteeringOK, Entry
<1> DEFINE L == Len(transcript)
<1>1. /\ transcript # <<>> /\ transcript[L].role = "assistant" /\ transcript' = Front(transcript)
      /\ pc = "idle" /\ UNCHANGED <<pc, turn, cut>>
  BY DEF PrepareRetry, LastRole, Last, run, bounds, history
<1>2. L \in Nat /\ L >= 1 /\ transcript \in Seq(Entry) /\ DOMAIN transcript = 1..L
  BY <1>1 DEF TypeOK
<1>3. PICK m \in Nat : L = m + 1
  <2>1. L \in Nat /\ L >= 1
    BY <1>2
  <2> HIDE DEF L
  <2>2. L - 1 \in Nat /\ L = (L - 1) + 1
    BY <2>1
  <2> QED
    BY <2>2
<1>4. Len(transcript') = m /\ (\A i \in 1..m : transcript'[i] = transcript[i])
      /\ DOMAIN transcript' = 1..m
  <2>1. transcript' = SubSeq(transcript, 1, m) /\ 1 \in Int /\ m \in Int
    BY <1>1, <1>3 DEF Front
  <2>2. \A i \in 1..m : transcript[i] \in Entry
    BY <1>2, <1>3
  <2>3. /\ SubSeq(transcript, 1, m) \in Seq(Entry)
        /\ Len(SubSeq(transcript, 1, m)) = IF 1 <= m THEN m - 1 + 1 ELSE 0
        /\ \A i \in 1..(m - 1 + 1) : SubSeq(transcript, 1, m)[i] = transcript[1 + i - 1]
    BY <2>1, <2>2, SubSeqProperties
  <2>4. \A i \in 1..m : i \in 1..(m - 1 + 1) /\ 1 + i - 1 = i
    BY <1>3
  <2> HIDE DEF L
  <2>5. Len(SubSeq(transcript, 1, m)) = m /\ \A i \in 1..m : SubSeq(transcript, 1, m)[i] = transcript[i]
    BY <1>3, <2>3, <2>4
  <2>6. DOMAIN transcript' = 1..Len(transcript')
    BY <2>1, <2>3
  <2> QED
    BY <2>1, <2>5, <2>6
<1>5. BatchOK'
  BY <1>1, <1>2, <1>3, <1>4 DEF BatchOK, IsAnswer
<1>6. AnsweredInOrder'
  <2> SUFFICES ASSUME NEW k \in 1..m, IsAnswer(k)'
               PROVE  \E n \in Answers(transcript', k) :
                         /\ ~IsResult(transcript', k + n + 1)
                         /\ n = transcript'[k].calls \/ transcript'[k].id \in cut'
    BY <1>4 DEF AnsweredInOrder, IsAnswer
  <2>1. k \in 1..L /\ IsAnswer(k) /\ transcript'[k] = transcript[k]
    BY <1>3, <1>4 DEF IsAnswer
  <2>2. PICK n \in Answers(transcript, k) :
           /\ ~IsResult(transcript, k + n + 1)
           /\ n = transcript[k].calls \/ transcript[k].id \in cut
    BY <1>1, <1>2, <2>1 DEF AnsweredInOrder, IsAnswer
  <2>3. n \in Nat /\ \A i \in 1..n : k + i \in 1..L /\ transcript[k + i] = ToolResult(transcript[k].id, i)
    BY <1>2, <2>1, <2>2, AnswerTypes DEF Answers
  <2>4. k + n <= m
    <3>1. ASSUME k + n > m
          PROVE  FALSE
      <4>1. L - k \in 1..n /\ k + (L - k) = L
        <5>1. k \in 1..m /\ m \in Nat /\ L = m + 1 /\ n \in Nat
          BY <1>3, <2>3
        <5> HIDE DEF L
        <5> QED
          BY <3>1, <5>1
      <4>2. transcript[L] = ToolResult(transcript[k].id, L - k)
        BY <2>3, <4>1
      <4> QED
        BY <1>1, <4>2 DEF ToolResult
    <3> QED
      BY <2>3, <3>1
  <2>5. \A i \in 1..n : k + i \in 1..m /\ transcript'[k + i] = transcript[k + i]
    BY <1>4, <2>3, <2>4
  <2>6. n \in Answers(transcript', k)
    BY <1>4, <2>1, <2>2, <2>3, <2>5 DEF Answers
  <2>7. ~IsResult(transcript', k + n + 1)
    <3>1. k + n + 1 \in 1..m => k + n + 1 \in 1..L
      BY <1>3
    <3> QED
      BY <1>2, <1>4, <2>2, <3>1 DEF IsResult
  <2> QED
    BY <1>1, <2>1, <2>2, <2>6, <2>7
<1> QED
  BY <1>5, <1>6

\* Every step keeps the answers in order.
LEMMA AnswersStep ==
    ASSUME AgentAssumption, IInv, Next
    PROVE  BatchOK' /\ AnsweredInOrder'
<1> USE DEF IInv
<1> HIDE DEF TypeOK, ToolsOK, PendingOK, SteeringOK, BatchOK, AnsweredInOrder, Entry
<1>0. transcript \in Seq(Entry) /\ pending \in Seq(Entry) /\ Len(transcript) \in Nat /\ <<>> \in Seq(Entry)
      /\ Len(<<>>) = 0
  BY DEF TypeOK
<1>1. CASE \/ Prompt \/ ContinueQueued \/ ContinueTranscript \/ FinishRun \/ InitialPoll
           \/ ThrowIfAborted \/ Throw \/ Stop \/ TurnEnds \/ PollSteering \/ NextTurn
           \/ PollFollowUps \/ FollowUp \/ Continuation
  <2>1. UNCHANGED <<transcript, turn, cut>> /\ pc # "tools" /\ pc' # "tools"
    BY <1>1 DEF Prompt, ContinueQueued, ContinueTranscript, StartRun, FinishRun, InitialPoll,
            ThrowIfAborted, Throw, Stop, TurnEnds, PollSteering, NextTurn, PollFollowUps,
            FollowUp, Continuation, Goto, bounds, history
  <2>2. transcript' \in Seq(Entry) /\ Len(transcript') = Len(transcript) + Len(<<>>)
        /\ (\A i \in 1..Len(transcript) : transcript'[i] = transcript[i])
        /\ 1..Len(<<>>) = {}
    BY <1>0, <2>1
  <2>3. \A i \in 1..Len(<<>>) : FALSE
    BY <2>2
  <2> QED
    BY <1>0, <2>1, <2>2, <2>3, SaidOther
<1>2. CASE \/ \E q \in Queues : Enqueue(q)
           \/ ClearAllQueues \/ \E q \in Queues : \E i \in DOMAIN queue[q] : RemoveQueuedMessages(q, i)
           \/ Abort \/ LaunchBatch \/ \E i \in Calls : PrepareToolCall(i) \/ ToolAborted(i)
           \/ \E c \in alive : ToolSettles(c[1], c[2])
  <2>1. UNCHANGED <<transcript, turn, pc>> /\ cut \subseteq cut'
    BY <1>2 DEF Enqueue, ClearAllQueues, RemoveQueuedMessages, Abort, LaunchBatch, PrepareToolCall,
            ToolAborted, ToolSettles, run, bounds, history
  <2>2. tools'.published = tools.published /\ Len(tools'.call) = Len(tools.call)
    <3>1. CASE LaunchBatch
      BY <3>1, LaunchTypes
    <3>2. CASE \E i \in Calls : \E s \in Stages : Stage(i, s)
      BY <3>2, StageTypes
    <3>3. CASE UNCHANGED tools
      BY <3>3
    <3>4. {"done", "running", "prepared", "terminate"} \subseteq Stages /\ Finished \subseteq Stages
      BY DEF Stages, Finished
    <3> QED
      BY <1>2, <3>1, <3>2, <3>3, <3>4 DEF Enqueue, ClearAllQueues, RemoveQueuedMessages, Abort,
         PrepareToolCall, ToolAborted, ToolSettles, run
  <2>3. BatchOK'
    BY <2>1, <2>2 DEF BatchOK, Batch, IsAnswer
  <2> QED
    BY <2>1, <2>3 DEF AnsweredInOrder
<1>3. CASE EmitPrompts \/ StartTurn
  <2>1. Say(pending) /\ UNCHANGED <<turn, cut>> /\ pc # "tools" /\ pc' # "tools"
    BY <1>3 DEF EmitPrompts, StartTurn, Goto, bounds, history
  <2>2. \A i \in 1..Len(pending) : pending[i].role = "user"
    BY DEF PendingOK
  <2>3. /\ transcript' \in Seq(Entry) /\ Len(transcript') = Len(transcript) + Len(pending)
        /\ \A i \in 1..Len(transcript) : transcript'[i] = transcript[i]
        /\ \A i \in 1..Len(pending) : transcript'[Len(transcript) + i] = pending[i]
    BY <1>0, <2>1, SayTypes
  <2>4. \A i \in 1..Len(pending) :
           pending[i].role = "user" \/ (pending[i].role = "assistant" /\ pending[i].stop # "stop")
    BY <2>2
  <2>5. TypeOK /\ AnsweredInOrder /\ BatchOK /\ cut \subseteq cut' /\ turn' = turn
    BY <2>1
  <2> HIDE DEF IInv
  <2> QED
    BY <1>0, <2>1, <2>3, <2>4, <2>5, SaidOther
<1>4. CASE ModelStops \/ HandleRunFailure
  <2>1. \E n \in {0, MaxCalls} :
           LET a == Assistant(0, n, IF aborted THEN "aborted" ELSE "error") IN
           transcript' = transcript \o <<a>>
    <3>1. CASE ModelStops
      BY <3>1 DEF ModelStops, Say
    <3>2. CASE HandleRunFailure
      <4>1. 0 \in 0..MaxTurns /\ 0 \in 0..MaxCalls
        BY DEF AgentAssumption
      <4>2. Assistant(0, 0, IF aborted THEN "aborted" ELSE "error") \in Entry
        BY <4>1, Entries
      <4> QED
        BY <1>0, <3>2, <4>2, AppendIsConcat DEF HandleRunFailure
    <3> QED
      BY <1>4, <3>1, <3>2
  <2>2. PICK n \in {0, MaxCalls} :
           transcript' = transcript \o <<Assistant(0, n, IF aborted THEN "aborted" ELSE "error")>>
    BY <2>1
  <2> DEFINE a == Assistant(0, n, IF aborted THEN "aborted" ELSE "error")
  <2>3. a \in Entry
    <3>1. n \in 0..MaxCalls /\ 0 \in 0..MaxTurns
      BY DEF AgentAssumption
    <3> QED
      BY <3>1, Entries
  <2>4. a.role = "assistant" /\ a.stop # "stop"
    BY DEF Assistant
  <2>5. transcript' = transcript \o <<a>>
    BY <2>2
  <2>6. UNCHANGED <<turn, cut>> /\ pc # "tools" /\ pc' # "tools"
    BY <1>4 DEF ModelStops, HandleRunFailure, Goto, bounds, history
  <2> HIDE DEF a
  <2>7. <<a>> \in Seq(Entry) /\ \A i \in 1..Len(<<a>>) : <<a>>[i].role = "assistant" /\ <<a>>[i].stop # "stop"
    BY <2>3, <2>4, OneEntry
  <2>8. /\ transcript' \in Seq(Entry) /\ Len(transcript') = Len(transcript) + Len(<<a>>)
        /\ \A i \in 1..Len(transcript) : transcript'[i] = transcript[i]
        /\ \A i \in 1..Len(<<a>>) : transcript'[Len(transcript) + i] = <<a>>[i]
    <3>1. Len(<<a>>) = 1 /\ <<a>>[1] = a
      OBVIOUS
    <3> QED
      BY <1>0, <2>5, <2>7, <3>1, ConcatProperties
  <2> QED
    BY <2>6, <2>7, <2>8, SaidOther
<1> QED
  BY <1>1, <1>2, <1>3, <1>4, AnswerBegins, ResultsFollow, BatchEnds, FrontAnswers
     DEF Next, Loop, World, Owner

-----------------------------------------------------------------------------
(* Messages.                                                               *)

InQueue(b) == \E q \in Queues : \E i \in 1..Len(queue[q]) : queue[q][i] = b
IsPending(b) == \E i \in 1..Len(pending) : pending[i].role = "user" /\ pending[i].id = b
IsSaid(b) == \E i \in 1..Len(transcript) : transcript[i].role = "user" /\ transcript[i].id = b

\* A message moves from a queue to what is pending, and on to the transcript.
LEMMA HeldKept ==
    ASSUME TypeOK, TypeOK',
           \A b : InQueue(b) => InQueue(b)' \/ IsPending(b)',
           \A b : IsPending(b) => IsPending(b)' \/ IsSaid(b)',
           \A b : IsSaid(b) => IsSaid(b)'
    PROVE  \A b \in 1..MaxBatches : Held(b) => Held(b)'
<1> SUFFICES ASSUME NEW b \in 1..MaxBatches, Held(b)
             PROVE  Held(b)'
  OBVIOUS
<1> HIDE DEF Entry
<1>1. /\ \A q \in Queues : DOMAIN queue[q] = 1..Len(queue[q])
      /\ DOMAIN pending = 1..Len(pending) /\ DOMAIN transcript = 1..Len(transcript)
  BY DEF TypeOK
<1>2. /\ \A q \in Queues : DOMAIN queue'[q] = 1..Len(queue'[q])
      /\ DOMAIN pending' = 1..Len(pending') /\ DOMAIN transcript' = 1..Len(transcript')
  BY DEF TypeOK
<1>3. InQueue(b) \/ IsPending(b) \/ IsSaid(b)
  <2>1. CASE \E q \in Queues : b \in Range(queue[q])
    <3>1. PICK q \in Queues : \E i \in 1..Len(queue[q]) : queue[q][i] = b
      BY <1>1, <2>1 DEF Range
    <3> QED
      BY <3>1 DEF InQueue
  <2>2. CASE \E m \in Range(pending) : m.role = "user" /\ m.id = b
    BY <1>1, <2>2 DEF IsPending, Range
  <2>3. CASE \E m \in Range(transcript) : m.role = "user" /\ m.id = b
    BY <1>1, <2>3 DEF IsSaid, Range
  <2> QED
    BY <2>1, <2>2, <2>3 DEF Held
<1>4. InQueue(b)' \/ IsPending(b)' \/ IsSaid(b)'
  BY <1>3
<1>5. CASE InQueue(b)'
  <2>1. PICK q \in Queues : \E i \in 1..Len(queue'[q]) : queue'[q][i] = b
    BY <1>5 DEF InQueue
  <2>2. b \in Range(queue'[q])
    BY <1>2, <2>1 DEF Range
  <2> QED
    BY <2>2 DEF Held
<1>6. CASE IsPending(b)'
  <2>1. PICK i \in 1..Len(pending') : pending'[i].role = "user" /\ pending'[i].id = b
    BY <1>6 DEF IsPending
  <2>2. pending'[i] \in Range(pending')
    BY <1>2 DEF Range
  <2> QED
    BY <2>1, <2>2 DEF Held
<1>7. CASE IsSaid(b)'
  <2>1. PICK i \in 1..Len(transcript') : transcript'[i].role = "user" /\ transcript'[i].id = b
    BY <1>7 DEF IsSaid
  <2>2. transcript'[i] \in Range(transcript')
    BY <1>2 DEF Range
  <2> QED
    BY <2>1, <2>2 DEF Held
<1> QED
  BY <1>4, <1>5, <1>6, <1>7

\* A drained queue keeps what it does not give.
LEMMA DrainKeeps ==
    ASSUME AgentAssumption, TypeOK, NEW q \in Queues, Drain(q), pending' = Messages(Drained(q), q)
    PROVE  \A b : InQueue(b) => InQueue(b)' \/ IsPending(b)'
<1> SUFFICES ASSUME NEW b, NEW r \in Queues, NEW i \in 1..Len(queue[r]), queue[r][i] = b
             PROVE  InQueue(b)' \/ IsPending(b)'
  BY DEF InQueue
<1>1. queue' = [queue EXCEPT ![q] = Kept(q)] /\ queue \in [Queues -> Seq(1..MaxBatches)]
  BY DEF Drain, TypeOK
<1>2. CASE r # q
  <2>1. queue'[r] = queue[r]
    BY <1>1, <1>2
  <2> QED
    BY <2>1 DEF InQueue
<1>3. CASE r = q
  <2>1. queue'[q] = Kept(q)
    BY <1>1
  <2>2. CASE \E j \in 1..Len(Kept(q)) : Kept(q)[j] = b
    BY <2>1, <2>2 DEF InQueue
  <2>3. CASE \E j \in 1..Len(Drained(q)) : Drained(q)[j] = b
    <3>1. PICK j \in 1..Len(Drained(q)) : Drained(q)[j] = b
      BY <2>3
    <3>2. Len(pending') = Len(Drained(q)) /\ pending'[j] = User(b, q)
      BY <3>1, DrainTypes
    <3> QED
      BY <3>1, <3>2 DEF IsPending, User
  <2>4. \/ \E j \in 1..Len(Drained(q)) : Drained(q)[j] = queue[q][i]
        \/ \E j \in 1..Len(Kept(q)) : Kept(q)[j] = queue[q][i]
    BY <1>3, DrainTypes
  <2> QED
    BY <1>3, <2>2, <2>3, <2>4
<1> QED
  BY <1>2, <1>3

\* Every step keeps what is queued, pending or said, unless an abort or the
\* owner drops it.
LEMMA KeepsStep ==
    ASSUME AgentAssumption, IInv, [Next]_vars
    PROVE  [\/ \A b \in 1..MaxBatches : Held(b) => Held(b)'
            \/ aborted
            \/ ClearAllQueues
            \/ \E q \in Queues : \E i \in DOMAIN queue[q] : RemoveQueuedMessages(q, i)]_vars
<1> USE DEF IInv
<1> HIDE DEF TypeOK, ToolsOK, PendingOK, SteeringOK, BatchOK, AnsweredInOrder, Entry
<1> SUFFICES ASSUME Next, ~aborted, ~ClearAllQueues,
                    ~\E q \in Queues : \E i \in DOMAIN queue[q] : RemoveQueuedMessages(q, i)
             PROVE  \A b \in 1..MaxBatches : Held(b) => Held(b)'
  OBVIOUS
<1>0. TypeOK /\ TypeOK' /\ transcript \in Seq(Entry) /\ Len(transcript) \in Nat
      /\ transcript' \in Seq(Entry) /\ Len(transcript') \in Nat
      /\ "steer" \in Queues /\ "follow" \in Queues
  <2>1. TypeOK
    OBVIOUS
  <2>2. TypeOK'
    BY TypeStep
  <2>3. Len(transcript) \in Nat /\ transcript \in Seq(Entry)
    BY <2>1 DEF TypeOK
  <2>4. Len(transcript') \in Nat /\ transcript' \in Seq(Entry)
    BY <2>2 DEF TypeOK
  <2> QED
    BY <2>1, <2>2, <2>3, <2>4 DEF Queues
<1>1. ASSUME UNCHANGED transcript PROVE \A b : IsSaid(b) => IsSaid(b)'
  BY <1>1 DEF IsSaid
<1>2. ASSUME UNCHANGED queue PROVE \A b : InQueue(b) => InQueue(b)'
  BY <1>2 DEF InQueue
<1>3. ASSUME pending = <<>> PROVE \A b : ~IsPending(b)
  BY <1>3 DEF IsPending
<1>4. CASE \E q \in Queues : Enqueue(q)
  <2>1. PICK q \in Queues : Enqueue(q)
    BY <1>4
  <2>2. UNCHANGED <<pending, transcript>> /\ sent + 1 \in 1..MaxBatches
        /\ queue' = [queue EXCEPT ![q] = Append(@, sent + 1)]
        /\ queue \in [Queues -> Seq(1..MaxBatches)]
    BY <2>1 DEF Enqueue, run, TypeOK, AgentAssumption
  <2>3. ASSUME NEW b, NEW r \in Queues, NEW i \in 1..Len(queue[r]), queue[r][i] = b
        PROVE  InQueue(b)'
    <3>1. CASE r = q
      <4>1. queue'[q] = Append(queue[q], sent + 1) /\ queue[q] \in Seq(1..MaxBatches)
        BY <2>2
      <4>2. i \in 1..Len(queue'[q]) /\ queue'[q][i] = queue[q][i]
        <5>1. i \in 1..Len(queue[q]) /\ Len(queue[q]) \in Nat
          BY <3>1, <4>1
        <5>2. Len(queue'[q]) = Len(queue[q]) + 1 /\ queue'[q][i] = queue[q][i]
          BY <2>2, <4>1, <5>1, AppendProperties
        <5> QED
          BY <5>1, <5>2
      <4> QED
        BY <2>3, <3>1, <4>2 DEF InQueue
    <3>2. CASE r # q
      <4>1. queue'[r] = queue[r]
        BY <2>2, <3>2
      <4> QED
        BY <2>3, <4>1 DEF InQueue
    <3> QED
      BY <3>1, <3>2
  <2>4. \A b : InQueue(b) => InQueue(b)'
    BY <2>3 DEF InQueue
  <2> QED
    BY <1>0, <1>1, <2>2, <2>4, HeldKept DEF IsPending
<1>5. CASE \/ Abort \/ LaunchBatch \/ \E i \in Calls : PrepareToolCall(i) \/ ToolAborted(i)
           \/ \E c \in alive : ToolSettles(c[1], c[2])
           \/ EndBatch \/ Throw \/ TurnEnds \/ NextTurn \/ FollowUp
  <2>1. UNCHANGED <<queue, pending, transcript>>
    BY <1>5 DEF Abort, LaunchBatch, PrepareToolCall, ToolAborted, ToolSettles, EndBatch, Throw,
            TurnEnds, NextTurn, FollowUp
  <2> QED
    BY <1>0, <2>1, HeldKept DEF InQueue, IsPending, IsSaid
<1>6. CASE Prompt \/ ContinueTranscript \/ Continuation \/ Stop \/ FinishRun \/ ThrowIfAborted
  <2>1. UNCHANGED <<queue, transcript>> /\ pending = <<>>
    BY <1>6 DEF Prompt, ContinueTranscript, StartRun, Continuation, Stop, FinishRun, ThrowIfAborted,
            PendingOK, history
  <2> QED
    BY <1>0, <1>1, <1>2, <1>3, <2>1, HeldKept
<1>7. CASE ContinueQueued
  <2>1. UNCHANGED transcript /\ pending = <<>>
        /\ \E q \in Queues : Drain(q) /\ pending' = Messages(Drained(q), q)
    BY <1>0, <1>7 DEF ContinueQueued, StartRun, PendingOK
  <2> QED
    BY <1>0, <1>1, <1>3, <2>1, DrainKeeps, HeldKept
<1>8. CASE EmitPrompts \/ StartTurn
  <2>1. UNCHANGED queue /\ Say(pending) /\ pending \in Seq(Entry)
    BY <1>8 DEF EmitPrompts, StartTurn, TypeOK
  <2>2. /\ Len(transcript') = Len(transcript) + Len(pending) /\ Len(pending) \in Nat
        /\ \A i \in 1..Len(transcript) : transcript'[i] = transcript[i]
        /\ \A i \in 1..Len(pending) : transcript'[Len(transcript) + i] = pending[i]
    BY <2>1, SayTypes
  <2>3. \A i \in 1..Len(transcript) : i \in 1..Len(transcript')
    BY <1>0, <2>2
  <2>4. \A i \in 1..Len(pending) : Len(transcript) + i \in 1..Len(transcript')
    BY <1>0, <2>2
  <2>5. \A b : IsSaid(b) => IsSaid(b)'
    BY <2>2, <2>3 DEF IsSaid
  <2>6. \A b : IsPending(b) => IsSaid(b)'
    BY <2>2, <2>4 DEF IsSaid, IsPending
  <2> QED
    BY <1>0, <1>2, <2>1, <2>5, <2>6, HeldKept
<1>9. CASE InitialPoll \/ PollSteering \/ PollFollowUps
  <2>1. UNCHANGED transcript /\ pending = <<>>
        /\ \/ UNCHANGED queue
           \/ \E q \in Queues : Drain(q) /\ pending' = Messages(Drained(q), q)
    BY <1>0, <1>9 DEF InitialPoll, PollSteering, PollFollowUps, PendingOK
  <2> QED
    BY <1>0, <1>1, <1>2, <1>3, <2>1, DrainKeeps, HeldKept
<1>10. CASE ModelAnswers \/ ModelStops \/ PublishResults \/ HandleRunFailure
  <2>1. UNCHANGED <<queue, pending>>
    BY <1>10 DEF ModelAnswers, ModelStops, PublishResults, HandleRunFailure
  <2>2. Len(transcript) <= Len(transcript') /\ \A i \in 1..Len(transcript) : transcript'[i] = transcript[i]
    <3>1. ASSUME NEW s \in Seq(Entry), transcript' = transcript \o s
          PROVE  /\ Len(transcript) <= Len(transcript')
                 /\ \A i \in 1..Len(transcript) : transcript'[i] = transcript[i]
      <4>1. Len(s) \in Nat
        OBVIOUS
      <4> QED
        BY <1>0, <3>1, <4>1, ConcatProperties
    <3>2. turn \in Nat /\ 0 \in 0..MaxTurns /\ 0 \in 0..MaxCalls /\ MaxCalls \in 0..MaxCalls
      BY DEF TypeOK, AgentAssumption
    <3>3. CASE ModelAnswers
      <4>1. turn + 1 \in 0..MaxTurns
        BY <3>3 DEF ModelAnswers, TypeOK, AgentAssumption
      <4>2. \A n \in 0..MaxCalls : <<Assistant(turn + 1, n, "stop")>> \in Seq(Entry)
        BY <4>1, Entries, OneEntry
      <4> QED
        BY <3>1, <3>3, <4>2 DEF ModelAnswers, Say
    <3>4. CASE ModelStops
      <4>1. \A n \in {0, MaxCalls} :
               <<Assistant(0, n, IF aborted THEN "aborted" ELSE "error")>> \in Seq(Entry)
        BY <3>2, Entries, OneEntry
      <4> QED
        BY <3>1, <3>4, <4>1 DEF ModelStops, Say
    <3>5. CASE HandleRunFailure
      <4>1. Assistant(0, 0, IF aborted THEN "aborted" ELSE "error") \in Entry
        BY <3>2, Entries
      <4>2. Len(transcript') = Len(transcript) + 1
            /\ \A i \in 1..Len(transcript) : transcript'[i] = transcript[i]
        BY <1>0, <3>5, <4>1, AppendProperties DEF HandleRunFailure
      <4> QED
        BY <1>0, <4>2
    <3>6. CASE PublishResults
      <4> DEFINE n == Cardinality(Publishable)
      <4>1. n \in Nat /\ tools.published + n <= Len(tools.call) /\ tools.published \in Nat /\ pc = "tools"
        BY <3>6, PublishTypes DEF PublishResults, TypeOK
      <4>2. transcript' = transcript \o [k \in 1..n |-> ToolResult(turn, tools.published + k)]
        BY <3>6 DEF PublishResults
      <4> HIDE DEF n
      <4>3. [k \in 1..n |-> ToolResult(turn, tools.published + k)] \in Seq(Entry)
        BY <4>1, ResultTypes
      <4> QED
        BY <3>1, <4>2, <4>3
    <3> QED
      BY <1>10, <3>3, <3>4, <3>5, <3>6
  <2>3. \A b : IsSaid(b) => IsSaid(b)'
    <3>1. \A i \in 1..Len(transcript) : i \in 1..Len(transcript')
      BY <1>0, <2>2
    <3> QED
      BY <2>2, <3>1 DEF IsSaid
  <2> QED
    BY <1>0, <1>2, <2>1, <2>3, HeldKept DEF IsPending
<1>11. CASE PrepareRetry
  <2>1. UNCHANGED <<queue, pending>> /\ transcript # <<>> /\ transcript' = Front(transcript)
        /\ transcript[Len(transcript)].role = "assistant"
    BY <1>11 DEF PrepareRetry, LastRole, Last, run
  <2>2. \A i \in 1..Len(transcript) : transcript[i].role = "user" =>
           i \in 1..Len(transcript') /\ transcript'[i] = transcript[i]
    <3> DEFINE L == Len(transcript)
    <3>1. L \in Nat /\ L >= 1 /\ \A i \in 1..L : transcript[i] \in Entry
      BY <1>0, <2>1
    <3>2. PICK m \in Nat : L = m + 1
      <4> HIDE DEF L
      <4>1. L - 1 \in Nat /\ L = (L - 1) + 1
        BY <3>1
      <4> QED
        BY <4>1
    <3>3. transcript' = SubSeq(transcript, 1, m) /\ \A i \in 1..m : transcript[i] \in Entry
      BY <2>1, <3>1, <3>2 DEF Front
    <3>4. /\ Len(SubSeq(transcript, 1, m)) = IF 1 <= m THEN m - 1 + 1 ELSE 0
          /\ \A i \in 1..(m - 1 + 1) : SubSeq(transcript, 1, m)[i] = transcript[1 + i - 1]
      <4>1. 1 \in Int /\ m \in Int
        OBVIOUS
      <4> QED
        BY <3>3, <4>1, SubSeqProperties
    <3>5. \A i \in 1..m : i \in 1..(m - 1 + 1) /\ 1 + i - 1 = i
      BY <3>2
    <3> HIDE DEF L
    <3>6. Len(transcript') = m /\ \A i \in 1..m : transcript'[i] = transcript[i]
      BY <3>2, <3>3, <3>4, <3>5
    <3>7. \A i \in 1..L : i # L => i \in 1..m
      BY <3>2
    <3> QED
      BY <2>1, <3>6, <3>7 DEF L
  <2>3. \A b : IsSaid(b) => IsSaid(b)'
    BY <2>2 DEF IsSaid
  <2> QED
    BY <1>0, <1>2, <2>1, <2>3, HeldKept DEF IsPending
<1>12. CASE UNCHANGED vars
  BY <1>0, <1>12, HeldKept DEF vars, run, InQueue, IsPending, IsSaid
<1> QED
  BY <1>4, <1>5, <1>6, <1>7, <1>8, <1>9, <1>10, <1>11 DEF Next, Loop, World, Owner

-----------------------------------------------------------------------------
(* What a provider is sent.                                                *)

\* Entries, and the results a replay makes up.
Sent == Entry \cup {ToolResult(t, i) : t \in Nat, i \in Nat}
ReplayState == [out : Seq(Sent), owner : Nat, owed : SUBSET Nat]

\* The first n messages: every answer has the results of its calls behind it.
AnsweredTo(messages, n) ==
    \A k \in 1..n : messages[k].role = "assistant" => messages[k].calls \in Answers(messages, k)

\* Every result stands where its call puts it.
Placed(messages) ==
    \A k \in 1..Len(messages) : messages[k].role = "toolResult" =>
        \E j \in 1..k : /\ messages[j].role = "assistant"
                        /\ messages[j].id = messages[k].id
                        /\ k - j = messages[k].call

\* Nothing is owed an answer,
Closed(r) ==
    /\ r \in ReplayState /\ r.owed = {}
    /\ Placed(r.out) /\ AnsweredTo(r.out, Len(r.out))

\* or all the calls of the last answer m but its first c.
Open(r, m, c) ==
    /\ r \in ReplayState /\ m \in Entry /\ m.role = "assistant" /\ c \in 0..m.calls
    /\ r.owner = m.id /\ r.owed = (c + 1)..m.calls
    /\ Len(r.out) - c >= 1 /\ r.out[Len(r.out) - c] = m
    /\ \A i \in 1..c : r.out[Len(r.out) - c + i] = ToolResult(m.id, i)
    /\ Placed(r.out) /\ AnsweredTo(r.out, Len(r.out) - c - 1)

\* What a result is made of.
LEMMA ResultFields ==
    ASSUME NEW t \in Nat, NEW i \in Nat
    PROVE  /\ ToolResult(t, i) \in Sent /\ ToolResult(t, i).role = "toolResult"
           /\ ToolResult(t, i).id = t /\ ToolResult(t, i).call = i
BY DEF ToolResult, Sent

\* The fields of the messages.
LEMMA SentFields ==
    ASSUME AgentAssumption, NEW m \in Sent
    PROVE  /\ m.role = "assistant" => m \in Entry /\ m.calls \in Nat /\ m.id \in Nat
           /\ m.role = "toolResult" => m.call \in Nat /\ m.id \in Nat
           /\ m \in Entry /\ m.role = "toolResult" => m.call >= 1
<1>1. CASE m \in Entry
  BY <1>1 DEF Entry, AgentAssumption
<1>2. CASE m \notin Entry
  <2>1. PICK t \in Nat, i \in Nat : m = ToolResult(t, i)
    BY <1>2 DEF Sent
  <2>2. m.role = "toolResult" /\ m.id = t /\ m.call = i
    BY <2>1, ResultFields
  <2> QED
    BY <1>2, <2>2
<1> QED
  BY <1>1, <1>2

\* The calls that wait, in their order.
LEMMA OwedOrder ==
    ASSUME NEW r, NEW c \in Nat, NEW n \in Nat, c <= n, r.owed = (c + 1)..n
    PROVE  /\ Cardinality(r.owed) = n - c /\ n - c \in Nat
           /\ \A k \in 1..(n - c) : Owed(r, k) = c + k
<1>1. Cardinality(r.owed) = n - c /\ n - c \in Nat
  <2>1. c + 1 \in Int /\ n \in Int
    OBVIOUS
  <2>2. Cardinality((c + 1)..n) = IF c + 1 <= n THEN n - (c + 1) + 1 ELSE 0
    BY <2>1, FS_Interval
  <2> QED
    BY <2>2
<1>2. ASSUME NEW k \in 1..(n - c)
      PROVE  Owed(r, k) = c + k
  <2> DEFINE First(i) == {j \in r.owed : j <= i}
  <2>1. ASSUME NEW i \in r.owed
        PROVE  Cardinality(First(i)) = i - c
    <3>1. First(i) = (c + 1)..i /\ i \in Nat /\ c + 1 \in Nat /\ c + 1 <= i
      OBVIOUS
    <3> HIDE DEF First
    <3>2. Cardinality((c + 1)..i) = i - (c + 1) + 1
      BY <3>1, FS_Interval
    <3> QED
      BY <3>1, <3>2
  <2>2. c + k \in r.owed /\ (c + k) - c = k
    OBVIOUS
  <2>3. \A i \in r.owed : i - c = k => i = c + k
    OBVIOUS
  <2> HIDE DEF First
  <2>4. \A i \in r.owed : Cardinality(First(i)) = k <=> i = c + k
    BY <2>1, <2>2, <2>3
  <2> DEFINE x == CHOOSE i \in r.owed : Cardinality(First(i)) = k
  <2>5. x \in r.owed /\ Cardinality(First(x)) = k
    BY <2>2, <2>4
  <2>6. x = c + k
    BY <2>4, <2>5
  <2> QED
    BY <2>6 DEF Owed, First
<1> QED
  BY <1>1, <1>2

\* Messages added behind an answer and its results do not part them,
LEMMA AnswersStay ==
    ASSUME AgentAssumption, NEW s \in Seq(Sent), NEW t \in Seq(Sent), Len(s) <= Len(t),
           \A i \in 1..Len(s) : t[i] = s[i],
           NEW n \in 0..Len(s), AnsweredTo(s, n)
    PROVE  AnsweredTo(t, n)
<1> HIDE DEF Sent
<1>1. Len(s) \in Nat /\ Len(t) \in Nat /\ DOMAIN s = 1..Len(s) /\ DOMAIN t = 1..Len(t)
  OBVIOUS
<1> SUFFICES ASSUME NEW k \in 1..n, t[k].role = "assistant"
             PROVE  t[k].calls \in Answers(t, k)
  BY DEF AnsweredTo
<1>2. k \in 1..Len(s) /\ t[k] = s[k]
  BY <1>1
<1>3. s[k].calls \in Answers(s, k)
  BY <1>2 DEF AnsweredTo
<1>4. \A i \in 1..s[k].calls : k + i \in 1..Len(s) /\ s[k + i] = ToolResult(s[k].id, i)
  BY <1>1, <1>3 DEF Answers
<1>5. \A i \in 1..s[k].calls : k + i \in 1..Len(t) /\ t[k + i] = ToolResult(s[k].id, i)
  BY SMTT(30), <1>1, <1>4
<1> QED
  BY <1>1, <1>2, <1>3, <1>5 DEF Answers

\* nor do they move a result.
LEMMA PlacedStays ==
    ASSUME AgentAssumption, NEW s \in Seq(Sent), NEW t \in Seq(Sent), Len(s) <= Len(t),
           \A i \in 1..Len(s) : t[i] = s[i], Placed(s),
           NEW k \in 1..Len(s), t[k].role = "toolResult"
    PROVE  \E j \in 1..k : t[j].role = "assistant" /\ t[j].id = t[k].id /\ k - j = t[k].call
<1> HIDE DEF Sent
<1>1. Len(s) \in Nat /\ t[k] = s[k]
  OBVIOUS
<1>2. PICK j \in 1..k : s[j].role = "assistant" /\ s[j].id = s[k].id /\ k - j = s[k].call
  BY <1>1 DEF Placed
<1>3. j \in 1..Len(s)
  BY <1>1
<1> QED
  BY <1>1, <1>2, <1>3

\* Messages one behind the other.
LEMMA Joined ==
    ASSUME NEW S, NEW s \in Seq(S), NEW t \in Seq(S)
    PROVE  /\ s \o t \in Seq(S) /\ Len(s \o t) = Len(s) + Len(t)
           /\ \A i \in 1..Len(s) : (s \o t)[i] = s[i]
           /\ \A i \in 1..Len(t) : (s \o t)[Len(s) + i] = t[i]
<1>1. Len(s) \in Nat /\ Len(t) \in Nat
  OBVIOUS
<1> QED
  BY <1>1, ConcatProperties

\* insertSyntheticToolResults leaves no call without a result.
LEMMA SynthesizedCloses ==
    ASSUME AgentAssumption, NEW r,
           Closed(r) \/ \E m \in Entry : \E c \in 0..m.calls : Open(r, m, c)
    PROVE  Closed(Synthesized(r))
<1> HIDE DEF Sent, Entry
<1> DEFINE s == r.out
<1> DEFINE n == Cardinality(r.owed)
<1> DEFINE made == [k \in 1..n |-> ToolResult(r.owner, Owed(r, k))]
<1> DEFINE t == s \o made
<1>1. r \in ReplayState
  BY DEF Closed, Open
<1>2. s \in Seq(Sent) /\ Len(s) \in Nat
  BY <1>1 DEF ReplayState
<1>3. n \in Nat /\ \A k \in 1..n : ToolResult(r.owner, Owed(r, k)) \in Sent
  <2>1. CASE Closed(r)
    <3>1. n = 0
      BY <2>1, FS_EmptySet DEF Closed
    <3> QED
      BY <3>1
  <2>2. ASSUME NEW m \in Entry, NEW c \in 0..m.calls, Open(r, m, c)
        PROVE  n \in Nat /\ \A k \in 1..n : ToolResult(r.owner, Owed(r, k)) \in Sent
    <3>1. m.calls \in Nat /\ m.id \in Nat /\ r.owner = m.id
      BY <2>2, SentFields DEF Open, Sent
    <3>2. n = m.calls - c /\ n \in Nat /\ \A k \in 1..n : Owed(r, k) = c + k
      BY <2>2, <3>1, OwedOrder DEF Open
    <3>3. \A k \in 1..n : c + k \in Nat
      BY <3>1, <3>2
    <3> HIDE DEF n
    <3> QED
      BY <3>1, <3>2, <3>3, ResultFields
  <2> QED
    BY <2>1, <2>2
<1> HIDE DEF n
<1>4. made \in Seq(Sent) /\ Len(made) = n /\ \A k \in 1..n : made[k] = ToolResult(r.owner, Owed(r, k))
  BY <1>3
<1> HIDE DEF made, s
<1>5. /\ t \in Seq(Sent) /\ Len(t) = Len(s) + n
      /\ \A i \in 1..Len(s) : t[i] = s[i]
      /\ \A i \in 1..n : t[Len(s) + i] = made[i]
  <2>1. /\ s \o made \in Seq(Sent) /\ Len(s \o made) = Len(s) + Len(made)
        /\ \A i \in 1..Len(s) : (s \o made)[i] = s[i]
        /\ \A i \in 1..Len(made) : (s \o made)[Len(s) + i] = made[i]
    <3>1. s \in Seq(Sent) /\ made \in Seq(Sent)
      BY <1>2, <1>4
    <3>2. \A i \in 1..Len(made) : (s \o made)[Len(s) + i] = made[i]
      BY SMTT(30), <3>1, Joined
    <3> QED
      BY SMTT(30), <3>1, <3>2, Joined
  <2> QED
    BY <1>4, <2>1
<1>6. Len(s) <= Len(t) /\ Len(s) \in 0..Len(s) /\ Len(t) \in Nat /\ DOMAIN t = 1..Len(t)
  BY <1>2, <1>3, <1>5
<1>12. Synthesized(r) = [r EXCEPT !.out = t, !.owed = {}]
  BY Zenon DEF Synthesized, s, made, n
<1> HIDE DEF t
<1>7. Synthesized(r) = [out |-> t, owner |-> r.owner, owed |-> {}]
  BY <1>1, <1>12 DEF ReplayState
<1>8. Synthesized(r) \in ReplayState /\ Synthesized(r).out = t /\ Synthesized(r).owed = {}
  BY <1>1, <1>5, <1>7 DEF ReplayState
<1>9. CASE Closed(r)
  <2>1. n = 0
    BY <1>9, FS_EmptySet DEF Closed, n
  <2>2. Len(t) = Len(s) /\ \A i \in 1..Len(s) : t[i] = s[i]
    BY <1>2, <1>5, <2>1
  <2>3. Placed(s) /\ AnsweredTo(s, Len(s))
    BY <1>9 DEF Closed, s
  <2>4. AnsweredTo(t, Len(t))
    BY <1>2, <1>5, <1>6, <2>2, <2>3, AnswersStay
  <2>5. Placed(t)
    <3> SUFFICES ASSUME NEW k \in 1..Len(s), t[k].role = "toolResult"
                 PROVE  \E j \in 1..k : t[j].role = "assistant" /\ t[j].id = t[k].id /\ k - j = t[k].call
      BY <2>2 DEF Placed
    <3> QED
      BY <1>2, <1>5, <1>6, <2>3, PlacedStays
  <2> QED
    BY <1>8, <2>4, <2>5 DEF Closed
<1>10. ASSUME NEW m \in Entry, NEW c \in 0..m.calls, Open(r, m, c)
       PROVE  Closed(Synthesized(r))
  <2> DEFINE p == Len(s) - c
  <2>1. m.calls \in Nat /\ m.id \in Nat /\ r.owner = m.id /\ m.role = "assistant"
    BY <1>10, SentFields DEF Open, Sent
  <2>2. n = m.calls - c /\ \A k \in 1..n : Owed(r, k) = c + k
    BY <1>10, <2>1, OwedOrder DEF Open, n
  <2>3. /\ p >= 1 /\ s[p] = m /\ Placed(s) /\ AnsweredTo(s, p - 1)
        /\ \A i \in 1..c : s[p + i] = ToolResult(m.id, i)
    BY <1>10 DEF Open, s
  <2>4. p \in Nat /\ p + c = Len(s) /\ p + m.calls = Len(t) /\ p \in 1..Len(s)
    <3>1. Len(s) \in Nat /\ n \in Nat /\ Len(t) = Len(s) + n /\ c \in Nat /\ m.calls \in Nat
          /\ n = m.calls - c /\ p = Len(s) - c /\ p >= 1
      BY <1>2, <1>3, <1>5, <2>1, <2>2, <2>3
    <3> HIDE DEF p
    <3>2. p \in Nat /\ p + c = Len(s)
      BY SMTT(30), <3>1
    <3>3. p + m.calls = Len(t)
      BY SMTT(30), <3>1, <3>2
    <3> QED
      BY SMTT(30), <3>1, <3>2, <3>3
  <2> HIDE DEF p
  <2>5. t[p] = m
    BY <1>5, <2>3, <2>4
  <2>6. ASSUME NEW i \in 1..m.calls
        PROVE  p + i \in 1..Len(t) /\ t[p + i] = ToolResult(m.id, i)
    <3>1. p + i \in 1..Len(t)
      BY <2>1, <2>4
    <3>2. CASE i <= c
      <4>1. i \in 1..c /\ p + i \in 1..Len(s)
        BY <2>1, <2>4, <3>2
      <4> QED
        BY <1>5, <2>3, <3>1, <4>1
    <3>3. CASE i > c
      <4>1. i - c \in 1..n /\ Len(s) + (i - c) = p + i /\ c + (i - c) = i
        <5>1. c \in Nat /\ m.calls \in Nat /\ n = m.calls - c /\ Len(s) \in Nat /\ p \in Nat
              /\ p + c = Len(s)
          BY <1>2, <2>1, <2>2, <2>4
        <5> QED
          BY <3>3, <5>1
      <4>2. t[Len(s) + (i - c)] = ToolResult(r.owner, c + (i - c))
        BY <1>4, <1>5, <2>2, <4>1
      <4> QED
        BY <2>1, <3>1, <4>1, <4>2
    <3> QED
      BY <2>1, <3>2, <3>3
  <2>7. AnsweredTo(t, p - 1)
    <3>1. p - 1 \in 0..Len(s)
      BY <2>4
    <3> QED
      BY <1>2, <1>5, <1>6, <2>3, <3>1, AnswersStay
  <2>8. AnsweredTo(t, Len(t))
    <3> SUFFICES ASSUME NEW k \in 1..Len(t), t[k].role = "assistant"
                 PROVE  t[k].calls \in Answers(t, k)
      BY DEF AnsweredTo
    <3>1. CASE k < p
      <4>1. k \in 1..(p - 1)
        BY <2>4, <3>1
      <4> QED
        BY <2>7, <4>1 DEF AnsweredTo
    <3>2. CASE k = p
      <4>1. m.calls \in 0..m.calls
        BY <2>1
      <4> QED
        BY <1>6, <2>5, <2>6, <3>2, <4>1 DEF Answers
    <3>3. CASE k > p
      <4>1. k - p \in 1..m.calls /\ p + (k - p) = k
        BY <2>1, <2>4, <3>3
      <4>2. t[k] = ToolResult(m.id, k - p) /\ k - p \in Nat
        BY <2>6, <4>1
      <4> QED
        BY <2>1, <4>2, ResultFields
    <3> QED
      BY <2>4, <3>1, <3>2, <3>3
  <2>9. Placed(t)
    <3> SUFFICES ASSUME NEW k \in 1..Len(t), t[k].role = "toolResult"
                 PROVE  \E j \in 1..k : t[j].role = "assistant" /\ t[j].id = t[k].id /\ k - j = t[k].call
      BY DEF Placed
    <3>1. CASE k <= Len(s)
      <4>1. k \in 1..Len(s)
        BY <1>2, <3>1
      <4> QED
        BY <1>2, <1>5, <1>6, <2>3, <4>1, PlacedStays
    <3>2. CASE k > Len(s)
      <4>1. k - p \in 1..m.calls /\ p + (k - p) = k /\ p \in 1..k /\ k - p \in Nat
        <5>1. p \in Nat /\ p >= 1 /\ p <= Len(s) /\ p + m.calls = Len(t) /\ m.calls \in Nat
              /\ k \in Nat /\ k <= Len(t) /\ k > Len(s) /\ Len(s) \in Nat
          BY <1>2, <1>6, <2>1, <2>4, <3>2
        <5> QED
          BY <5>1
      <4>2. t[k] = ToolResult(m.id, k - p)
        BY <2>6, <4>1
      <4>3. t[k].id = m.id /\ t[k].call = k - p
        BY <2>1, <4>1, <4>2, ResultFields
      <4> QED
        BY <2>1, <2>5, <4>1, <4>3
    <3> QED
      BY <1>2, <3>1, <3>2
  <2> QED
    BY <1>8, <2>8, <2>9 DEF Closed
<1> QED
  BY <1>9, <1>10

\* A message by itself at the end.
LEMMA Appended ==
    ASSUME NEW s \in Seq(Sent), NEW m \in Sent
    PROVE  /\ Append(s, m) \in Seq(Sent) /\ Len(Append(s, m)) = Len(s) + 1 /\ Len(s) \in Nat
           /\ \A i \in 1..Len(s) : Append(s, m)[i] = s[i]
           /\ Append(s, m)[Len(s) + 1] = m
           /\ Len(s) \in 0..Len(s) /\ Len(s) <= Len(Append(s, m))
<1> HIDE DEF Sent
<1> QED
  BY AppendProperties

\* A user's message behind closed calls leaves them closed,
LEMMA UserCloses ==
    ASSUME AgentAssumption, NEW r, Closed(r), NEW m \in Entry, m.role = "user"
    PROVE  Closed([r EXCEPT !.out = Append(@, m)])
<1> HIDE DEF Sent, Entry
<1> DEFINE s == r.out
           t == Append(s, m)
           q == [r EXCEPT !.out = t]
<1>1. r \in ReplayState /\ s \in Seq(Sent) /\ m \in Sent
  BY DEF Closed, ReplayState, Sent
<1>2. q \in ReplayState /\ q.out = t /\ q.owed = {}
  <2>1. t \in Seq(Sent)
    BY <1>1, Appended
  <2> HIDE DEF t
  <2> QED
    BY <1>1, <2>1 DEF Closed, ReplayState
<1>3. Placed(s) /\ AnsweredTo(s, Len(s))
  BY DEF Closed
<1> HIDE DEF s
<1>4. /\ t \in Seq(Sent) /\ Len(t) = Len(s) + 1 /\ Len(s) \in Nat /\ t[Len(s) + 1] = m
      /\ \A i \in 1..Len(s) : t[i] = s[i]
      /\ Len(s) \in 0..Len(s) /\ Len(s) <= Len(t)
  BY <1>1, Appended
<1> HIDE DEF t, q
<1>5. \A k \in 1..Len(t) : k \in 1..Len(s) \/ k = Len(s) + 1
  BY <1>4
<1>6. AnsweredTo(t, Len(t))
  <2>1. AnsweredTo(t, Len(s))
    BY <1>1, <1>3, <1>4, AnswersStay
  <2> QED
    BY <1>4, <1>5, <2>1 DEF AnsweredTo
<1>7. Placed(t)
  <2> SUFFICES ASSUME NEW k \in 1..Len(t), t[k].role = "toolResult"
               PROVE  \E j \in 1..k : t[j].role = "assistant" /\ t[j].id = t[k].id /\ k - j = t[k].call
    BY DEF Placed
  <2>1. k \in 1..Len(s)
    BY <1>4, <1>5
  <2> QED
    BY <1>1, <1>3, <1>4, <2>1, PlacedStays
<1> QED
  BY <1>2, <1>6, <1>7 DEF Closed, q, s, t

\* an answer opens its calls,
LEMMA ReplyOpens ==
    ASSUME AgentAssumption, NEW r, Closed(r), NEW m \in Entry, m.role = "assistant"
    PROVE  Open([out |-> Append(r.out, m), owner |-> m.id, owed |-> 1..m.calls], m, 0)
<1> HIDE DEF Sent, Entry
<1> DEFINE s == r.out
           t == Append(s, m)
           q == [out |-> t, owner |-> m.id, owed |-> 1..m.calls]
<1>1. r \in ReplayState /\ s \in Seq(Sent) /\ m \in Sent /\ Placed(s) /\ AnsweredTo(s, Len(s))
  BY DEF Closed, ReplayState, Sent
<1>2. m.calls \in Nat /\ m.id \in Nat
  BY <1>1, SentFields
<1> HIDE DEF s
<1>3. /\ t \in Seq(Sent) /\ Len(t) = Len(s) + 1 /\ Len(s) \in Nat /\ t[Len(s) + 1] = m
      /\ \A i \in 1..Len(s) : t[i] = s[i]
      /\ Len(s) \in 0..Len(s) /\ Len(s) <= Len(t)
  BY <1>1, Appended
<1> HIDE DEF t
<1>4. q \in ReplayState /\ q.out = t /\ q.owner = m.id /\ q.owed = (0 + 1)..m.calls
  BY <1>2, <1>3 DEF ReplayState
<1> HIDE DEF q
<1>5. \A k \in 1..Len(t) : k \in 1..Len(s) \/ k = Len(s) + 1
  BY <1>3
<1>6. Len(t) - 0 >= 1 /\ t[Len(t) - 0] = m /\ Len(t) - 0 - 1 = Len(s)
  BY <1>3
<1>7. AnsweredTo(t, Len(t) - 0 - 1)
  BY <1>1, <1>3, <1>6, AnswersStay
<1>8. Placed(t)
  <2> SUFFICES ASSUME NEW k \in 1..Len(t), t[k].role = "toolResult"
               PROVE  \E j \in 1..k : t[j].role = "assistant" /\ t[j].id = t[k].id /\ k - j = t[k].call
    BY DEF Placed
  <2>1. k \in 1..Len(s)
    BY <1>3, <1>5
  <2> QED
    BY <1>1, <1>3, <2>1, PlacedStays
<1>9. 0 \in 0..m.calls /\ \A i \in 1..0 : q.out[Len(q.out) - 0 + i] = ToolResult(m.id, i)
  BY <1>2
<1>10. Open(q, m, 0)
  BY <1>4, <1>6, <1>7, <1>8, <1>9 DEF Open
<1> QED
  BY <1>10 DEF q, t, s

\* and a result answers the first call that is open.
LEMMA ResultAnswers ==
    ASSUME AgentAssumption, NEW r, NEW m \in Entry, NEW c \in Nat, Open(r, m, c), c + 1 <= m.calls
    PROVE  Open([r EXCEPT !.out = Append(@, ToolResult(m.id, c + 1)), !.owed = @ \ {c + 1}],
                m, c + 1)
<1> HIDE DEF Sent, Entry
<1> DEFINE x == ToolResult(m.id, c + 1)
           s == r.out
           t == Append(s, x)
           d == r.owed \ {c + 1}
           q == [r EXCEPT !.out = t, !.owed = d]
<1>1. m.calls \in Nat /\ m.id \in Nat /\ m.role = "assistant" /\ c + 1 \in Nat
  BY SentFields DEF Open, Sent
<1>2. x \in Sent /\ x.role = "toolResult" /\ x.id = m.id /\ x.call = c + 1
  BY <1>1, ResultFields
<1>3. /\ r \in ReplayState /\ s \in Seq(Sent) /\ Placed(s) /\ r.owner = m.id
      /\ Len(s) - c >= 1 /\ s[Len(s) - c] = m /\ AnsweredTo(s, Len(s) - c - 1)
      /\ \A i \in 1..c : s[Len(s) - c + i] = ToolResult(m.id, i)
  BY DEF Open, ReplayState
<1>4. d = ((c + 1) + 1)..m.calls /\ d \in SUBSET Nat
  <2>1. r.owed = (c + 1)..m.calls
    BY DEF Open
  <2>2. ((c + 1)..m.calls) \ {c + 1} = ((c + 1) + 1)..m.calls
    BY <1>1
  <2> QED
    BY <1>1, <2>1, <2>2
<1> HIDE DEF x, s, d
<1>5. /\ t \in Seq(Sent) /\ Len(t) = Len(s) + 1 /\ Len(s) \in Nat /\ t[Len(s) + 1] = x
      /\ \A i \in 1..Len(s) : t[i] = s[i]
      /\ Len(s) \in 0..Len(s) /\ Len(s) <= Len(t)
  BY <1>2, <1>3, Appended
<1> HIDE DEF t
<1>6. q \in ReplayState /\ q.out = t /\ q.owner = m.id /\ q.owed = ((c + 1) + 1)..m.calls
  BY <1>3, <1>4, <1>5 DEF ReplayState
<1> DEFINE p == Len(s) - c
<1>7. /\ p \in 1..Len(s) /\ p \in Nat /\ p + c = Len(s) /\ Len(t) - (c + 1) = p
      /\ p - 1 \in 0..Len(s) /\ p + (c + 1) = Len(t)
  BY <1>3, <1>5
<1>8. t[p] = m /\ AnsweredTo(s, p - 1) /\ \A i \in 1..c : s[p + i] = ToolResult(m.id, i)
  BY <1>3, <1>5, <1>7
<1> HIDE DEF p
<1>9. AnsweredTo(t, p - 1)
  BY <1>3, <1>5, <1>7, <1>8, AnswersStay
<1>10. ASSUME NEW i \in 1..(c + 1)
       PROVE  t[p + i] = ToolResult(m.id, i)
  <2>1. CASE i = c + 1
    <3>1. p + i = Len(s) + 1
      BY <1>7, <2>1
    <3> QED
      BY <1>5, <2>1, <3>1 DEF x
  <2>2. CASE i # c + 1
    <3>1. i \in 1..c /\ p + i \in 1..Len(s)
      BY <1>5, <1>7, <2>2
    <3> QED
      BY <1>5, <1>8, <3>1
  <2> QED
    BY <2>1, <2>2
<1>11. Placed(t)
  <2> SUFFICES ASSUME NEW k \in 1..Len(t), t[k].role = "toolResult"
               PROVE  \E j \in 1..k : t[j].role = "assistant" /\ t[j].id = t[k].id /\ k - j = t[k].call
    BY DEF Placed
  <2>1. CASE k \in 1..Len(s)
    BY <1>3, <1>5, <2>1, PlacedStays
  <2>2. CASE k = Len(s) + 1
    <3>1. p \in 1..k /\ k - p = c + 1 /\ t[k] = x
      BY <1>5, <1>7, <2>2
    <3> QED
      BY <1>1, <1>2, <1>8, <3>1
  <2> QED
    BY <1>5, <2>1, <2>2
<1> HIDE DEF q
<1>12. Open(q, m, c + 1)
  <2>1. c + 1 \in 0..m.calls
    BY <1>1
  <2>2. Len(t) - (c + 1) >= 1 /\ t[Len(t) - (c + 1)] = m /\ AnsweredTo(t, Len(t) - (c + 1) - 1)
        /\ \A i \in 1..(c + 1) : t[Len(t) - (c + 1) + i] = ToolResult(m.id, i)
    <3>1. Len(t) - (c + 1) = p /\ p >= 1
      BY <1>7
    <3> HIDE DEF p
    <3> QED
      BY <1>8, <1>9, <1>10, <3>1
  <2> QED
    BY <1>1, <1>6, <1>11, <2>1, <2>2 DEF Open
<1> QED
  BY <1>12 DEF q, t, d, s, x

\* Every set of numbers has a least one, which is how induction is done here.
LEMMA Least ==
    ASSUME NEW S \in SUBSET Nat, S # {}
    PROVE  \E n \in S : \A m \in S : n <= m
<1> DEFINE R == OpToRel(<, Nat)
<1>1. IsWellFoundedOn(R, Nat)
  BY NatLessThanWellFounded
<1>2. \A x, y \in Nat : <<y, x>> \in R <=> y < x
  BY DEF OpToRel
<1> HIDE DEF R
<1>3. PICK x \in S : \A y \in S : ~ (<<y, x>> \in R)
  BY <1>1, WFMin
<1>4. \A y \in S : x \in Nat /\ y \in Nat /\ ~(y < x)
  BY <1>2, <1>3
<1>5. \A y \in S : x <= y
  BY <1>4
<1> QED
  BY <1>3, <1>5

\* The states of a replay, message by message.
Unfolds(replay, messages) ==
    /\ Replayed(messages) = Synthesized(replay[Len(messages)]).out
    /\ replay[0] = NoReplay
    /\ \A n \in 1..Len(messages) : replay[n] = Replay(replay[n - 1], messages[n])

\* What is sent is computed one message after the other.
LEMMA ReplayUnfolds ==
    ASSUME NEW messages \in Seq(Entry)
    PROVE  \E replay : Unfolds(replay, messages)
<1> HIDE DEF Entry
<1> DEFINE L == Len(messages)
           Grown(g, n) == IF n = 0 THEN NoReplay ELSE Replay(g[n - 1], messages[n])
           UpTo(g, n) == g = [i \in 0..n |-> Grown(g, i)]
           Short == {n \in 0..L : ~ \E g : UpTo(g, n)}
<1>1. L \in Nat /\ L \in 0..L
  OBVIOUS
<1> HIDE DEF L
<1>2. Short = {}
  <2> SUFFICES ASSUME Short # {} PROVE FALSE
    OBVIOUS
  <2>1. Short \in SUBSET Nat
    BY <1>1
  <2>2. PICK n \in Short : \A m \in Short : n <= m
    <3> HIDE DEF Short
    <3> QED
      BY <2>1, Least
  <2>3. n \in 0..L /\ n \in Nat /\ ~ \E g : UpTo(g, n)
    BY <1>1, <2>2
  <2>4. ASSUME NEW g, NEW h, h = [i \in 0..n |-> IF i < n THEN g[i] ELSE Grown(g, n)],
               n # 0 => \A i \in 0..(n - 1) : g[i] = Grown(g, i)
        PROVE  FALSE
    <3>1. ASSUME NEW i \in 0..n
          PROVE  h[i] = Grown(h, i)
      <4>1. i # 0 => h[i - 1] = g[i - 1]
        <5>1. i # 0 => i - 1 \in 0..n /\ i - 1 < n
          BY <2>3
        <5> HIDE DEF Grown
        <5> QED
          BY <2>4, <5>1
      <4>2. Grown(h, i) = Grown(g, i)
        BY <4>1
      <4>3. i < n => i \in 0..(n - 1) /\ n # 0
        BY <2>3
      <4>4. ~(i < n) => i = n
        BY <2>3
      <4> HIDE DEF Grown
      <4> QED
        BY <2>4, <4>2, <4>3, <4>4
    <3> HIDE DEF Grown
    <3>2. h = [i \in 0..n |-> h[i]]
      BY <2>4
    <3>3. h = [i \in 0..n |-> Grown(h, i)]
      BY <3>1, <3>2
    <3> QED
      BY <2>3, <3>3
  <2>5. CASE n = 0
    <3> DEFINE h == [i \in 0..n |-> IF i < n THEN <<>>[i] ELSE Grown(<<>>, n)]
    <3> HIDE DEF h, Grown
    <3> QED
      BY <2>4, <2>5 DEF h
  <2>6. CASE n # 0
    <3>1. n - 1 \in 0..L /\ n - 1 \notin Short
      <4> HIDE DEF Short
      <4> QED
        BY <1>1, <2>2, <2>3, <2>6
    <3>2. PICK g : UpTo(g, n - 1)
      <4> HIDE DEF UpTo
      <4> QED
        BY <3>1
    <3>3. \A i \in 0..(n - 1) : g[i] = Grown(g, i)
      <4> HIDE DEF Grown
      <4> QED
        BY <3>2
    <3> DEFINE h == [i \in 0..n |-> IF i < n THEN g[i] ELSE Grown(g, n)]
    <3> HIDE DEF h, Grown
    <3> QED
      BY <2>4, <3>3 DEF h
  <2> QED
    BY <2>5, <2>6
<1>3. PICK g : UpTo(g, L)
  <2>1. L \notin Short
    BY <1>2
  <2> HIDE DEF UpTo
  <2> QED
    BY <1>1, <2>1
<1> DEFINE replay == CHOOSE k : UpTo(k, L)
<1>4. UpTo(replay, L)
  <2> HIDE DEF UpTo
  <2> QED
    BY <1>3
<1>5. Replayed(messages) = Synthesized(replay[L]).out
  BY Zenon DEF Replayed, L
<1> HIDE DEF replay
<1>6. \A n \in 0..L : replay[n] = Grown(replay, n)
  <2> HIDE DEF Grown
  <2> QED
    BY <1>4
<1>7. 0 \in 0..L /\ \A n \in 1..L : n \in 0..L /\ n # 0
  BY <1>1
<1>8. replay[0] = NoReplay /\ \A n \in 1..L : replay[n] = Replay(replay[n - 1], messages[n])
  BY <1>6, <1>7
<1> QED
  BY <1>5, <1>8 DEF Unfolds, L

\* Where the replay of the first n messages stands.
Standing(messages, n, r) ==
    /\ n = 0 => Closed(r)
    /\ n >= 1 =>
          LET m == messages[n] IN
          /\ m.role = "user" \/ (m.role = "assistant" /\ m.stop # "stop") => Closed(r)
          /\ m.role = "assistant" /\ m.stop = "stop" => Open(r, m, 0)
          /\ m.role = "toolResult" => Open(r, messages[n - m.call], m.call)

\* Whatever is open then can be closed,
LEMMA StandingCloses ==
    ASSUME AgentAssumption, NEW messages \in Seq(Entry), NEW n \in 0..Len(messages), NEW r,
           Standing(messages, n, r), OwnedResults(messages)
    PROVE  Closed(Synthesized(r))
<1>1. CASE Closed(r)
  BY <1>1, SynthesizedCloses
<1>2. CASE ~Closed(r)
  <2> DEFINE m == messages[n]
  <2>1. n \in 1..Len(messages) /\ n >= 1
    BY <1>2 DEF Standing
  <2>2. m \in Entry
    <3> HIDE DEF Entry
    <3> QED
      BY <2>1
  <2>3. m.role \in {"user", "assistant", "toolResult"}
    BY <2>2 DEF Entry
  <2> HIDE DEF Entry
  <2>4. CASE m.role = "assistant" /\ m.stop = "stop"
    <3>1. Open(r, m, 0)
      BY <2>1, <2>4 DEF Standing
    <3>2. 0 \in 0..m.calls
      BY <3>1 DEF Open
    <3> QED
      BY <2>2, <3>1, <3>2, SynthesizedCloses
  <2>5. CASE m.role = "toolResult"
    <3>1. Open(r, messages[n - m.call], m.call)
      BY <2>1, <2>5 DEF Standing
    <3>2. messages[n - m.call] \in Entry /\ m.call \in 0..messages[n - m.call].calls
      BY <3>1 DEF Open
    <3> QED
      BY <3>1, <3>2, SynthesizedCloses
  <2> QED
    BY <1>2, <2>1, <2>3, <2>4, <2>5 DEF Standing
<1> QED
  BY <1>1, <1>2

\* and the next message leaves the replay where its role says.
LEMMA StandingStep ==
    ASSUME AgentAssumption, NEW messages \in Seq(Entry), NEW n \in 1..Len(messages), NEW r,
           Standing(messages, n - 1, r), OwnedResults(messages)
    PROVE  Standing(messages, n, Replay(r, messages[n]))
<1> DEFINE m == messages[n]
           q == Synthesized(r)
<1>1. n \in Nat /\ n # 0 /\ n >= 1 /\ n - 1 \in 0..Len(messages) /\ Len(messages) \in Nat
  OBVIOUS
<1>2. m \in Entry
  <2> HIDE DEF Entry
  <2> QED
    OBVIOUS
<1>3. m.role \in {"user", "assistant", "toolResult"}
  BY <1>2 DEF Entry
<1> HIDE DEF Entry
<1>4. Closed(q)
  BY <1>1, StandingCloses
<1> HIDE DEF q
<1>5. CASE m.role = "user"
  <2>1. Replay(r, m) = [q EXCEPT !.out = Append(@, m)]
    BY <1>5 DEF Replay, q
  <2>2. Closed(Replay(r, m))
    BY <1>2, <1>4, <1>5, <2>1, UserCloses
  <2> QED
    BY <1>1, <1>5, <2>2 DEF Standing
<1>6. CASE m.role = "assistant" /\ m.stop # "stop"
  <2>1. Replay(r, m) = q
    BY <1>6 DEF Replay, q
  <2> QED
    BY <1>1, <1>4, <1>6, <2>1 DEF Standing
<1>7. CASE m.role = "assistant" /\ m.stop = "stop"
  <2>1. Replay(r, m) = [out |-> Append(q.out, m), owner |-> m.id, owed |-> 1..m.calls]
    BY <1>7 DEF Replay, q
  <2>2. Open(Replay(r, m), m, 0)
    BY <1>2, <1>4, <1>7, <2>1, ReplyOpens
  <2> QED
    BY <1>1, <1>7, <2>2 DEF Standing
<1>8. CASE m.role = "toolResult"
  <2>1. PICK c : c = m.call
    OBVIOUS
  <2>2. c \in Nat /\ c >= 1 /\ m.id \in Nat
    <3>1. m \in Sent
      BY <1>2 DEF Sent
    <3> QED
      BY <1>2, <1>8, <2>1, <3>1, SentFields
  <2>3. Owned(messages, n)
    BY <1>8 DEF OwnedResults
  <2>4. PICK j : j = n - c
    OBVIOUS
  <2>5. PICK a : a = messages[j]
    OBVIOUS
  <2>6. /\ j >= 1 /\ a.role = "assistant" /\ a.stop = "stop" /\ a.id = m.id /\ c <= a.calls
        /\ \A i \in 1..c : messages[j + i] = ToolResult(m.id, i)
    BY <2>1, <2>3, <2>4, <2>5 DEF Owned
  <2>7. j \in 1..Len(messages) /\ a \in Entry
    <3>1. j \in 1..Len(messages)
      BY <1>1, <2>2, <2>4, <2>6
    <3> QED
      BY <2>5, <3>1
  <2>8. m = ToolResult(m.id, c)
    <3>1. c \in 1..c /\ j + c = n
      BY <1>1, <2>2, <2>4
    <3> QED
      BY <2>6, <3>1
  <2>9. Open(r, a, c - 1)
    <3>1. CASE c = 1
      <4>1. n - 1 = j /\ n - 1 >= 1
        BY <1>1, <2>4, <2>6, <3>1
      <4>2. Open(r, a, 0)
        BY <2>5, <2>6, <4>1 DEF Standing
      <4> QED
        BY <3>1, <4>2
    <3>2. CASE c # 1
      <4> DEFINE x == messages[n - 1]
      <4>1. /\ c - 1 \in 1..c /\ j + (c - 1) = n - 1 /\ n - 1 >= 1 /\ c - 1 \in Nat
            /\ (n - 1) - (c - 1) = j
        BY <1>1, <2>2, <2>4, <2>6, <3>2
      <4>2. x = ToolResult(m.id, c - 1)
        BY <2>6, <4>1
      <4>3. x.role = "toolResult" /\ x.call = c - 1
        BY <2>2, <4>1, <4>2, ResultFields
      <4>4. Open(r, messages[(n - 1) - x.call], x.call)
        BY <4>1, <4>3 DEF Standing
      <4> QED
        BY <2>5, <4>1, <4>3, <4>4
    <3> QED
      BY <3>1, <3>2
  <2> DEFINE w == [r EXCEPT !.out = Append(@, ToolResult(a.id, c)), !.owed = @ \ {c}]
  <2>10. Open(w, a, c)
    <3>1. PICK b \in Nat : b = c - 1 /\ b + 1 = c
      BY <2>2
    <3>2. Open(r, a, b) /\ b + 1 <= a.calls
      BY <2>6, <2>9, <3>1
    <3> HIDE DEF w
    <3>3. Open([r EXCEPT !.out = Append(@, ToolResult(a.id, b + 1)), !.owed = @ \ {b + 1}], a, b + 1)
      BY <2>7, <3>2, ResultAnswers
    <3> QED
      BY <3>1, <3>3 DEF w
  <2>11. Replay(r, m) = [r EXCEPT !.out = Append(@, m), !.owed = @ \ {m.call}]
    BY <1>8 DEF Replay
  <2>12. Replay(r, m) = w
    BY <2>1, <2>6, <2>8, <2>11
  <2> QED
    BY <1>1, <1>8, <2>1, <2>4, <2>5, <2>10, <2>12 DEF Standing
<1> QED
  BY <1>3, <1>5, <1>6, <1>7, <1>8

\* What is sent answers every call at once, and nothing else.
LEMMA ReplayCloses ==
    ASSUME AgentAssumption, NEW messages \in Seq(Entry), OwnedResults(messages)
    PROVE  /\ Replayed(messages) \in Seq(Sent)
           /\ AnsweredTo(Replayed(messages), Len(Replayed(messages)))
           /\ Placed(Replayed(messages))
<1> HIDE DEF Entry, Sent
<1> DEFINE L == Len(messages)
<1>1. PICK replay : Unfolds(replay, messages)
  BY ReplayUnfolds
<1>2. /\ Replayed(messages) = Synthesized(replay[L]).out /\ replay[0] = NoReplay
      /\ \A n \in 1..L : replay[n] = Replay(replay[n - 1], messages[n])
  BY <1>1 DEF Unfolds
<1>3. L \in Nat /\ L \in 0..L
  OBVIOUS
<1>4. Standing(messages, 0, NoReplay)
  <2>1. NoReplay \in ReplayState /\ NoReplay.owed = {} /\ NoReplay.out = <<>> /\ Len(<<>>) = 0
    BY DEF NoReplay, ReplayState
  <2>2. Closed(NoReplay)
    BY <2>1 DEF Closed, Placed, AnsweredTo
  <2> QED
    BY <2>2 DEF Standing
<1> DEFINE Odd == {n \in 0..L : ~Standing(messages, n, replay[n])}
<1>5. Odd = {}
  <2> SUFFICES ASSUME Odd # {} PROVE FALSE
    OBVIOUS
  <2>1. Odd \in SUBSET Nat
    BY <1>3
  <2>2. PICK n \in Odd : \A k \in Odd : n <= k
    <3> HIDE DEF Odd
    <3> QED
      BY <2>1, Least
  <2>3. n \in 0..L /\ n \in Nat /\ ~Standing(messages, n, replay[n])
    BY <1>3, <2>2
  <2>4. n # 0
    BY <1>2, <1>4, <2>3
  <2>5. n \in 1..L /\ n - 1 \in 0..L /\ n - 1 \notin Odd
    <3> HIDE DEF Odd
    <3> QED
      BY <1>3, <2>2, <2>3, <2>4
  <2>6. Standing(messages, n - 1, replay[n - 1])
    BY <2>5
  <2>7. Standing(messages, n, Replay(replay[n - 1], messages[n]))
    BY <2>5, <2>6, StandingStep
  <2> QED
    BY <1>2, <2>3, <2>5, <2>7
<1>6. Standing(messages, L, replay[L])
  BY <1>3, <1>5
<1>7. Closed(Synthesized(replay[L]))
  BY <1>3, <1>6, StandingCloses
<1> QED
  BY <1>2, <1>7 DEF Closed, ReplayState

-----------------------------------------------------------------------------
(* The loop's context.                                                     *)

\* Equal messages.
LEMMA SameMessages ==
    ASSUME NEW s \in Seq(Entry), NEW t \in Seq(Entry), Len(s) = Len(t),
           \A i \in 1..Len(s) : s[i] = t[i]
    PROVE  s = t
<1> HIDE DEF Entry
<1> QED
  BY SeqEqual

\* The loop reads what the transcript gets.
LEMMA ContextStep ==
    ASSUME AgentAssumption, IInv, ContextOK, Next
    PROVE  ContextOK'
<1> USE DEF IInv
<1> HIDE DEF TypeOK, ToolsOK, PendingOK, SteeringOK, BatchOK, AnsweredInOrder, ContextOK, Entry
<1>0. /\ transcript \in Seq(Entry) /\ context \in Seq(Entry) /\ Len(transcript) \in Nat
      /\ Len(context) \in Nat /\ tools.published \in Nat
  BY DEF TypeOK
<1>1. CASE \/ ThrowIfAborted \/ ModelStops \/ Throw \/ Stop \/ HandleRunFailure \/ FinishRun
           \/ PrepareRetry
  <2>1. pc' \in {"failed", "agent_end", "idle"}
    BY <1>1 DEF ThrowIfAborted, ModelStops, Throw, Stop, HandleRunFailure, FinishRun, PrepareRetry,
       Goto, run
  <2> QED
    BY <2>1 DEF ContextOK
<1>2. CASE \/ InitialPoll \/ TurnEnds \/ PollSteering \/ NextTurn \/ PollFollowUps \/ FollowUp
           \/ Continuation
  <2>1. UNCHANGED <<context, transcript>>
    BY <1>2 DEF InitialPoll, TurnEnds, PollSteering, NextTurn, PollFollowUps, FollowUp, Continuation
  <2>2. pc \in {"poll", "turn_end", "stop", "polled", "follow", "followed", "continue"}
        /\ pc' # "tools"
    BY <1>2 DEF InitialPoll, TurnEnds, PollSteering, NextTurn, PollFollowUps, FollowUp, Continuation,
       Goto
  <2> QED
    BY <2>1, <2>2 DEF ContextOK
<1>3. CASE Prompt \/ ContinueQueued \/ ContinueTranscript
  <2>1. context' = transcript /\ transcript' = transcript /\ pc' = "start"
    BY <1>3 DEF Prompt, ContinueQueued, ContinueTranscript, StartRun
  <2> QED
    BY <2>1 DEF ContextOK
<1>4. CASE \/ \E q \in Queues : Enqueue(q)
           \/ ClearAllQueues \/ \E q \in Queues : \E i \in DOMAIN queue[q] : RemoveQueuedMessages(q, i)
           \/ Abort \/ LaunchBatch \/ \E i \in Calls : PrepareToolCall(i) \/ ToolAborted(i)
           \/ \E c \in alive : ToolSettles(c[1], c[2])
  <2>1. UNCHANGED <<transcript, context, pc>>
    BY <1>4 DEF Enqueue, ClearAllQueues, RemoveQueuedMessages, Abort, LaunchBatch, PrepareToolCall,
            ToolAborted, ToolSettles, run
  <2>2. tools'.published = tools.published
    <3>1. CASE LaunchBatch
      BY <3>1, LaunchTypes
    <3>2. CASE \E i \in Calls : \E s \in Stages : Stage(i, s)
      BY <3>2, StageTypes
    <3>3. CASE UNCHANGED tools
      BY <3>3
    <3>4. {"done", "running", "prepared", "terminate"} \subseteq Stages /\ Finished \subseteq Stages
      BY DEF Stages, Finished
    <3> QED
      BY <1>4, <3>1, <3>2, <3>3, <3>4 DEF Enqueue, ClearAllQueues, RemoveQueuedMessages, Abort,
         PrepareToolCall, ToolAborted, ToolSettles, run
  <2> QED
    BY <2>1, <2>2 DEF ContextOK
<1>5. CASE EmitPrompts \/ StartTurn
  <2>1. pc \in {"start", "top"} /\ pc' \in {"poll", "stream"} /\ Say(pending)
    BY <1>5 DEF EmitPrompts, StartTurn, Goto
  <2> QED
    BY <2>1 DEF ContextOK, Say
<1>6. CASE ModelAnswers
  <2>1. PICK n \in 0..MaxCalls :
           /\ Say(<<Assistant(turn + 1, n, "stop")>>)
           /\ tools'.published = 0
    BY <1>6 DEF ModelAnswers
  <2>2. context = transcript /\ pc' \in {"turn_end", "tools"}
    BY <1>6 DEF ModelAnswers, Goto, ContextOK
  <2>3. context' = transcript'
    BY <2>1, <2>2 DEF Say
  <2>4. TypeOK'
    BY <1>6, TypeStep
  <2>5. Len(transcript') \in Nat
    BY <2>4 DEF TypeOK
  <2> QED
    BY <2>1, <2>2, <2>3, <2>5 DEF ContextOK
<1>7. CASE PublishResults
  <2> DEFINE n == Cardinality(Publishable)
  <2>1. n \in Nat /\ tools.published + n <= Len(tools.call) /\ pc = "tools" /\ pc' = "tools"
    BY <1>7, PublishTypes DEF PublishResults
  <2> DEFINE s == [k \in 1..n |-> ToolResult(turn, tools.published + k)]
  <2>2. transcript' = transcript \o s /\ tools' = [tools EXCEPT !.published = tools.published + n]
        /\ context' = context
    BY <1>7 DEF PublishResults
  <2>3. s \in Seq(Entry)
    BY <1>0, <2>1, ResultTypes
  <2> HIDE DEF n
  <2>4. Len(s) = n
    BY <2>1
  <2> HIDE DEF s
  <2>5. Len(transcript') = Len(transcript) + n /\ \A i \in 1..Len(transcript) : transcript'[i] = transcript[i]
    BY <1>0, <2>2, <2>3, <2>4, Joined
  <2>6. tools'.published = tools.published + n
    BY <2>2 DEF TypeOK
  <2>7. /\ Len(transcript) = Len(context) + tools.published
        /\ \A i \in 1..Len(context) : transcript[i] = context[i]
    BY <2>1 DEF ContextOK
  <2>8. \A i \in 1..Len(context) : i \in 1..Len(transcript)
    BY <1>0, <2>7
  <2>9. Len(transcript') = Len(context) + tools'.published
    BY <1>0, <2>1, <2>5, <2>6, <2>7
  <2> QED
    BY <2>1, <2>2, <2>5, <2>7, <2>8, <2>9 DEF ContextOK
<1>8. CASE EndBatch
  <2> DEFINE s == [k \in 1..tools.published |-> ToolResult(turn, k)]
  <2>1. context' = context \o s /\ transcript' = transcript /\ pc = "tools" /\ pc' = "turn_end"
    BY <1>8 DEF EndBatch, Goto
  <2>2. TypeOK'
    BY <1>8, TypeStep
  <2>3. context' \in Seq(Entry)
    BY <2>2 DEF TypeOK
  <2>4. s \in Seq(Entry) /\ Len(s) = tools.published
        /\ \A i \in 1..tools.published : s[i] = ToolResult(turn, i)
    <3>1. 0 \in Nat /\ 0 + tools.published <= Len(tools.call)
      BY <1>0 DEF TypeOK
    <3>2. [k \in 1..tools.published |-> ToolResult(turn, 0 + k)] \in Seq(Entry)
      BY <1>0, <2>1, <3>1, ResultTypes
    <3>3. [k \in 1..tools.published |-> ToolResult(turn, 0 + k)] = s
      BY <1>0
    <3> QED
      BY <1>0, <3>2, <3>3
  <2> HIDE DEF s
  <2>5. /\ Len(context') = Len(context) + tools.published
        /\ \A i \in 1..Len(context) : context'[i] = context[i]
        /\ \A i \in 1..tools.published : context'[Len(context) + i] = ToolResult(turn, i)
    <3>1. /\ Len(context \o s) = Len(context) + Len(s)
          /\ \A i \in 1..Len(context) : (context \o s)[i] = context[i]
          /\ \A i \in 1..Len(s) : (context \o s)[Len(context) + i] = s[i]
      <4>1. context \in Seq(Entry) /\ s \in Seq(Entry)
        BY <1>0, <2>4
      <4>2. \A i \in 1..Len(s) : (context \o s)[Len(context) + i] = s[i]
        BY SMTT(30), <4>1, Joined
      <4> QED
        BY SMTT(30), <4>1, <4>2, Joined
    <3> QED
      BY <2>1, <2>4, <3>1
  <2>6. /\ Len(transcript) = Len(context) + tools.published
        /\ \A i \in 1..Len(context) : transcript[i] = context[i]
    BY <2>1 DEF ContextOK
  <2>7. \A i \in 1..tools.published : transcript[Len(context) + i] = ToolResult(turn, i)
    <3>1. Batch = Len(context)
      BY <1>0, <2>6 DEF Batch
    <3> QED
      BY <2>1, <3>1 DEF BatchOK
  <2>8. ASSUME NEW i \in 1..Len(transcript)
        PROVE  transcript[i] = context'[i]
    <3>1. CASE i <= Len(context)
      BY <1>0, <2>5, <2>6, <3>1
    <3>2. CASE i > Len(context)
      <4>1. i - Len(context) \in 1..tools.published /\ Len(context) + (i - Len(context)) = i
        BY <1>0, <2>6, <3>2
      <4> QED
        BY <2>5, <2>7, <4>1
    <3> QED
      BY <1>0, <3>1, <3>2
  <2>9. transcript = context'
    BY <1>0, <2>3, <2>5, <2>6, <2>8, SameMessages
  <2> QED
    BY <2>1, <2>9 DEF ContextOK
<1> QED
  BY <1>1, <1>2, <1>3, <1>4, <1>5, <1>6, <1>7, <1>8 DEF Next, Loop, World, Owner

-----------------------------------------------------------------------------
(* Results and their answers.                                              *)

\* A result keeps its place behind its answer when the messages up to it stay.
LEMMA OwnedKept ==
    ASSUME AgentAssumption, NEW s \in Seq(Entry), NEW t \in Seq(Entry),
           NEW k \in 1..Len(s), s[k].role = "toolResult", Owned(s, k),
           \A i \in 1..k : t[i] = s[i]
    PROVE  Owned(t, k)
<1> DEFINE m == s[k]
           j == k - m.call
<1>1. m \in Entry
  <2> HIDE DEF Entry
  <2> QED
    OBVIOUS
<1> HIDE DEF Entry
<1>2. m.call \in Nat /\ m.call >= 1
  BY <1>1, SentFields DEF Sent
<1>3. k \in Nat /\ t[k] = m
  OBVIOUS
<1>4. /\ j >= 1 /\ s[j].role = "assistant" /\ s[j].stop = "stop"
      /\ s[j].id = m.id /\ m.call <= s[j].calls
      /\ \A i \in 1..m.call : s[j + i] = ToolResult(m.id, i)
  BY DEF Owned
<1>5. j \in 1..k /\ \A i \in 1..m.call : j + i \in 1..k
  BY SMTT(30), <1>2, <1>3, <1>4
<1>6. t[j] = s[j] /\ \A i \in 1..m.call : t[j + i] = s[j + i]
  BY <1>5
<1> QED
  BY <1>3, <1>4, <1>6 DEF Owned

\* Saying anything but results.
LEMMA OwnedSaid ==
    ASSUME AgentAssumption, TypeOK, OwnedResults(transcript), NEW s \in Seq(Entry),
           \A i \in 1..Len(s) : s[i].role # "toolResult",
           transcript' = transcript \o s
    PROVE  OwnedResults(transcript')
<1> HIDE DEF Entry
<1>1. transcript \in Seq(Entry) /\ Len(transcript) \in Nat /\ Len(s) \in Nat
  BY DEF TypeOK
<1>2. /\ transcript' \in Seq(Entry) /\ Len(transcript') = Len(transcript) + Len(s)
      /\ \A i \in 1..Len(transcript) : transcript'[i] = transcript[i]
      /\ \A i \in 1..Len(s) : transcript'[Len(transcript) + i] = s[i]
  BY <1>1, Joined
<1> SUFFICES ASSUME NEW k \in 1..Len(transcript'), transcript'[k].role = "toolResult"
             PROVE  Owned(transcript', k)
  BY DEF OwnedResults
<1>3. CASE k <= Len(transcript)
  <2>1. k \in 1..Len(transcript) /\ \A i \in 1..k : transcript'[i] = transcript[i]
    BY <1>1, <1>2, <1>3
  <2>2. transcript[k].role = "toolResult" /\ Owned(transcript, k)
    BY <2>1 DEF OwnedResults
  <2> QED
    BY <1>1, <1>2, <2>1, <2>2, OwnedKept
<1>4. CASE k > Len(transcript)
  <2>1. k - Len(transcript) \in 1..Len(s) /\ Len(transcript) + (k - Len(transcript)) = k
    BY <1>1, <1>2, <1>4
  <2>2. transcript'[k] = s[k - Len(transcript)]
    BY <1>2, <2>1
  <2> QED
    BY <2>1, <2>2
<1> QED
  BY <1>1, <1>3, <1>4

\* Every result that is published, said or kept has its answer.
LEMMA OwnedStep ==
    ASSUME AgentAssumption, IInv, OwnedResults(transcript), Next
    PROVE  OwnedResults(transcript')
<1> USE DEF IInv
<1> HIDE DEF TypeOK, ToolsOK, PendingOK, SteeringOK, BatchOK, AnsweredInOrder, Entry, OwnedResults
<1>0. transcript \in Seq(Entry) /\ pending \in Seq(Entry) /\ Len(transcript) \in Nat
  BY DEF TypeOK
<1>1. CASE UNCHANGED transcript
  BY <1>1
<1>2. CASE EmitPrompts \/ StartTurn
  <2>1. transcript' = transcript \o pending
    BY <1>2 DEF EmitPrompts, StartTurn, Say
  <2>2. \A i \in 1..Len(pending) : pending[i].role # "toolResult"
    BY DEF PendingOK
  <2> QED
    BY <1>0, <2>1, <2>2, OwnedSaid
<1>3. CASE ModelAnswers \/ ModelStops \/ HandleRunFailure
  <2>1. \E t \in 0..MaxTurns, n \in 0..MaxCalls, stop \in {"stop", "error", "aborted"} :
           transcript' = transcript \o <<Assistant(t, n, stop)>>
    <3>0. 0 \in 0..MaxTurns /\ 0 \in 0..MaxCalls /\ MaxCalls \in 0..MaxCalls
          /\ (IF aborted THEN "aborted" ELSE "error") \in {"stop", "error", "aborted"}
      BY DEF AgentAssumption
    <3>1. CASE ModelAnswers
      <4>1. turn + 1 \in 0..MaxTurns
        BY <3>1 DEF ModelAnswers, TypeOK, AgentAssumption
      <4>2. \E n \in 0..MaxCalls : transcript' = transcript \o <<Assistant(turn + 1, n, "stop")>>
        BY <3>1 DEF ModelAnswers, Say
      <4> QED
        BY <4>1, <4>2
    <3>2. CASE ModelStops
      <4>1. \E n \in {0, MaxCalls} :
               transcript' = transcript \o <<Assistant(0, n, IF aborted THEN "aborted" ELSE "error")>>
        BY <3>2 DEF ModelStops, Say
      <4> QED
        BY <3>0, <4>1
    <3>3. CASE HandleRunFailure
      <4>1. Assistant(0, 0, IF aborted THEN "aborted" ELSE "error") \in Entry
        BY <3>0, Entries
      <4>2. transcript' = transcript \o <<Assistant(0, 0, IF aborted THEN "aborted" ELSE "error")>>
        BY <1>0, <3>3, <4>1, AppendIsConcat DEF HandleRunFailure
      <4> QED
        BY <3>0, <4>2
    <3> QED
      BY <1>3, <3>1, <3>2, <3>3
  <2>2. PICK e \in Entry : e.role = "assistant" /\ transcript' = transcript \o <<e>>
    <3>1. PICK t \in 0..MaxTurns, n \in 0..MaxCalls, stop \in {"stop", "error", "aborted"} :
             transcript' = transcript \o <<Assistant(t, n, stop)>>
      BY <2>1
    <3>2. Assistant(t, n, stop) \in Entry /\ Assistant(t, n, stop).role = "assistant"
      BY Entries DEF Assistant
    <3> QED
      BY <3>1, <3>2
  <2>3. <<e>> \in Seq(Entry) /\ \A i \in 1..Len(<<e>>) : <<e>>[i].role # "toolResult"
    BY <2>2, OneEntry
  <2> QED
    BY <2>2, <2>3, OwnedSaid
<1>4. CASE PrepareRetry
  <2>1. PICK m \in Nat : Len(transcript) = m + 1
    <3>1. transcript # <<>>
      BY <1>4 DEF PrepareRetry, LastRole
    <3>2. Len(transcript) - 1 \in Nat /\ Len(transcript) = (Len(transcript) - 1) + 1
      BY <1>0, <3>1
    <3> QED
      BY <3>2
  <2>2. transcript' = SubSeq(transcript, 1, m)
    BY <1>4, <2>1 DEF PrepareRetry, Front
  <2>3. Len(transcript') = m /\ \A i \in 1..m : transcript'[i] = transcript[i]
    BY <1>0, <2>1, <2>2
  <2>4. transcript' \in Seq(Entry)
    <3>1. TypeOK'
      BY <1>4, TypeStep DEF Next, Owner
    <3> QED
      BY <3>1 DEF TypeOK
  <2> SUFFICES ASSUME NEW k \in 1..Len(transcript'), transcript'[k].role = "toolResult"
               PROVE  Owned(transcript', k)
    BY DEF OwnedResults
  <2>5. /\ k \in 1..Len(transcript) /\ transcript[k] = transcript'[k]
        /\ \A i \in 1..k : transcript'[i] = transcript[i]
    BY <2>1, <2>3
  <2>6. Owned(transcript, k)
    BY <2>5 DEF OwnedResults
  <2> QED
    BY <1>0, <2>4, <2>5, <2>6, OwnedKept
<1>5. CASE PublishResults
  <2> DEFINE n == Cardinality(Publishable)
             s == [k \in 1..n |-> ToolResult(turn, tools.published + k)]
             p == tools'.published
             B == Len(transcript) - tools.published
  <2>1. n \in Nat /\ tools.published + n <= Len(tools.call) /\ pc = "tools" /\ pc' = "tools"
        /\ tools.published \in Nat
    BY <1>5, PublishTypes DEF PublishResults, TypeOK
  <2>2. transcript' = transcript \o s /\ tools' = [tools EXCEPT !.published = tools.published + n]
        /\ turn' = turn
    BY <1>5 DEF PublishResults, bounds
  <2>3. s \in Seq(Entry)
    BY <2>1, ResultTypes
  <2> HIDE DEF n
  <2>4. Len(s) = n
    BY <2>1
  <2> HIDE DEF s
  <2>5. /\ transcript' \in Seq(Entry) /\ Len(transcript') = Len(transcript) + n
        /\ \A i \in 1..Len(transcript) : transcript'[i] = transcript[i]
    BY <1>0, <2>2, <2>3, <2>4, Joined
  <2>6. p = tools.published + n /\ tools'.call = tools.call
    BY <2>2 DEF TypeOK
  <2>7. BatchOK'
    BY <1>5, ResultsFollow
  <2>8. Batch' = B /\ Len(transcript) \in Nat /\ p \in Nat /\ B + p = Len(transcript')
    BY <1>0, <2>1, <2>5, <2>6 DEF Batch
  <2> HIDE DEF B, p
  <2>9. /\ B >= 1 /\ transcript'[B] = Assistant(turn, Len(tools.call), "stop")
        /\ \A i \in 1..p : transcript'[B + i] = ToolResult(turn, i)
    BY <2>1, <2>2, <2>6, <2>7, <2>8 DEF BatchOK, p
  <2>10. /\ turn \in Nat /\ Len(tools.call) \in Nat /\ p <= Len(tools.call) /\ B \in Nat
         /\ B + tools.published = Len(transcript)
    BY <1>0, <2>1, <2>6, <2>9 DEF TypeOK, B
  <2> SUFFICES ASSUME NEW k \in 1..Len(transcript'), transcript'[k].role = "toolResult"
               PROVE  Owned(transcript', k)
    BY DEF OwnedResults
  <2>11. CASE k <= Len(transcript)
    <3>1. k \in 1..Len(transcript) /\ \A i \in 1..k : transcript'[i] = transcript[i]
      BY <2>5, <2>8, <2>11
    <3>2. transcript[k].role = "toolResult" /\ Owned(transcript, k)
      BY <3>1 DEF OwnedResults
    <3> QED
      BY <1>0, <2>5, <3>1, <3>2, OwnedKept
  <2>12. CASE k > Len(transcript)
    <3>1. PICK i \in Nat : B + i = k /\ i \in 1..p /\ k - i = B
      <4>1. k - B \in Nat /\ B + (k - B) = k /\ k - B \in 1..p /\ k - (k - B) = B
        BY SMTT(30), <2>1, <2>8, <2>10, <2>12
      <4> QED
        BY <4>1
    <3>2. transcript'[k] = ToolResult(turn, i)
      BY <2>9, <3>1
    <3>3. transcript'[k].id = turn /\ transcript'[k].call = i
      BY <2>10, <3>2, ResultFields
    <3>4. /\ transcript'[B].role = "assistant" /\ transcript'[B].stop = "stop"
          /\ transcript'[B].id = turn /\ transcript'[B].calls = Len(tools.call)
      BY <2>9 DEF Assistant
    <3>5. i <= Len(tools.call) /\ \A h \in 1..i : h \in 1..p
      BY <2>8, <2>10, <3>1
    <3> QED
      BY <2>9, <3>1, <3>3, <3>4, <3>5 DEF Owned
  <2> QED
    BY <2>8, <2>11, <2>12
<1>6. \/ UNCHANGED transcript
      \/ EmitPrompts \/ StartTurn \/ ModelAnswers \/ ModelStops \/ HandleRunFailure
      \/ PrepareRetry \/ PublishResults
  BY DEF Next, Loop, World, Owner, Enqueue, ClearAllQueues, RemoveQueuedMessages, Abort, Prompt,
     ContinueQueued, ContinueTranscript, StartRun, InitialPoll, ThrowIfAborted, Throw,
     PrepareToolCall, LaunchBatch, ToolSettles, ToolAborted, EndBatch, Stop, TurnEnds,
     PollSteering, NextTurn, PollFollowUps, FollowUp, Continuation, FinishRun
<1> QED
  BY <1>1, <1>2, <1>3, <1>4, <1>5, <1>6

\* A new agent has said and read nothing,
LEMMA ReplayInit ==
    ASSUME Init
    PROVE  ReplayOK
BY DEF Init, ReplayOK, ContextOK, OwnedResults

\* and every step keeps context and results together.
LEMMA ReplayStep ==
    ASSUME AgentAssumption, IInv, ReplayOK, [Next]_vars
    PROVE  ReplayOK'
<1>1. CASE Next
  BY <1>1, ContextStep, OwnedStep DEF ReplayOK
<1>2. CASE UNCHANGED vars
  BY <1>2 DEF vars, run, ReplayOK, ContextOK
<1> QED
  BY <1>1, <1>2

\* What a request is made of answers its calls.
LEMMA RequestAnswers ==
    ASSUME AgentAssumption, TypeOK, ReplayOK
    PROVE  ModelSeesAnswers
<1> SUFFICES ASSUME pc = "stream"
             PROVE  /\ context = transcript
                    /\ LET prompt == Replayed(context) IN
                        /\ \A k \in DOMAIN prompt : prompt[k].role = "assistant" =>
                              prompt[k].calls \in Answers(prompt, k)
                        /\ \A k \in DOMAIN prompt : prompt[k].role = "toolResult" =>
                              \E j \in 1..k : /\ prompt[j].role = "assistant"
                                             /\ prompt[j].id = prompt[k].id
                                             /\ k - j = prompt[k].call
  BY DEF ModelSeesAnswers
<1>1. context = transcript
  BY DEF ReplayOK, ContextOK
<1>2. context \in Seq(Entry) /\ OwnedResults(context)
  BY <1>1 DEF ReplayOK, TypeOK
<1> DEFINE prompt == Replayed(context)
<1>3. prompt \in Seq(Sent) /\ AnsweredTo(prompt, Len(prompt)) /\ Placed(prompt)
  BY <1>2, ReplayCloses
<1> HIDE DEF prompt
<1>4. DOMAIN prompt = 1..Len(prompt)
  <2> HIDE DEF Sent
  <2> QED
    BY <1>3
<1>5. /\ \A k \in DOMAIN prompt : prompt[k].role = "assistant" =>
              prompt[k].calls \in Answers(prompt, k)
      /\ \A k \in DOMAIN prompt : prompt[k].role = "toolResult" =>
              \E j \in 1..k : /\ prompt[j].role = "assistant"
                             /\ prompt[j].id = prompt[k].id
                             /\ k - j = prompt[k].call
  BY <1>3, <1>4 DEF AnsweredTo, Placed
<1> QED
  BY <1>1, <1>5 DEF prompt

-----------------------------------------------------------------------------
(* The theorems.                                                           *)

\* The invariant holds of an agent that was just constructed,
LEMMA InitInv ==
    ASSUME AgentAssumption, Init
    PROVE  IInv
<1>1. transcript = <<>> /\ pending = <<>> /\ context = <<>> /\ Len(<<>>) = 0 /\ DOMAIN transcript = {}
  BY DEF Init
<1>2. tools = NoTools /\ NoTools.published = 0 /\ NoTools.call = <<>> /\ ~NoTools.sequential
      /\ alive = {} /\ pc = "idle" /\ cut = {} /\ turn = 0 /\ base = 0
  BY DEF Init, NoTools
<1>3. TypeOK
  <2>1. NoTools \in [sequential : BOOLEAN, call : Seq(Stages), published : Nat]
    BY DEF NoTools
  <2>2. /\ 0 \in 0..MaxBatches /\ 0 \in 0..MaxTurns /\ 0 \in 0..MaxRuns /\ 0 <= MaxCalls
        /\ mode \in [Queues -> Modes]
    BY DEF AgentAssumption, Init
  <2>3. <<>> \in Seq(1..MaxBatches) /\ <<>> \in Seq(Entry)
    <3> HIDE DEF Entry
    <3> QED
      OBVIOUS
  <2> HIDE DEF Entry
  <2>4. queue \in [Queues -> Seq(1..MaxBatches)] /\ base \in Nat
    BY <1>2, <2>3 DEF Init
  <2>5. tools \in [sequential : BOOLEAN, call : Seq(Stages), published : Nat]
        /\ tools.published <= Len(tools.call) /\ Len(tools.call) <= MaxCalls
    BY <1>1, <1>2, <2>1, <2>2
  <2>6. cut \subseteq 0..MaxTurns /\ alive \subseteq (1..MaxTurns) \X (1..MaxCalls)
    BY <1>2
  <2>7. mode \in [Queues -> Modes] /\ pc = "idle" /\ aborted \in BOOLEAN /\ skipPoll \in BOOLEAN
        /\ more \in BOOLEAN
    BY <2>2 DEF Init
  <2>8. sent \in 0..MaxBatches /\ turn \in 0..MaxTurns /\ runs \in 0..MaxRuns
    BY <2>2 DEF Init
  <2> QED
    BY <1>1, <2>3, <2>4, <2>5, <2>6, <2>7, <2>8 DEF TypeOK
<1>4. ToolsOK
  BY <1>1, <1>2 DEF ToolsOK
<1>5. PendingOK
  BY <1>1, <1>2 DEF PendingOK
<1>6. SteeringOK
  BY <1>1, <1>2 DEF SteeringOK, SteeredApart, PendingSteering
<1>7. BatchOK /\ AnsweredInOrder
  BY <1>1, <1>2 DEF BatchOK, AnsweredInOrder
<1> QED
  BY <1>3, <1>4, <1>5, <1>6, <1>7 DEF IInv

\* and every step keeps it.
LEMMA InvStep ==
    ASSUME AgentAssumption, IInv, [Next]_vars
    PROVE  IInv'
<1>1. CASE Next
  BY <1>1, TypeStep, ToolsStep, PendingStep, SteeringStep, AnswersStep DEF IInv
<1>2. CASE UNCHANGED vars
  <2>1. TypeOK'
    BY <1>2 DEF vars, run, bounds, history, IInv, TypeOK
  <2>2. ToolsOK' /\ PendingOK'
    BY <1>2 DEF vars, run, bounds, history, IInv, ToolsOK, PendingOK
  <2>3. SteeringOK'
    BY <1>2 DEF vars, run, bounds, history, IInv, SteeringOK, SteeredApart, Unsteered, UserTail,
       Answered, PendingSteering
  <2>4. BatchOK' /\ AnsweredInOrder'
    BY <1>2 DEF vars, run, bounds, history, IInv, BatchOK, Batch, IsAnswer, AnsweredInOrder
  <2> QED
    BY <2>1, <2>2, <2>3, <2>4 DEF IInv
<1> QED
  BY <1>1, <1>2

\* The inductive invariant of the agent (agent.ts, agent-loop.ts).
THEOREM AgentInvariant == Spec => []IInv
BY InitInv, InvStep, AgentAssumption, PTL DEF Spec

\* The fields of an agent and the locals of its loop keep their types.
THEOREM AgentTypeOK == Spec => []TypeOK
<1>1. IInv => TypeOK
  BY DEF IInv
<1> QED
  BY <1>1, AgentInvariant, PTL

\* Whatever order tools end in, and whatever aborts, fails or is steered, the
\* results of an answer's calls stand behind it in call order, and all of them
\* unless an abort hit the batch (executeToolCalls*, runLoop).
THEOREM ResultsInOrder == Spec => []AnsweredInOrder
<1>1. IInv => AnsweredInOrder
  BY DEF IInv
<1> QED
  BY <1>1, AgentInvariant, PTL

\* A queue drained one message at a time steers a turn at most once
\* (skipInitialSteeringPoll).
THEOREM TurnsAreSteeredOnce == Spec => []OneSteeringPerTurn
<1>1. IInv => OneSteeringPerTurn
  BY DEF IInv, SteeringOK, SteeredApart, OneSteeringPerTurn
<1> QED
  BY <1>1, AgentInvariant, PTL

\* No run ends, and no turn, over a tool it waits for (Promise.all in
\* executeToolCallsParallel).
THEOREM ToolsAreAwaited == Spec => []OnlyAbortsLeaveTools
<1>1. IInv => OnlyAbortsLeaveTools
  BY DEF IInv, ToolsOK, OnlyAbortsLeaveTools
<1> QED
  BY <1>1, AgentInvariant, PTL

\* What was queued or drained stays queued, pending or said, unless the run is
\* aborted or the owner takes it back (runLoop, Agent.continue).
THEOREM MessagesAreKept == Spec => KeepsMessages
<1>1. Spec => [][Next]_vars
  BY PTL DEF Spec
<1>2. IInv /\ [Next]_vars =>
        [\/ \A b \in 1..MaxBatches : Held(b) => Held(b)'
         \/ aborted
         \/ ClearAllQueues
         \/ \E q \in Queues : \E i \in DOMAIN queue[q] : RemoveQueuedMessages(q, i)]_vars
  BY KeepsStep, AgentAssumption
<1> QED
  BY <1>1, <1>2, AgentInvariant, PTL DEF KeepsMessages

\* The loop reads its transcript, and every result in it stands behind its
\* answer (agent-loop.ts, Agent.continue and AgentSession's retry).
THEOREM ContextIsTranscript == Spec => []ReplayOK
BY ReplayInit, ReplayStep, AgentInvariant, AgentAssumption, PTL DEF Spec

\* A request holds the transcript, and answers every tool call in it at once
\* and in order (streamAssistantResponse, transformMessages).
THEOREM RequestsAnswerCalls == Spec => []ModelSeesAnswers
<1>1. TypeOK /\ ReplayOK => ModelSeesAnswers
  BY RequestAnswers, AgentAssumption
<1> QED
  BY <1>1, AgentTypeOK, ContextIsTranscript, PTL
=============================================================================
