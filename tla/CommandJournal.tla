--------------------------- MODULE CommandJournal ---------------------------
(***************************************************************************)
(* Mutating commands at the daemon's supervisor: the client that resends   *)
(* what it has no answer to, handleLine and the drain before an update     *)
(* restart, and the append-only CommandRecoveryJournal between them.       *)
(*                                                                         *)
(* One generation of the supervisor owns the registry: what fences off an  *)
(* older one is the subject of Supervision.                                *)
(***************************************************************************)
EXTENDS Naturals, SequencesExt

CONSTANTS
    Commands,       \* clientId + commandId keys; every command is a mutation
    None,
    CompactAfter,   \* COMPACT_AFTER_RECORDS
    MaxCrashes,     \* bound: crashes of the supervisor
    MaxDrops,       \* bound: connections lost otherwise
    Tears           \* which of the crashes may cut an append short

ASSUME JournalAssumption ==
    /\ None \notin Commands /\ IsFiniteSet(Commands)
    /\ CompactAfter \in Nat \ {0} /\ MaxCrashes \in Nat /\ MaxDrops \in Nat
    /\ Tears \subseteq 1..MaxCrashes

VARIABLES
    disk,           \* the lines of the journal file
    torn,           \* its last line has no newline
    up,             \* a supervisor runs
    entries,        \* CommandRecoveryJournal.entries
    count,          \* CommandRecoveryJournal.recordCount
    handler,        \* the handleLine of each command, past `begin`
    attached,       \* the handlers whose client is still connected
    draining,       \* updateRestartPhase
    connected, wire, reply, acks,       \* the socket
    client, outcome,                    \* DaemonClient.pendingRequests
    dispatches,     \* how often handleCommand was called for a command
    crashes, drops

journal == <<disk, torn, entries, count>>
daemon == <<up, handler, attached, draining, dispatches>>
socket == <<connected, wire, reply, acks>>
caller == <<client, outcome>>
bounds == <<crashes, drops>>
vars == <<journal, daemon, socket, caller, bounds>>

Line(kind, c) == [kind |-> kind, cmd |-> c]
Garbage == Line("garbage", None)
Entry == {"none", "pending", "complete"}
Answer == {"result", "uncertain", "refused", "failed"}

Init ==
    /\ disk = <<>> /\ torn = FALSE /\ up = TRUE /\ count = 0
    /\ entries = [c \in Commands |-> "none"]
    /\ handler = [c \in Commands |-> "none"] /\ attached = {} /\ draining = FALSE
    /\ connected = TRUE /\ wire = {} /\ acks = {}
    /\ reply = [c \in Commands |-> "none"]
    /\ client = [c \in Commands |-> "idle"]
    /\ outcome = [c \in Commands |-> "none"]
    /\ dispatches = [c \in Commands |-> 0]
    /\ crashes = 0 /\ drops = 0

-----------------------------------------------------------------------------
(* The journal.                                                            *)

\* A record appended to a file without a final newline joins its last line.
Appended(line) ==
    IF torn THEN [disk EXCEPT ![Len(disk)] = Garbage] ELSE Append(disk, line)

\* The entry that load() finds for a command: its last receipt that is not
\* acknowledged, with the result recorded since.
Recovered(lines, c) ==
    LET receipts == {i \in DOMAIN lines :
                        /\ lines[i] = Line("received", c)
                        /\ \A j \in DOMAIN lines : j > i =>
                              lines[j] \notin {Line("received", c), Line("acknowledged", c)}}
    IN  CASE receipts = {} -> "none"
          [] \E i \in receipts, j \in DOMAIN lines :
                j > i /\ lines[j] = Line("result", c) -> "complete"
          [] OTHER -> "pending"

\* Mutant: compaction forgets the results.
CompactedReceipts(es) ==
    [i \in 1..Cardinality({c \in Commands : es[c] # "none"}) |->
        Line("received", SetToSeq({c \in Commands : es[c] # "none"})[i])]

\* What compact() writes for the entries es.  Lines of different commands do not
\* touch each other, so the results stand behind all receipts here.
Compacted(es) ==
    LET known == SetToSeq({c \in Commands : es[c] # "none"})
        complete == SetToSeq({c \in Commands : es[c] = "complete"})
    IN  [i \in DOMAIN known |-> Line("received", known[i])]
        \o [i \in DOMAIN complete |-> Line("result", complete[i])]

\* append() and the entries it leads to, and compact() where the caller asks.
Journal(line, es, compact) ==
    /\ entries' = es
    /\ IF compact
       THEN disk' = Compacted(es) /\ torn' = FALSE /\ count' = Len(Compacted(es))
       ELSE disk' = Appended(line) /\ torn' = FALSE /\ count' = count + 1

-----------------------------------------------------------------------------
(* The client.                                                             *)

Send(c) ==
    /\ client[c] = "idle" /\ connected
    /\ client' = [client EXCEPT ![c] = "waiting"]
    /\ wire' = wire \cup {c}
    /\ UNCHANGED <<journal, daemon, connected, reply, acks, outcome, bounds>>

\* Every mutation that is answered is acknowledged, whatever the answer.
Deliver(c) ==
    /\ connected /\ reply[c] # "none"
    /\ reply' = [reply EXCEPT ![c] = "none"]
    /\ IF client[c] = "waiting"
       THEN /\ client' = [client EXCEPT ![c] = "answered"]
            /\ outcome' = [outcome EXCEPT ![c] = reply[c]]
            /\ acks' = acks \cup {c}
       ELSE UNCHANGED <<client, outcome, acks>>
    /\ UNCHANGED <<journal, daemon, connected, wire, bounds>>

\* The request's timer, or the end of the reconnection attempts.
GiveUp(c) ==
    /\ client[c] = "waiting"
    /\ client' = [client EXCEPT ![c] = "gaveUp"]
    /\ UNCHANGED <<journal, daemon, socket, outcome, bounds>>

Disconnected ==
    /\ connected' = FALSE /\ wire' = {} /\ acks' = {}
    /\ reply' = [c \in Commands |-> "none"]

Drop ==
    /\ connected /\ drops < MaxDrops /\ drops' = drops + 1
    /\ Disconnected /\ attached' = {}
    /\ UNCHANGED <<journal, up, handler, draining, dispatches, caller, crashes>>

\* The new connection's hello: whatever has no answer yet is sent once more.
Reconnect ==
    /\ up /\ ~connected /\ connected' = TRUE
    /\ wire' = {c \in Commands : client[c] = "waiting"}
    /\ UNCHANGED <<journal, daemon, reply, acks, caller, bounds>>

-----------------------------------------------------------------------------
(* handleLine.                                                             *)

Received(c) == up /\ c \in wire /\ wire' = wire \ {c}
Replies(c, answer) ==
    /\ reply' = [reply EXCEPT ![c] = answer]
    /\ UNCHANGED <<journal, daemon, connected, acks, caller, bounds>>

Replay(c) == Received(c) /\ entries[c] = "complete" /\ Replies(c, "result")
Uncertain(c) == Received(c) /\ entries[c] = "pending" /\ Replies(c, "uncertain")
\* Mutant: the update restart is looked at before the journal.
RefuseFirst(c) == Received(c) /\ draining /\ Replies(c, "refused")
Refuse(c) == Received(c) /\ entries[c] = "none" /\ draining /\ Replies(c, "refused")

CanBegin(c) == up /\ c \in wire /\ entries[c] = "none" /\ ~draining

\* Mutant: the receipt is kept in memory only.
BeginUnjournaled(c) ==
    /\ CanBegin(c) /\ Received(c)
    /\ entries' = [entries EXCEPT ![c] = "pending"]
    /\ handler' = [handler EXCEPT ![c] = "admitted"] /\ attached' = attached \cup {c}
    /\ UNCHANGED <<disk, torn, count, up, draining, dispatches, connected, reply, acks, caller,
                   bounds>>

\* The receipt is durable; the handler may still wait for the eviction fence.
Begin(c) ==
    /\ CanBegin(c) /\ Received(c)
    /\ Journal(Line("received", c), [entries EXCEPT ![c] = "pending"], FALSE)
    /\ handler' = [handler EXCEPT ![c] = "admitted"] /\ attached' = attached \cup {c}
    /\ UNCHANGED <<up, draining, dispatches, connected, reply, acks, caller, bounds>>

Dispatch(c) ==
    /\ handler[c] = "admitted"
    /\ handler' = [handler EXCEPT ![c] = "working"]
    /\ dispatches' = [dispatches EXCEPT ![c] = @ + 1]
    /\ UNCHANGED <<journal, up, attached, draining, socket, caller, bounds>>

\* handleCommand returns or throws: its response is recorded, then written.  If
\* the entry has been acknowledged meanwhile, recordResult throws.
Finish(c) ==
    /\ handler[c] = "working"
    /\ handler' = [handler EXCEPT ![c] = "none"] /\ attached' = attached \ {c}
    /\ LET known == entries[c] # "none"
       IN  /\ IF known
              THEN Journal(Line("result", c), [entries EXCEPT ![c] = "complete"],
                           count + 1 >= CompactAfter)
              ELSE UNCHANGED journal
           /\ reply' = IF c \in attached
                       THEN [reply EXCEPT ![c] = IF known THEN "result" ELSE "failed"]
                       ELSE reply
    /\ UNCHANGED <<up, draining, dispatches, connected, wire, acks, caller, bounds>>

\* ack_result.
Acknowledge(c) ==
    /\ up /\ c \in acks /\ acks' = acks \ {c}
    /\ LET es == [entries EXCEPT ![c] = "none"]
       IN  IF entries[c] = "none"
           THEN UNCHANGED journal
           ELSE Journal(Line("acknowledged", c), es,
                        count + 1 >= CompactAfter \/ \A d \in Commands : es[d] = "none")
    /\ UNCHANGED <<daemon, connected, wire, reply, caller, bounds>>

-----------------------------------------------------------------------------
(* The life of the supervisor.                                             *)

\* prepareUpdateRestart, and its failure.
Drain ==
    /\ up /\ draining' = ~draining
    /\ UNCHANGED <<journal, up, handler, attached, dispatches, socket, caller, bounds>>

\* The process is gone, and with it what it knew.
Dies ==
    /\ up' = FALSE /\ draining' = FALSE /\ Disconnected
    /\ entries' = [c \in Commands |-> "none"] /\ count' = 0
    /\ handler' = [c \in Commands |-> "none"] /\ attached' = {}
    /\ UNCHANGED <<dispatches, caller, drops>>

\* Mutant: the restart does not wait for the mutations in flight.
StopUndrained == up /\ draining /\ Dies /\ UNCHANGED <<disk, torn, crashes>>

\* The update restart, once MutationDrainLatch has let it go on.
Stop ==
    /\ up /\ draining /\ \A c \in Commands : handler[c] = "none"
    /\ Dies /\ UNCHANGED <<disk, torn, crashes>>

\* The appends a crash may interrupt.
Appending ==
    {Line("received", c) : c \in {x \in Commands : CanBegin(x)}}
    \cup {Line("result", c) : c \in {x \in Commands : /\ handler[x] = "working"
                                                      /\ entries[x] # "none"}}
    \cup {Line("acknowledged", c) : c \in {x \in acks : entries[x] # "none"}}

Crash ==
    /\ up /\ crashes < MaxCrashes /\ crashes' = crashes + 1
    /\ \/ UNCHANGED <<disk, torn>>
       \/ \E line \in Appending :
             /\ disk' \in {Appended(line), Appended(Garbage)}
             /\ torn' \in BOOLEAN
             /\ (torn' \/ disk' # Appended(line)) => torn' /\ crashes' \in Tears
    /\ Dies

\* A new supervisor loads the journal.
Start ==
    /\ ~up /\ up' = TRUE
    /\ entries' = [c \in Commands |-> Recovered(disk, c)]
    /\ count' = Cardinality({i \in DOMAIN disk : disk[i] # Garbage})
    /\ UNCHANGED <<disk, torn, handler, attached, draining, dispatches, socket, caller, bounds>>

Next ==
    \/ \E c \in Commands :
          \/ Send(c) \/ Deliver(c) \/ GiveUp(c)
          \/ Replay(c) \/ Uncertain(c) \/ Refuse(c) \/ Begin(c) \/ Dispatch(c) \/ Finish(c)
          \/ Acknowledge(c)
    \/ Drop \/ Reconnect \/ Drain \/ Stop \/ Crash \/ Start

Spec == Init /\ [][Next]_vars

-----------------------------------------------------------------------------

Lines == [kind : {"received", "result", "acknowledged", "garbage"}, cmd : Commands \cup {None}]

TypeOK ==
    /\ disk \in Seq(Lines) /\ torn \in BOOLEAN /\ (torn => disk # <<>>)
    /\ entries \in [Commands -> Entry] /\ count \in Nat
    /\ up \in BOOLEAN /\ draining \in BOOLEAN /\ connected \in BOOLEAN
    /\ handler \in [Commands -> {"none", "admitted", "working"}] /\ attached \subseteq Commands
    /\ wire \subseteq Commands /\ acks \subseteq Commands
    /\ reply \in [Commands -> Answer \cup {"none"}]
    /\ client \in [Commands -> {"idle", "waiting", "answered", "gaveUp"}]
    /\ outcome \in [Commands -> Answer \cup {"none"}]
    /\ dispatches \in [Commands -> Nat] /\ crashes \in Nat /\ drops \in Nat

\* docs/daemon.md: "A received command without a durable result is reported as
\* uncertain and is not replayed": resending never runs a command twice.
DispatchedOnce == \A c \in Commands : dispatches[c] <= 1

\* Whatever retries, restarts and refusals happened on the way, who is told a
\* result had the command run, once, and who is refused did not and will not.
AnswersAreTrue ==
    \A c \in Commands : /\ outcome[c] = "result" => dispatches[c] = 1
                        /\ outcome[c] = "refused" => dispatches[c] = 0

\* What the next supervisor would load is what this one knows, compactions,
\* acknowledgements and late results included.
MemoryOnDisk == up => \A c \in Commands : entries[c] = Recovered(disk, c)

\* An update restart never makes a command uncertain: mutations are drained
\* before the supervisor stops, and new ones are refused unrecorded.
UncertainNeedsALoss == \A c \in Commands : outcome[c] = "uncertain" => crashes + drops > 0
=============================================================================
