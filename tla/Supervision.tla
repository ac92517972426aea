----------------------------- MODULE Supervision -----------------------------
(* The supervisors of one daemon socket, one after the other, and the       *)
(* session worker they look after: who owns the registry entry, how a       *)
(* successor takes over, how the worker is adopted, recovered and fenced.   *)
(* Sources: modes/daemon/daemon-supervisor.ts, daemon-supervisor-ownership.ts, *)
(* daemon-socket.ts, daemon-mode.ts, daemon-worker-protocol.ts.             *)
(* One worker stands for each: they meet only at the socket. Sections under *)
(* the registry guard are atomic, killing takes effect at once. Left out:   *)
(* intentional stops (tombstones, owner cleanup, eviction), shutdown with   *)
(* its workers, update fences and the effects of an admission's holder.     *)
EXTENDS Naturals, FiniteSets

CONSTANTS
    Supervisors,    \* supervisor processes; one that left no trace may return
    Processes,      \* processes of the worker
    MaxTries,       \* the number of WORKER_RETRY_DELAYS_MS
    MaxFaults,      \* bound: crashes, signals and shutdown admissions
    None, Gone      \* nobody; the process of a descriptor, long dead

ASSUME SupervisionAssumption ==
    /\ {None, Gone} \cap (Supervisors \cup Processes) = {} /\ None # Gone
    /\ Supervisors \cap Processes = {}
    /\ MaxTries \in Nat \ {0} /\ MaxFaults \in Nat

VARIABLES
    sup,        \* each supervisor: how far it is, and with the worker
    worker,     \* each worker process: state, bound supervisor, watch timer
    lease,      \* holder of the lock on the socket path
    owner,      \* the record in the registry
    sock,       \* the supervisor that bound the socket file
    desc,       \* the process the worker's descriptor names
    admission,  \* a shutdown admission is active
    mail,       \* what each worker process has yet to read from its sockets
    latest,     \* ghost: the last supervisor to acquire the ownership
    stray,      \* ghost: what was done for a supervisor that owned nothing
    faults

registry == <<lease, owner, sock, admission>>
ghosts == <<latest, stray>>
vars == <<sup, worker, registry, desc, mail, ghosts, faults>>

Starting == {"boot", "leased", "owning", "prepared"}
Open == {"listening", "serving"}
Closing == {"stopping", "closed", "unleased"}
Phases == {"dead"} \cup Starting \cup Open \cup Closing
\* What a supervisor is doing about the worker; "none" also when it gave it up.
Steps == {"none", "adopt", "connect", "knocked", "ready", "recover", "spawn",
          "record", "commit", "deferred", "failed"}
\* Who asked for the connection to the worker.
Modes == {"adopt", "create", "recover", "launch"}
NoSup == [phase |-> "dead", step |-> "none", mode |-> "adopt", tries |-> 0,
          kid |-> None, conn |-> FALSE, checked |-> FALSE]
NoWorker == [st |-> "dead", bound |-> None, watch |-> "idle"]

SupState ==
    [phase : Phases, step : Steps, mode : Modes, tries : Nat,
     kid : Processes \cup {None}, conn : BOOLEAN, checked : BOOLEAN]
WorkerState ==
    [st : {"dead", "gated", "running"}, bound : Supervisors \cup {None},
     watch : {"idle", "armed", "launch", "content"}]
Mail == [from : Supervisors, what : {"auth", "command"}]

TypeOK ==
    /\ sup \in [Supervisors -> SupState] /\ worker \in [Processes -> WorkerState]
    /\ lease \in Supervisors \cup {None} /\ owner \in Supervisors \cup {None}
    /\ sock \in Supervisors \cup {None} /\ latest \in Supervisors \cup {None}
    /\ desc \in Processes \cup {None, Gone} /\ admission \in BOOLEAN /\ faults \in Nat
    /\ mail \in [Processes -> SUBSET Mail] /\ stray \subseteq {"command", "result"}

Init ==
    /\ sup = [s \in Supervisors |-> NoSup]
    /\ worker = [p \in Processes |-> NoWorker]
    /\ lease = None /\ owner = None /\ sock = None /\ desc = None
    /\ admission = FALSE /\ mail = [p \in Processes |-> {}]
    /\ latest = None /\ stray = {} /\ faults = 0

-----------------------------------------------------------------------------
Alive(s) == s # None /\ sup[s].phase # "dead"
Running(p) == p \in Processes /\ worker[p].st = "running"
ProcessAlive(p) == p \in Processes /\ worker[p].st # "dead"
Connectable == sock # None /\ sup[sock].phase \in Open \cup {"stopping"}

\* assertDaemonSupervisorOwnerCurrent: the claim is the record, its process lives.
ClaimCurrent(s) == owner = s /\ Alive(s)
\* ownership.assertCurrent; shutdown forgets the ownership before it releases it.
OwnsNow(s) == owner = s /\ sup[s].phase # "unleased"
Cancelled(s) == ~OwnsNow(s) \/ admission

Set(s, r) == sup' = [sup EXCEPT ![s] = r]
Step(s, to) == Set(s, [sup[s] EXCEPT !.step = to])
Left(s) == [sup[s] EXCEPT !.step = "none", !.kid = None, !.conn = FALSE]
Faulty == faults < MaxFaults /\ faults' = faults + 1

\* A dead supervisor that nothing mentions any more stands for a new process.
Fresh(s) ==
    /\ ~Alive(s) /\ s \notin {lease, owner, sock, latest}
    /\ \A p \in Processes : worker[p].bound # s /\ \A m \in mail[p] : m.from # s
FreshProcess(q) == ~ProcessAlive(q) /\ q # desc /\ \A s \in Supervisors : sup[s].kid # q

-----------------------------------------------------------------------------
(* Starting: lease, ownership, socket.                                     *)

Boot(s) == Fresh(s) /\ Set(s, [NoSup EXCEPT !.phase = "boot"])

\* A client that finds no daemon starts one.
ClientLaunches(s) ==
    /\ ~Connectable /\ Boot(s)
    /\ UNCHANGED <<worker, registry, desc, mail, ghosts, faults>>

\* acquireDaemonSocketPathLease: the lock of a dead holder goes stale.
TakeLease(s) ==
    /\ sup[s].phase = "boot" /\ ~Alive(lease)
    /\ lease' = s
    /\ Set(s, [sup[s] EXCEPT !.phase = "leased"])
    /\ UNCHANGED <<worker, owner, sock, admission, desc, mail, ghosts, faults>>

\* start gives up: the lock is held, shutdown is admitted, the owner lives, the
\* socket answers, or the adoption of the worker was cancelled at once.
StartFails(s) ==
    /\ \/ sup[s].phase = "boot" /\ Alive(lease)
       \/ sup[s].phase = "leased" /\ (admission \/ Alive(owner))
       \/ sup[s].phase = "owning" /\ Connectable
       \/ sup[s].phase = "listening" /\ sup[s].step = "adopt" /\ admission
    /\ Set(s, [Left(s) EXCEPT !.phase = "stopping"])
    /\ UNCHANGED <<worker, registry, desc, mail, ghosts, faults>>

\* Mutant: the process of the registered owner is not looked at.
AcquireAnyway(s) ==
    /\ sup[s].phase = "leased" /\ ~admission
    /\ owner' = s /\ latest' = s
    /\ Set(s, [sup[s] EXCEPT !.phase = "owning"])
    /\ UNCHANGED <<worker, lease, sock, admission, desc, mail, stray, faults>>

\* acquireDaemonSupervisorOwnership, one section under the registry guard.
Acquire(s) ==
    /\ sup[s].phase = "leased" /\ ~admission /\ ~Alive(owner)
    /\ owner' = s /\ latest' = s
    /\ Set(s, [sup[s] EXCEPT !.phase = "owning"])
    /\ UNCHANGED <<worker, lease, sock, admission, desc, mail, stray, faults>>

\* prepareDaemonSocketPath: a socket file nobody answers on is unlinked.
Prepare(s) ==
    /\ sup[s].phase = "owning" /\ ~Connectable
    /\ sock' = None
    /\ Set(s, [sup[s] EXCEPT !.phase = "prepared"])
    /\ UNCHANGED <<worker, lease, owner, admission, desc, mail, ghosts, faults>>

Listen(s) ==
    /\ sup[s].phase = "prepared"
    /\ sock' = s
    /\ Set(s, [sup[s] EXCEPT !.phase = "listening", !.mode = "adopt",
                             !.step = IF desc = None THEN "none" ELSE "adopt"])
    /\ UNCHANGED <<worker, lease, owner, admission, desc, mail, ghosts, faults>>

\* updatePhase("owner") and markReady, after the adoption has come to an end.
Serve(s) ==
    /\ sup[s].phase = "listening" /\ OwnsNow(s)
    /\ sup[s].step \in {"none", "ready", "deferred", "failed"}
    /\ Set(s, [sup[s] EXCEPT !.phase = "serving"])
    /\ UNCHANGED <<worker, registry, desc, mail, ghosts, faults>>

-----------------------------------------------------------------------------
(* Ending: cleanupSupervisorResources and shutdown without its workers.    *)

Signal(s) ==
    /\ sup[s].phase \in Open /\ Faulty
    /\ Set(s, IF sup[s].step \in {"ready", "deferred"}
              THEN [Left(s) EXCEPT !.phase = "stopping"]
              ELSE [sup[s] EXCEPT !.phase = "stopping"])
    /\ UNCHANGED <<worker, registry, desc, mail, ghosts>>

\* Mutant: a supervisor that never listened cleans the path up as well.
CloseSocketOfAnyone(s) ==
    /\ sup[s].phase = "stopping"
    /\ sock' = None
    /\ Set(s, [sup[s] EXCEPT !.phase = "closed"])
    /\ UNCHANGED <<worker, lease, owner, admission, desc, mail, ghosts, faults>>

\* The server is closed; only the socket file it made is unlinked.
CloseSocket(s) ==
    /\ sup[s].phase = "stopping"
    /\ sock' = IF sock = s THEN None ELSE sock
    /\ Set(s, [sup[s] EXCEPT !.phase = "closed"])
    /\ UNCHANGED <<worker, lease, owner, admission, desc, mail, ghosts, faults>>

ReleaseLease(s) ==
    /\ sup[s].phase = "closed"
    /\ lease' = IF lease = s THEN None ELSE lease
    /\ Set(s, [sup[s] EXCEPT !.phase = "unleased"])
    /\ UNCHANGED <<worker, owner, sock, admission, desc, mail, ghosts, faults>>

\* The owner record is released under the guard, and the process exits.
Exit(s) ==
    /\ sup[s].phase = "unleased" /\ ~sup[s].checked
    /\ owner' = IF owner = s THEN None ELSE owner
    /\ Set(s, NoSup)
    /\ UNCHANGED <<worker, lease, sock, admission, desc, mail, ghosts, faults>>

\* Lock, owner record and socket file stay behind.
Crash(s) ==
    /\ Alive(s) /\ Faulty /\ Set(s, NoSup)
    /\ UNCHANGED <<worker, registry, desc, mail, ghosts>>

-----------------------------------------------------------------------------
(* The supervisor and its worker.                                          *)

\* A create command of a client: launchWorker without an existing worker.
Create(s) ==
    /\ sup[s].phase = "serving" /\ desc = None /\ sup[s].step = "none"
    /\ ~Cancelled(s)
    /\ Set(s, [sup[s] EXCEPT !.step = "spawn", !.mode = "create"])
    /\ UNCHANGED <<worker, registry, desc, mail, ghosts, faults>>

\* adoptOrRecoverWorker.
Adopt(s) ==
    /\ sup[s].phase \in Open \cup Closing /\ sup[s].step = "adopt" /\ ~Cancelled(s)
    /\ IF ProcessAlive(desc) THEN Step(s, "connect")
       ELSE Set(s, [sup[s] EXCEPT !.step = "recover", !.tries = 0])
    /\ UNCHANGED <<worker, registry, desc, mail, ghosts, faults>>

\* connectWorker: connect, and present the claim.
Knock(s) ==
    /\ sup[s].step = "connect" /\ ~Cancelled(s) /\ Running(desc) /\ worker[desc].bound # s
    /\ Set(s, [sup[s] EXCEPT !.step = "knocked", !.conn = TRUE])
    /\ mail' = [mail EXCEPT ![desc] = @ \cup {[from |-> s, what |-> "auth"]}]
    /\ UNCHANGED <<worker, registry, desc, ghosts, faults>>

Attach(s) ==
    /\ sup[s].step = "knocked" /\ worker[desc].bound = s /\ ~Cancelled(s)
    /\ Step(s, "ready")
    /\ UNCHANGED <<worker, registry, desc, mail, ghosts, faults>>


Killed(p) == IF p \in Processes THEN [worker EXCEPT ![p] = NoWorker] ELSE worker
Emptied(p) == IF p \in Processes THEN [mail EXCEPT ![p] = {}] ELSE mail

\* What follows a connection that failed, by the caller of connectWorker.
AfterFailure(r) ==
    CASE r.mode = "create" -> [r EXCEPT !.step = "none"]
      [] r.mode = "adopt" -> [r EXCEPT !.step = "recover", !.mode = "recover", !.tries = 0]
      [] r.mode = "recover" /\ r.tries + 1 = MaxTries -> [r EXCEPT !.step = "spawn", !.mode = "launch"]
      [] r.mode = "launch" /\ r.tries + 1 = MaxTries -> [r EXCEPT !.step = "failed", !.tries = 0]
      [] OTHER -> [r EXCEPT !.step = "recover", !.tries = @ + 1]

\* Mutant: the last attempt replaces the worker without killing it.
ConnectFailsLeavingIt(s) ==
    /\ sup[s].step \in {"connect", "knocked"} /\ ~Cancelled(s)
    /\ Set(s, AfterFailure([sup[s] EXCEPT !.conn = FALSE]))
    /\ LET dies == sup[s].mode \in {"create", "launch"}
       IN /\ worker' = IF dies THEN Killed(desc) ELSE worker
          /\ mail' = IF dies THEN Emptied(desc) ELSE mail
    /\ desc' = IF sup[s].mode = "create" THEN None ELSE desc
    /\ UNCHANGED <<registry, ghosts, faults>>

\* The worker does not answer in time: it is gone, or too busy. A process that
\* this supervisor launched is stopped; any other is killed at the last attempt.
ConnectFails(s) ==
    /\ sup[s].step \in {"connect", "knocked"} /\ ~Cancelled(s)
    /\ Set(s, AfterFailure([sup[s] EXCEPT !.conn = FALSE]))
    /\ LET dies == \/ sup[s].mode \in {"create", "launch"}
                   \/ sup[s].mode = "recover" /\ sup[s].tries + 1 = MaxTries
       IN /\ worker' = IF dies THEN Killed(desc) ELSE worker
          /\ mail' = IF dies THEN Emptied(desc) ELSE mail
    /\ desc' = IF sup[s].mode = "create" THEN None ELSE desc
    /\ UNCHANGED <<registry, ghosts, faults>>

\* handleWorkerClose: recover, or wait for the admission to pass.
WorkerLost(s) ==
    /\ sup[s].step = "ready" /\ sup[s].phase \in Open
    /\ desc \in Processes => worker[desc].bound # s
    /\ Set(s, [sup[s] EXCEPT !.conn = FALSE, !.mode = "recover", !.tries = 0,
                             !.step = IF admission THEN "deferred" ELSE "recover"])
    /\ UNCHANGED <<worker, registry, desc, mail, ghosts, faults>>

\* resumeDeferredWorkerRecovery.
Resume(s) ==
    /\ sup[s].step = "deferred" /\ sup[s].phase \in Open /\ ~Cancelled(s)
    /\ Set(s, [sup[s] EXCEPT !.step = "recover", !.mode = "recover", !.tries = 0])
    /\ UNCHANGED <<worker, registry, desc, mail, ghosts, faults>>

\* An attempt of recoverWorker: a live process is connected to again.
Recover(s) ==
    /\ sup[s].step = "recover" /\ sup[s].phase \in Open /\ ~Cancelled(s)
    /\ Set(s, IF ProcessAlive(desc)
              THEN [sup[s] EXCEPT !.step = "connect", !.mode = "recover"]
              ELSE [sup[s] EXCEPT !.step = "spawn", !.mode = "launch"])
    /\ UNCHANGED <<worker, registry, desc, mail, ghosts, faults>>

-----------------------------------------------------------------------------
(* launchWorker: the process waits at its gate until it is on record.      *)

Spawn(s, q) ==
    /\ sup[s].step = "spawn" /\ ~Cancelled(s) /\ FreshProcess(q)
    /\ worker' = [worker EXCEPT ![q] = [NoWorker EXCEPT !.st = "gated"]]
    /\ Set(s, [sup[s] EXCEPT !.step = "record", !.kid = q])
    /\ UNCHANGED <<registry, desc, mail, ghosts, faults>>

\* persistWorker, after the last look at the ownership and the admission.
Record(s) ==
    /\ sup[s].step = "record" /\ ~Cancelled(s)
    /\ desc' = sup[s].kid
    /\ Step(s, "commit")
    /\ UNCHANGED <<worker, registry, mail, ghosts, faults>>

\* commitWorkerStartupGate: the process starts, its watch timer with it.
Commit(s) ==
    /\ sup[s].step = "commit"
    /\ worker' = [worker EXCEPT ![desc] = [NoWorker EXCEPT !.st = "running", !.watch = "armed"]]
    /\ Set(s, [sup[s] EXCEPT !.step = "connect", !.kid = None])
    /\ UNCHANGED <<registry, desc, mail, ghosts, faults>>

\* waitForDaemonWorkerStartupGate: end of file, the supervisor is gone.
GateCloses(q) ==
    /\ worker[q].st = "gated" /\ \A s \in Supervisors : sup[s].kid # q
    /\ worker' = Killed(q)
    /\ UNCHANGED <<sup, registry, desc, mail, ghosts, faults>>

\* Shutdown was admitted, or has begun: the attempt ends before its record.
CancelAttempt(s) ==
    /\ \/ sup[s].step \in {"spawn", "record"} /\ Cancelled(s)
       \/ sup[s].step = "adopt" /\ sup[s].phase \in Closing /\ Cancelled(s)
       \/ sup[s].step = "recover" /\ (Cancelled(s) \/ sup[s].phase \in Closing)
    /\ Set(s, Left(s))
    /\ worker' = Killed(sup[s].kid)
    /\ UNCHANGED <<registry, desc, mail, ghosts, faults>>

\* connectWorker is cancelled. A process this supervisor launched is stopped
\* and the descriptor rolled back; an older one is let go.
CancelConnect(s) ==
    /\ sup[s].step \in {"connect", "knocked"} /\ Cancelled(s)
    /\ LET own == sup[s].mode \in {"create", "launch"} /\ OwnsNow(s)
       IN /\ worker' = IF own THEN Killed(desc) ELSE worker
          /\ mail' = IF own THEN Emptied(desc) ELSE mail
          /\ desc' = CASE own /\ sup[s].mode = "create" -> None
                       [] own /\ sup[s].mode = "launch" -> Gone
                       [] OTHER -> desc
          /\ Set(s, [Left(s) EXCEPT !.step = IF own /\ sup[s].mode = "launch"
                                             THEN "deferred" ELSE "none"])
    /\ UNCHANGED <<registry, ghosts, faults>>

-----------------------------------------------------------------------------
(* The worker process.                                                     *)

Unread(p, s) == [mail EXCEPT ![p] = {m \in @ : m.from # s}]

\* worker_auth: a current claim replaces every earlier one.
ReadClaim(p, s) ==
    /\ Running(p) /\ [from |-> s, what |-> "auth"] \in mail[p]
    /\ IF ClaimCurrent(s)
       THEN /\ worker' = [worker EXCEPT ![p].bound = s, ![p].watch = "idle"]
            /\ mail' = [mail EXCEPT ![p] = {m \in @ : m.from = s /\ m.what # "auth"}]
       ELSE mail' = Unread(p, s) /\ UNCHANGED worker
    /\ UNCHANGED <<sup, registry, desc, ghosts, faults>>

Unbound(p) == [worker EXCEPT ![p].bound = None, ![p].watch = "armed"]

\* Mutant: a bound socket is obeyed without another look at the registry.
ReadCommandOfBound(p, s) ==
    /\ Running(p) /\ [from |-> s, what |-> "command"] \in mail[p]
    /\ mail' = [mail EXCEPT ![p] = @ \ {[from |-> s, what |-> "command"]}]
    /\ IF worker[p].bound = s
       THEN stray' = IF latest = s THEN stray ELSE stray \cup {"command"}
       ELSE UNCHANGED stray
    /\ UNCHANGED <<sup, worker, registry, desc, latest, faults>>

\* handleLine of a worker: the claim is looked at again for every command.
ReadCommand(p, s) ==
    /\ Running(p) /\ [from |-> s, what |-> "command"] \in mail[p]
    /\ mail' = [mail EXCEPT ![p] = @ \ {[from |-> s, what |-> "command"]}]
    /\ CASE worker[p].bound = s /\ ClaimCurrent(s) ->
              /\ stray' = IF latest = s THEN stray ELSE stray \cup {"command"}
              /\ UNCHANGED worker
         [] worker[p].bound = s /\ ~ClaimCurrent(s) ->
              worker' = Unbound(p) /\ UNCHANGED stray
         [] OTHER -> UNCHANGED <<worker, stray>>
    /\ UNCHANGED <<sup, registry, desc, latest, faults>>

\* Mutant: the watch is armed when the worker starts only.
LoseSupervisorQuietly(p) ==
    /\ Running(p) /\ worker[p].bound # None
    /\ ~sup[worker[p].bound].conn \/ ~ClaimCurrent(worker[p].bound)
    /\ worker' = [worker EXCEPT ![p].bound = None]
    /\ mail' = Unread(p, worker[p].bound)
    /\ UNCHANGED <<sup, registry, desc, ghosts, faults>>

\* The socket closes, or checkSupervisorFences finds the claim superseded.
LoseSupervisor(p) ==
    /\ Running(p) /\ worker[p].bound # None
    /\ ~sup[worker[p].bound].conn \/ ~ClaimCurrent(worker[p].bound)
    /\ worker' = Unbound(p)
    /\ mail' = Unread(p, worker[p].bound)
    /\ UNCHANGED <<sup, registry, desc, ghosts, faults>>

\* checkSupervisorAvailability: a socket that answers ends the watch.
CheckSupervisor(p) ==
    /\ Running(p) /\ worker[p].watch = "armed" /\ worker[p].bound = None /\ ~admission
    /\ worker' = [worker EXCEPT ![p].watch = IF Connectable THEN "content" ELSE "launch"]
    /\ UNCHANGED <<sup, registry, desc, mail, ghosts, faults>>

\* launchReplacementSupervisor, past its lock: looks again, then spawns.
WorkerLaunches(p) ==
    /\ Running(p) /\ worker[p].watch = "launch"
    /\ worker' = [worker EXCEPT ![p].watch = "armed"]
    /\ IF Connectable \/ admission THEN UNCHANGED sup ELSE \E s \in Supervisors : Boot(s)
    /\ UNCHANGED <<registry, desc, mail, ghosts, faults>>

WorkerDies(p) ==
    /\ Running(p) /\ Faulty
    /\ worker' = Killed(p) /\ mail' = Emptied(p)
    /\ UNCHANGED <<sup, registry, desc, ghosts>>

-----------------------------------------------------------------------------
(* Commands, results, shutdown admissions.                                 *)

Send(s) ==
    /\ sup[s].step = "ready" /\ sup[s].phase \in Open /\ Running(desc)
    /\ mail' = [mail EXCEPT ![desc] = @ \cup {[from |-> s, what |-> "command"]}]
    /\ UNCHANGED <<sup, worker, registry, desc, ghosts, faults>>

\* A command has been handled; its result may be recorded by the owner only.
CheckOwnership(s) ==
    /\ sup[s].phase = "serving" /\ ~sup[s].checked /\ OwnsNow(s)
    /\ Set(s, [sup[s] EXCEPT !.checked = TRUE])
    /\ UNCHANGED <<worker, registry, desc, mail, ghosts, faults>>

RecordResult(s) ==
    /\ sup[s].checked
    /\ Set(s, [sup[s] EXCEPT !.checked = FALSE])
    /\ stray' = IF latest = s THEN stray ELSE stray \cup {"result"}
    /\ UNCHANGED <<worker, registry, desc, mail, latest, faults>>

AdmissionStarts ==
    /\ ~admission /\ admission' = TRUE /\ Faulty
    /\ UNCHANGED <<sup, worker, lease, owner, sock, desc, mail, ghosts>>

\* Released, or run out.
AdmissionEnds ==
    /\ admission /\ admission' = FALSE
    /\ UNCHANGED <<sup, worker, lease, owner, sock, desc, mail, ghosts, faults>>

-----------------------------------------------------------------------------
Startup(s) == TakeLease(s) \/ StartFails(s) \/ Acquire(s) \/ Prepare(s) \/ Listen(s) \/ Serve(s)
Cleanup(s) == CloseSocket(s) \/ ReleaseLease(s) \/ Exit(s)
Tending(s) ==
    \/ Adopt(s) \/ Knock(s) \/ Attach(s) \/ ConnectFails(s) \/ WorkerLost(s) \/ Resume(s)
    \/ Recover(s) \/ (\E q \in Processes : Spawn(s, q)) \/ Record(s) \/ Commit(s)
    \/ CancelAttempt(s) \/ CancelConnect(s)
Watching(p) == CheckSupervisor(p) \/ WorkerLaunches(p)

Next ==
    \/ \E s \in Supervisors :
         \/ ClientLaunches(s) \/ Startup(s) \/ Signal(s) \/ Cleanup(s) \/ Crash(s)
         \/ Create(s) \/ Tending(s) \/ Send(s) \/ CheckOwnership(s) \/ RecordResult(s)
    \/ \E p \in Processes :
         \/ GateCloses(p) \/ LoseSupervisor(p) \/ Watching(p) \/ WorkerDies(p)
         \/ \E s \in Supervisors : ReadClaim(p, s) \/ ReadCommand(p, s)
    \/ AdmissionStarts \/ AdmissionEnds

Spec == Init /\ [][Next]_vars

\* Timers fire, pollers poll, processes that started run on, admissions expire;
\* nobody owes a client, a command, a signal or a crash.
Fairness ==
    /\ \A s \in Supervisors :
         WF_vars(Startup(s)) /\ WF_vars(Cleanup(s)) /\ WF_vars(Tending(s)) /\ WF_vars(RecordResult(s))
    /\ \A p \in Processes :
         /\ WF_vars(LoseSupervisor(p)) /\ WF_vars(Watching(p)) /\ WF_vars(GateCloses(p))
         /\ \A s \in Supervisors : WF_vars(ReadClaim(p, s))
    /\ WF_vars(AdmissionEnds)

FairSpec == Spec /\ Fairness

-----------------------------------------------------------------------------
(* Properties.                                                             *)

\* The worker process that runs is the one its descriptor names, so there is
\* never a second one and a successor finds every one there is, whenever the
\* supervisor that launched it died (startup gate, kill before replacement).
RunningIsRecorded == \A p \in Processes : worker[p].st = "running" => desc = p

\* A worker never carries out a command of a supervisor that another one has
\* succeeded, however late the command is read from the socket.
ObeysTheOwner == "command" \notin stray

\* Between the look at the ownership and the append to the command journal no
\* other supervisor has come to own the registry entry.
ResultsOfTheOwner == "result" \notin stray

\* Nobody takes the socket from a supervisor that serves on it, neither one
\* that fails to start beside it nor one that ends after it began.
SocketOfTheOwner ==
    \A s \in Supervisors : sup[s].phase \in Open => sock = s /\ owner = s /\ lease = s

\* A worker that is alone, and has not stopped watching because some supervisor
\* answered on the socket, gets a supervisor: bound again, or one that answers.
AloneIsAnswered ==
    \A p \in Processes :
        (worker[p].st = "running" /\ worker[p].bound = None /\ worker[p].watch # "content")
        ~> (worker[p].st # "running" \/ worker[p].bound # None \/ Connectable)
=============================================================================
