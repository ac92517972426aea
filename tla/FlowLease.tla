----------------------------- MODULE FlowLease -----------------------------
(***************************************************************************)
(* Who may work on a flow: the advisory file lock every kernel takes before *)
(* it runs, recovers or cancels a flow, FlowRuntime's table of active runs, *)
(* and the guard around _start_run.  This is what lets module FlowState     *)
(* have one `drive`.                                                        *)
(***************************************************************************)
EXTENDS Naturals, FiniteSets

CONSTANTS
    Kernels,    \* Python kernels that share a state directory
    Calls,      \* concurrent callers of Flow.run, Flow.cancel, FlowRuntime.load
    Home,       \* the kernel each caller lives in
    None

ASSUME LeaseAssumption ==
    /\ Home \in [Calls -> Kernels]
    /\ None \notin Calls

VARIABLES
    record,     \* FlowRecord.status, "ended" for the terminal ones
    lease,      \* who holds the file lock
    guard,      \* FlowRuntime._guard: the caller that holds it
    run,        \* the kernel's entry in _active_runs
    pc          \* where each caller is

vars == <<record, lease, guard, run, pc>>

\* The lock belongs to a call, to a registered run, or to a descriptor that
\* nobody in the kernel remembers.
Owner == ({"call"} \X Calls) \cup ({"run", "lost"} \X Kernels)
Free == <<"free", None>>
RunPoints == {"none", "ready", "working", "done"}
CallPoints == {"idle", "starting", "opening", "stray", "settling", "closing", "awaiting"}

Init ==
    /\ record = "pending" /\ lease = Free
    /\ guard = [k \in Kernels |-> None]
    /\ run = [k \in Kernels |-> "none"]
    /\ pc = [c \in Calls |-> "idle"]

Kernel(owner) == IF owner[1] = "call" THEN Home[owner[2]] ELSE owner[2]
Active(k) == run[k] \in {"ready", "working"}    \* registered, and not done()
Goes(c, point) == pc' = [pc EXCEPT ![c] = point]

-----------------------------------------------------------------------------
(* Calls.                                                                   *)

\* Flow.run joins the active run; Flow.cancel sets its event and waits for it.
Join(c) ==
    /\ pc[c] = "idle" /\ Active(Home[c]) /\ Goes(c, "awaiting")
    /\ UNCHANGED <<record, lease, guard, run>>

\* _start_run, holding the guard, finds no active run.
StartRun(c) ==
    /\ pc[c] = "idle" /\ guard[Home[c]] = None /\ ~Active(Home[c])
    /\ guard' = [guard EXCEPT ![Home[c]] = c] /\ Goes(c, "starting")
    /\ UNCHANGED <<record, lease, run>>

\* load, and cancel without an active run, look at _active_runs unguarded.
Open(c) ==
    /\ pc[c] = "idle" /\ ~Active(Home[c]) /\ Goes(c, "opening")
    /\ UNCHANGED <<record, lease, guard, run>>

Unguard(c) == guard' = [guard EXCEPT ![Home[c]] = IF @ = c THEN None ELSE @]

\* Mutant: the lock is not exclusive.
AcquireShared(c) ==
    /\ pc[c] \in {"starting", "opening"} /\ lease' = <<"call", c>>
    /\ UNCHANGED <<record, guard, run, pc>>

\* _acquire_flow_lease, in a thread: LOCK_EX | LOCK_NB.
Acquire(c) ==
    /\ pc[c] \in {"starting", "opening", "stray"} /\ lease = Free
    /\ IF pc[c] = "stray"
       THEN lease' = <<"lost", Home[c]>> /\ Goes(c, "idle")
       ELSE lease' = <<"call", c>> /\ UNCHANGED pc
    /\ UNCHANGED <<record, guard, run>>

\* The lock is taken: FlowConflict, "flow is already leased".
Refused(c) ==
    /\ pc[c] \in {"starting", "opening", "stray"} /\ lease \notin {Free, <<"call", c>>}
    /\ Goes(c, "idle") /\ Unguard(c)
    /\ UNCHANGED <<record, lease, run>>

\* The caller is cancelled in `await asyncio.to_thread(_acquire_flow_lease)`:
\* the thread goes on, and nobody will release what it acquires.
Abandon(c) ==
    /\ pc[c] \in {"starting", "opening"} /\ Unguard(c)
    /\ IF lease = <<"call", c>>
       THEN lease' = <<"lost", Home[c]>> /\ Goes(c, "idle")
       ELSE UNCHANGED lease /\ Goes(c, "stray")
    /\ UNCHANGED <<record, run>>

\* The rest of _start_run: the run exists and owns the lease.
Register(c) ==
    /\ pc[c] = "starting" /\ lease = <<"call", c>>
    /\ lease' = <<"run", Home[c]>>
    /\ run' = [run EXCEPT ![Home[c]] = "ready"]
    /\ Unguard(c) /\ Goes(c, "awaiting")
    /\ UNCHANGED record

\* Mutant: recovery does not wait for the lease.
StartSettlingUnleased(c) ==
    /\ pc[c] = "opening" /\ Goes(c, "settling")
    /\ UNCHANGED <<record, lease, guard, run>>

\* load and cancel work on the record; a cancellation of theirs only cuts it short.
StartSettling(c) ==
    /\ pc[c] = "opening" /\ lease = <<"call", c>> /\ Goes(c, "settling")
    /\ UNCHANGED <<record, lease, guard, run>>

\* load leaves it pending or ended, cancel ended, an exception as it was.
Settled(c) ==
    /\ pc[c] = "settling"
    /\ record' \in (CASE record = "running" -> {"running", "pending", "ended"}
                      [] record = "pending" -> {"pending", "ended"}
                      [] OTHER              -> {record})
    /\ Goes(c, "closing")
    /\ UNCHANGED <<lease, guard, run>>

Release(c) ==
    /\ pc[c] = "closing" /\ lease' = Free /\ Goes(c, "idle")
    /\ UNCHANGED <<record, guard, run>>

CallStep(c) ==
    \/ Acquire(c) \/ Refused(c) \/ Register(c)
    \/ StartSettling(c) \/ Settled(c) \/ Release(c)

-----------------------------------------------------------------------------
(* Runs.                                                                    *)

\* The head of _drive: FlowConflict if the record says "running", a return if
\* it has ended; otherwise the run is the writer of the record.
RunStarts(k) ==
    /\ run[k] = "ready"
    /\ IF record = "pending"
       THEN record' = "running" /\ run' = [run EXCEPT ![k] = "working"]
       ELSE UNCHANGED record /\ run' = [run EXCEPT ![k] = "done"]
    /\ UNCHANGED <<lease, guard, pc>>

\* The flow has ended, or an exception leaves its record "running".
RunStops(k) ==
    /\ run[k] = "working" /\ run' = [run EXCEPT ![k] = "done"]
    /\ record' \in {"ended", record}
    /\ UNCHANGED <<lease, guard, pc>>

\* Mutant: the done callback forgets the lease.
RunFinishedHolding(k) ==
    /\ run[k] = "done" /\ run' = [run EXCEPT ![k] = "none"]
    /\ pc' = [c \in Calls |-> IF Home[c] = k /\ pc[c] = "awaiting" THEN "idle" ELSE pc[c]]
    /\ UNCHANGED <<record, lease, guard>>

\* The done callback, and the return of everyone who awaits the run.
RunFinished(k) ==
    /\ run[k] = "done"
    /\ run' = [run EXCEPT ![k] = "none"] /\ lease' = Free
    /\ pc' = [c \in Calls |-> IF Home[c] = k /\ pc[c] = "awaiting" THEN "idle" ELSE pc[c]]
    /\ UNCHANGED <<record, guard>>

RunStep(k) == RunStarts(k) \/ RunStops(k) \/ RunFinished(k)

\* A kernel dies and a new one takes its place: its locks are gone with it.
Restart(k) ==
    /\ guard' = [guard EXCEPT ![k] = None]
    /\ run' = [run EXCEPT ![k] = "none"]
    /\ pc' = [c \in Calls |-> IF Home[c] = k THEN "idle" ELSE pc[c]]
    /\ lease' = IF lease # Free /\ Kernel(lease) = k THEN Free ELSE lease
    /\ UNCHANGED record

Next ==
    \/ \E c \in Calls : Join(c) \/ StartRun(c) \/ Open(c) \/ Abandon(c) \/ CallStep(c)
    \/ \E k \in Kernels : RunStep(k) \/ Restart(k)

\* Threads, coroutines and done callbacks that can go on do; that a run and a
\* recovery come to an end is CallsReturn of module FlowRuntime.
Fairness ==
    /\ \A c \in Calls : WF_vars(CallStep(c))
    /\ \A k \in Kernels : WF_vars(RunStep(k))

Spec == Init /\ [][Next]_vars
FairSpec == Spec /\ Fairness

-----------------------------------------------------------------------------

TypeOK ==
    /\ record \in {"pending", "running", "ended"}
    /\ lease \in Owner \cup {Free}
    /\ guard \in [Kernels -> Calls \cup {None}]
    /\ run \in [Kernels -> RunPoints]
    /\ pc \in [Calls -> CallPoints]

\* Everyone who reads, waits and then writes the flow's record.
Writers == ({"run"} \X {k \in Kernels : run[k] = "working"})
           \cup ({"call"} \X {c \in Calls : pc[c] = "settling"})

\* Two kernels, or two calls of one kernel, never work on one flow at once
\* (test_cross_runtime_lease_prevents_live_recovery).
OneWriter == \A x, y \in Writers : x = y

\* A run that works finds its record as it left it: nobody recovers, cancels or
\* ends a flow behind the back of a live run.
LiveRunIsUndisturbed == \A k \in Kernels : run[k] = "working" => record = "running"

\* The inductive invariant behind both: whoever has got past the acquisition
\* holds the lock, in the role it acquired it for.
LeaseIsHeld ==
    /\ \A k \in Kernels : run[k] # "none" => lease = <<"run", k>>
    /\ \A c \in Calls : pc[c] \in {"settling", "closing"} => lease = <<"call", c>>

\* A lease that somebody still answers for is given back, so the flow can be
\* loaded or cancelled again, unless a cancelled call loses the descriptor.
LeaseComesBack ==
    (lease # Free) ~> (lease = Free \/ \E k \in Kernels : lease = <<"lost", k>>)
=============================================================================
