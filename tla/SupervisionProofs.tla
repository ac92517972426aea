------------------------- MODULE SupervisionProofs -------------------------
(***************************************************************************)
(* What the supervisors of one socket promise, for any number of them, of  *)
(* worker processes, of attempts and of crashes.                           *)
(*                                                                         *)
(* Two facts carry the four properties.  A supervisor past a stage of its  *)
(* start holds what that stage gave it, for the next holder has to find it *)
(* dead (Standing).  And only the owner tends the worker, so the process   *)
(* its descriptor names stays dead from the decision to replace it to the  *)
(* record of the new one, which waits at its gate until then (Launching).  *)
(***************************************************************************)
EXTENDS Supervision, TLAPS

LeaseTaken == {"leased", "owning", "prepared", "listening", "serving"}
OwnerTaken == {"owning", "prepared", "listening", "serving"}

Standing ==
    \A s \in Supervisors :
        /\ sup[s].phase \in LeaseTaken => lease = s
        /\ sup[s].phase \in OwnerTaken => owner = s
        /\ sup[s].phase \in Open => sock = s
        /\ sup[s].checked \/ sup[s].step # "none" => owner = s /\ Alive(s)
        /\ owner = s /\ Alive(s) => latest = s

Launching ==
    \A s \in Supervisors :
        /\ sup[s].phase \in Starting => sup[s].step = "none"
        /\ sup[s].step = "spawn" => ~ProcessAlive(desc)
        /\ sup[s].step = "record" =>
             sup[s].kid # None /\ sup[s].kid # desc /\ ~ProcessAlive(desc)
        /\ sup[s].step = "commit" => sup[s].kid = desc /\ desc # None
        /\ sup[s].kid # None =>
             sup[s].step \in {"record", "commit"} /\ worker[sup[s].kid].st = "gated"

IInv == TypeOK /\ Standing /\ Launching /\ RunningIsRecorded /\ stray = {}

\* The names that the steps write are names of phases, modes and steps.
LEMMA Names ==
    /\ \A x \in {"dead", "boot", "leased", "owning", "prepared", "listening",
                 "serving", "stopping", "closed", "unleased"} : x \in Phases
    /\ \A x \in {"adopt", "create", "recover", "launch"} : x \in Modes
    /\ \A x \in {"none", "adopt", "connect", "knocked", "ready", "recover", "spawn",
                 "record", "commit", "deferred", "failed"} : x \in Steps
BY DEF Phases, Modes, Steps, Starting, Open, Closing

\* Every change a step makes to a supervisor keeps its type.
LEMMA Edits ==
    ASSUME NEW r \in SupState, NEW ph \in Phases, NEW st \in Steps, NEW m \in Modes,
           NEW n \in Nat, NEW k \in Processes \cup {None}
    PROVE  /\ [r EXCEPT !.phase = ph] \in SupState
           /\ [r EXCEPT !.step = st] \in SupState
           /\ [r EXCEPT !.step = st, !.mode = m] \in SupState
           /\ [r EXCEPT !.step = st, !.mode = m, !.tries = n] \in SupState
           /\ [r EXCEPT !.step = st, !.tries = n] \in SupState
           /\ [r EXCEPT !.step = st, !.kid = k] \in SupState
           /\ [r EXCEPT !.step = st, !.kid = k, !.conn = FALSE] \in SupState
           /\ [r EXCEPT !.phase = ph, !.mode = m, !.step = st] \in SupState
           /\ [r EXCEPT !.conn = FALSE, !.mode = m, !.tries = n, !.step = st] \in SupState
BY DEF SupState

\* A supervisor that does not run has its type.
LEMMA Idle == NoSup \in SupState
BY Names DEF NoSup, SupState

\* A supervisor, and what is left of it without its work, have their types.
LEMMA TypeOf ==
    ASSUME TypeOK, NEW s \in Supervisors
    PROVE  /\ sup[s] \in SupState /\ sup[s].kid \in Processes \cup {None}
           /\ Left(s) \in SupState
<1>1. sup[s] \in SupState
  BY DEF TypeOK
<1>2. sup[s].kid \in Processes \cup {None}
  BY <1>1 DEF SupState
<1> QED
  BY <1>1, <1>2, Names, Edits DEF Left

\* What follows a failed connection is a state of a supervisor.
LEMMA AfterFailureType ==
    ASSUME NEW r \in SupState
    PROVE  AfterFailure(r) \in SupState
<1>1. r.tries + 1 \in Nat
  BY DEF SupState
<1> QED
  BY <1>1, Names, Edits DEF AfterFailure

\* Killing a process, or nobody, keeps the types.
LEMMA KilledType ==
    ASSUME TypeOK, NEW p
    PROVE  /\ Killed(p) \in [Processes -> WorkerState]
           /\ Emptied(p) \in [Processes -> SUBSET Mail]
BY DEF TypeOK, Killed, Emptied, NoWorker, WorkerState

\* Every step keeps the types.
LEMMA TypeStep == TypeOK /\ [Next]_vars => TypeOK'
<1> SUFFICES ASSUME TypeOK, [Next]_vars
             PROVE  TypeOK'
  OBVIOUS
<1> USE SupervisionAssumption DEF TypeOK, NoWorker, Mail, Running, registry, ghosts
<1>1. ASSUME NEW s \in Supervisors, ClientLaunches(s)
      PROVE  TypeOK'
  BY <1>1, Names, Edits, Idle DEF ClientLaunches, Boot, Set
<1>2. ASSUME NEW s \in Supervisors, TakeLease(s)
      PROVE  TypeOK'
  BY <1>2, Names, Edits DEF TakeLease, Set
<1>3. ASSUME NEW s \in Supervisors, StartFails(s)
      PROVE  TypeOK'
  BY <1>3, Names, Edits, TypeOf DEF StartFails, Set
<1>4. ASSUME NEW s \in Supervisors, Acquire(s)
      PROVE  TypeOK'
  BY <1>4, Names, Edits DEF Acquire, Set
<1>5. ASSUME NEW s \in Supervisors, Prepare(s)
      PROVE  TypeOK'
  BY <1>5, Names, Edits DEF Prepare, Set
<1>6. ASSUME NEW s \in Supervisors, Listen(s)
      PROVE  TypeOK'
  BY <1>6, Names, Edits DEF Listen, Set
<1>7. ASSUME NEW s \in Supervisors, Serve(s)
      PROVE  TypeOK'
  BY <1>7, Names, Edits DEF Serve, Set
<1>8. ASSUME NEW s \in Supervisors, Signal(s)
      PROVE  TypeOK'
  <2>1. [sup[s] EXCEPT !.phase = "stopping"] \in SupState
    BY Names, Edits
  <2>2. [Left(s) EXCEPT !.phase = "stopping"] \in SupState
    BY Names, Edits, TypeOf
  <2> QED
    BY <1>8, <2>1, <2>2 DEF Signal, Faulty, Set
<1>9. ASSUME NEW s \in Supervisors, CloseSocket(s)
      PROVE  TypeOK'
  BY <1>9, Names, Edits DEF CloseSocket, Set
<1>10. ASSUME NEW s \in Supervisors, ReleaseLease(s)
      PROVE  TypeOK'
  BY <1>10, Names, Edits DEF ReleaseLease, Set
<1>11. ASSUME NEW s \in Supervisors, Exit(s)
      PROVE  TypeOK'
  BY <1>11, Idle DEF Exit, Set
<1>12. ASSUME NEW s \in Supervisors, Crash(s)
      PROVE  TypeOK'
  BY <1>12, Idle DEF Crash, Faulty, Set
<1>13. ASSUME NEW s \in Supervisors, Create(s)
      PROVE  TypeOK'
  BY <1>13, Names, Edits DEF Create, Set
<1>14. ASSUME NEW s \in Supervisors, Adopt(s)
      PROVE  TypeOK'
  <2>1. [sup[s] EXCEPT !.step = "connect"] \in SupState
    BY ZenonT(60), Names, Edits
  <2>2. [sup[s] EXCEPT !.step = "recover", !.tries = 0] \in SupState
    BY Names, Edits
  <2> QED
    BY <1>14, <2>1, <2>2 DEF Adopt, Step, Set
<1>15. ASSUME NEW s \in Supervisors, Knock(s)
      PROVE  TypeOK'
  <2>1. [sup[s] EXCEPT !.step = "knocked", !.conn = TRUE] \in SupState
    BY TypeOf, Names DEF SupState
  <2> QED
    BY <1>15, <2>1 DEF Knock, Set
<1>16. ASSUME NEW s \in Supervisors, Attach(s)
      PROVE  TypeOK'
  BY ZenonT(60), <1>16, Names, Edits DEF Attach, Step, Set
<1>17. ASSUME NEW s \in Supervisors, ConnectFails(s)
      PROVE  TypeOK'
  <2>1. [sup[s] EXCEPT !.conn = FALSE] \in SupState
    BY TypeOf DEF SupState
  <2>2. AfterFailure([sup[s] EXCEPT !.conn = FALSE]) \in SupState
    BY <2>1, AfterFailureType
  <2> QED
    BY <1>17, <2>2, KilledType DEF ConnectFails, Set
<1>18. ASSUME NEW s \in Supervisors, WorkerLost(s)
      PROVE  TypeOK'
  BY <1>18, Names, Edits DEF WorkerLost, Set
<1>19. ASSUME NEW s \in Supervisors, Resume(s)
      PROVE  TypeOK'
  BY <1>19, Names, Edits DEF Resume, Set
<1>20. ASSUME NEW s \in Supervisors, Recover(s)
      PROVE  TypeOK'
  BY <1>20, Names, Edits DEF Recover, Set
<1>21. ASSUME NEW s \in Supervisors, NEW q \in Processes, Spawn(s, q)
      PROVE  TypeOK'
  BY <1>21, Names, Edits DEF Spawn, Set, WorkerState
<1>22. ASSUME NEW s \in Supervisors, Record(s)
      PROVE  TypeOK'
  BY <1>22, Names, Edits, TypeOf DEF Record, Step, Set
<1>23. ASSUME NEW s \in Supervisors, Commit(s)
      PROVE  TypeOK'
  BY ZenonT(60), <1>23, Names, Edits DEF Commit, Set, WorkerState
<1>24. ASSUME NEW s \in Supervisors, CancelAttempt(s)
      PROVE  TypeOK'
  BY <1>24, Names, Edits, KilledType, TypeOf DEF CancelAttempt, Set
<1>25. ASSUME NEW s \in Supervisors, CancelConnect(s)
      PROVE  TypeOK'
  BY ZenonT(60), <1>25, Names, Edits, KilledType, TypeOf DEF CancelConnect, Set
<1>26. ASSUME NEW s \in Supervisors, Send(s)
      PROVE  TypeOK'
  BY <1>26 DEF Send
<1>27. ASSUME NEW s \in Supervisors, CheckOwnership(s)
      PROVE  TypeOK'
  <2>1. [sup[s] EXCEPT !.checked = TRUE] \in SupState
    BY TypeOf DEF SupState
  <2> QED
    BY <1>27, <2>1 DEF CheckOwnership, Set
<1>28. ASSUME NEW s \in Supervisors, RecordResult(s)
      PROVE  TypeOK'
  <2>1. [sup[s] EXCEPT !.checked = FALSE] \in SupState
    BY TypeOf DEF SupState
  <2> QED
    BY <1>28, <2>1 DEF RecordResult, Set
<1>29. ASSUME NEW p \in Processes, GateCloses(p)
      PROVE  TypeOK'
  BY <1>29, KilledType DEF GateCloses
<1>30. ASSUME NEW p \in Processes, LoseSupervisor(p)
      PROVE  TypeOK'
  BY ZenonT(60), <1>30 DEF LoseSupervisor, Unbound, Unread, WorkerState
<1>31. ASSUME NEW p \in Processes, CheckSupervisor(p)
      PROVE  TypeOK'
  BY <1>31 DEF CheckSupervisor, WorkerState
<1>32. ASSUME NEW p \in Processes, WorkerLaunches(p)
      PROVE  TypeOK'
  <2>1. [NoSup EXCEPT !.phase = "boot"] \in SupState
    BY Names, Edits, Idle
  <2>2. worker' \in [Processes -> WorkerState]
    BY <1>32 DEF WorkerLaunches, WorkerState
  <2>3. sup' \in [Supervisors -> SupState]
    BY <1>32, <2>1 DEF WorkerLaunches, Boot, Set
  <2> QED
    BY <1>32, <2>1, <2>2, <2>3 DEF WorkerLaunches
<1>33. ASSUME NEW p \in Processes, WorkerDies(p)
      PROVE  TypeOK'
  BY <1>33, KilledType DEF WorkerDies, Faulty
<1>34. ASSUME NEW p \in Processes, NEW s \in Supervisors, ReadClaim(p, s)
      PROVE  TypeOK'
  BY <1>34 DEF ReadClaim, Unread, WorkerState
<1>35. ASSUME NEW p \in Processes, NEW s \in Supervisors, ReadCommand(p, s)
      PROVE  TypeOK'
  BY <1>35 DEF ReadCommand, Unbound, WorkerState
<1>36. ASSUME AdmissionStarts
      PROVE  TypeOK'
  BY <1>36 DEF AdmissionStarts, Faulty
<1>37. ASSUME AdmissionEnds
      PROVE  TypeOK'
  BY <1>37 DEF AdmissionEnds
<1>38. CASE UNCHANGED vars
  BY <1>38 DEF vars
<1> QED
  BY <1>1, <1>2, <1>3, <1>4, <1>5, <1>6, <1>7, <1>8, <1>9, <1>10, <1>11,
       <1>12, <1>13, <1>14, <1>15, <1>16, <1>17, <1>18, <1>19, <1>20, <1>21,
       <1>22, <1>23, <1>24, <1>25, <1>26, <1>27, <1>28, <1>29, <1>30, <1>31,
       <1>32, <1>33, <1>34, <1>35, <1>36, <1>37, <1>38 DEF Next, Startup,
       Cleanup, Tending, Watching

\* A stage of the start is taken from nobody, so what was done was done for the owner.
LEMMA StandingStep == IInv /\ [Next]_vars => Standing' /\ stray' = {}
<1> SUFFICES ASSUME IInv, [Next]_vars
             PROVE  Standing' /\ stray' = {}
  OBVIOUS
<1> USE SupervisionAssumption DEF IInv, TypeOK, SupState, Alive, NoSup, registry, ghosts, Standing,
        LeaseTaken, OwnerTaken, Open, ClaimCurrent
<1>1. ASSUME NEW s \in Supervisors, ClientLaunches(s)
      PROVE  Standing' /\ stray' = {}
  BY <1>1 DEF ClientLaunches, Boot, Fresh, Set
<1>2. ASSUME NEW s \in Supervisors, TakeLease(s)
      PROVE  Standing' /\ stray' = {}
  BY <1>2 DEF TakeLease, Set
<1>3. ASSUME NEW s \in Supervisors, StartFails(s)
      PROVE  Standing' /\ stray' = {}
  BY <1>3 DEF StartFails, Left, Set
<1>4. ASSUME NEW s \in Supervisors, Acquire(s)
      PROVE  Standing' /\ stray' = {}
  BY <1>4 DEF Acquire, Set
<1>5. ASSUME NEW s \in Supervisors, Prepare(s)
      PROVE  Standing' /\ stray' = {}
  BY <1>5 DEF Prepare, Set
<1>6. ASSUME NEW s \in Supervisors, Listen(s)
      PROVE  Standing' /\ stray' = {}
  BY <1>6 DEF Listen, Set
<1>7. ASSUME NEW s \in Supervisors, Serve(s)
      PROVE  Standing' /\ stray' = {}
  BY <1>7 DEF Serve, Set
<1>8. ASSUME NEW s \in Supervisors, Signal(s)
      PROVE  Standing' /\ stray' = {}
  BY <1>8 DEF Signal, Faulty, Left, Set
<1>9. ASSUME NEW s \in Supervisors, CloseSocket(s)
      PROVE  Standing' /\ stray' = {}
  BY <1>9 DEF CloseSocket, Set
<1>10. ASSUME NEW s \in Supervisors, ReleaseLease(s)
      PROVE  Standing' /\ stray' = {}
  BY <1>10 DEF ReleaseLease, Set
<1>11. ASSUME NEW s \in Supervisors, Exit(s)
      PROVE  Standing' /\ stray' = {}
  BY <1>11 DEF Exit, Set
<1>12. ASSUME NEW s \in Supervisors, Crash(s)
      PROVE  Standing' /\ stray' = {}
  BY <1>12 DEF Crash, Faulty, Set
<1>13. ASSUME NEW s \in Supervisors, Create(s)
      PROVE  Standing' /\ stray' = {}
  BY <1>13 DEF Create, Set
<1>14. ASSUME NEW s \in Supervisors, Adopt(s)
      PROVE  Standing' /\ stray' = {}
  <2>1. CASE ProcessAlive(desc)
    BY <1>14, <2>1 DEF Adopt, Step, Set
  <2>2. CASE ~ProcessAlive(desc)
    <3>1. sup' = [sup EXCEPT ![s] = [sup[s] EXCEPT !.step = "recover", !.tries = 0]]
      BY <1>14, <2>2 DEF Adopt, Set
    <3> QED
      BY <1>14, <3>1 DEF Adopt
  <2> QED
    BY <2>1, <2>2
<1>15. ASSUME NEW s \in Supervisors, Knock(s)
      PROVE  Standing' /\ stray' = {}
  BY <1>15 DEF Knock, Set
<1>16. ASSUME NEW s \in Supervisors, Attach(s)
      PROVE  Standing' /\ stray' = {}
  BY <1>16 DEF Attach, Step, Set
<1>17. ASSUME NEW s \in Supervisors, ConnectFails(s)
      PROVE  Standing' /\ stray' = {}
  BY <1>17 DEF ConnectFails, AfterFailure, Killed, Emptied, Set
<1>18. ASSUME NEW s \in Supervisors, WorkerLost(s)
      PROVE  Standing' /\ stray' = {}
  BY <1>18 DEF WorkerLost, Set
<1>19. ASSUME NEW s \in Supervisors, Resume(s)
      PROVE  Standing' /\ stray' = {}
  BY <1>19 DEF Resume, Set
<1>20. ASSUME NEW s \in Supervisors, Recover(s)
      PROVE  Standing' /\ stray' = {}
  BY <1>20 DEF Recover, Set
<1>21. ASSUME NEW s \in Supervisors, NEW q \in Processes, Spawn(s, q)
      PROVE  Standing' /\ stray' = {}
  BY <1>21 DEF Spawn, FreshProcess, Set
<1>22. ASSUME NEW s \in Supervisors, Record(s)
      PROVE  Standing' /\ stray' = {}
  BY <1>22 DEF Record, Step, Set
<1>23. ASSUME NEW s \in Supervisors, Commit(s)
      PROVE  Standing' /\ stray' = {}
  BY <1>23 DEF Commit, Set
<1>24. ASSUME NEW s \in Supervisors, CancelAttempt(s)
      PROVE  Standing' /\ stray' = {}
  BY <1>24 DEF CancelAttempt, Left, Killed, Set
<1>25. ASSUME NEW s \in Supervisors, CancelConnect(s)
      PROVE  Standing' /\ stray' = {}
  BY <1>25 DEF CancelConnect, Left, Killed, Emptied, Set
<1>26. ASSUME NEW s \in Supervisors, Send(s)
      PROVE  Standing' /\ stray' = {}
  BY <1>26 DEF Send
<1>27. ASSUME NEW s \in Supervisors, CheckOwnership(s)
      PROVE  Standing' /\ stray' = {}
  BY <1>27 DEF CheckOwnership, Set
<1>28. ASSUME NEW s \in Supervisors, RecordResult(s)
      PROVE  Standing' /\ stray' = {}
  BY <1>28 DEF RecordResult, Set
<1>29. ASSUME NEW p \in Processes, GateCloses(p)
      PROVE  Standing' /\ stray' = {}
  BY <1>29 DEF GateCloses, Killed
<1>30. ASSUME NEW p \in Processes, LoseSupervisor(p)
      PROVE  Standing' /\ stray' = {}
  BY <1>30 DEF LoseSupervisor, Unbound, Unread
<1>31. ASSUME NEW p \in Processes, CheckSupervisor(p)
      PROVE  Standing' /\ stray' = {}
  BY <1>31 DEF CheckSupervisor
<1>32. ASSUME NEW p \in Processes, WorkerLaunches(p)
      PROVE  Standing' /\ stray' = {}
  BY <1>32 DEF WorkerLaunches, Boot, Fresh, Set
<1>33. ASSUME NEW p \in Processes, WorkerDies(p)
      PROVE  Standing' /\ stray' = {}
  BY <1>33 DEF WorkerDies, Killed, Emptied, Faulty
<1>34. ASSUME NEW p \in Processes, NEW s \in Supervisors, ReadClaim(p, s)
      PROVE  Standing' /\ stray' = {}
  BY <1>34 DEF ReadClaim, Unread
<1>35. ASSUME NEW p \in Processes, NEW s \in Supervisors, ReadCommand(p, s)
      PROVE  Standing' /\ stray' = {}
  BY <1>35 DEF ReadCommand, Unbound
<1>36. ASSUME AdmissionStarts
      PROVE  Standing' /\ stray' = {}
  BY <1>36 DEF AdmissionStarts, Faulty
<1>37. ASSUME AdmissionEnds
      PROVE  Standing' /\ stray' = {}
  BY <1>37 DEF AdmissionEnds
<1>38. CASE UNCHANGED vars
  BY <1>38 DEF vars
<1> QED
  BY <1>1, <1>2, <1>3, <1>4, <1>5, <1>6, <1>7, <1>8, <1>9, <1>10, <1>11,
       <1>12, <1>13, <1>14, <1>15, <1>16, <1>17, <1>18, <1>19, <1>20, <1>21,
       <1>22, <1>23, <1>24, <1>25, <1>26, <1>27, <1>28, <1>29, <1>30, <1>31,
       <1>32, <1>33, <1>34, <1>35, <1>36, <1>37, <1>38 DEF Next, Startup,
       Cleanup, Tending, Watching

\* No process runs beside the recorded one, for none is recorded while it lives.
LEMMA LaunchingStep == IInv /\ [Next]_vars => Launching' /\ RunningIsRecorded'
<1> SUFFICES ASSUME IInv, [Next]_vars
             PROVE  Launching' /\ RunningIsRecorded'
  OBVIOUS
<1> USE SupervisionAssumption DEF IInv, TypeOK, SupState, Alive, NoSup, registry, ghosts, NoWorker, WorkerState,
        Starting, Running, ProcessAlive, Standing, Launching, RunningIsRecorded
<1>1. ASSUME NEW s \in Supervisors, ClientLaunches(s)
      PROVE  Launching' /\ RunningIsRecorded'
  BY <1>1 DEF ClientLaunches, Boot, Fresh, Set
<1>2. ASSUME NEW s \in Supervisors, TakeLease(s)
      PROVE  Launching' /\ RunningIsRecorded'
  BY <1>2 DEF TakeLease, Set
<1>3. ASSUME NEW s \in Supervisors, StartFails(s)
      PROVE  Launching' /\ RunningIsRecorded'
  BY <1>3 DEF StartFails, Left, Set
<1>4. ASSUME NEW s \in Supervisors, Acquire(s)
      PROVE  Launching' /\ RunningIsRecorded'
  BY <1>4 DEF Acquire, Set
<1>5. ASSUME NEW s \in Supervisors, Prepare(s)
      PROVE  Launching' /\ RunningIsRecorded'
  BY <1>5 DEF Prepare, Set
<1>6. ASSUME NEW s \in Supervisors, Listen(s)
      PROVE  Launching' /\ RunningIsRecorded'
  <2>1. CASE desc = None
    BY <1>6, <2>1 DEF Listen, Set
  <2>2. CASE desc # None
    BY <1>6, <2>2 DEF Listen, Set
  <2> QED
    BY <2>1, <2>2
<1>7. ASSUME NEW s \in Supervisors, Serve(s)
      PROVE  Launching' /\ RunningIsRecorded'
  BY <1>7 DEF Serve, Set
<1>8. ASSUME NEW s \in Supervisors, Signal(s)
      PROVE  Launching' /\ RunningIsRecorded'
  BY <1>8 DEF Signal, Faulty, Left, Set
<1>9. ASSUME NEW s \in Supervisors, CloseSocket(s)
      PROVE  Launching' /\ RunningIsRecorded'
  BY <1>9 DEF CloseSocket, Set
<1>10. ASSUME NEW s \in Supervisors, ReleaseLease(s)
      PROVE  Launching' /\ RunningIsRecorded'
  BY <1>10 DEF ReleaseLease, Set
<1>11. ASSUME NEW s \in Supervisors, Exit(s)
      PROVE  Launching' /\ RunningIsRecorded'
  BY <1>11 DEF Exit, Set
<1>12. ASSUME NEW s \in Supervisors, Crash(s)
      PROVE  Launching' /\ RunningIsRecorded'
  BY <1>12 DEF Crash, Faulty, Set
<1>13. ASSUME NEW s \in Supervisors, Create(s)
      PROVE  Launching' /\ RunningIsRecorded'
  BY <1>13 DEF Create, Set
<1>14. ASSUME NEW s \in Supervisors, Adopt(s)
      PROVE  Launching' /\ RunningIsRecorded'
  <2>1. CASE ProcessAlive(desc)
    BY <1>14, <2>1 DEF Adopt, Step, Set
  <2>2. CASE ~ProcessAlive(desc)
    <3>1. sup' = [sup EXCEPT ![s] = [sup[s] EXCEPT !.step = "recover", !.tries = 0]]
      BY <1>14, <2>2 DEF Adopt, Set
    <3> QED
      BY <1>14, <3>1 DEF Adopt
  <2> QED
    BY <2>1, <2>2
<1>15. ASSUME NEW s \in Supervisors, Knock(s)
      PROVE  Launching' /\ RunningIsRecorded'
  BY <1>15 DEF Knock, Set
<1>16. ASSUME NEW s \in Supervisors, Attach(s)
      PROVE  Launching' /\ RunningIsRecorded'
  BY <1>16 DEF Attach, Step, Set
<1>17. ASSUME NEW s \in Supervisors, ConnectFails(s)
      PROVE  Launching' /\ RunningIsRecorded'
  BY <1>17 DEF ConnectFails, AfterFailure, Killed, Emptied, Set
<1>18. ASSUME NEW s \in Supervisors, WorkerLost(s)
      PROVE  Launching' /\ RunningIsRecorded'
  BY <1>18 DEF WorkerLost, Set
<1>19. ASSUME NEW s \in Supervisors, Resume(s)
      PROVE  Launching' /\ RunningIsRecorded'
  BY <1>19 DEF Resume, Set
<1>20. ASSUME NEW s \in Supervisors, Recover(s)
      PROVE  Launching' /\ RunningIsRecorded'
  BY <1>20 DEF Recover, Set
<1>21. ASSUME NEW s \in Supervisors, NEW q \in Processes, Spawn(s, q)
      PROVE  Launching' /\ RunningIsRecorded'
  BY <1>21 DEF Spawn, FreshProcess, Set
<1>22. ASSUME NEW s \in Supervisors, Record(s)
      PROVE  Launching' /\ RunningIsRecorded'
  BY <1>22 DEF Record, Step, Set
<1>23. ASSUME NEW s \in Supervisors, Commit(s)
      PROVE  Launching' /\ RunningIsRecorded'
  BY <1>23 DEF Commit, Set
<1>24. ASSUME NEW s \in Supervisors, CancelAttempt(s)
      PROVE  Launching' /\ RunningIsRecorded'
  BY <1>24 DEF CancelAttempt, Left, Killed, Set
<1>25. ASSUME NEW s \in Supervisors, CancelConnect(s)
      PROVE  Launching' /\ RunningIsRecorded'
  BY <1>25 DEF CancelConnect, Left, Killed, Emptied, Set
<1>26. ASSUME NEW s \in Supervisors, Send(s)
      PROVE  Launching' /\ RunningIsRecorded'
  BY <1>26 DEF Send
<1>27. ASSUME NEW s \in Supervisors, CheckOwnership(s)
      PROVE  Launching' /\ RunningIsRecorded'
  BY <1>27 DEF CheckOwnership, Set
<1>28. ASSUME NEW s \in Supervisors, RecordResult(s)
      PROVE  Launching' /\ RunningIsRecorded'
  BY <1>28 DEF RecordResult, Set
<1>29. ASSUME NEW p \in Processes, GateCloses(p)
      PROVE  Launching' /\ RunningIsRecorded'
  BY <1>29 DEF GateCloses, Killed
<1>30. ASSUME NEW p \in Processes, LoseSupervisor(p)
      PROVE  Launching' /\ RunningIsRecorded'
  BY <1>30 DEF LoseSupervisor, Unbound, Unread
<1>31. ASSUME NEW p \in Processes, CheckSupervisor(p)
      PROVE  Launching' /\ RunningIsRecorded'
  BY <1>31 DEF CheckSupervisor
<1>32. ASSUME NEW p \in Processes, WorkerLaunches(p)
      PROVE  Launching' /\ RunningIsRecorded'
  <2>1. CASE Connectable \/ admission
    BY <1>32, <2>1 DEF WorkerLaunches, Boot, Fresh, Set
  <2>2. CASE ~(Connectable \/ admission)
    BY <1>32, <2>2 DEF WorkerLaunches, Boot, Fresh, Set
  <2> QED
    BY <2>1, <2>2
<1>33. ASSUME NEW p \in Processes, WorkerDies(p)
      PROVE  Launching' /\ RunningIsRecorded'
  BY <1>33 DEF WorkerDies, Killed, Emptied, Faulty
<1>34. ASSUME NEW p \in Processes, NEW s \in Supervisors, ReadClaim(p, s)
      PROVE  Launching' /\ RunningIsRecorded'
  BY <1>34 DEF ReadClaim, Unread
<1>35. ASSUME NEW p \in Processes, NEW s \in Supervisors, ReadCommand(p, s)
      PROVE  Launching' /\ RunningIsRecorded'
  BY <1>35 DEF ReadCommand, Unbound
<1>36. ASSUME AdmissionStarts
      PROVE  Launching' /\ RunningIsRecorded'
  BY <1>36 DEF AdmissionStarts, Faulty
<1>37. ASSUME AdmissionEnds
      PROVE  Launching' /\ RunningIsRecorded'
  BY <1>37 DEF AdmissionEnds
<1>38. CASE UNCHANGED vars
  BY <1>38 DEF vars
<1> QED
  BY <1>1, <1>2, <1>3, <1>4, <1>5, <1>6, <1>7, <1>8, <1>9, <1>10, <1>11,
       <1>12, <1>13, <1>14, <1>15, <1>16, <1>17, <1>18, <1>19, <1>20, <1>21,
       <1>22, <1>23, <1>24, <1>25, <1>26, <1>27, <1>28, <1>29, <1>30, <1>31,
       <1>32, <1>33, <1>34, <1>35, <1>36, <1>37, <1>38 DEF Next, Startup,
       Cleanup, Tending, Watching

\* The invariant holds in every state.
THEOREM SupervisionInvariant == Spec => []IInv
<1>1. Init => IInv
  <2> SUFFICES ASSUME Init
               PROVE  IInv
    OBVIOUS
  <2>1. TypeOK
    BY SupervisionAssumption, Idle DEF Init, TypeOK, NoWorker, WorkerState
  <2>2. Standing /\ Launching /\ RunningIsRecorded
    BY SupervisionAssumption
       DEF Init, NoSup, NoWorker, Standing, Launching, RunningIsRecorded, LeaseTaken,
           OwnerTaken, Open, Starting, Alive
  <2> QED
    BY <2>1, <2>2 DEF Init, IInv
<1>2. IInv /\ [Next]_vars => IInv'
  BY TypeStep, StandingStep, LaunchingStep DEF IInv
<1> QED
  BY <1>1, <1>2, PTL DEF Spec

\* The variables have their types in every state.
THEOREM SupervisionTypeOK == Spec => []TypeOK
<1>1. IInv => TypeOK
  BY DEF IInv
<1> QED
  BY <1>1, SupervisionInvariant, PTL

\* A supervisor that serves keeps the lock, the owner record and the socket
\* until it ends, whatever starts or ends beside it.
THEOREM SocketIsKept == Spec => []SocketOfTheOwner
<1>1. IInv => SocketOfTheOwner
  BY DEF IInv, Standing, SocketOfTheOwner, LeaseTaken, OwnerTaken, Open
<1> QED
  BY <1>1, SupervisionInvariant, PTL

\* launchWorker and recoverWorker never leave a worker running that the
\* descriptor does not name: at most one process of the worker runs.
THEOREM OneRecordedWorker == Spec => []RunningIsRecorded
<1>1. IInv => RunningIsRecorded
  BY DEF IInv
<1> QED
  BY <1>1, SupervisionInvariant, PTL

\* A worker obeys no supervisor that another one has succeeded.
THEOREM OwnerIsObeyed == Spec => []ObeysTheOwner
<1>1. IInv => ObeysTheOwner
  BY DEF IInv, ObeysTheOwner
<1> QED
  BY <1>1, SupervisionInvariant, PTL

\* No supervisor records a result after another one has succeeded it.
THEOREM OwnerRecords == Spec => []ResultsOfTheOwner
<1>1. IInv => ResultsOfTheOwner
  BY DEF IInv, ResultsOfTheOwner
<1> QED
  BY <1>1, SupervisionInvariant, PTL
=============================================================================
