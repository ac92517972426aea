----------------------------- MODULE CronProofs -----------------------------
(***************************************************************************)
(* What scheduled prompts promise, for any number of jobs, sessions,       *)
(* runtimes, run times and crashes.                                        *)
(*                                                                         *)
(* Run times only pass: one that was claimed or delivered is behind its    *)
(* job's schedule and never due again (TicksOK), so a new claim is a new   *)
(* dispatch.  A dispatch waits in one lane, once, with its claim on disk   *)
(* and its job in an artifact the worker knows (LanesOK); the claims of    *)
(* those artifacts are just these (ClaimsWait), because an artifact that   *)
(* is new to the worker loses the claims of the last one before jobs can   *)
(* move to it (BindStep).                                                  *)
(***************************************************************************)
EXTENDS CronJobs, FiniteSetTheorems, SequenceTheorems, TLAPS

-----------------------------------------------------------------------------
(* The invariant.                                                          *)

Dispatches == [job : Jobs, tick : 1..MaxTicks]

\* What a job's schedule can be: a recurring job that is active has a next run
\* time, a one-time job has only one.
JobOK(j) ==
    /\ job[j].next = "due" => job[j].tick >= 1
    /\ job[j].status = "active" /\ Kind[j] # "once" => job[j].next # "none"
    /\ Kind[j] = "once" => job[j].tick <= 1 /\ (job[j].next = "later" => job[j].tick = 0)
    /\ job[j].status # "none" /\ job[j].file \in registered => job[j].bound # None
JobsOK == \A j \in Jobs : JobOK(j)

\* A run time that was claimed or delivered has passed, and is not due again.
Spent(d) ==
    /\ job[d.job].status # "none"
    /\ d.tick <= job[d.job].tick
    /\ job[d.job].next = "due" => d.tick # job[d.job].tick
TicksOK ==
    /\ \A c \in claims : Spent(c)
    /\ \A n \in 1..Len(deliveries) : Spent(deliveries[n])

OneClaim == \A c, d \in claims : c.job = d.job => c = d

\* The claims of the artifacts the worker knows are those of its dispatches.
Waits(c) == \E r \in Runtimes : \E i \in 1..Len(lane[r]) : lane[r][i] = c
ClaimsWait == \A c \in claims : job[c.job].file \in registered => Waits(c)

Delivered(d) == \E n \in 1..Len(deliveries) : deliveries[n] = d
LaneOK(r, i) ==
    /\ lane[r][i] \in claims
    /\ job[lane[r][i].job].file \in registered
    /\ \A q \in Runtimes : \A k \in 1..Len(lane[q]) : lane[r][i] = lane[q][k] => r = q /\ i = k
    /\ i # 1 \/ step[r] # "prompted" => ~Delivered(lane[r][i])
LanesOK == \A r \in Runtimes : \A i \in 1..Len(lane[r]) : LaneOK(r, i)

DeliveredOnce ==
    \A m, n \in 1..Len(deliveries) : deliveries[m] = deliveries[n] => m = n

WorkerOK ==
    /\ ~up => registered = {} /\ phase = "none" /\ ~stopped /\ \A r \in Runtimes : lane[r] = <<>>
    /\ phase # "none" => stopped
    /\ phase = "prepared" => \A r \in Runtimes : lane[r] = <<>>

IInv ==
    /\ TypeOK /\ JobsOK /\ TicksOK /\ OneClaim /\ ClaimsWait /\ LanesOK /\ DeliveredOnce
    /\ WorkerOK /\ NextRunIsArmed

\* What an action has to keep beside the types and the timer.
Rest == JobsOK /\ TicksOK /\ OneClaim /\ ClaimsWait /\ LanesOK /\ DeliveredOnce /\ WorkerOK

-----------------------------------------------------------------------------
(* What the steps have in common.                                          *)

\* What is claimed, waits or was delivered, is a dispatch of a job.
LEMMA DispatchTypes ==
    ASSUME TypeOK
    PROVE  /\ \A c \in claims : c \in Dispatches /\ c.job \in Jobs
           /\ \A n \in 1..Len(deliveries) :
                deliveries[n] \in Dispatches /\ deliveries[n].job \in Jobs
           /\ \A r \in Runtimes : /\ lane[r] \in Seq(Dispatches) /\ Len(lane[r]) \in Nat
                                  /\ \A i \in 1..Len(lane[r]) : lane[r][i] \in Dispatches
                                                             /\ lane[r][i].job \in Jobs
<1>1. \A d \in Dispatches : d.job \in Jobs
  BY DEF Dispatches
<1>2. claims \subseteq Dispatches /\ deliveries \in Seq(Dispatches)
      /\ lane \in [Runtimes -> Seq(Dispatches)]
  BY DEF TypeOK, Dispatches
<1>3. \A n \in 1..Len(deliveries) : deliveries[n] \in Dispatches
  BY <1>2
<1>4. ASSUME NEW r \in Runtimes
      PROVE  /\ lane[r] \in Seq(Dispatches) /\ Len(lane[r]) \in Nat
             /\ \A i \in 1..Len(lane[r]) : lane[r][i] \in Dispatches
  BY <1>2
<1> QED
  BY <1>1, <1>2, <1>3, <1>4

\* Run times stay spent while no job falls due.
LEMMA TicksKept ==
    ASSUME TypeOK, TicksOK, claims' \subseteq claims, deliveries' = deliveries,
           \A k \in Jobs : job[k].status # "none" =>
              /\ job'[k].status # "none" /\ job'[k].tick = job[k].tick
              /\ job'[k].next = "due" => job[k].next = "due"
    PROVE  TicksOK'
<1>1. ASSUME NEW c, c.job \in Jobs, Spent(c)
      PROVE  Spent(c)'
  BY <1>1 DEF Spent
<1>2. \A c \in claims' : Spent(c)'
  BY <1>1, DispatchTypes DEF TicksOK
<1>3. ASSUME NEW n \in 1..Len(deliveries)
      PROVE  Spent(deliveries[n])'
  <2>1. deliveries[n].job \in Jobs /\ Spent(deliveries[n])
    BY DispatchTypes DEF TicksOK
  <2> QED
    BY <2>1 DEF Spent
<1> QED
  BY <1>2, <1>3 DEF TicksOK

\* A job that is created, paused, resumed or cancelled: no dispatch is touched.
LEMMA JobsChange ==
    ASSUME IInv,
           UNCHANGED <<claims, registered, up, stopped, lane, step, phase, deliveries>>,
           \A k \in Jobs : job[k].status # "none" =>
              /\ job'[k].status # "none" /\ job'[k].tick = job[k].tick
              /\ job'[k].next = "due" => job[k].next = "due"
              /\ job'[k].file = job[k].file,
           JobsOK'
    PROVE  Rest'
<1>1. TicksOK'
  BY TicksKept DEF IInv
<1>2. OneClaim'
  BY DEF IInv, OneClaim
<1>3. ClaimsWait'
  BY DEF IInv, TypeOK, ClaimsWait, Waits, TicksOK, Spent
<1>4. LanesOK'
  <2> SUFFICES ASSUME NEW r \in Runtimes, NEW i \in 1..Len(lane[r])
               PROVE  LaneOK(r, i)'
    BY DEF LanesOK
  <2>1. LaneOK(r, i)
    BY DEF IInv, LanesOK
  <2>2. lane[r][i] \in claims /\ job[lane[r][i].job].status # "none" /\ lane[r][i].job \in Jobs
    BY <2>1 DEF IInv, TypeOK, LaneOK, TicksOK, Spent
  <2>3. ~Delivered(lane[r][i])' = ~Delivered(lane[r][i])
    BY DEF Delivered
  <2> QED
    BY <2>1, <2>2, <2>3 DEF LaneOK
<1>5. DeliveredOnce' /\ WorkerOK'
  BY DEF IInv, DeliveredOnce, WorkerOK
<1> QED
  BY <1>1, <1>2, <1>3, <1>4, <1>5 DEF Rest

\* The end of a lane's first dispatch.
LEMMA RecordStep ==
    ASSUME IInv, NEW r \in Runtimes, lane[r] # <<>>, up, NEW outcome, Record(r, outcome)
    PROVE  Rest'
<1> DEFINE d == Head(lane[r])
<1>1. /\ lane[r] \in Seq(Dispatches) /\ Len(lane[r]) \in Nat \ {0} /\ d = lane[r][1]
      /\ d \in Dispatches /\ d.job \in Jobs
  <2>1. lane[r] \in Seq(Dispatches)
    BY DispatchTypes DEF IInv
  <2>2. Len(lane[r]) \in Nat \ {0} /\ d = lane[r][1]
    BY <2>1
  <2> QED
    BY <2>1, <2>2, DispatchTypes DEF IInv
<1>2. /\ lane' = [lane EXCEPT ![r] = Tail(@)] /\ step' = [step EXCEPT ![r] = "queued"]
      /\ claims' = claims \ {d}
      /\ UNCHANGED <<registered, open, up, stopped, timer, phase, deliveries>>
  BY DEF Record, sessions
<1>3. /\ Len(lane'[r]) = Len(lane[r]) - 1
      /\ \A i \in 1..Len(lane'[r]) : lane'[r][i] = lane[r][i + 1] /\ i + 1 \in 1..Len(lane[r])
      /\ \A q \in Runtimes : q # r => lane'[q] = lane[q]
  BY <1>1, <1>2 DEF IInv, TypeOK
<1>4. \A k \in Jobs :
        /\ job'[k].tick = job[k].tick /\ job'[k].file = job[k].file
        /\ job'[k].bound = job[k].bound
        /\ job[k].status # "none" => job'[k].status # "none"
        /\ job'[k].status = "none" <=> job[k].status = "none"
        /\ job'[k].next = "due" => job[k].next = "due"
  BY SMTT(30), <1>1 DEF Record, IInv, TypeOK, Ended, Advanced
<1>5. JobsOK'
  <2> SUFFICES ASSUME NEW k \in Jobs
               PROVE  JobOK(k)'
    BY DEF JobsOK
  <2>1. JobOK(k)
    BY DEF IInv, JobsOK
  <2>2. CASE job'[k] = job[k]
    BY <1>2, <2>1, <2>2 DEF JobOK
  <2>3. CASE job'[k] # job[k]
    <3>1. /\ k = d.job /\ job[k].status = "active" /\ job'[k].status = Ended(k)
          /\ job'[k].next \in {job[k].next, Advanced(k)}
      BY SMTT(30), <1>1, <2>3 DEF Record, IInv, TypeOK
    <3> QED
      BY <1>2, <1>4, <2>1, <3>1 DEF JobOK, Ended, Advanced
  <2> QED
    BY <2>2, <2>3
<1>6. TicksOK'
  BY <1>2, <1>4, TicksKept DEF IInv
<1>7. OneClaim'
  BY <1>2 DEF IInv, OneClaim
<1>8. ClaimsWait'
  <2> SUFFICES ASSUME NEW c \in claims', job'[c.job].file \in registered'
               PROVE  Waits(c)'
    BY DEF ClaimsWait
  <2>1. c \in claims /\ c # d /\ Waits(c)
    BY <1>2, <1>4 DEF IInv, TypeOK, ClaimsWait
  <2>2. PICK q \in Runtimes : \E i \in 1..Len(lane[q]) : lane[q][i] = c
    BY <2>1 DEF Waits
  <2>3. PICK i \in 1..Len(lane[q]) : lane[q][i] = c
    BY <2>2
  <2>4. CASE q # r
    BY <1>3, <2>3, <2>4 DEF Waits
  <2>5. CASE q = r
    <3>1. i # 1
      BY <1>1, <2>1, <2>3, <2>5
    <3>2. i - 1 \in 1..Len(lane'[r]) /\ lane'[r][i - 1] = c
      BY <1>1, <1>3, <2>3, <2>5, <3>1
    <3> QED
      BY <3>2 DEF Waits
  <2> QED
    BY <2>4, <2>5
<1>9. LanesOK'
  <2>1. ASSUME NEW q \in Runtimes, NEW i \in 1..Len(lane'[q])
        PROVE  \E k \in 1..Len(lane[q]) :
                 /\ lane'[q][i] = lane[q][k] /\ k = IF q = r THEN i + 1 ELSE i
    BY <1>3
  <2> SUFFICES ASSUME NEW q \in Runtimes, NEW i \in 1..Len(lane'[q])
               PROVE  LaneOK(q, i)'
    BY DEF LanesOK
  <2>2. PICK k \in 1..Len(lane[q]) : lane'[q][i] = lane[q][k] /\ k = IF q = r THEN i + 1 ELSE i
    BY <2>1
  <2>3. LaneOK(q, k) /\ LaneOK(r, 1)
    BY <1>1 DEF IInv, LanesOK
  <2>4. lane[q][k] # d
    BY <1>1, <2>2, <2>3 DEF LaneOK
  <2>5. lane'[q][i] \in claims' /\ job'[lane'[q][i].job].file \in registered'
    <3>1. lane[q][k] \in claims /\ job[lane[q][k].job].file \in registered
      BY <2>3 DEF LaneOK
    <3>2. lane[q][k].job \in Jobs
      BY DispatchTypes DEF IInv
    <3>3. job'[lane[q][k].job].file \in registered'
      BY <1>2, <1>4, <3>1, <3>2
    <3> QED
      BY <1>2, <2>2, <2>4, <3>1, <3>3
  <2>6. ASSUME NEW p \in Runtimes, NEW m \in 1..Len(lane'[p]), lane'[q][i] = lane'[p][m]
        PROVE  q = p /\ i = m
    <3>1. PICK n \in 1..Len(lane[p]) : lane'[p][m] = lane[p][n] /\ n = IF p = r THEN m + 1 ELSE m
      BY <2>1
    <3> QED
      BY <1>1, <1>3, <2>2, <2>3, <2>6, <3>1 DEF LaneOK
  <2>7. i # 1 \/ step'[q] # "prompted" => ~Delivered(lane[q][k])
    BY <1>1, <1>2, <2>2, <2>3 DEF LaneOK, IInv, TypeOK
  <2>8. i # 1 \/ step'[q] # "prompted" => ~Delivered(lane[q][i])'
    <3>1. deliveries' = deliveries
      BY <1>2
    <3>2. lane'[q][i] = lane[q][k]
      BY <2>2
    <3> QED
      BY <2>7, <3>1, <3>2 DEF Delivered
  <2> QED
    BY <2>5, <2>6, <2>8 DEF LaneOK
<1>10. DeliveredOnce'
  BY <1>2 DEF IInv, DeliveredOnce
<1>11. WorkerOK'
  BY <1>1, <1>2, <1>3 DEF IInv, WorkerOK
<1> QED
  BY <1>5, <1>6, <1>7, <1>8, <1>9, <1>10, <1>11 DEF Rest

\* The jobs and the dispatches stay what they are.
LEMMA SameStore ==
    ASSUME IInv, UNCHANGED <<job, claims, registered, lane, deliveries>>,
           \A q \in Runtimes : step[q] = "prompted" => step'[q] = "prompted",
           WorkerOK'
    PROVE  Rest'
<1>1. JobsOK' /\ OneClaim' /\ DeliveredOnce' /\ ClaimsWait'
  BY DEF IInv, JobsOK, JobOK, OneClaim, DeliveredOnce, ClaimsWait, Waits
<1>2. TicksOK'
  BY TicksKept DEF IInv
<1>3. LanesOK'
  BY DEF IInv, LanesOK, LaneOK, Delivered
<1> QED
  BY <1>1, <1>2, <1>3 DEF Rest

\* What Bind does to a job.
LEMMA BoundJob ==
    ASSUME TypeOK, NEW r \in Runtimes, NEW s \in Sessions, Bind(r, s), NEW k \in Jobs
    PROVE  /\ job'[k].tick = job[k].tick /\ job'[k].next = job[k].next
           /\ \/ job'[k].status = job[k].status
              \/ /\ job[k].status = "active" /\ job'[k].status = Ended(k)
                 /\ s \notin registered /\ job[k].file = s
           /\ \/ /\ job'[k].file = job[k].file /\ job'[k].bound = job[k].bound
                 /\ job[k].status # "none" /\ job[k].file \in registered \cup {s} =>
                       job[k].file # s
              \/ /\ job[k].status # "none" /\ job[k].file \in registered \cup {s}
                 /\ job'[k].file = s /\ job'[k].bound = r
<1> DEFINE fresh == s \notin registered
           recovered == IF fresh THEN Recovered(s) ELSE job
           files == registered \cup {s}
<1>1. /\ recovered[k].tick = job[k].tick /\ recovered[k].next = job[k].next
      /\ recovered[k].file = job[k].file /\ recovered[k].bound = job[k].bound
      /\ \/ recovered[k].status = job[k].status
         \/ /\ job[k].status = "active" /\ recovered[k].status = Ended(k)
            /\ fresh /\ job[k].file = s
  BY DEF Recovered, Interrupted, TypeOK
<1>2. recovered[k].status # "none" <=> job[k].status # "none"
  BY <1>1 DEF Ended
<1>3. recovered[k] = [status |-> recovered[k].status, next |-> recovered[k].next,
                      tick |-> recovered[k].tick, file |-> recovered[k].file,
                      bound |-> recovered[k].bound]
  BY DEF Recovered, TypeOK
<1>4. job' = Rebound(recovered, files, r, s)
  BY DEF Bind
<1> HIDE DEF recovered
<1>5. CASE k \in Visible(recovered, files) /\ (recovered[k].bound = r \/ recovered[k].file = s)
  <2>1. job'[k] = [recovered[k] EXCEPT !.file = s, !.bound = r]
    BY <1>4, <1>5 DEF Rebound
  <2> QED
    BY <1>1, <1>2, <1>3, <1>5, <2>1 DEF Visible
<1>6. CASE ~(k \in Visible(recovered, files) /\ (recovered[k].bound = r \/ recovered[k].file = s))
  <2>1. job'[k] = recovered[k]
    BY <1>4, <1>6 DEF Rebound
  <2> QED
    BY <1>1, <1>2, <1>6, <2>1 DEF Visible
<1> QED
  BY <1>5, <1>6

\* Binding a session to a runtime: an artifact that is new to the worker is
\* recovered before jobs of other artifacts can move to it.
LEMMA BindStep ==
    ASSUME IInv, NEW r \in Runtimes, NEW s \in Sessions, Bind(r, s), up',
           UNCHANGED <<lane, phase, stopped, deliveries>>,
           \A q \in Runtimes : step[q] = "prompted" => step'[q] = "prompted"
    PROVE  Rest'
<1> USE CronAssumption
<1>1. registered' = registered \cup {s} /\ claims' \subseteq claims
      /\ claims' = IF s \notin registered THEN claims \ Interrupted(s) ELSE claims
  BY DEF Bind
<1>2. ASSUME NEW k \in Jobs
      PROVE  /\ job'[k].tick = job[k].tick /\ job'[k].next = job[k].next
             /\ job'[k].status \in {job[k].status, Ended(k)}
             /\ job[k].status # "none" <=> job'[k].status # "none"
             /\ job'[k].status = "active" => job[k].status = "active"
  <2>1. CASE job'[k].status = job[k].status
    BY <2>1, BoundJob DEF IInv
  <2>2. CASE job'[k].status # job[k].status
    <3>1. job[k].status = "active" /\ job'[k].status = Ended(k)
      BY <2>2, BoundJob DEF IInv
    <3> QED
      BY <3>1, BoundJob DEF IInv, Ended
  <2> QED
    BY <2>1, <2>2
<1>3. JobsOK'
  <2> SUFFICES ASSUME NEW k \in Jobs
               PROVE  JobOK(k)'
    BY DEF JobsOK
  <2>1. JobOK(k)
    BY DEF IInv, JobsOK
  <2>2. job'[k].status # "none" /\ job'[k].file \in registered' => job'[k].bound # None
    <3>1. CASE job'[k].bound = r
      BY <3>1
    <3>2. CASE job'[k].bound # r
      <4>1. job'[k].file = job[k].file /\ job'[k].bound = job[k].bound
            /\ (job[k].status # "none" /\ job[k].file \in registered \cup {s} => job[k].file # s)
        BY <3>2, BoundJob DEF IInv
      <4> QED
        BY <1>1, <1>2, <2>1, <4>1 DEF JobOK
    <3> QED
      BY <3>1, <3>2
  <2> QED
    BY <1>2, <2>1, <2>2 DEF JobOK
<1>4. TicksOK'
  BY <1>1, <1>2, TicksKept DEF IInv
<1>5. OneClaim' /\ DeliveredOnce'
  BY <1>1 DEF IInv, OneClaim, DeliveredOnce
<1>6. ClaimsWait'
  <2> SUFFICES ASSUME NEW c \in claims', job'[c.job].file \in registered'
               PROVE  Waits(c)'
    BY DEF ClaimsWait
  <2>1. c \in claims /\ c.job \in Jobs /\ job[c.job].status # "none"
    BY <1>1, DispatchTypes DEF IInv, TicksOK, Spent
  <2>2. s \notin registered => job[c.job].file # s
    BY <1>1, <2>1 DEF Interrupted
  <2>3. job[c.job].file \in registered
    BY <1>1, <2>1, <2>2, BoundJob DEF IInv
  <2> QED
    BY <2>1, <2>3 DEF IInv, ClaimsWait, Waits
<1>7. LanesOK'
  <2> SUFFICES ASSUME NEW q \in Runtimes, NEW i \in 1..Len(lane[q])
               PROVE  LaneOK(q, i)'
    BY DEF LanesOK
  <2>1. LaneOK(q, i) /\ lane[q][i].job \in Jobs
    BY DispatchTypes DEF IInv, LanesOK
  <2>2. lane[q][i] \in claims'
    BY <1>1, <2>1 DEF LaneOK, Interrupted
  <2>3. job'[lane[q][i].job].file \in registered'
    BY <1>1, <2>1, BoundJob DEF LaneOK, IInv
  <2> QED
    BY <2>1, <2>2, <2>3 DEF LaneOK, Delivered
<1>8. WorkerOK'
  BY DEF IInv, WorkerOK
<1> QED
  BY <1>3, <1>4, <1>5, <1>6, <1>7, <1>8 DEF Rest

\* The worker ends: what was claimed stays claimed, and is in no lane.
LEMMA CrashStep ==
    ASSUME IInv, NEW kept \in Runtimes \cup {None}, Crash(kept)
    PROVE  Rest'
<1>1. \A k \in Jobs : /\ job'[k].tick = job[k].tick /\ job'[k].next = job[k].next
                      /\ job'[k].status = job[k].status /\ job'[k].file = job[k].file
  BY DEF Crash, IInv, TypeOK
<1>2. registered' = {} /\ lane' = [r \in Runtimes |-> <<>>]
  BY DEF Crash
<1>3. JobsOK'
  BY <1>1, <1>2 DEF IInv, JobsOK, JobOK
<1>4. TicksOK'
  BY <1>1, TicksKept DEF Crash, IInv
<1>5. OneClaim' /\ DeliveredOnce'
  BY DEF Crash, IInv, OneClaim, DeliveredOnce
<1>6. ClaimsWait' /\ LanesOK'
  BY <1>2 DEF ClaimsWait, LanesOK
<1>7. WorkerOK'
  BY <1>2 DEF WorkerOK, Crash
<1> QED
  BY <1>3, <1>4, <1>5, <1>6, <1>7 DEF Rest

\* A run time passes: it is none of those that were claimed or delivered.
LEMMA PassStep ==
    ASSUME IInv, NEW j \in Jobs, RunTimePasses(j)
    PROVE  Rest'
<1>1. /\ job[j].status = "active" /\ job[j].next = "later" /\ job[j].tick \in Nat
      /\ job'[j].tick = job[j].tick + 1 /\ job'[j].next = "due"
      /\ job'[j].status = job[j].status /\ job'[j].file = job[j].file
      /\ job'[j].bound = job[j].bound
      /\ \A k \in Jobs : k # j => job'[k] = job[k]
      /\ UNCHANGED <<claims, registered, up, stopped, lane, step, phase, deliveries>>
  BY DEF RunTimePasses, IInv, TypeOK, sessions, scheduler
<1>2. JobsOK'
  BY <1>1 DEF IInv, JobsOK, JobOK
<1>3. ASSUME NEW d \in Dispatches, d.job \in Jobs, Spent(d)
      PROVE  Spent(d)'
  <2>1. d.tick \in Nat
    BY DEF Dispatches
  <2> QED
    BY <1>1, <1>3, <2>1 DEF Spent
<1>4. \A c \in claims' : Spent(c)'
  BY <1>1, <1>3, DispatchTypes DEF IInv, TicksOK
<1>5. ASSUME NEW n \in 1..Len(deliveries)
      PROVE  Spent(deliveries[n])'
  <2>1. Spent(deliveries[n]) /\ deliveries[n] \in Dispatches /\ deliveries[n].job \in Jobs
    BY DispatchTypes DEF IInv, TicksOK
  <2> DEFINE d == deliveries[n]
  <2>2. d.tick \in Nat
    BY <2>1 DEF Dispatches
  <2> QED
    BY <1>1, <2>1, <2>2 DEF Spent
<1>6. TicksOK'
  BY <1>1, <1>4, <1>5 DEF TicksOK
<1>7. OneClaim' /\ DeliveredOnce' /\ WorkerOK'
  BY <1>1 DEF IInv, OneClaim, DeliveredOnce, WorkerOK
<1>8. \A k \in Jobs : job'[k].file = job[k].file
  BY <1>1
<1>9. ClaimsWait'
  BY <1>1, <1>8, DispatchTypes DEF IInv, ClaimsWait, Waits
<1>10. LanesOK'
  BY <1>1, <1>8, DispatchTypes DEF IInv, LanesOK, LaneOK, Delivered
<1> QED
  BY <1>2, <1>6, <1>7, <1>9, <1>10 DEF Rest

\* A prompt is handed over: its dispatch is the first of its lane, and only there.
LEMMA DeliverStep ==
    ASSUME IInv, NEW r \in Runtimes, Deliver(r)
    PROVE  Rest'
<1> DEFINE d == Head(lane[r])
<1>1. 1 \in 1..Len(lane[r]) /\ d = lane[r][1] /\ step[r] = "ready" /\ d \in Dispatches
      /\ d.job \in Jobs
  <2>1. lane[r] \in Seq(Dispatches) /\ lane[r] # <<>>
    BY DispatchTypes DEF Deliver, AtStep, IInv
  <2>2. 1 \in 1..Len(lane[r]) /\ d = lane[r][1]
    BY <2>1
  <2> QED
    BY <2>2, DispatchTypes DEF Deliver, AtStep, IInv
<1>2. /\ deliveries' = Append(deliveries, d) /\ step' = [step EXCEPT ![r] = "prompted"]
      /\ UNCHANGED <<job, claims, registered, up, stopped, lane, phase>>
  BY DEF Deliver, store, sessions
<1>3. LaneOK(r, 1)
  BY <1>1 DEF IInv, LanesOK
<1>4. d \in claims /\ ~Delivered(d) /\ Spent(d)
  BY <1>1, <1>3 DEF LaneOK, IInv, TicksOK
<1>5. deliveries \in Seq(Dispatches) /\ Len(deliveries) \in Nat
  <2>1. deliveries \in Seq(Dispatches)
    BY DEF IInv, TypeOK, Dispatches
  <2> QED
    BY <2>1
<1>6. /\ Len(deliveries') = Len(deliveries) + 1 /\ deliveries'[Len(deliveries) + 1] = d
      /\ \A n \in 1..Len(deliveries) : deliveries'[n] = deliveries[n]
  BY <1>1, <1>2, <1>5
<1>7. DeliveredOnce'
  BY <1>4, <1>5, <1>6 DEF IInv, DeliveredOnce, Delivered
<1>8. TicksOK'
  <2>1. ASSUME NEW c \in claims
        PROVE  Spent(c)'
    BY <1>2 DEF IInv, TicksOK, Spent
  <2>2. ASSUME NEW n \in 1..Len(deliveries')
        PROVE  Spent(deliveries[n])'
    <3>1. CASE n = Len(deliveries) + 1
      BY <1>2, <1>4, <1>6, <3>1 DEF Spent
    <3>2. CASE n # Len(deliveries) + 1
      <4>1. n \in 1..Len(deliveries)
        BY <1>5, <1>6, <3>2
      <4> QED
        BY <1>2, <1>6, <4>1 DEF IInv, TicksOK, Spent
    <3> QED
      BY <3>1, <3>2
  <2> QED
    BY <1>2, <2>1, <2>2 DEF TicksOK
<1>9. LanesOK'
  <2> SUFFICES ASSUME NEW q \in Runtimes, NEW i \in 1..Len(lane[q])
               PROVE  LaneOK(q, i)'
    BY <1>2 DEF LanesOK
  <2>1. LaneOK(q, i)
    BY DEF IInv, LanesOK
  <2>2. ASSUME i # 1 \/ step'[q] # "prompted"
        PROVE  ~Delivered(lane[q][i])'
    <3>1. step'[q] = IF q = r THEN "prompted" ELSE step[q]
      BY <1>2 DEF IInv, TypeOK
    <3>2. lane[q][i] # d
      BY <1>1, <2>1, <2>2, <3>1 DEF LaneOK
    <3>3. ~Delivered(lane[q][i])
      BY <2>1, <2>2, <3>1 DEF LaneOK
    <3> QED
      BY <1>2, <1>5, <1>6, <3>2, <3>3 DEF Delivered
  <2> QED
    BY <1>2, <2>1, <2>2 DEF LaneOK
<1>10. JobsOK' /\ OneClaim' /\ ClaimsWait' /\ WorkerOK'
  BY <1>2 DEF IInv, JobsOK, JobOK, OneClaim, ClaimsWait, Waits, WorkerOK
<1> QED
  BY <1>7, <1>8, <1>9, <1>10 DEF Rest

\* SetToSeq lists every element of a finite set, once.
LEMMA SetToSeqLists ==
    ASSUME NEW S, IsFiniteSet(S)
    PROVE  /\ SetToSeq(S) \in Seq(S) /\ IsInjective(SetToSeq(S))
           /\ \A x \in S : \E i \in DOMAIN SetToSeq(S) : SetToSeq(S)[i] = x
<1> DEFINE n == Cardinality(S)
<1>1. n \in Nat /\ ExistsBijection(1..n, S)
  BY FS_CardinalityType
<1>2. \E f \in [1..n -> S] : IsInjective(f)
  BY <1>1 DEF ExistsBijection, Bijection, Injection
<1>3. SetToSeq(S) \in [1..n -> S] /\ IsInjective(SetToSeq(S))
  BY <1>2 DEF SetToSeq
<1>4. SetToSeq(S) \in Injection(1..n, S)
  BY <1>3 DEF Injection
<1>5. IsFiniteSet(1..n) /\ Cardinality(1..n) = n
  BY <1>1, FS_Interval
<1>6. SetToSeq(S) \in Surjection(1..n, S)
  BY <1>4, <1>5, FS_Injection
<1> QED
  BY <1>1, <1>3, <1>6 DEF Surjection

\* What runDue claims, and what of it waits in the lane of a runtime.
NewFor(r) == {d \in NewDispatches : job[d.job].bound = r}

\* A new dispatch is that of a due job without a claim.
LEMMA NewTypes ==
    ASSUME TypeOK, JobsOK, NEW d \in NewDispatches
    PROVE  /\ d \in Dispatches /\ d.job \in Jobs /\ d.tick = job[d.job].tick
           /\ job[d.job].status = "active" /\ job[d.job].next = "due"
           /\ job[d.job].file \in registered /\ ~Claimed(d.job) /\ d.job \in DueJobs
<1>1. PICK j \in DueJobs : ~Claimed(j) /\ d = Dispatch(j)
  BY DEF NewDispatches
<1>2. j \in Jobs /\ job[j].status = "active" /\ job[j].next = "due" /\ job[j].file \in registered
  BY DEF DueJobs, Visible, IsDue
<1>3. job[j].tick \in 1..MaxTicks
  <2>1. job[j].tick \in 0..MaxTicks /\ job[j].tick >= 1
    BY <1>2 DEF TypeOK, JobsOK, JobOK
  <2> QED
    BY <2>1, CronAssumption
<1> QED
  BY <1>1, <1>2, <1>3 DEF Dispatch, Dispatches

\* The new dispatches of a runtime wait in its lane, each of them once.
LEMMA NewWaits ==
    ASSUME TypeOK, JobsOK, NEW r \in Runtimes
    PROVE  /\ SetToSeq(NewFor(r)) \in Seq(Dispatches) /\ SetToSeq(NewFor(r)) \in Seq(NewFor(r))
           /\ IsInjective(SetToSeq(NewFor(r)))
           /\ \A x \in NewFor(r) : \E i \in DOMAIN SetToSeq(NewFor(r)) : SetToSeq(NewFor(r))[i] = x
<1>1. IsFiniteSet(NewDispatches)
  <2>1. IsFiniteSet({k \in DueJobs : ~Claimed(k)})
    <3>1. {k \in DueJobs : ~Claimed(k)} \subseteq Jobs
      BY DEF DueJobs, Visible
    <3> QED
      BY <3>1, CronAssumption, FS_Subset
  <2> DEFINE K == {k \in DueJobs : ~Claimed(k)}
             f == [k \in K |-> Dispatch(k)]
  <2>2. f \in Surjection(K, NewDispatches)
    BY DEF Surjection, NewDispatches
  <2> QED
    BY <2>1, <2>2, FS_Surjection
<1>2. IsFiniteSet(NewFor(r)) /\ NewFor(r) \subseteq Dispatches
  BY <1>1, NewTypes, FS_Subset DEF NewFor
<1>3. SetToSeq(NewFor(r)) \in Seq(NewFor(r))
  BY <1>2, SetToSeqLists
<1> QED
  BY <1>2, <1>3, SetToSeqLists

\* runDue: every due job advances; what it claims was not claimed or delivered
\* before, and waits in the lane of the job's runtime.
LEMMA RunDueStep ==
    ASSUME IInv, RunDue
    PROVE  Rest'
<1> USE CronAssumption
<1> DEFINE new(r) == SetToSeq(NewFor(r))
<1>1. /\ job' = ClaimedJobs /\ claims' = claims \cup NewDispatches
      /\ lane' = [r \in Runtimes |-> lane[r] \o new(r)]
      /\ up /\ ~stopped /\ UNCHANGED <<registered, up, stopped, step, phase, deliveries>>
  BY DEF RunDue, sessions, NewFor
<1>2. \A k \in Jobs : /\ job'[k].tick = job[k].tick /\ job'[k].file = job[k].file
                      /\ job'[k].status = job[k].status /\ job'[k].bound = job[k].bound
                      /\ job'[k].next = IF k \in DueJobs THEN Advanced(k) ELSE job[k].next
                      /\ k \in DueJobs => job[k].next = "due"
  BY <1>1 DEF ClaimedJobs, IInv, TypeOK, DueJobs, IsDue
<1>3. \A d \in NewDispatches :
        /\ d \in Dispatches /\ d.job \in Jobs /\ d.tick = job[d.job].tick
        /\ job[d.job].status = "active" /\ job[d.job].next = "due"
        /\ job[d.job].file \in registered /\ ~Claimed(d.job) /\ d.job \in DueJobs
  BY NewTypes DEF IInv
<1>4. ASSUME NEW r \in Runtimes
      PROVE  /\ lane[r] \in Seq(Dispatches) /\ Len(lane[r]) \in Nat
             /\ new(r) \in Seq(NewFor(r)) /\ Len(new(r)) \in Nat /\ IsInjective(new(r))
             /\ DOMAIN new(r) = 1..Len(new(r))
             /\ \A x \in NewFor(r) : \E i \in 1..Len(new(r)) : new(r)[i] = x
             /\ Len(lane'[r]) = Len(lane[r]) + Len(new(r))
             /\ \A i \in 1..Len(lane[r]) : lane'[r][i] = lane[r][i]
             /\ \A i \in 1..Len(new(r)) : lane'[r][Len(lane[r]) + i] = new(r)[i]
  <2>1. lane[r] \in Seq(Dispatches) /\ Len(lane[r]) \in Nat
    BY DispatchTypes DEF IInv
  <2>2. /\ new(r) \in Seq(Dispatches) /\ new(r) \in Seq(NewFor(r)) /\ IsInjective(new(r))
        /\ \A x \in NewFor(r) : \E i \in DOMAIN new(r) : new(r)[i] = x
    BY NewWaits DEF IInv
  <2>3. lane'[r] = lane[r] \o new(r)
    BY <1>1
  <2> HIDE DEF new
  <2>4. Len(new(r)) \in Nat /\ DOMAIN new(r) = 1..Len(new(r))
    BY <2>2
  <2> QED
    BY <2>1, <2>2, <2>3, <2>4
<1> HIDE DEF new
<1>len. \A r \in Runtimes : /\ Len(lane[r]) \in Nat /\ Len(new(r)) \in Nat
                         /\ Len(lane'[r]) = Len(lane[r]) + Len(new(r))
  BY <1>4
<1>old. \A r \in Runtimes : \A i \in 1..Len(lane[r]) : lane'[r][i] = lane[r][i]
  BY <1>4
<1>new. \A r \in Runtimes : \A i \in 1..Len(new(r)) : lane'[r][Len(lane[r]) + i] = new(r)[i]
  BY <1>4
<1>5. ASSUME NEW r \in Runtimes, NEW i \in 1..Len(new(r))
      PROVE  new(r)[i] \in NewDispatches /\ job[new(r)[i].job].bound = r
  <2>1. new(r)[i] \in NewFor(r)
    BY <1>4
  <2> QED
    BY <2>1 DEF NewFor
<1>6. JobsOK'
  <2> SUFFICES ASSUME NEW k \in Jobs
               PROVE  JobOK(k)'
    BY DEF JobsOK
  <2>1. JobOK(k)
    BY DEF IInv, JobsOK
  <2> QED
    BY <1>1, <1>2, <2>1 DEF JobOK, Advanced
<1>7. TicksOK'
  <2>1. ASSUME NEW c, c.job \in Jobs, Spent(c)
        PROVE  Spent(c)'
    BY <1>2, <2>1 DEF Spent, Advanced
  <2>2. ASSUME NEW c \in NewDispatches
        PROVE  Spent(c)'
    <3>1. job[c.job].tick \in Nat
      BY <1>3 DEF IInv, TypeOK
    <3> QED
      BY <1>2, <1>3, <3>1 DEF Spent, Advanced
  <2>3. \A c \in claims' : Spent(c)'
    BY <1>1, <2>1, <2>2, DispatchTypes DEF IInv, TicksOK
  <2>4. ASSUME NEW n \in 1..Len(deliveries)
        PROVE  Spent(deliveries[n])'
    <3>1. deliveries[n].job \in Jobs /\ Spent(deliveries[n])
      BY DispatchTypes DEF IInv, TicksOK
    <3> QED
      BY <1>1, <1>2, <3>1 DEF Spent, Advanced
  <2> QED
    BY <1>1, <2>3, <2>4 DEF TicksOK
<1>8. OneClaim'
  <2>1. \A c \in claims, d \in NewDispatches : c.job # d.job
    BY <1>3 DEF Claimed
  <2>2. \A c, d \in NewDispatches : c.job = d.job => c = d
    BY DEF NewDispatches, Dispatch
  <2> QED
    BY <1>1, <2>1, <2>2 DEF IInv, OneClaim
<1>9. ClaimsWait'
  <2> SUFFICES ASSUME NEW c \in claims', job'[c.job].file \in registered'
               PROVE  Waits(c)'
    BY DEF ClaimsWait
  <2>1. CASE c \in claims
    <3>1. job[c.job].file \in registered
      BY <1>1, <1>2, <2>1, DispatchTypes DEF IInv
    <3>2. PICK r \in Runtimes : \E i \in 1..Len(lane[r]) : lane[r][i] = c
      BY <2>1, <3>1 DEF IInv, ClaimsWait, Waits
    <3>3. \E i \in 1..Len(lane'[r]) : lane'[r][i] = c
      <4>1. PICK i \in 1..Len(lane[r]) : lane[r][i] = c
        BY <3>2
      <4>2. i \in 1..Len(lane'[r])
        BY <1>len, <4>1
      <4>3. lane'[r][i] = c
        BY <1>old, <4>1
      <4> QED
        BY <4>2, <4>3
    <3> QED
      BY <3>3 DEF Waits
  <2>2. CASE c \in NewDispatches
    <3> DEFINE r == job[c.job].bound
    <3>1. r \in Runtimes
      BY <1>3, <2>2 DEF IInv, TypeOK, JobsOK, JobOK
    <3>2. PICK i \in 1..Len(new(r)) : new(r)[i] = c
      BY <1>4, <2>2, <3>1 DEF NewFor
    <3>3. Len(lane[r]) + i \in 1..Len(lane'[r]) /\ lane'[r][Len(lane[r]) + i] = c
      <4>1. Len(lane[r]) + i \in 1..Len(lane'[r])
        BY <1>len, <3>1, <3>2
      <4> QED
        BY <1>new, <3>1, <3>2, <4>1
    <3> QED
      BY <3>1, <3>3 DEF Waits
  <2> QED
    BY <1>1, <2>1, <2>2
<1>10. LanesOK'
  <2>1. ASSUME NEW r \in Runtimes, NEW i \in 1..Len(lane'[r])
        PROVE  \/ i \in 1..Len(lane[r]) /\ lane'[r][i] = lane[r][i] /\ LaneOK(r, i)
               \/ /\ i - Len(lane[r]) \in 1..Len(new(r))
                  /\ lane'[r][i] = new(r)[i - Len(lane[r])]
                  /\ lane'[r][i] \in NewDispatches /\ job[lane'[r][i].job].bound = r
    <3>1. CASE i <= Len(lane[r])
      BY <1>4, <3>1 DEF IInv, LanesOK
    <3>2. CASE ~(i <= Len(lane[r]))
      <4>1. /\ i - Len(lane[r]) \in 1..Len(new(r))
            /\ i = Len(lane[r]) + (i - Len(lane[r]))
        BY <1>len, <3>2
      <4>2. lane'[r][i] = new(r)[i - Len(lane[r])]
        BY <1>new, <4>1
      <4> QED
        BY <1>5, <4>1, <4>2
    <3> QED
      BY <3>1, <3>2
  <2> SUFFICES ASSUME NEW r \in Runtimes, NEW i \in 1..Len(lane'[r])
               PROVE  LaneOK(r, i)'
    BY DEF LanesOK
  <2>2. lane'[r][i] \in claims' /\ job'[lane'[r][i].job].file \in registered'
    <3>1. CASE LaneOK(r, i) /\ i \in 1..Len(lane[r]) /\ lane'[r][i] = lane[r][i]
      BY <1>1, <1>2, <3>1, DispatchTypes DEF LaneOK, IInv
    <3>2. CASE lane'[r][i] \in NewDispatches
      BY <1>1, <1>2, <1>3, <3>2
    <3> QED
      BY <2>1, <3>1, <3>2
  <2>3. ASSUME NEW p \in Runtimes, NEW k \in 1..Len(lane'[p]), lane'[r][i] = lane'[p][k]
        PROVE  r = p /\ i = k
    <3>1. \A c \in claims : c \notin NewDispatches
      BY <1>3 DEF Claimed
    <3>2. CASE lane'[r][i] \in claims
      <4>1. i \in 1..Len(lane[r]) /\ lane'[r][i] = lane[r][i] /\ LaneOK(r, i)
        BY <2>1, <3>1, <3>2
      <4>2. k \in 1..Len(lane[p]) /\ lane'[p][k] = lane[p][k]
        BY <2>1, <2>3, <3>1, <3>2
      <4> QED
        BY <2>3, <4>1, <4>2 DEF LaneOK
    <3>3. CASE lane'[r][i] \notin claims
      <4>1. /\ i - Len(lane[r]) \in 1..Len(new(r)) /\ lane'[r][i] = new(r)[i - Len(lane[r])]
            /\ job[lane'[r][i].job].bound = r
        BY <2>1, <3>3 DEF LaneOK
      <4>2. /\ k - Len(lane[p]) \in 1..Len(new(p)) /\ lane'[p][k] = new(p)[k - Len(lane[p])]
            /\ job[lane'[p][k].job].bound = p
        BY <2>1, <2>3, <3>3 DEF LaneOK
      <4>3. r = p
        BY <2>3, <4>1, <4>2
      <4>4. i - Len(lane[r]) = k - Len(lane[r])
        <5> DEFINE x == i - Len(lane[r])
                   y == k - Len(lane[r])
        <5>1. x \in 1..Len(new(r)) /\ y \in 1..Len(new(r)) /\ new(r)[x] = new(r)[y]
          BY <2>3, <4>1, <4>2, <4>3
        <5>2. \A a, b \in 1..Len(new(r)) : new(r)[a] = new(r)[b] => a = b
          BY <1>4 DEF IsInjective
        <5> HIDE DEF x, y
        <5>3. x = y
          BY <5>1, <5>2
        <5> QED
          BY <5>3 DEF x, y
      <4> QED
        BY <1>len, <4>3, <4>4
    <3> QED
      BY <3>2, <3>3
  <2>4. ASSUME i # 1 \/ step'[r] # "prompted"
        PROVE  ~Delivered(lane[r][i])'
    <3>1. CASE LaneOK(r, i) /\ i \in 1..Len(lane[r]) /\ lane'[r][i] = lane[r][i]
      BY <1>1, <2>4, <3>1 DEF LaneOK, Delivered
    <3>2. CASE lane'[r][i] \in NewDispatches
      <4>1. ~Spent(lane'[r][i])
        BY <1>3, <3>2 DEF Spent
      <4> QED
        BY <1>1, <4>1 DEF IInv, TicksOK, Delivered
    <3> QED
      BY <2>1, <3>1, <3>2
  <2> QED
    BY <2>2, <2>3, <2>4 DEF LaneOK
<1>11. DeliveredOnce' /\ WorkerOK'
  BY <1>1 DEF IInv, DeliveredOnce, WorkerOK
<1> QED
  BY <1>6, <1>7, <1>8, <1>9, <1>10, <1>11 DEF Rest

-----------------------------------------------------------------------------
(* The types.                                                              *)

JobType ==
    [status : Live \cup {"none", "completed", "cancelled"}, next : {"none", "later", "due"},
     tick : 0..MaxTicks, file : Sessions \cup {None}, bound : Runtimes \cup {None}]

\* What the steps do to a job keeps its type.
LEMMA Edits ==
    ASSUME NEW x \in JobType, NEW st \in Live \cup {"none", "completed", "cancelled"},
           NEW nx \in {"none", "later", "due"}, NEW f \in Sessions \cup {None},
           NEW b \in Runtimes \cup {None}
    PROVE  /\ NoJob \in JobType
           /\ [x EXCEPT !.status = st] \in JobType
           /\ [x EXCEPT !.next = nx] \in JobType
           /\ [x EXCEPT !.status = st, !.next = nx] \in JobType
           /\ [x EXCEPT !.file = f, !.bound = b] \in JobType
           /\ [x EXCEPT !.bound = b] \in JobType
           /\ [NoJob EXCEPT !.status = st, !.next = nx, !.file = f, !.bound = b] \in JobType
<1>1. NoJob \in JobType
  BY CronAssumption DEF JobType, NoJob, Live
<1>2. /\ [x EXCEPT !.status = st] \in JobType
      /\ [x EXCEPT !.next = nx] \in JobType
      /\ [x EXCEPT !.status = st, !.next = nx] \in JobType
  BY DEF JobType
<1>3. /\ [x EXCEPT !.file = f, !.bound = b] \in JobType
      /\ [x EXCEPT !.bound = b] \in JobType
  BY DEF JobType
<1>4. [NoJob EXCEPT !.status = st, !.next = nx, !.file = f, !.bound = b] \in JobType
  <2>1. \A y \in JobType :
          [y EXCEPT !.status = st, !.next = nx, !.file = f, !.bound = b] \in JobType
    BY DEF JobType
  <2> QED
    BY <1>1, <2>1
<1> QED
  BY <1>1, <1>2, <1>3, <1>4

\* The names of what a job ends or goes on with.
LEMMA Outcomes ==
    ASSUME NEW j
    PROVE  Advanced(j) \in {"none", "later", "due"}
           /\ Ended(j) \in Live \cup {"none", "completed", "cancelled"}
BY DEF Advanced, Ended, Live

\* Bind keeps the types.
LEMMA BindTypes ==
    ASSUME TypeOK, NEW r \in Runtimes, NEW s \in Sessions, Bind(r, s)
    PROVE  /\ job' \in [Jobs -> JobType] /\ claims' \subseteq Dispatches
           /\ registered' \subseteq Sessions /\ timer' \in BOOLEAN
<1> DEFINE recovered == IF s \notin registered THEN Recovered(s) ELSE job
<1>1. recovered \in [Jobs -> JobType]
  <2>1. job \in [Jobs -> JobType]
    BY DEF TypeOK, JobType
  <2> QED
    BY <2>1, Edits, Outcomes DEF Recovered
<1>2. job' = Rebound(recovered, registered \cup {s}, r, s)
  BY DEF Bind
<1> HIDE DEF recovered
<1>3. job' \in [Jobs -> JobType]
  BY <1>1, <1>2, Edits DEF Rebound
<1>4. claims' \subseteq Dispatches /\ registered' \subseteq Sessions
  BY DEF Bind, TypeOK, Dispatches
<1>5. timer' \in BOOLEAN
  BY DEF Bind, Wake, TypeOK
<1> QED
  BY <1>3, <1>4, <1>5

\* The end of a dispatch keeps the types.
LEMMA RecordTypes ==
    ASSUME TypeOK, NEW r \in Runtimes, lane[r] # <<>>, NEW outcome, Record(r, outcome)
    PROVE  TypeOK'
<1> DEFINE d == Head(lane[r])
<1>1. d.job \in Jobs /\ Tail(lane[r]) \in Seq(Dispatches)
  <2>1. lane[r] \in Seq(Dispatches)
    BY DispatchTypes
  <2>2. d \in Dispatches /\ Tail(lane[r]) \in Seq(Dispatches)
    BY <2>1, HeadTailProperties
  <2> QED
    BY <2>2 DEF Dispatches
<1>2. job' \in [Jobs -> JobType]
  <2>1. job \in [Jobs -> JobType]
    BY DEF TypeOK, JobType
  <2>2. CASE job' = job
    BY <2>1, <2>2
  <2>3. CASE job' # job
    <3> DEFINE nx == IF outcome = "skipped" THEN Advanced(d.job) ELSE job[d.job].next
               x == [job[d.job] EXCEPT !.status = Ended(d.job), !.next = nx]
    <3>1. nx \in {"none", "later", "due"} /\ job[d.job] \in JobType
      BY <1>1, <2>1, Outcomes DEF JobType
    <3>2. x \in JobType
      BY <3>1, Edits, Outcomes
    <3>3. job' = [job EXCEPT ![d.job] = x]
      <4>1. job' = [job EXCEPT ![d.job].status = Ended(d.job),
                               ![d.job].next = IF outcome = "skipped" THEN Advanced(d.job) ELSE @]
        BY <2>3 DEF Record
      <4>2. CASE outcome = "skipped"
        BY <1>1, <2>1, <4>1, <4>2 DEF JobType
      <4>3. CASE outcome # "skipped"
        BY <1>1, <2>1, <4>1, <4>3 DEF JobType
      <4> QED
        BY <4>2, <4>3
    <3> QED
      BY <1>1, <2>1, <3>2, <3>3
  <2> QED
    BY <2>2, <2>3
<1>3. lane' \in [Runtimes -> Seq(Dispatches)]
  BY <1>1 DEF Record, TypeOK, Dispatches
<1>4. /\ claims' \subseteq Dispatches
      /\ step' \in [Runtimes -> {"queued", "session", "ready", "prompted"}]
  BY DEF Record, TypeOK, Dispatches
<1>5. UNCHANGED <<registered, open, up, stopped, timer, phase, deliveries, crashes>>
  BY DEF Record, sessions
<1> QED
  BY <1>2, <1>3, <1>4, <1>5 DEF TypeOK, JobType, Dispatches

\* Every step keeps the types.
LEMMA TypeStep == TypeOK /\ JobsOK /\ [Next]_vars => TypeOK'
<1> SUFFICES ASSUME TypeOK, JobsOK, [Next]_vars
             PROVE  TypeOK'
  OBVIOUS
<1> USE CronAssumption DEF store, sessions, scheduler
<1>types. /\ job \in [Jobs -> JobType] /\ claims \subseteq Dispatches
      /\ lane \in [Runtimes -> Seq(Dispatches)] /\ deliveries \in Seq(Dispatches)
  BY DEF TypeOK, JobType, Dispatches
<1>1. ASSUME NEW j \in Jobs, Pause(j) \/ Resume(j) \/ Cancel(j)
      PROVE  TypeOK'
  <2>1. PICK st \in {"paused", "active", "cancelled"}, nx \in {"none", "later"} : Manage(j, st, nx)
    BY <1>1 DEF Pause, Resume, Cancel
  <2>2. job' = [job EXCEPT ![j] = [@ EXCEPT !.status = st, !.next = nx]]
    BY <1>types, <2>1 DEF Manage, JobType
  <2>3. job' \in [Jobs -> JobType]
    BY <1>types, <2>2, Edits DEF Live
  <2>4. timer' \in BOOLEAN
    BY <1>1 DEF Pause, Resume, Cancel, Wake, TypeOK
  <2> QED
    BY <2>1, <2>3, <2>4 DEF Manage, TypeOK, JobType
<1>2. ASSUME NEW j \in Jobs, RunTimePasses(j)
      PROVE  TypeOK'
  <2>1. job' \in [Jobs -> JobType]
    <3> DEFINE x == [job[j] EXCEPT !.next = "due", !.tick = job[j].tick + 1]
    <3>1. job[j] \in JobType /\ job[j].tick \in 0..MaxTicks /\ job[j].tick < MaxTicks
      BY <1>types, <1>2 DEF RunTimePasses, JobType
    <3>2. x \in JobType
      <4>1. job[j].tick + 1 \in 0..MaxTicks
        BY <3>1
      <4>2. \A y \in JobType, t \in 0..MaxTicks : [y EXCEPT !.next = "due", !.tick = t] \in JobType
        BY DEF JobType
      <4> QED
        BY <3>1, <4>1, <4>2
    <3>3. job' = [job EXCEPT ![j] = x]
      BY <1>types, <1>2 DEF RunTimePasses, JobType
    <3> QED
      BY <1>types, <3>2, <3>3
  <2> QED
    BY <1>2, <2>1 DEF RunTimePasses, TypeOK, JobType
<1>3. ASSUME NEW j \in Jobs, NEW r \in Runtimes, Create(j, r)
      PROVE  TypeOK'
  <2>1. open[r] \in Sessions \cup {None}
    BY DEF TypeOK
  <2>2. job' \in [Jobs -> JobType]
    BY <1>types, <1>3, <2>1, Edits DEF Create, Live
  <2> QED
    BY <1>3, <2>2 DEF Create, Wake, TypeOK, JobType
<1>4. ASSUME NEW r \in Runtimes, NEW s \in Sessions, OpenSession(r, s)
      PROVE  TypeOK'
  <2>1. open' \in [Runtimes -> Sessions \cup {None}]
    BY <1>4 DEF OpenSession, TypeOK
  <2> QED
    BY <1>4, <2>1, BindTypes DEF OpenSession, TypeOK, JobType, Dispatches
<1>5. ASSUME NEW r \in Runtimes, NEW killed \in BOOLEAN, CloseSession(r, killed)
      PROVE  TypeOK'
  <2>1. job' \in [Jobs -> JobType]
    <3>1. CASE killed
      <4>1. \A k \in Jobs : [job[k] EXCEPT !.status = "cancelled", !.next = "none"] \in JobType
        BY <1>types, Edits
      <4> QED
        BY ZenonT(60), <1>types, <1>5, <3>1, <4>1 DEF CloseSession
    <3>2. CASE ~killed
      BY <1>types, <1>5, <3>2 DEF CloseSession
    <3> QED
      BY <3>1, <3>2
  <2>2. timer' \in BOOLEAN /\ open' \in [Runtimes -> Sessions \cup {None}]
    BY <1>5 DEF CloseSession, Wake, TypeOK
  <2> QED
    BY <1>5, <2>1, <2>2 DEF CloseSession, TypeOK, JobType
<1>6. ASSUME RunDue
      PROVE  TypeOK'
  <2>1. job' \in [Jobs -> JobType]
    BY <1>types, <1>6, Edits, Outcomes DEF RunDue, ClaimedJobs
  <2>2. claims' \subseteq Dispatches
    BY <1>types, <1>6, NewTypes DEF RunDue
  <2>3. lane' \in [Runtimes -> Seq(Dispatches)]
    <3>1. \A r \in Runtimes : lane[r] \o SetToSeq(NewFor(r)) \in Seq(Dispatches)
      BY <1>types, NewWaits
    <3> QED
      BY <1>6, <3>1 DEF RunDue, NewFor
  <2>4. timer' \in BOOLEAN
    BY <1>6 DEF RunDue, HasNextRun
  <2> QED
    BY <1>6, <2>1, <2>2, <2>3, <2>4 DEF RunDue, TypeOK, JobType, Dispatches
<1>7. ASSUME NEW r \in Runtimes, StartDispatch(r)
      PROVE  TypeOK'
  <2>1. CASE \E outcome \in {"skipped"} : Record(r, outcome)
    BY <1>7, <2>1, RecordTypes DEF StartDispatch, AtStep
  <2>2. CASE ~\E outcome \in {"skipped"} : Record(r, outcome)
    <3>1. /\ step' = [step EXCEPT ![r] = "session"]
          /\ UNCHANGED <<job, claims, registered, open, up, stopped, timer, lane, phase,
                         deliveries, crashes>>
      BY <1>7, <2>2 DEF StartDispatch
    <3> QED
      BY <3>1 DEF TypeOK
  <2> QED
    BY <2>1, <2>2
<1>8. ASSUME NEW r \in Runtimes, FindSession(r)
      PROVE  TypeOK'
  <2>1. PICK o \in OpenFor(Head(lane[r]).job) : Bind(o, job[Head(lane[r]).job].file)
    BY <1>8 DEF FindSession
  <2>2. o \in Runtimes /\ job[Head(lane[r]).job].file = open[o] /\ open[o] \in Sessions
    BY DEF OpenFor, TypeOK
  <2>3. /\ job' \in [Jobs -> JobType] /\ claims' \subseteq Dispatches
        /\ registered' \subseteq Sessions /\ timer' \in BOOLEAN
    BY <2>1, <2>2, BindTypes
  <2>4. step' \in [Runtimes -> {"queued", "session", "ready", "prompted"}]
    BY <1>8 DEF FindSession, TypeOK
  <2>5. UNCHANGED <<open, up, stopped, lane, phase, deliveries, crashes>>
    BY <1>8 DEF FindSession
  <2> QED
    BY <2>3, <2>4, <2>5 DEF TypeOK, JobType, Dispatches
<1>9. ASSUME NEW r \in Runtimes, NEW o \in Runtimes, CreateSession(r, o)
      PROVE  TypeOK'
  <2> DEFINE s == job[Head(lane[r]).job].file
  <2>1. s \in Sessions /\ Bind(o, s)
    BY <1>9 DEF CreateSession, Runnable, TypeOK
  <2>2. /\ job' \in [Jobs -> JobType] /\ claims' \subseteq Dispatches
        /\ registered' \subseteq Sessions /\ timer' \in BOOLEAN
    BY <2>1, BindTypes
  <2>3. /\ step' \in [Runtimes -> {"queued", "session", "ready", "prompted"}]
        /\ open' \in [Runtimes -> Sessions \cup {None}]
    BY <1>9, <2>1 DEF CreateSession, TypeOK
  <2>4. UNCHANGED <<up, stopped, lane, phase, deliveries, crashes>>
    BY <1>9 DEF CreateSession
  <2> QED
    BY <2>2, <2>3, <2>4 DEF TypeOK, JobType, Dispatches
<1>10. ASSUME NEW r \in Runtimes, SessionGone(r)
      PROVE  TypeOK'
  <2>1. job' \in [Jobs -> JobType]
    BY <1>types, <1>10, Edits DEF SessionGone
  <2> QED
    BY <1>10, <2>1 DEF SessionGone, Wake, TypeOK, JobType
<1>11. ASSUME NEW r \in Runtimes, Deliver(r)
      PROVE  TypeOK'
  <2>1. Head(lane[r]) \in Dispatches
    BY <1>11, DispatchTypes DEF Deliver, AtStep
  <2>2. deliveries' \in Seq(Dispatches)
    BY <1>types, <1>11, <2>1 DEF Deliver
  <2> QED
    BY <1>11, <2>2 DEF Deliver, TypeOK, Dispatches
<1>12. ASSUME NEW r \in Runtimes, EndDispatch(r) \/ FinishDispatch(r)
      PROVE  TypeOK'
  BY <1>12, RecordTypes DEF EndDispatch, FinishDispatch, AtStep
<1>13. ASSUME PrepareRestart \/ Drain \/ CancelRestart
      PROVE  TypeOK'
  BY <1>13 DEF PrepareRestart, Drain, CancelRestart, HasNextRun, TypeOK
<1>14. ASSUME StartWorker
      PROVE  TypeOK'
  <2>1. CASE Range(open) = {None}
    BY <1>14, <2>1 DEF StartWorker, TypeOK
  <2>2. CASE Range(open) # {None}
    <3>1. PICK r \in Runtimes : open[r] # None /\ Bind(r, open[r])
      BY <1>14, <2>2 DEF StartWorker
    <3>2. open[r] \in Sessions
      BY <3>1 DEF TypeOK
    <3> QED
      BY <1>14, <3>1, <3>2, BindTypes DEF StartWorker, TypeOK, JobType, Dispatches
  <2> QED
    BY <2>1, <2>2
<1>15. ASSUME NEW kept \in Runtimes \cup {None}, Crash(kept)
      PROVE  TypeOK'
  <2>1. job' \in [Jobs -> JobType]
    BY <1>types, <1>15, Edits DEF Crash
  <2>2. open' \in [Runtimes -> Sessions \cup {None}] /\ crashes' \in 0..MaxCrashes
    BY <1>15 DEF Crash, TypeOK
  <2>3. lane' \in [Runtimes -> Seq(Dispatches)]
    <3>1. <<>> \in Seq(Dispatches)
      OBVIOUS
    <3> QED
      BY <1>15, <3>1 DEF Crash
  <2>4. /\ step' \in [Runtimes -> {"queued", "session", "ready", "prompted"}]
        /\ registered' \subseteq Sessions /\ phase' \in {"none", "preparing", "prepared"}
        /\ up' \in BOOLEAN /\ stopped' \in BOOLEAN /\ timer' \in BOOLEAN
    BY <1>15 DEF Crash
  <2>5. claims' \subseteq Dispatches /\ deliveries' \in Seq(Dispatches)
    BY <1>types, <1>15 DEF Crash
  <2> QED
    BY <2>1, <2>2, <2>3, <2>4, <2>5 DEF TypeOK, JobType, Dispatches
<1>16. CASE UNCHANGED vars
  BY <1>16 DEF vars, TypeOK
<1> QED
  BY <1>1, <1>2, <1>3, <1>4, <1>5, <1>6, <1>7, <1>8, <1>9, <1>10, <1>11, <1>12, <1>13,
     <1>14, <1>15, <1>16 DEF Next, Owner, Lanes

-----------------------------------------------------------------------------
(* The timer.                                                              *)

\* A scheduler that was woken, and is started, has a timeout set.
LEMMA Awake ==
    ASSUME Wake, stopped' = stopped
    PROVE  NextRunIsArmed'
BY DEF Wake, NextRunIsArmed

\* No timeout is needed that was not needed before.
LEMMA FewerRuns ==
    ASSUME NextRunIsArmed, timer => timer', up' => up, stopped' = stopped,
           \A k \in Jobs : job'[k].status = "active" /\ job'[k].next # "none"
                           /\ job'[k].file \in registered' =>
              job[k].status = "active" /\ job[k].next # "none" /\ job[k].file \in registered
    PROVE  NextRunIsArmed'
BY DEF NextRunIsArmed, HasNextRun, Visible

\* Bind wakes the scheduler when an artifact is new or an active job has moved.
LEMMA BindTimer ==
    ASSUME IInv, NEW r \in Runtimes, NEW s \in Sessions, Bind(r, s), up \/ registered = {},
           stopped' = stopped
    PROVE  NextRunIsArmed'
<1>1. CASE Wake
  BY <1>1, Awake
<1>2. CASE ~Wake
  <2>1. /\ s \in registered /\ timer' = timer /\ up /\ registered' = registered
        /\ \A k \in Jobs : job'[k] # job[k] => job'[k].status # "active"
    BY <1>2 DEF Bind
  <2>2. up' => up
    BY <2>1
  <2>3. \A k \in Jobs : job'[k].status = "active" => job'[k] = job[k]
    BY <2>1
  <2> QED
    BY <2>1, <2>2, <2>3, FewerRuns DEF IInv
<1> QED
  BY <1>1, <1>2

\* A dispatch that ends leaves no job with a next run it did not have.
LEMMA RecordTimer ==
    ASSUME IInv, NEW r \in Runtimes, lane[r] # <<>>, NEW outcome, Record(r, outcome)
    PROVE  NextRunIsArmed'
<1> DEFINE d == Head(lane[r])
<1>1. d.job \in Jobs
  <2>1. lane[r] \in Seq(Dispatches)
    BY DispatchTypes DEF IInv
  <2>2. d \in Dispatches
    BY <2>1, HeadTailProperties
  <2> QED
    BY <2>2 DEF Dispatches
<1>2. UNCHANGED <<registered, up, stopped, timer>>
  BY DEF Record, sessions
<1>3. ASSUME NEW k \in Jobs, job'[k].status = "active", job'[k].next # "none"
      PROVE  job[k].status = "active" /\ job[k].next # "none" /\ job'[k].file = job[k].file
  <2>1. CASE job'[k] = job[k]
    BY <1>3, <2>1
  <2>2. CASE job'[k] # job[k]
    <3>1. /\ k = d.job /\ job[k].status = "active" /\ job'[k].status = Ended(k)
          /\ job'[k].file = job[k].file
      BY <1>1, <2>2 DEF Record, IInv, TypeOK
    <3>2. Kind[k] # "once"
      BY <1>3, <3>1 DEF Ended
    <3> QED
      BY <3>1, <3>2 DEF IInv, JobsOK, JobOK
  <2> QED
    BY <2>1, <2>2
<1> QED
  BY <1>2, <1>3, FewerRuns DEF IInv

-----------------------------------------------------------------------------
(* All steps.                                                              *)

\* Every step keeps the invariant.
LEMMA InvariantStep ==
    ASSUME IInv, [Next]_vars
    PROVE  Rest' /\ NextRunIsArmed'
<1> USE CronAssumption DEF store, sessions, scheduler
<1>1. ASSUME NEW j \in Jobs, Pause(j) \/ Resume(j) \/ Cancel(j)
      PROVE  Rest' /\ NextRunIsArmed'
  <2>1. PICK st \in {"paused", "active", "cancelled"}, nx \in {"none", "later"} :
          /\ Manage(j, st, nx) /\ Wake
          /\ st = "active" <=> nx = "later"
          /\ nx = "later" => Kind[j] = "heartbeat"
    BY <1>1 DEF Pause, Resume, Cancel
  <2>2. /\ job'[j].status = st /\ job'[j].next = nx /\ job'[j].tick = job[j].tick
        /\ job'[j].file = job[j].file /\ job'[j].bound = job[j].bound
        /\ \A k \in Jobs : k # j => job'[k] = job[k]
    BY <2>1 DEF Manage, IInv, TypeOK
  <2>3. UNCHANGED <<claims, registered, open, up, stopped, lane, step, phase, deliveries>>
    BY <2>1 DEF Manage
  <2>4. job[j].status # "none"
    BY <1>1 DEF Pause, Resume, Cancel, Visible
  <2>5. JobsOK'
    <3> SUFFICES ASSUME NEW k \in Jobs
                 PROVE  JobOK(k)'
      BY DEF JobsOK
    <3>1. JobOK(k)
      BY DEF IInv, JobsOK
    <3> QED
      BY <2>1, <2>2, <2>3, <2>4, <3>1 DEF JobOK
  <2>6. Rest'
    BY <2>1, <2>2, <2>3, <2>5, JobsChange
  <2> QED
    BY <2>1, <2>3, <2>6, Awake
<1>2. ASSUME NEW j \in Jobs, RunTimePasses(j)
      PROVE  Rest' /\ NextRunIsArmed'
  <2>1. /\ job[j].status = "active" /\ job[j].next = "later" /\ job'[j].file = job[j].file
        /\ \A k \in Jobs : k # j => job'[k] = job[k]
        /\ UNCHANGED <<registered, up, stopped, timer>>
    BY <1>2 DEF RunTimePasses, IInv, TypeOK
  <2>2. NextRunIsArmed'
    BY <2>1, FewerRuns DEF IInv
  <2> QED
    BY <1>2, <2>2, PassStep
<1>3. ASSUME NEW j \in Jobs, NEW r \in Runtimes, Create(j, r)
      PROVE  Rest' /\ NextRunIsArmed'
  <2>1. /\ job[j].status = "none" /\ Wake
        /\ UNCHANGED <<claims, registered, open, up, stopped, lane, step, phase, deliveries>>
    BY <1>3 DEF Create
  <2>2. /\ job'[j].status = "active" /\ job'[j].next = "later" /\ job'[j].tick = 0
        /\ job'[j].bound = r
    BY <1>3 DEF Create, NoJob
  <2>3. ASSUME NEW k \in Jobs, k # j
        PROVE  /\ job'[k].tick = job[k].tick /\ job'[k].file = job[k].file
               /\ job'[k].bound = job[k].bound
               /\ \/ job'[k] = job[k]
                  \/ /\ job[k].status # "none" /\ job'[k].status = "cancelled"
                     /\ job'[k].next = "none"
    <3>1. CASE job'[k] = job[k]
      BY <3>1
    <3>2. CASE job'[k] # job[k]
      <4>1. /\ job'[k] = [job[k] EXCEPT !.status = "cancelled", !.next = "none"]
            /\ job[k].status \in Live
        BY <1>3, <2>3, <3>2 DEF Create
      <4> QED
        BY <4>1 DEF Live, IInv, TypeOK
    <3> QED
      BY <3>1, <3>2
  <2>4. JobsOK'
    <3> SUFFICES ASSUME NEW k \in Jobs
                 PROVE  JobOK(k)'
      BY DEF JobsOK
    <3>1. JobOK(k)
      BY DEF IInv, JobsOK
    <3>2. CASE k = j
      BY <2>2, <3>2 DEF JobOK
    <3>3. CASE k # j
      BY <2>1, <2>3, <3>1, <3>3 DEF JobOK
    <3> QED
      BY <3>2, <3>3
  <2>5. Rest'
    BY <2>1, <2>3, <2>4, JobsChange
  <2> QED
    BY <2>1, <2>5, Awake
<1>4. ASSUME NEW r \in Runtimes, NEW s \in Sessions, OpenSession(r, s)
      PROVE  Rest' /\ NextRunIsArmed'
  BY <1>4, BindStep, BindTimer DEF OpenSession, Accepting
<1>5. ASSUME NEW r \in Runtimes, NEW killed \in BOOLEAN, CloseSession(r, killed)
      PROVE  Rest' /\ NextRunIsArmed'
  <2>1. /\ UNCHANGED <<claims, registered, up, stopped, lane, step, phase, deliveries>>
        /\ timer => timer'
    BY <1>5 DEF CloseSession, Wake
  <2>2. ASSUME NEW k \in Jobs
        PROVE  /\ job'[k].tick = job[k].tick /\ job'[k].file = job[k].file
               /\ job'[k].bound = job[k].bound
               /\ \/ job'[k] = job[k]
                  \/ /\ job[k].status # "none" /\ job'[k].status = "cancelled"
                     /\ job'[k].next = "none"
    <3>1. CASE job'[k] = job[k]
      BY <3>1
    <3>2. CASE job'[k] # job[k]
      <4>1. /\ job'[k] = [job[k] EXCEPT !.status = "cancelled", !.next = "none"]
            /\ job[k].status \in Live
        BY <1>5, <3>2 DEF CloseSession
      <4> QED
        BY <4>1 DEF Live, IInv, TypeOK
    <3> QED
      BY <3>1, <3>2
  <2>3. JobsOK'
    BY <2>1, <2>2 DEF IInv, JobsOK, JobOK
  <2>4. Rest'
    BY <2>1, <2>2, <2>3, JobsChange
  <2>5. NextRunIsArmed'
    BY <2>1, <2>2, FewerRuns DEF IInv
  <2> QED
    BY <2>4, <2>5
<1>6. ASSUME RunDue
      PROVE  Rest' /\ NextRunIsArmed'
  <2>1. NextRunIsArmed'
    BY <1>6 DEF RunDue, NextRunIsArmed
  <2> QED
    BY <1>6, <2>1, RunDueStep
<1>7. ASSUME NEW r \in Runtimes, StartDispatch(r)
      PROVE  Rest' /\ NextRunIsArmed'
  <2>1. CASE Record(r, "skipped")
    BY <1>7, <2>1, RecordStep, RecordTimer DEF StartDispatch, AtStep
  <2>2. CASE ~Record(r, "skipped")
    <3>1. /\ UNCHANGED <<job, claims, registered, up, stopped, timer, lane, phase, deliveries>>
          /\ step[r] = "queued" /\ step' = [step EXCEPT ![r] = "session"]
      BY <1>7, <2>2 DEF StartDispatch, AtStep
    <3>2. \A q \in Runtimes : step[q] = "prompted" => step'[q] = "prompted"
      BY <3>1 DEF IInv, TypeOK
    <3>3. WorkerOK'
      BY <3>1 DEF IInv, WorkerOK
    <3>4. NextRunIsArmed'
      BY <3>1, FewerRuns DEF IInv
    <3> QED
      BY <3>1, <3>2, <3>3, <3>4, SameStore
  <2> QED
    BY <2>1, <2>2
<1>8. ASSUME NEW r \in Runtimes, FindSession(r)
      PROVE  Rest' /\ NextRunIsArmed'
  <2>1. PICK o \in OpenFor(Head(lane[r]).job) : Bind(o, job[Head(lane[r]).job].file)
    BY <1>8 DEF FindSession
  <2>2. o \in Runtimes /\ job[Head(lane[r]).job].file \in Sessions
    BY DEF OpenFor, IInv, TypeOK
  <2>3. up /\ up' /\ UNCHANGED <<lane, phase, stopped, deliveries>>
    BY <1>8 DEF FindSession, AtStep
  <2>4. \A q \in Runtimes : step[q] = "prompted" => step'[q] = "prompted"
    BY <1>8 DEF FindSession, AtStep, IInv, TypeOK
  <2> QED
    BY <2>1, <2>2, <2>3, <2>4, BindStep, BindTimer
<1>9. ASSUME NEW r \in Runtimes, NEW o \in Runtimes, CreateSession(r, o)
      PROVE  Rest' /\ NextRunIsArmed'
  <2> DEFINE s == job[Head(lane[r]).job].file
  <2>1. s \in Sessions /\ Bind(o, s)
    BY <1>9 DEF CreateSession, Runnable, IInv, TypeOK
  <2>2. up /\ up' /\ UNCHANGED <<lane, phase, stopped, deliveries>>
    BY <1>9 DEF CreateSession, AtStep
  <2>3. \A q \in Runtimes : step[q] = "prompted" => step'[q] = "prompted"
    BY <1>9 DEF CreateSession, AtStep, IInv, TypeOK
  <2> HIDE DEF s
  <2> QED
    BY <2>1, <2>2, <2>3, BindStep, BindTimer
<1>10. ASSUME NEW r \in Runtimes, SessionGone(r)
      PROVE  Rest' /\ NextRunIsArmed'
  <2>1. /\ UNCHANGED <<claims, registered, up, stopped, lane, step, phase, deliveries>>
        /\ Wake
    BY <1>10 DEF SessionGone
  <2>2. ASSUME NEW k \in Jobs
        PROVE  /\ job'[k].tick = job[k].tick /\ job'[k].file = job[k].file
               /\ job'[k].bound = job[k].bound
               /\ \/ job'[k] = job[k]
                  \/ /\ job[k].status # "none" /\ job'[k].status = "cancelled"
                     /\ job'[k].next = "none"
    BY ZenonT(60), <1>10 DEF SessionGone, Visible, IInv, TypeOK
  <2>3. JobsOK'
    BY <2>1, <2>2 DEF IInv, JobsOK, JobOK
  <2> QED
    BY <2>1, <2>2, <2>3, JobsChange, Awake
<1>11. ASSUME NEW r \in Runtimes, Deliver(r)
      PROVE  Rest' /\ NextRunIsArmed'
  <2>1. UNCHANGED <<job, registered, up, stopped, timer>>
    BY <1>11 DEF Deliver
  <2> QED
    BY <1>11, <2>1, DeliverStep, FewerRuns DEF IInv
<1>12. ASSUME NEW r \in Runtimes, EndDispatch(r) \/ FinishDispatch(r)
      PROVE  Rest' /\ NextRunIsArmed'
  BY <1>12, RecordStep, RecordTimer DEF EndDispatch, FinishDispatch, AtStep
<1>13. ASSUME PrepareRestart \/ Drain \/ CancelRestart
      PROVE  Rest' /\ NextRunIsArmed'
  <2>1. UNCHANGED <<job, claims, registered, lane, step, deliveries, up>>
    BY <1>13 DEF PrepareRestart, Drain, CancelRestart
  <2>2. WorkerOK'
    BY <1>13, <2>1 DEF PrepareRestart, Drain, CancelRestart, IInv, WorkerOK
  <2>3. Rest'
    BY <2>1, <2>2, SameStore
  <2>4. NextRunIsArmed'
    BY <1>13, <2>1 DEF PrepareRestart, Drain, CancelRestart, IInv, NextRunIsArmed, HasNextRun,
                       Visible
  <2> QED
    BY <2>3, <2>4
<1>14. ASSUME StartWorker
      PROVE  Rest' /\ NextRunIsArmed'
  <2>1. ~up /\ up' /\ registered = {} /\ UNCHANGED <<stopped, lane, step, phase, deliveries>>
    BY <1>14 DEF StartWorker, IInv, WorkerOK
  <2>2. CASE UNCHANGED <<job, claims, registered, timer>>
    <3>1. WorkerOK'
      BY <2>1, <2>2 DEF IInv, WorkerOK
    <3>2. NextRunIsArmed'
      BY <2>1, <2>2 DEF NextRunIsArmed, HasNextRun, Visible
    <3> QED
      BY <2>1, <2>2, <3>1, <3>2, SameStore
  <2>3. ASSUME NEW r \in Runtimes, open[r] # None, Bind(r, open[r])
        PROVE  Rest' /\ NextRunIsArmed'
    <3>1. open[r] \in Sessions
      BY <2>3 DEF IInv, TypeOK
    <3> QED
      BY <2>1, <2>3, <3>1, BindStep, BindTimer
  <2> QED
    BY <1>14, <2>2, <2>3 DEF StartWorker
<1>15. ASSUME NEW kept \in Runtimes \cup {None}, Crash(kept)
      PROVE  Rest' /\ NextRunIsArmed'
  <2>1. NextRunIsArmed'
    BY <1>15 DEF Crash, NextRunIsArmed
  <2> QED
    BY <1>15, <2>1, CrashStep
<1>16. CASE UNCHANGED vars
  <2>1. WorkerOK'
    BY <1>16 DEF vars, IInv, WorkerOK
  <2>2. NextRunIsArmed'
    BY <1>16, FewerRuns DEF vars, IInv
  <2> QED
    BY <1>16, <2>1, <2>2, SameStore DEF vars
<1> QED
  BY <1>1, <1>2, <1>3, <1>4, <1>5, <1>6, <1>7, <1>8, <1>9, <1>10, <1>11, <1>12, <1>13,
     <1>14, <1>15, <1>16 DEF Next, Owner, Lanes

\* The invariant holds in every state.
THEOREM CronInvariant == Spec => []IInv
<1>1. Init => IInv
  <2> SUFFICES ASSUME Init
               PROVE  IInv
    OBVIOUS
  <2> USE CronAssumption
  <2>1. TypeOK
    <3>1. job \in [Jobs -> JobType]
      BY DEF Init, JobType, NoJob, Live
    <3>2. <<>> \in Seq(Dispatches)
      OBVIOUS
    <3>3. lane \in [Runtimes -> Seq(Dispatches)] /\ deliveries \in Seq(Dispatches)
      BY <3>2 DEF Init
    <3>4. crashes \in 0..MaxCrashes
      BY DEF Init
    <3> QED
      BY <3>1, <3>3, <3>4 DEF Init, TypeOK, JobType, Dispatches
  <2>2. JobsOK
    BY DEF Init, JobsOK, JobOK, NoJob
  <2>3. TicksOK /\ OneClaim /\ ClaimsWait /\ LanesOK /\ DeliveredOnce /\ WorkerOK
    BY DEF Init, TicksOK, OneClaim, ClaimsWait, LanesOK, DeliveredOnce, WorkerOK
  <2>4. NextRunIsArmed
    BY DEF Init, NextRunIsArmed, HasNextRun, Visible
  <2> QED
    BY <2>1, <2>2, <2>3, <2>4 DEF IInv
<1>2. IInv /\ [Next]_vars => IInv'
  <2> SUFFICES ASSUME IInv, [Next]_vars
               PROVE  IInv'
    OBVIOUS
  <2>1. TypeOK'
    BY TypeStep DEF IInv
  <2> QED
    BY <2>1, InvariantStep DEF IInv, Rest
<1> QED
  BY <1>1, <1>2, PTL DEF Spec

-----------------------------------------------------------------------------
(* The properties.                                                         *)

\* The variables have their types in every state.
THEOREM CronTypeOK == Spec => []TypeOK
<1>1. IInv => TypeOK
  BY DEF IInv
<1> QED
  BY <1>1, CronInvariant, PTL

\* No job with a run time ahead sleeps without a timer.
THEOREM TimerIsArmed == Spec => []NextRunIsArmed
<1>1. IInv => NextRunIsArmed
  BY DEF IInv
<1> QED
  BY <1>1, CronInvariant, PTL

\* What is claimed in the artifacts of a worker waits in its lanes, and nothing
\* that waits has lost its claim.
THEOREM ClaimsAreKept == Spec => []ClaimsAreDispatches
<1>1. IInv => ClaimsAreDispatches
  <2> SUFFICES ASSUME IInv, up
               PROVE  /\ \A c \in claims : job[c.job].file \in registered =>
                            \E r \in Runtimes : c \in ToSet(lane[r])
                      /\ \A r \in Runtimes : ToSet(lane[r]) \subseteq claims
    BY DEF ClaimsAreDispatches
  <2>1. \A r \in Runtimes : ToSet(lane[r]) = {lane[r][i] : i \in 1..Len(lane[r])}
    <3> TAKE r \in Runtimes
    <3>1. DOMAIN lane[r] = 1..Len(lane[r])
      BY DispatchTypes DEF IInv
    <3> QED
      BY <3>1 DEF ToSet
  <2>2. \A c \in claims : job[c.job].file \in registered => Waits(c)
    BY DEF IInv, ClaimsWait
  <2>3. \A r \in Runtimes : \A i \in 1..Len(lane[r]) : lane[r][i] \in claims
    BY DEF IInv, LanesOK, LaneOK
  <2>4. \A c : Waits(c) => \E r \in Runtimes : c \in ToSet(lane[r])
    BY <2>1 DEF Waits
  <2>5. \A r \in Runtimes : ToSet(lane[r]) \subseteq claims
    BY <2>1, <2>3
  <2> QED
    BY <2>2, <2>4, <2>5
<1> QED
  BY <1>1, CronInvariant, PTL

\* An update restart is prepared behind the last claim.
THEOREM RestartsAreQuiet == Spec => []RestartIsQuiet
<1>1. IInv => RestartIsQuiet
  <2> SUFFICES ASSUME IInv, phase = "prepared"
               PROVE  /\ \A r \in Runtimes : lane[r] = <<>>
                      /\ \A c \in claims : job[c.job].file \notin registered
    BY DEF RestartIsQuiet
  <2>1. \A r \in Runtimes : lane[r] = <<>>
    BY DEF IInv, WorkerOK
  <2>2. \A c : ~Waits(c)
    BY <2>1 DEF Waits
  <2> QED
    BY <2>1, <2>2 DEF IInv, ClaimsWait
<1> QED
  BY <1>1, CronInvariant, PTL

\* No run time is delivered twice, and no one-time job.
THEOREM NothingIsReplayed == Spec => []NoReplay
<1>1. IInv => NoReplay
  <2> SUFFICES ASSUME IInv, NEW m \in 1..Len(deliveries), NEW n \in 1..Len(deliveries),
                      \/ deliveries[m] = deliveries[n]
                      \/ /\ deliveries[m].job = deliveries[n].job
                         /\ Kind[deliveries[n].job] = "once"
               PROVE  m = n
    <3>1. ASSUME IInv
          PROVE  DOMAIN deliveries = 1..Len(deliveries)
      <4>1. deliveries \in Seq(Dispatches)
        BY <3>1 DEF IInv, TypeOK, Dispatches
      <4> QED
        BY <4>1
    <3> QED
      BY <3>1 DEF NoReplay
  <2>1. CASE deliveries[m] = deliveries[n]
    BY <2>1 DEF IInv, DeliveredOnce
  <2>2. CASE /\ deliveries[m].job = deliveries[n].job
             /\ Kind[deliveries[n].job] = "once"
    <3> DEFINE d == deliveries[m]
               e == deliveries[n]
    <3>1. /\ d \in Dispatches /\ e \in Dispatches /\ e.job \in Jobs /\ Spent(d) /\ Spent(e)
      BY DispatchTypes DEF IInv, TicksOK
    <3>2. job[e.job].tick <= 1 /\ job[e.job].tick \in Nat
      BY <2>2, <3>1 DEF IInv, JobsOK, JobOK, TypeOK
    <3>3. d.tick = 1 /\ e.tick = 1
      BY <2>2, <3>1, <3>2 DEF Spent, Dispatches
    <3>4. d = e
      BY <2>2, <3>1, <3>3 DEF Dispatches
    <3> QED
      BY <3>4 DEF IInv, DeliveredOnce
  <2> QED
    BY <2>1, <2>2
<1> QED
  BY <1>1, CronInvariant, PTL

\* A prompt reaches a session only while its job is active, and only the session
\* the job belongs to.
THEOREM DeliveriesAreChecked == Spec => DeliveredWhileActive
<1>1. IInv /\ [Next]_vars =>
        (deliveries' # deliveries =>
            LET j == Last(deliveries').job IN
            job[j].status = "active" /\ open[job[j].bound] = job[j].file)
  <2> SUFFICES ASSUME IInv, [Next]_vars, deliveries' # deliveries
               PROVE  LET j == Last(deliveries').job IN
                      job[j].status = "active" /\ open[job[j].bound] = job[j].file
    OBVIOUS
  <2>1. PICK r \in Runtimes : Deliver(r)
    BY DEF Next, Owner, Lanes, vars, Pause, Resume, Cancel, Manage, RunTimePasses, Create,
           OpenSession, CloseSession, PrepareRestart, Drain, CancelRestart, StartWorker, Crash,
           RunDue, StartDispatch, FindSession, CreateSession, SessionGone, FinishDispatch,
           EndDispatch, Record
  <2>2. deliveries \in Seq(Dispatches)
    BY DEF IInv, TypeOK, Dispatches
  <2>3. Last(deliveries') = Head(lane[r])
    <3>1. Head(lane[r]) \in Dispatches
      <4>1. lane[r] \in Seq(Dispatches) /\ lane[r] # <<>>
        BY <2>1, DispatchTypes DEF IInv, Deliver, AtStep
      <4> QED
        BY <4>1, HeadTailProperties
    <3>2. deliveries' = Append(deliveries, Head(lane[r]))
      BY <2>1 DEF Deliver
    <3>3. Len(deliveries') = Len(deliveries) + 1 /\ deliveries'[Len(deliveries) + 1] = Head(lane[r])
      BY <2>2, <3>1, <3>2
    <3> QED
      BY <3>3 DEF Last
  <2> QED
    BY <2>1, <2>3 DEF Deliver, RunnableFor, Runnable, OpenFor
<1> QED
  BY <1>1, CronInvariant, PTL DEF Spec, DeliveredWhileActive
=============================================================================
