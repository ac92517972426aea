-------------------------- MODULE FlowLeaseProofs --------------------------
(***************************************************************************)
(* The lease excludes, for any number of kernels and callers.              *)
(*                                                                         *)
(* OneWriter is not inductive: a settling call must be known to hold the   *)
(* lease for a run that starts to find it taken.  LeaseIsHeld says so, and *)
(* is preserved because every step that gives the lease to someone finds   *)
(* it free, or finds its own descriptor in it.                             *)
(***************************************************************************)
EXTENDS FlowLease, TLAPS

IInv == TypeOK /\ LeaseIsHeld /\ LiveRunIsUndisturbed

\* The variables have their types in every state.
THEOREM LeaseTypeOK == Spec => []TypeOK
<1>1. Init => TypeOK
  BY DEF Init, TypeOK, RunPoints, CallPoints
<1>2. TypeOK /\ [Next]_vars => TypeOK'
  <2> SUFFICES ASSUME TypeOK, [Next]_vars
               PROVE  TypeOK'
    OBVIOUS
  <2> USE LeaseAssumption DEF TypeOK, RunPoints, CallPoints, Owner
  <2>1. ASSUME NEW c \in Calls, Join(c) \/ StartRun(c) \/ Open(c)
        PROVE  TypeOK'
    BY <2>1 DEF Join, StartRun, Open, Goes
  <2>2. ASSUME NEW c \in Calls, Abandon(c)
        PROVE  TypeOK'
    BY <2>2 DEF Abandon, Goes, Unguard
  <2>3. ASSUME NEW c \in Calls, Acquire(c)
        PROVE  TypeOK'
    BY <2>3 DEF Acquire, Goes
  <2>4. ASSUME NEW c \in Calls, Refused(c)
        PROVE  TypeOK'
    BY <2>4 DEF Refused, Goes, Unguard
  <2>5. ASSUME NEW c \in Calls, Register(c)
        PROVE  TypeOK'
    BY <2>5 DEF Register, Goes, Unguard
  <2>6. ASSUME NEW c \in Calls, StartSettling(c)
        PROVE  TypeOK'
    BY <2>6 DEF StartSettling, Goes
  <2>7. ASSUME NEW c \in Calls, Settled(c)
        PROVE  TypeOK'
    BY <2>7 DEF Settled, Goes
  <2>8. ASSUME NEW c \in Calls, Release(c)
        PROVE  TypeOK'
    BY <2>8 DEF Release, Goes
  <2>9. ASSUME NEW k \in Kernels, RunStep(k)
        PROVE  TypeOK'
    BY <2>9 DEF RunStep, RunStarts, RunStops, RunFinished
  <2>10. ASSUME NEW k \in Kernels, Restart(k)
         PROVE  TypeOK'
    BY <2>10 DEF Restart
  <2>11. CASE UNCHANGED vars
    BY <2>11 DEF vars
  <2> QED
    BY <2>1, <2>2, <2>3, <2>4, <2>5, <2>6, <2>7, <2>8, <2>9, <2>10, <2>11 DEF Next, CallStep
<1> QED
  BY <1>1, <1>2, PTL DEF Spec

\* Every step preserves the invariant: who holds the lease changes only when it
\* is free, or in the hands of the owner who gives it on.
LEMMA InvariantStep == IInv /\ [Next]_vars => LeaseIsHeld' /\ LiveRunIsUndisturbed'
<1> SUFFICES ASSUME IInv, [Next]_vars
             PROVE  LeaseIsHeld' /\ LiveRunIsUndisturbed'
  OBVIOUS
<1> USE LeaseAssumption DEF IInv, TypeOK, LeaseIsHeld, LiveRunIsUndisturbed, RunPoints,
        CallPoints, Free
<1>1. ASSUME NEW c \in Calls, Join(c) \/ StartRun(c) \/ Open(c)
      PROVE  LeaseIsHeld' /\ LiveRunIsUndisturbed'
  BY <1>1 DEF Join, StartRun, Open, Goes
<1>2. ASSUME NEW c \in Calls, Abandon(c)
      PROVE  LeaseIsHeld' /\ LiveRunIsUndisturbed'
  BY <1>2 DEF Abandon, Goes
<1>3. ASSUME NEW c \in Calls, Acquire(c)
      PROVE  LeaseIsHeld' /\ LiveRunIsUndisturbed'
  BY <1>3 DEF Acquire, Goes
<1>4. ASSUME NEW c \in Calls, Refused(c)
      PROVE  LeaseIsHeld' /\ LiveRunIsUndisturbed'
  BY <1>4 DEF Refused, Goes
<1>5. ASSUME NEW c \in Calls, Register(c)
      PROVE  LeaseIsHeld' /\ LiveRunIsUndisturbed'
  BY <1>5 DEF Register, Goes
<1>6. ASSUME NEW c \in Calls, StartSettling(c)
      PROVE  LeaseIsHeld' /\ LiveRunIsUndisturbed'
  BY <1>6 DEF StartSettling, Goes
<1>7. ASSUME NEW c \in Calls, Settled(c)
      PROVE  LeaseIsHeld' /\ LiveRunIsUndisturbed'
  <2>1. \A k \in Kernels : run[k] # "working"
    BY <1>7 DEF Settled
  <2> QED
    BY <1>7, <2>1 DEF Settled, Goes
<1>8. ASSUME NEW c \in Calls, Release(c)
      PROVE  LeaseIsHeld' /\ LiveRunIsUndisturbed'
  BY <1>8 DEF Release, Goes
<1>9. ASSUME NEW k \in Kernels, RunStep(k)
      PROVE  LeaseIsHeld' /\ LiveRunIsUndisturbed'
  <2>1. run[k] # "none" /\ lease = <<"run", k>>
    BY <1>9 DEF RunStep, RunStarts, RunStops, RunFinished
  <2>2. \A j \in Kernels : j # k => run[j] = "none"
    BY <2>1
  <2>3. \A c \in Calls : pc[c] \notin {"settling", "closing"}
    BY <2>1
  <2>4. CASE RunStarts(k)
    BY <2>1, <2>2, <2>3, <2>4 DEF RunStarts
  <2>5. CASE RunStops(k)
    BY <2>1, <2>2, <2>3, <2>5 DEF RunStops
  <2>6. CASE RunFinished(k)
    BY <2>1, <2>2, <2>3, <2>6 DEF RunFinished
  <2> QED
    BY <1>9, <2>4, <2>5, <2>6 DEF RunStep
<1>10. ASSUME NEW k \in Kernels, Restart(k)
       PROVE  LeaseIsHeld' /\ LiveRunIsUndisturbed'
  BY <1>10 DEF Restart, Kernel
<1>11. CASE UNCHANGED vars
  BY <1>11 DEF vars
<1> QED
  BY <1>1, <1>2, <1>3, <1>4, <1>5, <1>6, <1>7, <1>8, <1>9, <1>10, <1>11 DEF Next, CallStep

\* Whoever works on a flow holds its lease, for any number of kernels and calls.
THEOREM WritersHoldTheLease == Spec => []LeaseIsHeld
<1>1. Init => LeaseIsHeld /\ LiveRunIsUndisturbed
  BY DEF Init, LeaseIsHeld, LiveRunIsUndisturbed
<1> QED
  BY <1>1, InvariantStep, LeaseTypeOK, PTL DEF Spec, IInv

\* A live run's record is never changed behind its back.
THEOREM RunsAreUndisturbed == Spec => []LiveRunIsUndisturbed
<1>1. Init => LeaseIsHeld /\ LiveRunIsUndisturbed
  BY DEF Init, LeaseIsHeld, LiveRunIsUndisturbed
<1> QED
  BY <1>1, InvariantStep, LeaseTypeOK, PTL DEF Spec, IInv

\* At most one run, recovery or cancellation works on a flow at a time.
THEOREM LeaseExcludes == Spec => []OneWriter
<1>1. LeaseIsHeld => OneWriter
  <2> SUFFICES ASSUME LeaseIsHeld, NEW x \in Writers, NEW y \in Writers
               PROVE  x = y
    BY DEF OneWriter
  <2>1. \A w \in Writers : lease = w
    BY DEF Writers, LeaseIsHeld
  <2> QED
    BY <2>1
<1> QED
  BY <1>1, WritersHoldTheLease, PTL
=============================================================================
