-------------------------- MODULE JobLedgerProofs --------------------------
(***************************************************************************)
(* The ledger under the lease, for any number of workers, jobs and         *)
(* attempts.  Every step of JobLedger is a step of WorkerLease or leaves   *)
(* it alone, so the fencing discipline carries over; on top of it the      *)
(* invariant is LedgerInv.  RunningUnderMark is not inductive by itself:   *)
(* it needs MarkIssued, which says that only a process that has already    *)
(* recovered under its token can claim.                                    *)
(***************************************************************************)
EXTENDS JobLedger, WorkerLeaseProofs, FiniteSetTheorems

\* A job that can still run has an attempt left.
AttemptsLeft ==
    \A j \in Jobs : job[j].status \notin Terminal => job[j].attempts < MaxAttempts

LedgerInv ==
    /\ JobTypeOK
    /\ FencesIssued /\ FencesDistinct
    /\ MarkIssued
    /\ RunningUnderMark
    /\ AttemptsLeft
    /\ StartsAccounted

-----------------------------------------------------------------------------
(* Refinement of the lease *)

\* Each step of the research worker is a step of its lease, or stutters on it.
LEMMA JobStepIsLeaseStep == [JobNext]_jobVars => [LeaseNext]_leaseVars
<1> SUFFICES ASSUME [JobNext]_jobVars PROVE [LeaseNext]_leaseVars
  OBVIOUS
<1>1. ASSUME NEW p \in Workers, LeaseStep(p) PROVE LeaseNext
  BY <1>1 DEF LeaseStep, LeaseNext
<1>2. ASSUME NEW p \in Workers, Recover(p) \/ RecoverFails(p) PROVE LeaseNext
  BY <1>2 DEF Recover, RecoverFails, LeaseNext
<1>3. ASSUME NEW p \in Workers, NEW o \in Outcomes, EndCycle(p, o) PROVE LeaseNext
  BY <1>3 DEF LeaseNext
<1>4. ASSUME NEW p \in Workers,
             FinishOk(p) \/ FinishFailed(p) \/ FinishFenced(p) \/ FinishError(p)
      PROVE  LeaseNext
  <2>1. EndCycle(p, "ok") \/ EndCycle(p, "failed")
    BY <1>4 DEF FinishOk, FinishFailed, FinishFenced, FinishError
  <2> QED BY <2>1, <1>3 DEF Outcomes
<1>5. ASSUME NEW p \in Workers, NEW o \in Outcomes, CycleWithoutJob(p, o) PROVE LeaseNext
  BY <1>5, <1>3 DEF CycleWithoutJob
<1>6. ASSUME NEW p \in Workers, Claim(p) PROVE UNCHANGED leaseVars
  BY <1>6 DEF Claim
<1>7. ASSUME NEW j \in Jobs, Submit(j) PROVE UNCHANGED leaseVars
  BY <1>7 DEF Submit
<1>8. CASE OperatorRelease
  BY <1>8 DEF OperatorRelease, LeaseNext
<1>9. CASE JobTick
  BY <1>9 DEF JobTick, LeaseNext
<1>10. CASE UNCHANGED jobVars
  BY <1>10 DEF jobVars
<1> QED
  BY <1>1, <1>2, <1>4, <1>5, <1>6, <1>7, <1>8, <1>9, <1>10 DEF JobNext

\* The research worker implements the lease protocol: every behaviour of the
\* ledger and its workers is, on the lease's variables, a behaviour of LeaseSpec.
THEOREM JobImplementsLease == JobSpec => LeaseSpec
<1>1. JobInit => LeaseInit
  BY DEF JobInit
<1> QED BY <1>1, JobStepIsLeaseStep, PTL DEF JobSpec, LeaseSpec

-----------------------------------------------------------------------------
(* Types *)

\* The rows attempts end in are well typed, unclaimed, and either terminal or
\* with an attempt left.
LEMMA AfterAttempt ==
    ASSUME NEW n \in Nat \ {0}, n <= MaxAttempts, NEW s \in Nat,
           NEW r, r = AfterFailure(n, s) \/ r = AfterSuccess(n, s)
    PROVE  /\ r \in JobRows
           /\ r.status # "running" /\ r.attempts = n
           /\ r.status \notin Terminal => n < MaxAttempts
<1>1. n < MaxAttempts => Backoff[n] \in Nat
  BY LedgerAssumption
<1>2. CASE r = AfterSuccess(n, s)
  BY <1>2 DEF AfterSuccess, JobRows, Statuses, Terminal
<1>3. CASE r = AfterFailure(n, s)
  BY <1>1, <1>3, LedgerAssumption DEF AfterFailure, JobRows, Statuses, Terminal
<1> QED BY <1>2, <1>3

\* Positions in the queue are numbers, and no more than the rows that take one.
LEMMA PositionType ==
    ASSUME NEW js \in SUBSET Jobs, NEW j
    PROVE  /\ Position(js, j) \in Nat /\ Cardinality(js) \in Nat
           /\ Position(js, j) <= Cardinality(js)
<1>1. IsFiniteSet(js)
  BY LedgerAssumption, FS_Subset
<1>2. /\ IsFiniteSet({k \in js : job[k].seq <= job[j].seq})
      /\ Cardinality({k \in js : job[k].seq <= job[j].seq}) <= Cardinality(js)
  <2>1. {k \in js : job[k].seq <= job[j].seq} \subseteq js
    OBVIOUS
  <2> QED BY <1>1, <2>1, FS_Subset
<1> QED BY <1>1, <1>2, FS_CardinalityType DEF Position

-----------------------------------------------------------------------------
(* The inductive step, by what a step does to the mark and to the rows *)

\* The invariant of one row with its history, under a given mark.
RowInv(r, n, mark) ==
    /\ r \in JobRows
    /\ r.status \notin Terminal => r.attempts < MaxAttempts
    /\ r.status = "running" => r.cfence = mark /\ mark > 0
    /\ n \in Nat
    /\ n = r.attempts + (IF r.status = "running" THEN 1 ELSE 0)
    /\ n <= MaxAttempts

RowsInv ==
    /\ job \in [Jobs -> JobRows] /\ starts \in [Jobs -> Nat]
    /\ \A j \in Jobs : RowInv(job[j], starts[j], hwm)

MarkInv ==
    /\ queueSeq \in Nat /\ hwm \in Nat
    /\ work \in [Workers -> Jobs \cup {NoJob}]
    /\ MarkIssued

PlacesInv == \A j \in Jobs : job[j].seq <= queueSeq

\* The ledger's invariant, cut along the lines the steps respect.
LEMMA LedgerInvParts == LedgerInv <=> LeaseInv /\ RowsInv /\ MarkInv /\ PlacesInv
<1>1. LedgerInv => LeaseInv /\ RowsInv /\ MarkInv /\ PlacesInv
  BY DEF LedgerInv, LeaseInv, RowsInv, MarkInv, PlacesInv, RowInv, JobTypeOK, LedgerTypeOK,
         RunningUnderMark, AttemptsLeft, StartsAccounted
<1>2. LeaseInv /\ RowsInv /\ MarkInv /\ PlacesInv => LedgerInv
  BY DEF LedgerInv, LeaseInv, RowsInv, MarkInv, PlacesInv, RowInv, JobTypeOK, LedgerTypeOK,
         RunningUnderMark, AttemptsLeft, StartsAccounted
<1> QED BY <1>1, <1>2

\* No step of a worker takes a token back from the row, and no step but Recover
\* brings a process past resume().
LEMMA MarkKept ==
    ASSUME LeaseTypeOK, MarkInv, hwm' = hwm,
           NEW p \in Workers,
           \/ LeaseStep(p) \/ RecoverFails(p)
           \/ \E o \in Outcomes : EndCycle(p, o)
    PROVE  MarkIssued'
<1> USE DEF LeaseTypeOK, MarkInv, MarkIssued
<1>1. CASE AcquireTx(p)
  BY <1>1 DEF AcquireTx, Acquired
<1>2. CASE ConfirmAcquire(p)
  BY <1>2 DEF ConfirmAcquire, Gone
<1>3. CASE RenewLost(p) \/ LeaveLoop(p)
  BY <1>3 DEF RenewLost, LeaveLoop
<1>4. CASE RenewOk(p) \/ PulseOk(p)
  <2>1. lease'.fence = lease.fence /\ fence' = fence
    BY <1>4 DEF RenewOk, PulseOk, Renewed
  <2> QED BY <1>4, <2>1 DEF RenewOk, PulseOk, Renewed
<1>5. CASE PulseLost(p) \/ RequestStop(p)
  BY <1>5 DEF PulseLost, RequestStop
<1>6. CASE Release(p) \/ FailResume(p) \/ Crash(p)
  <2>1. lease'.fence = lease.fence /\ Gone(p)
    BY <1>6 DEF Release, FailResume, Crash, Released
  <2> QED BY <2>1 DEF Gone
<1>7. CASE Abandon(p)
  <2>1. lease'.fence = lease.fence /\ fence' = fence
    BY <1>7 DEF Abandon, Released
  <2> QED BY <1>7, <2>1 DEF Abandon
<1>8. ASSUME NEW o \in Outcomes, EndCycle(p, o) PROVE MarkIssued'
  BY <1>8 DEF EndCycle
<1> QED
  BY <1>1, <1>2, <1>3, <1>4, <1>5, <1>6, <1>7, <1>8 DEF LeaseStep, RecoverFails

\* resume(): the abandoned rows fail their attempt and the mark becomes ours.
LEMMA RecoverStep ==
    ASSUME LedgerInv, NEW p \in Workers, Recover(p) PROVE RowsInv' /\ MarkInv'
<1> USE LedgerInvParts, LedgerAssumption
<1>1. /\ fence[p] \in 1..lease.fence /\ fence[p] >= hwm /\ hwm \in Nat
      /\ lease' = lease /\ fence' = fence /\ pc' = [pc EXCEPT ![p] = "loop"]
      /\ hwm' = fence[p] /\ work' = work /\ starts' = starts
  BY DEF Recover, EndResume, FenceAccepted, LeaseInv, FencesIssued, TokenHeld, Bound, MarkInv
<1>2. Abandoned(p) \in SUBSET Jobs
  BY DEF Abandoned
<1>3. queueSeq' \in Nat
  BY <1>2, PositionType DEF Recover, MarkInv
<1>4. MarkIssued'
  BY <1>1 DEF MarkInv, MarkIssued, LeaseInv, LeaseTypeOK
<1>5. ASSUME NEW j \in Jobs PROVE job'[j] \in JobRows /\ RowInv(job'[j], starts'[j], hwm')
  <2>1. RowInv(job[j], starts[j], hwm)
    BY DEF RowsInv
  <2>2. CASE j \in Abandoned(p)
    <3> DEFINE n == job[j].attempts + 1
               s == queueSeq + Position(Abandoned(p), j)
    <3>a. job[j].status = "running"
      BY <2>2 DEF Abandoned
    <3>b. s \in Nat
      <4>1. Position(Abandoned(p), j) \in Nat
        BY <1>2, PositionType
      <4>2. queueSeq \in Nat
        BY DEF MarkInv
      <4> QED BY <4>1, <4>2
    <3>1. n \in Nat \ {0} /\ n <= MaxAttempts /\ s \in Nat /\ starts[j] = n
      BY <2>1, <3>a, <3>b DEF RowInv, JobRows, Terminal
    <3>2. job'[j] = AfterFailure(n, s)
      BY <2>2 DEF Recover
    <3> HIDE DEF n, s
    <3>3. /\ job'[j] \in JobRows
          /\ job'[j].status # "running" /\ job'[j].attempts = n
          /\ job'[j].status \notin Terminal => n < MaxAttempts
      BY <3>1, <3>2, AfterAttempt
    <3> QED BY <1>1, <3>1, <3>3 DEF RowInv
  <2>3. CASE j \notin Abandoned(p)
    <3>1. job'[j] = job[j]
      BY <2>3 DEF Recover
    <3>2. job[j].status = "running" => job[j].cfence = fence[p]
      BY <2>3 DEF Abandoned
    <3> QED BY <1>1, <2>1, <3>1, <3>2 DEF RowInv
  <2> QED BY <2>2, <2>3
<1>6. job' \in [Jobs -> JobRows]
  <2>1. job' = [j \in Jobs |-> job'[j]]
    BY DEF Recover
  <2> QED BY <1>5, <2>1
<1>7. RowsInv'
  BY <1>1, <1>5, <1>6 DEF RowsInv
<1> QED BY <1>1, <1>3, <1>4, <1>7 DEF MarkInv

\* A claim: only a process whose token is the mark gets this far, so the mark
\* does not move and the rows already running stay under it.
LEMMA ClaimStep ==
    ASSUME LedgerInv, NEW p \in Workers, Claim(p) PROVE RowsInv' /\ MarkInv'
<1> USE LedgerInvParts, LedgerAssumption
<1>1. /\ fence[p] \in 1..lease.fence /\ fence[p] = hwm /\ hwm \in Nat
      /\ leaseVars' = leaseVars /\ hwm' = hwm /\ queueSeq' = queueSeq
  BY DEF Claim, FenceAccepted, LeaseInv, LeaseTypeOK, FencesIssued, TokenHeld, Bound,
         MarkInv, MarkIssued
<1>2. PICK j \in Jobs :
        /\ Due(j)
        /\ job' = [job EXCEPT ![j] = [@ EXCEPT !.status = "running", !.by = p,
                                               !.cfence = fence[p]]]
        /\ work' = [work EXCEPT ![p] = j]
        /\ starts' = [starts EXCEPT ![j] = @ + 1]
  BY DEF Claim
<1>3. RowInv(job[j], starts[j], hwm) /\ job[j].status \in Runnable
  BY <1>2 DEF RowsInv, Due
<1>4. RowInv(job'[j], starts'[j], hwm')
  <2>1. job'[j] = [job[j] EXCEPT !.status = "running", !.by = p, !.cfence = hwm]
    BY <1>1, <1>2 DEF RowsInv
  <2>2. starts'[j] = starts[j] + 1
    BY <1>2 DEF RowsInv
  <2>3. job[j] \in JobRows /\ job[j].attempts < MaxAttempts /\ starts[j] = job[j].attempts
    <3>1. job[j].status \notin Terminal /\ job[j].status # "running"
      BY <1>3 DEF Runnable, Terminal
    <3> QED BY <1>3, <3>1 DEF RowInv, JobRows
  <2>4. /\ job'[j] \in JobRows /\ job'[j].status = "running"
        /\ job'[j].cfence = hwm /\ job'[j].attempts = job[j].attempts
    <3>1. "running" \in Statuses
      BY DEF Statuses
    <3> QED BY <1>1, <2>1, <2>3, <3>1 DEF JobRows
  <2>5. job[j].attempts \in Nat
    BY <2>3 DEF JobRows
  <2> QED BY <1>1, <2>2, <2>3, <2>4, <2>5 DEF RowInv
<1>5. \A k \in Jobs \ {j} : job'[k] = job[k] /\ starts'[k] = starts[k]
  BY <1>2 DEF RowsInv
<1>6. RowsInv'
  <2>1. job'[j] \in JobRows /\ starts'[j] \in Nat
    BY <1>4 DEF RowInv
  <2>2. job' \in [Jobs -> JobRows] /\ starts' \in [Jobs -> Nat]
    BY <1>2, <2>1 DEF RowsInv
  <2> QED BY <1>1, <1>4, <1>5, <2>2 DEF RowsInv
<1>7. MarkInv'
  BY <1>1, <1>2 DEF MarkInv, MarkIssued, leaseVars
<1> QED BY <1>6, <1>7

\* An outcome recorded over our own claim ends exactly the attempt it started.
LEMMA FinishStep ==
    ASSUME LedgerInv, NEW p \in Workers, FinishOk(p) \/ FinishFailed(p)
    PROVE  RowsInv' /\ MarkInv'
<1> USE LedgerInvParts, LedgerAssumption
<1> DEFINE j == work[p]
           n == job[j].attempts + 1
<1>1. /\ j \in Jobs /\ job[j].status = "running"
      /\ hwm' = hwm /\ starts' = starts /\ work' = [work EXCEPT ![p] = NoJob]
      /\ EndCycle(p, "ok")
  BY DEF FinishOk, FinishFailed, ClaimIsOurs, MarkInv
<1>2. RowInv(job[j], starts[j], hwm)
  BY <1>1 DEF RowsInv
<1>3. n \in Nat \ {0} /\ n <= MaxAttempts /\ starts[j] = n /\ job[j].seq \in Nat
  BY <1>1, <1>2 DEF RowInv, JobRows, Terminal
<1>4. \E r : /\ job' = [job EXCEPT ![j] = r] /\ queueSeq' \in Nat
             /\ \E s \in Nat : r = AfterFailure(n, s) \/ r = AfterSuccess(n, s)
  <2>1. CASE FinishOk(p)
    BY <1>3, <2>1 DEF FinishOk, MarkInv
  <2>2. CASE FinishFailed(p)
    <3>1. queueSeq \in Nat
      BY DEF MarkInv
    <3>2. CASE n >= MaxAttempts
      <4>1. job' = [job EXCEPT ![j] = AfterFailure(n, job[j].seq)] /\ queueSeq' = queueSeq
        BY <2>2, <3>2 DEF FinishFailed
      <4> QED BY <1>3, <3>1, <4>1
    <3>3. CASE ~(n >= MaxAttempts)
      <4>1. /\ job' = [job EXCEPT ![j] = AfterFailure(n, queueSeq + 1)]
            /\ queueSeq' = queueSeq + 1
        BY <2>2, <3>3 DEF FinishFailed
      <4>2. queueSeq + 1 \in Nat
        BY <3>1
      <4> QED BY <4>1, <4>2
    <3> QED BY <3>2, <3>3
  <2> QED BY <2>1, <2>2
<1> HIDE DEF n, j
<1>5. PICK r : /\ job' = [job EXCEPT ![j] = r] /\ queueSeq' \in Nat
               /\ \E s \in Nat : r = AfterFailure(n, s) \/ r = AfterSuccess(n, s)
  BY <1>4
<1>6. /\ r \in JobRows /\ r.status # "running" /\ r.attempts = n
      /\ r.status \notin Terminal => n < MaxAttempts
  BY <1>3, <1>5, AfterAttempt
<1>7. RowInv(r, n, hwm)
  BY <1>3, <1>6 DEF RowInv
<1>8. RowsInv'
  BY <1>1, <1>3, <1>5, <1>6, <1>7 DEF RowsInv
<1>9. MarkIssued'
  <2>1. "ok" \in Outcomes
    BY DEF Outcomes
  <2> QED BY <1>1, <2>1, MarkKept DEF LeaseInv
<1> QED BY <1>1, <1>5, <1>8, <1>9 DEF MarkInv

\* The steps that write no row: lease traffic, fenced or failed outcomes, cycles
\* without a job.
LEMMA QuietStep ==
    ASSUME LedgerInv, NEW p \in Workers,
           \/ LeaseStep(p) \/ RecoverFails(p) \/ FinishFenced(p) \/ FinishError(p)
           \/ \E o \in Outcomes : CycleWithoutJob(p, o)
    PROVE  RowsInv' /\ MarkInv'
<1> USE LedgerInvParts
<1>1. job' = job /\ queueSeq' = queueSeq /\ hwm' = hwm /\ starts' = starts
  BY DEF LeaseStep, RecoverFails, FinishFenced, FinishError, CycleWithoutJob, ledgerVars
<1>2. work' = work \/ work' = [work EXCEPT ![p] = NoJob]
  <2>1. work \in [Workers -> Jobs \cup {NoJob}]
    BY DEF MarkInv
  <2> QED BY <2>1 DEF LeaseStep, RecoverFails, FinishFenced, FinishError, CycleWithoutJob
<1>3. RowsInv'
  BY <1>1 DEF RowsInv
<1>4. \/ LeaseStep(p) \/ RecoverFails(p)
      \/ \E o \in Outcomes : EndCycle(p, o)
  <2>1. "failed" \in Outcomes
    BY DEF Outcomes
  <2> QED BY <2>1 DEF FinishFenced, FinishError, CycleWithoutJob
<1>5. MarkIssued'
  BY <1>1, <1>4, MarkKept DEF LeaseInv
<1> QED BY <1>1, <1>2, <1>3, <1>5 DEF MarkInv

\* Submission, the operator and the clock.
LEMMA OutsideStep ==
    ASSUME LedgerInv,
           \/ \E j \in Jobs : Submit(j)
           \/ OperatorRelease \/ JobTick \/ UNCHANGED jobVars
    PROVE  RowsInv' /\ MarkInv'
<1> USE LedgerInvParts, LedgerAssumption
<1>1. ASSUME NEW j \in Jobs, Submit(j) PROVE RowsInv' /\ MarkInv'
  <2>1. PICK d \in {0, 1} :
          job' = [job EXCEPT ![j] = [@ EXCEPT !.status = "pending", !.wait = d,
                                              !.seq = queueSeq + 1]]
    BY <1>1 DEF Submit
  <2>2. /\ queueSeq' = queueSeq + 1 /\ queueSeq \in Nat
        /\ leaseVars' = leaseVars /\ hwm' = hwm /\ work' = work /\ starts' = starts
        /\ job[j].status = "none"
    BY <1>1 DEF Submit, MarkInv
  <2>3. RowInv(job[j], starts[j], hwm)
    BY DEF RowsInv
  <2>4. job'[j] = [job[j] EXCEPT !.status = "pending", !.wait = d, !.seq = queueSeq + 1]
    BY <2>1 DEF RowsInv
  <2>5. RowInv(job'[j], starts[j], hwm)
    <3>1. job[j] \in JobRows
      BY <2>3 DEF RowInv
    <3>2. /\ job'[j] \in JobRows /\ job'[j].status = "pending"
          /\ job'[j].attempts = job[j].attempts
      <4>1. d \in Nat /\ queueSeq + 1 \in Nat /\ "pending" \in Statuses
        BY <2>2 DEF Statuses
      <4> QED BY <2>4, <3>1, <4>1 DEF JobRows
    <3>3. job[j].attempts < MaxAttempts /\ starts[j] = job[j].attempts
      <4>1. job[j].status \notin Terminal /\ job[j].status # "running"
        BY <2>2 DEF Terminal
      <4> QED BY <2>3, <3>1, <4>1 DEF RowInv, JobRows
    <3> QED BY <2>3, <3>2, <3>3 DEF RowInv
  <2>6. job' \in [Jobs -> JobRows] /\ \A k \in Jobs \ {j} : job'[k] = job[k]
    <3>1. job'[j] \in JobRows
      BY <2>5 DEF RowInv
    <3> QED BY <2>1, <3>1 DEF RowsInv
  <2>7. RowsInv'
    BY <2>2, <2>5, <2>6 DEF RowsInv
  <2>8. MarkInv'
    BY <2>2 DEF MarkInv, MarkIssued, leaseVars
  <2> QED BY <2>7, <2>8
<1>2. CASE OperatorRelease
  <2>1. /\ lease'.fence = lease.fence /\ fence' = fence /\ pc' = pc
        /\ job' = job /\ queueSeq' = queueSeq /\ hwm' = hwm /\ starts' = starts
        /\ work' = work
    BY <1>2 DEF OperatorRelease, ForceRelease, ledgerVars, LeaseInv, LeaseTypeOK
  <2> QED BY <2>1 DEF RowsInv, MarkInv, MarkIssued
<1>3. CASE JobTick
  <2>1. /\ lease'.fence = lease.fence /\ fence' = fence /\ pc' = pc
        /\ queueSeq' = queueSeq /\ hwm' = hwm /\ starts' = starts /\ work' = work
    BY <1>3 DEF JobTick, Tick, leaseVars, LeaseInv, LeaseTypeOK
  <2>2. MarkInv'
    BY <2>1 DEF MarkInv, MarkIssued
  <2>3. ASSUME NEW j \in Jobs PROVE RowInv(job'[j], starts[j], hwm)
    <3>1. RowInv(job[j], starts[j], hwm)
      BY DEF RowsInv
    <3>2. job'[j] = [job[j] EXCEPT !.wait = IF @ > 0 THEN @ - 1 ELSE 0]
      BY <1>3 DEF JobTick
    <3> QED BY <3>1, <3>2 DEF RowInv, JobRows
  <2>4. job' \in [Jobs -> JobRows]
    <3>1. job' = [j \in Jobs |-> job'[j]]
      BY <1>3 DEF JobTick
    <3> QED BY <2>3, <3>1 DEF RowInv
  <2> QED BY <2>1, <2>2, <2>3, <2>4 DEF RowsInv
<1>4. CASE UNCHANGED jobVars
  BY <1>4 DEF jobVars, leaseVars, ledgerVars, RowsInv, MarkInv, MarkIssued
<1> QED BY <1>1, <1>2, <1>3, <1>4

\* A row that gets a new place gets one the counter has handed out by then: the
\* abandoned rows, at most as many as the counter is raised by.
LEMMA PlacesStep == LedgerInv /\ [JobNext]_jobVars => PlacesInv'
<1> SUFFICES ASSUME LedgerInv, [JobNext]_jobVars, NEW j \in Jobs
             PROVE  job'[j].seq <= queueSeq'
  BY DEF PlacesInv
<1>1. /\ job \in [Jobs -> JobRows] /\ queueSeq \in Nat
      /\ job[j].seq \in Nat /\ job[j].seq <= queueSeq
      /\ \A k \in Jobs : job[k].seq \in Nat /\ job[k].seq <= queueSeq
  BY DEF LedgerInv, JobTypeOK, LedgerTypeOK, JobRows
<1>2. CASE job' = job /\ queueSeq' = queueSeq
  BY <1>1, <1>2
<1>3. ASSUME NEW k \in Jobs, Submit(k) PROVE job'[j].seq <= queueSeq'
  BY <1>1, <1>3 DEF Submit, JobRows
<1>4. ASSUME NEW p \in Workers, Recover(p) PROVE job'[j].seq <= queueSeq'
  <2>1. Abandoned(p) \in SUBSET Jobs
    BY DEF Abandoned
  <2> DEFINE place == Position(Abandoned(p), j)
             lost == Cardinality(Abandoned(p))
  <2>2. place \in Nat /\ lost \in Nat /\ place <= lost
    BY <2>1, PositionType
  <2>3. queueSeq' = queueSeq + lost
    BY <1>4 DEF Recover
  <2>4. job'[j].seq = queueSeq + place \/ job'[j].seq = job[j].seq
    BY <1>4 DEF Recover, AfterFailure
  <2> HIDE DEF place, lost
  <2> QED BY <1>1, <2>2, <2>3, <2>4
<1>5. ASSUME NEW p \in Workers, Claim(p) PROVE job'[j].seq <= queueSeq'
  BY <1>1, <1>5 DEF Claim, JobRows
<1>6. ASSUME NEW p \in Workers, FinishOk(p) \/ FinishFailed(p) PROVE job'[j].seq <= queueSeq'
  <2>1. work[p] \in Jobs
    BY <1>6 DEF LedgerInv, JobTypeOK, LedgerTypeOK, FinishOk, FinishFailed
  <2>2. CASE FinishOk(p)
    BY <1>1, <2>1, <2>2 DEF FinishOk, AfterSuccess
  <2>3. CASE FinishFailed(p)
    BY <1>1, <2>1, <2>3 DEF FinishFailed, AfterFailure
  <2> QED BY <1>6, <2>2, <2>3
<1>7. CASE JobTick
  BY <1>1, <1>7 DEF JobTick, JobRows
<1>8. ASSUME NEW p \in Workers,
             \/ RecoverFails(p) \/ FinishFenced(p) \/ FinishError(p) \/ LeaseStep(p)
             \/ \E o \in Outcomes : CycleWithoutJob(p, o)
      PROVE  job' = job /\ queueSeq' = queueSeq
  BY <1>8 DEF RecoverFails, FinishFenced, FinishError, LeaseStep, CycleWithoutJob, ledgerVars
<1>9. CASE OperatorRelease \/ UNCHANGED jobVars
  BY <1>2, <1>9 DEF OperatorRelease, jobVars, ledgerVars
<1> QED
  BY <1>2, <1>3, <1>4, <1>5, <1>6, <1>7, <1>8, <1>9 DEF JobNext

-----------------------------------------------------------------------------
\* The inductive step.
LEMMA LedgerInvStep == LedgerInv /\ [JobNext]_jobVars => LedgerInv'
<1> SUFFICES ASSUME LedgerInv, [JobNext]_jobVars PROVE LedgerInv'
  OBVIOUS
<1>1. LeaseInv'
  BY LedgerInvParts, JobStepIsLeaseStep, LeaseTypeStep, FenceStep DEF LeaseInv
<1>2. RowsInv' /\ MarkInv'
  BY RecoverStep, ClaimStep, FinishStep, QuietStep, OutsideStep DEF JobNext
<1>3. (LedgerInv <=> LeaseInv /\ RowsInv /\ MarkInv /\ PlacesInv)'
  BY LedgerInvParts, PTL
<1> QED BY <1>1, <1>2, <1>3, PlacesStep

\* An empty ledger.
LEMMA LedgerInitInv == JobInit => LedgerInv
<1> SUFFICES ASSUME JobInit PROVE LedgerInv
  OBVIOUS
<1>1. LeaseInv
  BY LeaseInitInv DEF JobInit
<1>2. RowsInv
  BY LedgerAssumption DEF JobInit, RowsInv, RowInv, JobRows, Unclaimed, Statuses, Terminal
<1>3. MarkInv /\ PlacesInv
  BY LedgerAssumption DEF JobInit, LeaseInit, MarkInv, MarkIssued, PlacesInv, Unclaimed
<1> QED BY <1>1, <1>2, <1>3, LedgerInvParts

\* LedgerInv holds in every reachable state; in particular every RUNNING row is
\* under the newest token (RunningUnderMark) and every handler start is counted
\* once, never beyond max_attempts (StartsAccounted).
THEOREM LedgerCorrect ==
    JobSpec => [](JobTypeOK /\ RunningUnderMark /\ MarkIssued /\ StartsAccounted)
<1>1. LedgerInv => JobTypeOK /\ RunningUnderMark /\ MarkIssued /\ StartsAccounted
  BY DEF LedgerInv
<1> QED BY <1>1, LedgerInitInv, LedgerInvStep, PTL DEF JobSpec

\* The rows and the workers' memory keep their types, and no row stands at a
\* place in the queue that the counter has not handed out.
THEOREM JobTypeCorrect == JobSpec => []JobTypeOK
BY LedgerCorrect, PTL

\* A RUNNING row was claimed under the newest token the ledger has seen: resume()
\* has recovered, or the fence has refused, every claim of a zombie.
THEOREM RunningUnderMarkCorrect == JobSpec => []RunningUnderMark
BY LedgerCorrect, PTL

\* Once SUCCEEDED or DEAD_LETTER, a row is never rewritten, and a recorded
\* attempt is never taken back: every step that writes a row writes one that
\* is not terminal, and adds to its attempts or leaves them.
THEOREM OutcomesFinalCorrect == JobSpec => OutcomesFinal
<1> DEFINE Keeps(j) ==
             /\ job'[j].attempts >= job[j].attempts
             /\ job[j].status \in Terminal =>
                   /\ job'[j].status = job[j].status
                   /\ job'[j].attempts = job[j].attempts
<1>1. ASSUME LedgerInv, [JobNext]_jobVars, NEW j \in Jobs PROVE Keeps(j)
  <2>1. job \in [Jobs -> JobRows] /\ job[j].attempts \in Nat
    BY <1>1 DEF LedgerInv, JobTypeOK, LedgerTypeOK, JobRows
  <2>2. CASE job' = job
    BY <2>1, <2>2
  <2>3. ASSUME NEW k \in Jobs, Submit(k) PROVE Keeps(j)
    <3>1. job[k].status \notin Terminal
      BY <2>3 DEF Submit, Terminal
    <3> QED BY <2>1, <2>3, <3>1 DEF Submit, JobRows
  <2>4. ASSUME NEW p \in Workers, Recover(p) PROVE Keeps(j)
    <3>1. CASE j \in Abandoned(p)
      <4>1. job[j].status \notin Terminal
        BY <3>1 DEF Abandoned, Terminal
      <4>2. job'[j].attempts = job[j].attempts + 1
        BY <2>4, <3>1 DEF Recover, AfterFailure
      <4> QED BY <2>1, <4>1, <4>2
    <3>2. CASE j \notin Abandoned(p)
      BY <2>1, <2>4, <3>2 DEF Recover
    <3> QED BY <3>1, <3>2
  <2>5. ASSUME NEW p \in Workers, Claim(p) PROVE Keeps(j)
    <3>1. PICK k \in Jobs :
            /\ Due(k)
            /\ job' = [job EXCEPT ![k] = [@ EXCEPT !.status = "running", !.by = p,
                                                   !.cfence = fence[p]]]
      BY <2>5 DEF Claim
    <3>2. job[k].status \notin Terminal
      BY <3>1 DEF Due, Runnable, Terminal
    <3> QED BY <2>1, <3>1, <3>2 DEF JobRows
  <2>6. ASSUME NEW p \in Workers, FinishOk(p) \/ FinishFailed(p) PROVE Keeps(j)
    <3>1. work[p] \in Jobs /\ job[work[p]].status \notin Terminal
      BY <1>1, <2>6 DEF FinishOk, FinishFailed, ClaimIsOurs, Terminal,
                       LedgerInv, JobTypeOK, LedgerTypeOK
    <3>2. job'[j] = job[j] \/ (j = work[p] /\ job'[j].attempts = job[j].attempts + 1)
      BY <2>1, <2>6, <3>1 DEF FinishOk, FinishFailed, AfterSuccess, AfterFailure
    <3> QED BY <2>1, <3>1, <3>2
  <2>7. CASE JobTick
    BY <2>1, <2>7 DEF JobTick, JobRows
  <2>8. ASSUME NEW p \in Workers,
               \/ RecoverFails(p) \/ FinishFenced(p) \/ FinishError(p) \/ LeaseStep(p)
               \/ \E o \in Outcomes : CycleWithoutJob(p, o)
        PROVE  job' = job
    BY <2>8 DEF RecoverFails, FinishFenced, FinishError, LeaseStep, CycleWithoutJob, ledgerVars
  <2>9. CASE OperatorRelease \/ UNCHANGED jobVars
    BY <2>2, <2>9 DEF OperatorRelease, jobVars, ledgerVars
  <2> QED
    BY <1>1, <2>2, <2>3, <2>4, <2>5, <2>6, <2>7, <2>8, <2>9 DEF JobNext
<1>2. LedgerInv /\ [JobNext]_jobVars => \A j \in Jobs : Keeps(j)
  BY <1>1
<1> QED BY <1>2, LedgerInitInv, LedgerInvStep, PTL DEF JobSpec, OutcomesFinal

-----------------------------------------------------------------------------
(* Executions whose row was taken from them *)

\* A process executes a job only inside a cycle, and under a token below the
\* mark as soon as the row is no longer its claim.
ExecutionsFenced ==
    \A p \in Workers : work[p] # NoJob =>
        /\ pc[p] \in {"cycle", "dying"}
        /\ ClaimIsOurs(p) \/ fence[p] < hwm

\* The inductive step: only a recovery takes a row from its execution, and the
\* token it raises the mark to is newer than the one of that execution.
LEMMA FencedStep ==
    LedgerInv /\ ExecutionsFenced /\ [JobNext]_jobVars => ExecutionsFenced'
<1> SUFFICES ASSUME LedgerInv, ExecutionsFenced, [JobNext]_jobVars, NEW q \in Workers
             PROVE  work'[q] # NoJob =>
                      /\ pc'[q] \in {"cycle", "dying"}
                      /\ ClaimIsOurs(q)' \/ fence'[q] < hwm'
  BY DEF ExecutionsFenced
<1> DEFINE Goal == work'[q] # NoJob =>
                     /\ pc'[q] \in {"cycle", "dying"}
                     /\ ClaimIsOurs(q)' \/ fence'[q] < hwm'
<1>0. /\ job \in [Jobs -> JobRows] /\ work \in [Workers -> Jobs \cup {NoJob}]
      /\ hwm \in Nat /\ fence \in [Workers -> Nat] /\ pc \in [Workers -> Places]
      /\ FencesIssued /\ FencesDistinct /\ MarkIssued
      /\ work[q] # NoJob => pc[q] \in {"cycle", "dying"} /\ TokenHeld(q)
  <2>1. work[q] # NoJob => pc[q] \in {"cycle", "dying"}
    BY DEF ExecutionsFenced
  <2> QED BY <2>1 DEF LedgerInv, JobTypeOK, LeaseTypeOK, LedgerTypeOK, TokenHeld, Bound
<1>1. ASSUME NEW j \in Jobs, Submit(j) PROVE Goal
  <2>1. /\ UNCHANGED <<pc, fence, hwm, work>> /\ job[j].status = "none"
        /\ \A k \in Jobs \ {j} : job'[k] = job[k]
        /\ job'[j].by = job[j].by /\ job'[j].cfence = job[j].cfence
        /\ job'[j].status = "pending"
    BY <1>0, <1>1 DEF Submit, leaseVars, JobRows
  <2> QED BY <1>0, <2>1 DEF ExecutionsFenced, ClaimIsOurs, FenceAccepted
<1>2. ASSUME NEW p \in Workers, Recover(p) PROVE Goal
  <2>1. /\ pc[p] = "resume" /\ pc' = [pc EXCEPT ![p] = "loop"]
        /\ fence' = fence /\ work' = work /\ hwm' = fence[p] /\ fence[p] >= hwm
    BY <1>2 DEF Recover, EndResume, FenceAccepted
  <2>2. CASE work[q] # NoJob
    <3>1. q # p /\ pc'[q] = pc[q] /\ fence[p] # fence[q]
      BY <1>0, <2>1, <2>2 DEF FencesDistinct, TokenHeld, Bound
    <3>2. fence[q] <= hwm
      BY <1>0, <2>2 DEF MarkIssued
    <3>3. fence[q] < hwm'
      BY <1>0, <2>1, <3>1, <3>2
    <3> QED BY <1>0, <2>1, <2>2, <3>1, <3>3
  <2> QED BY <2>1, <2>2
<1>3. ASSUME NEW p \in Workers, Claim(p) PROVE Goal
  <2>1. /\ UNCHANGED <<pc, fence>> /\ pc[p] \in {"cycle", "dying"} /\ work[p] = NoJob
        /\ fence[p] >= hwm /\ hwm' = fence[p]
    BY <1>3 DEF Claim, FenceAccepted, leaseVars
  <2>2. fence[p] <= hwm /\ hwm' = hwm
    BY <1>0, <2>1 DEF MarkIssued
  <2>3. PICK j \in Jobs :
          /\ job[j].status \in Runnable
          /\ job' = [job EXCEPT ![j] = [@ EXCEPT !.status = "running", !.by = p,
                                                 !.cfence = fence[p]]]
          /\ work' = [work EXCEPT ![p] = j]
    BY <1>3 DEF Claim, Due
  <2>4. CASE q = p
    <3>1. /\ work'[q] = j /\ job'[j].status = "running" /\ job'[j].by = q
          /\ job'[j].cfence = fence[q]
      BY <1>0, <2>3, <2>4 DEF JobRows
    <3> QED BY <1>0, <2>1, <2>2, <2>4, <3>1 DEF ClaimIsOurs, FenceAccepted
  <2>5. CASE q # p /\ work[q] # NoJob
    <3>1. work'[q] = work[q] /\ work[q] \in Jobs
      BY <1>0, <2>3, <2>5
    <3>2. work[q] = j => fence[q] < hwm
      BY <2>3, <2>5 DEF ExecutionsFenced, ClaimIsOurs, Runnable
    <3>3. work[q] # j => job'[work[q]] = job[work[q]]
      BY <1>0, <2>3, <3>1
    <3> QED BY <1>0, <2>1, <2>2, <2>5, <3>1, <3>2, <3>3
            DEF ExecutionsFenced, ClaimIsOurs, FenceAccepted
  <2>6. CASE q # p /\ work[q] = NoJob
    BY <1>0, <2>3, <2>6
  <2> QED BY <2>4, <2>5, <2>6
<1>4. ASSUME NEW p \in Workers, FinishOk(p) \/ FinishFailed(p) PROVE Goal
  <2>1. /\ UNCHANGED <<fence, hwm>> /\ work' = [work EXCEPT ![p] = NoJob]
        /\ work[p] \in Jobs /\ ClaimIsOurs(p)
        /\ \A k \in Workers \ {p} : pc'[k] = pc[k]
        /\ \A k \in Jobs \ {work[p]} : job'[k] = job[k]
    BY <1>0, <1>4 DEF FinishOk, FinishFailed, EndCycle
  <2>2. CASE q = p \/ work[q] = NoJob
    BY <1>0, <2>1, <2>2
  <2>3. CASE q # p /\ work[q] # NoJob
    <3>1. work[q] = work[p] => fence[q] < hwm
      BY <2>1, <2>3 DEF ExecutionsFenced, ClaimIsOurs
    <3> QED BY <1>0, <2>1, <2>3, <3>1 DEF ExecutionsFenced, ClaimIsOurs, FenceAccepted
  <2> QED BY <2>2, <2>3
<1>5. ASSUME NEW p \in Workers,
             \/ RecoverFails(p) \/ FinishFenced(p) \/ FinishError(p)
             \/ \E o \in Outcomes : CycleWithoutJob(p, o)
      PROVE  Goal
  <2>1. /\ UNCHANGED <<job, hwm>> /\ \A k \in Workers \ {p} : pc'[k] = pc[k] /\ fence'[k] = fence[k]
        /\ \A k \in Workers \ {p} : work'[k] = work[k]
    BY <1>0, <1>5 DEF RecoverFails, FailResume, Gone, FinishFenced, FinishError,
                      CycleWithoutJob, EndCycle, ledgerVars
  <2>2. work'[p] = NoJob
    BY <1>0, <1>5 DEF RecoverFails, FailResume, FinishFenced, FinishError, CycleWithoutJob,
                      ExecutionsFenced
  <2> QED BY <1>0, <2>1, <2>2 DEF ExecutionsFenced, ClaimIsOurs, FenceAccepted
<1>6. ASSUME NEW p \in Workers, LeaseStep(p) PROVE Goal
  <2>1. /\ UNCHANGED <<job, hwm>> /\ \A k \in Workers \ {p} : work'[k] = work[k]
        /\ work'[p] = IF pc'[p] = "down" THEN NoJob ELSE work[p]
    BY <1>0, <1>6 DEF LeaseStep, ledgerVars
  <2>2. \A k \in Workers \ {p} : pc'[k] = pc[k] /\ fence'[k] = fence[k]
    BY <1>0, <1>6 DEF LeaseStep, AcquireTx, ConfirmAcquire, RenewOk, RenewLost, PulseOk,
       PulseLost, RequestStop, LeaveLoop, Release, Abandon, Crash, Gone
  <2>3. pc[p] \in {"cycle", "dying"} =>
          pc'[p] = "down" \/ (pc'[p] \in {"cycle", "dying"} /\ fence'[p] = fence[p])
    BY <1>0, <1>6 DEF LeaseStep, AcquireTx, ConfirmAcquire, RenewOk, RenewLost, PulseOk,
       PulseLost, RequestStop, LeaveLoop, Release, Abandon, Crash, Gone
  <2>4. CASE q = p
    BY <1>0, <2>1, <2>3, <2>4 DEF ExecutionsFenced, ClaimIsOurs, FenceAccepted
  <2>5. CASE q # p
    BY <1>0, <2>1, <2>2, <2>5 DEF ExecutionsFenced, ClaimIsOurs, FenceAccepted
  <2> QED BY <2>4, <2>5
<1>7. CASE OperatorRelease \/ UNCHANGED jobVars
  <2>1. UNCHANGED <<job, hwm, work, pc, fence>>
    BY <1>7 DEF OperatorRelease, ForceRelease, jobVars, ledgerVars, leaseVars
  <2> QED BY <1>0, <2>1 DEF ExecutionsFenced, ClaimIsOurs, FenceAccepted
<1>8. CASE JobTick
  <2>1. /\ UNCHANGED <<hwm, work, pc, fence>>
        /\ \A k \in Jobs : /\ job'[k].status = job[k].status /\ job'[k].by = job[k].by
                           /\ job'[k].cfence = job[k].cfence
    BY <1>0, <1>8 DEF JobTick, Tick, leaseVars, JobRows
  <2> QED BY <1>0, <2>1 DEF ExecutionsFenced, ClaimIsOurs, FenceAccepted
<1> QED
  BY <1>1, <1>2, <1>3, <1>4, <1>5, <1>6, <1>7, <1>8 DEF JobNext

\* On both kinds of store, a process whose job was recovered under it is fenced
\* out of the ledger, so one job never gets its outcome from two executions.
THEOREM RecoveredMeansFencedCorrect == JobSpec => []RecoveredMeansFenced
<1>1. JobInit => LedgerInv /\ ExecutionsFenced
  BY LedgerInitInv DEF JobInit, ExecutionsFenced
<1>2. LedgerInv /\ ExecutionsFenced /\ [JobNext]_jobVars => (LedgerInv /\ ExecutionsFenced)'
  BY LedgerInvStep, FencedStep
<1>3. ExecutionsFenced => RecoveredMeansFenced
  BY DEF ExecutionsFenced, RecoveredMeansFenced
<1> QED BY <1>1, <1>2, <1>3, PTL DEF JobSpec
=============================================================================
