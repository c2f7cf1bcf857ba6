----------------------------- MODULE JobLedger -----------------------------
(***************************************************************************)
(* The durable job ledger of src/fiboki/agents/orchestrator.py, as the     *)
(* research worker of src/fiboki/workers/research_worker.py drives it      *)
(* under the lease of WorkerLease: submit, claim (run_next), execute       *)
(* outside any transaction, record the outcome (_finish) only over one's   *)
(* own claim, and recover_abandoned at every start.                        *)
(*                                                                         *)
(* The lease row and the ledger are two databases: no step changes the row *)
(* and a job together.  Time is relative, as in WorkerLease: "wait" is     *)
(* next_attempt_at - now, floored at zero.  One queue; every job's type    *)
(* has a handler (submit refuses the others); jobs_per_cycle is 1.         *)
(***************************************************************************)
EXTENDS WorkerLease, FiniteSets

CONSTANTS
    Jobs,           \* idempotency keys
    NoJob,
    MaxAttempts,    \* spec.max_attempts
    Backoff         \* backoff_for as a table: attempt -> ticks

ASSUME LedgerAssumption ==
    /\ IsFiniteSet(Jobs)
    /\ NoJob \notin Jobs
    /\ MaxAttempts \in Nat \ {0}
    /\ Backoff \in [1..MaxAttempts -> Nat]

VARIABLES
    job,        \* the job table
    queueSeq,   \* ledger_meta.queue_seq
    hwm,        \* ledger_meta.fence_hwm
    work,       \* the job each process is executing, between claim and _finish
    starts      \* history: how often each job's handler was started

ledgerVars == <<job, queueSeq, hwm, starts>>
jobVars == <<leaseVars, ledgerVars, work>>

Statuses == {"none", "pending", "running", "succeeded", "failed", "dead_letter"}
Runnable == {"pending", "failed"}
Terminal == {"succeeded", "dead_letter"}

Unclaimed == [status |-> "none", attempts |-> 0, by |-> Nobody, cfence |-> 0,
              seq |-> 0, wait |-> 0]

JobInit ==
    /\ LeaseInit
    /\ job = [j \in Jobs |-> Unclaimed]
    /\ queueSeq = 0
    /\ hwm = 0
    /\ work = [p \in Workers |-> NoJob]
    /\ starts = [j \in Jobs |-> 0]

-----------------------------------------------------------------------------
\* submit(): a second submission of the key is a dedup, whichever process makes
\* it (UNIQUE constraint), so only the first changes the table.  scheduled_for
\* may postpone the first attempt.
Submit(j) ==
    /\ job[j].status = "none"
    /\ \E delay \in {0, 1} :
          job' = [job EXCEPT ![j] = [@ EXCEPT !.status = "pending", !.wait = delay,
                                              !.seq = queueSeq + 1]]
    /\ queueSeq' = queueSeq + 1
    /\ UNCHANGED <<leaseVars, hwm, work, starts>>

\* Mutant: the token is stored, never compared.
MutFenceAny(p) == TRUE

\* _check_fence(): a token below the high-water mark is refused.
FenceAccepted(p) == fence[p] >= hwm

\* Mutant: an abandoned or failed attempt is not counted.
MutFailureFree(n, s) ==
    [status |-> IF n >= MaxAttempts THEN "dead_letter" ELSE "failed",
     attempts |-> n - 1, by |-> Nobody, cfence |-> 0, seq |-> s,
     wait |-> IF n >= MaxAttempts THEN 0 ELSE Backoff[n]]

\* The row after its attempt number n failed or was abandoned: unclaimed, and
\* back in the queue at position s with its backoff, or dead-lettered.
AfterFailure(n, s) ==
    [status |-> IF n >= MaxAttempts THEN "dead_letter" ELSE "failed",
     attempts |-> n, by |-> Nobody, cfence |-> 0, seq |-> s,
     wait |-> IF n >= MaxAttempts THEN 0 ELSE Backoff[n]]

\* The row after its attempt number n succeeded.
AfterSuccess(n, s) ==
    [status |-> "succeeded", attempts |-> n, by |-> Nobody, cfence |-> 0,
     seq |-> s, wait |-> 0]

\* Mutant: only the rows this worker id left behind.
MutAbandonedByMe(p) ==
    {j \in Jobs : job[j].status = "running" /\ job[j].by = p /\ job[j].cfence # fence[p]}

\* Every RUNNING row that is not a live claim of p itself.
Abandoned(p) ==
    {j \in Jobs : /\ job[j].status = "running"
                  /\ ~(job[j].by = p /\ job[j].cfence = fence[p])}

\* Mutant: the position among all the rows of the table.
MutPositionOfAll(js, j) == Cardinality({k \in Jobs : job[k].seq <= job[j].seq})

\* _next_seq, called once for each of the rows js in the order of the queue.
Position(js, j) == Cardinality({k \in js : job[k].seq <= job[j].seq})

\* resume(): bind_lease, then recover_abandoned in one transaction.
Recover(p) ==
    /\ EndResume(p)
    /\ FenceAccepted(p)
    /\ LET lost == Abandoned(p)
       IN  /\ job' = [j \in Jobs |->
                        IF j \in lost
                        THEN AfterFailure(job[j].attempts + 1,
                                          queueSeq + Position(lost, j))
                        ELSE job[j]]
           /\ queueSeq' = queueSeq + Cardinality(lost)
    /\ hwm' = fence[p]
    /\ UNCHANGED <<work, starts>>

\* resume() raised: FencedOut, or the ledger could not be written.
RecoverFails(p) ==
    /\ FailResume(p)
    /\ UNCHANGED <<ledgerVars, work>>

Due(j) == job[j].status \in Runnable /\ job[j].wait = 0

\* run_next(), the claim: the oldest due row, under an accepted fence.  The
\* stop flag was read before the claim, so it may be up by now.
Claim(p) ==
    /\ pc[p] \in {"cycle", "dying"}
    /\ work[p] = NoJob
    /\ FenceAccepted(p)
    /\ \E j \in Jobs :
          /\ Due(j)
          /\ \A k \in Jobs : Due(k) => job[j].seq <= job[k].seq
          /\ job' = [job EXCEPT ![j] = [@ EXCEPT !.status = "running", !.by = p,
                                                 !.cfence = fence[p]]]
          /\ work' = [work EXCEPT ![p] = j]
          /\ starts' = [starts EXCEPT ![j] = @ + 1]
    /\ hwm' = fence[p]
    /\ UNCHANGED <<leaseVars, queueSeq>>

\* A cycle that executes no ledger job: agent work, an empty queue, a stop seen
\* in time, a claim refused with FencedOut, or a claim that could not be written.
CycleWithoutJob(p, outcome) ==
    /\ work[p] = NoJob
    /\ EndCycle(p, outcome)
    /\ UNCHANGED <<ledgerVars, work>>

\* Mutant: _finish() updates the row whoever claimed it.
MutFinishAnyone(p) == TRUE

\* The fence test and the WHERE clause of _finish().
ClaimIsOurs(p) ==
    /\ FenceAccepted(p)
    /\ job[work[p]].status = "running"
    /\ job[work[p]].by = p
    /\ job[work[p]].cfence = fence[p]

\* The handler returned, and the outcome is written over our claim.
FinishOk(p) ==
    /\ work[p] # NoJob
    /\ ClaimIsOurs(p)
    /\ job' = [job EXCEPT ![work[p]] =
                 AfterSuccess(@.attempts + 1, @.seq)]
    /\ work' = [work EXCEPT ![p] = NoJob]
    /\ EndCycle(p, "ok")
    /\ UNCHANGED <<queueSeq, hwm, starts>>

\* The handler raised: a failed attempt.  The cycle itself is a success.  A
\* dead-lettered row keeps its place in the sequence.
FinishFailed(p) ==
    /\ work[p] # NoJob
    /\ ClaimIsOurs(p)
    /\ LET r == job[work[p]]
           n == r.attempts + 1
           s == IF n >= MaxAttempts THEN queueSeq ELSE queueSeq + 1
       IN  /\ job' = [job EXCEPT ![work[p]] =
                        AfterFailure(n, IF n >= MaxAttempts THEN r.seq ELSE s)]
           /\ queueSeq' = s
    /\ work' = [work EXCEPT ![p] = NoJob]
    /\ EndCycle(p, "ok")
    /\ UNCHANGED <<hwm, starts>>

\* FencedOut: somebody recovered the row since.  The outcome is discarded.
FinishFenced(p) ==
    /\ work[p] # NoJob
    /\ ~ClaimIsOurs(p)
    /\ work' = [work EXCEPT ![p] = NoJob]
    /\ EndCycle(p, "failed")
    /\ UNCHANGED ledgerVars

\* The ledger write itself failed: the row stays RUNNING under a live worker.
FinishError(p) ==
    /\ work[p] # NoJob
    /\ ClaimIsOurs(p)
    /\ work' = [work EXCEPT ![p] = NoJob]
    /\ EndCycle(p, "failed")
    /\ UNCHANGED ledgerVars

\* The steps of WorkerLease that touch no ledger row.  A process that goes takes
\* its execution with it, and leaves the row as it stands.
LeaseStep(p) ==
    /\ \/ AcquireTx(p) \/ ConfirmAcquire(p)
       \/ RenewOk(p) \/ RenewLost(p) \/ PulseOk(p) \/ PulseLost(p)
       \/ RequestStop(p) \/ LeaveLoop(p) \/ Release(p)
       \/ Abandon(p) \/ Crash(p)
    /\ work' = [work EXCEPT ![p] = IF pc'[p] = "down" THEN NoJob ELSE @]
    /\ UNCHANGED ledgerVars

OperatorRelease ==
    /\ ForceRelease
    /\ UNCHANGED <<ledgerVars, work>>

\* One clock for the lease and the backoffs.
JobTick ==
    /\ Tick \/ (lease.left = 0 /\ UNCHANGED leaseVars)
    /\ lease.left > 0 \/ \E j \in Jobs : job[j].wait > 0
    /\ job' = [j \in Jobs |->
                 [job[j] EXCEPT !.wait = IF @ > 0 THEN @ - 1 ELSE 0]]
    /\ UNCHANGED <<queueSeq, hwm, work, starts>>

JobNext ==
    \/ \E j \in Jobs : Submit(j)
    \/ \E p \in Workers :
          \/ Recover(p) \/ RecoverFails(p)
          \/ Claim(p)
          \/ \E outcome \in Outcomes : CycleWithoutJob(p, outcome)
          \/ FinishOk(p) \/ FinishFailed(p) \/ FinishFenced(p) \/ FinishError(p)
          \/ LeaseStep(p)
    \/ OperatorRelease
    \/ JobTick

JobSpec == JobInit /\ [][JobNext]_jobVars

-----------------------------------------------------------------------------
(* Properties *)

JobRows == [status : Statuses, attempts : Nat, by : Workers \cup {Nobody},
            cfence : Nat, seq : Nat, wait : Nat]

\* No row stands in the queue at a place the counter has not handed out, so a
\* submission goes behind every row that is there.
LedgerTypeOK ==
    /\ job \in [Jobs -> JobRows]
    /\ queueSeq \in Nat
    /\ \A j \in Jobs : job[j].seq <= queueSeq
    /\ hwm \in Nat
    /\ work \in [Workers -> Jobs \cup {NoJob}]
    /\ starts \in [Jobs -> Nat]

JobTypeOK == LeaseTypeOK /\ LedgerTypeOK

\* Every RUNNING row was claimed under the newest token the ledger has seen: a
\* zombie's claim is either recovered by its successor's resume() or refused.
RunningUnderMark ==
    \A j \in Jobs : job[j].status = "running" =>
        /\ job[j].cfence = hwm
        /\ hwm > 0

\* Nobody runs ahead of the row: the mark is a token the lease issued, and a
\* worker past resume() has pushed the mark to its own token at least.
MarkIssued ==
    /\ hwm <= lease.fence
    /\ \A p \in Workers :
          pc[p] \in {"loop", "cycle", "leave", "dying"} => fence[p] <= hwm

\* Each handler start is accounted for exactly once: as a recorded attempt or
\* as the one claim in progress.  So a job never starts more than max_attempts
\* times, whatever crashes, abandonments and zombies come between.
StartsAccounted ==
    \A j \in Jobs :
        /\ starts[j] = job[j].attempts + (IF job[j].status = "running" THEN 1 ELSE 0)
        /\ starts[j] <= MaxAttempts

\* SUCCEEDED and DEAD_LETTER are final, and an attempt once recorded stays:
\* no late outcome of a fenced-out worker rewrites a row.
OutcomesFinal ==
    [][\A j \in Jobs :
          /\ job'[j].attempts >= job[j].attempts
          /\ job[j].status \in Terminal =>
                /\ job'[j].status = job[j].status
                /\ job'[j].attempts = job[j].attempts]_jobVars

\* recover_abandoned takes a RUNNING row from a process that may still be
\* executing the job: on SQLite after an expiry or a forced release, on
\* PostgreSQL out of _abandon.  That process is then fenced out of the whole
\* ledger: of all the processes executing a job at most one can record its
\* outcome, and the others can neither record nor claim again.
RecoveredMeansFenced ==
    \A p \in Workers : work[p] # NoJob => ClaimIsOurs(p) \/ fence[p] < hwm
=============================================================================
