---------------------------- MODULE WorkerLease ----------------------------
(***************************************************************************)
(* The single-writer lease of src/fiboki/workers/base.py and the life of   *)
(* the worker processes that compete for it: acquire, resume, a loop of    *)
(* renew and run_cycle, teardown, release; the heartbeat pulse that renews *)
(* from inside a cycle; SIGTERM and the abandonment of a cycle that        *)
(* overruns the shutdown grace; a process killed at any point; and the     *)
(* operator's force_release.                                               *)
(*                                                                         *)
(* The lease row is [holder, fence, left].  "left" is expires_at - now,    *)
(* floored at zero: the code only ever compares expires_at with now.  The  *)
(* absent row (before the first acquire) is the row of Nobody, fence 0,    *)
(* expired: the INSERT of fence 1 and the UPDATE to fence + 1 then agree.  *)
(*                                                                         *)
(* run_cycle and resume belong to the worker's kind; here they may end in  *)
(* every way the base class distinguishes.  JobLedger refines them for the *)
(* research worker.                                                        *)
(***************************************************************************)
EXTENDS Integers

CONSTANTS
    Workers,        \* worker ids, "{kind}@{host}:{pid}": one per process
    Nobody,         \* the holder of a row that does not exist yet
    TTL,            \* lease_ttl_seconds, in ticks
    NoLock,         \* stands for the advisory lock SQLite does not have
    MaxFailures,    \* max_consecutive_failures; 0 disables giving up
    ExitOnOutage,   \* config.exit_on_outage
    MaxFence,       \* bound: the number of acquisitions explored
    MaxCount        \* bound: the consecutive failures explored

ASSUME LeaseAssumption ==
    /\ Nobody \notin Workers
    /\ NoLock \notin Workers \cup {Nobody}
    /\ TTL \in Nat \ {0}
    /\ MaxFailures \in Nat
    /\ ExitOnOutage \in BOOLEAN
    /\ MaxFence \in Nat
    /\ MaxCount \in Nat

VARIABLES
    lease,      \* the worker_lease row
    advisory,   \* whose session holds pg_advisory_lock; NoLock on SQLite
    pc,         \* where each process is in _run_guarded
    fence,      \* WorkerLease.fence of each process; 0 until acquired
    stop,       \* the _stop event of each process
    failures    \* consecutive_failures of each process

leaseVars == <<lease, advisory, pc, fence, stop, failures>>

\* "check": the acquisition is committed but current() is not read back yet.
\* "dying": _abandon released the lease; the main thread is still running.
Places == {"down", "check", "resume", "loop", "cycle", "leave", "dying"}

Postgres == advisory # NoLock

\* The processes that have acquired and have not yet let go.
Bound(p) == pc[p] \in {"resume", "loop", "cycle", "leave"}

LeaseInit ==
    /\ lease = [holder |-> Nobody, fence |-> 0, left |-> 0]
    /\ advisory \in {Nobody, NoLock}
    /\ pc = [p \in Workers |-> "down"]
    /\ fence = [p \in Workers |-> 0]
    /\ stop = [p \in Workers |-> FALSE]
    /\ failures = [p \in Workers |-> 0]

-----------------------------------------------------------------------------
(* Acquisition *)

\* The WHERE clause of acquire(): expired, or already ours.
Free(p) == lease.left = 0 \/ lease.holder = p

\* Mutant: the advisory lock is not consulted.
MutAdvisoryIgnored == TRUE

\* _take_advisory(): always true on SQLite.
AdvisoryFree == advisory \in {Nobody, NoLock}

\* Mutant: a takeover that keeps the old token.
MutSameFence(p) ==
    [holder |-> p, fence |-> IF lease.fence = 0 THEN 1 ELSE lease.fence, left |-> TTL]

\* The row an acquisition leaves: a new token, a full term.
Acquired(p) == [holder |-> p, fence |-> lease.fence + 1, left |-> TTL]

\* A start that finds the lease held, or the advisory lock taken, exits with
\* EXIT_LEASE_HELD and leaves nothing behind: a stuttering step.
AcquireTx(p) ==
    /\ pc[p] = "down"
    /\ lease.fence < MaxFence
    /\ AdvisoryFree
    /\ Free(p)
    /\ lease' = Acquired(p)
    /\ advisory' = IF Postgres THEN p ELSE advisory
    /\ pc' = [pc EXCEPT ![p] = "check"]
    /\ UNCHANGED <<fence, stop, failures>>

\* A process is gone: its session's advisory lock goes with it and its memory
\* is lost.  The next process in the slot starts from __init__.
Gone(p) ==
    /\ advisory' = IF advisory = p THEN Nobody ELSE advisory
    /\ pc' = [pc EXCEPT ![p] = "down"]
    /\ fence' = [fence EXCEPT ![p] = 0]
    /\ stop' = [stop EXCEPT ![p] = FALSE]
    /\ failures' = [failures EXCEPT ![p] = 0]

\* The read-back after the transaction.
ConfirmAcquire(p) ==
    /\ pc[p] = "check"
    /\ \/ /\ lease.holder = p
          /\ fence' = [fence EXCEPT ![p] = lease.fence]
          /\ pc' = [pc EXCEPT ![p] = "resume"]
          /\ UNCHANGED <<lease, advisory, stop, failures>>
       \/ /\ lease.holder # p
          /\ Gone(p)
          /\ UNCHANGED lease

\* Mutant: release() without its WHERE clause.
MutReleaseAnyone(p) == [lease EXCEPT !.left = 0]

\* release(): only the row's holder expires it; a stranger's row is untouched.
Released(p) == IF lease.holder = p THEN [lease EXCEPT !.left = 0] ELSE lease

EndResume(p) ==
    /\ pc[p] = "resume"
    /\ pc' = [pc EXCEPT ![p] = "loop"]
    /\ UNCHANGED <<lease, advisory, fence, stop, failures>>

\* resume() raised: report, release, exit.
FailResume(p) ==
    /\ pc[p] = "resume"
    /\ lease' = Released(p)
    /\ Gone(p)

-----------------------------------------------------------------------------
(* The loop *)

\* Mutant: renew() without its WHERE clause.
MutRenewUnchecked(p) == TRUE

\* The WHERE clause of renew().  It does not look at expires_at.
StillOurs(p) == lease.holder = p /\ lease.fence = fence[p]

\* Mutant: the term is added to expires_at instead of to now.
MutExtended == [lease EXCEPT !.left = @ + TTL]

\* The row a renewal leaves: a full term from now.
Renewed == [lease EXCEPT !.left = TTL]

RenewOk(p) ==
    /\ pc[p] = "loop"
    /\ ~stop[p]
    /\ StillOurs(p)
    /\ lease' = Renewed
    /\ pc' = [pc EXCEPT ![p] = "cycle"]
    /\ UNCHANGED <<advisory, fence, stop, failures>>

\* LeaseLost at the head of the loop: EXIT_FATAL, by way of teardown.
RenewLost(p) ==
    /\ pc[p] = "loop"
    /\ ~stop[p]
    /\ ~StillOurs(p)
    /\ pc' = [pc EXCEPT ![p] = "leave"]
    /\ UNCHANGED <<lease, advisory, fence, stop, failures>>

\* HeartbeatPulse, from its own thread, while run_cycle is running.
PulseOk(p) ==
    /\ pc[p] \in {"cycle", "dying"}
    /\ StillOurs(p)
    /\ lease.left < TTL
    /\ lease' = Renewed
    /\ UNCHANGED <<advisory, pc, fence, stop, failures>>

PulseLost(p) ==
    /\ pc[p] = "cycle"
    /\ ~StillOurs(p)
    /\ ~stop[p]
    /\ stop' = [stop EXCEPT ![p] = TRUE]
    /\ UNCHANGED <<lease, advisory, pc, fence, failures>>

Outcomes == {"ok", "failed", "outage"}

\* Nothing stops the count: while outages are ridden out it passes the limit.
FailureCount(p, outcome) == IF outcome = "ok" THEN 0 ELSE failures[p] + 1

\* An outage is ridden out unless the configuration says to exit on it.
GivesUp(p, outcome) ==
    /\ outcome # "ok"
    /\ MaxFailures # 0
    /\ FailureCount(p, outcome) >= MaxFailures
    /\ outcome = "outage" => ExitOnOutage

\* run_cycle returned or raised.  In a dying process the timer thread owns the
\* rest: os._exit is its next statement.
EndCycle(p, outcome) ==
    /\ pc[p] \in {"cycle", "dying"}
    /\ FailureCount(p, outcome) <= MaxCount
    /\ failures' = [failures EXCEPT ![p] = FailureCount(p, outcome)]
    /\ pc' = [pc EXCEPT ![p] = IF pc[p] = "dying" THEN "dying"
                               ELSE IF GivesUp(p, outcome) \/ stop[p]
                               THEN "leave" ELSE "loop"]
    /\ UNCHANGED <<lease, advisory, fence, stop>>

\* SIGTERM or SIGINT (and max_cycles, which ends the loop the same way).
RequestStop(p) ==
    /\ pc[p] # "down"
    /\ ~stop[p]
    /\ stop' = [stop EXCEPT ![p] = TRUE]
    /\ UNCHANGED <<lease, advisory, pc, fence, failures>>

\* The while condition of _loop.
LeaveLoop(p) ==
    /\ pc[p] = "loop"
    /\ stop[p]
    /\ pc' = [pc EXCEPT ![p] = "leave"]
    /\ UNCHANGED <<lease, advisory, fence, stop, failures>>

\* teardown() and release(), then the process exits.  A second signal outside a
\* cycle takes the same way out by _abandon.
Release(p) ==
    /\ pc[p] = "leave" \/ (pc[p] \in {"check", "resume", "loop"} /\ stop[p])
    /\ lease' = Released(p)
    /\ Gone(p)

-----------------------------------------------------------------------------
(* Leaving badly *)

\* The shutdown grace expired inside a cycle (or a second signal arrived): the
\* lease is released while the main thread may still be in run_cycle.
Abandon(p) ==
    /\ pc[p] = "cycle"
    /\ stop[p]
    /\ lease' = Released(p)
    /\ advisory' = IF advisory = p THEN Nobody ELSE advisory
    /\ pc' = [pc EXCEPT ![p] = "dying"]
    /\ UNCHANGED <<fence, stop, failures>>

\* kill -9, a power cut, or the os._exit that ends _abandon_if_still_working.
Crash(p) ==
    /\ pc[p] # "down"
    /\ Gone(p)
    /\ UNCHANGED lease

\* fiboki worker status --release.
ForceRelease ==
    /\ lease.left > 0
    /\ lease' = [lease EXCEPT !.left = 0]
    /\ UNCHANGED <<advisory, pc, fence, stop, failures>>

Tick ==
    /\ lease.left > 0
    /\ lease' = [lease EXCEPT !.left = @ - 1]
    /\ UNCHANGED <<advisory, pc, fence, stop, failures>>

-----------------------------------------------------------------------------
LeaseNext ==
    \/ \E p \in Workers :
          \/ AcquireTx(p) \/ ConfirmAcquire(p)
          \/ EndResume(p) \/ FailResume(p)
          \/ RenewOk(p) \/ RenewLost(p) \/ PulseOk(p) \/ PulseLost(p)
          \/ \E outcome \in Outcomes : EndCycle(p, outcome)
          \/ RequestStop(p) \/ LeaveLoop(p) \/ Release(p)
          \/ Abandon(p) \/ Crash(p)
    \/ ForceRelease
    \/ Tick

LeaseSpec == LeaseInit /\ [][LeaseNext]_leaseVars

\* Time passes whatever the processes do; nothing else is assumed.
LeaseFairSpec == LeaseSpec /\ WF_leaseVars(Tick)

-----------------------------------------------------------------------------
(* Properties *)

\* A lease never runs for longer than one term from now, however often acquire(),
\* renew() and the pulse extend it: what a takeover waits for is bounded.
LeaseTypeOK ==
    /\ lease \in [holder : Workers \cup {Nobody}, fence : Nat, left : 0..TTL]
    /\ advisory \in Workers \cup {Nobody, NoLock}
    /\ pc \in [Workers -> Places]
    /\ fence \in [Workers -> Nat]
    /\ stop \in [Workers -> BOOLEAN]
    /\ failures \in [Workers -> Nat]

\* A process carries a token exactly while it is past acquire() and not gone.
TokenHeld(p) == Bound(p) \/ pc[p] = "dying"

\* The fencing discipline acquire() and renew() establish together: a token in
\* use was issued by the row, the newest token belongs to the row's holder, and
\* no two live processes carry the same one, however many pauses, restarts and
\* forced releases happened since.
FencesIssued ==
    \A p \in Workers :
        /\ TokenHeld(p) => fence[p] \in 1..lease.fence
        /\ ~TokenHeld(p) => fence[p] = 0
        /\ TokenHeld(p) => (fence[p] = lease.fence <=> lease.holder = p)
        /\ lease.holder = p => lease.fence > 0

FencesDistinct ==
    \A p, q \in Workers :
        TokenHeld(p) /\ TokenHeld(q) /\ fence[p] = fence[q] => p = q

\* What the session-level advisory lock adds on PostgreSQL ("which IS mutual
\* exclusion"): at most one process is between acquire() and release(), and it
\* is the holder of the row.
OneBoundWorker ==
    Postgres =>
        \A p, q \in Workers :
            Bound(p) => lease.holder = p /\ (Bound(q) => p = q)

\* A zombie, a process whose token the row has moved past, never changes the
\* row again through renew(), pulse(), release() or _abandon(): it cannot
\* extend, shorten or free its successor's lease on its way out.
ZombieHarmless ==
    [][\A p \in Workers :
          /\ TokenHeld(p) /\ fence[p] < lease.fence
          /\ RenewOk(p) \/ PulseOk(p) \/ Release(p) \/ FailResume(p) \/ Abandon(p)
          => UNCHANGED lease]_leaseVars

\* A hard-killed worker is recoverable without human action: the row of a dead
\* process expires (or its own slot is reused), because nobody else can renew it.
DeadLeaseExpires ==
    \A p \in Workers :
        (lease.holder = p /\ pc[p] = "down") ~> (lease.left = 0 \/ pc[p] # "down")
=============================================================================
