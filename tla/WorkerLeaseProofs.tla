------------------------- MODULE WorkerLeaseProofs -------------------------
(***************************************************************************)
(* The fencing discipline of WorkerLease, for any number of workers, any   *)
(* TTL and any number of acquisitions.                                     *)
(*                                                                         *)
(* LeaseInv is inductive: FencesDistinct alone is not, because the process *)
(* that reads its token back in ConfirmAcquire must find a token no other  *)
(* process carries, which is FencesIssued at the row's own fence.          *)
(***************************************************************************)
EXTENDS WorkerLease, TLAPS

LeaseInv == LeaseTypeOK /\ FencesIssued /\ FencesDistinct

\* What the advisory lock guarantees between its taking and its dropping.
AdvisoryHeld ==
    Postgres =>
        \A p \in Workers :
            Bound(p) \/ pc[p] = "check" => advisory = p /\ lease.holder = p

-----------------------------------------------------------------------------
\* The initial row has issued no token and nobody carries one.
LEMMA LeaseInitInv == LeaseInit => LeaseInv /\ AdvisoryHeld
  BY LeaseAssumption
  DEF LeaseInit, LeaseInv, LeaseTypeOK, FencesIssued, FencesDistinct, TokenHeld,
      Bound, Places, AdvisoryHeld

LeaseRows == [holder : Workers \cup {Nobody}, fence : Nat, left : 0..TTL]

\* A process that exits or is killed leaves well-typed state behind.
LEMMA GoneTypes ==
    ASSUME LeaseTypeOK, NEW p \in Workers, Gone(p), lease' \in LeaseRows
    PROVE  LeaseTypeOK'
<1> USE LeaseAssumption DEF LeaseTypeOK, Gone
<1>1. advisory' \in Workers \cup {Nobody, NoLock}
  OBVIOUS
<1>2. pc' \in [Workers -> Places]
  BY DEF Places
<1>3. fence' \in [Workers -> Nat] /\ failures' \in [Workers -> Nat]
  OBVIOUS
<1>4. stop' \in [Workers -> BOOLEAN]
  OBVIOUS
<1> QED BY <1>1, <1>2, <1>3, <1>4 DEF LeaseRows

\* release() yields a well-typed row.
LEMMA ReleasedTypes ==
    ASSUME LeaseTypeOK, NEW p \in Workers PROVE Released(p) \in LeaseRows
  BY LeaseAssumption DEF LeaseTypeOK, Released, LeaseRows

\* Every step of a worker, the operator or the clock keeps the types.
LEMMA LeaseTypeStep ==
    LeaseTypeOK /\ [LeaseNext]_leaseVars => LeaseTypeOK'
<1> SUFFICES ASSUME LeaseTypeOK, [LeaseNext]_leaseVars PROVE LeaseTypeOK'
  OBVIOUS
<1> USE LeaseAssumption DEF LeaseTypeOK, Places
<1>1. ASSUME NEW p \in Workers, AcquireTx(p) PROVE LeaseTypeOK'
  BY <1>1 DEF AcquireTx, Acquired
<1>2. ASSUME NEW p \in Workers, ConfirmAcquire(p) PROVE LeaseTypeOK'
  <2>1. CASE lease.holder = p
    BY <1>2, <2>1 DEF ConfirmAcquire
  <2>2. CASE lease.holder # p
    BY <1>2, <2>2, GoneTypes DEF ConfirmAcquire, LeaseRows
  <2> QED BY <2>1, <2>2
<1>3. ASSUME NEW p \in Workers, EndResume(p) \/ LeaveLoop(p) \/ RenewLost(p)
      PROVE LeaseTypeOK'
  BY <1>3 DEF EndResume, LeaveLoop, RenewLost
<1>4. ASSUME NEW p \in Workers, FailResume(p) \/ Release(p) \/ Crash(p)
      PROVE LeaseTypeOK'
  <2>1. Gone(p) /\ lease' \in LeaseRows
    BY <1>4, ReleasedTypes DEF FailResume, Release, Crash, LeaseRows
  <2> QED BY <2>1, GoneTypes
<1>5. ASSUME NEW p \in Workers, RenewOk(p) \/ PulseOk(p) PROVE LeaseTypeOK'
  BY <1>5 DEF RenewOk, PulseOk, Renewed
<1>6. ASSUME NEW p \in Workers, PulseLost(p) \/ RequestStop(p) PROVE LeaseTypeOK'
  BY <1>6 DEF PulseLost, RequestStop
<1>7. ASSUME NEW p \in Workers, NEW o \in Outcomes, EndCycle(p, o)
      PROVE LeaseTypeOK'
  <2>1. FailureCount(p, o) \in Nat
    BY DEF FailureCount
  <2> QED BY <1>7, <2>1 DEF EndCycle
<1>8. ASSUME NEW p \in Workers, Abandon(p) PROVE LeaseTypeOK'
  BY <1>8 DEF Abandon, Released
<1>9. CASE ForceRelease \/ Tick
  BY <1>9 DEF ForceRelease, Tick
<1>10. CASE UNCHANGED leaseVars
  BY <1>10 DEF leaseVars
<1> QED
  BY <1>1, <1>2, <1>3, <1>4, <1>5, <1>6, <1>7, <1>8, <1>9, <1>10 DEF LeaseNext

\* Types hold for ever; in particular no renewal, pulse or takeover leaves a row
\* that runs for longer than one term from now.
THEOREM LeaseTypeCorrect == LeaseSpec => []LeaseTypeOK
<1>1. LeaseInit => LeaseTypeOK
  BY LeaseInitInv DEF LeaseInv
<1> QED BY <1>1, LeaseTypeStep, PTL DEF LeaseSpec

-----------------------------------------------------------------------------
(* The steps, by what they do to the tokens and to the row. *)

\* A step that neither issues nor drops a token and keeps the row's owner:
\* every renewal, pulse, signal, clock tick and change of place while bound.
LEMMA FencesKept ==
    ASSUME FencesIssued, FencesDistinct,
           fence' = fence, lease'.fence = lease.fence, lease'.holder = lease.holder,
           \A p \in Workers : TokenHeld(p)' <=> TokenHeld(p)
    PROVE  (FencesIssued /\ FencesDistinct)'
<1>1. FencesIssued'
  BY DEF FencesIssued
<1>2. FencesDistinct'
  BY DEF FencesDistinct
<1> QED BY <1>1, <1>2

\* A process that goes drops its token; the row keeps its owner.
LEMMA FencesDropped ==
    ASSUME LeaseTypeOK, FencesIssued, FencesDistinct, NEW p \in Workers, Gone(p),
           lease'.fence = lease.fence, lease'.holder = lease.holder
    PROVE  (FencesIssued /\ FencesDistinct)'
<1>1. ~TokenHeld(p)' /\ fence'[p] = 0
  BY DEF LeaseTypeOK, Gone, TokenHeld, Bound
<1>2. \A q \in Workers \ {p} : fence'[q] = fence[q] /\ (TokenHeld(q)' <=> TokenHeld(q))
  BY DEF LeaseTypeOK, Gone, TokenHeld, Bound
<1>3. FencesIssued'
  BY <1>1, <1>2 DEF FencesIssued
<1>4. FencesDistinct'
  BY <1>1, <1>2 DEF FencesDistinct
<1> QED BY <1>3, <1>4

\* The inductive step of the fencing discipline.
LEMMA FenceStep ==
    LeaseInv /\ [LeaseNext]_leaseVars => (FencesIssued /\ FencesDistinct)'
<1> SUFFICES ASSUME LeaseTypeOK, FencesIssued, FencesDistinct, [LeaseNext]_leaseVars
             PROVE  (FencesIssued /\ FencesDistinct)'
  BY DEF LeaseInv
<1>1. ASSUME NEW p \in Workers, AcquireTx(p) PROVE (FencesIssued /\ FencesDistinct)'
  <2>1. /\ fence' = fence
        /\ lease'.fence = lease.fence + 1 /\ lease'.holder = p
        /\ lease.fence \in Nat
    BY <1>1 DEF AcquireTx, Acquired, LeaseTypeOK
  <2>2. \A q \in Workers : TokenHeld(q)' <=> TokenHeld(q)
    BY <1>1 DEF AcquireTx, LeaseTypeOK, TokenHeld, Bound
  <2>3. ~TokenHeld(p)
    BY <1>1 DEF AcquireTx, TokenHeld, Bound
  <2>4. FencesIssued'
    <3> SUFFICES ASSUME NEW q \in Workers
                 PROVE  /\ TokenHeld(q)' => fence'[q] \in 1..lease'.fence
                        /\ ~TokenHeld(q)' => fence'[q] = 0
                        /\ TokenHeld(q)' => (fence'[q] = lease'.fence <=> lease'.holder = q)
                        /\ lease'.holder = q => lease'.fence > 0
      BY DEF FencesIssued
    <3>1. TokenHeld(q) => fence[q] \in 1..lease.fence /\ q # p
      BY <2>3 DEF FencesIssued
    <3> QED BY <2>1, <2>2, <3>1 DEF FencesIssued
  <2>5. FencesDistinct'
    BY <2>1, <2>2 DEF FencesDistinct
  <2> QED BY <2>4, <2>5
<1>2. ASSUME NEW p \in Workers, ConfirmAcquire(p) PROVE (FencesIssued /\ FencesDistinct)'
  <2>1. CASE lease.holder # p
    BY <1>2, <2>1, FencesDropped DEF ConfirmAcquire
  <2>2. CASE lease.holder = p
    <3>1. /\ fence' = [fence EXCEPT ![p] = lease.fence]
          /\ pc' = [pc EXCEPT ![p] = "resume"]
          /\ lease' = lease
      BY <1>2, <2>2 DEF ConfirmAcquire
    <3>2. TokenHeld(p)' /\ fence'[p] = lease.fence
      BY <3>1 DEF LeaseTypeOK, TokenHeld, Bound
    <3>3. \A q \in Workers \ {p} :
             /\ fence'[q] = fence[q]
             /\ TokenHeld(q)' <=> TokenHeld(q)
             /\ TokenHeld(q) => fence[q] # lease.fence
      BY <2>2, <3>1 DEF LeaseTypeOK, TokenHeld, Bound, FencesIssued
    <3>4. lease.fence \in Nat \ {0}
      \* The row has an owner, so a token was issued.
      BY <2>2 DEF FencesIssued, LeaseTypeOK
    <3>5. FencesIssued'
      BY <2>2, <3>1, <3>2, <3>3, <3>4 DEF FencesIssued
    <3>6. FencesDistinct'
      BY <3>2, <3>3 DEF FencesDistinct
    <3> QED BY <3>5, <3>6
  <2> QED BY <2>1, <2>2
<1>3. ASSUME NEW p \in Workers, EndResume(p) \/ LeaveLoop(p) \/ RenewLost(p)
      PROVE (FencesIssued /\ FencesDistinct)'
  <2>1. \A q \in Workers : TokenHeld(q)' <=> TokenHeld(q)
    BY <1>3 DEF EndResume, LeaveLoop, RenewLost, LeaseTypeOK, TokenHeld, Bound
  <2> QED BY <1>3, <2>1, FencesKept DEF EndResume, LeaveLoop, RenewLost
<1>4. ASSUME NEW p \in Workers, FailResume(p) \/ Release(p) \/ Crash(p)
      PROVE (FencesIssued /\ FencesDistinct)'
  <2>1. Gone(p) /\ lease'.fence = lease.fence /\ lease'.holder = lease.holder
    BY <1>4 DEF FailResume, Release, Crash, Released, LeaseTypeOK
  <2> QED BY <2>1, FencesDropped
<1>5. ASSUME NEW p \in Workers, RenewOk(p) \/ PulseOk(p)
      PROVE (FencesIssued /\ FencesDistinct)'
  <2>1. \A q \in Workers : TokenHeld(q)' <=> TokenHeld(q)
    BY <1>5 DEF RenewOk, PulseOk, Renewed, LeaseTypeOK, TokenHeld, Bound
  <2>2. lease'.fence = lease.fence /\ lease'.holder = lease.holder /\ fence' = fence
    BY <1>5 DEF RenewOk, PulseOk, Renewed, LeaseTypeOK
  <2> QED BY <2>1, <2>2, FencesKept
<1>6. ASSUME NEW p \in Workers, PulseLost(p) \/ RequestStop(p)
      PROVE (FencesIssued /\ FencesDistinct)'
  <2>1. \A q \in Workers : TokenHeld(q)' <=> TokenHeld(q)
    BY <1>6 DEF PulseLost, RequestStop, TokenHeld, Bound
  <2> QED BY <1>6, <2>1, FencesKept DEF PulseLost, RequestStop
<1>7. ASSUME NEW p \in Workers, NEW o \in Outcomes, EndCycle(p, o)
      PROVE (FencesIssued /\ FencesDistinct)'
  <2>1. \A q \in Workers : TokenHeld(q)' <=> TokenHeld(q)
    BY <1>7 DEF EndCycle, LeaseTypeOK, TokenHeld, Bound
  <2> QED BY <1>7, <2>1, FencesKept DEF EndCycle
<1>8. ASSUME NEW p \in Workers, Abandon(p) PROVE (FencesIssued /\ FencesDistinct)'
  <2>1. \A q \in Workers : TokenHeld(q)' <=> TokenHeld(q)
    BY <1>8 DEF Abandon, LeaseTypeOK, TokenHeld, Bound
  <2>2. lease'.fence = lease.fence /\ lease'.holder = lease.holder /\ fence' = fence
    BY <1>8 DEF Abandon, Released, LeaseTypeOK
  <2> QED BY <2>1, <2>2, FencesKept
<1>9. CASE ForceRelease \/ Tick
  <2>1. \A q \in Workers : TokenHeld(q)' <=> TokenHeld(q)
    BY <1>9 DEF ForceRelease, Tick, TokenHeld, Bound
  <2>2. lease'.fence = lease.fence /\ lease'.holder = lease.holder /\ fence' = fence
    BY <1>9 DEF ForceRelease, Tick, LeaseTypeOK
  <2> QED BY <2>1, <2>2, FencesKept
<1>10. CASE UNCHANGED leaseVars
  <2>1. \A q \in Workers : TokenHeld(q)' <=> TokenHeld(q)
    BY <1>10 DEF leaseVars, TokenHeld, Bound
  <2> QED BY <1>10, <2>1, FencesKept DEF leaseVars
<1> QED
  BY <1>1, <1>2, <1>3, <1>4, <1>5, <1>6, <1>7, <1>8, <1>9, <1>10 DEF LeaseNext

\* FencesIssued and FencesDistinct hold in every reachable state: however
\* workers pause, restart and are force-released, no two live processes carry
\* the same fencing token and the newest token is the row holder's.
THEOREM FencingCorrect == LeaseSpec => [](FencesIssued /\ FencesDistinct)
<1>1. LeaseInit => LeaseInv
  BY LeaseInitInv
<1>2. LeaseInv /\ [LeaseNext]_leaseVars => LeaseInv'
  BY LeaseTypeStep, FenceStep DEF LeaseInv
<1>3. LeaseInv => FencesIssued /\ FencesDistinct
  BY DEF LeaseInv
<1> QED BY <1>1, <1>2, <1>3, PTL DEF LeaseSpec

\* A token in use was issued by the row, and the newest one is the row holder's.
THEOREM FencesIssuedCorrect == LeaseSpec => []FencesIssued
BY FencingCorrect, PTL

\* No zombie ever changes its successor's row: an action property, from the
\* invariant that the row's holder is the process with the newest token.
THEOREM ZombieHarmlessCorrect == LeaseSpec => ZombieHarmless
<1>1. LeaseInit => LeaseInv
  BY LeaseInitInv
<1>2. LeaseInv /\ [LeaseNext]_leaseVars => LeaseInv'
  BY LeaseTypeStep, FenceStep DEF LeaseInv
<1>3. LeaseInv => \A p \in Workers :
         /\ TokenHeld(p) /\ fence[p] < lease.fence
         /\ RenewOk(p) \/ PulseOk(p) \/ Release(p) \/ FailResume(p) \/ Abandon(p)
         => UNCHANGED lease
  <2> SUFFICES ASSUME LeaseInv, NEW p \in Workers, TokenHeld(p), fence[p] < lease.fence,
                      RenewOk(p) \/ PulseOk(p) \/ Release(p) \/ FailResume(p) \/ Abandon(p)
               PROVE  lease' = lease
    OBVIOUS
  <2>1. lease.holder # p /\ lease.fence # fence[p]
    BY DEF LeaseInv, FencesIssued, LeaseTypeOK
  <2> QED BY <2>1 DEF RenewOk, PulseOk, Renewed, StillOurs, Release, FailResume, Abandon, Released
<1> QED BY <1>1, <1>2, <1>3, PTL DEF LeaseSpec, ZombieHarmless

-----------------------------------------------------------------------------
\* The kind of store does not change under a running system.
LEMMA StoreFixed ==
    LeaseTypeOK /\ [LeaseNext]_leaseVars => (Postgres' <=> Postgres)
<1> SUFFICES ASSUME LeaseTypeOK, [LeaseNext]_leaseVars PROVE Postgres' <=> Postgres
  OBVIOUS
<1> USE LeaseAssumption DEF LeaseTypeOK, Postgres
<1>1. ASSUME NEW p \in Workers, AcquireTx(p) PROVE Postgres' <=> Postgres
  BY <1>1 DEF AcquireTx
<1>2. ASSUME NEW p \in Workers, ConfirmAcquire(p) \/ FailResume(p) \/ Release(p) \/ Crash(p)
      PROVE  Postgres' <=> Postgres
  BY <1>2 DEF ConfirmAcquire, FailResume, Release, Crash, Gone
<1>3. ASSUME NEW p \in Workers, Abandon(p) PROVE Postgres' <=> Postgres
  BY <1>3 DEF Abandon
<1>4. ASSUME NEW p \in Workers, UNCHANGED advisory PROVE Postgres' <=> Postgres
  BY <1>4
<1>5. CASE UNCHANGED advisory
  BY <1>5
<1> QED
  BY <1>1, <1>2, <1>3, <1>4, <1>5
  DEF LeaseNext, leaseVars, EndResume, RenewOk, RenewLost, PulseOk, PulseLost,
      EndCycle, RequestStop, LeaveLoop, ForceRelease, Tick

\* The advisory lock is owned by whoever is past acquire(), on PostgreSQL.
LEMMA AdvisoryStep ==
    LeaseTypeOK /\ AdvisoryHeld /\ [LeaseNext]_leaseVars => AdvisoryHeld'
<1> SUFFICES ASSUME LeaseTypeOK, AdvisoryHeld, [LeaseNext]_leaseVars, Postgres',
                    NEW q \in Workers, Bound(q)' \/ pc'[q] = "check"
             PROVE  advisory' = q /\ lease'.holder = q
  BY DEF AdvisoryHeld
<1>0. Postgres
  BY StoreFixed
<1> USE <1>0, LeaseAssumption DEF LeaseTypeOK, Bound, AdvisoryHeld
<1>1. ASSUME NEW p \in Workers, AcquireTx(p) PROVE advisory' = q /\ lease'.holder = q
  BY <1>1 DEF AcquireTx, Acquired, AdvisoryFree, Postgres
<1>2. ASSUME NEW p \in Workers, ConfirmAcquire(p) PROVE advisory' = q /\ lease'.holder = q
  BY <1>2 DEF ConfirmAcquire, Gone
<1>3. ASSUME NEW p \in Workers, EndResume(p) \/ LeaveLoop(p) \/ RenewLost(p)
      PROVE advisory' = q /\ lease'.holder = q
  BY <1>3 DEF EndResume, LeaveLoop, RenewLost
<1>4. ASSUME NEW p \in Workers, FailResume(p) \/ Release(p) \/ Crash(p)
      PROVE advisory' = q /\ lease'.holder = q
  <2>1. Gone(p) /\ lease'.holder = lease.holder
    BY <1>4 DEF FailResume, Release, Crash, Released
  <2> QED BY <2>1 DEF Gone
<1>5. ASSUME NEW p \in Workers, RenewOk(p) \/ PulseOk(p)
      PROVE advisory' = q /\ lease'.holder = q
  BY <1>5 DEF RenewOk, PulseOk, Renewed
<1>6. ASSUME NEW p \in Workers, PulseLost(p) \/ RequestStop(p)
      PROVE advisory' = q /\ lease'.holder = q
  BY <1>6 DEF PulseLost, RequestStop
<1>7. ASSUME NEW p \in Workers, NEW o \in Outcomes, EndCycle(p, o)
      PROVE advisory' = q /\ lease'.holder = q
  BY <1>7 DEF EndCycle
<1>8. ASSUME NEW p \in Workers, Abandon(p) PROVE advisory' = q /\ lease'.holder = q
  BY <1>8 DEF Abandon, Released
<1>9. CASE ForceRelease \/ Tick
  BY <1>9 DEF ForceRelease, Tick
<1>10. CASE UNCHANGED leaseVars
  BY <1>10 DEF leaseVars
<1> QED
  BY <1>1, <1>2, <1>3, <1>4, <1>5, <1>6, <1>7, <1>8, <1>9, <1>10 DEF LeaseNext

\* On PostgreSQL the advisory lock is mutual exclusion between acquire() and
\* release(), and the process inside is the row's holder.
THEOREM OneBoundWorkerCorrect == LeaseSpec => []OneBoundWorker
<1>1. LeaseInit => LeaseTypeOK /\ AdvisoryHeld
  BY LeaseInitInv DEF LeaseInv
<1>2. LeaseTypeOK /\ AdvisoryHeld /\ [LeaseNext]_leaseVars => (LeaseTypeOK /\ AdvisoryHeld)'
  BY LeaseTypeStep, AdvisoryStep
<1>3. AdvisoryHeld => OneBoundWorker
  BY DEF AdvisoryHeld, OneBoundWorker
<1> QED BY <1>1, <1>2, <1>3, PTL DEF LeaseSpec
=============================================================================
