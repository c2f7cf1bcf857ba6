-------------------------- MODULE ExecutionService --------------------------
(***************************************************************************)
(* The order path of src/fiboki/broker/execution_service.py: submit,       *)
(* close, close_partial, amend, reconcile, over a durable intent store and *)
(* a venue that may answer, refuse, be unreachable, or do the work and     *)
(* lose the answer; with the start-up reconciliation and the reconciliation *)
(* timer of workers/live_worker.py and the re-sent closes of               *)
(* broker/position_manager.py around it.                                   *)
(*                                                                         *)
(* An intent is the newest record under one client reference.  The store   *)
(* writes it durably before dispatch and after the answer, so a crash or a *)
(* failed write between the two leaves PENDING.  One worker, holding the   *)
(* lease of WorkerLease, runs one operation at a time; the venue acts on   *)
(* its own.  A position is identified with the plan that opened it, and    *)
(* its size counted in scale-out legs.                                     *)
(***************************************************************************)
EXTENDS Integers

CONSTANTS
    Plans,
    Levels,     \* the (stop, target) pairs an amendment may ask for
    NoLevel,
    Venues,     \* the adapters the worker may be composed with: see below
    FullSize,   \* legs of a new position
    MaxTries,   \* the attempts of an amendment
    MaxFaults   \* bound: refusals, outages, lost answers, failed writes, crashes

\* "simulated": SimulatedVenue.  Fills at once; orders() lists every order.
\* "rest": OANDA and IG.  Fills at once; orders() lists working orders, and a
\*     market order is never one; positions() makes a new position_id each time.
\* "queued": PaperBroker.  Fills at the next bar; orders() lists what is queued;
\*     lives and dies with its process.
ASSUME ExecAssumption ==
    /\ NoLevel \notin Levels
    /\ Venues \subseteq {"simulated", "rest", "queued"}
    /\ FullSize \in Nat \ {0}
    /\ MaxTries \in Nat \ {0}
    /\ MaxFaults \in Nat

VARIABLES
    venue,      \* which adapter: fixed when the process is composed
    live,       \* ExecutionMode.LIVE: the mode guard may refuse at any time
    intent,     \* state of the newest intent under each client reference
    entryRef,   \* does the entry intent carry the broker reference
    noted,      \* is there an intent that names the position's reference
    op,         \* the operation in flight
    worker,     \* "down" or "trading"
    closing,    \* pending_closes of the position manager
    order,      \* the venue's record of the entry order
    size,       \* what the venue holds
    stop,       \* the levels the venue holds
    faults,     \* how much of MaxFaults is used
    opened,     \* history: positions the venue opened for the plan
    reduced,    \* history: partial closes the venue applied to the plan
    undone      \* history: plans with a close that was reported done and was not

storeVars == <<intent, entryRef, noted>>
venueVars == <<order, size, stop, opened, reduced>>
setupVars == <<venue, live>>
execVars == <<setupVars, storeVars, op, worker, closing, venueVars, faults, undone>>

\* client_ref_for, FBK-CLOSE-, FBK-PARTIAL- and amend_client_ref.
Entry(p) == <<"entry", p, NoLevel>>
Close(p) == <<"close", p, NoLevel>>
Partial(p) == <<"partial", p, NoLevel>>
Amend(p, l) == <<"amend", p, l>>
Keys == ({"entry", "close", "partial"} \X Plans \X {NoLevel})
            \cup ({"amend"} \X Plans \X Levels)

States == {"none", "pending", "unknown", "acked", "filled", "rejected",
           "cancelled", "closed", "blocked"}
NeedsReconciliation == {"pending", "unknown", "acked"}
Resubmittable == {"none", "rejected", "cancelled", "blocked"}

Idle == [step |-> "idle", key |-> <<>>, tries |-> 0, answer |-> "none"]

\* Only a REST venue can be LIVE.
ExecInit ==
    /\ venue \in Venues
    /\ live \in IF venue = "rest" THEN BOOLEAN ELSE {FALSE}
    /\ intent = [k \in Keys |-> "none"]
    /\ entryRef = [p \in Plans |-> FALSE]
    /\ noted = [p \in Plans |-> FALSE]
    /\ op = Idle
    /\ worker = "trading"
    /\ closing = [p \in Plans |-> FALSE]
    /\ order = [p \in Plans |-> "none"]
    /\ size = [p \in Plans |-> 0]
    /\ stop = [p \in Plans |-> NoLevel]
    /\ faults = 0
    /\ opened = [p \in Plans |-> 0]
    /\ reduced = [p \in Plans |-> 0]
    /\ undone = {}

Fault == faults < MaxFaults /\ faults' = faults + 1

-----------------------------------------------------------------------------
(* The worker begins an operation *)

Free == worker = "trading" /\ op.step = "idle"

\* PENDING is on disk; the request goes out.
Dispatch(k) ==
    /\ intent' = [intent EXCEPT ![k] = "pending"]
    /\ op' = [step |-> "sent", key |-> k, tries |-> 1, answer |-> "none"]

\* submit(), step 0: the BLOCKED intent is written before the store is consulted.
ModeGuardBlocks == live

\* Mutant: submit() without its idempotency test.
MutEntryUnchecked(p) ==
    /\ Free
    /\ Dispatch(Entry(p))
    /\ entryRef' = [entryRef EXCEPT ![p] = FALSE]
    /\ UNCHANGED <<setupVars, noted, worker, closing, venueVars, faults, undone>>

\* submit().  A live or unresolved reference raises IdempotencyViolation, which
\* changes nothing.  The gateway's refusal is recorded.  A new intent carries no
\* broker reference.
BeginEntry(p) ==
    /\ Free
    /\ \/ /\ ModeGuardBlocks
          /\ intent' = [intent EXCEPT ![Entry(p)] = "blocked"]
          /\ UNCHANGED op
       \/ /\ intent[Entry(p)] \in Resubmittable
          /\ \/ Dispatch(Entry(p))
             \/ /\ intent' = [intent EXCEPT ![Entry(p)] = "blocked"]
                /\ UNCHANGED op
    /\ entryRef' = [entryRef EXCEPT ![p] = FALSE]
    /\ UNCHANGED <<setupVars, noted, worker, closing, venueVars, faults, undone>>

\* The worker may hold any position the venue ever opened: it may have been
\* closed there since.  Exit intents carry position.venue_ref.
Instruct(p, k) ==
    /\ Free
    /\ opened[p] > 0
    /\ Dispatch(k)
    /\ noted' = [noted EXCEPT ![p] = TRUE]
    /\ UNCHANGED <<setupVars, entryRef, worker, venueVars, faults, undone>>

\* close(), for the manager, flatten() or a re-sent close.
BeginClose(p) ==
    /\ intent[Close(p)] \in Resubmittable
    /\ Instruct(p, Close(p))
    /\ closing' = [closing EXCEPT ![p] = TRUE]

\* Mutant: close_partial() without its idempotency test.
MutPartialUnchecked(p) ==
    /\ Instruct(p, Partial(p))
    /\ UNCHANGED closing

BeginPartial(p) ==
    /\ intent[Partial(p)] \in Resubmittable
    /\ Instruct(p, Partial(p))
    /\ UNCHANGED closing

\* amend(): levels recorded as applied are skipped without a call; everything
\* else, UNKNOWN included, is sent again.
SkipsAmend(p, l) == intent[Amend(p, l)] = "filled"

BeginAmend(p, l) ==
    /\ ~SkipsAmend(p, l)
    /\ Instruct(p, Amend(p, l))
    /\ UNCHANGED closing

-----------------------------------------------------------------------------
(* The venue answers *)

Answer(a) == op' = [op EXCEPT !.step = "answered", !.answer = a]

\* Duplicate detection comes first.
Duplicate(p) == order[p] # "none"

Fills(p) ==
    /\ size' = [size EXCEPT ![p] = FullSize]
    /\ opened' = [opened EXCEPT ![p] = @ + 1]

PlaceOrder(p) ==
    /\ order' = [order EXCEPT ![p] = IF venue = "queued" THEN "working" ELSE "filled"]
    /\ IF venue = "queued" THEN UNCHANGED <<size, opened>> ELSE Fills(p)
    /\ UNCHANGED <<stop, reduced>>

\* Taking n legs off; SimulatedVenue marks the order of a flat position.
Reduce(p, n) ==
    /\ size' = [size EXCEPT ![p] = @ - n]
    /\ order' = [order EXCEPT ![p] =
                   IF venue = "simulated" /\ size[p] = n THEN "cancelled" ELSE @]
    /\ UNCHANGED <<stop, opened>>

\* What the venue does when it carries the operation out.
Effect(k) ==
    LET p == k[2] IN
    \/ k[1] = "entry" /\ PlaceOrder(p)
    \/ k[1] = "close" /\ Reduce(p, size[p]) /\ UNCHANGED reduced
    \/ k[1] = "partial" /\ Reduce(p, 1) /\ reduced' = [reduced EXCEPT ![p] = @ + 1]
    \/ /\ k[1] = "amend"
       /\ stop' = [stop EXCEPT ![p] = k[3]]
       /\ UNCHANGED <<order, size, opened, reduced>>

\* The answers that need no fault: the venue does not carry it out.
Refusal(k) ==
    IF k[1] = "entry"
    THEN IF Duplicate(k[2]) THEN {"duplicate"} ELSE {}
    ELSE IF venue = "queued" /\ k[1] # "close" THEN {"unsupported"}
    ELSE IF size[k[2]] > 0 THEN {}
    ELSE IF venue = "queued" THEN {"raised"} ELSE {"notfound"}

VenueDoes ==
    /\ op.step = "sent"
    /\ Refusal(op.key) = {}
    /\ Effect(op.key)
    /\ Answer(IF op.key[1] = "entry" /\ venue = "queued" THEN "accepted" ELSE "done")
    /\ UNCHANGED <<setupVars, storeVars, worker, closing, faults, undone>>

VenueRefuses ==
    /\ op.step = "sent"
    /\ \E a \in Refusal(op.key) : Answer(a)
    /\ UNCHANGED <<setupVars, storeVars, worker, closing, venueVars, faults, undone>>

\* A refusal of its own, or no connection.  SimulatedVenue looks for duplicates
\* and absent positions before it looks at its connection; nobody refuses a
\* close; the in-process PaperBroker is always there.
VenueFails ==
    /\ op.step = "sent"
    /\ venue # "queued"
    /\ Refusal(op.key) = {} \/ venue = "rest"
    /\ \/ Answer("unavailable")
       \/ op.key[1] # "close" /\ Answer("rejected")
    /\ Fault
    /\ UNCHANGED <<setupVars, storeVars, worker, closing, venueVars, undone>>

\* A REST adapter takes a 2xx for the deed.  OANDA's closes do not look for an
\* orderCancelTransaction, IG's closes and amendments do not ask /confirms: the
\* venue may have done nothing.
ReportedUndone ==
    /\ op.step = "sent"
    /\ venue = "rest"
    /\ op.key[1] # "entry"
    /\ Refusal(op.key) = {}
    /\ Answer("done")
    /\ Fault
    /\ undone' = IF op.key[1] = "close" THEN undone \cup {op.key[2]} ELSE undone
    /\ UNCHANGED <<setupVars, storeVars, worker, closing, venueVars>>

\* The venue commits and the answer is lost in transit.
AnswerLost ==
    /\ op.step = "sent"
    /\ venue = "rest" \/ (venue = "simulated" /\ op.key[1] = "entry")
    /\ Refusal(op.key) = {}
    /\ Effect(op.key)
    /\ Answer("unavailable")
    /\ Fault
    /\ UNCHANGED <<setupVars, storeVars, worker, closing, undone>>

-----------------------------------------------------------------------------
(* The worker records the answer *)

\* Mutant: an unreachable venue is taken for a flat position.
MutOutageMeansFlat(kind, answer) ==
    CASE answer = "done" -> IF kind = "close" THEN "closed" ELSE "filled"
      [] answer = "accepted" -> "acked"
      [] answer \in {"notfound", "unavailable"} -> "closed"
      [] OTHER -> "rejected"

\* Mutant: an unconfirmed entry is recorded as a rejection.
MutOutageMeansRejected(kind, answer) ==
    CASE answer = "done" -> IF kind = "close" THEN "closed" ELSE "filled"
      [] answer = "accepted" -> "acked"
      [] answer = "notfound" -> "closed"
      [] OTHER -> "rejected"

\* The except clauses and the success path of the four operations.
Outcome(kind, answer) ==
    CASE answer = "done" -> IF kind = "close" THEN "closed" ELSE "filled"
      [] answer = "accepted" -> "acked"
      [] answer = "notfound" -> "closed"
      [] answer = "rejected" -> "rejected"
      [] answer = "unsupported" -> IF kind = "amend" THEN "rejected" ELSE "unknown"
      [] OTHER -> "unknown"

\* Mutant: one attempt too many.
MutTriesOneMore ==
    /\ op.key[1] = "amend"
    /\ op.answer \in {"rejected", "unavailable"}
    /\ op.tries <= MaxTries

\* Only an amendment is tried again, after a refusal or an outage.
TriesAgain ==
    /\ op.key[1] = "amend"
    /\ op.answer \in {"rejected", "unavailable"}
    /\ op.tries < MaxTries

Persist ==
    LET k == op.key  p == op.key[2]  s == Outcome(op.key[1], op.answer) IN
    /\ op.step = "answered"
    /\ op.answer # "raised"
    /\ intent' = [intent EXCEPT ![k] = s]
    /\ entryRef' = [entryRef EXCEPT ![p] = @ \/ (k[1] = "entry" /\ s \in {"filled", "acked"})]
    /\ closing' = [closing EXCEPT ![p] = @ /\ ~(k[1] = "close" /\ s = "closed")]
    /\ op' = IF TriesAgain
             THEN [op EXCEPT !.step = "sent", !.tries = @ + 1, !.answer = "none"]
             ELSE Idle
    /\ UNCHANGED <<setupVars, noted, worker, venueVars, faults, undone>>

\* An exception that is no BrokerError (PaperBroker's KeyError), or the outcome
\* could not be written: the intent stays as it was, the worker carries on.
OutcomeLost ==
    /\ op.step = "answered"
    /\ IF op.answer = "raised" THEN UNCHANGED faults ELSE Fault
    /\ op' = Idle
    /\ UNCHANGED <<setupVars, storeVars, worker, closing, venueVars, undone>>

-----------------------------------------------------------------------------
(* Reconciliation *)

\* Mutant: an order whose position is open is no longer listed.
MutListsWorkingOnly(p) == order[p] \in {"working", "cancelled"}

\* Does orders() list the entry order?  Exit intents carry its reference too.
Lists(p) == IF venue = "simulated" THEN order[p] # "none" ELSE order[p] = "working"

\* _apply_ack() on the listed order.
Reported(p) == IF order[p] = "working" THEN "acked" ELSE order[p]

\* Mutant: whatever the venue does not list is called dead.
MutUnlistedIsDead(k) ==
    LET s == intent[k] IN
    IF s \notin NeedsReconciliation THEN s
    ELSE IF Lists(k[2]) THEN Reported(k[2]) ELSE "cancelled"

\* reconcile(), for one outstanding intent.
Resolve(k) ==
    LET s == intent[k] IN
    IF s \notin NeedsReconciliation THEN s
    ELSE IF Lists(k[2]) THEN Reported(k[2])
    ELSE IF s = "pending" THEN "cancelled" ELSE s

Resolved == [k \in Keys |-> Resolve(k)]

\* The entry intents reconcile() gave a broker reference.
ResolvedRef ==
    [p \in Plans |-> entryRef[p] \/ (intent[Entry(p)] \in NeedsReconciliation /\ Lists(p))]

\* A venue position whose reference no intent carries.
Orphans == {p \in Plans : size[p] > 0 /\ ~ResolvedRef[p] /\ ~noted[p]}

\* ReconciliationReport.clean of a reconciliation that reached the venue.
ReconcilesClean ==
    /\ \A k \in Keys : Resolved[k] \notin NeedsReconciliation
    /\ Orphans = {}

\* The timer of the live worker: divergences raise an alert, trading goes on.
Reconcile ==
    /\ Free
    /\ intent' = Resolved
    /\ entryRef' = ResolvedRef
    /\ UNCHANGED <<setupVars, noted, op, worker, closing, venueVars, faults, undone>>

\* resume(): reconcile, then trade only if the report is clean.  A worker on a
\* REST venue meets its positions again under new position_ids, and so under
\* new client references.
Restart ==
    /\ worker = "down"
    /\ worker' = IF ReconcilesClean THEN "trading" ELSE "down"
    /\ intent' = [k \in Keys |->
                    IF ReconcilesClean /\ venue = "rest" /\ k[1] # "entry"
                    THEN "none" ELSE Resolved[k]]
    /\ entryRef' = ResolvedRef
    /\ UNCHANGED <<setupVars, noted, op, closing, venueVars, faults, undone>>

\* kill -9 at any point.  The memory of the manager goes too.
Crash ==
    /\ worker = "trading"
    /\ venue # "queued"
    /\ Fault
    /\ worker' = "down"
    /\ op' = Idle
    /\ closing' = [p \in Plans |-> FALSE]
    /\ UNCHANGED <<setupVars, storeVars, venueVars, undone>>

-----------------------------------------------------------------------------
(* The venue on its own: a queued order fills at the next bar or is dropped, *)
(* a resting stop or target is hit.                                         *)

QueuedFill(p) ==
    /\ order[p] = "working"
    /\ order' = [order EXCEPT ![p] = "filled"]
    /\ Fills(p)
    /\ UNCHANGED <<setupVars, storeVars, op, worker, closing, stop, reduced, faults, undone>>

QueuedDrop(p) ==
    /\ order[p] = "working"
    /\ order' = [order EXCEPT ![p] = "cancelled"]
    /\ UNCHANGED <<setupVars, storeVars, op, worker, closing>>
    /\ UNCHANGED <<size, stop, opened, reduced, faults, undone>>

StopHit(p) ==
    /\ venue # "simulated"
    /\ size[p] > 0
    /\ size' = [size EXCEPT ![p] = 0]
    /\ UNCHANGED <<setupVars, storeVars, op, worker, closing>>
    /\ UNCHANGED <<order, stop, opened, reduced, faults, undone>>

-----------------------------------------------------------------------------
ExecNext ==
    \/ \E p \in Plans :
          \/ BeginEntry(p) \/ BeginClose(p) \/ BeginPartial(p)
          \/ \E l \in Levels : BeginAmend(p, l)
          \/ QueuedFill(p) \/ QueuedDrop(p) \/ StopHit(p)
    \/ VenueDoes \/ VenueRefuses \/ VenueFails \/ ReportedUndone \/ AnswerLost
    \/ Persist \/ OutcomeLost
    \/ Reconcile \/ Restart \/ Crash

ExecSpec == ExecInit /\ [][ExecNext]_execVars

RetryClose(p) == closing[p] /\ BeginClose(p)

\* A call to the venue ends and its outcome is handled; the loop comes round to
\* the reconciliation timer and to retry_pending_closes between operations,
\* however many there are; a supervisor restarts the worker.
ExecFairSpec ==
    /\ ExecSpec
    /\ WF_execVars(VenueDoes \/ VenueRefuses)
    /\ WF_execVars(Persist \/ OutcomeLost)
    /\ SF_execVars(Reconcile)
    /\ WF_execVars(Restart)
    /\ \A p \in Plans : SF_execVars(RetryClose(p))

-----------------------------------------------------------------------------
(* Properties *)

Answers == {"none", "done", "accepted", "duplicate", "notfound", "rejected",
            "unsupported", "unavailable", "raised"}

ExecTypeOK ==
    /\ intent \in [Keys -> States]
    /\ entryRef \in [Plans -> BOOLEAN]
    /\ noted \in [Plans -> BOOLEAN]
    /\ op \in [step : {"idle", "sent", "answered"}, key : Keys \cup {<<>>},
               tries : 0..MaxTries, answer : Answers]
    /\ op.step # "idle" => op.key \in Keys
    /\ worker \in {"down", "trading"}
    /\ closing \in [Plans -> BOOLEAN]
    /\ order \in [Plans -> {"none", "working", "filled", "cancelled"}]
    /\ size \in [Plans -> 0..FullSize]
    /\ stop \in [Plans -> Levels \cup {NoLevel}]
    /\ faults \in 0..MaxFaults
    /\ opened \in [Plans -> Nat]
    /\ reduced \in [Plans -> Nat]
    /\ undone \subseteq Plans

\* The venue lists every order it was given; or nothing has failed so far and no
\* mode guard writes over the record.  (In LIVE mode the guard's BLOCKED replaces
\* the intent of an order already sent; where orders() forgets filled orders a
\* lost outcome is enough: see DeadMeansFlat.)
Dependable == venue = "simulated" \/ (faults = 0 /\ ~live)

\* submit() does not send an entry for a plan the venue already works on or holds,
\* whatever was lost, retried, crashed and reconciled in between: a second
\* position of the plan is not left to the venue's own duplicate check.
EntryNotRepeated ==
    Dependable =>
        \A p \in Plans : op.step = "sent" /\ op.key = Entry(p)
                          => size[p] = 0 /\ order[p] # "working"

\* A partial close is not idempotent and is applied at most once.  (A restarted
\* worker meets a REST position under a new reference: see Restart.)
ReducedOnce == venue # "rest" => \A p \in Plans : reduced[p] <= 1

\* A close recorded as CLOSED is a flat position, also when the record says so
\* because the venue denied having it; unless a REST adapter reported a close that
\* the venue did not carry out, which is the only way to it.
ClosedMeansFlat ==
    \A p \in Plans : intent[Close(p)] = "closed" => size[p] = 0 \/ p \in undone

\* While the venue holds a position, the entry's intent says that it may:
\* it is not in a state that lets the plan be sent again.
ExposureRecorded ==
    Dependable =>
        \A p \in Plans : size[p] > 0 => intent[Entry(p)] \notin Resubmittable

\* An unconfirmed entry is called dead only on the venue's word.  (In LIVE mode
\* the mode guard's refusal overwrites it: see the README.)
UnknownNotDead ==
    [][~live => \A p \in Plans :
          intent[Entry(p)] = "unknown" /\ intent'[Entry(p)] \in Resubmittable
          => order[p] = "cancelled"]_execVars

\* An order the venue holds is not forgotten: reconciliation finds it, whether
\* its answer was lost, its outcome could not be written, or the worker died.
\* (The other venues list working orders only.)
LostOrderFound ==
    \A p \in Plans :
        (/\ venue = "simulated"
         /\ order[p] # "none"
         /\ intent[Entry(p)] \in {"pending", "unknown"})
        ~> intent[Entry(p)] \notin {"pending", "unknown"}

\* reconcile(), on a PENDING intent the venue does not list: "Safe to call
\* dead; no position can exist."
DeadMeansFlat ==
    \A p \in Plans : intent[Entry(p)] = "cancelled" => size[p] = 0

\* "The close is re-sent every bar until the venue confirms": so a position the
\* book has closed becomes flat, or the venue says that it is.
CloseDelivered == \A p \in Plans : closing[p] ~> (~closing[p] \/ size[p] = 0)
=============================================================================
