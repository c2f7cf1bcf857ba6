----------------------- MODULE ExecutionServiceProofs -----------------------
(***************************************************************************)
(* For every set of plans, every adapter and any number of faults: the     *)
(* types, ClosedMeansFlat, EntryNotRepeated, ReducedOnce, ExposureRecorded *)
(* and UnknownNotDead.                                                     *)
(*                                                                         *)
(* ClosedMeansFlat needs that a close is only ever sent for a position     *)
(* that was opened, and that the venue opens none behind it (OpenedOnce).  *)
(* EntryNotRepeated needs that the record never denies what the venue      *)
(* holds (HeldInv), over lost answers, failed writes and reconciliations.  *)
(***************************************************************************)
EXTENDS ExecutionService, TLAPS

\* A plan without a venue record, or with one still queued, has no position and
\* never had one.
OpenedOnce ==
    \A p \in Plans :
        /\ opened[p] <= 1
        /\ order[p] \in {"none", "working"} => opened[p] = 0 /\ size[p] = 0

\* Exit intents follow an opened position, recorded or in flight.
ExitsFollow ==
    /\ \A p \in Plans : intent[Close(p)] # "none" => opened[p] > 0
    /\ op.step # "idle" /\ op.key[1] # "entry" => opened[op.key[2]] > 0

\* A close that will be, or has been, recorded as CLOSED left nothing open.
CloseInv ==
    /\ ClosedMeansFlat
    /\ op.step = "answered" /\ op.key[1] = "close" /\ op.answer \in {"done", "notfound"}
           => size[op.key[2]] = 0 \/ op.key[2] \in undone

ExecInv == ExecTypeOK /\ OpenedOnce /\ ExitsFollow /\ CloseInv

\* The shape of client references: they name their plan and operation.
LEMMA KeyFacts ==
    /\ \A k \in Keys : /\ k[1] \in {"entry", "close", "partial", "amend"}
                       /\ k[2] \in Plans
                       /\ k[1] = "amend" => k[3] \in Levels
                       /\ k[1] = "close" => k = Close(k[2])
    /\ \A p \in Plans : /\ Entry(p) \in Keys /\ Close(p) \in Keys /\ Partial(p) \in Keys
                        /\ \A l \in Levels : Amend(p, l) \in Keys
                        /\ Entry(p)[1] = "entry" /\ Close(p)[1] = "close"
                        /\ Partial(p)[1] = "partial" /\ Close(p)[2] = p
                        /\ Entry(p)[2] = p /\ Partial(p)[2] = p
                        /\ \A l \in Levels : Amend(p, l)[1] = "amend" /\ Amend(p, l)[2] = p
<1>1. \A k \in Keys : /\ k[1] \in {"entry", "close", "partial", "amend"}
                      /\ k[2] \in Plans
                      /\ k[1] = "amend" => k[3] \in Levels
                      /\ k[1] = "close" => k = Close(k[2])
    BY DEF Keys, Close
<1>2. \A p \in Plans : /\ Entry(p) \in Keys /\ Close(p) \in Keys /\ Partial(p) \in Keys
                       /\ \A l \in Levels : Amend(p, l) \in Keys
    BY DEF Keys, Entry, Close, Partial, Amend
<1>3. \A p \in Plans : /\ Entry(p)[1] = "entry" /\ Close(p)[1] = "close"
                       /\ Partial(p)[1] = "partial" /\ Close(p)[2] = p
                       /\ Entry(p)[2] = p /\ Partial(p)[2] = p
                       /\ \A l \in Levels : Amend(p, l)[1] = "amend" /\ Amend(p, l)[2] = p
    BY DEF Entry, Close, Partial, Amend
<1> QED
    BY <1>1, <1>2, <1>3

\* The initial states: an empty store, an idle worker, a flat venue.
LEMMA ExecInitInv == ExecInit => ExecInv
<1> SUFFICES ASSUME ExecInit PROVE ExecInv
    OBVIOUS
<1>1. ExecTypeOK
    BY ExecAssumption DEF ExecInit, ExecTypeOK, Idle, States, Answers
<1>2. OpenedOnce
    <2>1. opened = [p \in Plans |-> 0] /\ size = [p \in Plans |-> 0]
        BY DEF ExecInit
    <2>2. \A p \in Plans : opened[p] = 0 /\ size[p] = 0
        BY <2>1
    <2>3. 0 <= 1
        OBVIOUS
    <2> QED
        BY <2>2, <2>3, Zenon DEF OpenedOnce
<1>3. ExitsFollow
    BY KeyFacts DEF ExecInit, ExitsFollow, Idle
<1>4. CloseInv
    BY KeyFacts DEF ExecInit, CloseInv, ClosedMeansFlat, Idle
<1> QED
    BY <1>1, <1>2, <1>3, <1>4 DEF ExecInv

\* What the venue does to its own state is well typed, and opens a position only
\* where there was no record.
LEMMA EffectFacts ==
    ASSUME ExecTypeOK, OpenedOnce, op.step = "sent", Refusal(op.key) = {}, Effect(op.key)
    PROVE  /\ order' \in [Plans -> {"none", "working", "filled", "cancelled"}]
           /\ size' \in [Plans -> 0..FullSize]
           /\ stop' \in [Plans -> Levels \cup {NoLevel}]
           /\ opened' \in [Plans -> Nat] /\ reduced' \in [Plans -> Nat]
           /\ OpenedOnce'
           /\ \A p \in Plans : opened'[p] >= opened[p]
           /\ \A p \in Plans : opened[p] > 0 => size'[p] <= size[p]
           /\ op.key[1] = "close" => size'[op.key[2]] = 0
<1> DEFINE p == op.key[2]
<1>0. /\ op.key \in Keys /\ p \in Plans
      /\ op.key[1] \in {"entry", "close", "partial", "amend"}
      /\ op.key[1] = "amend" => op.key[3] \in Levels
    BY KeyFacts DEF ExecTypeOK
<1>1. /\ order \in [Plans -> {"none", "working", "filled", "cancelled"}]
      /\ size \in [Plans -> 0..FullSize]
      /\ stop \in [Plans -> Levels \cup {NoLevel}]
      /\ opened \in [Plans -> Nat] /\ reduced \in [Plans -> Nat]
      /\ FullSize \in Nat \ {0}
    BY ExecAssumption DEF ExecTypeOK
<1> HIDE DEF p
<1>2. CASE op.key[1] = "entry" /\ PlaceOrder(p)
    <2>1. order[p] = "none"
        BY <1>2 DEF Refusal, Duplicate, p
    <2>2. opened[p] = 0 /\ size[p] = 0
        BY <1>0, <2>1 DEF OpenedOnce
    <2>3. /\ stop' = stop /\ reduced' = reduced
          /\ order' = [order EXCEPT ![p] = IF venue = "queued" THEN "working" ELSE "filled"]
        BY <1>2 DEF PlaceOrder
    <2>4. CASE venue = "queued"
        <3>1. size' = size /\ opened' = opened
            BY <1>2, <2>4 DEF PlaceOrder
        <3> QED
            BY <1>0, <1>1, <1>2, <2>2, <2>3, <2>4, <3>1 DEF OpenedOnce
    <2>5. CASE venue # "queued"
        <3>1. /\ size' = [size EXCEPT ![p] = FullSize]
              /\ opened' = [opened EXCEPT ![p] = @ + 1]
            BY <1>2, <2>5 DEF PlaceOrder, Fills
        <3> QED
            BY <1>0, <1>1, <1>2, <2>2, <2>3, <2>5, <3>1 DEF OpenedOnce
    <2> QED
        BY <2>4, <2>5
<1>3. CASE \/ op.key[1] = "close" /\ Reduce(p, size[p]) /\ UNCHANGED reduced
           \/ op.key[1] = "partial" /\ Reduce(p, 1) /\ reduced' = [reduced EXCEPT ![p] = @ + 1]
    <2>1. size[p] > 0
        BY <1>0, <1>1, <1>3 DEF Refusal, p
    <2>2. PICK n \in 1..size[p] :
             /\ Reduce(p, n)
             /\ op.key[1] = "close" => n = size[p]
        BY <1>0, <1>1, <1>3, <2>1
    <2>3. /\ size' = [size EXCEPT ![p] = @ - n]
          /\ order' = [order EXCEPT ![p] =
                   IF venue = "simulated" /\ size[p] = n THEN "cancelled" ELSE @]
          /\ stop' = stop /\ opened' = opened
        BY <2>2 DEF Reduce
    <2>4. reduced' \in [Plans -> Nat]
        BY <1>0, <1>1, <1>3
    <2>5. order[p] \notin {"none", "working"}
        BY <1>0, <1>1, <2>1 DEF OpenedOnce
    <2>6. size'[p] = size[p] - n /\ size[p] - n \in 0..FullSize
        BY <1>0, <1>1, <2>2, <2>3
    <2>7. /\ order' \in [Plans -> {"none", "working", "filled", "cancelled"}]
          /\ order'[p] \notin {"none", "working"}
          /\ \A q \in Plans : q # p => order'[q] = order[q]
        BY <1>0, <1>1, <2>3, <2>5
    <2>8. /\ size' \in [Plans -> 0..FullSize]
          /\ \A q \in Plans : q # p => size'[q] = size[q]
        BY <1>0, <1>1, <2>3, <2>6
    <2>9. OpenedOnce'
        BY <2>3, <2>7, <2>8 DEF OpenedOnce
    <2>10. \A q \in Plans : size'[q] <= size[q]
        BY <1>0, <1>1, <2>2, <2>6, <2>8
    <2>11. op.key[1] = "close" => size'[p] = 0
        BY <1>0, <1>1, <2>2, <2>6
    <2> QED
        BY <1>1, <2>3, <2>4, <2>7, <2>8, <2>9, <2>10, <2>11 DEF p
<1>4. CASE /\ op.key[1] = "amend" /\ stop' = [stop EXCEPT ![p] = op.key[3]]
           /\ UNCHANGED <<order, size, opened, reduced>>
    BY <1>0, <1>1, <1>4 DEF OpenedOnce
<1> QED
    BY <1>2, <1>3, <1>4 DEF Effect, p

\* The outcomes an operation may record: CLOSED only on a flat position.
LEMMA OutcomeFacts ==
    \A kind, answer :
        /\ Outcome(kind, answer) \in States
        /\ Outcome(kind, answer) # "none"
        /\ kind = "close" /\ Outcome(kind, answer) = "closed"
               => answer \in {"done", "notfound"}
BY DEF Outcome, States

\* Reconciliation writes well-typed states, never CLOSED and never over nothing.
LEMMA ResolveFacts ==
    ASSUME ExecTypeOK
    PROVE  /\ Resolved \in [Keys -> States]
           /\ ResolvedRef \in [Plans -> BOOLEAN]
           /\ \A k \in Keys : /\ Resolved[k] = "closed" => intent[k] = "closed"
                              /\ Resolved[k] # "none" => intent[k] # "none"
<1>1. ASSUME NEW k \in Keys
      PROVE  /\ Resolve(k) \in States
             /\ Resolve(k) = "closed" => intent[k] = "closed"
             /\ Resolve(k) # "none" => intent[k] # "none"
    <2>1. /\ k[2] \in Plans /\ intent[k] \in States
          /\ order[k[2]] \in {"none", "working", "filled", "cancelled"}
        BY KeyFacts DEF ExecTypeOK
    <2>2. Reported(k[2]) \in {"none", "acked", "filled", "cancelled"}
        BY <2>1 DEF Reported
    <2> QED
        BY <2>1, <2>2 DEF Resolve, NeedsReconciliation, States
<1>2. ResolvedRef \in [Plans -> BOOLEAN]
    BY Zenon DEF ResolvedRef, ExecTypeOK
<1> QED
    BY <1>1, <1>2 DEF Resolved

Ops == [step : {"idle", "sent", "answered"}, key : Keys \cup {<<>>},
        tries : 0..MaxTries, answer : Answers]

\* A step that leaves the venue alone and writes an intent that is not a close,
\* or is a close in a state other than CLOSED, of an opened position.
LEMMA WriteKeeps ==
    ASSUME ExecInv, NEW k \in Keys, NEW s \in States,
           intent' = [intent EXCEPT ![k] = s], UNCHANGED venueVars,
           undone' = undone,
           k[1] = "close" => s # "closed" \/ size[k[2]] = 0 \/ k[2] \in undone,
           k[1] = "close" => opened[k[2]] > 0
    PROVE  /\ intent' \in [Keys -> States]
           /\ OpenedOnce' /\ ClosedMeansFlat'
           /\ \A p \in Plans : intent'[Close(p)] # "none" => opened'[p] > 0
<1>1. UNCHANGED <<order, size, opened>>
    BY DEF venueVars
<1>2. intent' \in [Keys -> States]
    BY DEF ExecInv, ExecTypeOK
<1>3. OpenedOnce'
    BY <1>1 DEF ExecInv, OpenedOnce
<1>4. ASSUME NEW p \in Plans
      PROVE  /\ intent'[Close(p)] = "closed" => size'[p] = 0 \/ p \in undone'
             /\ intent'[Close(p)] # "none" => opened'[p] > 0
    <2>1. Close(p) \in Keys /\ Close(p)[1] = "close" /\ Close(p)[2] = p
        BY KeyFacts
    <2>2. CASE k = Close(p)
        BY <1>1, <2>1, <2>2 DEF ExecInv, ExecTypeOK
    <2>3. CASE k # Close(p)
        <3>1. intent'[Close(p)] = intent[Close(p)]
            BY <2>1, <2>3 DEF ExecInv, ExecTypeOK
        <3> QED
            BY <1>1, <3>1 DEF ExecInv, ExitsFollow, CloseInv, ClosedMeansFlat
    <2> QED
        BY <2>2, <2>3
<1> QED
    BY <1>2, <1>3, <1>4 DEF ClosedMeansFlat

\* Beginning an operation: PENDING is written and the request is in flight.
LEMMA DispatchKeeps ==
    ASSUME ExecInv, NEW k \in Keys, Dispatch(k), UNCHANGED <<venueVars, worker, faults, undone>>,
           k[1] # "entry" => opened[k[2]] > 0,
           entryRef' \in [Plans -> BOOLEAN], noted' \in [Plans -> BOOLEAN],
           closing' \in [Plans -> BOOLEAN]
    PROVE  ExecInv'
<1>1. /\ intent' = [intent EXCEPT ![k] = "pending"]
      /\ op' = [step |-> "sent", key |-> k, tries |-> 1, answer |-> "none"]
    BY DEF Dispatch
<1>2. /\ intent' \in [Keys -> States]
      /\ OpenedOnce' /\ ClosedMeansFlat'
      /\ \A p \in Plans : intent'[Close(p)] # "none" => opened'[p] > 0
    BY <1>1, WriteKeeps DEF States
<1>3. op' \in Ops /\ op'.key \in Keys
    BY <1>1, ExecAssumption DEF Ops, Answers
<1>4. ExecTypeOK'
    BY <1>2, <1>3 DEF ExecInv, ExecTypeOK, Ops, venueVars
<1>5. ExitsFollow' /\ CloseInv'
    BY <1>1, <1>2 DEF ExitsFollow, CloseInv, venueVars
<1> QED
    BY <1>2, <1>4, <1>5 DEF ExecInv

\* The worker begins an operation, or records that it may not.
LEMMA BeginKeeps ==
    ASSUME ExecInv, NEW p \in Plans,
           \/ BeginEntry(p) \/ BeginClose(p) \/ BeginPartial(p)
           \/ \E l \in Levels : BeginAmend(p, l)
    PROVE  ExecInv'
<1>0. /\ Entry(p) \in Keys /\ Close(p) \in Keys /\ Partial(p) \in Keys
      /\ \A l \in Levels : Amend(p, l) \in Keys /\ Amend(p, l)[2] = p
      /\ Entry(p)[1] = "entry" /\ Close(p)[2] = p /\ Partial(p)[2] = p
    BY KeyFacts
<1>1. /\ entryRef \in [Plans -> BOOLEAN] /\ noted \in [Plans -> BOOLEAN]
      /\ closing \in [Plans -> BOOLEAN]
    BY DEF ExecInv, ExecTypeOK
<1>2. CASE BeginEntry(p) /\ Dispatch(Entry(p))
    <2>1. /\ entryRef' \in [Plans -> BOOLEAN]
          /\ UNCHANGED <<noted, worker, closing, venueVars, faults, undone>>
        BY <1>1, <1>2 DEF BeginEntry
    <2> QED
        BY <1>0, <1>1, <1>2, <2>1, DispatchKeeps
<1>3. CASE /\ BeginEntry(p) /\ intent' = [intent EXCEPT ![Entry(p)] = "blocked"]
           /\ UNCHANGED op
    <2>1. /\ entryRef' \in [Plans -> BOOLEAN]
          /\ UNCHANGED <<noted, worker, closing, venueVars, faults, undone>>
        BY <1>1, <1>3 DEF BeginEntry
    <2>2. /\ intent' \in [Keys -> States]
          /\ OpenedOnce' /\ ClosedMeansFlat'
          /\ \A q \in Plans : intent'[Close(q)] # "none" => opened'[q] > 0
        BY <1>0, <1>3, <2>1, WriteKeeps DEF States
    <2>3. ExecTypeOK'
        BY <1>3, <2>1, <2>2 DEF ExecInv, ExecTypeOK, venueVars
    <2>4. ExitsFollow' /\ CloseInv'
        BY <1>3, <2>1, <2>2 DEF ExecInv, ExitsFollow, CloseInv, venueVars
    <2> QED
        BY <2>2, <2>3, <2>4 DEF ExecInv
<1>4. ASSUME NEW k \in Keys, Instruct(p, k), k[2] = p, closing' \in [Plans -> BOOLEAN]
      PROVE  ExecInv'
    <2>1. /\ Dispatch(k) /\ opened[p] > 0 /\ noted' \in [Plans -> BOOLEAN]
          /\ UNCHANGED <<entryRef, worker, venueVars, faults, undone>>
        BY <1>1, <1>4 DEF Instruct
    <2> QED
        BY <1>1, <1>4, <2>1, DispatchKeeps
<1>5. CASE BeginClose(p)
    <2>1. closing' \in [Plans -> BOOLEAN] /\ Instruct(p, Close(p))
        BY <1>1, <1>5 DEF BeginClose
    <2> QED
        BY <1>0, <1>4, <2>1
<1>6. CASE BeginPartial(p)
    <2>1. closing' \in [Plans -> BOOLEAN] /\ Instruct(p, Partial(p))
        BY <1>1, <1>6 DEF BeginPartial
    <2> QED
        BY <1>0, <1>4, <2>1
<1>7. ASSUME NEW l \in Levels, BeginAmend(p, l) PROVE ExecInv'
    <2>1. closing' \in [Plans -> BOOLEAN] /\ Instruct(p, Amend(p, l))
        BY <1>1, <1>7 DEF BeginAmend
    <2> QED
        BY <1>0, <1>4, <2>1
<1> QED
    BY <1>2, <1>3, <1>5, <1>6, <1>7 DEF BeginEntry

\* The venue carries the operation out, whether or not the answer arrives.
LEMMA EffectKeeps ==
    ASSUME ExecInv, op.step = "sent", Refusal(op.key) = {}, Effect(op.key),
           NEW a \in Answers, Answer(a), faults' \in 0..MaxFaults,
           UNCHANGED <<storeVars, worker, closing, undone>>
    PROVE  ExecInv'
<1>1. /\ order' \in [Plans -> {"none", "working", "filled", "cancelled"}]
      /\ size' \in [Plans -> 0..FullSize]
      /\ stop' \in [Plans -> Levels \cup {NoLevel}]
      /\ opened' \in [Plans -> Nat] /\ reduced' \in [Plans -> Nat]
      /\ OpenedOnce'
      /\ \A p \in Plans : opened'[p] >= opened[p]
      /\ \A p \in Plans : opened[p] > 0 => size'[p] <= size[p]
      /\ op.key[1] = "close" => size'[op.key[2]] = 0
    BY EffectFacts DEF ExecInv
<1>2. op \in Ops /\ op.key \in Keys /\ op.key[2] \in Plans
    BY KeyFacts DEF ExecInv, ExecTypeOK, Ops
<1>3. op' \in Ops /\ op'.key = op.key /\ op'.step = "answered"
    BY <1>2 DEF Answer, Ops
<1>4. ExecTypeOK'
    BY <1>1, <1>2, <1>3 DEF ExecInv, ExecTypeOK, Ops, storeVars
<1>5. /\ intent' = intent /\ opened \in [Plans -> Nat] /\ size \in [Plans -> 0..FullSize]
      /\ FullSize \in Nat
    BY ExecAssumption DEF storeVars, ExecInv, ExecTypeOK
<1>6. ExitsFollow'
    BY <1>1, <1>2, <1>3, <1>5 DEF ExecInv, ExitsFollow
<1>7. ClosedMeansFlat'
    <2> SUFFICES ASSUME NEW p \in Plans, intent'[Close(p)] = "closed"
                 PROVE  size'[p] = 0 \/ p \in undone'
        BY DEF ClosedMeansFlat
    <2>1. opened[p] > 0 /\ (size[p] = 0 \/ p \in undone)
        BY <1>5 DEF ExecInv, ExitsFollow, CloseInv, ClosedMeansFlat
    <2> QED
        BY <1>1, <1>5, <2>1
<1>8. CloseInv'
    BY <1>1, <1>3, <1>7 DEF CloseInv
<1> QED
    BY <1>1, <1>4, <1>6, <1>8 DEF ExecInv

\* The venue answers without doing anything.  "notfound" means a flat position,
\* and "done" is then a close reported undone.
LEMMA RefusalKeeps ==
    ASSUME ExecInv, op.step = "sent", NEW a \in Answers, Answer(a),
           undone' \subseteq Plans, undone \subseteq undone',
           op.key[1] = "close" /\ a \in {"done", "notfound"}
               => size[op.key[2]] = 0 \/ op.key[2] \in undone',
           faults' \in 0..MaxFaults, UNCHANGED <<storeVars, worker, closing, venueVars>>
    PROVE  ExecInv'
<1>1. op \in Ops /\ op.key \in Keys
    BY DEF ExecInv, ExecTypeOK, Ops
<1>2. op' \in Ops /\ op'.key = op.key /\ op'.step = "answered" /\ op'.answer = a
    BY <1>1 DEF Answer, Ops
<1>3. ExecTypeOK'
    BY <1>1, <1>2 DEF ExecInv, ExecTypeOK, Ops, storeVars, venueVars
<1>4. OpenedOnce' /\ ExitsFollow'
    BY <1>2 DEF ExecInv, OpenedOnce, ExitsFollow, storeVars, venueVars
<1>5. CloseInv'
    BY <1>2 DEF ExecInv, CloseInv, ClosedMeansFlat, storeVars, venueVars
<1> QED
    BY <1>3, <1>4, <1>5 DEF ExecInv

\* The ways a call to the venue ends.
LEMMA AnswerKeeps ==
    ASSUME ExecInv, VenueDoes \/ VenueRefuses \/ VenueFails \/ ReportedUndone \/ AnswerLost
    PROVE  ExecInv'
<1>0. /\ faults \in 0..MaxFaults /\ MaxFaults \in Nat
      /\ size \in [Plans -> 0..FullSize] /\ FullSize \in Nat /\ undone \subseteq Plans
    BY ExecAssumption DEF ExecInv, ExecTypeOK
<1>1. Fault => faults' \in 0..MaxFaults
    BY <1>0 DEF Fault
<1>2. CASE VenueDoes
    <2> DEFINE a == IF op.key[1] = "entry" /\ venue = "queued" THEN "accepted" ELSE "done"
    <2>1. a \in Answers /\ Answer(a) /\ faults' \in 0..MaxFaults
        BY <1>0, <1>2 DEF VenueDoes, Answers
    <2>2. /\ op.step = "sent" /\ Refusal(op.key) = {} /\ Effect(op.key)
          /\ UNCHANGED <<storeVars, worker, closing, undone>>
        BY <1>2 DEF VenueDoes
    <2> HIDE DEF a
    <2> QED
        BY <2>1, <2>2, EffectKeeps
<1>3. CASE VenueRefuses
    <2>1. PICK a \in Refusal(op.key) : Answer(a)
        BY <1>3 DEF VenueRefuses
    <2>2. op.key[2] \in Plans /\ op.step = "sent"
        BY <1>3, KeyFacts DEF VenueRefuses, ExecInv, ExecTypeOK
    <2>3. a \in Answers /\ (op.key[1] = "close" => a \in {"notfound", "raised"})
        BY <2>1 DEF Refusal, Answers
    <2>4. op.key[1] = "close" => size[op.key[2]] = 0
        BY <1>0, <2>1, <2>2 DEF Refusal
    <2>5. UNCHANGED <<storeVars, worker, closing, venueVars, faults, undone>>
        BY <1>3 DEF VenueRefuses
    <2> QED
        BY <1>0, <2>1, <2>2, <2>3, <2>4, <2>5, RefusalKeeps
<1>4. CASE VenueFails
    <2>1. PICK a \in {"unavailable", "rejected"} : Answer(a)
        BY <1>4 DEF VenueFails
    <2>2. a \in Answers /\ a \notin {"done", "notfound"}
        BY <2>1 DEF Answers
    <2>3. op.step = "sent" /\ Fault /\ UNCHANGED <<storeVars, worker, closing, venueVars, undone>>
        BY <1>4 DEF VenueFails
    <2> QED
        BY <1>0, <1>1, <2>1, <2>2, <2>3, RefusalKeeps
<1>5. CASE AnswerLost
    <2>1. "unavailable" \in Answers
        BY DEF Answers
    <2>2. /\ op.step = "sent" /\ Refusal(op.key) = {} /\ Effect(op.key) /\ Fault
          /\ Answer("unavailable") /\ UNCHANGED <<storeVars, worker, closing, undone>>
        BY <1>5 DEF AnswerLost
    <2> QED
        BY <1>1, <2>1, <2>2, EffectKeeps
<1>6. CASE ReportedUndone
    <2>1. "done" \in Answers
        BY DEF Answers
    <2>2. op.step = "sent" /\ op.key[2] \in Plans
        BY <1>6, KeyFacts DEF ReportedUndone, ExecInv, ExecTypeOK
    <2>3. /\ Answer("done") /\ Fault /\ UNCHANGED <<storeVars, worker, closing, venueVars>>
          /\ undone' = IF op.key[1] = "close" THEN undone \cup {op.key[2]} ELSE undone
        BY <1>6 DEF ReportedUndone
    <2>4. /\ undone' \subseteq Plans /\ undone \subseteq undone'
          /\ op.key[1] = "close" => op.key[2] \in undone'
        BY <1>0, <2>2, <2>3
    <2> QED
        BY <1>1, <2>1, <2>2, <2>3, <2>4, RefusalKeeps
<1> QED
    BY <1>2, <1>3, <1>4, <1>5, <1>6

\* The operation is over and nothing is in flight.
LEMMA IdleOp == Idle \in Ops /\ Idle.step = "idle"
BY ExecAssumption DEF Idle, Ops, Answers

\* The worker records an answer, or loses it.
LEMMA PersistKeeps ==
    ASSUME ExecInv, Persist \/ OutcomeLost
    PROVE  ExecInv'
<1>0. /\ op.step = "answered" /\ op \in Ops /\ op.key \in Keys /\ op.key[2] \in Plans
      /\ faults \in 0..MaxFaults /\ MaxFaults \in Nat /\ MaxTries \in Nat
    BY KeyFacts, ExecAssumption DEF Persist, OutcomeLost, ExecInv, ExecTypeOK, Ops
<1>1. CASE Persist
    <2> DEFINE k == op.key
               s == Outcome(op.key[1], op.answer)
    <2>1. s \in States
        BY OutcomeFacts
    <2>2. /\ intent' = [intent EXCEPT ![k] = s]
          /\ UNCHANGED <<noted, worker, venueVars, faults, undone>>
        BY <1>1 DEF Persist
    <2>3. k[1] = "close" => s # "closed" \/ size[k[2]] = 0 \/ k[2] \in undone
        BY <1>0, OutcomeFacts DEF ExecInv, CloseInv
    <2>4. k[1] = "close" => opened[k[2]] > 0
        BY <1>0 DEF ExecInv, ExitsFollow
    <2>5. /\ intent' \in [Keys -> States]
          /\ OpenedOnce' /\ ClosedMeansFlat'
          /\ \A p \in Plans : intent'[Close(p)] # "none" => opened'[p] > 0
        <3> HIDE DEF s, k
        <3>1. k \in Keys
            BY <1>0 DEF k
        <3> QED
            BY <2>1, <2>2, <2>3, <2>4, <3>1, WriteKeeps
    <2>6. /\ entryRef' \in [Plans -> BOOLEAN]
          /\ closing' \in [Plans -> BOOLEAN]
        <3>1. /\ entryRef \in [Plans -> BOOLEAN] /\ closing \in [Plans -> BOOLEAN]
            BY DEF ExecInv, ExecTypeOK
        <3>2. PICK b \in BOOLEAN : entryRef' = [entryRef EXCEPT ![op.key[2]] = b]
            BY <1>0, <1>1, <3>1, Zenon DEF Persist
        <3>3. PICK c \in BOOLEAN : closing' = [closing EXCEPT ![op.key[2]] = c]
            BY <1>0, <1>1, <3>1, Zenon DEF Persist
        <3> QED
            BY <3>1, <3>2, <3>3
    <2>7. /\ op' \in Ops
          /\ op'.step # "idle" => op'.key = op.key /\ op'.step = "sent"
        <3>1. CASE TriesAgain
            <4>1. op' = [op EXCEPT !.step = "sent", !.tries = @ + 1, !.answer = "none"]
                BY <1>1, <3>1 DEF Persist
            <4>2. op.tries \in 0..MaxTries /\ op.tries + 1 \in 0..MaxTries
                BY <1>0, <3>1 DEF TriesAgain, Ops
            <4> QED
                BY <1>0, <4>1, <4>2 DEF Ops, Answers
        <3>2. CASE ~TriesAgain
            BY <1>1, <3>2, IdleOp DEF Persist
        <3> QED
            BY <3>1, <3>2
    <2>8. ExecTypeOK'
        BY <1>0, <2>2, <2>5, <2>6, <2>7 DEF ExecInv, ExecTypeOK, Ops, venueVars
    <2>9. ExitsFollow' /\ CloseInv'
        BY <2>2, <2>5, <2>7, <1>0 DEF ExecInv, ExitsFollow, CloseInv, venueVars
    <2> QED
        BY <2>5, <2>8, <2>9 DEF ExecInv
<1>2. CASE OutcomeLost
    <2>1. /\ op' = Idle /\ faults' \in 0..MaxFaults
          /\ UNCHANGED <<storeVars, worker, closing, venueVars, undone>>
        BY <1>0, <1>2 DEF OutcomeLost, Fault
    <2>2. ExecTypeOK'
        BY <2>1, IdleOp DEF ExecInv, ExecTypeOK, Ops, storeVars, venueVars
    <2>3. OpenedOnce' /\ ExitsFollow' /\ CloseInv'
        BY <2>1, IdleOp DEF ExecInv, OpenedOnce, ExitsFollow, CloseInv, ClosedMeansFlat,
           storeVars, venueVars
    <2> QED
        BY <2>2, <2>3 DEF ExecInv
<1> QED
    BY <1>1, <1>2

\* Reconciliation by the timer or at start-up, and the crash that precedes it.
LEMMA ReconcileKeeps ==
    ASSUME ExecInv, Reconcile \/ Restart \/ Crash
    PROVE  ExecInv'
<1>1. CASE Reconcile \/ Restart
    <2>1. /\ Resolved \in [Keys -> States] /\ ResolvedRef \in [Plans -> BOOLEAN]
          /\ \A k \in Keys : /\ Resolved[k] = "closed" => intent[k] = "closed"
                             /\ Resolved[k] # "none" => intent[k] # "none"
        BY ResolveFacts DEF ExecInv
    <2>2. /\ intent' \in [Keys -> States]
          /\ \A k \in Keys : /\ intent'[k] = "closed" => intent[k] = "closed"
                             /\ intent'[k] # "none" => intent[k] # "none"
        <3>1. CASE Reconcile
            BY <2>1, <3>1 DEF Reconcile
        <3>2. CASE Restart
            <4>1. intent' = [k \in Keys |->
                               IF ReconcilesClean /\ venue = "rest" /\ k[1] # "entry"
                               THEN "none" ELSE Resolved[k]]
                BY <3>2 DEF Restart
            <4> QED
                BY <2>1, <4>1 DEF States
        <3> QED
            BY <1>1, <3>1, <3>2
    <2>3. /\ worker' \in {"down", "trading"} /\ entryRef' = ResolvedRef
          /\ UNCHANGED <<noted, op, closing, venueVars, faults, undone>>
        BY <1>1 DEF Reconcile, Restart, Free, ExecInv, ExecTypeOK
    <2>4. ExecTypeOK'
        BY <2>1, <2>2, <2>3 DEF ExecInv, ExecTypeOK, venueVars
    <2>5. OpenedOnce' /\ ExitsFollow' /\ CloseInv'
        BY <2>2, <2>3, KeyFacts DEF ExecInv, OpenedOnce, ExitsFollow, CloseInv,
           ClosedMeansFlat, venueVars
    <2> QED
        BY <2>4, <2>5 DEF ExecInv
<1>2. CASE Crash
    <2>1. /\ op' = Idle /\ worker' = "down" /\ closing' = [p \in Plans |-> FALSE]
          /\ Fault /\ UNCHANGED <<storeVars, venueVars, undone>>
        BY <1>2 DEF Crash
    <2>2. faults' \in 0..MaxFaults
        BY <2>1, ExecAssumption DEF Fault, ExecInv, ExecTypeOK
    <2>3. ExecTypeOK'
        BY <2>1, <2>2, IdleOp DEF ExecInv, ExecTypeOK, Ops, storeVars, venueVars
    <2>4. OpenedOnce' /\ ExitsFollow' /\ CloseInv'
        BY <2>1, IdleOp DEF ExecInv, OpenedOnce, ExitsFollow, CloseInv, ClosedMeansFlat,
           storeVars, venueVars
    <2> QED
        BY <2>3, <2>4 DEF ExecInv
<1> QED
    BY <1>1, <1>2

\* The venue on its own.  A queued order opens the plan's first position, so no
\* close of it is on record yet.
LEMMA VenueKeeps ==
    ASSUME ExecInv, NEW p \in Plans, QueuedFill(p) \/ QueuedDrop(p) \/ StopHit(p)
    PROVE  ExecInv'
<1>0. /\ order \in [Plans -> {"none", "working", "filled", "cancelled"}]
      /\ size \in [Plans -> 0..FullSize] /\ opened \in [Plans -> Nat]
      /\ FullSize \in Nat \ {0}
      /\ op.step # "idle" => op.key[2] \in Plans
    BY ExecAssumption, KeyFacts DEF ExecInv, ExecTypeOK
<1>1. CASE QueuedFill(p)
    <2>1. /\ order' = [order EXCEPT ![p] = "filled"]
          /\ size' = [size EXCEPT ![p] = FullSize]
          /\ opened' = [opened EXCEPT ![p] = @ + 1]
          /\ UNCHANGED <<storeVars, op, worker, closing, stop, reduced, faults, undone>>
        BY <1>1 DEF QueuedFill, Fills
    <2>2. opened[p] = 0 /\ size[p] = 0
        BY <1>1 DEF QueuedFill, ExecInv, OpenedOnce
    <2>3. intent[Close(p)] = "none" /\ (op.step # "idle" /\ op.key[1] # "entry" => op.key[2] # p)
        BY <1>0, <2>2 DEF ExecInv, ExitsFollow
    <2>4. ExecTypeOK'
        BY <1>0, <2>1 DEF ExecInv, ExecTypeOK, storeVars
    <2>5. OpenedOnce'
        BY <1>0, <2>1, <2>2 DEF ExecInv, OpenedOnce
    <2>6. ExitsFollow'
        BY <1>0, <2>1 DEF ExecInv, ExitsFollow, storeVars
    <2>7. \A q \in Plans : q # p => size'[q] = size[q]
        BY <1>0, <2>1
    <2>8. intent' = intent /\ op' = op /\ undone' = undone
        BY <2>1 DEF storeVars
    <2>9. CloseInv'
        BY <1>0, <2>3, <2>7, <2>8 DEF ExecInv, CloseInv, ClosedMeansFlat
    <2> QED
        BY <2>4, <2>5, <2>6, <2>9 DEF ExecInv
<1>2. CASE QueuedDrop(p)
    <2>1. /\ order' = [order EXCEPT ![p] = "cancelled"]
          /\ UNCHANGED <<storeVars, op, worker, closing, size, stop, opened, reduced, faults, undone>>
        BY <1>2 DEF QueuedDrop
    <2>2. ExecTypeOK' /\ OpenedOnce'
        BY <1>0, <2>1 DEF ExecInv, ExecTypeOK, OpenedOnce, storeVars
    <2>3. ExitsFollow' /\ CloseInv'
        BY <2>1 DEF ExecInv, ExitsFollow, CloseInv, ClosedMeansFlat, storeVars
    <2> QED
        BY <2>2, <2>3 DEF ExecInv
<1>3. CASE StopHit(p)
    <2>1. /\ size' = [size EXCEPT ![p] = 0]
          /\ UNCHANGED <<storeVars, op, worker, closing, order, stop, opened, reduced, faults, undone>>
        BY <1>3 DEF StopHit
    <2>2. \A q \in Plans : size'[q] = size[q] \/ size'[q] = 0
        BY <1>0, <2>1
    <2>3. ExecTypeOK'
        BY <1>0, <2>1 DEF ExecInv, ExecTypeOK, storeVars
    <2>4. OpenedOnce' /\ ExitsFollow'
        BY <1>0, <2>1, <2>2 DEF ExecInv, OpenedOnce, ExitsFollow, storeVars
    <2>5. CloseInv'
        BY <1>0, <2>1, <2>2 DEF ExecInv, CloseInv, ClosedMeansFlat, storeVars
    <2> QED
        BY <2>3, <2>4, <2>5 DEF ExecInv
<1> QED
    BY <1>1, <1>2, <1>3

\* Every step keeps the invariant.
LEMMA ExecStep ==
    ASSUME ExecInv, [ExecNext]_execVars
    PROVE  ExecInv'
<1>1. CASE UNCHANGED execVars
    BY <1>1 DEF execVars, storeVars, venueVars, ExecInv, ExecTypeOK, OpenedOnce,
       ExitsFollow, CloseInv, ClosedMeansFlat
<1>2. CASE ExecNext
    BY <1>2, BeginKeeps, AnswerKeeps, PersistKeeps, ReconcileKeeps, VenueKeeps DEF ExecNext
<1> QED
    BY <1>1, <1>2

LEMMA ExecInvHolds == ExecSpec => []ExecInv
BY ExecInitInv, ExecStep, PTL DEF ExecSpec

\* The store and the venue keep their types: no operation runs into a state the
\* code has no name for.
THEOREM ExecTypeCorrect == ExecSpec => []ExecTypeOK
<1>1. ExecInv => ExecTypeOK
    BY DEF ExecInv
<1> QED
    BY ExecInvHolds, <1>1, PTL

\* A close recorded as CLOSED is a flat position, also when the venue's word for it
\* was that it has no such position, unless a REST adapter reported a close that
\* the venue did not carry out.
THEOREM ClosedMeansFlatCorrect == ExecSpec => []ClosedMeansFlat
<1>1. ExecInv => ClosedMeansFlat
    BY DEF ExecInv, CloseInv
<1> QED
    BY ExecInvHolds, <1>1, PTL

-----------------------------------------------------------------------------
(* What the store says of the venue: ReducedOnce, ExposureRecorded and the   *)
(* action property UnknownNotDead.                                           *)

\* The composition never changes: LIVE needs a REST venue, and the worker of the
\* in-process venue does not outlive it.  A dead worker has nothing in flight.
Composed ==
    /\ venue \in {"simulated", "rest", "queued"}
    /\ live => venue = "rest"
    /\ worker = "down" => op.step = "idle" /\ venue # "queued"

\* An operation in flight is PENDING in the store: nothing resolves it meanwhile.
\* (An amendment that is being retried has its last refusal on record.)
InFlight ==
    op.step # "idle" /\ op.key[1] # "amend" => intent[op.key] = "pending"

\* The venue holds an order or a position of the plan.
Held(p) == order[p] = "working" \/ size[p] > 0

\* No intent of a scale-out that the venue applied can be sent again while there
\* is something left to take off.
Settled(p) ==
    /\ intent[Partial(p)] \notin Resubmittable
    /\ op.step # "idle" /\ op.key = Partial(p) => op.step = "answered" /\ op.answer = "done"

ReduceInv ==
    /\ venue = "queued" => \A p \in Plans : reduced[p] = 0
    /\ venue = "simulated" =>
          \A p \in Plans : /\ order[p] = "cancelled" => size[p] = 0
                           /\ reduced[p] <= 1
                           /\ reduced[p] > 0 => /\ opened[p] > 0
                                                /\ size[p] = 0 \/ Settled(p)

\* Only a venue without a record of the order rejects it, and what the venue holds
\* is neither resubmittable nor being submitted.  Where orders() forgets filled
\* orders this needs that only the entry in flight is PENDING: nothing failed.
HeldInv ==
    /\ /\ op.step = "answered" /\ op.key[1] = "entry"
       /\ venue # "rest" \/ faults = 0
       /\ order[op.key[2]] # "none"
       => op.answer # "rejected"
    /\ op.step = "answered" /\ op.answer = "raised" => op.key[1] = "close"
    /\ venue # "simulated" /\ faults = 0 =>
          \A p \in Plans : intent[Entry(p)] = "pending" =>
                               op.step # "idle" /\ op.key = Entry(p)
    /\ Dependable =>
          \A p \in Plans : /\ Held(p) => intent[Entry(p)] \notin Resubmittable
                           /\ op.step = "sent" /\ op.key = Entry(p) => ~Held(p)

StoreInv == Composed /\ InFlight /\ ReduceInv /\ HeldInv

\* Client references are told apart by operation and plan.
LEMMA KeyNames ==
    /\ \A k \in Keys : /\ k[1] = "entry" => k = Entry(k[2])
                       /\ k[1] = "partial" => k = Partial(k[2])
    /\ \A p \in Plans : \A k \in Keys :
          /\ k = Entry(p) => k[1] = "entry" /\ k[2] = p
          /\ k = Partial(p) => k[1] = "partial" /\ k[2] = p
BY DEF Keys, Entry, Partial

LEMMA StoreInitInv == ExecInit => StoreInv
<1> SUFFICES ASSUME ExecInit PROVE StoreInv
    OBVIOUS
<1>1. /\ op.step = "idle" /\ worker = "trading"
      /\ intent = [k \in Keys |-> "none"]
      /\ order = [p \in Plans |-> "none"] /\ size = [p \in Plans |-> 0]
      /\ reduced = [p \in Plans |-> 0]
    BY DEF ExecInit, Idle
<1>2. Composed
    <2>1. venue \in {"simulated", "rest", "queued"}
        BY ExecAssumption DEF ExecInit
    <2>2. live => venue = "rest"
        BY DEF ExecInit
    <2> QED
        BY <1>1, <2>1, <2>2 DEF Composed
<1>3. InFlight
    BY <1>1 DEF InFlight
<1>4. ReduceInv
    BY <1>1 DEF ReduceInv
<1>5. HeldInv
    <2>1. \A p \in Plans : Entry(p) \in Keys
        BY KeyFacts
    <2>2. \A p \in Plans : order[p] = "none" /\ size[p] = 0
        BY <1>1
    <2>3. \A p \in Plans : ~Held(p)
        <3>1. ~(0 > 0)
            OBVIOUS
        <3> QED
            BY <2>2, <3>1, Zenon DEF Held
    <2>4. \A p \in Plans : intent[Entry(p)] = "none"
        BY <1>1, <2>1
    <2> QED
        BY <1>1, <2>3, <2>4 DEF HeldInv, Dependable
<1> QED
    BY <1>2, <1>3, <1>4, <1>5 DEF StoreInv

\* Sending an operation that the store lets through.
LEMMA DispatchStore ==
    ASSUME ExecInv, StoreInv, NEW k \in Keys, Free, Dispatch(k),
           k[1] \in {"entry", "partial"} => intent[k] \in Resubmittable,
           UNCHANGED <<setupVars, venueVars, worker, faults>>
    PROVE  StoreInv'
<1>0. /\ op.step = "idle" /\ worker' = "trading" /\ venue' = venue /\ live' = live
      /\ UNCHANGED <<order, size, opened, reduced, faults>>
      /\ intent' = [intent EXCEPT ![k] = "pending"] /\ intent \in [Keys -> States]
      /\ op'.step = "sent" /\ op'.key = k
    BY DEF Free, Dispatch, setupVars, venueVars, ExecInv, ExecTypeOK
<1>1. /\ intent'[k] = "pending"
      /\ \A j \in Keys : j # k => intent'[j] = intent[j]
    BY <1>0
<1>2. Composed' /\ InFlight'
    BY <1>0, <1>1 DEF StoreInv, Composed, InFlight
<1>3. ReduceInv'
    <2>1. ASSUME NEW p \in Plans, Settled(p) PROVE Settled(p)'
        <3>1. Partial(p) \in Keys /\ k # Partial(p)
            BY <2>1, KeyFacts, KeyNames DEF Settled
        <3> QED
            BY <1>0, <1>1, <2>1, <3>1 DEF Settled
    <2> QED
        BY <1>0, <2>1 DEF StoreInv, ReduceInv
<1>4. HeldInv'
    <2>1. \A p \in Plans : Held(p)' <=> Held(p)
        BY <1>0 DEF Held
    <2>2. \A p \in Plans : Entry(p) \in Keys
        BY KeyFacts
    <2>3. ASSUME NEW p \in Plans, venue # "simulated", faults = 0, intent'[Entry(p)] = "pending"
          PROVE  op'.key = Entry(p)
        <3>1. intent[Entry(p)] # "pending"
            BY <1>0, <2>3 DEF StoreInv, HeldInv, Dependable
        <3> QED
            BY <1>0, <1>1, <2>2, <2>3, <3>1
    <2>4. ASSUME NEW p \in Plans, intent[Entry(p)] \notin Resubmittable
          PROVE  intent'[Entry(p)] \notin Resubmittable
        BY <1>1, <2>2, <2>4 DEF Resubmittable
    <2>5. ASSUME NEW p \in Plans, Dependable, op'.key = Entry(p) PROVE ~Held(p)
        <3>1. k = Entry(p) /\ intent[Entry(p)] \in Resubmittable
            BY <1>0, <2>5, KeyNames
        <3> QED
            BY <2>5, <3>1 DEF StoreInv, HeldInv
    <2> QED
        BY <1>0, <2>1, <2>3, <2>4, <2>5 DEF StoreInv, HeldInv, Dependable
<1> QED
    BY <1>2, <1>3, <1>4 DEF StoreInv

\* submit() refused, close(), close_partial() and amend().
LEMMA BeginStore ==
    ASSUME ExecInv, StoreInv, NEW p \in Plans,
           \/ BeginEntry(p) \/ BeginClose(p) \/ BeginPartial(p)
           \/ \E l \in Levels : BeginAmend(p, l)
    PROVE  StoreInv'
<1>0. /\ Entry(p) \in Keys /\ Close(p) \in Keys /\ Partial(p) \in Keys
      /\ Entry(p)[1] = "entry" /\ Close(p)[1] = "close" /\ Partial(p)[1] = "partial"
      /\ \A l \in Levels : Amend(p, l) \in Keys /\ Amend(p, l)[1] = "amend"
    BY KeyFacts
<1>1. CASE BeginEntry(p) /\ intent[Entry(p)] \in Resubmittable /\ Dispatch(Entry(p))
    <2>1. Free /\ UNCHANGED <<setupVars, venueVars, worker, faults>>
        BY <1>1 DEF BeginEntry
    <2> QED
        BY <1>0, <1>1, <2>1, DispatchStore
<1>2. CASE /\ BeginEntry(p)
           /\ live \/ intent[Entry(p)] \in Resubmittable
           /\ intent' = [intent EXCEPT ![Entry(p)] = "blocked"] /\ UNCHANGED op
    <2>1. /\ op.step = "idle" /\ worker' = worker /\ venue' = venue /\ live' = live
          /\ UNCHANGED <<op, order, size, opened, reduced, faults>>
          /\ intent \in [Keys -> States]
        BY <1>2 DEF BeginEntry, Free, setupVars, venueVars, ExecInv, ExecTypeOK
    <2>2. /\ intent'[Entry(p)] = "blocked"
          /\ \A j \in Keys : j # Entry(p) => intent'[j] = intent[j]
        BY <1>0, <1>2, <2>1
    <2>3. Composed' /\ InFlight'
        BY <2>1 DEF StoreInv, Composed, InFlight
    <2>4. ReduceInv'
        <3>1. \A q \in Plans : Partial(q) \in Keys /\ Partial(q) # Entry(p)
            BY KeyFacts
        <3>2. \A q \in Plans : Settled(q) => Settled(q)'
            BY <2>1, <2>2, <3>1 DEF Settled
        <3> QED
            BY <2>1, <3>2 DEF StoreInv, ReduceInv
    <2>5. HeldInv'
        <3>1. \A q \in Plans : /\ Held(q)' <=> Held(q)
                               /\ q # p => intent'[Entry(q)] = intent[Entry(q)]
            BY <2>1, <2>2, KeyFacts DEF Held
        <3>2. live => venue = "rest"
            BY DEF StoreInv, Composed
        <3>3. "blocked" # "pending"
            OBVIOUS
        <3>4. \A q \in Plans : intent'[Entry(q)] = "pending" => intent[Entry(q)] = "pending"
            BY <2>2, <3>1
        <3>5. ASSUME Dependable
              PROVE  \A q \in Plans : Held(q) => q # p
            BY <1>2, <3>2, <3>5 DEF StoreInv, HeldInv, Dependable
        <3> QED
            BY <2>1, <3>1, <3>4, <3>5 DEF StoreInv, HeldInv, Dependable
    <2> QED
        BY <2>3, <2>4, <2>5 DEF StoreInv
<1>3. ASSUME NEW k \in Keys, Instruct(p, k), k[1] # "entry",
             k[1] = "partial" => intent[k] \in Resubmittable
      PROVE  StoreInv'
    <2>1. Free /\ Dispatch(k) /\ UNCHANGED <<setupVars, venueVars, worker, faults>>
        BY <1>3 DEF Instruct
    <2> QED
        BY <1>3, <2>1, DispatchStore
<1>4. CASE BeginClose(p)
    BY <1>0, <1>3, <1>4 DEF BeginClose
<1>5. CASE BeginPartial(p)
    BY <1>0, <1>3, <1>5 DEF BeginPartial
<1>6. ASSUME NEW l \in Levels, BeginAmend(p, l) PROVE StoreInv'
    BY <1>0, <1>3, <1>6 DEF BeginAmend
<1>7. BeginEntry(p) =>
         \/ intent[Entry(p)] \in Resubmittable /\ Dispatch(Entry(p))
         \/ /\ live \/ intent[Entry(p)] \in Resubmittable
            /\ intent' = [intent EXCEPT ![Entry(p)] = "blocked"] /\ UNCHANGED op
    BY DEF BeginEntry, ModeGuardBlocks
<1> QED
    BY <1>1, <1>2, <1>4, <1>5, <1>6, <1>7

\* The venue carries out what is in flight.  A scale-out is carried out once: a
\* second one would need a reference that is not settled.
LEMMA EffectStore ==
    ASSUME ExecInv, StoreInv, op.step = "sent", Refusal(op.key) = {}, Effect(op.key),
           NEW a, Answer(a), a \notin {"rejected", "raised"},
           op.key[1] = "partial" /\ venue = "simulated" => a = "done",
           UNCHANGED <<setupVars, storeVars, worker>>, faults' = 0 => faults = 0
    PROVE  StoreInv'
<1>p. PICK p \in Plans : p = op.key[2]
    BY KeyFacts DEF ExecInv, ExecTypeOK
<1>0. /\ op.key \in Keys
      /\ op.key[1] \in {"entry", "close", "partial", "amend"}
      /\ order \in [Plans -> {"none", "working", "filled", "cancelled"}]
      /\ size \in [Plans -> 0..FullSize] /\ FullSize \in Nat
      /\ opened \in [Plans -> Nat] /\ reduced \in [Plans -> Nat]
    BY KeyFacts, ExecAssumption DEF ExecInv, ExecTypeOK
<1>1. /\ op'.step = "answered" /\ op'.key = op.key /\ op'.answer = a
      /\ intent' = intent /\ worker' = worker /\ venue' = venue /\ live' = live
    BY DEF Answer, storeVars, setupVars, ExecInv, ExecTypeOK
<1>2. Composed' /\ InFlight'
    BY <1>1 DEF StoreInv, Composed, InFlight
<1>3. /\ order' \in [Plans -> {"none", "working", "filled", "cancelled"}]
      /\ size' \in [Plans -> 0..FullSize]
      /\ opened' \in [Plans -> Nat] /\ reduced' \in [Plans -> Nat]
      /\ \A q \in Plans : opened'[q] >= opened[q]
      /\ \A q \in Plans : opened[q] > 0 => size'[q] <= size[q]
    BY EffectFacts DEF ExecInv
<1>4. /\ op.key[1] # "entry" => order'[p] \in {order[p], "cancelled"} /\ size'[p] <= size[p]
      /\ order'[p] = "cancelled" /\ venue = "simulated" =>
            size'[p] = 0 \/ (order[p] = "cancelled" /\ size'[p] <= size[p])
      /\ \A q \in Plans : q # p => order'[q] = order[q] /\ size'[q] = size[q]
    <2>1. CASE op.key[1] = "entry" /\ PlaceOrder(p)
        <3>1. order'[p] # "cancelled"
            BY <1>0, <2>1 DEF PlaceOrder
        <3> QED
            BY <1>0, <2>1, <3>1 DEF PlaceOrder, Fills
    <2>2. CASE \/ op.key[1] = "close" /\ Reduce(p, size[p])
               \/ op.key[1] = "partial" /\ Reduce(p, 1)
        <3>1. PICK n \in Nat : op.key[1] \in {"close", "partial"} /\ Reduce(p, n)
            BY <1>0, <2>2
        <3>2. /\ size' = [size EXCEPT ![p] = @ - n]
              /\ order' = [order EXCEPT ![p] =
                   IF venue = "simulated" /\ size[p] = n THEN "cancelled" ELSE @]
            BY <3>1 DEF Reduce
        <3>3. size'[p] = size[p] - n /\ size'[p] <= size[p]
            BY <1>0, <3>2
        <3>4. order'[p] = IF venue = "simulated" /\ size[p] = n THEN "cancelled" ELSE order[p]
            BY <1>0, <3>2
        <3>5. \A q \in Plans : q # p => order'[q] = order[q] /\ size'[q] = size[q]
            BY <1>0, <3>2
        <3> QED
            BY <1>0, <3>1, <3>3, <3>4, <3>5
    <2>3. CASE op.key[1] = "amend" /\ UNCHANGED <<order, size>>
        BY <1>0, <2>3
    <2> QED
        BY <1>p, <2>1, <2>2, <2>3 DEF Effect
<1>5. /\ op.key[1] # "partial" => reduced' = reduced
      /\ op.key[1] = "partial" => reduced' = [reduced EXCEPT ![p] = @ + 1]
    BY <1>p, <1>0 DEF Effect, PlaceOrder
<1>6. op.key[1] = "partial" => op.key = Partial(p) /\ size[p] > 0 /\ venue # "queued"
    BY <1>p, <1>0, KeyNames DEF Refusal
<1>7. op.key[1] = "entry" => op.key = Entry(p) /\ opened[p] = 0
    BY <1>p, <1>0, KeyNames DEF Refusal, Duplicate, ExecInv, OpenedOnce
<1>8. ReduceInv'
    <2>1. venue = "queued" => \A q \in Plans : reduced'[q] = 0
        BY <1>5, <1>6 DEF StoreInv, ReduceInv
    <2>2. ASSUME venue = "simulated", NEW q \in Plans, order'[q] = "cancelled"
          PROVE  size'[q] = 0
        <3>1. order[q] = "cancelled" => size[q] = 0
            BY <2>2 DEF StoreInv, ReduceInv
        <3> QED
            BY <1>0, <1>3, <1>4, <2>2, <3>1
    <2>3. ASSUME venue = "simulated", NEW q \in Plans, q # p \/ op.key[1] # "partial"
          PROVE  /\ reduced'[q] <= 1
                 /\ reduced'[q] > 0 => opened'[q] > 0 /\ (size'[q] = 0 \/ Settled(q)')
        <3>1. reduced'[q] = reduced[q]
            BY <1>0, <1>5, <2>3
        <3>2. /\ reduced[q] <= 1
              /\ reduced[q] > 0 => opened[q] > 0 /\ (size[q] = 0 \/ Settled(q))
            BY <2>3 DEF StoreInv, ReduceInv
        <3>3. Settled(q) => Settled(q)'
            BY <1>1 DEF Settled
        <3>4. reduced[q] > 0 => opened'[q] > 0 /\ (size[q] = 0 => size'[q] = 0)
            BY <1>0, <1>3, <3>2
        <3> QED
            BY <3>1, <3>2, <3>3, <3>4
    <2>4. ASSUME venue = "simulated", op.key[1] = "partial"
          PROVE  reduced'[p] <= 1 /\ opened'[p] > 0 /\ Settled(p)'
        <3>1. ~Settled(p)
            BY <1>6, <2>4 DEF Settled
        <3>2. reduced[p] = 0
            BY <1>0, <1>6, <2>4, <3>1 DEF StoreInv, ReduceInv
        <3>3. opened'[p] > 0
            BY <1>p, <1>0, <1>3, <2>4 DEF ExecInv, ExitsFollow
        <3>4. intent[Partial(p)] = "pending"
            BY <1>6, <2>4 DEF StoreInv, InFlight
        <3>5. Settled(p)'
            BY <1>1, <2>4, <3>4 DEF Settled, Resubmittable
        <3> QED
            BY <1>0, <1>5, <2>4, <3>2, <3>3, <3>5
    <2> QED
        BY <1>1, <2>1, <2>2, <2>3, <2>4 DEF ReduceInv
<1>9. HeldInv'
    <2>1. ASSUME NEW q \in Plans, Held(q)' PROVE Held(q) \/ op.key = Entry(q)
        BY <1>0, <1>3, <1>4, <1>7, <2>1 DEF Held
    <2>2. \A q \in Plans : op.key = Entry(q) => intent[Entry(q)] = "pending"
        BY KeyFacts DEF StoreInv, InFlight
    <2>3. "pending" \notin Resubmittable
        BY DEF Resubmittable
    <2>4. ASSUME Dependable', NEW q \in Plans, Held(q)'
          PROVE  intent'[Entry(q)] \notin Resubmittable
        BY <1>1, <2>1, <2>2, <2>3, <2>4 DEF StoreInv, HeldInv, Dependable
    <2>5. ASSUME venue # "simulated" /\ faults' = 0, NEW q \in Plans, intent'[Entry(q)] = "pending"
          PROVE  op'.step # "idle" /\ op'.key = Entry(q)
        BY <1>1, <2>5 DEF StoreInv, HeldInv, Dependable
    <2> QED
        BY <1>1, <2>4, <2>5 DEF HeldInv, Dependable
<1> QED
    BY <1>2, <1>8, <1>9 DEF StoreInv

\* The venue answers without doing anything; it rejects an order it has no record of.
LEMMA RefusalStore ==
    ASSUME ExecInv, StoreInv, op.step = "sent", NEW a, Answer(a),
           a = "rejected" /\ op.key[1] = "entry" /\ (venue # "rest" \/ faults' = 0)
               => order[op.key[2]] = "none",
           a = "raised" => op.key[1] = "close",
           UNCHANGED <<setupVars, storeVars, worker, venueVars>>, faults' = 0 => faults = 0
    PROVE  StoreInv'
<1>1. /\ op'.step = "answered" /\ op'.key = op.key /\ op'.answer = a
      /\ intent' = intent /\ worker' = worker /\ venue' = venue /\ live' = live
      /\ UNCHANGED <<order, size, opened, reduced>>
    BY DEF Answer, storeVars, setupVars, venueVars, ExecInv, ExecTypeOK
<1>2. Composed' /\ InFlight'
    BY <1>1 DEF StoreInv, Composed, InFlight
<1>3. ReduceInv'
    <2>1. \A q \in Plans : Settled(q) => Settled(q)'
        BY <1>1 DEF Settled
    <2> QED
        BY <1>1, <2>1 DEF StoreInv, ReduceInv
<1>4. HeldInv'
    <2>1. \A q \in Plans : Held(q)' <=> Held(q)
        BY <1>1 DEF Held
    <2> QED
        BY <1>1, <2>1 DEF StoreInv, HeldInv, Dependable
<1> QED
    BY <1>2, <1>3, <1>4 DEF StoreInv

\* The ways a call to the venue ends.
LEMMA AnswerStore ==
    ASSUME ExecInv, StoreInv,
           VenueDoes \/ VenueRefuses \/ VenueFails \/ ReportedUndone \/ AnswerLost
    PROVE  StoreInv'
<1>0. faults \in Nat /\ (Fault => faults' # 0)
    BY ExecAssumption DEF Fault, ExecInv, ExecTypeOK
<1>1. CASE VenueDoes
    <2>1. PICK a : Answer(a) /\ a \in {"accepted", "done"}
                   /\ (op.key[1] = "partial" => a = "done")
        BY <1>1 DEF VenueDoes
    <2>2. /\ op.step = "sent" /\ Refusal(op.key) = {} /\ Effect(op.key)
          /\ UNCHANGED <<setupVars, storeVars, worker, faults>>
        BY <1>1 DEF VenueDoes
    <2> QED
        BY <2>1, <2>2, EffectStore
<1>2. CASE VenueRefuses
    <2>1. PICK a \in Refusal(op.key) : Answer(a)
        BY <1>2 DEF VenueRefuses
    <2>2. a # "rejected" /\ (a = "raised" => op.key[1] = "close")
        BY <2>1 DEF Refusal
    <2>3. op.step = "sent" /\ UNCHANGED <<setupVars, storeVars, worker, venueVars, faults>>
        BY <1>2 DEF VenueRefuses
    <2> QED
        BY <2>1, <2>2, <2>3, RefusalStore
<1>3. CASE VenueFails
    <2>1. PICK a \in {"unavailable", "rejected"} : Answer(a)
        BY <1>3 DEF VenueFails
    <2>2. op.key[1] = "entry" /\ venue # "rest" => order[op.key[2]] = "none"
        BY <1>3 DEF VenueFails, Refusal, Duplicate
    <2>3. op.step = "sent" /\ Fault /\ UNCHANGED <<setupVars, storeVars, worker, venueVars>>
        BY <1>3 DEF VenueFails
    <2> QED
        BY <1>0, <2>1, <2>2, <2>3, RefusalStore
<1>4. CASE AnswerLost
    <2>1. /\ op.step = "sent" /\ Refusal(op.key) = {} /\ Effect(op.key) /\ Fault
          /\ Answer("unavailable") /\ UNCHANGED <<setupVars, storeVars, worker>>
          /\ op.key[1] = "partial" => venue # "simulated"
        BY <1>4 DEF AnswerLost
    <2> QED
        BY <1>0, <2>1, EffectStore
<1>5. CASE ReportedUndone
    <2>1. /\ op.step = "sent" /\ Fault /\ Answer("done")
          /\ UNCHANGED <<setupVars, storeVars, worker, venueVars>>
        BY <1>5 DEF ReportedUndone
    <2> QED
        BY <1>0, <2>1, RefusalStore
<1> QED
    BY <1>1, <1>2, <1>3, <1>4, <1>5

\* Only a rejected entry may be sent again; a scale-out that was done may not.
LEMMA OutcomeStore ==
    /\ \A kind, answer : Outcome(kind, answer) # "pending"
    /\ \A answer : Outcome("entry", answer) \in Resubmittable => answer = "rejected"
    /\ Outcome("partial", "done") \notin Resubmittable
BY DEF Outcome, Resubmittable

\* The worker records an answer, or loses it.
LEMMA PersistStore ==
    ASSUME ExecInv, StoreInv, Persist \/ OutcomeLost
    PROVE  StoreInv'
<1>0. /\ op.step = "answered" /\ op.key \in Keys /\ op.key[2] \in Plans
      /\ intent \in [Keys -> States] /\ faults \in Nat
      /\ venue' = venue /\ live' = live /\ worker' = worker
      /\ UNCHANGED <<order, size, opened, reduced>>
    BY KeyFacts, ExecAssumption DEF Persist, OutcomeLost, ExecInv, ExecTypeOK, venueVars, setupVars
<1>h. \A q \in Plans : /\ Held(q)' <=> Held(q)
                       /\ Entry(q) \in Keys /\ Partial(q) \in Keys
    BY <1>0, KeyFacts DEF Held
<1>1. CASE Persist
    <2>1. PICK s : /\ s = Outcome(op.key[1], op.answer)
                   /\ intent' = [intent EXCEPT ![op.key] = s]
        BY <1>1 DEF Persist
    <2>2. /\ intent'[op.key] = s
          /\ \A k \in Keys : k # op.key => intent'[k] = intent[k]
          /\ faults' = faults
        BY <1>0, <1>1, <2>1 DEF Persist
    <2>3. /\ op'.step \in {"idle", "sent"}
          /\ op'.step # "idle" => op'.key = op.key /\ op.key[1] = "amend"
        <3>1. CASE TriesAgain
            BY <1>1, <3>1 DEF Persist, TriesAgain, ExecInv, ExecTypeOK
        <3>2. CASE ~TriesAgain
            BY <1>1, <3>2, IdleOp DEF Persist
        <3> QED
            BY <3>1, <3>2
    <2>4. Composed' /\ InFlight'
        BY <1>0, <2>3 DEF StoreInv, Composed, InFlight
    <2>5. ReduceInv'
        <3>1. ASSUME NEW q \in Plans, Settled(q) PROVE Settled(q)'
            <4>1. op.key = Partial(q) => s \notin Resubmittable
                BY <1>0, <2>1, <3>1, KeyFacts, OutcomeStore DEF Settled
            <4>2. intent'[Partial(q)] \notin Resubmittable
                BY <1>h, <2>2, <3>1, <4>1 DEF Settled
            <4>3. op'.step # "idle" => op'.key # Partial(q)
                BY <2>3, KeyFacts
            <4> QED
                BY <4>2, <4>3 DEF Settled
        <3> QED
            BY <1>0, <3>1 DEF StoreInv, ReduceInv
    <2>6. HeldInv'
        <3>1. ASSUME NEW q \in Plans, venue # "simulated", faults = 0
              PROVE  intent'[Entry(q)] # "pending"
            <4>1. op.key = Entry(q) => intent'[Entry(q)] # "pending"
                BY <2>1, <2>2, OutcomeStore
            <4>2. op.key # Entry(q) => intent[Entry(q)] # "pending"
                BY <3>1 DEF StoreInv, HeldInv, Dependable
            <4> QED
                BY <1>h, <2>2, <4>1, <4>2
        <3>2. ASSUME NEW q \in Plans, Held(q), intent[Entry(q)] \notin Resubmittable, Dependable
              PROVE  intent'[Entry(q)] \notin Resubmittable
            <4>1. order[q] # "none"
                BY <3>2 DEF Held, ExecInv, OpenedOnce
            <4>2. op.key = Entry(q) => op.answer # "rejected"
                BY <1>0, <3>2, <4>1, KeyFacts DEF StoreInv, HeldInv, Dependable
            <4>3. op.key = Entry(q) => s \notin Resubmittable
                BY <2>1, <4>2, KeyFacts, OutcomeStore
            <4> QED
                BY <1>h, <2>2, <3>2, <4>3
        <3>3. \A q \in Plans : op'.step = "sent" => op'.key # Entry(q)
            BY <2>3, KeyFacts
        <3> QED
            BY <1>0, <1>h, <2>2, <2>3, <3>1, <3>2, <3>3 DEF StoreInv, HeldInv, Dependable
    <2> QED
        BY <2>4, <2>5, <2>6 DEF StoreInv
<1>2. CASE OutcomeLost
    <2>1. /\ op'.step = "idle" /\ intent' = intent
          /\ IF op.answer = "raised" THEN faults' = faults ELSE faults' # 0
        BY <1>0, <1>2, IdleOp DEF OutcomeLost, Fault, storeVars
    <2>2. Composed' /\ InFlight'
        BY <1>0, <2>1 DEF StoreInv, Composed, InFlight
    <2>3. ReduceInv'
        <3>1. \A q \in Plans : Settled(q) => Settled(q)'
            BY <2>1 DEF Settled
        <3> QED
            BY <1>0, <3>1 DEF StoreInv, ReduceInv
    <2>4. HeldInv'
        <3>1. ASSUME NEW q \in Plans, venue # "simulated", faults' = 0
              PROVE  intent'[Entry(q)] # "pending" /\ faults = 0
            <4>1. op.answer = "raised" /\ faults = 0
                BY <2>1, <3>1
            <4>2. op.key # Entry(q)
                BY <1>0, <4>1, KeyFacts DEF StoreInv, HeldInv, Dependable
            <4> QED
                BY <2>1, <3>1, <4>1, <4>2 DEF StoreInv, HeldInv, Dependable
        <3> QED
            BY <1>0, <1>h, <2>1, <3>1 DEF StoreInv, HeldInv, Dependable
    <2> QED
        BY <2>2, <2>3, <2>4 DEF StoreInv
<1> QED
    BY <1>1, <1>2

\* Reconciliation.  What the in-process venues hold is listed, except a filled order
\* of the queueing one, whose intent is no longer PENDING.
LEMMA ReconcileStore ==
    ASSUME ExecInv, StoreInv, Reconcile \/ Restart
    PROVE  StoreInv'
<1>0. /\ op.step = "idle" /\ op' = op /\ faults' = faults
      /\ venue' = venue /\ live' = live
      /\ worker' \in {worker, "trading"}
      /\ UNCHANGED <<order, size, opened, reduced>>
      /\ order \in [Plans -> {"none", "working", "filled", "cancelled"}]
    BY DEF Reconcile, Restart, Free, StoreInv, Composed, ExecInv, ExecTypeOK, venueVars, setupVars
<1>1. \A k \in Keys : venue # "rest" \/ k[1] = "entry" => intent'[k] = Resolve(k)
    <2>1. CASE Reconcile
        BY <2>1 DEF Reconcile, Resolved
    <2>2. CASE Restart
        <3>1. intent' = [k \in Keys |->
                           IF ReconcilesClean /\ venue = "rest" /\ k[1] # "entry"
                           THEN "none" ELSE Resolved[k]]
            BY <2>2 DEF Restart
        <3> QED
            BY <3>1 DEF Resolved
    <2> QED
        BY <2>1, <2>2
<1>2. \A q \in Plans : /\ Entry(q) \in Keys /\ Partial(q) \in Keys
                       /\ Entry(q)[1] = "entry" /\ Entry(q)[2] = q /\ Partial(q)[2] = q
                       /\ Held(q)' <=> Held(q)
    BY <1>0, KeyFacts DEF Held
<1>3. Composed' /\ InFlight'
    BY <1>0 DEF StoreInv, Composed, InFlight
<1>4. ASSUME NEW k \in Keys, NEW q \in Plans, k[2] = q, venue = "simulated",
             order[q] \in {"working", "filled"}, intent[k] \notin Resubmittable
      PROVE  Resolve(k) \notin Resubmittable
    <2>1. Lists(q) /\ Reported(q) \in {"acked", "filled"}
        BY <1>4 DEF Lists, Reported
    <2> QED
        BY <1>4, <2>1 DEF Resolve, Resubmittable
<1>5. ReduceInv'
    <2>1. ASSUME venue = "simulated", NEW q \in Plans, reduced[q] > 0, size[q] # 0
          PROVE  Settled(q)'
        <3>1. Settled(q) /\ order[q] # "cancelled" /\ opened[q] > 0
            BY <2>1 DEF StoreInv, ReduceInv
        <3>2. order[q] = "filled"
            BY <1>0, <3>1 DEF ExecInv, OpenedOnce
        <3> QED
            BY <1>0, <1>1, <1>2, <1>4, <2>1, <3>1, <3>2 DEF Settled
    <2> QED
        BY <1>0, <2>1 DEF StoreInv, ReduceInv
<1>6. HeldInv'
    <2>1. ASSUME venue # "simulated", faults = 0, NEW q \in Plans
          PROVE  intent'[Entry(q)] \in {intent[Entry(q)], "acked"} /\ intent'[Entry(q)] # "pending"
        <3>1. intent[Entry(q)] # "pending"
            BY <1>0, <2>1 DEF StoreInv, HeldInv, Dependable
        <3> QED
            BY <1>1, <1>2, <2>1, <3>1 DEF Resolve, Lists, Reported
    <2>2. ASSUME venue = "simulated", NEW q \in Plans, Held(q)
          PROVE  intent'[Entry(q)] \notin Resubmittable
        <3>1. intent[Entry(q)] \notin Resubmittable
            BY <2>2 DEF StoreInv, HeldInv, Dependable
        <3>2. order[q] \in {"working", "filled"}
            BY <1>0, <2>2 DEF Held, StoreInv, ReduceInv, ExecInv, OpenedOnce
        <3> QED
            BY <1>1, <1>2, <1>4, <2>2, <3>1, <3>2
    <2>3. "acked" \notin Resubmittable
        BY DEF Resubmittable
    <2> QED
        BY <1>0, <1>2, <2>1, <2>2, <2>3 DEF StoreInv, HeldInv, Dependable
<1> QED
    BY <1>3, <1>5, <1>6 DEF StoreInv

\* A crash forgets what was in flight, not what is stored.
LEMMA CrashStore ==
    ASSUME ExecInv, StoreInv, Crash
    PROVE  StoreInv'
<1>0. /\ op'.step = "idle" /\ intent' = intent /\ venue # "queued"
      /\ venue' = venue /\ live' = live /\ faults' # 0
      /\ UNCHANGED <<order, size, opened, reduced>>
    BY IdleOp, ExecAssumption DEF Crash, Fault, storeVars, venueVars, setupVars, ExecInv, ExecTypeOK
<1>1. Composed' /\ InFlight'
    BY <1>0 DEF StoreInv, Composed, InFlight
<1>2. \A q \in Plans : (Settled(q) => Settled(q)') /\ (Held(q)' <=> Held(q))
    BY <1>0 DEF Settled, Held
<1>3. ReduceInv' /\ HeldInv'
    BY <1>0, <1>2 DEF StoreInv, ReduceInv, HeldInv, Dependable
<1> QED
    BY <1>1, <1>3 DEF StoreInv

\* The venue on its own: it fills what it holds already, or holds less.
LEMMA VenueStore ==
    ASSUME ExecInv, StoreInv, NEW p \in Plans, QueuedFill(p) \/ QueuedDrop(p) \/ StopHit(p)
    PROVE  StoreInv'
<1>0. /\ op' = op /\ intent' = intent /\ worker' = worker /\ faults' = faults
      /\ venue' = venue /\ live' = live /\ reduced' = reduced
      /\ op.step # "idle" => op.key[2] \in Plans
      /\ order \in [Plans -> {"none", "working", "filled", "cancelled"}]
      /\ size \in [Plans -> 0..FullSize] /\ FullSize \in Nat
      /\ opened \in [Plans -> Nat] /\ reduced \in [Plans -> Nat]
    BY KeyFacts, ExecAssumption DEF QueuedFill, QueuedDrop, StopHit, storeVars, setupVars,
       ExecInv, ExecTypeOK
<1>1. Composed' /\ InFlight'
    BY <1>0 DEF StoreInv, Composed, InFlight
<1>2. \A q \in Plans : Settled(q) => Settled(q)'
    BY <1>0 DEF Settled
<1>3. /\ \A q \in Plans : q # p => /\ order'[q] = order[q] /\ size'[q] = size[q]
                                   /\ opened'[q] = opened[q]
      /\ order[p] = "none" => order'[p] = "none"
      /\ opened'[p] >= opened[p]
      /\ Held(p)
    <2>1. CASE QueuedFill(p)
        BY <1>0, <2>1 DEF QueuedFill, Fills, Held
    <2>2. CASE QueuedDrop(p)
        BY <1>0, <2>2 DEF QueuedDrop, Held
    <2>3. CASE StopHit(p)
        BY <1>0, <2>3 DEF StopHit, Held
    <2> QED
        BY <2>1, <2>2, <2>3
<1>4. ReduceInv'
    <2>1. CASE venue # "simulated"
        BY <1>0, <2>1 DEF StoreInv, ReduceInv
    <2>2. CASE venue = "simulated"
        <3>1. order[p] = "working"
            BY <2>2 DEF QueuedFill, QueuedDrop, StopHit
        <3>2. opened[p] = 0 /\ size[p] = 0
            BY <3>1 DEF ExecInv, OpenedOnce
        <3>3. reduced[p] = 0
            BY <1>0, <2>2, <3>2 DEF StoreInv, ReduceInv
        <3>4. order'[p] = "cancelled" => size'[p] = 0
            BY <1>0, <2>2, <3>2 DEF QueuedFill, QueuedDrop, StopHit
        <3> QED
            BY <1>0, <1>2, <1>3, <2>2, <3>3, <3>4 DEF StoreInv, ReduceInv
    <2> QED
        BY <2>1, <2>2
<1>5. HeldInv'
    <2>1. \A q \in Plans : Held(q)' => Held(q)
        BY <1>3 DEF Held
    <2>2. op.step # "idle" /\ order[op.key[2]] = "none" => order'[op.key[2]] = "none"
        BY <1>0, <1>3
    <2> QED
        BY <1>0, <2>1, <2>2 DEF StoreInv, HeldInv, Dependable
<1> QED
    BY <1>1, <1>4, <1>5 DEF StoreInv

LEMMA StoreStep ==
    ASSUME ExecInv, StoreInv, [ExecNext]_execVars
    PROVE  StoreInv'
<1>1. CASE UNCHANGED execVars
    BY <1>1 DEF execVars, storeVars, venueVars, setupVars, StoreInv, Composed, InFlight,
       ReduceInv, Settled, HeldInv, Held, Dependable
<1>2. CASE ExecNext
    BY <1>2, BeginStore, AnswerStore, PersistStore, ReconcileStore, CrashStore, VenueStore
       DEF ExecNext
<1> QED
    BY <1>1, <1>2

\* Both halves of the invariant hold in every reachable state.
LEMMA ExecInvariant == ExecSpec => [](ExecInv /\ StoreInv)
BY ExecInitInv, StoreInitInv, ExecStep, StoreStep, PTL DEF ExecSpec

\* A scale-out is applied at most once at the venues whose references survive a
\* restart, through failed writes, crashes and reconciliations.
THEOREM ReducedOnceCorrect == ExecSpec => []ReducedOnce
<1>1. ASSUME StoreInv, venue # "rest", NEW p \in Plans
      PROVE  reduced[p] <= 1
    <2>1. venue \in {"simulated", "queued"}
        BY <1>1 DEF StoreInv, Composed
    <2>2. reduced[p] <= 1 \/ reduced[p] = 0
        BY <1>1, <2>1 DEF StoreInv, ReduceInv
    <2> QED
        BY <2>2
<1>2. StoreInv => ReducedOnce
    BY <1>1 DEF ReducedOnce
<1> QED
    BY ExecInvariant, <1>2, PTL

\* While SimulatedVenue, or another venue as long as nothing failed, holds a
\* position, its entry is not in a state that lets the plan be sent again.
THEOREM ExposureRecordedCorrect == ExecSpec => []ExposureRecorded
<1>1. StoreInv => ExposureRecorded
    BY DEF StoreInv, HeldInv, Dependable, Held, ExposureRecorded
<1> QED
    BY ExecInvariant, <1>1, PTL

\* No entry is in flight for a plan that the venue already works on or holds: the
\* idempotency test of submit() sees it, through any number of lost answers,
\* failed writes, crashes and reconciliations where the venue lists its orders,
\* and elsewhere until something fails.
THEOREM EntryNotRepeatedCorrect == ExecSpec => []EntryNotRepeated
<1>1. ExecInv /\ StoreInv => EntryNotRepeated
    <2> SUFFICES ASSUME ExecInv, StoreInv, Dependable, NEW p \in Plans,
                        op.step = "sent", op.key = Entry(p)
                 PROVE  size[p] = 0 /\ order[p] # "working"
        BY DEF EntryNotRepeated
    <2>1. ~Held(p) /\ size[p] \in 0..FullSize /\ FullSize \in Nat
        BY ExecAssumption DEF StoreInv, HeldInv, Dependable, ExecInv, ExecTypeOK
    <2> QED
        BY <2>1 DEF Held
<1> QED
    BY ExecInvariant, <1>1, PTL

\* Outside LIVE mode an UNKNOWN entry is given up only when the venue lists it as
\* cancelled: a recorded outcome cannot do it, because an entry in flight is PENDING.
THEOREM UnknownNotDeadCorrect == ExecSpec => UnknownNotDead
<1> DEFINE Kept == ~live => \A p \in Plans :
          intent[Entry(p)] = "unknown" /\ intent'[Entry(p)] \in Resubmittable
          => order[p] = "cancelled"
<1>1. ASSUME ExecInv, StoreInv, [ExecNext]_execVars
      PROVE  [Kept]_execVars
    <2> SUFFICES ASSUME ExecNext, ~live, NEW p \in Plans,
                        intent[Entry(p)] = "unknown", intent'[Entry(p)] \in Resubmittable
                 PROVE  order[p] = "cancelled"
        BY <1>1
    <2>1. /\ Entry(p) \in Keys /\ Entry(p)[1] = "entry" /\ Entry(p)[2] = p
          /\ intent \in [Keys -> States]
          /\ order[p] \in {"none", "working", "filled", "cancelled"}
          /\ "unknown" \notin Resubmittable /\ "pending" \notin Resubmittable
        BY <1>1, KeyFacts DEF ExecInv, ExecTypeOK, Resubmittable
    <2>2. ASSUME NEW k \in Keys, NEW t, intent' = [intent EXCEPT ![k] = t], k # Entry(p)
          PROVE  FALSE
        BY <2>1, <2>2
    <2>3. ASSUME NEW q \in Plans, BeginEntry(q) PROVE FALSE
        <3>1. /\ intent[Entry(q)] \in Resubmittable /\ Entry(q) \in Keys
              /\ \E t : intent' = [intent EXCEPT ![Entry(q)] = t]
            BY <2>3, KeyFacts DEF BeginEntry, ModeGuardBlocks, Dispatch
        <3> QED
            BY <2>1, <2>2, <3>1
    <2>4. ASSUME NEW q \in Plans, NEW k \in Keys, Instruct(q, k), k[1] # "entry" PROVE FALSE
        BY <2>1, <2>2, <2>4 DEF Instruct, Dispatch
    <2>5. ASSUME NEW q \in Plans,
                 \/ BeginClose(q) \/ BeginPartial(q) \/ \E l \in Levels : BeginAmend(q, l)
          PROVE  FALSE
        BY <2>4, <2>5, KeyFacts DEF BeginClose, BeginPartial, BeginAmend
    <2>6. ASSUME Persist PROVE FALSE
        <3>1. op.step = "answered" /\ op.key \in Keys
            BY <1>1, <2>6 DEF Persist, ExecInv, ExecTypeOK
        <3>2. op.key # Entry(p)
            BY <1>1, <2>1, <3>1 DEF StoreInv, InFlight
        <3>3. \E t : intent' = [intent EXCEPT ![op.key] = t]
            BY <2>6 DEF Persist
        <3> QED
            BY <2>2, <3>1, <3>2, <3>3
    <2>7. ASSUME intent' = intent PROVE FALSE
        BY <2>1, <2>7
    <2>8. CASE Reconcile \/ Restart
        <3>1. intent'[Entry(p)] = Resolve(Entry(p))
            <4>1. Reconcile => intent'[Entry(p)] = Resolve(Entry(p))
                BY <2>1 DEF Reconcile, Resolved
            <4>2. Restart => intent'[Entry(p)] = Resolve(Entry(p))
                BY <2>1 DEF Restart, Resolved
            <4> QED
                BY <2>8, <4>1, <4>2
        <3>2. Lists(p) /\ Reported(p) \in Resubmittable
            BY <2>1, <3>1 DEF Resolve
        <3> QED
            BY <2>1, <3>2 DEF Lists, Reported, Resubmittable
    <2> QED
        BY <2>3, <2>5, <2>6, <2>7, <2>8 DEF ExecNext, VenueDoes, VenueRefuses, VenueFails,
           ReportedUndone, AnswerLost, OutcomeLost, Crash, QueuedFill, QueuedDrop, StopHit, storeVars
<1> QED
    BY ExecInvariant, <1>1, PTL DEF ExecSpec, UnknownNotDead
=============================================================================
