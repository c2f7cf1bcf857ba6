---------------------------- MODULE PaperForward ----------------------------
(***************************************************************************)
(* The paper-forward worker of src/fiboki/entrypoints/paper_forward.py: a  *)
(* position book, an in-process paper venue and their manager, which live  *)
(* in memory, and the ledgers and the state snapshot of paper_state.py     *)
(* from which a restart picks them up.  Every write to disk is a step of   *)
(* its own, so a crash may come before or after any of them, and a write   *)
(* that raises may have left its row behind: durable_append calls fsync    *)
(* after the row is in the file.                                           *)
(*                                                                         *)
(* A plan stands for its position and for its trade; an account balance is *)
(* the set of plans whose profit or loss is in it.  The snapshot's         *)
(* watermark, the lengths of two ledgers, is kept as what assess() makes   *)
(* of it: has either grown since the snapshot on disk was written.         *)
(***************************************************************************)
EXTENDS Integers

CONSTANTS
    Plans,
    NoSnapshot,
    MaxCrashes,     \* bound: kills explored
    MaxFaults       \* bound: failed writes explored

ASSUME PaperAssumption == MaxCrashes \in Nat /\ MaxFaults \in Nat

VARIABLES
    \* on disk
    entry,          \* intents.jsonl: the newest entry intent of each plan
    ref,            \* the broker reference it carries; <<>> until dealt
    recorded,       \* trades.jsonl: how often each plan's trade is in it
    lastBar,        \* journal.jsonl: the newest "bar" event
    sessions,       \* journal.jsonl: how many "session_start" events
    abandoned,      \* journal.jsonl: plans named in positions_abandoned_at_restart
    snapshot,
    newIntents,     \* did intents.jsonl grow after the snapshot
    newTrades,      \* did trades.jsonl grow after the snapshot
    \* in memory
    step,           \* where the process is; "down" if there is none
    book,           \* the position book
    balance,        \* its account
    held,           \* the plans whose position the paper venue holds
    closing,        \* the manager's pending_closes
    stale,          \* open positions whose stop or target the venue does not have
    journaled,      \* trades of this process that record_trades has written
    lagging,        \* plans whose newest row the intent store does not know of
    prefix, seq,    \* the venue's reference prefix and counter
    todo,           \* what the present step still has to send
    flattening,     \* is this the kill switch's flatten, not a bar
    \* bookkeeping of the model
    crashes, faults,
    intact,         \* history: every start so far found all that came before it
    raised          \* history: how often the append of a trade left a row and raised

diskVars == <<entry, ref, recorded, lastBar, sessions, abandoned, snapshot, newIntents, newTrades>>
memVars == <<step, book, balance, held, closing, stale, journaled, lagging, prefix, seq, todo,
             flattening>>
paperVars == <<diskVars, memVars, crashes, faults, intact, raised>>

In(states) == {p \in Plans : book[p] \in states}
Recorded == {p \in Plans : recorded[p] > 0}
Unrecorded == In({"closed"}) \ journaled

Fresh ==
    /\ book' = [p \in Plans |-> "none"]
    /\ held' = {}
    /\ closing' = {}
    /\ stale' = {}
    /\ seq' = 0

PaperInit ==
    /\ entry = [p \in Plans |-> "none"]
    /\ ref = [p \in Plans |-> <<>>]
    /\ recorded = [p \in Plans |-> 0]
    /\ lastBar = [balance |-> {}, open |-> {}]
    /\ sessions = 0
    /\ abandoned = {}
    /\ snapshot = NoSnapshot
    /\ newIntents = FALSE
    /\ newTrades = FALSE
    /\ step = "down"
    /\ book = [p \in Plans |-> "none"]
    /\ balance = {}
    /\ held = {}
    /\ closing = {}
    /\ stale = {}
    /\ journaled = {}
    /\ lagging = {}
    /\ prefix = 0
    /\ seq = 0
    /\ todo = {}
    /\ flattening = FALSE
    /\ crashes = 0
    /\ faults = 0
    /\ intact = TRUE
    /\ raised = [p \in Plans |-> 0]

Fault == faults < MaxFaults /\ faults' = faults + 1

-----------------------------------------------------------------------------
(* Start-up: compose_runtime, then resume *)

\* Mutant: a snapshot is restored whatever happened after it.
MutRestoreAny == snapshot # NoSnapshot

\* Mutant: the watermark leaves out the intent ledger.
MutTradesOnly == snapshot # NoSnapshot /\ ~newTrades

\* assess(): restore exactly if neither ledger grew.
Restorable == snapshot # NoSnapshot /\ ~newIntents /\ ~newTrades

Restore ==
    /\ step = "down"
    /\ Restorable
    /\ book' = snapshot.book
    /\ balance' = snapshot.balance
    /\ held' = snapshot.held
    /\ closing' = snapshot.closing
    /\ stale' = snapshot.stale
    /\ prefix' = snapshot.prefix
    /\ seq' = snapshot.seq
    /\ step' = "resume"
    /\ UNCHANGED <<diskVars, journaled, lagging, todo, flattening, crashes, faults, intact, raised>>

\* Mutant: every process that starts afresh uses the same prefix.
MutOnePrefix == 0

\* PFWD-S{restarts}: the number of session_start events so far.
FreshPrefix == sessions

\* No snapshot, or one that was refused and renamed: the balance of the last bar
\* event, nothing open.
StartFresh ==
    /\ step = "down"
    /\ ~Restorable
    /\ Fresh
    /\ snapshot' = NoSnapshot
    /\ balance' = lastBar.balance
    /\ prefix' = FreshPrefix
    /\ step' = IF lastBar.open = {} THEN "resume" ELSE "abandon"
    /\ intact' = (intact /\ \A p \in Plans : entry[p] = "none")
    /\ UNCHANGED <<entry, ref, recorded, lastBar, sessions, abandoned, newIntents, newTrades,
                   journaled, lagging, todo, flattening, crashes, faults, raised>>

\* positions_abandoned_at_restart.
Abandon ==
    /\ step = "abandon"
    /\ abandoned' = abandoned \cup lastBar.open
    /\ step' = "resume"
    /\ UNCHANGED <<entry, ref, recorded, lastBar, sessions, snapshot, newIntents, newTrades,
                   book, balance, held, closing, stale, journaled, lagging, prefix, seq, todo,
                   flattening, crashes, faults, intact, raised>>

\* The intent store's own copy is updated after the append: it has the row before.
Known(p) ==
    IF p \notin lagging THEN entry[p]
    ELSE IF entry[p] = "filled" THEN "pending" ELSE "none"

Pending == {p \in Plans : Known(p) = "pending"}

\* ExecutionService.reconcile on a venue whose orders() is empty: a PENDING entry is
\* called dead.  Then VenuePositionManager.reconcile: a close that landed is done.
Reconciled ==
    /\ entry' = [p \in Plans |-> IF p \in Pending THEN "cancelled" ELSE entry[p]]
    /\ ref' = [p \in Plans |-> IF p \in Pending THEN <<>> ELSE ref[p]]
    /\ lagging' = lagging \ Pending
    /\ newIntents' = (newIntents \/ Pending # {})
    /\ closing' = closing \cap held
    /\ UNCHANGED <<recorded, lastBar, sessions, abandoned, snapshot, newTrades,
                   book, balance, held, stale, journaled, prefix, seq, todo, flattening,
                   crashes, faults, intact, raised>>

\* A venue position that no intent names, or that nobody manages or is closing; or a
\* level the venue does not have.
Disputed ==
    \/ \E p \in held : ref[p] = <<>> \/ (book[p] \notin {"queued", "open"} /\ p \notin closing)
    \/ stale \cap In({"open"}) # {}

\* Mutant: a close that is still being sent again keeps a restart from starting.
MutRefusesRetry == Disputed \/ closing \cap held # {}

\* ForwardPositionReconciler: what is left to report keeps the worker from starting.
Refuses == Disputed

\* The start-up reconciliation.
Reconcile ==
    /\ step = "resume"
    /\ Reconciled
    /\ step' = IF Refuses THEN "down" ELSE "session"

\* The timer, at the head of a cycle: it reports, and the cycle goes on, or ends
\* because no bar is due.
ReconcileTimer ==
    /\ step = "ready"
    /\ Reconciled
    /\ step' \in {"ready", "persist"}

SessionStart ==
    /\ step = "session"
    /\ sessions' = sessions + 1
    /\ step' = "persist"
    /\ UNCHANGED <<entry, ref, recorded, lastBar, abandoned, snapshot, newIntents, newTrades,
                   book, balance, held, closing, stale, journaled, lagging, prefix, seq, todo,
                   flattening, crashes, faults, intact, raised>>

-----------------------------------------------------------------------------
(* A cycle: the bar, its closes, its trades, its event; new entries; the snapshot *)

\* PositionBook.advance, in memory: entries of the last bar fill or are refused,
\* then exits.  The manager has to close what exited and what was refused.
Bar ==
    /\ step = "ready"
    /\ \E refused \in SUBSET In({"queued"}) :
       \E exits \in SUBSET (In({"queued", "open"}) \ refused) :
          /\ book' = [p \in Plans |->
                        IF p \in refused THEN "gone"
                        ELSE IF p \in exits THEN "closed"
                        ELSE IF book[p] = "queued" THEN "open" ELSE book[p]]
          /\ balance' = balance \cup exits
          /\ todo' = closing \cup exits \cup refused
    /\ flattening' = FALSE
    /\ step' = "push"
    /\ UNCHANGED <<diskVars, held, closing, stale, journaled, lagging, prefix, seq, crashes, faults,
                   intact, raised>>

\* _flatten_if_required, while waiting for a bar or after one: the kill switch is
\* at FLATTEN, which also keeps the cycle from opening anything.
Flatten ==
    /\ step \in {"ready", "evaluate"}
    /\ In({"open"}) # {}
    /\ book' = [p \in Plans |-> IF book[p] = "open" THEN "closed" ELSE book[p]]
    /\ balance' = balance \cup In({"open"})
    /\ todo' = closing \cup In({"open"})
    /\ flattening' = TRUE
    /\ step' = "push"
    /\ UNCHANGED <<diskVars, held, closing, stale, journaled, lagging, prefix, seq, crashes, faults,
                   intact, raised>>

\* Mutant: a close the venue did not take is not kept.
MutForgetClose(p) ==
    /\ step = "push"
    /\ p \in todo
    /\ todo' = todo \ {p}
    /\ newIntents' = TRUE
    /\ held' \in {held, held \ {p}}
    /\ closing' = closing \ {p}
    /\ UNCHANGED <<entry, ref, recorded, lastBar, sessions, abandoned, snapshot, newTrades,
                   step, book, balance, stale, journaled, lagging, prefix, seq, flattening,
                   crashes, faults, intact, raised>>

\* retry_pending_closes and _push_closes: delivered; or refused by the gateway and
\* kept for the next bar; or done, and the outcome could not be written.
PushClose(p) ==
    /\ step = "push"
    /\ p \in todo
    /\ todo' = todo \ {p}
    /\ newIntents' = TRUE
    /\ \/ held' = held \ {p} /\ closing' = closing \ {p} /\ UNCHANGED faults
       \/ closing' = closing \cup {p} /\ UNCHANGED <<held, faults>>
       \/ held' = held \ {p} /\ closing' = closing \cup {p} /\ Fault
    /\ UNCHANGED <<entry, ref, recorded, lastBar, sessions, abandoned, snapshot, newTrades,
                   step, book, balance, stale, journaled, lagging, prefix, seq, flattening, crashes,
                   intact, raised>>

\* _push_levels amends what is still open and has moved.  The gateway may refuse
\* an amendment (stale data, a halted market); it is sent again at the next bar.
PushLevels ==
    /\ step = "push"
    /\ todo = {}
    /\ IF flattening THEN UNCHANGED <<stale, newIntents>>
       ELSE /\ stale' \in SUBSET In({"open"})
            /\ newIntents' \in {newIntents, newIntents \/ In({"open"}) # {}}
    /\ step' = "trades"
    /\ UNCHANGED <<entry, ref, recorded, lastBar, sessions, abandoned, snapshot, newTrades,
                   book, balance, held, closing, journaled, lagging, prefix, seq, todo,
                   flattening, crashes, faults, intact, raised>>

\* record_trades, from the cycle or from persist(); a trade's id is made when the
\* book closes the position.
RecordTrade(p) ==
    /\ step \in {"trades", "persist"}
    /\ p \in Unrecorded
    /\ recorded' = [recorded EXCEPT ![p] = @ + 1]
    /\ newTrades' = TRUE
    /\ journaled' = journaled \cup {p}
    /\ UNCHANGED <<entry, ref, lastBar, sessions, abandoned, snapshot, newIntents,
                   step, book, balance, held, closing, stale, lagging, prefix, seq, todo,
                   flattening, crashes, faults, intact, raised>>

\* The append raised with the row in the file: the trade is not marked as written,
\* and the cycle, or the persist, is over.
RecordTradeRaises(p) ==
    /\ step \in {"trades", "persist"}
    /\ p \in Unrecorded
    /\ Fault
    /\ recorded' = [recorded EXCEPT ![p] = @ + 1]
    /\ newTrades' = TRUE
    /\ raised' = [raised EXCEPT ![p] = @ + 1]
    /\ step' = IF step = "persist" THEN "ready" ELSE "persist"
    /\ UNCHANGED <<entry, ref, lastBar, sessions, abandoned, snapshot, newIntents,
                   book, balance, held, closing, stale, journaled, lagging, prefix, seq, todo,
                   flattening, crashes, intact>>

\* The "bar" event; a flatten writes none.
BarEvent ==
    /\ step = "trades"
    /\ Unrecorded = {}
    /\ lastBar' = IF flattening THEN lastBar
                  ELSE [balance |-> balance, open |-> In({"open"})]
    /\ step' = IF flattening THEN "persist" ELSE "evaluate"
    /\ UNCHANGED <<entry, ref, recorded, sessions, abandoned, snapshot, newIntents, newTrades,
                   book, balance, held, closing, stale, journaled, lagging, prefix, seq, todo,
                   flattening, crashes, faults, intact, raised>>

\* ManagedExecution.submit of a plan the book and the gateway let through.
Submit(p) ==
    /\ step = "evaluate"
    /\ Known(p) = "none"
    /\ entry' = [entry EXCEPT ![p] = "pending"]
    /\ newIntents' = TRUE
    /\ \/ todo' = {p} /\ lagging' = lagging \ {p} /\ step' = "deal" /\ UNCHANGED faults
       \/ lagging' = lagging \cup {p} /\ step' = "persist" /\ Fault /\ UNCHANGED todo
    /\ UNCHANGED <<ref, recorded, lastBar, sessions, abandoned, snapshot, newTrades,
                   book, balance, held, closing, stale, journaled, prefix, seq, flattening,
                   crashes, intact, raised>>

\* The venue fills at once; then the FILLED intent, then, if its append did not raise,
\* the entry in the book.
Deal(p) ==
    /\ step = "deal"
    /\ p \in todo
    /\ entry' = [entry EXCEPT ![p] = "filled"]
    /\ ref' = [ref EXCEPT ![p] = <<prefix, seq>>]
    /\ newIntents' = TRUE
    /\ seq' = seq + 1
    /\ held' = held \cup {p}
    /\ todo' = {}
    /\ \/ /\ book' = [book EXCEPT ![p] = "queued"]
          /\ step' = "evaluate"
          /\ UNCHANGED <<lagging, faults>>
       \/ /\ lagging' = lagging \cup {p}
          /\ step' = "persist"
          /\ Fault
          /\ UNCHANGED book
    /\ UNCHANGED <<recorded, lastBar, sessions, abandoned, snapshot, newTrades,
                   balance, closing, stale, journaled, prefix, flattening, crashes, intact, raised>>

EndEvaluation ==
    /\ step = "evaluate"
    /\ step' = "persist"
    /\ UNCHANGED <<diskVars, book, balance, held, closing, stale, journaled, lagging, prefix,
                   seq, todo, flattening, crashes, faults, intact, raised>>

\* A write raised and left no row (a "bar" event that left one ends the cycle just as
\* an evaluation without entries does).  The cycle ends and its finally clause
\* persists; a persist that raises leaves the old snapshot.  An entry whose outcome
\* could not be written is at the venue all the same.
WriteFails ==
    /\ step \in {"trades", "deal", "persist"}
    /\ Fault
    /\ IF step = "deal"
       THEN held' = held \cup todo /\ seq' = seq + 1
       ELSE UNCHANGED <<held, seq>>
    /\ step' = IF step = "persist" THEN "ready" ELSE "persist"
    /\ todo' = {}
    /\ UNCHANGED <<diskVars, book, balance, closing, stale, journaled, lagging, prefix, flattening,
                   crashes, intact, raised>>

\* Mutant: the snapshot keeps closed trades.
MutKeepClosed == book

\* export_state(): closed trades are history and stay behind.
BookImage == [p \in Plans |-> IF book[p] = "closed" THEN "gone" ELSE book[p]]

\* persist(): the trades first, then one atomic record.
Persist ==
    /\ step = "persist"
    /\ Unrecorded = {}
    /\ snapshot' = [book |-> BookImage, balance |-> balance, held |-> held,
                    closing |-> closing, stale |-> stale, prefix |-> prefix, seq |-> seq]
    /\ newIntents' = FALSE
    /\ newTrades' = FALSE
    /\ step' = "ready"
    /\ UNCHANGED <<entry, ref, recorded, lastBar, sessions, abandoned,
                   book, balance, held, closing, stale, journaled, lagging, prefix, seq, todo,
                   flattening, crashes, faults, intact, raised>>

\* kill -9, or an orderly stop if the process is between cycles.
Crash ==
    /\ step # "down"
    /\ crashes < MaxCrashes
    /\ crashes' = crashes + 1
    /\ Fresh
    /\ step' = "down"
    /\ balance' = {}
    /\ journaled' = {}
    /\ lagging' = {}
    /\ prefix' = 0
    /\ todo' = {}
    /\ flattening' = FALSE
    /\ UNCHANGED <<diskVars, faults, intact, raised>>

-----------------------------------------------------------------------------
PaperNext ==
    \/ Restore \/ StartFresh \/ Abandon \/ Reconcile \/ SessionStart
    \/ ReconcileTimer \/ Bar \/ Flatten \/ PushLevels \/ BarEvent \/ EndEvaluation
    \/ WriteFails \/ Persist
    \/ \E p \in Plans : \/ PushClose(p) \/ RecordTrade(p) \/ RecordTradeRaises(p)
                       \/ Submit(p) \/ Deal(p)
    \/ Crash

PaperSpec == PaperInit /\ [][PaperNext]_paperVars

\* A supervisor restarts the process, and a start-up that has begun goes on.
PaperFairSpec ==
    /\ PaperSpec
    /\ WF_paperVars(Restore \/ StartFresh \/ Abandon \/ Reconcile \/ SessionStart)
    /\ WF_paperVars(Persist)

-----------------------------------------------------------------------------
(* Properties *)

BookStates == {"none", "queued", "open", "closed", "gone"}

PaperTypeOK ==
    /\ entry \in [Plans -> {"none", "pending", "filled", "cancelled"}]
    /\ recorded \in [Plans -> Nat]
    /\ lastBar \in [balance : SUBSET Plans, open : SUBSET Plans]
    /\ sessions \in 0..(MaxCrashes + 1)
    /\ abandoned \subseteq Plans
    /\ \/ snapshot = NoSnapshot
       \/ snapshot \in [book : [Plans -> BookStates \ {"closed"}], balance : SUBSET Plans,
                        held : SUBSET Plans, closing : SUBSET Plans,
                        stale : SUBSET Plans, prefix : Nat, seq : Nat]
    /\ newIntents \in BOOLEAN /\ newTrades \in BOOLEAN
    /\ step \in {"down", "abandon", "resume", "session", "ready", "push", "trades",
                 "evaluate", "deal", "persist"}
    /\ book \in [Plans -> BookStates]
    /\ balance \subseteq Plans /\ held \subseteq Plans /\ closing \subseteq Plans
    /\ stale \subseteq Plans
    /\ journaled \subseteq Plans /\ lagging \subseteq Plans /\ todo \subseteq Plans
    /\ prefix \in Nat /\ seq \in Nat
    /\ flattening \in BOOLEAN /\ intact \in BOOLEAN
    /\ raised \in [Plans -> Nat]

\* trades.jsonl: "every closed trade, once", across any restarts, except for appends
\* that raised with the row in the file, which record_trades repeats.  The id of a
\* trade is new each time the book closes the position, so only the watermark prevents
\* that a restored book closes a recorded trade again.
TradesOnce == \A p \in Plans : recorded[p] <= 1 + raised[p]

\* Broker references never repeat, whether the venue continues a restored
\* sequence or starts a new prefix ("none is ever issued twice").
RefsUnique ==
    \A p, q \in Plans : p # q /\ ref[p] # <<>> /\ ref[q] # <<>> => ref[p] # ref[q]

\* Between cycles the book and the venue agree, after a restore too: what the book
\* manages is at the venue, and what the venue holds is managed, or its close is
\* outstanding, or its entry was never confirmed to the worker.
VenueAgrees ==
    step = "ready" =>
        /\ In({"queued", "open"}) \subseteq held
        /\ \A p \in held : book[p] \in {"queued", "open"} \/ p \in closing \/ Known(p) # "filled"

\* Restarts that restore lose nothing: the account is the trades on record and
\* those about to be, nothing is abandoned, and no confirmed entry is forgotten.
RestoredWhole ==
    intact /\ step = "ready" =>
        /\ balance = Recorded \cup Unrecorded
        /\ abandoned = {}
        /\ \A p \in Plans : Known(p) = "filled" => book[p] # "none"

\* A worker that is down comes back to trading.  The exceptions are the two that the
\* code leaves to a person: a snapshot with a position whose entry was never
\* confirmed, or with a level that was never delivered.
ComesBack ==
    step = "down" ~>
        \/ step = "ready"
        \/ /\ snapshot # NoSnapshot
           /\ \/ \E p \in snapshot.held : snapshot.book[p] = "none"
              \/ \E p \in snapshot.stale : snapshot.book[p] = "open"
=============================================================================
