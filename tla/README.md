# Fiboki V2: a TLA+ model of its control plane

Fiboki is a trading-research platform: strategies are researched by worker
processes, promoted through gates, and traded by a live worker through a broker
adapter. Most of its nearly 120 000 lines of Python compute: indicators, statistics,
backtests, sizing. This project is about the small part that coordinates: who may
write, which job ran, what the venue holds, whether trading is halted, what a
restart finds, which data was looked at and which strategy may trade. There two
processes, a crash or a lost answer can break what no unit test exercises.

Paths below are relative to `src/src/fiboki/`.

## Inventory

| Component | State | Operations | Interacts with | Model |
|---|---|---|---|---|
| Worker lease, `workers/base.py` | one `worker_lease` row (holder, fence, expires_at), a PostgreSQL advisory lock | acquire, renew, release, force_release | every worker process | `WorkerLease` |
| Worker process, `workers/base.py` | stop event, failure count, token | resume, loop, pulse, signals, abandon | lease, ledger, execution | `WorkerLease` |
| Job ledger, `agents/orchestrator.py` | `job` and `ledger_meta` tables in SQLite | submit, run_next, _finish, recover_abandoned | research workers, API, CLI | `JobLedger` |
| Research worker, `workers/research_worker.py` | the job in hand, a pulse thread | resume, run_cycle, _run_one; sweeps | lease, ledger | `JobLedger` (sweeps not) |
| Execution service, `broker/execution_service.py` | the intent store, one record per client reference | submit, close, amend, close_partial, flatten, reconcile | risk gateway, mode guard, adapter | `ExecutionService` |
| Venue adapters, `broker/{simulated_venue,paper,oanda,ig}.py` | the venue's orders and positions | place, close, amend, list | execution service | `ExecutionService`, three classes |
| Live worker, `workers/live_worker.py` | reconciliation and lifecycle timers | resume, run_cycle | execution service, position manager, lifecycle | `ExecutionService`, `PaperForward`, `Lifecycle`, each in part |
| Position manager, `broker/position_manager.py` | managed book, pending closes | adopt, on_bar, flatten, push closes and levels, retry, reconcile, export, restore | execution service, paper-forward worker | `PaperForward`; pending closes also in `ExecutionService` |
| Kill switch, `risk/killswitch.py` | one journal file, a cached state per process | activate, deactivate, refresh, allows | gateways, API, CLI | `KillSwitch` |
| Risk gateway, `risk/gateway.py` | none between requests | evaluate, evaluate_exit | kill switch, execution service, lifecycle | its lifecycle check in `Lifecycle`; elsewhere a verdict that may go either way |
| Durable logs, `core/durable.py` | framed JSON lines, a torn tail | append, read, quarantine a torn tail | intent store, kill-switch journal, paper-forward ledgers, audit | `DurableLog` over `AbstractLog` |
| Paper-forward worker, `entrypoints/paper_{forward,state,venue}.py` | three ledgers and a snapshot on disk; book, venue and manager in memory | compose, resume, cycle, persist, restore | live worker, position manager, kill switch | `PaperForward` |
| Holdout lock, `validation/{holdout,pooled}.py` | segments, claims, outcomes in SQLite | define, claim, record_outcome, restate_key_versions | validation ladder, research workers | `Holdout` |
| Lifecycle, `lifecycle/` | transition log, halt journal, tracker per strategy | transition, promote, release_halt, evaluate | live worker's timer, risk gateway, API | `Lifecycle` |
| Position book, `backtest/position.py` | one position's legs and stops | advance by a bar | paper broker, position manager | not modelled: a sequential numeric simulation |
| Scheduler, alerts, `workers/scheduler.py`, `obs/alerts.py` | due times, incidents | fire, deduplicate | workers | not modelled |
| Agents, discovery, research record, data, indicators, market state, statistics, simulation, DSL, API, CLI, web | | | | not modelled: computation, content, formats or presentation |

What is hard here: two workers racing for one lease; a worker paused past its
term that wakes up (the "zombie"); a job whose worker dies; an order the venue
accepted and whose answer was lost; a crash between the record and the order; a
reconciliation that takes absence for refusal; an operator's halt racing the
decision it has to bind; a record torn by a crash, next to a reader that takes a
record in progress for one; a snapshot older than the ledgers beside it; two
validators that both believe a holdout unopened; and a monitoring tick that dies
between latching a halt and acting on it. `PROJECT.json` lists each such hazard with its line.

What makes each component correct:

- lease: no two live processes carry one token; a superseded process cannot touch
  the row; a dead worker's row comes free;
- ledger: every start of a handler is counted once and at most `max_attempts`
  times; outcomes are final; a worker whose job was taken from it is out of the ledger;
- execution: an entry that may be at the venue is not sent again; the record never
  denies an open position; a lost order is found; a close recorded as done is done;
- kill switch: no decision on a state superseded before the decision was asked for;
- durable log: it is an append-only log; what was acknowledged is there for good;
- paper-forward worker: a trade is recorded once, references do not repeat, book and
  venue agree, a restore loses nothing, a process that is down comes back;
- holdout: one look per strategy and dataset, paid for beforehand; no research reads
  a holdout;
- lifecycle: no stage without a promotion; automatic actors only lower; a demoted
  strategy does not trade; a latched halt is acted on.

## Modules

`WorkerLease` is the lease row, the advisory lock, and each process's place in
`Worker._run_guarded`. Time is relative: `left` is `expires_at - now`, because the
code only compares the two. The absent row is a row with fence 0. `AcquireTx` is
the transaction of `acquire()`; `ConfirmAcquire` is the read-back after it, which
is a second transaction. `RenewOk`/`RenewLost` are the head of `_loop`,
`PulseOk`/`PulseLost` the pulse thread, `EndCycle` the two ways a cycle ends with
the failure count, `Release` and `Abandon` the orderly and the forced way out,
`Crash` a kill at any point, `ForceRelease` the operator's. `run_cycle()` may end
in every way the base class distinguishes. The failure count has no limit in the code,
which goes on counting while an outage is ridden out (`base.py:1124`), and none in the
module's types; `MaxCount` bounds how far a behaviour is followed. `Renewed` is the
UPDATE that `renew()` and the pulse share.

`JobLedger` extends it with the job table as the research worker drives it. The
lease row and the ledger are two databases, so no action changes both. `Recover`
is `resume()` (bind the fence, then `recover_abandoned()` in one transaction),
`Claim` the transaction in `run_next()`, and the four `Finish` actions are what
`_finish()` can meet: our claim, a failed handler, a claim that is no longer ours,
a write that fails. The handler runs between `Claim` and `Finish`, outside any
transaction. `starts` is a history variable. `JobLedger` implements `WorkerLease`
by construction of its steps, and this is proved (`JobImplementsLease`).

`ExecutionService` is one worker, holding the lease, over the intent store and a
venue. An operation is four steps: PENDING on disk (`Begin...`), the venue acts
(`VenueDoes`, `VenueRefuses`, `VenueFails`, `AnswerLost`: it acts and the answer
is lost, or `ReportedUndone`: the adapter reports a close that did not happen), the
answer is recorded (`Persist`) or is not (`OutcomeLost`). A crash may come between any
two. `venue` is the adapter class, chosen in the initial state as is
`live`, the execution mode:

- `"simulated"`: fills at once; `orders()` lists every order ever placed;
- `"rest"` (OANDA, IG): fills at once; `orders()` lists working orders, and a
  filled market order is not one; `positions()` makes a new `position_id` each
  time, so after a restart exits get new client references; a close is reported
  done on any HTTP success, and the position may still be open (`undone` remembers
  which);
- `"queued"` (PaperBroker): fills at the next bar, forgets the order then, raises
  `KeyError` for an unknown position, and lives and dies with its process.

`Reconcile` is the live worker's timer; `Restart` is its `resume()`, which trades
only if the report is clean. `closing` is the position manager's `pending_closes`.

`KillSwitch` takes each read of the journal as a step: `Stat` and `Replay` of
`refresh()`, `Decide` of `allows()`, `AppendEvent`, `ReplayOwn` and `StatOwn` of
`_append()`, and `Restart`/`Boot` for `__init__` in a new process. The journal only
grows, so its fingerprint is its length. `call` keeps, as history, how long the
journal was when the request began.

`DurableLog` is one ledger file. The file is the lines that verify, a tail of one of
four kinds, and whether a line before the last is broken. An append is four steps
(`BeginAppend` with lock, tail check and quarantine; `WritePart`; `WriteRest`; `Sync`),
so that a kill, an error or a power cut can fall between any two; `read_payloads` is
two (`ReadUnlocked`, `ReadLocked`). `AbstractLog` is what the ledgers need: an
append-only sequence from which a power cut may take unacknowledged records off the
end. `DurableLog` instantiates it with `log <- lines` and implements it
(`ImplementsLog`): the assumption under which the other modules take an append as one
atomic, durable step.

`PaperForward` is the paper-forward process over its disk. Every write to a ledger,
and the snapshot, is a step; `Crash` may come before or after each. The start is
`Restore` or `StartFresh` (with `Abandon`), `Reconcile`, `SessionStart`; a cycle is
`Bar` or `Flatten`, `PushClose` for each close, `PushLevels`, `RecordTrade`,
`BarEvent`, `Submit` and `Deal` for new entries, `Persist`. The position book's
decisions (what fills, what exits) are choices; the balance is the set of plans whose
result is in it. An append may fail in two ways: without a row (`WriteFails`), or in
`fsync` with the row already in the file (`core/durable.py:387-389`). After the second,
a trade is not marked as written and `record_trades` writes it again
(`RecordTradeRaises`; `raised` counts these), and an intent is on disk although the
store in memory does not have it (`lagging`; `Known` is what the process believes), until
a reconciliation or a new process reads the file. `newIntents` and `newTrades` are the snapshot's watermark compared
with the ledgers, which is all `assess()` does with it.

`Holdout` is the registry file under several validating processes. `claim()` is three
steps (`Compare`, `Lookup`, `Commit`) because the code opens three sessions; a pool
checks all its datasets first (`Precheck`), then claims one after another. A key is
dataset, strategy and the schema version under which the strategy's hash was computed;
`unstamped` are rows older than the version column. `Upgrade` deploys a new version at
any moment: processes that are running keep theirs until they stop, as nothing in the
code prevents. `researched`, `looks` (one count per key) and `overlapped` (a version was
deployed while a process was at work) are history.

`Lifecycle` is one strategy: its record (the replay of the log), the latched halts,
the in-memory tracker and the tick in progress. `Request` is `transition()` by a human
or `promote()` by the research loop; `BeginTick`, `RecordFiring`, `Observe` and
`Demote` are the steps of `evaluate()` between which it may fail or die. Statistics
are choices: which rules fire, which band the score supports, whether it is confident.
`earned` is history.

`MC...` modules add symmetry sets and the table of backoffs. `...Proofs` modules
hold the theorems. Operators named `Mut...` are wrong variants of the definition
that follows them (a dropped WHERE clause, a missing check); substituting one must
break the property `PROJECT.json` pairs it with. No specification uses them.

## Runs

| Run | Instance | Shows |
|---|---|---|
| `lease` | 3 workers, both stores, 3 acquisitions, term 2, time fair | tokens issued, distinct, the newest is the holder's; a zombie never changes the row; a dead worker's row expires |
| `ledger` | 2 workers, 2 jobs, 2 attempts, 3 acquisitions, both stores | running rows are under the newest fence; starts are counted once; outcomes are final; on PostgreSQL at most one bound worker; on both stores a worker whose job was recovered can neither record nor claim |
| `exec` | 1 plan, 2 levels, the three venue classes, PAPER and LIVE, 3 faults, fair | a close on record is of a flat position, or of one a REST adapter reported closed; one partial close (not on REST, where exits get new references after a restart); on the simulated venue, and on the others outside LIVE mode as long as nothing has failed, no entry is sent that the venue has, and no record lets an open position be sent again; outside LIVE mode UNKNOWN is never called dead without the venue's word; on the simulated venue lost orders are found |
| `kill_gateways` | 1 gateway, 1 operator, 4 events | a halt binds the next decision of a gateway |
| `durable` | 2 processes, 4 appends | one writer; never corrupt; acknowledged records readable; the abstract log is implemented |
| `paper_forward` | 2 plans, 2 kills, 1 failed write of either kind, fair | a trade is recorded once, and once more for each append that left its row and raised; references unique, book and venue agree, a restore is whole, the worker comes back |
| `holdout` | 2 processes, 1 strategy, 2 datasets (and their pool), 2 versions, 2 possible starts | one look per strategy and dataset while deployments do not overlap; no leak; one look per key, paid for, with any mix of versions |
| `lifecycle` | 2 rules, 2 faults, fair | no unearned stage; monitors only lower; a demoted strategy does not trade; halts are followed up |
| `exec_dead`, `exec_close`, `kill_stale`, `durable_glue` | | disagreements, below |

Bounds. `MaxFence` counts acquisitions: three allow a worker, its successor, and
the first one back as a third holder or another takeover, which is what zombies need.
Two attempts reach retry and dead letter. A term of 1 or 2 lets a lease expire
under a running cycle. A `MaxCount` of 3 is one failure beyond `MaxFailures`, which an
outage that is ridden out reaches. In `exec`, `MaxFaults` counts refusals, outages, lost
answers, closes reported and not carried out, failed writes and crashes together: three allow a loss, a crash during its repair, and
one more; one plan is enough because plans share only the worker, and the safety
properties are proved for any number. `FullSize` 2 is a position with one
scale-out leg and a remainder. Four journal events allow halt, release and halt again
during a single request. Four appends allow two torn ones between two good ones.
Two kills allow a restart that itself dies, and the restored and the fresh start in
either order; one failed write, with or without its row, is enough to separate ledger and
memory (`paper_forward` also passes with two, in more time). Two datasets are the smallest pool, two versions one upgrade. Two rules
allow one to be released while the other stays latched.

Fairness. In `lease`, only time is fair: processes may stop anywhere. In
`ExecFairSpec`: a call to the venue ends (the adapters have timeouts) and its
outcome is handled (weak fairness of the answers, `Persist`/`OutcomeLost`); a
supervisor restarts the worker (weak fairness of `Restart`); and the loop comes
round to the reconciliation timer and to `retry_pending_closes`, which may be
passed over for a while whenever another operation is in flight (strong fairness,
since each operation disables them and its end enables them again).
`PaperFairSpec`: a supervisor starts the process again, a start that has begun goes on,
and the `finally` clause of a cycle persists. `LifeFairSpec`: the worker's timer comes
round (strong, because each request and each tick disables the next tick for a moment)
and the steps of a tick follow one another, which is straight-line code.

Deadlock is checked in all passing runs but three. In the lease and ledger runs the
model stops when all acquisitions are used up and every process has exited; in the
lifecycle run a retired strategy is the end.

## Disagreements between the code and what it says

Each of these is a run that TLC must refute.

- `exec_dead`: on a REST venue an entry that filled and whose outcome was not
  written is not in `orders()`; reconciliation calls it dead ("no position can
  exist").
- `exec_close`: an unconfirmed close blocks its own retry, and on a REST venue
  nothing resolves it.
- `kill_stale`: `_append()` replays and then stats; an event appended between the
  two is never seen by that process. Gateways, which never append, are safe.
- `durable_glue`: a quarantine that fails is logged, and the append goes on behind the
  torn bytes; the record is acknowledged and unreadable ("never lands glued").

More were met while modelling and have no run of their own:

- execution: in LIVE mode a repeated submission that the mode guard refuses overwrites
  the stored intent with BLOCKED, "never reached a venue"
  (`broker/execution_service.py:462`), and the next one is sent; only the venue's
  duplicate check then prevents a second position. So `UnknownNotDead` is about the
  other modes, and so are `EntryNotRepeated` and `ExposureRecorded` where `orders()`
  forgets filled orders.
- execution: `close_position` reports CLOSED on any HTTP success. `broker/oanda.py:661-684`
  does not look at `orderCancelTransaction`, which `place_order` does (`:590`), and
  `broker/ig.py:380` reports FILLED without asking `/confirms`. A cancelled close is then
  recorded as done, the manager forgets it, and the position stays open
  (`ReportedUndone`). `ClosedMeansFlat` says that this is the only way to it.
- execution: an unconfirmed amendment is resolved by the entry's FILLED order and
  from then on skipped (`:950`). A filled PaperBroker entry stays ACKED, so its
  reports are never clean again (`:973`).
- ledger: on SQLite a zombie may still be executing a job its successor executes
  again, although `recover_abandoned()` calls the lease the proof that it cannot
  (`agents/orchestrator.py:832`); on PostgreSQL so may a process inside `_abandon`. The
  fence then keeps the first one out of the ledger, which is `RecoveredMeansFenced`.
- kill switch: two operators can put a PAUSE after a FLATTEN, since `activate()` checks
  and then appends (`risk/killswitch.py:323`).
- paper forward: after a restart that cannot restore, the balance is that of the last
  bar event, so trades recorded after it are not in it, against "ONE continuous
  account" (`entrypoints/paper_forward.py:486`); an entry dealt after that event is in
  neither the book nor the abandoned list. An append of a trade that raises in `fsync`
  with the row in the file is repeated by the next `record_trades`, or by the final
  `persist()`, so `trades.jsonl` has the trade twice, against "every closed trade, once"
  (`:478`; `:545-546`, `:1508`, `core/durable.py:387-389`). `TradesOnce` allows one copy
  more for each such append and no other. A snapshot with an undelivered
  amendment, or with a position whose entry was never confirmed, is refused by the
  start-up reconciliation at every restart (`:980`); `ComesBack` names the two
  exceptions.
- holdout: with processes of two schema versions running at once, both pass
  `assert_keys_comparable` before either inserts, and one strategy gets two looks at one
  dataset, under two keys (`validation/holdout.py:703`), against "exactly one look"
  (`:15`) and the refusal that `:26-36` promises. `OneLook` is therefore stated for
  deployments that do not overlap; without that condition TLC refutes it. `LooksPaid`
  holds with any mix of versions: each key has one look.
- lifecycle: nothing calls `tracker.reset()`, "what an operator's release calls"
  (`lifecycle/degradation.py:442`). So after a release and a recovery the band stays at
  QUARANTINED, the gateway goes on refusing until the process restarts, and a second
  firing does not demote: hence `Band < 3` in `HaltFollowedUp`. A halt whose
  demotion was lost in a crash is undone by the release alone, against "Two acts, two
  rows" (`lifecycle/service.py:390`). `evaluate_all` looks at RUNNING states, which
  WATCH is not. Scores that alternate between two deeper bands never gather dwell. The
  API caches its machine and does not re-read the log.

## Proofs

Every safety property of a passing run is proved by TLAPS for every value of the
constants: all invariants, the action properties `ZombieHarmless`, `OutcomesFinal`,
`UnknownNotDead` and `MonitorOnlyLowers`, and the refinement `ImplementsLog`. They rest
on the named assumptions in the modules (`LeaseAssumption`, `LedgerAssumption`,
`ExecAssumption`, `KillAssumption`, `LogAssumption`, `PaperAssumption`,
`HoldoutAssumption`, `LifeAssumption`), which give the constants their types and, in
`Holdout`, say that there are finitely many datasets, so that a pool has a first one.
Each inductive invariant was first checked by TLC as an invariant of the instance of
the component's run.

- `WorkerLeaseProofs`. `LeaseInv` joins the types with `FencesIssued` and
  `FencesDistinct`. Distinctness alone is not inductive: a process reads its token
  back after its transaction, and only `FencesIssued` (a token equals the row's
  exactly if its carrier is the row's holder) says nobody else has it.
  `LeaseTypeCorrect`, `FencesIssuedCorrect`, `FencingCorrect`, `ZombieHarmlessCorrect`
  follow. `OneBoundWorkerCorrect` needs `AdvisoryHeld`: on PostgreSQL a process that
  acquired and has not let go holds the advisory lock and the row.
- `JobLedgerProofs`. `JobImplementsLease`: each ledger step is a lease step or
  leaves the lease alone. `LedgerCorrect` is by `LedgerInv`, which adds
  `AttemptsLeft` (a row that is not terminal has attempts left), without which the
  bound in `StartsAccounted` is not inductive, and `MarkIssued` (nobody past
  `resume()` is ahead of the mark, and the mark was issued by the row), because a
  claim is under the mark only if a token at least as high as the mark is the mark.
  `JobTypeCorrect` and `RunningUnderMarkCorrect` are parts of it;
  `OutcomesFinalCorrect` is an action property from the same invariant.
  `RecoveredMeansFencedCorrect` says on both stores that a recovery does not only take
  the row: the mark it leaves is above the token of the worker that may still be inside
  the job, because the recovering token is newer (`FencesDistinct`, `MarkIssued`).
- `ExecutionServiceProofs`, for every venue class and any number of plans, levels and
  faults. `ClosedMeansFlatCorrect`: `OpenedOnce` ties the history to the venue's order
  record; `ExitsFollow` says that exits come after an opened position, so that a close
  is never recorded for a plan that opens later; `CloseInv` carries flatness, or the
  adapter's false report, from the venue's answer to the record.
  `EntryNotRepeatedCorrect`, `ReducedOnceCorrect`, `ExposureRecordedCorrect` and
  `UnknownNotDeadCorrect` need `StoreInv` on top: the composition is fixed and a dead
  worker has nothing in flight (`Composed`), an operation in flight is PENDING in the
  store (`InFlight`), a scale-out that the venue applied cannot be sent again while
  something is left to take off (`ReduceInv`), and what the venue holds, an order that is
  still working included, has an entry that cannot be sent again (`HeldInv`).
  `EntryNotRepeated` is about what the service sends, so the venue's duplicate check
  cannot make it true.
- `KillSwitchProofs`. `HaltBindsCorrect`: a gateway's verdict is fresh. The
  invariant says where the cached state comes from: a journal prefix at least as
  long as the fingerprint (`CacheCovers`), since both `refresh()` and `__init__`
  take the fingerprint before they replay; and at the decision a prefix no shorter
  than the request's start (`ActsFresh`). `_append()` breaks the first part, which
  is `kill_stale`.
- `DurableLogProofs`. `LogImplementsAbstract`: every step of the file under any number
  of processes is a step of `AbstractLog` or a stutter. `LedgerSafe`: it never becomes
  corrupt, one process writes at a time, what was acknowledged is readable. All
  assume `~QuarantineFails`; `durable_glue` shows that they must. `LogInv` adds what
  a writer's place says of the end of the file (`WriterKnows`: nothing torn when it
  starts to write, every line older than its own, its line last when it flushes), that
  a part of a line has a living owner (`PartOwned`), and that acknowledged records lie
  within the flushed prefix (`AckedDurable`), which is what a power cut leaves.
- `PaperForwardProofs`. Every property here survives kills and restores, so `PaperInv`
  says of the memory what it needs (`RefInv`: references are behind the counter of
  their prefix and prefixes behind the sessions; `EntryInv`: only an entry the
  process knows to be filled has left a trace in the book or the account, and what it
  does not know of is an order about to be sent or a fill; `TradeInv`: a trade with more
  rows than appends that raised is one this process has marked, or one the book does not
  have; `AgreeInv`: book and venue differ only by the closes being sent; `WholeInv`), and says it again of the
  snapshot, for as long as `assess()` would restore it (`ImageInv`). The lemma
  `Watermark` is the heart: a step after which the snapshot is still restorable has
  either just written it or changed neither entries, references nor trades. So
  `ImageInv` is kept by two cases, and a restore puts back what held when it was saved.
  `RefsUniqueCorrect`, `TradesOnceCorrect`, `VenueAgreesCorrect`, `RestoredWholeCorrect`.
- `HoldoutProofs`. `OneLookCorrect` cannot be read off the table's unique constraint: a
  strategy has a key per schema version. `HoldoutInv` says what a process relies on
  although it read it in an earlier transaction (`Relies`): past `Compare`, and as long as
  no deployment has overlapped, every claim of the dataset has the process's version,
  because all processes at work have the deployed one (`AtWork`), and so the claims of a
  dataset have one version (`OneVersion`). `OneOwner` says that a
  claim whose look is still owed belongs to one process. `NoLeakCorrect` uses that a
  research window was cut at a segment that is never redefined (`SegmentInv`), and
  `LooksPaidCorrect`, which needs no condition on deployments, that a look follows a claim
  of its own key and an outcome a look (`LookInv`).
- `LifecycleProofs`. `EarnedOnlyCorrect` needs `StageInv`: a parked strategy remembers
  a stage that it had earned, so a recovery cannot raise it. `MonitorStopsCorrect` needs
  `BandInv`: while there is a tracker, a strategy that a monitor has put in a health
  state is in a band below healthy; without one, after a restart, the record itself
  refuses. `MonitorOnlyLowersCorrect` is an action property from the types and the
  transition table (`KindFacts`, `DepthFacts`). An earlier `Kind` was a CASE with two
  arms true at once for a retired strategy and for a strategy asked to stay where it is:
  TLC takes the first, TLA+ leaves the choice open, and the proof failed there. It now
  says "none", as the table of `_build_transitions` does.

Only model-checked: `DeadLeaseExpires`, `LostOrderFound`, `ComesBack` and
`HaltFollowedUp`. They are liveness under fairness, which is outside the prover.

## Assumptions and omissions

- Transactions are atomic and durable. So are appends to the intent store, the
  kill-switch journal and the paper-forward ledgers, which `DurableLog` justifies. The
  lifecycle's two files do not use `core/durable.py`: their appends are assumed whole,
  and an append whose fsync raises after the row was written is not modelled. In
  `ExecutionService` a failed write leaves no row; a row that an append left before it
  raised would be a true one, which the store in memory reads at the next start.
  `PaperForward` models both kinds of failure, except inside the start-up reconciliation,
  where a failed write ends the process as `Crash` does.
- `DurableLog`: the file exists, a record is shorter than the 64 KiB window of the tail
  check, bytes reach the disk in order, and a later fsync covers earlier bytes. The
  directory entry of a file that another process created is not fsynced
  (`core/durable.py:379`), so a power cut may lose the whole file; not modelled.
- A PostgreSQL session, and its advisory lock, lives exactly as long as its process
  or until it is dropped; a server that drops the session early is not modelled.
- A worker id names one process at a time (`{kind}@{host}:{pid}`).
- One queue, one job per cycle, a handler for every job type.
- The venue honours client references (OANDA's client extensions, IG's
  dealReference); IG truncates its reference to 30 characters, which is not modelled.
- Reconciliation is one step: the worker itself is the only other writer.
- One scale-out leg size per position; two equal legs would share a reference.
- The risk gateway may answer either way, and so may the mode guard in LIVE mode.
- One process per paper-forward state directory: the worker lease sees to that.
- One lifecycle process at a time writes transitions; halts may be released by any.

## Not modelled, and why

The repository has about 167 000 lines of implementation, of which more than a quarter is the
superseded V1 under `legacy/`, studies under `scripts/` and the web workstation. Of the
rest, most computes without shared state: indicators, statistics, simulation, the
strategy language, sizing, data import, and the agents' prompts and tools. A state
machine of such code would restate it. The map covers the part in which an
interleaving, a crash or a lost answer matters, and that part is small. Within it,
these are left out: the checkpoint store of research sweeps (keyed by content, written
once), the scheduler's due times and the alert deduplication (nothing modelled reads
them), the position manager's `resume()` from a venue's own positions, and the hash
chain of the transition log.

## Plan

All safety properties of the passing runs are theorems. What is left to prove:

1. Abstract specifications for `PaperForward` (an account over a set of recorded trades)
   and `Holdout` (a set of looks that only grows, one per key), with
   refinements like that of `DurableLog`.
2. The kill switch's check-then-append race between two operators, which no property
   covers: the strongest true statement is that every event was legal for some prefix
   of the journal that its author had replayed.
3. Shorter proofs: the steps that only carry the invariant along, shared by several
   lemmas of `ExecutionServiceProofs` and `HoldoutProofs`.
