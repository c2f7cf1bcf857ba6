----------------------------- MODULE Lifecycle ------------------------------
(***************************************************************************)
(* The life of one strategy: the state machine of lifecycle/state.py over  *)
(* its transition log, the latched halts of lifecycle/stopping_rules.py,   *)
(* the hysteresis of lifecycle/degradation.py, and the monitoring tick of  *)
(* lifecycle/service.py that joins them, as the live worker's timer        *)
(* (workers/runtime.py) runs it and as the risk gateway reads it.          *)
(*                                                                         *)
(* The log and the halt journal are files; the machine's record is the     *)
(* life's replay and moves with it; the tracker is memory.  An append may   *)
(* fail, and the process may die between any two steps of a tick.  The     *)
(* score is abstracted to the deepest band whose entry threshold it        *)
(* reaches, whether it is below the current band's exit threshold, and     *)
(* whether its confidence allows acting on it; which rules fire is up to   *)
(* the market.                                                             *)
(***************************************************************************)
EXTENDS Integers, FiniteSetsExt

CONSTANTS
    Rules,      \* the kinds of stopping rule registered for the strategy
    MaxFaults   \* bound: failed appends and deaths of the process

ASSUME LifeAssumption == MaxFaults \in Nat

VARIABLES
    life,       \* the strategy's record, as replaying the log gives it
    halts,      \* the rules latched in the halt journal
    tracker,    \* DegradationTracker
    tick,       \* the evaluation under way
    faults,     \* how much of MaxFaults is used
    earned      \* history: the ladder stage that promotions account for

lifeVars == <<life, halts, tracker, tick, faults, earned>>

-----------------------------------------------------------------------------
(* The transition table *)

Ladder == <<"discovery", "research", "validating", "candidate",
            "paper", "shadow", "demo", "approved", "live">>
OnLadder == {Ladder[i] : i \in 1..9}
Running == {Ladder[i] : i \in 5..9}
Laboratory == OnLadder \ Running
Bands == <<"watch", "degraded", "quarantined">>
Health == {Bands[i] : i \in 1..3}
LifeStates == OnLadder \cup Health \cup {"retired"}

\* ladder_index, from 1; 0 off the ladder.
Stage(s) == IF s \in OnLadder THEN CHOOSE i \in 1..9 : Ladder[i] = s ELSE 0

\* DegradationBand.from_lifecycle, as a depth; 0 is HEALTHY.
Depth(s) == IF s \in Health THEN CHOOSE i \in 1..3 : Bands[i] = s ELSE 0

\* The kind of the edge; "none" is illegal.
Kind(s, t) ==
    IF s = t \/ s = "retired" THEN "none"
    ELSE CASE t = "retired" -> "retirement"
           [] s \in OnLadder /\ t \in OnLadder ->
                 IF Stage(t) < Stage(s) THEN "demotion"
                 ELSE IF Stage(t) = Stage(s) + 1 THEN "promotion" ELSE "none"
           [] s \in Running /\ t \in Health -> "escalation"
           [] s \in Health /\ t \in Health ->
                 IF Depth(t) > Depth(s) THEN "escalation" ELSE "recovery"
           [] s \in Health /\ t \in Running -> "recovery"
           [] s \in Health /\ t \in Laboratory -> "demotion"
           [] OTHER -> "none"

\* Mutant: the research loop may promote everywhere but to LIVE.
MutLoopPromotes(s, t) == Kind(s, t) \in {"recovery", "retirement"} \/ t = "live"

\* requires_human_actor.
NeedsHuman(s, t) ==
    \/ Kind(s, t) = "promotion" /\ t \in Running
    \/ Kind(s, t) \in {"recovery", "retirement"}

\* Mutant: the stage a strategy left is forgotten when its health worsens.
MutForgetStage(r, t, by) ==
    [state |-> t,
     pre |-> IF r.state \in OnLadder /\ t \in Health THEN r.state ELSE "none",
     by |-> by]

\* StrategyRecord.applied(), on the machine's record and in replay alike.
Applied(r, t, by) ==
    [state |-> t,
     pre |-> IF r.state \in OnLadder /\ t \in Health THEN r.state
             ELSE IF t \in OnLadder THEN "none" ELSE r.pre,
     by |-> by]

\* The checks of transition(), on the machine's record.  An authorisation names
\* the strategy and LIVE.
Permitted(t, by, authorised) ==
    /\ Kind(life.state, t) # "none"
    /\ t = "live" => by = "human" /\ authorised
    /\ NeedsHuman(life.state, t) => by = "human"
    /\ Kind(life.state, t) = "recovery" /\ life.pre # "none" =>
          Stage(t) <= Stage(life.pre)

-----------------------------------------------------------------------------
(* Appends *)

Fault == faults < MaxFaults /\ faults' = faults + 1

\* What the promotions so far account for: a demotion gives stages back, and a
\* stay among the health states keeps them.
Earned(t) ==
    IF t \notin OnLadder THEN earned
    ELSE IF Kind(life.state, t) = "promotion" THEN Stage(t)
    ELSE Min({earned, Stage(t)})

\* The row is sealed onto the log and the machine's record follows it.
Append(t, by) ==
    /\ life' = Applied(life, t, by)
    /\ earned' = Earned(t)

-----------------------------------------------------------------------------
(* The operator and the research loop *)

Idle == [step |-> "idle", fired |-> {}, todo |-> {}]
NoTracker == [made |-> FALSE, band |-> 0, pending |-> 0, run |-> 0]
Enough == 3     \* consecutive_to_recover; longer runs are alike

\* register() has entered the strategy; nothing was evaluated.
LifeInit ==
    /\ life = [state |-> "discovery", pre |-> "none", by |-> "human"]
    /\ halts = {}
    /\ tracker = NoTracker
    /\ tick = Idle
    /\ faults = 0
    /\ earned = 1

\* transition() by a named human, along any edge; promote() by the research
\* loop, whose criteria may go either way.
Request(t, by, authorised) ==
    /\ tick = Idle
    /\ by = "monitor" => Kind(life.state, t) = "promotion"
    /\ Permitted(t, by, authorised)
    /\ Append(t, by)
    /\ UNCHANGED <<halts, tracker, tick, faults>>

\* release_halt(): one event in the journal, which any process may append.
ReleaseHalt(k) ==
    /\ k \in halts
    /\ halts' = halts \ {k}
    /\ UNCHANGED <<life, tracker, tick, faults, earned>>

-----------------------------------------------------------------------------
(* The tick *)

\* evaluate_all() looks at RUNNING strategies; the rules are evaluated.
BeginTick ==
    /\ tick = Idle
    /\ life.state \in Running
    /\ \E fired \in SUBSET Rules :
          tick' = [step |-> "firing", fired |-> fired, todo |-> fired]
    /\ UNCHANGED <<life, halts, tracker, faults, earned>>

\* record_firing(), for one fired rule; a latched one is left alone.
RecordFiring(k) ==
    /\ tick.step = "firing"
    /\ k \in tick.todo
    /\ halts' = halts \cup {k}
    /\ tick' = [tick EXCEPT !.todo = @ \ {k}]
    /\ UNCHANGED <<life, tracker, faults, earned>>

\* The journal cannot be written: the tick raises, and the worker reports it.
FiringRaises ==
    /\ tick.step = "firing"
    /\ tick.todo \ halts # {}
    /\ Fault
    /\ tick' = Idle
    /\ UNCHANGED <<life, halts, tracker, earned>>

\* Mutant: only a rule that fired in this tick forces the band.
MutFiredOnly == tick.fired # {}

\* score_degradation: fired now, or earlier and still latched.
Forced == tick.fired # {} \/ halts # {}

\* _tracker(): made by the first evaluation, from the record.
Tracker == IF tracker.made THEN tracker
           ELSE [made |-> TRUE, band |-> Depth(life.state),
                 pending |-> Depth(life.state), run |-> 0]

Settled(b) == [made |-> TRUE, band |-> b, pending |-> b, run |-> 0]

\* _target(): straight down, or up by one band.
Target(b, entered, leaves) ==
    IF entered > b THEN entered
    ELSE IF b > 0 /\ leaves THEN b - 1 ELSE b

\* The dwell of observe(): `pending = band` is no pending band.  A run that
\* supports a recovery is recommended, and never applied.
Dwell(tr, target) ==
    LET run == IF tr.pending = target THEN Min({tr.run + 1, Enough}) ELSE 1 IN
    IF target = tr.band THEN Settled(tr.band)
    ELSE IF target > tr.band /\ run >= 2 THEN Settled(target)
    ELSE [tr EXCEPT !.pending = target, !.run = run]

\* observe(), on the score of this tick.
Observed(confident, entered, leaves) ==
    IF Forced /\ Tracker.band < 3 THEN Settled(3)
    ELSE IF ~confident THEN Settled(Tracker.band)
    ELSE Dwell(Tracker, Target(Tracker.band, entered, leaves))

\* The band moves in memory; only a worsening is followed by a transition.
Observe ==
    /\ tick.step = "firing"
    /\ tick.todo = {}
    /\ \E confident, leaves \in BOOLEAN, entered \in 0..3 :
          tracker' = Observed(confident, entered, leaves)
    /\ tick' = IF tracker'.band > Tracker.band
               THEN [tick EXCEPT !.step = "demote"] ELSE Idle
    /\ UNCHANGED <<life, halts, faults, earned>>

\* _demote(): transition() by a rule or by the degradation monitor.
Demote ==
    LET t == Bands[tracker.band] IN
    /\ tick.step = "demote"
    /\ Permitted(t, "monitor", FALSE)
    /\ Append(t, "monitor")
    /\ tick' = Idle
    /\ UNCHANGED <<halts, tracker, faults>>

\* The log cannot be written: the band has moved, the strategy has not.
DemoteRaises ==
    /\ tick.step = "demote"
    /\ Fault
    /\ tick' = Idle
    /\ UNCHANGED <<life, halts, tracker, earned>>

\* The process dies at any point and another replays the life.
Restart ==
    /\ Fault
    /\ tracker' = NoTracker
    /\ tick' = Idle
    /\ UNCHANGED <<life, halts, earned>>

LifeNext ==
    \/ \E t \in LifeStates, by \in {"human", "monitor"}, authorised \in BOOLEAN :
          Request(t, by, authorised)
    \/ \E k \in Rules : ReleaseHalt(k) \/ RecordFiring(k)
    \/ BeginTick \/ FiringRaises \/ Observe \/ Demote \/ DemoteRaises \/ Restart

LifeSpec == LifeInit /\ [][LifeNext]_lifeVars

\* The worker's timer comes round however often others act, and a tick that
\* has begun goes on to its end.
LifeFairSpec ==
    /\ LifeSpec
    /\ SF_lifeVars(BeginTick)
    /\ WF_lifeVars(Observe)
    /\ WF_lifeVars(Demote)
    /\ \A k \in Rules : WF_lifeVars(RecordFiring(k))

-----------------------------------------------------------------------------
(* Properties *)

\* Mutant: an unevaluated strategy is taken for a healthy one.
MutUnseenHealthy == tracker.band

\* status(): the band of the tracker, or of the record when there is none.
Band == IF tracker.made THEN tracker.band ELSE Depth(life.state)

\* The gateway's lifecycle check on the worker's StrategyView.
MayTrade ==
    /\ life.state \in Running \cup {"watch"}
    /\ halts = {}
    /\ Band = 0

LifeRecord == [state : LifeStates, pre : Running \cup {"none"}, by : {"human", "monitor"}]

\* A parked strategy knows the stage it left; a transition is under way only
\* towards a deeper band.
LifeTypeOK ==
    /\ life \in LifeRecord
    /\ life.state \in Health => life.pre # "none"
    /\ halts \subseteq Rules
    /\ tracker \in [made : BOOLEAN, band : 0..3, pending : 0..3, run : 0..Enough]
    /\ tick \in [step : {"idle", "firing", "demote"}, fired : SUBSET Rules,
                 todo : SUBSET Rules]
    /\ tick.step = "demote" => tracker.band > Depth(life.state)
    /\ faults \in 0..MaxFaults
    /\ earned \in 1..9

\* No strategy stands on a stage that promotions did not take it to: a detour
\* through the health states, deepened and eased any number of times, is no
\* ladder.
EarnedOnly ==
    life.state \in OnLadder => Stage(life.state) <= earned

\* What the monitors and the research loop write never takes a strategy out of
\* a health state, nor onto a stage that trades.
MonitorOnlyLowers ==
    [][life' # life /\ life'.by = "monitor" =>
          \/ life'.state \in Laboratory /\ life.state \in Laboratory
          \/ life'.state \in Health /\ Depth(life'.state) >= Depth(life.state)]_lifeVars

\* A strategy the monitors have taken off the ladder does not trade, also in a
\* process that has just started and has evaluated nothing.
MonitorStops ==
    life.state \in Health /\ life.by = "monitor" => ~MayTrade

\* A halt latched by a tick that died is followed up by a later one.  (A tracker
\* already at QUARANTINED is the exception: see the README.)
HaltFollowedUp ==
    (halts # {} /\ life.state \in Running /\ Band < 3)
    ~> (halts = {} \/ life.state \notin Running \/ Band = 3)
=============================================================================
