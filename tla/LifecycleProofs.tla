-------------------------- MODULE LifecycleProofs --------------------------
(***************************************************************************)
(* For any set of stopping rules and any number of faults: the types,      *)
(* EarnedOnly, MonitorStops and the action property MonitorOnlyLowers.     *)
(*                                                                         *)
(* A strategy among the health states is not on the ladder, so EarnedOnly  *)
(* says nothing of it; the invariant carries the claim through, on the     *)
(* stage it left.  What the monitors write is decided in one step of a     *)
(* tick and written in another: the tick keeps the strategy where it was   *)
(* when the tick began.                                                    *)
(***************************************************************************)
EXTENDS Lifecycle, TLAPS

\* A tick is about a strategy that runs.
Ticking == tick # Idle => life.state \in Running

\* The stage a strategy stands on, or left for a health state, is accounted for.
StageInv ==
    /\ life.state \in OnLadder => Stage(life.state) <= earned
    /\ life.state \in Health => life.pre \in Running /\ Stage(life.pre) <= earned

\* A band the monitors put a strategy in is remembered as long as the tracker is.
BandInv ==
    life.state \in Health /\ life.by = "monitor" /\ tracker.made => tracker.band > 0

LifeInv == LifeTypeOK /\ Ticking /\ StageInv /\ BandInv

-----------------------------------------------------------------------------
(* The table *)

\* The smaller of two numbers.
LEMMA MinFacts ==
    \A a, b \in Int : Min({a, b}) \in {a, b} /\ Min({a, b}) <= a /\ Min({a, b}) <= b
<1> SUFFICES ASSUME NEW a \in Int, NEW b \in Int
             PROVE  Min({a, b}) \in {a, b} /\ Min({a, b}) <= a /\ Min({a, b}) <= b
    OBVIOUS
<1>1. \E x \in {a, b} : \A y \in {a, b} : x <= y
    <2>1. CASE a <= b
        BY <2>1
    <2>2. CASE b <= a
        BY <2>2
    <2> QED
        BY <2>1, <2>2
<1> QED
    BY <1>1 DEF Min

\* The three regions of the table are disjoint.
LEMMA Regions ==
    /\ Running = {"paper", "shadow", "demo", "approved", "live"}
    /\ Laboratory = {"discovery", "research", "validating", "candidate"}
    /\ OnLadder = Running \cup Laboratory
    /\ Health = {"watch", "degraded", "quarantined"}
    /\ \A s \in OnLadder : s \notin Health /\ s # "none" /\ s # "retired"
<1>1. Running = {"paper", "shadow", "demo", "approved", "live"}
    BY DEF Running, Ladder
<1>2. OnLadder = {"discovery", "research", "validating", "candidate",
                  "paper", "shadow", "demo", "approved", "live"}
    BY DEF OnLadder, Ladder
<1>3. Health = {"watch", "degraded", "quarantined"}
    BY DEF Health, Bands
<1> QED
    BY <1>1, <1>2, <1>3 DEF Laboratory

\* The stages that trade are the fifth and up.
LEMMA StageFacts ==
    \A s \in OnLadder : /\ Stage(s) \in 1..9
                        /\ s \in Running => Stage(s) >= 5
                        /\ s \in Laboratory => Stage(s) <= 4
<1> SUFFICES ASSUME NEW s \in OnLadder
             PROVE  /\ Stage(s) \in 1..9
                    /\ s \in Running => Stage(s) >= 5
                    /\ s \in Laboratory => Stage(s) <= 4
    OBVIOUS
<1>1. \E i \in 1..9 : Ladder[i] = s
    BY DEF OnLadder
<1>2. Stage(s) \in 1..9 /\ Ladder[Stage(s)] = s
    BY <1>1 DEF Stage
<1>3. \A i \in 1..4 : Ladder[i] \in {"discovery", "research", "validating", "candidate"}
    BY DEF Ladder
<1>4. \A i \in 5..9 : Ladder[i] \in {"paper", "shadow", "demo", "approved", "live"}
    BY DEF Ladder
<1> QED
    BY <1>2, <1>3, <1>4, Regions

\* HEALTHY is depth 0, and only that.
LEMMA DepthFacts ==
    /\ \A s \in Health : Depth(s) \in 1..3
    /\ \A s : s \notin Health => Depth(s) = 0
    /\ \A i \in 1..3 : Bands[i] \in Health
<1>1. ASSUME NEW s \in Health PROVE Depth(s) \in 1..3
    <2>1. \E i \in 1..3 : Bands[i] = s
        BY DEF Health
    <2> QED
        BY <2>1 DEF Depth
<1>2. \A s : s \notin Health => Depth(s) = 0
    BY DEF Depth
<1>3. \A i \in 1..3 : Bands[i] \in Health
    BY DEF Health
<1> QED
    BY <1>1, <1>2, <1>3

\* The edges, by the region they start in.
LEMMA KindFacts ==
    ASSUME NEW s \in LifeStates, NEW t \in LifeStates, Kind(s, t) # "none"
    PROVE  /\ s # "retired"
           /\ Kind(s, t) = "promotion" =>
                 s \in OnLadder /\ t \in OnLadder /\ Stage(t) = Stage(s) + 1
           /\ s \in OnLadder /\ t \in OnLadder /\ Kind(s, t) # "promotion" =>
                 Stage(t) < Stage(s)
           /\ s \in OnLadder /\ t \in Health => s \in Running
           /\ s \in Health /\ t \in Running => Kind(s, t) = "recovery"
<1>1. s # "retired" /\ s # t
    BY DEF Kind
<1>2. CASE s \in OnLadder /\ t \in OnLadder
    <2>1. t # "retired" /\ s \notin Health /\ t \notin Health
        BY <1>2, Regions
    <2>2. Stage(s) \in Int /\ Stage(t) \in Int
        BY <1>2, StageFacts
    <2>3. Kind(s, t) = IF Stage(t) < Stage(s) THEN "demotion"
                       ELSE IF Stage(t) = Stage(s) + 1 THEN "promotion" ELSE "none"
        BY <1>1, <1>2, <2>1 DEF Kind
    <2> QED
        BY <1>1, <1>2, <2>1, <2>3
<1>3. CASE s \in OnLadder /\ t \notin OnLadder
    <2>1. s \notin Health /\ (t \in Health => t # "retired")
        BY <1>3, Regions
    <2>2. Kind(s, t) # "promotion" /\ (t \in Health => s \in Running)
        BY <1>1, <1>3, <2>1 DEF Kind
    <2> QED
        BY <1>1, <1>3, <2>1, <2>2
<1>4. CASE s \in Health
    <2>1. s \notin OnLadder /\ s \notin Running /\ (t \in Running => t \notin Health /\ t # "retired")
        BY <1>4, Regions
    <2>2. Kind(s, t) # "promotion" /\ (t \in Running => Kind(s, t) = "recovery")
        BY <1>1, <1>4, <2>1 DEF Kind, Laboratory
    <2> QED
        BY <1>1, <1>4, <2>1, <2>2
<1> QED
    BY <1>1, <1>2, <1>3, <1>4 DEF LifeStates

-----------------------------------------------------------------------------
(* The steps *)

LEMMA LifeInitInv == LifeInit => LifeInv
<1> SUFFICES ASSUME LifeInit PROVE LifeInv
    OBVIOUS
<1>1. life = [state |-> "discovery", pre |-> "none", by |-> "human"]
      /\ tick = Idle /\ earned = 1
    BY DEF LifeInit
<1>2. "discovery" \in OnLadder /\ "discovery" \notin Health
    BY Regions
<1>3. Stage("discovery") = 1
    BY <1>2 DEF Stage, Ladder
<1>4. LifeTypeOK
    BY <1>1, <1>2, LifeAssumption DEF LifeInit, LifeTypeOK, LifeRecord, LifeStates, Idle,
       NoTracker, Enough
<1>5. Ticking /\ StageInv /\ BandInv
    BY <1>1, <1>2, <1>3 DEF Ticking, StageInv, BandInv
<1> QED
    BY <1>4, <1>5 DEF LifeInv

\* A transition onto the ladder keeps the stage accounted for; one to a health
\* state remembers it.
LEMMA AppendKeeps ==
    ASSUME LifeInv, NEW t \in LifeStates, NEW by \in {"human", "monitor"},
           NEW authorised \in BOOLEAN, Permitted(t, by, authorised), Append(t, by)
    PROVE  /\ life' \in LifeRecord /\ life'.state = t /\ life'.by = by
           /\ t \in Health => life'.pre # "none"
           /\ earned' \in 1..9
           /\ StageInv'
<1> DEFINE s == life.state
           pre == IF s \in OnLadder /\ t \in Health THEN s
                  ELSE IF t \in OnLadder THEN "none" ELSE life.pre
<1>1. /\ s \in LifeStates /\ life.pre \in Running \cup {"none"} /\ earned \in 1..9
      /\ s \in Health => life.pre \in Running /\ Stage(life.pre) <= earned
      /\ s \in OnLadder => Stage(s) <= earned
    BY DEF LifeInv, LifeTypeOK, LifeRecord, StageInv
<1>2. life' = [state |-> t, pre |-> pre, by |-> by]
    BY DEF Append, Applied
<1>3. /\ Kind(s, t) # "none"
      /\ Kind(s, t) = "recovery" /\ life.pre # "none" => Stage(t) <= Stage(life.pre)
    BY DEF Permitted
<1>4. earned' = IF t \notin OnLadder THEN earned
                ELSE IF Kind(s, t) = "promotion" THEN Stage(t) ELSE Min({earned, Stage(t)})
    BY DEF Append, Earned
<1>5. life'.state = t /\ life'.pre = pre /\ life'.by = by
    BY <1>2
<1>6. /\ s # "retired"
      /\ s \in OnLadder /\ t \in OnLadder /\ Kind(s, t) # "promotion" => Stage(t) < Stage(s)
      /\ Kind(s, t) = "promotion" => s \in OnLadder
      /\ s \in OnLadder /\ t \in Health => s \in Running
      /\ s \in Health /\ t \in Running => Kind(s, t) = "recovery"
    BY <1>1, <1>3, KindFacts
<1>7. s \in OnLadder \/ s \in Health
    BY <1>1, <1>6 DEF LifeStates
<1> HIDE DEF s
<1>8. CASE t \in OnLadder
    <2>1. t \notin Health /\ Stage(t) \in 1..9
        BY <1>8, Regions, StageFacts
    <2>2. pre = "none"
        BY <1>8, <2>1
    <2>3. Kind(s, t) # "promotion" => Stage(t) <= earned
        <3>1. CASE s \in OnLadder
            <4>1. Stage(s) \in 1..9
                BY <3>1, StageFacts
            <4> QED
                BY <1>1, <1>6, <1>8, <2>1, <3>1, <4>1
        <3>2. CASE s \in Health /\ t \in Running
            <4>1. Stage(t) <= Stage(life.pre) /\ Stage(life.pre) <= earned
                BY <1>1, <1>3, <1>6, <3>2, Regions
            <4>2. Stage(life.pre) \in 1..9
                BY <1>1, <3>2, Regions, StageFacts
            <4> QED
                BY <1>1, <2>1, <4>1, <4>2
        <3>3. CASE s \in Health /\ t \in Laboratory
            <4>1. Stage(t) <= 4 /\ Stage(life.pre) >= 5 /\ Stage(life.pre) <= earned
                BY <1>1, <1>8, <3>3, Regions, StageFacts
            <4>2. Stage(life.pre) \in 1..9
                BY <1>1, <3>3, Regions, StageFacts
            <4> QED
                BY <1>1, <2>1, <4>1, <4>2
        <3> QED
            BY <1>7, <1>8, <3>1, <3>2, <3>3, Regions
    <2>4. earned' \in 1..9 /\ Stage(t) <= earned'
        <3>1. CASE Kind(s, t) = "promotion"
            BY <1>4, <1>8, <2>1, <3>1
        <3>2. CASE Kind(s, t) # "promotion"
            <4>1. earned' = Min({earned, Stage(t)})
                BY <1>4, <1>8, <3>2
            <4>2. earned' \in {earned, Stage(t)}
                <5>1. earned \in Int /\ Stage(t) \in Int
                    BY <1>1, <2>1
                <5>2. Min({earned, Stage(t)}) \in {earned, Stage(t)}
                    BY <5>1, MinFacts, Zenon
                <5> QED
                    BY <4>1, <5>2, Zenon
            <4> QED
                BY <1>1, <2>1, <2>3, <3>2, <4>2
        <3> QED
            BY <3>1, <3>2
    <2> QED
        BY <1>2, <1>5, <1>8, <2>1, <2>2, <2>4 DEF LifeRecord, StageInv
<1>9. CASE t \notin OnLadder
    <2>1. earned' = earned
        BY <1>4, <1>9
    <2>2. t \in Health => pre \in Running /\ Stage(pre) <= earned
        <3>1. CASE s \in OnLadder
            BY <1>1, <1>6, <3>1
        <3>2. CASE s \in Health
            <4>1. s \notin OnLadder
                BY <3>2, Regions
            <4> QED
                BY <1>1, <1>9, <3>2, <4>1
        <3> QED
            BY <1>7, <3>1, <3>2
    <2>3. pre \in Running \cup {"none"}
        BY <1>1, <1>6, <1>9
    <2>4. "none" \notin Running
        BY Regions
    <2> HIDE DEF pre
    <2>5. life' \in LifeRecord
        BY <1>2, <2>3 DEF LifeRecord
    <2>6. StageInv'
        BY <1>5, <1>9, <2>1, <2>2 DEF StageInv
    <2> QED
        BY <1>1, <1>5, <2>1, <2>2, <2>4, <2>5, <2>6
<1> QED
    BY <1>8, <1>9

\* transition() by a human and promote() by the research loop.
LEMMA RequestKeeps ==
    ASSUME LifeInv, NEW t \in LifeStates, NEW by \in {"human", "monitor"},
           NEW authorised \in BOOLEAN, Request(t, by, authorised)
    PROVE  LifeInv'
<1>1. /\ Permitted(t, by, authorised) /\ Append(t, by) /\ tick = Idle
      /\ by = "monitor" => Kind(life.state, t) = "promotion"
      /\ UNCHANGED <<halts, tracker, tick, faults>>
    BY DEF Request
<1>2. /\ life' \in LifeRecord /\ life'.state = t /\ life'.by = by
      /\ t \in Health => life'.pre # "none"
      /\ earned' \in 1..9 /\ StageInv'
    BY <1>1, AppendKeeps
<1>3. tick'.step = "idle"
    BY <1>1 DEF Idle
<1>4. LifeTypeOK'
    BY <1>1, <1>2, <1>3 DEF LifeInv, LifeTypeOK
<1>5. BandInv'
    <2>1. by = "monitor" => t \in OnLadder
        BY <1>1, KindFacts DEF LifeInv, LifeTypeOK, LifeRecord
    <2>2. t \in OnLadder => t \notin Health
        BY Regions
    <2> QED
        BY <1>2, <2>1, <2>2 DEF BandInv
<1> QED
    BY <1>1, <1>2, <1>4, <1>5 DEF LifeInv, Ticking

\* What the tracker becomes is a band.
LEMMA TrackerFacts ==
    ASSUME LifeInv
    PROVE  /\ Tracker \in [made : {TRUE}, band : 0..3, pending : 0..3, run : 0..Enough]
           /\ \A confident, leaves \in BOOLEAN, entered \in 0..3 :
                 Observed(confident, entered, leaves)
                     \in [made : {TRUE}, band : 0..3, pending : 0..3, run : 0..Enough]
<1> DEFINE T == [made : {TRUE}, band : 0..3, pending : 0..3, run : 0..Enough]
<1>1. Depth(life.state) \in 0..3
    BY DepthFacts
<1>2. Tracker \in T
    <2>1. CASE tracker.made
        BY <2>1 DEF Tracker, LifeInv, LifeTypeOK
    <2>2. CASE ~tracker.made
        BY <1>1, <2>2 DEF Tracker, Enough
    <2> QED
        BY <2>1, <2>2
<1>3. \A b \in 0..3 : Settled(b) \in T
    BY DEF Settled, Enough
<1>4. ASSUME NEW tr \in T, NEW target \in 0..3 PROVE Dwell(tr, target) \in T
    <2> DEFINE run == IF tr.pending = target THEN Min({tr.run + 1, Enough}) ELSE 1
    <2>1. tr.run \in 0..3 /\ tr.band \in 0..3
        BY DEF Enough
    <2>2. Min({tr.run + 1, Enough}) \in 0..3
        <3>1. tr.run + 1 \in Int /\ Enough \in Int
            BY <2>1 DEF Enough
        <3>2. Min({tr.run + 1, Enough}) \in {tr.run + 1, Enough} /\ Min({tr.run + 1, Enough}) <= Enough
            BY <3>1, MinFacts, Zenon
        <3> QED
            BY <2>1, <3>2 DEF Enough
    <2>3. run \in 0..Enough
        BY <2>2 DEF Enough
    <2> HIDE DEF run
    <2>4. [tr EXCEPT !.pending = target, !.run = run] \in T
        BY <1>4, <2>3
    <2>5. Dwell(tr, target) \in {Settled(tr.band), Settled(target),
                                 [tr EXCEPT !.pending = target, !.run = run]}
        BY DEF Dwell, run
    <2> QED
        BY <1>3, <2>1, <2>4, <2>5
<1>5. ASSUME NEW confident \in BOOLEAN, NEW leaves \in BOOLEAN, NEW entered \in 0..3
      PROVE  Observed(confident, entered, leaves) \in T
    <2>1. Tracker.band \in 0..3
        BY <1>2
    <2>2. Target(Tracker.band, entered, leaves) \in 0..3
        BY <2>1 DEF Target
    <2> HIDE DEF T
    <2>3. /\ Dwell(Tracker, Target(Tracker.band, entered, leaves)) \in T
          /\ Settled(3) \in T /\ Settled(Tracker.band) \in T
        <3>1. 3 \in 0..3
            OBVIOUS
        <3> QED
            BY <1>2, <1>3, <1>4, <2>1, <2>2, <3>1
    <2> QED
        BY <2>3 DEF Observed
<1> QED
    BY <1>2, <1>5

\* The tick: it begins with a strategy that runs, and the strategy stays where it
\* is until the transition.
LEMMA TickKeeps ==
    ASSUME LifeInv,
           \/ BeginTick \/ FiringRaises \/ Observe \/ DemoteRaises \/ Restart
           \/ \E k \in Rules : ReleaseHalt(k) \/ RecordFiring(k)
    PROVE  LifeInv'
<1>1. UNCHANGED <<life, earned>>
    BY DEF BeginTick, FiringRaises, Observe, DemoteRaises, Restart, ReleaseHalt, RecordFiring
<1>2. StageInv'
    BY <1>1 DEF LifeInv, StageInv
<1>3. Idle \in [step : {"idle", "firing", "demote"}, fired : SUBSET Rules, todo : SUBSET Rules]
      /\ Idle.step = "idle"
    BY DEF Idle
<1>4. Fault => faults' \in 0..MaxFaults
    BY LifeAssumption DEF Fault, LifeInv, LifeTypeOK
<1>5. tick.step \in {"firing", "demote"} => life.state \in Running
    BY <1>3 DEF LifeInv, Ticking
<1>6. life.state \in Running => Depth(life.state) = 0 /\ life.state \notin Health
    BY Regions, DepthFacts
<1>7. CASE BeginTick
    <2>1. /\ life.state \in Running /\ UNCHANGED <<halts, tracker, faults>>
          /\ \E fired \in SUBSET Rules :
                tick' = [step |-> "firing", fired |-> fired, todo |-> fired]
        BY <1>7 DEF BeginTick
    <2>2. LifeTypeOK'
        BY <1>1, <2>1 DEF LifeInv, LifeTypeOK
    <2> QED
        BY <1>1, <1>2, <2>1, <2>2 DEF LifeInv, Ticking, BandInv
<1>8. CASE FiringRaises \/ DemoteRaises
    <2>1. tick' = Idle /\ Fault /\ UNCHANGED <<halts, tracker>>
        BY <1>8 DEF FiringRaises, DemoteRaises
    <2>2. LifeTypeOK'
        BY <1>1, <1>3, <1>4, <2>1 DEF LifeInv, LifeTypeOK
    <2> QED
        BY <1>1, <1>2, <2>1, <2>2 DEF LifeInv, Ticking, BandInv
<1>9. CASE Restart
    <2>1. tick' = Idle /\ Fault /\ tracker' = NoTracker /\ UNCHANGED halts
        BY <1>9 DEF Restart
    <2>2. NoTracker \in [made : BOOLEAN, band : 0..3, pending : 0..3, run : 0..Enough]
          /\ ~NoTracker.made
        BY DEF NoTracker, Enough
    <2>3. LifeTypeOK'
        BY <1>1, <1>3, <1>4, <2>1, <2>2 DEF LifeInv, LifeTypeOK
    <2> QED
        BY <1>1, <1>2, <2>1, <2>2, <2>3 DEF LifeInv, Ticking, BandInv
<1>10. ASSUME NEW k \in Rules, ReleaseHalt(k) PROVE LifeInv'
    <2>1. halts' = halts \ {k} /\ UNCHANGED <<tracker, tick, faults>>
        BY <1>10 DEF ReleaseHalt
    <2>2. LifeTypeOK'
        BY <1>1, <2>1 DEF LifeInv, LifeTypeOK
    <2> QED
        BY <1>1, <1>2, <2>1, <2>2 DEF LifeInv, Ticking, BandInv
<1>11. ASSUME NEW k \in Rules, RecordFiring(k) PROVE LifeInv'
    <2>1. /\ tick.step = "firing" /\ halts' = halts \cup {k}
          /\ tick' = [tick EXCEPT !.todo = @ \ {k}] /\ UNCHANGED <<tracker, faults>>
        BY <1>11 DEF RecordFiring
    <2>2. LifeTypeOK'
        BY <1>1, <2>1 DEF LifeInv, LifeTypeOK
    <2> QED
        BY <1>1, <1>2, <1>5, <2>1, <2>2 DEF LifeInv, Ticking, BandInv
<1>12. CASE Observe
    <2>1. /\ tick.step = "firing" /\ UNCHANGED <<halts, faults>>
          /\ tick' = IF tracker'.band > Tracker.band THEN [tick EXCEPT !.step = "demote"]
                     ELSE Idle
          /\ \E confident, leaves \in BOOLEAN, entered \in 0..3 :
                tracker' = Observed(confident, entered, leaves)
        BY <1>12 DEF Observe
    <2>2. /\ tracker' \in [made : {TRUE}, band : 0..3, pending : 0..3, run : 0..Enough]
          /\ Tracker.band \in 0..3
        <3>1. PICK confident \in BOOLEAN, leaves \in BOOLEAN, entered \in 0..3 :
                 tracker' = Observed(confident, entered, leaves)
            BY <2>1
        <3>2. Observed(confident, entered, leaves)
                 \in [made : {TRUE}, band : 0..3, pending : 0..3, run : 0..Enough]
            BY TrackerFacts, Zenon
        <3>3. Tracker \in [made : {TRUE}, band : 0..3, pending : 0..3, run : 0..Enough]
            BY TrackerFacts
        <3> QED
            BY <3>1, <3>2, <3>3
    <2>3. life.state \in Running /\ Depth(life.state) = 0 /\ life.state \notin Health
        BY <1>5, <1>6, <2>1
    <2>4. tick' \in [step : {"idle", "firing", "demote"}, fired : SUBSET Rules, todo : SUBSET Rules]
          /\ (tick'.step = "demote" => tracker'.band > Tracker.band)
        BY <1>3, <2>1 DEF LifeInv, LifeTypeOK
    <2>5. tick'.step = "demote" => tracker'.band > Depth(life'.state)
        BY <1>1, <2>2, <2>3, <2>4
    <2>6. tracker' \in [made : BOOLEAN, band : 0..3, pending : 0..3, run : 0..Enough]
        BY <2>2
    <2>7. LifeTypeOK'
        BY <1>1, <2>1, <2>4, <2>5, <2>6 DEF LifeInv, LifeTypeOK
    <2> QED
        BY <1>1, <1>2, <2>3, <2>7 DEF LifeInv, Ticking, BandInv
<1> QED
    BY <1>7, <1>8, <1>9, <1>10, <1>11, <1>12

\* What _demote() writes: the band the tracker has moved to.
LEMMA DemoteFacts ==
    ASSUME LifeInv, Demote
    PROVE  /\ Bands[tracker.band] \in Health /\ tracker.band > 0
           /\ Append(Bands[tracker.band], "monitor")
           /\ Permitted(Bands[tracker.band], "monitor", FALSE)
           /\ life.state \in Running
<1>1. tick.step = "demote" /\ tick # Idle
    BY DEF Demote, Idle
<1>2. life.state \in Running /\ Depth(life.state) = 0
    BY <1>1, Regions, DepthFacts DEF LifeInv, Ticking
<1>3. tracker.band \in 1..3
    BY <1>1, <1>2 DEF LifeInv, LifeTypeOK
<1>4. Bands[tracker.band] \in Health /\ tracker.band > 0
    BY <1>3, DepthFacts
<1>5. /\ Append(Bands[tracker.band], "monitor")
      /\ Permitted(Bands[tracker.band], "monitor", FALSE)
    BY Zenon DEF Demote
<1> QED
    BY <1>2, <1>4, <1>5

LEMMA DemoteKeeps ==
    ASSUME LifeInv, Demote
    PROVE  LifeInv'
<1>1. PICK t \in Health : t = Bands[tracker.band]
    BY DemoteFacts
<1>2. t \in LifeStates /\ Permitted(t, "monitor", FALSE) /\ Append(t, "monitor")
      /\ tracker.band > 0 /\ FALSE \in BOOLEAN /\ "monitor" \in {"human", "monitor"}
    BY <1>1, DemoteFacts DEF LifeStates
<1>3. /\ life' \in LifeRecord /\ life'.state = t /\ life'.by = "monitor"
      /\ life'.pre # "none" /\ earned' \in 1..9 /\ StageInv'
    BY <1>1, <1>2, AppendKeeps
<1>4. tick' = Idle /\ UNCHANGED <<halts, tracker, faults>>
    BY DEF Demote
<1>5. LifeTypeOK'
    BY <1>3, <1>4 DEF LifeInv, LifeTypeOK, Idle
<1>6. Ticking' /\ BandInv'
    BY <1>2, <1>4 DEF Ticking, BandInv
<1> QED
    BY <1>3, <1>5, <1>6 DEF LifeInv

LEMMA LifeStep ==
    ASSUME LifeInv, [LifeNext]_lifeVars
    PROVE  LifeInv'
<1>1. CASE UNCHANGED lifeVars
    BY <1>1 DEF lifeVars, LifeInv, LifeTypeOK, Ticking, StageInv, BandInv
<1>2. CASE LifeNext
    BY <1>2, RequestKeeps, TickKeeps, DemoteKeeps DEF LifeNext
<1> QED
    BY <1>1, <1>2

LEMMA LifeInvariant == LifeSpec => []LifeInv
BY LifeInitInv, LifeStep, PTL DEF LifeSpec

-----------------------------------------------------------------------------
(* The theorems *)

\* A parked strategy knows the stage it left, and a transition is under way only
\* towards a deeper band than the record's.
THEOREM LifeTypeCorrect == LifeSpec => []LifeTypeOK
<1>1. LifeInv => LifeTypeOK
    BY DEF LifeInv
<1> QED
    BY LifeInvariant, <1>1, PTL

\* However a strategy is parked, deepened, eased and recovered, it never stands on a
\* stage that promotions did not take it to.
THEOREM EarnedOnlyCorrect == LifeSpec => []EarnedOnly
<1>1. LifeInv => EarnedOnly
    BY DEF LifeInv, StageInv, EarnedOnly
<1> QED
    BY LifeInvariant, <1>1, PTL

\* A strategy that the monitors parked does not pass the gateway's lifecycle check,
\* also after a restart that forgot the tracker.
THEOREM MonitorStopsCorrect == LifeSpec => []MonitorStops
<1>1. ASSUME LifeInv, life.state \in Health, life.by = "monitor"
      PROVE  Band # 0
    <2>1. CASE tracker.made
        BY <1>1, <2>1 DEF LifeInv, BandInv, Band
    <2>2. CASE ~tracker.made
        BY <1>1, <2>2, DepthFacts DEF Band
    <2> QED
        BY <2>1, <2>2
<1>2. LifeInv => MonitorStops
    BY <1>1 DEF MonitorStops, MayTrade
<1> QED
    BY LifeInvariant, <1>2, PTL

\* What a monitor or the research loop writes never leaves a health state and never
\* reaches a stage that trades.
THEOREM MonitorOnlyLowersCorrect == LifeSpec => MonitorOnlyLowers
<1> DEFINE Lowers == life' # life /\ life'.by = "monitor" =>
          \/ life'.state \in Laboratory /\ life.state \in Laboratory
          \/ life'.state \in Health /\ Depth(life'.state) >= Depth(life.state)
<1>1. ASSUME LifeInv, LifeNext, life' # life, life'.by = "monitor"
      PROVE  Lowers
    <2>1. CASE Demote
        <3>1. PICK t \in Health : t = Bands[tracker.band] /\ Append(t, "monitor")
            BY <1>1, <2>1, DemoteFacts
        <3>2. life'.state = t
            BY <3>1 DEF Append, Applied
        <3>3. Depth(t) \in 1..3 /\ Depth(life.state) = 0
            BY <1>1, <2>1, <3>1, DemoteFacts, DepthFacts, Regions
        <3> QED
            BY <3>1, <3>2, <3>3
    <2>2. CASE \E t \in LifeStates, by \in {"human", "monitor"}, authorised \in BOOLEAN :
                  Request(t, by, authorised)
        <3>1. PICK t \in LifeStates, by \in {"human", "monitor"}, authorised \in BOOLEAN :
                 Request(t, by, authorised)
            BY <2>2
        <3>2. /\ life'.by = by /\ life'.state = t
              /\ Permitted(t, by, authorised)
              /\ by = "monitor" => Kind(life.state, t) = "promotion"
            BY <3>1 DEF Request, Append, Applied
        <3>3. Kind(life.state, t) = "promotion" /\ ~NeedsHuman(life.state, t)
            BY <1>1, <3>2 DEF Permitted
        <3>4. /\ life.state \in OnLadder /\ t \in OnLadder
              /\ Stage(t) = Stage(life.state) + 1
            BY <1>1, <3>1, <3>3, KindFacts DEF LifeInv, LifeTypeOK, LifeRecord
        <3>5. t \in Laboratory
            BY <3>3, <3>4, Regions DEF NeedsHuman
        <3>6. life.state \in Laboratory
            <4>1. Stage(t) <= 4 /\ Stage(t) \in 1..9 /\ Stage(life.state) \in 1..9
                BY <3>4, <3>5, StageFacts
            <4>2. ~(Stage(life.state) >= 5)
                BY <3>4, <4>1
            <4> QED
                BY <3>4, <4>2, StageFacts, Regions
        <3> QED
            BY <3>2, <3>5, <3>6
    <2>3. life' # life => Demote \/ \E t \in LifeStates, by \in {"human", "monitor"}, authorised \in BOOLEAN :
                  Request(t, by, authorised)
        BY <1>1 DEF LifeNext, BeginTick, FiringRaises, Observe, DemoteRaises, Restart,
           ReleaseHalt, RecordFiring
    <2> QED
        BY <1>1, <2>1, <2>2, <2>3
<1>2. LifeInv /\ [LifeNext]_lifeVars => [Lowers]_lifeVars
    BY <1>1
<1> QED
    BY LifeInvariant, <1>2, PTL DEF LifeSpec, MonitorOnlyLowers
=============================================================================
