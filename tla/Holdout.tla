------------------------------ MODULE Holdout ------------------------------
(***************************************************************************)
(* The holdout registry of src/fiboki/validation/holdout.py and the        *)
(* ladder's rung 6 that spends it, over one SQLite file that several       *)
(* validating processes share.  claim() is not one transaction: it checks  *)
(* that the stored keys are comparable, looks its own key up and inserts,  *)
(* each in a session of its own, and only the insert is protected, by      *)
(* UNIQUE(dataset, hash).  A strategy's hash depends on the schema version *)
(* of the code that computes it, so one strategy has a key per version.    *)
(*                                                                         *)
(* A dataset's date range is 0..End; a segment is the bar its holdout      *)
(* starts at.  A pool is several datasets validated together (pooled.py).  *)
(***************************************************************************)
EXTENDS Integers, FiniteSets

CONSTANTS
    Procs,
    Strategies,
    Datasets,       \* numbers: a pool claims its constituents in sorted order
    Starts,         \* the holdout starts that the data and the fraction can give
    MaxVersion,     \* bound: schema versions
    NoSegment, NoStrategy

ASSUME HoldoutAssumption ==
    /\ Datasets \subseteq Nat /\ IsFiniteSet(Datasets)
    /\ Starts \subseteq Nat \ {0}
    /\ MaxVersion \in Nat \ {0}
    /\ NoSegment \notin Nat
    /\ NoStrategy \notin Strategies

VARIABLES
    \* the registry file
    segment,        \* holdout_segment: where each dataset's holdout starts
    claims,         \* holdout_consumption: <<dataset, strategy, version of the key>>
    unstamped,      \* the claims written before the version column existed
    outcomes,       \* holdout_outcome: the claims that carry one
    \* the processes
    at,             \* where each process is
    subject,        \* the strategy it validates
    over,           \* the datasets it validates on
    start,          \* the start its data and its fraction give
    todo,           \* the datasets the present step still has to do
    version,        \* strategy_key_version() of its code
    deployed,       \* the version a process that starts now has
    \* history
    researched,     \* how far anyone's rungs 0 to 5 have read each dataset
    looks,          \* how often each holdout was evaluated for each key
    overlapped      \* was a new version deployed while a process was at work

fileVars == <<segment, claims, unstamped, outcomes>>
procVars == <<at, subject, over, start, todo, version>>
holdoutVars == <<fileVars, procVars, deployed, researched, looks, overlapped>>

Places == {"idle", "define", "insert", "open", "research", "precheck", "compare",
           "lookup", "commit", "look", "record"}

Keys == Datasets \X Strategies \X (1..MaxVersion)

Least(ds) == CHOOSE d \in ds : \A e \in ds : d <= e

\* The registry may hold a claim that predates the version column; its one look
\* is spent.
HoldoutInit ==
    /\ segment = [d \in Datasets |-> NoSegment]
    /\ claims \in {{}} \cup {{<<d, s, 1>>} : d \in Datasets, s \in Strategies}
    /\ unstamped = claims
    /\ outcomes = {}
    /\ at = [p \in Procs |-> "idle"]
    /\ subject = [p \in Procs |-> NoStrategy]
    /\ over = [p \in Procs |-> {}]
    /\ start = [p \in Procs |-> 0]
    /\ todo = [p \in Procs |-> {}]
    /\ version = [p \in Procs |-> 1]
    /\ deployed = 1
    /\ researched = [d \in Datasets |-> 0]
    /\ looks = [k \in Keys |-> IF k \in claims THEN 1 ELSE 0]
    /\ overlapped = FALSE

Goto(p, place) == at' = [at EXCEPT ![p] = place]

\* An error, or a report: the process is done with its candidate.
Idle(p) ==
    /\ at' = [at EXCEPT ![p] = "idle"]
    /\ subject' = [subject EXCEPT ![p] = NoStrategy]
    /\ over' = [over EXCEPT ![p] = {}]
    /\ start' = [start EXCEPT ![p] = 0]
    /\ todo' = [todo EXCEPT ![p] = {}]

-----------------------------------------------------------------------------
(* The segment, and the rungs before the holdout *)

\* A validation of one strategy on one dataset, or on a pool of them.
Begin(p, s, ds, b) ==
    /\ at[p] = "idle"
    /\ ds # {}
    /\ Goto(p, IF Cardinality(ds) = 1 THEN "define" ELSE "open")
    /\ subject' = [subject EXCEPT ![p] = s]
    /\ over' = [over EXCEPT ![p] = ds]
    /\ start' = [start EXCEPT ![p] = b]
    /\ todo' = [todo EXCEPT ![p] = {}]
    /\ version' = [version EXCEPT ![p] = deployed]
    /\ UNCHANGED <<fileVars, deployed, researched, looks, overlapped>>

\* define(): the same facts are fine, different ones are refused.
Define(p) ==
    /\ at[p] = "define"
    /\ LET d == Least(over[p]) IN
       IF segment[d] = NoSegment
       THEN Goto(p, "insert") /\ UNCHANGED <<subject, over, start, todo>>
       ELSE IF segment[d] = start[p]
            THEN Goto(p, "research") /\ UNCHANGED <<subject, over, start, todo>>
            ELSE Idle(p)
    /\ UNCHANGED <<fileVars, version, deployed, researched, looks, overlapped>>

\* Mutant: the insert replaces a row that appeared since it was looked for.
MutUpsertSegment(p) ==
    /\ at[p] = "insert"
    /\ segment' = [segment EXCEPT ![Least(over[p])] = start[p]]
    /\ Goto(p, "research")
    /\ UNCHANGED <<claims, unstamped, outcomes, subject, over, start, todo, version,
                   deployed, researched, looks, overlapped>>

\* The primary key refuses the second of two inserts.
InsertSegment(p) ==
    /\ at[p] = "insert"
    /\ LET d == Least(over[p]) IN
       IF segment[d] = NoSegment
       THEN /\ segment' = [segment EXCEPT ![d] = start[p]]
            /\ Goto(p, "research")
            /\ UNCHANGED <<subject, over, start, todo>>
       ELSE Idle(p) /\ UNCHANGED segment
    /\ UNCHANGED <<claims, unstamped, outcomes, version, deployed, researched, looks, overlapped>>

\* PooledHoldoutRegistry: every constituent has to have a segment.
OpenPool(p) ==
    /\ at[p] = "open"
    /\ IF \A d \in over[p] : segment[d] # NoSegment
       THEN Goto(p, "research") /\ UNCHANGED <<subject, over, start, todo>>
       ELSE Idle(p)
    /\ UNCHANGED <<fileVars, version, deployed, researched, looks, overlapped>>

\* research_window: it ends at the earliest start of a constituent's holdout.
ResearchEnd(p) == Least({segment[d] : d \in over[p]})

\* Rungs 0 to 5: the candidate fails, or comes to the holdout.
Research(p) ==
    /\ at[p] = "research"
    /\ researched' = [d \in Datasets |->
            IF d \in over[p] /\ researched[d] < ResearchEnd(p) THEN ResearchEnd(p)
            ELSE researched[d]]
    /\ \/ Idle(p)
       \/ /\ Goto(p, IF Cardinality(over[p]) = 1 THEN "compare" ELSE "precheck")
          /\ todo' = [todo EXCEPT ![p] = over[p]]
          /\ UNCHANGED <<subject, over, start>>
    /\ UNCHANGED <<fileVars, version, deployed, looks, overlapped>>

-----------------------------------------------------------------------------
(* claim() *)

\* The version of the code that made the key; unknown for an unstamped row that
\* nobody has restated.
KeyVersion(c) == IF c \in unstamped THEN 0 ELSE c[3]

\* Mutant: a row without a version is taken to be comparable.
MutUnstampedFine(d, v) == \A c \in claims : c[1] = d => KeyVersion(c) \in {0, v}

\* assert_keys_comparable().
Comparable(d, v) == \A c \in claims : c[1] = d => KeyVersion(c) = v

\* Mutant: the claim does not say which version made its key.
MutNoVersion(p, d) == <<d, subject[p], 0>>

Key(p, d) == <<d, subject[p], version[p]>>

\* PooledHoldoutRegistry.claim checks every constituent before it spends one.  What
\* appears between these reads and the claim is met again by the claim.
Precheck(p) ==
    /\ at[p] = "precheck"
    /\ LET d == Least(todo[p]) IN
       IF ~Comparable(d, version[p]) \/ Key(p, d) \in claims THEN Idle(p)
       ELSE /\ UNCHANGED <<subject, over, start>>
            /\ IF todo[p] = {d}
               THEN Goto(p, "compare") /\ todo' = [todo EXCEPT ![p] = over[p]]
               ELSE UNCHANGED at /\ todo' = [todo EXCEPT ![p] = @ \ {d}]
    /\ UNCHANGED <<fileVars, version, deployed, researched, looks, overlapped>>

Compare(p) ==
    /\ at[p] = "compare"
    /\ IF Comparable(Least(todo[p]), version[p])
       THEN Goto(p, "lookup") /\ UNCHANGED <<subject, over, start, todo>>
       ELSE Idle(p)
    /\ UNCHANGED <<fileVars, version, deployed, researched, looks, overlapped>>

Lookup(p) ==
    /\ at[p] = "lookup"
    /\ IF Key(p, Least(todo[p])) \in claims THEN Idle(p)
       ELSE Goto(p, "commit") /\ UNCHANGED <<subject, over, start, todo>>
    /\ UNCHANGED <<fileVars, version, deployed, researched, looks, overlapped>>

\* Mutant: there is no unique constraint.
MutNotUnique(p, d) == TRUE

\* UNIQUE(dataset_version_id, strategy_content_hash).
Unique(p, d) == Key(p, d) \notin claims

\* The insert: done, or refused because another claim won, or the database failed.
Commit(p) ==
    /\ at[p] = "commit"
    /\ LET d == Least(todo[p]) IN
       \/ /\ Unique(p, d)
          /\ claims' = claims \cup {Key(p, d)}
          /\ todo' = [todo EXCEPT ![p] = @ \ {d}]
          /\ Goto(p, IF todo[p] = {d} THEN "look" ELSE "compare")
          /\ UNCHANGED <<subject, over, start>>
       \/ Idle(p) /\ UNCHANGED claims
    /\ UNCHANGED <<segment, unstamped, outcomes, version, deployed, researched, looks, overlapped>>

-----------------------------------------------------------------------------
(* Rung 6 after the claim *)

\* The evaluation on the holdout of every dataset.
Look(p) ==
    /\ at[p] = "look"
    /\ LET own == {Key(p, d) : d \in over[p]} IN
       looks' = [k \in Keys |-> IF k \in own THEN looks[k] + 1 ELSE looks[k]]
    /\ Goto(p, "record")
    /\ todo' = [todo EXCEPT ![p] = over[p]]
    /\ UNCHANGED <<fileVars, subject, over, start, version, deployed, researched, overlapped>>

\* record_outcome(), one constituent after the other; a token that already carries
\* an outcome, or the database, may raise.
RecordOutcome(p) ==
    /\ at[p] = "record"
    /\ LET d == Least(todo[p]) IN
       IF Key(p, d) \in outcomes
       THEN Idle(p) /\ UNCHANGED outcomes
       ELSE /\ outcomes' = outcomes \cup {Key(p, d)}
            /\ IF todo[p] = {d} THEN Idle(p)
               ELSE /\ todo' = [todo EXCEPT ![p] = @ \ {d}]
                    /\ UNCHANGED <<at, subject, over, start>>
    /\ UNCHANGED <<segment, claims, unstamped, version, deployed, researched, looks, overlapped>>

\* The process dies, or the evaluation or the database raises, wherever it is.
Crash(p) ==
    /\ at[p] # "idle"
    /\ Idle(p)
    /\ UNCHANGED <<fileVars, version, deployed, researched, looks, overlapped>>

\* restate_key_versions(): somebody shows under which version the rows were made.
Restate ==
    /\ unstamped # {}
    /\ unstamped' = {}
    /\ UNCHANGED <<segment, claims, outcomes, procVars, deployed, researched, looks, overlapped>>

\* A deployment of code with a new SCHEMA_VERSION.  Nothing stops the processes that
\* still run the old one.
Upgrade ==
    /\ deployed < MaxVersion
    /\ deployed' = deployed + 1
    /\ overlapped' = (overlapped \/ \E p \in Procs : at[p] # "idle")
    /\ UNCHANGED <<fileVars, procVars, researched, looks>>

-----------------------------------------------------------------------------
HoldoutNext ==
    \/ \E p \in Procs :
          \/ \E s \in Strategies, ds \in SUBSET Datasets, b \in Starts : Begin(p, s, ds, b)
          \/ Define(p) \/ InsertSegment(p) \/ OpenPool(p) \/ Research(p)
          \/ Precheck(p) \/ Compare(p) \/ Lookup(p) \/ Commit(p)
          \/ Look(p) \/ RecordOutcome(p) \/ Crash(p)
    \/ Restate
    \/ Upgrade

HoldoutSpec == HoldoutInit /\ [][HoldoutNext]_holdoutVars

-----------------------------------------------------------------------------
(* Properties *)

HoldoutTypeOK ==
    /\ segment \in [Datasets -> Starts \cup {NoSegment}]
    /\ claims \subseteq Keys
    /\ unstamped \subseteq claims
    /\ outcomes \subseteq claims
    /\ at \in [Procs -> Places]
    /\ subject \in [Procs -> Strategies \cup {NoStrategy}]
    /\ over \in [Procs -> SUBSET Datasets]
    /\ start \in [Procs -> Starts \cup {0}]
    /\ todo \in [Procs -> SUBSET Datasets]
    /\ version \in [Procs -> 1..MaxVersion]
    /\ deployed \in 1..MaxVersion
    /\ researched \in [Datasets -> Nat]
    /\ looks \in [Keys -> Nat]
    /\ overlapped \in BOOLEAN

\* No strategy looks twice at the holdout of one dataset, alone or in a pool, under
\* whichever versions its keys were written ("a key that moved cannot be mistaken for
\* a key that is new"), as long as no process of an old version was at work when a
\* new one was deployed.  Then the comparability check of claim(), read in another
\* transaction than the insert, is out of date when the insert commits.
OneLook ==
    ~overlapped =>
        \A k, m \in Keys :
            k[1] = m[1] /\ k[2] = m[2] /\ looks[k] > 0 /\ looks[m] > 0 => k = m

\* "Earlier rungs cannot touch it": no rung before the holdout, of any process or
\* pool, has read a bar that is in the registered holdout.
NoLeak == \A d \in Datasets : segment[d] # NoSegment => researched[d] <= segment[d]

\* "A strategy hash gets exactly one look", with any mix of versions: a key looks at
\* most once and only if it is claimed, and an outcome on record is of a look that
\* took place.  A crash between claim, look and outcome can only spend a look without
\* a result, never the reverse.
LooksPaid ==
    \A k \in Keys :
        /\ looks[k] <= IF k \in claims THEN 1 ELSE 0
        /\ k \in outcomes => looks[k] > 0
=============================================================================
