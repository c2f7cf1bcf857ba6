--------------------------- MODULE HoldoutProofs ---------------------------
(***************************************************************************)
(* For any number of validating processes, strategies, datasets and schema *)
(* versions: the types, OneLook, LooksPaid and NoLeak.                     *)
(*                                                                         *)
(* LooksPaid follows the unique constraint: a key is claimed once, and the *)
(* claim is one process's right to one look.  OneLook cannot be read off   *)
(* it, for a strategy has a key per version.  What rules out a second key  *)
(* is that, unless deployments overlap, all processes at work have the     *)
(* deployed version, so that the comparability check of claim(), though    *)
(* read in another transaction, still holds when the insert commits.       *)
(***************************************************************************)
EXTENDS Holdout, FiniteSetTheorems, WellFoundedInduction, TLAPS

Claiming == {"precheck", "compare", "lookup", "commit", "record"}
Opened == {"research", "precheck", "compare", "lookup", "commit", "look", "record"}

\* A process at work validates one strategy on some datasets, with the deployed
\* version unless deployments overlapped; what a step has still to do is part of that.
AtWork(p) ==
    /\ at[p] # "idle" => /\ subject[p] \in Strategies /\ over[p] # {}
                         /\ start[p] \in Starts /\ (~overlapped => version[p] = deployed)
    /\ at[p] \in {"define", "insert"} => \E d \in Datasets : over[p] = {d}
    /\ at[p] \in Claiming => todo[p] # {}
    /\ at[p] = "look" => todo[p] = {}
    /\ todo[p] \subseteq over[p]

\* The dataset is claimed and the look has not happened yet.
Owes(p, d) == at[p] \in {"compare", "lookup", "commit", "look"} /\ d \in over[p] \ todo[p]

\* What a process relies on although it read it earlier: research has a segment on
\* every dataset; a claim that has passed the check would add no second version; a
\* claim that is paid for is unused; an outcome is that of a look.
Relies(p) ==
    /\ at[p] \in Opened => \A d \in over[p] : segment[d] # NoSegment
    /\ ~overlapped /\ at[p] \in {"lookup", "commit"} =>
          \A c \in claims : c[1] = Least(todo[p]) => c[3] = version[p]
    /\ \A d \in Datasets : Owes(p, d) => Key(p, d) \in claims /\ looks[Key(p, d)] = 0
    /\ at[p] = "record" =>
          \A d \in over[p] : Key(p, d) \in claims /\ looks[Key(p, d)] > 0

\* A claim is the right of one process to one look.
OneOwner ==
    \A p, q \in Procs : \A d \in Datasets :
        Owes(p, d) /\ Owes(q, d) /\ Key(p, d) = Key(q, d) => p = q

\* Research stays in front of the segment, where there is one.
SegmentInv ==
    \A d \in Datasets : IF segment[d] = NoSegment THEN researched[d] = 0
                        ELSE researched[d] <= segment[d]

\* The keys of one dataset have one version.
OneVersion == ~overlapped => \A c, e \in claims : c[1] = e[1] => c[3] = e[3]

\* A look leaves a claim behind, an outcome follows a look.
LookInv ==
    /\ \A k \in Keys : looks[k] <= 1 /\ (looks[k] > 0 => k \in claims)
    /\ \A c \in outcomes : looks[c] > 0

HoldoutInv ==
    /\ HoldoutTypeOK
    /\ \A p \in Procs : AtWork(p) /\ Relies(p)
    /\ OneOwner /\ SegmentInv /\ OneVersion /\ LookInv

\* A nonempty set of naturals has a least element.
LEMMA LeastFacts ==
    ASSUME NEW S, S \subseteq Nat, S # {}
    PROVE  Least(S) \in S /\ \A e \in S : Least(S) <= e
<1>1. IsWellFoundedOn(OpToRel(<, Nat), Nat)
    BY NatLessThanWellFounded
<1> DEFINE R == OpToRel(<, Nat)
<1>2. \A x, y \in Nat : <<y, x>> \in R <=> y < x
    BY DEF OpToRel
<1>3. IsWellFoundedOn(R, Nat)
    BY <1>1
<1> HIDE DEF R
<1>4. \E x \in S : \A y \in S : ~(<<y, x>> \in R)
    BY <1>3, WFMin
<1>5. \E x \in S : \A y \in S : x <= y
    <2>1. PICK x \in S : \A y \in S : ~(<<y, x>> \in R)
        BY <1>4
    <2>2. \A y \in S : x \in Nat /\ y \in Nat /\ ~(y < x)
        BY <1>2, <2>1
    <2>3. \A y \in S : x <= y
        BY <2>2
    <2> QED
        BY <2>3
<1> QED
    BY <1>5 DEF Least

\* Every process but p is where it was.
MovesOnly(p) ==
    \A q \in Procs \ {p} :
        /\ at'[q] = at[q] /\ subject'[q] = subject[q] /\ over'[q] = over[q]
        /\ start'[q] = start[q] /\ todo'[q] = todo[q] /\ version'[q] = version[q]

ProcTypes ==
    /\ at \in [Procs -> Places]
    /\ subject \in [Procs -> Strategies \cup {NoStrategy}]
    /\ over \in [Procs -> SUBSET Datasets]
    /\ start \in [Procs -> Starts \cup {0}]
    /\ todo \in [Procs -> SUBSET Datasets]
    /\ version \in [Procs -> 1..MaxVersion]
    /\ deployed \in 1..MaxVersion /\ overlapped \in BOOLEAN

FileTypes ==
    /\ segment \in [Datasets -> Starts \cup {NoSegment}]
    /\ claims \subseteq Keys
    /\ unstamped \subseteq claims
    /\ outcomes \subseteq claims
    /\ researched \in [Datasets -> Nat]
    /\ looks \in [Keys -> Nat]

LEMMA TypeParts == HoldoutInv => ProcTypes /\ FileTypes
BY DEF HoldoutInv, HoldoutTypeOK, ProcTypes, FileTypes

\* A step of one process that spends no claim and no look: the others rely on
\* claims, looks and on segments being there, which such a step leaves alone.
LEMMA LocalStep ==
    ASSUME HoldoutInv, NEW p \in Procs, MovesOnly(p), UNCHANGED <<claims, looks, deployed, overlapped>>,
           \A d \in Datasets : segment[d] # NoSegment => segment'[d] # NoSegment,
           ProcTypes', FileTypes', SegmentInv', LookInv',
           AtWork(p)', Relies(p)',
           \A d \in Datasets : Owes(p, d)' => Owes(p, d) /\ Key(p, d)' = Key(p, d)
    PROVE  HoldoutInv'
<1>1. ASSUME NEW q \in Procs, q # p
      PROVE  /\ AtWork(q)' /\ Relies(q)'
             /\ \A d \in Datasets : Owes(q, d)' => Owes(q, d) /\ Key(q, d)' = Key(q, d)
    <2>1. /\ at'[q] = at[q] /\ subject'[q] = subject[q] /\ over'[q] = over[q]
          /\ start'[q] = start[q] /\ todo'[q] = todo[q] /\ version'[q] = version[q]
        BY <1>1 DEF MovesOnly
    <2>2. AtWork(q) /\ Relies(q) /\ over[q] \subseteq Datasets
        BY DEF HoldoutInv, HoldoutTypeOK
    <2>3. AtWork(q)'
        BY <2>1, <2>2 DEF AtWork
    <2>4. \A d \in Datasets : Key(q, d)' = Key(q, d) /\ (Owes(q, d)' <=> Owes(q, d))
        BY <2>1 DEF Key, Owes
    <2>5. Relies(q)'
        BY <2>1, <2>2, <2>4 DEF Relies
    <2> QED
        BY <2>1, <2>3, <2>4, <2>5
<1>2. \A q \in Procs : AtWork(q)' /\ Relies(q)'
    BY <1>1
<1>3. OneOwner'
    BY <1>1 DEF HoldoutInv, OneOwner
<1>4. OneVersion'
    BY DEF HoldoutInv, OneVersion
<1>5. HoldoutTypeOK'
    BY DEF HoldoutTypeOK, ProcTypes, FileTypes
<1> QED
    BY <1>2, <1>3, <1>4, <1>5 DEF HoldoutInv

\* A process that stops, with an error or a report, relies on nothing.
LEMMA IdleFacts ==
    ASSUME ProcTypes, NEW p \in Procs, Idle(p), UNCHANGED <<version, deployed, overlapped>>
    PROVE  /\ ProcTypes' /\ MovesOnly(p) /\ AtWork(p)' /\ Relies(p)'
           /\ \A d \in Datasets : ~Owes(p, d)'
<1>1. ProcTypes'
    BY DEF ProcTypes, Idle, Places
<1>2. at'[p] = "idle" /\ todo'[p] = {} /\ over'[p] = {}
    BY DEF ProcTypes, Idle
<1>3. MovesOnly(p)
    BY DEF ProcTypes, Idle, MovesOnly
<1>4. AtWork(p)' /\ Relies(p)' /\ \A d \in Datasets : ~Owes(p, d)'
    BY <1>2 DEF AtWork, Relies, Owes, Claiming, Opened
<1> QED
    BY <1>1, <1>3, <1>4

\* A process that goes from place to place with its candidate.
LEMMA GotoFacts ==
    ASSUME ProcTypes, NEW p \in Procs, NEW place \in Places, Goto(p, place),
           UNCHANGED <<subject, over, start, version, deployed, overlapped>>,
           NEW t \in SUBSET Datasets, todo' = [todo EXCEPT ![p] = t]
    PROVE  /\ ProcTypes' /\ MovesOnly(p)
           /\ at'[p] = place /\ todo'[p] = t
           /\ \A d \in Datasets : Key(p, d)' = Key(p, d)
<1>1. ProcTypes' /\ at'[p] = place /\ todo'[p] = t
    BY DEF ProcTypes, Goto
<1>2. MovesOnly(p)
    BY DEF ProcTypes, Goto, MovesOnly
<1>3. \A d \in Datasets : Key(p, d)' = Key(p, d)
    BY DEF Key
<1> QED
    BY <1>1, <1>2, <1>3

\* Nothing in the file changes, nor in the histories.
FileStays == UNCHANGED <<segment, claims, unstamped, outcomes, deployed, researched, looks, overlapped>>

LEMMA FileStaysFacts ==
    ASSUME HoldoutInv, FileStays
    PROVE  /\ UNCHANGED <<claims, looks, deployed, overlapped>>
           /\ \A d \in Datasets : segment[d] # NoSegment => segment'[d] # NoSegment
           /\ FileTypes' /\ SegmentInv' /\ LookInv'
<1>1. FileTypes'
    BY TypeParts DEF FileStays, FileTypes
<1>2. SegmentInv' /\ LookInv'
    BY DEF HoldoutInv, FileStays, SegmentInv, LookInv
<1> QED
    BY <1>1, <1>2 DEF FileStays

\* Giving up keeps the invariant, wherever the process is.
LEMMA IdleKeeps ==
    ASSUME HoldoutInv, NEW p \in Procs, Idle(p), FileStays, UNCHANGED version
    PROVE  HoldoutInv'
<1>1. UNCHANGED <<deployed, overlapped>>
    BY DEF FileStays
<1>2. /\ ProcTypes' /\ MovesOnly(p) /\ AtWork(p)' /\ Relies(p)'
      /\ \A d \in Datasets : ~Owes(p, d)'
    BY <1>1, TypeParts, IdleFacts
<1> QED
    BY <1>2, FileStaysFacts, LocalStep

\* What a step of a process finds in its own variables.
LEMMA OwnFacts ==
    ASSUME HoldoutInv, NEW p \in Procs, at[p] # "idle"
    PROVE  /\ AtWork(p) /\ Relies(p) /\ ProcTypes /\ FileTypes
           /\ subject[p] \in Strategies /\ (~overlapped => version[p] = deployed) /\ version[p] \in 1..MaxVersion
           /\ over[p] # {} /\ over[p] \subseteq Datasets /\ todo[p] \subseteq over[p]
           /\ at[p] \in Claiming => Least(todo[p]) \in todo[p] /\ Least(todo[p]) \in Datasets
<1>1. AtWork(p) /\ Relies(p) /\ ProcTypes /\ FileTypes
    BY TypeParts DEF HoldoutInv
<1>2. /\ subject[p] \in Strategies /\ (~overlapped => version[p] = deployed) /\ version[p] \in 1..MaxVersion
      /\ over[p] # {} /\ over[p] \subseteq Datasets /\ todo[p] \subseteq over[p]
      /\ at[p] \in Claiming => todo[p] # {}
    BY <1>1 DEF AtWork, ProcTypes
<1>3. todo[p] \subseteq Nat /\ Datasets \subseteq Nat
    BY <1>2, HoldoutAssumption
<1>4. at[p] \in Claiming => Least(todo[p]) \in todo[p]
    BY <1>2, <1>3, LeastFacts
<1> QED
    BY <1>1, <1>2, <1>4

LEMMA BeginKeeps ==
    ASSUME HoldoutInv, NEW p \in Procs, NEW s \in Strategies, NEW ds \in SUBSET Datasets,
           NEW b \in Starts, Begin(p, s, ds, b)
    PROVE  HoldoutInv'
<1> DEFINE place == IF Cardinality(ds) = 1 THEN "define" ELSE "open"
<1>1. ProcTypes /\ FileTypes /\ FileStays
    BY TypeParts DEF Begin, fileVars, FileStays
<1>2. place \in {"define", "open"} /\ (place = "define" => \E d \in Datasets : ds = {d})
    <2>1. IsFiniteSet(ds)
        BY HoldoutAssumption, FS_Subset
    <2>2. Cardinality(ds) = 1 => \E x : ds = {x}
        BY <2>1, FS_Singleton
    <2> QED
        BY <2>2
<1>3. /\ ds # {} /\ at' = [at EXCEPT ![p] = place]
      /\ subject' = [subject EXCEPT ![p] = s]
      /\ over' = [over EXCEPT ![p] = ds]
      /\ start' = [start EXCEPT ![p] = b]
      /\ todo' = [todo EXCEPT ![p] = {}]
      /\ version' = [version EXCEPT ![p] = deployed]
      /\ UNCHANGED <<deployed, overlapped>>
    BY DEF Begin, Goto
<1> HIDE DEF place
<1>4. ProcTypes'
    BY <1>1, <1>2, <1>3 DEF ProcTypes, Places
<1>5. /\ at'[p] = place /\ subject'[p] = s /\ over'[p] = ds /\ start'[p] = b
      /\ todo'[p] = {} /\ version'[p] = deployed
    BY <1>1, <1>3 DEF ProcTypes
<1>6. MovesOnly(p)
    BY <1>1, <1>3 DEF ProcTypes, MovesOnly
<1>7. AtWork(p)'
    BY <1>2, <1>3, <1>5 DEF AtWork, Claiming
<1>8. Relies(p)' /\ \A d \in Datasets : ~Owes(p, d)'
    BY <1>2, <1>5 DEF Relies, Owes, Opened
<1> QED
    BY <1>1, <1>4, <1>6, <1>7, <1>8, FileStaysFacts, LocalStep

\* define() and the pool's opening: on to the insert, to research, or an error.
LEMMA OpenKeeps ==
    ASSUME HoldoutInv, NEW p \in Procs, Define(p) \/ OpenPool(p)
    PROVE  HoldoutInv'
<1>1. FileStays /\ UNCHANGED version /\ at[p] \in {"define", "open"}
    BY DEF Define, OpenPool, fileVars, FileStays
<1>2. /\ AtWork(p) /\ Relies(p) /\ ProcTypes
      /\ subject[p] \in Strategies /\ (~overlapped => version[p] = deployed)
      /\ over[p] # {} /\ over[p] \subseteq Datasets /\ todo[p] \subseteq over[p]
    BY <1>1, OwnFacts
<1>3. CASE Idle(p)
    BY <1>1, <1>3, IdleKeeps
<1>4. ASSUME NEW place \in {"insert", "research"}, Goto(p, place),
             UNCHANGED <<subject, over, start, todo>>,
             place = "insert" => at[p] = "define",
             place = "research" => \A d \in over[p] : segment[d] # NoSegment
      PROVE  HoldoutInv'
    <2>1. todo' = [todo EXCEPT ![p] = todo[p]] /\ todo[p] \in SUBSET Datasets /\ place \in Places
        BY <1>2, <1>4 DEF ProcTypes, Places
    <2>2. UNCHANGED <<subject, over, start, version, deployed, overlapped>>
        BY <1>1, <1>4 DEF FileStays
    <2>3. ProcTypes' /\ MovesOnly(p) /\ at'[p] = place /\ todo'[p] = todo[p]
        BY <1>2, <1>4, <2>1, <2>2, GotoFacts
    <2>4. AtWork(p)'
        BY <1>1, <1>2, <1>4, <2>2, <2>3 DEF AtWork, Claiming
    <2>5. Relies(p)' /\ \A d \in Datasets : ~Owes(p, d)'
        BY <1>1, <1>4, <2>2, <2>3 DEF Relies, Owes, Opened, FileStays
    <2> QED
        BY <1>1, <2>3, <2>4, <2>5, FileStaysFacts, LocalStep
<1>5. CASE Define(p) /\ ~Idle(p)
    <2>1. PICK d \in Datasets : over[p] = {d}
        BY <1>2, <1>5 DEF AtWork, Define
    <2>2. Least(over[p]) = d
        BY <2>1 DEF Least
    <2> QED
        BY <1>4, <1>5, <2>1, <2>2, HoldoutAssumption DEF Define
<1>6. CASE OpenPool(p) /\ ~Idle(p)
    BY <1>4, <1>6 DEF OpenPool
<1> QED
    BY <1>3, <1>5, <1>6

\* The insert of a segment: nobody has researched the dataset before.
LEMMA InsertKeeps ==
    ASSUME HoldoutInv, NEW p \in Procs, InsertSegment(p)
    PROVE  HoldoutInv'
<1>1. at[p] = "insert" /\ UNCHANGED <<claims, unstamped, outcomes, version, deployed, researched, looks, overlapped>>
    BY DEF InsertSegment
<1>2. /\ AtWork(p) /\ Relies(p) /\ ProcTypes /\ FileTypes
      /\ subject[p] \in Strategies /\ (~overlapped => version[p] = deployed)
      /\ over[p] # {} /\ over[p] \subseteq Datasets /\ todo[p] \subseteq over[p]
    BY <1>1, OwnFacts
<1>3. PICK d \in Datasets : over[p] = {d}
    BY <1>1, <1>2 DEF AtWork
<1>4. Least(over[p]) = d
    <2>1. d \in Nat
        BY HoldoutAssumption
    <2> QED
        BY <1>3, <2>1 DEF Least
<1>5. CASE segment[d] = NoSegment
    <2>1. /\ segment' = [segment EXCEPT ![d] = start[p]]
          /\ Goto(p, "research") /\ UNCHANGED <<subject, over, start, todo>>
        BY <1>4, <1>5 DEF InsertSegment
    <2>2. start[p] \in Starts /\ start[p] \in Nat /\ start[p] # NoSegment
        BY <1>1, <1>2, HoldoutAssumption DEF AtWork
    <2>3. FileTypes'
        BY <1>1, <1>2, <2>1, <2>2 DEF FileTypes
    <2>4. /\ segment'[d] = start[p]
          /\ \A e \in Datasets : e # d => segment'[e] = segment[e]
        BY <1>2, <2>1 DEF FileTypes
    <2>5. SegmentInv'
        <3>1. researched[d] = 0
            BY <1>5 DEF HoldoutInv, SegmentInv
        <3>2. researched'[d] <= segment'[d]
            BY <1>1, <2>2, <2>4, <3>1
        <3> QED
            BY <1>1, <2>2, <2>4, <3>2 DEF HoldoutInv, SegmentInv
    <2>6. LookInv'
        BY <1>1 DEF HoldoutInv, LookInv
    <2>7. todo' = [todo EXCEPT ![p] = todo[p]] /\ todo[p] \in SUBSET Datasets /\ "research" \in Places
        BY <1>2, <2>1 DEF ProcTypes, Places
    <2>8. ProcTypes' /\ MovesOnly(p) /\ at'[p] = "research" /\ todo'[p] = todo[p]
        BY <1>1, <1>2, <2>1, <2>7, GotoFacts
    <2>9. AtWork(p)'
        BY <1>1, <1>2, <2>1, <2>8 DEF AtWork, Claiming
    <2>10. Relies(p)' /\ \A e \in Datasets : ~Owes(p, e)'
        BY <1>3, <2>1, <2>2, <2>4, <2>8 DEF Relies, Owes
    <2>11. \A e \in Datasets : segment[e] # NoSegment => segment'[e] # NoSegment
        BY <2>2, <2>4
    <2> QED
        BY <1>1, <2>3, <2>5, <2>6, <2>8, <2>9, <2>10, <2>11, LocalStep
<1>6. CASE segment[d] # NoSegment
    <2>1. Idle(p) /\ FileStays /\ UNCHANGED version
        BY <1>1, <1>4, <1>6 DEF InsertSegment, FileStays
    <2> QED
        BY <2>1, IdleKeeps
<1> QED
    BY <1>5, <1>6

\* Rungs 0 to 5 stay in front of every segment of the pool.
LEMMA ResearchKeeps ==
    ASSUME HoldoutInv, NEW p \in Procs, Research(p)
    PROVE  HoldoutInv'
<1>1. /\ at[p] = "research" /\ UNCHANGED <<segment, claims, unstamped, outcomes>>
      /\ UNCHANGED <<version, deployed, looks, overlapped>>
    BY DEF Research, fileVars
<1>2. /\ AtWork(p) /\ Relies(p) /\ ProcTypes /\ FileTypes
      /\ subject[p] \in Strategies /\ (~overlapped => version[p] = deployed)
      /\ over[p] # {} /\ over[p] \subseteq Datasets
    BY <1>1, OwnFacts
<1>3. \A d \in over[p] : segment[d] \in Nat /\ segment[d] # NoSegment
    BY <1>1, <1>2, HoldoutAssumption DEF Relies, Opened, FileTypes
<1>4. ResearchEnd(p) \in Nat /\ \A d \in over[p] : ResearchEnd(p) <= segment[d]
    <2> DEFINE S == {segment[d] : d \in over[p]}
    <2>1. S \subseteq Nat /\ S # {}
        BY <1>2, <1>3
    <2>2. ResearchEnd(p) = Least(S)
        BY DEF ResearchEnd
    <2>3. \A d \in over[p] : segment[d] \in S
        OBVIOUS
    <2> HIDE DEF S
    <2>4. Least(S) \in S /\ \A e \in S : Least(S) <= e
        BY <2>1, LeastFacts
    <2> QED
        BY <2>1, <2>2, <2>3, <2>4
<1>5. PICK r \in Nat : r = ResearchEnd(p)
    BY <1>4
<1>6. researched' = [d \in Datasets |->
            IF d \in over[p] /\ researched[d] < r THEN r ELSE researched[d]]
    BY <1>5 DEF Research
<1>7. FileTypes'
    BY <1>1, <1>2, <1>6 DEF FileTypes
<1>8. SegmentInv'
    <2>1. \A d \in over[p] : r <= segment[d]
        BY <1>4, <1>5
    <2>2. ASSUME NEW d \in Datasets, d \in over[p]
          PROVE  researched'[d] <= segment[d] /\ segment[d] # NoSegment
        <3>1. researched[d] <= segment[d]
            BY <1>3, <2>2 DEF HoldoutInv, SegmentInv
        <3> QED
            BY <1>3, <1>6, <2>1, <2>2, <3>1
    <2>3. \A d \in Datasets : d \notin over[p] => researched'[d] = researched[d]
        BY <1>6
    <2> QED
        BY <1>1, <2>2, <2>3 DEF HoldoutInv, SegmentInv
<1>9. LookInv'
    BY <1>1 DEF HoldoutInv, LookInv
<1>10. CASE Idle(p)
    <2>1. /\ ProcTypes' /\ MovesOnly(p) /\ AtWork(p)' /\ Relies(p)'
          /\ \A d \in Datasets : ~Owes(p, d)'
        BY <1>1, <1>2, <1>10, IdleFacts
    <2> QED
        BY <1>1, <1>7, <1>8, <1>9, <2>1, LocalStep
<1>11. CASE /\ Goto(p, IF Cardinality(over[p]) = 1 THEN "compare" ELSE "precheck")
            /\ todo' = [todo EXCEPT ![p] = over[p]]
            /\ UNCHANGED <<subject, over, start>>
    <2>1. PICK place \in {"compare", "precheck"} : Goto(p, place)
        BY <1>11
    <2>2. place \in Places /\ over[p] \in SUBSET Datasets
        BY <1>2 DEF Places
    <2>3. ProcTypes' /\ MovesOnly(p) /\ at'[p] = place /\ todo'[p] = over[p]
        BY <1>1, <1>2, <1>11, <2>1, <2>2, GotoFacts
    <2>4. AtWork(p)'
        BY <1>1, <1>2, <1>11, <2>1, <2>3 DEF AtWork, Claiming
    <2>5. Relies(p)' /\ \A d \in Datasets : ~Owes(p, d)'
        BY <1>1, <1>3, <1>11, <2>1, <2>3 DEF Relies, Owes
    <2> QED
        BY <1>1, <1>7, <1>8, <1>9, <2>3, <2>4, <2>5, LocalStep
<1> QED
    BY <1>10, <1>11 DEF Research

\* The reads of claim(): the pool's check of every constituent, the comparability
\* check, and the lookup of the key.
LEMMA ReadKeeps ==
    ASSUME HoldoutInv, NEW p \in Procs, Precheck(p) \/ Compare(p) \/ Lookup(p)
    PROVE  HoldoutInv'
<1>1. FileStays /\ UNCHANGED version /\ at[p] \in {"precheck", "compare", "lookup"}
    BY DEF Precheck, Compare, Lookup, fileVars, FileStays
<1>2. /\ AtWork(p) /\ Relies(p) /\ ProcTypes /\ FileTypes
      /\ subject[p] \in Strategies /\ (~overlapped => version[p] = deployed) /\ version[p] \in 1..MaxVersion
      /\ over[p] # {} /\ over[p] \subseteq Datasets /\ todo[p] \subseteq over[p]
      /\ Least(todo[p]) \in todo[p]
    BY <1>1, OwnFacts DEF Claiming
<1>3. CASE Idle(p)
    BY <1>1, <1>3, IdleKeeps
<1>4. ASSUME NEW place \in {"precheck", "compare", "lookup", "commit"}, Goto(p, place),
             NEW t \in SUBSET over[p], t # {}, todo' = [todo EXCEPT ![p] = t],
             UNCHANGED <<subject, over, start>>,
             place \in {"precheck", "compare"} => at[p] = "precheck",
             place = "compare" => t = over[p],
             place \in {"lookup", "commit"} =>
                /\ at[p] \in {"compare", "lookup"} /\ t = todo[p]
                /\ ~overlapped => \A c \in claims : c[1] = Least(t) => c[3] = version[p]
      PROVE  HoldoutInv'
    <2>1. t \in SUBSET Datasets /\ place \in Places
        BY <1>2, <1>4 DEF Places
    <2>2. UNCHANGED <<subject, over, start, version, deployed, overlapped>>
        BY <1>1, <1>4 DEF FileStays
    <2>3. /\ ProcTypes' /\ MovesOnly(p) /\ at'[p] = place /\ todo'[p] = t
          /\ \A d \in Datasets : Key(p, d)' = Key(p, d)
        BY <1>2, <1>4, <2>1, <2>2, GotoFacts
    <2>4. AtWork(p)'
        BY <1>1, <1>2, <1>4, <2>2, <2>3 DEF AtWork, Claiming
    <2>5. \A d \in Datasets : Owes(p, d)' => Owes(p, d)
        BY <1>1, <1>4, <2>2, <2>3 DEF Owes
    <2>6. Relies(p)'
        BY <1>1, <1>2, <1>4, <2>2, <2>3, <2>5 DEF Relies, Opened, FileStays
    <2> QED
        BY <1>1, <2>2, <2>3, <2>4, <2>5, <2>6, FileStaysFacts, LocalStep
<1>5. CASE Precheck(p) /\ ~Idle(p)
    <2>1. PICK d : d = Least(todo[p])
        OBVIOUS
    <2>2. at[p] = "precheck" /\ UNCHANGED <<subject, over, start>>
        BY <1>5 DEF Precheck
    <2>3. CASE todo[p] = {d}
        BY <1>2, <1>4, <1>5, <2>1, <2>2, <2>3 DEF Precheck
    <2>4. CASE todo[p] # {d}
        <3>1. todo[p] \ {d} # {} /\ todo[p] \ {d} \in SUBSET over[p]
            BY <1>2, <2>1, <2>4
        <3>2. Goto(p, "precheck") /\ todo' = [todo EXCEPT ![p] = todo[p] \ {d}]
            BY <1>2, <1>5, <2>1, <2>2, <2>4 DEF Precheck, Goto, ProcTypes
        <3> QED
            BY <1>4, <2>2, <3>1, <3>2
    <2> QED
        BY <2>3, <2>4
<1>6. todo' = todo => todo' = [todo EXCEPT ![p] = todo[p]]
    BY <1>2 DEF ProcTypes
<1>7. CASE Compare(p) /\ ~Idle(p)
    <2>1. Comparable(Least(todo[p]), version[p])
        BY <1>7 DEF Compare
    <2>2. \A c \in claims : c[1] = Least(todo[p]) => c[3] = version[p]
        BY <1>2, <2>1 DEF Comparable, KeyVersion
    <2>3. Goto(p, "lookup") /\ UNCHANGED <<subject, over, start, todo>> /\ at[p] = "compare"
        BY <1>7 DEF Compare
    <2> QED
        BY <1>2, <1>4, <1>6, <2>2, <2>3
<1>8. CASE Lookup(p) /\ ~Idle(p)
    <2>1. Goto(p, "commit") /\ UNCHANGED <<subject, over, start, todo>> /\ at[p] = "lookup"
        BY <1>8 DEF Lookup
    <2>2. ~overlapped => \A c \in claims : c[1] = Least(todo[p]) => c[3] = version[p]
        BY <1>2, <2>1 DEF Relies
    <2> QED
        BY <1>2, <1>4, <1>6, <2>1, <2>2
<1> QED
    BY <1>3, <1>5, <1>7, <1>8

\* The insert that wins.  A look of this key would have left the claim that the
\* unique constraint has just shown not to be there.
LEMMA CommitKeeps ==
    ASSUME HoldoutInv, NEW p \in Procs, Commit(p)
    PROVE  HoldoutInv'
<1>1. /\ at[p] = "commit" /\ UNCHANGED <<segment, unstamped, outcomes>>
      /\ UNCHANGED <<version, deployed, researched, looks, overlapped>>
    BY DEF Commit
<1>2. /\ AtWork(p) /\ Relies(p) /\ ProcTypes /\ FileTypes
      /\ subject[p] \in Strategies /\ (~overlapped => version[p] = deployed) /\ version[p] \in 1..MaxVersion
      /\ over[p] # {} /\ over[p] \subseteq Datasets /\ todo[p] \subseteq over[p]
      /\ Least(todo[p]) \in todo[p]
    BY <1>1, OwnFacts DEF Claiming
<1>3. CASE Idle(p) /\ UNCHANGED claims
    BY <1>1, <1>3, IdleKeeps DEF FileStays
<1>4. CASE ~(Idle(p) /\ UNCHANGED claims)
    <2>1. PICK d \in todo[p] : d = Least(todo[p])
        BY <1>2
    <2>2. PICK k : k = Key(p, d)
        OBVIOUS
    <2>3. /\ k \notin claims /\ claims' = claims \cup {k}
          /\ todo' = [todo EXCEPT ![p] = @ \ {d}]
          /\ Goto(p, IF todo[p] = {d} THEN "look" ELSE "compare")
          /\ UNCHANGED <<subject, over, start>>
        BY <1>4, <2>1, <2>2 DEF Commit, Unique
    <2>4. d \in Datasets /\ k \in Keys /\ k[1] = d /\ k[3] = version[p]
        BY <1>2, <2>1, <2>2 DEF Key, Keys
    <2>5. PICK place \in {"look", "compare"} :
             /\ Goto(p, place)
             /\ place = "look" => todo[p] = {d}
             /\ place = "compare" => todo[p] # {d}
        BY <2>3
    <2>6. todo[p] \ {d} \in SUBSET Datasets /\ place \in Places
          /\ todo' = [todo EXCEPT ![p] = todo[p] \ {d}]
        BY <1>2, <2>3, <2>5 DEF Places, ProcTypes
    <2>7. /\ ProcTypes' /\ MovesOnly(p) /\ at'[p] = place /\ todo'[p] = todo[p] \ {d}
          /\ \A e \in Datasets : Key(p, e)' = Key(p, e)
        <3>1. UNCHANGED <<subject, over, start, version, deployed, overlapped>>
            BY <1>1, <2>3
        <3>2. PICK t \in SUBSET Datasets : t = todo[p] \ {d}
            BY <2>6
        <3>3. todo' = [todo EXCEPT ![p] = t] /\ Goto(p, place) /\ place \in Places
            BY <2>5, <2>6, <3>2
        <3>4. ProcTypes' /\ MovesOnly(p) /\ at'[p] = place /\ todo'[p] = t
            BY <1>2, <3>1, <3>3, GotoFacts
        <3> QED
            BY <3>1, <3>2, <3>4 DEF Key
    <2>8. FileTypes'
        BY <1>1, <1>2, <2>3, <2>4 DEF FileTypes
    <2>9. ~overlapped => \A c \in claims : c[1] = d => c[3] = version[p]
        BY <1>1, <1>2, <2>1 DEF Relies
    <2>11. looks[k] = 0
        <3>1. ~(looks[k] > 0)
            BY <2>3, <2>4 DEF HoldoutInv, LookInv
        <3>2. looks[k] \in Nat
            BY <1>2, <2>4 DEF FileTypes
        <3> QED
            BY <3>1, <3>2
    <2>12. OneVersion'
        BY <1>1, <2>3, <2>4, <2>9 DEF HoldoutInv, OneVersion
    <2>13. LookInv' /\ SegmentInv'
        BY <1>1, <2>3 DEF HoldoutInv, LookInv, SegmentInv
    <2>14. \A e \in Datasets : Owes(p, e)' => e = d \/ Owes(p, e)
        BY <1>1, <2>3, <2>5, <2>7 DEF Owes
    <2>15. AtWork(p)'
        BY <1>1, <1>2, <2>1, <2>3, <2>5, <2>7 DEF AtWork, Claiming
    <2>16. Relies(p)'
        <3>1. \A e \in Datasets : Owes(p, e)' =>
                 Key(p, e)' \in claims' /\ looks'[Key(p, e)'] = 0
            BY <1>1, <1>2, <2>2, <2>3, <2>7, <2>11, <2>14 DEF Relies
        <3>2. \A e \in over'[p] : segment'[e] # NoSegment
            BY <1>1, <1>2, <2>3 DEF Relies, Opened
        <3> QED
            BY <2>5, <2>7, <3>1, <3>2 DEF Relies
    <2>17. ASSUME NEW q \in Procs, q # p
           PROVE  /\ AtWork(q)' /\ Relies(q)'
                  /\ \A e \in Datasets : Key(q, e)' = Key(q, e) /\ (Owes(q, e)' <=> Owes(q, e))
        <3>1. /\ at'[q] = at[q] /\ subject'[q] = subject[q] /\ over'[q] = over[q]
              /\ start'[q] = start[q] /\ todo'[q] = todo[q] /\ version'[q] = version[q]
            BY <2>7, <2>17 DEF MovesOnly
        <3>2. AtWork(q) /\ Relies(q) /\ over[q] \subseteq Datasets
            BY DEF HoldoutInv, HoldoutTypeOK
        <3>3. AtWork(q)'
            BY <1>1, <3>1, <3>2 DEF AtWork
        <3>4. \A e \in Datasets : Key(q, e)' = Key(q, e) /\ (Owes(q, e)' <=> Owes(q, e))
            BY <3>1 DEF Key, Owes
        <3>5. ~overlapped /\ at[q] # "idle" => k[3] = version[q]
            BY <1>1, <1>2, <2>4, <3>2 DEF AtWork
        <3>6. Relies(q)'
            BY <1>1, <2>3, <3>1, <3>2, <3>4, <3>5 DEF Relies
        <3> QED
            BY <3>1, <3>3, <3>4, <3>6
    <2>18. ASSUME NEW q \in Procs, q # p, Owes(q, d), Key(q, d) = k PROVE FALSE
        <3>1. Key(q, d) \in claims
            BY <2>4, <2>18 DEF HoldoutInv, Relies
        <3> QED
            BY <2>3, <2>18, <3>1
    <2>19. OneOwner'
        <3>1. ASSUME NEW q \in Procs, q # p, NEW e \in Datasets, Owes(p, e)', Owes(q, e)',
                     Key(p, e)' = Key(q, e)'
              PROVE  FALSE
            <4>1. Owes(q, e) /\ Key(p, e) = Key(q, e) /\ (e = d \/ Owes(p, e))
                BY <2>7, <2>14, <2>17, <3>1
            <4> QED
                BY <2>2, <2>18, <3>1, <4>1 DEF HoldoutInv, OneOwner
        <3>2. ASSUME NEW q \in Procs, NEW r \in Procs, q # p, r # p, NEW e \in Datasets,
                     Owes(q, e)', Owes(r, e)', Key(q, e)' = Key(r, e)'
              PROVE  q = r
            BY <2>17, <3>2 DEF HoldoutInv, OneOwner
        <3> QED
            BY <3>1, <3>2 DEF OneOwner
    <2>20. HoldoutTypeOK'
        BY <2>7, <2>8 DEF HoldoutTypeOK, ProcTypes, FileTypes
    <2>21. \A q \in Procs : AtWork(q)' /\ Relies(q)'
        BY <2>15, <2>16, <2>17
    <2> QED
        BY <2>12, <2>13, <2>19, <2>20, <2>21 DEF HoldoutInv
<1> QED
    BY <1>3, <1>4

\* The look: the key of every dataset of the pool is owed to this process and to no
\* other.
LEMMA LookKeeps ==
    ASSUME HoldoutInv, NEW p \in Procs, Look(p)
    PROVE  HoldoutInv'
<1>1. /\ at[p] = "look" /\ UNCHANGED <<segment, claims, unstamped, outcomes>>
      /\ UNCHANGED <<subject, over, start, version, deployed, researched, overlapped>>
      /\ Goto(p, "record") /\ todo' = [todo EXCEPT ![p] = over[p]]
    BY DEF Look, fileVars
<1>2. /\ AtWork(p) /\ Relies(p) /\ ProcTypes /\ FileTypes
      /\ subject[p] \in Strategies /\ (~overlapped => version[p] = deployed)
      /\ over[p] # {} /\ over[p] \subseteq Datasets
    BY <1>1, OwnFacts
<1>3. \A d \in over[p] : Owes(p, d) /\ Key(p, d) \in claims /\ looks[Key(p, d)] = 0
    <2>1. \A d \in over[p] : Owes(p, d)
        BY <1>1, <1>2 DEF AtWork, Owes
    <2> QED
        BY <1>2, <2>1 DEF Relies
<1>4. PICK own : own = {Key(p, d) : d \in over[p]}
    OBVIOUS
<1>5. looks' = [k \in Keys |-> IF k \in own THEN looks[k] + 1 ELSE looks[k]]
    BY <1>4 DEF Look
<1>6. /\ own \subseteq claims /\ own \subseteq Keys
      /\ \A k \in own : looks'[k] = 1
      /\ \A k \in Keys : k \notin own => looks'[k] = looks[k]
    <2>1. own \subseteq claims /\ own \subseteq Keys /\ \A k \in own : looks[k] = 0
        BY <1>2, <1>3, <1>4 DEF FileTypes
    <2>2. \A k \in own : looks'[k] = looks[k] + 1
        BY <1>5, <2>1
    <2>3. \A k \in own : looks'[k] = 1
        BY <2>1, <2>2
    <2> QED
        BY <1>5, <2>1, <2>3
<1>7. FileTypes'
    <2>1. looks' \in [Keys -> Nat]
        BY <1>2, <1>5 DEF FileTypes
    <2> QED
        BY <1>1, <1>2, <2>1 DEF FileTypes
<1>8. "record" \in Places /\ over[p] \in SUBSET Datasets
    BY <1>2 DEF Places
<1>9. /\ ProcTypes' /\ MovesOnly(p) /\ at'[p] = "record" /\ todo'[p] = over[p]
      /\ \A d \in Datasets : Key(p, d)' = Key(p, d)
    <2>1. PICK t \in SUBSET Datasets : t = over[p]
        BY <1>8
    <2>2. /\ UNCHANGED <<subject, over, start, version, deployed, overlapped>>
          /\ Goto(p, "record") /\ todo' = [todo EXCEPT ![p] = t]
        BY <1>1, <2>1
    <2>3. ProcTypes' /\ MovesOnly(p) /\ at'[p] = "record" /\ todo'[p] = t
        BY <1>2, <1>8, <2>2, GotoFacts
    <2> QED
        BY <2>1, <2>2, <2>3 DEF Key
<1>10. SegmentInv' /\ OneVersion'
    BY <1>1 DEF HoldoutInv, SegmentInv, OneVersion
<1>11. \A k \in Keys : looks'[k] = looks[k] \/ (looks'[k] = 1 /\ k \in claims)
    BY <1>6
<1>12. LookInv'
    <2>1. \A k \in Keys : looks'[k] <= 1 /\ (looks'[k] > 0 => k \in claims)
        <3>1. \A k \in Keys : looks[k] <= 1 /\ (looks[k] > 0 => k \in claims)
            BY DEF HoldoutInv, LookInv
        <3>2. 1 <= 1
            OBVIOUS
        <3> QED
            BY <1>11, <3>1, <3>2
    <2>2. \A c \in outcomes : looks'[c] > 0
        <3>1. \A c \in outcomes : c \in Keys /\ looks[c] > 0
            BY <1>2 DEF HoldoutInv, LookInv, FileTypes
        <3>2. 1 > 0
            OBVIOUS
        <3> QED
            BY <1>11, <3>1, <3>2
    <2> QED
        BY <1>1, <2>1, <2>2 DEF LookInv
<1>13. AtWork(p)' /\ Relies(p)' /\ \A d \in Datasets : ~Owes(p, d)'
    <2>1. AtWork(p)'
        BY <1>1, <1>2, <1>9 DEF AtWork, Claiming
    <2>2. \A d \in over[p] : looks'[Key(p, d)] > 0
        <3>1. \A d \in over[p] : Key(p, d) \in own
            BY <1>4
        <3>2. 1 > 0
            OBVIOUS
        <3> QED
            BY <1>6, <3>1, <3>2
    <2>3. \A d \in Datasets : ~Owes(p, d)'
        BY <1>9 DEF Owes
    <2>4. \A d \in over'[p] : segment'[d] # NoSegment /\ Key(p, d)' \in claims' /\ looks'[Key(p, d)'] > 0
        BY <1>1, <1>2, <1>3, <1>9, <2>2 DEF Relies, Opened
    <2> QED
        BY <1>9, <2>1, <2>3, <2>4 DEF Relies
<1>14. ASSUME NEW q \in Procs, q # p
       PROVE  /\ AtWork(q)' /\ Relies(q)'
              /\ \A d \in Datasets : Key(q, d)' = Key(q, d) /\ (Owes(q, d)' <=> Owes(q, d))
    <2>1. /\ at'[q] = at[q] /\ subject'[q] = subject[q] /\ over'[q] = over[q]
          /\ start'[q] = start[q] /\ todo'[q] = todo[q] /\ version'[q] = version[q]
        BY <1>9, <1>14 DEF MovesOnly
    <2>2. AtWork(q) /\ Relies(q) /\ over[q] \subseteq Datasets
        BY DEF HoldoutInv, HoldoutTypeOK
    <2>3. AtWork(q)'
        BY <1>1, <2>1, <2>2 DEF AtWork
    <2>4. \A d \in Datasets : Key(q, d)' = Key(q, d) /\ (Owes(q, d)' <=> Owes(q, d))
        BY <2>1 DEF Key, Owes
    <2>5. ASSUME NEW d \in Datasets, Owes(q, d)
          PROVE  Key(q, d) \in claims /\ looks'[Key(q, d)] = 0
        <3>1. Key(q, d) \in claims /\ looks[Key(q, d)] = 0 /\ Key(q, d) \in Keys
            BY <1>2, <2>2, <2>5 DEF Relies, FileTypes
        <3>2. Key(q, d) \notin own
            <4>1. \A e \in over[p] : Key(p, e) = Key(q, d) => e = d
                BY DEF Key
            <4> QED
                BY <1>2, <1>3, <1>4, <1>14, <2>5, <4>1 DEF HoldoutInv, OneOwner
        <3> QED
            BY <1>6, <3>1, <3>2
    <2>6. ASSUME at[q] = "record", NEW d \in over[q]
          PROVE  Key(q, d) \in claims /\ looks'[Key(q, d)] > 0
        <3>1. Key(q, d) \in claims /\ looks[Key(q, d)] > 0 /\ Key(q, d) \in Keys
            BY <1>2, <2>2, <2>6 DEF Relies, FileTypes
        <3>2. 1 > 0
            OBVIOUS
        <3> QED
            BY <1>11, <3>1, <3>2
    <2>7. Relies(q)'
        <3>1. \A d \in Datasets : Owes(q, d)' => Key(q, d)' \in claims' /\ looks'[Key(q, d)'] = 0
            BY <1>1, <2>1, <2>4, <2>5
        <3>2. at'[q] = "record" =>
                 \A d \in over'[q] : Key(q, d)' \in claims' /\ looks'[Key(q, d)'] > 0
            BY <1>1, <2>1, <2>2, <2>4, <2>6
        <3> QED
            BY <1>1, <2>1, <2>2, <3>1, <3>2 DEF Relies
    <2> QED
        BY <2>1, <2>3, <2>4, <2>7
<1>15. OneOwner'
    BY <1>13, <1>14 DEF HoldoutInv, OneOwner
<1>16. HoldoutTypeOK'
    BY <1>7, <1>9 DEF HoldoutTypeOK, ProcTypes, FileTypes
<1>17. \A q \in Procs : AtWork(q)' /\ Relies(q)'
    BY <1>13, <1>14
<1> QED
    BY <1>10, <1>12, <1>15, <1>16, <1>17 DEF HoldoutInv

\* record_outcome(): of a look that took place.
LEMMA RecordKeeps ==
    ASSUME HoldoutInv, NEW p \in Procs, RecordOutcome(p)
    PROVE  HoldoutInv'
<1>1. /\ at[p] = "record" /\ UNCHANGED <<segment, claims, unstamped>>
      /\ UNCHANGED <<version, deployed, researched, looks, overlapped>>
    BY DEF RecordOutcome
<1>2. /\ AtWork(p) /\ Relies(p) /\ ProcTypes /\ FileTypes
      /\ subject[p] \in Strategies /\ (~overlapped => version[p] = deployed)
      /\ over[p] # {} /\ over[p] \subseteq Datasets /\ todo[p] \subseteq over[p]
      /\ Least(todo[p]) \in todo[p]
    BY <1>1, OwnFacts DEF Claiming
<1>3. PICK d \in todo[p] : d = Least(todo[p])
    BY <1>2
<1>4. Key(p, d) \in claims /\ looks[Key(p, d)] > 0
    BY <1>1, <1>2 DEF Relies
<1>5. outcomes' \in {outcomes, outcomes \cup {Key(p, d)}}
    BY <1>3 DEF RecordOutcome
<1>6. FileTypes'
    BY <1>1, <1>2, <1>4, <1>5 DEF FileTypes
<1>7. SegmentInv'
    BY <1>1 DEF HoldoutInv, SegmentInv
<1>8. LookInv'
    <2>2. \A c \in outcomes' : looks[c] > 0
        BY <1>4, <1>5 DEF HoldoutInv, LookInv
    <2> QED
        BY <1>1, <2>2 DEF HoldoutInv, LookInv
<1>9. CASE Idle(p)
    <2>1. /\ ProcTypes' /\ MovesOnly(p) /\ AtWork(p)' /\ Relies(p)'
          /\ \A e \in Datasets : ~Owes(p, e)'
        BY <1>1, <1>2, <1>9, IdleFacts
    <2> QED
        BY <1>1, <1>6, <1>7, <1>8, <2>1, LocalStep
<1>10. CASE ~Idle(p)
    <2>1. /\ todo[p] # {d} /\ todo' = [todo EXCEPT ![p] = @ \ {d}]
          /\ UNCHANGED <<at, subject, over, start>>
        BY <1>3, <1>10 DEF RecordOutcome
    <2>2. /\ todo[p] \ {d} \in SUBSET Datasets /\ "record" \in Places
          /\ todo' = [todo EXCEPT ![p] = todo[p] \ {d}] /\ Goto(p, "record")
        BY <1>1, <1>2, <2>1 DEF Places, ProcTypes, Goto
    <2>3. /\ ProcTypes' /\ MovesOnly(p) /\ at'[p] = "record" /\ todo'[p] = todo[p] \ {d}
          /\ \A e \in Datasets : Key(p, e)' = Key(p, e)
        BY <1>1, <1>2, <2>1, <2>2, GotoFacts
    <2>4. AtWork(p)'
        BY <1>1, <1>2, <1>3, <2>1, <2>3 DEF AtWork, Claiming
    <2>5. Relies(p)' /\ \A e \in Datasets : ~Owes(p, e)'
        BY <1>1, <1>2, <2>1, <2>3 DEF Relies, Owes, Opened
    <2> QED
        BY <1>1, <1>6, <1>7, <1>8, <2>3, <2>4, <2>5, LocalStep
<1> QED
    BY <1>9, <1>10

\* Restating versions touches no key; an upgrade leaves old versions at work only if
\* deployments overlap.
LEMMA GlobalKeeps ==
    ASSUME HoldoutInv, Restate \/ Upgrade
    PROVE  HoldoutInv'
<1>1. /\ UNCHANGED <<segment, claims, outcomes, researched, looks>>
      /\ UNCHANGED <<at, subject, over, start, todo, version>>
      /\ unstamped' \in {unstamped, {}}
    BY DEF Restate, Upgrade, fileVars, procVars
<1>2. /\ overlapped' => overlapped \/ deployed' # deployed
      /\ ~overlapped' => ~overlapped /\ (deployed' = deployed \/ \A p \in Procs : at[p] = "idle")
      /\ overlapped' \in BOOLEAN
    <2>1. overlapped \in BOOLEAN /\ deployed \in Int
        BY DEF HoldoutInv, HoldoutTypeOK
    <2>2. CASE Restate
        BY <2>1, <2>2 DEF Restate
    <2>3. CASE Upgrade
        <3>1. deployed' # deployed
            BY <2>1, <2>3 DEF Upgrade
        <3>3. overlapped' <=> overlapped \/ \E p \in Procs : at[p] # "idle"
            BY <2>3, Zenon DEF Upgrade
        <3>2. overlapped' \in BOOLEAN
            BY <2>3, Zenon DEF Upgrade
        <3> QED
            BY <3>1, <3>2, <3>3
    <2> QED
        BY <2>2, <2>3
<1>3. deployed' \in 1..MaxVersion
    BY HoldoutAssumption DEF Restate, Upgrade, HoldoutInv, HoldoutTypeOK
<1>4. HoldoutTypeOK'
    BY <1>1, <1>2, <1>3 DEF HoldoutInv, HoldoutTypeOK
<1>5. \A p \in Procs : /\ AtWork(p)'
                       /\ \A d \in Datasets : Owes(p, d)' <=> Owes(p, d)
                       /\ \A d \in Datasets : Key(p, d)' = Key(p, d)
    BY <1>1, <1>2 DEF HoldoutInv, AtWork, Owes, Key
<1>6. \A p \in Procs : Relies(p)'
    <2> SUFFICES ASSUME NEW p \in Procs PROVE Relies(p)'
        OBVIOUS
    <2>1. Relies(p) /\ over[p] \subseteq Datasets
        BY DEF HoldoutInv, HoldoutTypeOK
    <2> QED
        BY <1>1, <1>2, <1>5, <2>1 DEF Relies
<1>7. OneOwner' /\ SegmentInv' /\ OneVersion' /\ LookInv'
    BY <1>1, <1>2, <1>5 DEF HoldoutInv, OneOwner, SegmentInv, OneVersion, LookInv
<1> QED
    BY <1>4, <1>5, <1>6, <1>7 DEF HoldoutInv

\* A claim in the file from the start is a look already spent.
LEMMA HoldoutInitInv == HoldoutInit => HoldoutInv
<1> SUFFICES ASSUME HoldoutInit PROVE HoldoutInv
    OBVIOUS
<1>1. /\ claims = {} \/ \E d \in Datasets, s \in Strategies : claims = {<<d, s, 1>>}
      /\ unstamped = claims /\ outcomes = {} /\ 1 \in 1..MaxVersion
    BY HoldoutAssumption DEF HoldoutInit
<1>2. \A k \in Keys : looks[k] = IF k \in claims THEN 1 ELSE 0
    BY DEF HoldoutInit
<1>3. ProcTypes
    BY <1>1 DEF HoldoutInit, ProcTypes, Places
<1>4. FileTypes
    <2>1. claims \subseteq Keys
        BY <1>1 DEF Keys
    <2>2. looks \in [Keys -> Nat]
        BY DEF HoldoutInit
    <2> QED
        BY <1>1, <2>1, <2>2 DEF HoldoutInit, FileTypes
<1>5. \A p \in Procs : at[p] = "idle" /\ todo[p] = {} /\ over[p] = {}
    BY DEF HoldoutInit
<1>6. \A p \in Procs : AtWork(p) /\ Relies(p) /\ \A d \in Datasets : ~Owes(p, d)
    BY <1>5 DEF AtWork, Relies, Owes, Claiming, Opened
<1>7. OneOwner /\ SegmentInv
    BY <1>6 DEF OneOwner, SegmentInv, HoldoutInit
<1>8. OneVersion
    BY <1>1 DEF OneVersion
<1>9. LookInv
    <2>1. 1 <= 1 /\ 0 <= 1 /\ ~(0 > 0)
        OBVIOUS
    <2> QED
        BY <1>1, <1>2, <2>1 DEF LookInv
<1>10. HoldoutTypeOK
    BY <1>3, <1>4 DEF HoldoutTypeOK, ProcTypes, FileTypes
<1> QED
    BY <1>6, <1>7, <1>8, <1>9, <1>10 DEF HoldoutInv

LEMMA HoldoutStep ==
    ASSUME HoldoutInv, [HoldoutNext]_holdoutVars
    PROVE  HoldoutInv'
<1>1. CASE UNCHANGED holdoutVars
    BY <1>1 DEF holdoutVars, fileVars, procVars, HoldoutInv, HoldoutTypeOK, AtWork, Relies,
       Owes, Key, OneOwner, SegmentInv, OneVersion, LookInv
<1>2. ASSUME NEW p \in Procs, Crash(p) PROVE HoldoutInv'
    BY <1>2, IdleKeeps DEF Crash, fileVars, FileStays
<1>3. CASE HoldoutNext
    BY <1>2, <1>3, BeginKeeps, OpenKeeps, InsertKeeps, ResearchKeeps, ReadKeeps, CommitKeeps,
       LookKeeps, RecordKeeps, GlobalKeeps DEF HoldoutNext
<1> QED
    BY <1>1, <1>3

LEMMA HoldoutInvariant == HoldoutSpec => []HoldoutInv
BY HoldoutInitInv, HoldoutStep, PTL DEF HoldoutSpec

\* The registry and the validating processes keep their types; every outcome on
\* record belongs to a claim.
THEOREM HoldoutTypeCorrect == HoldoutSpec => []HoldoutTypeOK
<1>1. HoldoutInv => HoldoutTypeOK
    BY DEF HoldoutInv
<1> QED
    BY HoldoutInvariant, <1>1, PTL

\* Unless deployments overlap, no strategy looks twice at the holdout of a dataset:
\* alone or in pools, across versions of its key, and although claim() is three
\* transactions.
THEOREM OneLookCorrect == HoldoutSpec => []OneLook
<1>1. ASSUME HoldoutInv, ~overlapped, NEW k \in Keys, NEW m \in Keys,
             k[1] = m[1], k[2] = m[2], looks[k] > 0, looks[m] > 0
      PROVE  k = m
    <2>1. k \in claims /\ m \in claims
        BY <1>1 DEF HoldoutInv, LookInv
    <2>2. k[3] = m[3]
        BY <1>1, <2>1 DEF HoldoutInv, OneVersion
    <2> QED
        BY <1>1, <2>2 DEF Keys
<1>2. HoldoutInv => OneLook
    BY <1>1 DEF OneLook
<1> QED
    BY HoldoutInvariant, <1>2, PTL

\* No rung before the holdout reads a bar of it, of any constituent of a pool.
THEOREM NoLeakCorrect == HoldoutSpec => []NoLeak
<1>1. HoldoutInv => NoLeak
    BY DEF HoldoutInv, SegmentInv, NoLeak
<1> QED
    BY HoldoutInvariant, <1>1, PTL

\* With any mix of versions and whatever crashed: a key looks at most once and only
\* if it is claimed, and every outcome is of a look.
THEOREM LooksPaidCorrect == HoldoutSpec => []LooksPaid
<1>1. ASSUME HoldoutInv, NEW k \in Keys
      PROVE  /\ looks[k] <= IF k \in claims THEN 1 ELSE 0
             /\ k \in outcomes => looks[k] > 0
    <2>1. looks[k] \in Nat /\ looks[k] <= 1 /\ (looks[k] > 0 => k \in claims)
        BY <1>1 DEF HoldoutInv, HoldoutTypeOK, LookInv
    <2>2. k \in outcomes => looks[k] > 0
        BY <1>1 DEF HoldoutInv, LookInv
    <2> QED
        BY <2>1, <2>2
<1>2. HoldoutInv => LooksPaid
    BY <1>1 DEF LooksPaid
<1> QED
    BY HoldoutInvariant, <1>2, PTL
=============================================================================
