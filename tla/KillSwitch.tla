----------------------------- MODULE KillSwitch -----------------------------
(***************************************************************************)
(* The operator kill switch of src/fiboki/risk/killswitch.py: one          *)
(* append-only journal shared by every process, and in each process a      *)
(* KillSwitch object that caches the replayed state together with the      *)
(* fingerprint (a stat) of the journal it was replayed from.               *)
(*                                                                         *)
(* Every read of the file is a step of its own: the stat and the replay of *)
(* refresh(), the check, the append, the replay and the stat of _append(). *)
(* The file only grows, so its fingerprint is its length.  An event says   *)
(* the whole state ("pause", "flatten", or "off" for a deactivation), so   *)
(* replaying a prefix yields its last event.                               *)
(***************************************************************************)
EXTENDS Integers, Sequences

CONSTANTS
    Gateways,   \* processes whose RiskGateway asks allows() and never appends
    Operators,  \* the API server and CLI runs: they append, and ask as well
    MaxEvents   \* bound: length of the journal

ASSUME KillAssumption ==
    /\ Gateways \cap Operators = {}
    /\ MaxEvents \in Nat

VARIABLES
    journal,    \* the events on disk
    cache,      \* _state of each process
    fp,         \* _fingerprint of each process
    pc,
    call        \* the call in progress: what is wanted, the fingerprint refresh()
                \* read, the verdict; and, as history, the journal's length when
                \* the call began

killVars == <<journal, cache, fp, pc, call>>

Procs == Gateways \cup Operators

Modes == {"off", "pause", "flatten"}

\* RequestKind, up to what allows() tells apart.
Kinds == {"open", "amend", "close"}
Requests(p) == IF p \in Operators THEN Kinds \cup Modes ELSE Kinds

\* The state a journal of length n replays to.
StateAt(n) == IF n = 0 THEN "off" ELSE journal[n]
Replayed == StateAt(Len(journal))

NoCall == [want |-> "open", base |-> 0, seen |-> 0, verdict |-> FALSE]

KillInit ==
    /\ journal = <<>>
    /\ cache = [p \in Procs |-> "off"]
    /\ fp = [p \in Procs |-> 0]
    /\ pc = [p \in Procs |-> "idle"]
    /\ call = [p \in Procs |-> NoCall]

Goto(p, place) == pc' = [pc EXCEPT ![p] = place]

Return(p) == Goto(p, "idle") /\ call' = [call EXCEPT ![p] = NoCall]

-----------------------------------------------------------------------------
\* allows(), activate(mode) or deactivate() is called.
Begin(p, w) ==
    /\ pc[p] = "idle"
    /\ call' = [call EXCEPT ![p] = [want |-> w, base |-> Len(journal),
                                    seen |-> 0, verdict |-> FALSE]]
    /\ Goto(p, "stat")
    /\ UNCHANGED <<journal, cache, fp>>

\* Mutant: the journal is replayed once, in __init__.
MutNeverMoved(p) == FALSE

\* refresh(): replay only if the file moved.
Moved(p) == Len(journal) # fp[p]

Stat(p) ==
    /\ pc[p] = "stat"
    /\ call' = [call EXCEPT ![p].seen = Len(journal)]
    /\ Goto(p, IF Moved(p) THEN "replay" ELSE "act")
    /\ UNCHANGED <<journal, cache, fp>>

Replay(p) ==
    /\ pc[p] = "replay"
    /\ cache' = [cache EXCEPT ![p] = Replayed]
    /\ fp' = [fp EXCEPT ![p] = call[p].seen]
    /\ Goto(p, "act")
    /\ UNCHANGED <<journal, call>>

\* allows() on the cached state.
Allows(state, kind) ==
    \/ state = "off"
    \/ state = "pause" /\ kind # "open"
    \/ state = "flatten" /\ kind = "close"

Decide(p) ==
    /\ pc[p] = "act"
    /\ call[p].want \in Kinds
    /\ call' = [call EXCEPT ![p].verdict = Allows(cache[p], call[p].want)]
    /\ Goto(p, "decided")
    /\ UNCHANGED <<journal, cache, fp>>

Done(p) ==
    /\ pc[p] = "decided"
    /\ Return(p)
    /\ UNCHANGED <<journal, cache, fp>>

\* activate() does not soften FLATTEN to PAUSE; deactivate() needs an active switch.
Refused(p) ==
    \/ call[p].want = "pause" /\ cache[p] = "flatten"
    \/ call[p].want = "off" /\ cache[p] = "off"

Refuse(p) ==
    /\ pc[p] = "act"
    /\ Refused(p)
    /\ Return(p)
    /\ UNCHANGED <<journal, cache, fp>>

\* Mutant: an append that does not check what it was asked.
MutAppendAnything(p) ==
    /\ pc[p] = "act"
    /\ Len(journal) < MaxEvents
    /\ journal' = Append(journal, call[p].want)
    /\ Goto(p, "appended")
    /\ UNCHANGED <<cache, fp, call>>

\* _append(): the locked, flushed append; then the replay; then the stat.
AppendEvent(p) ==
    /\ pc[p] = "act"
    /\ call[p].want \in Modes
    /\ ~Refused(p)
    /\ Len(journal) < MaxEvents
    /\ journal' = Append(journal, call[p].want)
    /\ Goto(p, "appended")
    /\ UNCHANGED <<cache, fp, call>>

ReplayOwn(p) ==
    /\ pc[p] = "appended"
    /\ cache' = [cache EXCEPT ![p] = Replayed]
    /\ Goto(p, "restat")
    /\ UNCHANGED <<journal, fp, call>>

StatOwn(p) ==
    /\ pc[p] = "restat"
    /\ fp' = [fp EXCEPT ![p] = Len(journal)]
    /\ Return(p)
    /\ UNCHANGED <<journal, cache>>

\* The process dies wherever it is and its successor (the next CLI run, a
\* restarted worker) enters __init__: fingerprint first, then replay.
Restart(p) ==
    /\ fp' = [fp EXCEPT ![p] = Len(journal)]
    /\ Goto(p, "boot")
    /\ call' = [call EXCEPT ![p] = NoCall]
    /\ UNCHANGED <<journal, cache>>

Boot(p) ==
    /\ pc[p] = "boot"
    /\ cache' = [cache EXCEPT ![p] = Replayed]
    /\ Goto(p, "idle")
    /\ UNCHANGED <<journal, fp, call>>

KillNext ==
    \E p \in Procs :
        \/ \E w \in Requests(p) : Begin(p, w)
        \/ Stat(p) \/ Replay(p) \/ Decide(p) \/ Done(p) \/ Refuse(p)
        \/ AppendEvent(p) \/ ReplayOwn(p) \/ StatOwn(p)
        \/ Restart(p) \/ Boot(p)

KillSpec == KillInit /\ [][KillNext]_killVars

-----------------------------------------------------------------------------
(* Properties *)

Places == {"idle", "stat", "replay", "act", "decided", "appended", "restat", "boot"}

KillTypeOK ==
    /\ journal \in Seq(Modes)
    /\ cache \in [Procs -> Modes]
    /\ fp \in [Procs -> Nat]
    /\ pc \in [Procs -> Places]
    /\ call \in [Procs -> [want : Kinds \cup Modes, base : Nat, seen : Nat,
                           verdict : BOOLEAN]]
    /\ \A p \in Gateways : call[p].want \in Kinds

\* The verdict of p is the one the journal called for at some moment since the
\* request began.
Fresh(p) ==
    pc[p] = "decided" =>
        \E n \in call[p].base..Len(journal) :
            call[p].verdict = Allows(StateAt(n), call[p].want)

\* "An activation from another process binds this one's very next decision":
\* no gateway answers a request from a state that was superseded before the
\* request came in, through any race of its reads with appends and restarts.
HaltBindsGateways == \A p \in Gateways : Fresh(p)

\* The same promise for the processes that also append ("the same file for the
\* CLI, the API and every worker").
HaltBindsOperators == \A p \in Operators : Fresh(p)
=============================================================================
