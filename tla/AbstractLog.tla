---------------------------- MODULE AbstractLog ----------------------------
(***************************************************************************)
(* What src/fiboki/core/durable.py promises the ledgers built on it (the   *)
(* intent store, the kill-switch journal, the audit and alert files): an   *)
(* append-only sequence of records in the order they were appended, read   *)
(* whole; a record whose append returned is there for good; a record whose *)
(* append failed or was interrupted may be there or not, and only such a   *)
(* record can be lost by a power cut.                                      *)
(***************************************************************************)
EXTENDS Integers, Sequences

CONSTANTS
    Readers,
    Records     \* numbers, in the order of the appends

VARIABLES
    log,        \* the records a reader would be given
    acked,      \* the records whose durable_append returned
    view        \* what each reader was last given

absVars == <<log, acked, view>>

Holds(s, r) == \E i \in DOMAIN s : s[i] = r

AbsInit ==
    /\ log = <<>>
    /\ acked = {}
    /\ view = [p \in Readers |-> <<>>]

\* Appends do not overtake one another.
Commit(r) ==
    /\ \A i \in DOMAIN log : log[i] < r
    /\ log' = Append(log, r)
    /\ UNCHANGED <<acked, view>>

Acknowledge(r) ==
    /\ Holds(log, r)
    /\ acked' = acked \cup {r}
    /\ UNCHANGED <<log, view>>

ReadAll(p) ==
    /\ view' = [view EXCEPT ![p] = log]
    /\ UNCHANGED <<log, acked>>

\* A power cut: what was acknowledged stays.
Lose(n) ==
    /\ log' = SubSeq(log, 1, n)
    /\ \A r \in acked : Holds(log', r)
    /\ UNCHANGED <<acked, view>>

AbsNext ==
    \/ \E r \in Records : Commit(r) \/ Acknowledge(r)
    \/ \E p \in Readers : ReadAll(p)
    \/ \E n \in 0..Len(log) : Lose(n)

AbsSpec == AbsInit /\ [][AbsNext]_absVars
=============================================================================
