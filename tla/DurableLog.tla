---------------------------- MODULE DurableLog ----------------------------
(***************************************************************************)
(* The append-only ledgers of src/fiboki/core/durable.py: durable_append   *)
(* under an exclusive flock, the quarantine of a torn tail, read_payloads  *)
(* with its first look outside the lock, over a file that a crash, a       *)
(* failed write or a power cut leaves torn.                                *)
(*                                                                         *)
(* The file is its verifiable records and what follows them ("tail"):      *)
(*   "clean"  nothing                                                      *)
(*   "mine"   a part of the record its writer is writing                   *)
(*   "junk"   bytes without a newline that nobody will complete            *)
(*   "bad"    a terminated last line that fails verification               *)
(* "corrupt" says that a line fails verification and is not the last one:  *)
(* _scan raises DurableLogCorrupt, and no later append changes that.  A    *)
(* record is the number of its append.  The file exists; a record is       *)
(* shorter than the 64 KiB window of _tail_is_clean.                       *)
(***************************************************************************)
EXTENDS Integers, Sequences

CONSTANTS
    Procs,              \* processes that append to the file and read it
    QuarantineFails,    \* may _quarantine meet an OSError
    MaxAppends          \* bound: appends explored

ASSUME LogAssumption ==
    /\ QuarantineFails \in BOOLEAN
    /\ MaxAppends \in Nat

VARIABLES
    lines,      \* the records that verify
    tail,
    corrupt,
    durable,    \* how many of the lines are on stable storage
    pc,         \* where each process is
    calls,      \* appends begun; the newest is the one in progress
    acked,      \* history: the appends that returned
    view        \* history: what read_payloads returned last

fileVars == <<lines, tail, corrupt, durable>>
logVars == <<fileVars, pc, calls, acked, view>>

Tails == {"clean", "mine", "junk", "bad"}
Writing == {"write", "rest", "sync"}

LogInit ==
    /\ lines = <<>>
    /\ tail = "clean"
    /\ corrupt = FALSE
    /\ durable = 0
    /\ pc = [p \in Procs |-> "idle"]
    /\ calls = 0
    /\ acked = {}
    /\ view = [p \in Procs |-> <<>>]

Goto(p, place) == pc' = [pc EXCEPT ![p] = place]

\* Mutant: writers and quarantining readers take no lock.
MutNoLock == TRUE

\* _locked(): an exclusive flock, held from the check of the tail to the fsync.
LockFree == \A p \in Procs : pc[p] \notin Writing

\* Mutant: good_len is the start of the last good record, not its end.
MutCutTooFar ==
    /\ tail' = "clean"
    /\ lines' = SubSeq(lines, 1, Len(lines) - 1)
    /\ durable' = Len(lines)
    /\ UNCHANGED corrupt

\* _quarantine(): the torn bytes are copied and the file is cut back and flushed,
\* or an OSError is logged and the ledger is left as it was.
Quarantine ==
    \/ /\ tail' = "clean"
       /\ durable' = Len(lines)
       /\ UNCHANGED <<lines, corrupt>>
    \/ /\ QuarantineFails
       /\ UNCHANGED fileVars

-----------------------------------------------------------------------------
(* durable_append *)

\* Mutant: the tail is not looked at before the append.
MutAppendBlindly(p) ==
    /\ pc[p] = "idle"
    /\ LockFree
    /\ calls < MaxAppends
    /\ calls' = calls + 1
    /\ UNCHANGED fileVars
    /\ Goto(p, "write")
    /\ UNCHANGED <<acked, view>>

\* Lock, then _tail_is_clean; a torn tail is quarantined first.  A corrupt file is
\* noticed only behind a tail that is not clean, and the append then raises.
BeginAppend(p) ==
    /\ pc[p] = "idle"
    /\ LockFree
    /\ calls < MaxAppends
    /\ calls' = calls + 1
    /\ \/ tail = "clean" /\ UNCHANGED fileVars /\ Goto(p, "write")
       \/ tail # "clean" /\ ~corrupt /\ Quarantine /\ Goto(p, "write")
       \/ tail # "clean" /\ corrupt /\ UNCHANGED <<fileVars, pc>>
    /\ UNCHANGED <<acked, view>>

\* os.write() has put a part of the line into the file.
WritePart(p) ==
    /\ pc[p] = "write"
    /\ tail' = IF tail = "junk" THEN "junk" ELSE "mine"
    /\ corrupt' = (corrupt \/ tail = "bad")
    /\ Goto(p, "rest")
    /\ UNCHANGED <<lines, durable, calls, acked, view>>

\* The rest of it: a record of its own, or one glued to leftover bytes.
WriteRest(p) ==
    /\ pc[p] = "rest"
    /\ IF tail = "mine"
       THEN tail' = "clean" /\ lines' = Append(lines, calls)
       ELSE tail' = "bad" /\ UNCHANGED lines
    /\ Goto(p, "sync")
    /\ UNCHANGED <<corrupt, durable, calls, acked, view>>

\* Mutant: the append returns without its fsync.
MutNoSync(p) ==
    /\ pc[p] = "sync"
    /\ acked' = acked \cup {calls}
    /\ Goto(p, "idle")
    /\ UNCHANGED <<fileVars, calls, view>>

\* full_fsync, unlock, return.
Sync(p) ==
    /\ pc[p] = "sync"
    /\ durable' = Len(lines)
    /\ acked' = acked \cup {calls}
    /\ Goto(p, "idle")
    /\ UNCHANGED <<lines, tail, corrupt, calls, view>>

\* The writer is gone, by an OSError from write or fsync or killed: the lock is
\* released by the kernel, and a part of a line stays a part.
AbandonAppend(p) ==
    /\ pc[p] \in Writing
    /\ tail' = IF tail = "mine" THEN "junk" ELSE tail
    /\ Goto(p, "idle")
    /\ UNCHANGED <<lines, corrupt, durable, calls, acked, view>>

-----------------------------------------------------------------------------
(* read_payloads *)

\* The look outside the lock.  With quarantine=False, or if the tail is clean,
\* the scan is the answer; otherwise it is the answer if the lock cannot be had.
\* On a corrupt file it raises, and the caller gets nothing.
ReadUnlocked(p) ==
    /\ pc[p] = "idle"
    /\ ~corrupt
    /\ view' = [view EXCEPT ![p] = lines]
    /\ \/ Goto(p, "idle")
       \/ tail # "clean" /\ Goto(p, "torn")
    /\ UNCHANGED <<fileVars, calls, acked>>

\* Mutant: the tail is cut off on the strength of the look outside the lock.
MutCutUnlocked(p) ==
    /\ pc[p] = "torn"
    /\ lines' = view[p]
    /\ tail' = "clean"
    /\ durable' = Len(view[p])
    /\ Goto(p, "idle")
    /\ UNCHANGED <<corrupt, calls, acked, view>>

\* The second scan, under the writers' lock: what looked torn may be complete now.
ReadLocked(p) ==
    /\ pc[p] = "torn"
    /\ LockFree
    /\ Goto(p, "idle")
    /\ \/ tail = "clean" /\ UNCHANGED fileVars
       \/ tail # "clean" /\ ~corrupt /\ Quarantine
       \/ corrupt /\ UNCHANGED fileVars
    /\ view' = IF corrupt THEN view ELSE [view EXCEPT ![p] = lines]
    /\ UNCHANGED <<calls, acked>>

-----------------------------------------------------------------------------
\* Everything that was not flushed may be lost or torn; every process dies.
\* Bytes reach the disk in their order, the last line of them as it may.
PowerLoss ==
    /\ \E n \in durable..Len(lines), t \in Tails \ {"mine"} :
          /\ lines' = SubSeq(lines, 1, n)
          /\ t # "clean" => n < Len(lines) \/ tail # "clean"
          /\ tail' = t
          /\ durable' = n
    /\ pc' = [p \in Procs |-> "idle"]
    /\ UNCHANGED <<corrupt, calls, acked, view>>

LogNext ==
    \/ \E p \in Procs :
          \/ BeginAppend(p) \/ WritePart(p) \/ WriteRest(p) \/ Sync(p)
          \/ AbandonAppend(p)
          \/ ReadUnlocked(p) \/ ReadLocked(p)
    \/ PowerLoss

LogSpec == LogInit /\ [][LogNext]_logVars

-----------------------------------------------------------------------------
(* Properties *)

LogTypeOK ==
    /\ lines \in Seq(1..calls)
    /\ tail \in Tails
    /\ corrupt \in BOOLEAN
    /\ durable \in 0..Len(lines)
    /\ pc \in [Procs -> Writing \cup {"idle", "torn"}]
    /\ calls \in 0..MaxAppends
    /\ acked \subseteq 1..calls
    /\ view \in [Procs -> Seq(1..calls)]

\* DurableLogCorrupt: "A crash can only tear the last record."  So however
\* processes die, fail to write and lose power, no reader is ever refused.
NeverCorrupt == ~corrupt

\* The lock and the second scan keep writers and quarantining readers apart: a
\* quarantine never cuts into a record in progress, and one appender writes.
OneWriter ==
    /\ \A p, q \in Procs : pc[p] \in Writing /\ pc[q] \in Writing => p = q
    /\ \A p \in Procs : pc[p] = "rest" => tail = "mine"

\* A ledger built on this module is the abstract log: readers get whole records
\* in the order of their appends, and nothing that was acknowledged is lost.
AbsLog == INSTANCE AbstractLog WITH log <- lines, Readers <- Procs,
                                     Records <- 1..MaxAppends

ImplementsLog == AbsLog!AbsSpec

\* durable_append: "do not return until it is on stable storage"; so what it
\* returned for is among the records a reader gets.
AckedReadable == \A r \in acked : ~corrupt /\ AbsLog!Holds(lines, r)
=============================================================================
