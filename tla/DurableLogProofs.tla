-------------------------- MODULE DurableLogProofs --------------------------
(***************************************************************************)
(* DurableLog implements AbstractLog if a torn tail can always be put      *)
(* aside: for any processes and any number of appends, crashes, failed     *)
(* writes and power cuts.                                                  *)
(***************************************************************************)
EXTENDS DurableLog, TLAPS

\* Where a writer is says what the file ends with.
WriterKnows ==
    \A p \in Procs :
        /\ pc[p] \in Writing => calls > 0
        /\ pc[p] = "write" => tail = "clean"
        /\ pc[p] = "rest" => tail = "mine"
        /\ pc[p] = "sync" => tail = "clean" /\ Len(lines) > 0 /\ lines[Len(lines)] = calls
        /\ pc[p] \in {"write", "rest"} => \A i \in 1..Len(lines) : lines[i] < calls

\* A part of a line belongs to a writer who is still there.
PartOwned == tail = "mine" => \E p \in Procs : pc[p] = "rest"

\* What was acknowledged is on stable storage.
AckedDurable == \A r \in acked : \E i \in 1..durable : lines[i] = r

LogInv ==
    LogTypeOK /\ NeverCorrupt /\ OneWriter /\ WriterKnows /\ PartOwned /\ AckedDurable

\* An append leaves the records before it where they are.
LEMMA AppendAt ==
  ASSUME NEW n \in Nat, NEW s \in Seq(1..n), NEW e \in 1..n
  PROVE  /\ Append(s, e) \in Seq(1..n)
         /\ Len(Append(s, e)) = Len(s) + 1
         /\ \A i \in 1..Len(s) : Append(s, e)[i] = s[i]
         /\ Append(s, e)[Len(s) + 1] = e
  OBVIOUS

\* A prefix agrees with what it was cut from.
LEMMA PrefixAt ==
  ASSUME NEW n \in Nat, NEW s \in Seq(1..n), NEW k \in 0..Len(s)
  PROVE  /\ SubSeq(s, 1, k) \in Seq(1..n)
         /\ Len(SubSeq(s, 1, k)) = k
         /\ \A i \in 1..k : SubSeq(s, 1, k)[i] = s[i]
  OBVIOUS

\* A longer count of appends only widens the type of a sequence of records.
LEMMA SeqWider ==
  ASSUME NEW n \in Nat, NEW s \in Seq(1..n)
  PROVE  s \in Seq(1..(n + 1))
  OBVIOUS

-----------------------------------------------------------------------------
LEMMA LogInitInv == LogInit => LogInv
<1> SUFFICES ASSUME LogInit PROVE LogInv
  OBVIOUS
<1> USE DEF LogInit
<1>1. LogTypeOK
  <2>1. lines \in Seq(1..calls) /\ view \in [Procs -> Seq(1..calls)]
    OBVIOUS
  <2>2. durable \in 0..Len(lines) /\ calls \in 0..MaxAppends /\ acked \subseteq 1..calls
    BY LogAssumption
  <2> QED  BY <2>1, <2>2 DEF LogTypeOK, Writing, Tails
<1>2. NeverCorrupt /\ OneWriter /\ WriterKnows /\ PartOwned /\ AckedDurable
  BY DEF NeverCorrupt, OneWriter, WriterKnows, PartOwned, AckedDurable, Writing
<1> QED  BY <1>1, <1>2 DEF LogInv

\* A quarantine that cannot fail leaves the records and a clean tail.
LEMMA QuarantineCuts ==
  ASSUME ~QuarantineFails, LogTypeOK, Quarantine
  PROVE  tail' = "clean" /\ durable' = Len(lines) /\ UNCHANGED <<lines, corrupt>>
  BY DEF Quarantine

LEMMA BeginAppendInv ==
  ASSUME ~QuarantineFails, LogInv, NEW p \in Procs, BeginAppend(p)
  PROVE  LogInv'
<1> USE DEF LogInv, NeverCorrupt
<1>1. /\ pc[p] = "idle" /\ LockFree /\ calls < MaxAppends /\ calls' = calls + 1
      /\ pc' = [pc EXCEPT ![p] = "write"]
      /\ tail' = "clean" /\ durable' \in durable..Len(lines)
      /\ UNCHANGED <<lines, corrupt, acked, view>>
  BY QuarantineCuts DEF BeginAppend, Goto, fileVars, LogTypeOK
<1>2. LogTypeOK'
  <2>1. lines \in Seq(1..(calls + 1)) /\ view \in [Procs -> Seq(1..(calls + 1))]
    BY SeqWider DEF LogTypeOK
  <2>2. calls' \in 0..MaxAppends /\ durable' \in 0..Len(lines') /\ acked' \subseteq 1..calls'
    BY <1>1, LogAssumption DEF LogTypeOK
  <2>3. pc' \in [Procs -> Writing \cup {"idle", "torn"}]
    BY <1>1 DEF LogTypeOK, Writing
  <2> QED  BY <1>1, <2>1, <2>2, <2>3 DEF LogTypeOK, Tails
<1>3. OneWriter'
  BY <1>1 DEF OneWriter, LockFree, Writing, LogTypeOK
<1>4. WriterKnows'
  <2>1. \A i \in 1..Len(lines) : lines[i] < calls + 1
    BY DEF LogTypeOK
  <2> QED  BY <1>1, <2>1 DEF WriterKnows, LockFree, Writing, LogTypeOK
<1>5. AckedDurable'
  BY <1>1 DEF AckedDurable, LogTypeOK
<1> QED  BY <1>1, <1>2, <1>3, <1>4, <1>5 DEF PartOwned

LEMMA WritePartInv ==
  ASSUME LogInv, NEW p \in Procs, WritePart(p)
  PROVE  LogInv'
<1> USE DEF LogInv, NeverCorrupt, WritePart, Goto
<1>1. pc[p] = "write" /\ tail' = "mine" /\ ~corrupt'
  BY DEF WriterKnows
<1>2. LogTypeOK'
  BY <1>1 DEF LogTypeOK, Writing, Tails
<1>3. OneWriter' /\ PartOwned'
  BY <1>1 DEF OneWriter, PartOwned, Writing, LogTypeOK
<1>4. WriterKnows'
  BY <1>1 DEF WriterKnows, OneWriter, Writing, LogTypeOK
<1>5. AckedDurable'
  BY DEF AckedDurable
<1> QED  BY <1>1, <1>2, <1>3, <1>4, <1>5

LEMMA WriteRestInv ==
  ASSUME LogInv, NEW p \in Procs, WriteRest(p)
  PROVE  LogInv'
<1> USE DEF LogInv, NeverCorrupt, Goto
<1>1. /\ pc[p] = "rest" /\ tail' = "clean" /\ lines' = Append(lines, calls)
      /\ pc' = [pc EXCEPT ![p] = "sync"]
      /\ UNCHANGED <<corrupt, durable, calls, acked, view>>
  BY DEF WriteRest, WriterKnows
<1>2. Len(lines) \in Nat /\ calls \in Nat /\ calls \in 1..calls
  BY <1>1 DEF LogTypeOK, WriterKnows, Writing
<1>3. /\ lines' \in Seq(1..calls) /\ Len(lines') = Len(lines) + 1
      /\ lines'[Len(lines')] = calls
      /\ \A i \in 1..Len(lines) : lines'[i] = lines[i]
  BY <1>1, <1>2, AppendAt DEF LogTypeOK
<1>4. LogTypeOK'
  BY <1>1, <1>2, <1>3 DEF LogTypeOK, Writing, Tails
<1>5. OneWriter' /\ PartOwned'
  BY <1>1 DEF OneWriter, PartOwned, Writing, LogTypeOK
<1>6. WriterKnows'
  BY <1>1, <1>2, <1>3 DEF WriterKnows, OneWriter, Writing, LogTypeOK
<1>7. AckedDurable'
  BY <1>1, <1>2, <1>3 DEF AckedDurable, LogTypeOK
<1> QED  BY <1>1, <1>4, <1>5, <1>6, <1>7

LEMMA SyncInv ==
  ASSUME LogInv, NEW p \in Procs, Sync(p)
  PROVE  LogInv'
<1> USE DEF LogInv, NeverCorrupt, Sync, Goto
<1>1. calls \in 1..calls /\ Len(lines) \in Nat /\ durable' = Len(lines)
  BY DEF LogTypeOK, WriterKnows, Writing
<1>2. LogTypeOK'
  BY <1>1 DEF LogTypeOK, Writing
<1>3. OneWriter' /\ WriterKnows' /\ PartOwned'
  BY DEF OneWriter, WriterKnows, PartOwned, Writing, LogTypeOK
<1>4. AckedDurable'
  <2>1. lines[Len(lines)] = calls /\ Len(lines) \in 1..Len(lines)
    BY DEF WriterKnows, LogTypeOK
  <2>2. \A r \in acked : \E i \in 1..Len(lines) : lines[i] = r
    BY DEF AckedDurable, LogTypeOK
  <2> QED  BY <1>1, <2>1, <2>2 DEF AckedDurable
<1> QED  BY <1>2, <1>3, <1>4

LEMMA AbandonAppendInv ==
  ASSUME LogInv, NEW p \in Procs, AbandonAppend(p)
  PROVE  LogInv'
<1> USE DEF LogInv, NeverCorrupt, AbandonAppend, Goto
<1>1. LogTypeOK'
  BY DEF LogTypeOK, Writing, Tails
<1>2. OneWriter' /\ WriterKnows' /\ PartOwned'
  BY DEF OneWriter, WriterKnows, PartOwned, Writing, LogTypeOK
<1> QED  BY <1>1, <1>2 DEF AckedDurable

LEMMA ReadUnlockedInv ==
  ASSUME LogInv, NEW p \in Procs, ReadUnlocked(p)
  PROVE  LogInv'
<1> USE DEF LogInv, NeverCorrupt, ReadUnlocked, Goto, fileVars
<1>1. LogTypeOK'
  BY DEF LogTypeOK, Writing
<1>2. OneWriter' /\ WriterKnows' /\ PartOwned' /\ AckedDurable'
  BY DEF OneWriter, WriterKnows, PartOwned, AckedDurable, Writing, LogTypeOK
<1> QED  BY <1>1, <1>2

LEMMA ReadLockedInv ==
  ASSUME ~QuarantineFails, LogInv, NEW p \in Procs, ReadLocked(p)
  PROVE  LogInv'
<1> USE DEF LogInv, NeverCorrupt
<1>1. /\ pc[p] = "torn" /\ LockFree /\ pc' = [pc EXCEPT ![p] = "idle"]
      /\ tail' = "clean" /\ durable' \in durable..Len(lines)
      /\ view' = [view EXCEPT ![p] = lines]
      /\ UNCHANGED <<lines, corrupt, calls, acked>>
  BY QuarantineCuts DEF ReadLocked, Goto, fileVars, LogTypeOK
<1>2. LogTypeOK'
  BY <1>1 DEF LogTypeOK, Writing, Tails
<1>3. OneWriter' /\ WriterKnows' /\ PartOwned'
  BY <1>1 DEF OneWriter, WriterKnows, PartOwned, LockFree, Writing, LogTypeOK
<1>4. AckedDurable'
  BY <1>1 DEF AckedDurable, LogTypeOK
<1> QED  BY <1>1, <1>2, <1>3, <1>4

LEMMA PowerLossInv ==
  ASSUME LogInv, PowerLoss
  PROVE  LogInv'
<1> USE DEF LogInv, NeverCorrupt
<1>1. PICK n \in durable..Len(lines), t \in Tails \ {"mine"} :
         lines' = SubSeq(lines, 1, n) /\ tail' = t /\ durable' = n
  BY DEF PowerLoss
<1>2. pc' = [p \in Procs |-> "idle"] /\ UNCHANGED <<corrupt, calls, acked, view>>
  BY DEF PowerLoss
<1>3. calls \in Nat /\ durable \in Nat /\ n \in 0..Len(lines)
  BY <1>1 DEF LogTypeOK
<1>4. lines' \in Seq(1..calls) /\ Len(lines') = n /\ \A i \in 1..n : lines'[i] = lines[i]
  BY <1>1, <1>3, PrefixAt DEF LogTypeOK
<1>5. LogTypeOK'
  BY <1>1, <1>2, <1>3, <1>4 DEF LogTypeOK, Writing, Tails
<1>6. OneWriter' /\ WriterKnows' /\ PartOwned'
  BY <1>1, <1>2 DEF OneWriter, WriterKnows, PartOwned, Writing
<1>7. AckedDurable'
  BY <1>1, <1>2, <1>3, <1>4 DEF AckedDurable
<1> QED  BY <1>2, <1>5, <1>6, <1>7

LEMMA LogNextInv ==
  ASSUME ~QuarantineFails, LogInv, [LogNext]_logVars
  PROVE  LogInv'
<1>1. CASE UNCHANGED logVars
  BY <1>1 DEF logVars, fileVars, LogInv, LogTypeOK, NeverCorrupt, OneWriter, WriterKnows,
     PartOwned, AckedDurable
<1>2. CASE LogNext
  BY <1>2, BeginAppendInv, WritePartInv, WriteRestInv, SyncInv, AbandonAppendInv,
     ReadUnlockedInv, ReadLockedInv, PowerLossInv DEF LogNext
<1> QED  BY <1>1, <1>2

LEMMA LogInvariant == ~QuarantineFails => (LogSpec => []LogInv)
<1>1. ASSUME ~QuarantineFails PROVE LogInv /\ [LogNext]_logVars => LogInv'
  BY <1>1, LogNextInv
<1>2. CASE QuarantineFails
  BY <1>2
<1>3. CASE ~QuarantineFails
  BY <1>1, <1>3, LogInitInv, PTL DEF LogSpec
<1> QED  BY <1>2, <1>3

-----------------------------------------------------------------------------
(* The refinement *)

LEMMA InitRefines == LogInit => AbsLog!AbsInit
  BY DEF LogInit, AbsLog!AbsInit

LEMMA NextRefines ==
  ASSUME ~QuarantineFails, LogInv, [LogNext]_logVars
  PROVE  [AbsLog!AbsNext]_(AbsLog!absVars)
<1> USE DEF AbsLog!absVars, LogInv
<1>1. CASE UNCHANGED logVars
  BY <1>1 DEF logVars, fileVars
<1>2. ASSUME NEW p \in Procs, BeginAppend(p) PROVE UNCHANGED <<lines, acked, view>>
  BY <1>2, QuarantineCuts DEF BeginAppend, fileVars, NeverCorrupt
<1>3. ASSUME NEW p \in Procs, WritePart(p) \/ AbandonAppend(p)
      PROVE  UNCHANGED <<lines, acked, view>>
  BY <1>3 DEF WritePart, AbandonAppend
<1>4. ASSUME NEW p \in Procs, WriteRest(p) PROVE AbsLog!Commit(calls) /\ calls \in 1..MaxAppends
  <2>1. tail = "mine" /\ calls \in 1..MaxAppends /\ \A i \in 1..Len(lines) : lines[i] < calls
    BY <1>4 DEF WriteRest, WriterKnows, Writing, LogTypeOK
  <2>2. DOMAIN lines = 1..Len(lines)
    BY DEF LogTypeOK
  <2> QED  BY <1>4, <2>1, <2>2 DEF WriteRest, AbsLog!Commit
<1>5. ASSUME NEW p \in Procs, Sync(p) PROVE AbsLog!Acknowledge(calls) /\ calls \in 1..MaxAppends
  <2>1. Len(lines) \in DOMAIN lines /\ lines[Len(lines)] = calls /\ calls \in 1..MaxAppends
    BY <1>5 DEF Sync, WriterKnows, Writing, LogTypeOK
  <2> QED  BY <1>5, <2>1 DEF Sync, AbsLog!Acknowledge, AbsLog!Holds
<1>6. ASSUME NEW p \in Procs, ReadUnlocked(p) \/ ReadLocked(p) PROVE AbsLog!ReadAll(p)
  BY <1>6, QuarantineCuts DEF ReadUnlocked, ReadLocked, fileVars, AbsLog!ReadAll, NeverCorrupt
<1>7. ASSUME PowerLoss PROVE \E n \in 0..Len(lines) : AbsLog!Lose(n)
  <2>1. PICK n \in durable..Len(lines) : lines' = SubSeq(lines, 1, n)
    BY <1>7 DEF PowerLoss
  <2>2. calls \in Nat /\ durable \in Nat /\ n \in 0..Len(lines) /\ durable <= n
    BY <2>1 DEF LogTypeOK
  <2>3. lines' \in Seq(1..calls) /\ Len(lines') = n /\ \A i \in 1..n : lines'[i] = lines[i]
    BY <2>1, <2>2, PrefixAt DEF LogTypeOK
  <2>4. DOMAIN lines' = 1..n
    BY <2>3
  <2>5. \A r \in acked : AbsLog!Holds(lines', r)
    BY <2>2, <2>3, <2>4 DEF AckedDurable, AbsLog!Holds
  <2> QED  BY <1>7, <2>1, <2>2, <2>5 DEF PowerLoss, AbsLog!Lose
<1>8. CASE LogNext
  BY <1>8, <1>2, <1>3, <1>4, <1>5, <1>6, <1>7 DEF LogNext, AbsLog!AbsNext
<1> QED  BY <1>1, <1>8

\* durable_append and read_payloads implement the abstract log, for any number of
\* processes and appends and whatever crashes, failed writes and power cuts come in
\* between, provided that a torn tail can be put aside.
THEOREM LogImplementsAbstract == ~QuarantineFails => (LogSpec => ImplementsLog)
<1>1. CASE QuarantineFails
  BY <1>1
<1>2. CASE ~QuarantineFails
  <2>1. LogInv /\ [LogNext]_logVars => [AbsLog!AbsNext]_(AbsLog!absVars)
    BY <1>2, NextRefines
  <2>2. LogSpec => []LogInv
    BY <1>2, LogInvariant
  <2> QED  BY <2>1, <2>2, InitRefines, PTL DEF LogSpec, ImplementsLog, AbsLog!AbsSpec
<1> QED  BY <1>1, <1>2

\* No crash or power cut makes a line before the last one fail verification, one
\* process writes at a time, and every acknowledged record can be read.
THEOREM LedgerSafe ==
  ~QuarantineFails => (LogSpec => [](LogTypeOK /\ NeverCorrupt /\ OneWriter /\ AckedReadable))
<1>1. LogInv => LogTypeOK /\ NeverCorrupt /\ OneWriter /\ AckedReadable
  <2> SUFFICES ASSUME LogInv PROVE AckedReadable
    BY DEF LogInv
  <2>1. DOMAIN lines = 1..Len(lines) /\ durable \in 0..Len(lines)
    BY DEF LogInv, LogTypeOK
  <2> QED  BY <2>1 DEF LogInv, AckedReadable, AckedDurable, NeverCorrupt, AbsLog!Holds
<1>2. CASE QuarantineFails
  BY <1>2
<1>3. CASE ~QuarantineFails
  <2>1. LogSpec => []LogInv
    BY <1>3, LogInvariant
  <2> QED  BY <1>1, <2>1, PTL
<1> QED  BY <1>2, <1>3

\* The file, the lock and what each process knows of them keep their types.
THEOREM LogTypeCorrect == ~QuarantineFails => (LogSpec => []LogTypeOK)
BY LedgerSafe, PTL

\* A crash can only tear the last record, so no reader is ever refused.
THEOREM NeverCorruptCorrect == ~QuarantineFails => (LogSpec => []NeverCorrupt)
BY LedgerSafe, PTL

\* The lock and the second scan keep a quarantining reader off a record in progress.
THEOREM OneWriterCorrect == ~QuarantineFails => (LogSpec => []OneWriter)
BY LedgerSafe, PTL
=============================================================================
