-------------------------- MODULE KillSwitchProofs --------------------------
(***************************************************************************)
(* HaltBindsGateways, for any number of processes and any journal.         *)
(*                                                                         *)
(* The argument: a gateway's cache is the state of some prefix at least as *)
(* long as its fingerprint (refresh reads the fingerprint before it        *)
(* replays, and a gateway never takes the other order, _append).  So when  *)
(* the fingerprint equals the file's, the cache is the file's state; and   *)
(* when it does not, the replay that follows starts after the request.     *)
(***************************************************************************)
EXTENDS KillSwitch, TLAPS

\* The cache is the state of a prefix no shorter than the fingerprint.
CacheCovers(p) ==
    pc[p] # "boot" => \E n \in fp[p]..Len(journal) : cache[p] = StateAt(n)

\* A request that acts on the cache acts on a prefix that is new enough.
ActsFresh(p) ==
    pc[p] = "act" => \E n \in call[p].base..Len(journal) : cache[p] = StateAt(n)

Bounded ==
    \A p \in Procs : /\ fp[p] <= Len(journal)
                     /\ call[p].seen <= Len(journal)
                     /\ call[p].base <= Len(journal)

GatewayInv ==
    \A p \in Gateways :
        /\ pc[p] \notin {"appended", "restat"}
        /\ CacheCovers(p)
        /\ ActsFresh(p)
        /\ Fresh(p)

KillInv == KillTypeOK /\ Bounded /\ GatewayInv

\* The initial states satisfy the invariant: an empty journal, an idle process.
LEMMA KillInitInv == KillInit => KillInv
<1> SUFFICES ASSUME KillInit PROVE KillInv
    OBVIOUS
<1>1. KillTypeOK
    BY DEF KillInit, KillTypeOK, NoCall, Modes, Kinds, Places, Procs
<1>2. Bounded
    BY DEF KillInit, Bounded, NoCall
<1>3. GatewayInv
    <2> SUFFICES ASSUME NEW p \in Gateways
                 PROVE  /\ pc[p] \notin {"appended", "restat"}
                        /\ CacheCovers(p) /\ ActsFresh(p) /\ Fresh(p)
        BY DEF GatewayInv
    <2>1. p \in Procs
        BY DEF Procs
    <2>2. fp[p] = 0 /\ Len(journal) = 0 /\ cache[p] = StateAt(0) /\ pc[p] = "idle"
        BY <2>1 DEF KillInit, StateAt
    <2> QED
        BY <2>2 DEF CacheCovers, ActsFresh, Fresh
<1> QED
    BY <1>1, <1>2, <1>3 DEF KillInv

\* Every step keeps the types and the bounds: nothing is read beyond the end.
LEMMA KillTypeStep ==
    ASSUME KillTypeOK, Bounded, [KillNext]_killVars
    PROVE  KillTypeOK' /\ Bounded'
<1> DEFINE Calls == [want : Kinds \cup Modes, base : Nat, seen : Nat, verdict : BOOLEAN]
<1>0. /\ Len(journal) \in Nat /\ Replayed \in Modes
      /\ call \in [Procs -> Calls] /\ NoCall \in Calls
      /\ NoCall.want \in Kinds /\ NoCall.base = 0 /\ NoCall.seen = 0
    BY DEF KillTypeOK, Replayed, StateAt, Modes, Kinds, NoCall
\* A step that replaces only the call of p, by a well-typed and bounded one.
<1>a. ASSUME NEW p \in Procs, NEW r \in Calls, call' = [call EXCEPT ![p] = r],
             r.seen <= Len(journal), r.base <= Len(journal),
             p \in Gateways => r.want \in Kinds, UNCHANGED journal
      PROVE  /\ call' \in [Procs -> Calls]
             /\ \A q \in Gateways : call'[q].want \in Kinds
             /\ \A q \in Procs : /\ call'[q].seen <= Len(journal')
                                 /\ call'[q].base <= Len(journal')
    BY <1>a, <1>0 DEF KillTypeOK, Bounded, Procs
<1>b. ASSUME NEW p \in Procs, NEW place \in Places, Goto(p, place)
      PROVE  pc' \in [Procs -> Places]
    BY <1>b DEF Goto, KillTypeOK
<1>1. ASSUME NEW p \in Procs, NEW w \in Requests(p), Begin(p, w)
      PROVE  KillTypeOK' /\ Bounded'
    <2> DEFINE r == [want |-> w, base |-> Len(journal), seen |-> 0, verdict |-> FALSE]
    <2>0. w \in Kinds \cup Modes /\ (p \in Gateways => w \in Kinds)
        BY KillAssumption DEF Requests
    <2>1. /\ r \in Calls /\ r.seen <= Len(journal) /\ r.base <= Len(journal)
          /\ p \in Gateways => r.want \in Kinds
        BY <1>0, <2>0
    <2>2. call' = [call EXCEPT ![p] = r] /\ UNCHANGED <<journal, cache, fp>>
        BY <1>1 DEF Begin
    <2>3. pc' \in [Procs -> Places]
        BY <1>1, <1>b DEF Begin, Places
    <2> HIDE DEF r
    <2> QED
        BY <1>a, <2>1, <2>2, <2>3 DEF KillTypeOK, Bounded
<1>2. ASSUME NEW p \in Procs, Stat(p) PROVE KillTypeOK' /\ Bounded'
    <2> DEFINE r == [call[p] EXCEPT !.seen = Len(journal)]
    <2>0. /\ call[p] \in Calls /\ call[p].base <= Len(journal)
          /\ p \in Gateways => call[p].want \in Kinds
        BY <1>0 DEF KillTypeOK, Bounded
    <2>4. r = [want |-> call[p].want, base |-> call[p].base, seen |-> Len(journal),
               verdict |-> call[p].verdict]
        BY <2>0
    <2>1. /\ r \in Calls /\ r.seen <= Len(journal) /\ r.base <= Len(journal)
          /\ p \in Gateways => r.want \in Kinds
        BY <1>0, <2>0, <2>4
    <2>2. call' = [call EXCEPT ![p] = r] /\ UNCHANGED <<journal, cache, fp>>
        BY <1>2, <1>0 DEF Stat
    <2>3. pc' \in [Procs -> Places]
        BY <1>2, <1>b DEF Stat, Places
    <2> HIDE DEF r
    <2> QED
        BY <1>a, <2>1, <2>2, <2>3 DEF KillTypeOK, Bounded
<1>3. ASSUME NEW p \in Procs, Replay(p) PROVE KillTypeOK' /\ Bounded'
    <2>1. pc' \in [Procs -> Places]
        BY <1>3, <1>b DEF Replay, Places
    <2> QED
        BY <1>3, <1>0, <2>1 DEF Replay, KillTypeOK, Bounded
<1>4. ASSUME NEW p \in Procs, Decide(p) PROVE KillTypeOK' /\ Bounded'
    <2> DEFINE r == [call[p] EXCEPT !.verdict = Allows(cache[p], call[p].want)]
    <2>1. Allows(cache[p], call[p].want) \in BOOLEAN
        BY DEF Allows
    <2>2. /\ r \in Calls /\ r.seen <= Len(journal) /\ r.base <= Len(journal)
          /\ p \in Gateways => r.want \in Kinds
        BY <1>0, <2>1 DEF KillTypeOK, Bounded
    <2>3. call' = [call EXCEPT ![p] = r] /\ UNCHANGED <<journal, cache, fp>>
        BY <1>4, <1>0 DEF Decide
    <2>4. pc' \in [Procs -> Places]
        BY <1>4, <1>b DEF Decide, Places
    <2> HIDE DEF r
    <2> QED
        BY <1>a, <2>2, <2>3, <2>4 DEF KillTypeOK, Bounded
<1>5. ASSUME NEW p \in Procs, Done(p) \/ Refuse(p) PROVE KillTypeOK' /\ Bounded'
    <2>1. call' = [call EXCEPT ![p] = NoCall] /\ UNCHANGED <<journal, cache, fp>>
        BY <1>5 DEF Done, Refuse, Return
    <2>2. pc' \in [Procs -> Places]
        BY <1>5, <1>b DEF Done, Refuse, Return, Places
    <2>3. NoCall.seen <= Len(journal) /\ NoCall.base <= Len(journal)
        BY <1>0
    <2> HIDE DEF Calls
    <2> QED
        BY <1>0, <1>a, <2>1, <2>2, <2>3 DEF KillTypeOK, Bounded, Calls
<1>6. ASSUME NEW p \in Procs, AppendEvent(p) PROVE KillTypeOK' /\ Bounded'
    <2>1. journal' \in Seq(Modes) /\ Len(journal') = Len(journal) + 1
        BY <1>6 DEF AppendEvent, KillTypeOK
    <2>2. pc' \in [Procs -> Places]
        BY <1>6, <1>b DEF AppendEvent, Places
    <2>3. UNCHANGED <<cache, fp, call>>
        BY <1>6 DEF AppendEvent
    <2> QED
        BY <1>0, <2>1, <2>2, <2>3 DEF KillTypeOK, Bounded
<1>7. ASSUME NEW p \in Procs, ReplayOwn(p) \/ Boot(p) PROVE KillTypeOK' /\ Bounded'
    <2>1. pc' \in [Procs -> Places]
        BY <1>7, <1>b DEF ReplayOwn, Boot, Places
    <2>2. cache' \in [Procs -> Modes] /\ UNCHANGED <<journal, fp, call>>
        BY <1>7, <1>0 DEF ReplayOwn, Boot, KillTypeOK
    <2> QED
        BY <2>1, <2>2 DEF KillTypeOK, Bounded
<1>8. ASSUME NEW p \in Procs, StatOwn(p) \/ Restart(p) PROVE KillTypeOK' /\ Bounded'
    <2>1. /\ call' = [call EXCEPT ![p] = NoCall] /\ UNCHANGED <<journal, cache>>
          /\ fp' = [fp EXCEPT ![p] = Len(journal)]
        BY <1>8 DEF StatOwn, Restart, Return
    <2>2. pc' \in [Procs -> Places]
        BY <1>8, <1>b DEF StatOwn, Restart, Return, Places
    <2>3. NoCall.seen <= Len(journal) /\ NoCall.base <= Len(journal)
        BY <1>0
    <2>4. fp' \in [Procs -> Nat] /\ \A q \in Procs : fp'[q] <= Len(journal')
        BY <1>0, <2>1 DEF KillTypeOK, Bounded
    <2> HIDE DEF Calls
    <2> QED
        BY <1>0, <1>a, <2>1, <2>2, <2>3, <2>4 DEF KillTypeOK, Bounded, Calls
<1>9. CASE UNCHANGED killVars
    BY <1>9 DEF killVars, KillTypeOK, Bounded
<1> QED
    BY <1>1, <1>2, <1>3, <1>4, <1>5, <1>6, <1>7, <1>8, <1>9 DEF KillNext

\* The journal is append-only: a step leaves the state of every prefix alone.
LEMMA PrefixKept ==
    ASSUME KillTypeOK, [KillNext]_killVars
    PROVE  /\ Len(journal') >= Len(journal)
           /\ \A n \in 0..Len(journal) : StateAt(n)' = StateAt(n)
<1>1. ASSUME NEW p \in Procs, AppendEvent(p)
      PROVE  /\ Len(journal') >= Len(journal)
             /\ \A n \in 0..Len(journal) : StateAt(n)' = StateAt(n)
    BY <1>1 DEF AppendEvent, StateAt, KillTypeOK, Modes
<1>2. CASE UNCHANGED journal
    BY <1>2 DEF StateAt, KillTypeOK
<1> QED
    BY <1>1, <1>2 DEF KillNext, killVars, Begin, Stat, Replay, Decide, Done, Refuse,
       ReplayOwn, StatOwn, Restart, Boot

\* A step of another process does not disturb what holds of gateway q.
LEMMA OthersKeep ==
    ASSUME KillInv, [KillNext]_killVars, NEW q \in Gateways,
           pc'[q] = pc[q], cache'[q] = cache[q], fp'[q] = fp[q], call'[q] = call[q]
    PROVE  /\ pc'[q] \notin {"appended", "restat"}
           /\ CacheCovers(q)' /\ ActsFresh(q)' /\ Fresh(q)'
<1> USE DEF KillInv, GatewayInv
<1>1. /\ Len(journal') >= Len(journal)
      /\ \A n \in 0..Len(journal) : StateAt(n)' = StateAt(n)
    BY PrefixKept
<1>2. q \in Procs /\ fp[q] \in Nat /\ call[q].base \in Nat
    BY DEF Procs, KillTypeOK
<1>3. Len(journal) \in Nat /\ Len(journal') \in Nat
    BY KillTypeStep DEF KillTypeOK
<1>4. CacheCovers(q)'
    BY <1>1, <1>2, <1>3 DEF CacheCovers
<1>5. ActsFresh(q)'
    <2> SUFFICES ASSUME pc'[q] = "act"
                 PROVE  \E n \in call'[q].base..Len(journal') : cache'[q] = StateAt(n)'
        BY DEF ActsFresh
    <2>1. PICK n \in call[q].base..Len(journal) : cache[q] = StateAt(n)
        BY DEF ActsFresh
    <2>2. StateAt(n)' = StateAt(n) /\ n \in call'[q].base..Len(journal')
        BY <1>1, <1>2, <1>3, <2>1
    <2> QED
        BY <2>1, <2>2
<1>6. Fresh(q)'
    <2> SUFFICES ASSUME pc'[q] = "decided"
                 PROVE  \E n \in call'[q].base..Len(journal') :
                            call'[q].verdict = Allows(StateAt(n)', call'[q].want)
        BY DEF Fresh, Allows
    <2>1. PICK n \in call[q].base..Len(journal) :
              call[q].verdict = Allows(StateAt(n), call[q].want)
        BY DEF Fresh
    <2>2. StateAt(n)' = StateAt(n) /\ n \in call'[q].base..Len(journal')
        BY <1>1, <1>2, <1>3, <2>1
    <2> QED
        BY <2>1, <2>2
<1> QED
    BY <1>4, <1>5, <1>6

\* A gateway's own steps: each read of the file is recent enough for what the
\* gateway does with it.
LEMMA OwnStep ==
    ASSUME KillInv, NEW p \in Gateways, [KillNext]_killVars,
           \/ \E w \in Requests(p) : Begin(p, w)
           \/ Stat(p) \/ Replay(p) \/ Decide(p) \/ Done(p) \/ Refuse(p)
           \/ AppendEvent(p) \/ ReplayOwn(p) \/ StatOwn(p)
           \/ Restart(p) \/ Boot(p)
    PROVE  /\ pc'[p] \notin {"appended", "restat"}
           /\ CacheCovers(p)' /\ ActsFresh(p)' /\ Fresh(p)'
<1> USE DEF KillInv, GatewayInv
<1>1. /\ p \in Procs /\ Len(journal) \in Nat /\ fp[p] \in Nat
      /\ call[p].base \in Nat /\ call[p].seen \in Nat
      /\ fp[p] <= Len(journal) /\ call[p].seen <= Len(journal)
      /\ call[p].base <= Len(journal)
      /\ call[p].want \in Kinds
    BY DEF Procs, KillTypeOK, Bounded
<1>2. pc \in [Procs -> Places] /\ cache \in [Procs -> Modes] /\ fp \in [Procs -> Nat]
    BY DEF KillTypeOK
<1>3. call \in [Procs -> [want : Kinds \cup Modes, base : Nat, seen : Nat,
                          verdict : BOOLEAN]]
    BY DEF KillTypeOK
<1>4. ASSUME NEW w \in Requests(p), Begin(p, w)
      PROVE  /\ pc'[p] \notin {"appended", "restat"}
             /\ CacheCovers(p)' /\ ActsFresh(p)' /\ Fresh(p)'
    BY <1>1, <1>2, <1>3, <1>4
       DEF Begin, Goto, CacheCovers, ActsFresh, Fresh, StateAt
<1>5. ASSUME Stat(p)
      PROVE  /\ pc'[p] \notin {"appended", "restat"}
             /\ CacheCovers(p)' /\ ActsFresh(p)' /\ Fresh(p)'
    <2>1. /\ pc[p] = "stat" /\ UNCHANGED <<journal, cache, fp>>
          /\ pc'[p] \in {"replay", "act"} /\ call'[p].base = call[p].base
          /\ pc'[p] = "act" => Len(journal) = fp[p]
        BY <1>1, <1>2, <1>3, <1>5 DEF Stat, Goto, Moved
    <2>2. PICK n \in fp[p]..Len(journal) : cache[p] = StateAt(n)
        BY <2>1 DEF CacheCovers
    <2>3. pc'[p] = "act" => n \in call[p].base..Len(journal)
        BY <1>1, <2>1, <2>2
    <2> QED
        BY <2>1, <2>2, <2>3 DEF CacheCovers, ActsFresh, Fresh, StateAt
<1>6. ASSUME Replay(p)
      PROVE  /\ pc'[p] \notin {"appended", "restat"}
             /\ CacheCovers(p)' /\ ActsFresh(p)' /\ Fresh(p)'
    <2>1. /\ pc'[p] = "act" /\ UNCHANGED <<journal, call>> /\ fp'[p] = call[p].seen
          /\ cache'[p] = StateAt(Len(journal))
        BY <1>1, <1>2, <1>6 DEF Replay, Goto, Replayed
    <2>2. /\ Len(journal) \in call[p].seen..Len(journal)
          /\ Len(journal) \in call[p].base..Len(journal)
        BY <1>1
    <2>3. StateAt(Len(journal))' = StateAt(Len(journal))
        BY <2>1 DEF StateAt
    <2> QED
        BY <2>1, <2>2, <2>3 DEF CacheCovers, ActsFresh, Fresh, StateAt
<1>7. ASSUME Decide(p)
      PROVE  /\ pc'[p] \notin {"appended", "restat"}
             /\ CacheCovers(p)' /\ ActsFresh(p)' /\ Fresh(p)'
    <2>1. /\ pc[p] = "act" /\ pc'[p] = "decided" /\ UNCHANGED <<journal, cache, fp>>
          /\ call'[p].verdict = Allows(cache[p], call[p].want)
          /\ call'[p].base = call[p].base /\ call'[p].want = call[p].want
        BY <1>1, <1>2, <1>3, <1>7 DEF Decide, Goto
    <2>2. PICK n \in call[p].base..Len(journal) : cache[p] = StateAt(n)
        BY <2>1 DEF ActsFresh
    <2>3. StateAt(n)' = StateAt(n)
        BY <2>1 DEF StateAt
    <2>4. call'[p].verdict = Allows(StateAt(n), call'[p].want)
        BY <2>1, <2>2
    <2>5. CacheCovers(p)' /\ ActsFresh(p)'
        BY <2>1 DEF CacheCovers, ActsFresh, StateAt
    <2>6. n \in call'[p].base..Len(journal')
        BY <2>1, <2>2
    <2>7. Fresh(p)'
        BY <2>3, <2>4, <2>6 DEF Fresh, Allows
    <2> QED
        BY <2>1, <2>5, <2>7
<1>8. ASSUME Done(p) \/ Refuse(p)
      PROVE  /\ pc'[p] \notin {"appended", "restat"}
             /\ CacheCovers(p)' /\ ActsFresh(p)' /\ Fresh(p)'
    <2>1. /\ pc[p] \in {"decided", "act"} /\ pc'[p] = "idle"
          /\ UNCHANGED <<journal, cache, fp>>
        BY <1>1, <1>2, <1>8 DEF Done, Refuse, Return, Goto
    <2>2. CacheCovers(p)'
        BY <2>1 DEF CacheCovers, StateAt
    <2> QED
        BY <2>1, <2>2 DEF ActsFresh, Fresh
<1>9. ~AppendEvent(p) /\ ~ReplayOwn(p) /\ ~StatOwn(p)
    BY <1>1 DEF AppendEvent, ReplayOwn, StatOwn, Kinds, Modes
<1>10. ASSUME Restart(p)
       PROVE  /\ pc'[p] \notin {"appended", "restat"}
              /\ CacheCovers(p)' /\ ActsFresh(p)' /\ Fresh(p)'
    BY <1>1, <1>2, <1>10 DEF Restart, Goto, CacheCovers, ActsFresh, Fresh
<1>11. ASSUME Boot(p)
       PROVE  /\ pc'[p] \notin {"appended", "restat"}
              /\ CacheCovers(p)' /\ ActsFresh(p)' /\ Fresh(p)'
    <2>1. /\ pc'[p] = "idle" /\ UNCHANGED <<journal, fp>>
          /\ cache'[p] = StateAt(Len(journal))
        BY <1>1, <1>2, <1>11 DEF Boot, Goto, Replayed
    <2>2. Len(journal) \in fp[p]..Len(journal)
        BY <1>1
    <2> QED
        BY <2>1, <2>2 DEF CacheCovers, ActsFresh, Fresh, StateAt
<1> QED
    BY <1>4, <1>5, <1>6, <1>7, <1>8, <1>9, <1>10, <1>11

\* Every step keeps the invariant.
LEMMA KillStep ==
    ASSUME KillInv, [KillNext]_killVars
    PROVE  KillInv'
<1>1. KillTypeOK' /\ Bounded'
    BY KillTypeStep DEF KillInv
<1>2. ASSUME NEW q \in Gateways
      PROVE  /\ pc'[q] \notin {"appended", "restat"}
             /\ CacheCovers(q)' /\ ActsFresh(q)' /\ Fresh(q)'
    <2>1. q \in Procs
        BY DEF Procs
    <2>2. CASE UNCHANGED killVars
        BY <2>2, OthersKeep DEF killVars
    <2>3. ASSUME NEW p \in Procs, p # q,
                 \/ \E w \in Requests(p) : Begin(p, w)
                 \/ Stat(p) \/ Replay(p) \/ Decide(p) \/ Done(p) \/ Refuse(p)
                 \/ AppendEvent(p) \/ ReplayOwn(p) \/ StatOwn(p)
                 \/ Restart(p) \/ Boot(p)
          PROVE  /\ pc'[q] = pc[q] /\ cache'[q] = cache[q]
                 /\ fp'[q] = fp[q] /\ call'[q] = call[q]
        <3>1. /\ pc \in [Procs -> Places] /\ cache \in [Procs -> Modes]
              /\ fp \in [Procs -> Nat]
              /\ call \in [Procs -> [want : Kinds \cup Modes, base : Nat, seen : Nat,
                                     verdict : BOOLEAN]]
            BY DEF KillInv, KillTypeOK
        <3> QED
            BY <2>1, <2>3, <3>1 DEF Begin, Stat, Replay, Decide, Done, Refuse,
               AppendEvent, ReplayOwn, StatOwn, Restart, Boot, Goto, Return
    <2>4. CASE KillNext
        <3>1. PICK p \in Procs :
                 \/ \E w \in Requests(p) : Begin(p, w)
                 \/ Stat(p) \/ Replay(p) \/ Decide(p) \/ Done(p) \/ Refuse(p)
                 \/ AppendEvent(p) \/ ReplayOwn(p) \/ StatOwn(p)
                 \/ Restart(p) \/ Boot(p)
            BY <2>4 DEF KillNext
        <3>2. CASE p = q
            BY <3>1, <3>2, OwnStep
        <3>3. CASE p # q
            BY <3>1, <3>3, <2>3, OthersKeep
        <3> QED
            BY <3>2, <3>3
    <2> QED
        BY <2>2, <2>4
<1> QED
    BY <1>1, <1>2 DEF KillInv, GatewayInv

\* refresh() before every decision is enough, however its two reads of the file
\* interleave with appends, restarts and other readers: a gateway's verdict is
\* one the journal called for after the request began.
THEOREM HaltBindsCorrect == KillSpec => [](KillTypeOK /\ HaltBindsGateways)
<1>1. KillInv => KillTypeOK /\ HaltBindsGateways
    BY DEF KillInv, GatewayInv, HaltBindsGateways
<1> QED
    BY KillInitInv, KillStep, <1>1, PTL DEF KillSpec

\* The journal, the operators' and the gateways' copies of it keep their types.
THEOREM KillTypeCorrect == KillSpec => []KillTypeOK
BY HaltBindsCorrect, PTL
=============================================================================
