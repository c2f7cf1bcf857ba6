------------------------- MODULE PaperForwardProofs -------------------------
(***************************************************************************)
(* For any number of plans, kills and failed writes: the types,            *)
(* RefsUnique, TradesOnce, VenueAgrees and RestoredWhole.                  *)
(*                                                                         *)
(* All four speak of a process that may have been killed and restored any  *)
(* number of times, so each needs a twin for the snapshot: what holds of   *)
(* the memory now must hold of the image on disk for as long as assess()   *)
(* would restore it.  The twin is what the watermark protects: every write *)
(* that could make it false also makes the snapshot unrestorable.          *)
(***************************************************************************)
EXTENDS PaperForward, TLAPS

Trading == {"ready", "push", "trades", "evaluate", "deal", "persist"}
Alive == {"queued", "open"}

\* A reference is from another prefix, or from the part of the venue's sequence that
\* is behind its counter.
Behind(prefixNow, seqNow) ==
    \A p \in Plans : ref[p] # <<>> /\ ref[p][1] = prefixNow => ref[p][2] < seqNow

RefInv ==
    /\ ref \in [Plans -> {<<>>} \cup (Nat \X Nat)] /\ RefsUnique
    /\ crashes \in 0..MaxCrashes /\ faults \in Nat
    /\ sessions <= crashes + (IF step \in Trading THEN 1 ELSE 0)
    /\ \A p \in Plans : ref[p] # <<>> => ref[p][1] < sessions
    /\ step # "down" => Behind(prefix, seq) /\ prefix <= sessions
    /\ step \in Trading => prefix < sessions

\* What the steps leave for the next one: closes of what the book has given up, or
\* the one entry that is being dealt.
StepInv ==
    /\ step \notin {"push", "deal"} => todo = {}
    /\ step \notin Trading => journaled = {} /\ lagging = {}
    /\ step = "push" => \A p \in todo : book[p] \in {"closed", "gone"}
    /\ step = "deal" => \A p \in todo : entry[p] = "pending" /\ p \notin lagging

\* Only a plan whose entry was confirmed has left a trace.  A row that the intent
\* store does not know of is that of an order about to be sent, or of a fill.
EntryInv ==
    \A p \in Plans :
        /\ entry[p] = "filled" <=> ref[p] # <<>>
        /\ Known(p) # "filled" =>
              /\ book[p] = "none" /\ recorded[p] = 0
              /\ p \notin balance /\ p \notin lastBar.balance /\ p \notin lastBar.open
        /\ p \in lagging => entry[p] \in {"pending", "filled"}

\* A recorded trade is one that the book has closed; and but for appends that raised
\* this process has written it, or the book no longer has it.
TradeInv ==
    \A p \in Plans :
        /\ recorded[p] <= 1 + raised[p]
        /\ p \in journaled => book[p] = "closed"
        /\ recorded[p] > 0 => book[p] \notin Alive
        /\ recorded[p] > raised[p] => p \in journaled \/ book[p] \in {"none", "gone"}

\* A book and a venue that agree, but for the closes in "sending".
Agree(bookNow, heldNow, closingNow, sending) ==
    \A p \in Plans :
        /\ bookNow[p] \in Alive => p \in heldNow
        /\ p \in closingNow => bookNow[p] \in {"closed", "gone"}
        /\ p \in heldNow => \/ bookNow[p] \in Alive
                            \/ p \in closingNow \/ p \in sending
                            \/ bookNow[p] = "none"

\* A position that the book has never had: its entry was not confirmed, or the
\* start-up has yet to find it and to refuse.
AgreeInv ==
    /\ Agree(book, held, closing, IF step = "push" THEN todo ELSE {})
    /\ step \in Trading \cup {"session"} =>
          \A p \in held : book[p] = "none" => Known(p) # "filled"

\* Every filled entry is in the book, or else still at the venue.
Complete(bookNow, heldNow) ==
    \A p \in Plans : entry[p] = "filled" => bookNow[p] # "none" \/ p \in heldNow

\* As long as no start lost anything, the account and the book are complete.
WholeInv ==
    intact =>
        /\ abandoned = {} /\ step # "abandon"
        /\ step # "down" => balance = Recorded \cup Unrecorded /\ Complete(book, held)

\* The same of the snapshot, for as long as it would be restored.
ImageInv ==
    Restorable =>
        /\ Behind(snapshot.prefix, snapshot.seq) /\ snapshot.prefix < sessions
        /\ \A p \in Plans : entry[p] # "filled" =>
              snapshot.book[p] = "none" /\ p \notin snapshot.balance
        /\ \A p \in Plans : recorded[p] > 0 => snapshot.book[p] \in {"none", "gone"}
        /\ Agree(snapshot.book, snapshot.held, snapshot.closing, {})
        /\ intact => snapshot.balance = Recorded /\ Complete(snapshot.book, snapshot.held)

PaperInv == /\ PaperTypeOK /\ RefInv /\ StepInv /\ EntryInv /\ TradeInv
            /\ AgreeInv /\ WholeInv /\ ImageInv

-----------------------------------------------------------------------------
(* The snapshot and the book *)

\* What a snapshot that would be restored consists of.
LEMMA ImageType ==
    ASSUME PaperTypeOK, Restorable
    PROVE  /\ snapshot.book \in [Plans -> BookStates \ {"closed"}]
           /\ snapshot.balance \subseteq Plans /\ snapshot.held \subseteq Plans
           /\ snapshot.closing \subseteq Plans /\ snapshot.stale \subseteq Plans
           /\ snapshot.prefix \in Nat /\ snapshot.seq \in Nat
    BY DEF PaperTypeOK, Restorable

\* The watermark: a step that leaves the snapshot restorable has written nothing that
\* the snapshot does not know of, or has just written the snapshot.
LEMMA Watermark ==
    ASSUME PaperTypeOK, RefInv, PaperNext, Restorable'
    PROVE  Persist \/ (Restorable /\ UNCHANGED <<snapshot, entry, ref, recorded>>)
<1> USE DEF Restorable
<1>1. CASE Restore \/ Abandon \/ SessionStart \/ Bar \/ Flatten \/ BarEvent
           \/ EndEvaluation \/ WriteFails \/ Crash
    BY <1>1 DEF Restore, Abandon, SessionStart, Bar, Flatten, BarEvent, EndEvaluation,
       WriteFails, Crash, diskVars
<1>2. CASE StartFresh
    BY <1>2 DEF StartFresh
<1>3. CASE Reconcile \/ ReconcileTimer
    <2>1. Reconciled
        BY <1>3 DEF Reconcile, ReconcileTimer
    <2>2. ~newIntents /\ Pending = {}
        BY <2>1 DEF Reconciled, PaperTypeOK
    <2>3. entry' = entry /\ ref' = ref
        BY <2>1, <2>2 DEF Reconciled, PaperTypeOK, RefInv
    <2> QED
        BY <2>1, <2>2, <2>3 DEF Reconciled
<1>4. CASE PushLevels
    BY <1>4 DEF PushLevels, PaperTypeOK
<1>5. CASE \E p \in Plans : \/ PushClose(p) \/ RecordTrade(p) \/ RecordTradeRaises(p)
                             \/ Submit(p) \/ Deal(p)
    BY <1>5 DEF PushClose, RecordTrade, RecordTradeRaises, Submit, Deal
<1> QED
    BY <1>1, <1>2, <1>3, <1>4, <1>5 DEF PaperNext

\* No step takes a session back, and what a start has lost stays lost.
LEMMA Monotone ==
    ASSUME PaperTypeOK, PaperNext
    PROVE  sessions' >= sessions /\ (intact' => intact)
    BY DEF PaperNext, Restore, StartFresh, Abandon, SessionStart, Reconcile, ReconcileTimer,
       Reconciled, Bar, Flatten, PushLevels, BarEvent, EndEvaluation, WriteFails, Persist,
       Crash, PushClose, RecordTrade, RecordTradeRaises, Submit, Deal, diskVars, PaperTypeOK

\* What a bar and a flatten do to the book: a position that leaves it is to be
\* closed at the venue, and one that closes is in the account.
LEMMA BookMoves ==
    ASSUME PaperTypeOK, Bar \/ Flatten
    PROVE  /\ book' \in [Plans -> BookStates]
           /\ balance' \subseteq Plans /\ todo' \subseteq Plans /\ flattening' \in BOOLEAN
           /\ \A p \in Plans :
                 /\ book[p] \notin Alive => book'[p] = book[p]
                 /\ book[p] \in Alive =>
                       book'[p] \in Alive \/ (book'[p] \in {"closed", "gone"} /\ p \in todo')
                 /\ p \in balance' <=>
                       p \in balance \/ (book[p] \in Alive /\ book'[p] = "closed")
                 /\ p \in todo' => \/ p \in closing
                                   \/ book[p] \in Alive /\ book'[p] \in {"closed", "gone"}
           /\ step \in {"ready", "evaluate"} /\ step' = "push"
           /\ UNCHANGED <<diskVars, held, closing, stale, journaled, lagging, prefix, seq,
                          crashes, faults, intact, raised>>
<1> USE DEF PaperTypeOK, BookStates, In, Alive
<1>1. CASE Bar
    <2>1. PICK refused \in SUBSET In({"queued"}) :
          \E exits \in SUBSET (In({"queued", "open"}) \ refused) :
             /\ book' = [p \in Plans |->
                           IF p \in refused THEN "gone"
                           ELSE IF p \in exits THEN "closed"
                           ELSE IF book[p] = "queued" THEN "open" ELSE book[p]]
             /\ balance' = balance \cup exits
             /\ todo' = closing \cup exits \cup refused
        BY <1>1 DEF Bar
    <2>2. PICK exits \in SUBSET (In({"queued", "open"}) \ refused) :
             /\ book' = [p \in Plans |->
                           IF p \in refused THEN "gone"
                           ELSE IF p \in exits THEN "closed"
                           ELSE IF book[p] = "queued" THEN "open" ELSE book[p]]
             /\ balance' = balance \cup exits
             /\ todo' = closing \cup exits \cup refused
        BY <2>1
    <2>3. book' \in [Plans -> BookStates] /\ balance' \subseteq Plans /\ todo' \subseteq Plans
        BY <2>2
    <2>4. ASSUME NEW p \in Plans
          PROVE  /\ book[p] \notin Alive => book'[p] = book[p]
                 /\ book[p] \in Alive =>
                       book'[p] \in Alive \/ (book'[p] \in {"closed", "gone"} /\ p \in todo')
                 /\ p \in balance' <=>
                       p \in balance \/ (book[p] \in Alive /\ book'[p] = "closed")
                 /\ p \in todo' => \/ p \in closing
                                   \/ book[p] \in Alive /\ book'[p] \in {"closed", "gone"}
        BY <2>2
    <2> QED
        BY <1>1, <2>3, <2>4 DEF Bar
<1>2. CASE Flatten
    BY <1>2 DEF Flatten
<1> QED
    BY <1>1, <1>2

-----------------------------------------------------------------------------
(* The steps *)


\* Every step keeps the types.
LEMMA TypeStep ==
    ASSUME PaperInv, PaperNext
    PROVE  PaperTypeOK'
<1> USE PaperAssumption DEF PaperInv, PaperTypeOK, BookStates
<1>1. CASE Restore
    BY <1>1, ImageType DEF Restore, Restorable, diskVars
<1>2. CASE StartFresh
    BY <1>2 DEF StartFresh, Fresh, FreshPrefix
<1>3. CASE Abandon
    BY <1>3 DEF Abandon
<1>4. CASE Reconcile
    BY <1>4 DEF Reconcile, Reconciled
<1>5. CASE SessionStart
    BY <1>5 DEF SessionStart, RefInv, Trading
<1>6. CASE ReconcileTimer
    BY <1>6 DEF ReconcileTimer, Reconciled
<1>7. CASE Bar
    BY <1>7, BookMoves DEF diskVars
<1>8. CASE Flatten
    BY <1>8, BookMoves DEF diskVars, In
<1>9. CASE PushLevels
    BY <1>9 DEF PushLevels, In
<1>10. CASE BarEvent
    BY <1>10 DEF BarEvent, In
<1>11. CASE EndEvaluation
    BY <1>11 DEF EndEvaluation, diskVars
<1>12. CASE WriteFails
    BY <1>12 DEF WriteFails, Fault, diskVars
<1>13. CASE Persist
    <2>1. BookImage \in [Plans -> BookStates \ {"closed"}]
        BY DEF BookImage
    <2>2. snapshot' \in [book : [Plans -> BookStates \ {"closed"}], balance : SUBSET Plans,
                         held : SUBSET Plans, closing : SUBSET Plans,
                         stale : SUBSET Plans, prefix : Nat, seq : Nat]
        BY <1>13, <2>1 DEF Persist
    <2> QED
        BY <1>13, <2>2 DEF Persist
<1>14. CASE Crash
    BY <1>14 DEF Crash, Fresh, diskVars
<1>15. ASSUME NEW p \in Plans, PushClose(p) PROVE PaperTypeOK'
    BY <1>15 DEF PushClose, Fault
<1>16. ASSUME NEW p \in Plans, RecordTrade(p) PROVE PaperTypeOK'
    BY <1>16 DEF RecordTrade
<1>17. ASSUME NEW p \in Plans, Submit(p) PROVE PaperTypeOK'
    BY <1>17 DEF Submit, Fault
<1>18. ASSUME NEW p \in Plans, Deal(p) PROVE PaperTypeOK'
    BY <1>18 DEF Deal, Fault
<1>19. ASSUME NEW p \in Plans, RecordTradeRaises(p) PROVE PaperTypeOK'
    BY <1>19 DEF RecordTradeRaises, Fault
<1> QED
    BY <1>1, <1>2, <1>3, <1>4, <1>5, <1>6, <1>7, <1>8, <1>9,
       <1>10, <1>11, <1>12, <1>13, <1>14, <1>15, <1>16, <1>17, <1>18, <1>19 DEF PaperNext

\* The references stay behind the sequence in use.
LEMMA RefStep ==
    ASSUME PaperInv, PaperNext
    PROVE  RefInv'
<1> USE PaperAssumption DEF PaperInv, PaperTypeOK, RefInv, RefsUnique, Trading, Behind
<1>1. CASE Restore
    BY <1>1, ImageType DEF Restore, Restorable, diskVars, ImageInv
<1>2. CASE StartFresh
    BY <1>2 DEF StartFresh, Fresh, FreshPrefix
<1>3. CASE Abandon
    BY <1>3 DEF Abandon
<1>4. CASE Reconcile
    BY <1>4 DEF Reconcile, Reconciled
<1>5. CASE SessionStart
    BY <1>5 DEF SessionStart
<1>6. CASE ReconcileTimer
    BY <1>6 DEF ReconcileTimer, Reconciled
<1>7. CASE Bar
    BY <1>7, BookMoves DEF diskVars
<1>8. CASE Flatten
    BY <1>8, BookMoves DEF diskVars
<1>9. CASE PushLevels
    BY <1>9 DEF PushLevels
<1>10. CASE BarEvent
    BY <1>10 DEF BarEvent
<1>11. CASE EndEvaluation
    BY <1>11 DEF EndEvaluation, diskVars
<1>12. CASE WriteFails
    BY <1>12 DEF WriteFails, Fault, diskVars
<1>13. CASE Persist
    BY <1>13 DEF Persist
<1>14. CASE Crash
    BY <1>14 DEF Crash, Fresh, diskVars
<1>15. ASSUME NEW p \in Plans, PushClose(p) PROVE RefInv'
    BY <1>15 DEF PushClose, Fault
<1>16. ASSUME NEW p \in Plans, RecordTrade(p) PROVE RefInv'
    BY <1>16 DEF RecordTrade
<1>17. ASSUME NEW p \in Plans, Submit(p) PROVE RefInv'
    BY <1>17 DEF Submit, Fault
<1>18. ASSUME NEW p \in Plans, Deal(p) PROVE RefInv'
    BY <1>18 DEF Deal, Fault
<1>19. ASSUME NEW p \in Plans, RecordTradeRaises(p) PROVE RefInv'
    BY <1>19 DEF RecordTradeRaises, Fault
<1> QED
    BY <1>1, <1>2, <1>3, <1>4, <1>5, <1>6, <1>7, <1>8, <1>9,
       <1>10, <1>11, <1>12, <1>13, <1>14, <1>15, <1>16, <1>17, <1>18, <1>19 DEF PaperNext

\* The steps leave each other what they should.
LEMMA StepsStep ==
    ASSUME PaperInv, PaperNext
    PROVE  StepInv'
<1> USE DEF PaperInv, PaperTypeOK, StepInv, Trading
<1>1. CASE Restore
    BY <1>1, ImageType DEF Restore, Restorable, diskVars
<1>2. CASE StartFresh
    BY <1>2 DEF StartFresh, Fresh, FreshPrefix
<1>3. CASE Abandon
    BY <1>3 DEF Abandon
<1>4. CASE Reconcile
    BY <1>4 DEF Reconcile, Reconciled
<1>5. CASE SessionStart
    BY <1>5 DEF SessionStart
<1>6. CASE ReconcileTimer
    BY <1>6 DEF ReconcileTimer, Reconciled
<1>7. CASE Bar
    BY <1>7, BookMoves DEF diskVars, AgreeInv, Agree, Alive
<1>8. CASE Flatten
    BY <1>8, BookMoves DEF diskVars, AgreeInv, Agree, Alive
<1>9. CASE PushLevels
    BY <1>9 DEF PushLevels
<1>10. CASE BarEvent
    BY <1>10 DEF BarEvent
<1>11. CASE EndEvaluation
    BY <1>11 DEF EndEvaluation, diskVars
<1>12. CASE WriteFails
    BY <1>12 DEF WriteFails, Fault, diskVars
<1>13. CASE Persist
    BY <1>13 DEF Persist
<1>14. CASE Crash
    BY <1>14 DEF Crash, Fresh, diskVars
<1>15. ASSUME NEW p \in Plans, PushClose(p) PROVE StepInv'
    BY <1>15 DEF PushClose, Fault
<1>16. ASSUME NEW p \in Plans, RecordTrade(p) PROVE StepInv'
    BY <1>16 DEF RecordTrade
<1>17. ASSUME NEW p \in Plans, Submit(p) PROVE StepInv'
    BY <1>17 DEF Submit, Fault
<1>18. ASSUME NEW p \in Plans, Deal(p) PROVE StepInv'
    BY <1>18 DEF Deal, Fault
<1>19. ASSUME NEW p \in Plans, RecordTradeRaises(p) PROVE StepInv'
    BY <1>19 DEF RecordTradeRaises, Fault
<1> QED
    BY <1>1, <1>2, <1>3, <1>4, <1>5, <1>6, <1>7, <1>8, <1>9,
       <1>10, <1>11, <1>12, <1>13, <1>14, <1>15, <1>16, <1>17, <1>18, <1>19 DEF PaperNext

\* Only a confirmed entry leaves a trace.
LEMMA EntryStep ==
    ASSUME PaperInv, PaperNext
    PROVE  EntryInv'
<1> USE DEF PaperInv, PaperTypeOK, EntryInv, Known
<1>1. CASE Restore
    BY <1>1, ImageType DEF Restore, Restorable, diskVars, ImageInv, StepInv, Trading
<1>2. CASE StartFresh
    BY <1>2 DEF StartFresh, Fresh, FreshPrefix
<1>3. CASE Abandon
    BY <1>3 DEF Abandon
<1>4. CASE Reconcile
    BY <1>4 DEF Reconcile, Reconciled, Pending
<1>5. CASE SessionStart
    BY <1>5 DEF SessionStart
<1>6. CASE ReconcileTimer
    BY <1>6 DEF ReconcileTimer, Reconciled, Pending
<1>7. CASE Bar
    BY <1>7, BookMoves DEF diskVars, Alive
<1>8. CASE Flatten
    BY <1>8, BookMoves DEF diskVars, Alive
<1>9. CASE PushLevels
    BY <1>9 DEF PushLevels
<1>10. CASE BarEvent
    BY <1>10 DEF BarEvent, In
<1>11. CASE EndEvaluation
    BY <1>11 DEF EndEvaluation, diskVars
<1>12. CASE WriteFails
    BY <1>12 DEF WriteFails, Fault, diskVars
<1>13. CASE Persist
    BY <1>13 DEF Persist
<1>14. CASE Crash
    BY <1>14 DEF Crash, Fresh, diskVars
<1>15. ASSUME NEW p \in Plans, PushClose(p) PROVE EntryInv'
    BY <1>15 DEF PushClose, Fault
<1>16. ASSUME NEW p \in Plans, RecordTrade(p) PROVE EntryInv'
    BY <1>16 DEF RecordTrade, Unrecorded, In
<1>17. ASSUME NEW p \in Plans, Submit(p) PROVE EntryInv'
    BY <1>17 DEF Submit, Fault
<1>18. ASSUME NEW p \in Plans, Deal(p) PROVE EntryInv'
    BY <1>18 DEF Deal, Fault, RefInv, StepInv
<1>19. ASSUME NEW p \in Plans, RecordTradeRaises(p) PROVE EntryInv'
    BY <1>19 DEF RecordTradeRaises, Fault, Unrecorded, In
<1> QED
    BY <1>1, <1>2, <1>3, <1>4, <1>5, <1>6, <1>7, <1>8, <1>9,
       <1>10, <1>11, <1>12, <1>13, <1>14, <1>15, <1>16, <1>17, <1>18, <1>19 DEF PaperNext

\* A trade is recorded once.
LEMMA TradeStep ==
    ASSUME PaperInv, PaperNext
    PROVE  TradeInv'
<1> USE DEF PaperInv, PaperTypeOK, TradeInv, Alive
<1>1. CASE Restore
    BY <1>1, ImageType DEF Restore, Restorable, diskVars, ImageInv, StepInv, Trading
<1>2. CASE StartFresh
    BY <1>2 DEF StartFresh, Fresh, FreshPrefix, StepInv, Trading
<1>3. CASE Abandon
    BY <1>3 DEF Abandon
<1>4. CASE Reconcile
    BY <1>4 DEF Reconcile, Reconciled
<1>5. CASE SessionStart
    BY <1>5 DEF SessionStart
<1>6. CASE ReconcileTimer
    BY <1>6 DEF ReconcileTimer, Reconciled
<1>7. CASE Bar
    BY <1>7, BookMoves DEF diskVars, Alive
<1>8. CASE Flatten
    BY <1>8, BookMoves DEF diskVars, Alive
<1>9. CASE PushLevels
    BY <1>9 DEF PushLevels
<1>10. CASE BarEvent
    BY <1>10 DEF BarEvent
<1>11. CASE EndEvaluation
    BY <1>11 DEF EndEvaluation, diskVars
<1>12. CASE WriteFails
    BY <1>12 DEF WriteFails, Fault, diskVars
<1>13. CASE Persist
    BY <1>13 DEF Persist
<1>14. CASE Crash
    BY <1>14 DEF Crash, Fresh, diskVars
<1>15. ASSUME NEW p \in Plans, PushClose(p) PROVE TradeInv'
    BY <1>15 DEF PushClose, Fault
<1>16. ASSUME NEW p \in Plans, RecordTrade(p) PROVE TradeInv'
    BY <1>16 DEF RecordTrade, Unrecorded, In
<1>17. ASSUME NEW p \in Plans, Submit(p) PROVE TradeInv'
    BY <1>17 DEF Submit, Fault
<1>18. ASSUME NEW p \in Plans, Deal(p) PROVE TradeInv'
    BY <1>18 DEF Deal, Fault, StepInv, EntryInv, Known
<1>19. ASSUME NEW p \in Plans, RecordTradeRaises(p) PROVE TradeInv'
    BY <1>19 DEF RecordTradeRaises, Fault, Unrecorded, In
<1> QED
    BY <1>1, <1>2, <1>3, <1>4, <1>5, <1>6, <1>7, <1>8, <1>9,
       <1>10, <1>11, <1>12, <1>13, <1>14, <1>15, <1>16, <1>17, <1>18, <1>19 DEF PaperNext

\* Book and venue keep agreeing.
LEMMA AgreeStep ==
    ASSUME PaperInv, PaperNext
    PROVE  AgreeInv'
<1> USE DEF PaperInv, PaperTypeOK, AgreeInv, Agree, Alive, Known, Trading
<1>1. CASE Restore
    BY <1>1, ImageType DEF Restore, Restorable, diskVars, ImageInv
<1>2. CASE StartFresh
    BY <1>2 DEF StartFresh, Fresh, FreshPrefix
<1>3. CASE Abandon
    BY <1>3 DEF Abandon
<1>4. CASE Reconcile
    BY <1>4 DEF Reconcile, Reconciled, Refuses, Disputed, RefInv, StepInv
<1>5. CASE SessionStart
    BY <1>5 DEF SessionStart
<1>6. CASE ReconcileTimer
    BY <1>6 DEF ReconcileTimer, Reconciled
<1>7. CASE Bar
    BY <1>7, BookMoves DEF diskVars
<1>8. CASE Flatten
    BY <1>8, BookMoves DEF diskVars
<1>9. CASE PushLevels
    BY <1>9 DEF PushLevels
<1>10. CASE BarEvent
    BY <1>10 DEF BarEvent
<1>11. CASE EndEvaluation
    BY <1>11 DEF EndEvaluation, diskVars
<1>12. CASE WriteFails
    BY <1>12 DEF WriteFails, Fault, diskVars, StepInv, EntryInv
<1>13. CASE Persist
    BY <1>13 DEF Persist
<1>14. CASE Crash
    BY <1>14 DEF Crash, Fresh, diskVars
<1>15. ASSUME NEW p \in Plans, PushClose(p) PROVE AgreeInv'
    BY <1>15 DEF PushClose, Fault, StepInv
<1>16. ASSUME NEW p \in Plans, RecordTrade(p) PROVE AgreeInv'
    BY <1>16 DEF RecordTrade
<1>17. ASSUME NEW p \in Plans, Submit(p) PROVE AgreeInv'
    BY <1>17 DEF Submit, Fault
<1>18. ASSUME NEW p \in Plans, Deal(p) PROVE AgreeInv'
    BY <1>18 DEF Deal, Fault, StepInv, EntryInv
<1>19. ASSUME NEW p \in Plans, RecordTradeRaises(p) PROVE AgreeInv'
    BY <1>19 DEF RecordTradeRaises, Fault
<1> QED
    BY <1>1, <1>2, <1>3, <1>4, <1>5, <1>6, <1>7, <1>8, <1>9,
       <1>10, <1>11, <1>12, <1>13, <1>14, <1>15, <1>16, <1>17, <1>18, <1>19 DEF PaperNext

\* Nothing is lost as long as every start restored.
LEMMA WholeStep ==
    ASSUME PaperInv, PaperNext
    PROVE  WholeInv'
<1> USE DEF PaperInv, PaperTypeOK, WholeInv, Complete, Recorded, Unrecorded, In
<1>1. CASE Restore
    BY <1>1, ImageType DEF Restore, Restorable, diskVars, ImageInv, StepInv, Trading
<1>2. CASE StartFresh
    <2> SUFFICES ASSUME intact' PROVE WholeInv'
        OBVIOUS
    <2>1. intact /\ \A p \in Plans : entry[p] = "none"
        BY <1>2 DEF StartFresh
    <2>2. lastBar.balance = {} /\ lastBar.open = {} /\ Recorded = {}
        BY <2>1 DEF EntryInv, Known
    <2>3. step' = "resume" /\ balance' = {} /\ Recorded' = {} /\ Unrecorded' = {}
        BY <1>2, <2>2 DEF StartFresh, Fresh
    <2> QED
        BY <1>2, <2>1, <2>3 DEF StartFresh
<1>3. CASE Abandon
    BY <1>3 DEF Abandon
<1>4. CASE Reconcile
    BY <1>4 DEF Reconcile, Reconciled
<1>5. CASE SessionStart
    BY <1>5 DEF SessionStart
<1>6. CASE ReconcileTimer
    BY <1>6 DEF ReconcileTimer, Reconciled
<1>7. CASE Bar
    BY <1>7, BookMoves DEF diskVars, Alive, TradeInv
<1>8. CASE Flatten
    BY <1>8, BookMoves DEF diskVars, Alive, TradeInv
<1>9. CASE PushLevels
    BY <1>9 DEF PushLevels
<1>10. CASE BarEvent
    BY <1>10 DEF BarEvent
<1>11. CASE EndEvaluation
    BY <1>11 DEF EndEvaluation, diskVars
<1>12. CASE WriteFails
    BY <1>12 DEF WriteFails, Fault, diskVars
<1>13. CASE Persist
    BY <1>13 DEF Persist
<1>14. CASE Crash
    BY <1>14 DEF Crash, Fresh, diskVars
<1>15. ASSUME NEW p \in Plans, PushClose(p) PROVE WholeInv'
    BY <1>15 DEF PushClose, Fault, StepInv
<1>16. ASSUME NEW p \in Plans, RecordTrade(p) PROVE WholeInv'
    BY <1>16 DEF RecordTrade
<1>17. ASSUME NEW p \in Plans, Submit(p) PROVE WholeInv'
    BY <1>17 DEF Submit, Fault
<1>18. ASSUME NEW p \in Plans, Deal(p) PROVE WholeInv'
    BY <1>18 DEF Deal, Fault, StepInv, EntryInv, Known
<1>19. ASSUME NEW p \in Plans, RecordTradeRaises(p) PROVE WholeInv'
    BY <1>19 DEF RecordTradeRaises, Fault
<1> QED
    BY <1>1, <1>2, <1>3, <1>4, <1>5, <1>6, <1>7, <1>8, <1>9,
       <1>10, <1>11, <1>12, <1>13, <1>14, <1>15, <1>16, <1>17, <1>18, <1>19 DEF PaperNext

\* The image keeps its promises: it has just been taken, or nothing it depends on was
\* written.
LEMMA ImageStep ==
    ASSUME PaperInv, PaperNext
    PROVE  ImageInv'
<1> USE DEF PaperInv, ImageInv, Complete, Recorded
<1> SUFFICES ASSUME Restorable' PROVE ImageInv'
    OBVIOUS
<1>1. CASE Persist
    <2>1. /\ snapshot'.book = BookImage /\ snapshot'.balance = balance /\ snapshot'.held = held
          /\ snapshot'.closing = closing /\ snapshot'.prefix = prefix /\ snapshot'.seq = seq
          /\ UNCHANGED <<entry, ref, recorded, sessions, intact>>
          /\ step = "persist" /\ Unrecorded = {}
        BY <1>1 DEF Persist
    <2>2. \A p \in Plans : BookImage[p] = IF book[p] = "closed" THEN "gone" ELSE book[p]
        BY DEF BookImage
    <2>3. Behind(prefix, seq) /\ prefix < sessions
        BY <2>1 DEF RefInv, Behind, Trading
    <2>4. Agree(BookImage, held, closing, {})
        BY <2>1, <2>2 DEF AgreeInv, Agree, Alive
    <2>5. \A p \in Plans : /\ entry[p] # "filled" => BookImage[p] = "none" /\ p \notin balance
                           /\ recorded[p] > 0 => BookImage[p] \in {"none", "gone"}
        BY <2>1, <2>2 DEF EntryInv, TradeInv, Known, Unrecorded, In, Alive, PaperTypeOK, BookStates
    <2>6. intact => balance = Recorded /\ Complete(BookImage, held)
        BY <2>1, <2>2 DEF WholeInv
    <2> QED
        BY <2>1, <2>3, <2>4, <2>5, <2>6 DEF Agree, Behind
<1>2. CASE ~Persist
    <2>1. Restorable /\ UNCHANGED <<snapshot, entry, ref, recorded>>
        BY <1>2, Watermark
    <2>2. /\ sessions' >= sessions /\ (intact' => intact)
          /\ sessions \in Nat /\ sessions' \in Nat /\ snapshot.prefix \in Nat
        BY <2>1, Monotone, TypeStep, ImageType, PaperAssumption DEF PaperTypeOK
    <2> QED
        BY <2>1, <2>2 DEF Agree, Behind
<1> QED
    BY <1>1, <1>2

-----------------------------------------------------------------------------
(* The theorems *)

\* A first start has nothing to restore.
LEMMA PaperInitInv == PaperInit => PaperInv
<1> SUFFICES ASSUME PaperInit PROVE PaperInv
    OBVIOUS
<1> USE DEF PaperInit
<1>1. PaperTypeOK
    <2>1. /\ sessions \in 0..(MaxCrashes + 1) /\ recorded \in [Plans -> Nat]
          /\ prefix \in Nat /\ seq \in Nat
        BY PaperAssumption
    <2>2. /\ newIntents \in BOOLEAN /\ newTrades \in BOOLEAN
          /\ flattening \in BOOLEAN /\ intact \in BOOLEAN
        BY Zenon
    <2> QED
        BY <2>1, <2>2 DEF PaperTypeOK, BookStates
<1>2. RefInv /\ StepInv
    BY PaperAssumption DEF RefInv, RefsUnique, StepInv, Trading
<1>3. EntryInv /\ TradeInv
    BY DEF EntryInv, TradeInv
<1>4. AgreeInv /\ WholeInv /\ ImageInv
    BY DEF AgreeInv, Agree, Alive, WholeInv, ImageInv, Restorable
<1> QED
    BY <1>1, <1>2, <1>3, <1>4 DEF PaperInv

\* The inductive invariant.
LEMMA PaperInvariant == PaperSpec => []PaperInv
<1>1. PaperInv /\ [PaperNext]_paperVars => PaperInv'
    <2> SUFFICES ASSUME PaperInv, [PaperNext]_paperVars PROVE PaperInv'
        OBVIOUS
    <2>1. CASE PaperNext
        BY <2>1, TypeStep, RefStep, StepsStep, EntryStep, TradeStep, AgreeStep, WholeStep, ImageStep
           DEF PaperInv
    <2>2. CASE UNCHANGED paperVars
        BY <2>2 DEF PaperInv, paperVars, diskVars, memVars, PaperTypeOK, RefInv, StepInv, EntryInv,
           TradeInv, RefsUnique, AgreeInv, Agree, WholeInv, ImageInv, Restorable, Behind, Complete,
           Recorded, Unrecorded, In, Known
    <2> QED
        BY <2>1, <2>2
<1> QED
    BY PaperInitInv, <1>1, PTL DEF PaperSpec

\* The types.  That a start counts its session once, however often a start-up is
\* refused, is part of them.
THEOREM PaperTypeCorrect == PaperSpec => []PaperTypeOK
<1>1. PaperInv => PaperTypeOK
    BY DEF PaperInv
<1> QED
    BY PaperInvariant, <1>1, PTL

\* No broker reference is issued twice, over any number of restores and fresh starts.
THEOREM RefsUniqueCorrect == PaperSpec => []RefsUnique
<1>1. PaperInv => RefsUnique
    BY DEF PaperInv, RefInv
<1> QED
    BY PaperInvariant, <1>1, PTL

\* Over any number of kills and restores, a trade is in trades.jsonl once, and once more
\* for every append of it that raised with the row in the file.
THEOREM TradesOnceCorrect == PaperSpec => []TradesOnce
<1>1. PaperInv => TradesOnce
    BY DEF PaperInv, TradeInv, TradesOnce
<1> QED
    BY PaperInvariant, <1>1, PTL

\* Between cycles the book and the venue agree, whatever was refused, lost or restored.
THEOREM VenueAgreesCorrect == PaperSpec => []VenueAgrees
<1>1. PaperInv => VenueAgrees
    BY DEF PaperInv, PaperTypeOK, AgreeInv, Agree, Alive, VenueAgrees, In, Trading
<1> QED
    BY PaperInvariant, <1>1, PTL

\* Restarts that restore lose nothing of the account, the book or the record.
THEOREM RestoredWholeCorrect == PaperSpec => []RestoredWhole
<1>1. PaperInv => RestoredWhole
    BY DEF PaperInv, PaperTypeOK, WholeInv, Complete, RestoredWhole, AgreeInv, Known, Trading
<1> QED
    BY PaperInvariant, <1>1, PTL
=============================================================================
