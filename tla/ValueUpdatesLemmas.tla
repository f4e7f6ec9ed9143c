------------------------ MODULE ValueUpdatesLemmas -------------------------
(***************************************************************************)
(* The inductive invariant of ValueUpdates, and the steps that keep its    *)
(* types, its one raiser and the order of commits.                         *)
(***************************************************************************)
EXTENDS ValueUpdates, TLAPS

(* The threads that queued a batch and are not done with it. *)
InQueue(t) == pc[t] \in {"turn", "next", "log", "report"}

(* Commit numbers: what is pending was stored, and differs from what was   *)
(* pushed and from whatever else is pending for the same attribute.        *)
Numbered ==
  \A c \in Cells :
    /\ latest[c] <= clock /\ deferred.held[c].seq <= clock
    /\ deferred.held[c].seq # 0 => deferred.held[c].seq # latest[c]
    /\ \A i \in 1 .. queued : batches[i].triggers[c].seq <= latest[c]
    /\ \A t \in Threads :
         /\ own[t][c].seq <= clock
         /\ own[t][c].seq # 0 => /\ own[t][c].seq # latest[c]
                                 /\ own[t][c].seq # deferred.held[c].seq
                                 /\ \A u \in Threads \ {t} : own[u][c].seq # own[t][c].seq

(* A batch that some thread waits for has that thread at the queue, and    *)
(* one that no thread waits for has a raiser.                              *)
Attended ==
  /\ \A t \in Threads : mine[t] <= queued
  /\ \A i \in taken + 1 .. queued :
       batches[i].awaited => \E t \in Threads : InQueue(t) /\ mine[t] = i
  /\ taken < queued => raiser # None \/ batches[taken + 1].awaited

(* The gate is written by the holder of the data model lock. *)
Gated ==
  /\ \A t \in Threads : pc[t] \in {"tick", "tickValues", "ticking"} <=> t \in gate.readers
  /\ deferred.active => gate.writer # None
  /\ gate.writer # None => gate.readers = {} /\ gate.writer = locker
  /\ \A t \in Threads :
       /\ pc[t] \in {"gate", "open", "unlock"} => locker = t
       /\ pc[t] = "gate" => gate.writer = None
       /\ pc[t] = "open" => gate.writer = t
       /\ pc[t] = "unlock" \/ (InQueue(t) /\ back[t] = "unlock") =>
            locker = t /\ ~deferred.active

VuInv ==
  VuTypeOK /\ OneRaiser /\ Numbered /\ CommitOrder /\ Attended /\ ReturnsRaised /\ Gated

-----------------------------------------------------------------------------
(* Triggers and submissions. *)

(* NoTriggers and what a store makes of it are batches. *)
LEMMA BatchTypes ==
  ASSUME VuTypeOK
  PROVE /\ Blank \in Trigger /\ NoTriggers \in [Cells -> Trigger]
        /\ \A c \in Cells, v \in Values :
             /\ Stored(c, v) \in Trigger
             /\ [NoTriggers EXCEPT ![c] = Stored(c, v)] \in [Cells -> Trigger]
<1>1. Blank \in Trigger BY CellsAssumption DEF Blank, Trigger
<1>2. ASSUME NEW c \in Cells, NEW v \in Values PROVE Stored(c, v) \in Trigger
  BY CellsAssumption DEF Stored, Trigger, UpdateTriggers, VuTypeOK
<1> QED BY <1>1, <1>2 DEF NoTriggers

(* What push leaves: the batches that were queued, and at most one more.   *)
LEMMA PushEffect ==
  ASSUME VuTypeOK, NEW t \in Threads, NEW new \in [Cells -> Trigger], Push(t, new)
  PROVE /\ queued' \in Nat /\ batches' \in [1 .. queued' -> Batch]
        /\ queued' = queued \/ queued' = queued + 1
        /\ queued' >= queued
        /\ \A i \in 1 .. queued : batches'[i] = batches[i]
        /\ queued' = queued + 1 => batches'[queued + 1] = QueuedBatch(t, new)
        /\ latest' \in [Cells -> Nat]
        /\ \A c \in Cells : latest'[c] = IF c \in Kept(new) THEN new[c].seq ELSE latest[c]
<1>1. QueuedBatch(t, new) \in Batch
  BY BatchTypes DEF QueuedBatch, Batch
<1>2. latest' \in [Cells -> Nat]
  BY DEF Push, Trigger, VuTypeOK
<1>3. CASE Raises(new)
  BY <1>1, <1>2, <1>3 DEF Push, VuTypeOK
<1>4. CASE ~Raises(new)
  BY <1>2, <1>4 DEF Push, VuTypeOK
<1> QED BY <1>3, <1>4

(* Merging batches gives a batch. *)
LEMMA MergeTypes ==
  ASSUME NEW held \in [Cells -> Trigger], NEW new \in [Cells -> Trigger]
  PROVE MergeAll(held, new) \in [Cells -> Trigger]
BY DEF MergeAll, Merged, Trigger

(* A submission is deferred or pushed. *)
LEMMA SubmitEffect ==
  ASSUME VuTypeOK, NEW t \in Threads, NEW new \in [Cells -> Trigger], Submit(t, new)
  PROVE /\ deferred' \in [active : BOOLEAN, held : [Cells -> Trigger]]
        /\ deferred'.active = deferred.active
        /\ queued' \in Nat /\ batches' \in [1 .. queued' -> Batch]
        /\ queued' = queued \/ queued' = queued + 1
        /\ queued' >= queued
        /\ \A i \in 1 .. queued : batches'[i] = batches[i]
        /\ queued' = queued + 1 => batches'[queued + 1] = QueuedBatch(t, new)
        /\ latest' \in [Cells -> Nat]
<1>1. CASE deferred.active
  <2>1. MergeAll(deferred.held, new) \in [Cells -> Trigger]
    BY MergeTypes, Zenon DEF VuTypeOK
  <2>2. /\ deferred' = [deferred EXCEPT !.held = MergeAll(deferred.held, new)]
        /\ UNCHANGED <<batches, queued, latest>>
    BY <1>1, Zenon DEF Submit
  <2>3. /\ deferred' \in [active : BOOLEAN, held : [Cells -> Trigger]]
        /\ deferred'.active = deferred.active
    BY <2>1, <2>2, Zenon DEF VuTypeOK
  <2> QED BY <2>2, <2>3 DEF VuTypeOK
<1>2. CASE ~deferred.active
  BY <1>2, PushEffect DEF Submit, VuTypeOK
<1> QED BY <1>1, <1>2

(* After a submission the thread goes to the queue, or on. *)
LEMMA ThenRaiseEffect ==
  ASSUME VuTypeOK, NEW t \in Threads, NEW return \in {"idle", "unlock"}, queued' \in Nat,
         ThenRaise(t, return)
  PROVE /\ pc' \in [Threads -> Places] /\ mine' \in [Threads -> Nat]
        /\ back' \in [Threads -> {"idle", "unlock"}]
        /\ queued' # queued => /\ pc' = [pc EXCEPT ![t] = "turn"]
                               /\ mine' = [mine EXCEPT ![t] = queued']
                               /\ back' = [back EXCEPT ![t] = return]
        /\ queued' = queued => /\ pc' = [pc EXCEPT ![t] = return]
                               /\ mine' = mine /\ back' = back
<1>1. CASE queued' # queued
  <2>1. /\ pc' = [pc EXCEPT ![t] = "turn"]
        /\ mine' = [mine EXCEPT ![t] = queued']
        /\ back' = [back EXCEPT ![t] = return]
    BY <1>1 DEF ThenRaise
  <2>2. pc' \in [Threads -> Places] BY <2>1 DEF VuTypeOK, Places
  <2>3. mine' \in [Threads -> Nat] BY <2>1 DEF VuTypeOK
  <2>4. back' \in [Threads -> {"idle", "unlock"}] BY <2>1 DEF VuTypeOK
  <2> QED BY <1>1, <2>1, <2>2, <2>3, <2>4
<1>2. CASE queued' = queued
  <2>1. pc' = [pc EXCEPT ![t] = return] /\ mine' = mine /\ back' = back
    BY <1>2 DEF ThenRaise
  <2>2. return \in Places BY DEF Places
  <2> QED BY <1>2, <2>1, <2>2 DEF VuTypeOK
<1> QED BY <1>1, <1>2

(* Every step keeps the types. *)
LEMMA TypeStep ==
  ASSUME VuTypeOK, OneRaiser, [VuNext]_vuVars
  PROVE VuTypeOK'
<1>1. ASSUME NEW t \in Threads, NEW c \in Cells, NEW v \in Values, StoreLeaf(t, c, v)
     PROVE VuTypeOK'
  BY <1>1, BatchTypes DEF StoreLeaf, lockVars, queueVars, VuTypeOK, Places
<1>2. ASSUME NEW t \in Threads, SubmitArray(t)
     PROVE VuTypeOK'
  <2>1. own[t] \in [Cells -> Trigger] /\ NoTriggers \in [Cells -> Trigger]
    BY BatchTypes DEF VuTypeOK
  <2>2. Submit(t, own[t]) BY <1>2 DEF SubmitArray
  <2>3. /\ queued' \in Nat /\ batches' \in [1 .. queued' -> Batch] /\ queued' >= queued
        /\ latest' \in [Cells -> Nat]
    BY <2>1, <2>2, SubmitEffect
  <2>4. deferred' \in [active : BOOLEAN, held : [Cells -> Trigger]]
    BY <2>1, <2>2, SubmitEffect
  <2>5. /\ pc' \in [Threads -> Places] /\ mine' \in [Threads -> Nat]
        /\ back' \in [Threads -> {"idle", "unlock"}]
    BY <1>2, <2>3, ThenRaiseEffect DEF SubmitArray
  <2>6. /\ UNCHANGED <<taken, raised, raiser, locker, gate, engine, todo>>
        /\ own' \in [Threads -> [Cells -> Trigger]]
    BY <1>2, <2>1 DEF SubmitArray, lockVars, VuTypeOK
  <2>7. /\ value' \in [Cells -> Values] /\ clock' \in Nat
        /\ valueLock' \in [writer : Threads \cup {None}, readers : SUBSET Threads]
    BY <1>2, Zenon DEF SubmitArray, VuTypeOK
  <2>8. raised' \in 0 .. queued' /\ taken' \in raised' .. queued'
    BY <2>3, <2>6 DEF VuTypeOK
  <2> QED BY <2>3, <2>4, <2>5, <2>6, <2>7, <2>8, Zenon DEF VuTypeOK
<1>3. ASSUME NEW t \in Threads, EndWrite(t)
     PROVE VuTypeOK'
  BY <1>3, CellsAssumption, Zenon DEF EndWrite, lockVars, queueVars, VuTypeOK, Places
<1>4. ASSUME NEW t \in Threads, RaiseWritten(t)
     PROVE VuTypeOK'
  <2>1. own[t] \in [Cells -> Trigger] /\ NoTriggers \in [Cells -> Trigger]
    BY BatchTypes DEF VuTypeOK
  <2>2. Submit(t, own[t]) BY <1>4 DEF RaiseWritten
  <2>3. /\ queued' \in Nat /\ batches' \in [1 .. queued' -> Batch] /\ queued' >= queued
        /\ latest' \in [Cells -> Nat]
    BY <2>1, <2>2, SubmitEffect
  <2>4. deferred' \in [active : BOOLEAN, held : [Cells -> Trigger]]
    BY <2>1, <2>2, SubmitEffect
  <2>5. /\ pc' \in [Threads -> Places] /\ mine' \in [Threads -> Nat]
        /\ back' \in [Threads -> {"idle", "unlock"}]
    BY <1>4, <2>3, ThenRaiseEffect DEF RaiseWritten
  <2>6. /\ UNCHANGED <<taken, raised, raiser, locker, gate, engine, todo>>
        /\ own' \in [Threads -> [Cells -> Trigger]]
    BY <1>4, <2>1 DEF RaiseWritten, lockVars, VuTypeOK
  <2>7. /\ value' \in [Cells -> Values] /\ clock' \in Nat
        /\ valueLock' \in [writer : Threads \cup {None}, readers : SUBSET Threads]
    BY <1>4 DEF RaiseWritten, VuTypeOK
  <2>8. raised' \in 0 .. queued' /\ taken' \in raised' .. queued'
    BY <2>3, <2>6 DEF VuTypeOK
  <2> QED BY <2>3, <2>4, <2>5, <2>6, <2>7, <2>8, Zenon DEF VuTypeOK
<1>5. ASSUME NEW t \in Threads, AwaitTurn(t)
     PROVE VuTypeOK'
  <2>1. raiser' \in Threads \cup {None} /\ pc' \in [Threads -> Places]
    <3>1. \E place \in Places : pc' = [pc EXCEPT ![t] = place]
      BY <1>5 DEF AwaitTurn, VuTypeOK, Places
    <3> QED
      BY <1>5, <3>1 DEF AwaitTurn, VuTypeOK
  <2> QED BY <1>5, <2>1 DEF AwaitTurn, lockVars, VuTypeOK
<1>6. ASSUME NEW t \in Threads, EndTurn(t)
     PROVE VuTypeOK'
  BY <1>6, CellsAssumption DEF EndTurn, lockVars, queueVars, VuTypeOK, Places
<1>7. ASSUME NEW t \in Threads, TakeBatch(t)
     PROVE VuTypeOK'
  BY <1>7, CellsAssumption DEF TakeBatch, lockVars, queueVars, VuTypeOK, Places
<1>8. ASSUME NEW t \in Threads, LogUpdates(t)
     PROVE VuTypeOK'
  BY <1>8, CellsAssumption DEF LogUpdates, lockVars, queueVars, VuTypeOK, Places
<1>9. ASSUME NEW t \in Threads, RaiseReports(t)
     PROVE VuTypeOK'
  <2>1. taken = raised + 1 BY <1>9 DEF RaiseReports, OneRaiser
  <2> QED BY <2>1, <1>9 DEF RaiseReports, lockVars, VuTypeOK, Places
<1>10. ASSUME NEW t \in Threads, TakeGate(t)
     PROVE VuTypeOK'
  BY <1>10, CellsAssumption, Zenon DEF TakeGate, lockVars, queueVars, VuTypeOK, Places
<1>11. ASSUME NEW t \in Threads, StartDeferring(t)
     PROVE VuTypeOK'
  BY <1>11, CellsAssumption, Zenon DEF StartDeferring, lockVars, queueVars, VuTypeOK, Places
<1>12. ASSUME NEW t \in Threads, Unlock(t)
     PROVE VuTypeOK'
  BY <1>12, CellsAssumption, Zenon DEF Unlock, lockVars, queueVars, VuTypeOK, Places
<1>13. ASSUME NEW t \in Threads, TickEngine(t)
     PROVE VuTypeOK'
  BY <1>13, CellsAssumption DEF TickEngine, lockVars, queueVars, VuTypeOK, Places
<1>14. ASSUME NEW t \in Threads, TickValues(t)
     PROVE VuTypeOK'
  BY <1>14, CellsAssumption, Zenon DEF TickValues, lockVars, queueVars, VuTypeOK, Places
<1>15. ASSUME NEW t \in Threads, EndTick(t)
     PROVE VuTypeOK'
  BY <1>15, CellsAssumption, Zenon DEF EndTick, lockVars, queueVars, VuTypeOK, Places
<1>16. ASSUME NEW t \in Threads, StartTick(t)
     PROVE VuTypeOK'
  BY <1>16, CellsAssumption, Zenon DEF StartTick, lockVars, queueVars, VuTypeOK, Places
<1>17. ASSUME NEW t \in Threads, NEW c \in Cells, NEW v \in Values, Update(t, c, v)
     PROVE VuTypeOK'
  <2>1. [NoTriggers EXCEPT ![c] = Stored(c, v)] \in [Cells -> Trigger] 
    BY BatchTypes
  <2>2. Submit(t, [NoTriggers EXCEPT ![c] = Stored(c, v)]) BY <1>17 DEF Update
  <2>3. /\ queued' \in Nat /\ batches' \in [1 .. queued' -> Batch] /\ queued' >= queued
        /\ latest' \in [Cells -> Nat]
    BY <2>1, <2>2, SubmitEffect, Zenon
  <2>4. deferred' \in [active : BOOLEAN, held : [Cells -> Trigger]]
    BY <2>1, <2>2, SubmitEffect, Zenon
  <2>5. /\ pc' \in [Threads -> Places] /\ mine' \in [Threads -> Nat]
        /\ back' \in [Threads -> {"idle", "unlock"}]
    BY <1>17, <2>3, ThenRaiseEffect DEF Update
  <2>6. /\ UNCHANGED <<taken, raised, raiser, locker, gate, engine, todo>>
        /\ own' \in [Threads -> [Cells -> Trigger]]
    BY <1>17, <2>1 DEF Update, lockVars, VuTypeOK
  <2>7. /\ value' \in [Cells -> Values] /\ clock' \in Nat
        /\ valueLock' \in [writer : Threads \cup {None}, readers : SUBSET Threads]
    BY <1>17 DEF Update, VuTypeOK
  <2>8. raised' \in 0 .. queued' /\ taken' \in raised' .. queued'
    BY <2>3, <2>6 DEF VuTypeOK
  <2> QED BY <2>3, <2>4, <2>5, <2>6, <2>7, <2>8, Zenon DEF VuTypeOK
<1>18. ASSUME NEW t \in Threads, NEW c \in Cells, NEW v \in Values, NestedUpdate(t, c, v)
     PROVE VuTypeOK'
  <2>1. [NoTriggers EXCEPT ![c] = Stored(c, v)] \in [Cells -> Trigger] 
    BY BatchTypes
  <2>2. Submit(t, [NoTriggers EXCEPT ![c] = Stored(c, v)]) BY <1>18 DEF NestedUpdate
  <2>3. /\ queued' \in Nat /\ batches' \in [1 .. queued' -> Batch] /\ queued' >= queued
        /\ latest' \in [Cells -> Nat]
    BY <2>1, <2>2, SubmitEffect, Zenon
  <2>4. deferred' \in [active : BOOLEAN, held : [Cells -> Trigger]]
    BY <2>1, <2>2, SubmitEffect, Zenon
  <2>5. raised' \in 0 .. queued' /\ taken' \in raised' .. queued'
    BY <1>18, <2>3 DEF NestedUpdate, VuTypeOK
  <2>6. value' \in [Cells -> Values] /\ clock' \in Nat
    BY <1>18 DEF NestedUpdate, VuTypeOK
  <2>7. UNCHANGED <<valueLock, raiser, locker, gate, engine, pc, todo, own, mine, back>>
    BY <1>18 DEF NestedUpdate, lockVars
  <2> QED BY <2>3, <2>4, <2>5, <2>6, <2>7, Zenon DEF VuTypeOK
<1>19. ASSUME NEW t \in Threads, NEW cells \in Bulk, StartBulk(t, cells)
     PROVE VuTypeOK'
  BY <1>19, CellsAssumption, Zenon DEF StartBulk, lockVars, queueVars, VuTypeOK, Places
<1>20. ASSUME NEW t \in Threads, LockDataModel(t)
     PROVE VuTypeOK'
  BY <1>20, CellsAssumption DEF LockDataModel, lockVars, queueVars, VuTypeOK, Places
<1>21. ASSUME NEW t \in Threads, ReleaseDeferred(t)
     PROVE VuTypeOK'
  <2>1. deferred.held \in [Cells -> Trigger] /\ NoTriggers \in [Cells -> Trigger]
    BY BatchTypes DEF VuTypeOK
  <2>2. Push(t, deferred.held) BY <1>21 DEF ReleaseDeferred
  <2>3. /\ queued' \in Nat /\ batches' \in [1 .. queued' -> Batch] /\ queued' >= queued
        /\ latest' \in [Cells -> Nat]
    BY <2>1, <2>2, PushEffect
  <2>4. deferred' \in [active : BOOLEAN, held : [Cells -> Trigger]]
    BY <1>21, <2>1 DEF ReleaseDeferred
  <2>5. /\ pc' \in [Threads -> Places] /\ mine' \in [Threads -> Nat]
        /\ back' \in [Threads -> {"idle", "unlock"}]
    BY <1>21, <2>3, ThenRaiseEffect DEF ReleaseDeferred
  <2>6. /\ UNCHANGED <<taken, raised, raiser, locker, gate, engine, todo>>
        /\ own' \in [Threads -> [Cells -> Trigger]]
    BY <1>21, <2>1 DEF ReleaseDeferred, lockVars, VuTypeOK
  <2>7. /\ value' \in [Cells -> Values] /\ clock' \in Nat
        /\ valueLock' \in [writer : Threads \cup {None}, readers : SUBSET Threads]
    BY <1>21 DEF ReleaseDeferred, VuTypeOK
  <2>8. raised' \in 0 .. queued' /\ taken' \in raised' .. queued'
    BY <2>3, <2>6 DEF VuTypeOK
  <2> QED BY <2>3, <2>4, <2>5, <2>6, <2>7, <2>8, Zenon DEF VuTypeOK
<1>22. CASE UNCHANGED vuVars
  BY <1>22 DEF vuVars, VuTypeOK
<1> QED BY <1>1, <1>2, <1>3, <1>4, <1>5, <1>6, <1>7, <1>8, <1>9, <1>10, <1>11, <1>12, <1>13,
           <1>14, <1>15, <1>16, <1>17, <1>18, <1>19, <1>20, <1>21, <1>22 DEF VuNext, Proceed, Call

(* A thread that neither was nor becomes the raiser leaves it as it is. *)
LEMMA RaiserKept ==
  ASSUME VuTypeOK, OneRaiser, NEW t \in Threads, NEW place,
         pc[t] \notin {"next", "log", "report"}, place \notin {"next", "log", "report"},
         pc' = [pc EXCEPT ![t] = place], UNCHANGED <<taken, raised, raiser>>
  PROVE OneRaiser'
<1>1. \A u \in Threads : pc'[u] \in {"next", "log", "report"} <=> pc[u] \in {"next", "log", "report"}
  BY DEF VuTypeOK
<1>2. \A u \in Threads : pc'[u] \in {"log", "report"} <=> pc[u] \in {"log", "report"}
  BY DEF VuTypeOK
<1> QED BY <1>1, <1>2 DEF OneRaiser, Raising

(* One thread raises at a time. *)
LEMMA RaiserStep ==
  ASSUME VuTypeOK, OneRaiser, [VuNext]_vuVars
  PROVE OneRaiser'
<1>1. ASSUME NEW t \in Threads, NEW c \in Cells, NEW v \in Values, StoreLeaf(t, c, v)
     PROVE OneRaiser'
  <2>1. UNCHANGED <<pc, taken, raised, raiser>> BY <1>1 DEF StoreLeaf, queueVars
  <2> QED BY <2>1 DEF OneRaiser, Raising
<1>2. ASSUME NEW t \in Threads, SubmitArray(t)
     PROVE OneRaiser'
  <2>1. pc' = [pc EXCEPT ![t] = "turn"] \/ pc' = [pc EXCEPT ![t] = "idle"]
    BY <1>2 DEF SubmitArray, ThenRaise
  <2>2. pc[t] \notin {"next", "log", "report"} /\ UNCHANGED <<taken, raised, raiser>>
    BY <1>2 DEF SubmitArray
  <2> QED BY <2>1, <2>2, RaiserKept
<1>3. ASSUME NEW t \in Threads, EndWrite(t)
     PROVE OneRaiser'
  <2>1. pc' = [pc EXCEPT ![t] = "written"] /\ pc[t] \notin {"next", "log", "report"}
    BY <1>3 DEF EndWrite
  <2> QED BY <1>3, <2>1, RaiserKept, Zenon DEF EndWrite, queueVars
<1>4. ASSUME NEW t \in Threads, RaiseWritten(t)
     PROVE OneRaiser'
  <2>1. pc' = [pc EXCEPT ![t] = "turn"] \/ pc' = [pc EXCEPT ![t] = "idle"]
    BY <1>4 DEF RaiseWritten, ThenRaise
  <2>2. pc[t] \notin {"next", "log", "report"} /\ UNCHANGED <<taken, raised, raiser>>
    BY <1>4 DEF RaiseWritten
  <2> QED BY <2>1, <2>2, RaiserKept
<1>5. ASSUME NEW t \in Threads, AwaitTurn(t)
     PROVE OneRaiser'
  <2>1. CASE raised >= mine[t] /\ pc' = [pc EXCEPT ![t] = back[t]] /\ UNCHANGED raiser
    <3>1. back[t] \notin {"next", "log", "report"} BY Zenon DEF VuTypeOK
    <3> QED BY <1>5, <2>1, <3>1, RaiserKept, Zenon DEF AwaitTurn
  <2>2. CASE raiser = None /\ pc' = [pc EXCEPT ![t] = "next"] /\ raiser' = t
    <3>1. \A u \in Threads : pc[u] \notin {"next", "log", "report"}
      BY <2>2, CellsAssumption DEF OneRaiser, Raising
    <3>2. \A u \in Threads : pc'[u] \in {"next", "log", "report"} <=> u = t
      BY <2>2, <3>1 DEF VuTypeOK
    <3>3. \A u \in Threads : pc'[u] \notin {"log", "report"}
      BY <2>2, <3>1 DEF VuTypeOK
    <3>4. UNCHANGED <<taken, raised>> BY <1>5 DEF AwaitTurn
    <3> QED BY <2>2, <3>1, <3>2, <3>3, <3>4 DEF OneRaiser, Raising
  <2> QED BY <1>5, <2>1, <2>2 DEF AwaitTurn
<1>6. ASSUME NEW t \in Threads, EndTurn(t)
     PROVE OneRaiser'
  <2>1. raiser = t /\ raiser' = None /\ pc' = [pc EXCEPT ![t] = back[t]] /\ UNCHANGED <<taken, raised>>
    BY <1>6 DEF EndTurn, OneRaiser, Raising
  <2>2. back[t] \notin {"next", "log", "report"} BY Zenon DEF VuTypeOK
  <2>3. \A u \in Threads : pc'[u] \notin {"next", "log", "report"}
    BY <2>1, <2>2 DEF VuTypeOK, OneRaiser, Raising
  <2>4. \A u \in Threads : pc[u] \notin {"log", "report"}
    BY <1>6, <2>1 DEF EndTurn, VuTypeOK, OneRaiser, Raising
  <2> QED BY <2>1, <2>3, <2>4, CellsAssumption DEF OneRaiser, Raising
<1>7. ASSUME NEW t \in Threads, TakeBatch(t)
     PROVE OneRaiser'
  <2>1. raiser = t /\ raiser' = t /\ pc[t] = "next" /\ pc' = [pc EXCEPT ![t] = "log"]
    BY <1>7 DEF TakeBatch, OneRaiser, Raising, queueVars
  <2>2. \A u \in Threads : pc'[u] \in {"next", "log", "report"} <=> u = t
    BY <2>1 DEF VuTypeOK, OneRaiser, Raising
  <2>3. (\E u \in Threads : pc[u] \in {"log", "report"}) <=> FALSE
    BY <2>1 DEF VuTypeOK, OneRaiser, Raising
  <2>4. (\E u \in Threads : pc'[u] \in {"log", "report"}) <=> TRUE
    BY <2>1, <2>2 DEF VuTypeOK
  <2>5. taken' = taken + 1 /\ raised' = raised
    BY <1>7 DEF TakeBatch, queueVars
  <2> QED BY <2>1, <2>2, <2>3, <2>4, <2>5 DEF OneRaiser, Raising, VuTypeOK
<1>8. ASSUME NEW t \in Threads, LogUpdates(t)
     PROVE OneRaiser'
  <2>1. raiser = t /\ raiser' = t /\ pc[t] = "log" /\ pc' = [pc EXCEPT ![t] = "report"]
    BY <1>8 DEF LogUpdates, OneRaiser, Raising, queueVars
  <2>2. \A u \in Threads : pc'[u] \in {"next", "log", "report"} <=> u = t
    BY <2>1 DEF VuTypeOK, OneRaiser, Raising
  <2>3. (\E u \in Threads : pc[u] \in {"log", "report"}) <=> TRUE
    BY <2>1 DEF VuTypeOK, OneRaiser, Raising
  <2>4. (\E u \in Threads : pc'[u] \in {"log", "report"}) <=> TRUE
    BY <2>1, <2>2 DEF VuTypeOK
  <2>5. taken' = taken /\ raised' = raised
    BY <1>8 DEF LogUpdates, queueVars
  <2> QED BY <2>1, <2>2, <2>3, <2>4, <2>5 DEF OneRaiser, Raising, VuTypeOK
<1>9. ASSUME NEW t \in Threads, RaiseReports(t)
     PROVE OneRaiser'
  <2>1. raiser = t /\ raiser' = t /\ pc[t] = "report" /\ pc' = [pc EXCEPT ![t] = "next"]
    BY <1>9 DEF RaiseReports, OneRaiser, Raising, queueVars
  <2>2. \A u \in Threads : pc'[u] \in {"next", "log", "report"} <=> u = t
    BY <2>1 DEF VuTypeOK, OneRaiser, Raising
  <2>3. (\E u \in Threads : pc[u] \in {"log", "report"}) <=> TRUE
    BY <2>1 DEF VuTypeOK, OneRaiser, Raising
  <2>4. (\E u \in Threads : pc'[u] \in {"log", "report"}) <=> FALSE
    BY <2>1, <2>2 DEF VuTypeOK
  <2>5. taken' = taken /\ raised' = raised + 1
    BY <1>9 DEF RaiseReports, queueVars
  <2> QED BY <2>1, <2>2, <2>3, <2>4, <2>5 DEF OneRaiser, Raising, VuTypeOK
<1>10. ASSUME NEW t \in Threads, TakeGate(t)
     PROVE OneRaiser'
  <2>1. pc' = [pc EXCEPT ![t] = "open"] /\ pc[t] \notin {"next", "log", "report"}
    BY <1>10 DEF TakeGate
  <2> QED BY <1>10, <2>1, RaiserKept, Zenon DEF TakeGate, queueVars
<1>11. ASSUME NEW t \in Threads, StartDeferring(t)
     PROVE OneRaiser'
  <2>1. pc' = [pc EXCEPT ![t] = "idle"] /\ pc[t] \notin {"next", "log", "report"}
    BY <1>11 DEF StartDeferring
  <2> QED BY <1>11, <2>1, RaiserKept, Zenon DEF StartDeferring, queueVars
<1>12. ASSUME NEW t \in Threads, Unlock(t)
     PROVE OneRaiser'
  <2>1. pc' = [pc EXCEPT ![t] = "idle"] /\ pc[t] \notin {"next", "log", "report"}
    BY <1>12 DEF Unlock
  <2> QED BY <1>12, <2>1, RaiserKept, Zenon DEF Unlock, queueVars
<1>13. ASSUME NEW t \in Threads, TickEngine(t)
     PROVE OneRaiser'
  <2>1. pc' = [pc EXCEPT ![t] = "tickValues"] /\ pc[t] \notin {"next", "log", "report"}
    BY <1>13 DEF TickEngine
  <2> QED BY <1>13, <2>1, RaiserKept, Zenon DEF TickEngine, queueVars
<1>14. ASSUME NEW t \in Threads, TickValues(t)
     PROVE OneRaiser'
  <2>1. pc' = [pc EXCEPT ![t] = "ticking"] /\ pc[t] \notin {"next", "log", "report"}
    BY <1>14 DEF TickValues
  <2> QED BY <1>14, <2>1, RaiserKept, Zenon DEF TickValues, queueVars
<1>15. ASSUME NEW t \in Threads, EndTick(t)
     PROVE OneRaiser'
  <2>1. pc' = [pc EXCEPT ![t] = "idle"] /\ pc[t] \notin {"next", "log", "report"}
    BY <1>15 DEF EndTick
  <2> QED BY <1>15, <2>1, RaiserKept, Zenon DEF EndTick, queueVars
<1>16. ASSUME NEW t \in Threads, StartTick(t)
     PROVE OneRaiser'
  <2>1. pc' = [pc EXCEPT ![t] = "tick"] /\ pc[t] \notin {"next", "log", "report"}
    BY <1>16 DEF StartTick
  <2> QED BY <1>16, <2>1, RaiserKept, Zenon DEF StartTick, queueVars
<1>17. ASSUME NEW t \in Threads, NEW c \in Cells, NEW v \in Values, Update(t, c, v)
     PROVE OneRaiser'
  <2>1. pc' = [pc EXCEPT ![t] = "turn"] \/ pc' = [pc EXCEPT ![t] = "idle"]
    BY <1>17 DEF Update, ThenRaise
  <2>2. pc[t] \notin {"next", "log", "report"} /\ UNCHANGED <<taken, raised, raiser>>
    BY <1>17 DEF Update
  <2> QED BY <2>1, <2>2, RaiserKept
<1>18. ASSUME NEW t \in Threads, NEW c \in Cells, NEW v \in Values, NestedUpdate(t, c, v)
     PROVE OneRaiser'
  <2>1. UNCHANGED <<pc, taken, raised, raiser>> BY <1>18 DEF NestedUpdate, queueVars
  <2> QED BY <2>1 DEF OneRaiser, Raising
<1>19. ASSUME NEW t \in Threads, NEW cells \in Bulk, StartBulk(t, cells)
     PROVE OneRaiser'
  <2>1. pc' = [pc EXCEPT ![t] = "store"] /\ pc[t] \notin {"next", "log", "report"}
    BY <1>19 DEF StartBulk
  <2> QED BY <1>19, <2>1, RaiserKept, Zenon DEF StartBulk, queueVars
<1>20. ASSUME NEW t \in Threads, LockDataModel(t)
     PROVE OneRaiser'
  <2>1. pc' = [pc EXCEPT ![t] = "gate"] /\ pc[t] \notin {"next", "log", "report"}
    BY <1>20 DEF LockDataModel
  <2> QED BY <1>20, <2>1, RaiserKept, Zenon DEF LockDataModel, queueVars
<1>21. ASSUME NEW t \in Threads, ReleaseDeferred(t)
     PROVE OneRaiser'
  <2>1. pc' = [pc EXCEPT ![t] = "turn"] \/ pc' = [pc EXCEPT ![t] = "unlock"]
    BY <1>21 DEF ReleaseDeferred, ThenRaise
  <2>2. pc[t] \notin {"next", "log", "report"} /\ UNCHANGED <<taken, raised, raiser>>
    BY <1>21 DEF ReleaseDeferred
  <2> QED BY <2>1, <2>2, RaiserKept
<1>22. CASE UNCHANGED vuVars
  <2>1. UNCHANGED <<pc, taken, raised, raiser>> BY <1>22 DEF vuVars
  <2> QED BY <2>1 DEF OneRaiser, Raising
<1> QED BY <1>1, <1>2, <1>3, <1>4, <1>5, <1>6, <1>7, <1>8, <1>9, <1>10, <1>11, <1>12, <1>13,
           <1>14, <1>15, <1>16, <1>17, <1>18, <1>19, <1>20, <1>21, <1>22 DEF VuNext, Proceed, Call

(* What is pushed with numbers not pushed before keeps the order. *)
LEMMA PushOrder ==
  ASSUME VuTypeOK, Numbered, CommitOrder, NEW t \in Threads, NEW new \in [Cells -> Trigger],
         Push(t, new), \A c \in Cells : new[c].seq # 0 => new[c].seq # latest[c]
  PROVE /\ CommitOrder'
        /\ \A c \in Cells :
             /\ \A i \in 1 .. queued' : batches'[i].triggers[c].seq <= latest'[c]
             /\ latest'[c] = latest[c] \/ (latest'[c] = new[c].seq /\ new[c].seq # 0)
<1>1. \A c \in Cells : new[c].seq \in Nat /\ latest[c] \in Nat
  BY Zenon DEF VuTypeOK, Trigger
<1>2. \A i \in 1 .. queued : \A c \in Cells : batches[i].triggers[c].seq \in Nat
  <2>1. \A i \in 1 .. queued : batches[i].triggers \in [Cells -> Trigger]
    BY DEF VuTypeOK, Batch
  <2> QED BY <2>1, Zenon DEF Trigger
<1>3. /\ queued' \in Nat /\ queued \in Nat
      /\ queued' = queued \/ queued' = queued + 1
      /\ \A i \in 1 .. queued : batches'[i] = batches[i]
      /\ queued' = queued + 1 => batches'[queued + 1] = QueuedBatch(t, new)
      /\ \A c \in Cells : latest'[c] = IF c \in Kept(new) THEN new[c].seq ELSE latest[c]
  BY PushEffect, Zenon DEF VuTypeOK
<1>4. \A c \in Cells : QueuedBatch(t, new).triggers[c].seq = IF c \in Kept(new) THEN new[c].seq ELSE 0
  BY Zenon DEF QueuedBatch, Blank
<1>5. \A c \in Cells : c \in Kept(new) => new[c].seq # 0 /\ latest[c] < new[c].seq
  BY <1>1 DEF Kept
<1>6. \A c \in Cells : /\ latest[c] <= latest'[c]
                       /\ latest'[c] = latest[c] \/ (latest'[c] = new[c].seq /\ new[c].seq # 0)
  <2> SUFFICES ASSUME NEW c \in Cells
               PROVE /\ latest[c] <= latest'[c]
                     /\ latest'[c] = latest[c] \/ (latest'[c] = new[c].seq /\ new[c].seq # 0)
    OBVIOUS
  <2>1. latest'[c] = IF c \in Kept(new) THEN new[c].seq ELSE latest[c] BY <1>3
  <2>2. CASE c \in Kept(new)
    <3>1. latest[c] < new[c].seq /\ new[c].seq # 0 BY <1>5, <2>2
    <3> QED BY <1>1, <2>1, <2>2, <3>1
  <2>3. CASE c \notin Kept(new) BY <1>1, <2>1, <2>3
  <2> QED BY <2>2, <2>3
<1>7. ASSUME NEW c \in Cells, NEW i \in 1 .. queued'
      PROVE batches'[i].triggers[c].seq <= latest'[c]
  <2>1. CASE i \in 1 .. queued
    <3>1. batches[i].triggers[c].seq <= latest[c] BY <2>1 DEF Numbered
    <3> QED BY <1>1, <1>2, <1>3, <1>6, <2>1, <3>1
  <2>2. CASE i = queued + 1 /\ queued' = queued + 1
    BY <1>1, <1>3, <1>4, <1>5, <2>2
  <2> QED BY <1>3, <2>1, <2>2
<1>8. CommitOrder'
  <2> SUFFICES ASSUME NEW i \in 1 .. queued', NEW j \in 1 .. queued', i < j, NEW c \in Cells,
                      batches'[j].triggers[c].seq # 0
               PROVE batches'[i].triggers[c].seq < batches'[j].triggers[c].seq
    BY DEF CommitOrder
  <2>1. i \in 1 .. queued BY <1>3
  <2>2. CASE j \in 1 .. queued
    BY <1>3, <2>1, <2>2 DEF CommitOrder
  <2>3. CASE j = queued + 1 /\ queued' = queued + 1
    <3>1. c \in Kept(new) /\ batches'[j].triggers[c].seq = new[c].seq
      BY <1>3, <1>4, <2>3
    <3>2. batches[i].triggers[c].seq <= latest[c] BY <2>1 DEF Numbered
    <3> QED BY <1>1, <1>2, <1>3, <1>5, <2>1, <3>1, <3>2
  <2> QED BY <1>3, <2>2, <2>3
<1> QED BY <1>6, <1>7, <1>8

(* A submission: every number it makes pending or pushed is one of those   *)
(* submitted.                                                              *)
LEMMA SubmitOrder ==
  ASSUME VuTypeOK, Numbered, CommitOrder, NEW t \in Threads, NEW new \in [Cells -> Trigger],
         Submit(t, new), \A c \in Cells : new[c].seq # 0 => new[c].seq # latest[c]
  PROVE /\ CommitOrder'
        /\ \A c \in Cells :
             /\ \A i \in 1 .. queued' : batches'[i].triggers[c].seq <= latest'[c]
             /\ \/ /\ latest'[c] = latest[c]
                   /\ \/ deferred'.held[c].seq = deferred.held[c].seq
                      \/ deferred'.held[c].seq = new[c].seq
                \/ /\ latest'[c] = new[c].seq /\ new[c].seq # 0
                   /\ deferred'.held[c].seq = deferred.held[c].seq
<1>1. CASE deferred.active
  <2>1. /\ deferred' = [deferred EXCEPT !.held = MergeAll(deferred.held, new)]
        /\ UNCHANGED <<batches, queued, latest>>
    BY <1>1, Zenon DEF Submit
  <2>2. deferred'.held = MergeAll(deferred.held, new) BY <2>1 DEF VuTypeOK
  <2>3. \A c \in Cells : \/ deferred'.held[c].seq = deferred.held[c].seq
                         \/ deferred'.held[c].seq = new[c].seq
    BY <2>2 DEF MergeAll, Merged
  <2> QED BY <2>1, <2>3 DEF CommitOrder, Numbered
<1>2. CASE ~deferred.active
  <2>1. Push(t, new) /\ UNCHANGED deferred BY <1>2, Zenon DEF Submit
  <2> QED BY <2>1, PushOrder, Zenon
<1> QED BY <1>1, <1>2, Zenon

(* Commit numbers stay apart, and the queue in their order. *)
LEMMA OrderStep ==
  ASSUME VuTypeOK, Numbered, CommitOrder, [VuNext]_vuVars
  PROVE Numbered' /\ CommitOrder'
<1>1. ASSUME NEW t \in Threads, NEW c \in Cells, NEW v \in Values, StoreLeaf(t, c, v)
     PROVE Numbered' /\ CommitOrder'
  <2>1. UNCHANGED <<latest, batches, queued, deferred>> /\ clock' = clock + 1
    BY <1>1 DEF StoreLeaf, queueVars
  <2>2. \A u \in Threads, d \in Cells :
           own'[u][d].seq = IF u = t /\ d = c THEN clock + 1 ELSE own[u][d].seq
    BY <1>1 DEF StoreLeaf, VuTypeOK, Stored
  <2>3. \A d \in Cells : latest[d] \in Nat /\ deferred.held[d].seq \in Nat
    BY DEF VuTypeOK, Trigger
  <2>4. clock \in Nat /\ \A u \in Threads, d \in Cells : own[u][d].seq \in Nat
    BY DEF VuTypeOK, Trigger
  <2>5. \A d \in Cells, i \in 1 .. queued : batches[i].triggers[d].seq <= latest[d]
    BY DEF Numbered
  <2>6. Numbered'
    BY <2>1, <2>2, <2>3, <2>4, <2>5 DEF Numbered
  <2>7. CommitOrder' BY <2>1 DEF CommitOrder
  <2> QED BY <2>6, <2>7
<1>2. ASSUME NEW t \in Threads, SubmitArray(t)
     PROVE Numbered' /\ CommitOrder'
  <2>1. own[t] \in [Cells -> Trigger] BY DEF VuTypeOK
  <2>2. Submit(t, own[t]) BY <1>2 DEF SubmitArray
  <2>3. \A d \in Cells : own[t][d].seq # 0 => own[t][d].seq # latest[d] BY DEF Numbered
  <2>4. /\ CommitOrder'
        /\ \A d \in Cells :
             /\ \A i \in 1 .. queued' : batches'[i].triggers[d].seq <= latest'[d]
             /\ \/ /\ latest'[d] = latest[d]
                   /\ \/ deferred'.held[d].seq = deferred.held[d].seq
                      \/ deferred'.held[d].seq = own[t][d].seq
                \/ /\ latest'[d] = own[t][d].seq /\ own[t][d].seq # 0
                   /\ deferred'.held[d].seq = deferred.held[d].seq
    BY <2>1, <2>2, <2>3, SubmitOrder
  <2>5. \A u \in Threads, d \in Cells :
           own'[u][d].seq = IF u = t THEN 0 ELSE own[u][d].seq
    BY <1>2 DEF SubmitArray, VuTypeOK, NoTriggers, Blank
  <2>6. clock' = clock BY <1>2 DEF SubmitArray
  <2>7. \A d \in Cells : latest[d] \in Nat /\ deferred.held[d].seq \in Nat
    BY DEF VuTypeOK, Trigger
  <2>8. clock \in Nat /\ \A u \in Threads, d \in Cells : own[u][d].seq \in Nat
    BY DEF VuTypeOK, Trigger
  <2>9. Numbered'
    BY <2>4, <2>5, <2>6, <2>7, <2>8 DEF Numbered
  <2> QED BY <2>4, <2>9
<1>3. ASSUME NEW t \in Threads, EndWrite(t)
     PROVE Numbered' /\ CommitOrder'
  <2>1. UNCHANGED <<clock, latest, batches, queued, own>> /\ deferred'.held = deferred.held
    BY <1>3 DEF EndWrite, queueVars, VuTypeOK
  <2> QED BY <2>1, Zenon DEF Numbered, CommitOrder
<1>4. ASSUME NEW t \in Threads, RaiseWritten(t)
     PROVE Numbered' /\ CommitOrder'
  <2>1. own[t] \in [Cells -> Trigger] BY DEF VuTypeOK
  <2>2. Submit(t, own[t]) BY <1>4 DEF RaiseWritten
  <2>3. \A d \in Cells : own[t][d].seq # 0 => own[t][d].seq # latest[d] BY DEF Numbered
  <2>4. /\ CommitOrder'
        /\ \A d \in Cells :
             /\ \A i \in 1 .. queued' : batches'[i].triggers[d].seq <= latest'[d]
             /\ \/ /\ latest'[d] = latest[d]
                   /\ \/ deferred'.held[d].seq = deferred.held[d].seq
                      \/ deferred'.held[d].seq = own[t][d].seq
                \/ /\ latest'[d] = own[t][d].seq /\ own[t][d].seq # 0
                   /\ deferred'.held[d].seq = deferred.held[d].seq
    BY <2>1, <2>2, <2>3, SubmitOrder
  <2>5. \A u \in Threads, d \in Cells :
           own'[u][d].seq = IF u = t THEN 0 ELSE own[u][d].seq
    BY <1>4 DEF RaiseWritten, VuTypeOK, NoTriggers, Blank
  <2>6. clock' = clock BY <1>4, Zenon DEF RaiseWritten
  <2>7. \A d \in Cells : latest[d] \in Nat /\ deferred.held[d].seq \in Nat
    BY DEF VuTypeOK, Trigger
  <2>8. clock \in Nat /\ \A u \in Threads, d \in Cells : own[u][d].seq \in Nat
    BY DEF VuTypeOK, Trigger
  <2>9. Numbered'
    BY <2>4, <2>5, <2>6, <2>7, <2>8 DEF Numbered
  <2> QED BY <2>4, <2>9
<1>5. ASSUME NEW t \in Threads, AwaitTurn(t)
     PROVE Numbered' /\ CommitOrder'
  <2>1. UNCHANGED <<clock, latest, batches, queued, own>> /\ deferred'.held = deferred.held
    BY <1>5 DEF AwaitTurn, queueVars, VuTypeOK
  <2> QED BY <2>1, Zenon DEF Numbered, CommitOrder
<1>6. ASSUME NEW t \in Threads, EndTurn(t)
     PROVE Numbered' /\ CommitOrder'
  <2>1. UNCHANGED <<clock, latest, batches, queued, own>> /\ deferred'.held = deferred.held
    BY <1>6 DEF EndTurn, queueVars, VuTypeOK
  <2> QED BY <2>1 DEF Numbered, CommitOrder
<1>7. ASSUME NEW t \in Threads, TakeBatch(t)
     PROVE Numbered' /\ CommitOrder'
  <2>1. UNCHANGED <<clock, latest, batches, queued, own>> /\ deferred'.held = deferred.held
    BY <1>7 DEF TakeBatch, queueVars, VuTypeOK
  <2> QED BY <2>1 DEF Numbered, CommitOrder
<1>8. ASSUME NEW t \in Threads, LogUpdates(t)
     PROVE Numbered' /\ CommitOrder'
  <2>1. UNCHANGED <<clock, latest, batches, queued, own>> /\ deferred'.held = deferred.held
    BY <1>8 DEF LogUpdates, queueVars, VuTypeOK
  <2> QED BY <2>1 DEF Numbered, CommitOrder
<1>9. ASSUME NEW t \in Threads, RaiseReports(t)
     PROVE Numbered' /\ CommitOrder'
  <2>1. UNCHANGED <<clock, latest, batches, queued, own>> /\ deferred'.held = deferred.held
    BY <1>9 DEF RaiseReports, queueVars, VuTypeOK
  <2> QED BY <2>1 DEF Numbered, CommitOrder
<1>10. ASSUME NEW t \in Threads, TakeGate(t)
     PROVE Numbered' /\ CommitOrder'
  <2>1. UNCHANGED <<clock, latest, batches, queued, own>> /\ deferred'.held = deferred.held
    BY <1>10 DEF TakeGate, queueVars, VuTypeOK
  <2> QED BY <2>1 DEF Numbered, CommitOrder
<1>11. ASSUME NEW t \in Threads, StartDeferring(t)
     PROVE Numbered' /\ CommitOrder'
  <2>1. UNCHANGED <<clock, latest, batches, queued, own>> /\ deferred'.held = deferred.held
    BY <1>11 DEF StartDeferring, queueVars, VuTypeOK
  <2> QED BY <2>1 DEF Numbered, CommitOrder
<1>12. ASSUME NEW t \in Threads, Unlock(t)
     PROVE Numbered' /\ CommitOrder'
  <2>1. UNCHANGED <<clock, latest, batches, queued, own>> /\ deferred'.held = deferred.held
    BY <1>12 DEF Unlock, queueVars, VuTypeOK
  <2> QED BY <2>1 DEF Numbered, CommitOrder
<1>13. ASSUME NEW t \in Threads, TickEngine(t)
     PROVE Numbered' /\ CommitOrder'
  <2>1. UNCHANGED <<clock, latest, batches, queued, own>> /\ deferred'.held = deferred.held
    BY <1>13 DEF TickEngine, queueVars, VuTypeOK
  <2> QED BY <2>1 DEF Numbered, CommitOrder
<1>14. ASSUME NEW t \in Threads, TickValues(t)
     PROVE Numbered' /\ CommitOrder'
  <2>1. UNCHANGED <<clock, latest, batches, queued, own>> /\ deferred'.held = deferred.held
    BY <1>14 DEF TickValues, queueVars, VuTypeOK
  <2> QED BY <2>1 DEF Numbered, CommitOrder
<1>15. ASSUME NEW t \in Threads, EndTick(t)
     PROVE Numbered' /\ CommitOrder'
  <2>1. UNCHANGED <<clock, latest, batches, queued, own>> /\ deferred'.held = deferred.held
    BY <1>15 DEF EndTick, queueVars, VuTypeOK
  <2> QED BY <2>1 DEF Numbered, CommitOrder
<1>16. ASSUME NEW t \in Threads, StartTick(t)
     PROVE Numbered' /\ CommitOrder'
  <2>1. UNCHANGED <<clock, latest, batches, queued, own>> /\ deferred'.held = deferred.held
    BY <1>16 DEF StartTick, queueVars, VuTypeOK
  <2> QED BY <2>1 DEF Numbered, CommitOrder
<1>17. ASSUME NEW t \in Threads, NEW c \in Cells, NEW v \in Values, Update(t, c, v)
     PROVE Numbered' /\ CommitOrder'
  <2> DEFINE new == [NoTriggers EXCEPT ![c] = Stored(c, v)]
  <2>1. new \in [Cells -> Trigger] BY BatchTypes
  <2>2. Submit(t, new) BY <1>17 DEF Update
  <2>3. \A d \in Cells : new[d].seq = IF d = c THEN clock + 1 ELSE 0
    BY DEF NoTriggers, Blank, Stored
  <2>4. \A d \in Cells : latest[d] \in Nat /\ deferred.held[d].seq \in Nat
    BY DEF VuTypeOK, Trigger
  <2>5. clock \in Nat /\ \A u \in Threads, d \in Cells : own[u][d].seq \in Nat
    BY DEF VuTypeOK, Trigger
  <2>6. \A d \in Cells : new[d].seq # 0 => new[d].seq # latest[d]
    BY <2>3, <2>4, <2>5 DEF Numbered
  <2> HIDE DEF new
  <2>7. /\ CommitOrder'
        /\ \A d \in Cells :
             /\ \A i \in 1 .. queued' : batches'[i].triggers[d].seq <= latest'[d]
             /\ \/ /\ latest'[d] = latest[d]
                   /\ \/ deferred'.held[d].seq = deferred.held[d].seq
                      \/ deferred'.held[d].seq = new[d].seq
                \/ /\ latest'[d] = new[d].seq /\ new[d].seq # 0
                   /\ deferred'.held[d].seq = deferred.held[d].seq
    BY <2>1, <2>2, <2>6, SubmitOrder
  <2>8. clock' = clock + 1 /\ own' = own BY <1>17 DEF Update
  <2>9. Numbered'
    BY <2>3, <2>4, <2>5, <2>7, <2>8 DEF Numbered
  <2> QED BY <2>7, <2>9
<1>18. ASSUME NEW t \in Threads, NEW c \in Cells, NEW v \in Values, NestedUpdate(t, c, v)
     PROVE Numbered' /\ CommitOrder'
  <2> DEFINE new == [NoTriggers EXCEPT ![c] = Stored(c, v)]
  <2>1. new \in [Cells -> Trigger] BY BatchTypes
  <2>2. Submit(t, new) BY <1>18 DEF NestedUpdate
  <2>3. \A d \in Cells : new[d].seq = IF d = c THEN clock + 1 ELSE 0
    BY DEF NoTriggers, Blank, Stored
  <2>4. \A d \in Cells : latest[d] \in Nat /\ deferred.held[d].seq \in Nat
    BY DEF VuTypeOK, Trigger
  <2>5. clock \in Nat /\ \A u \in Threads, d \in Cells : own[u][d].seq \in Nat
    BY DEF VuTypeOK, Trigger
  <2>6. \A d \in Cells : new[d].seq # 0 => new[d].seq # latest[d]
    BY <2>3, <2>4, <2>5 DEF Numbered
  <2> HIDE DEF new
  <2>7. /\ CommitOrder'
        /\ \A d \in Cells :
             /\ \A i \in 1 .. queued' : batches'[i].triggers[d].seq <= latest'[d]
             /\ \/ /\ latest'[d] = latest[d]
                   /\ \/ deferred'.held[d].seq = deferred.held[d].seq
                      \/ deferred'.held[d].seq = new[d].seq
                \/ /\ latest'[d] = new[d].seq /\ new[d].seq # 0
                   /\ deferred'.held[d].seq = deferred.held[d].seq
    BY <2>1, <2>2, <2>6, SubmitOrder
  <2>8. clock' = clock + 1 /\ own' = own BY <1>18 DEF NestedUpdate
  <2>9. Numbered'
    BY <2>3, <2>4, <2>5, <2>7, <2>8 DEF Numbered
  <2> QED BY <2>7, <2>9
<1>19. ASSUME NEW t \in Threads, NEW cells \in Bulk, StartBulk(t, cells)
     PROVE Numbered' /\ CommitOrder'
  <2>1. UNCHANGED <<clock, latest, batches, queued, own>> /\ deferred'.held = deferred.held
    BY <1>19 DEF StartBulk, queueVars, VuTypeOK
  <2> QED BY <2>1, Zenon DEF Numbered, CommitOrder
<1>20. ASSUME NEW t \in Threads, LockDataModel(t)
     PROVE Numbered' /\ CommitOrder'
  <2>1. UNCHANGED <<clock, latest, batches, queued, own>> /\ deferred'.held = deferred.held
    BY <1>20 DEF LockDataModel, queueVars, VuTypeOK
  <2> QED BY <2>1 DEF Numbered, CommitOrder
<1>21. ASSUME NEW t \in Threads, ReleaseDeferred(t)
     PROVE Numbered' /\ CommitOrder'
  <2>1. deferred.held \in [Cells -> Trigger] BY DEF VuTypeOK
  <2>2. Push(t, deferred.held) BY <1>21 DEF ReleaseDeferred
  <2>3. \A d \in Cells : deferred.held[d].seq # 0 => deferred.held[d].seq # latest[d]
      BY DEF Numbered
  <2>4. /\ CommitOrder'
        /\ \A d \in Cells :
             /\ \A i \in 1 .. queued' : batches'[i].triggers[d].seq <= latest'[d]
             /\ \/ latest'[d] = latest[d]
                \/ latest'[d] = deferred.held[d].seq /\ deferred.held[d].seq # 0
    BY <2>1, <2>2, <2>3, PushOrder, Zenon
  <2>5. clock' = clock /\ own' = own /\ \A d \in Cells : deferred'.held[d].seq = 0
    BY <1>21 DEF ReleaseDeferred, NoTriggers, Blank
  <2>6. \A d \in Cells : latest[d] \in Nat /\ deferred.held[d].seq \in Nat
    BY DEF VuTypeOK, Trigger
  <2>7. clock \in Nat /\ \A u \in Threads, d \in Cells : own[u][d].seq \in Nat
    BY DEF VuTypeOK, Trigger
  <2>8. Numbered'
    BY <2>4, <2>5, <2>6, <2>7 DEF Numbered
  <2> QED BY <2>4, <2>8
<1>22. CASE UNCHANGED vuVars
  <2>1. UNCHANGED <<clock, latest, batches, queued, own>> /\ deferred'.held = deferred.held
    BY <1>22 DEF vuVars, VuTypeOK
  <2> QED BY <2>1, Zenon DEF Numbered, CommitOrder
<1> QED BY <1>1, <1>2, <1>3, <1>4, <1>5, <1>6, <1>7, <1>8, <1>9, <1>10, <1>11, <1>12, <1>13,
           <1>14, <1>15, <1>16, <1>17, <1>18, <1>19, <1>20, <1>21, <1>22, Zenon DEF VuNext, Proceed, Call
=============================================================================
