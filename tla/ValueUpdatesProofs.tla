------------------------ MODULE ValueUpdatesProofs -------------------------
(***************************************************************************)
(* Proofs about ValueUpdates: whatever the attributes, their trigger       *)
(* options, the threads and the bound, triggers are raised in commit order,*)
(* by one thread at a time, before the call that caused them returns, and  *)
(* none is left in the queue; and the queue implements AttributeFeed.      *)
(***************************************************************************)
EXTENDS ValueUpdatesLemmas

(* A thread that neither was nor comes to the queue leaves it attended. *)
LEMMA AttendKept ==
  ASSUME VuTypeOK, Attended, ReturnsRaised, NEW t \in Threads, NEW place,
         ~InQueue(t), place \notin {"turn", "next", "log", "report"},
         pc' = [pc EXCEPT ![t] = place],
         UNCHANGED <<batches, queued, taken, raised, raiser, mine>>
  PROVE Attended' /\ ReturnsRaised'
<1>1. \A u \in Threads : InQueue(u)' <=> InQueue(u)
  BY DEF VuTypeOK, InQueue
<1> QED BY <1>1 DEF Attended, ReturnsRaised, InQueue

(* A thread that queued a batch comes to the queue with its number. *)
LEMMA AttendQueued ==
  ASSUME VuTypeOK, OneRaiser, Attended, ReturnsRaised, NEW t \in Threads,
         NEW new \in [Cells -> Trigger], NEW return \in {"idle", "unlock"}, ~InQueue(t),
         queued' \in Nat, queued' = queued \/ queued' = queued + 1,
         \A i \in 1 .. queued : batches'[i] = batches[i],
         queued' = queued + 1 => batches'[queued + 1] = QueuedBatch(t, new),
         ThenRaise(t, return), UNCHANGED <<taken, raised, raiser>>
  PROVE Attended' /\ ReturnsRaised'
<1>1. queued \in Nat /\ raised \in 0 .. queued /\ taken \in raised .. queued BY DEF VuTypeOK
<1>2. raiser # t BY Zenon DEF OneRaiser, Raising, InQueue
<1>3. CASE queued' = queued
  <2>1. pc' = [pc EXCEPT ![t] = return] /\ mine' = mine BY <1>3, ThenRaiseEffect
  <2>2. \A u \in Threads : InQueue(u)' <=> InQueue(u)
    BY <2>1 DEF VuTypeOK, InQueue
  <2> QED BY <1>1, <1>3, <2>1, <2>2 DEF Attended, ReturnsRaised, InQueue
<1>4. CASE queued' = queued + 1
  <2>1. pc' = [pc EXCEPT ![t] = "turn"] /\ mine' = [mine EXCEPT ![t] = queued + 1]
    BY <1>1, <1>4, ThenRaiseEffect
  <2>2. \A u \in Threads : InQueue(u)' <=> InQueue(u) \/ u = t
    BY <2>1 DEF VuTypeOK, InQueue
  <2>3. \A u \in Threads : mine'[u] = IF u = t THEN queued + 1 ELSE mine[u]
    BY <2>1 DEF VuTypeOK
  <2>4. batches'[queued + 1].awaited
    <3>1. batches'[queued + 1] = QueuedBatch(t, new) BY <1>4
    <3>2. QueuedBatch(t, new).awaited = (raiser # t) BY DEF QueuedBatch
    <3> QED BY <1>2, <3>1, <3>2, Zenon
  <2>5. ASSUME NEW i \in taken + 1 .. queued', batches'[i].awaited
        PROVE \E u \in Threads : InQueue(u)' /\ mine'[u] = i
    <3>1. CASE i = queued + 1
      <4>1. InQueue(t)' /\ mine'[t] = queued + 1 BY <2>2, <2>3
      <4> QED BY <3>1, <4>1
    <3>2. CASE i \in taken + 1 .. queued
      <4>1. batches[i].awaited BY <1>1, <2>5, <3>2
      <4>2. PICK u \in Threads : InQueue(u) /\ mine[u] = i BY <3>2, <4>1 DEF Attended
      <4> QED BY <2>2, <2>3, <4>2
    <3> QED BY <1>1, <1>4, <3>1, <3>2
  <2>6. \A u \in Threads : mine'[u] <= queued'
    <3>1. \A u \in Threads : mine[u] \in Nat /\ mine[u] <= queued BY DEF Attended, VuTypeOK
    <3> QED BY <1>1, <1>4, <2>3, <3>1
  <2>7. raiser' # None \/ batches'[taken + 1].awaited
    BY <1>1, <2>4 DEF Attended
  <2>8. ReturnsRaised'
    BY <2>2, <2>3 DEF ReturnsRaised, InQueue
  <2> QED BY <2>5, <2>6, <2>7, <2>8, Zenon DEF Attended
<1> QED BY <1>3, <1>4

(* The queue stays attended, and calls return raised. *)
LEMMA AttendStep ==
  ASSUME VuTypeOK, OneRaiser, Attended, ReturnsRaised, [VuNext]_vuVars
  PROVE Attended' /\ ReturnsRaised'
<1>1. ASSUME NEW t \in Threads, NEW c \in Cells, NEW v \in Values, StoreLeaf(t, c, v)
     PROVE Attended' /\ ReturnsRaised'
  <2>1. UNCHANGED <<pc, mine, batches, queued, taken, raised, raiser>>
      BY <1>1 DEF StoreLeaf, queueVars
  <2> QED BY <2>1, Zenon DEF Attended, ReturnsRaised, InQueue
<1>2. ASSUME NEW t \in Threads, SubmitArray(t)
     PROVE Attended' /\ ReturnsRaised'
  <2>1. own[t] \in [Cells -> Trigger] BY DEF VuTypeOK
  <2>2. Submit(t, own[t]) /\ ThenRaise(t, "idle") /\ UNCHANGED <<taken, raised, raiser>> /\ ~InQueue(t)
    BY <1>2 DEF SubmitArray, InQueue
  <2>3. /\ queued' \in Nat
        /\ queued' = queued \/ queued' = queued + 1
        /\ \A i \in 1 .. queued : batches'[i] = batches[i]
        /\ queued' = queued + 1 => batches'[queued + 1] = QueuedBatch(t, own[t])
    BY <2>1, <2>2, SubmitEffect
  <2> QED BY <2>1, <2>2, <2>3, AttendQueued
<1>3. ASSUME NEW t \in Threads, EndWrite(t)
     PROVE Attended' /\ ReturnsRaised'
  <2>1. pc' = [pc EXCEPT ![t] = "written"] /\ ~InQueue(t)
    BY <1>3 DEF EndWrite, InQueue
  <2> QED BY <1>3, <2>1, AttendKept, Zenon DEF EndWrite, queueVars
<1>4. ASSUME NEW t \in Threads, RaiseWritten(t)
     PROVE Attended' /\ ReturnsRaised'
  <2>1. own[t] \in [Cells -> Trigger] BY DEF VuTypeOK
  <2>2. Submit(t, own[t]) /\ ThenRaise(t, "idle") /\ UNCHANGED <<taken, raised, raiser>> /\ ~InQueue(t)
    BY <1>4 DEF RaiseWritten, InQueue
  <2>3. /\ queued' \in Nat
        /\ queued' = queued \/ queued' = queued + 1
        /\ \A i \in 1 .. queued : batches'[i] = batches[i]
        /\ queued' = queued + 1 => batches'[queued + 1] = QueuedBatch(t, own[t])
    BY <2>1, <2>2, SubmitEffect
  <2> QED BY <2>1, <2>2, <2>3, AttendQueued
<1>5. ASSUME NEW t \in Threads, AwaitTurn(t)
     PROVE Attended' /\ ReturnsRaised'
  <2>0. UNCHANGED <<batches, queued, taken, raised, mine>> BY <1>5 DEF AwaitTurn
  <2>1. CASE raised >= mine[t] /\ pc' = [pc EXCEPT ![t] = back[t]] /\ UNCHANGED raiser
    <3>1. back[t] \notin {"turn", "next", "log", "report"} BY Zenon DEF VuTypeOK
    <3>2. \A u \in Threads : InQueue(u)' <=> InQueue(u) /\ u # t
      BY <2>0, <2>1, <3>1 DEF VuTypeOK, InQueue
    <3>3. \A i \in taken + 1 .. queued : batches[i].awaited =>
             \E u \in Threads : InQueue(u)' /\ mine[u] = i
      BY <2>1, <3>2 DEF Attended, VuTypeOK
    <3> QED BY <2>0, <2>1, <3>2, <3>3 DEF Attended, ReturnsRaised, InQueue
  <2>2. CASE raised < mine[t] /\ pc' = [pc EXCEPT ![t] = "next"] /\ raiser' = t
    <3>1. \A u \in Threads : InQueue(u)' <=> InQueue(u)
      BY <1>5, <2>2, Zenon DEF AwaitTurn, VuTypeOK, InQueue
    <3> QED BY <2>0, <2>2, <3>1, CellsAssumption DEF Attended, ReturnsRaised, InQueue
  <2> QED BY <1>5, <2>1, <2>2 DEF AwaitTurn
<1>6. ASSUME NEW t \in Threads, EndTurn(t)
     PROVE Attended' /\ ReturnsRaised'
  <2>0. UNCHANGED <<batches, queued, taken, raised, mine>> BY <1>6 DEF EndTurn
  <2>1. raiser = t /\ raiser' = None /\ pc' = [pc EXCEPT ![t] = back[t]]
    BY <1>6 DEF EndTurn, OneRaiser, Raising
  <2>2. taken = raised
    BY <1>6, <2>1 DEF EndTurn, VuTypeOK, OneRaiser, Raising
  <2>3. mine[t] <= raised /\ (taken < queued => batches[taken + 1].awaited)
    BY <1>6, <2>2 DEF EndTurn, NextAwaited, Attended, VuTypeOK
  <2>4. back[t] \notin {"turn", "next", "log", "report"} BY Zenon DEF VuTypeOK
  <2>5. \A u \in Threads : InQueue(u)' <=> InQueue(u) /\ u # t
    BY <2>1, <2>4 DEF VuTypeOK, InQueue
  <2>6. \A i \in taken + 1 .. queued : batches[i].awaited =>
           \E u \in Threads : InQueue(u)' /\ mine[u] = i
    BY <2>2, <2>3, <2>5 DEF Attended, VuTypeOK
  <2> QED BY <2>0, <2>3, <2>5, <2>6 DEF Attended, ReturnsRaised, InQueue
<1>7. ASSUME NEW t \in Threads, TakeBatch(t)
     PROVE Attended' /\ ReturnsRaised'
  <2>1. raiser = t /\ raiser' = t /\ pc[t] = "next" /\ pc' = [pc EXCEPT ![t] = "log"]
    BY <1>7 DEF TakeBatch, OneRaiser, Raising, queueVars
  <2>2. \A u \in Threads : InQueue(u)' <=> InQueue(u)
    BY <2>1 DEF VuTypeOK, InQueue
  <2>3. taken' = taken + 1 /\ raised' = raised /\ UNCHANGED <<batches, queued, mine>>
    BY <1>7 DEF TakeBatch, queueVars
  <2> QED BY <2>1, <2>2, <2>3, CellsAssumption DEF Attended, ReturnsRaised, InQueue, VuTypeOK
<1>8. ASSUME NEW t \in Threads, LogUpdates(t)
     PROVE Attended' /\ ReturnsRaised'
  <2>1. raiser = t /\ raiser' = t /\ pc[t] = "log" /\ pc' = [pc EXCEPT ![t] = "report"]
    BY <1>8 DEF LogUpdates, OneRaiser, Raising, queueVars
  <2>2. \A u \in Threads : InQueue(u)' <=> InQueue(u)
    BY <2>1 DEF VuTypeOK, InQueue
  <2>3. taken' = taken /\ raised' = raised /\ UNCHANGED <<batches, queued, mine>>
    BY <1>8 DEF LogUpdates, queueVars
  <2> QED BY <2>1, <2>2, <2>3, CellsAssumption DEF Attended, ReturnsRaised, InQueue, VuTypeOK
<1>9. ASSUME NEW t \in Threads, RaiseReports(t)
     PROVE Attended' /\ ReturnsRaised'
  <2>1. raiser = t /\ raiser' = t /\ pc[t] = "report" /\ pc' = [pc EXCEPT ![t] = "next"]
    BY <1>9 DEF RaiseReports, OneRaiser, Raising, queueVars
  <2>2. \A u \in Threads : InQueue(u)' <=> InQueue(u)
    BY <2>1 DEF VuTypeOK, InQueue
  <2>3. taken' = taken /\ raised' = raised + 1 /\ UNCHANGED <<batches, queued, mine>>
    BY <1>9 DEF RaiseReports, queueVars
  <2> QED BY <2>1, <2>2, <2>3, CellsAssumption DEF Attended, ReturnsRaised, InQueue, VuTypeOK
<1>10. ASSUME NEW t \in Threads, TakeGate(t)
     PROVE Attended' /\ ReturnsRaised'
  <2>1. pc' = [pc EXCEPT ![t] = "open"] /\ ~InQueue(t)
    BY <1>10 DEF TakeGate, InQueue
  <2> QED BY <1>10, <2>1, AttendKept, Zenon DEF TakeGate, queueVars
<1>11. ASSUME NEW t \in Threads, StartDeferring(t)
     PROVE Attended' /\ ReturnsRaised'
  <2>1. pc' = [pc EXCEPT ![t] = "idle"] /\ ~InQueue(t)
    BY <1>11 DEF StartDeferring, InQueue
  <2> QED BY <1>11, <2>1, AttendKept, Zenon DEF StartDeferring, queueVars
<1>12. ASSUME NEW t \in Threads, Unlock(t)
     PROVE Attended' /\ ReturnsRaised'
  <2>1. pc' = [pc EXCEPT ![t] = "idle"] /\ ~InQueue(t)
    BY <1>12 DEF Unlock, InQueue
  <2> QED BY <1>12, <2>1, AttendKept, Zenon DEF Unlock, queueVars
<1>13. ASSUME NEW t \in Threads, TickEngine(t)
     PROVE Attended' /\ ReturnsRaised'
  <2>1. pc' = [pc EXCEPT ![t] = "tickValues"] /\ ~InQueue(t)
    BY <1>13 DEF TickEngine, InQueue
  <2> QED BY <1>13, <2>1, AttendKept, Zenon DEF TickEngine, queueVars
<1>14. ASSUME NEW t \in Threads, TickValues(t)
     PROVE Attended' /\ ReturnsRaised'
  <2>1. pc' = [pc EXCEPT ![t] = "ticking"] /\ ~InQueue(t)
    BY <1>14 DEF TickValues, InQueue
  <2> QED BY <1>14, <2>1, AttendKept, Zenon DEF TickValues, queueVars
<1>15. ASSUME NEW t \in Threads, EndTick(t)
     PROVE Attended' /\ ReturnsRaised'
  <2>1. pc' = [pc EXCEPT ![t] = "idle"] /\ ~InQueue(t)
    BY <1>15 DEF EndTick, InQueue
  <2> QED BY <1>15, <2>1, AttendKept, Zenon DEF EndTick, queueVars
<1>16. ASSUME NEW t \in Threads, StartTick(t)
     PROVE Attended' /\ ReturnsRaised'
  <2>1. pc' = [pc EXCEPT ![t] = "tick"] /\ ~InQueue(t)
    BY <1>16 DEF StartTick, InQueue
  <2> QED BY <1>16, <2>1, AttendKept, Zenon DEF StartTick, queueVars
<1>17. ASSUME NEW t \in Threads, NEW c \in Cells, NEW v \in Values, Update(t, c, v)
     PROVE Attended' /\ ReturnsRaised'
  <2>1. [NoTriggers EXCEPT ![c] = Stored(c, v)] \in [Cells -> Trigger] BY BatchTypes
  <2>2. /\ Submit(t, [NoTriggers EXCEPT ![c] = Stored(c, v)]) /\ ThenRaise(t, "idle")
        /\ UNCHANGED <<taken, raised, raiser>> /\ ~InQueue(t)
    BY <1>17 DEF Update, InQueue
  <2>3. /\ queued' \in Nat
        /\ queued' = queued \/ queued' = queued + 1
        /\ \A i \in 1 .. queued : batches'[i] = batches[i]
        /\ queued' = queued + 1 => batches'[queued + 1] = QueuedBatch(t, [NoTriggers EXCEPT ![c] = Stored(c, v)])
    BY <2>1, <2>2, SubmitEffect, Zenon
  <2> QED BY <2>1, <2>2, <2>3, AttendQueued, Zenon
<1>18. ASSUME NEW t \in Threads, NEW c \in Cells, NEW v \in Values, NestedUpdate(t, c, v)
     PROVE Attended' /\ ReturnsRaised'
  <2>1. [NoTriggers EXCEPT ![c] = Stored(c, v)] \in [Cells -> Trigger] BY BatchTypes
  <2>2. Submit(t, [NoTriggers EXCEPT ![c] = Stored(c, v)]) BY <1>18 DEF NestedUpdate
  <2>3. /\ queued' \in Nat
        /\ queued' = queued \/ queued' = queued + 1
        /\ \A i \in 1 .. queued : batches'[i] = batches[i]
    BY <2>1, <2>2, SubmitEffect, Zenon
  <2>4. queued' = queued + 1 => batches'[queued + 1] = QueuedBatch(t, [NoTriggers EXCEPT ![c] = Stored(c, v)])
    BY <2>1, <2>2, SubmitEffect, Zenon
  <2>5. raiser = t BY <1>18 DEF NestedUpdate, OneRaiser, Raising
  <2>6. queued' = queued + 1 => ~batches'[queued + 1].awaited
    <3>1. QueuedBatch(t, [NoTriggers EXCEPT ![c] = Stored(c, v)]).awaited = (raiser # t)
        BY DEF QueuedBatch
    <3> QED BY <2>4, <2>5, <3>1, Zenon
  <2>7. UNCHANGED <<pc, mine, taken, raised, raiser>> BY <1>18 DEF NestedUpdate
  <2>8. \A i \in taken + 1 .. queued' : batches'[i].awaited => i \in taken + 1 .. queued /\ batches[i].awaited
    <3>1. taken \in Nat /\ queued \in Nat /\ taken <= queued BY DEF VuTypeOK
    <3>2. \A i \in taken + 1 .. queued' : i \in taken + 1 .. queued \/ (i = queued + 1 /\ queued' = queued + 1)
      BY <2>3, <3>1
    <3>3. \A i \in taken + 1 .. queued : i \in 1 .. queued BY <3>1
    <3> QED BY <2>3, <2>6, <3>2, <3>3, Zenon
  <2>9. \A u \in Threads : InQueue(u)' <=> InQueue(u) BY <2>7 DEF InQueue
  <2>10. \A u \in Threads : mine[u] <= queued' BY <2>3 DEF Attended, VuTypeOK
  <2>11. raiser # None BY <2>5, CellsAssumption
  <2> QED BY <2>7, <2>8, <2>9, <2>10, <2>11 DEF Attended, ReturnsRaised, InQueue
<1>19. ASSUME NEW t \in Threads, NEW cells \in Bulk, StartBulk(t, cells)
     PROVE Attended' /\ ReturnsRaised'
  <2>1. pc' = [pc EXCEPT ![t] = "store"] /\ ~InQueue(t)
    BY <1>19 DEF StartBulk, InQueue
  <2> QED BY <1>19, <2>1, AttendKept, Zenon DEF StartBulk, queueVars
<1>20. ASSUME NEW t \in Threads, LockDataModel(t)
     PROVE Attended' /\ ReturnsRaised'
  <2>1. pc' = [pc EXCEPT ![t] = "gate"] /\ ~InQueue(t)
    BY <1>20 DEF LockDataModel, InQueue
  <2> QED BY <1>20, <2>1, AttendKept, Zenon DEF LockDataModel, queueVars
<1>21. ASSUME NEW t \in Threads, ReleaseDeferred(t)
     PROVE Attended' /\ ReturnsRaised'
  <2>1. deferred.held \in [Cells -> Trigger] BY DEF VuTypeOK
  <2>2. Push(t, deferred.held) /\ ThenRaise(t, "unlock") /\ UNCHANGED <<taken, raised, raiser>> /\ ~InQueue(t)
    BY <1>21 DEF ReleaseDeferred, InQueue
  <2>3. /\ queued' \in Nat
        /\ queued' = queued \/ queued' = queued + 1
        /\ \A i \in 1 .. queued : batches'[i] = batches[i]
        /\ queued' = queued + 1 => batches'[queued + 1] = QueuedBatch(t, deferred.held)
    BY <2>1, <2>2, PushEffect, Zenon
  <2> QED BY <2>1, <2>2, <2>3, AttendQueued
<1>22. CASE UNCHANGED vuVars
  <2>1. UNCHANGED <<pc, mine, batches, queued, taken, raised, raiser>> BY <1>22 DEF vuVars
  <2> QED BY <2>1 DEF Attended, ReturnsRaised, InQueue
<1> QED BY <1>1, <1>2, <1>3, <1>4, <1>5, <1>6, <1>7, <1>8, <1>9, <1>10, <1>11, <1>12, <1>13,
           <1>14, <1>15, <1>16, <1>17, <1>18, <1>19, <1>20, <1>21, <1>22, Zenon DEF VuNext, Proceed, Call

Ticks == {"tick", "tickValues", "ticking"}

(* A thread that moves on without the gate and the model lock. *)
LEMMA GateKept ==
  ASSUME VuTypeOK, Gated, NEW t \in Threads, NEW place, pc[t] \notin Ticks,
         place \notin {"gate", "open", "tick", "tickValues", "ticking"},
         place = "unlock" \/ (place \in {"turn", "next", "log", "report"} /\ back'[t] = "unlock") =>
           InQueue(t) /\ back[t] = "unlock",
         pc' = [pc EXCEPT ![t] = place], \A u \in Threads \ {t} : back'[u] = back[u],
         deferred'.active = deferred.active, UNCHANGED <<locker, gate>>
  PROVE Gated'
<1>1. \A u \in Threads : pc'[u] = IF u = t THEN place ELSE pc[u] BY DEF VuTypeOK
<1>2. \A u \in Threads : pc'[u] \in Ticks <=> pc[u] \in Ticks BY <1>1, Zenon DEF Ticks
<1>3. \A u \in Threads : pc'[u] = "unlock" \/ (InQueue(u)' /\ back'[u] = "unlock") =>
         pc[u] = "unlock" \/ (InQueue(u) /\ back[u] = "unlock")
  BY <1>1, Zenon DEF InQueue
<1>4. \A u \in Threads : pc'[u] \in {"gate", "open", "unlock"} => locker = u
  BY <1>1, <1>3 DEF Gated
<1>5. \A u \in Threads : (pc'[u] = "gate" => pc[u] = "gate") /\ (pc'[u] = "open" => pc[u] = "open")
  BY <1>1
<1>6. \A u \in Threads : (pc'[u] = "gate" => gate.writer = None) /\ (pc'[u] = "open" => gate.writer = u)
  BY <1>5 DEF Gated
<1>7. \A u \in Threads : pc'[u] = "unlock" \/ (InQueue(u)' /\ back'[u] = "unlock") =>
         locker = u /\ ~deferred.active
  BY <1>3, Zenon DEF Gated
<1>8. /\ \A u \in Threads : pc'[u] \in Ticks <=> u \in gate.readers
      /\ deferred.active => gate.writer # None
      /\ gate.writer # None => gate.readers = {} /\ gate.writer = locker
  BY <1>2, Zenon DEF Gated, Ticks
<1> QED BY <1>4, <1>6, <1>7, <1>8, Zenon DEF Gated, Ticks

(* The gate is kept. *)
LEMMA GateStep ==
  ASSUME VuTypeOK, Gated, [VuNext]_vuVars
  PROVE Gated'
<1>1. ASSUME NEW t \in Threads, NEW c \in Cells, NEW v \in Values, StoreLeaf(t, c, v)
     PROVE Gated'
  <2>1. UNCHANGED <<pc, back, locker, gate>> BY <1>1 DEF StoreLeaf, lockVars
  <2>2. deferred'.active = deferred.active BY <1>1 DEF StoreLeaf
  <2> QED BY <2>1, <2>2, Zenon DEF Gated, InQueue
<1>2. ASSUME NEW t \in Threads, SubmitArray(t)
     PROVE Gated'
  <2>1. own[t] \in [Cells -> Trigger] BY DEF VuTypeOK
  <2>2. Submit(t, own[t]) /\ ThenRaise(t, "idle") /\ UNCHANGED <<locker, gate>> /\ pc[t] \notin Ticks
    BY <1>2 DEF SubmitArray, Ticks, lockVars
  <2>3. deferred'.active = deferred.active /\ queued' \in Nat BY <2>1, <2>2, SubmitEffect, Zenon
  <2>4. CASE queued' = queued
    <3>1. pc' = [pc EXCEPT ![t] = "idle"] /\ back' = back BY <2>2, <2>3, <2>4, ThenRaiseEffect
    <3> QED BY <2>2, <2>3, <3>1, GateKept, Zenon
  <2>5. CASE queued' # queued
    <3>1. pc' = [pc EXCEPT ![t] = "turn"] /\ back' = [back EXCEPT ![t] = "idle"]
      BY <2>2, <2>3, <2>5, ThenRaiseEffect
    <3>2. back'[t] = "idle" /\ \A u \in Threads \ {t} : back'[u] = back[u] BY <3>1 DEF VuTypeOK
    <3> QED BY <2>2, <2>3, <3>1, <3>2, GateKept, Zenon
  <2> QED BY <2>4, <2>5
<1>3. ASSUME NEW t \in Threads, EndWrite(t)
     PROVE Gated'
  <2>1. /\ pc' = [pc EXCEPT ![t] = "written"] /\ pc[t] \notin Ticks
        /\ UNCHANGED <<back, locker, gate>>
    BY <1>3 DEF EndWrite, Ticks, lockVars
  <2>2. deferred' = deferred BY <1>3 DEF EndWrite
  <2> QED BY <2>1, <2>2, GateKept, Zenon
<1>4. ASSUME NEW t \in Threads, RaiseWritten(t)
     PROVE Gated'
  <2>1. own[t] \in [Cells -> Trigger] BY DEF VuTypeOK
  <2>2. Submit(t, own[t]) /\ ThenRaise(t, "idle") /\ UNCHANGED <<locker, gate>> /\ pc[t] \notin Ticks
    BY <1>4 DEF RaiseWritten, Ticks, lockVars
  <2>3. deferred'.active = deferred.active /\ queued' \in Nat BY <2>1, <2>2, SubmitEffect, Zenon
  <2>4. CASE queued' = queued
    <3>1. pc' = [pc EXCEPT ![t] = "idle"] /\ back' = back BY <2>2, <2>3, <2>4, ThenRaiseEffect
    <3> QED BY <2>2, <2>3, <3>1, GateKept, Zenon
  <2>5. CASE queued' # queued
    <3>1. pc' = [pc EXCEPT ![t] = "turn"] /\ back' = [back EXCEPT ![t] = "idle"]
      BY <2>2, <2>3, <2>5, ThenRaiseEffect
    <3>2. back'[t] = "idle" /\ \A u \in Threads \ {t} : back'[u] = back[u] BY <3>1 DEF VuTypeOK
    <3> QED BY <2>2, <2>3, <3>1, <3>2, GateKept, Zenon
  <2> QED BY <2>4, <2>5
<1>5. ASSUME NEW t \in Threads, AwaitTurn(t)
     PROVE Gated'
  <2>1. UNCHANGED <<back, locker, gate, deferred>> /\ pc[t] \notin Ticks /\ InQueue(t)
    BY <1>5 DEF AwaitTurn, lockVars, Ticks, InQueue
  <2>2. back[t] \in {"idle", "unlock"} BY DEF VuTypeOK
  <2>3. pc' = [pc EXCEPT ![t] = back[t]] \/ pc' = [pc EXCEPT ![t] = "next"] BY <1>5 DEF AwaitTurn
  <2> QED BY <2>1, <2>2, <2>3, GateKept
<1>6. ASSUME NEW t \in Threads, EndTurn(t)
     PROVE Gated'
  <2>1. UNCHANGED <<back, locker, gate, deferred>> /\ pc[t] \notin Ticks /\ InQueue(t)
    BY <1>6 DEF EndTurn, lockVars, Ticks, InQueue
  <2>2. back[t] \in {"idle", "unlock"} BY DEF VuTypeOK
  <2>3. pc' = [pc EXCEPT ![t] = back[t]] BY <1>6 DEF EndTurn
  <2> QED BY <2>1, <2>2, <2>3, GateKept, Zenon
<1>7. ASSUME NEW t \in Threads, TakeBatch(t)
     PROVE Gated'
  <2>1. pc' = [pc EXCEPT ![t] = "log"] /\ pc[t] \notin Ticks /\ InQueue(t)
    BY <1>7 DEF TakeBatch, Ticks, InQueue
  <2>2. UNCHANGED <<back, locker, gate, deferred>> BY <1>7 DEF TakeBatch, lockVars
  <2> QED BY <2>1, <2>2, GateKept, Zenon
<1>8. ASSUME NEW t \in Threads, LogUpdates(t)
     PROVE Gated'
  <2>1. pc' = [pc EXCEPT ![t] = "report"] /\ pc[t] \notin Ticks /\ InQueue(t)
    BY <1>8 DEF LogUpdates, Ticks, InQueue
  <2>2. UNCHANGED <<back, locker, gate, deferred>> BY <1>8 DEF LogUpdates, lockVars
  <2> QED BY <2>1, <2>2, GateKept, Zenon
<1>9. ASSUME NEW t \in Threads, RaiseReports(t)
     PROVE Gated'
  <2>1. pc' = [pc EXCEPT ![t] = "next"] /\ pc[t] \notin Ticks /\ InQueue(t)
    BY <1>9 DEF RaiseReports, Ticks, InQueue
  <2>2. UNCHANGED <<back, locker, gate, deferred>> BY <1>9 DEF RaiseReports, lockVars
  <2> QED BY <2>1, <2>2, GateKept, Zenon
<1>10. ASSUME NEW t \in Threads, TakeGate(t)
     PROVE Gated'
  <2>1. \A u \in Threads : pc'[u] = IF u = t THEN "open" ELSE pc[u]
    BY <1>10 DEF TakeGate, VuTypeOK
  <2>2. pc[t] = "gate" /\ UNCHANGED back BY <1>10 DEF TakeGate
  <2>3. /\ gate.readers = {} /\ gate'.readers = {} /\ gate'.writer = t
        /\ locker' = locker /\ locker = t
    BY <1>10 DEF TakeGate, VuTypeOK, Gated
  <2>4. \A u \in Threads : InQueue(u)' => InQueue(u) /\ u # t
    BY <2>1, <2>2 DEF InQueue
  <2>5. deferred' = deferred BY <1>10 DEF TakeGate
  <2>6. \A u \in Threads : pc'[u] \notin Ticks
    BY <2>1, <2>2, <2>3 DEF Gated, Ticks
  <2>7. \A u \in Threads \ {t} : /\ pc[u] \notin {"gate", "open", "unlock"}
                                 /\ ~(InQueue(u) /\ back[u] = "unlock")
    BY <2>3 DEF Gated
  <2>8. \A u \in Threads : /\ pc'[u] \in {"gate", "open", "unlock"} => u = t
                           /\ pc'[u] # "gate" /\ pc'[u] # "unlock"
                           /\ ~(InQueue(u)' /\ back'[u] = "unlock")
    BY <2>1, <2>2, <2>4, <2>7
  <2>9. \A u \in Threads : pc'[u] \in Ticks <=> u \in gate'.readers BY <2>3, <2>6
  <2>10. /\ deferred'.active => gate'.writer # None
         /\ gate'.writer # None => gate'.readers = {} /\ gate'.writer = locker'
    BY <2>3, CellsAssumption
  <2>11. \A u \in Threads :
           /\ pc'[u] \in {"gate", "open", "unlock"} => locker' = u
           /\ pc'[u] = "gate" => gate'.writer = None
           /\ pc'[u] = "open" => gate'.writer = u
           /\ pc'[u] = "unlock" \/ (InQueue(u)' /\ back'[u] = "unlock") =>
                locker' = u /\ ~deferred'.active
    BY <2>3, <2>8
  <2> QED BY <2>9, <2>10, <2>11, Zenon DEF Gated, Ticks
<1>11. ASSUME NEW t \in Threads, StartDeferring(t)
     PROVE Gated'
  <2>1. \A u \in Threads : pc'[u] = IF u = t THEN "idle" ELSE pc[u]
    BY <1>11 DEF StartDeferring, VuTypeOK
  <2>2. pc[t] = "open" /\ UNCHANGED back BY <1>11 DEF StartDeferring
  <2>3. UNCHANGED <<gate, locker>> /\ gate.writer = t /\ locker = t
      BY <1>11 DEF StartDeferring, lockVars, Gated
  <2>4. \A u \in Threads : InQueue(u)' => InQueue(u) /\ u # t
    BY <2>1, <2>2 DEF InQueue
  <2>5. \A u \in Threads : pc'[u] \in Ticks <=> u \in gate.readers
    BY <2>1, <2>2, Zenon DEF Gated, Ticks
  <2>6. \A u \in Threads \ {t} : /\ pc[u] \notin {"gate", "open", "unlock"}
                                 /\ ~(InQueue(u) /\ back[u] = "unlock")
    BY <2>3 DEF Gated
  <2>7. \A u \in Threads : /\ pc'[u] \notin {"gate", "open", "unlock"}
                           /\ ~(InQueue(u)' /\ back'[u] = "unlock")
    BY <2>1, <2>2, <2>4, <2>6
  <2>8. gate.writer # None /\ gate.readers = {} BY <2>3, CellsAssumption DEF Gated
  <2> QED BY <2>3, <2>5, <2>7, <2>8 DEF Gated, Ticks
<1>12. ASSUME NEW t \in Threads, Unlock(t)
     PROVE Gated'
  <2>1. \A u \in Threads : pc'[u] = IF u = t THEN "idle" ELSE pc[u]
    BY <1>12 DEF Unlock, VuTypeOK
  <2>2. pc[t] = "unlock" /\ UNCHANGED back BY <1>12 DEF Unlock
  <2>3. /\ locker' = None /\ gate'.writer = None /\ gate'.readers = gate.readers
        /\ deferred' = deferred /\ locker = t
    BY <1>12 DEF Unlock, VuTypeOK, Gated
  <2>4. \A u \in Threads : InQueue(u)' => InQueue(u) /\ u # t
    BY <2>1, <2>2 DEF InQueue
  <2>5. \A u \in Threads : pc'[u] \in Ticks <=> u \in gate.readers
    BY <2>1, <2>2 DEF Gated, Ticks
  <2>6. \A u \in Threads \ {t} : /\ pc[u] \notin {"gate", "open", "unlock"}
                                 /\ ~(InQueue(u) /\ back[u] = "unlock")
    BY <2>3 DEF Gated
  <2>7. \A u \in Threads : /\ pc'[u] \notin {"gate", "open", "unlock"}
                           /\ ~(InQueue(u)' /\ back'[u] = "unlock")
    BY <2>1, <2>2, <2>4, <2>6
  <2>8. ~deferred.active BY <2>2, Zenon DEF Gated
  <2> QED BY <2>3, <2>5, <2>7, <2>8, Zenon DEF Gated, Ticks
<1>13. ASSUME NEW t \in Threads, TickEngine(t)
     PROVE Gated'
  <2>1. \A u \in Threads : pc'[u] = IF u = t THEN "tickValues" ELSE pc[u]
    BY <1>13 DEF TickEngine, VuTypeOK
  <2>2. pc[t] = "tick" /\ UNCHANGED back BY <1>13 DEF TickEngine
  <2>3. gate' = gate BY <1>13 DEF TickEngine
  <2>4. \A u \in Threads : InQueue(u)' => InQueue(u) /\ u # t
    BY <2>1, <2>2 DEF InQueue
  <2>5. deferred' = deferred /\ locker' = locker BY <1>13 DEF TickEngine, lockVars
  <2>6. \A u \in Threads : pc'[u] \in Ticks <=> u \in gate'.readers
    BY <2>1, <2>2, <2>3 DEF Gated, Ticks
  <2> QED BY <2>1, <2>2, <2>3, <2>4, <2>5, <2>6, Zenon DEF Gated, Ticks
<1>14. ASSUME NEW t \in Threads, TickValues(t)
     PROVE Gated'
  <2>1. \A u \in Threads : pc'[u] = IF u = t THEN "ticking" ELSE pc[u]
    BY <1>14 DEF TickValues, VuTypeOK
  <2>2. pc[t] = "tickValues" /\ UNCHANGED back BY <1>14 DEF TickValues
  <2>3. gate' = gate BY <1>14 DEF TickValues, lockVars
  <2>4. \A u \in Threads : InQueue(u)' => InQueue(u) /\ u # t
    BY <2>1, <2>2 DEF InQueue
  <2>5. deferred' = deferred /\ locker' = locker BY <1>14 DEF TickValues, lockVars
  <2>6. \A u \in Threads : pc'[u] \in Ticks <=> u \in gate'.readers
    BY <2>1, <2>2, <2>3 DEF Gated, Ticks
  <2> QED BY <2>1, <2>2, <2>3, <2>4, <2>5, <2>6, Zenon DEF Gated, Ticks
<1>15. ASSUME NEW t \in Threads, EndTick(t)
     PROVE Gated'
  <2>1. \A u \in Threads : pc'[u] = IF u = t THEN "idle" ELSE pc[u]
    BY <1>15 DEF EndTick, VuTypeOK
  <2>2. pc[t] = "ticking" /\ UNCHANGED back BY <1>15 DEF EndTick
  <2>3. gate'.readers = gate.readers \ {t} /\ gate'.writer = gate.writer
    BY <1>15 DEF EndTick, VuTypeOK
  <2>4. \A u \in Threads : InQueue(u)' => InQueue(u) /\ u # t
    BY <2>1, <2>2 DEF InQueue
  <2>5. deferred' = deferred /\ locker' = locker BY <1>15 DEF EndTick, lockVars
  <2>6. \A u \in Threads : pc'[u] \in Ticks <=> u \in gate'.readers
    BY <2>1, <2>2, <2>3 DEF Gated, Ticks
  <2> QED BY <2>1, <2>2, <2>3, <2>4, <2>5, <2>6, Zenon DEF Gated, Ticks
<1>16. ASSUME NEW t \in Threads, StartTick(t)
     PROVE Gated'
  <2>1. \A u \in Threads : pc'[u] = IF u = t THEN "tick" ELSE pc[u]
    BY <1>16 DEF StartTick, VuTypeOK
  <2>2. pc[t] = "idle" /\ UNCHANGED back BY <1>16 DEF StartTick
  <2>3. /\ gate'.readers = gate.readers \cup {t} /\ gate'.writer = gate.writer
        /\ gate.writer = None
    BY <1>16 DEF StartTick, VuTypeOK
  <2>4. \A u \in Threads : InQueue(u)' => InQueue(u) /\ u # t
    BY <2>1, <2>2 DEF InQueue
  <2>5. deferred' = deferred /\ locker' = locker BY <1>16 DEF StartTick, lockVars
  <2>6. \A u \in Threads : pc'[u] \in Ticks <=> u \in gate'.readers
    BY <2>1, <2>2, <2>3 DEF Gated, Ticks
  <2> QED BY <2>1, <2>2, <2>3, <2>4, <2>5, <2>6, Zenon DEF Gated, Ticks
<1>17. ASSUME NEW t \in Threads, NEW c \in Cells, NEW v \in Values, Update(t, c, v)
     PROVE Gated'
  <2>1. [NoTriggers EXCEPT ![c] = Stored(c, v)] \in [Cells -> Trigger] BY BatchTypes
  <2>2. /\ Submit(t, [NoTriggers EXCEPT ![c] = Stored(c, v)]) /\ ThenRaise(t, "idle")
        /\ UNCHANGED <<locker, gate>> /\ pc[t] \notin Ticks
    BY <1>17 DEF Update, Ticks, lockVars
  <2>3. deferred'.active = deferred.active /\ queued' \in Nat BY <2>1, <2>2, SubmitEffect, Zenon
  <2>4. CASE queued' = queued
    <3>1. pc' = [pc EXCEPT ![t] = "idle"] /\ back' = back BY <2>2, <2>3, <2>4, ThenRaiseEffect
    <3> QED BY <2>2, <2>3, <3>1, GateKept, Zenon
  <2>5. CASE queued' # queued
    <3>1. pc' = [pc EXCEPT ![t] = "turn"] /\ back' = [back EXCEPT ![t] = "idle"]
      BY <2>2, <2>3, <2>5, ThenRaiseEffect, Zenon
    <3>2. back'[t] = "idle" /\ \A u \in Threads \ {t} : back'[u] = back[u] BY <3>1 DEF VuTypeOK
    <3> QED BY <2>2, <2>3, <3>1, <3>2, GateKept, Zenon
  <2> QED BY <2>4, <2>5
<1>18. ASSUME NEW t \in Threads, NEW c \in Cells, NEW v \in Values, NestedUpdate(t, c, v)
     PROVE Gated'
  <2>1. [NoTriggers EXCEPT ![c] = Stored(c, v)] \in [Cells -> Trigger] BY BatchTypes
  <2>2. Submit(t, [NoTriggers EXCEPT ![c] = Stored(c, v)]) BY <1>18 DEF NestedUpdate
  <2>3. deferred'.active = deferred.active BY <2>1, <2>2, SubmitEffect, Zenon
  <2>4. UNCHANGED <<pc, back, locker, gate>> BY <1>18 DEF NestedUpdate, lockVars
  <2> QED BY <2>3, <2>4, Zenon DEF Gated, InQueue
<1>19. ASSUME NEW t \in Threads, NEW cells \in Bulk, StartBulk(t, cells)
     PROVE Gated'
  <2>1. /\ pc' = [pc EXCEPT ![t] = "store"] /\ pc[t] \notin Ticks
        /\ UNCHANGED <<back, locker, gate>>
    BY <1>19 DEF StartBulk, Ticks, lockVars
  <2>2. deferred' = deferred BY <1>19 DEF StartBulk
  <2> QED BY <2>1, <2>2, GateKept, Zenon
<1>20. ASSUME NEW t \in Threads, LockDataModel(t)
     PROVE Gated'
  <2>1. \A u \in Threads : pc'[u] = IF u = t THEN "gate" ELSE pc[u]
    BY <1>20 DEF LockDataModel, VuTypeOK
  <2>2. pc[t] = "idle" /\ UNCHANGED back BY <1>20 DEF LockDataModel
  <2>3. gate' = gate /\ locker = None /\ locker' = t BY <1>20 DEF LockDataModel
  <2>4. \A u \in Threads : InQueue(u)' => InQueue(u) /\ u # t
    BY <2>1, <2>2 DEF InQueue
  <2>5. deferred' = deferred BY <1>20 DEF LockDataModel
  <2>6. gate.writer = None BY <2>3, CellsAssumption DEF Gated
  <2>7. \A u \in Threads : pc'[u] \in Ticks <=> u \in gate.readers
    BY <2>1, <2>2 DEF Gated, Ticks
  <2>8. \A u \in Threads : /\ pc[u] \notin {"gate", "open", "unlock"}
                           /\ ~(InQueue(u) /\ back[u] = "unlock")
    BY <2>3, CellsAssumption DEF Gated
  <2>9. /\ ~deferred.active
        /\ \A u \in Threads : /\ pc'[u] \in {"gate", "open", "unlock"} => u = t
                              /\ pc'[u] # "open" /\ pc'[u] # "unlock"
                              /\ ~(InQueue(u)' /\ back'[u] = "unlock")
    BY <2>1, <2>2, <2>4, <2>6, <2>8, Zenon DEF Gated
  <2>10. \A u \in Threads : pc'[u] \in Ticks <=> u \in gate'.readers BY <2>3, <2>7
  <2>11. gate'.writer = None /\ ~deferred'.active BY <2>3, <2>5, <2>6, <2>9
  <2>12. \A u \in Threads :
           /\ pc'[u] \in {"gate", "open", "unlock"} => locker' = u
           /\ pc'[u] = "gate" => gate'.writer = None
           /\ pc'[u] = "open" => gate'.writer = u
           /\ pc'[u] = "unlock" \/ (InQueue(u)' /\ back'[u] = "unlock") =>
                locker' = u /\ ~deferred'.active
    BY <2>3, <2>9, <2>11
  <2> QED BY <2>10, <2>11, <2>12, Zenon DEF Gated, Ticks
<1>21. ASSUME NEW t \in Threads, ReleaseDeferred(t)
     PROVE Gated'
  <2>1. deferred.held \in [Cells -> Trigger] BY DEF VuTypeOK
  <2>2. /\ Push(t, deferred.held) /\ ThenRaise(t, "unlock") /\ pc[t] = "idle"
        /\ locker = t /\ UNCHANGED <<locker, gate>> /\ deferred'.active = FALSE
    BY <1>21 DEF ReleaseDeferred, lockVars
  <2>3. queued' \in Nat BY <2>1, <2>2, PushEffect
  <2>4. \A u \in Threads \ {t} : pc'[u] = pc[u] /\ back'[u] = back[u]
    BY <2>2, <2>3, ThenRaiseEffect DEF VuTypeOK
  <2>5. pc'[t] = "unlock" \/ pc'[t] = "turn"
    BY <2>2, <2>3, ThenRaiseEffect DEF VuTypeOK
  <2>6. \A u \in Threads : pc'[u] \in Ticks <=> u \in gate.readers
    BY <2>2, <2>4, <2>5, Zenon DEF Gated, Ticks
  <2>7. \A u \in Threads \ {t} : /\ pc[u] \notin {"gate", "open", "unlock"}
                                 /\ ~(InQueue(u) /\ back[u] = "unlock")
    BY <2>2 DEF Gated
  <2>8. \A u \in Threads \ {t} : /\ pc'[u] \notin {"gate", "open", "unlock"}
                                 /\ ~(InQueue(u)' /\ back'[u] = "unlock")
    BY <2>4, <2>7 DEF InQueue
  <2>9. pc'[t] # "gate" /\ pc'[t] # "open" BY <2>5
  <2>10. gate.writer # None => gate.readers = {} /\ gate.writer = locker BY DEF Gated
  <2> QED BY <2>2, <2>6, <2>8, <2>9, <2>10 DEF Gated, Ticks
<1>22. CASE UNCHANGED vuVars
  <2>1. UNCHANGED <<pc, back, locker, gate>> BY <1>22 DEF vuVars
  <2>2. deferred'.active = deferred.active BY <1>22 DEF vuVars
  <2> QED BY <2>1, <2>2, Zenon DEF Gated, InQueue
<1> QED BY <1>1, <1>2, <1>3, <1>4, <1>5, <1>6, <1>7, <1>8, <1>9, <1>10, <1>11, <1>12, <1>13,
           <1>14, <1>15, <1>16, <1>17, <1>18, <1>19, <1>20, <1>21, <1>22 DEF VuNext, Proceed, Call

-----------------------------------------------------------------------------
(* The results. *)

(* The conjunction of the invariants is inductive (all of server.rs's      *)
(* update and tick methods).                                               *)
THEOREM Inductive == VuSpec => []VuInv
<1>1. VuInit => VuInv
  <2> SUFFICES ASSUME VuInit PROVE VuInv OBVIOUS
  <2>1. Blank \in Trigger /\ NoTriggers \in [Cells -> Trigger]
    BY CellsAssumption DEF Blank, NoTriggers, Trigger
  <2>2. VuTypeOK
    <3>1. value \in [Cells -> Values] /\ clock \in Nat
      BY CellsAssumption DEF VuInit
    <3>2. /\ valueLock \in [writer : Threads \cup {None}, readers : SUBSET Threads]
          /\ gate \in [writer : Threads \cup {None}, readers : SUBSET Threads]
      BY Zenon DEF VuInit
    <3>3. deferred \in [active : BOOLEAN, held : [Cells -> Trigger]]
      BY <2>1, Zenon DEF VuInit
    <3>4. queued \in Nat /\ raised \in 0 .. queued /\ taken \in raised .. queued
      BY DEF VuInit
    <3>5. batches \in [1 .. queued -> Batch]
      <4>1. queued = 0 /\ 1 .. 0 = {} /\ batches = [i \in 1 .. 0 |-> [triggers |-> NoTriggers, awaited |-> TRUE]]
        BY DEF VuInit
      <4> QED BY <4>1, Zenon
    <3>6. /\ raiser \in Threads \cup {None} /\ locker \in Threads \cup {None}
          /\ engine \in Threads \cup {None} /\ latest \in [Cells -> Nat]
      BY DEF VuInit
    <3>7. /\ pc \in [Threads -> Places] /\ todo \in [Threads -> SUBSET Cells]
          /\ mine \in [Threads -> Nat] /\ back \in [Threads -> {"idle", "unlock"}]
      BY DEF VuInit, Places
    <3>8. own \in [Threads -> [Cells -> Trigger]]
      BY <2>1 DEF VuInit
    <3> QED BY <3>1, <3>2, <3>3, <3>4, <3>5, <3>6, <3>7, <3>8 DEF VuTypeOK
  <2>3. OneRaiser BY CellsAssumption DEF VuInit, OneRaiser, Raising
  <2>4. Numbered
    <3>1. /\ clock = 0 /\ queued = 0
          /\ \A c \in Cells : latest[c] = 0 /\ deferred.held[c].seq = 0
          /\ \A t \in Threads, c \in Cells : own[t][c].seq = 0
      BY Zenon DEF VuInit, NoTriggers, Blank
    <3>0. 0 <= 0 OBVIOUS
    <3>2. \A c \in Cells : latest[c] <= clock /\ deferred.held[c].seq <= clock BY <3>0, <3>1, Zenon
    <3>3. \A c \in Cells, i \in 1 .. queued : batches[i].triggers[c].seq <= latest[c] BY <3>1
    <3>4. \A t \in Threads, c \in Cells : own[t][c].seq <= clock BY <3>0, <3>1, Zenon
    <3> QED BY <3>1, <3>2, <3>3, <3>4, Zenon DEF Numbered
  <2>5. CommitOrder BY DEF VuInit, CommitOrder
  <2>6. Attended /\ ReturnsRaised BY DEF VuInit, Attended, ReturnsRaised
  <2>7. Gated BY Zenon DEF VuInit, Gated, InQueue
  <2> QED BY <2>2, <2>3, <2>4, <2>5, <2>6, <2>7 DEF VuInv
<1>2. VuInv /\ [VuNext]_vuVars => VuInv'
  BY TypeStep, RaiserStep, OrderStep, AttendStep, GateStep DEF VuInv
<1> QED BY <1>1, <1>2, PTL DEF VuSpec

(* Types are kept (one action per method of server.rs). *)
THEOREM TypeCorrect == VuSpec => []VuTypeOK
BY Inductive, PTL DEF VuInv

(* The triggers of an attribute are queued, and so raised, in the order    *)
(* its values were stored: TriggerQueue::push drops what was overtaken.    *)
THEOREM InCommitOrder == VuSpec => []CommitOrder
BY Inductive, PTL DEF VuInv

(* One thread raises at a time (the raiser of raise_queued). *)
THEOREM SingleRaiser == VuSpec => []OneRaiser
BY Inductive, PTL DEF VuInv

(* A call returns after its own triggers were raised (raise_queued). *)
THEOREM RaisedOnReturn == VuSpec => []ReturnsRaised
BY Inductive, PTL DEF VuInv

(* No batch is left behind, also one that a log storage queued from the    *)
(* raising thread.                                                         *)
THEOREM NoneStranded == VuSpec => []NothingStranded
<1>1. VuInv => NothingStranded
  <2> SUFFICES ASSUME VuInv, \A t \in Threads : ~InQueue(t) PROVE raised = queued
    BY DEF NothingStranded, InQueue
  <2>1. raiser = None
    BY DEF VuInv, VuTypeOK, OneRaiser, Raising, InQueue
  <2>2. taken = raised
    <3>1. ~ \E t \in Threads : pc[t] \in {"log", "report"} BY DEF InQueue
    <3> QED BY <3>1 DEF VuInv, VuTypeOK, OneRaiser
  <2>3. ~(taken < queued)
    <3> SUFFICES ASSUME taken < queued PROVE FALSE OBVIOUS
    <3>1. batches[taken + 1].awaited BY <2>1 DEF VuInv, Attended
    <3>2. taken + 1 \in taken + 1 .. queued BY DEF VuInv, VuTypeOK
    <3> QED BY <3>1, <3>2 DEF VuInv, Attended
  <2> QED BY <2>2, <2>3 DEF VuInv, VuTypeOK
<1> QED BY <1>1, Inductive, PTL

(* No tick runs between the updates of a locked model (batch_gate). *)
THEOREM NoTickWhileDeferring == VuSpec => []NoTickInBatch
<1>1. VuInv => NoTickInBatch
  <2> SUFFICES ASSUME VuInv, deferred.active, NEW t \in Threads
               PROVE pc[t] \notin {"tick", "tickValues", "ticking"}
    BY DEF NoTickInBatch
  <2>1. gate.readers = {} BY DEF VuInv, Gated
  <2> QED BY <2>1 DEF VuInv, Gated
<1> QED BY <1>1, Inductive, PTL

(* What was raised, as the abstract feed sees it. *)
Raised == [i \in 1 .. raised |-> batches[i].triggers]

(* Queueing leaves what was raised as it was. *)
LEMMA FeedKept ==
  ASSUME VuTypeOK, UNCHANGED raised, \A i \in 1 .. queued : batches'[i] = batches[i]
  PROVE Raised' = Raised
<1>1. \A i \in 1 .. raised : batches'[i] = batches[i] BY DEF VuTypeOK
<1> QED BY <1>1 DEF Raised

(* Every step of the queue is a step of the feed, or none. *)
LEMMA FeedStep ==
  ASSUME VuTypeOK, OneRaiser, Numbered, CommitOrder, [VuNext]_vuVars
  PROVE [Feed!FeedNext]_(Feed!feedVars)
<1>1. ASSUME NEW t \in Threads, NEW c \in Cells, NEW v \in Values, StoreLeaf(t, c, v)
     PROVE [Feed!FeedNext]_(Feed!feedVars)
  <2>1. UNCHANGED <<raised, batches>> /\ clock' = clock + 1 BY <1>1 DEF StoreLeaf, queueVars
  <2> QED BY <2>1 DEF Feed!FeedNext, Feed!Store
<1>2. ASSUME NEW t \in Threads, SubmitArray(t)
     PROVE [Feed!FeedNext]_(Feed!feedVars)
  <2>1. own[t] \in [Cells -> Trigger] BY DEF VuTypeOK
  <2>2. Submit(t, own[t]) /\ raised' = raised /\ clock' = clock BY <1>2 DEF SubmitArray
  <2>3. \A i \in 1 .. queued : batches'[i] = batches[i] BY <2>1, <2>2, SubmitEffect
  <2>4. Raised' = Raised BY <2>2, <2>3, FeedKept
  <2> QED BY <2>2, <2>4 DEF Raised, Feed!feedVars
<1>3. ASSUME NEW t \in Threads, EndWrite(t)
     PROVE [Feed!FeedNext]_(Feed!feedVars)
  <2>1. UNCHANGED <<clock, raised, batches>> BY <1>3 DEF EndWrite, queueVars
  <2> QED BY <2>1 DEF Feed!feedVars
<1>4. ASSUME NEW t \in Threads, RaiseWritten(t)
     PROVE [Feed!FeedNext]_(Feed!feedVars)
  <2>1. own[t] \in [Cells -> Trigger] BY DEF VuTypeOK
  <2>2. Submit(t, own[t]) /\ raised' = raised /\ clock' = clock BY <1>4 DEF RaiseWritten
  <2>3. \A i \in 1 .. queued : batches'[i] = batches[i] BY <2>1, <2>2, SubmitEffect
  <2>4. Raised' = Raised BY <2>2, <2>3, FeedKept
  <2> QED BY <2>2, <2>4 DEF Raised, Feed!feedVars
<1>5. ASSUME NEW t \in Threads, AwaitTurn(t)
     PROVE [Feed!FeedNext]_(Feed!feedVars)
  <2>1. UNCHANGED <<clock, raised, batches>> BY <1>5, Zenon DEF AwaitTurn, queueVars
  <2> QED BY <2>1 DEF Feed!feedVars
<1>6. ASSUME NEW t \in Threads, EndTurn(t)
     PROVE [Feed!FeedNext]_(Feed!feedVars)
  <2>1. UNCHANGED <<clock, raised, batches>> BY <1>6 DEF EndTurn, queueVars
  <2> QED BY <2>1 DEF Feed!feedVars
<1>7. ASSUME NEW t \in Threads, TakeBatch(t)
     PROVE [Feed!FeedNext]_(Feed!feedVars)
  <2>1. UNCHANGED <<clock, raised, batches>> BY <1>7 DEF TakeBatch, queueVars
  <2> QED BY <2>1 DEF Feed!feedVars
<1>8. ASSUME NEW t \in Threads, LogUpdates(t)
     PROVE [Feed!FeedNext]_(Feed!feedVars)
  <2>1. UNCHANGED <<clock, raised, batches>> BY <1>8 DEF LogUpdates, queueVars
  <2> QED BY <2>1 DEF Feed!feedVars
<1>9. ASSUME NEW t \in Threads, RaiseReports(t)
     PROVE [Feed!FeedNext]_(Feed!feedVars)
  <2>1. UNCHANGED <<clock, batches>> /\ raised' = raised + 1 BY <1>9 DEF RaiseReports
  <2>2. taken = raised + 1 BY <1>9 DEF RaiseReports, OneRaiser
  <2>3. raised \in Nat /\ queued \in Nat /\ raised + 1 \in 1 .. queued BY <2>2 DEF VuTypeOK
  <2>4. /\ DOMAIN Raised' = 1 .. raised + 1
        /\ \A i \in 1 .. raised : Raised'[i] = Raised[i]
        /\ \A i \in 1 .. raised : Raised[i] = batches[i].triggers
        /\ Raised'[raised + 1] = batches[raised + 1].triggers
    BY <2>1, <2>3 DEF Raised
  <2>5. ASSUME NEW c \in Cells, batches[raised + 1].triggers[c].seq # 0
        PROVE /\ batches[raised + 1].triggers[c].seq <= clock
              /\ \A i \in 1 .. raised : batches[i].triggers[c].seq < batches[raised + 1].triggers[c].seq
    <3>1. batches[raised + 1].triggers \in [Cells -> Trigger] BY <2>3 DEF VuTypeOK, Batch
    <3>2. batches[raised + 1].triggers[c].seq \in Nat BY <3>1 DEF Trigger
    <3>3. batches[raised + 1].triggers[c].seq <= latest[c] /\ latest[c] <= clock
      BY <2>3 DEF Numbered
    <3>4. latest[c] \in Nat /\ clock \in Nat BY DEF VuTypeOK
    <3>5. \A i \in 1 .. raised : i \in 1 .. queued /\ i < raised + 1 BY <2>3
    <3> QED BY <2>3, <2>5, <3>2, <3>3, <3>4, <3>5 DEF CommitOrder
  <2>6. Feed!InOrder(Raised'[raised + 1])
    BY <2>4, <2>5, Zenon DEF Feed!InOrder, Raised
  <2>7. Feed!Announce
    BY <2>1, <2>4, <2>6 DEF Feed!Announce, Raised
  <2> QED BY <2>7 DEF Feed!FeedNext
<1>10. ASSUME NEW t \in Threads, TakeGate(t)
     PROVE [Feed!FeedNext]_(Feed!feedVars)
  <2>1. UNCHANGED <<clock, raised, batches>> BY <1>10 DEF TakeGate, queueVars
  <2> QED BY <2>1 DEF Feed!feedVars
<1>11. ASSUME NEW t \in Threads, StartDeferring(t)
     PROVE [Feed!FeedNext]_(Feed!feedVars)
  <2>1. UNCHANGED <<clock, raised, batches>> BY <1>11 DEF StartDeferring, queueVars
  <2> QED BY <2>1 DEF Feed!feedVars
<1>12. ASSUME NEW t \in Threads, Unlock(t)
     PROVE [Feed!FeedNext]_(Feed!feedVars)
  <2>1. UNCHANGED <<clock, raised, batches>> BY <1>12 DEF Unlock, queueVars
  <2> QED BY <2>1 DEF Feed!feedVars
<1>13. ASSUME NEW t \in Threads, TickEngine(t)
     PROVE [Feed!FeedNext]_(Feed!feedVars)
  <2>1. UNCHANGED <<clock, raised, batches>> BY <1>13 DEF TickEngine, queueVars
  <2> QED BY <2>1 DEF Feed!feedVars
<1>14. ASSUME NEW t \in Threads, TickValues(t)
     PROVE [Feed!FeedNext]_(Feed!feedVars)
  <2>1. UNCHANGED <<clock, raised, batches>> BY <1>14 DEF TickValues, queueVars
  <2> QED BY <2>1 DEF Feed!feedVars
<1>15. ASSUME NEW t \in Threads, EndTick(t)
     PROVE [Feed!FeedNext]_(Feed!feedVars)
  <2>1. UNCHANGED <<clock, raised, batches>> BY <1>15 DEF EndTick, queueVars
  <2> QED BY <2>1 DEF Feed!feedVars
<1>16. ASSUME NEW t \in Threads, StartTick(t)
     PROVE [Feed!FeedNext]_(Feed!feedVars)
  <2>1. UNCHANGED <<clock, raised, batches>> BY <1>16 DEF StartTick, queueVars
  <2> QED BY <2>1 DEF Feed!feedVars
<1>17. ASSUME NEW t \in Threads, NEW c \in Cells, NEW v \in Values, Update(t, c, v)
     PROVE [Feed!FeedNext]_(Feed!feedVars)
  <2>1. [NoTriggers EXCEPT ![c] = Stored(c, v)] \in [Cells -> Trigger] BY BatchTypes
  <2>2. Submit(t, [NoTriggers EXCEPT ![c] = Stored(c, v)]) /\ raised' = raised /\ clock' = clock + 1
      BY <1>17 DEF Update
  <2>3. \A i \in 1 .. queued : batches'[i] = batches[i] BY <2>1, <2>2, SubmitEffect, Zenon
  <2>4. Raised' = Raised BY <2>2, <2>3, FeedKept
  <2> QED BY <2>2, <2>4, Zenon DEF Raised, Feed!FeedNext, Feed!Store
<1>18. ASSUME NEW t \in Threads, NEW c \in Cells, NEW v \in Values, NestedUpdate(t, c, v)
     PROVE [Feed!FeedNext]_(Feed!feedVars)
  <2>1. [NoTriggers EXCEPT ![c] = Stored(c, v)] \in [Cells -> Trigger] BY BatchTypes
  <2>2. Submit(t, [NoTriggers EXCEPT ![c] = Stored(c, v)]) /\ raised' = raised /\ clock' = clock + 1
      BY <1>18 DEF NestedUpdate
  <2>3. \A i \in 1 .. queued : batches'[i] = batches[i] BY <2>1, <2>2, SubmitEffect, Zenon
  <2>4. Raised' = Raised BY <2>2, <2>3, FeedKept
  <2> QED BY <2>2, <2>4 DEF Raised, Feed!FeedNext, Feed!Store
<1>19. ASSUME NEW t \in Threads, NEW cells \in Bulk, StartBulk(t, cells)
     PROVE [Feed!FeedNext]_(Feed!feedVars)
  <2>1. UNCHANGED <<clock, raised, batches>> BY <1>19 DEF StartBulk, queueVars
  <2> QED BY <2>1 DEF Feed!feedVars
<1>20. ASSUME NEW t \in Threads, LockDataModel(t)
     PROVE [Feed!FeedNext]_(Feed!feedVars)
  <2>1. UNCHANGED <<clock, raised, batches>> BY <1>20 DEF LockDataModel, queueVars
  <2> QED BY <2>1 DEF Feed!feedVars
<1>21. ASSUME NEW t \in Threads, ReleaseDeferred(t)
     PROVE [Feed!FeedNext]_(Feed!feedVars)
  <2>1. deferred.held \in [Cells -> Trigger] BY DEF VuTypeOK
  <2>2. Push(t, deferred.held) /\ raised' = raised /\ clock' = clock BY <1>21 DEF ReleaseDeferred
  <2>3. \A i \in 1 .. queued : batches'[i] = batches[i] BY <2>1, <2>2, PushEffect, Zenon
  <2>4. Raised' = Raised BY <2>2, <2>3, FeedKept
  <2> QED BY <2>2, <2>4 DEF Raised, Feed!feedVars
<1>22. CASE UNCHANGED vuVars
  <2>1. UNCHANGED <<clock, raised, batches>> BY <1>22 DEF vuVars
  <2> QED BY <2>1 DEF Feed!feedVars
<1> QED BY <1>1, <1>2, <1>3, <1>4, <1>5, <1>6, <1>7, <1>8, <1>9, <1>10, <1>11, <1>12, <1>13,
           <1>14, <1>15, <1>16, <1>17, <1>18, <1>19, <1>20, <1>21, <1>22 DEF VuNext, Proceed, Call

(* The queue of IedServer implements the feed: stores draw numbers, and    *)
(* whoever raises hands over batches one by one, in commit order.          *)
THEOREM Refinement == VuSpec => ImplementsFeed
<1>1. VuInit => Feed!FeedInit
  BY DEF VuInit, Feed!FeedInit
<1>2. VuInv /\ [VuNext]_vuVars => [Feed!FeedNext]_(Feed!feedVars)
  BY FeedStep DEF VuInv
<1> QED BY <1>1, <1>2, Inductive, PTL DEF VuSpec, ImplementsFeed, Feed!FeedSpec
=============================================================================
