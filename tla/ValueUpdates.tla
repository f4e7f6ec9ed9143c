---------------------------- MODULE ValueUpdates ----------------------------
(***************************************************************************)
(* How the updates of attributes raise their report and log triggers:      *)
(* update_*, update_array, raise_written, lock_data_model, the deferred    *)
(* triggers and the trigger queue of                                       *)
(* src/crates/iec61850-server/src/server.rs.                               *)
(*                                                                         *)
(* A trigger is the value an update wrote to a cell, the reasons it has    *)
(* and the commit number the store drew, from 1; a batch maps each cell to *)
(* its trigger, Blank for none: a request stores a cell at most once here. *)
(* The queue keeps the batches that were taken off it, and counts them.    *)
(***************************************************************************)
EXTENDS Naturals

CONSTANTS Cells, Values, Threads,
          Ticker,        \* the thread of the periodic triggers
          Declared,      \* the trigger options of each cell, of "dchg" and "dupd"
          Bulk,          \* the sets of cells that update_array and Write store together
          Single,        \* the cells update_* writes one at a time
          InitialValue,
          None,
          MaxCommits     \* bound: stores in a behaviour

ASSUME CellsAssumption ==
  /\ Declared \in [Cells -> SUBSET {"dchg", "dupd"}]
  /\ Bulk \subseteq SUBSET Cells
  /\ Single \subseteq Cells
  /\ InitialValue \in Values
  /\ None \notin Threads

VARIABLES value,     \* the value of each cell
          clock,     \* commit numbers drawn
          valueLock, \* the writer of the value lock, and its readers
          deferred,  \* whether triggers are deferred, and those that are
          batches,   \* the batches ever queued, by their number
          queued,    \* how many they are
          taken,     \* how many were taken off the queue
          raised,    \* how many have been raised
          raiser,    \* the thread raising batches
          latest,    \* the commit number of the latest update pushed, by cell
          locker,    \* the holder of the data model lock
          gate,      \* the batch gate: its writer and its readers
          engine,    \* the holder of the reporting engine lock
          pc, todo,  \* where each thread is, and the cells it has to store
          own,       \* the triggers of what it stored
          mine,      \* the number of the last batch it queued
          back       \* where it goes when its batch has been raised

vuVars == <<value, clock, valueLock, deferred, batches, queued, taken, raised, raiser,
            latest, locker, gate, engine, pc, todo, own, mine, back>>

queueVars == <<batches, queued, taken, raised, raiser, latest>>
lockVars == <<locker, gate, engine>>

Blank == [value |-> InitialValue, flags |-> {}, seq |-> 0]
NoTriggers == [c \in Cells |-> Blank]

VuInit ==
  /\ value = [c \in Cells |-> InitialValue]
  /\ clock = 0
  /\ valueLock = [writer |-> None, readers |-> {}]
  /\ deferred = [active |-> FALSE, held |-> NoTriggers]
  /\ batches = [i \in 1 .. 0 |-> [triggers |-> NoTriggers, awaited |-> TRUE]]
  /\ queued = 0 /\ taken = 0 /\ raised = 0 /\ raiser = None
  /\ latest = [c \in Cells |-> 0]
  /\ locker = None /\ engine = None
  /\ gate = [writer |-> None, readers |-> {}]
  /\ pc = [t \in Threads |-> "idle"]
  /\ todo = [t \in Threads |-> {}]
  /\ own = [t \in Threads |-> NoTriggers]
  /\ mine = [t \in Threads |-> 0]
  /\ back = [t \in Threads |-> "idle"]

-----------------------------------------------------------------------------
(* Triggers. *)

(* update_triggers: a changed value raises every reason the attribute      *)
(* declares, an unchanged one only an update.                              *)
UpdateTriggers(c, old, new) ==
  IF old = new THEN Declared[c] \cap {"dupd"} ELSE Declared[c]

Stored(c, v) == [value |-> v, flags |-> UpdateTriggers(c, value[c], v), seq |-> clock + 1]

(* Another update of an attribute already held adds its reasons, and its   *)
(* value when it was stored later.                                         *)
Merged(held, x) ==
  [value |-> IF x.seq > held.seq THEN x.value ELSE held.value,
   flags |-> held.flags \cup x.flags,
   seq   |-> IF x.seq > held.seq THEN x.seq ELSE held.seq]

MergeAll(held, new) == [c \in Cells |-> Merged(held[c], new[c])]

(* An update with a later one already pushed is left out. *)
Kept(new) == {c \in Cells : new[c].seq # 0 /\ latest[c] <= new[c].seq}

Raises(new) == \E c \in Kept(new) : new[c].flags # {}

QueuedBatch(t, new) ==
  [triggers |-> [c \in Cells |-> IF c \in Kept(new) THEN new[c] ELSE Blank],
   awaited  |-> raiser # t]

(* Mutant: what is pushed joins the last batch, even one already taken. *)
PushJoining(t, new) ==
  /\ latest' = [c \in Cells |-> IF c \in Kept(new) THEN new[c].seq ELSE latest[c]]
  /\ IF Raises(new) /\ queued = 0
     THEN /\ queued' = 1
          /\ batches' = [i \in {1} |-> QueuedBatch(t, new)]
     ELSE /\ UNCHANGED queued
          /\ batches' = IF ~Raises(new) THEN batches
                        ELSE [batches EXCEPT ![queued].triggers =
                                [c \in Cells |-> IF c \in Kept(new) THEN new[c] ELSE @[c]]]

(* TriggerQueue::push, by thread t. *)
Push(t, new) ==
  /\ latest' = [c \in Cells |-> IF c \in Kept(new) THEN new[c].seq ELSE latest[c]]
  /\ IF Raises(new)
     THEN /\ queued' = queued + 1
          /\ batches' = [i \in 1 .. queued + 1 |->
                           IF i = queued + 1 THEN QueuedBatch(t, new) ELSE batches[i]]
     ELSE UNCHANGED <<queued, batches>>

(* submit: deferred while the data model is locked, else queued. *)
Submit(t, new) ==
  IF deferred.active
  THEN /\ deferred' = [deferred EXCEPT !.held = MergeAll(@, new)]
       /\ UNCHANGED <<batches, queued, latest>>
  ELSE /\ Push(t, new)
       /\ UNCHANGED deferred

(* What follows a submission: raise_queued when something was queued. *)
ThenRaise(t, return) ==
  IF queued' # queued
  THEN /\ pc' = [pc EXCEPT ![t] = "turn"]
       /\ mine' = [mine EXCEPT ![t] = queued']
       /\ back' = [back EXCEPT ![t] = return]
  ELSE /\ pc' = [pc EXCEPT ![t] = return]
       /\ UNCHANGED <<mine, back>>

-----------------------------------------------------------------------------
(* Updates. *)

(* update_* stores and submits under the lock of the cell. *)
Update(t, c, v) ==
  /\ pc[t] = "idle" /\ c \in Single /\ clock < MaxCommits
  /\ value' = [value EXCEPT ![c] = v]
  /\ clock' = clock + 1
  /\ Submit(t, [NoTriggers EXCEPT ![c] = Stored(c, v)])
  /\ ThenRaise(t, "idle")
  /\ UNCHANGED <<valueLock, taken, raised, raiser, lockVars, todo, own>>

(* A log storage, called by the raising thread, updates an attribute: the  *)
(* call returns at once.                                                   *)
NestedUpdate(t, c, v) ==
  /\ pc[t] = "log" /\ c \in Single /\ clock < MaxCommits
  /\ value' = [value EXCEPT ![c] = v]
  /\ clock' = clock + 1
  /\ Submit(t, [NoTriggers EXCEPT ![c] = Stored(c, v)])
  /\ UNCHANGED <<valueLock, taken, raised, raiser, lockVars, pc, todo, own, mine, back>>

(* update_array and Write store leaf by leaf under the value lock ... *)
StartBulk(t, cells) ==
  /\ pc[t] = "idle" /\ clock < MaxCommits
  /\ valueLock = [writer |-> None, readers |-> {}]
  /\ valueLock' = [valueLock EXCEPT !.writer = t]
  /\ todo' = [todo EXCEPT ![t] = cells]
  /\ pc' = [pc EXCEPT ![t] = "store"]
  /\ UNCHANGED <<value, clock, deferred, queueVars, lockVars, own, mine, back>>

StoreLeaf(t, c, v) ==
  /\ pc[t] = "store" /\ c \in todo[t]
  /\ value' = [value EXCEPT ![c] = v]
  /\ clock' = clock + 1
  /\ own' = [own EXCEPT ![t] = [@ EXCEPT ![c] = Stored(c, v)]]
  /\ todo' = [todo EXCEPT ![t] = @ \ {c}]
  /\ UNCHANGED <<valueLock, deferred, queueVars, lockVars, pc, mine, back>>

(* ... update_array submits before it gives the lock up ... *)
SubmitArray(t) ==
  /\ pc[t] = "store" /\ todo[t] = {}
  /\ valueLock' = [valueLock EXCEPT !.writer = None]
  /\ Submit(t, own[t])
  /\ own' = [own EXCEPT ![t] = NoTriggers]
  /\ ThenRaise(t, "idle")
  /\ UNCHANGED <<value, clock, taken, raised, raiser, lockVars, todo>>

(* ... and Write hands its leaves over when the request ends. *)
EndWrite(t) ==
  /\ pc[t] = "store" /\ todo[t] = {}
  /\ valueLock' = [valueLock EXCEPT !.writer = None]
  /\ pc' = [pc EXCEPT ![t] = "written"]
  /\ UNCHANGED <<value, clock, deferred, queueVars, lockVars, todo, own, mine, back>>

RaiseWritten(t) ==
  /\ pc[t] = "written"
  /\ Submit(t, own[t])
  /\ own' = [own EXCEPT ![t] = NoTriggers]
  /\ ThenRaise(t, "idle")
  /\ UNCHANGED <<value, clock, valueLock, taken, raised, raiser, lockVars, todo>>

-----------------------------------------------------------------------------
(* raise_queued. *)

(* The thread waits for its batch to be raised or for the turn to raise. *)
AwaitTurn(t) ==
  /\ pc[t] = "turn"
  /\ \/ /\ raised >= mine[t]
        /\ pc' = [pc EXCEPT ![t] = back[t]]
        /\ UNCHANGED raiser
     \/ /\ raised < mine[t] /\ raiser = None
        /\ pc' = [pc EXCEPT ![t] = "next"]
        /\ raiser' = t
  /\ UNCHANGED <<value, clock, valueLock, deferred, batches, queued, taken, raised, latest, lockVars,
                 todo, own, mine, back>>

NextAwaited == taken < queued => batches[taken + 1].awaited

EndTurn(t) ==
  /\ pc[t] = "next"
  /\ (raised >= mine[t] /\ NextAwaited) \/ taken = queued
  /\ raiser' = None
  /\ pc' = [pc EXCEPT ![t] = back[t]]
  /\ UNCHANGED <<value, clock, valueLock, deferred, batches, queued, taken, raised, latest, lockVars,
                 todo, own, mine, back>>

TakeBatch(t) ==
  /\ pc[t] = "next"
  /\ ~(raised >= mine[t] /\ NextAwaited)
  /\ taken < queued
  /\ taken' = taken + 1
  /\ pc' = [pc EXCEPT ![t] = "log"]
  /\ UNCHANGED <<value, clock, valueLock, deferred, batches, queued, raised, raiser, latest, lockVars,
                 todo, own, mine, back>>

(* log_updates wrote the entries; the reports need the engine. *)
LogUpdates(t) ==
  /\ pc[t] = "log"
  /\ pc' = [pc EXCEPT ![t] = "report"]
  /\ UNCHANGED <<value, clock, valueLock, deferred, queueVars, lockVars, todo, own, mine, back>>

RaiseReports(t) ==
  /\ pc[t] = "report" /\ engine = None
  /\ raised' = raised + 1
  /\ pc' = [pc EXCEPT ![t] = "next"]
  /\ UNCHANGED <<value, clock, valueLock, deferred, batches, queued, taken, raiser, latest, lockVars,
                 todo, own, mine, back>>

-----------------------------------------------------------------------------
(* Batches of updates, and the periodic triggers that wait for them. *)

LockDataModel(t) ==
  /\ pc[t] = "idle" /\ locker = None
  /\ locker' = t
  /\ pc' = [pc EXCEPT ![t] = "gate"]
  /\ UNCHANGED <<value, clock, valueLock, deferred, queueVars, gate, engine, todo, own, mine, back>>

TakeGate(t) ==
  /\ pc[t] = "gate" /\ gate.readers = {}
  /\ gate' = [gate EXCEPT !.writer = t]
  /\ pc' = [pc EXCEPT ![t] = "open"]
  /\ UNCHANGED <<value, clock, valueLock, deferred, queueVars, locker, engine, todo, own, mine, back>>

StartDeferring(t) ==
  /\ pc[t] = "open"
  /\ deferred' = [deferred EXCEPT !.active = TRUE]
  /\ pc' = [pc EXCEPT ![t] = "idle"]
  /\ UNCHANGED <<value, clock, valueLock, queueVars, lockVars, todo, own, mine, back>>

(* The guard is dropped: release_deferred takes what was deferred and      *)
(* queues it in one section, ...                                           *)
ReleaseDeferred(t) ==
  /\ pc[t] = "idle" /\ locker = t
  /\ deferred' = [active |-> FALSE, held |-> NoTriggers]
  /\ Push(t, deferred.held)
  /\ ThenRaise(t, "unlock")
  /\ UNCHANGED <<value, clock, valueLock, taken, raised, raiser, lockVars, todo, own>>

(* ... and the gate and the lock go once it has been raised. *)
Unlock(t) ==
  /\ pc[t] = "unlock"
  /\ locker' = None
  /\ gate' = [gate EXCEPT !.writer = None]
  /\ pc' = [pc EXCEPT ![t] = "idle"]
  /\ UNCHANGED <<value, clock, valueLock, deferred, queueVars, engine, todo, own, mine, back>>

(* Mutant: ticks go ahead of a lock that waits for one. *)
StartTickBarging(t) ==
  /\ pc[t] = "idle" /\ t = Ticker
  /\ gate.writer = None
  /\ gate' = [gate EXCEPT !.readers = @ \cup {t}]
  /\ pc' = [pc EXCEPT ![t] = "tick"]
  /\ UNCHANGED <<value, clock, valueLock, deferred, queueVars, locker, engine, todo, own, mine, back>>

(* A tick only starts when no one holds the gate or waits to write it. *)
StartTick(t) ==
  /\ pc[t] = "idle" /\ t = Ticker
  /\ gate.writer = None /\ \A u \in Threads : pc[u] # "gate"
  /\ gate' = [gate EXCEPT !.readers = @ \cup {t}]
  /\ pc' = [pc EXCEPT ![t] = "tick"]
  /\ UNCHANGED <<value, clock, valueLock, deferred, queueVars, locker, engine, todo, own, mine, back>>

TickEngine(t) ==
  /\ pc[t] = "tick" /\ engine = None
  /\ engine' = t
  /\ pc' = [pc EXCEPT ![t] = "tickValues"]
  /\ UNCHANGED <<value, clock, valueLock, deferred, queueVars, locker, gate, todo, own, mine, back>>

TickValues(t) ==
  /\ pc[t] = "tickValues" /\ valueLock.writer = None
  /\ valueLock' = [valueLock EXCEPT !.readers = @ \cup {t}]
  /\ pc' = [pc EXCEPT ![t] = "ticking"]
  /\ UNCHANGED <<value, clock, deferred, queueVars, lockVars, todo, own, mine, back>>

EndTick(t) ==
  /\ pc[t] = "ticking"
  /\ valueLock' = [valueLock EXCEPT !.readers = @ \ {t}]
  /\ engine' = None
  /\ gate' = [gate EXCEPT !.readers = @ \ {t}]
  /\ pc' = [pc EXCEPT ![t] = "idle"]
  /\ UNCHANGED <<value, clock, deferred, queueVars, locker, todo, own, mine, back>>

-----------------------------------------------------------------------------

(* The steps of a thread that is inside a call. *)
Proceed(t) ==
  \/ \E c \in Cells, v \in Values : StoreLeaf(t, c, v)
  \/ SubmitArray(t) \/ EndWrite(t) \/ RaiseWritten(t)
  \/ AwaitTurn(t) \/ EndTurn(t) \/ TakeBatch(t) \/ LogUpdates(t) \/ RaiseReports(t)
  \/ TakeGate(t) \/ StartDeferring(t) \/ Unlock(t)
  \/ TickEngine(t) \/ TickValues(t) \/ EndTick(t)

(* The calls. *)
Call(t) ==
  \/ \E c \in Cells, v \in Values : Update(t, c, v) \/ NestedUpdate(t, c, v)
  \/ \E cells \in Bulk : StartBulk(t, cells)
  \/ LockDataModel(t) \/ ReleaseDeferred(t)

VuNext ==
  \/ \E t \in Threads : Proceed(t) \/ StartTick(t)
  \/ \E t \in Threads \ {Ticker} : Call(t)

(* A thread inside a call runs on, whoever holds the model drops it, and   *)
(* ticks, which come at intervals, do not keep a raising thread from the   *)
(* engine for ever.                                                        *)
VuSpec ==
  /\ VuInit /\ [][VuNext]_vuVars
  /\ \A t \in Threads : /\ WF_vuVars(Proceed(t)) /\ WF_vuVars(ReleaseDeferred(t))
                         /\ SF_vuVars(RaiseReports(t))

-----------------------------------------------------------------------------
(* Properties. *)

Trigger == [value : Values, flags : SUBSET {"dchg", "dupd"}, seq : Nat]
Batch == [triggers : [Cells -> Trigger], awaited : BOOLEAN]
Places == {"idle", "store", "written", "turn", "next", "log", "report", "gate", "open",
           "unlock", "tick", "tickValues", "ticking"}

VuTypeOK ==
  /\ value \in [Cells -> Values] /\ clock \in Nat
  /\ valueLock \in [writer : Threads \cup {None}, readers : SUBSET Threads]
  /\ deferred \in [active : BOOLEAN, held : [Cells -> Trigger]]
  /\ queued \in Nat /\ batches \in [1 .. queued -> Batch]
  /\ raised \in 0 .. queued /\ taken \in raised .. queued /\ raiser \in Threads \cup {None}
  /\ latest \in [Cells -> Nat]
  /\ locker \in Threads \cup {None} /\ engine \in Threads \cup {None}
  /\ gate \in [writer : Threads \cup {None}, readers : SUBSET Threads]
  /\ pc \in [Threads -> Places] /\ todo \in [Threads -> SUBSET Cells]
  /\ own \in [Threads -> [Cells -> Trigger]] /\ mine \in [Threads -> Nat]
  /\ back \in [Threads -> {"idle", "unlock"}]

(* The triggers of an attribute are raised in the order its values were    *)
(* stored.                                                                 *)
CommitOrder ==
  \A i, j \in 1 .. queued : i < j =>
    \A c \in Cells : batches[j].triggers[c].seq # 0 =>
      batches[i].triggers[c].seq < batches[j].triggers[c].seq

(* One thread raises at a time, and what was taken off the queue but not   *)
(* raised is the one batch it is at.                                       *)
Raising == {t \in Threads : pc[t] \in {"next", "log", "report"}}

OneRaiser ==
  /\ \A t \in Threads : t \in Raising <=> raiser = t
  /\ taken = raised + (IF \E t \in Threads : pc[t] \in {"log", "report"} THEN 1 ELSE 0)

(* A call returns once its own triggers have been raised. *)
ReturnsRaised ==
  \A t \in Threads : pc[t] \notin {"turn", "next", "log", "report"} => mine[t] <= raised

(* When no thread is in a call, nothing queued is left to be raised: a     *)
(* batch a log storage queued is not stranded.                             *)
NothingStranded ==
  (\A t \in Threads : pc[t] \notin {"turn", "next", "log", "report"}) => raised = queued

(* No periodic trigger looks at the values between the updates of a batch. *)
NoTickInBatch ==
  deferred.active => \A t \in Threads : pc[t] \notin {"tick", "tickValues", "ticking"}

RaisedValue(c) ==
  LET hits == {i \in 1 .. queued : batches[i].triggers[c].seq # 0}
  IN IF hits = {} THEN InitialValue
     ELSE batches[CHOOSE i \in hits : \A j \in hits : j <= i].triggers[c].value

(* When no thread is in a call and nothing is deferred, the last trigger   *)
(* raised for an attribute that declares data-change has the value the     *)
(* attribute holds.                                                        *)
RestIsRaised ==
  (\A t \in Threads : pc[t] = "idle") /\ ~deferred.active =>
    \A c \in Cells : "dchg" \in Declared[c] => RaisedValue(c) = value[c]

(* What was raised, as the consumers of the triggers see it. *)
Feed == INSTANCE AttributeFeed
          WITH feed <- [i \in 1 .. raised |-> batches[i].triggers], count <- raised

(* The queue implements the feed: every step of it stores a value, raises  *)
(* the next batch in order, or does neither.                               *)
ImplementsFeed == Feed!FeedSpec

(* Every call returns. *)
CallsReturn == \A t \in Threads : pc[t] # "idle" ~> pc[t] = "idle"
=============================================================================
