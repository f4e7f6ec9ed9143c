------------------------------ MODULE Logging ------------------------------
(***************************************************************************)
(* Log control blocks, the log they write, and ReadJournal over it:        *)
(* src/crates/iec61850-server/src/logging, the parts of server.rs that     *)
(* write entries, the journal services of service/mod.rs and the paged     *)
(* read of src/crates/iec61850-client/src/journal.rs.                      *)
(*                                                                         *)
(* An entry is [id, time, data], its data a sequence of [ref, value,       *)
(* reason]; a member of a data set is named by its leaves and its value    *)
(* maps them. A query is [start, stop, variables, after]. The values that  *)
(* updates stored reach the log in batches, in order (ValueUpdates).       *)
(***************************************************************************)
EXTENDS Absence, Naturals, Sequences, FiniteSets, SequencesExt

CONSTANTS LcbNames,      \* the log control blocks, in the order of their names
          LogScenarios,  \* [configs, batches, query, ref, max, ...]: the blocks, what updates
                         \* store, and the query a client makes of which log with
                         \* which negotiated PDU size (None when there is none);
                         \* bounds: its time, how far the wall clock may be set back, ticks,
                         \* switches of LogEna and reads of a block
          LogDataSets,   \* data sets by name: sequences of members, sets of leaves
          LogLeaves,
          Journals,      \* the log storages
          JournalCapacity \* entries each keeps, None for no bound

Lcbs == Range(LcbNames)

(* READ_JOURNAL_FRAME_OVERHEAD with the reserve, and READ_JOURNAL_HARD_CAP_BYTES. *)
FrameOverhead == 1
HardCap == 12

VARIABLES lgPlan,     \* the scenario
          lcb,        \* each block: configuration and state
          journal,    \* each log: its entries and the next identifier
          written,    \* history: every entry each log ever took
          changes,    \* history: every batch that was stored
          leafValue,  \* the value of each leaf
          feed,       \* the batches of triggers still to be logged
          logTask,    \* the batch being logged, the blocks to go, its time
          tickTask,   \* the tick under way: its times, the blocks to go, the data that is due
          wall, mono, \* the two clocks
          reader,     \* the paged read of a client
          lcbAnswer,  \* the last answer to a read of a block
          lgSpent     \* ticks, switches and reads of a block so far

lgVars == <<lgPlan, lcb, journal, written, changes, leafValue, feed, logTask, tickTask, wall, mono, reader,
            lcbAnswer, lgSpent>>

NoTask == [batch |-> None, lcbs |-> {}, time |-> None]
NoTick == [now |-> None, time |-> None, lcbs |-> {}, due |-> None]
NoReader == [pc |-> "idle", query |-> None, next |-> None, max |-> None, ref |-> None, all |-> <<>>,
             received |-> {}, cursors |-> {}, size |-> 0, last |-> 0]

LgSpend(k) == lgSpent[k] < lgPlan[k] /\ lgSpent' = [lgSpent EXCEPT ![k] = @ + 1]

(* LogControl::new and with_storage: a block with a log and a data set is  *)
(* enabled unless it is configured not to be.                              *)
NewLcb(c) ==
  LET on == c.storage # None /\ c.defaultOn /\ c.dataSet # None
  IN [config |-> c, ena |-> on, since |-> IF on THEN 0 ELSE None]

LgInit ==
  /\ lgPlan \in LogScenarios
  /\ lcb = [l \in DOMAIN lgPlan.configs |-> NewLcb(lgPlan.configs[l])]
  /\ journal = [j \in Journals |-> [entries |-> <<>>, next |-> 1]]
  /\ written = [j \in Journals |-> <<>>]
  /\ leafValue = [f \in LogLeaves |-> 0]
  /\ changes = <<>> /\ feed = <<>> /\ logTask = NoTask /\ tickTask = NoTick
  /\ wall = 1 /\ mono = 0
  /\ reader = NoReader /\ lcbAnswer = None
  /\ lgSpent = [ticks |-> 0, switches |-> 0, asks |-> 0]

-----------------------------------------------------------------------------
(* The log storage. *)

(* A full log evicts its oldest entries. *)
RoomIn(entries, cap) ==
  IF cap = None \/ Len(entries) < cap THEN entries
  ELSE SubSeq(entries, Len(entries) - cap + 2, Len(entries))

(* add_entry_with_data. *)
AddEntry(j, time, data) ==
  LET entry == [id |-> journal[j].next, time |-> time, data |-> data]
  IN /\ journal' = [journal EXCEPT ![j] =
                      [entries |-> Append(RoomIn(@.entries, JournalCapacity[j]), entry),
                       next    |-> @.next + 1]]
     /\ written' = [written EXCEPT ![j] = Append(@, entry)]

(* oldest_and_newest. *)
LogBounds(j) ==
  IF j = None \/ journal[j].entries = <<>> THEN None
  ELSE [old |-> Head(journal[j].entries), new |-> Last(journal[j].entries)]

-----------------------------------------------------------------------------
(* Log control blocks. *)

(* set_log_ena; a block that is on already keeps its integrity period. *)
SetLogEna(l, on) ==
  /\ LgSpend("switches")
  /\ on => lcb[l].config.dataSet # None /\ lcb[l].config.storage # None
  /\ lcb' = [lcb EXCEPT ![l].ena = on,
                        ![l].since = IF ~on THEN None ELSE IF lcb[l].ena THEN @ ELSE mono]
  /\ UNCHANGED <<lgPlan, journal, written, changes, leafValue, feed, logTask, tickTask, wall, mono, reader, lcbAnswer>>

(* log_reason: the reasons of an update that the block has options for. *)
LogReason(flags, trgOps) == flags \cap trgOps

(* Mutant: the values are read when they are logged. *)
MemberValueNow(m, batch) == [f \in m |-> leafValue[f]]

(* A member takes the values of the batch over those its leaves hold now. *)
MemberValue(m, batch) ==
  [f \in m |-> IF f \in DOMAIN batch THEN batch[f].value ELSE leafValue[f]]

(* The members of a data set that a batch gives a reason to log. *)
LoggedMembers(members, batch, trgOps) ==
  LET reason(m) == UNION {LogReason(batch[f].flags, trgOps) : f \in m \cap DOMAIN batch}
      named == SelectSeq(members, LAMBDA m : reason(m) # {})
  IN [i \in DOMAIN named |->
        [ref |-> named[i], value |-> MemberValue(named[i], batch), reason |-> reason(named[i])]]

(* log_data_set. *)
LogDataSet(l) ==
  IF lcb[l].config.dataSet \in DOMAIN LogDataSets THEN LogDataSets[lcb[l].config.dataSet] ELSE <<>>

(* An update, or several under one lock, stores values and queues them. *)
StoreLeaves(batch) ==
  /\ Len(changes) < Len(lgPlan.batches) /\ batch = lgPlan.batches[Len(changes) + 1]
  /\ Len(feed) < 2
  /\ leafValue' = [f \in LogLeaves |-> IF f \in DOMAIN batch THEN batch[f].value ELSE leafValue[f]]
  /\ feed' = Append(feed, batch) /\ changes' = Append(changes, batch)
  /\ UNCHANGED <<lgPlan, lcb, journal, written, logTask, tickTask, wall, mono, reader, lcbAnswer, lgSpent>>

(* log_updates takes the next batch and goes over the blocks ... *)
StartLog ==
  /\ logTask = NoTask /\ feed # <<>>
  /\ feed' = Tail(feed)
  /\ logTask' = [batch |-> Head(feed), lcbs |-> Lcbs, time |-> None]
  /\ UNCHANGED <<lgPlan, lcb, journal, written, changes, leafValue, tickTask, wall, mono, reader, lcbAnswer, lgSpent>>

(* ... and each that is enabled writes one entry, of the time of the first. *)
LogNext(l) ==
  LET data == LoggedMembers(LogDataSet(l), logTask.batch, lcb[l].config.trgOps)
      logs == lcb[l].ena /\ data # <<>>
      time == IF logTask.time = None THEN wall ELSE logTask.time
      rest == [logTask EXCEPT !.lcbs = @ \ {l}, !.time = IF logs THEN time ELSE @]
  IN /\ l \in logTask.lcbs
     /\ IF logs THEN AddEntry(lcb[l].config.storage, time, data)
        ELSE UNCHANGED <<journal, written>>
     /\ logTask' = IF rest.lcbs = {} THEN NoTask ELSE rest
     /\ UNCHANGED <<lgPlan, lcb, changes, leafValue, feed, tickTask, wall, mono, reader, lcbAnswer, lgSpent>>

(* tick_log_integrity, with the times the tick took first. *)
StartTick ==
  /\ tickTask = NoTick
  /\ LgSpend("ticks")
  /\ tickTask' = [now |-> mono, time |-> wall, lcbs |-> Lcbs, due |-> None]
  /\ UNCHANGED <<lgPlan, lcb, journal, written, changes, leafValue, feed, logTask, wall, mono, reader, lcbAnswer>>

IntegrityDue(c, since, now) ==
  /\ "integrity" \in c.trgOps /\ c.intgPd > 0
  /\ since # None /\ now >= since + c.intgPd

(* integrity_due of one block, and the values of its data set if it is. *)
TickDue(l) ==
  LET c == lcb[l].config
      due == lcb[l].ena /\ IntegrityDue(c, lcb[l].since, tickTask.now)
      idle == "integrity" \notin c.trgOps \/ c.intgPd = 0 \/ lcb[l].since = None
      data == [i \in DOMAIN LogDataSet(l) |->
                 [ref |-> LogDataSet(l)[i], value |-> [f \in LogDataSet(l)[i] |-> leafValue[f]],
                  reason |-> {"integrity"}]]
      rest == [tickTask EXCEPT !.lcbs = @ \ {l}]
  IN /\ l \in tickTask.lcbs /\ tickTask.due = None
     /\ lcb' = [lcb EXCEPT ![l].since = IF due \/ (lcb[l].ena /\ idle) THEN tickTask.now ELSE @]
     /\ tickTask' = IF due /\ data # <<>> THEN [rest EXCEPT !.due = [lcb |-> l, data |-> data]]
                    ELSE IF rest.lcbs = {} THEN NoTick ELSE rest
     /\ UNCHANGED <<lgPlan, journal, written, changes, leafValue, feed, logTask, wall, mono, reader, lcbAnswer, lgSpent>>

(* write_entry looks at LogEna again. *)
MayWrite(l) == lcb[l].ena /\ lcb[l].config.storage # None

TickWrite ==
  /\ tickTask.due # None
  /\ IF MayWrite(tickTask.due.lcb)
     THEN AddEntry(lcb[tickTask.due.lcb].config.storage, tickTask.time, tickTask.due.data)
     ELSE UNCHANGED <<journal, written>>
  /\ tickTask' = IF tickTask.lcbs = {} THEN NoTick ELSE [tickTask EXCEPT !.due = None]
  /\ UNCHANGED <<lgPlan, lcb, changes, leafValue, feed, logTask, wall, mono, reader, lcbAnswer, lgSpent>>

(* Time passes; the wall clock may be set back. *)
LogTime(back) ==
  /\ mono < lgPlan.time /\ back <= wall
  /\ mono' = IF back = 0 THEN mono + 1 ELSE mono
  /\ wall' = IF back = 0 THEN wall + 1 ELSE wall - back
  /\ UNCHANGED <<lgPlan, lcb, journal, written, changes, leafValue, feed, logTask, tickTask, reader, lcbAnswer, lgSpent>>

-----------------------------------------------------------------------------
(* The services of the log. *)

(* effective_log_ref: the configured reference, or the general log of the  *)
(* block's logical node.                                                   *)
EffectiveLogRef(c) ==
  IF c.logRef = None THEN [domain |-> c.domain, item |-> <<c.ln, "GeneralLog">>] ELSE c.logRef

(* resolve_journal: of the blocks that name a log, the first with a storage. *)
ResolveJournal(ref) ==
  LET named == SelectSeq(LcbNames, LAMBDA l : EffectiveLogRef(lcb[l].config) = ref)
      bound == SelectSeq(named, LAMBDA l : lcb[l].config.storage # None)
  IN IF bound # <<>> THEN Head(bound) ELSE IF named # <<>> THEN Head(named) ELSE None

(* A read of a log control block: its state, and the bounds of its log. *)
ReadLcb(l) ==
  /\ LgSpend("asks")
  /\ lcbAnswer' = [lcb |-> l, ena |-> lcb[l].ena, bounds |-> LogBounds(lcb[l].config.storage),
                   ref |-> EffectiveLogRef(lcb[l].config)]
  /\ UNCHANGED <<lgPlan, lcb, journal, written, changes, leafValue, feed, logTask, tickTask, wall, mono, reader>>

StartTime(q) == IF q.start # None /\ q.start[1] = "time" THEN q.start[2] ELSE None
LogStartEntry(q) == IF q.start # None /\ q.start[1] = "entry" THEN q.start[2] ELSE None
EndTime(q) == IF q.stop # None /\ q.stop[1] = "time" THEN q.stop[2] ELSE None
EntryLimit(q) == IF q.stop # None /\ q.stop[1] = "count" THEN q.stop[2] ELSE None

(* JournalSelection::query: the entries the storage visits. *)
Visited(q, e) ==
  LET earliest == {t \in {StartTime(q), IF q.after = None THEN None ELSE q.after.time} : t # None}
      floors == {i \in {IF q.after = None THEN None ELSE q.after.id,
                        IF LogStartEntry(q) \in {None, 0} THEN None ELSE LogStartEntry(q) - 1} : i # None}
  IN /\ \A t \in earliest : e.time >= t
     /\ IF floors # {} THEN \A i \in floors : e.id > i
        ELSE EndTime(q) # None => e.time <= EndTime(q)

(* JournalSelection::admits. *)
Admits(q, e) ==
  /\ StartTime(q) # None => e.time >= StartTime(q)
  /\ LogStartEntry(q) # None => e.id >= LogStartEntry(q)
  /\ EndTime(q) # None => e.time <= EndTime(q)
  /\ q.after # None => e.id > q.after.id /\ e.time >= q.after.time

(* to_wire keeps the variables asked for. *)
WireEntry(q, e) ==
  [e EXCEPT !.data = SelectSeq(@, LAMBDA d : q.variables = {} \/ d.ref \in q.variables)]

OnWire(q, e) == q.variables = {} \/ WireEntry(q, e).data # <<>>

(* estimate_entry_wire_size: the entry's own fields and its variables. *)
EntrySize(e) == 1 + Len(e.data)

ReadJournalBudget(max) ==
  IF max = None THEN HardCap ELSE IF max < FrameOverhead THEN 0 ELSE max - FrameOverhead

LimitReached(q, page) == EntryLimit(q) # None /\ Len(page.entries) >= EntryLimit(q)

Fits(page, e, max) == page.size + EntrySize(e) <= ReadJournalBudget(max)

(* Mutant: a page that is full does not say that more follows. *)
CutQuietly(page) == [page EXCEPT !.stop = TRUE]

CutPage(page) == [page EXCEPT !.more = TRUE, !.stop = TRUE]

(* BudgetedJournalVisitor::visit of an entry that goes on the wire. *)
Visit(q, max, page, e) ==
  LET taken == [page EXCEPT !.size = @ + EntrySize(e), !.entries = Append(@, e)]
  IN IF page.stop \/ LimitReached(q, page) THEN [page EXCEPT !.stop = TRUE]
     ELSE IF ~Fits(page, e, max) THEN CutPage(page)
     ELSE [taken EXCEPT !.stop = LimitReached(q, taken)]

(* dispatch_read_journal: one page of the log of a reference. *)
JournalPage(q, max, j) ==
  LET shown == IF j = None THEN <<>>
               ELSE SelectSeq(journal[j].entries,
                              LAMBDA e : Visited(q, e) /\ Admits(q, e) /\ OnWire(q, e))
  IN FoldLeft(LAMBDA page, e : Visit(q, max, page, WireEntry(q, e)),
              [entries |-> <<>>, size |-> 0, more |-> FALSE, stop |-> FALSE], shown)

-----------------------------------------------------------------------------
(* query_journal_all of a client. *)

(* JournalQuery::continuation. *)
Continuation(q, page) ==
  IF page = <<>> THEN None
  ELSE [q EXCEPT !.after = [time |-> Last(page).time, id |-> Last(page).id],
                 !.stop = IF EntryLimit(q) = None THEN @
                          ELSE <<"count", IF Len(page) > @[2] THEN 0 ELSE @[2] - Len(page)>>]

(* keep_new_entries: what follows the cursor, less what was received. *)
KeepNew(cursor, received, page) ==
  LET at == IF cursor = None THEN {} ELSE {i \in DOMAIN page : page[i].id = cursor.id}
      rest == IF at = {} THEN page ELSE SubSeq(page, Max(at) + 1, Len(page))
  IN SelectSeq(rest, LAMBDA e : e.id \notin received)

(* drop_past_end. *)
DropPastEnd(q, page) ==
  SelectSeq(page, LAMBDA e : EndTime(q) # None => e.time <= EndTime(q))

Truncated(page, n) == SubSeq(page, 1, IF n < Len(page) THEN n ELSE Len(page))

StartQuery(q, ref, max) ==
  /\ reader.pc = "idle"
  /\ reader' = [NoReader EXCEPT !.pc = "reading", !.query = q, !.next = q, !.max = max, !.ref = ref,
                                !.last = IF ResolveJournal(ref) = None THEN 0
                                         ELSE LET j == lcb[ResolveJournal(ref)].config.storage
                                              IN IF j = None THEN 0 ELSE Len(written[j])]
  /\ UNCHANGED <<lgPlan, lcb, journal, written, changes, leafValue, feed, logTask, tickTask, wall, mono, lcbAnswer, lgSpent>>

(* One request and its answer, as query_journal_all takes it. *)
RoomFor(limit) == IF limit < Len(reader.all) THEN 0 ELSE limit - Len(reader.all)

PageOf(limit, kept) == IF limit = None THEN kept ELSE Truncated(kept, RoomFor(limit))

Ended(limit, more, fresh, kept, page) ==
  ~more \/ Len(kept) < Len(fresh) \/ (limit # None /\ Len(reader.all) + Len(page) >= limit)

Took(answer, fresh, page, ended, next) ==
  reader' = [reader EXCEPT
    !.size = answer.size,
    !.cursors = IF ended \/ next = None THEN @ ELSE @ \cup {next.after},
    !.received = @ \cup {e.id : e \in Range(fresh)},
    !.all = IF ended \/ next # None THEN @ \o page ELSE @,
    !.next = IF ended THEN @ ELSE next,
    !.pc = IF ended THEN "done" ELSE IF next = None THEN "stuck" ELSE @]

TakePage(limit, answer, fresh, kept, page) ==
  Took(answer, fresh, page, Ended(limit, answer.more, fresh, kept, page), Continuation(reader.next, page))

TakeKept(limit, answer, fresh, kept) == TakePage(limit, answer, fresh, kept, PageOf(limit, kept))

TakeFresh(answer, fresh) == TakeKept(EntryLimit(reader.query), answer, fresh, DropPastEnd(reader.query, fresh))

TakeAnswer(answer) == TakeFresh(answer, KeepNew(reader.next.after, reader.received, answer.entries))

ReadLog(l) ==
  IF l = None THEN reader' = [reader EXCEPT !.pc = "unknown"]
  ELSE TakeAnswer(JournalPage(reader.next, reader.max, lcb[l].config.storage))

ReadPage ==
  /\ reader.pc = "reading"
  /\ ReadLog(ResolveJournal(reader.ref))
  /\ UNCHANGED <<lgPlan, lcb, journal, written, changes, leafValue, feed, logTask, tickTask, wall, mono, lcbAnswer,
                 lgSpent>>

-----------------------------------------------------------------------------
LgNext ==
  \/ \E l \in Lcbs, on \in BOOLEAN : SetLogEna(l, on)
  \/ \E batch \in Range(lgPlan.batches) : StoreLeaves(batch)
  \/ StartLog
  \/ \E l \in Lcbs : LogNext(l)
  \/ StartTick
  \/ \E l \in Lcbs : TickDue(l)
  \/ TickWrite
  \/ \E back \in {0, lgPlan.back} : LogTime(back)
  \/ \E l \in Lcbs : ReadLcb(l)
  \/ StartQuery(lgPlan.query, lgPlan.ref, lgPlan.max)
  \/ ReadPage

LgSpec == LgInit /\ [][LgNext]_lgVars

-----------------------------------------------------------------------------
(* Properties. *)

LogStorageOf(ref) ==
  IF ResolveJournal(ref) = None THEN None ELSE lcb[ResolveJournal(ref)].config.storage

(* A block that was on all along and has a log of its own logs each change *)
(* of its data set that it has an option for once, in the order the        *)
(* changes were stored, with the values they stored and not with later     *)
(* ones (log_updates).                                                     *)
EveryChangeLogged ==
  lgSpent.switches = 0 =>
    \A l \in {x \in Lcbs : lcb[x].ena} : \A m \in Range(LogDataSet(l)) :
      LET c == lcb[l].config
          touches(b) == \E f \in m \cap DOMAIN b : LogReason(b[f].flags, c.trgOps) # {}
          due == SelectSeq(changes, touches)
          open == Len(SelectSeq(feed, touches))
                    + IF l \in logTask.lcbs /\ touches(logTask.batch) THEN 1 ELSE 0
          items(e) == {d \in Range(e.data) : d.ref = m /\ d.reason # {"integrity"}}
          logged == SelectSeq(written[c.storage], LAMBDA e : items(e) # {})
      IN (\A o \in Lcbs \ {l} : lcb[o].config.storage # c.storage) =>
           /\ Len(logged) + open = Len(due)
           /\ \A i \in DOMAIN logged : \A d \in items(logged[i]) : \A f \in m \cap DOMAIN due[i] :
                d.value[f] = due[i][f].value

(* A reference reading of the selection of a query. *)
Selected(q, e) ==
  /\ q.start # None => IF q.start[1] = "time" THEN e.time >= q.start[2] ELSE e.id >= q.start[2]
  /\ q.stop # None /\ q.stop[1] = "time" => e.time <= q.stop[2]
  /\ q.after # None => e.id > q.after.id /\ e.time >= q.after.time
  /\ q.variables # {} => \E d \in Range(e.data) : d.ref \in q.variables

(* The selected entries that were there when a read began and still are,   *)
(* when the count of the read was not used up.                             *)
StillThere ==
  LET q == reader.query
      j == LogStorageOf(reader.ref)
  IN IF j = None \/ (EntryLimit(q) # None /\ Len(reader.all) >= EntryLimit(q)) THEN {}
     ELSE {e \in Range(journal[j].entries) : e.id <= reader.last /\ Selected(q, e)}

(* The entries the server passes over for good once a page has resumed     *)
(* after an earlier entry with a later time.                               *)
BehindCursor(e) == \E c \in reader.cursors : c.id < e.id /\ c.time > e.time

(* A finished read holds selected entries only, each once and in the order *)
(* of the log, with the variables asked for and no others, and no more     *)
(* than the entry count (query_journal_all over dispatch_read_journal).    *)
(* Of the entries that stay in the log it misses exactly those behind a    *)
(* cursor: continuation resumes at the time of the last entry of a page,   *)
(* and admits holds every later entry to that time.  When the clock steps  *)
(* back between two pages, or a tick took its time before a change that    *)
(* was logged ahead of it, the rest of the log is not read to the end.     *)
ReadExact ==
  reader.pc = "done" =>
    LET q == reader.query
    IN /\ \A i, k \in DOMAIN reader.all : i < k => reader.all[i].id < reader.all[k].id
       /\ EntryLimit(q) # None => Len(reader.all) <= EntryLimit(q)
       /\ \A i \in DOMAIN reader.all :
            LET e == reader.all[i]  full == written[LogStorageOf(reader.ref)][e.id]
            IN /\ Selected(q, full) /\ e.time = full.time
               /\ Range(e.data) = {d \in Range(full.data) : q.variables = {} \/ d.ref \in q.variables}
       /\ \A e \in StillThere : (\E i \in DOMAIN reader.all : reader.all[i].id = e.id) <=> ~BehindCursor(e)

=============================================================================
