------------------------- MODULE BufferedReporting --------------------------
(* The in-memory report buffer of a buffered report control block (BRCB):      *)
(* crates/iec61850-server/src/reporting/buffer.rs, InMemoryReportBuffer.  A     *)
(* buffer is a record of                                                       *)
(*   entries    the stored entries, oldest first                               *)
(*   index      EntryID -> absolute sequence number                            *)
(*   next       the sequence number the next push takes                        *)
(*   front      the sequence number of the entry at the front                  *)
(*   overflow   the BufOvfl flag                                               *)
(*   formatted  the newest EntryID formatted for transmission, 0 before any    *)
(* An entry is a record with its EntryID in id; the buffer reads no other       *)
(* field of it.                                                                *)
EXTENDS Naturals, Sequences, FiniteSets

CONSTANTS Capacity,    \* buffer_capacity, in entries; 0 stores nothing
          Strategy     \* OverflowStrategy

ASSUME CapacityAssumption == Capacity \in Nat
ASSUME StrategyAssumption == Strategy \in {"DropOldest", "DropNewest", "Reject"}

(* An empty buffer; it starts with the overflow flag set.                       *)
NewBuffer == [entries |-> <<>>, index |-> <<>>, next |-> 0, front |-> 0,
              overflow |-> TRUE, formatted |-> 0]

Ids(entries) == {entries[i].id : i \in DOMAIN entries}

(* The n oldest entries leave the queue and the index.                          *)
Evict(b, n) ==
    LET kept == SubSeq(b.entries, n + 1, Len(b.entries)) IN
    [b EXCEPT !.entries = kept,
              !.index = [id \in DOMAIN @ \ Ids(SubSeq(b.entries, 1, n)) |-> @[id]],
              !.front = @ + n]

Store(b, e) ==
    [b EXCEPT !.entries = Append(@, e),
              !.index = [id \in DOMAIN @ \cup {e.id} |->
                            IF id = e.id THEN b.next ELSE @[id]],
              !.next = @ + 1]

(* Mutant: an eviction never raises the flag.                                   *)
LosesNothing(b, n) == FALSE

(* Losing an entry not yet formatted sets the overflow flag.                    *)
LosesUnformatted(b, n) == \E i \in 1..n : b.entries[i].id > b.formatted

Push(b, e) ==
    LET excess == Len(b.entries) + 1 - Capacity
        full   == Len(b.entries) >= Capacity IN
    CASE Capacity = 0 -> b
      [] Capacity # 0 /\ ~full -> Store(b, e)
      [] Capacity # 0 /\ full /\ Strategy = "DropOldest" ->
            [Store(Evict(b, excess), e) EXCEPT
                !.overflow = @ \/ LosesUnformatted(b, excess)]
      [] Capacity # 0 /\ full /\ Strategy # "DropOldest" ->
            [b EXCEPT !.overflow = TRUE]

(* seek_to_after_entry_id: the position of id comes from the index alone.       *)
Seek(b, id) ==
    IF id \notin DOMAIN b.index \/ b.index[id] < b.front THEN "NotFound"
    ELSE IF b.index[id] - b.front + 1 >= Len(b.entries) THEN "FoundLast"
    ELSE "FoundWithNext"

(* purge: the queue and the index are cleared; overflow is left alone.          *)
PurgeEntries(b) == [b EXCEPT !.entries = <<>>, !.index = <<>>, !.front = b.next]

(* mark_formatted moves the mark up; set_formatted_through sets it.             *)
MarkFormatted(b, id) == [b EXCEPT !.formatted = IF id > @ THEN id ELSE @]

SetFormattedThrough(b, id) == [b EXCEPT !.formatted = id]

(* iter_from: the entries after id, in queue order.                             *)
IterFrom(b, id) == SelectSeq(b.entries, LAMBDA e : e.id > id)

-----------------------------------------------------------------------------
(* One buffered report control block of the server: the SetBRCBValues handlers *)
(* (reporting/service.rs, brcb.rs), the value triggers, the periodic tick and   *)
(* the transmission path of the reporting engine (reporting/engine.rs).         *)
(*                                                                             *)
(* Three locks matter.  The engine lock is held for a whole trigger, tick,      *)
(* reservation tick, connection loss or DatSet write; eng is its holder.  The   *)
(* state lock and the buffer lock of the control block are taken in short       *)
(* sections, never together; each such section is one action here.  A client   *)
(* write other than DatSet only takes the engine lock to look the control      *)
(* block up, so its sections interleave with those of the engine.               *)

CONSTANTS Conns,              \* connection identifiers
          IpOf,               \* the peer address of a connection
          NoConn, NoIp,
          ClientReservation,  \* Brcb.client_reservation, NoIp for none
          Requests,           \* the client writes of the instance
          ChannelCap,         \* REPORT_CHANNEL_CAP, in segments
          Segments,           \* how many segments an entry may take, 0: oversized
          MaxEvents           \* bound: entries ever asked for

ASSUME IpAssumption == NoIp \notin {IpOf[c] : c \in Conns} /\ NoConn \notin Conns
ASSUME ChannelAssumption == ChannelCap \in Nat \ {0} /\ Segments \subseteq Nat

VARIABLES buf,       \* the report buffer, under the buffer lock
          st,        \* BrcbState, under the state lock
          eng,       \* the operation holding the engine lock
          partial,   \* partial_reports of this control block, under the engine lock
          window,    \* brcb_buftm_pending of this control block, under the engine lock
          stored,    \* stored values whose triggers are on their way to the engine
          events,    \* bound: entries asked for
          link,      \* "up", "ending" (channel gone, engine not told yet) or "down"
          chan,      \* PDUs in the report channel of a connection
          w,         \* the SetBRCBValues request each connection is in
          hist       \* what the client was sent: history, read by no action

vars == <<buf, st, eng, partial, window, stored, events, link, chan, w, hist>>

engine == <<eng, partial, window>>
values == <<stored, events>>

(* A commit number is only ever compared with the mark the latest purge left,   *)
(* and a purge count with the current one.  So both are flags that a purge      *)
(* clears: fresh, the value was stored after the latest purge (commit number    *)
(* at or past purge_mark), and current, the purge count has not moved since it  *)
(* was read.                                                                    *)
NoPartial == [conn |-> NoConn, id |-> 0, rest |-> 0]
NoWindow == [open |-> FALSE, current |-> FALSE, fresh |-> FALSE]
NoEntry == [id |-> 0, fresh |-> TRUE, segs |-> 0]
Anchor(at, id) == [at |-> at, id |-> id]
After(id) == Anchor("AfterEntryId", id)

Free == [pc |-> "free", ret |-> "free", conn |-> NoConn, entry |-> NoEntry,
         checked |-> FALSE, current |-> TRUE, todo |-> <<>>, ovfl |-> FALSE,
         anchor |-> Anchor("None", 0), through |-> 0]
Return == IF eng.ret = "free" THEN Free
          ELSE [Free EXCEPT !.pc = eng.ret, !.conn = eng.conn]
IdleW == [pc |-> "idle", req |-> "none", id |-> 0, seek |-> "none"]

NewState == [ena |-> FALSE, conn |-> NoConn, owner |-> NoIp, gi |-> FALSE,
             resv |-> IF ClientReservation = NoIp THEN "NotReserved" ELSE "Preconfigured",
             timer |-> FALSE, anchor |-> Anchor("None", 0), committed |-> 0,
             lastId |-> 0, ovflOnEnable |-> FALSE, dataset |-> TRUE, bufTm |-> FALSE]

(* The history of the current enable: the last report started, whether an entry *)
(* was lost after it, and what went wrong, for good: a loss without BufOvfl and *)
(* a step back in EntryID order.  resync is the EntryID of the last accepted    *)
(* EntryID write.                                                               *)
NewSession(h) == [h EXCEPT !.id = 0, !.lost = FALSE]

Init == /\ buf = NewBuffer /\ st = NewState
        /\ eng = Free /\ partial = NoPartial /\ window = NoWindow
        /\ stored = [fresh |-> 0, stale |-> 0] /\ events = 0
        /\ link = [c \in Conns |-> "up"] /\ chan = [c \in Conns |-> 0]
        /\ w = [c \in Conns |-> IdleW]
        /\ hist = [id |-> 0, lost |-> FALSE, silent |-> FALSE, back |-> FALSE, resync |-> 0]

-------------------------------------------------------------------------------
(* Values stored by the application or a client write.                          *)

(* A value is stored and takes a commit number; its trigger reaches the engine  *)
(* later.                                                                       *)
StoreValue ==
    /\ events < MaxEvents
    /\ events' = events + 1
    /\ stored' = [stored EXCEPT !.fresh = @ + 1]
    /\ UNCHANGED <<buf, st, engine, link, chan, w, hist>>

(* on_values_updated_with: the purge count is read before the member is checked *)
(* against the latest purge.                                                    *)
TriggerBegin(age) ==
    /\ eng.pc = "free" /\ stored[age] > 0
    /\ stored' = [stored EXCEPT ![age] = @ - 1]
    /\ eng' = [Free EXCEPT !.pc = "trigCheck", !.entry.fresh = (age = "fresh"),
                           !.checked = TRUE]
    /\ UNCHANGED <<buf, st, partial, window, events, link, chan, w, hist>>

TriggerCheck ==
    /\ eng.pc = "trigCheck"
    /\ eng' = IF eng.entry.fresh THEN [eng EXCEPT !.pc = "trigState"] ELSE Free
    /\ UNCHANGED <<buf, st, partial, window, values, link, chan, w, hist>>

(* trigger_brcb_batch: no data set, no buffering; no buffer time, one entry at  *)
(* once; else the window.                                                       *)
TriggerState ==
    /\ eng.pc = "trigState"
    /\ eng' = IF ~st.dataset THEN Free
              ELSE [eng EXCEPT !.pc = IF st.bufTm THEN "trigWindow" ELSE "alloc"]
    /\ UNCHANGED <<buf, st, partial, window, values, link, chan, w, hist>>

(* A window opened before a purge is thrown away; one holding the member        *)
(* already is closed and buffered first.                                        *)
TriggerWindow ==
    /\ eng.pc = "trigWindow"
    /\ LET new  == [open |-> TRUE, current |-> eng.current, fresh |-> eng.entry.fresh]
           open == window.open /\ window.current = eng.current IN
       \/ /\ ~open
          /\ window' = new /\ eng' = Free
       \/ /\ open
          /\ window' = [window EXCEPT !.fresh = @ /\ new.fresh]
          /\ eng' = Free
       \/ /\ open
          /\ window' = new
          /\ eng' = [Free EXCEPT !.pc = "alloc", !.checked = TRUE,
                        !.current = window.current, !.entry.fresh = window.fresh]
    /\ UNCHANGED <<buf, st, partial, values, link, chan, w, hist>>

-------------------------------------------------------------------------------
(* enqueue_stored_entry, enqueue_window_entry, enqueue_entry_with_snapshot:     *)
(* allocate under the state lock, push under the buffer lock, resolve the       *)
(* anchor under the state lock.                                                 *)

Purged == eng.checked /\ (~eng.current \/ ~eng.entry.fresh)

(* allocate_entry_id(now_ms); the wall clock may have stepped back.             *)
AllocateEntryId(now) ==
    IF st.lastId = 0 THEN now ELSE IF now > st.lastId THEN now ELSE st.lastId + 1

EnqueueAllocate ==
    /\ eng.pc = "alloc"
    /\ \/ /\ Purged
          /\ eng' = Return /\ UNCHANGED st
       \/ /\ ~Purged
          /\ \E now \in {1, st.lastId + 1}, segs \in Segments :
                LET id == AllocateEntryId(now) IN
                /\ st' = [st EXCEPT !.lastId = id]
                /\ eng' = [eng EXCEPT !.pc = "push", !.entry.id = id, !.entry.segs = segs]
    /\ UNCHANGED <<buf, partial, window, values, link, chan, w, hist>>

(* The entries not sent since the control block was enabled, the new one too.   *)
Unsent == {id \in Ids(buf.entries) \cup {eng.entry.id} : id > hist.id}

(* Mutant: the entry is pushed without looking at the purges again.             *)
EnqueuePushBlind ==
    /\ eng.pc = "push"
    /\ buf' = Push(buf, eng.entry)
    /\ hist' = hist
    /\ eng' = [eng EXCEPT !.pc = "onEnqueue"]
    /\ UNCHANGED <<st, partial, window, values, link, chan, w>>

(* The check is made again under the buffer lock the purge takes.               *)
EnqueuePush ==
    /\ eng.pc = "push"
    /\ \/ /\ Purged
          /\ eng' = Return /\ UNCHANGED <<buf, hist>>
       \/ /\ ~Purged
          /\ buf' = Push(buf, eng.entry)
          /\ hist' = [hist EXCEPT !.lost = @ \/ Unsent \ Ids(buf'.entries) # {}]
          /\ eng' = [eng EXCEPT !.pc = "onEnqueue"]
    /\ UNCHANGED <<st, partial, window, values, link, chan, w>>

(* on_enqueue: an anchor waiting for the next entry becomes a concrete one.     *)
OnEnqueue ==
    /\ eng.pc = "onEnqueue"
    /\ st' = IF st.anchor.at = "WaitingForNext"
             THEN [st EXCEPT !.anchor = After(st.committed)] ELSE st
    /\ eng' = Return
    /\ UNCHANGED <<buf, partial, window, values, link, chan, w, hist>>

-------------------------------------------------------------------------------
(* The tick, driven every few milliseconds (engine.rs, tick_brcb).              *)

(* The due window is taken out of the map and enqueued before anything else.    *)
TickBegin ==
    /\ eng.pc = "free"
    /\ \/ /\ window.open
          /\ eng' = [Free EXCEPT !.pc = "alloc", !.ret = "scan", !.checked = TRUE,
                        !.current = window.current, !.entry.fresh = window.fresh]
          /\ window' = NoWindow
       \/ eng' = [Free EXCEPT !.pc = "scan"] /\ UNCHANGED window
    /\ UNCHANGED <<buf, st, partial, values, link, chan, w, hist>>

(* The fields the tick needs are copied out of the state.  A partly sent report *)
(* of a disabled control block is forgotten.                                    *)
TickScan ==
    /\ eng.pc = "scan"
    /\ \/ /\ ~st.ena
          /\ partial' = NoPartial
          /\ eng' = IF partial # NoPartial THEN [Free EXCEPT !.pc = "rewindRead"] ELSE Free
       \/ /\ st.ena
          /\ eng' = [Free EXCEPT !.pc = IF st.gi THEN "alloc" ELSE "integrity",
                                 !.ret = IF st.gi THEN "giDone" ELSE "free",
                                 !.conn = st.conn]
          /\ UNCHANGED partial
    /\ UNCHANGED <<buf, st, window, values, link, chan, w, hist>>

(* The general interrogation entry is buffered: the request is done.            *)
TickGiDone ==
    /\ eng.pc = "giDone"
    /\ st' = [st EXCEPT !.gi = FALSE]
    /\ eng' = [eng EXCEPT !.pc = "integrity"]
    /\ UNCHANGED <<buf, partial, window, values, link, chan, w, hist>>

(* The integrity period may have elapsed; then the flush.                       *)
TickIntegrity ==
    /\ eng.pc = "integrity"
    /\ \/ /\ events < MaxEvents
          /\ events' = events + 1
          /\ eng' = [Free EXCEPT !.pc = "alloc", !.ret = "resume", !.conn = eng.conn]
       \/ /\ eng' = [eng EXCEPT !.pc = "resume"]
          /\ UNCHANGED events
    /\ UNCHANGED <<buf, st, partial, window, stored, link, chan, w, hist>>

-------------------------------------------------------------------------------
(* flush_brcb_pending: sending the buffered entries to eng.conn.                *)

Room(c) == ChannelCap - chan[c]
Drop(c) == [Free EXCEPT !.pc = "dropPartial", !.conn = c]

(* resume_partial: a report kept for another connection is forgotten, the rest  *)
(* of one kept for this connection goes out first.  A closed channel drops the  *)
(* connection.                                                                  *)
FlushResume ==
    /\ eng.pc = "resume"
    /\ LET c == eng.conn
           sent == IF partial.rest <= Room(c) THEN partial.rest ELSE Room(c) IN
       \/ /\ partial.conn # c
          /\ partial' = NoPartial
          /\ eng' = [eng EXCEPT !.pc = "anchor"]
          /\ UNCHANGED <<chan, hist>>
       \/ /\ partial.conn = c /\ link[c] # "up"
          /\ partial' = NoPartial
          /\ eng' = Drop(c)
          /\ UNCHANGED <<chan, hist>>
       \/ /\ partial.conn = c /\ link[c] = "up"
          /\ chan' = [chan EXCEPT ![c] = @ + sent]
          /\ UNCHANGED hist
          /\ IF sent = partial.rest
             THEN /\ partial' = NoPartial
                  /\ eng' = [eng EXCEPT !.pc = "resumed", !.entry.id = partial.id]
             ELSE /\ partial' = [partial EXCEPT !.rest = @ - sent]
                  /\ eng' = Free
    /\ UNCHANGED <<buf, st, window, values, link, w>>

(* brcb_entry_sent for the entry whose last segment just went out.              *)
FlushResumed ==
    /\ eng.pc = "resumed"
    /\ st' = [st EXCEPT !.anchor = After(eng.entry.id)]
    /\ eng' = [eng EXCEPT !.pc = "anchor", !.entry = NoEntry]
    /\ UNCHANGED <<buf, partial, window, values, link, chan, w, hist>>

(* The anchor is copied under the state lock ...                                *)
FlushAnchor ==
    /\ eng.pc = "anchor"
    /\ eng' = IF st.anchor.at = "None" THEN Free
              ELSE [eng EXCEPT !.pc = "entries", !.anchor = st.anchor,
                               !.through = st.committed, !.ovfl = st.ovflOnEnable]
    /\ UNCHANGED <<buf, st, partial, window, values, link, chan, w, hist>>

(* ... and the entries after it under the buffer lock.                          *)
FlushEntries ==
    /\ eng.pc = "entries"
    /\ LET head  == eng.anchor.at = "FromHead"
           after == IF eng.anchor.at = "AfterEntryId" THEN eng.anchor.id ELSE eng.through
           todo  == IF head THEN buf.entries ELSE IterFrom(buf, after) IN
       eng' = IF todo = <<>> THEN Free
              ELSE [eng EXCEPT !.pc = IF eng.anchor.at = "WaitingForNext" THEN "unwait"
                                      ELSE "entry",
                               !.through = IF eng.anchor.at = "WaitingForNext" THEN @ ELSE 0,
                               !.anchor = Anchor("None", 0), !.todo = todo,
                               !.ovfl = @ \/ head \/ buf.overflow]
    /\ UNCHANGED <<buf, st, partial, window, values, link, chan, w, hist>>

(* An anchor still waiting although a newer entry is buffered is resolved here. *)
FlushUnwait ==
    /\ eng.pc = "unwait"
    /\ st' = IF st.anchor.at = "WaitingForNext"
             THEN [st EXCEPT !.anchor = After(eng.through)] ELSE st
    /\ eng' = [eng EXCEPT !.pc = "entry", !.through = 0]
    /\ UNCHANGED <<buf, partial, window, values, link, chan, w, hist>>

(* An entry that cannot be encoded is dropped: the anchor moves past it.        *)
FlushSkip ==
    /\ eng.pc = "entry" /\ eng.todo # <<>> /\ Head(eng.todo).segs = 0
    /\ st' = [st EXCEPT !.anchor = After(Head(eng.todo).id)]
    /\ eng' = [eng EXCEPT !.todo = Tail(@)]
    /\ UNCHANGED <<buf, partial, window, values, link, chan, w, hist>>

(* Mutant: room for the whole report, which a channel smaller than it never has. *)
HasWholeRoom(c, segs) == Room(c) >= segs

HasRoom(c, segs) == Room(c) >= IF segs < ChannelCap THEN segs ELSE ChannelCap

(* The pass ends when the list is done or the channel has no room.              *)
FlushStop ==
    /\ eng.pc = "entry"
    /\ \/ eng.todo = <<>>
       \/ /\ eng.todo # <<>> /\ Head(eng.todo).segs > 0 /\ link[eng.conn] = "up"
          /\ ~HasRoom(eng.conn, Head(eng.todo).segs)
    /\ eng' = Free
    /\ UNCHANGED <<buf, st, partial, window, values, link, chan, w, hist>>

(* The first segments of the next entry go out, the rest of a report longer     *)
(* than the channel is kept.                                                    *)
FlushSend ==
    /\ eng.pc = "entry" /\ eng.todo # <<>>
    /\ LET e == Head(eng.todo)
           c == eng.conn
           sent == IF e.segs <= Room(c) THEN e.segs ELSE Room(c) IN
       /\ e.segs > 0
       /\ \/ /\ link[c] # "up"
             /\ eng' = Drop(c)
             /\ UNCHANGED <<partial, chan, hist>>
          \/ /\ link[c] = "up" /\ HasRoom(c, e.segs)
             /\ chan' = [chan EXCEPT ![c] = @ + sent]
             /\ hist' = [hist EXCEPT !.id = e.id, !.lost = FALSE,
                           !.silent = @ \/ (~eng.ovfl /\ (hist.id = 0 \/ hist.lost)),
                           !.back = @ \/ e.id < hist.id]
             /\ partial' = IF sent = e.segs THEN partial
                           ELSE [conn |-> c, id |-> e.id, rest |-> e.segs - sent]
             /\ eng' = [eng EXCEPT !.pc = "formatted",
                                   !.ret = IF sent = e.segs THEN "sent" ELSE "free"]
    /\ UNCHANGED <<buf, st, window, values, link, w>>

(* entry_formatted: under the buffer lock the flag is cleared and the mark      *)
(* moves up, then under the state lock the indication owed is cleared.          *)
FlushFormatted ==
    /\ eng.pc = "formatted"
    /\ buf' = [MarkFormatted(buf, Head(eng.todo).id) EXCEPT !.overflow = FALSE]
    /\ eng' = [eng EXCEPT !.pc = "indicated"]
    /\ UNCHANGED <<st, partial, window, values, link, chan, w, hist>>

FlushIndicated ==
    /\ eng.pc = "indicated"
    /\ st' = [st EXCEPT !.ovflOnEnable = FALSE]
    /\ eng' = IF eng.ret = "free" THEN Free ELSE [eng EXCEPT !.pc = eng.ret, !.ret = "free"]
    /\ UNCHANGED <<buf, partial, window, values, link, chan, w, hist>>

(* brcb_entry_sent: the anchor moves to the entry.                              *)
FlushSent ==
    /\ eng.pc = "sent"
    /\ st' = [st EXCEPT !.anchor = After(Head(eng.todo).id)]
    /\ eng' = [eng EXCEPT !.pc = "entry", !.todo = Tail(@), !.ovfl = FALSE]
    /\ UNCHANGED <<buf, partial, window, values, link, chan, w, hist>>

-------------------------------------------------------------------------------
(* The end of an association, and the engine operations that move the formatted *)
(* mark back to the anchor.                                                     *)

(* rewind_formatted: the anchor is read under the state lock, the mark written  *)
(* under the buffer lock.                                                       *)
RewindRead ==
    /\ eng.pc = "rewindRead"
    /\ eng' = [eng EXCEPT !.pc = "rewindWrite",
                          !.through = CASE st.anchor.at = "AfterEntryId" -> st.anchor.id
                                        [] st.anchor.at = "WaitingForNext" -> st.committed
                                        [] OTHER -> 0]
    /\ UNCHANGED <<buf, st, partial, window, values, link, chan, w, hist>>

RewindWrite ==
    /\ eng.pc = "rewindWrite"
    /\ buf' = SetFormattedThrough(buf, eng.through)
    /\ eng' = Return
    /\ UNCHANGED <<st, partial, window, values, link, chan, w, hist>>

(* The connection task ends: the report channel goes first.                     *)
EndAssociation(c) ==
    /\ link[c] = "up" /\ w[c] = IdleW
    /\ link' = [link EXCEPT ![c] = "ending"]
    /\ chan' = [chan EXCEPT ![c] = 0]
    /\ UNCHANGED <<buf, st, engine, values, w, hist>>

(* on_connection_dropped, called by the lifecycle or by a flush that found the  *)
(* channel closed: partly sent reports of the connection are forgotten ...      *)
DropBegin(c) ==
    /\ eng.pc = "free" /\ link[c] = "ending"
    /\ link' = [link EXCEPT ![c] = "down"]
    /\ eng' = Drop(c)
    /\ UNCHANGED <<buf, st, partial, window, values, chan, w, hist>>

DropPartial ==
    /\ eng.pc = "dropPartial"
    /\ LET mine == partial.conn = eng.conn IN
       /\ partial' = IF mine THEN NoPartial ELSE partial
       /\ eng' = IF mine THEN [eng EXCEPT !.pc = "rewindRead", !.ret = "dropState"]
                 ELSE [eng EXCEPT !.pc = "dropState"]
    /\ UNCHANGED <<buf, st, window, values, link, chan, w, hist>>

(* ... and the control block is disabled; a timed reservation starts running    *)
(* out.  The buffer and the anchor stay.                                        *)
Unbound(s) ==
    [s EXCEPT !.ena = FALSE, !.conn = NoConn, !.gi = FALSE,
              !.timer = @ \/ s.resv = "WithTimeout",
              !.owner = IF s.resv = "NotReserved" THEN NoIp ELSE @]

DropState ==
    /\ eng.pc = "dropState"
    /\ st' = IF st.conn = eng.conn THEN Unbound(st) ELSE st
    /\ hist' = IF st.conn = eng.conn THEN NewSession(hist) ELSE hist
    /\ eng' = Free
    /\ UNCHANGED <<buf, partial, window, values, link, chan, w>>

(* A new association takes the connection's place.                              *)
Connect(c) ==
    /\ link[c] = "down"
    /\ link' = [link EXCEPT ![c] = "up"]
    /\ UNCHANGED <<buf, st, engine, values, chan, w, hist>>

(* The connection task takes a PDU out of the channel and writes it.            *)
Drain(c) ==
    /\ chan[c] > 0
    /\ chan' = [chan EXCEPT ![c] = @ - 1]
    /\ UNCHANGED <<buf, st, engine, values, link, w, hist>>

(* tick_reservation: a reservation whose time has run out is released.          *)
TickReservation ==
    /\ eng.pc = "free"
    /\ st.timer /\ st.resv # "Preconfigured"
    /\ st' = [st EXCEPT !.resv = "NotReserved", !.timer = FALSE,
                        !.conn = IF st.ena THEN @ ELSE NoConn,
                        !.owner = IF st.ena THEN @ ELSE NoIp]
    /\ UNCHANGED <<buf, engine, values, link, chan, w, hist>>

-------------------------------------------------------------------------------
(* SetBRCBValues (service.rs, handle_set_brcb_field).                           *)

(* claim_brcb_locked: may connection c write, and what the claim changes.       *)
Reserved(s) == s.resv # "NotReserved"
ReservedFor(s) == IF s.resv = "Preconfigured" /\ ClientReservation # NoIp
                  THEN ClientReservation ELSE s.owner

MayWrite(s, c) ==
    \/ s.conn = c
    \/ /\ s.conn = NoConn \/ ~(s.ena \/ Reserved(s))
       /\ Reserved(s) => ReservedFor(s) \in {NoIp, IpOf[c]}
Claimed(s, c) ==
    IF s.conn = c \/ ~Reserved(s) THEN s
    ELSE [s EXCEPT !.conn = c, !.timer = FALSE,
                   !.owner = IF ReservedFor(s) = NoIp THEN IpOf[c] ELSE ReservedFor(s)]

(* A request looks the control block up under the engine lock.                  *)
WriteBegin(c, req, id) ==
    /\ link[c] = "up" /\ w[c] = IdleW /\ eng.pc = "free"
    /\ req = "GI" => events < MaxEvents
    /\ w' = [w EXCEPT ![c] = [pc |-> "claim", req |-> req, seek |-> "none",
                              id |-> IF req = "EntryID" THEN id ELSE 0]]
    /\ events' = IF req = "GI" THEN events + 1 ELSE events
    /\ UNCHANGED <<buf, st, engine, stored, link, chan, hist>>

Done(c) == w' = [w EXCEPT ![c] = IdleW]
GoTo(c, pc) == w' = [w EXCEPT ![c].pc = pc]

WriteClaim(c) ==
    /\ w[c].pc = "claim"
    /\ \/ /\ ~MayWrite(st, c)
          /\ Done(c) /\ UNCHANGED st
       \/ /\ MayWrite(st, c)
          /\ st' = Claimed(st, c)
          /\ GoTo(c, IF w[c].req = "EntryID" /\ w[c].id # 0 THEN "seek" ELSE "state")
    /\ UNCHANGED <<buf, engine, values, link, chan, hist>>

(* apply_entry_id_write: look the entry up under the buffer lock ...            *)
EntryIdSeek(c) ==
    /\ w[c].pc = "seek"
    /\ w' = [w EXCEPT ![c].pc = "state", ![c].seek = Seek(buf, w[c].id)]
    /\ UNCHANGED <<buf, st, engine, values, link, chan, hist>>

(* ... move the anchor under the state lock ...                                 *)
EntryIdAnchor(id, seek) ==
    CASE id = 0 -> Anchor("FromHead", 0)
      [] id # 0 /\ seek = "FoundWithNext" -> After(id)
      [] id # 0 /\ seek = "FoundLast" -> Anchor("WaitingForNext", 0)

(* Mutant: EntryID may be written while reports are being sent.                 *)
NeverRefused(s) == FALSE

EntryIdRefused(s) == s.ena

EntryIdState(c) ==
    /\ w[c].pc = "state" /\ w[c].req = "EntryID"
    /\ \/ /\ EntryIdRefused(st)
          /\ Done(c) /\ UNCHANGED <<st, hist>>
       \/ /\ ~EntryIdRefused(st) /\ w[c].seek = "NotFound"
          /\ st' = [st EXCEPT !.committed = w[c].id]
          /\ Done(c) /\ UNCHANGED hist
       \/ /\ ~EntryIdRefused(st) /\ w[c].seek # "NotFound"
          /\ st' = [st EXCEPT !.committed = w[c].id,
                              !.anchor = EntryIdAnchor(w[c].id, w[c].seek)]
          /\ hist' = [hist EXCEPT !.resync = w[c].id]
          /\ GoTo(c, "mark")
    /\ UNCHANGED <<buf, engine, values, link, chan>>

(* ... and set the formatted mark under the buffer lock.                        *)
EntryIdMark(c) ==
    /\ w[c].pc = "mark"
    /\ buf' = SetFormattedThrough(buf, w[c].id)
    /\ Done(c)
    /\ UNCHANGED <<st, engine, values, link, chan, hist>>

(* PurgeBuf = true: refused while enabled; the check and the purge are two      *)
(* sections.                                                                    *)
PurgeBufState(c) ==
    /\ w[c].pc = "state" /\ w[c].req = "PurgeBuf"
    /\ IF st.ena THEN Done(c) ELSE GoTo(c, "purge")
    /\ UNCHANGED <<buf, st, engine, values, link, chan, hist>>

(* run_purge_buf_procedure, under the buffer lock.                              *)
PurgeBuffer(c) ==
    /\ w[c].pc = "purge"
    /\ buf' = SetFormattedThrough(PurgeEntries(buf), 0)
    /\ stored' = [fresh |-> 0, stale |-> stored.stale + stored.fresh]
    /\ window' = [window EXCEPT !.fresh = FALSE, !.current = FALSE]
    /\ eng' = IF w[c].req = "DatSet" \/ eng.pc = "free" THEN Free
              ELSE [eng EXCEPT !.entry.fresh = FALSE, !.current = FALSE]
    /\ hist' = [hist EXCEPT !.lost = FALSE]
    /\ Done(c)
    /\ UNCHANGED <<st, partial, events, link, chan>>

(* A BufTm write (RptID, TrgOps and IntgPd go the same way): the new value      *)
(* under the state lock, then the purge.                                        *)
BufTmState(c) ==
    /\ w[c].pc = "state" /\ w[c].req = "BufTm"
    /\ IF st.ena THEN Done(c) /\ UNCHANGED st
       ELSE st' = [st EXCEPT !.bufTm = ~@] /\ GoTo(c, "purge")
    /\ UNCHANGED <<buf, engine, values, link, chan, hist>>

(* A DatSet write holds the engine lock until the control block is bound to     *)
(* the new data set; an empty name stops the buffering.                         *)
DatSetState(c) ==
    /\ w[c].pc = "state" /\ w[c].req = "DatSet" /\ eng.pc = "free"
    /\ IF st.ena THEN Done(c) /\ UNCHANGED <<st, eng>>
       ELSE /\ st' = [st EXCEPT !.dataset = ~@]
            /\ eng' = [Free EXCEPT !.pc = "datset", !.conn = c]
            /\ GoTo(c, "purge")
    /\ UNCHANGED <<buf, partial, window, values, link, chan, hist>>

(* RptEna = true: the claim is decided again in the same section.               *)
EnableState(c) ==
    /\ w[c].pc = "state" /\ w[c].req = "Enable"
    /\ LET s == [Claimed(st, c) EXCEPT !.conn = c,
                    !.owner = IF Reserved(st) THEN @ ELSE IpOf[c]] IN
       \/ /\ ~MayWrite(st, c)
          /\ Done(c) /\ UNCHANGED <<st, hist>>
       \/ /\ MayWrite(st, c) /\ ~st.dataset
          /\ st' = Claimed(st, c)
          /\ Done(c) /\ UNCHANGED hist
       \/ /\ MayWrite(st, c) /\ st.dataset /\ st.ena
          /\ st' = s
          /\ Done(c) /\ UNCHANGED hist
       \/ /\ MayWrite(st, c) /\ st.dataset /\ ~st.ena
          /\ st' = [s EXCEPT !.ena = TRUE, !.ovflOnEnable = TRUE,
                             !.anchor = IF @.at = "None" THEN Anchor("FromHead", 0) ELSE @]
          /\ hist' = NewSession(hist)
          /\ GoTo(c, "refresh")
    /\ UNCHANGED <<buf, engine, values, link, chan>>

(* refresh_brcb_integrity_period takes the engine lock afterwards; a report     *)
(* partly sent before is forgotten.                                             *)
EnableRefresh(c) ==
    /\ w[c].pc = "refresh" /\ eng.pc = "free"
    /\ partial' = NoPartial
    /\ eng' = IF partial # NoPartial THEN [Free EXCEPT !.pc = "rewindRead"] ELSE Free
    /\ Done(c)
    /\ UNCHANGED <<buf, st, window, values, link, chan, hist>>

(* RptEna = false: the buffer, the anchor and the holder stay.                  *)
DisableState(c) ==
    /\ w[c].pc = "state" /\ w[c].req = "Disable"
    /\ st' = IF ~MayWrite(st, c) THEN st
             ELSE LET s == Claimed(st, c) IN
                  IF ~s.ena THEN s
                  ELSE [s EXCEPT !.ena = FALSE, !.owner = IF Reserved(s) THEN @ ELSE NoIp]
    /\ Done(c)
    /\ UNCHANGED <<buf, engine, values, link, chan, hist>>

(* GI = true: refused on a disabled control block, which clears it.             *)
GiState(c) ==
    /\ w[c].pc = "state" /\ w[c].req = "GI"
    /\ st' = [st EXCEPT !.gi = st.ena]
    /\ Done(c)
    /\ UNCHANGED <<buf, engine, values, link, chan, hist>>

(* ResvTms: a positive value reserves, zero releases; refused while enabled.    *)
ResvTmsState(c) ==
    /\ w[c].pc = "state" /\ w[c].req \in {"Reserve", "Release"}
    /\ st' = IF ~MayWrite(st, c) THEN st
             ELSE LET s == Claimed(st, c) IN
                  IF s.ena THEN s
                  ELSE IF w[c].req = "Reserve"
                  THEN [s EXCEPT !.resv = "WithTimeout", !.conn = c, !.owner = IpOf[c],
                                 !.timer = FALSE]
                  ELSE [s EXCEPT !.resv = "NotReserved", !.conn = NoConn, !.owner = NoIp,
                                 !.timer = FALSE]
    /\ Done(c)
    /\ UNCHANGED <<buf, engine, values, link, chan, hist>>

-------------------------------------------------------------------------------
EngineStep ==
    \/ TriggerCheck \/ TriggerState \/ TriggerWindow
    \/ EnqueueAllocate \/ EnqueuePush \/ OnEnqueue
    \/ TickScan \/ TickGiDone \/ TickIntegrity
    \/ FlushResume \/ FlushResumed \/ FlushAnchor \/ FlushEntries \/ FlushUnwait
    \/ FlushSkip \/ FlushStop \/ FlushSend \/ FlushFormatted \/ FlushIndicated \/ FlushSent
    \/ RewindRead \/ RewindWrite \/ DropPartial \/ DropState

WriteStep(c) ==
    \/ WriteClaim(c)
    \/ EntryIdSeek(c) \/ EntryIdState(c) \/ EntryIdMark(c)
    \/ PurgeBufState(c) \/ PurgeBuffer(c) \/ BufTmState(c) \/ DatSetState(c)
    \/ EnableState(c) \/ EnableRefresh(c) \/ DisableState(c) \/ GiState(c) \/ ResvTmsState(c)

Next ==
    \/ StoreValue
    \/ \E age \in {"fresh", "stale"} : TriggerBegin(age)
    \/ TickBegin \/ TickReservation
    \/ EngineStep
    \/ \E c \in Conns :
          \/ EndAssociation(c) \/ DropBegin(c) \/ Connect(c) \/ Drain(c)
          \/ WriteStep(c)
          \/ \E req \in Requests, id \in 0..MaxEvents :
                (id = 0 \/ req = "EntryID") /\ WriteBegin(c, req, id)

Spec == Init /\ [][Next]_vars

(* The holder of the engine lock finishes, the ticks come round again and get   *)
(* the lock now and then, the connection task keeps emptying its channel, and   *)
(* a request that has been started is carried through.                          *)
Fairness == /\ WF_vars(EngineStep) /\ SF_vars(TickBegin) /\ SF_vars(TickReservation)
            /\ \A c \in Conns : WF_vars(Drain(c)) /\ SF_vars(WriteStep(c))
FairSpec == Spec /\ Fairness

-------------------------------------------------------------------------------
TypeOK ==
    /\ buf.entries \in Seq([id : 1..MaxEvents, fresh : BOOLEAN, segs : Segments])
    /\ Len(buf.entries) <= Capacity
    /\ st.conn \in Conns \cup {NoConn}
    /\ st.ena => st.conn # NoConn
    /\ \A c \in Conns : chan[c] \in 0..ChannelCap

(* The index names exactly the stored entries and each one's place in the       *)
(* queue, and EntryIDs increase along it: what seek_to_after_entry_id and       *)
(* iter_from rely on (buffer.rs, push, purge, iter_from).                       *)
BufferConsistent ==
    /\ DOMAIN buf.index = Ids(buf.entries)
    /\ \A i \in DOMAIN buf.entries :
          /\ buf.index[buf.entries[i].id] = buf.front + i - 1
          /\ i > 1 => buf.entries[i - 1].id < buf.entries[i].id
    /\ buf.front + Len(buf.entries) = buf.next

(* No event stored before a purge is in the buffer after it, whether it was     *)
(* buffered, in a window or on its way to the engine (brcb.rs,                  *)
(* enqueue_stored_entry and enqueue_window_entry).                              *)
NothingFromBeforePurge == \A i \in DOMAIN buf.entries : buf.entries[i].fresh

(* The first report after an enable carries BufOvfl, and so does the next       *)
(* report after an entry was lost unsent: no entry is lost in silence           *)
(* (engine.rs, flush_brcb_pending and entry_formatted; buffer.rs, push).        *)
LossIsFlagged == ~hist.silent

(* While the control block stays enabled no report starts on an entry older     *)
(* than the one before it (engine.rs, flush_brcb_pending).                      *)
SentInOrder == ~hist.back

Ahead(id) == st.anchor.at = "FromHead" \/ (st.anchor.at = "AfterEntryId" /\ st.anchor.id < id)

(* An entry after the anchor of an enabled control block is sent, unless the    *)
(* control block is disabled or the entry leaves the buffer first: neither a    *)
(* full channel nor a report longer than the channel holds it up for good       *)
(* (engine.rs, flush_brcb_pending, resume_partial, channel_has_room).           *)
PendingIsSent ==
    \A id \in 1..MaxEvents :
       (st.ena /\ id \in Ids(buf.entries) /\ Ahead(id))
          ~> (~st.ena \/ id \notin Ids(buf.entries) \/ ~Ahead(id))
=============================================================================
