# Verification of iec61850-rust

TLA+ models, TLC runs and TLAPS proofs for the IEC 61850 stack in this
repository (MMS server and client, GOOSE, sampled values, SNTP, TLS, SCL).

## 1. The system

| Part | Source | State it keeps | What makes it hard |
|---|---|---|---|
| Control object | `iec61850-server/src/control/object.rs`, `state.rs` | state, owner, select parameters, active settings, timer, `owner_lost` behind one mutex | requests of several associations, timer tasks and command tasks enter it in any order |
| Control services | `control/service.rs`, `dispatch.rs`, `registry.rs` | command tasks, outbox, deferred replies, terminations | check, dynamic check, response, execution and termination run on different tasks |
| Association lifecycle | `lifecycle.rs`, `connection.rs`, `blocking.rs` | slots, registered associations, per-association channels and flags | set-up deadline, biased select, abort, conclude, stop, release on every way out |
| MMS server machine | `iec61850-mms/src/mms/server/` | negotiated parameters, `block_requests`, `concluded`, outstanding permits | routing on a snapshot of the state |
| Buffered reporting | `reporting/buffer.rs`, `brcb.rs`, `sqlite_buffer.rs` | entries, EntryID index, formatted mark, transmit anchor, reservation | enqueueing goes on while disabled; resynchronisation; purge against a window still open |
| Reporting engine, URCBs | `reporting/engine.rs`, `rcb.rs`, `service.rs`, `sink.rs` | pending reports, buffer-time windows, partly sent reports, peers | backpressure of a bounded channel, segments, loss of the association |
| Data sets | `reporting/dataset.rs`, `dynamic_ops.rs` | dynamic data sets and their limits | deletion while a control block refers to one |
| Setting groups | `setting_groups.rs` | active group, edit session, its timer | two associations edit, confirm and activate |
| Data model access | `server.rs`, `service/write.rs` | values, model lock, trigger batches | updates of the application against client writes |
| Logging | `logging/lcb.rs`, `storage.rs` | bounded log, old and new entry | overwriting while it is queried |
| GOOSE | `iec61850-goose`, `goose_mapping` | stNum, sqNum, retransmission interval; supervision of both | lost and reordered frames, wrap of the counters |
| Sampled values | `iec61850-sv` | smpCnt | loss across the wrap |
| MMS client | `iec61850-mms/src/mms/client/` | outstanding requests, invoke ids | timeout against a late answer, loss of the connection |
| Client services | `iec61850-client` | subscriptions, control sessions | calls of several requests |
| ISO layers | `iec61850-mms/src/iso/` | COTP reassembly, session and presentation state | segmentation |
| SNTP, TLS, SCL, codecs, HAL | `iec61850-sntp`, `-tls`, `-scl`, `-asn1`, `-hal` | little or none | arithmetic at boundaries, file and byte formats |

Interaction: the accept loop starts a connection task per socket. Its serve
loop passes a request to the dispatcher off the runtime. The dispatcher reaches
the services, which write the data model, the control objects, the report and
log control blocks and the setting groups. Their results come back to the loop
as a response, or later through three channels per association: deferred write
responses, command terminations, reports. A tick loop drives reporting, logging
and the expiry of reservations.

## 2. The modules

| Modules | Model |
|---|---|
| `ControlService` | the critical sections of one control object, and the requests, command tasks, timers and releases around it |
| `Association` | connection slots, set-up, serve loop, release and stop of the server |
| `BufferedReporting` | the in-memory report buffer and one buffered report control block with the engine and the channels |
| `Reports` | unbuffered reporting from the trigger to the state a client keeps; the report encoder and parser |
| `SettingGroups` | active group, edit session, loads into the FC=SG and FC=SE attributes |
| `ValueUpdates`, `AttributeFeed` | the trigger queue of the server, and the feed of committed values it implements |
| `DeviceModel`, `VariableAccess`, `DataAccess` | the model tree as MMS shows it, the services that read and write it, and the locks under which threads do so |
| `Logging` | log control blocks, the log, ReadJournal and the paged read of the client |
| `MmsTypes`, `MmsServices`, `IsoStack`, `ProcessBusPdu`, `BusFrame` | the codecs: BER and the MMS types, the MMS PDUs, session, presentation and ACSE, the PDUs and frames of GOOSE and sampled values |
| `Wire` | an encoder, a channel that changes what it carries, a decoder |
| `GooseBus`, `SvBus` | publishers, network, receiver and subscribers of GOOSE and of sampled values |
| `Cotp`, `TsduChannel` | COTP over TPKT octet by octet, and the channel of messages it implements |
| `MmsClient` | the MMS client: dialling, associating, calls, timeouts, stashed reports |
| `ControlValues` | the values of control commands on both sides |
| `ModelTree`, `AddressValues` | building a model, references, data sets, common data classes; address texts |
| `SclRaw`, `SclParser`, `SclModel`, `SclEmit` | an SCL file through the parser, the resolver and model builder, and the code generator |
| `Absence` | the value that stands for `None` |
| `MC...` | the instances TLC checks |
| `AssociationLemmas`, `AssociationProofs`, `ControlServiceLemmas`, `ControlServiceProofs`, `SettingGroupsProofs`, `ValueUpdatesLemmas`, `ValueUpdatesProofs` | inductive invariants, lemmas and theorems |

`PROJECT.json` maps every definition to the lines it translates.

### ControlService

`obj` is `ControlObjectInner`. `state`, `owner`, `active` (the settings taken
when the selection or command began), `par` (parameters of a select with
value), `period` (the generation of the ready state), `timer`, `due` and `lost`
correspond to its fields; a deadline is reduced to whether it has passed
(`due`). `live` is what the configuration attributes of the data object say at
the moment, which any write may change.

A thread is an association task, a command task, a timer task or an application
thread. `thr[t].at` names the next critical section it will enter. One action is
one critical section; everything that happens outside the lock is a step of its
own: the check handlers, the report of a change of the selection (`Notify`,
which writes `stSeld`), arming the timer, the post of an outcome, the sending of
a PDU. Requests are select, select with value, operate and cancel. `Accept`
spawns the command task; with a dynamic check the response of the write is
deferred, the loop keeps its invoke id in `deferredWrites` and sends the response
when the outcome comes through `deferredQ`; only then may the command run.
`Down` is any failed write to the socket or end of the loop; `Release` is the
teardown (`release_connection`). Handlers may panic: a dynamic check or control
handler ends its command, which restores the object, and `CheckPanics` is a
static check, which runs ahead of that guard and leaves the object behind
(`panicked`, and `stranded` once the association is released). The handlers
told of a change of the selection are assumed to return: a panic of one makes
the drop of the command repeat the change.

Abstracted: parameter values are compared as a whole; error codes are reduced to
accepted or refused; the time is the two facts "the select timeout has elapsed"
and "the operate timeout fires", which may happen at any moment.

### Association

`at[c]` is the place of the connection task of socket `c`: the stages of the
set-up, `established`, `registered`, the four places of the serve loop, `release`,
the five steps of `AssociationTeardown::drop`, `closed`. `slots` is
`open_sockets`, `table` the registered associations, `senders` those with
registered channels. `aborting`, `blocked`, `concluded` are the flags of the
association; `quiet` says that the idle timeout has elapsed since the last
activity. `asked` are the invoke ids the client waits for, `held` is
`deferred_writes`, `running` the accepted commands that have not posted an
outcome. `ParseMessage` is the routing of `parse_message`, applied to the
snapshot the loop takes before it dispatches. `stopping` follows
`ServerHandle::stop`, the accept loop and the tick loop.

A write of several variables, whose response is never held back, is modelled in
`ControlService` (`multi`), not here. The services themselves are reduced to what
they reserve (`holds`): a selection, a report control block, an edit session.

### BufferedReporting

A buffered report control block (BRCB) is guarded by three locks, and one action
is one section under one of them. `eng` is the holder of the engine lock (a
value trigger, the tick, the loss of a connection, a DatSet write) and `eng.pc`
the next section it enters; `w[c]` is the SetBRCBValues request connection `c`
is in. A request takes the engine lock only to look the control block up (and
for DatSet and the refresh after RptEna), so its sections interleave with those
of the engine. `st` is `BrcbState`, `buf` the buffer, `partial` the rest of a
report longer than the channel, `window` the open buffer-time window, `chan` the
number of PDUs in the channel of a connection.

An entry is its EntryID and the number of segments it will take (`0`: it cannot
be encoded). Times are gone: a window may be due at any tick, the integrity
period may elapse at any tick, a reservation timer may run out once it runs. A
commit number is compared only with the mark the latest purge left, and a purge
count only with the current one, so both are flags (`fresh`, `current`) that a
purge clears. RptID, TrgOps and IntgPd writes take the path of BufTm. The three
ways to enqueue an entry are one sequence of actions with `checked` telling
whether purges are looked at. `hist` records what the client was sent and is read
by no action. SqNum, TimeOfEntry, ConfRev and the last sent entry, which are only
read back or printed into reports, are left out.

### SettingGroups

`sgcb` is the state of the control block: active group, group being edited, owner
of the edit session and whether its reservation has run out (`due`). `groups`
are the values of every group behind the settings lock, `sgAttr` and `seAttr` the
attributes of the two functional constraints, `settings` and `loads` the holders
of those two locks. A request is a thread whose `at` is the section it enters next: a
load is prepared under the settings lock and written leaf by leaf after it is
released, unless a later one has overtaken it. `edited` records what the open
session was given and is read by no action.

### ValueUpdates and AttributeFeed

A thread stores a value and draws a commit number, hands the trigger over, and
then waits until the queue has raised its batch or raises it itself (`raiser`).
`deferred` collects triggers while the application holds the model lock;
`locker` holds that lock, and `gate` keeps the periodic triggers apart from the
batch. An update made by a handler that a trigger calls is `NestedUpdate`. The feed
is what consumers may rely on: batches one at a time, each attribute's in the
order of its stores.

### The other state machines

`DataAccess` runs one request per thread: handlers are asked outside the value
lock, cells are copied or stored one at a time under it. `Logging` and `Reports`
take a batch of stored values per step, since the feed delivers them one at a
time. `GooseBus` and `SvBus` count time in ticks and deliver frames after at most
a given number of them; the network loses, repeats and, for GOOSE, cuts and pads
frames. `Cotp` reads any number of the octets that have arrived and may drop a
receive between two reads. `MmsClient` has one caller and a server that answers
anything, late or never, or stops reading. `ControlValues` takes a command from
the client through the server's look at the model (`Refusal`) and the parser of
the service to the answer. `SclParser` takes one XML event per step.

### Codecs and builders

A byte string is a stream of tagged elements; lengths are kept where they bound
something (`Base` scales the octet). An encoder and a decoder are two operators,
each translated from its own function, so that `RoundTrip` compares two readings
of the format. What an encoder changes on its way (a saturated or truncated
number, an object identifier it drops) is `BodySent`, and what the decoder of the
same crate refuses of it is `Unreadable`; `RoundTrip` says that there is no
other difference. A text is a model value, or a sequence of words or characters
where the code looks into it. Numbers keep their boundaries, not their widths:
the widths are constants.

## 3. The runs

| Run | Instance | What it shows |
|---|---|---|
| `control` | two associations, two commands, a timer task and an application thread; the settings change between enhanced security with operate-many and a normal select-before-operate; three requests | `OneCommand`, `ReleasedHoldsNothing`, `ResponseOrder`, `SelectionLedger` |
| `control_live` | enhanced security, two requests, fair scheduling | `ObjectIsFreed` |
| `assoc` | two sockets for one slot over TLS, or one association with two confirmed requests; fair scheduling | `SlotsCounted`, `ReleasesEverything`, `NoRequestForgotten`, `ConnectionsEnd` |
| `brcb` | one client writes EntryID, PurgeBuf, BufTm and RptEna; two events, buffer of two, channel of one, entries of one segment or not encodable | `NothingFromBeforePurge`, `SentInOrder` |
| `brcb_live` | three events in a buffer of one, reports of two segments through a channel of one; or two clients that reserve and enable; fair scheduling | `LossIsFlagged`, `PendingIsSent` |
| `wire` | every PDU in every variant through the channel; a sampled values publisher and its subscribers; unbuffered reports between a server and two clients | `RoundTrip`, `NeverMisread`, `BufferIsEncoding`, `CountsAreExact`, `StreamInOrder`, `DecodedIsEncoded`, `QuietIsCurrent`, `FinishedIsConfigured` |
| `goose` | one or two publishers, one or two subscribers, one lost and one repeated frame, writes to the control block, a publisher or receiver that stops | `StateAnnouncedOnce`, `SilenceDetected` |
| `server_data` | reads, writes and updates of a small model; two journals; two associations edit two setting groups | `NoTornRead`, `ValuesConform`, `EveryChangeLogged`, `ReadExact`, `EditBufferIsSession`, `ActiveBufferLoaded` |
| `updates` | two updating threads and the ticking one, two attributes, two commits, fair scheduling | `ImplementsFeed`, `CallsReturn` |
| `updates_lost` | the same with three commits | `RestIsRaised` is violated |
| `transport` | two COTP ends with messages that need several segments; a client with two outstanding requests and a server that may stop reading | `CallsMatched`, `ImplementsChannel`, `CallsEnd` |
| `model` | control structures of every common data class, of its type or not, on objects inside and outside the model; address texts, SCL documents, correct and faulty | `CommandsUnderstood`, `AddressFormsAgree`, `ParsedIsDocument`, `ValuesAreTexts`, `BuiltIsSound`, `CodegenAgrees` |

`wire`, `server_data`, `transport` and `model` check independent parts one at a
time: a behaviour chooses a part in its initial state and the others rest. `assoc`
and `brcb_live` choose a scene that limits what clients and application start,
which no fairness promises.

Bounds. Three requests are the fewest with which a selection of one association
ends, another begins and a third request or a late timer meets it; the third
party is the application thread. Two commands let one be accepted while the
tail of the other (its termination, its deferred response) is still on the way.
Two sockets and one slot make a socket be turned away and a slot be reused; two
invoke ids let one response be held back while another request is answered.
With two entries in a buffer of two a resynchronisation can pick either end, or
an EntryID that is not there; with three in a buffer of one an entry can be sent,
a second lost behind it and a third sent with or without BufOvfl. Two segments
in a channel of one make a report longer than the channel. The overflow strategy
of the runs is DropOldest, the default. Two commits let a later store overtake
an earlier one on its way to the queue; the lost change needs a third. Counters
that wrap (`stNum`, `sqNum`, `smpCnt`, SqNum, invoke ids) have small spans, so
that they do. Symmetry is used in safety runs only. Deadlock is checked for
`BufferedReporting`, whose tick never ends, for `updates` and for `server_data`,
whose parts offer a next call in every state. It is not checked where the system
may stop: when the bounded requests are used up, a document has been read or the
server has been stopped.

Fairness. `ControlService` assumes that the blocking pool runs every dispatched
step, that check handlers return or panic, that time passes and that the loop serves its
channels; it does not assume that a dynamic check or a control handler returns,
which the code does not either: the operate timeout covers the handler, and a
dynamic check has no limit. `Association` assumes that a task that can step does,
that deadlines pass and that handlers behind a dispatch return; nothing is
assumed of a client, of the application's aborts or of the rest of the server's
posts. `ServeReport` and the receive share one weak-fairness condition, so a
stream of reports may starve the socket, as the biased select allows.
`BufferedReporting` assumes that the holder of the engine lock finishes, that the
tick, which a timer repeats every few milliseconds, gets the lock again and again
(strong fairness, since others hold it in between), that a connection task drains
its channel and that a request that was started is carried through. `ValueUpdates`
assumes that threads run and that a thread that waits for the report engine's
lock gets it in the end. `GooseBus` assumes that time passes, that the loop of a
publisher and of the receiver run, and that not every frame is lost. `Cotp`
assumes that octets arrive while somebody reads and that a receive is polled
before it is dropped; `MmsClient` that the executor polls a call and its timer,
and that a write ends when the peer reads or the connection is cut. Nothing else
is assumed of a peer: `CallsEnd` leaves open a call whose own request, release or
abort is being written to a server that does neither, since `send_tsdu` and the
first write of the association are under no timeout.

### What the violated property means

* `RestIsRaised`: `TriggerQueue::push` records the commit number of every trigger
  it keeps, also when nothing is queued for it. A thread that stored a changed
  value and has not handed it over yet is overtaken by an update that stores the
  same value, raises nothing and queues nothing; the change is then dropped as
  older, and no data-change trigger is raised for it.

### Divergences met while modelling, without a run

* `stSeld` need not follow the selection: `notify` runs after the lock is
  released, so the report that one selection ended can arrive after the report
  that the next one began. `SelectionLedger` states what does hold.
* A concluded association may stay open for ever, where the module comment of
  `lifecycle.rs` promises a bounded time: the wait for the release is a timeout
  around one receive, each report, termination or rejected PDU starts it anew,
  and the idle timeout is switched off for a concluded association.
  `ConnectionsEnd` leaves this case out.
* A client resynchronizes on the newest entry, so the anchor waits for the next
  one; a second EntryID write is refused because the entry is not there, yet
  `last_committed_entry_id` already holds it. The waiting anchor then resolves to
  the refused EntryID.
* An array whose count an attribute gives is known to the model builder only:
  the code generator may refuse a value the builder never reads. `CodegenAgrees`
  leaves such files out.
* `docs/PICS.md:235` says a handler that panics ends the command with AddCause
  and Error Unknown, and `control/service.rs:594` that dropping a command whose
  handler panics restores the object. The static check of an Operate runs after
  `begin_operate` and before the `AcceptedOperate` is made (`service.rs:692-705`).
  Its panic resumes in the association task (`blocking.rs:31`), which ends
  without an answer; the release only marks the owner as lost, and the object
  stays in WaitForExecution and refuses every later command. `CHANGELOG.md:1735`
  names the control handler and the dynamic check only. `OneCommand` holds with
  the command left behind as the one that holds the object.
* `client/src/journal.rs:349` says the result of `query_journal_all` holds each
  selected entry once, and `:361` that a journal whose clock steps back reads to
  the end. A page resumes at the time and identifier of the last entry, and
  `admits` (`service/mod.rs:3404`) holds every later entry to that time, so an
  entry older than the one a page ended with is never read. No clock need step
  back: a tick takes its time before the updates logged ahead of it.
  `ReadExact` says that exactly these entries are missing.
* `docs/migration-0.4.md:317` says the Initiate exchange is bounded by
  `request_timeout_ms`. The wait for the answer is; the write of the request
  (`client/connection.rs:1027`) is not, nor is any other write of the client
  (`send_tsdu`, `:1640`). The server has `association_send_timeout_ms` for its
  own. Only the answers to a release of the server are written inside the
  timeout of the read that met it; one that elapses there leaves part of a frame
  on the transport.
* Numbers from 2^31 on are encoded in five octets (`mms/pdu/read.rs:375`) and
  read in at most four: the invoke ids of every service but Identify, GetStatus
  and ReadJournal, and the counts of a delete response. The GOOSE decoder
  refuses the bit string without bits that its encoder writes; a journal name of
  128 octets or more gets a length that is too short (`read_journal.rs:272`); the version number of an Initiate
  is cut to an octet. `RoundTrip` names these. A 64-bit unsigned of 2^63 or more
  is beyond TLC's integers and not tried.
* `update_int32`, `update_int64`, `update_unsigned`, `update_visible_string` and
  `update_array` (`server.rs:499-576`, `705-743`) check the kind of a value and
  not its range or length, so the application can store 300 in an INT8, which a
  client may not. `ValuesConform` allows such values where an update gave them,
  and nowhere else.
* A client of this repository cannot operate a time-activated object of it: the
  client sends the structure without `operTm`, as `docs/PICS.md:227` says, and
  the server refuses it by its type.
* An SCL instance value given twice keeps the group values of the first in the
  generated code (`emit.rs:982`), while the builder replaces them
  (`build_model.rs:1662`). `CodegenAgrees` has no document with one.
* `scl/src/build_model.rs:1823` says a string is checked against its declared
  limit; a Currency, declared with three characters, is checked against 255.
  `ValuesAreTexts` leaves the type out.
* `control/object.rs:526` says a Timeout cannot precede the Selected it belongs
  to; a request of another association can expire the selection in between.
* `control/service.rs:365` checks `ctlModel` before the check handler; the
  select reads the settings again afterwards, so an object can become ready
  under a direct model.
* `lifecycle.rs:147` says `stop` marks every open association; one that is in
  set-up at that moment registers later, unmarked.
* `mms/server/dispatch.rs:35` says a Reject is never answered; a blocked or
  concluded connection answers every PDU with a Reject.
* `lifecycle.rs:62` says nothing of the server's own follows a Conclude response;
  queued reports and terminations do.
* `reporting/engine.rs:1027` says a report left partly sent before the control
  block was disabled is forgotten. RptEna is set under the state lock and the
  engine lock is taken afterwards; a tick in between resumes the old report, or
  starts a new one which is then forgotten and begun again.
* `reporting/buffer.rs:12` says the overflow flag is set whenever an entry not yet
  formatted is lost. `rewind_formatted` computes the mark from the anchor in one
  section and writes it in the next; an EntryID write in between is overwritten,
  and an entry below the stale mark is lost without BufOvfl. `LossIsFlagged` is
  therefore checked without EntryID writes: with them, and with the mark of a
  refused EntryID above, three entries and a buffer of one are
  enough to violate it.
* With two associations, EntryID, PurgeBuf and GI writes act on a claim decided in
  an earlier section; another client may have reserved or enabled the control
  block meanwhile. The setters that change the holder decide the claim again.

## 4. The proofs

The theorems hold for every value of the constants: any sets of associations,
commands, timers, threads, invoke ids, attributes, settings and values, and any
limits. The constants are assumed as little as the code fixes: sets of different
kinds are disjoint, null values are not members, limits are natural numbers.

| Module | Theorem | Statement |
|---|---|---|
| `ControlServiceProofs` | `Invariance` | `Spec => []IInv` |
| | `TypeCorrectness` | `Spec => []TypeOK` |
| | `OneCommandAtATime` | `Spec => []OneCommand` |
| | `NothingLeftBehind` | `Spec => []ReleasedHoldsNothing` |
| `AssociationProofs` | `AssociationInvariance` | `Spec => []IInv` |
| | `SlotsAreCounted` | `Spec => []SlotsCounted` |
| | `EverythingIsReleased` | `Spec => []ReleasesEverything` |
| | `NoRequestIsForgotten` | `Spec => []NoRequestForgotten` |
| `ValueUpdatesProofs` | `Inductive`, `TypeCorrect` | the inductive invariant and the types of the trigger queue |
| | `InCommitOrder`, `SingleRaiser`, `RaisedOnReturn`, `NoneStranded`, `NoTickWhileDeferring` | what the comments of `server.rs` promise of it |
| | `Refinement` | the queue implements `AttributeFeed` (`ImplementsFeed`) |
| `SettingGroupsProofs` | `SettingGroupsInductive`, `SettingGroupsTyped` | the inductive invariant and the types |
| | `EditBufferOfSession` | `EditBufferIsSession` |
| | `ActiveBufferIsLoaded` | `ActiveBufferLoaded` |

**ControlService.** The inductive invariant is

    IInv == TypeOK /\ OneCommand /\ ReleasedHoldsNothing /\ ThreadInv /\ QueueInv

`OneCommand` is not inductive alone. `ThreadInv` adds which places each kind of
thread can be at and what a command task at each of them has recorded, so that
two command tasks cannot stand for one command and a free task holds nothing.
`QueueInv` adds that an outcome that waits in a deferred channel belongs to a
task that waits for it, and is there once; without it serving a stale outcome
could move a task that is already executing. A command that a static check left
behind counts as a holder, so the invariant covers panics as well. The argument goes action by action
(`...Step`), each resting on lemmas about the critical sections (`ClearFacts`,
`BeginFacts`, `FinishFacts`, ...) and on three lemmas about the holder of the
object (`HolderStays`, `HolderEnters`, `HolderLeaves`).

**Association.** The invariant has three parts. The slots are those of the
tasks that have not ended, and the set of those tasks is finite, so that taking
and giving back a slot changes the count by exactly one. `HoldsOf(c)` says at
which places of its life a connection may be in the table, have channels, hold a
selection, a reservation or an edit session, and have something queued; the
teardown releases them one step at a time, and what it has passed is gone.
`Ledger(c)` relates the requests of a connection: what the client waits for is
what is held back and the request in hand, and what is held back is, without
repetition, what commands are still to post and what waits in the channel. The
sequence lemmas (`TailOnce`, `AppendOnce`, `CountOnce`) turn the queue without
repetition into the count that `NoRequestForgotten` states. A step of another
connection leaves all three alone (`Untouched`).

**ValueUpdates.** The invariant says who can be the raiser and where it stands,
that commit numbers of queued batches grow for each attribute, that every thread
in the queue waits for a batch that is there, that a batch that nobody has
raised has somebody who will, and who holds the model lock and the gate. The
refinement maps the raised batches to the feed: a store and a raise are steps of
the feed, every other step stutters.

**SettingGroups.** The invariant says which thread holds the settings lock and
what each load carries: at most one load of a buffer is the latest, it brings the
values of the session (or of the active group), what it has written already
agrees with them, and without one the buffer agrees with them as a whole.

Only model-checked: all liveness, and everything under fairness, which is out of
the prover's reach; `ResponseOrder` and `SelectionLedger` of the control services;
everything about `BufferedReporting`, `GooseBus`, `DataAccess`, `Logging`,
`MmsClient` and `Cotp`; and the codecs, the model builders and the SCL modules,
which are recursive over data of any depth and would need induction over it.

## 5. Not modelled

`PROJECT.json` lists every component. The SQLite report buffer, SNTP, the raw
sockets and the TLS handshake belong to libraries or to the operating system, or
keep no state that several steps could get wrong. The blocking client and the
client services repeat calls of the modelled client. Dynamic data sets, the pages
of a name list and the built-in access policies are lists under one lock. The
shutdown of the tokio runtime under a running server is documented in the code
as a limitation and left out. Two elements of an SCL document that set the same
attribute are outside the documents of the `model` run.
