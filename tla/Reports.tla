------------------------------- MODULE Reports -------------------------------
(***************************************************************************)
(* Unbuffered reporting from end to end: one unbuffered report control     *)
(* block of the server (writes to its fields, triggers, the tick that      *)
(* sends what is due), the encoder that splits a report into PDUs of the   *)
(* negotiated size, the report channel of each association, and the client *)
(* that configures the block, parses the PDUs and keeps the values of the  *)
(* data set members.  The encoder and the parser are shared with buffered  *)
(* reporting, whose header fields they carry as well.                      *)
(*                                                                         *)
(* The engine lock is held by every write, trigger and tick, so each is    *)
(* one step.  Time is what it decides: a running buffer time or integrity  *)
(* period is over at any later moment.  A member's value is a function     *)
(* from the basic attributes beneath the member to their values; a text is *)
(* a model value whose length Length gives.                                *)
(***************************************************************************)
EXTENDS Absence, Integers, Sequences, FiniteSets, FiniteSetsExt, SequencesExt

CONSTANTS
    RpConns,      \* associations
    Attributes,   \* basic data attributes
    ReasonOf,     \* the reason an update of an attribute raises, or None
    RpDataSets,   \* data set name -> sequence of members, each a set of attributes
    Unqualified,  \* a data set name without a domain -> the name with the block's
    Length,       \* length of every text: names, report identifiers
    ValueLen,     \* encoded size of an attribute's value
    Reference,    \* the reference text of a member
    ChannelCap,   \* REPORT_CHANNEL_CAP
    SqNums,       \* 256: SqNum is an octet
    ConfRevs,     \* 2^32: ConfRev has 32 bits
    SubSeqMax,    \* 65535: SubSeqNum has 16 bits
    RpScenarios   \* what the clients may do, and the bounds

VARIABLES
    eng,     \* the engine: the block, the channels, a partly sent report
    live,    \* the current value of every attribute
    raised,  \* batches stored and not yet raised, in commit order
    alive,   \* associations whose receiver exists
    todo,    \* per association, the writes of a SetRCBValues call still to do
    asked,   \* per association, the call they belong to
    kept,    \* per association, the installed handler's state, or None
    seen,    \* per association, history: the reports applied so far
    bound,   \* what is left of the bounds
    sample   \* PDUs of one buffered report, or of none

rpVars == << eng, live, raised, alive, todo, asked, kept, seen, bound, sample >>

-----------------------------------------------------------------------------
(* Sizes in octets. *)

LengthLen(n) == IF n < 128 THEN 1 ELSE IF n <= 255 THEN 2 ELSE 3
TlvLen(n) == 1 + LengthLen(n) + n

\* unconfirmedPDU [3] { [0] { variableAccessSpecification, listOfAccessResult [0] } };
\* the variable access specification has 7 octets.
ReportPduLen(content) == TlvLen(TlvLen(7 + TlvLen(content)))

\* The contents octets of an unsigned number: two's complement, so 128 needs two.
\* Numbers of the model stay below 2^23.
UnsignedTlvLen(n) == TlvLen(IF n < 128 THEN 1 ELSE IF n < 32768 THEN 2 ELSE 3)
InclusionTlvLen(n) == TlvLen(1 + (n + 7) \div 8)

\* A member of one attribute is that attribute and has its value; a member of
\* several is a structure of theirs.  One without a value is sent as an empty
\* structure.
IsLeaf(m) == Cardinality(m) = 1
MemberValueLen(v) ==
    IF v = None THEN 2
    ELSE LET n == SumFunctionOnSet(ValueLen, DOMAIN v)
         IN IF IsLeaf(DOMAIN v) THEN n ELSE TlvLen(n)
-----------------------------------------------------------------------------
(* The encoder.  A header has the fields of ReportHeader; pend has the      *)
(* inclusion flags and the snapshot of a PendingReport and its kind.        *)

UrcbMask(opt) == opt \ {"bufOvfl", "entryId"}

Elem(t, v) == << t, v >>
When(cond, e) == IF cond THEN << e >> ELSE << >>

\* The option fields a PDU states: a segment says it is one.
OptFlds(h, segmented) == IF segmented THEN h.opt \union {"segmentation"} ELSE h.opt

HeaderLen(h) ==
    LET add(f, n) == IF f \in h.opt THEN n ELSE 0
    IN TlvLen(Length[h.rptId]) + 5 + add("seqNum", UnsignedTlvLen(h.sq)) + add("time", TlvLen(6))
       + add("datSet", TlvLen(Length[h.datSet])) + add("bufOvfl", 3) + add("entryId", 10)
       + add("confRev", UnsignedTlvLen(h.rev))

SegmentationLen(h, segmented, sub) ==
    IF "segmentation" \in OptFlds(h, segmented) THEN UnsignedTlvLen(sub) + 3 ELSE 0

EncodeHeader(h, segmented, sub, more) ==
    LET f == OptFlds(h, segmented)
    IN << Elem("text", h.rptId), Elem("optFlds", f) >>
       \o When("seqNum" \in f, Elem("unsigned", h.sq))
       \o When("time" \in f, Elem("time", None))
       \o When("datSet" \in f, Elem("text", h.datSet))
       \o When("bufOvfl" \in f, Elem("boolean", h.ovfl))
       \o When("entryId" \in f, Elem("octets", h.entry))
       \o When("confRev" \in f, Elem("unsigned", h.rev))
       \o When("segmentation" \in f, Elem("unsigned", sub))
       \o When("segmentation" \in f, Elem("boolean", more))

ReadMember(m, values) == [a \in m |-> values[a]]

\* The k-th smallest of a set of positions.
Kth(s, k) == CHOOSE i \in s : Cardinality({j \in s : j <= i}) = k

\* The members of a report: all of them for an integrity or a general
\* interrogation report, otherwise those that triggered.  A member that has no
\* snapshot is read when the report is encoded.
MarksOf(pend) == IF pend.kind = "change" THEN {i \in DOMAIN pend.flags : pend.flags[i] # {}}
                 ELSE DOMAIN pend.flags

IncludedMembers(ds, pend, values) ==
    LET member(i) == [index |-> i, ref |-> Reference[ds[i]],
                      value |-> IF pend.snap[i] # None THEN pend.snap[i] ELSE ReadMember(ds[i], values),
                      reason |-> pend.flags[i] \union (IF pend.kind = "change" THEN {} ELSE {pend.kind})]
    IN [k \in 1 .. Cardinality(MarksOf(pend)) |-> member(Kth(MarksOf(pend), k))]

MemberLen(h, m) ==
    (IF "dataRef" \in h.opt THEN TlvLen(Length[m.ref]) ELSE 0) + MemberValueLen(m.value)
    + (IF "reason" \in h.opt THEN 4 ELSE 0)

EncodePdu(h, segmented, sub, more, n, members) ==
    LET each(f, t, val(_)) == IF f THEN [k \in DOMAIN members |-> Elem(t, val(members[k]))] ELSE << >>
    IN EncodeHeader(h, segmented, sub, more)
       \o << Elem("inclusion", [size |-> n, marks |-> {members[k].index : k \in DOMAIN members}]) >>
       \o each("dataRef" \in h.opt, "text", LAMBDA m : m.ref)
       \o each(TRUE, "data", LAMBDA m : m.value)
       \o each("reason" \in h.opt, "reason", LAMBDA m : m.reason)

\* One PDU when everything fits, otherwise segments that each take as many of
\* the remaining members as fit.  None when a segment cannot take a single
\* member, when a report of no member does not fit, or when SubSeqNum would
\* overflow.  "of" and "len" are not sent: they keep what the encoder was
\* given and the size it computed.
Content(h, ds, cost, segmented, sub, from, to) ==
    HeaderLen(h) + InclusionTlvLen(Len(ds)) + SegmentationLen(h, segmented, sub) + SumFunctionOnSet(cost, from .. to)

\* starts[k] is the first member of segment k, or the one after the last.
Starts(h, ds, cost, limit) ==
    LET fits(sub, from, to) == ReportPduLen(Content(h, ds, cost, TRUE, sub, from, to)) <= limit
        starts[k \in 0 .. Len(cost)] ==
            IF k = 0 THEN 1
            ELSE Max({starts[k - 1] - 1} \union {to \in starts[k - 1] .. Len(cost) : fits(k - 1, starts[k - 1], to)}) + 1
    IN starts

Pdu(h, ds, members, cost, limit, segmented, sub, from, to) ==
    [elems |-> EncodePdu(h, segmented, sub, to < Len(members), Len(ds), SubSeq(members, from, to)),
     len |-> ReportPduLen(Content(h, ds, cost, segmented, sub, from, to)), max |-> limit,
     of |-> [h |-> h, segmented |-> segmented, sub |-> sub, more |-> to < Len(members), ds |-> ds,
             members |-> SubSeq(members, from, to)]]

Segments(h, ds, members, cost, limit, starts) ==
    LET count == Min({k \in DOMAIN starts : starts[k] > Len(members)})
    IN IF Len(members) = 0 \/ starts[Len(members)] <= Len(members) \/ count - 1 > SubSeqMax THEN None
       ELSE [k \in 1 .. count |-> Pdu(h, ds, members, cost, limit, TRUE, k - 1, starts[k - 1], starts[k] - 1)]

PdusOf(h, ds, members, cost, limit) ==
    IF ReportPduLen(Content(h, ds, cost, FALSE, 0, 1, Len(members))) <= limit
    THEN << Pdu(h, ds, members, cost, limit, FALSE, 0, 1, Len(members)) >>
    ELSE Segments(h, ds, members, cost, limit, Starts(h, ds, cost, limit))

WithCosts(h, ds, members, limit) == PdusOf(h, ds, members, [k \in DOMAIN members |-> MemberLen(h, members[k])], limit)

EncodePdus(h, ds, pend, values, max) == WithCosts(h, ds, IncludedMembers(ds, pend, values), Min({max, 65535}))
-----------------------------------------------------------------------------
(* The control block and the engine.  eng.lost, eng.first and eng.fresh are *)
(* history: reports lost to a full channel since the last one sent, whether *)
(* none was sent since the block was enabled, and the members whose latest  *)
(* trigger since then was sent.                                             *)

NoSet == "noSet"
DataSetOf(b) == RpDataSets[b.datSet]

\* A name without a domain is in the domain of the control block.
QualifiedDatSet(v) == IF v \in DOMAIN Unqualified THEN Unqualified[v] ELSE v

Config == {"rptId", "datSet", "opt", "bufTm", "trg", "intg"}

InitBlock(s) == [rptId |-> s.rptId, ena |-> FALSE, resv |-> FALSE, conn |-> None, datSet |-> QualifiedDatSet(s.datSet), rev |-> 1,
                 opt |-> s.opt, bufTm |-> s.bufTm, sq |-> 0, trg |-> s.trg, intg |-> s.intg, gi |-> FALSE,
                 owner |-> None, pend |-> None, due |-> None, nextIntg |-> None]

Timer(period) == IF period = 0 THEN "over" ELSE "running"

\* Mutant: what the channel had no room for is dropped.
PushWhatFits(w, c, pdus) ==
    [w EXCEPT !.chan[c] = @ \o SubSeq(pdus, 1, Min({Len(pdus), ChannelCap - Len(w.chan[c])})), !.part = None]
\* One PDU goes into the channel while it has room; the rest is kept.
PushSegments(w, c, pdus) ==
    LET k == Min({Len(pdus), ChannelCap - Len(w.chan[c])})
    IN [w EXCEPT !.chan[c] = @ \o SubSeq(pdus, 1, k),
                 !.part = IF k = Len(pdus) THEN None ELSE [conn |-> c, rest |-> SubSeq(pdus, k + 1, Len(pdus))]]

\* A report longer than the channel needs an empty channel, any other room for all of it.
ChannelHasRoom(w, c, segments) == ChannelCap - Len(w.chan[c]) >= Min({segments, ChannelCap})

ForgetPartial(w) == [w EXCEPT !.part = None]

OnConnectionDropped(w, c) ==
    LET u == IF w.part # None /\ w.part.conn = c THEN ForgetPartial(w) ELSE w
    IN IF w.blk.conn # c THEN u
       ELSE [u EXCEPT !.blk.ena = FALSE, !.blk.conn = None, !.blk.pend = None, !.blk.due = None,
                      !.blk.resv = FALSE, !.blk.gi = FALSE]

HeaderOf(b) == [rptId |-> b.rptId, opt |-> UrcbMask(b.opt), sq |-> b.sq, datSet |-> b.datSet, rev |-> b.rev,
                ovfl |-> FALSE, entry |-> None]

NextSqNum(sq) == (sq + 1) % SqNums

GivenBack(w, taken) == w

\* A report that cannot be encoded gives its sequence number back; one the channel has
\* no room for, or that comes while another is partly sent, keeps it.
Deliver(w, taken, c, marks, up, pdus) ==
    IF pdus = None THEN [GivenBack(w, taken) EXCEPT !.fresh = @ \ marks]
    ELSE IF ~ChannelHasRoom(w, c, Len(pdus)) \/ w.part # None
         THEN [taken EXCEPT !.lost = @ + 1, !.fresh = @ \ marks]
    ELSE IF ~up THEN OnConnectionDropped(taken, c)
    ELSE [PushSegments(taken, c, [k \in DOMAIN pdus |-> pdus[k] @@ [lost |-> w.lost, first |-> w.first]])
             EXCEPT !.lost = 0, !.first = FALSE, !.fresh = @ \union marks]

FlushPending(w, c, pend, values, up, max) ==
    Deliver(w, [w EXCEPT !.blk.sq = NextSqNum(@)], c, MarksOf(pend), up,
            EncodePdus(HeaderOf(w.blk), DataSetOf(w.blk), pend, values, max))

\* The pending report is taken out of the block and sent.
SendPending(w, values, up, max) ==
    LET cleared == [w EXCEPT !.blk.pend = None, !.blk.due = None]
    IN FlushPending(cleared, w.blk.conn, w.blk.pend, values, up, max)

FullReport(ds, kind, values) == [flags |-> [i \in DOMAIN ds |-> {}], kind |-> kind,
                                 snap |-> [i \in DOMAIN ds |-> ReadMember(ds[i], values)]]

SendFull(w, kind, values, up, max) ==
    IF w.blk.conn = None THEN w
    ELSE FlushPending(w, w.blk.conn, FullReport(DataSetOf(w.blk), kind, values), values, up, max)

\* A general interrogation or integrity report comes after the pending changes.
SendBoth(w, kind, values, up, max) ==
    SendFull(IF w.blk.due = None THEN w ELSE SendPending(w, values, up, max), kind, values, up, max)

\* What a tick sends: a general interrogation, else an integrity report, else
\* the changes whose buffer time is over.
TickSends(w, values, up, max) ==
    LET rcb == w.blk
        gi == "gi" \in rcb.trg /\ rcb.gi
        integrity == "integrity" \in rcb.trg /\ rcb.intg > 0 /\ rcb.nextIntg = "over"
    IN IF ~rcb.ena \/ rcb.conn = None \/ w.part # None THEN w
       ELSE IF gi \/ integrity
            THEN SendBoth(IF gi THEN [w EXCEPT !.blk.gi = FALSE] ELSE [w EXCEPT !.blk.nextIntg = "running"],
                          IF gi THEN "gi" ELSE "integrity", values, up, max)
       ELSE IF rcb.due = "over" THEN SendPending(w, values, up, max)
       ELSE w

\* A partly sent report goes on first; nothing new is sent before it is complete.
ResumePartial(w, up) ==
    IF w.part = None THEN w
    ELSE IF ~w.blk.ena \/ w.blk.conn # w.part.conn THEN ForgetPartial(w)
    ELSE IF ~up THEN OnConnectionDropped(w, w.part.conn)
    ELSE PushSegments(w, w.part.conn, w.part.rest)

TickAt(w, values, up, max) == TickSends(ResumePartial(w, up), values, up, max)
-----------------------------------------------------------------------------
(* Triggers.  A batch has the value it gave each attribute; an attribute    *)
(* whose ReasonOf is None raises nothing and is context for the others.     *)

TriggerOption == [dchg |-> "dchg", qchg |-> "qchg", dupd |-> "dupd"]
EnabledTriggers(a, trg) == IF ReasonOf[a] # None /\ TriggerOption[ReasonOf[a]] \in trg THEN {ReasonOf[a]} ELSE {}
\* Mutant: an attribute is watched for one member only.
MembersOfFirst(ds, a) == LET all == {i \in DOMAIN ds : a \in ds[i]} IN IF all = {} THEN {} ELSE {Min(all)}
MembersOf(ds, a) == {i \in DOMAIN ds : a \in ds[i]}

EmptyPending(ds) == [flags |-> [i \in DOMAIN ds |-> {}], snap |-> [i \in DOMAIN ds |-> None], kind |-> "change"]

\* A basic attribute takes the reason and the value.  A constructed member
\* adds the reasons to those it holds and sets the parts of the batch in the
\* value it holds, or in its current one.
FillMember(m, flags, snap, reasons, batch, values) ==
    LET held == IF snap # None THEN snap ELSE ReadMember(m, values)
    IN IF IsLeaf(m) THEN [flags |-> reasons, snap |-> [a \in m |-> batch[a]]]
       ELSE [flags |-> flags \union reasons,
             snap |-> [a \in m |-> IF a \in DOMAIN batch THEN batch[a] ELSE held[a]]]

Enabled(batch, trg) == {a \in DOMAIN batch : EnabledTriggers(a, trg) # {}}

AddToPending(w, ds, p, slots, batch, values) ==
    LET hit(i) == UNION {EnabledTriggers(a, w.blk.trg) : a \in Enabled(batch, w.blk.trg) \intersect ds[i]}
        filled == [i \in slots |-> FillMember(ds[i], p.flags[i], p.snap[i], hit(i), batch, values)]
    IN [w EXCEPT !.blk.pend = [kind |-> "change",
                               flags |-> [i \in DOMAIN ds |-> IF i \in slots THEN filled[i].flags ELSE p.flags[i]],
                               snap |-> [i \in DOMAIN ds |-> IF i \in slots THEN filled[i].snap ELSE p.snap[i]]],
                 !.blk.due = IF @ = None THEN Timer(w.blk.bufTm) ELSE @]

FillSlots(w, slots, batch, values) ==
    IF ~w.blk.ena THEN w
    ELSE AddToPending(w, DataSetOf(w.blk), IF w.blk.pend = None THEN EmptyPending(DataSetOf(w.blk)) ELSE w.blk.pend,
                      slots, batch, values)

\* A member that triggers again sends the pending report first.
TriggerSlots(w, slots, batch, values, up, max) ==
    IF slots = {} THEN w
    ELSE FillSlots(IF w.blk.pend # None /\ \E i \in slots : w.blk.pend.flags[i] # {}
                   THEN SendPending(w, values, up, max) ELSE w,
                   slots, batch, values)

TriggerUrcbBatch(w, batch, values, up, max) ==
    IF ~w.blk.ena THEN w
    ELSE TriggerSlots(w, UNION {MembersOf(DataSetOf(w.blk), a) : a \in Enabled(batch, w.blk.trg)},
                      batch, values, up, max)
-----------------------------------------------------------------------------
(* SetURCBValues: one field of the block written by association c.  A       *)
(* verdict has the engine after the write and whether it was accepted.      *)

NeverWritable == {"rev", "sq", "owner"}
Accept(w) == [w |-> w, ok |-> TRUE]
Refuse(w) == [w |-> w, ok |-> FALSE]

WriteResv(w, c, v) ==
    LET rcb == w.blk
    IN IF \/ v /\ rcb.resv /\ rcb.conn # c
          \/ ~v /\ rcb.conn # None /\ rcb.conn # c
          \/ rcb.ena
       THEN Refuse(w)
       ELSE Accept([w EXCEPT !.blk.resv = v, !.blk.conn = IF v THEN c ELSE None,
                             !.blk.owner = IF v THEN c ELSE None])

Unreserved(b) == ~b.resv /\ b.conn = None
\* Mutant: a disabled block is anybody's.
MayWriteDisabled(b, c) == ~b.ena \/ (b.resv /\ b.conn = c)
MayWriteField(b, c) == Unreserved(b) \/ (b.resv /\ b.conn = c)

\* Enabling reserves an unreserved block and starts the sequence numbers and
\* the integrity period; disabling drops what is pending or partly sent and
\* keeps the reservation.
WriteRptEna(w, c, v) ==
    LET rcb == w.blk
        held == IF Unreserved(rcb) THEN [w EXCEPT !.blk.resv = TRUE, !.blk.conn = c, !.blk.owner = c] ELSE w
    IN IF v THEN IF rcb.datSet = NoSet THEN Refuse(w)
                 ELSE IF rcb.ena THEN Accept(w)
                 ELSE Accept([held EXCEPT !.blk.ena = TRUE, !.blk.sq = 0,
                                          !.blk.nextIntg = IF rcb.intg > 0 THEN "running" ELSE None,
                                          !.lost = 0, !.first = TRUE, !.fresh = {}])
       ELSE IF ~rcb.ena THEN Accept(w)
       ELSE Accept(ForgetPartial([w EXCEPT !.blk.ena = FALSE, !.blk.pend = None, !.blk.due = None]))

\* A general interrogation of a disabled block is refused and leaves GI clear;
\* one the trigger options do not include is ignored.
WriteGi(w, v) ==
    IF ~v THEN Accept(w)
    ELSE IF ~w.blk.ena THEN Refuse([w EXCEPT !.blk.gi = FALSE])
    ELSE IF "gi" \notin w.blk.trg THEN Accept(w)
    ELSE Accept([w EXCEPT !.blk.gi = TRUE])

\* ConfRev has 32 bits and skips zero.
IncreaseConfRev(rev) == IF (rev + 1) % ConfRevs = 0 THEN 1 ELSE (rev + 1) % ConfRevs

\* A DatSet that names no data set is refused; one that changes the data set
\* drops what is pending and counts in ConfRev.
WriteDatSetName(w, v) ==
    IF v = w.blk.datSet THEN Accept(w)
    ELSE IF v # NoSet /\ v \notin DOMAIN RpDataSets THEN Refuse(w)
    ELSE Accept([w EXCEPT !.blk.datSet = v, !.blk.rev = IncreaseConfRev(@), !.blk.pend = None, !.blk.due = None])

WriteConfig(w, f, v) ==
    IF w.blk.ena THEN Refuse(w)
    ELSE IF f = "datSet" THEN WriteDatSetName(w, QualifiedDatSet(v))
    ELSE IF f = "rptId" /\ Length[v] > 129 THEN Refuse(w)
    ELSE Accept([w EXCEPT !.blk[f] = IF f = "opt" THEN UrcbMask(v) ELSE v])

HandleSetRcbField(w, c, f, v) ==
    IF f \in NeverWritable THEN Refuse(w)
    ELSE IF f = "resv" THEN WriteResv(w, c, v)
    ELSE IF ~MayWriteField(w.blk, c) THEN Refuse(w)
    ELSE IF f = "ena" THEN WriteRptEna(w, c, v)
    ELSE IF f = "gi" THEN WriteGi(w, v)
    ELSE IF f \in Config THEN WriteConfig(w, f, v)
    ELSE Refuse(w)
-----------------------------------------------------------------------------
(* GetURCBValues and GetBRCBValues: the structure the server answers and    *)
(* the handle the client decodes from it.                                   *)

TypeOfField == [rptId |-> "text", ena |-> "boolean", resv |-> "boolean", datSet |-> "text", rev |-> "unsigned",
                opt |-> "bits", bufTm |-> "unsigned", sq |-> "unsigned", trg |-> "bits", intg |-> "unsigned",
                gi |-> "boolean", owner |-> "octets", purge |-> "boolean", entry |-> "octets", time |-> "time",
                resvTms |-> "integer"]

UrcbFieldOrder == << "rptId", "ena", "resv", "datSet", "rev", "opt", "bufTm", "sq", "trg", "intg", "gi", "owner" >>
BrcbFieldOrder == << "rptId", "ena", "datSet", "rev", "opt", "bufTm", "sq", "trg", "intg", "gi", "purge", "entry",
                     "time", "resvTms", "owner" >>

\* An unreserved block shows no owner.
FieldShown(b, f) == IF f = "owner" /\ "resv" \in DOMAIN b /\ ~b.resv THEN None ELSE b[f]

\* Owner and ResvTms are there when the block is configured with them.
BlockStructure(order, b, has) ==
    LET fields == SelectSeq(order, LAMBDA f : f \notin {"owner", "resvTms"} \/ f \in has)
    IN [i \in DOMAIN fields |-> Elem(TypeOfField[fields[i]], FieldShown(b, fields[i]))]

\* The fields of the handle in the order of an answer's elements, each with
\* the type its element must have.
UrcbExpected == << << "rptId", "text" >>, << "ena", "boolean" >>, << "resv", "boolean" >>, << "datSet", "text" >>,
                   << "rev", "unsigned" >>, << "opt", "bits" >>, << "bufTm", "unsigned" >>, << "sq", "unsigned" >>,
                   << "trg", "bits" >>, << "intg", "unsigned" >>, << "gi", "boolean" >>, << "owner", "octets" >> >>

BrcbExpected == << << "rptId", "text" >>, << "ena", "boolean" >>, << "datSet", "text" >>, << "rev", "unsigned" >>,
                   << "opt", "bits" >>, << "bufTm", "unsigned" >>, << "sq", "unsigned" >>, << "trg", "bits" >>,
                   << "intg", "unsigned" >>, << "gi", "boolean" >>, << "purge", "boolean" >>,
                   << "entry", "octets" >>, << "time", "time" >> >>

\* Element 14 is ResvTms when it is an integer, with Owner after it, and Owner
\* when it is an octet string.
BrcbTail(elems) == IF Len(elems) >= 14 /\ elems[14][1] = "octets" THEN << << "owner", "octets" >> >>
                   ELSE << << "resvTms", "integer" >>, << "owner", "octets" >> >>

\* Some servers carry TimeofEntry as an octet string.
Matches(type, expected) == type = expected \/ (expected = "time" /\ type = "octets")

\* The handle of an answer, or None when an element is missing or of another type.
DecodeHandle(expected, required, elems) ==
    LET known == 1 .. Min({Len(elems), Len(expected)})
    IN IF Len(elems) < required \/ \E i \in known : ~Matches(elems[i][1], expected[i][2]) THEN None
       ELSE [f \in {expected[i][1] : i \in known} |-> elems[CHOOSE i \in known : expected[i][1] = f][2]]

UpdateValuesUrcb(elems) == DecodeHandle(UrcbExpected, 11, elems)
UpdateValuesBrcb(elems) == DecodeHandle(BrcbExpected \o BrcbTail(elems), 13, elems)
-----------------------------------------------------------------------------
(* SetRCBValues of the client: the handle h and the mask of fields to write *)
(* become one write per field, in this order, until one is refused.         *)

ReadOnlyMask == {"rev", "sq", "owner", "time"}

ValidateMask(call) ==
    IF call.buffered THEN "resv" \notin call.mask ELSE call.mask \intersect {"purge", "entry", "resvTms"} = {}

BuildWriteSequence(call) ==
    LET mask == call.mask \ ReadOnlyMask
        enables == "ena" \in mask /\ call.h.ena
        giLast == enables /\ "gi" \in mask
        write(cond, f) == When(cond, << f, call.h[f] >>)
        plain(f) == write(f \in mask, f)
    IN write("ena" \in mask /\ ~call.h.ena, "ena")
       \o plain("resv") \o plain("resvTms") \o plain("rptId") \o plain("datSet") \o plain("opt") \o plain("bufTm")
       \o plain("trg") \o plain("intg") \o plain("entry") \o write("gi" \in mask /\ ~giLast, "gi") \o plain("purge")
       \o write(enables, "ena") \o write(giLast, "gi")
-----------------------------------------------------------------------------
(* The client's parser.  Each field is there when the option fields say so, *)
(* and the elements are taken in this order.                                *)

\* Mutant: the entry identifier comes after the configuration revision.
HeaderSlotsSwapped == << << "seqNum", "unsigned" >>, << "time", "time" >>, << "datSet", "text" >>,
                         << "bufOvfl", "boolean" >>, << "confRev", "unsigned" >>, << "entryId", "octets" >>,
                         << "segmentation", "unsigned" >>, << "segmentation", "boolean" >> >>
HeaderSlots == << << "seqNum", "unsigned" >>, << "time", "time" >>, << "datSet", "text" >>, << "bufOvfl", "boolean" >>,
                  << "entryId", "octets" >>, << "confRev", "unsigned" >>, << "segmentation", "unsigned" >>,
                  << "segmentation", "boolean" >> >>

\* The elements from position p on have these types.
Taken(elems, p, types) == p + Len(types) - 1 <= Len(elems) /\ \A i \in DOMAIN types : elems[p + i - 1][1] = types[i]

\* The report an element list holds, or None when an element is missing or of
\* another type.
ParseReport(elems) ==
    LET opt == elems[2][2]
        slots == SelectSeq(HeaderSlots, LAMBDA s : s[1] \in opt)
        at == 3 + Len(slots)
        value(f, default) == IF f \notin opt THEN default
                             ELSE elems[2 + (CHOOSE i \in DOMAIN slots : slots[i][1] = f)][2]
        size == elems[at][2].size
        marks == elems[at][2].marks
        n == Cardinality(marks)
        refs == IF "dataRef" \in opt THEN n ELSE 0
        reasons == IF "reason" \in opt THEN n ELSE 0
        values == SubSeq(elems, at + refs + 1, at + refs + n)
    IN IF ~Taken(elems, 1, << "text", "optFlds" >> \o [i \in DOMAIN slots |-> slots[i][2]] \o << "inclusion" >>)
          \/ ~Taken(elems, at + 1, [i \in 1 .. refs |-> "text"])
          \/ Len(elems) < at + refs + n
          \/ ~Taken(elems, at + refs + n + 1, [i \in 1 .. reasons |-> "reason"])
       THEN None
       ELSE [rptId |-> elems[1][2], opt |-> opt, sq |-> value("seqNum", None), datSet |-> value("datSet", None),
             ovfl |-> value("bufOvfl", None), entry |-> value("entryId", None), rev |-> value("confRev", None),
             seg |-> IF "segmentation" \in opt THEN << elems[at - 2][2], elems[at - 1][2] >> ELSE None,
             size |-> size, marks |-> marks,
             refs |-> [i \in 1 .. refs |-> elems[at + i][2]],
             values |-> [i \in 1 .. n |-> values[i][2]],
             reasons |-> [i \in 1 .. reasons |-> elems[at + refs + n + i][2]]]
-----------------------------------------------------------------------------
(* The values a handler keeps. *)

NewClientReport(rptId, expected) ==
    [rptId |-> rptId, expected |-> expected, size |-> None, values |-> << >>, reasons |-> << >>,
     sq |-> None, seg |-> None, included |-> {}, memberSet |-> None, memberRev |-> None]

\* Evidence of another data set: both are known and they differ.
Differs(held, carried) == held # None /\ carried # None /\ held # carried

RankIn(marks, i) == Cardinality({j \in marks : j <= i})

OtherDataSet(k, r) == Differs(k.memberSet, r.datSet) \/ Differs(k.memberRev, r.rev)

\* Every check comes before any change: a size other than the one fixed, or a
\* name longer than 128.
ApplyReport(k, r) ==
    LET other == OtherDataSet(k, r)
        fixed == IF other THEN None ELSE k.size
        old == IF fixed = None THEN [i \in 1 .. r.size |-> None] ELSE k.values
        carried(new, held) == IF new # None THEN new ELSE held
    IN IF fixed # None /\ fixed # r.size THEN k
       ELSE IF r.datSet # None /\ Length[r.datSet] > 128 THEN k
       ELSE [k EXCEPT !.size = r.size,
                      !.memberSet = carried(r.datSet, IF other THEN None ELSE @),
                      !.memberRev = carried(r.rev, IF other THEN None ELSE @),
                      !.sq = r.sq, !.seg = r.seg, !.included = r.marks,
                      !.values = [i \in 1 .. r.size |-> IF i \in r.marks THEN r.values[RankIn(r.marks, i)] ELSE old[i]],
                      !.reasons = [i \in 1 .. r.size |-> IF i \in r.marks /\ r.reasons # << >>
                                                         THEN r.reasons[RankIn(r.marks, i)] ELSE {}]]

\* A report goes to the handler whose report identifier it carries, when its
\* size is the one the data set directory gave.
HandleReport(k, elems) ==
    LET r == ParseReport(elems)
    IN IF k = None \/ r = None THEN k
       ELSE IF r.rptId # k.rptId \/ (k.expected # None /\ k.expected # r.size) THEN k
       ELSE ApplyReport(k, r)
-----------------------------------------------------------------------------
(* Steps. *)

InitEngine(s) == [blk |-> InitBlock(s), chan |-> [c \in RpConns |-> << >>], part |-> None,
                  lost |-> 0, first |-> TRUE, fresh |-> {}]

NothingSeen == [last |-> None, common |-> None, applied |-> None, whole |-> FALSE]

RpInit ==
    \E s \in RpScenarios :
        /\ bound = [s EXCEPT !.samples = {}]
        /\ eng = InitEngine(s)
        /\ live = [a \in Attributes |-> 0]
        /\ raised = << >>
        /\ alive = RpConns
        /\ todo = [c \in RpConns |-> << >>]
        /\ asked = [c \in RpConns |-> None]
        /\ kept = [c \in RpConns |-> None]
        /\ seen = [c \in RpConns |-> NothingSeen]
        /\ sample \in s.samples

Up(w) == w.blk.conn \in alive

\* A batch of updates is stored; its triggers are raised later, in the order
\* of the stores.
StoreBatch ==
    /\ bound.batches > 0 /\ Len(raised) < 2
    /\ \E s \in bound.sets :
          LET batch == [a \in s |-> live[a] + 1]
          IN /\ live' = [a \in Attributes |-> IF a \in s THEN batch[a] ELSE live[a]]
             /\ raised' = Append(raised, batch)
    /\ bound' = [bound EXCEPT !.batches = @ - 1]
    /\ UNCHANGED << eng, alive, todo, asked, kept, seen, sample >>

RaiseBatch ==
    /\ raised # << >>
    /\ eng' = TriggerUrcbBatch(eng, Head(raised), live, Up(eng), bound.max)
    /\ raised' = Tail(raised)
    /\ UNCHANGED << live, alive, todo, asked, kept, seen, bound, sample >>

TickStep ==
    /\ eng' = TickAt(eng, live, Up(eng), bound.max)
    /\ eng' # eng
    /\ UNCHANGED << live, raised, alive, todo, asked, kept, seen, bound, sample >>

BufferTimeEnds ==
    /\ eng.blk.due = "running"
    /\ eng' = [eng EXCEPT !.blk.due = "over"]
    /\ UNCHANGED << live, raised, alive, todo, asked, kept, seen, bound, sample >>

IntegrityPeriodEnds ==
    /\ eng.blk.nextIntg = "running" /\ eng.blk.ena /\ bound.periods > 0
    /\ eng' = [eng EXCEPT !.blk.nextIntg = "over"]
    /\ bound' = [bound EXCEPT !.periods = @ - 1]
    /\ UNCHANGED << live, raised, alive, todo, asked, kept, seen, sample >>

SetRcbValues(c) ==
    /\ c \in alive /\ todo[c] = << >>
    /\ \E call \in bound.calls[c] :
          /\ ValidateMask(call)
          /\ todo' = [todo EXCEPT ![c] = BuildWriteSequence(call)]
          /\ asked' = [asked EXCEPT ![c] = call]
          /\ bound' = [bound EXCEPT !.calls[c] = @ \ {call}]
    /\ UNCHANGED << eng, live, raised, alive, kept, seen, sample >>

\* The server's answer to a write ends the call when it is a refusal.
WriteField(c) ==
    /\ todo[c] # << >>
    /\ LET v == HandleSetRcbField(eng, c, Head(todo[c])[1], Head(todo[c])[2])
       IN /\ eng' = v.w
          /\ todo' = [todo EXCEPT ![c] = IF v.ok THEN Tail(@) ELSE << >>]
          /\ asked' = [asked EXCEPT ![c] = IF v.ok THEN @ ELSE None]
    /\ UNCHANGED << live, raised, alive, kept, seen, bound, sample >>

InstallHandler(c) ==
    /\ c \in alive
    /\ \E h \in bound.installs[c] :
          /\ Length[h.rptId] <= 128
          /\ kept' = [kept EXCEPT ![c] = NewClientReport(h.rptId, h.expected)]
          /\ bound' = [bound EXCEPT !.installs[c] = @ \ {h}]
    /\ seen' = [seen EXCEPT ![c].common = None, ![c].applied = None, ![c].whole = FALSE]
    /\ UNCHANGED << eng, live, raised, alive, todo, asked, sample >>

UninstallHandler(c) ==
    /\ kept[c] # None /\ bound.uninstalls > 0
    /\ kept' = [kept EXCEPT ![c] = None]
    /\ seen' = [seen EXCEPT ![c].whole = FALSE]
    /\ bound' = [bound EXCEPT !.uninstalls = @ - 1]
    /\ UNCHANGED << eng, live, raised, alive, todo, asked, sample >>

\* The fields of a report that tell data sets apart.
Identity(pdu) == pdu.of.h.opt \intersect {"datSet", "confRev"}

ReceiveReport(c) ==
    /\ eng.chan[c] # << >>
    /\ LET pdu == Head(eng.chan[c])
           after == HandleReport(kept[c], pdu.elems)
           common == IF seen[c].common = None THEN Identity(pdu) ELSE seen[c].common \intersect Identity(pdu)
       IN /\ eng' = [eng EXCEPT !.chan[c] = Tail(@)]
          /\ kept' = [kept EXCEPT ![c] = after]
          /\ seen' = [seen EXCEPT ![c].last = pdu,
                                  ![c].common = IF after # kept[c] THEN common ELSE @,
                                  ![c].applied = IF after # kept[c] THEN pdu.of.ds ELSE @,
                                  ![c].whole = (@ \/ (pdu.first /\ pdu.of.sub = 0)) /\ after # kept[c]]
    /\ UNCHANGED << live, raised, alive, todo, asked, bound, sample >>

\* The receiving half of an association's channel is dropped with its task.
ConnectionDies(c) ==
    /\ c \in alive /\ bound.deaths > 0
    /\ alive' = alive \ {c}
    /\ bound' = [bound EXCEPT !.deaths = @ - 1]
    /\ eng' = [eng EXCEPT !.chan[c] = << >>]
    /\ todo' = [todo EXCEPT ![c] = << >>]
    /\ asked' = [asked EXCEPT ![c] = None]
    /\ kept' = [kept EXCEPT ![c] = None]
    /\ UNCHANGED << live, raised, seen, sample >>

\* The connection's cleanup releases what it held; a failed send may have done so before.
ConnectionReleased(c) ==
    /\ c \notin alive
    /\ eng' = OnConnectionDropped(eng, c)
    /\ eng' # eng
    /\ UNCHANGED << live, raised, alive, todo, asked, kept, seen, bound, sample >>

RpNext ==
    \/ StoreBatch \/ RaiseBatch \/ TickStep \/ BufferTimeEnds \/ IntegrityPeriodEnds
    \/ \E c \in RpConns : \/ SetRcbValues(c) \/ WriteField(c) \/ InstallHandler(c) \/ UninstallHandler(c)
                          \/ ReceiveReport(c) \/ ConnectionDies(c) \/ ConnectionReleased(c)

RpSpec == RpInit /\ [][RpNext]_rpVars
-----------------------------------------------------------------------------
(* Properties. *)

Pdus == UNION {Range(eng.chan[c]) : c \in RpConns} \union Range(sample)
        \union (IF eng.part = None THEN {} ELSE Range(eng.part.rest))

ElemLen(e) ==
    CASE e[1] = "text" -> TlvLen(Length[e[2]])
      [] e[1] = "optFlds" -> TlvLen(3)
      [] e[1] = "unsigned" -> UnsignedTlvLen(e[2])
      [] e[1] = "time" -> TlvLen(6)
      [] e[1] = "boolean" -> TlvLen(1)
      [] e[1] = "octets" -> TlvLen(8)
      [] e[1] = "inclusion" -> InclusionTlvLen(e[2].size)
      [] e[1] = "data" -> MemberValueLen(e[2])
      [] e[1] = "reason" -> TlvLen(2)

\* Every PDU has the size the encoder predicted when it chose what goes into
\* it, and no PDU is longer than the negotiated size (encode_pdus).
PduFits(p) ==
    /\ p.len <= p.max
    /\ p.len = ReportPduLen(SumFunction([i \in DOMAIN p.elems |-> ElemLen(p.elems[i])]))

\* However a report is cut into PDUs, each of them fits, and the client's parser
\* takes from it the header fields, the marks and, for each mark in order, the
\* member the encoder was given (encode_pdus, parse_report).
ParsedIsSent ==
    \A p \in Pdus :
        LET q == ParseReport(p.elems)
            h == p.of.h
            m == p.of.members
            carried(f, v) == IF f \in h.opt THEN v ELSE None
        IN /\ PduFits(p)
           /\ q # None
           /\ << q.rptId, q.sq, q.datSet, q.ovfl, q.entry, q.rev >> =
                << h.rptId, carried("seqNum", h.sq), carried("datSet", h.datSet), carried("bufOvfl", h.ovfl),
                   carried("entryId", h.entry), carried("confRev", h.rev) >>
           /\ p.of.segmented => q.seg = << p.of.sub, p.of.more >>
           /\ q.size = Len(p.of.ds) /\ Cardinality(q.marks) = Len(m)
           /\ \A k \in DOMAIN m :
                 /\ RankIn(q.marks, m[k].index) = k /\ m[k].index \in q.marks
                 /\ q.values[k] = m[k].value
                 /\ "dataRef" \in h.opt => q.refs[k] = m[k].ref
                 /\ "reason" \in h.opt => q.reasons[k] = m[k].reason

\* The PDUs an association has received last, will receive and is owed.
Stream(c) ==
    (IF seen[c].last = None THEN << >> ELSE << seen[c].last >>) \o eng.chan[c]
    \o (IF eng.part # None /\ eng.part.conn = c THEN eng.part.rest ELSE << >>)

\* A segment follows the segment before it of the same report, and a report is
\* broken off only by disabling the block or losing the association, however
\* full the channel was (push_segments, resume_partial).
SegmentsInOrder ==
    \A c \in alive :
        LET s == Stream(c)
        IN /\ \A i \in 1 .. Len(s) - 1 :
                 IF s[i + 1].of.sub > 0
                 THEN s[i].of.more /\ s[i].of.sub + 1 = s[i + 1].of.sub /\ s[i].of.h = s[i + 1].of.h
                 ELSE s[i].of.more => s[i + 1].first
           /\ s # << >> /\ Last(s).of.more /\ eng.blk.conn = c /\ eng.blk.ena => eng.first

\* Two reports that follow each other within one enabling differ in SqNum by one
\* more than the reports lost between them: a report too large to be encoded
\* leaves no gap, one the channel had no room for leaves one (flush_pending).
SequenceShowsLoss ==
    \A c \in alive :
        LET s == Stream(c)
        IN \A i \in 1 .. Len(s) :
              s[i].of.sub = 0 =>
                 /\ s[i].first => s[i].of.h.sq = s[i].lost % SqNums
                 /\ i > 1 /\ ~s[i].first => s[i].of.h.sq = (s[i - 1].of.h.sq + 1 + s[i].lost) % SqNums

\* What an association receives can be put together again: the segments of a
\* report follow each other, and SqNum shows every loss.
StreamInOrder == SegmentsInOrder /\ SequenceShowsLoss

\* A handler whose reports all carry the data set's name, or all carry ConfRev,
\* never holds values of two data sets side by side (apply_report).
NoMixing ==
    \A c \in RpConns :
        kept[c] # None /\ kept[c].size # None /\ seen[c].common \notin {None, {}} =>
            /\ Len(kept[c].values) = Len(seen[c].applied)
            /\ \A i \in DOMAIN kept[c].values : kept[c].values[i] # None => DOMAIN kept[c].values[i] = seen[c].applied[i]

\* What a client keeps of the reports is the server's: it never mixes two data
\* sets, and when nothing is left to raise, to send or to receive, a client that
\* has applied every report since it enabled the block holds, for every member
\* whose last trigger was sent, the server's current value of each attribute
\* whose changes trigger (on_values_updated_with, trigger_urcb_batch, tick_at).
QuietIsCurrent ==
    LET rcb == eng.blk
    IN /\ NoMixing
       /\ rcb.ena /\ raised = << >> /\ rcb.pend = None /\ eng.part = None /\ eng.chan[rcb.conn] = << >>
          /\ kept[rcb.conn] # None /\ seen[rcb.conn].whole =>
             \A i \in eng.fresh : \A x \in DataSetOf(rcb)[i] :
                 EnabledTriggers(x, rcb.trg) # {} => kept[rcb.conn].values[i][x] = live[x]

\* The handle decoded from the server's answer has the fields the block shows,
\* for an unbuffered block with or without Owner and for a buffered one with or
\* without ResvTms and Owner (update_values_urcb, update_values_brcb).
HandleReadsBlock ==
    LET rcb == eng.blk
        buffered == [f \in (DOMAIN rcb \ {"resv"}) \union {"purge", "entry", "time", "resvTms"} |->
                        IF f \in DOMAIN rcb THEN rcb[f] ELSE f]
        agrees(h, block, has) ==
            /\ h # None
            /\ \A f \in DOMAIN TypeOfField : f \in DOMAIN h => h[f] = FieldShown(block, f)
            /\ has \subseteq DOMAIN h
    IN /\ \A has \in SUBSET {"owner"} : agrees(UpdateValuesUrcb(BlockStructure(UrcbFieldOrder, rcb, has)), rcb, has)
       /\ \A has \in SUBSET {"owner", "resvTms"} :
             agrees(UpdateValuesBrcb(BlockStructure(BrcbFieldOrder, buffered, has)), buffered, has)

\* The client decodes what the server encoded, the reports and the block itself.
DecodedIsEncoded == ParsedIsSent /\ HandleReadsBlock

\* A SetRCBValues call that reserves the block and whose last write is accepted
\* leaves the block as the caller asked, a data set under its full name, whatever other clients wrote meanwhile
\* (build_write_sequence, set_rcb_values, handle_set_rcb_field).
FinishedIsConfigured ==
    [][\A c \in RpConns :
          todo[c] # << >> /\ todo'[c] = << >> /\ asked'[c] # None /\ "resv" \in asked[c].mask /\ asked[c].h.resv =>
             LET h == asked[c].h
             IN /\ eng'.blk.conn = c /\ eng'.blk.resv
                /\ \A f \in asked[c].mask \intersect Config :
                      eng'.blk[f] = CASE f = "opt" -> UrcbMask(h[f])
                                      [] f = "datSet" -> QualifiedDatSet(h[f])
                                      [] OTHER -> h[f]
                /\ "ena" \in asked[c].mask => eng'.blk.ena = h.ena]_rpVars
=============================================================================
