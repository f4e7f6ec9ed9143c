------------------------------- MODULE SvBus -------------------------------
(***************************************************************************)
(* Sampled values end to end (iec61850-sv): the builder that lays a frame   *)
(* out once, the publisher that patches the fields that change from sample  *)
(* to sample into that buffer, the periodic publishing loop, a network that *)
(* loses and repeats frames, and the receiver whose subscribers follow the  *)
(* sample counts of several streams.                                        *)
(***************************************************************************)
EXTENDS ProcessBusPdu, BusFrame, Integers

CONSTANTS SvIds, SvConfs,   \* the subscribers: [svId, app, dst, size, limit, max]
          SvFrameMax, SvComm, DestCheck, SvTransit,  \* frames under way at once
          CntMax,           \* u16::MAX, for the sample count
          Second, Period,   \* nanoseconds of a second, and between two frames
          SvDataSets, Samples, Times, Identities,  \* what the setters are called with
          SvScenarios       \* [asdus, options, sets, frames, loss, dup]

VARIABLES cfgs,   \* the builder's ASDUs
          sbuf,   \* the frame's octets after the Ethernet header; None before setup_complete()
          stmpl,  \* per ASDU the offsets of its variable fields and its count
          sval,   \* history: per ASDU the values the caller has set
          ssim,   \* the simulation bit of the header
          snet,   \* frames on their way: the values of their ASDUs
          ssub,   \* the subscribers: [conf, entries, missed, dups]
          slost,  \* history, per subscriber: what really was lost and repeated
          sloop,  \* the publishing loop: [next, now, ticks, stop]
          sleft   \* bounds

svVars == << cfgs, sbuf, stmpl, sval, ssim, snet, ssub, slost, sloop, sleft >>

-----------------------------------------------------------------------------
(* Octets.                                                                   *)

LengthOctets(n) ==
    IF n < SignBit THEN << n >>
    ELSE IF n < Base THEN << SignBit + 1, n >>
    ELSE << SignBit + 2, n \div Base, n % Base >>

RECURSIVE Octets(_)

\* A stream of TLVs as it is sent.
Octets(s) ==
    FlattenSeq([i \in DOMAIN s |->
        LET c == IF Constructed(s[i].t) THEN Octets(s[i].c) ELSE s[i].c
        IN  << s[i].t >> \o LengthOctets(Len(c)) \o c])

-----------------------------------------------------------------------------
(* The publisher's frame.                                                    *)

NewAsduConfig(svId, datSet, confRev, size) ==
    [svId |-> svId, datSet |-> datSet, confRev |-> confRev, size |-> size, refrTm |-> FALSE,
     rate |-> None, mod |-> None, gm |-> None, synch |-> << "notSynced" >>, limit |-> None]

TlvSize(n) == 1 + LengthSize(n) + n

ConfiguredContentsSize(c) ==
    LET with(v, n) == IF v THEN n ELSE 0
    IN  TlvSize(Len(Text(c.svId))) + with(c.datSet # None, TlvSize(Len(Text(c.datSet)))) + 4 + 6
        + with(c.refrTm, 10) + 3 + with(c.rate # None, 4) + TlvSize(c.size)
        + with(c.mod # None, 4) + with(c.gm # None, 10)

AsduSeqContents(cs) == FoldLeft(LAMBDA n, c : n + TlvSize(ConfiguredContentsSize(c)), 0, cs)

ComputePduSize(cs) == TlvSize(3 + TlvSize(AsduSeqContents(cs)))

Zeros(n) == [i \in 1 .. n |-> 0]

\* A fault: the sample is looked for behind a length of one octet.
SampleOffsetShort(at, size) == at + 2

SampleOffset(at, size) == at + 1 + LengthSize(size)

\* One ASDU appended to the octets b, with the offsets of its variable fields.
WriteAsdu(b, c) ==
    LET opt(v, o) == IF v THEN o ELSE << >>
        head  == b \o << 48 >> \o LengthOctets(ConfiguredContentsSize(c))
                 \o << 128 >> \o LengthOctets(Len(Text(c.svId))) \o Text(c.svId)
                 \o opt(c.datSet # None, << 129 >> \o LengthOctets(Len(Text(c.datSet))) \o Text(c.datSet))
        rev   == head \o << 130, 2, 0, 0 >> \o << 131, 4 >> \o BigEndian(c.confRev, 4)
        time  == rev \o opt(c.refrTm, << 132, 8 >> \o Zeros(8))
        synch == time \o << 133, 1, SmpSynchOctet(c.synch) >>
                 \o opt(c.rate # None, << 134, 2 >> \o BigEndian(c.rate, 2))
        smpl  == synch \o << 135 >> \o LengthOctets(c.size) \o Zeros(c.size)
        mod   == smpl \o opt(c.mod # None, << 136, 2 >> \o BigEndian(c.mod, 2))
    IN  [octets |-> mod \o opt(c.gm # None, << 137, 8 >> \o c.gm),
         tmpl   |-> [cntAt |-> Len(head) + 2, refrTmAt |-> IF c.refrTm THEN Len(rev) + 2 ELSE None,
                     synchAt |-> Len(time) + 2, sampleAt |-> SampleOffset(Len(synch), c.size),
                     size |-> c.size, gmAt |-> IF c.gm # None THEN Len(mod) + 2 ELSE None,
                     cnt |-> 0, limit |-> c.limit]]

WritePduToBuffer(cs) ==
    LET seq  == AsduSeqContents(cs)
        head == << 96 >> \o LengthOctets(3 + TlvSize(seq)) \o << 128, 1, Len(cs) >>
                \o << 162 >> \o LengthOctets(seq)
    IN  FoldLeft(LAMBDA w, c : LET asdu == WriteAsdu(w.octets, c)
                               IN  [octets |-> asdu.octets, tmpls |-> Append(w.tmpls, asdu.tmpl)],
                 [octets |-> head, tmpls |-> << >>], cs)

\* The octets from offset at on replaced.
Patch(b, at, new) == [i \in DOMAIN b |-> IF i - at \in DOMAIN new THEN new[i - at] ELSE b[i]]

\* The values a frame carries after setup_complete().
InitialValues(cs) ==
    [i \in DOMAIN cs |->
        [svId |-> cs[i].svId, datSet |-> cs[i].datSet, smpCnt |-> 0, confRev |-> cs[i].confRev,
         refrTm |-> IF cs[i].refrTm THEN Zeros(8) ELSE None, synch |-> cs[i].synch, rate |-> cs[i].rate,
         sample |-> Zeros(cs[i].size), mod |-> IF cs[i].mod = None THEN None ELSE SmpModOf(cs[i].mod),
         gm |-> cs[i].gm]]

NextSmpCnt(t) == IF t.limit = None THEN (t.cnt + 1) % (CntMax + 1) ELSE (t.cnt + 1) % t.limit

-----------------------------------------------------------------------------
(* The subscriber.                                                           *)

\* The count at which the stream wraps, when the stream says so.
AnnouncedLimit(a) ==
    IF a.mod = << "samplesPerSecond" >> /\ a.rate # None /\ a.rate # 0 THEN a.rate ELSE None

WrappingGap(prev, cur) == (cur - (prev + 1)) % (CntMax + 1)

\* A fault: the count is taken to wrap where its type does.
SmpCntGapOfType(prev, cur, limit) == WrappingGap(prev, cur)

SmpCntGap(prev, cur, limit) ==
    IF limit = None THEN IF cur < prev THEN cur ELSE WrappingGap(prev, cur)
    ELSE IF prev < limit /\ cur < limit THEN ((cur + limit) - ((prev + 1) % limit)) % limit
    ELSE WrappingGap(prev, cur)

\* The entries, the one heard from least recently first.
Entry(entries, svId) == {i \in DOMAIN entries : entries[i].svId = svId}

Swap(entries, svId, cnt, max) ==
    LET others == SelectSeq(entries, LAMBDA e : e.svId # svId)
        room   == IF Entry(entries, svId) = {} /\ Len(entries) >= max THEN Tail(entries) ELSE others
    IN  Append(room, [svId |-> svId, cnt |-> cnt])

SvMatches(conf, h, a) ==
    /\ conf.app \in {None, h.app}
    /\ conf.dst \in {None, h.dst}
    /\ conf.svId \in {None, a.svId}

\* dispatch() of one ASDU.
SvDispatch(sub, a) ==
    LET at    == Entry(sub.entries, a.svId)
        prev  == IF at = {} THEN None ELSE sub.entries[Max(at)].cnt
        limit == IF sub.conf.limit # None THEN sub.conf.limit ELSE AnnouncedLimit(a)
        same  == prev = a.smpCnt
    IN  IF sub.conf.size # None /\ sub.conf.size # Len(a.sample) THEN sub
        ELSE [sub EXCEPT !.entries = Swap(@, a.svId, a.smpCnt, sub.conf.max),
                         !.dups = @ + (IF same THEN 1 ELSE 0),
                         !.missed = @ + (IF same \/ prev = None THEN 0 ELSE SmpCntGap(prev, a.smpCnt, limit))]

\* The receiver's tick(): one frame, ASDU by ASDU.  With the address check a
\* frame no subscriber names the destination of is not looked at.
SvTick(subs, f) ==
    LET h    == DecodeSvFrame(f)
        drop == h = BadFrame \/ (DestCheck /\ \A i \in DOMAIN subs : subs[i].conf.dst # h.dst)
    IN  IF drop THEN subs
        ELSE [i \in DOMAIN subs |->
                 FoldLeft(LAMBDA s, a : IF SvMatches(s.conf, h, a) THEN SvDispatch(s, a) ELSE s,
                          subs[i], f.pdu)]

-----------------------------------------------------------------------------

\* build(): a limit of 0 is none, and at least one stream is followed.
NewSvSubscriber(conf) ==
    [conf    |-> [conf EXCEPT !.limit = IF @ = 0 THEN None ELSE @, !.max = IF @ = 0 THEN 1 ELSE @],
     entries |-> << >>, missed |-> 0, dups |-> 0]

SvInit ==
    /\ sleft \in SvScenarios
    /\ cfgs = sleft.asdus
    /\ sbuf = None /\ stmpl = << >> /\ sval = << >> /\ ssim = FALSE /\ snet = << >>
    /\ ssub = [i \in DOMAIN SvConfs |-> NewSvSubscriber(SvConfs[i])]
    /\ slost = [i \in DOMAIN SvConfs |-> [gap |-> [v \in SvIds |-> None], missed |-> 0, dups |-> 0]]
    /\ sloop = [next |-> [sec |-> 0, nsec |-> 0], now |-> 0, ticks |-> 0, stop |-> FALSE]

SvSpend(what) == sleft[what] > 0 /\ sleft' = [sleft EXCEPT ![what] = @ - 1]

\* add_asdu(): at most MaxAsdus of them.
AddAsdu(svId, datSet, size) ==
    /\ sbuf = None /\ Len(cfgs) < MaxAsdus /\ SvSpend("options")
    /\ cfgs' = Append(cfgs, NewAsduConfig(svId, datSet, 1, size))
    /\ UNCHANGED << sbuf, stmpl, sval, ssim, snet, ssub, slost, sloop >>

\* enable_refr_tm(), set_smp_rate(), set_smp_mod(), set_gm_identity(),
\* set_initial_smp_synch(), set_smp_cnt_limit().
Configure(i, field, v) ==
    /\ sbuf = None /\ SvSpend("options")
    /\ cfgs' = [cfgs EXCEPT ![i][field] = v]
    /\ UNCHANGED << sbuf, stmpl, sval, ssim, snet, ssub, slost, sloop >>

SetupComplete ==
    /\ sbuf = None /\ cfgs # << >>
    /\ EthernetHeader(SvComm.vlan) + PduHeaderSize + ComputePduSize(cfgs) <= SvFrameMax
    /\ sbuf' = WritePduToBuffer(cfgs).octets
    /\ stmpl' = WritePduToBuffer(cfgs).tmpls
    /\ sval' = InitialValues(cfgs)
    /\ UNCHANGED << cfgs, ssim, snet, ssub, slost, sloop, sleft >>

SetField(i, at, new, field, v) ==
    /\ sbuf # None /\ SvSpend("sets")
    /\ sbuf' = Patch(sbuf, at, new)
    /\ sval' = [sval EXCEPT ![i][field] = v]
    /\ UNCHANGED << cfgs, ssim, snet, ssub, slost, sloop >>

SetSample(i, data) ==
    /\ Len(data) = stmpl[i].size
    /\ SetField(i, stmpl[i].sampleAt, data, "sample", data) /\ UNCHANGED stmpl

SetSmpSynch(i, s) ==
    SetField(i, stmpl[i].synchAt, << SmpSynchOctet(s) >>, "synch", s) /\ UNCHANGED stmpl

SetRefrTm(i, t) ==
    /\ stmpl[i].refrTmAt # None
    /\ SetField(i, stmpl[i].refrTmAt, t, "refrTm", t) /\ UNCHANGED stmpl

SetGmIdentity(i, g) ==
    /\ stmpl[i].gmAt # None
    /\ SetField(i, stmpl[i].gmAt, g, "gm", g) /\ UNCHANGED stmpl

SetSmpCnt(i, n) ==
    /\ SetField(i, stmpl[i].cntAt, BigEndian(n, 2), "smpCnt", n)
    /\ stmpl' = [stmpl EXCEPT ![i].cnt = n]

SetSimulate(b) ==
    /\ sbuf # None /\ SvSpend("sets")
    /\ ssim' = b
    /\ UNCHANGED << cfgs, sbuf, stmpl, sval, snet, ssub, slost, sloop >>

-----------------------------------------------------------------------------
(* The loop calls the application's on_tick(), which numbers the samples of  *)
(* the first frame, publishes, and counts every ASDU on by as many samples   *)
(* as the frame holds of its stream.                                         *)

SameStream(i) == {j \in DOMAIN stmpl : sval[j].svId = sval[i].svId}

Number(i) == IF sloop.ticks > 0 THEN stmpl[i].cnt ELSE Cardinality({j \in SameStream(i) : j < i})

CountOn(i) ==
    FoldLeft(LAMBDA t, n : [t EXCEPT !.cnt = NextSmpCnt(t)], [stmpl[i] EXCEPT !.cnt = Number(i)],
             [n \in 1 .. Cardinality(SameStream(i)) |-> n])

TimespecAdd(ts, ns) ==
    LET total == ts.nsec + ns
    IN  [sec |-> ts.sec + total \div Second, nsec |-> total % Second]

LoopDue == sloop.next.sec * Second + sloop.next.nsec <= sloop.now

OnTick ==
    LET sent    == [i \in DOMAIN sval |-> [sval[i] EXCEPT !.smpCnt = Number(i)]]
        counted == [i \in DOMAIN stmpl |-> CountOn(i)]
    IN  /\ sbuf # None /\ ~sloop.stop /\ LoopDue /\ SvSpend("frames") /\ Len(snet) < SvTransit
        /\ snet' = Append(snet, [f |-> EncodeSvFrame(SvComm, ssim, sent, Len(sbuf)), copy |-> FALSE])
        /\ stmpl' = counted
        /\ sval' = [i \in DOMAIN sval |-> [sval[i] EXCEPT !.smpCnt = counted[i].cnt]]
        /\ sbuf' = FoldLeft(LAMBDA b, i : Patch(b, counted[i].cntAt, BigEndian(counted[i].cnt, 2)), sbuf,
                            [i \in DOMAIN stmpl |-> i])
        /\ sloop' = [sloop EXCEPT !.next = TimespecAdd(@, Period), !.ticks = @ + 1]
        /\ UNCHANGED << cfgs, ssim, ssub, slost >>

StopLoop ==
    /\ ~sloop.stop /\ SvSpend("sets")
    /\ sloop' = [sloop EXCEPT !.stop = TRUE]
    /\ UNCHANGED << cfgs, sbuf, stmpl, sval, ssim, snet, ssub, slost >>

TimePasses ==
    /\ sloop.now < Period * (sloop.ticks + 1)
    /\ sloop' = [sloop EXCEPT !.now = @ + 1]
    /\ UNCHANGED << cfgs, sbuf, stmpl, sval, ssim, snet, ssub, slost, sleft >>

-----------------------------------------------------------------------------

\* The samples of a frame that are of concern to a subscriber.
Subscribed(conf, f) ==
    IF DestCheck /\ \A i \in DOMAIN SvConfs : SvConfs[i].dst # f.dst THEN << >>
    ELSE SelectSeq(f.pdu, LAMBDA a : SvMatches(conf, f, a) /\ conf.size \in {None, Len(a.sample)})

\* What they add to its history: counting starts with the first sample heard
\* of a stream.
Ledger(h, samples, arrived, copy) ==
    FoldLeft(LAMBDA l, a :
        IF copy THEN [l EXCEPT !.dups = @ + 1]
        ELSE IF ~arrived THEN [l EXCEPT !.gap[a.svId] = IF @ = None THEN None ELSE @ + 1]
        ELSE [l EXCEPT !.missed = @ + (IF l.gap[a.svId] = None THEN 0 ELSE l.gap[a.svId]),
                       !.gap[a.svId] = 0],
        h, samples)

Ledgers(x, arrived) ==
    [i \in DOMAIN slost |-> Ledger(slost[i], Subscribed(ssub[i].conf, x.f), arrived, x.copy)]

SvDeliver(again) ==
    LET x == Head(snet)
    IN  /\ snet # << >>
        /\ ssub' = SvTick(ssub, x.f)
        /\ slost' = Ledgers(x, TRUE)
        /\ snet' = IF again THEN << [x EXCEPT !.copy = TRUE] >> \o Tail(snet) ELSE Tail(snet)
        /\ IF again THEN ~x.copy /\ SvSpend("dup") ELSE UNCHANGED sleft
        /\ UNCHANGED << cfgs, sbuf, stmpl, sval, ssim, sloop >>

SvLose ==
    LET x == Head(snet)
    IN  /\ snet # << >> /\ ~x.copy /\ SvSpend("loss")
        /\ slost' = Ledgers(x, FALSE)
        /\ snet' = Tail(snet)
        /\ UNCHANGED << cfgs, sbuf, stmpl, sval, ssim, ssub, sloop >>

SvBuild ==
    \/ \E v \in SvIds, d \in SvDataSets : \E n \in {Len(x) : x \in Samples} : AddAsdu(v, d, n)
    \/ \E i \in DOMAIN cfgs :
          \/ Configure(i, "refrTm", TRUE) \/ Configure(i, "rate", CntMax) \/ Configure(i, "mod", 1)
          \/ Configure(i, "synch", << "globalClock" >>) \/ Configure(i, "limit", 2)
          \/ \E g \in Identities : Configure(i, "gm", g)
    \/ SetupComplete

SvSet ==
    \E i \in DOMAIN stmpl :
        \/ \E d \in Samples : SetSample(i, d)
        \/ SetSmpSynch(i, << "localIdentified", 5 >>)
        \/ \E t \in Times : SetRefrTm(i, t)
        \/ \E g \in Identities : SetGmIdentity(i, g)
        \/ sleft.frames = 0 /\ SetSmpCnt(i, CntMax)

SvNext ==
    \/ SvBuild \/ SvSet \/ \E b \in BOOLEAN : SetSimulate(b)
    \/ OnTick \/ StopLoop \/ TimePasses
    \/ \E again \in BOOLEAN : SvDeliver(again)
    \/ SvLose

-----------------------------------------------------------------------------
(* Properties.                                                               *)

\* The patched buffer is at every moment what encode_sav_pdu() makes of the
\* values the caller has set: the offsets computed with the layout point at
\* the right fields whatever options, lengths and numbers of ASDUs there are.
BufferIsEncoding == sbuf # None => sbuf = Octets(EncodeSavPdu(sval))

\* Where every stream wraps is configured, or sent with the samples.
KnowsWrap(conf) ==
    \A i \in DOMAIN cfgs :
        cfgs[i].limit # None /\ cfgs[i].limit = (IF conf.limit # None THEN conf.limit
                                                ELSE IF cfgs[i].mod = 1 THEN cfgs[i].rate ELSE None)

\* The counts a subscriber reports are those of what really was lost and
\* repeated, through wraps of the count and for every stream it follows: a
\* frame that arrives twice is no gap, and a subscriber that does not know where
\* its stream wraps never reports more than was lost.
CountsAreExact ==
    \A i \in DOMAIN ssub :
        /\ ssub[i].missed <= slost[i].missed
        /\ ssub[i].conf.max >= Cardinality(SvIds) =>
               /\ KnowsWrap(ssub[i].conf) => ssub[i].missed = slost[i].missed
               /\ ssub[i].dups = slost[i].dups

=============================================================================
