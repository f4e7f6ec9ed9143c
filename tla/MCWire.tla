------------------------------- MODULE MCWire -------------------------------
(* The codecs, the sampled values and the reports, one at a time; the other *)
(* parts are idle.                                                          *)
(* Messages for the codecs: every service, every variant of every choice,   *)
(* integers around the boundaries of their widths, selectors and data at    *)
(* and one level beyond the nesting bound.                                  *)
EXTENDS Wire, SvBus, Reports, TLC

CONSTANTS a, b, set, long, c1, c2

msgs(kind, bodies) == {[kind |-> kind, id |-> 1, cap |-> None, body |-> m] : m \in bodies}

vmd == << "vmd", a >>
dom == << "domain", a, b >>
aas == << "aa", b >>
Names == << vmd, dom, aas, << "domain", Empty, b >> >>

alts == << << "index", 3 >>, << "index", U32 - 1 >>, << "component", a, None >>,
           << "component", a, << "component", b, None >> >>,
           << "component", a, << "index", 2 >> >>,
           << "component", a, << "component", b, << "index", 2 >> >> >>,
           << "component", a, << "component", b, << "component", a, << "index", 2 >> >> >> >>,
           << "indexComponent", 1, << a >> >>, << "indexComponent", 1, << a, b >> >>,
           << "indexComponent", 1, << a, b, a >> >> >>

entry(n, alt) == [name |-> n, alt |-> alt]

Specs == {<< "list", << entry(Names[i], None) >> >> : i \in DOMAIN Names}
    \union {<< "list", << entry(dom, None), entry(dom, alts[i]) >> >> : i \in DOMAIN alts}
    \union {<< "list", << >> >>, << "name", dom >>, << "name", vmd >>}

Data == << << "bool", TRUE >>, << "int", -1 >>, << "int", SignBit >>, << "int", -SignBit - 1 >>,
           << "uint", U32 - 1 >>, << "uint", Base - 1 >>, << "visible", a >>, << "mmsString", Empty >>,
           << "bits", 3, << 8, 24 >> >>, << "boolArray", 0, << >> >>, << "octets", << >> >>,
           << "float", << 1, 2, 3, 4 >> >>, << "float", << 1, 2, 3, 4, 5, 6, 7, 8 >> >>,
           << "genTime", b >>, << "binTime", << 1, 2, 3, 4 >> >>,
           << "utcTime", << 1, 2, 3, 4, 5, 6, 7, 8 >> >> >>

nest(d) == << "struct", << << "bool", FALSE >>, d >> >>

Deep == << nest(Data[1]), << "array", << nest(Data[2]) >> >>, << "array", << nest(nest(Data[2])) >> >>,
           << "struct", << >> >>, << "array", << << "array", << << "array", << >> >> >> >> >> >> >>

AllData == Data \o Deep

Types == << << "bool" >>, << "utcTime" >>, << "bits", -3 >>, << "octets", SignBit >>, << "visible", 7 >>,
            << "mmsString", Base >>, << "int", 8 >>, << "uint", 16 >>, << "float", 8, 24 >>,
            << "binTime", TRUE >>, << "array", U32 - 1, << "bool" >> >>, << "struct", << >> >>,
            << "struct", << [name |-> a, type |-> << "int", 8 >>],
                            [name |-> b, type |-> << "array", 2, << "visible", 7 >> >>] >> >>,
            << "array", 1, << "array", 1, << "bool" >> >> >>, << "unknown", 158 >> >>

Errors == {[class |-> 0, code |-> 1, info |-> None, text |-> None, deleted |-> None],
           [class |-> 12, code |-> SignBit, info |-> -1, text |-> a, deleted |-> None],
           [class |-> 7, code |-> 2, info |-> SignBit, text |-> Empty, deleted |-> U32 - 1]}

id8 == << 0, 1, 2, 3, 4, 5, 6, 7 >>

Initiates == {[size |-> s, calling |-> 1, called |-> SignBit, level |-> l,
               detail |-> [version |-> v, cbb |-> << 5, 1, 0 >>, services |-> DefaultDetail.services]] :
                 s \in {None, SignBit, U32 - 1}, l \in {None, MaxLevel}, v \in {1, Base + 2}}

Client(size, calling, auth) ==
    [sSel |-> [calling |-> DefaultSelector, called |-> << 0, 2 >>],
     pSel |-> [calling |-> << 0, 0, 0, 1 >>, called |-> << >>],
     addressing |-> [calledTitle |-> << 1, 1, SignBit >>, calledQualifier |-> None,
                     callingTitle |-> None, callingQualifier |-> -SignBit - 1],
     auth |-> auth, size |-> size, calling |-> calling]

Password == << "password", << 1, 2, 3 >> >>
LongPassword == << "password", [i \in 1 .. 20 |-> i] >>
Mechanism(oid, v) == << "other", oid, v >>

Clients == {Client(s, c, << "none" >>) : s \in {None, MinPduSize - 1, MinPduSize, MaxPduSize + 1},
                                         c \in {None, 0, 1, MaxOutstanding + 1}}
    \union {Client(None, None, x) :
               x \in {Password, LongPassword, << "password", << >> >>, << "certificate" >>,
                      Mechanism(<< >>, << >>), Mechanism(<< 1 >>, T(129, << 7 >>)),
                      Mechanism(PasswordMechanism, T(129, << 7 >>)), Mechanism(<< >>, T(128, << 7 >>))}}

Servers == {[decision |-> d, services |-> DefaultDetail.services] : 
              d \in {None, << "accept" >>, << "reject", 1 >>, << "reject", 3 >>, << "reject", 13 >>}}

acseCtx(id) == ContextItem(id, AcseSyntax, BerSyntax)
mmsCtx(id) == ContextItem(id, MmsSyntax, BerSyntax)
foreign == << 2, 6, 1 >>

\* Proposals of other implementations.
Proposals == {<< OwnContexts, TRUE >>, << mmsCtx(5) \o acseCtx(7), TRUE >>,
              << acseCtx(1) \o ContextItem(2, foreign, BerSyntax) \o mmsCtx(3), TRUE >>,
              << acseCtx(1) \o ContextItem(2, MmsSyntax, foreign) \o mmsCtx(3), TRUE >>,
              << acseCtx(1) \o ContextItem(3, MmsSyntax, foreign), FALSE >>,
              << acseCtx(1), FALSE >>, << << >>, FALSE >>}

SetUps == {[client |-> c, server |-> v, contexts |-> OwnContexts, usable |-> TRUE] :
              c \in Clients, v \in {[decision |-> None, services |-> DefaultDetail.services]}}
    \union {[client |-> Client(None, None, Password), server |-> v, contexts |-> x[1], usable |-> x[2]] :
              v \in Servers, x \in Proposals}

time == << 1, 2, 3, 4, 5, 6, 7, 31 >>

Goose(data) ==
    {[gocbRef |-> a, ttl |-> x, datSet |-> b, goId |-> Empty, t |-> time, st |-> U32 - 1 - x \div 2, sq |-> x,
      sim |-> f, confRev |-> U32 \div 2, ndsCom |-> ~f, entries |-> Len(data), data |-> data] :
        x \in {0, U32 - 1}, f \in BOOLEAN}

GooseData == << Data[1], Data[2], Data[3], Data[4], Data[5], Data[6], Data[7], Data[8], Data[9],
                Data[11], Data[12], Data[13], Data[15], Data[16],
                << "bits", 0, << >> >> >> \o SubSeq(Deep, 1, 4)

Asdu(f, synch, mod) ==
    [svId |-> a, datSet |-> IF f THEN b ELSE None, smpCnt |-> U16 - 1, confRev |-> U32 - 1,
     refrTm |-> IF f THEN time ELSE None, synch |-> SmpSynchOf(synch), rate |-> IF f THEN U16 - 1 ELSE None,
     sample |-> [i \in 1 .. synch |-> i % Base], mod |-> IF f THEN SmpModOf(mod) ELSE None,
     gm |-> IF f THEN id8 ELSE None]

MCMessages ==
    msgs("goose", UNION {Goose(<< GooseData[i], GooseData[1] >>) : i \in DOMAIN GooseData} \union Goose(<< >>))
    \union msgs("sv", {<< Asdu(f, s, m) >> : f \in BOOLEAN, s \in {0, 1, 2, 3, 5, 30, 31}, m \in 0 .. 3}
                       \union {[i \in 1 .. n |-> Asdu(i = 1, i, 1)] : n \in 0 .. MaxAsdus})
    \union
    msgs("connect", SetUps)
    \union msgs("answer", {x \in SetUps : x.contexts = OwnContexts})
    \union msgs("tsdu", {<< "finish", TRUE >>, << "disconnect", TRUE >>, << "abort" >>,
                         << "refuse", 1 >>, << "refuse", 0 >>}
                        \union {<< "data", p >> : p \in
                                   {<< "concludeRequest" >>, << "concludeResponse" >>,
                                    << "reject", [id |-> 1, type |-> 1, reason |-> 4] >>}})
    \union
    msgs("readRequest", [withSpec : BOOLEAN, vas : Specs])
    \union {[kind |-> "readRequest", id |-> i, cap |-> k, body |-> [withSpec |-> FALSE, vas |-> v]] :
               i \in {0, Base, U32 \div 2 - 1}, k \in {None, 0, 1, 2, 5},
               v \in {<< "list", << entry(dom, alts[i]) >> >> : i \in {6, 7, 9}}}
    \union {[kind |-> x[1], id |-> i, cap |-> None, body |-> x[2]] : i \in {U32 \div 2 - 1, U32 \div 2}, x \in
               {<< "readRequest", [withSpec |-> TRUE, vas |-> << "name", dom >>] >>,
                << "writeRequest", [vas |-> << "name", dom >>, data |-> << >>] >>,
                << "nameListRequest", [class |-> 0, scope |-> << "vmd" >>, after |-> None] >>,
                << "varAttrsRequest", vmd >>, << "nvlAttrsRequest", vmd >>,
                << "defineRequest", [name |-> vmd, list |-> << >>] >>,
                << "deleteRequest", [scope |-> 3, names |-> << >>, domain |-> None] >>,
                << "readResponse", [vas |-> None, results |-> << >>] >>, << "writeResponse", << >> >>,
                << "nameListResponse", [names |-> << >>, more |-> FALSE] >>,
                << "varAttrsResponse", [deletable |-> TRUE, type |-> << "bool" >>] >>,
                << "nvlAttrsResponse", [deletable |-> TRUE, list |-> << >>] >>,
                << "defineResponse", "defined" >>, << "deleteResponse", [matched |-> 0, deleted |-> 0] >>}}
    \union msgs("readResponse",
                {[vas |-> None, results |-> << << "success", AllData[i] >>, << "failure", i % 12 >> >>] :
                    i \in DOMAIN AllData}
                \union {[vas |-> v, results |-> << >>] : v \in Specs})
    \union {[kind |-> "writeRequest", id |-> 1, cap |-> k,
             body |-> [vas |-> << "list", << entry(dom, None) >> >>, data |-> << AllData[i] >>]] :
               k \in {None, 1}, i \in DOMAIN AllData}
    \union msgs("writeRequest", {[vas |-> << "name", dom >>, data |-> SubSeq(Data, 1, i)] : i \in 0 .. MaxItems})
    \union msgs("writeResponse", {<< << "success" >>, << "failure", 11 >> >>, << >>})
    \union msgs("nameListRequest", [class : ObjectClasses, scope : {<< "vmd" >>}, after : {b}]
                                   \union [class : {0, 2}, scope : {<< "domain", a >>, << "aa" >>},
                                           after : {None, Empty}])
    \union msgs("nameListResponse", [names : {<< >>, << a, b >>}, more : BOOLEAN])
    \union msgs("varAttrsRequest", Range(Names))
    \union msgs("varAttrsResponse", {[deletable |-> TRUE, type |-> Types[i]] : i \in DOMAIN Types})
    \union msgs("nvlAttrsRequest", Range(Names))
    \union msgs("nvlAttrsResponse", {[deletable |-> FALSE, list |-> << entry(vmd, None), entry(dom, alts[i]) >>] :
                                        i \in {1, 4, 8}})
    \union msgs("defineRequest", {[name |-> aas, list |-> << entry(dom, None), entry(dom, alts[i]) >>] :
                                     i \in {1, 4, 8}}
                                 \union {[name |-> vmd, list |-> [i \in 1 .. n |-> entry(dom, None)]] :
                                           n \in {0, MaxItems, MaxItems + 1}})
    \union msgs("defineResponse", {"defined"})
    \union msgs("deleteRequest", [scope : {0, 3}, names : {<< >>, << dom, aas >>}, domain : {None, a}])
    \union msgs("deleteResponse", [matched : {0, U32 \div 2 - 1, U32 \div 2}, deleted : {SignBit, U32 - 1}])
    \union {[kind |-> "identifyRequest", id |-> i, cap |-> None, body |-> "identify"] : i \in {0, U32 - 1}}
    \union msgs("identifyResponse", [vendor : {a}, model : {b}, revision : {Empty},
                                     syntaxes : {<< >>, << << 1, 39 >>, << 1, 40 >>, << 2, 100, U32 - 1 >> >>}])
    \union {[kind |-> "statusRequest", id |-> i, cap |-> None, body |-> TRUE] : i \in {0, U32 - 1}}
    \union msgs("statusResponse", [logical : {0, -1}, physical : {SignBit},
                                   detail : {None, << >>, << TRUE, FALSE, TRUE, TRUE, FALSE, TRUE >>,
                                             [i \in 1 .. MaxDetailBits + 1 |-> TRUE]}])
    \union msgs("journalRequest",
                [domain : {a}, item : {b}, start : {None, << "time", Epoch1984 + 25 >>, << "entry", id8 >>},
                 stop : {None, << "time", MaxTime >>, << "count", 0 >>, << "count", U32 \div 2 - 1 >>},
                 variables : {<< >>}, after : {None}]
                \union [domain : {a, long}, item : {long, b}, start : {<< "time", 0 >>},
                        stop : {<< "time", MaxTime + 1 >>, << "count", U32 \div 2 >>}, variables : {<< >>},
                        after : {[time |-> Epoch1984 - 1, entry |-> id8]}]
                \union [domain : {a}, item : {b}, start : {None, << "entry", id8 >>}, stop : {<< "count", 0 >>},
                        variables : {<< a, b >>}, after : {None, [time |-> Epoch1984, entry |-> id8]}])
    \union msgs("journalResponse",
                [entries : {<< >>,
                            << [id |-> id8, time |-> Epoch1984 + 1,
                                variables |-> << [ref |-> a, value |-> Data[2], reason |-> 0],
                                                 [ref |-> b, value |-> Data[7], reason |-> SignBit + 5] >>],
                               [id |-> id8, time |-> MaxTime + DayMs, variables |-> << >>] >>},
                 more : {None, TRUE, FALSE}])
    \union {[kind |-> "error", id |-> i, cap |-> None, body |-> e] : i \in {0, U32 - 1}, e \in Errors}
    \union msgs("report", {<< >>, << [name |-> vmd, value |-> Data[1]], [name |-> dom, value |-> Deep[2]] >>})
    \union msgs("termination+", {[domain |-> a, item |-> b, oper |-> Deep[1]]})
    \union msgs("termination-", {[domain |-> a, item |-> b, oper |-> Deep[1],
                                  error |-> [ctlObj |-> a, error |-> 1, orCat |-> 3, orIdent |-> << 1 >>,
                                             ctlNum |-> 31, addCause |-> 0]]})
    \union msgs("pdu", {<< "concludeRequest" >>, << "concludeResponse" >>}
                       \union {<< "initiateRequest", i >> : i \in Initiates}
                       \union {<< "initiateResponse", i >> : i \in Initiates}
                       \union {<< "initiateError", e >> : e \in Errors}
                       \union {<< "reject", [id |-> 0, type |-> t, reason |-> 0] >> : t \in 1 .. 11}
                       \union {<< "reject", [id |-> i, type |-> 1, reason |-> 0] >> : i \in {None, U32 - 1}}
                       \union {<< "reject", [id |-> 1, type |-> 1, reason |-> r] >> : r \in {1, 4, 9}})

-----------------------------------------------------------------------------
(* Sampled values. *)

SvAsdu(v, size, limit, mod) == [NewAsduConfig(v, None, 1, size) EXCEPT !.limit = limit, !.mod = mod,
                        !.rate = IF mod = 1 THEN limit ELSE None]
SvScenario(asdus, o, s, f, l, u) == [asdus |-> asdus, options |-> o, sets |-> s, frames |-> f, loss |-> l, dup |-> u]
MCSvScenarios == {
  SvScenario(<< >>, 3, 1, 0, 0, 0),
  SvScenario(<< [SvAsdu(a, 3, None, None) EXCEPT !.refrTm = TRUE, !.gm = Zeros(8)] >>, 2, 2, 0, 0, 0),
  SvScenario(<< SvAsdu(a, 3, 6, None) >>, 0, 1, 7, 2, 1),
  SvScenario(<< SvAsdu(a, 3, 6, 1) >>, 0, 0, 7, 2, 1),
  SvScenario(<< SvAsdu(a, 3, 6, 1), [SvAsdu(a, 3, 6, 1) EXCEPT !.svId = a] >>, 0, 0, 7, 2, 0),
  SvScenario(<< SvAsdu(a, 3, 6, 1), SvAsdu(b, 3, 6, 1) >>, 0, 0, 7, 2, 0) }
MCSvConfs == << [svId |-> None, app |-> 1, dst |-> 1, size |-> None, limit |-> None, max |-> 2],
                [svId |-> a, app |-> None, dst |-> None, size |-> 3, limit |-> 6, max |-> 0],
                [svId |-> None, app |-> None, dst |-> 1, size |-> None, limit |-> 0, max |-> 1],
                [svId |-> b, app |-> 1, dst |-> 2, size |-> 17, limit |-> None, max |-> 1] >>
MCSvComm == [dst |-> 1, vlan |-> NoVlan, app |-> 1]
MCSamples == {<< 1, 2, 3 >>, [i \in 1 .. 17 |-> i], [i \in 1 .. 40 |-> 7] }
MCTimes == {<< 1, 2, 3, 4, 5, 6, 7, 8 >>}

-----------------------------------------------------------------------------
(* Reports. *)

MCRpDataSets == [d1 |-> << {"x"}, {"x", "q", "t"}, {"y"} >>, d2 |-> << {"y"}, {"x"}, {"q"} >>,
                 d3 |-> << {"x"}, {"w"} >>, d4 |-> << {"x", "q"} >>]
MCUnqualified == [s2 |-> "d2"]
MCReasonOf == [x |-> "dchg", q |-> "qchg", y |-> "dupd", t |-> None, w |-> "dchg"]
MCValueLen == [x |-> 4, q |-> 50, y |-> 40, t |-> 10, w |-> 100]
MCLength == [rpt |-> 8, longRpt |-> 129, d1 |-> 20, d2 |-> 20, d3 |-> 127, d4 |-> 130,
             rx |-> 10, rxqt |-> 9, ry |-> 10, rq |-> 10, rw |-> 128, rxq |-> 9]
MCReference == {"x"} :> "rx" @@ {"x", "q", "t"} :> "rxqt" @@ {"y"} :> "ry" @@ {"q"} :> "rq" @@ {"w"} :> "rw"
               @@ {"x", "q"} :> "rxq"

AllTriggers == {"dchg", "qchg", "dupd", "integrity", "gi"}
AllOptions == {"seqNum", "time", "datSet", "bufOvfl", "entryId", "confRev", "segmentation", "dataRef", "reason"}

Call(mask, ena, datSet, opt) ==
    [buffered |-> FALSE, mask |-> mask,
     h |-> [resv |-> TRUE, ena |-> ena, gi |-> TRUE, rptId |-> "rpt", datSet |-> datSet, opt |-> opt, bufTm |-> 0,
            trg |-> AllTriggers, intg |-> 1, rev |-> 9]]
Enable(gi) == Call({"resv", "ena"} \union (IF gi THEN {"gi"} ELSE {}), TRUE, "d1", {})
Handler(rptId, size) == [rptId |-> rptId, expected |-> size]

Idle == [rptId |-> "rpt", datSet |-> "d1", opt |-> {"seqNum", "datSet", "confRev"}, bufTm |-> 0, trg |-> AllTriggers,
         intg |-> 1, max |-> 135, batches |-> 0, sets |-> {}, periods |-> 0, uninstalls |-> 0, deaths |-> 0,
         calls |-> [c \in RpConns |-> {}], installs |-> [c \in RpConns |-> {}], samples |-> {<< >>}]

For(c, x) == [d \in RpConns |-> IF d = c THEN x ELSE {}]

\* Trial encodings with the header fields of both kinds of block.
Trial(opt, d, kind, marks, max) ==
    EncodePdus([rptId |-> "rpt", opt |-> opt, sq |-> 130, datSet |-> d, rev |-> 127, ovfl |-> TRUE, entry |-> "entry"],
               MCRpDataSets[d],
               [kind |-> kind, flags |-> [i \in DOMAIN MCRpDataSets[d] |-> IF i \in marks THEN {"dchg"} ELSE {}],
                snap |-> [i \in DOMAIN MCRpDataSets[d] |-> None]],
               [x \in Attributes |-> 0], max)
Trials == {p \in {Trial(o, x[1], x[2], x[3], x[4]) :
                     o \in {x \in SUBSET AllOptions : Cardinality(x) \notin 3 .. 6},
                     x \in {<< "d1", "gi", {}, 127 >>, << "d1", "change", {}, 127 >>, << "d3", "gi", {}, 230 >>,
                           << "d3", "gi", {}, 300 >>, << "d4", "change", {1}, 300 >>}} : p # None}

Flow == [Idle EXCEPT !.calls = For(c1, {Enable(TRUE)}), !.installs = For(c1, {Handler("rpt", None)})]

Reserving(c) == Call({"resv", "datSet", "opt", "trg", "ena", "rev"}, TRUE, IF c = c1 THEN "s2" ELSE "d3",
                     {"seqNum", "entryId"})
Releasing == [Call({"resv", "rptId"}, FALSE, "d1", {}) EXCEPT !.h.resv = FALSE]
Disabling == Call({"ena", "resv"}, FALSE, "d1", {})

MCRpScenarios == {
  [Idle EXCEPT !.samples = Trials],
  \* two clients configure the block
  [Idle EXCEPT !.calls = [c \in RpConns |-> {Reserving(c), Disabling}], !.deaths = 1],
  [Idle EXCEPT !.calls = [c \in RpConns |-> {Reserving(c)} \union
      (IF c = c1 THEN {Releasing, Call({"datSet", "ena"}, TRUE, NoSet, {})}
       ELSE {Call({"gi", "datSet"}, FALSE, "nowhere", {}), Call({"purge"}, FALSE, "d1", {}), Call({"datSet"}, FALSE, "d1", {})})]],
  \* triggers of members that overlap and a buffer time
  [Flow EXCEPT !.bufTm = 1, !.batches = 2, !.sets = {{"x"}, {"q", "t"}}, !.max = 500],
  [Flow EXCEPT !.bufTm = 1, !.batches = 2, !.sets = {{"x", "q"}, {"t", "y"}}, !.datSet = "s2", !.deaths = 1],
  \* segments and a full channel
  [Flow EXCEPT !.batches = 1, !.sets = {{"x"}}, !.periods = 1, !.uninstalls = 1],
  \* reports that cannot be encoded
  [Flow EXCEPT !.batches = 3, !.sets = {{"x"}, {"w"}}, !.datSet = "d3", !.opt = {"seqNum"}, !.periods = 1],
  \* the data set changes between reports
  [Flow EXCEPT !.batches = 1, !.sets = {{"x"}}, !.max = 500, !.opt = {"datSet"},
               !.calls = For(c1, {Enable(TRUE), Disabling, Call({"datSet", "opt", "ena"}, TRUE, "d2", {"confRev"}),
                                  Call({"datSet", "opt", "ena"}, TRUE, "d4", {"datSet", "confRev"})}),
               !.installs = For(c1, {Handler("rpt", None), Handler("longRpt", None)})],
  [Flow EXCEPT !.batches = 1, !.sets = {{"x"}}, !.max = 500, !.opt = {"confRev"},
               !.calls = For(c1, {Enable(TRUE), Disabling, Call({"datSet", "ena"}, TRUE, "s2", {})}),
               !.installs = For(c1, {Handler("rpt", None), Handler("rpt", 3)})] }

-----------------------------------------------------------------------------

VARIABLE part

WireIdle == msg = None /\ wire = << >> /\ change = None /\ got = None

IdleScenario == SvScenario(<< >>, 3, 1, 0, 0, 0)
IdleSubscribers == [i \in DOMAIN SvConfs |-> NewSvSubscriber(SvConfs[i])]
IdleLosses == [i \in DOMAIN SvConfs |-> [gap |-> [v \in SvIds |-> None], missed |-> 0, dups |-> 0]]
SvIdle ==
    /\ sleft = IdleScenario /\ cfgs = << >>
    /\ sbuf = None /\ stmpl = << >> /\ sval = << >> /\ ssim = FALSE /\ snet = << >>
    /\ ssub = IdleSubscribers /\ slost = IdleLosses
    /\ sloop = [next |-> [sec |-> 0, nsec |-> 0], now |-> 0, ticks |-> 0, stop |-> FALSE]

IdleEngine == InitEngine(Idle)
RpIdle ==
    /\ bound = Idle /\ eng = IdleEngine /\ live = [x \in Attributes |-> 0] /\ raised = << >> /\ alive = RpConns
    /\ todo = [c \in RpConns |-> << >>] /\ asked = [c \in RpConns |-> None]
    /\ kept = [c \in RpConns |-> None] /\ seen = [c \in RpConns |-> NothingSeen] /\ sample = << >>

WsInit ==
    \/ part = "wire" /\ WireInit /\ SvIdle /\ RpIdle
    \/ part = "sv" /\ SvInit /\ WireIdle /\ RpIdle
    \/ part = "reports" /\ RpInit /\ WireIdle /\ SvIdle

OnWire == part = "wire" /\ UNCHANGED << part, svVars, rpVars >>

WsNext ==
    \/ OnWire /\ ChangeOnce
    \/ OnWire /\ ReceiveRequest
    \/ OnWire /\ ReceiveResponse
    \/ OnWire /\ ReceiveOther
    \/ part = "sv" /\ SvNext /\ UNCHANGED << part, wireVars, rpVars >>
    \/ part = "reports" /\ RpNext /\ UNCHANGED << part, wireVars, svVars >>
=============================================================================
