---------------------------- MODULE MCServerData ----------------------------
(***************************************************************************)
(* The value store, the logs and the setting groups of a server, one part  *)
(* at a time; the other parts stay in one of their initial states.         *)
(***************************************************************************)
EXTENDS DataAccess, Logging, SettingGroups

Node(kind, name, fc, ty, array, children, cell) ==
  [kind |-> kind, name |-> name, fc |-> fc, ty |-> ty, array |-> array,
   children |-> children, cell |-> cell]
Att(name, fc, ty, cell) == Node("att", name, fc, ty, 0, <<>>, cell)
Con(name, fc, children) == Node("att", name, fc, <<"Constructed">>, 0, children, "")
Arr(name, fc, children) == Node("att", name, fc, <<"Constructed">>, Len(children), children, "")
Obj(name, children) == Node("obj", name, "", <<"none">>, 0, children, "")

Point(name, x, y) == Con(name, "CF", <<Att("x", "CF", <<"Int8">>, x), Att("y", "CF", <<"Int8U">>, y)>>)

TheDevice ==
  [LD |-> <<
    [name |-> "LLN0", sgcb |-> "resv",
     dos |-> <<Obj("Mod", <<Att("stVal", "ST", <<"Enumerated">>, "stVal"),
                            Att("q", "ST", <<"Quality">>, "q"),
                            Att("model", "CF", <<"Enumerated">>, "model")>>)>>],
    [name |-> "MM", sgcb |-> "none",
     dos |-> <<Obj("A", <<Con("rng", "SP", <<Att("lo", "SP", <<"Int8">>, "lo"),
                                             Att("hi", "SP", <<"Int8">>, "hi")>>),
                          Arr("pts", "CF", <<Point("0", "x0", "y0"), Point("1", "x1", "y1")>>),
                          Obj("phs", <<Att("id", "SP", <<"OctetString", 2>>, "id"),
                                       Att("flg", "SP", <<"GenericBitString", 3>>, "flg")>>)>>),
               Obj("B", <<Att("set", "SE", <<"Int8">>, "set")>>)>>]>>]

Block(ln, kind, name, owner, resv) ==
  [domain |-> "LD", ln |-> ln, kind |-> kind, name |-> name, owner |-> owner, resv |-> resv]

TheIed ==
  [device |-> TheDevice,
   blocks |-> {Block("LLN0", "urcb", "rp", FALSE, FALSE), Block("LLN0", "brcb", "br", TRUE, TRUE),
               Block("LLN0", "log", "lg", FALSE, FALSE), Block("LLN0", "goose", "go", FALSE, FALSE),
               Block("LLN0", "brcb", "bs", FALSE, FALSE)},
   rank |-> <<"br", "bs", "go", "lg", "rp">>,
   sboNormal |-> {}]

Num(v) == <<"int", v>>
InitialValues ==
  [stVal |-> Num(1), q |-> <<"bits", 2, <<0, 0, 0>>>>, model |-> Num(1), lo |-> Num(0), hi |-> Num(9),
   x0 |-> Num(0), y0 |-> <<"uint", 0>>, x1 |-> Num(1), y1 |-> <<"uint", 1>>,
   id |-> <<"octets", <<1>>>>, flg |-> <<"bits", 2, <<8>>>>, set |-> Num(3)]

Rng(lo, hi) == <<"struct", <<Num(lo), Num(hi)>>>>
Pt(x, y) == <<"struct", <<Num(x), <<"uint", y>>>>>>
Item(item, alt) == [domain |-> "LD", item |-> item, alt |-> alt]

MmA == <<"MM", "SP", "A">>
RngItem == <<"MM", "SP", "A", "rng">>
PtsItem == <<"MM", "CF", "A", "pts">>

Blank == [op |-> "read", entries |-> <<>>, room |-> NoLimit, limit |-> None, echo |-> 0,
          name |-> None, data |-> <<>>, domain |-> "LD", item |-> <<>>, value |-> Num(0)]
Read(entries) == [Blank EXCEPT !.entries = entries]
ReadWithin(entries, echo, limit) ==
  [Blank EXCEPT !.entries = entries, !.echo = echo, !.limit = limit,
     !.room = LET left == limit - 40 - (IF echo = 0 THEN 0 ELSE echo + 4) IN IF left < 0 THEN 0 ELSE left]
ReadList(name) == [Blank EXCEPT !.op = "readList", !.name = name]
Write(entries, data) == [Blank EXCEPT !.op = "write", !.entries = entries, !.data = data]
WriteList(name, data) == [Blank EXCEPT !.op = "writeList", !.name = name, !.data = data]
Update(item, v) == [Blank EXCEPT !.op = "update", !.item = item, !.value = v]
UpdateArr(item, v) == [Blank EXCEPT !.op = "updateArray", !.item = item, !.value = v]

Scenario(requests) ==
  [ied |-> TheIed, values |-> InitialValues, requests |-> requests,
   readHandlers |-> <<>>, writeHandlers |-> <<>>, policies |-> {"CF", "SP", "SE"},
   sets |-> [ds |-> <<Item(RngItem, None), Item(PtsItem, <<"index", 1>>), Item(<<"LLN0", "CF", "Mod", "model">>, None)>>],
   editor |-> 0]

Everything == NamedVariables(TheIed.device, TheIed.blocks, "LD")

Concurrent ==
  {Scenario(<<Read(<<Item(<<"MM">>, None)>>), Write(<<Item(MmA, None)>>,
      << <<"struct", <<Rng(4, 5), <<"struct", << <<"octets", <<3, 3>>>>, <<"bits", 3, <<31>>>>>>>>>>>> >>)>>),
   Scenario(<<ReadList("ds"), WriteList("ds", <<Rng(1, 2), Pt(5, 5), Num(2)>>), Update(<<"LLN0", "CF", "Mod", "model">>, Num(7))>>),
   Scenario(<<Read(<<Item(PtsItem, None), Item(PtsItem, <<"indexComponent", 0, <<"y">>>>)>>),
              UpdateArr(PtsItem, <<"array", <<Pt(7, 7), Pt(8, 8)>>>>), Write(<<Item(PtsItem, <<"index", 0>>)>>, <<Pt(2, 2)>>)>>),
   Scenario(<<Read(<<Item(RngItem, None)>>), Update(RngItem \o <<"lo">>, Num(200)), Write(<<Item(RngItem, None)>>, <<Rng(300, 1)>>)>>),
   Scenario(<<Read(<<Item(PtsItem, None)>>), UpdateArr(PtsItem, <<"array", <<Pt(200, 300), Pt(8, 8)>>>>),
              Write(<<Item(PtsItem, <<"index", 0>>)>>, <<Pt(2, 400)>>)>>),
   Scenario(<<WriteList("ds", <<Rng(1, 2)>>), Write(<<Item(RngItem, None), Item(RngItem \o <<"hi">>, None)>>, <<Rng(1, 1), Num(4)>>),
              ReadList("none")>>)}

Handled ==
  {[Scenario(<<Read(<<Item(i, a)>>), Update(RngItem \o <<"lo">>, Num(6))>>) EXCEPT
      !.readHandlers = h] :
     i \in {<<"MM">>, <<"MM", "SP">>, MmA, RngItem, RngItem \o <<"lo">>}, a \in {None},
     h \in {(RngItem :> {Miss, <<"hit", Rng(3, 3)>>, <<"hit", Num(3)>>}) @@ (RngItem \o <<"lo">> :> {Miss, <<"hit", Num(2)>>, <<"error", "HardwareFault">>}),
            (MmA :> {Miss, <<"hit", <<"struct", <<Rng(7, 7), <<"struct", << <<"octets", <<>>>>, <<"bits", 2, <<4>>>>>>>>>>>>>>,
                     <<"hit", <<"struct", <<Rng(7, 7), <<"struct", << <<"octets", <<>>>>, <<"bits", 0, <<4>>>>>>>>>>>>>>,
                     <<"hit", <<"struct", <<Rng(7, 7)>>>>>>})}}
  \cup
  {[Scenario(<<Read(<<Item(PtsItem, a)>>)>>) EXCEPT
      !.readHandlers = PtsItem :> {<<"hit", <<"array", <<Pt(1, 2), Pt(3, 4)>>>>>>, <<"hit", <<"array", <<Pt(1, 2)>>>>>>, Miss}] :
     a \in {<<"index", 0>>, <<"index", 1>>, <<"index", 2>>, <<"indexComponent", 1, <<"x">>>>, <<"indexComponent", 1, <<"z">>>>,
            <<"component", "rng", None>>}}

Answers == {"accept", "noUpdate", "ObjectAccessDenied"}
Written ==
  {[Scenario(<<Write(<<Item(i[1], i[2])>>, <<d>>), Write(<<Item(RngItem \o <<"hi">>, None)>>, <<Num(8)>>)>>) EXCEPT
      !.writeHandlers = h] :
     i \in {<<MmA, None>>, <<RngItem, None>>, <<RngItem \o <<"lo">>, None>>, <<RngItem, <<"component", "hi", None>>>>},
     d \in {Num(1), Num(300), Rng(1, 2), <<"struct", <<Rng(1, 2), <<"struct", << <<"octets", <<2>>>>, <<"bits", 2, <<8>>>>>>>>>>>>,
            <<"struct", <<Rng(1, 2), <<"struct", << <<"octets", <<2, 2, 2>>>>, <<"bits", 2, <<8>>>>>>>>>>>>},
     h \in {(MmA :> Answers) @@ (RngItem \o <<"lo">> :> Answers), (RngItem :> Answers)}}
  \cup
  {[Scenario(<<Write(<<Item(i[1], i[2]), Item(<<"MM", "CF", "A">>, i[2])>>, <<d, d>>), Read(<<Item(PtsItem, None)>>)>>) EXCEPT
      !.writeHandlers = PtsItem :> {"accept"}] :
     i \in {<<PtsItem, None>>, <<PtsItem, <<"index", 1>>>>, <<PtsItem, <<"index", 3>>>>, <<PtsItem, <<"indexComponent", 0, <<"y">>>>>>},
     d \in {Pt(1, 2), <<"array", <<Pt(1, 2), Pt(3, 4)>>>>, <<"uint", 7>>, <<"array", <<Pt(1, 2)>>>>}}
  \cup
  {[Scenario(<<Write(<<Item(<<"MM", "SE", "B", "set">>, None), [Item(<<"LLN0">>, None) EXCEPT !.domain = None],
                       Item(<<"LLN0", "ST", "Mod", "stVal">>, None), Item(<<"LLN0", "BR", "br", "GI">>, None)>>,
                     <<Num(1), Num(1), Num(1), <<"bool", TRUE>>>>),
               Read(<<Item(<<"MM", "SE", "B">>, None), Item(<<"MM">>, None)>>)>>) EXCEPT !.editor = e] : e \in 0 .. 2}
  \cup
  {Scenario(<<Update(i, v), Update(i, v)>>) : i \in {<<"MM", "SP", "A", "phs", "flg">>, <<"LLN0", "ST", "Mod", "q">>},
     v \in {Num(3), <<"fromInt", 5>>, <<"fromInt", 8>>, <<"bits", 2, <<31>>>>, <<"bits", 0, <<31>>>>}}

Bounded ==
  {Scenario(<<ReadWithin(<<Item(i, None)>> \o more, echo, limit)>>) :
     i \in {<<"MM">>, <<"LLN0">>, <<"LLN0", "BR">>, <<"MM", "CF", "A">>},
     more \in {<<>>, <<Item(RngItem, None), Item(PtsItem, None)>>},
     echo \in {0, 9}, limit \in {45, 70, 75, 80, 85, 90, 95, 100, 110, 120, 150, 200, 300, 340, 360, 380, 400}}
  \cup {Scenario(<<Read(<<Item(i, None)>>)>>) : i \in Everything}
  \cup {Scenario(<<[ReadList("ds") EXCEPT !.room = r, !.limit = r + 40]>>) : r \in 0 .. 40}

AllScenarios == Concurrent \cup Handled \cup Written \cup Bounded

-----------------------------------------------------------------------------
(* Logs. *)

MCNames == <<"la", "lb">>
LogRef(i) == [domain |-> "d", item |-> <<"n", i>>]
General == [domain |-> "d", item |-> <<"n", "GeneralLog">>]
Cfg(storage, ds, ref, ops, pd, on) ==
  [storage |-> storage, dataSet |-> ds, logRef |-> ref, trgOps |-> ops, intgPd |-> pd,
   defaultOn |-> on, domain |-> "d", ln |-> "n"]
MCDataSets == [d1 |-> <<{"x"}, {"x", "y"}>>, d2 |-> <<{"y"}>>]
OwnLogs == [la |-> Cfg("j1", "d1", None, {"dchg", "integrity"}, 2, TRUE),
        lb |-> Cfg("j2", "d2", LogRef("other"), {"dchg", "qchg"}, 0, FALSE)]
Unbound == [la |-> Cfg(None, "d2", None, {"dchg"}, 0, TRUE),
            lb |-> Cfg("j1", "d2", None, {"qchg", "integrity"}, 1, TRUE)]
Shared == [la |-> Cfg("j1", "d2", None, {"qchg", "integrity"}, 2, TRUE),
           lb |-> Cfg("j1", "d1", LogRef("other"), {"dchg"}, 0, TRUE)]
MCCapacity == [j1 |-> 3, j2 |-> 0]
Stored(v, f) == [value |-> v, flags |-> f]
Two == <<[x |-> Stored(1, {"dchg"})], [x |-> Stored(2, {"dchg"}), y |-> Stored(1, {"qchg"})]>>
Three == <<[x |-> Stored(1, {"dchg"})], [y |-> Stored(1, {"dchg"})], [x |-> Stored(2, {"dchg"})]>>
Query(start, stop, vars, after) == [start |-> start, stop |-> stop, variables |-> vars, after |-> after]
LogScenario(configs, batches, q, ref, max, time, ticks, switches, asks) ==
  [configs |-> configs, batches |-> batches, query |-> q, ref |-> ref, max |-> max,
   time |-> time, back |-> 0, ticks |-> ticks, switches |-> switches, asks |-> asks]
(* The tick took its time before a change that is logged ahead of it. *)
Overtaken == LogScenario(OwnLogs, <<[x |-> Stored(1, {"dchg"})]>>, Query(None, None, {}, None), General, 4, 3, 1, 0, 0)
MCLogScenarios ==
  { LogScenario(OwnLogs, Three \o Two, Query(None, None, {}, None), General, 5, 0, 0, 0, 0),
    LogScenario(OwnLogs, Two, Query(<<"time", 1>>, <<"time", 2>>, {}, None), General, 5, 3, 1, 0, 0),
    LogScenario(OwnLogs, Three, Query(None, <<"count", 2>>, {{"x"}}, None), General, 4, 1, 0, 0, 0),
    LogScenario(OwnLogs, Two, Query(<<"entry", 2>>, None, {}, None), General, 3, 0, 0, 2, 0),
    LogScenario(OwnLogs, Two, Query(<<"entry", 2>>, None, {}, None), LogRef("other"), 2, 0, 0, 1, 1),
    LogScenario(Unbound, Two, Query(None, None, {}, None), General, 4, 1, 1, 2, 0),
    LogScenario(Shared, Two, Query(None, <<"time", 2>>, {}, [time |-> 1, id |-> 1]), LogRef("other"), 5, 2, 1, 0, 1),
    LogScenario(Shared, Two, Query(None, None, {}, None), General, None, 0, 0, 1, 0),
    Overtaken,
    [LogScenario(OwnLogs, Three, Query(None, None, {}, None), General, 4, 2, 0, 0, 0) EXCEPT !.back = 1],
    LogScenario(OwnLogs, <<>>, Query(None, None, {}, None), LogRef("none"), 5, 4, 3, 2, 0) }

-----------------------------------------------------------------------------

VARIABLE part

SgSymmetry == Permutations(SgConns) \cup Permutations(SgValues)

IdleRequest == [Scenario(<<>>) EXCEPT !.ied.device = <<>>, !.values = <<>>]
DaIdle ==
  /\ da = IdleRequest /\ vals = <<>> /\ stamp = <<>> /\ clock = 0
  /\ lock = [readers |-> {}, writer |-> 0] /\ thr = <<>>
  /\ commits = <<>> /\ reads = {} /\ handed = <<>>

IdleLcbs == [l \in DOMAIN Overtaken.configs |-> NewLcb(Overtaken.configs[l])]
LgIdle ==
  /\ lgPlan = Overtaken /\ lcb = IdleLcbs
  /\ journal = [j \in Journals |-> [entries |-> <<>>, next |-> 1]]
  /\ written = [j \in Journals |-> <<>>]
  /\ leafValue = [f \in LogLeaves |-> 0]
  /\ changes = <<>> /\ feed = <<>> /\ logTask = NoTask /\ tickTask = NoTick
  /\ wall = 1 /\ mono = 0
  /\ reader = NoReader /\ lcbAnswer = None
  /\ lgSpent = [ticks |-> 0, switches |-> 0, asks |-> 0]

SgRest ==
  \E v \in SgValues :
    /\ sgcb = [act |-> 1, edit |-> 0, owner |-> SgNone, due |-> FALSE]
    /\ groups = [g \in Groups |-> [l \in Leaves |-> v]]
    /\ sgAttr = [l \in Leaves |-> v] /\ seAttr = [l \in Leaves |-> v] /\ edited = [l \in Leaves |-> v]
    /\ settings = SgNone /\ loads = SgNone
    /\ sgThread = [t \in SgThreads |-> SgIdle]

SdInit ==
  \/ part = "data" /\ DaInit /\ LgIdle /\ SgRest
  \/ part = "logs" /\ LgInit /\ DaIdle /\ SgRest
  \/ part = "groups" /\ SgInit /\ DaIdle /\ LgIdle

(* The requests and the logs of a scenario come to an end. *)
SdNext ==
  \/ part = "data" /\ (DaNext \/ (Finished /\ UNCHANGED daVars)) /\ UNCHANGED <<part, lgVars, sgVars>>
  \/ part = "logs" /\ (LgNext \/ UNCHANGED lgVars) /\ UNCHANGED <<part, daVars, sgVars>>
  \/ part = "groups" /\ SgNext /\ UNCHANGED <<part, daVars, lgVars>>
=============================================================================
