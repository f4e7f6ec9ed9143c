------------------------------ MODULE SclEmit -------------------------------
(***************************************************************************)
(* The build-time path: the model the code generated by                    *)
(* src/crates/iec61850-scl-build/src/emit.rs and tokens.rs constructs when *)
(* it runs, and the summary (src/crates/iec61850-scl/src/summarize.rs)     *)
(* under which it is compared with the model BuildIedModel returns.        *)
(*                                                                         *)
(* An Emit operator is the value of the expression the function of that    *)
(* name writes, Err when the function refuses or the expression panics.    *)
(***************************************************************************)
EXTENDS SclModel

CONSTANT NameOrder     \* the names files are sorted by, in the order of their octets

-----------------------------------------------------------------------------
(* Order. *)

RECURSIVE Before(_, _)
Before(x, y) ==
  IF x = <<>> THEN FALSE
  ELSE \/ RankIn(NameOrder, x[1]) < RankIn(NameOrder, y[1])
       \/ x[1] = y[1] /\ Before(Tail(x), Tail(y))

SortedBy(s, Key(_)) == SortSeq(s, LAMBDA x, y : Before(Key(x), Key(y)))

SortedByName(s, deterministic) == IF deterministic THEN SortedBy(s, LAMBDA x : <<x.a.name>>) ELSE s

-----------------------------------------------------------------------------
(* Attributes and data objects. *)

EmitArrayOf(element, count) ==
  IF element = Err \/ count = Err THEN Err ELSE IF count = None THEN element ELSE ArrayOf(element, count)

RECURSIVE EmitBdas(_, _, _, _)
EmitBdas(scl, bdas, fc, values) ==
  Listed([i \in DOMAIN bdas |->
    LET k == bdas[i]
    IN EmitArrayOf(IF k.a.bType # "Struct" THEN LeafOf(scl, k, fc, {})
                   ELSE Structure(k, fc, {}, EmitBdas(scl, BdasOf(StructType(scl, k)), fc,
                                                      InstanceChildren(values, k.a.name))),
                   ElementCount(k.a.count, values))])

EmitDaElement(scl, k, values) ==
  IF k.a.bType # "Struct" THEN LeafOf(scl, k, k.a.fc, DaTrgOps(k))
  ELSE Structure(k, k.a.fc, DaTrgOps(k), EmitBdas(scl, BdasOf(StructType(scl, k)), k.a.fc, values))

EmitDa(scl, k, values) ==
  EmitArrayOf(EmitDaElement(scl, k, InstanceChildren(values, k.a.name)), ElementCount(k.a.count, values))

RECURSIVE EmitDoType(_, _, _, _)
EmitDoType(scl, name, dot, values) ==
  ObjectOf(name, FlattenSeq([i \in DOMAIN dot.kids |->
    LET k == dot.kids[i]
    IN IF k.tag # "SDO" THEN WithView(EmitDa(scl, k, values), DerivesSettingView(k, dot))
       ELSE <<EmitArrayOf(EmitDoType(scl, k.a.name, TypeOf(scl, "DOType", k.a.type),
                                     InstanceChildren(values, k.a.name)),
                          ElementCount(k.a.count, values))>>]))

-----------------------------------------------------------------------------
(* Instance values: collected as [path, value, groups] when the code is    *)
(* written, applied when it runs.                                          *)

ElementMatchesAny(count, ix) ==
  IF ByAttribute(count) THEN TRUE ELSE ix = None \/ Elements(count) # None

ElementMatches(count, ix) ==
  IF ByAttribute(count) THEN TRUE
  ELSE IF Elements(count) = None \/ ix = None THEN Elements(count) = None /\ ix = None
  ELSE ix < Elements(count)

Assignment(out, path, values) ==
  IF values = Err THEN Err ELSE Append(out, [path |-> path, value |-> values[1], groups |-> values[2]])

EmitDaiAssignment(scl, dai, k, sgs, path, out) ==
  IF dai.kids = <<>> THEN out
  ELSE IF k.a.bType = "Struct" THEN Err
  ELSE Assignment(out, path, DaiValues(scl, dai, k, sgs))

RECURSIVE EmitInstancesAtDa(_, _, _, _, _, _)
EmitAttr(scl, inst, k, sgs, path, out) ==
  IF k = None THEN out
  ELSE IF inst.tag = "SDI" /\ k.a.bType # "Struct" THEN out
  ELSE IF ~ElementMatches(k.a.count, inst.a.ix) THEN out
  ELSE IF inst.tag = "DAI" THEN EmitDaiAssignment(scl, inst, k, sgs, path, out)
  ELSE EmitInstancesAtDa(scl, inst.kids, TypeOf(scl, "DAType", k.a.type), sgs, path, out)

StepTo(base, inst) == Append(base, <<inst.a.name, inst.a.ix>>)

EmitInstancesAtDa(scl, children, dat, sgs, base, out) ==
  IF out = Err \/ children = <<>> THEN out
  ELSE LET inst == Head(children)
       IN EmitInstancesAtDa(scl, Tail(children), dat, sgs, base,
                            EmitAttr(scl, inst, Named1(dat, "BDA", inst.a.name), sgs, StepTo(base, inst), out))

RECURSIVE EmitInstancesAtDo(_, _, _, _, _, _)
EmitMember(scl, inst, sdo, k, sgs, path, out) ==
  IF sdo = None THEN EmitAttr(scl, inst, k, sgs, path, out)
  ELSE IF ~ElementMatches(sdo.a.count, inst.a.ix) THEN out
  ELSE EmitInstancesAtDo(scl, inst.kids, TypeOf(scl, "DOType", sdo.a.type), sgs, path, out)

EmitInstancesAtDo(scl, children, dot, sgs, base, out) ==
  IF out = Err \/ children = <<>> THEN out
  ELSE LET inst == Head(children)
       IN EmitInstancesAtDo(scl, Tail(children), dot, sgs, base,
                            EmitMember(scl, inst,
                                       IF inst.tag = "DAI" THEN None ELSE Named1(dot, "SDO", inst.a.name),
                                       Named1(dot, "DA", inst.a.name), sgs, StepTo(base, inst), out))

EmitDoi(scl, doi, d, sgs, out) ==
  IF d = None THEN out
  ELSE EmitInstancesAtDo(scl, doi.kids, TypeOf(scl, "DOType", d.a.type), sgs, << <<doi.a.name, None>> >>, out)

RECURSIVE CollectDois(_, _, _, _, _)
CollectDois(scl, dois, type, sgs, out) ==
  IF out = Err \/ dois = <<>> THEN out
  ELSE CollectDois(scl, Tail(dois), type, sgs,
                   EmitDoi(scl, Head(dois), Named1(type, "DO", Head(dois).a.name), sgs, out))

CollectDoiOverrides(scl, ln, sgs) ==
  CollectDois(scl, Kids(ln, {"DOI"}), TypeOf(scl, "LNodeType", ln.a.lnType), sgs, <<>>)

(* The closure emit_dai_override writes. *)
EmitDaiOverride(o, n) ==
  [n EXCEPT !.value = o.value, !.groups = IF DOMAIN o.groups = {} THEN @ ELSE o.groups]

RECURSIVE DescendAttribute(_, _, _)
RECURSIVE ApplyInObject(_, _, _)
Descend(n, hits, object, ix, path, o) ==
  PutChildren(n, Listed([i \in DOMAIN n.children |->
    LET c == n.children[i]
    IN IF i \notin hits THEN c
       ELSE IF ~Reached(c, ix) THEN c
       ELSE PutElement(c, ix, IF object THEN ApplyInObject(ElementAt(c, ix), path, o)
                              ELSE DescendAttribute(ElementAt(c, ix), path, o))]))

DescendAttribute(n, path, o) ==
  IF path = <<>> THEN EmitDaiOverride(o, n)
  ELSE Descend(n, FirstOf(NamedChildren(n, "att", path[1][1])), FALSE, path[1][2], Tail(path), o)

ApplyInObject(dobj, path, o) ==
  IF path = <<>> THEN dobj
  ELSE LET sub == FirstOf(NamedChildren(dobj, "obj", path[1][1]))
       IN Descend(dobj, IF sub # {} THEN sub ELSE NamedChildren(dobj, "att", path[1][1]), sub # {},
                  path[1][2], Tail(path), o)

ApplyToInstance(ln, o) ==
  LET i == FirstIndex(ln.dos, LAMBDA d : d.name = o.path[1][1])
  IN IF i = 0 THEN ln ELSE [ln EXCEPT !.dos[i] = ApplyInObject(@, Tail(o.path), o)]

-----------------------------------------------------------------------------
(* Data sets and control blocks. *)

EmitFcda(f) ==
  LET at == FcdaDoPath(f.a.doName, f.a.daName, f.a.ix)
  IN IF at = Err THEN Err
     ELSE [ld |-> f.a.ldInst, ln |-> OrEmpty(f.a.prefix) \o f.a.lnClass \o OrEmpty(f.a.lnInst),
           fc |-> f.a.fc, path |-> at.path, index |-> at.index, component |-> <<>>]

EmitDataset(ds) ==
  LET entries == MapSeq(ds.kids, EmitFcda)
  IN IF AnyErr(entries) THEN Err ELSE [name |-> ds.a.name, entries |-> entries]

EmitRcb(r, settings) ==
  LET instances == ReportInstances(r)
  IN IF instances = Err THEN Err
     ELSE [name |-> r.a.name, datSet |-> OrEmpty(r.a.datSet), buffered |-> r.a.buffered,
           confRev |-> r.a.confRev, rptId |-> OrEmpty(r.a.rptID), trg |-> ReportTrgOps(Bits(r, "TrgOps")),
           opt |-> OptFldsOf(Bits(r, "OptFields")), bufTm |-> r.a.bufTime, intgPd |-> r.a.intgPd,
           indexed |-> instances[1], instances |-> instances[2],
           owner |-> settings # None /\ settings.a.owner, resvTms |-> settings # None /\ settings.a.resvTms]

EmitGocb(g, domain) ==
  [name |-> g.a.name, datSet |-> g.a.datSet, goId |-> GoId(g, domain), confRev |-> g.a.confRev, gse |-> None]

EmitSvcb(v, domain) ==
  [name |-> v.a.name, datSet |-> v.a.datSet, svId |-> SvId(v, domain), confRev |-> v.a.confRev,
   multicast |-> v.a.multicast, smv |-> None]

EmitLcb(l) ==
  [name |-> l.a.name, logRef |-> OrEmpty(l.a.logName), datSet |-> OrEmpty(l.a.datSet), logEna |-> l.a.logEna,
   reasonCode |-> l.a.reasonCode, bufTm |-> l.a.bufTime, trg |-> LogTrgOps(Bits(l, "TrgOps")),
   intgPd |-> l.a.intgPd]

EmitSgcb(s) ==
  IF s = None THEN None
  ELSE IF s.a.numOfSGs > MaxGroups \/ s.a.actSG > MaxGroups THEN Err
  ELSE [num |-> s.a.numOfSGs, act |-> s.a.actSG, resv |-> s.a.resvTms # None,
        resvTms |-> IF s.a.resvTms = None THEN 60 ELSE Min({s.a.resvTms, MaxResvTms})]

-----------------------------------------------------------------------------
(* The generated functions. *)

Overridden(ln, overrides) == IF ln = Err \/ overrides = Err THEN Err ELSE FoldLeft(ApplyToInstance, ln, overrides)

EmitDos(scl, dos, ln) ==
  Listed([i \in DOMAIN dos |-> EmitDoType(scl, dos[i].a.name, TypeOf(scl, "DOType", dos[i].a.type),
                                         DoiChildren(ln, dos[i].a.name))])

SortedKids(ln, tag, det) == SortedByName(Kids(ln, {tag}), det)

EmitLn(scl, ln, domain, sgs, settings, det) ==
  Overridden(
    NodeFrom(ln, EmitDos(scl, Kids(TypeOf(scl, "LNodeType", ln.a.lnType), {"DO"}), ln),
             MapSeq(SortedKids(ln, "DataSet", det), EmitDataset),
             MapSeq(SortedKids(ln, "ReportControl", det), LAMBDA r : EmitRcb(r, settings)),
             MapSeq(SortedKids(ln, "GSEControl", det), LAMBDA g : EmitGocb(g, domain)),
             MapSeq(SortedKids(ln, "SampledValueControl", det), LAMBDA v : EmitSvcb(v, domain)),
             MapSeq(SortedKids(ln, "LogControl", det), EmitLcb),
             EmitSgcb(Kid(ln, "SettingControl"))),
    CollectDoiOverrides(scl, ln, sgs))

(* LLN0 stays in front. *)
LnKey(n) == <<IF n.a.lnClass = "LLN0" THEN "" ELSE "LLN0", OrEmpty(n.a.prefix), n.a.lnClass, n.a.inst>>

EmitLns(scl, lns, domain, sgs, settings, det) ==
  Listed([i \in DOMAIN lns |-> EmitLn(scl, lns[i], domain, sgs, settings, det)])

EmitLd(scl, ld, ied, settings, det) ==
  DeviceFrom(ld, EmitLns(scl, IF det THEN SortedBy(LogicalNodes(ld), LnKey) ELSE LogicalNodes(ld),
                         LdDomainName(ied, ld), LdNumOfSgs(ld), settings, det))

EmitDevices(scl, served, name, det) ==
  IF served = <<>> THEN Err
  ELSE ModelFrom(name, Listed([i \in DOMAIN served |-> EmitLd(scl, served[i][1], name, served[i][2], det)]),
                 ConnectedAccessPoints(scl, name))

EmitIedFn(scl, ied, det) ==
  Attached(scl, ied.a.name,
           EmitDevices(scl, IF det THEN SortedBy(ServedDevices(ied), LAMBDA d : <<d[1].a.inst>>)
                            ELSE ServedDevices(ied), ied.a.name, det))

Requested(scl, requested) == SelectSeq(Kids(scl, {"IED"}), LAMBDA i : requested = None \/ i.a.name = requested)

Functions1(fns) == IF fns = <<>> \/ AnyErr(fns) THEN Err ELSE fns

EmitIeds(scl, ieds, det) == Functions1(Listed([i \in DOMAIN ieds |-> EmitIedFn(scl, ieds[i], det)]))

EmitFile(scl, requested, det) ==
  EmitIeds(scl, IF det THEN SortedBy(Requested(scl, requested), LAMBDA i : <<i.a.name>>)
                ELSE Requested(scl, requested), det)

-----------------------------------------------------------------------------
(* summarize_model: what is written in a fixed order is sorted. *)

WriteLn(ln) ==
  LET Sorted(s) == SortedBy(s, LAMBDA x : <<x.name>>)
  IN [ln EXCEPT !.datasets = Sorted(@), !.rcbs = Sorted(@), !.gocbs = Sorted(@), !.svcbs = Sorted(@),
                !.lcbs = Sorted(@)]

WriteLd(ld) ==
  [ld EXCEPT !.lns = MapSeq(SortedBy(@, LAMBDA n : <<n.prefix, n.class, n.inst>>), WriteLn)]

SummarizeModel(model) ==
  [model EXCEPT !.lds = MapSeq(SortedBy(@, LAMBDA d : <<d.inst>>), WriteLd)]

-----------------------------------------------------------------------------
(***************************************************************************)
(* The stages an SCL file passes through after it is parsed, one action    *)
(* each: a text read as the value of an attribute, the file resolved, its  *)
(* model built, and the same file compiled: CompileBuilder::generate       *)
(* writes nothing unless the IEDs asked for build.  A case is              *)
(* [kind |-> "value", bType, enum, text] or                                *)
(* [kind |-> "file", scl, ied, all, det].                                  *)
(***************************************************************************)

VARIABLES smCase, smScl, smModel, smBuilds, smCode, smValue

smVars == <<smCase, smScl, smModel, smBuilds, smCode, smValue>>

(* None is a stage not run.  A run gives smCase its cases. *)
SmInit ==
  /\ smScl = None /\ smModel = None /\ smBuilds = None /\ smCode = None /\ smValue = None

Asked == IF smCase.all THEN None ELSE smCase.ied

SmReadValue ==
  /\ smCase.kind = "value" /\ smValue = None
  /\ smValue' = ParseVal(smCase.text, smCase.bType, smCase.enum)
  /\ UNCHANGED <<smCase, smScl, smModel, smBuilds, smCode>>

SmResolve ==
  /\ smCase.kind = "file" /\ smScl = None
  /\ smScl' = Resolve(smCase.scl)
  /\ UNCHANGED <<smCase, smModel, smBuilds, smCode, smValue>>

SmBuild ==
  /\ smScl \notin {None, Err} /\ smModel = None
  /\ smModel' = BuildIedModel(smScl, smCase.ied)
  /\ UNCHANGED <<smCase, smScl, smBuilds, smCode, smValue>>

SmPrebuild ==
  /\ smModel # None /\ smBuilds = None
  /\ smBuilds' = \A i \in DOMAIN Requested(smScl, Asked) :
                   BuildIedModel(smScl, Requested(smScl, Asked)[i].a.name) # Err
  /\ UNCHANGED <<smCase, smScl, smModel, smCode, smValue>>

SmCompile ==
  /\ smScl = Err \/ smBuilds # None
  /\ smCode = None
  /\ smCode' = IF smScl = Err THEN Err ELSE IF ~smBuilds THEN Err ELSE EmitFile(smScl, Asked, smCase.det)
  /\ UNCHANGED <<smCase, smScl, smModel, smBuilds, smValue>>

SmNext == SmReadValue \/ SmResolve \/ SmBuild \/ SmPrebuild \/ SmCompile

Built == smModel \notin {None, Err}

-----------------------------------------------------------------------------
(* Values. *)

FitsSize(size, n) == CASE size[1] = "fixed" -> n = size[2] [] size[1] = "max" -> n <= size[2] [] OTHER -> TRUE

FitsLeaf(leaf, v) ==
  CASE leaf[1] = "int" -> v[1] = "int" /\ (leaf[2] >= 32 \/ v[2] \in -(2 ^ (leaf[2] - 1)) .. 2 ^ (leaf[2] - 1) - 1)
    [] leaf[1] = "uint" -> v[1] = "uint" /\ v[2] >= 0 /\ (leaf[2] >= 32 \/ v[2] < 2 ^ leaf[2])
    [] leaf[1] \in {"float32", "float64"} -> v[1] = "float"
    [] leaf[1] = "bits" -> v[1] = "bits" /\ FitsSize(leaf[2], OctetBits * Len(v[3]) - v[2])
    [] leaf[1] \in {"octets", "visible", "mmsString"} -> v[1] = leaf[1] /\ FitsSize(leaf[2], Len(v[2]))
    [] OTHER -> v[1] = leaf[1]

(* What a file gives an attribute is of the type the model declares for it: *)
(* the ordinal of an enumeration within the integer attribute_type chose,   *)
(* an integer, a string and octets within the bounds parse_val_for_b_type   *)
(* checks on its own tables, and so are the initial values.  PhyComAddr is  *)
(* a structure and has no leaf type; a Currency text is not bounded by the  *)
(* 3 characters of its type.                                                *)
ValueFitsType ==
  smValue \notin {None, Err} /\ smCase.bType \notin {"PhyComAddr", "Currency"} =>
    LET leaf == LeafFromDaType(AttributeType(smCase.bType, smCase.enum))
    IN FitsLeaf(leaf, smValue) /\ FitsLeaf(leaf, DefaultFor(AttributeType(smCase.bType, smCase.enum)))

YearDays(y) == IF (y % 4 = 0 /\ y % 100 # 0) \/ y % 400 = 0 THEN 366 ELSE 365

MonthDays(y) == <<31, YearDays(y) - 337, 31, 30, 31, 30, 31, 31, 30, 31, 30, 31>>

(* The days of the years and months from 1968 on, less the two years to     *)
(* 1970.                                                                    *)
DaysSince1970(year, month, day) ==
  LET leaps == {y \in 1968 .. year - 1 : YearDays(y) = 366}
      months == FoldLeft(LAMBDA n, l : n + l, 0, SubSeq(MonthDays(year), 1, month - 1))
  IN 365 * (year - 1968) + Cardinality(leaps) + months + day - 1 - 731

NamesMoment(m) ==
  /\ m.year >= 1968 /\ m.month \in 1 .. 12 /\ m.day \in 1 .. MonthDays(m.year)[m.month]
  /\ m.minute < 60 /\ m.second < 60
  /\ m.hour < 24 \/ (m.hour = 24 /\ m.minute + m.second = 0 /\ \A i \in DOMAIN m.fraction : m.fraction[i] = 0)

(* An xs:dateTime gives the instant it names: the days the calendar counts, *)
(* over leap years and centuries, and the time of day moved by its zone     *)
(* across midnight and the end of a year; it is refused exactly when it     *)
(* names no moment of the 2^32 seconds (71582788 minutes and 16 seconds)    *)
(* from 1970.                                                               *)
TimestampIsInstant ==
  smValue # None /\ smCase.bType = "Timestamp" =>
    LET m == InTable(Moments, smCase.text)
        offset == IF m.zone = None THEN 0 ELSE m.zone[1] * (m.zone[2] * 60 + m.zone[3])
        total == DaysSince1970(m.year, m.month, m.day) * 1440 + m.hour * 60 + m.minute - offset
    IN IF ~NamesMoment(m) THEN smValue = Err
       ELSE IF total < 0 \/ total > 71582788 \/ (total = 71582788 /\ m.second >= 16) THEN smValue = Err
       ELSE smValue # Err /\ smValue[2][1] * 1440 + smValue[2][2] \div 60 = total /\ smValue[2][2] % 60 = m.second

Bit(n, i) == (n \div 2 ^ i) % 2

(* The octets of a base64 text are the bits of its characters, in order,    *)
(* whatever the padding of the last group.                                  *)
OctetsAreBits ==
  smValue \notin {None, Err} /\ smCase.bType \in DOMAIN OctetCaps =>
    LET chars == SelectSeq(InTable(Base64, smCase.text), LAMBDA c : c # Pad)
        octets == smValue[2]
    IN /\ 6 * Len(chars) - 8 * Len(octets) \in 0 .. 7
       /\ \A k \in 0 .. 8 * Len(octets) - 1 :
            Bit(octets[(k \div 8) + 1], 7 - (k % 8)) = Bit(chars[(k \div 6) + 1], 5 - (k % 6))

-----------------------------------------------------------------------------
(* Files. *)

(* The types the members of a type refer to: sub-objects, or structures. *)
RECURSIVE Refs(_, _)
Refs(members, tag) ==
  UNION {(IF members[i].tag = "SDO" \/ (tag = "DAType" /\ members[i].a.bType = "Struct")
          THEN {members[i].a.type} ELSE {}) \cup Refs(members[i].kids, tag) : i \in DOMAIN members}

(* The types a type refers to in n steps. *)
RECURSIVE Chain(_, _, _, _)
Chain(scl, tag, ids, n) ==
  IF n = 0 THEN ids
  ELSE Chain(scl, tag, UNION {Refs(SelectSeq(t.kids, LAMBDA k : k.tag # "DA"), tag) : t \in {x \in ToSet(Types(scl, tag)) : x.a.id \in ids}}, n - 1)

(* Every file resolve accepts can be expanded: a chain of references        *)
(* between its DOTypes, or between its DATypes, has at most MaxTypeNesting  *)
(* types, so none is circular, and every reference names a type.            *)
ResolvedIsClosed ==
  smScl \notin {None, Err} =>
    \A tag \in {"DOType", "DAType"} :
      LET ids == {t.a.id : t \in ToSet(Types(smScl, tag))}
      IN Chain(smScl, tag, ids, 1) \subseteq ids /\ Chain(smScl, tag, ids, MaxTypeNesting) = {}

ModelNodes(m) ==
  LET LnCount(ln) == 1 + Total([i \in DOMAIN ln.dos |-> NodeCount(ln.dos[i])])
      LdCount(ld) == Total([i \in DOMAIN ld.lns |-> LnCount(ld.lns[i])])
  IN Total([i \in DOMAIN m.lds |-> LdCount(m.lds[i])])

(* The nodes stage 2 counts before anything is built are enough for the     *)
(* model stage 3 builds, arrays whose count the instances give and derived  *)
(* SG views included: no file makes the builder exceed the limit.           *)
ExpansionBounded ==
  Built => ModelNodes(smModel) <= IedNodes(smScl, Named1(smScl, "IED", smCase.ied))

(* The references of the DAI elements below an instance element, with the  *)
(* element itself.                                                         *)
RECURSIVE DaiRefs(_, _)
DaiRefs(inst, at) ==
  LET here == at \o << <<inst.a.name>> >>
              \o (IF inst.tag # "DOI" /\ inst.a.ix # None THEN << <<"", inst.a.ix>> >> ELSE <<>>)
  IN IF inst.tag = "DAI" THEN << <<here, inst>> >>
     ELSE FlattenSeq(MapSeq(inst.kids, LAMBDA k : DaiRefs(k, here)))

RECURSIVE TemplateMember(_, _, _)
TemplateMember(scl, members, path) ==
  LET k == FirstOr(members, LAMBDA m : m.a.name = path[1][1])
      rest == SelectSeq(Tail(path), LAMBDA s : Len(s) = 1)
      type == IF k.tag = "SDO" THEN TypeOf(scl, "DOType", k.a.type) ELSE TypeOf(scl, "DAType", k.a.type)
  IN IF rest = <<>> THEN k ELSE TemplateMember(scl, type.kids, rest)

LeafValue(scl, ln, ref, dais) ==
  LET mine == SelectSeq(dais, LAMBDA d : d[1] = ref /\ d[2].kids # <<>>)
      d == Named1(TypeOf(scl, "LNodeType", ln.a.lnType), "DO", ref[1][1])
      k == TemplateMember(scl, TypeOf(scl, "DOType", d.a.type).kids, Tail(ref))
      enum == EnumOf(scl, k)
  IN IF mine = <<>> THEN TemplateInitialValue(AttributeType(k.a.bType, enum), k.a.bType, enum, k.text)
     ELSE ParseVal(PlainVal(Last(mine)[2]).text, k.a.bType, enum)

(* An instance value reaches the attribute its DOI, SDI and DAI name, in    *)
(* the element their indexes give and in both views of a setting, and no    *)
(* other: every other leaf keeps the value of its template.                 *)
ValuesLand ==
  Built =>
    \A ld \in ToSet(LogicalDevices(Named1(smScl, "IED", smCase.ied))) : \A raw \in ToSet(LogicalNodes(ld)) :
      LET ln == LnByName(LdByInst(smModel, ld.a.inst), OrEmpty(raw.a.prefix) \o raw.a.lnClass \o raw.a.inst)
          dais == FlattenSeq(MapSeq(Kids(raw, {"DOI"}), LAMBDA d : DaiRefs(d, <<>>)))
      IN \A at \in WalkLn(ln) : IsLeaf(at[2]) => at[2].value = LeafValue(smScl, raw, at[1], dais)

(* Every node of a built model is the one its own reference finds: no name  *)
(* hides another, and the two views of a setting are told apart by their    *)
(* functional constraint.                                                   *)
ReferencesAreUnique ==
  Built =>
    \A i \in DOMAIN smModel.lds : \A j \in DOMAIN smModel.lds[i].lns :
      LET ld == smModel.lds[i]
          ln == ld.lns[j]
      IN \A at \in WalkLn(ln) :
           ResolveObjectRef(smModel, DomainName(smModel.name, ld), FullName(ln), at[1],
                            IF at[2].kind = "att" THEN at[2].fc ELSE None) = at[2]

(* A data set the builder accepts can be reported: each of its entries      *)
(* names a node that has its functional constraint.                         *)
DataSetsReportable ==
  Built =>
    \A ld \in ToSet(smModel.lds) : \A ln \in ToSet(ld.lns) : \A d \in ToSet(ln.datasets) :
      \A e \in ToSet(d.entries) : FromDataSetEntry(smModel, ld, e) # Err

(* Some array of the file takes its count from an attribute. *)
CountedByInstance(scl) ==
  \E t \in ToSet(Types(scl, "DOType")) \cup ToSet(Types(scl, "DAType")) :
    \E k \in ToSet(t.kids) : k.a.count # None /\ k.a.count[1] = "attribute"

(* The values a file gives are those of the model: read as the text means,  *)
(* of the declared type, and in the attribute they are for.                 *)
ValuesAreTexts == ValueFitsType /\ TimestampIsInstant /\ OctetsAreBits /\ ValuesLand

(* A file that is accepted gives a sound model: the limits on nesting and   *)
(* on the number of nodes hold for what is built, every node is the one its *)
(* reference finds, and every data set can be reported.                     *)
BuiltIsSound == ResolvedIsClosed /\ ExpansionBounded /\ ReferencesAreUnique /\ DataSetsReportable

(* The generated code constructs the model the same file gives at run time, *)
(* in whatever order it writes its parts, and a file is compiled if and     *)
(* only if it gives one (if every IED of it does, when all are asked for).  *)
(* An instance whose index names no element of an array is skipped by both, *)
(* but only the runtime knows a count an attribute gives: there the         *)
(* compiler may refuse a value the runtime never reads.                     *)
CodegenAgrees ==
  /\ smCode \notin {None, Err} =>
       Built /\ \E m \in ToSet(smCode) : m.name = smCase.ied /\ SummarizeModel(m) = SummarizeModel(smModel)
  /\ Built /\ smCode = Err => smCase.all \/ CountedByInstance(smScl)
=============================================================================
