----------------------------- MODULE ModelTree ------------------------------
(***************************************************************************)
(* The IED model as it is put together before a server runs: the           *)
(* constructors and the lookups of src/crates/iec61850-model/src/tree.rs,  *)
(* the checks of builder.rs, and the members a data set takes from the     *)
(* model (src/crates/iec61850-server/src/reporting/dataset.rs).            *)
(*                                                                         *)
(* Nodes have the form DeviceModel gives them, with the trigger options,   *)
(* the initial value and the values per setting group of an attribute in   *)
(* place of its cell.  A model is [name, lds, aps], a logical device       *)
(* [inst, ldName, lns].  Err is what a builder returns when it refuses.    *)
(***************************************************************************)
EXTENDS DeviceModel

CONSTANT MaxLeaves    \* DatasetEntry::MAX_LEAVES

-----------------------------------------------------------------------------
(* Construction. *)

Attribute(name, fc, ty, trg, value) ==
  [kind |-> "att", name |-> name, fc |-> fc, ty |-> ty, trg |-> trg, value |-> value,
   array |-> 0, children |-> <<>>, groups |-> <<>>]

ConstructedNode(name, fc, children) ==
  [Attribute(name, fc, <<"Constructed">>, {}, <<"struct">>) EXCEPT !.children = children]

Object(name, children) ==
  [kind |-> "obj", name |-> name, array |-> 0, children |-> children]

(* An array shares nothing between its elements: each is a duplicate. *)
ArrayOf(element, count) ==
  IF count = 0 THEN Err
  ELSE LET held == [element EXCEPT !.array = count, !.children = [i \in 1 .. count |-> element]]
       IN IF element.kind = "obj" THEN held
          ELSE [held EXCEPT !.value = <<"array">>, !.groups = <<>>]

RECURSIVE SameShape(_, _)
SameShape(x, y) ==
  /\ x.ty = y.ty /\ x.array = y.array /\ Len(x.children) = Len(y.children)
  /\ \A i \in DOMAIN x.children :
       x.children[i].name = y.children[i].name /\ SameShape(x.children[i], y.children[i])

(* The SG and the SE view of a setting share its name. *)
IsSettingPair(a, b) ==
  /\ a.kind = "att" /\ b.kind = "att" /\ {a.fc, b.fc} = {"SE", "SG"}
  /\ SameShape(a, b)

ChildrenClash(children) ==
  \E i, j \in DOMAIN children :
    i < j /\ children[i].name = children[j].name /\ ~IsSettingPair(children[i], children[j])

RECURSIVE InheritTrgOps(_, _)
InheritTrgOps(children, trg) ==
  [i \in DOMAIN children |->
     [children[i] EXCEPT !.trg = @ \cup trg, !.children = InheritTrgOps(@, trg)]]

BuildDataObject(name, count, children) ==
  LET inherited == [i \in DOMAIN children |->
                      IF children[i].kind = "obj" THEN children[i]
                      ELSE [children[i] EXCEPT !.children = InheritTrgOps(@, children[i].trg)]]
  IN IF name = "" \/ ChildrenClash(children) THEN Err
     ELSE IF count = None THEN Object(name, inherited)
     ELSE ArrayOf(Object(name, inherited), count)

FullName(ln) == ln.prefix \o ln.class \o ln.inst

DomainName(ied, ld) == IF ld.ldName # None THEN ld.ldName ELSE ied \o ld.inst

Distinct(s) == \A i, j \in DOMAIN s : s[i] = s[j] => i = j

BuildLogicalNode(ln) ==
  IF \/ ln.class = ""
     \/ ~Distinct([i \in DOMAIN ln.dos |-> ln.dos[i].name])
     \/ ln.sgcb # None /\ (ln.class # "LLN0" \/ ln.inst # "")
  THEN Err ELSE ln

BuildLogicalDevice(ld) ==
  IF ld.inst = "" \/ ~Distinct([i \in DOMAIN ld.lns |-> FullName(ld.lns[i])]) THEN Err ELSE ld

-----------------------------------------------------------------------------
(* Lookups. *)

ItemAt(s, i) == IF i = 0 THEN None ELSE s[i]

FirstOr(s, Test(_)) == ItemAt(s, FirstIndex(s, Test))

LdByInst(model, inst) == FirstOr(model.lds, LAMBDA d : d.inst = inst)

LdByDomain(model, domain) == FirstOr(model.lds, LAMBDA d : DomainName(model.name, d) = domain)

LnByName(ld, name) == FirstOr(ld.lns, LAMBDA l : FullName(l) = name)

(* A node below a logical node by its reference: names, and indexes <<i>>  *)
(* into arrays.  Without a functional constraint the first of two views of *)
(* a setting is taken.                                                     *)
RECURSIVE NodeBelow(_, _, _)
NodeBelow(n, path, fc) ==
  IF n = None \/ path = <<>> THEN n
  ELSE LET seg == Head(path) IN
       NodeBelow(IF Len(seg) = 2 THEN Element(n, seg[2])
                 ELSE IF IsArray(n) THEN None
                 ELSE FirstOr(n.children, LAMBDA c :
                        c.name = seg[1] /\ (n.kind = "att" \/ c.kind = "obj"
                                            \/ fc = None \/ c.fc = fc)),
                 Tail(path), fc)

ResolveObjectRef(model, domain, ln, path, fc) ==
  LET ld == LdByDomain(model, domain)
      node == IF ld = None THEN None ELSE LnByName(ld, ln)
  IN IF node = None \/ path = <<>> THEN node
     ELSE IF Len(Head(path)) = 2 THEN None
     ELSE NodeBelow(FirstOr(node.dos, LAMBDA d : d.name = Head(path)[1]), Tail(path), fc)

(* IedModel::walk: every node with the reference that leads to it.  The    *)
(* steps are pairs, the second part of a name being absent.                *)
RECURSIVE WalkNode(_, _)
WalkNode(n, at) ==
  {<<at, n>>} \cup
  UNION {WalkNode(n.children[i],
                  Append(at, IF IsArray(n) THEN <<"", i - 1>> ELSE <<n.children[i].name>>))
           : i \in DOMAIN n.children}

WalkLn(ln) == UNION {WalkNode(ln.dos[i], << <<ln.dos[i].name>> >>) : i \in DOMAIN ln.dos}

-----------------------------------------------------------------------------
(* Data set entries: [ld, ln, fc, path, index, component]. *)

(* An index is taken by the first array on the way; a path may not go      *)
(* below an array without one.                                             *)
RECURSIVE EntryNode(_, _, _, _)
EntryNode(n, path, index, fc) ==
  LET taken == IsArray(n) /\ index # None
      here == IF taken THEN Element(n, index) ELSE n
      left == IF taken THEN None ELSE index
  IN IF here = None THEN None
     ELSE IF path # <<>>
          THEN LET next == Child(here, fc, Head(path))
               IN IF next = None THEN None ELSE EntryNode(next, Tail(path), left, fc)
     ELSE IF left # None THEN None
     ELSE here

CarriesFc(n, fc) == IF n.kind = "obj" THEN HasFc(n, fc) ELSE n.fc = fc

EntryResolves(ln, entry) ==
  LET top == DoOf(ln, Head(entry.path))
      node == IF top = None THEN None ELSE EntryNode(top, Tail(entry.path), entry.index, entry.fc)
  IN node # None /\ CarriesFc(node, entry.fc)

EntryLd(model, owner, entry) ==
  IF entry.ld = "" THEN owner
  ELSE LET ld == LdByInst(model, entry.ld)
       IN IF ld # None THEN ld ELSE LdByDomain(model, entry.ld)

ValidDataSets(model) ==
  \A i \in DOMAIN model.lds : \A j \in DOMAIN model.lds[i].lns :
    \A d \in ToSet(model.lds[i].lns[j].datasets) : \A e \in ToSet(d.entries) :
      LET ld == EntryLd(model, model.lds[i], e)
          ln == IF ld = None THEN None ELSE LnByName(ld, e.ln)
      IN ln # None /\ e.path # <<>> /\ EntryResolves(ln, e)

(* IedModelBuilder: add_ld refuses a second instance, build the rest. *)
BuildModel(model) ==
  IF \/ ~Distinct([i \in DOMAIN model.lds |-> model.lds[i].inst])
     \/ model.name = "" \/ model.lds = <<>>
     \/ \E i \in DOMAIN model.lds :
          LET lns == model.lds[i].lns
          IN \/ lns = <<>> \/ lns[1].class # "LLN0" \/ lns[1].inst # ""
             \/ \E j \in 2 .. Len(lns) : lns[j].sgcb # None
     \/ ~Distinct([i \in DOMAIN model.lds |-> DomainName(model.name, model.lds[i])])
     \/ ~ValidDataSets(model)
  THEN Err ELSE model

(* The tree a data set member holds: its leaves by reference, or None for  *)
(* a node without any.                                                     *)
RECURSIVE MemberLeaves(_, _, _)
MemberLeaves(n, fc, at) ==
  IF IsLeaf(n) THEN <<at>>
  ELSE LET kids == Children(n, fc)
           below == [i \in DOMAIN kids |->
                       MemberLeaves(kids[i], fc,
                         Append(at, IF IsArray(n) THEN <<"", i - 1>> ELSE <<kids[i].name>>))]
       IN IF kids = <<>> \/ \E i \in DOMAIN below : below[i] = None THEN None
          ELSE FlattenSeq(below)

(* DatasetEntry::from_data_set_entry: the member's leaves, or Err. *)
RECURSIVE MemberNode(_, _, _, _)
MemberNode(n, path, index, fc) ==
  LET taken == IsArray(n) /\ index # None
      here == IF taken THEN Element(n, index) ELSE n
      left == IF taken THEN None ELSE index
  IN IF here = None \/ (path # <<>> /\ IsArray(here)) THEN Err
     ELSE IF path = <<>> THEN IF left # None THEN Err ELSE here
     ELSE LET next == Child(here, fc, Head(path))
          IN IF next = None THEN Err ELSE MemberNode(next, Tail(path), left, fc)

FromDataSetEntry(model, owner, entry) ==
  LET ld == EntryLd(model, owner, entry)
      ln == IF ld = None THEN None ELSE LnByName(ld, entry.ln)
      path == entry.path \o entry.component
      top == IF ln = None \/ path = <<>> THEN None ELSE DoOf(ln, Head(path))
      node == IF top = None THEN Err ELSE MemberNode(top, Tail(path), entry.index, entry.fc)
      leaves == IF node = Err THEN None
                ELSE IF node.kind = "obj" /\ ~HasFc(node, entry.fc) THEN None
                ELSE MemberLeaves(node, entry.fc, <<>>)
  IN IF leaves = None THEN Err ELSE IF Len(leaves) > MaxLeaves THEN Err ELSE leaves

-----------------------------------------------------------------------------
(***************************************************************************)
(* The factories of the common data classes,                               *)
(* src/crates/iec61850-model/src/cdc.rs: each returns a data object whose  *)
(* attributes depend on the option bits.                                   *)
(*                                                                         *)
(* A set of options is the set of its bit positions, so that two options   *)
(* that share a bit cannot be told apart, as in the code.                  *)
(***************************************************************************)

CdcBit ==
  [PICS_SUBST |-> 0, BLK_ENA |-> 1, DESC |-> 2, DESC_UNICODE |-> 3, AC_DLNDA |-> 4,
   AC_DLN |-> 5, UNIT |-> 6, FROZEN_VALUE |-> 7, ADDR |-> 8, ADDINFO |-> 9, INST_MAG |-> 10,
   RANGE |-> 11, UNIT_MULTIPLIER |-> 12, AC_SCAV |-> 13, MIN |-> 14, MAX |-> 15,
   AC_CLC_O |-> 16, RANGE_ANG |-> 17, DPL_HWREV |-> 17, PHASE_A |-> 18, DPL_SWREV |-> 18,
   PHASE_B |-> 19, DPL_SERNUM |-> 19, PHASE_C |-> 20, DPL_MODEL |-> 20, PHASE_NEUT |-> 21,
   DPL_LOCATION |-> 21, STEP_SIZE |-> 22, ANGLE_REF |-> 23, AC_LN0_M |-> 24,
   AC_LN0_EX |-> 25, AC_DLD_M |-> 26]

ControlBit ==
  [HAS_CANCEL |-> 4, IS_TIME_ACTIVATED |-> 5, ORIGIN |-> 6, CTL_NUM |-> 7, ST_SELD |-> 8,
   OP_RCVD |-> 9, OP_OK |-> 10, T_OP_OK |-> 11]

ControlModels == <<"StatusOnly", "DirectNormal", "SboNormal", "DirectEnhanced", "SboEnhanced">>

(* ControlOptions::model reads the three low bits; 5 to 7 name no model. *)
ModelBits(c) == (IF 0 \in c THEN 1 ELSE 0) + (IF 1 \in c THEN 2 ELSE 0) + (IF 2 \in c THEN 4 ELSE 0)

ControlModel(c) == IF ModelBits(c) > 4 THEN "StatusOnly" ELSE ControlModels[ModelBits(c) + 1]

(* Attributes guarded by an option. *)
When(o, flag, atts) == IF CdcBit[flag] \in o THEN atts ELSE <<>>
WhenCtl(c, flag, atts) == IF ControlBit[flag] \in c THEN atts ELSE <<>>

-----------------------------------------------------------------------------
(* Attributes. *)

Leaf(name, fc, ty, trg) == Attribute(name, fc, ty, trg, <<"default">>)

VisString(n) == <<"VisibleString", n>>

(* A constructed attribute with trigger options of its own. *)
Triggered(name, fc, trg, children) == [ConstructedNode(name, fc, children) EXCEPT !.trg = trg]

AnalogueValue(name, fc, trg, integer) ==
  Triggered(name, fc, trg,
            <<IF integer THEN Leaf("i", fc, <<"Int32">>, trg) ELSE Leaf("f", fc, <<"Float32">>, trg)>>)

ValWithTrans(name, fc, trg, transient) ==
  Triggered(name, fc, trg,
            <<Leaf("posVal", fc, <<"Int8">>, trg)>>
            \o (IF transient THEN <<Leaf("transInd", fc, <<"Boolean">>, trg)>> ELSE <<>>))

Vector(name, fc, trg, o) ==
  Triggered(name, fc, trg,
            <<AnalogueValue("mag", fc, trg, FALSE)>>
            \o When(o, "AC_CLC_O", <<AnalogueValue("ang", fc, trg, FALSE)>>))

Unit(name, o) ==
  ConstructedNode(name, "CF", <<Leaf("SIUnit", "CF", <<"Enumerated">>, {})>>
                  \o When(o, "UNIT_MULTIPLIER", <<Leaf("multiplier", "CF", <<"Enumerated">>, {})>>))

ScaledValueConfig(name) ==
  ConstructedNode(name, "CF", <<Leaf("scaleFactor", "CF", <<"Float32">>, {"dchg"}),
                                Leaf("offset", "CF", <<"Float32">>, {"dchg"})>>)

Originator(fc) ==
  ConstructedNode("origin", fc, <<Leaf("orCat", fc, <<"Enumerated">>, {}),
                                  Leaf("orIdent", fc, <<"OctetString", 64>>, {})>>)

TimeQuality(fc) == <<Leaf("q", fc, <<"Quality">>, {"qchg"}), Leaf("t", fc, <<"Timestamp">>, {})>>

StatusSt(ty) == <<Leaf("stVal", "ST", ty, {"dchg", "dupd"})>> \o TimeQuality("ST")

(* Substitution takes a value of the type of the status. *)
PicsSubst(value) ==
  <<Leaf("subEna", "SV", <<"Boolean">>, {}), value,
    Leaf("subQ", "SV", <<"Quality">>, {}), Leaf("subID", "SV", VisString(64), {})>>

SubVal(ty) == Leaf("subVal", "SV", ty, {})

BlkEna == <<Leaf("blkEna", "BL", <<"Boolean">>, {})>>

StandardOptions(o) ==
  When(o, "DESC", <<Leaf("d", "DC", VisString(255), {})>>)
  \o When(o, "DESC_UNICODE", <<Leaf("dU", "DC", <<"UnicodeString255">>, {})>>)
  \o When(o, "AC_DLNDA", <<Leaf("cdcNs", "EX", VisString(255), {}), Leaf("cdcName", "EX", VisString(255), {})>>)
  \o When(o, "AC_DLN", <<Leaf("dataNs", "EX", VisString(255), {})>>)

SubstAndBlock(o, value) == When(o, "PICS_SUBST", PicsSubst(value)) \o When(o, "BLK_ENA", BlkEna)

-----------------------------------------------------------------------------
(* Control attributes. *)

OperStruct(name, ctlVal, timed, check) ==
  ConstructedNode(name, "CO",
    <<ctlVal>> \o (IF timed THEN <<Leaf("operTm", "CO", <<"Timestamp">>, {})>> ELSE <<>>)
    \o <<Originator("CO"), Leaf("ctlNum", "CO", <<"Int8U">>, {}), Leaf("T", "CO", <<"Timestamp">>, {}),
         Leaf("Test", "CO", <<"Boolean">>, {})>>
    \o (IF check THEN <<Leaf("Check", "CO", <<"Check">>, {})>> ELSE <<>>))

(* add_controls and, with an analogue value, add_analog_controls. *)
Controls(ctlVal, c) ==
  LET model == ControlModel(c)
      timed == ControlBit["IS_TIME_ACTIVATED"] \in c
  IN <<Attribute("ctlModel", "CF", <<"Enumerated">>, {"dchg"},
                 <<"int", FirstIndex(ControlModels, LAMBDA m : m = model) - 1>>)>>
     \o (IF model = "StatusOnly" THEN <<>>
         ELSE (IF model = "SboNormal" THEN <<Leaf("SBO", "CO", VisString(129), {})>> ELSE <<>>)
              \o (IF model = "SboEnhanced" THEN <<OperStruct("SBOw", ctlVal, timed, TRUE)>> ELSE <<>>)
              \o <<OperStruct("Oper", ctlVal, timed, TRUE)>>
              \o WhenCtl(c, "HAS_CANCEL", <<OperStruct("Cancel", ctlVal, timed, FALSE)>>))

CtlVal(ty) == Leaf("ctlVal", "CO", ty, {})
AnalogueCtlVal(integer) == AnalogueValue("ctlVal", "CO", {}, integer)

OriginatorCtlNum(fc, c) ==
  WhenCtl(c, "ORIGIN", <<Originator(fc)>>) \o WhenCtl(c, "CTL_NUM", <<Leaf("ctlNum", fc, <<"Int8U">>, {})>>)

StSeld(fc, c) == WhenCtl(c, "ST_SELD", <<Leaf("stSeld", fc, <<"Boolean">>, {"dchg"})>>)

CommonControlAttributes(c) ==
  WhenCtl(c, "OP_RCVD", <<Leaf("opRcvd", "OR", <<"Boolean">>, {"dchg"})>>)
  \o WhenCtl(c, "OP_OK", <<Leaf("opOk", "OR", <<"Boolean">>, {"dchg"})>>)
  \o WhenCtl(c, "T_OP_OK", <<Leaf("tOpOk", "OR", <<"Timestamp">>, {"dchg"})>>)

-----------------------------------------------------------------------------
(* Status and measurement classes. *)

Status(ty, o) == StatusSt(ty) \o SubstAndBlock(o, SubVal(ty)) \o StandardOptions(o)

Sps(o) == Status(<<"Boolean">>, o)
Dps(o) == Status(<<"CodedEnum">>, o)
Ins(o) == Status(<<"Int32">>, o)
Ens(o) == Status(<<"Enumerated">>, o)
Vss(o) == Status(VisString(255), o)

Mv(o, integer) ==
  When(o, "INST_MAG", <<AnalogueValue("instMag", "MX", {}, integer)>>)
  \o <<AnalogueValue("mag", "MX", {"dchg", "dupd"}, integer)>>
  \o When(o, "RANGE", <<Leaf("range", "MX", <<"Enumerated">>, {"dchg"})>>)
  \o TimeQuality("MX") \o StandardOptions(o)

Cmv(o) ==
  When(o, "INST_MAG", <<Vector("instCVal", "MX", {}, o)>>)
  \o <<Vector("cVal", "MX", {"dchg", "dupd"}, o)>>
  \o When(o, "RANGE", <<Leaf("range", "MX", <<"Enumerated">>, {"dchg"})>>)
  \o When(o, "RANGE_ANG", <<Leaf("rangeAng", "MX", <<"Enumerated">>, {"dchg"})>>)
  \o TimeQuality("MX") \o StandardOptions(o)

Sav(o, integer) ==
  <<AnalogueValue("instMag", "MX", {}, integer)>> \o TimeQuality("MX")
  \o When(o, "UNIT", <<Unit("units", o)>>) \o When(o, "AC_SCAV", <<ScaledValueConfig("sVC")>>)
  \o When(o, "MIN", <<AnalogueValue("min", "CF", {"dchg"}, integer)>>)
  \o When(o, "MAX", <<AnalogueValue("max", "CF", {"dchg"}, integer)>>) \o StandardOptions(o)

(* The number of points is not carried by the model yet. *)
Hst(o) ==
  <<Leaf("hstVal", "ST", <<"Int32">>, {"dchg", "dupd"})>> \o TimeQuality("ST")
  \o <<Leaf("numPts", "CF", <<"Int16U">>, {}), Unit("units", o), Leaf("maxPts", "CF", <<"Int16U">>, {})>>
  \o StandardOptions(o)

Bcr(o) ==
  <<Leaf("actVal", "ST", <<"Int64">>, {"dchg"})>>
  \o When(o, "FROZEN_VALUE", <<Leaf("frVal", "ST", <<"Int64">>, {"dupd"}),
                               Leaf("frTm", "ST", <<"Timestamp">>, {})>>)
  \o TimeQuality("ST") \o When(o, "UNIT", <<Leaf("units", "CF", <<"Enumerated">>, {"dchg"})>>)
  \o <<Leaf("pulsQty", "CF", <<"Float32">>, {"dchg"})>>
  \o When(o, "FROZEN_VALUE",
          <<Leaf("frEna", "CF", <<"Boolean">>, {"dchg"}), Leaf("strTm", "CF", <<"Timestamp">>, {"dchg"}),
            Leaf("frPd", "CF", <<"Int32">>, {"dchg"}), Leaf("frRs", "CF", <<"Boolean">>, {"dchg"})>>)
  \o StandardOptions(o)

Sec(o) ==
  <<Leaf("cnt", "ST", <<"Int32U">>, {"dchg"}), Leaf("sev", "ST", <<"Enumerated">>, {}),
    Leaf("t", "ST", <<"Timestamp">>, {})>>
  \o When(o, "ADDR", <<Leaf("addr", "ST", <<"OctetString", 64>>, {})>>)
  \o When(o, "ADDINFO", <<Leaf("addInfo", "ST", VisString(64), {})>>) \o StandardOptions(o)

Phases(o, Pair(_, _)) ==
  When(o, "PHASE_A", Pair("phsA", "dirPhsA")) \o When(o, "PHASE_B", Pair("phsB", "dirPhsB"))
  \o When(o, "PHASE_C", Pair("phsC", "dirPhsC")) \o When(o, "PHASE_NEUT", Pair("neut", "dirNeut"))

Operated(name) == Leaf(name, "ST", <<"Boolean">>, {"dchg"})
Direction(name) == Leaf(name, "ST", <<"Enumerated">>, {"dchg"})

Acd(o) ==
  <<Operated("general"), Direction("dirGeneral")>>
  \o Phases(o, LAMBDA phase, dir : <<Operated(phase), Direction(dir)>>)
  \o TimeQuality("ST") \o StandardOptions(o)

Act(o) ==
  <<Operated("general")>> \o Phases(o, LAMBDA phase, dir : <<Operated(phase)>>)
  \o TimeQuality("ST") \o StandardOptions(o)

AngRef(o) == When(o, "ANGLE_REF", <<Leaf("angRef", "CF", <<"Enumerated">>, {"dchg"})>>)

Wye(o) ==
  [i \in 1 .. 6 |-> Object(<<"phsA", "phsB", "phsC", "neut", "net", "res">>[i], Cmv(o))]
  \o AngRef(o) \o StandardOptions(o)

Del(o) ==
  [i \in 1 .. 3 |-> Object(<<"phsAB", "phsBC", "phsCA">>[i], Cmv(o))] \o AngRef(o) \o StandardOptions(o)

-----------------------------------------------------------------------------
(* Controllable classes. *)

Controllable(ty, ctlTy, o, c) ==
  OriginatorCtlNum("ST", c) \o StatusSt(ty) \o Controls(CtlVal(ctlTy), c) \o StSeld("ST", c)
  \o CommonControlAttributes(c) \o SubstAndBlock(o, SubVal(ty))

Spc(o, c) == Controllable(<<"Boolean">>, <<"Boolean">>, o, c) \o StandardOptions(o)
Dpc(o, c) == Controllable(<<"CodedEnum">>, <<"Boolean">>, o, c) \o StandardOptions(o)
Enc(o, c) == Controllable(<<"Enumerated">>, <<"Enumerated">>, o, c) \o StandardOptions(o)

Limits(o, fc, trg) ==
  When(o, "MIN", <<Leaf("minVal", fc, <<"Int32">>, trg)>>)
  \o When(o, "MAX", <<Leaf("maxVal", fc, <<"Int32">>, trg)>>)

Inc(o, c) ==
  Controllable(<<"Int32">>, <<"Int32">>, o, c) \o Limits(o, "CF", {})
  \o When(o, "STEP_SIZE", <<Leaf("stepSize", "CF", <<"Int32U">>, {})>>) \o StandardOptions(o)

Apc(o, c, integer) ==
  OriginatorCtlNum("MX", c) \o <<AnalogueValue("mxVal", "MX", {"dchg"}, integer)>> \o TimeQuality("MX")
  \o StSeld("MX", c) \o CommonControlAttributes(c)
  \o SubstAndBlock(o, AnalogueValue("subVal", "SV", {}, integer))
  \o Controls(AnalogueCtlVal(integer), c) \o StandardOptions(o)

Stepped(ctlTy, between, o, c, transient) ==
  OriginatorCtlNum("ST", c) \o <<ValWithTrans("valWTr", "ST", {"dchg"}, transient)>> \o TimeQuality("ST")
  \o between \o Controls(CtlVal(ctlTy), c) \o StSeld("ST", c) \o CommonControlAttributes(c)
  \o SubstAndBlock(o, ValWithTrans("subVal", "SV", {}, transient))

Persistent == <<Leaf("persistent", "CF", <<"Boolean">>, {"dchg"})>>

Bsc(o, c, transient) == Stepped(<<"CodedEnum">>, Persistent, o, c, transient) \o StandardOptions(o)

Isc(o, c, transient) ==
  Stepped(<<"Int8">>, <<>>, o, c, transient) \o Limits(o, "CF", {}) \o StandardOptions(o)

AnalogueLimits(o, fc, trg, integer) ==
  When(o, "MIN", <<AnalogueValue("minVal", fc, trg, integer)>>)
  \o When(o, "MAX", <<AnalogueValue("maxVal", fc, trg, integer)>>)
  \o When(o, "STEP_SIZE", <<AnalogueValue("stepSize", fc, trg, integer)>>)

(* A BAC carries a stepped and an analogue control of the same names. *)
Bac(o, c, integer) ==
  OriginatorCtlNum("MX", c) \o <<AnalogueValue("mxVal", "MX", {"dchg"}, integer)>> \o TimeQuality("MX")
  \o StSeld("MX", c) \o Controls(CtlVal(<<"Int8">>), c)
  \o SubstAndBlock(o, AnalogueValue("subVal", "SV", {}, integer))
  \o Persistent \o Controls(AnalogueCtlVal(integer), c)
  \o AnalogueLimits(o, "CF", {}, integer) \o StandardOptions(o)

-----------------------------------------------------------------------------
(* Description and setting classes. *)

Plate(name) == Leaf(name, "DC", VisString(255), {})
NameSpace(name) == Leaf(name, "EX", VisString(255), {})

Lpl(o) ==
  <<Plate("vendor"), Plate("swRev")>> \o When(o, "AC_LN0_M", <<Plate("configRev")>>)
  \o When(o, "AC_LN0_EX", <<NameSpace("ldNs")>>) \o When(o, "AC_DLD_M", <<NameSpace("lnNs")>>)
  \o StandardOptions(o)

Dpl(o) ==
  <<Plate("vendor")>> \o When(o, "DPL_HWREV", <<Plate("hwRev")>>)
  \o When(o, "DPL_SWREV", <<Plate("swRev")>>) \o When(o, "DPL_SERNUM", <<Plate("serNum")>>)
  \o When(o, "DPL_MODEL", <<Plate("model")>>) \o When(o, "DPL_LOCATION", <<Plate("location")>>)
  \o StandardOptions(o)

SetVal(ty) == <<Leaf("setVal", "SP", ty, {"dchg"})>>

Spg(o) == SetVal(<<"Boolean">>) \o StandardOptions(o)
Vsg(o) == SetVal(VisString(255)) \o StandardOptions(o)
Eng(o) == SetVal(<<"Enumerated">>) \o StandardOptions(o)

Ing(o) ==
  SetVal(<<"Int32">>) \o When(o, "UNIT", <<Unit("units", o)>>) \o Limits(o, "SP", {"dchg"})
  \o When(o, "STEP_SIZE", <<Leaf("stepSize", "SP", <<"Int32U">>, {"dchg"})>>) \o StandardOptions(o)

Asg(o, integer) ==
  <<AnalogueValue("setMag", "SP", {"dchg"}, integer)>> \o When(o, "UNIT", <<Unit("units", o)>>)
  \o When(o, "AC_SCAV", <<ScaledValueConfig("sVC")>>)
  \o AnalogueLimits(o, "CF", {"dchg"}, integer) \o StandardOptions(o)

-----------------------------------------------------------------------------
(* A factory call: the class, its options, and the flag of the classes that *)
(* take one (integer, or transient indicator).                              *)

PlainClasses == {"SPS", "DPS", "INS", "ENS", "VSS", "CMV", "HST", "BCR", "SEC", "ACD", "ACT",
                 "WYE", "DEL", "LPL", "DPL", "SPG", "VSG", "ENG", "ING"}
FlagClasses == {"MV", "SAV", "ASG"}
ControlClasses == {"SPC", "DPC", "ENC", "INC", "APC", "BSC", "ISC", "BAC"}

Factory(class, o, c, flag) ==
  CASE class = "SPS" -> Sps(o) [] class = "DPS" -> Dps(o) [] class = "INS" -> Ins(o)
    [] class = "ENS" -> Ens(o) [] class = "VSS" -> Vss(o) [] class = "MV" -> Mv(o, flag)
    [] class = "CMV" -> Cmv(o) [] class = "SAV" -> Sav(o, flag) [] class = "HST" -> Hst(o)
    [] class = "BCR" -> Bcr(o) [] class = "SEC" -> Sec(o) [] class = "ACD" -> Acd(o)
    [] class = "ACT" -> Act(o) [] class = "WYE" -> Wye(o) [] class = "DEL" -> Del(o)
    [] class = "SPC" -> Spc(o, c) [] class = "DPC" -> Dpc(o, c) [] class = "ENC" -> Enc(o, c)
    [] class = "INC" -> Inc(o, c) [] class = "APC" -> Apc(o, c, flag)
    [] class = "BSC" -> Bsc(o, c, flag) [] class = "ISC" -> Isc(o, c, flag)
    [] class = "BAC" -> Bac(o, c, flag) [] class = "LPL" -> Lpl(o) [] class = "DPL" -> Dpl(o)
    [] class = "SPG" -> Spg(o) [] class = "VSG" -> Vsg(o) [] class = "ENG" -> Eng(o)
    [] class = "ING" -> Ing(o) [] class = "ASG" -> Asg(o, flag)

=============================================================================
