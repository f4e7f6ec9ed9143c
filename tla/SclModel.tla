----------------------------- MODULE SclModel -----------------------------
(***************************************************************************)
(* Stage 3 of the SCL reader: the IED model a resolved file describes, as  *)
(* src/crates/iec61850-scl/src/build_model.rs builds it, with the          *)
(* addresses communication.rs attaches to it.  Every failure is Err.       *)
(*                                                                         *)
(* First the types it resolves, and the value an SCL text gives an         *)
(* attribute: parse_val_for_b_type and attribute_type of that file.        *)
(* A text is a sequence of words.  What a word is as a number, a float, a  *)
(* base64 text or an xs:dateTime is given by tables: Numerals, Floats,     *)
(* Base64 (the sextets, Pad for the "=" and Unread for any other           *)
(* character) and Moments (the fields of the date).  The integers of a run *)
(* are those of TLC, so the bounds of INT32, INT64, INT128 and INT32U are  *)
(* never met.                                                              *)
(***************************************************************************)
EXTENDS ModelTree, SclRaw

(***************************************************************************)
(* Types and values                                                        *)
(***************************************************************************)
CONSTANTS Floats, Base64, Moments,
          FractionUnits,           \* the fractions of a second a UtcTime counts (2^24)
          MaxFractionDigits       \* 9

(* The word of a text of one word. *)
Word(text) == IF Len(text) = 1 THEN text[1] ELSE Unread

InTable(table, text) == IF Word(text) = Unread THEN Unread ELSE Lookup(table, Word(text))

BTypes ==
  [BOOLEAN |-> <<"Boolean">>, INT8 |-> <<"Int8">>, INT16 |-> <<"Int16">>, INT24 |-> <<"Int24">>,
   INT32 |-> <<"Int32">>, INT64 |-> <<"Int64">>, INT128 |-> <<"Int128">>, INT8U |-> <<"Int8U">>,
   INT16U |-> <<"Int16U">>, INT24U |-> <<"Int24U">>, INT32U |-> <<"Int32U">>,
   FLOAT32 |-> <<"Float32">>, FLOAT64 |-> <<"Float64">>, Enum |-> <<"Enumerated">>,
   Dbpos |-> <<"CodedEnum">>, Tcmd |-> <<"CodedEnum">>, Check |-> <<"Check">>,
   Octet6 |-> <<"OctetString", 6>>, Octet16 |-> <<"OctetString", 16>>,
   Octet64 |-> <<"OctetString", 64>>, Quality |-> <<"Quality">>, Timestamp |-> <<"Timestamp">>,
   Currency |-> <<"Currency">>, VisString32 |-> <<"VisibleString", 32>>,
   VisString64 |-> <<"VisibleString", 64>>, VisString65 |-> <<"VisibleString", 65>>,
   VisString129 |-> <<"VisibleString", 129>>, VisString255 |-> <<"VisibleString", 255>>,
   ObjRef |-> <<"VisibleString", 129>>, Unicode255 |-> <<"UnicodeString255">>,
   OptFlds |-> <<"OptFlds">>, SvOptFlds |-> <<"SvOptFlds">>, LogOptFlds |-> <<"LogOptFlds">>,
   TrgOps |-> <<"TrgOpsBits">>, EntryID |-> <<"OctetString", 8>>, EntryTime |-> <<"EntryTime">>,
   PhyComAddr |-> <<"PhyComAddr">>]

ZeroBits(n) == <<"bits", (OctetBits - (n % OctetBits)) % OctetBits,
                 [i \in 1 .. (n + OctetBits - 1) \div OctetBits |-> 0]>>

(* MmsValue::default_for. *)
DefaultFor(ty) ==
  LET t == ty[1] IN
  CASE t = "Boolean" -> <<"bool", FALSE>>
    [] t \in DOMAIN IntegerWidths -> <<"int", 0>>
    [] t \in DOMAIN UnsignedWidths -> <<"uint", 0>>
    [] t \in {"Float32", "Float64"} -> <<"float", 0>>
    [] t = "OctetString" -> <<"octets", IF ty[2] = 8 THEN [i \in 1 .. 8 |-> 0] ELSE <<>>>>
    [] t \in {"VisibleString", "Currency"} -> <<"visible", <<>>>>
    [] t = "UnicodeString255" -> <<"mmsString", <<>>>>
    [] t = "Timestamp" -> <<"utcTime", <<0, 0, 0>>>>
    [] t = "CodedEnum" -> ZeroBits(2)
    [] t \in DOMAIN BoundedBits -> ZeroBits(BoundedBits[t])
    [] t \in {"Constructed", "PhyComAddr"} -> <<"struct", <<>>>>
    [] t = "EntryTime" -> <<"binTime", [i \in 1 .. 6 |-> 0]>>

-----------------------------------------------------------------------------
(* base64Binary: groups of four sextets, the last one padded. *)

Pad == 64

Padding(group) ==
  IF group[4] # Pad THEN 0 ELSE IF group[3] # Pad THEN 1 ELSE IF group[2] # Pad THEN 2 ELSE 3

GroupOctets(group) ==
  LET s == [i \in 1 .. 4 |-> IF group[i] = Pad THEN 0 ELSE group[i]]
  IN SubSeq(<<s[1] * 4 + s[2] \div 16, (s[2] % 16) * 16 + s[3] \div 4, (s[3] % 4) * 64 + s[4]>>,
            1, 3 - Padding(group))

GoodGroup(group, last) ==
  /\ Padding(group) <= 2 /\ (Padding(group) > 0 => last)
  /\ \A j \in 1 .. 4 - Padding(group) : group[j] \in 0 .. 63

DecodeGroups(groups) ==
  IF \A i \in DOMAIN groups : GoodGroup(groups[i], i = Len(groups))
  THEN FlattenSeq([i \in DOMAIN groups |-> GroupOctets(groups[i])]) ELSE Err

DecodeBase64(chars) ==
  IF chars = Unread THEN Err
  ELSE IF Len(chars) % 4 # 0 THEN Err
  ELSE DecodeGroups([i \in 1 .. Len(chars) \div 4 |-> SubSeq(chars, 4 * i - 3, 4 * i)])

-----------------------------------------------------------------------------
(* xs:dateTime, of the fields [year, month, day, hour, minute, second,      *)
(* fraction, zone]: the digits of the fraction, <<sign, hours, minutes>>.   *)

IsLeap(year) == year % 4 = 0 /\ (year % 100 # 0 \/ year % 400 = 0)

DaysInMonth(year, month) ==
  IF month = 2 THEN IF IsLeap(year) THEN 29 ELSE 28
  ELSE IF month \in {4, 6, 9, 11} THEN 30 ELSE 31

(* Days since 1970-01-01, the year starting in March. *)
CivilDays(year, month, day) ==
  LET y == IF month <= 2 THEN year - 1 ELSE year
      era == y \div 400
      yoe == y - era * 400
      doy == (153 * ((month + 9) % 12) + 2) \div 5 + day - 1
  IN era * 146097 + yoe * 365 + yoe \div 4 - yoe \div 100 + doy - 719468

ZoneSeconds(zone) == IF zone = None THEN 0 ELSE zone[1] * (zone[2] * 3600 + zone[3] * 60)

RECURSIVE DigitsValue(_)
DigitsValue(s) == IF s = <<>> THEN 0 ELSE 10 * DigitsValue(Front(s)) + Last(s)

Fraction(digits) ==
  LET n == Min({Len(digits), MaxFractionDigits})
  IN (DigitsValue(SubSeq(digits, 1, n)) * FractionUnits) \div 10 ^ n

(* The instant as <<days, seconds of the day, fraction>>: 2^32 seconds are  *)
(* 49710 days and 23296 seconds.                                            *)
Instant(days, rest, fraction) ==
  IF days < 0 \/ days > 49710 \/ (days = 49710 /\ rest >= 23296) THEN Err ELSE <<days, rest, fraction>>

Clocked(days, clock, fraction) == Instant(days + clock \div 86400, clock % 86400, fraction)

ParseTimestamp(m) ==
  LET endOfDay == m.hour = 24 /\ m.minute = 0 /\ m.second = 0 /\ ToSet(m.fraction) \subseteq {0}
  IN IF \/ m.zone # None /\ (m.zone[2] > 14 \/ m.zone[3] > 59)
        \/ m.month \notin 1 .. 12 \/ m.day < 1 \/ m.day > DaysInMonth(m.year, m.month)
        \/ (m.hour > 23 /\ ~endOfDay) \/ m.minute > 59 \/ m.second > 59
     THEN Err
     ELSE Clocked(CivilDays(m.year, m.month, m.day),
                  m.hour * 3600 + m.minute * 60 + m.second - ZoneSeconds(m.zone), Fraction(m.fraction))

-----------------------------------------------------------------------------
(* parse_val_for_b_type.  enum is the EnumType the attribute names. *)

Signed == [INT8 |-> 2 ^ 7, INT16 |-> 2 ^ 15, INT24 |-> 2 ^ 23]
Unsigned == [INT8U |-> 2 ^ 8, INT16U |-> 2 ^ 16, INT24U |-> 2 ^ 24]
StringCaps == [VisString32 |-> 32, VisString64 |-> 64, VisString65 |-> 65, VisString129 |-> 129,
               ObjRef |-> 129, VisString255 |-> 255, Currency |-> 255]
OctetCaps == [Octet6 |-> 6, Octet16 |-> 16, Octet64 |-> 64]
CodedNames == [Dbpos |-> <<"intermediate-state", "off", "on", "bad-state">>,
               Tcmd |-> <<"stop", "lower", "higher", "reserved">>]
Truths == [w \in {"true", "TRUE", "1"} |-> TRUE] @@ [w \in {"false", "FALSE", "0"} |-> FALSE]

Valued(tag, v) == IF v \in {Unread, Err} THEN Err ELSE <<tag, v>>

SignedOf(n, bType) ==
  IF n = Unread THEN Err
  ELSE IF bType \in DOMAIN Signed /\ n \notin -Signed[bType] .. Signed[bType] - 1 THEN Err
  ELSE <<"int", n>>

ParseInteger(text, bType) == SignedOf(InTable(Numerals, text), bType)

UnsignedOf(n, bType) ==
  IF n = Unread THEN Err
  ELSE IF n < 0 \/ (bType \in DOMAIN Unsigned /\ n >= Unsigned[bType]) THEN Err
  ELSE <<"uint", n>>

ParseUnsigned(text, bType) == UnsignedOf(InTable(Numerals, text), bType)

(* The name of a value comes before its ordinal. *)
EnumOrdinal(vals, named, n) ==
  IF named # None THEN <<"int", named.a.ord>>
  ELSE IF n # Unread /\ \E i \in DOMAIN vals : vals[i].a.ord = n THEN <<"int", n>>
  ELSE Err

ParseEnum(text, enum) ==
  EnumOrdinal(Kids(enum, {"EnumVal"}), FirstOr(Kids(enum, {"EnumVal"}), LAMBDA v : v.text = text),
              InTable(Numerals, text))

ParseCoded(text, bType) ==
  LET at == RankIn(CodedNames[bType], Word(text))
  IN IF at = 0 THEN DefaultFor(BTypes[bType])
     ELSE <<"bits", OctetBits - 2, <<(at - 1) * (Base \div 4)>>>>

OctetsOf(octets, bType) ==
  IF octets = Err THEN Err
  ELSE IF Len(octets) > OctetCaps[bType] THEN Err ELSE <<"octets", octets>>

ParseOctets(text, bType) == OctetsOf(DecodeBase64(InTable(Base64, text)), bType)

MomentOf(m) == IF m = Unread THEN Err ELSE ParseTimestamp(m)

ParseVal(text, bType, enum) ==
  CASE bType = "BOOLEAN" -> Valued("bool", InTable(Truths, text))
    [] bType \in {"INT8", "INT16", "INT24", "INT32", "INT64", "INT128"} -> ParseInteger(text, bType)
    [] bType \in {"INT8U", "INT16U", "INT24U", "INT32U"} -> ParseUnsigned(text, bType)
    [] bType \in {"FLOAT32", "FLOAT64"} -> Valued("float", InTable(Floats, text))
    [] bType = "Enum" -> IF enum = None THEN Err ELSE ParseEnum(text, enum)
    [] bType \in DOMAIN StringCaps ->
         IF Len(text) > StringCaps[bType] THEN Err ELSE <<"visible", text>>
    [] bType = "Unicode255" -> IF Len(text) > 255 THEN Err ELSE <<"mmsString", text>>
    [] bType \in DOMAIN CodedNames -> ParseCoded(text, bType)
    [] bType \in DOMAIN OctetCaps -> ParseOctets(text, bType)
    [] bType = "Timestamp" ->
         Valued("utcTime", MomentOf(InTable(Moments, text)))
    [] bType \in {"Quality", "Check", "EntryTime", "EntryID", "OptFlds", "SvOptFlds", "LogOptFlds",
                  "TrgOps", "PhyComAddr"} -> DefaultFor(BTypes[bType])
    [] OTHER -> Err

(* attribute_type: an enumeration takes the smallest integer that holds    *)
(* its ordinals.                                                           *)
AttributeType(bType, enum) ==
  IF bType # "Enum" THEN IF bType \in DOMAIN BTypes THEN BTypes[bType] ELSE Err
  ELSE IF enum = None THEN Err
  ELSE LET Fits(span) == \A v \in ToSet(Kids(enum, {"EnumVal"})) : v.a.ord \in -span .. span - 1
       IN IF Fits(2 ^ 7) THEN <<"Enumerated">> ELSE IF Fits(2 ^ 15) THEN <<"Int16">> ELSE <<"Int32">>

(* template_initial_value. *)
TemplateInitialValue(ty, bType, enum, text) ==
  IF text = <<>> THEN DefaultFor(ty) ELSE ParseVal(text, bType, enum)

-----------------------------------------------------------------------------
(***************************************************************************)
(* Stage 2 of the SCL reader, src/crates/iec61850-scl/src/resolved/mod.rs: *)
(* the counts that name an attribute, the references between the types of  *)
(* DataTypeTemplates, their nesting, the number of nodes a file expands to *)
(* and the data sets its control blocks name.                              *)
(*                                                                         *)
(* A file is its raw SCL element; the types are its kids of the four type  *)
(* tags, taken in the order of their identifiers.  An error is Err, a      *)
(* check returns whether it passes.                                        *)
(***************************************************************************)

CONSTANTS MaxTypeNesting,    \* MAX_TYPE_NESTING
          MaxExpandedNodes   \* ResolveOptions::max_expanded_nodes

(* A sequence given by its items, as a tuple. *)
Listed(items) == items \o <<>>

MapSeq(s, F(_)) == Listed([i \in DOMAIN s |-> F(s[i])])

Types(scl, tag) == Kids(scl, {tag})

TypeOf(scl, tag, id) == FirstOr(Types(scl, tag), LAMBDA t : t.a.id = id)

Named1(raw, tag, name) == FirstOr(Kids(raw, {tag}), LAMBDA k : k.a.name = name)

LogicalDevices(ied) ==
  LET Servers(ap) == IF Kid(ap, "Server") = None THEN <<>> ELSE Kids(Kid(ap, "Server"), {"LDevice"})
      aps == Kids(ied, {"AccessPoint"})
  IN FlattenSeq(MapSeq(aps, Servers))

LogicalNodes(ld) == Kids(ld, {"LN", "LN0"})

AllNodes(ied) ==
  LET lds == LogicalDevices(ied) IN FlattenSeq(MapSeq(lds, LogicalNodes))

-----------------------------------------------------------------------------
(* Counts.  RawCount::elements: 0 marks a scalar. *)

Elements(count) == IF count = None THEN None
                   ELSE IF count[1] = "elements" /\ count[2] > 0 THEN count[2] ELSE None

ByAttribute(count) == IF count = None THEN FALSE ELSE count[1] = "attribute"

IntegerBTypes == {"INT8", "INT16", "INT24", "INT32", "INT64", "INT128", "INT8U", "INT16U", "INT24U",
                  "INT32U"}

U32Of(text) == IF Word(text) = Unread THEN Unread ELSE ParseU32(Word(text))

(* count_value: the count the attribute's default gives; the one of each   *)
(* instance when there is none.                                            *)
CountValue(count, target) ==
  IF target = None THEN Err
  ELSE IF target.a.bType \notin IntegerBTypes THEN Err
  ELSE IF target.text = <<>> THEN count
  ELSE IF U32Of(target.text) = Unread THEN Err ELSE <<"elements", U32Of(target.text)>>

(* The members of one type, the attributes a count may name among them. *)
RECURSIVE ResolveMembers(_, _)
ResolveMembers(members, attrTag) ==
  LET CountOf(k) ==
        IF k.tag \in {"DA", "BDA", "SDO"} /\ ByAttribute(k.a.count)
        THEN CountValue(k.a.count, FirstOr(members, LAMBDA m : m.tag = attrTag /\ m.a.name = k.a.count[2]))
        ELSE None
      Resolved(k) == IF CountOf(k) = None THEN k ELSE [k EXCEPT !.a.count = CountOf(k)]
      inner == MapSeq(members, LAMBDA m : ResolveMembers(m.kids, "BDA"))
  IN IF \E i \in DOMAIN members : CountOf(members[i]) = Err \/ inner[i] = Err THEN Err
     ELSE [i \in DOMAIN members |-> [Resolved(members[i]) EXCEPT !.kids = inner[i]]]

ResolveCounts(scl) ==
  LET Type(t) == CASE t.tag = "DOType" -> ResolveMembers(t.kids, "DA")
                   [] t.tag = "DAType" -> ResolveMembers(t.kids, "BDA")
                   [] OTHER -> t.kids
      kids == MapSeq(scl.kids, Type)
  IN IF \E i \in DOMAIN kids : kids[i] = Err THEN Err
     ELSE [scl EXCEPT !.kids = [i \in DOMAIN kids |-> [scl.kids[i] EXCEPT !.kids = kids[i]]]]

-----------------------------------------------------------------------------
(* References. *)

LnTypesResolve(scl) ==
  \A ied \in ToSet(Kids(scl, {"IED"})) : \A ln \in ToSet(AllNodes(ied)) :
    TypeOf(scl, "LNodeType", ln.a.lnType) # None

DoTypesResolve(scl) ==
  \A t \in ToSet(Types(scl, "LNodeType")) : \A d \in ToSet(Kids(t, {"DO"})) :
    TypeOf(scl, "DOType", d.a.type) # None

AttrTypeResolves(scl, k) ==
  /\ k.a.bType = "Enum" => k.a.type # None /\ TypeOf(scl, "EnumType", k.a.type) # None
  /\ k.a.bType = "Struct" => k.a.type # None /\ TypeOf(scl, "DAType", k.a.type) # None

DoMembersResolve(scl) ==
  \A t \in ToSet(Types(scl, "DOType")) :
    /\ \A s \in ToSet(Kids(t, {"SDO"})) : TypeOf(scl, "DOType", s.a.type) # None
    /\ \A d \in ToSet(Kids(t, {"DA"})) : AttrTypeResolves(scl, d)

(* A walk of the sub-objects of every DOType: a stack of <<id, the next    *)
(* member>> and the height of the types already left.                      *)
Fails(st) == [st EXCEPT !.err = TRUE]

DoTypeStepOnStack(scl, st) ==
  LET top == Last(st.stack)
      sdos == Kids(TypeOf(scl, "DOType", top[1]), {"SDO"})
      known == {st.height[s.a.type] : s \in {x \in ToSet(sdos) : x.a.type \in DOMAIN st.height}}
      below == Max(known \cup {0})
      next == IF top[2] <= Len(sdos) THEN sdos[top[2]].a.type ELSE None
      moved == [st EXCEPT !.stack[Len(st.stack)] = <<top[1], top[2] + 1>>]
  IN IF next = None
     THEN [st EXCEPT !.stack = Front(@), !.height = (top[1] :> below + 1) @@ @]
     ELSE IF \E i \in DOMAIN st.stack : st.stack[i][1] = next THEN Fails(st)
     ELSE IF next \in DOMAIN st.height THEN moved
     ELSE IF Len(st.stack) >= MaxTypeNesting THEN Fails(st)
     ELSE [moved EXCEPT !.stack = Append(@, <<next, 1>>)]

DoTypeStep(scl, st) ==
  LET top == Last(st.stack)
      sdos == Kids(TypeOf(scl, "DOType", top[1]), {"SDO"})
      known == {st.height[s.a.type] : s \in {x \in ToSet(sdos) : x.a.type \in DOMAIN st.height}}
      below == Max(known \cup {0})
      next == IF top[2] <= Len(sdos) THEN sdos[top[2]].a.type ELSE None
      moved == [st EXCEPT !.stack[Len(st.stack)] = <<top[1], top[2] + 1>>]
  IN IF next = None
     THEN IF below + 1 > MaxTypeNesting THEN Fails(st)
          ELSE [st EXCEPT !.stack = Front(@), !.height = (top[1] :> below + 1) @@ @]
     ELSE IF \E i \in DOMAIN st.stack : st.stack[i][1] = next THEN Fails(st)
     ELSE IF next \in DOMAIN st.height THEN moved
     ELSE IF Len(st.stack) >= MaxTypeNesting THEN Fails(st)
     ELSE [moved EXCEPT !.stack = Append(@, <<next, 1>>)]

RECURSIVE DoTypeWalk(_, _)
DoTypeWalk(scl, st) ==
  IF st.err \/ st.stack = <<>> THEN st ELSE DoTypeWalk(scl, DoTypeStep(scl, st))

DoTypesNest(scl) ==
  LET Root(st, t) ==
        IF st.err \/ t.a.id \in DOMAIN st.height THEN st
        ELSE DoTypeWalk(scl, [st EXCEPT !.stack = << <<t.a.id, 1>> >>])
  IN ~FoldLeft(Root, [stack |-> <<>>, height |-> <<>>, err |-> FALSE], Types(scl, "DOType")).err

(* check_bda_recursive: the height below a member, with the heights of the *)
(* types met; visited are the types being walked.                          *)
RECURSIVE BdaWalk(_, _, _, _)
BdaWalk(scl, bdas, visited, st) ==
  LET Next(acc, k) ==
        LET id == k.a.type
            inner ==
              IF acc.err \/ ~AttrTypeResolves(scl, k) THEN Fails(acc)
              ELSE IF k.a.bType # "Struct" THEN [acc EXCEPT !.below = 0]
              ELSE IF \E i \in DOMAIN visited : visited[i] = id THEN Fails(acc)
              ELSE IF id \in DOMAIN acc.height
                   THEN IF Len(visited) + acc.height[id] > MaxTypeNesting THEN Fails(acc)
                        ELSE [acc EXCEPT !.below = acc.height[id]]
              ELSE IF Len(visited) >= MaxTypeNesting THEN Fails(acc)
              ELSE LET in == BdaWalk(scl, Kids(TypeOf(scl, "DAType", id), {"BDA"}),
                                     Append(visited, id), [acc EXCEPT !.below = 0])
                   IN [in EXCEPT !.below = @ + 1, !.height = (id :> in.below + 1) @@ @]
            nested == IF inner.err THEN inner ELSE BdaWalk(scl, k.kids, visited, [inner EXCEPT !.below = 0])
        IN [nested EXCEPT !.below = Max({acc.below, inner.below, nested.below})]
  IN FoldLeft(Next, st, bdas)

DaTypesNest(scl) ==
  LET Root(st, t) ==
        IF st.err \/ t.a.id \in DOMAIN st.height THEN st
        ELSE LET in == BdaWalk(scl, Kids(t, {"BDA"}), <<t.a.id>>, [st EXCEPT !.below = 0])
             IN [in EXCEPT !.height = (t.a.id :> in.below + 1) @@ @]
  IN ~FoldLeft(Root, [below |-> 0, height |-> <<>>, err |-> FALSE], Types(scl, "DAType")).err
-----------------------------------------------------------------------------
(* Instance values: the DOI, SDI and DAI elements of a logical node. *)

DoiChildren(ln, name) ==
  LET doi == IF ln = None THEN None ELSE Named1(ln, "DOI", name) IN IF doi = None THEN None ELSE doi.kids

InstanceChildren(values, name) ==
  IF values = None THEN None
  ELSE LET sdi == FirstOr(values, LAMBDA v : v.tag = "SDI" /\ v.a.name = name /\ v.a.ix = None)
       IN IF sdi = None THEN None ELSE sdi.kids

(* The Val that counts outside setting groups, or the first one. *)
PlainVal(dai) ==
  LET plain == FirstOr(dai.kids, LAMBDA v : v.a.sGroup = None)
  IN IF plain # None THEN plain ELSE IF dai.kids = <<>> THEN None ELSE dai.kids[1]

CountText(attr, values) ==
  LET dai == IF values = None THEN None
             ELSE FirstOr(values, LAMBDA v : v.tag = "DAI" /\ v.a.name = attr /\ v.a.ix = None)
  IN IF dai = None THEN None ELSE IF PlainVal(dai) = None THEN None ELSE PlainVal(dai).text

InstanceCount(count, values) ==
  IF ~ByAttribute(count) THEN Elements(count)
  ELSE LET text == CountText(count[2], values)
           n == IF text = None THEN Unread ELSE U32Of(text)
       IN IF n = Unread THEN None ELSE IF n = 0 THEN None ELSE n

-----------------------------------------------------------------------------
(* The nodes a type expands to, for the values of an instance. *)

Total(s) == FoldLeft(LAMBDA n, k : n + k, 0, s)

WithCount(element, count) == IF count = None THEN element ELSE 1 + element * count

WithSettingView(nodes, derives) == IF derives THEN 2 * nodes ELSE nodes

(* The SG view of a setting that declares only its SE view is derived. *)
DerivesSettingView(da, dot) ==
  /\ da.a.fc = "SE"
  /\ ~\E i \in DOMAIN dot.kids :
       dot.kids[i].tag = "DA" /\ dot.kids[i].a.name = da.a.name /\ dot.kids[i].a.fc = "SG"

StructType(scl, k) == IF k.a.bType = "Struct" THEN TypeOf(scl, "DAType", k.a.type) ELSE None

BdasOf(type) == IF type = None THEN <<>> ELSE Kids(type, {"BDA"})

RECURSIVE BdaNodes(_, _, _)
BdaNodes(scl, bdas, values) ==
  Total([i \in DOMAIN bdas |->
           WithCount(1 + BdaNodes(scl, BdasOf(StructType(scl, bdas[i])) \o bdas[i].kids,
                                  InstanceChildren(values, bdas[i].a.name)),
                     InstanceCount(bdas[i].a.count, values))])

DaTypeNodes(scl, t, values) == BdaNodes(scl, BdasOf(t), values)

DaNodes(k, t, nodes) == WithSettingView(nodes, k.tag = "DA" /\ DerivesSettingView(k, t))

RECURSIVE DoTypeNodes(_, _, _)
DoTypeNodes(scl, t, values) ==
  Total([i \in DOMAIN t.kids |->
           LET k == t.kids[i]
               in == InstanceChildren(values, k.a.name)
           IN DaNodes(k, t, WithCount(1 + IF k.tag = "SDO"
                                          THEN DoTypeNodes(scl, TypeOf(scl, "DOType", k.a.type), in)
                                          ELSE DaTypeNodes(scl, StructType(scl, k), in),
                                      InstanceCount(k.a.count, values)))])

DoNodes(scl, dos, ln) ==
  Total([i \in DOMAIN dos |-> 1 + DoTypeNodes(scl, TypeOf(scl, "DOType", dos[i].a.type),
                                             DoiChildren(ln, dos[i].a.name))])

(* ln is None for a type on its own. *)
LnTypeNodes(scl, t, ln) == DoNodes(scl, Kids(t, {"DO"}), ln)

LnNodes(scl, lns) ==
  Total([i \in DOMAIN lns |-> 1 + LnTypeNodes(scl, TypeOf(scl, "LNodeType", lns[i].a.lnType), lns[i])])

IedNodes(scl, ied) == LnNodes(scl, AllNodes(ied))

(* check_expanded_nodes: every type on its own, then every IED. *)
ExpansionFits(scl) ==
  /\ \A t \in ToSet(Types(scl, "DAType")) : DaTypeNodes(scl, t, None) <= MaxExpandedNodes
  /\ \A t \in ToSet(Types(scl, "DOType")) : DoTypeNodes(scl, t, None) <= MaxExpandedNodes
  /\ \A t \in ToSet(Types(scl, "LNodeType")) : LnTypeNodes(scl, t, None) <= MaxExpandedNodes
  /\ \A ied \in ToSet(Kids(scl, {"IED"})) : IedNodes(scl, ied) <= MaxExpandedNodes

-----------------------------------------------------------------------------
DataSetsNamed(scl) ==
  \A ied \in ToSet(Kids(scl, {"IED"})) : \A ln \in ToSet(AllNodes(ied)) :
    \A cb \in ToSet(Kids(ln, {"ReportControl", "LogControl", "GSEControl", "SampledValueControl"})) :
      cb.a.datSet \in {None, ""} \/ Named1(ln, "DataSet", cb.a.datSet) # None

(* from_raw_with: the file with its counts resolved, or Err. *)
Checked(scl) ==
  IF scl = Err THEN Err
  ELSE IF /\ LnTypesResolve(scl) /\ DoTypesResolve(scl) /\ DoMembersResolve(scl)
          /\ DoTypesNest(scl) /\ DaTypesNest(scl) /\ ExpansionFits(scl) /\ DataSetsNamed(scl)
       THEN scl ELSE Err

Resolve(raw) == Checked(ResolveCounts(raw))

(***************************************************************************)
(* The model                                                               *)
(***************************************************************************)
CONSTANTS NamePaths,        \* the doName and daName texts: their segments [name, index]
          ParameterTypes,   \* the P types an Address takes
          MaxGroups,        \* 255
          MaxInstances,     \* 99
          MaxResvTms        \* 65535

AnyErr(s) == \E i \in DOMAIN s : s[i] = Err

-----------------------------------------------------------------------------
(* Attributes and data objects. *)

EnumOf(scl, k) == IF k.a.bType = "Enum" /\ k.a.type # None THEN TypeOf(scl, "EnumType", k.a.type) ELSE None

DaTrgOps(k) == {t \in {"dchg", "qchg", "dupd"} : k.a[t]}

ElementCount(count, values) ==
  IF ~ByAttribute(count) THEN Elements(count)
  ELSE LET text == CountText(count[2], values)
       IN IF text = None THEN None
          ELSE IF U32Of(text) = Unread THEN Err
          ELSE IF U32Of(text) = 0 THEN None ELSE U32Of(text)

RECURSIVE NodeCount(_)
NodeCount(n) == 1 + Total([i \in DOMAIN n.children |-> NodeCount(n.children[i])])

(* An array of the counted element, within the limit of nodes. *)
Counted(element, count) ==
  IF count = Err \/ element = Err THEN Err
  ELSE IF count = None THEN element
  ELSE IF 1 + NodeCount(element) * count > MaxExpandedNodes THEN Err
  ELSE ArrayOf(element, count)

LeafWith(k, fc, trg, ty, value) == IF value = Err THEN Err ELSE Attribute(k.a.name, fc, ty, trg, value)

LeafTyped(k, fc, trg, enum, ty) ==
  IF ty = Err THEN Err ELSE LeafWith(k, fc, trg, ty, TemplateInitialValue(ty, k.a.bType, enum, k.text))

LeafOf(scl, k, fc, trg) == LeafTyped(k, fc, trg, EnumOf(scl, k), AttributeType(k.a.bType, EnumOf(scl, k)))

Structure(k, fc, trg, below) == IF AnyErr(below) THEN Err ELSE Triggered(k.a.name, fc, trg, below)

RECURSIVE BuildBdas(_, _, _, _)
BuildBdas(scl, bdas, fc, values) ==
  Listed([i \in DOMAIN bdas |->
    LET k == bdas[i]
    IN Counted(IF k.a.bType # "Struct" THEN LeafOf(scl, k, fc, {})
               ELSE Structure(k, fc, {}, BuildBdas(scl, BdasOf(StructType(scl, k)), fc,
                                                   InstanceChildren(values, k.a.name))),
               ElementCount(k.a.count, values))])

BuildDaElement(scl, k, values) ==
  IF k.a.bType # "Struct" THEN LeafOf(scl, k, k.a.fc, DaTrgOps(k))
  ELSE Structure(k, k.a.fc, DaTrgOps(k), BuildBdas(scl, BdasOf(StructType(scl, k)), k.a.fc, values))

BuildDa(scl, k, values) ==
  Counted(BuildDaElement(scl, k, InstanceChildren(values, k.a.name)), ElementCount(k.a.count, values))

RECURSIVE SettingView(_)
SettingView(n) ==
  [n EXCEPT !.fc = "SG", !.children = MapSeq(n.children, LAMBDA c : SettingView(c))]

WithView(da, derives) == IF da # Err /\ derives THEN <<da, SettingView(da)>> ELSE <<da>>

ObjectOf(name, children) == IF AnyErr(children) THEN Err ELSE BuildDataObject(name, None, children)

(* The children in the order of the type; a derived view follows its setting. *)
RECURSIVE ExpandDoType(_, _, _, _)
ExpandDoType(scl, name, dot, values) ==
  ObjectOf(name, FlattenSeq([i \in DOMAIN dot.kids |->
    LET k == dot.kids[i]
    IN IF k.tag # "SDO" THEN WithView(BuildDa(scl, k, values), DerivesSettingView(k, dot))
       ELSE <<Counted(ExpandDoType(scl, k.a.name, TypeOf(scl, "DOType", k.a.type),
                                   InstanceChildren(values, k.a.name)),
                      ElementCount(k.a.count, values))>>]))

BuildDo(scl, d, ln) ==
  ExpandDoType(scl, d.a.name, TypeOf(scl, "DOType", d.a.type), DoiChildren(ln, d.a.name))

-----------------------------------------------------------------------------
(* Data sets. *)

Segments1(text) == IF text \in {None, ""} THEN <<>> ELSE Lookup(NamePaths, text)

(* fcda_do_path: one element index at most, the one ix gives when both do. *)
FcdaDoPath(doName, daName, ix) ==
  LET d == Segments1(doName)
      a == Segments1(daName)
      all == IF d = Unread \/ a = Unread THEN <<>> ELSE d \o a
      indexed == {i \in DOMAIN all : all[i].index # None}
      named == IF indexed = {} THEN None ELSE all[Min(indexed)].index
  IN IF \/ d = Unread \/ a = Unread \/ Cardinality(indexed) > 1
        \/ named # None /\ ix # None /\ named # ix
     THEN Err
     ELSE [path |-> [i \in DOMAIN all |-> all[i].name], index |-> IF ix # None THEN ix ELSE named]

OrEmpty(text) == IF text = None THEN "" ELSE text

BuildFcda(f) ==
  LET at == FcdaDoPath(f.a.doName, f.a.daName, f.a.ix)
  IN IF at = Err THEN Err
     ELSE [ld |-> f.a.ldInst, ln |-> OrEmpty(f.a.prefix) \o f.a.lnClass \o OrEmpty(f.a.lnInst),
           fc |-> f.a.fc, path |-> at.path, index |-> at.index, component |-> <<>>]

BuildDataset(ds) ==
  LET entries == MapSeq(ds.kids, BuildFcda)
  IN IF AnyErr(entries) THEN Err ELSE [name |-> ds.a.name, entries |-> entries]

-----------------------------------------------------------------------------
(* Control blocks. *)

ReportTrgOps(bits) ==
  {t \in {"dchg", "qchg", "dupd"} : bits[t]} \cup (IF bits.period THEN {"integrity"} ELSE {})
  \cup (IF bits.gi THEN {"gi"} ELSE {})

LogTrgOps(bits) == ReportTrgOps([bits EXCEPT !.gi = FALSE])

OptFldsOf(bits) == {o \in DOMAIN bits : bits[o]}

(* report_instances: <<indexed, instances>>. *)
ReportInstances(r) ==
  LET max == IF Kid(r, "RptEnabled") = None THEN 1 ELSE Kid(r, "RptEnabled").a.max
  IN IF ~r.a.indexed THEN <<FALSE, 1>> ELSE IF max > MaxInstances THEN Err ELSE <<TRUE, max>>

BuildRcb(r, settings) ==
  LET instances == ReportInstances(r)
  IN IF instances = Err THEN Err
     ELSE [name |-> r.a.name, datSet |-> OrEmpty(r.a.datSet), buffered |-> r.a.buffered,
           confRev |-> r.a.confRev, rptId |-> OrEmpty(r.a.rptID), trg |-> ReportTrgOps(Bits(r, "TrgOps")),
           opt |-> OptFldsOf(Bits(r, "OptFields")), bufTm |-> r.a.bufTime, intgPd |-> r.a.intgPd,
           indexed |-> instances[1], instances |-> instances[2],
           owner |-> settings # None /\ settings.a.owner, resvTms |-> settings # None /\ settings.a.resvTms]

GoId(g, domain) == IF g.a.appID = "" THEN domain \o "/LLN0$GO$" \o g.a.name ELSE g.a.appID

BuildGocb(g, domain) ==
  [name |-> g.a.name, datSet |-> g.a.datSet, goId |-> GoId(g, domain), confRev |-> g.a.confRev, gse |-> None]

SvId(v, domain) ==
  IF v.a.smvID # "" THEN v.a.smvID
  ELSE domain \o (IF v.a.multicast THEN "/LLN0$MS$" ELSE "/LLN0$US$") \o v.a.name

BuildSvcb(v, domain) ==
  [name |-> v.a.name, datSet |-> v.a.datSet, svId |-> SvId(v, domain), confRev |-> v.a.confRev,
   multicast |-> v.a.multicast, smv |-> None]

BuildLcb(l) ==
  [name |-> l.a.name, logRef |-> OrEmpty(l.a.logName), datSet |-> OrEmpty(l.a.datSet), logEna |-> l.a.logEna,
   reasonCode |-> l.a.reasonCode, bufTm |-> l.a.bufTime, trg |-> LogTrgOps(Bits(l, "TrgOps")),
   intgPd |-> l.a.intgPd]

BuildSgcb(s) ==
  IF s = None THEN None
  ELSE IF s.a.numOfSGs > MaxGroups \/ s.a.actSG > MaxGroups THEN Err
  ELSE [num |-> s.a.numOfSGs, act |-> s.a.actSG, resv |-> s.a.resvTms # None,
        resvTms |-> IF s.a.resvTms = None THEN 60 ELSE Min({s.a.resvTms, MaxResvTms})]

-----------------------------------------------------------------------------
(* Instance values.  sgs is the numOfSGs of the logical device. *)

(* attribute_element_mut and object_element_mut: an element of an array    *)
(* with an ix, a scalar without; anything else is skipped.                 *)
Reached(n, ix) == IF IsArray(n) THEN ix # None /\ ix < Len(n.children) ELSE ix = None

ElementAt(n, ix) == IF ix = None THEN n ELSE n.children[ix + 1]

PutElement(n, ix, e) == IF e = Err THEN Err ELSE IF ix = None THEN e ELSE [n EXCEPT !.children[ix + 1] = e]

PutChildren(n, new) == IF AnyErr(new) THEN Err ELSE [n EXCEPT !.children = new]

NamedChildrenOnce(n, kind, name) ==
  {i \in DOMAIN n.children :
     /\ n.children[i].kind = kind /\ n.children[i].name = name
     /\ \A j \in 1 .. i - 1 : n.children[j].name # name}

NamedChildren(n, kind, name) ==
  {i \in DOMAIN n.children : n.children[i].kind = kind /\ n.children[i].name = name}

FirstOf(hits) == IF hits = {} THEN {} ELSE {Min(hits)}

(* dai_values: <<the value, the values by setting group>>.  A second value *)
(* outside the groups is not read.                                         *)
Grouped(kids) == {i \in DOMAIN kids : kids[i].a.sGroup # None}

GroupedValues(kids, parsed, plain, limit) ==
  IF \/ \E i \in Grouped(kids) : kids[i].a.sGroup \notin 1 .. limit
     \/ \E i, j \in Grouped(kids) : i # j /\ kids[i].a.sGroup = kids[j].a.sGroup
     \/ \E i \in Grouped(kids) \cup {plain} : parsed[i] = Err
  THEN Err
  ELSE <<parsed[plain],
         [g \in {kids[i].a.sGroup : i \in Grouped(kids)} |-> parsed[FirstIndex(kids, LAMBDA v : v.a.sGroup = g)]]>>

DaiValues(scl, dai, k, sgs) ==
  GroupedValues(dai.kids, Listed([i \in DOMAIN dai.kids |-> ParseVal(dai.kids[i].text, k.a.bType, EnumOf(scl, k))]),
                Max({1, FirstIndex(dai.kids, LAMBDA v : v.a.sGroup = None)}),
                IF sgs = None THEN MaxGroups ELSE Min({sgs, MaxGroups}))

Assigned(n, values) == IF values = Err THEN Err ELSE [n EXCEPT !.value = values[1], !.groups = values[2]]

ApplyDaiValue(scl, dai, n, k, sgs) ==
  IF dai.kids = <<>> THEN n
  ELSE IF k.a.bType = "Struct" THEN Err
  ELSE Assigned(n, DaiValues(scl, dai, k, sgs))

RECURSIVE ApplyAtDo(_, _, _, _, _)
RECURSIVE ApplyAtDa(_, _, _, _, _)
ApplyElement(scl, inst, m, sdo, k, sgs) ==
  IF sdo # None THEN ApplyAtDo(scl, inst.kids, m, TypeOf(scl, "DOType", sdo.a.type), sgs)
  ELSE IF inst.tag = "DAI" THEN ApplyDaiValue(scl, inst, m, k, sgs)
  ELSE ApplyAtDa(scl, inst.kids, m, TypeOf(scl, "DAType", k.a.type), sgs)

ApplyTo(scl, n, hits, inst, sdo, k, sgs) ==
  PutChildren(n, Listed([i \in DOMAIN n.children |->
    LET c == n.children[i]
        ix == inst.a.ix
    IN IF i \notin hits THEN c
       ELSE IF ~Reached(c, ix) THEN c
       ELSE PutElement(c, ix, ApplyElement(scl, inst, ElementAt(c, ix), sdo, k, sgs))]))

ApplyBda(scl, n, inst, k, sgs) ==
  IF k = None THEN n
  ELSE IF inst.tag = "SDI" /\ k.a.bType # "Struct" THEN n
  ELSE ApplyTo(scl, n, FirstOf(NamedChildren(n, "att", inst.a.name)), inst, None, k, sgs)

ApplyAtDa(scl, children, da, dat, sgs) ==
  IF da = Err \/ children = <<>> THEN da
  ELSE LET inst == Head(children)
       IN ApplyAtDa(scl, Tail(children), ApplyBda(scl, da, inst, Named1(dat, "BDA", inst.a.name), sgs), dat, sgs)

(* A value reaches both views of a setting. *)
ApplyMember(scl, n, inst, sdo, k, sgs) ==
  IF sdo = None /\ (k = None \/ (inst.tag = "SDI" /\ k.a.bType # "Struct")) THEN n
  ELSE ApplyTo(scl, n, IF sdo # None THEN FirstOf(NamedChildren(n, "obj", inst.a.name))
                       ELSE NamedChildren(n, "att", inst.a.name), inst, sdo, k, sgs)

ApplyAtDo(scl, children, dobj, dot, sgs) ==
  IF dobj = Err \/ children = <<>> THEN dobj
  ELSE LET inst == Head(children)
       IN ApplyAtDo(scl, Tail(children),
                    ApplyMember(scl, dobj, inst,
                                IF inst.tag = "DAI" THEN None ELSE Named1(dot, "SDO", inst.a.name),
                                Named1(dot, "DA", inst.a.name), sgs),
                    dot, sgs)

PutDo(ln, i, new) == IF new = Err THEN Err ELSE [ln EXCEPT !.dos[i] = new]

ApplyDoi(scl, ln, doi, d, i, sgs) ==
  IF d = None \/ i = 0 THEN ln
  ELSE PutDo(ln, i, ApplyAtDo(scl, doi.kids, ln.dos[i], TypeOf(scl, "DOType", d.a.type), sgs))

RECURSIVE ApplyDois(_, _, _, _, _)
ApplyDois(scl, ln, dois, type, sgs) ==
  IF ln = Err \/ dois = <<>> THEN ln
  ELSE LET name == Head(dois).a.name
       IN ApplyDois(scl, ApplyDoi(scl, ln, Head(dois), Named1(type, "DO", name),
                                  FirstIndex(ln.dos, LAMBDA x : x.name = name), sgs),
                    Tail(dois), type, sgs)

ApplyDoiOverrides(scl, ln, raw, sgs) ==
  ApplyDois(scl, ln, Kids(raw, {"DOI"}), TypeOf(scl, "LNodeType", raw.a.lnType), sgs)

-----------------------------------------------------------------------------
(* Logical nodes and devices. *)

NodeFrom(raw, dos, datasets, rcbs, gocbs, svcbs, lcbs, sgcb) ==
  IF AnyErr(dos) \/ AnyErr(datasets) \/ AnyErr(rcbs) \/ sgcb = Err THEN Err
  ELSE BuildLogicalNode(
         [prefix |-> OrEmpty(raw.a.prefix), class |-> raw.a.lnClass, inst |-> raw.a.inst, dos |-> dos,
          datasets |-> datasets, rcbs |-> rcbs, gocbs |-> gocbs, svcbs |-> svcbs, lcbs |-> lcbs, sgcb |-> sgcb])

BuildDos(scl, dos, raw) == Listed([i \in DOMAIN dos |-> BuildDo(scl, dos[i], raw)])

BuildLn(scl, raw, domain, sgs, settings) ==
  ApplyDoiOverrides(scl,
    NodeFrom(raw, BuildDos(scl, Kids(TypeOf(scl, "LNodeType", raw.a.lnType), {"DO"}), raw),
             MapSeq(Kids(raw, {"DataSet"}), BuildDataset),
             MapSeq(Kids(raw, {"ReportControl"}), LAMBDA r : BuildRcb(r, settings)),
             MapSeq(Kids(raw, {"GSEControl"}), LAMBDA g : BuildGocb(g, domain)),
             MapSeq(Kids(raw, {"SampledValueControl"}), LAMBDA v : BuildSvcb(v, domain)),
             MapSeq(Kids(raw, {"LogControl"}), BuildLcb),
             BuildSgcb(Kid(raw, "SettingControl"))),
    raw, sgs)

LdNumOfSgs(ld) ==
  LET ln == FirstOr(LogicalNodes(ld), LAMBDA n : Kid(n, "SettingControl") # None)
  IN IF ln = None THEN None ELSE Kid(ln, "SettingControl").a.numOfSGs

LdDomainName(ied, ld) == DomainName(ied, [inst |-> ld.a.inst, ldName |-> ld.a.ldName])

DeviceFrom(ld, lns) ==
  IF AnyErr(lns) THEN Err ELSE BuildLogicalDevice([inst |-> ld.a.inst, ldName |-> ld.a.ldName, lns |-> lns])

BuildLns(scl, lns, domain, sgs, settings) ==
  Listed([i \in DOMAIN lns |-> BuildLn(scl, lns[i], domain, sgs, settings)])

BuildLd(scl, ld, ied, settings) ==
  DeviceFrom(ld, BuildLns(scl, LogicalNodes(ld), LdDomainName(ied, ld), LdNumOfSgs(ld), settings))

ReportSettings(ied, ap) ==
  IF Kid(ap, "ReportSettings") # None THEN Kid(ap, "ReportSettings") ELSE Kid(ied, "ReportSettings")

(* The logical devices of an IED with the settings of their access point. *)
ServedDevices(ied) ==
  LET aps == Kids(ied, {"AccessPoint"})
      Of(ap) == IF Kid(ap, "Server") = None THEN <<>>
                ELSE MapSeq(Kids(Kid(ap, "Server"), {"LDevice"}), LAMBDA d : <<d, ReportSettings(ied, ap)>>)
  IN FlattenSeq(MapSeq(aps, Of))

-----------------------------------------------------------------------------
(* Communication. *)

(* to_address: the parameters Address::push takes. *)
ToAddress(raw) ==
  LET taken == SelectSeq(raw.kids, LAMBDA p : p.a.type \in ParameterTypes /\ ToSet(p.text) \ {" "} # {})
  IN MapSeq(taken, LAMBDA p : <<p.a.type, p.text>>)

(* <<the sub-network, the connected access point>>. *)
ConnectedApsOf(scl, ied) ==
  LET nets == IF Kid(scl, "Communication") = None THEN <<>> ELSE Kids(Kid(scl, "Communication"), {"SubNetwork"})
      Of(n) == MapSeq(Kids(n, {"ConnectedAP"}), LAMBDA ap : <<n, ap>>)
  IN SelectSeq(FlattenSeq(MapSeq(nets, Of)), LAMBDA c : c[2].a.iedName = ied)

TimeOf(gse, tag) == IF Kid(gse, tag) = None THEN None ELSE Kid(gse, tag).text[1]

CheckConnectedAp(scl, cap) ==
  LET ied == Named1(scl, "IED", cap.a.iedName)
      ap == IF ied = None THEN None ELSE Named1(ied, "AccessPoint", cap.a.apName)
      Lln0(inst) ==
        LET lds == IF Kid(ap, "Server") = None THEN <<>> ELSE Kids(Kid(ap, "Server"), {"LDevice"})
            ld == FirstOr(lds, LAMBDA d : d.a.inst = inst)
        IN IF ld = None THEN None ELSE FirstOr(LogicalNodes(ld), LAMBDA n : n.a.lnClass = "LLN0")
      Controls1(inst, tag, name) ==
        IF Lln0(inst) = None THEN FALSE ELSE Named1(Lln0(inst), tag, name) # None
  IN /\ ap # None
     /\ \A g \in ToSet(Kids(cap, {"GSE"})) :
          /\ Controls1(g.a.ldInst, "GSEControl", g.a.cbName)
          /\ TimeOf(g, "MinTime") # None /\ TimeOf(g, "MaxTime") # None
               => TimeOf(g, "MinTime") <= TimeOf(g, "MaxTime")
     /\ \A v \in ToSet(Kids(cap, {"SMV"})) : Controls1(v.a.ldInst, "SampledValueControl", v.a.cbName)

ConnectedAccessPoints(scl, ied) ==
  LET caps == ConnectedApsOf(scl, ied)
  IN IF \E i \in DOMAIN caps : ~CheckConnectedAp(scl, caps[i][2]) THEN Err
     ELSE MapSeq(caps, LAMBDA c :
            [net |-> c[1].a.name, type |-> c[1].a.type, ap |-> c[2].a.apName,
             address |-> IF Kid(c[2], "Address") = None THEN None ELSE ToAddress(Kid(c[2], "Address"))])

AddressOf(raw) == IF Kid(raw, "Address") = None THEN <<>> ELSE ToAddress(Kid(raw, "Address"))

(* The first address of a control block counts. *)
FirstPerBlock(all) ==
  FoldLeft(LAMBDA out, b : IF \E i \in DOMAIN out : out[i].a.ldInst = b.a.ldInst /\ out[i].a.cbName = b.a.cbName
                           THEN out ELSE Append(out, b), <<>>, all)

BusElements(scl, ied, tag) == FlattenSeq(MapSeq(ConnectedApsOf(scl, ied), LAMBDA c : Kids(c[2], {tag})))

GseAddresses(scl, ied) ==
  MapSeq(FirstPerBlock(BusElements(scl, ied, "GSE")), LAMBDA g :
    [ld |-> g.a.ldInst, cb |-> g.a.cbName,
     at |-> [address |-> AddressOf(g), min |-> TimeOf(g, "MinTime"), max |-> TimeOf(g, "MaxTime")]])

SmvAddresses(scl, ied) ==
  MapSeq(FirstPerBlock(BusElements(scl, ied, "SMV")), LAMBDA v :
    [ld |-> v.a.ldInst, cb |-> v.a.cbName, at |-> AddressOf(v)])

AttachGse(model, gse) ==
  LET i == FirstIndex(model.lds, LAMBDA d : d.inst = gse.ld)
      j == IF i = 0 THEN 0 ELSE FirstIndex(model.lds[i].lns[1].gocbs, LAMBDA c : c.name = gse.cb)
  IN IF j = 0 THEN model ELSE [model EXCEPT !.lds[i].lns[1].gocbs[j].gse = gse.at]

AttachSmv(model, smv) ==
  LET i == FirstIndex(model.lds, LAMBDA d : d.inst = smv.ld)
      j == IF i = 0 THEN 0 ELSE FirstIndex(model.lds[i].lns[1].svcbs, LAMBDA c : c.name = smv.cb)
  IN IF j = 0 THEN model ELSE [model EXCEPT !.lds[i].lns[1].svcbs[j].smv = smv.at]

Attached(scl, ied, model) ==
  IF model = Err THEN Err
  ELSE FoldLeft(AttachSmv, FoldLeft(AttachGse, model, GseAddresses(scl, ied)), SmvAddresses(scl, ied))

ModelFrom(name, lds, aps) ==
  IF AnyErr(lds) \/ aps = Err THEN Err ELSE BuildModel([name |-> name, lds |-> lds, aps |-> aps])

BuildDevices(scl, served, name) ==
  IF served = <<>> THEN Err
  ELSE ModelFrom(name, Listed([i \in DOMAIN served |-> BuildLd(scl, served[i][1], name, served[i][2])]),
                 ConnectedAccessPoints(scl, name))

ServedOf(ied) == IF ied = None THEN <<>> ELSE ServedDevices(ied)

(* ResolvedScl::build_model. *)
BuildIedModel(scl, name) ==
  Attached(scl, name, BuildDevices(scl, ServedOf(Named1(scl, "IED", name)), name))
=============================================================================
