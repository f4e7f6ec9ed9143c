--------------------------- MODULE VariableAccess ---------------------------
(***************************************************************************)
(* The answer to one item of an MMS Read, as a function of the valuation   *)
(* the service reads: src/crates/iec61850-server service/read.rs and       *)
(* convert.rs, the handler matching of handler.rs, and the routing and the *)
(* control block structures of service/mod.rs.                             *)
(*                                                                         *)
(* A result is <<"success", data>>, <<"failure", error>> or <<"over">>, the *)
(* last when the data outgrow what the negotiated PDU has room for.  A     *)
(* scope maps the path of each handler on the branch of the item to the    *)
(* outcome it gave: Miss, <<"error", e>> or <<"hit", value>>.              *)
(***************************************************************************)
EXTENDS DeviceModel

Success(d) == <<"success", d>>
Failure(e) == <<"failure", e>>
OverBudget == <<"over">>
Miss == <<"miss">>

(* The first failure of a sequence of results, or the sequence of values. *)
AllOf(results) ==
  LET bad == {i \in DOMAIN results : results[i][1] = "failure"}
  IN IF bad # {} THEN results[Min(bad)] ELSE Success([i \in DOMAIN results |-> results[i][2]])

Wrap(kind, result) == IF result[1] = "failure" THEN result ELSE Success(<<kind, result[2]>>)

-----------------------------------------------------------------------------
(* Values and data. *)

(* The padding bits of a bit string are cleared on the way in and out. *)
BitStringBytes(padding, octets) ==
  IF octets = <<>> THEN octets
  ELSE [octets EXCEPT ![Len(octets)] = @ - (@ % 2 ^ padding)]

RECURSIVE MmsValueToMmsData(_)
MmsValueToMmsData(v) ==
  CASE v[1] = "bits" -> <<"bits", v[2], BitStringBytes(v[2], v[3])>>
    [] v[1] \in {"array", "struct"} ->
         <<v[1], [i \in DOMAIN v[2] |-> MmsValueToMmsData(v[2][i])]>>
    [] OTHER -> v

RECURSIVE MmsDataToMmsValue(_)
MmsDataToMmsValue(d) ==
  CASE d[1] \in {"bits", "boolArray"} -> <<"bits", d[2], BitStringBytes(d[2], d[3])>>
    [] d[1] = "genTime" -> <<"visible", d[2]>>
    [] d[1] \in {"array", "struct"} ->
         <<d[1], [i \in DOMAIN d[2] |-> MmsDataToMmsValue(d[2][i])]>>
    [] OTHER -> d

SameDataVariant(d, v) ==
  \/ d[1] = v[1] /\ (d[1] = "float" => Len(d[2]) = Len(v[2]))
  \/ d[1] = "boolArray" /\ v[1] = "bits"

(* The bits of a bit string, or -1 when its padding is impossible. *)
BitStringLen(octets, padding) ==
  IF padding >= OctetBits \/ (octets = <<>> /\ padding # 0) THEN -1
  ELSE Len(octets) * OctetBits - padding

BitStringFits(size, octets, padding) ==
  LET bits == BitStringLen(octets, padding) IN
  /\ bits >= 0
  /\ size[1] = "fixed" => bits = size[2]
  /\ size[1] = "max" => bits \in 1 .. size[2]

AccessResultSize(r) == IF r[1] = "success" THEN EstimatedSize(r[2]) ELSE 3

-----------------------------------------------------------------------------
(* Read handlers. *)

IsBelow(below, above) == IsStrictPrefix(above, below)
OnTheSameBranch(a, b) == a = b \/ IsBelow(a, b) \/ IsBelow(b, a)

(* The handlers asked about an item; none while read access is ignored. *)
ReadHandlersAround(registered, item) == {p \in registered : OnTheSameBranch(p, item)}

Reaches(scope, path) == \E p \in DOMAIN scope : p = path \/ IsBelow(p, path)
ReachesBelow(scope, path) == \E p \in DOMAIN scope : IsBelow(p, path)
Consult(scope, path) == IF path \in DOMAIN scope THEN scope[path] ELSE Miss

(* What a handler gives has the shape of the node; the kind of a leaf is   *)
(* not checked, the length of its bit string is.                           *)
LeafShape(ty, v) ==
  IF v[1] = "bits" /\ ty[1] = "bits" /\ ~BitStringFits(ty[2], v[3], v[2]) THEN "ObjectValueInvalid" ELSE "ok"

FirstFault(verdicts, otherwise) ==
  LET bad == {i \in DOMAIN verdicts : verdicts[i] # "ok"}
  IN IF bad # {} THEN verdicts[Min(bad)] ELSE otherwise

RECURSIVE CheckHandlerShape(_, _, _)
RECURSIVE CheckMembers(_, _, _)
CheckHandlerShape(n, fc, v) ==
  IF IsLeaf(n) THEN LeafShape(IF n.ty = <<"PhyComAddr">> THEN <<"none">> ELSE LeafFromDaType(n.ty), v)
  ELSE CheckMembers(Children(n, fc), fc, Members(n, v))

CheckMembers(kids, fc, members) ==
  IF members = Absent THEN "TypeInconsistent"
  ELSE FirstFault([i \in DOMAIN members |-> IF i > Len(kids) THEN "TypeInconsistent"
                                            ELSE CheckHandlerShape(kids[i], fc, members[i])],
                  IF Len(members) < Len(kids) THEN "TypeInconsistent" ELSE "ok")

Shaped(verdict, v) == IF verdict = "ok" THEN Success(MmsValueToMmsData(v)) ELSE Failure(verdict)

HandlerValue(n, fc, v) == Shaped(CheckHandlerShape(n, fc, v), v)

(* The part of an ancestor's value that the item names. *)
RECURSIVE SelectBelow(_, _, _, _)
RECURSIVE SelectIn(_, _, _, _, _)
SelectBelow(n, fc, steps, v) ==
  IF steps = <<>> THEN <<"value", v>>
  ELSE SelectIn(Children(n, fc), IndexNamed(Children(n, fc), Head(steps)), fc, Tail(steps), v)

SelectIn(kids, i, fc, steps, v) ==
  IF i = 0 \/ v[1] # "struct" \/ i > Len(v[2]) THEN Failure("TypeInconsistent")
  ELSE SelectBelow(kids[i], fc, steps, v[2][i])

(* The verdict of the handlers of the ancestors, outermost first, or Miss. *)
PartValue(n, fc, part) == IF part[1] = "failure" THEN part ELSE HandlerValue(n, fc, part[2])

RECURSIVE DecideFromAbove(_, _, _, _, _)
DecideFromAbove(scope, fc, item, nodes, depth) ==
  IF depth = Len(nodes) THEN Miss
  ELSE LET outcome == Consult(scope, SubSeq(item, 1, depth + 2))
       IN CASE outcome = Miss -> DecideFromAbove(scope, fc, item, nodes, depth + 1)
            [] outcome[1] = "error" -> Failure(outcome[2])
            [] outcome[1] = "hit" ->
                 PartValue(Last(nodes), fc,
                           SelectBelow(nodes[depth], fc, SubSeq(item, depth + 3, Len(item)), outcome[2]))

(* The value of a node with what the handlers at and below it gave. *)
RECURSIVE ApplyHandlers(_, _, _, _, _)
RECURSIVE ApplyBelow(_, _, _, _, _)
ApplyHandlers(scope, n, fc, path, d) ==
  LET outcome == Consult(scope, path)
  IN CASE outcome[1] = "hit" -> HandlerValue(n, fc, outcome[2])
       [] outcome[1] = "error" -> Failure(outcome[2])
       [] outcome = Miss ->
            IF IsLeaf(n) \/ ~ReachesBelow(scope, path) \/ d[1] # "struct" THEN Success(d)
            ELSE Wrap("struct", AllOf(ApplyBelow(scope, Children(n, fc), fc, path, d[2])))

ApplyBelow(scope, kids, fc, path, members) ==
  [i \in DOMAIN members |->
     IF i \in DOMAIN kids /\ Reaches(scope, Append(path, kids[i].name))
     THEN ApplyHandlers(scope, kids[i], fc, Append(path, kids[i].name), members[i])
     ELSE Success(members[i])]

(* Handlers above the node decide first, then those at and below it. *)
OrElse(above, below) == IF above # Miss THEN above ELSE below

-----------------------------------------------------------------------------
(* Alternate access. *)

(* The part of an array that an index, or an index and a path of           *)
(* components, selects.                                                    *)
RECURSIVE SelectComponents(_, _, _, _)
RECURSIVE SelectMembers(_, _, _, _, _)
SelectComponents(n, fc, v, path) ==
  IF path = <<>> THEN Success(MmsValueToMmsData(v))
  ELSE IF IsArray(n) THEN Failure("ObjectNonExistent")
  ELSE SelectMembers(Children(n, fc), IndexNamed(Children(n, fc), Head(path)), fc, Members(n, v), Tail(path))

SelectMembers(kids, i, fc, members, path) ==
  IF i = 0 THEN Failure("ObjectNonExistent")
  ELSE IF members = Absent THEN Failure("TypeInconsistent")
  ELSE IF i > Len(members) THEN Failure("TypeInconsistent")
  ELSE SelectComponents(kids[i], fc, members[i], path)

SelectElement(n, fc, v, alt) ==
  IF alt[1] \notin {"index", "indexComponent"} THEN Failure("ObjectAccessUnsupported")
  ELSE LET members == Members(n, v)
       IN IF Element(n, alt[2]) = Absent \/ members = Absent \/ alt[2] >= Len(members)
          THEN Failure("TypeInconsistent")
          ELSE SelectComponents(Element(n, alt[2]), fc, members[alt[2] + 1],
                                IF alt[1] = "index" THEN <<>> ELSE alt[3])

(* Components a selector starts with are part of the name. *)
FoldLeadingComponents(item, alt) ==
  IF alt = None THEN [item |-> item, alt |-> None]
  ELSE LET lead == LeadingComponents(alt) IN [item |-> item \o lead[1], alt |-> lead[2]]

-----------------------------------------------------------------------------
(* The lookup, within a budget.                                            *)

(* A value decided after its stored form was charged. *)
ChargedVerdict(decided, charged, budget) ==
  IF charged > budget THEN OverBudget
  ELSE IF decided[1] = "success" /\ EstimatedSize(decided[2]) > budget THEN OverBudget
  ELSE decided

Data(n, fc, vals) == MmsValueToMmsData(Snapshot(n, fc, vals))

(* The members of an FC group after the leading ones: a data object is     *)
(* charged as stored, then as the handlers leave it.                       *)
StoredOrHandled(scope, d, fc, path, stored, budget) ==
  ChargedVerdict(IF Reaches(scope, path) THEN ApplyHandlers(scope, d, fc, path, stored) ELSE Success(stored),
                 EstimatedSize(stored), budget)

Before(value, rest) ==
  IF rest.result[1] # "success" THEN rest ELSE [rest EXCEPT !.result = Success(<<value>> \o @[2])]

RECURSIVE ExpandDos(_, _, _, _, _, _)
RECURSIVE ExpandAfter(_, _, _, _, _, _, _)
ExpandDos(dos, fc, scope, group, vals, budget) ==
  IF dos = <<>> THEN [result |-> Success(<<>>), left |-> budget]
  ELSE ExpandAfter(StoredOrHandled(scope, Head(dos), fc, Append(group, Head(dos).name),
                                   Data(Head(dos), fc, vals), budget),
                   Tail(dos), fc, scope, group, vals, budget)

ExpandAfter(verdict, dos, fc, scope, group, vals, budget) ==
  IF verdict[1] # "success" THEN [result |-> verdict, left |-> budget]
  ELSE Before(verdict[2], ExpandDos(dos, fc, scope, group, vals, budget - EstimatedSize(verdict[2])))

(* The tag and the length a structure adds to its members. *)
SizeOfAll(items) == FoldLeft(LAMBDA a, d : a + EstimatedSize(d), 0, items)

Outer(items) == EstimatedSize(<<"struct", items>>) - SizeOfAll(items)

(* A group led by control blocks; a group without members is Success(<<>>). *)
GroupWithin(items, outer, left, budget) ==
  IF outer > left THEN [result |-> OverBudget, left |-> budget]
  ELSE [result |-> Success(<<"struct", items>>), left |-> left - outer]

GroupAfter(lead, dos, budget) ==
  IF dos.result[1] # "success" \/ lead \o dos.result[2] = <<>> THEN dos
  ELSE GroupWithin(lead \o dos.result[2], Outer(lead \o dos.result[2]), dos.left, budget)

ExpandWithin(ln, fc, lead, leading, scope, vals, budget) ==
  IF leading > budget THEN [result |-> OverBudget, left |-> budget]
  ELSE GroupAfter(lead, ExpandDos(DosWithFc(ln, fc), fc, scope, <<ln.name, fc>>, vals, budget - leading), budget)

ExpandLnForFc(ln, fc, lead, scope, vals, budget) ==
  ExpandWithin(ln, fc, lead, SizeOfAll(lead), scope, vals, budget)

(* A data object or what is below it. *)
ElementVerdict(n, fc, decided, alt) ==
  IF n.kind = "obj" /\ ~IsArray(n) THEN Failure("TypeInconsistent")
  ELSE IF decided[1] = "failure" THEN decided
  ELSE SelectElement(n, fc, MmsDataToMmsValue(decided[2]), alt)

NodeVerdict(n, fc, alt, stored, above, decided, budget) ==
  IF alt = None /\ n.kind = "obj" /\ above = Miss /\ ~HasFc(n, fc) THEN Failure("ObjectNonExistent")
  ELSE ChargedVerdict(IF alt = None THEN decided ELSE ElementVerdict(n, fc, decided, alt),
                      IF alt = None /\ n.kind = "obj" /\ above = Miss THEN EstimatedSize(stored) ELSE 0, budget)

LookupNode(n, item, alt, scope, stored, above, budget) ==
  NodeVerdict(n, item[2], alt, stored, above,
              OrElse(above, ApplyHandlers(scope, n, item[2], item, stored)), budget)

LookupAt(nodes, item, alt, scope, vals, budget) ==
  IF nodes = Absent THEN Failure("ObjectNonExistent")
  ELSE LookupNode(Last(nodes), item, alt, scope, Data(Last(nodes), item[2], vals),
                  DecideFromAbove(scope, item[2], item, nodes, 1), budget)

LookupBelow(ln, item, alt, scope, vals, budget) ==
  LookupAt(Walk(DoOf(ln, item[3]), item[2], SubSeq(item, 4, Len(item))), item, alt, scope, vals, budget)

(* A named variable of the model, below the FC group level. *)
LookupDomainSpecificValue(device, domain, item, alt, scope, vals, budget) ==
  LET ln == LnOf(device, domain, item[1])
  IN IF alt # None /\ Len(item) < 4 THEN Failure("TypeInconsistent")
     ELSE IF ln = Absent \/ ~IsFc(item[2]) THEN Failure("ObjectNonExistent")
     ELSE LookupBelow(ln, item, alt, scope, vals, budget)

-----------------------------------------------------------------------------
(* Control blocks.  Their state belongs to other modules; a read here has  *)
(* the members, in order, and the kinds that the code serves.              *)

Bits(n) == <<"bits", (-n) % OctetBits, [i \in 1 .. (n + OctetBits - 1) \div OctetBits |-> 0]>>
Zeros(n) == [i \in 1 .. n |-> 0]

(* handle_get_rcb_field, handle_get_brcb_field, lcb_field_value,           *)
(* encode_component and handle_sgcb_read: the datum a field reads as.      *)
FieldKinds ==
  [RptID |-> <<"visible", Empty>>, RptEna |-> <<"bool", FALSE>>, Resv |-> <<"bool", FALSE>>,
   DatSet |-> <<"visible", Empty>>, ConfRev |-> <<"uint", 1>>, OptFlds |-> Bits(10),
   BufTm |-> <<"uint", 0>>, SqNum |-> <<"uint", 0>>, TrgOps |-> Bits(6), IntgPd |-> <<"uint", 0>>,
   GI |-> <<"bool", FALSE>>, Owner |-> <<"octets", <<>>>>, PurgeBuf |-> <<"bool", FALSE>>,
   EntryID |-> <<"octets", Zeros(8)>>, TimeofEntry |-> <<"binTime", Zeros(6)>>,
   LogEna |-> <<"bool", FALSE>>, LogRef |-> <<"visible", Empty>>,
   OldEntrTm |-> <<"binTime", Zeros(6)>>, NewEntrTm |-> <<"binTime", Zeros(6)>>,
   OldEnt |-> <<"octets", Zeros(8)>>, NewEnt |-> <<"octets", Zeros(8)>>,
   GoEna |-> <<"bool", FALSE>>, GoID |-> <<"visible", Empty>>, NdsCom |-> <<"bool", FALSE>>,
   DstAddress |-> <<"struct", << <<"octets", Zeros(6)>>, <<"uint", 4>>, <<"uint", 1>>, <<"uint", 1>> >>>>,
   MinTime |-> <<"uint", 4>>, MaxTime |-> <<"uint", 8>>, FixedOffs |-> <<"bool", FALSE>>,
   NumOfSG |-> <<"uint", 2>>, ActSG |-> <<"uint", 1>>, EditSG |-> <<"uint", 0>>,
   CnfEdit |-> <<"bool", FALSE>>, LActTm |-> <<"utcTime", Zeros(8)>>]

UrcbFields == <<"RptID", "RptEna", "Resv", "DatSet", "ConfRev", "OptFlds", "BufTm", "SqNum",
                "TrgOps", "IntgPd", "GI", "Owner">>
BrcbFields == <<"RptID", "RptEna", "DatSet", "ConfRev", "OptFlds", "BufTm", "SqNum", "TrgOps",
                "IntgPd", "GI", "PurgeBuf", "EntryID", "TimeofEntry", "ResvTms", "Owner">>
LcbFields == <<"LogEna", "LogRef", "DatSet", "OldEntrTm", "NewEntrTm", "OldEnt", "NewEnt",
               "TrgOps", "IntgPd">>
GocbFields == <<"GoEna", "GoID", "DatSet", "ConfRev", "NdsCom", "DstAddress", "MinTime",
                "MaxTime", "FixedOffs">>
SgcbFields == <<"NumOfSG", "ActSG", "EditSG", "CnfEdit", "LActTm", "ResvTms">>

(* ResvTms is an INT16 of a report control block and an INT16U of a        *)
(* setting group control block.                                            *)
FieldValue(kind, field) ==
  IF field = "ResvTms" THEN <<IF kind = "sgcb" THEN "uint" ELSE "int", 0>> ELSE FieldKinds[field]

FieldsOf(kind) ==
  CASE kind = "urcb" -> UrcbFields [] kind = "brcb" -> BrcbFields [] kind = "log" -> LcbFields
    [] kind = "goose" -> GocbFields [] kind = "sgcb" -> SgcbFields

ServedFields(b) ==
  SelectSeq(FieldsOf(b.kind), LAMBDA f : (f = "Owner" => b.owner) /\ (f = "ResvTms" => b.resv))

FieldData(kind, fields) == [i \in DOMAIN fields |-> FieldValue(kind, fields[i])]

BlockData(b) == <<"struct", FieldData(b.kind, ServedFields(b))>>

(* A component of a GOOSE control block may itself have members. *)
RECURSIVE SelectMember(_, _, _)
SelectMember(d, spec, path) ==
  IF path = <<>> THEN Success(d)
  ELSE LET i == IF spec[1] = "struct" THEN IndexNamed(spec[2], Head(path)) ELSE 0
       IN IF i = 0 THEN Failure("ObjectNonExistent")
          ELSE SelectMember(d[2][i], spec[2][i].spec, Tail(path))

(* A block as a whole or one of its fields. *)
FieldRead(kind, field, served) ==
  IF field \in served THEN Success(FieldValue(kind, field))
  ELSE IF kind = "brcb" /\ field \notin {"Owner", "ResvTms"} THEN Failure("ObjectAccessUnsupported")
  ELSE Failure("ObjectNonExistent")

BlockRead(b, path) ==
  CASE path = <<>> \/ b.kind = "goose" -> SelectMember(BlockData(b), BlockSpec(b), path)
    [] path # <<>> /\ b.kind # "goose" ->
         FieldRead(b.kind, IF b.kind = "log" THEN LcbMemberName(path[1]) ELSE path[1], ToSet(ServedFields(b)))

-----------------------------------------------------------------------------
(* Routing.  ied is the record of the device, its control blocks, its      *)
(* controllable objects and the collation of names.                        *)

SgcbOf(ied, domain) ==
  LET holders == {i \in DOMAIN ied.device[domain] : ied.device[domain][i].sgcb # "none"}
  IN IF domain \notin DOMAIN ied.device \/ holders = {} THEN Absent
     ELSE [kind |-> "sgcb", owner |-> FALSE,
           resv |-> ied.device[domain][Min(holders)].sgcb = "resv"]

IsSgcbName(item) ==
  /\ Len(item) \in 3 .. 4
  /\ SubSeq(item, 1, 3) = <<"LLN0", "SP", "SGCB">>
  /\ Len(item) = 4 => \E i \in DOMAIN SgcbFields : SgcbFields[i] = item[4]

(* The kind of control block a name is about, by its functional            *)
(* constraint and its length; None for data.                               *)
RoutedKind(item) ==
  CASE Len(item) >= 3 /\ item[2] = "GO" -> "goose"
    [] IsSgcbName(item) -> "sgcb"
    [] Len(item) \in 3 .. 4 /\ item[2] = "RP" -> "urcb"
    [] Len(item) \in 3 .. 4 /\ item[2] = "BR" -> "brcb"
    [] Len(item) \in 3 .. 4 /\ item[2] = "LG" -> "log"
    [] Len(item) = 4 /\ item[2] = "CO" /\ item[4] \in {"SBO", "SBOw", "Oper", "Cancel"} -> "control"
    [] OTHER -> None

FindBlock(ied, domain, item) ==
  LET hits == {b \in ied.blocks : /\ b.domain = domain /\ b.ln = item[1]
                                  /\ BlockFc[b.kind] = item[2] /\ b.name = item[3]}
  IN IF hits = {} THEN Absent ELSE CHOOSE b \in hits : TRUE

(* A control object answers a read of its SBO attribute only. *)
ControlRead(ied, domain, item) ==
  IF item[4] # "SBO" THEN Failure("ObjectAccessUnsupported")
  ELSE IF <<domain, item[1], item[3]>> \in ied.sboNormal THEN Success(<<"visible", Empty>>)
  ELSE Failure("ObjectNonExistent")

FindRouted(ied, domain, item, kind) ==
  IF kind = "sgcb" THEN SgcbOf(ied, domain) ELSE FindBlock(ied, domain, item)

BlockOrNone(block, path) == IF block = Absent THEN Failure("ObjectNonExistent") ELSE BlockRead(block, path)

RoutedRead(ied, domain, item, alt, kind) ==
  IF alt # None THEN Failure("TypeInconsistent")
  ELSE IF kind = "control" THEN ControlRead(ied, domain, item)
  ELSE BlockOrNone(FindRouted(ied, domain, item, kind), SubSeq(item, 4, Len(item)))

HandleReadWithRouting(ied, domain, item, alt, scope, vals, budget) ==
  IF RoutedKind(item) = None
  THEN LookupDomainSpecificValue(ied.device, domain, item, alt, scope, vals, budget)
  ELSE RoutedRead(ied, domain, item, alt, RoutedKind(item))

(* What leads an FC group of a logical node: its setting group control     *)
(* block in SP, and its control blocks.                                    *)
LeadingMembers(ied, domain, ln, fc) ==
  LET own == SelectSeq(BlocksOf(ied.blocks, domain, ln.name, ied.rank),
                       LAMBDA b : BlockFc[b.kind] = fc)
  IN (IF fc = "SP" /\ ln.sgcb # "none" THEN <<BlockData(SgcbOf(ied, domain))>> ELSE <<>>)
     \o [i \in DOMAIN own |-> BlockData(own[i])]

-----------------------------------------------------------------------------
(***************************************************************************)
(* The checks an MMS Write goes through before anything is stored:         *)
(* src/crates/iec61850-server service/write.rs, the routing of             *)
(* service/mod.rs, and policy.rs.                                          *)
(***************************************************************************)

-----------------------------------------------------------------------------
(* Values. *)

(* Every number of an instance is below 2^30, so the wider types hold it. *)
FitsWidth(v, bits, signed) ==
  IF bits > 30 THEN signed \/ v >= 0
  ELSE IF signed THEN v \in -(2 ^ (bits - 1)) .. 2 ^ (bits - 1) - 1
  ELSE v \in 0 .. 2 ^ bits - 1

FitsLength(size, len) ==
  CASE size[1] = "max" -> len <= size[2]
    [] size[1] = "fixed" -> len = size[2]
    [] size[1] = "generic" -> TRUE

(* A shorter bit string fills the declared one from the front. *)
FitBitString(size, padding, octets) ==
  LET cleared == BitStringBytes(padding, octets)
      len == (size[2] + OctetBits - 1) \div OctetBits
  IN IF ~BitStringFits(size, octets, padding) THEN Failure("TypeInconsistent")
     ELSE IF size[1] # "max" THEN Success(<<"bits", padding, cleared>>)
     ELSE Success(<<"bits", len * OctetBits - size[2],
                    [i \in 1 .. len |-> IF i <= Len(cleared) THEN cleared[i] ELSE 0]>>)

TextLen(d) == Len(Text(d[2]))

RECURSIVE CheckDeclaredType(_, _)
CheckDeclaredType(spec, d) ==
  LET leaf == IF spec[1] = "leaf" THEN spec[2] ELSE <<"none">>
      inRange == leaf[1] \in {"int", "uint"} /\ d[1] \in {"int", "uint"}
                   => FitsWidth(d[2], leaf[2], leaf[1] = "int")
      lengthFits == CASE leaf[1] = "octets" /\ d[1] = "octets" -> FitsLength(leaf[2], Len(d[2]))
                      [] leaf[1] \in {"visible", "mmsString"} /\ d[1] = leaf[1] ->
                           FitsLength(leaf[2], TextLen(d))
                      [] leaf[1] = "binTime" /\ d[1] = "binTime" -> Len(d[2]) = leaf[2]
                      [] OTHER -> TRUE
  IN IF ~inRange THEN Failure("ObjectValueInvalid")
     ELSE IF leaf[1] = "bits" /\ d[1] \in {"bits", "boolArray"}
     THEN FitBitString(leaf[2], d[2], d[3])
     ELSE IF spec[1] = "struct" /\ d[1] = "struct"
     THEN IF Len(spec[2]) # Len(d[2]) THEN Failure("TypeInconsistent")
          ELSE Wrap("struct", AllOf([i \in DOMAIN d[2] |-> CheckDeclaredType(spec[2][i].spec, d[2][i])]))
     ELSE IF lengthFits THEN Success(MmsDataToMmsValue(d)) ELSE Failure("TypeInconsistent")

(* What is written has the shape of the node, the variant its leaves hold, *)
(* and the widths and lengths their types declare.                         *)
RECURSIVE CheckValue(_, _, _, _, _)
CheckValue(n, fc, spec, d, vals) ==
  LET kids == Children(n, fc) IN
  CASE IsArray(n) ->
         IF d[1] # "array" \/ spec[1] # "array" \/ Len(d[2]) # spec[2] \/ Len(kids) < Len(d[2])
         THEN Failure("TypeInconsistent")
         ELSE Wrap("array", AllOf([i \in DOMAIN d[2] |-> CheckValue(kids[i], fc, spec[3], d[2][i], vals)]))
    [] IsLeaf(n) ->
         IF ~SameDataVariant(d, vals[n.cell]) THEN Failure("ObjectValueInvalid")
         ELSE CheckDeclaredType(spec, d)
    [] ~IsArray(n) /\ ~IsLeaf(n) ->
         IF d[1] # "struct"
         THEN Failure(IF n.kind = "obj" THEN "TypeInconsistent" ELSE "ObjectValueInvalid")
         ELSE IF spec[1] # "struct" \/ Len(d[2]) # Len(spec[2]) \/ Len(kids) # Len(d[2])
         THEN Failure("TypeInconsistent")
         ELSE Wrap("struct", AllOf([i \in DOMAIN d[2] |->
                                      CheckValue(kids[i], fc, spec[2][i].spec, d[2][i], vals)]))

-----------------------------------------------------------------------------
(* The target. *)

ClassifyFc(fc) ==
  CASE fc \in {"ST", "MX", "EX", "SG"} -> "alwaysDenied"
    [] fc \in {"CO", "GO", "BR", "RP", "LG", "MS", "US", "SR", "OR"} -> "unsupported"
    [] fc \in {"CF", "DC", "SP", "SV", "BL"} -> "policyControlled"
    [] fc = "SE" -> "settingEdit"
    [] OTHER -> "none"

(* The refusal of the functional constraint, or "ok". *)
FcVerdict(item, policies, holdsEdit) ==
  IF Len(item) < 3 THEN "ObjectAccessUnsupported"
  ELSE LET route == ClassifyFc(item[2]) IN
       CASE route \in {"none", "alwaysDenied"} -> "ObjectAccessDenied"
         [] route = "unsupported" -> "ObjectAccessUnsupported"
         [] route \in {"policyControlled", "settingEdit"} ->
              IF item[2] \notin policies THEN "ObjectAccessDenied"
              ELSE IF route = "settingEdit" /\ ~holdsEdit THEN "TemporarilyUnavailable"
              ELSE "ok"

(* The component steps below an element: the nodes passed, and the type. *)
RECURSIVE DescendElement(_, _, _, _)
DescendElement(n, fc, spec, path) ==
  IF n = Absent \/ spec = Absent THEN Absent
  ELSE IF path = <<>> THEN [nodes |-> <<n>>, spec |-> spec]
  ELSE LET rest == DescendElement(Child(n, fc, Head(path)), fc, FindMember(spec, Head(path)), Tail(path))
       IN IF rest = Absent THEN Absent ELSE [rest EXCEPT !.nodes = <<n>> \o @]

(* The node a write is about: the nodes down to it, the steps between them *)
(* (an index is a number), and its type; or the refusal.                   *)
NameSteps(names) == [i \in DOMAIN names |-> <<"name", names[i]>>]

ElementTarget(nodes, steps, index, path, below) ==
  IF below = Absent THEN Failure("ObjectNonExistent")
  ELSE Success([nodes |-> nodes \o below.nodes,
                steps |-> NameSteps(steps) \o << <<"index", index>> >> \o NameSteps(path),
                spec |-> below.spec])

ElementPath(alt) == IF alt[1] = "indexComponent" THEN alt[3] ELSE <<>>

TargetAt(nodes, spec, fc, steps, alt) ==
  IF nodes = Absent \/ spec = Absent THEN Failure("ObjectNonExistent")
  ELSE IF Last(nodes).kind = "obj" /\ ~HasFc(Last(nodes), fc) THEN Failure("ObjectNonExistent")
  ELSE IF alt = None THEN Success([nodes |-> nodes, steps |-> NameSteps(steps), spec |-> spec])
  ELSE IF alt[1] \notin {"index", "indexComponent"} THEN Failure("ObjectAccessUnsupported")
  ELSE IF Element(Last(nodes), alt[2]) = Absent \/ spec[1] # "array" THEN Failure("TypeInconsistent")
  ELSE ElementTarget(nodes, steps, alt[2], ElementPath(alt),
                     DescendElement(Element(Last(nodes), alt[2]), fc, spec[3], ElementPath(alt)))

TargetIn(ied, ln, domain, item, alt) ==
  IF ln = Absent THEN Failure("ObjectNonExistent")
  ELSE TargetAt(Walk(DoOf(ln, item[3]), item[2], SubSeq(item, 4, Len(item))),
                SpecAt(ied.device, domain, item), item[2], SubSeq(item, 4, Len(item)), alt)

WriteTarget(ied, domain, item, alt) == TargetIn(ied, LnOf(ied.device, domain, item[1]), domain, item, alt)

-----------------------------------------------------------------------------
(* Write handlers. *)

(* The value an ancestor would have with the new value in place. *)
RECURSIVE MergedValue(_, _, _, _, _)
MergedValue(n, fc, steps, new, vals) ==
  IF steps = <<>> THEN new
  ELSE LET kids == Children(n, fc)
           hit == IF Head(steps)[1] = "index" THEN Head(steps)[2] + 1
                  ELSE FirstIndex(kids, LAMBDA c : c.name = Head(steps)[2])
       IN Compose(n, [i \in DOMAIN kids |->
            IF i = hit THEN MergedValue(kids[i], fc, Tail(steps), new, vals)
            ELSE Snapshot(kids[i], fc, vals)])

(* The nodes a write goes through, in preorder: the handler path (Absent   *)
(* below an array), the cell and the value of a leaf, and how many nodes   *)
(* its subtree has.                                                        *)
NodeWrite(n, v, path, below) ==
  <<[path |-> path, leaf |-> IsLeaf(n), cell |-> IF IsLeaf(n) THEN n.cell ELSE Absent,
     value |-> v, size |-> 1 + Len(below)]>> \o below

RECURSIVE CollectNodeWrites(_, _, _, _)
RECURSIVE CollectBelow(_, _, _, _)
CollectNodeWrites(n, fc, v, path) ==
  NodeWrite(n, v, path,
            IF IsLeaf(n) THEN <<>>
            ELSE CollectBelow(Children(n, fc), fc, Members(n, v), IF IsArray(n) THEN Absent ELSE path))

CollectBelow(kids, fc, members, path) ==
  FlattenSeq([i \in DOMAIN members |->
    CollectNodeWrites(kids[i], fc, members[i], IF path = Absent THEN Absent ELSE Append(path, kids[i].name))])

(* The handlers' answers, "accept", "noUpdate" or an error, by path: what  *)
(* the ancestors say, outermost first ("accept" to go on) ...              *)
AncestorsVerdict(answers, item, named) ==
  LET consulted == {k \in 3 .. named : SubSeq(item, 1, k) \in DOMAIN answers}
      stopping == {k \in consulted : answers[SubSeq(item, 1, k)] # "accept"}
  IN IF stopping = {} THEN "accept" ELSE answers[SubSeq(item, 1, Min(stopping))]

(* ... and the leaves to store after the handlers of the nodes: one that   *)
(* accepts without an update takes its whole subtree out, one that rejects *)
(* ends the write.                                                         *)
RECURSIVE LeavesToStore(_, _)
LeavesToStore(answers, nodes) ==
  IF nodes = <<>> THEN Success(<<>>)
  ELSE LET n == Head(nodes)
           answer == IF n.path \in DOMAIN answers THEN answers[n.path] ELSE "accept"
           rest == LeavesToStore(answers,
                     SubSeq(nodes, 1 + (IF answer = "noUpdate" THEN n.size ELSE 1), Len(nodes)))
       IN IF answer \notin {"accept", "noUpdate"} THEN Failure(answer)
          ELSE IF rest[1] = "failure" THEN rest
          ELSE IF answer = "accept" /\ n.leaf
          THEN Success(<<[cell |-> n.cell, value |-> n.value]>> \o rest[2])
          ELSE rest

(* How many leading segments of the item name an ancestor of the target:   *)
(* the named node itself is one when an element of it is selected.         *)
NamedAncestors(item, alt) == IF alt = None THEN Len(item) - 1 ELSE Len(item)
=============================================================================
