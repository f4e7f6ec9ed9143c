------------------------------ MODULE DeviceModel ------------------------------
(***************************************************************************)
(* The IED model tree, its MMS view, and the pure part of the services     *)
(* that read, write, list and describe it: src/crates/iec61850-model       *)
(* (tree.rs), and of src/crates/iec61850-server mapping.rs, handler.rs     *)
(* and service/{read,write,convert,get_name_list,get_var_access_attrs}.    *)
(*                                                                         *)
(* A node is a record: a data object ("obj") or a data attribute ("att"),  *)
(* with the functional constraint and the type of an attribute, an element *)
(* count (0 when it is not an array), its children, and the cell holding   *)
(* its value when it is a leaf.  Cells are shared memory: a valuation maps *)
(* each cell to a value.  Values and data have the form MmsTypes gives     *)
(* them, and an item identifier LN$FC$DO$... is the sequence of its        *)
(* segments.                                                               *)
(***************************************************************************)
EXTENDS MmsTypes

Absent == None

(* FC::WIRE_ORDER, the order of the FC groups of a logical node. *)
FcOrder == <<"MX", "ST", "CO", "CF", "DC", "SP", "SG", "RP", "LG", "BR", "GO",
             "SV", "SE", "MS", "US", "EX", "SR", "OR", "BL">>

IsFc(s) == \E i \in DOMAIN FcOrder : FcOrder[i] = s

LeastOr0(hits) == IF hits = {} THEN 0 ELSE Min(hits)

FirstIndex(s, Test(_)) == LeastOr0({i \in DOMAIN s : Test(s[i])})

AtOrAbsent(s, i) == IF i = 0 THEN Absent ELSE s[i]

IndexNamed(s, name) == LeastOr0({i \in DOMAIN s : s[i].name = name})

FirstNamed(s, name) == AtOrAbsent(s, IndexNamed(s, name))

-----------------------------------------------------------------------------
(* The tree. *)

IsArray(n) == n.array > 0

IsLeaf(n) == n.kind = "att" /\ n.array = 0 /\ n.ty # <<"Constructed">>

RECURSIVE HasFc(_, _)
HasFc(d, fc) ==
  \E i \in DOMAIN d.children :
    LET c == d.children[i] IN IF c.kind = "att" THEN c.fc = fc ELSE HasFc(c, fc)

Children(n, fc) ==
  IF n.kind = "att" THEN n.children
  ELSE SelectSeq(n.children,
                 LAMBDA c : IF c.kind = "att" THEN c.fc = fc ELSE HasFc(c, fc))

(* A step by name passes no array: its elements have no names of their own. *)
Child(n, fc, step) ==
  IF IsArray(n) THEN Absent
  ELSE AtOrAbsent(n.children, FirstIndex(n.children,
         LAMBDA c : c.name = step /\ (n.kind = "att" \/ c.kind = "obj" \/ c.fc = fc)))

Element(n, index) ==
  IF IsArray(n) /\ index < Len(n.children) THEN n.children[index + 1] ELSE Absent

Compose(n, values) == <<IF IsArray(n) THEN "array" ELSE "struct", values>>

Members(n, value) ==
  IF value[1] = (IF IsArray(n) THEN "array" ELSE "struct") THEN value[2] ELSE Absent

RECURSIVE Snapshot(_, _, _)
Snapshot(n, fc, vals) ==
  IF IsLeaf(n) THEN vals[n.cell]
  ELSE LET kids == Children(n, fc)
       IN Compose(n, [i \in DOMAIN kids |-> Snapshot(kids[i], fc, vals)])

RECURSIVE CellsOf(_, _)
CellsOf(nodes, fc) ==
  IF nodes = <<>> THEN <<>>
  ELSE (IF IsLeaf(Head(nodes)) THEN <<Head(nodes).cell>> ELSE CellsOf(Children(Head(nodes), fc), fc))
       \o CellsOf(Tail(nodes), fc)

Cells(n, fc) == CellsOf(<<n>>, fc)

LnOf(device, domain, ln) ==
  IF domain \notin DOMAIN device THEN Absent
  ELSE FirstNamed(device[domain], ln)

DoOf(ln, name) == FirstNamed(ln.dos, name)

(* The nodes from a data object down the steps, or Absent. *)
RECURSIVE Walk(_, _, _)
Walk(n, fc, steps) ==
  IF n = Absent THEN Absent
  ELSE IF steps = <<>> THEN <<n>>
  ELSE LET below == Walk(Child(n, fc, Head(steps)), fc, Tail(steps))
       IN IF below = Absent THEN Absent ELSE <<n>> \o below

-----------------------------------------------------------------------------
(* Types.  A size is <<"max", n>>, <<"fixed", n>> or <<"generic", 0>>. *)

IntegerWidths == [Int8 |-> 8, Int16 |-> 16, Int24 |-> 24, Int32 |-> 32,
                  Int64 |-> 64, Int128 |-> 128, Enumerated |-> 8]
UnsignedWidths == [Int8U |-> 8, Int16U |-> 16, Int24U |-> 24, Int32U |-> 32]
BoundedBits == [Check |-> 2, Quality |-> 13, OptFlds |-> 10, TrgOpsBits |-> 6,
                SvOptFlds |-> 5, LogOptFlds |-> 1]

MapSize(n, fixed) == <<IF n = fixed THEN "fixed" ELSE "max", n>>

LeafFromDaType(ty) ==
  LET t == ty[1] IN
  CASE t = "Boolean" -> <<"bool">>
    [] t \in DOMAIN IntegerWidths -> <<"int", IntegerWidths[t]>>
    [] t \in DOMAIN UnsignedWidths -> <<"uint", UnsignedWidths[t]>>
    [] t = "Float32" -> <<"float32", 32>>
    [] t = "Float64" -> <<"float64", 64>>
    [] t = "CodedEnum" -> <<"bits", <<"fixed", 2>>>>
    [] t \in DOMAIN BoundedBits -> <<"bits", <<"max", BoundedBits[t]>>>>
    [] t = "GenericBitString" ->
         <<"bits", IF ty[2] = 0 THEN <<"generic", 0>> ELSE <<"max", ty[2]>>>>
    [] t = "OctetString" -> <<"octets", MapSize(ty[2], 8)>>
    [] t = "VisibleString" -> <<"visible", <<"max", ty[2]>>>>
    [] t = "UnicodeString255" -> <<"mmsString", <<"max", 255>>>>
    [] t = "Currency" -> <<"visible", <<"max", 3>>>>
    [] t = "Timestamp" -> <<"utcTime">>
    [] t = "EntryTime" -> <<"binTime", 6>>

LeafSpec(leaf) == <<"leaf", leaf>>
Member(name, spec) == [name |-> name, spec |-> spec]
LeafMembers(pairs) == [i \in DOMAIN pairs |-> Member(pairs[i][1], LeafSpec(pairs[i][2]))]

PhyComAddrSpec ==
  <<"struct", LeafMembers(<< <<"Addr", <<"octets", <<"fixed", 6>>>>>>,
                             <<"PRIORITY", <<"uint", 8>>>>,
                             <<"VID", <<"uint", 16>>>>,
                             <<"APPID", <<"uint", 16>>>> >>)>>

RECURSIVE BuildDaTypeSpec(_)
BuildDaTypeSpec(da) ==
  CASE IsArray(da) /\ da.children # <<>> ->
         <<"array", da.array, BuildDaTypeSpec(da.children[1])>>
    [] da.ty = <<"Constructed">> ->
         <<"struct", [i \in DOMAIN da.children |->
             Member(da.children[i].name, BuildDaTypeSpec(da.children[i]))]>>
    [] da.ty = <<"PhyComAddr">> -> PhyComAddrSpec
    [] OTHER -> LeafSpec(LeafFromDaType(da.ty))

RECURSIVE BuildDoTypeSpec(_, _)
BuildDoTypeSpec(d, fc) ==
  LET IsObjectArray == IsArray(d) /\ d.children # <<>>
      kids == Children(IF IsObjectArray THEN d.children[1] ELSE d, fc)
      struct == <<"struct", [i \in DOMAIN kids |->
                    Member(kids[i].name, IF kids[i].kind = "att" THEN BuildDaTypeSpec(kids[i])
                                         ELSE BuildDoTypeSpec(kids[i], fc))]>>
  IN IF IsObjectArray THEN <<"array", d.array, struct>> ELSE struct

SgcbMembers(resv) ==
  LeafMembers(<< <<"NumOfSG", <<"uint", 8>>>>, <<"ActSG", <<"uint", 8>>>>,
                 <<"EditSG", <<"uint", 8>>>>, <<"CnfEdit", <<"bool">>>>,
                 <<"LActTm", <<"utcTime">>>> >>
              \o (IF resv THEN << <<"ResvTms", <<"uint", 16>>>> >> ELSE <<>>))

DosWithFc(ln, fc) == SelectSeq(ln.dos, LAMBDA d : HasFc(d, fc))

(* The setting group control block leads the SP group; an empty group is   *)
(* left out of the logical node.                                           *)
DoMembers(dos, fc) == [i \in DOMAIN dos |-> Member(dos[i].name, BuildDoTypeSpec(dos[i], fc))]

FcGroup(ln, fc) ==
  (IF fc = "SP" /\ ln.sgcb # "none"
   THEN <<Member("SGCB", <<"struct", SgcbMembers(ln.sgcb = "resv")>>)>> ELSE <<>>)
  \o DoMembers(DosWithFc(ln, fc), fc)

StructOfGroups(groups) == <<"struct", SelectSeq(groups, LAMBDA m : m.spec[2] # <<>>)>>

BuildLnStructure(ln) ==
  StructOfGroups([i \in DOMAIN FcOrder |-> Member(FcOrder[i], <<"struct", FcGroup(ln, FcOrder[i])>>)])

-----------------------------------------------------------------------------
(* Control blocks, registered at run time: [domain, ln, kind, name, owner, *)
(* resv], kind one of "urcb", "brcb", "log", "goose".                      *)

BlockFc == [urcb |-> "RP", brcb |-> "BR", log |-> "LG", goose |-> "GO"]

ObjectRef == <<"visible", <<"max", 129>>>>
Flag8 == <<"bool">>
Long == <<"uint", 32>>

BlockMembers(kind) ==
  CASE kind = "urcb" -> LeafMembers(<<
         <<"RptID", ObjectRef>>, <<"RptEna", Flag8>>, <<"Resv", Flag8>>, <<"DatSet", ObjectRef>>,
         <<"ConfRev", Long>>, <<"OptFlds", <<"bits", <<"max", 10>>>>>>, <<"BufTm", Long>>,
         <<"SqNum", <<"uint", 8>>>>, <<"TrgOps", <<"bits", <<"max", 6>>>>>>, <<"IntgPd", Long>>,
         <<"GI", Flag8>>, <<"Owner", <<"octets", <<"max", 64>>>>>> >>)
    [] kind = "brcb" -> LeafMembers(<<
         <<"RptID", ObjectRef>>, <<"RptEna", Flag8>>, <<"DatSet", ObjectRef>>, <<"ConfRev", Long>>,
         <<"OptFlds", <<"bits", <<"max", 10>>>>>>, <<"BufTm", Long>>, <<"SqNum", <<"uint", 16>>>>,
         <<"TrgOps", <<"bits", <<"max", 6>>>>>>, <<"IntgPd", Long>>, <<"GI", Flag8>>,
         <<"PurgeBuf", Flag8>>, <<"EntryID", <<"octets", <<"fixed", 8>>>>>>,
         <<"TimeofEntry", <<"binTime", 6>>>>, <<"ResvTms", <<"int", 16>>>>,
         <<"Owner", <<"octets", <<"max", 64>>>>>> >>)
    [] kind = "log" -> LeafMembers(<<
         <<"LogEna", Flag8>>, <<"LogRef", ObjectRef>>, <<"DatSet", ObjectRef>>,
         <<"OldEntrTm", <<"binTime", 6>>>>, <<"NewEntrTm", <<"binTime", 6>>>>,
         <<"OldEnt", <<"octets", <<"fixed", 8>>>>>>, <<"NewEnt", <<"octets", <<"fixed", 8>>>>>>,
         <<"TrgOps", <<"bits", <<"max", 6>>>>>>, <<"IntgPd", Long>> >>)
    [] kind = "goose" ->
         LeafMembers(<< <<"GoEna", Flag8>>, <<"GoID", ObjectRef>>, <<"DatSet", ObjectRef>>,
                        <<"ConfRev", Long>>, <<"NdsCom", Flag8>> >>)
         \o <<Member("DstAddress", PhyComAddrSpec)>>
         \o LeafMembers(<< <<"MinTime", Long>>, <<"MaxTime", Long>>, <<"FixedOffs", Flag8>> >>)

BlockSpec(b) ==
  <<"struct", SelectSeq(BlockMembers(b.kind),
      LAMBDA m : /\ m.name = "Owner" => b.owner
                 /\ m.name = "ResvTms" => b.resv)>>

RankIn(order, x) == FirstIndex(order, LAMBDA y : y = x)

(* The blocks of a logical node, by FC group and then by name (NameRank is *)
(* the collation of names, given as a sequence).                           *)
BlocksOf(blocks, domain, ln, NameRank) ==
  SortSeq(SetToSeq({b \in blocks : b.domain = domain /\ b.ln = ln}),
          LAMBDA a, b : LET ra == RankIn(FcOrder, BlockFc[a.kind])
                            rb == RankIn(FcOrder, BlockFc[b.kind])
                        IN ra < rb \/ (ra = rb /\ RankIn(NameRank, a.name) < RankIn(NameRank, b.name)))

FindMember(spec, name) ==
  LET member == IF spec[1] = "struct" THEN FirstNamed(spec[2], name) ELSE Absent
  IN IF member = Absent THEN Absent ELSE member.spec

(* The control blocks lead the members their FC group has in the model. *)
GroupSpec(own, existing) ==
  [i \in DOMAIN own |-> Member(own[i].name, BlockSpec(own[i]))] \o (IF existing = Absent THEN <<>> ELSE existing[2])

LnSpecWithControlBlocks(base, blocks) ==
  StructOfGroups([i \in DOMAIN FcOrder |->
    Member(FcOrder[i], <<"struct", GroupSpec(SelectSeq(blocks, LAMBDA b : BlockFc[b.kind] = FcOrder[i]),
                                             FindMember(base, FcOrder[i]))>>)])

RECURSIVE SpecBelow(_, _)
SpecBelow(spec, path) ==
  IF path = <<>> \/ spec = Absent THEN spec
  ELSE SpecBelow(FindMember(spec, Head(path)), Tail(path))

(* The type a name has in the model alone, which a Write is checked with. *)
SpecAt(device, domain, item) ==
  LET ln == LnOf(device, domain, Head(item))
  IN IF ln = Absent THEN Absent ELSE SpecBelow(BuildLnStructure(ln), Tail(item))

LcbMemberName(name) ==
  CASE name = "OldEntr" -> "OldEnt" [] name = "NewEntr" -> "NewEnt" [] OTHER -> name

(* GetVariableAccessAttributes: LN, LN$, and every path below. *)
VarAccessAttrs(device, blocks, NameRank, domain, asked) ==
  LET ln == LnOf(device, domain, Head(asked))
      own == BlocksOf(blocks, domain, Head(asked), NameRank)
      aliased == /\ Len(asked) = 4 /\ asked[2] = "LG"
                 /\ \E i \in DOMAIN own : own[i].kind = "log" /\ own[i].name = asked[3]
      item == IF aliased THEN [asked EXCEPT ![4] = LcbMemberName(@)] ELSE asked
      whole == LnSpecWithControlBlocks(BuildLnStructure(ln), own)
  IN IF ln = Absent THEN Absent
     ELSE IF item = <<ln.name, "">> THEN whole ELSE SpecBelow(whole, Tail(item))

(* The names of a structure and of everything below it; an array has no    *)
(* names below it.                                                         *)
RECURSIVE FlatPaths(_, _)
FlatPaths(prefix, spec) ==
  {prefix} \cup
  (IF spec[1] # "struct" THEN {}
   ELSE UNION {FlatPaths(Append(prefix, spec[2][i].name), spec[2][i].spec) : i \in DOMAIN spec[2]})

NamedVariables(device, blocks, domain) ==
  UNION {FlatPaths(<<device[domain][i].name>>, BuildLnStructure(device[domain][i]))
           : i \in DOMAIN device[domain]}
  \cup UNION {{<<b.ln, BlockFc[b.kind]>>} \cup FlatPaths(<<b.ln, BlockFc[b.kind], b.name>>, BlockSpec(b))
           : b \in {x \in blocks : x.domain = domain}}

=============================================================================
