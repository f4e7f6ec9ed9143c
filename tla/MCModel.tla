------------------------------ MODULE MCModel -------------------------------
(* The objects and commands of the control value run. *)
EXTENDS ControlValues, AddressValues, SclParser, SclEmit

CONSTANTS CvLd, CvName
CvFew(S) == {{}} \cup {{x} : x \in S} \cup {S}
CvBits(f) == {f[x] : x \in DOMAIN f}
MCOptions == CvFew(CvBits(CdcBit))
CvBits3(k) == {i \in 0 .. 2 : (k \div 2^i) % 2 = 1}
MCControl == {CvBits3(k) \cup f : k \in 0 .. 7, f \in CvFew(CvBits(ControlBit))}
CvPar(v, cat, id, num, test, syn, int, tm) ==
  [ctlVal |-> v, origin |-> [orCat |-> cat, orIdent |-> id], ctlNum |-> num, t |-> <<2, 3>>,
   test |-> test, synchro |-> syn, interlock |-> int, operTm |-> tm]
MCParams == {CvPar(<<"bool", TRUE>>, 2, <<1>>, 3, FALSE, TRUE, FALSE, 17),
             CvPar(<<"struct", << <<"float", <<1, 2, 3, 4>>>> >> >>, 3, <<>>, 0, TRUE, FALSE, TRUE, 0),
             CvPar(<<"utcTime", <<1, 1>> >>, 1, <<1>>, 1, FALSE, TRUE, TRUE, 33),
             CvPar(<<"bits", 6, <<64>> >>, 1, [i \in 1 .. 64 |-> 1], 2, FALSE, FALSE, FALSE, 79),
             CvPar(<<"bits", 5, <<64>> >>, 1, <<>>, 2, FALSE, FALSE, FALSE, 1),
             CvPar(<<"bool", FALSE>>, 2, [i \in 1 .. 65 |-> 1], 3, FALSE, TRUE, FALSE, 2),
             CvPar(<<"int", 127>>, 2, <<1>>, 3, FALSE, TRUE, FALSE, 3),
             CvPar(<<"int", 128>>, 2, <<1>>, 3, FALSE, TRUE, FALSE, 3)}
CvCase(class, o, c, flag, inModel, attr, declared, p) ==
  [class |-> class, o |-> o, c |-> c, flag |-> flag, inModel |-> inModel, attr |-> attr,
   declared |-> declared, p |-> p, object |-> <<CvLd, CvName>>]
CvAnyPar == CHOOSE p \in MCParams : p.ctlNum = 0
MCControlCases ==
  {CvCase(k, o, {}, f, TRUE, "Oper", FALSE, CvAnyPar) : k \in PlainClasses \cup FlagClasses, o \in MCOptions, f \in BOOLEAN}
  \cup {CvCase(k, {}, c, FALSE, TRUE, at, FALSE, CvAnyPar) :
            k \in ControlClasses, c \in MCControl, at \in {"Oper", "SBOw", "Cancel"}}
  \cup {CvCase(k, o, {0, 1}, FALSE, TRUE, "Oper", FALSE, CvAnyPar) : k \in ControlClasses, o \in MCOptions}
  \cup {CvCase(k, {}, c, f, TRUE, at, d, p) : k \in ControlClasses, at \in {"Oper", "SBOw", "Cancel"}, f \in {FALSE},
            c \in {{2}, {2, 4, 5}}, d \in BOOLEAN, p \in MCParams}
  \cup {CvCase("APC", {}, {2}, TRUE, TRUE, "Oper", FALSE, p) : p \in MCParams}
  \cup {CvCase(k, {}, c, FALSE, FALSE, at, d, p) : k \in {"SPC", "APC"}, at \in {"Oper", "Cancel"},
            c \in {{2, 4}, {2, 4, 5}}, d \in BOOLEAN, p \in MCParams}

-----------------------------------------------------------------------------
(* The texts of the address value run: every short text over a few          *)
(* characters that matter to the type.                                      *)

AvUpTo(alphabet, most) == UNION {[1 .. n -> alphabet] : n \in 0 .. most}
MCAlphabet ==
  [t \in PredefinedTypes \cup {"Vendor-Type", "unknown"} |->
     CASE t \in IpTypes -> <<{"0", "2", "9", "."}, 5>>
       [] t \in Ipv6Types -> <<{"0", "a", "F", ":"}, 5>>
       [] t = "IPv6-SUBNET" -> <<{"0", "1", "2", "8", "/"}, 4>>
       [] t \in {"DNSName", "Vendor-Type", "unknown"} -> <<{"1", "a", " ", "tab"}, 3>>
       [] t \in {"IPv6FlowLabel", "APPID", "VLAN-ID", "IP-ClassOfTraffic"} -> <<{"0", "a", "F"}, 5>>
       [] t \in SelectorTypes -> <<{"0", "b", "C", " "}, 5>>
       [] t = "OSI-AP-Title" -> <<{"0", "9", ",", " "}, 5>>
       [] t \in {"OSI-AP-Invoke", "OSI-AE-Qualifier", "OSI-AE-Invoke"} -> <<{"0", "1", "9"}, 6>>
       [] t = "MAC-Address" -> <<{"0", "a", "B", "-"}, 5>>
       [] OTHER -> <<{"0", "1", "6", "lf"}, 5>>]
MCAddressTexts == [t \in {"IP", "IPv6", "IPv6-SUBNET", "DNSName", "Vendor-Type", "unknown", "IPv6FlowLabel",
                   "APPID", "VLAN-ID", "IP-ClassOfTraffic", "OSI-NSAP", "OSI-TSEL", "OSI-AP-Title",
                   "OSI-AE-Qualifier", "MAC-Address", "MMS-Port", "C37-118-IP-Port", "VLAN-PRIORITY",
                   "IPv6ClassOfTraffic"} |-> AvUpTo(MCAlphabet[t][1], MCAlphabet[t][2])]
MCSelector == [t \in SelectorTypes |-> IF t = "OSI-NSAP" THEN 3 ELSE IF t = "OSI-TSEL" THEN 1 ELSE 2]

-----------------------------------------------------------------------------
(***************************************************************************)
(* The documents the parser is run on: four well-formed files that use     *)
(* every element it knows, and every file one edit away from them.         *)
(***************************************************************************)

SpE(tag, given, items) == [kind |-> "el", tag |-> tag, given |-> given, items |-> items]
SpT(text) == [kind |-> "text", text |-> text]
SpX(text) == [kind |-> "explicit", text |-> text]
SpN(name) == [name |-> name]
PWith(type, items) == SpE("P", [type |-> type], items)
PA(type, text) == PWith(type, <<SpT(text)>>)
SpCb(name, cb) == [ldInst |-> name, cbName |-> cb]

GseWith(min) ==
  SpE("GSE", SpCb("L", "g"), << SpE("Address", <<>>, <<PA("MAC", <<"2">>), PA("V", <<"5">>)>>),
                            SpE("MinTime", [unit |-> "s", multiplier |-> "m"], <<SpT(min)>>),
                            SpE("MaxTime", <<>>, <<SpT(<<"7">>)>>) >>)
CommWith(ptext, min) ==
  SpE("SCL", <<>>,
    << SpE("Header", [id |-> "h", revision |-> "1"], <<>>),
       SpE("Substation", SpN("s"), <<SpE("Address", <<>>, <<PA("IP", <<"1">>)>>)>>),
       SpE("Communication", <<>>,
         << SpE("SubNetwork", [name |-> "n", type |-> "8-MMS"],
              << SpE("ConnectedAP", [iedName |-> "i", apName |-> "a"],
                   << SpE("Address", <<>>, <<PWith("IP", ptext), PA("SUB", <<" ", "1">>)>>),
                      GseWith(min), SpE("SMV", SpCb("L", "v"), <<SpE("Address", <<>>, <<PA("MAC", <<"2">>)>>)>>),
                      SpE("PhysConn", <<>>, <<PA("Plug", <<"7">>)>>) >>) >>) >>) >>)

SpTemplates ==
  SpE("SCL", <<>>,
    << SpE("DataTypeTemplates", <<>>,
         << SpE("LNodeType", [id |-> "lt", lnClass |-> "LLN0"], <<SpE("DO", [name |-> "d", type |-> "dt"], <<>>)>>),
            SpE("DOType", [id |-> "dt", cdc |-> "SPS"],
              << SpE("SDO", [name |-> "s", type |-> "dt2", count |-> "2"], <<>>),
                 SpE("DA", [name |-> "x", fc |-> "ST", bType |-> "INT32", dchg |-> "true", count |-> "n"],
                   <<SpE("Val", [sGroup |-> "1"], <<SpT(<<" ", "5">>)>>)>>) >>),
            SpE("DAType", [id |-> "at"],
              << SpE("BDA", [name |-> "b", bType |-> "Enum", type |-> "et"],
                   <<SpE("Val", <<>>, <<SpT(<<"a">>)>>), SpE("BDA", [name |-> "c", bType |-> "INT8"], <<>>)>>) >>),
            SpE("EnumType", [id |-> "et"], <<SpE("EnumVal", [ord |-> "-1"], <<SpT(<<"a", " ", "b">>)>>)>>) >>) >>)

SpIed(items) ==
  SpE("SCL", <<>>, << SpE("IED", SpN("i"),
     << SpE("Services", <<>>, <<SpE("ReportSettings", [owner |-> "true"], <<>>), SpE("DynDataSet", [max |-> "1"], <<>>)>>),
        SpE("AccessPoint", SpN("a"),
          << SpE("Server", <<>>,
               << SpE("Authentication", <<>>, <<>>),
                  SpE("LDevice", [inst |-> "L", ldName |-> "D"],
                    <<SpE("LN0", [lnClass |-> "LLN0", inst |-> "", lnType |-> "lt"], items)>>) >>) >>) >>) >>)

SpInstances ==
  SpIed(<< SpE("DOI", SpN("d"),
           << SpE("SDI", [name |-> "s", ix |-> "1"],
                << SpE("SDI", SpN("t"), <<SpE("DAI", [name |-> "x", valImport |-> "false"],
                                         <<SpE("Val", [sGroup |-> "2"], <<SpT(<<"5">>)>>), SpE("Val", <<>>, <<SpT(<<"a">>)>>)>>)>>),
                   SpE("DAI", SpN("y"), <<>>) >>),
              SpE("DAI", SpN("z"), <<SpE("Text", <<>>, <<>>)>>) >>) >>)

SpBlocks ==
  SpIed(<< SpE("DataSet", SpN("ds"), <<SpE("FCDA", [ldInst |-> "L", lnClass |-> "LLN0", fc |-> "ST", ix |-> "1"], <<>>)>>),
         SpE("ReportControl", [name |-> "r", datSet |-> "ds", buffered |-> "true"],
           << SpE("TrgOps", [dchg |-> "true"], <<>>), SpE("OptFields", [seqNum |-> "true"], <<>>),
              SpE("RptEnabled", [max |-> "2"], <<SpE("ClientLN", <<>>, <<>>)>>) >>),
         SpE("LogControl", [name |-> "l", logName |-> "D"], <<SpE("TrgOps", [period |-> "true"], <<>>)>>),
         SpE("GSEControl", [name |-> "g", appID |-> "g", datSet |-> "ds", type |-> "GOOSE"], <<>>),
         SpE("SampledValueControl", [name |-> "v", smvID |-> "v", datSet |-> "ds", smpRate |-> "7", nofASDU |-> "1"],
           <<SpE("SmvOpts", [security |-> "true"], <<>>)>>),
         SpE("SettingControl", [numOfSGs |-> "2", actSG |-> "2"], <<>>),
         SpE("Inputs", <<>>, <<SpE("ExtRef", <<>>, <<>>)>>) >>)

SpBases == <<CommWith(<<SpT(<<"1">>)>>, <<"5">>), SpTemplates, SpInstances, SpBlocks>>

-----------------------------------------------------------------------------
RECURSIVE SpNodesIn(_, _)
SpNodesIn(n, at) ==
  IF n.kind # "el" THEN <<>>
  ELSE LET inner == FoldLeft(LAMBDA acc, k : [ns |-> acc.ns \o SpNodesIn(k, acc.at), at |-> acc.at + EventCount(k)],
                             [ns |-> <<>>, at |-> at + 1], n.items)
       IN <<n>> \o inner.ns

RECURSIVE SpPut(_, _, _, _)
SpPut(n, at, k, new) ==
  IF n.kind # "el" THEN <<n>>
  ELSE IF at = k THEN new
  ELSE LET inner == FoldLeft(LAMBDA acc, x : [ns |-> acc.ns \o SpPut(x, acc.at, k, new), at |-> acc.at + EventCount(x)],
                             [ns |-> <<>>, at |-> at + 1], n.items)
       IN <<[n EXCEPT !.items = inner.ns]>>
SpWith(tree, k, new) == SpPut(tree, 1, k, new)[1]

SpDoc(tree, cut, fault) == [tree |-> tree, cut |-> cut, fault |-> fault]
SpFault(kind, at) == [kind |-> kind, at |-> at]
SpWithout(given, n) == [m \in DOMAIN given \ {n} |-> given[m]]

KeyedTags == {"SubNetwork", "ConnectedAP", "GSE", "SMV", "LNodeType", "DOType", "DAType", "EnumType", "IED",
              "AccessPoint", "LDevice", "LN0", "DataSet", "ReportControl", "LogControl", "GSEControl",
              "SampledValueControl"}
SingleTags == {"Header", "Communication", "Address", "MinTime", "MaxTime", "SettingControl"}
ReplacedTags == {"TrgOps", "OptFields", "SmvOpts", "RptEnabled", "ReportSettings", "Services", "Server", "SCL", "DataTypeTemplates"}
NeedChild == {"Communication", "SubNetwork", "Address", "DataSet"}
Guarded == {"SubNetwork", "ConnectedAP", "GSE", "SMV", "Address", "P", "MinTime", "MaxTime", "Services", "ReportSettings"}

SpKnown(n) == n.tag \in DOMAIN Fields
EditsOf(tree) ==
  LET nodes == SpNodesIn(tree, 1)
      known == {k \in DOMAIN nodes : SpKnown(nodes[k]) /\ k # 1}
      used == {k \in known : ~\E j \in DOMAIN nodes : ~SpKnown(nodes[j]) /\ j < k /\ k < j + EventCount(nodes[j])}
      dropped == {SpDoc(SpWith(tree, k, <<[nodes[k] EXCEPT !.given = SpWithout(@, a)]>>), 0,
                      IF Fields[nodes[k].tag][a].must THEN SpFault("attribute", k) ELSE None) :
                    <<k, a>> \in {x \in used \X UNION {DOMAIN nodes[k].given : k \in used} :
                                   x[2] \in DOMAIN nodes[x[1]].given}}
      garbled == {SpDoc(SpWith(tree, k, <<[nodes[k] EXCEPT !.given[a] = IF Fields[nodes[k].tag][a].type = "filled" THEN "" ELSE "?"]>>),
                      0, SpFault("attribute", k)) :
                    <<k, a>> \in {x \in used \X UNION {DOMAIN nodes[k].given : k \in used} :
                                   x[2] \in DOMAIN nodes[x[1]].given /\ Fields[nodes[x[1]].tag][x[2]].type # "text"}}
      doubled == {SpDoc(SpWith(tree, k, <<nodes[k], nodes[k]>>), 0,
                      IF nodes[k].tag \in KeyedTags THEN SpFault("duplicate", k + EventCount(nodes[k]))
                      ELSE IF nodes[k].tag \in SingleTags THEN SpFault("placement", k + EventCount(nodes[k])) ELSE None) :
                    k \in {x \in used : nodes[x].tag \notin ReplacedTags}}
      emptied == {SpDoc(SpWith(tree, k, <<[nodes[k] EXCEPT !.items = <<>>]>>), 0,
                      IF nodes[k].tag \in NeedChild THEN SpFault("element", k)
                      ELSE IF nodes[k].tag \in {"MinTime", "MaxTime"} THEN SpFault("attribute", k) ELSE None) : k \in used}
      atRoot == {SpDoc([tree EXCEPT !.items = Append(@, nodes[k])], 0,
                     IF nodes[k].tag \in Guarded THEN None
                     ELSE IF nodes[k].tag = "IED" THEN SpFault("duplicate", Len(nodes) + 1)
                     ELSE IF nodes[k].tag = "DataTypeTemplates" THEN SpFault("duplicate", Len(nodes) + 2)
                     ELSE SpFault("placement", Len(nodes) + 1)) : k \in used}
      hidden == {SpDoc(SpWith(tree, k, <<SpE("Private", <<>>, <<SpE("Private", <<>>, <<>>), nodes[k]>>), nodes[k]>>), 0, None) : k \in known}
      cuts == {SpDoc(tree, c, SpFault("unclosed", 0)) : c \in {1, 7}}
  IN {SpDoc(tree, 0, None)} \cup dropped \cup garbled \cup doubled \cup emptied \cup atRoot \cup hidden \cup cuts

Fragments == {SpT(<<" ">>), SpT(<<" ", "1">>), SpT(<<"1", " ">>), SpX(<<" ">>), SpX(<<"2", " ">>)}
TextDocs == {SpDoc(CommWith(t, <<"5">>), 0, None) : t \in UNION {[1 .. n -> Fragments] : n \in 1 .. 3}}
SpDurations == {SpDoc(CommWith(<<SpT(<<"1">>)>>, m), 0, None) :
               m \in {<<"1", ".", "5">>, <<"+", "7">>, <<".", "2">>, <<"5", ".">>, <<" ", "2", "1", " ">>}}
        \cup {SpDoc(CommWith(<<SpT(<<"1">>)>>, m), 0, SpFault("attribute", 16)) :
               m \in {<<".">>, <<"+">>, <<"1", " ", "2">>, <<"7", "7", "7", ".", "5">>, <<"1", ".", "a">>}}
MCSclDocuments == UNION {EditsOf(SpBases[i]) : i \in DOMAIN SpBases} \cup TextDocs \cup SpDurations

-----------------------------------------------------------------------------
(***************************************************************************)
(* The texts and files the stages after the parser are run on: texts of    *)
(* every basic type, files of one IED whose types and instances vary,      *)
(* files with one data set entry, files of types that refer to one         *)
(* another, and files with control blocks and addresses.  No file gives a  *)
(* DAI of one element twice, and every structure has a member.             *)
(***************************************************************************)

Numeral == {"-129", "-128", "-1", "0", "1", "2", "3", "5", "7", "16", "60", "99", "100", "127", "128", "255", "256", "300",
            "32767", "32768", "65535", "65536", "70000"}
MCNumerals ==
  [t \in Numeral |->
     CASE t = "-129" -> -129 [] t = "-128" -> -128 [] t = "-1" -> -1 [] t = "0" -> 0 [] t = "1" -> 1 [] t = "2" -> 2
       [] t = "3" -> 3 [] t = "5" -> 5 [] t = "7" -> 7 [] t = "16" -> 16 [] t = "60" -> 60 [] t = "99" -> 99 [] t = "100" -> 100
       [] t = "127" -> 127 [] t = "128" -> 128 [] t = "255" -> 255 [] t = "256" -> 256 [] t = "300" -> 300
       [] t = "32767" -> 32767 [] t = "32768" -> 32768 [] t = "65535" -> 65535 [] t = "65536" -> 65536
       [] t = "70000" -> 70000]
MCFloats == [t \in {"0", "7"} |-> IF t = "0" THEN 0 ELSE 7]

Sextets(n) == [i \in 1 .. n |-> (i * 37 + 11) % 64]
Pads(n) == [i \in 1 .. n |-> Pad]
Base64Texts ==
  {Sextets(n) \o Pads(k) : n \in {0, 1, 2, 3, 4, 5, 6, 7, 8, 9, 10, 21, 22, 23, 24}, k \in 0 .. 3}
  \cup {<<1, 2, Pad, 3>>, <<1, Pad, Pad, Pad>>, <<1, 2, Pad, Pad, 5, 6, 7, 8>>, <<1, Unread, 2, 3>>}
MCBase64 == [s \in Base64Texts |-> s]

Times == { <<0, 0, 0>>, <<23, 59, 59>>, <<6, 28, 15>>, <<6, 28, 16>>, <<24, 0, 0>>, <<24, 0, 1>> }
Zones == {None, <<1, 0, 30>>, <<-1, 14, 0>>, <<1, 14, 0>>}
Moment(y, mo, d, t, f, z) ==
  [year |-> y, month |-> mo, day |-> d, hour |-> t[1], minute |-> t[2], second |-> t[3], fraction |-> f, zone |-> z]
MomentSet ==
  {Moment(y, mo, d, t, <<>>, z) :
     y \in {1969, 1970, 2000, 2038, 2100, 2106},
     mo \in {1, 2, 3, 12}, d \in {1, 7, 29, 31}, t \in Times, z \in Zones}
  \cup {Moment(2024, mo, d, <<12, 30, 30>>, f, None) : mo \in {0, 2, 13}, d \in {0, 29, 30}, f \in {<<>>, <<5>>, <<0, 2, 5>>}}
MCMoments == [m \in MomentSet |-> m]

E(tag, given, kids) == [Raw(tag, 0, given) EXCEPT !.kids = kids]
ET(tag, given, text) == [Raw(tag, 0, given) EXCEPT !.text = text]
N(name) == [name |-> name]
Enum(id, ords) == E("EnumType", [id |-> id], [i \in DOMAIN ords |-> ET("EnumVal", [ord |-> ords[i]], <<IF i = 1 THEN "on" ELSE "off">>)])

Texts == {<<t>> : t \in Numeral \cup {"true", "false", "on", "off", "stop", "x"}}
         \cup {[i \in 1 .. n |-> "a"] : n \in {0, 3, 4, 32, 33, 64, 65, 66, 129, 130, 255, 256}}
Special == {"Enum", "Timestamp", "Octet6", "Octet16", "Octet64"}
ValueCase(b, e, t) == [kind |-> "value", bType |-> b, enum |-> e, text |-> t]
ValueCases ==
  \/ \E b \in (DOMAIN BTypes \ Special) \cup {"Foo"}, t \in Texts : smCase = ValueCase(b, None, t)
  \/ \E o \in {<<"0", "1">>, <<"-129", "0">>, <<"127", "128">>, <<"-1", "32768">>, <<"32767", "0">>}, t \in Texts :
       smCase = ValueCase("Enum", Enum("e", o), t)
  \/ \E b \in {"Octet6", "Octet16", "Octet64"}, s \in Base64Texts : smCase = ValueCase(b, None, <<s>>)
  \/ \E m \in MomentSet : smCase = ValueCase("Timestamp", None, <<m>>)

-----------------------------------------------------------------------------
With(rec, name, v) == IF v = None THEN rec ELSE [n \in DOMAIN rec \cup {name} |-> IF n = name THEN v ELSE rec[n]]
Sdo(n, t, c) == E("SDO", With([name |-> n, type |-> t], "count", c), <<>>)
Da(n, fc, b, c) == E("DA", With([name |-> n, fc |-> fc, bType |-> b], "count", c), <<>>)
DaOf(n, fc, b, t) == E("DA", [name |-> n, fc |-> fc, bType |-> b, type |-> t], <<>>)
Bda(n, b, c) == E("BDA", With([name |-> n, bType |-> b], "count", c), <<>>)
BdaOf(n, b, t) == E("BDA", [name |-> n, bType |-> b, type |-> t], <<>>)

Views(view) ==
  CASE view = "SE" -> <<DaOf("w", "SE", "Struct", "at")>>
    [] view = "both" -> <<DaOf("w", "SE", "Struct", "at"), DaOf("w", "SG", "Struct", "at")>>
    [] view = "dup" -> <<Da("s", "ST", "INT8", None)>>
    [] view = "clash" -> <<DaOf("w", "SE", "Struct", "at"), DaOf("w", "ST", "Struct", "at")>>
    [] OTHER -> <<DaOf("w", "ST", "Struct", "at")>>

TypesOf(k) ==
  << E("LNodeType", [id |-> "lt", lnClass |-> "LLN0"], <<E("DO", [name |-> "d", type |-> "dt1"], <<>>)>>),
     E("DOType", [id |-> "dt1", cdc |-> "C"],
       <<Sdo("s", "dt2", k.c1), [Da("n", "CF", "INT32U", None) EXCEPT !.text = k.n], Da("v", "SE", "INT8", k.c2)>>
       \o Views(k.view)),
     E("DOType", [id |-> "dt2", cdc |-> "C"],
       <<[Da("x", "ST", "INT32", None) EXCEPT !.text = <<"7">>], DaOf("t", "ST", "Struct", "at")>>),
     E("DAType", [id |-> "at"], <<Bda("p", "INT8U", k.c3), BdaOf("q", "Struct", "at2")>>),
     E("DAType", [id |-> "at2"], <<BdaOf("r", "Enum", "et")>>),
     Enum("et", <<"1", "2">>) >>

Val(t) == ET("Val", <<>>, <<t>>)
GVal(g, t) == ET("Val", [sGroup |-> g], <<t>>)
Sdi(n, ix, kids) == E("SDI", With(N(n), "ix", ix), kids)
Dai(n, ix, kids) == E("DAI", With(N(n), "ix", ix), kids)

Pool ==
  << Dai("n", None, <<Val("2")>>), Dai("n", None, <<Val("3")>>), Dai("n", None, <<Val("x")>>), Dai("n", None, <<Val("0")>>),
     Sdi("s", None, <<Dai("x", None, <<Val("3")>>)>>), Sdi("s", "1", <<Dai("x", None, <<Val("16")>>)>>),
     Sdi("s", "2", <<Dai("x", None, <<Val("3")>>)>>),
     Sdi("s", "0", <<Sdi("t", None, <<Dai("p", "1", <<Val("3")>>), Dai("p", None, <<Val("2")>>)>>)>>),
     Sdi("s", None, <<Sdi("t", None, <<Sdi("q", None, <<Dai("r", None, <<Val("off")>>)>>)>>)>>),
     Dai("v", None, <<Val("3")>>), Dai("v", "1", <<Val("2")>>), Dai("v", "1", <<Val("300")>>), Dai("v", "0", <<>>),
     Dai("v", None, <<GVal("1", "2"), GVal("2", "3"), Val("1")>>), Dai("v", "1", <<GVal("2", "3"), GVal("1", "2")>>),
     Dai("v", None, <<GVal("3", "2")>>), Dai("v", None, <<GVal("1", "2"), GVal("1", "3")>>),
     Sdi("w", None, <<Dai("p", None, <<Val("3")>>)>>), Sdi("w", None, <<Dai("p", "1", <<Val("3")>>)>>),
     Sdi("w", None, <<Sdi("q", None, <<Dai("r", None, <<Val("2")>>)>>), Dai("q", None, <<>>)>>),
     Dai("w", None, <<Val("3")>>), Dai("zz", None, <<Val("3")>>), Sdi("n", None, <<Dai("x", None, <<>>)>>) >>

Sgcb(k) == IF k = None THEN <<>> ELSE <<E("SettingControl", [numOfSGs |-> k], <<>>)>>
Ln0(kids) == E("LN0", [lnClass |-> "LLN0", inst |-> "", lnType |-> "lt"], kids)
Ld(inst, kids) == E("LDevice", [inst |-> inst], kids)
Ied(name, lds) == E("IED", N(name), <<E("AccessPoint", N("a"), <<E("Server", <<>>, lds)>>)>>)
Scl(kids) == E("SCL", <<>>, kids)
File(scl, all, det) == [kind |-> "file", scl |-> scl, ied |-> "i", all |-> all, det |-> det]

AllKnobs ==
  [c1 : {None, "2", "n"}, c2 : {None, "2", "n"}, c3 : {None, "2"}, n : {<<>>, <<"2">>},
   view : {"SE", "both", "ST", "clash", "dup"}]
SomeKnobs == {k \in AllKnobs : k.n = <<>> /\ k.view \in {"SE", "both"} /\ k.c1 # "2" /\ k.c2 = "n"}
TypeTable == [k \in AllKnobs |-> TypesOf(k)]
WithDais(dais, sg) == Ied("i", <<Ld("L", <<Ln0(Sgcb(sg) \o <<E("DOI", N("d"), dais)>>)>>)>>)
OnesOf(pool) == [i \in DOMAIN pool |-> WithDais(<<pool[i]>>, "2")]
OneDai == OnesOf(Pool)
DaiPaths(inst) == {r[1] : r \in ToSet(DaiRefs(inst, <<>>))}
Pairs(pool) == {p \in (DOMAIN pool) \X (DOMAIN pool) : DaiPaths(pool[p[1]]) \cap DaiPaths(pool[p[2]]) = {}}
TwosOf(pool) == [p \in Pairs(pool) |-> WithDais(<<pool[p[1]], pool[p[2]]>>, None)]
TwoDais == TwosOf(Pool)
RawScl == Raw("SCL", 0, <<>>)
FileOf(types, ied, det) == File([RawScl EXCEPT !.kids = types \o <<ied>>], FALSE, det)
FilesOf(types, ones, twos) ==
  \/ \E k \in AllKnobs, i \in DOMAIN ones : smCase = FileOf(types[k], ones[i], TRUE)
  \/ \E k \in SomeKnobs, p \in DOMAIN twos : smCase = FileOf(types[k], twos[p], FALSE)
InstanceFiles == FilesOf(TypeTable, OneDai, TwoDais)

-----------------------------------------------------------------------------
Seg(n, i) == [name |-> n, index |-> i]
Names == {"d", "d.s", "d.s(1)", "d.s(5)", "zz", "x", "t", "v", "v(1)", "w.p", "w.p(0)", "w.q.r", "t.p", "t.p(1)", "s(1).x", "bad("}
MCNamePaths ==
  [n \in Names |->
     CASE n = "d" -> <<Seg("d", None)>> [] n = "d.s" -> <<Seg("d", None), Seg("s", None)>>
       [] n = "d.s(1)" -> <<Seg("d", None), Seg("s", 1)>> [] n = "d.s(5)" -> <<Seg("d", None), Seg("s", 5)>>
       [] n \in {"zz", "x", "t", "v"} -> <<Seg(n, None)>> [] n = "v(1)" -> <<Seg("v", 1)>>
       [] n = "w.p" -> <<Seg("w", None), Seg("p", None)>> [] n = "w.p(0)" -> <<Seg("w", None), Seg("p", 0)>>
       [] n = "w.q.r" -> <<Seg("w", None), Seg("q", None), Seg("r", None)>>
       [] n = "t.p" -> <<Seg("t", None), Seg("p", None)>> [] n = "t.p(1)" -> <<Seg("t", None), Seg("p", 1)>>
       [] n = "s(1).x" -> <<Seg("s", 1), Seg("x", None)>> [] OTHER -> Unread]

Fcda(d, a, ix, fc, ld) ==
  E("FCDA", With(With([ldInst |-> ld, lnClass |-> "LLN0", fc |-> fc, doName |-> d], "daName", a), "ix", ix), <<>>)
SetIeds ==
  {Ied("i", <<Ld("L", <<Ln0(<<E("DataSet", N("D"), <<Fcda(d, a, ix, fc, "L")>>)>>)>>)>>) :
     d \in {"d", "d.s", "d.s(1)", "d.s(5)"}, a \in {None, "x", "t", "v", "v(1)", "w.p", "w.p(0)", "w.q.r", "t.p", "t.p(1)", "bad("},
     ix \in {None, "0", "1"}, fc \in {"ST", "SE", "SG"}}
SetFiles ==
  \E k \in {x \in AllKnobs : x.n = <<>> /\ x.view = "SE" /\ x.c1 # "n" /\ x.c2 # "n"}, i \in SetIeds :
    smCase = FileOf(TypeTable[k], i, TRUE)

-----------------------------------------------------------------------------
Targets(ids, n) == UNION {[1 .. m -> ids] : m \in 0 .. n}
Ids == <<"p", "q", "r", "u", "zz">>
DoGraph(g) ==
  [i \in 1 .. Cardinality(DOMAIN g) |->
     E("DOType", [id |-> Ids[i], cdc |-> "C"],
       [j \in DOMAIN g[i] |-> E("SDO", [name |-> Ids[j], type |-> Ids[g[i][j]]], <<>>)])]
DaGraph(g) ==
  [i \in 1 .. Cardinality(DOMAIN g) |->
     E("DAType", [id |-> Ids[i]], [j \in DOMAIN g[i] |-> BdaOf(Ids[j], "Struct", Ids[g[i][j]])])]
NestGraph(g) ==
  [i \in 1 .. Cardinality(DOMAIN g) |->
     E("DAType", [id |-> Ids[i]],
       IF g[i] = <<>> THEN <<>>
       ELSE << [BdaOf("x", "Struct", Ids[g[i][1]])
                 EXCEPT !.kids = [j \in 1 .. Len(g[i]) - 1 |-> BdaOf("y", "Struct", Ids[g[i][j + 1]])]] >>)]
Graphs3 == [1 .. 3 -> Targets(1 .. 3, 2)]
Graphs4 == [1 .. 4 -> Targets(1 .. 5, 1)]
GraphFiles ==
  \/ \E g \in Graphs3 : \E t \in {DoGraph(g), DaGraph(g), NestGraph(g)} : smCase = File(Scl(t), FALSE, TRUE)
  \/ \E g \in Graphs4 : \E t \in {DoGraph(g), DaGraph(g)} : smCase = File(Scl(t), FALSE, TRUE)

-----------------------------------------------------------------------------
BareTypes ==
  << E("LNodeType", [id |-> "l0", lnClass |-> "LLN0"], <<E("DO", [name |-> "d", type |-> "t"], <<>>)>>),
     E("LNodeType", [id |-> "l1", lnClass |-> "GGIO"], <<E("DO", [name |-> "d", type |-> "t"], <<>>)>>),
     E("DOType", [id |-> "t", cdc |-> "C"], <<Da("x", "ST", "INT8", None)>>) >>

Report(n, ds, indexed, max) ==
  E("ReportControl", With([name |-> n, indexed |-> indexed], "datSet", ds),
    IF max = None THEN <<>> ELSE <<E("RptEnabled", [max |-> max], <<>>)>>)
Goose(n) == E("GSEControl", [name |-> n, appID |-> IF n = "b" THEN "" ELSE n, datSet |-> "D"], <<>>)
Sampled(n) == E("SampledValueControl", [name |-> n, smvID |-> "", datSet |-> "D", smpRate |-> "60", nofASDU |-> "1"], <<>>)
LogEl(n) == E("LogControl", [name |-> n, datSet |-> "D"], <<E("TrgOps", [dchg |-> "true"], <<>>)>>)
SetEl(n) == E("DataSet", N(n), <<E("FCDA", [ldInst |-> "L", lnClass |-> "GGIO", lnInst |-> "1", fc |-> "ST", doName |-> "d"], <<>>)>>)
LnEl(class, inst, prefix, kids) ==
  E("LN", With([lnClass |-> class, inst |-> inst, lnType |-> "l1"], "prefix", prefix), kids)
Node0(kids) == E("LN0", [lnClass |-> "LLN0", inst |-> "", lnType |-> "l0"], kids)

(* Everything out of order. *)
LnsOf(report, sg) ==
  << Node0(<<SetEl("E"), SetEl("D")>> \o report \o Sgcb(sg) \o <<Goose("c"), Goose("b"), Sampled("c"), Sampled("b"), LogEl("c"), LogEl("b")>>),
     LnEl("MMXU", "1", None, <<SetEl("D")>>), LnEl("GGIO", "2", "p", <<>>), LnEl("GGIO", "1", None, <<>>) >>
BusOf(tag, ld, cb, mac, times) ==
  E(tag, [ldInst |-> ld, cbName |-> cb],
    <<E("Address", <<>>, <<ET("P", [type |-> "MAC-Address"], <<mac>>), ET("P", [type |-> "foo"], <<"x">>)>>)>> \o times)
TimeEl(tag, ms) == ET(tag, <<>>, <<ms>>)
Streams1 ==
  << <<>>,
     <<BusOf("GSE", "L", "b", "m1", <<>>), BusOf("GSE", "L", "b", "m2", <<>>), BusOf("SMV", "L", "c", "m3", <<>>)>>,
     <<BusOf("GSE", "L", "c", "m1", <<TimeEl("MinTime", 4), TimeEl("MaxTime", 9)>>), BusOf("GSE", "L", "b", "m2", <<>>)>>,
     <<BusOf("GSE", "L", "c", "m1", <<TimeEl("MinTime", 9), TimeEl("MaxTime", 4)>>)>>,
     <<BusOf("GSE", "L", "zz", "m1", <<>>)>>, <<BusOf("SMV", "M", "b", "m1", <<>>)>> >>
Comm(ied, ap, streams) ==
  E("Communication", <<>>,
    <<E("SubNetwork", N("W"), <<E("ConnectedAP", [iedName |-> "j", apName |-> "a"], <<BusOf("GSE", "L", "b", "m9", <<>>)>>),
                                E("ConnectedAP", [iedName |-> ied, apName |-> ap], streams)>>)>>)
ControlFiles ==
  \E r \in {<<>>, <<Report("c", "D", "true", "2"), Report("b", None, "true", None)>>, <<Report("b", "D", "true", "100")>>,
             <<Report("b", "D", "false", "100")>>, <<Report("b", "zz", "true", "2")>>, <<Report("b", "D", "true", "2"), Report("b", "D", "true", "2")>>},
     sg \in {None, "2", "300"}, m \in DOMAIN Streams1, ap \in {"a", "b"}, det \in BOOLEAN, all \in BOOLEAN,
     other \in {Ld("M", <<Node0(<<Sampled("b"), SetEl("D")>>)>>), Ld("L", <<Node0(<<>>)>>)} :
    smCase = File(Scl(BareTypes \o <<Comm("i", ap, Streams1[m]), Ied("j", <<Ld("L", <<Node0(<<Goose("b"), SetEl("D")>>), LnEl("GGIO", "1", None, <<>>)>>)>>),
                                       Ied("i", <<other, Ld("L", LnsOf(r, sg))>>)>>), all, det)

MCNameOrder == <<"", "1", "2", "D", "E", "GGIO", "L", "LLN0", "M", "MMXU", "b", "c", "i", "j", "p">>
MCParameterTypes == {"MAC-Address", "VLAN-ID"}
MCSclCases == ValueCases \/ InstanceFiles \/ SetFiles \/ GraphFiles \/ ControlFiles

-----------------------------------------------------------------------------
(***************************************************************************)
(* The device model and the SCL reader, one part at a time: the common     *)
(* data classes with the control values, the address values, the SCL       *)
(* parser, and the stages after it.  The other parts stay in one of their  *)
(* initial states.                                                         *)
(***************************************************************************)

VARIABLE part

mdVars == <<part, cvVars, avVars, spVars, smVars>>

IdleCase == CvCase("SPS", {}, {}, FALSE, TRUE, "Oper", FALSE, CvAnyPar)
IdleDoc == SpDoc(SpE("SCL", <<>>, <<>>), 0, None)
IdleEvents == EventsIn(IdleDoc)
IdleStart == ParserStart

CvIdle == cvCase = IdleCase /\ cvGot = None /\ cvBack = None
AvIdle == avType = "IP" /\ avText = <<>>
SpIdle == spDoc = IdleDoc /\ spRest = IdleEvents /\ ps = IdleStart /\ spDone = FALSE
SmIdle == smCase = ValueCase("INT8", None, <<"1">>) /\ SmInit

MdInit ==
  \/ part = "control" /\ CvInit /\ AvIdle /\ SpIdle /\ SmIdle
  \/ part = "address" /\ AvInit /\ CvIdle /\ SpIdle /\ SmIdle
  \/ part = "parser" /\ SpInit /\ CvIdle /\ AvIdle /\ SmIdle
  \/ part = "stages" /\ SmInit /\ MCSclCases /\ CvIdle /\ AvIdle /\ SpIdle

OnFile == part = "stages" /\ UNCHANGED <<part, cvVars, avVars, spVars>>

MdNext ==
  \/ part = "control" /\ CvNext /\ UNCHANGED <<part, avVars, spVars, smVars>>
  \/ part = "address" /\ AvNext /\ UNCHANGED <<part, cvVars, spVars, smVars>>
  \/ part = "parser" /\ SpNext /\ UNCHANGED <<part, cvVars, avVars, smVars>>
  \/ OnFile /\ SmReadValue
  \/ OnFile /\ SmResolve
  \/ OnFile /\ SmBuild
  \/ OnFile /\ SmPrebuild
  \/ OnFile /\ SmCompile
=============================================================================
