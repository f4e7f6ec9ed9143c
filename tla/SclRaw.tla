-------------------------------- MODULE SclRaw --------------------------------
(***************************************************************************)
(* The elements of an SCL document as src/crates/iec61850-scl reads them:  *)
(* the attributes of each (attrs.rs, enums.rs and the build_ functions of  *)
(* parser.rs) and the elements it may hold (raw/elements.rs).              *)
(*                                                                         *)
(* A raw element is [tag, at, a, text, kids]: at is its place in the       *)
(* document, a the value of every attribute the code keeps, text its       *)
(* character data, kids the elements inside it in document order.  The     *)
(* vectors and options of the Rust structures are the kids of one tag.     *)
(***************************************************************************)
EXTENDS Absence, Integers, Sequences, FiniteSets, FiniteSetsExt, SequencesExt

CONSTANTS Unread,    \* what does not parse
          Numerals   \* the decimal texts of the runs, with their values

-----------------------------------------------------------------------------
(* Attribute values. *)

DataFcs == {"ST", "MX", "CO", "SP", "SG", "SE", "SV", "CF", "DC", "EX", "SR", "BL", "OR"}
GseTypes == [GOOSE |-> "Goose", GSSE |-> "GsSe"]
SmpMods == [SmpPerPeriod |-> "SamplesPerPeriod", SmpPerSec |-> "SamplesPerSecond",
            SecPerSmp |-> "SecondsPerSample"]
Booleans == [true |-> TRUE, false |-> FALSE]

ParseU32(text) ==
  IF text \in DOMAIN Numerals THEN IF Numerals[text] >= 0 THEN Numerals[text] ELSE Unread ELSE Unread

(* A count is a number of elements or the name of an attribute. *)
ParseCount(text) ==
  IF text \in DOMAIN Numerals THEN IF ParseU32(text) = Unread THEN Unread ELSE <<"elements", Numerals[text]>>
  ELSE IF text \in {"", "?"} THEN Unread ELSE <<"attribute", text>>

Lookup(table, text) == IF text \in DOMAIN table THEN table[text] ELSE Unread

ParseAttr(type, text) ==
  CASE type = "text" -> text
    [] type = "filled" -> IF text = "" THEN Unread ELSE text
    [] type = "u32" -> ParseU32(text)
    [] type = "positive" -> IF ParseU32(text) = 0 THEN Unread ELSE ParseU32(text)
    [] type = "i32" -> Lookup(Numerals, text)
    [] type = "bool" -> Lookup(Booleans, text)
    [] type = "count" -> ParseCount(text)
    [] type = "fc" -> IF text \in DataFcs THEN text ELSE Unread
    [] type = "gseType" -> Lookup(GseTypes, text)
    [] type = "smpMod" -> Lookup(SmpMods, text)
    [] type = "second" -> IF text = "s" THEN text ELSE Unread
    [] type = "milli" -> IF text = "m" THEN text ELSE Unread

Must(type) == [type |-> type, must |-> TRUE, default |-> None]
May(type) == [type |-> type, must |-> FALSE, default |-> None]
Else(type, default) == [type |-> type, must |-> FALSE, default |-> default]
Flags(names) == [n \in names |-> Else("bool", FALSE)]

-----------------------------------------------------------------------------
(* The attributes of each element. *)

HeaderFields ==
  [Header |-> [id |-> Must("text"), version |-> May("text"), revision |-> May("text"),
               toolID |-> May("text"), nameStructure |-> May("text")]]

SubNetworkFields ==
  [SubNetwork |-> [name |-> Must("text"), desc |-> May("text"), type |-> May("filled")],
   ConnectedAP |-> [iedName |-> Must("text"), apName |-> Must("text")]]

AddressFields ==
  [GSE |-> [ldInst |-> Must("text"), cbName |-> Must("text")],
   SMV |-> [ldInst |-> Must("text"), cbName |-> Must("text")],
   Address |-> <<>>,
   P |-> [type |-> Must("text")],
   MinTime |-> [unit |-> May("second"), multiplier |-> May("milli")],
   MaxTime |-> [unit |-> May("second"), multiplier |-> May("milli")]]

IedFields ==
  [IED |-> [name |-> Must("text"), desc |-> May("text"), manufacturer |-> May("text"),
            configVersion |-> May("text")],
   AccessPoint |-> [name |-> Must("text")],
   ReportSettings |-> [owner |-> Else("bool", FALSE), resvTms |-> Else("bool", FALSE)],
   Server |-> <<>>,
   LDevice |-> [inst |-> Must("text"), ldName |-> May("text"), desc |-> May("text")],
   LN |-> [lnClass |-> Must("text"), inst |-> Must("text"), lnType |-> Must("text"),
           prefix |-> May("text"), desc |-> May("text")],
   LN0 |-> [lnClass |-> Else("text", "LLN0"), inst |-> Must("text"), lnType |-> Must("text"),
            prefix |-> May("text"), desc |-> May("text")]]

TypeFields ==
  [LNodeType |-> [id |-> Must("text"), lnClass |-> Must("text"), iedType |-> May("text")],
   DO |-> [name |-> Must("text"), type |-> Must("text"), transient |-> Else("bool", FALSE),
           accessControl |-> May("text")],
   DOType |-> [id |-> Must("text"), cdc |-> Must("text")],
   SDO |-> [name |-> Must("text"), type |-> Must("text"), count |-> May("count")]]

AttributeFields ==
  [DA |-> [name |-> Must("text"), fc |-> Must("fc"), bType |-> Must("text"), type |-> May("text"),
           count |-> May("count"), valKind |-> May("text")] @@ Flags({"dchg", "qchg", "dupd"}),
   DAType |-> [id |-> Must("text")],
   BDA |-> [name |-> Must("text"), bType |-> Must("text"), type |-> May("text"),
            count |-> May("count"), valKind |-> May("text")],
   EnumType |-> [id |-> Must("text")],
   EnumVal |-> [ord |-> Must("i32"), desc |-> May("text")],
   Val |-> [sGroup |-> May("u32")]]

InstanceFields ==
  [DOI |-> [name |-> Must("text"), desc |-> May("text")],
   SDI |-> [name |-> Must("text"), ix |-> May("u32")],
   DAI |-> [name |-> Must("text"), ix |-> May("u32"), valKind |-> May("text"), valImport |-> May("bool")]]

DataSetFields ==
  [DataSet |-> [name |-> Must("text"), desc |-> May("text")],
   FCDA |-> [ldInst |-> Must("text"), lnClass |-> Must("text"), fc |-> Must("fc"),
             prefix |-> May("text"), lnInst |-> May("text"), doName |-> May("text"),
             daName |-> May("text"), ix |-> May("u32")]]

ReportFields ==
  [ReportControl |->
     [name |-> Must("text"), rptID |-> May("text"), datSet |-> May("text"),
      confRev |-> Else("u32", 0), buffered |-> Else("bool", FALSE), intgPd |-> Else("u32", 0),
      bufTime |-> Else("u32", 0), indexed |-> Else("bool", TRUE)],
   LogControl |->
     [name |-> Must("text"), datSet |-> May("text"), logName |-> May("text"),
      logEna |-> Else("bool", TRUE), intgPd |-> Else("u32", 0), reasonCode |-> Else("bool", TRUE),
      bufTime |-> Else("u32", 0)],
   RptEnabled |-> [max |-> Else("positive", 1)]]

BusFields ==
  [GSEControl |->
     [name |-> Must("text"), appID |-> Must("text"), datSet |-> Must("text"),
      confRev |-> Else("u32", 0), fixedOffs |-> Else("bool", FALSE), type |-> Else("gseType", "Goose")],
   SampledValueControl |->
     [name |-> Must("text"), smvID |-> Must("text"), datSet |-> Must("text"),
      smpRate |-> Must("u32"), nofASDU |-> Must("u32"), confRev |-> Else("u32", 0),
      multicast |-> Else("bool", TRUE), smpMod |-> Else("smpMod", "SamplesPerPeriod")]]

SettingFields ==
  [SettingControl |-> [numOfSGs |-> Must("u32"), actSG |-> Else("u32", 1), resvTms |-> May("u32")]]

TrgOpsFields == [TrgOps |-> Flags({"dchg", "qchg", "dupd", "period"}) @@ [gi |-> Else("bool", TRUE)]]

OptFieldsFields ==
  [OptFields |-> Flags({"seqNum", "timeStamp", "dataSet", "reasonCode", "dataRef", "entryID",
                        "configRef", "segmentation"}) @@ [bufOvfl |-> Else("bool", TRUE)]]

SmvOptsFields ==
  [SmvOpts |-> Flags({"refreshTime", "sampleSynchronized", "sampleRate", "dataSet", "security",
                      "dataRef"})]

Fields ==
  HeaderFields @@ SubNetworkFields @@ AddressFields @@ IedFields @@ TypeFields @@ AttributeFields
  @@ InstanceFields @@ DataSetFields @@ ReportFields @@ BusFields @@ SettingFields
  @@ TrgOpsFields @@ OptFieldsFields @@ SmvOptsFields
  @@ [t \in {"SCL", "Communication", "DataTypeTemplates", "Services"} |-> <<>>]

BadFieldsAllRequired(fields, given) ==
  \E n \in DOMAIN fields : n \in DOMAIN given => ParseAttr(fields[n].type, given[n]) = Unread

(* parse_required and parse_optional: an attribute that is missing, or one *)
(* whose text does not parse.                                              *)
BadFields(fields, given) ==
  \E n \in DOMAIN fields :
    IF n \in DOMAIN given THEN ParseAttr(fields[n].type, given[n]) = Unread ELSE fields[n].must

(* LN0 has its class whatever the document says. *)
FieldValues(fields, given, fixed) ==
  [n \in DOMAIN fields |->
     IF n \in DOMAIN given /\ n \notin fixed THEN ParseAttr(fields[n].type, given[n]) ELSE fields[n].default]

RawOf(fields, tag, at, given) ==
  [tag |-> tag, at |-> at, a |-> FieldValues(fields, given, IF tag = "LN0" THEN {"lnClass"} ELSE {}),
   text |-> <<>>, kids |-> <<>>]

Raw(tag, at, given) == RawOf(Fields[tag], tag, at, given)

-----------------------------------------------------------------------------
(* What an element may hold. *)

IedHolds ==
  [IED |-> {"AccessPoint", "ReportSettings"}, AccessPoint |-> {"Server", "ReportSettings"},
   Server |-> {"LDevice"}, LDevice |-> {"LN", "LN0"}]

LnHolds ==
  [t \in {"LN", "LN0"} |->
     {"DOI", "DataSet", "ReportControl", "LogControl", "GSEControl", "SampledValueControl",
      "SettingControl"}]

InstanceHolds == [DOI |-> {"SDI", "DAI"}, SDI |-> {"SDI", "DAI"}, DAI |-> {"Val"}]

ControlHolds ==
  [DataSet |-> {"FCDA"}, ReportControl |-> {"TrgOps", "OptFields", "RptEnabled"},
   LogControl |-> {"TrgOps"}, SampledValueControl |-> {"SmvOpts"}]

TemplateHolds ==
  [LNodeType |-> {"DO"}, DOType |-> {"SDO", "DA"}, DAType |-> {"BDA"}, BDA |-> {"BDA"},
   EnumType |-> {"EnumVal"}]

CommunicationHolds ==
  [Communication |-> {"SubNetwork"}, SubNetwork |-> {"ConnectedAP"},
   ConnectedAP |-> {"Address", "GSE", "SMV"}, GSE |-> {"Address", "MinTime", "MaxTime"},
   SMV |-> {"Address"}, Address |-> {"P"}]

Holds ==
  IedHolds @@ LnHolds @@ InstanceHolds @@ ControlHolds @@ TemplateHolds @@ CommunicationHolds
  @@ [SCL |-> {"Header", "Communication", "IED", "LNodeType", "DOType", "DAType", "EnumType"}]
  @@ [t \in DOMAIN Fields |-> {}]

Kids(raw, tags) == SelectSeq(raw.kids, LAMBDA k : k.tag \in tags)

HeadOr(s) == IF s = <<>> THEN None ELSE s[1]

Kid(raw, tag) == HeadOr(Kids(raw, {tag}))

(* Sets an Option field, whatever it held. *)
WithKid(raw, kid) == [raw EXCEPT !.kids = Append(SelectSeq(@, LAMBDA k : k.tag # kid.tag), kid)]

(* default_when_missing, for a control block without the element. *)
Bits(raw, tag) ==
  IF Kid(raw, tag) # None THEN Kid(raw, tag).a
  ELSE [n \in DOMAIN Fields[tag] |-> tag = "OptFields" /\ n = "bufOvfl"]
=============================================================================
