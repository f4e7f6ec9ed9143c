------------------------------ MODULE SclParser ------------------------------
(***************************************************************************)
(* The SCL parser, src/crates/iec61850-scl/src/parser.rs: a machine that   *)
(* reads the document as a stream of tags and texts, keeps one slot for    *)
(* the element of each kind that is open, and moves it into its holder at  *)
(* its end tag.                                                            *)
(*                                                                         *)
(* An event is [kind, tag, given, text, at].  An empty element is a start  *)
(* and an end with nothing between, as the code treats it.  That tags pair *)
(* up is the XML reader's business; that all are closed is the parser's.   *)
(***************************************************************************)
EXTENDS SclRaw

CONSTANTS SclDocuments,    \* the documents of a run
          DurationMax      \* u32::MAX milliseconds

VARIABLES spDoc,    \* the document
          spRest,   \* the events still to come
          ps,       \* ParserState and the result
          spDone    \* parse has returned
spVars == <<spDoc, spRest, ps, spDone>>

-----------------------------------------------------------------------------
(* Text.  White space written as such is dropped at both ends, white space *)
(* given by a reference or in a CDATA section is not.                      *)

NoRun == [text |-> <<>>, first |-> None, last |-> None]

PushLiteral(run, text) == [run EXCEPT !.text = @ \o text]

PushExplicit(run, text) ==
  [text |-> run.text \o text,
   first |-> IF run.first = None THEN Len(run.text) ELSE run.first,
   last |-> Len(run.text) + Len(text)]

IsXmlSpace(c) == c = " "

TrimmedFrom(run, start, guardEnd) ==
  SubSeq(run.text, start + 1,
         Max({i \in start .. Len(run.text) : i <= guardEnd \/ i = start \/ ~IsXmlSpace(run.text[i])}))

TrimmedAround(run, guardStart, guardEnd) ==
  TrimmedFrom(run, Min({i \in 0 .. guardStart : i = guardStart \/ ~IsXmlSpace(run.text[i + 1])}), guardEnd)

Trimmed(run) ==
  TrimmedAround(run, IF run.first = None THEN Len(run.text) ELSE run.first,
                     IF run.last = None THEN 0 ELSE run.last)

(* Milliseconds, a half rounding up. *)
IsDigit(c) == c \in DOMAIN Numerals

Milliseconds(whole, fraction) ==
  FoldLeft(LAMBDA n, c : 10 * n + Numerals[c], 0, whole)
  + (IF fraction # <<>> /\ Numerals[Head(fraction)] >= 5 THEN 1 ELSE 0)

InRange(ms) == IF ms > DurationMax THEN None ELSE ms

DurationOf(whole, fraction) ==
  IF whole \o fraction = <<>> \/ \E c \in ToSet(whole \o fraction) : ~IsDigit(c) THEN None
  ELSE InRange(Milliseconds(whole, fraction))

SplitAt(text, dots) ==
  IF dots = {} THEN DurationOf(text, <<>>)
  ELSE DurationOf(SubSeq(text, 1, Min(dots) - 1), SubSeq(text, Min(dots) + 1, Len(text)))

WithoutSign(text) == IF text # <<>> /\ Head(text) = "+" THEN Tail(text) ELSE text

AtDot(text) == SplitAt(text, {i \in DOMAIN text : text[i] = "."})

ParseDurationMs(text) == AtDot(WithoutSign(Trimmed(PushLiteral(NoRun, text))))

-----------------------------------------------------------------------------
(* The state. *)

SlotTags ==
  {"SCL", "Header", "Communication", "SubNetwork", "ConnectedAP", "GSE", "SMV", "Address", "P",
   "Duration", "LNodeType", "DOType", "DAType", "EnumType", "DA", "EnumVal", "IED",
   "AccessPoint", "Server", "LDevice", "LN", "DOI", "DAI", "DataSet", "ReportControl",
   "LogControl", "GSEControl", "SampledValueControl"}

ParserStart ==
  [path |-> <<>>, skip |-> None,
   slot |-> [t \in SlotTags |-> IF t = "SCL" THEN Raw("SCL", 0, <<>>) ELSE None],
   bdas |-> <<>>, sdis |-> <<>>, target |-> "None", run |-> NoRun, comm |-> <<>>, err |-> None]

ParseFails(s, kind, at) == [s EXCEPT !.err = [kind |-> kind, at |-> at]]

IsOpen(s, tag) == s.slot[tag] # None

EnterSkip(s, tag) == [s EXCEPT !.skip = [tag |-> tag, depth |-> Len(s.path)]]

(* Moves an element into the one that holds it, if that is open. *)
AttachTo(s, holder, raw) ==
  IF IsOpen(s, holder) THEN [s EXCEPT !.slot[holder].kids = Append(@, raw)] ELSE s

SetIn(s, holder, raw) == [s EXCEPT !.slot[holder] = WithKid(@, raw)]

(* The slot of an element, and the key no sibling may share. *)
SlotOf(tag) ==
  IF tag = "LN0" THEN "LN" ELSE IF tag \in {"MinTime", "MaxTime"} THEN "Duration" ELSE tag

Siblings(s, e, holder) ==
  IF ~IsOpen(s, holder) THEN <<>>
  ELSE Kids(s.slot[holder], IF SlotOf(e.tag) = "LN" THEN {"LN", "LN0"} ELSE {e.tag})

(* The prefix of a logical node may be absent. *)
KeyValue(raw, n) == IF raw.a[n] = None THEN "" ELSE raw.a[n]

Duplicate(s, e, holder, key) ==
  key # <<>> /\ \E other \in ToSet(Siblings(s, e, holder)) :
    \A n \in ToSet(key) : KeyValue(other, n) = KeyValue(e.raw, n)

(* The common course of a start tag: its place, its attributes, its key. *)
Started(s, e, placed, holder, key) ==
  IF ~placed THEN ParseFails(s, "placement", e.at)
  ELSE IF e.bad THEN ParseFails(s, "attribute", e.at)
  ELSE IF Duplicate(s, e, holder, key) THEN ParseFails(s, "duplicate", e.at)
  ELSE [s EXCEPT !.slot[SlotOf(e.tag)] = e.raw]

(* Elements that are added to the open holder at once. *)
Added(s, e, holder) ==
  IF ~IsOpen(s, holder) THEN ParseFails(s, "placement", e.at)
  ELSE IF e.bad THEN ParseFails(s, "attribute", e.at)
  ELSE AttachTo(s, holder, e.raw)

Expecting(s, target) == IF s.err # None THEN s ELSE [s EXCEPT !.target = target]

-----------------------------------------------------------------------------
(* handle_start, by groups of elements. *)

StartRoot(s, e, parent) ==
  CASE e.tag = "SCL" -> IF Len(s.path) # 1 THEN ParseFails(s, "placement", e.at) ELSE s
    [] e.tag = "Header" ->
         LET t == Started(s, e, parent = "SCL" /\ ~IsOpen(s, "Header"), "SCL", <<>>)
         IN IF t.err # None THEN t ELSE EnterSkip(t, e.tag)

StartCommunication(s, e, parent) ==
  CASE e.tag = "Communication" ->
         Started(s, e, parent = "SCL" /\ ~IsOpen(s, "Communication"), "SCL", <<>>)
    [] e.tag = "SubNetwork" -> Started(s, e, TRUE, "Communication", <<"name">>)
    [] e.tag = "ConnectedAP" -> Started(s, e, TRUE, "SubNetwork", <<"iedName", "apName">>)

AddressTaken(s, parent) == IsOpen(s, parent) /\ Kid(s.slot[parent], "Address") # None

StartAddress(s, e, parent) ==
  CASE e.tag \in {"GSE", "SMV"} -> Started(s, e, TRUE, "ConnectedAP", <<"ldInst", "cbName">>)
    [] e.tag = "Address" -> Started(s, e, ~AddressTaken(s, parent), "ConnectedAP", <<>>)
    [] e.tag = "P" -> Expecting([Started(s, e, TRUE, "Address", <<>>) EXCEPT !.comm = <<>>], "CommText")
    [] OTHER ->   \* MinTime, MaxTime
         LET t == [Started(s, e, TRUE, "GSE", <<>>) EXCEPT !.comm = <<>>]
         IN IF t.err = None /\ Kid(s.slot["GSE"], e.tag) # None THEN ParseFails(s, "placement", e.at)
            ELSE Expecting(t, "CommText")

StartTemplates(s, e, parent) ==
  IF e.tag = "DataTypeTemplates"
  THEN IF parent = "SCL" THEN s ELSE ParseFails(s, "placement", e.at)
  ELSE Started(s, e, parent = "DataTypeTemplates", "SCL", <<"id">>)

StartTypeMember(s, e) ==
  CASE e.tag = "DO" -> Added(s, e, "LNodeType")
    [] e.tag = "SDO" -> Added(s, e, "DOType")
    [] e.tag = "DA" -> Started(s, e, IsOpen(s, "DOType") /\ ~IsOpen(s, "DA"), "DOType", <<>>)
    [] e.tag = "BDA" ->
         IF ~IsOpen(s, "DAType") THEN ParseFails(s, "placement", e.at)
         ELSE IF e.bad THEN ParseFails(s, "attribute", e.at)
         ELSE [s EXCEPT !.bdas = Append(@, e.raw)]
    [] e.tag = "EnumVal" ->
         Expecting(Started(s, e, IsOpen(s, "EnumType"), "EnumType", <<>>), "EnumValName")
    [] e.tag = "Val" ->
         IF e.bad THEN ParseFails(s, "attribute", e.at)
         ELSE IF IsOpen(s, "DAI") THEN Expecting(Added(s, e, "DAI"), "DaiVal")
         ELSE IF IsOpen(s, "DA") \/ s.bdas # <<>> THEN Expecting(s, "ValDefault")
         ELSE ParseFails(s, "placement", e.at)

StartIed(s, e, parent) ==
  CASE e.tag = "IED" -> Started(s, e, parent = "SCL", "SCL", <<"name">>)
    [] e.tag = "AccessPoint" -> Started(s, e, IsOpen(s, "IED"), "IED", <<"name">>)
    [] e.tag = "Services" -> s
    [] e.tag = "ReportSettings" ->
         IF e.bad THEN ParseFails(s, "attribute", e.at)
         ELSE EnterSkip(IF IsOpen(s, "AccessPoint") THEN SetIn(s, "AccessPoint", e.raw)
                        ELSE IF IsOpen(s, "IED") THEN SetIn(s, "IED", e.raw) ELSE s, e.tag)
    [] e.tag = "Server" -> Started(s, e, IsOpen(s, "AccessPoint"), "AccessPoint", <<>>)
    [] e.tag = "LDevice" -> Started(s, e, IsOpen(s, "Server"), "Server", <<"inst">>)
    [] e.tag \in {"LN", "LN0"} ->
         Started(s, e, IsOpen(s, "LDevice"), "LDevice", <<"prefix", "lnClass", "inst">>)

StartInstance(s, e) ==
  CASE e.tag = "DOI" -> Started(s, e, IsOpen(s, "LN") /\ ~IsOpen(s, "DOI"), "LN", <<>>)
    [] e.tag = "DAI" -> Started(s, e, IsOpen(s, "DOI") /\ ~IsOpen(s, "DAI"), "DOI", <<>>)
    [] e.tag = "SDI" ->
         IF ~IsOpen(s, "DOI") \/ IsOpen(s, "DAI") THEN ParseFails(s, "placement", e.at)
         ELSE IF e.bad THEN ParseFails(s, "attribute", e.at)
         ELSE [s EXCEPT !.sdis = Append(@, e.raw)]

InLn0(s) == IsOpen(s, "LN") /\ s.slot["LN"].a.lnClass = "LLN0"

StartControlBlock(s, e) ==
  IF e.tag = "FCDA" THEN Added(s, e, "DataSet")
  ELSE Started(s, e, IF e.tag \in {"GSEControl", "SampledValueControl"} THEN InLn0(s) ELSE IsOpen(s, "LN"),
               "LN", <<"name">>)

(* An option replaces the one its control block had. *)
Option(s, e, holder) ==
  IF e.bad THEN ParseFails(s, "attribute", e.at)
  ELSE IF ~IsOpen(s, holder) THEN ParseFails(s, "placement", e.at)
  ELSE SetIn(s, holder, e.raw)

StartOptions(s, e) ==
  CASE e.tag = "TrgOps" ->
         Option(s, e, IF IsOpen(s, "ReportControl") THEN "ReportControl" ELSE "LogControl")
    [] e.tag = "OptFields" -> Option(s, e, "ReportControl")
    [] e.tag = "SmvOpts" -> Option(s, e, "SampledValueControl")
    [] e.tag = "RptEnabled" ->
         LET t == Option(s, e, "ReportControl") IN IF t.err # None THEN t ELSE EnterSkip(t, e.tag)
    [] e.tag = "Inputs" -> IF IsOpen(s, "LN") THEN EnterSkip(s, e.tag) ELSE ParseFails(s, "placement", e.at)

(* build_setting_control keeps 1 <= actSG <= numOfSGs <= 255. *)
StartSettingControl(s, e) ==
  IF ~InLn0(s) THEN ParseFails(s, "placement", e.at)
  ELSE IF e.bad THEN ParseFails(s, "attribute", e.at)
  ELSE IF e.raw.a.numOfSGs \notin 1 .. 255 \/ e.raw.a.actSG \notin 1 .. e.raw.a.numOfSGs
       THEN ParseFails(s, "attribute", e.at)
  ELSE IF Kid(s.slot["LN"], "SettingControl") # None THEN ParseFails(s, "placement", e.at)
  ELSE EnterSkip(SetIn(s, "LN", e.raw), e.tag)

(* The arms of the match that come before that of the children of Services *)
(* take their elements wherever they are; some arms have a guard of their   *)
(* own, and an element no arm takes is skipped with all it holds.           *)
AnywhereTags ==
  {"SCL", "Substation", "Communication", "Header", "DataTypeTemplates", "LNodeType", "DOType",
   "DAType", "EnumType", "DO", "SDO", "DA", "BDA", "EnumVal", "Val", "IED", "AccessPoint"}

Taken(s, tag, parent) ==
  CASE tag = "SubNetwork" -> parent = "Communication"
    [] tag = "ConnectedAP" -> IsOpen(s, "SubNetwork") /\ parent = "SubNetwork"
    [] tag \in {"GSE", "SMV"} -> IsOpen(s, "ConnectedAP") /\ parent = "ConnectedAP"
    [] tag = "Address" -> IsOpen(s, "ConnectedAP") /\ parent \in {"ConnectedAP", "GSE", "SMV"}
    [] tag = "P" -> IsOpen(s, "Address") /\ parent = "Address"
    [] tag \in {"MinTime", "MaxTime"} -> IsOpen(s, "GSE") /\ parent = "GSE"
    [] tag = "Services" -> parent \in {"IED", "AccessPoint"}
    [] tag = "ReportSettings" -> parent = "Services"
    [] tag \in AnywhereTags -> TRUE
    [] OTHER -> parent # "Services" /\ tag \in DOMAIN Fields \cup {"Inputs"}

StartElement(s, e, parent) ==
  CASE ~Taken(s, e.tag, parent) \/ e.tag = "Substation" -> EnterSkip(s, e.tag)
    [] e.tag \in {"SCL", "Header"} -> StartRoot(s, e, parent)
    [] e.tag \in {"Communication", "SubNetwork", "ConnectedAP"} -> StartCommunication(s, e, parent)
    [] e.tag \in {"GSE", "SMV", "Address", "P", "MinTime", "MaxTime"} -> StartAddress(s, e, parent)
    [] e.tag \in {"DataTypeTemplates", "LNodeType", "DOType", "DAType", "EnumType"} ->
         StartTemplates(s, e, parent)
    [] e.tag \in {"DO", "SDO", "DA", "BDA", "EnumVal", "Val"} -> StartTypeMember(s, e)
    [] e.tag \in {"IED", "AccessPoint", "Services", "ReportSettings", "Server", "LDevice", "LN", "LN0"} ->
         StartIed(s, e, parent)
    [] e.tag \in {"DOI", "SDI", "DAI"} -> StartInstance(s, e)
    [] e.tag = "SettingControl" -> StartSettingControl(s, e)
    [] e.tag \in {"DataSet", "FCDA", "ReportControl", "LogControl", "GSEControl", "SampledValueControl"} ->
         StartControlBlock(s, e)
    [] OTHER -> StartOptions(s, e)

(* The tag with its attributes read, if it is one the parser knows: raw is *)
(* the element, bad that one of its attributes is missing or does not      *)
(* parse.                                                                  *)
WithAttributes(e, fields) ==
  IF e.tag \notin DOMAIN fields THEN e
  ELSE [tag |-> e.tag, at |-> e.at, bad |-> BadFields(fields[e.tag], e.given),
        raw |-> RawOf(fields[e.tag], e.tag, e.at, e.given)]

HandleStart(s, e) ==
  LET pushed == [s EXCEPT !.path = Append(@, e.tag)]
  IN IF s.skip # None THEN pushed
     ELSE StartElement(pushed, WithAttributes(e, Fields), IF s.path = <<>> THEN "" ELSE Last(s.path))

-----------------------------------------------------------------------------
(* handle_end, by the same groups: an element leaves its slot for its      *)
(* holder.                                                                 *)

Consume(s, tag) == [s EXCEPT !.slot[tag] = None]

Move(s, tag, holder) == IF IsOpen(s, tag) THEN AttachTo(Consume(s, tag), holder, s.slot[tag]) ELSE s

EndIed(s, tag) ==
  CASE tag = "IED" -> Move(s, "IED", "SCL")
    [] tag = "AccessPoint" -> Move(s, "AccessPoint", "IED")
    [] tag = "Server" ->
         IF IsOpen(s, "Server") /\ IsOpen(s, "AccessPoint")
         THEN SetIn(Consume(s, "Server"), "AccessPoint", s.slot["Server"]) ELSE Consume(s, "Server")
    [] tag = "LDevice" -> Move(s, "LDevice", "Server")
    [] tag \in {"LN", "LN0"} -> Move(s, "LN", "LDevice")

EndTemplates(s, tag) ==
  CASE tag \in {"LNodeType", "DOType", "DAType", "EnumType"} -> Move(s, tag, "SCL")
    [] tag = "DA" -> Move(s, "DA", "DOType")
    [] tag = "BDA" ->
         LET rest == [s EXCEPT !.bdas = Front(@)]
         IN IF s.bdas = <<>> THEN s
            ELSE IF Len(s.bdas) > 1
                 THEN [rest EXCEPT !.bdas[Len(s.bdas) - 1].kids = Append(@, Last(s.bdas))]
            ELSE AttachTo(rest, "DAType", Last(s.bdas))
    [] tag = "EnumVal" -> [Move(s, "EnumVal", "EnumType") EXCEPT !.target = "None"]
    [] tag = "Val" -> [s EXCEPT !.target = "None"]

AttachDataInstance(s, raw) ==
  IF s.sdis # <<>> THEN [s EXCEPT !.sdis[Len(s.sdis)].kids = Append(@, raw)]
  ELSE AttachTo(s, "DOI", raw)

EndInstance(s, tag) ==
  CASE tag = "DOI" -> Move(s, "DOI", "LN")
    [] tag = "SDI" ->
         IF s.sdis = <<>> THEN s ELSE AttachDataInstance([s EXCEPT !.sdis = Front(@)], Last(s.sdis))
    [] tag = "DAI" ->
         IF IsOpen(s, "DAI") THEN AttachDataInstance(Consume(s, "DAI"), s.slot["DAI"]) ELSE s

EndControlBlock(s, tag, at) ==
  IF tag = "DataSet" /\ IsOpen(s, "DataSet") /\ s.slot["DataSet"].kids = <<>>
  THEN ParseFails(s, "element", at) ELSE Move(s, tag, "LN")

AddressOwner(s) == IF IsOpen(s, "GSE") THEN "GSE" ELSE IF IsOpen(s, "SMV") THEN "SMV" ELSE "ConnectedAP"

EndCommunication(s, tag, at) ==
  LET empty == IsOpen(s, tag) /\ s.slot[tag].kids = <<>>
  IN CASE tag = "Communication" -> IF empty THEN ParseFails(s, "element", at) ELSE s
       [] tag = "SubNetwork" -> IF empty THEN ParseFails(s, "element", at) ELSE Move(s, tag, "Communication")
       [] tag = "ConnectedAP" -> Move(s, tag, "SubNetwork")
       [] tag \in {"GSE", "SMV"} -> Move(s, tag, "ConnectedAP")
       [] tag = "Address" ->
            IF ~IsOpen(s, tag) THEN s
            ELSE IF empty THEN ParseFails(s, "element", at)
            ELSE IF IsOpen(s, AddressOwner(s)) THEN SetIn(Consume(s, tag), AddressOwner(s), s.slot[tag])
            ELSE Consume(s, tag)

Lasts(s, done, tag, at, ms) ==
  IF ms = None THEN ParseFails(s, "attribute", at)
  ELSE IF ~IsOpen(s, "GSE") THEN done
  ELSE SetIn(done, "GSE", [s.slot["Duration"] EXCEPT !.tag = tag, !.text = <<ms>>])

CommTextDone(s, done, tag, at) ==
  IF ~IsOpen(s, SlotOf(tag)) THEN done
  ELSE IF tag = "P" THEN AttachTo(done, "Address", [s.slot["P"] EXCEPT !.text = s.comm])
  ELSE Lasts(s, done, tag, at, ParseDurationMs(s.comm))

EndCommText(s, tag, at) ==
  CommTextDone(s, [Consume(s, SlotOf(tag)) EXCEPT !.target = "None", !.comm = <<>>], tag, at)

EndElement(s, e) ==
  CASE e.tag \in {"IED", "AccessPoint", "Server", "LDevice", "LN", "LN0"} -> EndIed(s, e.tag)
    [] e.tag \in {"LNodeType", "DOType", "DAType", "EnumType", "DA", "BDA", "EnumVal", "Val"} ->
         EndTemplates(s, e.tag)
    [] e.tag \in {"DOI", "SDI", "DAI"} -> EndInstance(s, e.tag)
    [] e.tag \in {"DataSet", "ReportControl", "LogControl", "GSEControl", "SampledValueControl"} ->
         EndControlBlock(s, e.tag, e.at)
    [] e.tag \in {"Communication", "SubNetwork", "ConnectedAP", "GSE", "SMV", "Address"} ->
         EndCommunication(s, e.tag, e.at)
    [] e.tag \in {"P", "MinTime", "MaxTime"} -> EndCommText(s, e.tag, e.at)
    [] OTHER -> s

(* A skipped element ends with the tag it began with, at its depth. *)
HandleEnd(s, e) ==
  LET popped == [s EXCEPT !.path = Front(@)]
  IN IF s.skip = None THEN EndElement(popped, e)
     ELSE IF e.tag = s.skip.tag /\ Len(popped.path) < s.skip.depth
          THEN [popped EXCEPT !.skip = None] ELSE popped

-----------------------------------------------------------------------------
(* Text is collected while an element expects some, in a skipped element   *)
(* too, and handed over before the next tag.                               *)

HandleText(s, text) ==
  CASE s.target = "EnumValName" /\ IsOpen(s, "EnumVal") -> [s EXCEPT !.slot["EnumVal"].text = @ \o text]
    [] s.target = "ValDefault" /\ s.bdas # <<>> -> [s EXCEPT !.bdas[Len(s.bdas)].text = text]
    [] s.target = "ValDefault" /\ s.bdas = <<>> /\ IsOpen(s, "DA") -> [s EXCEPT !.slot["DA"].text = text]
    [] s.target = "DaiVal" /\ IsOpen(s, "DAI") ->
         LET n == Len(s.slot["DAI"].kids)
         IN IF n = 0 THEN s ELSE [s EXCEPT !.slot["DAI"].kids[n].text = @ \o text]
    [] s.target = "CommText" -> [s EXCEPT !.comm = @ \o text]
    [] OTHER -> s

HandOver(s, text) == IF text = <<>> THEN s ELSE HandleText(s, text)

FlushText(s) == [HandOver(s, Trimmed(s.run)) EXCEPT !.run = NoRun]

HandleEvent(s, e) ==
  CASE e.kind = "start" -> HandleStart(FlushText(s), e)
    [] e.kind = "end" -> HandleEnd(FlushText(s), e)
    [] e.kind = "text" -> IF s.target = "None" THEN s ELSE [s EXCEPT !.run = PushLiteral(@, e.text)]
    [] e.kind = "explicit" -> IF s.target = "None" THEN s ELSE [s EXCEPT !.run = PushExplicit(@, e.text)]

AtEof(s) == IF s.path # <<>> THEN ParseFails(FlushText(s), "unclosed", 0) ELSE FlushText(s)

-----------------------------------------------------------------------------
(* A document is [tree, cut, fault]: a tree of elements and texts, how many *)
(* events are missing at its end, and the error it must give.               *)

RECURSIVE EventCount(_)
EventCount(n) == IF n.kind # "el" THEN 0 ELSE 1 + FoldLeft(LAMBDA k, x : k + EventCount(x), 0, n.items)

RECURSIVE EventsOf(_, _)
EventsOf(items, at) ==
  IF items = <<>> THEN <<>>
  ELSE LET n == Head(items)
           start == [kind |-> "start", tag |-> n.tag, given |-> n.given, at |-> at]
       IN (IF n.kind # "el" THEN <<n>>
           ELSE <<start>> \o EventsOf(n.items, at + 1) \o <<[start EXCEPT !.kind = "end"]>>)
          \o EventsOf(Tail(items), at + EventCount(n))

CutBy(events, n) == SubSeq(events, 1, Len(events) - n)

EventsIn(doc) == CutBy(EventsOf(<<doc.tree>>, 1), doc.cut)

SpInit == spDoc \in SclDocuments /\ spRest = EventsIn(spDoc) /\ ps = ParserStart /\ spDone = FALSE

SpStep ==
  /\ ~spDone /\ spRest # <<>>
  /\ ps' = HandleEvent(ps, Head(spRest))
  /\ spRest' = Tail(spRest) /\ spDone' = (ps'.err # None) /\ UNCHANGED spDoc

SpEof ==
  /\ ~spDone /\ spRest = <<>>
  /\ ps' = AtEof(ps)
  /\ spDone' = TRUE /\ UNCHANGED <<spDoc, spRest>>

SpNext == SpStep \/ SpEof

-----------------------------------------------------------------------------
(* What a document says, read as a tree. *)

(* The text between two tags, an explicit fragment keeping its white space. *)
MarkedChars(n) ==
  IF n.kind = "text" THEN [j \in DOMAIN n.text |-> <<n.text[j], FALSE>>]
  ELSE <<<<"", TRUE>>>> \o [j \in DOMAIN n.text |-> <<n.text[j], TRUE>>]

BetweenKept(all, kept) == IF kept = {} THEN <<>> ELSE SubSeq(all, Min(kept), Max(kept))

InnerChars(all) == BetweenKept(all, {i \in DOMAIN all : all[i][2] \/ all[i][1] # " "})

CharsOf(marked) == [i \in DOMAIN marked |-> marked[i][1]]

WrittenText(items) ==
  CharsOf(SelectSeq(InnerChars(FlattenSeq([i \in DOMAIN items |-> MarkedChars(items[i])])), LAMBDA c : c[1] # ""))

ValTexts(n) ==
  LET vals == SelectSeq(n.items, LAMBDA k : k.kind = "el" /\ k.tag = "Val")
  IN SelectSeq([i \in DOMAIN vals |-> WrittenText(vals[i].items)], LAMBDA t : t # <<>>)

(* Elements that only group others are passed through; what the parser     *)
(* does not know, and what is not where it belongs, is left out.            *)
ElementText(n) ==
  IF n.tag \in {"EnumVal", "P", "Val"} THEN WrittenText(n.items)
  ELSE IF n.tag \in {"MinTime", "MaxTime"} THEN <<ParseDurationMs(WrittenText(n.items))>>
  ELSE IF n.tag \in {"DA", "BDA"} /\ ValTexts(n) # <<>> THEN Last(ValTexts(n))
  ELSE <<>>

PassedThrough(tag, holder) ==
  (tag = "DataTypeTemplates" /\ holder = "SCL") \/ (tag = "Services" /\ holder \in {"IED", "AccessPoint"})

RECURSIVE ElementsIn(_, _, _)
ElementsIn(items, at, holder) ==
  IF items = <<>> THEN <<>>
  ELSE LET n == Head(items)
       IN (IF n.kind # "el" THEN <<>>
           ELSE IF PassedThrough(n.tag, holder) THEN ElementsIn(n.items, at + 1, holder)
           ELSE IF n.tag # "SCL" /\ n.tag \notin Holds[holder] THEN <<>>
           ELSE << [Raw(n.tag, at, n.given) EXCEPT !.text = ElementText(n),
                                                   !.kids = ElementsIn(n.items, at + 1, n.tag)] >>)
          \o ElementsIn(Tail(items), at + EventCount(n), holder)

-----------------------------------------------------------------------------

FaultsLocated == spDone /\ spDoc.fault # None => ps.err = spDoc.fault

ReadAsTree(scl) ==
  /\ ps.err = None
  /\ ps.slot["SCL"].kids = SelectSeq(scl.kids, LAMBDA k : k.tag \notin {"Header", "Communication"})
  /\ ps.slot["Communication"] = Kid(scl, "Communication")
  /\ ps.slot["Header"] = Kid(scl, "Header")

(* Reading a document as a stream gives the tree it is: each element in the *)
(* element around it, in order, with the text it encloses, whatever unknown *)
(* elements surround or interrupt them (handle_start, handle_end).  A       *)
(* faulty document is refused at the element at fault, for the reason it is *)
(* at fault, and at no other: not at an earlier one, and not later through  *)
(* what the parser kept of it (the errors of parse).                        *)
ParsedIsDocument ==
  /\ FaultsLocated
  /\ spDone /\ spDoc.fault = None => ReadAsTree(ElementsIn(<<spDoc.tree>>, 1, "none")[1])

=============================================================================
