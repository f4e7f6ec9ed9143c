----------------------------- MODULE AddressValues -----------------------------
(***************************************************************************)
(* The values of address parameters, src/crates/iec61850-model/src/comm.rs:*)
(* what a text is read as, the schema form it is rewritten in, and the     *)
(* check of that form.  A text is a sequence of characters.                *)
(*                                                                         *)
(* The lengths that only repeat a group (the octets of a MAC address, of   *)
(* an IPv4 address and of a selector, the groups of an IPv6 address) and   *)
(* the largest u32 are constants, so that TLC can enumerate texts.         *)
(***************************************************************************)
EXTENDS Absence, Integers, Sequences, FiniteSets, FiniteSetsExt, SequencesExt

CONSTANTS AddressTexts,   \* the texts to read of each type
          MacOctets,      \* 6
          IpOctets,       \* 4
          Ipv6Groups,     \* 8
          SelectorOctets, \* of each selector type: NSAP 20, TSEL 4, SSEL and PSEL 8
          U32Max, U32Digits

VARIABLES avType, avText
avVars == <<avType, avText>>

Decimals == <<"0", "1", "2", "3", "4", "5", "6", "7", "8", "9">>
UpperDigits == Decimals \o <<"A", "B", "C", "D", "E", "F">>
LowerDigits == Decimals \o <<"a", "b", "c", "d", "e", "f">>
XmlSpace == {" ", "tab", "lf"}

IpTypes == {"IP", "IP-SUBNET", "IP-GATEWAY", "IP-IGMPv3Src"}
Ipv6Types == {"IPv6", "IPv6-GATEWAY", "IPv6-IGMPv3Src"}
SelectorTypes == {"OSI-NSAP", "OSI-TSEL", "OSI-SSEL", "OSI-PSEL"}
OsiNumbers == {"OSI-AP-Invoke", "OSI-AE-Qualifier", "OSI-AE-Invoke"}
PortTypes == {"SNTP-Port", "MMS-Port", "IP-UDP-PORT", "IP-TCP-PORT"}
PredefinedTypes ==
  IpTypes \cup Ipv6Types \cup SelectorTypes \cup OsiNumbers \cup PortTypes
  \cup {"OSI-AP-Title", "MAC-Address", "APPID", "VLAN-PRIORITY", "VLAN-ID", "DNSName",
        "IPv6FlowLabel", "IPv6ClassOfTraffic", "C37-118-IP-Port", "IPv6-SUBNET",
        "IP-ClassOfTraffic"}

(* is_extension_type: a name that begins with a capital; the one of the     *)
(* runs stands for them.                                                    *)
IsExtensionType(t) == t = "Vendor-Type"

-----------------------------------------------------------------------------
(* Texts. *)

Hex == ToSet(UpperDigits) \cup ToSet(LowerDigits)
Worth(c) == (CHOOSE i \in 1 .. 16 : UpperDigits[i] = c \/ LowerDigits[i] = c) - 1
Number(text, base) == FoldLeft(LAMBDA n, c : n * base + Worth(c), 0, text)

RECURSIVE Digits(_, _)
Digits(n, digits) ==
  IF n < Len(digits) THEN <<digits[n + 1]>>
  ELSE Append(Digits(n \div Len(digits), digits), digits[(n % Len(digits)) + 1])

(* {:0w$X} *)
Padded(w, text) == [i \in 1 .. w - Len(text) |-> "0"] \o text

TrimXmlSpace(text) ==
  LET kept == {i \in DOMAIN text : text[i] \notin XmlSpace}
  IN IF kept = {} THEN <<>> ELSE SubSeq(text, Min(kept), Max(kept))

RECURSIVE Split(_, _)
Split(text, separators) ==
  LET at == {i \in DOMAIN text : text[i] \in separators}
  IN IF at = {} THEN <<text>>
     ELSE <<SubSeq(text, 1, Min(at) - 1)>>
          \o Split(SubSeq(text, Min(at) + 1, Len(text)), separators)

NonEmpty(parts) == SelectSeq(parts, LAMBDA p : p # <<>>)

Join(parts, separator) ==
  FoldLeft(LAMBDA s, i : s \o (IF i = 1 THEN <<>> ELSE separator) \o parts[i],
           <<>>, [i \in DOMAIN parts |-> i])

IsDecimal(text) == text # <<>> /\ ToSet(text) \subseteq ToSet(Decimals)
IsUpperHex(text) == text # <<>> /\ ToSet(text) \subseteq ToSet(UpperDigits)
IsHex(text) == text # <<>> /\ ToSet(text) \subseteq Hex

(* All of the parts as numbers, or None. *)
AllRead(all) == IF \E i \in DOMAIN all : all[i] = None THEN None ELSE all

EachPart(parts, Part(_)) == AllRead([i \in DOMAIN parts |-> Part(parts[i])])

-----------------------------------------------------------------------------
(* Reading. *)

AtMost(n, most) == IF n > most THEN None ELSE n

ReadHex(text, most) == IF ~IsHex(text) \/ Len(text) > most THEN None ELSE AtMost(Number(text, 16), 65535)

HexOctet(p) == IF IsHex(p) /\ Len(p) <= 2 THEN Number(p, 16) ELSE None

ReadDecimalPlain(text, most) ==
  IF ~IsDecimal(text) \/ (Len(text) > 1 /\ Head(text) = "0") THEN None
  ELSE AtMost(Number(text, 10), Min({U32Max, most}))

ReadDecimal(text, most) ==
  LET digits == {i \in DOMAIN text : text[i] # "0"}
  IN IF ~IsDecimal(text) THEN None
     ELSE IF digits # {} /\ Len(text) - Min(digits) + 1 > U32Digits THEN None
     ELSE AtMost(Number(text, 10), Min({U32Max, most}))

MacOf(parts) == IF Len(parts) # MacOctets THEN None ELSE EachPart(parts, HexOctet)

ReadMac(text) == MacOf(Split(text, {IF "-" \in ToSet(text) THEN "-" ELSE ":"}))

Ipv4Octet(p) == IF Len(p) > 3 THEN None ELSE ReadDecimal(p, 255)

Ipv4Of(parts) == IF Len(parts) # IpOctets THEN None ELSE EachPart(parts, Ipv4Octet)

ReadIpv4(text) == Ipv4Of(Split(text, {"."}))

HexOctets(text) ==
  [i \in 1 .. Len(text) \div 2 |-> Number(SubSeq(text, 2 * i - 1, 2 * i), 16)]

Sized(s, most) == IF s = None THEN None ELSE IF Len(s) \notin 1 .. most THEN None ELSE s

ReadOctets(text, most) ==
  Sized(IF ToSet(text) \cap XmlSpace # {} THEN EachPart(NonEmpty(Split(text, XmlSpace)), HexOctet)
        ELSE IF ~IsHex(text) THEN None
        ELSE HexOctets(IF Len(text) % 2 = 1 THEN <<"0">> \o text ELSE text), most)

Arc(p) == ReadDecimal(p, U32Max)

ReadArcs(text) == Sized(EachPart(NonEmpty(Split(text, XmlSpace \cup {","})), Arc), Len(text))

(* str::parse::<Ipv6Addr>, without an IPv4 address at its end: "::" stands *)
(* for the groups that are missing, at least one.                          *)
Ipv6Group(p) == IF IsHex(p) /\ Len(p) <= 4 THEN Number(p, 16) ELSE None

GroupsOf(s) == IF s = <<>> THEN <<>> ELSE EachPart(Split(s, {":"}), Ipv6Group)

AllGroups(groups) == IF groups = None THEN None ELSE IF Len(groups) # Ipv6Groups THEN None ELSE groups

GroupsAround(before, after) ==
  IF before = None \/ after = None THEN None
  ELSE IF Len(before) + Len(after) >= Ipv6Groups THEN None
  ELSE before \o [i \in 1 .. Ipv6Groups - Len(before) - Len(after) |-> 0] \o after

ReadIpv6(text) ==
  LET gaps == {i \in 1 .. Len(text) - 1 : text[i] = ":" /\ text[i + 1] = ":"}
  IN IF gaps = {} THEN AllGroups(GroupsOf(text))
     ELSE GroupsAround(GroupsOf(SubSeq(text, 1, Min(gaps) - 1)),
                       GroupsOf(SubSeq(text, Min(gaps) + 2, Len(text))))

AtLeast(n, least) == IF n = None THEN None ELSE IF n < least THEN None ELSE n

Unprefixed(text, c) == IF text # <<>> /\ Head(text) = c THEN Tail(text) ELSE text

(* What a trimmed text of a type is read as, by the typed accessors and by *)
(* schema_value alike.                                                     *)
ReadAs(type, text) ==
  CASE type \in IpTypes -> ReadIpv4(text)
    [] type \in Ipv6Types -> ReadIpv6(text)
    [] type = "IPv6-SUBNET" -> AtLeast(ReadDecimal(Unprefixed(text, "/"), 127), 1)
    [] type = "DNSName" -> IF ToSet(text) \cap XmlSpace # {} THEN None ELSE text
    [] type = "IPv6FlowLabel" -> ReadHex(text, 5)
    [] type \in SelectorTypes -> ReadOctets(text, SelectorOctets[type])
    [] type = "OSI-AP-Title" -> ReadArcs(text)
    [] type \in OsiNumbers -> ReadDecimal(text, U32Max)
    [] type = "MAC-Address" -> ReadMac(text)
    [] type = "APPID" -> ReadHex(text, 4)
    [] type = "VLAN-PRIORITY" -> ReadDecimal(text, 7)
    [] type = "VLAN-ID" -> ReadHex(text, 3)
    [] type \in PortTypes -> ReadDecimal(text, 65535)
    [] type = "IPv6ClassOfTraffic" -> ReadDecimal(text, 255)
    [] type = "C37-118-IP-Port" -> AtLeast(ReadDecimal(text, 65535), 1025)
    [] type = "IP-ClassOfTraffic" -> ReadHex(text, 2)
    [] OTHER -> text

(* check_type_and_text, which Address::push applies. *)
PushAccepts(type, value) ==
  (type \in PredefinedTypes \/ IsExtensionType(type)) /\ TrimXmlSpace(value) # <<>>

TypedValue(type, value) == ReadAs(type, TrimXmlSpace(value))

-----------------------------------------------------------------------------
(* Writing. *)

HexOf(w, n) == Padded(w, Digits(n, UpperDigits))
MapParts(s, Op(_)) == [i \in DOMAIN s |-> Op(s[i])]
Decimal(n) == Digits(n, Decimals)
Octet(n) == HexOf(2, n)

WrittenAs(type, v) ==
  CASE type \in IpTypes -> Join(MapParts(v, Decimal), <<".">>)
    [] type \in Ipv6Types -> Join(MapParts(v, LAMBDA n : Digits(n, LowerDigits)), <<":">>)
    [] type = "IPv6-SUBNET" -> <<"/">> \o Decimal(v)
    [] type = "IPv6FlowLabel" -> HexOf(1, v)
    [] type \in SelectorTypes -> Join(MapParts(v, Octet), <<>>)
    [] type = "OSI-AP-Title" -> Join(MapParts(v, Decimal), <<",">>)
    [] type = "MAC-Address" -> Join(MapParts(v, Octet), <<"-">>)
    [] type = "APPID" -> HexOf(4, v)
    [] type = "VLAN-ID" -> HexOf(3, v)
    [] type = "IP-ClassOfTraffic" -> HexOf(2, v)
    [] type \in OsiNumbers \cup PortTypes
         \cup {"VLAN-PRIORITY", "IPv6ClassOfTraffic", "C37-118-IP-Port"} -> Decimal(v)
    [] OTHER -> v

SchemaOf(type, v) == IF v = None THEN None ELSE WrittenAs(type, v)

SchemaValue(type, value) ==
  IF ~PushAccepts(type, value) THEN None ELSE SchemaOf(type, TypedValue(type, value))

-----------------------------------------------------------------------------
(* The schema form. *)

IsEvenUpperHex(text, most) == Len(text) <= most /\ Len(text) % 2 = 0 /\ IsUpperHex(text)

CanonicalDecimal(text, least, most) ==
  /\ IsDecimal(text) /\ Len(text) <= 5 /\ (Len(text) > 1 => Head(text) # "0")
  /\ Number(text, 10) \in least .. most

SchemaIpv4(text) ==
  LET parts == Split(text, {"."})
  IN /\ Len(parts) = IpOctets
     /\ \A p \in ToSet(parts) :
          IsDecimal(p) /\ Len(p) <= 3 /\ (Len(p) = 3 => Head(p) # "0") /\ Number(p, 10) <= 255

IsFullIpv6(text) ==
  LET groups == Split(text, {":"})
  IN /\ Len(groups) = Ipv6Groups
     /\ \A g \in ToSet(groups) : Len(g) \in 1 .. 4 /\ ToSet(g) \subseteq ToSet(LowerDigits)

CheckParameter(type, value) ==
  /\ value # <<>> /\ "tab" \notin ToSet(value) /\ "lf" \notin ToSet(value)
  /\ CASE type \in IpTypes -> SchemaIpv4(value)
       [] type \in Ipv6Types -> IsFullIpv6(value)
       [] type = "IPv6-SUBNET" ->
            Head(value) = "/" /\ Len(value) > 1 /\ value[2] # "0" /\ CanonicalDecimal(Tail(value), 1, 127)
       [] type = "DNSName" -> " " \notin ToSet(value)
       [] type = "IPv6FlowLabel" -> IsHex(value) /\ Len(value) <= 5
       [] type \in SelectorTypes -> IsEvenUpperHex(value, 2 * SelectorOctets[type])
       [] type = "OSI-AP-Title" -> ToSet(value) \subseteq ToSet(Decimals) \cup {","}
       [] type \in OsiNumbers -> IsDecimal(value) /\ Len(value) <= 5
       [] type = "MAC-Address" ->
            LET pairs == Split(value, {"-"})
            IN Len(pairs) = MacOctets /\ \A p \in ToSet(pairs) : Len(p) = 2 /\ IsUpperHex(p)
       [] type = "APPID" -> Len(value) = 4 /\ IsUpperHex(value)
       [] type = "VLAN-PRIORITY" -> Len(value) = 1 /\ IsDecimal(value) /\ Number(value, 10) <= 7
       [] type = "VLAN-ID" -> Len(value) = 3 /\ IsUpperHex(value)
       [] type \in PortTypes -> CanonicalDecimal(value, 0, 65535)
       [] type = "IPv6ClassOfTraffic" -> CanonicalDecimal(value, 0, 255)
       [] type = "C37-118-IP-Port" -> CanonicalDecimal(value, 1025, 65535)
       [] type = "IP-ClassOfTraffic" -> Len(value) <= 2 /\ IsUpperHex(value)
       [] OTHER -> IsExtensionType(type)

-----------------------------------------------------------------------------
AvInit == avType \in DOMAIN AddressTexts /\ avText \in AddressTexts[avType]

(* A tool rewrites the value in the schema form. *)
Rewrite ==
  /\ avText' = SchemaValue(avType, avText)
  /\ avText' \notin {None, avText}
  /\ UNCHANGED avType

AvNext == Rewrite

-----------------------------------------------------------------------------
(* The schema form that schema_value writes is the one check_parameter      *)
(* accepts, for every text that is read at all, but for OSI numbers of more *)
(* than five digits, which are read up to the largest u32 and have no       *)
(* schema form, and for a line break or tab inside a text of an extension   *)
(* type, of which only the white space around it is dropped (comm.rs).      *)
SchemaFormIsCanonical(type, s) ==
  \/ CheckParameter(type, s)
  \/ type \in OsiNumbers /\ Len(s) > 5
  \/ IsExtensionType(type) /\ ToSet(s) \cap {"tab", "lf"} # {}

(* Rewriting a value in its schema form changes what no accessor reads, and *)
(* a second rewriting changes nothing (schema_value, Address::text).        *)
RewriteKeepsReading(type, s, read) ==
  PushAccepts(type, s) /\ TypedValue(type, s) = read /\ SchemaOf(type, read) = s

(* A value in the schema form is read by its accessor, except a flow label  *)
(* above 16 bits and a title of nothing but commas or with an arc beyond a  *)
(* u32, which the schema allows and no u16 or arc holds.                    *)
CanonicalIsRead(type, text, read) ==
  PushAccepts(type, text) /\ CheckParameter(type, text) =>
    \/ read # None
    \/ type = "IPv6FlowLabel" /\ Number(text, 16) > 65535
    \/ /\ type = "OSI-AP-Title"
       /\ LET arcs == NonEmpty(Split(text, {","}))
          IN arcs = <<>> \/ \E arc \in ToSet(arcs) : Number(arc, 10) > U32Max

FormsAgree(type, text, read, s) ==
  /\ s # None => RewriteKeepsReading(type, s, read) /\ SchemaFormIsCanonical(type, s)
  /\ CanonicalIsRead(type, text, read)

(* The three ways comm.rs looks at an address text agree: the typed         *)
(* accessors, the check against the schema and the rewriting in the schema  *)
(* form.                                                                    *)
AddressFormsAgree == FormsAgree(avType, avText, TypedValue(avType, avText), SchemaValue(avType, avText))
=============================================================================
