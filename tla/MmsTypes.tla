----------------------------- MODULE MmsTypes -----------------------------
(***************************************************************************)
(* The types the MMS PDUs are built from, with the encoder and the decoder  *)
(* of each: object names, alternate access, variable access, data, access   *)
(* results, type specifications and service errors                          *)
(* (iec61850-mms/src/mms/pdu/common.rs, type_specification.rs,              *)
(* service_error.rs).                                                       *)
(*                                                                         *)
(* A variant of an enumeration is a tuple that starts with its name.  A     *)
(* decoder takes the stream it is called on and returns Err for every error *)
(* of the code: the callers do not tell them apart.                         *)
(*                                                                         *)
(* The BER layer every codec of the stack shares: a byte string is a        *)
(* sequence of TLVs [t |-> tag, c |-> content], a constructed content is    *)
(* again such a sequence, and a primitive one a sequence of octets.         *)
(*                                                                         *)
(* An octet has Base values.  The code has 256 of them; every width below   *)
(* (the four octets of a u32, the eight of an i64, the short form of a      *)
(* length) is expressed in Base, so a small Base keeps the boundaries of    *)
(* the integers within TLC's range.                                         *)
(*                                                                         *)
(* The content Cut is that of a TLV whose length overruns the bytes that    *)
(* are left.                                                                *)
(***************************************************************************)
EXTENDS Absence, Integers, Sequences, FiniteSets, SequencesExt

(***************************************************************************)
(* BER                                                                     *)
(***************************************************************************)
CONSTANTS Base,        \* values of an octet
          Err,         \* the result of a decoder that fails
          Cut,         \* the content of a TLV that overruns its container
          Empty,       \* the empty text
          BadUtf8      \* a text that is not UTF-8

ASSUME BaseAssumption == \E b \in 4 .. 8 : Base = 2 ^ b

SignBit == Base \div 2

OctetBits == CHOOSE b \in 4 .. 8 : Base = 2 ^ b

U16 == Base ^ 2
U32 == Base ^ 4

-----------------------------------------------------------------------------
(* Encoding.  A stream of one TLV, an optional one, one per list member.     *)

T(t, c) == << [t |-> t, c |-> c] >>

Opt(v, E(_)) == IF v = None THEN << >> ELSE E(v)

Each(s, E(_)) == FlattenSeq([i \in DOMAIN s |-> E(s[i])])

Text(s) == IF s = Empty THEN << >> ELSE << s >>

Flag(b) == IF b THEN << Base - 1 >> ELSE << 0 >>

-----------------------------------------------------------------------------
(* Decoding.                                                                 *)

Failed(v) == v = Err

\* The ? operator: what follows runs only on a value.
Try(x, F(_)) == IF x = Err THEN Err ELSE F(x)

Try2(x, y, F(_, _)) == IF x = Err \/ y = Err THEN Err ELSE F(x, y)

\* Some TLV of the stream overruns it.
Overrun(s) == \E i \in DOMAIN s : s[i].c = Cut

Tagged(s, t) == {i \in DOMAIN s : s[i].t = t}

\* The field of a decoder that walks over all TLVs: None when the tag never
\* occurs, the last occurrence when it is repeated, Err when one of the
\* occurrences does not decode.
LastOf(values) ==
    IF DOMAIN values = {} THEN None
    ELSE IF \E i \in DOMAIN values : Failed(values[i]) THEN Err
    ELSE values[Max(DOMAIN values)]
Field(s, t, D(_)) == LastOf([i \in Tagged(s, t) |-> D(s[i].c)])

\* A mandatory field that is missing, or that does not decode.
Bad(v) == v = None \/ v = Err

Default(v, d) == IF v = None THEN d ELSE v

\* The tag the stream starts with (0 when it is empty), and what follows it.
FirstTag(s) == IF s = << >> THEN 0 ELSE s[1].t

Rest(s) == IF s = << >> THEN << >> ELSE Tail(s)

\* The TLV that must come first, with tag t.
Contents(s, t) ==
    IF Len(s) = 0 THEN Err
    ELSE IF s[1].t # t \/ s[1].c = Cut THEN Err
    ELSE s[1].c
First(s, t, D(_)) == IF Failed(Contents(s, t)) THEN Err ELSE D(s[1].c)

\* Every TLV of the stream, each decoded on its own.
NoneFailed(values) == IF \E i \in DOMAIN values : Failed(values[i]) THEN Err ELSE values
All(s, D(_)) == NoneFailed([i \in DOMAIN s |-> D(s[i])])

DecodeText(c) ==
    IF Len(c) = 0 THEN Empty ELSE IF c[1] = BadUtf8 THEN Err ELSE c[1]

DecodeFlag(c) == IF Len(c) = 0 THEN Err ELSE c[1] # 0

DecodeOctets(c) == c

-----------------------------------------------------------------------------
(* Integers, as big-endian octets in two's complement.                       *)

BigEndian(v, n) ==
    LET part[i \in 0 .. n] == IF i = 0 THEN v ELSE part[i - 1] \div Base
    IN  [i \in 1 .. n |-> part[n - i] % Base]

\* Drops the leading octets that carry neither value nor sign.
Shortest(o, redundant(_, _)) ==
    LET keep == CHOOSE k \in 1 .. Len(o) :
                    /\ \A i \in 1 .. k - 1 : redundant(o[i], o[i + 1])
                    /\ k < Len(o) => ~redundant(o[k], o[k + 1])
    IN  SubSeq(o, keep, Len(o))

EncodeUnsigned(v) ==
    Shortest(BigEndian(v, 8), LAMBDA b, next : b = 0 /\ next < SignBit)

\* Mutant: a zero octet is dropped although it carries the sign.
EncodeSignedTrimmed(v) ==
    Shortest(BigEndian(v, 8), LAMBDA b, next : b = 0 \/ (b = Base - 1 /\ next >= SignBit))

EncodeSigned(v) ==
    Shortest(BigEndian(v, 8),
             LAMBDA b, next : \/ b = 0 /\ next < SignBit
                              \/ b = Base - 1 /\ next >= SignBit)

Value(o) == FoldLeft(LAMBDA v, b : v * Base + b, 0, o)

DecodeUnsigned(o) == IF Len(o) = 0 \/ Len(o) > 8 THEN Err ELSE Value(o)

SignExtended(o) ==
    FoldLeft(LAMBDA v, b : v * Base + b, IF o[1] >= SignBit THEN -1 ELSE 0, o)

DecodeSigned(o) == IF Len(o) = 0 \/ Len(o) > 8 THEN Err ELSE SignExtended(o)

\* The i32 of a type specification and of a service error.
EncodeI32(v) ==
    Shortest(BigEndian(v, 4),
             LAMBDA b, next : \/ b = 0 /\ next < SignBit
                              \/ b = Base - 1 /\ next >= SignBit)

DecodeI32(o) == IF Len(o) = 0 \/ Len(o) > 4 THEN Err ELSE SignExtended(o)

\* A u32 that takes a leading zero octet when its top bit is set.
EncodeU32(v) ==
    LET o == Shortest(BigEndian(v, 4), LAMBDA b, next : b = 0 /\ next < SignBit)
    IN  IF o[1] >= SignBit THEN << 0 >> \o o ELSE o

\* ... and its reader, which takes that zero octet off again.
DecodeU32(o) ==
    LET p == IF Len(o) > 1 /\ o[1] = 0 THEN Tail(o) ELSE o
    IN  IF Len(o) = 0 \/ Len(o) > 5 \/ Len(p) > 4 THEN Err ELSE Value(p)

-----------------------------------------------------------------------------
(* Lengths.                                                                  *)

\* Octets of a definite length field: short form, 0x81, 0x82.
LengthSize(n) == IF n < SignBit THEN 1 ELSE IF n < Base THEN 2 ELSE 3

Constructed(t) == (t \div 32) % 2 = 1

RECURSIVE Size(_)

\* Octets of an encoded stream.
Size(s) ==
    FoldLeft(LAMBDA n, x :
                LET c == IF Constructed(x.t) THEN Size(x.c) ELSE Len(x.c)
                IN  n + 1 + LengthSize(c) + c,
             0, s)

-----------------------------------------------------------------------------
(***************************************************************************)
(* Object identifiers as BER contents (ApTitle of iec61850-mms/src/iso/     *)
(* params.rs), used by the association and by the Identify service: a       *)
(* sequence of 32-bit arcs, the first two joined into one.                  *)
(***************************************************************************)

FirstArcFactor == 40
FirstArcMax == 2

\* from_arcs(): the arcs an identifier may have.
ValidArcs(arcs) ==
    /\ Len(arcs) >= 2
    /\ arcs[1] <= FirstArcMax
    /\ arcs[1] < FirstArcMax => arcs[2] < FirstArcFactor
    /\ FirstArcFactor * arcs[1] + arcs[2] < U32

\* write_base128(): the top bit of an octet says that the arc goes on.
WriteBase128(v) ==
    LET n == CHOOSE k \in 1 .. 5 : v < SignBit ^ k /\ (k = 1 \/ v >= SignBit ^ (k - 1))
        digit(i) == (v \div SignBit ^ (n - i)) % SignBit
    IN  [i \in 1 .. n |-> IF i = n THEN digit(i) ELSE SignBit + digit(i)]

\* to_ber_content().
EncodeOid(arcs) ==
    FlattenSeq([i \in 1 .. Len(arcs) - 1 |->
                   WriteBase128(IF i = 1 THEN FirstArcFactor * arcs[1] + arcs[2]
                                ELSE arcs[i + 1])])

\* from_ber_content(): an arc wider than 32 bits and one that does not end
\* are refused.
DecodeOid(o) ==
    LET joined(v) == LET first == IF v \div FirstArcFactor < FirstArcMax
                                  THEN v \div FirstArcFactor ELSE FirstArcMax
                     IN  << first, v - FirstArcFactor * first >>
        octet(a, b) ==
            LET v == a.value * SignBit + (b % SignBit)
            IN  IF ~a.ok \/ a.value >= U32 \div SignBit THEN [a EXCEPT !.ok = FALSE]
                ELSE IF b >= SignBit THEN [a EXCEPT !.value = v, !.open = TRUE]
                ELSE [ok |-> TRUE, value |-> 0, open |-> FALSE,
                      arcs |-> a.arcs \o IF a.arcs = << >> THEN joined(v) ELSE << v >>]
        end == FoldLeft(octet, [ok |-> TRUE, value |-> 0, open |-> FALSE, arcs |-> << >>], o)
    IN  IF o = << >> \/ ~end.ok \/ end.open THEN Err ELSE end.arcs

(***************************************************************************)
(* MMS types                                                               *)
(***************************************************************************)
CONSTANTS LongNames,   \* identifiers longer than MAX_IDENTIFIER_LEN
          MaxDepth     \* MAX_DATA_NESTING_DEPTH and MAX_TYPE_SPEC_DEPTH

ASSUME DepthAssumption == MaxDepth \in Nat \ {0}

\* depth.rs: the local bound, or the one the association negotiated below it.
EffectiveCap(negotiated) ==
    IF negotiated = None \/ negotiated > MaxDepth THEN MaxDepth ELSE negotiated

-----------------------------------------------------------------------------
(* Object names.                                                             *)

\* An identifier of at most MAX_IDENTIFIER_LEN octets.
DecodeIdentifier(c) ==
    IF DecodeText(c) \in LongNames THEN Err ELSE DecodeText(c)

EncodeObjectName(n) ==
    CASE n[1] = "vmd"    -> T(128, Text(n[2]))
      [] n[1] = "domain" -> T(161, T(26, Text(n[2])) \o T(26, Text(n[3])))
      [] n[1] = "aa"     -> T(130, Text(n[2]))

\* Two identifiers in a row; what follows them is not read.
DecodeDomainSpecific(c) ==
    Try2(First(c, 26, DecodeIdentifier), First(Rest(c), 26, DecodeIdentifier),
         LAMBDA domain, item : << "domain", domain, item >>)

DecodeObjectName(s) ==
    LET named(v) == First(s, s[1].t, LAMBDA c : Try(DecodeIdentifier(c), LAMBDA n : << v, n >>))
    IN  CASE FirstTag(s) = 128 -> named("vmd")
          [] FirstTag(s) = 130 -> named("aa")
          [] FirstTag(s) = 161 -> First(s, 161, DecodeDomainSpecific)
          [] OTHER -> Err

ObjectNameSize(n) ==
    LET inner == IF n[1] = "domain" THEN 2 + Len(Text(n[2])) + 2 + Len(Text(n[3]))
                 ELSE Len(Text(n[2]))
    IN  1 + LengthSize(inner) + inner

-----------------------------------------------------------------------------
(* Alternate access: one array element, one component, or a chain of them.   *)
(* << "index", i >>, << "indexComponent", i, path >> and                     *)
(* << "component", name, nested selector or None >>.                         *)

RECURSIVE EncodeComponentChain(_)

EncodeComponentChain(path) ==
    IF Len(path) = 1 THEN T(129, Text(path[1]))
    ELSE T(160, T(128, Text(path[1])) \o T(48, EncodeComponentChain(Tail(path))))

RECURSIVE EncodeAlternateAccess(_)

EncodeAltAccessMember(a) ==
    CASE a[1] = "index"          -> T(130, EncodeUnsigned(a[2]))
      [] a[1] = "indexComponent" -> T(160, T(129, EncodeUnsigned(a[2]))
                                           \o T(48, EncodeComponentChain(a[3])))
      [] a[1] = "component" /\ a[3] = None -> T(129, Text(a[2]))
      [] a[1] = "component" /\ a[3] # None -> T(160, T(128, Text(a[2]))
                                                     \o EncodeAlternateAccess(a[3]))

EncodeAlternateAccess(a) == T(48, EncodeAltAccessMember(a))

RECURSIVE NestingDepth(_)

NestingDepth(a) ==
    CASE a[1] = "index"          -> 0
      [] a[1] = "indexComponent" -> Len(a[3])
      [] a[1] = "component"      -> IF a[3] = None THEN 0 ELSE 1 + NestingDepth(a[3])

RECURSIVE LeadingComponents(_)

\* The component names a selector starts with, and what is left of it.
LeadingComponents(a) ==
    IF a[1] # "component" THEN << << >>, a >>
    ELSE IF a[3] = None THEN << << a[2] >>, None >>
    ELSE LET rest == LeadingComponents(a[3]) IN << << a[2] >> \o rest[1], rest[2] >>

DecodeComponentIdentifier(c) ==
    IF DecodeIdentifier(c) = Empty THEN Err ELSE DecodeIdentifier(c)

RECURSIVE DecodeComponentChain(_, _, _)

\* The path after an index: only the first member of each level is read.
DecodeComponentChain(s, depth, max) ==
    LET member(c) ==
            CASE FirstTag(c) = 129 ->
                     First(c, 129, LAMBDA n :
                         Try(DecodeComponentIdentifier(n), LAMBDA name : << name >>))
              [] FirstTag(c) = 160 ->
                     First(c, 160, LAMBDA v :
                         Try2(First(v, 128, DecodeComponentIdentifier),
                              DecodeComponentChain(Rest(v), depth + 1, max),
                              LAMBDA head, rest : << head >> \o rest))
              [] OTHER -> Err
    IN  IF depth > max THEN Err ELSE First(s, 48, member)

RECURSIVE DecodeNestedAltAccess(_, _, _)

DecodeSelectAlternateAccess(s, depth, max) ==
    CASE FirstTag(s) = 129 ->
             Try2(First(s, 129, DecodeUnsigned), DecodeComponentChain(Rest(s), depth + 1, max),
                  LAMBDA i, path : << "indexComponent", i % U32, path >>)
      [] FirstTag(s) = 128 ->
             Try2(First(s, 128, DecodeComponentIdentifier),
                  DecodeNestedAltAccess(Rest(s), depth + 1, max),
                  LAMBDA name, nested : << "component", name, nested >>)
      [] OTHER -> Err

DecodeAltAccessMember(s, depth, max) ==
    CASE FirstTag(s) = 130 ->
             First(s, 130, LAMBDA c : Try(DecodeUnsigned(c), LAMBDA i : << "index", i % U32 >>))
      [] FirstTag(s) = 129 ->
             First(s, 129, LAMBDA c :
                 Try(DecodeComponentIdentifier(c), LAMBDA n : << "component", n, None >>))
      [] FirstTag(s) = 160 ->
             First(s, 160, LAMBDA c : DecodeSelectAlternateAccess(c, depth, max))
      [] OTHER -> Err

\* A sequence with exactly one member.
DecodeSingleMember(s, depth, max) ==
    IF Len(s) # 1 THEN Err ELSE DecodeAltAccessMember(s, depth, max)

DecodeNestedAltAccess(s, depth, max) ==
    IF depth > max \/ Len(s) # 1 THEN Err
    ELSE First(s, 48, LAMBDA c : DecodeSingleMember(c, depth, max))

DecodeAlternateAccess(s, max) ==
    First(s, 48, LAMBDA c : DecodeSingleMember(c, 0, EffectiveCap(max)))

-----------------------------------------------------------------------------
(* Variable access specifications: << "list", entries >> with entries        *)
(* [name, alt], or << "name", object name >>.                                *)

\* The alternate access of an entry takes the tag [5] IMPLICIT.
EncodeListOfVariableSeq(e) ==
    T(48, T(160, EncodeObjectName(e.name))
          \o Opt(e.alt, LAMBDA a : T(165, EncodeAlternateAccess(a)[1].c)))

EncodeVas(v) ==
    IF v[1] = "list" THEN T(160, Each(v[2], EncodeListOfVariableSeq))
    ELSE T(161, EncodeObjectName(v[2]))

DecodeListOfVariable(s, max) ==
    LET alt(r) == IF r = << >> THEN None
                  ELSE IF FirstTag(r) # 165 \/ Len(r) # 1 THEN Err
                  ELSE DecodeAlternateAccess(T(48, r[1].c), max)
        entry(x) == First(<< x >>, 48, LAMBDA c :
                        Try2(First(c, 160, DecodeObjectName), alt(Rest(c)),
                             LAMBDA n, a : [name |-> n, alt |-> a]))
    IN  All(s, entry)

DecodeVas(s, max) ==
    CASE FirstTag(s) = 160 ->
             First(s, 160, LAMBDA c :
                 Try(DecodeListOfVariable(c, max), LAMBDA l : << "list", l >>))
      [] FirstTag(s) = 161 ->
             First(s, 161, LAMBDA c : Try(DecodeObjectName(c), LAMBDA n : << "name", n >>))
      [] OTHER -> Err

-----------------------------------------------------------------------------
(* Data: << kind, value >>.  A bit string or Boolean array is                *)
(* << kind, padding, octets >>, a float the octets of the number.            *)

TextKinds == [t \in {138, 139, 144} |->
                 CASE t = 138 -> "visible" [] t = 139 -> "genTime" [] t = 144 -> "mmsString"]

\* The kinds whose octets are kept as they are, with the lengths accepted.
OctetKinds == [t \in {137, 140, 145} |->
                  CASE t = 137 -> [kind |-> "octets",  lens |-> Nat]
                    [] t = 140 -> [kind |-> "binTime", lens |-> {4, 6}]
                    [] t = 145 -> [kind |-> "utcTime", lens |-> {8}]]

BitKinds == [t \in {132, 142} |-> IF t = 132 THEN "bits" ELSE "boolArray"]

TagOfKind(kinds, k) == CHOOSE t \in DOMAIN kinds : kinds[t] = k

RECURSIVE EncodeData(_)

EncodeData(d) ==
    CASE d[1] = "bool"   -> T(131, Flag(d[2]))
      [] d[1] = "array"  -> T(161, Each(d[2], EncodeData))
      [] d[1] = "struct" -> T(162, Each(d[2], EncodeData))
      [] d[1] = "int"    -> T(133, EncodeSigned(d[2]))
      [] d[1] = "uint"   -> T(134, EncodeUnsigned(d[2]))
      [] d[1] \in {"visible", "genTime", "mmsString"} -> T(TagOfKind(TextKinds, d[1]), Text(d[2]))
      [] d[1] \in {"bits", "boolArray"} -> T(TagOfKind(BitKinds, d[1]), << d[2] >> \o d[3])
      [] d[1] = "float" -> T(135, << IF Len(d[2]) = 4 THEN 8 ELSE 11 >> \o d[2])
      [] OTHER -> T(CHOOSE t \in DOMAIN OctetKinds : OctetKinds[t].kind = d[1], d[2])

\* The padding octet comes first and says how many of the last bits to drop.
DecodeBitString(kind, c) ==
    IF c = << >> \/ c[1] >= OctetBits \/ (Len(c) = 1 /\ c[1] # 0) THEN Err
    ELSE << kind, c[1], Tail(c) >>

\* The exponent width in front is not looked at.
DecodeFloatingPoint(c) == IF Len(c) \in {5, 9} THEN << "float", Tail(c) >> ELSE Err

RECURSIVE DecodeData(_, _, _)

DecodeData(x, depth, max) ==
    LET items(kind) == Try(All(x.c, LAMBDA y : DecodeData(y, depth + 1, max)),
                           LAMBDA s : << kind, s >>)
        put(kind, v) == Try(v, LAMBDA u : << kind, u >>)
    IN  IF depth > max \/ x.c = Cut THEN Err
        ELSE CASE x.t = 131 -> put("bool", DecodeFlag(x.c))
               [] x.t = 161 -> items("array")
               [] x.t = 162 -> items("struct")
               [] x.t = 133 -> put("int", DecodeSigned(x.c))
               [] x.t = 134 -> put("uint", DecodeUnsigned(x.c))
               [] x.t \in DOMAIN TextKinds -> put(TextKinds[x.t], DecodeText(x.c))
               [] x.t \in DOMAIN BitKinds -> DecodeBitString(BitKinds[x.t], x.c)
               [] x.t = 135 -> DecodeFloatingPoint(x.c)
               [] x.t \in DOMAIN OctetKinds ->
                      IF Len(x.c) \in OctetKinds[x.t].lens
                      THEN << OctetKinds[x.t].kind, x.c >> ELSE Err
               [] OTHER -> Err

RECURSIVE DataDepth(_)

\* Levels of arrays and structures around the innermost component.
DataDepth(d) ==
    IF d[1] \notin {"array", "struct"} \/ d[2] = << >> THEN 0
    ELSE 1 + Max({DataDepth(d[2][i]) : i \in DOMAIN d[2]})

SizeOfTlv(n) == 1 + LengthSize(n) + n

RECURSIVE EstimatedSize(_)

\* estimated_encoded_size(): what the services budget a response with.
EstimatedSize(d) ==
    SizeOfTlv(CASE d[1] = "bool" -> 1
                [] d[1] \in {"array", "struct"} ->
                       FoldLeft(LAMBDA a, y : a + EstimatedSize(y), 0, d[2])
                [] d[1] = "int" -> Len(EncodeSigned(d[2]))
                [] d[1] = "uint" -> Len(EncodeUnsigned(d[2]))
                [] d[1] \in {"visible", "genTime", "mmsString"} -> Len(Text(d[2]))
                [] d[1] \in {"bits", "boolArray"} -> 1 + Len(d[3])
                [] d[1] = "float" -> 1 + Len(d[2])
                [] OTHER -> Len(d[2]))

-----------------------------------------------------------------------------
(* Results of reads and writes: << "success", data >>, << "failure", code >>. *)

DataAccessErrors == 0 .. 11

DecodeFailure(c) ==
    IF c = << >> \/ c[1] \notin DataAccessErrors THEN Err ELSE << "failure", c[1] >>

EncodeAccessResult(r) ==
    IF r[1] = "success" THEN EncodeData(r[2]) ELSE T(128, << r[2] >>)

DecodeAccessResult(x) ==
    IF x.c = Cut THEN Err
    ELSE IF x.t = 128 THEN DecodeFailure(x.c)
    ELSE Try(DecodeData(x, 0, MaxDepth), LAMBDA d : << "success", d >>)

EncodeWriteOutcome(o) ==
    IF o[1] = "success" THEN T(129, << >>) ELSE T(128, << o[2] >>)

\* The content of a success is not looked at, not even whether it is there.
DecodeWriteOutcome(x) ==
    CASE x.t = 129 -> << "success" >>
      [] x.t = 128 /\ x.c # Cut -> IF Len(x.c) > 4 THEN Err ELSE DecodeFailure(x.c)
      [] OTHER -> Err

-----------------------------------------------------------------------------
(* Type specifications: << kind >>, << kind, size >>, << "float", f, e >>,   *)
(* << "array", count, type >>, << "struct", components >> with components    *)
(* [name, type], and << "unknown", tag >> for a type not supported.          *)

SizedTypes == [t \in {132, 137, 138, 144} |->
                  CASE t = 132 -> "bits" [] t = 137 -> "octets"
                    [] t = 138 -> "visible" [] t = 144 -> "mmsString"]

PlainTypes == [t \in {131, 145} |-> IF t = 131 THEN "bool" ELSE "utcTime"]

WidthTypes == [t \in {133, 134} |-> IF t = 133 THEN "int" ELSE "uint"]

RECURSIVE EncodeTypeSpec(_)

\* An unsupported type inside makes the whole encoding fail.
EncodeTypeSpec(ts) ==
    LET component(k) == Try(EncodeTypeSpec(k.type), LAMBDA e :
                            T(48, T(128, Text(k.name)) \o T(161, e)))
        list(ks) == IF \E i \in DOMAIN ks : Failed(component(ks[i])) THEN Err
                    ELSE Each(ks, component)
    IN  CASE ts[1] \in Range(PlainTypes) -> T(TagOfKind(PlainTypes, ts[1]), << >>)
          [] ts[1] \in Range(SizedTypes) -> T(TagOfKind(SizedTypes, ts[1]), EncodeI32(ts[2]))
          [] ts[1] \in Range(WidthTypes) -> T(TagOfKind(WidthTypes, ts[1]), << ts[2] >>)
          [] ts[1] = "float"   -> T(167, T(2, << ts[2] >>) \o T(2, << ts[3] >>))
          [] ts[1] = "binTime" -> T(140, Flag(ts[2]))
          [] ts[1] = "array"   -> Try(EncodeTypeSpec(ts[3]), LAMBDA e :
                                      T(161, T(129, EncodeU32(ts[2])) \o T(162, e)))
          [] ts[1] = "struct"  -> Try(list(ts[2]), LAMBDA e : T(162, T(161, e)))
          [] ts[1] = "unknown" -> Err

RECURSIVE TypeSpecSize(_)

TypeSpecSize(ts) ==
    LET tlv(n) == 1 + LengthSize(n) + n
        n == CASE ts[1] \in Range(PlainTypes) -> 0
               [] ts[1] \in Range(SizedTypes) -> Len(EncodeI32(ts[2]))
               [] ts[1] \in Range(WidthTypes) \union {"binTime"} -> 1
               [] ts[1] = "float" -> 6
               [] ts[1] = "array" -> tlv(Len(EncodeU32(ts[2]))) + tlv(TypeSpecSize(ts[3]))
               [] ts[1] = "struct" ->
                      tlv(FoldLeft(LAMBDA a, k : a + tlv(tlv(Len(Text(k.name)))
                                                         + tlv(TypeSpecSize(k.type))),
                                   0, ts[2]))
    IN  tlv(n)

RECURSIVE TypeDepth(_)

\* Levels of arrays and structures around the innermost type.
TypeDepth(ts) ==
    CASE ts[1] = "array" -> 1 + TypeDepth(ts[3])
      [] ts[1] = "struct" /\ ts[2] # << >> ->
             1 + Max({TypeDepth(ts[2][i].type) : i \in DOMAIN ts[2]})
      [] OTHER -> 0

\* The two widths of a floating point type, one octet each.
DecodeFloatWidths(c) ==
    LET width(s) == First(s, 2, LAMBDA o : IF Len(o) = 1 THEN o[1] ELSE Err)
    IN  Try2(width(c), width(Rest(c)), LAMBDA f, e : << "float", f, e >>)

RECURSIVE DecodeTypeSpec(_, _, _)

DecodeStructComponent(x, depth, max) ==
    First(<< x >>, 48, LAMBDA c :
        LET name == Field(c, 128, DecodeText)
            type == Field(c, 161, LAMBDA v : DecodeTypeSpec(v, depth, max))
        IN  IF Overrun(c) \/ name = None \/ type = None THEN Err
            ELSE Try2(name, type, LAMBDA n, ty : [name |-> n, type |-> ty]))

DecodeArrayInner(c, depth, max) ==
    LET count == Field(c, 129, DecodeU32)
        type  == Field(c, 162, LAMBDA v : DecodeTypeSpec(v, depth, max))
    IN  IF Overrun(c) \/ count = None \/ type = None THEN Err
        ELSE Try2(count, type, LAMBDA n, ty : << "array", n, ty >>)

DecodeStructureInner(c, depth, max) ==
    LET list == Field(c, 161, LAMBDA v :
                    All(v, LAMBDA x : DecodeStructComponent(x, depth, max)))
    IN  IF Overrun(c) THEN Err ELSE Try(Default(list, << >>), LAMBDA l : << "struct", l >>)

\* A level deeper than data: the bound is already reached at depth max.
DecodeTypeSpec(s, depth, max) ==
    LET t == FirstTag(s)
        c == s[1].c
        octet(kind) == IF c = << >> THEN Err ELSE << kind, c[1] >>
    IN  IF depth >= max \/ s = << >> THEN Err
        ELSE IF c = Cut THEN Err
        ELSE CASE t \in DOMAIN PlainTypes -> << PlainTypes[t] >>
               [] t \in DOMAIN SizedTypes ->
                      Try(DecodeI32(c), LAMBDA n : << SizedTypes[t], n >>)
               [] t \in DOMAIN WidthTypes -> octet(WidthTypes[t])
               [] t = 167 -> DecodeFloatWidths(c)
               [] t = 140 -> Try(DecodeFlag(c), LAMBDA b : << "binTime", b >>)
               [] t = 161 -> DecodeArrayInner(c, depth + 1, max)
               [] t = 162 -> DecodeStructureInner(c, depth + 1, max)
               [] OTHER -> << "unknown", t >>

-----------------------------------------------------------------------------
(* Service errors: [class, code, info, text, deleted], the class a context   *)
(* tag 0 .. 12.                                                              *)

EncodeErrorClass(e) == T(160, T(128 + e.class, EncodeUnsigned(e.code)))

\* An Unsigned32 must not look negative and takes five octets at most.
DecodeUnsigned32(o) ==
    IF Len(o) = 0 \/ Len(o) > 5 THEN Err
    ELSE IF o[1] >= SignBit \/ (Len(o) = 5 /\ o[1] # 0) THEN Err
    ELSE Value(o)

DecodeErrorClass(s) ==
    LET choice(c) ==
            IF Len(c) # 1 \/ FirstTag(c) \notin 128 .. 140 THEN Err
            ELSE First(c, c[1].t, LAMBDA o :
                     Try(DecodeUnsigned32(o), LAMBDA v :
                         IF v < Base THEN [class |-> c[1].t - 128, code |-> v] ELSE Err))
    IN  First(s, 160, choice)

EncodeServiceError(e) ==
    EncodeErrorClass(e)
    \o Opt(e.info, LAMBDA v : T(129, EncodeI32(v)))
    \o Opt(e.text, LAMBDA v : T(130, Text(v)))
    \o Opt(e.deleted, LAMBDA v : T(163, T(134, EncodeUnsigned(v))))

\* An additional code that is too long and a service-specific part that does
\* not decode are dropped; they do not fail the error they come with.
DecodeServiceError(s) ==
    LET rest    == Rest(s)
        code    == Field(rest, 129, LAMBDA o : IF Len(o) > 4 THEN None ELSE DecodeI32(o))
        text    == Field(rest, 130, DecodeText)
        count   == Field(rest, 163, LAMBDA c :
                       LET n == First(c, 134, DecodeUnsigned32)
                       IN  IF Failed(n) THEN None ELSE n)
        class   == DecodeErrorClass(s)
    IN  IF Failed(class) \/ Overrun(rest) \/ Failed(code) \/ Failed(text) THEN Err
        ELSE [class |-> class.class, code |-> class.code, info |-> code, text |-> text,
              deleted |-> count]
=============================================================================
