--------------------------- MODULE ProcessBusPdu ---------------------------
(***************************************************************************)
(* The PDUs of the process bus: the GOOSE PDU with its own encoding of the  *)
(* data set values (iec61850-goose/src/pdu.rs) and the savPdu of sampled    *)
(* values with its ASDUs (iec61850-sv/src/pdu.rs).                          *)
(*                                                                         *)
(* References longer than the 129 octets both accept are LongNames.         *)
(***************************************************************************)
EXTENDS MmsTypes

CONSTANTS GooseDepth,  \* GOOSE_DATA_MAX_DEPTH
          MaxAsdus     \* MAX_ASDU_PER_FRAME

-----------------------------------------------------------------------------
(* GOOSE: [gocbRef, ttl, datSet, goId, t, st, sq, sim, confRev, ndsCom,      *)
(* entries, data].                                                           *)

\* TRUE is one here, not all ones.
GooseFlag(b) == IF b THEN << 1 >> ELSE << 0 >>

DecodeGooseFlag(c) == c # << >> /\ c[1] # 0

\* Nine octets: the leading zero of a value with its top bit set is kept.
EncodeUnsigned9(v) ==
    Shortest(BigEndian(v, 9), LAMBDA b, next : b = 0 /\ next < SignBit)

RECURSIVE EncodeMmsValue(_, _)

EncodeMmsValue(d, depth) ==
    LET items(t) == IF \E i \in DOMAIN d[2] : Failed(EncodeMmsValue(d[2][i], depth + 1)) THEN Err
                    ELSE T(t, Each(d[2], LAMBDA x : EncodeMmsValue(x, depth + 1)))
    IN  IF depth > GooseDepth THEN Err
        ELSE CASE d[1] = "bool"   -> T(131, GooseFlag(d[2]))
               [] d[1] = "uint"   -> T(134, EncodeUnsigned9(d[2]))
               [] d[1] = "array"  -> items(161)
               [] d[1] = "struct" -> items(162)
               [] OTHER -> EncodeData(d)

DecodeUnsigned9(c) ==
    IF c = << >> \/ Len(c) > 9 \/ (Len(c) = 9 /\ c[1] # 0) THEN Err ELSE Value(c)

RECURSIVE DecodeDataElement(_, _)

\* A value this codec has no type for is refused; the tag of an access error
\* is kept as octets.
DecodeDataElement(x, depth) ==
    LET items(kind) == Try(All(x.c, LAMBDA y : DecodeDataElement(y, depth + 1)),
                           LAMBDA s : << kind, s >>)
    IN  IF depth > GooseDepth \/ x.c = Cut THEN Err
        ELSE CASE x.t = 131 -> << "bool", DecodeGooseFlag(x.c) >>
               [] x.t = 132 -> IF Len(x.c) < 2 THEN Err ELSE DecodeBitString("bits", x.c)
               [] x.t = 134 -> Try(DecodeUnsigned9(x.c), LAMBDA v : << "uint", v >>)
               [] x.t = 161 -> items("array")
               [] x.t = 162 -> items("struct")
               [] x.t = 128 -> << "octets", x.c >>
               [] x.t \in {133, 135, 137, 138, 140, 144, 145} -> DecodeData(x, 0, 0)
               [] OTHER -> Err

DecodeAllData(c) == All(c, LAMBDA x : DecodeDataElement(x, 0))

\* Time accuracies 25 to 30 do not exist.
DecodeUtcTime(c) == IF Len(c) # 8 \/ c[8] % 32 \in 25 .. 30 THEN Err ELSE c

EncodeGoosePdu(p) ==
    LET values == IF \E i \in DOMAIN p.data : Failed(EncodeMmsValue(p.data[i], 0)) THEN Err
                  ELSE Each(p.data, LAMBDA d : EncodeMmsValue(d, 0))
    IN  Try(values, LAMBDA v :
            T(97, T(128, Text(p.gocbRef)) \o T(129, EncodeU32(p.ttl)) \o T(130, Text(p.datSet))
                  \o T(131, Text(p.goId)) \o T(132, p.t) \o T(133, EncodeU32(p.st))
                  \o T(134, EncodeU32(p.sq)) \o T(135, GooseFlag(p.sim))
                  \o T(136, EncodeU32(p.confRev)) \o T(137, GooseFlag(p.ndsCom))
                  \o T(138, EncodeU32(p.entries)) \o T(171, v)))

\* stNum 0 is no state; the count must be that of the values.
DecodeGoosePdu(s) ==
    LET pdu(c) ==
            LET st == Field(c, 133, LAMBDA o :
                          Try(DecodeU32(o), LAMBDA v : IF v = 0 THEN Err ELSE v))
                p == [gocbRef |-> Field(c, 128, DecodeIdentifier), ttl |-> Field(c, 129, DecodeU32),
                      datSet |-> Field(c, 130, DecodeIdentifier), goId |-> Field(c, 131, DecodeIdentifier),
                      t |-> Field(c, 132, DecodeUtcTime), st |-> st, sq |-> Field(c, 134, DecodeU32),
                      sim |-> Default(Field(c, 135, DecodeGooseFlag), FALSE),
                      confRev |-> Field(c, 136, DecodeU32),
                      ndsCom |-> Default(Field(c, 137, DecodeGooseFlag), FALSE),
                      entries |-> Field(c, 138, DecodeU32), data |-> Field(c, 171, DecodeAllData)]
            IN  IF \/ Overrun(c)
                   \/ Bad(p.gocbRef) \/ Bad(p.ttl) \/ Bad(p.datSet) \/ Bad(p.goId) \/ Bad(p.t)
                   \/ Bad(p.st) \/ Bad(p.sq) \/ Bad(p.confRev) \/ Bad(p.entries) \/ Bad(p.data)
                THEN Err
                ELSE IF p.entries # Len(p.data) THEN Err ELSE p
    IN  First(s, 97, pdu)

-----------------------------------------------------------------------------
(* Sampled values: a sequence of ASDUs [svId, datSet, smpCnt, confRev,       *)
(* refrTm, synch, rate, sample, mod, gm].                                    *)

\* SmpSynch: three fixed states, an identified local area, or reserved.
SmpSynchOf(o) ==
    CASE o = 0 -> << "notSynced" >>
      [] o = 1 -> << "localUnspec" >>
      [] o = 2 -> << "globalClock" >>
      [] o \in 5 .. Base - 2 -> << "localIdentified", o >>
      [] OTHER -> << "reserved", o >>

SmpSynchOctet(s) ==
    CASE s[1] = "notSynced" -> 0
      [] s[1] = "localUnspec" -> 1
      [] s[1] = "globalClock" -> 2
      [] OTHER -> s[2]

SmpModOf(v) ==
    CASE v = 0 -> << "perNominalPeriod" >>
      [] v = 1 -> << "samplesPerSecond" >>
      [] v = 2 -> << "secondsPerSample" >>
      [] OTHER -> << "unknown", v >>

SmpModWord(m) ==
    CASE m[1] = "perNominalPeriod" -> 0
      [] m[1] = "samplesPerSecond" -> 1
      [] m[1] = "secondsPerSample" -> 2
      [] OTHER -> m[2]

EncodeAsdu(a) ==
    T(48, T(128, Text(a.svId)) \o Opt(a.datSet, LAMBDA d : T(129, Text(d)))
          \o T(130, BigEndian(a.smpCnt, 2)) \o T(131, BigEndian(a.confRev, 4))
          \o Opt(a.refrTm, LAMBDA t : T(132, t)) \o T(133, << SmpSynchOctet(a.synch) >>)
          \o Opt(a.rate, LAMBDA r : T(134, BigEndian(r, 2))) \o T(135, a.sample)
          \o Opt(a.mod, LAMBDA m : T(136, BigEndian(SmpModWord(m), 2)))
          \o Opt(a.gm, LAMBDA g : T(137, g)))

\* asdu_contents_size(): the sizes are computed before anything is written.
AsduContentsSize(a) ==
    LET tlv(n) == 1 + LengthSize(n) + n
        if(v, n) == IF v = None THEN 0 ELSE n
    IN  tlv(Len(Text(a.svId))) + if(a.datSet, tlv(Len(Text(a.datSet)))) + 4 + 6
        + if(a.refrTm, 10) + 3 + if(a.rate, 4) + tlv(Len(a.sample)) + if(a.mod, 4) + if(a.gm, 10)

EncodeSavPdu(asdus) ==
    IF asdus = << >> THEN Err
    ELSE T(96, T(128, << Len(asdus) % Base >>) \o T(162, Each(asdus, EncodeAsdu)))

\* One octet is what some publishers send.
DecodeSmpMod(c) ==
    IF Len(c) \in {1, 2} THEN SmpModOf(Value(c)) ELSE Err

\* A grandmaster identity of another length is left out.
CompleteAsdu(a) ==
    IF \/ Bad(a.svId) \/ Bad(a.smpCnt) \/ Bad(a.confRev) \/ Bad(a.synch) \/ Bad(a.sample)
       \/ Failed(a.datSet) \/ Failed(a.refrTm) \/ Failed(a.rate) \/ Failed(a.mod)
    THEN Err ELSE a

DecodeAsdu(x) ==
    LET c == Contents(<< x >>, 48)
        number(o, n) == IF Len(o) = n THEN Value(o) ELSE Err
        gms == {i \in Tagged(c, 137) : Len(c[i].c) = 8}
    IN  IF Failed(c) THEN Err
        ELSE IF Overrun(c) THEN Err
        ELSE CompleteAsdu(
                 [svId |-> Field(c, 128, DecodeIdentifier), datSet |-> Field(c, 129, DecodeIdentifier),
                  smpCnt |-> Field(c, 130, LAMBDA o : number(o, 2)),
                  confRev |-> Field(c, 131, LAMBDA o : number(o, 4)),
                  refrTm |-> Field(c, 132, DecodeUtcTime),
                  synch |-> Field(c, 133, LAMBDA o : IF Len(o) = 1 THEN SmpSynchOf(o[1]) ELSE Err),
                  rate |-> Field(c, 134, LAMBDA o : number(o, 2)), sample |-> Field(c, 135, DecodeOctets),
                  mod |-> Field(c, 136, DecodeSmpMod),
                  gm |-> IF gms = {} THEN None ELSE c[Max(gms)].c])

DecodeAsduSequence(c) == IF Len(c) > MaxAsdus THEN Err ELSE All(c, DecodeAsdu)

\* Neither the count nor the sequence may come twice, and they must agree.
AgreedAsdus(count, asdus) ==
    IF Bad(count) \/ Bad(asdus) THEN Err
    ELSE IF asdus = << >> \/ count # Len(asdus) THEN Err ELSE asdus

DecodeSavPdu(s) ==
    LET c == Contents(s, 96)
    IN  IF Failed(c) THEN Err
        ELSE IF Overrun(c) \/ \E t \in {128, 162} : Cardinality(Tagged(c, t)) > 1 THEN Err
        ELSE AgreedAsdus(Field(c, 128, LAMBDA o : IF o = << >> \/ Value(o) > MaxAsdus THEN Err ELSE Value(o)),
                         Field(c, 162, DecodeAsduSequence))

=============================================================================
