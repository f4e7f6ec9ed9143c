---------------------------- MODULE MmsServices -----------------------------
(***************************************************************************)
(* The MMS PDUs of iec61850-mms/src/mms/pdu: initiate, conclude, reject,    *)
(* the confirmed services with the envelope that carries their invoke ID,   *)
(* confirmed errors and information reports.                                *)
(*                                                                         *)
(* A message is a record.  EncodeX gives the service part as a stream,      *)
(* DecodeX takes the stream that starts with it.                            *)
(***************************************************************************)
EXTENDS MmsTypes

CONSTANTS MaxItems,    \* MAX_WRITE_ITEMS, the members of a named variable list
          MaxLevel,    \* MAX_NESTING_LEVEL of the initiate exchange
          ReasonCode,  \* the text "ReasonCode"
          LastApplErr, \* the text "LastApplError"
          LongAfter    \* texts of 130 octets and more

-----------------------------------------------------------------------------
(* Initiate and conclude.                                                    *)

DefaultDetail == [version |-> 1, cbb |-> << 5, 1, 0 >>,
                  services |-> << 14, 12, 0, 0, 0, 0, 0, 0, 4, 1, 1 >>]

\* The version number is cast to one octet.
EncodeInitDetail(d) ==
    T(128, << d.version % Base >>) \o T(129, d.cbb) \o T(130, << 3 >> \o d.services)

\* Absent fields keep the client's defaults, the padding octet is not read.
DecodeInitDetail(s) ==
    LET version  == Field(s, 128, LAMBDA c : IF c = << >> THEN Err ELSE c[1])
        cbb      == Field(s, 129, LAMBDA c : IF Len(c) # 3 THEN Err ELSE c)
        services == Field(s, 130, LAMBDA c : IF Len(c) # 12 THEN Err ELSE Tail(c))
    IN  IF Overrun(s) \/ Failed(version) \/ Failed(cbb) \/ Failed(services) THEN Err
        ELSE [version  |-> Default(version, DefaultDetail.version),
              cbb      |-> Default(cbb, DefaultDetail.cbb),
              services |-> Default(services, DefaultDetail.services)]

EncodeInitRequestDetail(d) == EncodeInitDetail(d)
DecodeInitRequestDetail(s) == DecodeInitDetail(s)
EncodeInitResponseDetail(d) == EncodeInitDetail(d)
DecodeInitResponseDetail(s) == DecodeInitDetail(s)

\* encode_uint32_minimal(), encode_uint16_minimal() and decode_uint().
DecodeUint(o) ==
    CASE Len(o) \in 1 .. 4 -> Value(o)
      [] Len(o) = 5 /\ o[1] = 0 -> Value(o)
      [] OTHER -> Err

InitiateFields(m, detail) ==
    Opt(m.size, LAMBDA v : T(128, EncodeU32(v)))
    \o T(129, EncodeUnsigned(m.calling)) \o T(130, EncodeUnsigned(m.called))
    \o Opt(m.level, LAMBDA v : T(131, << v >>))
    \o T(164, detail)

\* The outstanding counts are cast to 16 bits.
InitiateOf(s, detail) ==
    LET size    == Field(s, 128, DecodeUint)
        calling == Field(s, 129, DecodeUint)
        called  == Field(s, 130, DecodeUint)
        level   == Field(s, 131, LAMBDA c : IF c = << >> THEN Err
                                            ELSE IF c[1] > MaxLevel THEN Err ELSE c[1])
    IN  IF \/ Overrun(s) \/ Failed(size) \/ Failed(level)
           \/ Bad(calling) \/ Bad(called) \/ Bad(detail)
        THEN Err
        ELSE [size |-> size, calling |-> calling % U16, called |-> called % U16,
              level |-> level, detail |-> detail]

EncodeInitiateRequest(m) == T(168, InitiateFields(m, EncodeInitRequestDetail(m.detail)))
DecodeInitiateRequest(s) == First(s, 168, LAMBDA c : InitiateOf(c, Field(c, 164, DecodeInitRequestDetail)))
EncodeInitiateResponse(m) == T(169, InitiateFields(m, EncodeInitResponseDetail(m.detail)))
DecodeInitiateResponse(s) == First(s, 169, LAMBDA c : InitiateOf(c, Field(c, 164, DecodeInitResponseDetail)))

EncodeInitiateError(e) == T(170, EncodeServiceError(e))
DecodeInitiateError(s) == First(s, 170, DecodeServiceError)

EncodeConclude(t) == T(t, << >>)

-----------------------------------------------------------------------------
(* Reject: [id, type, reason], the type 1 .. 11.                             *)

ConfirmedRequestReasons  == (0 .. 9) \ {7}
ConfirmedResponseReasons == (0 .. 6) \ {4}
ConfirmedErrorReasons    == 0 .. 4
UnconfirmedReasons       == 0 .. 4
PduErrorReasons          == 0 .. 2
ConcludeRequestReasons   == 0 .. 1
ConcludeResponseReasons  == 0 .. 1
ConcludeErrorReasons     == 0 .. 2

CancelTypes == 6 .. 8

RejectReasons == << ConfirmedRequestReasons, ConfirmedResponseReasons, ConfirmedErrorReasons,
                    UnconfirmedReasons, PduErrorReasons, {0}, {0}, {0},
                    ConcludeRequestReasons, ConcludeResponseReasons, ConcludeErrorReasons >>

EncodeReject(m) ==
    T(164, Opt(m.id, LAMBDA v : T(128, EncodeU32(v)))
           \o T(128 + m.type, IF m.type \in CancelTypes THEN << >> ELSE << m.reason >>))

\* A reason the table does not know counts as "other", an empty one as 0.
DecodeRejectReason(type, o) ==
    LET v == IF o = << >> THEN 0 ELSE SignExtended(SubSeq(o, 1, IF Len(o) < 4 THEN Len(o) ELSE 4))
    IN  IF type \in CancelTypes \/ v \notin RejectReasons[type] THEN 0 ELSE v

\* The last reason wins; other tags are skipped.
DecodeReject(s) ==
    LET fields(c) ==
            LET id    == Field(c, 128, LAMBDA o :
                             Value(SubSeq(o, 1, IF Len(o) < 5 THEN Len(o) ELSE 5)) % U32)
                given == {i \in DOMAIN c : c[i].t - 128 \in DOMAIN RejectReasons}
                last  == c[Max(given)]
            IN  IF Overrun(c) \/ given = {} THEN Err
                ELSE [id |-> id, type |-> last.t - 128,
                      reason |-> DecodeRejectReason(last.t - 128, last.c)]
    IN  First(s, 164, fields)

\* to_mms_error(): what a caller of the client sees.
RejectError(m) ==
    CASE m.type = 1 /\ m.reason = 1 -> "unrecognizedService"
      [] m.type = 1 /\ m.reason = 4 -> "invalidArgument"
      [] m.type = 5 /\ m.reason = 0 -> "unknownPduType"
      [] m.type = 5 /\ m.reason = 1 -> "invalidPdu"
      [] OTHER -> "other"

-----------------------------------------------------------------------------
(* The envelope of the confirmed services.                                   *)

EncodeInvokeId(id) == T(2, EncodeUnsigned(id))

\* Reads, writes and name services: at most four octets.
ShortInvokeId(o) == IF Len(o) \notin 1 .. 4 THEN Err ELSE Value(o)

\* Identify and status take a leading zero octet off first.
UnpaddedInvokeId(o) ==
    LET p == IF Len(o) > 1 /\ o[1] = 0 THEN Tail(o) ELSE o
    IN  IF Len(p) \notin 1 .. 4 THEN Err ELSE Value(p)

\* ReadJournal shifts any number of octets through 32 bits.
WrappedInvokeId(o) == Value(o) % U32

EncodeConfirmed(outer, id, service) == T(outer, EncodeInvokeId(id) \o service)

Confirmed(id, body) == IF Failed(id) \/ Failed(body) THEN Err ELSE [id |-> id, body |-> body]

DecodeConfirmed(s, outer, id, body) ==
    IF Failed(Contents(s, outer)) THEN Err ELSE Confirmed(id, body)

\* The invoke ID as each of the three decoders reads it, and what follows it.
ShortId(s) == First(s[1].c, 2, ShortInvokeId)
UnpaddedId(s) == First(s[1].c, 2, UnpaddedInvokeId)
WrappedId(s) == First(s[1].c, 2, WrappedInvokeId)
ServicePart(s) == Rest(s[1].c)

Request == 160
Response == 161

ConfirmedRead(s, outer, body) == DecodeConfirmed(s, outer, ShortId(s), body)
ConfirmedWrite(s, outer, body) == DecodeConfirmed(s, outer, ShortId(s), body)
ConfirmedNameList(s, outer, body) == DecodeConfirmed(s, outer, ShortId(s), body)
ConfirmedVarAttrs(s, outer, body) == DecodeConfirmed(s, outer, ShortId(s), body)
ConfirmedNvlAttrs(s, outer, body) == DecodeConfirmed(s, outer, ShortId(s), body)
ConfirmedDefine(s, outer, body) == DecodeConfirmed(s, outer, ShortId(s), body)
ConfirmedDelete(s, outer, body) == DecodeConfirmed(s, outer, ShortId(s), body)
ConfirmedIdentify(s, outer, body) == DecodeConfirmed(s, outer, UnpaddedId(s), body)
ConfirmedStatus(s, outer, body) == DecodeConfirmed(s, outer, UnpaddedId(s), body)
ConfirmedJournal(s, outer, body) == DecodeConfirmed(s, outer, WrappedId(s), body)

\* A confirmed error: the modifier position is skipped.
EncodeConfirmedError(id, e) ==
    T(162, T(128, EncodeUnsigned(id)) \o T(162, EncodeServiceError(e)))

DecodeConfirmedError(s) ==
    LET inner(c) ==
            LET after == IF FirstTag(Rest(c)) = 129 THEN Rest(Rest(c)) ELSE Rest(c)
                cut   == FirstTag(Rest(c)) = 129 /\ Rest(c)[1].c = Cut
            IN  IF cut THEN Err
                ELSE Try2(First(c, 128, DecodeUnsigned32), First(after, 162, DecodeServiceError),
                          LAMBDA id, e : [id |-> id, body |-> e])
    IN  First(s, 162, inner)

-----------------------------------------------------------------------------
(***************************************************************************)
(* The bodies of the confirmed services and of the information report       *)
(* (read.rs, write.rs, get_name_list.rs, get_var_access_attrs.rs, the three *)
(* named variable list services, identify.rs, status.rs, read_journal.rs,   *)
(* information_report.rs) and the outermost choice (mod.rs).                *)
(***************************************************************************)

CONSTANTS MaxDetailBits,  \* MAX_LOCAL_DETAIL_BITS
          DayMs,          \* milliseconds of a day
          Epoch1984       \* 1984-01-01 in milliseconds

-----------------------------------------------------------------------------
(* Read and write.                                                           *)

EncodeReadRequest(m) ==
    T(164, (IF m.withSpec THEN T(128, << 1 >>) ELSE << >>) \o T(161, EncodeVas(m.vas)))

ReadRequestInner(c, max) ==
    LET withSpec == Field(c, 128, DecodeFlag)
        vas      == Field(c, 161, LAMBDA v : DecodeVas(v, max))
    IN  IF Overrun(c) THEN Err
        ELSE IF Failed(withSpec) \/ Bad(vas) THEN Err
        ELSE [withSpec |-> Default(withSpec, FALSE), vas |-> vas]

DecodeReadRequest(s, negotiated) ==
    First(s, 164, LAMBDA c : ReadRequestInner(c, EffectiveCap(negotiated)))

EncodeReadResponse(m) ==
    T(164, Opt(m.vas, LAMBDA v : T(160, EncodeVas(v)))
           \o T(161, Each(m.results, EncodeAccessResult)))

DecodeListOfAccessResult(c) == All(c, DecodeAccessResult)

ReadResponseInner(c) ==
    LET vas     == Field(c, 160, LAMBDA v : DecodeVas(v, MaxDepth))
        results == Field(c, 161, DecodeListOfAccessResult)
    IN  IF Overrun(c) THEN Err
        ELSE IF Failed(vas) \/ Bad(results) THEN Err
        ELSE [vas |-> vas, results |-> results]

DecodeReadResponse(s) == First(s, 164, ReadResponseInner)

EncodeWriteRequest(m) == T(165, EncodeVas(m.vas) \o T(160, Each(m.data, EncodeData)))

DecodeListOfData(c, max) == All(c, LAMBDA x : DecodeData(x, 0, max))

\* The two fields come in order; a list of variables has one value for each.
WriteRequestInner(c, max) ==
    Try2(DecodeVas(c, max), First(Rest(c), 160, LAMBDA l : DecodeListOfData(l, max)),
         LAMBDA vas, data :
            IF \/ vas[1] = "list" /\ Len(vas[2]) # Len(data)
               \/ Len(data) > MaxItems
            THEN Err ELSE [vas |-> vas, data |-> data])

DecodeWriteRequest(s, negotiated) ==
    First(s, 165, LAMBDA c : WriteRequestInner(c, EffectiveCap(negotiated)))

EncodeWriteResponse(outcomes) == T(165, Each(outcomes, EncodeWriteOutcome))

WriteResponseInner(c) == All(c, DecodeWriteOutcome)

DecodeWriteResponse(s) == First(s, 165, WriteResponseInner)

DecodeWithExpectedCount(s, expected) ==
    Try(DecodeWriteResponse(s), LAMBDA o : IF Len(o) # expected THEN Err ELSE o)

-----------------------------------------------------------------------------
(* GetNameList: [class, scope, after] and [names, more].                     *)

ObjectClasses == {0, 2, 8, 9}

EncodeNameListRequest(m) ==
    LET scope == CASE m.scope[1] = "vmd"    -> T(128, << >>)
                   [] m.scope[1] = "domain" -> T(129, Text(m.scope[2]))
                   [] m.scope[1] = "aa"     -> T(130, << >>)
    IN  T(161, T(160, T(128, << m.class >>)) \o T(161, scope)
               \o Opt(m.after, LAMBDA a : T(130, Text(a))))

DecodeObjectClass(o) ==
    IF Len(o) \notin 1 .. 4 THEN Err
    ELSE IF Value(o) \in ObjectClasses THEN Value(o) ELSE Err

DecodeObjectScope(c) ==
    CASE FirstTag(c) = 128 -> First(c, 128, LAMBDA o : << "vmd" >>)
      [] FirstTag(c) = 129 -> First(c, 129, LAMBDA o :
                                  Try(DecodeIdentifier(o), LAMBDA d : << "domain", d >>))
      [] FirstTag(c) = 130 -> First(c, 130, LAMBDA o : << "aa" >>)
      [] OTHER -> Err

NameListRequestInner(c) ==
    LET class == Field(c, 160, LAMBDA v : First(v, 128, DecodeObjectClass))
        scope == Field(c, 161, DecodeObjectScope)
        after == Field(c, 130, LAMBDA o :
                     IF DecodeText(o) \in LongAfter THEN Err ELSE DecodeText(o))
    IN  IF Overrun(c) THEN Err
        ELSE IF Bad(class) \/ Bad(scope) \/ Failed(after) THEN Err
        ELSE [class |-> class, scope |-> scope, after |-> after]

DecodeNameListRequest(s) == First(s, 161, NameListRequestInner)

\* moreFollows defaults to TRUE and is only sent when FALSE.
EncodeNameListResponse(m) ==
    T(161, T(160, Each(m.names, LAMBDA n : T(26, Text(n))))
           \o (IF m.more THEN << >> ELSE T(129, << 0 >>)))

\* Mutant: an element that overruns the list ends it.
DecodeListUpToCut(c) ==
    All(SelectSeq(c, LAMBDA x : x.t = 26 /\ x.c # Cut), LAMBDA x : DecodeText(x.c))

\* What is not an identifier is skipped, even when it overruns the list.
DecodeListOfIdentifiers(c) ==
    All(SelectSeq(c, LAMBDA x : x.t = 26),
        LAMBDA x : IF x.c = Cut THEN Err ELSE DecodeText(x.c))

NameListResponseInner(c) ==
    LET names == Field(c, 160, DecodeListOfIdentifiers)
        more  == Field(c, 129, DecodeFlag)
    IN  IF Overrun(c) THEN Err
        ELSE IF Bad(names) \/ Failed(more) THEN Err
        ELSE [names |-> names, more |-> Default(more, TRUE)]

DecodeNameListResponse(s) == First(s, 161, NameListResponseInner)

-----------------------------------------------------------------------------
(* GetVariableAccessAttributes: an object name; [deletable, type].           *)

EncodeVarAttrsRequest(n) == T(166, T(160, EncodeObjectName(n)))

VarAttrsRequestInner(c) == First(c, 160, DecodeObjectName)

DecodeVarAttrsRequest(s) == First(s, 166, VarAttrsRequestInner)

EncodeVarAttrsResponse(m) ==
    Try(EncodeTypeSpec(m.type), LAMBDA e : T(166, T(128, Flag(m.deletable)) \o T(162, e)))

VarAttrsResponseInner(c, max) ==
    LET deletable == Field(c, 128, DecodeFlag)
        type      == Field(c, 162, LAMBDA v : DecodeTypeSpec(v, 0, max))
    IN  IF Overrun(c) THEN Err
        ELSE IF Bad(deletable) \/ Bad(type) THEN Err
        ELSE [deletable |-> deletable, type |-> type]

DecodeVarAttrsResponse(s, negotiated) ==
    First(s, 166, LAMBDA c : VarAttrsResponseInner(c, EffectiveCap(negotiated)))

-----------------------------------------------------------------------------
(* Named variable lists: defining, deleting, and their attributes.           *)

EncodeDefineRequest(m) ==
    IF Len(m.list) > MaxItems THEN Err
    ELSE T(171, EncodeObjectName(m.name) \o T(160, Each(m.list, EncodeListOfVariableSeq)))

\* Every member is domain-specific.
DecodeMemberList(c) ==
    Try(DecodeListOfVariable(c, MaxDepth), LAMBDA l :
        IF \A i \in DOMAIN l : l[i].name[1] = "domain" THEN l ELSE Err)

DefineRequestInner(c) ==
    Try2(DecodeObjectName(c), First(Rest(c), 160, DecodeMemberList),
         LAMBDA n, l : IF Len(l) > MaxItems THEN Err ELSE [name |-> n, list |-> l])

DecodeDefineRequest(s) == First(s, 171, DefineRequestInner)

EncodeDefineResponse(m) == T(139, << >>)

\* Only the tag is looked at.
DecodeDefineResponse(s) == IF FirstTag(s) \in {139, 171} THEN "defined" ELSE Err

EncodeDeleteRequest(m) ==
    T(173, T(128, << m.scope >>)
           \o (IF m.names = << >> THEN << >> ELSE T(161, Each(m.names, EncodeObjectName)))
           \o Opt(m.domain, LAMBDA d : T(130, Text(d))))

DecodeDeleteScope(o) == IF o = << >> \/ o[1] > 3 THEN Err ELSE o[1]

DeleteRequestInner(c) ==
    LET scope  == Field(c, 128, DecodeDeleteScope)
        names  == Field(c, 161, LAMBDA v : All(v, LAMBDA x : DecodeObjectName(<< x >>)))
        domain == Field(c, 130, DecodeText)
    IN  IF Overrun(c) THEN Err
        ELSE IF Failed(scope) \/ Failed(names) \/ Failed(domain) THEN Err
        ELSE [scope |-> Default(scope, 0), names |-> Default(names, << >>), domain |-> domain]

DecodeDeleteRequest(s) == First(s, 173, DeleteRequestInner)

EncodeDeleteResponse(m) ==
    T(173, T(128, EncodeUnsigned(m.matched)) \o T(129, EncodeUnsigned(m.deleted)))

DecodeDeleteCount(o) == IF Len(o) \notin 1 .. 4 THEN Err ELSE Value(o)

DecodeDeleteResponse(s) ==
    LET inner(c) ==
            LET matched == Field(c, 128, DecodeDeleteCount)
                deleted == Field(c, 129, DecodeDeleteCount)
            IN  IF Overrun(c) THEN Err
                ELSE IF Failed(matched) \/ Failed(deleted) THEN Err
                ELSE [matched |-> Default(matched, 0), deleted |-> Default(deleted, 0)]
    IN  First(s, 173, inner)

EncodeNvlAttrsRequest(n) == T(172, EncodeObjectName(n))

DecodeNvlAttrsRequest(s) ==
    First(s, 172, LAMBDA c : IF Len(c) # 1 THEN Err ELSE DecodeObjectName(c))

EncodeNvlAttrsResponse(m) ==
    T(172, T(128, Flag(m.deletable)) \o T(161, Each(m.list, EncodeListOfVariableSeq)))

NvlAttrsResponseInner(c) ==
    LET deletable == Field(c, 128, DecodeFlag)
        list      == Field(c, 161, LAMBDA v : DecodeListOfVariable(v, MaxDepth))
    IN  IF Overrun(c) THEN Err
        ELSE IF Bad(deletable) \/ Bad(list) THEN Err
        ELSE [deletable |-> deletable, list |-> list]

DecodeNvlAttrsResponse(s) == First(s, 172, NvlAttrsResponseInner)

-----------------------------------------------------------------------------
(* Identify and status.                                                      *)

EncodeIdentifyRequest(m) == T(130, << >>)

DecodeIdentifyRequest(s) ==
    IF FirstTag(s) = 130 /\ s[1].c = << >> THEN "identify" ELSE Err

\* Syntaxes that are no object identifier are left out.
EncodeIdentifyResponse(m) ==
    LET oid(arcs) == IF ValidArcs(arcs) THEN T(6, EncodeOid(arcs)) ELSE << >>
    IN  T(162, T(128, Text(m.vendor)) \o T(129, Text(m.model)) \o T(130, Text(m.revision))
               \o (IF m.syntaxes = << >> THEN << >> ELSE T(163, Each(m.syntaxes, oid))))

DecodeAbstractSyntaxes(c) == All(c, LAMBDA x : First(<< x >>, 6, DecodeOid))

IdentifyResponseInner(c) ==
    LET vendor   == Field(c, 128, DecodeText)
        model    == Field(c, 129, DecodeText)
        revision == Field(c, 130, DecodeText)
        syntaxes == Field(c, 163, DecodeAbstractSyntaxes)
    IN  IF Overrun(c) THEN Err
        ELSE IF Bad(vendor) \/ Bad(model) \/ Bad(revision) \/ Failed(syntaxes) THEN Err
        ELSE [vendor |-> vendor, model |-> model, revision |-> revision,
              syntaxes |-> Default(syntaxes, << >>)]

DecodeIdentifyResponse(s) == First(s, 162, IdentifyResponseInner)

EncodeStatusRequest(extended) == T(128, Flag(extended))

DecodeStatusRequest(s) ==
    First(s, 128, LAMBDA o : IF Len(o) # 1 THEN Err ELSE o[1] # 0)

\* The first bit of a bit string is the top bit of its first octet.
PackBits(bits) ==
    LET n == (Len(bits) + OctetBits - 1) \div OctetBits
        bit(i) == IF i <= Len(bits) /\ bits[i] THEN 1 ELSE 0
        octet(k) == FoldLeft(LAMBDA v, j : 2 * v + bit((k - 1) * OctetBits + j), 0,
                             [j \in 1 .. OctetBits |-> j])
    IN  << (OctetBits - (Len(bits) % OctetBits)) % OctetBits >> \o [k \in 1 .. n |-> octet(k)]

UnpackBits(padding, octets) ==
    [i \in 1 .. Len(octets) * OctetBits - padding |->
        (octets[(i - 1) \div OctetBits + 1] \div 2 ^ (OctetBits - 1 - ((i - 1) % OctetBits))) % 2 = 1]

\* Too many detail bits are cut off on the way out and refused on the way in.
EncodeStatusResponse(m) ==
    LET first(bits) == SubSeq(bits, 1, Min({MaxDetailBits, Len(bits)}))
    IN  T(160, T(128, EncodeSigned(m.logical)) \o T(129, EncodeSigned(m.physical))
               \o Opt(m.detail, LAMBDA bits : T(130, PackBits(first(bits)))))

DecodeLocalDetail(o) ==
    Try(DecodeBitString("bits", o), LAMBDA b :
        LET bits == UnpackBits(b[2], b[3]) IN IF Len(bits) > MaxDetailBits THEN Err ELSE bits)

StatusResponseInner(c) ==
    LET logical  == Field(c, 128, DecodeSigned)
        physical == Field(c, 129, DecodeSigned)
        detail   == Field(c, 130, DecodeLocalDetail)
    IN  IF Overrun(c) THEN Err
        ELSE IF Bad(logical) \/ Bad(physical) \/ Failed(detail) THEN Err
        ELSE [logical |-> logical, physical |-> physical, detail |-> detail]

DecodeStatusResponse(s) == First(s, 160, StatusResponseInner)

-----------------------------------------------------------------------------
(* ReadJournal.                                                              *)

MaxTime == Epoch1984 + (U16 - 1) * DayMs + (DayMs - 1)

\* binary_time.rs: milliseconds of the day and days since 1984, saturating.
BinaryTime(ms) ==
    LET since == (IF ms < Epoch1984 THEN Epoch1984 ELSE IF ms > MaxTime THEN MaxTime ELSE ms)
                 - Epoch1984
    IN  BigEndian(since % DayMs, 4) \o BigEndian(since \div DayMs, 2)

DecodeBinaryTime(o) ==
    IF Len(o) # 6 THEN Err
    ELSE Epoch1984 + Value(SubSeq(o, 5, 6)) * DayMs + Value(SubSeq(o, 1, 4))

DecodeEntryId(o) == IF Len(o) # 8 THEN Err ELSE o

\* A number of entries is an Integer32: u32 values beyond it saturate.
EncodeRange(tag, r) ==
    T(tag, CASE r[1] = "time"  -> T(128, BinaryTime(r[2]))
             [] r[1] = "entry" -> T(129, r[2])
             [] r[1] = "count" -> T(129, EncodeSigned(IF r[2] >= U32 \div 2 THEN U32 \div 2 - 1
                                                      ELSE r[2])))

\* The length of the pair counts one octet for the length of each name, so the
\* second one overruns it when either is longer than that.
EncodeJournalName(domain, item) ==
    T(161, T(26, Text(domain)) \o T(26, IF {domain, item} \intersect LongAfter = {} THEN Text(item) ELSE Cut))

EncodeJournalRequest(m) ==
    T(191, T(160, EncodeJournalName(m.domain, m.item))
           \o Opt(m.start, LAMBDA r : EncodeRange(161, r))
           \o Opt(m.stop, LAMBDA r : EncodeRange(162, r))
           \o (IF m.variables = << >> THEN << >>
               ELSE T(164, Each(m.variables, LAMBDA v : T(26, Text(v)))))
           \o Opt(m.after, LAMBDA a : T(165, T(128, BinaryTime(a.time)) \o T(129, a.entry))))

DecodeJournalName(c) ==
    First(c, 161, LAMBDA v :
        Try2(First(v, 26, DecodeText), First(Rest(v), 26, DecodeText), LAMBDA d, i : << d, i >>))

RangeTime(c) == First(c, 128, LAMBDA o : Try(DecodeBinaryTime(o), LAMBDA t : << "time", t >>))

DecodeRangeStart(c) ==
    IF FirstTag(c) = 128 THEN RangeTime(c)
    ELSE First(c, 129, LAMBDA o : Try(DecodeEntryId(o), LAMBDA i : << "entry", i >>))

DecodeRangeStop(c) ==
    IF FirstTag(c) = 128 THEN RangeTime(c)
    ELSE First(c, 129, LAMBDA o :
             Try(DecodeSigned(o), LAMBDA n : IF n \in 0 .. U32 - 1 THEN << "count", n >> ELSE Err))

DecodeListOfVariables(c) == All(c, LAMBDA x : First(<< x >>, 26, DecodeText))

DecodeStartAfter(c) ==
    LET time  == Field(c, 128, DecodeBinaryTime)
        entry == Field(c, 129, DecodeEntryId)
    IN  IF Overrun(c) THEN Err
        ELSE IF Bad(time) \/ Bad(entry) THEN Err
        ELSE [time |-> time, entry |-> entry]

JournalRequestInner(c) ==
    LET name  == Field(c, 160, DecodeJournalName)
        start == Field(c, 161, DecodeRangeStart)
        stop  == Field(c, 162, DecodeRangeStop)
        vars  == Field(c, 164, DecodeListOfVariables)
        after == Field(c, 165, DecodeStartAfter)
    IN  IF Overrun(c) THEN Err
        ELSE IF Bad(name) \/ Failed(start) \/ Failed(stop) \/ Failed(vars) \/ Failed(after) THEN Err
        ELSE [domain |-> name[1], item |-> name[2], start |-> start, stop |-> stop,
              variables |-> Default(vars, << >>), after |-> after]

DecodeJournalRequest(s) == First(s, 191, JournalRequestInner)

\* A reason is sent with its lowest bit first and without its top bit.
ReverseBits(v) ==
    FoldLeft(LAMBDA r, i : 2 * r + ((v \div 2 ^ (i - 1)) % 2), 0, [i \in 1 .. OctetBits |-> i])

ReasonToWire(reason) == LET r == ReverseBits(reason) IN r - (r % 2)

ReasonFromWire(octet) == ReverseBits(octet)

EncodeJournalVariable(name, data) == T(48, T(128, Text(name)) \o T(161, EncodeData(data)))

\* Every value is followed by the variable that carries its reason.
EncodeJournalVariables(vars) ==
    T(161, Each(vars, LAMBDA v :
               EncodeJournalVariable(v.ref, v.value)
               \o EncodeJournalVariable(ReasonCode,
                                        << "bits", 1, << ReasonToWire(v.reason) >> >>)))

EncodeJournalEntry(e) ==
    T(48, T(128, e.id) \o T(161, << >>)
          \o T(162, T(128, BinaryTime(e.time)) \o T(162, EncodeJournalVariables(e.variables))))

EncodeJournalResponse(m) ==
    T(191, T(160, Each(m.entries, EncodeJournalEntry))
           \o Opt(m.more, LAMBDA b : T(129, Flag(b))))

DecodeRawVariable(x) ==
    First(<< x >>, 48, LAMBDA c :
        LET name  == Field(c, 128, DecodeText)
            value == Field(c, 161, LAMBDA v : IF v = << >> THEN Err ELSE DecodeData(v[1], 0, MaxDepth))
        IN  IF Overrun(c) THEN Err
            ELSE IF Bad(name) \/ Bad(value) THEN Err
            ELSE IF name # ReasonCode THEN [ref |-> name, value |-> value]
            ELSE IF value[1] # "bits" THEN Err
            ELSE [ref |-> name,
                  value |-> << "reason", IF value[3] = << >> THEN 0 ELSE ReasonFromWire(value[3][1]) >>])

\* A reason belongs to the value right before it; one without a value is
\* refused, a value without one has reason 0.
DecodeJournalVariables(c) ==
    LET isReason(raw, i) == i \in DOMAIN raw /\ raw[i].value[1] = "reason"
        pairs(raw) ==
            IF \E i \in DOMAIN raw : isReason(raw, i) /\ (i = 1 \/ isReason(raw, i - 1)) THEN Err
            ELSE FoldLeft(LAMBDA out, i :
                              IF isReason(raw, i) THEN out
                              ELSE Append(out, [ref |-> raw[i].ref, value |-> raw[i].value,
                                                reason |-> IF isReason(raw, i + 1)
                                                           THEN raw[i + 1].value[2] ELSE 0]),
                          << >>, [i \in DOMAIN raw |-> i])
    IN  First(c, 161, LAMBDA v : Try(All(v, DecodeRawVariable), pairs))

EntryContent(time, vars) ==
    IF Bad(time) \/ Failed(vars) THEN Err
    ELSE [time |-> time, variables |-> Default(vars, << >>)]

DecodeEntryContent(c) ==
    IF Overrun(c) THEN Err
    ELSE EntryContent(Field(c, 128, DecodeBinaryTime), Field(c, 162, DecodeJournalVariables))

JournalEntry(id, content) ==
    IF Bad(id) \/ Bad(content) THEN Err
    ELSE [id |-> id, time |-> content.time, variables |-> content.variables]

DecodeJournalEntry(x) ==
    LET c == Contents(<< x >>, 48)
    IN  IF Failed(c) THEN Err
        ELSE IF Overrun(c) THEN Err
        ELSE JournalEntry(Field(c, 128, DecodeEntryId), Field(c, 162, DecodeEntryContent))

JournalPage(entries, more) ==
    IF Failed(entries) \/ Failed(more) THEN Err
    ELSE [entries |-> Default(entries, << >>), more |-> more]

DecodeJournalEntries(c) == All(c, DecodeJournalEntry)

JournalResponseInner(c) ==
    IF Overrun(c) THEN Err
    ELSE JournalPage(Field(c, 160, DecodeJournalEntries), Field(c, 129, DecodeFlag))

DecodeJournalResponse(s) == First(s, 191, JournalResponseInner)

-----------------------------------------------------------------------------
(* Information reports and command terminations.                             *)

\* One name and one value for each variable.
EncodeInformationReport(vars) ==
    T(163, T(160, T(160, Each(vars, LAMBDA v : T(48, T(160, EncodeObjectName(v.name)))))
                  \o T(160, Each(vars, LAMBDA v : EncodeData(v.value)))))

DecodeReportAccess(c) ==
    CASE FirstTag(c) = 161 ->
             First(c, 161, LAMBDA v : Try(DecodeObjectName(v), LAMBDA n : << "name", n >>))
      [] FirstTag(c) = 160 ->
             First(c, 160, LAMBDA v :
                 Try(All(v, LAMBDA x : First(<< x >>, 48, LAMBDA e : First(e, 160, DecodeObjectName))),
                     LAMBDA names : << "list", names >>))
      [] OTHER -> Err

DecodeInformationReport(c) ==
    First(c, 160, LAMBDA v :
        Try2(DecodeReportAccess(v),
             First(Rest(v), 160, LAMBDA l : DecodeListOfData(l, MaxDepth)),
             LAMBDA access, values : [access |-> access, values |-> values]))

LastApplErrorData(e) ==
    << "struct", << << "visible", e.ctlObj >>, << "int", e.error >>,
                    << "struct", << << "int", e.orCat >>, << "octets", e.orIdent >> >> >>,
                    << "uint", e.ctlNum >>, << "int", e.addCause >> >> >>

EncodeTerminationPositive(domain, item, oper) ==
    EncodeInformationReport(<< [name |-> << "domain", domain, item >>, value |-> oper] >>)

EncodeTerminationNegative(e, domain, item, oper) ==
    EncodeInformationReport(<< [name |-> << "vmd", LastApplErr >>, value |-> LastApplErrorData(e)],
                               [name |-> << "domain", domain, item >>, value |-> oper] >>)

-----------------------------------------------------------------------------
(* The outermost choice.                                                     *)

PduKinds == [t \in {160, 161, 162, 163} |->
                CASE t = 160 -> "request" [] t = 161 -> "response"
                  [] t = 162 -> "error"   [] t = 163 -> "unconfirmed"]

\* extract_inner_bytes(): the content is decoded later.
ExtractInner(s) == First(s, s[1].t, LAMBDA c : << PduKinds[s[1].t], c >>)

\* Of a conclude only the tag is looked at.
DecodeMmsPdu(s) ==
    LET t == FirstTag(s)
        as(kind, v) == Try(v, LAMBDA m : << kind, m >>)
    IN  CASE t \in DOMAIN PduKinds -> ExtractInner(s)
          [] t = 164 -> as("reject", DecodeReject(s))
          [] t = 168 -> as("initiateRequest", DecodeInitiateRequest(s))
          [] t = 169 -> as("initiateResponse", DecodeInitiateResponse(s))
          [] t = 170 -> as("initiateError", DecodeInitiateError(s))
          [] t = 139 -> << "concludeRequest" >>
          [] t = 140 -> << "concludeResponse" >>
          [] OTHER -> Err

EncodeMmsPdu(m) ==
    CASE m[1] \in Range(PduKinds) -> T(TagOfKind(PduKinds, m[1]), m[2])
      [] m[1] = "reject" -> EncodeReject(m[2])
      [] m[1] = "initiateRequest" -> EncodeInitiateRequest(m[2])
      [] m[1] = "initiateResponse" -> EncodeInitiateResponse(m[2])
      [] m[1] = "initiateError" -> EncodeInitiateError(m[2])
      [] m[1] = "concludeRequest" -> EncodeConclude(139)
      [] m[1] = "concludeResponse" -> EncodeConclude(140)
=============================================================================
