-------------------------------- MODULE Wire --------------------------------
(***************************************************************************)
(* A message on its way from an encoder to a decoder.  The peer may be      *)
(* another implementation: it may send elements this one does not know,     *)
(* leave elements out, or send texts that are not UTF-8, and a stream may   *)
(* end in the middle of an element.                                         *)
(*                                                                         *)
(* A message is [kind, id, cap, body]: the service, the invoke ID, the      *)
(* nesting level the association negotiated, and the service's parameters.  *)
(***************************************************************************)
EXTENDS IsoStack, ProcessBusPdu

CONSTANTS Messages,     \* the messages that are sent
          UnknownTags,  \* tags no definition of the protocol uses
          Texts         \* the texts of the messages

VARIABLES msg,    \* the message
          wire,   \* the stream
          change, \* what the peer did differently: << kind of change, place >>
          got     \* what the decoder made of it

wireVars == << msg, wire, change, got >>

-----------------------------------------------------------------------------
(* One encoder and one decoder per kind of message.                          *)

\* Both ends of the set-up: what the server decided, what its authenticator
\* saw, and what a client of this implementation makes of the answer.
SetUpBy(b, s, r) ==
    IF Failed(r) THEN Err
    ELSE [verdict |-> r.verdict, params |-> r.params,
          sees    |-> IF r.verdict = "presentationRejected" THEN None ELSE AuthenticatorSees(s),
          client  |-> IF b.contexts = OwnContexts THEN HandshakeResult(b.client, r.answer) ELSE None]
SetUp(b, s) == SetUpBy(b, s, EstablishAssociation(b.server, s))

EncodeMessage(m) ==
    LET request(s)  == Try(s, LAMBDA e : EncodeConfirmed(Request, m.id, e))
        response(s) == Try(s, LAMBDA e : EncodeConfirmed(Response, m.id, e))
    IN  CASE m.kind = "readRequest"       -> request(EncodeReadRequest(m.body))
          [] m.kind = "readResponse"      -> response(EncodeReadResponse(m.body))
          [] m.kind = "writeRequest"      -> request(EncodeWriteRequest(m.body))
          [] m.kind = "writeResponse"     -> response(EncodeWriteResponse(m.body))
          [] m.kind = "nameListRequest"   -> request(EncodeNameListRequest(m.body))
          [] m.kind = "nameListResponse"  -> response(EncodeNameListResponse(m.body))
          [] m.kind = "varAttrsRequest"   -> request(EncodeVarAttrsRequest(m.body))
          [] m.kind = "varAttrsResponse"  -> response(EncodeVarAttrsResponse(m.body))
          [] m.kind = "nvlAttrsRequest"   -> request(EncodeNvlAttrsRequest(m.body))
          [] m.kind = "nvlAttrsResponse"  -> response(EncodeNvlAttrsResponse(m.body))
          [] m.kind = "defineRequest"     -> request(EncodeDefineRequest(m.body))
          [] m.kind = "defineResponse"    -> response(EncodeDefineResponse(m.body))
          [] m.kind = "deleteRequest"     -> request(EncodeDeleteRequest(m.body))
          [] m.kind = "deleteResponse"    -> response(EncodeDeleteResponse(m.body))
          [] m.kind = "identifyRequest"   -> request(EncodeIdentifyRequest(m.body))
          [] m.kind = "identifyResponse"  -> response(EncodeIdentifyResponse(m.body))
          [] m.kind = "statusRequest"     -> request(EncodeStatusRequest(m.body))
          [] m.kind = "statusResponse"    -> response(EncodeStatusResponse(m.body))
          [] m.kind = "journalRequest"    -> request(EncodeJournalRequest(m.body))
          [] m.kind = "journalResponse"   -> response(EncodeJournalResponse(m.body))
          [] m.kind = "error"             -> EncodeConfirmedError(m.id, m.body)
          [] m.kind = "report"            -> EncodeInformationReport(m.body)
          [] m.kind = "termination+"      -> EncodeTerminationPositive(m.body.domain, m.body.item,
                                                                       m.body.oper)
          [] m.kind = "termination-"      -> EncodeTerminationNegative(m.body.error, m.body.domain,
                                                                       m.body.item, m.body.oper)
          [] m.kind = "pdu"               -> EncodeMmsPdu(m.body)
          [] m.kind = "tsdu"              -> EncodeTsdu(m.body)
          [] m.kind = "goose"             -> EncodeGoosePdu(m.body)
          [] m.kind = "sv"                -> EncodeSavPdu(m.body)
          [] m.kind = "connect"           -> ConnectRequest(m.body.client, m.body.contexts)
          [] m.kind = "answer"            -> EstablishAssociation(m.body.server,
                                                 BuildConnectRequest(m.body.client)).answer

DecodeRequest(m, s) ==
    LET part == ServicePart(s) IN
    CASE m.kind = "readRequest"      -> ConfirmedRead(s, Request, DecodeReadRequest(part, m.cap))
      [] m.kind = "writeRequest"     -> ConfirmedWrite(s, Request, DecodeWriteRequest(part, m.cap))
      [] m.kind = "nameListRequest"  -> ConfirmedNameList(s, Request, DecodeNameListRequest(part))
      [] m.kind = "varAttrsRequest"  -> ConfirmedVarAttrs(s, Request, DecodeVarAttrsRequest(part))
      [] m.kind = "nvlAttrsRequest"  -> ConfirmedNvlAttrs(s, Request, DecodeNvlAttrsRequest(part))
      [] m.kind = "defineRequest"    -> ConfirmedDefine(s, Request, DecodeDefineRequest(part))
      [] m.kind = "deleteRequest"    -> ConfirmedDelete(s, Request, DecodeDeleteRequest(part))
      [] m.kind = "identifyRequest"  -> ConfirmedIdentify(s, Request, DecodeIdentifyRequest(part))
      [] m.kind = "statusRequest"    -> ConfirmedStatus(s, Request, DecodeStatusRequest(part))
      [] m.kind = "journalRequest"   -> ConfirmedJournal(s, Request, DecodeJournalRequest(part))

DecodeResponse(m, s) ==
    LET part == ServicePart(s) IN
    CASE m.kind = "readResponse"     -> ConfirmedRead(s, Response, DecodeReadResponse(part))
      [] m.kind = "writeResponse"    -> ConfirmedWrite(s, Response,
                                            DecodeWithExpectedCount(part, Len(m.body)))
      [] m.kind = "nameListResponse" -> ConfirmedNameList(s, Response, DecodeNameListResponse(part))
      [] m.kind = "varAttrsResponse" -> ConfirmedVarAttrs(s, Response,
                                            DecodeVarAttrsResponse(part, m.cap))
      [] m.kind = "nvlAttrsResponse" -> ConfirmedNvlAttrs(s, Response, DecodeNvlAttrsResponse(part))
      [] m.kind = "defineResponse"   -> ConfirmedDefine(s, Response, DecodeDefineResponse(part))
      [] m.kind = "deleteResponse"   -> ConfirmedDelete(s, Response, DecodeDeleteResponse(part))
      [] m.kind = "identifyResponse" -> ConfirmedIdentify(s, Response, DecodeIdentifyResponse(part))
      [] m.kind = "statusResponse"   -> ConfirmedStatus(s, Response, DecodeStatusResponse(part))
      [] m.kind = "journalResponse"  -> ConfirmedJournal(s, Response, DecodeJournalResponse(part))

DecodeOther(m, s) ==
    CASE m.kind = "error"            -> DecodeConfirmedError(s)
      [] m.kind \in {"report", "termination+", "termination-"} ->
             Try(DecodeMmsPdu(s), LAMBDA p : DecodeInformationReport(p[2]))
      [] m.kind = "pdu"              -> DecodeMmsPdu(s)
      [] m.kind = "tsdu"             -> DecodeTsdu(s)
      [] m.kind = "goose"            -> DecodeGoosePdu(s)
      [] m.kind = "sv"               -> DecodeSavPdu(s)
      [] m.kind = "connect"          -> SetUp(m.body, s)
      [] m.kind = "answer"           -> HandshakeResult(m.body.client, s)

-----------------------------------------------------------------------------
(* Places in a stream, as paths of positions.                                *)

\* The SPDUs and their parameters that hold elements, and the selectors.
SessionContainers == {5, 9, 10, 12, 13, 14, 25, 193, 194}
SessionSelectors == {51, 52}

Container(t) ==
    \/ Constructed(t) /\ t \notin SessionSelectors
    \/ msg.kind \in {"tsdu", "connect", "answer"} /\ t \in SessionContainers

RECURSIVE Places(_)

Places(s) ==
    UNION {{<< i >>} \union
           (IF Container(s[i].t) THEN {<< i >> \o p : p \in Places(s[i].c)} ELSE {})
           : i \in DOMAIN s}

RECURSIVE At(_, _)

At(s, p) == IF Len(p) = 1 THEN s[p[1]] ELSE At(s[p[1]].c, Tail(p))

RECURSIVE Edit(_, _, _)

\* The stream with new in place of the elements around place p.
Edit(s, p, new) ==
    IF Len(p) = 1 THEN new ELSE [s EXCEPT ![p[1]].c = Edit(@, Tail(p), new)]

\* The elements of the container that place p is in.
Siblings(p) == IF Len(p) = 1 THEN wire ELSE At(wire, Front(p)).c

\* Every place inside the PDU, but that of the reason of a refusal, which is
\* no element.
Inner == {p \in Places(wire) : Len(p) > 1 /\ ~(At(wire, Front(p)).t = 50 /\ Last(p) = 1)}

-----------------------------------------------------------------------------

WireInit ==
    /\ msg \in {m \in Messages : EncodeMessage(m) # Err}
    /\ wire = EncodeMessage(msg)
    /\ change = None
    /\ got = None

Change(what, p, new) ==
    /\ change' = << what, p >>
    /\ wire' = Edit(wire, p, new)
    /\ UNCHANGED << msg, got >>

\* An element this implementation does not know, before the one at p ...
Insert(p, t) == Change("insert", p, InsertAt(Siblings(p), Last(p), T(t, << >>)[1]))

\* ... or at the end of the container.
Extend(p, t) ==
    /\ Last(p) = Len(Siblings(p))
    /\ Change("extend", p, Siblings(p) \o T(t, << >>))

\* The container ends in the middle of the element at p.
Truncate(p) ==
    /\ At(wire, p).c # << >>
    /\ Change("truncate", p, [SubSeq(Siblings(p), 1, Last(p)) EXCEPT ![Last(p)].c = Cut])

Drop(p) == Change("drop", p, RemoveAt(Siblings(p), Last(p)))

Garble(p) ==
    /\ ~Container(At(wire, p).t)
    /\ At(wire, p).c \notin {<< >>, Cut} /\ At(wire, p).c[1] \in Texts
    /\ Change("garble", p, [Siblings(p) EXCEPT ![Last(p)].c = << BadUtf8 >>])

Requests == {"readRequest", "writeRequest", "nameListRequest", "varAttrsRequest", "nvlAttrsRequest",
             "defineRequest", "deleteRequest", "identifyRequest", "statusRequest", "journalRequest"}
Responses == {"readResponse", "writeResponse", "nameListResponse", "varAttrsResponse", "nvlAttrsResponse",
              "defineResponse", "deleteResponse", "identifyResponse", "statusResponse", "journalResponse"}

Decoded(value) == got' = value /\ UNCHANGED << msg, wire, change >>
ReceiveRequest == got = None /\ msg.kind \in Requests /\ Decoded(DecodeRequest(msg, wire))
ReceiveResponse == got = None /\ msg.kind \in Responses /\ Decoded(DecodeResponse(msg, wire))
ReceiveOther ==
    got = None /\ msg.kind \notin Requests \union Responses /\ Decoded(DecodeOther(msg, wire))

\* One change at most, before the message is received.
ChangeOnce ==
    /\ change = None /\ got = None
    /\ \/ \E p \in Inner, t \in UnknownTags : Insert(p, t) \/ Extend(p, t)
       \/ \E p \in Inner : Truncate(p) \/ Drop(p) \/ Garble(p)

WireNext ==
    \/ ChangeOnce
    \/ ReceiveRequest
    \/ ReceiveResponse
    \/ ReceiveOther

WireSpec == WireInit /\ [][WireNext]_wireVars

-----------------------------------------------------------------------------
(* What must come out.                                                       *)

ReportOf(names, values) == [access |-> << "list", names >>, values |-> values]

\* The set-up as the limits and the decision of the two sides imply it.  An
\* authentication without mechanism and value is none.
ExpectedSetUp(b) ==
    LET offer    == Default(b.client.size, MaxPduSize)
        refused  == b.server.decision # None /\ b.server.decision[1] = "reject"
        verdict  == IF ~b.usable THEN "presentationRejected"
                    ELSE IF refused THEN "authenticationRefused"
                    ELSE IF offer < MinPduSize THEN "initiateRejected"
                    ELSE "established"
        limits   == [size |-> Lesser(offer, MaxPduSize),
                     calling |-> Lesser(ProposedMaxCalling(b.client), MaxOutstanding),
                     called |-> MaxOutstanding]
        client   == CASE verdict = "established" -> << "connected", limits >>
                      [] verdict = "authenticationRefused" /\ b.server.decision[2] \in AuthenticationRefusals ->
                             << "authenticationRejected", b.server.decision[2] >>
                      [] verdict = "presentationRejected" -> << "sessionRefused", 2, 1, 0 >>
                      [] OTHER -> << "sessionRefused", 2, 1, None >>
        auth     == IF b.client.auth \in {<< "certificate" >>, << "other", << >>, << >> >>}
                    THEN << "none" >> ELSE b.client.auth
    IN  [verdict |-> verdict,
         params  |-> IF verdict = "established" THEN limits @@ [level |-> DefaultLevel] ELSE None,
         sees    |-> IF verdict = "presentationRejected" THEN None
                     ELSE [addressing |-> b.client.addressing, auth |-> auth],
         client  |-> IF b.contexts = OwnContexts THEN client ELSE None]

\* What the width of its field leaves of a value: times outside 1984 .. MaxTime,
\* long status details and numbers of entries beyond 31 bits saturate; what is
\* no object identifier is left out; a reason keeps all bits but the top one and
\* a version number the lowest octet.
TimeSent(t) == Max({Epoch1984, Min({t, MaxTime})})
RangeSent(r) ==
    IF r # None /\ r[1] = "time" THEN << "time", TimeSent(r[2]) >>
    ELSE IF r # None /\ r[1] = "count" THEN << "count", Min({r[2], U32 \div 2 - 1}) >>
    ELSE r
EntrySent(e) ==
    [e EXCEPT !.time = TimeSent(@),
              !.variables = [i \in DOMAIN @ |-> [@[i] EXCEPT !.reason = @ % SignBit]]]
BodySent(m) ==
    CASE m.kind = "journalRequest" ->
             [m.body EXCEPT !.start = RangeSent(@), !.stop = RangeSent(@),
                            !.after = IF @ = None THEN None ELSE [@ EXCEPT !.time = TimeSent(@)]]
      [] m.kind = "journalResponse" ->
             [m.body EXCEPT !.entries = [i \in DOMAIN @ |-> EntrySent(@[i])]]
      [] m.kind = "statusResponse" ->
             [m.body EXCEPT !.detail = IF @ = None THEN None
                                       ELSE SubSeq(@, 1, Min({MaxDetailBits, Len(@)}))]
      [] m.kind = "identifyResponse" -> [m.body EXCEPT !.syntaxes = SelectSeq(@, ValidArcs)]
      [] m.kind = "pdu" /\ m.body[1] \in {"initiateRequest", "initiateResponse"} ->
             [m.body EXCEPT ![2].detail.version = @ % Base]
      [] OTHER -> m.body

\* The message as the receiver sees it.
Expected(m) ==
    CASE m.kind = "report" ->
             ReportOf([i \in DOMAIN m.body |-> m.body[i].name],
                      [i \in DOMAIN m.body |-> m.body[i].value])
      [] m.kind = "termination+" ->
             ReportOf(<< << "domain", m.body.domain, m.body.item >> >>, << m.body.oper >>)
      [] m.kind = "termination-" ->
             ReportOf(<< << "vmd", LastApplErr >>, << "domain", m.body.domain, m.body.item >> >>,
                      << LastApplErrorData(m.body.error), m.body.oper >>)
      [] m.kind \in {"pdu", "tsdu", "goose", "sv"} -> BodySent(m)
      [] m.kind = "connect" -> ExpectedSetUp(m.body)
      [] m.kind = "answer" -> ExpectedSetUp(m.body).client
      [] OTHER -> [id |-> m.id, body |-> BodySent(m)]

\* The nesting of a message stays within what the association negotiated.
Nesting(m) ==
    LET most(S) == IF S = {} THEN 0 ELSE Max(S)
        vas(v)  == IF v[1] = "name" THEN 0
                   ELSE most({NestingDepth(v[2][i].alt) : i \in {j \in DOMAIN v[2] : v[2][j].alt # None}})
        data(d) == most({DataDepth(d[i]) : i \in DOMAIN d})
    IN  CASE m.kind = "readRequest"  -> vas(m.body.vas)
          [] m.kind = "readResponse" ->
                 most({IF m.body.vas = None THEN 0 ELSE vas(m.body.vas),
                       data([i \in DOMAIN m.body.results |->
                                IF m.body.results[i][1] = "success" THEN m.body.results[i][2]
                                ELSE << "bool", TRUE >>])})
          [] m.kind = "varAttrsResponse" -> 1 + TypeDepth(m.body.type)
          [] m.kind = "writeRequest" -> most({vas(m.body.vas), data(m.body.data)})
          [] OTHER -> 0

\* What an encoder writes and its decoder refuses.  An invoke ID and a count of
\* deleted lists from 2^31 on take five octets, of which only the decoders of
\* Identify, GetStatus, ReadJournal and the errors take the zero octet off; a
\* bit string without bits is its padding octet, and a GOOSE decoder asks for two;
\* a long journal name does not fit the length counted for it.
ShortIdServices ==
    (Requests \union Responses) \ {"identifyRequest", "identifyResponse", "statusRequest", "statusResponse",
                                   "journalRequest", "journalResponse"}
Unreadable(m) ==
    \/ m.kind \in ShortIdServices /\ m.id >= U32 \div 2
    \/ m.kind = "deleteResponse" /\ \E n \in {m.body.matched, m.body.deleted} : n >= U32 \div 2
    \/ m.kind = "goose" /\ \E i \in DOMAIN m.body.data : m.body.data[i][1] = "bits" /\ m.body.data[i][3] = << >>
    \/ m.kind = "journalRequest" /\ {m.body.domain, m.body.item} \intersect LongAfter # {}

Accepted(m) == Nesting(m) <= EffectiveCap(m.cap) /\ ~Unreadable(m)

\* The sizes the services budget their answers with are the encoded sizes.
SizesExact ==
    CASE msg.kind = "readResponse" ->
             \A i \in DOMAIN msg.body.results :
                 msg.body.results[i][1] = "success" =>
                     EstimatedSize(msg.body.results[i][2]) = Size(EncodeData(msg.body.results[i][2]))
      [] msg.kind = "varAttrsResponse" -> TypeSpecSize(msg.body.type) = Size(EncodeTypeSpec(msg.body.type))
      [] msg.kind = "sv" -> \A i \in DOMAIN msg.body :
             AsduContentsSize(msg.body[i]) = Size(EncodeAsdu(msg.body[i])[1].c)
      [] msg.kind = "varAttrsRequest" -> ObjectNameSize(msg.body) = Size(EncodeObjectName(msg.body))
      [] OTHER -> TRUE

\* Every message within the negotiated nesting level that reaches its decoder
\* unchanged comes out as it was sent, but for what the width of a field cannot
\* carry (BodySent) and the values only the encoder takes (Unreadable, refused
\* and never misread), and its parts have the sizes the services budget with:
\* the encoders and the decoders of mms/pdu agree on tags, order and defaults.
\* A message nested more deeply is refused, and no sooner than that: the
\* recursion of the decoders is bounded (effective_nesting_cap(),
\* decode_with_negotiated_cap()).
RoundTrip ==
    got # None /\ change = None =>
        /\ SizesExact
        /\ got = IF Accepted(msg) THEN Expected(msg) ELSE Err

\* What an authenticator sees of a request with a damaged address or
\* authentication value: less, but nothing else.
SeesLess(sees, whole) ==
    /\ \A f \in DOMAIN whole.addressing : sees.addressing[f] \in {None, whole.addressing[f]}
    /\ \/ sees.auth = whole.auth
       \/ sees.auth[1] = "other" /\ whole.auth[1] \in {"other", "password"}

\* Parts of a message are informative: what does not decode in the
\* service-specific part of an error, in the addresses of a request, in the
\* details of a refusal and in a release or an abort is dropped.
Informative(m, g) ==
    LET e == Expected(m)
    IN  CASE m.kind = "error" -> g = [e EXCEPT !.body.deleted = None]
          [] m.kind = "pdu" /\ m.body[1] = "initiateError" -> g = [e EXCEPT ![2].deleted = None]
          [] m.kind = "tsdu" /\ m.body[1] \in {"abort", "finish", "disconnect"} -> g[1] = m.body[1]
          [] m.kind = "connect" /\ e.sees # None -> g = [e EXCEPT !.sees = g.sees] /\ SeesLess(g.sees, e.sees)
          [] m.kind = "answer" /\ e[1] = "connected" -> g = << "associateFailed" >>
          [] m.kind = "answer" -> g[1] = "sessionRefused" /\ g[2] = 2 /\ g[4] \in {None, 0}
          [] OTHER -> FALSE

\* A request whose Initiate does not decode is refused with an answer, every
\* other message without one.
Refused(g) ==
    IF msg.kind = "connect" /\ g # Err
    THEN g.verdict = "initiateRejected" /\ (g.client = None \/ g.client = << "sessionRefused", 2, 1, None >>)
    ELSE g = Err

\* An element that is not known never turns a message into another one: it is
\* skipped, or the message is refused.  A type that is not known is reported
\* as such, and cannot be sent on.
UnknownNeverMisread ==
    got # None /\ change # None /\ change[1] \in {"insert", "extend"} =>
        \/ Refused(got)
        \/ got = Expected(msg)
        \/ Informative(msg, got)
        \/ msg.kind = "varAttrsResponse" /\ EncodeVarAttrsResponse(got.body) = Err

\* The fields of a service are extensible: a new one at the end of the
\* service's own sequence is skipped.
ExtensibleServices ==
    {"readRequest", "readResponse", "nameListRequest", "nameListResponse", "varAttrsResponse",
     "nvlAttrsResponse", "deleteRequest", "deleteResponse", "identifyResponse", "statusResponse",
     "journalRequest", "journalResponse", "error"}

\* The PDUs of the process bus are one sequence of fields.
ExtensiblePlace(p) ==
    \/ Len(p) = 3 /\ p[2] = 2 /\ msg.kind \in ExtensibleServices
    \/ Len(p) = 2 /\ msg.kind \in {"goose", "sv"}

NewFieldsSkipped ==
    /\ got # None /\ change # None
    /\ change[1] = "extend" /\ ExtensiblePlace(change[2])
    /\ Accepted(msg)
    => got = Expected(msg)

\* What is not read: the application context name, the diagnostic of an
\* accepted association, the list of accepted contexts, and the payload of a
\* request or an answer once the association is refused.
Unread(p) ==
    LET verdict   == ExpectedSetUp(msg.body).verdict
        within(t) == {Len(p) - i : i \in {j \in 1 .. Len(p) - 1 : At(wire, SubSeq(p, 1, j)).t = t}}
    IN  /\ msg.kind \in {"connect", "answer"}
        /\ \/ \E t \in {161, 163, 165} : within(t) # {}
           \/ verdict # "established" /\ \E d \in within(40) : d >= 2
           \/ verdict = "presentationRejected" /\ \E d \in within(97) : d >= 3

\* A stream that ends inside an element the decoder reads is never taken for
\* a message, but for its informative parts.
TruncationDetected ==
    got # None /\ change # None /\ change[1] = "truncate" =>
        \/ Refused(got)
        \/ Informative(msg, got)
        \/ Unread(change[2]) /\ got = Expected(msg)

\* Texts that are not UTF-8 are refused wherever a text is expected.
GarbledRefused ==
    got # None /\ change # None /\ change[1] = "garble" => got = Err

\* No change on the way turns a message into another one: new fields are
\* skipped, and what is unknown, cut off or garbled is skipped where it is
\* informative and refused elsewhere (the decoders of mms/pdu, acse, goose, sv).
NeverMisread == UnknownNeverMisread /\ NewFieldsSkipped /\ TruncationDetected /\ GarbledRefused
=============================================================================
