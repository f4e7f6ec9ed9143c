------------------------------ MODULE IsoStack ------------------------------
(***************************************************************************)
(* The session layer (iec61850-mms/src/iso/session.rs).  An SPDU is a TLV   *)
(* whose parameters are TLVs; a length indicator takes one octet up to      *)
(* LI_SHORT_MAX and three beyond it.                                        *)
(***************************************************************************)
EXTENDS MmsServices, Bitwise

CONSTANTS SelectorMax,         \* SSELECTOR_MAX_SIZE, PSELECTOR_MAX_SIZE
          ConnectUserDataMax   \* CONNECT_USER_DATA_MAX

LiLongMax == Base ^ 2 - 1

LiSize(n) == IF n <= Base - 2 THEN 1 ELSE 3

Duplex == << 0, 2 >>

DefaultSelector == << 0, 1 >>

\* IsoSession::new().
NewSession == [options |-> 0, requirement |-> Duplex, calling |-> DefaultSelector,
               called |-> DefaultSelector]

\* Octets of a parameter with n octets of content, and of user data.
Parameter(n) == 1 + LiSize(n) + n

-----------------------------------------------------------------------------
(* Encoding.                                                                 *)

ConnectAcceptItem(options) == T(5, T(19, << options >>) \o T(22, << 2 >>))

\* An SPDU whose parameters take more octets than its length can say is not
\* sent.
Spdu(id, size, parameters) == IF size > LiLongMax THEN Err ELSE T(id, parameters)

SelectorOf(tag, sel) == T(tag, sel)

EncodeConnectSpdu(params, session, payload) ==
    LET n  == Size(payload)
        id == IF n > ConnectUserDataMax THEN 194 ELSE 193
    IN  Spdu(13, 16 + Len(params.calling) + Len(params.called) + Parameter(n),
             ConnectAcceptItem(session.options) \o T(20, session.requirement)
             \o SelectorOf(51, params.calling) \o SelectorOf(52, params.called) \o T(id, payload))

EncodeAcceptSpdu(session, payload) ==
    Spdu(14, 14 + Len(session.called) + Parameter(Size(payload)),
         ConnectAcceptItem(session.options) \o T(20, session.requirement)
         \o SelectorOf(52, session.called) \o T(193, payload))

\* Give Tokens and Data Transfer, both empty, and the user data.
DataHeader == T(1, << >>) \o T(1, << >>)

EncodeDataSpdu(payload) == DataHeader \o payload

UserDataSpdu(id, payload) == Spdu(id, Parameter(Size(payload)), T(193, payload))

EncodeFinishSpdu(payload) == UserDataSpdu(9, payload)

EncodeDisconnectSpdu(payload) == UserDataSpdu(10, payload)

EncodeAbortSpdu(payload) ==
    Spdu(25, 3 + Parameter(Size(payload)), T(17, << 11 >>) \o T(193, payload))

\* The reason code as an element of the stream.
ReasonOctet(reason) == T(reason, << >>)

\* Its length indicator is 0, so the parameters follow to the end of the
\* message; the group's own length is not what it holds, and is not used.
EncodeRefuse(reason) == T(12, << >>) \o T(1, T(17, << 1 >>) \o T(50, ReasonOctet(reason)))

\* The user data follows the reason inside its parameter.
EncodeRefuseWithUserData(payload) ==
    Spdu(12, 3 + Parameter(1 + Size(payload)),
         T(17, << 1 >>) \o T(50, ReasonOctet(2) \o payload))

-----------------------------------------------------------------------------
(* Decoding: << indication, parameters, user data >>.                        *)

\* The last parameter among those that carry user data.
UserData(s) ==
    LET at == Tagged(s, 193) \union Tagged(s, 194)
    IN  IF at = {} THEN << >> ELSE s[Max(at)].c

DecodeSelector(c) == IF Len(c) > SelectorMax THEN Err ELSE c

\* Version 2 is the only one.
DecodeConnectAcceptItem(c) ==
    LET given == {i \in Tagged(c, 19) : c[i].c # << >>}
    IN  IF Overrun(c) \/ \E i \in Tagged(c, 22) : c[i].c # << >> /\ c[i].c[1] # 2 THEN Err
        ELSE IF given = {} THEN 0 ELSE c[Max(given)].c[1]

\* Requirements of less than two octets are ignored.
HeaderParameters(c) ==
    LET options     == Field(c, 5, DecodeConnectAcceptItem)
        requirement == {i \in Tagged(c, 20) : Len(c[i].c) >= 2}
        calling     == Field(c, 51, DecodeSelector)
        called      == Field(c, 52, DecodeSelector)
    IN  IF Overrun(c) \/ Failed(options) \/ Failed(calling) \/ Failed(called) THEN Err
        ELSE [options     |-> Default(options, NewSession.options),
              requirement |-> IF requirement = {} THEN Duplex
                              ELSE SubSeq(c[Max(requirement)].c, 1, 2),
              calling     |-> Default(calling, DefaultSelector),
              called      |-> Default(called, DefaultSelector)]

\* The first user data counts, and what follows it is not looked at.
SimpleUserData(c) ==
    LET at  == Tagged(c, 193) \union Tagged(c, 194)
        upTo == IF at = {} THEN Len(c) ELSE Min(at)
    IN  IF Overrun(SubSeq(c, 1, upTo)) THEN Err
        ELSE IF at = {} THEN << >> ELSE c[upTo].c

\* The parameters of a refusal, those of the connection identifier group
\* among them.
RefuseParameters(s) ==
    LET params == IF s[1].c = << >> THEN Tail(s) ELSE s[1].c
    IN  IF params = Cut \/ Overrun(params) THEN Err
        ELSE FlattenSeq([i \in DOMAIN params |->
                            IF params[i].t = 1 THEN params[i].c ELSE << params[i] >>])

DecodeRefuse(s) ==
    Try(RefuseParameters(s), LAMBDA p :
        LET reasons == {i \in Tagged(p, 50) : p[i].c # << >>}
            data    == {i \in reasons : Len(p[i].c) > 1} \union Tagged(p, 193) \union Tagged(p, 194)
            release == {i \in Tagged(p, 17) : p[i].c # << >>}
        IN  IF Overrun(p) THEN Err
            ELSE << "refuse",
                    [reason     |-> IF reasons = {} THEN None ELSE p[Max(reasons)].c[1].t,
                     disconnect |-> IF release = {} THEN None ELSE p[Max(release)].c[1]],
                    IF data = {} THEN << >>
                    ELSE IF Max(data) \in reasons THEN Tail(p[Max(data)].c)
                    ELSE p[Max(data)].c >>)

DecodeSimple(kind, c) == Try(SimpleUserData(c), LAMBDA u : << kind, None, u >>)

DecodeHeader(kind, c) == Try(HeaderParameters(c), LAMBDA h : << kind, h, UserData(c) >>)

\* IsoSession::parse_message().
DecodeSession(s) ==
    IF s = << >> THEN Err
    ELSE CASE s[1].t = 1 -> IF Len(s) < 2 THEN Err
                            ELSE IF SubSeq(s, 1, 2) # DataHeader THEN Err
                            ELSE << "data", None, SubSeq(s, 3, Len(s)) >>
           [] s[1].t = 25 -> << "abort", None, << >> >>
           [] s[1].t = 12 -> DecodeRefuse(s)
           [] s[1].t \in {9, 10, 13, 14} /\ s[1].c = Cut -> Err
           [] s[1].t = 13 -> DecodeHeader("connect", s[1].c)
           [] s[1].t = 14 -> DecodeHeader("accept", s[1].c)
           [] s[1].t = 9  -> DecodeSimple("finish", s[1].c)
           [] s[1].t = 10 -> DecodeSimple("disconnect", s[1].c)
           [] OTHER -> Err

-----------------------------------------------------------------------------
(***************************************************************************)
(* The presentation layer (iec61850-mms/src/iso/presentation.rs): the       *)
(* proposal and the acceptance of the ACSE and the MMS context, their       *)
(* refusal, and the PDV list that carries the user data of a context.       *)
(***************************************************************************)

AcseContextId == 1
MmsContextId == 3

AcseSyntax == << 18, 1, 0, 1 >>
MmsSyntax  == << 8, 10, 2, 2, 1 >>
BerSyntax  == << 17, 1 >>

CalledPSel == << 0, 0, 0, 1 >>

\* IsoPresentation::new().
NewPresentation == [calling |-> << >>, called |-> << >>, acse |-> AcseContextId,
                    mms |-> MmsContextId, contexts |-> << >>]

-----------------------------------------------------------------------------
(* Encoding.                                                                 *)

ModeSelector == T(160, T(128, << 1 >>))

ContextItem(id, syntax, transfer) ==
    T(48, T(2, << id >>) \o T(6, syntax) \o T(48, T(6, transfer)))

UserDataWithContext(id, payload) == T(97, T(48, T(2, << id >>) \o T(160, payload)))

EncodeUserData(pres, payload) == UserDataWithContext(pres.mms, payload)

EncodeUserDataAcse(pres, payload) == UserDataWithContext(pres.acse, payload)

\* A CP with the given contexts; encode_connect() proposes the two it needs.
ConnectPresentation(params, contexts, payload) ==
    T(49, ModeSelector
          \o T(162, T(129, params.calling) \o T(130, params.called) \o T(164, contexts)
                    \o UserDataWithContext(AcseContextId, payload)))

OwnContexts == ContextItem(AcseContextId, AcseSyntax, BerSyntax)
               \o ContextItem(MmsContextId, MmsSyntax, BerSyntax)

AcceptBer == T(48, T(128, << 0 >>) \o T(129, BerSyntax))

ProviderRejection(reason) == T(48, T(128, << 2 >>) \o T(130, << reason >>))

\* One answer per proposed context, in its order.
ResultList(pres) ==
    T(165, IF pres.contexts = << >> THEN AcceptBer \o AcceptBer
           ELSE Each(pres.contexts, LAMBDA x :
                    CASE x.outcome = "accepted" -> AcceptBer
                      [] x.outcome = "syntax"   -> ProviderRejection(1)
                      [] x.outcome = "transfer" -> ProviderRejection(2)))

EncodeCpa(pres, payload) ==
    T(49, ModeSelector
          \o T(162, T(131, CalledPSel) \o ResultList(pres)
                    \o UserDataWithContext(pres.acse, payload)))

EncodeCpr(pres, reason, payload) ==
    T(48, (IF pres.contexts = << >> THEN << >> ELSE ResultList(pres))
          \o Opt(reason, LAMBDA r : T(138, << r >>))
          \o Opt(payload, LAMBDA p : UserDataWithContext(pres.acse, p)))

EncodeAbortPpdu(pres, payload) == T(160, UserDataWithContext(pres.acse, payload))

-----------------------------------------------------------------------------
(* Decoding.                                                                 *)

\* read_ber_uint(): any number of octets, shifted through 32 bits.
ContextId(c) == LET v == Value(c) % U32 IN IF v >= Base THEN Err ELSE v

\* parse_fully_encoded_data_inner(): [id, payload].
PdvOf(c, id, data) ==
    IF \/ Overrun(c) \/ Bad(id)
       \/ data # {} /\ Min(data) < Min(Tagged(c, 2))
    THEN Err
    ELSE [id |-> id, payload |-> IF data = {} THEN << >> ELSE c[Max(data)].c]
PdvList(s) ==
    LET c == Contents(s, 48)
    IN  IF Failed(c) THEN Err ELSE PdvOf(c, Field(c, 2, ContextId), Tagged(c, 160))

\* parse_user_data().  Less than nine octets are no PDV list.
DecodeUserData(s) ==
    Try(First(s, 97, PdvList), LAMBDA pdv :
        IF pdv.payload = << >> /\ Size(s) < 9 THEN Err ELSE pdv)

\* parse_pcdl_entry(): [id, syntax, outcome].
SyntaxOf(oid) == CASE oid = AcseSyntax -> "acse" [] oid = MmsSyntax -> "mms" [] OTHER -> "other"
EntryOf(c, id, syntax) ==
    LET lists  == Tagged(c, 48)
        offered(list) == \E i \in Tagged(list, 6) : list[i].c = BerSyntax
    IN  IF Bad(id) \/ \E i \in lists : Overrun(c[i].c) THEN Err
        ELSE [id |-> id, syntax |-> syntax,
              outcome |-> IF syntax = "other" THEN "syntax"
                          ELSE IF lists # {} /\ ~offered(c[Max(lists)].c) THEN "transfer"
                          ELSE "accepted"]
ContextEntry(c) ==
    IF Overrun(c) THEN Err
    ELSE EntryOf(c, Field(c, 2, ContextId), SyntaxOf(Field(c, 6, DecodeOctets)))

\* parse_pcdl(): elements other than entries are skipped.
ContextList(c) ==
    IF Overrun(c) THEN Err
    ELSE All(SelectSeq(c, LAMBDA x : x.t = 48), LAMBDA x : ContextEntry(x.c))

\* The last accepted context of a syntax, or the identifier that was used so far.
AcceptedId(contexts, syntax, otherwise) ==
    LET at == {i \in DOMAIN contexts :
                  contexts[i].syntax = syntax /\ contexts[i].outcome = "accepted"}
    IN  IF at = {} THEN otherwise ELSE contexts[Max(at)].id

\* parse_normal_mode_parameters(): what the peer proposed or accepted, and
\* the payload.
Negotiated(calling, called, contexts, data) ==
    IF Failed(calling) \/ Failed(called) \/ Failed(contexts) \/ Bad(data) THEN Err
    ELSE [calling  |-> Default(calling, NewPresentation.calling),
          called   |-> Default(called, NewPresentation.called),
          acse     |-> AcceptedId(contexts, "acse", NewPresentation.acse),
          mms      |-> AcceptedId(contexts, "mms", NewPresentation.mms),
          contexts |-> contexts,
          payload  |-> data.payload]
NormalMode(c) ==
    IF Overrun(c) THEN Err
    ELSE Negotiated(Field(c, 129, DecodeSelector), Field(c, 130, DecodeSelector),
                    Default(Field(c, 164, ContextList), << >>), Field(c, 97, PdvList))

\* parse_connect() and parse_accept().
NormalModeChosen(c) == First(c, 128, LAMBDA m : IF Value(m) % U32 = 1 THEN "normal" ELSE Err)
Given(v) == IF v = None THEN Err ELSE v
DecodeCp(s) ==
    LET c == Contents(s, 49)
    IN  IF Failed(c) THEN Err
        ELSE IF Overrun(c) \/ Failed(Field(c, 160, NormalModeChosen)) THEN Err
        ELSE Given(Field(c, 162, NormalMode))

AcceptsAcseAndMms(pres) ==
    \A syntax \in {"acse", "mms"} :
        \E i \in DOMAIN pres.contexts :
            pres.contexts[i].syntax = syntax /\ pres.contexts[i].outcome = "accepted"

SingleOctet(c) == IF Len(c) # 1 THEN Err ELSE c[1]

\* parse_context_result_list(): the results of the entries.
ContextResults(c) ==
    LET entries == SelectSeq(c, LAMBDA x : x.t = 48)
        results(e) == SelectSeq(e.c, LAMBDA x : x.t = 128)
    IN  IF Overrun(c) \/ \E i \in DOMAIN entries : Overrun(entries[i].c) THEN Err
        ELSE All(FlattenSeq([i \in DOMAIN entries |-> results(entries[i])]),
                 LAMBDA x : SingleOctet(x.c))

\* parse_reject(): the X.410 mode is not supported.
DecodeCpr(s) ==
    First(s, 48, LAMBDA c :
        LET selector == Field(c, 131, DecodeSelector)
            results  == Field(c, 165, ContextResults)
            context  == Field(c, 135, SingleOctet)
            reason   == Field(c, 138, SingleOctet)
            data     == Field(c, 97, DecodeOctets)
        IN  IF \/ Overrun(c) \/ Failed(selector) \/ Failed(results) \/ Failed(context) \/ Failed(reason)
            THEN Err
            ELSE [selector |-> selector, results |-> Default(results, << >>), context |-> context,
                  reason |-> reason, data |-> Default(data, << >>)])

-----------------------------------------------------------------------------
(***************************************************************************)
(* The association control layer (iec61850-mms/src/iso/acse.rs): AARQ and   *)
(* AARE with addressing, authentication and the MMS PDU they carry, the     *)
(* release and the abort.                                                   *)
(*                                                                         *)
(* Addressing is [calledTitle, calledQualifier, callingTitle,               *)
(* callingQualifier], each None or a value; authentication is << "none" >>, *)
(* << "password", octets >>, << "other", mechanism, value >> or             *)
(* << "certificate" >>.                                                     *)
(***************************************************************************)

AppContextMms == << 8, 10, 2, 2, 3 >>
PasswordMechanism == << 18, 3, 1 >>

Diagnostics == 0 .. 14

AuthenticationRefusals == (3 .. 6) \union (11 .. 14)

-----------------------------------------------------------------------------
(* Encoding.                                                                 *)

AppContextName == T(161, T(6, AppContextMms))

TitleField(tag, title) == Opt(title, LAMBDA v : T(tag, T(6, EncodeOid(v))))

QualifierField(tag, q) == Opt(q, LAMBDA v : T(tag, T(2, EncodeI32(v))))

AddressingFields(a) ==
    TitleField(162, a.calledTitle) \o QualifierField(163, a.calledQualifier)
    \o TitleField(166, a.callingTitle) \o QualifierField(167, a.callingQualifier)

\* A TLS certificate is not sent again.
AuthFields(auth) ==
    LET requirements == T(138, << 4, 16 >>)
        unlessEmpty(tag, c) == IF c = << >> THEN << >> ELSE T(tag, c)
    IN  CASE auth[1] \in {"none", "certificate"} -> << >>
          [] auth[1] = "password" ->
                 requirements \o T(139, PasswordMechanism) \o T(172, T(128, auth[2]))
          [] auth[1] = "other" ->
                 requirements \o unlessEmpty(139, auth[2]) \o unlessEmpty(172, auth[3])

\* The reference saturates at the largest positive octet.
UserInformation(payload, reference) ==
    T(190, T(40, T(2, << IF reference < SignBit THEN reference ELSE SignBit - 1 >>)
                 \o T(160, payload)))

EncodeAarq(payload, auth, reference, addressing) ==
    T(96, AppContextName \o AddressingFields(addressing) \o AuthFields(auth)
          \o UserInformation(payload, reference))

EncodeAareWithDiagnostic(result, diagnostic, payload, reference) ==
    T(97, AppContextName
          \o T(162, T(2, << IF result < Base THEN result ELSE Base - 1 >>))
          \o T(163, T(161, T(2, << diagnostic >>)))
          \o IF payload = << >> THEN << >> ELSE UserInformation(payload, reference))

EncodeAare(result, payload, reference) == EncodeAareWithDiagnostic(result, 0, payload, reference)

EncodeAssociateFailed == EncodeAare(1, << >>, 0)

EncodeAbrt(provider) == T(100, T(128, << IF provider THEN 1 ELSE 0 >>))

EncodeRlrq == T(98, T(128, << 0 >>))

EncodeRlre == T(99, << >>)

-----------------------------------------------------------------------------
(* Decoding.                                                                 *)

\* Elements without content are skipped.
Filled(s) == SelectSeq(s, LAMBDA x : x.c # << >>)

\* explicit_inner(): the content of the one element a field holds, or None.
ExplicitInner(c, tag) ==
    IF Len(c) # 1 THEN None ELSE IF c[1].t # tag \/ c[1].c = Cut THEN None ELSE c[1].c

\* What does not decode counts as absent.
Tolerated(v) == IF v = Err THEN None ELSE v

DecodeTitle(c) ==
    LET oid == ExplicitInner(c, 6) IN IF oid = None THEN None ELSE Tolerated(DecodeOid(oid))

DecodeQualifier(c) ==
    LET o == ExplicitInner(c, 2) IN IF o = None THEN None ELSE Tolerated(DecodeI32(o))

DecodeDiagnostic(c) ==
    LET integer == ExplicitInner(c, 161)
        o == IF integer = None THEN None ELSE ExplicitInner(integer, 2)
    IN  IF o = None THEN None
        ELSE IF Len(o) \notin 1 .. 4 THEN None
        ELSE IF Value(o) \in Diagnostics THEN Value(o) ELSE None

\* parse_user_information(): the payload of the one association-data element.
DecodeUserInformation(c) ==
    First(c, 40, LAMBDA d :
        LET s == Filled(d)
            payload == Field(s, 160, DecodeOctets)
        IN  IF Overrun(d) \/ Tagged(s, 2) = {} \/ payload = None THEN Err ELSE payload)

\* parse_charstring(): None for another choice of the authentication value.
DecodeCharstring(c) ==
    IF c[1].t # 128 THEN None
    ELSE IF c[1].c = Cut THEN Err
    ELSE IF Len(c) # 1 THEN None ELSE c[1].c

DecodeAuth(mechanism, value) ==
    LET other == << "other", Default(mechanism, << >>), Default(value, << >>) >>
    IN  IF mechanism = None /\ value = None THEN << "none" >>
        ELSE IF mechanism = PasswordMechanism /\ value # None
             THEN LET pw == DecodeCharstring(value)
                  IN  CASE pw = Err -> Err [] pw = None -> other [] OTHER -> << "password", pw >>
        ELSE other

\* parse_aarq(): [addressing, auth, payload].
AarqOf(s, payload, auth) ==
    IF Bad(payload) \/ Failed(auth) THEN Err
    ELSE [addressing |-> [calledTitle      |-> Field(s, 162, DecodeTitle),
                          calledQualifier  |-> Field(s, 163, DecodeQualifier),
                          callingTitle     |-> Field(s, 166, DecodeTitle),
                          callingQualifier |-> Field(s, 167, DecodeQualifier)],
          auth |-> auth, payload |-> payload]
DecodeAarq(c) ==
    LET s == Filled(c)
    IN  IF Overrun(c) THEN Err
        ELSE AarqOf(s, Field(s, 190, DecodeUserInformation),
                    DecodeAuth(Field(s, 139, DecodeOctets), Field(s, 172, DecodeOctets)))

\* The result of an AARE; an element of another type, or an empty one, is
\* skipped.
DecodeResult(c) ==
    IF c[1].t # 2 THEN None
    ELSE IF c[1].c = Cut THEN Err
    ELSE IF c[1].c = << >> THEN None
    ELSE Value(SubSeq(c[1].c, 1, IF Len(c[1].c) < 4 THEN Len(c[1].c) ELSE 4))

\* parse_aare(): [result, diagnostic, payload].  An acceptance carries user
\* data.
DecodeAare(c) ==
    LET s       == Filled(c)
        given   == {i \in Tagged(s, 162) : DecodeResult(s[i].c) # None}
        result  == IF given = {} THEN None ELSE DecodeResult(s[Max(given)].c)
        payload == Field(s, 190, DecodeUserInformation)
    IN  IF \/ Overrun(c) \/ Failed(payload) \/ \E i \in given : Failed(DecodeResult(s[i].c))
           \/ result = 0 /\ payload = None
        THEN Err
        ELSE [result |-> result, diagnostic |-> Field(s, 163, DecodeDiagnostic),
              payload |-> Default(payload, << >>)]

\* AcseConnection::parse_message(): << indication, parameters >>.  The
\* connection has no authenticator of its own: the server decides later.
DecodeAcse(s) ==
    IF s = << >> THEN Err
    ELSE CASE s[1].t \in {96, 97} /\ s[1].c = Cut -> Err
           [] s[1].t = 96 -> Try(DecodeAarq(s[1].c), LAMBDA a : << "associate", a >>)
           [] s[1].t = 97 -> Try(DecodeAare(s[1].c), LAMBDA a :
                                 << IF a.result = 0 THEN "associate" ELSE "associateFailed", a >>)
           [] s[1].t = 98 -> << "releaseRequest", None >>
           [] s[1].t = 99 -> << "releaseResponse", None >>
           [] s[1].t = 100 -> << "abort", None >>
           [] OTHER -> Err

-----------------------------------------------------------------------------
(***************************************************************************)
(* The set-up of an association through all layers: the request a client    *)
(* builds, what a server makes of it and answers, and what the client makes *)
(* of the answer.  (iec61850-mms/src/mms/client/connection.rs,              *)
(* iec61850-mms/src/mms/server/initiate.rs,                                 *)
(* iec61850-server/src/lifecycle.rs)                                        *)
(*                                                                         *)
(* A client is [sSel, pSel, addressing, auth, size, calling]: selectors     *)
(* [calling, called] of the two layers, and the limits it was configured    *)
(* with, or None.  A server is [decision, services]: None without an        *)
(* authenticator, else its decision, << "accept" >> or << "reject", d >>.   *)
(***************************************************************************)

CONSTANTS MinPduSize, MaxPduSize, MaxOutstanding,
          DefaultLevel   \* DEFAULT_DATA_STRUCTURE_NESTING_LEVEL

Larger(x, y) == IF x < y THEN y ELSE x
Lesser(x, y) == IF x < y THEN x ELSE y

IndirectReference == 3

-----------------------------------------------------------------------------
(* The client's request.                                                     *)

ProposedMaxCalling(client) == Larger(Default(client.calling, MaxOutstanding), 1)

\* InitiateRequestPdu::default() with the client's limits.
ProposedInitiate(client) ==
    [size    |-> Default(client.size, MaxPduSize),
     calling |-> ProposedMaxCalling(client),
     called  |-> MaxOutstanding,
     level   |-> DefaultLevel,
     detail  |-> DefaultDetail]

\* build_connect_request(), here with the contexts a peer proposes.
ConnectRequest(client, contexts) ==
    EncodeConnectSpdu(client.sSel, NewSession,
        ConnectPresentation(client.pSel, contexts,
            EncodeAarq(EncodeInitiateRequest(ProposedInitiate(client)), client.auth,
                       IndirectReference, client.addressing)))

BuildConnectRequest(client) == ConnectRequest(client, OwnContexts)

-----------------------------------------------------------------------------
(* The server.                                                               *)

ClampOutstanding(n) == Lesser(Larger(n, 1), MaxOutstanding)

\* negotiate_initiate(): << "accepted", parameters, response >> or
\* << "rejected" >>.
Negotiate(req, services) ==
    LET proposed == Default(req.size, MaxPduSize)
        cbb == << req.detail.cbb[1], req.detail.cbb[2] & DefaultDetail.cbb[2],
                  req.detail.cbb[3] & DefaultDetail.cbb[3] >>
        params == [size    |-> Lesser(proposed, MaxPduSize),
                   calling |-> ClampOutstanding(req.calling),
                   called  |-> ClampOutstanding(req.called),
                   level   |-> Lesser(Default(req.level, MaxLevel), MaxLevel)]
    IN  IF req.detail.version < 1 \/ proposed < MinPduSize THEN << "rejected" >>
        ELSE << "accepted", params,
                [params EXCEPT !.level = IF req.level = None THEN None ELSE @]
                @@ [detail |-> [version |-> 1, cbb |-> cbb, services |-> services]] >>

NegotiateInitiate(s, services) ==
    LET req == DecodeInitiateRequest(s)
    IN  IF Failed(req) THEN << "rejected" >> ELSE Negotiate(req, services)

NoDetail(class, code) ==
    [class |-> class, code |-> code, info |-> None, text |-> None, deleted |-> None]

\* send_presentation_reject() and send_association_reject().
PresentationReject(pres) == EncodeRefuseWithUserData(EncodeCpr(pres, 0, None))

AssociationReject(pres, aare) == EncodeRefuseWithUserData(EncodeCpr(pres, None, aare))

Established(pres, session, outcome) ==
    EncodeAcceptSpdu(session,
        EncodeCpa(pres, EncodeAare(0, EncodeInitiateResponse(outcome[3]), pres.mms)))

Verdict(verdict, params, answer) == [verdict |-> verdict, params |-> params, answer |-> answer]

AnswerToInitiate(session, pres, outcome) ==
    IF outcome[1] = "rejected"
    THEN Verdict("initiateRejected", None,
             AssociationReject(pres, EncodeAare(1, EncodeInitiateError(NoDetail(8, 0)), pres.mms)))
    ELSE Verdict("established", outcome[2], Established(pres, session[2], outcome))

AnswerToAcse(server, session, pres, acse) ==
    CASE Failed(acse) -> Err
      [] acse[1] = "associateFailed" ->
             Verdict("acseFailed", None, AssociationReject(pres, EncodeAssociateFailed))
      [] acse[1] = "associate" /\ server.decision # None /\ server.decision[1] = "reject" ->
             Verdict("authenticationRefused", None,
                 AssociationReject(pres,
                     EncodeAareWithDiagnostic(1, server.decision[2],
                         EncodeInitiateError(NoDetail(7, 3)), pres.mms)))
      [] acse[1] = "associate" ->
             IF FirstTag(acse[2].payload) # 168
             THEN Verdict("initiateRejected", None, AssociationReject(pres, EncodeAssociateFailed))
             ELSE AnswerToInitiate(session, pres, NegotiateInitiate(acse[2].payload, server.services))
      [] OTHER -> Err

AnswerToCp(server, session, pres) ==
    IF Failed(pres) THEN Err
    ELSE IF ~AcceptsAcseAndMms(pres) THEN Verdict("presentationRejected", None, PresentationReject(pres))
    ELSE AnswerToAcse(server, session, pres, DecodeAcse(pres.payload))

AnswerToSession(server, session) ==
    IF Failed(session) THEN Err
    ELSE IF session[1] # "connect" THEN Err
    ELSE AnswerToCp(server, session, DecodeCp(session[3]))

\* establish_association(): the verdict, what the server agreed to and what
\* it sends.  A request that does not decode, or that is none, is an error
\* and is not answered.
EstablishAssociation(server, s) == AnswerToSession(server, DecodeSession(s))

\* What an authenticator is shown of a request.
ShownOf(acse) == [addressing |-> acse[2].addressing, auth |-> acse[2].auth]
AuthenticatorSees(s) == ShownOf(DecodeAcse(DecodeCp(DecodeSession(s)[3]).payload))

-----------------------------------------------------------------------------
(* The client's view of the answer.                                          *)

NegotiateMaxCalling(proposal, answer) == Lesser(Larger(answer, 1), Larger(proposal, 1))

NegotiateMaxPduSize(client, answer) ==
    LET local == Default(client.size, MaxPduSize) IN Lesser(local, Default(answer, local))

\* association_rejected().
AssociationRejected(diagnostic) ==
    IF diagnostic \in AuthenticationRefusals THEN << "authenticationRejected", diagnostic >>
    ELSE << "associateFailed" >>

\* refused_aare_diagnostic(): of a refusal by the association control user.
DiagnosticOf(acse) ==
    IF Failed(acse) THEN None
    ELSE IF acse[1] = "associateFailed" THEN acse[2].diagnostic ELSE None
DiagnosticIn(pdv) ==
    IF Failed(pdv) THEN None
    ELSE IF pdv.id # AcseContextId THEN None ELSE DiagnosticOf(DecodeAcse(pdv.payload))
RefusedAareDiagnostic(cpr) ==
    IF Failed(cpr) THEN None
    ELSE IF cpr.reason # None \/ cpr.data = << >> THEN None
    ELSE DiagnosticIn(PdvList(cpr.data))

\* The refusal branch of check_session_accept().
RefusedFor(session, cpr, diagnostic) ==
    IF diagnostic \in AuthenticationRefusals THEN << "authenticationRejected", diagnostic >>
    ELSE << "sessionRefused", session[2].reason, session[2].disconnect,
            IF Failed(cpr) THEN None ELSE cpr.reason >>
RefusedBy(session, cpr) == RefusedFor(session, cpr, RefusedAareDiagnostic(cpr))
SessionRefused(session) == RefusedBy(session, DecodeCpr(session[3]))

\* run_initiate_handshake() from the answer on, layer by layer.
InitiateResult(client, pdu) ==
    CASE Failed(pdu) -> Err
      [] pdu[1] = "initiateResponse" ->
             << "connected",
                [size    |-> NegotiateMaxPduSize(client, pdu[2].size),
                 calling |-> NegotiateMaxCalling(ProposedMaxCalling(client), pdu[2].calling),
                 called  |-> pdu[2].called] >>
      [] pdu[1] = "initiateError" -> << "initiateFailed", pdu[2].code >>
      [] OTHER -> Err

AcseResult(client, acse) ==
    CASE Failed(acse) -> Err
      [] acse[1] = "associateFailed" -> AssociationRejected(acse[2].diagnostic)
      [] acse[1] = "associate" -> InitiateResult(client, DecodeMmsPdu(acse[2].payload))
      [] OTHER -> << "associateFailed" >>

SessionResult(client, session) ==
    CASE Failed(session) -> Err
      [] session[1] = "refuse" -> SessionRefused(session)
      [] session[1] = "accept" ->
             Try(DecodeCp(session[3]), LAMBDA pres : AcseResult(client, DecodeAcse(pres.payload)))
      [] OTHER -> Err

HandshakeResult(client, s) == SessionResult(client, DecodeSession(s))

-----------------------------------------------------------------------------
(* Messages of an association: data, release and abort.                      *)

\* send_mms_pdu(), release_association(), answer_peer_release() and abort().
EncodeTsdu(m) ==
    LET pres == NewPresentation
    IN  CASE m[1] = "data" -> EncodeDataSpdu(EncodeUserData(pres, EncodeMmsPdu(m[2])))
          [] m[1] = "finish" -> EncodeFinishSpdu(EncodeUserDataAcse(pres, EncodeRlrq))
          [] m[1] = "disconnect" -> EncodeDisconnectSpdu(EncodeUserDataAcse(pres, EncodeRlre))
          [] m[1] = "abort" -> EncodeAbortSpdu(EncodeAbortPpdu(pres, EncodeAbrt(FALSE)))
          [] m[1] = "refuse" -> EncodeRefuse(m[2])

\* recv_mms_bytes() and recv_pdu(), with the look at the release PDU that
\* answer_peer_release() and await_release_response() take.
ReceivedSpdu(session, pdv) ==
    LET carries(tag) == ~Failed(pdv) /\ FirstTag(pdv.payload) = tag
    IN  CASE session[1] = "data" ->
                 IF Failed(pdv) THEN Err
                 ELSE Try(DecodeMmsPdu(pdv.payload), LAMBDA p : << "data", p >>)
          [] session[1] = "finish"     -> << "finish", carries(98) >>
          [] session[1] = "disconnect" -> << "disconnect", carries(99) >>
          [] session[1] = "abort"      -> << "abort" >>
          [] session[1] = "refuse"     -> << "refuse", session[2].reason >>
          [] OTHER -> Err
DecodeTsdu(s) ==
    Try(DecodeSession(s), LAMBDA session : ReceivedSpdu(session, DecodeUserData(session[3])))
=============================================================================
