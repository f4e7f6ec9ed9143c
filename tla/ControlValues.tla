----------------------------- MODULE ControlValues -----------------------------
(***************************************************************************)
(* The values a control command is made of, on both sides of an            *)
(* association: the structures a common data class declares for Oper, SBOw *)
(* and Cancel, the ones the client fills                                   *)
(* (src/crates/iec61850-client/src/control/encode.rs), what the server     *)
(* reads in them (src/crates/iec61850-server/src/control/model.rs), and    *)
(* the LastApplError and the command termination the client reads in       *)
(* return (src/crates/iec61850-client/src/control/client.rs).              *)
(***************************************************************************)
EXTENDS ModelTree, MmsServices

CONSTANTS ControlCases,     \* the commands a run sends
          SecondSpan,       \* seconds a UtcTime counts (2^32)
          FractionSpan,     \* fractions of a second it counts (2^24)
          MsPerSecond,      \* 1000
          ByteSpan          \* values of a u8

VARIABLES cvCase,    \* the command
          cvGot,     \* what the server read in it
          cvBack     \* what the client read in the answer
cvVars == <<cvCase, cvGot, cvBack>>

-----------------------------------------------------------------------------
(* Times: seconds, fraction.  The fraction of a millisecond is rounded      *)
(* down both ways.                                                          *)

MsToUtcTime(ms) == <<(ms \div MsPerSecond) % SecondSpan,
                     ((ms % MsPerSecond) * FractionSpan) \div MsPerSecond>>

UtcTimeToMs(t) == t[1] * MsPerSecond + (t[2] * MsPerSecond) \div FractionSpan

-----------------------------------------------------------------------------
(* The client. *)

CheckBitsSwapped(synchro, interlock) ==
  <<"bits", OctetBits - 2,
    <<(IF interlock THEN SignBit ELSE 0) + (IF synchro THEN SignBit \div 2 ELSE 0)>>>>

CheckBits(synchro, interlock) ==
  <<"bits", OctetBits - 2,
    <<(IF synchro THEN SignBit ELSE 0) + (IF interlock THEN SignBit \div 2 ELSE 0)>>>>

OriginToMms(o) == <<"struct", << <<"int", o.orCat>>, <<"octets", o.orIdent>> >>>>

BuildOperStruct(p) ==
  <<"struct", <<p.ctlVal, OriginToMms(p.origin), <<"uint", p.ctlNum>>, <<"utcTime", p.t>>,
                <<"bool", p.test>>, CheckBits(p.synchro, p.interlock)>>>>

BuildCancelStruct(p) ==
  <<"struct", <<p.ctlVal, OriginToMms(p.origin), <<"uint", p.ctlNum>>, <<"utcTime", p.t>>,
                <<"bool", p.test>>>>>>

-----------------------------------------------------------------------------
(* The server. *)

OriginFromMms(v) ==
  IF /\ v[1] = "struct" /\ Len(v[2]) = 2 /\ v[2][1][1] = "int" /\ v[2][2][1] = "octets"
  THEN [orCat |-> v[2][1][2], orIdent |-> v[2][2][2]] ELSE None

CtlNumFromMms(v) ==
  IF v[1] \in {"uint", "int"} /\ v[2] \in 0 .. ByteSpan - 1 THEN v[2] ELSE None

(* The members that follow ctlVal and operTm, from position base. *)
CommonParams(f, base) ==
  LET origin == OriginFromMms(f[base + 2])
      ctlNum == CtlNumFromMms(f[base + 3])
  IN IF origin = None \/ ctlNum = None \/ f[base + 4][1] # "utcTime" \/ f[base + 5][1] # "bool"
     THEN None
     ELSE [ctlVal |-> f[1], origin |-> origin, ctlNum |-> ctlNum, t |-> f[base + 4][2],
           test |-> f[base + 5][2]]

CheckLen(v) ==
  IF v[2] >= OctetBits \/ (v[3] = <<>> /\ v[2] # 0) THEN 0 ELSE Len(v[3]) * OctetBits - v[2]

OperParams(v) ==
  LET f == v[2]
      base == Len(f) - 6
      common == CommonParams(f, base)
      check == f[base + 6]
  IN IF v[1] # "struct" \/ Len(f) \notin {6, 7} THEN None
     ELSE IF base = 1 /\ f[2][1] # "utcTime" THEN None
     ELSE IF common = None \/ check[1] # "bits" THEN None
     ELSE IF CheckLen(check) < 2 THEN None
     ELSE common @@ [operTm |-> IF base = 1 THEN UtcTimeToMs(f[2][2]) ELSE 0,
                     synchro |-> check[3][1] >= SignBit,
                     interlock |-> check[3][1] % SignBit >= SignBit \div 2]

CancelParams(v) ==
  LET f == v[2]
      base == Len(f) - 5
  IN IF v[1] # "struct" \/ Len(f) \notin {5, 6} THEN None
     ELSE IF base = 1 /\ f[2][1] # "utcTime" THEN None
     ELSE CommonParams(f, base)

-----------------------------------------------------------------------------
(* Causes and errors travel as the position of their name. *)

AddCauses ==
  <<"Unknown", "NotSupported", "BlockedBySwitchingHierarchy", "SelectFailed", "InvalidPosition",
    "PositionReached", "ParameterChangeInExecution", "StepLimit", "BlockedByMode",
    "BlockedByProcess", "BlockedByInterlocking", "BlockedBySynchrocheck",
    "CommandAlreadyInExecution", "BlockedByHealth", "OneOfNControl", "AbortionByCancel",
    "TimeLimitOver", "AbortionByTrip", "ObjectNotSelected", "ObjectAlreadySelected",
    "NoAccessAuthority", "EndedWithOvershoot", "AbortionDueToDeviation",
    "AbortionByCommunicationLoss", "BlockedByCommand", "None", "InconsistentParameters",
    "LockedByOtherClient">>

LastApplErrors == <<"NoError", "Unknown", "TimeoutTestNotOk", "OperatorTestNotOk">>

(* ControlAddCause::from_i32 of the client. *)
AddCauseFrom(i) == IF i + 1 \in DOMAIN AddCauses THEN AddCauses[i + 1] ELSE "Unknown"

LastApplErrorFrom(i) == IF i + 1 \in DOMAIN LastApplErrors THEN LastApplErrors[i + 1] ELSE "Unknown"

LastApplErrorCode(internal) == IF internal THEN "Unknown" ELSE "NoError"

TerminationErrorCode(test) == IF test THEN "OperatorTestNotOk" ELSE "NoError"

ParseLastApplError(v) ==
  IF v[1] # "struct" \/ Len(v[2]) # 5 THEN None
  ELSE LET f == v[2]
           origin == OriginFromMms(f[3])
           ctlNum == CtlNumFromMms(f[4])
       IN IF \/ f[1][1] # "visible" \/ f[2][1] # "int" \/ f[5][1] # "int"
             \/ origin = None \/ ctlNum = None
          THEN None
          ELSE [ctlObj |-> f[1][2], error |-> LastApplErrorFrom(f[2][2]), origin |-> origin,
                ctlNum |-> ctlNum, addCause |-> AddCauseFrom(f[5][2])]

(* The ctlNum of an Oper value, counted from its end. *)
OperCtlNum(v) ==
  IF v[1] # "struct" \/ Len(v[2]) < 4 THEN None ELSE CtlNumFromMms(v[2][Len(v[2]) - 3])

(* An information report is a sequence of [name, value].  The attribute of *)
(* a control object is <<"co", domain, object, attribute>>.                *)
ParseCommandTermination(report) ==
  LET opers == {i \in DOMAIN report : report[i].name[1] = "co" /\ report[i].name[4] = "Oper"}
      oper == Min(opers)
      lae == ParseLastApplError(report[1].value)
  IN IF opers = {} THEN None
     ELSE IF Len(report) = 2 /\ (report[1].name # <<"vmd", LastApplErr>> \/ lae = None) THEN None
     ELSE [object |-> <<report[oper].name[2], report[oper].name[3]>>,
           ctlNum |-> OperCtlNum(report[oper].value),
           lae |-> IF Len(report) = 2 THEN lae ELSE None]

CtMatches(ct, object, ctlNum) == ct.object = object /\ ct.ctlNum \in {None, ctlNum}

(* A LastApplError is that of a command when it names the object, and its  *)
(* origin and number unless the command had none.                          *)
ParseLastApplErrorReport(report, object, origin, ctlNum) ==
  LET lae == ParseLastApplError(report[1].value)
  IN IF Len(report) # 1 \/ report[1].name # <<"vmd", LastApplErr>> THEN None
     ELSE IF lae = None THEN None
     ELSE IF /\ ctlNum # None => lae.ctlNum = ctlNum /\ lae.origin = origin
             /\ <<lae.ctlObj[2], lae.ctlObj[3]>> = object
          THEN lae ELSE None

-----------------------------------------------------------------------------
(* A command: a class with its options, whether the model declares the     *)
(* object, the attribute written, whether the structure is the declared    *)
(* one or the client's, and the parameters.                                *)

Named(children, name) == FirstOr(children, LAMBDA c : c.name = name)

DeclaredBy(case) == Named(Factory(case.class, case.o, case.c, case.flag), case.attr)

RECURSIVE ValueOf(_, _)
ValueOf(node, p) ==
  CASE node.name = "operTm" -> <<"utcTime", MsToUtcTime(p.operTm)>>
    [] node.name = "origin" -> OriginToMms(p.origin)
    [] node.name = "ctlNum" -> <<"uint", p.ctlNum>>
    [] node.name = "T" -> <<"utcTime", p.t>>
    [] node.name = "Test" -> <<"bool", p.test>>
    [] node.name = "Check" -> CheckBits(p.synchro, p.interlock)
    [] node.name = "ctlVal" -> p.ctlVal
    [] OTHER -> <<"struct", [i \in DOMAIN node.children |-> ValueOf(node.children[i], p)]>>

Sent(case) ==
  IF case.declared THEN ValueOf(DeclaredBy(case), case.p)
  ELSE IF case.attr = "Cancel" THEN BuildCancelStruct(case.p) ELSE BuildOperStruct(case.p)

IsTimed(case) == case.declared /\ ControlBit["IS_TIME_ACTIVATED"] \in case.c

CvInit ==
  /\ cvCase \in {c \in ControlCases : c.declared => DeclaredBy(c) # None}
  /\ cvGot = None /\ cvBack = None

(* Whether a value has the type of an attribute.  The integers of the model *)
(* all fit 32 bits.                                                         *)
LeafConforms(ty, v) ==
  CASE ty[1] = "Boolean" -> v[1] = "bool"
    [] ty[1] = "Int8" -> v[1] = "int" /\ v[2] \in -128 .. 127
    [] ty[1] \in {"Int32", "Enumerated"} -> v[1] = "int"
    [] ty[1] = "Int8U" -> v[1] = "uint" /\ v[2] < ByteSpan
    [] ty[1] = "Float32" -> v[1] = "float" /\ Len(v[2]) = 4
    [] ty[1] = "OctetString" -> v[1] = "octets" /\ Len(v[2]) <= ty[2]
    [] ty[1] = "Timestamp" -> v[1] = "utcTime"
    [] ty[1] \in {"Check", "CodedEnum"} -> v[1] = "bits" /\ CheckLen(v) = 2

RECURSIVE CoConforms(_, _)
CoConforms(node, v) ==
  IF node.ty # <<"Constructed">> THEN LeafConforms(node.ty, v)
  ELSE /\ v[1] = "struct" /\ Len(v[2]) = Len(node.children)
       /\ \A i \in DOMAIN node.children : CoConforms(node.children[i], v[2][i])

(* The server looks the attribute up in the model and checks the type of    *)
(* the value before it reads the parameters of the service.                 *)
Refusal(case, v) ==
  IF ~case.inModel THEN None
  ELSE IF DeclaredBy(case) = None THEN "NonExistent"
  ELSE IF ~CoConforms(DeclaredBy(case), v) THEN "TypeInconsistent"
  ELSE None

ParamsOf(attr, v) == IF attr = "Cancel" THEN CancelParams(v) ELSE OperParams(v)

Received(case, v) ==
  IF Refusal(case, v) # None THEN <<"refused", Refusal(case, v)>>
  ELSE IF ParamsOf(case.attr, v) = None THEN <<"refused", "TypeInconsistent">>
  ELSE <<"read", ParamsOf(case.attr, v)>>

CvServe ==
  /\ cvGot = None
  /\ cvGot' = Received(cvCase, Sent(cvCase))
  /\ UNCHANGED <<cvCase, cvBack>>

LaeOf(case, error, cause) ==
  LastApplErrorData([ctlObj |-> <<"co", case.object[1], case.object[2], case.attr>>,
                     error |-> FirstIndex(LastApplErrors, LAMBDA x : x = error) - 1,
                     orCat |-> case.p.origin.orCat, orIdent |-> case.p.origin.orIdent,
                     ctlNum |-> case.p.ctlNum,
                     addCause |-> FirstIndex(AddCauses, LAMBDA x : x = cause) - 1])

LaeEntry(case, error, cause) == [name |-> <<"vmd", LastApplErr>>, value |-> LaeOf(case, error, cause)]

AskedNum(case, other) == (case.p.ctlNum + other) % ByteSpan

(* It refuses it, which sends LastApplError before the answer; the client  *)
(* looks for the one of its command, next to one of another command.       *)
CvRefuse ==
  /\ cvGot # None /\ cvBack = None
  /\ cvGot[1] = "read"
  /\ \E cause \in ToSet(AddCauses), internal \in BOOLEAN, other \in {0, 1} :
       cvBack' = [kind |-> "refusal", cause |-> cause, error |-> LastApplErrorCode(internal),
                  own |-> other = 0,
                  got |-> ParseLastApplErrorReport(<<LaeEntry(cvCase, LastApplErrorCode(internal), cause)>>,
                                                   cvCase.object, cvCase.p.origin, AskedNum(cvCase, other))]
  /\ UNCHANGED <<cvCase, cvGot>>

(* It ends the command it accepted with a termination that repeats Oper. *)
OperEntry(case) == [name |-> <<"co", case.object[1], case.object[2], "Oper">>, value |-> Sent(case)]

TerminationReport(case, cause, positive, oper) ==
  IF positive THEN <<oper>>
  ELSE <<LaeEntry(case, TerminationErrorCode(case.p.test), cause), oper>>

TakenFor(case, cause, positive, other, ct) ==
  [kind |-> "termination", cause |-> cause, error |-> TerminationErrorCode(case.p.test),
   positive |-> positive, own |-> other = 0,
   matches |-> ct # None /\ CtMatches(ct, case.object, AskedNum(case, other)),
   got |-> IF ct = None THEN None ELSE ct.lae]

CvTerminate ==
  /\ cvGot # None /\ cvBack = None /\ cvCase.attr = "Oper"
  /\ cvGot[1] = "read"
  /\ \E cause \in {"None", "TimeLimitOver"}, positive \in BOOLEAN, other \in {0, 1} :
       cvBack' = TakenFor(cvCase, cause, positive, other,
                          ParseCommandTermination(TerminationReport(cvCase, cause, positive, OperEntry(cvCase))))
  /\ UNCHANGED <<cvCase, cvGot>>

CvNext == CvServe \/ CvRefuse \/ CvTerminate

-----------------------------------------------------------------------------
(* The control attributes of an object: none for a class without control    *)
(* or a model of status only, SBOw with enhanced security, and Cancel where *)
(* it is asked for.                                                         *)
Offered(case) ==
  /\ case.class \in ControlClasses /\ ModelBits(case.c) \in 1 .. 4
  /\ case.attr = "SBOw" => ModelBits(case.c) = 4
  /\ case.attr = "Cancel" => ControlBit["HAS_CANCEL"] \in case.c

(* The control value is one of the class, and the originator fits. *)
OfClass(case) ==
  LET v == case.p.ctlVal
  IN /\ Len(case.p.origin.orIdent) <= 64
     /\ CASE case.class \in {"SPC", "DPC"} -> v[1] = "bool"
          [] case.class \in {"ENC", "INC"} -> v[1] = "int"
          [] case.class \in {"ISC", "BAC"} -> v[1] = "int" /\ v[2] < 128
          [] case.class = "APC" -> v[1] = "struct" /\ v[2][1][1] = (IF case.flag THEN "int" ELSE "float")
          [] case.class = "BSC" -> v[1] = "bits" /\ v[2] = 6

(* The server refuses a command for its type exactly when the object does   *)
(* not offer it, when a member is not of its type, or when the client sends *)
(* its structure, which has no operTm, to a time-activated object           *)
(* (declared_co_attribute(), conforms()); an object outside the model has   *)
(* no declared type.  What it reads in every other command is what the      *)
(* client meant: each parameter, in the client's structure and in the       *)
(* declared one, operTm within the millisecond that rounding down twice     *)
(* costs (OperParams, CancelParams).                                        *)
ServerReadsCommand ==
  cvGot # None =>
    LET p == cvCase.p
        misfit == ControlBit["IS_TIME_ACTIVATED"] \in cvCase.c /\ ~cvCase.declared
    IN IF cvCase.inModel /\ ~Offered(cvCase) THEN cvGot = <<"refused", "NonExistent">>
       ELSE IF cvCase.inModel /\ (~OfClass(cvCase) \/ misfit) THEN cvGot = <<"refused", "TypeInconsistent">>
       ELSE /\ cvGot[1] = "read"
            /\ \A field \in {"ctlVal", "origin", "ctlNum", "t", "test"} : cvGot[2][field] = p[field]
            /\ cvCase.attr # "Cancel" =>
                 /\ cvGot[2].synchro = p.synchro /\ cvGot[2].interlock = p.interlock
                 /\ IsTimed(cvCase) =>
                      (p.operTm % (MsPerSecond * SecondSpan)) - cvGot[2].operTm \in 0 .. 1
                 /\ ~IsTimed(cvCase) => cvGot[2].operTm = 0

(* A cancel is never read as an operate nor an operate as a cancel,         *)
(* although a timed Cancel has as many members as an Oper without a time.   *)
CommandsNotConfused ==
  cvGot # None =>
    ParamsOf(IF cvCase.attr = "Cancel" THEN "Oper" ELSE "Cancel", Sent(cvCase)) = None

(* The client reports the cause and the error the server gave for its own   *)
(* command, and takes no answer to another number for it, nor a refusal for *)
(* a termination (parse_last_appl_error, CtMatch).                          *)
ClientReadsAnswer ==
  cvBack # None =>
    /\ cvBack.kind = "refusal" =>
         IF cvBack.own THEN /\ cvBack.got # None /\ cvBack.got.addCause = cvBack.cause
                            /\ cvBack.got.error = cvBack.error
         ELSE cvBack.got = None
    /\ cvBack.kind = "termination" =>
         /\ cvBack.matches <=> cvBack.own
         /\ (cvBack.got = None) <=> cvBack.positive
         /\ cvBack.got # None => cvBack.got.addCause = cvBack.cause /\ cvBack.got.error = cvBack.error

(* Client and server understand each other's control structures: the        *)
(* server takes a command for what it is and reads what was meant, and the  *)
(* client takes the answers to its own commands for what they are.          *)
CommandsUnderstood == ServerReadsCommand /\ CommandsNotConfused /\ ClientReadsAnswer
=============================================================================
