---------------------------- MODULE MCTransport -----------------------------
(***************************************************************************)
(* The COTP connection and the MMS client, one part at a time; the other   *)
(* part stays in an initial state.                                         *)
(***************************************************************************)
EXTENDS Cotp, MmsClient

Opt(size) == [size |-> size, src |-> <<0, 1>>, dst |-> <<0, 2>>]
Plan(a, b, up, down, limit, cancels, releases) ==
  [options |-> [calling |-> Opt(a), called |-> Opt(b)],
   messages |-> [calling |-> up, called |-> down], limit |-> limit, cancels |-> cancels,
   releases |-> releases, foreign |-> None, probes |-> {}]
M1 == <<7>>
M2 == <<8, 9>>
M3 == <<1, 2, 3>>
M5 == <<1, 2, 3, 4, 5>>
M6 == <<1, 2, 3, 4, 5, 6>>
Probes == [size : {0, 2, 3, 5}, src : {<<>>, <<1>>, <<1, 2, 3, 4>>}, dst : {<<>>, <<9>>},
           srcRef : {1, 256}, dstRef : {0, 513}, data : {<<1>>, <<0, 240, 2>>}]
IdlePlan == Plan(2, 3, <<>>, <<>>, None, FALSE, FALSE)
MCPlans ==
  { IdlePlan, Plan(2, 3, <<M3, M2>>, <<M2, M1>>, None, TRUE, FALSE),
    Plan(3, 3, <<M6, M1>>, <<M5>>, None, TRUE, FALSE),
    Plan(2, 2, <<M3>>, <<>>, 2, FALSE, FALSE),
    Plan(3, 2, <<M1>>, <<>>, 2, FALSE, TRUE),
    [Plan(2, 3, <<>>, <<>>, 3, FALSE, FALSE) EXCEPT !.foreign = 3],
    [Plan(2, 3, <<>>, <<>>, None, FALSE, TRUE) EXCEPT !.foreign = 2],
    [Plan(2, 2, <<>>, <<>>, None, FALSE, FALSE) EXCEPT !.probes = Probes, !.foreign = 0] }
MCTsdus == {M1, M2, M3, M5, M6}
MCForeign == { Tpkt(<<9, 224, 0, 0, 0, 5, 0, 192, 1, 1>>), Tpkt(<<6, 224, 0, 0, 0, 5, 0>>), Tpkt(<<9, 224, 0, 0, 0, 5, 0, 200, 1, 0>>), Tpkt(EncodeDt(M2, FALSE)),
               Tpkt(EncodeDt(M1, TRUE)), Tpkt(<<2, 240, 128>>), Tpkt(EncodeDc(1, 5)), <<3, 0, 1, 0>>, <<3, 0, 0, 4>>, <<2, 0, 0, 8>> }

-----------------------------------------------------------------------------

AskOp(op) == [op |-> op, svc |-> "none", want |-> 0, size |-> 1, fault |-> "none", kind |-> "none"]
Dial(kind) == [AskOp("connect") EXCEPT !.kind = kind]
AcceptAnswer(calling) == [t |-> "accept", calling |-> calling, pdu |-> 4]
QuietPlan == [calling |-> 1, pdu |-> Nothing, stash |-> 2, firstId |-> 0, drops |-> 0, reports |-> 0,
          script |-> <<Dial("via")>>, initiate |-> {AcceptAnswer(5)}, dialErrors |-> {},
          concludes |-> {"concludeResp"}, answers |-> {"response"}, noise |-> {},
          stalls |-> FALSE]
Rd == ReadVariable
Rl == ReadList(2)
Wr == WriteVariable
Poll == AskOp("poll")
Bye == AskOp("disconnect")
MCMcPlans ==
  { QuietPlan,
    [QuietPlan EXCEPT !.script = <<Dial("via"), Rd, Rl, Wr, Poll>>, !.firstId = 5, !.reports = 1,
                  !.answers = {"response", "failure"}],
    [QuietPlan EXCEPT !.script = <<Dial("via"), Rd, Rl, Rd, Wr>>, !.calling = 2, !.drops = 1],
    [QuietPlan EXCEPT !.script = <<Dial("via"), Rl, Rd, Poll>>, !.answers = AnswerKinds, !.noise = {"badMms", "badIso"}],
    [QuietPlan EXCEPT !.script = <<Dial("via"), Rd, Poll, Poll, Poll>>, !.reports = 3, !.stash = 2],
    [QuietPlan EXCEPT !.script = <<Dial("via"), Rd, Poll, Bye, Poll>>, !.reports = 2, !.stash = 0, !.noise = {"empty"}],
    [QuietPlan EXCEPT !.script = <<Dial("via"), Rd, Bye, Dial("via"), Rd>>, !.noise = NoiseKinds, !.drops = 1,
                  !.concludes = {"concludeResp", "concludeError", "silence"}],
    [QuietPlan EXCEPT !.script = <<Dial("via"), Poll, AskOp("abort"), Rd>>, !.noise = {"finish", "concludeReq", "cut"}, !.drops = 1,
                  !.reports = 1],
    [QuietPlan EXCEPT !.script = <<AskOp("watch"), Dial("tcp"), Dial("tls"), Rd, AskOp("close"), AskOp("abort")>>,
                  !.dialErrors = DialErrors, !.drops = 1,
                  !.initiate = {AcceptAnswer(0), [t |-> "accept", calling |-> 1, pdu |-> Nothing]}
                               \cup {[t |-> a] : a \in {"refuse", "refuseAuthentication", "rejectAuthentication", "reject",
                                                        "initiateError", "otherSpdu", "badIso", "otherPdu", "badMms", "lost", "silence"}}],
    [QuietPlan EXCEPT !.script = <<Dial("via"), Rd, Poll, Bye>>, !.stalls = TRUE, !.noise = {"finish", "cut"}],
    [QuietPlan EXCEPT !.script = <<Dial("via"), Rd, Rd, AskOp("abort")>>, !.stalls = TRUE, !.drops = 1],
    [QuietPlan EXCEPT !.script = <<Dial("via"), [Rd EXCEPT !.size = 5], ReadList(0), DefineNamedList("encoding"), Bye, Bye, Rd, Poll>>] }
  \cup { [QuietPlan EXCEPT !.script = <<Dial("via"), ask>>, !.answers = AnswerKinds] :
           ask \in {ReadElement("none"), WriteElement("arguments"), WriteElement("none"), ReadNamedList, WriteNamedList,
                    GetNameList, ReadJournal, GetAccessAttributes, DefineNamedList("none"), DeleteNamedList,
                    GetNamedListAttributes, Identify, Status} }

-----------------------------------------------------------------------------

VARIABLE part

tpVars == <<part, ctVars, mcVars>>

TpInit ==
  /\ CtInit /\ McInit
  /\ \/ part = "cotp" /\ mcPlan = QuietPlan
     \/ part = "client" /\ ctPlan = IdlePlan

TpNext ==
  \/ part = "cotp" /\ CtNext /\ UNCHANGED <<part, mcVars>>
  \/ part = "client" /\ McNext /\ UNCHANGED <<part, ctVars>>

(* CtFairness while the connection is the part that runs. *)
RunningFairness ==
  \A e \in Ends :
    /\ WF_ctVars(part = "cotp" /\ SendCr(e)) /\ WF_ctVars(part = "cotp" /\ AwaitCr(e))
    /\ WF_ctVars(part = "cotp" /\ RecvData(e)) /\ WF_ctVars(part = "cotp" /\ CancelRecv(e))
    /\ WF_ctVars(part = "cotp" /\ WriteSegment(e))
    /\ SF_ctVars(part = "cotp" /\ \E m \in Tsdus : SendData(e, m))
    /\ SF_ctVars(part = "cotp" /\ \E n \in 1 .. MaxBuffer : Read(e, n))

(* The client waits for nothing in its initial state. *)
TpSpec == TpInit /\ [][TpNext]_tpVars /\ RunningFairness /\ McFairness
=============================================================================
