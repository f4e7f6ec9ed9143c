----------------------------- MODULE MmsClient ------------------------------
(***************************************************************************)
(* The stash of unconfirmed PDUs an MMS client keeps while it waits for    *)
(* something else: src/crates/iec61850-mms/src/mms/client/connection.rs.   *)
(***************************************************************************)
EXTENDS Naturals, Sequences, FiniteSets, SequencesExt

(* push_pending_unconfirmed: the oldest entries go while the stash is full. *)
PushPending(stash, limit, inner) ==
  IF limit = 0 THEN stash
  ELSE Append(SubSeq(stash, IF Len(stash) >= limit THEN Len(stash) - limit + 2 ELSE 1, Len(stash)), inner)

(* What push_pending_unconfirmed loses. *)
LostByPush(stash, limit, inner) ==
  IF limit = 0 THEN <<inner>>
  ELSE SubSeq(stash, 1, IF Len(stash) >= limit THEN Len(stash) - limit + 1 ELSE 0)

-----------------------------------------------------------------------------
(***************************************************************************)
(* The MMS client: client/connection.rs, services.rs, invoke_id.rs and     *)
(* mod.rs under src/crates/iec61850-mms/src/mms. One caller at a time (the  *)
(* methods take the client exclusively), a server that answers when and    *)
(* how it likes, timeouts, and callers that drop a call between two of its  *)
(* awaits.                                                                 *)
(*                                                                         *)
(* A TSDU is a record that names what its layers carry; the transport is   *)
(* the channel that TsduChannel promises. Requests, answers and reports    *)
(* carry a number of their own, which only the properties look at.         *)
(***************************************************************************)

CONSTANTS McPlans,            \* scenarios
          IdSpan,             \* invoke ids are 0 .. IdSpan - 1
          Pool,               \* INVOKE_ID_POOL
          MaxAbandoned,       \* MAX_ABANDONED_INVOKE_IDS
          LengthSpan,         \* the lengths two octets can say
          DefaultCalling,     \* DEFAULT_MAX_SERV_OUTSTANDING_CALLING
          DefaultPduSize,     \* DEFAULT_MAX_PDU_SIZE
          Nothing

VARIABLES mcPlan,
          conn,    \* MmsConnection and InvokeIdAllocator
          call,    \* the call in progress
          wire,    \* the transport, when there is one
          served,  \* the requests the server has taken and not answered
          ended,   \* history: the calls that have ended
          told,    \* history: what became of the reports the client read
          spent    \* how many of each bounded step have been taken

mcVars == <<mcPlan, conn, call, wire, served, ended, told, spent>>

NoCall == [op |-> "none"]
NoWire == [up |-> <<>>, down |-> <<>>, cut |-> FALSE, torn |-> "no", stalled |-> FALSE, number |-> 0]

(* MmsConnection::with_timer and InvokeIdAllocator::new. *)
NewConnection(plan) ==
  [state |-> "Closed", transport |-> 0, maxPdu |-> DefaultPduSize, maxCalling |-> DefaultCalling,
   stash |-> <<>>, abandoned |-> <<>>, association |-> 0, flag |-> Nothing,
   next |-> plan.firstId, pending |-> {}]

McInit ==
  /\ mcPlan \in McPlans
  /\ conn = NewConnection(mcPlan)
  /\ call = NoCall /\ wire = NoWire /\ served = {} /\ ended = {}
  /\ told = [delivered |-> <<>>, lost |-> {}, read |-> {}, released |-> 0]
  /\ spent = [asks |-> 0, timeouts |-> 0, drops |-> 0, reports |-> 0, noise |-> 0, links |-> 0]

Idle == call.op = "none"
McSpend(what) == spent' = [spent EXCEPT ![what] = @ + 1]

-----------------------------------------------------------------------------
(* The connection. *)

(* set_state, which also sets the flag that was handed out. *)
SetState(c, s) ==
  [c EXCEPT !.state = s, !.flag = IF @ = Nothing THEN @ ELSE s = "Connected"]

(* close_raw. *)
CloseRaw(c) == SetState([c EXCEPT !.transport = 0, !.abandoned = <<>>], "Closed")

(* reset_association_state. *)
ResetAssociation(c) ==
  [c EXCEPT !.transport = 0, !.maxPdu = DefaultPduSize, !.maxCalling = DefaultCalling,
            !.stash = <<>>, !.abandoned = <<>>]

AtLeast1(n) == IF n = 0 THEN 1 ELSE n
LeastOf(a, b) == IF a <= b THEN a ELSE b
MostOf(a, b) == IF a >= b THEN a ELSE b

(* proposed_max_calling. *)
Proposed == AtLeast1(IF mcPlan.calling = Nothing THEN DefaultCalling ELSE mcPlan.calling)

(* negotiate_max_calling: the answer, between 1 and what was proposed. *)
NegotiateCalling(answer) == LeastOf(AtLeast1(answer), Proposed)

(* negotiate_max_pdu_size. *)
NegotiatePdu(answer) ==
  LET own == IF mcPlan.pdu = Nothing THEN DefaultPduSize ELSE mcPlan.pdu
  IN LeastOf(own, IF answer = Nothing THEN own ELSE answer)

(* abandon_invoke_id: a bounded list, the oldest going first. *)
Abandon(c, id) ==
  LET ceiling == MostOf(MaxAbandoned, c.maxCalling)
      from == IF Len(c.abandoned) >= ceiling THEN Len(c.abandoned) - ceiling + 2 ELSE 1
  IN [c EXCEPT !.abandoned = Append(SubSeq(@, from, Len(@)), id)]

(* recv_confirmed_response and abandon_dropped_call: only while connected. *)
GiveUp(c, id) == IF c.state = "Connected" THEN Abandon(c, id) ELSE c

(* take_abandoned, without its answer. *)
TakeAbandoned(c, id) ==
  IF Contains(c.abandoned, id) THEN [c EXCEPT !.abandoned = RemoveFirst(@, id)] ELSE c

(* stash_unconfirmed: an empty one is ignored. *)
StashUnconfirmed(c, m) ==
  IF m.t = "empty" THEN c ELSE [c EXCEPT !.stash = PushPending(@, mcPlan.stash, m.k)]

(* What stashing m loses. *)
LostByStash(c, m) ==
  IF m.t = "empty" THEN {} ELSE ToSet(LostByPush(c.stash, mcPlan.stash, m.k))

(* The id k steps after n; 0 is skipped. *)
IdAfter(n, k) == ((n + k - 1) % (IdSpan - 1)) + 1

(* InvokeIdAllocator::allocate: the first id after the last one that is    *)
(* not pending.                                                            *)
FreeSteps(c) == { k \in 1 .. Pool + 1 : IdAfter(c.next, k) \notin c.pending }
CanAllocate(c) == Cardinality(c.pending) < Pool /\ FreeSteps(c) # {}
Allocate(c) ==
  LET id == IdAfter(c.next, CHOOSE k \in FreeSteps(c) : \A j \in FreeSteps(c) : k <= j)
  IN [c EXCEPT !.next = id, !.pending = @ \cup {id}]

(* InvokeIdAllocator::release. *)
Release(c, id) == [c EXCEPT !.pending = @ \ {id}]

-----------------------------------------------------------------------------
(* Calls. *)

NewCall(ask) ==
  [op |-> ask.op, ask |-> ask, n |-> spent.asks + 1, pc |-> "start", at |-> "nowhere", id |-> 0,
   out |-> [t |-> "nothing"]]

(* The call ends: CallGuard releases its id on every path. *)
Return(c, k, result, of) ==
  /\ conn' = Release(c, k.id)
  /\ call' = NoCall
  /\ ended' = ended \cup {[n |-> k.n, ask |-> k.ask, result |-> result, of |-> of,
                         on |-> c.association]}

Go(c, k) == conn' = c /\ call' = k /\ UNCHANGED ended

NoAnswer == [t |-> "none"]

(* send_mms_pdu of a confirmed request, up to its write. *)
SendRequest(c, k) ==
  IF k.ask.size > c.maxPdu THEN Return(c, k, "PduTooLarge", NoAnswer)
  ELSE IF c.transport = 0 THEN Return(c, k, "NotConnected", NoAnswer)
  ELSE Go(c, [k EXCEPT !.pc = "write",
                       !.out = [t |-> "request", id |-> k.id, n |-> k.n, svc |-> k.ask.svc,
                                want |-> k.ask.want]])

(* reserve_outstanding_slot: whether there is one. *)
SlotFree(c) == Len(c.abandoned) < AtLeast1(c.maxCalling)

(* The services of services.rs: the confirmed service each one uses, what   *)
(* becomes of the results, how many there should be, and what can be wrong *)
(* with the arguments.                                                     *)
Ask(svc, way, want) ==
  [op |-> "service", svc |-> svc, way |-> way, want |-> want, size |-> 1, fault |-> "none", kind |-> "none"]

ReadVariable == Ask("read", "one", 1)
WriteVariable == Ask("write", "one", 1)
ReadElement(fault) == [ReadVariable EXCEPT !.fault = fault]
WriteElement(fault) == [WriteVariable EXCEPT !.fault = fault]
ReadList(n) == [Ask("read", "counted", n) EXCEPT !.fault = IF n = 0 THEN "arguments" ELSE "none"]
ReadNamedList == Ask("read", "all", 2)
WriteNamedList == Ask("write", "all", 2)
GetNameList == Ask("getNameList", "plain", 0)
ReadJournal == Ask("readJournal", "plain", 0)
GetAccessAttributes == Ask("getAccess", "plain", 0)
DefineNamedList(fault) == [Ask("define", "plain", 0) EXCEPT !.fault = fault]
DeleteNamedList == Ask("delete", "plain", 0)
GetNamedListAttributes == Ask("getList", "plain", 0)
Identify == Ask("identify", "plain", 0)
Status == Ask("status", "plain", 0)

(* A service of services.rs, up to its first await: the arguments are      *)
(* checked before an id is taken, the encoding after.                      *)
StartService(k) ==
  LET c == Allocate(conn)
      numbered == [k EXCEPT !.id = c.next]
  IN IF k.ask.fault = "arguments" THEN Return(conn, k, "PduParse", NoAnswer)
     ELSE IF ~CanAllocate(conn) THEN Return(conn, k, "OutstandingCallLimit", NoAnswer)
     ELSE IF k.ask.fault = "encoding" THEN Return(c, numbered, "PduParse", NoAnswer)
     ELSE IF SlotFree(c) THEN SendRequest(c, numbered)
     ELSE Go(c, [numbered EXCEPT !.pc = "recv", !.at = "slot"])

(* connect, connect_tls and connect_via, after MmsClient::connect has      *)
(* cleared the allocator.                                                  *)
StartConnect(k) ==
  Go(SetState(ResetAssociation([conn EXCEPT !.pending = {}]), "Connecting"),
     [k EXCEPT !.pc = "dial", !.at = IF k.ask.kind = "via" THEN "cotp" ELSE "tcp"])

(* recv_unconfirmed_pdu_with_timeout: what is stashed comes first. *)
StartPoll(k) ==
  IF conn.stash # <<>>
  THEN /\ Return([conn EXCEPT !.stash = Tail(@)], k, "Ok", NoAnswer)
       /\ told' = [told EXCEPT !.delivered = Append(@, Head(conn.stash))]
  ELSE Go(conn, [k EXCEPT !.pc = "recv", !.at = "unconfirmed"]) /\ UNCHANGED told

(* disconnect. *)
StartDisconnect(k) ==
  IF conn.state # "Connected" THEN Return(conn, k, "NotConnected", NoAnswer)
  ELSE Go(SetState(conn, "Closing"), [k EXCEPT !.pc = "write", !.out = [t |-> "concludeReq"]])

(* abort. *)
StartAbort(k) ==
  IF conn.state = "Closed" THEN Return(conn, k, "Ok", NoAnswer)
  ELSE IF conn.transport = 0 THEN Return(CloseRaw(conn), k, "NotConnected", NoAnswer)
  ELSE Go(conn, [k EXCEPT !.pc = "write", !.out = [t |-> "abort"]])

(* connected_flag. *)
HandOutFlag(c) == [c EXCEPT !.flag = IF @ = Nothing THEN c.state = "Connected" ELSE @]

(* The transport goes when the connection no longer holds it. *)
WireOf(c, w) == IF c.transport = 0 THEN NoWire ELSE w
ServedOf(c) == IF c.transport = 0 THEN {} ELSE served

(* The caller calls the next method. *)
StartAsk ==
  /\ Idle /\ spent.asks < Len(mcPlan.script)
  /\ LET k == NewCall(mcPlan.script[spent.asks + 1])
     IN \/ k.op = "connect" /\ StartConnect(k) /\ told' = [told EXCEPT !.lost = @ \cup ToSet(conn.stash)]
        \/ k.op = "service" /\ StartService(k) /\ UNCHANGED told
        \/ k.op = "poll" /\ StartPoll(k)
        \/ k.op = "disconnect" /\ StartDisconnect(k) /\ UNCHANGED told
        \/ k.op = "abort" /\ StartAbort(k) /\ UNCHANGED told
        \/ k.op = "close" /\ Return(CloseRaw(conn), k, "Ok", NoAnswer) /\ UNCHANGED told
        \/ k.op = "watch" /\ Return(HandOutFlag(conn), k, "Ok", NoAnswer) /\ UNCHANGED told
  /\ wire' = WireOf(conn', wire) /\ served' = ServedOf(conn')
  /\ McSpend("asks") /\ UNCHANGED mcPlan

-----------------------------------------------------------------------------
(* Establishing an association. *)

DialSteps(kind) ==
  CASE kind = "tcp" -> <<"tcp", "cotp">>
    [] kind = "tls" -> <<"tcp", "handshake", "cotp">>
    [] kind = "via" -> <<"cotp">>

(* The transport is set up one layer after another ... *)
DialStep ==
  /\ call.op = "connect" /\ call.pc = "dial"
  /\ LET steps == DialSteps(call.ask.kind)
         i == CHOOSE j \in DOMAIN steps : steps[j] = call.at
     IN call' = IF i = Len(steps) THEN [call EXCEPT !.pc = "initiate", !.at = "nowhere"]
                ELSE [call EXCEPT !.at = steps[i + 1]]
  /\ UNCHANGED <<mcPlan, conn, wire, served, ended, told, spent>>

(* connect_tls reports an alert the peer sent at a later step as the       *)
(* handshake's failure (tls_setup_failure); association_failed.            *)
DialError(kind, at, e) ==
  IF kind = "tls" /\ (at = "handshake" \/ (at = "cotp" /\ e = "alert")) THEN "TlsHandshake"
  ELSE IF e = "alert" THEN "Transport" ELSE e

(* ... or not ... *)
DialFails(e) ==
  /\ call.op = "connect" /\ call.pc = "dial" /\ e \in mcPlan.dialErrors
  /\ Return(CloseRaw(conn), call, DialError(call.ask.kind, call.at, e), NoAnswer)
  /\ UNCHANGED <<mcPlan, wire, served, told, spent>>

(* ... within connect_timeout_ms. *)
DialTimeout ==
  /\ call.op = "connect" /\ call.pc = "dial"
  /\ Return(CloseRaw(conn), call, IF call.at = "handshake" THEN "TlsHandshake" ELSE "ConnectTimeout", NoAnswer)
  /\ UNCHANGED <<mcPlan, wire, served, told, spent>>

(* The error of run_initiate_handshake for an answer that does not accept: *)
(* check_session_accept, association_rejected.                             *)
InitiateError(answer) ==
  CASE answer = "refuse" -> "SessionRefused"
    [] answer \in {"refuseAuthentication", "rejectAuthentication"} -> "AuthenticationRejected"
    [] answer = "reject" -> "AssociateFailed"
    [] answer = "initiateError" -> "InitiateFailed"
    [] answer \in {"otherSpdu", "badIso"} -> "IsoError"
    [] answer \in {"otherPdu", "badMms"} -> "PduParse"
    [] answer = "lost" -> "ConnectionLost"
    [] answer = "silence" -> "ServiceTimeout"

(* run_initiate_handshake and finish_association. *)
Associated(c, answer) ==
  SetState([c EXCEPT !.transport = spent.links + 1, !.maxCalling = NegotiateCalling(answer.calling),
                     !.maxPdu = NegotiatePdu(answer.pdu), !.association = @ + 1], "Connected")

(* The peer takes nothing in: the write of the request, under no timeout,   *)
(* does not return.                                                        *)
InitiateStalls ==
  /\ call.op = "connect" /\ call.pc = "initiate" /\ mcPlan.stalls
  /\ call' = [call EXCEPT !.at = "stalled"]
  /\ UNCHANGED <<mcPlan, conn, wire, served, ended, told, spent>>

Initiate(answer) ==
  /\ call.op = "connect" /\ call.pc = "initiate" /\ call.at # "stalled" /\ answer \in mcPlan.initiate
  /\ IF answer.t = "accept"
     THEN /\ Return(Associated(conn, answer), call, "Ok", NoAnswer)
          /\ wire' = [NoWire EXCEPT !.number = spent.links + 1]
          /\ McSpend("links")
     ELSE /\ Return(CloseRaw(conn), call, InitiateError(answer.t), NoAnswer)
          /\ UNCHANGED <<wire, spent>>
  /\ UNCHANGED <<mcPlan, served, told>>

-----------------------------------------------------------------------------
(* Writing. *)

(* The await the call is in fails with e: the errors of recv_pdu as        *)
(* exchange, recv_unconfirmed and disconnect pass them on.                 *)
AwaitFails(c, k, e) ==
  IF k.at \in {"conclude", "release"} THEN Return(CloseRaw(c), k, "Ok", NoAnswer)
  ELSE Return(c, k, e, NoAnswer)

(* send_tsdu has written: what follows the write. *)
Written(k) ==
  CASE k.out.t = "request" -> Go(conn, [k EXCEPT !.pc = "recv", !.at = "answer"])
    [] k.out.t = "concludeReq" -> Go(conn, [k EXCEPT !.pc = "recv", !.at = "conclude"])
    [] k.out.t = "rlrq" -> Go(conn, [k EXCEPT !.pc = "recv", !.at = "release"])
    [] k.out.t = "abort" -> Return(CloseRaw(conn), k, "Ok", NoAnswer)
    [] k.out.t \in {"concludeResp", "dn"} -> AwaitFails(CloseRaw(conn), k, "ReleasedByPeer")

(* A server that has stopped reading leaves no room to write into. *)
WriteDone ==
  /\ call.op # "none" /\ call.pc = "write" /\ ~wire.stalled
  /\ Written(call)
  /\ wire' = WireOf(conn', [wire EXCEPT !.up = Append(@, call.out),
                                        !.torn = IF @ = "request" THEN "written" ELSE @])
  /\ served' = ServedOf(conn')
  /\ UNCHANGED <<mcPlan, told, spent>>

(* transport_failed. *)
TransportFailed(c) == CloseRaw(c)

(* send_tsdu fails, since the peer has closed. *)
WriteFails ==
  /\ call.op # "none" /\ call.pc = "write" /\ wire.cut
  /\ LET c == TransportFailed(conn)
     IN CASE call.out.t = "rlrq" -> Return(CloseRaw(c), call, "Ok", NoAnswer)
          [] call.out.t \in {"concludeResp", "dn"} -> AwaitFails(CloseRaw(c), call, "ReleasedByPeer")
          [] call.out.t \in {"concludeReq", "abort"} -> Return(CloseRaw(c), call, "Transport", NoAnswer)
          [] call.out.t = "request" -> Return(c, call, "Transport", NoAnswer)
  /\ wire' = WireOf(conn', wire) /\ served' = ServedOf(conn')
  /\ UNCHANGED <<mcPlan, told, spent>>

-----------------------------------------------------------------------------
(* Receiving. *)

IsReport(m) == m.t \in {"report", "empty"}
IsAnswer(m) == m.t \in {"response", "error", "reject"}

(* response_invoke_id: a reject may carry none. *)
AnswerId(m) == IF IsAnswer(m) THEN m.id ELSE Nothing

(* rewrap_response puts a length of at most two octets back; the decoder   *)
(* takes the response of its own service only.                             *)
Decodes(svc, m) == m.size < LengthSpan /\ m.svc = svc

(* handle_confirmed_error. *)
ConfirmedError(m) == IF m.readable THEN "ServiceError" ELSE "PduParse"

(* The answer to a request of svc; then is the result of a response that   *)
(* decodes.                                                                *)
Dispatched(svc, m, then) ==
  CASE m.t = "response" -> IF Decodes(svc, m) THEN then ELSE "PduParse"
    [] m.t = "error" -> ConfirmedError(m)
    [] m.t = "reject" -> "RejectError"
    [] OTHER -> "PduParse"

(* check_access_result_count. *)
CheckCount(count, requested) == count = requested

(* One result is the call's own. *)
OneResult(m) ==
  IF ~CheckCount(m.count, 1) THEN "PduParse" ELSE IF m.failure THEN "DataAccessError" ELSE "Ok"

DispatchRead(m) == Dispatched("read", m, OneResult(m))
DispatchWrite(m) == Dispatched("write", m, OneResult(m))
DispatchReadList(m) == Dispatched("read", m, "Ok")
DispatchWriteList(m) == Dispatched("write", m, "Ok")
DispatchReadJournal(m) == Dispatched("readJournal", m, "Ok")
DispatchGetNameList(m) == Dispatched("getNameList", m, "Ok")
DispatchGetAccess(m) == Dispatched("getAccess", m, "Ok")
DispatchDefine(m) == Dispatched("define", m, "Ok")
DispatchDelete(m) == Dispatched("delete", m, "Ok")
DispatchGetList(m) == Dispatched("getList", m, "Ok")
DispatchIdentify(m) == Dispatched("identify", m, "Ok")
DispatchStatus(m) == Dispatched("status", m, "Ok")

(* read_list counts what dispatch_read_list_response passes on. *)
DispatchCounted(ask, m) ==
  IF DispatchReadList(m) = "Ok" /\ ~CheckCount(m.count, ask.want) THEN "PduParse" ELSE DispatchReadList(m)

Dispatch(ask, m) ==
  CASE ask.way = "one" /\ ask.svc = "read" -> DispatchRead(m)
    [] ask.way = "one" /\ ask.svc = "write" -> DispatchWrite(m)
    [] ask.way = "counted" -> DispatchCounted(ask, m)
    [] ask.way = "all" /\ ask.svc = "read" -> DispatchReadList(m)
    [] ask.way = "all" /\ ask.svc = "write" -> DispatchWriteList(m)
    [] ask.svc = "readJournal" -> DispatchReadJournal(m)
    [] ask.svc = "getNameList" -> DispatchGetNameList(m)
    [] ask.svc = "getAccess" -> DispatchGetAccess(m)
    [] ask.svc = "define" -> DispatchDefine(m)
    [] ask.svc = "delete" -> DispatchDelete(m)
    [] ask.svc = "getList" -> DispatchGetList(m)
    [] ask.svc = "identify" -> DispatchIdentify(m)
    [] ask.svc = "status" -> DispatchStatus(m)

(* Mutant: any answer is the answer. *)
AnswersAny(k, m) == IsAnswer(m)

(* await_response: an answer with this id, or a PDU with none. *)
Answers(k, m) == AnswerId(m) \in {k.id, Nothing}

(* await_outstanding_slot. *)
AwaitSlot(k, m) ==
  LET c == IF IsReport(m) THEN StashUnconfirmed(conn, m)
           ELSE IF AnswerId(m) # Nothing THEN TakeAbandoned(conn, AnswerId(m)) ELSE conn
  IN IF SlotFree(c) THEN SendRequest(c, k) ELSE Go(c, k)

(* await_response. *)
AwaitResponse(k, m) ==
  IF IsReport(m) THEN Go(StashUnconfirmed(conn, m), k)
  ELSE IF Answers(k, m) THEN Return(conn, k, Dispatch(k.ask, m), m)
  ELSE Go(TakeAbandoned(conn, AnswerId(m)), k)

(* await_unconfirmed. *)
AwaitUnconfirmed(k, m) ==
  IF m.t = "report" THEN Return(conn, k, "Ok", NoAnswer)
  ELSE IF m.t = "empty" THEN Go(conn, k)
  ELSE IF AnswerId(m) # Nothing /\ Contains(conn.abandoned, AnswerId(m))
  THEN Go(TakeAbandoned(conn, AnswerId(m)), k)
  ELSE Return(conn, k, "PduParse", NoAnswer)

(* await_conclude_response. *)
AwaitConclude(k, m) ==
  CASE m.t = "concludeError" -> Return(SetState(conn, "Connected"), k, "ConcludeRejected", NoAnswer)
    [] m.t = "concludeResp" -> Go(conn, [k EXCEPT !.pc = "write", !.out = [t |-> "rlrq"]])
    [] m.t = "badMms" -> AwaitFails(conn, k, "PduParse")
    [] IsReport(m) -> Go(StashUnconfirmed(conn, m), k)
    [] OTHER -> Go(conn, k)

(* await_release_response reads TSDUs, and release_association has no      *)
(* result; disconnect closes.                                              *)
AwaitRelease(k, m) ==
  IF m.t \in {"dn", "abort", "badIso"} THEN Return(CloseRaw(conn), k, "Ok", NoAnswer) ELSE Go(conn, k)

(* recv_pdu: a Conclude request of the peer is answered, and ends it all. *)
RecvPdu(k, m) ==
  CASE m.t = "badMms" -> Return(conn, k, "PduParse", NoAnswer)
    [] m.t = "concludeReq" -> Go(conn, [k EXCEPT !.pc = "write", !.out = [t |-> "concludeResp"]])
    [] m.t \notin {"badMms", "concludeReq"} /\ k.at = "slot" -> AwaitSlot(k, m)
    [] m.t \notin {"badMms", "concludeReq"} /\ k.at = "answer" -> AwaitResponse(k, m)
    [] m.t \notin {"badMms", "concludeReq"} /\ k.at = "unconfirmed" -> AwaitUnconfirmed(k, m)

(* recv_mms_bytes: what the session layer indicates comes first. *)
RecvMmsBytes(k, m) ==
  CASE m.t = "finish" -> Go(conn, [k EXCEPT !.pc = "write", !.out = [t |-> "dn"]])
    [] m.t \in {"abort", "dn"} -> AwaitFails(CloseRaw(conn), k, "ConnectionLost")
    [] m.t = "badIso" -> AwaitFails(conn, k, "IsoError")
    [] OTHER -> IF k.at = "conclude" THEN AwaitConclude(k, m) ELSE RecvPdu(k, m)

(* What becomes of a report that is read, and a release of the peer. *)
Tell(k, m) ==
  LET read == IF m.t = "report" THEN [told EXCEPT !.read = @ \cup {m.k}] ELSE told
  IN told' = CASE m.t = "report" /\ k.at = "unconfirmed" -> [read EXCEPT !.delivered = Append(@, m.k)]
               [] m.t = "report" /\ k.at = "release" -> [read EXCEPT !.lost = @ \cup {m.k}]
               [] m.t = "report" /\ k.at \notin {"unconfirmed", "release"} ->
                    [read EXCEPT !.lost = @ \cup LostByStash(conn, m)]
               [] m.t \in {"finish", "concludeReq"} /\ k.at \notin {"conclude", "release"} ->
                    [read EXCEPT !.released = wire.number]
               [] OTHER -> read

(* recv_tsdu. *)
Receive ==
  /\ call.op # "none" /\ call.pc = "recv" /\ wire.down # <<>>
  /\ LET m == Head(wire.down)
     IN /\ IF call.at = "release" THEN AwaitRelease(call, m) ELSE RecvMmsBytes(call, m)
        /\ Tell(call, m)
  /\ wire' = WireOf(conn', [wire EXCEPT !.down = Tail(@)]) /\ served' = ServedOf(conn')
  /\ UNCHANGED <<mcPlan, spent>>

(* The transport has ended. *)
ReceiveEnd ==
  /\ call.op # "none" /\ call.pc = "recv" /\ wire.down = <<>> /\ wire.cut
  /\ AwaitFails(TransportFailed(conn), call, "ConnectionLost")
  /\ wire' = WireOf(conn', wire) /\ served' = ServedOf(conn')
  /\ UNCHANGED <<mcPlan, told, spent>>

(* There is no transport: not_connected. *)
ReceiveNone ==
  /\ call.op # "none" /\ call.pc = "recv" /\ conn.transport = 0
  /\ AwaitFails(conn, call, "NotConnected")
  /\ UNCHANGED <<mcPlan, wire, served, told, spent>>

Replies == {"concludeResp", "dn"}

(* Mutant: the wait for a slot has no timeout. *)
TimedExceptSlot ==
  call.op # "none" /\ call.at # "slot"
  /\ (call.pc = "recv" \/ (call.pc = "write" /\ call.out.t \in Replies))

(* Whether the call is inside an await that with_timeout bounds: a read,   *)
(* and the answer that a read gives to the peer's release.                 *)
Timed == call.op # "none" /\ (call.pc = "recv" \/ (call.pc = "write" /\ call.out.t \in Replies))

(* A write that is left leaves part of a frame behind. *)
TornBy(k) == IF k.pc # "write" THEN wire.torn ELSE IF k.out.t = "request" THEN "request" ELSE "other"

(* request_timeout_ms elapses, or a poll's own timeout. *)
Timeout ==
  /\ Timed
  /\ CASE call.at = "slot" -> Return(conn, call, "OutstandingCallLimit", NoAnswer)
       [] call.at = "answer" -> Return(GiveUp(conn, call.id), call, "ServiceTimeout", NoAnswer)
       [] call.at = "unconfirmed" -> Return(conn, call, "Nothing", NoAnswer)
       [] call.at \in {"conclude", "release"} -> Return(CloseRaw(conn), call, "Ok", NoAnswer)
  /\ wire' = WireOf(conn', [wire EXCEPT !.torn = TornBy(call)]) /\ served' = ServedOf(conn')
  /\ UNCHANGED <<mcPlan, told, spent>>

(* CallGuard::drop, by the stage of the call. *)
DropCall(c, k) ==
  IF k.pc = "write" /\ k.out.t = "request" THEN CloseRaw(c)
  ELSE IF k.at = "answer" THEN GiveUp(c, k.id) ELSE c

(* CallGuard::drop releases the id. *)
ReleaseDropped(c, k) == Release(c, k.id)

(* The caller drops the call at one of its awaits; the methods that are    *)
(* not confirmed services have no guard.                                   *)
Drop ==
  /\ call.op # "none" /\ spent.drops < mcPlan.drops
  /\ conn' = IF call.op = "service" THEN ReleaseDropped(DropCall(conn, call), call) ELSE conn
  /\ call' = NoCall
  /\ ended' = ended \cup {[n |-> call.n, ask |-> call.ask, result |-> "dropped", of |-> NoAnswer,
                         on |-> conn.association]}
  /\ wire' = WireOf(conn', [wire EXCEPT !.torn = TornBy(call)]) /\ served' = ServedOf(conn')
  /\ McSpend("drops") /\ UNCHANGED <<mcPlan, told>>

-----------------------------------------------------------------------------
(* The server. *)

Put(m) == wire' = [wire EXCEPT !.down = Append(@, m)]
Linked == wire.number # 0 /\ ~wire.cut

(* It takes the next TSDU: a request is under way, a release is answered. *)
ServerTake ==
  /\ Linked /\ ~wire.stalled /\ wire.up # <<>> /\ wire.torn \in {"no", "other"}
  /\ LET m == Head(wire.up)
         rest == [wire EXCEPT !.up = Tail(@)]
         answer(a) == [rest EXCEPT !.down = Append(@, [t |-> a])]
     IN \/ m.t = "request" /\ served' = served \cup {m} /\ wire' = rest
        \/ m.t = "concludeReq" /\ UNCHANGED served
           /\ \E a \in mcPlan.concludes : wire' = IF a = "silence" THEN rest ELSE answer(a)
        \/ m.t = "rlrq" /\ UNCHANGED served /\ wire' = answer("dn")
        \/ m.t \in {"concludeResp", "dn", "abort"} /\ UNCHANGED served /\ wire' = [rest EXCEPT !.cut = TRUE]
  /\ UNCHANGED <<mcPlan, conn, call, ended, told, spent>>

(* It stops reading for good, its receive buffers full. *)
ServerStalls ==
  /\ Linked /\ mcPlan.stalls /\ ~wire.stalled
  /\ wire' = [wire EXCEPT !.stalled = TRUE]
  /\ UNCHANGED <<mcPlan, conn, call, served, ended, told, spent>>

(* It answers a request, in whatever order. *)
ServerAnswer(r, a) ==
  /\ Linked /\ r \in served /\ a \in mcPlan.answers
  /\ LET m == [t |-> "response", id |-> r.id, of |-> r.n, svc |-> r.svc, count |-> r.want,
               failure |-> FALSE, readable |-> TRUE, size |-> 1]
     IN Put(CASE a = "response" -> m
              [] a = "failure" -> [m EXCEPT !.failure = TRUE]
              [] a = "extra" -> [m EXCEPT !.count = @ + 1]
              [] a = "long" -> [m EXCEPT !.size = LengthSpan]
              [] a = "other" -> [m EXCEPT !.svc = IF r.svc = "read" THEN "status" ELSE "read"]
              [] a = "error" -> [m EXCEPT !.t = "error"]
              [] a = "badError" -> [m EXCEPT !.t = "error", !.readable = FALSE]
              [] a = "reject" -> [m EXCEPT !.t = "reject"]
              [] a = "rejectUnnamed" -> [m EXCEPT !.t = "reject", !.id = Nothing])
  /\ served' = served \ {r}
  /\ UNCHANGED <<mcPlan, conn, call, ended, told, spent>>

(* It sends a report. *)
ServerReport ==
  /\ Linked /\ spent.reports < mcPlan.reports
  /\ Put([t |-> "report", k |-> spent.reports + 1])
  /\ McSpend("reports") /\ UNCHANGED <<mcPlan, conn, call, served, ended, told>>

(* It releases or aborts the association, sends what does not decode, or   *)
(* closes the transport.                                                   *)
ServerSends(m) ==
  /\ Linked /\ m \in mcPlan.noise /\ spent.noise < 1
  /\ wire' = IF m = "cut" THEN [wire EXCEPT !.cut = TRUE] ELSE [wire EXCEPT !.down = Append(@, [t |-> m])]
  /\ McSpend("noise") /\ UNCHANGED <<mcPlan, conn, call, served, ended, told>>

DialErrors == {"Transport", "ConnectionLost", "IsoError", "alert"}
AnswerKinds ==
  {"response", "failure", "extra", "long", "other", "error", "badError", "reject", "rejectUnnamed"}
NoiseKinds == {"concludeReq", "finish", "abort", "dn", "badIso", "badMms", "empty", "cut"}

McClient ==
  \/ StartAsk \/ DialStep \/ DialTimeout \/ WriteDone \/ WriteFails \/ Receive \/ ReceiveEnd
  \/ ReceiveNone \/ Timeout \/ Drop \/ InitiateStalls
  \/ \E e \in DialErrors : DialFails(e)
  \/ \E answer \in mcPlan.initiate : Initiate(answer)

McNext ==
  \/ McClient
  \/ ServerTake \/ ServerReport \/ ServerStalls
  \/ \E r \in served, a \in AnswerKinds : ServerAnswer(r, a)
  \/ \E m \in NoiseKinds : ServerSends(m)

(* The executor polls the call and its timer; a write goes through while   *)
(* the server reads and fails once it has closed. Nothing is assumed of    *)
(* the server, which may stop reading, answering or sending for good.      *)
McFairness ==
  /\ WF_mcVars(DialTimeout) /\ WF_mcVars(WriteDone \/ WriteFails) /\ WF_mcVars(Receive) /\ WF_mcVars(Timeout)
  /\ WF_mcVars(\E answer \in mcPlan.initiate : Initiate(answer))

McSpec == McInit /\ [][McNext]_mcVars /\ McFairness

-----------------------------------------------------------------------------
(* Properties. *)

States == {"Closed", "Connecting", "Connected", "Closing"}

(* A call that returns an answer returns the one the server gave to its    *)
(* own request, of its own service and with a result for each variable it  *)
(* named, whichever answers came late or on an earlier association         *)
(* (recv_confirmed_response, dispatch_read_response).                      *)
AnswerIsOwn ==
  \A e \in ended :
    /\ e.of.t # "none" /\ AnswerId(e.of) # Nothing => e.of.of = e.n
    /\ e.result = "Ok" /\ e.ask.op = "service" =>
         /\ e.of.of = e.n
         /\ e.of.svc = e.ask.svc
         /\ e.ask.way \in {"one", "counted"} => e.of.count = e.ask.want

(* The calls that ended although their request was not answered, other     *)
(* than by a timeout or a drop: something did not decode.                  *)
Misread == { e.n : e \in { x \in ended : x.result \in {"PduParse", "IsoError", "RejectError"} } }

Outstanding ==
  { m.n : m \in { x \in ToSet(wire.up) : x.t = "request" } } \cup { r.n : r \in served }
  \cup { m.of : m \in { x \in ToSet(wire.down) : IsAnswer(x) } }

(* No more requests are outstanding at a connected server than was         *)
(* negotiated, counting those that timed out or were dropped               *)
(* (reserve_outstanding_slot, CallGuard).                                  *)
OutstandingWithinLimit ==
  conn.state = "Connected" => Cardinality(Outstanding \ Misread) <= conn.maxCalling

(* Between calls no invoke id is taken: every way a call can end gives its *)
(* id back, the ways it can be dropped included (CallGuard).               *)
IdsReturned == Idle => conn.pending = {}

(* Calls and answers are matched by invoke id: a call returns the answer   *)
(* to its own request, the server never has more requests outstanding than *)
(* were negotiated, and no call that has ended keeps an id.                *)
CallsMatched == AnswerIsOwn /\ OutstandingWithinLimit /\ IdsReturned

(* The call is in a write that no timeout bounds, to a server that neither *)
(* reads nor closes.                                                       *)
HeldByPeer ==
  \/ call.op = "connect" /\ call.pc = "initiate" /\ call.at = "stalled"
  \/ call.op # "none" /\ call.pc = "write" /\ call.out.t \notin Replies /\ wire.stalled /\ ~wire.cut

(* Every call ends, however the server is silent, slow or wrong: each wait *)
(* for it, and each answer to its release, has its timeout (with_timeout). *)
(* Only a request, a release or an abort of the client itself is written   *)
(* without one (send_tsdu) and can be held by a server that stops reading. *)
CallsEnd == call.op # "none" ~> (call.op = "none" \/ HeldByPeer)
=============================================================================
