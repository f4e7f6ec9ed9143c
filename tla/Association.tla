----------------------------- MODULE Association -----------------------------
(***************************************************************************)
(* The life of the associations of a server (lifecycle.rs): the accept      *)
(* loop and its connection slots, the set-up of an association under one    *)
(* deadline, the loop that serves it, the release of what it holds, and     *)
(* ServerHandle::stop.  The MMS layer below the loop is the routing of      *)
(* parse_message.  What a control request does is in ControlService; here   *)
(* an Operate is a request whose response is posted later.                  *)
(***************************************************************************)
EXTENDS Naturals, Sequences, FiniteSets

CONSTANTS
  Conns,          \* sockets the peers open, one connection task each
  MaxConns,       \* max_mms_connections
  InvokeIds,      \* bound: invoke ids a client has outstanding at a time
  RptCap,         \* REPORT_CHANNEL_CAP
  CtCap,          \* bound: terminations waiting in the unbounded channel
  Tls,            \* a TLS acceptor is configured
  IdleTimeout     \* association_idle_timeout_ms is set

ASSUME SlotAssumption == MaxConns \in Nat
ASSUME CapAssumption == RptCap \in Nat /\ CtCap \in Nat
ASSUME OptionAssumption == Tls \in BOOLEAN /\ IdleTimeout \in BOOLEAN
ASSUME IdAssumption == "none" \notin InvokeIds

VARIABLES
  at,         \* where the task of each connection is
  setup,      \* what the connect request of a connection in set-up carries
  late,       \* connections past their set-up deadline
  slots,      \* open_sockets
  table,      \* connections, the registered associations
  senders,    \* associations with channels registered for them
  aborting,   \* abort_requested
  blocked,    \* block_requests
  concluded,  \* concluded
  quiet,      \* the idle timeout has elapsed since last_activity
  job,        \* the PDU being dispatched, and its outcome
  held,       \* deferred_writes: the invoke ids whose response is held back
  asked,      \* the invoke ids the client waits for
  running,    \* deferred requests whose command has not posted its outcome
  deferredQ, ctQ, rptQ,   \* what waits in the channels of each association
  holds,      \* what the association has reserved or selected
  stopping    \* how far ServerHandle::stop and the two loops it ends are

tasks == <<at, setup, late>>
server == <<slots, table, senders, stopping>>
flags == <<aborting, blocked, concluded, quiet>>
requests == <<job, held, asked, running>>
channels == <<deferredQ, ctQ, rptQ>>
vars == <<tasks, server, flags, requests, channels, holds>>

SetupAt == {"tls", "cotp", "connect", "authenticate", "initiate"}
LoopAt == {"top", "wait", "dispatch", "respond"}
TeardownAt == {"senders", "selects", "engine", "settings", "remove"}
(* The places of a connection task that holds a slot.                       *)
Alive == SetupAt \cup LoopAt \cup TeardownAt \cup {"established", "registered", "release"}

NoJob == [id |-> "none", out |-> "none"]

Init ==
  /\ at = [c \in Conns |-> "none"]
  /\ setup = [c \in Conns |-> "none"]
  /\ late = {}
  /\ slots = 0
  /\ table = {} /\ senders = {} /\ aborting = {} /\ concluded = {} /\ quiet = {}
  /\ blocked = {}
  /\ job = [c \in Conns |-> NoJob]
  /\ held = [c \in Conns |-> {}]
  /\ asked = [c \in Conns |-> {}]
  /\ running = [c \in Conns |-> {}]
  /\ deferredQ = [c \in Conns |-> <<>>]
  /\ ctQ = [c \in Conns |-> 0]
  /\ rptQ = [c \in Conns |-> 0]
  /\ holds = [c \in Conns |-> {}]
  /\ stopping = [stop |-> "no", accept |-> TRUE, tick |-> TRUE]

(***************************************************************************)
(* The accept loop and ServerHandle::stop                                  *)
(***************************************************************************)
(* Mutant: the socket that is turned away keeps the slot it tried to take.  *)
TryAcquireLeaking(c) ==
  /\ slots' = slots + 1
  /\ at' = [at EXCEPT ![c] = IF slots < MaxConns THEN IF Tls THEN "tls" ELSE "cotp" ELSE "closed"]

TryAcquire(c) ==
  \/ /\ slots < MaxConns
     /\ slots' = slots + 1
     /\ at' = [at EXCEPT ![c] = IF Tls THEN "tls" ELSE "cotp"]
  \/ /\ slots >= MaxConns
     /\ slots' = slots
     /\ at' = [at EXCEPT ![c] = "closed"]

(* Also after the signal: the select of the loop is not biased.            *)
Accept(c) ==
  /\ stopping.accept
  /\ at[c] = "none"
  /\ TryAcquire(c)
  /\ UNCHANGED <<setup, late, table, senders, stopping, flags, requests, channels, holds>>

Stop ==
  /\ stopping.stop = "no"
  /\ stopping' = [stopping EXCEPT !.stop = "signalled"]
  /\ UNCHANGED <<tasks, slots, table, senders, flags, requests, channels, holds>>

AbortAll ==
  /\ stopping.stop = "signalled"
  /\ stopping' = [stopping EXCEPT !.stop = "marked"]
  /\ aborting' = aborting \cup table
  /\ UNCHANGED <<tasks, slots, table, senders, blocked, concluded, quiet, requests, channels, holds>>

(* The accept loop clears the server's running flag as it ends.             *)
LoopEnds(l) ==
  /\ stopping.stop # "no" /\ stopping[l]
  /\ stopping' = [stopping EXCEPT ![l] = FALSE]
  /\ UNCHANGED <<tasks, slots, table, senders, flags, requests, channels, holds>>

StopReturns ==
  /\ stopping = [stop |-> "marked", accept |-> FALSE, tick |-> FALSE]
  /\ stopping' = [stopping EXCEPT !.stop = "returned"]
  /\ UNCHANGED <<tasks, slots, table, senders, flags, requests, channels, holds>>

(* abort_connection and set_block_requests of the application.             *)
AbortConnection(c) ==
  /\ c \in table /\ c \notin aborting
  /\ aborting' = aborting \cup {c}
  /\ UNCHANGED <<tasks, server, blocked, concluded, quiet, requests, channels, holds>>

SetBlockRequests(c) ==
  /\ c \in table
  /\ blocked' = IF c \in blocked THEN blocked \ {c} ELSE blocked \cup {c}
  /\ UNCHANGED <<tasks, server, aborting, concluded, quiet, requests, channels, holds>>

(***************************************************************************)
(* Set-up of an association                                                *)
(***************************************************************************)
MoveTo(c, place) == at' = [at EXCEPT ![c] = place]

(* What a connect request can carry: a PDU that does not parse, one that is *)
(* not a connect, no usable presentation context, an AARQ that fails or is  *)
(* none, no Initiate, one that is refused, or all that is needed.           *)
ConnectKinds ==
  {"bad", "noContext", "acseFailed", "acseOther", "noInitiate", "initiateRefused", "ok"}

TlsFails(c) ==
  /\ at[c] = "tls"
  /\ MoveTo(c, "closed")
  /\ slots' = slots - 1 /\ late' = late \ {c}
  /\ UNCHANGED <<setup, table, senders, stopping, flags, requests, channels, holds>>

SetupFails(c) ==
  /\ at[c] \in SetupAt \ {"tls"}
  /\ MoveTo(c, "release")
  /\ UNCHANGED <<setup, late, server, flags, requests, channels, holds>>

TlsDone(c) ==
  /\ at[c] = "tls"
  /\ MoveTo(c, "cotp")
  /\ UNCHANGED <<setup, late, server, flags, requests, channels, holds>>

CotpAccepted(c) ==
  /\ at[c] = "cotp"
  /\ MoveTo(c, "connect")
  /\ UNCHANGED <<setup, late, server, flags, requests, channels, holds>>

(* Session, presentation and ACSE layers of the connect request.           *)
Connect(c, kind) ==
  /\ at[c] = "connect"
  /\ setup' = [setup EXCEPT ![c] = kind]
  /\ MoveTo(c, IF kind \in {"bad", "noContext", "acseFailed", "acseOther"} THEN "release"
           ELSE "authenticate")
  /\ UNCHANGED <<late, server, flags, requests, channels, holds>>

(* The authenticator decides off the runtime; without one it is accepted.   *)
Authenticate(c) ==
  /\ at[c] = "authenticate"
  /\ MoveTo(c, "initiate") \/ MoveTo(c, "release")
  /\ UNCHANGED <<setup, late, server, flags, requests, channels, holds>>

(* The server's default decides whether requests are blocked at first.      *)
TakeInitiate(c) ==
  /\ at[c] = "initiate"
  /\ \/ /\ setup[c] = "ok"
        /\ MoveTo(c, "established")
        /\ blocked' \in {blocked, blocked \cup {c}}
     \/ /\ setup[c] # "ok"
        /\ MoveTo(c, "release")
        /\ blocked' = blocked
  /\ setup' = [setup EXCEPT ![c] = "none"] /\ late' = late \ {c}
  /\ UNCHANGED <<server, aborting, concluded, quiet, requests, channels, holds>>

DeadlinePasses(c) ==
  /\ at[c] \in SetupAt /\ c \notin late
  /\ late' = late \cup {c}
  /\ UNCHANGED <<at, setup, server, flags, requests, channels, holds>>

SetupTimesOut(c) ==
  /\ at[c] \in SetupAt \ {"tls"} /\ c \in late
  /\ MoveTo(c, "release")
  /\ UNCHANGED <<setup, late, server, flags, requests, channels, holds>>

AddConnection(c) ==
  /\ at[c] = "established"
  /\ table' = table \cup {c}
  /\ MoveTo(c, "registered")
  /\ UNCHANGED <<setup, late, slots, senders, stopping, flags, requests, channels, holds>>

RegisterSenders(c) ==
  /\ at[c] = "registered"
  /\ senders' = senders \cup {c}
  /\ MoveTo(c, "top")
  /\ UNCHANGED <<setup, late, slots, table, stopping, flags, requests, channels, holds>>

(***************************************************************************)
(* The serve loop                                                          *)
(***************************************************************************)
(* A PDU is written within the send timeout and counts as activity, or the  *)
(* association ends.                                                        *)
Sent(c) == quiet' = quiet \ {c}
SendFails(c) == MoveTo(c, "release") /\ quiet' = quiet

GoesQuiet(c) ==
  /\ at[c] \in LoopAt /\ c \notin quiet
  /\ quiet' = quiet \cup {c}
  /\ UNCHANGED <<tasks, server, aborting, blocked, concluded, requests, channels, holds>>

IdleExpired(c) == IdleTimeout /\ c \in quiet /\ c \notin concluded

(* The A-ABORT is the last PDU of the association, sent or not.            *)
AbortAssociation(c) == MoveTo(c, "release") /\ quiet' = quiet

(* Mutant: an abort is picked up only by an association that is idle too.   *)
TopOnlyIdle(c) ==
  /\ at[c] = "top"
  /\ \/ IdleExpired(c) /\ AbortAssociation(c)
     \/ ~IdleExpired(c) /\ MoveTo(c, "wait") /\ quiet' = quiet
  /\ UNCHANGED <<setup, late, server, aborting, blocked, concluded, requests, channels, holds>>

Top(c) ==
  /\ at[c] = "top"
  /\ \/ /\ c \in aborting \/ IdleExpired(c)
        /\ AbortAssociation(c)
     \/ /\ c \notin aborting /\ ~IdleExpired(c)
        /\ MoveTo(c, "wait") /\ quiet' = quiet
  /\ UNCHANGED <<setup, late, server, aborting, blocked, concluded, requests, channels, holds>>

(* Mutant: the held invoke id is kept after its response.                   *)
ServeDeferredKeeping(c) ==
  /\ at[c] = "wait" /\ deferredQ[c] # <<>>
  /\ deferredQ' = [deferredQ EXCEPT ![c] = Tail(@)]
  /\ asked' = [asked EXCEPT ![c] = @ \ {Head(deferredQ[c])}]
  /\ MoveTo(c, "top") /\ Sent(c)
  /\ UNCHANGED <<setup, late, server, aborting, blocked, concluded, job, running, held, ctQ, rptQ,
                 holds>>

(* The select is biased: deferred responses, terminations, reports, socket. *)
ServeDeferred(c) ==
  /\ at[c] = "wait" /\ deferredQ[c] # <<>>
  /\ LET id == Head(deferredQ[c]) IN
     /\ deferredQ' = [deferredQ EXCEPT ![c] = Tail(@)]
     /\ held' = [held EXCEPT ![c] = @ \ {id}]
     /\ \/ /\ MoveTo(c, "top") /\ Sent(c)
           /\ asked' = [asked EXCEPT ![c] = @ \ {id}]
        \/ SendFails(c) /\ asked' = asked
  /\ UNCHANGED <<setup, late, server, aborting, blocked, concluded, job, running, ctQ, rptQ, holds>>

ServeTermination(c) ==
  /\ at[c] = "wait" /\ deferredQ[c] = <<>> /\ ctQ[c] > 0
  /\ ctQ' = [ctQ EXCEPT ![c] = @ - 1]
  /\ (MoveTo(c, "top") /\ Sent(c)) \/ SendFails(c)
  /\ UNCHANGED <<setup, late, server, aborting, blocked, concluded, requests, deferredQ, rptQ, holds>>

ServeReport(c) ==
  /\ at[c] = "wait" /\ deferredQ[c] = <<>> /\ ctQ[c] = 0 /\ rptQ[c] > 0
  /\ rptQ' = [rptQ EXCEPT ![c] = @ - 1]
  /\ (MoveTo(c, "top") /\ Sent(c)) \/ SendFails(c)
  /\ UNCHANGED <<setup, late, server, aborting, blocked, concluded, requests, deferredQ, ctQ, holds>>

NothingQueued(c) == deferredQ[c] = <<>> /\ ctQ[c] = 0 /\ rptQ[c] = 0

(* Nothing arrives within the tick, or within the wait for the release of a *)
(* concluded association, which each iteration starts anew.                 *)
RecvTimesOut(c) ==
  /\ at[c] = "wait" /\ NothingQueued(c)
  /\ MoveTo(c, IF c \in concluded THEN "release" ELSE "top")
  /\ UNCHANGED <<setup, late, server, flags, requests, channels, holds>>

(* A TSDU of the client: what ends the association, and the MMS PDUs.      *)
ReceiveTsdu(c) ==
  /\ at[c] = "wait" /\ NothingQueued(c)
  /\ quiet' = quiet \ {c}

(* The socket fails, a layer does not parse, the client aborts,             *)
(* disconnects or sends what is not expected; or it sends a FINISH, which   *)
(* an RLRE or an abort answers before the association ends.                 *)
ReceiveClosing(c) ==
  /\ ReceiveTsdu(c)
  /\ MoveTo(c, "release")
  /\ UNCHANGED <<setup, late, server, aborting, blocked, concluded, requests, channels, holds>>

Pdus == {"initiate", "confirmed", "conclude", "reject", "endTag", "unknown", "short"}

(* parse_message on a snapshot of the MMS state: what answers the PDU.     *)
ParseMessage(isBlocked, isConcluded, pdu) ==
  CASE isBlocked \/ isConcluded -> "reject"
    [] ~isBlocked /\ ~isConcluded /\ pdu = "confirmed" -> "dispatch"
    [] ~isBlocked /\ ~isConcluded /\ pdu = "conclude" -> "conclude"
    [] ~isBlocked /\ ~isConcluded /\ pdu \in {"reject", "endTag"} -> "silent"
    [] ~isBlocked /\ ~isConcluded /\ pdu = "initiate" -> "close"
    [] OTHER -> "reject"

ReceiveMms(c, pdu) ==
  /\ ReceiveTsdu(c)
  /\ LET out == ParseMessage(c \in blocked, c \in concluded, pdu) IN
     IF pdu = "confirmed"
       THEN \E id \in InvokeIds \ asked[c] :
              /\ job' = [job EXCEPT ![c] = [id |-> id, out |-> out]]
              /\ asked' = [asked EXCEPT ![c] = @ \cup {id}]
       ELSE job' = [job EXCEPT ![c] = [id |-> "none", out |-> out]] /\ asked' = asked
  /\ MoveTo(c, "dispatch")
  /\ UNCHANGED <<setup, late, server, aborting, blocked, concluded, held, running, channels, holds>>

Resources == {"select", "urcb", "edit"}

(* The dispatcher returns.  A request may reserve or select something; an   *)
(* Operate with a dynamic check defers its response.  A panic of a handler  *)
(* unwinds the task.                                                        *)
DispatchPdu(c) ==
  /\ at[c] = "dispatch"
  /\ \/ /\ job[c].out = "dispatch"
        /\ \/ \E r \in Resources : holds' = [holds EXCEPT ![c] = @ \cup {r}]
           \/ holds' = holds
        /\ job' = [job EXCEPT ![c].out = "response"]
        /\ MoveTo(c, "respond")
        /\ UNCHANGED running
     \/ /\ job[c].out = "dispatch"
        /\ running' = [running EXCEPT ![c] = @ \cup {job[c].id}]
        /\ job' = [job EXCEPT ![c].out = "deferred"]
        /\ MoveTo(c, "respond")
        /\ UNCHANGED holds
     \/ /\ job[c].out # "dispatch"
        /\ MoveTo(c, "respond")
        /\ UNCHANGED <<holds, job, running>>
     \/ MoveTo(c, "release") /\ UNCHANGED <<holds, job, running>>
  /\ UNCHANGED <<setup, late, server, flags, held, asked, channels>>

(* The outcome is sent, held back, or ends the association.                *)
Respond(c) ==
  /\ at[c] = "respond"
  /\ job' = [job EXCEPT ![c] = NoJob]
  /\ LET out == job[c].out IN
     \/ /\ out \in {"response", "reject", "conclude"}
        /\ Sent(c) /\ MoveTo(c, "top")
        /\ concluded' = IF out = "conclude" THEN concluded \cup {c} ELSE concluded
        /\ asked' = [asked EXCEPT ![c] = @ \ {job[c].id}]
        /\ held' = held
     \/ /\ out \in {"response", "reject", "conclude"}
        /\ SendFails(c) /\ UNCHANGED <<concluded, asked, held>>
     \/ /\ out = "deferred"
        /\ held' = [held EXCEPT ![c] = @ \cup {job[c].id}]
        /\ MoveTo(c, "top") /\ UNCHANGED <<quiet, concluded, asked>>
     \/ /\ out = "silent"
        /\ MoveTo(c, "top") /\ UNCHANGED <<quiet, concluded, asked, held>>
     \/ /\ out = "close"
        /\ MoveTo(c, "release") /\ UNCHANGED <<quiet, concluded, asked, held>>
  /\ UNCHANGED <<setup, late, server, aborting, blocked, running, channels, holds>>

(***************************************************************************)
(* What the rest of the server posts to an association                     *)
(***************************************************************************)
(* A post to an association whose receivers are dropped is lost.           *)
Receives(c) == c \in senders /\ at[c] \notin TeardownAt

PostDeferred(c, id) ==
  /\ id \in running[c]
  /\ running' = [running EXCEPT ![c] = @ \ {id}]
  /\ deferredQ' = IF Receives(c) THEN [deferredQ EXCEPT ![c] = Append(@, id)] ELSE deferredQ
  /\ UNCHANGED <<tasks, server, flags, job, held, asked, ctQ, rptQ, holds>>

PostTermination(c) ==
  /\ Receives(c) /\ ctQ[c] < CtCap
  /\ ctQ' = [ctQ EXCEPT ![c] = @ + 1]
  /\ UNCHANGED <<tasks, server, flags, requests, deferredQ, rptQ, holds>>

(* A full channel makes the reporting engine keep or drop the report.      *)
PostReport(c) ==
  /\ Receives(c) /\ rptQ[c] < RptCap
  /\ rptQ' = [rptQ EXCEPT ![c] = @ + 1]
  /\ UNCHANGED <<tasks, server, flags, requests, deferredQ, ctQ, holds>>

(***************************************************************************)
(* The end of a connection task                                            *)
(***************************************************************************)
(* The stream and the receivers are dropped with run_connection; what they  *)
(* hold is lost.                                                            *)
DropStream(c) ==
  /\ at[c] = "release"
  /\ MoveTo(c, "senders")
  /\ held' = [held EXCEPT ![c] = {}]
  /\ job' = [job EXCEPT ![c] = NoJob]
  /\ deferredQ' = [deferredQ EXCEPT ![c] = <<>>]
  /\ ctQ' = [ctQ EXCEPT ![c] = 0]
  /\ rptQ' = [rptQ EXCEPT ![c] = 0]
  /\ setup' = [setup EXCEPT ![c] = "none"] /\ late' = late \ {c}
  /\ UNCHANGED <<server, flags, asked, running, holds>>

(* Mutant: the edit session of setting groups is not released.              *)
ReleasedKeepingEdit(place) ==
  CASE place = "selects" -> {"select"} [] place = "engine" -> {"urcb"} [] OTHER -> {}

Released(place) ==
  CASE place = "selects" -> {"select"}
    [] place = "engine" -> {"urcb"}
    [] place = "settings" -> {"edit"}
    [] OTHER -> {}

SlotsAfter(place) == IF place = "remove" THEN slots - 1 ELSE slots

(* The handle of the association and its MMS state are dropped.            *)
Forget(c) ==
  /\ aborting' = aborting \ {c} /\ blocked' = blocked \ {c}
  /\ concluded' = concluded \ {c} /\ quiet' = quiet \ {c}
  /\ asked' = [asked EXCEPT ![c] = {}]

(* AssociationTeardown::drop, and the slot that goes with the task.        *)
Teardown(c) ==
  /\ at[c] \in TeardownAt
  /\ MoveTo(c, CASE at[c] = "senders" -> "selects"
             [] at[c] = "selects" -> "engine"
             [] at[c] = "engine" -> "settings"
             [] at[c] = "settings" -> "remove"
             [] OTHER -> "closed")
  /\ senders' = IF at[c] = "senders" THEN senders \ {c} ELSE senders
  /\ holds' = [holds EXCEPT ![c] = @ \ Released(at[c])]
  /\ table' = IF at[c] = "remove" THEN table \ {c} ELSE table
  /\ slots' = SlotsAfter(at[c])
  /\ IF at[c] = "remove" THEN Forget(c) ELSE UNCHANGED <<flags, asked>>
  /\ UNCHANGED <<setup, late, stopping, job, held, running, channels>>

Next ==
  \/ Stop \/ AbortAll \/ StopReturns
  \/ LoopEnds("accept") \/ LoopEnds("tick")
  \/ \E c \in Conns :
       \/ Accept(c) \/ AbortConnection(c) \/ SetBlockRequests(c)
       \/ SetupFails(c) \/ TlsDone(c) \/ TlsFails(c) \/ CotpAccepted(c)
       \/ \E kind \in ConnectKinds : Connect(c, kind)
       \/ Authenticate(c) \/ TakeInitiate(c) \/ DeadlinePasses(c) \/ SetupTimesOut(c)
       \/ AddConnection(c) \/ RegisterSenders(c)
       \/ GoesQuiet(c) \/ Top(c) \/ RecvTimesOut(c) \/ ReceiveClosing(c)
       \/ ServeDeferred(c) \/ ServeTermination(c) \/ ServeReport(c)
       \/ \E pdu \in Pdus : ReceiveMms(c, pdu)
       \/ DispatchPdu(c) \/ Respond(c) \/ DropStream(c) \/ Teardown(c)
       \/ \E id \in InvokeIds : PostDeferred(c, id)
       \/ PostTermination(c) \/ PostReport(c)

Spec == Init /\ [][Next]_vars

(***************************************************************************)
(* Properties                                                              *)
(***************************************************************************)
Places == Alive \cup {"none", "closed"}
JobType ==
  [id : InvokeIds \cup {"none"},
   out : {"none", "dispatch", "response", "deferred", "reject", "conclude", "silent", "close"}]

TypeOK ==
  /\ at \in [Conns -> Places]
  /\ setup \in [Conns -> ConnectKinds \cup {"none"}]
  /\ late \subseteq Conns /\ slots \in Nat
  /\ table \subseteq Conns /\ senders \subseteq Conns
  /\ aborting \subseteq Conns /\ blocked \subseteq Conns
  /\ concluded \subseteq Conns /\ quiet \subseteq Conns
  /\ job \in [Conns -> JobType]
  /\ held \in [Conns -> SUBSET InvokeIds]
  /\ asked \in [Conns -> SUBSET InvokeIds]
  /\ running \in [Conns -> SUBSET InvokeIds]
  /\ deferredQ \in [Conns -> Seq(InvokeIds)]
  /\ ctQ \in [Conns -> Nat] /\ rptQ \in [Conns -> Nat]
  /\ holds \in [Conns -> SUBSET Resources]
  /\ stopping \in [stop : {"no", "signalled", "marked", "returned"},
                   accept : BOOLEAN, tick : BOOLEAN]

(* A slot is held exactly by the connection tasks that have not ended, so   *)
(* no way out of set-up, service or release leaks one or gives one back     *)
(* twice, and the limit of max_mms_connections is kept.                     *)
SlotsCounted ==
  /\ slots = Cardinality({c \in Conns : at[c] \in Alive})
  /\ slots <= MaxConns

(* However its task ended, a closed association is registered nowhere and   *)
(* holds no selection, reservation or edit session, and one in set-up has   *)
(* not got any yet.                                                         *)
ReleasesEverything ==
  \A c \in Conns :
    at[c] \in {"none", "closed"} \cup SetupAt =>
      /\ c \notin table \cup senders
      /\ holds[c] = {}
      /\ NothingQueued(c)

(* Between two iterations of the loop every request read from the socket is *)
(* answered, or its response is held back for exactly one outcome that is   *)
(* still to be posted or waits in the channel.                              *)
NoRequestForgotten ==
  \A c \in Conns : at[c] \in {"top", "wait"} =>
    /\ asked[c] = held[c]
    /\ held[c] = running[c] \cup {deferredQ[c][i] : i \in DOMAIN deferredQ[c]}
    /\ Cardinality(held[c]) = Cardinality(running[c]) + Len(deferredQ[c])

(* Fairness: every step of a task or of stop that is ready is taken, time   *)
(* passes, and the handlers behind a dispatch return.  Clients promise      *)
(* nothing.                                                                 *)
Progress(c) ==
  \/ AddConnection(c) \/ RegisterSenders(c) \/ Top(c)
  \/ ServeDeferred(c) \/ ServeTermination(c) \/ ServeReport(c) \/ RecvTimesOut(c)
  \/ DispatchPdu(c) \/ Respond(c) \/ DropStream(c) \/ Teardown(c)
Fairness ==
  /\ WF_vars(AbortAll) /\ WF_vars(StopReturns)
  /\ WF_vars(LoopEnds("accept")) /\ WF_vars(LoopEnds("tick"))
  /\ \A c \in Conns : /\ WF_vars(Progress(c))
                      /\ WF_vars(DeadlinePasses(c))
                      /\ WF_vars(SetupTimesOut(c) \/ (c \in late /\ TlsFails(c)))
FairSpec == Spec /\ Fairness

(* No connection keeps its slot for good against the server's will: one in  *)
(* set-up leaves it by the deadline; an association marked for abort is     *)
(* closed, whatever its client and the rest of the server go on sending it; *)
(* one that has been idle for the idle timeout is closed unless a PDU       *)
(* passes after all; and stop returns once both loops have seen the signal. *)
ConnectionsEnd ==
  /\ \A c \in Conns :
       /\ at[c] \in SetupAt ~> at[c] \notin SetupAt
       /\ c \in aborting ~> at[c] = "closed"
       /\ IdleExpired(c) /\ at[c] \in LoopAt
            ~> at[c] = "closed" \/ c \notin quiet \/ c \in concluded
  /\ stopping.stop = "signalled" ~> stopping.stop = "returned"
=============================================================================
