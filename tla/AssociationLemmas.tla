------------------------- MODULE AssociationLemmas -------------------------
(***************************************************************************)
(* The inductive invariant of Association, and the steps that keep its     *)
(* types, its slots and what an association has.                           *)
(***************************************************************************)
EXTENDS Association, FiniteSetTheorems, TLAPS

(***************************************************************************)
(* The inductive invariant                                                 *)
(***************************************************************************)
AliveConns == {c \in Conns : at[c] \in Alive}

(* The slots are those of the tasks that have not ended.                    *)
SlotsInv ==
  /\ IsFiniteSet(AliveConns)
  /\ slots = Cardinality(AliveConns)
  /\ slots <= MaxConns

(* The places of a task between add_connection and each step of the        *)
(* teardown that takes something back.                                      *)
Serving == LoopAt \cup {"release"}
WithSenders == Serving \cup {"senders"}
Registered == Serving \cup TeardownAt \cup {"registered"}
MayHold(r) ==
  Serving \cup {"senders", "selects"}
          \cup (IF r = "select" THEN {} ELSE {"engine"})
          \cup (IF r = "edit" THEN {"settings"} ELSE {})

(* What an association has, and how far its task has come.                 *)
HoldsOf(c) ==
  /\ c \in table => at[c] \in Registered
  /\ c \in senders => at[c] \in WithSenders
  /\ at[c] \in LoopAt => c \in senders
  /\ \A r \in holds[c] : at[c] \in MayHold(r)
  /\ ~NothingQueued(c) => at[c] \in Serving
HoldsInv == \A c \in Conns : HoldsOf(c)

(* The request the loop is at work on.                                      *)
Current(c) == IF job[c].id = "none" THEN {} ELSE {job[c].id}
(* Those of which the client gets the answer from a command.                *)
Deferred(c) == held[c] \cup (IF job[c].out = "deferred" THEN Current(c) ELSE {})
Elements(q) == {q[i] : i \in DOMAIN q}
Once(q) == \A i, j \in DOMAIN q : q[i] = q[j] => i = j

(* The ledger of the requests of one association: before the loop there is *)
(* none; in the loop each is held back or in progress, and each deferred    *)
(* one has one outcome, still to be posted or in the channel.               *)
Fresh(c) == asked[c] = {} /\ held[c] = {} /\ running[c] = {} /\ deferredQ[c] = <<>> /\ job[c] = NoJob
Ledger(c) ==
  /\ IsFiniteSet(running[c])
  /\ asked[c] = held[c] \cup Current(c)
  /\ held[c] \cap Current(c) = {}
  /\ Deferred(c) = running[c] \cup Elements(deferredQ[c])
  /\ running[c] \cap Elements(deferredQ[c]) = {}
  /\ Once(deferredQ[c])
  /\ at[c] \in {"top", "wait"} => job[c] = NoJob
  /\ at[c] = "dispatch" => job[c].out # "deferred"
  /\ job[c].out \in {"dispatch", "response", "deferred"} => job[c].id # "none"
  /\ job[c].out \in {"silent", "close"} => job[c].id = "none"

RequestsOf(c) ==
  /\ at[c] \in {"none", "established", "registered"} \cup SetupAt => Fresh(c)
  /\ at[c] \in LoopAt => Ledger(c)
RequestInv == \A c \in Conns : RequestsOf(c)

IInv == TypeOK /\ SlotsInv /\ HoldsInv /\ RequestInv

(***************************************************************************)
(* Types                                                                   *)
(***************************************************************************)
(* A task that has not ended holds a slot. *)
LEMMA SlotTaken ==
  ASSUME TypeOK, SlotsInv, NEW c \in Conns, at[c] \in Alive
  PROVE  slots - 1 \in Nat
<1>1. AliveConns # {}
  BY DEF AliveConns
<1>2. Cardinality(AliveConns) # 0 /\ Cardinality(AliveConns) \in Nat
  BY <1>1, FS_EmptySet, FS_CardinalityType DEF SlotsInv
<1> QED
  BY <1>2 DEF SlotsInv

(* parse_message answers a PDU in one of these ways; only a confirmed       *)
(* request goes to the dispatcher, and each of them gets an answer.         *)
LEMMA ParseOutcome ==
  ASSUME NEW isBlocked \in BOOLEAN, NEW isConcluded \in BOOLEAN, NEW pdu \in Pdus
  PROVE  LET out == ParseMessage(isBlocked, isConcluded, pdu)
         IN  /\ out \in {"dispatch", "reject", "conclude", "silent", "close"}
             /\ pdu = "confirmed" => out \in {"dispatch", "reject"}
             /\ out = "dispatch" => pdu = "confirmed"
  BY DEF ParseMessage, Pdus

(* Functions that one connection's entry changes in. *)
LEMMA EntryChanges ==
  ASSUME NEW f, NEW T, f \in [Conns -> T], NEW c \in Conns, NEW v \in T
  PROVE  /\ [f EXCEPT ![c] = v] \in [Conns -> T]
         /\ [f EXCEPT ![c] = v][c] = v
         /\ \A d \in Conns \ {c} : [f EXCEPT ![c] = v][d] = f[d]
  OBVIOUS

(* A set of invoke ids of one connection changes within its type.           *)
LEMMA IdsChange ==
  ASSUME NEW f, f \in [Conns -> SUBSET InvokeIds], NEW c \in Conns, NEW V, V \subseteq InvokeIds
  PROVE  [f EXCEPT ![c] = V] \in [Conns -> SUBSET InvokeIds]
  OBVIOUS

(* Where the teardown goes from each of its places. *)
LEMMA TeardownGoes ==
  ASSUME TypeOK, NEW c \in Conns, Teardown(c)
  PROVE  \/ at[c] = "senders" /\ at' = [at EXCEPT ![c] = "selects"]
         \/ at[c] = "selects" /\ at' = [at EXCEPT ![c] = "engine"]
         \/ at[c] = "engine" /\ at' = [at EXCEPT ![c] = "settings"]
         \/ at[c] = "settings" /\ at' = [at EXCEPT ![c] = "remove"]
         \/ at[c] = "remove" /\ at' = [at EXCEPT ![c] = "closed"]
  BY Zenon DEF Teardown, MoveTo, TeardownAt

(* Every step keeps the types. *)
LEMMA TypeStep ==
  ASSUME TypeOK, SlotsInv, RequestInv, [Next]_vars
  PROVE  TypeOK'
<1>1. CASE Stop
  BY <1>1, Zenon DEF Stop, TypeOK, tasks, server, flags, requests, channels
<1>2. CASE AbortAll
  BY <1>2, Zenon DEF AbortAll, TypeOK, tasks, server, flags, requests, channels
<1>3. CASE StopReturns
  BY <1>3, Zenon DEF StopReturns, TypeOK, tasks, server, flags, requests, channels
<1>4. CASE LoopEnds("accept")
  BY <1>4, Zenon DEF LoopEnds, TypeOK, tasks, server, flags, requests, channels
<1>5. CASE LoopEnds("tick")
  BY <1>5, Zenon DEF LoopEnds, TypeOK, tasks, server, flags, requests, channels
<1>6. ASSUME NEW c \in Conns, Accept(c)
      PROVE  TypeOK'
  <2>1. slots' \in Nat
    BY <1>6 DEF TypeOK, Accept, TryAcquire
  <2>2. \E p \in {"tls", "cotp", "closed"} : at' = [at EXCEPT ![c] = p]
    BY <1>6 DEF Accept, TryAcquire
  <2>3. at' \in [Conns -> Places]
    BY <2>2, EntryChanges DEF TypeOK, Places, Alive, SetupAt
  <2> QED
    BY <1>6, <2>1, <2>3 DEF Accept, TypeOK, tasks, server, flags, requests, channels
<1>7. ASSUME NEW c \in Conns, AbortConnection(c)
      PROVE  TypeOK'
  BY <1>7 DEF AbortConnection, TypeOK, tasks, server, flags, requests, channels
<1>8. ASSUME NEW c \in Conns, SetBlockRequests(c)
      PROVE  TypeOK'
  BY <1>8 DEF SetBlockRequests, TypeOK, tasks, server, flags, requests, channels
<1>9. ASSUME NEW c \in Conns, SetupFails(c)
      PROVE  TypeOK'
  BY <1>9 DEF SetupFails, MoveTo, Places, Alive, SetupAt, LoopAt, TeardownAt, TypeOK, tasks,
              server, flags, requests, channels
<1>10. ASSUME NEW c \in Conns, TlsDone(c)
      PROVE  TypeOK'
  BY <1>10 DEF TlsDone, MoveTo, Places, Alive, SetupAt, LoopAt, TeardownAt, TypeOK, tasks,
               server, flags, requests, channels
<1>11. ASSUME NEW c \in Conns, TlsFails(c)
      PROVE  TypeOK'
  <2>1. slots' \in Nat
    BY <1>11, SlotTaken DEF TlsFails, Alive, SetupAt
  <2>2. at' \in [Conns -> Places]
    BY <1>11 DEF TypeOK, TlsFails, MoveTo, Places
  <2> QED
    BY <1>11, <2>1, <2>2 DEF TlsFails, TypeOK, flags, requests, channels
<1>12. ASSUME NEW c \in Conns, CotpAccepted(c)
      PROVE  TypeOK'
  BY <1>12 DEF CotpAccepted, MoveTo, Places, Alive, SetupAt, LoopAt, TeardownAt, TypeOK, tasks,
               server, flags, requests, channels
<1>13. ASSUME NEW c \in Conns, NEW kind \in ConnectKinds, Connect(c, kind)
      PROVE  TypeOK'
  BY <1>13 DEF Connect, MoveTo, ConnectKinds, Places, Alive, SetupAt, LoopAt, TeardownAt, TypeOK,
               tasks, server, flags, requests, channels
<1>14. ASSUME NEW c \in Conns, Authenticate(c)
      PROVE  TypeOK'
  BY <1>14, Zenon DEF Authenticate, MoveTo, Places, Alive, SetupAt, LoopAt, TeardownAt, TypeOK, tasks,
               server, flags, requests, channels
<1>15. ASSUME NEW c \in Conns, TakeInitiate(c)
      PROVE  TypeOK'
  BY <1>15, Zenon DEF TakeInitiate, MoveTo, Places, Alive, SetupAt, LoopAt, TeardownAt, TypeOK, tasks,
               server, flags, requests, channels
<1>16. ASSUME NEW c \in Conns, DeadlinePasses(c)
      PROVE  TypeOK'
  BY <1>16 DEF DeadlinePasses, TypeOK, tasks, server, flags, requests, channels
<1>17. ASSUME NEW c \in Conns, SetupTimesOut(c)
      PROVE  TypeOK'
  BY <1>17 DEF SetupTimesOut, MoveTo, Places, Alive, SetupAt, LoopAt, TeardownAt, TypeOK, tasks,
               server, flags, requests, channels
<1>18. ASSUME NEW c \in Conns, AddConnection(c)
      PROVE  TypeOK'
  BY <1>18 DEF AddConnection, MoveTo, Places, Alive, SetupAt, LoopAt, TeardownAt, TypeOK, tasks,
               server, flags, requests, channels
<1>19. ASSUME NEW c \in Conns, RegisterSenders(c)
      PROVE  TypeOK'
  BY <1>19 DEF RegisterSenders, MoveTo, Places, Alive, SetupAt, LoopAt, TeardownAt, TypeOK,
               tasks, server, flags, requests, channels
<1>20. ASSUME NEW c \in Conns, GoesQuiet(c)
      PROVE  TypeOK'
  BY <1>20 DEF GoesQuiet, TypeOK, tasks, server, flags, requests, channels
<1>21. ASSUME NEW c \in Conns, Top(c)
      PROVE  TypeOK'
  BY <1>21, Zenon DEF Top, MoveTo, AbortAssociation, IdleExpired, Places, Alive, SetupAt, LoopAt,
               TeardownAt, TypeOK, tasks, server, flags, requests, channels
<1>22. ASSUME NEW c \in Conns, RecvTimesOut(c)
      PROVE  TypeOK'
  BY <1>22 DEF RecvTimesOut, MoveTo, NothingQueued, Places, Alive, SetupAt, LoopAt, TeardownAt,
               TypeOK, tasks, server, flags, requests, channels
<1>23. ASSUME NEW c \in Conns, ReceiveClosing(c)
      PROVE  TypeOK'
  BY <1>23 DEF ReceiveClosing, MoveTo, ReceiveTsdu, NothingQueued, Places, Alive, SetupAt,
               LoopAt, TeardownAt, TypeOK, tasks, server, flags, requests, channels
<1>24. ASSUME NEW c \in Conns, ServeDeferred(c)
      PROVE  TypeOK'
  <2>1. at' \in [Conns -> Places] /\ quiet' \subseteq Conns
    BY <1>24, Zenon DEF TypeOK, ServeDeferred, MoveTo, Sent, SendFails, Places, Alive, LoopAt
  <2>2. deferredQ' \in [Conns -> Seq(InvokeIds)]
    BY <1>24 DEF TypeOK, ServeDeferred
  <2>3. held' \in [Conns -> SUBSET InvokeIds] /\ asked' \in [Conns -> SUBSET InvokeIds]
    <3>1. /\ held[c] \ {Head(deferredQ[c])} \in SUBSET InvokeIds
          /\ asked[c] \ {Head(deferredQ[c])} \in SUBSET InvokeIds
      BY DEF TypeOK
    <3>2. /\ held' = [held EXCEPT ![c] = held[c] \ {Head(deferredQ[c])}]
          /\ asked' \in {asked, [asked EXCEPT ![c] = asked[c] \ {Head(deferredQ[c])}]}
      BY <1>24 DEF ServeDeferred
    <3>3. held \in [Conns -> SUBSET InvokeIds] /\ asked \in [Conns -> SUBSET InvokeIds]
      BY DEF TypeOK
    <3> QED
      BY <3>1, <3>2, <3>3, IdsChange
  <2> QED
    BY <1>24, <2>1, <2>2, <2>3 DEF ServeDeferred, TypeOK, server
<1>25. ASSUME NEW c \in Conns, ServeTermination(c)
      PROVE  TypeOK'
  <2>1. at' \in [Conns -> Places] /\ quiet' \subseteq Conns
    BY <1>25, Zenon DEF TypeOK, ServeTermination, MoveTo, Sent, SendFails, Places, Alive, LoopAt
  <2>2. ctQ' \in [Conns -> Nat]
    BY <1>25 DEF TypeOK, ServeTermination
  <2> QED
    BY <1>25, <2>1, <2>2 DEF ServeTermination, TypeOK, server, requests
<1>26. ASSUME NEW c \in Conns, ServeReport(c)
      PROVE  TypeOK'
  <2>1. at' \in [Conns -> Places] /\ quiet' \subseteq Conns
    BY <1>26, Zenon DEF TypeOK, ServeReport, MoveTo, Sent, SendFails, Places, Alive, LoopAt
  <2>2. rptQ' \in [Conns -> Nat]
    BY <1>26 DEF TypeOK, ServeReport
  <2> QED
    BY <1>26, <2>1, <2>2, Zenon DEF ServeReport, TypeOK, server, requests
<1>27. ASSUME NEW c \in Conns, NEW pdu \in Pdus, ReceiveMms(c, pdu)
      PROVE  TypeOK'
  <2>1. at' \in [Conns -> Places] /\ quiet' \subseteq Conns
    BY <1>27 DEF TypeOK, ReceiveMms, ReceiveTsdu, MoveTo, Places, Alive, LoopAt
  <2> DEFINE out == ParseMessage(c \in blocked, c \in concluded, pdu)
  <2>2. out \in {"dispatch", "reject", "conclude", "silent", "close"}
    <3>1. (c \in blocked) \in BOOLEAN /\ (c \in concluded) \in BOOLEAN
      OBVIOUS
    <3> QED
      BY <3>1, ParseOutcome, Zenon
  <2> HIDE DEF out
  <2>3. \/ \E id \in InvokeIds \ asked[c] :
              /\ job' = [job EXCEPT ![c] = [id |-> id, out |-> out]]
              /\ asked' = [asked EXCEPT ![c] = @ \cup {id}]
        \/ job' = [job EXCEPT ![c] = [id |-> "none", out |-> out]] /\ asked' = asked
    BY <1>27, Zenon DEF ReceiveMms, out
  <2>4. job' \in [Conns -> JobType] /\ asked' \in [Conns -> SUBSET InvokeIds]
    <3>1. ASSUME NEW id \in InvokeIds \cup {"none"}
          PROVE  [id |-> id, out |-> out] \in JobType
      BY <2>2 DEF JobType
    <3>2. ASSUME NEW id \in InvokeIds
          PROVE  asked[c] \cup {id} \in SUBSET InvokeIds
      BY DEF TypeOK
    <3>3. asked \in [Conns -> SUBSET InvokeIds] /\ job \in [Conns -> JobType]
      BY DEF TypeOK
    <3>4. job' \in [Conns -> JobType]
      BY <2>3, <3>1, <3>3
    <3>5. asked' \in [Conns -> SUBSET InvokeIds]
      BY <2>3, <3>2, <3>3, IdsChange
    <3> QED
      BY <3>4, <3>5
  <2> QED
    BY <1>27, <2>1, <2>4 DEF ReceiveMms, TypeOK, server, channels
<1>28. ASSUME NEW c \in Conns, DispatchPdu(c)
      PROVE  TypeOK'
  <2>1. at' \in [Conns -> Places]
    <3>1. \E p \in {"respond", "release"} : at' = [at EXCEPT ![c] = p]
      BY <1>28 DEF DispatchPdu, MoveTo
    <3> QED
      BY <3>1, EntryChanges DEF TypeOK, Places, Alive, LoopAt
  <2>2. job' \in [Conns -> JobType]
    <3>1. ASSUME NEW o \in {"response", "deferred"}, job' = [job EXCEPT ![c].out = o]
          PROVE  job' \in [Conns -> JobType]
      <4>1. job[c] \in JobType
        BY DEF TypeOK
      <4>2. [job[c] EXCEPT !.out = o] \in JobType
        BY <4>1 DEF JobType
      <4> QED
        BY <3>1, <4>2 DEF TypeOK
    <3> QED
      BY <1>28, <3>1 DEF DispatchPdu, TypeOK
  <2>3. holds' \in [Conns -> SUBSET Resources]
    BY <1>28 DEF TypeOK, DispatchPdu
  <2>4. running' \in [Conns -> SUBSET InvokeIds]
    <3>1. \/ /\ job[c].out = "dispatch"
             /\ running' = [running EXCEPT ![c] = running[c] \cup {job[c].id}]
          \/ running' = running
      BY <1>28 DEF DispatchPdu
    <3>2. job[c].out = "dispatch" => job[c].id \in InvokeIds
      BY <1>28 DEF DispatchPdu, RequestInv, RequestsOf, Ledger, LoopAt, TypeOK, JobType
    <3>3. running \in [Conns -> SUBSET InvokeIds]
      BY DEF TypeOK
    <3>4. job[c].out = "dispatch" => running[c] \cup {job[c].id} \subseteq InvokeIds
      BY <3>2, <3>3
    <3> QED
      BY <3>1, <3>3, <3>4, IdsChange
  <2> QED
    BY <1>28, <2>1, <2>2, <2>3, <2>4 DEF DispatchPdu, TypeOK, server, flags, channels
<1>29. ASSUME NEW c \in Conns, Respond(c)
      PROVE  TypeOK'
  <2>1. at' \in [Conns -> Places] /\ quiet' \subseteq Conns /\ concluded' \subseteq Conns
    BY <1>29, Zenon DEF TypeOK, Respond, MoveTo, Sent, SendFails, Places, Alive, LoopAt
  <2>2. job' \in [Conns -> JobType]
    BY <1>29 DEF TypeOK, Respond, NoJob, JobType
  <2>3. held' \in [Conns -> SUBSET InvokeIds] /\ asked' \in [Conns -> SUBSET InvokeIds]
    <3>1. job[c].out = "deferred" => job[c].id \in InvokeIds
      BY <1>29 DEF Respond, RequestInv, RequestsOf, Ledger, LoopAt, TypeOK, JobType
    <3>2. /\ \/ job[c].out = "deferred" /\ held' = [held EXCEPT ![c] = held[c] \cup {job[c].id}]
             \/ held' = held
          /\ asked' \in {asked, [asked EXCEPT ![c] = asked[c] \ {job[c].id}]}
      BY <1>29 DEF Respond
    <3>3. asked[c] \ {job[c].id} \in SUBSET InvokeIds
      BY DEF TypeOK
    <3>4. held \in [Conns -> SUBSET InvokeIds] /\ asked \in [Conns -> SUBSET InvokeIds]
      BY DEF TypeOK
    <3>5. job[c].out = "deferred" => held[c] \cup {job[c].id} \subseteq InvokeIds
      BY <3>1, <3>4
    <3>6. held' \in [Conns -> SUBSET InvokeIds]
      BY <3>2, <3>4, <3>5, IdsChange
    <3>7. [asked EXCEPT ![c] = asked[c] \ {job[c].id}] \in [Conns -> SUBSET InvokeIds]
      BY <3>3, <3>4, IdsChange
    <3> QED
      BY <3>2, <3>4, <3>6, <3>7
  <2> QED
    BY <1>29, <2>1, <2>2, <2>3 DEF Respond, TypeOK, server, channels
<1>30. ASSUME NEW c \in Conns, DropStream(c)
      PROVE  TypeOK'
  BY <1>30 DEF DropStream, MoveTo, NoJob, JobType, Places, Alive, SetupAt, LoopAt, TeardownAt,
               TypeOK, tasks, server, flags, requests, channels
<1>31. ASSUME NEW c \in Conns, Teardown(c)
      PROVE  TypeOK'
  <2>1. at' \in [Conns -> Places]
    <3>1. \E p \in {"selects", "engine", "settings", "remove", "closed"} : at' = [at EXCEPT ![c] = p]
      BY <1>31, TeardownGoes
    <3> QED
      BY <3>1, EntryChanges DEF TypeOK, Places, Alive, TeardownAt
  <2>2. slots' \in Nat
    BY <1>31, SlotTaken DEF TypeOK, Teardown, SlotsAfter, Alive
  <2>3. holds' \in [Conns -> SUBSET Resources]
    BY <1>31 DEF TypeOK, Teardown
  <2>4. /\ aborting' \subseteq Conns /\ blocked' \subseteq Conns
        /\ concluded' \subseteq Conns /\ quiet' \subseteq Conns
        /\ asked' \in [Conns -> SUBSET InvokeIds]
    BY <1>31, Zenon DEF TypeOK, Teardown, Forget, flags
  <2>5. senders' \subseteq Conns /\ table' \subseteq Conns
    BY <1>31 DEF TypeOK, Teardown
  <2>6. UNCHANGED <<setup, late, stopping, job, held, running, deferredQ, ctQ, rptQ>>
    BY <1>31 DEF Teardown, channels
  <2> QED
    BY <2>1, <2>2, <2>3, <2>4, <2>5, <2>6 DEF TypeOK
<1>32. ASSUME NEW c \in Conns, NEW id \in InvokeIds, PostDeferred(c, id)
      PROVE  TypeOK'
  BY <1>32 DEF PostDeferred, Receives, TypeOK, tasks, server, flags, requests, channels
<1>33. ASSUME NEW c \in Conns, PostTermination(c)
      PROVE  TypeOK'
  BY <1>33 DEF PostTermination, Receives, TypeOK, tasks, server, flags, requests, channels
<1>34. ASSUME NEW c \in Conns, PostReport(c)
      PROVE  TypeOK'
  BY <1>34 DEF PostReport, Receives, TypeOK, tasks, server, flags, requests, channels
<1>35. CASE UNCHANGED vars
  BY <1>35 DEF vars, TypeOK, tasks, server, flags, requests, channels
<1> QED
  BY <1>1, <1>2, <1>3, <1>4, <1>5, <1>6, <1>7, <1>8, <1>9, <1>10, <1>11,
     <1>12, <1>13, <1>14, <1>15, <1>16, <1>17, <1>18, <1>19, <1>20, <1>21,
     <1>22, <1>23, <1>24, <1>25, <1>26, <1>27, <1>28, <1>29, <1>30, <1>31,
     <1>32, <1>33, <1>34, <1>35 DEF Next

(***************************************************************************)
(* The slots                                                               *)
(***************************************************************************)
(* How a step moves the task of a connection, and the slot it takes or      *)
(* gives back with it.                                                      *)
TakesSlot(c) == at[c] = "none" /\ slots < MaxConns /\ slots' = slots + 1 /\ \E p \in Alive : MoveTo(c, p)
TurnsAway(c) == at[c] = "none" /\ slots' = slots /\ MoveTo(c, "closed")
KeepsSlot(c) == at[c] \in Alive /\ slots' = slots /\ \E p \in Alive : MoveTo(c, p)
GivesBack(c) == at[c] \in Alive /\ slots' = slots - 1 /\ MoveTo(c, "closed")

(* The steps of the server, of the rest of the server about one connection, *)
(* of the set-up, of the loop and of the others.                            *)
ServerStep == Stop \/ AbortAll \/ StopReturns \/ LoopEnds("accept") \/ LoopEnds("tick")
OutsideStep(c) ==
  \/ AbortConnection(c) \/ SetBlockRequests(c) \/ DeadlinePasses(c) \/ GoesQuiet(c)
  \/ \E id \in InvokeIds : PostDeferred(c, id)
  \/ PostTermination(c) \/ PostReport(c)
SetupStep(c) ==
  \/ SetupFails(c) \/ TlsDone(c) \/ CotpAccepted(c)
  \/ \E kind \in ConnectKinds : Connect(c, kind)
  \/ Authenticate(c) \/ TakeInitiate(c) \/ SetupTimesOut(c)
  \/ AddConnection(c) \/ RegisterSenders(c)
LoopStep(c) ==
  \/ Top(c) \/ RecvTimesOut(c) \/ ReceiveClosing(c)
  \/ ServeDeferred(c) \/ ServeTermination(c) \/ ServeReport(c)
  \/ \E pdu \in Pdus : ReceiveMms(c, pdu)
  \/ DispatchPdu(c) \/ Respond(c) \/ DropStream(c)

(* Every step is one of these.                                              *)
LEMMA StepCases ==
  ASSUME Next
  PROVE  \/ ServerStep
         \/ \E c \in Conns : \/ OutsideStep(c) \/ SetupStep(c) \/ LoopStep(c)
                             \/ Accept(c) \/ TlsFails(c) \/ Teardown(c)
  BY DEF Next, ServerStep, OutsideStep, SetupStep, LoopStep

(* Every step moves at most one task, and its slot with it.                 *)
LEMMA SlotMoves ==
  ASSUME TypeOK, [Next]_vars
  PROVE  \/ UNCHANGED <<at, slots>>
         \/ \E c \in Conns : TakesSlot(c) \/ TurnsAway(c) \/ KeepsSlot(c) \/ GivesBack(c)
<1> DEFINE Moves(c) == TakesSlot(c) \/ TurnsAway(c) \/ KeepsSlot(c) \/ GivesBack(c)
<1>1. CASE UNCHANGED vars \/ ServerStep
  BY <1>1 DEF vars, ServerStep, Stop, AbortAll, StopReturns, LoopEnds, tasks, server
<1>2. ASSUME NEW c \in Conns, OutsideStep(c)
      PROVE  UNCHANGED <<at, slots>>
  BY <1>2 DEF OutsideStep, AbortConnection, SetBlockRequests, DeadlinePasses, GoesQuiet,
              PostDeferred,
              PostTermination, PostReport, tasks, server
<1>3. ASSUME NEW c \in Conns, Accept(c)
      PROVE  Moves(c)
  BY <1>3 DEF Accept, TryAcquire, TakesSlot, TurnsAway, MoveTo, Alive, SetupAt
<1>4. ASSUME NEW c \in Conns, SetupStep(c)
      PROVE  KeepsSlot(c)
  BY <1>4, Zenon DEF SetupStep, SetupFails, TlsDone, CotpAccepted, Connect, Authenticate, TakeInitiate,
              SetupTimesOut, AddConnection, RegisterSenders, server, KeepsSlot, Alive, SetupAt, LoopAt
<1>5. ASSUME NEW c \in Conns, LoopStep(c)
      PROVE  KeepsSlot(c)
  BY <1>5 DEF LoopStep, Top, RecvTimesOut, ReceiveClosing, ReceiveTsdu, ServeDeferred,
              ServeTermination, ServeReport, ReceiveMms, DispatchPdu, Respond, DropStream,
              AbortAssociation, SendFails, server, KeepsSlot, Alive, LoopAt, TeardownAt
<1>6. ASSUME NEW c \in Conns, TlsFails(c)
      PROVE  GivesBack(c)
  BY <1>6 DEF TlsFails, GivesBack, Alive, SetupAt
<1>7. ASSUME NEW c \in Conns, Teardown(c)
      PROVE  KeepsSlot(c) \/ GivesBack(c)
  <2>1. slots' = IF at[c] = "remove" THEN slots - 1 ELSE slots
    BY <1>7 DEF Teardown, SlotsAfter
  <2>2. at[c] \in Alive
    BY <1>7 DEF Teardown, Alive
  <2> QED
    BY <1>7, <2>1, <2>2, TeardownGoes DEF KeepsSlot, GivesBack, MoveTo, Alive, TeardownAt
<1> QED
  BY <1>1, <1>2, <1>3, <1>4, <1>5, <1>6, <1>7, StepCases

(* The slots stay those of the tasks that have not ended. *)
LEMMA SlotsStep ==
  ASSUME TypeOK, SlotsInv, [Next]_vars
  PROVE  SlotsInv'
<1>1. CASE UNCHANGED <<at, slots>>
  BY <1>1 DEF SlotsInv, AliveConns
<1>2. ASSUME NEW c \in Conns, TakesSlot(c)
      PROVE  SlotsInv'
  <2>1. AliveConns' = AliveConns \cup {c} /\ c \notin AliveConns
    BY <1>2 DEF TypeOK, TakesSlot, MoveTo, AliveConns, Alive, SetupAt, LoopAt, TeardownAt
  <2>2. IsFiniteSet(AliveConns') /\ Cardinality(AliveConns') = Cardinality(AliveConns) + 1
    BY <2>1, FS_AddElement DEF SlotsInv
  <2> QED
    BY <1>2, <2>2, SlotAssumption DEF SlotsInv, TakesSlot, TypeOK
<1>3. ASSUME NEW c \in Conns, TurnsAway(c) \/ KeepsSlot(c)
      PROVE  SlotsInv'
  <2>1. AliveConns' = AliveConns
    BY <1>3 DEF TypeOK, TurnsAway, KeepsSlot, MoveTo, AliveConns, Alive, SetupAt, LoopAt, TeardownAt
  <2> QED
    BY <1>3, <2>1 DEF SlotsInv, TurnsAway, KeepsSlot
<1>4. ASSUME NEW c \in Conns, GivesBack(c)
      PROVE  SlotsInv'
  <2>1. AliveConns' = AliveConns \ {c} /\ c \in AliveConns
    BY <1>4 DEF TypeOK, GivesBack, MoveTo, AliveConns, Alive, SetupAt, LoopAt, TeardownAt
  <2>2. IsFiniteSet(AliveConns') /\ Cardinality(AliveConns') = Cardinality(AliveConns) - 1
    BY <2>1, FS_RemoveElement DEF SlotsInv
  <2> QED
    BY <1>4, <2>2, SlotAssumption DEF SlotsInv, GivesBack, TypeOK
<1> QED
  BY <1>1, <1>2, <1>3, <1>4, SlotMoves

(***************************************************************************)
(* What an association has                                                 *)
(***************************************************************************)
(* A step of one task leaves the others where and as they are. *)
Untouched(c) ==
  /\ at'[c] = at[c] /\ holds'[c] = holds[c] /\ job'[c] = job[c]
  /\ asked'[c] = asked[c] /\ held'[c] = held[c] /\ running'[c] = running[c]
  /\ deferredQ'[c] = deferredQ[c] /\ ctQ'[c] = ctQ[c] /\ rptQ'[c] = rptQ[c]
  /\ c \in table' <=> c \in table
  /\ c \in senders' <=> c \in senders

ConnStep(c) ==
  \/ OutsideStep(c) \/ SetupStep(c) \/ LoopStep(c)
  \/ Accept(c) \/ TlsFails(c) \/ Teardown(c)

(* What a task of another connection has and waits for stays as it is.      *)
LEMMA Elsewhere ==
  ASSUME TypeOK, NEW c \in Conns, ConnStep(c), NEW d \in Conns, d # c
  PROVE  Untouched(d)
<1>1. CASE OutsideStep(c)
  BY <1>1 DEF OutsideStep, AbortConnection, SetBlockRequests, DeadlinePasses, GoesQuiet,
              PostDeferred,
     PostTermination, PostReport, tasks, server, requests, channels, TypeOK, Untouched
<1>2. CASE SetupStep(c)
  BY <1>2, Zenon DEF SetupStep, SetupFails, TlsDone, CotpAccepted, Connect, Authenticate, TakeInitiate,
     SetupTimesOut, AddConnection, RegisterSenders, MoveTo, server, requests, channels, TypeOK, Untouched
<1>3. CASE \/ Top(c) \/ RecvTimesOut(c) \/ ReceiveClosing(c)
           \/ ServeTermination(c) \/ ServeReport(c) \/ DropStream(c)
  BY <1>3 DEF Top, RecvTimesOut, ReceiveClosing, ReceiveTsdu, ServeTermination, ServeReport,
              DropStream,
     AbortAssociation, SendFails, MoveTo, server, requests, channels, TypeOK, Untouched
<1>4. CASE ServeDeferred(c)
  BY <1>4 DEF ServeDeferred, SendFails, MoveTo, server, TypeOK, Untouched
<1>5. ASSUME NEW pdu \in Pdus, ReceiveMms(c, pdu)
      PROVE  Untouched(d)
  BY <1>5, Zenon DEF ReceiveMms, MoveTo, server, channels, TypeOK, Untouched
<1>6. CASE DispatchPdu(c)
  BY <1>6 DEF DispatchPdu, MoveTo, server, channels, TypeOK, Untouched
<1>7. CASE Respond(c)
  BY <1>7 DEF Respond, SendFails, MoveTo, server, channels, TypeOK, Untouched
<1>8. CASE Accept(c)
  BY <1>8 DEF Accept, TryAcquire, requests, channels, TypeOK, Untouched
<1>9. CASE TlsFails(c)
  BY <1>9 DEF TlsFails, MoveTo, requests, channels, TypeOK, Untouched
<1>10. CASE Teardown(c)
  BY <1>10 DEF Teardown, MoveTo, Forget, channels, TypeOK, Untouched
<1> QED
  BY <1>1, <1>2, <1>3, <1>4, <1>5, <1>6, <1>7, <1>8, <1>9, <1>10 DEF ConnStep, LoopStep

(* A connection that is left alone keeps what it has.                       *)
LEMMA HoldsKept ==
  ASSUME NEW d \in Conns, HoldsOf(d), Untouched(d)
  PROVE  HoldsOf(d)'
  BY Zenon DEF HoldsOf, Untouched, NothingQueued

(* The steps of one task keep what its association has in line with where  *)
(* the task is.                                                             *)
LEMMA HoldsAtStep ==
  ASSUME TypeOK, NEW c \in Conns, HoldsOf(c), ConnStep(c)
  PROVE  HoldsOf(c)'
<1> USE DEF HoldsOf, NothingQueued, Serving, WithSenders, Registered, MayHold, LoopAt
<1>1. CASE OutsideStep(c)
  <2>1. CASE AbortConnection(c) \/ SetBlockRequests(c) \/ DeadlinePasses(c) \/ GoesQuiet(c)
    BY <2>1, Zenon DEF AbortConnection, SetBlockRequests, DeadlinePasses, GoesQuiet, tasks, server,
                channels
  <2>2. CASE (\E id \in InvokeIds : PostDeferred(c, id)) \/ PostTermination(c) \/ PostReport(c)
    <3>1. ~Receives(c) => UNCHANGED <<at, table, senders, holds, channels>>
      BY <2>2 DEF PostDeferred, PostTermination, PostReport, tasks, server, channels
    <3>2. Receives(c) => at[c] \in Serving
      BY DEF Receives, TeardownAt
    <3>3. UNCHANGED <<at, table, senders, holds>>
      BY <2>2 DEF PostDeferred, PostTermination, PostReport, tasks, server
    <3> QED
      BY <3>1, <3>2, <3>3, Zenon DEF channels
  <2> QED
    BY <1>1, <2>1, <2>2, Zenon DEF OutsideStep
<1>2. CASE SetupStep(c)
  BY <1>2 DEF SetupStep, SetupFails, TlsDone, CotpAccepted, Connect, Authenticate, TakeInitiate,
     SetupTimesOut, AddConnection, RegisterSenders, MoveTo, server, channels, TypeOK, SetupAt, TeardownAt
<1>3. CASE LoopStep(c) /\ ~DropStream(c)
  <2>1. /\ at[c] \in LoopAt /\ at'[c] \in Serving /\ UNCHANGED <<table, senders>>
    BY <1>3, Zenon DEF LoopStep, Top, RecvTimesOut, ReceiveClosing, ReceiveTsdu, ServeDeferred,
       ServeTermination, ServeReport, ReceiveMms, DispatchPdu, Respond, AbortAssociation, SendFails,
       MoveTo, server, TypeOK
  <2> QED
    BY <2>1
<1>4. CASE DropStream(c)
  BY <1>4 DEF DropStream, MoveTo, server, TypeOK, TeardownAt
<1>5. CASE Accept(c)
  BY <1>5 DEF Accept, TryAcquire, channels, TypeOK, TeardownAt
<1>6. CASE TlsFails(c)
  BY <1>6 DEF TlsFails, MoveTo, channels, TypeOK, TeardownAt
<1>7. CASE Teardown(c)
  <2>1. /\ holds'[c] = holds[c] \ Released(at[c])
        /\ c \in senders' => c \in senders /\ at[c] # "senders"
        /\ c \in table' => c \in table /\ at[c] # "remove"
        /\ UNCHANGED channels
        /\ at[c] \in TeardownAt
    BY <1>7 DEF Teardown, TypeOK
  <2>2. /\ NothingQueued(c)'
        /\ c \notin senders'
    BY <2>1 DEF TeardownAt, channels
  <2>3. c \in table' => at'[c] \in Registered
    <3>1. at[c] # "remove" => at'[c] \in TeardownAt
      BY <1>7, TeardownGoes DEF TeardownAt, TypeOK
    <3> QED
      BY <2>1, <3>1
  <2>4. \A r \in holds'[c] : at'[c] \in MayHold(r)
    <3>1. holds[c] \subseteq {"select", "urcb", "edit"}
      BY DEF TypeOK, Resources
    <3> QED
      BY <1>7, <2>1, <3>1, TeardownGoes DEF TeardownAt, TypeOK, Released
  <2>5. at'[c] \notin LoopAt
    <3>1. PICK p \in {"selects", "engine", "settings", "remove", "closed"} : at' = [at EXCEPT ![c] = p]
      BY <1>7, TeardownGoes
    <3>2. at'[c] = p
      BY <3>1 DEF TypeOK
    <3> QED
      BY <3>2 DEF LoopAt
  <2> QED
    BY <2>2, <2>3, <2>4, <2>5
<1> QED
  BY <1>1, <1>2, <1>3, <1>4, <1>5, <1>6, <1>7, Zenon DEF ConnStep

(* Every step keeps what every association has in line with its task.       *)
LEMMA HoldsStep ==
  ASSUME TypeOK, HoldsInv, [Next]_vars
  PROVE  HoldsInv'
<1> SUFFICES ASSUME NEW d \in Conns
             PROVE  HoldsOf(d)'
  BY DEF HoldsInv
<1>1. HoldsOf(d)
  BY DEF HoldsInv
<1>2. CASE UNCHANGED vars \/ ServerStep
  <2>1. Untouched(d)
    BY <1>2 DEF vars, ServerStep, Stop, AbortAll, StopReturns, LoopEnds, tasks, server, requests,
                channels, Untouched
  <2> QED
    BY <1>1, <2>1, HoldsKept
<1>3. ASSUME NEW c \in Conns, ConnStep(c)
      PROVE  HoldsOf(d)'
  <2>1. CASE d = c
    BY <1>1, <1>3, <2>1, HoldsAtStep
  <2>2. CASE d # c
    BY <1>1, <1>3, <2>2, Elsewhere, HoldsKept
  <2> QED
    BY <2>1, <2>2
<1> QED
  BY <1>2, <1>3, StepCases DEF ConnStep
=============================================================================
