------------------------- MODULE AssociationProofs -------------------------
(***************************************************************************)
(* Proofs about Association: however many sockets the peers open and       *)
(* invoke ids they use, slots are counted exactly, a task that has ended   *)
(* leaves nothing behind, and no request read from a socket is forgotten.  *)
(***************************************************************************)
EXTENDS AssociationLemmas

(***************************************************************************)
(* The requests                                                            *)
(***************************************************************************)
(* The head of a queue without repetition is taken.                         *)
LEMMA TailOnce ==
  ASSUME NEW S, NEW q \in Seq(S), q # <<>>, Once(q)
  PROVE  /\ Head(q) \in Elements(q)
         /\ Elements(Tail(q)) = Elements(q) \ {Head(q)}
         /\ Once(Tail(q))
<1>1. /\ Len(q) \in Nat \ {0} /\ DOMAIN q = 1 .. Len(q) /\ Head(q) = q[1]
      /\ DOMAIN Tail(q) = 1 .. Len(q) - 1
      /\ \A i \in 1 .. Len(q) - 1 : Tail(q)[i] = q[i + 1]
  OBVIOUS
<1>2. Once(Tail(q))
  BY <1>1 DEF Once
<1>3. ASSUME NEW x
      PROVE  x \in Elements(Tail(q)) <=> x \in Elements(q) \ {Head(q)}
  <2>1. ASSUME NEW i \in 1 .. Len(q) - 1
        PROVE  Tail(q)[i] \in Elements(q) \ {Head(q)}
    BY <1>1 DEF Once, Elements
  <2>2. ASSUME NEW i \in 1 .. Len(q), q[i] # q[1]
        PROVE  i - 1 \in 1 .. Len(q) - 1 /\ Tail(q)[i - 1] = q[i]
    BY <1>1, <2>2
  <2>3. /\ x \in Elements(Tail(q)) <=> \E i \in 1 .. Len(q) - 1 : x = Tail(q)[i]
        /\ x \in Elements(q) <=> \E i \in 1 .. Len(q) : x = q[i]
    BY <1>1, Zenon DEF Elements
  <2>4. x \in Elements(q) \ {Head(q)} => x \in Elements(Tail(q))
    BY <1>1, <2>2, <2>3
  <2> QED
    BY <2>1, <2>3, <2>4
<1>4. Head(q) \in Elements(q)
  BY <1>1 DEF Elements
<1> QED
  BY <1>2, <1>3, <1>4

(* An element the queue does not hold is appended.                          *)
LEMMA AppendOnce ==
  ASSUME NEW S, NEW q \in Seq(S), NEW x \in S, x \notin Elements(q), Once(q)
  PROVE  Elements(Append(q, x)) = Elements(q) \cup {x} /\ Once(Append(q, x))
<1>1. /\ Len(q) \in Nat /\ DOMAIN q = 1 .. Len(q)
      /\ DOMAIN Append(q, x) = 1 .. Len(q) + 1
      /\ \A i \in 1 .. Len(q) : Append(q, x)[i] = q[i]
      /\ Append(q, x)[Len(q) + 1] = x
  OBVIOUS
<1>2. Once(Append(q, x))
  BY <1>1 DEF Once, Elements
<1>3. ASSUME NEW y
      PROVE  y \in Elements(Append(q, x)) <=> y \in Elements(q) \cup {x}
  BY <1>1 DEF Elements
<1> QED
  BY <1>2, <1>3

(* Without repetition a queue is as long as it has elements.                *)
LEMMA CountOnce ==
  ASSUME NEW S, NEW q \in Seq(S), Once(q)
  PROVE  IsFiniteSet(Elements(q)) /\ Cardinality(Elements(q)) = Len(q)
<1>1. Len(q) \in Nat /\ DOMAIN q = 1 .. Len(q)
  OBVIOUS
<1>2. q \in [1 .. Len(q) -> Elements(q)]
  BY <1>1 DEF Elements
<1>3. q \in Surjection(1 .. Len(q), Elements(q))
  BY <1>1, <1>2 DEF Surjection, Elements
<1>4. q \in Injection(1 .. Len(q), Elements(q))
  BY <1>1, <1>2 DEF Injection, IsInjective, Once
<1>5. ASSUME NEW n \in Nat
      PROVE  IsFiniteSet(1 .. n) /\ Cardinality(1 .. n) = n
  BY FS_Interval
<1> QED
  BY <1>1, <1>3, <1>4, <1>5, FS_Surjection

(* A connection that is left alone keeps its ledger.                        *)
LEMMA RequestsKept ==
  ASSUME NEW d \in Conns, RequestsOf(d), Untouched(d)
  PROVE  RequestsOf(d)'
  BY Zenon DEF RequestsOf, Untouched, Fresh, Ledger, Current, Deferred

(* Serving a queued outcome answers the request it belongs to.              *)
LEMMA ServeDeferredLedger ==
  ASSUME TypeOK, NEW c \in Conns, Ledger(c), ServeDeferred(c), at'[c] = "top"
  PROVE  Ledger(c)'
<1> DEFINE id == Head(deferredQ[c])
<1>1. /\ at[c] = "wait" /\ deferredQ[c] # <<>> /\ deferredQ[c] \in Seq(InvokeIds)
      /\ deferredQ'[c] = Tail(deferredQ[c])
      /\ held'[c] = held[c] \ {id} /\ asked'[c] = asked[c] \ {id}
      /\ job' = job /\ running' = running
  BY DEF ServeDeferred, SendFails, MoveTo, TypeOK
<1>2. /\ id \in Elements(deferredQ[c])
      /\ Elements(deferredQ'[c]) = Elements(deferredQ[c]) \ {id}
      /\ Once(deferredQ'[c])
  BY <1>1, TailOnce DEF Ledger
<1>3. job[c] = NoJob /\ Current(c) = {} /\ Current(c)' = {}
  BY <1>1 DEF Ledger, Current, NoJob
<1> HIDE DEF id
<1>4. Deferred(c) = held[c] /\ Deferred(c)' = held'[c]
  BY <1>1, <1>3 DEF Deferred
<1>5. held'[c] = running'[c] \cup Elements(deferredQ'[c])
  BY <1>1, <1>2, <1>4 DEF Ledger
<1> QED
  BY <1>1, <1>2, <1>3, <1>4, <1>5, Zenon DEF Ledger, NoJob

(* A request is read while its invoke id is not in use.                     *)
LEMMA ReceiveLedger ==
  ASSUME TypeOK, NEW c \in Conns, Ledger(c), NEW pdu \in Pdus, ReceiveMms(c, pdu)
  PROVE  Ledger(c)'
<1> DEFINE out == ParseMessage(c \in blocked, c \in concluded, pdu)
<1>1. /\ out \in {"dispatch", "reject", "conclude", "silent", "close"}
      /\ pdu = "confirmed" => out \in {"dispatch", "reject"}
      /\ out = "dispatch" => pdu = "confirmed"
  <2>1. (c \in blocked) \in BOOLEAN /\ (c \in concluded) \in BOOLEAN
    OBVIOUS
  <2> QED
    BY <2>1, ParseOutcome, Zenon
<1> HIDE DEF out
<1>2. /\ at[c] = "wait" /\ at'[c] = "dispatch"
      /\ held' = held /\ running' = running /\ deferredQ' = deferredQ
  BY Zenon DEF ReceiveMms, ReceiveTsdu, MoveTo, TypeOK, channels
<1>3. job[c] = NoJob /\ Current(c) = {} /\ asked[c] = held[c] /\ Deferred(c) = held[c]
  BY <1>2 DEF Ledger, Current, Deferred, NoJob
<1>4. \/ pdu = "confirmed" /\ \E id \in InvokeIds \ asked[c] :
            job'[c] = [id |-> id, out |-> out] /\ asked'[c] = asked[c] \cup {id}
      \/ pdu # "confirmed" /\ job'[c] = [id |-> "none", out |-> out] /\ asked'[c] = asked[c]
  BY Zenon DEF ReceiveMms, out, TypeOK
<1>5. /\ asked'[c] = held[c] \cup Current(c)' /\ held[c] \cap Current(c)' = {}
      /\ job'[c].out # "deferred"
      /\ job'[c].out \in {"dispatch", "response", "deferred"} => job'[c].id # "none"
      /\ job'[c].out \in {"silent", "close"} => job'[c].id = "none"
  <2>1. CASE pdu = "confirmed"
    <3>1. PICK id \in InvokeIds \ asked[c] :
            job'[c] = [id |-> id, out |-> out] /\ asked'[c] = asked[c] \cup {id}
      BY <1>4, <2>1, Zenon
    <3>2. job'[c].id = id /\ job'[c].out = out /\ id # "none"
      BY <3>1, IdAssumption
    <3>3. Current(c)' = {id}
      BY <3>2 DEF Current
    <3> QED
      BY <1>1, <1>3, <2>1, <3>1, <3>2, <3>3, Zenon
  <2>2. CASE pdu # "confirmed"
    <3>1. job'[c].id = "none" /\ job'[c].out = out /\ asked'[c] = asked[c]
      BY <1>4, <2>2
    <3>2. Current(c)' = {}
      BY <3>1 DEF Current
    <3> QED
      BY <1>1, <1>3, <2>2, <3>1, <3>2, Zenon
  <2> QED
    BY <2>1, <2>2, Zenon
<1>6. Deferred(c)' = Deferred(c)
  BY <1>2, <1>3, <1>5 DEF Deferred
<1> QED
  BY <1>2, <1>5, <1>6, Zenon DEF Ledger

(* A dispatched request is answered at once or leaves one outcome to come. *)
LEMMA DispatchLedger ==
  ASSUME TypeOK, NEW c \in Conns, Ledger(c), DispatchPdu(c), at'[c] = "respond"
  PROVE  Ledger(c)'
<1>1. /\ at[c] = "dispatch" /\ job[c].out # "deferred" /\ job[c] \in JobType
      /\ held' = held /\ asked' = asked /\ deferredQ' = deferredQ
  BY DEF DispatchPdu, Ledger, channels, TypeOK
<1>2. Deferred(c) = held[c]
  BY <1>1 DEF Deferred
<1>3. CASE job[c].out = "dispatch" /\ job' = [job EXCEPT ![c].out = "response"] /\ running' = running
  <2>1. job'[c].id = job[c].id /\ job'[c].out = "response"
    BY <1>1, <1>3 DEF TypeOK, JobType
  <2>2. Current(c)' = Current(c) /\ Deferred(c)' = held[c] /\ job[c].id # "none"
    BY <1>1, <1>3, <2>1 DEF Current, Deferred, Ledger
  <2> QED
    BY <1>1, <1>2, <1>3, <2>1, <2>2 DEF Ledger
<1>4. CASE /\ job[c].out = "dispatch" /\ job' = [job EXCEPT ![c].out = "deferred"]
           /\ running' = [running EXCEPT ![c] = @ \cup {job[c].id}]
  <2>1. job'[c].id = job[c].id /\ job'[c].out = "deferred"
    BY <1>1, <1>4 DEF TypeOK, JobType
  <2>2. running'[c] = running[c] \cup {job[c].id}
    BY <1>4 DEF TypeOK
  <2>3. /\ Current(c)' = Current(c) /\ Current(c) = {job[c].id} /\ job[c].id # "none"
        /\ Deferred(c)' = held[c] \cup {job[c].id}
    BY <1>1, <1>4, <2>1 DEF Current, Deferred, Ledger
  <2>4. IsFiniteSet(running'[c])
    <3>1. IsFiniteSet(running[c])
      BY DEF Ledger
    <3> QED
      BY <2>2, <3>1, FS_AddElement
  <2>5. /\ Deferred(c)' = running'[c] \cup Elements(deferredQ[c])
        /\ running'[c] \cap Elements(deferredQ[c]) = {}
    BY <1>2, <2>2, <2>3 DEF Ledger
  <2> QED
    BY <1>1, <2>1, <2>3, <2>4, <2>5, Zenon DEF Ledger
<1>5. CASE job[c].out # "dispatch" /\ job' = job /\ running' = running
  <2>1. Current(c)' = Current(c) /\ Deferred(c)' = Deferred(c)
    BY <1>1, <1>5, Zenon DEF Current, Deferred
  <2> QED
    BY <1>1, <1>5, <2>1, Zenon DEF Ledger
<1> QED
  BY <1>3, <1>4, <1>5 DEF DispatchPdu, MoveTo, TypeOK

(* The answer of a request is sent, or held back once.                      *)
LEMMA RespondLedger ==
  ASSUME TypeOK, NEW c \in Conns, Ledger(c), Respond(c), at'[c] = "top"
  PROVE  Ledger(c)'
<1>1. /\ job'[c] = NoJob /\ running' = running /\ deferredQ' = deferredQ
      /\ Current(c)' = {} /\ Deferred(c)' = held'[c]
  BY DEF Respond, channels, TypeOK, Current, Deferred, NoJob
<1>2. held'[c] = Deferred(c) /\ asked'[c] = held'[c]
  <2>1. CASE /\ job[c].out \in {"response", "reject", "conclude"}
             /\ asked' = [asked EXCEPT ![c] = @ \ {job[c].id}] /\ held' = held
    <3>1. asked'[c] = asked[c] \ {job[c].id} /\ asked[c] \subseteq InvokeIds
      BY <2>1 DEF TypeOK
    <3>2. Deferred(c) = held[c]
      BY <2>1 DEF Deferred
    <3>3. asked[c] = held[c] \cup Current(c) /\ held[c] \cap Current(c) = {}
      BY DEF Ledger
    <3>4. asked[c] \ {job[c].id} = held[c]
      BY <3>1, <3>3, IdAssumption DEF Current
    <3> QED
      BY <2>1, <3>1, <3>2, <3>4
  <2>2. CASE /\ job[c].out = "deferred" /\ asked' = asked
             /\ held' = [held EXCEPT ![c] = @ \cup {job[c].id}]
    <3>1. held'[c] = held[c] \cup {job[c].id}
      BY <2>2 DEF TypeOK
    <3>2. Current(c) = {job[c].id}
      BY <2>2, Zenon DEF Ledger, Current
    <3> QED
      BY <2>2, <3>1, <3>2, Zenon DEF Ledger, Deferred
  <2>3. CASE job[c].out = "silent" /\ asked' = asked /\ held' = held
    BY <2>3 DEF Ledger, Current, Deferred
  <2> QED
    BY <2>1, <2>2, <2>3 DEF Respond, SendFails, MoveTo, TypeOK
<1> QED
  BY <1>1, <1>2 DEF Ledger, NoJob

(* An outcome is posted once.                                               *)
LEMMA PostLedger ==
  ASSUME TypeOK, NEW c \in Conns, Ledger(c), NEW id \in InvokeIds, PostDeferred(c, id), Receives(c)
  PROVE  Ledger(c)'
<1>1. /\ id \in running[c] /\ running'[c] = running[c] \ {id}
      /\ deferredQ'[c] = Append(deferredQ[c], id) /\ deferredQ[c] \in Seq(InvokeIds)
      /\ at' = at /\ job' = job /\ held' = held /\ asked' = asked
  BY DEF PostDeferred, TypeOK, tasks
<1>2. /\ Elements(deferredQ'[c]) = Elements(deferredQ[c]) \cup {id}
      /\ Once(deferredQ'[c])
  <2>1. id \notin Elements(deferredQ[c]) /\ Once(deferredQ[c])
    BY <1>1, Zenon DEF Ledger
  <2> QED
    BY <1>1, <2>1, AppendOnce
<1>3. Current(c)' = Current(c) /\ Deferred(c)' = Deferred(c)
  BY <1>1 DEF Current, Deferred
<1>4. IsFiniteSet(running'[c])
  BY <1>1, FS_RemoveElement, Zenon DEF Ledger
<1>5. /\ running'[c] \cup Elements(deferredQ'[c]) = running[c] \cup Elements(deferredQ[c])
      /\ running'[c] \cap Elements(deferredQ'[c]) = {}
  BY <1>1, <1>2, Zenon DEF Ledger
<1> QED
  BY <1>1, <1>2, <1>3, <1>4, <1>5, Zenon DEF Ledger

(* The steps of one task keep its ledger. *)
LEMMA RequestsAtStep ==
  ASSUME TypeOK, NEW c \in Conns, HoldsOf(c), RequestsOf(c), ConnStep(c)
  PROVE  RequestsOf(c)'
<1> DEFINE Before == {"none", "established", "registered"} \cup SetupAt
<1>1. CASE OutsideStep(c)
  <2>1. CASE /\ UNCHANGED <<at, requests, deferredQ>>
    BY <2>1, Zenon DEF requests, RequestsOf, Fresh, Ledger, Current, Deferred
  <2>2. ASSUME NEW id \in InvokeIds, PostDeferred(c, id)
        PROVE  RequestsOf(c)'
    <3>1. at' = at /\ id \in running[c]
      BY <2>2 DEF PostDeferred, tasks
    <3>2. at[c] \notin Before
      BY <3>1 DEF RequestsOf, Fresh
    <3>3. CASE at[c] \in LoopAt
      <4>1. Receives(c)
        BY <3>3 DEF HoldsOf, Receives, LoopAt, TeardownAt
      <4>2. Ledger(c)'
        BY <2>2, <3>3, <4>1, PostLedger DEF RequestsOf
      <4> QED
        BY <3>1, <3>2, <4>2 DEF RequestsOf
    <3>4. CASE at[c] \notin LoopAt
      BY <3>1, <3>2, <3>4 DEF RequestsOf
    <3> QED
      BY <3>3, <3>4
  <2>3. \/ UNCHANGED <<at, requests, deferredQ>>
        \/ \E id \in InvokeIds : PostDeferred(c, id)
    BY <1>1 DEF OutsideStep, AbortConnection, SetBlockRequests, DeadlinePasses, GoesQuiet,
                PostTermination, PostReport, tasks, channels
  <2> QED
    BY <2>1, <2>2, <2>3
<1>2. CASE SetupStep(c) \/ Accept(c) \/ TlsFails(c)
  <2>1. /\ at[c] \in Before /\ UNCHANGED <<requests, deferredQ>>
        /\ at'[c] \in Before \cup {"top", "release", "closed"}
    BY <1>2, Zenon DEF SetupStep, SetupFails, TlsDone, CotpAccepted, Connect, Authenticate, TakeInitiate,
       SetupTimesOut, AddConnection, RegisterSenders, Accept, TryAcquire, TlsFails, MoveTo, channels,
       TypeOK, SetupAt
  <2>2. Fresh(c)'
    BY <2>1, Zenon DEF RequestsOf, Fresh, requests
  <2>3. at'[c] = "top" => Ledger(c)'
    <3>1. Elements(<<>>) = {} /\ Once(<<>>)
      BY DEF Elements, Once
    <3>2. Current(c)' = {} /\ Deferred(c)' = {}
      BY <2>2 DEF Fresh, Current, Deferred, NoJob
    <3> QED
      BY <2>2, <3>1, <3>2, FS_EmptySet DEF Fresh, Ledger, NoJob
  <2> QED
    BY <2>1, <2>2, <2>3, Zenon DEF RequestsOf, SetupAt, LoopAt
<1>3. CASE LoopStep(c)
  <2>1. /\ at[c] \in LoopAt \cup {"release"} /\ at'[c] \in LoopAt \cup {"release", "senders"}
        /\ at'[c] \in LoopAt => at[c] \in LoopAt
    BY <1>3 DEF LoopStep, Top, RecvTimesOut, ReceiveClosing, ReceiveTsdu, ServeDeferred,
       ServeTermination, ServeReport, ReceiveMms, DispatchPdu, Respond, DropStream, AbortAssociation,
       SendFails, MoveTo, TypeOK, LoopAt
  <2>2. at'[c] \in LoopAt => Ledger(c)'
    <3> SUFFICES ASSUME at'[c] \in LoopAt, Ledger(c)
                 PROVE  Ledger(c)'
      BY <2>1 DEF RequestsOf
    <3>1. CASE Top(c) \/ RecvTimesOut(c) \/ ServeTermination(c) \/ ServeReport(c)
      <4>1. /\ at[c] \in {"top", "wait"} /\ UNCHANGED <<requests, deferredQ>>
        BY <3>1, Zenon DEF Top, RecvTimesOut, ServeTermination, ServeReport, channels
      <4> QED
        BY <4>1 DEF requests, Ledger, Current, Deferred, NoJob
    <3>2. CASE ServeDeferred(c)
      <4>1. at'[c] = "top"
        BY <3>2 DEF ServeDeferred, SendFails, MoveTo, TypeOK, LoopAt
      <4> QED
        BY <3>2, <4>1, ServeDeferredLedger
    <3>3. CASE \E pdu \in Pdus : ReceiveMms(c, pdu)
      BY <3>3, ReceiveLedger
    <3>4. CASE DispatchPdu(c)
      <4>1. at'[c] = "respond"
        BY <3>4 DEF DispatchPdu, MoveTo, TypeOK, LoopAt
      <4> QED
        BY <3>4, <4>1, DispatchLedger
    <3>5. CASE Respond(c)
      <4>1. at'[c] = "top"
        BY <3>5, Zenon DEF Respond, SendFails, MoveTo, TypeOK, LoopAt
      <4> QED
        BY <3>5, <4>1, RespondLedger
    <3>6. CASE ReceiveClosing(c) \/ DropStream(c)
      BY <3>6 DEF ReceiveClosing, DropStream, MoveTo, TypeOK, LoopAt
    <3> QED
      BY <1>3, <3>1, <3>2, <3>3, <3>4, <3>5, <3>6 DEF LoopStep
  <2> QED
    BY <2>1, <2>2, Zenon DEF RequestsOf, SetupAt, LoopAt
<1>4. CASE Teardown(c)
  <2>1. at'[c] \in TeardownAt \cup {"closed"}
    BY <1>4, TeardownGoes DEF TypeOK, TeardownAt
  <2> QED
    BY <2>1, Zenon DEF RequestsOf, SetupAt, LoopAt, TeardownAt
<1> QED
  BY <1>1, <1>2, <1>3, <1>4 DEF ConnStep

(* Every step keeps the ledger of every association.                        *)
LEMMA RequestStep ==
  ASSUME TypeOK, HoldsInv, RequestInv, [Next]_vars
  PROVE  RequestInv'
<1> SUFFICES ASSUME NEW d \in Conns
             PROVE  RequestsOf(d)'
  BY DEF RequestInv
<1>1. HoldsOf(d) /\ RequestsOf(d)
  BY DEF HoldsInv, RequestInv
<1>2. CASE UNCHANGED vars \/ ServerStep
  <2>1. Untouched(d)
    BY <1>2 DEF vars, ServerStep, Stop, AbortAll, StopReturns, LoopEnds, tasks, server, requests,
                channels, Untouched
  <2> QED
    BY <1>1, <2>1, RequestsKept
<1>3. ASSUME NEW c \in Conns, ConnStep(c)
      PROVE  RequestsOf(d)'
  <2>1. CASE d = c
    BY <1>1, <1>3, <2>1, RequestsAtStep
  <2>2. CASE d # c
    BY <1>1, <1>3, <2>2, Elsewhere, RequestsKept
  <2> QED
    BY <2>1, <2>2
<1> QED
  BY <1>2, <1>3, StepCases DEF ConnStep

(***************************************************************************)
(* The theorems                                                            *)
(***************************************************************************)
(* A server that has just started: no task, no slot taken, no request.      *)
LEMMA InitInv == Init => IInv
<1> SUFFICES ASSUME Init PROVE IInv
  OBVIOUS
<1>1. TypeOK
  BY DEF Init, TypeOK, Places, NoJob, JobType
<1>2. SlotsInv
  <2>1. AliveConns = {}
    BY DEF Init, AliveConns, Alive, SetupAt, LoopAt, TeardownAt
  <2> QED
    BY <2>1, FS_EmptySet, SlotAssumption DEF Init, SlotsInv
<1>3. HoldsInv
  BY DEF Init, HoldsInv, HoldsOf, NothingQueued, LoopAt
<1>4. RequestInv
  BY DEF Init, RequestInv, RequestsOf, Fresh, LoopAt
<1> QED
  BY <1>1, <1>2, <1>3, <1>4 DEF IInv

(* The inductive invariant holds throughout: the types, the slots, what     *)
(* every association has at the place its task has come to, and the ledger  *)
(* of its requests.                                                         *)
THEOREM AssociationInvariance == Spec => []IInv
<1>1. IInv /\ [Next]_vars => IInv'
  BY TypeStep, SlotsStep, HoldsStep, RequestStep DEF IInv
<1> QED
  BY <1>1, InitInv, PTL DEF Spec

(* open_sockets is the number of connection tasks that have not ended, and  *)
(* never exceeds max_mms_connections, for any number of sockets: no way out *)
(* of set-up, service or release keeps a slot or gives it back twice.       *)
THEOREM SlotsAreCounted == Spec => []SlotsCounted
<1>1. IInv => SlotsCounted
  BY DEF IInv, SlotsInv, AliveConns, SlotsCounted
<1> QED
  BY <1>1, AssociationInvariance, PTL

(* However the task of an association ends, afterwards it is registered     *)
(* nowhere, nothing waits for it and it holds no selection, report control  *)
(* block or edit session; and it has none of them during set-up.            *)
THEOREM EverythingIsReleased == Spec => []ReleasesEverything
<1>1. IInv => ReleasesEverything
  <2> SUFFICES ASSUME IInv, NEW c \in Conns, at[c] \in {"none", "closed"} \cup SetupAt
               PROVE  c \notin table \cup senders /\ holds[c] = {} /\ NothingQueued(c)
    BY DEF ReleasesEverything
  <2>1. HoldsOf(c)
    BY DEF IInv, HoldsInv
  <2> QED
    BY <2>1 DEF HoldsOf, Registered, WithSenders, Serving, MayHold, LoopAt, TeardownAt, SetupAt
<1> QED
  BY <1>1, AssociationInvariance, PTL

(* Between two iterations of the serve loop the client waits for exactly    *)
(* the requests whose response is held back, and each of them has exactly   *)
(* one outcome, which a command is still to post or which waits in the      *)
(* channel, whatever order posts, responses and new requests come in.       *)
THEOREM NoRequestIsForgotten == Spec => []NoRequestForgotten
<1>1. IInv => NoRequestForgotten
  <2> SUFFICES ASSUME IInv, NEW c \in Conns, at[c] \in {"top", "wait"}
               PROVE  /\ asked[c] = held[c]
                      /\ held[c] = running[c] \cup Elements(deferredQ[c])
                      /\ Cardinality(held[c]) = Cardinality(running[c]) + Len(deferredQ[c])
    BY DEF NoRequestForgotten, Elements
  <2>1. Ledger(c) /\ deferredQ[c] \in Seq(InvokeIds)
    BY DEF IInv, RequestInv, RequestsOf, LoopAt, TypeOK
  <2>2. job[c] = NoJob /\ Current(c) = {} /\ Deferred(c) = held[c]
    BY <2>1 DEF Ledger, Current, Deferred, NoJob
  <2>3. asked[c] = held[c] /\ held[c] = running[c] \cup Elements(deferredQ[c])
    BY <2>1, <2>2 DEF Ledger
  <2>4. IsFiniteSet(Elements(deferredQ[c])) /\ Cardinality(Elements(deferredQ[c])) = Len(deferredQ[c])
    BY <2>1, CountOnce DEF Ledger
  <2>5. IsFiniteSet(running[c]) /\ running[c] \cap Elements(deferredQ[c]) = {}
    BY <2>1 DEF Ledger
  <2>6. /\ Cardinality(held[c]) = Cardinality(running[c]) + Len(deferredQ[c]) - Cardinality({})
        /\ Cardinality(running[c]) \in Nat /\ Cardinality({}) = 0 /\ Len(deferredQ[c]) \in Nat
    BY <2>1, <2>3, <2>4, <2>5, FS_Union, FS_EmptySet, FS_CardinalityType
  <2> QED
    BY <2>3, <2>6
<1> QED
  BY <1>1, AssociationInvariance, PTL
=============================================================================
