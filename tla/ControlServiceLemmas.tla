----------------------- MODULE ControlServiceLemmas ------------------------
(***************************************************************************)
(* The inductive invariant of the control service, what its critical       *)
(* sections keep, and the steps of requests, timers and commands.          *)
(***************************************************************************)
EXTENDS ControlService, TLAPS

(* Where a thread can be, and where it goes on once it has reported a      *)
(* change of the selection.                                                *)
AtEnd(th) ==
  \/ th.at \in {"down", "closed", "panicked", "stranded"}
  \/ th.at = "notify" /\ th.next = "closed"

ThreadInv ==
  /\ \A c \in Conns :
       /\ thr[c].at \in ConnAt
       /\ thr[c].at = "notify" => thr[c].next \in {"admit", "arm", "answer", "closed"}
       /\ c \in open <=> ~AtEnd(thr[c])
  /\ \A i \in Cmds :
       /\ thr[i].at \in CmdAt
       /\ thr[i].at = "notify" => thr[i].next \in {"post", "done", "terminate"}
       /\ thr[i].at # "free" => task[i].conn \in Conns
  /\ \A t \in TimerTasks \cup AppThreads :
       thr[t].at \in OtherAt /\ (thr[t].at = "notify" => thr[t].next = "idle")

(* A posted outcome belongs to a command of the association: a pass to one *)
(* that waits for its response, a refusal to one that is over.  No command *)
(* has two.                                                                *)
Outcome == [cmd : Cmds, ok : BOOLEAN]
Settles(done, c) ==
  /\ task[done.cmd].conn = c
  /\ thr[done.cmd].at = IF done.ok THEN "await" ELSE "done"

QueueType == deferredQ \in [Conns -> Seq(Outcome)]
QueueSettles ==
  \A c \in Conns : \A n \in 1 .. Len(deferredQ[c]) : Settles(deferredQ[c][n], c)
QueueOnce ==
  \A c \in Conns : \A m, n \in 1 .. Len(deferredQ[c]) :
    m # n => deferredQ[c][m].cmd # deferredQ[c][n].cmd
QueueInv == QueueType /\ QueueSettles /\ QueueOnce

IInv == TypeOK /\ OneCommand /\ ReleasedHoldsNothing /\ ThreadInv /\ QueueInv

-----------------------------------------------------------------------------
(* The critical sections keep the object well formed.                      *)
WellFormed(o) == o \in ObjectType /\ Consistent(o)

(* clear leaves an unselected object without owner.                        *)
LEMMA ClearFacts ==
  ASSUME NEW o, WellFormed(o)
  PROVE  WellFormed(Clear(o)) /\ Clear(o).state = "unselected" /\ Clear(o).owner = NoConn
<1> DEFINE r == Clear(o)
<1>1. r \in ObjectType
  BY Zenon DEF WellFormed, ObjectType, Clear, States
<1>2. /\ r.state = "unselected" /\ r.owner = NoConn /\ r.active = NoSettings
      /\ r.timer = 0 /\ r.lost = FALSE
  BY DEF WellFormed, ObjectType, Clear
<1>3. Consistent(r)
  BY <1>2 DEF Consistent
<1> QED
  BY <1>1, <1>2, <1>3 DEF WellFormed

(* enter_ready makes a ready object of the connection it is given.         *)
LEMMA EnterReadyFacts ==
  ASSUME NEW o, WellFormed(o), o.lost = FALSE, NEW c \in Conns, NEW s \in Configs
  PROVE  /\ WellFormed(EnterReady(o, c, s))
         /\ EnterReady(o, c, s).state = "ready" /\ EnterReady(o, c, s).owner = c
<1> DEFINE r == EnterReady(o, c, s)
<1>1. r \in ObjectType
  <2>1. o.period + 1 \in Nat
    BY DEF WellFormed, ObjectType
  <2>2. r = [o EXCEPT !.state = "ready", !.owner = c, !.active = s,
                      !.period = o.period + 1, !.due = FALSE, !.timer = 0]
    BY DEF EnterReady
  <2> HIDE DEF r
  <2> DEFINE n == o.period + 1
  <2> HIDE DEF n
  <2> QED
    BY <2>1, <2>2, Zenon DEF WellFormed, ObjectType, States, n
<1>2. /\ r.state = "ready" /\ r.owner = c /\ r.active = s
      /\ r.timer = 0 /\ r.lost = FALSE
  BY DEF WellFormed, ObjectType, EnterReady
<1>3. Consistent(r)
  BY <1>2, ConnAssumption, ConfigAssumption DEF Consistent
<1> QED
  BY <1>1, <1>2, <1>3 DEF WellFormed

(* A select is enter_ready, with the parameters of an SBOw.                *)
LEMMA SbowFacts ==
  ASSUME NEW o, WellFormed(o), o.lost = FALSE, NEW c \in Conns, NEW s \in Configs,
         NEW p \in Params \cup {NoParams}
  PROVE  /\ WellFormed(SbowSelect(o, c, s, p))
         /\ SbowSelect(o, c, s, p).state = "ready" /\ SbowSelect(o, c, s, p).owner = c
<1> DEFINE r == EnterReady(o, c, s)
           q == SbowSelect(o, c, s, p)
<1>1. WellFormed(r) /\ r.state = "ready" /\ r.owner = c
  BY EnterReadyFacts, Zenon
<1>2. q = [r EXCEPT !.params = p]
  BY DEF SbowSelect
<1> HIDE DEF r, q
<1>3. q \in ObjectType /\ q.state = r.state /\ q.owner = r.owner /\ q.active = r.active
      /\ q.timer = r.timer /\ q.period = r.period /\ q.lost = r.lost
  BY <1>1, <1>2 DEF WellFormed, ObjectType
<1>4. WellFormed(q) /\ q.state = "ready" /\ q.owner = c
  BY <1>1, <1>3 DEF WellFormed, Consistent
<1> QED
  BY <1>4 DEF q

(* An accepted Operate executes for its connection; a refused one leaves   *)
(* the object alone or clears a ready one.                                 *)
Begins(o, c, r) ==
  /\ o.state \in {"unselected", "ready"}
  /\ WellFormed(r) /\ r.state = "waitForExecution" /\ r.owner = c /\ r.lost = FALSE

(* begin_operate that accepts moves an idle object to wait for execution.  *)
LEMMA BeginFacts ==
  ASSUME NEW o, WellFormed(o), NEW c \in Conns, NEW s \in Configs,
         NEW p \in Params \cup {NoParams}, BeginVerdict(o, c, s, p) = "accepted"
  PROVE  Begins(o, c, BeginOperate(o, c, s, p))
<1>1. SettingsLocked(o, s) \in Configs
  BY ConfigAssumption DEF SettingsLocked, WellFormed, ObjectType, Consistent
<1>2. o.state \in {"unselected", "ready"}
  BY DEF BeginVerdict, WellFormed, ObjectType, States
<1>3. BeginOperate(o, c, s, p) =
        [o EXCEPT !.state = "waitForExecution", !.params = p, !.owner = c,
                  !.active = SettingsLocked(o, s), !.timer = 0]
  BY DEF BeginOperate
<1>4. o.lost = FALSE
  BY <1>2 DEF WellFormed, ObjectType, Consistent
<1> DEFINE q == BeginOperate(o, c, s, p)
           l == SettingsLocked(o, s)
<1>5. /\ q = [o EXCEPT !.state = "waitForExecution", !.params = p, !.owner = c,
                        !.active = l, !.timer = 0]
      /\ l \in Configs
  BY <1>1, <1>3
<1> HIDE DEF q, l
<1>6. /\ q \in ObjectType
      /\ q.state = "waitForExecution" /\ q.owner = c /\ q.active = l
      /\ q.timer = 0 /\ q.lost = FALSE
  BY <1>5, <1>4, Zenon DEF WellFormed, ObjectType, States
<1>7. Consistent(q)
  BY <1>5, <1>6, ConnAssumption, ConfigAssumption DEF Consistent
<1> QED
  BY <1>2, <1>6, <1>7 DEF q, WellFormed, Begins

(* Parameters that differ from the SBOw clear a ready object.              *)
LEMMA DiffersFacts ==
  ASSUME NEW o, WellFormed(o), NEW c \in Conns, NEW s \in Configs,
         NEW p, BeginVerdict(o, c, s, p) = "differsFromSbow"
  PROVE  BeginOperate(o, c, s, p) = Clear(o) /\ o.state = "ready"
<1>1. o.state = "ready"
  BY DEF BeginVerdict
<1> QED
  BY <1>1 DEF BeginOperate

(* finish_operate of an executing object: ready again for the same, still  *)
(* connected owner, or cleared.                                            *)
LEMMA FinishFacts ==
  ASSUME NEW o, WellFormed(o), IsExecuting(o)
  PROVE  /\ WellFormed(FinishOperate(o))
         /\ ~IsExecuting(FinishOperate(o))
         /\ \/ FinishOperate(o).owner = NoConn
            \/ FinishOperate(o).owner = o.owner /\ o.lost = FALSE
<1>1. CASE StaysReady(o)
  <2>1. o.owner \in Conns /\ o.active \in Configs /\ o.lost = FALSE
    BY <1>1 DEF StaysReady, IsExecuting, WellFormed, ObjectType, Consistent
  <2>2. FinishOperate(o) = EnterReady(o, o.owner, o.active)
    BY <1>1, Zenon DEF FinishOperate
  <2>3. /\ WellFormed(EnterReady(o, o.owner, o.active))
        /\ EnterReady(o, o.owner, o.active).state = "ready"
        /\ EnterReady(o, o.owner, o.active).owner = o.owner
    BY <2>1, EnterReadyFacts, Zenon
  <2>4. ~IsExecuting(EnterReady(o, o.owner, o.active))
    BY <2>3 DEF IsExecuting
  <2> QED
    BY <2>1, <2>2, <2>3, <2>4, Zenon
<1>2. CASE ~StaysReady(o)
  BY <1>2, ClearFacts DEF FinishOperate, IsExecuting
<1> QED
  BY <1>1, <1>2, Zenon

(* The sections that touch only the timer or the execution stage.          *)
LEMMA SmallSections ==
  ASSUME NEW o, WellFormed(o)
  PROVE  /\ \A p \in Nat : /\ WellFormed(ArmSelectTimer(o, p))
                           /\ ArmSelectTimer(o, p).state = o.state
                           /\ ArmSelectTimer(o, p).owner = o.owner
                           /\ ArmSelectTimer(o, p).lost = o.lost
         /\ WellFormed(SetStateOperate(o))
         /\ IsExecuting(SetStateOperate(o)) <=> IsExecuting(o)
         /\ SetStateOperate(o).owner = o.owner
         /\ SetStateOperate(o).lost = o.lost
BY DEF WellFormed, ObjectType, Consistent, ArmSelectTimer, SetStateOperate, IsExecuting,
       IsReadyIn, States

-----------------------------------------------------------------------------
(* The step of one thread.                                                 *)
OnlyMoves(t) ==
  /\ thr' \in [Threads -> ThreadType]
  /\ \A u \in Threads : u # t => thr'[u] = thr[u]

(* The new position is one the thread can have.                            *)
Positioned(t) ==
  /\ t \in Conns =>
       /\ thr'[t].at \in ConnAt
       /\ thr'[t].at = "notify" => thr'[t].next \in {"admit", "arm", "answer", "closed"}
       /\ AtEnd(thr'[t]) <=> AtEnd(thr[t])
  /\ t \in Cmds =>
       /\ thr'[t].at \in CmdAt
       /\ thr'[t].at = "notify" => thr'[t].next \in {"post", "done", "terminate"}
       /\ thr[t].at # "free"
  /\ t \in TimerTasks \cup AppThreads =>
       thr'[t].at \in OtherAt /\ (thr'[t].at = "notify" => thr'[t].next = "idle")

DataTyped ==
  /\ WellFormed(obj)
  /\ live \in Configs
  /\ stSeld \in BOOLEAN
  /\ told \in Int
  /\ taken \in Nat
  /\ req \in [Conns -> RequestType]

(* A thread that keeps its position right keeps ThreadInv.                 *)
LEMMA ThreadStep ==
  ASSUME IInv, NEW t \in Threads, OnlyMoves(t), Positioned(t), task' = task, open' = open
  PROVE  ThreadInv'
<1>1. \A c \in Conns :
        /\ thr'[c].at \in ConnAt
        /\ thr'[c].at = "notify" => thr'[c].next \in {"admit", "arm", "answer", "closed"}
        /\ c \in open <=> ~AtEnd(thr'[c])
  <2> TAKE c \in Conns
  <2>1. CASE c = t
    BY <2>1 DEF IInv, ThreadInv, Positioned
  <2>2. CASE c # t
    <3>1. thr'[c] = thr[c]
      BY <2>2 DEF OnlyMoves, Threads
    <3> QED
      BY <3>1 DEF IInv, ThreadInv
  <2> QED
    BY <2>1, <2>2
<1>2. \A i \in Cmds :
        /\ thr'[i].at \in CmdAt
        /\ thr'[i].at = "notify" => thr'[i].next \in {"post", "done", "terminate"}
        /\ thr'[i].at # "free" => task[i].conn \in Conns
  <2> TAKE i \in Cmds
  <2>1. CASE i = t
    BY <2>1 DEF IInv, ThreadInv, Positioned
  <2>2. CASE i # t
    <3>1. thr'[i] = thr[i]
      BY <2>2 DEF OnlyMoves, Threads
    <3> QED
      BY <3>1 DEF IInv, ThreadInv
  <2> QED
    BY <2>1, <2>2
<1>3. \A u \in TimerTasks \cup AppThreads :
        thr'[u].at \in OtherAt /\ (thr'[u].at = "notify" => thr'[u].next = "idle")
  <2> TAKE u \in TimerTasks \cup AppThreads
  <2>1. CASE u = t
    BY <2>1 DEF Positioned
  <2>2. CASE u # t
    <3>1. thr'[u] = thr[u]
      BY <2>2 DEF OnlyMoves, Threads
    <3> QED
      BY <3>1 DEF IInv, ThreadInv
  <2> QED
    BY <2>1, <2>2
<1> QED
  BY <1>1, <1>2, <1>3 DEF ThreadInv, AtEnd

(* The outcomes posted stay right while no command that has one moves.     *)
LEMMA QueueStep ==
  ASSUME IInv, NEW t \in Threads, OnlyMoves(t), task' = task, deferredQ' = deferredQ,
         t \in Cmds => thr[t].at \notin {"await", "done"}
  PROVE  QueueInv'
<1>1. QueueSettles'
  <2> SUFFICES ASSUME NEW c \in Conns, NEW n \in 1 .. Len(deferredQ[c])
               PROVE  Settles(deferredQ[c][n], c)'
    BY DEF QueueSettles
  <2>1. deferredQ[c] \in Seq(Outcome)
    BY DEF IInv, QueueInv, QueueType
  <2>2. PICK done \in Outcome : done = deferredQ[c][n]
    BY <2>1
  <2>3. Settles(done, c) /\ done.cmd \in Cmds
    BY <2>2 DEF IInv, QueueInv, QueueSettles, Outcome
  <2>4. done.cmd # t
    BY <2>3 DEF Settles
  <2>5. thr'[done.cmd] = thr[done.cmd]
    BY <2>3, <2>4 DEF OnlyMoves, Threads
  <2> QED
    BY <2>2, <2>3, <2>5 DEF Settles
<1> QED
  BY <1>1 DEF IInv, QueueInv, QueueType, QueueOnce

(* One thread moves: what is left to show is about the object.             *)
LEMMA MoveStep ==
  ASSUME IInv, NEW t \in Threads, OnlyMoves(t), Positioned(t),
         task' = task, open' = open, deferredQ' = deferredQ,
         t \in Cmds => thr[t].at \notin {"await", "done"},
         DataTyped', OneCommand', ReleasedHoldsNothing'
  PROVE  IInv'
<1>1. ThreadInv' /\ QueueInv'
  BY ThreadStep, QueueStep
<1>2. TypeOK'
  BY DEF TypeOK, IInv, DataTyped, WellFormed, OnlyMoves, ThreadType
<1> QED
  BY <1>1, <1>2 DEF IInv

(* The command that holds the object, if any, goes on holding it.          *)
LEMMA HolderStays ==
  ASSUME IInv, NEW t \in Threads, OnlyMoves(t), task' = task,
         t \in Conns \cup Cmds => (thr'[t].at \in HoldingAt <=> thr[t].at \in HoldingAt),
         IsExecuting(obj') <=> IsExecuting(obj),
         IsExecuting(obj) => obj'.owner = obj.owner
  PROVE  OneCommand'
<1>1. Holders' = Holders
  BY DEF Holders, OnlyMoves, Threads
<1>2. \A u \in Holders : HolderConn(u)' = HolderConn(u)
  BY DEF HolderConn
<1>3. IsExecuting(obj)' <=> IsExecuting(obj')
  BY DEF IsExecuting
<1> QED
  BY <1>1, <1>2, <1>3 DEF IInv, OneCommand

(* The command that holds the object lets go of it.                        *)
LEMMA HolderLeaves ==
  ASSUME IInv, NEW t \in Conns \cup Cmds, OnlyMoves(t), task' = task,
         thr[t].at \in HoldingAt, thr'[t].at \notin HoldingAt, ~IsExecuting(obj')
  PROVE  OneCommand'
<1>1. \A u \in Holders : u = t
  BY DEF IInv, OneCommand, Holders
<1>2. Holders' = {}
  BY <1>1 DEF Holders, OnlyMoves, Threads
<1> QED
  BY <1>2 DEF OneCommand, IsExecuting

(* A connection whose Operate is accepted becomes the one that holds.      *)
LEMMA HolderEnters ==
  ASSUME IInv, NEW c \in Conns, OnlyMoves(c), task' = task,
         ~IsExecuting(obj), IsExecuting(obj'), obj'.owner = c, thr'[c].at \in HoldingAt
  PROVE  OneCommand'
<1>1. Holders = {}
  BY DEF IInv, OneCommand
<1>2. Holders' = {c}
  BY <1>1 DEF Holders, OnlyMoves, Threads
<1> QED
  BY <1>2 DEF OneCommand, IsExecuting, HolderConn

(* The owner is none, an open association, or the one it was.              *)
LEMMA ReleasedStays ==
  ASSUME IInv, NEW t \in Threads, OnlyMoves(t), open' = open,
         t \in Conns => (thr'[t].at \in Unreleased <=> thr[t].at \in Unreleased),
         \/ obj'.owner = NoConn
         \/ obj'.owner \in open
         \/ /\ obj'.owner = obj.owner
            /\ IsExecuting(obj) => IsExecuting(obj') /\ obj'.lost = obj.lost
  PROVE  ReleasedHoldsNothing'
<1> SUFFICES ASSUME NEW c \in Conns, Released(c)', obj'.owner = c
             PROVE  IsExecuting(obj') /\ obj'.lost
  BY DEF ReleasedHoldsNothing, IsExecuting
<1>1. c \notin open /\ thr'[c].at \notin Unreleased
  BY DEF Released
<1>2. thr[c].at \notin Unreleased
  BY <1>1 DEF OnlyMoves, Threads
<1>3. obj'.owner = obj.owner /\ (IsExecuting(obj) => IsExecuting(obj') /\ obj'.lost = obj.lost)
  BY <1>1, ConnAssumption
<1> QED
  BY <1>1, <1>2, <1>3 DEF IInv, ReleasedHoldsNothing, Released

-----------------------------------------------------------------------------
(* One lemma per action or group of actions.                               *)

(* The facts of IInv a step starts from.                                   *)
LEMMA Typed ==
  ASSUME IInv
  PROVE  /\ DataTyped /\ thr \in [Threads -> ThreadType]
         /\ \A c \in Conns : c \in Threads /\ c \notin Cmds /\ c \notin TimerTasks \cup AppThreads
         /\ \A i \in Cmds : i \in Threads /\ i \notin Conns /\ i \notin TimerTasks \cup AppThreads
         /\ \A k \in TimerTasks \cup AppThreads : k \in Threads /\ k \notin Conns /\ k \notin Cmds
BY ThreadAssumption DEF IInv, TypeOK, DataTyped, WellFormed, ThreadType, Threads

(* What the three ways to move a thread do.                                *)
LEMMA GoFacts ==
  ASSUME thr \in [Threads -> ThreadType], NEW t \in Threads, NEW at \in Places, thr' = Go(t, at)
  PROVE  OnlyMoves(t) /\ thr'[t].at = at
<1>1. Thread(at) \in ThreadType /\ Thread(at).at = at
  BY DEF Thread, ThreadType, Places
<1> QED
  BY <1>1 DEF Go, OnlyMoves

(* A move that carries the ready period.                                   *)
LEMMA GoInFacts ==
  ASSUME thr \in [Threads -> ThreadType], NEW t \in Threads, NEW at \in Places, NEW p \in Nat,
         thr' = [thr EXCEPT ![t] = [Thread(at) EXCEPT !.per = p]]
  PROVE  OnlyMoves(t) /\ thr'[t].at = at
<1> DEFINE r == [Thread(at) EXCEPT !.per = p]
<1>1. r \in ThreadType /\ r.at = at
  BY DEF Thread, ThreadType, Places
<1>2. thr' = [thr EXCEPT ![t] = r]
  OBVIOUS
<1> HIDE DEF r
<1> QED
  BY <1>1, <1>2, Zenon DEF OnlyMoves

(* A move to the report of a selection change.                             *)
LEMMA ReportFacts ==
  ASSUME thr \in [Threads -> ThreadType], NEW t \in Threads,
         NEW say \in {"selected", "ended", "timeout"}, NEW p \in Nat, NEW next \in Places,
         thr' = Report(t, say, p, next)
  PROVE  OnlyMoves(t) /\ thr'[t].at = "notify" /\ thr'[t].next = next
<1> DEFINE r == [at |-> "notify", next |-> next, per |-> p, say |-> say]
<1>1. r \in ThreadType /\ r.at = "notify" /\ r.next = next
  BY DEF ThreadType, Places, ConnAt
<1>2. thr' = [thr EXCEPT ![t] = r]
  BY DEF Report
<1> HIDE DEF r
<1> QED
  BY <1>1, <1>2 DEF OnlyMoves

(* A thread that has reported goes on.                                     *)
LEMMA NotifyStep == ASSUME IInv, NEW t \in Threads, Notify(t) PROVE IInv'
<1>1. OnlyMoves(t) /\ thr[t].at = "notify" /\ thr'[t].at = thr[t].next
  <2>1. thr[t].next \in Places /\ thr[t].per \in Nat /\ thr \in [Threads -> ThreadType]
    BY Typed DEF ThreadType
  <2> QED
    BY <2>1, GoInFacts, Zenon DEF Notify
<1>2. Positioned(t) /\ thr'[t].at \notin {"notify", "down"} \cup HoldingAt
  BY <1>1, Typed DEF IInv, ThreadInv, Positioned, AtEnd, ConnAt, CmdAt, OtherAt, HoldingAt, Threads
<1>3. DataTyped'
  BY Typed DEF Notify, DataTyped, WellFormed
<1>4. OneCommand'
  BY <1>1, <1>2, HolderStays DEF Notify, HoldingAt
<1>5. ReleasedHoldsNothing'
  BY <1>1, <1>2, ReleasedStays DEF Notify, Unreleased, HoldingAt
<1> QED
  BY <1>1, <1>2, <1>3, <1>4, <1>5, MoveStep DEF Notify, queues

(* The timer is armed for the ready period it was asked for.               *)
LEMMA ArmStep == ASSUME IInv, NEW t \in Threads, Arm(t) PROVE IInv'
<1>1. thr \in [Threads -> ThreadType] /\ WellFormed(obj) /\ thr[t].per \in Nat /\ t \in Conns \cup Cmds
  BY Typed DEF Arm, DataTyped, ThreadType, IInv, ThreadInv, OtherAt, Threads
<1>2. /\ OnlyMoves(t) /\ thr[t].at = "arm"
      /\ thr'[t].at = IF t \in Conns THEN "answer" ELSE "terminate"
  BY <1>1, GoFacts DEF Arm, Places, ConnAt, CmdAt
<1>3. Positioned(t)
  BY <1>1, <1>2, Typed DEF Positioned, AtEnd, ConnAt, CmdAt
<1>4. /\ WellFormed(obj') /\ obj'.state = obj.state /\ obj'.owner = obj.owner
      /\ obj'.lost = obj.lost
  BY <1>1, SmallSections, Zenon DEF Arm
<1>5. DataTyped'
  BY <1>4, Typed DEF Arm, DataTyped, WellFormed
<1>6. OneCommand'
  BY <1>2, <1>4, HolderStays DEF Arm, HoldingAt, IsExecuting
<1>7. ReleasedHoldsNothing'
  BY <1>2, <1>4, ReleasedStays DEF Arm, IsExecuting, Unreleased
<1> QED
  BY <1>2, <1>3, <1>5, <1>6, <1>7, MoveStep DEF Arm, queues

(* The select timeout elapses.                                             *)
LEMMA ElapseStep == ASSUME IInv, Elapse PROVE IInv'
<1>1. /\ obj' \in ObjectType /\ obj'.state = obj.state /\ obj'.owner = obj.owner
      /\ obj'.active = obj.active /\ obj'.timer = obj.timer /\ obj'.period = obj.period
      /\ obj'.lost = obj.lost
  BY Zenon DEF Elapse, IInv, TypeOK, ObjectType
<1>2. TypeOK'
  BY <1>1 DEF Elapse, IInv, TypeOK, Consistent
<1>3. OneCommand' /\ ReleasedHoldsNothing'
  BY <1>1 DEF Elapse, IInv, OneCommand, Holders, HolderConn, IsExecuting, ReleasedHoldsNothing,
              Released
<1>4. ThreadInv' /\ QueueInv'
  BY DEF Elapse, queues, IInv, ThreadInv, QueueInv, QueueType, QueueSettles, QueueOnce, Settles
<1> QED
  BY <1>2, <1>3, <1>4 DEF IInv

(* The attributes change.                                                  *)
LEMMA ChangeStep == ASSUME IInv, NEW s \in Configs, ChangeSettings(s) PROVE IInv'
<1>1. TypeOK'
  BY DEF ChangeSettings, IInv, TypeOK
<1>2. OneCommand' /\ ReleasedHoldsNothing'
  BY DEF ChangeSettings, IInv, OneCommand, Holders, HolderConn, ReleasedHoldsNothing, Released
<1>3. ThreadInv' /\ QueueInv'
  BY DEF ChangeSettings, queues, IInv, ThreadInv, QueueInv, QueueType, QueueSettles, QueueOnce,
         Settles
<1> QED
  BY <1>1, <1>2, <1>3 DEF IInv

(* A timer task wakes.                                                     *)
LEMMA WakeStep == ASSUME IInv, NEW k \in TimerTasks, TimerWake(k) PROVE IInv'
<1>1. thr \in [Threads -> ThreadType] /\ obj.timer \in Nat /\ k \in Threads
  BY Typed DEF DataTyped, WellFormed, ObjectType
<1>2. OnlyMoves(k) /\ thr'[k].at = "expire"
  BY <1>1, GoInFacts, Zenon DEF TimerWake, GoIn, Places, ConnAt
<1>3. Positioned(k)
  BY <1>2, Typed DEF Positioned, OtherAt
<1>4. /\ obj' \in ObjectType /\ obj'.state = obj.state /\ obj'.owner = obj.owner
      /\ obj'.active = obj.active /\ obj'.timer = 0 /\ obj'.lost = obj.lost
  BY Typed DEF TimerWake, DataTyped, WellFormed, ObjectType
<1>5. DataTyped'
  BY <1>4, Typed DEF TimerWake, DataTyped, WellFormed, Consistent
<1>6. OneCommand'
  BY <1>1, <1>2, <1>4, Typed, HolderStays DEF TimerWake, IsExecuting
<1>7. ReleasedHoldsNothing'
  BY <1>1, <1>2, <1>4, Typed, ReleasedStays DEF TimerWake, IsExecuting
<1> QED
  BY <1>1, <1>2, <1>3, <1>5, <1>6, <1>7, Typed, MoveStep DEF TimerWake, queues

(* A ready selection ends and the thread has yet to report it.             *)
LEMMA EndsReady ==
  ASSUME IInv, NEW t \in Threads, OnlyMoves(t), obj.state = "ready", obj' = Clear(obj),
         task' = task, open' = open,
         t \in Conns \cup Cmds => thr[t].at \notin HoldingAt /\ thr'[t].at \notin HoldingAt,
         t \in Conns => (thr'[t].at \in Unreleased <=> thr[t].at \in Unreleased)
  PROVE  WellFormed(obj') /\ OneCommand' /\ ReleasedHoldsNothing'
<1>1. WellFormed(obj') /\ obj'.state = "unselected" /\ obj'.owner = NoConn
  BY ClearFacts, Typed DEF DataTyped
<1>2. OneCommand'
  BY <1>1, HolderStays DEF IsExecuting
<1>3. ReleasedHoldsNothing'
  BY <1>1, ReleasedStays
<1> QED
  BY <1>1, <1>2, <1>3

(* A stale selection expires, or was gone.                                 *)
LEMMA ExpireStep == ASSUME IInv, NEW t \in Threads, Expire(t) PROVE IInv'
<1> DEFINE next == IF t \in Conns THEN "admit" ELSE "idle"
<1>1. /\ thr \in [Threads -> ThreadType] /\ obj.period \in Nat /\ next \in Places
      /\ t \notin Cmds /\ thr[t].at = "expire"
  BY Typed, Zenon DEF Expire, DataTyped, WellFormed, ObjectType, IInv, ThreadInv, CmdAt, Places, ConnAt
<1>2. /\ OnlyMoves(t)
      /\ \/ thr'[t].at = "notify" /\ thr'[t].next = next
         \/ thr'[t].at = next
  BY <1>1, GoFacts, ReportFacts DEF Expire
<1>3. Positioned(t)
  BY <1>1, <1>2, Typed DEF Positioned, AtEnd, ConnAt, OtherAt, Threads
<1>4. WellFormed(obj') /\ OneCommand' /\ ReleasedHoldsNothing'
  <2>1. t \in Conns => (thr'[t].at \in Unreleased <=> thr[t].at \in Unreleased)
    BY <1>1, <1>2 DEF Unreleased
  <2>2. t \in Conns \cup Cmds => thr[t].at \notin HoldingAt /\ thr'[t].at \notin HoldingAt
    BY <1>1, <1>2 DEF HoldingAt
  <2>3. CASE IsReadyIn(obj, thr[t].per)
    BY <1>2, <2>1, <2>2, <2>3, EndsReady, Zenon DEF Expire, ExpireSelection, IsReadyIn
  <2>4. CASE ~IsReadyIn(obj, thr[t].per)
    <3>1. obj' = obj
      BY <2>4 DEF Expire, ExpireSelection
    <3>2. OneCommand'
      BY <1>2, <2>2, <3>1, HolderStays DEF Expire
    <3>3. ReleasedHoldsNothing'
      BY <1>2, <2>1, <3>1, ReleasedStays DEF Expire
    <3> QED
      BY <3>1, <3>2, <3>3, Typed DEF DataTyped, WellFormed
  <2> QED
    BY <2>3, <2>4
<1>5. DataTyped'
  BY <1>4, Typed DEF Expire, DataTyped, WellFormed
<1> QED
  BY <1>1, <1>2, <1>3, <1>4, <1>5, MoveStep DEF Expire, queues

(* The application deselects.                                              *)
LEMMA UnselectStep == ASSUME IInv, NEW a \in AppThreads, TryUnselect(a) PROVE IInv'
<1>1. thr \in [Threads -> ThreadType] /\ obj.period \in Nat /\ a \in Threads
  BY Typed DEF DataTyped, WellFormed, ObjectType
<1>2. OnlyMoves(a) /\ thr'[a].at = "notify" /\ thr'[a].next = "idle"
  BY <1>1, ReportFacts DEF TryUnselect, Places, ConnAt
<1>3. Positioned(a)
  BY <1>2, Typed DEF Positioned, OtherAt
<1>4. WellFormed(obj') /\ OneCommand' /\ ReleasedHoldsNothing'
  BY <1>1, <1>2, Typed, EndsReady DEF TryUnselect
<1>5. DataTyped'
  BY <1>4, Typed DEF TryUnselect, DataTyped, WellFormed
<1> QED
  BY <1>1, <1>2, <1>3, <1>4, <1>5, Typed, MoveStep DEF TryUnselect, queues

(* A request in a position where it holds nothing.                         *)
Serving == {"idle", "stale", "expire", "admit", "select", "arm", "answer"}

(* An association that only goes on leaves the invariant alone.            *)
LEMMA ServingStep ==
  ASSUME IInv, NEW c \in Conns, OnlyMoves(c), thr[c].at \in Serving, thr'[c].at \in Serving,
         UNCHANGED <<obj, live, stSeld, told, task, open, deferredQ>>,
         req' \in [Conns -> RequestType], taken' \in Nat
  PROVE  IInv'
<1>1. Positioned(c)
  BY Typed DEF Positioned, AtEnd, ConnAt, Serving
<1>2. OneCommand'
  BY Typed, HolderStays DEF Serving, HoldingAt
<1>3. ReleasedHoldsNothing'
  BY Typed, ReleasedStays DEF Serving, Unreleased
<1>4. DataTyped'
  BY Typed DEF DataTyped, WellFormed
<1> QED
  BY <1>1, <1>2, <1>3, <1>4, Typed, MoveStep, Zenon

(* The answer of a request is one of the four.                             *)
LEMMA AnsweredType ==
  ASSUME req \in [Conns -> RequestType], NEW c \in Conns, NEW ans \in {"pos", "neg", "hold"}
  PROVE  Answered(c, ans) \in [Conns -> RequestType]
<1>1. [req[c] EXCEPT !.ans = ans] \in RequestType
  BY DEF RequestType
<1> QED
  BY <1>1 DEF Answered

(* The loop takes a request from the socket.                               *)
LEMMA RequestStep ==
  ASSUME IInv, NEW c \in Conns, NEW op \in {"sbo", "sbow", "oper", "cancel"},
         NEW p \in Params \cup {NoParams}, Request(c, op, p)
  PROVE  IInv'
<1>1. OnlyMoves(c) /\ thr[c].at \in Serving /\ thr'[c].at \in Serving
  BY Typed, GoFacts DEF Request, Serving, Places, ConnAt
<1>2. req' \in [Conns -> RequestType]
  <2>1. [NoReq EXCEPT !.op = op, !.par = p] \in RequestType
    BY Zenon DEF NoReq, RequestType
  <2> QED
    BY <2>1, Typed DEF Request, DataTyped
<1>3. taken' \in Nat
  BY Typed DEF Request, DataTyped
<1> QED
  BY <1>1, <1>2, <1>3, ServingStep DEF Request, queues

(* check_sbo_timeout reads the object under its first lock.                *)
LEMMA CheckTimeoutStep == ASSUME IInv, NEW c \in Conns, CheckSboTimeout(c) PROVE IInv'
<1>1. obj.period \in Nat
  BY Typed DEF DataTyped, WellFormed, ObjectType
<1>2. OnlyMoves(c) /\ thr[c].at \in Serving /\ thr'[c].at \in Serving
  BY <1>1, Typed, GoFacts, GoInFacts, Zenon DEF CheckSboTimeout, GoIn, Serving, Places, ConnAt
<1> QED
  BY <1>2, Typed, ServingStep, Zenon DEF CheckSboTimeout, queues, DataTyped

(* The model check of a select changes no object.                          *)
LEMMA AdmitSelectStep == ASSUME IInv, NEW c \in Conns, AdmitSelect(c) PROVE IInv'
<1>1. OnlyMoves(c) /\ thr[c].at \in Serving /\ thr'[c].at \in Serving
  BY Typed, GoFacts DEF AdmitSelect, Serving, Places, ConnAt
<1>2. req' \in [Conns -> RequestType] /\ taken' \in Nat
  BY Typed, AnsweredType DEF AdmitSelect, DataTyped
<1> QED
  BY <1>1, <1>2, ServingStep, Zenon DEF AdmitSelect, queues

(* A select the check handler refuses changes no object.                   *)
LEMMA RefuseSelectStep == ASSUME IInv, NEW c \in Conns, CheckRefusesSelect(c) PROVE IInv'
<1>1. OnlyMoves(c) /\ thr[c].at \in Serving /\ thr'[c].at \in Serving
  BY Typed, GoFacts DEF CheckRefusesSelect, Serving, Places, ConnAt
<1>2. req' \in [Conns -> RequestType] /\ taken' \in Nat
  BY Typed, AnsweredType DEF CheckRefusesSelect, DataTyped
<1> QED
  BY <1>1, <1>2, ServingStep DEF CheckRefusesSelect, queues

(* A select makes an unselected object ready for an open association.      *)
LEMMA SelectStep == ASSUME IInv, NEW c \in Conns, Select(c) PROVE IInv'
<1>1. thr[c].at = "select" /\ c \in open /\ taken' \in Nat
  BY Typed, Zenon DEF Select, IInv, ThreadInv, AtEnd, DataTyped
<1>2. CASE obj.state # "unselected"
  <2>1. OnlyMoves(c) /\ thr'[c].at = "answer" /\ obj' = obj
    BY <1>2, Typed, GoFacts DEF Select, Places, ConnAt
  <2>2. req' \in [Conns -> RequestType]
    BY <1>2, Typed, AnsweredType DEF Select, DataTyped
  <2> QED
    BY <1>1, <2>1, <2>2, ServingStep DEF Select, queues, Serving
<1>3. CASE obj.state = "unselected"
  <2>1. WellFormed(obj) /\ obj.lost = FALSE /\ live \in Configs
        /\ req[c].par \in Params \cup {NoParams}
    BY <1>3, Typed DEF DataTyped, WellFormed, Consistent, ObjectType, RequestType
  <2>2. WellFormed(obj') /\ obj'.state = "ready" /\ obj'.owner = c
    <3>1. CASE req[c].op = "sbo"
      <4>1. obj' = EnterReady(obj, c, live)
        BY <1>3, <3>1 DEF Select, TrySelect
      <4> QED
        BY <2>1, <4>1, EnterReadyFacts, Zenon
    <3>2. CASE req[c].op # "sbo"
      <4>1. obj' = SbowSelect(obj, c, live, req[c].par)
        BY <1>3, <3>2 DEF Select
      <4> QED
        BY <2>1, <4>1, SbowFacts, Zenon
    <3> QED
      BY <3>1, <3>2, Zenon
  <2>3. obj'.period \in Nat
    BY <2>2 DEF WellFormed, ObjectType
  <2>4. OnlyMoves(c) /\ thr'[c].at = "notify" /\ thr'[c].next = "arm"
    BY <1>3, <2>3, Typed, ReportFacts DEF Select, Places, ConnAt
  <2>5. Positioned(c)
    BY <1>1, <2>4, Typed DEF Positioned, AtEnd, ConnAt
  <2>6. DataTyped'
    BY <1>3, <2>2, Typed, AnsweredType DEF Select, DataTyped, WellFormed
  <2>7. OneCommand'
    BY <1>1, <1>3, <2>2, <2>4, Typed, HolderStays, Zenon DEF Select, IsExecuting, HoldingAt
  <2>8. ReleasedHoldsNothing'
    BY <1>1, <2>2, <2>4, Typed, ReleasedStays DEF Select, Unreleased
  <2> QED
    BY <2>4, <2>5, <2>6, <2>7, <2>8, Typed, MoveStep DEF Select, queues
<1> QED
  BY <1>2, <1>3

(* Cancel ends at most the ready selection of its own connection.          *)
LEMMA CancelStep == ASSUME IInv, NEW c \in Conns, Cancel(c) PROVE IInv'
<1>1. /\ thr[c].at = "admit" /\ req' \in [Conns -> RequestType] /\ taken' \in Nat
      /\ obj.period \in Nat
  BY Typed, AnsweredType DEF Cancel, DataTyped, WellFormed, ObjectType
<1>2. CASE obj' = obj
  <2>1. OnlyMoves(c) /\ thr'[c].at = "answer"
    BY <1>2, Typed, GoFacts DEF Cancel, Places, ConnAt
  <2> QED
    BY <1>1, <1>2, <2>1, ServingStep DEF Cancel, queues, Serving
<1>3. CASE obj' # obj
  <2>1. OnlyMoves(c) /\ thr'[c].at = "notify" /\ thr'[c].next = "answer"
    BY <1>1, <1>3, Typed, ReportFacts DEF Cancel, Places, ConnAt
  <2>2. obj.state = "ready" /\ obj' = Clear(obj)
    BY <1>3 DEF Cancel, TryCancel
  <2>3. WellFormed(obj') /\ OneCommand' /\ ReleasedHoldsNothing'
    BY <1>1, <2>1, <2>2, Typed, EndsReady, Zenon DEF Cancel, HoldingAt, Unreleased
  <2>4. Positioned(c)
    BY <1>1, <2>1, Typed DEF Positioned, AtEnd, ConnAt
  <2>5. DataTyped'
    BY <1>1, <2>3, Typed DEF Cancel, DataTyped, WellFormed
  <2> QED
    BY <2>1, <2>3, <2>4, <2>5, Typed, MoveStep, Zenon DEF Cancel, queues
<1> QED
  BY <1>2, <1>3

(* An accepted Operate finds no other command; a refused one ends at most  *)
(* the selection of its own connection.                                    *)
LEMMA AdmitOperateStep == ASSUME IInv, NEW c \in Conns, AdmitOperate(c) PROVE IInv'
<1> DEFINE p == req[c].par
           verdict == IF p \in NotServed THEN "notSupported" ELSE BeginVerdict(obj, c, live, p)
<1>1. /\ thr[c].at = "admit" /\ c \in open /\ taken' \in Nat
      /\ WellFormed(obj) /\ live \in Configs /\ p \in Params \cup {NoParams}
      /\ obj.period \in Nat /\ thr \in [Threads -> ThreadType] /\ c \in Threads
      /\ req \in [Conns -> RequestType]
  BY Typed, Zenon DEF AdmitOperate, IInv, ThreadInv, AtEnd, DataTyped, WellFormed, ObjectType, RequestType
<1>2. CASE verdict = "accepted"
  <2>1. /\ BeginVerdict(obj, c, live, p) = "accepted" /\ obj' = BeginOperate(obj, c, live, p)
        /\ thr' = Go(c, "check") /\ req' = req
    BY <1>2 DEF AdmitOperate
  <2>2. /\ WellFormed(obj') /\ obj'.state = "waitForExecution" /\ obj'.owner = c
        /\ obj.state \in {"unselected", "ready"}
    <3> HIDE DEF p, verdict
    <3>1. Begins(obj, c, BeginOperate(obj, c, live, p))
      BY <1>1, <2>1, BeginFacts
    <3> QED
      BY <2>1, <3>1 DEF Begins
  <2>3. OnlyMoves(c) /\ thr'[c].at = "check"
    BY <1>1, <2>1, GoFacts DEF Places, ConnAt
  <2>4. Positioned(c)
    BY <1>1, <2>3, Typed, Zenon DEF Positioned, AtEnd, ConnAt
  <2>5. OneCommand'
    <3>1. ~IsExecuting(obj) /\ IsExecuting(obj') /\ thr'[c].at \in HoldingAt /\ task' = task
      BY <2>2, <2>3, Zenon DEF AdmitOperate, IsExecuting, HoldingAt
    <3> QED
      BY <2>2, <2>3, <3>1, HolderEnters, Zenon
  <2>6. ReleasedHoldsNothing'
    BY <1>1, <2>2, <2>3, ReleasedStays, Zenon DEF AdmitOperate, Unreleased
  <2>7. DataTyped'
    BY <1>1, <2>1, <2>2, Typed DEF AdmitOperate, DataTyped, WellFormed
  <2> QED
    BY <1>1, <2>3, <2>4, <2>5, <2>6, <2>7, Typed, MoveStep, Zenon DEF AdmitOperate, queues
<1>3. CASE verdict = "differsFromSbow"
  <2>1. /\ BeginVerdict(obj, c, live, p) = "differsFromSbow" /\ obj' = BeginOperate(obj, c, live, p)
        /\ thr' = Report(c, "ended", obj.period, "answer") /\ req' = Answered(c, "neg")
    BY <1>3, Zenon DEF AdmitOperate
  <2>2. obj' = Clear(obj) /\ obj.state = "ready"
    BY <1>1, <2>1, DiffersFacts
  <2>3. OnlyMoves(c) /\ thr'[c].at = "notify" /\ thr'[c].next = "answer"
    BY <1>1, <2>1, ReportFacts DEF Places, ConnAt
  <2>4. Positioned(c)
    BY <1>1, <2>3, Typed, Zenon DEF Positioned, AtEnd, ConnAt
  <2>5. WellFormed(obj') /\ OneCommand' /\ ReleasedHoldsNothing'
    BY <1>1, <2>2, <2>3, EndsReady, Zenon DEF AdmitOperate, HoldingAt, Unreleased
  <2>6. DataTyped'
    BY <1>1, <2>1, <2>5, Typed, AnsweredType, Zenon DEF AdmitOperate, DataTyped, WellFormed
  <2> QED
    BY <1>1, <2>3, <2>4, <2>5, <2>6, Typed, MoveStep, Zenon DEF AdmitOperate, queues
<1>4. CASE verdict \notin {"accepted", "differsFromSbow"}
  <2>1. thr' = Go(c, "answer") /\ req' = Answered(c, "neg") /\ obj' = obj
    BY <1>4 DEF AdmitOperate
  <2>2. OnlyMoves(c) /\ thr'[c].at = "answer"
    BY <1>1, <2>1, GoFacts DEF Places, ConnAt
  <2>3. req' \in [Conns -> RequestType]
    BY <1>1, <2>1, AnsweredType
  <2> QED
    BY <1>1, <2>1, <2>2, <2>3, ServingStep, Zenon DEF AdmitOperate, queues, Serving
<1> QED
  BY <1>2, <1>3, <1>4

(* The holder aborts its command.                                          *)
LEMMA AbortFacts ==
  ASSUME IInv, NEW t \in Conns \cup Cmds, thr[t].at \in {"check", "dynamic", "abandon"},
         NEW next \in {"answer", "post", "done"}, thr' = ReportEnd(t, next),
         obj' = Abort(obj), task' = task, open' = open
  PROVE  /\ OnlyMoves(t) /\ WellFormed(obj') /\ OneCommand' /\ ReleasedHoldsNothing'
         /\ thr'[t].at = next \/ (thr'[t].at = "notify" /\ thr'[t].next = next)
<1>1. /\ WellFormed(obj) /\ obj.period \in Nat /\ next \in Places /\ t \in Threads
      /\ thr \in [Threads -> ThreadType]
  BY Typed DEF DataTyped, WellFormed, ObjectType, Places, ConnAt, CmdAt, Threads
<1>2. /\ OnlyMoves(t)
      /\ thr'[t].at = next \/ (thr'[t].at = "notify" /\ thr'[t].next = next)
  BY <1>1, GoFacts, ReportFacts DEF ReportEnd
<1>3. WellFormed(obj') /\ obj'.state = "unselected" /\ obj'.owner = NoConn
  BY <1>1, ClearFacts DEF Abort
<1>4. OneCommand'
  BY <1>2, <1>3, HolderLeaves DEF IsExecuting, HoldingAt
<1>5. ReleasedHoldsNothing'
  BY <1>1, <1>2, <1>3, ReleasedStays DEF Unreleased
<1> QED
  BY <1>2, <1>3, <1>4, <1>5

(* An Operate the check handler refuses aborts its own command.            *)
LEMMA RefuseOperateStep == ASSUME IInv, NEW c \in Conns, CheckRefusesOperate(c) PROVE IInv'
<1>1. /\ OnlyMoves(c) /\ WellFormed(obj') /\ OneCommand' /\ ReleasedHoldsNothing'
      /\ thr'[c].at = "answer" \/ (thr'[c].at = "notify" /\ thr'[c].next = "answer")
  BY AbortFacts, Zenon DEF CheckRefusesOperate
<1>2. Positioned(c)
  BY <1>1, Typed, Zenon DEF CheckRefusesOperate, Positioned, AtEnd, ConnAt
<1>3. DataTyped'
  BY <1>1, Typed, AnsweredType DEF CheckRefusesOperate, DataTyped, WellFormed
<1> QED
  BY <1>1, <1>2, <1>3, Typed, MoveStep DEF CheckRefusesOperate, queues

(* A refusing dynamic check aborts its own command.                        *)
LEMMA RefuseDynamicStep == ASSUME IInv, NEW i \in Cmds, DynamicCheckRefuses(i) PROVE IInv'
<1>1. /\ OnlyMoves(i) /\ WellFormed(obj') /\ OneCommand' /\ ReleasedHoldsNothing'
      /\ thr'[i].at = "post" \/ (thr'[i].at = "notify" /\ thr'[i].next = "post")
  BY AbortFacts, Zenon DEF DynamicCheckRefuses
<1>2. Positioned(i)
  BY <1>1, Typed DEF DynamicCheckRefuses, Positioned, CmdAt
<1>3. DataTyped'
  BY <1>1, Typed DEF DynamicCheckRefuses, DataTyped, WellFormed
<1> QED
  BY <1>1, <1>2, <1>3, Typed, MoveStep DEF DynamicCheckRefuses, queues

(* A command whose response never left aborts itself.                      *)
LEMMA AbandonStep == ASSUME IInv, NEW i \in Cmds, Abandon(i) PROVE IInv'
<1>1. /\ OnlyMoves(i) /\ WellFormed(obj') /\ OneCommand' /\ ReleasedHoldsNothing'
      /\ thr'[i].at = "done" \/ (thr'[i].at = "notify" /\ thr'[i].next = "done")
  BY AbortFacts, Zenon DEF Abandon
<1>2. Positioned(i)
  BY <1>1, Typed, Zenon DEF Abandon, Positioned, CmdAt
<1>3. DataTyped'
  BY <1>1, Typed DEF Abandon, DataTyped, WellFormed
<1> QED
  BY <1>1, <1>2, <1>3, Typed, MoveStep DEF Abandon, queues

(* A command starts to execute.                                            *)
LEMMA RunStep == ASSUME IInv, NEW i \in Cmds, Run(i) PROVE IInv'
<1>1. OnlyMoves(i) /\ thr[i].at = "run" /\ thr'[i].at = "executing"
  BY Typed, GoFacts DEF Run, Places, CmdAt
<1>2. /\ WellFormed(obj') /\ (IsExecuting(obj') <=> IsExecuting(obj))
      /\ obj'.owner = obj.owner /\ obj'.lost = obj.lost
  BY Typed, SmallSections, Zenon DEF Run, DataTyped
<1>3. Positioned(i)
  BY <1>1, Typed, Zenon DEF Positioned, CmdAt
<1>4. OneCommand'
  BY <1>1, <1>2, Typed, HolderStays DEF Run, HoldingAt
<1>5. ReleasedHoldsNothing'
  BY <1>1, <1>2, Typed, ReleasedStays DEF Run
<1>6. DataTyped'
  BY <1>2, Typed DEF Run, DataTyped, WellFormed
<1> QED
  BY <1>1, <1>3, <1>4, <1>5, <1>6, Typed, MoveStep DEF Run, queues

(* A command that ends clears the object or returns it to the owner.       *)
LEMMA FinishStep ==
  ASSUME IInv, NEW i \in Cmds, NEW res \in {"ok", "failed", "timeLimitOver"}, Finish(i, res)
  PROVE  IInv'
<1>1. /\ thr[i].at = "executing" /\ thr \in [Threads -> ThreadType] /\ i \in Threads
      /\ WellFormed(obj) /\ obj.period \in Nat
  BY Typed DEF Finish, DataTyped, WellFormed, ObjectType
<1>2. IsExecuting(obj)
  BY <1>1 DEF IInv, OneCommand, Holders, HoldingAt
<1>3. /\ WellFormed(obj') /\ ~IsExecuting(obj')
      /\ \/ obj'.owner = NoConn
         \/ obj'.owner = obj.owner /\ obj.lost = FALSE
  BY <1>1, <1>2, FinishFacts, Zenon DEF Finish
<1>4. obj'.period \in Nat
  BY <1>3 DEF WellFormed, ObjectType
<1>5. /\ OnlyMoves(i)
      /\ \/ thr'[i].at \in {"arm", "terminate"}
         \/ thr'[i].at = "notify" /\ thr'[i].next = "terminate"
  <2>1. "arm" \in Places /\ "terminate" \in Places
    BY DEF Places, CmdAt
  <2>2. CASE StaysReady(obj)
    BY <1>1, <1>2, <1>4, <2>1, <2>2, GoInFacts, Zenon DEF Finish, GoIn
  <2>3. CASE ~StaysReady(obj)
    <3>1. \/ thr' = Go(i, "terminate")
          \/ thr' = Report(i, "ended", obj.period, "terminate")
      BY <1>2, <2>3 DEF Finish, ReportEnd
    <3>2. CASE thr' = Go(i, "terminate")
      BY <1>1, <2>1, <3>2, GoFacts
    <3>3. CASE thr' = Report(i, "ended", obj.period, "terminate")
      BY <1>1, <2>1, <3>3, ReportFacts
    <3> QED
      BY <3>1, <3>2, <3>3, Zenon
  <2> QED
    BY <2>2, <2>3, Zenon
<1>6. Positioned(i)
  BY <1>1, <1>5, Typed, Zenon DEF Positioned, CmdAt
<1>7. task' \in [Cmds -> TaskType] /\ \A j \in Cmds : task'[j].conn = task[j].conn
  <2>1. task \in [Cmds -> TaskType]
    BY DEF IInv, TypeOK
  <2>2. [task[i] EXCEPT !.res = res] \in TaskType /\ [task[i] EXCEPT !.res = res].conn = task[i].conn
    BY <2>1 DEF TaskType
  <2>3. task' = [task EXCEPT ![i] = [task[i] EXCEPT !.res = res]]
    BY <2>1 DEF Finish
  <2> HIDE DEF TaskType
  <2> QED
    BY <2>1, <2>2, <2>3
<1>8. OneCommand'
  <2>1. \A u \in Holders : u = i
    BY <1>1 DEF IInv, OneCommand, Holders, HoldingAt
  <2>2. Holders' = {}
    BY <1>5, <2>1 DEF Holders, OnlyMoves, Threads, HoldingAt
  <2> QED
    BY <1>3, <2>2, Zenon DEF OneCommand, IsExecuting
<1>9. ReleasedHoldsNothing'
  <2> SUFFICES ASSUME NEW c \in Conns, Released(c)', obj'.owner = c
               PROVE  FALSE
    BY DEF ReleasedHoldsNothing
  <2>1. obj.owner = c /\ obj.lost = FALSE
    BY <1>3, ConnAssumption
  <2>2. thr'[c] = thr[c] /\ open' = open
    BY <1>5, Typed DEF OnlyMoves, Finish
  <2> QED
    BY <2>1, <2>2 DEF IInv, ReleasedHoldsNothing, Released
<1>10. ThreadInv'
  <2>1. \A c \in Conns : thr'[c] = thr[c]
    BY <1>5, Typed DEF OnlyMoves
  <2>2. \A t \in TimerTasks \cup AppThreads : thr'[t] = thr[t]
    BY <1>5, Typed DEF OnlyMoves
  <2>3. \A j \in Cmds : thr'[j] = thr[j] \/ j = i
    BY <1>5, Typed DEF OnlyMoves
  <2> QED
    BY <1>1, <1>6, <1>7, <2>1, <2>2, <2>3 DEF IInv, ThreadInv, Positioned, Finish, AtEnd
<1>11. QueueInv'
  <2>1. QueueSettles'
    <3> SUFFICES ASSUME NEW c \in Conns, NEW n \in 1 .. Len(deferredQ[c])
                 PROVE  Settles(deferredQ[c][n], c)'
      BY DEF QueueSettles, Finish, queues
    <3>1. deferredQ[c] \in Seq(Outcome) /\ deferredQ' = deferredQ
      BY DEF IInv, QueueInv, QueueType, Finish, queues
    <3>2. PICK done \in Outcome : done = deferredQ[c][n]
      BY <3>1
    <3>3. Settles(done, c) /\ done.cmd \in Cmds
      BY <3>2 DEF IInv, QueueInv, QueueSettles, Outcome
    <3>4. done.cmd # i
      BY <1>1, <3>3 DEF Settles
    <3>5. thr'[done.cmd] = thr[done.cmd]
      BY <1>5, <3>3, <3>4, Typed DEF OnlyMoves
    <3> QED
      BY <1>7, <3>1, <3>2, <3>3, <3>5 DEF Settles
  <2> QED
    BY <2>1 DEF IInv, QueueInv, QueueType, QueueOnce, Finish, queues
<1>12. TypeOK'
  BY <1>3, <1>5, <1>7 DEF TypeOK, IInv, Finish, OnlyMoves, WellFormed
<1> QED
  BY <1>8, <1>9, <1>10, <1>11, <1>12 DEF IInv

(* A command posts its termination.                                        *)
LEMMA TerminateStep == ASSUME IInv, NEW i \in Cmds, Terminate(i) PROVE IInv'
<1>1. OnlyMoves(i) /\ thr[i].at = "terminate" /\ thr'[i].at = "done"
  BY Typed, GoFacts, Zenon DEF Terminate, Places, CmdAt
<1>2. Positioned(i)
  BY <1>1, Typed DEF Positioned, CmdAt
<1>3. OneCommand'
  BY <1>1, Typed, HolderStays DEF Terminate, HoldingAt
<1>4. ReleasedHoldsNothing'
  BY <1>1, Typed, ReleasedStays DEF Terminate
<1>5. DataTyped'
  BY Typed DEF Terminate, DataTyped, WellFormed
<1> QED
  BY <1>1, <1>2, <1>3, <1>4, <1>5, Typed, MoveStep DEF Terminate
=============================================================================
