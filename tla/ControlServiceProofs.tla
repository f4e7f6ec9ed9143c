----------------------- MODULE ControlServiceProofs ------------------------
(***************************************************************************)
(* Type correctness, OneCommand and ReleasedHoldsNothing for every set of  *)
(* connections, commands, settings and parameters.                         *)
(***************************************************************************)
EXTENDS ControlServiceLemmas

(* The receivers of an open association go: its queue empties, the command *)
(* that waits for its response is abandoned and goes on holding the object. *)
LEMMA UnwindStep ==
  ASSUME IInv, NEW c \in Conns, c \in open, NEW at \in Unreleased, Unwind(c, at),
         thr[c].at \in IF at = "down" THEN {"idle", "answer", "select"} ELSE {"check"},
         task' = task, obj' = obj, DataTyped'
  PROVE  IInv'
<1>1. /\ thr \in [Threads -> ThreadType] /\ open \subseteq Conns /\ QueueInv
      /\ task \in [Cmds -> TaskType]
  BY Typed DEF IInv, TypeOK
<1>2. Thread(at) \in ThreadType /\ Thread("abandon") \in ThreadType
  BY DEF Thread, ThreadType, Places, ConnAt, CmdAt, Unreleased
<1>3. \A i \in CommandsOf(c, "await") : i \in Cmds /\ i # c /\ thr[i].at = "await"
  BY Typed DEF CommandsOf
<1>4. \A t \in Threads :
        \/ t = c /\ thr'[t] = Thread(at)
        \/ /\ t # c /\ t \in Cmds /\ task[t].conn = c /\ thr[t].at = "await"
           /\ thr'[t] = Thread("abandon")
        \/ /\ t # c /\ thr'[t] = thr[t]
           /\ ~(t \in Cmds /\ task[t].conn = c /\ thr[t].at = "await")
  BY <1>3 DEF Unwind, CommandsOf
<1>5. thr' \in [Threads -> ThreadType]
  <2>1. \A t \in Threads : thr'[t] \in ThreadType
    BY <1>1, <1>2, <1>4
  <2>2. thr' = [t \in Threads |-> thr'[t]]
    BY DEF Unwind
  <2> QED
    BY <2>1, <2>2
<1>6. Thread(at).at = at /\ Thread("abandon").at = "abandon"
  BY DEF Thread
<1>7. \A d \in Conns : d # c => thr'[d] = thr[d]
  BY <1>4, Typed
<1>8. thr'[c].at = at /\ ~AtEnd(thr[c])
  BY <1>4, <1>6, Typed, Zenon DEF IInv, ThreadInv
<1>9. TypeOK'
  BY <1>1, <1>5 DEF TypeOK, DataTyped, WellFormed, Unwind
<1>10. OneCommand'
  <2>1. Holders' = Holders
    BY <1>4, <1>6, <1>8, Typed DEF Holders, HoldingAt, Unreleased
  <2>2. \A t \in Holders : HolderConn(t)' = HolderConn(t)
    BY DEF HolderConn
  <2> QED
    BY <2>1, <2>2, Zenon DEF IInv, OneCommand, IsExecuting
<1>11. ReleasedHoldsNothing'
  <2> SUFFICES ASSUME NEW d \in Conns, Released(d)', obj.owner = d
               PROVE  IsExecuting(obj) /\ obj.lost
    BY Zenon DEF ReleasedHoldsNothing, IsExecuting
  <2>1. d # c
    BY <1>8 DEF Released, Unreleased
  <2>2. Released(d)
    BY <1>7, <2>1 DEF Released, Unwind
  <2> QED
    BY <2>2 DEF IInv, ReleasedHoldsNothing
<1>12. ThreadInv'
  <2>1. \A d \in Conns :
          /\ thr'[d].at \in ConnAt
          /\ thr'[d].at = "notify" => thr'[d].next \in {"admit", "arm", "answer", "closed"}
          /\ d \in open' <=> ~AtEnd(thr'[d])
    <3> TAKE d \in Conns
    <3>1. CASE d = c
      BY <1>8, <3>1 DEF Unwind, ConnAt, AtEnd, Unreleased
    <3>2. CASE d # c
      BY <1>7, <3>2 DEF Unwind, IInv, ThreadInv
    <3> QED
      BY <3>1, <3>2, Zenon
  <2>2. \A i \in Cmds :
          /\ thr'[i].at \in CmdAt
          /\ thr'[i].at = "notify" => thr'[i].next \in {"post", "done", "terminate"}
          /\ thr'[i].at # "free" => task[i].conn \in Conns
    <3> TAKE i \in Cmds
    <3>1. CASE thr'[i] = Thread("abandon") /\ task[i].conn = c
      BY <1>6, <3>1 DEF CmdAt
    <3>2. CASE thr'[i] = thr[i]
      BY <3>2 DEF IInv, ThreadInv
    <3> QED
      BY <1>4, <3>1, <3>2, Typed
  <2>3. \A t \in TimerTasks \cup AppThreads : thr'[t] = thr[t]
    BY <1>4, Typed
  <2> QED
    BY <2>1, <2>2, <2>3 DEF IInv, ThreadInv, AtEnd
<1>13. \A d \in Conns : deferredQ'[d] = IF d = c THEN <<>> ELSE deferredQ[d]
  BY <1>1 DEF Unwind, QueueInv, QueueType
<1>14. QueueType'
  BY <1>1 DEF Unwind, QueueInv, QueueType
<1>15. QueueSettles'
  <2> SUFFICES ASSUME NEW d \in Conns, NEW n \in 1 .. Len(deferredQ'[d])
               PROVE  Settles(deferredQ[d][n], d)'
    BY DEF QueueSettles
  <2>1. d # c /\ deferredQ'[d] = deferredQ[d]
    BY <1>13
  <2>2. deferredQ[d] \in Seq(Outcome)
    BY <1>1 DEF QueueInv, QueueType
  <2>3. PICK done \in Outcome : done = deferredQ[d][n]
    BY <2>1, <2>2
  <2>4. Settles(done, d) /\ done.cmd \in Cmds
    BY <1>1, <2>1, <2>3 DEF QueueInv, QueueSettles, Outcome
  <2>5. thr'[done.cmd] = thr[done.cmd]
    BY <1>4, <2>1, <2>4, Typed DEF Settles
  <2> QED
    BY <2>1, <2>3, <2>4, <2>5, Zenon DEF Settles
<1>16. QueueOnce'
  BY <1>1, <1>13 DEF QueueInv, QueueOnce
<1> QED
  BY <1>9, <1>10, <1>11, <1>12, <1>14, <1>15, <1>16 DEF IInv, QueueInv

(* Without a command in its static check, the association just goes down.  *)
LEMMA DownStep ==
  ASSUME IInv, NEW c \in Conns, c \in open, thr[c].at \in {"idle", "answer", "select"}, Down(c),
         task' = task, obj' = obj, DataTyped'
  PROVE  IInv'
BY UnwindStep DEF Down, Unreleased

(* A request is answered, its response is held back, or sending fails.     *)
LEMMA AnswerStep == ASSUME IInv, NEW c \in Conns, Answer(c) PROVE IInv'
<1>1. /\ req' \in [Conns -> RequestType] /\ taken' \in Nat /\ thr[c].at = "answer" /\ c \in open
      /\ DataTyped'
  <2>1. NoReq \in RequestType
    BY DEF NoReq, RequestType
  <2>2. req' \in [Conns -> RequestType] /\ taken' \in Nat
    BY <2>1, Typed DEF Answer, DataTyped
  <2> QED
    BY <2>2, Typed, Zenon DEF Answer, DataTyped, WellFormed, IInv, ThreadInv, AtEnd
<1>2. CASE thr' = Go(c, "idle") /\ open' = open /\ deferredQ' = deferredQ
  <2>1. OnlyMoves(c) /\ thr'[c].at = "idle"
    BY <1>2, Typed, GoFacts, Zenon DEF Places, ConnAt
  <2> QED
    BY <1>1, <1>2, <2>1, ServingStep, Zenon DEF Answer, Serving
<1>3. CASE Down(c)
  BY <1>1, <1>3, DownStep, Zenon DEF Answer
<1> QED
  BY <1>2, <1>3 DEF Answer, queues

(* The peer or the server ends an association.                             *)
LEMMA CloseStep == ASSUME IInv, NEW c \in Conns, Close(c) PROVE IInv'
<1>1. NoReq \in RequestType
  BY DEF NoReq, RequestType
<1>2. DataTyped'
  BY <1>1, Typed DEF Close, DataTyped, WellFormed
<1> QED
  BY <1>2, DownStep DEF Close

(* A panic of the static check ends the association; its Operate, if it    *)
(* is one, goes on holding the object.                                     *)
LEMMA CheckPanicsStep == ASSUME IInv, NEW c \in Conns, CheckPanics(c) PROVE IInv'
<1>1. NoReq \in RequestType
  BY DEF NoReq, RequestType
<1>2. DataTyped'
  BY <1>1, Typed DEF CheckPanics, DataTyped, WellFormed
<1>3. c \in open /\ task' = task /\ obj' = obj
  BY DEF CheckPanics, IInv, ThreadInv, AtEnd
<1>4. CASE thr[c].at = "select" /\ Down(c)
  BY <1>2, <1>3, <1>4, DownStep
<1>5. CASE thr[c].at = "check" /\ Unwind(c, "panicked")
  BY <1>2, <1>3, <1>5, UnwindStep DEF Unreleased
<1> QED
  BY <1>4, <1>5 DEF CheckPanics

(* The loop sends a command termination, or fails to.                      *)
LEMMA ServeTerminationStep == ASSUME IInv, NEW c \in Conns, ServeTermination(c) PROVE IInv'
<1>1. DataTyped'
  BY Typed, Zenon DEF ServeTermination, DataTyped, WellFormed
<1>2. CASE Down(c)
  BY <1>1, <1>2, DownStep DEF ServeTermination
<1>3. CASE UNCHANGED <<thr, open, deferredQ>>
  <2>1. TypeOK' /\ OneCommand' /\ ReleasedHoldsNothing'
    BY <1>3, Zenon DEF ServeTermination, IInv, TypeOK, OneCommand, Holders, HolderConn,
                ReleasedHoldsNothing, Released
  <2>2. /\ thr' = thr /\ open' = open /\ task' = task /\ deferredQ' = deferredQ
        /\ ThreadInv /\ QueueInv
    BY <1>3, Zenon DEF ServeTermination, IInv
  <2>3. ThreadInv'
    BY <2>2, Zenon DEF ThreadInv, AtEnd
  <2>4. QueueInv'
    BY <2>2 DEF QueueInv, QueueType, QueueSettles, QueueOnce, Settles
  <2> QED
    BY <2>1, <2>3, <2>4 DEF IInv
<1> QED
  BY <1>2, <1>3, Zenon DEF ServeTermination, SendFails

(* The release of an association clears its ready object, or remembers     *)
(* that the owner of the executing command is gone.                        *)
LEMMA ReleaseStep == ASSUME IInv, NEW c \in Conns, Release(c) PROVE IInv'
<1>1. /\ thr \in [Threads -> ThreadType] /\ c \in Threads /\ WellFormed(obj) /\ obj.period \in Nat
      /\ thr[c].at \in Unreleased /\ {"closed", "stranded"} \subseteq Places
  BY Typed DEF Release, DataTyped, WellFormed, ObjectType, Places, ConnAt
<1>2. /\ OnlyMoves(c)
      /\ \/ thr'[c].at = IF thr[c].at = "down" THEN "closed" ELSE "stranded"
         \/ thr'[c].at = "notify" /\ thr'[c].next = "closed" /\ ~IsExecuting(obj)
  BY <1>1, GoFacts, ReportFacts DEF Release, IsExecuting
<1>3. Positioned(c)
  BY <1>1, <1>2, Typed DEF Positioned, AtEnd, ConnAt, Unreleased
<1>4. /\ WellFormed(obj') /\ (IsExecuting(obj') <=> IsExecuting(obj))
      /\ IsExecuting(obj) => obj'.owner = obj.owner
      /\ obj'.owner \in {NoConn, obj.owner}
      /\ obj'.owner = c => IsExecuting(obj') /\ obj'.lost = TRUE
      /\ obj'.owner \notin {c, NoConn} => obj' = obj
  <2>1. CASE obj.owner = c /\ obj.state = "ready"
    <3>1. obj' = Clear(obj)
      BY <2>1 DEF Release, OnConnectionClosed, IsExecuting
    <3> QED
      BY <1>1, <2>1, <3>1, ClearFacts, ConnAssumption DEF IsExecuting
  <2>2. CASE obj.owner = c /\ IsExecuting(obj)
    <3>1. obj' = [obj EXCEPT !.lost = TRUE]
      BY <2>2 DEF Release, OnConnectionClosed, IsExecuting
    <3>2. /\ obj' \in ObjectType /\ obj'.state = obj.state /\ obj'.owner = obj.owner
          /\ obj'.active = obj.active /\ obj'.timer = obj.timer /\ obj'.period = obj.period
          /\ obj'.lost = TRUE
      BY <1>1, <3>1, Zenon DEF WellFormed, ObjectType
    <3> QED
      BY <1>1, <2>2, <3>2, ConnAssumption DEF WellFormed, Consistent, IsExecuting
  <2>3. CASE obj.owner # c
    BY <1>1, <2>3 DEF Release, OnConnectionClosed
  <2>4. CASE obj.owner = c /\ obj.state = "unselected"
    BY <1>1, <2>4, ConnAssumption DEF WellFormed, Consistent
  <2> QED
    BY <1>1, <2>1, <2>2, <2>3, <2>4, Zenon DEF WellFormed, ObjectType, States, IsExecuting
<1>5. OneCommand'
  <2>1. ~IsExecuting(obj) => thr[c].at = "down"
    BY <1>1 DEF IInv, OneCommand, Holders, HoldingAt, Unreleased
  <2>2. thr'[c].at \in HoldingAt <=> thr[c].at \in HoldingAt
    BY <1>1, <1>2, <2>1 DEF HoldingAt, Unreleased
  <2> QED
    BY <1>1, <1>2, <1>4, <2>2, HolderStays DEF Release
<1>6. ReleasedHoldsNothing'
  <2> SUFFICES ASSUME NEW d \in Conns, Released(d)', obj'.owner = d
               PROVE  IsExecuting(obj') /\ obj'.lost
    BY DEF ReleasedHoldsNothing, IsExecuting
  <2>1. CASE d = c
    BY <1>4, <2>1
  <2>2. CASE d # c
    <3>1. obj' = obj /\ thr'[d] = thr[d] /\ open' = open
      BY <1>2, <1>4, <2>2, Typed, ConnAssumption, Zenon DEF OnlyMoves, Release
    <3> QED
      BY <3>1 DEF IInv, ReleasedHoldsNothing, Released
  <2> QED
    BY <2>1, <2>2
<1>7. DataTyped'
  BY <1>4, Typed, Zenon DEF Release, DataTyped, WellFormed
<1> QED
  BY <1>1, <1>2, <1>3, <1>5, <1>6, <1>7, Typed, MoveStep, Zenon DEF Release, queues

(* An outcome is posted to an association that still listens.              *)
LEMMA PostFacts ==
  ASSUME IInv, NEW i \in Cmds, NEW ok \in BOOLEAN, OnlyMoves(i), task' = task,
         thr[i].at \in {"dynamic", "post"}, PostDeferred(i, ok),
         task[i].conn \in open => thr'[i].at = IF ok THEN "await" ELSE "done"
  PROVE  QueueInv'
<1>1. /\ QueueInv /\ task[i].conn \in Conns /\ i \in Threads
      /\ \A j \in Cmds : j # i => thr'[j] = thr[j]
  BY Typed DEF IInv, ThreadInv, OnlyMoves
<1>2. CASE task[i].conn \notin open
  BY <1>1, <1>2, QueueStep, Zenon DEF PostDeferred
<1>3. CASE task[i].conn \in open
  <2> DEFINE c == task[i].conn
             done == [cmd |-> i, ok |-> ok]
             old == deferredQ[c]
             new == Append(old, done)
  <2>1. done \in Outcome /\ done.cmd = i /\ done.ok = ok /\ old \in Seq(Outcome)
    BY <1>1, Zenon DEF Outcome, QueueInv, QueueType
  <2>2. deferredQ' = [deferredQ EXCEPT ![c] = new]
    BY <1>1, <1>3, Zenon DEF PostDeferred, QueueInv, QueueType
  <2>3. task'[done.cmd].conn = c /\ thr'[done.cmd].at = IF done.ok THEN "await" ELSE "done"
    BY <1>3, <2>1
  <2> HIDE DEF done
  <2>4. /\ new \in Seq(Outcome) /\ Len(new) = Len(old) + 1 /\ new[Len(old) + 1] = done
        /\ \A n \in 1 .. Len(old) : new[n] = old[n]
    BY <2>1
  <2> HIDE DEF c, old, new
  <2>5. /\ c \in Conns /\ old = deferredQ[c] /\ deferredQ'[c] = new
        /\ \A d \in Conns : d # c => deferredQ'[d] = deferredQ[d]
        /\ QueueType'
    BY <1>1, <2>2, <2>4 DEF QueueInv, QueueType, c, old
  <2>6. \A d \in Conns : \A n \in 1 .. Len(deferredQ[d]) :
          Settles(deferredQ[d][n], d) /\ deferredQ[d][n].cmd \in Cmds \ {i}
    <3> TAKE d \in Conns
    <3> TAKE n \in 1 .. Len(deferredQ[d])
    <3>1. deferredQ[d] \in Seq(Outcome)
      BY <1>1 DEF QueueInv, QueueType
    <3>2. PICK e \in Outcome : e = deferredQ[d][n]
      BY <3>1
    <3>3. Settles(e, d) /\ e.cmd \in Cmds
      BY <1>1, <3>2 DEF QueueInv, QueueSettles, Outcome
    <3>4. e.cmd # i
      BY <3>3 DEF Settles
    <3> QED
      BY <3>2, <3>3, <3>4
  <2>7. QueueSettles'
    <3> SUFFICES ASSUME NEW d \in Conns, NEW n \in 1 .. Len(deferredQ'[d])
                 PROVE  Settles(deferredQ[d][n], d)'
      BY DEF QueueSettles
    <3>1. CASE d = c /\ n = Len(old) + 1
      <4>1. deferredQ'[d][n] = done
        BY <2>4, <2>5, <3>1
      <4> QED
        BY <2>3, <3>1, <4>1 DEF Settles
    <3>2. CASE n \in 1 .. Len(deferredQ[d]) /\ deferredQ'[d][n] = deferredQ[d][n]
      BY <1>1, <2>6, <3>2 DEF Settles
    <3>3. old \in Seq(Outcome)
      BY <2>1
    <3> QED
      BY <2>4, <2>5, <3>1, <3>2, <3>3
  <2>8. QueueOnce'
    <3> SUFFICES ASSUME NEW d \in Conns, NEW m \in 1 .. Len(deferredQ'[d]),
                        NEW n \in 1 .. Len(deferredQ'[d]), m # n
                 PROVE  deferredQ'[d][m].cmd # deferredQ'[d][n].cmd
      BY DEF QueueOnce
    <3>1. CASE d # c
      BY <1>1, <2>5, <3>1 DEF QueueInv, QueueOnce
    <3>2. CASE d = c
      <4>1. Len(old) \in Nat /\ m \in 1 .. Len(old) + 1 /\ n \in 1 .. Len(old) + 1
        BY <2>1, <2>4, <2>5, <3>2
      <4>2. CASE m \in 1 .. Len(old) /\ n \in 1 .. Len(old)
        <5>1. old[m].cmd # old[n].cmd
          BY <1>1, <2>5, <4>2 DEF QueueInv, QueueOnce
        <5>2. new[m] = old[m] /\ new[n] = old[n]
          BY <2>4, <4>2, Zenon
        <5> QED
          BY <2>5, <3>2, <5>1, <5>2, Zenon
      <4>3. CASE m = Len(old) + 1 /\ n \in 1 .. Len(old)
        BY <2>1, <2>4, <2>5, <2>6, <3>2, <4>3
      <4>4. CASE n = Len(old) + 1 /\ m \in 1 .. Len(old)
        BY <2>1, <2>4, <2>5, <2>6, <3>2, <4>4
      <4> QED
        BY <4>1, <4>2, <4>3, <4>4
    <3> QED
      BY <3>1, <3>2
  <2> QED
    BY <2>5, <2>7, <2>8 DEF QueueInv
<1> QED
  BY <1>2, <1>3, Zenon

(* The dynamic check passes: the command waits for its response.           *)
LEMMA PassDynamicStep == ASSUME IInv, NEW i \in Cmds, DynamicCheckPasses(i) PROVE IInv'
<1>1. /\ OnlyMoves(i) /\ thr[i].at = "dynamic"
      /\ thr'[i].at = IF task[i].conn \in open THEN "await" ELSE "abandon"
  BY Typed, GoFacts DEF DynamicCheckPasses, Places, CmdAt
<1>2. Positioned(i)
  BY <1>1, Typed DEF Positioned, CmdAt
<1>3. QueueInv'
  BY <1>1, PostFacts, Zenon DEF DynamicCheckPasses
<1>4. ThreadInv'
  BY <1>1, <1>2, Typed, ThreadStep, Zenon DEF DynamicCheckPasses
<1>5. OneCommand'
  BY <1>1, Typed, HolderStays, Zenon DEF DynamicCheckPasses, HoldingAt
<1>6. ReleasedHoldsNothing'
  BY <1>1, Typed, ReleasedStays, Zenon DEF DynamicCheckPasses
<1>7. TypeOK'
  BY <1>1 DEF DynamicCheckPasses, IInv, TypeOK, OnlyMoves
<1> QED
  BY <1>3, <1>4, <1>5, <1>6, <1>7 DEF IInv

(* The refusal of a dynamic check is posted once the object is free.       *)
LEMMA PostRefusalStep == ASSUME IInv, NEW i \in Cmds, PostRefusal(i) PROVE IInv'
<1>1. OnlyMoves(i) /\ thr[i].at = "post" /\ thr'[i].at = "done"
  BY Typed, GoFacts, Zenon DEF PostRefusal, Places, CmdAt
<1>2. Positioned(i)
  BY <1>1, Typed, Zenon DEF Positioned, CmdAt
<1>3. QueueInv'
  BY <1>1, PostFacts, Zenon DEF PostRefusal
<1>4. ThreadInv'
  BY <1>1, <1>2, Typed, ThreadStep DEF PostRefusal
<1>5. OneCommand'
  BY <1>1, Typed, HolderStays DEF PostRefusal, HoldingAt
<1>6. ReleasedHoldsNothing'
  BY <1>1, Typed, ReleasedStays DEF PostRefusal
<1>7. TypeOK'
  BY <1>1 DEF PostRefusal, IInv, TypeOK, OnlyMoves
<1> QED
  BY <1>3, <1>4, <1>5, <1>6, <1>7 DEF IInv

(* The loop serves a deferred outcome: no other entry of its queue is for  *)
(* the same command.                                                       *)
LEMMA ServeDeferredStep == ASSUME IInv, NEW c \in Conns, ServeDeferred(c) PROVE IInv'
<1> DEFINE q == deferredQ[c]
           done == Head(q)
<1>1. /\ thr[c].at = "idle" /\ c \in open /\ q # <<>> /\ q \in Seq(Outcome)
      /\ QueueInv
  BY Zenon DEF ServeDeferred, IInv, QueueInv, QueueType
<1>2. /\ Len(q) \in Nat /\ Len(q) > 0 /\ done = q[1] /\ done \in Outcome
      /\ Tail(q) \in Seq(Outcome) /\ Len(Tail(q)) = Len(q) - 1
      /\ \A n \in 1 .. Len(q) - 1 : Tail(q)[n] = q[n + 1]
  BY <1>1
<1>3. Settles(done, c) /\ done.cmd \in Cmds
  BY <1>1, <1>2 DEF QueueInv, QueueSettles, Outcome
<1>4. DataTyped'
  BY Typed, Zenon DEF ServeDeferred, DataTyped, WellFormed
<1>5. CASE Down(c)
  BY <1>1, <1>4, <1>5, DownStep, Zenon DEF ServeDeferred
<1>6. CASE /\ thr' = IF done.ok THEN Go(done.cmd, "run") ELSE thr
           /\ deferredQ' = [deferredQ EXCEPT ![c] = Tail(@)]
           /\ open' = open
  <2> DEFINE i == done.cmd
  <2>1. i \in Cmds /\ i \in Threads /\ thr \in [Threads -> ThreadType] /\ task' = task /\ obj' = obj
    BY <1>3, Typed, Zenon DEF ServeDeferred
  <2>2. /\ OnlyMoves(i)
        /\ thr'[i] = thr[i] \/ (thr[i].at = "await" /\ thr'[i].at = "run")
    <3>1. CASE done.ok
      BY <1>3, <1>6, <2>1, <3>1, GoFacts, Zenon DEF Settles, Places, CmdAt
    <3>2. CASE ~done.ok
      BY <1>6, <2>1, <3>2 DEF OnlyMoves
    <3> QED
      BY <3>1, <3>2, Zenon
  <2> HIDE DEF i
  <2>3. Positioned(i)
    <3>1. /\ i \notin Conns /\ i \notin TimerTasks \cup AppThreads
          /\ thr[i].at \in {"await", "done"}
      BY <1>3, <2>1, Typed, Zenon DEF Settles, i
    <3> QED
      BY <2>2, <3>1, Zenon DEF Positioned, CmdAt
  <2>4. ThreadInv'
    BY <1>6, <2>1, <2>2, <2>3, ThreadStep
  <2>5. OneCommand'
    BY <2>1, <2>2, HolderStays, Zenon DEF HoldingAt
  <2>6. ReleasedHoldsNothing'
    BY <1>6, <2>1, <2>2, Typed, ReleasedStays
  <2>7. TypeOK'
    BY <1>4, <1>6, <2>1, <2>2 DEF TypeOK, IInv, DataTyped, WellFormed, OnlyMoves
  <2>8. /\ deferredQ'[c] = Tail(q) /\ QueueType'
        /\ \A d \in Conns : d # c => deferredQ'[d] = deferredQ[d]
    BY <1>1, <1>2, <1>6 DEF QueueInv, QueueType
  <2>9. \A d \in Conns : \A n \in 1 .. Len(deferredQ[d]) :
          d # c \/ n # 1 => Settles(deferredQ[d][n], d) /\ deferredQ[d][n].cmd \in Cmds \ {i}
    <3> SUFFICES ASSUME NEW d \in Conns, NEW n \in 1 .. Len(deferredQ[d]), d # c \/ n # 1
                 PROVE  Settles(deferredQ[d][n], d) /\ deferredQ[d][n].cmd \in Cmds \ {i}
      OBVIOUS
    <3>1. deferredQ[d] \in Seq(Outcome)
      BY <1>1 DEF QueueInv, QueueType
    <3>2. PICK e \in Outcome : e = deferredQ[d][n]
      BY <3>1
    <3>3. Settles(e, d) /\ e.cmd \in Cmds
      BY <1>1, <3>2 DEF QueueInv, QueueSettles, Outcome
    <3>4. CASE d # c
      BY <1>3, <3>2, <3>3, <3>4 DEF Settles, i
    <3>5. CASE d = c /\ n # 1
      BY <1>1, <1>2, <3>2, <3>3, <3>5 DEF QueueInv, QueueOnce, i
    <3> QED
      BY <3>4, <3>5
  <2>10. \A j \in Cmds : j # i => thr'[j] = thr[j]
    BY <2>2, Typed DEF OnlyMoves
  <2> HIDE DEF q, done
  <2>11. \A d \in Conns : \A n \in 1 .. Len(deferredQ'[d]) :
           \/ d # c /\ n \in 1 .. Len(deferredQ[d]) /\ deferredQ'[d][n] = deferredQ[d][n]
           \/ d = c /\ n + 1 \in 2 .. Len(deferredQ[d]) /\ deferredQ'[d][n] = deferredQ[d][n + 1]
    <3> SUFFICES ASSUME NEW n \in 1 .. Len(Tail(q))
                 PROVE  n + 1 \in 2 .. Len(q) /\ Tail(q)[n] = q[n + 1]
      BY <2>8, Zenon DEF q
    <3> QED
      BY <1>2
  <2>12. QueueSettles'
    <3> SUFFICES ASSUME NEW d \in Conns, NEW n \in 1 .. Len(deferredQ'[d])
                 PROVE  Settles(deferredQ[d][n], d)'
      BY DEF QueueSettles
    <3>1. PICK m \in 1 .. Len(deferredQ[d]) :
            deferredQ'[d][n] = deferredQ[d][m] /\ (d # c \/ m # 1)
      BY <2>11
    <3>2. Settles(deferredQ[d][m], d) /\ deferredQ[d][m].cmd \in Cmds \ {i}
      BY <2>9, <3>1
    <3> QED
      BY <2>1, <2>10, <3>1, <3>2 DEF Settles
  <2>13. QueueOnce'
    <3> SUFFICES ASSUME NEW d \in Conns, NEW m \in 1 .. Len(deferredQ'[d]),
                        NEW n \in 1 .. Len(deferredQ'[d]), m # n
                 PROVE  deferredQ'[d][m].cmd # deferredQ'[d][n].cmd
      BY DEF QueueOnce
    <3>1. CASE d # c
      BY <1>1, <2>8, <3>1 DEF QueueInv, QueueOnce
    <3>2. CASE d = c
      <4>1. /\ m + 1 \in 1 .. Len(deferredQ[d]) /\ n + 1 \in 1 .. Len(deferredQ[d])
            /\ deferredQ'[d][m] = deferredQ[d][m + 1] /\ deferredQ'[d][n] = deferredQ[d][n + 1]
            /\ m + 1 # n + 1
        BY <2>11, <3>2
      <4> QED
        BY <1>1, <4>1 DEF QueueInv, QueueOnce
    <3> QED
      BY <3>1, <3>2
  <2> QED
    BY <2>4, <2>5, <2>6, <2>7, <2>8, <2>12, <2>13 DEF IInv, QueueInv
<1> QED
  BY <1>5, <1>6, Zenon DEF ServeDeferred, SendFails

(* The command takes over from the request that had it accepted; no        *)
(* outcome was posted for a command that was free.                         *)
LEMMA AcceptStep ==
  ASSUME IInv, NEW c \in Conns, NEW i \in Cmds, NEW dyn \in BOOLEAN, NEW multi \in BOOLEAN,
         Accept(c, i, dyn, multi)
  PROVE  IInv'
<1> DEFINE rec == [conn |-> c, set |-> SettingsLocked(obj, live), dyn |-> dyn, multi |-> multi,
                   res |-> "none"]
           first == Thread(IF dyn THEN "dynamic" ELSE "run")
<1>1. /\ thr \in [Threads -> ThreadType] /\ task \in [Cmds -> TaskType] /\ c \in Threads
      /\ i \in Threads /\ i # c /\ WellFormed(obj) /\ live \in Configs
      /\ req \in [Conns -> RequestType]
      /\ thr[c].at = "check" /\ thr[i].at = "free"
  BY Typed DEF Accept, IInv, TypeOK, DataTyped
<1>2. rec \in TaskType /\ rec.conn = c
  BY <1>1 DEF TaskType, SettingsLocked, WellFormed, ObjectType
<1>3. /\ first \in ThreadType /\ first.at \in {"dynamic", "run"}
      /\ Thread("answer") \in ThreadType /\ Thread("answer").at = "answer"
  BY DEF Thread, ThreadType, Places, ConnAt, CmdAt
<1>4. /\ task' = [task EXCEPT ![i] = rec]
      /\ thr' = [thr EXCEPT ![i] = first, ![c] = Thread("answer")]
  BY DEF Accept
<1> HIDE DEF rec, first
<1>5. /\ task' \in [Cmds -> TaskType] /\ task'[i].conn = c
      /\ \A j \in Cmds : j # i => task'[j] = task[j]
  BY <1>1, <1>2, <1>4
<1>6. /\ thr' \in [Threads -> ThreadType] /\ thr'[i].at \in {"dynamic", "run"}
      /\ thr'[c].at = "answer"
      /\ \A t \in Threads : t \notin {c, i} => thr'[t] = thr[t]
  BY <1>1, <1>3, <1>4
<1>7. req' \in [Conns -> RequestType]
  <2> DEFINE r == [req[c] EXCEPT !.ans = IF dyn /\ ~multi THEN "hold" ELSE "pos", !.cmd = i]
  <2>1. req' = [req EXCEPT ![c] = r]
    BY <1>1, Zenon DEF Accept
  <2>2. r \in RequestType
    BY <1>1, Zenon DEF RequestType
  <2> HIDE DEF r
  <2> QED
    BY <1>1, <2>1, <2>2
<1>8. TypeOK'
  BY <1>5, <1>6, <1>7 DEF Accept, IInv, TypeOK
<1>9. OneCommand'
  <2>1. Holders = {c} /\ obj.owner = c /\ IsExecuting(obj)
    <3>1. c \in Holders
      BY <1>1 DEF Holders, HoldingAt
    <3> QED
      BY <3>1, Zenon DEF IInv, OneCommand, HolderConn
  <2>2. Holders' = {i}
    BY <1>1, <1>6, <2>1, Typed DEF Holders, HoldingAt
  <2> QED
    BY <1>1, <1>5, <2>1, <2>2, Typed DEF OneCommand, HolderConn, Accept, IsExecuting
<1>10. ReleasedHoldsNothing'
  <2>1. \A d \in Conns : thr'[d].at \in Unreleased <=> thr[d].at \in Unreleased
    BY <1>1, <1>6, Typed DEF Unreleased
  <2> QED
    BY <2>1 DEF Accept, IInv, ReleasedHoldsNothing, Released, IsExecuting
<1>11. ThreadInv'
  <2>1. \A d \in Conns :
          /\ thr'[d].at \in ConnAt
          /\ thr'[d].at = "notify" => thr'[d].next \in {"admit", "arm", "answer", "closed"}
          /\ d \in open <=> ~AtEnd(thr'[d])
    <3> TAKE d \in Conns
    <3>1. CASE d = c
      BY <1>1, <1>6, <3>1 DEF IInv, ThreadInv, AtEnd, ConnAt
    <3>2. CASE d # c
      BY <1>6, <3>2, Typed, Zenon DEF IInv, ThreadInv
    <3> QED
      BY <3>1, <3>2, Zenon
  <2>2. \A j \in Cmds :
          /\ thr'[j].at \in CmdAt
          /\ thr'[j].at = "notify" => thr'[j].next \in {"post", "done", "terminate"}
          /\ thr'[j].at # "free" => task'[j].conn \in Conns
    <3> TAKE j \in Cmds
    <3>1. CASE j = i
      BY <1>5, <1>6, <3>1 DEF CmdAt
    <3>2. CASE j # i
      BY <1>5, <1>6, <3>2, Typed, Zenon DEF IInv, ThreadInv
    <3> QED
      BY <3>1, <3>2, Zenon
  <2>3. \A t \in TimerTasks \cup AppThreads : thr'[t] = thr[t]
    BY <1>6, Typed
  <2>4. open' = open
    BY DEF Accept
  <2>5. \A t \in TimerTasks \cup AppThreads :
          thr'[t].at \in OtherAt /\ (thr'[t].at = "notify" => thr'[t].next = "idle")
    BY <2>3 DEF IInv, ThreadInv
  <2> HIDE DEF ConnAt, CmdAt, OtherAt
  <2> QED
    BY <2>1, <2>2, <2>4, <2>5, Zenon DEF ThreadInv, AtEnd
<1>12. QueueSettles'
  <2> SUFFICES ASSUME NEW d \in Conns, NEW n \in 1 .. Len(deferredQ[d])
               PROVE  Settles(deferredQ[d][n], d)'
    BY DEF QueueSettles, Accept, queues
  <2>1. deferredQ[d] \in Seq(Outcome) /\ deferredQ' = deferredQ
    BY DEF IInv, QueueInv, QueueType, Accept, queues
  <2>2. PICK done \in Outcome : done = deferredQ[d][n]
    BY <2>1
  <2>3. Settles(done, d) /\ done.cmd \in Cmds
    BY <2>2 DEF IInv, QueueInv, QueueSettles, Outcome
  <2>4. done.cmd # i
    BY <1>1, <2>3 DEF Settles
  <2>5. thr'[done.cmd] = thr[done.cmd] /\ task'[done.cmd] = task[done.cmd]
    BY <1>5, <1>6, <2>3, <2>4, Typed, Zenon
  <2> QED
    BY <2>1, <2>2, <2>3, <2>5, Zenon DEF Settles
<1> QED
  BY <1>8, <1>9, <1>10, <1>11, <1>12 DEF IInv, QueueInv, QueueType, QueueOnce, Accept, queues

-----------------------------------------------------------------------------
(* Initially nothing is under way.                                         *)
LEMMA InitInv == Init => IInv
<1> SUFFICES ASSUME Init PROVE IInv
  OBVIOUS
<1>1. \A t \in Threads : /\ thr[t] = Thread(IF t \in Cmds THEN "free" ELSE "idle")
                         /\ thr[t] \in ThreadType
                         /\ thr[t].at = IF t \in Cmds THEN "free" ELSE "idle"
  BY DEF Init, Thread, ThreadType, Places, ConnAt, CmdAt
<1>2. NewObject \in ObjectType /\ Consistent(NewObject) /\ NewObject.owner = NoConn
      /\ ~IsExecuting(NewObject)
  BY DEF NewObject, ObjectType, Consistent, States, IsExecuting
<1>3. NoReq \in RequestType /\ NoTask \in TaskType
  BY DEF NoReq, NoTask, RequestType, TaskType
<1>4. TypeOK
  <2>1. thr \in [Threads -> ThreadType]
    <3>1. thr = [t \in Threads |-> thr[t]]
      BY DEF Init
    <3> QED
      BY <1>1, <3>1
  <2>2. req \in [Conns -> RequestType] /\ task \in [Cmds -> TaskType]
    BY <1>3 DEF Init
  <2>3. obj \in ObjectType /\ Consistent(obj)
    BY <1>2 DEF Init
  <2>4. live \in Configs /\ told \in Int /\ taken \in Nat /\ open \subseteq Conns
    BY DEF Init
  <2>5. stSeld \in BOOLEAN
    BY Zenon DEF Init
  <2> QED
    BY <2>1, <2>2, <2>3, <2>4, <2>5 DEF TypeOK
<1>5. OneCommand
  <2>1. Holders = {}
    BY <1>1 DEF Holders, HoldingAt, Threads
  <2> QED
    BY <1>2, <2>1 DEF OneCommand, Init
<1>6. ReleasedHoldsNothing
  BY <1>2, ConnAssumption DEF ReleasedHoldsNothing, Init
<1>7. ThreadInv
  BY <1>1, ThreadAssumption, Zenon DEF ThreadInv, Threads, ConnAt, CmdAt, OtherAt, AtEnd, Init
<1>8. QueueInv
  BY DEF QueueInv, QueueType, QueueSettles, QueueOnce, Init
<1> QED
  BY <1>4, <1>5, <1>6, <1>7, <1>8 DEF IInv

(* Every step keeps the inductive invariant.                               *)
LEMMA NextInv == IInv /\ [Next]_vars => IInv'
<1> SUFFICES ASSUME IInv, [Next]_vars PROVE IInv'
  OBVIOUS
<1>1. CASE \E t \in Threads : Notify(t) \/ Arm(t) \/ Expire(t)
  BY <1>1, NotifyStep, ArmStep, ExpireStep
<1>2. CASE Elapse
  BY <1>2, ElapseStep
<1>3. CASE \E a \in AppThreads : TryUnselect(a)
  BY <1>3, UnselectStep
<1>4. CASE \E k \in TimerTasks : TimerWake(k)
  BY <1>4, WakeStep
<1>5. CASE \E s \in Configs : ChangeSettings(s)
  BY <1>5, ChangeStep
<1>6. ASSUME NEW c \in Conns,
             \/ \E op \in {"sbo", "cancel"} : Request(c, op, NoParams)
             \/ \E op \in {"sbow", "oper"}, p \in Params : Request(c, op, p)
      PROVE  IInv'
  BY <1>6, RequestStep
<1>7. ASSUME NEW c \in Conns,
             \/ CheckSboTimeout(c) \/ AdmitSelect(c) \/ CheckRefusesSelect(c) \/ Select(c)
             \/ Cancel(c) \/ AdmitOperate(c) \/ CheckRefusesOperate(c) \/ CheckPanics(c)
      PROVE  IInv'
  BY <1>7, CheckTimeoutStep, AdmitSelectStep, RefuseSelectStep, SelectStep, CancelStep,
     AdmitOperateStep, RefuseOperateStep, CheckPanicsStep
<1>8. ASSUME NEW c \in Conns,
             \E i \in Cmds, dyn \in BOOLEAN, multi \in BOOLEAN : Accept(c, i, dyn, multi)
      PROVE  IInv'
  BY <1>8, AcceptStep
<1>9. ASSUME NEW c \in Conns,
             Answer(c) \/ ServeDeferred(c) \/ ServeTermination(c) \/ Close(c) \/ Release(c)
      PROVE  IInv'
  BY <1>9, AnswerStep, ServeDeferredStep, ServeTerminationStep, CloseStep, ReleaseStep
<1>10. ASSUME NEW i \in Cmds,
              \/ DynamicCheckPasses(i) \/ DynamicCheckRefuses(i) \/ PostRefusal(i) \/ Abandon(i)
              \/ Run(i) \/ Terminate(i)
       PROVE  IInv'
  BY <1>10, PassDynamicStep, RefuseDynamicStep, PostRefusalStep, AbandonStep, RunStep, TerminateStep
<1>11. ASSUME NEW i \in Cmds, HandlerReturns(i) \/ OperTimeout(i)
       PROVE  IInv'
  BY <1>11, FinishStep DEF HandlerReturns, OperTimeout
<1>12. CASE UNCHANGED vars
  <2>1. TypeOK' /\ OneCommand' /\ ReleasedHoldsNothing'
    BY <1>12, Zenon DEF vars, IInv, TypeOK, OneCommand, Holders, HolderConn, ReleasedHoldsNothing, Released
  <2>2. /\ thr' = thr /\ open' = open /\ task' = task /\ deferredQ' = deferredQ
        /\ ThreadInv /\ QueueInv
    BY <1>12 DEF vars, queues, IInv
  <2>3. ThreadInv'
    BY <2>2, Zenon DEF ThreadInv, AtEnd
  <2>4. QueueInv'
    BY <2>2 DEF QueueInv, QueueType, QueueSettles, QueueOnce, Settles
  <2> QED
    BY <2>1, <2>3, <2>4 DEF IInv
<1> QED
  BY <1>1, <1>2, <1>3, <1>4, <1>5, <1>6, <1>7, <1>8, <1>9, <1>10, <1>11, <1>12, Zenon DEF Next

(* The inductive invariant holds throughout.                               *)
THEOREM Invariance == Spec => []IInv
BY InitInv, NextInv, PTL DEF Spec

(* The object and the threads that use it keep their types, and the fields *)
(* of the object stay consistent with one another: an owner and settings   *)
(* exactly while it is not unselected, a timer only for the ready period   *)
(* it is in, a lost owner only while a command executes.                   *)
THEOREM TypeCorrectness == Spec => []TypeOK
<1>1. IInv => TypeOK
  BY DEF IInv
<1> QED
  BY <1>1, Invariance, PTL

(* The object executes exactly while one command is between begin_operate  *)
(* and its end, or was left there by a panic of its static check, and its  *)
(* owner is that command's connection: the unconditional clear of abort    *)
(* never ends the command of another client.                               *)
THEOREM OneCommandAtATime == Spec => []OneCommand
<1>1. IInv => OneCommand
  BY DEF IInv
<1> QED
  BY <1>1, Invariance, PTL

(* Once on_connection_closed has run for an association, no selection of   *)
(* it is left, and a command it left behind will not make it the owner of  *)
(* a ready object again.                                                   *)
THEOREM NothingLeftBehind == Spec => []ReleasedHoldsNothing
<1>1. IInv => ReleasedHoldsNothing
  BY DEF IInv
<1> QED
  BY <1>1, Invariance, PTL
=============================================================================
