-------------------------- MODULE ControlService --------------------------
(***************************************************************************)
(* The control services of the server around one control object: the       *)
(* requests of several associations (control/service.rs,                   *)
(* control/dispatch.rs), the tasks that execute accepted commands, the     *)
(* select timer tasks, and the part of the association loop               *)
(* (lifecycle.rs) that answers a write, holds the response of a deferred   *)
(* one, sends command terminations and releases a closed association.      *)
(*                                                                         *)
(* A thread holds the lock of the object for one critical section of       *)
(* ControlObject at a time; between two sections anything may happen.  A   *)
(* change of the selection is told to the observer, which writes stSeld,   *)
(* and to the selection change handler after the lock has been released.   *)
(* The check, dynamic check and control handlers may panic; the selection  *)
(* change handlers are taken to return.                                    *)
(*                                                                         *)
(* First the object itself: the fields behind the mutex of ControlObject   *)
(* (control/object.rs).  Every operator on it is one critical section: it  *)
(* takes the object as the lock was taken and yields the object as the     *)
(* lock is released.  The threads that run the sections, and what they do  *)
(* between them, follow.                                                   *)
(***************************************************************************)
EXTENDS Naturals, Integers, Sequences, FiniteSets

(***************************************************************************)
(* The control object                                                      *)
(***************************************************************************)
CONSTANTS
  Conns,        \* connection ids
  NoConn,       \* owner_conn_id 0
  Params,       \* parameters of an Oper or SBOw, compared as one value
  NoParams,     \* last_oper_params None
  BadOrigin,    \* the parameters whose origin is malformed
  NotServed,    \* the parameters Operate refuses before the state machine
  NoSettings,   \* active None
  Configs       \* the settings the configuration attributes take

Models == {"statusOnly", "directNormal", "sboNormal", "directEnhanced", "sboEnhanced"}

(* A setting is reduced to what the code branches on: the model, the select *)
(* class, and whether the select and the operate timeouts are not 0.        *)
ControlSettings ==
  [ctlModel : Models, many : BOOLEAN, sboTimeout : BOOLEAN, operTimeout : BOOLEAN]

ASSUME ConnAssumption == NoConn \notin Conns
ASSUME ParamsAssumption ==
  /\ NoParams \notin Params
  /\ BadOrigin \subseteq Params
  /\ NotServed \subseteq Params
ASSUME ConfigAssumption == Configs \subseteq ControlSettings /\ NoSettings \notin Configs

States == {"unselected", "ready", "waitForExecution", "operate"}

ObjectType ==
  [state  : States,
   owner  : Conns \cup {NoConn},
   active : Configs \cup {NoSettings},
   params : Params \cup {NoParams},
   period : Nat,       \* ready_period
   due    : BOOLEAN,   \* the select timeout has elapsed since select_time
   timer  : Nat,       \* the ready period a sleeping timer task is for, 0 without
   lost   : BOOLEAN]   \* owner_lost

(* What belongs together: an owner and settings while the object is not     *)
(* unselected, a timer only for the ready period it is in, and a lost owner *)
(* only while a command executes.                                           *)
Consistent(o) ==
  /\ o.state = "unselected" <=> o.owner = NoConn
  /\ o.state = "unselected" <=> o.active = NoSettings
  /\ o.timer # 0 => o.state = "ready" /\ o.timer = o.period
  /\ o.lost => o.state \in {"waitForExecution", "operate"}

NewObject ==
  [state |-> "unselected", owner |-> NoConn, active |-> NoSettings, params |-> NoParams,
   period |-> 0, due |-> FALSE, timer |-> 0, lost |-> FALSE]

IsSbo(s) == s.ctlModel \in {"sboNormal", "sboEnhanced"}
IsEnhanced(s) == s.ctlModel \in {"directEnhanced", "sboEnhanced"}

IsExecuting(o) == o.state \in {"waitForExecution", "operate"}
IsReadyIn(o, p) == o.state = "ready" /\ o.period = p

(* The settings in force: those a selection or command under way started   *)
(* with, or those the attributes hold.                                     *)
SettingsLocked(o, live) ==
  IF o.state # "unselected" /\ o.active # NoSettings THEN o.active ELSE live

(* A select-before-operate selection is held, by a ready object or by the   *)
(* command it admitted.                                                     *)
HoldsSelection(o) ==
  o.state = "ready" \/ (IsExecuting(o) /\ IsSbo(o.active))

EnterReady(o, c, s) ==
  [o EXCEPT !.state = "ready", !.owner = c, !.active = s, !.period = @ + 1,
            !.due = FALSE, !.timer = 0]

Clear(o) ==
  [o EXCEPT !.state = "unselected", !.owner = NoConn, !.active = NoSettings,
            !.params = NoParams, !.due = FALSE, !.timer = 0, !.lost = FALSE]

(* Read SBO leaves the parameters alone, SBOw records those it carries.    *)
TrySelect(o, c, live) == EnterReady(o, c, live)
SbowSelect(o, c, live, p) == [EnterReady(o, c, live) EXCEPT !.params = p]

(* Mutant: the timer is left to the next request.                           *)
ArmNoTimer(o, p) == o
ArmSelectTimer(o, p) ==
  IF IsReadyIn(o, p) /\ o.active.sboTimeout THEN [o EXCEPT !.timer = p] ELSE o

(* The elapsed select timeout of check_sbo_timeout, read under the lock and *)
(* acted on by ExpireSelection under a second one.                          *)
SelectTimeoutElapsed(o) == o.state = "ready" /\ o.active.sboTimeout /\ o.due

ExpireSelection(o, p) == IF IsReadyIn(o, p) THEN Clear(o) ELSE o

(* begin_operate: the cause of a refusal, or "accepted".                   *)
BeginVerdict(o, c, live, p) ==
  LET s == SettingsLocked(o, live) IN
  CASE s.ctlModel = "statusOnly" -> "notSupported"
    [] s.ctlModel # "statusOnly" /\ p \in BadOrigin -> "inconsistentParameters"
    [] s.ctlModel # "statusOnly" /\ p \notin BadOrigin /\ ~IsSbo(s) ->
         IF o.state # "unselected" THEN "commandAlreadyInExecution" ELSE "accepted"
    [] OTHER ->
         IF o.state # "ready" THEN "objectNotSelected"
         ELSE IF o.owner # c THEN "lockedByOtherClient"
         ELSE IF s.ctlModel = "sboEnhanced" /\ o.params # p THEN "differsFromSbow"
         ELSE "accepted"

BeginOperate(o, c, live, p) ==
  LET verdict == BeginVerdict(o, c, live, p) IN
  CASE verdict = "accepted" ->
         [o EXCEPT !.state = "waitForExecution", !.params = p, !.owner = c,
                   !.active = SettingsLocked(o, live), !.timer = 0]
    [] verdict = "differsFromSbow" -> Clear(o)
    [] OTHER -> o

SetStateOperate(o) ==
  IF o.state = "waitForExecution" THEN [o EXCEPT !.state = "operate"] ELSE o

(* The selection goes on after a command of an operate-many selection whose *)
(* connection is still there.                                               *)
StaysReady(o) == IsSbo(o.active) /\ o.active.many /\ ~o.lost

FinishOperate(o) ==
  IF ~IsExecuting(o) THEN o
  ELSE IF StaysReady(o) THEN EnterReady(o, o.owner, o.active)
  ELSE Clear(o)

(* abort clears whatever it finds.                                         *)
Abort(o) == Clear(o)

(* try_cancel: the cause of a refusal, or "accepted".                      *)
CancelVerdict(o, c, live) ==
  CASE IsExecuting(o) -> "commandAlreadyInExecution"
    [] o.state = "ready" -> IF o.owner # c THEN "lockedByOtherClient" ELSE "accepted"
    [] OTHER -> IF IsSbo(live) THEN "accepted" ELSE "notSupported"

(* Mutant: the owner may also cancel the command that executes.             *)
CancelAnyState(o, c) == IF o.owner = c THEN Clear(o) ELSE o
TryCancel(o, c) == IF o.state = "ready" /\ o.owner = c THEN Clear(o) ELSE o

(* Mutant: the loss of the connection is forgotten while a command runs.    *)
ForgetLostOwner(o, c) == IF o.owner = c /\ o.state = "ready" THEN Clear(o) ELSE o

OnConnectionClosed(o, c) ==
  CASE o.owner = c /\ o.state = "ready" -> Clear(o)
    [] o.owner = c /\ IsExecuting(o) -> [o EXCEPT !.lost = TRUE]
    [] OTHER -> o

(***************************************************************************)
(* The control services                                                    *)
(***************************************************************************)
CONSTANTS
  Cmds,         \* command tasks, one per accepted Operate
  TimerTasks,   \* select timer tasks past their sleep
  AppThreads,   \* application threads that deselect the object
  NoCmd,
  MaxRequests   \* bound: the requests taken in a behaviour

ASSUME ThreadAssumption ==
  /\ NoCmd \notin Cmds
  /\ Conns \cap Cmds = {} /\ Conns \cap TimerTasks = {} /\ Cmds \cap TimerTasks = {}
  /\ AppThreads \cap (Conns \cup Cmds \cup TimerTasks) = {}
ASSUME BoundAssumption == MaxRequests \in Nat

Threads == Conns \cup Cmds \cup TimerTasks \cup AppThreads

VARIABLES
  obj,        \* the object behind its mutex
  live,       \* the configuration attributes of the data object
  stSeld,     \* the stSeld attribute
  told,       \* selections reported minus selections reported ended
  thr,        \* where each thread is
  req,        \* the request each association is serving
  task,       \* the accepted commands
  open,       \* associations whose channels still have a receiver
  deferredQ,  \* DeferredWrite channel of each association
  ctQ,        \* command termination channel of each association
  deferredWrites,  \* the commands whose write response the loop holds back
  sent,       \* PDUs sent for each command, in order
  taken       \* requests taken so far

vars == <<obj, live, stSeld, told, thr, req, task, open, deferredQ, ctQ, deferredWrites, sent, taken>>
queues == <<deferredQ, ctQ, deferredWrites>>

NoReq == [op |-> "none", par |-> NoParams, ans |-> "none", cmd |-> NoCmd]
NoTask == [conn |-> NoConn, set |-> NoSettings, dyn |-> FALSE, multi |-> FALSE, res |-> "none"]

Thread(at) == [at |-> at, next |-> "none", per |-> 0, say |-> "none"]

Init ==
  /\ obj = NewObject
  /\ live \in Configs
  /\ stSeld = FALSE
  /\ told = 0
  /\ thr = [t \in Threads |-> Thread(IF t \in Cmds THEN "free" ELSE "idle")]
  /\ req = [c \in Conns |-> NoReq]
  /\ task = [i \in Cmds |-> NoTask]
  /\ open = Conns
  /\ deferredQ = [c \in Conns |-> <<>>]
  /\ ctQ = [c \in Conns |-> <<>>]
  /\ deferredWrites = {}
  /\ sent = [i \in Cmds |-> <<>>]
  /\ taken = 0

Go(t, at) == [thr EXCEPT ![t] = Thread(at)]
GoIn(t, at, p) == [thr EXCEPT ![t] = [Thread(at) EXCEPT !.per = p]]
(* The thread has changed the selection and has yet to report it.          *)
Report(t, say, p, next) ==
  [thr EXCEPT ![t] = [at |-> "notify", next |-> next, per |-> p, say |-> say]]

(* Mutant: a selection that ends with its command is not reported.          *)
ReportNoEnd(t, next) == Go(t, next)

(* abort and finish_operate report the end of a select-before-operate      *)
(* selection only; a direct command held none.                              *)
ReportEnd(t, next) ==
  IF obj.state # "unselected" /\ IsSbo(obj.active)
    THEN Report(t, "ended", obj.period, next) ELSE Go(t, next)

(***************************************************************************)
(* Reporting a change of the selection, and the select timer               *)
(***************************************************************************)
Notify(t) ==
  /\ thr[t].at = "notify"
  /\ stSeld' = (thr[t].say = "selected")
  /\ told' = IF thr[t].say = "selected" THEN told + 1 ELSE told - 1
  /\ thr' = [thr EXCEPT ![t] = [Thread(thr[t].next) EXCEPT !.per = thr[t].per]]
  /\ UNCHANGED <<obj, live, req, task, open, queues, sent, taken>>

Arm(t) ==
  /\ thr[t].at = "arm"
  /\ obj' = ArmSelectTimer(obj, thr[t].per)
  /\ thr' = Go(t, IF t \in Conns THEN "answer" ELSE "terminate")
  /\ UNCHANGED <<live, stSeld, told, req, task, open, queues, sent, taken>>

Elapse ==
  /\ obj.state = "ready" /\ obj.active.sboTimeout /\ ~obj.due
  /\ obj' = [obj EXCEPT !.due = TRUE]
  /\ UNCHANGED <<live, stSeld, told, thr, req, task, open, queues, sent, taken>>

(* The sleep of the timer task is over; aborting the task no longer stops   *)
(* the expiry it has handed to the blocking pool.                           *)
TimerWake(k) ==
  /\ thr[k].at = "idle"
  /\ obj.timer # 0 /\ obj.due
  /\ thr' = GoIn(k, "expire", obj.timer)
  /\ obj' = [obj EXCEPT !.timer = 0]
  /\ UNCHANGED <<live, stSeld, told, req, task, open, queues, sent, taken>>

Expire(t) ==
  /\ thr[t].at = "expire"
  /\ LET next == IF t \in Conns THEN "admit" ELSE "idle" IN
     thr' = IF IsReadyIn(obj, thr[t].per)
              THEN Report(t, "timeout", obj.period, next) ELSE Go(t, next)
  /\ obj' = ExpireSelection(obj, thr[t].per)
  /\ UNCHANGED <<live, stSeld, told, req, task, open, queues, sent, taken>>

(* try_unselect by the application, of whichever selection it finds.       *)
TryUnselect(a) ==
  /\ thr[a].at = "idle"
  /\ obj.state = "ready"
  /\ obj' = Clear(obj)
  /\ thr' = Report(a, "ended", obj.period, "idle")
  /\ UNCHANGED <<live, stSeld, told, req, task, open, queues, sent, taken>>

ChangeSettings(s) ==
  /\ live' = s /\ s # live
  /\ UNCHANGED <<obj, stSeld, told, thr, req, task, open, queues, sent, taken>>

(***************************************************************************)
(* Requests, on the thread that dispatches them                            *)
(***************************************************************************)
CommandsInUse == {i \in Cmds : thr[i].at # "free"}
OperatesInFlight == {c \in Conns : req[c].op = "oper"}

(* The loop takes a request from the socket only when no deferred write and *)
(* no command termination waits.  Cancel does not expire a stale selection. *)
Request(c, op, p) ==
  /\ thr[c].at = "idle" /\ c \in open
  /\ deferredQ[c] = <<>> /\ ctQ[c] = <<>>
  /\ taken < MaxRequests /\ taken' = taken + 1
  /\ op = "oper" => Cardinality(CommandsInUse) + Cardinality(OperatesInFlight) < Cardinality(Cmds)
  /\ req' = [req EXCEPT ![c] = [NoReq EXCEPT !.op = op, !.par = p]]
  /\ thr' = Go(c, IF op = "cancel" THEN "admit" ELSE "stale")
  /\ UNCHANGED <<obj, live, stSeld, told, task, open, queues, sent>>

CheckSboTimeout(c) ==
  /\ thr[c].at = "stale"
  /\ thr' = IF SelectTimeoutElapsed(obj) THEN GoIn(c, "expire", obj.period) ELSE Go(c, "admit")
  /\ UNCHANGED <<obj, live, stSeld, told, req, task, open, queues, sent, taken>>

Answered(c, ans) == [req EXCEPT ![c].ans = ans]

(* The model check of a select, before the check handler runs.             *)
ReadSboAdmitted(c) ==
  req[c].op = "sbo" /\ SettingsLocked(obj, live).ctlModel = "sboNormal"
SbowAdmitted(c) ==
  /\ req[c].op = "sbow" /\ SettingsLocked(obj, live).ctlModel = "sboEnhanced"
  /\ req[c].par \notin BadOrigin

AdmitSelect(c) ==
  /\ thr[c].at = "admit" /\ req[c].op \in {"sbo", "sbow"}
  /\ \/ /\ ReadSboAdmitted(c) \/ SbowAdmitted(c)
        /\ thr' = Go(c, "select") /\ req' = req
     \/ /\ ~(ReadSboAdmitted(c) \/ SbowAdmitted(c))
        /\ thr' = Go(c, "answer") /\ req' = Answered(c, "neg")
  /\ UNCHANGED <<obj, live, stSeld, told, task, open, queues, sent, taken>>

CheckRefusesSelect(c) ==
  /\ thr[c].at = "select"
  /\ thr' = Go(c, "answer") /\ req' = Answered(c, "neg")
  /\ UNCHANGED <<obj, live, stSeld, told, task, open, queues, sent, taken>>

Select(c) ==
  /\ thr[c].at = "select"
  /\ IF obj.state # "unselected"
       THEN /\ thr' = Go(c, "answer") /\ req' = Answered(c, "neg") /\ obj' = obj
       ELSE /\ obj' = IF req[c].op = "sbo" THEN TrySelect(obj, c, live)
                      ELSE SbowSelect(obj, c, live, req[c].par)
            /\ thr' = Report(c, "selected", obj'.period, "arm")
            /\ req' = Answered(c, "pos")
  /\ UNCHANGED <<live, stSeld, told, task, open, queues, sent, taken>>

Cancel(c) ==
  /\ thr[c].at = "admit" /\ req[c].op = "cancel"
  /\ obj' = TryCancel(obj, c)
  /\ req' = Answered(c, IF CancelVerdict(obj, c, live) = "accepted" THEN "pos" ELSE "neg")
  /\ thr' = IF obj' = obj THEN Go(c, "answer") ELSE Report(c, "ended", obj.period, "answer")
  /\ UNCHANGED <<live, stSeld, told, task, open, queues, sent, taken>>

AdmitOperate(c) ==
  /\ thr[c].at = "admit" /\ req[c].op = "oper"
  /\ LET verdict == IF req[c].par \in NotServed THEN "notSupported"
                    ELSE BeginVerdict(obj, c, live, req[c].par) IN
     \/ /\ verdict = "accepted"
        /\ obj' = BeginOperate(obj, c, live, req[c].par)
        /\ thr' = Go(c, "check") /\ req' = req
     \/ /\ verdict = "differsFromSbow"
        /\ obj' = BeginOperate(obj, c, live, req[c].par)
        /\ thr' = Report(c, "ended", obj.period, "answer") /\ req' = Answered(c, "neg")
     \/ /\ verdict \notin {"accepted", "differsFromSbow"}
        /\ thr' = Go(c, "answer") /\ req' = Answered(c, "neg") /\ obj' = obj
  /\ UNCHANGED <<live, stSeld, told, task, open, queues, sent, taken>>

CheckRefusesOperate(c) ==
  /\ thr[c].at = "check"
  /\ obj' = Abort(obj)
  /\ thr' = ReportEnd(c, "answer")
  /\ req' = Answered(c, "neg")
  /\ UNCHANGED <<live, stSeld, told, task, open, queues, sent, taken>>

(* The accepted command moves onto its own task.  Without a dynamic check   *)
(* it is answered and runs; with one its response is deferred, which a      *)
(* write of several variables (multi) cannot wait for.                      *)
Accept(c, i, dyn, multi) ==
  /\ thr[c].at = "check"
  /\ thr[i].at = "free"
  /\ multi => dyn
  /\ task' = [task EXCEPT ![i] = [conn |-> c, set |-> SettingsLocked(obj, live), dyn |-> dyn,
                                  multi |-> multi, res |-> "none"]]
  /\ thr' = [thr EXCEPT ![i] = Thread(IF dyn THEN "dynamic" ELSE "run"), ![c] = Thread("answer")]
  /\ req' = [req EXCEPT ![c].ans = IF dyn /\ ~multi THEN "hold" ELSE "pos", ![c].cmd = i]
  /\ UNCHANGED <<obj, live, stSeld, told, open, queues, sent, taken>>

(***************************************************************************)
(* The association loop: answers, deferred writes, command terminations    *)
(***************************************************************************)
(* The receivers are dropped: what is queued is lost, and a command that    *)
(* waits for its response to be sent learns that it never will be.          *)
CommandsOf(c, at) == {i \in Cmds : task[i].conn = c /\ thr[i].at = at}

Unwind(c, at) ==
  /\ thr' = [t \in Threads |->
               CASE t = c -> Thread(at)
                 [] t \in CommandsOf(c, "await") -> Thread("abandon")
                 [] OTHER -> thr[t]]
  /\ open' = open \ {c}
  /\ deferredQ' = [deferredQ EXCEPT ![c] = <<>>]
  /\ ctQ' = [ctQ EXCEPT ![c] = <<>>]
  /\ deferredWrites' = {i \in deferredWrites : task[i].conn # c}

Down(c) == Unwind(c, "down")

(* The static check handler panics on the thread that serves the request,   *)
(* which ends the association without an answer.  A select has changed      *)
(* nothing yet; an Operate is past begin_operate and not yet guarded by the *)
(* drop of AcceptedOperate, so its object stays in WaitForExecution.        *)
CheckPanics(c) ==
  /\ \/ thr[c].at = "select" /\ Down(c)
     \/ thr[c].at = "check" /\ Unwind(c, "panicked")
  /\ req' = [req EXCEPT ![c] = NoReq]
  /\ UNCHANGED <<obj, live, stSeld, told, task, sent, taken>>

Close(c) ==
  /\ thr[c].at = "idle" /\ c \in open
  /\ Down(c)
  /\ req' = [req EXCEPT ![c] = NoReq]
  /\ UNCHANGED <<obj, live, stSeld, told, task, sent, taken>>

(* The PDUs are written one after the other; one that is not accepted in    *)
(* time ends the association without a further write.                       *)
SendFails(c, i, pdus) ==
  /\ \E n \in 0 .. Len(pdus) - 1 :
       sent' = [sent EXCEPT ![i] = @ \o SubSeq(pdus, 1, n)]
  /\ Down(c)

(* Mutant: the negative response goes ahead of its LastApplError.           *)
ResponseFirst(ok) == IF ok THEN <<"pos">> ELSE <<"neg", "lastApplError">>
ResponsePdus(ok) == IF ok THEN <<"pos">> ELSE <<"lastApplError", "neg">>

(* The request is answered, or the response of its deferred Operate is held *)
(* back.  Only the PDUs of accepted commands are kept in sent.              *)
Answer(c) ==
  /\ thr[c].at = "answer"
  /\ req' = [req EXCEPT ![c] = NoReq]
  /\ \/ /\ req[c].ans = "hold"
        /\ deferredWrites' = deferredWrites \cup {req[c].cmd}
        /\ thr' = Go(c, "idle")
        /\ UNCHANGED <<open, deferredQ, ctQ, sent>>
     \/ /\ req[c].ans # "hold"
        /\ sent' = IF req[c].cmd = NoCmd THEN sent
                   ELSE [sent EXCEPT ![req[c].cmd] = Append(@, "pos")]
        /\ thr' = Go(c, "idle")
        /\ UNCHANGED <<open, queues>>
     \/ /\ req[c].ans # "hold"
        /\ Down(c) /\ sent' = sent
  /\ UNCHANGED <<obj, live, stSeld, told, task, taken>>

(* What the loop writes for a deferred outcome: the response it held back,  *)
(* or the termination of an enhanced command answered at acceptance.        *)
DeferredPdus(done) ==
  IF done.cmd \in deferredWrites THEN ResponsePdus(done.ok)
  ELSE IF ~done.ok /\ IsEnhanced(task[done.cmd].set) THEN <<"ct">> ELSE <<>>

ServeDeferred(c) ==
  /\ thr[c].at = "idle" /\ c \in open
  /\ deferredQ[c] # <<>>
  /\ LET done == Head(deferredQ[c]) IN
     \/ /\ sent' = [sent EXCEPT ![done.cmd] = @ \o DeferredPdus(done)]
        /\ thr' = IF done.ok THEN Go(done.cmd, "run") ELSE thr
        /\ deferredQ' = [deferredQ EXCEPT ![c] = Tail(@)]
        /\ deferredWrites' = deferredWrites \ {done.cmd}
        /\ UNCHANGED <<open, ctQ>>
     \/ SendFails(c, done.cmd, DeferredPdus(done))
  /\ UNCHANGED <<obj, live, stSeld, told, req, task, taken>>

ServeTermination(c) ==
  /\ thr[c].at = "idle" /\ c \in open
  /\ deferredQ[c] = <<>> /\ ctQ[c] # <<>>
  /\ \/ /\ sent' = [sent EXCEPT ![Head(ctQ[c])] = Append(@, "ct")]
        /\ ctQ' = [ctQ EXCEPT ![c] = Tail(@)]
        /\ UNCHANGED <<thr, open, deferredQ, deferredWrites>>
     \/ SendFails(c, Head(ctQ[c]), <<"ct">>)
  /\ UNCHANGED <<obj, live, stSeld, told, req, task, taken>>

(* The release of the association, once its loop has ended.                *)
Unreleased == {"down", "panicked"}

Release(c) ==
  /\ thr[c].at \in Unreleased
  /\ obj' = OnConnectionClosed(obj, c)
  /\ thr' = IF obj.owner = c /\ obj.state = "ready"
              THEN Report(c, "ended", obj.period, "closed")
              ELSE Go(c, IF thr[c].at = "down" THEN "closed" ELSE "stranded")
  /\ UNCHANGED <<live, stSeld, told, req, task, open, queues, sent, taken>>

(***************************************************************************)
(* Command tasks                                                           *)
(***************************************************************************)
PostDeferred(i, ok) ==
  LET c == task[i].conn IN
  deferredQ' = IF c \in open THEN [deferredQ EXCEPT ![c] = Append(@, [cmd |-> i, ok |-> ok])]
               ELSE deferredQ

DynamicCheckPasses(i) ==
  /\ thr[i].at = "dynamic"
  /\ PostDeferred(i, TRUE)
  /\ thr' = Go(i, IF task[i].conn \in open THEN "await" ELSE "abandon")
  /\ UNCHANGED <<obj, live, stSeld, told, req, task, open, ctQ, deferredWrites, sent, taken>>

(* The dynamic check refuses, or panics and the dropped command and reply   *)
(* do the same.                                                             *)
DynamicCheckRefuses(i) ==
  /\ thr[i].at = "dynamic"
  /\ obj' = Abort(obj)
  /\ thr' = ReportEnd(i, "post")
  /\ UNCHANGED <<live, stSeld, told, req, task, open, queues, sent, taken>>

PostRefusal(i) ==
  /\ thr[i].at = "post"
  /\ PostDeferred(i, FALSE)
  /\ thr' = Go(i, "done")
  /\ UNCHANGED <<obj, live, stSeld, told, req, task, open, ctQ, deferredWrites, sent, taken>>

Abandon(i) ==
  /\ thr[i].at = "abandon"
  /\ obj' = Abort(obj)
  /\ thr' = ReportEnd(i, "done")
  /\ UNCHANGED <<live, stSeld, told, req, task, open, queues, sent, taken>>

Run(i) ==
  /\ thr[i].at = "run"
  /\ obj' = SetStateOperate(obj)
  /\ thr' = Go(i, "executing")
  /\ UNCHANGED <<live, stSeld, told, req, task, open, queues, sent, taken>>

Finish(i, res) ==
  /\ thr[i].at = "executing"
  /\ obj' = FinishOperate(obj)
  /\ task' = [task EXCEPT ![i].res = res]
  /\ thr' = IF ~IsExecuting(obj) THEN Go(i, "terminate")
            ELSE IF StaysReady(obj) THEN GoIn(i, "arm", obj'.period)
            ELSE ReportEnd(i, "terminate")
  /\ UNCHANGED <<live, stSeld, told, req, open, queues, sent, taken>>

(* The control handler returns, or panics and the dropped command ends as a *)
(* failed one.                                                              *)
HandlerReturns(i) == \E res \in {"ok", "failed"} : Finish(i, res)
OperTimeout(i) == thr[i].at = "executing" /\ task[i].set.operTimeout /\ Finish(i, "timeLimitOver")

Terminate(i) ==
  /\ thr[i].at = "terminate"
  /\ LET c == task[i].conn IN
     ctQ' = IF IsEnhanced(task[i].set) /\ c \in open
              THEN [ctQ EXCEPT ![c] = Append(@, i)] ELSE ctQ
  /\ thr' = Go(i, "done")
  /\ UNCHANGED <<obj, live, stSeld, told, req, task, open, deferredQ, deferredWrites, sent, taken>>

Next ==
  \/ \E t \in Threads : Notify(t) \/ Arm(t) \/ Expire(t)
  \/ Elapse
  \/ \E a \in AppThreads : TryUnselect(a)
  \/ \E k \in TimerTasks : TimerWake(k)
  \/ \E s \in Configs : ChangeSettings(s)
  \/ \E c \in Conns :
       \/ \E op \in {"sbo", "cancel"} : Request(c, op, NoParams)
       \/ \E op \in {"sbow", "oper"}, p \in Params : Request(c, op, p)
       \/ CheckSboTimeout(c) \/ AdmitSelect(c) \/ CheckRefusesSelect(c) \/ Select(c)
       \/ Cancel(c) \/ AdmitOperate(c) \/ CheckRefusesOperate(c) \/ CheckPanics(c)
       \/ \E i \in Cmds, dyn \in BOOLEAN, multi \in BOOLEAN : Accept(c, i, dyn, multi)
       \/ Answer(c) \/ ServeDeferred(c) \/ ServeTermination(c) \/ Close(c) \/ Release(c)
  \/ \E i \in Cmds :
       \/ DynamicCheckPasses(i) \/ DynamicCheckRefuses(i) \/ PostRefusal(i) \/ Abandon(i)
       \/ Run(i) \/ HandlerReturns(i) \/ OperTimeout(i) \/ Terminate(i)

Spec == Init /\ [][Next]_vars

(***************************************************************************)
(* Properties                                                              *)
(***************************************************************************)
(* Where the thread of an association, of a command and any other can be.  *)
ConnAt == {"idle", "stale", "expire", "admit", "select", "notify", "arm", "check", "answer",
           "down", "closed", "panicked", "stranded"}
CmdAt == {"free", "dynamic", "notify", "post", "await", "abandon", "run", "executing", "arm",
          "terminate", "done"}
OtherAt == {"idle", "expire", "notify"}
Places == ConnAt \cup CmdAt \cup {"none"}

ThreadType == [at : Places, next : Places, per : Nat, say : {"none", "selected", "ended", "timeout"}]
RequestType == [op  : {"none", "sbo", "sbow", "oper", "cancel"},
                par : Params \cup {NoParams},
                ans : {"none", "pos", "neg", "hold"},
                cmd : Cmds \cup {NoCmd}]
TaskType == [conn  : Conns \cup {NoConn}, set : Configs \cup {NoSettings}, dyn : BOOLEAN,
             multi : BOOLEAN, res : {"none", "ok", "failed", "timeLimitOver"}]

(* The types, and the fields of the object that clear and enter_ready keep  *)
(* together.                                                                *)
TypeOK ==
  /\ obj \in ObjectType /\ Consistent(obj)
  /\ live \in Configs
  /\ stSeld \in BOOLEAN
  /\ told \in Int
  /\ taken \in Nat
  /\ open \subseteq Conns
  /\ thr \in [Threads -> ThreadType]
  /\ req \in [Conns -> RequestType]
  /\ task \in [Cmds -> TaskType]

(* The threads that stand between begin_operate and the end of a command,   *)
(* and the association whose command a panic of its static check has left   *)
(* behind, before its release and after it.                                 *)
HoldingAt == {"check", "dynamic", "await", "abandon", "run", "executing", "panicked", "stranded"}
Holders == {t \in Conns \cup Cmds : thr[t].at \in HoldingAt}
HolderConn(t) == IF t \in Conns THEN t ELSE task[t].conn

(* The object is in an executing state exactly while one command is on its  *)
(* way from begin_operate to its end, held by the connection that sent it,  *)
(* or was left behind there by a panic of its static check, after which no  *)
(* command is ever admitted again.  finish_operate and the unconditional    *)
(* clear of abort rely on it: neither checks whose command it ends.         *)
OneCommand ==
  /\ IsExecuting(obj) <=> Holders # {}
  /\ \A t, u \in Holders : t = u
  /\ \A t \in Holders : obj.owner = HolderConn(t)

(* The connection task has run the release of on_connection_closed.        *)
Released(c) == c \notin open /\ thr[c].at \notin Unreleased

(* A released association holds no selection, and a command that still      *)
(* executes for it will not return the object to ready: owner_lost is set.  *)
ReleasedHoldsNothing ==
  \A c \in Conns : Released(c) /\ obj.owner = c => IsExecuting(obj) /\ obj.lost

(* What a client sees of a command: a positive response and then, under     *)
(* enhanced security, one termination; or LastApplError and then a negative *)
(* response.  Nothing overtakes the response, and a command with a dynamic  *)
(* check starts to run only once the association has sent it.               *)
ResponseOrder ==
  \A i \in Cmds :
    /\ \/ sent[i] \in {<<>>, <<"pos">>, <<"lastApplError">>, <<"lastApplError", "neg">>}
       \/ sent[i] = <<"pos", "ct">> /\ IsEnhanced(task[i].set)
    /\ thr[i].at \in {"run", "executing"} /\ task[i].dyn => sent[i] = <<"pos">>

Pending(say) == Cardinality({t \in Threads : thr[t].at = "notify" /\ thr[t].say \in say})

(* Every change of the selection is reported exactly once: reports made and *)
(* reports under way add up to the selection the object holds.              *)
SelectionLedger ==
  told + Pending({"selected"}) - Pending({"ended", "timeout"})
    = IF HoldsSelection(obj) THEN 1 ELSE 0

(* Fairness: the blocking pool runs every dispatched step, the check        *)
(* handlers return or panic, the selection handlers return, time passes,    *)
(* and the loop serves its channels.  Neither the dynamic check nor the     *)
(* control handler is assumed to return.                                    *)
Fairness ==
  /\ \A t \in Threads : WF_vars(Notify(t) \/ Arm(t) \/ Expire(t))
  /\ WF_vars(Elapse)
  /\ \A k \in TimerTasks : WF_vars(TimerWake(k))
  /\ \A c \in Conns :
       WF_vars(\/ CheckSboTimeout(c) \/ AdmitSelect(c) \/ CheckRefusesSelect(c) \/ Select(c)
               \/ Cancel(c) \/ AdmitOperate(c) \/ CheckRefusesOperate(c) \/ CheckPanics(c)
               \/ \E i \in Cmds, dyn \in BOOLEAN, multi \in BOOLEAN : Accept(c, i, dyn, multi)
               \/ Answer(c) \/ ServeDeferred(c) \/ ServeTermination(c) \/ Release(c))
  /\ \A i \in Cmds :
       WF_vars(PostRefusal(i) \/ Abandon(i) \/ Run(i) \/ OperTimeout(i) \/ Terminate(i))

FairSpec == Spec /\ Fairness

SelectionEnds ==
  \A p \in 1 .. MaxRequests :
    IsReadyIn(obj, p) /\ obj.active.sboTimeout ~> ~IsReadyIn(obj, p)
DeferredIsSettled ==
  \A i \in Cmds : thr[i].at = "await" ~> thr[i].at \in {"executing", "done"}
LimitedCommandEnds ==
  \A i \in Cmds : thr[i].at = "executing" /\ task[i].set.operTimeout
    ~> /\ thr[i].at = "done"
       /\ IsEnhanced(task[i].set) => task[i].conn \notin open \/ sent[i] = <<"pos", "ct">>

(* What frees the object.  A selection with a select timeout does not       *)
(* outlive it.  A command whose dynamic check passed does not wait forever  *)
(* for its response to be sent: it runs, or is abandoned with its           *)
(* association.  One limited by operTimeout frees the object even when its  *)
(* control handler never returns, and under enhanced security the client is *)
(* told unless its association has gone.  Only a command left behind by its *)
(* static check (OneCommand) is never ended.                                *)
ObjectIsFreed == SelectionEnds /\ DeferredIsSettled /\ LimitedCommandEnds
=============================================================================
