---------------------------- MODULE SettingGroups ----------------------------
(***************************************************************************)
(* One setting group control block (setting_groups.rs): the active group,  *)
(* the edit session one association holds, the values of every group, and  *)
(* the loads that bring them into the FC=SG and FC=SE attributes.  The     *)
(* state lock, the settings lock and the loads lock are separate, handlers *)
(* run with none of them held, and a load is written after the settings    *)
(* lock is released; one action is one section under one lock.             *)
(***************************************************************************)
EXTENDS Naturals, FiniteSets

CONSTANTS
  SgConns,    \* associations
  NumOfSG,    \* number of setting groups
  Leaves,     \* leaf settings that have an FC=SG and an FC=SE attribute
  SgValues,   \* values of a setting
  SgApp,      \* the application thread
  SgNone      \* no owner, no holder of a lock

ASSUME SgAssumption ==
  /\ NumOfSG \in Nat \ {0}
  /\ SgNone \notin SgConns \cup {SgApp}
  /\ SgApp \notin SgConns

VARIABLES
  sgcb,       \* State: active group, edited group, owner, deadline passed
  groups,     \* the value each group holds for each leaf
  sgAttr,     \* the FC=SG attributes, the active buffer
  seAttr,     \* the FC=SE attributes, the edit buffer
  settings,   \* holder of the settings lock
  loads,      \* holder of the loads lock
  sgThread,   \* what each association and the application is doing
  edited      \* history: what the open session has loaded and written

sgVars == <<sgcb, groups, sgAttr, seAttr, settings, loads, sgThread, edited>>

Groups == 1..NumOfSG
SgThreads == SgConns \cup {SgApp}
Buffering == [Leaves -> SgValues]

(* A load: its buffer, its values, and whether its ticket is still the      *)
(* latest one of that buffer.  A ticket is compared for nothing else.       *)
NoLoad == [buffer |-> "none", writes |-> {}, latest |-> FALSE]
LoadType == {NoLoad} \cup
  [buffer: {"Active", "Edit"}, writes: Buffering, latest: BOOLEAN]

(* `current` stands for the session number a thread remembers: it is the    *)
(* number of the latest session.                                            *)
SgIdle == [at |-> "idle", group |-> 0, leaf |-> SgNone, value |-> SgNone,
           current |-> FALSE, load |-> NoLoad, todo |-> {}]
SgAt == {"idle", "activate", "editExpire", "editCheck", "editHandler", "editOpen",
         "cnfExpire", "cnfCheck", "cnfHandler", "cnfCommit", "cnfCopy",
         "seExpire", "seAdmit", "seStore", "set", "load", "writing"}

SgInit ==
  /\ groups \in [Groups -> Buffering]
  /\ sgcb = [act |-> 1, edit |-> 0, owner |-> SgNone, due |-> FALSE]
  /\ sgAttr = groups[1]
  /\ seAttr \in Buffering
  /\ settings = SgNone /\ loads = SgNone
  /\ sgThread = [t \in SgThreads |-> SgIdle]
  /\ edited = seAttr

----------------------------------------------------------------------------
(* Sections under the state lock                                            *)

Closed(s) == [s EXCEPT !.edit = 0, !.owner = SgNone, !.due = FALSE]

(* tick_reservation_at: an expired session is released.                     *)
Expired(s) == IF s.owner # SgNone /\ s.due THEN Closed(s) ELSE s

(* State::is_current for the session thread t was admitted to.              *)
IsCurrent(t) ==
  sgcb.edit > 0 /\ sgcb.owner = t /\ sgThread[t].current /\ ~sgcb.due

Goto(t, place) == sgThread' = [sgThread EXCEPT ![t].at = place]
SgReturn(t) == sgThread' = [sgThread EXCEPT ![t] = SgIdle]

(* The deadline of the open session passes.                                 *)
ReservationElapses ==
  /\ sgcb.owner # SgNone /\ ~sgcb.due
  /\ sgcb' = [sgcb EXCEPT !.due = TRUE]
  /\ UNCHANGED <<groups, sgAttr, seAttr, settings, loads, sgThread, edited>>

(* The periodic timer: tick_reservations.                                   *)
TickReservation ==
  /\ sgcb' = Expired(sgcb)
  /\ sgcb' # sgcb
  /\ UNCHANGED <<groups, sgAttr, seAttr, settings, loads, sgThread, edited>>

(* The association closes between two requests; its session is released.    *)
ReleaseForConn(c) ==
  /\ sgThread[c].at = "idle"
  /\ sgcb.owner = c
  /\ sgcb' = Closed(sgcb)
  /\ UNCHANGED <<groups, sgAttr, seAttr, settings, loads, sgThread, edited>>

(* expire_stale_session_if_any, the first step of three requests.           *)
ExpireStale(c) ==
  /\ \/ sgThread[c].at = "editExpire" /\ Goto(c, "editCheck")
     \/ sgThread[c].at = "cnfExpire" /\ Goto(c, "cnfCheck")
     \/ sgThread[c].at = "seExpire" /\ Goto(c, "seAdmit")
  /\ sgcb' = Expired(sgcb)
  /\ UNCHANGED <<groups, sgAttr, seAttr, settings, loads, edited>>

----------------------------------------------------------------------------
(* Loads                                                                    *)

(* prepare_load: t takes the values v of a group as the latest load of      *)
(* buffer b, which overtakes every other load of that buffer.               *)
PrepareLoadUnordered(t, b, v) ==
  sgThread' = [sgThread EXCEPT
    ![t] = [SgIdle EXCEPT !.at = "load",
                          !.load = [buffer |-> b, writes |-> v, latest |-> TRUE]]]
PrepareLoad(t, b, v) ==
  sgThread' = [u \in SgThreads |->
    IF u = t THEN [SgIdle EXCEPT !.at = "load",
                     !.load = [buffer |-> b, writes |-> v, latest |-> TRUE]]
    ELSE IF sgThread[u].load.buffer = b THEN [sgThread[u] EXCEPT !.load.latest = FALSE]
    ELSE sgThread[u]]

(* run_load: the loads lock, then the ticket decides whether to write.      *)
RunLoad(t) ==
  /\ sgThread[t].at = "load" /\ loads = SgNone
  /\ \/ /\ ~sgThread[t].load.latest
        /\ SgReturn(t) /\ UNCHANGED loads
     \/ /\ sgThread[t].load.latest
        /\ loads' = t
        /\ sgThread' = [sgThread EXCEPT ![t] = [@ EXCEPT !.at = "writing", !.todo = Leaves]]
  /\ UNCHANGED <<sgcb, groups, sgAttr, seAttr, settings, edited>>

(* One attribute is written through the update path; the last one ends the  *)
(* load.                                                                    *)
WriteSetting(t) ==
  /\ sgThread[t].at = "writing"
  /\ \E l \in sgThread[t].todo :
       LET load == sgThread[t].load IN
       /\ IF load.buffer = "Active"
          THEN sgAttr' = [sgAttr EXCEPT ![l] = load.writes[l]] /\ UNCHANGED seAttr
          ELSE seAttr' = [seAttr EXCEPT ![l] = load.writes[l]] /\ UNCHANGED sgAttr
       /\ IF sgThread[t].todo = {l}
          THEN SgReturn(t) /\ loads' = SgNone
          ELSE /\ sgThread' = [sgThread EXCEPT ![t].todo = @ \ {l}]
               /\ UNCHANGED loads
  /\ UNCHANGED <<sgcb, groups, settings, edited>>

----------------------------------------------------------------------------
(* SelectActiveSG                                                           *)

(* A group out of range, or refused by the handler, is answered and changes *)
(* nothing; the application's force_active_sg asks no handler.              *)
SelectActiveSG(t) ==
  /\ sgThread[t].at = "idle"
  /\ \E g \in Groups :
       sgThread' = [sgThread EXCEPT ![t] = [@ EXCEPT !.at = "activate", !.group = g]]
  /\ UNCHANGED <<sgcb, groups, sgAttr, seAttr, settings, loads, edited>>

Activate(t) ==
  /\ sgThread[t].at = "activate" /\ settings = SgNone
  /\ sgcb' = [sgcb EXCEPT !.act = sgThread[t].group]
  /\ PrepareLoad(t, "Active", groups[sgThread[t].group])
  /\ UNCHANGED <<groups, sgAttr, seAttr, settings, loads, edited>>

----------------------------------------------------------------------------
(* SelectEditSG                                                             *)

EditSG(c) ==
  /\ sgThread[c].at = "idle"
  /\ \E g \in 0..NumOfSG :
       sgThread' = [sgThread EXCEPT ![c] = [@ EXCEPT !.at = "editExpire", !.group = g]]
  /\ UNCHANGED <<sgcb, groups, sgAttr, seAttr, settings, loads, edited>>

(* A session of another association refuses the request; group 0 cancels.   *)
EditCheck(c) ==
  /\ sgThread[c].at = "editCheck"
  /\ \/ /\ sgcb.owner \notin {c, SgNone}
        /\ SgReturn(c) /\ UNCHANGED sgcb
     \/ /\ sgcb.owner \in {c, SgNone} /\ sgThread[c].group > 0
        /\ Goto(c, "editHandler") /\ UNCHANGED sgcb
     \/ /\ sgcb.owner \in {c, SgNone} /\ sgThread[c].group = 0
        /\ SgReturn(c) /\ sgcb' = Closed(sgcb)
  /\ UNCHANGED <<groups, sgAttr, seAttr, settings, loads, edited>>

EditHandler(c) ==
  /\ sgThread[c].at = "editHandler"
  /\ SgReturn(c) \/ Goto(c, "editOpen")
  /\ UNCHANGED <<sgcb, groups, sgAttr, seAttr, settings, loads, edited>>

(* The first association past its handler takes the session.                *)
EditOpenBlind(c) ==
  /\ sgThread[c].at = "editOpen" /\ settings = SgNone
  /\ LET g == sgThread[c].group
         opened == [u \in SgThreads |-> [sgThread[u] EXCEPT !.current = FALSE]]
     IN /\ sgcb' = [sgcb EXCEPT !.edit = g, !.owner = c, !.due = FALSE]
        /\ edited' = groups[g]
        /\ sgThread' = [u \in SgThreads |->
             IF u = c THEN [SgIdle EXCEPT !.at = "load",
                 !.load = [buffer |-> "Edit", writes |-> groups[g], latest |-> TRUE]]
             ELSE IF opened[u].load.buffer = "Edit" THEN [opened[u] EXCEPT !.load.latest = FALSE]
             ELSE opened[u]]
  /\ UNCHANGED <<groups, sgAttr, seAttr, settings, loads>>
EditOpen(c) ==
  /\ sgThread[c].at = "editOpen" /\ settings = SgNone
  /\ \/ /\ sgcb.owner \notin {c, SgNone}
        /\ SgReturn(c)
        /\ UNCHANGED <<sgcb, groups, sgAttr, seAttr, settings, loads, edited>>
     \/ sgcb.owner \in {c, SgNone} /\ EditOpenBlind(c)

----------------------------------------------------------------------------
(* ConfirmEditSGValues                                                      *)

ConfirmEditSG(c) ==
  /\ sgThread[c].at = "idle"
  /\ Goto(c, "cnfExpire")
  /\ UNCHANGED <<sgcb, groups, sgAttr, seAttr, settings, loads, edited>>

ConfirmCheck(c) ==
  /\ sgThread[c].at = "cnfCheck"
  /\ IF sgcb.edit # 0 /\ sgcb.owner = c
     THEN sgThread' = [sgThread EXCEPT ![c] = [@ EXCEPT !.at = "cnfHandler", !.group = sgcb.edit, !.current = TRUE]]
     ELSE SgReturn(c)
  /\ UNCHANGED <<sgcb, groups, sgAttr, seAttr, settings, loads, edited>>

ConfirmHandler(c) ==
  /\ sgThread[c].at = "cnfHandler"
  /\ SgReturn(c) \/ Goto(c, "cnfCommit")
  /\ UNCHANGED <<sgcb, groups, sgAttr, seAttr, settings, loads, edited>>

(* Under the settings lock the session is compared again and closed.        *)
ConfirmCommit(c) ==
  /\ sgThread[c].at = "cnfCommit" /\ settings = SgNone
  /\ IF sgcb.edit = sgThread[c].group /\ sgcb.owner = c /\ sgThread[c].current
     THEN /\ sgcb' = Closed(sgcb)
          /\ settings' = c
          /\ sgThread' = [sgThread EXCEPT ![c] = [@ EXCEPT !.at = "cnfCopy", !.todo = Leaves]]
     ELSE SgReturn(c) /\ UNCHANGED <<sgcb, settings>>
  /\ UNCHANGED <<groups, sgAttr, seAttr, loads, edited>>

(* One FC=SE value is stored into the edited group; the last one gives the  *)
(* settings lock back and loads the group when it is active.                *)
ConfirmCopy(c) ==
  /\ sgThread[c].at = "cnfCopy"
  /\ \E l \in sgThread[c].todo :
       LET g == sgThread[c].group IN
       /\ groups' = [groups EXCEPT ![g][l] = seAttr[l]]
       /\ IF sgThread[c].todo # {l}
          THEN sgThread' = [sgThread EXCEPT ![c].todo = @ \ {l}] /\ UNCHANGED settings
          ELSE /\ settings' = SgNone
               /\ IF g = sgcb.act THEN PrepareLoad(c, "Active", groups'[g]) ELSE SgReturn(c)
  /\ UNCHANGED <<sgcb, sgAttr, seAttr, loads, edited>>

----------------------------------------------------------------------------
(* A write under functional constraint SE                                   *)

SeWrite(c) ==
  /\ sgThread[c].at = "idle"
  /\ \E l \in Leaves, v \in SgValues :
       sgThread' = [sgThread EXCEPT ![c] = [@ EXCEPT !.at = "seExpire", !.leaf = l, !.value = v]]
  /\ UNCHANGED <<sgcb, groups, sgAttr, seAttr, settings, loads, edited>>

(* edit_session_of admits the write to the session its association holds.   *)
SeAdmit(c) ==
  /\ sgThread[c].at = "seAdmit"
  /\ IF sgcb.edit > 0 /\ sgcb.owner = c
     THEN sgThread' = [sgThread EXCEPT ![c] = [@ EXCEPT !.at = "seStore", !.current = TRUE]]
     ELSE SgReturn(c)
  /\ UNCHANGED <<sgcb, groups, sgAttr, seAttr, settings, loads, edited>>

(* After the value checks and the handlers, which may refuse, the value is  *)
(* stored while hold_edit_session keeps the session.                        *)
SeStoreUnheld(c) ==
  /\ sgThread[c].at = "seStore"
  /\ SgReturn(c)
  /\ seAttr' = [seAttr EXCEPT ![sgThread[c].leaf] = sgThread[c].value]
  /\ edited' = IF IsCurrent(c) THEN [edited EXCEPT ![sgThread[c].leaf] = sgThread[c].value]
               ELSE edited
  /\ UNCHANGED <<sgcb, groups, sgAttr, settings, loads>>
SeStore(c) ==
  /\ sgThread[c].at = "seStore"
  /\ SgReturn(c)
  /\ \/ UNCHANGED <<seAttr, edited>>
     \/ /\ IsCurrent(c)
        /\ seAttr' = [seAttr EXCEPT ![sgThread[c].leaf] = sgThread[c].value]
        /\ edited' = [edited EXCEPT ![sgThread[c].leaf] = sgThread[c].value]
  /\ UNCHANGED <<sgcb, groups, sgAttr, settings, loads>>

----------------------------------------------------------------------------
(* set_group_value of the application                                       *)

SetGroupValue(t) ==
  /\ sgThread[t].at = "idle" /\ settings = SgNone
  /\ \E g \in Groups, l \in Leaves, v \in SgValues :
       /\ groups' = [groups EXCEPT ![g][l] = v]
       /\ IF g = sgcb.act THEN PrepareLoad(t, "Active", groups'[g]) ELSE UNCHANGED sgThread
  /\ UNCHANGED <<sgcb, sgAttr, seAttr, settings, loads, edited>>

----------------------------------------------------------------------------
SgRequest(c) ==
  \/ EditSG(c) \/ ConfirmEditSG(c) \/ SeWrite(c)

SgStep(t) ==
  \/ Activate(t) \/ RunLoad(t) \/ WriteSetting(t)

SgConnStep(c) ==
  \/ ExpireStale(c)
  \/ EditCheck(c) \/ EditHandler(c) \/ EditOpen(c)
  \/ ConfirmCheck(c) \/ ConfirmHandler(c) \/ ConfirmCommit(c) \/ ConfirmCopy(c)
  \/ SeAdmit(c) \/ SeStore(c)

SgNext ==
  \/ ReservationElapses \/ TickReservation
  \/ \E t \in SgThreads : SelectActiveSG(t) \/ SgStep(t)
  \/ \E c \in SgConns : SgRequest(c) \/ SgConnStep(c) \/ ReleaseForConn(c)
  \/ SetGroupValue(SgApp)

SgSpec == SgInit /\ [][SgNext]_sgVars

----------------------------------------------------------------------------
(* The types of the variables; an edited group has an owner and a deadline  *)
(* exactly while a session is open.                                         *)
SgTypeOK ==
  /\ sgcb \in [act: Groups, edit: 0..NumOfSG, owner: SgConns \cup {SgNone}, due: BOOLEAN]
  /\ (sgcb.edit = 0) <=> (sgcb.owner = SgNone)
  /\ sgcb.due => sgcb.owner # SgNone
  /\ groups \in [Groups -> Buffering]
  /\ sgAttr \in Buffering /\ seAttr \in Buffering /\ edited \in Buffering
  /\ settings \in SgConns \cup {SgNone} /\ loads \in SgThreads \cup {SgNone}
  /\ sgThread \in [SgThreads ->
       [at: SgAt, group: 0..NumOfSG, leaf: Leaves \cup {SgNone}, value: SgValues \cup {SgNone},
        current: BOOLEAN, load: LoadType, todo: SUBSET Leaves]]

(* While the owner of the open session is past the request that opened it,  *)
(* the edit buffer holds the values of the group as they were loaded and    *)
(* the writes of this session, and nothing of an earlier session or load;   *)
(* and ConfirmEditSGValues copies exactly that, even when the session ends  *)
(* under it.                                                                *)
EditBufferIsSession ==
  /\ sgcb.owner # SgNone /\ sgThread[sgcb.owner].at \notin {"load", "writing"} => seAttr = edited
  /\ \A c \in SgConns : sgThread[c].at = "cnfCopy" => seAttr = edited

(* The FC=SG attributes end at the values of the active group: they differ  *)
(* only while a load of the active buffer that has not been overtaken is on *)
(* its way.                                                                 *)
ActiveBufferLoaded ==
  \/ sgAttr = groups[sgcb.act]
  \/ \E t \in SgThreads : sgThread[t].load.buffer = "Active" /\ sgThread[t].load.latest
  \/ \E c \in SgConns : sgThread[c].at = "cnfCopy"

=============================================================================
