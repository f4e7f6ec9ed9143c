------------------------ MODULE SettingGroupsProofs ------------------------
(***************************************************************************)
(* Proofs about SettingGroups: however many associations, groups and       *)
(* settings there are, and wherever the sections of their requests         *)
(* interleave, the edit buffer is that of the open session and the active  *)
(* buffer ends at the values of the active group.                          *)
(***************************************************************************)
EXTENDS SettingGroups, TLAPS

(* The values a thread still needs where it stands. *)
Placed ==
  \A t \in SgThreads :
    LET th == sgThread[t] IN
    /\ th.at \in {"load", "writing"} <=> th.load.buffer # "none"
    /\ th.at \in {"activate", "editHandler", "editOpen"} => th.group \in Groups
    /\ th.at \in {"seExpire", "seAdmit", "seStore"} => th.leaf \in Leaves /\ th.value \in SgValues

(* Who holds the loads lock and the settings lock; a session is closed      *)
(* before its values are copied, and none opens under the settings lock.    *)
Locked ==
  /\ \A t \in SgThreads : sgThread[t].at = "writing" <=> loads = t
  /\ \A c \in SgConns : sgThread[c].at = "cnfCopy" <=> settings = c
  /\ sgThread[SgApp].at # "cnfCopy"
  /\ settings # SgNone => sgcb.owner = SgNone

Latest(t, b) == sgThread[t].load.buffer = b /\ sgThread[t].load.latest
Writing(t, b) == sgThread[t].load.buffer = b /\ sgThread[t].at = "writing"

(* The latest load of each buffer is one. *)
OneLatest ==
  \A t, u \in SgThreads :
    /\ Latest(t, "Edit") /\ Latest(u, "Edit") => t = u
    /\ Latest(t, "Active") /\ Latest(u, "Active") => t = u

(* The latest load of the edit buffer is that of the open session, or of    *)
(* one that ended; while the owner is loading, the load brings the values   *)
(* of the session; after it, and while they are copied, nobody else is      *)
(* writing the edit buffer.                                                 *)
EditLoads ==
  /\ \A t \in SgThreads : Latest(t, "Edit") => sgcb.owner \in {t, SgNone} /\ settings = SgNone
  /\ sgcb.owner # SgNone /\ sgThread[sgcb.owner].load.buffer = "Edit" =>
       LET th == sgThread[sgcb.owner] IN
       /\ th.load.latest
       /\ th.load.writes = edited
       /\ th.at = "writing" => \A l \in Leaves \ th.todo : seAttr[l] = edited[l]
  /\ (sgcb.owner # SgNone /\ sgThread[sgcb.owner].load.buffer # "Edit") \/ settings # SgNone =>
       seAttr = edited /\ \A t \in SgThreads : ~Writing(t, "Edit")

(* The values of group g are being replaced by those of a session. *)
Copying(g) == \E c \in SgConns : sgThread[c].at = "cnfCopy" /\ sgThread[c].group = g

(* The latest load of the active buffer brings the values of the active     *)
(* group, unless they are just being replaced; without one, the active      *)
(* buffer holds them and nobody writes it.                                  *)
ActiveLoads ==
  /\ \A t \in SgThreads : Latest(t, "Active") =>
       LET th == sgThread[t] IN
       /\ th.load.writes = groups[sgcb.act] \/ Copying(sgcb.act)
       /\ th.at = "writing" => \A l \in Leaves \ th.todo : sgAttr[l] = th.load.writes[l]
  /\ (\A t \in SgThreads : ~Latest(t, "Active")) =>
       /\ \A t \in SgThreads : ~Writing(t, "Active")
       /\ sgAttr = groups[sgcb.act] \/ Copying(sgcb.act)

SgInv == SgTypeOK /\ Placed /\ Locked /\ OneLatest /\ EditLoads /\ ActiveLoads

-----------------------------------------------------------------------------
(* What a thread is doing. *)
Thread ==
  [at: SgAt, group: 0..NumOfSG, leaf: Leaves \cup {SgNone}, value: SgValues \cup {SgNone},
   current: BOOLEAN, load: LoadType, todo: SUBSET Leaves]

(* The places where a thread holds a lock or has a load.                    *)
Busy == {"load", "writing", "cnfCopy"}

(* The values thread record th needs where it stands. *)
PlacedRecord(th) ==
  /\ th.at \in {"load", "writing"} <=> th.load.buffer # "none"
  /\ th.at \in {"activate", "editHandler", "editOpen"} => th.group \in Groups
  /\ th.at \in {"seExpire", "seAdmit", "seStore"} => th.leaf \in Leaves /\ th.value \in SgValues

(* No load and an idle thread are of their types. *)
LEMMA IdleTypes ==
  /\ NoLoad \in LoadType /\ NoLoad.buffer = "none" /\ ~NoLoad.latest
  /\ SgIdle \in Thread /\ SgIdle.at = "idle" /\ SgIdle.load = NoLoad
  /\ PlacedRecord(SgIdle)
<1>1. NoLoad \in LoadType /\ NoLoad.buffer = "none" /\ ~NoLoad.latest
  BY DEF NoLoad, LoadType
<1>2. SgIdle \in Thread /\ SgIdle.at = "idle" /\ SgIdle.load = NoLoad
  BY <1>1, SgAssumption DEF SgIdle, Thread, SgAt
<1> QED BY <1>1, <1>2 DEF PlacedRecord

(* A step that moves threads between places without a lock and a load, that *)
(* ends or renews a session, or that drops a load which was overtaken.      *)
LEMMA QuietStep ==
  ASSUME SgInv, SgTypeOK',
         UNCHANGED <<groups, sgAttr, seAttr, settings, loads, edited>>,
         sgcb'.act = sgcb.act, sgcb'.owner \in {sgcb.owner, SgNone},
         \A t \in SgThreads :
           \/ sgThread'[t] = sgThread[t]
           \/ /\ sgThread[t].at \notin {"writing", "cnfCopy"} /\ ~sgThread[t].load.latest
              /\ sgThread'[t].at \notin Busy /\ sgThread'[t].load = NoLoad
              /\ PlacedRecord(sgThread'[t])
  PROVE SgInv'
<1> USE IdleTypes
<1>1. Placed'
  BY DEF SgInv, Placed, PlacedRecord
<1>2. Locked'
  BY DEF SgInv, Locked, Busy, SgThreads
<1>3. \A t \in SgThreads, b \in {"Edit", "Active"} :
        /\ Latest(t, b)' => Latest(t, b) /\ sgThread'[t] = sgThread[t]
        /\ Latest(t, b) => Latest(t, b)'
        /\ Writing(t, b)' => Writing(t, b)
  BY DEF Latest, Writing, Busy
<1>4. OneLatest'
  BY <1>3 DEF SgInv, OneLatest
<1>5. EditLoads'
  <2>1. \A t \in SgThreads : Latest(t, "Edit")' => sgcb'.owner \in {t, SgNone} /\ settings' = SgNone
    BY <1>3 DEF SgInv, EditLoads
  <2>2. ASSUME sgcb'.owner # SgNone PROVE sgcb'.owner = sgcb.owner /\ sgcb.owner \in SgThreads
    BY <2>2 DEF SgInv, SgTypeOK, SgThreads
  <2>3. ASSUME sgcb'.owner # SgNone, sgThread'[sgcb'.owner].load.buffer = "Edit"
        PROVE  sgThread'[sgcb.owner] = sgThread[sgcb.owner]
    BY <2>2, <2>3
  <2>4. ASSUME sgcb'.owner # SgNone, sgThread'[sgcb'.owner].load.buffer # "Edit"
        PROVE  sgThread[sgcb.owner].load.buffer # "Edit"
    <3>1. ASSUME sgThread[sgcb.owner].load.buffer = "Edit" PROVE sgThread[sgcb.owner].load.latest
      BY <2>2, <2>4, <3>1 DEF SgInv, EditLoads
    <3> QED BY <2>2, <2>4, <3>1
  <2> QED BY <1>3, <2>1, <2>2, <2>3, <2>4 DEF SgInv, EditLoads
<1>6. Copying(sgcb.act) => Copying(sgcb.act)'
  BY DEF Copying, SgThreads
<1>7. ActiveLoads'
  <2>1. ASSUME NEW t \in SgThreads, Latest(t, "Active")'
        PROVE  /\ sgThread'[t].load.writes = groups'[sgcb'.act] \/ Copying(sgcb.act)'
               /\ sgThread'[t].at = "writing" =>
                    \A l \in Leaves \ sgThread'[t].todo : sgAttr'[l] = sgThread'[t].load.writes[l]
    BY <1>3, <1>6, <2>1 DEF SgInv, ActiveLoads
  <2>2. ASSUME \A t \in SgThreads : ~Latest(t, "Active")'
        PROVE  /\ \A t \in SgThreads : ~Writing(t, "Active")'
               /\ sgAttr' = groups'[sgcb'.act] \/ Copying(sgcb.act)'
    BY <1>3, <1>6, <2>2 DEF SgInv, ActiveLoads
  <2> QED BY <2>1, <2>2 DEF ActiveLoads
<1> QED BY <1>1, <1>2, <1>4, <1>5, <1>7 DEF SgInv

-----------------------------------------------------------------------------
(* Thread t has prepared a load of buffer b with the values v: it is the    *)
(* latest one, and every other load of that buffer is overtaken.            *)
Overtakes(t, b, v) ==
  /\ sgThread' \in [SgThreads -> Thread]
  /\ sgThread'[t].at = "load"
  /\ sgThread'[t].load = [buffer |-> b, writes |-> v, latest |-> TRUE]
  /\ \A u \in SgThreads \ {t} :
       /\ sgThread'[u].at = sgThread[u].at /\ sgThread'[u].group = sgThread[u].group
       /\ sgThread'[u].leaf = sgThread[u].leaf /\ sgThread'[u].value = sgThread[u].value
       /\ sgThread'[u].todo = sgThread[u].todo
       /\ sgThread'[u].load.buffer = sgThread[u].load.buffer
       /\ sgThread'[u].load.writes = sgThread[u].load.writes
       /\ sgThread'[u].load.latest <=> sgThread[u].load.latest /\ sgThread[u].load.buffer # b

(* A thread whose load has been overtaken is a thread. *)
LEMMA OvertakenType ==
  ASSUME NEW th \in Thread, th.load.buffer # "none"
  PROVE [th EXCEPT !.load.latest = FALSE] \in Thread
<1>1. th.load \in [buffer: {"Active", "Edit"}, writes: Buffering, latest: BOOLEAN]
  BY IdleTypes DEF Thread, LoadType
<1>2. [th.load EXCEPT !.latest = FALSE] \in LoadType
  BY <1>1, Zenon DEF LoadType
<1> QED BY <1>2, Zenon DEF Thread

(* prepare_load() overtakes. *)
LEMMA PrepareOvertakes ==
  ASSUME SgTypeOK, NEW t \in SgThreads, NEW b \in {"Active", "Edit"}, NEW v \in Buffering,
         PrepareLoad(t, b, v)
  PROVE Overtakes(t, b, v)
<1> DEFINE new == [buffer |-> b, writes |-> v, latest |-> TRUE]
           mine == [SgIdle EXCEPT !.at = "load", !.load = new]
<1>1. new \in LoadType
  BY DEF LoadType
<1>2. mine \in Thread /\ mine.at = "load" /\ mine.load = new
  BY <1>1, IdleTypes, Zenon DEF Thread, SgAt
<1>3. sgThread \in [SgThreads -> Thread]
  BY DEF SgTypeOK, Thread
<1>4. sgThread' = [u \in SgThreads |->
                     IF u = t THEN mine
                     ELSE IF sgThread[u].load.buffer = b THEN [sgThread[u] EXCEPT !.load.latest = FALSE]
                     ELSE sgThread[u]]
  BY DEF PrepareLoad
<1>5. ASSUME NEW u \in SgThreads \ {t}, sgThread[u].load.buffer = b
      PROVE  /\ sgThread'[u] = [sgThread[u] EXCEPT !.load.latest = FALSE]
             /\ sgThread'[u] \in Thread
  BY <1>3, <1>4, <1>5, OvertakenType
<1>6. ASSUME NEW u \in SgThreads \ {t}, sgThread[u].load.buffer # b
      PROVE  sgThread'[u] = sgThread[u]
  BY <1>4, <1>6
<1>7. sgThread'[t] = mine
  BY <1>4
<1>8. sgThread' \in [SgThreads -> Thread]
  BY <1>2, <1>3, <1>4, <1>5, <1>6, <1>7
<1>9. ASSUME NEW u \in SgThreads \ {t}
      PROVE  /\ sgThread'[u].at = sgThread[u].at /\ sgThread'[u].group = sgThread[u].group
             /\ sgThread'[u].leaf = sgThread[u].leaf /\ sgThread'[u].value = sgThread[u].value
             /\ sgThread'[u].todo = sgThread[u].todo
             /\ sgThread'[u].load.buffer = sgThread[u].load.buffer
             /\ sgThread'[u].load.writes = sgThread[u].load.writes
             /\ sgThread'[u].load.latest <=> sgThread[u].load.latest /\ sgThread[u].load.buffer # b
  <2>1. sgThread[u] \in Thread BY <1>3
  <2>2. CASE sgThread[u].load.buffer = b
    <3>1. sgThread[u].load \in [buffer: {"Active", "Edit"}, writes: Buffering, latest: BOOLEAN]
      BY <2>1, <2>2, IdleTypes DEF Thread, LoadType
    <3>2. sgThread'[u].load = [sgThread[u].load EXCEPT !.latest = FALSE]
      BY <1>5, <2>1, <2>2, Zenon DEF Thread
    <3>3. ~sgThread'[u].load.latest
      BY <3>1, <3>2
    <3>4. /\ sgThread'[u].load.buffer = sgThread[u].load.buffer
          /\ sgThread'[u].load.writes = sgThread[u].load.writes
      BY <3>1, <3>2
    <3> QED BY <1>5, <2>1, <2>2, <3>3, <3>4, Zenon DEF Thread
  <2>3. CASE sgThread[u].load.buffer # b
    BY <1>6, <2>3
  <2> QED BY <2>2, <2>3
<1> QED BY <1>2, <1>7, <1>8, <1>9 DEF Overtakes

(* A load of the active group's values, prepared by a thread that held no   *)
(* load and gave back the settings lock if it had it.                       *)
LEMMA ActiveLoadPrepared ==
  ASSUME SgInv, SgTypeOK', NEW t \in SgThreads, Overtakes(t, "Active", groups'[sgcb'.act]),
         sgThread[t].at \notin {"load", "writing"},
         UNCHANGED <<sgAttr, seAttr, loads, edited>>,
         sgcb'.owner = sgcb.owner,
         settings' = IF sgThread[t].at = "cnfCopy" THEN SgNone ELSE settings
  PROVE SgInv'
<1>1. sgThread[t].load.buffer = "none" /\ (sgThread[t].at = "cnfCopy" => settings = t)
  BY DEF SgInv, Placed, Locked, SgThreads
<1>2. Placed'
  BY DEF SgInv, Placed, Overtakes
<1>3. Locked'
  BY <1>1, SgAssumption DEF SgInv, Locked, Overtakes, SgThreads
<1>4. \A u \in SgThreads :
        /\ Latest(u, "Edit")' <=> Latest(u, "Edit")
        /\ Latest(u, "Active")' <=> u = t
        /\ Writing(u, "Edit")' <=> Writing(u, "Edit")
  BY <1>1 DEF Latest, Writing, Overtakes
<1>5. OneLatest'
  BY <1>4 DEF SgInv, OneLatest
<1>6. settings' # SgNone => settings' = settings
  OBVIOUS
<1>7. settings = SgNone => settings' = SgNone
  OBVIOUS
<1>8. EditLoads'
  <2>1. \A u \in SgThreads : Latest(u, "Edit")' => sgcb'.owner \in {u, SgNone} /\ settings' = SgNone
    BY <1>4, <1>7 DEF SgInv, EditLoads
  <2>2. sgcb.owner # SgNone => sgcb.owner \in SgThreads
    BY DEF SgInv, SgTypeOK, SgThreads
  <2>3. ASSUME sgcb'.owner # SgNone, sgThread'[sgcb'.owner].load.buffer = "Edit"
        PROVE  LET th == sgThread'[sgcb'.owner] IN
               /\ th.load.latest
               /\ th.load.writes = edited'
               /\ th.at = "writing" => \A l \in Leaves \ th.todo : seAttr'[l] = edited'[l]
    <3>1. sgcb.owner # t
      BY <2>3 DEF Overtakes
    <3> QED BY <2>2, <2>3, <3>1 DEF SgInv, EditLoads, Overtakes
  <2>4. ASSUME (sgcb'.owner # SgNone /\ sgThread'[sgcb'.owner].load.buffer # "Edit") \/ settings' # SgNone
        PROVE  seAttr' = edited' /\ \A u \in SgThreads : ~Writing(u, "Edit")'
    <3>1. (sgcb.owner # SgNone /\ sgThread[sgcb.owner].load.buffer # "Edit") \/ settings # SgNone
      BY <1>1, <1>6, <2>2, <2>4 DEF Overtakes
    <3> QED BY <1>4, <3>1 DEF SgInv, EditLoads
  <2> QED BY <2>1, <2>3, <2>4 DEF EditLoads
<1>9. ActiveLoads'
  <2>1. sgThread'[t].load.writes = groups'[sgcb'.act] /\ sgThread'[t].at = "load"
    BY DEF Overtakes
  <2> QED BY <1>4, <2>1 DEF ActiveLoads
<1> QED BY <1>2, <1>3, <1>5, <1>8, <1>9 DEF SgInv

-----------------------------------------------------------------------------
(* Ending a session. *)
LEMMA ClosedEffect ==
  ASSUME SgTypeOK
  PROVE LET s == Closed(sgcb) IN
        /\ s \in [act: Groups, edit: 0..NumOfSG, owner: SgConns \cup {SgNone}, due: BOOLEAN]
        /\ s.act = sgcb.act /\ s.edit = 0 /\ s.owner = SgNone /\ ~s.due
<1>1. 0 \in 0..NumOfSG
  BY SgAssumption
<1> QED BY <1>1, Zenon DEF Closed, SgTypeOK

(* What is left of the block when its session may have ended. *)
Ended ==
  /\ sgcb' \in [act: Groups, edit: 0..NumOfSG, owner: SgConns \cup {SgNone}, due: BOOLEAN]
  /\ (sgcb'.edit = 0) <=> (sgcb'.owner = SgNone)
  /\ sgcb'.due => sgcb'.owner # SgNone
  /\ sgcb'.act = sgcb.act /\ sgcb'.owner \in {sgcb.owner, SgNone}

LEMMA EndedWhen ==
  ASSUME SgTypeOK, sgcb' = sgcb \/ sgcb' = Closed(sgcb) \/ sgcb' = Expired(sgcb)
  PROVE Ended
<1>1. CASE sgcb' = sgcb
  BY <1>1 DEF Ended, SgTypeOK
<1>2. CASE sgcb' = Closed(sgcb)
  BY <1>2, ClosedEffect DEF Ended
<1>3. CASE sgcb' = Expired(sgcb)
  BY <1>1, <1>2, <1>3 DEF Expired
<1> QED BY <1>1, <1>2, <1>3

(* A step of one thread that takes no lock, gives none back and has no load. *)
LEMMA ThreadMoves ==
  ASSUME SgInv, NEW t \in SgThreads, NEW th \in Thread,
         sgThread' = [sgThread EXCEPT ![t] = th],
         sgThread[t].at \notin {"writing", "cnfCopy"}, ~sgThread[t].load.latest,
         th.at \notin Busy, th.load = NoLoad, PlacedRecord(th), Ended,
         UNCHANGED <<groups, sgAttr, seAttr, settings, loads, edited>>
  PROVE SgInv'
<1>1. sgThread \in [SgThreads -> Thread] /\ sgThread' \in [SgThreads -> Thread]
  BY DEF SgInv, SgTypeOK, Thread
<1>2. SgTypeOK'
  BY <1>1 DEF SgInv, SgTypeOK, Thread, Ended
<1>3. \A u \in SgThreads : sgThread'[u] = IF u = t THEN th ELSE sgThread[u]
  BY <1>1
<1> QED BY <1>2, <1>3, QuietStep DEF Ended

(* A step of one thread between two places without a lock and a load. *)
LEMMA ThreadGoes ==
  ASSUME SgInv, NEW t \in SgThreads, NEW th \in Thread,
         sgThread' = [sgThread EXCEPT ![t] = th],
         sgThread[t].at \notin Busy, th.at \notin Busy, th.load = sgThread[t].load,
         th.at \in {"activate", "editHandler", "editOpen"} => th.group \in Groups,
         th.at \in {"seExpire", "seAdmit", "seStore"} => th.leaf \in Leaves /\ th.value \in SgValues,
         Ended, UNCHANGED <<groups, sgAttr, seAttr, settings, loads, edited>>
  PROVE SgInv'
<1>1. sgThread[t].load \in LoadType /\ sgThread[t].load.buffer = "none"
  BY DEF SgInv, SgTypeOK, Placed, Busy
<1>2. sgThread[t].load = NoLoad
  BY <1>1 DEF LoadType
<1>3. PlacedRecord(th)
  BY <1>2, IdleTypes DEF PlacedRecord, Busy
<1>4. sgThread[t].at \notin {"writing", "cnfCopy"} /\ ~sgThread[t].load.latest
  BY <1>2, IdleTypes DEF Busy
<1> QED BY <1>2, <1>3, <1>4, ThreadMoves, Zenon

(* ... that keeps what it holds. *)
LEMMA GotoMoves ==
  ASSUME SgInv, NEW t \in SgThreads, NEW place \in SgAt \ Busy, Goto(t, place),
         sgThread[t].at \notin Busy,
         place \in {"activate", "editHandler", "editOpen"} => sgThread[t].group \in Groups,
         place \in {"seExpire", "seAdmit", "seStore"} =>
           sgThread[t].leaf \in Leaves /\ sgThread[t].value \in SgValues,
         Ended, UNCHANGED <<groups, sgAttr, seAttr, settings, loads, edited>>
  PROVE SgInv'
<1> DEFINE th == [sgThread[t] EXCEPT !.at = place]
<1>1. sgThread[t] \in Thread
  BY DEF SgInv, SgTypeOK, Thread
<1>2. /\ th \in Thread /\ th.at = place /\ th.load = sgThread[t].load
      /\ th.group = sgThread[t].group /\ th.leaf = sgThread[t].leaf /\ th.value = sgThread[t].value
  BY <1>1 DEF Thread
<1>3. sgThread' = [sgThread EXCEPT ![t] = th]
  BY DEF Goto
<1> HIDE DEF th
<1> QED BY <1>2, <1>3, ThreadGoes, Zenon

(* The step of a thread that returns. *)
LEMMA ReturnMoves ==
  ASSUME SgInv, NEW t \in SgThreads, SgReturn(t),
         sgThread[t].at \notin {"writing", "cnfCopy"}, ~sgThread[t].load.latest,
         Ended, UNCHANGED <<groups, sgAttr, seAttr, settings, loads, edited>>
  PROVE SgInv'
BY IdleTypes, ThreadMoves, Zenon DEF SgReturn, Busy

-----------------------------------------------------------------------------
(* The steps that move values. *)

(* The latest load takes the loads lock. *)
LEMMA LoadStarts ==
  ASSUME SgInv, NEW t \in SgThreads, sgThread[t].at = "load", loads = SgNone,
         sgThread[t].load.latest, loads' = t,
         sgThread' = [sgThread EXCEPT ![t] = [@ EXCEPT !.at = "writing", !.todo = Leaves]],
         UNCHANGED <<sgcb, groups, sgAttr, seAttr, settings, edited>>
  PROVE SgInv'
<1>1. sgThread \in [SgThreads -> Thread]
  BY DEF SgInv, SgTypeOK, Thread
<1>2. sgThread' \in [SgThreads -> Thread]
  <2>1. ASSUME NEW th \in Thread PROVE [th EXCEPT !.at = "writing", !.todo = Leaves] \in Thread
    BY Zenon DEF Thread, SgAt
  <2> QED BY <1>1, <2>1, Zenon
<1>3. /\ sgThread'[t].at = "writing" /\ sgThread'[t].todo = Leaves /\ sgThread'[t].load = sgThread[t].load
      /\ \A u \in SgThreads \ {t} : sgThread'[u] = sgThread[u]
  BY <1>1 DEF Thread
<1>4. SgTypeOK'
  BY <1>2 DEF SgInv, SgTypeOK, Thread
<1>5. Placed'
  BY <1>3 DEF SgInv, Placed
<1>6. Locked'
  BY <1>3, SgAssumption DEF SgInv, Locked, SgThreads
<1>7. \A u \in SgThreads, b \in {"Edit", "Active"} :
        /\ Latest(u, b)' <=> Latest(u, b)
        /\ Writing(u, b)' => Latest(u, b) /\ u = t
  <2>1. \A u \in SgThreads : sgThread[u].at # "writing"
    BY SgAssumption DEF SgInv, Locked, SgThreads
  <2> QED BY <1>3, <2>1 DEF Latest, Writing
<1>8. OneLatest'
  BY <1>7 DEF SgInv, OneLatest
<1>9. EditLoads'
  <2>1. sgcb.owner # SgNone => sgcb.owner \in SgThreads
    BY DEF SgInv, SgTypeOK, SgThreads
  <2>2. \A u \in SgThreads : Writing(u, "Edit")' => sgcb.owner \in {u, SgNone} /\ settings = SgNone
    BY <1>7 DEF SgInv, EditLoads
  <2>3. \A u \in SgThreads : Writing(u, "Edit")' => sgThread[u].load.buffer = "Edit"
    BY <1>7 DEF Latest
  <2>4. \A u \in SgThreads : sgThread'[u].load = sgThread[u].load
    BY <1>3
  <2>5. ASSUME (sgcb.owner # SgNone /\ sgThread[sgcb.owner].load.buffer # "Edit") \/ settings # SgNone
        PROVE  seAttr = edited /\ \A u \in SgThreads : ~Writing(u, "Edit")'
    BY <2>1, <2>2, <2>3, <2>5 DEF SgInv, EditLoads
  <2>6. ASSUME sgcb.owner # SgNone, sgThread[sgcb.owner].load.buffer = "Edit"
        PROVE  /\ sgThread[sgcb.owner].load.latest
               /\ sgThread[sgcb.owner].load.writes = edited
               /\ sgThread'[sgcb.owner].at = "writing" =>
                    \A l \in Leaves \ sgThread'[sgcb.owner].todo : seAttr[l] = edited[l]
    BY <1>3, <2>1, <2>6 DEF SgInv, EditLoads
  <2> QED BY <1>7, <2>1, <2>4, <2>5, <2>6 DEF SgInv, EditLoads
<1>10. Copying(sgcb.act) => Copying(sgcb.act)'
  BY <1>3 DEF Copying, SgThreads
<1>11. ActiveLoads'
  <2>1. ASSUME NEW u \in SgThreads, Latest(u, "Active")'
        PROVE  /\ sgThread'[u].load.writes = groups'[sgcb'.act] \/ Copying(sgcb.act)'
               /\ sgThread'[u].at = "writing" =>
                    \A l \in Leaves \ sgThread'[u].todo : sgAttr'[l] = sgThread'[u].load.writes[l]
    BY <1>3, <1>7, <1>10, <2>1 DEF SgInv, ActiveLoads
  <2>2. ASSUME \A u \in SgThreads : ~Latest(u, "Active")'
        PROVE  /\ \A u \in SgThreads : ~Writing(u, "Active")'
               /\ sgAttr' = groups'[sgcb'.act] \/ Copying(sgcb.act)'
    BY <1>7, <1>10, <2>2 DEF SgInv, ActiveLoads
  <2> QED BY <2>1, <2>2 DEF ActiveLoads
<1> QED BY <1>4, <1>5, <1>6, <1>8, <1>9, <1>11 DEF SgInv

(* One value is written; with the last one the loads lock is given back. *)
LEMMA ValueWritten ==
  ASSUME SgInv, NEW t \in SgThreads, WriteSetting(t)
  PROVE SgInv'
<1> DEFINE load == sgThread[t].load
<1>1. sgThread[t].at = "writing" /\ UNCHANGED <<sgcb, groups, settings, edited>>
  BY DEF WriteSetting
<1>2. PICK l \in sgThread[t].todo :
        /\ IF load.buffer = "Active"
           THEN sgAttr' = [sgAttr EXCEPT ![l] = load.writes[l]] /\ UNCHANGED seAttr
           ELSE seAttr' = [seAttr EXCEPT ![l] = load.writes[l]] /\ UNCHANGED sgAttr
        /\ IF sgThread[t].todo = {l}
           THEN SgReturn(t) /\ loads' = SgNone
           ELSE /\ sgThread' = [sgThread EXCEPT ![t].todo = @ \ {l}]
                /\ UNCHANGED loads
  BY DEF WriteSetting
<1>3. sgThread \in [SgThreads -> Thread]
  BY DEF SgInv, SgTypeOK, Thread
<1>4. load \in [buffer: {"Active", "Edit"}, writes: Buffering, latest: BOOLEAN]
  <2>1. load \in LoadType /\ load.buffer # "none"
    BY <1>1, <1>3 DEF SgInv, Placed, Thread
  <2> QED BY <2>1, IdleTypes DEF LoadType
<1>5. l \in Leaves /\ sgThread[t].todo \subseteq Leaves
  BY <1>3 DEF Thread
<1>6. \A u \in SgThreads \ {t} : sgThread[u].at # "writing"
  BY <1>1 DEF SgInv, Locked
<1>7. /\ \A u \in SgThreads \ {t} : sgThread'[u] = sgThread[u]
      /\ sgThread' \in [SgThreads -> Thread]
      /\ sgThread[t].todo = {l} => sgThread'[t] = SgIdle /\ loads' = SgNone
      /\ sgThread[t].todo # {l} => /\ sgThread'[t].at = "writing" /\ sgThread'[t].load = load
                                   /\ sgThread'[t].todo = sgThread[t].todo \ {l} /\ loads' = loads
  <2>1. CASE sgThread[t].todo = {l}
    BY <1>2, <1>3, <2>1, IdleTypes DEF SgReturn
  <2>2. CASE sgThread[t].todo # {l}
    <3>1. sgThread[t] \in Thread
      BY <1>3
    <3>2. [sgThread[t] EXCEPT !.todo = @ \ {l}] \in Thread
      BY <3>1 DEF Thread
    <3> QED BY <1>1, <1>2, <1>3, <2>2, <3>1, <3>2 DEF Thread
  <2> QED BY <2>1, <2>2
<1>8. /\ sgAttr \in Buffering /\ seAttr \in Buffering /\ sgAttr' \in Buffering /\ seAttr' \in Buffering
  <2>1. sgAttr \in Buffering /\ seAttr \in Buffering
    BY DEF SgInv, SgTypeOK
  <2>2. load.writes \in Buffering
    BY <1>4
  <2>3. ASSUME NEW attr \in Buffering PROVE [attr EXCEPT ![l] = load.writes[l]] \in Buffering
    BY <1>5, <2>2 DEF Buffering
  <2> HIDE DEF load
  <2> QED BY <1>2, <2>1, <2>3
<1>9. SgTypeOK'
  BY <1>1, <1>7, <1>8 DEF SgInv, SgTypeOK, Thread
<1>10. Placed'
  BY <1>1, <1>4, <1>7, IdleTypes DEF SgInv, Placed
<1>11. Locked'
  BY <1>1, <1>6, <1>7, IdleTypes, SgAssumption DEF SgInv, Locked, SgThreads
<1>12. \A u \in SgThreads, b \in {"Edit", "Active"} :
         /\ Latest(u, b)' => Latest(u, b)
         /\ Latest(u, b) /\ u # t => Latest(u, b)'
         /\ Writing(u, b)' => u = t /\ Writing(t, b) /\ sgThread[t].todo # {l}
  BY <1>1, <1>6, <1>7, IdleTypes DEF Latest, Writing
<1>13. OneLatest'
  BY <1>12 DEF SgInv, OneLatest
<1>14. Copying(sgcb.act) => Copying(sgcb.act)'
  BY <1>1, <1>7 DEF Copying, SgThreads
<1>15. CASE load.buffer = "Active"
  <2>1. sgAttr' = [sgAttr EXCEPT ![l] = load.writes[l]] /\ seAttr' = seAttr
    BY <1>2, <1>15
  <2>2. EditLoads'
    <3>1. sgcb.owner # SgNone => sgcb.owner \in SgThreads
      BY DEF SgInv, SgTypeOK, SgThreads
    <3>2. sgcb.owner # SgNone =>
            \/ sgThread'[sgcb.owner] = sgThread[sgcb.owner]
            \/ sgThread'[sgcb.owner].load.buffer # "Edit" /\ sgThread[sgcb.owner].load.buffer # "Edit"
      BY <1>7, <1>15, <3>1, IdleTypes
    <3>3. \A u \in SgThreads : Writing(u, "Edit")' => Writing(u, "Edit")
      BY <1>12
    <3> QED BY <1>1, <1>12, <2>1, <3>2, <3>3 DEF SgInv, EditLoads
  <2>3. ASSUME NEW u \in SgThreads, Latest(u, "Active")'
        PROVE  /\ sgThread'[u].load.writes = groups'[sgcb'.act] \/ Copying(sgcb.act)'
               /\ sgThread'[u].at = "writing" =>
                    \A m \in Leaves \ sgThread'[u].todo : sgAttr'[m] = sgThread'[u].load.writes[m]
    <3>1. Latest(u, "Active")
      BY <1>12, <2>3
    <3>2. /\ sgThread[u].load.writes = groups[sgcb.act] \/ Copying(sgcb.act)
          /\ sgThread[u].at = "writing" =>
               \A m \in Leaves \ sgThread[u].todo : sgAttr[m] = sgThread[u].load.writes[m]
      BY <3>1 DEF SgInv, ActiveLoads
    <3>3. CASE u # t
      BY <1>1, <1>6, <1>7, <1>14, <3>2, <3>3
    <3>4. CASE u = t
      <4>1. sgThread[t].todo # {l}
        BY <1>7, <2>3, <3>4, IdleTypes DEF Latest
      <4>2. \A m \in Leaves \ (sgThread[t].todo \ {l}) : sgAttr'[m] = load.writes[m]
        BY <1>1, <1>5, <1>8, <2>1, <3>2, <3>4 DEF Buffering
      <4> QED BY <1>1, <1>7, <1>14, <3>2, <3>4, <4>1, <4>2
    <3> QED BY <3>3, <3>4
  <2>4. ASSUME \A u \in SgThreads : ~Latest(u, "Active")'
        PROVE  /\ \A u \in SgThreads : ~Writing(u, "Active")'
               /\ sgAttr' = groups'[sgcb'.act] \/ Copying(sgcb.act)'
    <3>1. Latest(t, "Active")
      <4>1. Writing(t, "Active")
        BY <1>1, <1>15 DEF Writing
      <4>2. PICK u \in SgThreads : Latest(u, "Active")
        BY <4>1 DEF SgInv, ActiveLoads
      <4> QED BY <1>12, <2>4, <4>2
    <3>2. sgThread[t].todo = {l}
      BY <1>7, <2>4, <3>1 DEF Latest
    <3>3. /\ load.writes = groups[sgcb.act] \/ Copying(sgcb.act)
          /\ \A m \in Leaves \ {l} : sgAttr[m] = load.writes[m]
      BY <1>1, <3>1, <3>2 DEF SgInv, ActiveLoads
    <3>4. sgAttr' = load.writes
      BY <1>4, <1>8, <2>1, <3>3, Zenon DEF Buffering
    <3> QED BY <1>1, <1>12, <1>14, <3>2, <3>3, <3>4
  <2>5. ActiveLoads'
    BY <2>3, <2>4 DEF ActiveLoads
  <2> QED BY <1>9, <1>10, <1>11, <1>13, <2>2, <2>5 DEF SgInv
<1>16. CASE load.buffer # "Active"
  <2>1. seAttr' = [seAttr EXCEPT ![l] = load.writes[l]] /\ sgAttr' = sgAttr /\ Writing(t, "Edit")
    BY <1>1, <1>2, <1>4, <1>16 DEF Writing
  <2>2. sgcb.owner # SgNone => sgcb.owner \in SgThreads
    BY DEF SgInv, SgTypeOK, SgThreads
  <2>3. settings = SgNone /\ (sgcb.owner # SgNone => sgThread[sgcb.owner].load.buffer = "Edit")
    BY <2>1 DEF SgInv, EditLoads
  <2>4. sgcb.owner # SgNone =>
          LET th == sgThread[sgcb.owner] IN
          /\ th.load.latest
          /\ th.load.writes = edited
          /\ th.at = "writing" => \A m \in Leaves \ th.todo : seAttr[m] = edited[m]
    BY <2>3 DEF SgInv, EditLoads
  <2>5. ASSUME sgcb.owner # SgNone, sgThread'[sgcb.owner].load.buffer = "Edit"
        PROVE  LET th == sgThread'[sgcb.owner] IN
               /\ th.load.latest
               /\ th.load.writes = edited
               /\ th.at = "writing" => \A m \in Leaves \ th.todo : seAttr'[m] = edited[m]
    <3>1. CASE sgcb.owner # t
      BY <1>6, <1>7, <2>2, <2>4, <2>5, <3>1
    <3>2. CASE sgcb.owner = t
      <4>1. sgThread[t].todo # {l}
        BY <1>7, <2>5, <3>2, IdleTypes
      <4>2. \A m \in Leaves \ (sgThread[t].todo \ {l}) : seAttr'[m] = edited[m]
        BY <1>1, <1>5, <1>8, <2>1, <2>4, <2>5, <3>2 DEF Buffering
      <4> QED BY <1>7, <2>4, <2>5, <3>2, <4>1, <4>2
    <3> QED BY <3>1, <3>2
  <2>6. ASSUME sgcb.owner # SgNone, sgThread'[sgcb.owner].load.buffer # "Edit"
        PROVE  seAttr' = edited /\ \A u \in SgThreads : ~Writing(u, "Edit")'
    <3>1. sgcb.owner = t /\ sgThread[t].todo = {l}
      BY <1>7, <2>2, <2>3, <2>6
    <3>2. load.writes = edited /\ \A m \in Leaves \ {l} : seAttr[m] = edited[m]
      BY <1>1, <2>4, <2>6, <3>1
    <3>3. seAttr' = edited
      BY <1>4, <1>8, <2>1, <3>2 DEF Buffering
    <3> QED BY <1>12, <3>1, <3>3
  <2>7. EditLoads'
    <3>1. \A u \in SgThreads : Latest(u, "Edit")' => sgcb'.owner \in {u, SgNone} /\ settings' = SgNone
      BY <1>1, <1>12 DEF SgInv, EditLoads
    <3> QED BY <1>1, <2>3, <2>5, <2>6, <3>1 DEF EditLoads
  <2>8. ASSUME NEW u \in SgThreads
        PROVE  /\ Latest(u, "Active")' <=> Latest(u, "Active")
               /\ Latest(u, "Active") => sgThread'[u] = sgThread[u]
               /\ Writing(u, "Active")' => Writing(u, "Active")
    BY <1>7, <1>12, <1>16 DEF Latest
  <2>9. ASSUME NEW u \in SgThreads, Latest(u, "Active")'
        PROVE  /\ sgThread'[u].load.writes = groups'[sgcb'.act] \/ Copying(sgcb.act)'
               /\ sgThread'[u].at = "writing" =>
                    \A m \in Leaves \ sgThread'[u].todo : sgAttr'[m] = sgThread'[u].load.writes[m]
    BY <1>1, <1>14, <2>1, <2>8, <2>9 DEF SgInv, ActiveLoads
  <2>10. ASSUME \A u \in SgThreads : ~Latest(u, "Active")'
         PROVE  /\ \A u \in SgThreads : ~Writing(u, "Active")'
                /\ sgAttr' = groups'[sgcb'.act] \/ Copying(sgcb.act)'
    BY <1>1, <1>14, <2>1, <2>8, <2>10 DEF SgInv, ActiveLoads
  <2>11. ActiveLoads'
    BY <2>9, <2>10 DEF ActiveLoads
  <2> QED BY <1>9, <1>10, <1>11, <1>13, <2>7, <2>11 DEF SgInv
<1> QED BY <1>15, <1>16

(* A session opens with a load of the edit buffer. *)
LEMMA SessionOpened ==
  ASSUME SgInv, NEW c \in SgConns, EditOpenBlind(c)
  PROVE SgInv'
<1> DEFINE g == sgThread[c].group
           new == [buffer |-> "Edit", writes |-> groups[g], latest |-> TRUE]
           mine == [SgIdle EXCEPT !.at = "load", !.load = new]
           opened == [u \in SgThreads |-> [sgThread[u] EXCEPT !.current = FALSE]]
<1>1. /\ sgThread[c].at = "editOpen" /\ settings = SgNone
      /\ sgcb' = [sgcb EXCEPT !.edit = g, !.owner = c, !.due = FALSE]
      /\ edited' = groups[g]
      /\ UNCHANGED <<groups, sgAttr, seAttr, settings, loads>>
  BY Zenon DEF EditOpenBlind
<1>2. sgThread' = [u \in SgThreads |->
                     IF u = c THEN mine
                     ELSE IF opened[u].load.buffer = "Edit" THEN [opened[u] EXCEPT !.load.latest = FALSE]
                     ELSE opened[u]]
  BY Zenon DEF EditOpenBlind
<1>3. c \in SgThreads /\ c # SgNone
  BY SgAssumption DEF SgThreads
<1>4. g \in Groups /\ groups[g] \in Buffering /\ sgThread[c].load.buffer = "none"
  BY <1>1, <1>3 DEF SgInv, SgTypeOK, Placed
<1>5. sgThread \in [SgThreads -> Thread]
  BY DEF SgInv, SgTypeOK, Thread
<1>6. new \in LoadType
  BY <1>4 DEF LoadType
<1>7. mine \in Thread /\ mine.at = "load" /\ mine.load = new
  BY <1>6, IdleTypes, Zenon DEF Thread, SgAt
<1>8. ASSUME NEW u \in SgThreads
      PROVE  /\ opened[u] \in Thread
             /\ opened[u].at = sgThread[u].at /\ opened[u].group = sgThread[u].group
             /\ opened[u].leaf = sgThread[u].leaf /\ opened[u].value = sgThread[u].value
             /\ opened[u].todo = sgThread[u].todo /\ opened[u].load = sgThread[u].load
  BY <1>5, Zenon DEF Thread
<1>9. Overtakes(c, "Edit", groups[g])
  <2> HIDE DEF opened, mine, new, g
  <2>1. ASSUME NEW u \in SgThreads \ {c}, opened[u].load.buffer = "Edit"
        PROVE  /\ sgThread'[u] = [opened[u] EXCEPT !.load.latest = FALSE]
               /\ sgThread'[u] \in Thread
    BY <1>2, <1>8, <2>1, OvertakenType
  <2>2. ASSUME NEW u \in SgThreads \ {c}, opened[u].load.buffer # "Edit"
        PROVE  sgThread'[u] = opened[u]
    BY <1>2, <2>2
  <2>3. sgThread'[c] = mine
    BY <1>2, <1>3
  <2>4. sgThread' \in [SgThreads -> Thread]
    BY <1>2, <1>7, <1>8, <2>1, <2>2, <2>3
  <2>5. ASSUME NEW u \in SgThreads \ {c}
        PROVE  /\ sgThread'[u].at = sgThread[u].at /\ sgThread'[u].group = sgThread[u].group
               /\ sgThread'[u].leaf = sgThread[u].leaf /\ sgThread'[u].value = sgThread[u].value
               /\ sgThread'[u].todo = sgThread[u].todo
               /\ sgThread'[u].load.buffer = sgThread[u].load.buffer
               /\ sgThread'[u].load.writes = sgThread[u].load.writes
               /\ sgThread'[u].load.latest <=> sgThread[u].load.latest /\ sgThread[u].load.buffer # "Edit"
    <3>1. opened[u] \in Thread
      BY <1>8
    <3>2. CASE opened[u].load.buffer = "Edit"
      <4>1. opened[u].load \in [buffer: {"Active", "Edit"}, writes: Buffering, latest: BOOLEAN]
        BY <3>1, <3>2, IdleTypes DEF Thread, LoadType
      <4>2. sgThread'[u].load = [opened[u].load EXCEPT !.latest = FALSE]
        BY <2>1, <3>1, <3>2, Zenon DEF Thread
      <4>3. ~sgThread'[u].load.latest
        BY <4>1, <4>2
      <4>4. /\ sgThread'[u].load.buffer = opened[u].load.buffer
            /\ sgThread'[u].load.writes = opened[u].load.writes
        BY <4>1, <4>2
      <4>5. /\ sgThread'[u].at = opened[u].at /\ sgThread'[u].group = opened[u].group
            /\ sgThread'[u].leaf = opened[u].leaf /\ sgThread'[u].value = opened[u].value
            /\ sgThread'[u].todo = opened[u].todo
        BY <2>1, <3>1, <3>2, Zenon DEF Thread
      <4> QED BY <1>8, <3>2, <4>3, <4>4, <4>5
    <3>3. CASE opened[u].load.buffer # "Edit"
      BY <1>8, <2>2, <3>3
    <3> QED BY <3>2, <3>3
  <2>6. sgThread'[c].load = [buffer |-> "Edit", writes |-> groups[g], latest |-> TRUE]
    BY <1>7, <2>3 DEF new
  <2> QED BY <1>7, <2>3, <2>4, <2>5, <2>6 DEF Overtakes
<1> HIDE DEF opened, mine, new
<1>10. /\ sgcb' \in [act: Groups, edit: 0..NumOfSG, owner: SgConns \cup {SgNone}, due: BOOLEAN]
       /\ sgcb'.edit = g /\ sgcb'.owner = c /\ ~sgcb'.due /\ sgcb'.act = sgcb.act
  <2> HIDE DEF g
  <2>1. sgcb \in [act: Groups, edit: 0..NumOfSG, owner: SgConns \cup {SgNone}, due: BOOLEAN]
    BY DEF SgInv, SgTypeOK
  <2>2. g \in 0..NumOfSG
    BY <1>4, SgAssumption DEF Groups
  <2> QED BY <1>1, <2>1, <2>2, Zenon
<1>11. g # 0
  BY <1>4 DEF Groups
<1>12. SgTypeOK'
  BY <1>1, <1>3, <1>4, <1>9, <1>10, <1>11 DEF SgInv, SgTypeOK, Thread, Overtakes
<1>13. Placed'
  BY <1>9 DEF SgInv, Placed, Overtakes
<1>14. Locked'
  BY <1>1, <1>3, <1>9, SgAssumption DEF SgInv, Locked, Overtakes, SgThreads
<1>15. \A u \in SgThreads :
         /\ Latest(u, "Active")' <=> Latest(u, "Active")
         /\ Latest(u, "Edit")' <=> u = c
         /\ Writing(u, "Active")' <=> Writing(u, "Active")
         /\ Latest(u, "Active") => u # c
  BY <1>3, <1>4, <1>9 DEF Latest, Writing, Overtakes
<1>16. OneLatest'
  BY <1>15 DEF SgInv, OneLatest
<1>17. EditLoads'
  <2>1. /\ sgThread'[c].at = "load" /\ sgThread'[c].load.latest
        /\ sgThread'[c].load.buffer = "Edit" /\ sgThread'[c].load.writes = groups[g]
    BY <1>9 DEF Overtakes
  <2> QED BY <1>1, <1>10, <1>15, <2>1 DEF EditLoads
<1>18. Copying(sgcb.act) => Copying(sgcb.act)'
  <2>1. \A d \in SgConns \ {c} :
          sgThread'[d].at = sgThread[d].at /\ sgThread'[d].group = sgThread[d].group
    BY <1>9 DEF Overtakes, SgThreads
  <2> QED BY <1>1, <1>10, <2>1 DEF Copying
<1>19. ActiveLoads'
  <2>1. ASSUME NEW u \in SgThreads, Latest(u, "Active")'
        PROVE  /\ sgThread'[u].load.writes = groups'[sgcb'.act] \/ Copying(sgcb.act)'
               /\ sgThread'[u].at = "writing" =>
                    \A m \in Leaves \ sgThread'[u].todo : sgAttr'[m] = sgThread'[u].load.writes[m]
    <3>1. /\ sgThread'[u].at = sgThread[u].at /\ sgThread'[u].todo = sgThread[u].todo
          /\ sgThread'[u].load.writes = sgThread[u].load.writes
      BY <1>9, <1>15, <2>1 DEF Overtakes
    <3> QED BY <1>1, <1>10, <1>15, <1>18, <2>1, <3>1 DEF SgInv, ActiveLoads
  <2>2. ASSUME \A u \in SgThreads : ~Latest(u, "Active")'
        PROVE  /\ \A u \in SgThreads : ~Writing(u, "Active")'
               /\ sgAttr' = groups'[sgcb'.act] \/ Copying(sgcb.act)'
    BY <1>1, <1>10, <1>15, <1>18, <2>2 DEF SgInv, ActiveLoads
  <2> QED BY <2>1, <2>2 DEF ActiveLoads
<1> QED BY <1>12, <1>13, <1>14, <1>16, <1>17, <1>19 DEF SgInv

(* A session is closed and its owner takes the settings lock. *)
LEMMA SessionCommitted ==
  ASSUME SgInv, NEW c \in SgConns, sgThread[c].at = "cnfCommit", settings = SgNone,
         sgcb.owner = c, sgcb' = Closed(sgcb), settings' = c,
         sgThread' = [sgThread EXCEPT ![c] = [@ EXCEPT !.at = "cnfCopy", !.todo = Leaves]],
         UNCHANGED <<groups, sgAttr, seAttr, loads, edited>>
  PROVE SgInv'
<1>1. sgThread \in [SgThreads -> Thread] /\ c \in SgThreads /\ c # SgNone /\ c # SgApp
  BY SgAssumption DEF SgInv, SgTypeOK, Thread, SgThreads
<1>2. sgThread' \in [SgThreads -> Thread]
  <2>1. ASSUME NEW th \in Thread PROVE [th EXCEPT !.at = "cnfCopy", !.todo = Leaves] \in Thread
    BY Zenon DEF Thread, SgAt
  <2> QED BY <1>1, <2>1, Zenon
<1>3. /\ sgThread'[c].at = "cnfCopy" /\ sgThread'[c].load = sgThread[c].load
      /\ \A u \in SgThreads \ {c} : sgThread'[u] = sgThread[u]
  BY <1>1 DEF Thread
<1>4. sgThread[c].load.buffer = "none"
  BY <1>1 DEF SgInv, Placed
<1>5. SgTypeOK'
  BY <1>2, ClosedEffect DEF SgInv, SgTypeOK, Thread
<1>6. Placed'
  BY <1>1, <1>3, <1>4 DEF SgInv, Placed
<1>7. sgcb'.owner = SgNone /\ sgcb'.act = sgcb.act
  BY ClosedEffect DEF SgInv
<1>8. Locked'
  BY <1>1, <1>3, <1>7, SgAssumption DEF SgInv, Locked, SgThreads
<1>9. \A u \in SgThreads, b \in {"Edit", "Active"} :
        /\ Latest(u, b)' <=> Latest(u, b)
        /\ Latest(u, b) => u # c /\ sgThread'[u] = sgThread[u]
        /\ Writing(u, b)' => Writing(u, b)
  BY <1>3, <1>4 DEF Latest, Writing
<1>10. OneLatest'
  BY <1>9 DEF SgInv, OneLatest
<1>11. EditLoads'
  <2>1. \A u \in SgThreads : ~Latest(u, "Edit")
    BY <1>1, <1>9 DEF SgInv, EditLoads
  <2>2. seAttr = edited /\ \A u \in SgThreads : ~Writing(u, "Edit")
    BY <1>1, <1>4 DEF SgInv, EditLoads
  <2> QED BY <1>7, <1>9, <2>1, <2>2 DEF EditLoads
<1>12. Copying(sgcb.act) => Copying(sgcb.act)'
  BY <1>3, <1>7 DEF Copying, SgThreads
<1>13. ActiveLoads'
  <2>1. ASSUME NEW u \in SgThreads, Latest(u, "Active")'
        PROVE  /\ sgThread'[u].load.writes = groups'[sgcb'.act] \/ Copying(sgcb.act)'
               /\ sgThread'[u].at = "writing" =>
                    \A m \in Leaves \ sgThread'[u].todo : sgAttr'[m] = sgThread'[u].load.writes[m]
    BY <1>7, <1>9, <1>12, <2>1 DEF SgInv, ActiveLoads
  <2>2. ASSUME \A u \in SgThreads : ~Latest(u, "Active")'
        PROVE  /\ \A u \in SgThreads : ~Writing(u, "Active")'
               /\ sgAttr' = groups'[sgcb'.act] \/ Copying(sgcb.act)'
    BY <1>7, <1>9, <1>12, <2>2 DEF SgInv, ActiveLoads
  <2> QED BY <2>1, <2>2 DEF ActiveLoads
<1> QED BY <1>5, <1>6, <1>8, <1>10, <1>11, <1>13 DEF SgInv

(* A group with one value replaced. *)
LEMMA GroupsType ==
  ASSUME SgTypeOK, NEW g \in 0..NumOfSG, NEW l \in Leaves, NEW v \in SgValues
  PROVE /\ [groups EXCEPT ![g][l] = v] \in [Groups -> Buffering]
        /\ \A h \in Groups \ {g} : [groups EXCEPT ![g][l] = v][h] = groups[h]
<1>1. groups \in [Groups -> Buffering]
  BY DEF SgTypeOK
<1>2. g \in Groups => [groups[g] EXCEPT ![l] = v] \in Buffering
  BY <1>1 DEF Buffering
<1> QED BY <1>1, <1>2, Zenon

(* One value of the session is copied; with the last one the settings lock  *)
(* is given back and the group is loaded when it is active.                 *)
LEMMA ValueCopied ==
  ASSUME SgInv, NEW c \in SgConns, ConfirmCopy(c)
  PROVE SgInv'
<1> DEFINE g == sgThread[c].group
<1>1. sgThread[c].at = "cnfCopy" /\ UNCHANGED <<sgcb, sgAttr, seAttr, loads, edited>>
  BY DEF ConfirmCopy
<1>2. PICK l \in sgThread[c].todo :
        /\ groups' = [groups EXCEPT ![g][l] = seAttr[l]]
        /\ IF sgThread[c].todo # {l}
           THEN sgThread' = [sgThread EXCEPT ![c].todo = @ \ {l}] /\ UNCHANGED settings
           ELSE /\ settings' = SgNone
                /\ IF g = sgcb.act THEN PrepareLoad(c, "Active", groups'[g]) ELSE SgReturn(c)
  BY Zenon DEF ConfirmCopy
<1>3. sgThread \in [SgThreads -> Thread] /\ c \in SgThreads /\ c # SgNone /\ c # SgApp
  BY SgAssumption DEF SgInv, SgTypeOK, Thread, SgThreads
<1>4. settings = c /\ sgcb.owner = SgNone /\ sgThread[c].load.buffer = "none"
  BY <1>1, <1>3, Zenon DEF SgInv, Locked, Placed
<1>5. g \in 0..NumOfSG /\ l \in Leaves /\ seAttr[l] \in SgValues /\ sgcb.act \in Groups
  BY <1>3 DEF SgInv, SgTypeOK, Thread, Buffering
<1>6. groups' \in [Groups -> Buffering] /\ (g # sgcb.act => groups'[sgcb.act] = groups[sgcb.act])
  <2> HIDE DEF g
  <2> QED BY <1>2, <1>5, GroupsType DEF SgInv
<1>7. \A d \in SgConns \ {c} : sgThread[d].at # "cnfCopy"
  BY <1>4 DEF SgInv, Locked
<1>8. \A u \in SgThreads : ~Latest(u, "Edit")
  BY <1>3, <1>4 DEF SgInv, EditLoads
<1>9. CASE sgThread[c].todo # {l}
  <2>1. sgThread' = [sgThread EXCEPT ![c].todo = @ \ {l}] /\ settings' = settings
    BY <1>2, <1>9
  <2>2. sgThread' \in [SgThreads -> Thread]
    <3>1. ASSUME NEW th \in Thread PROVE [th EXCEPT !.todo = @ \ {l}] \in Thread
      BY DEF Thread
    <3> QED BY <1>3, <2>1, <3>1
  <2>3. /\ \A u \in SgThreads \ {c} : sgThread'[u] = sgThread[u]
        /\ sgThread'[c].at = "cnfCopy" /\ sgThread'[c].group = g /\ sgThread'[c].load = sgThread[c].load
    BY <1>1, <1>3, <2>1 DEF Thread
  <2>4. SgTypeOK'
    BY <1>1, <1>6, <2>1, <2>2 DEF SgInv, SgTypeOK, Thread
  <2>5. Placed'
    BY <1>4, <2>3 DEF SgInv, Placed
  <2>6. Locked'
    BY <1>1, <1>3, <1>4, <2>1, <2>3 DEF SgInv, Locked, SgThreads
  <2>7. \A u \in SgThreads, b \in {"Edit", "Active"} :
          /\ Latest(u, b)' <=> Latest(u, b)
          /\ Latest(u, b) => sgThread'[u] = sgThread[u]
          /\ Writing(u, b)' => Writing(u, b)
    BY <1>4, <2>3 DEF Latest, Writing
  <2>8. OneLatest'
    BY <2>7 DEF SgInv, OneLatest
  <2>9. EditLoads'
    BY <1>1, <1>3, <1>4, <1>8, <2>1, <2>7 DEF SgInv, EditLoads
  <2>10. \/ g = sgcb.act /\ Copying(sgcb.act)'
         \/ g # sgcb.act /\ groups'[sgcb.act] = groups[sgcb.act] /\ ~Copying(sgcb.act)
    BY <1>1, <1>6, <1>7, <2>3 DEF Copying
  <2>11. ActiveLoads'
    <3>1. ASSUME NEW u \in SgThreads, Latest(u, "Active")'
          PROVE  /\ sgThread'[u].load.writes = groups'[sgcb'.act] \/ Copying(sgcb.act)'
                 /\ sgThread'[u].at = "writing" =>
                      \A m \in Leaves \ sgThread'[u].todo : sgAttr'[m] = sgThread'[u].load.writes[m]
      BY <1>1, <2>7, <2>10, <3>1 DEF SgInv, ActiveLoads
    <3>2. ASSUME \A u \in SgThreads : ~Latest(u, "Active")'
          PROVE  /\ \A u \in SgThreads : ~Writing(u, "Active")'
                 /\ sgAttr' = groups'[sgcb'.act] \/ Copying(sgcb.act)'
      BY <1>1, <2>7, <2>10, <3>2 DEF SgInv, ActiveLoads
    <3> QED BY <3>1, <3>2 DEF ActiveLoads
  <2> QED BY <2>4, <2>5, <2>6, <2>8, <2>9, <2>11 DEF SgInv
<1>10. CASE sgThread[c].todo = {l} /\ g = sgcb.act
  <2>1. settings' = SgNone /\ PrepareLoad(c, "Active", groups'[sgcb'.act]) /\ groups'[sgcb'.act] \in Buffering
    BY <1>1, <1>2, <1>5, <1>6, <1>10
  <2>2. Overtakes(c, "Active", groups'[sgcb'.act])
    BY <1>3, <2>1, PrepareOvertakes DEF SgInv
  <2>3. SgTypeOK'
    BY <1>1, <1>6, <2>1, <2>2 DEF SgInv, SgTypeOK, Overtakes, Thread
  <2> QED BY <1>1, <1>3, <2>1, <2>2, <2>3, ActiveLoadPrepared
<1>11. CASE sgThread[c].todo = {l} /\ g # sgcb.act
  <2>1. settings' = SgNone /\ sgThread' = [sgThread EXCEPT ![c] = SgIdle]
    BY <1>2, <1>11 DEF SgReturn
  <2>2. /\ \A u \in SgThreads \ {c} : sgThread'[u] = sgThread[u]
        /\ sgThread'[c] = SgIdle /\ sgThread' \in [SgThreads -> Thread]
    BY <1>3, <2>1, IdleTypes
  <2>3. SgTypeOK'
    BY <1>1, <1>6, <2>1, <2>2 DEF SgInv, SgTypeOK, Thread
  <2>4. Placed'
    BY <2>2, IdleTypes DEF SgInv, Placed
  <2>5. Locked'
    BY <1>1, <1>3, <1>4, <1>7, <2>1, <2>2, IdleTypes, SgAssumption DEF SgInv, Locked, SgThreads
  <2>6. \A u \in SgThreads, b \in {"Edit", "Active"} :
          /\ Latest(u, b)' <=> Latest(u, b)
          /\ Latest(u, b) => sgThread'[u] = sgThread[u]
          /\ Writing(u, b)' => Writing(u, b)
    BY <1>4, <2>2, IdleTypes, Zenon DEF Latest, Writing
  <2>7. OneLatest'
    BY <2>6 DEF SgInv, OneLatest
  <2>8. EditLoads'
    BY <1>1, <1>4, <1>8, <2>1, <2>6 DEF EditLoads
  <2>9. groups'[sgcb.act] = groups[sgcb.act] /\ ~Copying(sgcb.act)
    BY <1>6, <1>7, <1>11 DEF Copying
  <2>10. ActiveLoads'
    <3>1. ActiveLoads /\ sgcb'.act = sgcb.act /\ sgAttr' = sgAttr
      BY <1>1 DEF SgInv
    <3>2. ASSUME NEW t \in SgThreads, Latest(t, "Active")'
          PROVE  LET th == sgThread'[t] IN
                 /\ th.load.writes = groups'[sgcb'.act]
                 /\ th.at = "writing" => \A m \in Leaves \ th.todo : sgAttr'[m] = th.load.writes[m]
      BY <2>6, <2>9, <3>1, <3>2 DEF ActiveLoads
    <3>3. ASSUME \A t \in SgThreads : ~Latest(t, "Active")'
          PROVE  /\ \A t \in SgThreads : ~Writing(t, "Active")'
                 /\ sgAttr' = groups'[sgcb'.act]
      BY <2>6, <2>9, <3>1, <3>3 DEF ActiveLoads
    <3> QED BY <3>2, <3>3, Zenon DEF ActiveLoads
  <2> QED BY <2>3, <2>4, <2>5, <2>7, <2>8, <2>10 DEF SgInv
<1> QED BY <1>9, <1>10, <1>11

(* A value is stored into the edit buffer by the owner of the session. *)
LEMMA ValueStored ==
  ASSUME SgInv, NEW c \in SgConns, sgThread[c].at = "seStore", SgReturn(c), IsCurrent(c),
         seAttr' = [seAttr EXCEPT ![sgThread[c].leaf] = sgThread[c].value],
         edited' = [edited EXCEPT ![sgThread[c].leaf] = sgThread[c].value],
         UNCHANGED <<sgcb, groups, sgAttr, settings, loads>>
  PROVE SgInv'
<1>1. sgThread \in [SgThreads -> Thread] /\ c \in SgThreads /\ c # SgNone /\ sgcb.owner = c
  BY SgAssumption DEF SgInv, SgTypeOK, Thread, SgThreads, IsCurrent
<1>2. /\ sgThread[c].leaf \in Leaves /\ sgThread[c].value \in SgValues
      /\ sgThread[c].load.buffer = "none" /\ settings = SgNone
  BY <1>1 DEF SgInv, Placed, Locked
<1>3. seAttr = edited /\ \A u \in SgThreads : ~Writing(u, "Edit")
  BY <1>1, <1>2 DEF SgInv, EditLoads
<1>4. /\ \A u \in SgThreads \ {c} : sgThread'[u] = sgThread[u]
      /\ sgThread'[c] = SgIdle /\ sgThread' \in [SgThreads -> Thread]
  BY <1>1, IdleTypes DEF SgReturn
<1>5. seAttr' \in Buffering /\ edited' = seAttr'
  BY <1>2, <1>3 DEF SgInv, SgTypeOK, Buffering
<1>6. SgTypeOK'
  BY <1>4, <1>5, Zenon DEF SgInv, SgTypeOK, Thread
<1>7. Placed'
  BY <1>4, IdleTypes DEF SgInv, Placed
<1>8. Locked'
  BY <1>1, <1>2, <1>4, IdleTypes, SgAssumption DEF SgInv, Locked, SgThreads
<1>9. \A u \in SgThreads, b \in {"Edit", "Active"} :
        /\ Latest(u, b)' <=> Latest(u, b)
        /\ Latest(u, b) => sgThread'[u] = sgThread[u]
        /\ Writing(u, b)' => Writing(u, b)
  BY <1>2, <1>4, IdleTypes, Zenon DEF Latest, Writing
<1>10. OneLatest'
  BY <1>9, Zenon DEF SgInv, OneLatest
<1>11. EditLoads'
  <2>1. sgThread'[c].load.buffer # "Edit"
    BY <1>4, IdleTypes, Zenon
  <2>2. \A u \in SgThreads : Latest(u, "Edit")' => sgcb'.owner \in {u, SgNone} /\ settings' = SgNone
    BY <1>9 DEF SgInv, EditLoads
  <2> QED BY <1>1, <1>3, <1>5, <1>9, <2>1, <2>2, Zenon DEF EditLoads
<1>12. Copying(sgcb.act) => Copying(sgcb.act)'
  BY <1>4 DEF Copying, SgThreads
<1>13. ActiveLoads'
  <2>1. ASSUME NEW u \in SgThreads, Latest(u, "Active")'
        PROVE  /\ sgThread'[u].load.writes = groups'[sgcb'.act] \/ Copying(sgcb.act)'
               /\ sgThread'[u].at = "writing" =>
                    \A m \in Leaves \ sgThread'[u].todo : sgAttr'[m] = sgThread'[u].load.writes[m]
    BY <1>9, <1>12, <2>1 DEF SgInv, ActiveLoads
  <2>2. ASSUME \A u \in SgThreads : ~Latest(u, "Active")'
        PROVE  /\ \A u \in SgThreads : ~Writing(u, "Active")'
               /\ sgAttr' = groups'[sgcb'.act] \/ Copying(sgcb.act)'
    BY <1>9, <1>12, <2>2, Zenon DEF SgInv, ActiveLoads
  <2> QED BY <2>1, <2>2, Zenon DEF ActiveLoads
<1> QED BY <1>6, <1>7, <1>8, <1>10, <1>11, <1>13, Zenon DEF SgInv

(* The application sets a value of a group. *)
LEMMA ValueSet ==
  ASSUME SgInv, SetGroupValue(SgApp)
  PROVE SgInv'
<1>1. /\ sgThread[SgApp].at = "idle" /\ settings = SgNone
      /\ UNCHANGED <<sgcb, sgAttr, seAttr, settings, loads, edited>>
  BY DEF SetGroupValue
<1>2. PICK g \in Groups, l \in Leaves, v \in SgValues :
        /\ groups' = [groups EXCEPT ![g][l] = v]
        /\ IF g = sgcb.act THEN PrepareLoad(SgApp, "Active", groups'[g]) ELSE UNCHANGED sgThread
  BY Zenon DEF SetGroupValue
<1>3. g \in 0..NumOfSG /\ SgApp \in SgThreads /\ sgcb.act \in Groups
  BY SgAssumption DEF Groups, SgThreads, SgInv, SgTypeOK
<1>4. groups' \in [Groups -> Buffering] /\ (g # sgcb.act => groups'[sgcb.act] = groups[sgcb.act])
  BY <1>2, <1>3, GroupsType DEF SgInv
<1>5. CASE g = sgcb.act
  <2>1. PrepareLoad(SgApp, "Active", groups'[sgcb'.act]) /\ groups'[sgcb'.act] \in Buffering
    BY <1>1, <1>2, <1>3, <1>4, <1>5
  <2>2. Overtakes(SgApp, "Active", groups'[sgcb'.act])
    BY <1>3, <2>1, PrepareOvertakes DEF SgInv
  <2>3. SgTypeOK'
    BY <1>1, <1>4, <2>2 DEF SgInv, SgTypeOK, Overtakes, Thread
  <2> QED BY <1>1, <1>3, <2>2, <2>3, ActiveLoadPrepared
<1>6. CASE g # sgcb.act
  <2>1. UNCHANGED sgThread /\ groups'[sgcb'.act] = groups[sgcb.act]
    BY <1>1, <1>2, <1>4, <1>6, Zenon
  <2>2. SgTypeOK'
    BY <1>1, <1>4, <2>1 DEF SgInv, SgTypeOK
  <2>3. Placed' /\ Locked' /\ OneLatest' /\ EditLoads'
    BY <1>1, <2>1, Zenon DEF SgInv, Placed, Locked, OneLatest, EditLoads, Latest, Writing
  <2>4. ActiveLoads'
    BY <1>1, <2>1 DEF SgInv, ActiveLoads, Latest, Writing, Copying
  <2> QED BY <2>2, <2>3, <2>4 DEF SgInv
<1> QED BY <1>5, <1>6

-----------------------------------------------------------------------------
(* The requests and their sections. *)

(* The groups are numbered from one. *)
LEMMA GroupNumbers == Groups \subseteq 0..NumOfSG
BY SgAssumption DEF Groups

(* A thread chooses a group, or a setting and its value. *)
LEMMA RequestStarts ==
  ASSUME SgInv, NEW t \in SgThreads, sgThread[t].at = "idle",
         UNCHANGED <<sgcb, groups, sgAttr, seAttr, settings, loads, edited>>,
         \/ \E g \in Groups : sgThread' = [sgThread EXCEPT ![t] = [@ EXCEPT !.at = "activate", !.group = g]]
         \/ \E g \in 0..NumOfSG :
              sgThread' = [sgThread EXCEPT ![t] = [@ EXCEPT !.at = "editExpire", !.group = g]]
         \/ \E l \in Leaves, v \in SgValues :
              sgThread' = [sgThread EXCEPT ![t] = [@ EXCEPT !.at = "seExpire", !.leaf = l, !.value = v]]
  PROVE SgInv'
<1>1. sgThread[t] \in Thread
  BY Zenon DEF SgInv, SgTypeOK, Thread
<1>2. Ended
  BY EndedWhen, Zenon DEF SgInv
<1>3. ASSUME NEW g \in 0..NumOfSG, NEW place \in {"activate", "editExpire"}, place = "activate" => g \in Groups,
             sgThread' = [sgThread EXCEPT ![t] = [@ EXCEPT !.at = place, !.group = g]]
      PROVE  SgInv'
  <2> DEFINE th == [sgThread[t] EXCEPT !.at = place, !.group = g]
  <2>1. th \in Thread /\ th.at = place /\ th.group = g /\ th.load = sgThread[t].load
    BY <1>1, Zenon DEF Thread, SgAt
  <2>2. sgThread' = [sgThread EXCEPT ![t] = th]
    BY <1>3, Zenon
  <2> HIDE DEF th
  <2> QED BY <1>2, <1>3, <2>1, <2>2, ThreadGoes, Zenon DEF Busy
<1>4. ASSUME NEW l \in Leaves, NEW v \in SgValues,
             sgThread' = [sgThread EXCEPT ![t] = [@ EXCEPT !.at = "seExpire", !.leaf = l, !.value = v]]
      PROVE  SgInv'
  <2> DEFINE th == [sgThread[t] EXCEPT !.at = "seExpire", !.leaf = l, !.value = v]
  <2>1. th \in Thread /\ th.at = "seExpire" /\ th.leaf = l /\ th.value = v /\ th.load = sgThread[t].load
    BY <1>1, Zenon DEF Thread, SgAt
  <2>2. sgThread' = [sgThread EXCEPT ![t] = th]
    BY <1>4, Zenon
  <2> HIDE DEF th
  <2> QED BY <1>2, <2>1, <2>2, ThreadGoes, Zenon DEF Busy
<1> QED BY <1>3, <1>4, GroupNumbers, Zenon

(* An association is admitted to the session it holds. *)
LEMMA Admitted ==
  ASSUME SgInv, NEW c \in SgConns,
         \/ /\ sgThread[c].at = "cnfCheck"
            /\ sgThread' = [sgThread EXCEPT
                 ![c] = [@ EXCEPT !.at = "cnfHandler", !.group = sgcb.edit, !.current = TRUE]]
         \/ /\ sgThread[c].at = "seAdmit"
            /\ sgThread' = [sgThread EXCEPT ![c] = [@ EXCEPT !.at = "seStore", !.current = TRUE]],
         UNCHANGED <<sgcb, groups, sgAttr, seAttr, settings, loads, edited>>
  PROVE SgInv'
<1>1. c \in SgThreads /\ sgThread[c] \in Thread /\ sgcb.edit \in 0..NumOfSG
  <2>1. c \in SgThreads
    BY DEF SgThreads
  <2> QED BY <2>1 DEF SgInv, SgTypeOK, Thread
<1>2. Ended
  BY EndedWhen DEF SgInv
<1>3. CASE /\ sgThread[c].at = "cnfCheck"
           /\ sgThread' = [sgThread EXCEPT
                ![c] = [@ EXCEPT !.at = "cnfHandler", !.group = sgcb.edit, !.current = TRUE]]
  <2> DEFINE th == [sgThread[c] EXCEPT !.at = "cnfHandler", !.group = sgcb.edit, !.current = TRUE]
  <2>1. th \in Thread /\ th.at = "cnfHandler" /\ th.load = sgThread[c].load
    BY <1>1, Zenon DEF Thread, SgAt
  <2>2. sgThread' = [sgThread EXCEPT ![c] = th]
    BY <1>3
  <2> HIDE DEF th
  <2> QED BY <1>1, <1>2, <1>3, <2>1, <2>2, ThreadGoes, Zenon DEF Busy
<1>4. CASE /\ sgThread[c].at = "seAdmit"
           /\ sgThread' = [sgThread EXCEPT ![c] = [@ EXCEPT !.at = "seStore", !.current = TRUE]]
  <2> DEFINE th == [sgThread[c] EXCEPT !.at = "seStore", !.current = TRUE]
  <2>1. /\ th \in Thread /\ th.at = "seStore" /\ th.load = sgThread[c].load
        /\ th.leaf = sgThread[c].leaf /\ th.value = sgThread[c].value
    BY <1>1, Zenon DEF Thread, SgAt
  <2>2. sgThread' = [sgThread EXCEPT ![c] = th]
    BY <1>4
  <2>3. sgThread[c].leaf \in Leaves /\ sgThread[c].value \in SgValues
    BY <1>1, <1>4 DEF SgInv, Placed
  <2> HIDE DEF th
  <2> QED BY <1>1, <1>2, <1>4, <2>1, <2>2, <2>3, ThreadGoes, Zenon DEF Busy
<1> QED BY <1>3, <1>4

-----------------------------------------------------------------------------

(* The invariant holds at the start. *)
LEMMA SgStarts == SgInit => SgInv
<1> SUFFICES ASSUME SgInit PROVE SgInv
  OBVIOUS
<1>1. /\ sgcb.act = 1 /\ sgcb.edit = 0 /\ sgcb.owner = SgNone /\ ~sgcb.due
      /\ sgcb \in [act: Groups, edit: 0..NumOfSG, owner: SgConns \cup {SgNone}, due: BOOLEAN]
  BY SgAssumption DEF SgInit, Groups
<1>2. \A t \in SgThreads : sgThread[t] = SgIdle
  BY DEF SgInit
<1>3. SgTypeOK
  BY <1>1, IdleTypes DEF SgInit, SgTypeOK, Thread, Groups
<1>4. Placed
  BY <1>2, IdleTypes DEF Placed
<1>5. Locked
  BY <1>1, <1>2, IdleTypes, SgAssumption DEF SgInit, Locked, SgThreads
<1>6. \A t \in SgThreads, b \in {"Edit", "Active"} : ~Latest(t, b) /\ ~Writing(t, b)
  BY <1>2, IdleTypes DEF Latest, Writing
<1>7. OneLatest /\ EditLoads
  BY <1>1, <1>6 DEF SgInit, OneLatest, EditLoads
<1>8. ActiveLoads
  BY <1>1, <1>6 DEF SgInit, ActiveLoads
<1> QED BY <1>3, <1>4, <1>5, <1>7, <1>8 DEF SgInv

(* Every step preserves it. *)
LEMMA SgPreserved == SgInv /\ [SgNext]_sgVars => SgInv'
<1> SUFFICES ASSUME SgInv, [SgNext]_sgVars PROVE SgInv'
  OBVIOUS
<1> USE DEF Busy
<1>1. SgTypeOK /\ SgConns \subseteq SgThreads
  BY DEF SgInv, SgThreads
<1>2. ASSUME NEW t \in SgThreads
      PROVE  sgThread[t].at \notin {"load", "writing"} => ~sgThread[t].load.latest
  <2>1. sgThread[t].load \in LoadType /\ (sgThread[t].at \notin {"load", "writing"} => sgThread[t].load.buffer = "none")
    BY DEF SgInv, SgTypeOK, Placed
  <2> QED BY <2>1, IdleTypes DEF LoadType
<1>3. ASSUME NEW c \in SgConns, SgReturn(c), sgThread[c].at \notin Busy, Ended,
             UNCHANGED <<groups, sgAttr, seAttr, settings, loads, edited>>
      PROVE  SgInv'
  BY <1>1, <1>2, <1>3, ReturnMoves
<1>4. CASE UNCHANGED sgVars
  <2>1. UNCHANGED <<sgcb, groups, sgAttr, seAttr, settings, loads, sgThread, edited>>
    BY <1>4 DEF sgVars
  <2>2. SgTypeOK'
    BY <2>1 DEF SgInv, SgTypeOK
  <2>3. Placed' /\ Locked'
    BY <2>1 DEF SgInv, Placed, Locked
  <2>4. OneLatest' /\ EditLoads'
    BY <2>1 DEF SgInv, OneLatest, EditLoads, Latest, Writing
  <2>5. ActiveLoads'
    BY <2>1 DEF SgInv, ActiveLoads, Latest, Writing, Copying
  <2> QED BY <2>2, <2>3, <2>4, <2>5 DEF SgInv
<1>5. CASE ReservationElapses
  <2>1. /\ sgcb' = [sgcb EXCEPT !.due = TRUE] /\ sgcb.owner # SgNone
        /\ UNCHANGED <<groups, sgAttr, seAttr, settings, loads, sgThread, edited>>
    BY <1>5 DEF ReservationElapses
  <2>2. /\ sgcb' \in [act: Groups, edit: 0..NumOfSG, owner: SgConns \cup {SgNone}, due: BOOLEAN]
        /\ sgcb'.act = sgcb.act /\ sgcb'.owner = sgcb.owner /\ sgcb'.edit = sgcb.edit
    BY <1>1, <2>1, Zenon DEF SgTypeOK
  <2>3. SgTypeOK'
    BY <1>1, <2>1, <2>2 DEF SgTypeOK
  <2> QED BY <2>1, <2>2, <2>3, QuietStep
<1>6. ASSUME Ended, UNCHANGED <<groups, sgAttr, seAttr, settings, loads, sgThread, edited>> PROVE SgInv'
  <2>1. SgTypeOK'
    BY <1>1, <1>6 DEF SgTypeOK, Ended
  <2> QED BY <1>6, <2>1, QuietStep, Zenon DEF Ended
<1>7. CASE TickReservation
  BY <1>1, <1>6, <1>7, EndedWhen DEF TickReservation
<1>8. ASSUME NEW c \in SgConns, ReleaseForConn(c) PROVE SgInv'
  BY <1>1, <1>6, <1>8, EndedWhen DEF ReleaseForConn
<1>9. ASSUME NEW t \in SgThreads, SelectActiveSG(t) PROVE SgInv'
  BY <1>9, RequestStarts, Zenon DEF SelectActiveSG
<1>10. ASSUME NEW t \in SgThreads, Activate(t) PROVE SgInv'
  <2>1. /\ sgThread[t].at = "activate" /\ sgcb' = [sgcb EXCEPT !.act = sgThread[t].group]
        /\ PrepareLoad(t, "Active", groups[sgThread[t].group])
        /\ UNCHANGED <<groups, sgAttr, seAttr, settings, loads, edited>>
    BY <1>10 DEF Activate
  <2>2. sgThread[t].group \in Groups
    BY <2>1 DEF SgInv, Placed
  <2>3. /\ sgcb' \in [act: Groups, edit: 0..NumOfSG, owner: SgConns \cup {SgNone}, due: BOOLEAN]
        /\ sgcb'.act = sgThread[t].group /\ sgcb'.owner = sgcb.owner /\ sgcb'.edit = sgcb.edit
    BY <1>1, <2>1, <2>2 DEF SgTypeOK
  <2>4. sgcb'.due = sgcb.due
    BY <1>1, <2>1 DEF SgTypeOK
  <2>5. groups'[sgcb'.act] \in Buffering /\ PrepareLoad(t, "Active", groups'[sgcb'.act])
    BY <1>1, <2>1, <2>2, <2>3 DEF SgTypeOK
  <2>6. Overtakes(t, "Active", groups'[sgcb'.act])
    BY <1>1, <2>5, PrepareOvertakes
  <2>7. SgTypeOK'
    BY <1>1, <2>1, <2>3, <2>4, <2>6 DEF SgTypeOK, Overtakes, Thread
  <2> QED BY <2>1, <2>3, <2>6, <2>7, ActiveLoadPrepared
<1>11. ASSUME NEW t \in SgThreads, RunLoad(t) PROVE SgInv'
  <2>1. CASE ~sgThread[t].load.latest
    <3>1. Ended
      BY <1>1, <1>11, EndedWhen DEF RunLoad
    <3> QED BY <1>11, <2>1, <3>1, ReturnMoves DEF RunLoad
  <2>2. CASE sgThread[t].load.latest
    BY <1>11, <2>2, LoadStarts, Zenon DEF RunLoad
  <2> QED BY <2>1, <2>2
<1>12. ASSUME NEW t \in SgThreads, WriteSetting(t) PROVE SgInv'
  BY <1>12, ValueWritten
<1>13. ASSUME NEW c \in SgConns, SgRequest(c) PROVE SgInv'
  <2>1. c \in SgThreads /\ (UNCHANGED sgcb => Ended)
    BY <1>1, EndedWhen
  <2>2. CASE EditSG(c)
    BY <2>1, <2>2, RequestStarts, Zenon DEF EditSG
  <2>3. CASE SeWrite(c)
    BY <2>1, <2>3, RequestStarts, Zenon DEF SeWrite
  <2>4. CASE ConfirmEditSG(c)
    BY <2>1, <2>4, GotoMoves DEF ConfirmEditSG, SgAt
  <2> QED BY <1>13, <2>2, <2>3, <2>4 DEF SgRequest
<1>14. ASSUME NEW c \in SgConns, ExpireStale(c) PROVE SgInv'
  <2>1. Ended /\ c \in SgThreads
    BY <1>1, <1>14, EndedWhen DEF ExpireStale
  <2>2. sgThread[c].at = "seExpire" => sgThread[c].leaf \in Leaves /\ sgThread[c].value \in SgValues
    BY <2>1 DEF SgInv, Placed
  <2> QED BY <1>14, <2>1, <2>2, GotoMoves DEF ExpireStale, SgAt
<1>15. ASSUME NEW c \in SgConns, EditCheck(c) \/ EditHandler(c) PROVE SgInv'
  <2>1. Ended /\ c \in SgThreads
    BY <1>1, <1>15, EndedWhen DEF EditCheck, EditHandler
  <2>2. /\ sgThread[c].group > 0 => sgThread[c].group \in Groups
        /\ sgThread[c].at = "editHandler" => sgThread[c].group \in Groups
    BY <2>1 DEF SgInv, SgTypeOK, Placed, Groups
  <2>3. CASE EditCheck(c)
    BY <1>3, <2>1, <2>2, <2>3, GotoMoves DEF EditCheck, SgAt
  <2>4. CASE EditHandler(c)
    BY <1>3, <2>1, <2>2, <2>4, GotoMoves DEF EditHandler, SgAt
  <2> QED BY <1>15, <2>3, <2>4
<1>16. ASSUME NEW c \in SgConns, EditOpen(c) PROVE SgInv'
  <2>1. CASE EditOpenBlind(c)
    BY <2>1, SessionOpened
  <2>2. CASE ~EditOpenBlind(c)
    <3>1. Ended
      BY <1>1, <1>16, <2>2, EndedWhen DEF EditOpen
    <3> QED BY <1>3, <1>16, <2>2, <3>1 DEF EditOpen
  <2> QED BY <2>1, <2>2
<1>17. ASSUME NEW c \in SgConns, ConfirmCheck(c) \/ SeAdmit(c) PROVE SgInv'
  <2>1. Ended
    BY <1>1, <1>17, EndedWhen DEF ConfirmCheck, SeAdmit
  <2>2. CASE ConfirmCheck(c)
    BY <1>3, <2>1, <2>2, Admitted, Zenon DEF ConfirmCheck
  <2>3. CASE SeAdmit(c)
    BY <1>3, <2>1, <2>3, Admitted, Zenon DEF SeAdmit
  <2> QED BY <1>17, <2>2, <2>3
<1>18. ASSUME NEW c \in SgConns, ConfirmHandler(c) PROVE SgInv'
  <2>1. Ended /\ c \in SgThreads
    BY <1>1, <1>18, EndedWhen DEF ConfirmHandler
  <2> QED BY <1>3, <1>18, <2>1, GotoMoves DEF ConfirmHandler, SgAt
<1>19. ASSUME NEW c \in SgConns, ConfirmCommit(c) PROVE SgInv'
  <2>1. CASE sgcb.edit = sgThread[c].group /\ sgcb.owner = c /\ sgThread[c].current
    BY <1>19, <2>1, SessionCommitted, Zenon DEF ConfirmCommit
  <2>2. CASE ~(sgcb.edit = sgThread[c].group /\ sgcb.owner = c /\ sgThread[c].current)
    <3>1. Ended
      BY <1>1, <1>19, <2>2, EndedWhen DEF ConfirmCommit
    <3> QED BY <1>3, <1>19, <2>2, <3>1 DEF ConfirmCommit
  <2> QED BY <2>1, <2>2
<1>20. ASSUME NEW c \in SgConns, SeStore(c) PROVE SgInv'
  <2>1. CASE UNCHANGED <<seAttr, edited>>
    <3>1. Ended
      BY <1>1, <1>20, EndedWhen DEF SeStore
    <3> QED BY <1>3, <1>20, <2>1, <3>1 DEF SeStore
  <2>2. CASE ~UNCHANGED <<seAttr, edited>>
    BY <1>20, <2>2, ValueStored DEF SeStore
  <2> QED BY <2>1, <2>2
<1>21. ASSUME NEW c \in SgConns, SgConnStep(c) PROVE SgInv'
  BY <1>14, <1>15, <1>16, <1>17, <1>18, <1>19, <1>20, <1>21, ValueCopied DEF SgConnStep
<1>22. CASE SetGroupValue(SgApp)
  BY <1>22, ValueSet
<1> QED BY <1>4, <1>5, <1>7, <1>8, <1>9, <1>10, <1>11, <1>12, <1>13, <1>21, <1>22 DEF SgNext, SgStep

(* Every reachable state satisfies the invariant: the places, locks and     *)
(* loads of setting_groups.rs are always consistent with each other.        *)
THEOREM SettingGroupsInductive == SgSpec => []SgInv
BY SgStarts, SgPreserved, PTL DEF SgSpec

(* The variables have their types, and an edited group has an owner and a   *)
(* deadline exactly while a session is open.                                *)
THEOREM SettingGroupsTyped == SgSpec => []SgTypeOK
<1>1. SgInv => SgTypeOK
  BY DEF SgInv
<1> QED BY <1>1, SettingGroupsInductive, PTL

(* The edit buffer is that of the open session, and what a confirmation     *)
(* copies is that of the session it closed, whatever sessions were opened,  *)
(* expired, cancelled or overtaken meanwhile (edit_session_of,              *)
(* hold_edit_session, run_load).                                            *)
THEOREM EditBufferOfSession == SgSpec => []EditBufferIsSession
<1>1. SgInv => EditBufferIsSession
  <2> SUFFICES ASSUME SgInv PROVE EditBufferIsSession
    OBVIOUS
  <2>1. sgcb.owner # SgNone => sgcb.owner \in SgThreads
    BY DEF SgInv, SgTypeOK, SgThreads
  <2>2. ASSUME sgcb.owner # SgNone, sgThread[sgcb.owner].at \notin {"load", "writing"}
        PROVE  seAttr = edited
    <3>1. sgThread[sgcb.owner].load.buffer = "none"
      BY <2>1, <2>2, Zenon DEF SgInv, Placed
    <3> QED BY <2>2, <3>1, Zenon DEF SgInv, EditLoads
  <2>3. ASSUME NEW c \in SgConns, sgThread[c].at = "cnfCopy" PROVE seAttr = edited
    <3>1. settings # SgNone
      BY <2>3, SgAssumption DEF SgInv, Locked
    <3> QED BY <3>1 DEF SgInv, EditLoads
  <2> QED BY <2>2, <2>3 DEF EditBufferIsSession
<1> QED BY <1>1, SettingGroupsInductive, PTL

(* The attributes under functional constraint SG hold the values of the     *)
(* active group, or a load that nothing has overtaken will bring them       *)
(* there: no interleaving of activations, confirmations and set_group_value *)
(* leaves the values of another group or of an older load behind            *)
(* (prepare_load, run_load).                                                *)
THEOREM ActiveBufferIsLoaded == SgSpec => []ActiveBufferLoaded
<1>1. SgInv => ActiveBufferLoaded
  BY DEF SgInv, ActiveLoads, ActiveBufferLoaded, Latest, Copying
<1> QED BY <1>1, SettingGroupsInductive, PTL
=============================================================================
