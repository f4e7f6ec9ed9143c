------------------------------ MODULE DataAccess ------------------------------
(***************************************************************************)
(* Reads and writes of the data model by concurrent clients and by the     *)
(* application: dispatch_read and dispatch_write of service/mod.rs, the    *)
(* locking of service/read.rs and service/write.rs, the write batches of   *)
(* mapping.rs, and update_array and update_* of server.rs                  *)
(* (src/crates/iec61850-server).                                           *)
(*                                                                         *)
(* Each thread runs one request.  A read asks the handlers first, outside  *)
(* the value lock, and then copies the cells one at a time under the read  *)
(* lock; a write checks, asks its handlers, and stores its leaves one at a *)
(* time under the write lock; an update of one attribute takes only the    *)
(* lock of its cell.                                                       *)
(***************************************************************************)
EXTENDS VariableAccess

CONSTANTS DaScenarios,   \* what the device is and what each thread requests
          NoLimit        \* a budget nothing exceeds

VARIABLES da,        \* the scenario
          vals,      \* the value of each cell
          stamp,     \* the commit sequence number of each cell's value
          clock,     \* the commit sequence numbers given out
          lock,      \* the value lock: who reads, who writes
          thr,       \* the threads
          commits,   \* the commit numbers of each locked write, by cell
          reads,     \* the commit numbers each locked read saw, by cell
          handed     \* the batches of written leaves handed over, in order

daVars == <<da, vals, stamp, clock, lock, thr, commits, reads, handed>>

Threads == DOMAIN da.requests
Request(t) == da.requests[t]

-----------------------------------------------------------------------------
(* Where a thread is. *)

Idle == [pc |-> "entry", at |-> 1, groups |-> <<>>, done |-> <<>>, left |-> 0,
         room |-> 0, scope |-> <<>>, snap |-> <<>>, seen |-> <<>>, todo |-> <<>>,
         results |-> <<>>, batch |-> <<>>, shown |-> {}]

DaInit ==
  /\ da \in DaScenarios
  /\ vals = da.values
  /\ stamp = [c \in DOMAIN vals |-> 0]
  /\ clock = 0
  /\ lock = [readers |-> {}, writer |-> 0]
  /\ thr = [t \in DOMAIN da.requests |-> [Idle EXCEPT !.room = da.requests[t].room]]
  /\ commits = <<>>
  /\ reads = {}
  /\ handed = <<>>

DaGoto(t, changes) == thr' = [thr EXCEPT ![t] = changes @@ @]

(* A read or write item after its leading components joined the name. *)
EntryOf(t) ==
  LET e == Request(t).entries[thr[t].at]
  IN FoldLeadingComponents(e.item, e.alt) @@ [domain |-> e.domain]

NodesOf(domain, item) ==
  Walk(DoOf(LnOf(da.ied.device, domain, item[1]), item[3]), item[2], SubSeq(item, 4, Len(item)))

ReadsClosedEditBuffer(e) == Len(e.item) > 1 /\ e.item[2] = "SE" /\ da.editor = 0

-----------------------------------------------------------------------------
(* Reads. *)

(* The result of an entry uses up room; without room the request fails. *)
AddSized(t, r, size) ==
  IF r = OverBudget \/ size > thr[t].room
  THEN DaGoto(t, [pc |-> "done", results |-> <<OverBudget>>])
  ELSE DaGoto(t, [pc |-> "entry", at |-> thr[t].at + 1, room |-> thr[t].room - size,
                  results |-> Append(thr[t].results, r), done |-> <<>>])

AddResult(t, r) == AddSized(t, r, AccessResultSize(r))

IsLnRead(e) == e.domain # None /\ e.alt = None /\ Len(e.item) <= 2

(* A logical node is read one FC group at a time. *)
GroupsOfLn(e, ln) ==
  IF ln = Absent THEN <<>>
  ELSE SelectSeq(IF Len(e.item) = 1 THEN FcOrder ELSE <<e.item[2]>>,
                 LAMBDA fc : IsFc(fc) /\ (DosWithFc(ln, fc) # <<>> \/ LeadingMembers(da.ied, e.domain, ln, fc) # <<>>))

GroupsOf(e) == GroupsOfLn(e, LnOf(da.ied.device, e.domain, e.item[1]))

StartGroups(t, groups) ==
  IF groups = <<>> THEN AddResult(t, Failure("ObjectNonExistent"))
  ELSE DaGoto(t, [pc |-> "ask", groups |-> groups, left |-> thr[t].room])

(* What needs no data cell is answered at once. *)
StartData(t, e, direct) ==
  IF RoutedKind(e.item) = None /\ direct # Failure("ObjectNonExistent") /\ (e.alt = None \/ Len(e.item) >= 4)
  THEN DaGoto(t, [pc |-> "ask", groups |-> <<>>, left |-> thr[t].room])
  ELSE AddResult(t, direct)

StartRead(t, e) ==
  IF e.domain = None THEN AddResult(t, Failure("ObjectAccessUnsupported"))
  ELSE IF ReadsClosedEditBuffer(e) THEN AddResult(t, Failure("TemporarilyUnavailable"))
  ELSE IF IsLnRead(e) THEN StartGroups(t, GroupsOf(e))
  ELSE StartData(t, e, HandleReadWithRouting(da.ied, e.domain, e.item, e.alt, <<>>, vals, NoLimit))

StartEntry(t) ==
  /\ Request(t).op = "read" /\ thr[t].pc = "entry"
  /\ thr[t].at <= Len(Request(t).entries)
  /\ StartRead(t, EntryOf(t))
  /\ UNCHANGED <<da, vals, stamp, clock, lock, commits, reads, handed>>

(* The entry, or the FC group of it that is next, from a valuation. *)
GroupResult(t, e, ln, fc, scope, values) ==
  ExpandLnForFc(ln, fc, LeadingMembers(da.ied, e.domain, ln, fc), scope, values, thr[t].left)

SectionResult(t, e, scope, values) ==
  IF IsLnRead(e)
  THEN GroupResult(t, e, LnOf(da.ied.device, e.domain, e.item[1]), Head(thr[t].groups), scope, values)
  ELSE [result |-> LookupDomainSpecificValue(da.ied.device, e.domain, e.item, e.alt, scope,
                                             values, thr[t].left),
        left |-> thr[t].left]

(* The cells the section reads, in the order it reads them. *)
GroupCells(ln, fc) == CellsOf(DosWithFc(ln, fc), fc)

SectionCells(t, e) ==
  IF IsLnRead(e) THEN GroupCells(LnOf(da.ied.device, e.domain, e.item[1]), Head(thr[t].groups))
  ELSE Cells(Last(NodesOf(e.domain, e.item)), e.item[2])

(* Mutant: the guard of the read lock is dropped before the cells are      *)
(* copied.                                                                 *)
TakeReadLockDropped(t) ==
  /\ Request(t).op \in {"read", "readList"} /\ thr[t].pc = "wait"
  /\ lock.writer = 0
  /\ DaGoto(t, [pc |-> "copy", snap |-> <<>>, seen |-> <<>>,
              todo |-> IF Request(t).op = "read" THEN SectionCells(t, EntryOf(t)) ELSE thr[t].todo])
  /\ UNCHANGED <<da, vals, stamp, clock, lock, commits, reads, handed>>

(* The handlers are asked in a first pass outside the value lock, which    *)
(* is final when it yields no value; their outcomes are kept for the       *)
(* second pass.                                                            *)
AfterFirstPass(t, asked, scope, first) ==
  IF asked /\ first[1] # "success" THEN AddResult(t, first) ELSE DaGoto(t, [pc |-> "wait", scope |-> scope])

AskOf(t, e, around) ==
  LET asked == IF IsLnRead(e) THEN {p \in around : p[2] = Head(thr[t].groups)} ELSE around
  IN \E scope \in [asked -> UNION {da.readHandlers[p] : p \in asked}] :
       /\ \A p \in asked : scope[p] \in da.readHandlers[p]
       /\ AfterFirstPass(t, around # {}, scope, SectionResult(t, e, scope, vals).result)

AskHandlers(t) ==
  /\ Request(t).op = "read" /\ thr[t].pc = "ask"
  /\ AskOf(t, EntryOf(t), ReadHandlersAround(DOMAIN da.readHandlers, EntryOf(t).item))
  /\ UNCHANGED <<da, vals, stamp, clock, lock, commits, reads, handed>>

TakeReadLock(t) ==
  /\ Request(t).op \in {"read", "readList"} /\ thr[t].pc = "wait"
  /\ lock.writer = 0
  /\ lock' = [lock EXCEPT !.readers = @ \cup {t}]
  /\ DaGoto(t, [pc |-> "copy", snap |-> <<>>, seen |-> <<>>,
              todo |-> IF Request(t).op = "read" THEN SectionCells(t, EntryOf(t)) ELSE thr[t].todo])
  /\ UNCHANGED <<da, vals, stamp, clock, commits, reads, handed>>

CopyCell(t) ==
  LET c == Head(thr[t].todo) IN
  /\ thr[t].pc = "copy" /\ thr[t].todo # <<>>
  /\ DaGoto(t, [todo |-> Tail(thr[t].todo), snap |-> (c :> vals[c]) @@ thr[t].snap,
              seen |-> (c :> stamp[c]) @@ thr[t].seen])
  /\ UNCHANGED <<da, vals, stamp, clock, lock, commits, reads, handed>>

(* The section ends with the lock released; a logical node goes on with    *)
(* its next group and is a structure of them all.                          *)
WholeLn(done, left) == IF Outer(done) > left THEN OverBudget ELSE Success(<<"struct", done>>)

AfterGroup(t, e, got, done) ==
  IF Len(thr[t].groups) > 1
  THEN DaGoto(t, [pc |-> "ask", groups |-> Tail(thr[t].groups), done |-> done, left |-> got.left])
  ELSE AddResult(t, IF Len(e.item) = 1 THEN WholeLn(done, got.left) ELSE got.result)

AfterSection(t, e, got) ==
  IF got.result[1] # "success" \/ ~IsLnRead(e) THEN AddResult(t, got.result)
  ELSE AfterGroup(t, e, got, Append(thr[t].done, got.result[2]))

FinishSection(t) ==
  /\ Request(t).op = "read" /\ thr[t].pc = "copy" /\ thr[t].todo = <<>>
  /\ lock' = [lock EXCEPT !.readers = @ \ {t}]
  /\ reads' = reads \cup {thr[t].seen}
  /\ AfterSection(t, EntryOf(t), SectionResult(t, EntryOf(t), thr[t].scope, thr[t].snap))
  /\ UNCHANGED <<da, vals, stamp, clock, commits, handed>>

(* A named list: unknown, the request fails; else the handlers of all its  *)
(* members are asked, and all the members are read under one lock.         *)
ReadListName(t) ==
  LET members == da.sets[Request(t).name]
      around(i) == IF ReadsClosedEditBuffer(members[i]) THEN {}
                   ELSE ReadHandlersAround(DOMAIN da.readHandlers, members[i].item)
      asked == UNION {{<<i, p>> : p \in around(i)} : i \in DOMAIN members}
  IN /\ Request(t).op = "readList" /\ thr[t].pc = "entry"
     /\ IF Request(t).name = None
        THEN DaGoto(t, [pc |-> "done", results |-> <<Failure("ObjectAccessUnsupported")>>])
        ELSE IF Request(t).name \notin DOMAIN da.sets
        THEN DaGoto(t, [pc |-> "done", results |-> <<Failure("confirmedError")>>])
        ELSE \E scope \in [asked -> UNION {da.readHandlers[a[2]] : a \in asked}] :
               /\ \A a \in asked : scope[a] \in da.readHandlers[a[2]]
               /\ DaGoto(t, [pc |-> "wait",
                           scope |-> [i \in DOMAIN members |->
                                        [p \in around(i) |-> scope[<<i, p>>]]],
                           todo |-> FlattenSeq([i \in DOMAIN members |->
                             Cells(Last(NodesOf(members[i].domain, members[i].item)),
                                   members[i].item[2])])])
     /\ UNCHANGED <<da, vals, stamp, clock, lock, commits, reads, handed>>

MemberResult(t, i) ==
  LET m == da.sets[Request(t).name][i]
  IN IF ReadsClosedEditBuffer(m) THEN Failure("TemporarilyUnavailable")
     ELSE LookupBelow(LnOf(da.ied.device, m.domain, m.item[1]), m.item, m.alt,
                      thr[t].scope[i], thr[t].snap, NoLimit)

ListWithin(t, results) ==
  IF FoldLeft(LAMBDA a, r : a + AccessResultSize(r), 0, results) > thr[t].room THEN <<OverBudget>> ELSE results

FinishList(t) ==
  /\ Request(t).op = "readList" /\ thr[t].pc = "copy" /\ thr[t].todo = <<>>
  /\ lock' = [lock EXCEPT !.readers = @ \ {t}]
  /\ reads' = reads \cup {thr[t].seen}
  /\ DaGoto(t, [pc |-> "done",
                results |-> ListWithin(t, [i \in DOMAIN da.sets[Request(t).name] |-> MemberResult(t, i)])])
  /\ UNCHANGED <<da, vals, stamp, clock, commits, handed>>

-----------------------------------------------------------------------------
(* Writes. *)

WriteEntries(t) ==
  IF Request(t).op = "write" THEN Request(t).entries ELSE da.sets[Request(t).name]

WriteEntry(t) ==
  LET e == WriteEntries(t)[thr[t].at]
  IN FoldLeadingComponents(e.item, e.alt) @@ [domain |-> e.domain, data |-> Request(t).data[thr[t].at]]

(* A list that is not there, or of another length, refuses every datum. *)
ListVerdict(t) ==
  IF Request(t).op = "write" THEN "ok"
  ELSE IF Request(t).name = None THEN "ObjectAccessUnsupported"
  ELSE IF Request(t).name \notin DOMAIN da.sets THEN "ObjectNonExistent"
  ELSE IF Len(da.sets[Request(t).name]) # Len(Request(t).data) THEN "TypeInconsistent"
  ELSE "ok"

RefuseList(t) ==
  /\ Request(t).op = "writeList" /\ thr[t].pc = "entry" /\ thr[t].at = 1
  /\ ListVerdict(t) # "ok"
  /\ DaGoto(t, [pc |-> "done",
               results |-> [i \in DOMAIN Request(t).data |-> Failure(ListVerdict(t))]])
  /\ UNCHANGED <<da, vals, stamp, clock, lock, commits, reads, handed>>

Outcome(t, r) ==
  DaGoto(t, [pc |-> "entry", at |-> thr[t].at + 1, results |-> Append(thr[t].results, r),
           todo |-> <<>>, shown |-> {}])

(* The nodes, the type and the new value of an entry, or its refusal. *)
CheckedAt(e, target) ==
  IF target[1] = "failure" THEN target
  ELSE LET new == CheckValue(Last(target[2].nodes), e.item[2], target[2].spec, e.data, vals)
       IN IF new[1] = "failure" THEN new ELSE Success([target |-> target[2], value |-> new[2]])

CheckedWrite(t, e) ==
  IF e.domain = None THEN Failure("ObjectAccessUnsupported")
  ELSE LET verdict == FcVerdict(e.item, da.policies, da.editor = t)
       IN IF verdict # "ok" THEN Failure(verdict)
          ELSE CheckedAt(e, WriteTarget(da.ied, e.domain, e.item, e.alt))

(* The values the handlers of the ancestors are shown. *)
ShownAbove(e, write) ==
  {[path |-> SubSeq(e.item, 1, k), node |-> write.target.nodes[k - 2],
    value |-> MergedValue(write.target.nodes[k - 2], e.item[2],
                          SubSeq(write.target.steps, k - 2, Len(write.target.steps)),
                          write.value, vals)]
   : k \in {j \in 3 .. NamedAncestors(e.item, e.alt) : SubSeq(e.item, 1, j) \in DOMAIN da.writeHandlers}}

(* The control blocks and control objects are written through their own    *)
(* services; an element of an array never is.                              *)
RoutedWrite(e) ==
  e.domain # None /\ e.alt = None /\ RoutedKind(e.item) \notin {None, "log"}

AfterHandlers(t, e, write, answers, above, leaves) ==
  CASE above = "noUpdate" -> Outcome(t, Success("written"))
    [] above \notin {"accept", "noUpdate"} -> Outcome(t, Failure(above))
    [] above = "accept" ->
         IF leaves[1] = "failure" THEN Outcome(t, leaves)
         ELSE DaGoto(t, [pc |-> "wait", todo |-> leaves[2],
                         shown |-> IF \A p \in DOMAIN answers : answers[p] = "accept"
                                   THEN ShownAbove(e, write) ELSE {}])

AskWriteHandlers(t, e, write, around, nodes) ==
  \E answers \in [around -> UNION {da.writeHandlers[p] : p \in around}] :
    /\ \A p \in around : answers[p] \in da.writeHandlers[p]
    /\ AfterHandlers(t, e, write, answers, AncestorsVerdict(answers, e.item, NamedAncestors(e.item, e.alt)),
                     LeavesToStore(answers, nodes))

AfterCheck(t, e, checked) ==
  IF checked[1] = "failure" THEN Outcome(t, checked)
  ELSE AskWriteHandlers(t, e, checked[2], {p \in DOMAIN da.writeHandlers : OnTheSameBranch(p, e.item)},
                        CollectNodeWrites(Last(checked[2].target.nodes), e.item[2], checked[2].value,
                                          IF e.alt = None THEN e.item ELSE Absent))

WriteOf(t, e) == IF RoutedWrite(e) THEN Outcome(t, <<"routed">>) ELSE AfterCheck(t, e, CheckedWrite(t, e))

StartWrite(t) ==
  /\ Request(t).op \in {"write", "writeList"} /\ thr[t].pc = "entry"
  /\ ListVerdict(t) = "ok" /\ thr[t].at <= Len(WriteEntries(t))
  /\ WriteOf(t, WriteEntry(t))
  /\ UNCHANGED <<da, vals, stamp, clock, lock, commits, reads, handed>>

TakeWriteLock(t) ==
  /\ Request(t).op \in {"write", "writeList", "updateArray"} /\ thr[t].pc = "wait"
  /\ lock.writer = 0 /\ lock.readers = {}
  /\ lock' = [lock EXCEPT !.writer = t]
  /\ DaGoto(t, [pc |-> "store"])
  /\ commits' = Append(commits, <<>>)
  /\ UNCHANGED <<da, vals, stamp, clock, reads, handed>>

(* A stored leaf joins the batch of the request. *)
StoreLeaf(t) ==
  LET leaf == Head(thr[t].todo) IN
  /\ thr[t].pc = "store" /\ thr[t].todo # <<>>
  /\ vals' = [vals EXCEPT ![leaf.cell] = leaf.value]
  /\ clock' = clock + 1
  /\ stamp' = [stamp EXCEPT ![leaf.cell] = clock + 1]
  /\ commits' = [commits EXCEPT ![Len(commits)] = (leaf.cell :> clock + 1) @@ @]
  /\ DaGoto(t, [todo |-> Tail(thr[t].todo),
               batch |-> Append(thr[t].batch, [cell |-> leaf.cell, no |-> clock + 1])])
  /\ UNCHANGED <<da, lock, reads, handed>>

ReleaseWriteLock(t) ==
  /\ Request(t).op \in {"write", "writeList"} /\ thr[t].pc = "store" /\ thr[t].todo = <<>>
  /\ lock' = [lock EXCEPT !.writer = 0]
  /\ Outcome(t, Success("written"))
  /\ UNCHANGED <<da, vals, stamp, clock, commits, reads, handed>>

(* The response is made; the leaves the request wrote go over in one       *)
(* batch.                                                                  *)
Answer(t) ==
  /\ Request(t).op \in {"read", "write", "writeList"} /\ thr[t].pc = "entry"
  /\ IF Request(t).op = "read" THEN thr[t].at > Len(Request(t).entries)
     ELSE ListVerdict(t) = "ok" /\ thr[t].at > Len(WriteEntries(t))
  /\ handed' = IF thr[t].batch = <<>> THEN handed ELSE Append(handed, thr[t].batch)
  /\ DaGoto(t, [pc |-> "done", batch |-> <<>>])
  /\ UNCHANGED <<da, vals, stamp, clock, lock, commits, reads>>

-----------------------------------------------------------------------------
(* The application. *)

(* Mutant: the length of a bit string is not checked. *)
UpdateValueUnsized(n, v, held) ==
  IF v[1] # held[1] THEN Failure("TypeMismatch") ELSE Success(MmsValueToMmsData(v))

(* The value update_* stores: of the variant the attribute holds, a bit    *)
(* string of its declared length (of the length it holds when its type     *)
(* declares none) or made from an integer of that many bits.               *)
FromInt(held, v, len, octets) ==
  IF held[1] = "bits" /\ len > 0 /\ v < 2 ^ len
  THEN Success(<<"bits", octets * OctetBits - len, BigEndian(v * 2 ^ (octets * OctetBits - len), octets)>>)
  ELSE Failure("TypeMismatch")

DeclaredBits(size, held) == IF size[1] = "generic" THEN BitStringLen(held[3], held[2]) ELSE size[2]

HasLength(size, held, v) ==
  IF size[1] = "generic" THEN BitStringLen(v[3], v[2]) >= 0 /\ BitStringLen(v[3], v[2]) = BitStringLen(held[3], held[2])
  ELSE BitStringFits(size, v[3], v[2])

UpdateSized(size, v, held) ==
  IF v[1] = "fromInt"
  THEN FromInt(held, v[2], DeclaredBits(size, held), (DeclaredBits(size, held) + OctetBits - 1) \div OctetBits)
  ELSE IF v[1] # held[1] \/ (v[1] = "bits" /\ ~HasLength(size, held, v)) THEN Failure("TypeMismatch")
  ELSE Success(MmsValueToMmsData(v))

UpdateValue(n, v, held) == UpdateSized(LeafFromDaType(n.ty)[2], v, held)

(* update_*: the cell is checked, stored and its trigger submitted under   *)
(* its lock.                                                               *)
StoreUpdate(t, cell, new) ==
  IF new[1] = "failure"
  THEN /\ DaGoto(t, [pc |-> "done", results |-> <<new>>])
       /\ UNCHANGED <<vals, clock, stamp, handed>>
  ELSE /\ vals' = [vals EXCEPT ![cell] = new[2]]
       /\ clock' = clock + 1
       /\ stamp' = [stamp EXCEPT ![cell] = clock + 1]
       /\ handed' = Append(handed, <<[cell |-> cell, no |-> clock + 1]>>)
       /\ DaGoto(t, [pc |-> "done"])

UpdateNode(t, n) == StoreUpdate(t, n.cell, UpdateValue(n, Request(t).value, vals[n.cell]))

UpdateOne(t) ==
  /\ Request(t).op = "update" /\ thr[t].pc = "entry"
  /\ UpdateNode(t, Last(NodesOf(Request(t).domain, Request(t).item)))
  /\ UNCHANGED <<da, lock, commits, reads>>

(* The leaves of an array and their new values, or the mismatch. *)
RECURSIVE CollectUpdateLeaves(_, _)
CollectUpdateLeaves(n, v) ==
  IF IsLeaf(n)
  THEN IF v[1] = vals[n.cell][1] THEN Success(<<[cell |-> n.cell, value |-> v]>>)
       ELSE Failure("TypeMismatch")
  ELSE LET members == Members(n, v) IN
       IF members = Absent THEN Failure("TypeMismatch")
       ELSE IF Len(members) # Len(n.children) THEN Failure("TypeMismatch")
       ELSE LET all == AllOf([i \in DOMAIN members |-> CollectUpdateLeaves(n.children[i], members[i])])
            IN IF all[1] = "failure" THEN all ELSE Success(FlattenSeq(all[2]))

(* update_array stores every leaf under the value lock. *)
LeavesOrMismatch(leaves) ==
  IF leaves[1] = "success" THEN [pc |-> "wait", todo |-> leaves[2]] ELSE [pc |-> "done", results |-> <<leaves>>]

UpdateArray(t) ==
  /\ Request(t).op = "updateArray" /\ thr[t].pc = "entry"
  /\ DaGoto(t, LeavesOrMismatch(CollectUpdateLeaves(Last(NodesOf(Request(t).domain, Request(t).item)),
                                                    Request(t).value)))
  /\ UNCHANGED <<da, vals, stamp, clock, lock, commits, reads, handed>>

(* Its triggers are submitted before the lock is released. *)
SubmitArray(t) ==
  /\ Request(t).op = "updateArray" /\ thr[t].pc = "store" /\ thr[t].todo = <<>>
  /\ handed' = Append(handed, thr[t].batch)
  /\ lock' = [lock EXCEPT !.writer = 0]
  /\ DaGoto(t, [pc |-> "done", batch |-> <<>>])
  /\ UNCHANGED <<da, vals, stamp, clock, commits, reads>>

DaStep(t) ==
  \/ StartEntry(t) \/ AskHandlers(t) \/ TakeReadLock(t) \/ CopyCell(t) \/ FinishSection(t)
  \/ ReadListName(t) \/ FinishList(t)
  \/ RefuseList(t) \/ StartWrite(t) \/ TakeWriteLock(t) \/ StoreLeaf(t) \/ ReleaseWriteLock(t)
  \/ Answer(t) \/ UpdateOne(t) \/ UpdateArray(t) \/ SubmitArray(t)

DaNext == \E t \in Threads : DaStep(t)

Finished == \A t \in Threads : thr[t].pc = "done"

-----------------------------------------------------------------------------
(* Properties. *)

(* The values the application stores outside the declared range or length: *)
(* update_* compares the variant, and the length of bit strings alone,     *)
(* update_array only the variant.                                          *)
RECURSIVE LeafValues(_)
LeafValues(v) == IF v[1] \in {"struct", "array"} THEN UNION {LeafValues(v[2][i]) : i \in DOMAIN v[2]} ELSE {v}

Unchecked ==
  UNION {LeafValues(Request(t).value) : t \in {u \in Threads : Request(u).op = "updateArray"}}
  \cup {Request(t).value : t \in {u \in Threads : Request(u).op = "update" /\ Request(u).value[1] # "bits"}}

(* A structure of data has the members of its type, and a leaf its kind;   *)
(* it has its size too unless an update of the application names it as is. *)
RECURSIVE Conforms(_, _)
Conforms(spec, d) ==
  CASE spec[1] = "struct" ->
         /\ d[1] = "struct" /\ Len(d[2]) = Len(spec[2])
         /\ \A i \in DOMAIN d[2] : Conforms(spec[2][i].spec, d[2][i])
    [] spec[1] = "array" ->
         /\ d[1] = "array" /\ Len(d[2]) = spec[2]
         /\ \A i \in DOMAIN d[2] : Conforms(spec[3], d[2][i])
    [] spec[1] = "leaf" ->
         /\ d[1] = spec[2][1]
         /\ \/ d \in Unchecked
            \/ /\ d[1] \in {"int", "uint"} => FitsWidth(d[2], spec[2][2], d[1] = "int")
               /\ d[1] = "octets" => FitsLength(spec[2][2], Len(d[2]))
               /\ d[1] \in {"visible", "mmsString"} => FitsLength(spec[2][2], TextLen(d))
               /\ d[1] = "bits" => BitStringFits(spec[2][2], d[3], d[2])

(* The type of an element, or of a component of it. *)
RECURSIVE ElementSpec(_, _)
ElementSpec(spec, alt) ==
  IF alt = None THEN spec
  ELSE SpecBelow(spec[3], IF alt[1] = "index" THEN <<>> ELSE alt[3])

(* What Read returns for a name has the type GetVariableAccessAttributes   *)
(* gives for the same name: control blocks and the setting group control   *)
(* block lead their FC groups in both, and an element has its array's      *)
(* element type, also where handlers supply the value.                     *)
AnswerConforms(spec, alt, d) == spec # Absent /\ Conforms(ElementSpec(spec, alt), d)

NamedConforms(domain, folded, d) ==
  AnswerConforms(VarAccessAttrs(da.ied.device, da.ied.blocks, da.ied.rank, domain, folded.item), folded.alt, d)

EntryConforms(e, d) == NamedConforms(e.domain, FoldLeadingComponents(e.item, e.alt), d)

ReadConforms ==
  \A t \in Threads : Request(t).op \in {"read", "readList"} /\ thr[t].pc = "done"
      /\ thr[t].results # <<OverBudget>> =>
    \A i \in DOMAIN thr[t].results : thr[t].results[i][1] = "success" =>
      EntryConforms(IF Request(t).op = "read" THEN Request(t).entries[i] ELSE da.sets[Request(t).name][i],
                    thr[t].results[i][2])

(* A cell always holds what its declared type allows, whichever client     *)
(* wrote it and whatever read and write handlers answered.                 *)
StoredConforms ==
  \A domain \in DOMAIN da.ied.device : \A i \in DOMAIN da.ied.device[domain] :
    LET ln == da.ied.device[domain][i] IN
    \A j \in DOMAIN ln.dos : \A fc \in {"SP", "CF", "SE", "MX"} :
      HasFc(ln.dos[j], fc) => Conforms(BuildDoTypeSpec(ln.dos[j], fc), Snapshot(ln.dos[j], fc, vals))

(* Values have the type the server declares for them, in the cells and in  *)
(* the answers: a Write of the wrong type, range or length stores nothing  *)
(* (check_declared_type()), and a value outside its range or length is     *)
(* one the application itself gave an update_* call (Unchecked).           *)
ValuesConform == StoredConforms /\ ReadConforms

(* A read under the value lock sees all of a locked write or none of it. *)
NoTornRead ==
  \A r \in reads : \A i \in DOMAIN commits :
    LET both == DOMAIN r \cap DOMAIN commits[i]
    IN \A c, d \in both : r[c] >= commits[i][c] <=> r[d] >= commits[i][d]

=============================================================================
