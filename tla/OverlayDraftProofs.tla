------------------------- MODULE OverlayDraftProofs -------------------------
(***************************************************************************)
(* Proofs that WorkspaceOverlay loses no draft and knows what each one was *)
(* made from.                                                              *)
(***************************************************************************)
EXTENDS OverlayLedgerProofs

-----------------------------------------------------------------------------
(* Drafts *)

OneCallAPath ==
  \A a, b \in Actors : call[a].pc # "idle" /\ call[b].pc # "idle" /\ call[a].path = call[b].path => a = b

\* A call that has written files/ finds there what it wrote.
CallText(a) ==
  call[a].pc = "row" =>
    /\ call[a].op = "write" => files[call[a].path].text = call[a].text
    /\ call[a].op = "delete" => files[call[a].path].text = Absent

\* The pending row of a draft says whether it is a delete, and files/ what it says.
Drafted(p) ==
  draft[p] # None =>
    /\ \E i \in Pending(p) : (rows[p][i].type = "delete") <=> (draft[p] = Absent)
    /\ files[p].text = draft[p] \/ (draft[p] # Absent /\ files[p].text = Marked)

DraftInv ==
  /\ OneCallAPath
  /\ \A a \in Actors : CallText(a)
  /\ \A p \in Paths : CalmOn(p) => Drafted(p)
  /\ run.pc = "put" => draft[run.cur.item.path] \in {None, run.cur.text}
  /\ run.pc = "mark" => draft[run.cur.item.path] = None

\* No other call is on the path of one.
LEMMA CallAlone ==
  ASSUME "samePath" \notin Environment, TypeOK, OneCallAPath,
         NEW a \in Actors, NEW p \in Paths, CallAt(a, p)
  PROVE  \A b \in Actors \ {a} : call[b].pc # "idle" => call[b].path # p
<1>1. CASE CallStep(a) /\ call[a].path = p
  BY <1>1, CallPath DEF OneCallAPath
<1>2. CASE DeleteBegin(a, p) \/ DiscardFiles(a, p)
  BY <1>2 DEF DeleteBegin, DiscardFiles, MayCall, CalmOn
<1>3. ASSUME NEW t \in Texts, WriteNothing(a, p, t) \/ WriteBegin(a, p, t)
      PROVE  CalmOn(p)
  BY <1>3 DEF WriteNothing, WriteBegin, MayCall
<1> QED
  BY <1>1, <1>2, <1>3 DEF CallAt, CalmOn

\* The calls on a path are those of its callers.
LEMMA CallCalm ==
  ASSUME TypeOK, NEW a \in Actors, NEW p \in Paths, CallAt(a, p)
  PROVE  \A q \in Paths \ {p} : CalmOn(q)' => CalmOn(q)
<1>1. /\ \A b \in Actors \ {a} : call'[b] = call[b]
      /\ call[a].pc = "idle" \/ call[a].path = p
  BY CallFrame
<1> QED
  BY <1>1 DEF CalmOn

\* What a call leaves in files/ it still finds there.
LEMMA CallTextStep ==
  ASSUME "samePath" \notin Environment, TypeOK, OneCallAPath, \A b \in Actors : CallText(b),
         NEW a \in Actors, NEW p \in Paths, CallAt(a, p)
  PROVE  \A b \in Actors : CallText(b)'
<1>1. /\ \A q \in Paths \ {p} : files'[q] = files[q]
      /\ \A b \in Actors \ {a} : call'[b] = call[b]
  BY CallFrame
<1>2. \A b \in Actors \ {a} : call[b].pc # "idle" => call[b].path # p
  BY CallAlone
<1>3. \A b \in Actors : call[b].pc = "row" => call[b].path \in Paths
  BY DEF TypeOK, IdleCall, WriteCall, DeleteCall, DiscardCall
<1>4. \A b \in Actors \ {a} : CallText(b)'
  BY <1>1, <1>2, <1>3 DEF CallText
<1>5. ASSUME call'[a].pc = "row"
      PROVE  CallText(a)'
  <2>1. CASE WriteFiles(a) /\ call[a].path = p
    <3>1. call[a] \in WriteCall
      BY <2>1 DEF WriteFiles, TypeOK, IdleCall, DeleteCall, DiscardCall
    <3>2. call'[a] = [call[a] EXCEPT !.pc = "row"] /\ files'[p].text = call[a].text
      BY <2>1 DEF WriteFiles, TypeOK
    <3>3. call'[a].op = "write" /\ call'[a].path = p /\ call'[a].text = call[a].text
      BY <2>1, <3>1, <3>2 DEF WriteCall
    <3> QED
      BY <3>2, <3>3 DEF CallText
  <2>2. CASE DeleteFiles(a) /\ call[a].path = p
    <3>1. call[a] \in DeleteCall
      BY <2>2 DEF DeleteFiles, TypeOK, IdleCall, WriteCall, DiscardCall
    <3>2. call'[a] = [call[a] EXCEPT !.pc = "row"] /\ files'[p].text = Absent
      BY <2>2 DEF DeleteFiles, TypeOK, Gone
    <3>3. call'[a].op = "delete" /\ call'[a].path = p
      BY <2>2, <3>1, <3>2 DEF DeleteCall
    <3> QED
      BY <3>2, <3>3 DEF CallText
  <2>3. CASE WriteRow(a) \/ DeleteRow(a) \/ DiscardRow(a)
    <3>1. call'[a] = IdleCall
      BY <2>3 DEF WriteRow, DeleteRow, DiscardRow, TypeOK
    <3> QED
      BY <1>5, <3>1 DEF IdleCall
  <2>4. CASE DeleteBegin(a, p)
    <3>1. call'[a].pc = "files"
      BY <2>4 DEF DeleteBegin, TypeOK
    <3> QED
      BY <1>5, <3>1
  <2>5. CASE DiscardFiles(a, p)
    <3>1. call'[a].op = "discard"
      BY <2>5 DEF DiscardFiles, TypeOK
    <3> QED
      BY <3>1 DEF CallText
  <2>6. ASSUME NEW t \in Texts, WriteBegin(a, p, t)
        PROVE  FALSE
    <3>1. \E n, m, f : call' = [call EXCEPT ![a] = [pc |-> "files", op |-> "write", path |-> p, text |-> t,
                                                    new |-> n, mtime |-> m, force |-> f]]
      BY <2>6 DEF WriteBegin
    <3>2. call'[a].pc = "files"
      BY <3>1 DEF TypeOK
    <3> QED
      BY <1>5, <3>2
  <2>7. ASSUME NEW t \in Texts, WriteNothing(a, p, t)
        PROVE  FALSE
    BY <1>5, <2>7 DEF WriteNothing
  <2> QED
    BY <2>1, <2>2, <2>3, <2>4, <2>5, <2>6, <2>7 DEF CallAt, CallStep
<1> QED
  BY <1>4, <1>5 DEF CallText

\* The call that ends leaves a draft, or none.
LEMMA DraftCall ==
  ASSUME "sameText" \notin Environment, TypeOK,
         NEW a \in Actors, NEW p \in Paths, CallAt(a, p), Held(p), CallText(a)
  PROVE  CalmOn(p)' => Drafted(p)'
<1>1. LedgerOK
  BY DEF TypeOK, LedgerOK
<1>2. ASSUME NEW type \in OpTypes, NEW mtime \in Nat, NEW force \in BOOLEAN, Record(p, type, mtime, force)
      PROVE  \E i \in Ids : Pending(p)' = {i} /\ rows'[p][i].type = type
  <2>1. PICK i \in Ids : rows'[p][i] = UpsertPendingOp(rows[p][i], type, mtime, force) /\ Pending(p)' = {i}
    BY <1>1, <1>2, RecordEffect
  <2>2. rows'[p][i].type = type
    BY <2>1 DEF UpsertPendingOp
  <2> QED
    BY <2>1, <2>2
<1>3. CASE draft'[p] = None
  BY <1>3 DEF Drafted
<1>4. CASE WriteRow(a) /\ call[a].path = p
  <2>1. call[a] \in WriteCall
    BY <1>4 DEF WriteRow, TypeOK, IdleCall, DeleteCall, DiscardCall
  <2> DEFINE type == IF call[a].new THEN "create" ELSE TypeOfEdit(p)
  <2>2. type \in OpTypes /\ type # "delete" /\ call[a].mtime \in Nat /\ call[a].force \in BOOLEAN
    BY <2>1 DEF OpTypes, TypeOfEdit, WriteCall
  <2>3. Record(p, type, call[a].mtime, call[a].force) /\ draft'[p] = call[a].text /\ files' = files
    BY <1>4 DEF WriteRow, TypeOK
  <2> HIDE DEF type
  <2>4. PICK i \in Ids : Pending(p)' = {i} /\ rows'[p][i].type = type
    BY <1>2, <2>2, <2>3
  <2>5. files[p].text = call[a].text
    BY <1>4 DEF WriteRow, CallText
  <2>6. call[a].text # Absent
    BY <2>1, OverlayAssumption DEF WriteCall
  <2> QED
    BY <2>2, <2>3, <2>4, <2>5, <2>6 DEF Drafted
<1>5. CASE DeleteRow(a) /\ call[a].path = p
  <2>1. call[a] \in DeleteCall
    BY <1>5 DEF DeleteRow, TypeOK, IdleCall, WriteCall, DiscardCall
  <2>2. CASE draft'[p] # None
    <3>1. Record(p, "delete", call[a].mtime, FALSE) /\ draft'[p] = Absent /\ files' = files
      BY <1>5, <2>2 DEF DeleteRow, TypeOK
    <3>2. PICK i \in Ids : Pending(p)' = {i} /\ rows'[p][i].type = "delete"
      BY <1>2, <2>1, <3>1 DEF DeleteCall, OpTypes
    <3>3. files[p].text = Absent
      BY <1>5 DEF DeleteRow, CallText
    <3> QED
      BY <3>1, <3>2, <3>3 DEF Drafted
  <2> QED
    BY <1>3, <2>2
<1>6. CASE DiscardRow(a) /\ call[a].path = p
  BY <1>3, <1>6 DEF DiscardRow, TypeOK
<1>7. ASSUME call'[a].pc # "idle", call'[a].path = p
      PROVE  ~CalmOn(p)'
  BY <1>7 DEF CalmOn
<1>8. CASE (WriteFiles(a) \/ DeleteFiles(a)) /\ call[a].path = p
  <2>1. call'[a] = [call[a] EXCEPT !.pc = "row"] /\ call[a].pc # "idle"
    BY <1>8 DEF WriteFiles, DeleteFiles, TypeOK
  <2>2. call[a] \in WriteCall \cup DeleteCall
    BY <1>8 DEF WriteFiles, DeleteFiles, TypeOK, IdleCall, DiscardCall
  <2>3. call'[a].pc = "row" /\ call'[a].path = p
    BY <1>8, <2>1, <2>2 DEF WriteCall, DeleteCall
  <2> QED
    BY <1>7, <2>3
<1>9. CASE DeleteBegin(a, p) \/ DiscardFiles(a, p)
  <2>1. \E c : c.pc # "idle" /\ c.path = p /\ call' = [call EXCEPT ![a] = c]
    BY <1>9 DEF DeleteBegin, DiscardFiles
  <2>2. call'[a].pc # "idle" /\ call'[a].path = p
    BY <2>1 DEF TypeOK
  <2> QED
    BY <1>7, <2>2
<1>10. ASSUME NEW t \in Texts, WriteBegin(a, p, t)
       PROVE  ~CalmOn(p)'
  <2>1. \E n, m, f : call' = [call EXCEPT ![a] = [pc |-> "files", op |-> "write", path |-> p, text |-> t,
                                                  new |-> n, mtime |-> m, force |-> f]]
    BY <1>10 DEF WriteBegin
  <2>2. call'[a].pc # "idle" /\ call'[a].path = p
    BY <2>1 DEF TypeOK
  <2> QED
    BY <1>7, <2>2
<1>11. ASSUME NEW t \in Texts, WriteNothing(a, p, t)
       PROVE  draft'[p] = None
  BY <1>11 DEF WriteNothing, TypeOK
<1> QED
  BY <1>3, <1>4, <1>5, <1>6, <1>8, <1>9, <1>10, <1>11 DEF CallAt, CallStep

\* A refresh keeps the drafts no call is on: their files say what their rows do.
LEMMA DraftRefreshed ==
  ASSUME TypeOK, NEW p \in Paths, Held(p), Drafted(p), Refreshed(p), files' = files, draft' = draft
  PROVE  Drafted(p)'
<1> SUFFICES ASSUME draft[p] # None
             PROVE  \E i \in Pending(p)' : (rows'[p][i].type = "delete") <=> (draft[p] = Absent)
  BY DEF Drafted
<1>1. PICK i \in Pending(p) : (rows[p][i].type = "delete") <=> (draft[p] = Absent)
  BY DEF Drafted
<1>2. Visible(p) \subseteq {i}
  BY <1>1 DEF Visible, Held
<1>3. (files[p].text = Absent) <=> (draft[p] = Absent)
  BY OverlayAssumption DEF Drafted, TypeOK
<1>4. CASE rows'[p] = rows[p]
  BY <1>1, <1>4 DEF Pending
<1>5. CASE Removed(p) /\ files[p].text = Absent /\ \E j \in Visible(p) : rows[p][j].type = "create"
  BY <1>1, <1>2, <1>3, <1>5
<1>6. ASSUME NEW k \in Ids, Pending(p)' = {k},
             \/ /\ k \in Visible(p)
                /\ \/ rows'[p][k].type = rows[p][k].type
                   \/ files[p].text = Absent /\ rows[p][k].type = "modify" /\ rows'[p][k].type = "delete"
             \/ /\ files[p].text # Absent /\ \E j \in Visible(p) : rows[p][j].type = "delete"
                /\ rows'[p][k].type = "create"
      PROVE  (rows'[p][k].type = "delete") <=> (draft[p] = Absent)
  BY <1>1, <1>2, <1>3, <1>6
<1> QED
  BY <1>4, <1>5, <1>6 DEF Refreshed

\* Conflict markers hold the draft's text too.
LEMMA DraftMarked ==
  ASSUME TypeOK, NEW p \in Paths, Drafted(p), NEW ps, files' = Materialized(ps),
         rows' = rows, draft' = draft
  PROVE  Drafted(p)'
<1>1. \/ files'[p].text = files[p].text
      \/ files[p].text # Absent /\ files'[p].text = Marked
  BY DEF Materialized
<1>2. Pending(p)' = Pending(p)
  BY DEF Pending
<1> QED
  BY <1>1, <1>2 DEF Drafted

\* So does what keeps the rows' types, the text and the draft.
LEMMA DraftSame ==
  ASSUME NEW p \in Paths, Drafted(p), files'[p].text = files[p].text, draft'[p] = draft[p],
         Pending(p)' = Pending(p), \A i \in Pending(p) : rows'[p][i].type = rows[p][i].type
  PROVE  Drafted(p)'
  BY DEF Drafted

\* The steps of a run.
LEMMA DraftRunStep ==
  ASSUME "notFound" \notin Environment,
         TypeOK, LedgerInv, RunInv, DraftInv, run.pc # "idle", RunStep
  PROVE  DraftInv'
<1>1. run \in Run /\ run.todo \subseteq Item /\ run.paths \subseteq Paths
  BY RunFields
<1>2. call' = call
  BY RunStepRun
<1>3. OneCallAPath' /\ \A p \in Paths : CalmOn(p)' <=> CalmOn(p)
  BY <1>2 DEF DraftInv, OneCallAPath, CalmOn
<1>4. \A p \in run.paths : CalmOn(p)
  BY DEF RunInv, CalmOn
<1>5. ASSUME files' = files
      PROVE  \A a \in Actors : CallText(a)'
  BY <1>2, <1>5 DEF DraftInv, CallText
<1>6. ASSUME files' = files, draft' = draft, rows' = rows, run'.pc \notin {"put", "mark"}
      PROVE  DraftInv'
  <2>1. \A p \in Paths : Drafted(p) => Drafted(p)'
    BY <1>6, DraftSame DEF Pending
  <2> QED
    BY <1>3, <1>5, <1>6, <2>1 DEF DraftInv
<1>7. ASSUME NEW c \in run.todo, KeepOpPending(c.path, c.op.id), mem' = mem,
             files' = files, draft' = draft,
             run' = Failed(c) \/ run' = [Failed(c) EXCEPT !.conflicts = @ \cup {c.path}]
      PROVE  DraftInv'
  <2>1. \A q \in Paths : Pending(q)' = Pending(q) /\ \A i \in Ids : rows'[q][i].type = rows[q][i].type
    BY <1>7, ItemKept DEF Kept, Pending
  <2>2. \A p \in Paths : Drafted(p) => Drafted(p)'
    BY <1>7, <2>1, DraftSame DEF Pending
  <2>3. run'.pc = "next"
    BY <1>1, <1>7, FailedIsRun
  <2> QED
    BY <1>3, <1>5, <1>7, <2>2, <2>3 DEF DraftInv
<1>8. CASE Detect
  <2>1. draft' = draft /\ rows' = rows /\ run'.pc \in {"approve", "refresh"}
    BY <1>1, <1>8 DEF Detect, Run
  <2>2. CASE files' = files
    BY <1>6, <2>1, <2>2
  <2>3. CASE files' = Materialized(InConflict(run.paths))
    <3>1. \A p \in Paths : Drafted(p) => Drafted(p)'
      BY <2>1, <2>3, DraftMarked
    <3>2. \A p \in Paths : ~CalmOn(p) => files'[p] = files[p]
      BY <1>4, <2>3 DEF Materialized, InConflict
    <3>3. \A a \in Actors : call[a].pc = "row" => call[a].path \in Paths
      BY DEF TypeOK, IdleCall, WriteCall, DeleteCall, DiscardCall
    <3>4. \A a \in Actors : CallText(a)'
      BY <1>2, <3>2, <3>3 DEF DraftInv, CallText, CalmOn
    <3> QED
      BY <1>3, <2>1, <3>1, <3>4 DEF DraftInv
  <2> QED
    BY <1>8, <2>2, <2>3 DEF Detect
<1>9. CASE Approve
  <2>1. draft' = draft /\ files' = files /\ run'.pc \notin {"put", "mark"}
    BY <1>1, <1>9 DEF Approve, Run
  <2>2. CASE rows' = rows
    BY <1>6, <2>1, <2>2
  <2>3. CASE \A p \in Paths : Pending(p)' = Pending(p) /\ \A i \in Ids : rows'[p][i].type = rows[p][i].type
    <3>1. \A p \in Paths : Drafted(p) => Drafted(p)'
      BY <2>1, <2>3, DraftSame DEF Pending
    <3> QED
      BY <1>3, <1>5, <2>1, <3>1 DEF DraftInv
  <2> QED
    BY <1>9, <2>2, <2>3, ApproveStep
<1>10. CASE SyncBegin \/ SyncThrows \/ SyncDone \/ Finish
  <2>1. /\ files' = files /\ draft' = draft /\ rows' = rows
        /\ \/ run' = IdleRun
           \/ \E pc \in {"refresh", "finish"} : run' = [run EXCEPT !.pc = pc]
           \/ \E todo : run' = [run EXCEPT !.pc = "next", !.todo = todo]
           \/ run' = [run EXCEPT !.pc = "sync", !.forced = TRUE]
    BY <1>10 DEF SyncBegin, SyncThrows, SyncDone, Finish
  <2>2. run'.pc \notin {"put", "mark"}
    <3>1. CASE run' = IdleRun
      BY <3>1 DEF IdleRun
    <3>2. CASE run' # IdleRun
      BY <1>1, <2>1, <3>2 DEF Run
    <3> QED
      BY <3>1, <3>2
  <2> QED
    BY <1>6, <2>1, <2>2
<1>11. CASE \E c \in run.todo : SyncRefuse(c) \/ SyncNoContent(c)
  BY <1>7, <1>11 DEF SyncRefuse, SyncNoContent
<1>12. ASSUME NEW c \in run.todo, SyncRead(c)
       PROVE  DraftInv'
  <2>1. PICK p \in Paths : p = c.path /\ p \in run.paths /\ mem[p] = c.op /\ mem[p] # None
    BY ItemHeld
  <2>2. PICK i \in Ids : Pending(p) = {i} /\ mem[p] = Entry(p, i)
    BY <2>1, HeldRow DEF LedgerInv
  <2>3. c.op.type = rows[p][i].type
    BY <2>1, <2>2 DEF Entry
  <2> DEFINE text == IF c.op.type = "delete" THEN Absent ELSE files[p].text
  <2>4. draft[p] \in {None, text}
    <3>1. Drafted(p)
      BY <1>4, <2>1 DEF DraftInv
    <3>2. c.op.type # "delete" => files[p].text # Marked
      BY <1>12, <2>1 DEF SyncRead
    <3> QED
      BY <2>2, <2>3, <3>1, <3>2 DEF Drafted
  <2>5. run' = [run EXCEPT !.pc = "put", !.cur = [item |-> c, text |-> text]]
    BY <1>12, <2>1 DEF SyncRead
  <2> HIDE DEF text
  <2>6. run'.pc = "put" /\ run'.cur.item.path = p /\ run'.cur.text = text
    BY <1>1, <2>1, <2>5 DEF Run
  <2>7. files' = files /\ draft' = draft /\ rows' = rows
    BY <1>12 DEF SyncRead
  <2>8. \A q \in Paths : Drafted(q) => Drafted(q)'
    BY <2>7, DraftSame DEF Pending
  <2> QED
    BY <1>3, <1>5, <2>4, <2>6, <2>7, <2>8 DEF DraftInv
<1>13. CASE SyncPut
  <2>1. run.pc = "put" /\ run.cur \in Current
    BY <1>13 DEF SyncPut, TypeOK
  <2>2. PICK p \in Paths : p = run.cur.item.path /\ draft[p] \in {None, run.cur.text}
    BY <2>1 DEF DraftInv, Current, Item
  <2>3. files' = files /\ rows' = rows /\ draft'[p] = None /\ \A q \in Paths \ {p} : draft'[q] = draft[q]
    BY <1>13, <2>2 DEF SyncPut, TypeOK
  <2>4. run'.pc = "mark" /\ run'.cur = run.cur
    BY <1>1, <1>13 DEF SyncPut, Run
  <2>5. \A q \in Paths : Drafted(q) => Drafted(q)'
    BY <2>3, DraftSame DEF Pending, Drafted
  <2> QED
    BY <1>3, <1>5, <2>2, <2>3, <2>4, <2>5 DEF DraftInv
<1>14. CASE SyncPutFails
  <2>1. run.cur.item \in run.todo
    BY <1>14 DEF SyncPutFails, RunInv
  <2> QED
    BY <1>7, <1>14, <2>1 DEF SyncPutFails
<1>15. CASE SyncMark
  <2>1. PICK p \in Paths : p = run.cur.item.path /\ (\A q \in Paths \ {p} : Kept(q))
    BY <1>15, ItemSynced
  <2>2. files' = files /\ draft' = draft /\ draft[p] = None
    BY <1>15, <2>1 DEF SyncMark, DraftInv
  <2>3. run'.pc = "next"
    BY <1>1, <1>15 DEF SyncMark, Run
  <2>4. \A q \in Paths : Drafted(q) => Drafted(q)'
    BY <2>1, <2>2, DraftSame DEF Kept, Pending, Drafted
  <2> QED
    BY <1>3, <1>5, <2>2, <2>3, <2>4 DEF DraftInv
<1>16. CASE FinalRefresh
  <2>1. files' = files /\ draft' = draft /\ run' = IdleRun
    BY <1>16 DEF FinalRefresh
  <2>2. \A p \in Paths : Drafted(p) => Drafted(p)'
    BY <1>16, <2>1, RefreshEffect, DraftRefreshed DEF FinalRefresh, LedgerInv
  <2> QED
    BY <1>3, <1>5, <2>1, <2>2 DEF DraftInv, IdleRun
<1> QED
  BY <1>8, <1>9, <1>10, <1>11, <1>12, <1>13, <1>14, <1>15, <1>16 DEF RunStep

\* Every step.
LEMMA DraftNext ==
  ASSUME Environment \cap {"callsDuringRun", "samePath", "refreshDuringRun", "notFound", "sameText"} = {},
         TypeOK, LedgerInv, RunInv, DraftInv, [Next]_vars
  PROVE  DraftInv'
<1>1. ASSUME NEW a \in Actors, NEW p \in Paths, CallAt(a, p)
      PROVE  DraftInv'
  <2>1. /\ \A q \in Paths \ {p} : /\ Kept(q) /\ files'[q] = files[q] /\ draft'[q] = draft[q]
        /\ \A b \in Actors \ {a} : call'[b] = call[b]
        /\ call'[a].pc = "idle" \/ call'[a].path = p
        /\ run' = run
    BY <1>1, CallFrame
  <2>2. OneCallAPath'
    BY <1>1, <2>1, CallAlone DEF DraftInv, OneCallAPath
  <2>3. \A b \in Actors : CallText(b)'
    BY <1>1, CallTextStep DEF DraftInv
  <2>4. CalmOn(p)' => Drafted(p)'
    BY <1>1, DraftCall DEF DraftInv, LedgerInv
  <2>5. ASSUME NEW q \in Paths \ {p}, CalmOn(q)'
        PROVE  Drafted(q)'
    <3>1. Drafted(q)
      BY <1>1, <2>5, CallCalm DEF DraftInv
    <3> QED
      BY <2>1, <3>1, DraftSame DEF Kept, Pending
  <2>6. ASSUME run.pc \in {"put", "mark"}
        PROVE  run.cur.item.path \in Paths \ {p}
    <3>1. p \notin run.paths /\ run.paths \subseteq Paths
      BY <1>1, <2>6, CallAway, RunFields
    <3>2. run.cur.item.path \in run.paths
      BY <2>6 DEF RunInv
    <3> QED
      BY <3>1, <3>2
  <2>7. ASSUME run.pc \in {"put", "mark"}
        PROVE  draft'[run.cur.item.path] = draft[run.cur.item.path]
    BY <2>1, <2>6, <2>7
  <2> QED
    BY <2>1, <2>2, <2>3, <2>4, <2>5, <2>7 DEF DraftInv
<1>2. ASSUME files' = files, draft' = draft, rows' = rows, call' = call,
             run' = run \/ run'.pc \notin {"put", "mark"}
      PROVE  DraftInv'
  <2>1. \A p \in Paths : Drafted(p) => Drafted(p)'
    BY <1>2, DraftSame DEF Pending
  <2>2. OneCallAPath' /\ (\A a \in Actors : CallText(a)') /\ \A p \in Paths : CalmOn(p)' <=> CalmOn(p)
    BY <1>2 DEF DraftInv, OneCallAPath, CallText, CalmOn
  <2> QED
    BY <1>2, <2>1, <2>2 DEF DraftInv
<1>3. ASSUME NEW r, Starts(r)
      PROVE  DraftInv'
  BY <1>2, <1>3 DEF Starts, Begin
<1>4. CASE Refresh
  <2>1. files' = files /\ draft' = draft /\ call' = call /\ run' = run /\ run.pc = "idle"
    BY <1>4 DEF Refresh, MayRefresh
  <2>2. \A p \in Paths : Drafted(p) => Drafted(p)'
    BY <1>4, <2>1, RefreshEffect, DraftRefreshed DEF Refresh, LedgerInv
  <2>3. OneCallAPath' /\ (\A a \in Actors : CallText(a)') /\ \A p \in Paths : CalmOn(p)' <=> CalmOn(p)
    BY <2>1 DEF DraftInv, OneCallAPath, CallText, CalmOn
  <2> QED
    BY <2>1, <2>2, <2>3 DEF DraftInv
<1>5. CASE DetectConflicts
  <2>1. draft' = draft /\ rows' = rows /\ call' = call /\ run' = run /\ run.pc = "idle"
        /\ files' = Materialized(InConflict(Paths))
    BY <1>5 DEF DetectConflicts, MayRun
  <2>2. \A a \in Actors : call[a].pc = "idle"
    <3>1. \A a \in Actors : call[a].pc = "idle" \/ call[a].path \in Paths
      BY DEF TypeOK, IdleCall, WriteCall, DeleteCall, DiscardCall
    <3> QED
      BY <1>5, <3>1 DEF DetectConflicts, MayRun, Calm, CalmOn
  <2>3. \A p \in Paths : Drafted(p)'
    BY <2>1, <2>2, DraftMarked DEF DraftInv, CalmOn
  <2> QED
    BY <2>1, <2>2, <2>3 DEF DraftInv, OneCallAPath, CallText
<1>6. CASE run.pc # "idle" /\ RunStep
  BY <1>6, DraftRunStep
<1>7. CASE UNCHANGED vars \/ \E p \in Paths, t \in Texts \cup {Absent} : ExternalEdit(p, t)
  BY <1>2, <1>7 DEF vars, ExternalEdit
<1>8. CASE Crash
  <2>1. files' = files /\ rows' = rows /\ run' = IdleRun /\ call' = [a \in Actors |-> IdleCall]
        /\ draft' = [p \in Paths |-> IF CalmOn(p) THEN draft[p] ELSE None]
    BY <1>8 DEF Crash
  <2>2. \A p \in Paths : Drafted(p)'
    <3> SUFFICES ASSUME NEW p \in Paths PROVE Drafted(p)'
      OBVIOUS
    <3>1. CASE CalmOn(p)
      BY <2>1, <3>1, DraftSame DEF DraftInv, Pending
    <3>2. CASE ~CalmOn(p)
      BY <2>1, <3>2 DEF Drafted
    <3> QED
      BY <3>1, <3>2
  <2>3. \A a \in Actors : call'[a].pc = "idle"
    BY <2>1 DEF IdleCall
  <2> QED
    BY <2>1, <2>2, <2>3 DEF DraftInv, OneCallAPath, CallText, IdleRun
<1> QED
  BY <1>1, <1>3, <1>4, <1>5, <1>6, <1>7, <1>8, NextCases

\* The invariants of the drafts together.
DraftsInv == TypeOK /\ LedgerInv /\ RunInv /\ DraftInv

LEMMA DraftsInvariant ==
  ASSUME Environment \cap {"callsDuringRun", "samePath", "refreshDuringRun", "notFound", "sameText"} = {}
  PROVE  Spec => []DraftsInv
<1>1. Init => DraftsInv
  <2>1. Init => DraftInv
    BY DEF Init, IdleCall, IdleRun, DraftInv, OneCallAPath, CallText, Drafted
  <2> QED
    BY <2>1, TypeInit, MapInit DEF DraftsInv
<1>2. DraftsInv /\ [Next]_vars => DraftsInv'
  BY TypeNext, MapNext, DraftNext DEF DraftsInv
<1> QED
  BY <1>1, <1>2, PTL DEF Spec

\* What a tool call was told is pending stays in the ledger until it is on the disk or
\* discarded, through failing disks, lost authorization, reloads of the page and other
\* programs' edits, by every kind of sync: only a call or a refresh that meets a run on
\* its paths, two calls on one path, a NotFound taken for success, or a write of what
\* the draft already says could lose it.
THEOREM DraftsTracked ==
  ASSUME Environment \cap {"callsDuringRun", "samePath", "refreshDuringRun", "notFound", "sameText"} = {}
  PROVE  Spec => []DraftTracked
<1>1. DraftsInv => DraftTracked
  BY DEF DraftsInv, DraftInv, Drafted, DraftTracked
<1> QED
  BY <1>1, DraftsInvariant, PTL

\* And its text stays in files/, or in conflict markers, all that time.
THEOREM DraftsStored ==
  ASSUME Environment \cap {"callsDuringRun", "samePath", "refreshDuringRun", "notFound", "sameText"} = {}
  PROVE  Spec => []DraftStored
<1>1. DraftsInv => DraftStored
  BY DEF DraftsInv, DraftInv, Drafted, DraftStored
<1> QED
  BY <1>1, DraftsInvariant, PTL

-----------------------------------------------------------------------------
(* Map entries and their mtimes *)

\* What PendingManager.add and its like make of the entry of a path.
LEMMA RecordEntry ==
  ASSUME TypeOK, NEW p \in Paths, Held(p), mem[p] = None => Pending(p) = {},
         NEW type \in OpTypes, NEW mtime \in Nat, NEW force \in BOOLEAN, Record(p, type, mtime, force)
  PROVE  /\ mem'[p] # None /\ mem'[p].type = type
         /\ mem'[p].mtime = IF mem[p] # None /\ mem[p].mtime > 0 /\ ~(force /\ mtime > 0)
                              THEN mem[p].mtime ELSE mtime
<1>1. LedgerOK
  BY DEF TypeOK, LedgerOK
<1>2. PICK i \in Ids : /\ Pending(p) = {i} \/ (Pending(p) = {} /\ rows[p][i].status = "free")
                       /\ rows'[p][i] = UpsertPendingOp(rows[p][i], type, mtime, force)
                       /\ Pending(p)' = {i} /\ mem'[p] = Entry(p, i)'
  BY <1>1, RecordEffect
<1>3. mem'[p] # None /\ mem'[p].type = rows'[p][i].type /\ mem'[p].mtime = rows'[p][i].mtime
  <2>1. rows' \in [Paths -> [Ids -> Row]]
    BY <1>1, RecordOK DEF LedgerOK
  <2> QED
    BY <1>2, <2>1, EntryThere DEF Entry
<1>4. CASE Pending(p) = {i}
  <2>1. mem[p] # None /\ mem[p].mtime = rows[p][i].mtime /\ rows[p][i].status = "pending"
    <3>1. mem[p] # None
      BY <1>4
    <3>2. i = mem[p].id /\ mem[p] = Entry(p, i)
      BY <1>4, <3>1, HeldRow
    <3> QED
      BY <1>4, <3>1, <3>2 DEF Entry, Pending
  <2> QED
    BY <1>2, <1>3, <2>1 DEF UpsertPendingOp
<1>5. CASE Pending(p) = {} /\ rows[p][i].status = "free"
  <2>1. mem[p] = None
    BY <1>5, HeldRow
  <2> QED
    BY <1>2, <1>3, <1>5, <2>1 DEF UpsertPendingOp
<1> QED
  BY <1>2, <1>4, <1>5

\* What a refresh makes of it.
LEMMA RefreshEntry ==
  ASSUME TypeOK, rows' \in [Paths -> [Ids -> Row]], NEW p \in Paths, Held(p), Refreshed(p)
  PROVE  \/ mem'[p] = None
         \/ /\ mem[p] # None /\ mem'[p].mtime = mem[p].mtime
            /\ \/ mem'[p].type = mem[p].type
               \/ files[p].text = Absent /\ mem'[p].type = "delete"
         \/ /\ mem[p] # None /\ mem[p].type = "delete" /\ files[p].text # Absent
            /\ mem'[p].type = "create" /\ mem'[p].mtime = files[p].mtime
<1>1. \A j \in Visible(p) : mem[p] # None /\ mem[p].type = rows[p][j].type /\ mem[p].mtime = rows[p][j].mtime
  <2> SUFFICES ASSUME NEW j \in Visible(p)
               PROVE  mem[p] # None /\ mem[p].type = rows[p][j].type /\ mem[p].mtime = rows[p][j].mtime
    OBVIOUS
  <2>1. mem[p] # None /\ j \in Pending(p)
    BY DEF Held, Visible
  <2>2. j = mem[p].id /\ mem[p] = Entry(p, j)
    BY <2>1, HeldRow
  <2> QED
    BY <2>1, <2>2 DEF Entry
<1>2. ASSUME NEW i \in Ids, mem'[p] = Entry(p, i)'
      PROVE  mem'[p].type = rows'[p][i].type /\ mem'[p].mtime = rows'[p][i].mtime
  BY <1>2 DEF Entry
<1> QED
  BY <1>1, <1>2 DEF Refreshed, Removed

\* Nothing is newer than the clock, and no file has no mtime.
TimeInv ==
  /\ \A p \in Paths : /\ disk[p].mtime \in 0 .. clock /\ files[p].mtime \in 0 .. clock
                      /\ disk[p].text = Absent => disk[p].mtime = 0
                      /\ mem[p] # None => mem[p].mtime \in 0 .. clock
  /\ \A a \in Actors : call[a].pc # "idle" /\ call[a].op # "discard" => call[a].mtime \in 0 .. clock

\* What a step of the run does to the map.
LEMMA RunEntry ==
  ASSUME TypeOK, LedgerInv, RunInv, run.pc # "idle", RunStep
  PROVE  \/ FinalRefresh
         \/ SyncMark /\ \E p \in Paths : mem'[p] = None /\ \A q \in Paths \ {p} : mem'[q] = mem[q]
         \/ mem' = mem /\ ~SyncMark /\ ~FinalRefresh
<1>1. CASE FinalRefresh
  BY <1>1
<1>2. CASE SyncMark
  BY <1>2, ItemSynced DEF Kept, Removed
<1>3. CASE ~SyncMark /\ ~FinalRefresh
  BY <1>3, SyncStep, ApproveStep
<1> QED
  BY <1>1, <1>2, <1>3

\* Calls take their mtimes from what is there.
LEMMA TimeCall ==
  ASSUME TypeOK, LedgerInv, StrandInv, TimeInv, NEW a \in Actors, NEW p \in Paths, CallAt(a, p)
  PROVE  TimeInv'
<1>1. /\ \A q \in Paths \ {p} : Kept(q) /\ files'[q] = files[q]
      /\ \A b \in Actors \ {a} : call'[b] = call[b]
      /\ disk' = disk /\ clock' \in {clock, clock + 1}
  BY CallFrame
<1>2. clock \in Nat /\ clock' \in Nat /\ 0 .. clock \subseteq 0 .. clock'
  BY <1>1 DEF TypeOK
<1>3. Held(p) /\ (mem[p] = None => Pending(p) = {})
  BY DEF LedgerInv, StrandInv
<1>4. files'[p].mtime \in 0 .. clock'
  <2>1. files[p].mtime \in 0 .. clock'
    BY <1>2 DEF TimeInv
  <2>2. files' = files \/ \E text, mtime : /\ files' = [files EXCEPT ![p] = [text |-> text, mtime |-> mtime]]
                                           /\ mtime = 0 \/ (mtime = clock + 1 /\ clock' = clock + 1)
    BY DEF CallAt, CallStep, WriteFiles, WriteRow, DeleteBegin, DeleteFiles, DeleteRow, DiscardFiles, DiscardRow,
           WriteNothing, WriteBegin, Gone
  <2> QED
    BY <1>2, <2>1, <2>2 DEF TypeOK
<1>5. mem'[p] # None => mem'[p].mtime \in 0 .. clock'
  <2>1. CASE Kept(p)
    BY <1>2, <2>1 DEF Kept, TimeInv
  <2>2. CASE Removed(p)
    BY <2>2 DEF Removed
  <2>3. CASE RemoveByPath(p)
    BY <2>1, <2>2, <2>3, RemoveEffect DEF TypeOK, LedgerOK
  <2>4. ASSUME NEW type \in OpTypes, NEW mtime \in Nat, NEW force \in BOOLEAN, Record(p, type, mtime, force),
               mtime \in 0 .. clock
        PROVE  mem'[p].mtime \in 0 .. clock'
    <3>1. mem'[p].mtime = mtime \/ (mem[p] # None /\ mem'[p].mtime = mem[p].mtime)
      BY <1>3, <2>4, RecordEntry
    <3> QED
      BY <1>2, <2>4, <3>1 DEF TimeInv
  <2>5. CASE WriteRow(a) /\ call[a].path = p
    <3>1. call[a] \in WriteCall
      BY <2>5 DEF WriteRow, TypeOK, IdleCall, DeleteCall, DiscardCall
    <3>2. call[a].mtime \in 0 .. clock
      BY <2>5 DEF WriteRow, TimeInv
    <3>3. (IF call[a].new THEN "create" ELSE TypeOfEdit(p)) \in OpTypes
          /\ call[a].mtime \in Nat /\ call[a].force \in BOOLEAN
      BY <3>1 DEF OpTypes, TypeOfEdit, WriteCall
    <3> QED
      BY <2>4, <2>5, <3>2, <3>3 DEF WriteRow
  <2>6. CASE DeleteRow(a) /\ call[a].path = p
    <3>1. call[a] \in DeleteCall
      BY <2>6 DEF DeleteRow, TypeOK, IdleCall, WriteCall, DiscardCall
    <3>2. call[a].mtime \in 0 .. clock
      BY <2>6 DEF DeleteRow, TimeInv
    <3>3. "delete" \in OpTypes /\ call[a].mtime \in Nat
      BY <3>1 DEF OpTypes, DeleteCall
    <3> QED
      BY <2>3, <2>4, <2>6, <3>2, <3>3 DEF DeleteRow
  <2>7. CASE DiscardRow(a) /\ call[a].path = p
    BY <2>3, <2>7 DEF DiscardRow
  <2>8. CASE WriteFiles(a) \/ DeleteFiles(a) \/ DeleteBegin(a, p) \/ DiscardFiles(a, p)
    BY <2>1, <2>8 DEF WriteFiles, DeleteFiles, DeleteBegin, DiscardFiles, Kept
  <2>9. ASSUME NEW t \in Texts, WriteBegin(a, p, t)
        PROVE  Kept(p)
    BY <2>9 DEF WriteBegin, Kept
  <2>10. ASSUME NEW t \in Texts, WriteNothing(a, p, t)
         PROVE  RemoveByPath(p)
    BY <2>10 DEF WriteNothing
  <2> QED
    BY <2>1, <2>3, <2>5, <2>6, <2>7, <2>8, <2>9, <2>10 DEF CallAt, CallStep
<1>6. call'[a].pc # "idle" /\ call'[a].op # "discard" => call'[a].mtime \in 0 .. clock'
  <2>1. CASE (WriteFiles(a) \/ DeleteFiles(a)) /\ call[a].path = p
    <3>1. call'[a] = [call[a] EXCEPT !.pc = "row"] /\ call[a].pc = "files"
      BY <2>1 DEF WriteFiles, DeleteFiles, TypeOK
    <3>2. call[a] \in WriteCall \cup DeleteCall
      BY <3>1 DEF TypeOK, IdleCall, DiscardCall
    <3>3. call'[a].mtime = call[a].mtime /\ call[a].op # "discard"
      BY <3>1, <3>2 DEF WriteCall, DeleteCall
    <3> QED
      BY <1>2, <3>1, <3>3 DEF TimeInv
  <2>2. CASE WriteRow(a) \/ DeleteRow(a) \/ DiscardRow(a)
    <3>1. call'[a] = IdleCall
      BY <2>2 DEF WriteRow, DeleteRow, DiscardRow, TypeOK
    <3> QED
      BY <3>1 DEF IdleCall
  <2>3. CASE DeleteBegin(a, p)
    <3>1. call'[a].mtime = disk[p].mtime
      BY <2>3 DEF DeleteBegin, TypeOK
    <3> QED
      BY <1>2, <3>1 DEF TimeInv
  <2>4. CASE DiscardFiles(a, p)
    <3>1. call'[a].op = "discard"
      BY <2>4 DEF DiscardFiles, TypeOK
    <3> QED
      BY <3>1
  <2>5. ASSUME NEW t \in Texts, WriteBegin(a, p, t)
        PROVE  call'[a].mtime \in 0 .. clock'
    <3>1. \E n, f : call' = [call EXCEPT ![a] = [pc |-> "files", op |-> "write", path |-> p, text |-> t,
                                                 new |-> n, mtime |-> Based(p).mtime, force |-> f]]
      BY <2>5 DEF WriteBegin
    <3>2. call'[a].mtime = Based(p).mtime
      BY <3>1 DEF TypeOK
    <3>3. Based(p).mtime \in {disk[p].mtime, files[p].mtime, 0}
      BY DEF Based
    <3> QED
      BY <1>2, <3>2, <3>3 DEF TimeInv
  <2>6. ASSUME NEW t \in Texts, WriteNothing(a, p, t)
        PROVE  call'[a].pc = "idle"
    BY <2>6 DEF WriteNothing
  <2> QED
    BY <2>1, <2>2, <2>3, <2>4, <2>5, <2>6 DEF CallAt, CallStep
<1>7. ASSUME NEW q \in Paths \ {p}
      PROVE  /\ disk'[q].mtime \in 0 .. clock' /\ files'[q].mtime \in 0 .. clock'
             /\ disk'[q].text = Absent => disk'[q].mtime = 0
             /\ mem'[q] # None => mem'[q].mtime \in 0 .. clock'
  BY <1>1, <1>2 DEF TimeInv, Kept
<1>8. disk'[p].mtime \in 0 .. clock' /\ (disk'[p].text = Absent => disk'[p].mtime = 0)
  BY <1>1, <1>2 DEF TimeInv
<1>9. \A b \in Actors \ {a} : call'[b].pc # "idle" /\ call'[b].op # "discard" => call'[b].mtime \in 0 .. clock'
  BY <1>1, <1>2 DEF TimeInv
<1> QED
  BY <1>4, <1>5, <1>6, <1>7, <1>8, <1>9 DEF TimeInv

\* Every step.
LEMMA TimeNext ==
  ASSUME TypeOK, LedgerInv, RunInv, StrandInv, TimeInv, [Next]_vars
  PROVE  TimeInv'
<1>1. clock \in Nat /\ 0 .. clock \subseteq 0 .. (clock + 1) /\ clock + 1 \in 0 .. (clock + 1)
  BY DEF TypeOK
<1>2. ASSUME clock' = clock \/ clock' = clock + 1, call' = call,
             \A p \in Paths : /\ disk'[p] = disk[p] \/ disk'[p] = Gone
                                 \/ (disk'[p].text # Absent /\ disk'[p].mtime = clock + 1 /\ clock' = clock + 1)
                              /\ files'[p] = files[p] \/ (files'[p].mtime = clock + 1 /\ clock' = clock + 1)
                              /\ mem'[p] = None \/ mem'[p] = mem[p]
                                 \/ (mem[p] # None /\ mem'[p].mtime = mem[p].mtime) \/ mem'[p].mtime = files[p].mtime
      PROVE  TimeInv'
  BY <1>1, <1>2 DEF TimeInv, Gone
<1>3. ASSUME NEW r, Starts(r)
      PROVE  TimeInv'
  BY <1>2, <1>3 DEF Starts, Begin
<1>4. CASE RefreshAll /\ UNCHANGED <<disk, files, clock, call>>
  <2>1. \A p \in Paths : Refreshed(p) /\ Held(p)
    BY <1>4, RefreshEffect DEF LedgerInv
  <2>2. rows' \in [Paths -> [Ids -> Row]]
    BY <1>4, RefreshOK DEF TypeOK, LedgerOK
  <2>3. \A p \in Paths : \/ mem'[p] = None \/ mem'[p].mtime = files[p].mtime
                         \/ mem[p] # None /\ mem'[p].mtime = mem[p].mtime
    BY <2>1, <2>2, RefreshEntry
  <2> QED
    BY <1>2, <1>4, <2>3
<1>5. ASSUME NEW ps, files' = Materialized(ps), clock' = clock + 1, UNCHANGED <<disk, mem, call>>
      PROVE  TimeInv'
  <2>1. \A p \in Paths : files'[p] = files[p] \/ files'[p].mtime = clock + 1
    BY <1>5 DEF Materialized
  <2> QED
    BY <1>2, <1>5, <2>1
<1>6. CASE run.pc # "idle" /\ RunStep
  <2>1. call' = call
    BY <1>6, RunStepRun
  <2>2. CASE FinalRefresh
    BY <1>4, <2>2 DEF FinalRefresh
  <2>3. CASE SyncMark
    BY <1>2, <1>6, <2>1, <2>3, RunEntry DEF SyncMark
  <2>4. CASE Detect
    BY <1>2, <1>5, <2>4 DEF Detect
  <2>5. CASE SyncPut
    <3>1. run.cur \in Current
      BY <2>5 DEF SyncPut, TypeOK
    <3>2. PICK p \in Paths : p = run.cur.item.path
      BY <3>1 DEF Current, Item
    <3>3. /\ \A q \in Paths \ {p} : disk'[q] = disk[q]
          /\ \/ disk'[p] = Gone /\ clock' = clock
             \/ disk'[p].text # Absent /\ disk'[p].mtime = clock + 1 /\ clock' = clock + 1
          /\ files' = files /\ mem' = mem
      BY <2>5, <3>2 DEF SyncPut, TypeOK
    <3> QED
      BY <1>2, <2>1, <3>3
  <2>6. CASE ~FinalRefresh /\ ~SyncMark /\ ~Detect /\ ~SyncPut
    <3>1. mem' = mem
      BY <1>6, <2>6, RunEntry
    <3>2. UNCHANGED <<disk, files, clock>>
      BY <1>6, <2>6 DEF RunStep, Approve, SyncBegin, SyncThrows, SyncRefuse, SyncNoContent, SyncRead, SyncPutFails,
                        SyncDone, Finish
    <3> QED
      BY <1>2, <2>1, <3>1, <3>2
  <2> QED
    BY <2>2, <2>3, <2>4, <2>5, <2>6
<1>7. ASSUME NEW p \in Paths, NEW t \in Texts \cup {Absent}, ExternalEdit(p, t)
      PROVE  TimeInv'
  <2>1. /\ \A q \in Paths \ {p} : disk'[q] = disk[q]
        /\ disk'[p] = Gone \/ (disk'[p].text # Absent /\ disk'[p].mtime = clock + 1)
        /\ clock' = clock + 1 /\ UNCHANGED <<files, mem, call>>
    BY <1>7 DEF ExternalEdit, TypeOK
  <2> QED
    BY <1>2, <2>1
<1>8. CASE Crash
  <2>1. /\ UNCHANGED <<disk, files, clock>> /\ \A a \in Actors : call'[a].pc = "idle"
    BY <1>8 DEF Crash, IdleCall
  <2>2. \A p \in Paths : mem'[p] # None => mem'[p].mtime \in 0 .. clock
    <3> SUFFICES ASSUME NEW p \in Paths, mem'[p] # None
                 PROVE  mem'[p].mtime \in 0 .. clock
      OBVIOUS
    <3>1. Held(p) /\ Held(p)' /\ rows'[p] = rows[p] /\ mem'[p].id \in Visible(p)
      BY <1>8, CrashEffect DEF LedgerInv
    <3>2. mem[p] # None
      BY <3>1 DEF Held
    <3>3. PICK i \in Pending(p) : i = mem'[p].id
      BY <3>1 DEF Visible
    <3>4. mem[p] = Entry(p, i) /\ mem'[p] = Entry(p, i)'
      BY <3>1, <3>2, <3>3, HeldRow DEF Held
    <3>5. mem'[p].mtime = mem[p].mtime
      BY <3>1, <3>3, <3>4 DEF Entry
    <3> QED
      BY <3>2, <3>5 DEF TimeInv
  <2> QED
    BY <2>1, <2>2 DEF TimeInv
<1> QED
  <2>1. ASSUME NEW a \in Actors, NEW p \in Paths, CallAt(a, p) PROVE TimeInv'
    BY <2>1, TimeCall
  <2>2. CASE Refresh
    BY <1>4, <2>2 DEF Refresh
  <2>3. CASE DetectConflicts
    BY <1>5, <2>3 DEF DetectConflicts
  <2>4. CASE UNCHANGED vars
    BY <1>2, <2>4 DEF vars
  <2> QED
    BY <1>3, <1>6, <1>7, <1>8, <2>1, <2>2, <2>3, <2>4, NextCases

-----------------------------------------------------------------------------
(* What a draft was made from *)

\* If the disk is no newer than an mtime, the draft was made from what it says.
KeyAt(p, m) == m > 0 /\ disk[p].text # Absent /\ disk[p].mtime <= m => disk[p].text \in origin[p]

\* An op with a disk mtime has a baseline, and its mtime tells.
Rooted(p) == mem[p] # None => (mem[p].mtime > 0 => baseline[p] # None) /\ KeyAt(p, mem[p].mtime)

\* The same of a call, where its own mtime is the one the row will get; a discard,
\* and the delete of a created file, have dropped the baseline.
Drops(a, p) == call[a].op = "discard" \/ (call[a].op = "delete" /\ mem[p] # None /\ mem[p].type = "create")
Takes(a, p) == mem[p] = None \/ mem[p].mtime = 0 \/ (call[a].op = "write" /\ call[a].force)
CallRooted(a, p) ==
  call[a].pc # "idle" /\ call[a].path = p =>
    IF Drops(a, p) THEN baseline[p] = None
    ELSE /\ Rooted(p)
         /\ call[a].mtime > 0 => baseline[p] # None
         /\ Takes(a, p) => KeyAt(p, call[a].mtime)

\* Between calls a path without an op has no baseline, but for the paths a sync has
\* written and not cleaned up yet, and a deleted one has no file.
CalmRooted(p) ==
  /\ mem[p] = None => baseline[p] = None \/ run.pc \in {"next", "put", "mark"}
  /\ Rooted(p)
  /\ mem[p] # None /\ mem[p].type = "delete" => files[p].text = Absent

\* A baseline is one of the texts the draft was made from.
BaseFrom(p) == baseline[p] \in {None} \cup (origin[p] \ {Absent})

RootInv ==
  /\ OneCallAPath
  /\ run.pc # "idle" => Calm
  /\ \A a \in Actors : CallText(a)
  /\ \A a \in Actors, p \in Paths : CallRooted(a, p)
  /\ \A p \in Paths : BaseFrom(p) /\ (CalmOn(p) => CalmRooted(p))

\* What a draft was made from stays so as long as its op and baseline do, whatever
\* becomes of the disk.
LEMMA RootedKept ==
  ASSUME TypeOK, TimeInv, NEW p \in Paths, Rooted(p),
         mem'[p] # None => mem[p] # None /\ mem'[p].mtime = mem[p].mtime,
         mem'[p] # None => baseline'[p] = baseline[p], origin'[p] = origin[p],
         disk'[p] = disk[p] \/ disk'[p].text = Absent \/ disk'[p].mtime = clock + 1
  PROVE  Rooted(p)'
<1> SUFFICES ASSUME mem'[p] # None
             PROVE  (mem'[p].mtime > 0 => baseline'[p] # None) /\ KeyAt(p, mem[p].mtime)'
  BY DEF Rooted, KeyAt
<1>1. mem[p].mtime \in 0 .. clock /\ clock \in Nat
  BY DEF TimeInv, TypeOK
<1>2. \A m \in 0 .. clock : KeyAt(p, m) /\ (disk'[p] = disk[p] \/ disk'[p].text = Absent \/ disk'[p].mtime = clock + 1)
        => (m > 0 /\ disk'[p].text # Absent /\ disk'[p].mtime <= m => disk'[p].text \in origin[p])
  BY <1>1 DEF KeyAt
<1> QED
  BY <1>1, <1>2 DEF Rooted, KeyAt

\* The first step of a write.
LEMMA RootWriteBegin ==
  ASSUME TypeOK, NEW a \in Actors, NEW p \in Paths, NEW t \in Texts, WriteBegin(a, p, t),
         CalmRooted(p), BaseFrom(p), run.pc = "idle"
  PROVE  CallRooted(a, p)' /\ BaseFrom(p)'
<1> DEFINE base == Based(p)
           new == base.text = Absent
           force == ~new /\ Resolving(p)
           captures == ~new /\ Captures(p, force)
<1>1. /\ call' = [call EXCEPT ![a] = [pc |-> "files", op |-> "write", path |-> p, text |-> t,
                                      new |-> new, mtime |-> base.mtime, force |-> force]]
      /\ baseline' = IF captures THEN [baseline EXCEPT ![p] = base.text] ELSE baseline
      /\ origin' = [origin EXCEPT ![p] = MadeFrom(p, base.text, mem[p] = None \/ force)]
      /\ mem' = mem /\ disk' = disk
  BY DEF WriteBegin
<1>2. /\ new <=> base.text = Absent
      /\ force => ~new
      /\ captures <=> ~new /\ (force \/ mem[p] = None \/ baseline[p] = None)
      /\ disk[p].text # Absent => base = disk[p]
      /\ new => base.mtime = 0
      /\ base.text # None /\ base.mtime \in Nat /\ force \in BOOLEAN
  <2>1. base.text \in TextOrAbsent /\ base.mtime \in Nat
    BY BasedOK DEF FileRecord
  <2>2. base.text # None
    BY <2>1, OverlayAssumption DEF TextOrAbsent
  <2> QED
    BY <2>1, <2>2 DEF Captures, Based
<1> HIDE DEF base, new, force, captures
<1>3. /\ call'[a].pc = "files" /\ call'[a].op = "write" /\ call'[a].path = p
      /\ call'[a].mtime = base.mtime /\ call'[a].force = force
  BY <1>1 DEF TypeOK
<1>4. baseline'[p] = IF captures THEN base.text ELSE baseline[p]
  BY <1>1 DEF TypeOK
<1>5. origin'[p] = IF mem[p] = None \/ force THEN {base.text}
                   ELSE IF mem[p].mtime = 0 THEN origin[p] \cup {base.text} ELSE origin[p]
  BY <1>1 DEF TypeOK, MadeFrom
<1>6. ~Drops(a, p)'
  BY <1>3 DEF Drops
<1>7. baseline[p] # None => baseline'[p] # None
  BY <1>2, <1>4
<1>8. Rooted(p)'
  BY <1>1, <1>2, <1>5, <1>7 DEF CalmRooted, Rooted, KeyAt
<1>9. call'[a].mtime > 0 => baseline'[p] # None
  BY <1>2, <1>3, <1>4
<1>10. Takes(a, p)' => KeyAt(p, call[a].mtime)'
  BY <1>1, <1>2, <1>3, <1>5 DEF Takes, KeyAt
<1>11. BaseFrom(p)'
  <2>1. CASE captures
    <3>1. base.text \in origin'[p]
      <4>1. mem[p] # None /\ ~force => mem[p].mtime = 0
        BY <1>2, <2>1 DEF CalmRooted, Rooted, TypeOK, Op
      <4> QED
        BY <1>5, <4>1
    <3> QED
      BY <1>2, <1>4, <2>1, <3>1 DEF BaseFrom
  <2>2. CASE ~captures /\ baseline[p] # None
    <3>1. mem[p] # None /\ ~force
      BY <1>2, <2>2 DEF CalmRooted
    <3> QED
      BY <1>4, <1>5, <2>2, <3>1 DEF BaseFrom
  <2>3. CASE ~captures /\ baseline[p] = None
    BY <1>4, <2>3 DEF BaseFrom
  <2> QED
    BY <2>1, <2>2, <2>3
<1> QED
  BY <1>6, <1>8, <1>9, <1>10, <1>11 DEF CallRooted

\* The first step of a delete.
LEMMA RootDeleteBegin ==
  ASSUME TypeOK, TimeInv, NEW a \in Actors, NEW p \in Paths, DeleteBegin(a, p),
         CalmRooted(p), BaseFrom(p), run.pc = "idle"
  PROVE  CallRooted(a, p)' /\ BaseFrom(p)'
<1> DEFINE created == mem[p] # None /\ mem[p].type = "create"
           captures == ~created /\ disk[p].text # Absent /\ Captures(p, FALSE)
<1>1. /\ call' = [call EXCEPT ![a] = [pc |-> "files", op |-> "delete", path |-> p, mtime |-> disk[p].mtime]]
      /\ baseline' = [baseline EXCEPT ![p] = IF created THEN None ELSE IF captures THEN disk[p].text ELSE @]
      /\ origin' = [origin EXCEPT ![p] = MadeFrom(p, disk[p].text, mem[p] = None)]
      /\ mem' = mem /\ disk' = disk
  BY DEF DeleteBegin
<1>2. captures <=> ~created /\ disk[p].text # Absent /\ (mem[p] = None \/ baseline[p] = None)
  BY DEF Captures
<1>3. /\ disk[p].text # None /\ disk[p].mtime \in Nat
      /\ disk[p].text = Absent => disk[p].mtime = 0
      /\ created => mem[p] # None
  BY OverlayAssumption DEF TypeOK, FileRecord, TextOrAbsent, TimeInv
<1>4. Drops(a, p)' <=> created
  <2>1. call'[a].op = "delete"
    BY <1>1 DEF TypeOK
  <2> QED
    BY <1>1, <2>1 DEF Drops
<1> HIDE DEF created, captures
<1>5. call'[a].mtime = disk[p].mtime /\ call'[a].op = "delete"
  BY <1>1 DEF TypeOK
<1>6. baseline'[p] = IF created THEN None ELSE IF captures THEN disk[p].text ELSE baseline[p]
  BY <1>1 DEF TypeOK
<1>7. origin'[p] = IF mem[p] = None THEN {disk[p].text}
                   ELSE IF mem[p].mtime = 0 THEN origin[p] \cup {disk[p].text} ELSE origin[p]
  BY <1>1 DEF TypeOK, MadeFrom
<1>8. CASE created
  BY <1>4, <1>6, <1>8 DEF CallRooted, BaseFrom
<1>9. CASE ~created
  <2>1. baseline[p] # None => baseline'[p] # None
    BY <1>3, <1>6, <1>9
  <2>2. Rooted(p)'
    BY <1>1, <1>7, <2>1 DEF CalmRooted, Rooted, KeyAt
  <2>3. call'[a].mtime > 0 => baseline'[p] # None
    BY <1>2, <1>3, <1>5, <1>6, <1>9
  <2>4. Takes(a, p)' => KeyAt(p, call[a].mtime)'
    BY <1>1, <1>5, <1>7 DEF Takes, KeyAt
  <2>5. BaseFrom(p)'
    <3>1. CASE captures
      <4>1. mem[p] # None => mem[p].mtime = 0
        BY <1>2, <3>1 DEF CalmRooted, Rooted, TypeOK, Op
      <4> QED
        BY <1>2, <1>6, <1>7, <1>9, <3>1, <4>1 DEF BaseFrom
    <3>2. CASE ~captures /\ baseline[p] # None
      <4>1. mem[p] # None
        BY <3>2 DEF CalmRooted
      <4> QED
        BY <1>6, <1>7, <1>9, <3>2, <4>1 DEF BaseFrom
    <3>3. CASE ~captures /\ baseline[p] = None
      BY <1>6, <1>9, <3>3 DEF BaseFrom
    <3> QED
      BY <3>1, <3>2, <3>3
  <2> QED
    BY <1>4, <1>9, <2>2, <2>3, <2>4, <2>5 DEF CallRooted
<1> QED
  BY <1>8, <1>9

\* The first step of a discard.
LEMMA RootDiscardFiles ==
  ASSUME TypeOK, NEW a \in Actors, NEW p \in Paths, DiscardFiles(a, p)
  PROVE  CallRooted(a, p)' /\ BaseFrom(p)'
<1>1. baseline'[p] = None /\ call'[a].op = "discard"
  BY DEF DiscardFiles, TypeOK
<1> QED
  BY <1>1 DEF CallRooted, Drops, BaseFrom

\* The step that writes files/.
LEMMA RootFiles ==
  ASSUME TypeOK, NEW a \in Actors, NEW p \in Paths, WriteFiles(a) \/ DeleteFiles(a), call[a].path = p,
         CallRooted(a, p), BaseFrom(p)
  PROVE  CallRooted(a, p)' /\ BaseFrom(p)'
<1>0. call[a] \in {IdleCall} \cup WriteCall \cup DeleteCall \cup DiscardCall
  BY DEF TypeOK
<1>1. /\ call'[a] = [call[a] EXCEPT !.pc = "row"] /\ call[a].pc = "files"
      /\ UNCHANGED <<disk, baseline, mem, origin>>
  BY DEF WriteFiles, DeleteFiles, TypeOK
<1>2. CASE WriteFiles(a)
  <2>1. call[a] \in WriteCall
    <3>1. call[a].pc = "files" /\ call[a].op = "write"
      BY <1>2 DEF WriteFiles
    <3> QED
      BY <1>0, <3>1 DEF IdleCall, DeleteCall, DiscardCall
  <2>2. call'[a].op = call[a].op /\ call'[a].mtime = call[a].mtime /\ call'[a].force = call[a].force
    BY <1>1, <2>1 DEF WriteCall
  <2> QED
    BY <1>1, <2>2 DEF CallRooted, BaseFrom, Drops, Takes, Rooted, KeyAt
<1>3. CASE DeleteFiles(a)
  <2>1. call[a] \in DeleteCall
    <3>1. call[a].pc = "files" /\ call[a].op = "delete"
      BY <1>3 DEF DeleteFiles
    <3> QED
      BY <1>0, <3>1 DEF IdleCall, WriteCall, DiscardCall
  <2>2. call'[a].op = call[a].op /\ call'[a].mtime = call[a].mtime /\ call[a].op = "delete"
    BY <1>1, <2>1 DEF DeleteCall
  <2> QED
    BY <1>1, <2>2 DEF CallRooted, BaseFrom, Drops, Takes, Rooted, KeyAt
<1> QED
  BY <1>2, <1>3

\* The row a call leaves.
LEMMA RootRecord ==
  ASSUME TypeOK, NEW a \in Actors, NEW p \in Paths, Held(p), mem[p] = None => Pending(p) = {},
         call[a].pc # "idle", call[a].path = p, CallRooted(a, p), ~Drops(a, p),
         NEW type \in OpTypes, NEW mtime \in Nat, NEW force \in BOOLEAN, Record(p, type, mtime, force),
         mtime = call[a].mtime, force => call[a].op = "write" /\ call[a].force,
         UNCHANGED <<disk, files, baseline, origin>>,
         type = "delete" => files[p].text = Absent
  PROVE  CalmRooted(p)'
<1>1. /\ mem'[p] # None /\ mem'[p].type = type
      /\ mem'[p].mtime = IF mem[p] # None /\ mem[p].mtime > 0 /\ ~(force /\ mtime > 0) THEN mem[p].mtime ELSE mtime
  BY RecordEntry
<1>2. Rooted(p) /\ (mtime > 0 => baseline[p] # None) /\ (Takes(a, p) => KeyAt(p, mtime))
  BY DEF CallRooted
<1>3. mem[p] # None => mem[p].mtime \in Nat
  BY DEF TypeOK, Op
<1>4. CASE mem[p] # None /\ mem[p].mtime > 0 /\ ~(force /\ mtime > 0)
  BY <1>1, <1>2, <1>4 DEF CalmRooted, Rooted, KeyAt
<1>5. CASE mem[p] = None \/ mem[p].mtime = 0 \/ (force /\ mtime > 0)
  <2>1. Takes(a, p)
    BY <1>5 DEF Takes
  <2>2. mem'[p].mtime = mtime
    BY <1>1, <1>5
  <2> QED
    BY <1>1, <1>2, <2>1, <2>2 DEF CalmRooted, Rooted, KeyAt
<1> QED
  BY <1>3, <1>4, <1>5

\* The last step of a call.
LEMMA RootRow ==
  ASSUME TypeOK, NEW a \in Actors, NEW p \in Paths, Held(p), mem[p] = None => Pending(p) = {},
         WriteRow(a) \/ DeleteRow(a) \/ DiscardRow(a), call[a].path = p,
         CallRooted(a, p), CallText(a)
  PROVE  CalmRooted(p)' /\ call'[a].pc = "idle" /\ UNCHANGED <<baseline, origin>>
<1>1. /\ UNCHANGED <<disk, files, baseline, origin>> /\ call'[a] = IdleCall /\ call[a].pc = "row"
  BY DEF WriteRow, DeleteRow, DiscardRow, TypeOK
<1> SUFFICES CalmRooted(p)'
  BY <1>1 DEF IdleCall
<1>2. ASSUME RemoveByPath(p), baseline[p] = None
      PROVE  CalmRooted(p)'
  <2>1. mem'[p] = None
    BY <1>2, RemoveEffect DEF TypeOK, LedgerOK, Kept, Removed
  <2> QED
    BY <1>1, <1>2, <2>1 DEF CalmRooted, Rooted
<1>3. Drops(a, p) => baseline[p] = None
  BY <1>1 DEF CallRooted
<1>4. CASE WriteRow(a)
  <2>1. call[a] \in WriteCall
    BY <1>4 DEF WriteRow, TypeOK, IdleCall, DeleteCall, DiscardCall
  <2> DEFINE type == IF call[a].new THEN "create" ELSE TypeOfEdit(p)
  <2>2. type \in OpTypes /\ type # "delete" /\ call[a].mtime \in Nat /\ call[a].force \in BOOLEAN
    BY <2>1 DEF OpTypes, TypeOfEdit, WriteCall
  <2>3. Record(p, type, call[a].mtime, call[a].force) /\ call[a].op = "write"
    BY <1>4 DEF WriteRow
  <2>4. ~Drops(a, p)
    BY <2>3 DEF Drops
  <2> HIDE DEF type
  <2> QED
    BY <1>1, <2>2, <2>3, <2>4, RootRecord
<1>5. CASE DeleteRow(a)
  <2>1. call[a] \in DeleteCall /\ call[a].op = "delete"
    BY <1>5 DEF DeleteRow, TypeOK, IdleCall, WriteCall, DiscardCall
  <2>2. CASE mem[p] # None /\ mem[p].type = "create"
    <3>1. RemoveByPath(p) /\ Drops(a, p)
      BY <1>5, <2>1, <2>2 DEF DeleteRow, Drops
    <3> QED
      BY <1>2, <1>3, <3>1
  <2>3. CASE ~(mem[p] # None /\ mem[p].type = "create")
    <3>1. Record(p, "delete", call[a].mtime, FALSE) /\ ~Drops(a, p)
      BY <1>5, <2>1, <2>3 DEF DeleteRow, Drops
    <3>2. files[p].text = Absent
      BY <1>1, <2>1 DEF CallText
    <3>3. "delete" \in OpTypes /\ call[a].mtime \in Nat /\ FALSE \in BOOLEAN
      BY <2>1 DEF OpTypes, DeleteCall
    <3> QED
      BY <1>1, <3>1, <3>2, <3>3, RootRecord
  <2> QED
    BY <2>2, <2>3
<1>6. CASE DiscardRow(a)
  <2>1. RemoveByPath(p) /\ Drops(a, p)
    BY <1>6 DEF DiscardRow, Drops
  <2> QED
    BY <1>2, <1>3, <2>1
<1> QED
  BY <1>4, <1>5, <1>6

\* Calls and runs take turns.
LEMMA TurnCall ==
  ASSUME Environment \cap {"callsDuringRun", "callsElsewhere"} = {}, run.pc # "idle" => Calm, TypeOK,
         NEW a \in Actors, NEW p \in Paths, CallAt(a, p)
  PROVE  run.pc = "idle"
<1>1. CASE CallStep(a)
  BY <1>1, CallPath DEF Calm
<1>2. CASE DeleteBegin(a, p) \/ DiscardFiles(a, p)
  BY <1>2 DEF DeleteBegin, DiscardFiles, MayCall
<1>3. ASSUME NEW t \in Texts, WriteNothing(a, p, t) \/ WriteBegin(a, p, t)
      PROVE  run.pc = "idle"
  BY <1>3 DEF WriteNothing, WriteBegin, MayCall
<1> QED
  BY <1>1, <1>2, <1>3 DEF CallAt

\* The steps of calls.
LEMMA RootCall ==
  ASSUME Environment \cap {"callsDuringRun", "callsElsewhere", "samePath"} = {},
         TypeOK, LedgerInv, StrandInv, TimeInv, RootInv, NEW a \in Actors, NEW p \in Paths, CallAt(a, p)
  PROVE  RootInv'
<1>1. /\ \A q \in Paths \ {p} : Kept(q) /\ files'[q] = files[q] /\ baseline'[q] = baseline[q]
                                /\ origin'[q] = origin[q]
      /\ \A b \in Actors \ {a} : call'[b] = call[b]
      /\ call'[a].pc = "idle" \/ call'[a].path = p
      /\ disk' = disk /\ run' = run
  BY CallFrame
<1>2. run.pc = "idle"
  BY TurnCall DEF RootInv
<1>3. \A b \in Actors \ {a} : call[b].pc # "idle" => call[b].path # p
  BY CallAlone DEF RootInv
<1>4. OneCallAPath'
  BY <1>1, <1>3 DEF RootInv, OneCallAPath
<1>5. \A b \in Actors : CallText(b)'
  BY CallTextStep DEF RootInv
<1>6. Held(p) /\ (mem[p] = None => Pending(p) = {}) /\ CallText(a) /\ CallRooted(a, p) /\ BaseFrom(p)
      /\ (CalmOn(p) => CalmRooted(p))
  BY DEF LedgerInv, StrandInv, RootInv
<1>7. ASSUME call[a].pc = "idle"
      PROVE  CalmRooted(p)
  BY <1>3, <1>6, <1>7 DEF CalmOn
<1>8. ASSUME CallRooted(a, p)', BaseFrom(p)', CalmOn(p)' => CalmRooted(p)'
      PROVE  RootInv'
  <2>1. \A b \in Actors \ {a} : CallRooted(b, p)'
    BY <1>1, <1>3 DEF CallRooted
  <2>2. ASSUME NEW q \in Paths \ {p}
        PROVE  /\ \A b \in Actors : CallRooted(b, q)'
               /\ BaseFrom(q)' /\ (CalmOn(q)' => CalmRooted(q)')
    <3>1. UNCHANGED <<disk[q], files[q], mem[q], baseline[q], origin[q], run>>
      BY <1>1 DEF Kept
    <3>2. \A b \in Actors \ {a} : CallRooted(b, q)'
      BY <1>1, <3>1 DEF RootInv, CallRooted, Drops, Takes, Rooted, KeyAt
    <3>3. CallRooted(a, q)'
      BY <1>1 DEF CallRooted
    <3>4. BaseFrom(q)'
      BY <3>1 DEF RootInv, BaseFrom
    <3>5. CalmOn(q)' => CalmRooted(q)'
      BY <3>1, CallCalm DEF RootInv, CalmRooted, Rooted, KeyAt
    <3> QED
      BY <3>2, <3>3, <3>4, <3>5
  <2> QED
    BY <1>1, <1>2, <1>4, <1>5, <1>8, <2>1, <2>2 DEF RootInv
<1>9. ASSUME CallRooted(a, p)', BaseFrom(p)', call'[a].pc # "idle", call'[a].path = p
      PROVE  RootInv'
  <2>1. ~CalmOn(p)'
    BY <1>9 DEF CalmOn
  <2> QED
    BY <1>8, <1>9, <2>1
<1>10. CASE call'[a].pc # "idle" /\ CallRooted(a, p)' /\ BaseFrom(p)'
  BY <1>1, <1>9, <1>10
<1>11. ASSUME NEW t \in Texts, WriteBegin(a, p, t)
       PROVE  RootInv'
  <2>1. \E n, m, f : call' = [call EXCEPT ![a] = [pc |-> "files", op |-> "write", path |-> p, text |-> t,
                                                  new |-> n, mtime |-> m, force |-> f]]
    BY <1>11 DEF WriteBegin
  <2>2. call'[a].pc = "files"
    BY <2>1 DEF TypeOK
  <2> QED
    BY <1>2, <1>6, <1>7, <1>10, <1>11, <2>2, RootWriteBegin DEF WriteBegin
<1>12. CASE DeleteBegin(a, p)
  <2>1. call'[a].pc = "files"
    BY <1>12 DEF DeleteBegin, TypeOK
  <2> QED
    BY <1>2, <1>6, <1>7, <1>10, <1>12, <2>1, RootDeleteBegin DEF DeleteBegin
<1>13. CASE DiscardFiles(a, p)
  <2>1. call'[a].pc = "row"
    BY <1>13 DEF DiscardFiles, TypeOK
  <2> QED
    BY <1>10, <1>13, <2>1, RootDiscardFiles
<1>14. CASE (WriteFiles(a) \/ DeleteFiles(a)) /\ call[a].path = p
  <2>1. call'[a] = [call[a] EXCEPT !.pc = "row"] /\ call[a].pc = "files"
    BY <1>14 DEF WriteFiles, DeleteFiles, TypeOK
  <2>2. call[a] \in WriteCall \cup DeleteCall
    BY <2>1 DEF TypeOK, IdleCall, DiscardCall
  <2>3. call'[a].pc = "row"
    BY <2>1, <2>2 DEF WriteCall, DeleteCall
  <2> QED
    BY <1>6, <1>10, <1>14, <2>3, RootFiles
<1>15. CASE (WriteRow(a) \/ DeleteRow(a) \/ DiscardRow(a)) /\ call[a].path = p
  <2>1. CalmRooted(p)' /\ call'[a].pc = "idle" /\ UNCHANGED <<baseline, origin>>
    BY <1>6, <1>15, RootRow
  <2>2. CallRooted(a, p)' /\ BaseFrom(p)'
    BY <1>6, <2>1 DEF CallRooted, BaseFrom
  <2> QED
    BY <1>8, <2>1, <2>2
<1>16. ASSUME NEW t \in Texts, WriteNothing(a, p, t)
       PROVE  RootInv'
  <2>1. /\ RemoveByPath(p) /\ call' = call /\ call[a].pc = "idle" /\ origin' = origin
        /\ baseline'[p] = IF mem[p] = None THEN baseline[p] ELSE None
    BY <1>16 DEF WriteNothing, TypeOK
  <2>2. mem'[p] = None
    BY <2>1, RemoveEffect DEF TypeOK, LedgerOK, Kept, Removed
  <2>3. baseline'[p] = None
    BY <1>2, <1>7, <2>1 DEF CalmRooted
  <2>4. CalmRooted(p)' /\ CallRooted(a, p)' /\ BaseFrom(p)'
    BY <2>1, <2>2, <2>3 DEF CalmRooted, Rooted, CallRooted, BaseFrom
  <2> QED
    BY <1>8, <2>4
<1> QED
  BY <1>11, <1>12, <1>13, <1>14, <1>15, <1>16 DEF CallAt, CallStep

\* Steps without a call: what may become of a path,
LEMMA CalmRootedKept ==
  ASSUME TypeOK, TimeInv, NEW p \in Paths, CalmRooted(p), BaseFrom(p), origin' = origin,
         disk'[p] = disk[p] \/ disk'[p].text = Absent \/ disk'[p].mtime = clock + 1,
         files'[p].text = files[p].text \/ files[p].text # Absent,
         mem'[p] \in {None, mem[p]}, baseline'[p] \in {None, baseline[p]},
         mem'[p] # None => baseline'[p] = baseline[p],
         mem'[p] = None => baseline'[p] = None \/ run'.pc \in {"next", "put", "mark"}
  PROVE  CalmRooted(p)' /\ BaseFrom(p)'
<1>1. Rooted(p)'
  BY RootedKept DEF CalmRooted
<1>2. BaseFrom(p)'
  BY DEF BaseFrom
<1> QED
  BY <1>1, <1>2 DEF CalmRooted

\* a refresh included,
LEMMA RootRefresh ==
  ASSUME TypeOK, LedgerInv, TimeInv, RefreshAll, UNCHANGED <<disk, files, origin>>,
         NEW p \in Paths, CalmRooted(p), BaseFrom(p)
  PROVE  CalmRooted(p)' /\ BaseFrom(p)'
<1>1. Refreshed(p) /\ Held(p) /\ baseline' = Cleaned(mem')
  BY RefreshEffect DEF LedgerInv
<1>2. rows' \in [Paths -> [Ids -> Row]]
  BY RefreshOK DEF TypeOK, LedgerOK
<1>3. \/ mem'[p] = None
      \/ /\ mem[p] # None /\ mem'[p].mtime = mem[p].mtime
         /\ mem'[p].type = "delete" => files[p].text = Absent
  BY <1>1, <1>2, RefreshEntry DEF CalmRooted
<1>4. baseline'[p] = IF mem'[p] = None THEN None ELSE baseline[p]
  BY <1>1 DEF Cleaned
<1>5. Rooted(p)'
  BY <1>3, <1>4, RootedKept DEF CalmRooted
<1> QED
  BY <1>3, <1>4, <1>5 DEF CalmRooted, BaseFrom

\* and for all of them.
LEMMA RootCalm ==
  ASSUME Calm, call' = call, \A p \in Paths : CalmRooted(p)' /\ BaseFrom(p)'
  PROVE  RootInv'
  BY DEF Calm, RootInv, OneCallAPath, CallText, CallRooted

\* The steps of a run.
LEMMA RootRunStep ==
  ASSUME TypeOK, LedgerInv, RunInv, TimeInv, RootInv, run.pc # "idle", RunStep
  PROVE  RootInv'
<1>1. run \in Run /\ run.todo \subseteq Item
  BY RunFields
<1>2. call' = call /\ origin' = origin
  BY RunStepRun
<1>3. Calm /\ \A p \in Paths : CalmRooted(p) /\ BaseFrom(p)
  BY DEF RootInv, Calm, CalmOn
<1>4. CASE FinalRefresh
  BY <1>2, <1>3, <1>4, RootRefresh, RootCalm DEF FinalRefresh
<1>5. \A p \in Paths : /\ disk'[p] = disk[p] \/ disk'[p].text = Absent \/ disk'[p].mtime = clock + 1
                       /\ files'[p].text = files[p].text \/ files[p].text # Absent
  <2>1. CASE SyncPut
    <3>1. run.cur \in Current
      BY <2>1 DEF SyncPut, TypeOK
    <3>2. PICK p \in Paths : p = run.cur.item.path
      BY <3>1 DEF Current, Item
    <3> QED
      BY <2>1, <3>2 DEF SyncPut, TypeOK, Gone
  <2>2. CASE Detect
    BY <2>2 DEF Detect, Materialized
  <2>3. CASE ~SyncPut /\ ~Detect
    <3>1. UNCHANGED <<disk, files>>
      BY <2>3 DEF RunStep, Approve, SyncBegin, SyncThrows, SyncRefuse, SyncNoContent, SyncRead, SyncPutFails,
                  SyncMark, SyncDone, Finish, FinalRefresh
    <3> QED
      BY <3>1
  <2> QED
    BY <2>1, <2>2, <2>3
<1>6. CASE SyncMark
  <2>1. \A p \in Paths : mem'[p] \in {None, mem[p]}
    BY <1>6, RunEntry DEF FinalRefresh, SyncMark
  <2>2. baseline' = baseline /\ run'.pc = "next"
    BY <1>1, <1>6 DEF SyncMark, Run
  <2> QED
    BY <1>2, <1>3, <1>5, <2>1, <2>2, CalmRootedKept, RootCalm
<1>7. CASE ~FinalRefresh /\ ~SyncMark
  <2>1. mem' = mem
    BY <1>7, RunEntry
  <2>2. \/ baseline' = Cleaned(mem)
        \/ /\ baseline' = baseline
           /\ run.pc \in {"next", "put", "mark"} => run'.pc \in {"next", "put", "mark"}
    <3>1. CASE SyncDone
      BY <3>1 DEF SyncDone
    <3>2. CASE Detect \/ Approve \/ SyncBegin \/ SyncThrows \/ Finish
      BY <3>2 DEF Detect, Approve, SyncBegin, SyncThrows, Finish
    <3>3. CASE SyncPut \/ \E c \in run.todo : SyncRead(c)
      <4>1. /\ baseline' = baseline
            /\ run' = [run EXCEPT !.pc = "mark"] \/ \E cur : run' = [run EXCEPT !.pc = "put", !.cur = cur]
        BY <3>3 DEF SyncPut, SyncRead
      <4> QED
        BY <1>1, <4>1 DEF Run
    <3>4. CASE SyncPutFails \/ \E c \in run.todo : SyncRefuse(c) \/ SyncNoContent(c)
      <4>1. run.pc = "put" => run.cur.item \in run.todo
        BY DEF RunInv
      <4>2. /\ baseline' = baseline
            /\ \/ run' = [run EXCEPT !.pc = "mark"]
               \/ \E c \in run.todo : run' = Failed(c) \/ run' = [Failed(c) EXCEPT !.conflicts = @ \cup {c.path}]
        BY <3>4, <4>1 DEF SyncPutFails, SyncRefuse, SyncNoContent
      <4>3. \A c \in run.todo : Failed(c).pc = "next" /\ [Failed(c) EXCEPT !.conflicts = @ \cup {c.path}].pc = "next"
        BY <1>1, FailedIsRun
      <4>4. [run EXCEPT !.pc = "mark"].pc = "mark"
        BY <1>1 DEF Run
      <4> QED
        BY <4>2, <4>3, <4>4
    <3> QED
      BY <1>7, <3>1, <3>2, <3>3, <3>4 DEF RunStep
  <2>3. \A p \in Paths : /\ mem[p] # None => baseline'[p] = baseline[p]
                         /\ baseline'[p] \in {None, baseline[p]}
                         /\ mem[p] = None => baseline'[p] = None \/ run'.pc \in {"next", "put", "mark"}
    BY <1>3, <2>2 DEF Cleaned, CalmRooted
  <2> QED
    BY <1>2, <1>3, <1>5, <2>1, <2>3, CalmRootedKept, RootCalm
<1> QED
  BY <1>4, <1>6, <1>7

\* Calls, refreshes and runs take turns, the page stays loaded and the folder authorized.
InTurns == Environment \cap {"callsDuringRun", "callsElsewhere", "samePath", "refreshDuringRun",
                             "refreshDuringCall", "crash", "revoked"} = {}

\* Every step.
LEMMA RootNext ==
  ASSUME InTurns, TypeOK, LedgerInv, RunInv, StrandInv, TimeInv, RootInv, [Next]_vars
  PROVE  RootInv'
<1>1. ASSUME NEW a \in Actors, NEW p \in Paths, CallAt(a, p)
      PROVE  RootInv'
  BY <1>1, RootCall DEF InTurns
<1>2. ASSUME Calm, \A p \in Paths : CalmRooted(p) /\ BaseFrom(p), call' = call, origin' = origin,
             mem' = mem, baseline' = baseline, disk' = disk,
             \A p \in Paths : files'[p].text = files[p].text \/ files[p].text # Absent,
             run.pc = "idle" \/ run' = run
      PROVE  RootInv'
  BY <1>2, CalmRootedKept, RootCalm DEF CalmRooted
<1>3. Calm => \A p \in Paths : CalmRooted(p) /\ BaseFrom(p)
  BY DEF RootInv, Calm, CalmOn
<1>4. ASSUME NEW r, Starts(r)
      PROVE  RootInv'
  <2>1. Calm /\ run.pc = "idle"
    BY <1>4 DEF InTurns, Starts, Begin, MayRun
  <2> QED
    BY <1>2, <1>3, <1>4, <2>1 DEF Starts, Begin
<1>5. CASE Refresh
  <2>1. Calm
    BY <1>5 DEF InTurns, Refresh, MayRefresh
  <2> QED
    BY <1>3, <1>5, <2>1, RootRefresh, RootCalm DEF Refresh
<1>6. CASE DetectConflicts
  <2>1. Calm
    BY <1>6 DEF InTurns, DetectConflicts, MayRun
  <2>2. \A p \in Paths : files'[p].text = files[p].text \/ files[p].text # Absent
    BY <1>6 DEF DetectConflicts, Materialized
  <2> QED
    BY <1>2, <1>3, <1>6, <2>1, <2>2 DEF DetectConflicts
<1>7. CASE run.pc # "idle" /\ RunStep
  BY <1>7, RootRunStep
<1>8. ASSUME NEW p \in Paths, NEW t \in Texts \cup {Absent}, ExternalEdit(p, t)
      PROVE  RootInv'
  <2>1. UNCHANGED <<files, baseline, mem, call, run, origin>>
    BY <1>8 DEF ExternalEdit
  <2>2. \A q \in Paths : disk'[q] = disk[q] \/ disk'[q].text = Absent \/ disk'[q].mtime = clock + 1
    BY <1>8 DEF ExternalEdit, TypeOK, Gone
  <2>3. \A q \in Paths : Rooted(q) => Rooted(q)'
    BY <2>1, <2>2, RootedKept
  <2>4. \A q \in Paths : CalmRooted(q) => CalmRooted(q)'
    BY <2>1, <2>3 DEF CalmRooted
  <2>5. ASSUME NEW a \in Actors, NEW q \in Paths
        PROVE  CallRooted(a, q)'
    <3> SUFFICES ASSUME call[a].pc # "idle", call[a].path = q
                 PROVE  CallRooted(a, q)'
      BY <2>1 DEF CallRooted
    <3>1. CallRooted(a, q)
      BY DEF RootInv
    <3>2. CASE Drops(a, q)
      BY <2>1, <3>1, <3>2 DEF CallRooted, Drops
    <3>3. CASE ~Drops(a, q)
      <4>1. call[a].mtime \in 0 .. clock /\ clock \in Nat
        BY <3>3 DEF Drops, TimeInv, TypeOK
      <4>2. KeyAt(q, call[a].mtime) => KeyAt(q, call[a].mtime)'
        BY <2>1, <2>2, <4>1 DEF KeyAt
      <4> QED
        BY <2>1, <2>3, <3>1, <3>3, <4>2 DEF CallRooted, Drops, Takes
    <3> QED
      BY <3>2, <3>3
  <2> QED
    BY <2>1, <2>4, <2>5 DEF RootInv, OneCallAPath, Calm, CalmOn, CallText, BaseFrom
<1>9. CASE UNCHANGED vars
  <2>1. UNCHANGED <<disk, files, baseline, mem, call, run, origin>>
    BY <1>9 DEF vars
  <2> QED
    BY <2>1 DEF RootInv, OneCallAPath, Calm, CalmOn, CallText, CallRooted, Drops, Takes, CalmRooted, Rooted, KeyAt,
                BaseFrom
<1> QED
  BY <1>1, <1>4, <1>5, <1>6, <1>7, <1>8, <1>9, NextCases DEF InTurns, Crash

\* The invariants of the baselines together.
BaselinesInv == /\ TypeOK /\ LedgerInv /\ RunInv /\ ApprovalInv /\ StrandInv
                /\ TimeInv /\ RootInv

LEMMA BaselinesInit == Init => BaselinesInv
<1> SUFFICES ASSUME Init PROVE BaselinesInv
  OBVIOUS
<1>1. TypeOK /\ LedgerInv /\ RunInv
  BY TypeInit, MapInit
<1>2. ApprovalInv /\ StrandInv
  BY DEF Init, FreeRow, Pending, ApprovalInv, StrandInv
<1>3. TimeInv
  BY OverlayAssumption DEF Init, Gone, IdleCall, TimeInv
<1>4. RootInv
  BY DEF Init, Gone, IdleCall, IdleRun, RootInv, OneCallAPath, CallText, CallRooted, CalmRooted, Rooted, BaseFrom
<1> QED
  BY <1>1, <1>2, <1>3, <1>4 DEF BaselinesInv

LEMMA BaselinesNext ==
  ASSUME InTurns
  PROVE  BaselinesInv /\ [Next]_vars => BaselinesInv'
<1> SUFFICES ASSUME BaselinesInv, [Next]_vars PROVE BaselinesInv'
  OBVIOUS
<1>1. /\ Environment \cap {"callsDuringRun", "refreshDuringRun"} = {}
      /\ Environment \cap {"callsDuringRun", "refreshDuringRun", "revoked"} = {}
      /\ Environment \cap {"callsDuringRun", "refreshDuringRun", "revoked", "crash"} = {}
  BY DEF InTurns
<1>2. TypeOK' /\ LedgerInv' /\ RunInv'
  BY <1>1, TypeNext, MapNext DEF BaselinesInv
<1>3. ApprovalInv' /\ StrandInv'
  BY <1>1, ApprovalNext, StrandNext DEF BaselinesInv
<1>4. TimeInv' /\ RootInv'
  BY TimeNext, RootNext DEF BaselinesInv
<1> QED
  BY <1>2, <1>3, <1>4 DEF BaselinesInv

\* A change of a file the disk had keeps the text it was made from, as long as calls,
\* refreshes and runs take turns, the page stays loaded and the folder authorized:
\* other programs, failing writes and conflicts make no difference.
THEOREM BaselinesKept == ASSUME InTurns PROVE Spec => []BaselineKept
<1>1. BaselinesInv => BaselineKept
  BY DEF BaselinesInv, RootInv, CalmRooted, Rooted, BaselineKept
<1> QED
  BY <1>1, BaselinesInit, BaselinesNext, PTL DEF Spec

\* Under the same conditions a disk that says just what an edit or a delete was made
\* from is no conflict, however often the file was touched.
THEOREM ConflictsReal == ASSUME InTurns PROVE Spec => []NoFalseConflict
<1>1. BaselinesInv => NoFalseConflict
  <2> SUFFICES ASSUME BaselinesInv, Quiet, NEW p \in Paths,
                      mem[p] # None, mem[p].type # "create", Conflict(p, mem[p]), Undisturbed(p)
               PROVE  FALSE
    BY DEF NoFalseConflict
  <2>1. baseline[p] # None /\ baseline[p] # disk[p].text /\ disk[p].text # Absent
    BY DEF BaselinesInv, RootInv, CalmRooted, Rooted, Quiet, Calm, CalmOn, Conflict
  <2> QED
    BY <2>1 DEF BaselinesInv, RootInv, BaseFrom, Undisturbed
<1> QED
  BY <1>1, BaselinesInit, BaselinesNext, PTL DEF Spec

\* An agent reads what it wrote, or the draft with its conflict marked, unless another
\* program changed the file; here a NotFound taken for success and a write of what the
\* draft already says must not happen either.
THEOREM WritesRead ==
  ASSUME InTurns, Environment \cap {"notFound", "sameText"} = {}
  PROVE  Spec => []ReadYourWrites
<1>1. BaselinesInv /\ DraftInv => ReadYourWrites
  <2> SUFFICES ASSUME BaselinesInv, DraftInv, Quiet, NEW p \in Paths, draft[p] \in Texts, Undisturbed(p)
               PROVE  Read(p) \in {draft[p], Marked}
    BY DEF ReadYourWrites
  <2>1. CalmOn(p)
    BY DEF Quiet, Calm, CalmOn
  <2>2. draft[p] # None /\ draft[p] # Absent
    BY OverlayAssumption
  <2>3. files[p].text \in {draft[p], Marked} /\ files[p].text # Absent /\ Pending(p) # {}
    BY <2>1, <2>2, OverlayAssumption DEF DraftInv, Drafted
  <2>4. mem[p] # None
    BY <2>3 DEF BaselinesInv, StrandInv
  <2>5. mem[p].mtime = 0 \/ baseline[p] \in origin[p] \ {Absent}
    BY <2>1, <2>4 DEF BaselinesInv, RootInv, CalmRooted, Rooted, BaseFrom, TypeOK, Op
  <2>6. disk[p].text = Absent \/ mem[p].mtime = 0 \/ baseline[p] = disk[p].text
    BY <2>5 DEF Undisturbed
  <2> QED
    BY <2>3, <2>4, <2>6 DEF Read
<1>2. Environment \cap {"callsDuringRun", "samePath", "refreshDuringRun", "notFound", "sameText"} = {}
  BY DEF InTurns
<1>3. Spec => []DraftsInv
  BY <1>2, DraftsInvariant
<1>4. Spec => []BaselinesInv
  BY BaselinesInit, BaselinesNext, PTL DEF Spec
<1>5. BaselinesInv /\ DraftsInv => ReadYourWrites
  BY <1>1 DEF DraftsInv
<1> QED
  BY <1>3, <1>4, <1>5, PTL

-----------------------------------------------------------------------------
(* What a sync writes over *)

\* What the sync may write over: what it was told to, what it has no mtime to compare
\* with, what the draft was made from, nothing, or the same.
Overwrites(p) ==
  \/ p \in run.force \/ run.cur.item.op.mtime = 0
  \/ disk[p].text \in origin[p] \cup {Absent, run.cur.text}

\* The second batch is what the user wants overwritten; the path read last may be written.
PutInv ==
  /\ run.pc \in {"next", "put", "mark"} /\ run.forced => \A c \in run.todo : c.path \in run.force
  /\ run.pc = "put" => \A p \in Paths : p = run.cur.item.path => Overwrites(p)

\* A path without a conflict may be written.
LEMMA PutRead ==
  ASSUME TypeOK, LedgerInv, RunInv, TimeInv, RootInv, PutInv, run.pc # "idle",
         NEW c \in run.todo, SyncRead(c)
  PROVE  PutInv'
<1> DEFINE text == IF c.op.type = "delete" THEN Absent ELSE files[c.path].text
           cur == [item |-> c, text |-> text]
<1>1. run \in Run /\ c \in Item /\ mem[c.path] = c.op
  BY RunFields DEF RunInv
<1>2. /\ run' = [run EXCEPT !.pc = "put", !.cur = cur] /\ cur.item = c /\ cur.text = text
      /\ disk' = disk /\ origin' = origin /\ run.pc = "next"
  BY DEF SyncRead
<1>3. c.path \in Paths /\ c.op \in Op /\ c.op # None
  BY <1>1, NoneIsNoOp DEF Item
<1>4. CalmRooted(c.path) /\ BaseFrom(c.path)
  BY <1>3 DEF RootInv, Calm, CalmOn
<1>5. c.path \in run.force \/ c.op.mtime = 0 \/ disk[c.path].text \in origin[c.path] \cup {Absent, text}
  <2>1. CASE run.forced
    BY <1>2, <2>1 DEF PutInv
  <2>2. CASE ~run.forced
    <3>1. ~Conflict(c.path, c.op)
      BY <2>2 DEF SyncRead
    <3>2. c.op.mtime \in Nat /\ disk[c.path].mtime \in Nat /\ c.op.type \in OpTypes
      BY <1>3 DEF Op, TypeOK, FileRecord
    <3>3. KeyAt(c.path, c.op.mtime) /\ (c.op.mtime > 0 => baseline[c.path] # None)
      BY <1>1, <1>3, <1>4 DEF CalmRooted, Rooted
    <3>4. baseline[c.path] # None => baseline[c.path] \in origin[c.path]
      BY <1>4 DEF BaseFrom
    <3> QED
      BY <3>1, <3>2, <3>3, <3>4 DEF Conflict, KeyAt
  <2> QED
    BY <2>1, <2>2
<1> HIDE DEF text, cur
<1>6. run'.todo = run.todo /\ run'.forced = run.forced /\ run'.force = run.force /\ run'.cur = cur
  BY <1>1, <1>2 DEF Run
<1>7. run'.pc = "put" => \A p \in Paths : p = run'.cur.item.path => Overwrites(p)'
  BY <1>2, <1>5, <1>6 DEF Overwrites
<1>8. \A d \in run'.todo : run'.forced => d.path \in run'.force
  BY <1>2, <1>6 DEF PutInv
<1> QED
  BY <1>7, <1>8 DEF PutInv

\* The other steps of a run write nothing new.
LEMMA PutRunStep ==
  ASSUME TypeOK, LedgerInv, RunInv, TimeInv, RootInv, PutInv, run.pc # "idle", RunStep
  PROVE  PutInv'
<1>1. run \in Run /\ run.todo \subseteq Item
  BY RunFields
<1>2. ASSUME run'.pc # "put",
             run'.forced = run.forced, run'.force = run.force, run'.todo \subseteq run.todo,
             run.pc \in {"next", "put", "mark"}
      PROVE  PutInv'
  BY <1>2 DEF PutInv
<1>3. ASSUME run'.pc \notin {"next", "put", "mark"}
      PROVE  PutInv'
  BY <1>3 DEF PutInv
<1>4. CASE run' = IdleRun
  BY <1>3, <1>4 DEF IdleRun
<1>5. CASE run' # IdleRun /\ (Detect \/ Approve \/ SyncThrows \/ SyncDone \/ Finish)
  <2>1. \/ \E pc \in {"approve", "refresh", "sync", "finish"} : run' = [run EXCEPT !.pc = pc]
        \/ \E s \in SnapIds : run' = [run EXCEPT !.pc = "sync", !.snap = s]
        \/ run' = [run EXCEPT !.pc = "sync", !.forced = TRUE]
    <3>1. CASE Detect
      BY <3>1 DEF Detect
    <3>2. CASE Approve
      BY <3>2 DEF Approve
    <3>3. CASE SyncThrows \/ SyncDone \/ Finish
      BY <1>5, <3>3 DEF SyncThrows, SyncDone, Finish
    <3> QED
      BY <1>5, <3>1, <3>2, <3>3
  <2> QED
    BY <1>1, <1>3, <2>1 DEF Run
<1>6. CASE SyncBegin
  <2> DEFINE todo == {[path |-> p, op |-> mem[p]] : p \in PassPaths \cap Listed}
  <2>1. run' = [run EXCEPT !.pc = "next", !.todo = todo]
    BY <1>6 DEF SyncBegin
  <2>2. run.forced => \A c \in todo : c.path \in run.force
    BY DEF PassPaths
  <2> HIDE DEF todo
  <2>3. run'.pc = "next" /\ run'.todo = todo /\ run'.forced = run.forced /\ run'.force = run.force
    BY <1>1, <2>1 DEF Run
  <2> QED
    BY <2>2, <2>3 DEF PutInv
<1>7. CASE SyncPut
  <2>1. run' = [run EXCEPT !.pc = "mark"] /\ run.pc = "put"
    BY <1>7 DEF SyncPut
  <2> QED
    BY <1>1, <1>2, <2>1 DEF Run
<1>8. CASE SyncMark
  <2>1. /\ run.pc = "mark"
        /\ \E c, done : run' = [run EXCEPT !.pc = "next", !.todo = @ \ {c}, !.done = done, !.cur = None]
    BY <1>8 DEF SyncMark
  <2> QED
    BY <1>1, <1>2, <2>1 DEF Run
<1>9. CASE SyncPutFails \/ \E c \in run.todo : SyncRefuse(c) \/ SyncNoContent(c)
  <2>1. /\ run.pc \in {"next", "put"}
        /\ \/ run' = [run EXCEPT !.pc = "mark"]
           \/ \E c : run' = Failed(c) \/ run' = [Failed(c) EXCEPT !.conflicts = @ \cup {c.path}]
    BY <1>9 DEF SyncPutFails, SyncRefuse, SyncNoContent
  <2>2. CASE run' = [run EXCEPT !.pc = "mark"]
    BY <1>1, <1>2, <2>1, <2>2 DEF Run
  <2>3. ASSUME NEW c, run' = Failed(c) \/ run' = [Failed(c) EXCEPT !.conflicts = @ \cup {c.path}]
        PROVE  PutInv'
    <3> DEFINE f == Failed(c)
    <3>1. /\ f.todo = run.todo \ {c} /\ f.pc = "next" /\ f.forced = run.forced /\ f.force = run.force
          /\ DOMAIN f = DOMAIN run
      BY <1>1 DEF Failed, Run
    <3> HIDE DEF f
    <3>2. run'.todo = f.todo /\ run'.pc = f.pc /\ run'.forced = f.forced /\ run'.force = f.force
      BY <1>1, <2>3, <3>1 DEF Run, f
    <3> QED
      BY <1>2, <2>1, <3>1, <3>2
  <2> QED
    BY <2>1, <2>2, <2>3
<1>10. CASE FinalRefresh
  BY <1>4, <1>10 DEF FinalRefresh
<1> QED
  BY <1>4, <1>5, <1>6, <1>7, <1>8, <1>9, <1>10, PutRead DEF RunStep

\* Nor do calls, refreshes, and programs that stay out of the time between the
\* conflict check and the write.
LEMMA PutNext ==
  ASSUME InTurns, "editDuringSync" \notin Environment,
         TypeOK, LedgerInv, RunInv, TimeInv, RootInv, PutInv, [Next]_vars
  PROVE  PutInv'
<1>1. ASSUME NEW a \in Actors, NEW p \in Paths, CallAt(a, p)
      PROVE  PutInv'
  <2>1. run.pc = "idle"
    BY <1>1, TurnCall DEF InTurns, RootInv
  <2>2. run' = run
    BY <1>1 DEF CallAt, CallStep, WriteFiles, WriteRow, DeleteBegin, DeleteFiles, DeleteRow, DiscardFiles, DiscardRow,
                WriteNothing, WriteBegin
  <2> QED
    BY <2>1, <2>2 DEF PutInv
<1>2. ASSUME NEW r, Starts(r)
      PROVE  PutInv'
  BY <1>2 DEF Starts, Begin, PutInv
<1>3. CASE Refresh \/ DetectConflicts
  <2>1. run.pc = "idle" /\ run' = run
    BY <1>3 DEF InTurns, Refresh, MayRefresh, DetectConflicts, MayRun
  <2> QED
    BY <2>1 DEF PutInv
<1>4. CASE run.pc # "idle" /\ RunStep
  BY <1>4, PutRunStep
<1>5. ASSUME NEW p \in Paths, NEW t \in Texts \cup {Absent}, ExternalEdit(p, t)
      PROVE  PutInv'
  <2>1. run.pc # "put" /\ run' = run
    BY <1>5 DEF ExternalEdit
  <2> QED
    BY <2>1 DEF PutInv
<1>6. CASE UNCHANGED vars
  <2>1. UNCHANGED <<disk, origin, run>>
    BY <1>6 DEF vars
  <2> QED
    BY <2>1 DEF PutInv, Overwrites
<1> QED
  BY <1>1, <1>2, <1>3, <1>4, <1>5, <1>6, NextCases DEF InTurns, Crash

\* A sync that was not told to overwrite overwrites nobody's text, whatever it fails
\* at and whoever changed the disk before: calls, refreshes and runs take turns, and
\* no program writes between its conflict check and its write.
THEOREM OverwritesAsked ==
  ASSUME InTurns, "editDuringSync" \notin Environment
  PROVE  Spec => NoSilentOverwrite
<1>1. Init => BaselinesInv /\ PutInv
  BY BaselinesInit DEF Init, IdleRun, PutInv
<1>2. BaselinesInv /\ PutInv /\ [Next]_vars => BaselinesInv' /\ PutInv'
  BY BaselinesNext, PutNext DEF BaselinesInv
<1>3. BaselinesInv /\ PutInv =>
        [run.pc = "put" /\ run'.pc = "mark" =>
           LET p == run.cur.item.path
           IN  \/ p \in run.force \/ run.cur.item.op.mtime = 0
               \/ disk[p].text \in origin[p] \cup {Absent, run.cur.text}]_vars
  <2> SUFFICES ASSUME BaselinesInv, PutInv, run.pc = "put"
               PROVE  Overwrites(run.cur.item.path)
    BY DEF Overwrites
  <2>1. run.cur.item.path \in Paths
    BY DEF BaselinesInv, TypeOK, Current, Item
  <2> QED
    BY <2>1 DEF PutInv
<1> QED
  BY <1>1, <1>2, <1>3, PTL DEF Spec, NoSilentOverwrite

=============================================================================
