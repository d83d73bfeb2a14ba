---------------------- MODULE WorkspaceOverlayProofs ----------------------
(***************************************************************************)
(* Proofs about WorkspaceOverlay, for any paths, texts, callers, bounds    *)
(* and choice of what else may happen.                                     *)
(***************************************************************************)
EXTENDS WorkspaceOverlay, TLAPS

LedgerOK == rows \in [Paths -> [Ids -> Row]] /\ mem \in [Paths -> Op \cup {None}]

-----------------------------------------------------------------------------
(* What the operators return *)

\* A row is a row again after upsertPendingOp.
LEMMA UpsertRow ==
  ASSUME NEW row \in Row, NEW type \in OpTypes, NEW mtime \in Nat, NEW force \in BOOLEAN
  PROVE  UpsertPendingOp(row, type, mtime, force) \in Row
  BY OverlayAssumption DEF UpsertPendingOp, Row

\* So are the rows of a path after discardPendingPath.
LEMMA DiscardedRows ==
  ASSUME NEW rs \in [Ids -> Row]
  PROVE  Discarded(rs) \in [Ids -> Row]
  BY DEF Discarded, Row

\* A free row is a row.
LEMMA FreeRowIsRow == FreeRow \in Row
  BY OverlayAssumption DEF FreeRow, Row, OpTypes

\* The entry of a row is an op.
LEMMA EntryIsOp ==
  ASSUME LedgerOK, NEW p \in Paths, NEW i \in Ids
  PROVE  Entry(p, i) \in Op
  BY DEF LedgerOK, Entry, Op, Row

\* add, markAsCreated and markForDeletion keep the ledger and the map typed.
LEMMA RecordOK ==
  ASSUME LedgerOK, NEW p \in Paths, NEW type \in OpTypes, NEW mtime \in Nat, NEW force \in BOOLEAN,
         Record(p, type, mtime, force)
  PROVE  LedgerOK'
<1>1. PICK i \in Targets(p) :
         LET row == UpsertPendingOp(rows[p][i], type, mtime, force)
         IN  /\ rows' = [rows EXCEPT ![p][i] = row]
             /\ mem' = [mem EXCEPT ![p] = [id |-> i, type |-> row.type, mtime |-> row.mtime]]
  BY DEF Record
<1>2. i \in Ids
  BY DEF Targets, Pending
<1>3. rows[p][i] \in Row
  BY <1>2 DEF LedgerOK
<1>4. UpsertPendingOp(rows[p][i], type, mtime, force) \in Row
  BY <1>3, UpsertRow
<1>5. [id |-> i, type |-> UpsertPendingOp(rows[p][i], type, mtime, force).type,
       mtime |-> UpsertPendingOp(rows[p][i], type, mtime, force).mtime] \in Op
  BY <1>2, <1>4 DEF Row, Op
<1> QED
  BY <1>1, <1>2, <1>4, <1>5 DEF LedgerOK

\* So does removeByPath,
LEMMA RemoveOK ==
  ASSUME LedgerOK, NEW p \in Paths, RemoveByPath(p)
  PROVE  LedgerOK'
<1>1. Discarded(rows[p]) \in [Ids -> Row]
  BY DiscardedRows DEF LedgerOK
<1> QED
  BY <1>1 DEF LedgerOK, RemoveByPath, ledger

\* and keepOpPending and markOpSynced.
LEMMA SettleOK ==
  ASSUME LedgerOK, NEW p \in Paths, NEW i \in Ids, KeepOpPending(p, i) \/ MarkOpSynced(p, i)
  PROVE  rows' \in [Paths -> [Ids -> Row]]
<1>1. rows[p] \in [Ids -> Row] /\ rows[p][i] \in Row
  BY DEF LedgerOK
<1>2. CASE KeepOpPending(p, i)
  <2>1. [rows[p][i] EXCEPT !.status = "pending", !.approved = FALSE] \in Row
    BY <1>1 DEF Row
  <2>2. rows' = [rows EXCEPT ![p] = [rows[p] EXCEPT ![i] =
                   [rows[p][i] EXCEPT !.status = "pending", !.approved = FALSE]]]
    BY <1>1, <1>2 DEF KeepOpPending, LedgerOK
  <2> QED
    BY <1>1, <2>1, <2>2 DEF LedgerOK
<1>3. CASE MarkOpSynced(p, i)
  <2>1. [rows[p][i] EXCEPT !.status = "synced", !.approved = TRUE] \in Row
    BY <1>1 DEF Row
  <2>2. rows' = [rows EXCEPT ![p] = [rows[p] EXCEPT ![i] =
                   [rows[p][i] EXCEPT !.status = "synced", !.approved = TRUE]]]
    BY <1>1, <1>3 DEF MarkOpSynced, LedgerOK
  <2> QED
    BY <1>1, <2>1, <2>2 DEF LedgerOK
<1> QED
  BY <1>2, <1>3

\* What the map holds after a reload.
LEMMA ReloadedOK ==
  ASSUME LedgerOK, NEW m \in Reloaded
  PROVE  m \in [Paths -> Op \cup {None}]
<1>1. {None} \cup {Entry(p, i) : p \in Paths, i \in Ids} \subseteq Op \cup {None}
  BY EntryIsOp
<1> QED
  BY <1>1 DEF Reloaded

\* What a refresh makes of one entry, when the path has a free row.
LEMMA ReconciledOK ==
  ASSUME LedgerOK, files \in [Paths -> FileRecord], NEW p \in Paths, NEW e \in Op \cup {None},
         \E i \in Ids : rows[p][i].status = "free"
  PROVE  /\ Reconciled(p, e).rows \in [Ids -> Row]
         /\ Reconciled(p, e).mem \in Op \cup {None}
<1> DEFINE rs == rows[p]
           i == CHOOSE j \in Ids : rs[j].status = "free"
           With(k, row, base) == [rows |-> [base EXCEPT ![k] = row],
                                  mem |-> [id |-> k, type |-> row.type, mtime |-> row.mtime]]
<1>1. rs \in [Ids -> Row] /\ Discarded(rs) \in [Ids -> Row] /\ i \in Ids
  BY DiscardedRows DEF LedgerOK
<1>2. files[p].mtime \in Nat
  BY DEF FileRecord
<1>3. ASSUME NEW k \in Ids, NEW row \in Row, NEW base \in [Ids -> Row]
      PROVE  /\ With(k, row, base).rows \in [Ids -> Row]
             /\ With(k, row, base).mem \in Op \cup {None}
  BY <1>3 DEF Row, Op
<1>4. ASSUME e # None
      PROVE  /\ e \in Op /\ e.id \in Ids /\ e.type \in OpTypes /\ e.mtime \in Nat
             /\ UpsertPendingOp(rs[e.id], e.type, e.mtime, FALSE) \in Row
             /\ UpsertPendingOp(rs[e.id], "delete", 0, FALSE) \in Row
  BY <1>1, <1>4, UpsertRow DEF Op, OpTypes
<1>5. UpsertPendingOp(FreeRow, "create", files[p].mtime, FALSE) \in Row
  BY <1>2, UpsertRow, FreeRowIsRow DEF OpTypes
<1> HIDE DEF With, i
<1> DEFINE R == Reconciled(p, e)
<1>6. \/ R = [rows |-> rs, mem |-> e]
      \/ R = [rows |-> Discarded(rs), mem |-> None]
      \/ e # None /\ R = With(e.id, UpsertPendingOp(rs[e.id], e.type, e.mtime, FALSE), rs)
      \/ R = With(i, UpsertPendingOp(FreeRow, "create", files[p].mtime, FALSE), Discarded(rs))
      \/ e # None /\ R = With(e.id, UpsertPendingOp(rs[e.id], "delete", 0, FALSE), rs)
  BY ZenonT(60) DEF Reconciled, With, i
<1> HIDE DEF R
<1>a. CASE R = [rows |-> rs, mem |-> e]
  BY <1>1, <1>a DEF R
<1>b. CASE R = [rows |-> Discarded(rs), mem |-> None]
  BY <1>1, <1>b DEF R
<1>c. CASE e # None /\ R = With(e.id, UpsertPendingOp(rs[e.id], e.type, e.mtime, FALSE), rs)
  <2>1. e.id \in Ids /\ UpsertPendingOp(rs[e.id], e.type, e.mtime, FALSE) \in Row /\ rs \in [Ids -> Row]
    BY <1>1, <1>4, <1>c
  <2> QED
    BY <1>3, <1>c, <2>1, Zenon DEF R
<1>d. CASE R = With(i, UpsertPendingOp(FreeRow, "create", files[p].mtime, FALSE), Discarded(rs))
  BY <1>1, <1>3, <1>5, <1>d, Zenon DEF R
<1>e. CASE e # None /\ R = With(e.id, UpsertPendingOp(rs[e.id], "delete", 0, FALSE), rs)
  <2>1. e.id \in Ids /\ UpsertPendingOp(rs[e.id], "delete", 0, FALSE) \in Row /\ rs \in [Ids -> Row]
    BY <1>1, <1>4, <1>e
  <2> QED
    BY <1>3, <1>e, <2>1, Zenon DEF R
<1> QED
  BY <1>6, <1>a, <1>b, <1>c, <1>d, <1>e

\* A refresh keeps ledger, map and baselines typed.
LEMMA RefreshOK ==
  ASSUME TypeOK, RefreshAll
  PROVE  LedgerOK' /\ baseline' \in [Paths -> TextOrAbsent \cup {None}]
<1>1. LedgerOK
  BY DEF TypeOK, LedgerOK
<1>2. PICK loaded \in Reloaded :
        LET result == [p \in Paths |-> Reconciled(p, loaded[p])]
            kept == [p \in Paths |-> result[p].mem]
        IN  /\ rows' = [p \in Paths |-> result[p].rows]
            /\ mem' = kept
            /\ baseline' = Cleaned(kept)
  BY DEF RefreshAll
<1>3. \A p \in Paths : loaded[p] \in Op \cup {None}
  BY <1>1, ReloadedOK
<1>4. \A p \in Paths : /\ Reconciled(p, loaded[p]).rows \in [Ids -> Row]
                       /\ Reconciled(p, loaded[p]).mem \in Op \cup {None}
  BY <1>1, <1>3, ReconciledOK DEF RefreshAll, TypeOK
<1>5. LedgerOK'
  BY <1>2, <1>4 DEF LedgerOK
<1>6. \A m : Cleaned(m) \in [Paths -> TextOrAbsent \cup {None}]
  BY DEF Cleaned, TypeOK
<1> QED
  BY <1>2, <1>5, <1>6

\* What a read returns is a text.
LEMMA ReadOK ==
  ASSUME TypeOK, NEW p \in Paths
  PROVE  Read(p) \in TextOrAbsent
  BY DEF Read, TypeOK, FileRecord

\* What a write is based on is a text and an mtime.
LEMMA BasedOK ==
  ASSUME TypeOK, NEW p \in Paths
  PROVE  Based(p) \in FileRecord
  BY DEF Based, TypeOK, FileRecord

\* What is remembered of the text a draft was made from.
LEMMA MadeFromOK ==
  ASSUME TypeOK, NEW p \in Paths, NEW text \in TextOrAbsent, NEW anew \in BOOLEAN
  PROVE  MadeFrom(p, text, anew) \in SUBSET TextOrAbsent
  BY DEF MadeFrom, TypeOK, FileRecord

-----------------------------------------------------------------------------
(* Type correctness *)

\* The initial state is typed.
LEMMA TypeInit == Init => TypeOK
<1> SUFFICES ASSUME Init PROVE TypeOK
  OBVIOUS
<1>1. Gone \in FileRecord /\ FreeRow \in Row
  BY FreeRowIsRow DEF Gone, FileRecord, TextOrAbsent
<1>2. disk \in [Paths -> FileRecord]
  BY <1>1 DEF Init, FileRecord, TextOrAbsent
<1>3. clock \in Nat /\ IdleRun.pc = "idle"
  BY DEF Init, IdleRun
<1> QED
  BY <1>1, <1>2, <1>3 DEF Init, TypeOK, TextOrAbsent, IdleRun

\* A write that changes nothing;
LEMMA TypeWriteNothing ==
  ASSUME TypeOK, NEW a \in Actors, NEW p \in Paths, NEW t \in Texts, WriteNothing(a, p, t)
  PROVE  TypeOK'
<1>1. LedgerOK'
  BY RemoveOK DEF WriteNothing, TypeOK, LedgerOK
<1>2. [text |-> t, mtime |-> clock + 1] \in FileRecord
  BY DEF TypeOK, FileRecord, TextOrAbsent
<1>3. files' \in [Paths -> FileRecord] /\ clock' \in Nat
  BY <1>2 DEF WriteNothing, TypeOK
<1>4. baseline' \in [Paths -> TextOrAbsent \cup {None}]
  BY DEF WriteNothing, TypeOK
<1>5. draft' \in [Paths -> Texts \cup {None, Absent}]
  BY DEF WriteNothing, TypeOK
<1> QED
  BY <1>1, <1>3, <1>4, <1>5 DEF WriteNothing, TypeOK, LedgerOK

\* writeFile, until the baseline is kept;
LEMMA TypeWriteBegin ==
  ASSUME TypeOK, NEW a \in Actors, NEW p \in Paths, NEW t \in Texts, WriteBegin(a, p, t)
  PROVE  TypeOK'
<1> DEFINE base == Based(p)
           new == base.text = Absent
           force == ~new /\ Resolving(p)
           c == [pc |-> "files", op |-> "write", path |-> p, text |-> t,
                 new |-> new, mtime |-> base.mtime, force |-> force]
<1>1. base \in FileRecord
  BY BasedOK
<1>2. c \in WriteCall
  BY <1>1 DEF WriteCall, FileRecord
<1>3. MadeFrom(p, base.text, mem[p] = None \/ force) \in SUBSET TextOrAbsent
  BY <1>1, MadeFromOK DEF FileRecord
<1>4. /\ call' = [call EXCEPT ![a] = c]
      /\ origin' = [origin EXCEPT ![p] = MadeFrom(p, base.text, mem[p] = None \/ force)]
      /\ baseline' = baseline \/ baseline' = [baseline EXCEPT ![p] = base.text]
      /\ UNCHANGED <<disk, files, rows, mem, history, snaps, clock, run, draft>>
  BY DEF WriteBegin
<1> HIDE DEF c, base, new, force
<1>5. base.text \in TextOrAbsent
  BY <1>1 DEF FileRecord
<1> QED
  BY <1>2, <1>3, <1>4, <1>5 DEF TypeOK

\* its write to files/;
LEMMA TypeWriteFiles ==
  ASSUME TypeOK, NEW a \in Actors, WriteFiles(a)
  PROVE  TypeOK'
<1>1. call[a] \in WriteCall
  BY DEF WriteFiles, TypeOK, IdleCall, DeleteCall, DiscardCall
<1>2. [call[a] EXCEPT !.pc = "row"] \in WriteCall
  BY <1>1 DEF WriteCall
<1> DEFINE f == [text |-> call[a].text, mtime |-> clock + 1]
<1>3. f \in FileRecord /\ clock + 1 \in Nat
  BY <1>1 DEF WriteCall, FileRecord, TextOrAbsent, TypeOK
<1>a. files' = [files EXCEPT ![call[a].path] = f] /\ clock' = clock + 1
  BY DEF WriteFiles
<1> HIDE DEF f
<1>4. call' = [call EXCEPT ![a] = [call[a] EXCEPT !.pc = "row"]]
  BY DEF WriteFiles, TypeOK
<1>5. files' \in [Paths -> FileRecord] /\ clock' \in Nat
  BY <1>3, <1>a DEF TypeOK
<1>6. call' \in [Actors -> {IdleCall} \cup WriteCall \cup DeleteCall \cup DiscardCall]
  BY <1>2, <1>4 DEF TypeOK
<1> QED
  BY <1>5, <1>6 DEF WriteFiles, TypeOK

\* its row.
LEMMA TypeWriteRow ==
  ASSUME TypeOK, NEW a \in Actors, WriteRow(a)
  PROVE  TypeOK'
<1> DEFINE p == call[a].path
<1>1. call[a] \in WriteCall
  BY DEF WriteRow, TypeOK, IdleCall, DeleteCall, DiscardCall
<1>2. p \in Paths /\ call[a].mtime \in Nat /\ call[a].force \in BOOLEAN /\ call[a].text \in Texts
  BY <1>1 DEF WriteCall
<1>3. (IF call[a].new THEN "create" ELSE TypeOfEdit(p)) \in OpTypes
  BY DEF OpTypes, TypeOfEdit
<1>4. LedgerOK'
  BY <1>2, <1>3, RecordOK DEF WriteRow, TypeOK, LedgerOK
<1> QED
  BY <1>2, <1>4 DEF WriteRow, TypeOK, LedgerOK

\* deleteFile, until the baseline is kept;
LEMMA TypeDeleteBegin ==
  ASSUME TypeOK, NEW a \in Actors, NEW p \in Paths, DeleteBegin(a, p)
  PROVE  TypeOK'
<1> DEFINE c == [pc |-> "files", op |-> "delete", path |-> p, mtime |-> disk[p].mtime]
<1>1. disk[p].text \in TextOrAbsent /\ disk[p].mtime \in Nat
  BY DEF TypeOK, FileRecord
<1>2. c \in DeleteCall
  BY <1>1 DEF DeleteCall
<1>3. MadeFrom(p, disk[p].text, mem[p] = None) \in SUBSET TextOrAbsent
  BY <1>1, MadeFromOK
<1>4. baseline' \in [Paths -> TextOrAbsent \cup {None}]
  BY <1>1 DEF DeleteBegin, TypeOK
<1>5. /\ call' = [call EXCEPT ![a] = c]
      /\ origin' = [origin EXCEPT ![p] = MadeFrom(p, disk[p].text, mem[p] = None)]
      /\ UNCHANGED <<disk, files, rows, mem, history, snaps, clock, run, draft>>
  BY DEF DeleteBegin
<1> HIDE DEF c
<1> QED
  BY <1>2, <1>3, <1>4, <1>5 DEF TypeOK

\* its removal of the draft;
LEMMA TypeDeleteFiles ==
  ASSUME TypeOK, NEW a \in Actors, DeleteFiles(a)
  PROVE  TypeOK'
<1>1. call[a] \in DeleteCall
  BY DEF DeleteFiles, TypeOK, IdleCall, WriteCall, DiscardCall
<1>2. [call[a] EXCEPT !.pc = "row"] \in DeleteCall
  BY <1>1 DEF DeleteCall
<1>3. Gone \in FileRecord
  BY DEF Gone, FileRecord, TextOrAbsent
<1>4. call' = [call EXCEPT ![a] = [call[a] EXCEPT !.pc = "row"]]
  BY DEF DeleteFiles, TypeOK
<1> QED
  BY <1>2, <1>3, <1>4 DEF DeleteFiles, TypeOK

\* its row, or the cancelled one of a create.
LEMMA TypeDeleteRow ==
  ASSUME TypeOK, NEW a \in Actors, DeleteRow(a)
  PROVE  TypeOK'
<1> DEFINE p == call[a].path
<1>1. call[a] \in DeleteCall
  BY DEF DeleteRow, TypeOK, IdleCall, WriteCall, DiscardCall
<1>2. p \in Paths /\ call[a].mtime \in Nat /\ "delete" \in OpTypes
  BY <1>1 DEF DeleteCall, OpTypes
<1>3. LedgerOK'
  BY <1>2, RecordOK, RemoveOK DEF DeleteRow, TypeOK, LedgerOK
<1> QED
  BY <1>2, <1>3 DEF DeleteRow, TypeOK, LedgerOK

\* A discard puts the file back,
LEMMA TypeDiscardFiles ==
  ASSUME TypeOK, NEW a \in Actors, NEW p \in Paths, DiscardFiles(a, p)
  PROVE  TypeOK'
<1> DEFINE from == IF mem[p].type = "delete" /\ baseline[p] = None THEN None
                   ELSE IF disk[p].text # Absent THEN disk[p].text ELSE baseline[p]
<1>1. from = None \/ [text |-> from, mtime |-> clock + 1] \in FileRecord
  BY DEF TypeOK, FileRecord
<1>2. Gone \in FileRecord
  BY DEF Gone, FileRecord, TextOrAbsent
<1>3. [pc |-> "row", op |-> "discard", path |-> p] \in DiscardCall
  BY DEF DiscardCall
<1> HIDE DEF from
<1>4. files' \in [Paths -> FileRecord] /\ clock' \in Nat
  BY <1>1, <1>2 DEF DiscardFiles, TypeOK, from
<1> QED
  BY <1>3, <1>4 DEF DiscardFiles, TypeOK

\* then closes the row.
LEMMA TypeDiscardRow ==
  ASSUME TypeOK, NEW a \in Actors, DiscardRow(a)
  PROVE  TypeOK'
<1>1. call[a] \in DiscardCall
  BY DEF DiscardRow, TypeOK, IdleCall, WriteCall, DeleteCall
<1>2. call[a].path \in Paths
  BY <1>1 DEF DiscardCall
<1>3. LedgerOK'
  BY <1>2, RemoveOK DEF DiscardRow, TypeOK, LedgerOK
<1> QED
  BY <1>2, <1>3 DEF DiscardRow, TypeOK, LedgerOK

\* The fields of a run under way.
LEMMA RunFields ==
  ASSUME TypeOK, run.pc # "idle"
  PROVE  /\ run \in Run
         /\ run.paths \subseteq Paths /\ run.todo \subseteq Item
         /\ run.snap \in 0 .. MaxSnaps
  BY DEF TypeOK, IdleRun, Run

\* A path that was not written leaves the run one.
LEMMA FailedIsRun ==
  ASSUME TypeOK, run.pc # "idle", NEW c \in Item
  PROVE  /\ Failed(c) \in Run /\ Failed(c).pc = "next"
         /\ [Failed(c) EXCEPT !.conflicts = @ \cup {c.path}] \in Run
         /\ [Failed(c) EXCEPT !.conflicts = @ \cup {c.path}].pc = "next"
<1>1. run \in Run /\ c.path \in Paths
  BY RunFields DEF Item
<1>2. Failed(c) \in Run /\ Failed(c).pc = "next"
  BY <1>1 DEF Failed, Run
<1> HIDE DEF Failed
<1> QED
  BY <1>1, <1>2 DEF Run

\* A run is typed when it starts.
LEMMA NewRunIsRun ==
  ASSUME NEW pc \in {"detect", "approve", "sync"}, NEW kind \in RunKinds,
         NEW ps \in SUBSET Paths, NEW force \in SUBSET Paths, NEW snap \in 0 .. MaxSnaps
  PROVE  NewRun(pc, kind, ps, force, snap) \in Run /\ NewRun(pc, kind, ps, force, snap).pc = pc
  BY DEF NewRun, Run

\* So is the state it starts in,
LEMMA TypeBegin ==
  ASSUME TypeOK, NEW r \in Run, r.pc \in {"detect", "approve", "sync"}, Begin(r)
  PROVE  TypeOK'
  BY DEF Begin, TypeOK

\* whichever kind it is.
LEMMA TypeStart ==
  ASSUME TypeOK,
         \/ \E ps \in SUBSET Paths \ {{}} :
              \/ \E force \in SUBSET ps : StartReview(ps, force)
              \/ StartAuto(ps) \/ StartTool(ps)
         \/ \E s \in SnapIds : StartUnsynced(s)
  PROVE  TypeOK'
<1> USE OverlayAssumption
<1>1. ASSUME NEW ps \in SUBSET Paths, NEW force \in SUBSET ps, StartReview(ps, force)
      PROVE  TypeOK'
  BY <1>1, NewRunIsRun, TypeBegin DEF StartReview, RunKinds
<1>2. ASSUME NEW ps \in SUBSET Paths, StartAuto(ps)
      PROVE  TypeOK'
  BY <1>2, NewRunIsRun, TypeBegin DEF StartAuto, RunKinds
<1>3. ASSUME NEW ps \in SUBSET Paths, StartTool(ps)
      PROVE  TypeOK'
  BY <1>3, NewRunIsRun, TypeBegin DEF StartTool, RunKinds
<1>4. ASSUME NEW s \in SnapIds, StartUnsynced(s)
      PROVE  TypeOK'
  BY <1>4, NewRunIsRun, TypeBegin DEF StartUnsynced, RunKinds, SnapIds
<1> QED
  BY <1>1, <1>2, <1>3, <1>4

\* Markers in the drafts of a conflict.
LEMMA MaterializedOK ==
  ASSUME TypeOK, NEW ps \in SUBSET Paths
  PROVE  Materialized(ps) \in [Paths -> FileRecord]
  BY DEF Materialized, TypeOK, FileRecord, TextOrAbsent

\* Auto-apply's conflict check.
LEMMA TypeDetect ==
  ASSUME TypeOK, Detect
  PROVE  TypeOK'
<1>1. run \in Run
  BY RunFields DEF Detect
<1>a. InConflict(run.paths) \in SUBSET Paths
  BY <1>1 DEF InConflict, Run
<1>2. files' \in [Paths -> FileRecord] /\ clock' \in Nat
  BY <1>a, MaterializedOK DEF Detect, TypeOK
<1>3. run' \in Run /\ run'.pc \notin {"put", "mark"}
  BY <1>1 DEF Detect, Run
<1> QED
  BY <1>2, <1>3 DEF Detect, TypeOK

\* The approval of the pending rows of a run's paths.
LEMMA TypeApprove ==
  ASSUME TypeOK, Approve
  PROVE  TypeOK'
<1>1. run \in Run
  BY RunFields DEF Approve
<1> DEFINE taken == {p \in run.paths : Pending(p) # {}}
<1>2. CASE taken = {}
  <2>1. run' \in Run /\ run'.pc \notin {"put", "mark"}
    BY <1>1, <1>2 DEF Approve, Run
  <2> QED
    BY <1>2, <2>1 DEF Approve, TypeOK
<1>3. CASE taken # {}
  <2>1. PICK s \in SnapIds :
          /\ snaps' = [snaps EXCEPT ![s] = "approved"]
          /\ rows' = [p \in Paths |-> [i \in Ids |->
                        IF p \in taken /\ i \in Pending(p)
                          THEN [rows[p][i] EXCEPT !.approved = TRUE, !.snap = s] ELSE rows[p][i]]]
          /\ history' = [p \in Paths |->
                           IF p \notin taken THEN history[p]
                           ELSE IF \E i \in Pending(p) : rows[p][i].type = "delete" THEN Absent
                           ELSE Read(p)]
          /\ run' = [run EXCEPT !.pc = "sync", !.snap = s]
    BY <1>3 DEF Approve
  <2>2. s \in 0 .. MaxSnaps
    BY OverlayAssumption DEF SnapIds
  <2>a. \A r \in Row : [r EXCEPT !.approved = TRUE, !.snap = s] \in Row
    BY <2>2 DEF Row
  <2>b. \A p \in Paths, i \in Ids : rows[p][i] \in Row
    BY DEF TypeOK
  <2>3. \A p \in Paths, i \in Ids : /\ rows[p][i] \in Row
                                   /\ [rows[p][i] EXCEPT !.approved = TRUE, !.snap = s] \in Row
    BY <2>a, <2>b, Zenon
  <2>4. rows' \in [Paths -> [Ids -> Row]]
    BY <2>1, <2>3
  <2>5. history' \in [Paths -> TextOrAbsent]
    BY <2>1, ReadOK DEF TypeOK, TextOrAbsent
  <2>6. run' \in Run /\ run'.pc \notin {"put", "mark"}
    BY <1>1, <2>1, <2>2 DEF Run
  <2>7. snaps' \in [SnapIds -> {"none", "approved", "synced"}]
    BY <2>1 DEF TypeOK
  <2> QED
    BY <2>4, <2>5, <2>6, <2>7 DEF Approve, TypeOK
<1> QED
  BY <1>2, <1>3

\* The beginning and the ends of syncToDisk.
LEMMA TypeSync ==
  ASSUME TypeOK, SyncBegin \/ SyncThrows \/ SyncDone
  PROVE  TypeOK'
<1>1. run \in Run
  BY RunFields DEF SyncBegin, SyncThrows, SyncDone
<1>2. CASE SyncBegin
  <2>1. {[path |-> p, op |-> mem[p]] : p \in PassPaths \cap Listed} \subseteq Item
    BY DEF Listed, TypeOK, Item
  <2>2. run' \in Run /\ run'.pc \notin {"put", "mark"}
    BY <1>1, <1>2, <2>1 DEF SyncBegin, Run
  <2> QED
    BY <1>2, <2>2 DEF SyncBegin, TypeOK
<1>3. CASE SyncThrows
  <2>1. run' \in {IdleRun} \cup Run /\ run'.pc \notin {"put", "mark"}
    BY <1>1, <1>3 DEF SyncThrows, Run, IdleRun
  <2> QED
    BY <1>3, <2>1 DEF SyncThrows, TypeOK
<1>4. CASE SyncDone
  <2>1. run' \in Run /\ run'.pc \notin {"put", "mark"}
    BY <1>1, <1>4 DEF SyncDone, Run
  <2>2. baseline' \in [Paths -> TextOrAbsent \cup {None}]
    BY <1>4 DEF SyncDone, Cleaned, TypeOK
  <2> QED
    BY <1>4, <2>1, <2>2 DEF SyncDone, TypeOK
<1> QED
  BY <1>2, <1>3, <1>4

\* One item of the batch, until its disk write.
LEMMA TypeSyncItem ==
  ASSUME TypeOK, run.pc # "idle", NEW c \in run.todo,
         SyncRefuse(c) \/ SyncNoContent(c) \/ SyncRead(c)
  PROVE  TypeOK'
<1>1. run \in Run /\ c \in Item
  BY RunFields
<1>2. c.path \in Paths /\ c.op \in Op /\ c.op.id \in Ids
  BY <1>1 DEF Item, Op
<1>3. CASE SyncRefuse(c) \/ SyncNoContent(c)
  <2>1. KeepOpPending(c.path, c.op.id)
    BY <1>3 DEF SyncRefuse, SyncNoContent
  <2>2. rows' \in [Paths -> [Ids -> Row]]
    BY <1>2, <2>1, SettleOK DEF TypeOK, LedgerOK
  <2>3. run' \in Run /\ run'.pc = "next"
    BY <1>1, <1>3, FailedIsRun DEF SyncRefuse, SyncNoContent
  <2> QED
    BY <1>3, <2>2, <2>3 DEF SyncRefuse, SyncNoContent, TypeOK
<1>4. CASE SyncRead(c)
  <2> DEFINE cur == [item |-> c, text |-> IF c.op.type = "delete" THEN Absent ELSE files[c.path].text]
  <2>1. cur \in Current
    BY <1>1, <1>2 DEF Current, TypeOK, FileRecord, TextOrAbsent
  <2>2. run' = [run EXCEPT !.pc = "put", !.cur = cur]
    BY <1>4 DEF SyncRead
  <2> HIDE DEF cur
  <2>3. run' \in Run /\ run'.cur \in Current
    BY <1>1, <2>1, <2>2 DEF Run
  <2> QED
    BY <1>4, <2>3 DEF SyncRead, TypeOK
<1> QED
  BY <1>3, <1>4

\* Steps that have a current item.
LEMMA TypePut ==
  ASSUME TypeOK, SyncPut \/ SyncPutFails \/ SyncMark
  PROVE  TypeOK'
<1> DEFINE c == run.cur.item
<1>1. run \in Run /\ run.pc \in {"put", "mark"} /\ run.cur \in Current
  BY RunFields DEF SyncPut, SyncPutFails, SyncMark, TypeOK
<1>2. c \in Item /\ c.path \in Paths /\ c.op.id \in Ids /\ run.cur.text \in TextOrAbsent
  BY <1>1 DEF Current, Item, Op
<1>3. CASE SyncPut
  <2> DEFINE f == [text |-> run.cur.text, mtime |-> clock + 1]
  <2>1. Gone \in FileRecord /\ f \in FileRecord /\ clock + 1 \in Nat
    BY <1>2 DEF Gone, FileRecord, TextOrAbsent, TypeOK
  <2>a. disk' = [disk EXCEPT ![c.path] = IF run.cur.text = Absent THEN Gone ELSE f]
    BY <1>3 DEF SyncPut
  <2>b. clock' \in Nat
    BY <1>3, <2>1 DEF SyncPut, TypeOK
  <2> HIDE DEF f
  <2>2. disk' \in [Paths -> FileRecord] /\ clock' \in Nat
    BY <2>1, <2>a, <2>b DEF TypeOK
  <2>3. run' \in Run /\ run'.cur \in Current
    BY <1>1, <1>3 DEF SyncPut, Run
  <2>4. draft' \in [Paths -> Texts \cup {None, Absent}]
    BY <1>3 DEF SyncPut, TypeOK
  <2> QED
    BY <1>3, <2>2, <2>3, <2>4 DEF SyncPut, TypeOK
<1>4. CASE SyncPutFails
  <2>1. CASE KeepOpPending(c.path, c.op.id) /\ run' = Failed(c)
    <3>1. rows' \in [Paths -> [Ids -> Row]]
      BY <1>2, <2>1, SettleOK DEF TypeOK, LedgerOK
    <3>2. run' \in Run /\ run'.pc = "next"
      BY <1>1, <1>2, <2>1, FailedIsRun
    <3> QED
      BY <1>4, <3>1, <3>2 DEF SyncPutFails, TypeOK
  <2>2. CASE rows' = rows /\ run' = [run EXCEPT !.pc = "mark"]
    <3>1. run' \in Run /\ run'.cur \in Current
      BY <1>1, <2>2 DEF Run
    <3> QED
      BY <1>4, <2>2, <3>1 DEF SyncPutFails, TypeOK
  <2> QED
    BY <1>4, <2>1, <2>2 DEF SyncPutFails
<1>5. CASE SyncMark
  <2>1. rows' \in [Paths -> [Ids -> Row]]
    BY <1>2, <1>5, SettleOK DEF SyncMark, TypeOK, LedgerOK
  <2>2. mem' \in [Paths -> Op \cup {None}]
    BY <1>5 DEF SyncMark, TypeOK
  <2>3. run' \in Run /\ run'.pc = "next"
    BY <1>1, <1>2, <1>5 DEF SyncMark, Run
  <2> QED
    BY <1>5, <2>1, <2>2, <2>3 DEF SyncMark, TypeOK
<1> QED
  BY <1>3, <1>4, <1>5

\* The caller's mark of the snapshot and its refresh.
LEMMA TypeEnd ==
  ASSUME TypeOK, Finish \/ FinalRefresh
  PROVE  TypeOK'
<1>1. CASE Finish
  <2>1. run \in Run
    BY <1>1, RunFields DEF Finish
  <2>2. run' \in {IdleRun} \cup Run /\ run'.pc \notin {"put", "mark"}
    BY <1>1, <2>1 DEF Finish, Run, IdleRun
  <2>3. snaps' \in [SnapIds -> {"none", "approved", "synced"}]
    BY <1>1 DEF Finish, TypeOK
  <2> QED
    BY <1>1, <2>2, <2>3 DEF Finish, TypeOK
<1>2. CASE FinalRefresh
  <2>1. LedgerOK' /\ baseline' \in [Paths -> TextOrAbsent \cup {None}]
    BY <1>2, RefreshOK DEF FinalRefresh
  <2> QED
    BY <1>2, <2>1 DEF FinalRefresh, TypeOK, LedgerOK, IdleRun
<1> QED
  BY <1>1, <1>2

\* Refreshes, conflict checks, other programs, reloads.
LEMMA TypeWorld ==
  ASSUME TypeOK,
         \/ Refresh \/ DetectConflicts \/ Crash
         \/ \E p \in Paths, t \in Texts \cup {Absent} : ExternalEdit(p, t)
  PROVE  TypeOK'
<1>1. CASE Refresh
  <2>1. LedgerOK' /\ baseline' \in [Paths -> TextOrAbsent \cup {None}]
    BY <1>1, RefreshOK DEF Refresh
  <2> QED
    BY <1>1, <2>1 DEF Refresh, TypeOK, LedgerOK
<1>2. CASE DetectConflicts
  <2>a. InConflict(Paths) \in SUBSET Paths
    BY DEF InConflict
  <2>1. files' \in [Paths -> FileRecord] /\ clock' \in Nat
    BY <1>2, <2>a, MaterializedOK DEF DetectConflicts, TypeOK
  <2> QED
    BY <1>2, <2>1 DEF DetectConflicts, TypeOK
<1>3. CASE Crash
  <2>1. mem' \in [Paths -> Op \cup {None}]
    BY <1>3, ReloadedOK DEF Crash, TypeOK, LedgerOK
  <2>2. draft' \in [Paths -> Texts \cup {None, Absent}]
    BY <1>3 DEF Crash, TypeOK
  <2> QED
    BY <1>3, <2>1, <2>2 DEF Crash, TypeOK, IdleRun
<1>4. ASSUME NEW p \in Paths, NEW t \in Texts \cup {Absent}, ExternalEdit(p, t)
      PROVE  TypeOK'
  <2>1. Gone \in FileRecord /\ [text |-> t, mtime |-> clock + 1] \in FileRecord
    BY DEF Gone, FileRecord, TextOrAbsent, TypeOK
  <2>2. disk' \in [Paths -> FileRecord] /\ clock' \in Nat
    BY <1>4, <2>1 DEF ExternalEdit, TypeOK
  <2> QED
    BY <1>4, <2>2 DEF ExternalEdit, TypeOK
<1> QED
  BY <1>1, <1>2, <1>3, <1>4

\* TypeOK is inductive by itself.
LEMMA TypeNext == TypeOK /\ [Next]_vars => TypeOK'
<1> SUFFICES ASSUME TypeOK, [Next]_vars
             PROVE  TypeOK'
  OBVIOUS
<1>1. ASSUME NEW a \in Actors, CallStep(a)
      PROVE  TypeOK'
  BY <1>1, TypeWriteFiles, TypeWriteRow, TypeDeleteFiles, TypeDeleteRow, TypeDiscardRow DEF CallStep
<1>2. ASSUME NEW a \in Actors, NEW p \in Paths, DeleteBegin(a, p) \/ DiscardFiles(a, p)
      PROVE  TypeOK'
  BY <1>2, TypeDeleteBegin, TypeDiscardFiles
<1>3. ASSUME NEW a \in Actors, NEW p \in Paths, NEW t \in Texts, WriteNothing(a, p, t) \/ WriteBegin(a, p, t)
      PROVE  TypeOK'
  BY <1>3, TypeWriteNothing, TypeWriteBegin
<1>4. CASE run.pc # "idle" /\ RunStep
  BY <1>4, TypeDetect, TypeApprove, TypeSync, TypeSyncItem, TypePut, TypeEnd DEF RunStep
<1>5. CASE UNCHANGED vars
  BY <1>5 DEF TypeOK, vars
<1> QED
  BY <1>1, <1>2, <1>3, <1>4, <1>5, TypeStart, TypeWorld DEF Next

\* Every variable holds what it may hold, for any number of files, callers and
\* texts, whatever fails: in particular a write to the disk always has the item
\* it is about.
THEOREM OverlayTypeOK == Spec => []TypeOK
  BY TypeInit, TypeNext, PTL DEF Spec

-----------------------------------------------------------------------------
(* Auto-apply *)

\* What the property needs to be inductive: while such a run is under way no call
\* is on its paths, the map has no delete of them, and neither has the batch.
AutoInv ==
  run.pc # "idle" /\ run.kind = "auto" =>
    /\ \A a \in Actors : call[a].pc # "idle" => call[a].path \notin run.paths
    /\ \A p \in run.paths : mem[p] # None => mem[p].type # "delete"
    /\ run.force = {}
    /\ \A c \in run.todo : c.op.type # "delete"
    /\ run.pc = "put" => run.cur.text # Absent

\* A step of a call that is not on a path of the run.
LEMMA AutoCall ==
  ASSUME TypeOK, AutoInv, run' = run, NEW a \in Actors, NEW p \in Paths,
         run.pc # "idle" /\ run.kind = "auto" => p \notin run.paths,
         \A q \in Paths \ {p} : mem'[q] = mem[q],
         \A b \in Actors \ {a} : call'[b] = call[b],
         call'[a].pc = "idle" \/ call'[a].path = p
  PROVE  AutoInv'
<1> SUFFICES ASSUME run.pc # "idle", run.kind = "auto"
             PROVE  AutoInv'
  BY DEF AutoInv
<1>1. run.paths \subseteq Paths \ {p}
  BY RunFields
<1>2. \A q \in run.paths : mem'[q] # None => mem'[q].type # "delete"
  BY <1>1 DEF AutoInv
<1>3. \A b \in Actors : call'[b].pc # "idle" => call'[b].path \notin run.paths
  <2> SUFFICES ASSUME NEW b \in Actors, call'[b].pc # "idle"
               PROVE  call'[b].path \notin run.paths
    OBVIOUS
  <2>1. CASE b = a
    BY <2>1
  <2>2. CASE b # a
    BY <2>2 DEF AutoInv
  <2> QED
    BY <2>1, <2>2
<1> QED
  BY <1>2, <1>3 DEF AutoInv

\* A step of the run that takes nothing new into the batch.
LEMMA AutoOnward ==
  ASSUME TypeOK, AutoInv, run.pc # "idle", call' = call,
         run'.paths = run.paths, run'.kind = run.kind, run'.force = run.force,
         run'.todo \subseteq run.todo, run'.pc # "put",
         \A p \in Paths : mem'[p] = mem[p] \/ mem'[p] = None
  PROVE  AutoInv'
<1>1. run.paths \subseteq Paths
  BY RunFields
<1> QED
  BY <1>1 DEF AutoInv

\* As when the run only moves on or ends,
LEMMA AutoField ==
  ASSUME TypeOK, AutoInv, run.pc # "idle", call' = call, mem' = mem,
         \/ run' = IdleRun
         \/ \E pc \in {"approve", "refresh", "sync", "finish", "mark"} : run' = [run EXCEPT !.pc = pc]
         \/ \E s \in SnapIds : run' = [run EXCEPT !.pc = "sync", !.snap = s]
         \/ run' = [run EXCEPT !.pc = "sync", !.forced = TRUE]
  PROVE  AutoInv'
<1>1. CASE run' = IdleRun
  BY <1>1 DEF IdleRun, AutoInv
<1>2. CASE run' # IdleRun
  <2>1. run \in Run
    BY RunFields
  <2>2. /\ run'.paths = run.paths /\ run'.kind = run.kind /\ run'.force = run.force
        /\ run'.todo = run.todo /\ run'.pc # "put"
    BY <1>2, <2>1 DEF Run
  <2> QED
    BY <2>2, AutoOnward
<1> QED
  BY <1>1, <1>2

\* or drops a path that was not written.
LEMMA AutoFailed ==
  ASSUME TypeOK, AutoInv, run.pc # "idle", call' = call, mem' = mem, NEW c,
         run' = Failed(c) \/ run' = [Failed(c) EXCEPT !.conflicts = @ \cup {c.path}]
  PROVE  AutoInv'
<1>1. run \in Run
  BY RunFields
<1> DEFINE f == Failed(c)
           g == [f EXCEPT !.conflicts = @ \cup {c.path}]
<1>2. /\ f.paths = run.paths /\ f.kind = run.kind /\ f.force = run.force
      /\ f.todo \subseteq run.todo /\ f.pc = "next"
  BY <1>1 DEF Failed, Run
<1>3. /\ g.paths = f.paths /\ g.kind = f.kind /\ g.force = f.force
      /\ g.todo = f.todo /\ g.pc = f.pc
  BY <1>1 DEF Failed, Run
<1>4. run' = f \/ run' = g
  OBVIOUS
<1> HIDE DEF f, g
<1> QED
  BY <1>2, <1>3, <1>4, AutoOnward

\* A call begins away from the run, unless it may begin anywhere.
LEMMA AutoBegins ==
  ASSUME TypeOK, AutoInv, "callsDuringRun" \notin Environment, NEW a \in Actors, NEW p \in Paths,
         DeleteBegin(a, p) \/ DiscardFiles(a, p)
           \/ \E t \in Texts : WriteNothing(a, p, t) \/ WriteBegin(a, p, t)
  PROVE  AutoInv'
<1>1. run' = run /\ (run.pc # "idle" => p \notin run.paths)
  BY DEF DeleteBegin, DiscardFiles, WriteNothing, WriteBegin, MayCall
<1>2. \A q \in Paths \ {p} : mem'[q] = mem[q]
  BY DEF DeleteBegin, DiscardFiles, WriteNothing, WriteBegin, RemoveByPath, ledger, TypeOK
<1>3. \A b \in Actors \ {a} : call'[b] = call[b]
  BY DEF DeleteBegin, DiscardFiles, WriteNothing, WriteBegin, TypeOK
<1>4. call'[a].pc = "idle" \/ call'[a].path = p
  <2>1. CASE DeleteBegin(a, p)
    BY <2>1 DEF DeleteBegin, TypeOK
  <2>2. CASE DiscardFiles(a, p)
    BY <2>2 DEF DiscardFiles, TypeOK
  <2>3. ASSUME NEW t \in Texts, WriteNothing(a, p, t)
        PROVE  call'[a].pc = "idle"
    BY <2>3 DEF WriteNothing
  <2>4. ASSUME NEW t \in Texts, WriteBegin(a, p, t)
        PROVE  call'[a].path = p
    BY <2>4 DEF WriteBegin, TypeOK
  <2> QED
    BY <2>1, <2>2, <2>3, <2>4
<1> QED
  BY <1>1, <1>2, <1>3, <1>4, AutoCall

\* A call stays on its path.
LEMMA AutoCallStep ==
  ASSUME TypeOK, AutoInv, NEW a \in Actors, CallStep(a)
  PROVE  AutoInv'
<1> DEFINE p == call[a].path
<1>5. call[a].pc # "idle"
  BY DEF CallStep, WriteFiles, WriteRow, DeleteFiles, DeleteRow, DiscardRow
<1>a. call[a] \in WriteCall \cup DeleteCall \cup DiscardCall
  BY <1>5 DEF TypeOK, IdleCall
<1>1. p \in Paths
  BY <1>a DEF WriteCall, DeleteCall, DiscardCall
<1>2. run' = run
  BY DEF CallStep, WriteFiles, WriteRow, DeleteFiles, DeleteRow, DiscardRow
<1>3. \A q \in Paths \ {p} : mem'[q] = mem[q]
  BY <1>1 DEF CallStep, WriteFiles, WriteRow, DeleteFiles, DeleteRow, DiscardRow,
              Record, RemoveByPath, ledger, TypeOK
<1>4. \A b \in Actors \ {a} : call'[b] = call[b]
  BY DEF CallStep, WriteFiles, WriteRow, DeleteFiles, DeleteRow, DiscardRow, TypeOK
<1>6. call'[a].pc = "idle" \/ call'[a].path = p
  <2>1. \/ call' = [call EXCEPT ![a] = IdleCall]
        \/ call' = [call EXCEPT ![a] = [call[a] EXCEPT !.pc = "row"]]
    BY DEF CallStep, WriteFiles, WriteRow, DeleteFiles, DeleteRow, DiscardRow, TypeOK
  <2>2. [call[a] EXCEPT !.pc = "row"].path = p
    BY <1>a DEF WriteCall, DeleteCall, DiscardCall
  <2>4. IdleCall.pc = "idle"
    BY DEF IdleCall
  <2>3. call'[a] = IdleCall \/ call'[a] = [call[a] EXCEPT !.pc = "row"]
    BY <2>1 DEF TypeOK
  <2> QED
    BY <2>2, <2>3, <2>4, Zenon
<1>7. run.pc # "idle" /\ run.kind = "auto" => p \notin run.paths
  BY <1>5 DEF AutoInv
<1> QED
  BY <1>1, <1>2, <1>3, <1>4, <1>6, <1>7, AutoCall

\* A run begins without a call on its paths, and an automatic one without deletes.
LEMMA AutoStart ==
  ASSUME TypeOK, AutoInv, "callsDuringRun" \notin Environment,
         \/ \E ps \in SUBSET Paths \ {{}} :
              \/ \E force \in SUBSET ps : StartReview(ps, force)
              \/ StartAuto(ps) \/ StartTool(ps)
         \/ \E s \in SnapIds : StartUnsynced(s)
  PROVE  AutoInv'
<1>1. ASSUME NEW ps \in SUBSET Paths, StartAuto(ps)
      PROVE  AutoInv'
  <2>1. /\ run' = NewRun("detect", "auto", ps, {}, 0) /\ call' = call /\ mem' = mem
        /\ MayRun(ps)
    BY <1>1 DEF StartAuto, Begin, NewRun
  <2>2. \A a \in Actors : call[a].pc # "idle" => call[a].path \notin ps
    BY <2>1 DEF MayRun, Calm, CalmOn
  <2>3. \A p \in ps : mem[p] # None => mem[p].type # "delete"
    BY <1>1 DEF StartAuto
  <2> QED
    BY <2>1, <2>2, <2>3 DEF NewRun, AutoInv
<1>2. ASSUME NEW ps \in SUBSET Paths, NEW force \in SUBSET ps, StartReview(ps, force)
      PROVE  run'.kind # "auto"
  BY <1>2 DEF StartReview, Begin, NewRun
<1>3. ASSUME NEW ps \in SUBSET Paths, StartTool(ps)
      PROVE  run'.kind # "auto"
  BY <1>3 DEF StartTool, Begin, NewRun
<1>4. ASSUME NEW s \in SnapIds, StartUnsynced(s)
      PROVE  run'.kind # "auto"
  BY <1>4 DEF StartUnsynced, Begin, NewRun
<1> QED
  BY <1>1, <1>2, <1>3, <1>4 DEF AutoInv

\* The steps of the run.
LEMMA AutoRunStep ==
  ASSUME TypeOK, AutoInv, run.pc # "idle", RunStep
  PROVE  AutoInv'
<1>1. run \in Run
  BY RunFields
<1>2. CASE Detect \/ Approve \/ Finish
  <2>1. call' = call /\ mem' = mem
    BY <1>2 DEF Detect, Approve, Finish
  <2>2. \/ run' = IdleRun
        \/ \E pc \in {"approve", "refresh", "sync"} : run' = [run EXCEPT !.pc = pc]
        \/ \E s \in SnapIds : run' = [run EXCEPT !.pc = "sync", !.snap = s]
    BY <1>2 DEF Detect, Approve, Finish
  <2> QED
    BY <1>1, <2>1, <2>2, AutoField
<1>3. CASE SyncThrows \/ SyncDone
  <2>1. call' = call /\ mem' = mem
    BY <1>3 DEF SyncThrows, SyncDone
  <2>2. \/ run' = IdleRun
        \/ \E pc \in {"refresh", "finish"} : run' = [run EXCEPT !.pc = pc]
        \/ run' = [run EXCEPT !.pc = "sync", !.forced = TRUE]
    BY <1>3 DEF SyncThrows, SyncDone
  <2> QED
    BY <1>1, <2>1, <2>2, AutoField
<1>4. CASE SyncBegin
  <2> DEFINE todo == {[path |-> p, op |-> mem[p]] : p \in PassPaths \cap Listed}
  <2>1. run' = [run EXCEPT !.pc = "next", !.todo = todo] /\ call' = call /\ mem' = mem
    BY <1>4 DEF SyncBegin
  <2>2. SUFFICES ASSUME run.kind = "auto" PROVE AutoInv'
    BY <1>1, <2>1 DEF AutoInv, Run
  <2>3. PassPaths \subseteq run.paths
    BY <2>2 DEF PassPaths, AutoInv
  <2>4. \A c \in todo : c.op.type # "delete"
    BY <2>2, <2>3 DEF AutoInv, Listed
  <2> HIDE DEF todo
  <2> QED
    BY <1>1, <2>1, <2>2, <2>4 DEF AutoInv, Run
<1>5. ASSUME NEW c \in run.todo, SyncRefuse(c) \/ SyncNoContent(c)
      PROVE  AutoInv'
  <2>1. call' = call /\ mem' = mem
    BY <1>5 DEF SyncRefuse, SyncNoContent
  <2>2. run' = Failed(c) \/ run' = [Failed(c) EXCEPT !.conflicts = @ \cup {c.path}]
    BY <1>5 DEF SyncRefuse, SyncNoContent
  <2> QED
    BY <2>1, <2>2, AutoFailed
<1>6. ASSUME NEW c \in run.todo, SyncRead(c)
      PROVE  AutoInv'
  <2> DEFINE cur == [item |-> c, text |-> IF c.op.type = "delete" THEN Absent ELSE files[c.path].text]
  <2>1. run' = [run EXCEPT !.pc = "put", !.cur = cur] /\ call' = call /\ mem' = mem
    BY <1>6 DEF SyncRead
  <2>2. run.kind = "auto" => cur.text # Absent
    BY <1>6 DEF SyncRead, AutoInv
  <2> HIDE DEF cur
  <2> QED
    BY <1>1, <1>6, <2>1, <2>2 DEF SyncRead, AutoInv, Run
<1>7. CASE SyncPut
  BY <1>1, <1>7, AutoOnward DEF SyncPut, Run
<1>8. CASE SyncPutFails
  <2>1. call' = call /\ mem' = mem
        /\ (run' = Failed(run.cur.item) \/ run' = [run EXCEPT !.pc = "mark"])
    BY <1>8 DEF SyncPutFails
  <2> QED
    BY <2>1, AutoFailed, AutoField
<1>9. CASE SyncMark
  <2>1. \A p \in Paths : mem'[p] = mem[p] \/ mem'[p] = None
    BY <1>9 DEF SyncMark, TypeOK
  <2>2. call' = call /\ run'.todo \subseteq run.todo /\ run'.pc = "next"
        /\ run'.paths = run.paths /\ run'.kind = run.kind /\ run'.force = run.force
    BY <1>1, <1>9 DEF SyncMark, Run
  <2> QED
    BY <2>1, <2>2, AutoOnward
<1>10. CASE FinalRefresh
  BY <1>10 DEF FinalRefresh, AutoInv, IdleRun
<1> QED
  BY <1>2, <1>3, <1>4, <1>5, <1>6, <1>7, <1>8, <1>9, <1>10 DEF RunStep

\* AutoInv is inductive when neither a call nor a refresh comes between.
LEMMA AutoNext ==
  ASSUME Environment \cap {"callsDuringRun", "refreshDuringRun"} = {},
         TypeOK, AutoInv, [Next]_vars
  PROVE  AutoInv'
<1>1. CASE Refresh
  BY <1>1 DEF Refresh, MayRefresh, AutoInv
<1>2. CASE DetectConflicts
  BY <1>2 DEF DetectConflicts, AutoInv
<1>3. CASE Crash
  BY <1>3 DEF Crash, AutoInv, IdleRun
<1>4. ASSUME NEW p \in Paths, NEW t \in Texts \cup {Absent}, ExternalEdit(p, t)
      PROVE  AutoInv'
  BY <1>4 DEF ExternalEdit, AutoInv
<1>5. CASE UNCHANGED vars
  BY <1>5 DEF vars, AutoInv
<1> QED
  BY <1>1, <1>2, <1>3, <1>4, <1>5, AutoBegins, AutoCallStep, AutoStart, AutoRunStep DEF Next

\* Under it the write of a sync removes no file.
LEMMA AutoPut ==
  ASSUME TypeOK, AutoInv, [Next]_vars,
         run.pc = "put", run'.pc = "mark", run.kind = "auto",
         NEW p \in Paths, disk'[p].text = Absent
  PROVE  disk[p].text = Absent
<1>1. run' # run /\ run'.pc # "idle" /\ run'.pc \notin {"next", "refresh"}
  OBVIOUS
<1>2. SyncPut \/ SyncPutFails
  <2>1. RunStep
    <3>1. ASSUME NEW a \in Actors
          PROVE  ~CallStep(a)
      BY <1>1 DEF CallStep, WriteFiles, WriteRow, DeleteFiles, DeleteRow, DiscardRow
    <3>2. ASSUME NEW a \in Actors, NEW q \in Paths, NEW t \in Texts
          PROVE  ~WriteNothing(a, q, t) /\ ~WriteBegin(a, q, t)
      BY <1>1 DEF WriteNothing, WriteBegin
    <3>3. ASSUME NEW a \in Actors, NEW q \in Paths
          PROVE  ~DeleteBegin(a, q) /\ ~DiscardFiles(a, q)
      BY <1>1 DEF DeleteBegin, DiscardFiles
    <3>4. ASSUME NEW r
          PROVE  ~Begin(r)
      BY DEF Begin, MayRun
    <3>5. ~Refresh /\ ~DetectConflicts /\ ~Crash
      BY <1>1 DEF Refresh, DetectConflicts, Crash, IdleRun
    <3>6. ASSUME NEW q \in Paths, NEW t \in Texts \cup {Absent}
          PROVE  ~ExternalEdit(q, t)
      BY <1>1 DEF ExternalEdit
    <3>7. run' # run
      BY <1>1
    <3> QED
      BY <3>1, <3>2, <3>3, <3>4, <3>5, <3>6, <3>7
         DEF Next, vars, StartReview, StartAuto, StartTool, StartUnsynced
  <2> QED
    BY <2>1 DEF RunStep, Detect, Approve, SyncBegin, SyncThrows, SyncRefuse, SyncNoContent, SyncRead,
                SyncMark, SyncDone, Finish, FinalRefresh
<1>3. run.cur.text # Absent
  BY DEF AutoInv
<1>4. CASE SyncPut
  BY <1>3, <1>4 DEF SyncPut, TypeOK
<1>5. CASE SyncPutFails
  BY <1>5 DEF SyncPutFails
<1> QED
  BY <1>2, <1>4, <1>5

\* The automatic run after the agent's removes no file of the user, whatever
\* fails, reloads or edits in between, as long as neither a call nor a refresh
\* changes the map under it on the paths it has chosen.
THEOREM AutoApplySafe ==
  ASSUME Environment \cap {"callsDuringRun", "refreshDuringRun"} = {}
  PROVE  Spec => AutoApplyNeverDeletes
<1>1. Init => AutoInv
  BY DEF Init, IdleRun, AutoInv
<1>2. TypeOK /\ AutoInv /\ [Next]_vars => AutoInv'
  BY AutoNext
<1>3. TypeOK /\ AutoInv /\ [Next]_vars =>
        [run.pc = "put" /\ run'.pc = "mark" /\ run.kind = "auto" =>
           \A p \in Paths : disk'[p].text = Absent => disk[p].text = Absent]_vars
  BY AutoPut
<1> QED
  BY <1>1, <1>2, <1>3, OverlayTypeOK, PTL DEF Spec, AutoApplyNeverDeletes

=============================================================================
