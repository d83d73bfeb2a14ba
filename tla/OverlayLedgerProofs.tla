------------------------ MODULE OverlayLedgerProofs -------------------------
(***************************************************************************)
(* Proofs that the pending map of WorkspaceOverlay and its ledger agree,   *)
(* that an approval is never left behind, and that a snapshot marked as    *)
(* synced is.                                                              *)
(***************************************************************************)
EXTENDS WorkspaceOverlayProofs

\* A path has one pending row at most.  The map holds that row, or no list shows it.
Held(p) ==
  /\ \A i, j \in Pending(p) : i = j
  /\ IF mem[p] = None THEN Visible(p) = {}
     ELSE mem[p].id \in Pending(p) /\ mem[p] = Entry(p, mem[p].id)

-----------------------------------------------------------------------------
(* What each operation does to the rows and the map entry of one path *)

Kept(p) == rows'[p] = rows[p] /\ mem'[p] = mem[p]
Recorded(p) == \E i \in Ids : /\ Pending(p)' = {i} /\ mem'[p] = Entry(p, i)'
                              /\ ~rows'[p][i].approved /\ rows'[p][i].snap = 0
Removed(p) == Pending(p)' = {} /\ mem'[p] = None

\* The row the map holds is the pending one.
LEMMA HeldRow ==
  ASSUME NEW p \in Paths, Held(p), mem[p] # None
  PROVE  /\ Pending(p) = {mem[p].id} /\ mem[p].id \in Ids
         /\ mem[p] = Entry(p, mem[p].id)
  BY DEF Held, Pending

\* Nothing else than the rows and the map entry of a path decides whether it is held.
LEMMA HeldKept ==
  ASSUME NEW p \in Paths, Held(p), Kept(p)
  PROVE  Held(p)' /\ Pending(p)' = Pending(p) /\ Visible(p)' = Visible(p)
<1>1. Pending(p)' = Pending(p)
  BY DEF Kept, Pending
<1>2. Visible(p)' = Visible(p)
  BY <1>1 DEF Kept, Visible
<1>3. \A i \in Ids : Entry(p, i)' = Entry(p, i)
  BY DEF Kept, Entry
<1> QED
  BY <1>1, <1>2, <1>3 DEF Kept, Held, Pending

\* The entry of a row is no None.
LEMMA EntryThere ==
  ASSUME rows' \in [Paths -> [Ids -> Row]], NEW p \in Paths, NEW i \in Ids
  PROVE  Entry(p, i)' \in Op /\ Entry(p, i)' # None /\ Entry(p, i)'.id = i
<1>1. rows'[p][i] \in Row
  OBVIOUS
<1>2. Entry(p, i)' \in Op
  BY <1>1 DEF Entry, Op, Row
<1> QED
  BY <1>2, NoneIsNoOp DEF Entry

\* A path with one pending row, which the map holds, is held,
LEMMA HeldOne ==
  ASSUME rows' \in [Paths -> [Ids -> Row]],
         NEW p \in Paths, NEW i \in Ids, Pending(p)' = {i}, mem'[p] = Entry(p, i)'
  PROVE  Held(p)' /\ mem'[p] # None /\ mem'[p].id = i
<1>1. mem'[p] # None /\ mem'[p].id = i
  BY EntryThere
<1> QED
  BY <1>1 DEF Held

\* and so is one with none.
LEMMA HeldNone ==
  ASSUME NEW p \in Paths, Removed(p)
  PROVE  Held(p)'
  BY DEF Removed, Held, Visible

\* PendingManager.add and its like: one row, up for review and of no snapshot.
LEMMA RecordEffect ==
  ASSUME LedgerOK, NEW p \in Paths, NEW type \in OpTypes, NEW mtime \in Nat, NEW force \in BOOLEAN,
         Held(p), Record(p, type, mtime, force)
  PROVE  /\ \A q \in Paths \ {p} : Kept(q)
         /\ \E i \in Ids : /\ Pending(p) = {i} \/ (Pending(p) = {} /\ rows[p][i].status = "free")
                           /\ rows'[p][i] = UpsertPendingOp(rows[p][i], type, mtime, force)
                           /\ Pending(p)' = {i} /\ mem'[p] = Entry(p, i)'
         /\ Recorded(p)
<1>1. PICK i \in Targets(p) :
         LET row == UpsertPendingOp(rows[p][i], type, mtime, force)
         IN  /\ rows' = [rows EXCEPT ![p][i] = row]
             /\ mem' = [mem EXCEPT ![p] = [id |-> i, type |-> row.type, mtime |-> row.mtime]]
  BY DEF Record
<1> DEFINE row == UpsertPendingOp(rows[p][i], type, mtime, force)
<1>2. i \in Ids /\ (Pending(p) = {i} \/ (Pending(p) = {} /\ rows[p][i].status = "free"))
  BY DEF Targets, Pending, Held
<1>3. row.status = "pending" /\ ~row.approved /\ row.snap = 0
  BY DEF UpsertPendingOp
<1> HIDE DEF row
<1>4. rows' = [rows EXCEPT ![p] = [rows[p] EXCEPT ![i] = row]]
      /\ mem' = [mem EXCEPT ![p] = [id |-> i, type |-> row.type, mtime |-> row.mtime]]
  BY <1>1, <1>2 DEF LedgerOK, row
<1>5. rows'[p] = [rows[p] EXCEPT ![i] = row] /\ rows'[p][i] = row
      /\ mem'[p] = [id |-> i, type |-> row.type, mtime |-> row.mtime]
  BY <1>2, <1>4 DEF LedgerOK
<1>6. Pending(p)' = {i}
  BY <1>2, <1>3, <1>5 DEF Pending, LedgerOK
<1>7. mem'[p] = Entry(p, i)'
  BY <1>5 DEF Entry
<1>8. \A q \in Paths \ {p} : Kept(q)
  BY <1>4 DEF LedgerOK, Kept
<1> QED
  BY <1>2, <1>3, <1>5, <1>6, <1>7, <1>8 DEF row, Recorded

\* removeByPath: the row is closed, if the map knows the path.
LEMMA RemoveEffect ==
  ASSUME LedgerOK, NEW p \in Paths, RemoveByPath(p)
  PROVE  /\ \A q \in Paths \ {p} : Kept(q)
         /\ IF mem[p] = None THEN Kept(p) ELSE Removed(p)
<1>1. CASE mem[p] = None
  BY <1>1 DEF RemoveByPath, ledger, Kept
<1>2. CASE mem[p] # None
  <2>1. rows'[p] = Discarded(rows[p]) /\ mem'[p] = None
    BY <1>2 DEF RemoveByPath, LedgerOK
  <2>2. \A i \in Ids : rows[p][i] \in Row
    BY DEF LedgerOK
  <2>3. \A i \in Ids : rows'[p][i].status # "pending"
    BY <2>1, <2>2 DEF Discarded, Row
  <2>4. Pending(p)' = {}
    BY <2>3 DEF Pending
  <2> QED
    BY <1>2, <2>1, <2>4 DEF RemoveByPath, LedgerOK, Kept, Removed
<1> QED
  BY <1>1, <1>2

\* keepOpPending of the row the map holds: it is up for review, as it was.
LEMMA KeepEffect ==
  ASSUME LedgerOK, NEW p \in Paths, Held(p), mem[p] # None, KeepOpPending(p, mem[p].id), mem' = mem
  PROVE  /\ \A q \in Paths \ {p} : Kept(q)
         /\ Pending(p)' = Pending(p) /\ Visible(p)' = Pending(p)
         /\ Held(p)'
         /\ \A i \in Ids : rows'[p][i].type = rows[p][i].type /\ rows'[p][i].snap = rows[p][i].snap
                           /\ rows'[p][i].mtime = rows[p][i].mtime
<1>1. PICK i \in Ids : i = mem[p].id /\ Pending(p) = {i} /\ mem[p] = Entry(p, i)
  BY HeldRow
<1>2. rows[p] \in [Ids -> Row] /\ rows[p][i] \in Row /\ rows[p][i].status = "pending"
  BY <1>1 DEF LedgerOK, Pending
<1> DEFINE row == [rows[p][i] EXCEPT !.status = "pending", !.approved = FALSE]
<1>3. rows' = [rows EXCEPT ![p] = [rows[p] EXCEPT ![i] = row]]
  BY <1>1, <1>2 DEF KeepOpPending, LedgerOK
<1>4. row \in Row /\ row.status = "pending" /\ ~row.approved /\ row.snap = rows[p][i].snap
      /\ row.type = rows[p][i].type /\ row.mtime = rows[p][i].mtime
  BY <1>2 DEF Row
<1> HIDE DEF row
<1>5. rows'[p] = [rows[p] EXCEPT ![i] = row]
  BY <1>3 DEF LedgerOK
<1>6. rows'[p][i] = row /\ \A j \in Ids \ {i} : rows'[p][j] = rows[p][j]
  BY <1>1, <1>2, <1>5
<1>7. Pending(p)' = {i} /\ Visible(p)' = {i}
  BY <1>1, <1>4, <1>6 DEF Pending, Visible
<1>8. mem'[p] = Entry(p, i)'
  BY <1>1, <1>4, <1>6 DEF Entry
<1>9. Held(p)'
  BY <1>1, <1>7, <1>8 DEF Held
<1> QED
  BY <1>1, <1>3, <1>4, <1>6, <1>7, <1>9 DEF Kept, LedgerOK

\* markOpSynced of the row the map holds: it is settled.
LEMMA SyncedEffect ==
  ASSUME LedgerOK, NEW p \in Paths, Held(p), mem[p] # None, MarkOpSynced(p, mem[p].id),
         mem' = [mem EXCEPT ![p] = None]
  PROVE  (\A q \in Paths \ {p} : Kept(q)) /\ Removed(p)
<1>1. PICK i \in Ids : i = mem[p].id /\ Pending(p) = {i}
  BY HeldRow
<1>2. rows[p] \in [Ids -> Row] /\ rows[p][i] \in Row
  BY <1>1 DEF LedgerOK
<1> DEFINE row == [rows[p][i] EXCEPT !.status = "synced", !.approved = TRUE]
<1>3. rows' = [rows EXCEPT ![p] = [rows[p] EXCEPT ![i] = row]]
  BY <1>1, <1>2 DEF MarkOpSynced, LedgerOK
<1>4. row.status = "synced"
  BY <1>2 DEF Row
<1> HIDE DEF row
<1>5. rows'[p] = [rows[p] EXCEPT ![i] = row]
  BY <1>3 DEF LedgerOK
<1>6. rows'[p][i] = row /\ \A j \in Ids \ {i} : rows'[p][j] = rows[p][j]
  BY <1>1, <1>2, <1>5
<1>7. Pending(p)' = {}
  BY <1>1, <1>4, <1>6 DEF Pending
<1> QED
  BY <1>3, <1>7 DEF Kept, Removed, LedgerOK

\* What a refresh makes of a path: nothing if no row of it is up for review; else a
\* created draft whose file is gone is dropped, an edited one becomes a delete, a
\* delete whose file is back a create, and the rest stays.
Refreshed(p) ==
  \/ rows'[p] = rows[p] /\ mem'[p] = None /\ Visible(p) = {}
  \/ Removed(p) /\ files[p].text = Absent /\ \E i \in Visible(p) : rows[p][i].type = "create"
  \/ \E i \in Ids :
       /\ Pending(p)' = {i} /\ mem'[p] = Entry(p, i)' /\ ~rows'[p][i].approved
       /\ rows'[p][i].snap = 0 \/ (i \in Visible(p) /\ rows'[p][i].snap = rows[p][i].snap)
       /\ \/ /\ i \in Visible(p) /\ rows'[p][i].mtime = rows[p][i].mtime
             /\ \/ rows'[p][i].type = rows[p][i].type
                \/ files[p].text = Absent /\ rows[p][i].type = "modify" /\ rows'[p][i].type = "delete"
          \/ /\ files[p].text # Absent /\ \E j \in Visible(p) : rows[p][j].type = "delete"
             /\ rows'[p][i].type = "create" /\ rows'[p][i].mtime = files[p].mtime

\* A row that is re-added keeps what it was based on.
LEMMA ReAdded ==
  ASSUME NEW row \in Row, row.status = "pending", NEW type \in OpTypes,
         NEW mtime \in {0, row.mtime}
  PROVE  LET new == UpsertPendingOp(row, type, mtime, FALSE)
         IN  /\ new.type = type /\ new.mtime = row.mtime
             /\ new.status = "pending" /\ ~new.approved /\ new.snap = 0
  BY DEF UpsertPendingOp, Row

LEMMA ReconciledEffect ==
  ASSUME LedgerOK, NEW p \in Paths, Held(p), NEW e,
         IF e = None THEN Visible(p) = {} ELSE \E i \in Visible(p) : e = Entry(p, i),
         \E i \in Ids : rows[p][i].status = "free",
         rows'[p] = Reconciled(p, e).rows, mem'[p] = Reconciled(p, e).mem
  PROVE  Refreshed(p)
<1> DEFINE rs == rows[p]
<1>0. rs \in [Ids -> Row]
  BY DEF LedgerOK
<1>1. CASE e = None
  <2>1. rows'[p] = rs /\ mem'[p] = e
    BY <1>1 DEF Reconciled
  <2> QED
    BY <1>1, <2>1 DEF Refreshed
<1>2. CASE e # None
  <2>1. PICK i \in Visible(p) : e = Entry(p, i)
    BY <1>2
  <2>2. /\ i \in Ids /\ rs[i] \in Row /\ rs[i].status = "pending" /\ ~rs[i].approved
        /\ Pending(p) = {i}
    BY <1>0, <2>1 DEF Visible, Pending, Held
  <2>3. e.id = i /\ e.type = rs[i].type /\ e.mtime = rs[i].mtime /\ e.type \in OpTypes
    BY <2>1, <2>2 DEF Entry, Row
  <2>4. ASSUME NEW row,
               rows'[p] = [rs EXCEPT ![i] = row], mem'[p] = [id |-> i, type |-> row.type, mtime |-> row.mtime],
               row.status = "pending", ~row.approved, row.snap = 0 \/ row.snap = rs[i].snap,
               row.mtime = rs[i].mtime,
               row.type = rs[i].type \/ (files[p].text = Absent /\ rs[i].type = "modify" /\ row.type = "delete")
        PROVE  Refreshed(p)
    <3>1. rows'[p][i] = row /\ \A j \in Ids \ {i} : rows'[p][j] = rs[j]
      BY <1>0, <2>2, <2>4
    <3>2. Pending(p)' = {i}
      BY <2>2, <2>4, <3>1 DEF Pending
    <3>3. mem'[p] = Entry(p, i)'
      BY <2>4, <3>1 DEF Entry
    <3> QED
      BY <2>2, <2>4, <3>1, <3>2, <3>3 DEF Refreshed, Visible
  <2>5. CASE rows'[p] = rs /\ mem'[p] = e
    <3>1. [rs EXCEPT ![i] = rs[i]] = rs
      BY <1>0, <2>2
    <3>2. e = [id |-> i, type |-> rs[i].type, mtime |-> rs[i].mtime]
      BY <2>1 DEF Entry
    <3> QED
      BY <2>2, <2>4, <2>5, <3>1, <3>2
  <2>6. CASE files[p].text # Absent /\ e.type # "delete" /\ e.mtime # files[p].mtime
    <3> DEFINE row == UpsertPendingOp(rs[i], rs[i].type, rs[i].mtime, FALSE)
    <3>1. rows'[p] = [rs EXCEPT ![i] = row] /\ mem'[p] = [id |-> i, type |-> row.type, mtime |-> row.mtime]
      BY <1>2, <2>3, <2>6 DEF Reconciled
    <3>2. row.type = rs[i].type /\ row.mtime = rs[i].mtime
          /\ row.status = "pending" /\ ~row.approved /\ row.snap = 0
      BY <2>2, ReAdded DEF Row
    <3> HIDE DEF row
    <3> QED
      BY <2>4, <3>1, <3>2
  <2>7. CASE files[p].text # Absent /\ e.type = "delete"
    <3> DEFINE k == CHOOSE j \in Ids : rs[j].status = "free"
               row == UpsertPendingOp(FreeRow, "create", files[p].mtime, FALSE)
    <3>1. rows'[p] = [Discarded(rs) EXCEPT ![k] = row]
          /\ mem'[p] = [id |-> k, type |-> row.type, mtime |-> row.mtime]
      BY <1>2, <2>3, <2>7 DEF Reconciled
    <3>2. row.type = "create" /\ row.mtime = files[p].mtime
          /\ row.status = "pending" /\ ~row.approved /\ row.snap = 0
      BY DEF UpsertPendingOp, FreeRow
    <3>3. k \in Ids
      OBVIOUS
    <3>4. Discarded(rs) \in [Ids -> Row] /\ \A j \in Ids : Discarded(rs)[j].status # "pending"
      BY <1>0, DiscardedRows DEF Discarded, Row
    <3> HIDE DEF k, row
    <3>5. PICK n \in Ids : n = k
      BY <3>3
    <3>6. rows'[p][n] = row /\ \A j \in Ids \ {n} : rows'[p][j] = Discarded(rs)[j]
      BY <3>1, <3>4, <3>5
    <3>7. Pending(p)' = {n}
      BY <3>2, <3>4, <3>6 DEF Pending
    <3>8. mem'[p] = Entry(p, n)'
      BY <3>1, <3>5, <3>6 DEF Entry
    <3> QED
      BY <2>1, <2>3, <2>7, <3>2, <3>6, <3>7, <3>8 DEF Refreshed
  <2>8. CASE files[p].text = Absent /\ e.type = "create"
    <3>1. rows'[p] = Discarded(rs) /\ mem'[p] = None
      BY <1>2, <2>8 DEF Reconciled
    <3>2. Pending(p)' = {}
      BY <1>0, <3>1 DEF Pending, Discarded, Row
    <3> QED
      BY <2>1, <2>3, <2>8, <3>1, <3>2 DEF Refreshed, Removed
  <2>9. CASE files[p].text = Absent /\ e.type = "modify"
    <3> DEFINE row == UpsertPendingOp(rs[i], "delete", 0, FALSE)
    <3>1. rows'[p] = [rs EXCEPT ![i] = row] /\ mem'[p] = [id |-> i, type |-> row.type, mtime |-> row.mtime]
      BY <1>2, <2>3, <2>9 DEF Reconciled
    <3>2. row.type = "delete" /\ row.mtime = rs[i].mtime
          /\ row.status = "pending" /\ ~row.approved /\ row.snap = 0
      BY <2>2, ReAdded DEF OpTypes
    <3> HIDE DEF row
    <3> QED
      BY <2>3, <2>4, <2>9, <3>1, <3>2
  <2>10. CASE \/ files[p].text = Absent /\ e.type = "delete"
              \/ files[p].text # Absent /\ e.type # "delete" /\ e.mtime = files[p].mtime
    <3>1. rows'[p] = rs /\ mem'[p] = e
      BY <2>10 DEF Reconciled
    <3> QED
      BY <2>5, <3>1
  <2> QED
    BY <2>3, <2>6, <2>7, <2>8, <2>9, <2>10 DEF OpTypes
<1> QED
  BY <1>1, <1>2

LedgerInv == \A p \in Paths : Held(p)

\* What a reload takes for the entry of a path.
LEMMA LoadedEntry ==
  ASSUME LedgerOK, NEW m \in Reloaded, NEW p \in Paths
  PROVE  IF m[p] = None THEN Visible(p) = {} ELSE \E i \in Visible(p) : m[p] = Entry(p, i)
<1>1. IF Visible(p) = {} THEN m[p] = None ELSE \E i \in Visible(p) : m[p] = Entry(p, i)
  BY DEF Reloaded
<1>2. \A i \in Visible(p) : Entry(p, i) # None
  BY EntryIsOp, NoneIsNoOp DEF Visible, Pending
<1> QED
  BY <1>1, <1>2

\* A refresh, path by path.
LEMMA RefreshEffect ==
  ASSUME TypeOK, LedgerInv, RefreshAll
  PROVE  /\ \A p \in Paths : Refreshed(p) /\ Held(p)'
         /\ baseline' = Cleaned(mem')
<1>1. LedgerOK
  BY DEF TypeOK, LedgerOK
<1>2. PICK loaded \in Reloaded :
        LET result == [p \in Paths |-> Reconciled(p, loaded[p])]
            kept == [p \in Paths |-> result[p].mem]
        IN  /\ rows' = [p \in Paths |-> result[p].rows]
            /\ mem' = kept
            /\ baseline' = Cleaned(kept)
  BY DEF RefreshAll
<1>3. ASSUME NEW p \in Paths
      PROVE  Refreshed(p)
  <2>1. IF loaded[p] = None THEN Visible(p) = {} ELSE \E i \in Visible(p) : loaded[p] = Entry(p, i)
    BY <1>1, LoadedEntry
  <2>2. Held(p) /\ \E i \in Ids : rows[p][i].status = "free"
    BY DEF LedgerInv, RefreshAll
  <2>3. rows'[p] = Reconciled(p, loaded[p]).rows /\ mem'[p] = Reconciled(p, loaded[p]).mem
    BY <1>2
  <2> QED
    BY <1>1, <2>1, <2>2, <2>3, ReconciledEffect
<1>4. rows' \in [Paths -> [Ids -> Row]]
  BY RefreshOK DEF LedgerOK
<1>5. ASSUME NEW p \in Paths
      PROVE  Held(p)'
  <2>1. Refreshed(p) /\ Held(p)
    BY <1>3 DEF LedgerInv
  <2>2. CASE rows'[p] = rows[p] /\ mem'[p] = None /\ Visible(p) = {}
    <3>1. Pending(p)' = Pending(p) /\ Visible(p)' = {}
      BY <2>2 DEF Pending, Visible
    <3> QED
      BY <2>1, <2>2, <3>1 DEF Held
  <2>3. CASE Removed(p)
    BY <2>3, HeldNone
  <2>4. CASE \E i \in Ids : Pending(p)' = {i} /\ mem'[p] = Entry(p, i)'
    BY <1>4, <2>4, HeldOne
  <2> QED
    BY <2>1, <2>2, <2>3, <2>4 DEF Refreshed
<1> QED
  BY <1>2, <1>3, <1>5

\* A reload of the page, path by path.
LEMMA CrashEffect ==
  ASSUME TypeOK, LedgerInv, Crash
  PROVE  \A p \in Paths : /\ rows'[p] = rows[p]
                          /\ IF mem'[p] = None THEN Visible(p) = {} ELSE mem'[p].id \in Visible(p)
                          /\ Held(p)'
<1>1. LedgerOK /\ mem' \in Reloaded /\ rows' = rows
  BY DEF TypeOK, LedgerOK, Crash
<1> SUFFICES ASSUME NEW p \in Paths
             PROVE  /\ IF mem'[p] = None THEN Visible(p) = {} ELSE mem'[p].id \in Visible(p)
                    /\ Held(p)'
  BY <1>1
<1>2. IF mem'[p] = None THEN Visible(p) = {} ELSE \E i \in Visible(p) : mem'[p] = Entry(p, i)
  BY <1>1, LoadedEntry
<1>3. Pending(p)' = Pending(p) /\ Visible(p)' = Visible(p) /\ \A i \in Ids : Entry(p, i)' = Entry(p, i)
  BY <1>1 DEF Pending, Visible, Entry
<1>4. Held(p)
  BY DEF LedgerInv
<1>5. \A i \in Visible(p) : Entry(p, i).id = i /\ i \in Pending(p) /\ i \in Ids
  BY DEF Entry, Visible, Pending
<1> QED
  BY <1>2, <1>3, <1>4, <1>5 DEF Held

\* The approval of the pending rows of some paths.
LEMMA ApproveEffect ==
  ASSUME TypeOK, LedgerInv, NEW s \in SnapIds, NEW taken \in SUBSET Paths, mem' = mem,
         rows' = [p \in Paths |-> [i \in Ids |->
                   IF p \in taken /\ i \in Pending(p)
                     THEN [rows[p][i] EXCEPT !.approved = TRUE, !.snap = s] ELSE rows[p][i]]]
  PROVE  \A p \in Paths : /\ Held(p)' /\ Pending(p)' = Pending(p)
                          /\ \A i \in Ids : /\ rows'[p][i].type = rows[p][i].type
                                            /\ rows'[p][i].mtime = rows[p][i].mtime
                          /\ IF p \in taken THEN \A i \in Pending(p) : rows'[p][i].approved /\ rows'[p][i].snap = s
                             ELSE Kept(p)
<1> SUFFICES ASSUME NEW p \in Paths
             PROVE  /\ Held(p)' /\ Pending(p)' = Pending(p)
                    /\ \A i \in Ids : /\ rows'[p][i].type = rows[p][i].type
                                      /\ rows'[p][i].mtime = rows[p][i].mtime
                    /\ IF p \in taken THEN \A i \in Pending(p) : rows'[p][i].approved /\ rows'[p][i].snap = s
                       ELSE Kept(p)
  OBVIOUS
<1>1. rows[p] \in [Ids -> Row] /\ Held(p)
  BY DEF TypeOK, LedgerInv
<1>2. \A r \in Row : LET q == [r EXCEPT !.approved = TRUE, !.snap = s]
                     IN q.type = r.type /\ q.mtime = r.mtime /\ q.status = r.status /\ q.approved /\ q.snap = s
  BY DEF Row
<1>3. \A i \in Ids : rows'[p][i] = IF p \in taken /\ i \in Pending(p)
                                     THEN [rows[p][i] EXCEPT !.approved = TRUE, !.snap = s] ELSE rows[p][i]
  OBVIOUS
<1>4. \A i \in Ids : /\ rows'[p][i].type = rows[p][i].type /\ rows'[p][i].mtime = rows[p][i].mtime
                     /\ rows'[p][i].status = rows[p][i].status
                     /\ p \in taken /\ i \in Pending(p) => rows'[p][i].approved /\ rows'[p][i].snap = s
  <2> SUFFICES ASSUME NEW i \in Ids
               PROVE  /\ rows'[p][i].type = rows[p][i].type /\ rows'[p][i].mtime = rows[p][i].mtime
                      /\ rows'[p][i].status = rows[p][i].status
                      /\ p \in taken /\ i \in Pending(p) => rows'[p][i].approved /\ rows'[p][i].snap = s
    OBVIOUS
  <2>1. rows[p][i] \in Row
    BY <1>1
  <2> QED
    BY <1>2, <1>3, <2>1
<1>5. Pending(p)' = Pending(p)
  BY <1>4 DEF Pending
<1>6. \A i \in Ids : Entry(p, i)' = Entry(p, i)
  BY <1>4 DEF Entry
<1>7. p \notin taken => rows'[p] = rows[p]
  <2> SUFFICES ASSUME p \notin taken PROVE rows'[p] = rows[p]
    OBVIOUS
  <2>1. rows'[p] = [i \in Ids |-> rows[p][i]]
    OBVIOUS
  <2> QED
    BY <1>1, <2>1
<1>8. mem[p] # None => mem[p].id \in Ids
  BY <1>1, HeldRow
<1>9. Visible(p)' \subseteq Visible(p)
  <2>1. \A i \in Visible(p)' : i \in Pending(p) /\ ~rows'[p][i].approved
    BY <1>5 DEF Visible
  <2>2. \A i \in Visible(p)' : i \in Ids /\ ~(p \in taken)
    BY <1>4, <2>1 DEF Pending
  <2> QED
    BY <1>7, <2>1, <2>2 DEF Visible
<1>10. Held(p)'
  BY <1>1, <1>5, <1>6, <1>8, <1>9 DEF Held
<1> QED
  BY <1>4, <1>5, <1>7, <1>10 DEF Kept, Pending

-----------------------------------------------------------------------------
(* The kinds of steps *)

\* A step of a call on a path,
CallAt(a, p) ==
  \/ CallStep(a) /\ call[a].path = p
  \/ DeleteBegin(a, p) \/ DiscardFiles(a, p)
  \/ \E t \in Texts : WriteNothing(a, p, t) \/ WriteBegin(a, p, t)

\* and the start of a run.
Starts(r) ==
  /\ Begin(r) /\ r \in Run
  /\ r.pc \in {"detect", "approve", "sync"}
  /\ r.todo = {} /\ r.done = {} /\ r.force \subseteq r.paths
  /\ r.forced => r.paths = r.force
  /\ r.kind \in {"review", "auto"} => r.pc \in {"detect", "approve"}
  /\ r.pc \in {"detect", "approve"} => r.snap = 0

\* Every run begins so.
LEMMA StartsAll ==
  ASSUME TypeOK,
         \/ \E ps \in SUBSET Paths \ {{}} :
              \/ \E force \in SUBSET ps : StartReview(ps, force)
              \/ StartAuto(ps) \/ StartTool(ps)
         \/ \E s \in SnapIds : StartUnsynced(s)
  PROVE  \E r : Starts(r)
<1>1. ASSUME NEW ps \in SUBSET Paths, NEW force \in SUBSET ps, StartReview(ps, force)
      PROVE  Starts(NewRun("approve", "review", ps, force, 0))
  <2>1. NewRun("approve", "review", ps, force, 0) \in Run
    BY NewRunIsRun, OverlayAssumption DEF RunKinds
  <2> QED
    BY <1>1, <2>1 DEF StartReview, Starts, NewRun
<1>2. ASSUME NEW ps \in SUBSET Paths, StartAuto(ps)
      PROVE  Starts(NewRun("detect", "auto", ps, {}, 0))
  <2>1. NewRun("detect", "auto", ps, {}, 0) \in Run
    BY NewRunIsRun, OverlayAssumption DEF RunKinds
  <2> QED
    BY <1>2, <2>1 DEF StartAuto, Starts, NewRun
<1>3. ASSUME NEW ps \in SUBSET Paths, StartTool(ps)
      PROVE  Starts(NewRun("approve", "tool", ps, {}, 0))
  <2>1. NewRun("approve", "tool", ps, {}, 0) \in Run
    BY NewRunIsRun, OverlayAssumption DEF RunKinds
  <2> QED
    BY <1>3, <2>1 DEF StartTool, Starts, NewRun
<1>4. ASSUME NEW s \in SnapIds, StartUnsynced(s)
      PROVE  \E r : Starts(r)
  <2>1. PICK ps \in SUBSET Paths : Begin(NewRun("sync", "unsynced", ps, {}, s))
    <3> DEFINE ps == {p \in Paths : \E i \in Ids : rows[p][i].status # "free" /\ rows[p][i].snap = s}
    <3>1. Begin(NewRun("sync", "unsynced", ps, {}, s)) /\ ps \in SUBSET Paths
      BY <1>4 DEF StartUnsynced
    <3> HIDE DEF ps
    <3> QED
      BY <3>1
  <2>2. NewRun("sync", "unsynced", ps, {}, s) \in Run
    BY NewRunIsRun, OverlayAssumption DEF RunKinds, SnapIds
  <2>3. Starts(NewRun("sync", "unsynced", ps, {}, s))
    BY <2>1, <2>2 DEF Starts, NewRun
  <2> QED
    BY <2>3
<1> QED
  BY <1>1, <1>2, <1>3, <1>4

\* A call stays on its path.
LEMMA CallPath ==
  ASSUME TypeOK, NEW a \in Actors, CallStep(a)
  PROVE  call[a].path \in Paths /\ call[a].pc # "idle"
         /\ call[a] \in WriteCall \cup DeleteCall \cup DiscardCall
<1>1. call[a].pc # "idle"
  BY DEF CallStep, WriteFiles, WriteRow, DeleteFiles, DeleteRow, DiscardRow
<1>2. call[a] \in WriteCall \cup DeleteCall \cup DiscardCall
  BY <1>1 DEF TypeOK, IdleCall
<1> QED
  BY <1>1, <1>2 DEF WriteCall, DeleteCall, DiscardCall

\* There are no other steps.
LEMMA NextCases ==
  ASSUME TypeOK, [Next]_vars
  PROVE  \/ \E a \in Actors, p \in Paths : CallAt(a, p)
         \/ \E r : Starts(r)
         \/ Refresh \/ DetectConflicts
         \/ run.pc # "idle" /\ RunStep
         \/ \E p \in Paths, t \in Texts \cup {Absent} : ExternalEdit(p, t)
         \/ Crash
         \/ UNCHANGED vars
<1>1. ASSUME NEW a \in Actors, CallStep(a)
      PROVE  \E p \in Paths : CallAt(a, p)
  BY <1>1, CallPath DEF CallAt
<1> QED
  BY <1>1, StartsAll DEF Next, CallAt

\* A call touches its path alone.
LEMMA CallFrame ==
  ASSUME TypeOK, NEW a \in Actors, NEW p \in Paths, CallAt(a, p)
  PROVE  /\ \A q \in Paths \ {p} : /\ Kept(q) /\ files'[q] = files[q] /\ baseline'[q] = baseline[q]
                                   /\ draft'[q] = draft[q] /\ origin'[q] = origin[q]
         /\ \A b \in Actors \ {a} : call'[b] = call[b]
         /\ call[a].pc = "idle" \/ call[a].path = p
         /\ call'[a].pc = "idle" \/ call'[a].path = p
         /\ UNCHANGED <<disk, history, snaps, run>>
         /\ clock' \in {clock, clock + 1}
<1>1. CASE CallStep(a) /\ call[a].path = p
  <2>1. call[a].pc # "idle" /\ call[a] \in WriteCall \cup DeleteCall \cup DiscardCall
    BY <1>1, CallPath
  <2>a. ASSUME NEW type, NEW mtime, NEW force, Record(p, type, mtime, force)
        PROVE  \A q \in Paths \ {p} : Kept(q)
    BY <2>a DEF Record, TypeOK, Kept
  <2>b. RemoveByPath(p) => \A q \in Paths \ {p} : Kept(q)
    BY RemoveEffect DEF TypeOK, LedgerOK
  <2>2. \A q \in Paths \ {p} : Kept(q)
    <3>1. CASE WriteRow(a)
      BY <1>1, <2>a, <3>1 DEF WriteRow
    <3>2. CASE DeleteRow(a)
      BY <1>1, <2>a, <2>b, <3>2 DEF DeleteRow
    <3>3. CASE DiscardRow(a)
      BY <1>1, <2>b, <3>3 DEF DiscardRow
    <3>4. CASE WriteFiles(a) \/ DeleteFiles(a)
      BY <3>4 DEF WriteFiles, DeleteFiles, Kept
    <3> QED
      BY <1>1, <3>1, <3>2, <3>3, <3>4 DEF CallStep
  <2>3. \A q \in Paths \ {p} : /\ files'[q] = files[q] /\ baseline'[q] = baseline[q]
                               /\ draft'[q] = draft[q] /\ origin'[q] = origin[q]
    BY <1>1 DEF CallStep, WriteFiles, WriteRow, DeleteFiles, DeleteRow, DiscardRow, TypeOK
  <2>4. \/ call' = [call EXCEPT ![a] = IdleCall]
        \/ call' = [call EXCEPT ![a] = [call[a] EXCEPT !.pc = "row"]]
    BY <1>1 DEF CallStep, WriteFiles, WriteRow, DeleteFiles, DeleteRow, DiscardRow, TypeOK
  <2>5. [call[a] EXCEPT !.pc = "row"].path = p
    BY <1>1, <2>1 DEF WriteCall, DeleteCall, DiscardCall
  <2>6. IdleCall.pc = "idle"
    BY DEF IdleCall
  <2>7. call'[a] = IdleCall \/ call'[a] = [call[a] EXCEPT !.pc = "row"]
    BY <2>4 DEF TypeOK
  <2>8. call'[a].pc = "idle" \/ call'[a].path = p
    BY <2>5, <2>6, <2>7, Zenon
  <2>9. UNCHANGED <<disk, history, snaps, run>> /\ clock' \in {clock, clock + 1}
    BY <1>1 DEF CallStep, WriteFiles, WriteRow, DeleteFiles, DeleteRow, DiscardRow
  <2>10. \A b \in Actors \ {a} : call'[b] = call[b]
    BY <2>4 DEF TypeOK
  <2> QED
    BY <1>1, <2>2, <2>3, <2>8, <2>9, <2>10
<1>2. CASE DeleteBegin(a, p) \/ DiscardFiles(a, p)
  <2>1. \E c : c.path = p /\ call' = [call EXCEPT ![a] = c]
    BY <1>2 DEF DeleteBegin, DiscardFiles
  <2>2. call'[a].path = p /\ \A b \in Actors \ {a} : call'[b] = call[b]
    BY <2>1 DEF TypeOK
  <2>3. \A q \in Paths \ {p} : /\ files'[q] = files[q] /\ baseline'[q] = baseline[q]
                               /\ draft'[q] = draft[q] /\ origin'[q] = origin[q]
    BY <1>2 DEF DeleteBegin, DiscardFiles, TypeOK
  <2> QED
    BY <1>2, <2>2, <2>3 DEF DeleteBegin, DiscardFiles, Kept
<1>3. ASSUME NEW t \in Texts, WriteBegin(a, p, t)
      PROVE  /\ \A q \in Paths \ {p} : /\ Kept(q) /\ files'[q] = files[q] /\ baseline'[q] = baseline[q]
                                       /\ draft'[q] = draft[q] /\ origin'[q] = origin[q]
             /\ \A b \in Actors \ {a} : call'[b] = call[b]
             /\ call[a].pc = "idle" /\ call'[a].path = p
             /\ UNCHANGED <<disk, history, snaps, run>> /\ clock' = clock
  <2>1. \E n, m, f : call' = [call EXCEPT ![a] = [pc |-> "files", op |-> "write", path |-> p, text |-> t,
                                                  new |-> n, mtime |-> m, force |-> f]]
    BY <1>3 DEF WriteBegin
  <2>2. call'[a].path = p /\ \A b \in Actors \ {a} : call'[b] = call[b]
    BY <2>1 DEF TypeOK
  <2>3. \A q \in Paths \ {p} : /\ files'[q] = files[q] /\ baseline'[q] = baseline[q]
                               /\ draft'[q] = draft[q] /\ origin'[q] = origin[q]
    BY <1>3 DEF WriteBegin, TypeOK
  <2> QED
    BY <1>3, <2>2, <2>3 DEF WriteBegin, Kept
<1>4. ASSUME NEW t \in Texts, WriteNothing(a, p, t)
      PROVE  /\ \A q \in Paths \ {p} : /\ Kept(q) /\ files'[q] = files[q] /\ baseline'[q] = baseline[q]
                                       /\ draft'[q] = draft[q] /\ origin'[q] = origin[q]
             /\ call' = call /\ call[a].pc = "idle"
             /\ UNCHANGED <<disk, history, snaps, run>> /\ clock' \in {clock, clock + 1}
  <2>1. \A q \in Paths \ {p} : Kept(q)
    BY <1>4 DEF WriteNothing, RemoveByPath, ledger, TypeOK, Kept
  <2>2. \A q \in Paths \ {p} : /\ files'[q] = files[q] /\ baseline'[q] = baseline[q]
                               /\ draft'[q] = draft[q] /\ origin'[q] = origin[q]
    BY <1>4 DEF WriteNothing, TypeOK
  <2> QED
    BY <1>4, <2>1, <2>2 DEF WriteNothing
<1> QED
  BY <1>1, <1>2, <1>3, <1>4 DEF CallAt

\* What a call does to the ledger: nothing, a row up for review, or none any more.
LEMMA CallLedger ==
  ASSUME TypeOK, NEW a \in Actors, NEW p \in Paths, CallAt(a, p), Held(p)
  PROVE  (Kept(p) \/ Recorded(p) \/ Removed(p)) /\ Held(p)'
<1>1. LedgerOK
  BY DEF TypeOK, LedgerOK
<1>2. CASE Kept(p)
  BY <1>2, HeldKept
<1>3. CASE RemoveByPath(p)
  BY <1>1, <1>3, RemoveEffect, HeldKept, HeldNone
<1>4. ASSUME NEW type \in OpTypes, NEW mtime \in Nat, NEW force \in BOOLEAN, Record(p, type, mtime, force)
      PROVE  Recorded(p) /\ Held(p)'
  <2>1. Recorded(p) /\ LedgerOK'
    BY <1>1, <1>4, RecordEffect, RecordOK
  <2> QED
    BY <2>1, HeldOne DEF Recorded, LedgerOK
<1>5. CASE WriteRow(a) /\ call[a].path = p
  <2>1. call[a] \in WriteCall
    BY <1>5 DEF WriteRow, TypeOK, IdleCall, DeleteCall, DiscardCall
  <2>2. (IF call[a].new THEN "create" ELSE TypeOfEdit(p)) \in OpTypes
        /\ call[a].mtime \in Nat /\ call[a].force \in BOOLEAN
    BY <2>1 DEF OpTypes, TypeOfEdit, WriteCall
  <2> QED
    BY <1>4, <1>5, <2>2 DEF WriteRow
<1>6. CASE DeleteRow(a) /\ call[a].path = p
  <2>1. call[a] \in DeleteCall
    BY <1>6 DEF DeleteRow, TypeOK, IdleCall, WriteCall, DiscardCall
  <2>2. "delete" \in OpTypes /\ call[a].mtime \in Nat
    BY <2>1 DEF OpTypes, DeleteCall
  <2> QED
    BY <1>3, <1>4, <1>6, <2>2 DEF DeleteRow
<1>7. CASE DiscardRow(a) /\ call[a].path = p
  BY <1>3, <1>7 DEF DiscardRow
<1>8. CASE WriteFiles(a) \/ DeleteFiles(a) \/ DeleteBegin(a, p) \/ DiscardFiles(a, p)
  BY <1>2, <1>8 DEF WriteFiles, DeleteFiles, DeleteBegin, DiscardFiles, Kept
<1>9. ASSUME NEW t \in Texts, WriteBegin(a, p, t)
      PROVE  Kept(p)
  BY <1>9 DEF WriteBegin, Kept
<1>10. ASSUME NEW t \in Texts, WriteNothing(a, p, t)
      PROVE  RemoveByPath(p)
  BY <1>10 DEF WriteNothing
<1> QED
  BY <1>2, <1>3, <1>5, <1>6, <1>7, <1>8, <1>9, <1>10 DEF CallAt, CallStep

-----------------------------------------------------------------------------
(* The batch of a run *)

\* While a run is under way no call is on its paths, and each item still to come is
\* the map's entry of one of them.
RunInv ==
  run.pc # "idle" =>
    /\ \A a \in Actors : call[a].pc # "idle" => call[a].path \notin run.paths
    /\ run.kind \in Kinds /\ run.force \subseteq run.paths
    /\ run.pc \in {"detect", "approve"} /\ run.forced => run.paths = run.force
    /\ \A c \in run.todo : c.path \in run.paths /\ mem[c.path] = c.op
    /\ run.pc \in {"put", "mark"} => run.cur.item \in run.todo

\* A call is not on a path of the run under way.
LEMMA CallAway ==
  ASSUME "callsDuringRun" \notin Environment, TypeOK, RunInv,
         NEW a \in Actors, NEW p \in Paths, CallAt(a, p), run.pc # "idle"
  PROVE  p \notin run.paths
<1>1. CASE CallStep(a) /\ call[a].path = p
  BY <1>1, CallPath DEF RunInv
<1>2. CASE DeleteBegin(a, p) \/ DiscardFiles(a, p)
  BY <1>2 DEF DeleteBegin, DiscardFiles, MayCall
<1>3. ASSUME NEW t \in Texts, WriteNothing(a, p, t) \/ WriteBegin(a, p, t)
      PROVE  p \notin run.paths
  BY <1>3 DEF WriteNothing, WriteBegin, MayCall
<1> QED
  BY <1>1, <1>2, <1>3 DEF CallAt

\* Two items of a batch are of two paths.
LEMMA ItemOfPath ==
  ASSUME TypeOK, RunInv, run.pc # "idle", NEW c \in run.todo, NEW d \in run.todo, c.path = d.path
  PROVE  c = d
<1>1. c \in Item /\ d \in Item
  BY RunFields
<1>2. c.op = d.op
  BY DEF RunInv
<1> QED
  BY <1>1, <1>2 DEF Item

\* A run moves on with what it has.
LEMMA RunOnward ==
  ASSUME RunInv, run.pc # "idle", call' = call,
         run'.paths = run.paths, run'.kind = run.kind, run'.force = run.force,
         run'.pc \in {"detect", "approve"} => run.pc = "detect" /\ run'.forced = run.forced,
         run'.todo \subseteq run.todo, \A c \in run'.todo : mem'[c.path] = mem[c.path],
         run'.pc \in {"put", "mark"} => run'.cur.item \in run'.todo
  PROVE  RunInv'
  BY DEF RunInv

\* What each step of a run does to the run.
LEMMA RunStepRun ==
  ASSUME TypeOK, run.pc # "idle", RunStep
  PROVE  /\ call' = call /\ origin' = origin
         /\ \/ run' = IdleRun
            \/ /\ run'.pc # "idle" /\ run'.paths = run.paths /\ run'.kind = run.kind /\ run'.force = run.force
               /\ run'.pc \in {"detect", "approve"} => run.pc = "detect" /\ run'.forced = run.forced
<1>1. run \in Run
  BY RunFields
<1>2. CASE Detect \/ Approve \/ SyncBegin \/ SyncThrows \/ SyncPut \/ SyncDone \/ Finish \/ FinalRefresh
  <2>1. call' = call /\ origin' = origin
    BY <1>2 DEF Detect, Approve, SyncBegin, SyncThrows, SyncPut, SyncDone, Finish, FinalRefresh
  <2>2. \/ run' = IdleRun
        \/ run.pc = "detect" /\ run' = [run EXCEPT !.pc = "approve"]
        \/ \E pc \in {"refresh", "sync", "mark", "finish"} : run' = [run EXCEPT !.pc = pc]
        \/ \E s \in SnapIds : run' = [run EXCEPT !.pc = "sync", !.snap = s]
        \/ \E todo : run' = [run EXCEPT !.pc = "next", !.todo = todo]
        \/ run' = [run EXCEPT !.pc = "sync", !.forced = TRUE]
    BY <1>2 DEF Detect, Approve, SyncBegin, SyncThrows, SyncPut, SyncDone, Finish, FinalRefresh
  <2> QED
    BY <1>1, <2>1, <2>2 DEF Run
<1>3. CASE (\E c \in run.todo : SyncRefuse(c) \/ SyncNoContent(c)) \/ SyncPutFails
  <2>1. call' = call /\ origin' = origin
    BY <1>3 DEF SyncRefuse, SyncNoContent, SyncPutFails
  <2>2. \/ run' = [run EXCEPT !.pc = "mark"]
        \/ \E c : run' = Failed(c) \/ run' = [Failed(c) EXCEPT !.conflicts = @ \cup {c.path}]
    BY <1>3 DEF SyncRefuse, SyncNoContent, SyncPutFails
  <2> QED
    BY <1>1, <2>1, <2>2 DEF Run, Failed
<1>4. ASSUME NEW c \in run.todo, SyncRead(c)
      PROVE  /\ call' = call /\ origin' = origin
             /\ \E cur : run' = [run EXCEPT !.pc = "put", !.cur = cur]
  BY <1>4 DEF SyncRead
<1>5. CASE SyncMark
  <2>1. /\ call' = call /\ origin' = origin
        /\ \E todo, done : run' = [run EXCEPT !.pc = "next", !.todo = todo, !.done = done, !.cur = None]
    BY <1>5 DEF SyncMark
  <2> QED
    BY <1>1, <2>1 DEF Run
<1> QED
  BY <1>1, <1>2, <1>3, <1>4, <1>5 DEF RunStep, Run

\* The steps of a run keep its batch in order.
LEMMA RunStepOK ==
  ASSUME TypeOK, RunInv, run.pc # "idle", RunStep
  PROVE  RunInv'
<1>1. run \in Run /\ run.todo \subseteq Item
  BY RunFields
<1>2. CASE run' = IdleRun
  BY <1>2 DEF IdleRun, RunInv
<1>3. CASE run' # IdleRun
  <2>1. /\ call' = call
        /\ run'.pc # "idle" /\ run'.paths = run.paths /\ run'.kind = run.kind /\ run'.force = run.force
        /\ run'.pc \in {"detect", "approve"} => run.pc = "detect" /\ run'.forced = run.forced
    BY <1>3, RunStepRun
  <2>a. ~FinalRefresh
    BY <1>3 DEF FinalRefresh
  <2>2. CASE Detect \/ Approve \/ SyncThrows \/ SyncDone \/ Finish
    <3>a. /\ mem' = mem
          /\ \/ \E pc \in {"approve", "refresh", "sync", "finish"} : run' = [run EXCEPT !.pc = pc]
             \/ \E s \in SnapIds : run' = [run EXCEPT !.pc = "sync", !.snap = s]
             \/ run' = [run EXCEPT !.pc = "sync", !.forced = TRUE]
      <4>1. CASE Detect
        BY <4>1 DEF Detect
      <4>2. CASE Approve
        BY <4>2 DEF Approve
      <4>3. CASE SyncThrows \/ SyncDone \/ Finish
        BY <1>3, <4>3 DEF SyncThrows, SyncDone, Finish
      <4> QED
        BY <2>2, <4>1, <4>2, <4>3
    <3>1. mem' = mem /\ run'.todo = run.todo /\ run'.pc \notin {"put", "mark"}
      BY <1>1, <3>a DEF Run
    <3> QED
      BY <2>1, <3>1, RunOnward
  <2>3. CASE SyncBegin
    <3> DEFINE todo == {[path |-> p, op |-> mem[p]] : p \in PassPaths \cap Listed}
    <3>1. mem' = mem /\ run'.todo = todo /\ run'.pc = "next"
      BY <1>1, <2>3 DEF SyncBegin, Run
    <3>2. PassPaths \subseteq run.paths
      BY <1>1 DEF PassPaths, RunInv
    <3>3. \A c \in todo : c.path \in run.paths /\ mem[c.path] = c.op
      BY <3>2
    <3> HIDE DEF todo
    <3> QED
      BY <2>1, <3>1, <3>3 DEF RunInv
  <2>4. CASE SyncPut
    <3>1. mem' = mem /\ run'.todo = run.todo /\ run'.cur = run.cur /\ run.pc = "put"
      BY <1>1, <2>4 DEF SyncPut, Run
    <3> QED
      BY <2>1, <3>1, RunOnward DEF RunInv
  <2>5. ASSUME NEW c \in run.todo, SyncRead(c)
        PROVE  RunInv'
    <3> DEFINE cur == [item |-> c, text |-> IF c.op.type = "delete" THEN Absent ELSE files[c.path].text]
    <3>1. mem' = mem /\ run' = [run EXCEPT !.pc = "put", !.cur = cur] /\ cur.item = c
      BY <2>5 DEF SyncRead
    <3> HIDE DEF cur
    <3>2. run'.todo = run.todo /\ run'.cur.item = c
      BY <1>1, <3>1 DEF Run
    <3> QED
      BY <2>1, <2>5, <3>1, <3>2, RunOnward
  <2>6. ASSUME NEW c, mem' = mem,
               run' = Failed(c) \/ run' = [Failed(c) EXCEPT !.conflicts = @ \cup {c.path}]
        PROVE  RunInv'
    <3> DEFINE f == Failed(c)
    <3>1. f.todo = run.todo \ {c} /\ f.pc = "next" /\ DOMAIN f = DOMAIN run
      BY <1>1 DEF Failed, Run
    <3> HIDE DEF f
    <3>2. run'.todo = f.todo /\ run'.pc = f.pc
      BY <1>1, <2>6, <3>1 DEF Run, f
    <3> QED
      BY <2>1, <2>6, <3>1, <3>2, RunOnward
  <2>7. ASSUME NEW c \in run.todo, SyncRefuse(c) \/ SyncNoContent(c)
        PROVE  RunInv'
    BY <2>6, <2>7 DEF SyncRefuse, SyncNoContent
  <2>8. CASE SyncPutFails
    <3>1. CASE run' = [run EXCEPT !.pc = "mark"]
      <4>1. mem' = mem /\ run'.todo = run.todo /\ run'.cur = run.cur /\ run.pc = "put"
        BY <1>1, <2>8, <3>1 DEF SyncPutFails, Run
      <4> QED
        BY <2>1, <4>1, RunOnward DEF RunInv
    <3>2. CASE run' # [run EXCEPT !.pc = "mark"]
      BY <2>6, <2>8, <3>2 DEF SyncPutFails
    <3> QED
      BY <3>1, <3>2
  <2>9. CASE SyncMark
    <3> DEFINE c == run.cur.item
    <3>1. /\ run'.todo = run.todo \ {c} /\ run'.pc = "next" /\ run.pc = "mark"
          /\ mem' = [mem EXCEPT ![c.path] = None]
      BY <1>1, <2>9 DEF SyncMark, Run
    <3>2. c \in run.todo
      BY <3>1 DEF RunInv
    <3>3. \A d \in run'.todo : d.path # c.path /\ d.path \in Paths
      BY <1>1, <3>1, <3>2, ItemOfPath DEF Item
    <3>4. \A d \in run'.todo : mem'[d.path] = mem[d.path]
      BY <3>1, <3>3 DEF TypeOK
    <3> QED
      BY <2>1, <3>1, <3>4, RunOnward
  <2> QED
    BY <2>a, <2>2, <2>3, <2>4, <2>5, <2>7, <2>8, <2>9 DEF RunStep
<1> QED
  BY <1>2, <1>3

-----------------------------------------------------------------------------
(* The map mirrors the ledger *)

\* An item of the batch is the entry of its path.
LEMMA ItemHeld ==
  ASSUME TypeOK, RunInv, run.pc # "idle", NEW c \in run.todo
  PROVE  c.path \in Paths /\ c.path \in run.paths /\ mem[c.path] = c.op /\ mem[c.path] # None
<1>1. c \in Item
  BY RunFields
<1>2. c.path \in run.paths /\ mem[c.path] = c.op
  BY DEF RunInv
<1> QED
  BY <1>1, <1>2, NoneIsNoOp DEF Item

\* An item that was not written goes back to review;
LEMMA ItemKept ==
  ASSUME TypeOK, LedgerInv, RunInv, run.pc # "idle", NEW c \in run.todo,
         KeepOpPending(c.path, c.op.id), mem' = mem
  PROVE  /\ \A q \in Paths \ {c.path} : Kept(q)
         /\ Pending(c.path)' = Pending(c.path) /\ Visible(c.path)' = Pending(c.path)
         /\ \A i \in Ids : /\ rows'[c.path][i].type = rows[c.path][i].type
                           /\ rows'[c.path][i].snap = rows[c.path][i].snap
                           /\ rows'[c.path][i].mtime = rows[c.path][i].mtime
         /\ LedgerInv'
<1>1. c.path \in Paths /\ mem[c.path] = c.op /\ mem[c.path] # None /\ Held(c.path) /\ LedgerOK
  BY ItemHeld DEF LedgerInv, TypeOK, LedgerOK
<1>2. KeepOpPending(c.path, mem[c.path].id)
  BY <1>1
<1>3. /\ \A q \in Paths \ {c.path} : Kept(q)
      /\ Pending(c.path)' = Pending(c.path) /\ Visible(c.path)' = Pending(c.path)
      /\ Held(c.path)'
      /\ \A i \in Ids : /\ rows'[c.path][i].type = rows[c.path][i].type
                        /\ rows'[c.path][i].snap = rows[c.path][i].snap
                        /\ rows'[c.path][i].mtime = rows[c.path][i].mtime
  BY <1>1, <1>2, KeepEffect
<1>4. \A q \in Paths \ {c.path} : Held(q)'
  BY <1>3, HeldKept DEF LedgerInv
<1> QED
  BY <1>3, <1>4 DEF LedgerInv

\* one that was is settled.
LEMMA ItemSynced ==
  ASSUME TypeOK, LedgerInv, RunInv, SyncMark
  PROVE  \E p \in Paths : /\ p = run.cur.item.path /\ run.cur.item \in run.todo /\ p \in run.paths
                          /\ (\A q \in Paths \ {p} : Kept(q)) /\ Removed(p)
                          /\ LedgerInv'
<1>1. run.pc = "mark" /\ run.pc # "idle" /\ run.cur.item \in run.todo
  BY DEF SyncMark, RunInv
<1>2. PICK c \in run.todo : c = run.cur.item
  BY <1>1
<1>3. PICK p \in Paths : p = c.path /\ p \in run.paths /\ mem[p] = c.op /\ mem[p] # None
  BY <1>1, ItemHeld
<1>4. MarkOpSynced(p, mem[p].id) /\ mem' = [mem EXCEPT ![p] = None]
  BY <1>2, <1>3 DEF SyncMark
<1>5. Held(p) /\ LedgerOK
  BY DEF LedgerInv, TypeOK, LedgerOK
<1>6. (\A q \in Paths \ {p} : Kept(q)) /\ Removed(p)
  BY <1>3, <1>4, <1>5, SyncedEffect
<1>7. Held(p)' /\ \A q \in Paths \ {p} : Held(q)'
  BY <1>6, HeldKept, HeldNone DEF LedgerInv
<1> QED
  BY <1>1, <1>2, <1>3, <1>6, <1>7 DEF LedgerInv

\* Steps that leave ledger and map alone.
LEMMA LedgerKept ==
  ASSUME LedgerInv, rows' = rows, mem' = mem
  PROVE  LedgerInv' /\ \A p \in Paths : Kept(p) /\ Pending(p)' = Pending(p) /\ Visible(p)' = Visible(p)
  BY HeldKept DEF LedgerInv, Kept

\* The approval a run begins with.
LEMMA ApproveStep ==
  ASSUME TypeOK, LedgerInv, Approve
  PROVE  /\ LedgerInv' /\ mem' = mem
         /\ \/ rows' = rows /\ snaps' = snaps /\ \A p \in run.paths : Pending(p) = {}
            \/ \E s \in SnapIds :
                 /\ snaps[s] = "none" /\ snaps' = [snaps EXCEPT ![s] = "approved"]
                 /\ run' = [run EXCEPT !.pc = "sync", !.snap = s]
                 /\ \A p \in Paths :
                      /\ Pending(p)' = Pending(p)
                      /\ \A i \in Ids : rows'[p][i].type = rows[p][i].type /\ rows'[p][i].mtime = rows[p][i].mtime
                      /\ IF p \in run.paths /\ Pending(p) # {}
                           THEN \A i \in Pending(p) : rows'[p][i].approved /\ rows'[p][i].snap = s
                           ELSE Kept(p)
<1> DEFINE taken == {p \in run.paths : Pending(p) # {}}
<1>1. CASE taken = {}
  BY <1>1, LedgerKept DEF Approve
<1>2. CASE taken # {}
  <2>1. PICK s \in SnapIds :
          /\ snaps[s] = "none" /\ snaps' = [snaps EXCEPT ![s] = "approved"]
          /\ rows' = [p \in Paths |-> [i \in Ids |->
                        IF p \in taken /\ i \in Pending(p)
                          THEN [rows[p][i] EXCEPT !.approved = TRUE, !.snap = s] ELSE rows[p][i]]]
          /\ run' = [run EXCEPT !.pc = "sync", !.snap = s]
    BY <1>2 DEF Approve
  <2>2. taken \in SUBSET Paths /\ mem' = mem
    BY RunFields DEF Approve
  <2>4. \A p : p \in taken <=> p \in run.paths /\ Pending(p) # {}
    OBVIOUS
  <2> HIDE DEF taken
  <2>3. \A p \in Paths : /\ Held(p)' /\ Pending(p)' = Pending(p)
                         /\ \A i \in Ids : /\ rows'[p][i].type = rows[p][i].type
                                           /\ rows'[p][i].mtime = rows[p][i].mtime
                         /\ IF p \in taken THEN \A i \in Pending(p) : rows'[p][i].approved /\ rows'[p][i].snap = s
                            ELSE Kept(p)
    BY <2>1, <2>2, ApproveEffect
  <2>5. \A p \in Paths :
          /\ Pending(p)' = Pending(p)
          /\ \A i \in Ids : rows'[p][i].type = rows[p][i].type /\ rows'[p][i].mtime = rows[p][i].mtime
          /\ IF p \in run.paths /\ Pending(p) # {}
               THEN \A i \in Pending(p) : rows'[p][i].approved /\ rows'[p][i].snap = s
               ELSE Kept(p)
    BY <2>3, <2>4
  <2>6. LedgerInv'
    BY <2>3 DEF LedgerInv
  <2> QED
    BY <2>1, <2>2, <2>5, <2>6
<1> QED
  BY <1>1, <1>2

\* The other steps of a run before its refresh.
LEMMA SyncStep ==
  ASSUME TypeOK, LedgerInv, RunInv, run.pc # "idle", RunStep
  PROVE  \/ Approve
         \/ FinalRefresh /\ LedgerInv'
         \/ SyncMark /\ LedgerInv'
         \/ \E c \in run.todo :
              /\ KeepOpPending(c.path, c.op.id) /\ mem' = mem /\ LedgerInv' /\ snaps' = snaps
              /\ run' = Failed(c) \/ run' = [Failed(c) EXCEPT !.conflicts = @ \cup {c.path}]
         \/ rows' = rows /\ mem' = mem /\ LedgerInv'
<1>1. CASE FinalRefresh
  BY <1>1, RefreshEffect DEF FinalRefresh, LedgerInv
<1>2. CASE SyncMark
  BY <1>2, ItemSynced
<1>3. ASSUME NEW c \in run.todo, KeepOpPending(c.path, c.op.id), mem' = mem
      PROVE  LedgerInv'
  BY <1>3, ItemKept
<1>4. CASE SyncPutFails
  <2>1. run.cur.item \in run.todo
    BY <1>4 DEF SyncPutFails, RunInv
  <2> QED
    BY <1>3, <1>4, <2>1, LedgerKept DEF SyncPutFails
<1>5. CASE \E c \in run.todo : SyncRefuse(c) \/ SyncNoContent(c)
  BY <1>3, <1>5 DEF SyncRefuse, SyncNoContent
<1>6. CASE Detect
  BY <1>6, LedgerKept DEF Detect
<1>7. CASE SyncBegin \/ SyncThrows \/ SyncPut \/ SyncDone \/ Finish \/ \E c \in run.todo : SyncRead(c)
  BY <1>7, LedgerKept DEF SyncBegin, SyncThrows, SyncPut, SyncDone, Finish, SyncRead
<1> QED
  BY <1>1, <1>2, <1>4, <1>5, <1>6, <1>7 DEF RunStep

\* A run starts where no call is.
LEMMA StartAway ==
  ASSUME "callsDuringRun" \notin Environment, NEW r, Starts(r)
  PROVE  /\ \A a \in Actors : call[a].pc # "idle" => call[a].path \notin r.paths
         /\ run.pc = "idle" /\ run' = r
         /\ UNCHANGED <<disk, files, baseline, rows, mem, history, snaps, clock, call, draft, origin>>
<1>1. MayRun(r.paths)
  BY DEF Starts, Begin
<1> QED
  BY <1>1 DEF Starts, Begin, MayRun, Calm, CalmOn

\* The batch and the map stay in order as long as neither a call nor a refresh comes
\* between them on the paths of the run.
LEMMA MapNext ==
  ASSUME Environment \cap {"callsDuringRun", "refreshDuringRun"} = {},
         TypeOK, LedgerInv, RunInv, [Next]_vars
  PROVE  LedgerInv' /\ RunInv'
<1>1. ASSUME NEW a \in Actors, NEW p \in Paths, CallAt(a, p)
      PROVE  LedgerInv' /\ RunInv'
  <2>1. /\ \A q \in Paths \ {p} : Kept(q)
        /\ \A b \in Actors \ {a} : call'[b] = call[b]
        /\ call'[a].pc = "idle" \/ call'[a].path = p
        /\ run' = run
    BY <1>1, CallFrame
  <2>2. Held(p)' /\ \A q \in Paths \ {p} : Held(q)'
    BY <1>1, <2>1, CallLedger, HeldKept DEF LedgerInv
  <2>3. CASE run.pc = "idle"
    BY <2>1, <2>2, <2>3 DEF LedgerInv, RunInv
  <2>4. CASE run.pc # "idle"
    <3>1. p \notin run.paths /\ run.paths \subseteq Paths
      BY <1>1, <2>4, CallAway, RunFields
    <3>2. \A c \in run.todo : c.path \in run.paths /\ mem'[c.path] = c.op
      BY <2>1, <2>4, <3>1 DEF RunInv, Kept
    <3>3. \A b \in Actors : call'[b].pc # "idle" => call'[b].path \notin run.paths
      BY <2>1, <2>4, <3>1 DEF RunInv
    <3> QED
      BY <2>1, <2>2, <2>4, <3>2, <3>3 DEF LedgerInv, RunInv
  <2> QED
    BY <2>3, <2>4
<1>2. ASSUME NEW r, Starts(r)
      PROVE  LedgerInv' /\ RunInv'
  <2>1. LedgerInv'
    BY <1>2, StartAway, LedgerKept
  <2>2. RunInv'
    BY <1>2, StartAway DEF Starts, Begin, RunInv
  <2> QED
    BY <2>1, <2>2
<1>3. CASE Refresh
  BY <1>3, RefreshEffect DEF Refresh, MayRefresh, LedgerInv, RunInv
<1>4. CASE DetectConflicts
  BY <1>4, LedgerKept DEF DetectConflicts, RunInv
<1>5. CASE run.pc # "idle" /\ RunStep
  BY <1>5, SyncStep, ApproveStep, RunStepOK
<1>6. ASSUME NEW p \in Paths, NEW t \in Texts \cup {Absent}, ExternalEdit(p, t)
      PROVE  LedgerInv' /\ RunInv'
  BY <1>6, LedgerKept DEF ExternalEdit, RunInv
<1>7. CASE Crash
  <2>1. LedgerInv'
    BY <1>7, CrashEffect DEF LedgerInv
  <2> QED
    BY <1>7, <2>1 DEF Crash, IdleRun, RunInv
<1>8. CASE UNCHANGED vars
  BY <1>8, LedgerKept DEF vars, RunInv
<1> QED
  BY <1>1, <1>2, <1>3, <1>4, <1>5, <1>6, <1>7, <1>8, NextCases

\* They are in order at first.
LEMMA MapInit == Init => LedgerInv /\ RunInv
<1> SUFFICES ASSUME Init PROVE LedgerInv /\ RunInv
  OBVIOUS
<1>1. \A p \in Paths : Pending(p) = {} /\ mem[p] = None
  BY DEF Init, FreeRow, Pending
<1>2. \A p \in Paths : Held(p)
  BY <1>1 DEF Held, Visible
<1> QED
  BY <1>2 DEF LedgerInv, Init, IdleRun, RunInv

\* A row the map holds is approved only while it is still to come in the run.
ToCome(p) ==
  /\ run.pc \in {"sync", "next", "put", "mark"} /\ p \in run.paths
  /\ \/ run.pc = "sync" /\ p \in PassPaths
     \/ ~run.forced /\ p \in run.force
     \/ run.pc # "sync" /\ \E c \in run.todo : c.path = p
ApprovalInv == \A p \in Paths : mem[p] # None /\ Visible(p) = {} => ToCome(p)

\* What a refresh leaves is up for review.
LEMMA RefreshedVisible ==
  ASSUME NEW p \in Paths, Refreshed(p), mem'[p] # None
  PROVE  Visible(p)' # {}
  BY DEF Refreshed, Removed, Visible

\* Steps that leave the run alone bring nothing into it and take nothing from it.
LEMMA ToComeKept ==
  ASSUME ApprovalInv, run' = run,
         \A p \in Paths : \/ mem'[p] = None
                          \/ Visible(p)' # {}
                          \/ mem'[p] = mem[p] /\ Visible(p)' = Visible(p)
  PROVE  ApprovalInv'
  BY DEF ApprovalInv, ToCome, PassPaths

\* An item that has had its turn is up for review or no longer in the map; the others
\* are still to come.
LEMMA ToComeTurn ==
  ASSUME TypeOK, RunInv, ApprovalInv, run.pc \in {"next", "put", "mark"}, NEW c \in run.todo,
         \A q \in Paths \ {c.path} : Kept(q),
         Visible(c.path)' # {} \/ mem'[c.path] = None,
         run'.pc = "next", run'.todo = run.todo \ {c}, run'.paths = run.paths,
         run'.force = run.force, run'.forced = run.forced
  PROVE  ApprovalInv'
<1> SUFFICES ASSUME NEW p \in Paths, mem'[p] # None, Visible(p)' = {}
             PROVE  ToCome(p)'
  BY DEF ApprovalInv
<1>1. p # c.path
  BY ItemHeld
<1>2. mem[p] # None /\ Visible(p) = {}
  BY <1>1 DEF Kept, Visible, Pending
<1>3. ToCome(p)
  BY <1>2 DEF ApprovalInv
<1>4. ASSUME NEW d \in run.todo, d.path = p
      PROVE  d \in run'.todo
  BY <1>1, <1>4
<1> QED
  BY <1>3, <1>4 DEF ToCome

\* The steps of a run.
LEMMA ApprovalRunStep ==
  ASSUME "revoked" \notin Environment,
         TypeOK, LedgerInv, RunInv, ApprovalInv, run.pc # "idle", RunStep
  PROVE  ApprovalInv'
<1>1. run \in Run /\ run.todo \subseteq Item
  BY RunFields
<1>2. CASE Approve
  <2>1. \A p \in Paths : mem[p] # None => Visible(p) # {}
    BY <1>2 DEF Approve, ApprovalInv, ToCome
  <2>2. CASE rows' = rows /\ mem' = mem
    BY <2>1, <2>2 DEF ApprovalInv, Visible, Pending
  <2>3. ASSUME NEW s \in SnapIds, mem' = mem,
               run' = [run EXCEPT !.pc = "sync", !.snap = s],
               \A p \in Paths : p \notin run.paths => Kept(p),
               \A p \in Paths : Pending(p) = {} => Kept(p)
        PROVE  ApprovalInv'
    <3>1. run'.pc = "sync" /\ run'.paths = run.paths /\ run'.force = run.force /\ run'.forced = run.forced
      BY <1>1, <2>3 DEF Run
    <3>2. run.forced => run.paths = run.force
      BY <1>2 DEF Approve, RunInv
    <3> SUFFICES ASSUME NEW p \in Paths, mem'[p] # None, Visible(p)' = {}
                 PROVE  ToCome(p)'
      BY DEF ApprovalInv
    <3>3. ~Kept(p)
      BY <2>1, <2>3 DEF Kept, Visible, Pending
    <3>4. p \in run.paths
      BY <2>3, <3>3
    <3> QED
      BY <3>1, <3>2, <3>4 DEF ToCome, PassPaths
  <2> QED
    BY <1>2, <2>2, <2>3, ApproveStep
<1>3. CASE FinalRefresh
  BY <1>3, RefreshEffect, RefreshedVisible DEF FinalRefresh, ApprovalInv
<1>4. CASE SyncMark
  <2>1. PICK p \in Paths : /\ p = run.cur.item.path /\ run.cur.item \in run.todo
                           /\ (\A q \in Paths \ {p} : Kept(q)) /\ Removed(p)
    BY <1>4, ItemSynced
  <2>2. PICK c \in run.todo : c = run.cur.item
    BY <2>1
  <2>3. /\ run'.pc = "next" /\ run'.todo = run.todo \ {c} /\ run'.paths = run.paths
        /\ run'.force = run.force /\ run'.forced = run.forced /\ run.pc = "mark"
    BY <1>1, <1>4, <2>2 DEF SyncMark, Run
  <2>4. c.path = p /\ mem'[c.path] = None /\ \A q \in Paths \ {c.path} : Kept(q)
    BY <2>1, <2>2 DEF Removed
  <2> QED
    BY <2>3, <2>4, ToComeTurn
<1>5. ASSUME NEW c \in run.todo, run.pc \in {"next", "put"},
             KeepOpPending(c.path, c.op.id), mem' = mem,
             run' = Failed(c) \/ run' = [Failed(c) EXCEPT !.conflicts = @ \cup {c.path}]
      PROVE  ApprovalInv'
  <2>1. (\A q \in Paths \ {c.path} : Kept(q)) /\ Visible(c.path)' = Pending(c.path)
    BY <1>5, ItemKept
  <2>2. Pending(c.path) # {}
    BY <1>5, ItemHeld, HeldRow DEF LedgerInv
  <2>3. /\ Failed(c).pc = "next" /\ Failed(c).todo = run.todo \ {c} /\ Failed(c).paths = run.paths
        /\ Failed(c).force = run.force /\ Failed(c).forced = run.forced
        /\ DOMAIN Failed(c) = DOMAIN run
    BY <1>1 DEF Failed, Run
  <2> DEFINE f == Failed(c)
  <2>4. /\ f.pc = "next" /\ f.todo = run.todo \ {c} /\ f.paths = run.paths
        /\ f.force = run.force /\ f.forced = run.forced /\ DOMAIN f = DOMAIN run
        /\ run' = f \/ run' = [f EXCEPT !.conflicts = @ \cup {c.path}]
    BY <1>5, <2>3
  <2> HIDE DEF f
  <2>5. /\ run'.pc = "next" /\ run'.todo = run.todo \ {c} /\ run'.paths = run.paths
        /\ run'.force = run.force /\ run'.forced = run.forced
    BY <1>1, <2>4 DEF Run
  <2> QED
    BY <1>5, <2>1, <2>2, <2>5, ToComeTurn
<1>6. CASE \E c \in run.todo : SyncRefuse(c) \/ SyncNoContent(c)
  BY <1>5, <1>6 DEF SyncRefuse, SyncNoContent
<1>7. ASSUME rows' = rows, mem' = mem, run'.pc \in {"next", "put", "mark"}, run.pc \in {"next", "put", "mark"},
             run'.todo = run.todo, run'.paths = run.paths, run'.force = run.force, run'.forced = run.forced
      PROVE  ApprovalInv'
  BY <1>7 DEF ApprovalInv, ToCome, Visible, Pending
<1>8. CASE SyncPutFails
  <2>1. CASE rows' = rows /\ run' = [run EXCEPT !.pc = "mark"]
    BY <1>1, <1>7, <1>8, <2>1 DEF SyncPutFails, Run
  <2>2. CASE KeepOpPending(run.cur.item.path, run.cur.item.op.id) /\ run' = Failed(run.cur.item)
    <3>1. run.cur.item \in run.todo
      BY <1>8 DEF SyncPutFails, RunInv
    <3> QED
      BY <1>5, <1>8, <2>2, <3>1 DEF SyncPutFails
  <2> QED
    BY <1>8, <2>1, <2>2 DEF SyncPutFails
<1>9. CASE SyncPut \/ \E c \in run.todo : SyncRead(c)
  <2>1. /\ rows' = rows /\ mem' = mem /\ run.pc \in {"next", "put"}
        /\ (run' = [run EXCEPT !.pc = "mark"] \/ \E cur : run' = [run EXCEPT !.pc = "put", !.cur = cur])
    BY <1>9 DEF SyncPut, SyncRead
  <2> QED
    BY <1>1, <1>7, <2>1 DEF Run
<1>10. CASE SyncBegin
  <2>1. /\ rows' = rows /\ mem' = mem /\ run'.pc = "next" /\ run'.paths = run.paths
        /\ run'.force = run.force /\ run'.forced = run.forced /\ run.pc = "sync"
        /\ run'.todo = {[path |-> p, op |-> mem[p]] : p \in PassPaths \cap Listed}
    BY <1>1, <1>10 DEF SyncBegin, Run
  <2>2. ASSUME NEW p \in PassPaths, p \in Paths, mem[p] # None
        PROVE  \E c \in run'.todo : c.path = p
    <3>1. [path |-> p, op |-> mem[p]] \in run'.todo
      BY <2>1, <2>2 DEF Listed
    <3> QED
      BY <3>1
  <2> QED
    BY <2>1, <2>2 DEF ApprovalInv, ToCome, Visible, Pending
<1>11. CASE SyncDone
  <2>1. /\ rows' = rows /\ mem' = mem /\ run.pc = "next" /\ run.todo = {}
        /\ \/ run.forced \/ run.force = {}
           \/ /\ run'.pc = "sync" /\ run'.forced /\ run'.paths = run.paths /\ run'.force = run.force
    BY <1>1, <1>11 DEF SyncDone, Run
  <2> QED
    BY <2>1 DEF ApprovalInv, ToCome, PassPaths, Visible, Pending
<1>12. CASE Detect \/ Finish
  <2>1. rows' = rows /\ mem' = mem /\ run.pc \in {"detect", "finish"}
    BY <1>12 DEF Detect, Finish
  <2> QED
    BY <2>1 DEF ApprovalInv, ToCome, Visible, Pending
<1> QED
  BY <1>2, <1>3, <1>4, <1>6, <1>8, <1>9, <1>10, <1>11, <1>12 DEF RunStep, SyncThrows

\* Every step.
LEMMA ApprovalNext ==
  ASSUME Environment \cap {"callsDuringRun", "refreshDuringRun", "revoked"} = {},
         TypeOK, LedgerInv, RunInv, ApprovalInv, [Next]_vars
  PROVE  ApprovalInv'
<1>1. ASSUME NEW a \in Actors, NEW p \in Paths, CallAt(a, p)
      PROVE  ApprovalInv'
  <2>1. (\A q \in Paths \ {p} : Kept(q)) /\ run' = run
    BY <1>1, CallFrame
  <2>2. Kept(p) \/ Recorded(p) \/ Removed(p)
    BY <1>1, CallLedger DEF LedgerInv
  <2>3. Recorded(p) => Visible(p)' # {}
    BY DEF Recorded, Visible
  <2>4. \A q \in Paths : Kept(q) => mem'[q] = mem[q] /\ Visible(q)' = Visible(q)
    BY DEF Kept, Visible, Pending
  <2> QED
    BY <2>1, <2>2, <2>3, <2>4, ToComeKept DEF Removed
<1>2. ASSUME rows' = rows, mem' = mem, run.pc = "idle" \/ run' = run
      PROVE  ApprovalInv'
  BY <1>2 DEF ApprovalInv, ToCome, PassPaths, Visible, Pending
<1>3. ASSUME NEW r, Starts(r)
      PROVE  ApprovalInv'
  BY <1>2, <1>3 DEF Starts, Begin, MayRun
<1>4. CASE Refresh
  BY <1>4, RefreshEffect, RefreshedVisible DEF Refresh, ApprovalInv
<1>5. CASE DetectConflicts
  BY <1>2, <1>5 DEF DetectConflicts
<1>6. CASE run.pc # "idle" /\ RunStep
  BY <1>6, ApprovalRunStep
<1>7. ASSUME NEW p \in Paths, NEW t \in Texts \cup {Absent}, ExternalEdit(p, t)
      PROVE  ApprovalInv'
  BY <1>2, <1>7 DEF ExternalEdit
<1>8. CASE Crash
  <2>1. \A p \in Paths : rows'[p] = rows[p] /\ (mem'[p] # None => mem'[p].id \in Visible(p))
    BY <1>8, CrashEffect
  <2>2. \A p \in Paths : Visible(p)' = Visible(p)
    BY <2>1 DEF Visible, Pending
  <2> QED
    BY <2>1, <2>2 DEF ApprovalInv
<1>9. CASE UNCHANGED vars
  BY <1>2, <1>9 DEF vars
<1> QED
  BY <1>1, <1>3, <1>4, <1>5, <1>6, <1>7, <1>8, <1>9, NextCases

\* The map of a workspace mirrors its ledger between calls and runs, whatever the
\* page, the disk and other programs do, as long as neither a call nor a refresh
\* meets a run on its paths and the folder stays authorized.
THEOREM MapMirrors ==
  ASSUME Environment \cap {"callsDuringRun", "refreshDuringRun", "revoked"} = {}
  PROVE  Spec => []MapMirrorsLedger
<1> DEFINE Inv == TypeOK /\ LedgerInv /\ RunInv /\ ApprovalInv
<1>1. Init => Inv
  BY TypeInit, MapInit DEF Init, ApprovalInv
<1>2. Inv /\ [Next]_vars => Inv'
  BY TypeNext, MapNext, ApprovalNext
<1>3. Inv => MapMirrorsLedger
  <2> SUFFICES ASSUME Inv, Quiet, NEW p \in Paths
               PROVE  IF Visible(p) = {} THEN mem[p] = None ELSE \E i \in Visible(p) : mem[p] = Entry(p, i)
    BY DEF MapMirrorsLedger
  <2>1. Held(p) /\ (mem[p] # None => Visible(p) # {})
    BY DEF LedgerInv, ApprovalInv, ToCome, Quiet
  <2> QED
    BY <2>1 DEF Held, Visible
<1> QED
  BY <1>1, <1>2, <1>3, PTL DEF Spec

-----------------------------------------------------------------------------
(* No approval is left behind *)

\* A path the map does not know has no pending row.
StrandInv == \A p \in Paths : mem[p] = None => Pending(p) = {}

\* A row is dropped from the map only where the ledger says it is not pending: a
\* reload of the page would drop the ones a run had approved.
LEMMA StrandNext ==
  ASSUME Environment \cap {"callsDuringRun", "refreshDuringRun", "revoked", "crash"} = {},
         TypeOK, LedgerInv, RunInv, ApprovalInv, StrandInv, [Next]_vars
  PROVE  StrandInv'
<1>1. ASSUME NEW p \in Paths, Kept(p) \/ Recorded(p) \/ Removed(p)
      PROVE  mem'[p] = None => Pending(p)' = {}
  <2>1. CASE Kept(p)
    BY <2>1 DEF Kept, StrandInv, Pending
  <2>2. CASE Recorded(p)
    BY <2>2, TypeNext, EntryThere DEF Recorded, TypeOK
  <2>3. CASE Removed(p)
    BY <2>3 DEF Removed
  <2> QED
    BY <1>1, <2>1, <2>2, <2>3
<1>2. ASSUME NEW a \in Actors, NEW p \in Paths, CallAt(a, p)
      PROVE  StrandInv'
  <2>1. \A q \in Paths : Kept(q) \/ Recorded(q) \/ Removed(q)
    BY <1>2, CallFrame, CallLedger DEF LedgerInv
  <2> QED
    BY <1>1, <2>1 DEF StrandInv
<1>3. ASSUME mem' = mem, \A p \in Paths : Pending(p)' = Pending(p)
      PROVE  StrandInv'
  BY <1>3 DEF StrandInv
<1>4. ASSUME mem' = mem, rows' = rows
      PROVE  StrandInv'
  BY <1>3, <1>4 DEF Pending
<1>5. CASE run.pc \in {"idle", "refresh"} /\ RefreshAll
  <2> SUFFICES ASSUME NEW p \in Paths, mem'[p] = None
               PROVE  Pending(p)' = {}
    BY DEF StrandInv
  <2>1. Refreshed(p) /\ (mem[p] # None => Visible(p) # {})
    BY <1>5, RefreshEffect DEF ApprovalInv, ToCome
  <2>2. CASE rows'[p] = rows[p] /\ Visible(p) = {}
    BY <2>1, <2>2 DEF StrandInv, Pending
  <2>3. CASE \E i \in Ids : mem'[p] = Entry(p, i)'
    BY <2>3, TypeNext, EntryThere DEF TypeOK
  <2> QED
    BY <2>1, <2>2, <2>3 DEF Refreshed, Removed
<1>6. CASE run.pc # "idle" /\ RunStep
  <2>1. CASE Approve
    BY <1>3, <1>4, <2>1, ApproveStep
  <2>2. CASE FinalRefresh
    BY <1>5, <2>2 DEF FinalRefresh
  <2>3. CASE SyncMark
    BY <1>1, <2>3, ItemSynced DEF StrandInv
  <2>4. ASSUME NEW c \in run.todo, KeepOpPending(c.path, c.op.id), mem' = mem
        PROVE  StrandInv'
    <3>1. \A q \in Paths : Kept(q) \/ Pending(q)' = Pending(q)
      BY <1>6, <2>4, ItemKept
    <3> QED
      BY <1>3, <2>4, <3>1 DEF Kept, Pending
  <2> QED
    BY <1>4, <1>6, <2>1, <2>2, <2>3, <2>4, SyncStep
<1> QED
  <2>1. ASSUME NEW r, Starts(r) PROVE StrandInv'
    BY <1>4, <2>1 DEF Starts, Begin
  <2>2. CASE Refresh
    BY <1>5, <2>2 DEF Refresh, MayRefresh
  <2>3. CASE DetectConflicts \/ UNCHANGED vars \/ \E p \in Paths, t \in Texts \cup {Absent} : ExternalEdit(p, t)
    BY <1>4, <2>3 DEF DetectConflicts, ExternalEdit, vars
  <2> QED
    BY <1>2, <1>6, <2>1, <2>2, <2>3, NextCases DEF Crash

\* Between runs no pending row is approved: whatever a run did not write it has put
\* back for review, or its refresh has, as long as neither a call nor another refresh
\* meets it on its paths, the folder stays authorized and the page is not reloaded.
THEOREM ApprovalNotStranded ==
  ASSUME Environment \cap {"callsDuringRun", "refreshDuringRun", "revoked", "crash"} = {}
  PROVE  Spec => []NoStrandedApproval
<1> DEFINE Inv == TypeOK /\ LedgerInv /\ RunInv /\ ApprovalInv /\ StrandInv
<1>1. Init => Inv
  <2>1. Init => StrandInv
    BY DEF Init, FreeRow, Pending, StrandInv
  <2> QED
    BY <2>1, TypeInit, MapInit DEF Init, ApprovalInv
<1>2. Inv /\ [Next]_vars => Inv'
  BY TypeNext, MapNext, ApprovalNext, StrandNext
<1>3. Inv => NoStrandedApproval
  BY DEF LedgerInv, ApprovalInv, ToCome, StrandInv, NoStrandedApproval, Held, Visible
<1> QED
  BY <1>1, <1>2, <1>3, PTL DEF Spec

-----------------------------------------------------------------------------
(* A snapshot marked as synced is settled *)

\* A pending row that belongs to a snapshot belongs to one that is not synced; if it is
\* the one of the run under way, the path is one the run has not done.
SnapOf(p) ==
  \A i \in Pending(p) :
    rows[p][i].snap # 0 =>
      /\ snaps[rows[p][i].snap] = "approved"
      /\ run.pc # "idle" /\ run.snap = rows[p][i].snap => p \in run.paths \ run.done
SnapInv ==
  /\ \A p \in Paths : SnapOf(p)
  /\ run.pc # "idle" =>
       /\ run.snap # 0 /\ run.pc # "refresh" => snaps[run.snap] = "approved"
       /\ run.pc \in {"detect", "approve"} => run.snap = 0 /\ run.done = {}

\* What may become of the rows of a path so that its snapshot stays the same or none.
Resnapped(p) == \A i \in Pending(p)' : \/ rows'[p][i].snap = 0
                                       \/ i \in Pending(p) /\ rows'[p][i].snap = rows[p][i].snap

LEMMA ResnappedKept ==
  ASSUME NEW p \in Paths, Kept(p)
  PROVE  Resnapped(p)
  BY DEF Kept, Resnapped, Pending

LEMMA ResnappedRefresh ==
  ASSUME NEW p \in Paths, Refreshed(p)
  PROVE  Resnapped(p)
<1>1. CASE rows'[p] = rows[p]
  BY <1>1 DEF Resnapped, Pending
<1>2. CASE Removed(p)
  BY <1>2 DEF Resnapped, Removed
<1>3. CASE \E i \in Ids : /\ Pending(p)' = {i}
                          /\ rows'[p][i].snap = 0 \/ (i \in Visible(p) /\ rows'[p][i].snap = rows[p][i].snap)
  BY <1>3 DEF Resnapped, Visible
<1> QED
  BY <1>1, <1>2, <1>3 DEF Refreshed

\* The snapshots keep their status and the run its snapshot, or there is no run.
LEMMA SnapKept ==
  ASSUME SnapInv, snaps' = snaps, \A p \in Paths : Resnapped(p),
         run'.pc # "idle" =>
           /\ run.pc # "idle" /\ run'.snap = run.snap /\ run'.paths = run.paths /\ run'.done = run.done
           /\ run.pc = "refresh" => run'.pc = "refresh"
           /\ run'.pc \in {"detect", "approve"} => run.pc \in {"detect", "approve"}
  PROVE  SnapInv'
<1>1. ASSUME NEW p \in Paths
      PROVE  SnapOf(p)'
  BY <1>1 DEF SnapInv, SnapOf, Resnapped
<1> QED
  BY <1>1 DEF SnapInv

\* The steps of a run.
LEMMA SnapRunStep ==
  ASSUME Kinds \subseteq {"review", "auto"},
         TypeOK, LedgerInv, RunInv, SnapInv, run.pc # "idle", RunStep
  PROVE  SnapInv'
<1>1. run \in Run /\ run.todo \subseteq Item
  BY RunFields
<1>2. CASE Approve
  <2>1. CASE rows' = rows /\ snaps' = snaps /\ \A p \in run.paths : Pending(p) = {}
    <3>1. run' = [run EXCEPT !.pc = "refresh"] \/ run' = [run EXCEPT !.pc = "sync"]
      BY <1>2, <2>1 DEF Approve
    <3> QED
      BY <1>1, <1>2, <2>1, <3>1, SnapKept DEF Run, Approve, Resnapped, Pending
  <2>2. CASE \E s \in SnapIds :
               /\ snaps[s] = "none" /\ snaps' = [snaps EXCEPT ![s] = "approved"]
               /\ run' = [run EXCEPT !.pc = "sync", !.snap = s]
               /\ \A p \in Paths :
                    /\ Pending(p)' = Pending(p)
                    /\ \A i \in Ids : rows'[p][i].type = rows[p][i].type /\ rows'[p][i].mtime = rows[p][i].mtime
                    /\ IF p \in run.paths /\ Pending(p) # {}
                         THEN \A i \in Pending(p) : rows'[p][i].approved /\ rows'[p][i].snap = s
                         ELSE Kept(p)
    <3>0. PICK s \in SnapIds :
            /\ snaps[s] = "none" /\ snaps' = [snaps EXCEPT ![s] = "approved"]
            /\ run' = [run EXCEPT !.pc = "sync", !.snap = s]
            /\ \A p \in Paths :
                 /\ Pending(p)' = Pending(p)
                 /\ \A i \in Ids : rows'[p][i].type = rows[p][i].type /\ rows'[p][i].mtime = rows[p][i].mtime
                 /\ IF p \in run.paths /\ Pending(p) # {}
                      THEN \A i \in Pending(p) : rows'[p][i].approved /\ rows'[p][i].snap = s
                      ELSE Kept(p)
      BY <2>2, Zenon
    <3>1. /\ run'.pc = "sync" /\ run'.snap = s /\ run'.paths = run.paths /\ run'.done = {}
          /\ run.snap = 0
      BY <1>1, <1>2, <3>0 DEF Approve, SnapInv, Run
    <3>2. snaps'[s] = "approved" /\ \A r : snaps[r] = "approved" => snaps'[r] = "approved"
      BY <3>0 DEF TypeOK
    <3>3. ASSUME NEW p \in Paths
          PROVE  SnapOf(p)'
      <4>1. SnapOf(p) /\ Pending(p)' = Pending(p)
        BY <3>0 DEF SnapInv
      <4>2. CASE p \in run.paths /\ Pending(p) # {}
        BY <3>0, <3>1, <3>2, <4>1, <4>2 DEF SnapOf
      <4>3. CASE Kept(p)
        BY <3>0, <3>1, <3>2, <4>1, <4>3 DEF SnapOf, Kept
      <4> QED
        BY <3>0, <4>2, <4>3
    <3> QED
      BY <3>1, <3>2, <3>3 DEF SnapInv
  <2> QED
    BY <1>2, <2>1, <2>2, ApproveStep
<1>3. CASE FinalRefresh
  BY <1>3, RefreshEffect, ResnappedRefresh, SnapKept DEF FinalRefresh, IdleRun
<1>4. CASE SyncMark
  <2>1. PICK p \in Paths : /\ p = run.cur.item.path
                           /\ (\A q \in Paths \ {p} : Kept(q)) /\ Removed(p)
    BY <1>4, ItemSynced
  <2>2. /\ run'.pc = "next" /\ run'.snap = run.snap /\ run'.paths = run.paths
        /\ run'.done = run.done \cup {p} /\ run.pc = "mark" /\ snaps' = snaps
    BY <1>1, <1>4, <2>1 DEF SyncMark, Run
  <2>3. \A q \in Paths \ {p} : SnapOf(q)'
    BY <2>1, <2>2 DEF SnapInv, SnapOf, Kept, Pending
  <2>4. SnapOf(p)'
    BY <2>1 DEF SnapOf, Removed
  <2> QED
    BY <2>2, <2>3, <2>4 DEF SnapInv
<1>5. ASSUME NEW c \in run.todo, run.pc \in {"next", "put"}, snaps' = snaps,
             KeepOpPending(c.path, c.op.id), mem' = mem,
             run' = Failed(c) \/ run' = [Failed(c) EXCEPT !.conflicts = @ \cup {c.path}]
      PROVE  SnapInv'
  <2>1. \A q \in Paths : Resnapped(q)
    BY <1>5, ItemKept, ResnappedKept DEF Resnapped, Pending
  <2> DEFINE f == Failed(c)
  <2>2. /\ f.pc = "next" /\ f.snap = run.snap /\ f.paths = run.paths
        /\ f.done = run.done /\ DOMAIN f = DOMAIN run
        /\ run' = f \/ run' = [f EXCEPT !.conflicts = @ \cup {c.path}]
    BY <1>1, <1>5 DEF Failed, Run
  <2> HIDE DEF f
  <2>3. run'.pc = "next" /\ run'.snap = run.snap /\ run'.paths = run.paths /\ run'.done = run.done
    BY <1>1, <2>2 DEF Run
  <2> QED
    BY <1>5, <2>1, <2>3, SnapKept
<1>6. CASE \E c \in run.todo : SyncRefuse(c) \/ SyncNoContent(c)
  BY <1>5, <1>6 DEF SyncRefuse, SyncNoContent
<1>7. ASSUME rows' = rows, mem' = mem, snaps' = snaps, run.pc # "refresh",
             run'.pc = "idle" \/ run'.pc # "approve" \/ run.pc = "detect", run'.pc # "detect",
             run'.pc # "idle" => run'.snap = run.snap /\ run'.paths = run.paths /\ run'.done = run.done
      PROVE  SnapInv'
  <2>1. \A q \in Paths : Resnapped(q)
    BY <1>7, ResnappedKept DEF Kept
  <2> QED
    BY <1>7, <2>1, SnapKept
<1>8. CASE SyncPutFails
  <2>1. CASE rows' = rows /\ run' = [run EXCEPT !.pc = "mark"]
    BY <1>1, <1>7, <1>8, <2>1 DEF SyncPutFails, Run
  <2>2. CASE KeepOpPending(run.cur.item.path, run.cur.item.op.id) /\ run' = Failed(run.cur.item)
    <3>1. run.cur.item \in run.todo
      BY <1>8 DEF SyncPutFails, RunInv
    <3> QED
      BY <1>5, <1>8, <2>2, <3>1 DEF SyncPutFails
  <2> QED
    BY <1>8, <2>1, <2>2 DEF SyncPutFails
<1>9. CASE Detect \/ SyncBegin \/ SyncThrows \/ SyncPut \/ SyncDone \/ \E c \in run.todo : SyncRead(c)
  <2>1. /\ rows' = rows /\ mem' = mem /\ snaps' = snaps /\ run.pc \in {"detect", "sync", "put", "next"}
        /\ \/ run' = IdleRun
           \/ run.pc = "detect" /\ run' = [run EXCEPT !.pc = "approve"]
           \/ \E pc \in {"refresh", "mark", "finish"} : run' = [run EXCEPT !.pc = pc]
           \/ \E todo : run' = [run EXCEPT !.pc = "next", !.todo = todo]
           \/ run' = [run EXCEPT !.pc = "sync", !.forced = TRUE]
           \/ \E cur : run' = [run EXCEPT !.pc = "put", !.cur = cur]
    BY <1>9 DEF Detect, SyncBegin, SyncThrows, SyncPut, SyncDone, SyncRead
  <2>2. CASE run' = IdleRun
    BY <1>7, <2>1, <2>2 DEF IdleRun
  <2>3. CASE run' # IdleRun
    <3>1. /\ run'.snap = run.snap /\ run'.paths = run.paths /\ run'.done = run.done
          /\ run'.pc # "detect" /\ (run'.pc = "approve" => run.pc = "detect")
      BY <1>1, <2>1, <2>3 DEF Run
    <3> QED
      BY <1>7, <2>1, <3>1
  <2> QED
    BY <2>2, <2>3
<1>10. CASE Finish
  <2>1. /\ rows' = rows /\ mem' = mem /\ run.pc = "finish"
        /\ run' = IdleRun \/ run' = [run EXCEPT !.pc = "refresh"]
    BY <1>10 DEF Finish
  <2>2. CASE snaps' = snaps
    BY <1>1, <1>7, <2>1, <2>2 DEF Run, IdleRun
  <2>3. CASE run.snap # 0 /\ MarksSnapshot /\ snaps' = [snaps EXCEPT ![run.snap] = "synced"]
    <3>1. run.done = run.paths
      BY <1>10, <2>3 DEF Finish, MarksSnapshot, RunInv
    <3>2. PICK s : s = run.snap
      OBVIOUS
    <3>3. \A r : r # s => snaps'[r] = snaps[r]
      BY <2>3, <3>2 DEF TypeOK
    <3>4. /\ run'.pc \in {"idle", "refresh"}
          /\ run'.pc # "idle" => run'.snap = s
      BY <1>1, <2>1, <3>2 DEF Run, IdleRun
    <3>5. ASSUME NEW p \in Paths, NEW i \in Pending(p)', rows'[p][i].snap # 0
          PROVE  rows'[p][i].snap # s /\ snaps'[rows'[p][i].snap] = "approved"
      <4>1. i \in Pending(p) /\ rows'[p][i] = rows[p][i]
        BY <2>1, <3>5 DEF Pending
      <4>2. snaps[rows[p][i].snap] = "approved" /\ rows[p][i].snap # s
        BY <2>1, <3>1, <3>2, <3>5, <4>1 DEF SnapInv, SnapOf
      <4> QED
        BY <3>3, <4>1, <4>2
    <3> QED
      BY <3>4, <3>5 DEF SnapInv, SnapOf
  <2> QED
    BY <1>10, <2>2, <2>3 DEF Finish
<1> QED
  BY <1>2, <1>3, <1>4, <1>6, <1>8, <1>9, <1>10 DEF RunStep

\* Every step.
LEMMA SnapNext ==
  ASSUME Kinds \subseteq {"review", "auto"},
         Environment \cap {"callsDuringRun", "refreshDuringRun"} = {},
         TypeOK, LedgerInv, RunInv, SnapInv, [Next]_vars
  PROVE  SnapInv'
<1>1. ASSUME NEW a \in Actors, NEW p \in Paths, CallAt(a, p)
      PROVE  SnapInv'
  <2>1. (\A q \in Paths \ {p} : Resnapped(q)) /\ run' = run /\ snaps' = snaps
    BY <1>1, CallFrame, ResnappedKept
  <2>2. Resnapped(p)
    BY <1>1, CallLedger, ResnappedKept DEF LedgerInv, Recorded, Removed, Resnapped
  <2> QED
    BY <2>1, <2>2, SnapKept
<1>2. ASSUME NEW r, Starts(r)
      PROVE  SnapInv'
  <2>1. r.kind \in {"review", "auto"} /\ run' = r /\ rows' = rows /\ mem' = mem /\ snaps' = snaps
    BY <1>2 DEF Starts, Begin
  <2>2. run'.snap = 0 /\ run'.pc \in {"detect", "approve"} /\ run'.done = {}
    BY <1>2, <2>1 DEF Starts
  <2>3. \A p \in Paths : SnapOf(p)'
    BY <2>1, <2>2 DEF SnapInv, SnapOf, Pending
  <2> QED
    BY <2>2, <2>3 DEF SnapInv
<1>3. ASSUME rows' = rows, mem' = mem, snaps' = snaps, run' = run \/ run' = IdleRun
      PROVE  SnapInv'
  BY <1>3, SnapKept, ResnappedKept DEF IdleRun, Kept
<1>4. CASE Refresh
  BY <1>4, RefreshEffect, ResnappedRefresh, SnapKept DEF Refresh
<1>5. CASE DetectConflicts \/ UNCHANGED vars \/ \E p \in Paths, t \in Texts \cup {Absent} : ExternalEdit(p, t)
  BY <1>3, <1>5 DEF DetectConflicts, vars, ExternalEdit
<1>6. CASE run.pc # "idle" /\ RunStep
  BY <1>6, SnapRunStep
<1>7. CASE Crash
  <2>1. rows' = rows /\ snaps' = snaps /\ run' = IdleRun
    BY <1>7 DEF Crash
  <2> QED
    BY <2>1, SnapKept DEF IdleRun, Resnapped, Pending
<1> QED
  BY <1>1, <1>2, <1>4, <1>5, <1>6, <1>7, NextCases

\* A snapshot that the panel or auto-apply marks as synced leaves no pending row, even
\* if the disk fails, the folder is no longer authorized or the page is reloaded, as
\* long as neither a call nor a refresh meets the run on its paths.
THEOREM SnapshotSettled ==
  ASSUME Kinds \subseteq {"review", "auto"},
         Environment \cap {"callsDuringRun", "refreshDuringRun"} = {}
  PROVE  Spec => []SyncedSnapshotSettled
<1> DEFINE Inv == TypeOK /\ LedgerInv /\ RunInv /\ SnapInv
<1>1. Init => Inv
  <2>1. Init => SnapInv
    BY DEF Init, FreeRow, IdleRun, Pending, SnapInv, SnapOf
  <2> QED
    BY <2>1, TypeInit, MapInit
<1>2. Inv /\ [Next]_vars => Inv'
  BY TypeNext, MapNext, SnapNext
<1>3. Inv => SyncedSnapshotSettled
  BY DEF SnapInv, SnapOf, SyncedSnapshotSettled, SnapIds
<1> QED
  BY <1>1, <1>2, <1>3, PTL DEF Spec

=============================================================================
