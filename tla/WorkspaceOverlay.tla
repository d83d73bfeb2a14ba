-------------------------- MODULE WorkspaceOverlay --------------------------
(***************************************************************************)
(* The overlay of one workspace over one directory on the user's disk, and *)
(* the ways a draft gets from the overlay to the disk.                     *)
(*                                                                         *)
(* Tool calls (and the user) write, delete and discard paths: the text     *)
(* goes to files/, the text it was made from to .baseline/, and a row to   *)
(* the ledger fs_ops, which an in-memory map mirrors.  A run approves some *)
(* paths and syncs them: for each one it looks for a conflict, writes the  *)
(* disk and settles the row.  A refresh reloads the map and reconciles it  *)
(* with files/.  Other programs edit the disk.  Each of these is cut into  *)
(* the steps between which JavaScript lets the others run.                 *)
(***************************************************************************)
EXTENDS Naturals, FiniteSets

CONSTANTS
  Paths,        \* files of the workspace
  Texts,        \* what a file can say
  EmptyText,    \* the empty file, a member of Texts or not
  Marked,       \* any text with conflict markers in it
  Absent,       \* no such file
  None,         \* nothing recorded
  Actors,       \* concurrent writers: tool calls, subagents, the user
  Kinds,        \* the ways to sync that exist: see RunKinds
  Environment,  \* what else may happen: see Hazards
  MaxOps,       \* bound on the ledger rows of a path
  MaxSnaps,     \* bound on the snapshots
  MaxClock      \* bound on the clock at which a call or an edit may start

\* review: the pending panel; auto: autoApplyCompletedRunChanges; tool:
\* sync_to_disk; unsynced: the offer to sync snapshots that were not.
RunKinds == {"review", "auto", "tool", "unsynced"}

\* What a run of the checker may let happen:
\*   callsDuringRun, callsElsewhere: writes, deletes and discards while a run is
\*     under way, on any path or on those the run is not about;
\*   samePath: two calls on the same path at once;
\*   refreshDuringRun, refreshDuringCall: refreshes then;
\*   editDuringSync: another program writes a file between the conflict check
\*     and the write of a sync;
\*   crash: the page reloads at any point;
\*   revoked: no directory is authorized any more when a sync begins;
\*   io, notFound: a disk write throws;
\*   sameText: a call writes what the draft says already while the disk has no
\*     such file.
Hazards == {"callsDuringRun", "callsElsewhere", "samePath", "refreshDuringRun",
            "refreshDuringCall", "editDuringSync", "crash", "revoked", "io",
            "notFound", "sameText"}

ASSUME OverlayAssumption ==
    /\ MaxOps \in Nat /\ MaxSnaps \in Nat /\ MaxClock \in Nat
    /\ Marked \notin Texts /\ Absent \notin Texts /\ Marked # Absent
    /\ None \notin Texts \cup {Marked, Absent}
    /\ Kinds \subseteq RunKinds
    /\ Environment \subseteq Hazards

VARIABLES
  disk,      \* the user's files: text and mtime
  files,     \* files/ in OPFS: text and mtime
  baseline,  \* .baseline/ in OPFS
  rows,      \* fs_ops: the ledger rows of each path
  mem,       \* PendingManager.pendingChanges: path -> op
  history,   \* after-content of the last approved snapshot of each path
  snaps,     \* fs_changesets of status approved: synced_at set or not
  clock,     \* the time mtimes are taken from
  call,      \* the write, delete or discard each actor is in the middle of
  run,       \* the approval and sync in progress
  draft,     \* what the last acknowledged call left for the disk
  origin     \* the texts that draft was made from

vars == <<disk, files, baseline, rows, mem, history, snaps, clock, call, run, draft, origin>>
ledger == <<rows, mem>>

Ids == 1 .. MaxOps
SnapIds == 1 .. MaxSnaps
OpTypes == {"create", "modify", "delete"}
Gone == [text |-> Absent, mtime |-> 0]
FreeRow == [type |-> "create", mtime |-> 0, status |-> "free", approved |-> FALSE, snap |-> 0]
IdleCall == [pc |-> "idle"]
IdleRun == [pc |-> "idle"]

Init ==
  /\ disk \in [Paths -> {Gone} \cup [text : Texts, mtime : {1}]]
  /\ files = [p \in Paths |-> Gone]
  /\ baseline = [p \in Paths |-> None]
  /\ rows = [p \in Paths |-> [i \in Ids |-> FreeRow]]
  /\ mem = [p \in Paths |-> None]
  /\ history = [p \in Paths |-> Absent]
  /\ snaps = [s \in SnapIds |-> "none"]
  /\ clock = 1
  /\ call = [a \in Actors |-> IdleCall]
  /\ run = IdleRun
  /\ draft = [p \in Paths |-> None]
  /\ origin = [p \in Paths |-> {}]

-----------------------------------------------------------------------------
(* The ledger, fs-overlay.repository.ts, and the map that mirrors it,      *)
(* workspace-pending.ts.                                                   *)

Pending(p) == {i \in Ids : rows[p][i].status = "pending"}

\* listPendingOps: pending and not approved.
Visible(p) == {i \in Pending(p) : ~rows[p][i].approved}

Entry(p, i) == [id |-> i, type |-> rows[p][i].type, mtime |-> rows[p][i].mtime]

\* reload(): the map as listPendingOps gives it.  A path has two visible rows
\* only after keepOpPending re-opened one that a discard had closed.
Reloaded == {m \in [Paths -> {None} \cup {Entry(p, i) : p \in Paths, i \in Ids}] :
               \A p \in Paths : IF Visible(p) = {} THEN m[p] = None
                                ELSE \E i \in Visible(p) : m[p] = Entry(p, i)}

\* The rows upsertPendingOp may touch: a pending one of the path, else a new one.
Targets(p) ==
  IF Pending(p) # {} THEN Pending(p)
  ELSE {i \in Ids : rows[p][i].status = "free" /\ \A j \in 1 .. i - 1 : rows[p][j].status # "free"}

\* (Definitions named like another and used nowhere are faulty variants of it that
\* the properties must tell apart: here, a row that always takes the new mtime.)
\* upsertPendingOp: the row moves to the draft changeset and back to review; it
\* keeps the mtime it was based on unless a conflict is being resolved.
UpsertNewMtime(row, type, mtime, force) ==
  [type |-> type, mtime |-> mtime, status |-> "pending", approved |-> FALSE, snap |-> 0]
UpsertPendingOp(row, type, mtime, force) ==
  [type |-> type,
   mtime |-> IF row.status = "pending" /\ row.mtime > 0 /\ ~(force /\ mtime > 0)
               THEN row.mtime ELSE mtime,
   status |-> "pending", approved |-> FALSE, snap |-> 0]

\* PendingManager.add, markAsCreated and markForDeletion, for the row they get.
Record(p, type, mtime, force) ==
  \E i \in Targets(p) :
    LET row == UpsertPendingOp(rows[p][i], type, mtime, force)
    IN  /\ rows' = [rows EXCEPT ![p][i] = row]
        /\ mem' = [mem EXCEPT ![p] = [id |-> i, type |-> row.type, mtime |-> row.mtime]]

\* add: a created file stays created.
TypeOfEdit(p) == IF mem[p] # None /\ mem[p].type = "create" THEN "create" ELSE "modify"

\* discardPendingPath: every pending row of the path.
Discarded(rs) == [i \in Ids |-> IF rs[i].status = "pending"
                                  THEN [rs[i] EXCEPT !.status = "discarded"] ELSE rs[i]]

\* removeByPath: nothing happens unless the map knows the path.  Faulty: the
\* ledger is not told.
RemoveFromMap(p) == rows' = rows /\ mem' = [mem EXCEPT ![p] = None]
RemoveByPath(p) ==
  IF mem[p] = None THEN UNCHANGED ledger
  ELSE /\ rows' = [rows EXCEPT ![p] = Discarded(@)]
       /\ mem' = [mem EXCEPT ![p] = None]

\* keepOpPending and markOpSynced address a row by its id alone.  Faulty: the row
\* stays approved; the row gets the status of markOpFailed, which no list reads.
KeepOpApproved(p, i) == rows' = [rows EXCEPT ![p][i].status = "pending"]
MarkOpFailed(p, i) == rows' = [rows EXCEPT ![p][i].status = "discarded"]
KeepOpPending(p, i) == rows' = [rows EXCEPT ![p][i].status = "pending", ![p][i].approved = FALSE]
MarkOpSynced(p, i) == rows' = [rows EXCEPT ![p][i].status = "synced", ![p][i].approved = TRUE]

\* cleanupStaleBaselines, for a given map.  Faulty: a delete needs none.
CleanedOfDeletes(m) ==
  [p \in Paths |-> IF m[p] = None THEN None ELSE IF m[p].type = "delete" THEN None ELSE baseline[p]]
Cleaned(m) == [p \in Paths |-> IF m[p] = None THEN None ELSE baseline[p]]

-----------------------------------------------------------------------------
(* Reading, and the guards of the environment. *)

\* readFile with the default policy.  Faulty: only the mtimes are compared.
ReadByMtime(p) ==
  IF mem[p] # None /\ files[p].text # Absent /\ (mem[p].mtime = 0 \/ disk[p].mtime <= mem[p].mtime)
    THEN files[p].text
  ELSE IF disk[p].text # Absent THEN disk[p].text
  ELSE files[p].text
Read(p) ==
  IF /\ mem[p] # None
     /\ files[p].text # Absent
     /\ \/ files[p].text = Marked
        \/ disk[p].text = Absent
        \/ mem[p].mtime = 0
        \/ disk[p].mtime <= mem[p].mtime
        \/ baseline[p] = disk[p].text
    THEN files[p].text
  ELSE IF disk[p].text # Absent THEN disk[p].text
  ELSE files[p].text

CalmOn(p) == \A a \in Actors : call[a].pc # "idle" => call[a].path # p
Calm == \A a \in Actors : call[a].pc = "idle"
MayCall(p) ==
  /\ clock < MaxClock
  /\ "samePath" \notin Environment => CalmOn(p)
  /\ run.pc # "idle" /\ "callsDuringRun" \notin Environment =>
       "callsElsewhere" \in Environment /\ p \notin run.paths
MayRun(ps) ==
  /\ run.pc = "idle"
  /\ "callsDuringRun" \notin Environment =>
       IF "callsElsewhere" \in Environment THEN \A p \in ps : CalmOn(p) ELSE Calm
MayRefresh ==
  /\ run.pc # "idle" => "refreshDuringRun" \in Environment
  /\ ~Calm => "refreshDuringCall" \in Environment

\* A row is left for each call in progress and for the refresh that ends a run.
EnoughRows(p) ==
  Cardinality({i \in Ids : rows[p][i].status = "free"}) >
    Cardinality({a \in Actors : call[a].pc # "idle"}) + (IF run.pc = "idle" THEN 0 ELSE 1)

-----------------------------------------------------------------------------
(* writeFile *)

\* What the write takes for the text it changes, and its mtime: the disk's; if
\* the disk has no such file the draft's; if there is none either, what the
\* last approved snapshot left; otherwise the file is new.
Based(p) ==
  IF disk[p].text # Absent THEN disk[p]
  ELSE IF files[p].text # Absent THEN files[p]
  ELSE [text |-> history[p], mtime |-> 0]

\* The old draft has conflict markers: this write resolves the conflict.
Resolving(p) == Based(p).mtime > 0 /\ files[p].text = Marked

\* captureModifyBaseline: the first edit of a pending cycle, or a resolution.
Captures(p, force) == force \/ mem[p] = None \/ baseline[p] = None

\* What the draft of a call that has read this text was made from.  An op without
\* a disk mtime takes that of its next call.
MadeFrom(p, text, anew) ==
  IF anew THEN {text}
  ELSE IF mem[p].mtime = 0 THEN origin[p] \cup {text}
  ELSE origin[p]

\* The write equals what it is based on: no row is left, and no baseline.
WriteNothing(a, p, t) ==
  /\ call[a].pc = "idle" /\ MayCall(p)
  /\ Based(p).text = t
  /\ disk[p].text # t => "sameText" \in Environment
  /\ RemoveByPath(p)
  /\ baseline' = IF mem[p] = None THEN baseline ELSE [baseline EXCEPT ![p] = None]
  /\ files' = IF Resolving(p) THEN [files EXCEPT ![p] = [text |-> t, mtime |-> clock + 1]] ELSE files
  /\ clock' = IF Resolving(p) THEN clock + 1 ELSE clock
  /\ draft' = [draft EXCEPT ![p] = IF disk[p].text = t THEN None ELSE t]
  /\ UNCHANGED <<disk, history, snaps, call, run, origin>>

\* Read, compare and capture the baseline.
WriteBegin(a, p, t) ==
  /\ call[a].pc = "idle" /\ MayCall(p) /\ EnoughRows(p)
  /\ LET base == Based(p)
         new == base.text = Absent
         force == ~new /\ Resolving(p)
         captures == ~new /\ Captures(p, force)
     IN  /\ base.text # t
         /\ call' = [call EXCEPT ![a] = [pc |-> "files", op |-> "write", path |-> p, text |-> t,
                                         new |-> new, mtime |-> base.mtime, force |-> force]]
         /\ baseline' = IF captures THEN [baseline EXCEPT ![p] = base.text] ELSE baseline
         /\ origin' = [origin EXCEPT ![p] = MadeFrom(p, base.text, mem[p] = None \/ force)]
  /\ UNCHANGED <<disk, files, rows, mem, history, snaps, clock, run, draft>>

WriteFiles(a) ==
  /\ call[a].pc = "files" /\ call[a].op = "write"
  /\ files' = [files EXCEPT ![call[a].path] = [text |-> call[a].text, mtime |-> clock + 1]]
  /\ clock' = clock + 1
  /\ call' = [call EXCEPT ![a].pc = "row"]
  /\ UNCHANGED <<disk, baseline, rows, mem, history, snaps, run, draft, origin>>

WriteRow(a) ==
  /\ call[a].pc = "row" /\ call[a].op = "write"
  /\ LET p == call[a].path
     IN  /\ Record(p, IF call[a].new THEN "create" ELSE TypeOfEdit(p), call[a].mtime, call[a].force)
         /\ draft' = [draft EXCEPT ![p] = call[a].text]
  /\ call' = [call EXCEPT ![a] = IdleCall]
  /\ UNCHANGED <<disk, files, baseline, history, snaps, clock, run, origin>>

-----------------------------------------------------------------------------
(* deleteFile *)

\* The caller has seen the file.  A created draft needs no baseline.
DeleteBegin(a, p) ==
  /\ call[a].pc = "idle" /\ MayCall(p) /\ EnoughRows(p)
  /\ {disk[p].text, files[p].text} # {Absent}
  /\ LET created == mem[p] # None /\ mem[p].type = "create"
         captures == ~created /\ disk[p].text # Absent /\ Captures(p, FALSE)
     IN  /\ baseline' = [baseline EXCEPT ![p] = IF created THEN None
                                                ELSE IF captures THEN disk[p].text ELSE @]
         /\ origin' = [origin EXCEPT ![p] = MadeFrom(p, disk[p].text, mem[p] = None)]
  /\ call' = [call EXCEPT ![a] = [pc |-> "files", op |-> "delete", path |-> p, mtime |-> disk[p].mtime]]
  /\ UNCHANGED <<disk, files, rows, mem, history, snaps, clock, run, draft>>

DeleteFiles(a) ==
  /\ call[a].pc = "files" /\ call[a].op = "delete"
  /\ files' = [files EXCEPT ![call[a].path] = Gone]
  /\ call' = [call EXCEPT ![a].pc = "row"]
  /\ UNCHANGED <<disk, baseline, rows, mem, history, snaps, clock, run, draft, origin>>

\* markForDeletion: a create and its delete cancel out.
DeleteRow(a) ==
  /\ call[a].pc = "row" /\ call[a].op = "delete"
  /\ LET p == call[a].path
     IN  IF mem[p] # None /\ mem[p].type = "create"
           THEN RemoveByPath(p) /\ draft' = [draft EXCEPT ![p] = None]
           ELSE Record(p, "delete", call[a].mtime, FALSE) /\ draft' = [draft EXCEPT ![p] = Absent]
  /\ call' = [call EXCEPT ![a] = IdleCall]
  /\ UNCHANGED <<disk, files, baseline, history, snaps, clock, run, origin>>

-----------------------------------------------------------------------------
(* discardPendingPath *)

\* The file is put back: a created one vanishes, an edited or deleted one is
\* restored from the disk, else from the baseline; without either an edit is
\* dropped and a delete leaves nothing to restore.
DiscardFiles(a, p) ==
  /\ call[a].pc = "idle" /\ MayCall(p)
  /\ mem[p] # None
  /\ LET from == IF mem[p].type = "delete" /\ baseline[p] = None THEN None
                 ELSE IF disk[p].text # Absent THEN disk[p].text ELSE baseline[p]
         restores == mem[p].type # "create" /\ from # None
     IN  /\ files' = IF restores THEN [files EXCEPT ![p] = [text |-> from, mtime |-> clock + 1]]
                     ELSE IF mem[p].type = "delete" THEN files
                     ELSE [files EXCEPT ![p] = Gone]
         /\ clock' = IF restores THEN clock + 1 ELSE clock
  /\ baseline' = [baseline EXCEPT ![p] = None]
  /\ call' = [call EXCEPT ![a] = [pc |-> "row", op |-> "discard", path |-> p]]
  /\ UNCHANGED <<disk, rows, mem, history, snaps, run, draft, origin>>

DiscardRow(a) ==
  /\ call[a].pc = "row" /\ call[a].op = "discard"
  /\ RemoveByPath(call[a].path)
  /\ draft' = [draft EXCEPT ![call[a].path] = None]
  /\ call' = [call EXCEPT ![a] = IdleCall]
  /\ UNCHANGED <<disk, files, baseline, history, snaps, clock, run, origin>>

-----------------------------------------------------------------------------
(* refreshPendingChanges of the workspace *)

\* What the scan of files/ makes of one loaded entry: a file whose mtime is not
\* the recorded one is re-added, a deleted one that is back becomes a create, an
\* edited one that is gone becomes a delete (a created one a discard).
Reconciled(p, e) ==
  LET there == files[p].text # Absent
      rs == rows[p]
      Upserted(type, mtime) == UpsertPendingOp(rs[e.id], type, mtime, FALSE)
      With(i, row, base) == [rows |-> [base EXCEPT ![i] = row],
                             mem |-> [id |-> i, type |-> row.type, mtime |-> row.mtime]]
  IN  IF e = None \/ (~there /\ e.type = "delete") \/ (there /\ e.type # "delete" /\ e.mtime = files[p].mtime)
        THEN [rows |-> rs, mem |-> e]
      ELSE IF there /\ e.type # "delete"
        THEN With(e.id, Upserted(e.type, e.mtime), rs)
      ELSE IF there
        THEN LET i == CHOOSE j \in Ids : rs[j].status = "free"
             IN  With(i, UpsertPendingOp(FreeRow, "create", files[p].mtime, FALSE), Discarded(rs))
      ELSE IF e.type = "create"
        THEN [rows |-> Discarded(rs), mem |-> None]
      ELSE With(e.id, Upserted("delete", 0), rs)

\* Reload, reconcile, clean up.  (EnoughRows has left a row.)
RefreshAll ==
  /\ \A p \in Paths : \E i \in Ids : rows[p][i].status = "free"
  /\ \E loaded \in Reloaded :
       LET result == [p \in Paths |-> Reconciled(p, loaded[p])]
           kept == [p \in Paths |-> result[p].mem]
       IN  /\ rows' = [p \in Paths |-> result[p].rows]
           /\ mem' = kept
           /\ baseline' = Cleaned(kept)

Refresh ==
  /\ MayRefresh
  /\ \A p \in Paths : EnoughRows(p)
  /\ RefreshAll
  /\ UNCHANGED <<disk, files, history, snaps, clock, call, run, draft, origin>>

-----------------------------------------------------------------------------
(* checkNativeConflict and materializeTextConflictMarkers *)

\* (Faulty: only the mtimes are compared.)
ConflictByMtime(p, e) == e.mtime > 0 /\ disk[p].text # Absent /\ disk[p].mtime > e.mtime
\* The disk is newer than what the op was based on, and says neither what the
\* draft says nor, for an edit or a delete, what the baseline says.
Conflict(p, e) ==
  /\ e.mtime > 0
  /\ disk[p].text # Absent
  /\ disk[p].mtime > e.mtime
  /\ e.type # "delete" => disk[p].text # files[p].text
  /\ e.type # "create" => disk[p].text # baseline[p]

Blocked(p, e) == (e.type # "delete" /\ files[p].text = Marked) \/ Conflict(p, e)

\* detectConflicts over the map, and the drafts with both versions marked.
InConflict(ps) == {p \in ps : mem[p] # None /\ Blocked(p, mem[p])}
\* (Faulty: the disk's version replaces the draft.)
TakenFromDisk(ps) ==
  [p \in Paths |-> IF p \in ps /\ files[p].text \notin {Absent, Marked} /\ disk[p].text # Absent
                     THEN [text |-> disk[p].text, mtime |-> clock + 1] ELSE files[p]]
Materialized(ps) ==
  [p \in Paths |-> IF p \in ps /\ files[p].text \notin {Absent, Marked} /\ disk[p].text # Absent
                     THEN [text |-> Marked, mtime |-> clock + 1] ELSE files[p]]

\* detectSyncConflicts, called by the panel and by tools.
DetectConflicts ==
  /\ MayRun(Paths) /\ clock < MaxClock
  /\ files # Materialized(InConflict(Paths))
  /\ files' = Materialized(InConflict(Paths))
  /\ clock' = clock + 1
  /\ UNCHANGED <<disk, baseline, rows, mem, history, snaps, call, run, draft, origin>>

-----------------------------------------------------------------------------
(* The runs: how each kind starts, and the approval. *)

NewRun(pc, kind, ps, force, snap) ==
  [pc |-> pc, kind |-> kind, paths |-> ps, force |-> force, snap |-> snap,
   forced |-> ps = force, todo |-> {}, done |-> {}, failed |-> {}, conflicts |-> {}, cur |-> None]

Begin(r) == /\ MayRun(r.paths) /\ clock < MaxClock
            /\ \A p \in Paths : EnoughRows(p)
            /\ \E s \in SnapIds : snaps[s] = "none"
            /\ r.kind \in Kinds
            /\ run' = r
            /\ UNCHANGED <<disk, files, baseline, rows, mem, history, snaps, clock, call, draft, origin>>

Listed == {p \in Paths : mem[p] # None}

\* The user picks paths in the panel, and those whose conflict to overwrite.
StartReview(ps, force) == ps \subseteq Listed /\ Begin(NewRun("approve", "review", ps, force, 0))

\* (Faulty: whatever the agent's run has changed.)
StartAutoAll(ps) == ps \subseteq Listed /\ Begin(NewRun("detect", "auto", ps, {}, 0))
\* The agent's run has ended: what it changed and is still pending, no deletes.
StartAuto(ps) ==
  /\ ps \subseteq {p \in Listed : mem[p].type # "delete"}
  /\ Begin(NewRun("detect", "auto", ps, {}, 0))

\* An authorized tool call, deletes included.
StartTool(ps) == ps \subseteq Listed /\ Begin(NewRun("approve", "tool", ps, {}, 0))

\* The user accepts to sync a snapshot that never was: every path of it.
StartUnsynced(s) ==
  /\ snaps[s] = "approved"
  /\ LET ps == {p \in Paths : \E i \in Ids : rows[p][i].status # "free" /\ rows[p][i].snap = s}
     IN  ps # {} /\ Begin(NewRun("sync", "unsynced", ps, {}, s))

\* Auto-apply looks for conflicts first and leaves the batch alone if it finds one.
Detect ==
  /\ run.pc = "detect"
  /\ LET found == InConflict(run.paths)
     IN  IF found = {}
           THEN /\ run' = [run EXCEPT !.pc = "approve"]
                /\ UNCHANGED <<files, baseline, rows, mem, clock>>
           ELSE /\ files' = Materialized(found)
                /\ clock' = clock + 1
                /\ run' = [run EXCEPT !.pc = "refresh"]
                /\ UNCHANGED <<baseline, rows, mem>>
  /\ UNCHANGED <<disk, history, snaps, call, draft, origin>>

\* createApprovedSnapshotForPaths: the pending rows of the paths, reviewed or
\* not, move to a new approved snapshot, which keeps what the files say.
Approve ==
  /\ run.pc = "approve"
  /\ LET taken == {p \in run.paths : Pending(p) # {}}
     IN  IF taken = {}
           THEN /\ run' = [run EXCEPT !.pc = IF run.kind = "auto" THEN "refresh" ELSE "sync"]
                /\ UNCHANGED <<rows, snaps, history>>
           ELSE \E s \in SnapIds :
                  /\ snaps[s] = "none" /\ \A r \in 1 .. s - 1 : snaps[r] # "none"
                  /\ snaps' = [snaps EXCEPT ![s] = "approved"]
                  /\ rows' = [p \in Paths |-> [i \in Ids |->
                                IF p \in taken /\ i \in Pending(p)
                                  THEN [rows[p][i] EXCEPT !.approved = TRUE, !.snap = s] ELSE rows[p][i]]]
                  /\ history' = [p \in Paths |->
                                   IF p \notin taken THEN history[p]
                                   ELSE IF \E i \in Pending(p) : rows[p][i].type = "delete" THEN Absent
                                   ELSE Read(p)]
                  /\ run' = [run EXCEPT !.pc = "sync", !.snap = s]
  /\ UNCHANGED <<disk, files, baseline, mem, clock, call, draft, origin>>

-----------------------------------------------------------------------------
(* syncToDisk and PendingManager.sync *)

\* (Faulty: the list of paths is ignored.)
PassAll == Paths
\* The paths whose conflict is to be overwritten are synced after the others.
PassPaths == IF run.forced THEN run.force ELSE run.paths \ run.force

\* getSyncCandidates: the map as it is when the sync begins.
SyncBegin ==
  /\ run.pc = "sync"
  /\ run' = [run EXCEPT !.pc = "next", !.todo = {[path |-> p, op |-> mem[p]] : p \in PassPaths \cap Listed}]
  /\ UNCHANGED <<disk, files, baseline, rows, mem, history, snaps, clock, call, draft, origin>>

\* 'No authorized local folder': it throws after the approval.  Auto-apply
\* still refreshes; the others do not.
SyncThrows ==
  /\ "revoked" \in Environment
  /\ run.pc = "sync"
  /\ run' = IF run.kind = "auto" THEN [run EXCEPT !.pc = "refresh"] ELSE IdleRun
  /\ UNCHANGED <<disk, files, baseline, rows, mem, history, snaps, clock, call, draft, origin>>

\* A path that was not written.  Faulty: the step is not ended; the path is tried
\* again.
FailedMidway(c) == [run EXCEPT !.todo = @ \ {c}, !.failed = @ \cup {c.path}, !.cur = None]
FailedAgain(c) == [run EXCEPT !.pc = "next", !.failed = @ \cup {c.path}, !.cur = None]
Failed(c) == [run EXCEPT !.pc = "next", !.todo = @ \ {c}, !.failed = @ \cup {c.path}, !.cur = None]

\* Markers or a conflict: the row goes back to review.
SyncRefuse(c) ==
  /\ run.pc = "next" /\ c \in run.todo
  /\ (c.op.type # "delete" /\ files[c.path].text = Marked)
       \/ (~run.forced /\ Conflict(c.path, c.op))
  /\ KeepOpPending(c.path, c.op.id)
  /\ run' = [Failed(c) EXCEPT !.conflicts = @ \cup {c.path}]
  /\ UNCHANGED <<disk, files, baseline, mem, history, snaps, clock, call, draft, origin>>

\* An empty or missing draft counts as no content.
SyncNoContent(c) ==
  /\ run.pc = "next" /\ c \in run.todo
  /\ c.op.type # "delete" /\ files[c.path].text \in {Absent, EmptyText}
  /\ ~run.forced => ~Conflict(c.path, c.op)
  /\ KeepOpPending(c.path, c.op.id)
  /\ run' = Failed(c)
  /\ UNCHANGED <<disk, files, baseline, mem, history, snaps, clock, call, draft, origin>>

\* No conflict: the draft is read.
SyncRead(c) ==
  /\ run.pc = "next" /\ c \in run.todo
  /\ c.op.type # "delete" => files[c.path].text \notin {Absent, EmptyText, Marked}
  /\ ~run.forced => ~Conflict(c.path, c.op)
  /\ run' = [run EXCEPT !.pc = "put",
                        !.cur = [item |-> c, text |-> IF c.op.type = "delete" THEN Absent ELSE files[c.path].text]]
  /\ UNCHANGED <<disk, files, baseline, rows, mem, history, snaps, clock, call, draft, origin>>

\* The disk is written, or the file removed (one that is gone already is fine).
SyncPut ==
  /\ run.pc = "put"
  /\ disk' = [disk EXCEPT ![run.cur.item.path] =
                IF run.cur.text = Absent THEN Gone ELSE [text |-> run.cur.text, mtime |-> clock + 1]]
  /\ clock' = IF run.cur.text = Absent THEN clock ELSE clock + 1
  /\ run' = [run EXCEPT !.pc = "mark"]
  /\ draft' = [draft EXCEPT ![run.cur.item.path] = IF @ = run.cur.text THEN None ELSE @]
  /\ UNCHANGED <<files, baseline, rows, mem, history, snaps, call, origin>>

\* The write throws: back to review - unless the error says NotFound and the
\* file was new, which counts as success.
SyncPutFails ==
  /\ run.pc = "put"
  /\ \/ /\ "io" \in Environment
        /\ KeepOpPending(run.cur.item.path, run.cur.item.op.id)
        /\ run' = Failed(run.cur.item)
     \/ /\ "notFound" \in Environment /\ run.cur.text # Absent
        /\ IF run.cur.item.op.type = "create"
             THEN rows' = rows /\ run' = [run EXCEPT !.pc = "mark"]
             ELSE KeepOpPending(run.cur.item.path, run.cur.item.op.id) /\ run' = Failed(run.cur.item)
  /\ UNCHANGED <<disk, files, baseline, mem, history, snaps, clock, call, draft, origin>>

\* markOpSynced by id, then the path leaves the map.
SyncMark ==
  /\ run.pc = "mark"
  /\ LET c == run.cur.item
     IN  /\ MarkOpSynced(c.path, c.op.id)
         /\ mem' = [mem EXCEPT ![c.path] = None]
         /\ run' = [run EXCEPT !.pc = "next", !.todo = @ \ {c}, !.done = @ \cup {c.path}, !.cur = None]
  /\ UNCHANGED <<disk, files, baseline, history, snaps, clock, call, draft, origin>>

\* The end of syncToDisk; the panel calls it again for the paths to overwrite.
SyncDone ==
  /\ run.pc = "next" /\ run.todo = {}
  /\ baseline' = Cleaned(mem)
  /\ run' = IF run.forced \/ run.force = {} THEN [run EXCEPT !.pc = "finish"]
            ELSE [run EXCEPT !.pc = "sync", !.forced = TRUE]
  /\ UNCHANGED <<disk, files, rows, mem, history, snaps, clock, call, draft, origin>>

\* Whether the caller marks the snapshot as synced.  Faulty: always.
MarksEvery == TRUE
MarksSnapshot ==
  CASE run.kind \in {"review", "auto"} -> run.done = run.paths /\ run.failed = {}
    [] run.kind = "tool" -> run.paths # run.conflicts
    [] run.kind = "unsynced" -> run.failed = {} \/ run.done # {}

\* The caller's last step before its refresh; the panel returns early when
\* something was not written.
Finish ==
  /\ run.pc = "finish"
  /\ snaps' = IF run.snap # 0 /\ MarksSnapshot THEN [snaps EXCEPT ![run.snap] = "synced"] ELSE snaps
  /\ run' = IF run.kind = "review" /\ ~MarksSnapshot THEN IdleRun ELSE [run EXCEPT !.pc = "refresh"]
  /\ UNCHANGED <<disk, files, baseline, rows, mem, history, clock, call, draft, origin>>

FinalRefresh ==
  /\ run.pc = "refresh"
  /\ RefreshAll
  /\ run' = IdleRun
  /\ UNCHANGED <<disk, files, history, snaps, clock, call, draft, origin>>

-----------------------------------------------------------------------------
(* The rest of the world *)

\* Another program creates, changes or removes a file.
ExternalEdit(p, t) ==
  /\ clock < MaxClock
  /\ run.pc \in {"put", "mark"} => "editDuringSync" \in Environment
  /\ t # disk[p].text
  /\ disk' = [disk EXCEPT ![p] = IF t = Absent THEN Gone ELSE [text |-> t, mtime |-> clock + 1]]
  /\ clock' = clock + 1
  /\ UNCHANGED <<files, baseline, rows, mem, history, snaps, call, run, draft, origin>>

\* The page reloads: files and ledger survive, calls and runs do not, the map
\* is loaded anew.  A call that had not returned promised nothing, and may have
\* undone what an earlier one had left.
Crash ==
  /\ "crash" \in Environment
  /\ mem' \in Reloaded
  /\ call' = [a \in Actors |-> IdleCall]
  /\ run' = IdleRun
  /\ <<mem', call', run'>> # <<mem, call, run>>
  /\ draft' = [p \in Paths |-> IF CalmOn(p) THEN draft[p] ELSE None]
  /\ UNCHANGED <<disk, files, baseline, rows, history, snaps, clock, origin>>

CallStep(a) == \/ WriteFiles(a) \/ WriteRow(a)
               \/ DeleteFiles(a) \/ DeleteRow(a)
               \/ DiscardRow(a)

RunStep == \/ Detect \/ Approve
           \/ SyncBegin \/ SyncThrows
           \/ \E c \in run.todo : SyncRefuse(c) \/ SyncNoContent(c) \/ SyncRead(c)
           \/ SyncPut \/ SyncPutFails \/ SyncMark \/ SyncDone
           \/ Finish \/ FinalRefresh

Next == \/ \E a \in Actors :
             \/ CallStep(a)
             \/ \E p \in Paths : \/ DeleteBegin(a, p) \/ DiscardFiles(a, p)
                                 \/ \E t \in Texts : WriteNothing(a, p, t) \/ WriteBegin(a, p, t)
        \/ Refresh \/ DetectConflicts
        \/ \E ps \in SUBSET Paths \ {{}} :
             \/ \E force \in SUBSET ps : StartReview(ps, force)
             \/ StartAuto(ps) \/ StartTool(ps)
        \/ \E s \in SnapIds : StartUnsynced(s)
        \/ (run.pc # "idle" /\ RunStep)
        \/ \E p \in Paths, t \in Texts \cup {Absent} : ExternalEdit(p, t)
        \/ Crash

Spec == Init /\ [][Next]_vars /\ WF_vars(run.pc # "idle" /\ RunStep)

-----------------------------------------------------------------------------
(* Properties *)

TextOrAbsent == Texts \cup {Marked, Absent}
FileRecord == [text : TextOrAbsent, mtime : Nat]
Row == [type : OpTypes, mtime : Nat, status : {"free", "pending", "discarded", "synced"},
        approved : BOOLEAN, snap : 0 .. MaxSnaps]
Op == [id : Ids, type : OpTypes, mtime : Nat]

\* A path without an op is told from every path that has one.
ASSUME NoneIsNoOp == None \notin Op

WriteCall == [pc : {"files", "row"}, op : {"write"}, path : Paths, text : Texts,
              new : BOOLEAN, mtime : Nat, force : BOOLEAN]
DeleteCall == [pc : {"files", "row"}, op : {"delete"}, path : Paths, mtime : Nat]
DiscardCall == [pc : {"row"}, op : {"discard"}, path : Paths]
Item == [path : Paths, op : Op]
Current == [item : Item, text : TextOrAbsent]
Run == [pc : {"detect", "approve", "sync", "next", "put", "mark", "finish", "refresh"},
        kind : RunKinds, paths : SUBSET Paths, force : SUBSET Paths, snap : 0 .. MaxSnaps,
        forced : BOOLEAN, todo : SUBSET Item, done : SUBSET Paths, failed : SUBSET Paths, conflicts : SUBSET Paths,
        cur : {None} \cup Current]

\* What every variable may hold; and a write in progress has a current item.
TypeOK ==
  /\ disk \in [Paths -> FileRecord] /\ files \in [Paths -> FileRecord]
  /\ baseline \in [Paths -> TextOrAbsent \cup {None}]
  /\ rows \in [Paths -> [Ids -> Row]]
  /\ mem \in [Paths -> Op \cup {None}]
  /\ history \in [Paths -> TextOrAbsent]
  /\ snaps \in [SnapIds -> {"none", "approved", "synced"}]
  /\ clock \in Nat
  /\ call \in [Actors -> {IdleCall} \cup WriteCall \cup DeleteCall \cup DiscardCall]
  /\ run \in {IdleRun} \cup Run
  /\ run.pc \in {"put", "mark"} => run.cur \in Current
  /\ draft \in [Paths -> Texts \cup {None, Absent}]
  /\ origin \in [Paths -> SUBSET TextOrAbsent]

Quiet == Calm /\ run.pc = "idle"

\* The map mirrors the ledger: between calls and runs it holds exactly the rows
\* the review list is made of, with their ids, types and mtimes.
MapMirrorsLedger ==
  Quiet => \A p \in Paths : IF Visible(p) = {} THEN mem[p] = None
                            ELSE \E i \in Visible(p) : mem[p] = Entry(p, i)

\* Between runs no pending row is approved: an approved one is in no list the
\* user or a tool can act on.
NoStrandedApproval ==
  run.pc = "idle" => \A p \in Paths : Pending(p) = Visible(p)

\* What an acknowledged call left for the disk stays in the ledger, with its
\* text in files/ (or in conflict markers), until it is on the disk or discarded.
DraftTracked ==
  \A p \in Paths : draft[p] # None /\ CalmOn(p) =>
    \/ \E i \in Pending(p) : (rows[p][i].type = "delete") <=> (draft[p] = Absent)
    \/ disk[p].text = draft[p]
DraftStored ==
  \A p \in Paths : draft[p] # None /\ CalmOn(p) => files[p].text \in {draft[p], Marked}

\* Nobody else has changed the file: it is not on the disk, or all that the draft
\* was made from is what the disk says.
Undisturbed(p) == disk[p].text = Absent \/ origin[p] \ {Absent} = {disk[p].text}

\* An agent reads what it wrote, as long as nobody else changed the file.
ReadYourWrites ==
  Quiet => \A p \in Paths : draft[p] \in Texts /\ Undisturbed(p) => Read(p) \in {draft[p], Marked}

\* A change of a file the disk had keeps the text it was made from, which is what
\* a discard restores and what a conflict is decided by.
BaselineKept ==
  \A p \in Paths : mem[p] # None /\ mem[p].type # "create" /\ mem[p].mtime > 0 /\ CalmOn(p)
                    => baseline[p] # None

\* A conflict is another program's doing: a disk that says just what an edit or a
\* delete was made from is no conflict, whatever its mtime.
NoFalseConflict ==
  Quiet => \A p \in Paths : mem[p] # None /\ mem[p].type # "create" /\ Conflict(p, mem[p])
                             => ~Undisturbed(p)

\* A sync that was not told to overwrite puts a draft only over what the draft
\* was made from, or over nothing, or over the same text (a draft without a disk
\* mtime has nothing to be compared with).
NoSilentOverwrite ==
  [][run.pc = "put" /\ run'.pc = "mark" =>
       LET p == run.cur.item.path
       IN  \/ p \in run.force \/ run.cur.item.op.mtime = 0
           \/ disk[p].text \in origin[p] \cup {Absent, run.cur.text}]_vars

\* A snapshot that is marked as synced leaves nothing to sync.
SyncedSnapshotSettled ==
  \A s \in SnapIds : snaps[s] = "synced" =>
    \A p \in Paths : \A i \in Pending(p) : rows[p][i].snap # s

\* The automatic run after the agent's never removes a file from the disk.
AutoApplyNeverDeletes ==
  [][run.pc = "put" /\ run'.pc = "mark" /\ run.kind = "auto" =>
       \A p \in Paths : disk'[p].text = Absent => disk[p].text = Absent]_vars

\* Every run ends.
RunEnds == run.pc # "idle" ~> run.pc = "idle"

=============================================================================
