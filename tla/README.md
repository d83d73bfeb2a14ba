# A TLA+ verification project for EO2Weave

EO2Weave is a local-first workbench in which AI agents read and change the files
of a project. The agent never works on the user's disk: it works on a private
overlay in the browser's origin-private file system (OPFS), and what it changed
waits in a ledger until the user, or a policy, lets it through to the disk. All
of this runs in one page (plus a service worker, SQLite in a worker and an
optional native host), as JavaScript that interleaves at every `await`, next to
an editor, a shell or a `git` that change the same disk behind its back.

This directory holds TLA+ modules of that program, configurations with which TLC
checks them on small instances, and theorems that the TLA+ proof system checks.
Paths below are relative to the repository; every definition that models code
names its lines in `PROJECT.json` under `map`.

## 1. The system

| Component | State it keeps | Operations | What makes it correct |
|---|---|---|---|
| Overlay file operations, `web/opfs/workspace/workspace-file-ops.ts`, `workspace-files-dir.ts` | `files/` (drafts) and `.baseline/` (what a draft was made from) in OPFS, an index of `files/` | read, write, delete, ignored-path delete, restore | an acknowledged write is read back and tracked until it is delivered or discarded |
| Pending manager, `web/opfs/workspace/workspace-pending.ts` | an in-memory map path -> pending op, a mirror of ledger rows | add, mark for deletion, remove, detect conflicts, sync | the mirror agrees with the ledger; a sync overwrites only what the draft was made from |
| Overlay ledger, `web/sqlite/repositories/fs-overlay.repository.ts` | SQLite tables `fs_ops`, `fs_changesets`, `fs_snapshot_files`, the current-snapshot pointer | upsert, discard, approve, mark synced, keep pending, roll back, prune, clear | no operation that still has to reach the disk is hidden or deleted |
| Workspace runtime, `web/opfs/workspace/workspace-runtime.ts` | composes the three above, per conversation | sync to disk, discard, approve, checkpoint, roll back, rebind baselines, clear | several ledger and file steps behave as one operation |
| Change detection, `web/opfs/workspace/workspace-change-detection.ts` | none of its own | refresh: rescan `files/` against the ledger; register what Python changed | the ledger follows files that appear or vanish under it |
| Disk access, `web/opfs/native-disk/*` | the user's directories (FS Access handles or native-host roots) | read, stat, write, delete | errors are told apart: a missing file is not an I/O error |
| Multi-root routing, `web/opfs/workspace/workspace-multiroot.ts`, `pending-disk-eligibility.ts` | root handles and priorities | resolve a path to a root, filter paths that may be synced | every path goes to one root |
| Auto-apply, `web/agent/auto-apply-run-changes.ts` | none | after an agent run: filter, detect conflicts, approve, sync | it never deletes, never overwrites, leaves failures reviewable |
| Review panel, sync and checkpoint tools, `web/components/sync/PendingSyncPanel.tsx`, `web/agent/tools/sync-to-disk.tool.ts`, `changeset.tool.ts` | UI state | approve and sync selected paths; create and roll back checkpoints | a checkpoint restores what it promises |
| Workspace store, `web/store/workspace.store.ts` | active workspace, switching lock, the list of pending changes on display, unsynced snapshots | switch, refresh (single-flight), sync unsynced snapshots | what is displayed belongs to the active workspace and is current in the end |
| Snapshot and backup archives, `web/opfs/snapshot`, `web/opfs/backup.ts` | archive files | export, import, restore | a restore is all or nothing |
| Agent loop, conversation runtime and store, `web/agent/loop`, `web/store/conversation*.ts` | messages, run registry, streaming queues, abort controllers | start, stream, steer, abort, persist | one run per conversation; an aborted run writes nothing afterwards |
| Subagents, `web/agent/subagent/runtime.ts` | tasks in memory and a row for each, queues of messages, execution slots | spawn, message, resume, stop, time out, dispose, hydrate | limits hold, every task reaches an end state and stays there, every call is answered |
| Flow engine, `web/agent/flow/engine.ts`, behaviour trees, `packages/behavior-tree` | run state of a graph of steps | start, step, retry, cancel | each step runs after what it depends on |
| Scheduler, `web/services/schedule-*.ts` | schedules and run logs in OPFS, the set of running schedules | heartbeat, trigger, run, note missed runs | a due schedule runs once |
| Tool authorization, `web/store/tool-auth.store.ts`, `session-allow.store.ts`, `web/agent/policy-engine.ts` | queue of requests, the one on display, grants of each conversation | request, approve, deny, abort, remember, clear | a call acts only on its own approval; a grant is what the user chose, where the user chose it |
| Questions to the user, `web/store/pending-question.store.ts` | pending questions | ask, answer, cancel | one answer per question |
| Offline queue, `web/store/offline-queue.store.ts` | queued operations (their delivery is simulated) | enqueue, drain, retry | nothing is lost or sent twice |
| Folder access, `web/store/folder-access.store.ts`, `web/native-fs` | roots, handles, permission state | request, hydrate, release | one root per name; no use of a released handle |
| Storage start-up and reset, `web/storage/*`, SQLite engine, `web/sqlite/*` | database connection, worker, reset marker | init, recover, reset, vacuum | one connection; a reset leaves no half-cleared store |
| MCP, `web/mcp/*`, `web/services/mcp-client.service.ts` | server sessions | connect, call, reconnect, cancel | a reply reaches its own request |
| External tool bridge, `web/agent/external-tool-bridge.ts` | pending remote calls | call, cancel, time out | one answer per call |
| Skills import, `web/skills/user-skills-scanner.ts` | import runs with rollback records | import, recover | a crashed import is finished or undone |
| Browser extension, `browser-extension/entrypoints/webmcp/*` | package lock, registry | install, update, remove | no half-installed package is callable |
| Native host, `browser-extension/native-host/src/*` | process registry, exec policy | spawn, poll, kill | every process is reaped |
| User interface, i18n, docs, skill store, deployment | - | - | - |

How they interact on the path that matters most. A tool call of the agent
(`write`, `edit`, `delete`) goes through the workspace runtime to the overlay
file operations: read the disk, decide whether the text really differs, keep a
baseline, write `files/`, record a row in the ledger and in the pending map. A
refresh rescans and reloads the map. Somebody - the user in the review panel,
auto-apply at the end of a run, the `sync_to_disk` tool, or the notice about
unsynced snapshots - approves paths (rows move from the draft changeset to an
`approved` snapshot) and syncs them: for each path check for a conflict, write
the disk, mark the row synced, record the item, drop it from the map. None of
these steps is a transaction, none of them holds a lock, and
`web/lib/sync-guard.ts` is a set of no-ops; what protects the user's work is the
order of the steps and the checks between them. That is what the models are
about.


Behaviours that are hard to test, at the lines where they bite, are listed under
`hazards` in `PROJECT.json`, each with the properties that watch it or the reason
why none does yet. The main ones: the disk changes between a check and the write
that relies on it; the map, the ledger, `files/` and `.baseline/` are four stores
that every operation updates one after the other; rows are addressed by id after
awaits in which they may have been re-used; refreshes reload the map while a sync
walks over an older copy of it; a page reload cuts any of this in two.

## 2. Modules

| Module | What it is |
|---|---|
| `WorkspaceOverlay` | drafts, ledger, pending map, disk and the four ways to sync, for one workspace and one root |
| `WorkspaceOverlayProofs` | its types, and what auto-apply never does |
| `OverlayLedgerProofs` | theorems about ledger, map, approvals and snapshots |
| `OverlayDraftProofs` | theorems about drafts, baselines, conflicts and what a sync overwrites |
| `MCOverlay` | its instances for TLC, with the symmetry of paths, texts and callers |
| `WorkspaceSwitch` | switching the active workspace and the single-flight refresh of the store |
| `WorkspaceSwitchProofs` | theorems about it |
| `MCSwitch` | its instances for TLC |
| `SubagentRuntime` | the tasks of the sub-agent runtime: memory, rows, queues, processors, slots |
| `ExecutionSlots` | what the runtime promises about its execution slots, on its own |
| `SubagentProofs` | theorems about the tasks, and the refinement of `ExecutionSlots` |
| `MCSubagent` | its instances for TLC |
| `ToolAuthorization` | who lets a tool call act: queue, modal, grants, aborts, and the flush of drafts |
| `AuthorizationProofs` | theorems about it |
| `MCAuthorization` | its instance for TLC |
| `ConversationRun` | the runs of one conversation: claim, lock, epochs, loop registry, queue, hand-offs, Stop, compaction |
| `ConversationProofs` | theorems about them |
| `MCConversation` | its instance for TLC |
| `SequenceFilter` | `Array.prototype.filter`, for the queues of requests and of messages |
| `SequenceFilterProofs` | what it keeps, in which order and how often |

The five specifications do not share state: `WorkspaceSwitch` sees the ledger of a
workspace as a version number, `WorkspaceOverlay` sees a store that refreshes now
and then, `ToolAuthorization` sees of the overlay only what kind of change is
pending at a path, and `SubagentRuntime` and `ConversationRun` see an agent loop as
something that returns, throws or is stopped. A definition introduced by *Faulty* is used nowhere. It is a variant of
its neighbour, with the kind of slip a maintainer could make, and `PROJECT.json`
(`mutants`) says which property notices it.

### WorkspaceOverlay

| Variable | In the code |
|---|---|
| `disk` | the files of the attached directory: text and mtime |
| `files` | `files/` in OPFS: text and mtime of each draft |
| `baseline` | `.baseline/` in OPFS: what the first edit of a pending cycle was made from |
| `rows` | table `fs_ops`: type, mtime, status, whether its changeset is approved, which snapshot |
| `mem` | `PendingManager.pendingChanges` |
| `history` | after-content in `fs_snapshot_files` of the latest approved snapshot |
| `snaps` | `fs_changesets` of status `approved`, with `synced_at` set or not |
| `clock` | the time both file systems take mtimes from |
| `call` | for each caller, the write, delete or discard it is in the middle of, with the local variables that survive its awaits |
| `run` | the approval and sync under way: local variables of its caller, of `syncToDisk` and of `PendingManager.sync` |
| `draft`, `origin` | not in the code: what the last acknowledged call left for the disk, and the texts that draft was made from. Only properties read them |

`origin` is a set, because a path may have a second source: a draft written over what an
approved snapshot says of a file the disk does not have yet keeps no mtime, and when
another program creates the file, the next write takes that file's mtime but not its
text, since a baseline is there already. What the draft was made from is then both.

Texts are model values. `Marked` stands for any text with conflict markers,
`EmptyText` for the empty file (which `sync` takes for a missing one),
`Absent` for no file. Mtimes are compared by the code, so they are numbers taken
from one clock; two writes never share an mtime.

Calls. `writeFile` is `WriteNothing` (nothing differs, so the pending record is
cancelled) or `WriteBegin` (read, compare, capture the baseline), `WriteFiles`,
`WriteRow`; `deleteFile` and `discardPendingPath` are cut the same way. The cuts
are where a reload leaves a different state behind, or where another actor would
see one; awaits between which nothing shared is read or written are not cuts.

Runs. `StartReview` (the panel, with the paths whose conflict is to be
overwritten synced in a second pass), `StartAuto` (after an agent's run: no
deletes, conflict check first), `StartTool` (`sync_to_disk`) and `StartUnsynced`
(snapshots approved earlier and never synced) differ in what they approve, in
what they do when something fails and in when they mark the snapshot as synced
(`MarksSnapshot`). In between they share `Approve`, `SyncBegin` (the batch is
copied from the map), for each item `SyncRefuse`, `SyncNoContent` or `SyncRead`
and then `SyncPut` or `SyncPutFails` and `SyncMark`, then `SyncDone` (baselines
cleaned up), `Finish` and `FinalRefresh`. `SyncThrows` is the sync that finds no
authorized directory after the approval has been committed.

The rest. `Refresh` reloads the map and reconciles it with `files/`;
`DetectConflicts` writes markers into drafts in conflict; `ExternalEdit` is
another program; `Crash` is a reload of the page, after which files, ledger and
disk are as they were, calls and runs are gone and the map is loaded anew.

What is one step though the code awaits in it: `RefreshAll` (its scan and its
writes), `WriteNothing`, `Approve` (one SQLite transaction plus the reads for the
snapshot's after-content), `DetectConflicts`. Splitting the refresh is the next
item of the plan.

Two constants say what may happen besides. `Kinds` picks the ways to sync.
`Environment` picks the disturbances: calls during a run, on any path or only on
others; two calls on one path; refreshes during calls or runs; edits between the
conflict check and the write of a sync; reloads; revoked directories; disk
writes that fail; a write that repeats its draft. Nothing in the code forbids
any of them: they are separate because each property is about some of them, and
section 4 says what happens under the others.

### WorkspaceSwitch

`active`, `lock`, `error`, `shown`, `flight` and `rerun` are `activeWorkspaceId`,
`switchingWorkspaceId`, the error message, `pendingChanges` (by workspace and
version), `refreshPendingChangesInFlight` and `refreshPendingChangesNeedsRerun`.
`switch` holds each caller's place in `switchWorkspace`: waiting for the lock,
preparing, activated, refreshing, done. `Activate` with `keepLock` is the path of
a new or recreated workspace, which keeps the lock until it returns. `agent` is a
tool that changes a ledger and asks for a refresh. With `Faults`, awaited calls
throw and the 30 s timer of a waiter may fire. `failed` is not in the code: it is set
once one of these has happened. A switch that failed may leave an older list on
display with an error beside it, so `SettledViewIsActive` and `AskedIsShown` speak of
what holds until then; the other properties hold throughout.

### SubagentRuntime

| Variable | In the code |
|---|---|
| `task` | `this.tasks`: status, length of the queue, `stopRequested`, whether `error` is set, the timer, and whether the running loop has been cancelled |
| `pc` | where `processQueue` of the task is, "idle" when `processing` has no promise |
| `row`, `ahead` | the row in `subagent_tasks`, and whether its `updated_at` is newer than the memory's |
| `cas` | transitions asked of the row whose answers have not come yet |
| `stop`, `caller` | the call of `stop`, and the `spawn` or `batchSpawn` that waits for the task |
| `active`, `waiters` | `activeExecutionSlots`, `executionWaiters` |
| `open` | not disposed |
| `calls` | calls still to be made: a bound |

A transition of status is a compare-and-swap on the row. The SQLite worker serves
calls in their order, so the swap happens when the call is made (`Transition`);
its answer changes the memory in a later step (`RunStarted`, `RunStored`,
`StopAnswered`, `TimedOut`), and answers of one task come in order. `Saved` is the
write of all tasks, which leaves alone a row that is newer: `ahead` stands for
that comparison, and `late` for a transition made before such a write.
`lifecycle_version` is only compared with what it was when the run started, so it
is the flag `sameLife`. Spawning is `Create`, `Start` and, as everything that wakes a
task, `EnsureProcessing`; the processor runs from `AcquireSlot` through
`TakeMessage`, `StartRun`, `EnterLoop`, `RunEnds` and `RunStored` to `Leave`, which
hands its slot to the first that waits. `Restart` is a reload: memory is read from
the rows, and what was running is failed. `Dispose` is the end of the
conversation's runtime.

`ExecutionSlots` says what this comes to for the slots: holders and a line.
`SubagentRuntime` implements it with the processors in `Holding` for holders and
`waiters` for the line (`SlotsServed`).

A message that meets a full queue waits in the polling loop of `enqueueWithPolicy`
(`runtime.ts:1271`; the default policy, `reject`, takes that branch). Here one that gets in
is a `Send` that comes when there is room, and one whose wait ends changes nothing.
The `finally` that forgets the processor is one step with the release of its slot.

Left out: names and aliases, transcripts, notifications, and transactions that fail;
in particular a transition for which SQLite is not there, which the memory makes
without a compare-and-swap (`runtime.ts:1209`).

### ToolAuthorization

| Variable | In the code |
|---|---|
| `kind` | what tool each call is of: a command, a page action, an external tool in act or plan mode, `sync_to_disk` |
| `pc`, `local` | where its executor is, and what it holds across the modal: the memory key, the deletions it listed, the paths it picked, the answer |
| `queue`, `shown` | `tool-auth.store`: `queue` and `pending` |
| `allowed` | `session-allow.store`: keys remembered for each conversation |
| `aborted`, `deleted` | runs whose signal is aborted, conversations that are gone |
| `missed` | not in the code: runs a deletion of their conversation did not stop. Only properties read it |
| `drafts` | what is pending at a path: nothing, a modification or a deletion |
| `lane` | `execExecutionTails`: the commands in line for their root |
| `said`, `chosen` | not in the code: what the user clicked. Only properties read them |

A call begins, asks the policy and is let pass (`Pass`), turned down (`TurnedDown`) or
put in the queue (`Ask`). Yolo, trusted sources and the host's policy are not told
apart: `Pass` may happen whenever a grant may exist, and `Granted` only rules out
asking. `Settle` is the one function behind every button and every abort. Its
promise resolves at once, and the executor takes the answer in a later microtask
(`TakeAnswer`), where each kind of call looks at its signal in its own way.
Microtasks are drained before the next event, so clicks, deletions of
conversations and the settings panel wait until no answer is left to be taken
(`Quiet`); an abort does not wait, since code that runs in a microtask aborts too.
Then a command stands in line (`RunCommand`, `Finish`), and a sync picks its paths
in one step (`GoAhead`) and writes them in another (`Flush`), because it takes a
snapshot in between. `Draft` is what other calls do to the pending changes
meanwhile; `Overlap` says whether they may do it between those two steps.
`Watched` and the guard of `Abort` are bounds: they leave out steps no call is
there to notice.

`DeleteConversation` stops what `deleteConversation` finds (`Stoppable`): the sub-agents at work,
which their runtime knows, and the agent's loop if the registry holds it. It does not
hold it while the run is set up (`conversation-agent-run.ts:1316`), nor when the loop of a
run that was stopped before has returned late and deleted the entry (`:1329`). The
registry belongs to `ConversationRun`, so here the deletion may find the loop or not. A run
it misses goes on and may ask, be answered and remembered after the conversation is
gone (`missed`).

Left out: the authorization of a root in the flow of a command (`exec.tool.ts:211`,
`:472`), which may ask twice; background processes; the page actions themselves. The
two microtasks between an answer and the executor that takes it are one step.

### ConversationRun

| Variable | In the code |
|---|---|
| `conv`, `rt` | `status`, `activeRunId` and `runEpoch` of the conversation, and the same of its entry in the runtime store |
| `claim` | `runClaimSlots`: the dispatch that has claimed the conversation and not taken the lock yet |
| `loop` | `agent-loop-registry`: the run whose loop Stop would find |
| `queue` | `pendingMessageQueues`: messages, and triggers with the run they were left for |
| `transcript` | the user's messages in `conv.messages` |
| `readings` | `targetConv.messages`, for the sends of the chat that are under way: a set, since sends with the same reading do the same |
| `run` | for each call of `runAgent` or `compactConversation`: where it is, which messages it saw when it began, whether it was stopped and whether it will hand off |
| `told`, `handled`, `erased`, `struck` | not in the code: messages whose author saw a rejection or an error, messages a run answered or was stopped on, messages that are no longer in the transcript, and whether a rejected hand-off has struck. Only properties read them |
| `sent`, `handOffs` | bounds |

`RunAgent` is the part of `runAgentImpl` before its first await: the call leaves a
trigger or is rejected (`Park`), claims the conversation, or finds no provider. It is
reached by `FollowUp` (the microtask in which the end of a run calls the next), by
`HandOff`, and by whoever puts a message into the transcript first (`PutBehind`). The quick
actions and the file, sync and review panels read the transcript and write it back in one step
(`Dispatch`). The chat reads it when the user sends (`StartSend`), waits for page context,
assets and OCR, and then finds a run going on and queues the message (`SendQueued`), or
writes back what it had read (`SendDirect`): `updateMessages` replaces the list, so what was put
in meanwhile is gone. Runs merge what they have seen into the transcript while they
work (`Update`) and when they end (`Merged`), which may bring an erased message back.

A claim becomes the lock in `WorkspaceReady` and `Lock`, the loop is registered in
`StartLoop`; `WorkspaceFails`, `SetupFails`, `LoopFails` and `Aborts` (an `AbortError` that nobody's
Stop caused) are the exits before and after. `LoopEnds` is the loop's return and
`finalizeRun` (`Finalize`); `WrapUp` is what follows it: a hand-off, or the next entry of the
queue (`NextInLine`). `Stop` is `cancelAgent`, which leaves the loop to unwind in its own time,
so `LoopEnds` may come after the next run's `Lock`. `Compact` to `CompactFails` are a
compaction, which uses the same lock, registry and queue; it waits for an import between
taking a message from the queue and putting it into the transcript (`CompactPuts`).

Epochs are random identifiers; here the epoch is the run that began it, and `Forget`
wipes a run that is gone from the queue so that its place may be used again. A trigger
of a run that is gone and one whose owner is unknown are treated alike by the code.
`Overlap` says whether a dispatch may meet a compaction; section 4 says what happens.

Left out: what else a loop does before it returns (streaming, tools, steering, drafts),
the persistence of messages and conversations whose messages are not loaded, a forced
reload of the list, which resets the lock of every conversation
(`conversation.store.sqlite.ts:1385`), a send before it commits (it may take for ever),
regenerating and editing a message, eviction and deletion of conversations, questions
raised by tools, reloads.

## 3. Runs

| Run | Question | Instance |
|---|---|---|
| `Switch_pass` | when calls throw and waits time out: does every switch end, no lock or waiter get stranded, and until then every requested refresh get displayed? | 2 workspaces, 2 callers, 1 change per ledger; 232,000 states |
| `Switch_stale_view` | is what is displayed always the active workspace's? No | 1 caller |
| `Overlay_serial` | is the ordinary life of one file right, through any series of calls, reviews, auto-applies, failed writes and edits by others? | 1 path, 2 texts, 5 clock ticks; 205,000 states |
| `Overlay_elsewhere` | can callers go on with one file while another is approved and synced? | 2 paths, 2 callers, 3 ticks; 478,000 states |
| `Overlay_faults` | is an acknowledged draft safe, whatever fails, and does every run end? | 1 path, a text and the empty file, all four kinds, reloads, revoked directories, failing writes, refreshes inside calls, edits inside syncs, 3 ticks; 382,000 states |
| `Overlay_same_text` | does repeating a write keep its record? No | 1 path |
| `Overlay_unsynced` | does the offer to sync old snapshots sync them? No | 1 path, a revoked directory |
| `Subagent_pass` | do slots, outcomes and stops hold under any two calls, a time-out, expiring messages, disposal and reload? | a task alone and a batch of two, 1 slot, queues of 2; 448,000 states |
| `Subagent_live` | is every spawn told an outcome, does every stop answer, are the slots those of `ExecutionSlots`? | the same with 1 call; 61,000 states |
| `Subagent_followup` | is a follow-up that was accepted run? No | 1 task, 1 call |
| `Auth_pass` | are answers and grants the user's, also when a deletion misses a run, does a plain write never delete, does every call return? | an agent, its sub-agent and another conversation, a call each; 267,000 states |
| `Conv_pass` | does one run at a time work on a conversation, and is every message answered, stopped, rejected, shown an error or erased by an older reading? | 3 places for runs, 3 messages, a queue of 1, 1 reading, 1 hand-off, failures; 513,000 states |

Bounds. An operation on the overlay touches one path, so one path shows all of
what a sequence can do and two show what one path's actors can do to another's.
Two texts tell "mine" from "somebody else's"; `Overlay_faults` trades one of them
for the empty file, because `sync` treats it differently. `MaxClock` bounds when
a call, a run or an edit may still start, never whether one already started can
go on: five ticks of the serial run are enough for draft, conflicting edit,
markers, resolution and sync of the same file. `MaxOps` is the number of ledger
rows of a path (rows are not re-used, as in the code), `MaxSnaps` that of
snapshots; both are taken so that starting an operation, not finishing one, runs
out of them (`EnoughRows`, the guard of `Begin`). Because of these bounds every
behaviour comes to a stop, so deadlock is not checked in the overlay's runs, nor
in those of the sub-agents, the authorizations and the conversation, where calls and
messages are counted.
One slot and three tasks make two wait at once, one of which may be stopped; two
calls let a resume meet a stop, or two messages fill the queue. Three requests are
what it takes for a queue with one in the middle; two runs share a conversation so
that its deletion ends both or misses the agent, a third is in another so that grants can
be mixed up. No call of the instance is made in plan mode: such a call has no key, like a
command, and looks at its signal again, like a sync.
Three messages fill a queue of one behind a run and leave one to be rejected, or to
make a hand-off meet a full queue; three places let a stopped run unwind while
another works and a third is dispatched; one reading is enough for a send to erase what
any of the others has put in, and longer queues are left to the theorems.
Symmetry is used for invariants and action properties where the empty file is not
among the texts, never with a liveness property.

What the properties say, beyond types: the pending map mirrors the visible ledger
rows (`MapMirrorsLedger`); no approved row is left behind where no list shows it
(`NoStrandedApproval`); what a call acknowledged stays in ledger and `files/`
until it is on the disk or discarded (`DraftTracked`, `DraftStored`); agents read
what they wrote (`ReadYourWrites`); edits of a disk file keep the text they were
made from (`BaselineKept`), on which conflicts are decided: never a false one
(`NoFalseConflict`), never a missed one (`NoSilentOverwrite`); a snapshot marked
as synced has no row left to sync (`SyncedSnapshotSettled`); auto-apply removes
no file of the user (`AutoApplyNeverDeletes`); every run ends (`RunEnds`). For
the switch: `LockHasOwner`, `WaiterHasSwitch`, `SettledViewIsActive`,
`AskedIsShown`, `SwitchEnds`, `SwitchPrepares`. For sub-agents: no slot leaks
(`SlotsConserved`, `SlotsServed`); a cancelled run is never taken for a completed
one (`CancelledNotCompleted`); what memory, row and pending answers agree on
stands (`OutcomeStands`); a stop ends the task (`StopEnds`) and every caller hears
(`CallsReturn`). For authorizations: queue and modal hold just the open requests
of live runs (`RequestsStand`), an answer reaches the call it was given for
(`AnsweredAsSaid`), grants are what was chosen in that conversation since they were last
dropped, and after its deletion only a run that was missed brings one back
(`GrantsAreChosen`), a plain write deletes nothing (`WritesRemoveNothing`), and
every request ends (`CallsReturn`). For the conversation: at most one run that was
not stopped works, it holds the lock in both stores, and Stop never ends another, until a rejected
hand-off strikes (`OneRun`); once nobody works the queue is empty and, again until a strike, no
message is left without an answer or an error, but for those a send has erased
(`NothingUnanswered`); a stopped run changes
neither store (`StoppedIsMute`); every message comes to an end (`EveryMessageEnds`, until a
strike).

Fairness. `RunEnds` assumes weak fairness of the run's own steps: a promise the
browser was handed settles, and its continuation is run. That does not say how:
a write may fail each time. Calls, edits, refreshes and reloads need no fairness.
The properties of the switch assume the same of a refresh, of each switch and of
the tool between its change and its refresh; nobody has to call anything, and
`SwitchEnds` says what happens once the others have stopped, because the owner of
a flight reruns it for whoever joins. For sub-agents: a spawn goes on, a processor's
awaits settle and its loop ends or is timed out, the wait of a stop is limited,
answers of the database come. For authorizations: the same of the executors, whose
commands have a time-out, and the user answers the modal, which lets him do nothing
else. For the conversation: a run's awaits settle and its loop ends; nobody has to
write, stop or compact.

## 4. Where the code and its text disagree

Four runs show some of it (`findings` in `PROJECT.json` quotes the lines).

- `Switch_stale_view`: a refresh that started before a switch puts the old
  workspace's list back between the reset and the activation.
- `Overlay_same_text`: writing again what a new draft says already drops its
  record; the file stays in `files/` and is never offered for the disk.
- `Overlay_unsynced`: for the same reason the offer to sync old snapshots finds
  none of their rows after a reload, and marks them as synced.
- `Subagent_followup`: a message that was queued while the child ran is taken from
  the queue after the run has completed, and is refused by the row and lost.

Others appear in the model when `Environment` or `Kinds` is widened, and have no
run of their own: a revoked directory strands the rows just approved
(`revoked`, `NoStrandedApproval`); a file that another program creates where a draft was
written over a snapshot's text, and touches after the next write, is a conflict though
the draft was made from it too (an older form of `NoFalseConflict`, with one origin for each
draft, failed for this with nine clock ticks; see `origin`); `sync_to_disk` marks a snapshot whose writes
failed without a conflict (kind `tool` with `io`, `SyncedSnapshotSettled`); a
`NotFoundError` for a new file counts as success, so its draft is dropped
(`notFound`, `DraftTracked`); an edit between the check and the write is
overwritten (`editDuringSync`, `NoSilentOverwrite`); a delete that comes during
the conflict check of an auto-apply is carried out by it (`callsDuringRun`,
`AutoApplyNeverDeletes`); the clean-up of baselines at the end of a sync removes
one whose call has not yet recorded its row (`callsElsewhere`, two paths,
`BaselineKept`); a draft that empties a file is never synced, since `sync` tests
its content for truth (`workspace-pending.ts:407`). These are why some properties
are in one run and not in another: `NoStrandedApproval` and
`SyncedSnapshotSettled` are not in `Overlay_faults`, for instance. A refresh between
approval and sync leaves the approved rows out of the map, so the sync skips them
(`refreshDuringRun`, `NoStrandedApproval`). With three callers of the switch, two
that waited for the same one prepare at the same time, since a waiter takes the lock
without looking at it again (`workspace.store.ts:824`).

Sub-agents: a resume that meets a processor on its way out leaves its task pending
for good (`runtime.ts:690`); a stop between the transition to running and `loop.run`
cancels nothing (`:787`); a stop whose answer finds `task.error` cleared by a resume
throws before it cancels (`:665`); a resume refused with a full queue has already
made the task pending.

Authorizations: a deletion that does not find the agent's loop leaves the run asking, and
an "Always" clicked then puts a grant back for the deleted conversation
(`DeletedHasNoGrant`, which TLC refutes with the instance of `Auth_pass`; the comment at
`conversation.store.sqlite.ts:2718` says that any remembered grant must die with its
conversation); the flush of a modal that listed one deletion carries out those that
came while it was open too (`sync-to-disk.tool.ts:277`, whose description says that
the modal will list the files to be deleted); with `Overlap` a deletion that comes
while the snapshot is taken goes under the grant for plain writes
(`WritesRemoveNothing`; the header of that file says it never can); a command in line
for its root runs after its run has been stopped (`exec.tool.ts:317`).

Conversations (`conversation-agent-run.ts` where no file is named):

- a send writes back the transcript it read before its awaits, so of two that overlap
  the second erases the message of the first, or one put in by a panel
  (`useConversationLogic.ts:491`, `:642`). A run that has not seen it by then never will:
  `NoMessageLost`, which is `NothingUnanswered` without its exception for erased messages, is
  refuted by TLC within seconds in the instance of `Conv_pass`. The comment at `:285` is
  about just this outcome, a newer message left unanswered forever;
- a hand-off that meets a full queue is rejected inside the `try` of the run before
  it, whose `catch` then clears the status and the loop of the run in its way
  (`:2384`). `OneRun` fails without its condition on `struck`. With five messages so does
  `NothingUnanswered`: the run in its way goes on and registers its loop, a third run has
  taken the lock meanwhile, and Stop ends the lock of the third with the loop of the
  second, so that the third run's message is neither answered nor stopped;
- a stopped run whose loop returns late deletes the next run's loop from the registry
  (`:1329`), so that Stop does nothing for that run; the registry's header
  (`agent-loop-registry.ts:19`) says what it is for;
- a Stop during set-up does nothing, for the same reason: no loop is registered yet;
- a run that called `delegate_to` and was then stopped still hands off (`:2335`), since
  `cancelAgent` begins no new epoch in the runtime entry;
- with `Overlap`, the end of a compaction puts back the transcript it began with, so
  a message written meanwhile is erased (`conversation.store.sqlite.ts:3446` says that
  no history is lost), its lock overwrites that of a run that had claimed the
  conversation, and that run returns without a word (`:466`);
- an exit through `failRunEarly` leaves the triggers made for its run in the queue,
  where they take room until something drains them (`:150`);
- a compaction after an error takes the error off the display though its message was
  never answered (`told` is a history for this reason).

## 5. Proofs

Every invariant and every action property that a run checks, liveness aside, is a
theorem for all values of the constants. Many have hypotheses on `Environment`, `Kinds` or
`Overlap`. They are not bounds: each one names a disturbance under which the code does
not keep the property, and section 4 says what happens then. The runs check the
properties under the same or stronger ones.

### The switch (`WorkspaceSwitchProofs`)

`SwitchSafety` and `WaitersTheorem`: `LockHasOwner` and `WaiterHasSwitch`, for any number of
callers and workspaces, with and without faults. The inductive invariant `SwitchInv` is
the conjunction of the two with the types of `lock` and `switch`: `LockHasOwner` is
inductive with the types, `WaiterHasSwitch` needs it besides, because a caller waits for
whoever the lock names.

`SwitchTypeOK` and `ViewTheorem`: `TypeOK` and `SettledViewIsActive`, again for any callers.
The types need to know that a call that is to switch has a target and that a scanned
flight has seen a version. The view needs `ViewDue`: a list of another workspace is on
display only while a switch has still to ask for its refresh, or a flight of the active
workspace has not landed, or a flight will run again; and for that, `FlightCallers`:
whoever is in a flight waits for it. So the rerun flag is what makes a single-flight
refresh safe under any number of switches.

### The overlay

`OverlayTypeOK` (`WorkspaceOverlayProofs`): `TypeOK` for any paths, texts, callers, bounds,
kinds and environment. It is inductive as it stands because it says that a run at its
disk write or its settling step has a current item of the right shape. The lemmas on
ledger and map (`RecordOK`, `RemoveOK`, `SettleOK`, `ReconciledOK`) say what each operation
returns and are stated once for all callers. `RefreshAll` has a guard, that a free row is
left for each path, under which the `CHOOSE` in `Reconciled` has a value.

`AutoApplySafe` (the same module): `AutoApplyNeverDeletes`, for an `Environment` with neither
`callsDuringRun` nor `refreshDuringRun`. `AutoInv` strengthens it: while an automatic run is
under way no call is on its paths, the map holds no delete of them, there is nothing to
force, no item of the batch is a delete, and a write under way has a text.

`OverlayLedgerProofs` follows the rows. `LedgerInv` relates map and ledger path by path
(`Held`), at every step: a path has at most one pending row; the map's entry of the path is
that row's, or it has none and no list shows the row. `RunInv` says that no call is on the paths
of a run, and that each item still to come is the map's entry of one of them.

| Theorem | Property | Excluded | Why |
|---|---|---|---|
| `MapMirrors` | `MapMirrorsLedger` | `callsDuringRun`, `refreshDuringRun`, `revoked` | a call or refresh that meets a run on its path changes the map the run goes on with; a revoked folder ends the run with rows it has approved |
| `ApprovalNotStranded` | `NoStrandedApproval` | the same and `crash` | a reload within a run leaves its rows approved |
| `SnapshotSettled` | `SyncedSnapshotSettled` | `callsDuringRun`, `refreshDuringRun`; `Kinds` are `review` and `auto` | the tool and the notice mark a snapshot whose writes failed |

`ApprovalInv`: a row that the map holds is approved only while it is still to come in the
run (`ToCome`). `StrandInv`: a path without a map entry has no pending row, which a reload in
the middle of a run would break. `SnapInv` (`SnapOf`): a pending row of a snapshot belongs to
one that is not marked synced, and one of the run's snapshot is not done.

`OverlayDraftProofs` follows the texts.

| Theorem | Property | Excluded |
|---|---|---|
| `DraftsTracked`, `DraftsStored` | `DraftTracked`, `DraftStored` | `callsDuringRun`, `samePath`, `refreshDuringRun`, `notFound`, `sameText` |
| `BaselinesKept`, `ConflictsReal` | `BaselineKept`, `NoFalseConflict` | what is not in turns |
| `WritesRead` | `ReadYourWrites` | what is not in turns, `notFound`, `sameText` |
| `OverwritesAsked` | `NoSilentOverwrite` | what is not in turns, `editDuringSync` |

`DraftInv` says of every draft that a pending row and `files/` have it, also while a call is
between its two writes and a run between disk and ledger: it holds through reloads,
revoked folders, failing writes and edits of others, with all four kinds of sync. *In
turns* (`InTurns`) means that calls, refreshes and runs do not overlap, the page stays
loaded and the folder authorized; failing writes, edits at any time between the steps
and any number of paths are still there. `TimeInv`: no mtime is newer than the clock, and a missing
file has none. `RootInv` says where a baseline comes from: it is one of the texts the draft
was made from (`BaseFrom`); an entry with a disk mtime has one; and if the disk is no newer
than that mtime, the draft was made from what the disk says (`KeyAt`). `PutInv` carries the
result of the conflict check to the disk write.

These proofs assume one thing more of a constant, `NoneIsNoOp`: null is no record.

### Sub-agents (`SubagentProofs`)

`SlotsTheorem` and `SlotsRefined`: no slot leaks, and counter and list implement
`ExecutionSlots` (its safety part), for any tasks and slots. Every step of the runtime is
one of five things to the slots (`SlotSteps`), so the proof is about those five. The number
of holders is counted with the theorems on finite sets.

`SubagentTypeOK`, `CancelledNeverCompletes`, `OutcomesStand`, `StopsEnd`: from `DataInv`, which
strengthens the types by what the answers to come can be (`GoodRequests`), by where a task
that does not exist can be (`Born`) and by what holds while the loop runs (`LoopOK`). The
action properties follow from it step by step; `CasKept`, `RowKept` and `StatusKept` say
what most steps leave alone.

### Sequences (`SequenceFilterProofs`)

Requests and messages are taken out of the middle of their queues with
`Array.prototype.filter`. `Filter` is a recursive function with a set for its test, so that
it can be reasoned about: the library's induction theorems take an operator and cannot be
instantiated, but a set of numbers has a least one (`LeastNat`, from the theorem that `<` is
well-founded on the naturals), which gives induction over a set (`Induction`). From it follow that the
recursion defines a function (`FilterExists`, `FilterDef`), that the result is a
subsequence (`FilterPicks`), what occurs in it (`FilterOccurs`) and that nothing occurs twice
that did not before (`FilterOnce`).

### Authorizations (`AuthorizationProofs`)

`AnswersTheorem`, `GrantsTheorem`: the invariant `AnswerInv` follows an approval from the
click to the grant. An approval not taken yet is what the user said, for a key chosen
in that conversation, which is still there unless its deletion missed the run
(`Approvals`); that holds because open requests are of runs that go on (`OpenIsLive`) and each
run of a deleted conversation is stopped or was missed (`DeletedIsStopped`). `WritesTheorem` assumes
that drafts do not change during a flush (`~Overlap`) and needs `FlushInv`: the paths of a
flush that listed no deletion have none.

`AuthTypeOK`, `RequestsTheorem`, `CommandsInTurn`: `QueueInv` says that the queue holds exactly
the calls that ask, once each, and the modal its head; it is inductive together with
`AnswerInv` and the lemmas on `Filter`, since every settlement filters the queue. `LaneInv`
says the same of the line of commands, and that the command that runs is its head: so
two commands of a root never run at once, though any number may be let go ahead together
(`FirstInLine`, which no run checks).

### The conversation (`ConversationProofs`)

`ConversationTypes`: `TypeOK`, also while dispatches overlap compactions. What is to be shown
is the bound of the queue.

The other three are for `~Overlap`. `OneRunTheorem` and `MuteTheorem` follow from `LockInv`.
`OneRun` is not inductive: it needs who holds the claim, that a compaction is alone, that
a working run's epoch is that of both stores, that a stopped run has lost it, and that
the registry holds a run that loops.

`AnsweredTheorem`: `NothingUnanswered`, with any number of sends under way. `TalkInv` adds two
things to types and lock. While the queue is not empty somebody will look: a claim, a
status that is not idle, or a run at a place from which it comes to the queue
(`QueueServed`). And each message was ended, was erased, waits in the queue or with a
compaction that has taken it, or is in the transcript while a run that has seen it has the
claim or the lock, or something waits in the queue, or a follow-up has been called
(`Asked`): a run called later sees the whole transcript, and a merge with what another has
seen never takes away a message that is asked for without counting it as erased (`MergeAsks`).
The stores must agree also after a strike (`Agree`), or the chat could queue a message
behind nobody; looking for that part of the invariant is how the strike's effect on
messages came to light (section 4).

### Assumptions, and what is only model-checked

The assumptions are those of the modules: bounds are natural numbers, the special
values are different from texts, messages and records and from each other, `Kinds` and
`Environment` are among the names the module gives. TLC evaluates them in every run.

Only model-checked: liveness and the fairness it needs (`AskedIsShown`, `SwitchEnds`,
`SwitchPrepares`, `RunEnds`, `SlotsServed`, both `CallsReturn`, `EveryMessageEnds`), which the
proof system cannot reach.

## 6. Not modelled

What each module leaves out of the parts it models is said in section 2 and here. The
switch begins with an active workspace, and with a null one `refreshPendingChanges` returns at
once (`workspace.store.ts:1381`); a switch to a workspace whose record is gone returns before it
activates (`:967`); a rejected flight whose rerun succeeds still rejects its owner, which here
counts as refreshed (`:1414`). The overlay syncs one unsynced snapshot in a run, where
the notice goes on to the next and refreshes once; its refresh always has a native
directory, and a deletion is not held back by the index of `files/`
(`workspace-change-detection.ts:178`, `:270`); with a root on record and no handle the items of a
batch fail one by one, where here the sync throws (`workspace-runtime.ts:669`); a file of a
native-host root has no baseline from `files/` (`workspace-file-ops.ts:706`).

Of the components above: the pure-OPFS mode, large-file ranges, git-ignored
deletes and directory trees of the overlay; failures of OPFS and SQLite
themselves; more than one root; checkpoints, rollback and pruning; changes that
Python makes behind the runtime. The other components are in `PROJECT.json`, each
with its reason.

## 7. Plan

1. Overlay, second part: a refresh in several steps; calls and syncs that meet on
   one path, with what `markOpSynced` and `keepOpPending` by id make of them;
   `registerDetectedChanges`; a rebind of baselines.
2. An abstract specification of the overlay, in which a path has at most one draft
   that is made, delivered or dropped, and the refinement of `WorkspaceOverlay`
   to it, in place of some of the invariants.
3. `SnapshotHistory`: changesets from draft to committed, approved, synced,
   rolled back and pruned (`fs-overlay.repository.ts:1248`); the rollback that restores
   files one by one (`workspace-runtime.ts:1285`).
4. `FlowEngine`: the order of steps, retries, cancellation.
5. Proofs: the refinement of 2; what holds of the ledger when a refresh is split and
   meets a run, once 1 has shown it.
