------------------------- MODULE ConversationProofs -------------------------
(***************************************************************************)
(* Proofs about ConversationRun, for any number of places and messages and *)
(* a queue of any size: who works on the conversation, the types, and that *)
(* no message is left behind.  All but the types assume that no dispatch   *)
(* overlaps a compaction.                                                  *)
(***************************************************************************)
EXTENDS ConversationRun, SequenceFilterProofs

(* The lock.  What the queue and the transcript hold does not matter for it. *)

LockTypes == /\ conv \in Locks /\ rt \in Locks
             /\ claim \in Runs \cup {None} /\ loop \in Runs \cup {None}
             /\ struck \in BOOLEAN

\* run is a function to records of runs; what a run sees is left open.
IsRun(x) == x = [pc |-> x.pc, sees |-> x.sees, stopped |-> x.stopped, hands |-> x.hands]
RunShape == /\ run = [r \in Runs |-> run[r]]
            /\ \A r \in Runs : IsRun(run[r]) /\ run[r].stopped \in BOOLEAN

\* The claim is held by the one run that starts.
Claimed == \A r \in Runs : run[r].pc \in {"claiming", "routing"} <=> claim = r

\* Nobody has the lock while a run starts.
ClaimAlone == ~struck /\ claim # None => conv.active = None

\* A compaction is alone.
CompactionAlone ==
  \A r \in Runs : Compacting(r) => \A q \in Runs \ {r} : run[q].pc = "idle"

\* A run is stopped only once it has a loop.
StoppedLooped ==
  \A r \in Runs : run[r].stopped => run[r].pc \in {"looping", "compacting", "ended", "handing"}

\* Who has the lock has its epoch, in both stores.
LockEpoch == ~struck => \A r \in Runs : conv.active = r => conv.epoch = r /\ rt.epoch = r

\* A run that was stopped has lost the epoch; a compaction leaves the lock free.
StoppedEpoch ==
  \A r \in Runs : run[r].stopped =>
    /\ run[r].pc = "looping" => conv.epoch # r
    /\ run[r].pc = "compacting" => conv.status = "idle" /\ conv.active = None /\ rt.active = None

\* The registry holds the loop of a run that has one.
LoopRuns == loop # None => run[loop].pc \in {"looping", "compacting"}

LockInv == /\ LockTypes /\ RunShape /\ Claimed /\ ClaimAlone /\ CompactionAlone /\ LoopRuns
           /\ StoppedLooped /\ LockEpoch /\ StoppedEpoch /\ OneRun

-----------------------------------------------------------------------------
\* r goes on to p; the other runs stay as they are.
Moved(r, p, s) == /\ RunShape'
                  /\ run'[r].pc = p /\ run'[r].stopped = s
                  /\ \A q \in Runs \ {r} : run'[q] = run[q]

\* One run's record is replaced by another.
LEMMA RecordMoves ==
  ASSUME RunShape, NEW r \in Runs, NEW x, IsRun(x), x.stopped \in BOOLEAN,
         run' = [run EXCEPT ![r] = x]
  PROVE  Moved(r, x.pc, x.stopped)
  BY DEF RunShape, Moved

\* Goes moves a run and leaves the rest of its record alone.
LEMMA GoesMoves ==
  ASSUME RunShape, NEW r \in Runs, NEW p, Goes(r, p)
  PROVE  Moved(r, p, run[r].stopped)
<1> DEFINE x == [pc |-> p, sees |-> run[r].sees, stopped |-> run[r].stopped,
                 hands |-> run[r].hands]
<1>1. IsRun(x)
  BY DEF RunShape, IsRun
<1>2. [run[r] EXCEPT !.pc = p] = x
  BY DEF RunShape, IsRun
<1>3. run' = [run EXCEPT ![r] = x]
  BY <1>2 DEF Goes
<1>4. x.pc = p /\ x.stopped = run[r].stopped
  OBVIOUS
<1>5. x.stopped \in BOOLEAN
  BY DEF RunShape
<1> HIDE DEF x
<1> QED
  BY <1>1, <1>3, <1>4, <1>5, RecordMoves

\* A run that begins, or is over, is not stopped.
LEMMA FreshMoves ==
  ASSUME RunShape, NEW r \in Runs, NEW p, NEW ACTION seen,
         run' = [run EXCEPT ![r] = Fresh(p, seen)]
  PROVE  Moved(r, p, FALSE)
<1> DEFINE x == [pc |-> p, sees |-> seen, stopped |-> FALSE, hands |-> FALSE]
<1>1. IsRun(x) /\ x.pc = p /\ x.stopped = FALSE
  BY DEF IsRun
<1>2. run' = [run EXCEPT ![r] = x]
  BY DEF Fresh
<1> HIDE DEF x
<1> QED
  BY <1>1, <1>2 DEF RunShape, Moved

\* Becomes makes the record anew.
LEMMA BecomesMoves ==
  ASSUME RunShape, NEW r \in Runs, NEW p, Becomes(r, p)
  PROVE  Moved(r, p, FALSE)
  BY FreshMoves DEF Becomes

\* A lock given back is free and keeps its epoch.
LEMMA FreedLock ==
  ASSUME NEW lock \in Locks, NEW status \in {"idle", "running", "error"}
  PROVE  /\ Freed(lock, status) \in Locks
         /\ Freed(lock, status).status = status
         /\ Freed(lock, status).active = None
         /\ Freed(lock, status).epoch = lock.epoch
  BY DEF Freed, Locks

-----------------------------------------------------------------------------
\* The synchronous part of a dispatch, by a run that has not begun to work.
LEMMA RunAgentKeeps ==
  ASSUME LockInv, NEW r \in Runs, NEW m, RunAgent(r, m), struck' = struck,
         run[r].pc \in {"idle", "called", "handing"},
         \A q \in Runs \ {r} : ~Compacting(q)
  PROVE  LockInv'
<1>1. CASE Taken /\ Becomes(r, "idle") /\ UNCHANGED lockVars
  <2>1. Moved(r, "idle", FALSE)
    BY <1>1, BecomesMoves DEF LockInv
  <2> QED
    BY <1>1, <2>1, RunAssumption DEF LockInv, LockTypes, Claimed, ClaimAlone,
       CompactionAlone, Compacting, LoopRuns, StoppedLooped, LockEpoch, StoppedEpoch,
       OneRun, Working, Moved, lockVars
<1>2. CASE /\ ~Taken /\ claim' = r
           /\ run' = [run EXCEPT ![r] = Fresh("claiming", transcript')]
           /\ UNCHANGED <<conv, rt, loop>>
  <2>1. Moved(r, "claiming", FALSE)
    BY <1>2, FreshMoves DEF LockInv
  <2> QED
    BY <1>2, <2>1, RunAssumption DEF LockInv, LockTypes, Claimed, ClaimAlone,
       CompactionAlone, Compacting, LoopRuns, StoppedLooped, LockEpoch, StoppedEpoch,
       OneRun, Working, Moved, Taken, ConvRunning
<1>3. CASE /\ ~Taken /\ conv' = Freed(conv, "error") /\ rt' = Freed(rt, "error")
           /\ Becomes(r, "idle") /\ UNCHANGED <<claim, loop>>
  <2>1. Moved(r, "idle", FALSE)
    BY <1>3, BecomesMoves DEF LockInv
  <2> QED
    BY <1>3, <2>1, RunAssumption, FreedLock DEF LockInv, LockTypes, Claimed, ClaimAlone,
       CompactionAlone, Compacting, LoopRuns, StoppedLooped, LockEpoch, StoppedEpoch,
       OneRun, Working, Moved, Taken, ConvRunning
<1> QED
  BY <1>1, <1>2, <1>3 DEF RunAgent

\* A run that has ended keeps what it was, but for the hand-off it may want.
LEMMA EndedMoves ==
  ASSUME RunShape, NEW r \in Runs, NEW hands \in BOOLEAN,
         run' = [run EXCEPT ![r] = [pc |-> "ended", sees |-> {}, stopped |-> run[r].stopped,
                                    hands |-> hands]]
  PROVE  Moved(r, "ended", run[r].stopped)
<1> DEFINE x == [pc |-> "ended", sees |-> {}, stopped |-> run[r].stopped, hands |-> hands]
<1>1. IsRun(x) /\ x.pc = "ended" /\ x.stopped = run[r].stopped
  BY DEF IsRun
<1>2. run' = [run EXCEPT ![r] = x]
  OBVIOUS
<1>3. x.stopped \in BOOLEAN
  BY DEF RunShape
<1> HIDE DEF x
<1>4. Moved(r, x.pc, x.stopped)
  BY <1>1, <1>2, <1>3, RecordMoves
<1> QED
  BY <1>1, <1>4 DEF Moved

\* A run that is stopped stays where it is.
LEMMA StopMoves ==
  ASSUME RunShape, NEW r \in Runs, run' = [run EXCEPT ![r].stopped = TRUE]
  PROVE  Moved(r, run[r].pc, TRUE)
<1> DEFINE x == [pc |-> run[r].pc, sees |-> run[r].sees, stopped |-> TRUE,
                 hands |-> run[r].hands]
<1>1. IsRun(x) /\ x.pc = run[r].pc /\ x.stopped = TRUE
  BY DEF RunShape, IsRun
<1>2. ASSUME NEW y, IsRun(y), NEW b
      PROVE  [y EXCEPT !.stopped = b] = [pc |-> y.pc, sees |-> y.sees, stopped |-> b,
                                         hands |-> y.hands]
  BY <1>2 DEF IsRun
<1>3. run' = [run EXCEPT ![r] = x]
  BY <1>2 DEF RunShape
<1> HIDE DEF x
<1> QED
  BY <1>1, <1>3, RecordMoves

\* The workspace is ready, and another run has started or not.
LEMMA WorkspaceReadyKeeps ==
  ASSUME LockInv, NEW r \in Runs, WorkspaceReady(r)
  PROVE  LockInv'
<1>1. CASE Goes(r, "routing") /\ UNCHANGED claim
  <2>1. Moved(r, "routing", run[r].stopped)
    BY <1>1, GoesMoves DEF LockInv
  <2> QED
    BY <1>1, <2>1 DEF LockInv, LockTypes, Claimed, ClaimAlone, CompactionAlone, Compacting,
       LoopRuns, StoppedLooped, LockEpoch, StoppedEpoch, OneRun, Working, Moved,
       WorkspaceReady, handVars
<1>2. CASE claim' = None /\ Becomes(r, "idle")
  <2>1. Moved(r, "idle", FALSE)
    BY <1>2, BecomesMoves DEF LockInv
  <2> QED
    BY <1>2, <2>1, RunAssumption DEF LockInv, LockTypes, Claimed, ClaimAlone,
       CompactionAlone, Compacting, LoopRuns, StoppedLooped, LockEpoch, StoppedEpoch,
       OneRun, Working, Moved, WorkspaceReady, handVars
<1> QED
  BY <1>1, <1>2 DEF WorkspaceReady

\* A run that starts fails: nobody has the lock, which stays free.
LEMMA WorkspaceFailsKeeps ==
  ASSUME LockInv, NEW r \in Runs, WorkspaceFails(r)
  PROVE  LockInv'
<1>1. Moved(r, "idle", FALSE)
  BY BecomesMoves DEF LockInv, WorkspaceFails, Fails
<1>2. /\ conv' \in Locks /\ conv'.status = "error" /\ conv'.active = None
      /\ conv'.epoch = conv.epoch /\ rt' \in Locks /\ rt'.status = "error" /\ rt'.active = None
  BY FreedLock DEF LockInv, LockTypes, WorkspaceFails, Fails
<1>3. claim = r /\ claim' = None /\ struck' = struck /\ loop' \in {loop, None}
  BY DEF LockInv, Claimed, WorkspaceFails, Fails, handVars
<1>4. ~struck => conv.active = None /\ loop = None
  BY <1>3, RunAssumption DEF LockInv, LockTypes, ClaimAlone, OneRun
<1> USE DEF LockInv, LockTypes, Claimed, ClaimAlone, CompactionAlone, Compacting, LoopRuns,
   StoppedLooped, LockEpoch, StoppedEpoch, OneRun, Working, Moved, WorkspaceFails
<1>5. RunShape'
  BY <1>1
<1>6. LockTypes'
  BY <1>1, <1>2, <1>3, <1>4, RunAssumption
<1>7. Claimed'
  BY <1>1, <1>2, <1>3, <1>4, RunAssumption
<1>8. ClaimAlone'
  BY <1>1, <1>2, <1>3, <1>4, RunAssumption
<1>9. CompactionAlone'
  BY <1>1, <1>2, <1>3, <1>4, RunAssumption
<1>10. LoopRuns'
  BY <1>1, <1>2, <1>3, <1>4, RunAssumption
<1>11. StoppedLooped'
  BY <1>1, <1>2, <1>3, <1>4, RunAssumption
<1>12. LockEpoch'
  BY <1>1, <1>2, <1>3, <1>4, RunAssumption
<1>13. StoppedEpoch'
  BY <1>1, <1>2, <1>3, <1>4, RunAssumption
<1>14. OneRun'
  BY <1>1, <1>2, <1>3, <1>4, RunAssumption
<1> QED
  BY <1>5, <1>6, <1>7, <1>8, <1>9, <1>10, <1>11, <1>12, <1>13, <1>14

\* The claim becomes the lock: nobody else has it.
LEMMA LockKeeps ==
  ASSUME LockInv, NEW r \in Runs, Lock(r)
  PROVE  LockInv'
<1>1. Moved(r, "setup", run[r].stopped)
  BY GoesMoves DEF LockInv, Lock
<1> QED
  BY <1>1, RunAssumption DEF LockInv, LockTypes, Claimed, ClaimAlone, CompactionAlone,
     Compacting, LoopRuns, StoppedLooped, LockEpoch, StoppedEpoch, OneRun, Working, Moved,
     Lock, Locks, handVars

\* The loop that is registered is that of the run with the lock.
LEMMA StartLoopKeeps ==
  ASSUME LockInv, NEW r \in Runs, StartLoop(r)
  PROVE  LockInv'
<1>1. Moved(r, "looping", run[r].stopped)
  BY GoesMoves DEF LockInv, StartLoop
<1> QED
  BY <1>1 DEF LockInv, LockTypes, Claimed, ClaimAlone, CompactionAlone, Compacting,
     LoopRuns, StoppedLooped, LockEpoch, StoppedEpoch, OneRun, Working, Moved, StartLoop,
     handVars

\* A set-up that fails gives back the lock it has.
LEMMA SetupFailsKeeps ==
  ASSUME LockInv, NEW r \in Runs, SetupFails(r)
  PROVE  LockInv'
<1>1. Moved(r, "idle", FALSE)
  BY BecomesMoves DEF LockInv, SetupFails, Fails
<1>2. ~struck => conv.active = r /\ rt.active = r /\ Current(r)
  BY DEF LockInv, OneRun, Working, SetupFails, Current, LockEpoch, StoppedLooped
<1>3. conv' \in {conv, Freed(conv, "error")} /\ rt' \in {rt, Freed(rt, "error")}
  BY DEF SetupFails, Fails
<1>4. ~struck => conv' = Freed(conv, "error") /\ rt' = Freed(rt, "error")
  BY <1>2 DEF SetupFails, Fails
<1>5. /\ conv' \in Locks /\ rt' \in Locks /\ conv'.epoch = conv.epoch
      /\ ~struck => /\ conv'.status = "error" /\ conv'.active = None
                    /\ rt'.status = "error" /\ rt'.active = None
  BY <1>3, <1>4, FreedLock DEF LockInv, LockTypes
<1>6. claim' = claim /\ struck' = struck /\ loop' \in {loop, None}
  BY DEF SetupFails, Fails, handVars
<1>7. ~struck => loop = None
  BY <1>2 DEF LockInv, LoopRuns, OneRun, SetupFails
<1> USE DEF LockInv, LockTypes, Claimed, ClaimAlone, CompactionAlone, Compacting, LoopRuns,
   StoppedLooped, LockEpoch, StoppedEpoch, OneRun, Working, Moved, SetupFails
<1>8. RunShape'
  BY <1>1
<1>9. LockTypes'
  BY <1>1, <1>2, <1>5, <1>6, <1>7, RunAssumption
<1>10. Claimed'
  BY <1>1, <1>2, <1>5, <1>6, <1>7, RunAssumption
<1>11. ClaimAlone'
  BY <1>1, <1>2, <1>5, <1>6, <1>7, RunAssumption
<1>12. CompactionAlone'
  BY <1>1, <1>2, <1>5, <1>6, <1>7, RunAssumption
<1>13. LoopRuns'
  BY <1>1, <1>2, <1>5, <1>6, <1>7, RunAssumption
<1>14. StoppedLooped'
  BY <1>1, <1>2, <1>5, <1>6, <1>7, RunAssumption
<1>15. LockEpoch'
  BY <1>1, <1>2, <1>5, <1>6, <1>7, RunAssumption
<1>16. StoppedEpoch'
  BY <1>1, <1>2, <1>5, <1>6, <1>7, RunAssumption
<1>17. OneRun'
  BY <1>1, <1>2, <1>5, <1>6, <1>7, RunAssumption
<1> QED
  BY <1>8, <1>9, <1>10, <1>11, <1>12, <1>13, <1>14, <1>15, <1>16, <1>17

\* A loop that ends gives back the lock if its run still has the epoch.
LEMMA LoopEndsKeeps ==
  ASSUME LockInv, NEW r \in Runs, LoopEnds(r)
  PROVE  LockInv'
<1>1. Moved(r, "ended", run[r].stopped)
  BY EndedMoves DEF LockInv, LoopEnds
<1>2. loop' = None /\ claim' = claim /\ struck' = struck
  BY DEF LoopEnds, Finalize, handVars
<1>3. CASE conv.epoch = r /\ conv' = Freed(conv, "idle") /\ rt' = Freed(rt, "idle")
  BY <1>1, <1>2, <1>3, RunAssumption, FreedLock DEF LockInv, LockTypes, Claimed, ClaimAlone,
     CompactionAlone, Compacting, LoopRuns, StoppedLooped, LockEpoch, StoppedEpoch, OneRun,
     Working, Moved, LoopEnds
<1>4. CASE conv.epoch # r /\ UNCHANGED <<conv, rt>>
  BY <1>1, <1>2, <1>4, RunAssumption DEF LockInv, LockTypes, Claimed, ClaimAlone,
     CompactionAlone, Compacting, LoopRuns, StoppedLooped, LockEpoch, StoppedEpoch, OneRun,
     Working, Moved, LoopEnds
<1> QED
  BY <1>3, <1>4 DEF LoopEnds, Finalize

\* A loop that throws was not stopped, so its run has the lock.
LEMMA LoopFailsKeeps ==
  ASSUME LockInv, NEW r \in Runs, LoopFails(r)
  PROVE  LockInv'
<1>1. Moved(r, "idle", FALSE)
  BY BecomesMoves DEF LockInv, LoopFails, Fails
<1> QED
  BY <1>1, RunAssumption, FreedLock DEF LockInv, LockTypes, Claimed, ClaimAlone,
     CompactionAlone, Compacting, LoopRuns, StoppedLooped, LockEpoch, StoppedEpoch, OneRun,
     Working, Moved, LoopFails, Fails, handVars

\* A run whose request is aborted has the claim or the lock, and gives it back.
LEMMA AbortsKeeps ==
  ASSUME LockInv, NEW r \in Runs, Aborts(r)
  PROVE  LockInv'
<1>1. Moved(r, "called", FALSE) \/ Moved(r, "idle", FALSE)
  BY BecomesMoves DEF LockInv, Aborts, NextInLine
<1>2. /\ conv' \in Locks /\ conv'.status = "idle" /\ conv'.active = None
      /\ conv'.epoch = conv.epoch /\ rt' \in Locks /\ rt'.status = "idle" /\ rt'.active = None
  BY FreedLock DEF LockInv, LockTypes, Aborts
<1>3. /\ claim' = IF claim = r THEN None ELSE claim
      /\ struck' = struck /\ loop' = None /\ ~run[r].stopped
      /\ run[r].pc \in {"claiming", "setup", "looping"}
  BY DEF Aborts, handVars
<1>4. ~struck => conv.active \in {None, r}
  BY <1>3, RunAssumption DEF LockInv, Claimed, ClaimAlone, OneRun, Working
<1>5. \A q \in Runs : run'[q].pc # "compacting"
  BY <1>1, <1>3 DEF LockInv, CompactionAlone, Compacting, Moved
<1> USE DEF LockInv, LockTypes, Claimed, ClaimAlone, CompactionAlone, Compacting, LoopRuns,
   StoppedLooped, LockEpoch, StoppedEpoch, OneRun, Working, Moved
<1>6. RunShape'
  BY <1>1
<1>7. LockTypes'
  BY <1>1, <1>2, <1>3
<1>8. Claimed'
  BY <1>1, <1>3, RunAssumption
<1>9. ClaimAlone'
  BY <1>2
<1>10. CompactionAlone'
  BY <1>1, <1>3
<1>11. LoopRuns'
  BY <1>3
<1>12. StoppedLooped'
  BY <1>1
<1>13. LockEpoch'
  BY <1>2, RunAssumption
<1>14. StoppedEpoch'
  BY <1>1, <1>2, <1>5
<1>15. OneRun'
  BY <1>1, <1>2, <1>3, <1>4, RunAssumption
<1> QED
  BY <1>6, <1>7, <1>8, <1>9, <1>10, <1>11, <1>12, <1>13, <1>14, <1>15

\* A run that has ended looks at the queue or hands off without the lock.
LEMMA WrapUpKeeps ==
  ASSUME LockInv, NEW r \in Runs, WrapUp(r)
  PROVE  LockInv'
<1>1. CASE Goes(r, "handing") /\ UNCHANGED struck
  <2>1. Moved(r, "handing", run[r].stopped)
    BY <1>1, GoesMoves DEF LockInv
  <2> QED
    BY <1>1, <2>1 DEF LockInv, LockTypes, Claimed, ClaimAlone, CompactionAlone, Compacting,
       LoopRuns, StoppedLooped, LockEpoch, StoppedEpoch, OneRun, Working, Moved, WrapUp,
       lockVars
<1>2. CASE NextInLine(r) /\ UNCHANGED handVars
  <2>1. Moved(r, "called", FALSE) \/ Moved(r, "idle", FALSE)
    BY <1>2, BecomesMoves DEF LockInv, NextInLine
  <2> QED
    BY <1>2, <2>1 DEF LockInv, LockTypes, Claimed, ClaimAlone, CompactionAlone, Compacting,
       LoopRuns, StoppedLooped, LockEpoch, StoppedEpoch, OneRun, Working, Moved, WrapUp,
       lockVars, handVars
<1> QED
  BY <1>1, <1>2 DEF WrapUp

\* A hand-off that is rejected strikes; the claim and the epochs stay.
LEMMA HandOffFailsKeeps ==
  ASSUME LockInv, NEW r \in Runs, HandOffFails(r)
  PROVE  LockInv'
<1>1. Moved(r, "idle", FALSE)
  BY BecomesMoves DEF LockInv, HandOffFails, Fails
<1> QED
  BY <1>1, RunAssumption, FreedLock DEF LockInv, LockTypes, Claimed, ClaimAlone,
     CompactionAlone, Compacting, LoopRuns, StoppedLooped, LockEpoch, StoppedEpoch, OneRun,
     Working, Moved, HandOffFails, Fails

\* The run whose loop is stopped is the one with the lock, which is free afterwards.
LEMMA StopKeeps ==
  ASSUME LockInv, Stop
  PROVE  LockInv'
<1>1. loop \in Runs
  BY DEF LockInv, LockTypes, Stop
<1>2. Moved(loop, run[loop].pc, TRUE)
  BY <1>1, StopMoves DEF LockInv, Stop
<1>3. NoLock \in Locks /\ NoLock.status = "idle" /\ NoLock.active = None /\ NoLock.epoch = None
  BY DEF NoLock, Locks
<1> USE DEF LockInv, LockTypes, Claimed, ClaimAlone, CompactionAlone, Compacting, LoopRuns,
   StoppedLooped, LockEpoch, StoppedEpoch, OneRun, Working, Moved, Stop, handVars
<1>4. RunShape'
  BY <1>2
<1>5. LockTypes'
  BY <1>1, <1>2, <1>3, RunAssumption, FreedLock
<1>6. Claimed'
  BY <1>1, <1>2, <1>3, RunAssumption, FreedLock
<1>7. ClaimAlone'
  BY <1>1, <1>2, <1>3, RunAssumption, FreedLock
<1>8. CompactionAlone'
  BY <1>1, <1>2, <1>3, RunAssumption, FreedLock
<1>9. LoopRuns'
  BY <1>1, <1>2, <1>3, RunAssumption, FreedLock
<1>10. StoppedLooped'
  BY <1>1, <1>2, <1>3, RunAssumption, FreedLock
<1>11. LockEpoch'
  BY <1>1, <1>2, <1>3, RunAssumption, FreedLock
<1>12. StoppedEpoch'
  BY <1>1, <1>2, <1>3, RunAssumption, FreedLock
<1>13. OneRun'
  BY <1>1, <1>2, <1>3, RunAssumption, FreedLock
<1> QED
  BY <1>4, <1>5, <1>6, <1>7, <1>8, <1>9, <1>10, <1>11, <1>12, <1>13

-----------------------------------------------------------------------------
\* A compaction begins when nobody else is there.
LEMMA CompactKeeps ==
  ASSUME LockInv, ~Overlap, NEW r \in Runs, Compact(r)
  PROVE  LockInv'
<1>1. Moved(r, "preparing", FALSE)
  BY FreshMoves DEF LockInv, Compact
<1> QED
  BY <1>1 DEF LockInv, LockTypes, Claimed, ClaimAlone, CompactionAlone, Compacting,
     LoopRuns, StoppedLooped, LockEpoch, StoppedEpoch, OneRun, Working, Moved, Compact,
     lockVars, handVars

\* A compaction that gives up has changed nothing.
LEMMA CompactGivesUpKeeps ==
  ASSUME LockInv, NEW r \in Runs, CompactGivesUp(r)
  PROVE  LockInv'
<1>1. Moved(r, "idle", FALSE)
  BY BecomesMoves DEF LockInv, CompactGivesUp
<1> QED
  BY <1>1 DEF LockInv, LockTypes, Claimed, ClaimAlone, CompactionAlone, Compacting,
     LoopRuns, StoppedLooped, LockEpoch, StoppedEpoch, OneRun, Working, Moved,
     CompactGivesUp, lockVars, handVars

\* The lock a compaction takes is free, because it is alone.
LEMMA CompactLocksKeeps ==
  ASSUME LockInv, NEW r \in Runs, CompactLocks(r)
  PROVE  LockInv'
<1>1. Moved(r, "compacting", run[r].stopped)
  BY GoesMoves DEF LockInv, CompactLocks
<1> QED
  BY <1>1, RunAssumption DEF LockInv, LockTypes, Claimed, ClaimAlone, CompactionAlone,
     Compacting, LoopRuns, StoppedLooped, LockEpoch, StoppedEpoch, OneRun, Working, Moved,
     CompactLocks, Locks, handVars

\* A compaction leaves both stores free, whether it was stopped or not.
LEMMA CompactFreesKeeps ==
  ASSUME LockInv, NEW r \in Runs, NEW status \in {"idle", "error"},
         run[r].pc = "compacting", run[r].stopped => status = "idle",
         CompactFrees(r, status), UNCHANGED <<claim, struck>>,
         NEW p \in {"called", "taking", "idle"}, Moved(r, p, FALSE)
  PROVE  LockInv'
<1>1. conv' \in Locks /\ conv'.status = status /\ conv'.active = None /\ conv'.epoch = conv.epoch
  BY FreedLock DEF LockInv, LockTypes, CompactFrees
<1>2. rt' \in Locks /\ rt'.epoch = rt.epoch
  BY FreedLock DEF LockInv, LockTypes, CompactFrees
<1>3. ~struck => rt'.status = status /\ rt'.active = None
  BY FreedLock DEF LockInv, LockTypes, CompactFrees, OneRun, Working, StoppedEpoch
<1> QED
  BY <1>1, <1>2, <1>3, RunAssumption DEF LockInv, LockTypes, Claimed, ClaimAlone,
     CompactionAlone, Compacting, LoopRuns, StoppedLooped, LockEpoch, StoppedEpoch, OneRun,
     Working, Moved, CompactFrees

\* A compaction that ends is idle, or calls the next run.
LEMMA CompactEndsKeeps ==
  ASSUME LockInv, NEW r \in Runs, CompactEnds(r)
  PROVE  LockInv'
<1>1. PICK p \in {"called", "taking", "idle"} : Moved(r, p, FALSE)
  BY BecomesMoves, FreshMoves DEF LockInv, CompactEnds
<1> QED
  BY <1>1, CompactFreesKeeps DEF CompactEnds, handVars

\* It has the lock no more when it puts its message.
LEMMA CompactPutsKeeps ==
  ASSUME LockInv, NEW r \in Runs, CompactPuts(r)
  PROVE  LockInv'
<1>1. Moved(r, "called", FALSE)
  BY BecomesMoves DEF LockInv, CompactPuts
<1> QED
  BY <1>1 DEF LockInv, LockTypes, Claimed, ClaimAlone, CompactionAlone, Compacting,
     LoopRuns, StoppedLooped, LockEpoch, StoppedEpoch, OneRun, Working, Moved,
     CompactPuts, lockVars, handVars

\* A compaction that fails shows an error.
LEMMA CompactFailsKeeps ==
  ASSUME LockInv, NEW r \in Runs, CompactFails(r)
  PROVE  LockInv'
<1>1. Moved(r, "idle", FALSE)
  BY BecomesMoves DEF LockInv, CompactFails
<1>2. ~run[r].stopped
  BY DEF CompactFails
<1> QED
  BY <1>1, <1>2, CompactFreesKeeps DEF CompactFails, handVars


-----------------------------------------------------------------------------
\* At the start nobody is there.
LEMMA InitLock == Init => LockInv
<1> SUFFICES ASSUME Init PROVE LockInv
  OBVIOUS
<1>1. /\ run = [r \in Runs |-> run[r]]
      /\ \A r \in Runs : run[r] = Fresh("idle", {})
  BY DEF Init
<1>2. /\ IsRun(Fresh("idle", {})) /\ Fresh("idle", {}).pc = "idle"
      /\ Fresh("idle", {}).stopped = FALSE
  BY DEF Fresh, IsRun
<1>3. RunShape /\ \A r \in Runs : run[r].pc = "idle" /\ run[r].stopped = FALSE
  BY <1>1, <1>2 DEF RunShape
<1>4. /\ conv \in Locks /\ rt \in Locks /\ conv.status = "idle" /\ conv.active = None
      /\ rt.status = "idle" /\ rt.active = None
  BY DEF Init, NoLock, Locks
<1>5. claim = None /\ loop = None /\ struck = FALSE
  BY DEF Init
<1>6. LockTypes
  BY <1>4, <1>5 DEF LockTypes
<1> QED
  BY <1>3, <1>4, <1>5, <1>6, RunAssumption DEF LockInv, Claimed, ClaimAlone,
     CompactionAlone, Compacting, LoopRuns, StoppedLooped, LockEpoch, StoppedEpoch, OneRun,
     Working

\* What does not touch the locks and the runs keeps the invariant.
LEMMA OtherKeeps ==
  ASSUME LockInv, UNCHANGED <<lockVars, run, struck>>
  PROVE  LockInv'
  BY DEF lockVars, LockInv, LockTypes, RunShape, Claimed, ClaimAlone, CompactionAlone,
     Compacting, LoopRuns, StoppedLooped, LockEpoch, StoppedEpoch, OneRun, Working

\* Whoever calls puts a message behind what was read.
LEMMA CallPuts ==
  ASSUME NEW r, Calls(r)
  PROVE  \E m \in Messages, read \in readings \cup {transcript} :
           PutBehind(r, m, read) /\ UNCHANGED readings
  BY DEF Calls, Dispatch, SendDirect

\* A dispatch is apart from compactions, a follow-up and a hand-off are because they
\* are under way themselves.
LEMMA CallKeeps ==
  ASSUME LockInv, ~Overlap, NEW r \in Runs,
         \/ Calls(r)
         \/ FollowUp(r)
         \/ HandOff(r)
  PROVE  LockInv'
<1>1. CASE Calls(r)
  <2>1. PICK m \in Messages, read \in readings \cup {transcript} : PutBehind(r, m, read)
    BY <1>1, CallPuts
  <2> QED
    BY <2>1, RunAgentKeeps DEF PutBehind, Apart, Write, handVars
<1>2. CASE FollowUp(r)
  <2>1. \A q \in Runs \ {r} : ~Compacting(q)
    BY <1>2 DEF FollowUp, LockInv, CompactionAlone
  <2> QED
    BY <1>2, <2>1, RunAgentKeeps DEF FollowUp, handVars
<1>3. CASE HandOff(r)
  <2>1. \A q \in Runs \ {r} : ~Compacting(q)
    BY <1>3 DEF HandOff, LockInv, CompactionAlone
  <2> QED
    BY <1>3, <2>1, RunAgentKeeps DEF HandOff, handVars
<1> QED
  BY <1>1, <1>2, <1>3

\* Every step keeps the invariant.
LEMMA NextKeeps ==
  ASSUME LockInv, ~Overlap, [Next]_vars
  PROVE  LockInv'
<1>1. CASE UNCHANGED vars
  BY <1>1, OtherKeeps DEF vars, handVars
<1>2. ASSUME NEW m \in Messages, SendQueued(m)
      PROVE  LockInv'
  BY <1>2, OtherKeeps DEF SendQueued, Write, handVars
<1>0. CASE StartSend \/ EndSend \/ \E r \in Runs : Update(r)
  BY <1>0, OtherKeeps DEF StartSend, EndSend, Update, handVars
<1>3. ASSUME NEW r \in Runs, RunStep(r)
      PROVE  LockInv'
  BY <1>3, CallKeeps, WorkspaceReadyKeeps, WorkspaceFailsKeeps, LockKeeps, StartLoopKeeps,
     SetupFailsKeeps, LoopEndsKeeps, LoopFailsKeeps, WrapUpKeeps, HandOffFailsKeeps,
     CompactGivesUpKeeps, CompactLocksKeeps, CompactEndsKeeps, CompactFailsKeeps, AbortsKeeps,
     CompactPutsKeeps DEF RunStep
<1> QED
  BY <1>0, <1>1, <1>2, <1>3, CallKeeps, CompactKeeps, StopKeeps DEF Next

\* The invariant holds in every state.
LEMMA LockTheorem ==
  ASSUME ~Overlap
  PROVE  Spec => []LockInv
<1>1. LockInv /\ [Next]_vars => LockInv'
  BY NextKeeps
<1> QED
  BY <1>1, InitLock, PTL DEF Spec

-----------------------------------------------------------------------------
\* At most one run works on the conversation, both stores agree on it, and the
\* registry holds no other run's loop, until a rejected hand-off strikes.
THEOREM OneRunTheorem ==
  ASSUME ~Overlap
  PROVE  Spec => []OneRun
<1>1. LockInv => OneRun
  BY DEF LockInv
<1> QED
  BY <1>1, LockTheorem, PTL

\* A step that moves a run leaves the records of the others alone.
LEMMA OthersStay ==
  ASSUME LockInv, NEW r \in Runs, NEW q \in Runs \ {r},
         \/ RunStep(q)
         \/ Compact(q)
         \/ Calls(q)
  PROVE  run'[r] = run[r]
<1> USE DEF LockInv, RunShape
<1>1. CASE Calls(q)
  BY <1>1, CallPuts DEF PutBehind, RunAgent, Becomes, Fresh
<1>2. CASE Compact(q)
  BY <1>2 DEF Compact, Fresh
<1>3. CASE RunStep(q)
  <2>1. CASE FollowUp(q) \/ HandOff(q)
    BY <2>1 DEF FollowUp, HandOff, RunAgent, Becomes, Fresh
  <2>2. CASE WorkspaceReady(q) \/ WorkspaceFails(q) \/ Lock(q) \/ StartLoop(q)
    BY <2>2 DEF WorkspaceReady, WorkspaceFails, Fails, Lock, StartLoop, Goes, Becomes, Fresh
  <2>3. CASE SetupFails(q) \/ LoopEnds(q) \/ LoopFails(q) \/ HandOffFails(q)
    BY <2>3 DEF SetupFails, LoopEnds, LoopFails, HandOffFails, Fails, Becomes, Fresh
  <2>4. CASE WrapUp(q) \/ Aborts(q)
    BY <2>4 DEF WrapUp, Aborts, NextInLine, Goes, Becomes, Fresh
  <2>5. CASE \/ CompactGivesUp(q) \/ CompactLocks(q) \/ CompactEnds(q) \/ CompactFails(q)
              \/ CompactPuts(q)
    BY <2>5 DEF CompactGivesUp, CompactLocks, CompactEnds, CompactFails, CompactPuts, Goes,
       Becomes, Fresh
  <2> QED
    BY <1>3, <2>1, <2>2, <2>3, <2>4, <2>5 DEF RunStep
<1> QED
  BY <1>1, <1>2, <1>3

\* What a stopped run does when its loop returns leaves both stores alone.
LEMMA MuteStep ==
  ASSUME LockInv, [Next]_vars, NEW r \in Runs,
         run[r].stopped, run[r].pc \in {"looping", "compacting"}, run'[r] # run[r]
  PROVE  UNCHANGED <<conv, rt>>
<1>1. ~Stop
  <2> SUFFICES ASSUME Stop PROVE FALSE
    OBVIOUS
  <2>1. loop = r
    BY DEF Stop, LockInv, RunShape
  <2>2. Moved(r, run[r].pc, TRUE) /\ run' = [run EXCEPT ![r].stopped = TRUE]
    BY <2>1, StopMoves DEF Stop, LockInv
  <2>3. IsRun(run[r]) /\ run[r].stopped = TRUE
    BY DEF LockInv, RunShape
  <2>4. run'[r] = [run[r] EXCEPT !.stopped = TRUE]
    BY <2>2 DEF LockInv, RunShape
  <2>5. [run[r] EXCEPT !.stopped = TRUE] = run[r]
    BY <2>3 DEF IsRun
  <2> QED
    BY <2>4, <2>5
<1>2. run' # run
  OBVIOUS
<1>3. RunStep(r)
  <2>1. /\ ~(UNCHANGED vars) /\ \A m \in Messages : ~SendQueued(m)
        /\ ~StartSend /\ ~EndSend /\ \A q \in Runs : ~Update(q)
    BY <1>2 DEF vars, SendQueued, StartSend, EndSend, Update
  <2>2. ~Compact(r) /\ ~Calls(r)
    BY CallPuts DEF Compact, PutBehind
  <2>3. \A q \in Runs \ {r} : ~RunStep(q) /\ ~Compact(q) /\ ~Calls(q)
    BY OthersStay
  <2> QED
    BY <1>1, <2>1, <2>2, <2>3 DEF Next
<1>4. LoopEnds(r) \/ CompactEnds(r)
  BY <1>3 DEF RunStep, FollowUp, WorkspaceReady, WorkspaceFails, Lock, StartLoop,
     SetupFails, LoopFails, Aborts, WrapUp, HandOff, HandOffFails, CompactGivesUp,
     CompactLocks, CompactFails, CompactPuts
<1>5. CASE LoopEnds(r)
  BY <1>5 DEF LoopEnds, Finalize, LockInv, StoppedEpoch
<1>6. CASE CompactEnds(r)
  <2>1. conv.status = "idle" /\ conv.active = None /\ rt.active # r /\ conv \in Locks
    BY <1>6, RunAssumption DEF CompactEnds, LockInv, LockTypes, StoppedEpoch
  <2>2. Freed(conv, "idle") = conv
    BY <2>1 DEF Freed, Locks
  <2> QED
    BY <1>6, <2>1, <2>2 DEF CompactEnds, CompactFrees
<1> QED
  BY <1>4, <1>5, <1>6

\* A run that was stopped changes neither store while its loop unwinds.
THEOREM MuteTheorem ==
  ASSUME ~Overlap
  PROVE  Spec => StoppedIsMute
<1>1. LockInv /\ [Next]_vars =>
        [\A r \in Runs : /\ run[r].stopped /\ run[r].pc \in {"looping", "compacting"}
                         /\ run'[r] # run[r]
                         => UNCHANGED <<conv, rt>>]_vars
  BY MuteStep
<1> QED
  BY <1>1, LockTheorem, PTL DEF Spec, StoppedIsMute

-----------------------------------------------------------------------------
(* Types.  They need neither the lock nor that dispatches keep apart from    *)
(* compactions; what has to be shown is that the queue never grows beyond its*)
(* bound, and that no message is made up when triggers are drained.          *)

QueueTyped == queue \in Seq(Entries) /\ Len(queue) <= MaxQueue

\* A place in the queue whose owner is gone keeps its message.
LEMMA ForgetTyped ==
  ASSUME NEW q \in Seq(Entries), NEW r
  PROVE  Forget(q, r) \in Seq(Entries) /\ Len(Forget(q, r)) = Len(q)
<1>1. \A e \in Entries : [e EXCEPT !.owner = None] \in Entries
  BY DEF Entries
<1>2. DOMAIN q = 1 .. Len(q) /\ Len(q) \in Nat /\ \A i \in DOMAIN q : q[i] \in Entries
  OBVIOUS
<1>3. \A i \in DOMAIN q : (IF q[i].owner = r THEN [q[i] EXCEPT !.owner = None] ELSE q[i]) \in Entries
  BY <1>1, <1>2
<1>4. Forget(q, r) \in [1 .. Len(q) -> Entries]
  BY <1>2, <1>3 DEF Forget
<1> QED
  BY <1>2, <1>4

\* A drain only takes away.
LEMMA DrainedTyped ==
  ASSUME NEW q \in Seq(Entries), NEW owner
  PROVE  Drained(q, owner) \in Seq(Entries) /\ Len(Drained(q, owner)) <= Len(q)
  BY FilterPicks DEF Drained

\* A queue of bounded length stays so when its owner is forgotten,
LEMMA ForgetBounded ==
  ASSUME NEW q \in Seq(Entries), Len(q) <= MaxQueue, NEW r
  PROVE  Forget(q, r) \in Seq(Entries) /\ Len(Forget(q, r)) <= MaxQueue
  BY ForgetTyped

\* when it is drained,
LEMMA DrainedBounded ==
  ASSUME QueueTyped, NEW owner
  PROVE  Drained(queue, owner) \in Seq(Entries) /\ Len(Drained(queue, owner)) <= MaxQueue
<1>1. /\ Drained(queue, owner) \in Seq(Entries) /\ Len(Drained(queue, owner)) <= Len(queue)
      /\ Len(queue) <= MaxQueue
  BY DrainedTyped DEF QueueTyped
<1>2. Len(queue) \in Nat /\ Len(Drained(queue, owner)) \in Nat /\ MaxQueue \in Nat
  BY <1>1, RunAssumption DEF QueueTyped
<1> QED
  BY <1>1, <1>2

\* when an entry is put where there is room,
LEMMA AppendBounded ==
  ASSUME NEW q \in Seq(Entries), Len(q) < MaxQueue, NEW e \in Entries
  PROVE  Append(q, e) \in Seq(Entries) /\ Len(Append(q, e)) <= MaxQueue
  BY RunAssumption

\* and when the first one is taken.
LEMMA TailBounded ==
  ASSUME QueueTyped, queue # <<>>
  PROVE  /\ Tail(queue) \in Seq(Entries) /\ Len(Tail(queue)) <= MaxQueue
         /\ {Head(queue).message} \ {None} \subseteq Messages
<1>1. Head(queue) \in Entries /\ Tail(queue) \in Seq(Entries) /\ Len(Tail(queue)) = Len(queue) - 1
  BY DEF QueueTyped
<1>2. Len(queue) \in Nat /\ Len(queue) <= MaxQueue
  BY DEF QueueTyped
<1> QED
  BY <1>1, <1>2, RunAssumption DEF Entries

\* A run goes on, begins or is over.
LEMMA RunTyped ==
  ASSUME run \in [Runs -> RunStates], NEW r \in Runs
  PROVE  /\ \A p \in Places : Goes(r, p) => run' \in [Runs -> RunStates]
         /\ \A p \in Places : Becomes(r, p) => run' \in [Runs -> RunStates]
         /\ \A p \in Places, seen \in SUBSET Messages :
              run' = [run EXCEPT ![r] = Fresh(p, seen)] => run' \in [Runs -> RunStates]
<1>1. \A p \in Places, seen \in SUBSET Messages : Fresh(p, seen) \in RunStates
  BY DEF Fresh, RunStates
<1>2. \A p \in Places : [run[r] EXCEPT !.pc = p] \in RunStates
  BY DEF RunStates
<1>3. \A p \in Places : Goes(r, p) => run' \in [Runs -> RunStates]
  BY <1>2 DEF Goes
<1>4. \A p \in Places : Becomes(r, p) => run' \in [Runs -> RunStates]
  BY <1>1 DEF Becomes
<1> QED
  BY <1>1, <1>3, <1>4

\* A merge gives back no more than was read and seen, and all that was seen.
LEMMA MergedBetween ==
  ASSUME NEW read, NEW seen, NEW t \in Merged(read, seen)
  PROVE  seen \subseteq t /\ t \subseteq read \cup seen
  BY DEF Merged

\* What the transcript loses were messages.
LEMMA ErasesTyped ==
  ASSUME TypeOK, Erases
  PROVE  erased' \in SUBSET Messages
  BY DEF TypeOK, Erases

\* What a rejected or parked call and a claim leave behind.
LEMMA ParkTyped ==
  ASSUME QueueTyped, claim \in Runs \cup {None}, conv \in Locks, told \in SUBSET Messages,
         NEW m \in SUBSET Messages, Park(m)
  PROVE  QueueTyped' /\ told' \in SUBSET Messages
<1>1. Owner \in Runs \cup {None}
  BY DEF Owner, Locks
<1>2. Trigger(Owner) \in Entries
  BY <1>1 DEF Trigger, Entries
<1>3. Room \in Seq(Entries) /\ Len(Room) <= MaxQueue
  BY DrainedBounded DEF Room, QueueTyped
<1>4. Len(Room) \in Nat /\ MaxQueue \in Nat
  BY <1>3, RunAssumption
<1>5. CASE ~NoRoom /\ queue' = Append(Room, Trigger(Owner)) /\ told' = told
  <2>1. Len(Room) < MaxQueue
    BY <1>4, <1>5 DEF NoRoom
  <2> QED
    BY <1>2, <1>3, <1>5, <2>1, AppendBounded DEF QueueTyped
<1>6. CASE NoRoom /\ queue' = Room /\ told' = told \cup m
  BY <1>3, <1>6 DEF QueueTyped
<1> QED
  BY <1>5, <1>6 DEF Park

\* A history of rejections grows by what is in the transcript.
LEMMA ShownTyped ==
  ASSUME told \in SUBSET Messages, transcript' \in SUBSET Messages, Shown
  PROVE  told' \in SUBSET Messages
  BY DEF Shown

\* The synchronous part of a dispatch.
LEMMA RunAgentTyped ==
  ASSUME TypeOK, NEW r \in Runs, NEW m \in SUBSET Messages, RunAgent(r, m),
         transcript' \in SUBSET Messages
  PROVE  /\ conv' \in Locks /\ rt' \in Locks /\ claim' \in Runs \cup {None}
         /\ loop' \in Runs \cup {None} /\ QueueTyped' /\ run' \in [Runs -> RunStates]
         /\ told' \in SUBSET Messages
<1> USE DEF TypeOK
<1>1. CASE Park(m) /\ Becomes(r, "idle") /\ UNCHANGED lockVars
  <2>1. QueueTyped' /\ told' \in SUBSET Messages
    BY <1>1, ParkTyped DEF QueueTyped
  <2> QED
    BY <1>1, <2>1, RunTyped DEF lockVars, Places
<1>2. CASE /\ claim' = r
           /\ run' = [run EXCEPT ![r] = Fresh("claiming", transcript')]
           /\ UNCHANGED <<conv, rt, loop, queue, told>>
  <2>1. run' \in [Runs -> RunStates]
    BY <1>2, RunTyped DEF Places
  <2> QED
    BY <1>2, <2>1 DEF QueueTyped
<1>3. CASE /\ conv' = Freed(conv, "error") /\ rt' = Freed(rt, "error")
           /\ Becomes(r, "idle") /\ Shown /\ UNCHANGED <<claim, loop, queue>>
  <2>1. conv' \in Locks /\ rt' \in Locks
    BY <1>3, FreedLock
  <2>2. told' \in SUBSET Messages
    BY <1>3, ShownTyped
  <2> QED
    BY <1>3, <2>1, <2>2, RunTyped DEF QueueTyped, Places
<1> QED
  BY <1>1, <1>2, <1>3 DEF RunAgent

\* A dispatch that fails.
LEMMA FailsTyped ==
  ASSUME TypeOK, NEW r \in Runs, NEW drained \in Seq(Entries), Len(drained) <= MaxQueue,
         NEW keptLoop \in Runs \cup {None}, Fails(r, drained, keptLoop)
  PROVE  /\ conv' \in Locks /\ rt' \in Locks /\ loop' \in Runs \cup {None}
         /\ QueueTyped' /\ run' \in [Runs -> RunStates]
<1>1. conv' \in Locks /\ rt' \in Locks
  BY FreedLock DEF TypeOK, Fails
<1>2. QueueTyped'
  BY ForgetBounded DEF Fails, QueueTyped
<1>3. run' \in [Runs -> RunStates]
  BY RunTyped DEF Fails, TypeOK, Places
<1> QED
  BY <1>1, <1>2, <1>3 DEF Fails

\* Calls of runAgent.
LEMMA CallTyped ==
  ASSUME TypeOK, NEW r \in Runs,
         Calls(r) \/ FollowUp(r) \/ HandOff(r)
  PROVE  TypeOK'
<1>1. CASE Calls(r)
  <2>1. PICK m \in Messages, read \in readings \cup {transcript} :
          PutBehind(r, m, read) /\ UNCHANGED readings
    BY <1>1, CallPuts
  <2>2. transcript' \in SUBSET Messages /\ {m} \in SUBSET Messages
    BY <2>1 DEF PutBehind, TypeOK
  <2>3. sent' \in 0 .. MaxMessages
    BY <2>1, RunAssumption DEF PutBehind, Write, Messages
  <2>4. UNCHANGED <<handled, handOffs, struck>> /\ RunAgent(r, {m})
    BY <2>1 DEF PutBehind, Write, handVars
  <2>5. /\ conv' \in Locks /\ rt' \in Locks /\ claim' \in Runs \cup {None}
        /\ loop' \in Runs \cup {None} /\ QueueTyped' /\ run' \in [Runs -> RunStates]
        /\ told' \in SUBSET Messages
    BY <2>2, <2>4, RunAgentTyped
  <2>6. erased' \in SUBSET Messages
    BY <2>1, ErasesTyped DEF PutBehind
  <2> QED
    BY <2>1, <2>2, <2>3, <2>4, <2>5, <2>6 DEF TypeOK, QueueTyped
<1>2. CASE FollowUp(r) \/ HandOff(r)
  <2>1. UNCHANGED <<transcript, readings, erased, sent, handled, handOffs, struck>>
        /\ RunAgent(r, {})
    BY <1>2 DEF FollowUp, HandOff, talk, handVars
  <2>2. /\ conv' \in Locks /\ rt' \in Locks /\ claim' \in Runs \cup {None}
        /\ loop' \in Runs \cup {None} /\ QueueTyped' /\ run' \in [Runs -> RunStates]
        /\ told' \in SUBSET Messages
    BY <2>1, RunAgentTyped DEF TypeOK
  <2> QED
    BY <2>1, <2>2 DEF TypeOK, QueueTyped
<1> QED
  BY <1>1, <1>2

\* A run starts.
LEMMA StartTyped ==
  ASSUME TypeOK, NEW r \in Runs,
         WorkspaceReady(r) \/ WorkspaceFails(r) \/ Lock(r) \/ StartLoop(r)
  PROVE  TypeOK'
<1>1. CASE WorkspaceReady(r)
  <2>1. run' \in [Runs -> RunStates]
    BY <1>1, RunTyped DEF WorkspaceReady, TypeOK, Places
  <2>2. QueueTyped'
    BY <1>1, ForgetBounded DEF WorkspaceReady, TypeOK, QueueTyped
  <2> QED
    BY <1>1, <2>1, <2>2 DEF WorkspaceReady, TypeOK, QueueTyped, talk, asks, handVars
<1>2. CASE WorkspaceFails(r)
  <2>1. PICK owner \in {conv.active, None}, kept \in {loop, None} :
          Fails(r, Drained(queue, owner), kept)
    BY <1>2 DEF WorkspaceFails
  <2>2. kept \in Runs \cup {None}
    BY DEF TypeOK
  <2>3. Drained(queue, owner) \in Seq(Entries) /\ Len(Drained(queue, owner)) <= MaxQueue
    BY DrainedBounded DEF TypeOK, QueueTyped
  <2>4. /\ conv' \in Locks /\ rt' \in Locks /\ loop' \in Runs \cup {None}
        /\ QueueTyped' /\ run' \in [Runs -> RunStates]
    BY <2>1, <2>2, <2>3, FailsTyped
  <2>5. told' \in SUBSET Messages
    BY <1>2, ShownTyped DEF WorkspaceFails, TypeOK, talk
  <2> QED
    BY <1>2, <2>4, <2>5 DEF WorkspaceFails, TypeOK, QueueTyped, talk, handVars
<1>3. CASE Lock(r)
  <2>1. run' \in [Runs -> RunStates]
    BY <1>3, RunTyped DEF Lock, TypeOK, Places
  <2>2. conv' \in Locks /\ rt' \in Locks
    BY <1>3 DEF Lock, Locks
  <2> QED
    BY <1>3, <2>1, <2>2 DEF Lock, TypeOK, talk, asks, handVars
<1>4. CASE StartLoop(r)
  <2>1. run' \in [Runs -> RunStates]
    BY <1>4, RunTyped DEF StartLoop, TypeOK, Places
  <2> QED
    BY <1>4, <2>1 DEF StartLoop, TypeOK, talk, asks, handVars
<1> QED
  BY <1>1, <1>2, <1>3, <1>4

\* A run fails.
LEMMA FailTyped ==
  ASSUME TypeOK, NEW r \in Runs, SetupFails(r) \/ LoopFails(r) \/ HandOffFails(r)
  PROVE  TypeOK'
<1>1. /\ UNCHANGED <<claim, transcript, readings, erased, sent, handled, handOffs>>
      /\ struck' \in BOOLEAN /\ Shown
  BY DEF SetupFails, LoopFails, HandOffFails, TypeOK, talk, handVars
<1>2. told' \in SUBSET Messages
  BY <1>1, ShownTyped DEF TypeOK
<1>3. \A owner : /\ Drained(queue, owner) \in Seq(Entries)
                 /\ Len(Drained(queue, owner)) <= MaxQueue
  BY DrainedBounded DEF TypeOK, QueueTyped
<1>4. /\ conv' \in Locks /\ rt' \in Locks /\ loop' \in Runs \cup {None}
      /\ QueueTyped' /\ run' \in [Runs -> RunStates]
  <2>1. CASE \E owner \in {Owner, claim}, kept \in {loop, None} : Fails(r, Drained(queue, owner), kept)
    <3>1. PICK owner \in {Owner, claim}, kept \in {loop, None} : Fails(r, Drained(queue, owner), kept)
      BY <2>1
    <3> QED
      BY <1>3, <3>1, FailsTyped DEF TypeOK
  <2>2. CASE /\ conv' = IF Current(r) /\ conv.active = r THEN Freed(conv, "error") ELSE conv
             /\ rt' = IF Current(r) THEN Freed(rt, "error") ELSE rt
             /\ queue' = Forget(queue, r)
             /\ Becomes(r, "idle")
             /\ UNCHANGED loop
    <3>1. conv' \in Locks /\ rt' \in Locks
      BY <2>2, FreedLock DEF TypeOK
    <3>2. QueueTyped'
      BY <2>2, ForgetBounded DEF TypeOK, QueueTyped
    <3>3. run' \in [Runs -> RunStates]
      BY <2>2, RunTyped DEF TypeOK, Places
    <3> QED
      BY <2>2, <3>1, <3>2, <3>3 DEF TypeOK
  <2> QED
    BY <2>1, <2>2 DEF SetupFails, LoopFails, HandOffFails
<1> QED
  BY <1>1, <1>2, <1>4 DEF TypeOK, QueueTyped

\* A look at the queue.
LEMMA LookTyped ==
  ASSUME TypeOK, NEW r \in Runs, NextInLine(r)
  PROVE  run' \in [Runs -> RunStates] /\ QueueTyped' /\ transcript' \in SUBSET Messages
<1>1. run' \in [Runs -> RunStates]
  BY RunTyped DEF NextInLine, TypeOK, Places
<1>2. QueueTyped' /\ transcript' \in SUBSET Messages
  BY ForgetBounded, TailBounded DEF NextInLine, TypeOK, QueueTyped
<1> QED
  BY <1>1, <1>2

\* A run ends, is aborted or stopped, hands off or looks at the queue.
LEMMA EndTyped ==
  ASSUME TypeOK, (\E r \in Runs : LoopEnds(r) \/ Update(r) \/ WrapUp(r) \/ Aborts(r)) \/ Stop
  PROVE  TypeOK'
<1>0. ASSUME NEW r \in Runs, NEW t \in Merged(transcript, run[r].sees)
      PROVE  t \in SUBSET Messages
  <2>1. run[r].sees \in SUBSET Messages
    BY DEF TypeOK, RunStates
  <2> QED
    BY <1>0, <2>1, MergedBetween DEF TypeOK
<1>1. ASSUME NEW r \in Runs, LoopEnds(r)
      PROVE  TypeOK'
  <2>1. PICK hands \in BOOLEAN :
          run' = [run EXCEPT ![r] = [pc |-> "ended", sees |-> {}, stopped |-> run[r].stopped,
                                     hands |-> hands]]
    BY <1>1 DEF LoopEnds
  <2>2. [pc |-> "ended", sees |-> {}, stopped |-> run[r].stopped, hands |-> hands] \in RunStates
    BY DEF TypeOK, RunStates, Places
  <2>3. run' \in [Runs -> RunStates]
    BY <2>1, <2>2 DEF TypeOK
  <2>4. conv' \in Locks /\ rt' \in Locks
    BY <1>1, FreedLock DEF LoopEnds, Finalize, TypeOK
  <2>5. handled' \in SUBSET Messages /\ loop' = None
    BY <1>1 DEF LoopEnds, Finalize, TypeOK, RunStates
  <2>6. transcript' \in SUBSET Messages /\ erased' \in SUBSET Messages
    BY <1>0, <1>1, ErasesTyped DEF LoopEnds, Finalize, TypeOK
  <2> QED
    BY <1>1, <2>3, <2>4, <2>5, <2>6 DEF LoopEnds, TypeOK, handVars
<1>2. ASSUME NEW r \in Runs, WrapUp(r)
      PROVE  TypeOK'
  <2>1. UNCHANGED <<conv, rt, claim, loop, readings, sent, told, handled>>
        /\ erased' \in SUBSET Messages
    BY <1>2, ErasesTyped DEF WrapUp, lockVars, asks
  <2>2. CASE /\ handOffs < MaxHandOffs /\ handOffs' = handOffs + 1 /\ UNCHANGED struck
             /\ Goes(r, "handing") /\ UNCHANGED <<queue, transcript>>
    <3>1. run' \in [Runs -> RunStates]
      BY <2>2, RunTyped DEF TypeOK, Places
    <3>2. handOffs' \in 0 .. MaxHandOffs
      BY <2>2, RunAssumption DEF TypeOK
    <3> QED
      BY <2>1, <2>2, <3>1, <3>2 DEF TypeOK
  <2>3. CASE NextInLine(r) /\ UNCHANGED handVars
    BY <2>1, <2>3, LookTyped DEF TypeOK, QueueTyped, handVars
  <2> QED
    BY <1>2, <2>2, <2>3 DEF WrapUp
<1>3. CASE Stop
  <2>1. loop \in Runs /\ run[loop] \in RunStates
    BY <1>3 DEF Stop, TypeOK
  <2>2. [run[loop] EXCEPT !.stopped = TRUE] \in RunStates /\ run[loop].sees \in SUBSET Messages
    BY <2>1 DEF RunStates
  <2>3. run' \in [Runs -> RunStates] /\ handled' \in SUBSET Messages
    BY <1>3, <2>1, <2>2 DEF Stop, TypeOK
  <2>4. conv' \in Locks /\ rt' \in Locks
    BY <1>3, FreedLock DEF Stop, TypeOK, NoLock, Locks
  <2> QED
    BY <1>3, <2>3, <2>4 DEF Stop, TypeOK, talk, handVars
<1>4. ASSUME NEW r \in Runs, Aborts(r)
      PROVE  TypeOK'
  <2>1. conv' \in Locks /\ rt' \in Locks
    BY <1>4, FreedLock DEF Aborts, TypeOK
  <2>2. /\ handled' \in SUBSET Messages /\ erased' \in SUBSET Messages
        /\ claim' \in Runs \cup {None} /\ loop' = None
    BY <1>4, ErasesTyped DEF Aborts, TypeOK, RunStates
  <2> QED
    BY <1>4, <2>1, <2>2, LookTyped DEF Aborts, TypeOK, QueueTyped, handVars
<1>5. ASSUME NEW r \in Runs, Update(r)
      PROVE  TypeOK'
  <2>1. transcript' \in SUBSET Messages /\ erased' \in SUBSET Messages
    BY <1>0, <1>5, ErasesTyped DEF Update
  <2> QED
    BY <1>5, <2>1 DEF Update, TypeOK, lockVars, asks, handVars
<1> QED
  BY <1>1, <1>2, <1>3, <1>4, <1>5

\* A compaction.
LEMMA CompactTyped ==
  ASSUME TypeOK, NEW r \in Runs,
         \/ Compact(r) \/ CompactGivesUp(r) \/ CompactLocks(r) \/ CompactEnds(r)
         \/ CompactPuts(r) \/ CompactFails(r)
  PROVE  TypeOK'
<1>1. CASE Compact(r)
  <2>1. run' \in [Runs -> RunStates]
    BY <1>1, RunTyped DEF Compact, TypeOK, Places
  <2> QED
    BY <1>1, <2>1 DEF Compact, TypeOK, lockVars, talk, asks, handVars
<1>2. CASE CompactGivesUp(r)
  <2>1. run' \in [Runs -> RunStates]
    BY <1>2, RunTyped DEF CompactGivesUp, TypeOK, Places
  <2> QED
    BY <1>2, <2>1 DEF CompactGivesUp, TypeOK, lockVars, talk, asks, handVars
<1>3. CASE CompactLocks(r)
  <2>1. run' \in [Runs -> RunStates]
    BY <1>3, RunTyped DEF CompactLocks, TypeOK, Places
  <2>2. conv' \in Locks /\ rt' \in Locks
    BY <1>3 DEF CompactLocks, Locks
  <2> QED
    BY <1>3, <2>1, <2>2 DEF CompactLocks, TypeOK, talk, asks, handVars
<1>4. CASE CompactEnds(r)
  <2>1. run[r].sees \in SUBSET Messages
    BY DEF TypeOK, RunStates
  <2>2. queue # <<>> /\ Head(queue).message # None => {Head(queue).message} \in SUBSET Messages
    BY TailBounded DEF TypeOK, QueueTyped
  <2>3. run' \in [Runs -> RunStates]
    BY <1>4, <2>2, RunTyped DEF CompactEnds, TypeOK, Places
  <2>4. conv' \in Locks /\ rt' \in Locks
    BY <1>4, FreedLock DEF CompactEnds, CompactFrees, TypeOK
  <2>5. QueueTyped'
    BY <1>4, ForgetBounded, TailBounded DEF CompactEnds, TypeOK, QueueTyped
  <2>6. transcript' \in SUBSET Messages /\ erased' \in SUBSET Messages
    BY <1>4, <2>1, ErasesTyped DEF CompactEnds
  <2> QED
    BY <1>4, <2>3, <2>4, <2>5, <2>6 DEF CompactEnds, CompactFrees, TypeOK, QueueTyped, asks, handVars
<1>6. CASE CompactPuts(r)
  <2>1. run' \in [Runs -> RunStates]
    BY <1>6, RunTyped DEF CompactPuts, TypeOK, Places
  <2>2. transcript' \in SUBSET Messages /\ erased' \in SUBSET Messages
    BY <1>6, ErasesTyped DEF CompactPuts, TypeOK, RunStates
  <2> QED
    BY <1>6, <2>1, <2>2 DEF CompactPuts, TypeOK, lockVars, asks, handVars
<1>5. CASE CompactFails(r)
  <2>1. run' \in [Runs -> RunStates]
    BY <1>5, RunTyped DEF CompactFails, TypeOK, Places
  <2>2. conv' \in Locks /\ rt' \in Locks
    BY <1>5, FreedLock DEF CompactFails, CompactFrees, TypeOK
  <2>3. QueueTyped'
    BY <1>5, ForgetBounded DEF CompactFails, TypeOK, QueueTyped
  <2>4. told' \in SUBSET Messages
    BY <1>5, ShownTyped DEF CompactFails, TypeOK, talk
  <2> QED
    BY <1>5, <2>1, <2>2, <2>3, <2>4 DEF CompactFails, CompactFrees, TypeOK, QueueTyped, talk, handVars
<1> QED
  BY <1>1, <1>2, <1>3, <1>4, <1>5, <1>6

\* A message goes into the queue.
LEMMA SendTyped ==
  ASSUME TypeOK, NEW m \in Messages, SendQueued(m)
  PROVE  TypeOK'
<1>1. Message(m) \in Entries
  BY DEF Message, Entries
<1>2. QueueTyped'
  BY <1>1, AppendBounded DEF SendQueued, TypeOK, QueueTyped
<1>3. sent' \in 0 .. MaxMessages
  BY RunAssumption DEF SendQueued, Write, Messages
<1> QED
  BY <1>2, <1>3 DEF SendQueued, Write, TypeOK, QueueTyped, lockVars, talk, handVars

\* Every step keeps the types.
LEMMA NextTyped ==
  ASSUME TypeOK, [Next]_vars
  PROVE  TypeOK'
<1>1. CASE UNCHANGED vars
  BY <1>1 DEF vars, lockVars, talk, asks, handVars, TypeOK
<1>2. ASSUME NEW r \in Runs, RunStep(r)
      PROVE  TypeOK'
  BY <1>2, CallTyped, StartTyped, FailTyped, EndTyped, CompactTyped DEF RunStep
<1>3. CASE StartSend \/ EndSend
  BY <1>3 DEF StartSend, EndSend, lockVars, asks, handVars, TypeOK
<1> QED
  BY <1>1, <1>2, <1>3, CallTyped, SendTyped, CompactTyped, EndTyped DEF Next

\* At the start every variable has its type.
LEMMA InitTyped == Init => TypeOK
<1> SUFFICES ASSUME Init PROVE TypeOK
  OBVIOUS
<1>1. run \in [Runs -> RunStates]
  BY DEF Init, Fresh, RunStates, Places
<1>2. NoLock \in Locks
  BY DEF NoLock, Locks
<1>3. <<>> \in Seq(Entries) /\ Len(<<>>) <= MaxQueue
  BY RunAssumption
<1>4. 0 \in 0 .. MaxMessages /\ 0 \in 0 .. MaxHandOffs
  BY RunAssumption
<1> QED
  BY <1>1, <1>2, <1>3, <1>4 DEF Init, TypeOK

\* Every variable has its type: the queue keeps its bound also when triggers, messages
\* of the user and drains meet, and nobody answers a message that was never written.
\* Here dispatches may overlap compactions.
THEOREM ConversationTypes == Spec => []TypeOK
<1>1. TypeOK /\ [Next]_vars => TypeOK'
  BY NextTyped
<1> QED
  BY <1>1, InitTyped, PTL DEF Spec

-----------------------------------------------------------------------------
(* Messages.  What is asked is answered, waits in the queue, is in the       *)
(* transcript while a run that sees it is under way or somebody is still to  *)
(* look, or was erased from there by one who had read the transcript before. *)

\* The stores agree, and a run that starts keeps everyone from running: also after a
\* strike, when OneRun says nothing any more.
Agree == conv.status = rt.status /\ conv.active = rt.active
ClaimFree == claim # None => conv.status # "running"
CompactHas == \A r \in Runs : run[r].pc = "compacting" /\ ~run[r].stopped => rt.active = r

\* A compaction gives back the transcript as it is.
CompactSees == \A r \in Runs : Compacting(r) => transcript = run[r].sees

\* What was erased is not there.
ErasedGone == erased \cap transcript = {}

\* While anything waits in the queue there is somebody who will look.
Looks == {"called", "looping", "ended", "handing", "compacting", "taking"}
Busy == claim # None \/ conv.status # "idle" \/ \E r \in Runs : run[r].pc \in Looks
QueueServed == queue # <<>> => Busy

Waits(q, m) == \E i \in DOMAIN q : q[i].message = m
Followed == queue # <<>> \/ \E r \in Runs : run[r].pc \in {"called", "taking"}
Carried(m) == \E r \in Runs : run[r].pc = "taking" /\ m \in run[r].sees
Seen(m) == \E r \in Runs : /\ m \in run[r].sees
                           /\ claim = r \/ (conv.active = r /\ run[r].pc \in {"setup", "looping"})
Asked(m) == \/ m \in handled \cup told \cup erased
            \/ Waits(queue, m) \/ Carried(m)
            \/ m \in transcript /\ (Followed \/ Seen(m))
AllAsked == ~struck => \A m \in 1 .. sent : Asked(m)

TalkInv == /\ TypeOK /\ LockInv /\ Agree /\ ClaimFree /\ CompactHas /\ CompactSees
           /\ ErasedGone /\ QueueServed /\ AllAsked

\* A message stays in a queue whose owner is forgotten,
LEMMA ForgetWaits ==
  ASSUME NEW q \in Seq(Entries), NEW r
  PROVE  /\ \A m : Waits(q, m) => Waits(Forget(q, r), m)
         /\ Forget(q, r) = <<>> <=> q = <<>>
<1>1. DOMAIN Forget(q, r) = DOMAIN q
  BY DEF Forget
<1>2. \A e \in Entries : [e EXCEPT !.owner = None].message = e.message
  BY DEF Entries
<1>3. \A i \in DOMAIN q : q[i] \in Entries
  OBVIOUS
<1>4. \A i \in DOMAIN q : Forget(q, r)[i].message = q[i].message
  BY <1>2, <1>3 DEF Forget
<1>5. \A m : Waits(q, m) => Waits(Forget(q, r), m)
  BY <1>1, <1>4 DEF Waits
<1>6. Len(Forget(q, r)) = Len(q) /\ Forget(q, r) \in Seq(Entries)
  BY ForgetTyped
<1>7. \A s \in Seq(Entries) : s = <<>> <=> Len(s) = 0
  OBVIOUS
<1> QED
  BY <1>5, <1>6, <1>7

\* as in one that is drained:
LEMMA DrainedWaits ==
  ASSUME NEW q \in Seq(Entries), NEW owner
  PROVE  \A m \in Messages : Waits(q, m) => Waits(Drained(q, owner), m)
<1> DEFINE S == {e \in {q[i] : i \in DOMAIN q} : e.message # None \/ (e.owner # None /\ e.owner = owner)}
           d == Filter(q, S)
<1> SUFFICES ASSUME NEW m \in Messages, NEW i \in DOMAIN q, q[i].message = m
             PROVE  Waits(d, m)
  BY DEF Waits, Drained
<1>1. q[i] \in S
  BY RunAssumption DEF Messages
<1>2. Occurs(q, q[i])
  BY DEF Occurs
<1>3. \A e : Occurs(d, e) <=> e \in S /\ Occurs(q, e)
  <2> HIDE DEF S
  <2> QED
    BY FilterOccurs
<1> HIDE DEF d, S
<1>4. Occurs(d, q[i])
  BY <1>1, <1>2, <1>3
<1> QED
  BY <1>4 DEF Occurs, Waits

\* another comes in behind it,
LEMMA AppendWaits ==
  ASSUME NEW q \in Seq(Entries), NEW e \in Entries
  PROVE  /\ \A m : Waits(q, m) => Waits(Append(q, e), m)
         /\ Waits(Append(q, e), e.message)
         /\ Append(q, e) # <<>>
<1> DEFINE a == Append(q, e)
<1>1. /\ a \in Seq(Entries) /\ Len(a) = Len(q) + 1 /\ a[Len(q) + 1] = e /\ Len(q) \in Nat
      /\ \A i \in 1 .. Len(q) : a[i] = q[i]
      /\ DOMAIN q = 1 .. Len(q) /\ DOMAIN a = 1 .. Len(q) + 1
  OBVIOUS
<1>2. a # <<>>
  <2>1. Len(a) # 0 /\ Len(<<>>) = 0
    BY <1>1
  <2> HIDE DEF a
  <2> QED
    BY <2>1
<1> HIDE DEF a
<1>3. Waits(a, e.message)
  BY <1>1 DEF Waits
<1>4. \A m : Waits(q, m) => Waits(a, m)
  BY <1>1 DEF Waits
<1> QED
  BY <1>2, <1>3, <1>4 DEF a

\* and the first is taken away.
LEMMA TailWaits ==
  ASSUME NEW q \in Seq(Entries), q # <<>>
  PROVE  \A m : Waits(q, m) => Waits(Tail(q), m) \/ m = Head(q).message
<1> DEFINE t == Tail(q)
<1>1. Head(q) = q[1] /\ DOMAIN q = 1 .. Len(q) /\ Len(q) \in Nat \ {0}
      /\ DOMAIN t = 1 .. Len(q) - 1 /\ \A i \in 1 .. Len(q) - 1 : t[i] = q[i + 1]
  <2>1. t \in Seq(Entries) /\ Len(t) = Len(q) - 1 /\ \A i \in 1 .. Len(q) - 1 : t[i] = q[i + 1]
    OBVIOUS
  <2>2. Head(q) = q[1] /\ DOMAIN q = 1 .. Len(q) /\ Len(q) \in Nat \ {0}
    OBVIOUS
  <2> HIDE DEF t
  <2> QED
    BY <2>1, <2>2
<1> HIDE DEF t
<1>2. ASSUME NEW m, NEW i \in DOMAIN q, q[i].message = m, i # 1
      PROVE  Waits(t, m)
  <2>1. i - 1 \in 1 .. Len(q) - 1 /\ (i - 1) + 1 = i
    BY <1>1, <1>2
  <2> QED
    BY <1>1, <1>2, <2>1 DEF Waits
<1>3. \A m : Waits(q, m) => Waits(t, m) \/ m = Head(q).message
  BY <1>1, <1>2 DEF Waits
<1> QED
  BY <1>3 DEF t

-----------------------------------------------------------------------------
\* While a compaction goes on the other runs do nothing.
LEMMA AloneActs ==
  ASSUME LockInv, ~Overlap, NEW r \in Runs, Compacting(r), NEW q \in Runs \ {r}
  PROVE  ~RunStep(q) /\ ~Compact(q) /\ ~Update(q) /\ ~Calls(q)
<1>1. run[q].pc = "idle" /\ run[r].pc # "idle"
  BY DEF LockInv, CompactionAlone, Compacting
<1>2. ~RunStep(q)
  BY <1>1 DEF RunStep, FollowUp, WorkspaceReady, WorkspaceFails, Lock, StartLoop, SetupFails,
     LoopEnds, LoopFails, Aborts, WrapUp, HandOff, HandOffFails, CompactGivesUp, CompactLocks,
     CompactEnds, CompactPuts, CompactFails
<1>3. ~Compact(q) /\ ~Update(q)
  BY <1>1 DEF Compact, Update
<1>4. ~Calls(q)
  BY CallPuts DEF PutBehind, Apart
<1> QED
  BY <1>2, <1>3, <1>4

\* A run compacts after a step of its own only if it has begun to, or goes on.
LEMMA CompactsAfter ==
  ASSUME TypeOK, NEW r \in Runs, Compacting(r)',
         RunStep(r) \/ Compact(r) \/ Calls(r)
  PROVE  Compact(r) \/ CompactLocks(r)
<1> USE DEF TypeOK, Compacting
<1>1. ~Calls(r) /\ ~FollowUp(r) /\ ~HandOff(r)
  <2>1. ASSUME NEW m, RunAgent(r, m) PROVE FALSE
    BY <2>1 DEF RunAgent, Becomes, Fresh
  <2> QED
    BY <2>1, CallPuts DEF PutBehind, FollowUp, HandOff
<1>2. ~WorkspaceReady(r) /\ ~WorkspaceFails(r) /\ ~Lock(r) /\ ~StartLoop(r) /\ ~SetupFails(r)
  BY DEF WorkspaceReady, WorkspaceFails, Fails, Lock, StartLoop, SetupFails, Goes, Becomes,
     Fresh, RunStates
<1>3. ~LoopEnds(r) /\ ~LoopFails(r) /\ ~Aborts(r) /\ ~WrapUp(r) /\ ~HandOffFails(r)
  <2>1. ~LoopEnds(r)
    BY DEF LoopEnds
  <2>2. ~LoopFails(r) /\ ~HandOffFails(r)
    BY DEF LoopFails, HandOffFails, Fails, Becomes, Fresh
  <2>3. ~WrapUp(r) /\ ~Aborts(r)
    BY DEF WrapUp, Aborts, NextInLine, Goes, Becomes, Fresh, RunStates
  <2> QED
    BY <2>1, <2>2, <2>3
<1>4. ~CompactGivesUp(r) /\ ~CompactEnds(r) /\ ~CompactPuts(r) /\ ~CompactFails(r)
  BY DEF CompactGivesUp, CompactEnds, CompactPuts, CompactFails, Becomes, Fresh
<1> QED
  BY <1>1, <1>2, <1>3, <1>4 DEF RunStep

\* A compaction keeps the lock until it is stopped, and the transcript is the one it
\* began with.
LEMMA CompactKept ==
  ASSUME TypeOK, LockInv, LockInv', ~Overlap, CompactHas, CompactSees, [Next]_vars
  PROVE  CompactHas' /\ CompactSees'
<1> SUFFICES ASSUME NEW r \in Runs, Compacting(r)'
             PROVE  /\ run'[r].pc = "compacting" /\ ~run'[r].stopped => rt'.active = r
                    /\ transcript' = run'[r].sees
  BY DEF CompactHas, CompactSees, Compacting
<1>1. CASE RunStep(r) \/ Compact(r) \/ Calls(r)
  <2>1. Compact(r) \/ CompactLocks(r)
    BY <1>1, CompactsAfter
  <2>2. CASE Compact(r)
    BY <2>2 DEF Compact, Fresh, TypeOK, RunStates, talk
  <2>3. CASE CompactLocks(r)
    BY <2>3 DEF CompactLocks, Goes, TypeOK, RunStates, CompactSees, Compacting, talk
  <2> QED
    BY <2>1, <2>2, <2>3
<1>2. ASSUME NEW q \in Runs \ {r}, RunStep(q) \/ Compact(q) \/ Update(q) \/ Calls(q)
      PROVE  FALSE
  <2>1. run'[r] = run[r]
    BY <1>2, OthersStay DEF Update
  <2>2. Compacting(r)
    BY <2>1 DEF Compacting
  <2> QED
    BY <1>2, <2>2, AloneActs
<1>3. CASE Stop
  <2>1. loop \in Runs /\ run[loop].pc \in {"looping", "compacting"}
    BY <1>3 DEF Stop, LockInv, LoopRuns, LockTypes
  <2>2. /\ run'[loop].stopped = TRUE /\ run'[r].sees = run[r].sees /\ run'[r].pc = run[r].pc
        /\ transcript' = transcript
    BY <1>3, <2>1 DEF Stop, TypeOK, RunStates, talk
  <2>3. loop = r
    BY <2>1, <2>2 DEF LockInv, CompactionAlone, Compacting
  <2> QED
    BY <2>2, <2>3 DEF CompactSees, Compacting
<1>4. CASE UNCHANGED <<run, rt, transcript>>
  BY <1>4 DEF CompactHas, CompactSees, Compacting
<1>5. \A m \in Messages : SendQueued(m) => UNCHANGED <<run, rt, transcript>>
  BY DEF SendQueued, lockVars, talk
<1>6. StartSend \/ EndSend \/ UNCHANGED vars => UNCHANGED <<run, rt, transcript>>
  BY DEF StartSend, EndSend, vars, lockVars, talk
<1>7. ~Update(r)
  BY DEF Update, Compacting
<1> QED
  BY <1>1, <1>2, <1>3, <1>4, <1>5, <1>6, <1>7 DEF Next

\* Whoever changes the transcript notes what is gone.
LEMMA ErasedKept ==
  ASSUME ErasedGone, [Next]_vars
  PROVE  ErasedGone'
<1>1. Erases => ErasedGone'
  BY DEF Erases, ErasedGone
<1>2. UNCHANGED talk => ErasedGone'
  BY DEF ErasedGone, talk
<1>3. ASSUME NEW r \in Runs, RunStep(r) PROVE Erases \/ UNCHANGED talk
  BY <1>3 DEF RunStep, FollowUp, WorkspaceReady, WorkspaceFails, Lock, StartLoop, SetupFails,
     LoopEnds, LoopFails, Aborts, WrapUp, HandOff, HandOffFails, CompactGivesUp, CompactLocks,
     CompactEnds, CompactPuts, CompactFails
<1>4. ASSUME NEW r \in Runs, Calls(r) \/ Compact(r) \/ Update(r) PROVE Erases \/ UNCHANGED talk
  BY <1>4, CallPuts DEF PutBehind, Compact, Update
<1>5. (\E m \in Messages : SendQueued(m)) \/ Stop \/ UNCHANGED vars => UNCHANGED talk
  BY DEF SendQueued, Stop, vars
<1>6. StartSend \/ EndSend => ErasedGone'
  BY DEF StartSend, EndSend, ErasedGone
<1> QED
  BY <1>1, <1>2, <1>3, <1>4, <1>5, <1>6 DEF Next

\* The two stores change together.
LEMMA AgreeKept ==
  ASSUME TypeOK, LockInv, ~Overlap, Agree, CompactHas, [Next]_vars
  PROVE  Agree'
<1> USE DEF Agree
<1>0. \A lock \in Locks, status \in {"idle", "error"} :
        Freed(lock, status).status = status /\ Freed(lock, status).active = None
  BY FreedLock
<1>1. conv \in Locks /\ rt \in Locks
  BY DEF TypeOK
<1>2. CASE UNCHANGED <<conv, rt>>
  BY <1>2
<1>3. \A status \in {"idle", "error"} :
        conv' = Freed(conv, status) /\ rt' = Freed(rt, status) => Agree'
  BY <1>0, <1>1
<1>4. ASSUME NEW r \in Runs, NEW m, RunAgent(r, m) PROVE Agree'
  BY <1>2, <1>3, <1>4 DEF RunAgent, lockVars
<1>5. ASSUME NEW r \in Runs, NEW d, NEW k, Fails(r, d, k) PROVE Agree'
  BY <1>3, <1>5 DEF Fails
<1>6. ASSUME NEW r \in Runs, SetupFails(r) PROVE Agree'
  <2>1. CASE conv' = (IF Current(r) /\ conv.active = r THEN Freed(conv, "error") ELSE conv)
             /\ rt' = IF Current(r) THEN Freed(rt, "error") ELSE rt
    BY <1>2, <1>3, <2>1 DEF Current
  <2> QED
    BY <1>5, <1>6, <2>1 DEF SetupFails
<1>7. ASSUME NEW r \in Runs, NEW status \in {"idle", "error"}, CompactFrees(r, status),
             run[r].pc = "compacting", run[r].stopped => status = "idle"
      PROVE  Agree'
  <2>1. CASE rt.active = r
    BY <1>3, <1>7, <2>1 DEF CompactFrees
  <2>2. CASE rt.active # r
    <3>1. run[r].stopped /\ status = "idle" /\ conv.status = "idle" /\ rt.active = None
      BY <1>7, <2>2 DEF CompactHas, LockInv, StoppedEpoch
    <3> QED
      BY <1>0, <1>1, <1>7, <2>2, <3>1 DEF CompactFrees
  <2> QED
    BY <2>1, <2>2
<1>8. CASE Stop
  BY <1>0, <1>1, <1>8 DEF Stop, NoLock
<1>9. ASSUME NEW r \in Runs, LoopEnds(r) PROVE Agree'
  BY <1>2, <1>3, <1>9 DEF LoopEnds, Finalize
<1>10. ASSUME NEW r \in Runs, RunStep(r) PROVE Agree'
  <2>1. CASE FollowUp(r) \/ HandOff(r)
    BY <1>4, <2>1 DEF FollowUp, HandOff
  <2>2. CASE WorkspaceFails(r) \/ LoopFails(r) \/ HandOffFails(r)
    BY <1>5, <2>2 DEF WorkspaceFails, LoopFails, HandOffFails
  <2>3. CASE Lock(r) \/ CompactLocks(r)
    BY <2>3 DEF Lock, CompactLocks
  <2>4. CASE CompactEnds(r) \/ CompactFails(r)
    BY <1>7, <2>4 DEF CompactEnds, CompactFails
  <2>5. CASE WorkspaceReady(r) \/ StartLoop(r) \/ WrapUp(r) \/ CompactGivesUp(r) \/ CompactPuts(r)
    BY <2>5 DEF WorkspaceReady, StartLoop, WrapUp, CompactGivesUp, CompactPuts, lockVars
  <2>6. CASE Aborts(r)
    BY <1>3, <2>6 DEF Aborts
  <2> QED
    BY <1>6, <1>9, <1>10, <2>1, <2>2, <2>3, <2>4, <2>5, <2>6 DEF RunStep
<1>11. ASSUME NEW r \in Runs, Calls(r) PROVE Agree'
  BY <1>4, <1>11, CallPuts DEF PutBehind
<1>12. \/ \E r \in Runs : Compact(r) \/ Update(r)
       \/ \E m \in Messages : SendQueued(m)
       \/ StartSend \/ EndSend \/ UNCHANGED vars
       => UNCHANGED <<conv, rt>>
  BY DEF Compact, Update, SendQueued, StartSend, EndSend, vars, lockVars
<1> QED
  BY <1>2, <1>8, <1>10, <1>11, <1>12 DEF Next

\* Nobody takes the lock while another run has the claim.
LEMMA ClaimFreeKept ==
  ASSUME TypeOK, LockInv, ~Overlap, ClaimFree, [Next]_vars
  PROVE  ClaimFree'
<1> USE DEF ClaimFree
<1>0. \A lock \in Locks, status \in {"idle", "error"} : Freed(lock, status).status = status
  BY FreedLock
<1>1. CASE claim' = None
  BY <1>1
<1>2. CASE conv' = conv /\ claim' = claim
  BY <1>2
<1>3. CASE \E status \in {"idle", "error"} : conv' = Freed(conv, status)
  BY <1>0, <1>3 DEF TypeOK
<1>4. ASSUME NEW r \in Runs, NEW m, RunAgent(r, m) PROVE ClaimFree'
  BY <1>2, <1>3, <1>4 DEF RunAgent, Taken, ConvRunning, lockVars
<1>5. ASSUME NEW r \in Runs, CompactLocks(r) PROVE ClaimFree'
  <2>1. claim = None
    <3>1. \A q \in Runs : claim # q
      BY <1>5 DEF CompactLocks, LockInv, CompactionAlone, Compacting, Claimed
    <3> QED
      BY <3>1 DEF TypeOK
  <2> QED
    BY <1>5, <2>1 DEF CompactLocks
<1>6. ASSUME NEW r \in Runs, RunStep(r) PROVE ClaimFree'
  <2>1. CASE FollowUp(r) \/ HandOff(r)
    BY <1>4, <2>1 DEF FollowUp, HandOff
  <2>2. CASE WorkspaceFails(r) \/ LoopFails(r) \/ HandOffFails(r)
    BY <1>3, <2>2 DEF WorkspaceFails, LoopFails, HandOffFails, Fails
  <2>3. CASE Lock(r)
    BY <2>3 DEF Lock
  <2>4. CASE CompactEnds(r) \/ CompactFails(r)
    BY <1>3, <2>4 DEF CompactEnds, CompactFails, CompactFrees
  <2>5. CASE StartLoop(r) \/ WrapUp(r) \/ CompactGivesUp(r) \/ CompactPuts(r)
    BY <1>2, <2>5 DEF StartLoop, WrapUp, CompactGivesUp, CompactPuts, lockVars
  <2>6. CASE WorkspaceReady(r)
    BY <1>1, <1>2, <2>6 DEF WorkspaceReady
  <2>7. CASE SetupFails(r)
    BY <1>2, <1>3, <2>7 DEF SetupFails, Fails
  <2>8. CASE LoopEnds(r)
    BY <1>2, <1>3, <2>8 DEF LoopEnds, Finalize
  <2>9. CASE Aborts(r)
    BY <1>3, <2>9 DEF Aborts
  <2> QED
    BY <1>5, <1>6, <2>1, <2>2, <2>3, <2>4, <2>5, <2>6, <2>7, <2>8, <2>9 DEF RunStep
<1>7. ASSUME NEW r \in Runs, Calls(r) PROVE ClaimFree'
  BY <1>4, <1>7, CallPuts DEF PutBehind
<1>8. CASE Stop
  BY <1>8 DEF Stop, NoLock
<1>9. \/ \E r \in Runs : Compact(r) \/ Update(r)
      \/ \E m \in Messages : SendQueued(m)
      \/ StartSend \/ EndSend \/ UNCHANGED vars
      => conv' = conv /\ claim' = claim
  BY DEF Compact, Update, SendQueued, StartSend, EndSend, vars, lockVars
<1> QED
  BY <1>2, <1>6, <1>7, <1>8, <1>9 DEF Next

-----------------------------------------------------------------------------
\* Where a step takes the run that makes it.
LEMMA Arrives ==
  ASSUME TypeOK, NEW r \in Runs
  PROVE  /\ \A p : Goes(r, p) => /\ run'[r].pc = p /\ run'[r].sees = run[r].sees
                                 /\ \A q \in Runs \ {r} : run'[q] = run[q]
         /\ \A p : Becomes(r, p) => /\ run'[r].pc = p
                                    /\ \A q \in Runs \ {r} : run'[q] = run[q]
         /\ \A p, seen : run' = [run EXCEPT ![r] = Fresh(p, seen)] =>
              /\ run'[r].pc = p /\ run'[r].sees = seen
              /\ \A q \in Runs \ {r} : run'[q] = run[q]
<1>1. run[r] \in RunStates
  BY DEF TypeOK
<1> QED
  BY <1>1 DEF Goes, Becomes, Fresh, TypeOK, RunStates

\* Somebody who looks is there when one goes on to a place where runs look.
LEMMA BusyBy ==
  ASSUME NEW r \in Runs, run'[r].pc \in Looks
  PROVE  Busy'
  BY DEF Busy

\* Whatever ends leaves somebody to look, or an empty queue.
LEMMA ServedKept ==
  ASSUME TypeOK, LockInv, ~Overlap, Agree, QueueServed, [Next]_vars
  PROVE  QueueServed'
<1> USE DEF Busy
<1>0. \A lock \in Locks, status \in {"idle", "error"} : Freed(lock, status).status = status
  BY FreedLock
<1>1. CASE conv' = Freed(conv, "error")
  BY <1>0, <1>1 DEF QueueServed, TypeOK
<1>2. CASE Busy' \/ queue' = <<>>
  BY <1>2 DEF QueueServed
<1>3. ASSUME NEW r \in Runs, NEW m, RunAgent(r, m) PROVE QueueServed'
  BY <1>1, <1>3, RunAssumption DEF RunAgent, Taken, ConvRunning, lockVars, QueueServed
<1>4. ASSUME NEW r \in Runs, run[r].pc \notin Looks, \A q \in Runs \ {r} : run'[q] = run[q],
             conv' = conv, claim' = claim, queue' = <<>> <=> queue = <<>>
      PROVE  QueueServed'
  BY <1>4 DEF QueueServed
<1>5. ASSUME NEW r \in Runs, Calls(r) PROVE QueueServed'
  BY <1>3, <1>5, CallPuts DEF PutBehind
<1>6. CASE Stop
  <2>1. loop \in Runs /\ run[loop].pc \in {"looping", "compacting"}
    BY <1>6 DEF Stop, LockInv, LoopRuns, LockTypes
  <2>2. run'[loop].pc = run[loop].pc
    BY <1>6, <2>1 DEF Stop, TypeOK, RunStates
  <2> QED
    BY <1>2, <2>1, <2>2, BusyBy DEF Looks
<1>7. ASSUME NEW m \in Messages, SendQueued(m) PROVE QueueServed'
  BY <1>7 DEF SendQueued, Agree, lockVars, QueueServed
<1>8. CASE StartSend \/ EndSend \/ (\E r \in Runs : Update(r)) \/ UNCHANGED vars
  BY <1>8 DEF StartSend, EndSend, Update, vars, lockVars, QueueServed
<1>9. ASSUME NEW r \in Runs, Compact(r) PROVE QueueServed'
  <2>1. run[r].pc \notin Looks /\ \A q \in Runs \ {r} : run'[q] = run[q]
    BY <1>9, Arrives DEF Compact, Looks
  <2> QED
    BY <1>4, <1>9, <2>1 DEF Compact, lockVars
<1>10. ASSUME NEW r \in Runs, RunStep(r) PROVE QueueServed'
  <2>1. CASE FollowUp(r) \/ HandOff(r)
    BY <1>3, <2>1 DEF FollowUp, HandOff
  <2>2. CASE WorkspaceFails(r) \/ LoopFails(r) \/ HandOffFails(r) \/ CompactFails(r)
    BY <1>1, <2>2 DEF WorkspaceFails, LoopFails, HandOffFails, CompactFails, CompactFrees, Fails
  <2>3. CASE Lock(r) \/ CompactLocks(r)
    BY <2>3 DEF Lock, CompactLocks, QueueServed
  <2>4. CASE WorkspaceReady(r)
    <3>1. claim = r
      BY <2>4 DEF WorkspaceReady, LockInv, Claimed
    <3> QED
      BY <2>4, <3>1, RunAssumption DEF WorkspaceReady, ConvRunning, QueueServed
  <2>5. CASE StartLoop(r)
    <3>1. run'[r].pc = "looping"
      BY <2>5, Arrives DEF StartLoop
    <3> QED
      BY <1>2, <3>1, BusyBy DEF Looks
  <2>6. CASE SetupFails(r)
    <3>1. CASE conv' = conv /\ queue' = Forget(queue, r) /\ Becomes(r, "idle")
      <4>1. \A q \in Runs \ {r} : run'[q] = run[q]
        BY <3>1, Arrives
      <4>2. queue' = <<>> <=> queue = <<>>
        BY <3>1, ForgetWaits DEF TypeOK
      <4> QED
        BY <1>4, <2>6, <3>1, <4>1, <4>2 DEF SetupFails, Looks
    <3> QED
      BY <1>1, <2>6, <3>1 DEF SetupFails, Fails
  <2>7. CASE LoopEnds(r)
    <3>1. run'[r].pc = "ended"
      BY <2>7 DEF LoopEnds, TypeOK
    <3> QED
      BY <1>2, <3>1, BusyBy DEF Looks
  <2>8. CASE WrapUp(r)
    <3>1. CASE Goes(r, "handing")
      <4>1. run'[r].pc = "handing"
        BY <3>1, Arrives
      <4> QED
        BY <1>2, <4>1, BusyBy DEF Looks
    <3>2. CASE Becomes(r, "called")
      <4>1. run'[r].pc = "called"
        BY <3>2, Arrives
      <4> QED
        BY <1>2, <4>1, BusyBy DEF Looks
    <3>3. CASE conv.status # "idle"
      BY <2>8, <3>3 DEF WrapUp, lockVars, QueueServed
    <3>4. CASE queue = <<>> /\ queue' = Forget(queue, r)
      BY <1>2, <3>4, ForgetWaits DEF TypeOK
    <3> QED
      BY <2>8, <3>1, <3>2, <3>3, <3>4 DEF WrapUp, NextInLine, lockVars
  <2>9. CASE CompactGivesUp(r)
    <3>1. \A q \in Runs \ {r} : run'[q] = run[q]
      BY <2>9, Arrives DEF CompactGivesUp
    <3> QED
      BY <1>4, <2>9, <3>1 DEF CompactGivesUp, lockVars, Looks
  <2>10. CASE CompactEnds(r)
    <3>1. CASE Becomes(r, "called") \/ run' = [run EXCEPT ![r] = Fresh("taking", {Head(queue).message})]
      <4>1. run'[r].pc \in {"called", "taking"}
        BY <3>1, Arrives
      <4> QED
        BY <1>2, <4>1, BusyBy DEF Looks
    <3> QED
      BY <1>2, <2>10, <3>1 DEF CompactEnds
  <2>11. CASE CompactPuts(r)
    <3>1. run'[r].pc = "called"
      BY <2>11, Arrives DEF CompactPuts
    <3> QED
      BY <1>2, <3>1, BusyBy DEF Looks
  <2>12. CASE Aborts(r)
    <3>1. conv'.status = "idle"
      BY <1>0, <2>12 DEF Aborts, TypeOK
    <3>2. CASE Becomes(r, "called")
      <4>1. run'[r].pc = "called"
        BY <3>2, Arrives
      <4> QED
        BY <1>2, <4>1, BusyBy DEF Looks
    <3>3. CASE queue = <<>> /\ queue' = Forget(queue, r)
      BY <1>2, <3>3, ForgetWaits DEF TypeOK
    <3> QED
      BY <2>12, <3>1, <3>2, <3>3 DEF Aborts, NextInLine
  <2> QED
    BY <1>10, <2>1, <2>2, <2>3, <2>4, <2>5, <2>6, <2>7, <2>8, <2>9, <2>10, <2>11, <2>12 DEF RunStep
<1> QED
  BY <1>5, <1>6, <1>7, <1>8, <1>9, <1>10 DEF Next

-----------------------------------------------------------------------------
\* An error on display tells everybody in the transcript.
LEMMA ShownTells ==
  ASSUME Shown, conv'.status = "error"
  PROVE  transcript' \cup told \subseteq told'
  BY DEF Shown

\* What a step does to the queue.
LEMMA QueueCarries ==
  ASSUME TypeOK, NEW r, NEW owner, NEW m \in Messages, Waits(queue, m)
  PROVE  /\ Waits(Forget(queue, r), m)
         /\ Waits(Forget(Drained(queue, owner), r), m)
         /\ Waits(Room, m)
<1>1. queue \in Seq(Entries)
  BY DEF TypeOK
<1>2. \A o : Waits(Drained(queue, o), m) /\ Drained(queue, o) \in Seq(Entries)
  BY <1>1, DrainedWaits, DrainedTyped
<1> QED
  BY <1>1, <1>2, ForgetWaits DEF Room

\* A queue without room is not empty, as it has places.
LEMMA ParkFollows ==
  ASSUME TypeOK, NEW m, Park(m)
  PROVE  /\ queue' # <<>>
         /\ \A n \in Messages : Waits(queue, n) => Waits(queue', n)
<1>1. Room \in Seq(Entries)
  BY DrainedBounded DEF Room, TypeOK, QueueTyped
<1>2. Trigger(Owner) \in Entries
  BY DEF Owner, Trigger, Entries, TypeOK, Locks
<1>3. NoRoom => Room # <<>>
  <2>1. Len(<<>>) < MaxQueue
    BY RunAssumption
  <2> QED
    BY <1>1, <2>1, RunAssumption DEF NoRoom
<1>4. Append(Room, Trigger(Owner)) # <<>>
  BY <1>1, <1>2, AppendWaits
<1>5. \A n \in Messages : Waits(queue, n) => Waits(Room, n) /\ Waits(Append(Room, Trigger(Owner)), n)
  BY <1>1, <1>2, QueueCarries, AppendWaits
<1> QED
  BY <1>3, <1>4, <1>5 DEF Park

\* A run that carries a message goes on to do so while others act.
LEMMA CarriedOn ==
  ASSUME NEW r \in Runs, run[r].pc # "taking", \A q \in Runs \ {r} : run'[q] = run[q],
         NEW m, Carried(m)
  PROVE  Carried(m)'
  BY DEF Carried

\* A dispatch looks after every message of the transcript it leaves behind; what is
\* not in there any more was erased.
LEMMA CallAsks ==
  ASSUME TypeOK, NEW r \in Runs, run[r].pc # "taking", NEW n, RunAgent(r, n),
         handled' = handled, Erases \/ UNCHANGED <<transcript, erased>>,
         NEW m \in Messages, Asked(m) \/ m \in transcript'
  PROVE  Asked(m)'
<1>1. m \in transcript \cup erased => m \in transcript' \cup erased'
  BY DEF Erases
<1>2. Waits(queue', m) => Waits(queue, m)'
  BY DEF Waits
<1>3. Carried(m) => Carried(m)'
  <2>1. \A q \in Runs \ {r} : run'[q] = run[q]
    BY Arrives DEF RunAgent
  <2> QED
    BY <2>1, CarriedOn
<1>4. CASE Park(n)
  <2>1. queue' # <<>> /\ (Waits(queue, m) => Waits(queue', m))
    BY <1>4, ParkFollows
  <2>2. told \subseteq told'
    BY <1>4 DEF Park
  <2>3. Followed'
    BY <2>1 DEF Followed
  <2> QED
    BY <1>1, <1>2, <1>3, <2>1, <2>2, <2>3 DEF Asked
<1>5. CASE /\ claim' = r
           /\ run' = [run EXCEPT ![r] = Fresh("claiming", transcript')]
           /\ UNCHANGED <<queue, told>>
  <2>1. run'[r].sees = transcript'
    BY <1>5 DEF Fresh, TypeOK
  <2>2. m \in transcript' => Seen(m)'
    BY <1>5, <2>1 DEF Seen
  <2> QED
    BY <1>1, <1>2, <1>3, <1>5, <2>2 DEF Asked
<1>6. CASE conv' = Freed(conv, "error") /\ Shown /\ UNCHANGED queue
  <2>1. conv'.status = "error"
    BY <1>6, FreedLock DEF TypeOK
  <2>2. transcript' \cup told \subseteq told'
    BY <1>6, <2>1, ShownTells
  <2> QED
    BY <1>1, <1>2, <1>3, <1>6, <2>2 DEF Asked
<1> QED
  BY <1>4, <1>5, <1>6 DEF RunAgent

\* An error that is shown ends every message of the transcript.
LEMMA ErrorAsks ==
  ASSUME TypeOK, conv' = Freed(conv, "error"), Shown, UNCHANGED <<talk, handled>>,
         NEW r \in Runs, run[r].pc # "taking", Becomes(r, "idle"), NEW owner,
         queue' \in {Forget(queue, r), Forget(Drained(queue, owner), r)},
         NEW m \in Messages, Asked(m)
  PROVE  Asked(m)'
<1>1. conv'.status = "error"
  BY FreedLock DEF TypeOK
<1>2. transcript' \cup told \subseteq told'
  BY <1>1, ShownTells
<1>3. Waits(queue, m) => Waits(queue', m)
  BY QueueCarries
<1>4. Waits(queue', m) => Waits(queue, m)'
  BY DEF Waits
<1>5. Carried(m) => Carried(m)'
  BY Arrives, CarriedOn
<1> QED
  BY <1>2, <1>3, <1>4, <1>5 DEF Asked, talk

\* Whoever takes the first entry and is called looks after all there is.
LEMMA LookAsks ==
  ASSUME TypeOK, NEW r \in Runs, run[r].pc # "taking",
         queue # <<>>, queue' = Forget(Tail(queue), r),
         transcript' = transcript \cup ({Head(queue).message} \ {None}), Erases,
         Becomes(r, "called"), told \subseteq told', handled \subseteq handled',
         NEW m \in Messages, Asked(m)
  PROVE  Asked(m)'
<1>1. run'[r].pc = "called" /\ \A q \in Runs \ {r} : run'[q] = run[q]
  BY Arrives
<1>2. Followed'
  BY <1>1 DEF Followed
<1>3. Tail(queue) \in Seq(Entries)
  BY TailBounded DEF TypeOK, QueueTyped
<1>4. Waits(queue, m) => Waits(Tail(queue), m) \/ m = Head(queue).message
  BY TailWaits DEF TypeOK
<1>5. Waits(Tail(queue), m) => Waits(queue', m)
  BY <1>3, ForgetWaits
<1>6. Waits(queue', m) => Waits(queue, m)'
  BY DEF Waits
<1>7. m # None
  BY RunAssumption DEF Messages
<1>8. Carried(m) => Carried(m)'
  BY <1>1, CarriedOn
<1>9. m \in erased => m \in transcript' \cup erased'
  BY DEF Erases
<1> QED
  BY <1>2, <1>4, <1>5, <1>6, <1>7, <1>8, <1>9 DEF Asked

\* A step that leaves the queue alone, and puts into the transcript only what is seen
\* or answered.
LEMMA MergeAsks ==
  ASSUME ErasedGone, UNCHANGED <<queue, told>>, handled \subseteq handled', Erases,
         NEW r \in Runs, run[r].pc \notin {"called", "taking"}, \A q \in Runs \ {r} : run'[q] = run[q],
         NEW m, Asked(m), Seen(m) => Seen(m)' \/ m \in handled',
         m \in transcript' \ transcript => Seen(m)' \/ m \in handled'
  PROVE  Asked(m)'
<1>1. Followed => Followed'
  BY DEF Followed
<1>2. Waits(queue, m) => Waits(queue, m)'
  BY DEF Waits
<1>3. Carried(m) => Carried(m)'
  BY CarriedOn
<1>4. m \in transcript \cup erased => m \in transcript' \cup erased'
  BY DEF Erases
<1>5. m \in erased => m \notin transcript
  BY DEF ErasedGone
<1> QED
  BY <1>1, <1>2, <1>3, <1>4, <1>5 DEF Asked

\* A step that leaves queue and transcript alone.
LEMMA QuietAsks ==
  ASSUME UNCHANGED <<queue, talk, told>>, handled \subseteq handled',
         NEW r \in Runs, run[r].pc \notin {"called", "taking"},
         \A q \in Runs \ {r} : run'[q] = run[q],
         NEW m, Asked(m), Seen(m) => Seen(m)' \/ m \in handled'
  PROVE  Asked(m)'
<1>1. Followed => Followed'
  BY DEF Followed
<1>2. Waits(queue, m) => Waits(queue, m)'
  BY DEF Waits
<1>3. Carried(m) => Carried(m)'
  BY CarriedOn
<1> QED
  BY <1>1, <1>2, <1>3 DEF Asked, talk

\* A run that starts keeps what it sees, from the claim to the loop.
LEMMA StartAsks ==
  ASSUME TalkInv, ~struck, NEW r \in Runs, NEW m \in Messages, Asked(m),
         WorkspaceReady(r) \/ WorkspaceFails(r) \/ Lock(r) \/ StartLoop(r)
  PROVE  Asked(m)'
<1> USE DEF TalkInv
<1>1. CASE WorkspaceReady(r)
  <2>1. claim = r /\ ~ConvRunning
    BY <1>1, RunAssumption DEF WorkspaceReady, LockInv, Claimed, ClaimFree, ConvRunning
  <2>2. Goes(r, "routing") /\ UNCHANGED <<conv, claim, queue, talk, told, handled>>
    BY <1>1, <2>1 DEF WorkspaceReady, asks
  <2>3. /\ run'[r].sees = run[r].sees /\ run[r].pc = "claiming"
        /\ \A q \in Runs \ {r} : run'[q] = run[q]
    BY <1>1, <2>2, Arrives DEF WorkspaceReady
  <2>4. Seen(m) => Seen(m)'
    BY <2>1, <2>2, <2>3 DEF Seen
  <2> QED
    BY <2>2, <2>3, <2>4, QuietAsks
<1>2. CASE WorkspaceFails(r)
  BY <1>2, ErrorAsks DEF WorkspaceFails, Fails
<1>3. CASE Lock(r)
  <2>1. claim = r /\ conv.active = None
    BY <1>3, RunAssumption DEF Lock, LockInv, Claimed, ClaimAlone
  <2>2. /\ run'[r].pc = "setup" /\ run'[r].sees = run[r].sees /\ run[r].pc = "routing"
        /\ \A q \in Runs \ {r} : run'[q] = run[q]
    BY <1>3, Arrives DEF Lock
  <2>3. Seen(m) => Seen(m)'
    BY <1>3, <2>1, <2>2, RunAssumption DEF Lock, Seen
  <2> QED
    BY <1>3, <2>2, <2>3, QuietAsks DEF Lock, asks
<1>4. CASE StartLoop(r)
  <2>1. /\ run'[r].pc = "looping" /\ run'[r].sees = run[r].sees /\ run[r].pc = "setup"
        /\ \A q \in Runs \ {r} : run'[q] = run[q]
    BY <1>4, Arrives DEF StartLoop
  <2>2. Seen(m) => Seen(m)'
    BY <1>4, <2>1 DEF StartLoop, Seen
  <2> QED
    BY <1>4, <2>1, <2>2, QuietAsks DEF StartLoop, asks
<1> QED
  BY <1>1, <1>2, <1>3, <1>4

\* A set-up or a loop that fails has the lock to give back, and shows the error.
LEMMA FailAsks ==
  ASSUME TalkInv, ~struck, NEW r \in Runs, NEW m \in Messages, Asked(m),
         SetupFails(r) \/ LoopFails(r)
  PROVE  Asked(m)'
<1> USE DEF TalkInv
<1>1. CASE SetupFails(r)
  <2>1. conv.active = r /\ Current(r)
    BY <1>1 DEF SetupFails, LockInv, OneRun, Working, LockEpoch, StoppedLooped, Current
  <2>2. conv' = Freed(conv, "error") /\ Becomes(r, "idle") /\ run[r].pc = "setup"
    BY <1>1, <2>1 DEF SetupFails, Fails
  <2>3. \E owner : queue' \in {Forget(queue, r), Forget(Drained(queue, owner), r)}
    BY <1>1 DEF SetupFails, Fails
  <2> QED
    BY <1>1, <2>2, <2>3, ErrorAsks DEF SetupFails
<1>2. CASE LoopFails(r)
  BY <1>2, ErrorAsks DEF LoopFails, Fails
<1> QED
  BY <1>1, <1>2

\* A loop that goes on or ends looks after what it puts back; one that ends, or is
\* stopped, ends what its run has seen.
LEMMA EndAsks ==
  ASSUME TalkInv, ~struck, NEW m \in Messages, Asked(m),
         (\E r \in Runs : LoopEnds(r) \/ Update(r)) \/ Stop
  PROVE  Asked(m)'
<1> USE DEF TalkInv
<1>1. ASSUME NEW r \in Runs, run[r].pc = "looping"
      PROVE  /\ claim # r
             /\ conv.epoch = r <=> conv.active = r
  BY <1>1 DEF LockInv, Claimed, OneRun, Working, LockEpoch, StoppedEpoch
<1>2. ASSUME NEW r \in Runs, LoopEnds(r)
      PROVE  Asked(m)'
  <2>1. run[r].pc = "looping" /\ \A q \in Runs \ {r} : run'[q] = run[q]
    BY <1>2 DEF LoopEnds, TypeOK
  <2>2. UNCHANGED <<queue, told, claim>> /\ handled \subseteq handled' /\ Erases
    BY <1>2 DEF LoopEnds, Finalize
  <2>3. CASE conv.epoch = r
    <3>1. run[r].sees \subseteq handled' /\ transcript' \in Merged(transcript, run[r].sees)
      BY <1>2, <2>3 DEF LoopEnds, Finalize
    <3>2. Seen(m) => Seen(m)' \/ m \in handled'
      BY <1>1, <2>1, <2>2, <2>3, <3>1 DEF Seen
    <3>3. m \in transcript' \ transcript => m \in handled'
      BY <3>1, MergedBetween
    <3> QED
      BY <2>1, <2>2, <3>2, <3>3, MergeAsks
  <2>4. CASE conv.epoch # r
    <3>1. UNCHANGED <<conv, transcript>>
      BY <1>2, <2>4 DEF LoopEnds, Finalize
    <3>2. Seen(m) => Seen(m)'
      BY <1>1, <2>1, <2>2, <2>4, <3>1 DEF Seen
    <3> QED
      BY <2>1, <2>2, <3>1, <3>2, MergeAsks
  <2> QED
    BY <2>3, <2>4
<1>3. CASE Stop
  <2>1. loop \in Runs /\ conv.active = loop
    BY <1>3 DEF Stop, TypeOK, LockInv, OneRun
  <2>2. run[loop].pc \notin {"called", "taking"} /\ \A q \in Runs \ {loop} : run'[q] = run[q]
    BY <1>3, <2>1, RunAssumption DEF Stop, TypeOK, LockInv, LoopRuns
  <2>3. claim = None
    BY <2>1, RunAssumption DEF LockInv, ClaimAlone
  <2>4. Seen(m) => m \in run[loop].sees
    BY <2>1, <2>3, RunAssumption DEF Seen
  <2>5. UNCHANGED <<queue, talk, told>> /\ handled' = handled \cup run[loop].sees
    BY <1>3 DEF Stop
  <2> QED
    BY <2>1, <2>2, <2>4, <2>5, QuietAsks
<1>4. ASSUME NEW r \in Runs, Update(r)
      PROVE  Asked(m)'
  <2>1. /\ run[r].pc = "looping" /\ conv.active = r
        /\ UNCHANGED <<conv, claim, run, queue, told, handled>> /\ Erases
    BY <1>1, <1>4 DEF Update, lockVars, asks
  <2>2. Seen(m) => Seen(m)'
    BY <2>1 DEF Seen
  <2>3. m \in transcript' \ transcript => Seen(m)'
    BY <1>4, <2>1, MergedBetween DEF Update, Seen
  <2> QED
    BY <2>1, <2>2, <2>3, MergeAsks
<1> QED
  BY <1>2, <1>3, <1>4

\* A run that looks at the queue has nothing left to see for itself.
LEMMA LookedAsks ==
  ASSUME TypeOK, ErasedGone, NEW r \in Runs, run[r].pc \notin {"called", "taking"},
         NextInLine(r), Erases, told' = told, handled \subseteq handled', NEW m \in Messages, Asked(m),
         (\A q \in Runs \ {r} : run'[q] = run[q]) /\ Seen(m) => Seen(m)' \/ m \in handled'
  PROVE  Asked(m)'
<1>1. CASE /\ queue # <<>> /\ queue' = Forget(Tail(queue), r)
           /\ transcript' = transcript \cup ({Head(queue).message} \ {None})
           /\ Becomes(r, "called")
  BY <1>1, LookAsks
<1>2. CASE queue' = Forget(queue, r) /\ Becomes(r, "idle") /\ UNCHANGED transcript
  <2>1. \A q \in Runs \ {r} : run'[q] = run[q]
    BY <1>2, Arrives
  <2>2. Waits(queue, m) => Waits(queue', m)
    BY <1>2, QueueCarries
  <2>3. Waits(queue', m) => Waits(queue, m)'
    BY DEF Waits
  <2>4. queue' = <<>> <=> queue = <<>>
    BY <1>2, ForgetWaits DEF TypeOK
  <2>5. Followed => Followed'
    BY <2>1, <2>4 DEF Followed
  <2>6. Carried(m) => Carried(m)'
    BY <2>1, CarriedOn
  <2>7. m \in erased \cup transcript => m \in erased' \cup transcript'
    BY DEF Erases
  <2>8. m \in transcript' <=> m \in transcript
    BY <1>2
  <2>9. Seen(m) => Seen(m)' \/ m \in handled'
    BY <2>1
  <2>10. m \in erased => m \in erased'
    BY <2>7, <2>8 DEF ErasedGone
  <2> QED
    BY <2>2, <2>3, <2>5, <2>6, <2>8, <2>9, <2>10 DEF Asked
<1> QED
  BY <1>1, <1>2 DEF NextInLine

\* That holds at the end of a run,
LEMMA WrapUpAsks ==
  ASSUME TalkInv, NEW r \in Runs, NEW m \in Messages, Asked(m), WrapUp(r)
  PROVE  Asked(m)'
<1> USE DEF TalkInv
<1>1. /\ run[r].pc = "ended" /\ claim # r
      /\ UNCHANGED <<conv, claim, told, handled>> /\ Erases
  BY DEF WrapUp, LockInv, Claimed, lockVars, asks
<1>2. ASSUME \A q \in Runs \ {r} : run'[q] = run[q]
      PROVE  Seen(m) => Seen(m)'
  BY <1>1, <1>2 DEF Seen
<1>3. CASE Goes(r, "handing") /\ UNCHANGED <<queue, transcript>>
  <2>1. \A q \in Runs \ {r} : run'[q] = run[q]
    BY <1>3, Arrives
  <2> QED
    BY <1>1, <1>2, <1>3, <2>1, MergeAsks
<1>4. CASE NextInLine(r)
  BY <1>1, <1>2, <1>4, LookedAsks
<1> QED
  BY <1>3, <1>4 DEF WrapUp

\* and of one that is aborted, which ends all it has seen.
LEMMA AbortsAsks ==
  ASSUME TalkInv, ~struck, NEW r \in Runs, NEW m \in Messages, Asked(m), Aborts(r)
  PROVE  Asked(m)'
<1> USE DEF TalkInv
<1>1. claim = r \/ (conv.active = r /\ claim = None)
  BY RunAssumption DEF Aborts, LockInv, LockTypes, Claimed, ClaimAlone, OneRun, Working
<1>2. Seen(m) => m \in handled'
  BY <1>1, RunAssumption DEF Aborts, Seen, LockInv, ClaimAlone
<1> QED
  BY <1>2, LookedAsks DEF Aborts

\* No run but the compaction itself is there, so nobody has seen anything that waits.
LEMMA CompactAsks ==
  ASSUME TalkInv, ~struck, ~Overlap, NEW r \in Runs, NEW m \in Messages, Asked(m),
         Compact(r) \/ CompactGivesUp(r) \/ CompactLocks(r) \/ CompactEnds(r) \/ CompactFails(r)
  PROVE  Asked(m)'
<1> USE DEF TalkInv
<1>1. \A q \in Runs \ {r} : run[q].pc = "idle"
  BY DEF Compact, CompactGivesUp, CompactLocks, CompactEnds, CompactFails, LockInv,
     CompactionAlone, Compacting
<1>2. run[r].pc \in {"idle", "preparing", "compacting"}
  BY DEF Compact, CompactGivesUp, CompactLocks, CompactEnds, CompactFails
<1>3. ~Seen(m) /\ ~Carried(m) /\ \A q \in Runs : run[q].pc \notin {"called", "taking"}
  BY <1>1, <1>2 DEF LockInv, Claimed, Seen, Carried
<1>4. CASE Compact(r) \/ CompactGivesUp(r) \/ CompactLocks(r)
  <2>1. \A q \in Runs \ {r} : run'[q] = run[q]
    BY <1>4, Arrives DEF Compact, CompactGivesUp, CompactLocks
  <2>2. UNCHANGED <<queue, talk, told, handled>>
    BY <1>4 DEF Compact, CompactGivesUp, CompactLocks, asks
  <2> QED
    BY <1>3, <2>1, <2>2, QuietAsks
<1>5. CASE CompactEnds(r)
  <2>1. transcript' = transcript /\ erased' = erased /\ UNCHANGED <<told, handled>>
    BY <1>5 DEF CompactEnds, CompactSees, Compacting, Erases, ErasedGone, asks
  <2>2. CASE /\ queue # <<>> /\ queue' = Forget(Tail(queue), r) /\ Becomes(r, "called")
             /\ Head(queue).message = None
    BY <1>3, <1>5, <2>1, <2>2, LookAsks DEF CompactEnds
  <2>3. CASE /\ queue # <<>> /\ queue' = Forget(Tail(queue), r)
             /\ run' = [run EXCEPT ![r] = Fresh("taking", {Head(queue).message})]
    <3>1. run'[r].pc = "taking" /\ run'[r].sees = {Head(queue).message}
      BY <2>3 DEF Fresh, TypeOK
    <3>2. Followed' /\ (m = Head(queue).message => Carried(m)')
      BY <3>1 DEF Followed, Carried
    <3>3. Waits(queue, m) => Waits(Tail(queue), m) \/ m = Head(queue).message
      BY <2>3, TailWaits DEF TypeOK
    <3>4. Waits(Tail(queue), m) => Waits(queue', m)
      BY <2>3, TailBounded, ForgetWaits DEF TypeOK, QueueTyped
    <3>5. Waits(queue', m) => Waits(queue, m)'
      BY DEF Waits
    <3> QED
      BY <1>3, <2>1, <3>2, <3>3, <3>4, <3>5 DEF Asked
  <2>4. CASE queue = <<>> /\ UNCHANGED queue
    <3>1. ~Waits(queue, m) /\ ~Followed
      BY <1>3, <2>4 DEF Waits, Followed
    <3>2. m \in handled \cup told \cup erased
      BY <1>3, <3>1 DEF Asked
    <3> QED
      BY <2>1, <3>2 DEF Asked
  <2> QED
    BY <1>5, <2>2, <2>3, <2>4 DEF CompactEnds
<1>6. CASE CompactFails(r)
  BY <1>3, <1>6, ErrorAsks DEF CompactFails, CompactFrees
<1> QED
  BY <1>4, <1>5, <1>6

\* The message that a compaction took from the queue goes into the transcript.
LEMMA PutsAsks ==
  ASSUME TalkInv, NEW r \in Runs, NEW m \in Messages, Asked(m), CompactPuts(r)
  PROVE  Asked(m)'
<1>1. run'[r].pc = "called" /\ \A q \in Runs \ {r} : run'[q] = run[q]
  BY Arrives DEF CompactPuts, TalkInv
<1>2. Followed'
  BY <1>1 DEF Followed
<1>3. Waits(queue, m) => Waits(queue, m)'
  BY DEF CompactPuts, Waits
<1>4. Carried(m) => Carried(m)' \/ m \in transcript'
  BY <1>1 DEF Carried, CompactPuts
<1>5. transcript \subseteq transcript' /\ Erases /\ UNCHANGED <<told, handled>>
  BY DEF CompactPuts, asks
<1>6. m \in erased => m \in transcript' \cup erased'
  BY <1>5 DEF Erases
<1> QED
  BY <1>2, <1>3, <1>4, <1>5, <1>6 DEF Asked

\* A message that the chat puts into the queue waits there.
LEMMA SendAsks ==
  ASSUME TypeOK, NEW n \in Messages, SendQueued(n), NEW m \in Messages, Asked(m) \/ m = n
  PROVE  Asked(m)'
<1>1. Message(n) \in Entries /\ Message(n).message = n
  BY DEF Message, Entries
<1>2. queue' # <<>> /\ Waits(queue', n) /\ (Waits(queue, m) => Waits(queue', m))
  BY <1>1, AppendWaits DEF SendQueued, TypeOK
<1>3. Waits(queue', m) => Waits(queue, m)'
  BY DEF Waits
<1>4. Waits(queue', n) => Waits(queue, n)'
  BY DEF Waits
<1>5. Followed'
  BY <1>2 DEF Followed
<1>6. Carried(m) => Carried(m)'
  BY DEF Carried, SendQueued
<1> QED
  BY <1>2, <1>3, <1>4, <1>5, <1>6 DEF Asked, SendQueued, Write, talk

\* Every message written so far is still looked after.
LEMMA AskedKept ==
  ASSUME TalkInv, ~Overlap, [Next]_vars
  PROVE  AllAsked'
<1> SUFFICES ASSUME ~struck', NEW m \in 1 .. sent' PROVE Asked(m)'
  BY DEF AllAsked
<1>1. ~struck /\ TypeOK
  <2>1. ASSUME NEW r \in Runs, RunStep(r) PROVE struck => struck'
    BY <2>1 DEF RunStep, FollowUp, WorkspaceReady, WorkspaceFails, Lock, StartLoop, SetupFails,
       LoopEnds, LoopFails, Aborts, WrapUp, HandOff, HandOffFails, CompactGivesUp, CompactLocks,
       CompactEnds, CompactPuts, CompactFails, handVars
  <2>2. ASSUME NEW r \in Runs, Calls(r) \/ Compact(r) \/ Update(r) PROVE struck' = struck
    BY <2>2, CallPuts DEF PutBehind, Write, Compact, Update, handVars
  <2>3. \/ \E n \in Messages : SendQueued(n)
        \/ StartSend \/ EndSend \/ Stop \/ UNCHANGED vars
        => struck' = struck
    BY DEF SendQueued, Write, StartSend, EndSend, Stop, vars, handVars
  <2> QED
    BY <2>1, <2>2, <2>3 DEF TalkInv, Next
<1>2. ASSUME sent' = sent
      PROVE  m \in Messages /\ Asked(m)
  BY <1>1, <1>2, RunAssumption DEF TalkInv, AllAsked, TypeOK, Messages
<1>3. ASSUME NEW n \in Messages, Write(n)
      PROVE  m \in Messages /\ (Asked(m) \/ m = n)
  BY <1>1, <1>3, RunAssumption DEF Write, TalkInv, AllAsked, TypeOK, Messages
<1>4. ASSUME NEW r \in Runs, Calls(r)
      PROVE  Asked(m)'
  <2>1. PICK n \in Messages, read \in readings \cup {transcript} : PutBehind(r, n, read)
    BY <1>4, CallPuts
  <2>2. m \in Messages /\ (Asked(m) \/ m \in transcript')
    BY <1>3, <2>1 DEF PutBehind
  <2> QED
    BY <1>1, <2>1, <2>2, CallAsks DEF PutBehind, Write
<1>5. ASSUME NEW n \in Messages, SendQueued(n)
      PROVE  Asked(m)'
  BY <1>1, <1>3, <1>5, SendAsks DEF SendQueued
<1>6. ASSUME NEW r \in Runs, FollowUp(r) \/ HandOff(r)
      PROVE  Asked(m)'
  BY <1>1, <1>2, <1>6, CallAsks DEF FollowUp, HandOff, talk
<1>7. ASSUME NEW r \in Runs, RunStep(r)
      PROVE  Asked(m)'
  <2>1. CASE FollowUp(r) \/ HandOff(r)
    BY <1>6, <2>1
  <2>2. CASE HandOffFails(r)
    BY <2>2 DEF HandOffFails
  <2>3. CASE ~(FollowUp(r) \/ HandOff(r) \/ HandOffFails(r))
    <3>1. sent' = sent
      BY <1>7, <2>3 DEF RunStep, WorkspaceReady, WorkspaceFails, Lock, StartLoop, SetupFails,
         LoopEnds, LoopFails, Aborts, WrapUp, CompactGivesUp, CompactLocks, CompactEnds,
         CompactPuts, CompactFails, asks
    <3>2. m \in Messages /\ Asked(m)
      BY <1>2, <3>1
    <3> QED
      BY <1>1, <1>7, <2>3, <3>2, StartAsks, FailAsks, EndAsks, WrapUpAsks, AbortsAsks,
         CompactAsks, PutsAsks DEF RunStep
  <2> QED
    BY <2>1, <2>2, <2>3
<1>8. ASSUME NEW r \in Runs, Compact(r)
      PROVE  Asked(m)'
  BY <1>1, <1>2, <1>8, CompactAsks DEF Compact, asks
<1>9. CASE Stop \/ \E r \in Runs : Update(r)
  BY <1>1, <1>2, <1>9, EndAsks DEF Stop, Update, asks
<1>10. CASE StartSend \/ EndSend \/ UNCHANGED vars
  BY <1>2, <1>10 DEF StartSend, EndSend, vars, lockVars, talk, asks, Asked, Waits, Followed,
     Seen, Carried
<1> QED
  BY <1>4, <1>5, <1>7, <1>8, <1>9, <1>10 DEF Next

\* At the start nobody has asked anything.
LEMMA InitTalk == Init => TalkInv
<1> SUFFICES ASSUME Init PROVE TalkInv
  OBVIOUS
<1>1. TypeOK
  BY InitTyped
<1>2. LockInv
  BY InitLock
<1>3. \A r \in Runs : run[r].pc = "idle"
  BY DEF Init, Fresh
<1>4. conv = rt /\ claim = None /\ queue = <<>> /\ sent = 0
  BY DEF Init
<1>5. AllAsked
  <2>1. 1 .. 0 = {}
    OBVIOUS
  <2> QED
    BY <1>4, <2>1 DEF AllAsked
<1> QED
  BY <1>1, <1>2, <1>3, <1>4, <1>5 DEF TalkInv, Agree, ClaimFree, CompactHas, CompactSees,
     Compacting, QueueServed, ErasedGone, Init

\* In a conversation that rests the queue is empty, and every message was answered,
\* stopped, rejected or shown an error, or a send has erased it with an older reading:
\* no call that found the conversation taken, no trigger that was drained, no merge
\* and no run that was stopped or aborted has left behind one that is in the
\* conversation.
THEOREM AnsweredTheorem ==
  ASSUME ~Overlap
  PROVE  Spec => []NothingUnanswered
<1>1. TalkInv /\ [Next]_vars => TalkInv'
  <2> SUFFICES ASSUME TalkInv, [Next]_vars PROVE TalkInv'
    OBVIOUS
  <2>1. TypeOK' /\ LockInv'
    BY NextTyped, NextKeeps DEF TalkInv
  <2>2. Agree' /\ ClaimFree' /\ CompactHas' /\ CompactSees' /\ ErasedGone'
    BY <2>1, AgreeKept, ClaimFreeKept, CompactKept, ErasedKept DEF TalkInv
  <2>3. QueueServed'
    BY ServedKept DEF TalkInv
  <2>4. AllAsked'
    BY AskedKept
  <2> QED
    BY <2>1, <2>2, <2>3, <2>4 DEF TalkInv
<1>2. TalkInv => NothingUnanswered
  <2> SUFFICES ASSUME TalkInv, Quiet
               PROVE  /\ queue = <<>>
                      /\ ~struck => 1 .. sent \subseteq handled \cup told \cup erased
    BY DEF NothingUnanswered
  <2>1. queue = <<>>
    BY DEF TalkInv, QueueServed, Busy, Quiet, Looks
  <2>2. ASSUME ~struck, NEW m \in 1 .. sent PROVE m \in handled \cup told \cup erased
    <3>1. Asked(m)
      BY <2>2 DEF TalkInv, AllAsked
    <3>2. ~Waits(queue, m) /\ ~Followed /\ ~Carried(m)
      BY <2>1 DEF Waits, Followed, Carried, Quiet
    <3>3. ~Seen(m)
      BY RunAssumption DEF Seen, Quiet
    <3> QED
      BY <3>1, <3>2, <3>3 DEF Asked
  <2> QED
    BY <2>1, <2>2
<1> QED
  BY <1>1, <1>2, InitTalk, PTL DEF Spec

=============================================================================
