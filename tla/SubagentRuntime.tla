-------------------------- MODULE SubagentRuntime --------------------------
(***************************************************************************)
(* The sub-agents of a workspace, as web/agent/subagent/runtime.ts runs    *)
(* them.  A task has a queue of messages and at most one processor, which  *)
(* holds one of the execution slots while it feeds the messages to an      *)
(* agent loop.  Spawning, sending, resuming, stopping, the run's time-out  *)
(* and the disposal of the runtime interleave with it at every await.      *)
(*                                                                         *)
(* A status lives twice: in memory, and in a row that a transition         *)
(* compares and swaps.  A transition is two steps, the transaction on the  *)
(* row and the answer that changes the memory.  The single worker serves   *)
(* transactions in the order of the calls (sqlite-database.ts:457), so the *)
(* row changes when the call is made and the answers come in order.        *)
(*                                                                         *)
(* Messages are counted, not told apart.  updated_at only decides whether  *)
(* a save overwrites the row: "ahead" tells that the row has the newer     *)
(* stamp; two calls are taken to have different stamps.  lifecycle_version *)
(* is only compared with the one the run started under: "sameLife".        *)
(***************************************************************************)
EXTENDS Naturals, Sequences, FiniteSets

CONSTANTS Tasks,          \* tasks that may be spawned
          Batch,          \* those one batch_spawn creates; the others come alone
          BatchWorkers,   \* max_concurrency of that batch
          MaxConcurrent,  \* DEFAULT_MAX_CONCURRENT
          MaxQueue,       \* max_queue_size
          Timed,          \* the tasks with an execution time-out
          Called,         \* the tasks the parent calls about once they exist
          Events,         \* what may happen besides spawning, see AllEvents
          MaxCalls        \* bound on the calls made about running tasks

AllEvents == {"send", "resume", "stop", "expiry", "dispose", "restart"}

ASSUME SubagentAssumption == /\ IsFiniteSet(Tasks)
                             /\ Batch \subseteq Tasks
                             /\ BatchWorkers \in Nat \ {0}
                             /\ MaxConcurrent \in Nat \ {0}
                             /\ MaxQueue \in Nat \ {0}
                             /\ Timed \subseteq Tasks
                             /\ Called \subseteq Tasks
                             /\ Events \subseteq AllEvents
                             /\ MaxCalls \in Nat

VARIABLES task,     \* the task in memory
          pc,       \* where its processor is
          row,      \* its row in subagent_tasks
          ahead,    \* whether the row has a newer updated_at than the memory
          cas,      \* transitions made on the row and not answered yet, in order
          stop,     \* the call of stop on the task: "none", "waiting", "killing"
          caller,   \* its spawn: "none", "created", "awaiting" or "told"
          active,   \* activeExecutionSlots
          waiters,  \* executionWaiters
          open,     \* whether the runtime has not been disposed
          calls     \* calls still to be made, see MaxCalls

slotVars == <<pc, active, waiters>>
rowVars == <<row, ahead, cas>>
vars == <<task, pc, row, ahead, cas, stop, caller, active, waiters, open, calls>>

Status == {"none", "pending", "running", "completed", "failed", "killed"}
Ended == {"completed", "failed", "killed"}
Who == {"run", "stop", "timer"}
Places == {"idle", "waiting", "ready", "opening", "starting", "appending", "looping",
           "completing", "failing", "expiring", "leaving"}
\* The processor holds a slot.
Holding == Places \ {"idle", "waiting"}

NewTask == [status |-> "none", queue |-> 0, stopped |-> FALSE, error |-> FALSE,
            sameLife |-> FALSE, timer |-> FALSE, cancelled |-> FALSE]
\* What is stored of a task.
Stored(m) == [status |-> m.status, queue |-> m.queue, stopped |-> m.stopped, error |-> m.error]

Init == /\ task = [t \in Tasks |-> NewTask]
        /\ pc = [t \in Tasks |-> "idle"]
        /\ row = [t \in Tasks |-> Stored(NewTask)]
        /\ ahead = [t \in Tasks |-> FALSE]
        /\ cas = [t \in Tasks |-> <<>>]
        /\ stop = [t \in Tasks |-> "none"]
        /\ caller = [t \in Tasks |-> "none"]
        /\ active = 0
        /\ waiters = <<>>
        /\ open = TRUE
        /\ calls = MaxCalls

-----------------------------------------------------------------------------
(* Status, rows and transitions.                                             *)

\* A change of status starts a new life.
SetStatus(m, s) == [m EXCEPT !.status = s, !.sameLife = @ /\ m.status = s]

\* persistToSQLite: every known task is written unless its row is newer.
Saved(mem, newer) ==
  [t \in Tasks |-> IF mem[t].status = "none" \/ newer[t] THEN row[t] ELSE Stored(mem[t])]

\* The row was written again after these transitions.
Overtaken(requests) == [i \in DOMAIN requests |-> [requests[i] EXCEPT !.late = TRUE]]

\* Faulty: the row is written whatever its status is.
TransitionAnyway(t, who, from, to, m) ==
  /\ task' = [task EXCEPT ![t] = m]
  /\ row' = [row EXCEPT ![t] = Stored([m EXCEPT !.status = to])]
  /\ ahead' = [ahead EXCEPT ![t] = TRUE]
  /\ cas' = [cas EXCEPT ![t] = Append(Overtaken(@), [who |-> who, applied |-> TRUE,
                                                     late |-> FALSE, status |-> to])]

\* transitionStatus: the row takes the new status, and the rest of the task, if
\* its status is one of those expected; the answer tells.
Transition(t, who, from, to, m) ==
  LET applied == row[t].status \in from
  IN  /\ task' = [task EXCEPT ![t] = m]
      /\ row' = IF applied THEN [row EXCEPT ![t] = Stored([m EXCEPT !.status = to])] ELSE row
      /\ ahead' = [ahead EXCEPT ![t] = @ \/ applied]
      /\ cas' = [cas EXCEPT ![t] =
           Append(IF applied THEN Overtaken(@) ELSE @,
                  [who |-> who, applied |-> applied, late |-> FALSE,
                   status |-> IF applied THEN to ELSE row[t].status])]

\* The oldest answer arrives.  Applied or not, the memory takes the status it
\* tells; an applied one also sets updated_at to the time of the call.
Answered(t) == SetStatus(task[t], Head(cas[t]).status)
Answer(t, who, applied) == /\ cas[t] # <<>>
                           /\ Head(cas[t]).who = who
                           /\ Head(cas[t]).applied = applied
                           /\ cas' = [cas EXCEPT ![t] = Tail(@)]
                           /\ ahead' = [ahead EXCEPT ![t] =
                                          IF applied THEN Head(cas[t]).late ELSE @]
                           /\ UNCHANGED row

\* loop.cancel() stops the run in flight; before loop.run it stops nothing.
Cancelled(t, m) == [m EXCEPT !.cancelled = @ \/ pc[t] = "looping"]

-----------------------------------------------------------------------------
(* Execution slots.                                                          *)

\* Faulty: the last slot is given out twice.
AcquireOneMore(t) ==
  \/ /\ active <= MaxConcurrent
     /\ active' = active + 1
     /\ pc' = [pc EXCEPT ![t] = "ready"]
     /\ UNCHANGED waiters
  \/ /\ active > MaxConcurrent
     /\ waiters' = Append(waiters, t)
     /\ pc' = [pc EXCEPT ![t] = "waiting"]
     /\ UNCHANGED active

AcquireSlot(t) ==
  \/ /\ active < MaxConcurrent
     /\ active' = active + 1
     /\ pc' = [pc EXCEPT ![t] = "ready"]
     /\ UNCHANGED waiters
  \/ /\ active >= MaxConcurrent
     /\ waiters' = Append(waiters, t)
     /\ pc' = [pc EXCEPT ![t] = "waiting"]
     /\ UNCHANGED active

\* Faulty: the slot is counted as free and handed over as well.
ReleaseTwice(t) ==
  /\ active' = active - 1
  /\ \/ /\ waiters # <<>>
        /\ waiters' = Tail(waiters)
        /\ pc' = [pc EXCEPT ![t] = "idle", ![Head(waiters)] = "ready"]
     \/ /\ waiters = <<>>
        /\ pc' = [pc EXCEPT ![t] = "idle"]
        /\ UNCHANGED waiters

\* Faulty: nobody in line is told that a slot is free.
ReleaseUnheard(t) ==
  /\ active' = active - 1
  /\ pc' = [pc EXCEPT ![t] = "idle"]
  /\ UNCHANGED waiters

\* Faulty: the last in line goes first.
ReleaseToLast(t) ==
  \/ /\ waiters # <<>>
     /\ waiters' = SubSeq(waiters, 1, Len(waiters) - 1)
     /\ pc' = [pc EXCEPT ![t] = "idle", ![waiters[Len(waiters)]] = "ready"]
     /\ UNCHANGED active
  \/ /\ waiters = <<>>
     /\ active' = active - 1
     /\ pc' = [pc EXCEPT ![t] = "idle"]
     /\ UNCHANGED waiters

\* A slot that is given back goes to the first waiter, without being counted
\* down and up again.
ReleaseSlot(t) ==
  \/ /\ waiters # <<>>
     /\ waiters' = Tail(waiters)
     /\ pc' = [pc EXCEPT ![t] = "idle", ![Head(waiters)] = "ready"]
     /\ UNCHANGED active
  \/ /\ waiters = <<>>
     /\ active' = active - 1
     /\ pc' = [pc EXCEPT ![t] = "idle"]
     /\ UNCHANGED waiters

\* A task is processed once at a time: who asks again is handed the promise of
\* the processor that runs, also when it is on its way out.
EnsureProcessing(t) ==
  \/ /\ pc[t] # "idle"
     /\ UNCHANGED slotVars
  \/ /\ pc[t] = "idle"
     /\ AcquireSlot(t)

-----------------------------------------------------------------------------
(* The calls of the parent agent.                                            *)

\* spawn and batchSpawn create their tasks and wait for them to be stored.
Create(created) ==
  /\ open
  /\ created = Batch \/ \E t \in Tasks \ Batch : created = {t}
  /\ created # {}
  /\ \A t \in created : caller[t] = "none"
  /\ caller' = [t \in Tasks |-> IF t \in created THEN "created" ELSE caller[t]]
  /\ task' = [t \in Tasks |-> IF t \in created
                              THEN [NewTask EXCEPT !.status = "pending", !.queue = 1]
                              ELSE task[t]]
  /\ row' = Saved(task', ahead)
  /\ UNCHANGED <<slotVars, ahead, cas, stop, open, calls>>

\* spawn goes on, or a worker of the batch takes its next task.
Start(t) ==
  /\ caller[t] = "created"
  /\ t \in Batch =>
       Cardinality({u \in Batch : caller[u] = "awaiting"}) < BatchWorkers
  /\ caller' = [caller EXCEPT ![t] = "awaiting"]
  /\ EnsureProcessing(t)
  /\ UNCHANGED <<task, rowVars, stop, open, calls>>

MayCall(t, event) == /\ open
                     /\ t \in Called
                     /\ calls > 0
                     /\ event \in Events
                     /\ caller[t] # "none"
                     /\ calls' = calls - 1

\* How many messages pruneExpiredQueue may find too old.
Expired(t) == IF "expiry" \in Events THEN 0 .. task[t].queue ELSE {0}

\* A task that failed or was killed is pending again, with a clean slate.
Revived(m) == [SetStatus(m, "pending") EXCEPT !.stopped = FALSE, !.error = FALSE]

\* The message is queued: updated_at is now, the tasks are saved and the task
\* gets a processor if it has none.
Enqueue(t, m) ==
  /\ task' = [task EXCEPT ![t] = [m EXCEPT !.queue = @ + 1]]
  /\ ahead' = [ahead EXCEPT ![t] = FALSE]
  /\ cas' = [cas EXCEPT ![t] = Overtaken(@)]
  /\ row' = Saved(task', ahead')
  /\ EnsureProcessing(t)

\* sendMessage.  A full queue loses its oldest message or refuses the new one,
\* which leaves the task revived.
Send(t, old) ==
  /\ MayCall(t, "send")
  /\ task[t].status # "completed"
  /\ old \in Expired(t)
  /\ LET pruned == [task[t] EXCEPT !.queue = @ - old]
         m == IF pruned.status \in Ended THEN Revived(pruned) ELSE pruned
     IN  \/ /\ m.queue < MaxQueue
            /\ Enqueue(t, m)
         \/ /\ m.queue >= MaxQueue          \* drop_oldest
            /\ Enqueue(t, [m EXCEPT !.queue = @ - 1])
         \/ /\ m.queue >= MaxQueue          \* reject
            /\ task' = [task EXCEPT ![t] = m]
            /\ UNCHANGED <<rowVars, slotVars>>
  /\ UNCHANGED <<stop, caller, open>>

\* resume looks neither at the status nor at the length of the queue; MaxQueue
\* bounds it here too.
ResumeTask(t) ==
  /\ MayCall(t, "resume")
  /\ task[t].queue < MaxQueue
  /\ Enqueue(t, [Revived(task[t]) EXCEPT !.timer = FALSE])
  /\ UNCHANGED <<stop, caller, open>>

\* Faulty: a pending task is not expected.
KillStarted(t, m) ==
  /\ Transition(t, "stop", {"running", "failed"}, "killed",
                [m EXCEPT !.stopped = TRUE, !.error = TRUE])
  /\ stop' = [stop EXCEPT ![t] = "killing"]

\* killTask, up to the transition.
Kill(t, m) ==
  /\ Transition(t, "stop", {"pending", "running", "failed"}, "killed",
                [m EXCEPT !.stopped = TRUE, !.error = TRUE])
  /\ stop' = [stop EXCEPT ![t] = "killing"]

\* stop: at once if forced or if nothing runs, otherwise the loop is cancelled
\* and the processor awaited.  One call of stop at a time for each task.
Stop(t, force) ==
  /\ MayCall(t, "stop")
  /\ stop[t] = "none"
  /\ task[t].status \notin Ended
  /\ \/ /\ force
        /\ Kill(t, task[t])
     \/ /\ ~force
        /\ pc[t] = "idle"
        /\ Kill(t, task[t])
     \/ /\ ~force
        /\ pc[t] # "idle"
        /\ task' = [task EXCEPT ![t] = Cancelled(t, [@ EXCEPT !.stopped = TRUE])]
        /\ stop' = [stop EXCEPT ![t] = "waiting"]
        /\ UNCHANGED rowVars
  /\ UNCHANGED <<slotVars, caller, open>>

\* The processor has ended, or stop has waited long enough.
StopWaited(t) == /\ stop[t] = "waiting"
                 /\ Kill(t, task[t])
                 /\ UNCHANGED <<slotVars, caller, open, calls>>

\* stop answers.  The notification reads task.error: if a resume or a message
\* has cleared it, reading it throws and the loop is not cancelled.
StopAnswered(t) ==
  /\ \/ /\ Answer(t, "stop", TRUE)
        /\ LET m == [Answered(t) EXCEPT !.timer = FALSE]
           IN  task' = [task EXCEPT ![t] = IF m.error THEN Cancelled(t, m) ELSE m]
     \/ /\ Answer(t, "stop", FALSE)
        /\ task' = [task EXCEPT ![t] = Answered(t)]
  /\ stop' = [stop EXCEPT ![t] = "none"]
  /\ UNCHANGED <<slotVars, caller, open, calls>>

-----------------------------------------------------------------------------
(* processQueue.                                                             *)

Goto(t, place) == pc' = [pc EXCEPT ![t] = place]
Elsewhere == UNCHANGED <<stop, caller, active, waiters, open, calls>>

\* The run is over: its timer is cleared, and nothing refers to it any more.
RunOver(m) == [m EXCEPT !.timer = FALSE, !.sameLife = FALSE, !.cancelled = FALSE]

\* The head of the loop: nothing left, or the task was stopped.
LeaveQueue(t) ==
  /\ pc[t] = "ready"
  /\ \/ /\ task[t].queue = 0
        /\ UNCHANGED task
     \/ /\ task[t].queue > 0
        /\ task[t].status = "killed" \/ task[t].stopped
        /\ task' = [task EXCEPT ![t] = RunOver(@)]
  /\ Goto(t, "leaving")
  /\ Elsewhere /\ UNCHANGED rowVars

GoesOn(t) == /\ pc[t] = "ready"
             /\ task[t].queue > 0
             /\ task[t].status # "killed" /\ ~task[t].stopped

\* Every message was too old: a pending task fails for it.
AllExpired(t) ==
  /\ GoesOn(t)
  /\ task[t].queue \in Expired(t)
  /\ \/ /\ task[t].status = "pending"
        /\ Transition(t, "run", {"pending"}, "failed", [task[t] EXCEPT !.queue = 0, !.error = TRUE])
        /\ Goto(t, "expiring")
     \/ /\ task[t].status # "pending"
        /\ task' = [task EXCEPT ![t].queue = 0]
        /\ Goto(t, "leaving")
        /\ UNCHANGED rowVars
  /\ Elsewhere

\* A message is taken and the transcript opened.
TakeMessage(t, old) ==
  /\ GoesOn(t)
  /\ old \in Expired(t) \ {task[t].queue}
  /\ task' = [task EXCEPT ![t].queue = @ - old - 1]
  /\ Goto(t, "opening")
  /\ Elsewhere /\ UNCHANGED rowVars

StartRun(t) == /\ pc[t] = "opening"
               /\ Transition(t, "run", {"pending", "running"}, "running", task[t])
               /\ Goto(t, "starting")
               /\ Elsewhere

\* The run begins a life of its own, with its time-out armed if it has one.  If
\* the row refuses, the processor leaves, and the message it took is gone.
RunStarted(t) ==
  /\ pc[t] = "starting"
  /\ \/ /\ Answer(t, "run", TRUE)
        /\ task' = [task EXCEPT ![t] =
                       [Answered(t) EXCEPT !.sameLife = TRUE, !.timer = t \in Timed]]
        /\ Goto(t, "appending")
     \/ /\ Answer(t, "run", FALSE)
        /\ task' = [task EXCEPT ![t] = Answered(t)]
        /\ Goto(t, "leaving")
  /\ Elsewhere

\* The message is in the transcript: loop.run begins, with a new abort signal.
EnterLoop(t) == /\ pc[t] = "appending"
                /\ task' = [task EXCEPT ![t].cancelled = FALSE]
                /\ Goto(t, "looping")
                /\ Elsewhere /\ UNCHANGED rowVars

\* Faulty: a stop that waits for the run is forgotten.
SupersededByLife(t) == task[t].status # "running" \/ ~task[t].sameLife

\* What loop.run gave no longer matters.
Superseded(t) == task[t].stopped \/ task[t].status # "running" \/ ~task[t].sameLife

\* loop.run returns or throws.
RunEnds(t, good) ==
  /\ pc[t] = "looping"
  /\ \/ /\ Superseded(t)
        /\ task' = [task EXCEPT ![t] = RunOver(@)]
        /\ Goto(t, "leaving")
        /\ UNCHANGED rowVars
     \/ /\ ~Superseded(t) /\ good
        /\ Transition(t, "run", {"running"}, "completed", task[t])
        /\ Goto(t, "completing")
     \/ /\ ~Superseded(t) /\ ~good
        /\ Transition(t, "run", {"running"}, "failed", [task[t] EXCEPT !.error = TRUE])
        /\ Goto(t, "failing")
  /\ Elsewhere

\* The outcome is stored.  After a completed run the loop looks at the queue
\* again, after everything else the processor leaves.
RunStored(t) ==
  /\ pc[t] \in {"completing", "failing", "expiring"}
  /\ \E applied \in BOOLEAN :
       /\ Answer(t, "run", applied)
       /\ Goto(t, IF pc[t] = "completing" /\ applied THEN "ready" ELSE "leaving")
  /\ task' = [task EXCEPT ![t] = RunOver(Answered(t))]
  /\ Elsewhere

\* The slot is given back and the promise settles: the spawn that awaits it
\* reads the status, the tasks are saved.
Leave(t) ==
  /\ pc[t] = "leaving"
  /\ ReleaseSlot(t)
  /\ caller' = [caller EXCEPT ![t] = IF @ = "awaiting" THEN "told" ELSE @]
  /\ row' = Saved(task, ahead)
  /\ UNCHANGED <<task, ahead, cas, stop, open, calls>>

-----------------------------------------------------------------------------
(* Time-out, disposal, restart.                                              *)

\* The run takes too long: the timer fires, and fails the run it was armed for.
TimerFires(t) ==
  /\ task[t].timer
  /\ LET m == [task[t] EXCEPT !.timer = FALSE]
     IN  \/ /\ m.status = "running" /\ m.sameLife
            /\ Transition(t, "timer", {"running"}, "failed", [m EXCEPT !.error = TRUE])
         \/ /\ ~(m.status = "running" /\ m.sameLife)
            /\ task' = [task EXCEPT ![t] = m]
            /\ UNCHANGED rowVars
  /\ UNCHANGED <<slotVars, stop, caller, open, calls>>

TimedOut(t) ==
  /\ \/ /\ Answer(t, "timer", TRUE)
        /\ LET m == Answered(t)
           IN  task' = [task EXCEPT ![t] = IF m.error THEN Cancelled(t, m) ELSE m]
     \/ /\ Answer(t, "timer", FALSE)
        /\ task' = [task EXCEPT ![t] = Answered(t)]
  /\ UNCHANGED <<slotVars, stop, caller, open, calls>>

\* shutdown: the conversation is deleted, nobody calls any more.  What runs is
\* marked failed and cancelled.
Dispose ==
  /\ open /\ "dispose" \in Events
  /\ open' = FALSE
  /\ LET hit == {t \in Tasks : task[t].status \in {"pending", "running"}}
     IN  /\ task' = [t \in Tasks |->
              IF t \in hit
              THEN Cancelled(t, [task[t] EXCEPT !.status = "failed", !.error = TRUE,
                                               !.timer = FALSE])
              ELSE task[t]]
         /\ ahead' = [t \in Tasks |-> ahead[t] /\ t \notin hit]
         /\ cas' = [t \in Tasks |-> IF t \in hit THEN Overtaken(cas[t]) ELSE cas[t]]
  /\ row' = Saved(task', ahead')
  /\ UNCHANGED <<slotVars, stop, caller, calls>>

\* The page is loaded again: the runtime is hydrated from the rows, and what was
\* active has failed.
Hydrated(r) ==
  LET cut == r.status \in {"pending", "running"}
  IN  [NewTask EXCEPT !.status = IF cut THEN "failed" ELSE r.status, !.queue = r.queue,
                      !.stopped = r.stopped, !.error = cut \/ r.error]
Restart ==
  /\ "restart" \in Events
  /\ calls > 0
  /\ calls' = calls - 1
  /\ task' = [t \in Tasks |-> Hydrated(row[t])]
  /\ pc' = [t \in Tasks |-> "idle"]
  /\ cas' = [t \in Tasks |-> <<>>]
  /\ ahead' = [t \in Tasks |-> FALSE]
  /\ stop' = [t \in Tasks |-> "none"]
  /\ caller' = [t \in Tasks |-> IF caller[t] = "none" THEN "none" ELSE "told"]
  /\ active' = 0
  /\ waiters' = <<>>
  /\ open' = TRUE
  /\ UNCHANGED row

-----------------------------------------------------------------------------
ProcessorStep(t) == \/ LeaveQueue(t) \/ AllExpired(t)
                    \/ \E old \in Expired(t) : TakeMessage(t, old)
                    \/ StartRun(t) \/ RunStarted(t) \/ EnterLoop(t)
                    \/ \E good \in BOOLEAN : RunEnds(t, good)
                    \/ RunStored(t) \/ Leave(t)
StopStep(t) == StopWaited(t) \/ StopAnswered(t)

Call(t) == \/ \E old \in Expired(t) : Send(t, old)
           \/ ResumeTask(t)
           \/ \E force \in BOOLEAN : Stop(t, force)

Next == \/ \E t \in Tasks : \/ Create({t}) \/ Start(t) \/ Call(t)
                            \/ ProcessorStep(t) \/ StopStep(t)
                            \/ TimerFires(t) \/ TimedOut(t)
        \/ Create(Batch)
        \/ Dispose
        \/ Restart

\* Promises settle, and so does every loop.run: AgentLoop ends with its answer, an
\* error or its abort signal.
Fairness == \A t \in Tasks : /\ WF_vars(Start(t))
                             /\ WF_vars(ProcessorStep(t))
                             /\ WF_vars(StopStep(t))
                             /\ WF_vars(TimedOut(t))

Spec == Init /\ [][Next]_vars /\ Fairness

-----------------------------------------------------------------------------
(* Properties.                                                               *)

TaskStates == [status : Status, queue : 0 .. MaxQueue, stopped : BOOLEAN, error : BOOLEAN,
               sameLife : BOOLEAN, timer : BOOLEAN, cancelled : BOOLEAN]
RowStates == [status : Status, queue : 0 .. MaxQueue, stopped : BOOLEAN, error : BOOLEAN]
Requests == [who : Who, applied : BOOLEAN, late : BOOLEAN, status : Status]

\* The type of every variable.
TypeOK == /\ task \in [Tasks -> TaskStates]
          /\ pc \in [Tasks -> Places]
          /\ row \in [Tasks -> RowStates]
          /\ ahead \in [Tasks -> BOOLEAN]
          /\ cas \in [Tasks -> Seq(Requests)]
          /\ stop \in [Tasks -> {"none", "waiting", "killing"}]
          /\ caller \in [Tasks -> {"none", "created", "awaiting", "told"}]
          /\ active \in 0 .. MaxConcurrent
          /\ waiters \in Seq(Tasks)
          /\ open \in BOOLEAN
          /\ calls \in 0 .. MaxCalls

Holders == {t \in Tasks : pc[t] \in Holding}

\* No slot leaks and none is counted twice, whatever is stopped, resumed or
\* timed out while it waits for one; and nobody waits for a free slot
\* (acquireExecutionSlot, releaseExecutionSlot).
SlotsConserved == /\ active = Cardinality(Holders)
                  /\ waiters # <<>> => active = MaxConcurrent
                  /\ \A t \in Tasks : pc[t] = "waiting" <=> \E i \in DOMAIN waiters : waiters[i] = t
                  /\ \A i, j \in DOMAIN waiters : waiters[i] = waiters[j] => i = j

\* The slots are those of ExecutionSlots: bounded, first come first served and
\* given back, so that who waits gets one.
Slots == INSTANCE ExecutionSlots WITH holders <- Holders, line <- waiters,
                                      Max <- MaxConcurrent
SlotsSafe == Slots!Safe
SlotsServed == Slots!Spec

\* An outcome that memory, row and all answers still to come agree on stands: no late
\* result of a run, no timer, no stop, no save and no restart changes a completed or
\* a stopped task in any of the three; only a new message or a resume makes it pending
\* again (the compare-and-swap of transitionStatus, the stamps of saveBatch).
Settled(t) == /\ task[t].status \in {"completed", "killed"}
              /\ row[t].status = task[t].status
              /\ \A i \in DOMAIN cas[t] : cas[t][i].status = task[t].status
OutcomeStands == [][\A t \in Tasks : Settled(t) =>
                      \/ Settled(t)' /\ task'[t].status = task[t].status
                      \/ task'[t].status = "pending"]_vars

\* When stop has answered, the task has ended.
StopEnds == [][\A t \in Tasks : stop[t] = "killing" /\ stop'[t] = "none"
                                 => task'[t].status \in Ended]_vars

\* A run that was cancelled, by a stop, a time-out or the disposal, is never
\* taken for a completed one, also when its result still arrives.
CancelledNotCompleted == \A t \in Tasks : pc[t] = "completing" => ~task[t].cancelled

\* Every spawn is told an outcome and every stop answers.
CallsReturn == \A t \in Tasks : /\ caller[t] = "created" ~> caller[t] = "told"
                                /\ stop[t] # "none" ~> stop[t] = "none"

\* What the prompt says of send_message_to_subagent, "Send follow-up instruction
\* to a running/pending child": a message that was accepted and taken from the
\* queue is run, unless the task was stopped or failed.
FollowUpRuns == [][\A t \in Tasks : pc[t] = "starting" /\ pc'[t] = "leaving"
                                     => task'[t].status \in {"killed", "failed"}]_vars
=============================================================================
