--------------------------- MODULE SubagentProofs ---------------------------
(***************************************************************************)
(* Proofs about SubagentRuntime, for any tasks, slots, queues, events and  *)
(* bounds on the calls.                                                    *)
(***************************************************************************)
EXTENDS SubagentRuntime, FiniteSetTheorems, TLAPS

-----------------------------------------------------------------------------
(* Slots.  A step of the runtime does one of five things to them.            *)

SlotType == /\ pc \in [Tasks -> Places]
            /\ active \in Nat
            /\ waiters \in Seq(Tasks)

SlotInv == SlotType /\ SlotsConserved /\ active <= MaxConcurrent

Asks(t) == pc[t] = "idle" /\ AcquireSlot(t)
GivesBack(t) == pc[t] = "leaving" /\ ReleaseSlot(t)
GoesOnHolding(t) == /\ pc[t] \in Holding
                    /\ \E place \in Holding : pc' = [pc EXCEPT ![t] = place]
                    /\ UNCHANGED <<active, waiters>>
AllLeave == /\ pc' = [t \in Tasks |-> "idle"]
            /\ active' = 0
            /\ waiters' = <<>>

\* Every step of the runtime moves at most one task in or out of a slot, or all
\* of them out, when the page is loaded again.
LEMMA SlotSteps ==
  [Next]_vars => \/ UNCHANGED slotVars
                 \/ AllLeave
                 \/ \E t \in Tasks : Asks(t) \/ GivesBack(t) \/ GoesOnHolding(t)
<1> SUFFICES ASSUME [Next]_vars
             PROVE  \/ UNCHANGED slotVars
                    \/ AllLeave
                    \/ \E t \in Tasks : Asks(t) \/ GivesBack(t) \/ GoesOnHolding(t)
  OBVIOUS
<1>1. ASSUME NEW t \in Tasks, EnsureProcessing(t)
      PROVE  UNCHANGED slotVars \/ Asks(t)
  BY <1>1 DEF EnsureProcessing, Asks
<1>2. ASSUME NEW t \in Tasks, Create({t}) \/ Create(Batch) \/ Dispose
      PROVE  UNCHANGED slotVars
  BY <1>2 DEF Create, Dispose
<1>3. ASSUME NEW t \in Tasks, Start(t)
      PROVE  UNCHANGED slotVars \/ Asks(t)
  BY <1>1, <1>3 DEF Start
<1>4. ASSUME NEW t \in Tasks, Call(t)
      PROVE  UNCHANGED slotVars \/ Asks(t)
  <2>1. CASE \E old \in Expired(t) : Send(t, old)
    BY <1>1, <2>1 DEF Send, Enqueue
  <2>2. CASE ResumeTask(t)
    BY <1>1, <2>2 DEF ResumeTask, Enqueue
  <2>3. CASE \E force \in BOOLEAN : Stop(t, force)
    BY <2>3 DEF Stop
  <2> QED
    BY <1>4, <2>1, <2>2, <2>3 DEF Call
<1>5. ASSUME NEW t \in Tasks, ProcessorStep(t)
      PROVE  GivesBack(t) \/ GoesOnHolding(t)
  <2>1. ASSUME NEW place \in Holding, pc[t] \in Holding, Goto(t, place), Elsewhere
        PROVE  GoesOnHolding(t)
    BY <2>1 DEF Goto, Elsewhere, GoesOnHolding
  <2>2. /\ {"opening", "starting", "appending", "looping", "completing", "failing",
            "expiring", "ready", "leaving"} \subseteq Holding
    BY DEF Holding, Places
  <2>3. CASE LeaveQueue(t)
    BY <2>1, <2>2, <2>3 DEF LeaveQueue
  <2>4. CASE AllExpired(t)
    BY <2>1, <2>2, <2>4 DEF AllExpired, GoesOn
  <2>5. CASE \E old \in Expired(t) : TakeMessage(t, old)
    BY <2>1, <2>2, <2>5 DEF TakeMessage, GoesOn
  <2>6. CASE StartRun(t)
    BY <2>1, <2>2, <2>6 DEF StartRun
  <2>7. CASE RunStarted(t)
    BY <2>1, <2>2, <2>7 DEF RunStarted
  <2>8. CASE EnterLoop(t)
    BY <2>1, <2>2, <2>8 DEF EnterLoop
  <2>9. CASE \E good \in BOOLEAN : RunEnds(t, good)
    BY <2>1, <2>2, <2>9 DEF RunEnds
  <2>10. CASE RunStored(t)
    BY <2>1, <2>2, <2>10 DEF RunStored
  <2>11. CASE Leave(t)
    BY <2>11 DEF Leave, GivesBack
  <2> QED
    BY <1>5, <2>3, <2>4, <2>5, <2>6, <2>7, <2>8, <2>9, <2>10, <2>11 DEF ProcessorStep
<1>6. ASSUME NEW t \in Tasks, StopStep(t) \/ TimerFires(t) \/ TimedOut(t)
      PROVE  UNCHANGED slotVars
  BY <1>6 DEF StopStep, StopWaited, StopAnswered, TimerFires, TimedOut
<1>7. CASE Restart
  BY <1>7 DEF Restart, AllLeave
<1>8. CASE UNCHANGED vars
  BY <1>8 DEF vars, slotVars
<1>9. CASE Create(Batch) \/ Dispose
  BY <1>9 DEF Create, Dispose
<1> QED
  BY <1>2, <1>3, <1>4, <1>5, <1>6, <1>7, <1>8, <1>9 DEF Next

\* The holders are finitely many, as the tasks are.
LEMMA HoldersFinite == IsFiniteSet(Holders)
  BY SubagentAssumption, FS_Subset DEF Holders

\* ExecutionSlots counts the holders as this module does.
LEMMA SameCount == \A S : Slots!Cardinality(S) = Cardinality(S)
  BY DEF Slots!Cardinality, Cardinality, Slots!IsFiniteSet, IsFiniteSet

\* Initially every slot is free.
LEMMA SlotInvInit == Init => SlotInv
<1> SUFFICES ASSUME Init PROVE SlotInv
  OBVIOUS
<1>1. Holders = {}
  BY DEF Init, Holders, Holding
<1>2. Cardinality(Holders) = 0
  BY <1>1, FS_EmptySet
<1> QED
  BY <1>1, <1>2, SubagentAssumption DEF Init, SlotInv, SlotType, SlotsConserved, Places

\* A task that asks takes a free slot, or stands in line behind the others while
\* every slot is taken.
LEMMA AsksKeeps ==
  ASSUME SlotInv, NEW t \in Tasks, Asks(t)
  PROVE  /\ SlotInv'
         /\ Slots!Ask(t)
<1> USE SubagentAssumption DEF SlotInv, SlotType, SlotsConserved
<1>1. t \notin Holders /\ \A i \in DOMAIN waiters : waiters[i] # t
  BY DEF Asks, Holders, Holding
<1>2. CASE active < MaxConcurrent
  <2>1. /\ active' = active + 1 /\ waiters' = waiters
        /\ pc' = [pc EXCEPT ![t] = "ready"]
    BY <1>2 DEF Asks, AcquireSlot
  <2>2. Holders' = Holders \cup {t}
    BY <2>1 DEF Holders, Holding, Places
  <2>3. Cardinality(Holders') = Cardinality(Holders) + 1
    BY <1>1, <2>2, HoldersFinite, FS_AddElement
  <2>4. SlotInv'
    BY <1>1, <1>2, <2>1, <2>3 DEF Places
  <2> QED
    BY <1>1, <1>2, <2>1, <2>2, <2>4, SameCount DEF Slots!Ask
<1>3. CASE active >= MaxConcurrent
  <2>1. /\ active' = active /\ waiters' = Append(waiters, t)
        /\ pc' = [pc EXCEPT ![t] = "waiting"]
    BY <1>3 DEF Asks, AcquireSlot
  <2>2. Holders' = Holders
    BY <1>1, <2>1 DEF Holders, Holding, Places
  <2>3. /\ waiters' \in Seq(Tasks)
        /\ DOMAIN waiters' = 1 .. Len(waiters) + 1
        /\ \A i \in DOMAIN waiters' : waiters'[i] = IF i \in DOMAIN waiters THEN waiters[i] ELSE t
    BY <2>1
  <2>4. \A u \in Tasks : pc'[u] = "waiting" <=> \E i \in DOMAIN waiters' : waiters'[i] = u
    <3>1. pc'[t] = "waiting" /\ \E i \in DOMAIN waiters' : waiters'[i] = t
      BY <1>1, <2>1, <2>3
    <3>2. ASSUME NEW u \in Tasks, u # t
          PROVE  pc'[u] = "waiting" <=> \E i \in DOMAIN waiters' : waiters'[i] = u
      BY <2>1, <2>3, <3>2
    <3> QED
      BY <3>1, <3>2
  <2>5. \A i, j \in DOMAIN waiters' : waiters'[i] = waiters'[j] => i = j
    BY <1>1, <2>3
  <2>6. SlotInv'
    BY <1>3, <2>1, <2>2, <2>3, <2>4, <2>5 DEF Places
  <2> QED
    BY <1>1, <1>3, <2>1, <2>2, <2>6, SameCount DEF Slots!Ask
<1> QED
  BY <1>2, <1>3

\* A slot that is given back is free, or belongs to the first in line at once.
LEMMA GivesBackKeeps ==
  ASSUME SlotInv, NEW t \in Tasks, GivesBack(t)
  PROVE  /\ SlotInv'
         /\ Slots!GiveBack(t)
<1> USE SubagentAssumption DEF SlotInv, SlotType, SlotsConserved
<1>1. t \in Holders /\ pc[t] = "leaving"
  BY DEF GivesBack, Holders, Holding, Places
<1>2. CASE waiters = <<>>
  <2>1. /\ active' = active - 1 /\ waiters' = waiters
        /\ pc' = [pc EXCEPT ![t] = "idle"]
    BY <1>2 DEF GivesBack, ReleaseSlot
  <2>2. Holders' = Holders \ {t}
    BY <2>1 DEF Holders, Holding, Places
  <2>3. Cardinality(Holders') = Cardinality(Holders) - 1
    BY <1>1, <2>2, HoldersFinite, FS_RemoveElement
  <2>4. Cardinality(Holders') \in Nat
    BY <2>2, HoldersFinite, FS_RemoveElement, FS_CardinalityType
  <2>5. SlotInv'
    BY <1>1, <1>2, <2>1, <2>3, <2>4 DEF Places
  <2> QED
    BY <1>1, <1>2, <2>1, <2>2, <2>5 DEF Slots!GiveBack
<1>3. CASE waiters # <<>>
  <2> DEFINE first == Head(waiters)
  <2>1. /\ active' = active /\ waiters' = Tail(waiters)
        /\ pc' = [pc EXCEPT ![t] = "idle", ![first] = "ready"]
    BY <1>3 DEF GivesBack, ReleaseSlot
  <2>2. /\ first \in Tasks /\ first = waiters[1] /\ 1 \in DOMAIN waiters
        /\ Tail(waiters) \in Seq(Tasks)
        /\ DOMAIN Tail(waiters) = 1 .. Len(waiters) - 1
        /\ \A i \in DOMAIN Tail(waiters) : Tail(waiters)[i] = waiters[i + 1] /\ i + 1 \in DOMAIN waiters
    BY <1>3
  <2>3. pc[first] = "waiting" /\ first # t /\ first \notin Holders
    BY <1>1, <2>2 DEF Holders, Holding
  <2>4. Holders' = (Holders \ {t}) \cup {first}
    BY <2>1, <2>2, <2>3 DEF Holders, Holding, Places
  <2>5. Cardinality(Holders') = Cardinality(Holders)
    <3>1. /\ IsFiniteSet(Holders \ {t})
          /\ Cardinality(Holders \ {t}) = Cardinality(Holders) - 1
      BY <1>1, HoldersFinite, FS_RemoveElement
    <3>2. Cardinality((Holders \ {t}) \cup {first}) = Cardinality(Holders \ {t}) + 1
      BY <2>3, <3>1, FS_AddElement
    <3> QED
      BY <2>4, <3>1, <3>2
  <2>6. \A u \in Tasks : pc'[u] = "waiting" <=> \E i \in DOMAIN waiters' : waiters'[i] = u
    <3>1. ASSUME NEW u \in Tasks, pc'[u] = "waiting"
          PROVE  \E i \in DOMAIN waiters' : waiters'[i] = u
      <4>1. u # first /\ u # t /\ pc[u] = "waiting"
        BY <2>1, <2>2, <3>1
      <4>2. PICK k \in DOMAIN waiters : waiters[k] = u
        BY <4>1
      <4>3. k # 1 /\ k - 1 \in DOMAIN Tail(waiters) /\ Tail(waiters)[k - 1] = u
        BY <2>2, <4>1, <4>2
      <4> QED
        BY <2>1, <4>3
    <3>2. ASSUME NEW u \in Tasks, NEW i \in DOMAIN waiters', waiters'[i] = u
          PROVE  pc'[u] = "waiting"
      <4>1. waiters[i + 1] = u /\ i + 1 \in DOMAIN waiters /\ i + 1 # 1
        BY <2>1, <2>2, <3>2
      <4>2. u # first /\ pc[u] = "waiting"
        BY <2>2, <4>1
      <4> QED
        BY <1>1, <2>1, <4>2
    <3> QED
      BY <3>1, <3>2
  <2>7. \A i, j \in DOMAIN waiters' : waiters'[i] = waiters'[j] => i = j
    BY <2>1, <2>2
  <2>8. SlotInv'
    BY <1>3, <2>1, <2>2, <2>5, <2>6, <2>7 DEF Places
  <2> QED
    BY <1>1, <1>3, <2>1, <2>4, <2>8 DEF Slots!GiveBack
<1> QED
  BY <1>2, <1>3

\* Every step keeps the invariant, and is a step of ExecutionSlots or none.
LEMMA SlotInvStep ==
  SlotInv /\ [Next]_vars => SlotInv' /\ [Slots!Next]_<<Holders, waiters>>
<1> SUFFICES ASSUME SlotInv, [Next]_vars
             PROVE  SlotInv' /\ [Slots!Next]_<<Holders, waiters>>
  OBVIOUS
<1>1. CASE UNCHANGED slotVars
  <2>1. Holders' = Holders /\ waiters' = waiters
    BY <1>1 DEF slotVars, Holders
  <2> QED
    BY <1>1, <2>1 DEF SlotInv, SlotType, SlotsConserved, slotVars
<1>2. CASE AllLeave
  <2>1. Holders' = {} /\ waiters' = <<>>
    BY <1>2 DEF AllLeave, Holders, Holding
  <2>2. Cardinality(Holders') = 0
    BY <2>1, FS_EmptySet
  <2>3. SlotInv'
    BY <1>2, <2>1, <2>2, SubagentAssumption DEF AllLeave, SlotInv, SlotType, SlotsConserved, Places
  <2> QED
    BY <2>1, <2>3 DEF Slots!Next, Slots!Reset
<1>3. ASSUME NEW t \in Tasks, Asks(t)
      PROVE  SlotInv' /\ [Slots!Next]_<<Holders, waiters>>
  BY <1>3, AsksKeeps DEF Slots!Next
<1>4. ASSUME NEW t \in Tasks, GivesBack(t)
      PROVE  SlotInv' /\ [Slots!Next]_<<Holders, waiters>>
  BY <1>4, GivesBackKeeps DEF Slots!Next
<1>5. ASSUME NEW t \in Tasks, GoesOnHolding(t)
      PROVE  SlotInv' /\ [Slots!Next]_<<Holders, waiters>>
  <2>1. PICK place \in Holding : pc' = [pc EXCEPT ![t] = place]
    BY <1>5 DEF GoesOnHolding
  <2>2. Holders' = Holders
    BY <1>5, <2>1 DEF GoesOnHolding, Holders, SlotInv, SlotType
  <2>3. waiters' = waiters /\ active' = active /\ place \in Places
        /\ place # "waiting" /\ pc[t] # "waiting"
    BY <1>5 DEF GoesOnHolding, Holding
  <2> QED
    BY <2>1, <2>2, <2>3 DEF SlotInv, SlotType, SlotsConserved
<1> QED
  BY <1>1, <1>2, <1>3, <1>4, <1>5, SlotSteps

\* No execution slot leaks, none is given out twice and nobody waits for a free
\* one, whatever is stopped, resumed, timed out or loaded again meanwhile.
THEOREM SlotsTheorem == Spec => []SlotsConserved
<1>1. SlotInv => SlotsConserved
  BY DEF SlotInv
<1> QED
  BY <1>1, SlotInvInit, SlotInvStep, PTL DEF Spec

\* The counter and the list of resolvers implement ExecutionSlots: at most
\* MaxConcurrent holders, first come first served.
THEOREM SlotsRefined == Spec => SlotsSafe
<1>1. Init => Slots!Init
  BY DEF Init, Slots!Init, Holders, Holding
<1> QED
  BY <1>1, SlotInvInit, SlotInvStep, PTL DEF Spec, SlotsSafe, Slots!Safe, Slots!slotVars

-----------------------------------------------------------------------------
(* Tasks.                                                                    *)

\* What is known of a transition that waits for its answer: a stop leaves the task
\* ended, and a timer never makes it run.
GoodRequests == {r \in Requests : /\ r.status # "none"
                                  /\ r.who = "stop" => r.status \in Ended
                                  /\ r.who = "timer" => r.status # "running"}

DataType == /\ task \in [Tasks -> TaskStates]
            /\ row \in [Tasks -> RowStates]
            /\ ahead \in [Tasks -> BOOLEAN]
            /\ cas \in [Tasks -> Seq(GoodRequests)]
            /\ stop \in [Tasks -> {"none", "waiting", "killing"}]
            /\ caller \in [Tasks -> {"none", "created", "awaiting", "told"}]
            /\ pc \in [Tasks -> Places]
            /\ open \in BOOLEAN
            /\ calls \in 0 .. MaxCalls

\* Nothing happens to a task before it is created; then it and its row have a status.
Born(t) == IF caller[t] = "none"
           THEN /\ task[t] = NewTask
                /\ row[t] = Stored(NewTask)
                /\ cas[t] = <<>>
                /\ ~ahead[t]
                /\ stop[t] = "none"
                /\ pc[t] = "idle"
           ELSE /\ task[t].status # "none"
                /\ row[t].status # "none"

\* A cancelled run is superseded for as long as it lasts.
LoopOK(t) == /\ pc[t] = "looping" /\ task[t].cancelled => Superseded(t)
             /\ pc[t] = "completing" => ~task[t].cancelled

TasksOK == \A t \in Tasks : Born(t) /\ LoopOK(t)
DataInv == DataType /\ TasksOK

\* Marking transitions as overtaken changes neither how many they are nor what
\* they will answer.
LEMMA OvertakenType ==
  ASSUME NEW q \in Seq(GoodRequests)
  PROVE  /\ Overtaken(q) \in Seq(GoodRequests)
         /\ q = <<>> => Overtaken(q) = <<>>
<1>1. q \in [1 .. Len(q) -> GoodRequests] /\ DOMAIN q = 1 .. Len(q) /\ Len(q) \in Nat
  OBVIOUS
<1>2. ASSUME NEW i \in 1 .. Len(q)
      PROVE  [q[i] EXCEPT !.late = TRUE] \in GoodRequests
  <2>1. q[i] \in GoodRequests
    BY <1>1, <1>2
  <2> QED
    BY <2>1 DEF GoodRequests, Requests
<1>3. Overtaken(q) \in [1 .. Len(q) -> GoodRequests]
  BY <1>1, <1>2 DEF Overtaken
<1>4. Overtaken(q) \in Seq(GoodRequests)
  BY <1>1, <1>3
<1>5. ASSUME q = <<>> PROVE Overtaken(q) = <<>>
  <2>1. DOMAIN Overtaken(q) = 1 .. 0
    BY <1>1, <1>5 DEF Overtaken
  <2> QED
    BY <1>4, <2>1
<1> QED
  BY <1>4, <1>5

\* Saving keeps rows rows, and gives one to every task that has a status.
LEMMA SavedType ==
  ASSUME row \in [Tasks -> RowStates], NEW mem \in [Tasks -> TaskStates], NEW newer
  PROVE  /\ Saved(mem, newer) \in [Tasks -> RowStates]
         /\ \A t \in Tasks :
              /\ mem[t].status # "none" /\ row[t].status # "none" => Saved(mem, newer)[t].status # "none"
              /\ mem[t].status = "none" => Saved(mem, newer)[t] = row[t]
              /\ mem[t].status # "none" /\ ~newer[t] => Saved(mem, newer)[t] = Stored(mem[t])
  BY DEF Saved, Stored, TaskStates, RowStates

\* A new status is a change of life.
LEMMA SetStatusType ==
  ASSUME NEW m \in TaskStates, NEW s \in Status
  PROVE  /\ SetStatus(m, s) \in TaskStates
         /\ SetStatus(m, s).status = s
         /\ SetStatus(m, s).stopped = m.stopped
         /\ SetStatus(m, s).cancelled = m.cancelled
         /\ SetStatus(m, s).queue = m.queue
         /\ SetStatus(m, s).sameLife => m.sameLife /\ m.status = s
  BY DEF SetStatus, TaskStates

\* The transitions the runtime makes: a stop ends the task, a timer does not make
\* it run.
Proper(who, from, to) ==
  /\ who \in Who /\ to \in Status /\ to # "none"
  /\ who = "stop" => to \in Ended /\ {"pending", "running", "failed"} \subseteq from
  /\ who = "timer" => to # "running" /\ "running" \in from

\* A transition writes the memory as it is told, and asks for a good answer if the
\* row has a status.
LEMMA TransitionType ==
  ASSUME DataType, NEW t \in Tasks, NEW who, NEW from, NEW to, Proper(who, from, to),
         NEW m \in TaskStates, row[t].status # "none",
         Transition(t, who, from, to, m)
  PROVE  /\ task' = [task EXCEPT ![t] = m]
         /\ task' \in [Tasks -> TaskStates]
         /\ row' \in [Tasks -> RowStates]
         /\ row'[t].status # "none"
         /\ \A u \in Tasks : u # t => row'[u] = row[u] /\ cas'[u] = cas[u] /\ ahead'[u] = ahead[u]
         /\ ahead' \in [Tasks -> BOOLEAN]
         /\ cas' \in [Tasks -> Seq(GoodRequests)]
<1> DEFINE applied == row[t].status \in from
           answer == [who |-> who, applied |-> applied, late |-> FALSE,
                      status |-> IF applied THEN to ELSE row[t].status]
           queued == IF applied THEN Overtaken(cas[t]) ELSE cas[t]
<1>1. row[t] \in RowStates /\ cas[t] \in Seq(GoodRequests)
  BY DEF DataType
<1>2. answer \in GoodRequests
  <2>1. answer \in Requests
    BY <1>1 DEF Requests, RowStates, Proper
  <2> QED
    BY <1>1, <2>1 DEF GoodRequests, RowStates, Status, Ended, Proper
<1>3. queued \in Seq(GoodRequests)
  BY <1>1, OvertakenType
<1>4. Append(queued, answer) \in Seq(GoodRequests)
  BY <1>2, <1>3
<1>5. cas' = [cas EXCEPT ![t] = Append(queued, answer)]
  BY DEF Transition
<1>6. cas' \in [Tasks -> Seq(GoodRequests)] /\ \A u \in Tasks : u # t => cas'[u] = cas[u]
  BY <1>4, <1>5 DEF DataType
<1>7. Stored([m EXCEPT !.status = to]) \in RowStates /\ Stored([m EXCEPT !.status = to]).status = to
  BY DEF Stored, RowStates, TaskStates, Proper
<1>8. /\ row' \in [Tasks -> RowStates] /\ row'[t].status # "none"
      /\ \A u \in Tasks : u # t => row'[u] = row[u]
  BY <1>7 DEF Transition, DataType, Proper
<1> QED
  BY <1>6, <1>8 DEF Transition, DataType

\* An answer is good, and is the only thing it takes away.
LEMMA AnswerType ==
  ASSUME DataType, NEW t \in Tasks, NEW who, NEW applied \in BOOLEAN, Answer(t, who, applied)
  PROVE  /\ Head(cas[t]) \in GoodRequests
         /\ Head(cas[t]).who = who
         /\ cas[t] # <<>>
         /\ cas' \in [Tasks -> Seq(GoodRequests)]
         /\ \A u \in Tasks : u # t => cas'[u] = cas[u] /\ ahead'[u] = ahead[u]
         /\ ahead' \in [Tasks -> BOOLEAN]
         /\ row' = row
         /\ Answered(t) \in TaskStates
         /\ Answered(t).status = Head(cas[t]).status
         /\ Answered(t).status # "none"
         /\ Answered(t).cancelled = task[t].cancelled
         /\ Answered(t).stopped = task[t].stopped
         /\ Answered(t).sameLife => task[t].sameLife /\ task[t].status = Answered(t).status
<1>1. cas[t] \in Seq(GoodRequests) /\ cas[t] # <<>> /\ task[t] \in TaskStates
  BY DEF DataType, Answer
<1>2. Head(cas[t]) \in GoodRequests /\ Tail(cas[t]) \in Seq(GoodRequests)
  BY <1>1
<1>3. cas' \in [Tasks -> Seq(GoodRequests)] /\ \A u \in Tasks : u # t => cas'[u] = cas[u]
  BY <1>2 DEF DataType, Answer
<1>4. Head(cas[t]).late \in BOOLEAN /\ Head(cas[t]).status \in Status /\ Head(cas[t]).status # "none"
  BY <1>2 DEF GoodRequests, Requests
<1>5. /\ ahead' \in [Tasks -> BOOLEAN] /\ row' = row /\ Head(cas[t]).who = who
      /\ \A u \in Tasks : u # t => ahead'[u] = ahead[u]
  BY <1>4 DEF DataType, Answer
<1> QED
  BY <1>1, <1>2, <1>3, <1>4, <1>5, SetStatusType DEF Answered

\* What a step may do to a task it is not about: save its row, or hand it a slot.
Calm(u) == /\ caller'[u] = caller[u] /\ task'[u] = task[u]
           /\ cas'[u] = cas[u] /\ stop'[u] = stop[u] /\ ahead'[u] = ahead[u]
           /\ \/ row'[u] = row[u]
              \/ caller[u] # "none" /\ row'[u].status # "none"
           /\ \/ pc'[u] = pc[u]
              \/ pc[u] # "idle" /\ pc'[u] \in {"ready", "idle"}

\* A step that is about one task keeps what is known of the others.
LEMMA OneTask ==
  ASSUME DataInv, NEW t \in Tasks, DataType', Born(t)', LoopOK(t)',
         \A u \in Tasks : u # t => Calm(u)
  PROVE  DataInv'
<1>1. ASSUME NEW u \in Tasks, u # t
      PROVE  Born(u)' /\ LoopOK(u)'
  <2>1. Born(u) /\ LoopOK(u) /\ Calm(u)
    BY <1>1 DEF DataInv, TasksOK
  <2>2. Born(u)'
    BY <2>1 DEF Born, Calm
  <2>3. LoopOK(u)'
    BY <2>1 DEF LoopOK, Calm, Superseded
  <2> QED
    BY <2>2, <2>3
<1> QED
  BY <1>1 DEF DataInv, TasksOK

\* Asking for a processor moves an idle task only.
LEMMA EnsureType ==
  ASSUME pc \in [Tasks -> Places], NEW t \in Tasks, EnsureProcessing(t)
  PROVE  /\ pc' \in [Tasks -> Places]
         /\ \A u \in Tasks : u # t => pc'[u] = pc[u]
         /\ pc'[t] = pc[t] \/ pc'[t] \in {"ready", "waiting"}
  BY DEF EnsureProcessing, AcquireSlot, slotVars, Places

\* A message for a task: its memory is replaced, its row saved.
LEMMA EnqueueKeeps ==
  ASSUME DataInv, NEW t \in Tasks, NEW m \in TaskStates, caller[t] # "none",
         m.queue < MaxQueue, m.status # "none",
         pc[t] = "looping" /\ m.cancelled =>
           m.stopped \/ m.status # "running" \/ ~m.sameLife,
         m.cancelled = task[t].cancelled,
         Enqueue(t, m), UNCHANGED <<stop, caller, open>>, calls' \in 0 .. MaxCalls
  PROVE  DataInv'
<1> DEFINE n == [m EXCEPT !.queue = @ + 1]
<1>1. /\ n \in TaskStates /\ n.status = m.status /\ n.cancelled = m.cancelled
      /\ n.stopped = m.stopped /\ n.sameLife = m.sameLife
  BY SubagentAssumption DEF TaskStates
<1>2. task' = [task EXCEPT ![t] = n] /\ task' \in [Tasks -> TaskStates]
  BY <1>1 DEF Enqueue, DataInv, DataType
<1>3. ahead' \in [Tasks -> BOOLEAN] /\ ahead' = [ahead EXCEPT ![t] = FALSE]
  BY DEF Enqueue, DataInv, DataType
<1>4. row' = Saved(task', ahead')
  BY DEF Enqueue
<1>5. /\ row' \in [Tasks -> RowStates]
      /\ \A u \in Tasks :
           /\ task'[u].status # "none" /\ row[u].status # "none" => row'[u].status # "none"
           /\ task'[u].status = "none" => row'[u] = row[u]
  <2>1. row \in [Tasks -> RowStates]
    BY DEF DataInv, DataType
  <2> HIDE DEF n
  <2> QED
    BY <1>2, <1>4, <2>1, SavedType
<1>6. cas' \in [Tasks -> Seq(GoodRequests)] /\ \A u \in Tasks : u # t => cas'[u] = cas[u]
  BY OvertakenType DEF Enqueue, DataInv, DataType
<1>7. EnsureProcessing(t) /\ pc \in [Tasks -> Places]
  BY DEF Enqueue, DataInv, DataType
<1>8. DataType'
  BY <1>2, <1>3, <1>5, <1>6, <1>7, EnsureType DEF DataInv, DataType
<1>9. \A u \in Tasks : u # t => Calm(u)
  BY <1>2, <1>3, <1>5, <1>6, <1>7, EnsureType DEF Calm, DataInv, TasksOK, Born, NewTask, DataType
<1>10. Born(t)'
  BY <1>1, <1>2, <1>5 DEF DataInv, TasksOK, DataType, Born
<1>11. LoopOK(t)'
  BY <1>1, <1>2, <1>7, EnsureType DEF DataInv, TasksOK, DataType, LoopOK, Superseded
<1> QED
  BY <1>8, <1>9, <1>10, <1>11, OneTask

\* The memory a message works on: pruned, and revived if the task has ended.
Addressed(t, old) ==
  LET pruned == [task[t] EXCEPT !.queue = @ - old]
  IN  IF pruned.status \in Ended THEN Revived(pruned) ELSE pruned

\* A message leaves the status, or makes the task pending.
LEMMA AddressedType ==
  ASSUME DataInv, NEW t \in Tasks, task[t].status # "none", NEW old \in Expired(t)
  PROVE  /\ Addressed(t, old) \in TaskStates
         /\ Addressed(t, old).cancelled = task[t].cancelled
         /\ \/ Addressed(t, old).status = "pending"
            \/ /\ Addressed(t, old).status = task[t].status
               /\ Addressed(t, old).stopped = task[t].stopped
               /\ Addressed(t, old).sameLife = task[t].sameLife
<1> DEFINE pruned == [task[t] EXCEPT !.queue = @ - old]
<1>1. task[t] \in TaskStates
  BY DEF DataInv, DataType
<1>2. old \in 0 .. task[t].queue
  BY <1>1 DEF Expired, TaskStates
<1>3. /\ pruned \in TaskStates /\ pruned.status = task[t].status
      /\ pruned.cancelled = task[t].cancelled /\ pruned.stopped = task[t].stopped
      /\ pruned.sameLife = task[t].sameLife
  BY <1>1, <1>2, SubagentAssumption DEF TaskStates
<1>4. Addressed(t, old) = IF pruned.status \in Ended THEN Revived(pruned) ELSE pruned
  BY DEF Addressed
<1> HIDE DEF pruned
<1>5. CASE pruned.status \in Ended
  <2>1. /\ SetStatus(pruned, "pending") \in TaskStates
        /\ SetStatus(pruned, "pending").status = "pending"
        /\ SetStatus(pruned, "pending").cancelled = task[t].cancelled
    BY <1>3, SetStatusType DEF Status
  <2>2. /\ Revived(pruned) \in TaskStates /\ Revived(pruned).status = "pending"
        /\ Revived(pruned).cancelled = task[t].cancelled
    BY <2>1 DEF Revived, TaskStates
  <2> QED
    BY <1>4, <1>5, <2>2
<1>6. CASE pruned.status \notin Ended
  BY <1>3, <1>4, <1>6
<1> QED
  BY <1>5, <1>6

\* A message revives an ended task; a queue keeps its bound.
LEMMA SendKeeps ==
  ASSUME DataInv, NEW t \in Tasks, NEW old \in Expired(t), Send(t, old)
  PROVE  DataInv'
<1> DEFINE m == Addressed(t, old)
<1>1. /\ task[t] \in TaskStates /\ caller[t] # "none" /\ task[t].status # "none"
      /\ calls' \in 0 .. MaxCalls /\ UNCHANGED <<stop, caller, open>>
  BY SubagentAssumption DEF Send, MayCall, DataInv, DataType, TasksOK, Born
<1> HIDE DEF m
<1>4. /\ m \in TaskStates /\ m.status # "none" /\ m.cancelled = task[t].cancelled
      /\ \/ m.status = "pending"
         \/ m.status = task[t].status /\ m.stopped = task[t].stopped /\ m.sameLife = task[t].sameLife
  BY <1>1, AddressedType DEF m
<1>5. pc[t] = "looping" /\ m.cancelled => m.stopped \/ m.status # "running" \/ ~m.sameLife
  BY <1>4 DEF DataInv, TasksOK, LoopOK, Superseded
<1>6. \/ m.queue < MaxQueue /\ Enqueue(t, m)
      \/ m.queue >= MaxQueue /\ Enqueue(t, [m EXCEPT !.queue = @ - 1])
      \/ task' = [task EXCEPT ![t] = m] /\ UNCHANGED <<rowVars, slotVars>>
  BY DEF Send, Addressed, m
<1>7. CASE m.queue < MaxQueue /\ Enqueue(t, m)
  BY <1>1, <1>4, <1>5, <1>7, EnqueueKeeps
<1>8. CASE m.queue >= MaxQueue /\ Enqueue(t, [m EXCEPT !.queue = @ - 1])
  <2> DEFINE n == [m EXCEPT !.queue = @ - 1]
  <2>1. /\ n \in TaskStates /\ n.queue < MaxQueue /\ n.status = m.status
        /\ n.cancelled = m.cancelled /\ n.stopped = m.stopped /\ n.sameLife = m.sameLife
    BY <1>4, <1>8, SubagentAssumption DEF TaskStates
  <2> HIDE DEF n
  <2> QED
    BY <1>1, <1>4, <1>5, <1>8, <2>1, EnqueueKeeps DEF n
<1>9. CASE task' = [task EXCEPT ![t] = m] /\ UNCHANGED <<rowVars, slotVars>>
  <2>1. DataType'
    BY <1>1, <1>4, <1>9 DEF DataInv, DataType, rowVars, slotVars
  <2>2. Born(t)' /\ LoopOK(t)'
    BY <1>1, <1>4, <1>5, <1>9
    DEF DataInv, DataType, TasksOK, Born, LoopOK, Superseded, rowVars, slotVars
  <2>3. \A u \in Tasks : u # t => Calm(u)
    BY <1>1, <1>9 DEF DataInv, DataType, Calm, rowVars, slotVars
  <2> QED
    BY <2>1, <2>2, <2>3, OneTask
<1> QED
  BY <1>6, <1>7, <1>8, <1>9

\* A resume revives the task whatever its status was.
LEMMA ResumeKeeps ==
  ASSUME DataInv, NEW t \in Tasks, ResumeTask(t)
  PROVE  DataInv'
<1> DEFINE m == [Revived(task[t]) EXCEPT !.timer = FALSE]
<1>1. /\ task[t] \in TaskStates /\ caller[t] # "none" /\ task[t].queue < MaxQueue
      /\ calls' \in 0 .. MaxCalls /\ UNCHANGED <<stop, caller, open>>
  BY SubagentAssumption DEF ResumeTask, MayCall, DataInv, DataType
<1>2. /\ SetStatus(task[t], "pending") \in TaskStates
      /\ SetStatus(task[t], "pending").status = "pending"
      /\ SetStatus(task[t], "pending").cancelled = task[t].cancelled
      /\ SetStatus(task[t], "pending").queue = task[t].queue
  BY <1>1, SetStatusType DEF Status
<1>3. /\ m \in TaskStates /\ m.status = "pending" /\ m.cancelled = task[t].cancelled
      /\ m.queue < MaxQueue
  BY <1>1, <1>2 DEF Revived, TaskStates
<1>4. Enqueue(t, m)
  BY DEF ResumeTask
<1> HIDE DEF m
<1> QED
  BY <1>1, <1>3, <1>4, EnqueueKeeps

\* What moves was created, and has a status in memory and in its row.
LEMMA Alive ==
  ASSUME DataInv, NEW t \in Tasks,
         pc[t] # "idle" \/ cas[t] # <<>> \/ stop[t] # "none" \/ task[t].status # "none"
  PROVE  /\ caller[t] # "none" /\ task[t].status # "none" /\ row[t].status # "none"
         /\ task[t] \in TaskStates /\ row[t] \in RowStates
         /\ DataType /\ LoopOK(t) /\ pc[t] \in Places
  BY DEF DataInv, DataType, TasksOK, Born, NewTask

\* What a step leaves behind in the memory of its task and in its place.
Fits(m, place) == /\ m \in TaskStates /\ m.status # "none" /\ place \in Places
                  /\ place = "looping" /\ m.cancelled =>
                       m.stopped \/ m.status # "running" \/ ~m.sameLife
                  /\ place = "completing" => ~m.cancelled

\* A step that changes the memory of a task and its processor's place only.
LEMMA PlainKeeps ==
  ASSUME DataInv, NEW t \in Tasks, caller[t] # "none", NEW m, NEW place, Fits(m, place),
         task' = [task EXCEPT ![t] = m], pc' = [pc EXCEPT ![t] = place],
         NEW st \in {"none", "waiting", "killing"}, stop' = [stop EXCEPT ![t] = st],
         UNCHANGED <<rowVars, caller, open>>, calls' \in 0 .. MaxCalls
  PROVE  DataInv'
<1>1. DataType'
  BY DEF DataInv, DataType, rowVars, Fits
<1>2. Born(t)' /\ LoopOK(t)'
  BY DEF DataInv, DataType, TasksOK, Born, LoopOK, Superseded, rowVars, Fits
<1>3. \A u \in Tasks : u # t => Calm(u)
  BY DEF DataInv, DataType, Calm, rowVars
<1> QED
  BY <1>1, <1>2, <1>3, OneTask

\* A step that makes a transition.
LEMMA TransitionKeeps ==
  ASSUME DataInv, NEW t \in Tasks, caller[t] # "none", NEW m, NEW place, Fits(m, place),
         NEW who, NEW from, NEW to, Proper(who, from, to),
         Transition(t, who, from, to, m), pc' = [pc EXCEPT ![t] = place],
         NEW st \in {"none", "waiting", "killing"}, stop' = [stop EXCEPT ![t] = st],
         UNCHANGED <<caller, open>>, calls' \in 0 .. MaxCalls
  PROVE  DataInv'
<1>1. row[t].status # "none" /\ DataType /\ m \in TaskStates
  BY DEF DataInv, TasksOK, Born, Fits
<1>2. /\ task' = [task EXCEPT ![t] = m] /\ task' \in [Tasks -> TaskStates]
      /\ row' \in [Tasks -> RowStates] /\ row'[t].status # "none"
      /\ \A u \in Tasks : u # t => row'[u] = row[u] /\ cas'[u] = cas[u] /\ ahead'[u] = ahead[u]
      /\ ahead' \in [Tasks -> BOOLEAN]
      /\ cas' \in [Tasks -> Seq(GoodRequests)]
  BY <1>1, TransitionType
<1>3. DataType'
  BY <1>1, <1>2 DEF DataType, Fits
<1>4. Born(t)' /\ LoopOK(t)'
  BY <1>1, <1>2 DEF DataType, Born, LoopOK, Superseded, Fits
<1>5. \A u \in Tasks : u # t => Calm(u)
  BY <1>1, <1>2 DEF DataType, Calm
<1> QED
  BY <1>3, <1>4, <1>5, OneTask

\* A step that takes an answer.
LEMMA AnswerKeeps ==
  ASSUME DataInv, NEW t \in Tasks, NEW m, NEW place, Fits(m, place),
         NEW who, NEW applied \in BOOLEAN, Answer(t, who, applied),
         task' = [task EXCEPT ![t] = m], pc' = [pc EXCEPT ![t] = place],
         NEW st \in {"none", "waiting", "killing"}, stop' = [stop EXCEPT ![t] = st],
         UNCHANGED <<caller, open>>, calls' \in 0 .. MaxCalls
  PROVE  DataInv'
<1>1. DataType
  BY DEF DataInv
<1>2. /\ cas[t] # <<>> /\ row' = row
      /\ cas' \in [Tasks -> Seq(GoodRequests)]
      /\ \A u \in Tasks : u # t => cas'[u] = cas[u] /\ ahead'[u] = ahead[u]
      /\ ahead' \in [Tasks -> BOOLEAN]
  BY <1>1, AnswerType
<1>3. caller[t] # "none" /\ row[t].status # "none"
  BY <1>2, Alive
<1>4. DataType'
  BY <1>1, <1>2 DEF DataType, Fits
<1>5. Born(t)' /\ LoopOK(t)'
  BY <1>1, <1>2, <1>3 DEF DataType, Born, LoopOK, Superseded, Fits
<1>6. \A u \in Tasks : u # t => Calm(u)
  BY <1>1, <1>2 DEF DataType, Calm
<1> QED
  BY <1>4, <1>5, <1>6, OneTask

\* The transition of a kill.
LEMMA KillKeeps ==
  ASSUME DataInv, NEW t \in Tasks, task[t].status # "none", Kill(t, task[t]),
         UNCHANGED <<slotVars, caller, open>>, calls' \in 0 .. MaxCalls
  PROVE  DataInv'
<1> DEFINE m == [task[t] EXCEPT !.stopped = TRUE, !.error = TRUE]
           from == {"pending", "running", "failed"}
<1>1. /\ Transition(t, "stop", from, "killed", m)
      /\ stop' = [stop EXCEPT ![t] = "killing"]
  BY DEF Kill
<1>2. /\ caller[t] # "none" /\ task[t] \in TaskStates /\ LoopOK(t) /\ pc[t] \in Places
      /\ DataType
  BY Alive
<1>3. Fits(m, pc[t])
  BY <1>2 DEF Fits, TaskStates, LoopOK
<1>4. Proper("stop", from, "killed")
  BY DEF Proper, Who, Status, Ended
<1>5. pc' = [pc EXCEPT ![t] = pc[t]]
  BY <1>2 DEF DataType, slotVars
<1> HIDE DEF m, from
<1> QED
  BY <1>1, <1>2, <1>3, <1>4, <1>5, TransitionKeeps

\* stop: the kill at once, or the loop cancelled and the task marked.
LEMMA StopKeeps ==
  ASSUME DataInv, NEW t \in Tasks, NEW force \in BOOLEAN, Stop(t, force)
  PROVE  DataInv'
<1>1. calls' \in 0 .. MaxCalls /\ caller[t] # "none" /\ UNCHANGED <<slotVars, caller, open>>
  BY SubagentAssumption DEF Stop, MayCall, DataInv, DataType
<1>2. task[t].status # "none"
  BY <1>1 DEF DataInv, TasksOK, Born
<1>3. /\ task[t] \in TaskStates /\ LoopOK(t) /\ pc[t] \in Places /\ DataType
  BY <1>2, Alive
<1>4. CASE Kill(t, task[t])
  BY <1>1, <1>2, <1>4, KillKeeps
<1>5. CASE /\ task' = [task EXCEPT ![t] = Cancelled(t, [@ EXCEPT !.stopped = TRUE])]
           /\ stop' = [stop EXCEPT ![t] = "waiting"]
           /\ UNCHANGED rowVars
  <2> DEFINE m == Cancelled(t, [task[t] EXCEPT !.stopped = TRUE])
  <2>1. task' = [task EXCEPT ![t] = m] /\ pc' = [pc EXCEPT ![t] = pc[t]]
    BY <1>1, <1>3, <1>5 DEF DataType, slotVars
  <2>2. Fits(m, pc[t])
    BY <1>2, <1>3 DEF Fits, TaskStates, LoopOK, Cancelled
  <2> HIDE DEF m
  <2> QED
    BY <1>1, <1>5, <2>1, <2>2, PlainKeeps
<1> QED
  BY <1>4, <1>5 DEF Stop

\* stop goes on: the kill, and its answer.
LEMMA StopStepKeeps ==
  ASSUME DataInv, NEW t \in Tasks, StopStep(t)
  PROVE  DataInv'
<1>1. calls' \in 0 .. MaxCalls /\ UNCHANGED <<slotVars, caller, open>>
  BY DEF StopStep, StopWaited, StopAnswered, DataInv, DataType
<1>2. CASE StopWaited(t)
  BY <1>1, <1>2, Alive, KillKeeps DEF StopWaited
<1>3. CASE StopAnswered(t)
  <2>1. PICK applied \in BOOLEAN, m \in TaskStates :
          /\ Answer(t, "stop", applied)
          /\ task' = [task EXCEPT ![t] = m]
          /\ m.status = Answered(t).status
          /\ m.stopped = Answered(t).stopped
          /\ m.sameLife = Answered(t).sameLife
          /\ m.cancelled => pc[t] = "looping" \/ Answered(t).cancelled
    <3>1. ASSUME NEW applied \in BOOLEAN, Answer(t, "stop", applied)
          PROVE  Answered(t) \in TaskStates
      BY <3>1, AnswerType DEF DataInv
    <3>2. CASE Answer(t, "stop", FALSE) /\ task' = [task EXCEPT ![t] = Answered(t)]
      BY <3>1, <3>2
    <3>3. ASSUME Answer(t, "stop", TRUE),
                 LET m == [Answered(t) EXCEPT !.timer = FALSE]
                 IN  task' = [task EXCEPT ![t] = IF m.error THEN Cancelled(t, m) ELSE m]
          PROVE  \E m \in TaskStates :
                   /\ task' = [task EXCEPT ![t] = m]
                   /\ m.status = Answered(t).status
                   /\ m.stopped = Answered(t).stopped
                   /\ m.sameLife = Answered(t).sameLife
                   /\ m.cancelled => pc[t] = "looping" \/ Answered(t).cancelled
      <4> DEFINE n == [Answered(t) EXCEPT !.timer = FALSE]
                 m == IF n.error THEN Cancelled(t, n) ELSE n
      <4>1. Answered(t) \in TaskStates
        BY <3>1, <3>3
      <4>2. /\ m \in TaskStates /\ m.status = Answered(t).status
            /\ m.stopped = Answered(t).stopped
            /\ m.sameLife = Answered(t).sameLife
            /\ m.cancelled => pc[t] = "looping" \/ Answered(t).cancelled
        BY <4>1 DEF Cancelled, TaskStates
      <4>3. task' = [task EXCEPT ![t] = m]
        BY <3>3
      <4> HIDE DEF m
      <4> QED
        BY <4>2, <4>3
    <3> QED
      BY <1>3, <3>2, <3>3 DEF StopAnswered
  <2>2. /\ Head(cas[t]) \in GoodRequests /\ Head(cas[t]).who = "stop" /\ cas[t] # <<>>
        /\ Answered(t).status = Head(cas[t]).status
        /\ Answered(t).status # "none"
        /\ Answered(t).cancelled = task[t].cancelled
    BY <2>1, AnswerType DEF DataInv
  <2>3. Answered(t).status \in Ended
    BY <2>2 DEF GoodRequests
  <2>4. LoopOK(t) /\ pc[t] \in Places /\ DataType
    BY <2>2, Alive
  <2>5. Fits(m, pc[t])
    BY <2>1, <2>2, <2>3, <2>4 DEF Fits, LoopOK, Ended
  <2>6. pc' = [pc EXCEPT ![t] = pc[t]] /\ stop' = [stop EXCEPT ![t] = "none"]
    BY <1>1, <1>3, <2>4 DEF DataType, slotVars, StopAnswered
  <2> QED
    BY <1>1, <2>1, <2>5, <2>6, AnswerKeeps
<1> QED
  BY <1>2, <1>3 DEF StopStep

\* Tasks are born pending, with one message, and their rows with them.
LEMMA CreateKeeps ==
  ASSUME DataInv, NEW created \in SUBSET Tasks, Create(created)
  PROVE  DataInv'
<1> DEFINE born == [NewTask EXCEPT !.status = "pending", !.queue = 1]
<1>1. born \in TaskStates /\ born.status = "pending" /\ ~born.cancelled
  <2>1. NewTask \in TaskStates /\ ~NewTask.cancelled
    BY SubagentAssumption DEF NewTask, TaskStates, Status
  <2>2. 1 \in 0 .. MaxQueue /\ "pending" \in Status
    BY SubagentAssumption DEF Status
  <2> QED
    BY <2>1, <2>2 DEF TaskStates
<1>2. /\ task' = [t \in Tasks |-> IF t \in created THEN born ELSE task[t]]
      /\ row' = Saved(task', ahead)
      /\ caller' = [t \in Tasks |-> IF t \in created THEN "created" ELSE caller[t]]
      /\ UNCHANGED <<slotVars, ahead, cas, stop, open, calls>>
      /\ \A t \in created : caller[t] = "none"
  BY DEF Create
<1> HIDE DEF born
<1>3. task' \in [Tasks -> TaskStates] /\ DataType
  BY <1>1, <1>2 DEF DataInv, DataType
<1>4. /\ row' \in [Tasks -> RowStates]
      /\ \A t \in Tasks :
           /\ task'[t].status # "none" /\ row[t].status # "none" => row'[t].status # "none"
           /\ task'[t].status = "none" => row'[t] = row[t]
           /\ task'[t].status # "none" /\ ~ahead[t] => row'[t] = Stored(task'[t])
  <2>1. row \in [Tasks -> RowStates]
    BY <1>3 DEF DataType
  <2> QED
    BY <1>2, <1>3, <2>1, SavedType
<1>5. DataType'
  BY <1>2, <1>3, <1>4 DEF DataType, slotVars
<1>6. ASSUME NEW t \in Tasks
      PROVE  Born(t)' /\ LoopOK(t)'
  <2>1. Born(t) /\ LoopOK(t)
    BY DEF DataInv, TasksOK
  <2>2. CASE t \in created
    <3>1. caller[t] = "none" /\ caller'[t] = "created" /\ task'[t] = born /\ pc'[t] = pc[t]
      BY <1>2, <2>2 DEF slotVars
    <3>2. ~ahead[t] /\ pc[t] = "idle"
      BY <2>1, <3>1 DEF Born
    <3>3. row'[t] = Stored(born)
      BY <1>1, <1>4, <3>1, <3>2
    <3> QED
      BY <1>1, <3>1, <3>2, <3>3 DEF Born, LoopOK, Stored
  <2>3. CASE t \notin created
    BY <1>2, <1>4, <2>1, <2>3 DEF Born, LoopOK, Superseded, slotVars, NewTask
  <2> QED
    BY <2>2, <2>3
<1> QED
  BY <1>5, <1>6 DEF DataInv, TasksOK

\* A spawn that goes on asks for a processor.
LEMMA StartKeeps ==
  ASSUME DataInv, NEW t \in Tasks, Start(t)
  PROVE  DataInv'
<1>1. /\ caller[t] = "created" /\ caller' = [caller EXCEPT ![t] = "awaiting"]
      /\ UNCHANGED <<task, rowVars, stop, open, calls>> /\ DataType
  BY DEF Start, DataInv
<1>2. /\ pc' \in [Tasks -> Places]
      /\ \A u \in Tasks : u # t => pc'[u] = pc[u]
      /\ pc'[t] = pc[t] \/ pc'[t] \in {"ready", "waiting"}
  BY EnsureType DEF Start, DataInv, DataType
<1>3. DataType'
  BY <1>1, <1>2 DEF DataType, rowVars
<1>4. Born(t)' /\ LoopOK(t)'
  BY <1>1, <1>2 DEF DataInv, TasksOK, DataType, Born, LoopOK, Superseded, rowVars
<1>5. \A u \in Tasks : u # t => Calm(u)
  BY <1>1, <1>2 DEF DataType, Calm, rowVars
<1> QED
  BY <1>3, <1>4, <1>5, OneTask

\* What is left when a run is over.
LEMMA RunOverType ==
  ASSUME NEW m \in TaskStates
  PROVE  /\ RunOver(m) \in TaskStates /\ RunOver(m).status = m.status
         /\ ~RunOver(m).cancelled
  BY DEF RunOver, TaskStates

\* The processor's own steps keep the rest of the state.
LEMMA GotoKeeps ==
  ASSUME DataType, NEW t \in Tasks, Elsewhere
  PROVE  /\ stop[t] \in {"none", "waiting", "killing"} /\ stop' = [stop EXCEPT ![t] = stop[t]]
         /\ UNCHANGED <<caller, open>> /\ calls' \in 0 .. MaxCalls
  BY DEF DataType, Elsewhere

\* The steps of the processor that make no transition.
LEMMA WalkKeeps ==
  ASSUME DataInv, NEW t \in Tasks,
         \/ LeaveQueue(t) \/ EnterLoop(t)
         \/ \E old \in Expired(t) : TakeMessage(t, old)
  PROVE  DataInv'
<1>1. pc[t] # "idle" /\ Elsewhere /\ UNCHANGED rowVars
  BY DEF LeaveQueue, EnterLoop, TakeMessage, GoesOn
<1>2. /\ caller[t] # "none" /\ task[t].status # "none"
      /\ task[t] \in TaskStates /\ DataType /\ LoopOK(t)
  BY <1>1, Alive
<1>3. /\ stop[t] \in {"none", "waiting", "killing"} /\ stop' = [stop EXCEPT ![t] = stop[t]]
      /\ UNCHANGED <<caller, open>> /\ calls' \in 0 .. MaxCalls
  BY <1>1, <1>2, GotoKeeps
<1>4. ASSUME NEW m, NEW place, Fits(m, place), task' = [task EXCEPT ![t] = m], Goto(t, place)
      PROVE  DataInv'
  BY <1>1, <1>2, <1>3, <1>4, PlainKeeps DEF Goto
<1>5. task = [task EXCEPT ![t] = task[t]]
  BY <1>2 DEF DataType
<1>6. CASE LeaveQueue(t)
  <2>1. Fits(task[t], "leaving") /\ Fits(RunOver(task[t]), "leaving")
    BY <1>2, RunOverType DEF Fits, Places
  <2> QED
    BY <1>4, <1>5, <1>6, <2>1 DEF LeaveQueue
<1>7. CASE EnterLoop(t)
  <2> DEFINE m == [task[t] EXCEPT !.cancelled = FALSE]
  <2>1. Fits(m, "looping")
    BY <1>2 DEF Fits, Places, TaskStates
  <2>2. task' = [task EXCEPT ![t] = m]
    BY <1>7 DEF EnterLoop
  <2> HIDE DEF m
  <2> QED
    BY <1>4, <1>7, <2>1, <2>2 DEF EnterLoop
<1>8. ASSUME NEW old \in Expired(t), TakeMessage(t, old)
      PROVE  DataInv'
  <2> DEFINE m == [task[t] EXCEPT !.queue = @ - old - 1]
  <2>1. old \in 0 .. task[t].queue /\ old # task[t].queue /\ task[t].queue \in 0 .. MaxQueue
    BY <1>2, <1>8 DEF Expired, TakeMessage, TaskStates
  <2>2. Fits(m, "opening")
    BY <1>2, <2>1, SubagentAssumption DEF Fits, Places, TaskStates
  <2>3. task' = [task EXCEPT ![t] = m]
    BY <1>8 DEF TakeMessage
  <2> HIDE DEF m
  <2> QED
    BY <1>4, <1>8, <2>2, <2>3 DEF TakeMessage
<1> QED
  BY <1>6, <1>7, <1>8

\* The steps of the processor that ask the row for a transition.
LEMMA AskRowKeeps ==
  ASSUME DataInv, NEW t \in Tasks,
         AllExpired(t) \/ StartRun(t) \/ \E good \in BOOLEAN : RunEnds(t, good)
  PROVE  DataInv'
<1>1. pc[t] # "idle" /\ Elsewhere
  BY DEF AllExpired, StartRun, RunEnds, GoesOn
<1>2. /\ caller[t] # "none" /\ task[t].status # "none"
      /\ task[t] \in TaskStates /\ DataType /\ LoopOK(t)
  BY <1>1, Alive
<1>3. /\ stop[t] \in {"none", "waiting", "killing"} /\ stop' = [stop EXCEPT ![t] = stop[t]]
      /\ UNCHANGED <<caller, open>> /\ calls' \in 0 .. MaxCalls
  BY <1>1, <1>2, GotoKeeps
<1>4. ASSUME NEW m, NEW place, Fits(m, place), NEW from, NEW to, Proper("run", from, to),
             Transition(t, "run", from, to, m), Goto(t, place)
      PROVE  DataInv'
  BY <1>2, <1>3, <1>4, TransitionKeeps DEF Goto
<1>5. ASSUME NEW m, NEW place, Fits(m, place), task' = [task EXCEPT ![t] = m], Goto(t, place),
             UNCHANGED rowVars
      PROVE  DataInv'
  BY <1>2, <1>3, <1>5, PlainKeeps DEF Goto
<1>6. \A from : \A to \in {"running", "completed", "failed"} : Proper("run", from, to)
  BY DEF Proper, Who, Status
<1>7. CASE AllExpired(t)
  <2>1. /\ Fits([task[t] EXCEPT !.queue = 0, !.error = TRUE], "expiring")
        /\ Fits([task[t] EXCEPT !.queue = 0], "leaving")
    <3>1. 0 \in 0 .. MaxQueue
      BY SubagentAssumption
    <3>2. Fits([task[t] EXCEPT !.queue = 0, !.error = TRUE], "expiring")
      BY <1>2, <3>1 DEF Fits, TaskStates, Places
    <3>3. Fits([task[t] EXCEPT !.queue = 0], "leaving")
      BY <1>2, <3>1 DEF Fits, TaskStates, Places
    <3> QED
      BY <3>2, <3>3
  <2>2. CASE /\ Transition(t, "run", {"pending"}, "failed",
                           [task[t] EXCEPT !.queue = 0, !.error = TRUE])
             /\ Goto(t, "expiring")
    BY <1>4, <1>6, <2>1, <2>2
  <2>3. CASE /\ task' = [task EXCEPT ![t].queue = 0]
             /\ Goto(t, "leaving")
             /\ UNCHANGED rowVars
    BY <1>5, <2>1, <2>3
  <2> QED
    BY <1>7, <2>2, <2>3 DEF AllExpired
<1>8. CASE StartRun(t)
  <2>1. Fits(task[t], "starting")
    BY <1>2 DEF Fits, Places
  <2> QED
    BY <1>4, <1>6, <1>8, <2>1 DEF StartRun
<1>9. ASSUME NEW good \in BOOLEAN, RunEnds(t, good)
      PROVE  DataInv'
  <2>1. pc[t] = "looping"
    BY <1>9 DEF RunEnds
  <2>2. CASE /\ Superseded(t)
             /\ task' = [task EXCEPT ![t] = RunOver(@)]
             /\ Goto(t, "leaving")
             /\ UNCHANGED rowVars
    <3>1. Fits(RunOver(task[t]), "leaving")
      BY <1>2, RunOverType DEF Fits, Places
    <3> QED
      BY <1>5, <2>2, <3>1
  <2>3. CASE /\ ~Superseded(t)
             /\ Transition(t, "run", {"running"}, "completed", task[t])
             /\ Goto(t, "completing")
    <3>1. Fits(task[t], "completing")
      BY <1>2, <2>1, <2>3 DEF Fits, Places, LoopOK
    <3> QED
      BY <1>4, <1>6, <2>3, <3>1
  <2>4. CASE /\ Transition(t, "run", {"running"}, "failed", [task[t] EXCEPT !.error = TRUE])
             /\ Goto(t, "failing")
    <3>1. Fits([task[t] EXCEPT !.error = TRUE], "failing")
      BY <1>2 DEF Fits, Places, TaskStates
    <3> QED
      BY <1>4, <1>6, <2>4, <3>1
  <2> QED
    BY <1>9, <2>2, <2>3, <2>4 DEF RunEnds
<1> QED
  BY <1>7, <1>8, <1>9

\* The steps of the processor that take an answer.
LEMMA HearRowKeeps ==
  ASSUME DataInv, NEW t \in Tasks, RunStarted(t) \/ RunStored(t)
  PROVE  DataInv'
<1>1. Elsewhere /\ \E applied \in BOOLEAN : Answer(t, "run", applied)
  BY DEF RunStarted, RunStored
<1>2. /\ cas[t] # <<>> /\ Answered(t) \in TaskStates /\ Answered(t).status # "none"
      /\ Answered(t).cancelled = task[t].cancelled /\ DataType
  BY <1>1, AnswerType DEF DataInv
<1>3. /\ stop[t] \in {"none", "waiting", "killing"} /\ stop' = [stop EXCEPT ![t] = stop[t]]
      /\ UNCHANGED <<caller, open>> /\ calls' \in 0 .. MaxCalls
  BY <1>1, <1>2, GotoKeeps
<1>4. ASSUME NEW m, NEW place, Fits(m, place), NEW applied \in BOOLEAN,
             Answer(t, "run", applied), task' = [task EXCEPT ![t] = m], Goto(t, place)
      PROVE  DataInv'
  BY <1>3, <1>4, AnswerKeeps DEF Goto
<1>5. CASE RunStarted(t)
  <2> DEFINE m == [Answered(t) EXCEPT !.sameLife = TRUE, !.timer = t \in Timed]
  <2>1. Fits(m, "appending") /\ Fits(Answered(t), "leaving")
    <3>1. PICK armed \in BOOLEAN : m = [Answered(t) EXCEPT !.sameLife = TRUE, !.timer = armed]
      <4> WITNESS (t \in Timed) \in BOOLEAN
      <4> QED
        OBVIOUS
    <3> HIDE DEF m
    <3>2. m \in TaskStates /\ m.status # "none"
      BY <1>2, <3>1 DEF TaskStates
    <3> QED
      BY <1>2, <3>2 DEF Fits, Places
  <2>2. \/ /\ Answer(t, "run", TRUE)
           /\ task' = [task EXCEPT ![t] = m]
           /\ Goto(t, "appending")
        \/ /\ Answer(t, "run", FALSE)
           /\ task' = [task EXCEPT ![t] = Answered(t)]
           /\ Goto(t, "leaving")
    BY <1>5 DEF RunStarted
  <2> HIDE DEF m
  <2> QED
    BY <1>4, <2>1, <2>2
<1>6. CASE RunStored(t)
  <2>1. PICK applied \in BOOLEAN :
          /\ Answer(t, "run", applied)
          /\ Goto(t, IF pc[t] = "completing" /\ applied THEN "ready" ELSE "leaving")
    BY <1>6 DEF RunStored
  <2>2. Fits(RunOver(Answered(t)), "ready") /\ Fits(RunOver(Answered(t)), "leaving")
    BY <1>2, RunOverType DEF Fits, Places
  <2> QED
    BY <1>4, <1>6, <2>1, <2>2 DEF RunStored
<1> QED
  BY <1>5, <1>6

\* The processor leaves: the first in line is handed its slot.
LEMMA LeaveKeeps ==
  ASSUME SlotInv, DataInv, NEW t \in Tasks, Leave(t)
  PROVE  DataInv'
<1>1. /\ pc[t] = "leaving" /\ row' = Saved(task, ahead) /\ ReleaseSlot(t)
      /\ caller' = [caller EXCEPT ![t] = IF @ = "awaiting" THEN "told" ELSE @]
      /\ UNCHANGED <<task, ahead, cas, stop, open, calls>>
  BY DEF Leave
<1>2. caller[t] # "none" /\ DataType /\ task[t].status # "none" /\ row[t].status # "none"
  BY <1>1, Alive
<1>3. /\ row' \in [Tasks -> RowStates]
      /\ \A u \in Tasks :
           /\ task[u].status # "none" /\ row[u].status # "none" => row'[u].status # "none"
           /\ task[u].status = "none" => row'[u] = row[u]
  <2>1. row \in [Tasks -> RowStates] /\ task \in [Tasks -> TaskStates]
    BY <1>2 DEF DataType
  <2> QED
    BY <1>1, <2>1, SavedType
<1>4. /\ pc' \in [Tasks -> Places] /\ pc'[t] = "idle"
      /\ \A u \in Tasks : u # t => pc'[u] = pc[u] \/ (pc[u] = "waiting" /\ pc'[u] = "ready")
  <2>1. CASE waiters = <<>>
    BY <1>1, <1>2, <2>1 DEF ReleaseSlot, DataType, Places
  <2>2. CASE waiters # <<>>
    <3>1. /\ Head(waiters) \in Tasks /\ pc[Head(waiters)] = "waiting"
      BY <2>2 DEF SlotInv, SlotType, SlotsConserved
    <3>2. pc' = [pc EXCEPT ![t] = "idle", ![Head(waiters)] = "ready"] /\ Head(waiters) # t
      BY <1>1, <2>2, <3>1 DEF ReleaseSlot
    <3> QED
      BY <1>2, <3>1, <3>2 DEF DataType, Places
  <2> QED
    BY <2>1, <2>2
<1>5. DataType'
  BY <1>1, <1>2, <1>3, <1>4 DEF DataType
<1>6. Born(t)' /\ LoopOK(t)'
  BY <1>1, <1>2, <1>3, <1>4 DEF DataType, Born, LoopOK
<1>7. \A u \in Tasks : u # t => Calm(u)
  BY <1>1, <1>2, <1>3, <1>4 DEF DataType, DataInv, TasksOK, Born, NewTask, Calm
<1> QED
  BY <1>5, <1>6, <1>7, OneTask

\* The timer fires, and its transition is answered.
LEMMA TimerKeeps ==
  ASSUME DataInv, NEW t \in Tasks, TimerFires(t) \/ TimedOut(t)
  PROVE  DataInv'
<1>1. UNCHANGED <<slotVars, stop, caller, open, calls>>
  BY DEF TimerFires, TimedOut
<1>2. /\ DataType /\ calls' \in 0 .. MaxCalls /\ UNCHANGED <<caller, open>>
      /\ stop[t] \in {"none", "waiting", "killing"} /\ stop' = [stop EXCEPT ![t] = stop[t]]
      /\ pc' = [pc EXCEPT ![t] = pc[t]]
  BY <1>1 DEF DataInv, DataType, slotVars
<1>3. CASE TimerFires(t)
  <2> DEFINE m == [task[t] EXCEPT !.timer = FALSE]
  <2>1. task[t].timer /\ task[t] \in TaskStates
    BY <1>2, <1>3 DEF TimerFires, DataType
  <2>2. caller[t] # "none"
    BY <2>1 DEF DataInv, TasksOK, Born, NewTask
  <2>3. task[t].status # "none" /\ LoopOK(t) /\ pc[t] \in Places
    BY <1>2, <2>2 DEF DataInv, TasksOK, Born, DataType
  <2>4. Fits(m, pc[t]) /\ Fits([m EXCEPT !.error = TRUE], pc[t])
    <3>1. Fits(m, pc[t])
      BY <2>1, <2>3 DEF Fits, TaskStates, LoopOK, Superseded
    <3> HIDE DEF m
    <3> QED
      BY <3>1 DEF Fits, TaskStates
  <2>5. Proper("timer", {"running"}, "failed")
    BY DEF Proper, Who, Status
  <2>6. \/ Transition(t, "timer", {"running"}, "failed", [m EXCEPT !.error = TRUE])
        \/ task' = [task EXCEPT ![t] = m] /\ UNCHANGED rowVars
    BY <1>3 DEF TimerFires
  <2> HIDE DEF m
  <2> QED
    BY <1>2, <2>2, <2>4, <2>5, <2>6, PlainKeeps, TransitionKeeps
<1>4. CASE TimedOut(t)
  <2> DEFINE m == IF Answered(t).error THEN Cancelled(t, Answered(t)) ELSE Answered(t)
  <2>1. \/ Answer(t, "timer", TRUE) /\ task' = [task EXCEPT ![t] = m]
        \/ Answer(t, "timer", FALSE) /\ task' = [task EXCEPT ![t] = Answered(t)]
    BY <1>4 DEF TimedOut
  <2>2. /\ Head(cas[t]) \in GoodRequests /\ Head(cas[t]).who = "timer" /\ cas[t] # <<>>
        /\ Answered(t) \in TaskStates
        /\ Answered(t).status = Head(cas[t]).status
        /\ Answered(t).status # "none"
        /\ Answered(t).cancelled = task[t].cancelled
    BY <1>2, <2>1, AnswerType
  <2>3. Answered(t).status # "running"
    BY <2>2 DEF GoodRequests
  <2>4. LoopOK(t) /\ pc[t] \in Places
    BY <2>2, Alive
  <2>5. Fits(m, pc[t]) /\ Fits(Answered(t), pc[t])
    <3>1. Fits(Answered(t), pc[t])
      BY <2>2, <2>3, <2>4 DEF Fits, LoopOK
    <3> QED
      BY <2>3, <3>1 DEF Fits, Cancelled, TaskStates
  <2> HIDE DEF m
  <2> QED
    BY <1>2, <2>1, <2>5, AnswerKeeps
<1> QED
  BY <1>3, <1>4

\* The disposal fails what is active, in memory and in the rows.
LEMMA DisposeKeeps == DataInv /\ Dispose => DataInv'
<1> SUFFICES ASSUME DataInv, Dispose PROVE DataInv'
  OBVIOUS
<1> DEFINE hit == {t \in Tasks : task[t].status \in {"pending", "running"}}
           failed(t) == Cancelled(t, [task[t] EXCEPT !.status = "failed", !.error = TRUE,
                                                     !.timer = FALSE])
<1>1. /\ task' = [t \in Tasks |-> IF t \in hit THEN failed(t) ELSE task[t]]
      /\ ahead' = [t \in Tasks |-> ahead[t] /\ t \notin hit]
      /\ cas' = [t \in Tasks |-> IF t \in hit THEN Overtaken(cas[t]) ELSE cas[t]]
      /\ row' = Saved(task', ahead')
      /\ UNCHANGED <<slotVars, stop, caller, calls>> /\ open' = FALSE
      /\ DataType
  BY DEF Dispose, DataInv
<1>2. \A t \in Tasks : /\ failed(t) \in TaskStates /\ failed(t).status = "failed"
                       /\ failed(t).cancelled => task[t].cancelled \/ pc[t] = "looping"
  <2> TAKE t \in Tasks
  <2> DEFINE m == [task[t] EXCEPT !.status = "failed", !.error = TRUE, !.timer = FALSE]
  <2>1. task[t] \in TaskStates /\ "failed" \in Status
    BY <1>1 DEF DataType, Status
  <2>2. m \in TaskStates /\ m.status = "failed" /\ m.cancelled = task[t].cancelled
    BY <2>1 DEF TaskStates
  <2>3. failed(t) = Cancelled(t, m)
    OBVIOUS
  <2> HIDE DEF m, failed
  <2> QED
    BY <2>2, <2>3 DEF Cancelled, TaskStates
<1> HIDE DEF failed
<1>3. task' \in [Tasks -> TaskStates] /\ ahead' \in [Tasks -> BOOLEAN]
  BY <1>1, <1>2 DEF DataType
<1>4. cas' \in [Tasks -> Seq(GoodRequests)]
      /\ \A t \in Tasks : cas[t] = <<>> => cas'[t] = <<>>
  BY <1>1, OvertakenType DEF DataType
<1>5. /\ row' \in [Tasks -> RowStates]
      /\ \A t \in Tasks :
           /\ task'[t].status # "none" /\ row[t].status # "none" => row'[t].status # "none"
           /\ task'[t].status = "none" => row'[t] = row[t]
  <2>1. row \in [Tasks -> RowStates]
    BY <1>1 DEF DataType
  <2> QED
    BY <1>1, <1>3, <2>1, SavedType
<1>6. DataType'
  BY <1>1, <1>3, <1>4, <1>5 DEF DataType, slotVars
<1>7. ASSUME NEW t \in Tasks
      PROVE  Born(t)' /\ LoopOK(t)'
  <2>1. Born(t) /\ LoopOK(t)
    BY DEF DataInv, TasksOK
  <2>2. CASE t \in hit
    <3>1. task[t].status # "none" /\ caller[t] # "none"
      BY <2>1, <2>2 DEF Born, NewTask
    <3>2. task'[t] = failed(t)
      BY <1>1, <2>2
    <3> QED
      BY <1>1, <1>2, <1>5, <2>1, <3>1, <3>2 DEF Born, LoopOK, Superseded, slotVars
  <2>3. CASE t \notin hit
    <3>1. task'[t] = task[t] /\ (ahead'[t] <=> ahead[t])
      BY <1>1, <2>3
    <3>2. NewTask.status = "none"
      BY DEF NewTask
    <3> QED
      BY <1>1, <1>4, <1>5, <2>1, <3>1, <3>2 DEF Born, LoopOK, Superseded, slotVars
  <2> QED
    BY <2>2, <2>3
<1> QED
  BY <1>6, <1>7 DEF DataInv, TasksOK

\* The page is loaded again: a task is what its row says.
LEMMA RestartKeeps == DataInv /\ Restart => DataInv'
<1> SUFFICES ASSUME DataInv, Restart PROVE DataInv'
  OBVIOUS
<1>1. DataType
  BY DEF DataInv
<1>2. ASSUME NEW t \in Tasks
      PROVE  /\ Hydrated(row[t]) \in TaskStates
             /\ row[t].status # "none" => Hydrated(row[t]).status # "none"
             /\ row[t] = Stored(NewTask) => Hydrated(row[t]) = NewTask
  <2>1. row[t] \in RowStates /\ NewTask \in TaskStates
    BY <1>1, SubagentAssumption DEF DataType, NewTask, TaskStates, Status
  <2>2. Hydrated(row[t]) \in TaskStates /\ (row[t].status # "none" => Hydrated(row[t]).status # "none")
    BY <2>1 DEF Hydrated, TaskStates, RowStates, Status
  <2>3. ASSUME row[t] = Stored(NewTask)
        PROVE  Hydrated(row[t]) = NewTask
    <3> DEFINE h == Hydrated(row[t])
    <3>1. /\ NewTask.status = "none" /\ NewTask.queue = 0 /\ NewTask.stopped = FALSE
          /\ NewTask.error = FALSE
      BY DEF NewTask
    <3>2. row[t].status = "none" /\ row[t].queue = 0 /\ row[t].stopped = FALSE
          /\ row[t].error = FALSE
      BY <2>3, <3>1 DEF Stored
    <3>3. h \in TaskStates /\ NewTask \in TaskStates
      BY <2>1, <2>2
    <3>4. /\ h.status = NewTask.status /\ h.queue = NewTask.queue
          /\ h.stopped = NewTask.stopped /\ h.error = NewTask.error
          /\ h.sameLife = NewTask.sameLife /\ h.timer = NewTask.timer
          /\ h.cancelled = NewTask.cancelled
      BY <2>1, <3>1, <3>2 DEF Hydrated, TaskStates
    <3> HIDE DEF h
    <3>5. h = NewTask
      BY <3>3, <3>4 DEF TaskStates
    <3> QED
      BY <3>5 DEF h
  <2> QED
    BY <2>2, <2>3
<1>3. /\ task' = [t \in Tasks |-> Hydrated(row[t])]
      /\ pc' = [t \in Tasks |-> "idle"]
      /\ cas' = [t \in Tasks |-> <<>>]
      /\ ahead' = [t \in Tasks |-> FALSE]
      /\ stop' = [t \in Tasks |-> "none"]
      /\ caller' = [t \in Tasks |-> IF caller[t] = "none" THEN "none" ELSE "told"]
      /\ open' = TRUE /\ row' = row /\ calls' = calls - 1 /\ calls > 0
  BY DEF Restart
<1>4. DataType'
  BY <1>1, <1>2, <1>3, SubagentAssumption DEF DataType, Places
<1>5. ASSUME NEW t \in Tasks
      PROVE  Born(t)' /\ LoopOK(t)'
  BY <1>2, <1>3 DEF DataInv, TasksOK, Born, LoopOK
<1> QED
  BY <1>4, <1>5 DEF DataInv, TasksOK

\* Nothing is known of a task at first.
LEMMA DataInvInit == Init => DataInv
<1> SUFFICES ASSUME Init PROVE DataInv
  OBVIOUS
<1>1. NewTask \in TaskStates /\ Stored(NewTask) \in RowStates
  BY SubagentAssumption DEF NewTask, TaskStates, RowStates, Status, Stored
<1>2. DataType
  BY <1>1, SubagentAssumption DEF Init, DataType, Places
<1>3. TasksOK
  BY DEF Init, TasksOK, Born, LoopOK
<1> QED
  BY <1>2, <1>3 DEF DataInv

\* Every step keeps the tasks in order.
LEMMA DataInvStep == SlotInv /\ DataInv /\ [Next]_vars => DataInv'
<1> SUFFICES ASSUME SlotInv, DataInv, [Next]_vars PROVE DataInv'
  OBVIOUS
<1>1. ASSUME NEW t \in Tasks, Create({t}) PROVE DataInv'
  BY <1>1, CreateKeeps
<1>2. CASE Create(Batch)
  BY <1>2, CreateKeeps, SubagentAssumption
<1>3. ASSUME NEW t \in Tasks, Call(t) PROVE DataInv'
  BY <1>3, SendKeeps, ResumeKeeps, StopKeeps DEF Call
<1>4. ASSUME NEW t \in Tasks, ProcessorStep(t) PROVE DataInv'
  BY <1>4, WalkKeeps, AskRowKeeps, HearRowKeeps, LeaveKeeps DEF ProcessorStep
<1>5. ASSUME NEW t \in Tasks, Start(t) \/ StopStep(t) \/ TimerFires(t) \/ TimedOut(t)
      PROVE  DataInv'
  BY <1>5, StartKeeps, StopStepKeeps, TimerKeeps
<1>6. CASE Dispose \/ Restart
  BY <1>6, DisposeKeeps, RestartKeeps
<1>7. CASE UNCHANGED vars
  BY <1>7 DEF DataInv, DataType, TasksOK, Born, LoopOK, Superseded, vars
<1> QED
  BY <1>1, <1>2, <1>3, <1>4, <1>5, <1>6, <1>7 DEF Next

\* Memory, rows, transitions and counters keep their types through every
\* interleaving of the calls with the processors.
THEOREM SubagentTypeOK == Spec => []TypeOK
<1>1. GoodRequests \subseteq Requests
  BY DEF GoodRequests
<1>2. SlotInv /\ DataInv => TypeOK
  <2>1. \A q \in Seq(GoodRequests) : q \in Seq(Requests)
    BY <1>1
  <2> QED
    BY <2>1, SubagentAssumption DEF SlotInv, SlotType, DataInv, DataType, TypeOK
<1> QED
  BY <1>2, SlotInvInit, SlotInvStep, DataInvInit, DataInvStep, PTL DEF Spec

\* No run that was cancelled is taken for a completed one.
THEOREM CancelledNeverCompletes == Spec => []CancelledNotCompleted
<1>1. DataInv => CancelledNotCompleted
  BY DEF DataInv, TasksOK, LoopOK, CancelledNotCompleted
<1> QED
  BY <1>1, SlotInvInit, SlotInvStep, DataInvInit, DataInvStep, PTL DEF Spec

-----------------------------------------------------------------------------
(* What a step may do to an outcome.                                         *)

\* A new status can come from an answer, from a call that revives the task, from its
\* creation, from the disposal, if it is active, or from its row.
StatusKept(t) == \/ task'[t].status = task[t].status
                 \/ task'[t].status = "pending"
                 \/ cas[t] # <<>> /\ task'[t].status = Head(cas[t]).status
                 \/ Restart /\ task'[t].status = Hydrated(row[t]).status
                 \/ task[t].status \in {"none", "pending", "running"}

\* The calls of the parent.
LEMMA CallStatus ==
  ASSUME DataInv, NEW u \in Tasks, Call(u), NEW t \in Tasks
  PROVE  StatusKept(t)
<1>1. task[u] \in TaskStates /\ task[t] \in TaskStates /\ DataType
  BY DEF DataInv, DataType
<1>2. CASE t # u
  <2>1. task'[t] = task[t]
    BY <1>1, <1>2 DEF Call, Send, ResumeTask, Stop, Kill, Transition, Enqueue, DataType
  <2> QED
    BY <2>1 DEF StatusKept
<1>3. CASE t = u
  <2>1. ASSUME NEW old \in Expired(t), Send(t, old)
        PROVE  StatusKept(t)
    <3> DEFINE m == Addressed(t, old)
    <3>1. \/ task' = [task EXCEPT ![t] = [m EXCEPT !.queue = @ + 1]]
          \/ task' = [task EXCEPT ![t] = [[m EXCEPT !.queue = @ - 1] EXCEPT !.queue = @ + 1]]
          \/ task' = [task EXCEPT ![t] = m]
      BY <2>1 DEF Send, Enqueue, Addressed
    <3> HIDE DEF m
    <3>2. task[t].status # "none"
      BY <2>1 DEF Send, MayCall, DataInv, TasksOK, Born
    <3>3. m \in TaskStates /\ (m.status = "pending" \/ m.status = task[t].status)
      BY <2>1, <3>2, AddressedType DEF m
    <3>4. \/ task'[t] = [m EXCEPT !.queue = @ + 1]
          \/ task'[t] = [[m EXCEPT !.queue = @ - 1] EXCEPT !.queue = @ + 1]
          \/ task'[t] = m
      BY <1>1, <3>1 DEF DataType
    <3>5. task'[t].status = m.status
      BY <3>3, <3>4 DEF TaskStates
    <3> QED
      BY <3>3, <3>5 DEF StatusKept
  <2>2. CASE ResumeTask(t)
    <3> DEFINE m == [Revived(task[t]) EXCEPT !.timer = FALSE]
    <3>1. SetStatus(task[t], "pending") \in TaskStates /\ SetStatus(task[t], "pending").status = "pending"
      BY <1>1, SetStatusType DEF Status
    <3>2. m \in TaskStates /\ m.status = "pending"
      BY <3>1 DEF Revived, TaskStates
    <3>3. task' = [task EXCEPT ![t] = [m EXCEPT !.queue = @ + 1]]
      BY <2>2 DEF ResumeTask, Enqueue
    <3> HIDE DEF m
    <3>4. task'[t].status = "pending"
      BY <1>1, <3>2, <3>3 DEF DataType, TaskStates
    <3> QED
      BY <3>4 DEF StatusKept
  <2>3. ASSUME NEW force \in BOOLEAN, Stop(t, force)
        PROVE  StatusKept(t)
    BY <1>1, <2>3 DEF Stop, StatusKept, Ended, TaskStates, Status
  <2> QED
    BY <1>3, <2>1, <2>2, <2>3 DEF Call
<1> QED
  BY <1>2, <1>3

\* The steps of a processor: without an answer they change no status.
LEMMA ProcessorStatus ==
  ASSUME DataInv, NEW u \in Tasks, ProcessorStep(u), NEW t \in Tasks
  PROVE  StatusKept(t)
<1>1. task[u] \in TaskStates /\ DataType
  BY DEF DataInv, DataType
<1>2. CASE t # u
  <2>1. task'[t] = task[t]
    BY <1>1, <1>2 DEF ProcessorStep, LeaveQueue, AllExpired, TakeMessage, StartRun, RunStarted,
      EnterLoop, RunEnds, RunStored, Leave, Transition, DataType
  <2> QED
    BY <2>1 DEF StatusKept
<1>3. CASE t = u
  <2>1. RunOver(task[t]).status = task[t].status
    BY <1>1, <1>3, RunOverType
  <2>2. CASE LeaveQueue(t) \/ EnterLoop(t) \/ StartRun(t) \/ Leave(t)
    <3>1. task'[t].status = task[t].status
      BY <1>1, <1>3, <2>1, <2>2 DEF LeaveQueue, EnterLoop, StartRun, Leave, Transition, DataType,
        TaskStates
    <3> QED
      BY <3>1 DEF StatusKept
  <2>3. CASE AllExpired(t) \/ \E old \in Expired(t) : TakeMessage(t, old)
    <3>1. PICK n, b : \/ task' = [task EXCEPT ![t] = [@ EXCEPT !.queue = n, !.error = b]]
                      \/ task' = [task EXCEPT ![t].queue = n]
      BY <2>3 DEF AllExpired, TakeMessage, Transition
    <3>2. task[t] \in TaskStates /\ task \in [Tasks -> TaskStates]
      BY <1>1, <1>3 DEF DataType
    <3>3. \/ task'[t] = [task[t] EXCEPT !.queue = n, !.error = b]
          \/ task'[t] = [task[t] EXCEPT !.queue = n]
      BY <3>1, <3>2
    <3>4. task'[t].status = task[t].status
      BY <3>2, <3>3 DEF TaskStates
    <3> QED
      BY <3>4 DEF StatusKept
  <2>4. CASE \E good \in BOOLEAN : RunEnds(t, good)
    <3>1. task'[t].status = task[t].status
      BY <1>1, <1>3, <2>1, <2>4 DEF RunEnds, Transition, DataType, TaskStates
    <3> QED
      BY <3>1 DEF StatusKept
  <2>5. CASE RunStarted(t) \/ RunStored(t)
    <3>1. PICK applied \in BOOLEAN : Answer(t, "run", applied)
      BY <2>5 DEF RunStarted, RunStored
    <3>2. /\ Answered(t) \in TaskStates /\ Answered(t).status = Head(cas[t]).status
          /\ cas[t] # <<>> /\ task \in [Tasks -> TaskStates]
      BY <1>1, <3>1, AnswerType DEF DataType
    <3>3. \/ \E b : task' = [task EXCEPT ![t] =
                             [Answered(t) EXCEPT !.sameLife = TRUE, !.timer = b]]
          \/ task' = [task EXCEPT ![t] = Answered(t)]
          \/ task' = [task EXCEPT ![t] = RunOver(Answered(t))]
      BY <2>5 DEF RunStarted, RunStored
    <3>4. task'[t].status = Answered(t).status
      BY <3>2, <3>3 DEF RunOver, TaskStates
    <3> QED
      BY <3>2, <3>4 DEF StatusKept
  <2> QED
    BY <1>3, <2>2, <2>3, <2>4, <2>5 DEF ProcessorStep
<1> QED
  BY <1>2, <1>3

\* Every step.
LEMMA StatusSteps ==
  DataInv /\ [Next]_vars => \A t \in Tasks : StatusKept(t)
<1> SUFFICES ASSUME DataInv, [Next]_vars, NEW t \in Tasks PROVE StatusKept(t)
  OBVIOUS
<1>1. /\ task \in [Tasks -> TaskStates] /\ DataType
  BY DEF DataInv, DataType
<1>2. ASSUME NEW created \in SUBSET Tasks, Create(created) PROVE StatusKept(t)
  <2>1. CASE t \in created
    BY <1>2, <2>1 DEF Create, DataInv, TasksOK, Born, NewTask, StatusKept
  <2>2. CASE t \notin created
    BY <1>2, <2>2 DEF Create, StatusKept
  <2> QED
    BY <2>1, <2>2
<1>3. ASSUME NEW u \in Tasks, Start(u) PROVE StatusKept(t)
  BY <1>3 DEF Start, StatusKept
<1>4. ASSUME NEW u \in Tasks, StopStep(u) \/ TimerFires(u) \/ TimedOut(u)
      PROVE  StatusKept(t)
  <2>1. CASE t # u
    <3>1. task'[t] = task[t]
      BY <1>1, <1>4, <2>1
      DEF StopStep, StopWaited, StopAnswered, TimerFires, TimedOut, Kill, Transition
    <3> QED
      BY <3>1 DEF StatusKept
  <2>2. CASE t = u /\ (StopAnswered(u) \/ TimedOut(u))
    <3>1. \/ Answer(t, "stop", TRUE) \/ Answer(t, "stop", FALSE)
          \/ Answer(t, "timer", TRUE) \/ Answer(t, "timer", FALSE)
      BY <2>2 DEF StopAnswered, TimedOut
    <3>2. /\ Answered(t) \in TaskStates /\ Answered(t).status = Head(cas[t]).status
          /\ cas[t] # <<>>
      BY <1>1, <3>1, AnswerType
    <3>3. \/ task' = [task EXCEPT ![t] = Answered(t)]
          \/ task' = [task EXCEPT ![t] = [Answered(t) EXCEPT !.timer = FALSE]]
          \/ \E b : task' = [task EXCEPT ![t] = [Answered(t) EXCEPT !.cancelled = b]]
          \/ \E b : task' = [task EXCEPT ![t] = [[Answered(t) EXCEPT !.timer = FALSE]
                                                   EXCEPT !.cancelled = b]]
      BY <2>2 DEF StopAnswered, TimedOut, Cancelled
    <3>4. task'[t].status = Answered(t).status
      BY <1>1, <3>2, <3>3 DEF TaskStates
    <3> QED
      BY <3>2, <3>4 DEF StatusKept
  <2>3. CASE t = u /\ (StopWaited(u) \/ TimerFires(u))
    <3>1. \/ task' = [task EXCEPT ![t] = [@ EXCEPT !.stopped = TRUE, !.error = TRUE]]
          \/ task' = [task EXCEPT ![t] = [[@ EXCEPT !.timer = FALSE] EXCEPT !.error = TRUE]]
          \/ task' = [task EXCEPT ![t] = [@ EXCEPT !.timer = FALSE]]
      BY <2>3 DEF StopWaited, TimerFires, Kill, Transition
    <3>2. task'[t].status = task[t].status
      BY <1>1, <3>1 DEF TaskStates
    <3> QED
      BY <3>2 DEF StatusKept
  <2> QED
    BY <1>4, <2>1, <2>2, <2>3 DEF StopStep
<1>5. CASE Dispose
  BY <1>1, <1>5 DEF Dispose, StatusKept
<1>6. CASE Restart
  <2>1. task'[t] = Hydrated(row[t])
    BY <1>6 DEF Restart
  <2> QED
    BY <1>6, <2>1 DEF StatusKept
<1>7. CASE UNCHANGED vars
  BY <1>7 DEF vars, StatusKept
<1> QED
  BY <1>2, <1>3, <1>4, <1>5, <1>6, <1>7, CallStatus, ProcessorStatus, SubagentAssumption DEF Next

\* A row changes by a save of the memory, or by a transition that expects its status.
RowKept(t) == \/ row'[t].status = row[t].status
              \/ row'[t].status = task'[t].status
              \/ row[t].status \notin {"completed", "killed"}

\* Transitions under way are answered in order, and a new one will be answered with
\* the status its row has then.
CasKept(t) == \A i \in DOMAIN cas'[t] :
                \/ cas'[t][i].status = row'[t].status
                \/ \E j \in DOMAIN cas[t] : cas'[t][i].status = cas[t][j].status

\* Marking transitions as overtaken, or taking the first, keeps the answers.
LEMMA AnswersKept ==
  ASSUME NEW q \in Seq(GoodRequests)
  PROVE  /\ DOMAIN Overtaken(q) = DOMAIN q
         /\ \A i \in DOMAIN q : Overtaken(q)[i].status = q[i].status
         /\ q # <<>> => \A i \in DOMAIN Tail(q) : i + 1 \in DOMAIN q /\ Tail(q)[i] = q[i + 1]
<1>1. \A i \in DOMAIN q : q[i] \in GoodRequests
  OBVIOUS
<1>2. \A i \in DOMAIN q : [q[i] EXCEPT !.late = TRUE].status = q[i].status
  BY <1>1 DEF GoodRequests, Requests
<1>3. q # <<>> => \A i \in DOMAIN Tail(q) : i + 1 \in DOMAIN q /\ Tail(q)[i] = q[i + 1]
  OBVIOUS
<1> QED
  BY <1>2, <1>3 DEF Overtaken

\* A transition changes a row only if it expects its status.
LEMMA TransitionRow ==
  ASSUME DataInv, NEW u \in Tasks, NEW who, NEW from, NEW to, NEW m \in TaskStates, to \in Status,
         "completed" \notin from, "killed" \notin from, Transition(u, who, from, to, m),
         NEW t \in Tasks
  PROVE  RowKept(t) /\ CasKept(t)
<1> DEFINE applied == row[u].status \in from
           answer == [who |-> who, applied |-> applied, late |-> FALSE,
                      status |-> IF applied THEN to ELSE row[u].status]
           queued == IF applied THEN Overtaken(cas[u]) ELSE cas[u]
<1>1. /\ cas \in [Tasks -> Seq(GoodRequests)] /\ row \in [Tasks -> RowStates]
  BY DEF DataInv, DataType
<1>2. CASE t # u
  <2>1. row'[t] = row[t] /\ cas'[t] = cas[t]
    BY <1>1, <1>2 DEF Transition
  <2> QED
    BY <2>1 DEF RowKept, CasKept
<1>3. CASE t = u
  <2>1. cas'[t] = Append(queued, answer)
    BY <1>1, <1>3 DEF Transition
  <2>2. Stored([m EXCEPT !.status = to]).status = to
    BY DEF Stored, TaskStates
  <2>3. answer.status = row'[t].status
    BY <1>1, <1>3, <2>2 DEF Transition
  <2>4. /\ queued \in Seq(GoodRequests) /\ DOMAIN queued = DOMAIN cas[t]
        /\ \A i \in DOMAIN queued : queued[i].status = cas[t][i].status
    BY <1>1, <1>3, OvertakenType, AnswersKept
  <2> HIDE DEF answer, queued
  <2>5. CasKept(t)
    <3>1. \A i \in DOMAIN Append(queued, answer) :
            \/ Append(queued, answer)[i] = answer
            \/ i \in DOMAIN queued /\ Append(queued, answer)[i] = queued[i]
      BY <2>4
    <3> QED
      BY <2>1, <2>3, <2>4, <3>1 DEF CasKept
  <2>6. RowKept(t)
    BY <1>3 DEF RowKept, Transition
  <2> QED
    BY <2>5, <2>6
<1> QED
  BY <1>2, <1>3

\* An answer is taken from the head of the line, and changes no row.
LEMMA AnswerRow ==
  ASSUME DataInv, NEW u \in Tasks, NEW who, NEW applied \in BOOLEAN, Answer(u, who, applied),
         NEW t \in Tasks
  PROVE  RowKept(t) /\ CasKept(t)
<1>1. cas \in [Tasks -> Seq(GoodRequests)]
  BY DEF DataInv, DataType
<1>2. row' = row /\ cas' = [cas EXCEPT ![u] = Tail(@)] /\ cas[u] # <<>>
  BY DEF Answer
<1>3. CasKept(t)
  BY <1>1, <1>2, AnswersKept DEF CasKept
<1> QED
  BY <1>2, <1>3 DEF RowKept

\* A save writes what is in memory.
LEMMA SavedRow ==
  ASSUME DataInv, row' = Saved(task', ahead'), NEW t \in Tasks,
         cas'[t] = cas[t] \/ cas'[t] = Overtaken(cas[t])
  PROVE  RowKept(t) /\ CasKept(t)
<1>1. cas[t] \in Seq(GoodRequests)
  BY DEF DataInv, DataType
<1>2. CasKept(t)
  BY <1>1, AnswersKept DEF CasKept
<1>3. RowKept(t)
  BY DEF RowKept, Saved, Stored
<1> QED
  BY <1>2, <1>3

\* Every step.
LEMMA RowSteps ==
  DataInv /\ [Next]_vars => \A t \in Tasks : RowKept(t) /\ CasKept(t)
<1> SUFFICES ASSUME DataInv, [Next]_vars, NEW t \in Tasks PROVE RowKept(t) /\ CasKept(t)
  OBVIOUS
<1>1. /\ task \in [Tasks -> TaskStates] /\ cas \in [Tasks -> Seq(GoodRequests)] /\ DataType
  BY DEF DataInv, DataType
<1>2. ASSUME UNCHANGED <<row, cas>> PROVE RowKept(t) /\ CasKept(t)
  BY <1>2 DEF RowKept, CasKept
<1>3. ASSUME NEW created, Create(created) PROVE RowKept(t) /\ CasKept(t)
  <2>1. row' = Saved(task', ahead') /\ cas' = cas
    BY <1>3 DEF Create
  <2> QED
    BY <2>1, SavedRow
<1>4. ASSUME NEW u \in Tasks, NEW m, Enqueue(u, m) PROVE RowKept(t) /\ CasKept(t)
  <2>1. row' = Saved(task', ahead') /\ (cas'[t] = cas[t] \/ cas'[t] = Overtaken(cas[t]))
    BY <1>1, <1>4 DEF Enqueue
  <2> QED
    BY <2>1, SavedRow
<1>5. ASSUME NEW u \in Tasks, Kill(u, task[u]) PROVE RowKept(t) /\ CasKept(t)
  <2> DEFINE m == [task[u] EXCEPT !.stopped = TRUE, !.error = TRUE]
             from == {"pending", "running", "failed"}
  <2>1. m \in TaskStates
    BY <1>1 DEF TaskStates
  <2>2. Transition(u, "stop", from, "killed", m) /\ "completed" \notin from /\ "killed" \notin from
    BY <1>5 DEF Kill
  <2>3. "killed" \in Status
    BY DEF Status
  <2> HIDE DEF m, from
  <2> QED
    BY <2>1, <2>2, <2>3, TransitionRow
<1>6. ASSUME NEW u \in Tasks, Call(u) PROVE RowKept(t) /\ CasKept(t)
  <2>1. CASE \E old \in Expired(u) : Send(u, old)
    BY <1>2, <1>4, <2>1 DEF Send, rowVars
  <2>2. CASE ResumeTask(u)
    BY <1>4, <2>2 DEF ResumeTask
  <2>3. CASE \E force \in BOOLEAN : Stop(u, force)
    BY <1>2, <1>5, <2>3 DEF Stop, rowVars
  <2> QED
    BY <1>6, <2>1, <2>2, <2>3 DEF Call
<1>7. ASSUME NEW u \in Tasks, NEW who, NEW from, NEW to \in {"running", "completed", "failed"},
             "completed" \notin from, "killed" \notin from,
             NEW m \in TaskStates, Transition(u, who, from, to, m)
      PROVE  RowKept(t) /\ CasKept(t)
  <2>1. to \in Status
    BY DEF Status
  <2> QED
    BY <1>7, <2>1, TransitionRow
<1>8. ASSUME NEW u \in Tasks, ProcessorStep(u) PROVE RowKept(t) /\ CasKept(t)
  <2>1. CASE LeaveQueue(u) \/ EnterLoop(u) \/ \E old \in Expired(u) : TakeMessage(u, old)
    BY <1>2, <2>1 DEF LeaveQueue, EnterLoop, TakeMessage, rowVars
  <2>2. CASE AllExpired(u)
    <3> DEFINE m == [task[u] EXCEPT !.queue = 0, !.error = TRUE]
    <3>1. m \in TaskStates
      <4>1. 0 \in 0 .. MaxQueue /\ task[u] \in TaskStates
        BY <1>1, SubagentAssumption
      <4> QED
        BY <4>1 DEF TaskStates
    <3>2. Transition(u, "run", {"pending"}, "failed", m) \/ UNCHANGED rowVars
      BY <2>2 DEF AllExpired
    <3> HIDE DEF m
    <3> QED
      BY <1>2, <1>7, <3>1, <3>2 DEF rowVars
  <2>3. CASE StartRun(u)
    BY <1>1, <1>7, <2>3 DEF StartRun
  <2>4. CASE \E good \in BOOLEAN : RunEnds(u, good)
    <3> DEFINE m == [task[u] EXCEPT !.error = TRUE]
    <3>1. m \in TaskStates
      BY <1>1 DEF TaskStates
    <3>2. \/ Transition(u, "run", {"running"}, "completed", task[u])
          \/ Transition(u, "run", {"running"}, "failed", m)
          \/ UNCHANGED rowVars
      BY <2>4 DEF RunEnds
    <3> HIDE DEF m
    <3> QED
      BY <1>1, <1>2, <1>7, <3>1, <3>2 DEF rowVars
  <2>5. CASE RunStarted(u) \/ RunStored(u)
    BY <2>5, AnswerRow DEF RunStarted, RunStored
  <2>6. CASE Leave(u)
    <3>1. row' = Saved(task', ahead') /\ cas' = cas
      BY <2>6 DEF Leave
    <3> QED
      BY <3>1, SavedRow
  <2> QED
    BY <1>8, <2>1, <2>2, <2>3, <2>4, <2>5, <2>6 DEF ProcessorStep
<1>9. ASSUME NEW u \in Tasks, StopStep(u) \/ TimedOut(u) PROVE RowKept(t) /\ CasKept(t)
  BY <1>5, <1>9, AnswerRow DEF StopStep, StopWaited, StopAnswered, TimedOut
<1>10. ASSUME NEW u \in Tasks, TimerFires(u) PROVE RowKept(t) /\ CasKept(t)
  <2> DEFINE m == [[task[u] EXCEPT !.timer = FALSE] EXCEPT !.error = TRUE]
  <2>1. m \in TaskStates
    BY <1>1 DEF TaskStates
  <2>2. Transition(u, "timer", {"running"}, "failed", m) \/ UNCHANGED rowVars
    BY <1>10 DEF TimerFires
  <2> HIDE DEF m
  <2> QED
    BY <1>2, <1>7, <2>1, <2>2 DEF rowVars
<1>11. CASE Dispose
  <2>1. row' = Saved(task', ahead') /\ (cas'[t] = cas[t] \/ cas'[t] = Overtaken(cas[t]))
    BY <1>11 DEF Dispose
  <2> QED
    BY <2>1, SavedRow
<1>12. CASE Restart
  BY <1>12 DEF Restart, RowKept, CasKept
<1>13. CASE UNCHANGED vars
  BY <1>2, <1>13 DEF vars
<1>14. ASSUME NEW u \in Tasks, Start(u) PROVE RowKept(t) /\ CasKept(t)
  BY <1>2, <1>14 DEF Start, rowVars
<1> QED
  BY <1>3, <1>6, <1>8, <1>9, <1>10, <1>11, <1>12, <1>13, <1>14 DEF Next

\* An outcome that memory, row and answers agree on is changed by a call only, also when
\* runs, timers and stops end late and when the page is loaded again.
THEOREM OutcomesStand == Spec => OutcomeStands
<1>1. ASSUME DataInv, [Next]_vars
      PROVE  [\A t \in Tasks : Settled(t) => \/ Settled(t)' /\ task'[t].status = task[t].status
                                             \/ task'[t].status = "pending"]_vars
  <2>1. ASSUME NEW t \in Tasks, Settled(t), task'[t].status # "pending"
        PROVE  Settled(t)' /\ task'[t].status = task[t].status
    <3>1. StatusKept(t) /\ RowKept(t) /\ CasKept(t)
      BY <1>1, StatusSteps, RowSteps
    <3>2. row[t].status \in {"completed", "killed"} => Hydrated(row[t]).status = row[t].status
      BY DEF Hydrated, NewTask
    <3>3. cas[t] # <<>> => 1 \in DOMAIN cas[t] /\ Head(cas[t]) = cas[t][1]
      BY <1>1 DEF DataInv, DataType
    <3>4. task'[t].status = task[t].status
      BY <2>1, <3>1, <3>2, <3>3 DEF Settled, StatusKept
    <3>5. row'[t].status = task[t].status
      BY <2>1, <3>1, <3>4 DEF Settled, RowKept
    <3>6. \A i \in DOMAIN cas'[t] : cas'[t][i].status = task[t].status
      BY <2>1, <3>1, <3>5 DEF Settled, CasKept
    <3> QED
      BY <2>1, <3>4, <3>5, <3>6 DEF Settled
  <2> QED
    BY <2>1
<1> QED
  BY <1>1, SlotInvInit, SlotInvStep, DataInvInit, DataInvStep, PTL DEF Spec, OutcomeStands

\* A stop that answers leaves an ended task, whether its transition was applied
\* or refused.
THEOREM StopsEnd == Spec => StopEnds
<1>1. ASSUME DataInv, [Next]_vars
      PROVE  [\A t \in Tasks : stop[t] = "killing" /\ stop'[t] = "none"
                                => task'[t].status \in Ended]_vars
  <2>1. ASSUME NEW t \in Tasks, stop[t] = "killing", stop'[t] = "none"
        PROVE  task'[t].status \in Ended
    <3>1. stop[t] # stop'[t] /\ stop \in [Tasks -> {"none", "waiting", "killing"}]
      BY <1>1, <2>1 DEF DataInv, DataType
    <3>2. CASE StopAnswered(t)
      <4>1. PICK applied \in BOOLEAN : Answer(t, "stop", applied)
        BY <3>2 DEF StopAnswered
      <4>2. /\ Answered(t).status \in Ended /\ Answered(t) \in TaskStates
            /\ task \in [Tasks -> TaskStates]
        BY <1>1, <4>1, AnswerType DEF DataInv, DataType, GoodRequests
      <4>3. \/ task' = [task EXCEPT ![t] = Answered(t)]
            \/ task' = [task EXCEPT ![t] = [Answered(t) EXCEPT !.timer = FALSE]]
            \/ \E b : task' = [task EXCEPT ![t] = [[Answered(t) EXCEPT !.timer = FALSE]
                                                     EXCEPT !.cancelled = b]]
        BY <3>2 DEF StopAnswered, Cancelled
      <4>4. task'[t].status = Answered(t).status
        BY <4>2, <4>3 DEF TaskStates
      <4> QED
        BY <4>2, <4>4
    <3>3. CASE Restart
      <4>1. row[t].status # "none" /\ row[t] \in RowStates
        BY <1>1, <2>1, Alive
      <4>2. task'[t] = Hydrated(row[t])
        BY <3>3 DEF Restart
      <4>3. Hydrated(row[t]).status = IF row[t].status \in {"pending", "running"} THEN "failed"
                                                                                ELSE row[t].status
        BY DEF Hydrated, NewTask
      <4> QED
        BY <4>1, <4>2, <4>3 DEF RowStates, Status, Ended
    <3>4. ASSUME NEW u \in Tasks, Call(u)
          PROVE  stop'[t] # "none"
      BY <2>1, <3>1, <3>4 DEF Call, Send, ResumeTask, Stop, Kill
    <3>5. ASSUME NEW u \in Tasks, StopStep(u), ~StopAnswered(t)
          PROVE  stop'[t] # "none"
      BY <2>1, <3>1, <3>5 DEF StopStep, StopWaited, StopAnswered, Kill
    <3>6. ASSUME NEW u \in Tasks, ProcessorStep(u)
          PROVE  stop' = stop
      BY <3>6 DEF ProcessorStep, LeaveQueue, AllExpired, TakeMessage, StartRun, RunStarted,
        EnterLoop, RunEnds, RunStored, Leave, Elsewhere
    <3>7. ASSUME NEW u \in Tasks, \/ Create({u}) \/ Create(Batch) \/ Start(u) \/ Dispose
                                  \/ TimerFires(u) \/ TimedOut(u) \/ UNCHANGED vars
          PROVE  stop' = stop
      BY <3>7 DEF Create, Start, Dispose, TimerFires, TimedOut, vars
    <3> QED
      BY <1>1, <2>1, <3>1, <3>2, <3>3, <3>4, <3>5, <3>6, <3>7 DEF Next
  <2> QED
    BY <2>1
<1> QED
  BY <1>1, SlotInvInit, SlotInvStep, DataInvInit, DataInvStep, PTL DEF Spec, StopEnds
=============================================================================
