--------------------------- MODULE ConversationRun ---------------------------
(***************************************************************************)
(* The agent runs of one conversation, as runAgentImpl                     *)
(* (web/store/conversation-agent-run.ts) and cancelAgent and               *)
(* compactConversation (conversation.store.sqlite.ts) make them.           *)
(*                                                                         *)
(* A dispatch claims the conversation before its first await, takes the    *)
(* lock when the workspace is ready, registers an agent loop and runs it.  *)
(* One that finds the conversation taken leaves a trigger, or the user's   *)
(* message itself, in a queue that whoever ends a run looks at.  The lock  *)
(* lives twice, in the conversation and in its runtime entry.              *)
(*                                                                         *)
(* An epoch is named by the run that began it.  The identities of runs     *)
(* that are gone are forgotten, so that a place in Runs can be used again. *)
(*                                                                         *)
(* The chat reads the transcript when a message is sent and writes that    *)
(* reading back, with the message, after page context, assets and OCR: what*)
(* was put in meanwhile is erased.  A send matters only from then on, so   *)
(* just the readings of sends under way are kept.                          *)
(***************************************************************************)
EXTENDS Naturals, Sequences, FiniteSets, SequenceFilter

CONSTANTS Runs,         \* places for calls of runAgent and compactConversation
          None,         \* null
          MaxMessages,  \* bound on the messages users write
          MaxQueue,     \* MAX_QUEUE_SIZE
          MaxHandOffs,  \* bound on the hand-offs to another agent
          MaxReadings,  \* bound on the transcripts that sends under way have read
          Failures,     \* whether dispatches, set-ups and loops may fail
          Overlap       \* whether a dispatch may begin while a compaction goes on

ASSUME RunAssumption == /\ None \notin Runs
                        /\ None \notin 1 .. MaxMessages
                        /\ MaxMessages \in Nat
                        /\ MaxQueue \in Nat \ {0}
                        /\ MaxHandOffs \in Nat
                        /\ MaxReadings \in Nat
                        /\ Failures \in BOOLEAN
                        /\ Overlap \in BOOLEAN

VARIABLES conv,        \* status, activeRunId and runEpoch of the conversation
          rt,          \* the same of its runtime entry
          claim,       \* runClaimSlots: the run that holds the start claim
          loop,        \* the agent loop registry: the run whose loop it holds
          queue,       \* pendingMessageQueues
          transcript,  \* the user's messages among conv.messages
          readings,    \* targetConv.messages of the chat's sends under way
          run,         \* where each run is, and what it keeps
          sent,        \* how many messages users have written
          told,        \* history: messages that were rejected, or shown an error
          handled,     \* history: messages a run has answered, or was stopped or aborted on
          erased,      \* history: messages that were in the transcript and are not any more
          handOffs,    \* hand-offs made so far
          struck       \* history: a rejected hand-off has struck the run in its way

lockVars == <<conv, rt, claim, loop>>
asks == <<sent, told, handled>>
handVars == <<handOffs, struck>>
talk == <<transcript, readings, erased>>
vars == <<lockVars, queue, talk, run, asks, handVars>>

Messages == 1 .. MaxMessages
Places == {"idle", "called", "claiming", "routing", "setup", "looping", "ended", "handing",
           "preparing", "compacting", "taking"}

NoLock == [status |-> "idle", active |-> None, epoch |-> None]
Fresh(place, seen) == [pc |-> place, sees |-> seen, stopped |-> FALSE, hands |-> FALSE]

Init == /\ conv = NoLock
        /\ rt = NoLock
        /\ claim = None
        /\ loop = None
        /\ queue = <<>>
        /\ transcript = {} /\ readings = {} /\ erased = {}
        /\ run = [r \in Runs |-> Fresh("idle", {})]
        /\ sent = 0
        /\ told = {}
        /\ handled = {}
        /\ handOffs = 0
        /\ struck = FALSE

Goes(r, place) == run' = [run EXCEPT ![r].pc = place]
Becomes(r, place) == run' = [run EXCEPT ![r] = Fresh(place, {})]

\* Whoever has a message in the transcript sees the error on display.
Shown == told' = IF conv'.status = "error" THEN told \cup transcript' ELSE told

\* History: what the transcript loses, or gets back.
Erases == erased' = (erased \cup transcript) \ transcript'

\* A status with the lock given back.
Freed(lock, status) == [lock EXCEPT !.status = status, !.active = None]

-----------------------------------------------------------------------------
(* The queue.  A trigger carries no message, its run answers the transcript. *)

Trigger(owner) == [message |-> None, owner |-> owner]
Message(m) == [message |-> m, owner |-> None]

\* r is gone: its triggers have an owner that no longer exists.
Forget(q, r) ==
  [i \in DOMAIN q |-> IF q[i].owner = r THEN [q[i] EXCEPT !.owner = None] ELSE q[i]]

\* The run that will look at the queue.
Owner == IF claim # None THEN claim ELSE conv.active

\* drainStaleRerunTriggers: triggers whose owner is not the live one go.
Drained(q, owner) ==
  Filter(q, {e \in {q[i] : i \in DOMAIN q} : e.message # None \/ (e.owner # None /\ e.owner = owner)})

\* What is left of a full queue after a drain.
Room == IF Len(queue) < MaxQueue THEN queue ELSE Drained(queue, Owner)
NoRoom == Len(Room) >= MaxQueue

\* Faulty: the drain is taken for room.
ParkAnyway(m) == /\ queue' = Append(Room, Trigger(Owner))
                 /\ told' = told

\* A trigger is queued, or rejected.
Park(m) == \/ /\ ~NoRoom
              /\ queue' = Append(Room, Trigger(Owner))
              /\ told' = told
           \/ /\ NoRoom
              /\ queue' = Room
              /\ told' = told \cup m

-----------------------------------------------------------------------------
(* runAgentImpl, up to the lock.                                             *)

ConvRunning == conv.status = "running"
Taken == ConvRunning \/ claim # None

\* Faulty: a dispatch that finds the conversation taken just returns.
RunAgentDropped(r, m) ==
  \/ /\ Taken
     /\ Becomes(r, "idle")
     /\ UNCHANGED <<lockVars, queue, told>>
  \/ /\ ~Taken
     /\ claim' = r
     /\ run' = [run EXCEPT ![r] = Fresh("claiming", transcript')]
     /\ UNCHANGED <<conv, rt, loop, queue, told>>

\* Faulty: a dispatch does not look at the claim.
RunAgentUnclaimed(r, m) ==
  \/ /\ ConvRunning
     /\ Park(m)
     /\ Becomes(r, "idle")
     /\ UNCHANGED lockVars
  \/ /\ ~ConvRunning
     /\ claim' = r
     /\ run' = [run EXCEPT ![r] = Fresh("claiming", transcript')]
     /\ UNCHANGED <<conv, rt, loop, queue, told>>

\* The synchronous part of a call made for the messages m: it is parked or
\* rejected, it claims the conversation with what it sees of the transcript,
\* or its provider is gone.
RunAgent(r, m) ==
  \/ /\ Taken
     /\ Park(m)
     /\ Becomes(r, "idle")
     /\ UNCHANGED lockVars
  \/ /\ ~Taken
     /\ claim' = r
     /\ run' = [run EXCEPT ![r] = Fresh("claiming", transcript')]
     /\ UNCHANGED <<conv, rt, loop, queue, told>>
  \/ /\ ~Taken /\ Failures
     /\ conv' = Freed(conv, "error")
     /\ rt' = Freed(rt, "error")
     /\ Becomes(r, "idle")
     /\ Shown
     /\ UNCHANGED <<claim, loop, queue>>

Compacting(r) == run[r].pc \in {"preparing", "compacting"}
Apart == Overlap \/ \A r \in Runs : ~Compacting(r)

\* The next message a user writes.
Write(m) == /\ sent < MaxMessages
            /\ m = sent + 1
            /\ sent' = m
            /\ UNCHANGED <<handled, handVars>>

\* A message is put behind what its sender has read, and a run is dispatched.
PutBehind(r, m, read) ==
  /\ run[r].pc = "idle"
  /\ Apart
  /\ Write(m)
  /\ transcript' = read \cup {m}
  /\ Erases
  /\ RunAgent(r, {m})

\* The quick actions, the file and sync panels, a scheduled task: they read the
\* transcript and write it back in one step, and do not look whether a run goes on.
Dispatch(r, m) == PutBehind(r, m, transcript) /\ UNCHANGED readings

\* The chat begins to send: it reads the conversation once, for all that follows.
StartSend ==
  /\ Cardinality(readings) < MaxReadings
  /\ readings' = readings \cup {transcript}
  /\ UNCHANGED <<lockVars, queue, transcript, erased, run, asks, handVars>>

\* No send holds this reading any more: the last was queued, rejected or committed.
EndSend ==
  /\ \E read \in readings : readings' = readings \ {read}
  /\ UNCHANGED <<lockVars, queue, transcript, erased, run, asks, handVars>>

\* The chat does not find the runtime entry running: it writes back what it has read.
SendDirect(r, m) ==
  /\ rt.status # "running"
  /\ \E read \in readings : PutBehind(r, m, read)
  /\ UNCHANGED readings

\* The chat finds the runtime entry running: the message waits in the queue.  A full
\* one sends it back to the input field.
SendQueued(m) ==
  /\ rt.status = "running"
  /\ Len(queue) < MaxQueue
  /\ Write(m)
  /\ queue' = Append(queue, Message(m))
  /\ UNCHANGED <<lockVars, talk, run, told>>

\* The microtask of a follow-up run.
FollowUp(r) ==
  /\ run[r].pc = "called"
  /\ UNCHANGED <<talk, sent, handled, handVars>>
  /\ RunAgent(r, {})

\* The workspace is there.  If another run has started by now the call returns.
WorkspaceReady(r) ==
  /\ run[r].pc = "claiming"
  /\ \/ /\ ~ConvRunning
        /\ Goes(r, "routing")
        /\ UNCHANGED <<claim, queue>>
     \/ /\ ConvRunning
        /\ claim' = None
        /\ queue' = Forget(queue, r)
        /\ Becomes(r, "idle")
  /\ UNCHANGED <<conv, rt, loop, talk, asks, handVars>>

\* A dispatch fails: its error is shown, stale triggers go.
Fails(r, drained, keptLoop) ==
  /\ conv' = Freed(conv, "error")
  /\ rt' = Freed(rt, "error")
  /\ loop' = keptLoop
  /\ queue' = Forget(drained, r)
  /\ Becomes(r, "idle")

\* The workspace takes too long, or cannot be prepared; that error goes through the
\* last catch, which clears the registry, and drains when nobody owns the conversation.
WorkspaceFails(r) ==
  /\ Failures
  /\ run[r].pc = "claiming"
  /\ claim' = None
  /\ \/ Fails(r, Drained(queue, conv.active), loop)
     \/ Fails(r, Drained(queue, None), None)
  /\ UNCHANGED <<talk, sent, handled, handVars>>
  /\ Shown

\* The directory is known: the claim becomes the lock, in both stores.  Triggers
\* left for the claim are stamped with the run's id, which is the same here.
Lock(r) ==
  /\ run[r].pc = "routing"
  /\ claim' = None
  /\ conv' = [status |-> "running", active |-> r, epoch |-> r]
  /\ rt' = [status |-> "running", active |-> r, epoch |-> r]
  /\ Goes(r, "setup")
  /\ UNCHANGED <<loop, queue, talk, asks, handVars>>

-----------------------------------------------------------------------------
(* The run.                                                                  *)

\* isCurrentRun, isCurrentRunEpoch
Current(r) == rt.active = r /\ rt.epoch = r
CurrentEpoch(r) == rt.epoch = r

\* Provider, key, agent and tools are there: the loop is registered and runs.
StartLoop(r) ==
  /\ run[r].pc = "setup"
  /\ loop' = r
  /\ Goes(r, "looping")
  /\ UNCHANGED <<conv, rt, claim, queue, talk, asks, handVars>>

\* The set-up fails.  failRunEarly drains nothing, failDispatchEarly drains while
\* the run is still the live owner, an error thrown is drained for afterwards.
SetupFails(r) ==
  /\ Failures
  /\ run[r].pc = "setup"
  /\ \/ /\ conv' = IF Current(r) /\ conv.active = r THEN Freed(conv, "error") ELSE conv
        /\ rt' = IF Current(r) THEN Freed(rt, "error") ELSE rt
        /\ queue' = Forget(queue, r)
        /\ Becomes(r, "idle")
        /\ UNCHANGED loop
     \/ Fails(r, Drained(queue, Owner), loop)
     \/ Fails(r, Drained(queue, claim), None)
  /\ UNCHANGED <<claim, talk, sent, handled, handVars>>
  /\ Shown

\* reconcileMessageSnapshot: what a run saw is merged into the transcript.  If they
\* have no message in common the run's may replace it, if it is not much shorter.
Merged(read, seen) == {read \cup seen} \cup (IF read \cap seen = {} THEN {seen} ELSE {})

\* onMessagesUpdated: the run's messages are put into the conversation as it goes on.
Update(r) ==
  /\ run[r].pc = "looping" /\ conv.epoch = r
  /\ transcript' \in Merged(transcript, run[r].sees)
  /\ Erases
  /\ UNCHANGED <<lockVars, queue, readings, run, asks, handVars>>

\* Faulty: whatever run ends, the conversation is idle.
FinalizeAnyway(r) ==
  /\ loop' = None
  /\ conv' = Freed(conv, "idle")
  /\ rt' = Freed(rt, "idle")
  /\ handled' = handled \cup run[r].sees
  /\ transcript' \in Merged(transcript, run[r].sees)

\* finalizeRun("idle"): the registry is cleared, whoever is in it; a run whose
\* epoch is over changes nothing else, another merges what it has seen once more.
Finalize(r) ==
  /\ loop' = None
  /\ \/ /\ conv.epoch = r
        /\ conv' = Freed(conv, "idle")
        /\ rt' = Freed(rt, "idle")
        /\ handled' = handled \cup run[r].sees
        /\ transcript' \in Merged(transcript, run[r].sees)
     \/ /\ conv.epoch # r
        /\ UNCHANGED <<conv, rt, handled, transcript>>

\* The loop returns: with an answer, having yielded to the queue, or aborted.
\* It may have called delegate_to while it was current.
LoopEnds(r) ==
  /\ run[r].pc = "looping"
  /\ Finalize(r)
  /\ Erases
  /\ \E hands \in BOOLEAN :
       /\ hands => handOffs < MaxHandOffs
       /\ run' = [run EXCEPT ![r] = [pc |-> "ended", sees |-> {}, stopped |-> run[r].stopped,
                                    hands |-> hands]]
  /\ UNCHANGED <<claim, queue, readings, sent, told, handVars>>

\* The loop throws, which it never does once it is aborted.
LoopFails(r) ==
  /\ Failures
  /\ run[r].pc = "looping" /\ ~run[r].stopped
  /\ Fails(r, Drained(queue, claim), None)
  /\ UNCHANGED <<claim, talk, sent, handled, handVars>>
  /\ Shown

\* Faulty: only a run that was not stopped looks at the queue.
NextInLineUnstopped(r) ==
  \/ /\ conv'.status = "idle" /\ queue # <<>> /\ ~run[r].stopped
     /\ queue' = Forget(Tail(queue), r)
     /\ transcript' = transcript \cup ({Head(queue).message} \ {None})
     /\ Becomes(r, "called")
  \/ /\ conv'.status # "idle" \/ queue = <<>> \/ run[r].stopped
     /\ queue' = Forget(queue, r)
     /\ Becomes(r, "idle")
     /\ UNCHANGED transcript

\* The end of runAgentImpl: in an idle conversation the first entry is taken, a
\* message goes into the transcript, a run is called.
NextInLine(r) ==
  \/ /\ conv'.status = "idle" /\ queue # <<>>
     /\ queue' = Forget(Tail(queue), r)
     /\ transcript' = transcript \cup ({Head(queue).message} \ {None})
     /\ Becomes(r, "called")
  \/ /\ conv'.status # "idle" \/ queue = <<>>
     /\ queue' = Forget(queue, r)
     /\ Becomes(r, "idle")
     /\ UNCHANGED transcript

\* A request is aborted though nobody pressed Stop (an AbortError reaches the last
\* catch): the conversation is idle, no error is shown, and the queue is looked at.
Aborts(r) ==
  /\ Failures
  /\ run[r].pc \in {"claiming", "setup", "looping"} /\ ~run[r].stopped
  /\ claim' = IF claim = r THEN None ELSE claim
  /\ loop' = None
  /\ conv' = Freed(conv, "idle")
  /\ rt' = Freed(rt, "idle")
  /\ handled' = handled \cup run[r].sees
  /\ NextInLine(r)
  /\ Erases
  /\ UNCHANGED <<readings, sent, told, handVars>>

\* What follows agentLoop.run: a hand-off to the other agent, or the queue.
WrapUp(r) ==
  /\ run[r].pc = "ended"
  /\ UNCHANGED <<lockVars, readings, asks>>
  /\ \/ /\ run[r].hands /\ CurrentEpoch(r)
        /\ handOffs < MaxHandOffs
        /\ handOffs' = handOffs + 1
        /\ UNCHANGED struck
        /\ Goes(r, "handing")
        /\ UNCHANGED <<queue, transcript>>
     \/ /\ ~(run[r].hands /\ CurrentEpoch(r) /\ handOffs < MaxHandOffs)
        /\ NextInLine(r)
        /\ UNCHANGED handVars
  /\ Erases

\* The agents' store is there: the note is added and the other agent called.
HandOff(r) ==
  /\ run[r].pc = "handing"
  /\ ~(Taken /\ NoRoom)
  /\ UNCHANGED <<talk, sent, handled, handVars>>
  /\ RunAgent(r, {})

\* The call is rejected, which the last catch takes for an error of the run itself.
HandOffFails(r) ==
  /\ run[r].pc = "handing"
  /\ Taken /\ NoRoom
  /\ Fails(r, Drained(queue, claim), None)
  /\ struck' = TRUE
  /\ UNCHANGED <<claim, talk, sent, handled, handOffs>>
  /\ Shown

\* cancelAgent: only a registered loop can be stopped.
Stop ==
  /\ loop # None
  /\ loop' = None
  /\ run' = [run EXCEPT ![loop].stopped = TRUE]
  /\ conv' = NoLock
  /\ rt' = Freed(rt, "idle")
  /\ handled' = handled \cup run[loop].sees
  /\ UNCHANGED <<claim, queue, talk, sent, told, handVars>>

-----------------------------------------------------------------------------
(* compactConversation.                                                      *)

\* It is called on a conversation that is not running and has been answered.
Compact(r) ==
  /\ run[r].pc = "idle"
  /\ Overlap \/ \A q \in Runs : run[q].pc = "idle"
  /\ ~ConvRunning
  /\ transcript \cap handled # {}
  /\ run' = [run EXCEPT ![r] = Fresh("preparing", transcript)]
  /\ UNCHANGED <<lockVars, queue, talk, asks, handVars>>

\* No key: it returns.
CompactGivesUp(r) ==
  /\ run[r].pc = "preparing"
  /\ Becomes(r, "idle")
  /\ UNCHANGED <<lockVars, queue, talk, asks, handVars>>

\* It takes the lock without looking at status or claim again.
CompactLocks(r) ==
  /\ run[r].pc = "preparing"
  /\ conv' = [status |-> "running", active |-> r, epoch |-> r]
  /\ rt' = [status |-> "running", active |-> r, epoch |-> r]
  /\ loop' = r
  /\ Goes(r, "compacting")
  /\ UNCHANGED <<claim, queue, talk, asks, handVars>>

\* The lock is given back; the runtime entry's only if it is its own.
CompactFrees(r, status) ==
  /\ loop' = None
  /\ conv' = Freed(conv, status)
  /\ rt' = IF rt.active = r THEN Freed(rt, status) ELSE rt

\* The summary is made, or it was stopped: the transcript becomes the one it began
\* with, and the queue is looked at.  A trigger calls the next run, a message has to
\* wait for an import.
CompactEnds(r) ==
  /\ run[r].pc = "compacting"
  /\ CompactFrees(r, "idle")
  /\ transcript' = run[r].sees
  /\ Erases
  /\ \/ /\ queue # <<>> /\ Head(queue).message = None
        /\ queue' = Forget(Tail(queue), r)
        /\ Becomes(r, "called")
     \/ /\ queue # <<>> /\ Head(queue).message # None
        /\ queue' = Forget(Tail(queue), r)
        /\ run' = [run EXCEPT ![r] = Fresh("taking", {Head(queue).message})]
     \/ /\ queue = <<>>
        /\ Becomes(r, "idle")
        /\ UNCHANGED queue
  /\ UNCHANGED <<claim, readings, asks, handVars>>

\* The message it took from the queue is put behind what is there by now.
CompactPuts(r) ==
  /\ run[r].pc = "taking"
  /\ transcript' = transcript \cup run[r].sees
  /\ Erases
  /\ Becomes(r, "called")
  /\ UNCHANGED <<lockVars, queue, readings, asks, handVars>>

CompactFails(r) ==
  /\ Failures
  /\ run[r].pc = "compacting" /\ ~run[r].stopped
  /\ CompactFrees(r, "error")
  /\ queue' = Forget(queue, r)
  /\ Becomes(r, "idle")
  /\ UNCHANGED <<claim, talk, sent, handled, handVars>>
  /\ Shown

-----------------------------------------------------------------------------
\* The steps of a run once it was called.
RunStep(r) == \/ FollowUp(r) \/ WorkspaceReady(r) \/ WorkspaceFails(r) \/ Lock(r)
              \/ StartLoop(r) \/ SetupFails(r) \/ LoopEnds(r) \/ LoopFails(r)
              \/ Aborts(r) \/ WrapUp(r) \/ HandOff(r) \/ HandOffFails(r)
              \/ CompactGivesUp(r) \/ CompactLocks(r) \/ CompactEnds(r) \/ CompactFails(r)
              \/ CompactPuts(r)

\* A message is put into the transcript and a run dispatched for it.
Calls(r) == \E m \in Messages : Dispatch(r, m) \/ SendDirect(r, m)

Next == \/ \E m \in Messages : SendQueued(m)
        \/ \E r \in Runs : Calls(r) \/ RunStep(r) \/ Compact(r) \/ Update(r)
        \/ StartSend \/ EndSend \/ Stop

\* Awaited promises settle and loops end; nobody has to call anything.
Fairness == \A r \in Runs : WF_vars(RunStep(r))

Spec == Init /\ [][Next]_vars /\ Fairness

-----------------------------------------------------------------------------
(* Properties.                                                               *)

Locks == [status : {"idle", "running", "error"}, active : Runs \cup {None},
          epoch : Runs \cup {None}]
Entries == [message : Messages \cup {None}, owner : Runs \cup {None}]
RunStates == [pc : Places, sees : SUBSET Messages, stopped : BOOLEAN, hands : BOOLEAN]

\* The type of every variable.
TypeOK == /\ conv \in Locks
          /\ rt \in Locks
          /\ claim \in Runs \cup {None}
          /\ loop \in Runs \cup {None}
          /\ queue \in Seq(Entries) /\ Len(queue) <= MaxQueue
          /\ transcript \in SUBSET Messages /\ erased \in SUBSET Messages
          /\ readings \in SUBSET SUBSET Messages
          /\ run \in [Runs -> RunStates]
          /\ sent \in 0 .. MaxMessages
          /\ told \in SUBSET Messages
          /\ handled \in SUBSET Messages
          /\ handOffs \in 0 .. MaxHandOffs
          /\ struck \in BOOLEAN

\* Runs that have the lock and were not stopped.
Working(r) == run[r].pc \in {"setup", "looping", "compacting"} /\ ~run[r].stopped

\* Until a rejected hand-off strikes, at most one run works on the conversation, and
\* the two stores agree that it is that one: the status never stays at running for a
\* run that is gone, a second run never starts beside it, and Stop never ends another
\* one (runClaimSlots, activeRunId, runEpoch, the loop registry).
OneRun ==
  ~struck => /\ conv.status = rt.status /\ conv.active = rt.active
             /\ conv.status = "running" <=> conv.active # None
             /\ \A r \in Runs : Working(r) <=> conv.active = r
             /\ loop # None => conv.active = loop

\* When nothing runs any more and no error is shown, no message waits: the queue is
\* empty and, until a rejected hand-off strikes, all are answered, stopped or were
\* rejected, but for those that a send has erased with an older reading (#166, #170).
Quiet == claim = None /\ conv.status = "idle" /\ \A r \in Runs : run[r].pc = "idle"
NothingUnanswered == Quiet => /\ queue = <<>>
                              /\ ~struck => 1 .. sent \subseteq handled \cup told \cup erased

\* A message that was put into the conversation is never left unanswered for ever,
\* whoever writes at the same time (conversation-agent-run.ts:285-289).  The code does
\* not keep this: a send with an older reading erases what was put in since.
NoMessageLost == Quiet /\ ~struck => 1 .. sent \subseteq handled \cup told

\* While the loop of a stopped run still unwinds it changes neither store, also
\* when it ends after the next run has taken the lock (runEpoch).
StoppedIsMute ==
  [][\A r \in Runs : /\ run[r].stopped /\ run[r].pc \in {"looping", "compacting"}
                     /\ run'[r] # run[r]
                     => UNCHANGED <<conv, rt>>]_vars

\* Again and again all messages written so far are answered, stopped, rejected or
\* erased by an older reading, or an error is on display: no claim and no lock is held
\* for ever, and no message stays in the queue of a conversation that rests.  A rejected
\* hand-off may leave two runs behind, of which Stop ends the lock of the one and the
\* loop of the other.
EveryMessageEnds ==
  []<>(1 .. sent \subseteq handled \cup told \cup erased \/ conv.status = "error" \/ struck)
=============================================================================
