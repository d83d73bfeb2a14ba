------------------------- MODULE ToolAuthorization -------------------------
(***************************************************************************)
(* Who lets a tool call have its effect.  A call of an agent asks the      *)
(* policy (policy-engine.ts, or the page-write and exec tools on their     *)
(* own), which lets it pass, forbids it, finds a grant the user gave for   *)
(* the conversation, or puts a request in the queue of tool-auth.store.ts. *)
(* The modal shows the first request of the queue; the user, or the abort  *)
(* of the call's run, settles it, and the call takes its answer in a later *)
(* microtask.  Commands then stand in line for their root (exec.tool.ts),  *)
(* and sync-to-disk writes what is pending by then.                        *)
(*                                                                         *)
(* JavaScript empties its microtasks before it takes the next event, so    *)
(* what the user does waits until no answer is left to be taken (Quiet);   *)
(* an abort may come at any point, because other calls abort runs too.     *)
(*                                                                         *)
(* Deleting a conversation stops the loops it finds.  Those of sub-agents  *)
(* are in their runtime.  That of the agent is not in the registry of agent*)
(* loops while its run is set up, nor once the late end of a run that was  *)
(* stopped before has cleared the entry (Finalize of ConversationRun): here*)
(* the deletion may find it or not.                                        *)
(***************************************************************************)
EXTENDS Sequences, SequencesExt, SequenceFilter

CONSTANTS Calls,         \* tool calls, each made once
          Runs,          \* runs of agent loops
          Subs,          \* those of sub-agents
          Conversations,
          Paths,         \* files of a conversation that may have a pending change
          RunOf,         \* the run that makes a call
          ConvOf,        \* the conversation of a run (ToolContext.workspaceId)
          KindsOf,       \* the kinds of tools a call may be of
          Overlap,       \* whether drafts change while a flush is under way
          None

ASSUME CallsAssumption == /\ RunOf \in [Calls -> Runs]
                          /\ ConvOf \in [Runs -> Conversations]
                          /\ Subs \subseteq Runs
                          /\ Overlap \in BOOLEAN
                          /\ None \notin Calls

\* exec; page_click and the like; call_tool in act and in plan mode; sync-to-disk.
Kinds == {"exec", "page", "call", "planned", "sync"}
ASSUME KindsAssumption == KindsOf \in [Calls -> SUBSET Kinds]

VARIABLES kind,     \* what tool each call is of
          pc,       \* where its executor is
          local,    \* what its executor holds, blank again when it is over:
                    \*   key, the memory key it asks with, None if it must always ask,
                    \*   listed, the deletions its modal lists, when it is a sync,
                    \*   eligible, the paths its flush hands to syncToDisk,
                    \*   answer, what request() resolved to
          queue,    \* tool-auth.store: the requests, first come first
          shown,    \* tool-auth.store: pending, the request the modal renders
          aborted,  \* runs whose signal is aborted
          deleted,  \* conversations that are gone
          missed,   \* history: runs that were not stopped when their conversation was deleted
          allowed,  \* session-allow.store: the keys remembered for a conversation
          drafts,   \* the kind of change pending at a path
          lane,     \* the commands in line for their root
          said,     \* history: what the user clicked on its request, until it takes the answer
          chosen    \* history: keys for which the user clicked "always" since the last clearing

callVars == <<kind, pc, local>>
storeVars == <<queue, shown, allowed>>
gone == <<deleted, missed>>
vars == <<callVars, storeVars, aborted, gone, drafts, lane, said, chosen>>

Conv(c) == ConvOf[RunOf[c]]
Denied == [approved |-> FALSE, remembered |-> FALSE]
Blank == [key |-> None, listed |-> {}, eligible |-> {}, answer |-> Denied]

\* Microtasks run to the end before the next event.
Quiet == \A c \in Calls : pc[c] # "answered"

Deletions(v) == {p \in Paths : drafts[v][p] = "delete"}
Pending(v) == {p \in Paths : drafts[v][p] # "none"}

\* The memory key of a call, from what is pending now: a flush that deletes files has
\* a key of its own, and what is asked in plan mode is never remembered.
MemoryKey(c) == CASE kind[c] \in {"exec", "planned"} -> None
                  [] kind[c] = "page" -> "page-action-write"
                  [] kind[c] = "call" -> "call_tool"
                  [] kind[c] = "sync" -> IF Deletions(Conv(c)) # {}
                                           THEN "sync-to-disk:delete" ELSE "sync-to-disk"

Keys == {"page-action-write", "call_tool", "sync-to-disk:delete", "sync-to-disk"}

-----------------------------------------------------------------------------
(* The queue of requests.                                                    *)

First(q) == IF q = <<>> THEN None ELSE Head(q)

\* The requests of cs are settled with a: each leaves the queue, the modal goes on to
\* the first that is left, and the promises resolve.  A request is settled once.
Settle(cs, a) ==
  /\ queue' = Filter(queue, Calls \ cs)
  /\ shown' = First(queue')
  /\ LET open == {c \in cs : pc[c] = "asking"}
     IN  /\ local' = [c \in Calls |-> IF c \in open THEN [local[c] EXCEPT !.answer = a]
                                                     ELSE local[c]]
         /\ pc' = [c \in Calls |-> IF c \in open THEN "answered" ELSE pc[c]]

\* History: the user says what to do with the requests of cs that are open.
Says(cs, what) ==
  said' = [c \in Calls |-> IF c \in cs /\ pc[c] = "asking" THEN what ELSE said[c]]

\* A request joins the queue; one whose run is over by now is denied at once.
Request(c) ==
  IF RunOf[c] \in aborted
    THEN /\ pc' = [pc EXCEPT ![c] = "answered"]
         /\ UNCHANGED <<queue, shown>>
    ELSE /\ pc' = [pc EXCEPT ![c] = "asking"]
         /\ queue' = Append(queue, c)
         /\ shown' = First(queue')

\* Faulty: Always allow is offered for what has no key.
ApproveAnyway(remember) ==
  /\ Quiet /\ shown # None
  /\ Settle({shown}, [approved |-> TRUE, remembered |-> remember])
  /\ Says({shown}, IF remember THEN "always" ELSE "once")
  /\ chosen' = [chosen EXCEPT ![Conv(shown)] = IF remember THEN @ \cup {local[shown].key} ELSE @]
  /\ UNCHANGED <<kind, allowed, aborted, gone, drafts, lane>>

\* Faulty: the click goes to the request that came last.
ApproveLast(remember) ==
  /\ Quiet /\ shown # None
  /\ remember => local[shown].key # None
  /\ Settle({Last(queue)}, [approved |-> TRUE, remembered |-> remember])
  /\ Says({shown}, IF remember THEN "always" ELSE "once")
  /\ chosen' = [chosen EXCEPT ![Conv(shown)] = IF remember THEN @ \cup {local[shown].key} ELSE @]
  /\ UNCHANGED <<kind, allowed, aborted, gone, drafts, lane>>

\* The user clicks Allow, or Always allow when the request has a key.
Approve(remember) ==
  /\ Quiet /\ shown # None
  /\ remember => local[shown].key # None
  /\ Settle({shown}, [approved |-> TRUE, remembered |-> remember])
  /\ Says({shown}, IF remember THEN "always" ELSE "once")
  /\ chosen' = [chosen EXCEPT ![Conv(shown)] = IF remember THEN @ \cup {local[shown].key} ELSE @]
  /\ UNCHANGED <<kind, allowed, aborted, gone, drafts, lane>>

\* The user clicks Deny, or Deny all when others wait.
Deny ==
  /\ Quiet /\ shown # None
  /\ \E cs \in {{shown}, Range(queue)} :
       /\ Settle(cs, Denied)
       /\ Says(cs, "no")
  /\ UNCHANGED <<kind, allowed, aborted, gone, drafts, lane, chosen>>

Over(c) == pc[c] \in {"done", "refused"}

\* Faulty: a request does not listen to the signal of its run.
AbortUnheard(r) ==
  /\ r \notin aborted
  /\ \E c \in Calls : RunOf[c] = r /\ ~Over(c)
  /\ aborted' = aborted \cup {r}
  /\ UNCHANGED <<callVars, storeVars, gone, drafts, lane, said, chosen>>

\* A run is stopped, fails or ends: its signal is aborted and its requests are denied.
\* Bound: the abort of a run that has no call left changes nothing here.
Abort(r) ==
  /\ r \notin aborted
  /\ \E c \in Calls : RunOf[c] = r /\ ~Over(c)
  /\ aborted' = aborted \cup {r}
  /\ Settle({c \in Calls : RunOf[c] = r}, Denied)
  /\ UNCHANGED <<kind, allowed, gone, drafts, lane, said, chosen>>

-----------------------------------------------------------------------------
(* Calls.                                                                    *)

\* A loop makes a call unless its run is aborted.  The page tools ask the policy in
\* the same step; the others look up their workspace, root or tool first.
Begin(c) ==
  /\ pc[c] = "new" /\ kind[c] # "page" /\ RunOf[c] \notin aborted
  /\ pc' = [pc EXCEPT ![c] = "begun"]
  /\ UNCHANGED <<kind, local, storeVars, aborted, gone, drafts, lane, said, chosen>>

AtPolicy(c) == IF kind[c] = "page" THEN pc[c] = "new" /\ RunOf[c] \notin aborted
                                   ELSE pc[c] = "begun"

\* Faulty: deletions are let in by what is pending at the flush.
EligibleNow(c, deletions) == {p \in Pending(Conv(c)) : kind[c] = "sync"}

\* partitionPathsByDiskEligibility, for a call of the authorized channel.
Eligible(c, deletions) ==
  {p \in Pending(Conv(c)) : kind[c] = "sync" /\ (deletions \/ p \notin Deletions(Conv(c)))}

Refuse(c) == /\ pc' = [pc EXCEPT ![c] = "refused"]
             /\ local' = [local EXCEPT ![c] = Blank]
             /\ UNCHANGED lane

\* What a call does once it may go ahead: a command stands in line, a flush picks the
\* paths it may write (deletions only when it asked for some), the others act at once.
GoAhead(c, listed) ==
  /\ local' = [local EXCEPT ![c] = [Blank EXCEPT !.listed = listed,
                                                !.eligible = Eligible(c, listed # {})]]
  /\ lane' = IF kind[c] = "exec" THEN Append(lane, c) ELSE lane
  /\ pc' = [pc EXCEPT ![c] = CASE kind[c] = "exec" -> "lined"
                               [] kind[c] = "sync" -> "flushing"
                               [] OTHER -> "acting"]

\* call_tool and sync-to-disk look at the signal again after the policy let them pass.
Rechecks(c) == kind[c] \in {"call", "planned", "sync"}

\* What sync-to-disk lists in its modal, from what is pending before it asks.
ToList(c) == IF kind[c] = "sync" THEN Deletions(Conv(c)) ELSE {}

\* The user gave a grant for it in this conversation.
Granted(c) == MemoryKey(c) \in allowed[Conv(c)]

\* A call need not ask: a grant, or yolo, a trusted source, the host's policy.
Pass(c) ==
  /\ AtPolicy(c)
  /\ kind[c] = "sync" => Pending(Conv(c)) # {}
  /\ IF Rechecks(c) /\ RunOf[c] \in aborted THEN Refuse(c) ELSE GoAhead(c, ToList(c))
  /\ UNCHANGED <<kind, storeVars, aborted, gone, drafts, said, chosen>>

\* It must ask.
Ask(c) ==
  /\ AtPolicy(c) /\ ~Granted(c)
  /\ kind[c] = "sync" => Pending(Conv(c)) # {}
  /\ local' = [local EXCEPT ![c] = [Blank EXCEPT !.key = MemoryKey(c), !.listed = ToList(c)]]
  /\ Request(c)
  /\ UNCHANGED <<kind, allowed, aborted, gone, drafts, lane, said, chosen>>

\* A blacklisted page, a command the host forbids, or nothing to write.
TurnedDown(c) ==
  /\ AtPolicy(c)
  /\ kind[c] \in {"page", "exec"} \/ (kind[c] = "sync" /\ Pending(Conv(c)) = {})
  /\ Refuse(c)
  /\ UNCHANGED <<kind, storeVars, aborted, gone, drafts, said, chosen>>

\* The call takes its answer.  A page action whose run was aborted is not remembered;
\* the policy engine remembers first, and its callers look at the signal afterwards.
TakeAnswer(c) ==
  LET m == local[c]
      stale == RunOf[c] \in aborted
      remember == /\ m.answer.approved /\ m.answer.remembered /\ m.key # None
                  /\ kind[c] = "page" => ~stale
  IN  /\ pc[c] = "answered"
      /\ allowed' = [allowed EXCEPT ![Conv(c)] = IF remember THEN @ \cup {m.key} ELSE @]
      /\ IF m.answer.approved /\ ~stale THEN GoAhead(c, m.listed) ELSE Refuse(c)
      /\ said' = [said EXCEPT ![c] = "nothing"]
      /\ UNCHANGED <<kind, queue, shown, aborted, gone, drafts, chosen>>

\* A command runs when those of its root that came before it have ended.
RunCommand(c) ==
  /\ pc[c] = "lined" /\ Head(lane) = c
  /\ pc' = [pc EXCEPT ![c] = "acting"]
  /\ UNCHANGED <<kind, local, storeVars, aborted, gone, drafts, lane, said, chosen>>

\* Faulty: a command that is over keeps its place in line.
FinishInLine(c) ==
  /\ pc[c] = "acting"
  /\ pc' = [pc EXCEPT ![c] = "done"]
  /\ UNCHANGED <<kind, local, storeVars, aborted, gone, drafts, lane, said, chosen>>

\* A call is over, its effect done or failed; the next command in line may run.
Finish(c) ==
  /\ pc[c] = "acting"
  /\ pc' = [pc EXCEPT ![c] = "done"]
  /\ lane' = IF kind[c] = "exec" THEN Tail(lane) ELSE lane
  /\ UNCHANGED <<kind, local, storeVars, aborted, gone, drafts, said, chosen>>

\* syncToDisk writes what is pending now at the paths picked before the snapshot was
\* taken; what conflicts or fails stays pending.
Flush(c) ==
  /\ pc[c] = "flushing"
  /\ pc' = [pc EXCEPT ![c] = "done"]
  /\ local' = [local EXCEPT ![c] = Blank]
  /\ \E written \in SUBSET local[c].eligible :
       drafts' = [drafts EXCEPT ![Conv(c)] =
                    [p \in Paths |-> IF p \in written THEN "none" ELSE @[p]]]
  /\ UNCHANGED <<kind, storeVars, aborted, gone, lane, said, chosen>>

-----------------------------------------------------------------------------
(* What else goes on in a conversation.                                      *)

\* Bound: drafts matter to the calls that sync them.
Watched(v) == \E c \in Calls : /\ kind[c] = "sync" /\ Conv(c) = v /\ ~Over(c)

\* Another tool call of the conversation writes or deletes a file.
Draft(v, p) ==
  /\ Watched(v)
  /\ Overlap \/ \A c \in Calls : pc[c] = "flushing" => Conv(c) # v
  /\ \E change \in {"modify", "delete"} \ {drafts[v][p]} :
       drafts' = [drafts EXCEPT ![v][p] = change]
  /\ UNCHANGED <<callVars, storeVars, aborted, gone, lane, said, chosen>>

\* What deleting a conversation may stop: of its runs all sub-agents that work, and its
\* agent if the registry has the loop.
Stoppable(v) ==
  {rs \in SUBSET {r \in Runs : ConvOf[r] = v} :
     \A c \in Calls : RunOf[c] \in Subs /\ Conv(c) = v /\ pc[c] # "new" => RunOf[c] \in rs}

\* The conversation is gone, and its grants; a run that was not stopped goes on.
Gone(v, stopped) ==
  /\ deleted' = deleted \cup {v}
  /\ missed' = missed \cup ({r \in Runs : ConvOf[r] = v} \ (aborted \cup stopped))
  /\ allowed' = [allowed EXCEPT ![v] = {}]
  /\ chosen' = [chosen EXCEPT ![v] = {}]

\* Faulty: the grants go, the runs and their requests stay.
DeleteUnstopped(v) ==
  /\ Quiet /\ v \notin deleted
  /\ \E stopped \in Stoppable(v) : Gone(v, stopped)
  /\ UNCHANGED <<callVars, queue, shown, aborted, drafts, lane, said>>

\* deleteConversation stops the runs it finds and drops the grants.
DeleteConversation(v) ==
  /\ Quiet /\ v \notin deleted
  /\ \E stopped \in Stoppable(v) :
       /\ aborted' = aborted \cup stopped
       /\ Settle({c \in Calls : RunOf[c] \in stopped}, Denied)
       /\ Gone(v, stopped)
  /\ UNCHANGED <<kind, drafts, lane, said>>

\* The settings panel drops every grant.
ClearGrants ==
  /\ Quiet /\ \E v \in Conversations : allowed[v] # {}
  /\ allowed' = [v \in Conversations |-> {}]
  /\ chosen' = [v \in Conversations |-> {}]
  /\ UNCHANGED <<callVars, queue, shown, aborted, gone, drafts, lane, said>>

-----------------------------------------------------------------------------
Init ==
  /\ kind \in {k \in [Calls -> Kinds] : \A c \in Calls : k[c] \in KindsOf[c]}
  /\ pc = [c \in Calls |-> "new"]
  /\ local = [c \in Calls |-> Blank]
  /\ queue = <<>> /\ shown = None /\ lane = <<>>
  /\ aborted = {} /\ deleted = {} /\ missed = {}
  /\ allowed = [v \in Conversations |-> {}]
  /\ chosen = [v \in Conversations |-> {}]
  /\ drafts = [v \in Conversations |-> [p \in Paths |-> "none"]]
  /\ said = [c \in Calls |-> "nothing"]

User == Deny \/ \E remember \in BOOLEAN : Approve(remember)

Policy(c) == Begin(c) \/ Pass(c) \/ Ask(c) \/ TurnedDown(c)

\* The steps a call takes once it may proceed.
Proceed(c) == TakeAnswer(c) \/ RunCommand(c) \/ Finish(c) \/ Flush(c)

Next == \/ User
        \/ \E c \in Calls : Policy(c) \/ Proceed(c)
        \/ \E r \in Runs : Abort(r)
        \/ \E v \in Conversations : DeleteConversation(v) \/ \E p \in Paths : Draft(v, p)
        \/ ClearGrants

Safe == Init /\ [][Next]_vars

\* Promises settle and commands end (they have a timeout), and the user, whom the
\* modal lets do nothing else, answers it.
Spec == /\ Safe
        /\ WF_vars(User)
        /\ \A c \in Calls : WF_vars(Proceed(c))

-----------------------------------------------------------------------------
(* Properties.                                                               *)

Answers == [approved : BOOLEAN, remembered : BOOLEAN]
Locals == [key : Keys \cup {None}, listed : SUBSET Paths, eligible : SUBSET Paths,
           answer : Answers]
Places == {"new", "begun", "asking", "answered", "lined", "flushing", "acting",
           "done", "refused"}

\* Every variable holds what the code can put there.
TypeOK ==
  /\ kind \in [Calls -> Kinds] /\ pc \in [Calls -> Places]
  /\ local \in [Calls -> Locals]
  /\ queue \in Seq(Calls) /\ lane \in Seq(Calls) /\ shown \in Calls \cup {None}
  /\ aborted \subseteq Runs /\ deleted \subseteq Conversations /\ missed \subseteq Runs
  /\ allowed \in [Conversations -> SUBSET Keys] /\ chosen \in [Conversations -> SUBSET Keys]
  /\ drafts \in [Conversations -> [Paths -> {"none", "modify", "delete"}]]
  /\ said \in [Calls -> {"nothing", "once", "always", "no"}]

\* The queue holds the requests nobody settled, once each, the modal shows the first of
\* them, and none belongs to a run that is over (tool-auth.store.ts: no stale popups).
RequestsStand ==
  /\ \A c \in Calls : pc[c] = "asking" <=> \E i \in DOMAIN queue : queue[i] = c
  /\ \A i, j \in DOMAIN queue : queue[i] = queue[j] => i = j
  /\ shown = First(queue)
  /\ \A i \in DOMAIN queue : RunOf[queue[i]] \notin aborted

\* A request is answered only by what the user clicked on it: the modal may move on to
\* another request at any abort, and an answer never goes to the wrong call.
AnsweredAsSaid == \A c \in Calls : local[c].answer.approved =>
                    said[c] = IF local[c].answer.remembered THEN "always" ELSE "once"

\* A conversation remembers only keys for which the user clicked "always" in that very
\* conversation since its grants were last dropped, and after its deletion it does so
\* only for a run that the deletion did not stop.
GrantsAreChosen ==
  \A v \in Conversations :
    /\ allowed[v] \subseteq chosen[v]
    /\ v \in deleted /\ allowed[v] # {} => \E r \in missed : ConvOf[r] = v

\* Once a conversation is deleted any grant remembered for it is gone for good
\* (conversation.store.sqlite.ts:2718-2722).  The code does not keep this: a run that
\* the deletion missed goes on asking.
DeletedHasNoGrant == \A v \in deleted : allowed[v] = {}

\* A flush that was allowed under the key for plain writes removes no file from disk,
\* whatever was deleted while the modal was open (sync-to-disk.tool.ts).
WritesRemoveNothing ==
  [][\A c \in Calls : Flush(c) /\ local[c].listed = {} =>
       \A p \in Paths : drafts[Conv(c)][p] = "delete" => drafts'[Conv(c)][p] = "delete"]_vars

\* Every call that asks gets its answer, and then returns.
CallsReturn == \A c \in Calls : pc[c] = "asking" ~> Over(c)
=============================================================================
