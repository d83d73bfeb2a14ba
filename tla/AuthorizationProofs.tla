------------------------ MODULE AuthorizationProofs ------------------------
(***************************************************************************)
(* Proofs about ToolAuthorization, for any calls, runs, conversations and  *)
(* paths.  They follow an answer from the click to the grant, for which    *)
(* the order of the queue is not needed, and then the queue and the lane.  *)
(***************************************************************************)
EXTENDS ToolAuthorization, SequenceFilterProofs

CallTypes == /\ kind \in [Calls -> Kinds]
             /\ pc \in [Calls -> Places]
             /\ local \in [Calls -> Locals]
             /\ said \in [Calls -> {"nothing", "once", "always", "no"}]

DataTypes == /\ aborted \subseteq Runs /\ deleted \subseteq Conversations
             /\ missed \subseteq Runs
             /\ drafts \in [Conversations -> [Paths -> {"none", "modify", "delete"}]]
             /\ DOMAIN allowed = Conversations /\ DOMAIN chosen = Conversations

\* An open request is of a run that goes on.
OpenIsLive == \A c \in Calls : pc[c] = "asking" => RunOf[c] \notin aborted

\* A run of a deleted conversation is stopped, or the deletion missed it.
DeletedIsStopped == \A r \in Runs : ConvOf[r] \in deleted => r \in aborted \cup missed

\* An approval not taken yet is what the user said, for a conversation that is there or
\* a run its deletion missed, and, when it is to be remembered, for a key chosen there.
ApprovalOf(c) ==
  /\ pc[c] = "answered"
  /\ said[c] = IF local[c].answer.remembered THEN "always" ELSE "once"
  /\ Conv(c) \in deleted => RunOf[c] \in missed
  /\ local[c].answer.remembered => local[c].key \in chosen[Conv(c)]
Approvals == \A c \in Calls : local[c].answer.approved => ApprovalOf(c)

AnswerInv == /\ CallTypes /\ DataTypes
             /\ OpenIsLive /\ DeletedIsStopped /\ Approvals /\ GrantsAreChosen

-----------------------------------------------------------------------------
\* A blank record is one an executor may hold, and it approves nothing.
LEMMA BlankIsLocal == /\ Blank \in Locals
                      /\ ~Blank.answer.approved
  BY DEF Blank, Locals, Answers, Denied

\* A call belongs to a conversation.
LEMMA ConvType == \A c \in Calls : RunOf[c] \in Runs /\ Conv(c) \in Conversations
  BY CallsAssumption DEF Conv

\* What a call asks with is a key or none.
LEMMA KeyType ==
  ASSUME NEW c \in Calls, kind \in [Calls -> Kinds]
  PROVE  MemoryKey(c) \in Keys \cup {None}
  BY DEF MemoryKey, Keys, Kinds

\* Settling requests changes only the calls that were asking, which take the answer.
LEMMA SettleCalls ==
  ASSUME CallTypes, NEW cs, NEW answer \in Answers, Settle(cs, answer)
  PROVE  /\ pc' \in [Calls -> Places] /\ local' \in [Calls -> Locals]
         /\ \A c \in Calls :
              IF c \in cs /\ pc[c] = "asking"
                THEN pc'[c] = "answered" /\ local'[c] = [local[c] EXCEPT !.answer = answer]
                ELSE pc'[c] = pc[c] /\ local'[c] = local[c]
<1>1. \A c \in Calls : [local[c] EXCEPT !.answer = answer] \in Locals
  BY DEF CallTypes, Locals
<1>2. /\ local' = [c \in Calls |-> IF c \in cs /\ pc[c] = "asking"
                                    THEN [local[c] EXCEPT !.answer = answer] ELSE local[c]]
      /\ pc' = [c \in Calls |-> IF c \in cs /\ pc[c] = "asking" THEN "answered" ELSE pc[c]]
  BY DEF Settle
<1> QED
  BY <1>1, <1>2 DEF CallTypes, Places

\* While nothing is left to be taken, there is no approval.
LEMMA QuietApprovesNothing ==
  ASSUME Approvals, Quiet
  PROVE  \A c \in Calls : ~local[c].answer.approved
  BY DEF Approvals, ApprovalOf, Quiet

\* Denying requests approves nothing that was not approved before.
LEMMA DenialKeeps ==
  ASSUME CallTypes, Approvals, NEW cs, Settle(cs, Denied)
  PROVE  \A c \in Calls : local'[c].answer.approved =>
           local'[c] = local[c] /\ pc'[c] = pc[c]
<1>1. Denied \in Answers /\ ~Denied.approved
  BY DEF Denied, Answers
<1> SUFFICES ASSUME NEW c \in Calls, local'[c].answer.approved
             PROVE  local'[c] = local[c] /\ pc'[c] = pc[c]
  OBVIOUS
<1>2. CASE c \in cs /\ pc[c] = "asking"
  BY <1>1, <1>2, SettleCalls DEF CallTypes, Locals
<1>3. CASE ~(c \in cs /\ pc[c] = "asking")
  BY <1>1, <1>3, SettleCalls
<1> QED
  BY <1>2, <1>3

-----------------------------------------------------------------------------
\* Before anything happens, nobody asks and nothing is remembered.
LEMMA AnswerInit == Init => AnswerInv
<1> SUFFICES ASSUME Init PROVE AnswerInv
  OBVIOUS
<1>1. CallTypes
  BY BlankIsLocal DEF Init, CallTypes, Places
<1>2. DataTypes
  BY DEF Init, DataTypes
<1>3. OpenIsLive /\ DeletedIsStopped /\ GrantsAreChosen
  BY DEF Init, OpenIsLive, DeletedIsStopped, GrantsAreChosen
<1>4. Approvals
  BY BlankIsLocal DEF Init, Approvals
<1> QED
  BY <1>1, <1>2, <1>3, <1>4 DEF AnswerInv

\* A click of the user.
LEMMA ApproveKeeps ==
  ASSUME AnswerInv, NEW remember \in BOOLEAN, Approve(remember)
  PROVE  AnswerInv'
<1> DEFINE answer == [approved |-> TRUE, remembered |-> remember]
           what == IF remember THEN "always" ELSE "once"
<1>1. answer \in Answers /\ Settle({shown}, answer)
  BY DEF Approve, Answers
<1>2. /\ pc' \in [Calls -> Places] /\ local' \in [Calls -> Locals]
      /\ \A c \in Calls :
           IF c \in {shown} /\ pc[c] = "asking"
             THEN pc'[c] = "answered" /\ local'[c] = [local[c] EXCEPT !.answer = answer]
             ELSE pc'[c] = pc[c] /\ local'[c] = local[c]
  <2> HIDE DEF answer
  <2> QED
    BY <1>1, SettleCalls DEF AnswerInv
<1>3. /\ UNCHANGED <<kind, allowed, aborted, deleted, missed, drafts>>
      /\ said' = [c \in Calls |-> IF c \in {shown} /\ pc[c] = "asking" THEN what ELSE said[c]]
      /\ chosen' = [chosen EXCEPT ![Conv(shown)] = IF remember THEN @ \cup {local[shown].key} ELSE @]
  BY DEF Approve, Says, gone
<1>4. DOMAIN chosen' = Conversations /\ \A v \in Conversations : chosen[v] \subseteq chosen'[v]
  BY <1>3 DEF AnswerInv, DataTypes
<1>5. CallTypes' /\ DataTypes'
  BY <1>2, <1>3, <1>4 DEF AnswerInv, CallTypes, DataTypes
<1>6. OpenIsLive' /\ DeletedIsStopped'
  BY <1>2, <1>3 DEF AnswerInv, OpenIsLive, DeletedIsStopped
<1>7. GrantsAreChosen'
  BY <1>3, <1>4 DEF AnswerInv, GrantsAreChosen
<1>8. Approvals'
  <2> SUFFICES ASSUME NEW c \in Calls, local'[c].answer.approved
               PROVE  ApprovalOf(c)'
    BY DEF Approvals
  <2>1. c = shown /\ pc[c] = "asking"
    BY <1>2, QuietApprovesNothing DEF AnswerInv, Approve
  <2>2. /\ pc'[c] = "answered"
        /\ local'[c].answer.remembered = remember
        /\ local'[c].key = local[c].key
    BY <1>2, <2>1 DEF AnswerInv, CallTypes, Locals
  <2>3. said'[c] = what
    BY <1>3, <2>1
  <2>4. Conv(c) \in Conversations /\ (Conv(c) \in deleted => RunOf[c] \in missed)
    BY <2>1, ConvType DEF AnswerInv, OpenIsLive, DeletedIsStopped, Conv
  <2>5. remember => local[c].key \in chosen'[Conv(c)]
    BY <1>3, <2>1, <2>4 DEF AnswerInv, DataTypes
  <2> QED
    BY <1>3, <2>2, <2>3, <2>4, <2>5 DEF ApprovalOf, Conv
<1> QED
  BY <1>5, <1>6, <1>7, <1>8 DEF AnswerInv

\* Denials, by the user or because runs are stopped or a conversation is deleted.
LEMMA DeniedTypes ==
  ASSUME CallTypes, NEW cs, Settle(cs, Denied)
  PROVE  /\ pc' \in [Calls -> Places] /\ local' \in [Calls -> Locals]
         /\ \A c \in Calls : pc'[c] = "asking" => c \notin cs /\ pc[c] = "asking"
<1>1. Denied \in Answers
  BY DEF Denied, Answers
<1> QED
  BY <1>1, SettleCalls

\* The user denies one request or all.
LEMMA DenyKeeps ==
  ASSUME AnswerInv, Deny
  PROVE  AnswerInv'
<1>1. PICK cs \in {{shown}, Range(queue)} : Settle(cs, Denied) /\ Says(cs, "no")
  BY DEF Deny, gone
<1>2. UNCHANGED <<kind, allowed, aborted, deleted, missed, drafts, chosen>> /\ Quiet
  BY DEF Deny, gone
<1>3. CallTypes' /\ DataTypes'
  BY <1>1, <1>2, DeniedTypes DEF AnswerInv, CallTypes, DataTypes, Says
<1>4. OpenIsLive' /\ DeletedIsStopped'
  BY <1>1, <1>2, DeniedTypes DEF AnswerInv, OpenIsLive, DeletedIsStopped
<1>5. GrantsAreChosen'
  BY <1>2 DEF AnswerInv, GrantsAreChosen
<1>6. Approvals'
  BY <1>1, <1>2, DenialKeeps, QuietApprovesNothing DEF AnswerInv, Approvals
<1> QED
  BY <1>3, <1>4, <1>5, <1>6 DEF AnswerInv

\* A run is stopped or ends.
LEMMA AbortKeeps ==
  ASSUME AnswerInv, NEW r \in Runs, Abort(r)
  PROVE  AnswerInv'
<1> DEFINE cs == {c \in Calls : RunOf[c] = r}
<1>1. Settle(cs, Denied) /\ aborted' = aborted \cup {r}
  BY DEF Abort, gone
<1>2. UNCHANGED <<kind, allowed, deleted, missed, drafts, said, chosen>>
  BY DEF Abort, gone
<1>3. CallTypes' /\ DataTypes'
  BY <1>1, <1>2, DeniedTypes DEF AnswerInv, CallTypes, DataTypes
<1>4. OpenIsLive' /\ DeletedIsStopped'
  BY <1>1, <1>2, DeniedTypes DEF AnswerInv, OpenIsLive, DeletedIsStopped
<1>5. GrantsAreChosen'
  BY <1>2 DEF AnswerInv, GrantsAreChosen
<1>6. Approvals'
  <2> HIDE DEF cs
  <2> QED
    BY <1>1, <1>2, DenialKeeps DEF AnswerInv, Approvals, ApprovalOf, Conv
<1> QED
  BY <1>3, <1>4, <1>5, <1>6 DEF AnswerInv

\* A conversation is deleted, and the runs the deletion finds are stopped.
LEMMA DeleteKeeps ==
  ASSUME AnswerInv, NEW v \in Conversations, DeleteConversation(v)
  PROVE  AnswerInv'
<1>1. PICK stopped \in Stoppable(v) :
        /\ aborted' = aborted \cup stopped
        /\ Settle({c \in Calls : RunOf[c] \in stopped}, Denied)
        /\ Gone(v, stopped)
  BY DEF DeleteConversation
<1> DEFINE cs == {c \in Calls : RunOf[c] \in stopped}
<1>2. /\ stopped \subseteq Runs
      /\ deleted' = deleted \cup {v}
      /\ missed' = missed \cup ({r \in Runs : ConvOf[r] = v} \ (aborted \cup stopped))
      /\ allowed' = [allowed EXCEPT ![v] = {}]
      /\ chosen' = [chosen EXCEPT ![v] = {}]
  BY <1>1 DEF Stoppable, Gone
<1>3. UNCHANGED <<kind, drafts, said>> /\ Quiet
  BY DEF DeleteConversation
<1>4. CallTypes' /\ DataTypes'
  BY <1>1, <1>2, <1>3, DeniedTypes DEF AnswerInv, CallTypes, DataTypes
<1>5. OpenIsLive' /\ DeletedIsStopped'
  BY <1>1, <1>2, DeniedTypes DEF AnswerInv, OpenIsLive, DeletedIsStopped
<1>6. GrantsAreChosen'
  BY <1>2 DEF AnswerInv, GrantsAreChosen, DataTypes
<1>7. Approvals'
  <2> HIDE DEF cs
  <2> QED
    BY <1>1, <1>3, DenialKeeps, QuietApprovesNothing DEF AnswerInv, Approvals, cs
<1> QED
  BY <1>4, <1>5, <1>6, <1>7 DEF AnswerInv

\* The settings panel drops the grants.
LEMMA ClearKeeps ==
  ASSUME AnswerInv, ClearGrants
  PROVE  AnswerInv'
<1>1. UNCHANGED <<callVars, aborted, deleted, missed, drafts, said>> /\ Quiet
  BY DEF ClearGrants, gone
<1>2. /\ allowed' = [v \in Conversations |-> {}]
      /\ chosen' = [v \in Conversations |-> {}]
  BY DEF ClearGrants, gone
<1>3. CallTypes' /\ DataTypes' /\ OpenIsLive' /\ DeletedIsStopped'
  BY <1>1, <1>2 DEF AnswerInv, CallTypes, DataTypes, OpenIsLive, DeletedIsStopped, callVars
<1>4. GrantsAreChosen'
  BY <1>2 DEF GrantsAreChosen
<1>5. Approvals'
  BY <1>1, QuietApprovesNothing DEF AnswerInv, Approvals, callVars
<1> QED
  BY <1>3, <1>4, <1>5 DEF AnswerInv

-----------------------------------------------------------------------------
\* A step of one call that leaves the grants and the other calls alone, approves
\* nothing and asks for no run that is over.
LEMMA CallMoves ==
  ASSUME AnswerInv, NEW c \in Calls, NEW place \in Places, NEW held \in Locals,
         pc' = [pc EXCEPT ![c] = place], local' = [local EXCEPT ![c] = held],
         ~held.answer.approved,
         place = "asking" => RunOf[c] \notin aborted,
         UNCHANGED <<kind, aborted, deleted, missed, drafts, chosen>>,
         \A d \in Calls \ {c} : said'[d] = said[d],
         said' \in [Calls -> {"nothing", "once", "always", "no"}]
  PROVE  CallTypes' /\ OpenIsLive' /\ DeletedIsStopped' /\ Approvals'
<1>1. CallTypes'
  BY DEF AnswerInv, CallTypes
<1>2. OpenIsLive' /\ DeletedIsStopped'
  BY DEF AnswerInv, CallTypes, OpenIsLive, DeletedIsStopped
<1>3. Approvals'
  BY DEF AnswerInv, CallTypes, Approvals, ApprovalOf, Conv
<1> QED
  BY <1>1, <1>2, <1>3

\* What a call holds when it goes ahead or is refused is of the right type, and
\* no answer any more.
LEMMA AheadTypes ==
  ASSUME CallTypes, DataTypes, NEW c \in Calls, NEW listed \in SUBSET Paths,
         GoAhead(c, listed) \/ Refuse(c)
  PROVE  \E place \in Places \ {"asking"}, held \in Locals :
           /\ pc' = [pc EXCEPT ![c] = place]
           /\ local' = [local EXCEPT ![c] = held]
           /\ ~held.answer.approved
<1>1. CASE Refuse(c)
  BY <1>1, BlankIsLocal DEF Refuse, Places
<1>2. CASE GoAhead(c, listed)
  <2> DEFINE place == CASE kind[c] = "exec" -> "lined"
                        [] kind[c] = "sync" -> "flushing"
                        [] OTHER -> "acting"
             held == [Blank EXCEPT !.listed = listed, !.eligible = Eligible(c, listed # {})]
  <2>1. place \in Places \ {"asking"}
    BY DEF Places
  <2>2. Eligible(c, listed # {}) \subseteq Paths
    BY DEF Eligible, Pending
  <2>3. held \in Locals /\ ~held.answer.approved
    BY <2>2, BlankIsLocal DEF Locals
  <2>4. pc' = [pc EXCEPT ![c] = place] /\ local' = [local EXCEPT ![c] = held]
    BY <1>2 DEF GoAhead
  <2> QED
    BY <2>1, <2>3, <2>4
<1> QED
  BY <1>1, <1>2

\* The deletions a modal lists are paths.
LEMMA ListType == \A c \in Calls : ToList(c) \subseteq Paths
  BY DEF ToList, Deletions

\* A call asks the policy and is let pass, refused or told to wait.
LEMMA PolicyKeeps ==
  ASSUME AnswerInv, NEW c \in Calls, Policy(c)
  PROVE  AnswerInv'
<1>1. CASE Begin(c)
  <2>1. /\ pc' = [pc EXCEPT ![c] = "begun"]
        /\ UNCHANGED <<kind, local, allowed, aborted, deleted, missed, drafts, said, chosen>>
    BY <1>1 DEF Begin, storeVars, gone
  <2>2. CallTypes' /\ DataTypes' /\ OpenIsLive' /\ DeletedIsStopped' /\ GrantsAreChosen'
    BY <2>1 DEF AnswerInv, CallTypes, DataTypes, OpenIsLive, DeletedIsStopped,
                GrantsAreChosen, Places
  <2>3. Approvals'
    BY <1>1, <2>1 DEF Begin, AnswerInv, CallTypes, Approvals, ApprovalOf, Conv
  <2> QED
    BY <2>2, <2>3 DEF AnswerInv
<1>2. CASE Pass(c) \/ TurnedDown(c)
  <2>1. /\ GoAhead(c, ToList(c)) \/ Refuse(c)
        /\ UNCHANGED <<kind, allowed, aborted, deleted, missed, drafts, said, chosen>>
    BY <1>2 DEF Pass, TurnedDown, storeVars, gone
  <2>2. PICK place \in Places \ {"asking"}, held \in Locals :
          /\ pc' = [pc EXCEPT ![c] = place]
          /\ local' = [local EXCEPT ![c] = held]
          /\ ~held.answer.approved
    BY <2>1, ListType, AheadTypes DEF AnswerInv
  <2>3. CallTypes' /\ OpenIsLive' /\ DeletedIsStopped' /\ Approvals'
    BY <2>1, <2>2, CallMoves DEF AnswerInv, CallTypes
  <2>4. DataTypes' /\ GrantsAreChosen'
    BY <2>1 DEF AnswerInv, DataTypes, GrantsAreChosen
  <2> QED
    BY <2>3, <2>4 DEF AnswerInv
<1>3. CASE Ask(c)
  <2> DEFINE held == [Blank EXCEPT !.key = MemoryKey(c), !.listed = ToList(c)]
             place == IF RunOf[c] \in aborted THEN "answered" ELSE "asking"
  <2>1. held \in Locals /\ ~held.answer.approved
    BY BlankIsLocal, KeyType, ListType DEF AnswerInv, CallTypes, Locals
  <2>2. /\ local' = [local EXCEPT ![c] = held] /\ pc' = [pc EXCEPT ![c] = place]
        /\ UNCHANGED <<kind, allowed, aborted, deleted, missed, drafts, said, chosen>>
    BY <1>3 DEF Ask, Request, gone
  <2>3. place \in Places /\ (place = "asking" => RunOf[c] \notin aborted)
    BY DEF Places
  <2>4. CallTypes' /\ OpenIsLive' /\ DeletedIsStopped' /\ Approvals'
    <3> HIDE DEF held, place
    <3> QED
      BY <2>1, <2>2, <2>3, CallMoves DEF AnswerInv, CallTypes
  <2>5. DataTypes' /\ GrantsAreChosen'
    BY <2>2 DEF AnswerInv, DataTypes, GrantsAreChosen
  <2> QED
    BY <2>4, <2>5 DEF AnswerInv
<1> QED
  BY <1>1, <1>2, <1>3 DEF Policy

\* A call takes its answer, its turn, or ends.
LEMMA ProceedKeeps ==
  ASSUME AnswerInv, NEW c \in Calls, Proceed(c)
  PROVE  AnswerInv'
<1>1. CASE TakeAnswer(c)
  <2>1. /\ GoAhead(c, local[c].listed) \/ Refuse(c)
        /\ said' = [said EXCEPT ![c] = "nothing"]
        /\ UNCHANGED <<kind, aborted, deleted, missed, drafts, chosen>>
        /\ local[c].listed \in SUBSET Paths
    BY <1>1 DEF TakeAnswer, gone, AnswerInv, CallTypes, Locals
  <2>2. PICK place \in Places \ {"asking"}, held \in Locals :
          /\ pc' = [pc EXCEPT ![c] = place]
          /\ local' = [local EXCEPT ![c] = held]
          /\ ~held.answer.approved
    BY <2>1, AheadTypes DEF AnswerInv
  <2>3. /\ said' \in [Calls -> {"nothing", "once", "always", "no"}]
        /\ \A d \in Calls \ {c} : said'[d] = said[d]
    BY <2>1 DEF AnswerInv, CallTypes
  <2>4. CallTypes' /\ OpenIsLive' /\ DeletedIsStopped' /\ Approvals'
    BY <2>1, <2>2, <2>3, CallMoves
  <2>5. CASE /\ DOMAIN allowed' = Conversations
             /\ \A v \in Conversations : allowed'[v] = allowed[v]
    BY <2>1, <2>4, <2>5 DEF AnswerInv, DataTypes, GrantsAreChosen
  <2>6. CASE /\ local[c].answer.approved /\ local[c].answer.remembered
             /\ allowed' = [allowed EXCEPT ![Conv(c)] = @ \cup {local[c].key}]
    <3>1. /\ local[c].key \in chosen[Conv(c)]
          /\ Conv(c) \in deleted => RunOf[c] \in missed
      BY <2>6 DEF AnswerInv, Approvals, ApprovalOf
    <3>2. DataTypes' /\ GrantsAreChosen'
      BY <2>1, <2>6, <3>1, ConvType DEF AnswerInv, DataTypes, GrantsAreChosen, Conv
    <3> QED
      BY <2>4, <3>2 DEF AnswerInv
  <2> DEFINE remember == /\ local[c].answer.approved /\ local[c].answer.remembered
                         /\ local[c].key # None
                         /\ kind[c] = "page" => ~(RunOf[c] \in aborted)
  <2>7. allowed' = [allowed EXCEPT ![Conv(c)] = IF remember THEN @ \cup {local[c].key} ELSE @]
    BY <1>1 DEF TakeAnswer
  <2>8. CASE remember
    BY <2>6, <2>7, <2>8
  <2>9. CASE ~remember
    <3> HIDE DEF remember
    <3>1. /\ DOMAIN allowed' = Conversations
          /\ \A v \in Conversations : allowed'[v] = allowed[v]
      BY <2>7, <2>9 DEF AnswerInv, DataTypes
    <3> QED
      BY <2>5, <3>1
  <2> QED
    BY <2>8, <2>9
<1>2. CASE RunCommand(c) \/ Finish(c)
  <2>1. /\ \E place \in {"acting", "done"} : pc' = [pc EXCEPT ![c] = place]
        /\ pc[c] \in {"lined", "acting"}
        /\ UNCHANGED <<kind, local, allowed, aborted, deleted, missed, drafts, said, chosen>>
    BY <1>2 DEF RunCommand, Finish, storeVars, gone
  <2>2. CallTypes' /\ DataTypes' /\ OpenIsLive' /\ DeletedIsStopped' /\ GrantsAreChosen'
    BY <2>1 DEF AnswerInv, CallTypes, DataTypes, OpenIsLive, DeletedIsStopped,
                GrantsAreChosen, Places
  <2>3. Approvals'
    BY <2>1 DEF AnswerInv, CallTypes, Approvals, ApprovalOf, Conv
  <2> QED
    BY <2>2, <2>3 DEF AnswerInv
<1>3. CASE Flush(c)
  <2>1. PICK written \in SUBSET local[c].eligible :
          drafts' = [drafts EXCEPT ![Conv(c)] =
                       [p \in Paths |-> IF p \in written THEN "none" ELSE @[p]]]
    BY <1>3 DEF Flush
  <2>2. /\ pc' = [pc EXCEPT ![c] = "done"] /\ local' = [local EXCEPT ![c] = Blank]
        /\ UNCHANGED <<kind, allowed, aborted, deleted, missed, said, chosen>>
    BY <1>3 DEF Flush, storeVars, gone
  <2>3. DataTypes' /\ GrantsAreChosen' /\ OpenIsLive' /\ DeletedIsStopped'
    BY <2>1, <2>2, ConvType DEF AnswerInv, DataTypes, GrantsAreChosen, CallTypes,
                                OpenIsLive, DeletedIsStopped
  <2>4. CallTypes' /\ Approvals'
    BY <2>2, BlankIsLocal DEF AnswerInv, CallTypes, Approvals, ApprovalOf, Conv, Places
  <2> QED
    BY <2>3, <2>4 DEF AnswerInv
<1> QED
  BY <1>1, <1>2, <1>3 DEF Proceed

\* Other calls write and delete files of the conversation.
LEMMA DraftKeeps ==
  ASSUME AnswerInv, NEW v \in Conversations, NEW p \in Paths, Draft(v, p)
  PROVE  AnswerInv'
<1>1. /\ \E change \in {"modify", "delete"} : drafts' = [drafts EXCEPT ![v][p] = change]
      /\ UNCHANGED <<kind, pc, local, allowed, aborted, deleted, missed, said, chosen>>
  BY DEF Draft, callVars, storeVars, gone
<1>2. DataTypes'
  BY <1>1 DEF AnswerInv, DataTypes
<1>3. CallTypes' /\ OpenIsLive' /\ DeletedIsStopped' /\ GrantsAreChosen' /\ Approvals'
  BY <1>1 DEF AnswerInv, CallTypes, OpenIsLive, DeletedIsStopped, GrantsAreChosen,
              Approvals, ApprovalOf, Conv
<1> QED
  BY <1>2, <1>3 DEF AnswerInv

\* Every step keeps the invariant.
LEMMA AnswerStep == AnswerInv /\ [Next]_vars => AnswerInv'
<1> SUFFICES ASSUME AnswerInv, [Next]_vars PROVE AnswerInv'
  OBVIOUS
<1>1. CASE User
  BY <1>1, ApproveKeeps, DenyKeeps DEF User
<1>2. CASE \E c \in Calls : Policy(c) \/ Proceed(c)
  BY <1>2, PolicyKeeps, ProceedKeeps
<1>3. CASE \E r \in Runs : Abort(r)
  BY <1>3, AbortKeeps
<1>4. CASE \E v \in Conversations : DeleteConversation(v) \/ \E p \in Paths : Draft(v, p)
  BY <1>4, DeleteKeeps, DraftKeeps
<1>5. CASE ClearGrants
  BY <1>5, ClearKeeps
<1>6. CASE UNCHANGED vars
  BY <1>6 DEF vars, callVars, storeVars, gone, AnswerInv, CallTypes, DataTypes, OpenIsLive,
              DeletedIsStopped, GrantsAreChosen, Approvals, ApprovalOf, Conv
<1> QED
  BY <1>1, <1>2, <1>3, <1>4, <1>5, <1>6 DEF Next

\* The invariant holds in every state the program reaches.
LEMMA AnswersInvariant == Safe => []AnswerInv
  BY AnswerInit, AnswerStep, PTL DEF Safe

\* Whatever aborts, deletions and other requests come in between, a call is approved
\* only if the user approved that very call.
THEOREM AnswersTheorem == Safe => []AnsweredAsSaid
<1>1. AnswerInv => AnsweredAsSaid
  BY DEF AnswerInv, Approvals, ApprovalOf, AnsweredAsSaid
<1> QED
  BY <1>1, AnswersInvariant, PTL

\* A conversation remembers only what the user chose to have remembered there, and once
\* it is deleted it does so only if the deletion left one of its runs going.
THEOREM GrantsTheorem == Safe => []GrantsAreChosen
<1>1. AnswerInv => GrantsAreChosen
  BY DEF AnswerInv
<1> QED
  BY <1>1, AnswersInvariant, PTL

-----------------------------------------------------------------------------
(* Flushes, when no draft changes while one is under way.                    *)

\* The paths of a flush that listed no deletion have none.
FlushInv == \A c \in Calls : pc[c] = "flushing" /\ local[c].listed = {} =>
              \A p \in local[c].eligible : drafts[Conv(c)][p] # "delete"

\* A call that goes ahead picks its paths by what is pending in that step.
LEMMA AheadPicks ==
  ASSUME AnswerInv, FlushInv, NEW c \in Calls, NEW listed \in SUBSET Paths,
         GoAhead(c, listed) \/ Refuse(c), UNCHANGED drafts
  PROVE  FlushInv'
<1> SUFFICES ASSUME NEW d \in Calls, pc'[d] = "flushing", local'[d].listed = {}
             PROVE  \A p \in local'[d].eligible : drafts[Conv(d)][p] # "delete"
  BY DEF FlushInv, Conv
<1>1. CASE d # c
  BY <1>1 DEF FlushInv, GoAhead, Refuse, AnswerInv, CallTypes
<1>2. CASE d = c
  <2>1. GoAhead(c, listed)
    BY <1>2 DEF Refuse, AnswerInv, CallTypes
  <2>2. local'[c] = [Blank EXCEPT !.listed = listed, !.eligible = Eligible(c, listed # {})]
    BY <2>1 DEF GoAhead, AnswerInv, CallTypes
  <2>3. local'[c].listed = listed /\ local'[c].eligible = Eligible(c, listed # {})
    BY <2>2 DEF Blank
  <2>4. local'[c].eligible = Eligible(c, FALSE)
    BY <1>2, <2>3
  <2> QED
    BY <1>2, <2>4 DEF Eligible, Pending, Deletions
<1> QED
  BY <1>1, <1>2

\* Flushes keep their paths free of deletions.
LEMMA FlushStep ==
  ASSUME ~Overlap, AnswerInv, FlushInv, [Next]_vars
  PROVE  FlushInv'
<1> USE DEF AnswerInv, CallTypes
<1>1. ASSUME NEW cs, NEW answer \in Answers, Settle(cs, answer), UNCHANGED drafts
      PROVE  FlushInv'
  <2>1. \A c \in Calls : pc'[c] = "flushing" => local'[c] = local[c] /\ pc[c] = "flushing"
    BY <1>1, SettleCalls
  <2> QED
    BY <1>1, <2>1 DEF FlushInv, Conv
<1>2. CASE User
  <2>1. Denied \in Answers /\ \A b \in BOOLEAN : [approved |-> TRUE, remembered |-> b] \in Answers
    BY DEF Denied, Answers
  <2>2. \E cs : \E answer \in Answers : Settle(cs, answer) /\ UNCHANGED drafts
    BY <1>2, <2>1 DEF User, Deny, Approve
  <2> QED
    BY <1>1, <2>2
<1>3. ASSUME NEW r \in Runs, Abort(r) PROVE FlushInv'
  <2>1. Denied \in Answers /\ Settle({c \in Calls : RunOf[c] = r}, Denied) /\ UNCHANGED drafts
    BY <1>3 DEF Denied, Answers, Abort
  <2> QED
    BY <1>1, <2>1
<1>4. ASSUME NEW v \in Conversations, DeleteConversation(v) PROVE FlushInv'
  <2>1. Denied \in Answers /\ (\E cs : Settle(cs, Denied)) /\ UNCHANGED drafts
    BY <1>4 DEF Denied, Answers, DeleteConversation
  <2> QED
    BY <1>1, <2>1
<1>5. ASSUME NEW c \in Calls, Policy(c) PROVE FlushInv'
  <2>1. CASE Begin(c)
    BY <2>1 DEF Begin, FlushInv, Conv
  <2>2. CASE Pass(c) \/ TurnedDown(c)
    BY <2>2, ListType, AheadPicks DEF Pass, TurnedDown
  <2>3. CASE Ask(c)
    BY <2>3 DEF Ask, Request, FlushInv, Conv
  <2> QED
    BY <1>5, <2>1, <2>2, <2>3 DEF Policy
<1>6. ASSUME NEW c \in Calls, Proceed(c) PROVE FlushInv'
  <2>1. CASE TakeAnswer(c)
    <3>1. /\ local[c].listed \in SUBSET Paths /\ UNCHANGED drafts
          /\ GoAhead(c, local[c].listed) \/ Refuse(c)
      BY <2>1 DEF TakeAnswer, Locals
    <3> QED
      BY <3>1, AheadPicks
  <2>2. CASE RunCommand(c) \/ Finish(c)
    BY <2>2 DEF RunCommand, Finish, FlushInv, Conv
  <2>3. CASE Flush(c)
    <3>1. PICK written \in SUBSET local[c].eligible :
            drafts' = [drafts EXCEPT ![Conv(c)] =
                         [p \in Paths |-> IF p \in written THEN "none" ELSE @[p]]]
      BY <2>3 DEF Flush
    <3>2. \A v \in Conversations, p \in Paths :
            drafts'[v][p] = drafts[v][p] \/ drafts'[v][p] = "none"
      BY <3>1, ConvType DEF DataTypes
    <3>3. \A d \in Calls : pc'[d] = "flushing" => /\ pc[d] = "flushing"
                                                 /\ local'[d] = local[d]
      BY <2>3 DEF Flush
    <3>4. \A d \in Calls : local[d].eligible \subseteq Paths /\ Conv(d) \in Conversations
      BY ConvType DEF Locals
    <3> QED
      BY <3>2, <3>3, <3>4 DEF FlushInv, Conv
  <2> QED
    BY <1>6, <2>1, <2>2, <2>3 DEF Proceed
<1>7. ASSUME NEW v \in Conversations, NEW p \in Paths, Draft(v, p) PROVE FlushInv'
  <2>1. \A c \in Calls : pc[c] = "flushing" => Conv(c) # v
    BY <1>7 DEF Draft
  <2>2. /\ \E change \in {"modify", "delete"} : drafts' = [drafts EXCEPT ![v][p] = change]
        /\ UNCHANGED <<pc, local>>
    BY <1>7 DEF Draft, callVars
  <2>3. \A u \in Conversations : u # v => drafts'[u] = drafts[u]
    BY <2>2 DEF DataTypes
  <2> QED
    BY <2>1, <2>2, <2>3, ConvType DEF FlushInv, Conv
<1>8. CASE ClearGrants \/ UNCHANGED vars
  BY <1>8 DEF ClearGrants, vars, callVars, FlushInv, Conv
<1> QED
  BY <1>2, <1>3, <1>4, <1>5, <1>6, <1>7, <1>8 DEF Next

\* A flush that was let in as plain writes deletes no file, as long as nothing else of
\* the conversation writes while it is under way.
THEOREM WritesTheorem ==
  ASSUME ~Overlap
  PROVE  Safe => WritesRemoveNothing
<1> DEFINE Kept == \A c \in Calls : Flush(c) /\ local[c].listed = {} =>
                     \A p \in Paths : drafts[Conv(c)][p] = "delete" =>
                                      drafts'[Conv(c)][p] = "delete"
<1>1. Init => FlushInv
  BY DEF Init, FlushInv
<1>2. AnswerInv /\ FlushInv /\ [Next]_vars => FlushInv'
  BY FlushStep
<1>3. AnswerInv /\ FlushInv /\ [Next]_vars => [Kept]_vars
  <2> SUFFICES ASSUME AnswerInv, FlushInv, NEW c \in Calls, Flush(c), local[c].listed = {},
                      NEW p \in Paths, drafts[Conv(c)][p] = "delete"
               PROVE  drafts'[Conv(c)][p] = "delete"
    OBVIOUS
  <2>1. p \notin local[c].eligible
    BY DEF Flush, FlushInv
  <2> QED
    BY <2>1, ConvType DEF Flush, AnswerInv, DataTypes
<1> QED
  BY <1>1, <1>2, <1>3, AnswersInvariant, PTL DEF Safe, WritesRemoveNothing

-----------------------------------------------------------------------------
(* The queue of requests and the commands in line.                           *)

QueueInv ==
  /\ queue \in Seq(Calls) /\ Once(queue)
  /\ \A c \in Calls : pc[c] = "asking" <=> Occurs(queue, c)
  /\ shown = First(queue)

\* A command that has been let go ahead is in line until it is over.
InLine(c) == kind[c] = "exec" /\ pc[c] \in {"lined", "acting"}

\* The lane holds those, once each, and the one that runs is its first.
LaneInv ==
  /\ lane \in Seq(Calls) /\ Once(lane)
  /\ \A c \in Calls : InLine(c) <=> Occurs(lane, c)
  /\ \A c \in Calls : kind[c] = "exec" /\ pc[c] = "acting" => Head(lane) = c

GrantTypes == allowed \in [Conversations -> SUBSET Keys] /\ chosen \in [Conversations -> SUBSET Keys]

\* The request on display is one of the queue.
LEMMA ShownAsks ==
  ASSUME QueueInv, shown # None
  PROVE  shown \in Calls /\ pc[shown] = "asking"
<1>1. queue # <<>> /\ shown = Head(queue)
  BY DEF QueueInv, First
<1> QED
  BY <1>1, TailOccurs DEF QueueInv

\* Settled requests leave the queue, and the rest stands as it stood.
LEMMA SettleQueue ==
  ASSUME CallTypes, QueueInv, LaneInv, NEW cs, NEW answer \in Answers, Settle(cs, answer),
         UNCHANGED <<kind, lane>>
  PROVE  QueueInv' /\ LaneInv'
<1>1. \A c \in Calls : IF c \in cs /\ pc[c] = "asking" THEN pc'[c] = "answered" ELSE pc'[c] = pc[c]
  BY SettleCalls
<1>2. queue' = Filter(queue, Calls \ cs) /\ shown' = First(queue')
  BY DEF Settle
<1>3. queue' \in Seq(Calls) /\ Once(queue') /\ \A c : Occurs(queue', c) <=> c \in Calls \ cs /\ Occurs(queue, c)
  BY <1>2, FilterPicks, FilterOnce, FilterOccurs DEF QueueInv
<1>4. QueueInv'
  BY <1>1, <1>2, <1>3 DEF QueueInv
<1>5. LaneInv'
  BY <1>1 DEF LaneInv, InLine
<1> QED
  BY <1>4, <1>5

\* A call that goes ahead joins the lane if it is a command; it was not there.
LEMMA AheadLane ==
  ASSUME CallTypes, DataTypes, LaneInv, NEW c \in Calls, NEW listed \in SUBSET Paths,
         GoAhead(c, listed) \/ Refuse(c), pc[c] \in {"new", "begun", "answered"}, kind' = kind
  PROVE  LaneInv'
<1>1. /\ \A d \in Calls \ {c} : pc'[d] = pc[d]
      /\ ~InLine(c) /\ ~Occurs(lane, c)
  BY DEF GoAhead, Refuse, CallTypes, LaneInv, InLine
<1>2. CASE lane' = lane /\ ~InLine(c)'
  BY <1>1, <1>2 DEF LaneInv, InLine
<1>3. CASE lane' = Append(lane, c) /\ pc'[c] = "lined" /\ kind[c] = "exec"
  <2>1. /\ lane' \in Seq(Calls) /\ Once(lane')
        /\ \A d : Occurs(lane', d) <=> Occurs(lane, d) \/ d = c
        /\ Head(lane') = IF lane = <<>> THEN c ELSE Head(lane)
    BY <1>1, <1>3, AppendOccurs DEF LaneInv
  <2>2. ASSUME NEW d \in Calls, kind[d] = "exec", pc'[d] = "acting"
        PROVE  Head(lane') = d
    <3>1. d # c /\ pc[d] = "acting"
      BY <1>1, <1>3, <2>2
    <3>2. Occurs(lane, d) /\ Head(lane) = d
      BY <2>2, <3>1 DEF LaneInv, InLine
    <3>3. lane # <<>>
      BY <3>2 DEF Occurs
    <3> QED
      BY <2>1, <3>2, <3>3
  <2> QED
    BY <1>1, <1>3, <2>1, <2>2 DEF LaneInv, InLine
<1>4. CASE Refuse(c)
  BY <1>2, <1>4 DEF Refuse, CallTypes, InLine
<1>5. CASE GoAhead(c, listed)
  <2>1. CASE kind[c] = "exec"
    BY <1>3, <1>5, <2>1 DEF GoAhead, CallTypes
  <2>2. CASE kind[c] # "exec"
    BY <1>2, <1>5, <2>2 DEF GoAhead, InLine
  <2> QED
    BY <2>1, <2>2
<1> QED
  BY <1>4, <1>5

\* Nor does it leave or join the queue.
LEMMA QueueKept ==
  ASSUME CallTypes, QueueInv, NEW c \in Calls, UNCHANGED <<queue, shown>>,
         \A d \in Calls \ {c} : pc'[d] = pc[d], pc[c] # "asking", pc'[c] # "asking"
  PROVE  QueueInv'
  BY DEF QueueInv

\* A call asks the policy.
LEMMA PolicyQueue ==
  ASSUME AnswerInv, QueueInv, LaneInv, NEW c \in Calls, Policy(c)
  PROVE  QueueInv' /\ LaneInv'
<1> USE DEF AnswerInv, CallTypes
<1>1. kind' = kind /\ \A d \in Calls \ {c} : pc'[d] = pc[d]
  BY DEF Policy, Begin, Pass, Ask, TurnedDown, GoAhead, Refuse, Request
<1>2. pc[c] \in {"new", "begun"}
  BY DEF Policy, Begin, Pass, Ask, TurnedDown, AtPolicy
<1>3. CASE Begin(c)
  <2>1. pc'[c] = "begun" /\ UNCHANGED <<queue, shown, lane>>
    BY <1>3 DEF Begin, storeVars
  <2>2. QueueInv'
    BY <1>1, <1>2, <2>1, QueueKept
  <2>3. LaneInv'
    BY <1>1, <1>2, <2>1 DEF LaneInv, InLine
  <2> QED
    BY <2>2, <2>3
<1>4. CASE Pass(c) \/ TurnedDown(c)
  <2>1. /\ GoAhead(c, ToList(c)) \/ Refuse(c)
        /\ UNCHANGED <<queue, shown>>
    BY <1>4 DEF Pass, TurnedDown, storeVars
  <2>2. pc'[c] # "asking"
    BY <2>1 DEF GoAhead, Refuse
  <2>3. QueueInv'
    BY <1>1, <1>2, <2>1, <2>2, QueueKept
  <2>4. LaneInv'
    BY <1>1, <1>2, <2>1, ListType, AheadLane
  <2> QED
    BY <2>3, <2>4
<1>5. CASE Ask(c)
  <2>1. Request(c) /\ lane' = lane /\ pc'[c] \in {"asking", "answered"}
    BY <1>5 DEF Ask, Request
  <2>2. LaneInv'
    BY <1>1, <1>2, <2>1 DEF LaneInv, InLine
  <2>3. CASE RunOf[c] \in aborted
    <3>1. pc'[c] = "answered" /\ UNCHANGED <<queue, shown>>
      BY <2>1, <2>3 DEF Request
    <3>2. QueueInv'
      BY <1>1, <1>2, <3>1, QueueKept
    <3> QED
      BY <2>2, <3>2
  <2>4. CASE RunOf[c] \notin aborted
    <3>1. pc'[c] = "asking" /\ queue' = Append(queue, c) /\ shown' = First(queue')
      BY <2>1, <2>4 DEF Request
    <3>2. ~Occurs(queue, c)
      BY <1>2 DEF QueueInv
    <3>3. queue' \in Seq(Calls) /\ Once(queue') /\ \A d : Occurs(queue', d) <=> Occurs(queue, d) \/ d = c
      BY <3>1, <3>2, AppendOccurs DEF QueueInv
    <3>4. QueueInv'
      BY <1>1, <3>1, <3>3 DEF QueueInv
    <3> QED
      BY <2>2, <3>4
  <2> QED
    BY <2>2, <2>3, <2>4
<1> QED
  BY <1>3, <1>4, <1>5 DEF Policy

\* A call proceeds.
LEMMA ProceedQueue ==
  ASSUME AnswerInv, QueueInv, LaneInv, NEW c \in Calls, Proceed(c)
  PROVE  QueueInv' /\ LaneInv'
<1> USE DEF AnswerInv, CallTypes
<1>1. /\ UNCHANGED <<kind, queue, shown>>
      /\ \A d \in Calls \ {c} : pc'[d] = pc[d]
      /\ pc[c] # "asking" /\ pc'[c] # "asking"
  BY DEF Proceed, TakeAnswer, RunCommand, Finish, Flush, GoAhead, Refuse, storeVars
<1>2. QueueInv'
  BY <1>1, QueueKept
<1>3. CASE TakeAnswer(c)
  <2>1. /\ GoAhead(c, local[c].listed) \/ Refuse(c)
        /\ local[c].listed \in SUBSET Paths /\ pc[c] = "answered"
    BY <1>3 DEF TakeAnswer, Locals
  <2> QED
    BY <1>1, <1>2, <2>1, AheadLane
<1>4. CASE RunCommand(c)
  <2>1. pc[c] = "lined" /\ pc'[c] = "acting" /\ Head(lane) = c /\ lane' = lane
    BY <1>4 DEF RunCommand
  <2>2. \A d \in Calls : InLine(d)' => kind[d] = "exec" /\ (d = c \/ InLine(d))
    BY <1>1 DEF InLine
  <2>a. CASE kind[c] = "exec"
    BY <1>1, <1>2, <2>1, <2>a DEF LaneInv, InLine
  <2>b. CASE kind[c] # "exec"
    BY <1>1, <1>2, <2>1, <2>b DEF LaneInv, InLine
  <2> QED
    BY <2>a, <2>b
<1>5. CASE Finish(c)
  <2>1. pc[c] = "acting" /\ pc'[c] = "done"
    BY <1>5 DEF Finish
  <2>2. CASE kind[c] # "exec"
    <3>1. lane' = lane
      BY <1>5, <2>2 DEF Finish
    <3> QED
      BY <1>1, <1>2, <2>1, <2>2, <3>1 DEF LaneInv, InLine
  <2>3. CASE kind[c] = "exec"
    <3>1. lane' = Tail(lane) /\ Head(lane) = c /\ Occurs(lane, c)
      BY <1>5, <2>1, <2>3 DEF Finish, LaneInv, InLine
    <3>2. lane # <<>>
      BY <3>1 DEF Occurs
    <3>3. /\ lane' \in Seq(Calls) /\ Once(lane') /\ ~Occurs(lane', c)
          /\ \A d : Occurs(lane, d) <=> Occurs(lane', d) \/ d = c
      BY <3>1, <3>2, TailOccurs DEF LaneInv
    <3>4. \A d \in Calls \ {c} : ~(kind[d] = "exec" /\ pc[d] = "acting")
      BY <3>1 DEF LaneInv
    <3> QED
      BY <1>1, <1>2, <2>1, <3>3, <3>4 DEF LaneInv, InLine
  <2> QED
    BY <2>2, <2>3
<1>6. CASE Flush(c)
  <2>1. pc[c] = "flushing" /\ pc'[c] = "done" /\ lane' = lane
    BY <1>6 DEF Flush
  <2> QED
    BY <1>1, <1>2, <2>1 DEF LaneInv, InLine
<1> QED
  BY <1>3, <1>4, <1>5, <1>6 DEF Proceed

\* Every step keeps queue and lane.
LEMMA QueueStep ==
  ASSUME AnswerInv, QueueInv, LaneInv, [Next]_vars
  PROVE  QueueInv' /\ LaneInv'
<1>1. Denied \in Answers /\ \A b \in BOOLEAN : [approved |-> TRUE, remembered |-> b] \in Answers
  BY DEF Denied, Answers
<1>2. CASE User
  <2>1. \E cs : \E answer \in Answers : Settle(cs, answer) /\ UNCHANGED <<kind, lane>>
    BY <1>1, <1>2 DEF User, Deny, Approve
  <2> QED
    BY <2>1, SettleQueue DEF AnswerInv
<1>3. CASE \E c \in Calls : Policy(c) \/ Proceed(c)
  BY <1>3, PolicyQueue, ProceedQueue
<1>4. ASSUME NEW r \in Runs, Abort(r) PROVE QueueInv' /\ LaneInv'
  <2>1. Settle({c \in Calls : RunOf[c] = r}, Denied) /\ UNCHANGED <<kind, lane>>
    BY <1>4 DEF Abort
  <2> QED
    BY <1>1, <2>1, SettleQueue DEF AnswerInv
<1>5. ASSUME NEW v \in Conversations, DeleteConversation(v) PROVE QueueInv' /\ LaneInv'
  <2>1. (\E cs : Settle(cs, Denied)) /\ UNCHANGED <<kind, lane>>
    BY <1>5 DEF DeleteConversation
  <2> QED
    BY <1>1, <2>1, SettleQueue DEF AnswerInv
<1>6. CASE ClearGrants \/ UNCHANGED vars \/ \E v \in Conversations, p \in Paths : Draft(v, p)
  <2>1. UNCHANGED <<kind, pc, queue, shown, lane>>
    BY <1>6 DEF ClearGrants, vars, callVars, storeVars, Draft
  <2> QED
    BY <2>1 DEF QueueInv, LaneInv, InLine
<1> QED
  BY <1>2, <1>3, <1>4, <1>5, <1>6 DEF Next

\* What is remembered are keys: a request without one cannot be remembered.
LEMMA GrantStep ==
  ASSUME AnswerInv, QueueInv, GrantTypes, [Next]_vars
  PROVE  GrantTypes'
<1> USE DEF AnswerInv, CallTypes
<1>1. ASSUME NEW remember \in BOOLEAN, Approve(remember)
      PROVE  GrantTypes'
  <2>1. /\ allowed' = allowed
        /\ chosen' = [chosen EXCEPT ![Conv(shown)] = IF remember THEN @ \cup {local[shown].key} ELSE @]
        /\ remember => local[shown].key # None
        /\ shown # None
    BY <1>1 DEF Approve
  <2>2. shown \in Calls
    BY <2>1, ShownAsks
  <2>3. remember => local[shown].key \in Keys
    BY <2>1, <2>2 DEF Locals
  <2> QED
    BY <2>1, <2>3 DEF GrantTypes
<1>2. ASSUME NEW c \in Calls, TakeAnswer(c)
      PROVE  GrantTypes'
  <2> DEFINE remember == /\ local[c].answer.approved /\ local[c].answer.remembered
                         /\ local[c].key # None
                         /\ kind[c] = "page" => ~(RunOf[c] \in aborted)
  <2>1. /\ chosen' = chosen
        /\ allowed' = [allowed EXCEPT ![Conv(c)] = IF remember THEN @ \cup {local[c].key} ELSE @]
    BY <1>2 DEF TakeAnswer
  <2>2. remember => local[c].key \in Keys
    BY DEF Locals
  <2> HIDE DEF remember
  <2> QED
    BY <2>1, <2>2 DEF GrantTypes
<1>3. CASE ClearGrants \/ \E v \in Conversations : DeleteConversation(v)
  BY <1>3 DEF ClearGrants, DeleteConversation, Gone, GrantTypes
<1>4. CASE UNCHANGED <<allowed, chosen>>
  BY <1>4 DEF GrantTypes
<1>5. CASE Deny \/ (\E r \in Runs : Abort(r)) \/ (\E v \in Conversations, p \in Paths : Draft(v, p)) \/ UNCHANGED vars
  BY <1>4, <1>5 DEF Deny, Abort, Draft, storeVars, vars
<1>6. ASSUME NEW c \in Calls, Policy(c) \/ RunCommand(c) \/ Finish(c) \/ Flush(c)
      PROVE  UNCHANGED <<allowed, chosen>>
  BY <1>6 DEF Policy, Begin, Pass, Ask, TurnedDown, RunCommand, Finish, Flush, storeVars
<1> QED
  BY <1>1, <1>2, <1>3, <1>4, <1>5, <1>6 DEF Next, User, Proceed

\* The invariants of the store together.
StoreInv == AnswerInv /\ QueueInv /\ LaneInv /\ GrantTypes

LEMMA StoreInvariant == Safe => []StoreInv
<1>1. Init => StoreInv
  <2> SUFFICES ASSUME Init PROVE QueueInv /\ LaneInv /\ GrantTypes
    BY AnswerInit DEF StoreInv
  <2>1. QueueInv
    BY DEF Init, QueueInv, Once, Occurs, First
  <2>2. LaneInv
    BY DEF Init, LaneInv, Once, Occurs, InLine
  <2>3. GrantTypes
    BY DEF Init, GrantTypes
  <2> QED
    BY <2>1, <2>2, <2>3
<1>2. StoreInv /\ [Next]_vars => StoreInv'
  BY AnswerStep, QueueStep, GrantStep DEF StoreInv
<1> QED
  BY <1>1, <1>2, PTL DEF Safe

\* Every variable holds what the code can put there.
THEOREM AuthTypeOK == Safe => []TypeOK
<1>1. StoreInv => TypeOK
  <2> SUFFICES ASSUME StoreInv PROVE TypeOK
    OBVIOUS
  <2>1. shown \in Calls \cup {None}
    BY ShownAsks DEF StoreInv
  <2> QED
    BY <2>1 DEF StoreInv, AnswerInv, CallTypes, DataTypes, GrantTypes, QueueInv, LaneInv, TypeOK
<1> QED
  BY <1>1, StoreInvariant, PTL

\* The queue holds the open requests, once each, and the modal shows the first of them,
\* whatever is settled, aborted or deleted: no open request is lost, none that was
\* settled comes back, and none of a run that is over is shown.
THEOREM RequestsTheorem == Safe => []RequestsStand
<1>1. StoreInv => RequestsStand
  <2> SUFFICES ASSUME StoreInv PROVE RequestsStand
    OBVIOUS
  <2>1. QueueInv /\ OpenIsLive
    BY DEF StoreInv, AnswerInv
  <2>2. \A i \in DOMAIN queue : queue[i] \in Calls /\ pc[queue[i]] = "asking"
    BY <2>1 DEF QueueInv, Occurs
  <2> QED
    BY <2>1, <2>2 DEF QueueInv, Occurs, Once, OpenIsLive, RequestsStand
<1> QED
  BY <1>1, StoreInvariant, PTL

\* The command that runs is the first of those in line for their root.
FirstInLine == \A c \in Calls : kind[c] = "exec" /\ pc[c] = "acting" => lane # <<>> /\ Head(lane) = c

\* Commands run one at a time, each when it has become the first of the lane of their
\* root, although any number of them may be let go ahead at once (exec.tool.ts).
THEOREM CommandsInTurn == Safe => []FirstInLine
<1>1. StoreInv => FirstInLine
  BY DEF StoreInv, LaneInv, InLine, Occurs, FirstInLine
<1> QED
  BY <1>1, StoreInvariant, PTL

=============================================================================
