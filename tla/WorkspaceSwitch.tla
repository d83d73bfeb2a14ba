-------------------------- MODULE WorkspaceSwitch --------------------------
(***************************************************************************)
(* Switching the active workspace and refreshing the list of pending       *)
(* changes, as web/store/workspace.store.ts does it.  Both are shared by   *)
(* everything that runs in the page: the route, the sidebar, the agent run *)
(* and the tools call them without coordination, and JavaScript            *)
(* interleaves them at every await.                                        *)
(*                                                                         *)
(* A switch takes a soft lock (switchingWorkspaceId), clears what the      *)
(* store knows of the old workspace, prepares the new one, activates it    *)
(* and refreshes.  A refresh is single-flight: whoever calls while one is  *)
(* running is handed the running promise and asks its owner to run again.  *)
(***************************************************************************)
EXTENDS Naturals, FiniteSets

CONSTANTS Workspaces,   \* workspace (= conversation) ids
          Switchers,    \* concurrent callers of switchWorkspace
          Agent,        \* a tool that changes a ledger and asks for a refresh
          None,         \* null
          MaxVersion,   \* bound on the changes of one ledger
          Faults        \* whether an awaited call may throw or take over 30 s

Callers == Switchers \cup {Agent}
Versions == 0 .. MaxVersion
Flights == [owner : Callers, waiters : SUBSET Callers, ws : Workspaces,
            seen : Versions \cup {None},
            pc : {"scanning", "scanned", "landed", "rejected"}]

ASSUME SwitchAssumption == /\ MaxVersion \in Nat
                           /\ Faults \in BOOLEAN
                           /\ None \notin Workspaces \cup Switchers \cup Flights
                           /\ Agent \notin Switchers

VARIABLES active,    \* activeWorkspaceId
          lock,      \* switchingWorkspaceId
          error,     \* whether the store holds an error message
          shown,     \* pendingChanges: None, or the ledger version on display
          flight,    \* refreshPendingChangesInFlight, None when there is none
          rerun,     \* refreshPendingChangesNeedsRerun
          ledger,    \* version of the pending ledger of each workspace
          switch,    \* the state of each call of switchWorkspace
          agent,     \* "idle", "changed" or "refreshing"
          asked,     \* version of a ledger some refresh was requested for
          failed     \* history: whether something has thrown or timed out

switchVars == <<active, lock, error, switch>>
refreshVars == <<shown, flight, rerun>>
vars == <<active, lock, error, shown, flight, rerun, ledger, switch, agent, asked, failed>>

Displays == [ws : Workspaces, version : Versions]
IdleSwitch == [pc |-> "idle", id |-> None, on |-> None]

\* A call of switchWorkspace that holds or held the lock and is not done.
Running(s) == switch[s].pc \in {"preparing", "activated", "refreshing", "refreshed", "failed"}

Init == /\ active \in Workspaces
        /\ lock = None
        /\ error = FALSE
        /\ shown = None
        /\ flight = None
        /\ rerun = FALSE
        /\ ledger = [w \in Workspaces |-> 0]
        /\ switch = [s \in Switchers |-> IdleSwitch]
        /\ agent = "idle"
        /\ asked = [w \in Workspaces |-> 0]
        /\ failed = FALSE

-----------------------------------------------------------------------------
(* refreshPendingChanges *)

\* (Definitions marked Faulty are used nowhere: they are variants of the next one
\* that the properties must tell apart.)
\* Faulty: captures the id of the switch under way instead of the active one.
NewFlightOfLock(owner) == [owner |-> owner, waiters |-> {}, ws |-> lock,
                           seen |-> None, pc |-> "scanning"]

\* The promise a first caller creates: getActiveWorkspace reads the active id
\* at once, and everything after it happens after an await.
NewFlight(owner) == [owner |-> owner, waiters |-> {}, ws |-> active,
                     seen |-> None, pc |-> "scanning"]

\* Faulty: a caller that joins a flight does not ask for a rerun.
JoinRefresh(c) ==
    /\ flight' = IF flight = None THEN NewFlight(c)
                 ELSE [flight EXCEPT !.waiters = @ \cup {c}]
    /\ rerun' = rerun
    /\ asked' = [asked EXCEPT ![active] = ledger[active]]

\* A call: the first caller owns the flight, a later one waits for it and sets
\* the rerun flag.
CallRefresh(c) ==
    /\ IF flight = None
         THEN /\ flight' = NewFlight(c)
              /\ rerun' = rerun
         ELSE /\ flight' = [flight EXCEPT !.waiters = @ \cup {c}]
              /\ rerun' = TRUE
    /\ asked' = [asked EXCEPT ![active] = ledger[active]]

\* workspace.refreshPendingChanges() reads the ledger of the captured workspace.
Scan == /\ flight # None
        /\ flight.pc = "scanning"
        /\ flight' = [flight EXCEPT !.seen = ledger[flight.ws], !.pc = "scanned"]
        /\ UNCHANGED <<shown, rerun, ledger, agent, asked, failed>>
        /\ UNCHANGED switchVars

\* The result is dropped when the user has moved on to another workspace.
Apply == /\ flight # None
         /\ flight.pc = "scanned"
         /\ shown' = IF active = flight.ws
                       THEN [ws |-> flight.ws, version |-> flight.seen]
                       ELSE shown
         /\ flight' = [flight EXCEPT !.pc = "landed"]
         /\ UNCHANGED <<rerun, ledger, agent, asked, failed>>
         /\ UNCHANGED switchVars

\* A ledger query or directory scan throws: the promise rejects.
ScanFails == /\ Faults
             /\ flight # None
             /\ flight.pc \in {"scanning", "scanned"}
             /\ flight' = [flight EXCEPT !.pc = "rejected"]
             /\ failed' = TRUE
             /\ UNCHANGED <<shown, rerun, ledger, agent, asked>>
             /\ UNCHANGED switchVars

\* Faulty: a flight releases its owner and forgets who joined it.
ReleasedOwner(cs, ok) ==
    /\ switch' = [s \in Switchers |->
                    IF s \in cs /\ s = flight.owner
                      THEN [switch[s] EXCEPT !.pc = IF ok THEN "refreshed" ELSE "failed"]
                      ELSE switch[s]]
    /\ agent' = IF Agent \in cs THEN "idle" ELSE agent

\* The callers a landed flight releases go on; one of a rejected flight throws.
Released(cs, ok) ==
    /\ switch' = [s \in Switchers |->
                    IF s \in cs
                      THEN [switch[s] EXCEPT !.pc = IF ok THEN "refreshed" ELSE "failed"]
                      ELSE switch[s]]
    /\ agent' = IF Agent \in cs THEN "idle" ELSE agent

\* The owner's finally block: it clears the flight and, when asked to, starts
\* the next one before it returns; the waiters return now.
Land == /\ flight # None
        /\ flight.pc \in {"landed", "rejected"}
        /\ IF rerun
             THEN /\ flight' = NewFlight(flight.owner)
                  /\ Released(flight.waiters, flight.pc = "landed")
             ELSE /\ flight' = None
                  /\ Released(flight.waiters \cup {flight.owner}, flight.pc = "landed")
        /\ rerun' = FALSE
        /\ UNCHANGED <<active, lock, error, shown, ledger, asked, failed>>

-----------------------------------------------------------------------------
(* switchWorkspace *)

\* The synchronous part of a switch that goes ahead: PENDING_RESET_PATCH and
\* the lock.
Begin(s, id) == /\ lock' = id
                /\ shown' = None
                /\ error' = FALSE
                /\ switch' = [switch EXCEPT ![s] = [pc |-> "preparing", id |-> id, on |-> None]]

\* A call to switch to id: nothing to do, wait for the running switch, or begin.
SwitchCall(s, id) ==
    /\ switch[s].pc = "idle"
    /\ active # id
    /\ IF lock # None
         THEN /\ switch' = [switch EXCEPT ![s] = [pc |-> "waiting", id |-> id, on |-> lock]]
              /\ UNCHANGED <<lock, error, shown>>
         ELSE Begin(s, id)
    /\ UNCHANGED <<active, flight, rerun, ledger, agent, asked, failed>>

\* Faulty: a waiter that finds the lock taken again waits again.
ResumeInLine(s) ==
    /\ switch[s].pc = "notified" \/ (Faults /\ switch[s].pc = "waiting")
    /\ IF active = switch[s].id
         THEN /\ switch' = [switch EXCEPT ![s] = IdleSwitch]
              /\ UNCHANGED <<lock, error, shown>>
         ELSE IF lock # None
           THEN /\ switch' = [switch EXCEPT ![s].pc = "waiting", ![s].on = lock]
                /\ UNCHANGED <<lock, error, shown>>
           ELSE Begin(s, switch[s].id)
    /\ failed' = (failed \/ switch[s].pc = "waiting")
    /\ UNCHANGED <<active, flight, rerun, ledger, agent, asked>>

\* A waiter goes on, once it is notified or its 30 s timer fires: it is there
\* already, or it begins; one that waited for a switch to its own target gives
\* up unless that switch left an error.
Resume(s) ==
    /\ switch[s].pc = "notified" \/ (Faults /\ switch[s].pc = "waiting")
    /\ IF active = switch[s].id \/ (switch[s].on = switch[s].id /\ ~error)
         THEN /\ switch' = [switch EXCEPT ![s] = IdleSwitch]
              /\ UNCHANGED <<lock, error, shown>>
         ELSE Begin(s, switch[s].id)
    /\ failed' = (failed \/ switch[s].pc = "waiting")
    /\ UNCHANGED <<active, flight, rerun, ledger, agent, asked>>

\* The workspace is ready and becomes active.  A known one releases the lock
\* here; a new or recreated one keeps it until the call returns.
Activate(s, keepLock) ==
    /\ switch[s].pc = "preparing"
    /\ active' = switch[s].id
    /\ lock' = IF keepLock THEN lock ELSE None
    /\ switch' = [switch EXCEPT ![s].pc = "activated"]
    /\ UNCHANGED <<error, shown, flight, rerun, ledger, agent, asked, failed>>

\* refreshForWorkspace, after the awaits that look for directory handles.
SwitchRefresh(s) ==
    /\ switch[s].pc = "activated"
    /\ CallRefresh(s)
    /\ switch' = [switch EXCEPT ![s].pc = "refreshing"]
    /\ UNCHANGED <<active, lock, error, shown, ledger, agent, failed>>

\* Something awaited while preparing throws.
PrepareFails(s) ==
    /\ Faults
    /\ switch[s].pc = "preparing"
    /\ switch' = [switch EXCEPT ![s].pc = "failed"]
    /\ failed' = TRUE
    /\ UNCHANGED <<active, lock, error, ledger, agent, asked>>
    /\ UNCHANGED refreshVars

\* Faulty: the waiters are left to their timer.
NotifiedNobody(s) == [switch EXCEPT ![s] = IdleSwitch]

\* The waiters for id are notified, and s is done.
Notified(s) == [r \in Switchers |->
                  IF r = s THEN IdleSwitch
                  ELSE IF switch[r].pc = "waiting" /\ switch[r].on = switch[s].id
                    THEN [switch[r] EXCEPT !.pc = "notified"]
                    ELSE switch[r]]

\* Faulty: a successful early return leaves the lock set.
SwitchDoneKeepsLock(s) ==
    /\ switch[s].pc \in {"refreshed", "failed"}
    /\ error' = (error \/ switch[s].pc = "failed")
    /\ lock' = IF switch[s].pc = "failed" THEN None ELSE lock
    /\ switch' = Notified(s)
    /\ UNCHANGED <<active, ledger, agent, asked, failed>>
    /\ UNCHANGED refreshVars

\* The catch block (which clears the lock, whoever holds it) and the finally
\* block.
SwitchDone(s) ==
    /\ switch[s].pc \in {"refreshed", "failed"}
    /\ error' = (error \/ switch[s].pc = "failed")
    /\ lock' = IF switch[s].pc = "failed" \/ lock = switch[s].id THEN None ELSE lock
    /\ switch' = Notified(s)
    /\ UNCHANGED <<active, ledger, agent, asked, failed>>
    /\ UNCHANGED refreshVars

-----------------------------------------------------------------------------
(* A tool: it changes the ledger of a workspace, then asks for a refresh. *)

AgentChange(w) == /\ agent = "idle"
                  /\ ledger[w] < MaxVersion
                  /\ ledger' = [ledger EXCEPT ![w] = @ + 1]
                  /\ agent' = "changed"
                  /\ UNCHANGED <<asked, failed>>
                  /\ UNCHANGED switchVars
                  /\ UNCHANGED refreshVars

AgentRefresh == /\ agent = "changed"
                /\ CallRefresh(Agent)
                /\ agent' = "refreshing"
                /\ UNCHANGED <<active, lock, error, shown, ledger, switch, failed>>

RefreshStep == Scan \/ Apply \/ Land
SwitchStep(s) == \/ Resume(s)
                 \/ \E keepLock \in BOOLEAN : Activate(s, keepLock)
                 \/ SwitchRefresh(s)
                 \/ SwitchDone(s)

Next == \/ RefreshStep
        \/ ScanFails
        \/ \E s \in Switchers : \/ SwitchStep(s)
                                \/ PrepareFails(s)
                                \/ \E id \in Workspaces : SwitchCall(s, id)
        \/ \E w \in Workspaces : AgentChange(w)
        \/ AgentRefresh

\* Awaited browser calls settle, and a settled promise's continuation runs.
Fairness == /\ WF_vars(RefreshStep)
            /\ WF_vars(AgentRefresh)
            /\ \A s \in Switchers : WF_vars(SwitchStep(s))

Spec == Init /\ [][Next]_vars /\ Fairness

-----------------------------------------------------------------------------
(* Properties *)

\* Every variable has the shape the store gives it.
TypeOK ==
    /\ active \in Workspaces
    /\ lock \in Workspaces \cup {None}
    /\ error \in BOOLEAN
    /\ shown \in Displays \cup {None}
    /\ flight \in Flights \cup {None}
    /\ rerun \in BOOLEAN
    /\ ledger \in [Workspaces -> Versions]
    /\ switch \in [Switchers -> [pc : {"idle", "waiting", "notified", "preparing", "activated",
                                       "refreshing", "refreshed", "failed"},
                                 id : Workspaces \cup {None}, on : Workspaces \cup {None}]]
    /\ agent \in {"idle", "changed", "refreshing"}
    /\ asked \in [Workspaces -> Versions]
    /\ failed \in BOOLEAN

\* The switching lock is never left behind: while it is set, a call of
\* switchWorkspace that will clear it is running (runAgent waits for it).
LockHasOwner == lock # None => \E s \in Switchers : Running(s) /\ switch[s].id = lock

\* A caller that waits for a switch waits for one that is still running and
\* will notify it; it never depends on its 30 s timer.
WaiterHasSwitch ==
    \A s \in Switchers : switch[s].pc = "waiting" =>
        \E r \in Switchers \ {s} : Running(r) /\ switch[r].id = switch[s].on

\* When no switch and no refresh is under way, the list on display is the
\* active workspace's.
SettledViewIsActive ==
    (flight = None /\ \A s \in Switchers : ~ Running(s) /\ switch[s].pc # "notified")
        => failed \/ shown = None \/ shown.ws = active

\* A change a refresh was asked for is displayed in the end, also when the
\* refresh joined one that had read the ledger before the change.
AskedIsShown ==
    \A w \in Workspaces, v \in 1 .. MaxVersion :
        (active = w /\ asked[w] = v) ~>
            (failed \/ active # w \/ (shown # None /\ shown.ws = w /\ shown.version >= v))

\* A call of switchWorkspace returns, unless other calls never stop coming (the
\* owner of a flight reruns it for them before it returns).
SwitchEnds ==
    \A s \in Switchers :
        <>[](\A r \in Switchers \ {s} : switch[r].pc = "idle")
            => [](switch[s].pc # "idle" => <>(switch[s].pc = "idle"))

\* A call of switchWorkspace gets past the lock and the preparation whatever
\* the other calls do.
SwitchPrepares ==
    \A s \in Switchers : switch[s].pc \in {"waiting", "preparing"}
                            ~> switch[s].pc \notin {"waiting", "notified", "preparing"}

\* "This closes the window where the badge and preview panel would briefly
\* show the previous workspace's data": what is shown is the active
\* workspace's.
ViewIsActive == shown # None => shown.ws = active

=============================================================================
