----------------------- MODULE WorkspaceSwitchProofs -----------------------
(***************************************************************************)
(* Proofs about WorkspaceSwitch, for any set of callers and workspaces,    *)
(* with and without failures.                                              *)
(***************************************************************************)
EXTENDS WorkspaceSwitch, TLAPS

SwitchStates == [pc : {"idle", "waiting", "notified", "preparing", "activated",
                       "refreshing", "refreshed", "failed"},
                 id : Workspaces \cup {None}, on : Workspaces \cup {None}]

\* What the argument needs to know of the calls' types: one that waits has a
\* target to switch to.
SwitchType ==
  /\ lock \in Workspaces \cup {None}
  /\ switch \in [Switchers -> SwitchStates]
  /\ \A s \in Switchers : switch[s].pc \in {"waiting", "notified"} => switch[s].id \in Workspaces

\* LockHasOwner is inductive; WaiterHasSwitch needs it, because a caller waits
\* for whoever the lock names.
SwitchInv == SwitchType /\ LockHasOwner /\ WaiterHasSwitch

\* Nobody switches in the initial state.
LEMMA SwitchInvInit == Init => SwitchInv
  BY SwitchAssumption
  DEF Init, SwitchInv, SwitchType, LockHasOwner, WaiterHasSwitch, SwitchStates, IdleSwitch

\* A release by a flight leaves every running call running with the same target
\* and makes no call wait.
LEMMA ReleaseKeeps ==
  ASSUME SwitchInv, NEW cs, NEW ok \in BOOLEAN, Released(cs, ok), lock' = lock
  PROVE  SwitchInv'
<1>1. SwitchType'
  BY DEF SwitchInv, SwitchType, SwitchStates, Released
<1>2. \A s \in Switchers : /\ switch'[s].id = switch[s].id
                           /\ switch'[s].on = switch[s].on
                           /\ Running(s) => Running(s)'
                           /\ switch'[s].pc = "waiting" => switch[s].pc = "waiting"
  BY DEF SwitchInv, SwitchType, SwitchStates, Released, Running
<1>3. LockHasOwner'
  BY <1>2 DEF SwitchInv, LockHasOwner
<1>4. WaiterHasSwitch'
  BY <1>2 DEF SwitchInv, WaiterHasSwitch
<1> QED
  BY <1>1, <1>3, <1>4 DEF SwitchInv

\* Every step of every caller keeps the invariant.
LEMMA SwitchInvStep == SwitchInv /\ [Next]_vars => SwitchInv'
<1> SUFFICES ASSUME SwitchInv, [Next]_vars
             PROVE  SwitchInv'
  OBVIOUS
<1> USE SwitchAssumption
<1>1. CASE UNCHANGED <<lock, switch>>
  BY <1>1 DEF SwitchInv, SwitchType, LockHasOwner, WaiterHasSwitch, Running
<1>2. CASE Land
  <2>1. lock' = lock /\ \E cs, ok : ok \in BOOLEAN /\ Released(cs, ok)
    BY <1>2 DEF Land
  <2> QED
    BY <2>1, ReleaseKeeps
<1>3. ASSUME NEW s \in Switchers, NEW id \in Workspaces, ~Running(s), Begin(s, id)
      PROVE  SwitchInv'
  <2>1. SwitchType'
    BY <1>3 DEF SwitchInv, SwitchType, SwitchStates, Begin
  <2>2. LockHasOwner'
    BY <1>3 DEF SwitchInv, SwitchType, SwitchStates, LockHasOwner, Begin, Running
  <2>3. WaiterHasSwitch'
    BY <1>3 DEF SwitchInv, SwitchType, SwitchStates, WaiterHasSwitch, Begin, Running
  <2> QED
    BY <2>1, <2>2, <2>3 DEF SwitchInv
<1>4. ASSUME NEW s \in Switchers, NEW id \in Workspaces, SwitchCall(s, id)
      PROVE  SwitchInv'
  <2>1. CASE lock = None
    BY <1>3, <1>4, <2>1 DEF SwitchCall, Running
  <2>2. CASE lock # None
    <3>1. /\ lock' = lock
          /\ switch' = [switch EXCEPT ![s] = [pc |-> "waiting", id |-> id, on |-> lock]]
          /\ ~Running(s)
      BY <1>4, <2>2 DEF SwitchCall, Running
    <3>2. SwitchType'
      BY <3>1 DEF SwitchInv, SwitchType, SwitchStates
    <3>3. \A r \in Switchers \ {s} : switch'[r] = switch[r]
      BY <3>1 DEF SwitchInv, SwitchType
    <3>4. switch'[s].on = lock
      BY <3>1 DEF SwitchInv, SwitchType
    <3>5. LockHasOwner'
      BY <3>1, <3>3 DEF SwitchInv, LockHasOwner, Running
    <3>6. WaiterHasSwitch'
      BY <2>2, <3>1, <3>3, <3>4 DEF SwitchInv, LockHasOwner, WaiterHasSwitch, Running
    <3> QED
      BY <3>2, <3>5, <3>6 DEF SwitchInv
  <2> QED
    BY <2>1, <2>2
<1>5. ASSUME NEW s \in Switchers, Resume(s)
      PROVE  SwitchInv'
  <2>1. CASE Begin(s, switch[s].id) /\ switch[s].id \in Workspaces
    BY <1>3, <1>5, <2>1 DEF Resume, Running
  <2>2. CASE switch' = [switch EXCEPT ![s] = IdleSwitch] /\ lock' = lock
    <3>1. SwitchType'
      BY <2>2 DEF SwitchInv, SwitchType, SwitchStates, IdleSwitch
    <3>2. LockHasOwner'
      BY <1>5, <2>2 DEF SwitchInv, SwitchType, LockHasOwner, Running, Resume
    <3>3. WaiterHasSwitch'
      BY <1>5, <2>2 DEF SwitchInv, SwitchType, WaiterHasSwitch, Running, Resume, IdleSwitch
    <3> QED
      BY <3>1, <3>2, <3>3 DEF SwitchInv
  <2> QED
    BY <1>5, <2>1, <2>2 DEF Resume, SwitchInv, SwitchType
<1>6. ASSUME NEW s \in Switchers, NEW keepLock \in BOOLEAN, Activate(s, keepLock)
      PROVE  SwitchInv'
  <2>1. SwitchType'
    BY <1>6 DEF SwitchInv, SwitchType, SwitchStates, Activate
  <2>2. LockHasOwner'
    BY <1>6 DEF SwitchInv, SwitchType, SwitchStates, LockHasOwner, Running, Activate
  <2>3. WaiterHasSwitch'
    BY <1>6 DEF SwitchInv, SwitchType, SwitchStates, WaiterHasSwitch, Running, Activate
  <2> QED
    BY <1>6, <2>1, <2>2, <2>3 DEF SwitchInv, Activate
<1>7. ASSUME NEW s \in Switchers, SwitchRefresh(s) \/ PrepareFails(s)
      PROVE  SwitchInv'
  <2>1. /\ lock' = lock
        /\ \E pc \in {"refreshing", "failed"} : switch' = [switch EXCEPT ![s].pc = pc]
        /\ Running(s)
    BY <1>7 DEF SwitchRefresh, PrepareFails, Running
  <2>2. SwitchType'
    BY <2>1 DEF SwitchInv, SwitchType, SwitchStates
  <2>3. LockHasOwner'
    BY <2>1 DEF SwitchInv, SwitchType, SwitchStates, LockHasOwner, Running
  <2>4. WaiterHasSwitch'
    BY <2>1 DEF SwitchInv, SwitchType, SwitchStates, WaiterHasSwitch, Running
  <2> QED
    BY <2>1, <2>2, <2>3, <2>4 DEF SwitchInv
<1>8. ASSUME NEW s \in Switchers, SwitchDone(s)
      PROVE  SwitchInv'
  <2>1. SwitchType'
    BY <1>8 DEF SwitchInv, SwitchType, SwitchStates, SwitchDone, Notified, IdleSwitch
  <2>2. \A r \in Switchers \ {s} : /\ switch'[r].id = switch[r].id
                                   /\ switch'[r].on = switch[r].on
                                   /\ Running(r) => Running(r)'
    BY <1>8 DEF SwitchInv, SwitchType, SwitchStates, SwitchDone, Notified, Running
  <2>3. \A r \in Switchers : switch'[r].pc = "waiting" =>
           r # s /\ switch[r].pc = "waiting" /\ switch[r].on # switch[s].id
    BY <1>8 DEF SwitchInv, SwitchType, SwitchStates, SwitchDone, Notified, IdleSwitch
  <2>4. LockHasOwner'
    BY <1>8, <2>2 DEF SwitchInv, LockHasOwner, SwitchDone
  <2>5. WaiterHasSwitch'
    BY <2>2, <2>3 DEF SwitchInv, WaiterHasSwitch
  <2> QED
    BY <2>1, <2>4, <2>5 DEF SwitchInv
<1> QED
  BY <1>1, <1>2, <1>4, <1>5, <1>6, <1>7, <1>8
  DEF Next, vars, RefreshStep, SwitchStep, Scan, Apply, ScanFails, AgentChange, AgentRefresh,
      switchVars

\* The invariant holds in every state.
LEMMA SwitchInvAlways == Spec => []SwitchInv
<1>1. SwitchInv /\ [Next]_vars => SwitchInv'
  BY SwitchInvStep
<1> QED
  BY <1>1, SwitchInvInit, PTL DEF Spec

\* The switching lock always has the caller that will release it, for any number of
\* callers, also when awaited calls throw and waits time out.
THEOREM SwitchSafety == Spec => []LockHasOwner
<1>1. SwitchInv => LockHasOwner
  BY DEF SwitchInv
<1> QED
  BY <1>1, SwitchInvAlways, PTL

\* Whoever waits for a switch waits for one that runs and will notify it.
THEOREM WaitersTheorem == Spec => []WaiterHasSwitch
<1>1. SwitchInv => WaiterHasSwitch
  BY DEF SwitchInv
<1> QED
  BY <1>1, SwitchInvAlways, PTL

-----------------------------------------------------------------------------
(* Types, and what is on display.                                            *)

\* What keeps the types: a call that is to switch has a target, a ledger that
\* was scanned has been seen.
Targets ==
  \A s \in Switchers :
    switch[s].pc \in {"waiting", "notified", "preparing"} => switch[s].id \in Workspaces
SeenLedger == flight # None /\ flight.pc = "scanned" => flight.seen \in Versions

TypeInv == TypeOK /\ Targets /\ SeenLedger

\* The callers of a flight wait for it, each once.
FlightCallers ==
  flight # None => \A s \in Switchers :
                     /\ s \in flight.waiters \cup {flight.owner} => switch[s].pc = "refreshing"
                     /\ s \in flight.waiters => s # flight.owner

\* A list of another workspace is on display only as long as a refresh that will
\* replace it is to come: a switch will ask for it, a flight for the active workspace
\* has not landed, or a flight will be run again.
ViewDue ==
  \/ failed \/ shown = None \/ shown.ws = active
  \/ \E s \in Switchers : switch[s].pc = "activated"
  \/ flight # None /\ (rerun \/ (flight.ws = active /\ flight.pc \in {"scanning", "scanned"}))

ViewInv == FlightCallers /\ ViewDue

\* A refresh asked for leaves a flight, with its caller in it, that will show the
\* active workspace.
LEMMA CallRefreshOK ==
  ASSUME TypeInv, NEW c \in Callers, CallRefresh(c)
  PROVE  /\ flight' \in Flights
         /\ flight'.pc = "scanned" => flight # None /\ flight'.seen = flight.seen
                                                    /\ flight.pc = "scanned"
         /\ rerun' \in BOOLEAN
         /\ asked' \in [Workspaces -> Versions]
         /\ rerun' \/ (flight'.ws = active /\ flight'.pc = "scanning")
         /\ flight'.waiters \cup {flight'.owner}
              \subseteq {c} \cup (IF flight = None THEN {} ELSE flight.waiters \cup {flight.owner})
<1>1. active \in Workspaces /\ asked' \in [Workspaces -> Versions]
  BY DEF TypeInv, TypeOK, CallRefresh
<1>2. CASE flight = None
  BY <1>1, <1>2 DEF CallRefresh, NewFlight, Flights, TypeInv, TypeOK
<1>3. CASE flight # None
  <2>1. flight \in Flights /\ flight' = [flight EXCEPT !.waiters = @ \cup {c}] /\ rerun' = TRUE
    BY <1>3 DEF CallRefresh, TypeInv, TypeOK, Flights
  <2> QED
    BY <1>1, <1>3, <2>1 DEF Flights
<1> QED
  BY <1>2, <1>3

\* Every step keeps the types.
LEMMA TypeInvStep == TypeInv /\ [Next]_vars => TypeInv'
<1> SUFFICES ASSUME TypeInv, [Next]_vars
             PROVE  TypeInv'
  OBVIOUS
<1> USE SwitchAssumption
<1>1. CASE UNCHANGED vars
  BY <1>1 DEF Flights, TypeInv, TypeOK, Targets, SeenLedger, vars
<1>2. CASE Scan
  <2>1. ledger[flight.ws] \in Versions
    BY <1>2 DEF Flights, TypeInv, TypeOK, Scan
  <2> QED
    BY <1>2, <2>1 DEF Flights, TypeInv, TypeOK, Targets, SeenLedger, Scan, switchVars
<1>3. CASE Apply
  BY <1>3 DEF Flights, TypeInv, TypeOK, Targets, SeenLedger, Apply, Displays, switchVars
<1>4. CASE ScanFails
  BY <1>4 DEF Flights, TypeInv, TypeOK, Targets, SeenLedger, ScanFails, switchVars
<1>5. CASE Land
  <2>1. flight' = None \/ (flight' \in Flights /\ flight'.pc = "scanning")
    BY <1>5 DEF Land, NewFlight, Flights, TypeInv, TypeOK
  <2>2. /\ switch' \in [Switchers -> SwitchStates]
        /\ agent' \in {"idle", "changed", "refreshing"}
        /\ Targets'
    BY <1>5 DEF Land, Released, TypeInv, TypeOK, Targets, SwitchStates
  <2> QED
    BY <1>5, <2>1, <2>2 DEF Land, TypeInv, TypeOK, SeenLedger, Flights, SwitchStates
<1>6. ASSUME NEW s \in Switchers, NEW id \in Workspaces, Begin(s, id),
             UNCHANGED <<active, flight, rerun, ledger, agent, asked>>, failed' \in BOOLEAN
      PROVE  TypeInv'
  BY <1>6 DEF Begin, TypeInv, TypeOK, Targets, SeenLedger
<1>7. ASSUME NEW s \in Switchers, NEW id \in Workspaces, SwitchCall(s, id)
      PROVE  TypeInv'
  <2>1. CASE lock = None
    BY <1>6, <1>7, <2>1 DEF SwitchCall, TypeInv, TypeOK
  <2>2. CASE lock # None
    BY <1>7, <2>2 DEF SwitchCall, TypeInv, TypeOK, Targets, SeenLedger
  <2> QED
    BY <2>1, <2>2
<1>8. ASSUME NEW s \in Switchers, Resume(s)
      PROVE  TypeInv'
  <2>1. switch[s].id \in Workspaces /\ failed' \in BOOLEAN
    BY <1>8 DEF Resume, TypeInv, TypeOK, Targets
  <2>2. CASE Begin(s, switch[s].id)
    BY <1>6, <1>8, <2>1, <2>2 DEF Resume
  <2>3. CASE switch' = [switch EXCEPT ![s] = IdleSwitch] /\ UNCHANGED <<lock, error, shown>>
    BY <1>8, <2>1, <2>3 DEF Resume, IdleSwitch, TypeInv, TypeOK, Targets, SeenLedger
  <2> QED
    BY <1>8, <2>2, <2>3 DEF Resume
<1>9. ASSUME NEW s \in Switchers, NEW keepLock \in BOOLEAN, Activate(s, keepLock)
      PROVE  TypeInv'
  BY <1>9 DEF Activate, TypeInv, TypeOK, Targets, SeenLedger
<1>10. ASSUME NEW s \in Switchers, SwitchRefresh(s)
       PROVE  TypeInv'
  <2>1. /\ flight' \in Flights
        /\ flight'.pc = "scanned" => flight # None /\ flight'.seen = flight.seen
                                                   /\ flight.pc = "scanned"
        /\ rerun' \in BOOLEAN
        /\ asked' \in [Workspaces -> Versions]
    BY <1>10, CallRefreshOK DEF SwitchRefresh, Callers
  <2> QED
    BY <1>10, <2>1 DEF SwitchRefresh, TypeInv, TypeOK, Targets, SeenLedger, Flights
<1>11. ASSUME NEW s \in Switchers, PrepareFails(s)
       PROVE  TypeInv'
  BY <1>11 DEF PrepareFails, refreshVars, TypeInv, TypeOK, Targets, SeenLedger
<1>12. ASSUME NEW s \in Switchers, SwitchDone(s)
       PROVE  TypeInv'
  <2>1. switch' \in [Switchers -> SwitchStates] /\ Targets'
    BY <1>12 DEF SwitchDone, Notified, IdleSwitch, TypeInv, TypeOK, Targets, SwitchStates
  <2> QED
    BY <1>12, <2>1 DEF SwitchDone, refreshVars, TypeInv, TypeOK, SeenLedger, SwitchStates
<1>13. ASSUME NEW w \in Workspaces, AgentChange(w)
       PROVE  TypeInv'
  <2>1. ledger' \in [Workspaces -> Versions]
    BY <1>13 DEF AgentChange, TypeInv, TypeOK, Versions
  <2> QED
    BY <1>13, <2>1
    DEF AgentChange, switchVars, refreshVars, TypeInv, TypeOK, Targets, SeenLedger
<1>14. CASE AgentRefresh
  <2>1. /\ flight' \in Flights
        /\ flight'.pc = "scanned" => flight # None /\ flight'.seen = flight.seen
                                                   /\ flight.pc = "scanned"
        /\ rerun' \in BOOLEAN
        /\ asked' \in [Workspaces -> Versions]
    BY <1>14, CallRefreshOK DEF AgentRefresh, Callers
  <2> QED
    BY <1>14, <2>1 DEF AgentRefresh, TypeInv, TypeOK, Targets, SeenLedger, Flights
<1> QED
  BY <1>1, <1>2, <1>3, <1>4, <1>5, <1>7, <1>8, <1>9, <1>10, <1>11, <1>12, <1>13, <1>14
  DEF Next, RefreshStep, SwitchStep

\* Every step keeps what is due on the display.
LEMMA ViewInvStep == TypeInv /\ ViewInv /\ [Next]_vars => ViewInv'
<1> SUFFICES ASSUME TypeInv, ViewInv, [Next]_vars
             PROVE  ViewInv'
  OBVIOUS
<1> USE SwitchAssumption DEF TypeInv, TypeOK, ViewInv
<1>1. CASE UNCHANGED vars
  BY <1>1 DEF Flights, FlightCallers, ViewDue, vars
<1>2. CASE Scan
  <2>1. /\ flight \in Flights
        /\ flight' = [flight EXCEPT !.seen = ledger[flight.ws], !.pc = "scanned"]
        /\ UNCHANGED <<active, shown, failed, switch, rerun>>
    BY <1>2 DEF Scan, switchVars
  <2>2. /\ flight'.owner = flight.owner /\ flight'.waiters = flight.waiters
        /\ flight'.ws = flight.ws /\ flight'.pc = "scanned"
    BY <2>1 DEF Flights
  <2>3. flight' # None
    <3>1. ledger[flight.ws] \in Versions
      BY <2>1 DEF Flights
    <3>2. flight' \in Flights
      BY <2>1, <3>1 DEF Flights
    <3> QED
      BY <3>2
  <2>4. FlightCallers'
    BY <1>2, <2>1, <2>2 DEF FlightCallers, Scan
  <2>5. ViewDue'
    BY <2>1, <2>2, <2>3 DEF ViewDue
  <2> QED
    BY <2>4, <2>5
<1>3. CASE Apply
  <2>1. FlightCallers'
    BY <1>3 DEF FlightCallers, Apply, switchVars
  <2>2. CASE active = flight.ws
    BY <1>3, <2>1, <2>2 DEF Flights, ViewDue, Apply, switchVars
  <2>3. CASE active # flight.ws
    BY <1>3, <2>1, <2>3 DEF Flights, ViewDue, Apply, switchVars
  <2> QED
    BY <2>1, <2>2, <2>3
<1>4. CASE ScanFails
  BY <1>4 DEF Flights, FlightCallers, ViewDue, ScanFails, switchVars
<1>5. CASE Land
  <2>1. \A s \in Switchers : switch[s].pc = "activated" => switch'[s].pc = "activated"
    BY <1>5 DEF Land, Released, FlightCallers
  <2>2. CASE rerun
    <3>1. flight' = NewFlight(flight.owner) /\ active' = active /\ flight' \in Flights
      BY <1>5, <2>2 DEF Land, NewFlight, Flights
    <3>2. ViewDue'
      BY <3>1 DEF ViewDue, NewFlight
    <3>3. FlightCallers'
      BY <1>5, <2>2, <3>1 DEF FlightCallers, Land, Released, NewFlight
    <3> QED
      BY <3>2, <3>3
  <2>3. CASE ~rerun
    <3>1. flight' = None /\ UNCHANGED <<shown, active, failed>>
      BY <1>5, <2>3 DEF Land
    <3>2. ViewDue'
      BY <1>5, <2>1, <2>3, <3>1 DEF Flights, ViewDue, Land
    <3> QED
      BY <3>1, <3>2 DEF FlightCallers
  <2> QED
    BY <2>2, <2>3
<1>6. ASSUME NEW s \in Switchers, NEW id \in Workspaces, Begin(s, id),
             switch[s].pc \notin {"refreshing", "activated"},
             UNCHANGED <<active, flight, rerun>>
      PROVE  ViewInv'
  BY <1>6 DEF Begin, FlightCallers, ViewDue
<1>7. ASSUME NEW s \in Switchers, NEW x, switch' = [switch EXCEPT ![s] = x],
             switch[s].pc \notin {"refreshing", "activated"},
             UNCHANGED <<active, shown, flight, rerun>>, failed => failed'
      PROVE  ViewInv'
  BY <1>7 DEF Flights, FlightCallers, ViewDue
<1>8. ASSUME NEW s \in Switchers, NEW id \in Workspaces, SwitchCall(s, id)
      PROVE  ViewInv'
  <2>1. CASE lock = None
    BY <1>6, <1>8, <2>1 DEF SwitchCall
  <2>2. CASE lock # None
    BY <1>7, <1>8, <2>2 DEF SwitchCall
  <2> QED
    BY <2>1, <2>2
<1>9. ASSUME NEW s \in Switchers, Resume(s)
      PROVE  ViewInv'
  <2>1. switch[s].id \in Workspaces /\ (failed => failed')
    BY <1>9 DEF Resume, Targets
  <2>2. CASE Begin(s, switch[s].id)
    BY <1>6, <1>9, <2>1, <2>2 DEF Resume
  <2>3. CASE switch' = [switch EXCEPT ![s] = IdleSwitch] /\ UNCHANGED <<lock, error, shown>>
    BY <1>7, <1>9, <2>1, <2>3 DEF Resume
  <2> QED
    BY <1>9, <2>2, <2>3 DEF Resume
<1>10. ASSUME NEW s \in Switchers, NEW keepLock \in BOOLEAN, Activate(s, keepLock)
       PROVE  ViewInv'
  <2>1. switch'[s].pc = "activated"
    BY <1>10 DEF Activate
  <2>2. FlightCallers'
    BY <1>10 DEF Activate, FlightCallers
  <2> QED
    BY <2>1, <2>2 DEF Flights, ViewDue
<1>11. ASSUME NEW c \in Callers, CallRefresh(c), UNCHANGED <<active, shown, failed>>,
              c \in Switchers => /\ switch[c].pc = "activated"
                                 /\ switch' = [switch EXCEPT ![c].pc = "refreshing"],
              c \notin Switchers => switch' = switch
       PROVE  ViewInv'
  <2>1. /\ flight' \in Flights
        /\ rerun' \/ (flight'.ws = active /\ flight'.pc = "scanning")
        /\ flight'.waiters \cup {flight'.owner}
             \subseteq {c} \cup (IF flight = None THEN {} ELSE flight.waiters \cup {flight.owner})
    BY <1>11, CallRefreshOK
  <2>2. ViewDue'
    BY <1>11, <2>1 DEF ViewDue
  <2>3. CASE flight = None
    <3>1. flight'.waiters = {} /\ flight'.owner = c
      BY <1>11, <2>3 DEF CallRefresh, NewFlight
    <3>2. c \in Switchers => switch'[c].pc = "refreshing"
      BY <1>11
    <3> QED
      BY <2>2, <3>1, <3>2 DEF FlightCallers
  <2>4. CASE flight # None
    <3>1. /\ flight'.owner = flight.owner
          /\ flight'.waiters = flight.waiters \cup {c}
      BY <1>11, <2>4 DEF CallRefresh, Flights
    <3>2. \A s \in Switchers : switch[s].pc = "refreshing" => switch'[s].pc = "refreshing"
      BY <1>11
    <3>3. c \in Switchers => switch'[c].pc = "refreshing" /\ c # flight.owner
      BY <1>11, <2>4 DEF FlightCallers
    <3> QED
      BY <2>2, <2>4, <3>1, <3>2, <3>3 DEF FlightCallers
  <2> QED
    BY <2>2, <2>3, <2>4
<1>12. ASSUME NEW s \in Switchers, SwitchRefresh(s)
       PROVE  ViewInv'
  BY <1>11, <1>12 DEF SwitchRefresh, Callers
<1>13. ASSUME NEW s \in Switchers, PrepareFails(s)
       PROVE  ViewInv'
  BY <1>13 DEF PrepareFails, refreshVars, FlightCallers, ViewDue
<1>14. ASSUME NEW s \in Switchers, SwitchDone(s)
       PROVE  ViewInv'
  <2>1. \A r \in Switchers : switch[r].pc \in {"refreshing", "activated"}
                               => switch'[r].pc = switch[r].pc
    BY <1>14 DEF SwitchDone, Notified
  <2> QED
    BY <1>14, <2>1 DEF SwitchDone, refreshVars, FlightCallers, ViewDue
<1>15. ASSUME NEW w \in Workspaces, AgentChange(w)
       PROVE  ViewInv'
  BY <1>15 DEF AgentChange, switchVars, refreshVars, FlightCallers, ViewDue
<1>16. CASE AgentRefresh
  BY <1>11, <1>16 DEF AgentRefresh, Callers
<1> QED
  BY <1>1, <1>2, <1>3, <1>4, <1>5, <1>8, <1>9, <1>10, <1>12, <1>13, <1>14, <1>15, <1>16
  DEF Next, RefreshStep, SwitchStep

\* The types and the view hold in the initial state.
LEMMA ViewInvInit == Init => TypeInv /\ ViewInv
<1> SUFFICES ASSUME Init
             PROVE  TypeInv /\ ViewInv
  OBVIOUS
<1>1. /\ ledger \in [Workspaces -> Versions] /\ asked \in [Workspaces -> Versions]
      /\ switch \in [Switchers -> SwitchStates]
  BY SwitchAssumption DEF Init, Versions, SwitchStates, IdleSwitch
<1>2. TypeInv
  BY <1>1 DEF Init, TypeInv, TypeOK, Targets, SeenLedger, SwitchStates, IdleSwitch
<1>3. ViewInv
  BY DEF Init, ViewInv, FlightCallers, ViewDue
<1> QED
  BY <1>2, <1>3

\* Every variable keeps its type, for any callers, workspaces and failures.
THEOREM SwitchTypeOK == Spec => []TypeOK
<1>1. TypeInv => TypeOK
  BY DEF TypeInv
<1> QED
  BY <1>1, ViewInvInit, TypeInvStep, PTL DEF Spec

\* Once no switch and no refresh is under way the list on display is the active
\* workspace's, unless something has thrown: for any number of callers, although
\* flights are joined by switches to other workspaces.
THEOREM ViewTheorem == Spec => []SettledViewIsActive
<1>1. ViewInv => SettledViewIsActive
  BY DEF ViewInv, ViewDue, SettledViewIsActive, Running
<1> QED
  BY <1>1, ViewInvInit, TypeInvStep, ViewInvStep, PTL DEF Spec
=============================================================================
