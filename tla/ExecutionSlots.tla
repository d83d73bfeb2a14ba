--------------------------- MODULE ExecutionSlots ---------------------------
(***************************************************************************)
(* What the sub-agent runtime promises about its execution slots,          *)
(* whatever its counter and its list of resolvers do: never more than Max  *)
(* tasks hold a slot, a task waits only while all of them are taken, those *)
(* that wait are served in the order they came, and whoever holds a slot   *)
(* gives it back.                                                          *)
(***************************************************************************)
EXTENDS Naturals, Sequences, FiniteSets

CONSTANTS Tasks,  \* the tasks that may ask for a slot
          Max     \* how many may hold one

VARIABLES holders,  \* the tasks that hold a slot
          line      \* those that wait for one, in the order they asked

slotVars == <<holders, line>>

Init == /\ holders = {}
        /\ line = <<>>

\* A task asks for a slot and gets a free one, or stands in line.
Ask(t) == /\ t \notin holders
          /\ \A i \in DOMAIN line : line[i] # t
          /\ \/ /\ Cardinality(holders) < Max
                /\ holders' = holders \cup {t}
                /\ line' = line
             \/ /\ Cardinality(holders) = Max
                /\ holders' = holders
                /\ line' = Append(line, t)

\* A slot is given back: the first in line has it at once.
GiveBack(t) == /\ t \in holders
               /\ \/ /\ line = <<>>
                     /\ holders' = holders \ {t}
                     /\ line' = line
                  \/ /\ line # <<>>
                     /\ holders' = (holders \ {t}) \cup {Head(line)}
                     /\ line' = Tail(line)

\* The page is gone, and everybody with it.
Reset == /\ holders' = {}
         /\ line' = <<>>

Next == Reset \/ \E t \in Tasks : Ask(t) \/ GiveBack(t)

\* The safety part, and with the fairness of those that hold a slot.
Safe == Init /\ [][Next]_slotVars
Spec == Safe /\ \A t \in Tasks : WF_slotVars(GiveBack(t))
=============================================================================
