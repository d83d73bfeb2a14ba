--------------------------- MODULE MCAuthorization ---------------------------
(* The module TLC runs for ToolAuthorization: two runs of one conversation, an *)
(* agent and its sub-agent, and one of another conversation.                  *)
EXTENDS ToolAuthorization, TLC

CONSTANTS c1, c2, c3, r1, r2, r3, a, b

MCRunOf == [c \in Calls |-> CASE c = c1 -> r1 [] c = c2 -> r2 [] OTHER -> r3]
MCConvOf == [r \in Runs |-> IF r = r3 THEN b ELSE a]
MCSubs == {r2}
MCKindsOf == [c \in Calls |-> CASE c = c1 -> {"sync", "exec", "call"}
                                  [] c = c2 -> {"exec"}
                                  [] OTHER -> {"page"}]
=============================================================================
