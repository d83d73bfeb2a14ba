----------------------------- MODULE MCSubagent -----------------------------
(* The module TLC runs for SubagentRuntime; its constants are in the .cfg      *)
(* files.                                                                     *)
EXTENDS SubagentRuntime, TLC
=============================================================================
