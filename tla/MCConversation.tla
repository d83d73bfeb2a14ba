--------------------------- MODULE MCConversation ---------------------------
(* The module TLC runs for ConversationRun; its constants are in the .cfg      *)
(* files.                                                                     *)
EXTENDS ConversationRun
=============================================================================
