------------------------------ MODULE MCSwitch ------------------------------
(* The module TLC runs for WorkspaceSwitch; its constants are in the .cfg     *)
(* files.                                                                     *)
EXTENDS WorkspaceSwitch
=============================================================================
