------------------------------ MODULE MCFileDB ------------------------------
(***************************************************************************)
(* FileDB for TLC: up to three processes on one file, no bound on the      *)
(* number of scopes.                                                       *)
(***************************************************************************)
EXTENDS FileDB

=============================================================================
