---------------------------- MODULE GateRegistry ----------------------------
(***************************************************************************)
(* Gate implements UserRegistry.  What a process has in its stream buffer  *)
(* or in memory is its copy; what is written and not yet flushed is due.   *)
(* A stream of FileDB::create owes the bare struct from its fopen on.      *)
(***************************************************************************)
EXTENDS Gate

ASSUME NoneIsNoRecord ==
    \A f \in Files, doc \in Docs : [db |-> f, doc |-> doc] # None

CopyOf(s) ==
    IF s.got \notin {None, Empty} THEN [db |-> s.db, doc |-> s.got]
    ELSE IF s.pre # None THEN [db |-> s.db, doc |-> s.pre]
    ELSE None

DueOf(s) ==
    IF s.out # None THEN [db |-> s.db, doc |-> s.out]
    ELSE IF s.mode = "wb" THEN [db |-> s.db, doc |-> Bare]
    ELSE None

Registry == INSTANCE UserRegistry WITH
    Names   <- Ids,
    Expires <- 0 .. MaxTime + Life,
    value   <- file,
    copy    <- [p \in Procs |-> CopyOf(stream[p])],
    due     <- [p \in Procs |-> DueOf(stream[p])]

(***************************************************************************)
(* Whatever sessions overlap, wait, fail or die: a database only ever      *)
(* changes to the empty array, the bare struct of its creation, or one     *)
(* update of a document that it really held at an earlier moment, and is   *)
(* unreadable only from a write to its flush (update_db, update_shadow_db, *)
(* create_db and the purges against FileDB).                               *)
(***************************************************************************)
ImplementsRegistry == Registry!RegSpec

=============================================================================
