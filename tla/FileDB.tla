------------------------------- MODULE FileDB -------------------------------
(***************************************************************************)
(* The database files of llx-gva-gate and the class FileDB that reads and  *)
(* writes them (lib/filedb.cpp), used through the scope class AutoLock     *)
(* (lib/filedb.hpp).                                                       *)
(*                                                                         *)
(* A file is opened as a C stream, locked with flock, read or rewritten,   *)
(* unlocked and closed, in this order.  The stream has a buffer, and the   *)
(* buffer is what makes the order matter:                                  *)
(*   - FileDB::open reads the 4-byte header before any lock is taken.  A   *)
(*     document smaller than one buffer is then entirely in the buffer,    *)
(*     and FileDB::read delivers it from there after the lock is granted;  *)
(*   - FileDB::write truncates the file at once, but what it writes stays  *)
(*     in the buffer until fclose, and ~AutoLock unlocks before it closes. *)
(*                                                                         *)
(* Bound: every document fits in one stream buffer (4096 bytes in glibc).  *)
(* A document is opaque here; a file holds a whole document or, between a  *)
(* truncation and the matching fclose, nothing.                            *)
(***************************************************************************)

CONSTANTS
    Procs,   \* processes that use the library (pam module, command, nss)
    Files,   \* the database files
    Docs,    \* what a file can hold once it is written
    Absent,  \* the path does not exist
    Empty,   \* the file exists and has no complete document
    None     \* no database, no document

ASSUME DistinctContents ==
    /\ Absent \notin Docs /\ Empty \notin Docs /\ None \notin Docs
    /\ Absent # Empty /\ Absent # None /\ Empty # None
    /\ None \notin Files

VARIABLES
    file,    \* file[f]: contents of file f
    stream,  \* stream[p]: the one FileDB process p has open, if any
    lost     \* lost[f]: history, a process died between truncating f and
             \* flushing it, and no document has reached f since

dbvars == <<file, stream, lost>>

\* A stream.  A lock belongs to its open file, so it is part of the stream.
StreamAt == {"closed", "opened", "shared", "exclusive", "unlocked"}

Streams ==
    [db   : Files \cup {None},
     mode : {"r", "r+", "wb"},
     at   : StreamAt,
     pre  : Docs \cup {None},          \* in the buffer since before the lock
     got  : Docs \cup {None, Empty},   \* what FileDB::read delivered
     out  : Docs \cup {None}]          \* written, still in the buffer

NoStream ==
    [db |-> None, mode |-> "r", at |-> "closed",
     pre |-> None, got |-> None, out |-> None]

-----------------------------------------------------------------------------
\* Mutant: nobody looks whether fopen found the file.
exists_unchecked(f) == TRUE

\* FileDB::exists
exists(f) == file[f] # Absent

\* Mutant: flock is not called, or its result is ignored.
NeverHeld(p, modes) == FALSE

\* Another process's stream q on p's file has the lock in one of the modes.
HeldByOther(p, modes) ==
    \E q \in Procs \ {p} :
        stream[q].db = stream[p].db /\ stream[q].at \in modes

\* What FileDB::read delivers: the buffer if it was filled at open, otherwise
\* the file at the moment of the read.
Contents(p) ==
    IF stream[p].pre # None THEN stream[p].pre ELSE file[stream[p].db]

\* p's stream will put a document into f: it has written one that is still
\* buffered, or it is FileDB::create's stream on its way to the first write.
Owes(p, f) ==
    /\ stream[p].db = f
    /\ stream[p].out # None \/ stream[p].mode = "wb"

-----------------------------------------------------------------------------
\* FileDB::open for mode "r" and "r+".  Reading the header fills the buffer.
open(p, f, mode) ==
    /\ stream[p].at = "closed"
    /\ exists(f)
    /\ stream' = [stream EXCEPT ![p] =
          [NoStream EXCEPT !.db = f, !.mode = mode, !.at = "opened",
                           !.pre = IF file[f] = Empty THEN None ELSE file[f]]]
    /\ UNCHANGED <<file, lost>>

\* FileDB::create up to its lock: fopen in mode "wb" truncates or creates.
create(p, f) ==
    /\ stream[p].at = "closed"
    /\ file' = [file EXCEPT ![f] = Empty]
    /\ stream' = [stream EXCEPT ![p] =
          [NoStream EXCEPT !.db = f, !.mode = "wb", !.at = "opened"]]
    /\ UNCHANGED lost

\* flock LOCK_SH
lock_read(p) ==
    /\ stream[p].at = "opened" /\ stream[p].mode = "r"
    /\ ~HeldByOther(p, {"exclusive"})
    /\ stream' = [stream EXCEPT ![p].at = "shared"]
    /\ UNCHANGED <<file, lost>>

\* flock LOCK_EX
lock_write(p) ==
    /\ stream[p].at = "opened" /\ stream[p].mode # "r"
    /\ ~HeldByOther(p, {"shared", "exclusive"})
    /\ stream' = [stream EXCEPT ![p].at = "exclusive"]
    /\ UNCHANGED <<file, lost>>

\* FileDB::read; got = Empty stands for the exception "Expected struct".
read(p) ==
    /\ stream[p].at \in {"shared", "exclusive"} /\ stream[p].mode # "wb"
    /\ stream[p].got = None /\ stream[p].out = None
    /\ stream' = [stream EXCEPT ![p].got = Contents(p)]
    /\ UNCHANGED <<file, lost>>

\* FileDB::write: ftruncate now, the document into the buffer.
write(p, doc) ==
    /\ stream[p].at = "exclusive"
    /\ stream[p].got # Empty /\ stream[p].out = None
    /\ file' = [file EXCEPT ![stream[p].db] = Empty]
    /\ stream' = [stream EXCEPT ![p].out = doc]
    /\ UNCHANGED lost

\* FileDB::unlock
unlock(p) ==
    /\ stream[p].at \in {"shared", "exclusive"}
    /\ stream[p].mode = "wb" => stream[p].out # None
    /\ stream' = [stream EXCEPT ![p].at = "unlocked"]
    /\ UNCHANGED <<file, lost>>

\* Mutant: the descriptor is closed under the stream, the buffer is dropped.
close_unflushed(p) ==
    /\ stream[p].at = "unlocked"
    /\ stream' = [stream EXCEPT ![p] = NoStream]
    /\ UNCHANGED <<file, lost>>

\* FileDB::close: fclose flushes the buffer.
close(p) ==
    LET s == stream[p] IN
    /\ s.at = "unlocked"
    /\ file' = IF s.out = None THEN file ELSE [file EXCEPT ![s.db] = s.out]
    /\ lost' = IF s.out = None THEN lost ELSE [lost EXCEPT ![s.db] = FALSE]
    /\ stream' = [stream EXCEPT ![p] = NoStream]

\* The process dies: the kernel closes its files and the buffer is gone.
kill(p) ==
    /\ stream[p].at # "closed"
    /\ lost' = [f \in Files |-> lost[f] \/ Owes(p, f)]
    /\ stream' = [stream EXCEPT ![p] = NoStream]
    /\ UNCHANGED file

-----------------------------------------------------------------------------
(***************************************************************************)
(* The most general client: any process runs any AutoLock scope, and a     *)
(* write scope may write any document.                                     *)
(***************************************************************************)
DBInit ==
    /\ file \in [Files -> Docs \cup {Absent}]
    /\ stream = [p \in Procs |-> NoStream]
    /\ lost = [f \in Files |-> FALSE]

Scope(p) ==
    \/ lock_read(p)
    \/ lock_write(p)
    \/ read(p)
    \/ \E doc \in Docs : write(p, doc)
    \/ unlock(p)
    \/ close(p)

DBNext ==
    \E p \in Procs :
        \/ \E f \in Files, mode \in {"r", "r+"} : open(p, f, mode)
        \/ \E f \in Files : create(p, f)
        \/ Scope(p)
        \/ kill(p)

DBSpec == DBInit /\ [][DBNext]_dbvars

\* A process that has written goes on to unlock and close its file: between
\* those calls it waits for nobody.
FairDBSpec == DBSpec /\ \A p \in Procs : WF_dbvars(unlock(p) \/ close(p))

-----------------------------------------------------------------------------
\* Type invariant.
DBTypeOK ==
    /\ file \in [Files -> Docs \cup {Absent, Empty}]
    /\ stream \in [Procs -> Streams]
    /\ lost \in [Files -> BOOLEAN]

(***************************************************************************)
(* A file without a document is always about to get one: some stream still *)
(* owes it a document, unless a process died between ftruncate and fclose. *)
(* The window lasts from FileDB::write or the fopen of FileDB::create to   *)
(* fclose, and several processes can be in it at once.                     *)
(***************************************************************************)
EmptyFileIsOwed ==
    \A f \in Files :
        file[f] = Empty => lost[f] \/ \E p \in Procs : Owes(p, f)

(***************************************************************************)
(* FileDB::read under a lock fails only in two windows the lock does not   *)
(* cover: a writer has unlocked and not yet closed, or a creator has       *)
(* truncated and not yet locked (or a process died in between).  No reader *)
(* ever fails because of a writer that still has the lock.                 *)
(***************************************************************************)
InUnlockedWindow(q, f) ==
    Owes(q, f) /\ stream[q].at \in {"opened", "unlocked"}

FailedReadIsInUnlockedWindow ==
    [][\A p \in Procs :
          stream[p].got = None /\ stream'[p].got = Empty
            => \/ lost[stream[p].db]
               \/ \E q \in Procs \ {p} : InUnlockedWindow(q, stream[p].db)]_dbvars

(***************************************************************************)
(* A file that was truncated for a new document has one again in the end,  *)
(* that of this process or of a later one, unless some process died with   *)
(* its document: the buffer of a scope is not forgotten (write, close).    *)
(***************************************************************************)
WrittenIsFlushed ==
    \A f \in Files, p \in Procs :
        (stream[p].db = f /\ stream[p].out # None)
            ~> (file[f] \in Docs \/ lost[f])

(***************************************************************************)
(* "FileDB read: Expected struct" is the error of a file that is not a     *)
(* database.  As long as nobody dies, every read under a lock of a file    *)
(* that exists should find a document.                                     *)
(***************************************************************************)
LockedReadFindsStruct ==
    \A p \in Procs : stream[p].got = Empty => \E f \in Files : lost[f]

=============================================================================
