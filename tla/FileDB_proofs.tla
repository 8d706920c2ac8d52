---------------------------- MODULE FileDB_proofs ----------------------------
(***************************************************************************)
(* Proofs about FileDB, for any number of processes, files and documents.  *)
(***************************************************************************)
EXTENDS FileDB, TLAPS

\* A closed stream is blank; an open one is on a file that exists.
StreamsAreOnFiles ==
    \A p \in Procs :
        IF stream[p].at = "closed" THEN stream[p] = NoStream
        ELSE stream[p].db \in Files /\ file[stream[p].db] # Absent

\* Who has written has taken the exclusive lock, and a creator does not give
\* it back before it has written.
WritersLock ==
    \A p \in Procs :
        /\ stream[p].at = "shared" => stream[p].mode = "r"
        /\ stream[p].at = "exclusive" => stream[p].mode # "r"
        /\ stream[p].out # None =>
              stream[p].mode # "r" /\ stream[p].at \in {"exclusive", "unlocked"}
        /\ stream[p].mode = "wb" /\ stream[p].at = "unlocked" =>
              stream[p].out # None

\* flock: an exclusive lock on a file is the only lock on it.
LocksExclude ==
    \A p, q \in Procs :
        p # q /\ stream[p].at = "exclusive" /\ stream[q].at \in {"shared", "exclusive"}
            => stream[p].db # stream[q].db

IInv ==
    /\ DBTypeOK
    /\ StreamsAreOnFiles
    /\ WritersLock
    /\ LocksExclude
    /\ EmptyFileIsOwed

\* NoStream is a stream.
LEMMA NoStreamType == NoStream \in Streams
BY DEF NoStream, Streams, StreamAt

\* What a read delivers is a document or nothing, never the absence of a file.
LEMMA ContentsType ==
    ASSUME IInv, NEW p \in Procs, stream[p].at # "closed"
    PROVE  Contents(p) \in Docs \cup {Empty}
BY DistinctContents DEF IInv, DBTypeOK, StreamsAreOnFiles, Contents, Streams

LEMMA InitIInv == DBInit => IInv
<1> SUFFICES ASSUME DBInit PROVE IInv
  OBVIOUS
<1>1. DBTypeOK
  BY NoStreamType DEF DBInit, DBTypeOK
<1>2. StreamsAreOnFiles /\ WritersLock /\ LocksExclude
  BY DEF DBInit, StreamsAreOnFiles, WritersLock, LocksExclude, NoStream
<1>3. EmptyFileIsOwed
  BY DistinctContents DEF DBInit, EmptyFileIsOwed
<1> QED
  BY <1>1, <1>2, <1>3 DEF IInv

\* Each action preserves the invariant.
LEMMA OpenIInv ==
    ASSUME IInv, NEW p \in Procs, NEW f \in Files, NEW mode \in {"r", "r+"},
           open(p, f, mode)
    PROVE  IInv'
<1> USE DistinctContents DEF IInv, DBTypeOK, open, exists, NoStream
<1>1. DBTypeOK'
  BY DEF Streams, StreamAt
<1>2. StreamsAreOnFiles'
  BY DEF StreamsAreOnFiles, Streams
<1>3. WritersLock'
  BY DEF WritersLock, Streams
<1>4. LocksExclude'
  BY DEF LocksExclude, Streams
<1>5. EmptyFileIsOwed'
  BY DEF EmptyFileIsOwed, Owes, StreamsAreOnFiles, Streams
<1> QED
  BY <1>1, <1>2, <1>3, <1>4, <1>5

LEMMA CreateIInv ==
    ASSUME IInv, NEW p \in Procs, NEW f \in Files, create(p, f)
    PROVE  IInv'
<1> USE DistinctContents DEF IInv, DBTypeOK, create, NoStream
<1>1. DBTypeOK'
  BY DEF Streams, StreamAt
<1>2. StreamsAreOnFiles'
  BY DEF StreamsAreOnFiles, Streams
<1>3. WritersLock'
  BY DEF WritersLock, Streams
<1>4. LocksExclude'
  BY DEF LocksExclude, Streams
<1>5. EmptyFileIsOwed'
  BY DEF EmptyFileIsOwed, Owes, StreamsAreOnFiles, Streams
<1> QED
  BY <1>1, <1>2, <1>3, <1>4, <1>5

LEMMA LockIInv ==
    ASSUME IInv, NEW p \in Procs, lock_read(p) \/ lock_write(p)
    PROVE  IInv'
<1> USE DEF IInv, DBTypeOK, lock_read, lock_write, HeldByOther
<1>1. DBTypeOK'
  BY DEF Streams, StreamAt
<1>2. StreamsAreOnFiles'
  BY DEF StreamsAreOnFiles, Streams
<1>3. WritersLock'
  BY DEF WritersLock, Streams
<1>4. LocksExclude'
  BY DEF LocksExclude, Streams
<1>5. EmptyFileIsOwed'
  BY DEF EmptyFileIsOwed, Owes, Streams
<1> QED
  BY <1>1, <1>2, <1>3, <1>4, <1>5

LEMMA ReadIInv ==
    ASSUME IInv, NEW p \in Procs, read(p)
    PROVE  IInv'
<1>0. Contents(p) \in Docs \cup {Empty}
  BY ContentsType DEF read
<1> USE <1>0 DEF IInv, DBTypeOK, read
<1>1. DBTypeOK'
  BY DEF Streams, StreamAt
<1>2. StreamsAreOnFiles'
  BY DEF StreamsAreOnFiles, Streams
<1>3. WritersLock'
  BY DEF WritersLock, Streams
<1>4. LocksExclude'
  BY DEF LocksExclude, Streams
<1>5. EmptyFileIsOwed'
  BY DEF EmptyFileIsOwed, Owes, Streams
<1> QED
  BY <1>1, <1>2, <1>3, <1>4, <1>5

LEMMA WriteIInv ==
    ASSUME IInv, NEW p \in Procs, NEW doc \in Docs, write(p, doc)
    PROVE  IInv'
<1> USE DistinctContents DEF IInv, DBTypeOK, write
<1>1. DBTypeOK'
  <2>1. stream[p].db \in Files
    BY DEF StreamsAreOnFiles
  <2>2. file' \in [Files -> Docs \cup {Absent, Empty}]
    BY <2>1
  <2>3. stream' \in [Procs -> Streams]
    BY DEF Streams, StreamAt
  <2> QED
    BY <2>2, <2>3
<1>2. StreamsAreOnFiles'
  BY DEF StreamsAreOnFiles, Streams
<1>3. WritersLock'
  BY DEF WritersLock, Streams
<1>4. LocksExclude'
  BY DEF LocksExclude, Streams
<1>5. EmptyFileIsOwed'
  BY DEF EmptyFileIsOwed, Owes, Streams
<1> QED
  BY <1>1, <1>2, <1>3, <1>4, <1>5

LEMMA UnlockIInv ==
    ASSUME IInv, NEW p \in Procs, unlock(p)
    PROVE  IInv'
<1> USE DEF IInv, DBTypeOK, unlock
<1>1. DBTypeOK'
  BY DEF Streams, StreamAt
<1>2. StreamsAreOnFiles'
  BY DEF StreamsAreOnFiles, Streams
<1>3. WritersLock'
  BY DEF WritersLock, Streams
<1>4. LocksExclude'
  BY DEF LocksExclude, Streams
<1>5. EmptyFileIsOwed'
  BY DEF EmptyFileIsOwed, Owes, Streams
<1> QED
  BY <1>1, <1>2, <1>3, <1>4, <1>5

LEMMA CloseIInv ==
    ASSUME IInv, NEW p \in Procs, close(p)
    PROVE  IInv'
<1> USE DistinctContents DEF IInv, DBTypeOK, close, NoStream
<1>1. DBTypeOK'
  BY DEF Streams, StreamAt
<1>2. StreamsAreOnFiles'
  BY DEF StreamsAreOnFiles, Streams
<1>3. WritersLock'
  BY DEF WritersLock, Streams
<1>4. LocksExclude'
  BY DEF LocksExclude, Streams
<1>5. EmptyFileIsOwed'
  BY DEF EmptyFileIsOwed, Owes, WritersLock, Streams
<1> QED
  BY <1>1, <1>2, <1>3, <1>4, <1>5

LEMMA KillIInv ==
    ASSUME IInv, NEW p \in Procs, kill(p)
    PROVE  IInv'
<1> USE DEF IInv, DBTypeOK, kill, NoStream
<1>1. DBTypeOK'
  BY DEF Streams, StreamAt, Owes
<1>2. StreamsAreOnFiles'
  BY DEF StreamsAreOnFiles, Streams
<1>3. WritersLock'
  BY DEF WritersLock, Streams
<1>4. LocksExclude'
  BY DEF LocksExclude, Streams
<1>5. EmptyFileIsOwed'
  <2> SUFFICES ASSUME NEW f \in Files, file[f] = Empty, ~lost'[f]
               PROVE  \E q \in Procs : Owes(q, f)'
    BY DEF EmptyFileIsOwed
  <2>1. ~lost[f] /\ ~Owes(p, f)
    OBVIOUS
  <2>2. PICK q \in Procs : Owes(q, f)
    BY <2>1 DEF EmptyFileIsOwed
  <2>3. Owes(q, f)'
    BY <2>1, <2>2 DEF Owes
  <2> QED
    BY <2>3
<1> QED
  BY <1>1, <1>2, <1>3, <1>4, <1>5

LEMMA NextIInv == IInv /\ [DBNext]_dbvars => IInv'
<1> SUFFICES ASSUME IInv, [DBNext]_dbvars PROVE IInv'
  OBVIOUS
<1>1. CASE DBNext
  BY <1>1, OpenIInv, CreateIInv, LockIInv, ReadIInv, WriteIInv, UnlockIInv,
     CloseIInv, KillIInv, Zenon DEF DBNext, Scope
<1>2. CASE UNCHANGED dbvars
  BY <1>2 DEF dbvars, IInv, DBTypeOK, StreamsAreOnFiles, WritersLock,
              LocksExclude, EmptyFileIsOwed, Owes
<1> QED
  BY <1>1, <1>2

(***************************************************************************)
(* What each step leaves behind, for every run of the most general client. *)
(***************************************************************************)
THEOREM Invariance == DBSpec => []IInv
<1>1. DBInit => IInv
  BY InitIInv
<1>2. IInv /\ [DBNext]_dbvars => IInv'
  BY NextIInv
<1> QED
  BY <1>1, <1>2, PTL DEF DBSpec

\* Type correctness.
THEOREM TypeCorrect == DBSpec => []DBTypeOK
<1>1. IInv => DBTypeOK
  BY DEF IInv
<1> QED
  BY <1>1, Invariance, PTL

(***************************************************************************)
(* flock as FileDB uses it: while a scope has the exclusive lock nobody    *)
(* else has a lock on that file.                                           *)
(***************************************************************************)
THEOREM MutualExclusion == DBSpec => []LocksExclude
<1>1. IInv => LocksExclude
  BY DEF IInv
<1> QED
  BY <1>1, Invariance, PTL

(***************************************************************************)
(* A file without a document is about to get one, or a process died        *)
(* between truncating and flushing it.                                     *)
(***************************************************************************)
THEOREM EmptyIsOwed == DBSpec => []EmptyFileIsOwed
<1>1. IInv => EmptyFileIsOwed
  BY DEF IInv
<1> QED
  BY <1>1, Invariance, PTL

(***************************************************************************)
(* A read that finds no document is in one of the two windows the lock     *)
(* does not cover.                                                         *)
(***************************************************************************)
LEMMA FailedReadStep ==
    ASSUME IInv, DBNext, NEW p \in Procs,
           stream[p].got = None, stream'[p].got = Empty
    PROVE  \/ lost[stream[p].db]
           \/ \E q \in Procs \ {p} : InUnlockedWindow(q, stream[p].db)
<1>1. read(p)
  <2> USE DistinctContents DEF IInv, DBTypeOK, Streams
  <2>1. PICK r \in Procs :
           \/ \E f \in Files, mode \in {"r", "r+"} : open(r, f, mode)
           \/ \E f \in Files : create(r, f)
           \/ Scope(r)
           \/ kill(r)
    BY DEF DBNext
  <2>2. ASSUME NEW f \in Files, NEW mode \in {"r", "r+"}, open(r, f, mode)
        PROVE  FALSE
    BY <2>2 DEF open, NoStream
  <2>3. ASSUME NEW f \in Files, create(r, f) PROVE FALSE
    BY <2>3 DEF create, NoStream
  <2>4. ASSUME kill(r) \/ close(r) PROVE FALSE
    BY <2>4 DEF kill, close, NoStream
  <2>5. ASSUME lock_read(r) \/ lock_write(r) \/ unlock(r) PROVE FALSE
    BY <2>5 DEF lock_read, lock_write, unlock
  <2>6. ASSUME NEW doc \in Docs, write(r, doc) PROVE FALSE
    BY <2>6 DEF write
  <2>7. read(r)
    BY <2>1, <2>2, <2>3, <2>4, <2>5, <2>6 DEF Scope
  <2> QED
    BY <2>7 DEF read
<1>2. stream[p].at \in {"shared", "exclusive"} /\ stream[p].mode # "wb"
      /\ stream[p].out = None /\ Contents(p) = Empty
  BY <1>1 DEF read, IInv, DBTypeOK, Streams
<1>3. stream[p].db \in Files /\ file[stream[p].db] = Empty
  BY <1>2, DistinctContents
     DEF Contents, IInv, DBTypeOK, StreamsAreOnFiles, Streams
<1>4. SUFFICES ASSUME ~lost[stream[p].db]
               PROVE  \E q \in Procs \ {p} : InUnlockedWindow(q, stream[p].db)
  OBVIOUS
<1>5. PICK q \in Procs : Owes(q, stream[p].db)
  BY <1>3, <1>4 DEF IInv, EmptyFileIsOwed
<1>6. q # p
  BY <1>2, <1>5 DEF Owes
<1>7. stream[q].at # "closed"
  BY <1>3, <1>5, DistinctContents DEF Owes, IInv, StreamsAreOnFiles, NoStream
<1>8. stream[q].at # "shared"
  BY <1>5 DEF Owes, IInv, WritersLock
<1>9. stream[q].at # "exclusive"
  BY <1>2, <1>5, <1>6 DEF Owes, IInv, LocksExclude
<1>10. stream[q].at \in {"opened", "unlocked"}
  BY <1>7, <1>8, <1>9 DEF IInv, DBTypeOK, Streams, StreamAt
<1> QED
  BY <1>5, <1>6, <1>10 DEF InUnlockedWindow

THEOREM FailedReads == DBSpec => FailedReadIsInUnlockedWindow
<1> DEFINE Step == \A p \in Procs :
        stream[p].got = None /\ stream'[p].got = Empty
          => \/ lost[stream[p].db]
             \/ \E q \in Procs \ {p} : InUnlockedWindow(q, stream[p].db)
<1>1. IInv /\ [DBNext]_dbvars => [Step]_dbvars
  BY FailedReadStep
<1> QED
  BY <1>1, Invariance, PTL DEF DBSpec, FailedReadIsInUnlockedWindow

=============================================================================
