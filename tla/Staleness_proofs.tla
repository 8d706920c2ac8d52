-------------------------- MODULE Staleness_proofs ---------------------------
(***************************************************************************)
(* Why an NSS client's lists are the database: the proof of                *)
(* StalenessIsExplained (module Nss), for any writers, documents and       *)
(* bounds.                                                                 *)
(*                                                                         *)
(* The argument relates what a load has read to what the writers owe.      *)
(* Between taking the counter and the end of the load, the file gets no    *)
(* other document without an excuse, except from a writer that pushes      *)
(* first, still inside its lock.  If no push has come since, a document    *)
(* that was in the file at any time of the load is the last one, and a     *)
(* file that has a document has this one.                                  *)
(***************************************************************************)
EXTENDS Nss_proofs, FiniteSetTheorems

\* The writers that may still push.
PendingJobs == {"create", "init", "observer", "update", "push"}
Pending == {w \in Writers : writer[w] \in PendingJobs}

\* The jobs in which a document is written.
WrittenJobs == {"create", "init", "purge", "push", "written"}

\* A push is inside the exclusive lock, behind the write.
PushersOK ==
    \A w \in Writers :
        /\ pushing[w] # "no" => writer[w] \in {"push", "observer"} /\ shm # "absent"
        /\ pushing[w] = "loaded" => writer[w] = "push" /\ loaded[w] = counter
        /\ writer[w] = "push" => stream[w].at = "exclusive" /\ ~Threw(w)
        /\ stream[w].out # None => writer[w] \in WrittenJobs
        /\ writer[w] = "observer" => stream[w].at = "closed"

\* A session pushes once, so that the counter does not come round.
CounterOK ==
    /\ IsFiniteSet(Pending)
    /\ counter + Cardinality(Pending) <= sessions
    /\ shm = "absent" => counter = 0
    /\ current = UINT_MAX \/ current <= counter

\* As long as no document was late, the file is empty while one is buffered.
LateOK ==
    "late_flush" \notin excuse =>
        \A w \in Writers : stream[w].out # None => file["user"] = Empty

InLoad(f) == call[f].at \in {"load", "clear", "fill"}

\* The first list to be loaded is the list of groups, and the loads of two
\* calls do not overlap without notice.
LoadsOK ==
    /\ \A f \in Families : stream[f].mode = "r"
    /\ \A f \in Families : call[f].at \in {"changed", "counter"} => call[f].of = "group"
    /\ "overlap" \notin excuse =>
          \A f, g \in Families : InLoad(f) /\ InLoad(g) => f = g

\* The observer has seen the last push, and nothing else is known to be wrong.
Certain == excuse = {} /\ current = counter

\* d is the last document the file had, and who follows has still to push.
Fresh(d) ==
    /\ file["user"] \in {d, Empty}
    /\ \A w \in Writers : stream[w].out # None => writer[w] = "push"

\* Call f is on its way to replace list l.
Owed(f, l) == InLoad(f) /\ call[f].of \in {"group", l}

\* What a load has in its hands is the last document.
FreshCall(f) ==
    /\ call[f].at \in {"clear", "fill"} => Fresh(call[f].got)
    /\ call[f].at = "load" =>
          /\ stream[f].pre # None => Fresh(stream[f].pre)
          /\ stream[f].got \notin {None, Empty} => Fresh(stream[f].got)
    /\ \A l \in Lists : Filling(f, l) => list[l] = <<>>

FreshOK ==
    Certain =>
        /\ \A f \in Families : FreshCall(f)
        /\ \A l \in Lists :
              (\A f \in Families : ~Owed(f, l)) => Fresh(list[l])

SInv == NInv /\ PushersOK /\ CounterOK /\ LateOK /\ LoadsOK /\ FreshOK

-----------------------------------------------------------------------------
(***************************************************************************)
(* Writers                                                                 *)
(***************************************************************************)
LEMMA WriterTypes ==
    ASSUME NInv, NEW w \in Writers
    PROVE  /\ w \in Procs /\ DOMAIN stream = Procs
           /\ stream[w] \in DBP!Streams
           /\ writer[w] \in Jobs
           /\ DOMAIN writer = Writers
           /\ DOMAIN pushing = Procs /\ DOMAIN loaded = Procs
           /\ pushing[w] \in Obs!PushStates
           /\ DOMAIN file = Files
<1>1. w \in Procs
  BY ProcsFacts
<1> QED
  BY <1>1 DEF NInv, DBP!IInv, DBP!DBTypeOK, OthersOK, Obs!ShmTypeOK

\* An open stream is on the user database, a closed one is blank, and only
\* who has locked it exclusively has written.
LEMMA WriterStream ==
    ASSUME NInv, NEW p \in Procs
    PROVE  /\ stream[p].at # "closed" => stream[p].db = "user" /\ file["user"] # Absent
           /\ stream[p].at = "closed" => stream[p] = DB!NoStream
           /\ stream[p].out # None =>
                 stream[p].mode # "r" /\ stream[p].at \in {"exclusive", "unlocked"}
<1>1. DBP!StreamsAreOnFiles /\ DBP!WritersLock
  BY DEF NInv, DBP!IInv
<1> QED
  BY <1>1 DEF DBP!StreamsAreOnFiles, DBP!WritersLock, Files, DB!NoStream, DBP!NoStream

LEMMA NoStreamFields ==
    /\ DB!NoStream.at = "closed" /\ DB!NoStream.out = None /\ DB!NoStream.got = None
    /\ DB!NoStream.pre = None /\ DB!NoStream.mode = "r"
BY DEF DB!NoStream

\* One writer at a time is in the exclusive lock.
LEMMA OneExclusive ==
    ASSUME NInv, NEW v \in Writers, NEW w \in Writers,
           stream[v].at = "exclusive", stream[w].at = "exclusive"
    PROVE  v = w
<1>1. v \in Procs /\ w \in Procs
  BY WriterTypes
<1>2. stream[v].db = "user" /\ stream[w].db = "user"
  BY <1>1, WriterStream
<1>3. DBP!LocksExclude
  BY DEF NInv, DBP!IInv
<1> QED
  BY <1>1, <1>2, <1>3 DEF DBP!LocksExclude

\* A step of one writer leaves the others alone.
LEMMA OtherWriters ==
    ASSUME NInv, NEW w \in Writers, WriterMoves(w), NEW v \in Writers, v # w
    PROVE  /\ stream'[v] = stream[v] /\ writer'[v] = writer[v]
           /\ pushing'[v] = pushing[v] /\ loaded'[v] = loaded[v]
<1>1. v \in Procs /\ w \in Procs /\ DOMAIN stream = Procs /\ DOMAIN writer = Writers
      /\ DOMAIN pushing = Procs /\ DOMAIN loaded = Procs
  BY WriterTypes
<1>2. CASE BeginWrite(w, "update") \/ BeginWrite(w, "purge")
  BY <1>1, <1>2 DEF BeginWrite, DB!open, shmvars
<1>8. CASE BeginCreate(w) \/ CreateFile(w) \/ OpenNext(w)
  BY <1>1, <1>8 DEF BeginCreate, CreateFile, OpenNext, DB!create, DB!open, dbvars, shmvars,
     writervars
<1>9. CASE ObserverCreate(w)
  BY <1>1, <1>9 DEF ObserverCreate, Obs!shm_open, Obs!shm_size, Obs!create_done, dbvars
<1>3. CASE WriteNew(w)
  BY <1>1, <1>3 DEF WriteNew, DB!write, shmvars
<1>4. CASE LockWrite(w) \/ ReadOld(w) \/ UnlockWrite(w)
  BY <1>1, <1>4 DEF LockWrite, ReadOld, UnlockWrite, DB!lock_write, DB!read, DB!unlock,
     shmvars, writervars
<1>5. CASE CloseWrite(w)
  BY <1>1, <1>5 DEF CloseWrite, DB!close, shmvars
<1>6. CASE KillWriter(w)
  BY <1>1, <1>6 DEF KillWriter, DB!kill, Obs!shm_kill, dbvars
<1>7. CASE PushCounter(w)
  BY <1>1, <1>7 DEF PushCounter, Obs!shm_open, Obs!shm_size, Obs!push_load,
     Obs!push_store, dbvars
<1> QED
  BY <1>2, <1>3, <1>4, <1>5, <1>6, <1>7, <1>8, <1>9 DEF WriterMoves

\* What each step of a writer does to its session and to the file.
LEMMA BeginEffect ==
    ASSUME NInv, NEW w \in Writers, NEW job \in {"update", "purge"}, BeginWrite(w, job)
    PROVE  /\ writer[w] = "idle" /\ writer'[w] = job
           /\ stream'[w].at = "opened" /\ stream'[w].out = None
           /\ file' = file /\ excuse' = excuse /\ sessions' = sessions + 1
           /\ pushing' = pushing /\ loaded' = loaded
           /\ shm' = shm /\ counter' = counter
BY WriterTypes DEF BeginWrite, DB!open, DB!NoStream, shmvars

\* The first steps of create_db, and the scopes that follow them.
LEMMA CreateEffect ==
    ASSUME SInv, NEW w \in Writers, BeginCreate(w) \/ CreateFile(w) \/ OpenNext(w)
    PROVE  /\ writer'[w] \in {"create", "init", "update"}
           /\ \/ writer[w] = "idle" /\ BeginCreate(w) /\ sessions' = sessions + 1
              \/ writer' = writer /\ ~BeginCreate(w) /\ sessions' = sessions
           /\ stream'[w].out = None
           /\ file' = file \/ file'["user"] = Empty
           /\ excuse' = excuse /\ pushing' = pushing /\ loaded' = loaded
           /\ shm' = shm /\ counter' = counter
<1>1. /\ w \in Procs /\ DOMAIN stream = Procs /\ DOMAIN file = Files
      /\ DOMAIN writer = Writers /\ "user" \in Files
  BY WriterTypes, ProcsFacts DEF SInv
<1>2. CASE BeginCreate(w)
  <2>1. writer[w] = "idle" /\ writer'[w] = "create" /\ stream' = stream /\ file' = file
    BY <1>1, <1>2 DEF BeginCreate, dbvars
  <2>2. stream[w].out = None
    BY <2>1 DEF SInv, PushersOK, WrittenJobs
  <2> QED
    BY <1>2, <2>1, <2>2 DEF BeginCreate, shmvars
<1>3. CASE CreateFile(w)
  BY <1>1, <1>3 DEF CreateFile, BeginCreate, DB!create, DB!NoStream, shmvars, writervars
<1>4. CASE OpenNext(w)
  BY <1>1, <1>4 DEF OpenNext, BeginCreate, DB!open, DB!NoStream, shmvars, writervars
<1> QED
  BY <1>2, <1>3, <1>4

LEMMA ScopeEffect ==
    ASSUME NInv, NEW w \in Writers, LockWrite(w) \/ ReadOld(w) \/ UnlockWrite(w)
    PROVE  /\ stream[w].at # "closed" /\ stream'[w].out = stream[w].out
           /\ LockWrite(w) => stream[w].at = "opened" /\ stream'[w].at = "exclusive"
           /\ ReadOld(w) => stream'[w].at = stream[w].at /\ writer[w] = "update"
           /\ UnlockWrite(w) => writer[w] # "push" \/ Threw(w)
           /\ file' = file /\ excuse' = excuse /\ sessions' = sessions
           /\ writer' = writer /\ pushing' = pushing /\ loaded' = loaded
           /\ shm' = shm /\ counter' = counter
<1>1. /\ w \in Procs /\ DOMAIN stream = Procs /\ stream[w] \in DBP!Streams
  BY WriterTypes
<1>2. /\ file' = file /\ excuse' = excuse /\ sessions' = sessions
      /\ writer' = writer /\ pushing' = pushing /\ loaded' = loaded
      /\ shm' = shm /\ counter' = counter
  BY DEF LockWrite, ReadOld, UnlockWrite, DB!lock_write, DB!read, DB!unlock,
     shmvars, writervars
<1>3. CASE LockWrite(w)
  <2>1. /\ stream[w].at = "opened" /\ stream'[w].out = stream[w].out
        /\ stream'[w].at = "exclusive"
    BY <1>1, <1>3 DEF LockWrite, DB!lock_write, DBP!Streams
  <2>2. ~ReadOld(w) /\ ~UnlockWrite(w)
    BY <2>1 DEF ReadOld, UnlockWrite, DB!read, DB!unlock
  <2> QED
    BY <1>2, <2>1, <2>2
<1>4. CASE ReadOld(w)
  <2>1. /\ stream[w].at \in {"shared", "exclusive"} /\ stream'[w].out = stream[w].out
        /\ stream'[w].at = stream[w].at /\ stream[w].got = None
        /\ stream'[w].got = DB!Contents(w)
        /\ writer[w] = "update" /\ stream[w].out = None
    BY <1>1, <1>4 DEF ReadOld, DB!read, DBP!Streams
  <2>2. ~LockWrite(w)
    BY <2>1 DEF LockWrite, DB!lock_write
  <2>3. ~UnlockWrite(w)
    BY <2>1, NssAssumptions DEF UnlockWrite, Threw
  <2> QED
    BY <1>2, <2>1, <2>2, <2>3
<1>5. CASE UnlockWrite(w)
  <2>1. /\ stream[w].at \in {"shared", "exclusive"} /\ stream'[w].out = stream[w].out
        /\ Threw(w) \/ (writer[w] # "push" /\ stream[w].out # None)
    BY <1>1, <1>5 DEF UnlockWrite, DB!unlock, DBP!Streams
  <2>2. ~LockWrite(w) /\ ~ReadOld(w)
    BY <2>1, NssAssumptions DEF Threw, LockWrite, DB!lock_write, ReadOld, DB!read
  <2> QED
    BY <1>2, <2>1, <2>2
<1> QED
  BY <1>3, <1>4, <1>5

LEMMA WriteEffect ==
    ASSUME NInv, NEW w \in Writers, WriteNew(w)
    PROVE  /\ writer[w] \in {"update", "create", "init", "purge"}
           /\ writer'[w] = IF writer[w] = "update" THEN "push" ELSE writer[w]
           /\ stream'[w].at = "exclusive"
           /\ writer[w] = "update" => ~Threw(w)'
           /\ file'["user"] = Empty
           /\ excuse \subseteq excuse' /\ (excuse' = {} => writer[w] = "update")
           /\ sessions' = sessions /\ pushing' = pushing /\ loaded' = loaded
           /\ shm' = shm /\ counter' = counter
<1>1. /\ w \in Procs /\ DOMAIN stream = Procs /\ stream[w] \in DBP!Streams
      /\ DOMAIN writer = Writers /\ DOMAIN file = Files
  BY WriterTypes
<1>2. /\ writer[w] \in {"update", "create", "init", "purge"}
      /\ \E doc : DB!write(w, doc)
      /\ writer[w] = "update" => ~Threw(w)
  BY DEF WriteNew
<1>3. /\ stream[w].at = "exclusive"
      /\ stream'[w].at = "exclusive" /\ stream'[w].got = stream[w].got
      /\ file' = [file EXCEPT ![stream[w].db] = Empty]
  BY <1>1, <1>2 DEF DB!write, DBP!Streams
<1>4. stream[w].db = "user"
  BY <1>1, <1>3, WriterStream
<1>5. file'["user"] = Empty
  BY <1>1, <1>3, <1>4, ProcsFacts
<1>6. /\ writer' = [writer EXCEPT ![w] = JobAfterWrite(writer[w])]
      /\ sessions' = sessions /\ pushing' = pushing /\ loaded' = loaded
      /\ shm' = shm /\ counter' = counter /\ excuse \subseteq excuse'
  BY DEF WriteNew, shmvars
<1>7. excuse' = {} => writer[w] = "update"
  BY <1>2 DEF WriteNew
<1> QED
  BY <1>1, <1>2, <1>3, <1>5, <1>6, <1>7 DEF JobAfterWrite, Threw

LEMMA PushEffect ==
    ASSUME NInv, NEW w \in Writers, PushCounter(w)
    PROVE  /\ writer[w] = "push" /\ stream' = stream /\ file' = file
           /\ excuse' = excuse /\ sessions' = sessions
           /\ \/ /\ Obs!push_store(w) /\ writer'[w] = "written" /\ pushing'[w] = "no"
                 /\ shm' = shm /\ pushing[w] = "loaded"
                 /\ counter' = (loaded[w] + 1) % Modulus
              \/ /\ Obs!shm_open(w) \/ Obs!shm_size(w) \/ Obs!push_load(w)
                 /\ writer' = writer /\ counter' = counter
                 /\ pushing'[w] # "no"
                 /\ shm' = "absent" => shm = "absent" /\ pushing[w] # "no"
                 /\ pushing'[w] = "loaded" => loaded'[w] = counter
<1>1. /\ w \in Procs /\ DOMAIN writer = Writers
      /\ DOMAIN pushing = Procs /\ DOMAIN loaded = Procs
  BY WriterTypes
<1>2. /\ writer[w] = "push" /\ stream' = stream /\ file' = file
      /\ excuse' = excuse /\ sessions' = sessions
  BY DEF PushCounter, dbvars
<1>3. CASE Obs!push_store(w) /\ writer' = [writer EXCEPT ![w] = "written"]
  BY <1>1, <1>2, <1>3 DEF Obs!push_store
<1>4. CASE Obs!shm_open(w) /\ UNCHANGED writer
  BY <1>1, <1>2, <1>4 DEF Obs!shm_open
<1>5. CASE Obs!shm_size(w) /\ UNCHANGED writer
  BY <1>1, <1>2, <1>5 DEF Obs!shm_size
<1>6. CASE Obs!push_load(w) /\ UNCHANGED writer
  BY <1>1, <1>2, <1>6 DEF Obs!push_load
<1> QED
  BY <1>3, <1>4, <1>5, <1>6 DEF PushCounter

LEMMA ObserverEffect ==
    ASSUME NInv, NEW w \in Writers, ObserverCreate(w)
    PROVE  /\ writer[w] = "observer" /\ writer'[w] \in {"observer", "idle", "update"}
           /\ stream' = stream /\ file' = file /\ excuse' = excuse
           /\ sessions' = sessions /\ counter' = counter
           /\ pushing'[w] # "no" => writer'[w] = "observer" /\ shm' # "absent"
           /\ pushing'[w] # "loaded"
           /\ shm' = "absent" => shm = "absent"
<1>1. /\ w \in Procs /\ DOMAIN writer = Writers /\ DOMAIN pushing = Procs
  BY WriterTypes
<1>2. /\ writer[w] = "observer" /\ stream' = stream /\ file' = file
      /\ excuse' = excuse /\ sessions' = sessions
  BY DEF ObserverCreate, dbvars
<1>3. CASE Obs!shm_open(w) /\ UNCHANGED writer
  BY <1>1, <1>2, <1>3 DEF Obs!shm_open
<1>4. CASE Obs!shm_size(w) /\ UNCHANGED writer
  BY <1>1, <1>2, <1>4 DEF Obs!shm_size
<1>5. ASSUME NEW job \in {"idle", "update"}, Obs!create_done(w),
             writer' = [writer EXCEPT ![w] = job]
      PROVE  /\ writer'[w] \in {"idle", "update"} /\ pushing'[w] = "no"
             /\ shm' = shm /\ counter' = counter
  BY <1>1, <1>5 DEF Obs!create_done
<1> QED
  BY <1>2, <1>3, <1>4, <1>5 DEF ObserverCreate

LEMMA CloseEffect ==
    ASSUME NInv, NEW w \in Writers, CloseWrite(w)
    PROVE  /\ stream[w].at = "unlocked" /\ stream'[w] = DB!NoStream
           /\ writer'[w] \in {"idle", "init", "observer"}
           /\ writer'[w] \in {"init", "observer"} => writer[w] \in {"create", "init"}
           /\ stream[w].out = None => file' = file
           /\ excuse' = excuse \cup IF LateFlush(w) THEN {"late_flush"} ELSE {}
           /\ sessions' = sessions /\ pushing' = pushing /\ loaded' = loaded
           /\ shm' = shm /\ counter' = counter
BY WriterTypes DEF CloseWrite, JobAfterClose, DB!close, shmvars

LEMMA KillEffect ==
    ASSUME NInv, NEW w \in Writers, KillWriter(w)
    PROVE  /\ stream'[w] = DB!NoStream /\ writer'[w] = "idle" /\ pushing'[w] = "no"
           /\ file' = file /\ excuse' = excuse /\ sessions' = sessions
           /\ shm' = shm /\ counter' = counter
BY WriterTypes, WriterStream DEF KillWriter, DB!kill, Obs!shm_kill, dbvars

-----------------------------------------------------------------------------
(***************************************************************************)
(* The writers keep each part of the invariant                             *)
(***************************************************************************)
LEMMA WriterPushers ==
    ASSUME SInv, NEW w \in Writers, WriterMoves(w)
    PROVE  PushersOK'
<1>1. NInv /\ PushersOK
  BY DEF SInv
\* w itself.
<1> DEFINE OK(v) ==
        /\ pushing[v] # "no" => writer[v] \in {"push", "observer"} /\ shm # "absent"
        /\ pushing[v] = "loaded" => writer[v] = "push" /\ loaded[v] = counter
        /\ writer[v] = "push" => stream[v].at = "exclusive" /\ ~Threw(v)
        /\ stream[v].out # None => writer[v] \in WrittenJobs
        /\ writer[v] = "observer" => stream[v].at = "closed"
<1>2. \A v \in Writers : OK(v)
  BY <1>1 DEF PushersOK
<1>3. OK(w)'
  <2>1. CASE BeginWrite(w, "update") \/ BeginWrite(w, "purge")
    <3>1. PICK job \in {"update", "purge"} : BeginWrite(w, job)
      BY <2>1
    <3>2. /\ writer[w] = "idle" /\ writer'[w] \in {"update", "purge"}
          /\ stream'[w].out = None /\ pushing' = pushing
      BY <1>1, <3>1, BeginEffect
    <3> QED
      BY <1>2, <3>2
  <2>2. CASE LockWrite(w) \/ ReadOld(w) \/ UnlockWrite(w)
    <3>1. /\ stream'[w].out = stream[w].out /\ stream[w].at # "closed"
          /\ LockWrite(w) => stream[w].at = "opened"
          /\ ReadOld(w) => writer[w] = "update"
          /\ UnlockWrite(w) => writer[w] # "push" \/ Threw(w)
          /\ writer' = writer /\ pushing' = pushing /\ loaded' = loaded
          /\ shm' = shm /\ counter' = counter
      BY <1>1, <2>2, ScopeEffect
    <3>2. writer[w] # "push" /\ writer[w] # "observer"
      BY <1>2, <2>2, <3>1
    <3> QED
      BY <1>2, <3>1, <3>2
  <2>3. CASE WriteNew(w)
    <3>1. /\ writer[w] \in {"update", "create", "init", "purge"}
          /\ writer'[w] = IF writer[w] = "update" THEN "push" ELSE writer[w]
          /\ stream'[w].at = "exclusive" /\ (writer[w] = "update" => ~Threw(w)')
          /\ pushing' = pushing
      BY <1>1, <2>3, WriteEffect
    <3> QED
      BY <1>2, <3>1 DEF WrittenJobs
  <2>4. CASE PushCounter(w)
    <3>1. /\ writer[w] = "push" /\ stream' = stream
          /\ writer'[w] \in {"push", "written"}
          /\ pushing'[w] # "no" => writer'[w] = "push" /\ shm' # "absent"
          /\ pushing'[w] = "loaded" => loaded'[w] = counter'
      BY <1>1, <1>2, <2>4, PushEffect
    <3> QED
      BY <1>2, <3>1 DEF WrittenJobs, Threw
  <2>5. CASE CloseWrite(w)
    <3>1. /\ stream[w].at = "unlocked" /\ stream'[w] = DB!NoStream
          /\ writer'[w] \in {"idle", "init", "observer"} /\ pushing' = pushing
      BY <1>1, <2>5, CloseEffect
    <3> QED
      BY <1>2, <3>1, NoStreamFields
  <2>6. CASE KillWriter(w)
    BY <1>1, <2>6, KillEffect, NoStreamFields
  <2>7. CASE BeginCreate(w) \/ CreateFile(w) \/ OpenNext(w)
    <3>1. /\ writer'[w] \in {"create", "init", "update"}
          /\ writer[w] = "idle" \/ writer' = writer
          /\ stream'[w].out = None /\ pushing' = pushing
      BY <2>7, CreateEffect
    <3> QED
      BY <1>2, <3>1
  <2>8. CASE ObserverCreate(w)
    <3>1. /\ writer[w] = "observer" /\ writer'[w] \in {"observer", "idle", "update"}
          /\ stream' = stream /\ pushing'[w] # "loaded"
          /\ pushing'[w] # "no" => writer'[w] = "observer" /\ shm' # "absent"
      BY <1>1, <2>8, ObserverEffect
    <3>2. stream[w].out = None
      BY <1>2, <3>1 DEF WrittenJobs
    <3> QED
      BY <1>2, <3>1, <3>2
  <2> QED
    BY <2>1, <2>2, <2>3, <2>4, <2>5, <2>6, <2>7, <2>8 DEF WriterMoves
\* The others: only a push moves the counter, and nobody else is in one.
<1>4. ASSUME NEW v \in Writers, v # w PROVE OK(v)'
  <2>1. /\ stream'[v] = stream[v] /\ writer'[v] = writer[v]
        /\ pushing'[v] = pushing[v] /\ loaded'[v] = loaded[v]
    BY <1>1, <1>4, OtherWriters
  <2>2. CASE PushCounter(w)
    <3>1. writer[v] # "push"
      BY <1>1, <1>2, <1>4, <2>2, PushEffect, OneExclusive
    <3>2. shm' = "absent" => shm = "absent"
      BY <1>1, <2>2, PushEffect
    <3> QED
      BY <1>2, <2>1, <3>1, <3>2 DEF Threw
  <2>3. CASE ~PushCounter(w)
    <3>1. (shm' = "absent" => shm = "absent") /\ counter' = counter
      BY <1>1, <2>3, BeginEffect, CreateEffect, ScopeEffect, WriteEffect, ObserverEffect,
         CloseEffect, KillEffect DEF WriterMoves
    <3> QED
      BY <1>2, <2>1, <3>1 DEF Threw
  <2> QED
    BY <2>2, <2>3
<1> QED
  BY <1>3, <1>4 DEF PushersOK

\* Integers for the counter.
LEMMA CounterTypes ==
    ASSUME NInv
    PROVE  /\ counter \in Nat /\ sessions \in Nat /\ current \in Nat
           /\ sessions <= MaxSessions
           /\ MaxSessions \in Nat /\ Modulus \in Nat /\ Modulus > MaxSessions + 1
           /\ UINT_MAX = Modulus - 1
BY NssAssumptions DEF NInv, OthersOK, Obs!ShmTypeOK, UINT_MAX

\* The counter a push stores: it has not come round.
LEMMA StoreCounts ==
    ASSUME SInv, NEW w \in Writers, PushCounter(w), Obs!push_store(w)
    PROVE  /\ w \in Pending /\ counter' = counter + 1
           /\ counter + 1 <= sessions
           /\ counter' # current
<1>1. NInv /\ PushersOK /\ CounterOK
  BY DEF SInv
<1>2. writer[w] = "push" /\ w \in Pending
  BY DEF PushCounter, Pending, PendingJobs
<1>3. pushing[w] = "loaded" /\ counter' = (loaded[w] + 1) % Modulus
  BY DEF Obs!push_store
<1>4. counter' = (counter + 1) % Modulus
  BY <1>1, <1>3 DEF PushersOK
<1>5. Cardinality(Pending) \in Nat /\ Cardinality(Pending) # 0
  BY <1>1, <1>2, FS_EmptySet, FS_CardinalityType DEF CounterOK
<1>6. counter + 1 <= sessions
  BY <1>1, <1>5, CounterTypes DEF CounterOK
<1>7. counter + 1 \in 0 .. Modulus - 1
  BY <1>1, <1>6, CounterTypes
<1>8. counter' = counter + 1
  BY <1>1, <1>4, <1>7, CounterTypes
<1>9. counter' # current
  BY <1>1, <1>6, <1>8, CounterTypes DEF CounterOK
<1> QED
  BY <1>2, <1>6, <1>8, <1>9

\* Who is pending after the step of one writer.
LEMMA PendingAfter ==
    ASSUME NInv, NEW w \in Writers, WriterMoves(w)
    PROVE  Pending' = IF writer'[w] \in PendingJobs THEN Pending \cup {w}
                      ELSE Pending \ {w}
BY OtherWriters DEF Pending

LEMMA WriterCounter ==
    ASSUME SInv, NEW w \in Writers, WriterMoves(w)
    PROVE  CounterOK'
<1>1. NInv /\ CounterOK /\ current' = current /\ IsFiniteSet(Pending)
  BY WriterKeeps DEF SInv, CounterOK
<1> DEFINE n == Cardinality(Pending)
<1>2. n \in Nat /\ counter + n <= sessions
  BY <1>1, FS_CardinalityType DEF CounterOK
<1>3. /\ IsFiniteSet(Pending \cup {w}) /\ IsFiniteSet(Pending \ {w})
      /\ Cardinality(Pending \cup {w}) = IF w \in Pending THEN n ELSE n + 1
      /\ Cardinality(Pending \ {w}) = IF w \in Pending THEN n - 1 ELSE n
  BY <1>1, FS_AddElement, FS_RemoveElement
<1> HIDE DEF n
<1>4. w \in Pending <=> writer[w] \in PendingJobs
  BY DEF Pending
<1>5. Pending' = IF writer'[w] \in PendingJobs THEN Pending \cup {w}
                 ELSE Pending \ {w}
  BY <1>1, PendingAfter
<1>6. IsFiniteSet(Pending')
  BY <1>3, <1>5
\* A new session.
<1>7. CASE BeginWrite(w, "update") \/ BeginWrite(w, "purge") \/ BeginCreate(w)
  <2>1. /\ sessions' = sessions + 1 /\ shm' = shm /\ counter' = counter
    BY <1>1, <1>7, BeginEffect, CreateEffect
  <2>2. Cardinality(Pending') <= n + 1 /\ Cardinality(Pending') \in Nat
    BY <1>2, <1>3, <1>5, <1>6, FS_CardinalityType
  <2> QED
    BY <1>1, <1>2, <1>6, <2>1, <2>2, CounterTypes DEF CounterOK
\* A push that is done.
<1>8. CASE PushCounter(w) /\ Obs!push_store(w)
  <2>1. /\ counter' = counter + 1 /\ w \in Pending /\ counter + 1 <= sessions
    BY <1>8, StoreCounts
  <2>2. /\ writer'[w] = "written" /\ sessions' = sessions /\ shm' = shm
    BY <1>1, <1>8 DEF PushCounter, Obs!push_store, Obs!shm_open, Obs!shm_size,
       Obs!push_load, NInv, OthersOK
  <2>3. Cardinality(Pending') = n - 1
    BY <1>3, <1>5, <2>1, <2>2 DEF PendingJobs
  <2>4. shm # "absent"
    BY <1>8 DEF SInv, PushersOK, Obs!push_store
  <2> QED
    BY <1>1, <1>2, <1>6, <2>1, <2>2, <2>3, <2>4, CounterTypes DEF CounterOK
\* No step makes a writer of another kind pending.
<1>9. CASE /\ ~(BeginWrite(w, "update") \/ BeginWrite(w, "purge") \/ BeginCreate(w))
           /\ ~(PushCounter(w) /\ Obs!push_store(w))
  <2>1. /\ writer'[w] \in PendingJobs => writer[w] \in PendingJobs
        /\ sessions' = sessions /\ counter' = counter
        /\ shm' = "absent" => shm = "absent"
    <3>1. CASE LockWrite(w) \/ ReadOld(w) \/ UnlockWrite(w)
      BY <1>1, <3>1, ScopeEffect
    <3>2. CASE WriteNew(w)
      BY <1>1, <3>2, WriteEffect DEF PendingJobs
    <3>3. CASE PushCounter(w)
      BY <1>1, <1>9, <3>3, PushEffect
    <3>4. CASE CloseWrite(w)
      BY <1>1, <3>4, CloseEffect DEF PendingJobs
    <3>5. CASE KillWriter(w)
      BY <1>1, <3>5, KillEffect DEF PendingJobs
    <3>6. CASE CreateFile(w) \/ OpenNext(w)
      BY <1>9, <3>6, CreateEffect
    <3>7. CASE ObserverCreate(w)
      BY <1>1, <3>7, ObserverEffect DEF PendingJobs
    <3> QED
      BY <1>9, <3>1, <3>2, <3>3, <3>4, <3>5, <3>6, <3>7 DEF WriterMoves
  <2>2. Cardinality(Pending') <= n /\ Cardinality(Pending') \in Nat
    BY <1>2, <1>3, <1>4, <1>5, <1>6, <2>1, FS_CardinalityType
  <2> QED
    BY <1>1, <1>2, <1>6, <2>1, <2>2, CounterTypes DEF CounterOK
<1> QED
  BY <1>7, <1>8, <1>9

\* A document that is in a buffer has emptied the file, and the one that is
\* flushed is the only one, or it counts as late.
LEMMA WriterLate ==
    ASSUME SInv, NEW w \in Writers, WriterMoves(w)
    PROVE  LateOK'
<1>1. NInv /\ LateOK /\ PushersOK
  BY DEF SInv
<1> SUFFICES ASSUME "late_flush" \notin excuse', NEW v \in Writers,
                    stream'[v].out # None
             PROVE  file'["user"] = Empty
  BY DEF LateOK
<1>2. v # w => stream'[v] = stream[v]
  BY <1>1, OtherWriters
<1>3. CASE WriteNew(w)
  BY <1>1, <1>3, WriteEffect
<1>4. CASE CloseWrite(w)
  <2>1. v # w /\ stream[v].out # None
    BY <1>1, <1>2, <1>4, CloseEffect, NoStreamFields
  <2>2. ~LateFlush(w) /\ "late_flush" \notin excuse
    BY <1>1, <1>4, CloseEffect
  <2>3. stream[w].out = None
    BY <2>1, <2>2 DEF LateFlush
  <2> QED
    BY <1>1, <1>4, <2>1, <2>2, <2>3, CloseEffect DEF LateOK
<1>5. CASE ~WriteNew(w) /\ ~CloseWrite(w)
  <2>1. /\ file' = file \/ file'["user"] = Empty
        /\ excuse' = excuse
        /\ stream'[w].out # None => stream'[w].out = stream[w].out
    <3>1. CASE BeginWrite(w, "update") \/ BeginWrite(w, "purge")
      BY <1>1, <3>1, BeginEffect
    <3>2. CASE LockWrite(w) \/ ReadOld(w) \/ UnlockWrite(w)
      BY <1>1, <3>2, ScopeEffect
    <3>3. CASE PushCounter(w) \/ KillWriter(w)
      BY <1>1, <3>3, PushEffect, KillEffect, NoStreamFields
    <3>4. CASE BeginCreate(w) \/ CreateFile(w) \/ OpenNext(w) \/ ObserverCreate(w)
      BY <1>1, <3>4, CreateEffect, ObserverEffect
    <3> QED
      BY <1>5, <3>1, <3>2, <3>3, <3>4 DEF WriterMoves
  <2> QED
    BY <1>1, <1>2, <2>1 DEF LateOK
<1> QED
  BY <1>3, <1>4, <1>5

LEMMA WriterExcuse ==
    ASSUME NInv, NEW w \in Writers, WriterMoves(w)
    PROVE  excuse \subseteq excuse'
BY DEF WriterMoves, BeginWrite, BeginCreate, CreateFile, OpenNext, LockWrite, ReadOld,
   WriteNew, PushCounter, ObserverCreate, UnlockWrite, CloseWrite, KillWriter

LEMMA WriterLoads ==
    ASSUME SInv, NEW w \in Writers, WriterMoves(w)
    PROVE  LoadsOK'
<1>1. /\ call' = call /\ \A f \in Families : stream'[f] = stream[f]
      /\ excuse \subseteq excuse' /\ LoadsOK
  BY WriterKeeps, WriterExcuse DEF SInv
<1> QED
  BY <1>1 DEF LoadsOK, InLoad

\* A step of a writer leaves the last document the last one, or it pushes,
\* or it has an excuse.
LEMMA WriterFresh ==
    ASSUME SInv, NEW w \in Writers, WriterMoves(w), Certain', NEW d, Fresh(d)
    PROVE  Certain /\ Fresh(d)'
<1>1. NInv /\ PushersOK
  BY DEF SInv
<1>2. current' = current /\ excuse = {} /\ excuse' = {} /\ current' = counter'
  BY <1>1, WriterKeeps, WriterExcuse DEF Certain
<1>3. \A v \in Writers \ {w} : stream'[v] = stream[v] /\ writer'[v] = writer[v]
  BY <1>1, OtherWriters
<1>4. CASE BeginWrite(w, "update") \/ BeginWrite(w, "purge")
  <2>1. stream'[w].out = None /\ file' = file /\ counter' = counter
    BY <1>1, <1>4, BeginEffect
  <2> QED
    BY <1>2, <1>3, <2>1 DEF Fresh, Certain
<1>5. CASE LockWrite(w) \/ ReadOld(w) \/ UnlockWrite(w)
  <2>1. /\ stream'[w].out = stream[w].out /\ writer' = writer
        /\ file' = file /\ counter' = counter
    BY <1>1, <1>5, ScopeEffect
  <2> QED
    BY <1>2, <1>3, <2>1 DEF Fresh, Certain
<1>6. CASE WriteNew(w)
  <2>1. /\ writer[w] = "update" /\ writer'[w] = "push"
        /\ file'["user"] = Empty /\ counter' = counter
    BY <1>1, <1>2, <1>6, WriteEffect
  <2> QED
    BY <1>2, <1>3, <2>1 DEF Fresh, Certain
<1>7. CASE PushCounter(w)
  <2>1. ~Obs!push_store(w)
    BY <1>2, <1>7, StoreCounts
  <2>2. stream' = stream /\ file' = file /\ writer' = writer /\ counter' = counter
    BY <1>1, <1>7, <2>1, PushEffect
  <2> QED
    BY <1>2, <2>2 DEF Fresh, Certain
<1>8. CASE CloseWrite(w)
  <2>1. /\ stream[w].at = "unlocked" /\ stream'[w].out = None /\ counter' = counter
        /\ stream[w].out = None => file' = file
    BY <1>1, <1>8, CloseEffect, NoStreamFields
  <2>2. stream[w].out = None
    BY <1>1, <2>1 DEF Fresh, PushersOK
  <2> QED
    BY <1>2, <1>3, <2>1, <2>2 DEF Fresh, Certain
<1>9. CASE KillWriter(w)
  <2>1. stream'[w].out = None /\ file' = file /\ counter' = counter
    BY <1>1, <1>9, KillEffect, NoStreamFields
  <2> QED
    BY <1>2, <1>3, <2>1 DEF Fresh, Certain
<1>10. CASE BeginCreate(w) \/ CreateFile(w) \/ OpenNext(w)
  <2>1. /\ stream'[w].out = None /\ counter' = counter
        /\ file' = file \/ file'["user"] = Empty
    BY <1>10, CreateEffect
  <2> QED
    BY <1>2, <1>3, <2>1 DEF Fresh, Certain
<1>11. CASE ObserverCreate(w)
  <2>1. /\ stream' = stream /\ file' = file /\ counter' = counter
        /\ writer[w] = "observer"
    BY <1>1, <1>11, ObserverEffect
  <2>2. stream[w].out = None
    BY <1>1, <2>1 DEF PushersOK, WrittenJobs
  <2> QED
    BY <1>2, <1>3, <2>1, <2>2 DEF Fresh, Certain
<1> QED
  BY <1>4, <1>5, <1>6, <1>7, <1>8, <1>9, <1>10, <1>11 DEF WriterMoves

LEMMA WriterFreshOK ==
    ASSUME SInv, NEW w \in Writers, WriterMoves(w)
    PROVE  FreshOK'
<1> SUFFICES ASSUME Certain'
             PROVE  /\ \A f \in Families : FreshCall(f)'
                    /\ \A l \in Lists :
                          (\A f \in Families : ~Owed(f, l)') => Fresh(list[l])'
  BY DEF FreshOK
<1>1. /\ call' = call /\ list' = list
      /\ \A f \in Families : stream'[f] = stream[f]
  BY WriterKeeps DEF SInv
<1>2. \A d : Fresh(d) => Fresh(d)'
  BY WriterFresh
<1>3. Certain
  <2>1. NInv
    BY DEF SInv
  <2>2. current' = current /\ excuse = {} /\ current' = counter'
    BY <2>1, WriterKeeps, WriterExcuse DEF Certain
  <2>3. counter' = counter
    BY <2>1, <2>2, StoreCounts, BeginEffect, CreateEffect, ScopeEffect, WriteEffect,
       PushEffect, ObserverEffect, CloseEffect, KillEffect DEF WriterMoves
  <2> QED
    BY <2>2, <2>3 DEF Certain
<1>4. /\ \A f \in Families : FreshCall(f)
      /\ \A l \in Lists : (\A f \in Families : ~Owed(f, l)) => Fresh(list[l])
  BY <1>3 DEF SInv, FreshOK
<1>5. ASSUME NEW f \in Families PROVE FreshCall(f)'
  <2>1. FreshCall(f)
    BY <1>4
  <2>2. /\ call[f].at \in {"clear", "fill"} => Fresh(call[f].got)'
        /\ call[f].at = "load" =>
              /\ stream[f].pre # None => Fresh(stream[f].pre)'
              /\ stream[f].got \notin {None, Empty} => Fresh(stream[f].got)'
    BY <1>1, <1>2, <2>1 DEF FreshCall
  <2> QED
    BY <1>1, <2>1, <2>2 DEF FreshCall, Filling
<1>6. ASSUME NEW l \in Lists, \A f \in Families : ~Owed(f, l)'
      PROVE  Fresh(list[l])'
  <2>1. \A f \in Families : ~Owed(f, l)
    BY <1>1, <1>6 DEF Owed, InLoad
  <2> QED
    BY <1>1, <1>2, <1>4, <2>1
<1> QED
  BY <1>5, <1>6

-----------------------------------------------------------------------------
(***************************************************************************)
(* Calls                                                                   *)
(***************************************************************************)
\* What a call leaves alone: it only reads the database.
LEMMA CallKeeps ==
    ASSUME SInv, NEW f \in Families, CallMoves(f)
    PROVE  /\ file' = file /\ writer' = writer /\ sessions' = sessions
           /\ shm' = shm /\ counter' = counter
           /\ pushing' = pushing /\ loaded' = loaded
           /\ \A p \in Procs \ {f} : stream'[p] = stream[p]
           /\ \A g \in Families \ {f} : call'[g] = call[g]
           /\ stream'[f].mode = "r"
<1>1. NInv /\ f \in Procs /\ DOMAIN stream = Procs /\ DOMAIN call = Families
      /\ stream[f] \in DBP!Streams /\ stream[f].mode = "r"
  BY StreamFacts, CallFacts DEF SInv, LoadsOK
<1>2. /\ writer' = writer /\ sessions' = sessions /\ shm' = shm /\ counter' = counter
      /\ pushing' = pushing /\ loaded' = loaded
  BY DEF CallMoves, setent, getent, lookup, Race, changed, take_counter, LoadScope,
     LoadDone, ClearList, FillList, Return, shmvars, writervars
<1>3. \A g \in Families \ {f} : call'[g] = call[g]
  BY <1>1 DEF CallMoves, setent, getent, lookup, Race, changed, take_counter, BeginLoad,
     GoTo, LoadScope, LoadDone, ClearList, FillList, Return
<1>4. CASE LoadScope(f)
  <2>1. /\ file' = file /\ \A p \in Procs \ {f} : stream'[p] = stream[p]
        /\ stream'[f].mode = "r"
    BY <1>1, <1>4, NoStreamFields DEF LoadScope, DB!open, DB!lock_read, DB!read,
       DB!unlock, DB!NoStream, DBP!Streams
  <2> QED
    BY <1>2, <1>3, <2>1
<1>5. CASE LoadDone(f)
  <2>1. stream[f].out = None
    BY <1>1, WriterStream
  <2>2. /\ file' = file /\ \A p \in Procs \ {f} : stream'[p] = stream[p]
        /\ stream'[f].mode = "r"
    BY <1>1, <1>5, <2>1, NoStreamFields DEF LoadDone, DB!close
  <2> QED
    BY <1>2, <1>3, <2>2
<1>6. CASE ~LoadScope(f) /\ ~LoadDone(f)
  <2>1. file' = file /\ stream' = stream
    BY <1>6 DEF CallMoves, setent, getent, lookup, Race, changed, take_counter,
       ClearList, FillList, Return, dbvars
  <2> QED
    BY <1>1, <1>2, <1>3, <2>1
<1> QED
  BY <1>4, <1>5, <1>6

\* The step that begins a load.
Begins(f) == (changed(f) \/ take_counter(f)) /\ BeginLoad(f)

LEMMA BeginsEffect ==
    ASSUME SInv, NEW f \in Families, Begins(f)
    PROVE  /\ call[f].at \in {"changed", "counter"}
           /\ call'[f].at = "load" /\ call'[f].of = "group"
           /\ current' \in {0, counter}
           /\ excuse' = (excuse \cap {"late_flush"})
                 \cup IF \E g \in Families \ {f} : Loading(g) THEN {"overlap"} ELSE {}
           /\ list' = list /\ stream' = stream
<1>1. /\ NInv /\ call[f].at \in {"changed", "counter"} /\ list' = list /\ stream' = stream
      /\ GoTo(f, "load")
      /\ excuse' = (excuse \cap {"late_flush"})
            \cup IF \E g \in Families \ {f} : Loading(g) THEN {"overlap"} ELSE {}
  BY DEF SInv, Begins, changed, take_counter, BeginLoad, listvars, dbvars
<1>2. call[f].of = "group"
  BY <1>1 DEF SInv, LoadsOK
<1>3. call'[f].at = "load" /\ call'[f].of = call[f].of
  BY <1>1, GoToType DEF Places
<1>4. current' \in {0, counter}
  <2>1. CASE take_counter(f)
    BY <2>1 DEF take_counter
  <2>2. ASSUME changed(f), ~(current' = 0) PROVE FALSE
    <3>1. \E place \in {"failed", "updated", "counter"} :
             GoTo(f, place) \/ UNCHANGED call
      BY <2>2 DEF changed
    <3>2. ASSUME NEW place \in {"failed", "updated", "counter"}, GoTo(f, place)
          PROVE  call'[f].at = place
      BY <1>1, <3>2, GoToType DEF Places
    <3> QED
      BY <1>1, <1>3, <3>1, <3>2
  <2> QED
    BY <2>1, <2>2 DEF Begins
<1> QED
  BY <1>1, <1>2, <1>3, <1>4

\* The other steps keep the observer and every excuse.
LEMMA CallExcuse ==
    ASSUME NEW f \in Families, CallMoves(f), ~Begins(f)
    PROVE  current' = current /\ excuse \subseteq excuse'
BY DEF CallMoves, Begins, setent, getent, lookup, Race, changed, take_counter,
   LoadScope, LoadDone, ClearList, FillList, Return, observervars

LEMMA CallPushers ==
    ASSUME SInv, NEW f \in Families, CallMoves(f)
    PROVE  PushersOK' /\ CounterOK' /\ LateOK'
<1>1. /\ file' = file /\ writer' = writer /\ sessions' = sessions
      /\ shm' = shm /\ counter' = counter /\ pushing' = pushing /\ loaded' = loaded
      /\ \A w \in Writers : stream'[w] = stream[w]
  BY CallKeeps, ProcsFacts
<1>2. PushersOK'
  BY <1>1 DEF SInv, PushersOK, Threw
<1>3. current' \in {current, 0, counter}
  BY BeginsEffect, CallExcuse
<1>4. Pending' = Pending
  BY <1>1 DEF Pending
<1>5. CounterOK'
  BY <1>1, <1>3, <1>4, CounterTypes DEF SInv, CounterOK
<1>6. "late_flush" \in excuse => "late_flush" \in excuse'
  BY BeginsEffect, CallExcuse
<1>7. LateOK'
  BY <1>1, <1>6 DEF SInv, LateOK
<1> QED
  BY <1>2, <1>5, <1>7

\* What the steps of a load do to the call.
LEMMA DoneEffect ==
    ASSUME SInv, NEW f \in Families, LoadDone(f)
    PROVE  /\ call[f].at = "load" /\ call'[f].of = call[f].of /\ list' = list
           /\ \/ call'[f].at = "failed" /\ "failed" \in excuse'
              \/ /\ call'[f].at = "clear" /\ call'[f].got = stream[f].got
                 /\ stream[f].got \notin {None, Empty}
<1>1. NInv /\ call[f].at = "load" /\ DOMAIN call = Families /\ call[f] \in CallRecs
  BY CallFacts, LoadDoneCalls DEF SInv
<1>2. stream[f].got # None
  BY <1>1 DEF LoadDone, DB!close, NInv, StreamsOK
<1> DEFINE c == [call[f] EXCEPT !.at = IF Threw(f) THEN "failed" ELSE "clear",
                                !.got = stream[f].got]
<1>3. /\ c.at = (IF Threw(f) THEN "failed" ELSE "clear")
      /\ c.of = call[f].of /\ c.got = stream[f].got
  BY <1>1 DEF CallRecs
<1>4. call' = [call EXCEPT ![f] = c]
  BY DEF LoadDone
<1> HIDE DEF c
<1>5. call'[f] = c
  BY <1>1, <1>4
<1>6. /\ list' = list
      /\ Threw(f) => "failed" \in excuse'
  BY DEF LoadDone, listvars
<1> QED
  BY <1>1, <1>2, <1>3, <1>5, <1>6 DEF Threw

LEMMA ClearEffect ==
    ASSUME SInv, NEW f \in Families, ClearList(f)
    PROVE  /\ call[f].at = "clear" /\ call'[f].at = "fill"
           /\ call'[f].of = call[f].of /\ call'[f].got = call[f].got
           /\ list'[call[f].of] = <<>>
           /\ \A l \in Lists \ {call[f].of} : list'[l] = list[l]
<1>1. /\ NInv /\ DOMAIN call = Families /\ call[f] \in CallRecs /\ call[f].of \in Lists
      /\ DOMAIN list = Lists
  BY CallFacts DEF SInv, NInv, ListsOK
<1> DEFINE c == [call[f] EXCEPT !.at = "fill"]
<1>2. c.at = "fill" /\ c.of = call[f].of /\ c.got = call[f].got
  BY <1>1 DEF CallRecs
<1>3. call' = [call EXCEPT ![f] = c]
  BY DEF ClearList, GoTo
<1> HIDE DEF c
<1>4. call'[f] = c
  BY <1>1, <1>3
<1>5. call[f].at = "clear" /\ list' = [list EXCEPT ![call[f].of] = <<>>]
  BY DEF ClearList
<1> QED
  BY <1>1, <1>2, <1>4, <1>5

LEMMA FillEffect ==
    ASSUME SInv, NEW f \in Families, FillList(f)
    PROVE  /\ call[f].at = "fill" /\ call'[f].of = "passwd"
           /\ call'[f].at = IF call[f].of = "group" THEN "load" ELSE "updated"
           /\ list[call[f].of] = <<>> => list'[call[f].of] = call[f].got
           /\ \A l \in Lists \ {call[f].of} : list'[l] = list[l]
           /\ stream'[f] = DB!NoStream
<1>1. /\ NInv /\ DOMAIN call = Families /\ call[f] \in CallRecs /\ call[f].of \in Lists
      /\ DOMAIN list = Lists
  BY CallFacts DEF SInv, NInv, ListsOK
<1> DEFINE place == IF call[f].of = "group" THEN "load" ELSE "updated"
           c == [call[f] EXCEPT !.of = "passwd", !.got = None, !.at = place]
<1>2. c.at = place /\ c.of = "passwd"
  BY <1>1 DEF CallRecs
<1>3. call' = [call EXCEPT ![f] = c]
  BY DEF FillList
<1> HIDE DEF c
<1>4. call'[f] = c
  BY <1>1, <1>3
<1>5. call[f].at = "fill" /\ list' = [list EXCEPT ![call[f].of] = @ \o call[f].got]
      /\ stream' = stream
  BY DEF FillList, dbvars
<1>6. call[f].got \in Seq(STRING)
  BY <1>1, <1>5, DocFacts DEF NInv, CallsOK
<1>7. <<>> \o call[f].got = call[f].got
  BY <1>6
<1>8. stream[f].at = "closed"
  BY <1>1, <1>5 DEF NInv, StreamsOK
<1>9. stream[f] = DB!NoStream
  BY <1>1, <1>8, WriterStream, ProcsFacts
<1> QED
  BY <1>1, <1>2, <1>4, <1>5, <1>7, <1>9

\* The steps before and after a load.
LEMMA OutsideEffect ==
    ASSUME SInv, NEW f \in Families,
           \/ setent(f) \/ lookup(f) \/ Return(f)
           \/ (changed(f) \/ take_counter(f)) /\ ~Begins(f)
    PROVE  /\ ~InLoad(f) /\ ~InLoad(f)' /\ list' = list /\ stream' = stream
           /\ call'[f].at \in {"changed", "counter"} => call'[f].of = "group"
<1>1. NInv /\ DOMAIN call = Families /\ call[f] \in CallRecs
  BY CallFacts DEF SInv
<1>2. list' = list /\ stream' = stream
  BY DEF setent, lookup, Return, changed, take_counter, listvars, dbvars
<1>3. CASE setent(f) \/ lookup(f)
  <2>1. PICK op \in {"setent", "lookup"} :
           call' = [call EXCEPT ![f] = [NoCall EXCEPT !.op = op, !.at = "changed"]]
    BY <1>3 DEF setent, lookup
  <2>2. call'[f].of = "group"
    BY <1>1, <2>1 DEF NoCall
  <2>3. call[f].at = "idle" /\ call'[f].at = "changed"
    BY <1>1, <1>3, BeginCalls
  <2> QED
    BY <1>2, <2>2, <2>3 DEF InLoad
<1>4. CASE Return(f)
  <2>1. call[f].at \in {"failed", "updated"} /\ call'[f].at = "idle"
    BY <1>1, <1>4, ReturnCalls
  <2> QED
    BY <1>2, <2>1 DEF InLoad
<1>5. CASE (changed(f) \/ take_counter(f)) /\ ~Begins(f)
  <2>1. call[f].at = "changed" /\ call[f].of = "group"
    BY <1>5 DEF Begins, changed, take_counter, SInv, LoadsOK
  <2>2. CASE call' = call
    BY <1>2, <2>1, <2>2 DEF InLoad
  <2>3. ASSUME NEW place \in {"failed", "updated", "counter"}, GoTo(f, place)
        PROVE  call'[f].at = place /\ call'[f].of = "group"
    BY <1>1, <2>1, <2>3, GoToType DEF Places
  <2>4. call' = call \/ \E place \in {"failed", "updated", "counter"} : GoTo(f, place)
    BY <1>5 DEF Begins, changed, take_counter
  <2> QED
    BY <1>2, <2>1, <2>2, <2>3, <2>4 DEF InLoad
<1> QED
  BY <1>3, <1>4, <1>5

\* The kinds of steps of a call.
LEMMA CallKinds ==
    ASSUME NEW f \in Families, CallMoves(f)
    PROVE  \/ Begins(f)
           \/ setent(f) \/ lookup(f) \/ Return(f)
           \/ ~Begins(f) /\ (changed(f) \/ take_counter(f))
           \/ LoadDone(f) \/ ClearList(f) \/ FillList(f)
           \/ LoadScope(f)
           \/ call' = call /\ list' = list /\ stream' = stream
BY DEF CallMoves, getent, Race, dbvars, listvars

LEMMA CallLoads ==
    ASSUME SInv, NEW f \in Families, CallMoves(f)
    PROVE  LoadsOK'
<1>1. /\ \A g \in Families \ {f} : call'[g] = call[g] /\ stream'[g] = stream[g]
      /\ stream'[f].mode = "r" /\ LoadsOK
  BY CallKeeps, ProcsFacts DEF SInv
<1>2. \A g \in Families : stream'[g].mode = "r"
  BY <1>1 DEF LoadsOK
<1>3. /\ call'[f].at \in {"changed", "counter"} => call'[f].of = "group"
      /\ Begins(f) \/ (InLoad(f)' => InLoad(f))
  <2>1. CASE Begins(f)
    BY <2>1, BeginsEffect
  <2>2. CASE \/ setent(f) \/ lookup(f) \/ Return(f)
             \/ (changed(f) \/ take_counter(f)) /\ ~Begins(f)
    BY <2>2, OutsideEffect
  <2>3. CASE LoadDone(f)
    BY <2>3, DoneEffect DEF InLoad
  <2>4. CASE ClearList(f)
    BY <2>4, ClearEffect DEF InLoad
  <2>5. CASE FillList(f)
    BY <2>5, FillEffect DEF InLoad
  <2>6. CASE LoadScope(f) \/ call' = call
    <3>1. call' = call
      BY <2>6 DEF LoadScope
    <3> QED
      BY <1>1, <3>1 DEF LoadsOK, InLoad
  <2> QED
    BY <2>1, <2>2, <2>3, <2>4, <2>5, <2>6, CallKinds
<1>4. ASSUME "overlap" \notin excuse', NEW g \in Families, NEW h \in Families,
             InLoad(g)', InLoad(h)'
      PROVE  g = h
  <2>1. CASE Begins(f)
    <3>1. ~ \E k \in Families \ {f} : Loading(k)
      BY <1>4, <2>1, BeginsEffect
    <3>2. \A k \in Families \ {f} : ~InLoad(k)'
      BY <1>1, <3>1 DEF Loading, InLoad
    <3> QED
      BY <1>4, <3>2
  <2>2. CASE ~Begins(f)
    <3>1. "overlap" \notin excuse
      BY <1>4, <2>2, CallExcuse
    <3>2. InLoad(g) /\ InLoad(h)
      BY <1>1, <1>3, <1>4, <2>2 DEF InLoad
    <3> QED
      BY <1>1, <3>1, <3>2 DEF LoadsOK
  <2> QED
    BY <2>1, <2>2
<1>5. \A g \in Families : call'[g].at \in {"changed", "counter"} => call'[g].of = "group"
  BY <1>1, <1>3 DEF LoadsOK
<1> QED
  BY <1>2, <1>4, <1>5 DEF LoadsOK

-----------------------------------------------------------------------------
(***************************************************************************)
(* What the loads have read, and the lists                                 *)
(***************************************************************************)
\* At the beginning of a load nothing has been read, and both lists are owed.
LEMMA BeginsFresh ==
    ASSUME SInv, NEW f \in Families, CallMoves(f), Begins(f)
    PROVE  FreshOK'
<1> SUFFICES ASSUME Certain'
             PROVE  /\ \A g \in Families : FreshCall(g)'
                    /\ \A l \in Lists : Owed(f, l)'
  BY DEF FreshOK
<1>1. /\ call[f].at \in {"changed", "counter"}
      /\ call'[f].at = "load" /\ call'[f].of = "group" /\ stream' = stream
      /\ ~ \E g \in Families \ {f} : Loading(g)
  BY BeginsEffect DEF Certain
<1>2. \A l \in Lists : Owed(f, l)'
  BY <1>1 DEF Owed, InLoad
<1>3. ASSUME NEW g \in Families, g # f PROVE FreshCall(g)'
  <2>1. call'[g] = call[g] /\ ~Loading(g)
    BY <1>1, <1>3, CallKeeps
  <2> QED
    BY <2>1 DEF FreshCall, Filling, Loading
<1>4. FreshCall(f)'
  <2>1. stream[f].at = "closed"
    BY <1>1 DEF SInv, NInv, StreamsOK
  <2>2. stream'[f] = DB!NoStream
    BY <1>1, <2>1, WriterStream, ProcsFacts DEF SInv
  <2> QED
    BY <1>1, <2>2, NoStreamFields DEF FreshCall, Filling
<1> QED
  BY <1>2, <1>3, <1>4

\* The other steps do not make the observer certain; calls leave the last
\* document the last one.
LEMMA CallFresh ==
    ASSUME SInv, NEW f \in Families, CallMoves(f), ~Begins(f), Certain'
    PROVE  /\ Certain
           /\ \A g \in Families : FreshCall(g)
           /\ \A l \in Lists : (\A g \in Families : ~Owed(g, l)) => Fresh(list[l])
           /\ \A d : Fresh(d)' <=> Fresh(d)
           /\ InLoad(f) => \A g \in Families \ {f} : ~InLoad(g)
<1>1. /\ file' = file /\ writer' = writer /\ counter' = counter
      /\ \A w \in Writers : stream'[w] = stream[w]
  BY CallKeeps, ProcsFacts
<1>2. Certain
  BY <1>1, CallExcuse DEF Certain
<1>3. \A d : Fresh(d)' <=> Fresh(d)
  BY <1>1 DEF Fresh
<1>4. "overlap" \notin excuse
  BY <1>2 DEF Certain
<1> QED
  BY <1>2, <1>3, <1>4 DEF SInv, FreshOK, LoadsOK

\* Another call's part, while f steps.
LEMMA OthersFresh ==
    ASSUME SInv, NEW f \in Families, CallMoves(f), ~Begins(f), Certain',
           NEW g \in Families, g # f, InLoad(f) \/ list' = list
    PROVE  FreshCall(g)'
<1>1. call'[g] = call[g] /\ stream'[g] = stream[g] /\ FreshCall(g)
  BY CallKeeps, CallFresh, ProcsFacts
<1>2. CASE InLoad(f)
  <2>1. ~InLoad(g)
    BY <1>2, CallFresh
  <2> QED
    BY <1>1, <2>1 DEF FreshCall, Filling, InLoad
<1>3. CASE list' = list
  <2>1. \A d : Fresh(d)' <=> Fresh(d)
    BY CallFresh
  <2>2. /\ call[g].at \in {"clear", "fill"} => Fresh(call[g].got)'
        /\ call[g].at = "load" =>
              /\ stream[g].pre # None => Fresh(stream[g].pre)'
              /\ stream[g].got \notin {None, Empty} => Fresh(stream[g].got)'
    BY <1>1, <2>1 DEF FreshCall
  <2> QED
    BY <1>1, <1>3, <2>2 DEF FreshCall, Filling
<1> QED
  BY <1>2, <1>3

\* Steps that neither read nor write a list.
LEMMA OutsideFresh ==
    ASSUME SInv, NEW f \in Families, CallMoves(f), ~Begins(f),
           list' = list, stream' = stream,
           call' = call \/ (~InLoad(f) /\ ~InLoad(f)')
    PROVE  FreshOK'
<1> SUFFICES ASSUME Certain'
             PROVE  /\ \A g \in Families : FreshCall(g)'
                    /\ \A l \in Lists :
                          (\A g \in Families : ~Owed(g, l)') => Fresh(list[l])'
  BY DEF FreshOK
<1>1. /\ \A d : Fresh(d)' <=> Fresh(d)
      /\ \A g \in Families : FreshCall(g)
      /\ \A l \in Lists : (\A g \in Families : ~Owed(g, l)) => Fresh(list[l])
  BY CallFresh
<1>2. \A g \in Families \ {f} : call'[g] = call[g]
  BY CallKeeps
<1>3. FreshCall(f)'
  <2>1. CASE call' = call
    <3>1. FreshCall(f)
      BY <1>1
    <3>2. /\ call[f].at \in {"clear", "fill"} => Fresh(call[f].got)'
          /\ call[f].at = "load" =>
                /\ stream[f].pre # None => Fresh(stream[f].pre)'
                /\ stream[f].got \notin {None, Empty} => Fresh(stream[f].got)'
      BY <1>1, <2>1, <3>1 DEF FreshCall
    <3> QED
      BY <2>1, <3>1, <3>2 DEF FreshCall, Filling
  <2>2. CASE ~InLoad(f)'
    BY <2>2 DEF FreshCall, Filling, InLoad
  <2> QED
    BY <2>1, <2>2
<1>4. ASSUME NEW l \in Lists, \A g \in Families : ~Owed(g, l)' PROVE Fresh(list[l])'
  <2>1. ASSUME NEW g \in Families PROVE ~Owed(g, l)
    BY <1>2, <1>4 DEF Owed, InLoad
  <2> QED
    BY <1>1, <2>1
<1> QED
  BY <1>3, <1>4, OthersFresh

\* The scope: what is in the file, or was when the scope was opened, is the
\* last document, because no document waits in a buffer while the file has one.
LEMMA ScopeFresh ==
    ASSUME SInv, NEW f \in Families, CallMoves(f), ~Begins(f), LoadScope(f)
    PROVE  FreshOK'
<1> SUFFICES ASSUME Certain'
             PROVE  /\ \A g \in Families : FreshCall(g)'
                    /\ \A l \in Lists :
                          (\A g \in Families : ~Owed(g, l)') => Fresh(list[l])'
  BY DEF FreshOK
<1>1. /\ Certain
      /\ \A d : Fresh(d)' <=> Fresh(d)
      /\ \A g \in Families : FreshCall(g)
      /\ \A l \in Lists : (\A g \in Families : ~Owed(g, l)) => Fresh(list[l])
  BY CallFresh
<1>2. call' = call /\ list' = list
  BY DEF LoadScope, listvars
<1>3. /\ NInv /\ DOMAIN stream = Procs /\ f \in Procs /\ stream[f] \in DBP!Streams
  BY StreamFacts DEF SInv
<1>4. file["user"] # Empty => Fresh(file["user"])
  BY <1>1 DEF SInv, LateOK, Certain, Fresh
<1>5. FreshCall(f)'
  <2>1. /\ stream'[f].pre # None => Fresh(stream'[f].pre)
        /\ stream'[f].got \notin {None, Empty} => Fresh(stream'[f].got)
        /\ call[f].at = "load"
    <3>1. CASE call[f].at = "load" /\ DB!open(f, "user", "r")
      <4>1. /\ stream'[f].pre = (IF file["user"] = Empty THEN None ELSE file["user"])
            /\ stream'[f].got = None
        BY <1>3, <3>1 DEF DB!open, DB!NoStream
      <4> QED
        BY <1>4, <3>1, <4>1
    <3>2. CASE DB!lock_read(f) \/ DB!read(f) \/ (stream[f].got # None /\ DB!unlock(f))
      <4>1. stream[f].at # "closed"
        BY <3>2 DEF DB!lock_read, DB!read, DB!unlock
      <4>2. call[f].at = "load" /\ stream[f].db = "user"
        BY <1>3, <4>1, WriterStream DEF NInv, StreamsOK
      <4>3. /\ stream[f].pre # None => Fresh(stream[f].pre)
            /\ stream[f].got \notin {None, Empty} => Fresh(stream[f].got)
        BY <1>1, <4>2 DEF FreshCall
      <4>4. CASE DB!lock_read(f) \/ DB!unlock(f)
        <5>1. stream'[f].pre = stream[f].pre /\ stream'[f].got = stream[f].got
          BY <1>3, <4>4 DEF DB!lock_read, DB!unlock, DBP!Streams
        <5> QED
          BY <4>2, <4>3, <5>1
      <4>5. CASE DB!read(f)
        <5>1. /\ stream'[f].pre = stream[f].pre
              /\ stream'[f].got = IF stream[f].pre # None THEN stream[f].pre
                                  ELSE file["user"]
          BY <1>3, <4>2, <4>5 DEF DB!read, DB!Contents, DBP!Streams
        <5> QED
          BY <1>4, <4>2, <4>3, <5>1
      <4> QED
        BY <3>2, <4>4, <4>5
    <3> QED
      BY <3>1, <3>2 DEF LoadScope
  <2>2. /\ stream'[f].pre # None => Fresh(stream[f].pre)'
        /\ stream'[f].got \notin {None, Empty} => Fresh(stream[f].got)'
    BY <1>1, <2>1
  <2> QED
    BY <1>2, <2>1, <2>2 DEF FreshCall, Filling
<1>6. ASSUME NEW l \in Lists, \A g \in Families : ~Owed(g, l)' PROVE Fresh(list[l])'
  BY <1>1, <1>2, <1>6 DEF Owed, InLoad
<1> QED
  BY <1>2, <1>5, <1>6, OthersFresh

\* The steps of a load on its list: the call of f is the only load.
LEMMA ListFresh ==
    ASSUME SInv, NEW f \in Families, CallMoves(f), ~Begins(f),
           LoadDone(f) \/ ClearList(f) \/ FillList(f)
    PROVE  FreshOK'
<1> SUFFICES ASSUME Certain'
             PROVE  /\ \A g \in Families : FreshCall(g)'
                    /\ \A l \in Lists :
                          (\A g \in Families : ~Owed(g, l)') => Fresh(list[l])'
  BY DEF FreshOK
<1>1. \A d : Fresh(d)' <=> Fresh(d)
  BY CallFresh
<1>2. FreshCall(f) /\ excuse' = {}
      /\ \A l \in Lists : (\A g \in Families : ~Owed(g, l)) => Fresh(list[l])
  BY CallFresh DEF Certain
<1>3. InLoad(f)
  BY DoneEffect, ClearEffect, FillEffect DEF InLoad
<1>4. \A g \in Families \ {f} : ~InLoad(g)
  BY <1>3, CallFresh
<1>5. \A g \in Families \ {f} : FreshCall(g)'
  BY <1>3, OthersFresh
<1>6. call[f].of \in Lists
  BY CallFacts DEF SInv
\* A list that is not owed after the step was not before, or f has filled it.
<1>7. ASSUME NEW l \in Lists, ~Owed(f, l), list'[l] = list[l]
      PROVE  Fresh(list[l])'
  <2>1. \A g \in Families : ~Owed(g, l)
    BY <1>4, <1>7 DEF Owed
  <2>2. Fresh(list[l])
    BY <1>2, <2>1
  <2> QED
    BY <1>1, <1>7, <2>2
<1>8. CASE LoadDone(f)
  <2>1. /\ call[f].at = "load" /\ call'[f].of = call[f].of /\ list' = list
        /\ call'[f].at = "clear" /\ call'[f].got = stream[f].got
        /\ stream[f].got \notin {None, Empty}
    BY <1>2, <1>8, DoneEffect
  <2>2. Fresh(stream[f].got)
    BY <1>2, <2>1 DEF FreshCall
  <2>3. Fresh(call[f].got)'
    BY <1>1, <2>1, <2>2
  <2>4. FreshCall(f)'
    BY <2>1, <2>3 DEF FreshCall, Filling
  <2>5. \A l \in Lists : Owed(f, l) => Owed(f, l)'
    BY <2>1 DEF Owed, InLoad
  <2> QED
    BY <1>5, <1>7, <2>1, <2>4, <2>5
<1>9. CASE ClearList(f)
  <2>1. /\ call[f].at = "clear" /\ call'[f].at = "fill"
        /\ call'[f].of = call[f].of /\ call'[f].got = call[f].got
        /\ list'[call[f].of] = <<>>
        /\ \A l \in Lists \ {call[f].of} : list'[l] = list[l]
    BY <1>9, ClearEffect
  <2>2. Fresh(call[f].got)
    BY <1>2, <2>1 DEF FreshCall
  <2>3. Fresh(call[f].got)'
    BY <1>1, <2>1, <2>2
  <2>4. FreshCall(f)'
    BY <2>1, <2>3 DEF FreshCall, Filling
  <2>5. \A l \in Lists : Owed(f, l) => Owed(f, l)'
    BY <2>1 DEF Owed, InLoad
  <2>6. Owed(f, call[f].of)
    BY <2>1 DEF Owed, InLoad
  <2> QED
    BY <1>5, <1>7, <2>1, <2>4, <2>5, <2>6
<1>10. CASE FillList(f)
  <2>1. /\ call[f].at = "fill" /\ call'[f].of = "passwd"
        /\ call'[f].at = IF call[f].of = "group" THEN "load" ELSE "updated"
        /\ list[call[f].of] = <<>> => list'[call[f].of] = call[f].got
        /\ \A l \in Lists \ {call[f].of} : list'[l] = list[l]
        /\ stream'[f] = DB!NoStream
    BY <1>10, FillEffect
  <2>2. Fresh(call[f].got) /\ list[call[f].of] = <<>>
    BY <1>2, <1>6, <2>1 DEF FreshCall, Filling
  <2>3. FreshCall(f)'
    BY <2>1, NoStreamFields DEF FreshCall, Filling
  <2>4. ASSUME NEW l \in Lists, ~Owed(f, l)' PROVE Fresh(list[l])'
    <3>1. CASE l = call[f].of
      <4>1. list'[l] = call[f].got
        BY <2>1, <2>2, <3>1
      <4> QED
        BY <1>1, <2>2, <4>1
    <3>2. CASE l # call[f].of
      <4>1. list'[l] = list[l] /\ call[f].of \in {"group", "passwd"}
        BY <1>6, <2>1, <3>2 DEF Lists
      <4>2. ~Owed(f, l)
        BY <2>1, <2>4, <3>2, <4>1 DEF Owed, InLoad, Lists
      <4> QED
        BY <1>7, <4>1, <4>2
    <3> QED
      BY <3>1, <3>2
  <2> QED
    BY <1>5, <2>3, <2>4
<1> QED
  BY <1>8, <1>9, <1>10

LEMMA CallFreshOK ==
    ASSUME SInv, NEW f \in Families, CallMoves(f)
    PROVE  FreshOK'
<1>1. CASE Begins(f)
  BY <1>1, BeginsFresh
<1>2. ASSUME ~Begins(f),
             \/ setent(f) \/ lookup(f) \/ Return(f)
             \/ changed(f) \/ take_counter(f)
      PROVE  FreshOK'
  BY <1>2, OutsideEffect, OutsideFresh
<1>3. ASSUME ~Begins(f), LoadDone(f) \/ ClearList(f) \/ FillList(f)
      PROVE  FreshOK'
  BY <1>3, ListFresh
<1>4. ASSUME ~Begins(f), LoadScope(f)
      PROVE  FreshOK'
  BY <1>4, ScopeFresh
<1>5. ASSUME ~Begins(f), call' = call, list' = list, stream' = stream
      PROVE  FreshOK'
  BY <1>5, OutsideFresh
<1> QED
  BY <1>1, <1>2, <1>3, <1>4, <1>5, CallKinds

-----------------------------------------------------------------------------
LEMMA InitSInv == Init => SInv
<1> SUFFICES ASSUME Init PROVE SInv
  OBVIOUS
<1>1. NInv
  BY InitNInv
<1>2. \A p \in Procs : stream[p] = DB!NoStream /\ pushing[p] = "no"
  BY DEF Init, Obs!ShmInit
<1>3. PushersOK
  BY <1>2, ProcsFacts, NoStreamFields DEF Init, PushersOK
<1>4. CounterOK
  <2>1. Pending = {}
    BY DEF Init, Pending, PendingJobs
  <2> QED
    BY <2>1, FS_EmptySet DEF Init, Obs!ShmInit, CounterOK
<1>5. LateOK
  BY <1>2, ProcsFacts, NoStreamFields DEF LateOK
<1>6. LoadsOK
  BY <1>2, ProcsFacts, NoStreamFields, NoCallFacts DEF Init, LoadsOK, InLoad
<1>7. FreshOK
  <2>1. current = UINT_MAX /\ counter = 0
    BY DEF Init, Obs!ShmInit
  <2>2. ~Certain
    BY <1>1, <2>1, CounterTypes DEF Certain
  <2> QED
    BY <2>2 DEF FreshOK
<1> QED
  BY <1>1, <1>3, <1>4, <1>5, <1>6, <1>7 DEF SInv

LEMMA StepSInv == SInv /\ [Next]_vars => SInv'
<1> SUFFICES ASSUME SInv, [Next]_vars PROVE SInv'
  OBVIOUS
<1>1. NInv'
  BY StepNInv DEF SInv
<1>2. ASSUME NEW w \in Writers, WriterMoves(w)
      PROVE  PushersOK' /\ CounterOK' /\ LateOK' /\ LoadsOK' /\ FreshOK'
  BY <1>2, WriterPushers, WriterCounter, WriterLate, WriterLoads, WriterFreshOK
<1>3. ASSUME NEW f \in Families, CallMoves(f)
      PROVE  PushersOK' /\ CounterOK' /\ LateOK' /\ LoadsOK' /\ FreshOK'
  BY <1>3, CallPushers, CallLoads, CallFreshOK
<1>4. ASSUME UNCHANGED vars
      PROVE  PushersOK' /\ CounterOK' /\ LateOK' /\ LoadsOK' /\ FreshOK'
  BY <1>4 DEF vars, dbvars, shmvars, writervars, observervars, listvars, SInv,
     PushersOK, Threw, CounterOK, Pending, LateOK, LoadsOK, InLoad, FreshOK, Certain, Fresh,
     FreshCall, Filling, Owed
<1> QED
  BY <1>1, <1>2, <1>3, <1>4, StepCases DEF SInv

THEOREM StalenessInvariance == Spec => []SInv
BY InitSInv, StepSInv, PTL DEF Spec

(***************************************************************************)
(* The lists of an NSS client that is at rest and has seen the last push   *)
(* are the database, for any number of writers, any documents and any      *)
(* deaths of writers, unless one of the five things has happened that      *)
(* StalenessIsExplained names.                                             *)
(***************************************************************************)
THEOREM StalenessExplained == Spec => []StalenessIsExplained
<1>1. SInv => StalenessIsExplained
  <2> SUFFICES ASSUME SInv, Quiet, excuse = {}, NEW l \in Lists
               PROVE  list[l] = file["user"]
    BY DEF StalenessIsExplained
  <2>1. Certain /\ \A f \in Families : ~Owed(f, l)
    BY DEF Quiet, Certain, Owed, InLoad
  <2>2. Fresh(list[l])
    BY <2>1 DEF SInv, FreshOK
  <2> QED
    BY <2>2, NssAssumptions DEF Quiet, Fresh
<1> QED
  BY <1>1, StalenessInvariance, PTL

=============================================================================
