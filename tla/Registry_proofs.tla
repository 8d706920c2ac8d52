--------------------------- MODULE Registry_proofs ---------------------------
(***************************************************************************)
(* Gate implements UserRegistry, for any processes, names, passwords, user *)
(* structs, methods and bounds.  The copy of a process is a good document  *)
(* by the invariant of Gate_proofs; what has to be added is that a stream  *)
(* of FileDB::create belongs to a job that writes the bare struct.         *)
(***************************************************************************)
EXTENDS GateRegistry, Gate_proofs

copies == [p \in Procs |-> CopyOf(stream[p])]
dues == [p \in Procs |-> DueOf(stream[p])]

\* The copies and the dues of the registry when one stream changes.
LEMMA OneStream ==
    ASSUME NEW p \in Procs, Procs = DOMAIN stream, NEW s,
           stream' = [stream EXCEPT ![p] = s]
    PROVE  /\ copies' = [copies EXCEPT ![p] = CopyOf(s)]
           /\ dues' = [dues EXCEPT ![p] = DueOf(s)]
<1>1. stream'[p] = s /\ \A q \in Procs \ {p} : stream'[q] = stream[q]
  OBVIOUS
<1> QED
  BY <1>1 DEF copies, dues

\* Blank streams have no copy and owe nothing.
LEMMA BlankStream ==
    CopyOf(DB!NoStream) = None /\ DueOf(DB!NoStream) = None
BY DEF CopyOf, DueOf, DB!NoStream

-----------------------------------------------------------------------------
(***************************************************************************)
(* Steps of the files, as steps of the registry                            *)
(***************************************************************************)
RegStep == Registry!RegNext \/ UNCHANGED Registry!regvars

\* A step that changes no file, copy or due is a stutter of the registry.
LEMMA SameRegistry ==
    ASSUME file' = file, copies' = copies, dues' = dues
    PROVE  RegStep
BY DEF RegStep, Registry!regvars, copies, dues

\* The actions of the registry in the terms of this module.
LEMMA TakeStep ==
    ASSUME NEW p \in Procs, NEW f \in Files, copies[p] = None, dues[p] = None,
           file[f] \notin {Absent, Empty}, file' = file, dues' = dues,
           copies' = [copies EXCEPT ![p] = [db |-> f, doc |-> file[f]]]
    PROVE  RegStep
<1>1. Registry!Take(p, f)
  BY DEF Registry!Take, Registry!Of, copies, dues
<1> QED
  BY <1>1 DEF RegStep, Registry!RegNext

LEMMA CreateStep ==
    ASSUME NEW p \in Procs, NEW f \in Files, copies[p] = None, dues[p] = None,
           file' = [file EXCEPT ![f] = Empty], copies' = copies,
           dues' = [dues EXCEPT ![p] = [db |-> f, doc |-> Bare]]
    PROVE  RegStep
<1>1. Registry!Create(p, f)
  BY DEF Registry!Create, Registry!Announce, Registry!Of, copies, dues
<1> QED
  BY <1>1 DEF RegStep, Registry!RegNext

\* Filling the buffer at open takes a copy, if there is a document.
LEMMA OpenMaps ==
    ASSUME GInv, NEW p \in Procs, NEW f \in Files, NEW mode \in {"r", "r+"},
           DB!open(p, f, mode)
    PROVE  RegStep
<1> DEFINE pre == IF file[f] = Empty THEN None ELSE file[f]
           s == [DB!NoStream EXCEPT !.db = f, !.mode = mode, !.at = "opened",
                                    !.pre = pre]
<1>1. /\ Procs = DOMAIN stream
      /\ stream[p] = DB!NoStream
      /\ file[f] \in Docs \cup {Absent, Empty}
  BY DEF DB!open, GInv, TypeOK, DB!DBTypeOK, StreamsGood, StreamOK
<1>2. stream' = [stream EXCEPT ![p] = s] /\ file' = file /\ file[f] # Absent
  BY DEF DB!open, DB!exists
<1>3. /\ s.got = None /\ s.out = None /\ s.db = f /\ s.mode # "wb"
      /\ s.pre = pre
  BY DEF DB!NoStream
<1>4. copies[p] = None /\ dues[p] = None
  BY <1>1, BlankStream DEF copies, dues
<1>7. /\ copies' = [copies EXCEPT ![p] = CopyOf(s)]
      /\ dues' = [dues EXCEPT ![p] = DueOf(s)]
  <2> HIDE DEF s
  <2> QED
    BY <1>1, <1>2, OneStream
<1> HIDE DEF s
<1>5. CASE file[f] = Empty
  <2>1. CopyOf(s) = None /\ DueOf(s) = None
    BY <1>3, <1>5 DEF CopyOf, DueOf
  <2>2. copies' = [copies EXCEPT ![p] = None] /\ dues' = [dues EXCEPT ![p] = None]
    BY <1>7, <2>1
  <2>3. copies' = copies /\ dues' = dues
    BY <1>4, <2>2 DEF copies, dues
  <2> QED
    BY <1>2, <2>3, SameRegistry
<1>6. CASE file[f] # Empty
  <2>1. s.pre = file[f] /\ file[f] # None
    BY <1>1, <1>2, <1>3, <1>6, DBAssumption, DocsAreDocs DEF DB!DistinctContents
  <2>2. CopyOf(s) = [db |-> f, doc |-> file[f]] /\ DueOf(s) = None
    BY <1>3, <2>1 DEF CopyOf, DueOf
  <2>3. /\ copies' = [copies EXCEPT ![p] = [db |-> f, doc |-> file[f]]]
        /\ dues' = [dues EXCEPT ![p] = None]
    BY <1>7, <2>2
  <2>4. dues' = dues
    BY <1>4, <2>3 DEF dues
  <2> QED
    BY <1>2, <1>4, <1>6, <2>3, <2>4, TakeStep
<1> QED
  BY <1>5, <1>6

\* The fopen of FileDB::create announces the bare struct.
LEMMA CreateMaps ==
    ASSUME GInv, NEW p \in Procs, NEW f \in Files, DB!create(p, f)
    PROVE  RegStep
<1> DEFINE s == [DB!NoStream EXCEPT !.db = f, !.mode = "wb", !.at = "opened"]
<1>1. Procs = DOMAIN stream /\ stream[p] = DB!NoStream
  BY DEF DB!create, GInv, TypeOK, DB!DBTypeOK, StreamsGood, StreamOK
<1>2. /\ stream' = [stream EXCEPT ![p] = s]
      /\ file' = [file EXCEPT ![f] = Empty]
  BY DEF DB!create
<1>3. /\ s.got = None /\ s.pre = None /\ s.out = None
      /\ s.db = f /\ s.mode = "wb"
  BY DEF DB!NoStream
<1> HIDE DEF s
<1>4. CopyOf(s) = None /\ DueOf(s) = [db |-> f, doc |-> Bare]
  BY <1>3 DEF CopyOf, DueOf
<1>5. copies[p] = None /\ dues[p] = None
  BY <1>1, BlankStream DEF copies, dues
<1>6. /\ copies' = [copies EXCEPT ![p] = None]
      /\ dues' = [dues EXCEPT ![p] = [db |-> f, doc |-> Bare]]
  <2>1. /\ copies' = [copies EXCEPT ![p] = CopyOf(s)]
        /\ dues' = [dues EXCEPT ![p] = DueOf(s)]
    BY <1>1, <1>2, OneStream
  <2> QED
    BY <1>4, <2>1
<1>7. copies' = copies
  BY <1>5, <1>6 DEF copies
<1> QED
  BY <1>2, <1>5, <1>6, <1>7, CreateStep

\* The position of a stream is nothing to the registry.
LEMMA PositionMaps ==
    ASSUME GInv, NEW p \in Procs, DB!lock_read(p) \/ DB!lock_write(p) \/ DB!unlock(p)
    PROVE  RegStep
<1>1. PICK at : stream' = [stream EXCEPT ![p].at = at] /\ file' = file
  BY DEF DB!lock_read, DB!lock_write, DB!unlock
<1> DEFINE s == [stream[p] EXCEPT !.at = at]
<1>2. Procs = DOMAIN stream /\ stream[p] \in DB!Streams
  BY DEF GInv, TypeOK, DB!DBTypeOK
<1>3. stream' = [stream EXCEPT ![p] = s]
  BY <1>1
<1>4. /\ s.db = stream[p].db /\ s.mode = stream[p].mode /\ s.pre = stream[p].pre
      /\ s.got = stream[p].got /\ s.out = stream[p].out
  BY <1>2 DEF DB!Streams
<1> HIDE DEF s
<1>5. CopyOf(s) = copies[p] /\ DueOf(s) = dues[p]
  BY <1>4 DEF CopyOf, DueOf, copies, dues
<1>6. copies' = copies /\ dues' = dues
  BY <1>2, <1>3, <1>5, OneStream DEF copies, dues
<1> QED
  BY <1>1, <1>6, SameRegistry

\* A read delivers what was in the buffer, or takes its copy now.
LEMMA ReadMaps ==
    ASSUME GInv, NEW p \in Procs, DB!read(p)
    PROVE  RegStep
<1> DEFINE s == [stream[p] EXCEPT !.got = DB!Contents(p)]
           f == stream[p].db
<1>1. /\ Procs = DOMAIN stream /\ stream[p] \in DB!Streams
      /\ file \in [Files -> Docs \cup {Absent, Empty}]
      /\ f \in Files /\ file[f] # Absent
  BY DEF DB!read, GInv, TypeOK, DB!DBTypeOK, StreamsGood, StreamOK, GoodStream
<1>2. /\ stream' = [stream EXCEPT ![p] = s] /\ file' = file
      /\ stream[p].got = None /\ stream[p].out = None /\ stream[p].mode # "wb"
  BY DEF DB!read
<1>3. /\ s.db = f /\ s.mode = stream[p].mode /\ s.pre = stream[p].pre
      /\ s.got = DB!Contents(p) /\ s.out = None
  BY <1>1, <1>2 DEF DB!Streams
<1>4. /\ copies' = [copies EXCEPT ![p] = CopyOf(s)]
      /\ dues' = [dues EXCEPT ![p] = DueOf(s)]
  <2> HIDE DEF s
  <2> QED
    BY <1>1, <1>2, OneStream
<1> HIDE DEF s
<1>5. dues[p] = None /\ DueOf(s) = None
  BY <1>2, <1>3 DEF dues, DueOf
<1>6. dues' = dues
  BY <1>4, <1>5 DEF dues
<1>7. CASE stream[p].pre # None
  <2>1. stream[p].pre \in Docs /\ s.got = stream[p].pre
    BY <1>1, <1>3, <1>7 DEF DB!Streams, DB!Contents
  <2>2. s.got \notin {None, Empty}
    BY <2>1, DBAssumption DEF DB!DistinctContents
  <2>3. CopyOf(s) = [db |-> f, doc |-> stream[p].pre]
    BY <1>3, <2>1, <2>2 DEF CopyOf
  <2>4. copies[p] = [db |-> f, doc |-> stream[p].pre]
    BY <1>2, <1>7 DEF copies, CopyOf
  <2>5. copies' = copies
    BY <1>4, <2>3, <2>4 DEF copies
  <2> QED
    BY <1>2, <1>6, <2>5, SameRegistry
<1>8. CASE stream[p].pre = None
  <2>1. s.got = file[f]
    BY <1>3, <1>8 DEF DB!Contents
  <2>2. copies[p] = None
    BY <1>2, <1>8 DEF copies, CopyOf
  <2>3. CASE file[f] = Empty
    <3>1. CopyOf(s) = None
      BY <1>3, <1>8, <2>1, <2>3 DEF CopyOf
    <3>2. copies' = copies
      BY <1>4, <2>2, <3>1 DEF copies
    <3> QED
      BY <1>2, <1>6, <3>2, SameRegistry
  <2>4. CASE file[f] # Empty
    <3>1. file[f] \in Docs
      BY <1>1, <2>4
    <3>2. file[f] \notin {None, Empty, Absent}
      BY <3>1, DBAssumption DEF DB!DistinctContents
    <3>3. CopyOf(s) = [db |-> f, doc |-> file[f]]
      BY <1>3, <2>1, <3>2 DEF CopyOf
    <3> QED
      BY <1>1, <1>2, <1>4, <1>5, <1>6, <2>2, <3>2, <3>3, TakeStep
  <2> QED
    BY <2>3, <2>4
<1> QED
  BY <1>7, <1>8

\* The flush publishes; a close without one, and a death, drop the copy.
LEMMA EndMaps ==
    ASSUME GInv, NEW p \in Procs, DB!close(p) \/ DB!kill(p)
    PROVE  RegStep
<1>1. Procs = DOMAIN stream /\ stream' = [stream EXCEPT ![p] = DB!NoStream]
  BY DEF DB!close, DB!kill, GInv, TypeOK, DB!DBTypeOK
<1>2. /\ copies' = [copies EXCEPT ![p] = None]
      /\ dues' = [dues EXCEPT ![p] = None]
  <2>1. /\ copies' = [copies EXCEPT ![p] = CopyOf(DB!NoStream)]
        /\ dues' = [dues EXCEPT ![p] = DueOf(DB!NoStream)]
    BY <1>1, OneStream
  <2> QED
    BY <2>1, BlankStream
<1>3. CASE file' = file
  <2>1. Registry!Drop(p)
    BY <1>2, <1>3 DEF Registry!Drop, copies, dues
  <2> QED
    BY <2>1 DEF RegStep, Registry!RegNext
<1>4. CASE stream[p].out # None /\ file' = [file EXCEPT ![stream[p].db] = stream[p].out]
  <2>1. dues[p] = [db |-> stream[p].db, doc |-> stream[p].out]
    BY <1>4 DEF dues, DueOf
  <2>2. dues[p] # None
    <3>1. stream[p] # DB!NoStream
      BY <1>4 DEF DB!NoStream
    <3>2. stream[p].db \in Files /\ stream[p].out \in Docs
      BY <1>4, <3>1, GoodIsDoc DEF GInv, StreamsGood, StreamOK, GoodStream
    <3> QED
      BY <2>1, <3>2, NoneIsNoRecord
  <2>3. dues[p].db = stream[p].db /\ dues[p].doc = stream[p].out
    BY <2>1
  <2>4. file' = [file EXCEPT ![dues[p].db] = dues[p].doc]
    BY <1>4, <2>3
  <2>5. Registry!Publish(p)
    BY <1>2, <2>2, <2>4 DEF Registry!Publish, copies, dues
  <2> QED
    BY <2>5 DEF RegStep, Registry!RegNext
<1> QED
  BY <1>3, <1>4 DEF DB!close, DB!kill

-----------------------------------------------------------------------------
(***************************************************************************)
(* Writing                                                                 *)
(***************************************************************************)
\* Only the jobs that create a database have a stream of FileDB::create.
ModeInv ==
    \A p \in Procs :
        IF stream[p].at = "closed" THEN stream[p].mode # "wb"
        ELSE stream[p].mode = "wb" <=> task[p].job \in CreateJobs

\* A write with no document owed announces NewDoc.
LEMMA WriteStream ==
    ASSUME GInv, NEW p \in Procs, WriteScope(p)
    PROVE  /\ file' = [file EXCEPT ![stream[p].db] = Empty]
           /\ stream[p].db \in Files /\ stream[p].db = DbOf(task[p].job)
           /\ copies' = copies
           /\ dues' = [dues EXCEPT ![p] =
                          [db |-> stream[p].db, doc |-> NewDoc(p)]]
           /\ stream[p].out = None
<1> DEFINE s == [stream[p] EXCEPT !.out = NewDoc(p)]
           f == stream[p].db
<1>1. /\ Procs = DOMAIN stream /\ stream[p] \in DB!Streams
      /\ f \in Files /\ f = DbOf(task[p].job)
  BY DEF WriteScope, DB!write, GInv, TypeOK, DB!DBTypeOK, StreamsGood, StreamOK, GoodStream
<1>2. /\ stream' = [stream EXCEPT ![p] = s]
      /\ file' = [file EXCEPT ![f] = Empty]
      /\ stream[p].out = None
  BY DEF WriteScope, DB!write
<1>3. NewDoc(p) # None
  BY NewDocGood, GoodIsDoc
<1>4. /\ s.db = f /\ s.pre = stream[p].pre /\ s.got = stream[p].got
      /\ s.out = NewDoc(p)
  BY <1>1 DEF DB!Streams
<1>5. /\ copies' = [copies EXCEPT ![p] = CopyOf(s)]
      /\ dues' = [dues EXCEPT ![p] = DueOf(s)]
  <2> HIDE DEF s
  <2> QED
    BY <1>1, <1>2, OneStream
<1> HIDE DEF s
<1>6. CopyOf(s) = copies[p]
  BY <1>4 DEF CopyOf, copies
<1>7. copies' = copies
  BY <1>5, <1>6 DEF copies
<1>8. DueOf(s) = [db |-> f, doc |-> NewDoc(p)]
  BY <1>3, <1>4 DEF DueOf
<1> QED
  BY <1>1, <1>2, <1>5, <1>7, <1>8

\* update_db and update_shadow_db announce a change of the copy.
LEMMA UpdateIsChange ==
    ASSUME GInv, NEW p \in Procs, WriteScope(p),
           task[p].job \in {"update_db", "update_shadow_db"}
    PROVE  /\ copies[p] = [db |-> stream[p].db, doc |-> stream[p].got]
           /\ copies[p] # None /\ stream[p].got # Bare
           /\ NewDoc(p) \in Registry!Changes(stream[p].db, stream[p].got)
<1>1. /\ stream[p].got \notin {None, Empty, Bare}
      /\ stream[p].db \in Files /\ stream[p].db = DbOf(task[p].job)
      /\ Good(stream[p].db, stream[p].got, vouched)
  BY DEF WriteScope, DB!write, GInv, StreamsGood, StreamOK, GoodStream, ReadJobs, Threw
<1>2. copies[p] = [db |-> stream[p].db, doc |-> stream[p].got]
  BY <1>1 DEF copies, CopyOf
<1>3. copies[p] # None
  BY <1>1, <1>2, GoodIsDoc, NoneIsNoRecord
<1>4. CASE task[p].job = "update_db"
  <2>1. task[p].user \in UserRecs /\ stream[p].db = "user"
    BY <1>1, <1>4 DEF GInv, JobsHaveInputs, DbOf, UserJobs
  <2>2. NewDoc(p) = Upsert(stream[p].got, task[p].user)
    BY <1>4 DEF NewDoc, CreateJobs
  <2>3. NewDoc(p) = Registry!StoreUser(stream[p].got, task[p].user)
    BY <2>2 DEF Upsert, Registry!StoreUser
  <2> QED
    BY <1>1, <1>2, <1>3, <2>1, <2>3 DEF Registry!Changes
<1>5. CASE task[p].job = "update_shadow_db"
  <2> DEFINE entry == [name |-> task[p].id, key |-> task[p].pw, expire |-> clock + Life]
  <2>1. /\ task[p].id \in Ids /\ task[p].pw \in Passwords
        /\ clock + Life \in 0 .. MaxTime + Life
    BY <1>5, GateAssumptions DEF GInv, TypeOK, JobsHaveInputs, LoginJobs
  <2>2. entry \in Registry!NewPasswords /\ entry.name = task[p].id
    BY <2>1 DEF Registry!NewPasswords
  <2>3. NewDoc(p) = CachePassword(stream[p].got, task[p].id, task[p].pw, clock)
    BY <1>5 DEF NewDoc, CreateJobs
  <2>4. NewDoc(p) = Registry!StorePassword(stream[p].got, entry)
    BY <2>2, <2>3 DEF CachePassword, Registry!StorePassword
  <2>5. stream[p].db # "user"
    BY <1>1, <1>5 DEF DbOf, UserJobs
  <2> HIDE DEF entry
  <2> QED
    BY <1>1, <1>2, <1>3, <2>2, <2>4, <2>5 DEF Registry!Changes
<1> QED
  BY <1>4, <1>5

LEMMA WriteMaps ==
    ASSUME GInv, ModeInv, NEW p \in Procs, WriteScope(p)
    PROVE  RegStep
<1> DEFINE f == stream[p].db
           new == NewDoc(p)
<1>1. /\ file' = [file EXCEPT ![f] = Empty]
      /\ f \in Files /\ copies' = copies
      /\ dues' = [dues EXCEPT ![p] = [db |-> f, doc |-> new]]
      /\ stream[p].out = None
  BY WriteStream
<1>2. new \in Docs
  BY NewDocGood, GoodIsDoc
<1> HIDE DEF f, new
<1>3. CASE task[p].job \in CreateJobs /\ stream[p].mode = "wb"
  <2>1. new = Bare
    BY <1>3, NewDocBare DEF new
  <2>2. dues[p] = [db |-> f, doc |-> Bare]
    BY <1>1, <1>3 DEF dues, DueOf, f
  <2>3. dues' = dues
    BY <1>1, <2>1, <2>2 DEF dues
  <2>4. dues[p] # None
    BY <1>1, <1>2, <2>1, <2>2, NoneIsNoRecord
  <2>5. dues[p].db = f /\ dues[p].doc = Bare
    BY <2>2
  <2>6. file' = [file EXCEPT ![dues[p].db] = Empty]
    BY <1>1, <2>5
  <2>7. Registry!Erase(p)
    BY <1>1, <2>3, <2>4, <2>5, <2>6 DEF Registry!Erase, copies, dues
  <2> QED
    BY <2>7 DEF RegStep, Registry!RegNext
<1>4. CASE stream[p].mode # "wb"
  <2>1. dues[p] = None
    BY <1>1, <1>4 DEF dues, DueOf
  <2>2. Registry!Announce(p, f, new)
    BY <1>1, <2>1 DEF Registry!Announce, Registry!Of, copies, dues
  <2>3. CASE task[p].job \in {"update_db", "update_shadow_db"}
    <3>1. /\ copies[p] = [db |-> f, doc |-> stream[p].got]
          /\ copies[p] # None /\ stream[p].got # Bare
          /\ new \in Registry!Changes(f, stream[p].got)
      BY <2>3, UpdateIsChange DEF f, new
    <3>2. copies[p].db = f /\ copies[p].doc = stream[p].got
      BY <3>1
    <3>3. Registry!Update(p)
      BY <2>2, <3>1, <3>2 DEF Registry!Update, copies
    <3> QED
      BY <3>3 DEF RegStep, Registry!RegNext
  <2>4. CASE task[p].job \notin {"update_db", "update_shadow_db"} \cup CreateJobs
    <3>1. new = {}
      BY <2>4 DEF NewDoc, new
    <3>2. Registry!Clear(p, f)
      BY <2>2, <3>1 DEF Registry!Clear
    <3> QED
      BY <1>1, <3>2 DEF RegStep, Registry!RegNext
  <2>5. CASE task[p].job \in CreateJobs
    <3>1. stream[p].at # "closed"
      BY DEF WriteScope, DB!write
    <3>2. FALSE
      BY <1>4, <2>5, <3>1 DEF ModeInv
    <3> QED
      BY <3>2
  <2> QED
    BY <2>3, <2>4, <2>5
<1> QED
  BY <1>3, <1>4 DEF ModeInv

-----------------------------------------------------------------------------
(***************************************************************************)
(* The jobs of a creator                                                   *)
(***************************************************************************)
\* A process without an open stream may go on to any job.
LEMMA ClosedMode ==
    ASSUME ModeInv, NEW p \in Procs, stream[p].at = "closed",
           UNCHANGED stream, \A q \in Procs \ {p} : task'[q] = task[q]
    PROVE  ModeInv'
BY DEF ModeInv

\* A process with an open stream keeps what kind of job it has.
LEMMA OpenMode ==
    ASSUME ModeInv, NEW p \in Procs,
           \A q \in Procs \ {p} : stream'[q] = stream[q] /\ task'[q] = task[q],
           stream'[p].mode = stream[p].mode,
           stream[p].at # "closed", stream'[p].at # "closed",
           task'[p].job \in CreateJobs <=> task[p].job \in CreateJobs
    PROVE  ModeInv'
BY DEF ModeInv

\* A stream that was closed is no creator's.
LEMMA EndMode ==
    ASSUME ModeInv, NEW p \in Procs, Procs = DOMAIN stream,
           stream' = [stream EXCEPT ![p] = DB!NoStream],
           \A q \in Procs \ {p} : task'[q] = task[q]
    PROVE  ModeInv'
<1>1. stream'[p] = DB!NoStream /\ \A q \in Procs \ {p} : stream'[q] = stream[q]
  OBVIOUS
<1> QED
  BY <1>1 DEF ModeInv, DB!NoStream

\* A stream is opened in the mode of its job.
LEMMA OpenScopeMode ==
    ASSUME GInv, ModeInv, NEW p \in Procs, OpenScope(p)
    PROVE  ModeInv'
<1>1. Procs = DOMAIN stream /\ task' = task
  BY DEF GInv, TypeOK, DB!DBTypeOK, OpenScope
<1>2. CASE task[p].job \in CreateJobs /\ DB!create(p, DbOf(task[p].job))
  <2> DEFINE s == [DB!NoStream EXCEPT !.db = DbOf(task[p].job), !.mode = "wb",
                                      !.at = "opened"]
  <2>1. s.mode = "wb" /\ s.at = "opened"
    BY DEF DB!NoStream
  <2>2. stream' = [stream EXCEPT ![p] = s]
    BY <1>2 DEF DB!create
  <2> HIDE DEF s
  <2>3. stream'[p] = s /\ \A q \in Procs \ {p} : stream'[q] = stream[q]
    BY <1>1, <2>2
  <2> QED
    BY <1>1, <1>2, <2>1, <2>3 DEF ModeInv
<1>3. ASSUME NEW mode \in {"r", "r+"}, task[p].job \notin CreateJobs,
             DB!open(p, DbOf(task[p].job), mode)
      PROVE  ModeInv'
  <2> DEFINE f == DbOf(task[p].job)
             s == [DB!NoStream EXCEPT !.db = f, !.mode = mode, !.at = "opened",
                      !.pre = IF file[f] = Empty THEN None ELSE file[f]]
  <2>1. s.mode = mode /\ s.at = "opened"
    BY DEF DB!NoStream
  <2>2. stream' = [stream EXCEPT ![p] = s]
    BY <1>3 DEF DB!open
  <2> HIDE DEF s, f
  <2>3. stream'[p] = s /\ \A q \in Procs \ {p} : stream'[q] = stream[q]
    BY <1>1, <2>2
  <2> QED
    BY <1>1, <1>3, <2>1, <2>3 DEF ModeInv
<1> QED
  BY <1>2, <1>3 DEF OpenScope, LookupJobs, CreateJobs

LEMMA StepModeInv ==
    ASSUME HInv, ModeInv, [Next]_vars
    PROVE  ModeInv'
<1>1. /\ Procs = DOMAIN stream /\ Procs = DOMAIN task /\ TaskOK
      /\ \A p \in Procs : stream[p] \in DB!Streams
  BY DEF HInv, GInv, TypeOK, TaskOK, SessionRecs, DB!DBTypeOK
<1>2. ASSUME NEW p \in Procs,
             \/ Exists(p) \/ CheckUser(p) \/ CheckShadow(p) \/ ObserverCreate(p)
             \/ OpenFails(p) \/ Authenticate(p) \/ AuthExec(p)
      PROVE  ModeInv'
  <2>1. task[p].job \notin ScopeJobs \/ OpenFails(p)
    BY <1>2 DEF Exists, CheckUser, CheckShadow, ObserverCreate, Authenticate, AuthExec,
                ScopeJobs, UserJobs, ShadowJobs
  <2>2. stream[p].at = "closed"
    BY <2>1, ClosedOutsideScopes DEF HInv, OpenFails
  <2>3. stream' = stream /\ \A q \in Procs \ {p} : task'[q] = task[q]
    BY <1>1, <1>2 DEF Exists, CheckUser, CheckShadow, ObserverCreate, OpenFails,
                      Authenticate, AuthExec, Goto, Finish, dbvars
  <2> QED
    BY <2>2, <2>3, ClosedMode
<1>3. ASSUME NEW p \in Procs, OpenScope(p)
      PROVE  ModeInv'
  BY <1>3, OpenScopeMode DEF HInv
<1>4. ASSUME NEW p \in Procs, LockScope(p) \/ ReadScope(p) \/ UnlockScope(p)
      PROVE  ModeInv'
  <2>1. /\ \A q \in Procs \ {p} : stream'[q] = stream[q]
        /\ stream'[p].mode = stream[p].mode /\ stream'[p].at # "closed"
    <3>1. stream[p] \in DB!Streams
      BY <1>1
    <3>2. ASSUME NEW at, at # "closed", stream' = [stream EXCEPT ![p].at = at]
          PROVE  /\ \A q \in Procs \ {p} : stream'[q] = stream[q]
                 /\ stream'[p].mode = stream[p].mode /\ stream'[p].at # "closed"
      BY <1>1, <3>1, <3>2 DEF DB!Streams
    <3>3. ASSUME DB!read(p)
          PROVE  /\ \A q \in Procs \ {p} : stream'[q] = stream[q]
                 /\ stream'[p].mode = stream[p].mode /\ stream'[p].at # "closed"
      <4> DEFINE doc == DB!Contents(p)
      <4>1. /\ stream' = [stream EXCEPT ![p].got = doc]
            /\ stream[p].at # "closed"
        BY <3>3 DEF DB!read
      <4> HIDE DEF doc
      <4> QED
        BY <1>1, <3>1, <4>1 DEF DB!Streams
    <3> QED
      BY <1>4, <3>2, <3>3
         DEF LockScope, ReadScope, UnlockScope, DB!lock_read, DB!lock_write, DB!unlock
  <2>2. stream[p].at # "closed"
    BY <1>4 DEF LockScope, ReadScope, UnlockScope, DB!lock_read, DB!lock_write,
                DB!read, DB!unlock
  <2>3. /\ task'[p].job = task[p].job
        /\ \A q \in Procs \ {p} : task'[q] = task[q]
    BY <1>1, <1>4 DEF LockScope, ReadScope, UnlockScope, TaskOK, SessionRecs
  <2> QED
    BY <2>1, <2>2, <2>3, OpenMode
<1>5. ASSUME NEW p \in Procs, WriteScope(p)
      PROVE  ModeInv'
  <2> DEFINE s == [stream[p] EXCEPT !.out = NewDoc(p)]
  <2>1. /\ stream' = [stream EXCEPT ![p] = s]
        /\ s.mode = stream[p].mode /\ s.at = stream[p].at
        /\ stream[p].at = "exclusive"
    BY <1>1, <1>5 DEF WriteScope, DB!write, DB!Streams
  <2> HIDE DEF s
  <2>2. \/ task'[p].job = task[p].job
        \/ task[p].job = "update_db" /\ task'[p].job = "push"
    BY <1>1, <1>5 DEF WriteScope, TaskOK, SessionRecs
  <2>3. \A q \in Procs \ {p} : task'[q] = task[q]
    BY <1>1, <1>5 DEF WriteScope
  <2> QED
    <3>1. stream'[p] = s /\ \A q \in Procs \ {p} : stream'[q] = stream[q]
      BY <1>1, <2>1
    <3>2. task'[p].job \in CreateJobs <=> task[p].job \in CreateJobs
      BY <2>2 DEF CreateJobs
    <3> QED
      BY <2>1, <2>3, <3>1, <3>2, OpenMode
<1>6. ASSUME NEW p \in Procs, Push(p)
      PROVE  ModeInv'
  <2>1. /\ task[p].job = "push" /\ stream' = stream
        /\ task' = task \/ task'[p].job = "pushed"
        /\ \A q \in Procs \ {p} : task'[q] = task[q]
    BY <1>1, <1>6 DEF Push, Goto, TaskOK, SessionRecs, dbvars
  <2> QED
    BY <2>1 DEF ModeInv, CreateJobs
<1>7. ASSUME NEW p \in Procs, CloseScope(p)
      PROVE  ModeInv'
  <2>1. \A q \in Procs \ {p} : task'[q] = task[q]
    BY <1>1, <1>7 DEF CloseScope, Goto
  <2> QED
    BY <1>1, <1>7, <2>1, EndMode DEF CloseScope, DB!close
<1>8. ASSUME NEW p \in Procs, Kill(p)
      PROVE  ModeInv'
  <2>1. \A q \in Procs \ {p} : task'[q] = task[q]
    BY <1>1, <1>8 DEF Kill, Finish
  <2>2. CASE DB!kill(p)
    BY <1>1, <2>1, <2>2, EndMode DEF DB!kill
  <2>3. CASE stream[p].at = "closed" /\ UNCHANGED dbvars
    BY <2>1, <2>3, ClosedMode DEF dbvars
  <2> QED
    BY <1>8, <2>2, <2>3 DEF Kill
<1>9. ASSUME NEW p \in Procs, NEW kind, NEW id, NEW pw, Begin(p, kind, id, pw)
      PROVE  ModeInv'
  <2>1. task[p].job \notin ScopeJobs
    BY <1>9 DEF Begin, ScopeJobs, UserJobs, ShadowJobs
  <2>4. stream[p].at = "closed"
    BY <2>1, ClosedOutsideScopes DEF HInv
  <2>2. stream' = stream /\ \A q \in Procs \ {p} : task'[q] = task[q]
    BY <1>1, <1>9 DEF Begin, dbvars
  <2> QED
    BY <2>4, <2>2, ClosedMode
<1>10. ASSUME Tick \/ Finished \/ UNCHANGED vars
       PROVE  ModeInv'
  BY <1>10 DEF Tick, Finished, vars, dbvars, ModeInv
<1> QED
  BY <1>2, <1>3, <1>4, <1>5, <1>6, <1>7, <1>8, <1>9, <1>10 DEF Next, Step

-----------------------------------------------------------------------------
LEMMA StepMaps ==
    ASSUME GInv, ModeInv, [Next]_vars
    PROVE  RegStep
<1>1. ASSUME UNCHANGED dbvars
      PROVE  RegStep
  BY <1>1, SameRegistry DEF dbvars, copies, dues
<1>2. ASSUME NEW p \in Procs, OpenScope(p)
      PROVE  RegStep
  <2>1. DbOf(task[p].job) \in Files
    BY DEF DbOf, Files
  <2> QED
    BY <1>2, <2>1, OpenMaps, CreateMaps DEF OpenScope
<1>3. ASSUME NEW p \in Procs, LockScope(p) \/ ReadScope(p) \/ UnlockScope(p)
      PROVE  RegStep
  BY <1>3, PositionMaps, ReadMaps DEF LockScope, ReadScope, UnlockScope
<1>4. ASSUME NEW p \in Procs, CloseScope(p) \/ Kill(p)
      PROVE  RegStep
  BY <1>1, <1>4, EndMaps DEF CloseScope, Kill
<1>5. ASSUME NEW p \in Procs, Step(p)
      PROVE  RegStep
  BY <1>1, <1>2, <1>3, <1>4, <1>5, WriteMaps
     DEF Step, Exists, CheckUser, CheckShadow, ObserverCreate, OpenFails, Push,
         Authenticate, AuthExec
<1>6. ASSUME NEW p \in Procs, NEW kind, NEW id, NEW pw, Begin(p, kind, id, pw)
      PROVE  RegStep
  BY <1>1, <1>6 DEF Begin
<1>7. ASSUME Tick \/ Finished \/ UNCHANGED vars
      PROVE  RegStep
  BY <1>1, <1>7 DEF Tick, Finished, vars
<1> QED
  BY <1>4, <1>5, <1>6, <1>7 DEF Next

LEMMA InitMaps == Init => Registry!RegInit /\ ModeInv
<1> SUFFICES ASSUME Init PROVE Registry!RegInit /\ ModeInv
  OBVIOUS
<1>1. \A p \in Procs : stream[p] = DB!NoStream
  BY DEF Init
<1>2. /\ [p \in Procs |-> CopyOf(stream[p])] = [p \in Procs |-> None]
      /\ [p \in Procs |-> DueOf(stream[p])] = [p \in Procs |-> None]
  BY <1>1, BlankStream
<1>3. Registry!RegInit
  <2>1. \/ file = [f \in Files |-> Absent]
        \/ \E users \in SUBSET UserRecs :
              file = [f \in Files |-> IF f = "user" THEN users ELSE {}]
    BY GateAssumptions DEF Init
  <2> QED
    BY <1>2, <2>1 DEF Registry!RegInit
<1>4. ModeInv
  <2>1. \A p \in Procs : stream[p].at = "closed" /\ stream[p].mode = "r"
    <3>1. DB!NoStream.at = "closed" /\ DB!NoStream.mode = "r"
      BY DEF DB!NoStream
    <3> QED
      BY <1>1, <3>1
  <2> QED
    BY <2>1 DEF ModeInv
<1> QED
  BY <1>3, <1>4

(***************************************************************************)
(* The sessions of the PAM module and of the commands implement the        *)
(* registry: what they do to the databases with buffers, locks, unlocked   *)
(* flushes and deaths is taking copies and publishing changes of them.     *)
(***************************************************************************)
THEOREM GateImplementsRegistry == Spec => ImplementsRegistry
<1>1. Init => Registry!RegInit /\ ModeInv
  BY InitMaps
<1>2. HInv /\ ModeInv /\ [Next]_vars => ModeInv'
  BY StepModeInv
<1>3. HInv /\ ModeInv /\ [Next]_vars => [Registry!RegNext]_(Registry!regvars)
  BY StepMaps DEF HInv, RegStep
<1> QED
  BY <1>1, <1>2, <1>3, Invariance, PTL DEF Spec, ImplementsRegistry, Registry!RegSpec
=============================================================================
