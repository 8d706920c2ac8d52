----------------------------- MODULE Gate_proofs -----------------------------
(***************************************************************************)
(* Proofs about Gate, for any processes, names, passwords, user structs,   *)
(* methods and bounds.                                                     *)
(*                                                                         *)
(* A document goes round: file, buffer, memory of a process, buffer, file. *)
(* What holds of the files must therefore hold of every document on its    *)
(* way, however old it is when it is written back.                         *)
(***************************************************************************)
EXTENDS Gate, TLAPS

DBP == INSTANCE FileDB_proofs

DocsOf(f) ==
    {Bare} \cup (IF f = "user" THEN SUBSET UserRecs ELSE SUBSET ShadowRecs)

KeysUnique(users) ==
    \A u, v \in users : u.login = v.login \/ u.uid = v.uid => u = v

NamesUnique(shadows) == \A s, t \in shadows : s.name = t.name => s = t

\* Every entry was put there for a password in V, with the expiration of then.
Backed(shadows, V) ==
    \A s \in shadows :
        \E v \in V : v.id = s.name /\ v.pw = s.key /\ s.expire = v.at + Life

\* A document that may be written to file f when the passwords in V have been
\* accepted.
Good(f, doc, V) ==
    /\ doc \in DocsOf(f)
    /\ doc # Bare => IF f = "user" THEN KeysUnique(doc)
                     ELSE NamesUnique(doc) /\ Backed(doc, V)

FilesGood ==
    \A f \in Files : file[f] \in {Absent, Empty} \/ Good(f, file[f], vouched)

GoodStream(p) ==
    /\ stream[p].db \in Files /\ file[stream[p].db] # Absent
    /\ task[p].job \in ScopeJobs /\ stream[p].db = DbOf(task[p].job)
    /\ stream[p].pre # None => Good(stream[p].db, stream[p].pre, vouched)
    /\ stream[p].got \notin {None, Empty} => Good(stream[p].db, stream[p].got, vouched)
    /\ stream[p].out # None =>
          task[p].job \notin LookupJobs /\ Good(stream[p].db, stream[p].out, vouched)

StreamOK(p) ==
    IF stream[p].at = "closed" THEN stream[p] = DB!NoStream ELSE GoodStream(p)

StreamsGood == \A p \in Procs : StreamOK(p)

\* The jobs of an authentication, which need a name and a password.
LoginJobs == {"authenticate", "exec", "update_db", "push", "pushed",
              "update_shadow_db", "lookup_user", "lookup_password"}

JobsHaveInputs ==
    \A p \in Procs :
        /\ task[p].kind \in LoginKinds =>
              task[p].id \in Ids /\ task[p].pw \in Passwords
        /\ task[p].job \in LoginJobs => task[p].kind \in LoginKinds
        /\ task[p].job = "update_db" => task[p].user \in UserRecs

SessionRecs ==
    [kind : AllKinds \cup {"none"}, job : ScopeJobs \cup OtherJobs,
     id : Ids \cup {None}, pw : Passwords \cup {None}, m : Nat \ {0},
     status : Statuses \cup OtherEnds,
     via : {"none", "local", "remote"},
     answer : RemoteStatus \cup {"Allowed", "none"},
     user : UserRecs \cup {None}]

TaskOK == task \in [Procs -> SessionRecs]

GInv ==
    /\ DBP!IInv
    /\ TypeOK
    /\ FilesGood
    /\ StreamsGood
    /\ JobsHaveInputs

-----------------------------------------------------------------------------
\* A document stays good when more passwords are accepted.
LEMMA GoodMonotone ==
    ASSUME NEW f, NEW doc, NEW V, NEW W, V \subseteq W, Good(f, doc, V)
    PROVE  Good(f, doc, W)
BY DEF Good, Backed

\* Upsert leaves one entry per login and per uid.
LEMMA UpsertKeysUnique ==
    ASSUME NEW users \in SUBSET UserRecs, KeysUnique(users), NEW data \in UserRecs
    PROVE  /\ Upsert(users, data) \in SUBSET UserRecs
           /\ KeysUnique(Upsert(users, data))
BY DEF Upsert, KeysUnique

\* CachePassword leaves one entry per name, backed by the password accepted now.
LEMMA CachePasswordGood ==
    ASSUME NEW shadows \in SUBSET ShadowRecs, NamesUnique(shadows),
           NEW V, Backed(shadows, V),
           NEW name \in Ids, NEW pw \in Passwords, NEW now \in 0 .. MaxTime
    PROVE  LET new == CachePassword(shadows, name, pw, now)
           IN  /\ new \in SUBSET ShadowRecs
               /\ NamesUnique(new)
               /\ Backed(new, V \cup {[id |-> name, pw |-> pw, at |-> now]})
<1> DEFINE entry == [name |-> name, key |-> pw, expire |-> now + Life]
           new == CachePassword(shadows, name, pw, now)
<1>1. new = {s \in shadows : s.name # name} \cup {entry}
  BY DEF CachePassword
<1>2. now + Life \in 0 .. MaxTime + Life
  BY GateAssumptions
<1>3. entry \in ShadowRecs
  BY <1>2 DEF ShadowRecs
<1>4. new \in SUBSET ShadowRecs
  BY <1>1, <1>3
<1>5. NamesUnique(new)
  BY <1>1 DEF NamesUnique
<1>6. Backed(new, V \cup {[id |-> name, pw |-> pw, at |-> now]})
  <2> DEFINE v == [id |-> name, pw |-> pw, at |-> now]
  <2> SUFFICES ASSUME NEW s \in new
               PROVE  \E w \in V \cup {v} :
                         w.id = s.name /\ w.pw = s.key /\ s.expire = w.at + Life
    BY DEF Backed
  <2>1. CASE s \in shadows
    BY <2>1 DEF Backed
  <2>2. CASE s = entry
    <3>1. v.id = s.name /\ v.pw = s.key /\ s.expire = v.at + Life
      BY <2>2
    <3> QED
      BY <3>1
  <2>3. s \in shadows \/ s = entry
    BY <1>1
  <2> QED
    BY <2>1, <2>2, <2>3
<1> QED
  BY <1>4, <1>5, <1>6

\* The documents of Gate are documents of FileDB.
LEMMA GoodIsDoc ==
    ASSUME NEW f, NEW doc, NEW V, Good(f, doc, V)
    PROVE  doc \in Docs /\ doc \notin {Absent, Empty, None}
<1>1. doc \in DocsOf(f)
  BY DEF Good
<1>2. DocsOf(f) \subseteq Docs
  <2>1. CASE f = "user"
    BY <2>1 DEF DocsOf, Docs
  <2>2. CASE f # "user"
    BY <2>2 DEF DocsOf, Docs
  <2> QED
    BY <2>1, <2>2
<1> QED
  BY <1>1, <1>2, DocsAreDocs

\* What a scope writes is good, once what it read was.
LEMMA NewDocGood ==
    ASSUME GInv, NEW p \in Procs, WriteScope(p)
    PROVE  Good(stream[p].db, NewDoc(p), vouched')
<1> DEFINE t == task[p]
<1>1. stream[p].at = "exclusive" /\ t.job \in ScopeJobs \ LookupJobs
  BY DEF WriteScope, DB!write
<1>2. GoodStream(p) /\ stream[p].db = DbOf(t.job)
  BY <1>1 DEF GInv, StreamsGood, StreamOK, GoodStream
<1>3. CASE t.job \in CreateJobs
  <2>1. NewDoc(p) = Bare
    BY <1>3 DEF NewDoc, CreateJobs
  <2> QED
    BY <2>1 DEF Good, DocsOf
<1>4. CASE t.job = "update_db"
  <2>1. stream[p].got \notin {None, Empty, Bare}
    BY <1>4 DEF WriteScope, ReadJobs, Threw
  <2>2. stream[p].db = "user"
    BY <1>2, <1>4 DEF DbOf, UserJobs
  <2>3. stream[p].got \in SUBSET UserRecs /\ KeysUnique(stream[p].got)
    BY <1>2, <2>1, <2>2 DEF GoodStream, Good, DocsOf
  <2>4. t.user \in UserRecs
    BY <1>4 DEF GInv, JobsHaveInputs
  <2>5. NewDoc(p) = Upsert(stream[p].got, t.user)
    BY <1>4 DEF NewDoc, CreateJobs
  <2> QED
    BY <2>2, <2>3, <2>4, <2>5, UpsertKeysUnique DEF Good, DocsOf
<1>5. CASE t.job = "update_shadow_db"
  <2>1. stream[p].got \notin {None, Empty, Bare}
    BY <1>5 DEF WriteScope, ReadJobs, Threw
  <2>2. stream[p].db = "shadow"
    BY <1>2, <1>5 DEF DbOf, UserJobs
  <2>3. /\ stream[p].got \in SUBSET ShadowRecs
        /\ NamesUnique(stream[p].got) /\ Backed(stream[p].got, vouched)
    BY <1>2, <2>1, <2>2 DEF GoodStream, Good, DocsOf
  <2>4. t.id \in Ids /\ t.pw \in Passwords
    BY <1>5 DEF GInv, JobsHaveInputs, LoginJobs
  <2>5. NewDoc(p) = CachePassword(stream[p].got, t.id, t.pw, clock)
    BY <1>5 DEF NewDoc, CreateJobs
  <2>6. vouched' = vouched \cup {[id |-> t.id, pw |-> t.pw, at |-> clock]}
    BY <1>5 DEF WriteScope
  <2>7. clock \in 0 .. MaxTime
    BY DEF GInv, TypeOK
  <2> HIDE DEF t
  <2>8. /\ NewDoc(p) \in SUBSET ShadowRecs
        /\ NamesUnique(NewDoc(p)) /\ Backed(NewDoc(p), vouched')
    BY <2>3, <2>4, <2>5, <2>6, <2>7, CachePasswordGood
  <2> QED
    BY <2>2, <2>8 DEF Good, DocsOf
<1>6. CASE t.job \notin CreateJobs \cup {"update_db", "update_shadow_db"}
  <2>1. NewDoc(p) = {}
    BY <1>6 DEF NewDoc
  <2> QED
    BY <2>1 DEF Good, DocsOf, KeysUnique, NamesUnique, Backed
<1> QED
  BY <1>3, <1>4, <1>5, <1>6

-----------------------------------------------------------------------------
\* A process outside a scope has no stream.
LEMMA ClosedOutsideScopes ==
    ASSUME GInv, NEW p \in Procs, task[p].job \notin ScopeJobs
    PROVE  stream[p] = DB!NoStream /\ stream[p].at = "closed"
BY DEF GInv, StreamsGood, StreamOK, GoodStream, DB!NoStream

\* The streams of the processes that do not move stay good.
LEMMA OthersStreams ==
    ASSUME GInv, NEW q \in Procs,
           stream'[q] = stream[q], task'[q] = task[q], vouched \subseteq vouched',
           \A f \in Files : file[f] # Absent => file'[f] # Absent
    PROVE  StreamOK(q)'
<1>1. StreamOK(q)
  BY DEF GInv, StreamsGood
<1>2. CASE stream[q].at = "closed"
  BY <1>1, <1>2 DEF StreamOK, DB!NoStream
<1>3. CASE stream[q].at # "closed"
  <2>1. GoodStream(q)
    BY <1>1, <1>3 DEF StreamOK
  <2>2. \A doc : Good(stream[q].db, doc, vouched)
                    => Good(stream[q].db, doc, vouched')
    BY GoodMonotone
  <2>3. GoodStream(q)'
    BY <2>1, <2>2 DEF GoodStream
  <2> QED
    BY <1>3, <2>3 DEF StreamOK
<1> QED
  BY <1>2, <1>3

\* Files and streams stay good when no file and no stream is touched.
LEMMA QuietDocs ==
    ASSUME GInv, NEW p \in Procs, UNCHANGED <<dbvars, vouched>>,
           stream[p].at = "closed",
           \A q \in Procs \ {p} : task'[q] = task[q]
    PROVE  FilesGood' /\ StreamsGood'
<1>1. FilesGood'
  BY DEF GInv, FilesGood, dbvars
<1>2. \A q \in Procs \ {p} : StreamOK(q)'
  BY OthersStreams DEF dbvars
<1>3. StreamOK(p)'
  BY DEF GInv, StreamsGood, StreamOK, dbvars
<1> QED
  BY <1>1, <1>2, <1>3 DEF StreamsGood

LEMMA OpenDocs ==
    ASSUME GInv, NEW p \in Procs, OpenScope(p)
    PROVE  FilesGood' /\ StreamsGood'
<1> DEFINE f == DbOf(task[p].job)
<1>1. f \in Files /\ task[p].job \in ScopeJobs
  BY DEF OpenScope, DbOf, Files, ScopeJobs, CreateJobs, LookupJobs, UserJobs,
         ShadowJobs
<1>2. file \in [Files -> Docs \cup {Absent, Empty}] /\ Procs = DOMAIN stream
  BY DEF GInv, TypeOK, DB!DBTypeOK
<1>3. vouched' = vouched /\ task' = task
  BY DEF OpenScope
<1> HIDE DEF f
<1>4. CASE DB!create(p, f)
  <2>1. FilesGood'
    BY <1>1, <1>2, <1>3, <1>4 DEF DB!create, GInv, FilesGood
  <2>2. \A q \in Procs \ {p} : StreamOK(q)'
    BY <1>1, <1>2, <1>3, <1>4, OthersStreams, GateAssumptions DEF DB!create
  <2>3. StreamOK(p)'
    BY <1>1, <1>2, <1>3, <1>4, GateAssumptions
       DEF DB!create, DB!NoStream, StreamOK, GoodStream, f
  <2> QED
    BY <2>1, <2>2, <2>3 DEF StreamsGood
<1>5. ASSUME NEW mode, DB!open(p, f, mode)
      PROVE  FilesGood' /\ StreamsGood'
  <2>1. FilesGood'
    BY <1>3, <1>5 DEF DB!open, GInv, FilesGood
  <2>2. \A q \in Procs \ {p} : StreamOK(q)'
    BY <1>2, <1>3, <1>5, OthersStreams DEF DB!open
  <2>3. file[f] # Empty => Good(f, file[f], vouched)
    BY <1>1, <1>5 DEF DB!open, DB!exists, GInv, FilesGood
  <2>4. StreamOK(p)'
    BY <1>1, <1>2, <1>3, <1>5, <2>3
       DEF DB!open, DB!exists, DB!NoStream, StreamOK, GoodStream, f
  <2> QED
    BY <2>1, <2>2, <2>4 DEF StreamsGood
<1> QED
  BY <1>4, <1>5 DEF OpenScope, f

LEMMA LockDocs ==
    ASSUME GInv, NEW p \in Procs, LockScope(p)
    PROVE  FilesGood' /\ StreamsGood'
<1>1. vouched' = vouched /\ task' = task /\ file' = file
  BY DEF LockScope, DB!lock_read, DB!lock_write
<1>2. Procs = DOMAIN stream
  BY DEF GInv, TypeOK, DB!DBTypeOK
<1>3. FilesGood'
  BY <1>1 DEF GInv, FilesGood
<1>4. \A q \in Procs \ {p} : StreamOK(q)'
  BY <1>1, <1>2, OthersStreams DEF LockScope, DB!lock_read, DB!lock_write
<1>5. GoodStream(p)
  BY DEF LockScope, DB!lock_read, DB!lock_write, GInv, StreamsGood, StreamOK
<1>6. stream[p] \in DB!Streams
  BY DEF GInv, TypeOK, DB!DBTypeOK
<1>7. PICK at \in {"shared", "exclusive"} :
         stream' = [stream EXCEPT ![p].at = at]
  BY DEF LockScope, DB!lock_read, DB!lock_write
<1>8. StreamOK(p)'
  BY <1>1, <1>2, <1>5, <1>6, <1>7 DEF StreamOK, GoodStream, DB!Streams
<1> QED
  BY <1>3, <1>4, <1>8 DEF StreamsGood

LEMMA ReadDocs ==
    ASSUME GInv, NEW p \in Procs, ReadScope(p)
    PROVE  FilesGood' /\ StreamsGood'
<1>1. vouched' = vouched /\ task' = task /\ file' = file
  BY DEF ReadScope, DB!read
<1>2. Procs = DOMAIN stream /\ stream[p] \in DB!Streams
  BY DEF GInv, TypeOK, DB!DBTypeOK
<1>3. FilesGood'
  BY <1>1 DEF GInv, FilesGood
<1>4. \A q \in Procs \ {p} : StreamOK(q)'
  BY <1>1, <1>2, OthersStreams DEF ReadScope, DB!read
<1>5. stream[p].at # "closed" /\ GoodStream(p)
  BY DEF ReadScope, DB!read, GInv, StreamsGood, StreamOK
<1>6. DB!Contents(p) = Empty \/ Good(stream[p].db, DB!Contents(p), vouched)
  BY <1>5 DEF DB!Contents, GoodStream, GInv, FilesGood
<1>7. stream' = [stream EXCEPT ![p].got = DB!Contents(p)]
  BY DEF ReadScope, DB!read
<1>8. StreamOK(p)'
  BY <1>1, <1>2, <1>5, <1>6, <1>7 DEF StreamOK, GoodStream, DB!Streams
<1> QED
  BY <1>3, <1>4, <1>8 DEF StreamsGood

LEMMA WriteDocs ==
    ASSUME GInv, NEW p \in Procs, WriteScope(p)
    PROVE  FilesGood' /\ StreamsGood'
<1> DEFINE f == stream[p].db
<1>1. Good(f, NewDoc(p), vouched')
  BY NewDocGood
<1>2. vouched \subseteq vouched'
  BY DEF WriteScope
<1>3. /\ file' = [file EXCEPT ![f] = Empty]
      /\ stream' = [stream EXCEPT ![p].out = NewDoc(p)]
      /\ stream[p].at = "exclusive"
      /\ task[p].job \in ScopeJobs \ LookupJobs
  BY DEF WriteScope, DB!write
<1>4. /\ file \in [Files -> Docs \cup {Absent, Empty}]
      /\ Procs = DOMAIN stream /\ stream[p] \in DB!Streams
      /\ TaskOK
  BY DEF TaskOK, SessionRecs, GInv, TypeOK, DB!DBTypeOK
<1>5. GoodStream(p)
  BY <1>3 DEF GInv, StreamsGood, StreamOK
<1>6. f \in Files
  BY <1>5 DEF GoodStream
<1>7. \A g, doc : Good(g, doc, vouched) => Good(g, doc, vouched')
  BY <1>2, GoodMonotone
<1>8. FilesGood'
  BY <1>3, <1>4, <1>6, <1>7 DEF GInv, FilesGood
<1>9. \A q \in Procs \ {p} : StreamOK(q)'
  BY <1>2, <1>3, <1>4, <1>6, OthersStreams, GateAssumptions DEF WriteScope, TaskOK
<1>10. /\ task'[p].job \in ScopeJobs \ LookupJobs
       /\ DbOf(task'[p].job) = DbOf(task[p].job)
  BY <1>3, <1>4 DEF WriteScope, TaskOK, SessionRecs, DbOf, ScopeJobs, UserJobs, ShadowJobs, LookupJobs
<1>11. StreamOK(p)'
  BY <1>1, <1>3, <1>4, <1>5, <1>6, <1>7, <1>10, GateAssumptions
     DEF StreamOK, GoodStream, DB!Streams
<1> QED
  BY <1>8, <1>9, <1>11 DEF StreamsGood

LEMMA PushDocs ==
    ASSUME GInv, NEW p \in Procs, Push(p)
    PROVE  FilesGood' /\ StreamsGood'
<1>1. UNCHANGED <<file, stream, vouched>>
  BY DEF Push, dbvars
<1>2. TaskOK
  BY DEF TaskOK, SessionRecs, GInv, TypeOK
<1>3. task[p].job = "push" /\ task'[p].job \in {"push", "pushed"}
      /\ \A q \in Procs \ {p} : task'[q] = task[q]
  BY <1>2 DEF Push, Goto, TaskOK, SessionRecs
<1>4. FilesGood'
  BY <1>1 DEF GInv, FilesGood
<1>5. \A q \in Procs \ {p} : StreamOK(q)'
  BY <1>1, <1>3, OthersStreams
<1>6. StreamOK(p)'
  BY <1>1, <1>3
     DEF GInv, StreamsGood, StreamOK, GoodStream, DbOf, ScopeJobs, UserJobs, LookupJobs
<1> QED
  BY <1>4, <1>5, <1>6 DEF StreamsGood

LEMMA UnlockDocs ==
    ASSUME GInv, NEW p \in Procs, UnlockScope(p)
    PROVE  FilesGood' /\ StreamsGood'
<1>1. file' = file /\ vouched' = vouched
  BY DEF UnlockScope, DB!unlock
<1>2. Procs = DOMAIN stream /\ stream[p] \in DB!Streams
  BY DEF GInv, TypeOK, DB!DBTypeOK
<1>3. TaskOK
  BY DEF TaskOK, SessionRecs, GInv, TypeOK
<1>4. /\ stream[p].at \in {"shared", "exclusive"}
      /\ stream' = [stream EXCEPT ![p].at = "unlocked"]
  BY DEF UnlockScope, DB!unlock
<1>5. task'[p].job = task[p].job /\ \A q \in Procs \ {p} : task'[q] = task[q]
  BY <1>3 DEF UnlockScope, TaskOK
<1>6. FilesGood'
  BY <1>1 DEF GInv, FilesGood
<1>7. \A q \in Procs \ {p} : StreamOK(q)'
  BY <1>1, <1>2, <1>4, <1>5, OthersStreams
<1>8. GoodStream(p)
  BY <1>4 DEF GInv, StreamsGood, StreamOK
<1>9. StreamOK(p)'
  BY <1>1, <1>2, <1>4, <1>5, <1>8 DEF StreamOK, GoodStream, DB!Streams
<1> QED
  BY <1>6, <1>7, <1>9 DEF StreamsGood

LEMMA CloseDocs ==
    ASSUME GInv, NEW p \in Procs, CloseScope(p)
    PROVE  FilesGood' /\ StreamsGood'
<1> DEFINE s == stream[p]
<1>1. /\ s.at = "unlocked" /\ vouched' = vouched
      /\ stream' = [stream EXCEPT ![p] = DB!NoStream]
      /\ file' = IF s.out = None THEN file ELSE [file EXCEPT ![s.db] = s.out]
      /\ \A q \in Procs \ {p} : task'[q] = task[q]
  BY DEF CloseScope, DB!close, Goto, GInv, TypeOK
<1>2. Procs = DOMAIN stream /\ file \in [Files -> Docs \cup {Absent, Empty}]
  BY DEF GInv, TypeOK, DB!DBTypeOK
<1>3. GoodStream(p)
  BY <1>1 DEF GInv, StreamsGood, StreamOK
<1>4. s.db \in Files /\ (s.out # None => Good(s.db, s.out, vouched))
  BY <1>3 DEF GoodStream
<1>5. s.out # None => s.out # Absent
  BY <1>4, GoodIsDoc
<1>6. FilesGood'
  BY <1>1, <1>2, <1>4 DEF GInv, FilesGood
<1>7. \A q \in Procs \ {p} : StreamOK(q)'
  BY <1>1, <1>2, <1>4, <1>5, OthersStreams
<1>8. StreamOK(p)'
  BY <1>1, <1>2 DEF StreamOK, DB!NoStream
<1> QED
  BY <1>6, <1>7, <1>8 DEF StreamsGood

LEMMA KillDocs ==
    ASSUME GInv, NEW p \in Procs, Kill(p)
    PROVE  FilesGood' /\ StreamsGood'
<1>1. file' = file /\ vouched' = vouched
      /\ \A q \in Procs \ {p} : task'[q] = task[q]
  BY DEF Kill, DB!kill, dbvars, Finish, GInv, TypeOK
<1>2. Procs = DOMAIN stream
  BY DEF GInv, TypeOK, DB!DBTypeOK
<1>3. \/ stream' = [stream EXCEPT ![p] = DB!NoStream]
      \/ stream' = stream /\ stream[p].at = "closed"
  BY DEF Kill, DB!kill, dbvars
<1>4. FilesGood'
  BY <1>1 DEF GInv, FilesGood
<1>5. \A q \in Procs \ {p} : StreamOK(q)'
  BY <1>1, <1>2, <1>3, OthersStreams
<1>6. StreamOK(p)'
  BY <1>2, <1>3 DEF StreamOK, DB!NoStream, GInv, StreamsGood
<1> QED
  BY <1>4, <1>5, <1>6 DEF StreamsGood

-----------------------------------------------------------------------------
(***************************************************************************)
(* Sessions: types, and the inputs that jobs need                          *)
(***************************************************************************)
SessionsOK == TaskOK /\ JobsHaveInputs

LEMMA JobsType ==
    /\ ScopeJobs \cup OtherJobs =
          {"create_user_db", "init_user_db", "update_db", "push", "pushed",
           "purge_user_db", "lookup_user",
           "create_shadow_db", "init_shadow_db", "update_shadow_db",
           "purge_shadow_db", "lookup_password",
           "idle", "exists", "check_user", "check_shadow",
           "observer_create", "authenticate", "exec"}
BY DEF ScopeJobs, UserJobs, ShadowJobs, OtherJobs

LEMMA BeginSessions ==
    ASSUME GInv, NEW p \in Procs,
           \/ \E kind \in Kinds \cap LoginKinds, id \in Ids, pw \in Passwords :
                 Begin(p, kind, id, pw)
           \/ \E kind \in Kinds \ LoginKinds : Begin(p, kind, None, None)
    PROVE  SessionsOK'
<1>1. PICK kind \in Kinds, id \in Ids \cup {None}, pw \in Passwords \cup {None} :
         /\ Begin(p, kind, id, pw)
         /\ kind \in LoginKinds => id \in Ids /\ pw \in Passwords
  OBVIOUS
<1> DEFINE r == NewTask(kind, FirstJob(kind), id, pw)
<1>2. kind \in AllKinds
  BY GateAssumptions DEF AllKinds, LoginKinds
<1>3. FirstJob(kind) \in ScopeJobs \cup OtherJobs /\ FirstJob(kind) \notin LoginJobs
  BY JobsType DEF FirstJob, LoginJobs
<1>4. r \in SessionRecs
  <2>1. "Error" \in Statuses
    BY DEF Statuses
  <2> QED
    BY <1>2, <1>3, <2>1 DEF NewTask, SessionRecs
<1>5. task' = [task EXCEPT ![p] = r]
  BY <1>1 DEF Begin
<1>6. TaskOK
  BY DEF TaskOK, SessionRecs, GInv, TypeOK
<1>7. TaskOK'
  BY <1>4, <1>5, <1>6 DEF TaskOK
<1>8. /\ r.kind = kind /\ r.id = id
      /\ r.pw = pw /\ r.job = FirstJob(kind)
  BY DEF NewTask
<1> HIDE DEF r
<1>9. JobsHaveInputs'
  BY <1>1, <1>3, <1>5, <1>6, <1>8 DEF TaskOK, GInv, JobsHaveInputs, LoginJobs
<1> QED
  BY <1>7, <1>9 DEF SessionsOK

\* A step that only moves a session to another job of its kind.
LEMMA GotoSessions ==
    ASSUME GInv, NEW p \in Procs, NEW job \in ScopeJobs \cup OtherJobs, Goto(p, job),
           job \in LoginJobs => task[p].kind \in LoginKinds,
           job = "update_db" => task[p].user \in UserRecs
    PROVE  SessionsOK'
<1>1. TaskOK
  BY DEF TaskOK, SessionRecs, GInv, TypeOK
<1>2. TaskOK'
  BY <1>1 DEF TaskOK, SessionRecs, Goto
<1>3. JobsHaveInputs'
  BY <1>1 DEF TaskOK, SessionRecs, Goto, GInv, JobsHaveInputs
<1> QED
  BY <1>2, <1>3 DEF SessionsOK

LEMMA FinishSessions ==
    ASSUME GInv, NEW p \in Procs, NEW status \in Statuses \cup OtherEnds,
           Finish(p, status)
    PROVE  SessionsOK'
<1>1. TaskOK
  BY DEF TaskOK, SessionRecs, GInv, TypeOK
<1>2. TaskOK'
  <2>1. task[p] \in SessionRecs
    BY <1>1 DEF TaskOK
  <2>2. [task[p] EXCEPT !.job = "idle", !.status = status] \in SessionRecs
    BY <2>1, JobsType DEF SessionRecs
  <2>3. task' = [task EXCEPT ![p] = [task[p] EXCEPT !.job = "idle", !.status = status]]
    BY <1>1 DEF Finish, TaskOK
  <2> QED
    BY <1>1, <2>2, <2>3 DEF TaskOK
<1>3. JobsHaveInputs'
  BY <1>1 DEF TaskOK, SessionRecs, Finish, GInv, JobsHaveInputs, LoginJobs
<1> QED
  BY <1>2, <1>3 DEF SessionsOK

LEMMA SameSessions ==
    ASSUME GInv, task' = task
    PROVE  SessionsOK'
BY DEF SessionsOK, TaskOK, SessionRecs, JobsHaveInputs, GInv, TypeOK

\* Exists, CheckUser, CheckShadow, ObserverCreate and CloseScope.
LEMMA MoveSessions ==
    ASSUME GInv, NEW p \in Procs,
           \/ Exists(p) \/ CheckUser(p) \/ CheckShadow(p) \/ ObserverCreate(p)
           \/ CloseScope(p)
    PROVE  SessionsOK'
<1>1. task[p].job \in LoginJobs => task[p].kind \in LoginKinds
  BY DEF GInv, JobsHaveInputs
<1>2. task[p].kind = "auth" => task[p].kind \in LoginKinds
  BY DEF LoginKinds
<1>3. "NoDatabase" \in Statuses \cup OtherEnds
  BY DEF OtherEnds
<1>4. CASE Exists(p)
  <2>1. \/ Goto(p, "lookup_password") /\ task[p].kind = "chkpwd"
        \/ Goto(p, "purge_user_db") \/ Goto(p, "purge_shadow_db")
        \/ Finish(p, "NoDatabase")
    BY <1>4 DEF Exists
  <2> QED
    BY <2>1, <1>3, GotoSessions, FinishSessions, JobsType DEF LoginJobs, LoginKinds
<1>5. CASE CheckUser(p)
  BY <1>5, GotoSessions, JobsType DEF CheckUser, LoginJobs
<1>6. CASE CheckShadow(p)
  BY <1>2, <1>6, GotoSessions, JobsType DEF CheckShadow, AfterCreate, LoginJobs
<1>7. CASE ObserverCreate(p)
  BY <1>7, GotoSessions, SameSessions, JobsType DEF ObserverCreate, LoginJobs
<1>8. CASE CloseScope(p)
  <2>1. Goto(p, NextJob(p))
    BY <1>8 DEF CloseScope
  <2>2. NextJob(p) \in ScopeJobs \cup OtherJobs
    BY JobsType DEF NextJob, AfterCreate
  <2>3. NextJob(p) # "update_db"
    BY DEF NextJob, AfterCreate
  <2>4. NextJob(p) \in LoginJobs => task[p].kind \in LoginKinds
    BY <1>1, <1>2 DEF NextJob, AfterCreate, LoginJobs
  <2> QED
    BY <2>1, <2>2, <2>3, <2>4, GotoSessions
<1> QED
  BY <1>4, <1>5, <1>6, <1>7, <1>8

LEMMA AuthenticateSessions ==
    ASSUME GInv, NEW p \in Procs, Authenticate(p)
    PROVE  SessionsOK'
<1>1. TaskOK /\ task[p].kind \in LoginKinds
  BY DEF TaskOK, SessionRecs, GInv, TypeOK, JobsHaveInputs, Authenticate, LoginJobs
<1>2. ASSUME Finish(p, task[p].status)
      PROVE  SessionsOK'
  <2>1. task[p].status \in Statuses \cup OtherEnds
    BY <1>1 DEF TaskOK, SessionRecs
  <2> QED
    BY <1>2, <2>1, FinishSessions
<1>3. ASSUME NEW job \in {"lookup_password", "exec"},
             task' = [task EXCEPT ![p].m = task[p].m + 1, ![p].job = job]
      PROVE  SessionsOK'
  <2>1. TaskOK'
    <3>1. task[p] \in SessionRecs
      BY <1>1 DEF TaskOK
    <3> DEFINE m == task[p].m + 1
    <3>2. m \in Nat \ {0}
      BY <3>1 DEF SessionRecs
    <3>3. task' = [task EXCEPT ![p].m = m, ![p].job = job]
      BY <1>3
    <3> HIDE DEF m
    <3>4. [task[p] EXCEPT !.m = m, !.job = job] \in SessionRecs
      BY <3>1, <3>2, JobsType DEF SessionRecs
    <3>5. task' = [task EXCEPT ![p] = [task[p] EXCEPT !.m = m, !.job = job]]
      BY <1>1, <3>3 DEF TaskOK
    <3> QED
      BY <1>1, <3>4, <3>5 DEF TaskOK
  <2>2. JobsHaveInputs'
    BY <1>1, <1>3 DEF TaskOK, SessionRecs, GInv, JobsHaveInputs
  <2> QED
    BY <2>1, <2>2 DEF SessionsOK
<1> QED
  BY <1>2, <1>3 DEF Authenticate

LEMMA AuthExecSessions ==
    ASSUME GInv, NEW p \in Procs, AuthExec(p)
    PROVE  SessionsOK'
<1>1. TaskOK /\ task[p].kind \in LoginKinds
  BY DEF TaskOK, SessionRecs, GInv, TypeOK, JobsHaveInputs, AuthExec, LoginJobs
<1>2. PICK r \in Responses :
         task' = [task EXCEPT
              ![p].answer = r.status,
              ![p].user   = r.user,
              ![p].via    = "remote",
              ![p].status = IF ValidResponse(r) THEN r.status ELSE "Error",
              ![p].job    = IF ValidResponse(r) /\ r.status = "Allowed"
                            THEN "update_db" ELSE "authenticate"]
  BY DEF AuthExec
<1>3. /\ r.status \in RemoteStatus \cup {"Allowed"}
      /\ r.user \in UserRecs \cup {None}
      /\ ValidResponse(r) => r.user \in UserRecs
  BY DEF Responses, ValidResponse
<1>4. TaskOK'
  <2> DEFINE status == IF ValidResponse(r) THEN r.status ELSE "Error"
             job == IF ValidResponse(r) /\ r.status = "Allowed"
                    THEN "update_db" ELSE "authenticate"
             s == [task[p] EXCEPT !.answer = r.status, !.user = r.user,
                                  !.via = "remote", !.status = status, !.job = job]
  <2>1. task[p] \in SessionRecs
    BY <1>1 DEF TaskOK
  <2>2. status \in Statuses
    BY <1>3 DEF Statuses
  <2>5. job \in ScopeJobs \cup OtherJobs
    BY JobsType
  <2>6. task' = [task EXCEPT ![p].answer = r.status, ![p].user = r.user,
                     ![p].via = "remote", ![p].status = status, ![p].job = job]
    BY <1>2
  <2> HIDE DEF status, job
  <2>3. s \in SessionRecs
    BY <1>3, <2>1, <2>2, <2>5 DEF SessionRecs
  <2>4. task' = [task EXCEPT ![p] = s]
    BY <1>1, <2>6 DEF TaskOK
  <2> QED
    BY <1>1, <2>3, <2>4 DEF TaskOK
<1>5. JobsHaveInputs'
  BY <1>1, <1>2, <1>3 DEF TaskOK, SessionRecs, GInv, JobsHaveInputs
<1> QED
  BY <1>4, <1>5 DEF SessionsOK

LEMMA WriteSessions ==
    ASSUME GInv, NEW p \in Procs, WriteScope(p)
    PROVE  SessionsOK'
<1>1. TaskOK
  BY DEF TaskOK, SessionRecs, GInv, TypeOK
<1>2. task' = [task EXCEPT ![p].job = IF @ = "update_db" THEN "push" ELSE @]
  BY DEF WriteScope
<1>3. TaskOK'
  BY <1>1, <1>2, JobsType DEF TaskOK, SessionRecs
<1>4. JobsHaveInputs'
  BY <1>1, <1>2 DEF TaskOK, SessionRecs, GInv, JobsHaveInputs, LoginJobs
<1> QED
  BY <1>3, <1>4 DEF SessionsOK

LEMMA PushSessions ==
    ASSUME GInv, NEW p \in Procs, Push(p)
    PROVE  SessionsOK'
<1>1. task[p].kind \in LoginKinds
  BY DEF GInv, JobsHaveInputs, Push, LoginJobs
<1> QED
  BY <1>1, GotoSessions, SameSessions, JobsType DEF Push

\* What a lookup returns is a status.
LEMMA ScopeStatusType ==
    ASSUME GInv, NEW p \in Procs
    PROVE  ScopeStatus(p) \in Statuses \cup OtherEnds
BY DEF ScopeStatus, LookupPassword, Statuses, OtherEnds, GInv, TypeOK

LEMMA UnlockSessions ==
    ASSUME GInv, NEW p \in Procs, UnlockScope(p)
    PROVE  SessionsOK'
<1>1. TaskOK
  BY DEF TaskOK, SessionRecs, GInv, TypeOK
<1>2. task' = [task EXCEPT ![p].status = ScopeStatus(p),
                           ![p].via = IF task[p].job = "lookup_password"
                                      THEN "local" ELSE task[p].via]
  BY DEF UnlockScope
<1>3. TaskOK'
  <2> DEFINE via == IF task[p].job = "lookup_password" THEN "local" ELSE task[p].via
             s == [task[p] EXCEPT !.status = ScopeStatus(p), !.via = via]
  <2>1. task[p] \in SessionRecs
    BY <1>1 DEF TaskOK
  <2>2. via \in {"none", "local", "remote"}
    BY <2>1 DEF SessionRecs
  <2>3. task' = [task EXCEPT ![p].status = ScopeStatus(p), ![p].via = via]
    BY <1>2
  <2> HIDE DEF via
  <2>4. s \in SessionRecs
    BY <2>1, <2>2, ScopeStatusType DEF SessionRecs
  <2>5. task' = [task EXCEPT ![p] = s]
    BY <1>1, <2>3 DEF TaskOK
  <2> QED
    BY <1>1, <2>4, <2>5 DEF TaskOK
<1>4. JobsHaveInputs'
  BY <1>1, <1>2 DEF TaskOK, SessionRecs, GInv, JobsHaveInputs
<1> QED
  BY <1>3, <1>4 DEF SessionsOK

-----------------------------------------------------------------------------
(***************************************************************************)
(* The databases: every step is a step of FileDB or leaves them alone      *)
(***************************************************************************)
LEMMA DBAssumption == DB!DistinctContents
BY GateAssumptions, DocsAreDocs DEF DB!DistinctContents

\* The invariant of FileDB, whose module is instantiated twice: once in Gate,
\* once with its proofs.
LEMMA SameNext == DB!DBNext <=> DBP!DBNext
BY DEF DB!DBNext, DBP!DBNext, DB!Scope, DBP!Scope, DB!open, DBP!open,
       DB!create, DBP!create, DB!lock_read, DBP!lock_read,
       DB!lock_write, DBP!lock_write, DB!read, DBP!read, DB!write, DBP!write,
       DB!unlock, DBP!unlock, DB!close, DBP!close, DB!kill, DBP!kill,
       DB!exists, DBP!exists, DB!NoStream, DBP!NoStream,
       DB!HeldByOther, DBP!HeldByOther, DB!Contents, DBP!Contents,
       DB!Owes, DBP!Owes

LEMMA ScopeIsDBStep ==
    ASSUME GInv, NEW p \in Procs,
           \/ OpenScope(p) \/ LockScope(p) \/ ReadScope(p) \/ WriteScope(p)
           \/ UnlockScope(p) \/ CloseScope(p)
    PROVE  DB!DBNext
<1>1. CASE OpenScope(p)
  <2>1. DbOf(task[p].job) \in Files
    BY DEF DbOf, Files
  <2> QED
    BY <1>1, <2>1 DEF OpenScope, DB!DBNext
<1>2. CASE WriteScope(p)
  <2>1. NewDoc(p) \in Docs
    BY <1>2, NewDocGood, GoodIsDoc
  <2> QED
    BY <1>2, <2>1 DEF WriteScope, DB!DBNext, DB!Scope
<1>3. CASE LockScope(p) \/ ReadScope(p) \/ UnlockScope(p) \/ CloseScope(p)
  BY <1>3 DEF LockScope, ReadScope, UnlockScope, CloseScope, DB!DBNext, DB!Scope
<1> QED
  BY <1>1, <1>2, <1>3

LEMMA StepIsDBStep ==
    ASSUME GInv, [Next]_vars
    PROVE  [DB!DBNext]_dbvars
<1>1. ASSUME NEW p \in Procs, Step(p)
      PROVE  DB!DBNext \/ UNCHANGED dbvars
  BY <1>1, ScopeIsDBStep
     DEF Step, Exists, CheckUser, CheckShadow, ObserverCreate, OpenFails, Push,
         Authenticate, AuthExec
<1>2. ASSUME NEW p \in Procs, Kill(p)
      PROVE  DB!DBNext \/ UNCHANGED dbvars
  BY <1>2 DEF Kill, DB!DBNext
<1>3. ASSUME NEW p \in Procs, NEW kind, NEW id, NEW pw, Begin(p, kind, id, pw)
      PROVE  UNCHANGED dbvars
  BY <1>3 DEF Begin
<1>4. ASSUME Tick \/ Finished \/ UNCHANGED vars
      PROVE  UNCHANGED dbvars
  BY <1>4 DEF Tick, Finished, vars
<1> QED
  BY <1>1, <1>2, <1>3, <1>4 DEF Next

LEMMA StepDBInv ==
    ASSUME GInv, [Next]_vars
    PROVE  DBP!IInv' /\ DB!DBTypeOK'
<1>1. DBP!IInv /\ [DBP!DBNext]_(DBP!dbvars) => DBP!IInv'
  BY DBP!NextIInv, DBAssumption
<1>2. ASSUME DB!DBNext PROVE DBP!IInv'
  BY <1>1, <1>2, SameNext DEF GInv
<1>3. ASSUME UNCHANGED dbvars PROVE DBP!IInv'
  <2>1. UNCHANGED DBP!dbvars
    BY <1>3 DEF dbvars, DBP!dbvars
  <2> QED
    BY <1>1, <2>1 DEF GInv
<1>4. DBP!IInv'
  BY <1>2, <1>3, StepIsDBStep
<1>5. DBP!DBTypeOK'
  BY <1>4 DEF DBP!IInv
<1>6. DB!DBTypeOK'
  BY <1>5 DEF DBP!DBTypeOK, DB!DBTypeOK, DBP!Streams, DB!Streams,
              DBP!StreamAt, DB!StreamAt
<1> QED
  BY <1>4, <1>6

-----------------------------------------------------------------------------
\* The counter keeps its 32 bits.
LEMMA WordType ==
    ASSUME NEW n \in 0 .. Modulus - 1
    PROVE  (n + 1) % Modulus \in 0 .. Modulus - 1
BY GateAssumptions

LEMMA ShmStepType ==
    ASSUME Obs!ShmTypeOK, NEW p \in Procs,
           \/ Obs!shm_open(p) \/ Obs!shm_size(p) \/ Obs!create_done(p)
           \/ Obs!push_load(p) \/ Obs!push_store(p) \/ Obs!shm_kill(p)
           \/ UNCHANGED shmvars
    PROVE  Obs!ShmTypeOK'
<1> USE DEF Obs!ShmTypeOK, Obs!PushStates
<1>1. CASE Obs!shm_open(p) \/ Obs!shm_size(p) \/ Obs!create_done(p)
  BY <1>1 DEF Obs!shm_open, Obs!shm_size, Obs!create_done
<1>2. CASE Obs!push_load(p)
  BY <1>2 DEF Obs!push_load
<1>3. CASE Obs!push_store(p)
  <2>1. counter' = (loaded[p] + 1) % Modulus /\ pushes' = (pushes + 1) % Modulus
    BY <1>3 DEF Obs!push_store
  <2>2. counter' \in 0 .. Modulus - 1 /\ pushes' \in 0 .. Modulus - 1
    BY <2>1, WordType
  <2>3. 0 \in 0 .. Modulus - 1
    BY GateAssumptions
  <2> QED
    BY <1>3, <2>2, <2>3 DEF Obs!push_store
<1>4. CASE Obs!shm_kill(p)
  <2>1. 0 \in 0 .. Modulus - 1
    BY GateAssumptions
  <2> QED
    BY <1>4, <2>1 DEF Obs!shm_kill
<1>5. CASE UNCHANGED shmvars
  BY <1>5 DEF shmvars
<1> QED
  BY <1>1, <1>2, <1>3, <1>4, <1>5

LEMMA StepShmType ==
    ASSUME GInv, [Next]_vars
    PROVE  Obs!ShmTypeOK'
<1>1. Obs!ShmTypeOK
  BY DEF GInv, TypeOK
<1>2. ASSUME NEW p \in Procs, Step(p)
      PROVE  Obs!ShmTypeOK'
  BY <1>1, <1>2, ShmStepType
     DEF Step, Exists, CheckUser, CheckShadow, ObserverCreate, OpenScope, OpenFails,
         LockScope, ReadScope, WriteScope, Push, UnlockScope, CloseScope,
         Authenticate, AuthExec
<1>3. ASSUME NEW p \in Procs, Kill(p)
      PROVE  Obs!ShmTypeOK'
  BY <1>1, <1>3, ShmStepType DEF Kill
<1>4. ASSUME UNCHANGED shmvars
      PROVE  Obs!ShmTypeOK'
  BY <1>1, <1>4 DEF shmvars, Obs!ShmTypeOK
<1>5. ASSUME NEW p \in Procs, NEW kind, NEW id, NEW pw, Begin(p, kind, id, pw)
      PROVE  UNCHANGED shmvars
  BY <1>5 DEF Begin
<1>6. ASSUME Tick \/ Finished \/ UNCHANGED vars
      PROVE  UNCHANGED shmvars
  BY <1>6 DEF Tick, Finished, vars
<1> QED
  BY <1>2, <1>3, <1>4, <1>5, <1>6 DEF Next

\* The bounds of the run, and what was vouched for.
BoundsOK ==
    /\ clock \in 0 .. MaxTime
    /\ sessions \in 0 .. MaxSessions
    /\ kills \in 0 .. MaxKills
    /\ vouched \subseteq [id : Ids, pw : Passwords, at : 0 .. MaxTime]

LEMMA StepBounds ==
    ASSUME GInv, [Next]_vars
    PROVE  BoundsOK'
<1> USE GateAssumptions
<1>1. BoundsOK
  BY DEF BoundsOK, GInv, TypeOK
<1>2. ASSUME NEW p \in Procs, WriteScope(p)
      PROVE  BoundsOK'
  <2>1. CASE task[p].job = "update_shadow_db"
    <3>1. task[p].id \in Ids /\ task[p].pw \in Passwords
      BY <2>1 DEF GInv, JobsHaveInputs, LoginJobs
    <3> QED
      BY <1>1, <1>2, <2>1, <3>1 DEF WriteScope, BoundsOK, boundvars
  <2>2. CASE task[p].job # "update_shadow_db"
    BY <1>1, <1>2, <2>2 DEF WriteScope, BoundsOK, boundvars
  <2> QED
    BY <2>1, <2>2
<1>3. ASSUME NEW p \in Procs, Step(p), ~WriteScope(p)
      PROVE  UNCHANGED <<boundvars, vouched>>
  BY <1>3
     DEF Step, Exists, CheckUser, CheckShadow, ObserverCreate, OpenScope, OpenFails,
         LockScope, ReadScope, Push, UnlockScope, CloseScope,
         Authenticate, AuthExec
<1>4. ASSUME UNCHANGED <<boundvars, vouched>>
      PROVE  BoundsOK'
  BY <1>1, <1>4 DEF boundvars, BoundsOK
<1>5. ASSUME NEW p \in Procs, NEW kind, NEW id, NEW pw, Begin(p, kind, id, pw)
      PROVE  BoundsOK'
  BY <1>1, <1>5 DEF Begin, BoundsOK
<1>6. ASSUME NEW p \in Procs, Kill(p)
      PROVE  BoundsOK'
  BY <1>1, <1>6 DEF Kill, BoundsOK
<1>7. CASE Tick
  BY <1>1, <1>7 DEF Tick, BoundsOK
<1>8. CASE Finished \/ UNCHANGED vars
  BY <1>4, <1>8 DEF Finished, vars
<1> QED
  BY <1>2, <1>3, <1>4, <1>5, <1>6, <1>7, <1>8 DEF Next

-----------------------------------------------------------------------------
LEMMA StepSessions ==
    ASSUME GInv, [Next]_vars
    PROVE  SessionsOK'
<1>1. ASSUME NEW p \in Procs, Step(p)
      PROVE  SessionsOK'
  <2>1. CASE OpenScope(p) \/ LockScope(p) \/ ReadScope(p)
    BY <2>1, SameSessions DEF OpenScope, LockScope, ReadScope
  <2>2. CASE OpenFails(p)
    <3>1. "Crashed" \in Statuses \cup OtherEnds
      BY DEF OtherEnds
    <3> QED
      BY <2>2, <3>1, FinishSessions DEF OpenFails
  <2> QED
    BY <1>1, <2>1, <2>2, MoveSessions, WriteSessions, PushSessions, UnlockSessions,
       AuthenticateSessions, AuthExecSessions DEF Step
<1>2. ASSUME NEW p \in Procs, Kill(p)
      PROVE  SessionsOK'
  <2>1. "Killed" \in Statuses \cup OtherEnds
    BY DEF OtherEnds
  <2> QED
    BY <1>2, <2>1, FinishSessions DEF Kill
<1>3. CASE Tick \/ Finished \/ UNCHANGED vars
  BY <1>3, SameSessions DEF Tick, Finished, vars
<1> QED
  BY <1>1, <1>2, <1>3, BeginSessions DEF Next

LEMMA StepDocs ==
    ASSUME GInv, [Next]_vars
    PROVE  FilesGood' /\ StreamsGood'
<1>1. TaskOK
  BY DEF TaskOK, SessionRecs, GInv, TypeOK
<1>2. ASSUME NEW p \in Procs,
             \/ Exists(p) \/ CheckUser(p) \/ CheckShadow(p) \/ ObserverCreate(p)
             \/ Authenticate(p) \/ AuthExec(p)
      PROVE  FilesGood' /\ StreamsGood'
  <2>1. task[p].job \notin ScopeJobs
    BY <1>2 DEF Exists, CheckUser, CheckShadow, ObserverCreate, Authenticate,
                AuthExec, ScopeJobs, UserJobs, ShadowJobs
  <2>2. UNCHANGED <<dbvars, vouched>>
    BY <1>2 DEF Exists, CheckUser, CheckShadow, ObserverCreate, Authenticate, AuthExec
  <2>3. \A q \in Procs \ {p} : task'[q] = task[q]
    BY <1>1, <1>2 DEF TaskOK, Exists, CheckUser, CheckShadow, ObserverCreate,
                      Authenticate, AuthExec, Goto, Finish
  <2> QED
    BY <2>1, <2>2, <2>3, ClosedOutsideScopes, QuietDocs
<1>3. ASSUME NEW p \in Procs, OpenFails(p)
      PROVE  FilesGood' /\ StreamsGood'
  BY <1>1, <1>3, QuietDocs DEF TaskOK, OpenFails, Finish
<1>4. ASSUME NEW p \in Procs, NEW kind, NEW id, NEW pw, Begin(p, kind, id, pw)
      PROVE  FilesGood' /\ StreamsGood'
  <2>1. task[p].job \notin ScopeJobs
    BY <1>4 DEF Begin, ScopeJobs, UserJobs, ShadowJobs
  <2>2. UNCHANGED <<dbvars, vouched>> /\ \A q \in Procs \ {p} : task'[q] = task[q]
    BY <1>1, <1>4 DEF TaskOK, Begin
  <2> QED
    BY <2>1, <2>2, ClosedOutsideScopes, QuietDocs
<1>5. CASE Tick \/ Finished \/ UNCHANGED vars
  <2>1. UNCHANGED <<dbvars, vouched, task>>
    BY <1>5 DEF Tick, Finished, vars
  <2> QED
    BY <2>1 DEF GInv, FilesGood, StreamsGood, StreamOK, GoodStream, dbvars
<1>6. ASSUME NEW p \in Procs, Step(p)
      PROVE  FilesGood' /\ StreamsGood'
  BY <1>2, <1>3, <1>6, OpenDocs, LockDocs, ReadDocs, WriteDocs, PushDocs, UnlockDocs,
     CloseDocs DEF Step
<1> QED
  BY <1>4, <1>5, <1>6, KillDocs DEF Next

LEMMA StepGInv == GInv /\ [Next]_vars => GInv'
<1> SUFFICES ASSUME GInv, [Next]_vars PROVE GInv'
  OBVIOUS
<1>1. DBP!IInv' /\ DB!DBTypeOK'
  BY StepDBInv
<1>2. Obs!ShmTypeOK' /\ BoundsOK' /\ SessionsOK'
  BY StepShmType, StepBounds, StepSessions
<1>3. FilesGood' /\ StreamsGood'
  BY StepDocs
<1>4. TypeOK'
  BY <1>1, <1>2 DEF TypeOK, BoundsOK, SessionsOK, TaskOK, SessionRecs
<1> QED
  BY <1>1, <1>2, <1>3, <1>4 DEF GInv, SessionsOK

\* The files of a boot.
LEMMA InitFiles ==
    ASSUME Init
    PROVE  /\ file \in [Files -> Docs \cup {Absent}]
           /\ \A f \in Files :
                 file[f] = Absent \/ (file[f] # Bare /\ Good(f, file[f], vouched))
<1>1. ASSUME file = [f \in Files |-> Absent]
      PROVE  /\ file \in [Files -> Docs \cup {Absent}]
             /\ \A f \in Files : file[f] = Absent
  BY <1>1
<1>2. ASSUME NEW users \in Registered,
             file = [f \in Files |-> IF f = "user" THEN users ELSE {}]
      PROVE  /\ file \in [Files -> Docs \cup {Absent}]
             /\ \A f \in Files : file[f] # Bare /\ Good(f, file[f], vouched)
  <2>1. users \in SUBSET UserRecs /\ KeysUnique(users)
    BY GateAssumptions DEF KeysUnique
  <2>2. {} \in SUBSET ShadowRecs
    OBVIOUS
  <2>3. users \in Docs /\ {} \in Docs
    BY <2>1, <2>2 DEF Docs
  <2>4. users # Bare /\ {} # Bare
    BY <2>1, <2>2, DocsAreDocs
  <2>5. Good("user", users, vouched)
    BY <2>1 DEF Good, DocsOf
  <2>6. Good("shadow", {}, vouched)
    BY <2>2 DEF Good, DocsOf, NamesUnique, Backed
  <2> QED
    BY <1>2, <2>3, <2>4, <2>5, <2>6 DEF Files
<1> QED
  BY <1>1, <1>2 DEF Init

LEMMA InitGInv == Init => GInv
<1> SUFFICES ASSUME Init PROVE GInv
  OBVIOUS
<1>2. file \in [Files -> Docs \cup {Absent}]
  BY InitFiles
<1>9. FilesGood
  BY InitFiles DEF FilesGood
<1> USE GateAssumptions DEF Init
<1>3. DBP!DBInit
  BY <1>2 DEF DBP!DBInit, DBP!NoStream, DB!NoStream
<1>4. DBP!IInv
  BY <1>3, DBP!InitIInv, DBAssumption
<1>5. DB!DBTypeOK
  BY <1>4 DEF DBP!IInv, DBP!DBTypeOK, DB!DBTypeOK, DBP!Streams, DB!Streams,
              DBP!StreamAt, DB!StreamAt
<1>6. Obs!ShmTypeOK
  BY DEF Obs!ShmInit, Obs!ShmTypeOK, Obs!PushStates
<1>7. TaskOK /\ JobsHaveInputs
  BY JobsType DEF TaskOK, SessionRecs, NoTask, NewTask, Statuses, JobsHaveInputs, LoginJobs,
                  LoginKinds
<1>8. TypeOK
  BY <1>5, <1>6, <1>7 DEF TypeOK, TaskOK, SessionRecs
<1>10. StreamsGood
  BY DEF StreamsGood, StreamOK, DB!NoStream
<1> QED
  BY <1>4, <1>7, <1>8, <1>9, <1>10 DEF GInv

-----------------------------------------------------------------------------
(***************************************************************************)
(* Pushes, and the two steps of create_db                                  *)
(***************************************************************************)
\* A push is inside update_db's scope, and nobody else loads or stores between
\* its load and its store.
PushInv ==
    /\ counter = pushes
    /\ \A p \in Procs :
          /\ pushing[p] = "loaded" => task[p].job = "push" /\ loaded[p] = counter
          /\ task[p].job = "push" =>
                /\ stream[p].at = "exclusive" /\ stream[p].db = "user"
                /\ stream[p].out # None /\ ~Threw(p)

InitJobs == {"init_user_db", "init_shadow_db"}

\* Only a creator writes the bare struct, and it goes on to write the array.
CreateInv ==
    /\ \A p \in Procs :
          /\ stream[p].out # None =>
                (stream[p].out = Bare <=> task[p].job \in CreateJobs)
          /\ task[p].job \in InitJobs =>
                /\ stream[p].got = None
                /\ stream[p].at = "unlocked" => stream[p].out # None
    /\ BareIsTransient

HInv == GInv /\ PushInv /\ CreateInv

\* One process at most is inside a push.
LEMMA OnePush ==
    ASSUME HInv, NEW p \in Procs, NEW q \in Procs,
           task[p].job = "push", task[q].job = "push"
    PROVE  p = q
BY DEF HInv, PushInv, GInv, DBP!IInv, DBP!LocksExclude

\* Where the steps outside a scope take a session.
LEMMA OutsideMoves ==
    ASSUME TaskOK, NEW p \in Procs,
           \/ Exists(p) \/ CheckUser(p) \/ CheckShadow(p)
           \/ Authenticate(p) \/ AuthExec(p) \/ OpenFails(p)
    PROVE  task'[p].job \notin InitJobs \cup {"push"}
<1>1. \A job : Goto(p, job) => task'[p].job = job
  BY DEF Goto, TaskOK, SessionRecs
<1>2. \A status : Finish(p, status) => task'[p].job = "idle"
  BY DEF Finish, TaskOK, SessionRecs
<1>3. CASE Exists(p) \/ CheckUser(p) \/ CheckShadow(p) \/ OpenFails(p)
  BY <1>1, <1>2, <1>3 DEF Exists, CheckUser, CheckShadow, OpenFails, AfterCreate, InitJobs
<1>4. CASE Authenticate(p)
  <2>1. ASSUME NEW job, NEW m, task' = [task EXCEPT ![p].m = m, ![p].job = job]
        PROVE  task'[p].job = job
    BY <2>1 DEF TaskOK, SessionRecs
  <2>2. task'[p].job \in {"idle", "lookup_password", "exec"}
    BY <1>2, <1>4, <2>1 DEF Authenticate
  <2> QED
    BY <2>2 DEF InitJobs
<1>5. CASE AuthExec(p)
  <2>1. PICK job \in {"update_db", "authenticate"} :
           \E a, u, v, s :
              task' = [task EXCEPT ![p].answer = a, ![p].user = u, ![p].via = v,
                                   ![p].status = s, ![p].job = job]
    <3>1. PICK r \in Responses :
             task' = [task EXCEPT
                  ![p].answer = r.status,
                  ![p].user   = r.user,
                  ![p].via    = "remote",
                  ![p].status = IF ValidResponse(r) THEN r.status ELSE "Error",
                  ![p].job    = IF ValidResponse(r) /\ r.status = "Allowed"
                                THEN "update_db" ELSE "authenticate"]
      BY <1>5 DEF AuthExec
    <3> DEFINE s == IF ValidResponse(r) THEN r.status ELSE "Error"
               job == IF ValidResponse(r) /\ r.status = "Allowed"
                      THEN "update_db" ELSE "authenticate"
    <3>2. task' = [task EXCEPT ![p].answer = r.status, ![p].user = r.user,
                               ![p].via = "remote", ![p].status = s, ![p].job = job]
      BY <3>1
    <3>3. job \in {"update_db", "authenticate"}
      OBVIOUS
    <3> HIDE DEF s, job
    <3> QED
      BY <3>2, <3>3
  <2>2. task'[p].job = job
    BY <2>1 DEF TaskOK, SessionRecs
  <2> QED
    BY <2>2 DEF InitJobs
<1> QED
  BY <1>3, <1>4, <1>5

LEMMA PushKeepsPushInv ==
    ASSUME HInv, NEW p \in Procs, Push(p)
    PROVE  PushInv'
<1>1. /\ TaskOK /\ pushing \in [Procs -> Obs!PushStates] /\ DOMAIN loaded = Procs
      /\ stream' = stream /\ task[p].job = "push"
      /\ task'[p].job \in {"push", "pushed"}
      /\ \A q \in Procs \ {p} : task'[q] = task[q]
  BY DEF TaskOK, SessionRecs, HInv, GInv, TypeOK, Obs!ShmTypeOK, Push, Goto, dbvars
<1>2. \A q \in Procs \ {p} : task[q].job # "push"
  BY <1>1, OnePush
<1>3. \A q \in Procs \ {p} : pushing[q] # "loaded"
  BY <1>2 DEF HInv, PushInv
<1>4. \A q \in Procs : task'[q].job = "push" =>
         /\ stream'[q].at = "exclusive" /\ stream'[q].db = "user"
         /\ stream'[q].out # None /\ ~Threw(q)'
  BY <1>1, <1>2 DEF HInv, PushInv, Threw
<1>5. CASE Obs!shm_open(p) \/ Obs!shm_size(p)
  <2>1. task' = task
    BY <1>5, <1>1 DEF Push, Obs!shm_open, Obs!shm_size, Obs!push_load, Obs!push_store
  <2> QED
    BY <1>1, <1>3, <1>4, <1>5, <2>1
       DEF Obs!shm_open, Obs!shm_size, HInv, PushInv
<1>6. CASE Obs!push_load(p)
  <2>1. task' = task
    BY <1>6, <1>1 DEF Push, Obs!shm_open, Obs!shm_size, Obs!push_load, Obs!push_store
  <2> QED
    BY <1>1, <1>3, <1>4, <1>6, <2>1 DEF Obs!push_load, HInv, PushInv
<1>7. CASE Obs!push_store(p)
  <2>1. loaded[p] = counter
    BY <1>7 DEF Obs!push_store, HInv, PushInv
  <2> QED
    BY <1>1, <1>3, <1>4, <1>7, <2>1 DEF Obs!push_store, HInv, PushInv
<1> QED
  BY <1>5, <1>6, <1>7 DEF Push

\* Steps that neither push nor move a process into or out of "push".
LEMMA QuietPushInv ==
    ASSUME HInv, counter' = counter, pushes' = pushes,
           \A q \in Procs :
              /\ pushing'[q] = "loaded" =>
                    pushing[q] = "loaded" /\ loaded'[q] = loaded[q]
                       /\ task'[q].job = "push"
              /\ task'[q].job = "push" =>
                    task[q].job = "push" /\ stream'[q] = stream[q]
    PROVE  PushInv'
BY DEF HInv, PushInv, Threw

LEMMA StepPushInv ==
    ASSUME HInv, [Next]_vars
    PROVE  PushInv'
<1>1. /\ TaskOK /\ pushing \in [Procs -> Obs!PushStates] /\ DOMAIN loaded = Procs
      /\ DOMAIN stream = Procs
  BY DEF TaskOK, SessionRecs, HInv, GInv, TypeOK, Obs!ShmTypeOK, DB!DBTypeOK
<1>2. \A q \in Procs : pushing[q] = "loaded" => task[q].job = "push"
  BY DEF HInv, PushInv
<1>3. \A q \in Procs : task[q].job = "push" =>
         stream[q].at = "exclusive" /\ stream[q].out # None /\ ~Threw(q)
  BY DEF HInv, PushInv
<1>4. ASSUME NEW p \in Procs,
             \/ Exists(p) \/ CheckUser(p) \/ CheckShadow(p)
             \/ Authenticate(p) \/ AuthExec(p) \/ OpenFails(p)
      PROVE  PushInv'
  <2>1. /\ counter' = counter /\ pushes' = pushes /\ pushing' = pushing
        /\ loaded' = loaded /\ stream' = stream
        /\ \A q \in Procs \ {p} : task'[q] = task[q]
    BY <1>1, <1>4
       DEF TaskOK, Exists, CheckUser, CheckShadow, Authenticate, AuthExec, OpenFails,
           Goto, Finish, dbvars, shmvars
  <2>2. task[p].job # "push"
    BY <1>3, <1>4 DEF Exists, CheckUser, CheckShadow, Authenticate, AuthExec, OpenFails
  <2>3. task'[p].job # "push"
    BY <1>1, <1>4, OutsideMoves
  <2> QED
    BY <1>2, <2>1, <2>2, <2>3, QuietPushInv
<1>5. ASSUME NEW p \in Procs, ObserverCreate(p)
      PROVE  PushInv'
  <2>1. /\ counter' = counter /\ pushes' = pushes /\ loaded' = loaded
        /\ stream' = stream
        /\ \A q \in Procs \ {p} : task'[q] = task[q] /\ pushing'[q] = pushing[q]
        /\ task[p].job # "push" /\ task'[p].job # "push" /\ pushing'[p] # "loaded"
    BY <1>1, <1>5
       DEF TaskOK, SessionRecs, ObserverCreate, Obs!shm_open, Obs!shm_size,
           Obs!create_done, Goto, dbvars
  <2> QED
    BY <1>2, <2>1, QuietPushInv
<1>6. ASSUME NEW p \in Procs,
             \/ OpenScope(p) \/ LockScope(p) \/ ReadScope(p) \/ UnlockScope(p)
             \/ CloseScope(p)
      PROVE  PushInv'
  <2>1. /\ counter' = counter /\ pushes' = pushes /\ pushing' = pushing
        /\ loaded' = loaded
        /\ \A q \in Procs \ {p} : task'[q] = task[q] /\ stream'[q] = stream[q]
    BY <1>1, <1>6
       DEF TaskOK, OpenScope, LockScope, ReadScope, UnlockScope, CloseScope, Goto,
           shmvars, DB!open, DB!create, DB!lock_read, DB!lock_write, DB!read,
           DB!unlock, DB!close
  <2>2. task[p].job # "push"
    BY <1>3, <1>6
       DEF OpenScope, LockScope, ReadScope, UnlockScope, CloseScope,
           DB!open, DB!create, DB!lock_read, DB!lock_write, DB!read, DB!unlock,
           DB!close, ReadJobs, LookupJobs
  <2>3. task'[p].job # "push"
    BY <1>1, <1>6, <2>2
       DEF TaskOK, SessionRecs, OpenScope, LockScope, ReadScope, UnlockScope,
           CloseScope, Goto, NextJob, AfterCreate
  <2> QED
    BY <1>2, <2>1, <2>2, <2>3, QuietPushInv
<1>7. ASSUME NEW p \in Procs, WriteScope(p)
      PROVE  PushInv'
  <2>1. /\ counter' = counter /\ pushes' = pushes /\ pushing' = pushing
        /\ loaded' = loaded
        /\ \A q \in Procs \ {p} : task'[q] = task[q] /\ stream'[q] = stream[q]
        /\ stream[p].out = None /\ stream[p].at = "exclusive"
        /\ task[p].job \in ScopeJobs
        /\ stream' = [stream EXCEPT ![p].out = NewDoc(p)]
    BY <1>1, <1>7 DEF TaskOK, WriteScope, DB!write, shmvars
  <2>2. task[p].job # "push"
    BY <1>3, <2>1
  <2>3. CASE task[p].job # "update_db"
    <3>1. task' = task
      BY <1>1, <1>7, <2>3 DEF TaskOK, SessionRecs, WriteScope
    <3> QED
      BY <1>2, <2>1, <2>2, <3>1, QuietPushInv
  <2>4. CASE task[p].job = "update_db"
    <3>1. stream[p].db = "user"
      <4>1. GoodStream(p)
        BY <2>1 DEF HInv, GInv, StreamsGood, StreamOK
      <4> QED
        BY <2>4, <4>1 DEF GoodStream, DbOf, UserJobs
    <3>2. ~Threw(p) /\ NewDoc(p) # None
      <4>1. Good(stream[p].db, NewDoc(p), vouched')
        BY <1>7, NewDocGood DEF HInv
      <4> QED
        BY <1>7, <2>4, <4>1, GoodIsDoc DEF WriteScope, ReadJobs
    <3>3. stream[p] \in DB!Streams
      BY DEF HInv, GInv, TypeOK, DB!DBTypeOK
    <3>4. /\ stream'[p].at = "exclusive" /\ stream'[p].db = "user"
          /\ stream'[p].out # None /\ ~Threw(p)'
      BY <1>1, <2>1, <3>1, <3>2, <3>3 DEF Threw, DB!Streams
    <3>5. pushing[p] # "loaded"
      BY <1>2, <2>4
    <3> QED
      BY <2>1, <3>4, <3>5 DEF HInv, PushInv, Threw
  <2> QED
    BY <2>3, <2>4
<1>8. ASSUME NEW p \in Procs, Kill(p)
      PROVE  PushInv'
  <2>1. /\ counter' = counter /\ pushes' = pushes
        /\ \A q \in Procs \ {p} :
              /\ task'[q] = task[q] /\ stream'[q] = stream[q]
              /\ pushing'[q] = pushing[q] /\ loaded'[q] = loaded[q]
        /\ task'[p].job = "idle" /\ pushing'[p] = "no"
    BY <1>1, <1>8
       DEF TaskOK, SessionRecs, Kill, DB!kill, Obs!shm_kill, Finish, dbvars
  <2> QED
    BY <1>2, <2>1, QuietPushInv
<1>9. ASSUME NEW p \in Procs, NEW kind \in Kinds, NEW id \in Ids \cup {None},
             NEW pw \in Passwords \cup {None}, Begin(p, kind, id, pw)
      PROVE  PushInv'
  <2>1. /\ counter' = counter /\ pushes' = pushes /\ pushing' = pushing
        /\ loaded' = loaded /\ stream' = stream
        /\ \A q \in Procs \ {p} : task'[q] = task[q]
        /\ task[p].job = "idle" /\ task'[p].job # "push"
    <3>1. task' = [task EXCEPT ![p] = NewTask(kind, FirstJob(kind), id, pw)]
      BY <1>9 DEF Begin
    <3>2. NewTask(kind, FirstJob(kind), id, pw).job # "push"
      BY DEF NewTask, FirstJob
    <3>3. UNCHANGED <<dbvars, shmvars>> /\ task[p].job = "idle"
      BY <1>9 DEF Begin
    <3>4. task'[p].job # "push" /\ \A q \in Procs \ {p} : task'[q] = task[q]
      BY <1>1, <3>1, <3>2 DEF TaskOK
    <3> QED
      BY <3>3, <3>4 DEF dbvars, shmvars
  <2> QED
    BY <1>2, <2>1, QuietPushInv
<1>10. CASE Tick \/ Finished \/ UNCHANGED vars
  <2>1. UNCHANGED <<counter, pushes, pushing, loaded, stream, task>>
    BY <1>10 DEF Tick, Finished, vars, dbvars, shmvars
  <2> QED
    BY <1>2, <2>1, QuietPushInv
<1>11. ASSUME NEW p \in Procs, Step(p)
       PROVE  PushInv'
  BY <1>4, <1>5, <1>6, <1>7, <1>11, PushKeepsPushInv DEF Step
<1> QED
  BY <1>8, <1>9, <1>10, <1>11 DEF Next

\* Only a creator writes the bare struct.
LEMMA NewDocBare ==
    ASSUME GInv, NEW p \in Procs, WriteScope(p)
    PROVE  NewDoc(p) = Bare <=> task[p].job \in CreateJobs
<1>1. CASE task[p].job \in CreateJobs
  BY <1>1 DEF NewDoc, CreateJobs
<1>2. CASE task[p].job \notin CreateJobs
  <2>1. GoodStream(p) /\ stream[p].db = DbOf(task[p].job)
    BY DEF WriteScope, DB!write, GInv, StreamsGood, StreamOK, GoodStream
  <2>2. stream[p].got \notin {None, Empty, Bare} =>
           Good(stream[p].db, stream[p].got, vouched)
    BY <2>1 DEF GoodStream
  <2>3. CASE task[p].job = "update_db"
    <3>1. stream[p].got \in SUBSET UserRecs
      BY <2>1, <2>2, <2>3 DEF WriteScope, ReadJobs, Threw, Good, DocsOf, DbOf, UserJobs
    <3>2. task[p].user \in UserRecs
      BY <2>3 DEF GInv, JobsHaveInputs
    <3>3. NewDoc(p) \in SUBSET UserRecs
      BY <2>3, <3>1, <3>2 DEF NewDoc, CreateJobs, Upsert
    <3> QED
      BY <1>2, <3>3, DocsAreDocs
  <2>4. CASE task[p].job = "update_shadow_db"
    <3>1. stream[p].got \in SUBSET ShadowRecs
      BY <2>1, <2>2, <2>4 DEF WriteScope, ReadJobs, Threw, Good, DocsOf, DbOf, UserJobs
    <3>2. /\ task[p].id \in Ids /\ task[p].pw \in Passwords
          /\ clock + Life \in 0 .. MaxTime + Life
      BY <2>4, GateAssumptions DEF GInv, TypeOK, JobsHaveInputs, LoginJobs
    <3>3. [name |-> task[p].id, key |-> task[p].pw, expire |-> clock + Life]
             \in ShadowRecs
      BY <3>2 DEF ShadowRecs
    <3>4. NewDoc(p) = CachePassword(stream[p].got, task[p].id, task[p].pw, clock)
      BY <2>4 DEF NewDoc, CreateJobs
    <3>5. NewDoc(p) \in SUBSET ShadowRecs
      BY <3>1, <3>3, <3>4 DEF CachePassword
    <3> QED
      BY <1>2, <3>5, DocsAreDocs
  <2>5. CASE task[p].job \notin {"update_db", "update_shadow_db"}
    <3>1. NewDoc(p) = {}
      BY <1>2, <2>5 DEF NewDoc
    <3> QED
      BY <1>2, <3>1, DocsAreDocs
  <2> QED
    BY <2>3, <2>4, <2>5
<1> QED
  BY <1>1, <1>2

\* Steps that leave the files alone.
LEMMA QuietCreateInv ==
    ASSUME HInv, NEW p \in Procs, kills \in Nat, kills' = kills, file' = file,
           \A q \in Procs \ {p} : task'[q] = task[q] /\ stream'[q] = stream[q],
           stream'[p].out = stream[p].out,
           stream[p].out # None =>
              (task'[p].job \in CreateJobs <=> task[p].job \in CreateJobs),
           task'[p].job \in InitJobs =>
              /\ stream'[p].got = None
              /\ stream'[p].at = "unlocked" => stream'[p].out # None,
           task[p].job \in InitJobs =>
              task'[p].job = task[p].job \/ file[DbOf(task[p].job)] # Bare
    PROVE  CreateInv'
<1>1. BareIsTransient'
  BY DEF HInv, CreateInv, BareIsTransient, InitJobs, DbOf, UserJobs
<1> QED
  BY <1>1 DEF HInv, CreateInv

LEMMA StepCreateInv ==
    ASSUME HInv, [Next]_vars
    PROVE  CreateInv'
<1>1. TaskOK /\ DOMAIN stream = Procs /\ kills \in Nat /\ DOMAIN file = Files
  BY DEF TaskOK, SessionRecs, HInv, GInv, TypeOK, DB!DBTypeOK
<1>2. GInv
  BY DEF HInv
<1>3. \A q \in Procs : stream[q].at = "closed" =>
         stream[q].out = None /\ stream[q].got = None
  BY DEF HInv, GInv, StreamsGood, StreamOK, DB!NoStream
<1>4. ASSUME NEW p \in Procs,
             \/ Exists(p) \/ CheckUser(p) \/ CheckShadow(p)
             \/ Authenticate(p) \/ AuthExec(p) \/ OpenFails(p)
      PROVE  CreateInv'
  <2>1. stream[p].at = "closed"
    <3>1. CASE OpenFails(p)
      BY <3>1 DEF OpenFails
    <3>2. CASE ~OpenFails(p)
      <4>1. task[p].job \notin ScopeJobs
        BY <1>4, <3>2 DEF Exists, CheckUser, CheckShadow, Authenticate, AuthExec,
                          ScopeJobs, UserJobs, ShadowJobs
      <4> QED
        BY <1>2, <4>1, ClosedOutsideScopes
    <3> QED
      BY <3>1, <3>2
  <2>2. /\ kills' = kills /\ file' = file /\ stream' = stream
        /\ \A q \in Procs \ {p} : task'[q] = task[q]
    BY <1>1, <1>4
       DEF TaskOK, Exists, CheckUser, CheckShadow, Authenticate, AuthExec, OpenFails,
           Goto, Finish, dbvars, boundvars
  <2>3. task[p].job \in InitJobs => file[DbOf(task[p].job)] # Bare
    BY <1>4, GateAssumptions
       DEF InitJobs, Exists, CheckUser, CheckShadow, Authenticate, AuthExec,
           OpenFails, DB!exists
  <2>4. task'[p].job \notin InitJobs
    BY <1>1, <1>4, OutsideMoves
  <2> QED
    BY <1>1, <1>3, <2>1, <2>2, <2>3, <2>4, QuietCreateInv
<1>5. ASSUME NEW p \in Procs, ObserverCreate(p) \/ Push(p)
      PROVE  CreateInv'
  <2>1. /\ kills' = kills /\ file' = file /\ stream' = stream
        /\ \A q \in Procs \ {p} : task'[q] = task[q]
        /\ task[p].job \notin InitJobs \cup CreateJobs
        /\ task'[p].job \notin InitJobs \cup CreateJobs
    BY <1>1, <1>5
       DEF TaskOK, SessionRecs, ObserverCreate, Push, Goto, dbvars, boundvars,
           InitJobs, CreateJobs
  <2> QED
    BY <1>1, <2>1, QuietCreateInv
<1>6. ASSUME NEW p \in Procs, NEW mode, DB!open(p, DbOf(task[p].job), mode),
             UNCHANGED <<task, boundvars>>
      PROVE  CreateInv'
  <2>1. /\ kills' = kills /\ file' = file /\ task' = task
        /\ \A q \in Procs \ {p} : stream'[q] = stream[q]
        /\ stream'[p].out = None /\ stream'[p].got = None /\ stream'[p].at = "opened"
    BY <1>1, <1>6 DEF DB!open, DB!NoStream, boundvars
  <2>2. stream[p].out = None
    BY <1>3, <1>6 DEF DB!open
  <2> QED
    BY <1>1, <2>1, <2>2, QuietCreateInv
<1>7. ASSUME NEW p \in Procs, LockScope(p) \/ ReadScope(p) \/ UnlockScope(p)
      PROVE  CreateInv'
  <2>1. stream[p] \in DB!Streams
    BY DEF HInv, GInv, TypeOK, DB!DBTypeOK
  <2>2. /\ kills' = kills /\ file' = file
        /\ \A q \in Procs \ {p} : stream'[q] = stream[q] /\ task'[q] = task[q]
        /\ stream'[p].out = stream[p].out /\ task'[p].job = task[p].job
    BY <1>1, <1>7, <2>1
       DEF LockScope, ReadScope, UnlockScope, DB!lock_read, DB!lock_write, DB!read,
           DB!unlock, DB!Streams, TaskOK, SessionRecs, boundvars
  <2>3. task[p].job \in InitJobs => stream'[p].got = None
    <3>1. CASE ReadScope(p)
      BY <3>1 DEF ReadScope, ReadJobs, InitJobs
    <3>2. CASE LockScope(p) \/ UnlockScope(p)
      BY <1>1, <2>1, <3>2
         DEF LockScope, UnlockScope, DB!lock_read, DB!lock_write, DB!unlock,
             DB!Streams, HInv, CreateInv
    <3> QED
      BY <1>7, <3>1, <3>2
  <2>4. task[p].job \in InitJobs /\ stream'[p].at = "unlocked" => stream[p].out # None
    <3>1. CASE LockScope(p) \/ ReadScope(p)
      BY <1>1, <2>1, <3>1
         DEF LockScope, ReadScope, DB!lock_read, DB!lock_write, DB!read,
             DB!Streams, HInv, CreateInv
    <3>2. CASE UnlockScope(p)
      BY <3>2, GateAssumptions
         DEF UnlockScope, Threw, LookupJobs, InitJobs, HInv, CreateInv
    <3> QED
      BY <1>7, <3>1, <3>2
  <2> QED
    BY <1>1, <2>2, <2>3, <2>4, QuietCreateInv
<1>8. ASSUME NEW p \in Procs, NEW kind \in Kinds, NEW id \in Ids \cup {None},
             NEW pw \in Passwords \cup {None}, Begin(p, kind, id, pw)
      PROVE  CreateInv'
  <2> DEFINE r == NewTask(kind, FirstJob(kind), id, pw)
  <2>1. /\ kills' = kills /\ file' = file /\ stream' = stream /\ task[p].job = "idle"
        /\ task' = [task EXCEPT ![p] = r]
    BY <1>8 DEF Begin, dbvars
  <2>2. r.job \notin InitJobs \cup CreateJobs
    BY DEF NewTask, FirstJob, InitJobs, CreateJobs
  <2> HIDE DEF r
  <2>3. /\ task'[p].job \notin InitJobs \cup CreateJobs
        /\ \A q \in Procs \ {p} : task'[q] = task[q]
    BY <1>1, <2>1, <2>2 DEF TaskOK
  <2>4. task[p].job \notin InitJobs \cup CreateJobs
    BY <2>1 DEF InitJobs, CreateJobs
  <2> QED
    BY <1>1, <2>1, <2>3, <2>4, QuietCreateInv
<1>9. CASE Tick \/ Finished \/ UNCHANGED vars
  <2>1. UNCHANGED <<file, stream, task, kills>>
    BY <1>9 DEF Tick, Finished, vars, dbvars, boundvars
  <2> QED
    BY <2>1 DEF HInv, CreateInv, BareIsTransient
<1>10. ASSUME NEW p \in Procs, Kill(p)
       PROVE  CreateInv'
  <2>1. /\ kills' > 0
        /\ \A q \in Procs \ {p} : stream'[q] = stream[q] /\ task'[q] = task[q]
        /\ task'[p].job = "idle"
        /\ stream'[p].out = None
    BY <1>1, <1>3, <1>10
       DEF Kill, DB!kill, DB!NoStream, dbvars, Finish, TaskOK, SessionRecs
  <2> QED
    BY <2>1 DEF HInv, CreateInv, BareIsTransient, InitJobs
<1>11. ASSUME NEW p \in Procs, DB!create(p, DbOf(task[p].job)),
              UNCHANGED <<task, boundvars>>
       PROVE  CreateInv'
  <2>1. /\ kills' = kills /\ task' = task
        /\ file' = [file EXCEPT ![DbOf(task[p].job)] = Empty]
        /\ \A q \in Procs \ {p} : stream'[q] = stream[q]
        /\ stream'[p].out = None /\ stream'[p].got = None /\ stream'[p].at = "opened"
    BY <1>1, <1>11 DEF DB!create, DB!NoStream, boundvars
  <2>2. \A f \in Files : file'[f] = Bare => file[f] = Bare
    BY <1>1, <2>1, GateAssumptions
  <2>3. BareIsTransient'
    BY <2>1, <2>2 DEF HInv, CreateInv, BareIsTransient, Files
  <2> QED
    BY <2>1, <2>3 DEF HInv, CreateInv
<1>12. ASSUME NEW p \in Procs, WriteScope(p)
       PROVE  CreateInv'
  <2>1. stream[p] \in DB!Streams
    BY DEF HInv, GInv, TypeOK, DB!DBTypeOK
  <2>2. /\ kills' = kills
        /\ file' = [file EXCEPT ![stream[p].db] = Empty]
        /\ stream' = [stream EXCEPT ![p].out = NewDoc(p)]
        /\ stream[p].at = "exclusive"
    BY <1>12 DEF WriteScope, DB!write, boundvars
  <2>3. \A q \in Procs \ {p} : stream'[q] = stream[q] /\ task'[q] = task[q]
    BY <1>1, <1>12, <2>2 DEF TaskOK, WriteScope
  <2>4. /\ stream'[p].out = NewDoc(p) /\ stream'[p].got = stream[p].got
        /\ stream'[p].at = "exclusive"
    BY <1>1, <2>1, <2>2 DEF DB!Streams
  <2>5. /\ task'[p].job \in CreateJobs <=> task[p].job \in CreateJobs
        /\ task'[p].job \in InitJobs => task'[p].job = task[p].job
        /\ task[p].job \in InitJobs => task'[p].job = task[p].job
    BY <1>1, <1>12 DEF TaskOK, SessionRecs, WriteScope, CreateJobs, InitJobs
  <2>6. \A f \in Files : file'[f] = Bare => file[f] = Bare
    BY <1>1, <2>2, GateAssumptions
  <2>7. BareIsTransient'
    BY <2>2, <2>3, <2>5, <2>6 DEF HInv, CreateInv, BareIsTransient, InitJobs, Files
  <2>8. NewDoc(p) = Bare <=> task[p].job \in CreateJobs
    BY <1>2, <1>12, NewDocBare
  <2> QED
    BY <2>3, <2>4, <2>5, <2>7, <2>8 DEF HInv, CreateInv
<1>13. ASSUME NEW p \in Procs, CloseScope(p)
       PROVE  CreateInv'
  <2> DEFINE s == stream[p]
  <2>1. /\ kills' = kills
        /\ file' = IF s.out = None THEN file ELSE [file EXCEPT ![s.db] = s.out]
        /\ stream' = [stream EXCEPT ![p] = DB!NoStream]
        /\ s.at = "unlocked"
        /\ Goto(p, NextJob(p))
    BY <1>13 DEF CloseScope, DB!close, boundvars
  <2>2. /\ \A q \in Procs \ {p} : stream'[q] = stream[q] /\ task'[q] = task[q]
        /\ task'[p].job = NextJob(p)
        /\ stream'[p].out = None /\ stream'[p].got = None /\ stream'[p].at = "closed"
    BY <1>1, <2>1 DEF TaskOK, SessionRecs, Goto, DB!NoStream
  <2>3. s.db = DbOf(task[p].job) /\ s.db \in Files
    BY <2>1 DEF HInv, GInv, StreamsGood, StreamOK, GoodStream
  <2>4. task[p].job \in InitJobs => s.out # None
    BY <2>1 DEF HInv, CreateInv
  <2>5. s.out = Bare => task[p].job \in CreateJobs
    BY GateAssumptions DEF HInv, CreateInv
  <2>6. /\ task[p].job = "create_user_db" => NextJob(p) = "init_user_db"
        /\ task[p].job = "create_shadow_db" => NextJob(p) = "init_shadow_db"
    BY DEF NextJob
  <2> HIDE DEF s
  <2>7. ASSUME NEW f \in Files, file'[f] = Bare
        PROVE  \/ kills > 0
               \/ \E q \in Procs :
                     task'[q].job = IF f = "user" THEN "init_user_db"
                                    ELSE "init_shadow_db"
    <3>1. CASE s.out # None /\ f = s.db
      <4>1. s.out = Bare
        BY <1>1, <2>1, <2>7, <3>1
      <4> QED
        BY <2>2, <2>3, <2>5, <2>6, <3>1, <4>1 DEF CreateJobs, DbOf, UserJobs
    <3>2. CASE s.out = None \/ f # s.db
      <4>1. file[f] = Bare
        BY <1>1, <2>1, <2>3, <2>7, <3>2
      <4>2. \/ kills > 0
            \/ \E q \in Procs :
                  task[q].job = IF f = "user" THEN "init_user_db" ELSE "init_shadow_db"
        BY <4>1 DEF HInv, CreateInv, BareIsTransient, Files
      <4>3. task[p].job # IF f = "user" THEN "init_user_db" ELSE "init_shadow_db"
        BY <2>3, <2>4, <3>2 DEF InitJobs, DbOf, UserJobs, Files
      <4> QED
        BY <2>2, <4>2, <4>3
    <3> QED
      BY <3>1, <3>2
  <2>8. BareIsTransient'
    BY <2>1, <2>7 DEF BareIsTransient, Files
  <2> QED
    BY <2>2, <2>8 DEF HInv, CreateInv
<1>14. ASSUME NEW p \in Procs, OpenScope(p)
       PROVE  CreateInv'
  BY <1>6, <1>11, <1>14 DEF OpenScope
<1>15. ASSUME NEW p \in Procs, Step(p)
       PROVE  CreateInv'
  BY <1>4, <1>5, <1>7, <1>12, <1>13, <1>14, <1>15 DEF Step
<1> QED
  BY <1>8, <1>9, <1>10, <1>15 DEF Next

LEMMA InitHInv == Init => HInv
<1> SUFFICES ASSUME Init PROVE HInv
  OBVIOUS
<1>1. GInv
  BY InitGInv
<1>2. PushInv
  BY DEF Init, Obs!ShmInit, PushInv, NoTask, NewTask
<1>3. CreateInv
  BY InitFiles, GateAssumptions, DocsAreDocs
     DEF Init, CreateInv, BareIsTransient, NoTask, NewTask, DB!NoStream, InitJobs, Files
<1> QED
  BY <1>1, <1>2, <1>3 DEF HInv

LEMMA StepHInv == HInv /\ [Next]_vars => HInv'
BY StepGInv, StepPushInv, StepCreateInv DEF HInv

-----------------------------------------------------------------------------
(***************************************************************************)
(* Theorems                                                                *)
(***************************************************************************)
\* The inductive invariant.
THEOREM Invariance == Spec => []HInv
<1>1. Init => HInv
  BY InitHInv
<1>2. HInv /\ [Next]_vars => HInv'
  BY StepHInv
<1> QED
  BY <1>1, <1>2, PTL DEF Spec

\* Type correctness.
THEOREM TypeCorrect == Spec => []TypeOK
<1>1. HInv => TypeOK
  BY DEF HInv, GInv
<1> QED
  BY <1>1, Invariance, PTL

(***************************************************************************)
(* The sessions use the database files only as AutoLock scopes do: what    *)
(* FileDB_proofs shows of the most general client holds of every command   *)
(* and of the PAM module.                                                  *)
(***************************************************************************)
THEOREM ImplementsFileDB == Spec => DB!DBSpec
<1>1. Init => DB!DBInit
  BY InitFiles DEF Init, DB!DBInit
<1>2. HInv /\ [Next]_vars => [DB!DBNext]_(DB!dbvars)
  BY StepIsDBStep DEF HInv, dbvars, DB!dbvars
<1> QED
  BY <1>1, <1>2, Invariance, PTL DEF Spec, DB!DBSpec

(***************************************************************************)
(* What FileDB_proofs shows of the most general client, said of the        *)
(* sessions.                                                               *)
(***************************************************************************)
LEMMA SameMeaning ==
    /\ DBP!EmptyFileIsOwed <=> DB!EmptyFileIsOwed
    /\ \A q \in Procs, f \in Files : DBP!InUnlockedWindow(q, f) <=> DB!InUnlockedWindow(q, f)
BY DEF DBP!EmptyFileIsOwed, DB!EmptyFileIsOwed,
       DBP!Owes, DB!Owes, DBP!InUnlockedWindow, DB!InUnlockedWindow

\* flock: while a scope of update_db, a purge or create_db has the exclusive
\* lock on a database, no other command and no login has a lock on it.
THEOREM SessionsExclude == Spec => []DBP!LocksExclude
<1>1. HInv => DBP!LocksExclude
  BY DEF HInv, GInv, DBP!IInv
<1> QED
  BY <1>1, Invariance, PTL

\* A database without a document is owed one by a session that has truncated it
\* and not yet closed it, unless a process has died there.
THEOREM DatabasesAreOwed == Spec => []DB!EmptyFileIsOwed
<1>1. HInv => DB!EmptyFileIsOwed
  BY SameMeaning DEF HInv, GInv, DBP!IInv
<1> QED
  BY <1>1, Invariance, PTL

\* The step of a session in which FileDB::read throws.
LEMMA FailedReadOfSession ==
    ASSUME HInv, [Next]_vars, NEW p \in Procs,
           stream[p].got = None, stream'[p].got = Empty
    PROVE  \/ lost[stream[p].db]
           \/ \E q \in Procs \ {p} : DB!InUnlockedWindow(q, stream[p].db)
<1>1. None # Empty
  BY DBAssumption DEF DBP!DistinctContents
<1>2. DBP!IInv /\ DBP!DBNext
  BY <1>1, StepIsDBStep, SameNext DEF HInv, GInv, dbvars
<1>3. stream[p].got = None /\ stream'[p].got = Empty
         => \/ lost[stream[p].db]
            \/ \E q \in Procs \ {p} : DBP!InUnlockedWindow(q, stream[p].db)
  BY <1>2, DBP!FailedReadStep, DBAssumption
<1> QED
  BY <1>3 DEF DBP!InUnlockedWindow, DB!InUnlockedWindow, DBP!Owes, DB!Owes

\* A locked read of a session finds no document only while another session has
\* truncated the database and has either no lock yet or none any more, or after
\* a death.
THEOREM SessionsFailToRead == Spec => DB!FailedReadIsInUnlockedWindow
<1> DEFINE Reads == \A p \in Procs :
        stream[p].got = None /\ stream'[p].got = Empty
          => \/ lost[stream[p].db]
             \/ \E q \in Procs \ {p} : DB!InUnlockedWindow(q, stream[p].db)
<1>1. HInv /\ [Next]_vars => [Reads]_(DB!dbvars)
  BY FailedReadOfSession
<1> QED
  BY <1>1, Invariance, PTL DEF Spec, DB!FailedReadIsInUnlockedWindow

(***************************************************************************)
(* Whatever updates, purges, creations and deaths interleave, the user     *)
(* database has one entry per login and one per uid.                       *)
(***************************************************************************)
THEOREM OneUserPerKey == Spec => []UserKeysUnique
<1>1. HInv => UserKeysUnique
  BY DEF HInv, GInv, FilesGood, Files, Good, KeysUnique, UserKeysUnique, HasArray
<1> QED
  BY <1>1, Invariance, PTL

\* One cached password per name.
THEOREM OnePasswordPerName == Spec => []ShadowNamesUnique
<1>1. HInv => ShadowNamesUnique
  BY DEF HInv, GInv, FilesGood, Files, Good, NamesUnique, ShadowNamesUnique, HasArray
<1> QED
  BY <1>1, Invariance, PTL

\* The bare struct of FileDB::create is always about to be overwritten.
THEOREM BareDocumentIsTransient == Spec => []BareIsTransient
<1>1. HInv => BareIsTransient
  BY DEF HInv, CreateInv
<1> QED
  BY <1>1, Invariance, PTL

\* The lock of the user database makes a push atomic.
THEOREM NoPushIsLost == Spec => []PushesCounted
<1>1. HInv => PushesCounted
  BY DEF HInv, PushInv, PushesCounted, Obs!EveryPushCounts
<1> QED
  BY <1>1, Invariance, PTL

(***************************************************************************)
(* A password that the cache accepts was accepted by a remote method for   *)
(* this name less than the expiration time ago.                            *)
(***************************************************************************)
\* Only the end of a lookup gives a lookup its status.
LEMMA LookupEnds ==
    ASSUME HInv, Next, NEW p \in Procs, task[p].job = "lookup_password",
           task[p].status # "Allowed", task'[p].status = "Allowed"
    PROVE  UnlockScope(p) /\ ScopeStatus(p) = "Allowed"
<1>1. TaskOK
  BY DEF TaskOK, SessionRecs, HInv, GInv, TypeOK
<1>2. ASSUME NEW q \in Procs, Step(q), ~UnlockScope(q) \/ q # p
      PROVE  task'[p].status = task[p].status \/ task'[p].status = "Crashed"
  <2>1. CASE q # p
    BY <1>1, <1>2, <2>1
       DEF TaskOK, Step, Exists, CheckUser, CheckShadow, ObserverCreate, OpenScope,
           OpenFails, LockScope, ReadScope, WriteScope, Push, UnlockScope, CloseScope,
           Authenticate, AuthExec, Goto, Finish
  <2>2. CASE q = p
    <3> USE DEF TaskOK, SessionRecs, Goto, Finish
    <3>1. CASE Exists(p) \/ CheckUser(p) \/ CheckShadow(p) \/ ObserverCreate(p)
      BY <1>1, <3>1 DEF Exists, CheckUser, CheckShadow, ObserverCreate
    <3>2. CASE OpenScope(p) \/ OpenFails(p) \/ LockScope(p) \/ ReadScope(p)
      BY <1>1, <3>2 DEF OpenScope, OpenFails, LockScope, ReadScope
    <3>3. CASE WriteScope(p) \/ Push(p) \/ CloseScope(p)
      BY <1>1, <3>3 DEF WriteScope, Push, CloseScope
    <3>4. CASE Authenticate(p) \/ AuthExec(p)
      BY <1>1, <3>4 DEF Authenticate, AuthExec, LookupJobs
    <3> QED
      BY <1>2, <2>2, <3>1, <3>2, <3>3, <3>4 DEF Step
  <2> QED
    BY <2>1, <2>2
<1>3. ASSUME NEW q \in Procs, NEW kind, NEW id, NEW pw, Begin(q, kind, id, pw)
      PROVE  task'[p] = task[p]
  BY <1>1, <1>3 DEF TaskOK, Begin
<1>4. ASSUME NEW q \in Procs, Kill(q)
      PROVE  task'[p] = task[p] \/ task'[p].status = "Killed"
  BY <1>1, <1>4 DEF TaskOK, SessionRecs, Kill, Finish
<1>5. ASSUME Tick \/ Finished
      PROVE  task' = task
  BY <1>5 DEF Tick, Finished, vars
<1>6. UnlockScope(p)
  BY <1>2, <1>3, <1>4, <1>5 DEF Next
<1>7. task'[p].status = ScopeStatus(p)
  BY <1>1, <1>6 DEF UnlockScope, TaskOK, SessionRecs
<1> QED
  BY <1>6, <1>7

LEMMA AcceptedStep ==
    ASSUME HInv, Next, NEW p \in Procs, task[p].job = "lookup_password",
           task[p].status # "Allowed", task'[p].status = "Allowed"
    PROVE  AcceptedRemotely(TruncateDomain(task[p].id), task[p].pw)
<1> DEFINE shadows == stream[p].got
           name == TruncateDomain(task[p].id)
<1>1. UnlockScope(p) /\ ScopeStatus(p) = "Allowed"
  BY LookupEnds
<1>2. ~Threw(p)
  BY <1>1 DEF ScopeStatus
<1>3. stream[p].at \in {"shared", "exclusive"}
  BY <1>1 DEF UnlockScope, DB!unlock
<1>4. GoodStream(p)
  BY <1>3 DEF HInv, GInv, StreamsGood, StreamOK
<1>5. shadows \notin {None, Empty, Bare}
  BY <1>1, <1>2, <1>4 DEF UnlockScope, Threw, GoodStream, LookupJobs
<1>6. stream[p].db = "shadow"
  BY <1>4 DEF GoodStream, DbOf, UserJobs
<1>7. /\ shadows \in SUBSET ShadowRecs
      /\ NamesUnique(shadows) /\ Backed(shadows, vouched)
  BY <1>4, <1>5, <1>6 DEF GoodStream, Good, DocsOf
<1>8. LookupPassword(shadows, task[p].id, task[p].pw, clock) = "Allowed"
  BY <1>1, <1>2 DEF ScopeStatus
<1>9. PICK s \in shadows : s.name = name /\ s.key = task[p].pw
  BY <1>8 DEF LookupPassword
<1>10. PICK r \in shadows : r.name = name /\ clock < r.expire
  BY <1>8 DEF LookupPassword
<1>11. r = s
  BY <1>7, <1>9, <1>10 DEF NamesUnique
<1>12. PICK v \in vouched : v.id = s.name /\ v.pw = s.key /\ s.expire = v.at + Life
  BY <1>7, <1>9 DEF Backed
<1> QED
  BY <1>9, <1>10, <1>11, <1>12 DEF AcceptedRemotely

THEOREM LocalLogin == Spec => LocalLoginWasAccepted
<1> DEFINE Accepted == \A p \in Procs :
          /\ task[p].job = "lookup_password"
          /\ task[p].status # "Allowed" /\ task'[p].status = "Allowed"
          => AcceptedRemotely(TruncateDomain(task[p].id), task[p].pw)
<1>1. HInv /\ [Next]_vars => [Accepted]_vars
  BY AcceptedStep
<1> QED
  BY <1>1, Invariance, PTL DEF Spec, LocalLoginWasAccepted

=============================================================================
