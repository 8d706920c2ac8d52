-------------------------------- MODULE Gate --------------------------------
(***************************************************************************)
(* Class Gate (lib/libllxgvagate.cpp): the user database, the shadow       *)
(* database of cached passwords and the chain of authentication methods,   *)
(* as run by the processes that use the library: the PAM module and the    *)
(* commands auth, su, create, chkpwd, cache purge and database purge of    *)
(* bin/llxgvagate.cpp.                                                     *)
(*                                                                         *)
(* A process runs one session at a time; a session is a sequence of jobs.  *)
(* A job that touches a database is one AutoLock scope of module FileDB;   *)
(* every step of every scope interleaves with those of other processes.    *)
(*                                                                         *)
(* The arrays in the databases are sets here: their order is only visible  *)
(* in the order of a listing.  A stored key is the password it was made    *)
(* from: crypt() (outside src/) maps it back to no other one.              *)
(***************************************************************************)
EXTENDS Naturals, Sequences

CONSTANTS
    Procs,
    Ids,           \* what users type: records [name, domain]
    NoDomain,      \* the domain of a name typed without "@"
    Passwords,
    UserRecs,      \* user structs a method may return: records [login, uid]
    Registered,    \* the users that were in the database at boot, if it exists
    Methods,       \* auth_methods of /etc/llx-gva-gate.cfg, a sequence
    RemoteStatus,  \* exit statuses of libgva other than Allowed
    Kinds,         \* the kinds of session that processes run
    Life,          \* 60 * expiration
    Modulus,       \* of the shared counter
    MaxTime,       \* bound on the clock
    MaxSessions,   \* bound on the number of sessions
    MaxKills,      \* bound on the number of processes that die
    Absent, Empty, None,
    Bare           \* the empty struct FileDB::create writes

ASSUME GateAssumptions ==
    /\ Life \in Nat /\ MaxTime \in Nat /\ MaxSessions \in Nat /\ MaxKills \in Nat
    /\ Modulus \in Nat \ {0}
    /\ Methods \in Seq(STRING)
    /\ Kinds \subseteq
          {"auth", "chkpwd", "create", "purge", "purge_all", "cache_purge"}
    /\ \A id \in Ids : id = [name |-> id.name, domain |-> id.domain]
    /\ \A u \in UserRecs : u = [login |-> u.login, uid |-> u.uid]
    /\ \A users \in Registered :
          /\ users \subseteq UserRecs
          /\ \A u, v \in users : u.login = v.login \/ u.uid = v.uid => u = v
    /\ Absent # Empty /\ Absent # None /\ Absent # Bare
    /\ Empty # None /\ Empty # Bare /\ None # Bare

VARIABLES
    file, stream, lost,                          \* see FileDB
    shm, counter, pushing, loaded, pushes,       \* see SharedCounter
    task,          \* task[p]: the session p runs
    clock,         \* std::time
    sessions,      \* sessions begun so far
    kills,         \* processes that died so far
    vouched        \* history: [id, pw, at] for every password that was put
                   \* into the cache, and when

Files == {"user", "shadow"}
ShadowRecs == [name : Ids, key : Passwords, expire : 0 .. MaxTime + Life]
Docs == {Bare} \cup (SUBSET UserRecs) \cup (SUBSET ShadowRecs)

ASSUME DocsAreDocs ==
    /\ None \notin Files
    /\ \A doc \in Docs : doc # Absent /\ doc # Empty /\ doc # None
    /\ \A doc \in (SUBSET UserRecs) \cup (SUBSET ShadowRecs) : doc # Bare

DB == INSTANCE FileDB
Obs == INSTANCE SharedCounter

dbvars == <<file, stream, lost>>
shmvars == <<shm, counter, pushing, loaded, pushes>>
boundvars == <<clock, sessions, kills>>
vars == <<dbvars, shmvars, task, boundvars, vouched>>

-----------------------------------------------------------------------------
(***************************************************************************)
(* Sessions and jobs                                                       *)
(***************************************************************************)
\* "auth": pam_sm_authenticate as root, and the commands auth and su.
LoginKinds == {"auth", "chkpwd"}
AllKinds == LoginKinds \cup {"create", "purge", "purge_all", "cache_purge"}

ReadJobs == {"update_db", "update_shadow_db", "lookup_user", "lookup_password"}
LookupJobs == {"lookup_user", "lookup_password"}
CreateJobs == {"create_user_db", "create_shadow_db"}
UserJobs == {"create_user_db", "init_user_db", "update_db", "push", "pushed",
             "purge_user_db", "lookup_user"}
ShadowJobs == {"create_shadow_db", "init_shadow_db", "update_shadow_db",
               "purge_shadow_db", "lookup_password"}
ScopeJobs == UserJobs \cup ShadowJobs
OtherJobs == {"idle", "exists", "check_user", "check_shadow",
              "observer_create", "authenticate", "exec"}

DbOf(job) == IF job \in UserJobs THEN "user" ELSE "shadow"

\* Gate::AuthStatus, and how a session that does not end in one ends.
Statuses == {"Allowed", "UserNotFound", "InvalidPassword", "ExpiredPassword",
             "Error"} \cup RemoteStatus
OtherEnds == {"NoDatabase", "Crashed", "Killed"}

\* The state of a session.  answer is the status the last remote method gave,
\* user the struct it sent; via tells which kind of method set status.
NewTask(kind, job, id, pw) ==
    [kind |-> kind, job |-> job, id |-> id, pw |-> pw, m |-> 1,
     status |-> "Error", via |-> "none", answer |-> "none", user |-> None]

NoTask == NewTask("none", "idle", None, None)

Goto(p, job) == task' = [task EXCEPT ![p].job = job]
Finish(p, status) ==
    task' = [task EXCEPT ![p].job = "idle", ![p].status = status]

-----------------------------------------------------------------------------
(***************************************************************************)
(* What the jobs compute                                                   *)
(***************************************************************************)
\* Gate::truncate_domain
TruncateDomain(id) == [id EXCEPT !.domain = NoDomain]

\* Mutant: users are told apart by login alone.
UpsertByLogin(users, data) ==
    {u \in users : u.login # data.login} \cup {data}

\* Gate::update_db: drop every user with this login or this uid, append data.
Upsert(users, data) ==
    {u \in users : u.login # data.login /\ u.uid # data.uid} \cup {data}

\* Mutant: the loop over the entries never sets found.
CachePasswordAppend(shadows, name, pw, now) ==
    shadows \cup {[name |-> name, key |-> pw, expire |-> now + Life]}

\* Gate::update_shadow_db: rewrite the entry of this name or append one.
\* The name is the one the user typed, with its domain.
CachePassword(shadows, name, pw, now) ==
    {s \in shadows : s.name # name}
        \cup {[name |-> name, key |-> pw, expire |-> now + Life]}

\* Mutant: "now <= expire".
LookupPasswordLate(shadows, id, pw, now) ==
    LET mine == {s \in shadows : s.name = TruncateDomain(id)} IN
    IF mine = {} THEN "UserNotFound"
    ELSE IF \A s \in mine : s.key # pw THEN "InvalidPassword"
    ELSE IF \E s \in mine : now <= s.expire THEN "Allowed"
    ELSE "ExpiredPassword"

\* Mutant: a value of the unused enum LookupStatus.
LookupPasswordNotFound(shadows, id, pw, now) ==
    IF \E s \in shadows : s.name = TruncateDomain(id) /\ s.key = pw
    THEN "Allowed" ELSE "NotFound"

\* Gate::lookup_password
LookupPassword(shadows, id, pw, now) ==
    LET mine == {s \in shadows : s.name = TruncateDomain(id)} IN
    IF mine = {} THEN "UserNotFound"
    ELSE IF \A s \in mine : s.key # pw THEN "InvalidPassword"
    ELSE IF \E s \in mine : now < s.expire THEN "Allowed"
    ELSE "ExpiredPassword"

\* The document a writing scope writes.
NewDoc(p) ==
    LET t == task[p] IN
    CASE t.job \in CreateJobs         -> Bare
      [] t.job = "update_db"          -> Upsert(stream[p].got, t.user)
      [] t.job = "update_shadow_db"   ->
            CachePassword(stream[p].got, t.id, t.pw, clock)
      [] OTHER                        -> {}

\* The scope throws: FileDB::read found no struct, or the struct has no array
\* yet ("Bad user database"; for the shadow database get on a missing key).
Threw(p) == stream[p].got \in {Empty, Bare}

\* What the scope leaves in status.  authenticate and auth_exec catch what it
\* throws; the command chkpwd does not.
ScopeStatus(p) ==
    LET t == task[p] IN
    IF Threw(p) THEN IF t.kind = "chkpwd" THEN "Crashed" ELSE "Error"
    ELSE IF t.job = "lookup_password"
         THEN LookupPassword(stream[p].got, t.id, t.pw, clock)
    ELSE t.status

-----------------------------------------------------------------------------
(***************************************************************************)
(* Beginning a session                                                     *)
(***************************************************************************)
FirstJob(kind) ==
    IF kind \in {"auth", "create"} THEN "check_user" ELSE "exists"

Begin(p, kind, id, pw) ==
    /\ task[p].job = "idle"
    /\ sessions < MaxSessions
    /\ sessions' = sessions + 1
    /\ task' = [task EXCEPT ![p] = NewTask(kind, FirstJob(kind), id, pw)]
    /\ UNCHANGED <<dbvars, shmvars, clock, kills, vouched>>

\* The exists_db test with which the commands begin: chkpwd wants both
\* databases, the purges look at the user database alone.
Exists(p) ==
    LET kind == task[p].kind IN
    /\ task[p].job = "exists"
    /\ \/ /\ kind = "chkpwd" /\ DB!exists("user") /\ DB!exists("shadow")
          /\ Goto(p, "lookup_password")
       \/ /\ kind \in {"purge", "purge_all"} /\ DB!exists("user")
          /\ Goto(p, "purge_user_db")
       \/ /\ kind = "cache_purge" /\ DB!exists("user")
          /\ Goto(p, "purge_shadow_db")
       \/ /\ \/ ~DB!exists("user")
             \/ kind = "chkpwd" /\ ~DB!exists("shadow")
          /\ Finish(p, "NoDatabase")
    /\ UNCHANGED <<dbvars, shmvars, boundvars, vouched>>

\* Gate::create_db: a database that exists is left alone.
AfterCreate(p) == IF task[p].kind = "auth" THEN "authenticate" ELSE "idle"

CheckUser(p) ==
    /\ task[p].job = "check_user"
    /\ Goto(p, IF DB!exists("user") THEN "check_shadow" ELSE "create_user_db")
    /\ UNCHANGED <<dbvars, shmvars, boundvars, vouched>>

CheckShadow(p) ==
    /\ task[p].job = "check_shadow"
    /\ Goto(p, IF DB!exists("shadow") THEN AfterCreate(p)
               ELSE "create_shadow_db")
    /\ UNCHANGED <<dbvars, shmvars, boundvars, vouched>>

\* Observer::create, after the user database was made.
ObserverCreate(p) ==
    /\ task[p].job = "observer_create"
    /\ \/ Obs!shm_open(p) /\ UNCHANGED task
       \/ Obs!shm_size(p) /\ UNCHANGED task
       \/ Obs!create_done(p) /\ Goto(p, "check_shadow")
    /\ UNCHANGED <<dbvars, boundvars, vouched>>

-----------------------------------------------------------------------------
(***************************************************************************)
(* AutoLock scopes                                                         *)
(***************************************************************************)
OpenScope(p) ==
    LET job == task[p].job IN
    /\ \/ job \in CreateJobs /\ DB!create(p, DbOf(job))
       \/ job \in LookupJobs /\ DB!open(p, DbOf(job), "r")
       \/ /\ job \in ScopeJobs \ (CreateJobs \cup LookupJobs)
          /\ DB!open(p, DbOf(job), "r+")
    /\ UNCHANGED <<shmvars, task, boundvars, vouched>>

\* fopen found no file, nobody looks at its result, and fileno(nullptr) ends
\* the process.
OpenFails(p) ==
    /\ task[p].job \in ScopeJobs \ CreateJobs
    /\ stream[p].at = "closed"
    /\ ~DB!exists(DbOf(task[p].job))
    /\ Finish(p, "Crashed")
    /\ UNCHANGED <<dbvars, shmvars, boundvars, vouched>>

LockScope(p) ==
    /\ DB!lock_read(p) \/ DB!lock_write(p)
    /\ UNCHANGED <<shmvars, task, boundvars, vouched>>

ReadScope(p) ==
    /\ task[p].job \in ReadJobs
    /\ DB!read(p)
    /\ UNCHANGED <<shmvars, task, boundvars, vouched>>

WriteScope(p) ==
    LET t == task[p] IN
    /\ t.job \in ScopeJobs \ LookupJobs
    /\ t.job \in ReadJobs => stream[p].got # None /\ ~Threw(p)
    /\ DB!write(p, NewDoc(p))
    /\ task' = [task EXCEPT ![p].job = IF @ = "update_db" THEN "push" ELSE @]
    /\ vouched' = IF t.job = "update_shadow_db"
                  THEN vouched \cup {[id |-> t.id, pw |-> t.pw, at |-> clock]}
                  ELSE vouched
    /\ UNCHANGED <<shmvars, boundvars>>

\* Observer::push, still inside update_db's scope.
Push(p) ==
    /\ task[p].job = "push"
    /\ \/ Obs!shm_open(p) /\ UNCHANGED task
       \/ Obs!shm_size(p) /\ UNCHANGED task
       \/ Obs!push_load(p) /\ UNCHANGED task
       \/ Obs!push_store(p) /\ Goto(p, "pushed")
    /\ UNCHANGED <<dbvars, boundvars, vouched>>

\* ~AutoLock, first half.  The scope has looked up, written or thrown.
UnlockScope(p) ==
    LET t == task[p] IN
    /\ \/ Threw(p)
       \/ t.job \in LookupJobs /\ stream[p].got # None
       \/ t.job # "push" /\ stream[p].out # None
    /\ DB!unlock(p)
    /\ task' = [task EXCEPT ![p].status = ScopeStatus(p),
                            ![p].via = IF t.job = "lookup_password"
                                       THEN "local" ELSE t.via]
    /\ UNCHANGED <<shmvars, boundvars, vouched>>

\* The job that follows a scope.
NextJob(p) ==
    LET t == task[p] IN
    CASE t.job = "create_user_db"    -> "init_user_db"
      [] t.job = "init_user_db"      -> "observer_create"
      [] t.job = "create_shadow_db"  -> "init_shadow_db"
      [] t.job = "init_shadow_db"    -> AfterCreate(p)
      [] t.job = "pushed"            -> "update_shadow_db"
      [] t.job \in {"update_db", "update_shadow_db", "lookup_user"}
                                     -> "authenticate"
      [] t.job = "lookup_password"   ->
            IF t.kind = "chkpwd" THEN "idle"
            ELSE IF t.status \in {"Error", "UserNotFound"} THEN "authenticate"
            ELSE "lookup_user"
      [] t.job = "purge_user_db" /\ t.kind = "purge_all"
                                     -> "purge_shadow_db"
      [] OTHER                       -> "idle"

\* Mutant: create_db forgets the array of the shadow database.
CloseScopeNoInit(p) ==
    /\ DB!close(p)
    /\ Goto(p, IF task[p].job = "create_shadow_db" THEN AfterCreate(p)
               ELSE NextJob(p))
    /\ UNCHANGED <<shmvars, boundvars, vouched>>

\* ~AutoLock, second half.
CloseScope(p) ==
    /\ DB!close(p)
    /\ Goto(p, NextJob(p))
    /\ UNCHANGED <<shmvars, boundvars, vouched>>

-----------------------------------------------------------------------------
(***************************************************************************)
(* Gate::authenticate and Gate::auth_exec                                  *)
(***************************************************************************)
\* Mutant: a method that failed is tried again.
AuthenticateAgain(p) ==
    LET t == task[p] IN
    /\ t.job = "authenticate"
    /\ IF t.m <= Len(Methods) /\ t.status \in {"Error", "UserNotFound"}
       THEN Goto(p, IF Methods[t.m] = "local" THEN "lookup_password" ELSE "exec")
       ELSE Finish(p, t.status)
    /\ UNCHANGED <<dbvars, shmvars, boundvars, vouched>>

\* One turn of the loop over auth_methods; the rest of the methods is skipped
\* once a status other than Error and UserNotFound is known.
Authenticate(p) ==
    LET t == task[p] IN
    /\ t.job = "authenticate"
    /\ IF t.m <= Len(Methods) /\ t.status \in {"Error", "UserNotFound"}
       THEN task' = [task EXCEPT
               ![p].m = t.m + 1,
               ![p].job = IF Methods[t.m] = "local" THEN "lookup_password"
                          ELSE "exec"]
       ELSE Finish(p, t.status)
    /\ UNCHANGED <<dbvars, shmvars, boundvars, vouched>>

\* Exec::run puts "user" into the response only when the status is Allowed.
\* A method that could not be run counts as one that gave no user.
Responses ==
    [status : RemoteStatus, user : {None}]
        \cup [status : {"Allowed"}, user : UserRecs \cup {None}]

\* validate(response, Authenticate): the response must have a valid user.
ValidResponse(r) == r.user # None

AuthExec(p) ==
    /\ task[p].job = "exec"
    /\ \E r \in Responses :
          task' = [task EXCEPT
              ![p].answer = r.status,
              ![p].user   = r.user,
              ![p].via    = "remote",
              ![p].status = IF ValidResponse(r) THEN r.status ELSE "Error",
              ![p].job    = IF ValidResponse(r) /\ r.status = "Allowed"
                            THEN "update_db" ELSE "authenticate"]
    /\ UNCHANGED <<dbvars, shmvars, boundvars, vouched>>

-----------------------------------------------------------------------------
(***************************************************************************)
(* The world                                                               *)
(***************************************************************************)
Tick ==
    /\ clock < MaxTime
    /\ clock' = clock + 1
    /\ UNCHANGED <<dbvars, shmvars, task, sessions, kills, vouched>>

\* The process of a session dies (signal, power, out of memory).
Kill(p) ==
    /\ kills < MaxKills
    /\ task[p].job # "idle"
    /\ kills' = kills + 1
    /\ \/ DB!kill(p)
       \/ stream[p].at = "closed" /\ UNCHANGED dbvars
    /\ Obs!shm_kill(p)
    /\ Finish(p, "Killed")
    /\ UNCHANGED <<clock, sessions, vouched>>

\* Every session of the bounded run is over.
Finished ==
    /\ sessions = MaxSessions
    /\ \A p \in Procs : task[p].job = "idle"
    /\ UNCHANGED vars

-----------------------------------------------------------------------------
\* A boot, with the databases and an empty cache of an earlier one or without
\* databases.
Init ==
    /\ \/ file = [f \in Files |-> Absent]
       \/ \E users \in Registered :
             file = [f \in Files |-> IF f = "user" THEN users ELSE {}]
    /\ stream = [p \in Procs |-> DB!NoStream]
    /\ lost = [f \in Files |-> FALSE]
    /\ Obs!ShmInit
    /\ task = [p \in Procs |-> NoTask]
    /\ clock = 0 /\ sessions = 0 /\ kills = 0
    /\ vouched = {}

\* What a session does of its own accord.
Step(p) ==
    \/ Exists(p)
    \/ CheckUser(p)
    \/ CheckShadow(p)
    \/ ObserverCreate(p)
    \/ OpenScope(p)
    \/ OpenFails(p)
    \/ LockScope(p)
    \/ ReadScope(p)
    \/ WriteScope(p)
    \/ Push(p)
    \/ UnlockScope(p)
    \/ CloseScope(p)
    \/ Authenticate(p)
    \/ AuthExec(p)

Next ==
    \/ \E p \in Procs :
          \/ \E kind \in Kinds \cap LoginKinds, id \in Ids, pw \in Passwords :
                Begin(p, kind, id, pw)
          \/ \E kind \in Kinds \ LoginKinds : Begin(p, kind, None, None)
          \/ Step(p)
          \/ Kill(p)
    \/ Tick
    \/ Finished

Spec == Init /\ [][Next]_vars

\* A live process keeps running; methods answer (Exec::run reads to the end).
FairSpec == Spec /\ \A p \in Procs : WF_vars(Step(p))

-----------------------------------------------------------------------------
\* Type invariant.
TypeOK ==
    /\ DB!DBTypeOK
    /\ Obs!ShmTypeOK
    /\ task \in [Procs ->
          [kind : AllKinds \cup {"none"}, job : ScopeJobs \cup OtherJobs,
           id : Ids \cup {None}, pw : Passwords \cup {None}, m : Nat \ {0},
           status : Statuses \cup OtherEnds,
           via : {"none", "local", "remote"},
           answer : RemoteStatus \cup {"Allowed", "none"},
           user : UserRecs \cup {None}]]
    /\ clock \in 0 .. MaxTime
    /\ sessions \in 0 .. MaxSessions
    /\ kills \in 0 .. MaxKills
    /\ vouched \subseteq [id : Ids, pw : Passwords, at : 0 .. MaxTime]

\* The file has a document with its array of users or passwords.
HasArray(f) == file[f] \notin {Absent, Empty, Bare}

(***************************************************************************)
(* The user database never has two entries with one login or with one uid, *)
(* whatever updates, purges, creations and deaths interleave: NSS looks    *)
(* users up by either key and returns the first hit (update_db).           *)
(***************************************************************************)
UserKeysUnique ==
    HasArray("user") =>
        \A u, v \in file["user"] : u.login = v.login \/ u.uid = v.uid => u = v

(***************************************************************************)
(* One cached password per name, so that an old one cannot be accepted     *)
(* beside a new one (update_shadow_db).                                    *)
(***************************************************************************)
ShadowNamesUnique ==
    HasArray("shadow") =>
        \A s, t \in file["shadow"] : s.name = t.name => s = t

(***************************************************************************)
(* A database holds the bare struct of FileDB::create, on which every      *)
(* lookup throws, only while some creator is about to put the empty array  *)
(* into it; also when several create_db calls race.  Only a process that   *)
(* died can leave it there.                                                *)
(***************************************************************************)
BareIsTransient ==
    /\ file["user"] = Bare =>
          kills > 0 \/ \E p \in Procs : task[p].job = "init_user_db"
    /\ file["shadow"] = Bare =>
          kills > 0 \/ \E p \in Procs : task[p].job = "init_shadow_db"

(***************************************************************************)
(* The local cache lets a user in only with a password that a remote       *)
(* method has accepted, for the name typed without its domain, less than   *)
(* the expiration time ago (lookup_password against update_shadow_db,      *)
(* across processes).                                                      *)
(***************************************************************************)
AcceptedRemotely(id, pw) ==
    \E v \in vouched : v.id = id /\ v.pw = pw /\ clock < v.at + Life

LocalLoginWasAccepted ==
    [][\A p \in Procs :
          /\ task[p].job = "lookup_password"
          /\ task[p].status # "Allowed" /\ task'[p].status = "Allowed"
          => AcceptedRemotely(TruncateDomain(task[p].id), task[p].pw)]_vars

(***************************************************************************)
(* Concurrent pushes never swallow one another: the load and the store of  *)
(* Observer::push happen while the user database is locked.                *)
(***************************************************************************)
PushesCounted == Obs!EveryPushCounts

(***************************************************************************)
(* Every session comes to an end: no process waits for a lock for ever,    *)
(* and the chain of methods is not walked twice.                           *)
(***************************************************************************)
SessionEnds ==
    \A p \in Procs : task[p].job # "idle" ~> task[p].job = "idle"

(***************************************************************************)
(* "purges cache database" (help of cache purge and purge-all): a purged   *)
(* password does not come back unless its user is authenticated again.     *)
(* Storing a password in an empty cache adds this entry and no other one.  *)
(***************************************************************************)
PurgeIsNotUndone ==
    [][\A p \in Procs :
          (task[p].job = "update_shadow_db" /\ DB!close(p)
             /\ stream[p].out # None /\ file["shadow"] = {})
            => \A s \in file'["shadow"] : s.name = task[p].id]_vars

(***************************************************************************)
(* "no need to panic, this may happen": an administrator's command on      *)
(* databases that are not there ends without a crash.                      *)
(***************************************************************************)
MissingDatabaseIsHarmless ==
    \A p \in Procs :
        task[p].kind \in {"purge", "purge_all", "cache_purge"}
            => task[p].status # "Crashed"

(***************************************************************************)
(* The message "Invalid user/password" is for Gate::Unauthorized: what a   *)
(* remote method answers is what its caller gets.                          *)
(***************************************************************************)
RemoteRefusalIsReported ==
    \A p \in Procs :
        task[p].via = "remote" /\ task[p].answer = "Unauthorized"
          /\ task[p].job = "authenticate" => task[p].status = "Unauthorized"

=============================================================================
