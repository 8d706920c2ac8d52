--------------------------------- MODULE Nss ---------------------------------
(***************************************************************************)
(* One process that uses the NSS module (nss/nss.cpp): its copy of the     *)
(* user database and the Observer (lib/observer.cpp) that tells it when to *)
(* load the database again, while other processes create, update and purge *)
(* it, or die.                                                             *)
(*                                                                         *)
(* The group functions run under the mutex mtx, the passwd functions under *)
(* pmtx, so that there is one call per family at a time.  Both families    *)
(* call update_db, which uses the one observer and replaces both lists.    *)
(*                                                                         *)
(* A document is the sequence of its users, or the bare struct of a user   *)
(* database that has no array yet.  The list of groups is as long as that  *)
(* of users here: each user is taken to have a group of their own.         *)
(***************************************************************************)
EXTENDS Integers, Sequences

CONSTANTS
    Families,     \* {"group", "passwd"}, or one of them
    Enumerators,  \* the families that the process also enumerates
    Writers,      \* processes that run create_db, update_db, purge_user_db
    Arrays,       \* sequences of users; <<>> is the new or purged database
    Bare,         \* the struct that FileDB::create writes, without an array
    Modulus,      \* of the counter; Modulus - 1 is UINT_MAX
    MaxLen,       \* the longest array
    MaxSessions,  \* bound on the sessions of writers
    MaxKills,     \* bound on the deaths of writers
    Absent, Empty, None

ASSUME NssAssumptions ==
    /\ Families \subseteq {"group", "passwd"}
    /\ Enumerators \subseteq Families
    /\ Families \cap Writers = {}
    /\ <<>> \in Arrays
    /\ \A doc \in Arrays : doc \in Seq(STRING) /\ Len(doc) <= MaxLen
    /\ Modulus \in Nat /\ MaxLen \in Nat /\ MaxSessions \in Nat /\ MaxKills \in Nat
    /\ Modulus > MaxSessions + 1 \* the counter does not come round
    /\ Arrays \cap {Absent, Empty, None, Bare} = {}
    /\ Absent # Empty /\ Absent # None /\ Empty # None
    /\ Bare \notin {Absent, Empty, None} /\ None # "user"

VARIABLES
    file, stream, lost,                      \* see FileDB
    shm, counter, pushing, loaded, pushes,   \* see SharedCounter
    writer,     \* writer[w]: the session of writer w
    sessions, kills,
    mapped,     \* Observer::counter_ptr is set
    current,    \* Observer::current
    list,       \* list["group"] and list["passwd"]: globals groups and users
    index,      \* index["group"] and index["passwd"]: globals index and pindex
    call,       \* call[f]: the call of family f
    enumerating,\* enumerating[f]: f's last setent succeeded
    alive,      \* the process has not crashed
    replaced,   \* history, replaced[f]: f's list was written since f's setent
    excuse      \* history: why the lists may be old, see StalenessIsExplained

Files == {"user"}
Lists == {"group", "passwd"}
Docs == Arrays \cup {Bare}
Procs == Families \cup Writers

DB == INSTANCE FileDB
Obs == INSTANCE SharedCounter

dbvars == <<file, stream, lost>>
shmvars == <<shm, counter, pushing, loaded, pushes>>
writervars == <<writer, sessions, kills>>
observervars == <<mapped, current>>
listvars == <<list, index, enumerating, replaced>>
vars == <<dbvars, shmvars, writervars, observervars, listvars, call, alive, excuse>>

UINT_MAX == Modulus - 1

-----------------------------------------------------------------------------
(***************************************************************************)
(* Writers: Gate::create_db, Gate::update_db and Gate::purge_user_db, as   *)
(* in module Gate.  A job is a scope, the push inside the scope of         *)
(* update_db, or Observer::create.                                         *)
(***************************************************************************)
\* The scope throws: FileDB::read found no struct, or the struct has no array
\* ("Bad user database").
Threw(p) == stream[p].got \in {Empty, Bare}

\* Mutant: update_db does not push.
JobAfterWriteNoPush(job) == IF job = "update" THEN "written" ELSE job

\* update_db pushes inside its scope, the others do not push at all.
JobAfterWrite(job) == IF job = "update" THEN "push" ELSE job

\* create_db writes its file in two scopes, then comes Observer::create.
JobAfterClose(job) ==
    CASE job = "create" -> "init"
      [] job = "init"   -> "observer"
      [] OTHER          -> "idle"

BeginWrite(w, job) ==
    /\ writer[w] = "idle"
    /\ sessions < MaxSessions
    /\ sessions' = sessions + 1
    /\ DB!open(w, "user", "r+")
    /\ writer' = [writer EXCEPT ![w] = job]
    /\ UNCHANGED <<shmvars, kills, observervars, listvars, call, alive, excuse>>

\* create_db has seen that there is no user database ...
BeginCreate(w) ==
    /\ writer[w] = "idle"
    /\ sessions < MaxSessions
    /\ sessions' = sessions + 1
    /\ ~DB!exists("user")
    /\ writer' = [writer EXCEPT ![w] = "create"]
    /\ UNCHANGED <<dbvars, shmvars, kills, observervars, listvars, call, alive,
                   excuse>>

\* ... and makes one, whatever others have done since.
CreateFile(w) ==
    /\ writer[w] = "create"
    /\ DB!create(w, "user")
    /\ UNCHANGED <<shmvars, writervars, observervars, listvars, call, alive, excuse>>

\* The second scope of create_db, and an update by the process that created.
OpenNext(w) ==
    /\ writer[w] \in {"init", "update"}
    /\ DB!open(w, "user", "r+")
    /\ UNCHANGED <<shmvars, writervars, observervars, listvars, call, alive, excuse>>

LockWrite(w) ==
    /\ DB!lock_write(w)
    /\ UNCHANGED <<shmvars, writervars, observervars, listvars, call, alive, excuse>>

ReadOld(w) ==
    /\ writer[w] = "update"
    /\ DB!read(w)
    /\ UNCHANGED <<shmvars, writervars, observervars, listvars, call, alive, excuse>>

\* update_db appends a user, the others write a document without any.
WriteNew(w) ==
    /\ \/ /\ writer[w] = "update" /\ stream[w].got # None /\ ~Threw(w)
          /\ \E doc \in Arrays \ {<<>>} : DB!write(w, doc)
       \/ writer[w] = "create" /\ DB!write(w, Bare)
       \/ writer[w] \in {"init", "purge"} /\ DB!write(w, <<>>)
    /\ writer' = [writer EXCEPT ![w] = JobAfterWrite(@)]
    /\ excuse' = excuse \cup
          (CASE writer[w] = "purge"             -> {"purged"}
             [] writer[w] \in {"create", "init"} -> {"created"}
             [] OTHER                            -> {})
    /\ UNCHANGED <<shmvars, sessions, kills, observervars, listvars, call, alive>>

PushCounter(w) ==
    /\ writer[w] = "push"
    /\ \/ Obs!shm_open(w) /\ UNCHANGED writer
       \/ Obs!shm_size(w) /\ UNCHANGED writer
       \/ Obs!push_load(w) /\ UNCHANGED writer
       \/ Obs!push_store(w) /\ writer' = [writer EXCEPT ![w] = "written"]
    /\ UNCHANGED <<dbvars, sessions, kills, observervars, listvars, call, alive, excuse>>

\* Observer::create.  A login goes on, and may come to store a user.
ObserverCreate(w) ==
    /\ writer[w] = "observer"
    /\ \/ Obs!shm_open(w) /\ UNCHANGED writer
       \/ Obs!shm_size(w) /\ UNCHANGED writer
       \/ /\ Obs!create_done(w)
          /\ \E job \in {"idle", "update"} : writer' = [writer EXCEPT ![w] = job]
    /\ UNCHANGED <<dbvars, sessions, kills, observervars, listvars, call, alive, excuse>>

UnlockWrite(w) ==
    /\ \/ Threw(w)
       \/ writer[w] # "push" /\ stream[w].out # None
    /\ DB!unlock(w)
    /\ UNCHANGED <<shmvars, writervars, observervars, listvars, call, alive, excuse>>

\* A document that reaches the file while a later one waits in its buffer.
LateFlush(w) ==
    /\ stream[w].out # None
    /\ \E v \in Writers \ {w} : stream[v].out # None

CloseWrite(w) ==
    /\ DB!close(w)
    /\ writer' = [writer EXCEPT ![w] = JobAfterClose(@)]
    /\ excuse' = excuse \cup IF LateFlush(w) THEN {"late_flush"} ELSE {}
    /\ UNCHANGED <<shmvars, sessions, kills, observervars, listvars, call, alive>>

KillWriter(w) ==
    /\ kills < MaxKills
    /\ writer[w] # "idle"
    /\ DB!kill(w) \/ (stream[w].at = "closed" /\ UNCHANGED dbvars)
    /\ Obs!shm_kill(w)
    /\ kills' = kills + 1
    /\ writer' = [writer EXCEPT ![w] = "idle"]
    /\ UNCHANGED <<sessions, observervars, listvars, call, alive, excuse>>

-----------------------------------------------------------------------------
(***************************************************************************)
(* Calls.  at is the place in the call: in changed() before and after its  *)
(* first look at the counter, in the scope that loads a list, between it   *)
(* and clear(), between clear() and the last push_back, or at the end.     *)
(***************************************************************************)
Places == {"idle", "changed", "counter", "load", "clear", "fill", "failed",
           "updated"}

\* of is the list that a call loads, clears or fills.
NoCall == [op |-> "none", at |-> "idle", of |-> "group", got |-> None]

At(f, at, l) == call[f].at = at /\ call[f].of = l
GoTo(f, at) == call' = [call EXCEPT ![f].at = at]

Loading(f) == call[f].at \notin {"idle", "changed", "failed", "updated"}

\* setgrent and setpwent
setent(f) ==
    /\ call[f].at = "idle"
    /\ call' = [call EXCEPT ![f] = [NoCall EXCEPT !.op = "setent", !.at = "changed"]]
    /\ index' = [index EXCEPT ![f] = -1]
    /\ enumerating' = [enumerating EXCEPT ![f] = FALSE]
    /\ UNCHANGED <<dbvars, shmvars, writervars, observervars, list, replaced,
                   alive, excuse>>

\* getgrgid_r, getgrnam_r, getpwuid_r, getpwnam_r
lookup(f) ==
    /\ call[f].at = "idle"
    /\ call' = [call EXCEPT ![f] = [NoCall EXCEPT !.op = "lookup", !.at = "changed"]]
    /\ UNCHANGED <<dbvars, shmvars, writervars, observervars, listvars, alive, excuse>>

\* Mutant: no test for the end of the list.
getent_endless(f) ==
    /\ call[f].at = "idle"
    /\ enumerating[f] /\ index[f] <= MaxLen
    /\ index' = [index EXCEPT ![f] = @ + 1]
    /\ UNCHANGED <<dbvars, shmvars, writervars, observervars, list, enumerating,
                   replaced, call, alive, excuse>>

\* getgrent_r and getpwent_r.  A buffer that is too small leaves index alone,
\* and so does the end of the list.  Behind the end, the vector is read out of
\* its bounds: the process crashes, or something is returned.
getent(f) ==
    /\ call[f].at = "idle"
    /\ enumerating[f] /\ index[f] # Len(list[f])
    /\ index[f] < 2 * MaxLen + 1
    /\ index' = [index EXCEPT ![f] = @ + 1]
    /\ \/ UNCHANGED alive
       \/ index[f] > Len(list[f]) /\ alive' = FALSE
    /\ UNCHANGED <<dbvars, shmvars, writervars, observervars, list, enumerating,
                   replaced, call, excuse>>

-----------------------------------------------------------------------------
(***************************************************************************)
(* update_db                                                               *)
(***************************************************************************)
\* A load begins: what made the lists old so far does not count any more,
\* unless another call is in the middle of a load.
BeginLoad(f) ==
    /\ GoTo(f, "load")
    /\ excuse' = (excuse \cap {"late_flush"})
         \cup IF \E g \in Families \ {f} : Loading(g) THEN {"overlap"} ELSE {}

\* exists_db, then Observer::changed up to its comparison.
changed(f) ==
    LET ptr == mapped \/ shm # "absent" IN
    /\ call[f].at = "changed"
    /\ \/ /\ ~DB!exists("user")
          /\ GoTo(f, "failed")
          /\ UNCHANGED <<observervars, alive, excuse>>
       \/ /\ DB!exists("user") /\ ~ptr /\ current = UINT_MAX
          /\ current' = 0
          /\ BeginLoad(f)
          /\ UNCHANGED <<mapped, alive>>
       \/ /\ DB!exists("user") /\ ~ptr /\ current # UINT_MAX
          /\ GoTo(f, "updated")
          /\ UNCHANGED <<observervars, alive, excuse>>
       \/ /\ DB!exists("user") /\ ptr /\ shm = "sized"
          /\ mapped' = TRUE
          /\ GoTo(f, IF counter # current THEN "counter" ELSE "updated")
          /\ UNCHANGED <<current, alive, excuse>>
       \/ /\ DB!exists("user") /\ ptr /\ shm = "unsized"   \* SIGBUS
          /\ mapped' = TRUE
          /\ alive' = FALSE
          /\ UNCHANGED <<current, call, excuse>>
    /\ UNCHANGED <<dbvars, shmvars, writervars, listvars>>

\* The counter is read a second time.
take_counter(f) ==
    /\ call[f].at = "counter"
    /\ current' = counter
    /\ BeginLoad(f)
    /\ UNCHANGED <<dbvars, shmvars, writervars, mapped, listvars, alive>>

\* get_groups and get_users: the scope, up to its unlock.
LoadScope(f) ==
    /\ \/ call[f].at = "load" /\ DB!open(f, "user", "r")
       \/ DB!lock_read(f)
       \/ DB!read(f)
       \/ stream[f].got # None /\ DB!unlock(f)
    /\ UNCHANGED <<shmvars, writervars, observervars, listvars, call, alive, excuse>>

\* Mutant: a load that fails is tried again at once.
LoadDoneRetry(f) ==
    /\ DB!close(f)
    /\ call' = [call EXCEPT
          ![f].at  = IF Threw(f) THEN "load" ELSE "clear",
          ![f].got = stream[f].got]
    /\ UNCHANGED <<shmvars, writervars, observervars, listvars, alive, excuse>>

\* The scope is closed.  What it threw is caught by update_db.
LoadDone(f) ==
    /\ DB!close(f)
    /\ call' = [call EXCEPT
          ![f].at  = IF Threw(f) THEN "failed" ELSE "clear",
          ![f].got = stream[f].got]
    /\ excuse' = excuse \cup IF Threw(f) THEN {"failed"} ELSE {}
    /\ UNCHANGED <<shmvars, writervars, observervars, listvars, alive>>

\* Mutant: the list is not cleared.
ClearNothing(f) ==
    /\ call[f].at = "clear"
    /\ GoTo(f, "fill")
    /\ UNCHANGED <<dbvars, shmvars, writervars, observervars, listvars, alive,
                   excuse>>

\* groups.clear(), users.clear()
ClearList(f) ==
    /\ call[f].at = "clear"
    /\ list' = [list EXCEPT ![call[f].of] = <<>>]
    /\ replaced' = [replaced EXCEPT ![call[f].of] = TRUE]
    /\ GoTo(f, "fill")
    /\ UNCHANGED <<dbvars, shmvars, writervars, observervars, index,
                   enumerating, alive, excuse>>

\* The loop of push_back; two calls that fill one list both append to it.
FillList(f) ==
    /\ call[f].at = "fill"
    /\ list' = [list EXCEPT ![call[f].of] = @ \o call[f].got]
    /\ replaced' = [replaced EXCEPT ![call[f].of] = TRUE]
    /\ call' = [call EXCEPT ![f].of = "passwd", ![f].got = None,
                            ![f].at = IF call[f].of = "group" THEN "load"
                                      ELSE "updated"]
    /\ UNCHANGED <<dbvars, shmvars, writervars, observervars, index,
                   enumerating, alive, excuse>>

\* The end of setent and of the lookups, which then only search their list.
Return(f) ==
    LET ok == call[f].op = "setent" /\ call[f].at = "updated" IN
    /\ call[f].at \in {"failed", "updated"}
    /\ index' = IF ok THEN [index EXCEPT ![f] = 0] ELSE index
    /\ enumerating' = IF ok THEN [enumerating EXCEPT ![f] = TRUE] ELSE enumerating
    /\ replaced' = IF ok THEN [replaced EXCEPT ![f] = FALSE] ELSE replaced
    /\ call' = [call EXCEPT ![f] = NoCall]
    /\ UNCHANGED <<dbvars, shmvars, writervars, observervars, list, alive, excuse>>

\* Two threads on one std::vector, one of them in clear or push_back: a data
\* race, which may end the process.
Race(f) ==
    /\ \E g \in Families \ {f}, l \in Lists :
          /\ At(g, "clear", l) \/ At(g, "fill", l)
          /\ \/ At(f, "clear", l) \/ At(f, "fill", l)
             \/ f = l /\ call[f].op = "lookup" /\ call[f].at = "updated"
             \/ f = l /\ enumerating[f] /\ call[f].at = "idle"
    /\ alive' = FALSE
    /\ UNCHANGED <<dbvars, shmvars, writervars, observervars, listvars, call, excuse>>

-----------------------------------------------------------------------------
\* After a boot: the files have been kept, shared memory has not.
Init ==
    /\ file \in [Files -> Docs \cup {Absent}]
    /\ stream = [p \in Procs |-> DB!NoStream]
    /\ lost = [f \in Files |-> FALSE]
    /\ Obs!ShmInit
    /\ writer = [w \in Writers |-> "idle"]
    /\ sessions = 0 /\ kills = 0
    /\ mapped = FALSE
    /\ current = UINT_MAX
    /\ list = [l \in Lists |-> <<>>]
    /\ index = [l \in Lists |-> -1]
    /\ call = [f \in Families |-> NoCall]
    /\ enumerating = [l \in Lists |-> FALSE]
    /\ alive = TRUE
    /\ replaced = [l \in Lists |-> FALSE]
    /\ excuse = {}

WriterStep(w) ==
    \/ CreateFile(w) \/ OpenNext(w) \/ LockWrite(w) \/ ReadOld(w) \/ WriteNew(w)
    \/ PushCounter(w) \/ ObserverCreate(w) \/ UnlockWrite(w) \/ CloseWrite(w)

CallStep(f) ==
    /\ alive
    /\ \/ changed(f) \/ take_counter(f) \/ LoadScope(f) \/ LoadDone(f)
       \/ ClearList(f) \/ FillList(f) \/ Return(f)

Next ==
    \/ \E w \in Writers :
          \/ BeginWrite(w, "update") \/ BeginWrite(w, "purge") \/ BeginCreate(w)
          \/ WriterStep(w)
          \/ KillWriter(w)
    \/ \E f \in Families :
          \/ alive /\ f \in Enumerators /\ (setent(f) \/ getent(f))
          \/ alive /\ (lookup(f) \/ Race(f))
          \/ CallStep(f)
    \/ ~alive /\ UNCHANGED vars

Spec == Init /\ [][Next]_vars

\* A call that has begun goes on, and so does a writer.
FairSpec ==
    /\ Spec
    /\ \A w \in Writers : WF_vars(WriterStep(w))
    /\ \A f \in Families : WF_vars(CallStep(f))

-----------------------------------------------------------------------------
Jobs == {"idle", "create", "init", "observer", "update", "push", "written", "purge"}

Excuses == {"purged", "created", "failed", "overlap", "late_flush"}

\* Type invariant.  Two overlapping loads can put a list together twice.
NssTypeOK ==
    /\ DB!DBTypeOK
    /\ Obs!ShmTypeOK
    /\ writer \in [Writers -> Jobs]
    /\ sessions \in 0 .. MaxSessions
    /\ kills \in 0 .. MaxKills
    /\ mapped \in BOOLEAN
    /\ current \in 0 .. UINT_MAX
    /\ \A l \in Lists : Len(list[l]) <= 2 * MaxLen
    /\ index \in [Lists -> -1 .. 2 * MaxLen + 1]
    /\ \A f \in Families :
          /\ call[f].op \in {"none", "setent", "lookup"}
          /\ call[f].at \in Places
          /\ call[f].of \in Lists
          /\ call[f].got \in Docs \cup {None, Empty}
    /\ enumerating \in [Lists -> BOOLEAN]
    /\ replaced \in [Lists -> BOOLEAN]
    /\ alive \in BOOLEAN
    /\ excuse \subseteq Excuses

(***************************************************************************)
(* When nothing is going on and the observer has seen the last push, the   *)
(* two lists are the user database.  What breaks this is one of five       *)
(* things since the last load began: a purge, which does not push; a       *)
(* create_db that ran although another process had made the database, and  *)
(* does not push either; a load that failed, which is not tried again; two *)
(* calls, one per mutex, that loaded at the same time; or, at any time, a  *)
(* writer whose buffer was flushed after a later writer had written.       *)
(***************************************************************************)
Quiet ==
    /\ \A w \in Writers : writer[w] = "idle"
    /\ \A f \in Families : call[f].at = "idle"
    /\ current = counter
    /\ file["user"] \in Arrays

StalenessIsExplained ==
    Quiet /\ excuse = {} => \A l \in Lists : list[l] = file["user"]

(***************************************************************************)
(* An enumeration runs off the end of its list only if the list has been   *)
(* replaced since setent, by a lookup of the same thread or by a call of   *)
(* the other family: index is compared with == to the size of the list.    *)
(***************************************************************************)
EnumerationStaysInList ==
    \A f \in Families :
        enumerating[f] /\ index[f] > Len(list[f]) => replaced[f]

(***************************************************************************)
(* Every call returns or the process has crashed: the locks of writers and *)
(* a database that cannot be read do not hold an NSS client for ever.      *)
(***************************************************************************)
NssCallReturns ==
    \A f \in Families : call[f].at # "idle" ~> (call[f].at = "idle" \/ ~alive)

=============================================================================
