# A verification project for llx-gva-gate

llx-gva-gate lets people log in to a LliureX machine with the accounts of an
external identity service.  It has no daemon.  A PAM module, a command and an
NSS module, each in its own process, share two database files, a lock on each
of them and one word of shared memory.  The correctness of the system is the
correctness of what these processes do to the files between them.

## The system

| Component | State | Operations | Talks to |
|---|---|---|---|
| `FileDB`, `AutoLock` (`lib/filedb.*`) | the database files, a C stream with its buffer, a `flock` | open, create, lock, read, write, unlock, close | the kernel |
| `Observer`, pushing side (`lib/observer.cpp`) | a counter in shared memory | create, push | NSS clients, through the counter |
| `Observer`, watching side | last value seen, the mapping | open, changed | the counter |
| `Gate` (`lib/libllxgvagate.cpp`) | none of its own beyond the configuration | create_db, update_db, update_shadow_db, lookups, purges, authenticate, listings, validate | FileDB, Observer::push, Exec |
| `Exec` (`lib/exec.cpp`) | a child process | run | the helpers of libgva |
| validation (`Gate::validate`) | none | Authenticate, UserDatabase, Users, User, Groups, Group | auth_exec, update_db, listings |
| command (`bin/llxgvagate.cpp`) | none | create, chkpwd, auth, su, cache, database, dump, users, groups | Gate |
| PAM module (`pam/pam.cpp`) | the status kept on a handle between authenticate and acct_mgmt | authenticate, acct_mgmt | Gate as root, else a child `llx-gva-gate chkpwd` |
| NSS module (`nss/nss.cpp`) | lists of users and groups, two indexes, an Observer, two mutexes | set/get/end of passwd and group | Gate listings, Observer |
| HTTP client (`lib/http.*`) | none | get, post | not compiled |
| `server.py`, configuration | none | a stub for development | - |

What makes each part correct:

* **FileDB** - a lock excludes; a reader under a lock finds a document; what is
  written is flushed; only a death can leave a file without a document.
* **Observer** - no push is lost; a client that compares counters sees every
  change.
* **Gate** - keys are unique in both databases; a login from the cache is backed
  by a recent acceptance by a remote method; `create_db` may race with itself;
  every session ends; refusals are reported.
* **NSS** - a list is of one version of the database and at most one change
  old; an enumeration stays inside its list.
* **Validation and listings** - what gets into the database was checked in
  full, so that no listing throws; a listing loses no membership and makes none
  up; an entry fits into the buffer of an NSS caller exactly when it is large
  enough.
* **PAM, `auth`, `su`** - success only for `Allowed`, or for `ExpiredPassword`
  that `acct_mgmt` then refuses; every end of the child but an exit with a
  status is a refusal; whoever gets in has had the password accepted within the
  expiration time; who has had it accepted gets in.

What is hard: processes interleave at every system call; the stream buffer
moves reads before the lock and writes after the unlock; any process may die
at any step; passwords expire by the wall clock, kept in 32 bits; counters wrap;
an application calls the functions of a PAM handle in any order; records come
from programs that nobody controls.  The list of hazards with their lines is in
`PROJECT.json`.

## The modules

### `FileDB` - files, streams and locks

`file[f]` is a whole document, `Empty` (length zero) or `Absent`.  `stream[p]`
is the one FileDB a process has open: file, mode, position in its life
(`closed`, `opened`, `shared` or `exclusive`, `unlocked`), and the stream
buffer.  The buffer is the reason for the module:

* `FileDB::open` reads the first four bytes before any lock; stdio fills its
  whole buffer, and seeking inside it does not discard it.  `pre` is what the
  buffer then holds, and `read` delivers it after the lock is granted.  A file
  that was empty at open leaves the buffer empty and is read afresh.
* `FileDB::write` truncates at once; what it writes stays in the buffer (`out`)
  until `close`, and `~AutoLock` unlocks before it closes.

`open` stands for `fopen` and the first `fread`; as files are never removed,
the moment of the `fread` is the only one that matters.  `create` is
`FileDB::create` up to its lock.  `kill` is the death of a process; the kernel
closes its files and what was buffered is gone.  `lost` is a history variable.
Bounds: documents fit in one buffer (4096 bytes with glibc; a larger database
is read and written in part outside these windows), a document is opaque.
External assumptions: `flock` excludes per open file; the loader of documents
rejects an empty file and ignores bytes behind the document.

### `SharedCounter` - the pushing side of the observer

`shm_open`, `ftruncate`, load and store are separate steps; the counter wraps at
`Modulus`, which stands for 2^32.  Failing `shm_open` and `mmap` are left out.

### `Gate` - sessions of the library's users

`Gate` instantiates both modules above (`DB`, `Obs`).  `task[p]` is the session
a process runs: its kind, its current job, the name and password, the index
into `auth_methods` and the status so far.  A job that touches a database is one
AutoLock scope, taken by the steps `OpenScope`, `LockScope`, `ReadScope`,
`WriteScope`, `Push`, `UnlockScope` and `CloseScope`; `NextJob` is the order in
which the code calls the scopes.  `Authenticate` is one turn of the loop over
`auth_methods`; `AuthExec` is `Exec::run` and the test of its response.

| session kind | code |
|---|---|
| `auth` | `pam_sm_authenticate` as root; commands `auth` and `su` up to the authentication |
| `create` | command `create` |
| `chkpwd` | command `chkpwd`, which PAM calls when it is not root |
| `purge`, `purge_all`, `cache_purge` | commands `database purge`, `database purge-all`, `cache purge` |

Abstractions: arrays are sets, as their order shows only in listings; a user
struct is its two keys; a stored key is the password it was made from (two
passwords never have one hash, and `crypt` accepts the salt); the helper of a
remote method answers anything it may answer.  `std::time` is `clock`; it moves
forward only.  A failing `push` (no shared memory) is left out.  A file's
permissions never stop a process, as all these commands run as root; `chkpwd`
run without the right to read the shadow database is left out.  `Init` is a boot:
no databases, or a user database out of `Registered` that an earlier boot has left,
with an empty cache.  (A cache that is not empty comes only from sessions, so
that `vouched` knows where each entry is from.)

`vouched` is a history variable: each password put into the cache, the name it
was accepted for, and when.

### `UserRegistry` and `GateRegistry` - what the databases promise

`UserRegistry` is the abstract specification: a database is one value; a process
takes a copy of it, announces a change of the copy and publishes the changed
copy later; from the announcement to the publication nobody can read the
database.  It knows five changes (a user, a password, a purge, the bare struct of
a creation, the array after it) and no streams, locks, jobs or methods.  It does
not promise that a copy is still the value when its change is published:
`gate_purge` shows that the program does not keep such a promise.

`GateRegistry` maps `Gate` to it: `value` is `file`, a process's copy is what it has
in memory or in its stream buffer (`CopyOf`), and what it has written and not yet
flushed is due (`DueOf`).  `Erase` is the one step that looks odd: a creator
truncates once at `fopen` and a second time when it has the lock, and so erases
what somebody published in between.

### `Expiry` and `Login` - from a typed password to an open door

`Expiry` is the arithmetic: minutes clamped by `load_config`, a sum in an
`int32_t`, a comparison with a wider clock.  `Half` stands for 2^31.

`Login` is `pam.cpp` and the commands `auth` and `su`.  `front` is the front end:
`pam_root` and the commands run `Gate::authenticate` (`chain`: `LocalTurn`,
`RemoteTurn`, `ChainEnds`), `pam_user` forks `chkpwd` (`Fork`, `ForkFails`, `ExecFails`,
`ChildEnds`, `Waited`, `WaitFails`).  `Switch` is the end of `pam_sm_authenticate`,
`Report` that of the commands, `AcctMgmt` is `pam_sm_acct_mgmt`.  A PAM handle keeps
`user` and `data` between calls; `Start` opens a new one, and the application makes
its calls in any order.  `granted` is a history variable: who got in and on which
call.  `Gate` has the interleaving of sessions on the files; here a scope is one
step, and what interleaves is the clock, purges, logins elsewhere and the ends
of processes.

What nobody looks at in the code is a choice of the model: `fork` returns -1,
and `waitpid(-1)` waits for any child of the application; `execl` fails, and the
child returns into the application as a second copy of it; `pam_set_data` or
`pam_set_item` fails.  These set `faulty`, the excuse that the properties name.
After a local success the user struct has no `user`, so that `["user"]["login"]`
throws: as root, `pam_sm_authenticate` then returns PAM_AUTH_ERR, and `su` aborts
(`login_cached`).

### `Records` and `NssBuffer` - what the records are

`Gate` takes the user database as a set of keys.  `Records` takes it as the array
it is, with the fields that `validate` looks at, any of which may be of a wrong
type (`Bad`); one field stands for the four texts.  The loops of `update_db`
(`KeepTurn`, `Store`) and `get_groups` (`MainGroup`, `OtherGroup`, `NextUser`) are
walked turn by turn; `ListUsers` is `get_users`, of which only matters whether it
throws.  Each of these operations holds the lock of the database, so that they
take turns.  Faithful to the code, `ValidUsers` looks at the first user only and
`find_group` overlooks its gid argument and every row with gid zero.  The shape
of the database around the array (`is_struct`, `users` of a wrong type) is left to
`FileDB` and `Gate`.

`NssBuffer` packs the listed entries into the buffer of a caller of NSS, as
`push_string`, `push_group` and `push_passwd` do; a string is its length.

### `Nss` - one client and its writers

`Nss` models a process that uses the NSS module, over `FileDB` and
`SharedCounter` again.  Writers overlap and die; they run `update_db`, which pushes
inside its scope, `purge_user_db`, which does not push, and `create_db`.  The last
has looked for the file (`BeginCreate`) some time before it truncates it
(`CreateFile`); its first scope writes the bare struct, its second one the empty
array (`OpenNext`), and `ObserverCreate` follows.  Like a failed read, the bare
struct ends a load or an update (`Threw`).  `Init` is a boot: any database may be
there, and the shared memory is not.  The client has
`list["group"]` and `list["passwd"]` (the globals `groups` and `users`), `index`
(the two positions of enumerations), and the observer's `mapped` and `current`.
There is one call per family at a time, as the group functions lock `mtx` and the
passwd functions `pmtx`; both use the same observer and lists.  `call[f].at` is
the place in `update_db`: before the counter is looked at (`changed`), between
the two reads of the counter (`counter`), in the scope that loads a list
(`load`), before `clear()`, before the last `push_back` (`fill`), at the end.

Abstractions: a document is the sequence of its users, or the bare struct; the list of groups is as
long as that of users, as if each user had one group.  The loop of `push_back`
is one step.  Two threads in one vector are a data race (`Race`), which may end
the process; a vector torn inside one `push_back` that does not end it is left
out.  `getent` is called only after a `setent` that succeeded, as glibc does.
Filling the caller's buffer changes no state of the module, see `NssBuffer`.

### The MC modules

`MCFileDB`, `MCGate`, `MCNss`, `MCLogin` and `MCRecords` give the constants values.
`MCGate` has three user structs so that two collide by uid and two by login, a
name with and without a domain, and one or two methods.  `MCRecords` has two
users with eight lists of groups each, a third user, groups that share a name or
a gid or have gid zero, and a record with each field of a wrong type.

### The proof modules

`FileDB_proofs`, `Gate_proofs`, `Registry_proofs`, `Login_proofs`, `Records_proofs`,
`NssBuffer_proofs`, `Nss_proofs` and `Staleness_proofs`, see below.

## The runs

| run | question | bounds |
|---|---|---|
| `filedb` | who can leave a file empty, when can a locked read fail, is everything flushed | 3 processes, 1 file, 1 document; any number of scopes |
| `filedb_torn` | violation: a locked read finds a document | 2 processes, 2 documents |
| `gate_users` | unique keys, races of `create_db`, pushes, with a death; the registry is implemented; every session ends | 2 processes, 2 sessions of all six kinds, 3 users of which any may be in the database at boot, 1 death |
| `gate_cache` | unique names, local logins are backed by remote ones | 2 processes, 3 sessions, 2 names, 2 passwords, clock 0..1, lifetime 1 |
| `nss` | two families in one process: when may its lists be old, when does an enumeration leave its list | 2 families of which one enumerates, 1 writer, arrays of at most one user, also at boot, 2 sessions, 1 death |
| `nss_thread` | one single-threaded client, overlapping writers: old lists; every call returns | 1 family without enumerations, 2 writers, arrays of at most one user, also at boot, 2 sessions, 1 death |
| `login` | who gets in through PAM, `auth` and `su` | 4 front ends, 4 handles and calls, local then remote method, 2 names, 2 passwords, logins elsewhere up to 2 acceptances in all, clock 0..2, int32 of 2 bits (`Half` = 2), minute 1, settings -1 and 9 |
| `records` | what gets into the database, what is listed, how it fills buffers | 3 logins and uids, 4 groups, 72 users of which 7 have a wrong field; buffers of 0..20 bytes |
| `gate_purge` | violation: purged passwords stay away | 2 processes, 3 sessions, 2 names |
| `gate_crash` | violation: missing databases do no harm to an administrator's command | as `gate_cache` |
| `gate_refused` | violation: a refusal is reported as one | as `gate_cache` |
| `login_cached` | violation: an accepted password is a success of the front end | as `login`, with `pam_root` and `su`, 1 acceptance |

**Why these bounds are enough.**  Files do not influence one another, so one
is enough for `filedb`; its three processes allow a reader, a writer that has
unlocked and a creator at once.  The documents are opaque and the properties
of this run ask only whether there is one.  In `Gate`, two processes give every
pairwise overlap of scopes, and three sessions give an overlap after or
before a complete session, which is what stale reads and expired passwords
need.  `gate_users` has two, but starts from every user database that complete
sessions may have left, which is what an earlier session could bring about there;
its safety properties are moreover theorems for any number.  The counter wraps at
4, more than the pushes of the sessions, so a lost push cannot be hidden by the
wrap.  Every bound
(`MaxTime`, `MaxSessions`, `MaxKills`) is a constant of the module.  In `Nss`, the
second of two sessions meets lists loaded after the first or at boot, two creators
race over a database that one of them has made, and the second family of `nss`
meets both places where the first is in the middle of a load.
`Modulus` is larger than the number of pushes there: that 2^32 pushes, or the
initial value `UINT_MAX`, may bring the counter to a value already seen is a
limit of the protocol that the model leaves out (`NssAssumptions`).  In `Login`,
four calls are a handle, an authentication, a second one that fails or succeeds
otherwise, and an acct_mgmt: enough for a status that an earlier call left.  The
clock passes 2^31 (`Half`) at its last value, so that an entry is made and judged
on either side of it; two settings reach both ends of `Clamp`.  The configuration
does not change during a run: a shorter expiration would leave longer entries.
With `MaxVouched` = 2, a login elsewhere makes an entry, and a second one can
renew it later, or replace its password, between `authenticate` and its judgement.  In `Records`, three keys make databases of three users, so that one
update can drop two, and the two groups of a user and the two users of a group
name meet in every order.  A pointer of two bytes and strings up to two make
entries of 5 to 19 bytes, all of which lie inside the range of buffers.  Symmetry
(processes and passwords in `gate_cache`, passwords in `login`) is used for safety
only.

**Deadlock** is checked in every run.  `Finished` lets the bounded runs of
`Gate` end, and a crashed client of `Nss` stays as it is; any other state without
a successor would be a deadlock.

**Fairness.**  `filedb` assumes that a process that has written goes on to
unlock and close, or dies: these calls do not wait.  `gate_users` assumes weak
fairness of the steps of each process: a live process is scheduled, and a
remote helper answers or ends (`Exec::run` reads until the end of its output,
without a time limit).  Nothing is assumed about lock order or about `kill`
and new sessions.  Weak fairness is enough for the locks because the number
of sessions is bounded: starvation by an endless stream of readers, which
`flock` does not exclude, is outside this run.  `nss_thread` assumes the same of
each writer and of a call that has begun; beginning a call is never assumed.

**What `StalenessIsExplained` says.**  When nothing is going on and the client
has seen the last push, its lists are the database, with five exceptions, kept
in the history variable `excuse`:

* `purged` - a purge since the last load, which does not push;
* `created` - a `create_db` since the last load, which does not push either.  P1 sees
  no file; P2 creates the database, stores alice and pushes; the client loads
  alice; P1 truncates the file and writes the empty array;
* `failed` - a load that failed, after which the counter counts as seen;
* `overlap` - two loads at once, one under each mutex;
* `late_flush` - a document flushed after a later writer had written.

Each of the five is needed: without it TLC finds stale lists.  What the run
excludes is every other way to be stale, in particular a push that is missed
because it falls between the two reads of the counter or before the segment is
mapped.

**What the properties of `login` say.**  `GrantIsBacked`: whoever gets in, by
whatever calls on a handle, has typed a password that a remote method accepted
for this name, or for it without its domain, within the expiration time, also
when the clock has outgrown the `int32_t`; and as root PAM and `su` let in the
login that the remote method returned with this acceptance.  It excuses (`faulty`)
a failing `fork`, `execl`, `pam_set_data` or `pam_set_item`, at which nothing in the
code looks.  `AcceptedIsSuccess` is the other direction, and does not hold.

**What the properties of `records` say.**  `StoredAreSound`: every stored user has
passed the whole validation, and no two share a login or a uid.
`ListingNeverThrows`: that only the first user of a database is validated does no
harm, as everything stored was validated in full.  `UpdateIsUpsert`: the loop over the array is the operation on sets that
`Gate` and `UserRegistry` use.  `MembershipsKept`: as memberships go by name, a
listing keeps them whatever gids groups have.  `ListingIsExact` needs
`OneGidPerName`: with two gids for one name, rows are merged, and with gid zero
they are repeated.  `EntriesArePacked`: ERANGE is returned exactly when the buffer
is too small, and nothing is written outside it.

## What the violations show

* **`filedb_torn`** - the lock does not cover the flush, nor `FileDB::create`'s
  truncation.  A reader with a lock can find an empty file and report
  `FileDB read: Expected struct`.  `FailedReadIsInUnlockedWindow` says that these
  two windows, and a death, are the only ones.
* **`gate_purge`** - a scope opened before a purge reads the old document from its
  buffer, or is flushed after the purge; the purged passwords are back.
* **`gate_crash`** - `cache purge` and `database purge-all` look only for the user
  database.  When the shadow database is missing, as between the halves of
  `create_db` or after a death there, `fileno(nullptr)` ends them.
* **`gate_refused`** - `validate` wants a user in every response, and `Exec::run`
  adds one only for `Allowed`: `Unauthorized` never reaches the caller.
* **`login_cached`** - when the local method has accepted a cached password,
  `user_passwd` is the bare user struct of `lookup_user` and not a response with a
  field `user`, so that the code which compares logins throws: PAM as root answers
  PAM_AUTH_ERR to `Gate::Allowed`, and `su` aborts.  A login from the cache works
  through `auth` and `chkpwd` only.

## What is proved

`FileDB_proofs` proves, for any sets of processes, files and documents, from
the assumption `DistinctContents` alone:

* `TypeCorrect` - `DBTypeOK` always holds;
* `MutualExclusion` - an exclusive lock is the only lock on its file;
* `EmptyIsOwed` - `EmptyFileIsOwed` always holds;
* `FailedReads` - the action property `FailedReadIsInUnlockedWindow`.

The inductive invariant `IInv` adds to the type invariant: a closed stream is
blank and an open one is on an existing file (else a read could deliver an
absent file); a process that has written has held the exclusive lock and is in
`exclusive` or `unlocked` (else a reader could owe a document); a creator does
not unlock before it writes (else its close would leave the file empty and owed
by nobody); and exclusive locks exclude.  There is one lemma per action.
`FailedReads` follows: the file is empty, so somebody owes it a document; it is
not the reader, nor another reader, and not a holder of the exclusive lock.

`Gate_proofs` proves, for any sets of processes, names, passwords and users, any
sequence of methods and any bounds, from `GateAssumptions` and `DocsAreDocs`:

* `TypeCorrect` - `TypeOK` always holds;
* `ImplementsFileDB` - `Spec` implies FileDB's `DBSpec`: sessions use the files
  only as scopes do, so the theorems above hold of the whole program;
* `SessionsExclude`, `DatabasesAreOwed`, `SessionsFailToRead` - three of them, said of
  sessions: a scope with the exclusive lock is alone on its database; a database
  without a document is owed one; a session finds none only in the two windows
  of another session, or after a death;
* `OneUserPerKey`, `OnePasswordPerName` - `UserKeysUnique`, `ShadowNamesUnique`;
* `BareDocumentIsTransient` - `BareIsTransient`;
* `NoPushIsLost` - `PushesCounted`;
* `LocalLogin` - the action property `LocalLoginWasAccepted`.

The inductive invariant `HInv` has three parts.

* `GInv`: documents go round, from a file into a buffer, from there into the
  memory of a process, into its buffer again, and back into the file, perhaps
  long after the file has changed.  So what holds of the files must hold of
  every document on its way: `Good(f, doc, vouched)` says that keys are unique
  and that every cached password is backed by an acceptance in `vouched`; it
  is required of `file`, `pre`, `got` and `out` alike.  It is stable because
  `vouched` only grows (`GoodMonotone`), and the two lemmas about `Upsert` and
  `CachePassword` say that a good document is made from a good one.  No lock
  is needed for this.
* `PushInv`: a push is inside the exclusive lock of the user database, so by
  `LocksExclude` (of `FileDB_proofs`, instantiated) at most one process is in it,
  and the value it has loaded is still the value of the counter.
* `CreateInv`: only a creator writes the bare struct, and a process that leaves
  the job that writes the array has the array in its buffer.

Initially every document is good because those in `Registered` are (`InitFiles`).

`LocalLogin` needs the uniqueness of names: the lookup tests the key of one
entry and the expiration of one, and these must be the same entry.

`Registry_proofs` proves `GateImplementsRegistry`: `Spec` of `Gate` implies
`ImplementsRegistry`.  The mapping needs one invariant beyond `HInv`, `ModeInv`: a stream is
one of `FileDB::create` exactly while its process has a job that creates, as such
a stream owes a document from its `fopen` on and any other only from its write.
With `HInv` a document read is a copy of the database the job updates, and a
write is one of the five changes.  Deaths and the ends of lookups and of failed
scopes map to `Drop`; waiting, pushing and the methods to stutters.

`Login_proofs` proves, for any names, passwords, sequence of methods, settings and
bounds, from `LoginAssumption` and `ExpiryAssumption`:

* `ExpireExact` - while the clock is more than the largest expiration below 2^31,
  an entry expires exactly after the configured minutes;
* `NeverOutlives` - whenever an entry was made and whatever wrapped, it is accepted
  only within the configured minutes, and never when the clock is past 2^31;
* `LoginTypes`, `GrantsAreBacked` - the type invariant, and `GrantIsBacked`.

The invariant `LInv` follows the evidence of a login: every cache entry is backed
by a login in `vouched` whose seconds, wrapped, it has; a status `Allowed`, from
whichever method or child, is backed by one that was in time when it was
judged; and a call that answered PAM_SUCCESS has left its own status in `data`
unless `faulty`.  The arithmetic needs only that a wrapped sum is never larger
than the sum: an overflow can shorten the life of an entry, never extend it.

`Records_proofs` proves, for any logins, uids, groups and records and for
databases of any length, from `RecordsAssumption`:

* `RecordsTypes`, `StoredSound`, `ListingsNeverThrow`, `UpdatesAreUpserts`,
  `ListingsKeepMemberships`, `ListingsAreExact` - the six properties of `records`
  that are about `Records`.

`RInv` says that each stored user passes the whole of `ValidUser`; it needs no
induction over the array, as `update_db` only drops users and adds a validated
one.  For the loops, `RInv` and `Listing` are loop invariants: the users kept so
far are those before `n` without the keys of the new one; the rows so far hold
exactly the memberships of the users before `n` and of the groups before `m` of
the user at `n`, and with one gid per name there is one row per group.

`Nss_proofs` proves, for any writers, documents and bounds, and for one or both
families, from `NssAssumptions`:

* `NssTypes`, `EnumerationsStay` - `NssTypeOK` and `EnumerationStaysInList`;
* `NssImplementsFileDB` - the theorems of `FileDB_proofs` hold of NSS clients too;
* `LoadsFailInWindow` - in particular, a load finds an empty file only between
  another process's unlock and close, or between the truncation and the lock of
  `create_db`, or after a death there.  (The other way to fail is the bare struct of
  `create_db`, which is a document.)

`NInv` adds to the types: a call that is about to fill its list has read a
document; it holds a stream only inside its scope; a list grows once per call
that has cleared it, so that two calls at once make it at most twice as long as
a document; and an index whose list was not replaced is inside it.

`Staleness_proofs` proves `StalenessExplained`, that `StalenessIsExplained` always
holds, from `NssAssumptions`.  A call looks at the counter first and at the file
some time later, and a writer pushes while what it has written is still in its
buffer, to be flushed after the unlock.  So the proof relates what a load has in
its hands to what the writers owe.  `SInv` adds to `NInv`:

* `PushersOK`: a push is made inside the exclusive lock, after the write and
  before the flush, so that two pushes never overlap;
* `CounterOK`: the counter plus the writers that may still push is at most the
  number of sessions begun, which `NssAssumptions` keeps below `Modulus`.  Only
  with it is an equal counter an unchanged one;
* `LateOK`: unless a document was flushed late, a file is empty while a writer has
  a document for it in its buffer;
* `LoadsOK`: a call that has taken the counter loads the groups first, and two
  calls load at once only with the excuse `overlap`;
* `FreshOK`: if there is no excuse and the observer has seen the counter, then what
  a call has in its stream buffer, in its memory or in a list that no call is
  about to replace is `Fresh`: the file is this very document or empty, and every
  writer with a document in its buffer has its push before it.

A step can spoil a fresh document only by emptying the file or flushing another
one.  Who empties it will push, and then the counter is no longer seen; who
flushes has pushed, so that by `Fresh` it was not there.  At rest nobody is
writing, the file is not empty, and the list is the file.  Each excuse is one
step at which this breaks: a purge and a creation do not push, a failed load takes
the counter without a document, two loads append to one list, and a late flush
replaces a document that somebody else has announced.

`NssBuffer_proofs` proves `EntriesPacked`, that `EntriesArePacked` always holds, for
strings, lists of members, pointers and buffers of any size, from
`BufferAssumption` and `RecordsAssumption`.  The invariant of the loop over the
strings (`PushFills`, `StringsFill`) is that of an in-place append: `ptr` is the
total of the sizes so far, `remain` the rest, the fields lie one behind the other,
and a string fails exactly when the total exceeds the buffer.  The table of a
group is one more field of that kind.  `push_strings` and `Total` are recursive
functions on an interval, and what they compute is shown by induction over the
index: `Induction` derives it from the least element of the set of
counterexamples, as the library's induction theorems take an operator.

**Only model-checked**: the liveness properties `WrittenIsFlushed`, `SessionEnds` and
`NssCallReturns`, which are out of the prover's reach.  Every invariant and every action property of a
passing run, and the refinement of the registry, is a theorem.

## The plan

1. `FileDB`, `SharedCounter`, `Gate`, `Nss` with their runs; `FileDB_proofs` and
   `Gate_proofs` - done.
2. `UserRegistry`, and `Gate` shown to implement it; `Login` for PAM, `auth` and `su`;
   `Expiry`; `Records` for validation and listings; `NssBuffer` - done.
3. `Registry_proofs`, `Login_proofs`, `Records_proofs`, `Nss_proofs` - done.
4. `Staleness_proofs` and `NssBuffer_proofs`, so that every safety property of the
   passing runs is a theorem - done.
5. Documents longer than one stream buffer in `FileDB`: reads in part before the
   lock, and writes in part before the unlock.

## What is not modelled

* `get_cache`, `get_user_db`, `get_shadow_db`, `get_pwnam`, and the commands `groups`,
  `users`, `cache list` and `dump`: they copy or print what they read.
* `salt`, `hash` and `extract_salt`: their meaning is that of `crypt`, which is not
  part of the repository; the models compare passwords.
* The validators of the shadow database, `guess_format` and `is_open`: nothing
  calls them.
* The user ids and the environment that `su` sets, and the shell it starts.
* The parsing of `auth_methods` and of responses: methods and records are
  constants, with values of wrong types where the code looks at types.
* The pipes of `Exec`; its result is what a helper may answer.
* Permissions, output and logging.
* `http.cpp`, which `lib/CMakeLists.txt` does not list, `server.py`, a stub for
  development, and the configuration files.

The reason for each component is in `PROJECT.json`.
