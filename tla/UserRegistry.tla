---------------------------- MODULE UserRegistry ----------------------------
(***************************************************************************)
(* What the library promises about its two databases to processes that     *)
(* overlap and die, without streams, locks, jobs and methods.              *)
(*                                                                         *)
(* A database is one value.  A process takes a copy of it, announces a     *)
(* change of its copy, and publishes the changed copy later.  From the     *)
(* announcement to the publication nobody can read the database; a process *)
(* that dies in between leaves it so.  Nothing else ever changes a         *)
(* database, and a change is one of the five that the library has.         *)
(*                                                                         *)
(* The registry does not promise that a copy is still the value when its   *)
(* change is published: see PurgeIsNotUndone in module Gate.               *)
(***************************************************************************)

CONSTANTS
    Procs, Files,
    UserRecs, Names, Passwords, Expires,   \* what the entries are made of
    Absent,    \* the database does not exist
    Empty,     \* it exists and cannot be read
    Bare,      \* it has no array yet
    None       \* no copy, nothing announced

VARIABLES
    value,     \* value[f]: the document of database f, Absent or Empty
    copy,      \* copy[p]: the database and the document p works on, or None
    due        \* due[p]: the database and the document p announced, or None

regvars == <<value, copy, due>>

Of(f, doc) == [db |-> f, doc |-> doc]

-----------------------------------------------------------------------------
(***************************************************************************)
(* The changes                                                             *)
(***************************************************************************)
\* The only entry with its login and the only one with its uid.
StoreUser(users, u) ==
    {v \in users : v.login # u.login /\ v.uid # u.uid} \cup {u}

\* The only entry with its name.
StorePassword(shadows, s) == {t \in shadows : t.name # s.name} \cup {s}

NewPasswords == [name : Names, key : Passwords, expire : Expires]

\* A change of a copy that has an array.
Changes(f, doc) ==
    IF f = "user" THEN {StoreUser(doc, u) : u \in UserRecs}
                  ELSE {StorePassword(doc, s) : s \in NewPasswords}

-----------------------------------------------------------------------------
RegInit ==
    /\ \/ value = [f \in Files |-> Absent]
       \/ \E users \in SUBSET UserRecs :
             value = [f \in Files |-> IF f = "user" THEN users ELSE {}]
    /\ copy = [p \in Procs |-> None]
    /\ due = [p \in Procs |-> None]

Take(p, f) ==
    /\ copy[p] = None /\ due[p] = None
    /\ value[f] \notin {Absent, Empty}
    /\ copy' = [copy EXCEPT ![p] = Of(f, value[f])]
    /\ UNCHANGED <<value, due>>

\* From here on nobody reads f, until it is published.
Announce(p, f, doc) ==
    /\ due[p] = None
    /\ value' = [value EXCEPT ![f] = Empty]
    /\ due' = [due EXCEPT ![p] = Of(f, doc)]
    /\ UNCHANGED copy

\* An update keeps what it does not replace of the copy it has taken.
Update(p) ==
    /\ copy[p] # None
    /\ copy[p].doc # Bare
    /\ \E doc \in Changes(copy[p].db, copy[p].doc) : Announce(p, copy[p].db, doc)

\* The array of a new database, and a purge.
Clear(p, f) == Announce(p, f, {})

\* A new database.
Create(p, f) == copy[p] = None /\ Announce(p, f, Bare)

\* A creator erases what another process published while it was waiting.
Erase(p) ==
    /\ due[p] # None
    /\ due[p].doc = Bare
    /\ value' = [value EXCEPT ![due[p].db] = Empty]
    /\ UNCHANGED <<copy, due>>

Publish(p) ==
    /\ due[p] # None
    /\ value' = [value EXCEPT ![due[p].db] = due[p].doc]
    /\ copy' = [copy EXCEPT ![p] = None]
    /\ due' = [due EXCEPT ![p] = None]

\* The end of a lookup, an exception, a death.
Drop(p) ==
    /\ copy' = [copy EXCEPT ![p] = None]
    /\ due' = [due EXCEPT ![p] = None]
    /\ UNCHANGED value

RegNext ==
    \E p \in Procs :
        \/ \E f \in Files : Take(p, f) \/ Clear(p, f) \/ Create(p, f)
        \/ Update(p)
        \/ Erase(p)
        \/ Publish(p)
        \/ Drop(p)

RegSpec == RegInit /\ [][RegNext]_regvars

=============================================================================
