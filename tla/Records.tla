------------------------------- MODULE Records -------------------------------
(***************************************************************************)
(* The records in the user database: how one gets in (Gate::validate and   *)
(* update_db), and what NSS and the listing commands make of them          *)
(* (Gate::get_groups, get_users), in lib/libllxgvagate.cpp.                *)
(*                                                                         *)
(* Module Gate treats the database as a set of keys.  Here it is the array *)
(* it is in the code, walked turn by turn, and its records have the fields *)
(* that validate looks at.  Each operation has the lock of the database    *)
(* from its read to the end of its loop, so they take turns; what may      *)
(* happen around the locks is the subject of FileDB and Gate.              *)
(***************************************************************************)
EXTENDS Naturals, Sequences, Functions

CONSTANTS
    Logins, Uids,
    Groups,        \* group structs of the right type: records [name, gid]
    UserDocs,      \* what a method may send as "user"
    Bad            \* a value of a wrong type, or a field that is not there

\* texts stands for name, surname, home and shell together.
ASSUME RecordsAssumption ==
    /\ Bad \notin Logins /\ Bad \notin Uids /\ Bad \notin Groups
    /\ \A g \in Groups : g = [name |-> g.name, gid |-> g.gid] /\ g.gid \in Nat
    /\ \A u \in UserDocs \ {Bad} :
          /\ u = [login |-> u.login, uid |-> u.uid, gid |-> u.gid,
                  texts |-> u.texts, groups |-> u.groups]
          /\ u.login \in Logins \cup {Bad}
          /\ u.uid \in Uids \cup {Bad}
          /\ u.gid \in Groups \cup {Bad}
          /\ u.groups # Bad => u.groups \in Seq(Groups \cup {Bad})

VARIABLES
    users,     \* database["users"]
    at,        \* the operation in progress and the place in it, or how the
               \* last one ended
    rows,      \* get_groups: the rows made so far, and then its result
    data,      \* update_db: the user to be stored
    tmp,       \* update_db: the users kept so far
    n, m       \* the indexes of the outer and the inner loop

locals == <<data, tmp, n, m>>
vars == <<users, at, rows, locals>>

Resting == {"idle", "error", "stored", "listed", "thrown"}
Places == Resting \cup {"update", "main", "groups"}

\* The end of an operation, whose local variables are gone.
End(how) == at' = how /\ data' = Bad /\ tmp' = <<>> /\ n' = 1 /\ m' = 1

-----------------------------------------------------------------------------
(***************************************************************************)
(* Gate::validate                                                          *)
(***************************************************************************)
ValidGroup(g) == g # Bad

\* Mutant: as for Users, the first turn of the loop returns.
ValidGroupsFirst(gs) == gs # Bad /\ (gs # <<>> => ValidGroup(gs[1]))

ValidGroups(gs) == gs # Bad /\ \A i \in 1 .. Len(gs) : ValidGroup(gs[i])

ValidUser(u) ==
    /\ u.login # Bad /\ u.uid # Bad
    /\ ValidGroup(u.gid)
    /\ u.texts # Bad
    /\ ValidGroups(u.groups)

\* Users: the loop returns in its first turn, so only one user is looked at.
ValidUsers(us) == us # <<>> => ValidUser(us[1])

\* Authenticate: a struct with an int status, which Exec::run takes care of,
\* and with a valid user.
\*
\* Mutant: that the response has a user is all that is asked.
ValidAuthenticatePresent(user) == user # Bad

\* Mutant: a response without a user passes.
ValidAuthenticateAny(user) == user = Bad \/ ValidUser(user)

ValidAuthenticate(user) == user # Bad /\ ValidUser(user)

-----------------------------------------------------------------------------
(***************************************************************************)
(* Gate::auth_exec and Gate::update_db                                     *)
(***************************************************************************)
\* A method answers Allowed and sends user.
Respond(user) ==
    /\ at \in Resting
    /\ rows' = <<>>
    /\ IF ValidAuthenticate(user) /\ ValidUsers(users)
       THEN at' = "update" /\ data' = user /\ UNCHANGED <<tmp, n, m>>
       ELSE End("error")
    /\ UNCHANGED users

\* The test of the loop throws on a login or a uid of another type.
Unreadable(u) == u.login = Bad \/ (u.login # data.login /\ u.uid = Bad)

\* Mutant: a user is dropped only if both keys are those of the new one.
KeptAnyKey(u) == u.login # data.login \/ u.uid # data.uid

Kept(u) == u.login # data.login /\ u.uid # data.uid

KeepTurn ==
    /\ at = "update" /\ n <= Len(users)
    /\ IF Unreadable(users[n])
       THEN End("error")
       ELSE /\ tmp' = IF Kept(users[n]) THEN Append(tmp, users[n]) ELSE tmp
            /\ n' = n + 1
            /\ UNCHANGED <<at, data, m>>
    /\ UNCHANGED <<users, rows>>

Store ==
    /\ at = "update" /\ n > Len(users)
    /\ users' = Append(tmp, data)
    /\ End("stored")
    /\ UNCHANGED rows

\* Gate::purge_user_db
Purge ==
    /\ at \in Resting
    /\ users' = <<>> /\ rows' = <<>>
    /\ End("idle")

-----------------------------------------------------------------------------
(***************************************************************************)
(* Gate::get_users.  Its result is the users without some of their fields, *)
(* and is left out.  lookup_user and get_pwnam take one of them.           *)
(***************************************************************************)
UserThrows(u) == u.gid = Bad \/ u.texts = Bad

ListUsers ==
    /\ at \in Resting
    /\ rows' = <<>>
    /\ IF ValidUsers(users) /\ \A i \in 1 .. Len(users) : ~UserThrows(users[i])
       THEN End("idle")
       ELSE End("thrown")
    /\ UNCHANGED users

-----------------------------------------------------------------------------
(***************************************************************************)
(* Gate::get_groups                                                        *)
(***************************************************************************)
\* find_group: the gid it is given is not used; the one of the row must not
\* be zero.
Hits(g) == {k \in 1 .. Len(rows) : rows[k].name = g.name /\ rows[k].gid # 0}

FirstHit(g) == CHOOSE k \in Hits(g) : \A j \in Hits(g) : k <= j

\* Mutant: the search for the member is left out.
AppendMemberAgain(members, login) == Append(members, login)

\* append_member
AppendMember(members, login) ==
    IF login \in Range(members) THEN members ELSE Append(members, login)

NewRow(g, members) == [name |-> g.name, gid |-> g.gid, members |-> members]

BeginListing ==
    /\ at \in Resting
    /\ rows' = <<>>
    /\ IF ValidUsers(users) THEN at' = "main" /\ UNCHANGED locals ELSE End("thrown")
    /\ UNCHANGED users

\* The main group of a user gets a row, and not its user as a member.
MainGroup ==
    LET g == users[n].gid IN
    /\ at = "main" /\ n <= Len(users)
    /\ IF g = Bad
       THEN End("thrown") /\ rows' = <<>>
       ELSE /\ rows' = IF Hits(g) = {} THEN Append(rows, NewRow(g, <<>>)) ELSE rows
            /\ at' = "groups"
            /\ UNCHANGED locals
    /\ UNCHANGED users

\* The turn for another group of the user throws on a value of a wrong type.
GroupThrows(u) == u.groups = Bad \/ u.groups[m] = Bad \/ u.login = Bad

\* Mutant: the member is added to a new row only.
OtherGroupNewOnly ==
    LET u == users[n]  g == u.groups[m] IN
    /\ at = "groups" /\ (u.groups # Bad => m <= Len(u.groups))
    /\ IF GroupThrows(u)
       THEN End("thrown") /\ rows' = <<>>
       ELSE /\ rows' = IF Hits(g) = {} THEN Append(rows, NewRow(g, <<u.login>>))
                       ELSE rows
            /\ m' = m + 1
            /\ UNCHANGED <<at, data, tmp, n>>
    /\ UNCHANGED users

OtherGroup ==
    LET u == users[n]  g == u.groups[m]  k == FirstHit(g) IN
    /\ at = "groups" /\ (u.groups # Bad => m <= Len(u.groups))
    /\ IF GroupThrows(u)
       THEN End("thrown") /\ rows' = <<>>
       ELSE /\ rows' = IF Hits(g) = {} THEN Append(rows, NewRow(g, <<u.login>>))
                       ELSE [rows EXCEPT ![k].members =
                                AppendMember(rows[k].members, u.login)]
            /\ m' = m + 1
            /\ UNCHANGED <<at, data, tmp, n>>
    /\ UNCHANGED users

NextUser ==
    /\ at = "groups" /\ users[n].groups # Bad /\ m > Len(users[n].groups)
    /\ at' = "main" /\ n' = n + 1 /\ m' = 1
    /\ UNCHANGED <<users, data, tmp, rows>>

EndListing ==
    /\ at = "main" /\ n > Len(users)
    /\ End("listed")
    /\ UNCHANGED <<users, rows>>

-----------------------------------------------------------------------------
Init ==
    /\ users = <<>> /\ at = "idle" /\ data = Bad
    /\ tmp = <<>> /\ rows = <<>> /\ n = 1 /\ m = 1

Next ==
    \/ \E user \in UserDocs : Respond(user)
    \/ KeepTurn \/ Store \/ Purge
    \/ ListUsers
    \/ BeginListing \/ MainGroup \/ OtherGroup
    \/ NextUser \/ EndListing

Spec == Init /\ [][Next]_vars

-----------------------------------------------------------------------------
GroupNames == {g.name : g \in Groups}
Rows == [name : GroupNames, gid : Nat, members : Seq(Logins)]

\* Type invariant.
RecordsTypeOK ==
    /\ users \in Seq(UserDocs \ {Bad})
    /\ at \in Places
    /\ data \in UserDocs \cup {Bad}
    /\ tmp \in Seq(UserDocs \ {Bad})
    /\ rows \in Seq(Rows)
    /\ n \in Nat \ {0} /\ m \in Nat \ {0}

(***************************************************************************)
(* A listing never throws, although only the first user of the database is *)
(* validated and a later one of a wrong type would end every NSS lookup on *)
(* the machine: what gets in was validated in full (validate for Users     *)
(* against validate for Authenticate).                                     *)
(***************************************************************************)
ListingNeverThrows == at # "thrown"

(***************************************************************************)
(* What is stored has passed the whole validation, every entry of it, and  *)
(* no two entries of the array share a login or a uid: one user of a wrong *)
(* type would end every later update_db and every listing (validate,       *)
(* auth_exec and the loop of update_db).                                   *)
(***************************************************************************)
KeysOnce(s) ==
    \A i, j \in 1 .. Len(s) :
        s[i].login = s[j].login \/ s[i].uid = s[j].uid => i = j

StoredAreSound ==
    /\ \A i \in 1 .. Len(users) : ValidUser(users[i])
    /\ KeysOnce(users)

(***************************************************************************)
(* update_db's loop over the array is the set operation of module Gate:    *)
(* every user that shares a key with the new one goes, whatever the order  *)
(* and the number of them, and nobody else does.                           *)
(***************************************************************************)
UpdateIsUpsert ==
    [][at' = "stored" /\ at # "stored" =>
          Range(users') =
                {u \in Range(users) : u.login # data.login /\ u.uid # data.uid}
                \cup {data}]_vars

(***************************************************************************)
(* Whatever names and gids groups have in common: a listing loses no       *)
(* membership and makes none up, and nobody is twice in a row (get_groups, *)
(* find_group, append_member).                                             *)
(***************************************************************************)
InGroup(login, name) ==
    \E u \in Range(users) :
        u.login = login /\ \E g \in Range(u.groups) : g.name = name

Listed(login, name) ==
    \E r \in Range(rows) : r.name = name /\ login \in Range(r.members)

MembershipsKept ==
    at = "listed" =>
        /\ \A login \in Logins, name \in GroupNames :
              Listed(login, name) <=> InGroup(login, name)
        /\ \A r \in Range(rows) : \A i, j \in DOMAIN r.members :
              r.members[i] = r.members[j] => i = j

(***************************************************************************)
(* Where a name has one gid, and this is not the one that find_group       *)
(* overlooks, a listing is what it should be: one row for each group,      *)
(* with exactly the users that name it among their groups.                 *)
(***************************************************************************)
AllGroups == UNION {Range(u.groups) \cup {u.gid} : u \in Range(users)}

OneGidPerName ==
    \A g \in AllGroups :
        g.gid # 0 /\ \A h \in AllGroups : g.name = h.name => g.gid = h.gid

Members(g) == {u.login : u \in {v \in Range(users) : g \in Range(v.groups)}}

ListingIsExact ==
    at = "listed" /\ OneGidPerName =>
        /\ \A g \in AllGroups : \E r \in Range(rows) :
              /\ r.name = g.name /\ r.gid = g.gid
              /\ Range(r.members) = Members(g)
        /\ \A i \in DOMAIN rows :
              /\ [name |-> rows[i].name, gid |-> rows[i].gid] \in AllGroups
              /\ \A j \in DOMAIN rows : rows[i].name = rows[j].name => i = j

=============================================================================
