--------------------------- MODULE Records_proofs ---------------------------
(***************************************************************************)
(* Proofs about module Records, for any sets of names, numbers, groups and *)
(* users that methods may send, and for databases of any length.           *)
(***************************************************************************)
EXTENDS Records, WellFoundedInduction, TLAPS

Docs == UserDocs \ {Bad}

\* What is stored was validated.
StoredAreValid == \A i \in 1 .. Len(users) : ValidUser(users[i])

\* update_db has walked the first n - 1 users.
Updating ==
    at = "update" =>
        /\ data \in Docs /\ ValidUser(data)
        /\ n <= Len(users) + 1
        /\ Range(tmp) = {users[i] : i \in {j \in 1 .. n - 1 : Kept(users[j])}}

\* get_groups is within its two loops, or its indexes are at their start.
Walking ==
    /\ at # "update" => tmp = <<>>
    /\ at \in Resting => n = 1
    /\ at # "groups" => m = 1
    /\ at = "main" => n <= Len(users) + 1
    /\ at = "groups" => n <= Len(users) /\ m <= Len(users[n].groups) + 1

RInv ==
    /\ RecordsTypeOK
    /\ StoredAreValid
    /\ Updating
    /\ Walking
    /\ at # "thrown"

-----------------------------------------------------------------------------
LEMMA AppendFacts ==
    ASSUME NEW S, NEW s \in Seq(S), NEW x \in S
    PROVE  /\ Append(s, x) \in Seq(S)
           /\ Len(Append(s, x)) = Len(s) + 1
           /\ \A i \in 1 .. Len(s) : Append(s, x)[i] = s[i]
           /\ Append(s, x)[Len(s) + 1] = x
           /\ Range(Append(s, x)) = Range(s) \cup {x}
<1>1. /\ Append(s, x) \in Seq(S)
      /\ Len(Append(s, x)) = Len(s) + 1
      /\ \A i \in 1 .. Len(s) : Append(s, x)[i] = s[i]
      /\ Append(s, x)[Len(s) + 1] = x
  OBVIOUS
<1>2. DOMAIN s = 1 .. Len(s) /\ DOMAIN Append(s, x) = 1 .. Len(s) + 1 /\ Len(s) \in Nat
  BY <1>1
<1>3. 1 .. Len(s) + 1 = (1 .. Len(s)) \cup {Len(s) + 1}
  BY <1>2
<1>4. Range(Append(s, x)) = Range(s) \cup {x}
  BY <1>1, <1>2, <1>3 DEF Range
<1> QED
  BY <1>1, <1>4

\* What validate has found of a user.
LEMMA UserFacts ==
    ASSUME NEW u \in Docs, ValidUser(u)
    PROVE  /\ u \in UserDocs /\ u # Bad
           /\ u.login \in Logins /\ u.uid \in Uids
           /\ u.login # Bad /\ u.uid # Bad /\ u.gid # Bad /\ u.groups # Bad
           /\ u.gid \in Groups
           /\ u.groups \in Seq(Groups \cup {Bad})
           /\ \A j \in 1 .. Len(u.groups) : u.groups[j] \in Groups /\ u.groups[j] # Bad
<1>1. u \in UserDocs \ {Bad}
  BY DEF Docs
<1>2. /\ u.login # Bad /\ u.uid # Bad /\ u.gid # Bad /\ u.groups # Bad
      /\ \A j \in 1 .. Len(u.groups) : u.groups[j] # Bad
  BY DEF ValidUser, ValidGroup, ValidGroups
<1>3. /\ u.login \in Logins /\ u.uid \in Uids /\ u.gid \in Groups
      /\ u.groups \in Seq(Groups \cup {Bad})
  BY <1>1, <1>2, RecordsAssumption
<1>4. \A j \in 1 .. Len(u.groups) : u.groups[j] \in Groups \cup {Bad}
  BY <1>3
<1> QED
  BY <1>1, <1>2, <1>3, <1>4

LEMMA GroupFacts ==
    ASSUME NEW g \in Groups
    PROVE  /\ g.name \in GroupNames /\ g.gid \in Nat
           /\ g = [name |-> g.name, gid |-> g.gid]
BY RecordsAssumption DEF GroupNames

LEMMA NewRowFacts ==
    ASSUME NEW g \in Groups, NEW members \in Seq(Logins)
    PROVE  /\ NewRow(g, members) \in Rows
           /\ NewRow(g, members).name = g.name
           /\ NewRow(g, members).gid = g.gid
           /\ NewRow(g, members).members = members
BY GroupFacts DEF NewRow, Rows

LEMMA AppendMemberFacts ==
    ASSUME NEW members \in Seq(Logins), NEW login \in Logins
    PROVE  /\ AppendMember(members, login) \in Seq(Logins)
           /\ Range(AppendMember(members, login)) = Range(members) \cup {login}
BY AppendFacts DEF AppendMember

LEMMA LeastElement ==
    ASSUME NEW S, S \subseteq Nat, S # {}
    PROVE  \E k \in S : \A j \in S : k <= j
<1> DEFINE R == OpToRel(<, Nat)
<1>1. IsWellFoundedOn(R, Nat)
  BY NatLessThanWellFounded
<1>2. \A j, k \in Nat : <<j, k>> \in R <=> j < k
  BY DEF OpToRel
<1> HIDE DEF R
<1>3. PICK k \in S : \A j \in S : ~ (<<j, k>> \in R)
  BY <1>1, WFMin
<1>4. ASSUME NEW j \in S PROVE k <= j
  <2>1. j \in Nat /\ k \in Nat /\ ~ (<<j, k>> \in R)
    BY <1>3
  <2>2. ~ (j < k)
    BY <1>2, <2>1
  <2> QED
    BY <2>1, <2>2
<1> QED
  BY <1>4

\* find_group finds the first row of the name that has a gid.
LEMMA FirstHitFacts ==
    ASSUME rows \in Seq(Rows), NEW g, Hits(g) # {}
    PROVE  FirstHit(g) \in Hits(g) /\ FirstHit(g) \in 1 .. Len(rows)
<1>1. Hits(g) \subseteq 1 .. Len(rows) /\ Len(rows) \in Nat
  BY DEF Hits
<1>2. \E k \in Hits(g) : \A j \in Hits(g) : k <= j
  BY <1>1, LeastElement
<1> QED
  BY <1>1, <1>2 DEF FirstHit

-----------------------------------------------------------------------------
(***************************************************************************)
(* The invariant                                                           *)
(***************************************************************************)
LEMMA RInvInit == Init => RInv
<1> SUFFICES ASSUME Init PROVE RInv
  OBVIOUS
<1>1. users = <<>> /\ tmp = <<>> /\ rows = <<>> /\ n = 1 /\ m = 1 /\ at = "idle" /\ data = Bad
  BY DEF Init
<1>2. RecordsTypeOK
  BY <1>1 DEF RecordsTypeOK, Places, Resting
<1>3. StoredAreValid
  BY <1>1 DEF StoredAreValid
<1> QED
  BY <1>1, <1>2, <1>3 DEF RInv, Updating, Walking, Resting

\* An operation that ends with the users as they are.
LEMMA EndFacts ==
    ASSUME RecordsTypeOK, NEW how \in Resting, End(how),
           users' \in Seq(Docs), rows' \in Seq(Rows)
    PROVE  RecordsTypeOK' /\ Updating' /\ Walking'
<1>1. at' = how /\ data' = Bad /\ tmp' = <<>> /\ n' = 1 /\ m' = 1
  BY DEF End
<1>2. how \notin {"update", "main", "groups"} /\ how \in Places
  BY DEF Resting, Places
<1>3. RecordsTypeOK'
  BY <1>1, <1>2 DEF RecordsTypeOK, Docs
<1>4. Updating' /\ Walking'
  BY <1>1, <1>2 DEF Updating, Walking
<1> QED
  BY <1>3, <1>4

LEMMA EndKeeps ==
    ASSUME RInv, NEW how \in Resting, how # "thrown", End(how),
           users' = users, rows' \in Seq(Rows)
    PROVE  RInv'
<1>1. RecordsTypeOK /\ StoredAreValid /\ users' \in Seq(Docs)
  BY DEF RInv, RecordsTypeOK, Docs
<1>2. RecordsTypeOK' /\ Updating' /\ Walking'
  BY <1>1, EndFacts
<1>3. StoredAreValid'
  BY <1>1 DEF StoredAreValid
<1>4. at' # "thrown"
  BY DEF End
<1> QED
  BY <1>2, <1>3, <1>4 DEF RInv

\* The first user is as good as any, so the database passes its validation.
LEMMA DatabaseValid ==
    ASSUME RInv
    PROVE  ValidUsers(users)
<1>1. users \in Seq(Docs) /\ StoredAreValid
  BY DEF RInv, RecordsTypeOK, Docs
<1>2. users # <<>> => 1 \in 1 .. Len(users)
  BY <1>1
<1> QED
  BY <1>1, <1>2 DEF ValidUsers, StoredAreValid

LEMMA RespondStep ==
    ASSUME RInv, NEW user \in UserDocs, Respond(user)
    PROVE  RInv'
<1>1. CASE ~ (ValidAuthenticate(user) /\ ValidUsers(users))
  <2>1. End("error") /\ users' = users /\ rows' = <<>>
    BY <1>1 DEF Respond
  <2> QED
    BY <2>1, EndKeeps DEF Resting
<1>2. CASE ValidAuthenticate(user) /\ ValidUsers(users)
  <2>1. /\ at \in Resting /\ rows' = <<>> /\ users' = users
        /\ at' = "update" /\ data' = user /\ tmp' = tmp /\ n' = n /\ m' = m
        /\ user \in Docs /\ ValidUser(user)
    BY <1>2 DEF Respond, ValidAuthenticate, Docs
  <2>2. tmp = <<>> /\ n = 1 /\ m = 1
    BY <2>1 DEF RInv, Walking, Resting
  <2>3. RecordsTypeOK'
    BY <2>1, <2>2 DEF RInv, RecordsTypeOK, Docs, Places
  <2>4. StoredAreValid'
    BY <2>1 DEF RInv, StoredAreValid
  <2>5. Updating'
    <3>1. Range(tmp') = {} /\ 1 .. n' - 1 = {}
      BY <2>1, <2>2 DEF Range
    <3>2. {users'[i] : i \in {j \in 1 .. n' - 1 : Kept(users[j])'}} = {}
      BY <3>1
    <3>3. Len(users') \in Nat /\ n' <= Len(users') + 1
      BY <2>1, <2>2 DEF RInv, RecordsTypeOK
    <3> QED
      BY <2>1, <3>1, <3>2, <3>3 DEF Updating
  <2>6. Walking'
    BY <2>1, <2>2 DEF Walking, Resting
  <2> QED
    BY <2>1, <2>3, <2>4, <2>5, <2>6 DEF RInv
<1> QED
  BY <1>1, <1>2

LEMMA KeepTurnStep ==
    ASSUME RInv, KeepTurn
    PROVE  RInv'
<1>1. /\ at = "update" /\ n \in 1 .. Len(users) /\ users \in Seq(Docs) /\ n \in Nat
      /\ users' = users /\ rows' = rows /\ rows \in Seq(Rows) /\ tmp \in Seq(Docs)
      /\ data \in Docs /\ ValidUser(data)
  BY DEF KeepTurn, RInv, RecordsTypeOK, Docs, Updating
<1>2. users[n] \in Docs /\ ValidUser(users[n])
  BY <1>1 DEF RInv, StoredAreValid
<1>3. ~ Unreadable(users[n])
  BY <1>2, UserFacts DEF Unreadable
<1>4. /\ tmp' = IF Kept(users[n]) THEN Append(tmp, users[n]) ELSE tmp
      /\ n' = n + 1 /\ at' = at /\ data' = data /\ m' = m
  BY <1>3 DEF KeepTurn
<1>5. /\ tmp' \in Seq(Docs)
      /\ Range(tmp') = Range(tmp) \cup (IF Kept(users[n]) THEN {users[n]} ELSE {})
  BY <1>1, <1>2, <1>4, AppendFacts
<1>6. RecordsTypeOK'
  BY <1>1, <1>4, <1>5 DEF RInv, RecordsTypeOK, Docs
<1>7. StoredAreValid'
  BY <1>1 DEF RInv, StoredAreValid
<1>8. Updating'
  <2>1. Range(tmp) = {users[i] : i \in {j \in 1 .. n - 1 : Kept(users[j])}}
    BY <1>1 DEF RInv, Updating
  <2>2. 1 .. n' - 1 = (1 .. n - 1) \cup {n}
    BY <1>1, <1>4
  <2>3. Range(tmp') = {users[i] : i \in {j \in 1 .. n' - 1 : Kept(users[j])}}
    BY <1>5, <2>1, <2>2
  <2>4. \A u : Kept(u)' <=> Kept(u)
    BY <1>4 DEF Kept
  <2>5. Range(tmp') = {users'[i] : i \in {j \in 1 .. n' - 1 : Kept(users[j])'}}
    BY <1>1, <2>3, <2>4
  <2>6. n' <= Len(users') + 1
    BY <1>1, <1>4
  <2> QED
    BY <1>1, <1>4, <2>5, <2>6 DEF Updating
<1>9. Walking'
  BY <1>1, <1>4 DEF RInv, Walking, Resting
<1> QED
  BY <1>1, <1>4, <1>6, <1>7, <1>8, <1>9 DEF RInv

\* What Store writes.
LEMMA StoreFacts ==
    ASSUME RInv, Store
    PROVE  /\ users' \in Seq(Docs) /\ End("stored") /\ rows' = rows
           /\ \A i \in 1 .. Len(users') : ValidUser(users'[i])
           /\ Range(users') = {u \in Range(users) : Kept(u)} \cup {data}
<1>1. /\ at = "update" /\ n > Len(users) /\ users \in Seq(Docs) /\ n \in Nat
      /\ tmp \in Seq(Docs) /\ data \in Docs /\ ValidUser(data) /\ n <= Len(users) + 1
      /\ Range(tmp) = {users[i] : i \in {j \in 1 .. n - 1 : Kept(users[j])}}
      /\ users' = Append(tmp, data) /\ End("stored") /\ rows' = rows
  BY DEF Store, RInv, RecordsTypeOK, Docs, Updating
<1>2. n - 1 = Len(users) /\ DOMAIN users = 1 .. Len(users)
  BY <1>1
<1>3. users' \in Seq(Docs) /\ Range(users') = Range(tmp) \cup {data}
  BY <1>1, AppendFacts
<1>4. Range(users) = {users[i] : i \in 1 .. Len(users)}
  BY <1>2 DEF Range
<1>5. Range(tmp) = {u \in Range(users) : Kept(u)}
  BY <1>1, <1>2, <1>4
<1>6. ASSUME NEW i \in 1 .. Len(users') PROVE ValidUser(users'[i])
  <2>1. users'[i] \in Range(users')
    BY <1>3 DEF Range
  <2>2. \A u \in Range(users) : ValidUser(u)
    BY <1>4 DEF RInv, StoredAreValid
  <2> QED
    BY <1>1, <1>3, <1>5, <2>1, <2>2
<1> QED
  BY <1>1, <1>3, <1>5, <1>6

LEMMA StoreStep ==
    ASSUME RInv, Store
    PROVE  RInv'
<1>1. /\ users' \in Seq(Docs) /\ End("stored") /\ rows' = rows
      /\ \A i \in 1 .. Len(users') : ValidUser(users'[i])
  BY StoreFacts
<1>2. RecordsTypeOK /\ rows' \in Seq(Rows)
  BY <1>1 DEF RInv, RecordsTypeOK
<1>3. RecordsTypeOK' /\ Updating' /\ Walking'
  BY <1>1, <1>2, EndFacts DEF Resting
<1>4. StoredAreValid' /\ at' # "thrown"
  BY <1>1 DEF StoredAreValid, End
<1> QED
  BY <1>3, <1>4 DEF RInv

LEMMA PurgeStep ==
    ASSUME RInv, Purge
    PROVE  RInv'
<1>1. users' = <<>> /\ rows' = <<>> /\ End("idle")
  BY DEF Purge
<1>2. users' \in Seq(Docs) /\ rows' \in Seq(Rows) /\ RecordsTypeOK
  BY <1>1 DEF RInv
<1>3. RecordsTypeOK' /\ Updating' /\ Walking'
  BY <1>1, <1>2, EndFacts DEF Resting
<1>4. StoredAreValid' /\ at' # "thrown"
  BY <1>1 DEF StoredAreValid, End
<1> QED
  BY <1>3, <1>4 DEF RInv

LEMMA ListUsersStep ==
    ASSUME RInv, ListUsers
    PROVE  RInv'
<1>1. ASSUME NEW i \in 1 .. Len(users) PROVE ~ UserThrows(users[i])
  <2>1. ValidUser(users[i])
    BY DEF RInv, StoredAreValid
  <2> QED
    BY <2>1 DEF ValidUser, ValidGroup, UserThrows
<1>2. End("idle") /\ users' = users /\ rows' = <<>>
  BY <1>1, DatabaseValid DEF ListUsers
<1> QED
  BY <1>2, EndKeeps DEF Resting

LEMMA BeginListingStep ==
    ASSUME RInv, BeginListing
    PROVE  RInv'
<1>1. /\ at \in Resting /\ rows' = <<>> /\ at' = "main" /\ users' = users
      /\ data' = data /\ tmp' = tmp /\ n' = n /\ m' = m
  BY DatabaseValid DEF BeginListing, locals
<1>2. tmp = <<>> /\ n = 1 /\ m = 1
  BY <1>1 DEF RInv, Walking, Resting
<1>3. RecordsTypeOK' /\ StoredAreValid' /\ Updating'
  BY <1>1, <1>2 DEF RInv, RecordsTypeOK, StoredAreValid, Updating, Places
<1>4. n' <= Len(users') + 1
  BY <1>1, <1>2 DEF RInv, RecordsTypeOK
<1>5. Walking'
  BY <1>1, <1>2, <1>4 DEF Walking, Resting
<1> QED
  BY <1>1, <1>3, <1>5 DEF RInv

\* What MainGroup does: it never throws.
LEMMA MainGroupFacts ==
    ASSUME RInv, MainGroup
    PROVE  /\ at = "main" /\ n \in 1 .. Len(users) /\ users \in Seq(Docs)
           /\ users[n] \in Docs /\ ValidUser(users[n]) /\ users[n].gid \in Groups
           /\ rows' = IF Hits(users[n].gid) = {}
                      THEN Append(rows, NewRow(users[n].gid, <<>>)) ELSE rows
           /\ rows \in Seq(Rows) /\ rows' \in Seq(Rows)
           /\ at' = "groups" /\ users' = users
           /\ data' = data /\ tmp' = tmp /\ n' = n /\ m' = m
<1>1. at = "main" /\ n \in 1 .. Len(users) /\ users \in Seq(Docs) /\ rows \in Seq(Rows)
  BY DEF MainGroup, RInv, RecordsTypeOK, Docs
<1>2. users[n] \in Docs /\ ValidUser(users[n])
  BY <1>1 DEF RInv, StoredAreValid
<1>3. users[n].gid \in Groups /\ users[n].gid # Bad
  BY <1>2, UserFacts
<1>4. /\ rows' = IF Hits(users[n].gid) = {}
                 THEN Append(rows, NewRow(users[n].gid, <<>>)) ELSE rows
      /\ at' = "groups" /\ users' = users
      /\ data' = data /\ tmp' = tmp /\ n' = n /\ m' = m
  BY <1>3 DEF MainGroup, locals
<1>5. rows' \in Seq(Rows)
  <2>1. <<>> \in Seq(Logins)
    OBVIOUS
  <2>2. NewRow(users[n].gid, <<>>) \in Rows
    BY <1>3, <2>1, NewRowFacts
  <2> QED
    BY <1>1, <1>4, <2>2, AppendFacts
<1> QED
  BY <1>1, <1>2, <1>3, <1>4, <1>5

LEMMA MainGroupStep ==
    ASSUME RInv, MainGroup
    PROVE  RInv'
<1>1. /\ at = "main" /\ n \in 1 .. Len(users) /\ users \in Seq(Docs)
      /\ users[n] \in Docs /\ ValidUser(users[n])
      /\ rows' \in Seq(Rows) /\ at' = "groups" /\ users' = users
      /\ data' = data /\ tmp' = tmp /\ n' = n /\ m' = m
  BY MainGroupFacts
<1>2. tmp = <<>> /\ m = 1
  BY <1>1 DEF RInv, Walking
<1>3. RecordsTypeOK' /\ StoredAreValid' /\ Updating'
  BY <1>1 DEF RInv, RecordsTypeOK, StoredAreValid, Updating, Places
<1>4. Len(users[n].groups) \in Nat
  BY <1>1, UserFacts
<1>5. Walking'
  BY <1>1, <1>2, <1>4 DEF Walking, Resting
<1> QED
  BY <1>1, <1>3, <1>5 DEF RInv

\* The rows after the turn for group g of the user login.
RowsAfter(g, login) ==
    IF Hits(g) = {} THEN Append(rows, NewRow(g, <<login>>))
    ELSE [rows EXCEPT ![FirstHit(g)].members =
             AppendMember(rows[FirstHit(g)].members, login)]

LEMMA RowsAfterTyped ==
    ASSUME rows \in Seq(Rows), NEW g \in Groups, NEW login \in Logins
    PROVE  RowsAfter(g, login) \in Seq(Rows)
<1>1. CASE Hits(g) = {}
  <2>1. <<login>> \in Seq(Logins)
    OBVIOUS
  <2>2. NewRow(g, <<login>>) \in Rows
    BY <2>1, NewRowFacts
  <2> QED
    BY <1>1, <2>2, AppendFacts DEF RowsAfter
<1>2. CASE Hits(g) # {}
  <2> DEFINE k == FirstHit(g)
             row == [rows[k] EXCEPT !.members = AppendMember(rows[k].members, login)]
  <2>1. k \in 1 .. Len(rows) /\ rows[k] \in Rows
    BY <1>2, FirstHitFacts
  <2>2. AppendMember(rows[k].members, login) \in Seq(Logins)
    BY <2>1, AppendMemberFacts DEF Rows
  <2>3. row \in Rows
    BY <2>1, <2>2 DEF Rows
  <2>4. RowsAfter(g, login) = [rows EXCEPT ![k] = row]
    BY <1>2 DEF RowsAfter
  <2> HIDE DEF k, row
  <2> QED
    BY <2>1, <2>3, <2>4
<1> QED
  BY <1>1, <1>2

\* What OtherGroup does: it never throws either.
LEMMA OtherGroupFacts ==
    ASSUME RInv, OtherGroup
    PROVE  /\ at = "groups" /\ n \in 1 .. Len(users) /\ users \in Seq(Docs)
           /\ users[n] \in Docs /\ ValidUser(users[n])
           /\ m \in 1 .. Len(users[n].groups)
           /\ users[n].groups[m] \in Groups /\ users[n].login \in Logins
           /\ rows \in Seq(Rows) /\ rows' \in Seq(Rows)
           /\ rows' = RowsAfter(users[n].groups[m], users[n].login)
           /\ at' = at /\ users' = users
           /\ data' = data /\ tmp' = tmp /\ n' = n /\ m' = m + 1
<1>1. /\ at = "groups" /\ n \in 1 .. Len(users) /\ users \in Seq(Docs) /\ m \in Nat \ {0}
      /\ rows \in Seq(Rows)
  BY DEF OtherGroup, RInv, RecordsTypeOK, Docs, Walking
<1>2. users[n] \in Docs /\ ValidUser(users[n])
  BY <1>1 DEF RInv, StoredAreValid
<1>3. /\ users[n].groups # Bad /\ users[n].login # Bad /\ users[n].login \in Logins
      /\ \A j \in 1 .. Len(users[n].groups) :
            users[n].groups[j] \in Groups /\ users[n].groups[j] # Bad
      /\ Len(users[n].groups) \in Nat
  BY <1>2, UserFacts
<1>4. m \in 1 .. Len(users[n].groups)
  BY <1>1, <1>3 DEF OtherGroup
<1>5. ~ GroupThrows(users[n])
  BY <1>3, <1>4 DEF GroupThrows
<1>6. /\ rows' = RowsAfter(users[n].groups[m], users[n].login)
      /\ at' = at /\ users' = users
      /\ data' = data /\ tmp' = tmp /\ n' = n /\ m' = m + 1
  BY <1>5 DEF OtherGroup, RowsAfter
<1>7. rows' \in Seq(Rows)
  BY <1>1, <1>3, <1>4, <1>6, RowsAfterTyped
<1> QED
  BY <1>1, <1>2, <1>3, <1>4, <1>6, <1>7

LEMMA OtherGroupStep ==
    ASSUME RInv, OtherGroup
    PROVE  RInv'
<1>1. /\ at = "groups" /\ n \in 1 .. Len(users)
      /\ users[n] \in Docs /\ ValidUser(users[n])
      /\ m \in 1 .. Len(users[n].groups)
      /\ rows' \in Seq(Rows) /\ at' = at /\ users' = users
      /\ data' = data /\ tmp' = tmp /\ n' = n /\ m' = m + 1
  BY OtherGroupFacts
<1>2. RecordsTypeOK' /\ StoredAreValid' /\ Updating'
  BY <1>1 DEF RInv, RecordsTypeOK, StoredAreValid, Updating
<1>3. Len(users[n].groups) \in Nat
  BY <1>1, UserFacts
<1>4. Walking'
  BY <1>1, <1>3 DEF RInv, Walking, Resting
<1> QED
  BY <1>1, <1>2, <1>4 DEF RInv

LEMMA NextUserStep ==
    ASSUME RInv, NextUser
    PROVE  RInv'
<1>1. /\ at = "groups" /\ at' = "main" /\ n' = n + 1 /\ m' = 1
      /\ users' = users /\ data' = data /\ tmp' = tmp /\ rows' = rows
  BY DEF NextUser
<1>2. tmp = <<>> /\ n <= Len(users) /\ n \in Nat /\ Len(users) \in Nat
  BY <1>1 DEF RInv, Walking, RecordsTypeOK
<1>3. RecordsTypeOK' /\ StoredAreValid' /\ Updating'
  BY <1>1, <1>2 DEF RInv, RecordsTypeOK, StoredAreValid, Updating, Places
<1>4. Walking'
  BY <1>1, <1>2 DEF Walking, Resting
<1> QED
  BY <1>1, <1>3, <1>4 DEF RInv

LEMMA EndListingStep ==
    ASSUME RInv, EndListing
    PROVE  RInv'
<1>1. End("listed") /\ users' = users /\ rows' = rows /\ rows' \in Seq(Rows)
  BY DEF EndListing, RInv, RecordsTypeOK
<1> QED
  BY <1>1, EndKeeps DEF Resting

LEMMA RInvStep == RInv /\ [Next]_vars => RInv'
<1> SUFFICES ASSUME RInv, [Next]_vars PROVE RInv'
  OBVIOUS
<1>1. CASE UNCHANGED vars
  BY <1>1 DEF vars, locals, RInv, RecordsTypeOK, StoredAreValid, Updating, Walking, Kept
<1>2. CASE Next
  BY <1>2, RespondStep, KeepTurnStep, StoreStep, PurgeStep, ListUsersStep, BeginListingStep,
     MainGroupStep, OtherGroupStep, NextUserStep, EndListingStep DEF Next
<1> QED
  BY <1>1, <1>2

THEOREM RecordsInvariance == Spec => []RInv
BY RInvInit, RInvStep, PTL DEF Spec

\* The type invariant, for databases of any length.
THEOREM RecordsTypes == Spec => []RecordsTypeOK
<1>1. RInv => RecordsTypeOK
  BY DEF RInv
<1> QED
  BY <1>1, RecordsInvariance, PTL

(***************************************************************************)
(* A listing never meets a record of a wrong type: StoredAreValid is       *)
(* inductive although validate looks at the first user only.               *)
(***************************************************************************)
THEOREM ListingsNeverThrow == Spec => []ListingNeverThrows
<1>1. RInv => ListingNeverThrows
  BY DEF RInv, ListingNeverThrows
<1> QED
  BY <1>1, RecordsInvariance, PTL

-----------------------------------------------------------------------------
LEMMA AppendKeysOnce ==
    ASSUME NEW s \in Seq(Docs), KeysOnce(s), NEW u \in Docs,
           \A v \in Range(s) : v.login # u.login /\ v.uid # u.uid
    PROVE  KeysOnce(Append(s, u))
<1> DEFINE new == Append(s, u)
<1>1. /\ Len(new) = Len(s) + 1 /\ Len(s) \in Nat
      /\ \A i \in 1 .. Len(s) : new[i] = s[i]
      /\ new[Len(s) + 1] = u
  BY AppendFacts
<1>2. \A i \in 1 .. Len(s) : s[i] \in Range(s)
  BY DEF Range
<1> HIDE DEF new
<1>3. ASSUME NEW i \in 1 .. Len(new), NEW j \in 1 .. Len(new), i # j
      PROVE  new[i].login # new[j].login /\ new[i].uid # new[j].uid
  <2>1. CASE i \in 1 .. Len(s) /\ j \in 1 .. Len(s)
    BY <1>1, <1>3, <2>1 DEF KeysOnce
  <2>2. CASE i \in 1 .. Len(s) /\ j = Len(s) + 1
    BY <1>1, <1>2, <2>2
  <2>3. CASE i = Len(s) + 1 /\ j \in 1 .. Len(s)
    BY <1>1, <1>2, <2>3
  <2> QED
    BY <1>1, <1>3, <2>1, <2>2, <2>3
<1> QED
  BY <1>3 DEF KeysOnce, new

\* The users kept so far come from the front of the array, in its order.
LEMMA KeepTurnKeys ==
    ASSUME RInv, KeysOnce(users), KeysOnce(tmp), KeepTurn
    PROVE  KeysOnce(users') /\ KeysOnce(tmp')
<1>1. /\ n \in 1 .. Len(users) /\ users \in Seq(Docs) /\ tmp \in Seq(Docs)
      /\ users' = users
      /\ Range(tmp) = {users[i] : i \in {j \in 1 .. n - 1 : Kept(users[j])}}
  BY DEF KeepTurn, RInv, RecordsTypeOK, Docs, Updating
<1>2. tmp' \in {tmp, <<>>, Append(tmp, users[n])}
  BY DEF KeepTurn, End
<1>3. users[n] \in Docs /\ KeysOnce(<<>>)
  BY <1>1 DEF KeysOnce
<1>4. ASSUME NEW v \in Range(tmp)
      PROVE  v.login # users[n].login /\ v.uid # users[n].uid
  <2>1. PICK i \in 1 .. n - 1 : v = users[i]
    BY <1>1
  <2>2. i \in 1 .. Len(users) /\ i # n
    BY <1>1
  <2> QED
    BY <1>1, <2>1, <2>2 DEF KeysOnce
<1>5. KeysOnce(Append(tmp, users[n]))
  BY <1>1, <1>3, <1>4, AppendKeysOnce
<1> QED
  BY <1>1, <1>2, <1>3, <1>5

LEMMA StoreKeys ==
    ASSUME RInv, KeysOnce(users), KeysOnce(tmp), Store
    PROVE  KeysOnce(users') /\ KeysOnce(tmp')
<1>1. /\ tmp \in Seq(Docs) /\ data \in Docs
      /\ users' = Append(tmp, data) /\ tmp' = <<>>
      /\ Range(tmp) = {users[i] : i \in {j \in 1 .. n - 1 : Kept(users[j])}}
  BY DEF Store, End, RInv, RecordsTypeOK, Docs, Updating
<1>2. \A v \in Range(tmp) : v.login # data.login /\ v.uid # data.uid
  BY <1>1 DEF Kept
<1>3. KeysOnce(users')
  BY <1>1, <1>2, AppendKeysOnce
<1> QED
  BY <1>1, <1>3 DEF KeysOnce

(***************************************************************************)
(* Every entry of the database is valid, and none shares a key with        *)
(* another one: the updates keep what validate never looks at again.       *)
(***************************************************************************)
THEOREM StoredSound == Spec => []StoredAreSound
<1> DEFINE Keys == KeysOnce(users) /\ KeysOnce(tmp)
<1>1. Init => Keys
  BY DEF Init, locals, KeysOnce
<1>2. RInv /\ Keys /\ [Next]_vars => Keys'
  <2> SUFFICES ASSUME RInv, Keys, [Next]_vars PROVE Keys'
    OBVIOUS
  <2>1. CASE KeepTurn
    BY <2>1, KeepTurnKeys
  <2>2. CASE Store
    BY <2>2, StoreKeys
  <2>3. CASE ~KeepTurn /\ ~Store
    <3>1. users' \in {users, <<>>} /\ tmp' \in {tmp, <<>>}
      BY <2>3, MainGroupFacts, OtherGroupFacts
      DEF Next, Respond, Purge, ListUsers, BeginListing, NextUser, EndListing, End,
          vars, locals
    <3> QED
      BY <3>1 DEF KeysOnce
  <2> QED
    BY <2>1, <2>2, <2>3
<1>3. RInv /\ Keys => StoredAreSound
  BY DEF RInv, StoredAreValid, StoredAreSound
<1> QED
  BY <1>1, <1>2, <1>3, RecordsInvariance, PTL DEF Spec

(***************************************************************************)
(* update_db drops every user that shares a key with the new one, and only *)
(* those: what module Gate takes as one step.                              *)
(***************************************************************************)
THEOREM UpdatesAreUpserts == Spec => UpdateIsUpsert
<1> DEFINE Upserted == at' = "stored" /\ at # "stored" =>
               Range(users') = {u \in Range(users) : Kept(u)} \cup {data}
<1>1. RInv /\ [Next]_vars => [Upserted]_vars
  <2> SUFFICES ASSUME RInv, Next, at' = "stored", at # "stored"
               PROVE  Upserted
    OBVIOUS
  <2>1. Store
    BY MainGroupFacts, OtherGroupFacts, DatabaseValid
    DEF Next, Respond, KeepTurn, Purge, ListUsers, BeginListing, NextUser, EndListing, End
  <2> QED
    BY <2>1, StoreFacts
<1> QED
  BY <1>1, RecordsInvariance, PTL DEF Spec, UpdateIsUpsert, Kept

-----------------------------------------------------------------------------
(***************************************************************************)
(* What a listing has after some of its turns                              *)
(***************************************************************************)
Distinct(s) == \A i, j \in DOMAIN s : s[i] = s[j] => i = j

\* The main group of the user i, and its group j, have had their turn.
MainSeen(i) == at = "listed" \/ i < n \/ (at = "groups" /\ i = n)
GroupSeen(i, j) == at = "listed" \/ i < n \/ (at = "groups" /\ i = n /\ j < m)

HasRow(name) == \E k \in 1 .. Len(rows) : rows[k].name = name
InRow(login, name) ==
    \E k \in 1 .. Len(rows) : rows[k].name = name /\ login \in Range(rows[k].members)

NothingMadeUp ==
    \A k \in 1 .. Len(rows) : \A x \in Range(rows[k].members) :
        InGroup(x, rows[k].name)

NothingLost ==
    \A i \in 1 .. Len(users) : \A j \in 1 .. Len(users[i].groups) :
        GroupSeen(i, j) => InRow(users[i].login, users[i].groups[j].name)

MainsHaveRows ==
    \A i \in 1 .. Len(users) : MainSeen(i) => HasRow(users[i].gid.name)

NobodyTwice == \A k \in 1 .. Len(rows) : Distinct(rows[k].members)

OneRowPerGroup ==
    OneGidPerName =>
        /\ \A k \in 1 .. Len(rows) :
              [name |-> rows[k].name, gid |-> rows[k].gid] \in AllGroups
        /\ \A k, l \in 1 .. Len(rows) : rows[k].name = rows[l].name => k = l

Listing ==
    at \in {"main", "groups", "listed"} =>
        /\ NothingMadeUp /\ NothingLost /\ MainsHaveRows
        /\ NobodyTwice /\ OneRowPerGroup

LEMMA AppendMemberDistinct ==
    ASSUME NEW members \in Seq(Logins), NEW login \in Logins, Distinct(members)
    PROVE  Distinct(AppendMember(members, login))
<1>1. CASE login \in Range(members)
  BY <1>1 DEF AppendMember
<1>2. CASE login \notin Range(members)
  <2> DEFINE after == Append(members, login)
  <2>1. /\ Len(after) = Len(members) + 1 /\ after[Len(members) + 1] = login
        /\ \A i \in 1 .. Len(members) : after[i] = members[i]
        /\ DOMAIN after = 1 .. Len(members) + 1 /\ DOMAIN members = 1 .. Len(members)
        /\ Len(members) \in Nat
    BY AppendFacts
  <2>2. \A i \in 1 .. Len(members) : members[i] # login
    BY <1>2, <2>1 DEF Range
  <2> HIDE DEF after
  <2>3. Distinct(after)
    BY <2>1, <2>2 DEF Distinct
  <2> QED
    BY <1>2, <2>3 DEF AppendMember, after
<1> QED
  BY <1>1, <1>2

\* The rows of the other groups stay; that of g has the user.
Adds(g, login, after) ==
    /\ after \in Seq(Rows) /\ Len(after) \in Nat
    /\ Len(after) = IF Hits(g) = {} THEN Len(rows) + 1 ELSE Len(rows)
    /\ \A k \in 1 .. Len(rows) :
          /\ after[k].name = rows[k].name /\ after[k].gid = rows[k].gid
          /\ Range(rows[k].members) \subseteq Range(after[k].members)
    /\ Hits(g) = {} => after[Len(rows) + 1] = NewRow(g, <<login>>)
    /\ \E k \in 1 .. Len(after) :
          after[k].name = g.name /\ login \in Range(after[k].members)
    /\ \A k \in 1 .. Len(after) : \A x \in Range(after[k].members) :
          \/ x = login /\ after[k].name = g.name
          \/ k \in 1 .. Len(rows) /\ x \in Range(rows[k].members)
    /\ NobodyTwice => \A k \in 1 .. Len(after) : Distinct(after[k].members)

LEMMA RowsAfterFacts ==
    ASSUME rows \in Seq(Rows), NEW g \in Groups, NEW login \in Logins,
           NEW after, after = RowsAfter(g, login)
    PROVE  Adds(g, login, after)
<1>1. after \in Seq(Rows) /\ Len(after) \in Nat /\ Len(rows) \in Nat
  BY RowsAfterTyped
<1>2. CASE Hits(g) = {}
  <2> DEFINE row == NewRow(g, <<login>>)
  <2>1. <<login>> \in Seq(Logins) /\ Range(<<login>>) = {login} /\ Distinct(<<login>>)
    BY DEF Range, Distinct
  <2>2. row \in Rows /\ row.name = g.name /\ row.members = <<login>>
    BY <2>1, NewRowFacts
  <2>3. after = Append(rows, row)
    BY <1>2 DEF RowsAfter
  <2> HIDE DEF row
  <2>4. /\ Len(after) = Len(rows) + 1 /\ after[Len(rows) + 1] = row
        /\ \A k \in 1 .. Len(rows) : after[k] = rows[k]
    BY <2>2, <2>3, AppendFacts
  <2>5. \A k \in 1 .. Len(after) : k \in 1 .. Len(rows) \/ k = Len(rows) + 1
    BY <1>1, <2>4
  <2>6. Len(rows) + 1 \in 1 .. Len(after)
    BY <1>1, <2>4
  <2>7. NobodyTwice => \A k \in 1 .. Len(after) : Distinct(after[k].members)
    BY <2>1, <2>2, <2>4, <2>5 DEF NobodyTwice
  <2>8. \E k \in 1 .. Len(after) :
            after[k].name = g.name /\ login \in Range(after[k].members)
    BY <2>1, <2>2, <2>4, <2>6
  <2>9. ASSUME NEW k \in 1 .. Len(after), NEW x \in Range(after[k].members)
        PROVE  \/ x = login /\ after[k].name = g.name
               \/ k \in 1 .. Len(rows) /\ x \in Range(rows[k].members)
    BY <2>1, <2>2, <2>4, <2>5
  <2> QED
    BY <1>1, <1>2, <2>4, <2>7, <2>8, <2>9 DEF row, Adds
<1>3. CASE Hits(g) # {}
  <2> DEFINE h == FirstHit(g)
             members == AppendMember(rows[h].members, login)
  <2>1. h \in 1 .. Len(rows) /\ rows[h].name = g.name
    BY <1>3, FirstHitFacts DEF Hits
  <2> HIDE DEF h
  <2>2. rows[h] \in Rows /\ rows[h].members \in Seq(Logins)
    <3>1. rows[h] \in Rows
      BY <2>1
    <3> QED
      BY <3>1 DEF Rows
  <2>3. /\ Range(members) = Range(rows[h].members) \cup {login}
        /\ Distinct(rows[h].members) => Distinct(members)
    BY <2>2, AppendMemberFacts, AppendMemberDistinct
  <2>4. after = [rows EXCEPT ![h].members = members]
    BY <1>3 DEF RowsAfter, h
  <2> HIDE DEF members
  <2>5. /\ Len(after) = Len(rows)
        /\ \A k \in 1 .. Len(rows) : k # h => after[k] = rows[k]
        /\ after[h].name = rows[h].name /\ after[h].gid = rows[h].gid
        /\ after[h].members = members
    BY <2>1, <2>2, <2>4 DEF Rows
  <2>6. NobodyTwice => \A k \in 1 .. Len(after) : Distinct(after[k].members)
    BY <2>1, <2>3, <2>5 DEF NobodyTwice
  <2>7. \E k \in 1 .. Len(after) :
            after[k].name = g.name /\ login \in Range(after[k].members)
    BY <2>1, <2>3, <2>5
  <2>8. ASSUME NEW k \in 1 .. Len(after), NEW x \in Range(after[k].members)
        PROVE  \/ x = login /\ after[k].name = g.name
               \/ k \in 1 .. Len(rows) /\ x \in Range(rows[k].members)
    BY <2>1, <2>3, <2>5
  <2>9. ASSUME NEW k \in 1 .. Len(rows)
        PROVE  /\ after[k].name = rows[k].name /\ after[k].gid = rows[k].gid
               /\ Range(rows[k].members) \subseteq Range(after[k].members)
    BY <2>1, <2>3, <2>5
  <2> QED
    BY <1>1, <1>3, <2>5, <2>6, <2>7, <2>8, <2>9 DEF Adds
<1> QED
  BY <1>2, <1>3

-----------------------------------------------------------------------------
(***************************************************************************)
(* The invariant of a listing                                              *)
(***************************************************************************)
\* The groups of a stored user are groups of the database.
LEMMA GroupsOfUsers ==
    ASSUME RInv, NEW i \in 1 .. Len(users)
    PROVE  /\ users[i].gid \in AllGroups
           /\ Len(users[i].groups) \in Nat
           /\ \A j \in 1 .. Len(users[i].groups) :
                 users[i].groups[j] \in AllGroups /\ InGroup(users[i].login, users[i].groups[j].name)
<1>1. users \in Seq(Docs) /\ users[i] \in Docs /\ ValidUser(users[i])
  BY DEF RInv, RecordsTypeOK, Docs, StoredAreValid
<1>2. users[i] \in Range(users)
  BY <1>1 DEF Range
<1>3. users[i].groups \in Seq(Groups \cup {Bad})
  BY <1>1, UserFacts
<1>4. \A j \in 1 .. Len(users[i].groups) : users[i].groups[j] \in Range(users[i].groups)
  BY <1>3 DEF Range
<1>5. Range(users[i].groups) \cup {users[i].gid} \subseteq AllGroups
  BY <1>2 DEF AllGroups
<1>6. Len(users[i].groups) \in Nat
  BY <1>3
<1> QED
  BY <1>2, <1>4, <1>5, <1>6 DEF InGroup

\* A row is added for a group that no row of its name stands for.
LEMMA OneRowFacts ==
    ASSUME RInv, OneRowPerGroup, NEW g \in Groups, g \in AllGroups,
           NEW after \in Seq(Rows),
           Len(after) = IF Hits(g) = {} THEN Len(rows) + 1 ELSE Len(rows),
           \A k \in 1 .. Len(rows) :
               after[k].name = rows[k].name /\ after[k].gid = rows[k].gid,
           Hits(g) = {} => /\ after[Len(rows) + 1].name = g.name
                           /\ after[Len(rows) + 1].gid = g.gid,
           OneGidPerName
    PROVE  /\ \A k \in 1 .. Len(after) :
                 [name |-> after[k].name, gid |-> after[k].gid] \in AllGroups
           /\ \A k, l \in 1 .. Len(after) : after[k].name = after[l].name => k = l
<1>1. /\ \A k \in 1 .. Len(rows) :
            [name |-> rows[k].name, gid |-> rows[k].gid] \in AllGroups
      /\ \A k, l \in 1 .. Len(rows) : rows[k].name = rows[l].name => k = l
  BY DEF OneRowPerGroup
<1>2. Len(rows) \in Nat
  BY DEF RInv, RecordsTypeOK
<1>3. CASE Hits(g) # {}
  BY <1>1, <1>2, <1>3
<1>4. CASE Hits(g) = {}
  <2>1. ASSUME NEW k \in 1 .. Len(rows) PROVE rows[k].name # g.name
    <3> DEFINE h == [name |-> rows[k].name, gid |-> rows[k].gid]
    <3>1. h.gid # 0 /\ h.gid = rows[k].gid
      BY <1>1 DEF OneGidPerName
    <3> QED
      BY <1>4, <3>1 DEF Hits
  <2>2. g = [name |-> g.name, gid |-> g.gid]
    BY GroupFacts
  <2>3. \A k \in 1 .. Len(after) : k \in 1 .. Len(rows) \/ k = Len(rows) + 1
    BY <1>2, <1>4
  <2> QED
    BY <1>1, <1>2, <1>4, <2>1, <2>2, <2>3
<1> QED
  BY <1>3, <1>4

LEMMA ListingInit == Init => Listing
BY DEF Init, Listing

LEMMA BeginListingKeeps ==
    ASSUME RInv, BeginListing
    PROVE  Listing'
<1>1. /\ at \in Resting /\ rows' = <<>> /\ at' = "main" /\ users' = users
      /\ n' = n /\ m' = m
  BY DatabaseValid DEF BeginListing, locals
<1>2. n = 1
  BY <1>1 DEF RInv, Walking
<1>3. 1 .. Len(rows') = {}
  BY <1>1
<1>4. NothingMadeUp' /\ NobodyTwice' /\ OneRowPerGroup'
  BY <1>3 DEF NothingMadeUp, NobodyTwice, OneRowPerGroup
<1>5. NothingLost' /\ MainsHaveRows'
  <2>1. \A i \in 1 .. Len(users') : ~ MainSeen(i)'
    BY <1>1, <1>2 DEF MainSeen
  <2>2. \A i \in 1 .. Len(users') : \A j : ~ GroupSeen(i, j)'
    BY <1>1, <1>2 DEF GroupSeen
  <2> QED
    BY <2>1, <2>2 DEF NothingLost, MainsHaveRows
<1> QED
  BY <1>4, <1>5 DEF Listing

LEMMA MainGroupKeeps ==
    ASSUME RInv, Listing, MainGroup
    PROVE  Listing'
<1> DEFINE g == users[n].gid
<1>1. /\ at = "main" /\ n \in 1 .. Len(users) /\ users \in Seq(Docs)
      /\ g \in Groups
      /\ rows' = IF Hits(g) = {} THEN Append(rows, NewRow(g, <<>>)) ELSE rows
      /\ rows \in Seq(Rows) /\ rows' \in Seq(Rows)
      /\ at' = "groups" /\ users' = users /\ n' = n /\ m' = m
  BY MainGroupFacts
<1>2. m = 1 /\ Len(rows) \in Nat /\ Len(rows') \in Nat
  BY <1>1 DEF RInv, Walking
<1>3. NothingMadeUp /\ NothingLost /\ MainsHaveRows /\ NobodyTwice /\ OneRowPerGroup
  BY <1>1 DEF Listing
<1>4. /\ <<>> \in Seq(Logins) /\ Range(<<>>) = {} /\ Distinct(<<>>)
  BY DEF Range, Distinct
<1>5. /\ NewRow(g, <<>>) \in Rows /\ NewRow(g, <<>>).name = g.name
      /\ NewRow(g, <<>>).gid = g.gid /\ NewRow(g, <<>>).members = <<>>
  BY <1>1, <1>4, NewRowFacts
<1>6. /\ Len(rows') = IF Hits(g) = {} THEN Len(rows) + 1 ELSE Len(rows)
      /\ \A k \in 1 .. Len(rows) : rows'[k] = rows[k]
      /\ Hits(g) = {} => rows'[Len(rows) + 1] = NewRow(g, <<>>)
  BY <1>1, <1>5, AppendFacts
<1>7. g \in AllGroups
  BY <1>1, GroupsOfUsers
<1> HIDE DEF g
<1>8. \A k \in 1 .. Len(rows') :
          k \in 1 .. Len(rows) \/ (k = Len(rows) + 1 /\ Hits(g) = {})
  BY <1>2, <1>6
<1>9. 1 .. Len(rows) \subseteq 1 .. Len(rows')
  BY <1>2, <1>6
<1>10. NothingMadeUp'
  <2> SUFFICES ASSUME NEW k \in 1 .. Len(rows'), NEW x \in Range(rows'[k].members)
               PROVE  InGroup(x, rows[k].name)'
    BY DEF NothingMadeUp
  <2>1. k \in 1 .. Len(rows)
    BY <1>4, <1>5, <1>6, <1>8
  <2>2. InGroup(x, rows[k].name)
    BY <1>3, <1>6, <2>1 DEF NothingMadeUp
  <2> QED
    BY <1>1, <1>6, <2>1, <2>2 DEF InGroup
<1>11. NothingLost'
  <2> SUFFICES ASSUME NEW i \in 1 .. Len(users), NEW j \in 1 .. Len(users[i].groups),
                      GroupSeen(i, j)'
               PROVE  InRow(users[i].login, users[i].groups[j].name)'
    BY <1>1 DEF NothingLost
  <2>1. GroupSeen(i, j)
    BY <1>1, <1>2 DEF GroupSeen
  <2>2. InRow(users[i].login, users[i].groups[j].name)
    BY <1>3, <2>1 DEF NothingLost
  <2> QED
    BY <1>1, <1>6, <1>9, <2>2 DEF InRow
<1>12. MainsHaveRows'
  <2> SUFFICES ASSUME NEW i \in 1 .. Len(users), MainSeen(i)'
               PROVE  HasRow(users[i].gid.name)'
    BY <1>1 DEF MainsHaveRows
  <2>1. CASE i = n /\ Hits(g) = {}
    <3>1. Len(rows) + 1 \in 1 .. Len(rows')
      BY <1>2, <1>6, <2>1
    <3> QED
      BY <1>1, <1>5, <1>6, <2>1, <3>1 DEF HasRow, g
  <2>2. CASE i = n /\ Hits(g) # {}
    BY <1>1, <1>6, <1>9, <2>2 DEF HasRow, Hits, g
  <2>3. CASE i # n
    <3>1. HasRow(users[i].gid.name)
      BY <1>1, <1>3, <2>3 DEF MainsHaveRows, MainSeen
    <3> QED
      BY <1>1, <1>6, <1>9, <3>1 DEF HasRow
  <2> QED
    BY <2>1, <2>2, <2>3
<1>13. NobodyTwice'
  BY <1>3, <1>4, <1>5, <1>6, <1>8 DEF NobodyTwice
<1>14. OneRowPerGroup'
  <2>1. AllGroups' = AllGroups /\ (OneGidPerName' <=> OneGidPerName)
    BY <1>1 DEF AllGroups, OneGidPerName
  <2> QED
    BY <1>1, <1>3, <1>5, <1>6, <1>7, <2>1, OneRowFacts DEF OneRowPerGroup
<1> QED
  BY <1>10, <1>11, <1>12, <1>13, <1>14 DEF Listing

LEMMA OtherGroupKeeps ==
    ASSUME RInv, Listing, OtherGroup
    PROVE  Listing'
<1> DEFINE g == users[n].groups[m]
           login == users[n].login
<1>1. /\ at = "groups" /\ n \in 1 .. Len(users) /\ m \in 1 .. Len(users[n].groups)
      /\ g \in Groups /\ login \in Logins
      /\ rows \in Seq(Rows) /\ rows' \in Seq(Rows) /\ rows' = RowsAfter(g, login)
      /\ at' = at /\ users' = users /\ n' = n /\ m' = m + 1
  BY OtherGroupFacts
<1>2. NothingMadeUp /\ NothingLost /\ MainsHaveRows /\ NobodyTwice /\ OneRowPerGroup
  BY <1>1 DEF Listing
<1>3. g \in AllGroups /\ InGroup(login, g.name) /\ Len(users[n].groups) \in Nat
  BY <1>1, GroupsOfUsers
<1> HIDE DEF g, login
<1>4. /\ Len(rows') \in Nat /\ Len(rows) \in Nat
      /\ Len(rows') = IF Hits(g) = {} THEN Len(rows) + 1 ELSE Len(rows)
      /\ \A k \in 1 .. Len(rows) :
            /\ rows'[k].name = rows[k].name /\ rows'[k].gid = rows[k].gid
            /\ Range(rows[k].members) \subseteq Range(rows'[k].members)
      /\ Hits(g) = {} => rows'[Len(rows) + 1] = NewRow(g, <<login>>)
      /\ \E k \in 1 .. Len(rows') :
            rows'[k].name = g.name /\ login \in Range(rows'[k].members)
      /\ \A k \in 1 .. Len(rows') : \A x \in Range(rows'[k].members) :
            \/ x = login /\ rows'[k].name = g.name
            \/ k \in 1 .. Len(rows) /\ x \in Range(rows[k].members)
      /\ \A k \in 1 .. Len(rows') : Distinct(rows'[k].members)
  <2>1. Adds(g, login, rows')
    BY <1>1, RowsAfterFacts
  <2>2. Len(rows) \in Nat
    BY <1>1
  <2> QED
    BY <1>2, <2>1, <2>2 DEF Adds
<1>5. 1 .. Len(rows) \subseteq 1 .. Len(rows')
  BY <1>4
<1>6. NewRow(g, <<login>>).name = g.name /\ NewRow(g, <<login>>).gid = g.gid
  BY DEF NewRow
<1>7. n \in Nat /\ m \in Nat
  BY <1>1 DEF RInv, RecordsTypeOK
<1>8. NothingMadeUp'
  <2> SUFFICES ASSUME NEW k \in 1 .. Len(rows'), NEW x \in Range(rows'[k].members)
               PROVE  InGroup(x, rows[k].name)'
    BY DEF NothingMadeUp
  <2>1. InGroup(x, rows[k].name)' <=> InGroup(x, rows'[k].name)
    BY <1>1 DEF InGroup
  <2>2. CASE x = login /\ rows'[k].name = g.name
    BY <1>3, <2>1, <2>2
  <2>3. CASE k \in 1 .. Len(rows) /\ x \in Range(rows[k].members)
    BY <1>2, <1>4, <2>1, <2>3 DEF NothingMadeUp
  <2> QED
    BY <1>4, <2>2, <2>3
<1>9. NothingLost'
  <2> SUFFICES ASSUME NEW i \in 1 .. Len(users), NEW j \in 1 .. Len(users[i].groups),
                      GroupSeen(i, j)'
               PROVE  InRow(users[i].login, users[i].groups[j].name)'
    BY <1>1 DEF NothingLost
  <2>1. CASE i = n /\ j = m
    BY <1>1, <1>4, <2>1 DEF InRow, g, login
  <2>2. CASE ~ (i = n /\ j = m)
    <3>1. GroupSeen(i, j)
      BY <1>1, <1>7, <2>2 DEF GroupSeen
    <3>2. InRow(users[i].login, users[i].groups[j].name)
      BY <1>2, <3>1 DEF NothingLost
    <3>3. PICK k \in 1 .. Len(rows) :
              /\ rows[k].name = users[i].groups[j].name
              /\ users[i].login \in Range(rows[k].members)
      BY <3>2 DEF InRow
    <3>4. /\ k \in 1 .. Len(rows')
          /\ rows'[k].name = users[i].groups[j].name
          /\ users[i].login \in Range(rows'[k].members)
      BY <1>4, <1>5, <3>3
    <3> QED
      BY <1>1, <3>4 DEF InRow
  <2> QED
    BY <2>1, <2>2
<1>10. MainsHaveRows'
  <2> SUFFICES ASSUME NEW i \in 1 .. Len(users), MainSeen(i)'
               PROVE  HasRow(users[i].gid.name)'
    BY <1>1 DEF MainsHaveRows
  <2>1. HasRow(users[i].gid.name)
    BY <1>1, <1>2 DEF MainsHaveRows, MainSeen
  <2> QED
    BY <1>1, <1>4, <1>5, <2>1 DEF HasRow
<1>11. NobodyTwice'
  BY <1>4 DEF NobodyTwice
<1>12. OneRowPerGroup'
  <2>1. AllGroups' = AllGroups /\ (OneGidPerName' <=> OneGidPerName)
    BY <1>1 DEF AllGroups, OneGidPerName
  <2>2. /\ \A k \in 1 .. Len(rows) :
              rows'[k].name = rows[k].name /\ rows'[k].gid = rows[k].gid
        /\ Hits(g) = {} => /\ rows'[Len(rows) + 1].name = g.name
                           /\ rows'[Len(rows) + 1].gid = g.gid
        /\ Len(rows') = IF Hits(g) = {} THEN Len(rows) + 1 ELSE Len(rows)
    BY <1>4, <1>6
  <2>3. ASSUME OneGidPerName
        PROVE  /\ \A k \in 1 .. Len(rows') :
                     [name |-> rows'[k].name, gid |-> rows'[k].gid] \in AllGroups
               /\ \A k, l \in 1 .. Len(rows') : rows'[k].name = rows'[l].name => k = l
    BY <1>1, <1>2, <1>3, <2>2, <2>3, OneRowFacts
  <2> QED
    BY <2>1, <2>3 DEF OneRowPerGroup
<1> QED
  BY <1>8, <1>9, <1>10, <1>11, <1>12 DEF Listing

\* The turns of a user, or all of them, are over and the rows are the same.
LEMMA SameRows ==
    ASSUME Listing, at \in {"main", "groups", "listed"},
           users' = users, rows' = rows,
           \A i \in 1 .. Len(users) : MainSeen(i)' => MainSeen(i),
           \A i \in 1 .. Len(users) : \A j \in 1 .. Len(users[i].groups) :
               GroupSeen(i, j)' => GroupSeen(i, j)
    PROVE  Listing'
<1>1. NothingMadeUp /\ NothingLost /\ MainsHaveRows /\ NobodyTwice /\ OneRowPerGroup
  BY DEF Listing
<1>2. NothingMadeUp' /\ NobodyTwice' /\ OneRowPerGroup'
  BY <1>1 DEF NothingMadeUp, InGroup, NobodyTwice, OneRowPerGroup, OneGidPerName, AllGroups
<1>3. NothingLost' /\ MainsHaveRows'
  BY <1>1 DEF NothingLost, MainsHaveRows, InRow, HasRow
<1> QED
  BY <1>2, <1>3 DEF Listing

LEMMA NextUserKeeps ==
    ASSUME RInv, Listing, NextUser
    PROVE  Listing'
<1>1. /\ at = "groups" /\ m > Len(users[n].groups)
      /\ at' = "main" /\ n' = n + 1 /\ users' = users /\ rows' = rows
  BY DEF NextUser
<1>2. n \in Nat /\ m \in Nat
  BY DEF RInv, RecordsTypeOK
<1>3. \A i \in 1 .. Len(users) : MainSeen(i)' => MainSeen(i)
  BY <1>1, <1>2 DEF MainSeen
<1>4. ASSUME NEW i \in 1 .. Len(users), NEW j \in 1 .. Len(users[i].groups),
             GroupSeen(i, j)'
      PROVE  GroupSeen(i, j)
  <2>1. Len(users[i].groups) \in Nat
    BY GroupsOfUsers
  <2> QED
    BY <1>1, <1>2, <1>4, <2>1 DEF GroupSeen
<1> QED
  BY <1>1, <1>3, <1>4, SameRows

LEMMA EndListingKeeps ==
    ASSUME RInv, Listing, EndListing
    PROVE  Listing'
<1>1. at = "main" /\ n > Len(users) /\ users' = users /\ rows' = rows
  BY DEF EndListing
<1>2. n \in Nat /\ Len(users) \in Nat
  BY DEF RInv, RecordsTypeOK
<1>3. \A i \in 1 .. Len(users) : MainSeen(i) /\ \A j : GroupSeen(i, j)
  BY <1>1, <1>2 DEF MainSeen, GroupSeen
<1> QED
  BY <1>1, <1>3, SameRows

LEMMA ListingStep == RInv /\ Listing /\ [Next]_vars => Listing'
<1> SUFFICES ASSUME RInv, Listing, [Next]_vars PROVE Listing'
  OBVIOUS
<1>1. CASE UNCHANGED vars
  <2>1. users' = users /\ rows' = rows /\ at' = at /\ n' = n /\ m' = m
    BY <1>1 DEF vars, locals
  <2>2. CASE at \in {"main", "groups", "listed"}
    BY <2>1, <2>2, SameRows DEF MainSeen, GroupSeen
  <2>3. CASE at \notin {"main", "groups", "listed"}
    BY <2>1, <2>3 DEF Listing
  <2> QED
    BY <2>2, <2>3
<1>2. CASE \E user \in UserDocs : Respond(user)
  BY <1>2 DEF Respond, End, Listing
<1>3. CASE KeepTurn \/ Store \/ Purge \/ ListUsers
  BY <1>3 DEF KeepTurn, Store, Purge, ListUsers, End, Listing
<1> QED
  BY <1>1, <1>2, <1>3, BeginListingKeeps, MainGroupKeeps, OtherGroupKeeps,
     NextUserKeeps, EndListingKeeps DEF Next

THEOREM ListingInvariance == Spec => [](RInv /\ Listing)
<1>1. Init => RInv /\ Listing
  BY RInvInit, ListingInit
<1>2. RInv /\ Listing /\ [Next]_vars => RInv' /\ Listing'
  BY RInvStep, ListingStep
<1> QED
  BY <1>1, <1>2, PTL DEF Spec

-----------------------------------------------------------------------------
(***************************************************************************)
(* The result of a listing                                                 *)
(***************************************************************************)
LEMMA ListedInRow ==
    ASSUME RInv, NEW login, NEW name
    PROVE  Listed(login, name) <=> InRow(login, name)
<1>1. Range(rows) = {rows[k] : k \in 1 .. Len(rows)}
  BY DEF RInv, RecordsTypeOK, Range
<1> QED
  BY <1>1 DEF Listed, InRow

LEMMA AllAreGroups ==
    ASSUME RInv
    PROVE  AllGroups \subseteq Groups
<1> SUFFICES ASSUME NEW g \in AllGroups PROVE g \in Groups
  OBVIOUS
<1>1. PICK u \in Range(users) : g \in Range(u.groups) \cup {u.gid}
  BY DEF AllGroups
<1>2. u \in Docs /\ ValidUser(u)
  BY DEF RInv, RecordsTypeOK, Docs, StoredAreValid, Range
<1> QED
  BY <1>1, <1>2, UserFacts DEF Range

\* Everyone who is in a group has had the turn of it.
LEMMA AllSeen ==
    ASSUME RInv, Listing, at = "listed", NEW login, NEW name, InGroup(login, name)
    PROVE  InRow(login, name)
<1>1. PICK u \in Range(users) : u.login = login /\ \E g \in Range(u.groups) : g.name = name
  BY DEF InGroup
<1>2. PICK i \in 1 .. Len(users) : u = users[i]
  BY <1>1 DEF RInv, RecordsTypeOK, Range
<1>3. u \in Docs /\ ValidUser(u)
  BY <1>2 DEF RInv, RecordsTypeOK, Docs, StoredAreValid
<1>4. u.groups \in Seq(Groups \cup {Bad})
  BY <1>3, UserFacts
<1>5. PICK j \in 1 .. Len(u.groups) : u.groups[j].name = name
  BY <1>1, <1>4 DEF Range
<1> QED
  BY <1>1, <1>2, <1>5 DEF Listing, NothingLost, GroupSeen

\* A group without members but with a main user has a row too.
LEMMA GroupHasRow ==
    ASSUME RInv, Listing, at = "listed", NEW g \in AllGroups
    PROVE  HasRow(g.name)
<1>1. PICK u \in Range(users) : g \in Range(u.groups) \cup {u.gid}
  BY DEF AllGroups
<1>2. PICK i \in 1 .. Len(users) : u = users[i]
  BY <1>1 DEF RInv, RecordsTypeOK, Range
<1>3. CASE g = u.gid
  BY <1>2, <1>3 DEF Listing, MainsHaveRows, MainSeen
<1>4. CASE g \in Range(u.groups)
  <2>1. InGroup(u.login, g.name)
    BY <1>4 DEF InGroup
  <2>2. InRow(u.login, g.name)
    BY <2>1, AllSeen
  <2> QED
    BY <2>2 DEF InRow, HasRow
<1> QED
  BY <1>1, <1>3, <1>4

(***************************************************************************)
(* A listing has each membership of the database once, and no other.       *)
(***************************************************************************)
THEOREM ListingsKeepMemberships == Spec => []MembershipsKept
<1>1. RInv /\ Listing => MembershipsKept
  <2> SUFFICES ASSUME RInv, Listing, at = "listed"
               PROVE  /\ \A login \in Logins, name \in GroupNames :
                            Listed(login, name) <=> InGroup(login, name)
                      /\ \A r \in Range(rows) : \A i, j \in DOMAIN r.members :
                            r.members[i] = r.members[j] => i = j
    BY DEF MembershipsKept
  <2>1. NothingMadeUp /\ NobodyTwice
    BY DEF Listing
  <2>2. ASSUME NEW login \in Logins, NEW name \in GroupNames
        PROVE  Listed(login, name) <=> InGroup(login, name)
    <3>1. InRow(login, name) => InGroup(login, name)
      BY <2>1 DEF InRow, NothingMadeUp
    <3> QED
      BY <3>1, AllSeen, ListedInRow
  <2>3. \A r \in Range(rows) : Distinct(r.members)
    BY <2>1 DEF NobodyTwice, Range, RInv, RecordsTypeOK
  <2> QED
    BY <2>2, <2>3 DEF Distinct
<1> QED
  BY <1>1, ListingInvariance, PTL

(***************************************************************************)
(* With one gid, not zero, for each name, the rows are the groups and the  *)
(* members of each row are the users that name it.                         *)
(***************************************************************************)
THEOREM ListingsAreExact == Spec => []ListingIsExact
<1>1. RInv /\ Listing => ListingIsExact
  <2> SUFFICES ASSUME RInv, Listing, at = "listed", OneGidPerName
               PROVE  /\ \A g \in AllGroups : \E r \in Range(rows) :
                            /\ r.name = g.name /\ r.gid = g.gid
                            /\ Range(r.members) = Members(g)
                      /\ \A i \in DOMAIN rows :
                            /\ [name |-> rows[i].name, gid |-> rows[i].gid] \in AllGroups
                            /\ \A j \in DOMAIN rows :
                                  rows[i].name = rows[j].name => i = j
    BY DEF ListingIsExact
  <2>1. /\ NothingMadeUp /\ DOMAIN rows = 1 .. Len(rows)
        /\ \A k \in 1 .. Len(rows) :
              [name |-> rows[k].name, gid |-> rows[k].gid] \in AllGroups
        /\ \A k, l \in 1 .. Len(rows) : rows[k].name = rows[l].name => k = l
    BY DEF Listing, OneRowPerGroup, RInv, RecordsTypeOK
  <2>2. ASSUME NEW g \in AllGroups
        PROVE  \E r \in Range(rows) :
                  /\ r.name = g.name /\ r.gid = g.gid
                  /\ Range(r.members) = Members(g)
    <3>1. PICK k \in 1 .. Len(rows) : rows[k].name = g.name
      BY GroupHasRow DEF HasRow
    <3> DEFINE h == [name |-> rows[k].name, gid |-> rows[k].gid]
    <3>2. rows[k].gid = g.gid
      <4>1. h \in AllGroups /\ h.name = g.name /\ h.gid = rows[k].gid
        BY <2>1, <3>1
      <4> QED
        BY <4>1 DEF OneGidPerName
    <3>3. ASSUME NEW x \in Range(rows[k].members) PROVE x \in Members(g)
      <4>1. PICK u \in Range(users) :
                u.login = x /\ \E f \in Range(u.groups) : f.name = g.name
        BY <2>1, <3>1 DEF NothingMadeUp, InGroup
      <4>2. PICK f \in Range(u.groups) : f.name = g.name
        BY <4>1
      <4>3. f \in AllGroups
        BY <4>1, <4>2 DEF AllGroups
      <4>4. f.gid = g.gid
        BY <4>2, <4>3 DEF OneGidPerName
      <4>5. f = g
        BY <4>2, <4>3, <4>4, AllAreGroups, GroupFacts
      <4> QED
        BY <4>1, <4>2, <4>5 DEF Members
    <3>4. ASSUME NEW x \in Members(g) PROVE x \in Range(rows[k].members)
      <4>1. InGroup(x, g.name)
        BY DEF Members, InGroup
      <4>2. InRow(x, g.name)
        BY <4>1, AllSeen
      <4> QED
        BY <2>1, <3>1, <4>2 DEF InRow
    <3>5. Range(rows[k].members) = Members(g)
      BY <3>3, <3>4
    <3>6. rows[k] \in Range(rows)
      BY <2>1 DEF Range
    <3> QED
      BY <3>1, <3>2, <3>5, <3>6
  <2> QED
    BY <2>1, <2>2
<1> QED
  BY <1>1, ListingInvariance, PTL

=============================================================================
