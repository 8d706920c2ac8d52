----------------------------- MODULE MCRecords ------------------------------
(***************************************************************************)
(* Records for TLC.  Two groups share a name, two share a gid, one has     *)
(* the gid zero; two users have up to two groups, a third makes databases  *)
(* of three; each field may be of a wrong type.  In the buffers of NSS, a  *)
(* pointer has two bytes and a string up to two.                           *)
(***************************************************************************)
EXTENDS NssBuffer

ThreeLogins == {"ann", "bob", "eve"}
ThreeUids == {1, 2, 3}

Teachers == [name |-> "teachers", gid |-> 3]
OtherTeachers == [name |-> "teachers", gid |-> 4]
Docente == [name |-> "docente", gid |-> 3]
Wheel == [name |-> "wheel", gid |-> 0]
FourGroups == {Teachers, OtherTeachers, Docente, Wheel}

ListsOfGroups ==
    {<<>>, <<Teachers>>, <<OtherTeachers>>, <<Wheel>>, <<Teachers, Docente>>,
     <<Docente, OtherTeachers>>, <<Teachers, Teachers>>, <<Wheel, Docente>>}

BadLists == {Bad, <<Bad>>, <<Teachers, Bad>>}

User(login, uid, gid, texts, groups) ==
    [login |-> login, uid |-> uid, gid |-> gid, texts |-> texts, groups |-> groups]

SomeUsers ==
    {User(l, i, g, "texts", gs) : l \in {"ann", "bob"}, i \in {1, 2},
                                  g \in {Teachers, Wheel}, gs \in ListsOfGroups}
    \cup {User("eve", 3, Docente, "texts", <<Teachers>>)}
    \cup {User("ann", 1, Teachers, "texts", gs) : gs \in BadLists}
    \cup {User("ann", 1, Teachers, Bad, <<>>), User("ann", 1, Bad, "texts", <<>>),
          User("ann", Bad, Wheel, "texts", <<>>), User(Bad, 2, Wheel, "texts", <<>>),
          Bad}

Lengths ==
    [s \in ThreeLogins \cup {g.name : g \in FourGroups} |->
        CASE s \in {"ann", "wheel"} -> 0
          [] s \in {"bob", "docente"} -> 1
          [] OTHER -> 2]

=============================================================================
