------------------------------- MODULE MCGate -------------------------------
(***************************************************************************)
(* Gate for TLC.  alice types her name with or without a domain; a method  *)
(* may return one of three user structs, of which the second shares its    *)
(* uid and the third its login with the first.                             *)
(***************************************************************************)
EXTENDS GateRegistry, TLC

Alice == [name |-> "alice", domain |-> NoDomain]
AliceAtDom == [name |-> "alice", domain |-> "dom"]

OneId == {Alice}
TwoIds == {Alice, AliceAtDom}

OneUser == {[login |-> "alice", uid |-> 1]}
ThreeUsers ==
    OneUser \cup {[login |-> "bob", uid |-> 1], [login |-> "alice", uid |-> 2]}

NoUsers == {{}}
AnyUsers ==
    {users \in SUBSET ThreeUsers :
        \A u, v \in users : u.login = v.login \/ u.uid = v.uid => u = v}

RemoteOnly == <<"id">>
RemoteThenLocal == <<"id", "local">>

CacheKinds == {"auth", "chkpwd", "cache_purge"}

PasswordSymmetry == Permutations(Procs) \cup Permutations(Passwords)

=============================================================================
