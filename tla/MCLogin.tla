------------------------------ MODULE MCLogin -------------------------------
(***************************************************************************)
(* Login for TLC.  ann types her name with or without a domain; remote     *)
(* methods know her by one login.  The clock outgrows an int32_t of two    *)
(* bits, before and after an entry made shortly before expires.            *)
(***************************************************************************)
EXTENDS Login, TLC

Ann == [name |-> "ann", domain |-> NoDomain]
AnnAtDom == [name |-> "ann", domain |-> "dom"]

TwoIds == {Ann, AnnAtDom}
OneLogin == {Ann}
LocalThenRemote == <<"local", "id">>
SomeSettings == {-1, 9}
AllFronts == PamFronts \cup ChainFronts

Symmetry == Permutations(Passwords)

=============================================================================
