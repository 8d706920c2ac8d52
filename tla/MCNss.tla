-------------------------------- MODULE MCNss --------------------------------
(***************************************************************************)
(* Nss for TLC: arrays with no user and with one.                          *)
(***************************************************************************)
EXTENDS Nss

TwoArrays == {<<>>, <<"alice">>}

=============================================================================
