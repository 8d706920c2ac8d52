------------------------------- MODULE Expiry -------------------------------
(***************************************************************************)
(* The arithmetic of expiring passwords (lib/libllxgvagate.cpp and the     *)
(* command cache list): minutes from the configuration, seconds in an      *)
(* int32_t, and a clock that is wider.                                     *)
(***************************************************************************)
EXTENDS Integers

CONSTANTS
    Half,            \* 2^31: an int32_t is in -Half .. Half - 1
    Minute,          \* 60
    MaxExpiration    \* LLX_GVA_GATE_MAX_EXPIRATION

ASSUME ExpiryAssumption ==
    /\ Half \in Nat \ {0}
    /\ Minute \in Nat /\ MaxExpiration \in Nat
    /\ Minute * MaxExpiration < Half

\* A sum that overflows and a cast that narrows: both wrap.
Int32(x) == ((x + Half) % (2 * Half)) - Half

Int32s == -Half .. Half - 1

\* Gate::load_config: the setting is brought into [0, MaxExpiration].
Clamp(setting) ==
    IF setting < 0 THEN 0
    ELSE IF setting > MaxExpiration THEN MaxExpiration
    ELSE setting

\* Mutant: the sum is stored in a wider type than the one that is read back.
ExpireAtWide(expiration, now) == Minute * expiration + now

\* Gate::update_shadow_db
ExpireAt(expiration, now) == Int32(Minute * expiration + Int32(now))

\* Mutant: lookup_password narrows its clock as update_shadow_db does.
InTimeNarrow(expire, now) == Int32(now) < expire

\* Gate::lookup_password
InTime(expire, now) == now < expire

=============================================================================
