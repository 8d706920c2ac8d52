---------------------------- MODULE Login_proofs ----------------------------
(***************************************************************************)
(* Proofs about module Login and its arithmetic, for every size of an      *)
(* int32_t, every configuration, chain of methods and set of names.        *)
(***************************************************************************)
EXTENDS Login, TLAPS

-----------------------------------------------------------------------------
(***************************************************************************)
(* Arithmetic                                                              *)
(***************************************************************************)
LEMMA ModFacts ==
    ASSUME NEW a \in Int, NEW b \in Nat \ {0}
    PROVE  /\ a % b \in 0 .. b - 1
           /\ a >= 0 => a % b <= a
           /\ a \in 0 .. b - 1 => a % b = a
OBVIOUS

LEMMA Int32Facts ==
    ASSUME NEW x \in Int
    PROVE  /\ Int32(x) \in Int32s
           /\ x >= -Half => Int32(x) <= x
           /\ x \in Int32s => Int32(x) = x
<1>1. Half \in Nat \ {0}
  BY ExpiryAssumption
<1> DEFINE a == x + Half
           b == 2 * Half
<1>2. a \in Int /\ b \in Nat \ {0}
  BY <1>1
<1>3. /\ a % b \in 0 .. b - 1
      /\ a >= 0 => a % b <= a
      /\ a \in 0 .. b - 1 => a % b = a
  BY <1>2, ModFacts
<1>4. Int32(x) = (a % b) - Half
  BY DEF Int32
<1> QED
  BY <1>1, <1>2, <1>3, <1>4 DEF Int32s

LEMMA ClampFacts ==
    ASSUME NEW setting \in Int
    PROVE  Clamp(setting) \in 0 .. MaxExpiration
BY ExpiryAssumption DEF Clamp

LEMMA ProductFacts ==
    ASSUME NEW e \in 0 .. MaxExpiration
    PROVE  Minute * e \in 0 .. Minute * MaxExpiration
BY ExpiryAssumption

\* An entry never expires later than it should, whatever wraps.
LEMMA ExpireNeverLate ==
    ASSUME NEW e \in 0 .. MaxExpiration, NEW now \in Nat
    PROVE  /\ ExpireAt(e, now) \in Int32s
           /\ ExpireAt(e, now) <= now + Minute * e
<1> DEFINE life == Minute * e
<1>1. life \in Nat /\ Half \in Nat \ {0}
  BY ProductFacts, ExpiryAssumption
<1>2. ExpireAt(e, now) = Int32(life + Int32(now))
  BY DEF ExpireAt
<1> HIDE DEF life
<1>3. Int32(now) \in Int32s /\ Int32(now) <= now
  BY <1>1, Int32Facts
<1>4. life + Int32(now) \in Int /\ life + Int32(now) >= -Half
  BY <1>1, <1>3 DEF Int32s
<1>5. Int32(life + Int32(now)) \in Int32s /\ Int32(life + Int32(now)) <= life + Int32(now)
  BY <1>4, Int32Facts
<1> QED
  BY <1>1, <1>2, <1>3, <1>5 DEF life, Int32s

(***************************************************************************)
(* The range that load_config enforces keeps the sum of update_shadow_db   *)
(* inside an int32_t until MaxExpiration minutes before the clock leaves   *)
(* it: until then an entry expires exactly when it should.                 *)
(***************************************************************************)
THEOREM ExpireExact ==
    ASSUME NEW setting \in Int, NEW now \in Nat, now < Half - Minute * MaxExpiration
    PROVE  ExpireAt(Clamp(setting), now) = now + Minute * Clamp(setting)
<1> DEFINE life == Minute * Clamp(setting)
           most == Minute * MaxExpiration
<1>1. life \in 0 .. most /\ most \in Nat /\ Half \in Nat \ {0}
  BY ClampFacts, ProductFacts, ExpiryAssumption
<1>2. ExpireAt(Clamp(setting), now) = Int32(life + Int32(now))
  BY DEF ExpireAt
<1>3. now < Half - most
  OBVIOUS
<1> HIDE DEF life, most
<1>4. Int32(now) = now
  BY <1>1, <1>3, Int32Facts DEF Int32s
<1>5. Int32(life + now) = life + now
  BY <1>1, <1>3, Int32Facts DEF Int32s
<1> QED
  BY <1>1, <1>2, <1>4, <1>5 DEF life

(***************************************************************************)
(* Whenever an entry was made, and whatever wraps in update_shadow_db:     *)
(* lookup_password accepts it only within the configured minutes, and      *)
(* never once the clock has outgrown the int32_t.                          *)
(***************************************************************************)
THEOREM NeverOutlives ==
    ASSUME NEW setting \in Int, NEW made \in Nat, NEW now \in Nat,
           InTime(ExpireAt(Clamp(setting), made), now)
    PROVE  now < made + Minute * Clamp(setting) /\ now < Half
<1> DEFINE life == Minute * Clamp(setting)
<1>1. life \in Nat /\ Half \in Nat
  BY ClampFacts, ProductFacts, ExpiryAssumption
<1>2. /\ ExpireAt(Clamp(setting), made) \in Int32s
      /\ ExpireAt(Clamp(setting), made) <= made + life
  BY ClampFacts, ExpireNeverLate
<1>3. now < ExpireAt(Clamp(setting), made)
  BY DEF InTime
<1> HIDE DEF life
<1>4. now < made + life /\ now < Half
  BY <1>1, <1>2, <1>3 DEF Int32s
<1> QED
  BY <1>4 DEF life

-----------------------------------------------------------------------------
(***************************************************************************)
(* The inductive invariant                                                 *)
(***************************************************************************)
\* Every cached password was accepted, and expires no later than it should.
CacheVouched ==
    \A id \in Ids :
        cache[id] # None =>
            \E v \in vouched : /\ v.id = id /\ v.pw = cache[id].key
                               /\ v.at <= clock
                               /\ cache[id].expire <= v.at + Life

Backed(g) == \E v \in vouched : Backs(v, g)

\* A remote method accepted g's password and returned login.
Accepted(g, login) ==
    \E v \in vouched : /\ v.id = g.id /\ v.pw = g.pw /\ v.login = login
                       /\ v.at = g.judged

\* Where each front end can be in a call, and with which inputs.
CallPlace ==
   
    /\ call.at # "idle" => call.id \in Ids /\ call.pw \in Passwords
    /\ call.at = "chain" => front \in ChainFronts
    /\ call.at \in {"fork", "wait"} =>
          front \notin ChainFronts /\ call.got = None /\ call.status = "Error"
    /\ call.at = "fork" => call.end = "alive"
    /\ call.at = "switch" => front \in PamFronts
    /\ call.at = "report" => front \in {"auth", "su"}
    /\ call.at = "wait" /\ call.kid # "chkpwd" => faulty

\* A login of a remote method comes with its acceptance.
GotAccepted ==
    call.got # None => call.status = "Allowed" /\ Accepted(call, call.got)

\* A status, or the end of a child, that lets somebody in.
StatusBacked ==
    \/ faulty
    \/ /\ call.at # "idle" /\ call.status = "Allowed" => Backed(call)
       /\ call.at = "wait" /\ call.end = "Allowed" => Backed(call)

\* What PAM_SUCCESS of authenticate leaves for acct_mgmt.
SuccessKept ==
    call.result = "PAM_SUCCESS" =>
        /\ call.at = "idle" /\ front \in PamFronts
        /\ call.id \in Ids /\ call.pw \in Passwords
        /\ \/ faulty
           \/ data = "ExpiredPassword"
           \/ Backed(call)
        /\ front = "pam_root" =>
              call.got # None /\ (user = call.got \/ faulty)

LInv ==
    /\ LoginTypeOK
    /\ CacheVouched
    /\ CallPlace
    /\ GotAccepted
    /\ StatusBacked
    /\ SuccessKept
    /\ GrantIsBacked

-----------------------------------------------------------------------------
Calls ==
    [at : {"idle", "chain", "fork", "wait", "switch", "report"},
     id : Ids \cup {None}, pw : Passwords \cup {None}, m : Nat \ {0},
     status : Statuses, got : Logins \cup {None}, kid : Kids, end : Ends,
     result : Results, judged : 0 .. MaxTime]

Vouchers == [id : Ids, pw : Passwords, login : Logins, at : 0 .. MaxTime]

LEMMA LifeType == LoginTypeOK => Life \in Nat
BY ProductFacts, ExpiryAssumption DEF LoginTypeOK, Life

LEMMA TruncateType ==
    ASSUME NEW id \in Ids
    PROVE  TruncateDomain(id) \in Ids
BY LoginAssumption DEF TruncateDomain

\* What was vouched for stays vouched for.
LEMMA BackedStays ==
    ASSUME vouched \subseteq vouched', expiration' = expiration, NEW g, NEW h,
           g.id = h.id, g.pw = h.pw, g.judged = h.judged
    PROVE  /\ Backed(g) => \E v \in vouched' : Backs(v, h)'
           /\ \A login : Accepted(g, login) =>
                 \E v \in vouched' : /\ v.id = h.id /\ v.pw = h.pw /\ v.login = login
                                     /\ v.at = h.judged
<1>1. Life' = Life
  BY DEF Life
<1> QED
  BY <1>1 DEF Backed, Backs, Accepted

\* A lookup lets in only what is backed at this moment.
LEMMA LookupBacked ==
    ASSUME LInv, NEW id \in Ids, NEW pw \in Passwords,
           LookupPassword(id, pw) = "Allowed"
    PROVE  \E v \in vouched : /\ v.id = TruncateDomain(id) /\ v.pw = pw
                              /\ v.at <= clock /\ clock < v.at + Life
<1> DEFINE name == TruncateDomain(id)
<1>1. name \in Ids
  BY TruncateType
<1>2. cache[name] # None /\ cache[name].key = pw /\ clock < cache[name].expire
  BY DEF LookupPassword, InTime
<1> HIDE DEF name
<1>3. cache[name] \in [key : Passwords, expire : Int32s]
  BY <1>1, <1>2 DEF LInv, LoginTypeOK
<1>4. PICK v \in vouched : /\ v.id = name /\ v.pw = cache[name].key
                           /\ v.at <= clock /\ cache[name].expire <= v.at + Life
  BY <1>1, <1>2 DEF LInv, CacheVouched
<1>5. /\ clock \in Nat /\ v.at \in Nat /\ Life \in Nat
      /\ cache[name].expire \in Int
  BY <1>3, LifeType DEF LInv, LoginTypeOK, Int32s
<1>6. clock < v.at + Life
  BY <1>2, <1>4, <1>5
<1> QED
  BY <1>2, <1>4, <1>6 DEF name

\* An acceptance is a voucher, and a cache entry like the others.
LEMMA AcceptKeeps ==
    ASSUME LInv, NEW id \in Ids, NEW pw \in Passwords, NEW login \in Logins,
           Accept(id, pw, login), UNCHANGED <<clock, expiration>>
    PROVE  /\ cache' \in [Ids -> [key : Passwords, expire : Int32s] \cup {None}]
           /\ vouched' \subseteq Vouchers /\ vouched \subseteq vouched'
           /\ [id |-> id, pw |-> pw, login |-> login, at |-> clock] \in vouched'
           /\ CacheVouched'
<1> DEFINE v == [id |-> id, pw |-> pw, login |-> login, at |-> clock]
           expire == ExpireAt(expiration, clock)
           entry == [key |-> pw, expire |-> expire]
<1>1. clock \in Nat /\ clock \in 0 .. MaxTime /\ expiration \in 0 .. MaxExpiration
  BY DEF LInv, LoginTypeOK
<1>2. expire \in Int32s /\ expire <= clock + Life
  BY <1>1, ExpireNeverLate DEF Life
<1>3. cache' = [cache EXCEPT ![id] = entry] /\ vouched' = vouched \cup {v}
  BY DEF Accept
<1>4. v.id = id /\ v.pw = pw /\ v.at = clock /\ v \in Vouchers
  BY <1>1 DEF Vouchers
<1>5. entry.key = pw /\ entry.expire = expire
      /\ entry \in [key : Passwords, expire : Int32s]
  BY <1>2
<1> HIDE DEF v, expire, entry
<1>6. cache \in [Ids -> [key : Passwords, expire : Int32s] \cup {None}]
      /\ vouched \subseteq Vouchers
  BY DEF LInv, LoginTypeOK, Vouchers
<1>7. cache' \in [Ids -> [key : Passwords, expire : Int32s] \cup {None}]
  BY <1>3, <1>5, <1>6
<1>8. vouched' \subseteq Vouchers /\ vouched \subseteq vouched' /\ v \in vouched'
  BY <1>3, <1>4, <1>6
<1>9. CacheVouched'
  <2> SUFFICES ASSUME NEW i \in Ids, cache'[i] # None
               PROVE  \E w \in vouched' : /\ w.id = i /\ w.pw = cache'[i].key
                                          /\ w.at <= clock'
                                          /\ cache'[i].expire <= w.at + Life'
    BY DEF CacheVouched
  <2>1. Life' = Life
    BY DEF Life
  <2>2. CASE i = id
    <3>1. cache'[i] = entry
      BY <1>3, <1>6, <2>2
    <3>2. v.at <= clock' /\ cache'[i].expire <= v.at + Life'
      BY <1>1, <1>2, <1>4, <1>5, <2>1, <3>1
    <3> QED
      BY <1>4, <1>5, <1>8, <2>2, <3>1, <3>2
  <2>3. CASE i # id
    BY <1>3, <1>6, <1>8, <2>1, <2>3 DEF LInv, CacheVouched
  <2> QED
    BY <2>2, <2>3
<1> QED
  BY <1>7, <1>8, <1>9 DEF v

-----------------------------------------------------------------------------
\* A grant that stays is as good as before.
LEMMA GrantStays ==
    ASSUME LInv, UNCHANGED <<expiration, front, granted>>,
           vouched \subseteq vouched', faulty => faulty'
    PROVE  /\ GrantIsBacked'
           /\ granted' \in Grants \cup {None}
<1>1. Life' = Life
  BY DEF Life
<1> QED
  BY <1>1 DEF LInv, LoginTypeOK, GrantIsBacked, Backs

\* What is left to show of a step inside a call.
LEMMA InsideCall ==
    ASSUME LInv, call' \in Calls,
           UNCHANGED <<clock, expiration, front, user, data, calls, granted>>,
           cache' \in [Ids -> [key : Passwords, expire : Int32s] \cup {None}],
           vouched' \subseteq Vouchers, vouched \subseteq vouched',
           faulty' \in BOOLEAN, faulty => faulty',
           CacheVouched', CallPlace', GotAccepted', StatusBacked',
           call'.result # "PAM_SUCCESS"
    PROVE  LInv'
<1>1. GrantIsBacked' /\ granted' \in Grants \cup {None}
  BY GrantStays
<1>2. LoginTypeOK'
  BY <1>1 DEF LInv, LoginTypeOK, Calls, Vouchers
<1>3. SuccessKept'
  BY DEF SuccessKept
<1> QED
  BY <1>1, <1>2, <1>3 DEF LInv

\* The same for a step that leaves the cache alone.
LEMMA InsideCallOnly ==
    ASSUME LInv, call' \in Calls,
           UNCHANGED <<clock, expiration, cache, vouched, front, user, data, calls,
                       granted>>,
           faulty' \in BOOLEAN, faulty => faulty',
           CallPlace', GotAccepted', StatusBacked',
           call'.result # "PAM_SUCCESS"
    PROVE  LInv'
<1>1. CacheVouched'
  BY DEF LInv, CacheVouched, Life
<1>2. cache' \in [Ids -> [key : Passwords, expire : Int32s] \cup {None}]
      /\ vouched' \subseteq Vouchers /\ vouched \subseteq vouched'
  BY DEF LInv, LoginTypeOK, Vouchers
<1> QED
  BY <1>1, <1>2, InsideCall

-----------------------------------------------------------------------------
(***************************************************************************)
(* The chain of methods                                                    *)
(***************************************************************************)
LEMMA TurnCall ==
    ASSUME LInv, call.at = "chain", NEW status \in Statuses,
           NEW got \in Logins \cup {None}, TurnOver(status, got)
    PROVE  /\ call' \in Calls
           /\ call'.at = "chain" /\ call'.id = call.id /\ call'.pw = call.pw
           /\ call'.status = status /\ call'.got = got
           /\ call'.judged = clock /\ call'.result = call.result
<1>1. call \in Calls /\ clock \in 0 .. MaxTime
  BY DEF LInv, LoginTypeOK, Calls
<1>2. call' = [call EXCEPT !.m = call.m + 1, !.status = status, !.got = got,
                           !.judged = clock]
  BY DEF TurnOver
<1>3. call.m + 1 \in Nat \ {0}
  BY <1>1 DEF Calls
<1> QED
  BY <1>1, <1>2, <1>3 DEF Calls

LEMMA LocalTurnKeeps == LInv /\ LocalTurn => LInv'
<1> SUFFICES ASSUME LInv, LocalTurn PROVE LInv'
  OBVIOUS
<1>1. /\ call.at = "chain" /\ call.id \in Ids /\ call.pw \in Passwords
      /\ front \in ChainFronts /\ call.status # "Allowed" /\ call.got = None
  BY DEF LocalTurn, ChainGoesOn, LInv, CallPlace, GotAccepted
<1>2. PICK status \in Statuses :
          /\ TurnOver(status, None)
          /\ status = "Allowed" => status = LookupPassword(call.id, call.pw)
  <2> DEFINE found == LookupPassword(call.id, call.pw)
  <2>1. found \in Statuses /\ "Error" \in Statuses
    BY DEF LookupPassword, Statuses, Codes
  <2>2. TurnOver(found, None) \/ TurnOver("Error", None)
    BY <1>1 DEF LocalTurn
  <2> HIDE DEF found
  <2>3. CASE TurnOver(found, None)
    BY <2>1, <2>3 DEF found
  <2> QED
    BY <2>1, <2>2, <2>3
<1>3. UNCHANGED <<world, handle>>
  BY DEF LocalTurn
<1>4. /\ call' \in Calls
      /\ call'.at = "chain" /\ call'.id = call.id /\ call'.pw = call.pw
      /\ call'.status = status /\ call'.got = None
      /\ call'.judged = clock /\ call'.result = call.result
  BY <1>1, <1>2, TurnCall
<1>5. CallPlace' /\ GotAccepted'
  BY <1>1, <1>3, <1>4 DEF LInv, CallPlace, GotAccepted, handle, world
<1>6. StatusBacked'
  <2>1. CASE status = "Allowed"
    <3>1. PICK v \in vouched : /\ v.id = TruncateDomain(call.id) /\ v.pw = call.pw
                               /\ v.at <= clock /\ clock < v.at + Life
      BY <1>1, <1>2, <2>1, LookupBacked
    <3>2. vouched' = vouched /\ Life' = Life
      BY <1>3 DEF Life, world
    <3>3. Backed(call)'
      BY <1>4, <3>1, <3>2 DEF Backed, Backs
    <3> QED
      BY <1>4, <3>3 DEF StatusBacked
  <2> QED
    BY <1>4, <2>1 DEF StatusBacked
<1>7. call'.result # "PAM_SUCCESS"
  BY <1>1, <1>4 DEF LInv, SuccessKept
<1> QED
  BY <1>3, <1>4, <1>5, <1>6, <1>7, InsideCallOnly
     DEF world, handle, LInv, LoginTypeOK

LEMMA RemoteTurnKeeps == LInv /\ RemoteTurn => LInv'
<1> SUFFICES ASSUME LInv, RemoteTurn PROVE LInv'
  OBVIOUS
<1>1. /\ call.at = "chain" /\ call.id \in Ids /\ call.pw \in Passwords
      /\ front \in ChainFronts /\ call.status # "Allowed" /\ call.got = None
      /\ call.result # "PAM_SUCCESS"
  BY DEF RemoteTurn, ChainGoesOn, LInv, CallPlace, GotAccepted, SuccessKept
<1>2. UNCHANGED <<clock, expiration, handle>>
  BY DEF RemoteTurn
<1>3. ASSUME NEW login \in Logins, Accept(call.id, call.pw, login),
             TurnOver("Allowed", login)
      PROVE  LInv'
  <2> DEFINE v == [id |-> call.id, pw |-> call.pw, login |-> login, at |-> clock]
  <2>1. /\ call' \in Calls
        /\ call'.at = "chain" /\ call'.id = call.id /\ call'.pw = call.pw
        /\ call'.status = "Allowed" /\ call'.got = login
       
        /\ call'.judged = clock /\ call'.result = call.result
    BY <1>1, <1>3, TurnCall DEF Statuses, Codes
  <2>2. /\ cache' \in [Ids -> [key : Passwords, expire : Int32s] \cup {None}]
        /\ vouched' \subseteq Vouchers /\ vouched \subseteq vouched'
        /\ v \in vouched' /\ CacheVouched'
    BY <1>1, <1>2, <1>3, AcceptKeeps
  <2>3. v.id = call.id /\ v.pw = call.pw /\ v.login = login /\ v.at = clock
    OBVIOUS
  <2> HIDE DEF v
  <2>4. clock \in Nat
    BY DEF LInv, LoginTypeOK
  <2>5. Backed(call)' /\ Accepted(call, call.got)'
    BY <1>1, <2>1, <2>2, <2>3, <2>4 DEF Backed, Backs, Accepted
  <2>6. CallPlace' /\ GotAccepted' /\ StatusBacked'
    BY <1>1, <1>2, <2>1, <2>5 DEF CallPlace, GotAccepted, StatusBacked, handle
  <2> QED
    BY <1>1, <1>2, <2>1, <2>2, <2>6, InsideCall DEF handle, LInv, LoginTypeOK
<1>4. ASSUME TurnOver("Error", call.got), UNCHANGED <<cache, vouched>>
      PROVE  LInv'
  <2>1. /\ call' \in Calls
        /\ call'.at = "chain" /\ call'.id = call.id /\ call'.pw = call.pw
        /\ call'.status = "Error" /\ call'.got = None
        /\ call'.result = call.result
    BY <1>1, <1>4, TurnCall DEF Statuses, Codes
  <2>2. CallPlace' /\ GotAccepted' /\ StatusBacked'
    BY <1>1, <1>2, <2>1 DEF CallPlace, GotAccepted, StatusBacked, handle
  <2> QED
    BY <1>1, <1>2, <1>4, <2>1, <2>2, InsideCallOnly DEF handle, LInv, LoginTypeOK
<1> QED
  BY <1>3, <1>4 DEF RemoteTurn

\* A step that moves to another place with the status it has.
LEMMA ChainEndsKeeps == LInv /\ ChainEnds => LInv'
<1> SUFFICES ASSUME LInv, ChainEnds PROVE LInv'
  OBVIOUS
<1> DEFINE at == IF front = "pam_root" THEN "switch" ELSE "report"
<1>1. /\ call' = [call EXCEPT !.at = at] /\ call.at = "chain"
      /\ UNCHANGED <<world, handle>> /\ call \in Calls
  BY DEF ChainEnds, LInv, LoginTypeOK, Calls
<1>2. at \in {"switch", "report"} /\ (at = "switch" => front = "pam_root")
      /\ (at = "report" => front # "pam_root")
  OBVIOUS
<1> HIDE DEF at
<1>3. /\ call' \in Calls
      /\ call'.at = at /\ call'.id = call.id /\ call'.pw = call.pw
      /\ call'.status = call.status /\ call'.got = call.got
      /\ call'.judged = call.judged
      /\ call'.result = call.result
  BY <1>1, <1>2 DEF Calls
<1>4. Life' = Life
  BY <1>1 DEF world, Life
<1>5. CallPlace'
  BY <1>1, <1>2, <1>3
     DEF LInv, CallPlace, world, handle, PamFronts, ChainFronts
<1>6. GotAccepted' /\ StatusBacked'
  BY <1>1, <1>2, <1>3, <1>4
     DEF LInv, GotAccepted, StatusBacked, Accepted, Backed, Backs, world, handle
<1>7. call'.result # "PAM_SUCCESS"
  BY <1>1, <1>3 DEF LInv, SuccessKept
<1> QED
  BY <1>1, <1>3, <1>5, <1>6, <1>7, InsideCallOnly DEF world, handle, LInv, LoginTypeOK

-----------------------------------------------------------------------------
(***************************************************************************)
(* The child process                                                       *)
(***************************************************************************)
LEMMA ForkKeeps == LInv /\ (Fork \/ ForkFails \/ ExecFails) => LInv'
<1> SUFFICES ASSUME LInv, Fork \/ ForkFails \/ ExecFails PROVE LInv'
  OBVIOUS
<1>1. PICK kid \in Kids : /\ WaitFor(kid)
                          /\ faulty' \in BOOLEAN /\ (faulty => faulty')
                          /\ (kid # "chkpwd" => faulty')
  <2>1. faulty \in BOOLEAN /\ {"nobody", "chkpwd", "copy", "stranger"} = Kids
    BY DEF LInv, LoginTypeOK, Kids
  <2>2. CASE Fork
    BY <2>1, <2>2 DEF Fork, handle
  <2>3. CASE ForkFails
    <3>1. PICK kid \in {"stranger", "nobody"} : WaitFor(kid)
      BY <2>3 DEF ForkFails
    <3> QED
      BY <2>1, <2>3, <3>1 DEF ForkFails
  <2>4. CASE ExecFails
    BY <2>1, <2>4 DEF ExecFails
  <2> QED
    BY <2>2, <2>3, <2>4
<1>2. /\ call.at = "fork" /\ call.id \in Ids /\ call.pw \in Passwords
      /\ front \notin ChainFronts /\ call.got = None /\ call.status = "Error"
      /\ call.end = "alive"
      /\ call.result # "PAM_SUCCESS"
      /\ call \in Calls
  BY DEF Fork, ForkFails, ExecFails, LInv, LoginTypeOK, CallPlace, SuccessKept, Calls
<1>3. UNCHANGED <<world, front, user, data, calls, granted>>
  BY DEF Fork, ForkFails, ExecFails, handle
<1>4. /\ call' \in Calls
      /\ call'.at = "wait" /\ call'.id = call.id /\ call'.pw = call.pw
      /\ call'.status = call.status /\ call'.got = call.got
      /\ call'.kid = kid /\ call'.end = call.end
      /\ call'.result = call.result
  BY <1>1, <1>2 DEF WaitFor, Calls
<1>5. CallPlace' /\ GotAccepted' /\ StatusBacked'
  BY <1>1, <1>2, <1>3, <1>4 DEF CallPlace, GotAccepted, StatusBacked, world
<1> QED
  BY <1>1, <1>2, <1>3, <1>4, <1>5, InsideCallOnly DEF world

LEMMA ChildEndsKeeps == LInv /\ ChildEnds => LInv'
<1> SUFFICES ASSUME LInv, ChildEnds PROVE LInv'
  OBVIOUS
<1>1. /\ call.at = "wait" /\ call.id \in Ids /\ call.pw \in Passwords
      /\ front \notin ChainFronts /\ call.got = None /\ call.status = "Error"
      /\ call.result # "PAM_SUCCESS"
      /\ call.kid # "chkpwd" => faulty
      /\ call \in Calls /\ clock \in 0 .. MaxTime
  BY DEF ChildEnds, LInv, LoginTypeOK, CallPlace, SuccessKept, Calls
<1>2. PICK end \in Ends :
          /\ call' = [call EXCEPT !.end = end, !.judged = clock]
          /\ call.kid = "chkpwd" =>
                end \in {LookupPassword(call.id, call.pw), "Other", "signal"}
  BY DEF ChildEnds
<1>3. UNCHANGED <<world, handle>>
  BY DEF ChildEnds
<1>4. /\ call' \in Calls
      /\ call'.at = "wait" /\ call'.id = call.id /\ call'.pw = call.pw
      /\ call'.status = call.status /\ call'.got = call.got
      /\ call'.kid = call.kid /\ call'.end = end
      /\ call'.judged = clock
      /\ call'.result = call.result
  BY <1>1, <1>2 DEF Calls
<1>5. CallPlace' /\ GotAccepted'
  BY <1>1, <1>3, <1>4 DEF CallPlace, GotAccepted, world, handle
<1>6. StatusBacked'
  <2>1. CASE end = "Allowed" /\ ~faulty
    <3>1. LookupPassword(call.id, call.pw) = "Allowed"
      BY <1>1, <1>2, <2>1
    <3>2. PICK v \in vouched : /\ v.id = TruncateDomain(call.id) /\ v.pw = call.pw
                               /\ v.at <= clock /\ clock < v.at + Life
      BY <1>1, <3>1, LookupBacked
    <3>3. vouched' = vouched /\ Life' = Life
      BY <1>3 DEF Life, world
    <3>4. Backed(call)'
      BY <1>4, <3>2, <3>3 DEF Backed, Backs
    <3> QED
      BY <1>4, <3>4 DEF StatusBacked
  <2> QED
    BY <1>1, <1>3, <1>4, <2>1 DEF StatusBacked, handle
<1> QED
  BY <1>1, <1>3, <1>4, <1>5, <1>6, InsideCallOnly DEF world, handle, LInv, LoginTypeOK

LEMMA WaitedKeeps == LInv /\ (Waited \/ WaitFails) => LInv'
<1> SUFFICES ASSUME LInv, Waited \/ WaitFails PROVE LInv'
  OBVIOUS
<1>1. /\ call.at = "wait" /\ call.id \in Ids /\ call.pw \in Passwords
      /\ front \notin ChainFronts /\ front \in Fronts
      /\ call.got = None /\ call.status = "Error"
      /\ call.result # "PAM_SUCCESS"
      /\ call \in Calls
  BY DEF Waited, WaitFails, LInv, LoginTypeOK, CallPlace, SuccessKept, Calls
<1>2. UNCHANGED <<world, handle>>
  BY DEF Waited, WaitFails
<1>3. front = "pam_user"
  BY <1>1, LoginAssumption DEF ChainFronts, PamFronts
<1>4. StopWaiting \in Calls
  BY <1>1 DEF StopWaiting, Calls, Kids, Ends
<1>5. ASSUME call' = [StopWaiting EXCEPT !.at = "idle", !.result = "PAM_AUTH_ERR"]
      PROVE  LInv'
  <2>1. /\ call' \in Calls
        /\ call'.at = "idle" /\ call'.got = None
        /\ call'.result = "PAM_AUTH_ERR"
    BY <1>1, <1>4, <1>5 DEF StopWaiting, Calls, Results
  <2>2. CallPlace' /\ GotAccepted' /\ StatusBacked'
    BY <1>1, <1>2, <2>1 DEF CallPlace, GotAccepted, StatusBacked, world
  <2> QED
    BY <1>1, <1>2, <2>1, <2>2, InsideCallOnly DEF world, handle, LInv, LoginTypeOK
<1>6. ASSUME call' = [StopWaiting EXCEPT !.at = "switch", !.status = call.end],
             call.end \notin {"signal", "alive"}
      PROVE  LInv'
  <2>1. call.end \in Statuses
    BY <1>1, <1>6 DEF Calls, Ends, Statuses
  <2>2. /\ call' \in Calls
        /\ call'.at = "switch" /\ call'.id = call.id /\ call'.pw = call.pw
        /\ call'.status = call.end /\ call'.got = call.got
        /\ call'.judged = call.judged
        /\ call'.result = call.result
    BY <1>1, <1>4, <1>6, <2>1 DEF StopWaiting, Calls
  <2>3. CallPlace' /\ GotAccepted'
    BY <1>1, <1>2, <1>3, <2>2 DEF CallPlace, GotAccepted, world, handle, PamFronts
  <2>4. Life' = Life
    BY <1>2 DEF Life, world
  <2>5. StatusBacked'
    BY <1>1, <1>2, <2>2, <2>4
       DEF LInv, StatusBacked, Backed, Backs, world, handle
  <2> QED
    BY <1>1, <1>2, <2>2, <2>3, <2>5, InsideCallOnly
       DEF world, handle, LInv, LoginTypeOK
<1> QED
  BY <1>5, <1>6 DEF Waited, WaitFails

-----------------------------------------------------------------------------
(***************************************************************************)
(* The ends of a call                                                      *)
(***************************************************************************)
LEMMA ReturnCall ==
    ASSUME call \in Calls, NEW result \in Results, Return(result)
    PROVE  /\ call' \in Calls
           /\ call'.at = "idle" /\ call'.id = call.id /\ call'.pw = call.pw
           /\ call'.status = call.status /\ call'.got = call.got
           /\ call'.judged = call.judged
           /\ call'.result = result
BY DEF Return, Calls

LEMMA SwitchKeeps == LInv /\ Switch => LInv'
<1> SUFFICES ASSUME LInv, Switch PROVE LInv'
  OBVIOUS
<1> DEFINE accepted == call.status \in {"Allowed", "ExpiredPassword"}
           bare == front = "pam_root" /\ call.got = None
           remaps == front = "pam_root" /\ accepted /\ ~bare
           result == IF accepted /\ ~bare THEN "PAM_SUCCESS"
                     ELSE IF call.status = "UserNotFound" THEN "PAM_USER_UNKNOWN"
                     ELSE "PAM_AUTH_ERR"
<1>1. /\ call.at = "switch" /\ call.id \in Ids /\ call.pw \in Passwords
      /\ front \in PamFronts
      /\ call \in Calls /\ call.status \in Statuses
      /\ user \in Ids \cup {None} /\ data \in Statuses \cup {None}
      /\ faulty \in BOOLEAN /\ Logins \subseteq Ids /\ None \notin Ids
      /\ call.got \in Logins \cup {None}
  BY LoginAssumption DEF Switch, LInv, LoginTypeOK, CallPlace, Calls
<1>2. UNCHANGED <<world, front, calls, granted>>
  BY DEF Switch
<1>3. PICK stored \in BOOLEAN, remapped \in BOOLEAN :
          /\ data' = IF stored THEN call.status ELSE data
          /\ user' = IF remaps /\ remapped THEN call.got ELSE user
          /\ faulty' = (faulty \/ ~stored \/ (remaps /\ ~remapped))
  BY DEF Switch
<1>4. result \in Results /\ Return(result)
  BY DEF Switch, Results
<1>5. /\ call' \in Calls
      /\ call'.at = "idle" /\ call'.id = call.id /\ call'.pw = call.pw
      /\ call'.status = call.status /\ call'.got = call.got
      /\ call'.judged = call.judged
      /\ call'.result = result
  BY <1>1, <1>4, ReturnCall
<1>6. /\ user' \in Ids \cup {None} /\ data' \in Statuses \cup {None}
      /\ faulty' \in BOOLEAN /\ (faulty => faulty')
  BY <1>1, <1>3
<1>7. Life' = Life /\ vouched' = vouched
  BY <1>2 DEF Life, world
<1>8. CallPlace' /\ GotAccepted' /\ CacheVouched'
  BY <1>1, <1>2, <1>5, <1>7
     DEF LInv, CallPlace, GotAccepted, Accepted, CacheVouched, world
<1>9. StatusBacked'
  BY <1>5 DEF StatusBacked
<1>10. SuccessKept'
  <2> SUFFICES ASSUME result = "PAM_SUCCESS" PROVE SuccessKept'
    BY <1>5 DEF SuccessKept
  <2>1. accepted /\ ~bare
    OBVIOUS
  <2>2. faulty' \/ data' = "ExpiredPassword" \/ Backed(call)'
    <3>1. CASE ~faulty' /\ call.status = "Allowed"
      <4>1. Backed(call)
        BY <1>1, <1>6, <3>1 DEF LInv, StatusBacked
      <4> QED
        BY <1>5, <1>7, <4>1 DEF Backed, Backs
    <3>2. CASE ~faulty' /\ call.status = "ExpiredPassword"
      BY <1>3, <3>2
    <3> QED
      BY <2>1, <3>1, <3>2
  <2>3. front = "pam_root" => call.got # None /\ (user' = call.got \/ faulty')
    BY <1>3, <2>1
  <2> QED
    BY <1>1, <1>2, <1>5, <2>2, <2>3 DEF SuccessKept
<1>11. GrantIsBacked' /\ granted' \in Grants \cup {None}
  BY <1>2, <1>6, GrantStays DEF world
<1>12. LoginTypeOK'
  BY <1>2, <1>5, <1>6, <1>11 DEF LInv, LoginTypeOK, Calls, world
<1> QED
  BY <1>8, <1>9, <1>10, <1>11, <1>12 DEF LInv

\* The grant that a call ends in is as good as the call.
LEMMA GrantFacts ==
    ASSUME call \in Calls, call.id \in Ids, call.pw \in Passwords, NEW who \in Ids
    PROVE  /\ Grant(who) \in Grants
           /\ Grant(who).who = who /\ Grant(who).id = call.id
           /\ Grant(who).pw = call.pw
           /\ Grant(who).judged = call.judged
BY DEF Grant, Grants, Calls

LEMMA ReportKeeps == LInv /\ Report => LInv'
<1> SUFFICES ASSUME LInv, Report PROVE LInv'
  OBVIOUS
<1>1. /\ call.at = "report" /\ call.id \in Ids /\ call.pw \in Passwords
      /\ front \in {"auth", "su"}
      /\ call \in Calls /\ call.got \in Logins \cup {None}
      /\ Logins \subseteq Ids /\ None \notin Ids
  BY LoginAssumption DEF Report, LInv, LoginTypeOK, CallPlace, Calls
<1>2. UNCHANGED <<world, front, user, data, calls, faulty>>
  BY DEF Report
<1>3. PICK result \in Results \ {"PAM_SUCCESS"} : Return(result)
  BY DEF Report, Results
<1>4. /\ call' \in Calls
      /\ call'.at = "idle" /\ call'.id = call.id /\ call'.pw = call.pw
      /\ call'.status = call.status /\ call'.got = call.got
      /\ call'.judged = call.judged
      /\ call'.result # "PAM_SUCCESS"
  BY <1>1, <1>3, ReturnCall
<1>5. Life' = Life /\ vouched' = vouched
  BY <1>2 DEF Life, world
<1>6. CallPlace' /\ GotAccepted' /\ CacheVouched'
  BY <1>1, <1>2, <1>4, <1>5
     DEF LInv, CallPlace, GotAccepted, Accepted, CacheVouched, world
<1>7. StatusBacked' /\ SuccessKept'
  BY <1>4 DEF StatusBacked, SuccessKept
<1>8. GrantIsBacked' /\ granted' \in Grants \cup {None}
  <2>1. CASE granted' = granted
    BY <1>2, <1>5, <2>1, GrantStays DEF world
  <2>2. ASSUME NEW who \in Ids, granted' = Grant(who), call.status = "Allowed",
               front = "su" => who = call.got
        PROVE  GrantIsBacked' /\ granted' \in Grants \cup {None}
    <3>1. /\ granted' \in Grants /\ granted'.who = who
          /\ granted'.id = call.id /\ granted'.pw = call.pw
          /\ granted'.judged = call.judged
      BY <1>1, <2>2, GrantFacts
    <3>2. Backed(call) \/ faulty
      BY <1>1, <2>2 DEF LInv, StatusBacked
    <3>3. CASE front = "su"
      <4>1. PICK v \in vouched : /\ v.id = call.id /\ v.pw = call.pw /\ v.login = who
                                 /\ v.at = call.judged
        BY <1>1, <2>2, <3>3 DEF LInv, GotAccepted, Accepted
      <4>2. Backs(v, granted)' /\ v \in vouched'
        BY <1>1, <1>5, <3>1, <4>1 DEF Backs, Calls
      <4> QED
        BY <3>1, <4>1, <4>2 DEF GrantIsBacked
    <3>4. CASE front # "su"
      <4>1. front' \notin RootFronts
        BY <1>1, <1>2, <3>4 DEF RootFronts
      <4> QED
        BY <1>2, <1>5, <3>1, <3>2, <4>1 DEF GrantIsBacked, Backed, Backs
    <3> QED
      BY <3>1, <3>3, <3>4
  <2> QED
    BY <1>1, <2>1, <2>2 DEF Report
<1>9. LoginTypeOK'
  BY <1>2, <1>4, <1>8 DEF LInv, LoginTypeOK, Calls, world
<1> QED
  BY <1>6, <1>7, <1>8, <1>9 DEF LInv

-----------------------------------------------------------------------------
(***************************************************************************)
(* The application                                                         *)
(***************************************************************************)
\* The empty call record and the one of a new call.
LEMMA NewCallFacts ==
    ASSUME NEW at \in {"idle", "chain", "fork"}, NEW id \in Ids \cup {None},
           NEW pw \in Passwords \cup {None}, NEW now \in 0 .. MaxTime
    PROVE  /\ NewCall(at, id, pw, now) \in Calls
           /\ NewCall(at, id, pw, now).at = at
           /\ NewCall(at, id, pw, now).id = id
           /\ NewCall(at, id, pw, now).pw = pw
           /\ NewCall(at, id, pw, now).status = "Error"
           /\ NewCall(at, id, pw, now).got = None
           /\ NewCall(at, id, pw, now).end = "alive"
           /\ NewCall(at, id, pw, now).result = "none"
BY DEF NewCall, Calls, Statuses, Codes, Kids, Ends, Results

\* A call that begins, or ends before it has begun.
LEMMA CallBegins ==
    ASSUME LInv, call' \in Calls, UNCHANGED <<world, front>>,
           user' \in Ids \cup {None}, data' \in Statuses \cup {None},
           calls' \in 0 .. MaxCalls, faulty' \in BOOLEAN, granted' = None,
           call'.at \in {"idle", "chain", "fork"}, call'.got = None,
           call'.status = "Error", call'.end = "alive",
           call'.result # "PAM_SUCCESS",
           call'.at # "idle" => call'.id \in Ids /\ call'.pw \in Passwords,
           call'.at = "chain" => front \in ChainFronts,
           call'.at = "fork" => front \notin ChainFronts
    PROVE  LInv'
<1>1. CallPlace' /\ GotAccepted' /\ StatusBacked' /\ SuccessKept'
  BY DEF CallPlace, GotAccepted, StatusBacked, SuccessKept, world
<1>2. CacheVouched'
  BY DEF LInv, CacheVouched, world, Life
<1>3. GrantIsBacked'
  BY DEF GrantIsBacked
<1>4. LoginTypeOK'
  BY DEF LInv, LoginTypeOK, Calls, world
<1> QED
  BY <1>1, <1>2, <1>3, <1>4 DEF LInv

LEMMA BeginKeeps ==
    ASSUME LInv, \/ \E id \in Ids : Start(id)
                 \/ \E pw \in Passwords : Authenticate(pw)
                 \/ ItemMissing
    PROVE  LInv'
<1>1. /\ clock \in 0 .. MaxTime /\ 0 \in 0 .. MaxTime /\ 0 <= clock
      /\ user \in Ids \cup {None} /\ data \in Statuses \cup {None}
      /\ faulty \in BOOLEAN /\ calls \in 0 .. MaxCalls
  BY LoginAssumption DEF LInv, LoginTypeOK
<1>2. NoCall = NewCall("idle", None, None, 0)
  BY DEF NoCall
<1>3. /\ NoCall \in Calls /\ NoCall.at = "idle" /\ NoCall.status = "Error"
      /\ NoCall.got = None /\ NoCall.end = "alive"
      /\ NoCall.result = "none"
  <2>1. "idle" \in {"idle", "chain", "fork"} /\ None \in Ids \cup {None}
        /\ None \in Passwords \cup {None}
    OBVIOUS
  <2>2. NewCall("idle", None, None, 0) \in Calls
    BY <1>1, <2>1, NewCallFacts
  <2> QED
    BY <1>2, <2>2 DEF NewCall
<1>4. ASSUME NEW id \in Ids, Start(id)
      PROVE  LInv'
  <2>1. call' = NoCall /\ calls' \in 0 .. MaxCalls
    BY <1>1, <1>4, LoginAssumption DEF Start
  <2> QED
    BY <1>1, <1>3, <1>4, <2>1, CallBegins DEF Start
<1>5. ASSUME NEW pw \in Passwords, Authenticate(pw)
      PROVE  LInv'
  <2> DEFINE at == IF front \in ChainFronts THEN "chain" ELSE "fork"
             new == NewCall(at, user, pw, clock)
  <2>1. /\ new \in Calls /\ new.at = at /\ new.id = user /\ new.pw = pw
        /\ new.status = "Error" /\ new.got = None /\ new.end = "alive"
        /\ new.result = "none"
    <3>1. /\ at \in {"idle", "chain", "fork"} /\ pw \in Passwords \cup {None}
          /\ user \in Ids \cup {None} /\ clock \in 0 .. MaxTime
      BY <1>1
    <3> HIDE DEF at
    <3> QED
      BY <3>1, NewCallFacts
  <2>2. /\ call' = new /\ calls' \in 0 .. MaxCalls /\ user \in Ids
        /\ clock <= clock
    BY <1>1, <1>5, LoginAssumption DEF Authenticate
  <2>3. /\ at \in {"chain", "fork"} /\ (at = "chain" <=> front \in ChainFronts)
    OBVIOUS
  <2> HIDE DEF at, new
  <2> QED
    BY <1>1, <1>5, <2>1, <2>2, <2>3, CallBegins DEF Authenticate
<1>6. ASSUME ItemMissing
      PROVE  LInv'
  <2> DEFINE new == [NoCall EXCEPT !.result = "PAM_AUTH_ERR"]
  <2>1. /\ new \in Calls /\ new.at = "idle" /\ new.status = "Error"
        /\ new.got = None /\ new.end = "alive"
        /\ new.result = "PAM_AUTH_ERR"
    BY <1>3 DEF Calls, Results
  <2>2. call' = new /\ calls' \in 0 .. MaxCalls
    BY <1>1, <1>6, LoginAssumption DEF ItemMissing
  <2> HIDE DEF new
  <2> QED
    BY <1>1, <1>6, <2>1, <2>2, CallBegins DEF ItemMissing
<1> QED
  BY <1>4, <1>5, <1>6

LEMMA AcctMgmtKeeps == LInv /\ AcctMgmt => LInv'
<1> SUFFICES ASSUME LInv, AcctMgmt PROVE LInv'
  OBVIOUS
<1>1. /\ user \in Ids /\ call \in Calls /\ calls \in 0 .. MaxCalls
      /\ calls < MaxCalls /\ calls' = calls + 1
      /\ UNCHANGED <<world, front, user, data, call, faulty>>
  BY DEF AcctMgmt, LInv, LoginTypeOK, Calls
<1>2. Life' = Life /\ vouched' = vouched
  BY <1>1 DEF Life, world
<1>3. CallPlace' /\ GotAccepted' /\ CacheVouched'
  BY <1>1, <1>2 DEF LInv, CallPlace, GotAccepted, Accepted, CacheVouched, world
<1>4. StatusBacked' /\ SuccessKept'
  BY <1>1, <1>2 DEF LInv, StatusBacked, SuccessKept, Backed, Backs
<1>5. GrantIsBacked' /\ granted' \in Grants \cup {None}
  <2>1. CASE granted' = granted
    BY <1>1, <1>2, <2>1, GrantStays DEF world
  <2>2. CASE /\ call.result = "PAM_SUCCESS" /\ data # "ExpiredPassword"
             /\ granted' = Grant(user)
    <3>1. /\ call.id \in Ids /\ call.pw \in Passwords /\ front \in PamFronts
          /\ faulty \/ Backed(call)
          /\ front = "pam_root" => call.got # None /\ (user = call.got \/ faulty)
      BY <2>2 DEF LInv, SuccessKept
    <3>2. /\ granted' \in Grants /\ granted'.who = user
          /\ granted'.id = call.id /\ granted'.pw = call.pw
          /\ granted'.judged = call.judged
      BY <1>1, <2>2, <3>1, GrantFacts
    <3>3. CASE front = "pam_root" /\ ~faulty
      <4>1. PICK v \in vouched : /\ v.id = call.id /\ v.pw = call.pw
                                 /\ v.login = user /\ v.at = call.judged
        BY <3>1, <3>3 DEF LInv, GotAccepted, Accepted
      <4>2. Backs(v, granted)' /\ v \in vouched'
        BY <1>1, <1>2, <3>2, <4>1 DEF Backs, Calls
      <4> QED
        BY <3>2, <4>1, <4>2 DEF GrantIsBacked
    <3>4. CASE front # "pam_root" \/ faulty
      <4>1. front' \notin RootFronts \/ faulty'
        BY <1>1, <3>1, <3>4 DEF RootFronts, PamFronts
      <4> QED
        BY <1>1, <1>2, <3>1, <3>2, <4>1 DEF GrantIsBacked, Backed, Backs
    <3> QED
      BY <3>2, <3>3, <3>4
  <2> QED
    BY <2>1, <2>2 DEF AcctMgmt
<1>6. calls' \in 0 .. MaxCalls
  BY <1>1, LoginAssumption
<1>7. LoginTypeOK'
  BY <1>1, <1>5, <1>6 DEF LInv, LoginTypeOK, world
<1> QED
  BY <1>3, <1>4, <1>5, <1>7 DEF LInv

-----------------------------------------------------------------------------
(***************************************************************************)
(* The machine                                                             *)
(***************************************************************************)
\* A step that leaves the front ends alone.
LEMMA WorldKeeps ==
    ASSUME LInv, UNCHANGED <<expiration, call, handle>>,
           clock' \in 0 .. MaxTime, clock <= clock',
           cache' \in [Ids -> [key : Passwords, expire : Int32s] \cup {None}],
           vouched' \subseteq Vouchers, vouched \subseteq vouched', CacheVouched'
    PROVE  LInv'
<1>1. Life' = Life
  BY DEF Life
<1>2. call \in Calls
  BY DEF LInv, LoginTypeOK, Calls
<1>3. CallPlace'
  BY DEF LInv, CallPlace, handle
<1>4. Backed(call) => Backed(call)'
  BY <1>1 DEF Backed, Backs
<1>5. GotAccepted' /\ StatusBacked' /\ SuccessKept'
  BY <1>4 DEF LInv, GotAccepted, Accepted, StatusBacked, SuccessKept, handle
<1>6. GrantIsBacked' /\ granted' \in Grants \cup {None}
  BY GrantStays DEF handle
<1>7. LoginTypeOK'
  BY <1>6 DEF LInv, LoginTypeOK, handle, Vouchers
<1> QED
  BY <1>3, <1>5, <1>6, <1>7 DEF LInv

LEMMA MachineKeeps ==
    ASSUME LInv, \/ \E id \in Ids, pw \in Passwords, login \in Logins :
                        Elsewhere(id, pw, login)
                 \/ Purge \/ Tick \/ UNCHANGED vars
    PROVE  LInv'
<1>1. /\ clock \in 0 .. MaxTime /\ MaxTime \in Nat /\ vouched \subseteq Vouchers
      /\ cache \in [Ids -> [key : Passwords, expire : Int32s] \cup {None}]
      /\ CacheVouched
  BY LoginAssumption DEF LInv, LoginTypeOK, Vouchers
<1>2. ASSUME NEW id \in Ids, NEW pw \in Passwords, NEW login \in Logins,
             Elsewhere(id, pw, login)
      PROVE  LInv'
  <2>1. Accept(id, pw, login) /\ UNCHANGED <<clock, expiration, call, handle>>
    BY <1>2 DEF Elsewhere
  <2>2. /\ cache' \in [Ids -> [key : Passwords, expire : Int32s] \cup {None}]
        /\ vouched' \subseteq Vouchers /\ vouched \subseteq vouched'
        /\ CacheVouched'
    BY <2>1, AcceptKeeps
  <2>3. clock' \in 0 .. MaxTime /\ clock <= clock'
    BY <1>1, <2>1
  <2> QED
    BY <2>1, <2>2, <2>3, WorldKeeps
<1>3. CASE Purge
  <2>1. /\ cache' = [id \in Ids |-> None] /\ vouched' = vouched
        /\ UNCHANGED <<expiration, call, handle>>
        /\ clock' \in 0 .. MaxTime /\ clock <= clock'
    BY <1>1, <1>3 DEF Purge
  <2>2. CacheVouched'
    BY <2>1 DEF CacheVouched
  <2> QED
    BY <1>1, <2>1, <2>2, WorldKeeps
<1>4. CASE Tick
  <2>1. /\ clock' = clock + 1 /\ clock' \in 0 .. MaxTime /\ clock <= clock'
        /\ UNCHANGED <<expiration, cache, vouched, call, handle>>
    BY <1>1, <1>4 DEF Tick
  <2>2. CacheVouched'
    <3>1. \A v \in vouched : v.at <= clock => v.at <= clock'
      BY <1>1, <2>1 DEF Vouchers
    <3> QED
      BY <1>1, <2>1, <3>1 DEF CacheVouched, Life
  <2> QED
    BY <1>1, <2>1, <2>2, WorldKeeps
<1>5. CASE UNCHANGED vars
  <2>1. CacheVouched'
    BY <1>1, <1>5 DEF CacheVouched, Life, vars
  <2>2. clock' \in 0 .. MaxTime /\ clock <= clock'
    BY <1>1, <1>5 DEF vars
  <2> QED
    BY <1>1, <1>5, <2>1, <2>2, WorldKeeps DEF vars, handle
<1> QED
  BY <1>2, <1>3, <1>4, <1>5

-----------------------------------------------------------------------------
LEMMA InitLInv == Init => LInv
<1> SUFFICES ASSUME Init PROVE LInv
  OBVIOUS
<1>1. expiration \in 0 .. MaxExpiration
  BY LoginAssumption, ClampFacts DEF Init
<1>2. 0 \in 0 .. MaxTime /\ 0 \in 0 .. MaxCalls
  BY LoginAssumption
<1>3. NoCall = NewCall("idle", None, None, 0)
  BY DEF NoCall
<1>4. /\ NoCall \in Calls /\ NoCall.at = "idle" /\ NoCall.status = "Error"
      /\ NoCall.got = None /\ NoCall.result = "none"
  BY <1>2, <1>3, NewCallFacts
<1>5. LoginTypeOK
  BY <1>1, <1>2, <1>4 DEF Init, LoginTypeOK, Calls
<1>6. CacheVouched /\ GrantIsBacked
  BY DEF Init, CacheVouched, GrantIsBacked
<1>7. CallPlace /\ GotAccepted /\ StatusBacked /\ SuccessKept
  BY <1>4 DEF Init, CallPlace, GotAccepted, StatusBacked, SuccessKept
<1> QED
  BY <1>5, <1>6, <1>7 DEF LInv

LEMMA StepLInv == LInv /\ [Next]_vars => LInv'
<1> SUFFICES ASSUME LInv, [Next]_vars PROVE LInv'
  OBVIOUS
<1>1. LocalTurn \/ RemoteTurn \/ ChainEnds => LInv'
  BY LocalTurnKeeps, RemoteTurnKeeps, ChainEndsKeeps
<1>2. Fork \/ ForkFails \/ ExecFails \/ ChildEnds \/ Waited \/ WaitFails => LInv'
  BY ForkKeeps, ChildEndsKeeps, WaitedKeeps
<1>3. Switch \/ Report \/ AcctMgmt => LInv'
  BY SwitchKeeps, ReportKeeps, AcctMgmtKeeps
<1> QED
  BY <1>1, <1>2, <1>3, BeginKeeps, MachineKeeps DEF Next

THEOREM LoginInvariance == Spec => []LInv
BY InitLInv, StepLInv, PTL DEF Spec

\* Type correctness: expire stays an int32_t, whatever the clock and the
\* configuration are.
THEOREM LoginTypes == Spec => []LoginTypeOK
BY LoginInvariance, PTL DEF LInv

(***************************************************************************)
(* Nobody gets in without a password that a remote method accepted, within *)
(* the expiration time when it came from the cache; for every sequence of  *)
(* calls on a handle, every chain of methods and every end of a child.     *)
(***************************************************************************)
THEOREM GrantsAreBacked == Spec => []GrantIsBacked
BY LoginInvariance, PTL DEF LInv

=============================================================================
