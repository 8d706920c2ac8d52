-------------------------------- MODULE Login --------------------------------
(***************************************************************************)
(* From a typed password to an open door: the PAM module (pam/pam.cpp),    *)
(* run by an application as root or as an ordinary user, and the commands  *)
(* auth and su (bin/llxgvagate.cpp).                                       *)
(*                                                                         *)
(* Module Gate shows how sessions share the files; here a scope on a file  *)
(* is one step, and the steps of a call interleave with the clock and with *)
(* logins and purges elsewhere on the machine.  A PAM handle keeps its     *)
(* user and the data "llxgvagate.auth.status" between calls, and its       *)
(* application may call authenticate and acct_mgmt in any order.           *)
(***************************************************************************)
EXTENDS Expiry, Sequences, FiniteSets

CONSTANTS
    Ids,           \* names people type: records [name, domain]
    NoDomain,
    Logins,        \* the logins remote methods know people by, some of Ids
    Passwords,
    Methods,       \* auth_methods: a sequence of "local" and remote methods
    Settings,      \* values of "expiration" in the configuration
    Fronts,        \* the front ends of the run
    MaxTime,       \* bound on the clock
    MaxCalls,      \* bound on the handles opened and calls made
    MaxVouched,    \* bound on the logins elsewhere
    None

RootFronts == {"pam_root", "su"}
PamFronts == {"pam_root", "pam_user"}
ChainFronts == {"pam_root", "auth", "su"}    \* those that run the chain

ASSUME LoginAssumption ==
    /\ \A id \in Ids : id = [name |-> id.name, domain |-> id.domain]
    /\ \A id \in Ids : [id EXCEPT !.domain = NoDomain] \in Ids
    /\ Logins \subseteq Ids
    /\ Methods \in Seq(STRING)
    /\ Settings \subseteq Int
    /\ Fronts \subseteq PamFronts \cup ChainFronts
    /\ MaxTime \in Nat /\ MaxCalls \in Nat /\ MaxVouched \in Nat
    /\ None \notin Ids

VARIABLES
    clock,         \* std::time
    expiration,    \* Gate::expiration, in minutes
    cache,         \* cache[id]: the shadow entry of this name, or None
    front,         \* the front end in use
    user,          \* PAM_USER, or the name the command was given
    data,          \* "llxgvagate.auth.status" of the handle, or None
    call,          \* the call of authenticate in progress or made last
    calls,         \* handles opened and calls made so far
    granted,       \* history: what let the user in, or None
    vouched,       \* history: what remote methods accepted, and when
    faulty         \* history: a failure that nobody looks at has occurred

vars == <<clock, expiration, cache, front, user, data, call, calls, granted,
          vouched, faulty>>
world == <<clock, expiration, cache, vouched>>
handle == <<front, user, data, calls, granted, faulty>>

-----------------------------------------------------------------------------
\* Gate::AuthStatus, as far as the front ends tell it apart; "Other" is any
\* other exit code of a child process.
Codes == {"Allowed", "UserNotFound", "InvalidPassword", "ExpiredPassword", "Other"}
Statuses == Codes \cup {"Error"}

\* at:    "idle" between calls, "chain" in Gate::authenticate, "fork" before
\*        and "wait" after fork, "switch" and "report" with a status
\* got:   the login in user_passwd["user"]; None for the bare struct that
\*        create_empty_user and lookup_user leave
\* kid:   the process waitpid waits for;  end: how it ended
\* at which time the password was judged (judged)
NewCall(at, id, pw, now) ==
    [at |-> at, id |-> id, pw |-> pw, m |-> 1, status |-> "Error", got |-> None,
     kid |-> "nobody", end |-> "alive", result |-> "none",
     judged |-> now]

NoCall == NewCall("idle", None, None, 0)

Kids == {"nobody", "chkpwd", "copy", "stranger"}
Ends == Codes \cup {"alive", "signal"}
Results == {"none", "PAM_SUCCESS", "PAM_AUTH_ERR", "PAM_USER_UNKNOWN",
            "EX_OK", "EX_DATAERR", "aborted"}

Return(result) == call' = [call EXCEPT !.at = "idle", !.result = result]

\* What let the user in: who got in, and on which call.
Grant(who) ==
    [who |-> who, id |-> call.id, pw |-> call.pw, judged |-> call.judged]

-----------------------------------------------------------------------------
(***************************************************************************)
(* The cache                                                               *)
(***************************************************************************)
TruncateDomain(id) == [id EXCEPT !.domain = NoDomain]

\* Gate::lookup_password
LookupPassword(id, pw) ==
    LET entry == cache[TruncateDomain(id)] IN
    IF entry = None THEN "UserNotFound"
    ELSE IF entry.key # pw THEN "InvalidPassword"
    ELSE IF InTime(entry.expire, clock) THEN "Allowed"
    ELSE "ExpiredPassword"

\* A remote method accepts, and the scopes of update_db and update_shadow_db
\* succeed.
Accept(id, pw, login) ==
    /\ cache' = [cache EXCEPT ![id] =
          [key |-> pw, expire |-> ExpireAt(expiration, clock)]]
    /\ vouched' = vouched \cup
          {[id |-> id, pw |-> pw, login |-> login, at |-> clock]}

-----------------------------------------------------------------------------
(***************************************************************************)
(* Gate::authenticate, for the front ends that run as root                 *)
(***************************************************************************)
TurnOver(status, got) ==
    call' = [call EXCEPT !.m = call.m + 1, !.status = status, !.got = got,
                         !.judged = clock]

\* The chain goes on while nothing is known.
ChainGoesOn ==
    call.m <= Len(Methods) /\ call.status \in {"Error", "UserNotFound"}

\* The local method.  lookup_user and the exceptions it survives leave a bare
\* struct in any case.
LocalTurn ==
    /\ call.at = "chain" /\ ChainGoesOn /\ Methods[call.m] = "local"
    /\ \/ TurnOver(LookupPassword(call.id, call.pw), call.got)
       \/ TurnOver("Error", call.got)
    /\ UNCHANGED <<world, handle>>

\* A remote method: auth_exec.  Refusals, failures to run it and scopes that
\* throw all end in Error; the response is handed out only after both scopes.
RemoteTurn ==
    /\ call.at = "chain" /\ ChainGoesOn /\ Methods[call.m] # "local"
    /\ \/ \E login \in Logins :
             /\ Accept(call.id, call.pw, login)
             /\ TurnOver("Allowed", login)
       \/ TurnOver("Error", call.got) /\ UNCHANGED <<cache, vouched>>
    /\ UNCHANGED <<clock, expiration, handle>>

ChainEnds ==
    /\ call.at = "chain" /\ ~ChainGoesOn
    /\ call' = [call EXCEPT !.at = IF front = "pam_root" THEN "switch"
                                   ELSE "report"]
    /\ UNCHANGED <<world, handle>>

-----------------------------------------------------------------------------
(***************************************************************************)
(* The child process, for the PAM module of an ordinary user               *)
(***************************************************************************)
WaitFor(kid) == call' = [call EXCEPT !.at = "wait", !.kid = kid]
StopWaiting == [call EXCEPT !.kid = "nobody", !.end = "alive"]

Fork ==
    /\ call.at = "fork"
    /\ WaitFor("chkpwd")
    /\ UNCHANGED <<world, handle>>

\* fork returned -1 and so waitpid waits for any child of the application;
\* there may be none.
ForkFails ==
    /\ call.at = "fork"
    /\ \E kid \in {"stranger", "nobody"} : WaitFor(kid)
    /\ faulty' = TRUE
    /\ UNCHANGED <<world, front, user, data, calls, granted>>

\* execl failed: the child returns from pam_sm_authenticate too, a second copy
\* of the application, for whose end the first one waits.
ExecFails ==
    /\ call.at = "fork"
    /\ WaitFor("copy")
    /\ faulty' = TRUE
    /\ UNCHANGED <<world, front, user, data, calls, granted>>

\* The child ends: the command chkpwd with the status of lookup_password, or
\* with EX_NOPERM on a terminal, with EX_DATAERR without databases or by the
\* signal of an uncaught exception; any other process as it likes.
ChildEnds ==
    /\ call.at = "wait" /\ call.end = "alive" /\ call.kid # "nobody"
    /\ \E end \in Ends \ {"alive"} :
          /\ call.kid = "chkpwd" =>
                end \in {LookupPassword(call.id, call.pw), "Other", "signal"}
          /\ call' = [call EXCEPT !.end = end, !.judged = clock]
    /\ UNCHANGED <<world, handle>>

\* waitpid returns, and the child exited or was killed.
Waited ==
    /\ call.at = "wait" /\ call.end # "alive"
    /\ \/ /\ call.end = "signal"
          /\ call' = [StopWaiting EXCEPT !.at = "idle", !.result = "PAM_AUTH_ERR"]
       \/ /\ call.end # "signal"
          /\ call' = [StopWaiting EXCEPT !.at = "switch", !.status = call.end]
    /\ UNCHANGED <<world, handle>>

\* waitpid returns -1: there is no child, the application ignores SIGCHLD, or
\* a signal interrupts the wait.  chkpwd keeps its -1, for which WIFEXITED is
\* false.
WaitFails ==
    /\ call.at = "wait"
    /\ call' = [StopWaiting EXCEPT !.at = "idle", !.result = "PAM_AUTH_ERR"]
    /\ UNCHANGED <<world, handle>>

-----------------------------------------------------------------------------
(***************************************************************************)
(* What a front end makes of a status                                      *)
(***************************************************************************)
\* The end of pam_sm_authenticate.  The results of pam_set_data and
\* pam_set_item are not looked at.  Without "user" in the struct, which is the
\* case after the local method, the statement that compares logins throws.
Switch ==
    LET accepted == call.status \in {"Allowed", "ExpiredPassword"}
        bare == front = "pam_root" /\ call.got = None
        remaps == front = "pam_root" /\ accepted /\ ~bare
    IN
    /\ call.at = "switch"
    /\ \E stored \in BOOLEAN, remapped \in BOOLEAN :
          /\ data' = IF stored THEN call.status ELSE data
          /\ user' = IF remaps /\ remapped THEN call.got ELSE user
          /\ faulty' = (faulty \/ ~stored \/ (remaps /\ ~remapped))
    /\ Return(IF accepted /\ ~bare THEN "PAM_SUCCESS"
              ELSE IF call.status = "UserNotFound" THEN "PAM_USER_UNKNOWN"
              ELSE "PAM_AUTH_ERR")
    /\ UNCHANGED <<world, front, calls, granted>>

\* The end of the commands.  su asks NSS for the login, throws without one,
\* and runs a shell for it unless NSS has no such user or fork fails.
Report ==
    /\ call.at = "report"
    /\ \/ /\ call.status # "Allowed"
          /\ Return("EX_DATAERR") /\ UNCHANGED granted
       \/ /\ call.status = "Allowed" /\ front = "auth"
          /\ Return("EX_OK") /\ granted' = Grant(call.id)
       \/ /\ call.status = "Allowed" /\ front = "su" /\ call.got = None
          /\ Return("aborted") /\ UNCHANGED granted
       \/ /\ call.status = "Allowed" /\ front = "su" /\ call.got # None
          /\ \/ Return("EX_OK") /\ granted' = Grant(call.got)
             \/ Return("EX_DATAERR") /\ UNCHANGED granted
             \/ Return("EX_OK") /\ UNCHANGED granted
    /\ UNCHANGED <<world, front, user, data, calls, faulty>>

-----------------------------------------------------------------------------
(***************************************************************************)
(* The application                                                         *)
(***************************************************************************)
\* A new handle, or a new run of a command, for the user id.
Start(id) ==
    /\ call.at = "idle" /\ calls < MaxCalls
    /\ user' = id
    /\ data' = None /\ granted' = None /\ call' = NoCall
    /\ calls' = calls + 1
    /\ faulty' = FALSE
    /\ UNCHANGED <<world, front>>

\* pam_sm_authenticate, or the command, with a password.
Authenticate(pw) ==
    /\ call.at = "idle" /\ calls < MaxCalls /\ user # None
    /\ front \in PamFronts \/ call.result = "none"
    /\ call' = NewCall(IF front \in ChainFronts THEN "chain" ELSE "fork",
                       user, pw, clock)
    /\ calls' = calls + 1
    /\ granted' = None
    /\ UNCHANGED <<world, front, user, data, faulty>>

\* pam_sm_authenticate cannot get the service, the user, the terminal or the
\* password.  The data of an earlier call stays.
ItemMissing ==
    /\ call.at = "idle" /\ calls < MaxCalls /\ user # None
    /\ front \in PamFronts
    /\ call' = [NoCall EXCEPT !.result = "PAM_AUTH_ERR"]
    /\ calls' = calls + 1
    /\ granted' = None
    /\ UNCHANGED <<world, front, user, data, faulty>>

\* pam_sm_acct_mgmt: PAM_ACCT_EXPIRED for the status ExpiredPassword, and
\* PAM_SUCCESS for any other one and without data.  The application lets the
\* user in when both functions answered PAM_SUCCESS; pam_get_user may fail.
AcctMgmt ==
    /\ call.at = "idle" /\ calls < MaxCalls /\ user # None
    /\ front \in PamFronts
    /\ calls' = calls + 1
    /\ \/ call.result = "PAM_SUCCESS" /\ data # "ExpiredPassword"
          /\ granted' = Grant(user)
       \/ UNCHANGED granted
    /\ UNCHANGED <<world, front, user, data, call, faulty>>

-----------------------------------------------------------------------------
(***************************************************************************)
(* The machine                                                             *)
(***************************************************************************)
Tick ==
    /\ clock < MaxTime
    /\ clock' = clock + 1
    /\ UNCHANGED <<expiration, cache, vouched, call, handle>>

\* Another process of root has a password accepted.
Elsewhere(id, pw, login) ==
    /\ Cardinality(vouched) < MaxVouched
    /\ Accept(id, pw, login)
    /\ UNCHANGED <<clock, expiration, call, handle>>

\* cache purge, database purge-all
Purge ==
    /\ cache' = [id \in Ids |-> None]
    /\ UNCHANGED <<clock, expiration, vouched, call, handle>>

-----------------------------------------------------------------------------
Init ==
    /\ clock = 0
    /\ expiration \in {Clamp(setting) : setting \in Settings}
    /\ cache = [id \in Ids |-> None]
    /\ front \in Fronts
    /\ user = None /\ data = None /\ call = NoCall /\ calls = 0
    /\ granted = None /\ vouched = {} /\ faulty = FALSE

Next ==
    \/ LocalTurn \/ RemoteTurn \/ ChainEnds
    \/ Fork \/ ForkFails \/ ExecFails
    \/ ChildEnds \/ Waited \/ WaitFails
    \/ Switch \/ Report
    \/ \E id \in Ids : Start(id)
    \/ \E pw \in Passwords : Authenticate(pw)
    \/ ItemMissing \/ AcctMgmt
    \/ \E id \in Ids, pw \in Passwords, login \in Logins : Elsewhere(id, pw, login)
    \/ Purge \/ Tick

Spec == Init /\ [][Next]_vars

-----------------------------------------------------------------------------
Grants ==
    [who : Ids, id : Ids, pw : Passwords, judged : 0 .. MaxTime]

\* Type invariant: an entry's expire is an int32_t.
LoginTypeOK ==
    /\ clock \in 0 .. MaxTime
    /\ expiration \in 0 .. MaxExpiration
    /\ cache \in [Ids -> [key : Passwords, expire : Int32s] \cup {None}]
    /\ front \in Fronts
    /\ user \in Ids \cup {None}
    /\ data \in Statuses \cup {None}
    /\ call \in
          [at : {"idle", "chain", "fork", "wait", "switch", "report"},
           id : Ids \cup {None}, pw : Passwords \cup {None}, m : Nat \ {0},
           status : Statuses, got : Logins \cup {None}, kid : Kids, end : Ends,
           result : Results, judged : 0 .. MaxTime]
    /\ calls \in 0 .. MaxCalls
    /\ granted \in Grants \cup {None}
    /\ vouched \subseteq [id : Ids, pw : Passwords, login : Logins, at : 0 .. MaxTime]
    /\ faulty \in BOOLEAN

(***************************************************************************)
(* Nobody gets in on a password that no remote method has accepted for the *)
(* name typed, or for this name without its domain, within the expiration  *)
(* time: whatever is retried on a handle, purged or renewed meanwhile,     *)
(* however the child ends, and also once the clock does not fit into an    *)
(* int32_t.  An expired password is PAM_SUCCESS in authenticate, and       *)
(* acct_mgmt has to catch it.  As root the one who gets in is moreover the *)
(* login that the remote method returned with its acceptance.  Excused are *)
(* failures that the module does not look at: fork, execl, pam_set_data    *)
(* and pam_set_item.                                                       *)
(***************************************************************************)
Life == Minute * expiration

Backs(v, g) ==
    /\ v.id \in {g.id, TruncateDomain(g.id)} /\ v.pw = g.pw
    /\ v.at <= g.judged
    /\ v.at = g.judged \/ g.judged < v.at + Life

GrantIsBacked ==
    granted # None /\ ~faulty =>
        \E v \in vouched :
            /\ Backs(v, granted)
            /\ front \in RootFronts => v.login = granted.who

(***************************************************************************)
(* A password that the chain of methods has accepted does not end as a     *)
(* failure of the front end, unless something else failed.  A shipped      *)
(* configuration has the method "local", which accepts the cached password *)
(* of a machine that is offline, and the commands say "Authentication      *)
(* succeeded" of it.                                                       *)
(***************************************************************************)
AcceptedIsSuccess ==
    call.at = "idle" /\ call.status = "Allowed" /\ ~faulty =>
        call.result \in {"PAM_SUCCESS", "EX_OK", "EX_DATAERR"}

=============================================================================
