---------------------------- MODULE SharedCounter ----------------------------
(***************************************************************************)
(* The counter in shared memory that tells NSS clients that the user       *)
(* database has changed: Observer::create and Observer::push, the static   *)
(* half of lib/observer.cpp.                                               *)
(*                                                                         *)
(* A push is not one instruction: it opens (and if needed creates) the     *)
(* segment, gives it its size, then loads, adds one and stores.  The       *)
(* segment itself has no lock; whoever pushes has to exclude the others.   *)
(***************************************************************************)
EXTENDS Naturals

CONSTANTS
    Procs,     \* processes that push or create
    Modulus    \* the counter is a uint32_t: 2^32

VARIABLES
    shm,       \* "absent", "unsized" (created, length 0) or "sized"
    counter,   \* the word in the segment; a fresh segment holds 0
    pushing,   \* pushing[p]: how far p's push or create has come
    loaded,    \* loaded[p]: the value p's push read
    pushes     \* history: completed pushes, modulo Modulus

shmvars == <<shm, counter, pushing, loaded, pushes>>

PushStates == {"no", "opened", "mapped", "loaded"}

ShmInit ==
    /\ shm = "absent"
    /\ counter = 0
    /\ pushing = [p \in Procs |-> "no"]
    /\ loaded = [p \in Procs |-> 0]
    /\ pushes = 0

\* shm_open with O_CREAT, first call of both create and push
shm_open(p) ==
    /\ pushing[p] = "no"
    /\ shm' = IF shm = "absent" THEN "unsized" ELSE shm
    /\ pushing' = [pushing EXCEPT ![p] = "opened"]
    /\ UNCHANGED <<counter, loaded, pushes>>

\* ftruncate to 4 bytes; it keeps the contents of a segment that has them.
shm_size(p) ==
    /\ pushing[p] = "opened"
    /\ shm' = "sized"
    /\ pushing' = [pushing EXCEPT ![p] = "mapped"]
    /\ UNCHANGED <<counter, loaded, pushes>>

\* Observer::create ends here.
create_done(p) ==
    /\ pushing[p] = "mapped"
    /\ pushing' = [pushing EXCEPT ![p] = "no"]
    /\ UNCHANGED <<shm, counter, loaded, pushes>>

\* *ptr = *ptr + 1: the load ...
push_load(p) ==
    /\ pushing[p] = "mapped"
    /\ loaded' = [loaded EXCEPT ![p] = counter]
    /\ pushing' = [pushing EXCEPT ![p] = "loaded"]
    /\ UNCHANGED <<shm, counter, pushes>>

\* ... and the store.
push_store(p) ==
    /\ pushing[p] = "loaded"
    /\ counter' = (loaded[p] + 1) % Modulus
    /\ pushing' = [pushing EXCEPT ![p] = "no"]
    /\ loaded' = [loaded EXCEPT ![p] = 0]
    /\ pushes' = (pushes + 1) % Modulus
    /\ UNCHANGED shm

\* The process dies in the middle.
shm_kill(p) ==
    /\ pushing' = [pushing EXCEPT ![p] = "no"]
    /\ loaded' = [loaded EXCEPT ![p] = 0]
    /\ UNCHANGED <<shm, counter, pushes>>

ShmTypeOK ==
    /\ shm \in {"absent", "unsized", "sized"}
    /\ counter \in 0 .. Modulus - 1
    /\ pushing \in [Procs -> PushStates]
    /\ loaded \in [Procs -> 0 .. Modulus - 1]
    /\ pushes \in 0 .. Modulus - 1

(***************************************************************************)
(* No push is lost: the counter has moved once per completed push, so a    *)
(* client that compares it with an older value sees every change.          *)
(***************************************************************************)
EveryPushCounts == counter = pushes

=============================================================================
