----------------------------- MODULE Nss_proofs ------------------------------
(***************************************************************************)
(* Proofs about Nss, for any writers, documents and bounds, and for one or *)
(* both families of functions.                                             *)
(***************************************************************************)
EXTENDS Nss, TLAPS

DBP == INSTANCE FileDB_proofs

CallRecs ==
    [op : {"none", "setent", "lookup"}, at : Places, of : Lists,
     got : Docs \cup {None, Empty}]

\* What a call is about to put into its list has been read.
CallsOK ==
    /\ call \in [Families -> CallRecs]
    /\ \A f \in Families : call[f].at \in {"clear", "fill"} => call[f].got \in Arrays

\* A call has a stream only in its scope, and unlocks it after the read.
StreamsOK ==
    \A f \in Families :
        /\ stream[f].at # "closed" => call[f].at = "load"
        /\ stream[f].at = "unlocked" => stream[f].got # None

Filling(f, l) == f \in Families /\ call[f].at = "fill" /\ call[f].of = l

\* A list grows once for each call that has cleared it.
ListsOK ==
    /\ list \in [Lists -> Seq(STRING)]
    /\ \A l \in Lists : Len(list[l]) <= 2 * MaxLen
    /\ \A l \in Lists : \A f \in Families :
          Filling(f, l) => Len(list[l]) <= MaxLen
    /\ \A l \in Lists : \A f, g \in Families :
          f # g /\ Filling(f, l) /\ Filling(g, l) => Len(list[l]) = 0

IndexesOK ==
    /\ index \in [Lists -> -1 .. 2 * MaxLen + 1]
    /\ enumerating \in [Lists -> BOOLEAN]
    /\ replaced \in [Lists -> BOOLEAN]
    /\ \A f \in Families :
          enumerating[f] /\ ~replaced[f] => index[f] \in 0 .. Len(list[f])

OthersOK ==
    /\ writer \in [Writers -> Jobs]
    /\ sessions \in 0 .. MaxSessions
    /\ kills \in 0 .. MaxKills
    /\ mapped \in BOOLEAN
    /\ current \in 0 .. UINT_MAX
    /\ alive \in BOOLEAN
    /\ excuse \subseteq Excuses

NInv ==
    /\ DBP!IInv
    /\ Obs!ShmTypeOK
    /\ CallsOK /\ StreamsOK /\ ListsOK /\ IndexesOK /\ OthersOK

-----------------------------------------------------------------------------
(***************************************************************************)
(* The database files                                                      *)
(***************************************************************************)
LEMMA DBAssumption == DB!DistinctContents /\ DBP!DistinctContents
BY NssAssumptions DEF DB!DistinctContents, DBP!DistinctContents, Files, Docs

LEMMA SameNext == DB!DBNext <=> DBP!DBNext
BY DEF DB!DBNext, DBP!DBNext, DB!Scope, DBP!Scope, DB!open, DBP!open,
       DB!create, DBP!create, DB!lock_read, DBP!lock_read,
       DB!lock_write, DBP!lock_write, DB!read, DBP!read, DB!write, DBP!write,
       DB!unlock, DBP!unlock, DB!close, DBP!close, DB!kill, DBP!kill,
       DB!exists, DBP!exists, DB!NoStream, DBP!NoStream,
       DB!HeldByOther, DBP!HeldByOther, DB!Contents, DBP!Contents,
       DB!Owes, DBP!Owes

LEMMA SameTypes == DB!DBTypeOK <=> DBP!DBTypeOK
BY DEF DB!DBTypeOK, DBP!DBTypeOK, DB!Streams, DBP!Streams, DB!StreamAt, DBP!StreamAt

\* Families and writers are processes of FileDB, and they are not the same.
LEMMA ProcsFacts ==
    /\ \A w \in Writers : w \in Procs /\ w \notin Families
    /\ \A f \in Families : f \in Procs /\ f \in Lists /\ f \notin Writers
    /\ "user" \in Files /\ <<>> \in Docs /\ Bare \in Docs /\ Arrays \subseteq Docs
BY NssAssumptions DEF Procs, Files, Lists, Docs

WriterMoves(w) ==
    \/ BeginWrite(w, "update") \/ BeginWrite(w, "purge") \/ BeginCreate(w)
    \/ CreateFile(w) \/ OpenNext(w) \/ LockWrite(w) \/ ReadOld(w) \/ WriteNew(w)
    \/ PushCounter(w) \/ ObserverCreate(w) \/ UnlockWrite(w) \/ CloseWrite(w)
    \/ KillWriter(w)

CallMoves(f) ==
    \/ setent(f) \/ getent(f) \/ lookup(f) \/ Race(f)
    \/ changed(f) \/ take_counter(f) \/ LoadScope(f) \/ LoadDone(f)
    \/ ClearList(f) \/ FillList(f) \/ Return(f)

\* A step is one of a writer, one of a call, or none.
LEMMA StepCases ==
    ASSUME [Next]_vars
    PROVE  \/ \E w \in Writers : WriterMoves(w)
           \/ \E f \in Families : CallMoves(f)
           \/ UNCHANGED vars
BY DEF Next, WriterStep, CallStep, WriterMoves, CallMoves

LEMMA WriterDBStep ==
    ASSUME NEW w \in Writers, WriterMoves(w)
    PROVE  DB!DBNext \/ UNCHANGED dbvars
<1>1. /\ w \in Procs /\ "user" \in Files
      /\ <<>> \in Docs /\ Bare \in Docs /\ Arrays \subseteq Docs
  BY ProcsFacts
<1>2. CASE BeginWrite(w, "update") \/ BeginWrite(w, "purge") \/ OpenNext(w)
  BY <1>1, <1>2 DEF BeginWrite, OpenNext, DB!DBNext
<1>7. CASE CreateFile(w)
  BY <1>1, <1>7 DEF CreateFile, DB!DBNext
<1>3. CASE WriteNew(w)
  BY <1>1, <1>3 DEF WriteNew, DB!DBNext, DB!Scope
<1>4. CASE LockWrite(w) \/ ReadOld(w) \/ UnlockWrite(w) \/ CloseWrite(w)
  BY <1>1, <1>4 DEF LockWrite, ReadOld, UnlockWrite, CloseWrite, DB!DBNext, DB!Scope
<1>5. CASE PushCounter(w) \/ ObserverCreate(w) \/ BeginCreate(w)
  BY <1>5 DEF PushCounter, ObserverCreate, BeginCreate
<1>6. CASE KillWriter(w)
  BY <1>1, <1>6 DEF KillWriter, DB!DBNext
<1> QED
  BY <1>2, <1>3, <1>4, <1>5, <1>6, <1>7 DEF WriterMoves

LEMMA CallDBStep ==
    ASSUME NEW f \in Families, CallMoves(f)
    PROVE  DB!DBNext \/ UNCHANGED dbvars
<1>1. f \in Procs /\ "user" \in Files
  BY ProcsFacts
<1>2. CASE LoadScope(f)
  BY <1>1, <1>2 DEF LoadScope, DB!DBNext, DB!Scope
<1>3. CASE LoadDone(f)
  BY <1>1, <1>3 DEF LoadDone, DB!DBNext, DB!Scope
<1>4. CASE \/ setent(f) \/ getent(f) \/ lookup(f) \/ Race(f) \/ changed(f)
           \/ take_counter(f) \/ ClearList(f) \/ FillList(f) \/ Return(f)
  BY <1>4 DEF setent, getent, lookup, Race, changed, take_counter, ClearList,
     FillList, Return
<1> QED
  BY <1>2, <1>3, <1>4 DEF CallMoves

LEMMA StepDBInv ==
    ASSUME NInv, [Next]_vars
    PROVE  [DB!DBNext]_dbvars /\ DBP!IInv'
<1>1. DB!DBNext \/ UNCHANGED dbvars
  BY StepCases, WriterDBStep, CallDBStep DEF vars
<1>2. DBP!IInv /\ [DBP!DBNext]_(DBP!dbvars) => DBP!IInv'
  BY DBP!NextIInv, DBAssumption
<1>3. UNCHANGED dbvars => UNCHANGED DBP!dbvars
  BY DEF dbvars, DBP!dbvars
<1> QED
  BY <1>1, <1>2, <1>3, SameNext DEF NInv

-----------------------------------------------------------------------------
(***************************************************************************)
(* The counter                                                             *)
(***************************************************************************)
LEMMA WordFacts ==
    /\ 0 \in 0 .. Modulus - 1 /\ UINT_MAX \in 0 .. UINT_MAX /\ 0 \in 0 .. UINT_MAX
    /\ \A x \in 0 .. Modulus - 1 : (x + 1) % Modulus \in 0 .. Modulus - 1
BY NssAssumptions DEF UINT_MAX

LEMMA ShmStepType ==
    ASSUME Obs!ShmTypeOK, NEW w \in Procs,
           \/ Obs!shm_open(w) \/ Obs!shm_size(w) \/ Obs!push_load(w)
           \/ Obs!push_store(w) \/ Obs!create_done(w) \/ Obs!shm_kill(w)
    PROVE  Obs!ShmTypeOK'
<1> USE DEF Obs!ShmTypeOK, Obs!PushStates
<1>1. CASE \/ Obs!shm_open(w) \/ Obs!shm_size(w) \/ Obs!push_load(w)
           \/ Obs!create_done(w)
  BY <1>1 DEF Obs!shm_open, Obs!shm_size, Obs!push_load, Obs!create_done
<1>2. CASE Obs!push_store(w)
  <2>1. counter' = (loaded[w] + 1) % Modulus /\ pushes' = (pushes + 1) % Modulus
    BY <1>2 DEF Obs!push_store
  <2>2. counter' \in 0 .. Modulus - 1 /\ pushes' \in 0 .. Modulus - 1
    BY <2>1, WordFacts
  <2> QED
    BY <1>2, <2>2, WordFacts DEF Obs!push_store
<1>3. CASE Obs!shm_kill(w)
  BY <1>3, WordFacts DEF Obs!shm_kill
<1> QED
  BY <1>1, <1>2, <1>3

LEMMA StepShmType ==
    ASSUME NInv, [Next]_vars
    PROVE  Obs!ShmTypeOK'
<1>1. Obs!ShmTypeOK
  BY DEF NInv
<1>2. ASSUME UNCHANGED shmvars PROVE Obs!ShmTypeOK'
  BY <1>1, <1>2 DEF shmvars, Obs!ShmTypeOK
<1>3. ASSUME NEW w \in Writers, WriterMoves(w)
      PROVE  Obs!ShmTypeOK'
  <2>1. w \in Procs
    BY ProcsFacts
  <2>2. CASE PushCounter(w) \/ ObserverCreate(w) \/ KillWriter(w)
    BY <1>1, <2>1, <2>2, ShmStepType DEF PushCounter, ObserverCreate, KillWriter
  <2>3. CASE ~ (PushCounter(w) \/ ObserverCreate(w) \/ KillWriter(w))
    BY <1>2, <1>3, <2>3 DEF WriterMoves, BeginWrite, BeginCreate, CreateFile, OpenNext,
       LockWrite, ReadOld, WriteNew, UnlockWrite, CloseWrite
  <2> QED
    BY <2>2, <2>3
<1>4. ASSUME NEW f \in Families, CallMoves(f)
      PROVE  UNCHANGED shmvars
  BY <1>4 DEF CallMoves, setent, getent, lookup, Race, changed, take_counter,
     LoadScope, LoadDone, ClearList, FillList, Return
<1>5. UNCHANGED vars => UNCHANGED shmvars
  BY DEF vars
<1> QED
  BY <1>2, <1>3, <1>4, <1>5, StepCases

-----------------------------------------------------------------------------
(***************************************************************************)
(* The calls and their streams                                             *)
(***************************************************************************)
\* What the writers leave alone.
LEMMA WriterKeeps ==
    ASSUME NInv, NEW w \in Writers, WriterMoves(w)
    PROVE  /\ UNCHANGED <<call, list, index, enumerating, replaced, mapped, current, alive>>
           /\ \A f \in Families : stream'[f] = stream[f]
<1>1. UNCHANGED <<call, list, index, enumerating, replaced, mapped, current, alive>>
  BY DEF WriterMoves, BeginWrite, BeginCreate, CreateFile, OpenNext, LockWrite, ReadOld,
     WriteNew, PushCounter, ObserverCreate, UnlockWrite, CloseWrite, KillWriter,
     listvars, observervars
<1>2. \A f \in Families : f # w /\ f \in Procs
  BY ProcsFacts
<1>3. DOMAIN stream = Procs
  BY DEF NInv, DBP!IInv, DBP!DBTypeOK
<1>4. CASE BeginWrite(w, "update") \/ BeginWrite(w, "purge") \/ OpenNext(w)
  BY <1>1, <1>2, <1>3, <1>4 DEF BeginWrite, OpenNext, DB!open
<1>9. CASE CreateFile(w)
  BY <1>1, <1>2, <1>3, <1>9 DEF CreateFile, DB!create
<1>5. CASE WriteNew(w)
  BY <1>1, <1>2, <1>3, <1>5 DEF WriteNew, DB!write
<1>6. CASE LockWrite(w) \/ ReadOld(w) \/ UnlockWrite(w)
  BY <1>1, <1>2, <1>3, <1>6 DEF LockWrite, ReadOld, UnlockWrite, DB!lock_write, DB!read, DB!unlock
<1>7. CASE CloseWrite(w) \/ KillWriter(w)
  BY <1>1, <1>2, <1>3, <1>7 DEF CloseWrite, KillWriter, DB!close, DB!kill, dbvars
<1>8. CASE PushCounter(w) \/ ObserverCreate(w) \/ BeginCreate(w)
  BY <1>1, <1>8 DEF PushCounter, ObserverCreate, BeginCreate, dbvars
<1> QED
  BY <1>1, <1>4, <1>5, <1>6, <1>7, <1>8, <1>9 DEF WriterMoves

LEMMA CallFacts ==
    ASSUME NInv, NEW f \in Families
    PROVE  /\ call[f] \in CallRecs /\ call[f].op \in {"none", "setent", "lookup"}
           /\ call[f].at \in Places /\ call[f].of \in Lists
           /\ call[f].got \in Docs \cup {None, Empty}
           /\ DOMAIN call = Families
BY DEF NInv, CallsOK, CallRecs

LEMMA StreamFacts ==
    ASSUME NInv, NEW f \in Families
    PROVE  /\ stream \in [Procs -> DBP!Streams] /\ stream[f] \in DBP!Streams
           /\ stream[f].got \in Docs \cup {None, Empty}
           /\ f \in Procs /\ DOMAIN stream = Procs
<1>1. f \in Procs
  BY ProcsFacts
<1>2. stream \in [Procs -> DBP!Streams]
  BY DEF NInv, DBP!IInv, DBP!DBTypeOK
<1> QED
  BY <1>1, <1>2 DEF DBP!Streams

\* The next record of a call: each action gives one of these.
LEMMA NewCallType ==
    ASSUME NInv, NEW f \in Families, NEW c \in CallRecs,
           call' = [call EXCEPT ![f] = c],
           c.at \in {"clear", "fill"} => c.got \in Arrays
    PROVE  CallsOK' /\ call'[f] = c /\ \A g \in Families \ {f} : call'[g] = call[g]
<1>1. call \in [Families -> CallRecs]
  BY DEF NInv, CallsOK
<1>2. call'[f] = c /\ \A g \in Families \ {f} : call'[g] = call[g]
  BY <1>1
<1>3. call' \in [Families -> CallRecs]
  BY <1>1
<1>4. \A g \in Families : call'[g].at \in {"clear", "fill"} => call'[g].got \in Arrays
  BY <1>2 DEF NInv, CallsOK
<1> QED
  BY <1>2, <1>3, <1>4 DEF CallsOK

LEMMA GoToType ==
    ASSUME NInv, NEW f \in Families, NEW place \in Places, GoTo(f, place),
           place = "fill" => call[f].at = "clear", place # "clear"
    PROVE  /\ CallsOK' /\ \A g \in Families \ {f} : call'[g] = call[g]
           /\ call'[f].at = place /\ call'[f].op = call[f].op
           /\ call'[f].of = call[f].of
<1> DEFINE c == [call[f] EXCEPT !.at = place]
<1>1. /\ c \in CallRecs /\ c.at = place /\ c.got = call[f].got
      /\ c.op = call[f].op /\ c.of = call[f].of
  BY CallFacts DEF CallRecs
<1>2. call' = [call EXCEPT ![f] = c]
  BY DEF GoTo
<1>3. c.at \in {"clear", "fill"} => c.got \in Arrays
  BY <1>1 DEF NInv, CallsOK
<1> HIDE DEF c
<1> QED
  BY <1>1, <1>2, <1>3, NewCallType

LEMMA NoCallFacts ==
    /\ NoCall \in CallRecs /\ NoCall.at = "idle" /\ NoCall.of = "group" /\ NoCall.got = None
    /\ \A op \in {"setent", "lookup"} :
          LET c == [NoCall EXCEPT !.op = op, !.at = "changed"] IN
          c \in CallRecs /\ c.at = "changed" /\ c.op = op
BY DEF NoCall, CallRecs, Places, Lists

\* The places at which a call has no stream: it keeps the invariant by
\* leaving them only for one another.
LEMMA QuietStreams ==
    ASSUME NInv, NEW f \in Families, UNCHANGED stream,
           \A g \in Families \ {f} : call'[g] = call[g],
           call[f].at = "load" => call'[f].at = "load"
    PROVE  StreamsOK'
BY DEF NInv, StreamsOK

LEMMA BeginCalls ==
    ASSUME NInv, NEW f \in Families, setent(f) \/ lookup(f)
    PROVE  CallsOK' /\ StreamsOK' /\ call[f].at = "idle" /\ call'[f].at = "changed"
           /\ \A g \in Families \ {f} : call'[g] = call[g]
<1>1. PICK op \in {"setent", "lookup"} :
          call' = [call EXCEPT ![f] = [NoCall EXCEPT !.op = op, !.at = "changed"]]
  BY DEF setent, lookup
<1>2. call[f].at = "idle" /\ UNCHANGED stream
  BY DEF setent, lookup, dbvars
<1> DEFINE c == [NoCall EXCEPT !.op = op, !.at = "changed"]
<1>3. c \in CallRecs /\ c.at = "changed"
  BY NoCallFacts
<1> HIDE DEF c
<1>4. /\ CallsOK' /\ call'[f] = c
      /\ \A g \in Families \ {f} : call'[g] = call[g]
  BY <1>1, <1>3, NewCallType DEF c
<1> QED
  BY <1>2, <1>3, <1>4, QuietStreams

LEMMA ChangedCalls ==
    ASSUME NInv, NEW f \in Families, changed(f) \/ take_counter(f)
    PROVE  CallsOK' /\ StreamsOK'
           /\ call[f].at \in {"changed", "counter"}
           /\ call'[f].at \notin {"clear", "fill"}
           /\ \A g \in Families \ {f} : call'[g] = call[g]
<1>1. call[f].at \in {"changed", "counter"} /\ UNCHANGED stream
  BY DEF changed, take_counter, dbvars
<1>2. \/ \E place \in {"failed", "load", "updated", "counter"} : GoTo(f, place)
      \/ UNCHANGED call
  BY DEF changed, take_counter, BeginLoad
<1>3. CASE UNCHANGED call
  BY <1>1, <1>3, QuietStreams DEF NInv, CallsOK
<1>4. ASSUME NEW place \in {"failed", "load", "updated", "counter"}, GoTo(f, place)
      PROVE  /\ CallsOK' /\ call'[f].at = place
             /\ \A g \in Families \ {f} : call'[g] = call[g]
  <2>1. place \in Places /\ place # "fill" /\ place # "clear"
    BY DEF Places
  <2> QED
    BY <1>4, <2>1, GoToType
<1> QED
  BY <1>1, <1>2, <1>3, <1>4, QuietStreams

LEMMA ScopeCalls ==
    ASSUME NInv, NEW f \in Families, LoadScope(f)
    PROVE  CallsOK' /\ StreamsOK' /\ UNCHANGED call
<1>1. UNCHANGED call /\ f \in Procs /\ DOMAIN stream = Procs
  BY StreamFacts DEF LoadScope
<1>2. CallsOK'
  BY <1>1 DEF NInv, CallsOK
<1>3. /\ \A g \in Families \ {f} : stream'[g] = stream[g]
      /\ stream'[f].at # "closed" => call[f].at = "load"
      /\ stream'[f].at = "unlocked" => stream'[f].got # None
  <2>1. CASE call[f].at = "load" /\ DB!open(f, "user", "r")
    BY <1>1, <2>1 DEF DB!open, DB!NoStream
  <2>2. CASE DB!lock_read(f)
    BY <1>1, <2>2, StreamFacts DEF DB!lock_read, NInv, StreamsOK, DBP!Streams
  <2>3. CASE DB!read(f)
    BY <1>1, <2>3, StreamFacts DEF DB!read, NInv, StreamsOK, DBP!Streams
  <2>4. CASE stream[f].got # None /\ DB!unlock(f)
    BY <1>1, <2>4, StreamFacts DEF DB!unlock, NInv, StreamsOK, DBP!Streams
  <2> QED
    BY <2>1, <2>2, <2>3, <2>4 DEF LoadScope
<1> QED
  BY <1>1, <1>2, <1>3 DEF NInv, StreamsOK

LEMMA LoadDoneCalls ==
    ASSUME NInv, NEW f \in Families, LoadDone(f)
    PROVE  CallsOK' /\ StreamsOK' /\ call[f].at = "load"
           /\ call'[f].at \in {"failed", "clear"}
           /\ \A g \in Families \ {f} : call'[g] = call[g]
<1> DEFINE got == stream[f].got
           place == IF got \in {Empty, Bare} THEN "failed" ELSE "clear"
           c == [call[f] EXCEPT !.at = place, !.got = got]
<1>1. stream[f].at = "unlocked" /\ stream' = [stream EXCEPT ![f] = DB!NoStream]
  BY DEF LoadDone, DB!close
<1>2. call[f].at = "load" /\ got \in Docs \cup {Empty}
  BY <1>1, StreamFacts DEF NInv, StreamsOK
<1>3. place \in Places /\ place \in {"failed", "clear"}
  BY DEF Places
<1>4. c \in CallRecs /\ c.at = place /\ c.got = got
  BY <1>2, <1>3, CallFacts DEF CallRecs
<1>5. call' = [call EXCEPT ![f] = c]
  BY DEF LoadDone, Threw
<1>6. c.at \in {"clear", "fill"} => c.got \in Arrays
  BY <1>2, <1>4 DEF Docs
<1> HIDE DEF c
<1>7. CallsOK' /\ call'[f] = c /\ \A g \in Families \ {f} : call'[g] = call[g]
  BY <1>4, <1>5, <1>6, NewCallType
<1>8. stream'[f].at = "closed" /\ \A g \in Families \ {f} : stream'[g] = stream[g]
  BY <1>1, StreamFacts DEF DB!NoStream
<1>9. StreamsOK'
  BY <1>7, <1>8 DEF NInv, StreamsOK
<1> QED
  BY <1>2, <1>3, <1>4, <1>7, <1>9

LEMMA ClearCalls ==
    ASSUME NInv, NEW f \in Families, ClearList(f)
    PROVE  CallsOK' /\ StreamsOK'
           /\ call[f].at = "clear" /\ call'[f].at = "fill" /\ call'[f].of = call[f].of
           /\ \A g \in Families \ {f} : call'[g] = call[g]
<1>1. call[f].at = "clear" /\ GoTo(f, "fill") /\ UNCHANGED stream /\ "fill" \in Places
  BY DEF ClearList, dbvars, Places
<1>2. /\ CallsOK' /\ call'[f].at = "fill" /\ call'[f].of = call[f].of
      /\ \A g \in Families \ {f} : call'[g] = call[g]
  BY <1>1, GoToType
<1> QED
  BY <1>1, <1>2, QuietStreams

LEMMA FillCalls ==
    ASSUME NInv, NEW f \in Families, FillList(f)
    PROVE  CallsOK' /\ StreamsOK'
           /\ call[f].at = "fill" /\ call'[f].at \in {"load", "updated"}
           /\ \A g \in Families \ {f} : call'[g] = call[g]
<1> DEFINE place == IF call[f].of = "group" THEN "load" ELSE "updated"
           c == [call[f] EXCEPT !.of = "passwd", !.got = None, !.at = place]
<1>1. call[f].at = "fill" /\ UNCHANGED stream
  BY DEF FillList, dbvars
<1>2. place \in Places /\ place \in {"load", "updated"} /\ "passwd" \in Lists
  BY DEF Places, Lists
<1>3. c \in CallRecs /\ c.at = place
  BY <1>2, CallFacts DEF CallRecs
<1>4. call' = [call EXCEPT ![f] = c]
  BY DEF FillList
<1> HIDE DEF c
<1>5. CallsOK' /\ call'[f] = c /\ \A g \in Families \ {f} : call'[g] = call[g]
  BY <1>2, <1>3, <1>4, NewCallType
<1> QED
  BY <1>1, <1>2, <1>3, <1>5, QuietStreams

LEMMA ReturnCalls ==
    ASSUME NInv, NEW f \in Families, Return(f)
    PROVE  CallsOK' /\ StreamsOK'
           /\ call[f].at \in {"failed", "updated"} /\ call'[f].at = "idle"
           /\ \A g \in Families \ {f} : call'[g] = call[g]
<1>1. /\ call[f].at \in {"failed", "updated"} /\ UNCHANGED stream
      /\ call' = [call EXCEPT ![f] = NoCall]
  BY DEF Return, dbvars
<1>2. CallsOK' /\ call'[f] = NoCall /\ \A g \in Families \ {f} : call'[g] = call[g]
  BY <1>1, NoCallFacts, NewCallType
<1> QED
  BY <1>1, <1>2, NoCallFacts, QuietStreams

LEMMA StepCalls ==
    ASSUME NInv, [Next]_vars
    PROVE  CallsOK' /\ StreamsOK'
<1>1. ASSUME UNCHANGED call, \A f \in Families : stream'[f] = stream[f]
      PROVE  CallsOK' /\ StreamsOK'
  BY <1>1 DEF NInv, CallsOK, StreamsOK
<1>2. ASSUME NEW w \in Writers, WriterMoves(w)
      PROVE  CallsOK' /\ StreamsOK'
  BY <1>1, <1>2, WriterKeeps
<1>3. UNCHANGED vars => CallsOK' /\ StreamsOK'
  BY <1>1 DEF vars, dbvars
<1>4. ASSUME NEW f \in Families, getent(f) \/ Race(f)
      PROVE  CallsOK' /\ StreamsOK'
  BY <1>1, <1>4 DEF getent, Race, dbvars
<1> QED
  BY <1>2, <1>3, <1>4, StepCases, BeginCalls, ChangedCalls, ScopeCalls, LoadDoneCalls,
     ClearCalls, FillCalls, ReturnCalls DEF CallMoves

-----------------------------------------------------------------------------
(***************************************************************************)
(* The lists                                                               *)
(***************************************************************************)
LEMMA DocFacts ==
    ASSUME NEW doc \in Arrays
    PROVE  doc \in Seq(STRING) /\ Len(doc) \in Nat /\ Len(doc) <= MaxLen
<1>1. doc \in Seq(STRING) /\ Len(doc) <= MaxLen
  BY NssAssumptions
<1> QED
  BY <1>1

LEMMA LenFacts ==
    ASSUME NInv, NEW l \in Lists
    PROVE  list[l] \in Seq(STRING) /\ Len(list[l]) \in Nat
<1>1. list[l] \in Seq(STRING)
  BY DEF NInv, ListsOK
<1> QED
  BY <1>1

\* No list changes, and no call gets to its push_backs.
LEMMA QuietLists ==
    ASSUME NInv, UNCHANGED list,
           \A f \in Families : call'[f].at = "fill" => call'[f] = call[f]
    PROVE  ListsOK'
BY DEF NInv, ListsOK, Filling

LEMMA ClearLists ==
    ASSUME NInv, NEW f \in Families, ClearList(f)
    PROVE  ListsOK'
<1> DEFINE l == call[f].of
<1>1. /\ call[f].at = "clear" /\ call'[f].at = "fill" /\ call'[f].of = l
      /\ \A g \in Families \ {f} : call'[g] = call[g]
  BY ClearCalls
<1>2. l \in Lists /\ list \in [Lists -> Seq(STRING)] /\ MaxLen \in Nat
  BY CallFacts, NssAssumptions DEF NInv, ListsOK
<1>3. list' = [list EXCEPT ![l] = <<>>]
  BY DEF ClearList
<1> HIDE DEF l
<1>4. list'[l] = <<>> /\ \A k \in Lists \ {l} : list'[k] = list[k]
  BY <1>2, <1>3
<1>5. list' \in [Lists -> Seq(STRING)] /\ Len(<<>>) = 0
  BY <1>2, <1>3
<1>6. ASSUME NEW k \in Lists
      PROVE  \/ list'[k] = <<>> /\ Len(list'[k]) = 0
             \/ list'[k] = list[k] /\ \A g \in Families : Filling(g, k)' => Filling(g, k)
  <2>1. CASE k = l
    BY <1>4, <1>5, <2>1
  <2>2. CASE k # l
    <3>1. list'[k] = list[k]
      BY <1>4, <2>2
    <3>2. ASSUME NEW g \in Families, Filling(g, k)' PROVE Filling(g, k)
      BY <1>1, <2>2, <3>2 DEF Filling
    <3> QED
      BY <3>1, <3>2
  <2> QED
    BY <2>1, <2>2
<1>7. ASSUME NEW k \in Lists PROVE Len(list'[k]) <= 2 * MaxLen
  BY <1>2, <1>6 DEF NInv, ListsOK
<1>8. ASSUME NEW k \in Lists, NEW g \in Families, Filling(g, k)'
      PROVE  Len(list'[k]) <= MaxLen
  BY <1>2, <1>6, <1>8 DEF NInv, ListsOK
<1>9. ASSUME NEW k \in Lists, NEW g \in Families, NEW h \in Families,
             g # h, Filling(g, k)', Filling(h, k)'
      PROVE  Len(list'[k]) = 0
  BY <1>6, <1>9 DEF NInv, ListsOK
<1> QED
  BY <1>5, <1>7, <1>8, <1>9 DEF ListsOK

LEMMA FillLists ==
    ASSUME NInv, NEW f \in Families, FillList(f)
    PROVE  ListsOK'
<1> DEFINE l == call[f].of
           doc == call[f].got
           after == list[l] \o doc
<1>1. /\ call[f].at = "fill" /\ call'[f].at # "fill"
      /\ \A g \in Families \ {f} : call'[g] = call[g]
  BY FillCalls
<1>2. l \in Lists /\ list \in [Lists -> Seq(STRING)] /\ MaxLen \in Nat
  BY CallFacts, NssAssumptions DEF NInv, ListsOK
<1>3. doc \in Seq(STRING) /\ Len(doc) \in Nat /\ Len(doc) <= MaxLen
  <2>1. doc \in Arrays
    BY <1>1 DEF NInv, CallsOK
  <2> QED
    BY <2>1, DocFacts
<1>4. list' = [list EXCEPT ![l] = after]
  BY DEF FillList
<1>5. Filling(f, l)
  BY <1>1 DEF Filling
<1>6. /\ list[l] \in Seq(STRING) /\ Len(list[l]) \in Nat
      /\ Len(list[l]) <= MaxLen
      /\ \A g \in Families \ {f} : Filling(g, l) => Len(list[l]) = 0
  BY <1>2, <1>5, LenFacts DEF NInv, ListsOK
<1> HIDE DEF l, doc
<1>7. after \in Seq(STRING) /\ Len(after) = Len(list[l]) + Len(doc)
  BY <1>3, <1>6
<1> HIDE DEF after
<1>8. list'[l] = after /\ \A k \in Lists \ {l} : list'[k] = list[k]
  BY <1>2, <1>4
<1>9. list' \in [Lists -> Seq(STRING)]
  BY <1>2, <1>4, <1>7
<1>10. \A k \in Lists : \A g \in Families : Filling(g, k)' => g # f /\ Filling(g, k)
  BY <1>1 DEF Filling
<1>11. \A k \in Lists : Len(list'[k]) <= 2 * MaxLen
  BY <1>2, <1>3, <1>6, <1>7, <1>8 DEF NInv, ListsOK
<1>12. ASSUME NEW k \in Lists, NEW g \in Families, Filling(g, k)'
       PROVE  Len(list'[k]) <= MaxLen
  <2>1. CASE k = l
    BY <1>2, <1>3, <1>6, <1>7, <1>8, <1>10, <1>12, <2>1
  <2>2. CASE k # l
    BY <1>8, <1>10, <1>12, <2>2 DEF NInv, ListsOK
  <2> QED
    BY <2>1, <2>2
<1>13. ASSUME NEW k \in Lists, NEW g \in Families, NEW h \in Families,
              g # h, Filling(g, k)', Filling(h, k)'
       PROVE  Len(list'[k]) = 0
  <2>1. g \in {"group", "passwd"} /\ h \in {"group", "passwd"} /\ f \in {"group", "passwd"}
    BY NssAssumptions
  <2>2. g # f /\ h # f
    BY <1>10, <1>13
  <2> QED
    BY <1>13, <2>1, <2>2
<1> QED
  BY <1>9, <1>11, <1>12, <1>13 DEF ListsOK

\* What the other steps of a call do to the lists and to the way there.
LEMMA OtherCallsKeepLists ==
    ASSUME NInv, NEW f \in Families, CallMoves(f), ~ ClearList(f), ~ FillList(f)
    PROVE  UNCHANGED list
           /\ \A g \in Families : call'[g].at = "fill" => call'[g] = call[g]
<1>1. CASE setent(f) \/ lookup(f)
  BY <1>1, BeginCalls DEF setent, lookup, listvars
<1>2. CASE getent(f) \/ Race(f)
  BY <1>2 DEF getent, Race, listvars
<1>3. CASE changed(f) \/ take_counter(f)
  BY <1>3, ChangedCalls DEF changed, take_counter, listvars
<1>4. CASE LoadScope(f)
  BY <1>4 DEF LoadScope, listvars
<1>5. CASE LoadDone(f)
  BY <1>5, LoadDoneCalls DEF LoadDone, listvars
<1>6. CASE Return(f)
  BY <1>6, ReturnCalls DEF Return
<1> QED
  BY <1>1, <1>2, <1>3, <1>4, <1>5, <1>6 DEF CallMoves

LEMMA StepLists ==
    ASSUME NInv, [Next]_vars
    PROVE  ListsOK'
<1>1. ASSUME NEW w \in Writers, WriterMoves(w) PROVE ListsOK'
  BY <1>1, WriterKeeps, QuietLists
<1>2. ASSUME NEW f \in Families, CallMoves(f) PROVE ListsOK'
  BY <1>2, ClearLists, FillLists, OtherCallsKeepLists, QuietLists
<1>3. UNCHANGED vars => ListsOK'
  BY QuietLists DEF vars, listvars
<1> QED
  BY <1>1, <1>2, <1>3, StepCases

-----------------------------------------------------------------------------
(***************************************************************************)
(* The enumerations                                                        *)
(***************************************************************************)
LEMMA IndexTypes ==
    ASSUME NInv
    PROVE  /\ index \in [Lists -> -1 .. 2 * MaxLen + 1]
           /\ enumerating \in [Lists -> BOOLEAN] /\ replaced \in [Lists -> BOOLEAN]
           /\ MaxLen \in Nat /\ -1 \in -1 .. 2 * MaxLen + 1 /\ 0 \in -1 .. 2 * MaxLen + 1
BY NssAssumptions DEF NInv, IndexesOK

LEMMA SetentIndexes ==
    ASSUME NInv, NEW f \in Families, setent(f)
    PROVE  IndexesOK'
<1>1. f \in Lists
  BY ProcsFacts
<1>2. /\ index' = [index EXCEPT ![f] = -1]
      /\ enumerating' = [enumerating EXCEPT ![f] = FALSE]
      /\ list' = list /\ replaced' = replaced
  BY DEF setent
<1>3. /\ index' \in [Lists -> -1 .. 2 * MaxLen + 1]
      /\ enumerating' \in [Lists -> BOOLEAN] /\ replaced' \in [Lists -> BOOLEAN]
  BY <1>1, <1>2, IndexTypes
<1>4. ASSUME NEW g \in Families, enumerating'[g], ~ replaced'[g]
      PROVE  index'[g] \in 0 .. Len(list'[g])
  <2>1. g # f /\ g \in Lists
    BY <1>1, <1>2, <1>4, IndexTypes, ProcsFacts
  <2>2. enumerating'[g] = enumerating[g] /\ index'[g] = index[g]
    BY <1>2, <2>1, IndexTypes
  <2> QED
    BY <1>2, <1>4, <2>2 DEF NInv, IndexesOK
<1> QED
  BY <1>3, <1>4 DEF IndexesOK

LEMMA GetentIndexes ==
    ASSUME NInv, NEW f \in Families, getent(f)
    PROVE  IndexesOK'
<1>1. f \in Lists
  BY ProcsFacts
<1>2. /\ index[f] # Len(list[f]) /\ index[f] < 2 * MaxLen + 1
      /\ index' = [index EXCEPT ![f] = index[f] + 1]
      /\ list' = list /\ replaced' = replaced /\ enumerating' = enumerating
  BY DEF getent
<1>3. index[f] \in -1 .. 2 * MaxLen + 1 /\ index[f] + 1 \in -1 .. 2 * MaxLen + 1
  BY <1>1, <1>2, IndexTypes
<1>4. index' \in [Lists -> -1 .. 2 * MaxLen + 1]
  BY <1>1, <1>2, <1>3, IndexTypes
<1>5. ASSUME NEW g \in Families, enumerating'[g], ~ replaced'[g]
      PROVE  index'[g] \in 0 .. Len(list'[g])
  <2>1. g \in Lists /\ index[g] \in 0 .. Len(list[g])
    BY <1>2, <1>5, ProcsFacts DEF NInv, IndexesOK
  <2>2. Len(list[g]) \in Nat
    BY <2>1, LenFacts
  <2>3. CASE g = f
    BY <1>1, <1>2, <1>3, <2>1, <2>2, <2>3, IndexTypes
  <2>4. CASE g # f
    BY <1>2, <2>1, <2>4, IndexTypes
  <2> QED
    BY <2>3, <2>4
<1> QED
  BY <1>2, <1>4, <1>5, IndexTypes DEF IndexesOK

LEMMA ReplaceIndexes ==
    ASSUME NInv, NEW f \in Families, ClearList(f) \/ FillList(f)
    PROVE  IndexesOK'
<1> DEFINE l == call[f].of
<1>1. l \in Lists
  BY CallFacts
<1>2. /\ replaced' = [replaced EXCEPT ![l] = TRUE]
      /\ \E new : list' = [list EXCEPT ![l] = new]
      /\ index' = index /\ enumerating' = enumerating
  BY DEF ClearList, FillList
<1>3. DOMAIN list = Lists
  BY DEF NInv, ListsOK
<1> HIDE DEF l
<1>4. replaced' \in [Lists -> BOOLEAN]
  BY <1>1, <1>2, IndexTypes
<1>5. ASSUME NEW g \in Families, enumerating'[g], ~ replaced'[g]
      PROVE  index'[g] \in 0 .. Len(list'[g])
  <2>1. g \in Lists /\ g # l
    BY <1>1, <1>2, <1>5, IndexTypes, ProcsFacts
  <2>2. replaced'[g] = replaced[g] /\ list'[g] = list[g]
    BY <1>1, <1>2, <1>3, <2>1, IndexTypes
  <2> QED
    BY <1>2, <1>5, <2>2 DEF NInv, IndexesOK
<1> QED
  BY <1>2, <1>4, <1>5, IndexTypes DEF IndexesOK

LEMMA ReturnIndexes ==
    ASSUME NInv, NEW f \in Families, Return(f)
    PROVE  IndexesOK'
<1>1. f \in Lists /\ list' = list
  BY ProcsFacts DEF Return
<1>2. CASE index' = index /\ enumerating' = enumerating /\ replaced' = replaced
  BY <1>1, <1>2 DEF NInv, IndexesOK
<1>3. CASE /\ index' = [index EXCEPT ![f] = 0]
           /\ enumerating' = [enumerating EXCEPT ![f] = TRUE]
           /\ replaced' = [replaced EXCEPT ![f] = FALSE]
  <2>1. /\ index' \in [Lists -> -1 .. 2 * MaxLen + 1]
        /\ enumerating' \in [Lists -> BOOLEAN] /\ replaced' \in [Lists -> BOOLEAN]
    BY <1>1, <1>3, IndexTypes
  <2>2. ASSUME NEW g \in Families, enumerating'[g], ~ replaced'[g]
        PROVE  index'[g] \in 0 .. Len(list'[g])
    <3>1. g \in Lists /\ Len(list[g]) \in Nat
      BY ProcsFacts, LenFacts
    <3>2. CASE g = f
      BY <1>1, <1>3, <3>1, <3>2, IndexTypes
    <3>3. CASE g # f
      <4>1. enumerating'[g] = enumerating[g] /\ index'[g] = index[g]
            /\ replaced'[g] = replaced[g]
        BY <1>1, <1>3, <3>1, <3>3, IndexTypes
      <4> QED
        BY <1>1, <2>2, <4>1 DEF NInv, IndexesOK
    <3> QED
      BY <3>2, <3>3
  <2> QED
    BY <2>1, <2>2 DEF IndexesOK
<1> QED
  BY <1>2, <1>3 DEF Return

LEMMA StepIndexes ==
    ASSUME NInv, [Next]_vars
    PROVE  IndexesOK'
<1>1. ASSUME UNCHANGED listvars PROVE IndexesOK'
  BY <1>1 DEF listvars, NInv, IndexesOK
<1>2. ASSUME NEW w \in Writers, WriterMoves(w) PROVE IndexesOK'
  BY <1>1, <1>2, WriterKeeps DEF listvars
<1>3. ASSUME NEW f \in Families, CallMoves(f) PROVE IndexesOK'
  <2>1. CASE \/ lookup(f) \/ Race(f) \/ changed(f) \/ take_counter(f)
             \/ LoadScope(f) \/ LoadDone(f)
    BY <1>1, <2>1 DEF lookup, Race, changed, take_counter, LoadScope, LoadDone
  <2> QED
    BY <1>3, <2>1, SetentIndexes, GetentIndexes, ReplaceIndexes, ReturnIndexes
       DEF CallMoves
<1>4. UNCHANGED vars => IndexesOK'
  BY <1>1 DEF vars
<1> QED
  BY <1>2, <1>3, <1>4, StepCases

-----------------------------------------------------------------------------
(***************************************************************************)
(* The other variables                                                     *)
(***************************************************************************)
LEMMA WriterOthers ==
    ASSUME NInv, NEW w \in Writers, WriterMoves(w)
    PROVE  OthersOK'
<1>1. /\ writer \in [Writers -> Jobs] /\ sessions \in 0 .. MaxSessions
      /\ kills \in 0 .. MaxKills /\ MaxSessions \in Nat /\ MaxKills \in Nat
      /\ excuse \subseteq Excuses
  BY NssAssumptions DEF NInv, OthersOK
<1>2. mapped' \in BOOLEAN /\ current' \in 0 .. UINT_MAX /\ alive' \in BOOLEAN
  BY WriterKeeps DEF NInv, OthersOK
<1>3. \/ writer' = writer
      \/ \E job \in Jobs : writer' = [writer EXCEPT ![w] = job]
  <2>1. {"idle", "update", "purge", "create", "written"} \subseteq Jobs
    BY DEF Jobs
  <2>2. JobAfterWrite(writer[w]) \in Jobs /\ JobAfterClose(writer[w]) \in Jobs
    BY <1>1 DEF JobAfterWrite, JobAfterClose, Jobs
  <2>3. CASE \/ BeginWrite(w, "update") \/ BeginWrite(w, "purge") \/ BeginCreate(w)
             \/ PushCounter(w) \/ ObserverCreate(w) \/ KillWriter(w)
    BY <2>1, <2>3 DEF BeginWrite, BeginCreate, PushCounter, ObserverCreate, KillWriter
  <2>4. CASE WriteNew(w) \/ CloseWrite(w)
    BY <2>2, <2>4 DEF WriteNew, CloseWrite
  <2>5. CASE CreateFile(w) \/ OpenNext(w) \/ LockWrite(w) \/ ReadOld(w) \/ UnlockWrite(w)
    BY <2>5 DEF CreateFile, OpenNext, LockWrite, ReadOld, UnlockWrite, writervars
  <2> QED
    BY <2>3, <2>4, <2>5 DEF WriterMoves
<1>4. writer' \in [Writers -> Jobs]
  BY <1>1, <1>3
<1>5. sessions' \in 0 .. MaxSessions
  BY <1>1 DEF WriterMoves, BeginWrite, BeginCreate, CreateFile, OpenNext, LockWrite, ReadOld,
     WriteNew, PushCounter, ObserverCreate, UnlockWrite, CloseWrite, KillWriter, writervars
<1>6. kills' \in 0 .. MaxKills
  BY <1>1 DEF WriterMoves, BeginWrite, BeginCreate, CreateFile, OpenNext, LockWrite, ReadOld,
     WriteNew, PushCounter, ObserverCreate, UnlockWrite, CloseWrite, KillWriter, writervars
<1>7. excuse' \subseteq Excuses
  BY <1>1 DEF WriterMoves, BeginWrite, BeginCreate, CreateFile, OpenNext, LockWrite, ReadOld,
     WriteNew, PushCounter, ObserverCreate, UnlockWrite, CloseWrite, KillWriter, Excuses
<1> QED
  BY <1>2, <1>4, <1>5, <1>6, <1>7 DEF OthersOK

LEMMA CallOthers ==
    ASSUME NInv, NEW f \in Families, CallMoves(f)
    PROVE  OthersOK'
<1>1. writer' = writer /\ sessions' = sessions /\ kills' = kills
  BY DEF CallMoves, setent, getent, lookup, Race, changed, take_counter, LoadScope,
     LoadDone, ClearList, FillList, Return, writervars
<1>2. mapped' \in BOOLEAN
  BY DEF NInv, OthersOK, CallMoves, setent, getent, lookup, Race, changed, take_counter,
     LoadScope, LoadDone, ClearList, FillList, Return, observervars
<1>3. current' \in 0 .. UINT_MAX
  <2>1. current' \in {current, 0, counter}
    BY DEF CallMoves, setent, getent, lookup, Race, changed, take_counter, LoadScope,
       LoadDone, ClearList, FillList, Return, observervars
  <2>2. counter \in 0 .. UINT_MAX /\ current \in 0 .. UINT_MAX /\ 0 \in 0 .. UINT_MAX
    BY WordFacts DEF NInv, OthersOK, Obs!ShmTypeOK, UINT_MAX
  <2> QED
    BY <2>1, <2>2
<1>4. alive' \in BOOLEAN
  BY DEF NInv, OthersOK, CallMoves, setent, getent, lookup, Race, changed, take_counter,
     LoadScope, LoadDone, ClearList, FillList, Return
<1>5. excuse' \subseteq Excuses
  BY DEF NInv, OthersOK, CallMoves, setent, getent, lookup, Race, changed, take_counter,
     BeginLoad, LoadScope, LoadDone, ClearList, FillList, Return, Excuses
<1> QED
  BY <1>1, <1>2, <1>3, <1>4, <1>5 DEF NInv, OthersOK

LEMMA StepOthers ==
    ASSUME NInv, [Next]_vars
    PROVE  OthersOK'
<1>1. UNCHANGED vars => OthersOK'
  BY DEF vars, writervars, observervars, NInv, OthersOK
<1> QED
  BY <1>1, StepCases, WriterOthers, CallOthers

-----------------------------------------------------------------------------
LEMMA InitNInv == Init => NInv
<1> SUFFICES ASSUME Init PROVE NInv
  OBVIOUS
<1>1. DBP!IInv
  <2>1. DBP!DBInit
    BY ProcsFacts DEF Init, DBP!DBInit, DB!NoStream, DBP!NoStream
  <2> QED
    BY <2>1, DBP!InitIInv, DBAssumption
<1>2. Obs!ShmTypeOK
  BY WordFacts DEF Init, Obs!ShmInit, Obs!ShmTypeOK, Obs!PushStates
<1>3. CallsOK /\ StreamsOK
  BY NoCallFacts, ProcsFacts DEF Init, CallsOK, StreamsOK, DB!NoStream
<1>4. ListsOK
  <2>1. list = [l \in Lists |-> <<>>] /\ <<>> \in Seq(STRING) /\ Len(<<>>) = 0
    BY DEF Init
  <2> QED
    BY <2>1, NssAssumptions DEF ListsOK
<1>5. IndexesOK
  BY ProcsFacts, NssAssumptions DEF Init, IndexesOK
<1>6. OthersOK
  <2>1. writer = [w \in Writers |-> "idle"] /\ mapped = FALSE /\ alive = TRUE /\ excuse = {}
    BY DEF Init
  <2>2. /\ sessions \in 0 .. MaxSessions /\ kills \in 0 .. MaxKills
        /\ current \in 0 .. UINT_MAX
    BY WordFacts, NssAssumptions DEF Init
  <2> QED
    BY <2>1, <2>2 DEF OthersOK, Jobs
<1> QED
  BY <1>1, <1>2, <1>3, <1>4, <1>5, <1>6 DEF NInv

LEMMA StepNInv == NInv /\ [Next]_vars => NInv'
BY StepDBInv, StepShmType, StepCalls, StepLists, StepIndexes, StepOthers DEF NInv

THEOREM NssInvariance == Spec => []NInv
BY InitNInv, StepNInv, PTL DEF Spec

(***************************************************************************)
(* Type correctness.  The part that is not obvious is the length of a      *)
(* list: two calls that fill it at once make it at most twice as long as a *)
(* document, because each has cleared it first.                            *)
(***************************************************************************)
THEOREM NssTypes == Spec => []NssTypeOK
<1>1. NInv => NssTypeOK
  BY SameTypes DEF NInv, NssTypeOK, DBP!IInv, OthersOK, ListsOK, IndexesOK, CallsOK, CallRecs
<1> QED
  BY <1>1, NssInvariance, PTL

(***************************************************************************)
(* As long as nobody has touched its list since setent, an enumeration     *)
(* does not pass the end of it.                                            *)
(***************************************************************************)
THEOREM EnumerationsStay == Spec => []EnumerationStaysInList
<1>1. NInv => EnumerationStaysInList
  <2> SUFFICES ASSUME NInv, NEW f \in Families, enumerating[f], ~ replaced[f]
               PROVE  ~ (index[f] > Len(list[f]))
    BY IndexTypes, ProcsFacts DEF EnumerationStaysInList
  <2>1. index[f] \in 0 .. Len(list[f]) /\ Len(list[f]) \in Nat
    BY LenFacts, ProcsFacts DEF NInv, IndexesOK
  <2> QED
    BY <2>1
<1> QED
  BY <1>1, NssInvariance, PTL

(***************************************************************************)
(* Writers and calls use the database only as AutoLock scopes do, so that  *)
(* what FileDB_proofs shows holds of an NSS client too.                    *)
(***************************************************************************)
THEOREM NssImplementsFileDB == Spec => DB!DBSpec
<1>1. Init => DB!DBInit
  BY ProcsFacts DEF Init, DB!DBInit
<1>2. NInv /\ [Next]_vars => [DB!DBNext]_(DB!dbvars)
  BY StepDBInv DEF dbvars, DB!dbvars
<1> QED
  BY <1>1, <1>2, NssInvariance, PTL DEF Spec, DB!DBSpec

\* The step of a load, or of a writer, in which FileDB::read throws.
LEMMA FailedReadOfLoad ==
    ASSUME NInv, [Next]_vars, NEW p \in Procs,
           stream[p].got = None, stream'[p].got = Empty
    PROVE  \/ lost[stream[p].db]
           \/ \E q \in Procs \ {p} : DB!InUnlockedWindow(q, stream[p].db)
<1>1. None # Empty
  BY DBAssumption DEF DBP!DistinctContents
<1>2. DBP!IInv /\ DBP!DBNext
  BY <1>1, StepDBInv, SameNext DEF NInv, dbvars
<1>3. \/ lost[stream[p].db]
      \/ \E q \in Procs \ {p} : DBP!InUnlockedWindow(q, stream[p].db)
  BY <1>2, DBP!FailedReadStep, DBAssumption
<1> QED
  BY <1>3 DEF DBP!InUnlockedWindow, DB!InUnlockedWindow, DBP!Owes, DB!Owes

(***************************************************************************)
(* A load, or an update, of the user database finds an empty file only     *)
(* while another process is in one of the two windows that the lock does   *)
(* not cover - it has unlocked and not yet closed, or create_db has        *)
(* truncated and not yet locked - or after a death in such a window.  (A   *)
(* load also fails when it finds the bare struct of create_db's first      *)
(* scope, which is a document of the file like any other.)                 *)
(***************************************************************************)
THEOREM LoadsFailInWindow == Spec => DB!FailedReadIsInUnlockedWindow
<1> DEFINE Reads == \A p \in Procs :
        stream[p].got = None /\ stream'[p].got = Empty
          => \/ lost[stream[p].db]
             \/ \E q \in Procs \ {p} : DB!InUnlockedWindow(q, stream[p].db)
<1>1. NInv /\ [Next]_vars => [Reads]_(DB!dbvars)
  BY FailedReadOfLoad
<1> QED
  BY <1>1, NssInvariance, PTL DEF Spec, DB!FailedReadIsInUnlockedWindow

=============================================================================
