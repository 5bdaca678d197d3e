----------------------- MODULE FileRefinement_proofs ------------------------
(***************************************************************************)
(* Proofs about FileStorage while it is Searchable: every shard is one     *)
(* that Retrieve reads, and no migration moves messages.  A search then    *)
(* finds what was stored, searches agree on the order of the stores, and   *)
(* FileStorage implements MessageLog.                                      *)
(***************************************************************************)
EXTENDS FileRefinement, FileStorage_proofs, SequenceTheorems, FiniteSetTheorems

\* The log: m can be read back from its shard.
InLog(m) == m \in Parsed(file[ShardOf(m)])
Whole(r) == {m \in found[r] : ShardOf(m) \notin damaged}

\* A message is in no shard but its own.
PlaceInv == \A name \in Names : \A m \in Parsed(file[name]) : name = ShardOf(m)

\* But for damaged shards, the log has what Store has written and reported.
StoredInv ==
  \A m \in Stores : ShardOf(m) \notin damaged =>
    /\ result[m] = "ok" => InLog(m)
    /\ InLog(m) => pc[m] \in {"return", "done"} /\ result[m] # "error"

\* A search has found what the shards it has read still hold.
ReadInv ==
  \A r \in Retrieves : pc[r] = "read" \/ (pc[r] = "return" /\ result[r] = "ok") =>
    /\ pc[r] = "return" => shard[r] = NumShards
    /\ \A m \in Stores : m \in found[r] <=>
         Trace[m] = Trace[r] /\ \E n \in 0..(shard[r] - 1) : m \in Parsed(file[HexName(n)])

AckedInv == \A r \in Retrieves : \A m \in acked[r] : pc[m] = "done" /\ result[m] = "ok"

\* What a finished search found is still there.
FoundInv ==
  \A r \in Retrieves : Finished(r) =>
    \A m \in Whole(r) : InLog(m) /\ Trace[m] = Trace[r]

SInv ==
  FInv /\ PlaceInv /\ StoredInv /\ ReadInv /\ AckedInv /\ FoundInv /\ AckedIsFound /\ SearchesAgree
-----------------------------------------------------------------------------
\* While a store writes nobody reads, and it touches its own shard only.
LEMMA LogWritten ==
  ASSUME SInv, NEW m \in Stores, StoreWrite(m) \/ StoreWriteFails(m)
  PROVE  /\ pc[m] = "write" /\ writer = m /\ readers = {} /\ result[m] = None
         /\ PlaceInv'
         /\ \A x \in Stores : ShardOf(x) # ShardOf(m) => (InLog(x)' <=> InLog(x))
         /\ \A x \in Stores : x # m /\ InLog(x)' => InLog(x)
         /\ \A x \in Stores : StoreWrite(m) /\ ShardOf(m) \notin damaged
              => (InLog(x)' <=> InLog(x) \/ x = m)
<1> DEFINE n == ShardOf(m)
<1>t. TypeOK /\ TailInv /\ CallInv /\ PlaceInv
  BY DEF SInv, FInv
<1>1. n \in Names /\ pc[m] = "write" /\ writer = m /\ readers = {} /\ result[m] = None
  <2>1. pc[m] = "write" /\ m # None
    BY FileAssumption DEF StoreWrite, StoreWriteFails, Ops
  <2>. QED BY <1>t, <2>1, NamesUsed DEF CallInv, TypeOK
<1>2. PICK t : /\ file' = [file EXCEPT ![n] = t]
               /\ Parsed(t) \subseteq Parsed(file[n]) \cup {m}
               /\ StoreWrite(m) => t = Appended(file[n], m) /\ damaged' = damaged
  <2>1. file[n] \in Files
    BY <1>t, <1>1 DEF TypeOK, Files
  <2>2. CASE StoreWrite(m)
    BY <2>1, <2>2, OnlyTheLine DEF StoreWrite, Write, histories
  <2>3. CASE StoreWriteFails(m) /\ ~StoreWrite(m)
    <3>1. PICK t \in CutShort(file[n], m) : file' = [file EXCEPT ![n] = t]
      BY <2>3 DEF StoreWriteFails, Write
    <3>. QED BY <2>1, <2>3, <3>1, OnlyTheLine
  <2>. QED BY <2>2, <2>3
<1>3. file'[n] = t /\ \A x \in Names : x # n => file'[x] = file[x]
  BY <1>t, <1>1, <1>2 DEF TypeOK
<1>4. PlaceInv'
  BY <1>t, <1>1, <1>2, <1>3 DEF PlaceInv
<1>5. \A x \in Stores : ShardOf(x) # n => (InLog(x)' <=> InLog(x))
  BY <1>3, NamesUsed DEF InLog
<1>6. \A x \in Stores : x # m /\ InLog(x)' => InLog(x)
  BY <1>2, <1>3, <1>5 DEF InLog
<1>7. ASSUME StoreWrite(m), n \notin damaged
      PROVE  \A x \in Stores : InLog(x)' <=> InLog(x) \/ x = m
  <2>1. Parsed(file'[n]) = Parsed(file[n]) \cup {m}
    BY <1>t, <1>1, <1>2, <1>7, LineWritten
  <2>. QED BY <1>5, <1>6, <2>1 DEF InLog
<1>. QED BY <1>1, <1>4, <1>5, <1>6, <1>7

\* Finished searches stay right while the log only grows but for damaged shards.
LEMMA SearchesKept ==
  ASSUME SInv, damaged \subseteq damaged',
         \A m \in Stores : ShardOf(m) \notin damaged' /\ InLog(m) => InLog(m)',
         \A r \in Retrieves : Finished(r)' => Finished(r) /\ found'[r] = found[r] /\ acked'[r] = acked[r]
  PROVE  FoundInv' /\ AckedIsFound' /\ SearchesAgree'
<1>1. \A r \in Retrieves : found[r] \subseteq Stores
  BY DEF SInv, FInv, TypeOK
<1>2. FoundInv'
  BY <1>1 DEF SInv, FoundInv, Whole
<1>3. AckedIsFound'
  BY DEF SInv, AckedIsFound
<1>4. SearchesAgree'
  <2>1. \A q, r \in Retrieves :
          Finished(q)' /\ Finished(r)' /\ Trace[q] = Trace[r] => Whole(q) \subseteq Whole(r) \/ Whole(r) \subseteq Whole(q)
    BY DEF SInv, SearchesAgree, Whole
  <2>2. \A q, r \in Retrieves : Finished(q)' /\ Finished(r)' /\ Whole(q) \subseteq Whole(r)
          => \A m \in found'[q] : ShardOf(m) \notin damaged' => m \in found'[r]
    BY DEF Whole
  <2>. QED BY <2>1, <2>2 DEF SearchesAgree
<1>. QED BY <1>2, <1>3, <1>4

\* What a search is about to return is what the log holds of its trace.
LEMMA FoundIsLog ==
  ASSUME Searchable, SInv, NEW r \in Retrieves, pc[r] = "return", result[r] = "ok"
  PROVE  \A m \in Stores : m \in found[r] <=> Trace[m] = Trace[r] /\ InLog(m)
<1>1. \A m \in Stores : m \in found[r] <=>
        Trace[m] = Trace[r] /\ \E n \in 0..(NumShards - 1) : m \in Parsed(file[HexName(n)])
  BY DEF SInv, ReadInv
<1>2. \A m \in Stores : InLog(m) => \E n \in 0..(NumShards - 1) : m \in Parsed(file[HexName(n)])
  BY DEF Searchable, InLog
<1>3. \A m \in Stores, n \in 0..(NumShards - 1) : m \in Parsed(file[HexName(n)]) => InLog(m)
  BY NamesUsed DEF SInv, PlaceInv, InLog
<1>. QED BY <1>1, <1>2, <1>3

\* Nothing is found before anything is searched.
LEMMA InitSInv == Init => SInv
<1> SUFFICES ASSUME Init PROVE SInv
  OBVIOUS
<1> USE FileAssumption DEF Ops
<1>1. FInv
  BY InitFInv
<1>2. \A m \in Stores : ~InLog(m)
  BY EmptyFile, NamesUsed DEF Init, InLog
<1>3. PlaceInv
  BY EmptyFile DEF Init, PlaceInv
<1>4. StoredInv /\ ReadInv /\ AckedInv
  BY <1>2 DEF Init, StoredInv, ReadInv, AckedInv
<1>5. FoundInv /\ AckedIsFound /\ SearchesAgree
  BY DEF Init, FoundInv, AckedIsFound, SearchesAgree, Finished
<1>. QED BY <1>1, <1>3, <1>4, <1>5 DEF SInv

\* The migrations that are there have nothing to do.
LEMMA MigrationsIdle ==
  ASSUME Searchable, CallInv
  PROVE  \A g \in Migrations : MigrateShards(g) => MigrateUnneeded(g) \/ Unlock(g)
<1>1. \A g \in Migrations : OldDepth = NewDepth /\ pc[g] \notin {"migrate", "copy"}
  BY DEF Searchable, CallInv
<1>. QED BY <1>1 DEF MigrateShards, MigrateLock, MigrateRead, MigrateReadFails, MigrateLine,
                     MigrateLineFails, MigrateRemove, MigrateDone, AtShard

\* Every step keeps what searches know of the shards.
LEMMA NextSInv ==
  ASSUME Searchable, SInv, [Next]_vars
  PROVE  SInv'
<1> USE FileAssumption, NumShardsNat DEF Ops, mutex, callVars, histories, Return, Goto
<1>t. FInv /\ TypeOK /\ CallInv /\ PlaceInv /\ StoredInv /\ ReadInv /\ AckedInv
  BY DEF SInv, FInv
<1>n. FInv'
  BY <1>t, NextFInv
<1>q. ASSUME UNCHANGED file PROVE PlaceInv' /\ \A m : InLog(m)' <=> InLog(m)
  BY <1>t, <1>q DEF PlaceInv, InLog
<1>1. ASSUME NEW m \in Stores, Lock(m, "write") PROVE SInv'
  <2>1. StoredInv' /\ ReadInv' /\ AckedInv'
    BY <1>1, <1>t, <1>q DEF Lock, StoredInv, ReadInv, AckedInv, TypeOK
  <2>2. FoundInv' /\ AckedIsFound' /\ SearchesAgree'
    BY <1>1, <1>t, <1>q, SearchesKept DEF Lock, Finished, TypeOK
  <2>. QED BY <1>1, <1>n, <1>q, <2>1, <2>2 DEF SInv, Lock
<1>2. ASSUME NEW m \in Stores, StoreWrite(m) PROVE SInv'
  <2>1. /\ pc[m] = "write" /\ readers = {} /\ PlaceInv'
        /\ \A x \in Stores : x # m /\ InLog(x)' => InLog(x)
        /\ \A x \in Stores : ShardOf(x) \notin damaged => (InLog(x)' <=> InLog(x) \/ x = m)
    BY <1>2, LogWritten
  <2>2. damaged' = damaged /\ UNCHANGED <<found, acked, shard>>
    BY <1>2 DEF StoreWrite
  <2>3. StoredInv' /\ ReadInv' /\ AckedInv'
    BY <1>2, <1>t, <2>1, <2>2 DEF StoreWrite, StoredInv, ReadInv, AckedInv, TypeOK, CallInv
  <2>4. FoundInv' /\ AckedIsFound' /\ SearchesAgree'
    BY <1>2, <1>t, <2>1, <2>2, SearchesKept DEF StoreWrite, Finished, TypeOK
  <2>. QED BY <1>n, <2>1, <2>3, <2>4 DEF SInv
<1>3. ASSUME NEW m \in Stores, StoreOpenFails(m) PROVE SInv'
  <2>1. StoredInv' /\ ReadInv' /\ AckedInv'
    BY <1>3, <1>t, <1>q DEF StoreOpenFails, StoredInv, ReadInv, AckedInv, TypeOK
  <2>2. FoundInv' /\ AckedIsFound' /\ SearchesAgree'
    BY <1>3, <1>t, <1>q, SearchesKept DEF StoreOpenFails, Finished, TypeOK
  <2>. QED BY <1>3, <1>n, <1>q, <2>1, <2>2 DEF SInv, StoreOpenFails
<1>4. ASSUME NEW m \in Stores, StoreWriteFails(m) PROVE SInv'
  <2>1. /\ pc[m] = "write" /\ readers = {} /\ PlaceInv'
        /\ \A x \in Stores : ShardOf(x) # ShardOf(m) => (InLog(x)' <=> InLog(x))
    BY <1>4, LogWritten
  <2>2. damaged' = damaged \cup {ShardOf(m)} /\ UNCHANGED <<found, acked, shard>>
    BY <1>4 DEF StoreWriteFails
  <2>3. StoredInv' /\ ReadInv' /\ AckedInv'
    BY <1>4, <1>t, <2>1, <2>2 DEF StoreWriteFails, StoredInv, ReadInv, AckedInv, TypeOK, CallInv
  <2>4. FoundInv' /\ AckedIsFound' /\ SearchesAgree'
    BY <1>4, <1>t, <2>1, <2>2, SearchesKept DEF StoreWriteFails, Finished, TypeOK
  <2>. QED BY <1>n, <2>1, <2>3, <2>4 DEF SInv
<1>5. ASSUME NEW r \in Retrieves, RLock(r) PROVE SInv'
  <2>1. StoredInv' /\ ReadInv' /\ AckedInv'
    BY <1>5, <1>t, <1>q DEF RLock, StoredInv, ReadInv, AckedInv, TypeOK, CallInv, Acked
  <2>2. FoundInv' /\ AckedIsFound' /\ SearchesAgree'
    BY <1>5, <1>t, <1>q, SearchesKept DEF RLock, Finished, TypeOK
  <2>. QED BY <1>5, <1>n, <1>q, <2>1, <2>2 DEF SInv, RLock
<1>6. ASSUME NEW r \in Retrieves, ReadShard(r) PROVE SInv'
  <2>1. StoredInv' /\ AckedInv'
    BY <1>6, <1>t, <1>q DEF ReadShard, StoredInv, AckedInv
  <2>2. ReadInv'
    <3>1. /\ pc[r] = "read" /\ shard'[r] = shard[r] + 1 /\ shard[r] \in Nat
          /\ UNCHANGED <<file, pc, result>>
          /\ \A m \in Stores : m \in found'[r] <=> m \in found[r]
               \/ (m \in Parsed(file[HexName(shard[r])]) /\ Trace[m] = Trace[r])
          /\ \A q \in Retrieves : q # r => found'[q] = found[q] /\ shard'[q] = shard[q]
      BY <1>6, <1>t DEF ReadShard, TypeOK
    <3>2. \A n : n \in 0..(shard'[r] - 1) <=> n \in 0..(shard[r] - 1) \/ n = shard[r]
      BY <3>1
    <3>. QED BY <1>t, <3>1, <3>2 DEF ReadInv
  <2>3. FoundInv' /\ AckedIsFound' /\ SearchesAgree'
    BY <1>6, <1>t, <1>q, SearchesKept DEF ReadShard, Finished, TypeOK
  <2>. QED BY <1>6, <1>n, <1>q, <2>1, <2>2, <2>3 DEF SInv, ReadShard
<1>7. ASSUME NEW r \in Retrieves, ReadFails(r) \/ RetrieveDone(r) PROVE SInv'
  <2>1. /\ pc[r] = "read" /\ pc' = [pc EXCEPT ![r] = "return"]
        /\ \/ result' = [result EXCEPT ![r] = "error"] /\ found' = [found EXCEPT ![r] = {}]
           \/ result' = [result EXCEPT ![r] = "ok"] /\ found' = found /\ shard[r] = NumShards
        /\ UNCHANGED <<file, shard, acked, damaged>>
    BY <1>7 DEF ReadFails, RetrieveDone
  <2>2. StoredInv' /\ AckedInv'
    BY <1>t, <1>q, <2>1 DEF StoredInv, AckedInv, TypeOK
  <2>3. ReadInv'
    BY <1>t, <2>1 DEF ReadInv, TypeOK
  <2>4. FoundInv' /\ AckedIsFound' /\ SearchesAgree'
    BY <1>t, <1>q, <2>1, SearchesKept DEF Finished, TypeOK
  <2>. QED BY <1>n, <1>q, <2>1, <2>2, <2>3, <2>4 DEF SInv
<1>8. ASSUME NEW o \in Ops, Unlock(o) PROVE SInv'
  <2>1. /\ pc[o] = "return" /\ pc' = [pc EXCEPT ![o] = "done"]
        /\ UNCHANGED <<file, result, shard, found, acked, damaged>>
    BY <1>8 DEF Unlock
  <2>2. StoredInv' /\ ReadInv' /\ AckedInv'
    BY <1>t, <1>q, <2>1 DEF StoredInv, ReadInv, AckedInv, TypeOK
  <2>3. CASE o \in Retrieves /\ result[o] = "ok"
    <3>1. \A m \in Stores : m \in found[o] <=> Trace[m] = Trace[o] /\ InLog(m)
      BY <2>1, <2>3, FoundIsLog
    <3>2. /\ \A r \in Retrieves : Finished(r)' <=> Finished(r) \/ r = o
          /\ \A r \in Retrieves : found[r] \subseteq Stores /\ acked[r] \subseteq Stores
      BY <1>t, <2>1, <2>3 DEF Finished, TypeOK
    <3>3. FoundInv'
      BY <1>q, <2>1, <3>1, <3>2 DEF SInv, FoundInv, Whole
    <3>4. AckedIsFound'
      BY <1>t, <2>1, <3>1, <3>2 DEF SInv, AckedIsFound, AckedInv, StoredInv
    <3>5. \A q \in Retrieves : Finished(q) /\ Trace[q] = Trace[o] => Whole(q) \subseteq Whole(o)
      BY <3>1, <3>2 DEF SInv, FoundInv, Whole
    <3>6. SearchesAgree'
      <4>1. \A q, r \in Retrieves : Finished(q)' /\ Finished(r)' /\ Trace[q] = Trace[r]
              => Whole(q) \subseteq Whole(r) \/ Whole(r) \subseteq Whole(q)
        BY <3>2, <3>5 DEF SInv, SearchesAgree, Whole
      <4>. QED BY <2>1, <4>1 DEF SearchesAgree, Whole
    <3>. QED BY <1>n, <1>q, <2>1, <2>2, <3>3, <3>4, <3>6 DEF SInv
  <2>4. CASE ~(o \in Retrieves /\ result[o] = "ok")
    <3>1. FoundInv' /\ AckedIsFound' /\ SearchesAgree'
      BY <1>t, <1>q, <2>1, <2>4, SearchesKept DEF Finished, TypeOK
    <3>. QED BY <1>n, <1>q, <2>1, <2>2, <3>1 DEF SInv
  <2>. QED BY <2>3, <2>4
<1>9. ASSUME NEW g \in Migrations, MigrateUnneeded(g) PROVE SInv'
  <2>1. StoredInv' /\ ReadInv' /\ AckedInv'
    BY <1>9, <1>t, <1>q DEF MigrateUnneeded, StoredInv, ReadInv, AckedInv, TypeOK
  <2>2. FoundInv' /\ AckedIsFound' /\ SearchesAgree'
    BY <1>9, <1>t, <1>q, SearchesKept DEF MigrateUnneeded, Finished, TypeOK
  <2>. QED BY <1>9, <1>n, <1>q, <2>1, <2>2 DEF SInv, MigrateUnneeded
<1>10. \A g \in Migrations : MigrateShards(g) => MigrateUnneeded(g) \/ Unlock(g)
  BY <1>t, MigrationsIdle
<1>11. CASE Crash
  <2>1. StoredInv' /\ ReadInv' /\ AckedInv'
    BY <1>11, <1>t, <1>q DEF Crash, StoredInv, ReadInv, AckedInv, TypeOK
  <2>2. FoundInv' /\ AckedIsFound' /\ SearchesAgree'
    BY <1>11, <1>t, <1>q, SearchesKept DEF Crash, Finished, TypeOK
  <2>. QED BY <1>11, <1>n, <1>q, <2>1, <2>2 DEF SInv, Crash
<1>12. CASE UNCHANGED vars
  <2>1. StoredInv' /\ ReadInv' /\ AckedInv'
    BY <1>12, <1>t, <1>q DEF vars, StoredInv, ReadInv, AckedInv
  <2>2. FoundInv' /\ AckedIsFound' /\ SearchesAgree'
    BY <1>12, <1>t, <1>q, SearchesKept DEF vars, Finished
  <2>. QED BY <1>12, <1>n, <1>q, <2>1, <2>2 DEF SInv, vars
<1>. QED
  BY <1>1, <1>2, <1>3, <1>4, <1>5, <1>6, <1>7, <1>8, <1>9, <1>10, <1>11, <1>12
     DEF Next, Store, Retrieve

\* What is searched is complete and ordered, in every state.
THEOREM SearchInvariance ==
  ASSUME Searchable
  PROVE  Spec => []SInv
<1>1. SInv /\ [Next]_vars => SInv'
  BY NextSInv
<1>. QED BY InitSInv, <1>1, PTL DEF Spec

\* A search finds every message of its trace whose store had returned nil when it
\* began, for any number of shards, calls and faults: Retrieve after Store.
THEOREM FindsAcked ==
  ASSUME Searchable
  PROVE  Spec => []AckedIsFound
<1>1. SInv => AckedIsFound
  BY DEF SInv
<1>. QED BY SearchInvariance, <1>1, PTL

\* Any two searches of a trace see the stores in one order.
THEOREM SearchesInOrder ==
  ASSUME Searchable
  PROVE  Spec => []SearchesAgree
<1>1. SInv => SearchesAgree
  BY DEF SInv
<1>. QED BY SearchInvariance, <1>1, PTL
-----------------------------------------------------------------------------
LogOf == {m \in Stores : m \in Parsed(file[ShardOf(m)])}
AnswerOf == [r \in Retrieves |-> IF Finished(r) THEN found[r] ELSE None]
ToldOf == [m \in Stores |-> IF pc[m] = "done" THEN result[m] ELSE None]

\* Steps that change nothing the log's callers see, but for the faults.
LEMMA Unseen ==
  ASSUME UNCHANGED <<file, damaged, AnswerOf, ToldOf>>,
         faults' = faults \/ (faults < MaxFaults /\ faults' = faults + 1)
  PROVE  [Log!LogNext]_Log!logVars
<1>1. LogOf' = LogOf
  BY DEF LogOf
<1>. QED BY <1>1 DEF Log!LogNext, Log!Fail, Log!logVars, LogOf, AnswerOf, ToldOf

\* The log starts empty.
LEMMA InitLog == Init => Log!LogInit
<1> SUFFICES ASSUME Init PROVE Log!LogInit
  OBVIOUS
<1>1. LogOf = {}
  BY EmptyFile, NamesUsed DEF Init, LogOf
<1>2. /\ \A r \in Retrieves : ~Finished(r)
      /\ \A m \in Stores : pc[m] # "done"
  BY DEF Init, Finished, Ops
<1>. QED BY <1>1, <1>2 DEF Init, Log!LogInit, LogOf

\* Each step is one of the log's, or none: the write of a line is Put or, where a
\* write was cut short, Disturb; giving up the mutex is Answer or Tell.
LEMMA NextLog ==
  ASSUME Searchable, SInv, [Next]_vars
  PROVE  [Log!LogNext]_Log!logVars
<1> USE FileAssumption DEF Ops, mutex, callVars, histories, Return, Goto, Fault
<1>t. TypeOK /\ CallInv /\ StoredInv /\ faults \in Nat
  BY DEF SInv, FInv, TypeOK
<1>1. ASSUME NEW o \in Ops, pc[o] # "done", pc' = [pc EXCEPT ![o] = "return"],
             \E res : result' = [result EXCEPT ![o] = res],
             \A r \in Retrieves : r # o => found'[r] = found[r]
      PROVE  UNCHANGED <<AnswerOf, ToldOf>>
  <2>1. /\ \A r \in Retrieves : Finished(r)' <=> Finished(r)
        /\ \A r \in Retrieves : Finished(r) => found'[r] = found[r]
        /\ \A m \in Stores : pc'[m] = "done" <=> pc[m] = "done"
        /\ \A m \in Stores : pc[m] = "done" => result'[m] = result[m]
    BY <1>t, <1>1 DEF Finished, TypeOK
  <2>. QED BY <2>1 DEF AnswerOf, ToldOf
<1>2. ASSUME NEW o \in Ops, pc[o] = "idle", \E state \in {"write", "read"} : pc' = [pc EXCEPT ![o] = state],
             UNCHANGED <<result, found>>
      PROVE  UNCHANGED <<AnswerOf, ToldOf>>
  <2>1. /\ \A r \in Retrieves : Finished(r)' <=> Finished(r)
        /\ \A m \in Stores : pc'[m] = "done" <=> pc[m] = "done"
    BY <1>t, <1>2 DEF Finished, TypeOK
  <2>. QED BY <1>2, <2>1 DEF AnswerOf, ToldOf
<1>3. ASSUME NEW m \in Stores, Lock(m, "write") PROVE [Log!LogNext]_Log!logVars
  BY <1>2, <1>3, Unseen DEF Lock
<1>4. ASSUME NEW m \in Stores, StoreWrite(m) PROVE [Log!LogNext]_Log!logVars
  <2>1. UNCHANGED <<AnswerOf, ToldOf>>
    BY <1>1, <1>4 DEF StoreWrite
  <2>2. damaged' = damaged /\ faults' = faults /\ pc[m] = "write"
    BY <1>4 DEF StoreWrite
  <2>3. /\ \A x \in Stores : ShardOf(x) # ShardOf(m) => (InLog(x)' <=> InLog(x))
        /\ ShardOf(m) \notin damaged => \A x \in Stores : InLog(x)' <=> InLog(x) \/ x = m
    BY <1>4, LogWritten
  <2>4. CASE ShardOf(m) \notin damaged
    <3>1. LogOf' = LogOf \cup {m}
      BY <2>3, <2>4 DEF LogOf, InLog
    <3>2. ToldOf[m] = None
      BY <2>2 DEF ToldOf
    <3>3. Log!Put(m)
      BY <2>1, <2>2, <3>1, <3>2 DEF Log!Put, LogOf, AnswerOf, ToldOf
    <3>. QED BY <3>3 DEF Log!LogNext
  <2>5. CASE ShardOf(m) \in damaged
    <3>1. Log!Disturb(ShardOf(m))
      BY <2>1, <2>2, <2>3, <2>5 DEF Log!Disturb, LogOf, AnswerOf, ToldOf, InLog
    <3>. QED BY <3>1 DEF Log!LogNext
  <2>. QED BY <2>4, <2>5
<1>5. ASSUME NEW m \in Stores, StoreOpenFails(m) PROVE [Log!LogNext]_Log!logVars
  BY <1>1, <1>5, Unseen DEF StoreOpenFails
<1>6. ASSUME NEW m \in Stores, StoreWriteFails(m) PROVE [Log!LogNext]_Log!logVars
  <2>1. UNCHANGED <<AnswerOf, ToldOf>>
    BY <1>1, <1>6 DEF StoreWriteFails
  <2>2. damaged' = damaged \cup {ShardOf(m)} /\ faults < MaxFaults /\ faults' = faults + 1
    BY <1>6 DEF StoreWriteFails
  <2>3. \A x \in Stores : ShardOf(x) # ShardOf(m) => (InLog(x)' <=> InLog(x))
    BY <1>6, LogWritten
  <2>4. Log!Disturb(ShardOf(m))
    BY <2>1, <2>2, <2>3 DEF Log!Disturb, LogOf, AnswerOf, ToldOf, InLog
  <2>. QED BY <2>4 DEF Log!LogNext
<1>7. ASSUME NEW r \in Retrieves, RLock(r) PROVE [Log!LogNext]_Log!logVars
  BY <1>2, <1>7, Unseen DEF RLock
<1>8. ASSUME NEW r \in Retrieves, ReadShard(r) PROVE [Log!LogNext]_Log!logVars
  <2>1. UNCHANGED <<AnswerOf, ToldOf>>
    BY <1>8, <1>t DEF ReadShard, AnswerOf, ToldOf, Finished, TypeOK
  <2>. QED BY <1>8, <2>1, Unseen DEF ReadShard
<1>9. ASSUME NEW r \in Retrieves, ReadFails(r) \/ RetrieveDone(r) PROVE [Log!LogNext]_Log!logVars
  <2>1. /\ pc[r] = "read" /\ pc' = [pc EXCEPT ![r] = "return"]
        /\ \E res : result' = [result EXCEPT ![r] = res]
        /\ \A q \in Retrieves : q # r => found'[q] = found[q]
    BY <1>9, <1>t DEF ReadFails, RetrieveDone, TypeOK
  <2>2. UNCHANGED <<AnswerOf, ToldOf>>
    BY <1>1, <2>1
  <2>. QED BY <1>9, <2>2, Unseen DEF ReadFails, RetrieveDone
<1>10. ASSUME NEW o \in Ops, Unlock(o) PROVE [Log!LogNext]_Log!logVars
  <2>1. /\ pc[o] = "return" /\ pc' = [pc EXCEPT ![o] = "done"]
        /\ UNCHANGED <<file, result, found, faults, damaged>>
    BY <1>10 DEF Unlock
  <2>2. \A x \in Ops : pc'[x] = "done" <=> pc[x] = "done" \/ x = o
    BY <1>t, <2>1 DEF TypeOK
  <2>3. CASE o \in Retrieves /\ result[o] = "ok"
    <3>1. \A m \in Stores : m \in found[o] <=> Trace[m] = Trace[o] /\ InLog(m)
      BY <2>1, <2>3, FoundIsLog
    <3>2. found[o] = {m \in LogOf : Trace[m] = Trace[o]} /\ LogOf' = LogOf
      <4>1. found[o] \subseteq Stores /\ \A m : m \in LogOf <=> m \in Stores /\ InLog(m)
        BY <1>t, <2>3 DEF LogOf, InLog, TypeOK
      <4>2. \A m : m \in found[o] <=> m \in LogOf /\ Trace[m] = Trace[o]
        BY <3>1, <4>1
      <4>. QED BY <2>1, <4>2 DEF LogOf
    <3>3. ToldOf' = ToldOf
      BY <2>1, <2>2, <2>3 DEF ToldOf
    <3>4. AnswerOf[o] = None /\ AnswerOf' = [AnswerOf EXCEPT ![o] = found[o]]
      <4>1. \A r \in Retrieves : Finished(r)' <=> Finished(r) \/ r = o
        BY <2>1, <2>2, <2>3 DEF Finished
      <4>. QED BY <2>1, <2>3, <4>1 DEF AnswerOf, Finished
    <3>5. Log!Answer(o)
      BY <2>1, <3>2, <3>3, <3>4 DEF Log!Answer, LogOf, AnswerOf, ToldOf
    <3>. QED BY <2>3, <3>5 DEF Log!LogNext
  <2>4. CASE o \in Stores /\ result[o] \in {"ok", "error"}
    <3>1. LogOf' = LogOf /\ AnswerOf' = AnswerOf
      BY <2>1, <2>2, <2>4 DEF LogOf, AnswerOf, Finished
    <3>2. ToldOf[o] = None /\ ToldOf' = [ToldOf EXCEPT ![o] = result[o]]
      BY <2>1, <2>2, <2>4 DEF ToldOf
    <3>3. ShardOf(o) \in damaged \/ (result[o] = "ok" <=> o \in LogOf)
      BY <1>t, <2>4 DEF StoredInv, InLog, LogOf
    <3>4. PICK res \in {"ok", "error"} : res = result[o]
      BY <2>4
    <3>5. Log!Tell(o, res)
      BY <2>1, <2>4, <3>1, <3>2, <3>3, <3>4 DEF Log!Tell, LogOf, AnswerOf, ToldOf
    <3>. QED BY <2>4, <3>5 DEF Log!LogNext
  <2>5. CASE ~(o \in Retrieves /\ result[o] = "ok") /\ ~(o \in Stores /\ result[o] \in {"ok", "error"})
    <3>1. \A m \in Stores : m = o => result[m] = None
      BY <1>t, <2>5 DEF CallInv
    <3>2. UNCHANGED <<AnswerOf, ToldOf>>
      BY <2>1, <2>2, <2>5, <3>1 DEF AnswerOf, ToldOf, Finished
    <3>. QED BY <2>1, <3>2, Unseen
  <2>. QED BY <2>3, <2>4, <2>5
<1>11. ASSUME NEW g \in Migrations, MigrateUnneeded(g) PROVE [Log!LogNext]_Log!logVars
  BY <1>1, <1>11, Unseen DEF MigrateUnneeded
<1>12. \A g \in Migrations : MigrateShards(g) => MigrateUnneeded(g) \/ Unlock(g)
  BY <1>t, MigrationsIdle
<1>13. CASE Crash
  <2>1. UNCHANGED <<file, found, damaged>> /\ faults < MaxFaults /\ faults' = faults + 1
    BY <1>13 DEF Crash
  <2>2. /\ \A r \in Retrieves : Finished(r)' <=> Finished(r)
        /\ \A m \in Stores : (pc[m] = "done" => pc'[m] = "done" /\ result'[m] = result[m])
                          /\ (pc[m] # "done" /\ pc'[m] = "done" => result'[m] = None)
    BY <1>13 DEF Crash, Finished
  <2>3. UNCHANGED <<AnswerOf, ToldOf>>
    BY <2>1, <2>2 DEF AnswerOf, ToldOf
  <2>. QED BY <2>1, <2>3, Unseen
<1>14. CASE UNCHANGED vars
  <2>1. UNCHANGED <<AnswerOf, ToldOf>>
    BY <1>14 DEF vars, AnswerOf, ToldOf, Finished
  <2>. QED BY <1>14, <2>1, Unseen DEF vars
<1>. QED
  BY <1>3, <1>4, <1>5, <1>6, <1>7, <1>8, <1>9, <1>10, <1>11, <1>12, <1>13, <1>14
     DEF Next, Store, Retrieve

\* To its callers FileStorage is MessageLog, whatever fails: Store and Retrieve,
\* under the RWMutex.
THEOREM LogRefinement ==
  ASSUME Searchable
  PROVE  Spec => ImplementsLog
<1>1. SInv /\ [Next]_vars => [Log!LogNext]_Log!logVars
  BY NextLog
<1>. QED BY InitLog, SearchInvariance, <1>1, PTL DEF Spec, ImplementsLog, Log!LogSpec
-----------------------------------------------------------------------------
(* What a failed write costs *)

\* The stores that returned nil, or are about to, and cannot be read from their shards.
Unread == {m \in Stores : result[m] = "ok" /\ ~InLog(m)}
Unterminated == {n \in Names : file[n].tail # None}

\* Each fault has cost one store, or left one unterminated file that may; the tail of a
\* file is part of a message whose store has failed.
LossInv ==
  /\ IsFiniteSet(Unread) /\ IsFiniteSet(Unterminated)
  /\ Cardinality(Unread) + Cardinality(Unterminated) <= faults
  /\ \A n \in Names, m \in Stores :
       file[n].tail = m => pc[m] \in {"return", "done"} /\ result[m] # "ok"

\* No write takes away a line that ends with a newline.
LEMMA WholeLinesStay ==
  ASSUME NEW f \in Files, NEW m \in Stores, NEW x \in Parsed(f), x # f.tail
  PROVE  x \in Parsed(Appended(f, m)) /\ \A t \in CutShort(f, m) : x \in Parsed(t)
<1> USE FileAssumption DEF Files, Line, Ops
<1>1. f.lines \in Seq(Line) /\ Len(f.lines) \in Nat /\ x # Garbage
  BY DEF Parsed
<1>2. PICK i \in DOMAIN f.lines : x = f.lines[i]
  <2>1. PICK i \in DOMAIN Lines(f) : x = Lines(f)[i]
    BY DEF Parsed
  <2>2. CASE f.tail = None
    BY <2>1, <2>2 DEF Lines
  <2>3. CASE f.tail # None
    BY <1>1, <2>1, <2>3 DEF Lines
  <2>. QED BY <2>2, <2>3
<1>3. \A l : i \in DOMAIN Append(f.lines, l) /\ Append(f.lines, l)[i] = x
  BY <1>1, <1>2
<1>4. x \in Parsed(Appended(f, m))
  <2>1. \E l : Lines(Appended(f, m)) = Append(f.lines, l)
    BY DEF Appended, Lines
  <2>. QED BY <1>1, <1>3, <2>1 DEF Parsed
<1>5. ASSUME NEW t \in CutShort(f, m) PROVE x \in Parsed(t)
  <2>1. t.lines = f.lines
    BY DEF CutShort
  <2>2. Lines(t) = f.lines \/ \E l : Lines(t) = Append(f.lines, l)
    BY <2>1 DEF Lines
  <2>. QED BY <1>1, <1>2, <1>3, <2>2 DEF Parsed
<1>. QED BY <1>4, <1>5

\* A step that loses nothing new, but for one store if a tail is ended, and leaves a new
\* tail only with a new fault, keeps the count.
LEMMA LossCounted ==
  ASSUME LossInv, faults \in Nat, faults' \in Nat,
         \/ Unread' \subseteq Unread /\ Unterminated' \subseteq Unterminated /\ faults <= faults'
         \/ \E m, n : /\ Unread' \subseteq Unread \cup {m} /\ n \in Unterminated
                      /\ Unterminated' = Unterminated \ {n} /\ faults' = faults
         \/ \E n : /\ Unread' \subseteq Unread /\ Unterminated' \subseteq Unterminated \cup {n}
                   /\ faults' = faults + 1
  PROVE  /\ IsFiniteSet(Unread') /\ IsFiniteSet(Unterminated')
         /\ Cardinality(Unread') + Cardinality(Unterminated') <= faults'
<1>1. /\ IsFiniteSet(Unread) /\ IsFiniteSet(Unterminated)
      /\ Cardinality(Unread) \in Nat /\ Cardinality(Unterminated) \in Nat
      /\ Cardinality(Unread) + Cardinality(Unterminated) <= faults
  BY FS_CardinalityType DEF LossInv
<1>2. CASE Unread' \subseteq Unread /\ Unterminated' \subseteq Unterminated /\ faults <= faults'
  <2>1. IsFiniteSet(Unread') /\ Cardinality(Unread') <= Cardinality(Unread)
    BY <1>1, <1>2, FS_Subset
  <2>2. IsFiniteSet(Unterminated') /\ Cardinality(Unterminated') <= Cardinality(Unterminated)
    BY <1>1, <1>2, FS_Subset
  <2>3. Cardinality(Unread') \in Nat /\ Cardinality(Unterminated') \in Nat
    BY <2>1, <2>2, FS_CardinalityType
  <2>. QED BY <1>1, <1>2, <2>1, <2>2, <2>3
<1>3. ASSUME NEW m, NEW n, Unread' \subseteq Unread \cup {m}, n \in Unterminated,
             Unterminated' = Unterminated \ {n}, faults' = faults
      PROVE  /\ IsFiniteSet(Unread') /\ IsFiniteSet(Unterminated')
             /\ Cardinality(Unread') + Cardinality(Unterminated') <= faults'
  <2>1. IsFiniteSet(Unread \cup {m}) /\ Cardinality(Unread \cup {m}) <= Cardinality(Unread) + 1
    BY <1>1, FS_AddElement
  <2>2. IsFiniteSet(Unread') /\ Cardinality(Unread') <= Cardinality(Unread \cup {m})
    BY <1>3, <2>1, FS_Subset
  <2>3. IsFiniteSet(Unterminated') /\ Cardinality(Unterminated') = Cardinality(Unterminated) - 1
    BY <1>1, <1>3, FS_RemoveElement
  <2>4. /\ Cardinality(Unread') \in Nat /\ Cardinality(Unterminated') \in Nat
        /\ Cardinality(Unread \cup {m}) \in Nat
    BY <2>1, <2>2, <2>3, FS_CardinalityType
  <2>. QED BY <1>1, <1>3, <2>1, <2>2, <2>3, <2>4
<1>4. ASSUME NEW n, Unread' \subseteq Unread, Unterminated' \subseteq Unterminated \cup {n},
             faults' = faults + 1
      PROVE  /\ IsFiniteSet(Unread') /\ IsFiniteSet(Unterminated')
             /\ Cardinality(Unread') + Cardinality(Unterminated') <= faults'
  <2>1. /\ IsFiniteSet(Unterminated \cup {n})
        /\ Cardinality(Unterminated \cup {n}) <= Cardinality(Unterminated) + 1
    <3>1. /\ IsFiniteSet(Unterminated \cup {n})
          /\ Cardinality(Unterminated \cup {n}) =
               IF n \in Unterminated THEN Cardinality(Unterminated) ELSE Cardinality(Unterminated) + 1
      BY <1>1, FS_AddElement, Zenon
    <3>. QED BY <1>1, <3>1
  <2>2. IsFiniteSet(Unterminated') /\ Cardinality(Unterminated') <= Cardinality(Unterminated \cup {n})
    BY <1>4, <2>1, FS_Subset
  <2>3. IsFiniteSet(Unread') /\ Cardinality(Unread') <= Cardinality(Unread)
    BY <1>1, <1>4, FS_Subset
  <2>4. /\ Cardinality(Unread') \in Nat /\ Cardinality(Unterminated') \in Nat
        /\ Cardinality(Unterminated \cup {n}) \in Nat
    BY <2>1, <2>2, <2>3, FS_CardinalityType
  <2>. QED BY <1>1, <1>4, <2>1, <2>2, <2>3, <2>4
<1>. QED BY <1>2, <1>3, <1>4

\* Every step keeps the count.
LEMMA NextLossInv ==
  ASSUME Searchable, FInv, LossInv, [Next]_vars
  PROVE  LossInv'
<1> DEFINE TailsFail == \A n \in Names, m \in Stores :
             file[n].tail = m => pc[m] \in {"return", "done"} /\ result[m] # "ok"
<1>t. TypeOK /\ CallInv /\ TailsFail
  BY DEF FInv, LossInv
<1>f. faults \in Nat /\ faults' \in Nat
  BY NextFInv, FileAssumption DEF FInv, TypeOK
<1> HIDE DEF TailsFail
<1>1. ASSUME NEW m \in Stores, StoreWrite(m) PROVE LossInv'
  <2> DEFINE n == ShardOf(m)
  <2>1. /\ file[n] \in Files /\ n \in Names /\ pc[m] = "write" /\ faults' = faults
        /\ file' = [file EXCEPT ![n] = Appended(file[n], m)]
        /\ pc' = [pc EXCEPT ![m] = "return"] /\ result' = [result EXCEPT ![m] = "ok"]
    BY <1>1, <1>t, NamesUsed DEF StoreWrite, Write, Return, Goto, TypeOK, Files
  <2>2. file'[n] = Appended(file[n], m) /\ \A x \in Names : x # n => file'[x] = file[x]
    BY <1>t, <2>1 DEF TypeOK
  <2>3. Appended(file[n], m).tail = None
    BY <2>1, ParsedAppended
  <2>4. Unterminated' = Unterminated \ {n}
    BY <2>1, <2>2, <2>3 DEF Unterminated
  <2>5. ASSUME NEW x \in Stores, x # m, result'[x] = "ok", ~InLog(x)' PROVE x \in Unread
    <3>1. result[x] = "ok"
      BY <1>t, <2>1, <2>5 DEF TypeOK
    <3>2. CASE ShardOf(x) = n
      BY <1>t, <2>1, <2>2, <2>5, <3>1, <3>2, WholeLinesStay DEF TailsFail, InLog, Unread
    <3>3. CASE ShardOf(x) # n
      BY <2>2, <2>5, <3>1, <3>3, NamesUsed DEF InLog, Unread
    <3>. QED BY <3>2, <3>3
  <2>6. Unread' \subseteq Unread \cup {m}
    BY <2>5 DEF Unread
  <2>7. TailsFail'
    <3>1. \A x \in Stores : pc'[x] = IF x = m THEN "return" ELSE pc[x]
      BY <1>t, <2>1 DEF TypeOK, Ops
    <3>2. \A x \in Stores : x # m => result'[x] = result[x]
      BY <1>t, <2>1 DEF TypeOK, Ops
    <3>3. \A x \in Names : file'[x].tail # m
      BY <1>t, <2>1, <2>2, <2>3, FileAssumption DEF TailsFail, Ops
    <3>4. \A x \in Names, y \in Stores : file'[x].tail = y => file[x].tail = y
      BY <2>2, <2>3, FileAssumption DEF Ops
    <3>. QED BY <1>t, <3>1, <3>2, <3>3, <3>4 DEF TailsFail
  <2>8. CASE n \in Unterminated
    BY <1>f, <2>1, <2>4, <2>6, <2>7, <2>8, LossCounted DEF LossInv, TailsFail
  <2>9. CASE n \notin Unterminated
    <3>1. m \in Parsed(file'[n])
      BY <2>1, <2>2, <2>9, ParsedAppended DEF Unterminated
    <3>2. Unread' \subseteq Unread
      BY <2>6, <3>1 DEF Unread, InLog
    <3>. QED BY <1>f, <2>1, <2>4, <2>7, <3>2, LossCounted DEF LossInv, TailsFail
  <2>. QED BY <2>8, <2>9
<1>2. ASSUME NEW m \in Stores, StoreWriteFails(m) PROVE LossInv'
  <2> DEFINE n == ShardOf(m)
  <2>1. /\ file[n] \in Files /\ n \in Names /\ pc[m] = "write" /\ faults' = faults + 1
        /\ pc' = [pc EXCEPT ![m] = "return"] /\ result' = [result EXCEPT ![m] = "error"]
    BY <1>2, <1>t, NamesUsed DEF StoreWriteFails, Fault, Return, Goto, TypeOK, Files
  <2>2. PICK t \in CutShort(file[n], m) : file' = [file EXCEPT ![n] = t]
    BY <1>2 DEF StoreWriteFails, Write
  <2>3. file'[n] = t /\ t.tail \in {m, Garbage} /\ \A x \in Names : x # n => file'[x] = file[x]
    BY <1>t, <2>1, <2>2 DEF TypeOK, CutShort, Files
  <2>4. Unterminated' \subseteq Unterminated \cup {n}
    BY <2>3 DEF Unterminated
  <2>5. ASSUME NEW x \in Stores, result'[x] = "ok", ~InLog(x)' PROVE x \in Unread
    <3>1. result[x] = "ok"
      BY <1>t, <2>1, <2>5 DEF TypeOK, Ops
    <3>2. CASE ShardOf(x) = n
      BY <1>t, <2>1, <2>3, <2>5, <3>1, <3>2, WholeLinesStay DEF TailsFail, InLog, Unread
    <3>3. CASE ShardOf(x) # n
      BY <2>3, <2>5, <3>1, <3>3, NamesUsed DEF InLog, Unread
    <3>. QED BY <3>2, <3>3
  <2>6. Unread' \subseteq Unread
    BY <2>5 DEF Unread
  <2>7. TailsFail'
    <3>1. pc'[m] = "return" /\ result'[m] = "error"
      BY <1>t, <2>1 DEF TypeOK, Ops
    <3>2. \A x \in Stores : x # m => pc'[x] = pc[x] /\ result'[x] = result[x]
      BY <1>t, <2>1 DEF TypeOK, Ops
    <3>3. \A x \in Names, y \in Stores : file'[x].tail = y => y = m \/ file[x].tail = y
      BY <2>3, FileAssumption DEF Ops
    <3>. QED BY <1>t, <3>1, <3>2, <3>3 DEF TailsFail
  <2>. QED BY <1>f, <2>1, <2>4, <2>6, <2>7, LossCounted DEF LossInv, TailsFail
<1>3. ASSUME UNCHANGED file, faults <= faults',
             \A m \in Stores : result'[m] = "ok" => result[m] = "ok",
             \A m \in Stores : pc[m] \in {"return", "done"} => pc'[m] \in {"return", "done"}
      PROVE  LossInv'
  <2>1. Unread' \subseteq Unread /\ Unterminated' = Unterminated /\ TailsFail'
    BY <1>t, <1>3 DEF Unread, Unterminated, InLog, TailsFail
  <2>. QED BY <1>f, <1>3, <2>1, LossCounted DEF LossInv, TailsFail
<1>4. ASSUME NEW m \in Stores, Lock(m, "write") \/ StoreOpenFails(m) \/ Unlock(m) PROVE LossInv'
  BY <1>f, <1>t, <1>3, <1>4 DEF Lock, StoreOpenFails, Unlock, Fault, Return, Goto, callVars, TypeOK, Ops
<1>5. ASSUME NEW r \in Retrieves, Retrieve(r) PROVE LossInv'
  BY <1>f, <1>t, <1>3, <1>5, FileAssumption DEF Retrieve, RLock, ReadShard, ReadFails, RetrieveDone,
     Unlock, Fault, Return, Goto, callVars, TypeOK, Ops
<1>6. ASSUME NEW g \in Migrations, MigrateUnneeded(g) \/ Unlock(g) PROVE LossInv'
  BY <1>f, <1>t, <1>3, <1>6, FileAssumption DEF MigrateUnneeded, Unlock, Return, Goto, callVars, TypeOK, Ops
<1>7. CASE Crash
  BY <1>f, <1>t, <1>3, <1>7, FileAssumption DEF Crash, Fault, TypeOK, CallInv, Ops
<1>8. CASE UNCHANGED vars
  BY <1>f, <1>3, <1>8 DEF vars, callVars
<1>. QED
  BY <1>1, <1>2, <1>4, <1>5, <1>6, <1>7, <1>8, <1>t, MigrationsIdle DEF Next, Store

\* While every shard is one that is searched, each failed write or crash costs at most one
\* acknowledged message, for any number of stores: Store ends the damage with its newline.
THEOREM FaultsAreBounded ==
  ASSUME Searchable
  PROVE  Spec => []OneLostPerFault
<1>1. Init => LossInv
  <2> SUFFICES ASSUME Init PROVE LossInv
    OBVIOUS
  <2>1. Unread = {} /\ Unterminated = {}
    BY FileAssumption DEF Init, Unread, Unterminated, Empty, Ops
  <2>. QED BY <2>1, FS_EmptySet, FileAssumption DEF Init, LossInv, Empty, Ops
<1>2. FInv /\ LossInv /\ [Next]_vars => LossInv'
  BY NextLossInv
<1>3. FInv /\ LossInv => OneLostPerFault
  <2> SUFFICES ASSUME FInv, LossInv PROVE OneLostPerFault
    OBVIOUS
  <2> DEFINE Gone == {m \in Acked : ~Readable(m)}
  <2>1. Gone \subseteq Unread
    BY NamesUsed DEF Acked, Readable, Unread, InLog
  <2>2. IsFiniteSet(Gone) /\ Cardinality(Gone) <= Cardinality(Unread)
    BY <2>1, FS_Subset DEF LossInv
  <2>3. /\ Cardinality(Gone) \in Nat /\ Cardinality(Unread) \in Nat
        /\ Cardinality(Unterminated) \in Nat /\ faults \in Nat
    BY <2>2, FS_CardinalityType, FileAssumption DEF LossInv, FInv, TypeOK
  <2>. QED BY <2>2, <2>3 DEF LossInv, OneLostPerFault
<1>. QED BY FileInvariance, <1>1, <1>2, <1>3, PTL DEF Spec
-----------------------------------------------------------------------------
(* When FileStorage is Searchable *)

\* HexName prints a number as its two digits.
LEMMA TwoDigits ==
  ASSUME NEW a \in 0..(HexBase - 1), NEW b \in 0..(HexBase - 1)
  PROVE  a * HexBase + b \in 0..(NumShards - 1) /\ HexName(a * HexBase + b) = Shard(<<a, b>>)
<1>1. HexBase \in Nat /\ HexBase > 1 /\ a \in Nat /\ b \in Nat /\ a < HexBase /\ b < HexBase
  BY FileAssumption
<1>2. a * HexBase + b \in 0..(NumShards - 1)
  BY <1>1 DEF NumShards
<1>3. (a * HexBase + b) \div HexBase = a /\ (a * HexBase + b) % HexBase = b
  BY <1>1
<1>. QED BY <1>2, <1>3 DEF HexName

\* The first two characters of a longer ID are its shard at depth 2.
LEMMA FirstTwo ==
  ASSUME NEW S, NEW s \in Seq(S), Len(s) >= 2
  PROVE  SubSeq(s, 1, 2) = <<s[1], s[2]>>
<1> DEFINE q == SubSeq(s, 1, 2)
           t == <<s[1], s[2]>>
<1>1. q \in Seq(S) /\ Len(q) = 2 /\ q[1] = s[1] /\ q[2] = s[2]
  OBVIOUS
<1>2. s[1] \in S /\ s[2] \in S
  OBVIOUS
<1>3. t \in Seq(S) /\ Len(t) = 2 /\ t[1] = s[1] /\ t[2] = s[2]
  BY <1>2
<1> HIDE DEF q, t
<1>4. \A i \in 1..2 : q[i] = t[i]
  <2> TAKE i \in 1..2
  <2>1. i = 1 \/ i = 2
    OBVIOUS
  <2>. QED BY <1>1, <1>3, <2>1
<1>5. q = t
  BY <1>1, <1>3, <1>4, SeqEqual
<1>. QED BY <1>5 DEF q, t

\* With a SHARD_DEPTH of 2, IDs that begin with two lower-case hexadecimal digits, as the
\* UUIDs that NewMessagePayload makes do, are all that Retrieve needs to find a message.
THEOREM UuidsAreSearchable ==
  ASSUME Depth = 2, OldDepth = NewDepth \/ Migrations = {},
         \A m \in Stores : Len(Id[m]) >= 2 /\ Id[m][1] < HexBase /\ Id[m][2] < HexBase
  PROVE  Searchable
<1> SUFFICES ASSUME NEW m \in Stores PROVE \E n \in 0..(NumShards - 1) : ShardOf(m) = HexName(n)
  BY DEF Searchable
<1>1. Id[m] \in Seq(0..HexBase) /\ Len(Id[m]) \in Nat /\ HexBase \in Nat
  BY FileAssumption
<1>2. Id[m][1] \in 0..(HexBase - 1) /\ Id[m][2] \in 0..(HexBase - 1)
  BY <1>1
<1>3. GetShard(Id[m]) = <<Id[m][1], Id[m][2]>>
  BY <1>1, FirstTwo DEF GetShard
<1>. QED BY <1>2, <1>3, TwoDigits DEF ShardOf
=============================================================================
