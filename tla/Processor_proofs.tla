--------------------------- MODULE Processor_proofs --------------------------
(***************************************************************************)
(* Proofs about Processor: it uses FileStorage only as FileStorage allows, *)
(* and its order of steps makes what is published findable.                *)
(***************************************************************************)
EXTENDS Processor, FileRefinement_proofs

\* What a call has done by each stage, and what each search was told of by its start.
StageInv ==
  /\ DOMAIN uri = Stores
  /\ \A m \in Stores : /\ stage[m] = "insert" => m \in Acked
                       /\ stage[m] = "publish" => m \in row
  /\ \A r \in Retrieves : pc[r] # "idle" => seen[r] \subseteq acked[r]

PInv == ProcessTypeOK /\ StoredThenPublished /\ ContentKept /\ StageInv
-----------------------------------------------------------------------------
\* A step of the processor does with the files what FileStorage allows.
LEMMA Simulates == [ProcessNext]_allVars => [Next]_vars
BY DEF ProcessNext, allVars, ProcessMessage, Begin, Offload, OffloadFails, StoreMessage, Stored,
       Insert, InsertFails, Publish, PublishFails, Search, Die, Next

\* ProcessMessage does with the files what FileStorage allows.
THEOREM UsesFileStorage == ProcessSpec => Spec
<1>1. ProcessInit => Init
  BY DEF ProcessInit
<1>. QED BY <1>1, Simulates, PTL DEF ProcessSpec, Spec

\* No call has begun.
LEMMA InitPInv == ProcessInit => PInv
<1> SUFFICES ASSUME ProcessInit PROVE PInv
  OBVIOUS
<1> USE DEF ProcessInit, Init, Ops
<1>1. ProcessTypeOK
  BY DEF ProcessTypeOK
<1>2. StoredThenPublished /\ ContentKept
  BY DEF StoredThenPublished, ContentKept
<1>3. StageInv
  BY DEF StageInv
<1>. QED BY <1>1, <1>2, <1>3 DEF PInv

\* A Store moves no other call.
LEMMA StoreSteps ==
  ASSUME FInv, NEW m \in Stores, Store(m)
  PROVE  /\ UNCHANGED acked /\ pc'[m] # "idle"
         /\ \A o \in Ops : o # m => pc'[o] = pc[o]
<1> USE FileAssumption DEF Ops, mutex, callVars, histories, Return, Goto
<1>t. TypeOK
  BY DEF FInv
<1>1. \E state \in {"write", "return", "done"} : pc' = [pc EXCEPT ![m] = state]
  BY DEF Store, Lock, StoreWrite, StoreOpenFails, StoreWriteFails, Unlock
<1>2. UNCHANGED acked
  BY DEF Store, Lock, StoreWrite, StoreOpenFails, StoreWriteFails, Unlock
<1>. QED BY <1>t, <1>1, <1>2 DEF TypeOK

\* Nor does a migration.
LEMMA MigrateSteps ==
  ASSUME FInv, NEW g \in Migrations, MigrateShards(g)
  PROVE  UNCHANGED acked /\ \A o \in Stores \cup Retrieves : pc'[o] = pc[o]
<1> USE FileAssumption DEF Ops, mutex, callVars, histories, Return, Goto
<1>t. TypeOK
  BY DEF FInv
<1>1. \E state : pc' = pc \/ pc' = [pc EXCEPT ![g] = state]
  BY DEF MigrateShards, MigrateUnneeded, MigrateLock, Lock, MigrateRead, MigrateReadFails,
         MigrateLine, MigrateLineFails, MigrateRemove, MigrateDone, Unlock
<1>2. UNCHANGED acked
  BY DEF MigrateShards, MigrateUnneeded, MigrateLock, Lock, MigrateRead, MigrateReadFails,
         MigrateLine, MigrateLineFails, MigrateRemove, MigrateDone, Unlock
<1>. QED BY <1>t, <1>1, <1>2 DEF TypeOK

\* Every step of ProcessMessage keeps what its stages have behind them.
LEMMA NextPInv ==
  ASSUME FInv, PInv, [ProcessNext]_allVars
  PROVE  PInv'
<1> USE DEF At, Upload
<1>t. ProcessTypeOK /\ StoredThenPublished /\ ContentKept /\ StageInv
  BY DEF PInv
<1>n. Acked \subseteq Acked' /\ Acked \subseteq Stores
  BY Simulates, AckedStays DEF Acked
<1>k. \A m \in Stores : Key(m) \in Keys
  BY DEF Keys
<1>1. ASSUME NEW m \in Stores,
             Begin(m) \/ Offload(m) \/ OffloadFails(m) \/ Stored(m)
               \/ Insert(m) \/ InsertFails(m) \/ Publish(m) \/ PublishFails(m)
      PROVE  PInv'
  <2>1. UNCHANGED <<pc, result, acked, seen>> /\ Acked' = Acked
    BY <1>1 DEF Begin, Offload, OffloadFails, Stored, Insert, InsertFails, Publish, PublishFails,
                vars, histories, callVars, Acked
  <2>2. CASE Begin(m) \/ Stored(m)
    <3>1. UNCHANGED <<uri, object, row, published, refused>> /\ stage[m] \in {"new", "store"}
      BY <2>2 DEF Begin, Stored
    <3>2. \E s \in {"upload", "store", "insert", "error"} :
            /\ stage' = [stage EXCEPT ![m] = s]
            /\ s = "upload" => stage[m] = "new"
            /\ s = "insert" => m \in Acked
            /\ s = "error" => uri[m] = None \/ pc[m] = "done"
      BY <1>t, <2>2 DEF Begin, Stored, Acked, ProcessTypeOK
    <3>3. ProcessTypeOK'
      BY <1>t, <2>1, <3>1, <3>2 DEF ProcessTypeOK
    <3>4. StoredThenPublished' /\ StageInv'
      BY <1>t, <2>1, <3>1, <3>2 DEF StoredThenPublished, StageInv, ProcessTypeOK
    <3>5. ContentKept'
      BY <1>t, <2>1, <3>1, <3>2 DEF ContentKept, ProcessTypeOK
    <3>. QED BY <3>3, <3>4, <3>5 DEF PInv
  <2>3. CASE Offload(m) \/ OffloadFails(m)
    <3>1. /\ UNCHANGED <<row, published>> /\ stage[m] = "upload"
          /\ object' = object \/ object' = [object EXCEPT ![Key(m)] = m]
          /\ \/ uri' = uri /\ stage' = [stage EXCEPT ![m] = "error"]
             \/ uri' = [uri EXCEPT ![m] = Key(m)] /\ stage' = [stage EXCEPT ![m] = "store"]
          /\ refused \subseteq refused' /\ refused' \subseteq refused \cup {m}
          /\ uri' # uri => m \in refused' \/ object'[Key(m)] = m
      BY <1>t, <1>k, <2>3 DEF Offload, OffloadFails, ProcessTypeOK
    <3>2. \A n \in Stores : stage'[n] = "new" => stage[n] = "new" /\ n # m
      BY <1>t, <3>1 DEF ProcessTypeOK
    <3>3. ProcessTypeOK'
      BY <1>t, <1>k, <2>1, <3>1 DEF ProcessTypeOK, StageInv
    <3>4. StoredThenPublished' /\ StageInv'
      BY <1>t, <2>1, <3>1 DEF StoredThenPublished, StageInv, ProcessTypeOK
    <3>5. ASSUME NEW n \in Stores, uri'[n] # None, object'[uri'[n]] # n, n \notin refused'
          PROVE  \E o \in Stores \ {n} : /\ Topic[o] = Topic[n] /\ Timestamp[o] = Timestamp[n]
                                         /\ stage'[o] # "new"
      <4>1. uri'[n] = Key(n)
        BY <3>3, <3>5 DEF ProcessTypeOK
      <4>2. CASE n = m
        <5>1. uri' = uri
          BY <3>1, <3>5, <4>1, <4>2
        <5>2. uri[m] = None
          BY <1>t, <3>1 DEF ProcessTypeOK
        <5>. QED BY <3>5, <4>2, <5>1, <5>2
      <4>3. CASE n # m /\ object'[Key(n)] # object[Key(n)]
        <5>1. Key(n) = Key(m)
          BY <1>k, <1>t, <3>1, <4>3 DEF ProcessTypeOK
        <5>2. Topic[m] = Topic[n] /\ Timestamp[m] = Timestamp[n]
          BY <5>1 DEF Key
        <5>3. stage'[m] # "new"
          BY <3>2
        <5>. QED BY <4>3, <5>2, <5>3
      <4>4. CASE n # m /\ object'[Key(n)] = object[Key(n)]
        <5>1. uri[n] = uri'[n]
          BY <1>t, <3>1, <4>4 DEF StageInv
        <5>2. uri[n] # None /\ object[uri[n]] # n /\ n \notin refused
          BY <3>1, <3>5, <4>1, <4>4, <5>1
        <5>3. PICK o \in Stores \ {n} : /\ Topic[o] = Topic[n] /\ Timestamp[o] = Timestamp[n]
                                        /\ stage[o] # "new"
          BY <1>t, <5>2 DEF ContentKept
        <5>. QED BY <3>2, <5>3
      <4>. QED BY <4>2, <4>3, <4>4
    <3>6. ContentKept'
      BY <3>5 DEF ContentKept
    <3>. QED BY <3>3, <3>4, <3>6 DEF PInv
  <2>4. CASE Insert(m) \/ InsertFails(m) \/ Publish(m) \/ PublishFails(m)
    <3>1. /\ UNCHANGED <<uri, object, refused>>
          /\ \/ /\ stage[m] = "insert" /\ published' = published /\ row' \in {row, row \cup {m}}
                /\ \/ stage' = [stage EXCEPT ![m] = "publish"] /\ m \in row'
                   \/ stage' = [stage EXCEPT ![m] = "error"]
             \/ /\ stage[m] = "publish" /\ row' = row /\ published' \in {published, published \cup {m}}
                /\ \/ stage' = [stage EXCEPT ![m] = "ok"]
                   \/ stage' = [stage EXCEPT ![m] = "error"]
      BY <2>4 DEF Insert, InsertFails, Publish, PublishFails
    <3>2. pc[m] # "idle"
      BY <1>t, <3>1 DEF StageInv, StoredThenPublished, Acked
    <3>3. ProcessTypeOK'
      BY <1>t, <2>1, <3>1, <3>2 DEF ProcessTypeOK
    <3>4. StoredThenPublished' /\ StageInv'
      BY <1>t, <2>1, <3>1 DEF StoredThenPublished, StageInv, ProcessTypeOK
    <3>5. ContentKept'
      BY <1>t, <2>1, <3>1 DEF ContentKept, ProcessTypeOK
    <3>. QED BY <3>3, <3>4, <3>5 DEF PInv
  <2>. QED BY <1>1, <2>2, <2>3, <2>4
<1>2. ASSUME NEW m \in Stores, StoreMessage(m) PROVE PInv'
  <2>1. stage[m] = "store" /\ UNCHANGED processVars /\ Store(m)
    BY <1>2 DEF StoreMessage
  <2>2. acked' = acked /\ pc'[m] # "idle" /\ \A o \in Ops : o # m => pc'[o] = pc[o]
    BY <2>1, StoreSteps
  <2>3. ProcessTypeOK' /\ ContentKept'
    BY <1>t, <2>1, <2>2 DEF processVars, ProcessTypeOK, ContentKept, Ops
  <2>4. StoredThenPublished' /\ StageInv'
    BY <1>t, <1>n, <2>1, <2>2, FileAssumption DEF processVars, StoredThenPublished, StageInv, Ops
  <2>. QED BY <2>3, <2>4 DEF PInv
<1>3. ASSUME NEW r \in Retrieves, Search(r) PROVE PInv'
  <2>1. /\ Retrieve(r) /\ UNCHANGED <<stage, uri, object, row, published, refused>>
        /\ seen' = IF pc[r] = "idle" THEN [seen EXCEPT ![r] = published] ELSE seen
    BY <1>3 DEF Search
  <2>2. \A m \in Stores : pc'[m] = pc[m]
    <3>1. \E state : pc' = [pc EXCEPT ![r] = state] \/ pc' = pc
      BY <2>1 DEF Retrieve, RLock, ReadShard, ReadFails, RetrieveDone, Unlock, Return, Goto
    <3>2. \A m \in Stores : m # r
      BY FileAssumption
    <3>. QED BY <3>1, <3>2 DEF FInv, TypeOK, Ops
  <2>3. ProcessTypeOK' /\ ContentKept'
    BY <1>t, <2>1, <2>2 DEF ProcessTypeOK, ContentKept
  <2>4. \A q \in Retrieves : pc'[q] # "idle" => seen'[q] \subseteq acked'[q]
    BY <1>t, <2>1, RetrieveSteps DEF StageInv, StoredThenPublished, ProcessTypeOK
  <2>5. StoredThenPublished' /\ StageInv'
    BY <1>t, <1>n, <2>1, <2>4 DEF StoredThenPublished, StageInv
  <2>. QED BY <2>3, <2>5 DEF PInv
<1>4. ASSUME NEW g \in Migrations, MigrateShards(g), UNCHANGED processVars PROVE PInv'
  <2>1. acked' = acked /\ \A o \in Stores \cup Retrieves : pc'[o] = pc[o]
    BY <1>4, MigrateSteps
  <2>2. ProcessTypeOK' /\ ContentKept'
    BY <1>t, <1>4, <2>1 DEF processVars, ProcessTypeOK, ContentKept
  <2>3. StoredThenPublished' /\ StageInv'
    BY <1>t, <1>n, <1>4, <2>1 DEF processVars, StoredThenPublished, StageInv
  <2>. QED BY <2>2, <2>3 DEF PInv
<1>5. CASE Die
  <2>1. /\ UNCHANGED <<uri, object, row, published, refused, seen, acked>>
        /\ pc' = [o \in Ops |-> IF pc[o] = "idle" THEN "idle" ELSE "done"]
        /\ stage' = [m \in Stores |-> IF stage[m] \in {"new", "ok", "error"} THEN stage[m] ELSE "lost"]
    BY <1>5 DEF Die, Crash, histories
  <2>2. ProcessTypeOK' /\ ContentKept'
    BY <1>t, <2>1 DEF ProcessTypeOK, ContentKept, Ops
  <2>3. StoredThenPublished' /\ StageInv'
    BY <1>t, <1>n, <2>1 DEF StoredThenPublished, StageInv, Ops
  <2>. QED BY <2>2, <2>3 DEF PInv
<1>6. CASE UNCHANGED allVars
  BY <1>6, <1>t DEF allVars, vars, histories, callVars, processVars, PInv, ProcessTypeOK,
                    StoredThenPublished, ContentKept, StageInv, Acked
<1>. QED BY <1>1, <1>2, <1>3, <1>4, <1>5, <1>6 DEF ProcessNext, ProcessMessage

\* Each stage of ProcessMessage has behind it what the stages before it do, in every state.
THEOREM ProcessInvariance == ProcessSpec => []PInv
BY UsesFileStorage, FileInvariance, InitPInv, NextPInv, PTL DEF ProcessSpec

\* Types, and that no message loses its content to an upload that failed.
THEOREM ProcessTypes == ProcessSpec => []ProcessTypeOK
<1>1. PInv => ProcessTypeOK
  BY DEF PInv
<1>. QED BY ProcessInvariance, <1>1, PTL

\* File, then row, then broker, whatever fails: the order of ProcessMessage.
THEOREM StoresThenPublishes == ProcessSpec => []StoredThenPublished
<1>1. PInv => StoredThenPublished
  BY DEF PInv
<1>. QED BY ProcessInvariance, <1>1, PTL

\* Two messages under one key, or an upload refused, are the only ways to lose
\* content: offloadToS3 and UploadFile.
THEOREM KeepsContent == ProcessSpec => []ContentKept
<1>1. PInv => ContentKept
  BY DEF PInv
<1>. QED BY ProcessInvariance, <1>1, PTL

\* While the shards are those Retrieve reads, a published message is found.
THEOREM FindsPublished ==
  ASSUME Searchable
  PROVE  ProcessSpec => []PublishedIsFound
<1>1. PInv /\ AckedIsFound => PublishedIsFound
  BY DEF PInv, StageInv, AckedIsFound, PublishedIsFound, Finished
<1>. QED BY UsesFileStorage, FindsAcked, ProcessInvariance, <1>1, PTL

\* What has been published can still be read from a file, wherever ProcessMessage or a
\* migration broke off, unless a write to the message's old or new file was cut short.
THEOREM KeepsPublished ==
  ProcessSpec => [](\A m \in published :
                      \/ \E name \in Names : m \in Parsed(file[name])
                      \/ ShardOf(m) \in damaged
                      \/ m \in Movable /\ MigratedName(Id[m]) \in damaged)
<1>1. StoredThenPublished /\ MigrationLosesNothing =>
        \A m \in published :
          \/ \E name \in Names : m \in Parsed(file[name])
          \/ ShardOf(m) \in damaged
          \/ m \in Movable /\ MigratedName(Id[m]) \in damaged
  BY DEF StoredThenPublished, MigrationLosesNothing
<1>. QED BY UsesFileStorage, MigrationsLoseNothing, StoresThenPublishes, <1>1, PTL
=============================================================================
