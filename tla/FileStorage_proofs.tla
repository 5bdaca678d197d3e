------------------------- MODULE FileStorage_proofs -------------------------
(***************************************************************************)
(* Proofs about FileStorage, with migrations, for any calls, IDs, depths   *)
(* and number of faults.                                                   *)
(***************************************************************************)
EXTENDS FileStorage, TLAPS

Files == [lines : Seq(Line), tail : Line \cup {None}]

\* The calls in their critical section hold the mutex; a search holds it until
\* it unlocks.
CallInv ==
  /\ \A m \in Stores : /\ pc[m] \in {"idle", "write", "return", "done"}
                       /\ pc[m] = "write" => writer = m
                       /\ result[m] \in {"ok", "error", None}
                       /\ result[m] # None => pc[m] \in {"return", "done"}
  /\ \A r \in Retrieves : /\ pc[r] \in {"idle", "read", "return", "done"}
                          /\ pc[r] \in {"read", "return"} => r \in readers
                          /\ result[r] # None => pc[r] \in {"return", "done"}
                          /\ pc[r] = "idle" => shard[r] = 0 /\ found[r] = {}
  /\ \A g \in Migrations : /\ pc[g] \in {"idle", "migrate", "copy", "return", "done"}
                           /\ pc[g] \in {"migrate", "copy"} => writer = g /\ OldDepth # NewDepth
                           /\ pc[g] = "copy" => shard[g] < OldShards

\* Only a write cut short leaves a file without its last newline.
TailInv == \A name \in Names : file[name].tail # None => name \in damaged

\* A stored message is in its shard or in the file a migration moved it to,
\* unless a write to that file was cut short.
Moved(m) ==
  m \in Movable /\ (m \in Parsed(file[MigratedName(Id[m])]) \/ MigratedName(Id[m]) \in damaged)
Kept(m) == m \in Parsed(file[ShardOf(m)]) \/ ShardOf(m) \in damaged \/ Moved(m)
KeptInv == \A m \in Stores : result[m] = "ok" => Kept(m)

\* A migration still has to copy what it has not moved yet of its old file.
CopyInv ==
  \A g \in Migrations : pc[g] = "copy" =>
    \A m \in Parsed(file[OldName(g)]) :
      Moved(m) \/ \E i \in DOMAIN pending[g] : pending[g][i] = m

FInv == TypeOK /\ CallInv /\ TailInv /\ KeptInv /\ CopyInv
-----------------------------------------------------------------------------
\* What a file holds after a whole line was appended to it.
LEMMA ParsedAppended ==
  ASSUME NEW f \in Files, NEW m \in Stores
  PROVE  /\ Appended(f, m) \in Files
         /\ Appended(f, m).tail = None
         /\ Parsed(f) \subseteq Stores
         /\ f.tail = None => Parsed(Appended(f, m)) = Parsed(f) \cup {m}
<1> USE FileAssumption DEF Files, Line, Ops
<1> DEFINE l == IF f.tail = None THEN m ELSE Garbage
<1>1. l \in Line /\ f.lines \in Seq(Line) /\ Len(f.lines) \in Nat
  OBVIOUS
<1>2. Append(f.lines, l) \in Seq(Line)
  BY <1>1
<1>3. Appended(f, m) = [lines |-> Append(f.lines, l), tail |-> None]
  BY DEF Appended
<1>4. Lines(f) \in Seq(Line)
  BY <1>1 DEF Lines
<1>5. Parsed(f) \subseteq Stores
  BY <1>4 DEF Parsed
<1>6. ASSUME f.tail = None PROVE Parsed(Appended(f, m)) = Parsed(f) \cup {m}
  <2>1. Lines(Appended(f, m)) = Append(f.lines, m) /\ Lines(f) = f.lines
    BY <1>3, <1>6 DEF Lines
  <2>2. DOMAIN Append(f.lines, m) = 1..(Len(f.lines) + 1) /\ DOMAIN f.lines = 1..Len(f.lines)
    BY <1>1
  <2>3. /\ Append(f.lines, m)[Len(f.lines) + 1] = m
        /\ \A i \in 1..Len(f.lines) : Append(f.lines, m)[i] = f.lines[i]
    BY <1>1
  <2>4. \A x : x \in Parsed(Appended(f, m)) <=> x \in Parsed(f) \/ x = m
    <3> TAKE x
    <3>1. x \in Parsed(f) <=> x # Garbage /\ \E i \in 1..Len(f.lines) : x = f.lines[i]
      BY <2>1, <2>2 DEF Parsed
    <3>2. x \in Parsed(Appended(f, m)) <=>
            x # Garbage /\ \E i \in 1..(Len(f.lines) + 1) : x = Append(f.lines, m)[i]
      BY <2>1, <2>2 DEF Parsed
    <3>3. m # Garbage
      OBVIOUS
    <3> HIDE DEF Files, Line, l
    <3>4. (\E i \in 1..(Len(f.lines) + 1) : x = Append(f.lines, m)[i])
            <=> x = m \/ \E i \in 1..Len(f.lines) : x = f.lines[i]
      BY <1>1, <2>3
    <3>. QED BY <3>1, <3>2, <3>3, <3>4
  <2>. QED BY <2>4
<1>7. Appended(f, m) \in Files /\ Appended(f, m).tail = None
  BY <1>2, <1>3
<1>. QED BY <1>5, <1>6, <1>7

\* What can be read from a file: lines, and messages.
LEMMA ParsedIsStores ==
  ASSUME NEW f \in Files
  PROVE  Lines(f) \in Seq(Line) /\ Parsed(f) \subseteq Stores
<1>1. Lines(f) \in Seq(Line)
  BY DEF Lines, Files, Line
<1>. QED BY <1>1 DEF Parsed, Line

\* A write cut short leaves a file.
LEMMA CutShortFile ==
  ASSUME NEW f \in Files, NEW m \in Stores, NEW t \in CutShort(f, m)
  PROVE  t \in Files
BY DEF CutShort, Files, Line

\* The names the operations use are names of files; a migrated name is none that
\* MigrateShards or Store uses.
LEMMA NamesUsed ==
  /\ \A m \in Stores : ShardOf(m) \in Names
  /\ \A m \in Movable : MigratedName(Id[m]) \in Names
  /\ \A n \in 0..(NumShards - 1) : HexName(n) \in Names
  /\ \A n \in 0..(OldShards - 1) : DecimalName(n) \in Names
BY DEF Names

\* A file that MigrateShards writes is none that it reads and none that Store writes.
LEMMA NamesDiffer ==
  ASSUME NEW m, NEW n
  PROVE  MigratedName(Id[m]) # DecimalName(n) /\ MigratedName(Id[m]) # ShardOf(n)
BY DEF MigratedName, DecimalName, ShardOf, Shard

\* An empty file is a file, of which nothing can be read.
LEMMA EmptyFile == Empty \in Files /\ Parsed(Empty) = {}
<1>1. Empty \in Files
  BY FileAssumption DEF Empty, Files
<1>2. Lines(Empty) = <<>>
  BY DEF Empty, Lines
<1>. QED BY <1>1, <1>2 DEF Parsed

\* The numbers of shards are numbers.
LEMMA NumShardsNat == NumShards \in Nat /\ OldShards \in Nat
BY FileAssumption DEF NumShards
-----------------------------------------------------------------------------
\* The files after a whole line was appended to one of them.
LEMMA LineWritten ==
  ASSUME TypeOK, TailInv, NEW n \in Names, NEW m \in Stores,
         file' = [file EXCEPT ![n] = Appended(file[n], m)], damaged' = damaged
  PROVE  /\ file' \in [Names -> Files]
         /\ TailInv'
         /\ \A x \in Names : x # n => file'[x] = file[x]
         /\ n \notin damaged => Parsed(file'[n]) = Parsed(file[n]) \cup {m}
<1>1. file \in [Names -> Files] /\ file[n] \in Files
  BY DEF TypeOK, Files
<1>2. /\ Appended(file[n], m) \in Files /\ Appended(file[n], m).tail = None
      /\ file[n].tail = None => Parsed(Appended(file[n], m)) = Parsed(file[n]) \cup {m}
  BY <1>1, ParsedAppended
<1>3. n \notin damaged => file[n].tail = None
  BY DEF TailInv
<1>4. file'[n] = Appended(file[n], m) /\ \A x \in Names : x # n => file'[x] = file[x]
  BY <1>1
<1>5. TailInv'
  BY <1>2, <1>4 DEF TailInv
<1>. QED BY <1>1, <1>2, <1>3, <1>4, <1>5

\* The files after a write was cut short.
LEMMA LineCutShort ==
  ASSUME TypeOK, TailInv, NEW n \in Names, NEW m \in Stores, NEW f \in CutShort(file[n], m),
         file' = [file EXCEPT ![n] = f], damaged' = damaged \cup {n}
  PROVE  /\ file' \in [Names -> Files] /\ damaged' \subseteq Names
         /\ TailInv'
         /\ \A x \in Names : x # n => file'[x] = file[x]
<1>1. file \in [Names -> Files] /\ file[n] \in Files /\ damaged \subseteq Names
  BY DEF TypeOK, Files
<1>2. f \in Files
  BY <1>1, CutShortFile
<1>3. \A x \in Names : x # n => file'[x] = file[x]
  BY <1>1
<1>. QED BY <1>1, <1>2, <1>3 DEF TailInv

\* What is stored stays stored when nothing is written.
LEMMA NothingWritten ==
  ASSUME TailInv, KeptInv, UNCHANGED <<file, damaged>>
  PROVE  /\ TailInv'
         /\ \A m : Moved(m)' <=> Moved(m)
         /\ \A m : Kept(m)' <=> Kept(m)
BY DEF TailInv, Moved, Kept

\* The storage starts in the invariant.
LEMMA InitFInv == Init => FInv
<1> SUFFICES ASSUME Init PROVE FInv
  OBVIOUS
<1> USE FileAssumption, NumShardsNat DEF Init, Ops
<1>1. file \in [Names -> Files]
  BY EmptyFile
<1>2. pending \in [Migrations -> Seq(Line)]
  OBVIOUS
<1>3. TypeOK
  BY <1>1, <1>2 DEF TypeOK, Files
<1>4. TailInv
  BY DEF TailInv, Empty
<1>5. CallInv
  BY DEF CallInv
<1>6. KeptInv /\ CopyInv
  BY DEF KeptInv, CopyInv
<1>. QED BY <1>3, <1>4, <1>5, <1>6 DEF FInv

\* Steps that write no file and leave the old file of a migration to copy as it
\* is keep FInv when they keep types and the control part.
LEMMA QuietStep ==
  ASSUME FInv, UNCHANGED <<file, damaged>>, TypeOK', CallInv',
         \A m \in Stores : result'[m] = "ok" => result[m] = "ok",
         \A g \in Migrations : pc'[g] = "copy" =>
           pc[g] = "copy" /\ shard'[g] = shard[g] /\ pending'[g] = pending[g]
  PROVE  FInv'
<1>1. TailInv' /\ \A m : (Moved(m)' <=> Moved(m)) /\ (Kept(m)' <=> Kept(m))
  BY NothingWritten DEF FInv
<1>2. KeptInv'
  BY <1>1 DEF FInv, KeptInv
<1>3. CopyInv'
  BY <1>1 DEF FInv, CopyInv, OldName
<1>. QED BY <1>1, <1>2, <1>3 DEF FInv

\* Every step of every call, and a crash, keeps the invariant.
LEMMA NextFInv == FInv /\ [Next]_vars => FInv'
<1> SUFFICES ASSUME FInv, [Next]_vars PROVE FInv'
  OBVIOUS
<1> USE FileAssumption, NumShardsNat DEF Ops, mutex, callVars, histories, Return, Goto, Fault
<1>t. TypeOK /\ CallInv /\ TailInv /\ KeptInv /\ CopyInv
  BY DEF FInv
<1>1. ASSUME NEW m \in Stores, Lock(m, "write") PROVE FInv'
  <2>1. TypeOK'
    BY <1>1, <1>t DEF Lock, TypeOK, CallInv
  <2>2. CallInv'
    BY <1>1, <1>t DEF Lock, TypeOK, CallInv
  <2>. QED BY <1>1, <1>t, <2>1, <2>2, QuietStep DEF Lock, TypeOK
<1>2. ASSUME NEW m \in Stores, StoreWrite(m) PROVE FInv'
  <2> DEFINE n == ShardOf(m)
  <2>1. n \in Names /\ pc[m] = "write" /\ writer = m /\ result[m] = None
    BY <1>2, <1>t, NamesUsed DEF StoreWrite, CallInv
  <2>2. /\ file' \in [Names -> Files] /\ TailInv'
        /\ \A x \in Names : x # n => file'[x] = file[x]
        /\ n \notin damaged => Parsed(file'[n]) = Parsed(file[n]) \cup {m}
    BY <1>2, <1>t, <2>1, LineWritten DEF StoreWrite, Write
  <2>3. TypeOK'
    BY <1>2, <1>t, <2>2 DEF StoreWrite, TypeOK, Files
  <2>4. CallInv'
    BY <1>2, <1>t DEF StoreWrite, TypeOK, CallInv
  <2>5. KeptInv'
    <3> SUFFICES ASSUME NEW x \in Stores, result'[x] = "ok" PROVE Kept(x)'
      BY DEF KeptInv
    <3>1. damaged' = damaged
      BY <1>2 DEF StoreWrite
    <3>2. CASE x = m
      BY <2>2, <3>1, <3>2 DEF Kept
    <3>3. CASE x # m
      <4>1. Kept(x) /\ ShardOf(x) \in Names
        BY <1>2, <1>t, <3>3, NamesUsed DEF StoreWrite, KeptInv, TypeOK
      <4>2. \A y \in Names : y \in damaged \/ Parsed(file[y]) \subseteq Parsed(file'[y])
        BY <2>2
      <4>. QED BY <3>1, <4>1, <4>2, NamesUsed DEF Kept, Moved
    <3>. QED BY <3>2, <3>3
  <2>6. CopyInv'
    BY <1>2, <1>t, <2>1 DEF StoreWrite, CallInv, CopyInv, TypeOK
  <2>. QED BY <2>2, <2>3, <2>4, <2>5, <2>6 DEF FInv
<1>3. ASSUME NEW m \in Stores, StoreOpenFails(m) PROVE FInv'
  <2>1. TypeOK'
    BY <1>3, <1>t DEF StoreOpenFails, TypeOK
  <2>2. CallInv'
    BY <1>3, <1>t DEF StoreOpenFails, TypeOK, CallInv
  <2>. QED BY <1>3, <1>t, <2>1, <2>2, QuietStep DEF StoreOpenFails, TypeOK
<1>4. ASSUME NEW m \in Stores, StoreWriteFails(m) PROVE FInv'
  <2> DEFINE n == ShardOf(m)
  <2>1. n \in Names /\ pc[m] = "write" /\ writer = m
    BY <1>4, <1>t, NamesUsed DEF StoreWriteFails, CallInv
  <2>2. PICK f \in CutShort(file[n], m) : file' = [file EXCEPT ![n] = f]
    BY <1>4 DEF StoreWriteFails, Write
  <2>3. /\ file' \in [Names -> Files] /\ damaged' \subseteq Names /\ TailInv'
        /\ \A x \in Names : x # n => file'[x] = file[x]
    BY <1>4, <1>t, <2>1, <2>2, LineCutShort DEF StoreWriteFails
  <2>4. TypeOK'
    BY <1>4, <1>t, <2>3 DEF StoreWriteFails, TypeOK, Files
  <2>5. CallInv'
    BY <1>4, <1>t DEF StoreWriteFails, TypeOK, CallInv
  <2>6. KeptInv'
    <3> SUFFICES ASSUME NEW x \in Stores, result'[x] = "ok" PROVE Kept(x)'
      BY DEF KeptInv
    <3>1. damaged' = damaged \cup {n} /\ Kept(x)
      BY <1>4, <1>t DEF StoreWriteFails, KeptInv, TypeOK
    <3>. QED BY <2>3, <3>1, NamesUsed DEF Kept, Moved
  <2>7. CopyInv'
    BY <1>4, <1>t, <2>1 DEF StoreWriteFails, CallInv, CopyInv, TypeOK
  <2>. QED BY <2>3, <2>4, <2>5, <2>6, <2>7 DEF FInv
<1>5. ASSUME NEW r \in Retrieves, RLock(r) PROVE FInv'
  <2>1. TypeOK'
    BY <1>5, <1>t DEF RLock, TypeOK, CallInv, Acked
  <2>2. CallInv'
    BY <1>5, <1>t DEF RLock, TypeOK, CallInv
  <2>. QED BY <1>5, <1>t, <2>1, <2>2, QuietStep DEF RLock, TypeOK
<1>6. ASSUME NEW r \in Retrieves, ReadShard(r) PROVE FInv'
  <2>1. shard[r] \in 0..(NumShards - 1) /\ HexName(shard[r]) \in Names
    BY <1>6, <1>t, NamesUsed DEF ReadShard, TypeOK
  <2>2. Parsed(file[HexName(shard[r])]) \subseteq Stores
    BY <1>t, <2>1, ParsedIsStores DEF TypeOK, Files
  <2>3. TypeOK'
    BY <1>6, <1>t, <2>1, <2>2 DEF ReadShard, TypeOK
  <2>4. CallInv'
    BY <1>6, <1>t DEF ReadShard, TypeOK, CallInv
  <2>. QED BY <1>6, <1>t, <2>3, <2>4, QuietStep DEF ReadShard, TypeOK
<1>7. ASSUME NEW r \in Retrieves, ReadFails(r) \/ RetrieveDone(r) PROVE FInv'
  <2>1. /\ pc[r] = "read" /\ pc' = [pc EXCEPT ![r] = "return"]
        /\ \E res \in {"ok", "error"} : result' = [result EXCEPT ![r] = res]
        /\ found' = found \/ found' = [found EXCEPT ![r] = {}]
        /\ faults' \in 0..MaxFaults
        /\ UNCHANGED <<file, writer, readers, shard, pending, acked, damaged>>
    BY <1>7, <1>t DEF ReadFails, RetrieveDone, TypeOK
  <2>2. TypeOK'
    <3>1. found' \in [Retrieves -> SUBSET Stores]
      BY <1>t, <2>1 DEF TypeOK
    <3>2. result' \in [Ops -> {"ok", "error", "panic", None}]
      BY <1>t, <2>1 DEF TypeOK
    <3>. QED BY <1>t, <2>1, <3>1, <3>2 DEF TypeOK
  <2>3. CallInv'
    BY <1>t, <2>1 DEF TypeOK, CallInv
  <2>. QED BY <1>t, <2>1, <2>2, <2>3, QuietStep DEF TypeOK
<1>8. ASSUME NEW o \in Ops, Unlock(o) PROVE FInv'
  <2>1. TypeOK'
    BY <1>8, <1>t DEF Unlock, TypeOK, CallInv
  <2>2. CallInv'
    BY <1>8, <1>t DEF Unlock, TypeOK, CallInv
  <2>. QED BY <1>8, <1>t, <2>1, <2>2, QuietStep DEF Unlock, TypeOK
<1>9. ASSUME NEW g \in Migrations, MigrateUnneeded(g) \/ MigrateReadFails(g) \/ MigrateDone(g) PROVE FInv'
  <2>1. /\ pc[g] \in {"idle", "migrate"} /\ pc' = [pc EXCEPT ![g] = "return"]
        /\ \E res \in {"ok", "error"} : result' = [result EXCEPT ![g] = res]
        /\ faults' \in 0..MaxFaults
        /\ UNCHANGED <<file, writer, readers, shard, found, pending, acked, damaged>>
    BY <1>9, <1>t DEF MigrateUnneeded, MigrateReadFails, MigrateDone, AtShard, TypeOK
  <2>2. TypeOK'
    BY <1>t, <2>1 DEF TypeOK
  <2>3. CallInv'
    BY <1>t, <2>1 DEF TypeOK, CallInv
  <2>. QED BY <1>t, <2>1, <2>2, <2>3, QuietStep DEF TypeOK
<1>10. ASSUME NEW g \in Migrations, MigrateLock(g) PROVE FInv'
  <2>1. TypeOK'
    BY <1>10, <1>t DEF MigrateLock, Lock, TypeOK, CallInv
  <2>2. CallInv'
    BY <1>10, <1>t DEF MigrateLock, Lock, TypeOK, CallInv
  <2>. QED BY <1>10, <1>t, <2>1, <2>2, QuietStep DEF MigrateLock, Lock, TypeOK
<1>11. ASSUME NEW g \in Migrations, MigrateRead(g) PROVE FInv'
  <2>1. shard[g] \in 0..(OldShards - 1) /\ OldName(g) \in Names
    BY <1>11, <1>t, NamesUsed DEF MigrateRead, AtShard, TypeOK, OldName
  <2>2. Lines(file[OldName(g)]) \in Seq(Line)
    BY <1>t, <2>1, ParsedIsStores DEF TypeOK, Files
  <2>3. TypeOK'
    <3>1. pending' \in [Migrations -> Seq(Line)]
      BY <1>11, <1>t, <2>2 DEF MigrateRead, TypeOK
    <3>2. /\ shard' \in [Retrieves \cup Migrations -> Nat]
          /\ \A r \in Retrieves : shard'[r] <= NumShards
          /\ \A h \in Migrations : shard'[h] <= OldShards
      <4>1. shard' = shard \/ shard' = [shard EXCEPT ![g] = @ + 1]
        BY <1>11 DEF MigrateRead
      <4>2. /\ g \notin Retrieves /\ shard[g] + 1 \in Nat /\ shard[g] + 1 <= OldShards
            /\ shard \in [Retrieves \cup Migrations -> Nat]
            /\ \A r \in Retrieves : shard[r] <= NumShards
            /\ \A h \in Migrations : shard[h] <= OldShards
        BY <1>t, <2>1 DEF TypeOK
      <4>. QED BY <4>1, <4>2
    <3>3. /\ pc' \in [Ops -> {"idle", "write", "read", "migrate", "copy", "return", "done"}]
          /\ \A o \in Ops : pc'[o] \in {"write", "read", "migrate", "copy"} => o = writer \/ o \in readers
      BY <1>11, <1>t DEF MigrateRead, AtShard, TypeOK
    <3>. QED BY <1>11, <1>t, <3>1, <3>2, <3>3 DEF MigrateRead, TypeOK
  <2>4. CallInv'
    BY <1>11, <1>t, <2>1 DEF MigrateRead, AtShard, TypeOK, CallInv
  <2>5. TailInv' /\ KeptInv'
    BY <1>11, <1>t, NothingWritten DEF MigrateRead, KeptInv
  <2>6. CopyInv'
    <3> SUFFICES ASSUME NEW h \in Migrations, pc'[h] = "copy",
                        NEW m \in Parsed(file'[OldName(h)'])
                 PROVE  Moved(m)' \/ \E i \in DOMAIN pending'[h] : pending'[h][i] = m
      BY DEF CopyInv
    <3>1. pc[g] = "migrate" /\ writer = g /\ file' = file
      BY <1>11, <1>t DEF MigrateRead, AtShard, CallInv
    <3>2. h = g
      BY <1>11, <1>t, <3>1 DEF MigrateRead, CallInv, TypeOK
    <3>3. shard'[g] = shard[g] /\ pending'[g] = Lines(file[OldName(g)])
      BY <1>11, <1>t, <3>1, <3>2 DEF MigrateRead, AtShard, TypeOK
    <3>4. m \in Parsed(file[OldName(g)])
      BY <3>1, <3>2, <3>3 DEF OldName
    <3>. QED BY <3>2, <3>3, <3>4 DEF Parsed
  <2>. QED BY <2>3, <2>4, <2>5, <2>6 DEF FInv
<1>12. ASSUME NEW g \in Migrations, MigrateLine(g) PROVE FInv'
  <2> DEFINE m == Head(pending[g])
             n == MigratedName(Id[m])
  <2>1. pc[g] = "copy" /\ writer = g /\ pending[g] \in Seq(Line) /\ pending[g] # <<>> /\ m \in Line
    BY <1>12, <1>t DEF MigrateLine, CallInv, TypeOK
  <2>2. CASE UNCHANGED <<file, pending>>
    <3>1. TypeOK'
      BY <1>12, <1>t, <2>2 DEF MigrateLine, TypeOK
    <3>2. CallInv'
      BY <1>12, <1>t, <2>2 DEF MigrateLine, TypeOK, CallInv
    <3>. QED BY <1>12, <1>t, <2>2, <3>1, <3>2, QuietStep DEF MigrateLine, TypeOK
  <2>3. CASE /\ m \in Movable
             /\ file' = [file EXCEPT ![n] = Appended(file[n], m)]
             /\ pending' = [pending EXCEPT ![g] = Tail(@)]
             /\ UNCHANGED <<pc, result>>
    <3>1. n \in Names /\ m \in Stores /\ OldName(g) # n
      BY <2>3, NamesUsed, NamesDiffer DEF Movable, OldName
    <3>2. damaged' = damaged /\ UNCHANGED <<mutex, shard, found, faults, acked>>
      BY <1>12 DEF MigrateLine
    <3>3. /\ file' \in [Names -> Files] /\ TailInv'
          /\ \A x \in Names : x # n => file'[x] = file[x]
          /\ n \notin damaged => Parsed(file'[n]) = Parsed(file[n]) \cup {m}
      BY <1>t, <2>3, <3>1, <3>2, LineWritten
    <3>4. TypeOK'
      BY <1>t, <2>1, <2>3, <3>2, <3>3 DEF TypeOK, Files
    <3>5. CallInv'
      BY <1>t, <2>3, <3>2 DEF CallInv, TypeOK
    <3>6. \A y \in Names : y \in damaged \/ Parsed(file[y]) \subseteq Parsed(file'[y])
      BY <3>3
    <3>7. \A x \in Stores : (Moved(x) => Moved(x)') /\ (Kept(x) => Kept(x)')
      BY <3>2, <3>6, NamesUsed DEF Kept, Moved
    <3>8. KeptInv'
      BY <1>t, <2>3, <3>7 DEF KeptInv
    <3>9. PICK y : y = m
      OBVIOUS
    <3>11. Moved(y)'
      BY <2>3, <3>2, <3>3, <3>9 DEF Moved
    <3>10. CopyInv'
      <4> SUFFICES ASSUME NEW h \in Migrations, pc'[h] = "copy",
                          NEW x \in Parsed(file'[OldName(h)'])
                   PROVE  Moved(x)' \/ \E i \in DOMAIN pending'[h] : pending'[h][i] = x
        BY DEF CopyInv
      <4>1. h = g /\ OldName(h)' = OldName(g)
        <5>1. pc[h] = "copy" /\ writer = h
          BY <1>t, <2>3 DEF CallInv
        <5>. QED BY <2>1, <3>2, <5>1 DEF OldName
      <4>2. OldName(g) \in Names
        BY <1>t, <2>1, NamesUsed DEF CallInv, TypeOK, OldName
      <4>3. x \in Parsed(file[OldName(g)]) /\ x \in Stores
        BY <1>t, <3>1, <3>3, <4>1, <4>2, ParsedIsStores DEF TypeOK, Files
      <4>4. CASE Moved(x)
        BY <3>7, <4>3, <4>4
      <4>5. CASE \E i \in DOMAIN pending[g] : pending[g][i] = x
        <5>1. PICK i \in 1..Len(pending[g]) : pending[g][i] = x
          BY <2>1, <4>5
        <5>2. CASE i = 1
          BY <2>1, <3>9, <3>11, <5>1, <5>2
        <5>3. CASE i # 1
          <6>1. /\ i - 1 \in DOMAIN Tail(pending[g])
                /\ Tail(pending[g])[i - 1] = pending[g][i]
            BY <2>1, <5>1, <5>3
          <6>2. pending'[h] = Tail(pending[g])
            BY <1>t, <2>3, <4>1 DEF TypeOK
          <6>. QED BY <5>1, <6>1, <6>2
        <5>. QED BY <5>2, <5>3
      <4>. QED BY <1>t, <2>1, <4>3, <4>4, <4>5 DEF CopyInv
    <3>. QED BY <3>3, <3>4, <3>5, <3>8, <3>10 DEF FInv
  <2>. QED BY <1>12, <2>2, <2>3 DEF MigrateLine, Write
<1>13. ASSUME NEW g \in Migrations, MigrateLineFails(g) PROVE FInv'
  <2> DEFINE m == Head(pending[g])
             n == MigratedName(Id[m])
  <2>1. /\ pc[g] = "copy" /\ writer = g /\ m \in Movable /\ n \in Names /\ m \in Stores
        /\ UNCHANGED <<mutex, shard, found, pending, acked>>
    BY <1>13, <1>t, NamesUsed DEF MigrateLineFails, CallInv, Movable
  <2>2. CallInv'
    BY <1>13, <1>t DEF MigrateLineFails, TypeOK, CallInv
  <2>3. CASE UNCHANGED <<file, damaged>>
    <3>1. TypeOK'
      BY <1>13, <1>t, <2>3 DEF MigrateLineFails, TypeOK
    <3>. QED BY <1>13, <1>t, <2>2, <2>3, <3>1, QuietStep DEF MigrateLineFails, TypeOK
  <2>4. CASE /\ \E f \in CutShort(file[n], m) : Write(n, f)
             /\ damaged' = damaged \cup {n}
    <3>1. PICK f \in CutShort(file[n], m) : file' = [file EXCEPT ![n] = f]
      BY <2>4 DEF Write
    <3>2. /\ file' \in [Names -> Files] /\ damaged' \subseteq Names /\ TailInv'
          /\ \A x \in Names : x # n => file'[x] = file[x]
      BY <1>t, <2>1, <2>4, <3>1, LineCutShort
    <3>3. TypeOK'
      BY <1>13, <1>t, <2>1, <3>2 DEF MigrateLineFails, TypeOK, Files
    <3>4. KeptInv'
      <4> SUFFICES ASSUME NEW x \in Stores, result'[x] = "ok" PROVE Kept(x)'
        BY DEF KeptInv
      <4>1. Kept(x)
        BY <1>13, <1>t DEF MigrateLineFails, KeptInv, TypeOK
      <4>. QED BY <2>4, <3>2, <4>1, NamesUsed DEF Kept, Moved
    <3>5. CopyInv'
      BY <1>13, <1>t, <2>1 DEF MigrateLineFails, CallInv, CopyInv, TypeOK
    <3>. QED BY <2>2, <3>2, <3>3, <3>4, <3>5 DEF FInv
  <2>. QED BY <1>13, <2>3, <2>4 DEF MigrateLineFails
<1>14. ASSUME NEW g \in Migrations, MigrateRemove(g) PROVE FInv'
  <2>1. /\ pc[g] = "copy" /\ writer = g /\ pending[g] = <<>> /\ OldName(g) \in Names
        /\ UNCHANGED <<mutex, result, found, pending, acked, damaged>>
        /\ file' = file \/ file' = [file EXCEPT ![OldName(g)] = Empty]
    BY <1>14, <1>t, NamesUsed DEF MigrateRemove, Write, CallInv, TypeOK, OldName
  <2>2. /\ file' \in [Names -> Files]
        /\ \A x \in Names : file'[x] = file[x] \/ (x = OldName(g) /\ file'[x] = Empty)
    <3>1. file \in [Names -> Files] /\ Empty \in Files
      BY <1>t, EmptyFile DEF TypeOK, Files
    <3>. QED BY <2>1, <3>1
  <2>3. TailInv'
    BY <1>t, <2>1, <2>2 DEF TailInv, Empty
  <2>4. TypeOK'
    BY <1>14, <1>t, <2>1, <2>2 DEF MigrateRemove, TypeOK, CallInv, Files
  <2>5. CallInv'
    BY <1>14, <1>t, <2>1 DEF MigrateRemove, TypeOK, CallInv
  <2>6. \A m \in Parsed(file[OldName(g)]) : Moved(m)
    BY <1>t, <2>1 DEF CopyInv
  <2>7. KeptInv'
    <3> SUFFICES ASSUME NEW m \in Stores, result'[m] = "ok" PROVE Kept(m)'
      BY DEF KeptInv
    <3>1. Kept(m)
      BY <1>t, <2>1 DEF KeptInv
    <3>2. m \in Movable => MigratedName(Id[m]) # OldName(g)
      BY NamesDiffer DEF OldName
    <3>3. Moved(m) => Moved(m)'
      BY <2>1, <2>2, <3>2, NamesUsed DEF Moved
    <3>. QED BY <2>1, <2>2, <2>6, <3>1, <3>3, NamesUsed DEF Kept
  <2>8. CopyInv'
    BY <1>14, <1>t, <2>1 DEF MigrateRemove, CallInv, CopyInv, TypeOK
  <2>. QED BY <2>3, <2>4, <2>5, <2>7, <2>8 DEF FInv
<1>15. CASE Crash
  <2>1. TypeOK'
    BY <1>15, <1>t DEF Crash, TypeOK
  <2>2. CallInv'
    BY <1>15, <1>t DEF Crash, TypeOK, CallInv
  <2>. QED BY <1>15, <1>t, <2>1, <2>2, QuietStep DEF Crash, TypeOK
<1>16. CASE UNCHANGED vars
  <2>1. TypeOK'
    BY <1>16, <1>t DEF vars, TypeOK
  <2>2. CallInv'
    BY <1>16, <1>t DEF vars, CallInv
  <2>. QED BY <1>16, <1>t, <2>1, <2>2, QuietStep DEF vars
<1>. QED
  BY <1>1, <1>2, <1>3, <1>4, <1>5, <1>6, <1>7, <1>8, <1>9, <1>10, <1>11, <1>12, <1>13, <1>14, <1>15, <1>16
     DEF Next, Store, Retrieve, MigrateShards

\* The files' invariant holds in every state.
THEOREM FileInvariance == Spec => []FInv
BY InitFInv, NextFInv, PTL DEF Spec

\* Types, and the mutex: no call is in its critical section without holding it,
\* and a writer excludes the readers.
THEOREM FileTypes == Spec => []TypeOK
<1>1. FInv => TypeOK
  BY DEF FInv
<1>. QED BY FileInvariance, <1>1, PTL

\* No migration loses a message whose Store has returned nil, wherever it breaks
\* off: MigrateShards and Store, for any names and depths.
THEOREM MigrationsLoseNothing == Spec => []MigrationLosesNothing
<1>1. FInv => MigrationLosesNothing
  BY NamesUsed DEF FInv, KeptInv, Kept, Moved, MigrationLosesNothing, Acked
<1>. QED BY FileInvariance, <1>1, PTL
-----------------------------------------------------------------------------
(* What a step does to the files *)

\* The files a message may be in: its shard's and the one a migration moves it to.
OwnFile(m, name) == name = ShardOf(m) \/ (m \in Movable /\ name = MigratedName(Id[m]))

HomeInv == \A name \in Names : \A m \in Parsed(file[name]) : OwnFile(m, name)

\* A line was appended to a message's own file, a write to it was cut short, or an old
\* file of which every message had been moved was removed.
LineAppended(n, m) ==
  OwnFile(m, n) /\ damaged' = damaged /\ file' = [file EXCEPT ![n] = Appended(file[n], m)]
LineLost(n, m) ==
  /\ OwnFile(m, n) /\ damaged' = damaged \cup {n}
  /\ \E f \in CutShort(file[n], m) : file' = [file EXCEPT ![n] = f]
OldRemoved(n) ==
  /\ damaged' = damaged /\ file' = [file EXCEPT ![n] = Empty]
  /\ \A m \in Parsed(file[n]) : Moved(m)
  /\ \A m \in Movable : MigratedName(Id[m]) # n

\* No step does anything else to the files.
LEMMA FileSteps ==
  ASSUME FInv, [Next]_vars
  PROVE  \/ UNCHANGED <<file, damaged>>
         \/ \E n \in Names, m \in Stores : LineAppended(n, m)
         \/ \E n \in Names, m \in Stores : LineLost(n, m)
         \/ \E n \in Names : OldRemoved(n)
<1> USE FileAssumption DEF mutex, callVars, histories
<1>t. TypeOK /\ CallInv /\ CopyInv
  BY DEF FInv
<1> DEFINE Goal == \/ UNCHANGED <<file, damaged>>
                   \/ \E n \in Names, m \in Stores : LineAppended(n, m)
                   \/ \E n \in Names, m \in Stores : LineLost(n, m)
                   \/ \E n \in Names : OldRemoved(n)
<1>1. ASSUME NEW m \in Stores, StoreWrite(m) PROVE Goal
  BY <1>1, NamesUsed DEF StoreWrite, Write, LineAppended, OwnFile
<1>2. ASSUME NEW m \in Stores, StoreWriteFails(m) PROVE Goal
  BY <1>2, NamesUsed DEF StoreWriteFails, Write, LineLost, OwnFile
<1>3. ASSUME NEW g \in Migrations, MigrateLine(g) PROVE Goal
  <2>1. CASE file' = file
    BY <1>3, <2>1 DEF MigrateLine
  <2>2. CASE file' # file
    <3>1. PICK m : m = Head(pending[g])
      OBVIOUS
    <3>2. /\ m \in Movable /\ damaged' = damaged
          /\ file' = [file EXCEPT ![MigratedName(Id[m])] = Appended(file[MigratedName(Id[m])], m)]
      BY <1>3, <2>2, <3>1 DEF MigrateLine, Write
    <3>. QED BY <3>2, NamesUsed DEF LineAppended, OwnFile, Movable
  <2>. QED BY <2>1, <2>2
<1>4. ASSUME NEW g \in Migrations, MigrateLineFails(g) PROVE Goal
  <2>1. PICK m : m = Head(pending[g])
    OBVIOUS
  <2>2. /\ m \in Movable
        /\ \/ UNCHANGED <<file, damaged>>
           \/ /\ \E f \in CutShort(file[MigratedName(Id[m])], m) :
                   file' = [file EXCEPT ![MigratedName(Id[m])] = f]
              /\ damaged' = damaged \cup {MigratedName(Id[m])}
    BY <1>4, <2>1 DEF MigrateLineFails, Write
  <2>. QED BY <2>2, NamesUsed DEF LineLost, OwnFile, Movable
<1>5. ASSUME NEW g \in Migrations, MigrateRemove(g) PROVE Goal
  <2>1. /\ pc[g] = "copy" /\ pending[g] = <<>> /\ OldName(g) \in Names /\ damaged' = damaged
        /\ file' = file \/ file' = [file EXCEPT ![OldName(g)] = Empty]
    BY <1>5, <1>t, NamesUsed DEF MigrateRemove, Write, CallInv, TypeOK, OldName
  <2>2. \A m \in Parsed(file[OldName(g)]) : Moved(m)
    BY <1>t, <2>1 DEF CopyInv
  <2>3. \A m \in Movable : MigratedName(Id[m]) # OldName(g)
    BY NamesDiffer DEF OldName
  <2>. QED BY <2>1, <2>2, <2>3 DEF OldRemoved
<1>6. CASE Crash \/ UNCHANGED vars
  BY <1>6 DEF Crash, vars
<1>7. ASSUME NEW o \in Ops, Unlock(o) PROVE Goal
  BY <1>7 DEF Unlock
<1>8. ASSUME NEW m \in Stores, Lock(m, "write") \/ StoreOpenFails(m) PROVE Goal
  BY <1>8 DEF Lock, StoreOpenFails
<1>9. ASSUME NEW r \in Retrieves, RLock(r) \/ ReadShard(r) \/ ReadFails(r) \/ RetrieveDone(r) PROVE Goal
  BY <1>9 DEF RLock, ReadShard, ReadFails, RetrieveDone
<1>10. ASSUME NEW g \in Migrations,
              MigrateUnneeded(g) \/ MigrateLock(g) \/ MigrateRead(g) \/ MigrateReadFails(g) \/ MigrateDone(g)
       PROVE  Goal
  BY <1>10 DEF MigrateUnneeded, MigrateLock, Lock, MigrateRead, MigrateReadFails, MigrateDone
<1>. QED
  BY <1>1, <1>2, <1>3, <1>4, <1>5, <1>6, <1>7, <1>8, <1>9, <1>10
     DEF Next, Store, Retrieve, MigrateShards, Ops

\* Nothing but the message written is new in a file, whole or cut short.
LEMMA OnlyTheLine ==
  ASSUME NEW f \in Files, NEW m \in Stores
  PROVE  /\ Parsed(Appended(f, m)) \subseteq Parsed(f) \cup {m}
         /\ \A t \in CutShort(f, m) : Parsed(t) \subseteq Parsed(f) \cup {m}
<1> USE FileAssumption DEF Files, Line, Ops
<1>1. f.lines \in Seq(Line) /\ Len(f.lines) \in Nat
  OBVIOUS
<1>2. \A i \in DOMAIN f.lines : f.lines[i] # Garbage => f.lines[i] \in Parsed(f)
  <2>1. \A i \in DOMAIN f.lines : i \in DOMAIN Lines(f) /\ Lines(f)[i] = f.lines[i]
    BY <1>1 DEF Lines
  <2>. QED BY <2>1 DEF Parsed
<1>3. ASSUME NEW x \in Line, NEW y \in Parsed([lines |-> f.lines, tail |-> x])
      PROVE  y \in Parsed(f) \cup {x}
  <2>1. x # None /\ Lines([lines |-> f.lines, tail |-> x]) = Append(f.lines, x)
    BY DEF Lines
  <2>2. PICK i \in DOMAIN Append(f.lines, x) : y = Append(f.lines, x)[i] /\ y # Garbage
    BY <2>1 DEF Parsed
  <2>3. y = x \/ (i \in DOMAIN f.lines /\ y = f.lines[i])
    BY <1>1, <2>2
  <2>. QED BY <1>2, <2>2, <2>3
<1>4. ASSUME NEW x \in Line, NEW y \in Parsed([lines |-> Append(f.lines, x), tail |-> None])
      PROVE  y \in Parsed(f) \cup {x}
  <2>1. Lines([lines |-> Append(f.lines, x), tail |-> None]) = Append(f.lines, x)
    BY DEF Lines
  <2>2. PICK i \in DOMAIN Append(f.lines, x) : y = Append(f.lines, x)[i] /\ y # Garbage
    BY <2>1 DEF Parsed
  <2>3. y = x \/ (i \in DOMAIN f.lines /\ y = f.lines[i])
    BY <1>1, <2>2
  <2>. QED BY <1>2, <2>2, <2>3
<1>5. \A t, y : y \in Parsed(t) => y # Garbage
  BY DEF Parsed
<1>6. Parsed(Appended(f, m)) \subseteq Parsed(f) \cup {m}
  <2>1. \E x \in {m, Garbage} : Appended(f, m) = [lines |-> Append(f.lines, x), tail |-> None]
    BY DEF Appended
  <2>. QED BY <1>4, <1>5, <2>1
<1>7. ASSUME NEW t \in CutShort(f, m) PROVE Parsed(t) \subseteq Parsed(f) \cup {m}
  <2>1. \E x \in {m, Garbage} : t = [lines |-> f.lines, tail |-> x]
    BY DEF CutShort
  <2>. QED BY <1>3, <1>5, <2>1
<1>. QED BY <1>6, <1>7

\* Every step leaves each message in its own files only.
LEMMA NextHomeInv ==
  ASSUME FInv, HomeInv, [Next]_vars
  PROVE  HomeInv'
<1>t. file \in [Names -> Files]
  BY DEF FInv, TypeOK, Files
<1> SUFFICES ASSUME NEW name \in Names, NEW x \in Parsed(file'[name]) PROVE OwnFile(x, name)
  BY DEF HomeInv, OwnFile
<1>1. CASE UNCHANGED file
  BY <1>1 DEF HomeInv
<1>2. ASSUME NEW n \in Names, NEW m \in Stores, LineAppended(n, m) \/ LineLost(n, m)
      PROVE  OwnFile(x, name)
  <2>1. PICK w \in {Appended(file[n], m)} \cup CutShort(file[n], m) : file' = [file EXCEPT ![n] = w]
    BY <1>2 DEF LineAppended, LineLost
  <2>2. Parsed(w) \subseteq Parsed(file[n]) \cup {m}
    BY <1>t, OnlyTheLine
  <2>. QED BY <1>2, <1>t, <2>1, <2>2 DEF LineAppended, LineLost, HomeInv
<1>3. ASSUME NEW n \in Names, OldRemoved(n) PROVE OwnFile(x, name)
  BY <1>3, <1>t, EmptyFile DEF OldRemoved, HomeInv
<1>. QED BY <1>1, <1>2, <1>3, FileSteps

\* A message is in no file but the one Store names after its ID and the one MigrateShards
\* does, whatever is cut short: no call writes a line anywhere else.
THEOREM Homes == Spec => []HomeInv
<1>1. Init => HomeInv
  BY EmptyFile DEF Init, HomeInv
<1>. QED BY FileInvariance, <1>1, NextHomeInv, PTL DEF Spec

\* A message that can be read stays so, through every step of every call, failures,
\* panics and crashes included, until a write to its own file is cut short.
THEOREM ReadableMessagesStay == Spec => StaysReadable
<1>1. ASSUME FInv, HomeInv, [Next]_vars, NEW m \in Stores, Readable(m)
      PROVE  \/ Readable(m)'
             \/ ShardOf(m) \in damaged'
             \/ m \in Movable /\ MigratedName(Id[m]) \in damaged'
  <2>t. file \in [Names -> Files] /\ TailInv
    BY <1>1 DEF FInv, TypeOK, Files
  <2>1. PICK name \in Names : m \in Parsed(file[name])
    BY <1>1 DEF Readable
  <2>2. OwnFile(m, name)
    BY <1>1, <2>1 DEF HomeInv
  <2>3. CASE name \in damaged'
    BY <2>2, <2>3 DEF OwnFile
  <2>4. CASE m \in Parsed(file'[name])
    BY <2>4 DEF Readable
  <2>5. ASSUME NEW n \in Names, NEW x \in Stores, LineAppended(n, x)
        PROVE  m \in Parsed(file'[name]) \/ name \in damaged'
    <3>1. file[n] \in Files /\ (n \notin damaged => file[n].tail = None)
      BY <2>t DEF TailInv
    <3>2. file[n].tail = None => Parsed(Appended(file[n], x)) = Parsed(file[n]) \cup {x}
      BY <3>1, ParsedAppended
    <3>. QED BY <2>t, <2>1, <2>5, <3>1, <3>2 DEF LineAppended
  <2>6. ASSUME NEW n \in Names, NEW x \in Stores, LineLost(n, x)
        PROVE  m \in Parsed(file'[name]) \/ name \in damaged'
    BY <2>t, <2>1, <2>6 DEF LineLost
  <2>7. ASSUME NEW n \in Names, OldRemoved(n), m \notin Parsed(file'[name])
        PROVE  Readable(m)' \/ (m \in Movable /\ MigratedName(Id[m]) \in damaged')
    <3>1. n = name
      BY <2>t, <2>1, <2>7 DEF OldRemoved
    <3>2. Moved(m) /\ m \in Movable => MigratedName(Id[m]) # n
      BY <2>1, <2>7, <3>1 DEF OldRemoved
    <3>. QED BY <2>t, <2>1, <2>7, <3>1, <3>2, NamesUsed DEF OldRemoved, Moved, Readable
  <2>. QED BY <1>1, <2>1, <2>3, <2>4, <2>5, <2>6, <2>7, FileSteps
<1>2. FInv /\ HomeInv /\ [Next]_vars =>
        [\A m \in Stores : Readable(m) =>
           \/ Readable(m)'
           \/ ShardOf(m) \in damaged'
           \/ m \in Movable /\ MigratedName(Id[m]) \in damaged']_vars
  BY <1>1
<1>. QED BY FileInvariance, Homes, <1>2, PTL DEF Spec, StaysReadable
-----------------------------------------------------------------------------
(* Which messages a search can find at all *)

Hexadecimal(m) == \E n \in 0..(NumShards - 1) : ShardOf(m) = HexName(n)

\* A search finds messages of its own trace only, and only those whose shard has the
\* name of one it reads: no migration brings the others within reach.
ReachInv == \A r \in Retrieves : \A m \in found[r] : Trace[m] = Trace[r] /\ Hexadecimal(m)

\* What a step adds to the messages a search has found comes from their own shards.
LEMMA FoundSteps ==
  ASSUME FInv, HomeInv, [Next]_vars, NEW r \in Retrieves, NEW m \in found'[r], m \notin found[r]
  PROVE  Trace[m] = Trace[r] /\ Hexadecimal(m) /\ m \in Parsed(file[ShardOf(m)])
<1> USE FileAssumption, NumShardsNat DEF mutex, callVars, histories
<1>t. found \in [Retrieves -> SUBSET Stores]
  BY DEF FInv, TypeOK
<1> DEFINE Goal == Trace[m] = Trace[r] /\ Hexadecimal(m) /\ m \in Parsed(file[ShardOf(m)])
<1>1. ASSUME NEW q \in Retrieves, ReadShard(q) PROVE Goal
  <2>1. shard[q] \in 0..(NumShards - 1) /\ HexName(shard[q]) \in Names
    BY <1>1, NamesUsed DEF ReadShard, FInv, TypeOK
  <2>2. found' = [found EXCEPT ![q] = @ \cup {x \in Parsed(file[HexName(shard[q])]) : Trace[x] = Trace[q]}]
    BY <1>1 DEF ReadShard
  <2>3. q = r /\ m \in Parsed(file[HexName(shard[q])]) /\ Trace[m] = Trace[q]
    BY <1>t, <2>2
  <2>4. ShardOf(m) = HexName(shard[q])
    BY <2>1, <2>3 DEF HomeInv, OwnFile, MigratedName, HexName, Shard
  <2>. QED BY <2>1, <2>3, <2>4 DEF Hexadecimal
<1>2. ASSUME NEW q \in Retrieves, ReadFails(q) PROVE FALSE
  BY <1>2, <1>t DEF ReadFails
<1>3. found' # found
  OBVIOUS
<1>4. ASSUME NEW q \in Retrieves, Retrieve(q) PROVE Goal
  BY <1>1, <1>2, <1>3, <1>4 DEF Retrieve, RLock, RetrieveDone, Unlock
<1>5. \A x \in Stores : ~Store(x)
  BY <1>3 DEF Store, Lock, StoreWrite, StoreOpenFails, StoreWriteFails, Unlock
<1>6. \A g \in Migrations : ~MigrateShards(g)
  BY <1>3 DEF MigrateShards, MigrateUnneeded, MigrateLock, Lock, MigrateRead, MigrateReadFails,
     MigrateLine, MigrateLineFails, MigrateRemove, MigrateDone, Unlock
<1>7. ~Crash /\ ~UNCHANGED vars
  BY <1>3 DEF Crash, vars
<1>. QED BY <1>4, <1>5, <1>6, <1>7 DEF Next

\* Every step keeps what searches can reach.
LEMMA NextReachInv ==
  ASSUME FInv, HomeInv, ReachInv, [Next]_vars
  PROVE  ReachInv'
BY FoundSteps DEF ReachInv, Hexadecimal

\* The gap of MCFileMigrationGap for every instance: a search takes a message from the file
\* its Store wrote and from no other, so one that a migration has moved is lost to all later
\* searches (Retrieve reads none of the names MigrateShards writes).
THEOREM TakenFromShard ==
  Spec => [][\A r \in Retrieves : \A m \in found'[r] :
               m \in found[r] \/ m \in Parsed(file[ShardOf(m)])]_vars
<1>1. ASSUME FInv, HomeInv, [Next]_vars, NEW r \in Retrieves, NEW m \in found'[r]
      PROVE  m \in found[r] \/ m \in Parsed(file[ShardOf(m)])
  BY <1>1, FoundSteps
<1>2. FInv /\ HomeInv /\ [Next]_vars =>
        [\A r \in Retrieves : \A m \in found'[r] :
           m \in found[r] \/ m \in Parsed(file[ShardOf(m)])]_vars
  BY <1>1
<1>. QED BY FileInvariance, Homes, <1>2, PTL DEF Spec

\* All a search has found is of its trace and was stored under one of the names
\* that Retrieve prints, two hexadecimal digits.
THEOREM SearchReach == Spec => []ReachInv
<1>1. Init => ReachInv
  BY DEF Init, ReachInv
<1>. QED BY FileInvariance, Homes, <1>1, NextReachInv, PTL DEF Spec

\* The gap of MCFileSearchGap for every instance: a message that is stored under any other
\* name than two lower-case hexadecimal digits is found by no search, ever.
THEOREM NeverFound ==
  ASSUME NEW m \in Stores, ~Hexadecimal(m)
  PROVE  Spec => [](\A r \in Retrieves : m \notin found[r])
<1>1. ReachInv => \A r \in Retrieves : m \notin found[r]
  BY DEF ReachInv
<1>. QED BY SearchReach, <1>1, PTL
-----------------------------------------------------------------------------
(* The mutex *)

\* No step leaves the mutex with a call that has not begun or has ended.
LEMMA NextLockReleased ==
  ASSUME TypeOK, LockReleased, [Next]_vars
  PROVE  LockReleased'
<1> USE FileAssumption DEF Ops, mutex, Return, Goto
<1>1. ASSUME NEW o \in Ops, NEW state, Lock(o, state), state \notin {"idle", "done"}
      PROVE  LockReleased'
  BY <1>1 DEF Lock, LockReleased, TypeOK
<1>2. ASSUME NEW r \in Retrieves, RLock(r) PROVE LockReleased'
  BY <1>2 DEF RLock, LockReleased, TypeOK
<1>3. ASSUME NEW o \in Ops, Unlock(o) PROVE LockReleased'
  BY <1>3 DEF Unlock, LockReleased, TypeOK
\* A step of a call that has the mutex, or needs none, does not end the call.
<1>4. ASSUME UNCHANGED mutex, NEW o \in Ops,
             \/ pc' = pc
             \/ \E state \in {"copy", "migrate", "return"} : pc' = [pc EXCEPT ![o] = state]
      PROVE  LockReleased'
  BY <1>4 DEF LockReleased, TypeOK
<1>5. ASSUME NEW m \in Stores, Store(m) PROVE LockReleased'
  <2>1. CASE StoreWrite(m) \/ StoreOpenFails(m) \/ StoreWriteFails(m)
    BY <1>4, <2>1 DEF StoreWrite, StoreOpenFails, StoreWriteFails
  <2>. QED BY <1>1, <1>3, <1>5, <2>1 DEF Store
<1>6. ASSUME NEW r \in Retrieves, Retrieve(r) PROVE LockReleased'
  <2>1. CASE ReadShard(r) \/ ReadFails(r) \/ RetrieveDone(r)
    BY <1>4, <2>1 DEF ReadShard, ReadFails, RetrieveDone
  <2>. QED BY <1>2, <1>3, <1>6, <2>1 DEF Retrieve
<1>7. ASSUME NEW g \in Migrations, MigrateShards(g) PROVE LockReleased'
  <2>1. CASE MigrateUnneeded(g) \/ MigrateRead(g) \/ MigrateReadFails(g) \/ MigrateLine(g)
               \/ MigrateLineFails(g) \/ MigrateRemove(g) \/ MigrateDone(g)
    BY <1>4, <2>1 DEF MigrateUnneeded, MigrateRead, MigrateReadFails, MigrateLine,
       MigrateLineFails, MigrateRemove, MigrateDone
  <2>. QED BY <1>1, <1>3, <1>7, <2>1 DEF MigrateShards, MigrateLock
<1>8. CASE Crash
  BY <1>8 DEF Crash, LockReleased
<1>9. CASE UNCHANGED vars
  BY <1>9 DEF vars, LockReleased
<1>. QED BY <1>5, <1>6, <1>7, <1>8, <1>9 DEF Next

\* Every path through Store, Retrieve and MigrateShards, and every way it can break off,
\* gives the mutex up.
THEOREM LockIsReleased == Spec => []LockReleased
<1>1. Init => LockReleased
  BY FileAssumption DEF Init, LockReleased
<1>2. TypeOK /\ LockReleased /\ [Next]_vars => LockReleased'
  BY NextLockReleased
<1>. QED BY FileTypes, <1>1, <1>2, PTL DEF Spec
-----------------------------------------------------------------------------
(* Progress *)

\* A call's own step brings it forward.
LEMMA CallSteps ==
  ASSUME TypeOK, NEW o \in Ops
  PROVE  /\ o \in Stores /\ Store(o) => Advances(o)
         /\ o \in Retrieves /\ Retrieve(o) => Advances(o)
         /\ o \in Migrations /\ MigrateShards(o) => Advances(o)
<1> USE FileAssumption DEF Ops, Return, Goto, Working
<1>1. ASSUME o \in Stores, Store(o) PROVE Advances(o)
  BY <1>1 DEF TypeOK, Advances, Store, Lock, StoreWrite, StoreOpenFails, StoreWriteFails, Unlock
<1>2. ASSUME o \in Retrieves, Retrieve(o) PROVE Advances(o)
  <2>1. shard[o] \in Nat
    BY <1>2 DEF TypeOK
  <2>. QED
    BY <1>2, <2>1 DEF TypeOK, Advances, Retrieve, RLock, ReadShard, ReadFails, RetrieveDone, Unlock
<1>3. ASSUME o \in Migrations, MigrateShards(o) PROVE Advances(o)
  <2>1. shard[o] \in Nat /\ pending[o] \in Seq(Line)
    BY <1>3 DEF TypeOK
  <2>2. CASE MigrateLine(o)
    <3>1. CASE pc'[o] = "return"
      BY <2>2, <3>1 DEF MigrateLine, Advances
    <3>2. CASE pending' = [pending EXCEPT ![o] = Tail(@)] /\ UNCHANGED <<pc, shard>>
      <4>1. pending'[o] = Tail(pending[o])
        BY <1>3, <3>2 DEF TypeOK
      <4>2. Len(Tail(pending[o])) < Len(pending[o])
        BY <2>1, <2>2 DEF MigrateLine
      <4>. QED BY <1>3, <2>2, <3>2, <4>1, <4>2 DEF MigrateLine, Advances
    <3>. QED BY <2>2, <3>1, <3>2 DEF MigrateLine, TypeOK
  <2>3. CASE ~MigrateLine(o)
    BY <1>3, <2>1, <2>3
       DEF TypeOK, Advances, MigrateShards, MigrateUnneeded, MigrateLock, Lock, AtShard, MigrateRead,
           MigrateReadFails, MigrateLineFails, MigrateRemove, MigrateDone, Unlock
  <2>. QED BY <2>2, <2>3
<1>. QED BY <1>1, <1>2, <1>3

\* It leaves the others where they are.
LEMMA OthersStay ==
  ASSUME TypeOK, NEW o \in Ops, NEW q \in Ops, q # o,
         \/ o \in Stores /\ Store(o)
         \/ o \in Retrieves /\ Retrieve(o)
         \/ o \in Migrations /\ MigrateShards(o)
  PROVE  Stays(q)
<1> USE FileAssumption DEF Ops, Return, Goto
<1>1. CASE o \in Stores /\ Store(o)
  BY <1>1 DEF TypeOK, Stays, callVars, Store, Lock, StoreWrite, StoreOpenFails, StoreWriteFails, Unlock
<1>2. CASE o \in Retrieves /\ Retrieve(o)
  BY <1>2 DEF TypeOK, Stays, callVars, Retrieve, RLock, ReadShard, ReadFails, RetrieveDone, Unlock
<1>3. CASE o \in Migrations /\ MigrateShards(o)
  BY <1>3 DEF TypeOK, Stays, callVars, MigrateShards, MigrateUnneeded, MigrateLock, Lock, MigrateRead,
              MigrateReadFails, MigrateLine, MigrateLineFails, MigrateRemove, MigrateDone, Unlock
<1>. QED BY <1>1, <1>2, <1>3

\* No call loops or is set back, for any number of shards, lines and calls: all that is
\* between this and the end of every call is the mutex, and that a call is run at all.
THEOREM CallsMakeProgress == Spec => CallsAdvance
<1>1. ASSUME TypeOK, [Next]_vars, vars' # vars
      PROVE  /\ \A o \in Ops : Advances(o) \/ Stays(o)
             /\ faults < faults' \/ \E o \in Ops : Advances(o)
  <2>1. ASSUME NEW o \in Ops,
               \/ o \in Stores /\ Store(o)
               \/ o \in Retrieves /\ Retrieve(o)
               \/ o \in Migrations /\ MigrateShards(o)
        PROVE  Advances(o) /\ \A q \in Ops : q # o => Stays(q)
    BY <1>1, <2>1, CallSteps, OthersStay
  <2>2. CASE Crash
    <3>1. faults < faults'
      BY <1>1, <2>2, FileAssumption DEF Crash, Fault, TypeOK
    <3>2. ASSUME NEW o \in Ops PROVE Advances(o) \/ Stays(o)
      BY <1>1, <2>2, <3>2 DEF Crash, TypeOK, Advances, Stays, Working
    <3>. QED BY <3>1, <3>2
  <2>3. Crash \/ \E o \in Ops : \/ o \in Stores /\ Store(o)
                                \/ o \in Retrieves /\ Retrieve(o)
                                \/ o \in Migrations /\ MigrateShards(o)
    BY <1>1 DEF Next, Ops
  <2>. QED BY <2>1, <2>2, <2>3
<1>2. TypeOK /\ [Next]_vars =>
        [/\ \A o \in Ops : Advances(o) \/ Stays(o)
         /\ faults < faults' \/ \E o \in Ops : Advances(o)]_vars
  BY <1>1
<1>. QED BY FileTypes, <1>2, PTL DEF Spec, CallsAdvance

\* The guard of some step of a call that nobody's failure is needed for: to begin it needs
\* the mutex, and from then on each state of its loops has a step.
CanMove(o) ==
  \/ pc[o] = "idle" /\ (o \in Migrations => OldDepth # NewDepth)
       /\ writer = None /\ (o \in Retrieves \/ readers = {})
  \/ pc[o] = "idle" /\ o \in Migrations /\ OldDepth = NewDepth
  \/ pc[o] = "write" /\ o \in Stores
  \/ pc[o] = "read" /\ o \in Retrieves /\ (shard[o] < NumShards \/ shard[o] = NumShards)
  \/ pc[o] = "migrate" /\ o \in Migrations /\ (AtShard(o) \/ shard[o] = OldShards)
  \/ pc[o] = "copy" /\ o \in Migrations
       /\ (pending[o] = <<>> \/ Head(pending[o]) \in {Garbage} \cup (Stores \ Movable) \cup Movable)
  \/ pc[o] = "return"

\* Not every call waits for another, in Store, Retrieve or MigrateShards: as long as one
\* has not ended, one can go on.
THEOREM NoDeadlock ==
  Spec => []((\A o \in Ops : pc[o] = "done") \/ \E o \in Ops : CanMove(o))
<1>1. FInv /\ LockReleased =>
        (\A o \in Ops : pc[o] = "done") \/ \E o \in Ops : CanMove(o)
  <2> SUFFICES ASSUME FInv, LockReleased, NEW o \in Ops, pc[o] # "done"
               PROVE  \E q \in Ops : CanMove(q)
    OBVIOUS
  <2>t. TypeOK
    BY DEF FInv
  <2>1. ASSUME NEW q \in Ops, pc[q] \notin {"idle", "done"} PROVE CanMove(q)
    <3>1. /\ pc[q] \in {"write", "read", "migrate", "copy", "return"}
          /\ pc[q] = "write" => q \in Stores
          /\ pc[q] = "read" => q \in Retrieves
          /\ pc[q] \in {"migrate", "copy"} => q \in Migrations
      BY <2>1 DEF FInv, CallInv, Ops
    <3>2. /\ q \in Retrieves => shard[q] < NumShards \/ shard[q] = NumShards
          /\ q \in Migrations => shard[q] < OldShards \/ shard[q] = OldShards
      BY <2>t, FileAssumption, NumShardsNat DEF TypeOK
    <3>3. ASSUME q \in Migrations, pending[q] # <<>>
          PROVE  Head(pending[q]) \in {Garbage} \cup (Stores \ Movable) \cup Movable
      <4>1. pending[q] \in Seq(Line) /\ Head(pending[q]) \in Line
        BY <2>t, <3>3 DEF TypeOK
      <4>. QED BY <4>1 DEF Line
    <3>. QED BY <3>1, <3>2, <3>3 DEF CanMove, AtShard
  <2>2. CASE \A q \in Ops : pc[q] \in {"idle", "done"}
    <3>1. writer = None /\ readers = {}
      BY <2>t, <2>2, FileAssumption DEF TypeOK, LockReleased, Ops
    <3>. QED BY <2>2, <3>1 DEF CanMove
  <2>. QED BY <2>1, <2>2
<1>. QED BY FileInvariance, LockIsReleased, <1>1, PTL
-----------------------------------------------------------------------------
(* For the components that use FileStorage *)

\* What is acknowledged stays so.
LEMMA AckedStays ==
  ASSUME FInv, [Next]_vars
  PROVE  Acked \subseteq Acked'
<1> USE FileAssumption DEF Ops, mutex, callVars, histories, Return, Goto
<1>t. TypeOK
  BY DEF FInv
<1> SUFFICES ASSUME NEW m \in Stores, pc[m] = "done", result[m] = "ok"
             PROVE  pc'[m] = "done" /\ result'[m] = "ok"
  BY DEF Acked
<1>1. CASE \E x \in Stores : Store(x)
  BY <1>1, <1>t DEF TypeOK, Store, Lock, StoreWrite, StoreOpenFails, StoreWriteFails, Unlock
<1>2. CASE \E r \in Retrieves : Retrieve(r)
  BY <1>2, <1>t DEF TypeOK, Retrieve, RLock, ReadShard, ReadFails, RetrieveDone, Unlock
<1>3. ASSUME NEW g \in Migrations, MigrateShards(g) PROVE pc'[m] = "done" /\ result'[m] = "ok"
  <2>1. /\ m # g /\ \E state : pc' = pc \/ pc' = [pc EXCEPT ![g] = state]
        /\ \E res : result' = result \/ result' = [result EXCEPT ![g] = res]
    BY <1>3 DEF MigrateShards, MigrateUnneeded, MigrateLock, Lock, MigrateRead, MigrateReadFails,
                MigrateLine, MigrateLineFails, MigrateRemove, MigrateDone, Unlock
  <2>. QED BY <1>t, <2>1 DEF TypeOK
<1>4. CASE Crash
  BY <1>4 DEF Crash
<1>5. CASE UNCHANGED vars
  BY <1>5 DEF vars
<1>. QED BY <1>1, <1>2, <1>3, <1>4, <1>5 DEF Next

\* Where a Retrieve can go in one step, and what it keeps of the others.
LEMMA RetrieveSteps ==
  ASSUME FInv, NEW r \in Retrieves, Retrieve(r)
  PROVE  /\ \A q \in Retrieves : q # r =>
              /\ pc'[q] = pc[q] /\ result'[q] = result[q] /\ found'[q] = found[q]
              /\ acked'[q] = acked[q] /\ (q \in readers' <=> q \in readers)
         /\ \/ pc[r] = "idle" /\ pc'[r] = "read" /\ acked'[r] = Acked
            \/ pc[r] = "read" /\ pc'[r] = "read" /\ acked'[r] = acked[r] /\ readers' = readers
            \/ /\ pc[r] = "read" /\ pc'[r] = "return" /\ result'[r] \in {"ok", "error"}
               /\ acked'[r] = acked[r] /\ readers' = readers
            \/ /\ pc[r] = "return" /\ pc'[r] = "done" /\ result'[r] = result[r]
               /\ acked'[r] = acked[r] /\ r \notin readers'
<1> USE FileAssumption DEF Ops, mutex, callVars, histories, Return, Goto
<1>t. TypeOK
  BY DEF FInv
<1>1. CASE RLock(r)
  BY <1>1, <1>t DEF RLock, TypeOK
<1>2. CASE ReadShard(r)
  BY <1>2, <1>t DEF ReadShard, TypeOK
<1>3. CASE ReadFails(r)
  <2>1. \A q \in Retrieves : q # r => found'[q] = found[q]
    BY <1>3, <1>t DEF ReadFails, TypeOK
  <2>. QED BY <1>3, <1>t, <2>1 DEF ReadFails, TypeOK
<1>4. CASE RetrieveDone(r)
  BY <1>4, <1>t DEF RetrieveDone, TypeOK
<1>5. CASE Unlock(r)
  BY <1>5, <1>t DEF Unlock, TypeOK
<1>. QED BY <1>1, <1>2, <1>3, <1>4, <1>5 DEF Retrieve
=============================================================================
