---------------------------- MODULE FileStorage -----------------------------
(***************************************************************************)
(* FileStorage of internal/storage/file_storage.go: messages appended to   *)
(* shard files under one RWMutex, read back by trace ID, and moved by      *)
(* MigrateShards.                                                          *)
(*                                                                         *)
(* A file is the sequence of its complete lines and the unterminated bytes *)
(* after the last newline.  A line is the message it encodes, or Garbage;  *)
(* a missing file and an empty one are the same.  A file name stands for   *)
(* what is between "shard_" and ".json": the characters of the shard, of   *)
(* which those from HexBase up are no lower-case hexadecimal digits, and   *)
(* whether they were misprinted.                                           *)
(***************************************************************************)
EXTENDS Integers, Sequences, FiniteSets

CONSTANTS Stores,      \* calls of Store, each with its own message
          Retrieves,   \* calls of Retrieve
          Migrations,  \* calls of MigrateShards
          Id,          \* the header.id of each message, a sequence of digits
          Trace,       \* the trace ID of each message and of each Retrieve
          Depth,       \* shardDepth
          OldDepth, NewDepth,  \* the arguments of MigrateShards
          HexBase, DecBase,    \* 16 and 10
          MaxFaults,   \* bound on failing system calls and crashes
          Garbage, None

NumShards == HexBase * HexBase   \* DefaultNumShards
OldShards == 2^OldDepth
Ops == Stores \cup Retrieves \cup Migrations

ASSUME FileAssumption ==
  /\ Depth \in Nat /\ OldDepth \in Nat /\ NewDepth \in Nat /\ MaxFaults \in Nat
  /\ OldShards \in Nat   \* which no prover finds out by itself
  /\ DecBase \in Nat /\ HexBase \in Nat /\ 1 < DecBase /\ DecBase <= HexBase
  /\ Stores \cap Retrieves = {} /\ (Stores \cup Retrieves) \cap Migrations = {}
  /\ None \notin Ops \cup {Garbage, "ok", "error", "panic"} /\ Garbage \notin Ops
  /\ Id \in [Stores -> Seq(0..HexBase)]

VARIABLES file,     \* contents of each file
          writer,   \* the call that holds mu for writing, or None
          readers,  \* the calls that hold mu for reading
          pc,       \* where each call is
          result,   \* what it returns: "ok", "error", or "panic"
          shard,    \* the shard a Retrieve or MigrateShards is at
          found,    \* the messages a Retrieve has collected
          pending,  \* the lines of the old file a MigrateShards has to copy
          faults,
          acked,    \* for each Retrieve, the stores that had returned nil when it began (history)
          damaged   \* files with a write cut short (history)

mutex == <<writer, readers>>
callVars == <<result, shard, found, pending>>
histories == <<acked, damaged>>
vars == <<file, mutex, pc, callVars, faults, histories>>

GetShard(id) == IF Len(id) < Depth THEN id ELSE SubSeq(id, 1, Depth)
Decimal[n \in Nat] == IF n < DecBase THEN <<n>> ELSE Append(Decimal[n \div DecBase], n % DecBase)

\* The names Store (%s), Retrieve (%02x) and MigrateShards (%d) print.
Shard(chars) == [chars |-> chars, misprint |-> FALSE]
ShardOf(m) == Shard(GetShard(Id[m]))
HexName(n) == Shard(<<n \div HexBase, n % HexBase>>)
DecimalName(n) == Shard(Decimal[n])

\* The new name is a string printed with %d: "%!d(string=...)".
MigratedName(id) == [chars |-> GetShard(SubSeq(id, 1, NewDepth)), misprint |-> TRUE]

Movable == {m \in Stores : NewDepth <= Len(Id[m])}
Names ==
  {HexName(n) : n \in 0..(NumShards - 1)} \cup {DecimalName(n) : n \in 0..(OldShards - 1)}
    \cup {ShardOf(m) : m \in Stores} \cup {MigratedName(Id[m]) : m \in Movable}

Empty == [lines |-> <<>>, tail |-> None]

\* Mutant of Appended: the file is opened without O_APPEND.
Appended_Truncated(f, m) == [lines |-> <<m>>, tail |-> None]

\* Mutant of Appended: the line has no newline.
Appended_NoNewline(f, m) == [f EXCEPT !.tail = IF @ = None THEN m ELSE Garbage]

\* A write at the end of a file: an unterminated tail makes the line unreadable.
Appended(f, m) ==
  [lines |-> Append(f.lines, IF f.tail = None THEN m ELSE Garbage), tail |-> None]

\* What a write of m cut short leaves: part of the line, or all but the newline.
CutShort(f, m) ==
  {[f EXCEPT !.tail = t] : t \in {Garbage} \cup (IF f.tail = None THEN {m} ELSE {})}

\* bytes.Split on newlines, empty pieces skipped.
Lines(f) == IF f.tail = None THEN f.lines ELSE Append(f.lines, f.tail)
Parsed(f) == {Lines(f)[i] : i \in DOMAIN Lines(f)} \ {Garbage}

Goto(o, state) == pc' = [pc EXCEPT ![o] = state]
Return(o, res) == Goto(o, "return") /\ result' = [result EXCEPT ![o] = res]
Fault == faults < MaxFaults /\ faults' = faults + 1
Write(name, contents) == file' = [file EXCEPT ![name] = contents]
Acked == {m \in Stores : pc[m] = "done" /\ result[m] = "ok"}

Init ==
  /\ file = [name \in Names |-> Empty]
  /\ writer = None /\ readers = {}
  /\ pc = [o \in Ops |-> "idle"]
  /\ result = [o \in Ops |-> None]
  /\ shard = [o \in Retrieves \cup Migrations |-> 0]
  /\ found = [r \in Retrieves |-> {}]
  /\ pending = [g \in Migrations |-> <<>>]
  /\ faults = 0
  /\ acked = [r \in Retrieves |-> {}]
  /\ damaged = {}
-----------------------------------------------------------------------------
(* The RWMutex, locked on entry and unlocked by a defer *)

Lock(o, state) ==
  /\ pc[o] = "idle" /\ Goto(o, state)
  /\ writer = None /\ readers = {} /\ writer' = o
  /\ UNCHANGED <<file, readers, callVars, faults, histories>>

\* Mutant of RLock: Retrieve does not lock.
RLock_Missing(r) ==
  /\ pc[r] = "idle" /\ Goto(r, "read")
  /\ acked' = [acked EXCEPT ![r] = Acked]
  /\ UNCHANGED <<file, mutex, callVars, faults, damaged>>

\* Mutant of RLock: the call that holds the mutex for writing is not waited for.
RLock_Shared(r) ==
  /\ pc[r] = "idle" /\ Goto(r, "read")
  /\ readers' = readers \cup {r}
  /\ acked' = [acked EXCEPT ![r] = Acked]
  /\ UNCHANGED <<file, writer, callVars, faults, damaged>>

RLock(r) ==
  /\ pc[r] = "idle" /\ Goto(r, "read")
  /\ writer = None /\ readers' = readers \cup {r}
  /\ acked' = [acked EXCEPT ![r] = Acked]
  /\ UNCHANGED <<file, writer, callVars, faults, damaged>>

Unlock(o) ==
  /\ pc[o] = "return" /\ Goto(o, "done")
  /\ writer' = IF writer = o THEN None ELSE writer
  /\ readers' = readers \ {o}
  /\ UNCHANGED <<file, callVars, faults, histories>>
-----------------------------------------------------------------------------
(* Store *)

StoreWrite(m) ==
  /\ pc[m] = "write" /\ Return(m, "ok")
  /\ Write(ShardOf(m), Appended(file[ShardOf(m)], m))
  /\ UNCHANGED <<mutex, shard, found, pending, faults, histories>>

\* Mutant of StoreOpenFails: an early return without the unlock.
StoreOpenFails_Locked(m) ==
  /\ pc[m] = "write" /\ Fault /\ Goto(m, "done")
  /\ result' = [result EXCEPT ![m] = "error"]
  /\ UNCHANGED <<file, mutex, shard, found, pending, histories>>

\* OpenFile fails.
StoreOpenFails(m) ==
  /\ pc[m] = "write" /\ Fault /\ Return(m, "error")
  /\ UNCHANGED <<file, mutex, shard, found, pending, histories>>

\* Write fails, part of the line written.
StoreWriteFails(m) ==
  /\ pc[m] = "write" /\ Fault /\ Return(m, "error")
  /\ \E f \in CutShort(file[ShardOf(m)], m) : Write(ShardOf(m), f)
  /\ damaged' = damaged \cup {ShardOf(m)}
  /\ UNCHANGED <<mutex, shard, found, pending, acked>>
-----------------------------------------------------------------------------
(* Retrieve: the shards in order, unreadable lines skipped *)

ReadShard(r) ==
  /\ pc[r] = "read" /\ shard[r] < NumShards
  /\ found' = [found EXCEPT ![r] =
       @ \cup {m \in Parsed(file[HexName(shard[r])]) : Trace[m] = Trace[r]}]
  /\ shard' = [shard EXCEPT ![r] = @ + 1]
  /\ UNCHANGED <<file, mutex, pc, result, pending, faults, histories>>

\* Mutant of ReadFails: it returns what it has found so far and no error.
ReadFails_Partial(r) ==
  /\ pc[r] = "read" /\ shard[r] < NumShards /\ Fault /\ Return(r, "ok")
  /\ UNCHANGED <<file, mutex, shard, found, pending, histories>>

ReadFails(r) ==
  /\ pc[r] = "read" /\ shard[r] < NumShards /\ Fault /\ Return(r, "error")
  /\ found' = [found EXCEPT ![r] = {}]
  /\ UNCHANGED <<file, mutex, shard, pending, histories>>

RetrieveDone(r) ==
  /\ pc[r] = "read" /\ shard[r] = NumShards /\ Return(r, "ok")
  /\ UNCHANGED <<file, mutex, shard, found, pending, faults, histories>>
-----------------------------------------------------------------------------
(* MigrateShards: each old file copied line by line, then removed *)

OldName(g) == DecimalName(shard[g])
AtShard(g) == pc[g] = "migrate" /\ shard[g] < OldShards

MigrateUnneeded(g) ==
  /\ pc[g] = "idle" /\ OldDepth = NewDepth /\ Return(g, "ok")
  /\ UNCHANGED <<file, mutex, shard, found, pending, faults, histories>>

MigrateLock(g) == OldDepth # NewDepth /\ Lock(g, "migrate")

\* Mutant of MigrateRead: the old file is removed as soon as it is read.
MigrateRead_Removes(g) ==
  /\ AtShard(g)
  /\ \/ file[OldName(g)] = Empty /\ shard' = [shard EXCEPT ![g] = @ + 1] /\ UNCHANGED <<file, pc, pending>>
     \/ file[OldName(g)] # Empty /\ pending' = [pending EXCEPT ![g] = Lines(file[OldName(g)])]
          /\ Write(OldName(g), Empty) /\ Goto(g, "copy") /\ UNCHANGED shard
  /\ UNCHANGED <<mutex, result, found, faults, histories>>

\* A missing file is skipped.
MigrateRead(g) ==
  /\ AtShard(g)
  /\ \/ file[OldName(g)] = Empty /\ shard' = [shard EXCEPT ![g] = @ + 1] /\ UNCHANGED <<pc, pending>>
     \/ file[OldName(g)] # Empty /\ pending' = [pending EXCEPT ![g] = Lines(file[OldName(g)])]
          /\ Goto(g, "copy") /\ UNCHANGED shard
  /\ UNCHANGED <<file, mutex, result, found, faults, histories>>

MigrateReadFails(g) ==
  /\ AtShard(g) /\ Fault /\ Return(g, "error")
  /\ UNCHANGED <<file, mutex, shard, found, pending, histories>>

\* One line: an unreadable one ends the migration, a short ID panics.
MigrateLine(g) ==
  LET m == Head(pending[g]) IN
  /\ pc[g] = "copy" /\ pending[g] # <<>>
  /\ \/ m = Garbage /\ Return(g, "error") /\ UNCHANGED <<file, pending>>
     \/ m \in Stores \ Movable /\ Return(g, "panic") /\ UNCHANGED <<file, pending>>
     \/ /\ m \in Movable
        /\ Write(MigratedName(Id[m]), Appended(file[MigratedName(Id[m])], m))
        /\ pending' = [pending EXCEPT ![g] = Tail(@)]
        /\ UNCHANGED <<pc, result>>
  /\ UNCHANGED <<mutex, shard, found, faults, histories>>

MigrateLineFails(g) ==
  LET m == Head(pending[g]) IN
  /\ pc[g] = "copy" /\ pending[g] # <<>> /\ Fault
  /\ m \in Movable /\ Return(g, "error")
  /\ \/ UNCHANGED <<file, damaged>>
     \/ /\ \E f \in CutShort(file[MigratedName(Id[m])], m) : Write(MigratedName(Id[m]), f)
        /\ damaged' = damaged \cup {MigratedName(Id[m])}
  /\ UNCHANGED <<mutex, shard, found, pending, acked>>

\* Mutant of MigrateRemove: a file that cannot be removed is tried again.
MigrateRemove_Again(g) ==
  /\ pc[g] = "copy" /\ pending[g] = <<>> /\ Goto(g, "migrate")
  /\ \/ Write(OldName(g), Empty) /\ UNCHANGED faults /\ shard' = [shard EXCEPT ![g] = @ + 1]
     \/ Fault /\ UNCHANGED <<file, shard>>
  /\ UNCHANGED <<mutex, result, found, pending, histories>>

\* A failing Remove is logged and the file stays.
MigrateRemove(g) ==
  /\ pc[g] = "copy" /\ pending[g] = <<>> /\ Goto(g, "migrate")
  /\ shard' = [shard EXCEPT ![g] = @ + 1]
  /\ \/ Write(OldName(g), Empty) /\ UNCHANGED faults
     \/ Fault /\ UNCHANGED file
  /\ UNCHANGED <<mutex, result, found, pending, histories>>

MigrateDone(g) ==
  /\ pc[g] = "migrate" /\ shard[g] = OldShards /\ Return(g, "ok")
  /\ UNCHANGED <<file, mutex, shard, found, pending, faults, histories>>
-----------------------------------------------------------------------------
\* The process dies and starts again on the same files.
Crash ==
  /\ Fault
  /\ pc' = [o \in Ops |-> IF pc[o] = "idle" THEN "idle" ELSE "done"]
  /\ result' = [o \in Ops |-> IF pc[o] = "done" THEN result[o] ELSE None]
  /\ writer' = None /\ readers' = {}
  /\ UNCHANGED <<file, shard, found, pending, histories>>

Store(m) == Lock(m, "write") \/ StoreWrite(m) \/ StoreOpenFails(m) \/ StoreWriteFails(m) \/ Unlock(m)
Retrieve(r) == RLock(r) \/ ReadShard(r) \/ ReadFails(r) \/ RetrieveDone(r) \/ Unlock(r)
MigrateShards(g) ==
  \/ MigrateUnneeded(g) \/ MigrateLock(g) \/ MigrateRead(g) \/ MigrateReadFails(g)
  \/ MigrateLine(g) \/ MigrateLineFails(g) \/ MigrateRemove(g) \/ MigrateDone(g) \/ Unlock(g)

Next ==
  \/ \E m \in Stores : Store(m)
  \/ \E r \in Retrieves : Retrieve(r)
  \/ \E g \in Migrations : MigrateShards(g)
  \/ Crash

Spec == Init /\ [][Next]_vars

\* Every call runs, and gets the mutex in the end: a waiting writer stops new
\* readers, and waiters are woken in turn.
FairSpec ==
  /\ Spec
  /\ \A m \in Stores : SF_vars(Store(m))
  /\ \A r \in Retrieves : SF_vars(Retrieve(r))
  /\ \A g \in Migrations : SF_vars(MigrateShards(g))
-----------------------------------------------------------------------------
Line == Stores \cup {Garbage}

\* Types, and the mutex: a writer excludes readers, and its holders are the
\* calls in their critical section.
TypeOK ==
  /\ file \in [Names -> [lines : Seq(Line), tail : Line \cup {None}]]
  /\ writer \in Stores \cup Migrations \cup {None} /\ readers \subseteq Retrieves
  /\ writer # None => readers = {}
  /\ \A o \in Ops :
       pc[o] \in {"write", "read", "migrate", "copy"} => o = writer \/ o \in readers
  /\ pc \in [Ops -> {"idle", "write", "read", "migrate", "copy", "return", "done"}]
  /\ result \in [Ops -> {"ok", "error", "panic", None}]
  /\ shard \in [Retrieves \cup Migrations -> Nat]
  /\ \A r \in Retrieves : shard[r] <= NumShards
  /\ \A g \in Migrations : shard[g] <= OldShards
  /\ found \in [Retrieves -> SUBSET Stores] /\ acked \in [Retrieves -> SUBSET Stores]
  /\ pending \in [Migrations -> Seq(Line)]
  /\ faults \in 0..MaxFaults /\ damaged \subseteq Names

Finished(r) == pc[r] = "done" /\ result[r] = "ok"

\* Every shard is a file that Retrieve reads, and no migration moves messages.
Searchable ==
  /\ OldDepth = NewDepth \/ Migrations = {}
  /\ \A m \in Stores : \E n \in 0..(NumShards - 1) : ShardOf(m) = HexName(n)

\* A Retrieve finds every message of its trace whose Store had returned nil when
\* it began, unless a write to the same shard was cut short: the next append
\* runs into what that write left.
AckedIsFound ==
  \A r \in Retrieves : Finished(r) =>
    \A m \in acked[r] : Trace[m] = Trace[r] => m \in found[r] \/ ShardOf(m) \in damaged

\* Two searches of a trace see the stores in one order, though each reads the
\* shards one at a time: one finds all the other does, but for shards a write was
\* cut short in.
SearchesAgree ==
  LET Whole(r) == {m \in found[r] : ShardOf(m) \notin damaged} IN
  \A q, r \in Retrieves :
    Finished(q) /\ Finished(r) /\ Trace[q] = Trace[r] =>
      Whole(q) \subseteq Whole(r) \/ Whole(r) \subseteq Whole(q)

\* No migration, whole or broken off by an error, a panic or a crash, loses a
\* stored message, unless a write to its old or new file was cut short.
MigrationLosesNothing ==
  \A m \in Acked :
    \/ \E name \in Names : m \in Parsed(file[name])
    \/ ShardOf(m) \in damaged
    \/ m \in Movable /\ MigratedName(Id[m]) \in damaged

\* No step of any call, whole or cut short by a failure, a panic or a crash, takes
\* away a message that can be read from some file, acknowledged or not, unless a
\* write to its old or new file has been cut short.
Readable(m) == \E name \in Names : m \in Parsed(file[name])
StaysReadable ==
  [][\A m \in Stores : Readable(m) =>
       \/ Readable(m)'
       \/ ShardOf(m) \in damaged'
       \/ m \in Movable /\ MigratedName(Id[m]) \in damaged']_vars

\* A failed or interrupted write costs at most one acknowledged message: the next append
\* to the file runs into what it left and is acknowledged all the same, but ends the
\* damage with its newline; no migration multiplies the loss.
OneLostPerFault == Cardinality({m \in Acked : ~Readable(m)}) <= faults

\* Only a call that is still on its way to the unlock holds the mutex: no error, no
\* early return, no panic and no crash leaves it locked behind.
LockReleased == \A o \in Ops : o = writer \/ o \in readers => pc[o] \notin {"idle", "done"}

\* What a call still has before it, in a well-founded order: it begins, works shard by
\* shard and, in an old file, line by line, returns, and is done.
Working == {"write", "read", "migrate", "copy"}
Advances(o) ==
  \/ pc[o] = "idle" /\ pc'[o] # "idle"
  \/ pc[o] \in Working /\ pc'[o] \in {"return", "done"}
  \/ pc[o] = "return" /\ pc'[o] = "done"
  \/ /\ o \in Retrieves \cup Migrations /\ pc[o] \in Working /\ pc'[o] \in Working
     /\ shard[o] < shard'[o]
  \/ /\ o \in Migrations /\ shard'[o] = shard[o] /\ pc'[o] = "copy"
     /\ pc[o] = "migrate" \/ (pc[o] = "copy" /\ Len(pending'[o]) < Len(pending[o]))
Stays(o) ==
  /\ pc'[o] = pc[o]
  /\ o \in Retrieves \cup Migrations => shard'[o] = shard[o]
  /\ o \in Migrations => pending'[o] = pending[o]

\* Every step brings a call forward or is a failure, and none sets a call back: whatever
\* the files hold, whoever writes to them in between and wherever it fails, no loop of
\* Retrieve or MigrateShards does the same twice.
CallsAdvance ==
  [][/\ \A o \in Ops : Advances(o) \/ Stays(o)
     /\ faults < faults' \/ \E o \in Ops : Advances(o)]_vars

\* Every call gets the mutex and returns: no path leaves it locked.
CallReturns == \A o \in Ops : <>(pc[o] = "done")

\* README.md:75: search covers all persisted data.
SearchCoversPersisted ==
  \A r \in Retrieves : Finished(r) =>
    \A m \in acked[r] : Trace[m] = Trace[r] => m \in found[r]

\* The comment at file_storage.go:148: a migration moves each message to the new
\* shard structure, the file of its first NewDepth characters.
MovedToNewShard ==
  [][\A g \in Migrations :
       LET m == Head(pending[g])
           new == Shard(SubSeq(Id[m], 1, NewDepth))
       IN  (pc[g] = "copy" /\ Len(pending'[g]) < Len(pending[g]))
             => new \in Names /\ m \in Parsed(file'[new])]_vars
=============================================================================
