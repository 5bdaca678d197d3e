--------------------------- MODULE FileRefinement ---------------------------
(***************************************************************************)
(* FileStorage implements MessageLog.  The log is what can be read back    *)
(* from each message's own shard.  A store takes effect when its line is   *)
(* written, a search when it gives up the mutex; callers are told when     *)
(* their call has returned, and a crash tells them nothing.                *)
(***************************************************************************)
EXTENDS FileStorage

Log == INSTANCE MessageLog WITH
  Group <- [m \in Stores |-> ShardOf(m)],
  log <- {m \in Stores : m \in Parsed(file[ShardOf(m)])},
  doubt <- damaged,
  answer <- [r \in Retrieves |-> IF Finished(r) THEN found[r] ELSE None],
  told <- [m \in Stores |-> IF pc[m] = "done" THEN result[m] ELSE None]

\* While every shard is one that Retrieve reads and no migration moves messages,
\* Store and Retrieve are atomic to their callers, whatever fails (Store and
\* Retrieve under the RWMutex).
ImplementsLog == Log!LogSpec
=============================================================================
