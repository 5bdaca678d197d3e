----------------------------- MODULE Processor ------------------------------
(***************************************************************************)
(* ProcessMessage of internal/business/message_processor.go over S3,       *)
(* FileStorage, Redshift and AMQP.  A call is a Store of FileStorage once  *)
(* it has come that far; searches and migrations go on meanwhile.          *)
(*                                                                         *)
(* The package is imported by nothing and does not compile as it stands:   *)
(* it takes the header's fields, and a Content that can be nil, from the   *)
(* message itself.  They are read here as the header's and as no content.  *)
(***************************************************************************)
EXTENDS FileStorage

CONSTANTS Topic, Timestamp,  \* of each message
          Size,              \* its length in JSON
          Limit              \* s3OffloadLimit

VARIABLES stage,      \* where each call is
          uri,        \* the S3URI of each message, whose content is gone with it
          object,     \* the message each key of the bucket holds
          row,        \* the messages with a row in Redshift
          published,  \* the messages the broker has taken
          refused,    \* the uploads answered with an error status (history)
          seen        \* what was published as each search began (history)

processVars == <<stage, uri, object, row, published, refused, seen>>
allVars == <<vars, processVars>>

Key(m) == <<Topic[m], Timestamp[m]>>
Keys == {Key(m) : m \in Stores}
Offloaded(m) == Limit = -1 \/ Size[m] > Limit

At(m, here, there) == stage[m] = here /\ stage' = [stage EXCEPT ![m] = there]
Upload(m) == object' = [object EXCEPT ![Key(m)] = m]

ProcessInit ==
  /\ Init
  /\ stage = [m \in Stores |-> "new"]
  /\ uri = [m \in Stores |-> None] /\ object = [k \in Keys |-> None]
  /\ row = {} /\ published = {} /\ refused = {}
  /\ seen = [r \in Retrieves |-> {}]
-----------------------------------------------------------------------------
\* json.Marshal may refuse the content.
Begin(m) ==
  /\ \/ At(m, "new", IF Offloaded(m) THEN "upload" ELSE "store")
     \/ At(m, "new", "error")
  /\ UNCHANGED <<vars, uri, object, row, published, refused, seen>>

\* S3 has answered; nobody looks at the status.
Offload(m) ==
  /\ At(m, "upload", "store") /\ uri' = [uri EXCEPT ![m] = Key(m)]
  /\ \/ Upload(m) /\ UNCHANGED refused
     \/ refused' = refused \cup {m} /\ UNCHANGED object
  /\ UNCHANGED <<vars, row, published, seen>>

\* Mutant of OffloadFails: the message is changed before the upload.
OffloadFails_Changed(m) ==
  /\ At(m, "upload", "error") /\ uri' = [uri EXCEPT ![m] = Key(m)]
  /\ Upload(m) \/ UNCHANGED object
  /\ UNCHANGED <<vars, row, published, refused, seen>>

\* Mutant of OffloadFails: the error is logged.
OffloadFails_Logged(m) ==
  /\ At(m, "upload", "store") /\ uri' = [uri EXCEPT ![m] = Key(m)]
  /\ Upload(m) \/ UNCHANGED object
  /\ UNCHANGED <<vars, row, published, refused, seen>>

\* The request fails, or only its answer.
OffloadFails(m) ==
  /\ At(m, "upload", "error")
  /\ Upload(m) \/ UNCHANGED object
  /\ UNCHANGED <<vars, uri, row, published, refused, seen>>

StoreMessage(m) == stage[m] = "store" /\ Store(m) /\ UNCHANGED processVars

\* Mutant of Stored: the error is logged.
Stored_Logged(m) ==
  /\ pc[m] = "done" /\ At(m, "store", "insert")
  /\ UNCHANGED <<vars, uri, object, row, published, refused, seen>>

Stored(m) ==
  /\ pc[m] = "done" /\ At(m, "store", IF result[m] = "ok" THEN "insert" ELSE "error")
  /\ UNCHANGED <<vars, uri, object, row, published, refused, seen>>

Insert(m) ==
  /\ At(m, "insert", "publish") /\ row' = row \cup {m}
  /\ UNCHANGED <<vars, uri, object, published, refused, seen>>

\* Mutant of InsertFails: the error is logged.
InsertFails_Logged(m) ==
  /\ At(m, "insert", "publish")
  /\ row' \in {row, row \cup {m}}
  /\ UNCHANGED <<vars, uri, object, published, refused, seen>>

\* The INSERT fails, or only its answer.
InsertFails(m) ==
  /\ At(m, "insert", "error")
  /\ row' \in {row, row \cup {m}}
  /\ UNCHANGED <<vars, uri, object, published, refused, seen>>

\* PublishMessage returns nil, also for a message that the broker has not kept.
Publish(m) ==
  /\ At(m, "publish", "ok")
  /\ published' \in {published, published \cup {m}}
  /\ UNCHANGED <<vars, uri, object, row, refused, seen>>

\* PublishMessage returns an error, whether or not the broker has the message.
PublishFails(m) ==
  /\ At(m, "publish", "error")
  /\ published' \in {published, published \cup {m}}
  /\ UNCHANGED <<vars, uri, object, row, refused, seen>>

ProcessMessage(m) ==
  \/ Begin(m) \/ Offload(m) \/ OffloadFails(m) \/ StoreMessage(m) \/ Stored(m)
  \/ Insert(m) \/ InsertFails(m) \/ Publish(m) \/ PublishFails(m)

Search(r) ==
  /\ Retrieve(r)
  /\ seen' = IF pc[r] = "idle" THEN [seen EXCEPT ![r] = published] ELSE seen
  /\ UNCHANGED <<stage, uri, object, row, published, refused>>

Die ==
  /\ Crash
  /\ stage' = [m \in Stores |-> IF stage[m] \in {"new", "ok", "error"} THEN stage[m] ELSE "lost"]
  /\ UNCHANGED <<uri, object, row, published, refused, seen>>

ProcessNext ==
  \/ \E m \in Stores : ProcessMessage(m)
  \/ \E r \in Retrieves : Search(r)
  \/ \E g \in Migrations : MigrateShards(g) /\ UNCHANGED processVars
  \/ Die

ProcessSpec == ProcessInit /\ [][ProcessNext]_allVars
-----------------------------------------------------------------------------
\* Types; a message loses its content only with an upload behind it, and none that
\* comes back with an error before Store has lost it.
ProcessTypeOK ==
  /\ stage \in [Stores -> {"new", "upload", "store", "insert", "publish", "ok", "error", "lost"}]
  /\ object \in [Keys -> Stores \cup {None}] /\ seen \in [Retrieves -> SUBSET Stores]
  /\ row \subseteq Stores /\ published \subseteq Stores /\ refused \subseteq Stores
  /\ \A m \in Stores :
       /\ uri[m] \in {None, Key(m)}
       /\ stage[m] \in {"new", "upload"} => uri[m] = None /\ pc[m] = "idle"
       /\ stage[m] = "error" /\ pc[m] = "idle" => uri[m] = None

\* Whatever step failed and wherever the process died, what is published has its row
\* and what has a row is in its file; a call that returned nil left file and row.
StoredThenPublished ==
  /\ row \subseteq Acked /\ published \subseteq row
  /\ \A m \in Stores : stage[m] = "ok" => m \in row

\* A consumer that searches for the trace of a message it has received finds that
\* message, unless a write to the message's shard was cut short.
PublishedIsFound ==
  \A r \in Retrieves : Finished(r) =>
    \A m \in seen[r] : Trace[m] = Trace[r] => m \in found[r] \/ ShardOf(m) \in damaged

\* The content a message has given up is at its S3URI, unless S3 refused the upload or
\* another message with the same topic and timestamp has come over it.
ContentKept ==
  \A m \in Stores : uri[m] # None /\ object[uri[m]] # m =>
    \/ m \in refused
    \/ \E n \in Stores \ {m} : /\ Topic[n] = Topic[m] /\ Timestamp[n] = Timestamp[m]
                               /\ stage[n] # "new"
=============================================================================
