# Verification of pubsub-amqp

TLA+ models of the service, the TLC runs that check them and the TLAPS proofs
about them. Source paths below are relative to `src/`.

## 1. The system

An HTTP service (Go, `net/http` + gorilla/mux) in front of one AMQP 1.0 broker.

| Component | State | Operations | Talks to |
|---|---|---|---|
| AMQP service `internal/amqp` | one connection and one session, opened at start and never replaced | `NewAMQPService`, `PublishMessage`, `ConsumeMessage`; each call opens its own link and closes it in a defer | the broker |
| Handlers `internal/handlers` | none of their own | `POST /publish/{topic}`, `GET /subscribe/{topic}`, `GET /search`, `GET /uuid` | AMQP service, search |
| Broker (external, via go-amqp) | links, frames in flight, queues, unsettled deliveries | attach, transfer, disposition, detach | every link of the session |
| File storage `internal/storage/file_storage.go` | JSON lines in shard files, one `RWMutex` | `Store`, `Retrieve`, `MigrateShards` | the file system |
| Lifecycle `cmd/app/main.go`, `internal/config` | started services, two goroutines in an errgroup, the exit code | `NewConfig`, `ListenAndServe`, the signal watcher, `Shutdown`, `/healthz` | everything |
| Message processor `internal/business` | none | `ProcessMessage`: S3, file, Redshift, AMQP in turn | imported by nothing; does not compile against `models.MessagePayload` |
| Search `internal/search`, Neo4j | none | `SearchByTraceID`: Neo4j, then files; S3 and Redshift are placeholders | file storage, Neo4j |
| S3, Redshift | clients | upload and query; called by the message processor only | AWS |
| Metrics, tracing, UUIDs, XML helpers, models | counters, spans | stateless | none |

What is hard, and what makes each part correct:

* **Publish and subscribe.** Concurrent requests share a session that can die at
  any moment. A message may be handed to a receiver before `Receive` is called
  (link credit), settled before the response is written, stored although `Send`
  failed, redelivered although it was accepted. Correct means: a status
  says no more than the code knows, a message is read once unless a named disturbance explains a
  second time, nothing is consumed for nobody, no handler hangs.
* **File storage.** Readers look at 256 files one after another while writers
  append; system calls fail half way; a migration stops in the middle. Correct
  means: what was acknowledged is found, two searches agree on the order of the
  stores, nothing is lost, the mutex is always released.
* **Search.** Sources that fail one by one, rows read after their session was closed,
  panics on malformed rows, two layers counting. Correct means: a 200 has every message
  stored when the request came, every request is answered and counted once by each layer.
* **Message processor.** Four services written in turn without a transaction. Correct
  means: what is published can be found, and content is where the message says.
* **Lifecycle.** Two goroutines, a signal, a deadline and requests that may not
  end. Correct means: requests are cut off only at the deadline, the exit code
  says what happened, nothing is served half configured, a signal ends the process.

## 2. Modules

| Module | Models |
|---|---|
| `Broker` | the broker and the session, external |
| `AmqpPubSub` (extends `Broker`) | both handlers and `amqpService` |
| `DeliveryContract` | abstract specification: what the HTTP clients are promised |
| `AmqpRefinement` | the mapping under which `AmqpPubSub` implements `DeliveryContract` |
| `FileStorage` | `Store`, `Retrieve`, `MigrateShards` over files |
| `MessageLog` | abstract specification: stores and searches that take effect at one moment |
| `FileRefinement` | the mapping under which `FileStorage` implements `MessageLog` |
| `Search` (extends `FileStorage`) | `GET /search`: middleware, handler, Neo4j, files, counters |
| `Processor` (extends `FileStorage`) | `ProcessMessage` over S3, files, Redshift and the broker |
| `Lifecycle` | start, service and shutdown of the process |
| `AmqpPubSub_proofs`, `AmqpRefinement_proofs`, `FileStorage_proofs`, `FileRefinement_proofs`, `Search_proofs`, `Processor_proofs`, `Lifecycle_proofs` | theorems |
| `MCAmqpPubSub`, `MCFileStorage`, `MCSearch`, `MCProcessor`, `MCLifecycle` | small instances for TLC |

Definitions named `X_Something` just before `X` are deliberately wrong variants
of `X` (a plausible bug each). They are in no specification; substituted for `X`
they make a property fail, which shows that the property depends on that code.

### AmqpPubSub and Broker

A request is a process; `pc[r]` is the call it is about to make or return from:

    publish    open -> send -> await -> close -> closing -> respond
    subscribe  open -> receive -> accept -> settle -> close -> closing -> respond

| Code (`amqp_service.go` unless named) | Actions |
|---|---|
| `NewSender` :74, `NewReceiver` :117 | `OpenSender`, `OpenReceiver`, `OpenFails` |
| body read and decode, `publish_handler.go:72-92` | `BadBody` |
| `sender.Send` :99, which writes a transfer and waits | `Send`, `SendFails`, `Confirmed`, `Unconfirmed` |
| `receiver.Receive` :129 and the decode to :164 | `Receive`, `ReceiveFails` |
| `receiver.AcceptMessage` :167 | `Accept`, `AcceptFails`, `Accepted`, `AcceptUnsure` |
| deferred `Close` :81, :122 | `Close`, `Closed` |
| the handlers' answers | `Respond` |
| client gone, `ReadTimeout` (`main.go:100`) | `Leave`, `Notice`, `Timeout` |
| link or session lost, new process | `LoseLink`, `LoseConnection`, `Restart` |

The topic of each request and message is a constant. The broker keeps one pool of
messages; a link is given only messages of its topic. Each publisher's message
is named after it, so a duplicate would be the same name stored twice; the code
sends once per request.

Assumptions about go-amqp and the broker, all in `Broker`:

* an attach is answered or fails, and a failed attach leaves no link;
* frames of a link are processed in order and lost with the connection;
* a receiver link has one credit, so a message can be on it before `Receive`;
* the broker settles a transfer as accepted, rejected, or released or modified (one value,
  `"released"`: the message is not kept). `Send` of go-amqp v1.1.0, which `go.mod` pins, makes an
  error of rejected alone and returns nil for the others; `amqp_service.go:99-111` looks at nothing else;
* `AcceptMessage` returns without an answer of the broker;
* the broker may detach a link while the session stays up (`Drop`): what is in flight on it is lost;
* `Close` sends its detach even when its context is done; a detached or lost link
  gives its unsettled delivery back;
* a topic behaves as a queue: one message goes to one receiver at a time.

A delivery that has reached the client library but is unread when the connection
breaks counts as a failing `Receive`. The 204 branch and the empty-topic branches are
unreachable and have no action.

An attach that a cancelled `NewReceiver` (:117) abandons is freed by go-amqp and has no credit,
so it takes no message: it is modelled as no link.

`cut` is a history variable: the requests that waited on a frame as their link or the
connection was lost. The safety properties name it where the code can know no better.

### DeliveryContract

Messages are available, taken, or in doubt; a reader is given a message, a sender is
told a status. `Give` requires the message to be taken and to have been given to
nobody else, unless it is in doubt; `Tell(p, 202)` requires the broker to have decided on
the message and not to have refused it: it is `Put`, or `Decline`d, which is what a released or
modified outcome comes to. The contract does not promise that a message told 202 is kept, since the
code does not; it does promise that one without an outcome, or a rejected one, is never told 202,
and that a declined one is never read. `Doubt` returns taken messages, only among those it puts in
doubt at the same time. In `AmqpRefinement` a message is taken as soon as its
accept is on the wire and is given when a client has read it in a 200.

### FileStorage

A file is a sequence of complete lines and a possible unterminated tail. A line is
the message it encodes or `Garbage`. A file is named by what stands between `shard_`
and `.json`: the characters of the shard, as numbers, and whether they were misprinted.
Numbers from `HexBase` on are characters that are not lower-case hexadecimal digits.
The 16 and 10 of the code are `HexBase` and `DecBase`, so that a search reads `HexBase`²
files. `Store` prints a name with `%s`, `Retrieve` with `%02x`, `MigrateShards` reads
`%d` of a number and writes `%d` of a string, which Go prints as `%!d(string=...)`: a name
that nothing ever opens again (`misprint`). Every system call and every shard read is a
step, under the mutex; a `Crash` can come between any two, and the files survive it.
`MaxFaults` bounds failures and crashes together. `Store` does not sync: what the
operating system loses with the machine (as against the process) is not modelled.

`Searchable` is the case in which the service is of use: each `header.id` begins with two
lower-case hexadecimal digits (`SHARD_DEPTH` is 2) and no migration moves anything.
`AckedIsFound` and what rests on it are proved under it, and `UuidsAreSearchable` proves it of the
IDs that `NewMessagePayload` makes; `MCFileSearchGap` and `MCFileMigrationGap` show what happens
without it, `NeverFound` and `TakenFromShard` that it always does.

### MessageLog

A log of messages. `Put` adds one, `Answer` gives a search exactly what the log has of its
trace, `Tell` tells a store whether its message is in. A fault may put one group of messages
in doubt, and only those can be lost, or be there after an error. `FileRefinement` maps the
log to what can be parsed from each message's shard, a group to a shard, and a search's
moment to the giving up of its lock.

### Search

`stage[r]` is where a request is: `new, query, rows, files, respond, count, measure, end`, and
`panic` or `lost` on the way. While it is at `files`, its `Retrieve` runs as in `FileStorage`.

| Code | Actions |
|---|---|
| `search_handler.go:41-47` | `Arrive` |
| `neo4j_service.go:48-60` | `Query`, `QueryFails` |
| `search_service.go:103-121` | `ReadRows`, `Panic` |
| `recoveryMiddleware`, `main.go:161` | `Recover` |
| `search_service.go:57-85` | `SearchFiles`, `FilesSearched` |
| `respondWithJSON`, `respondWithError` | `Respond` |
| `search_handler.go:45,60` | `CountHandler` |
| `metricsMiddleware`, `main.go:188` | `CountPath` |
| the end of the process | `Die` |

The graph is a constant: nothing in the program writes to it, so `Rows` and `Malformed` are
any nodes. The query opens a session that is closed before the rows are read; what the
driver then still has is its own affair, so any of the rows may be missing. Any of the sources
may fail in a search; `SearchByTraceID` never returns an error, so the handler's 500 branch is
unreachable and has no action. `Respond` may reach nobody, and is counted all the same.

### Processor

`stage[m]` is where the call for message `m` is: `new, upload, store, insert, publish`, then `ok`,
`error` or `lost`. While it is at `store`, its `Store` runs as in `FileStorage`.

| Code | Actions |
|---|---|
| `message_processor.go:39-51` | `Begin` |
| `UploadFile`, `s3_service.go:59`, and `message_processor.go:87-88` | `Offload`, `OffloadFails` |
| `storeMessage` :98 | `StoreMessage`, `Stored` |
| `storeMessage` :105-116, `ExecuteQuery` of Redshift | `Insert`, `InsertFails` |
| `publishToAMQP` | `Publish`, `PublishFails` |
| a consumer that searches | `Search` |

The package is a fragment: nothing constructs a `MessageProcessor`, and it does not compile
against today's `models.MessagePayload`. It is modelled as it would be with the fields it
names read from the header and the content emptied. S3 and Redshift are external: a request is
done or not, and its answer may be lost either way; S3 may also refuse with a status, which
`UploadFile` ignores. `PublishMessage` may return nil for a message the broker has not kept, and
an error for one it has, as in `AmqpPubSub` (`AcceptedIsAnswered`, `RefusedIsAbsent`); `published` is
what the broker has kept. Lines are messages here as well; a message that was offloaded has its
`uri` in every copy, since it is set before the first copy is made.

### Lifecycle

`step` walks through `NewConfig`; `server` and `watcher` are the two goroutines of
the errgroup; `Cancelled` is its context. `ListenReturns` may come before the
requests are drained. A signal before `signal.Notify` (`main.go:118`) kills the
process. The HTTP requests themselves only run and end; the recovery
middleware turns a panic into a 500, so a panic is an ordinary end.

## 3. Runs

| Run | Instance | Shows |
|---|---|---|
| `MCAmqpSubscribe` | 2 subscribers, one good and one malformed message, 2 dropped links or restarts | types, `DeliveredOnce`, `DeliveredIsConsumed`, `SettledForSomeone`, `LinksClosed`; the subscribers implement `DeliveryContract` |
| `MCAmqpPublish` | 1 publisher, 1 subscriber, a message of another client, 2 dropped links or restarts | `AcceptedIsAnswered`, `RefusedIsAbsent`, `NoHopelessWait`; publishers and subscribers implement `DeliveryContract` |
| `MCAmqpLiveness` | 1 publisher, 1 subscriber, one malformed message, 1 dropped link or restart | every request ends, no message is stranded |
| `MCAmqpNoContent` | 1 subscriber, no message | **violated**: 204 is never answered |
| `MCFileSearch` | 3 stores in 2 shards, 2 searches, a migration with nothing to do, 1 fault | types and mutex, `AckedIsFound`, `SearchesAgree`, `LockReleased`, `OneLostPerFault`; `FileStorage` implements `MessageLog` |
| `MCFileMigration` | 3 stores, 2 migrations, 2 faults | `MigrationLosesNothing`, `OneLostPerFault`, `StaysReadable`, `CallsAdvance`, `CallReturns` |
| `MCFileSearchGap` | 1 store of an ID that is not hexadecimal, 1 search | **violated**: the message is not found |
| `MCFileMigrationGap` | 1 store, 1 migration | **violated**: the message is in no shard |
| `MCSearch` | 2 stores, a search and a request without a trace ID, a good and a malformed row, 1 fault | `AnswerComplete`, `CountersAgree`; every search is answered |
| `MCProcessor` | 3 messages, 2 of them with one S3 key and 1 below the limit, 1 search, 1 fault | `StoredThenPublished`, `PublishedIsFound`, `ContentKept` |
| `MCLifecycle` | 3 requests | types, exit codes, aborted requests, configuration; a signal or a failed listener ends the process |
| `MCLifecycleHealthz` | 1 request | **violated**: OK without an AMQP session |

The four violated runs are disagreements between the code and what its comments or
README say; PROJECT.json quotes both sides.

**Bounds.** Two subscribers and a message are the least in which a message is taken
away from one and read by another; the second message of `MCAmqpSubscribe` lets both
end with 200 and lets a malformed one circulate. Publishers meet only in the queue, so one
of them, a subscriber that can take its message, and a message that is not its own show what a
publisher can meet; what two subscribers do to one another is `MCAmqpSubscribe`'s, and the
contract is checked in both. `MaxFaults` of the AMQP runs bounds dropped links and restarts together; the
connection may be lost before and after each restart. Two of them let a link be dropped and the
process restarted in one behaviour. Two searches and three stores
(two in one shard) are the least in which the searches could disagree on an order.
Two migrations and two faults let one migration break off, and the second run over
what the first left, itself disturbed. In `MCSearch` one fault is enough to fail any
system call of a search or a store, or to end the process; Neo4j's failures are not counted.
In `MCProcessor` two messages of one key and a third without are the least that tell an
overwritten object from a lost one. Shards are named by two digits of base 2 instead
of 16 (base 3, with decimal digits of base 2, for migrations): what matters is that some files
are searched and some names are none of them. No safety property but one rests on the bounds: all are
proved for every size, those about what a search finds under `Searchable`, as their runs have it. The
one is `OneLostPerFault` with migrations that move lines, checked in `MCFileMigration` and proved under `Searchable`. Symmetry is used in
safety runs and in the refinement run, whose abstract specification is a safety property;
never with a liveness property.

**Deadlock.** `CHECK_DEADLOCK FALSE` everywhere: requests, calls and the process are finite
and end. That nothing hangs earlier is what `RequestTerminates`, `CallReturns`,
`SearchAnswered` and `Stops` say.

**Fairness.** `AmqpPubSub`: weak fairness of each handler's goroutine, of the broker
for frames it has been sent, and of net/http noticing that a client left or that the read
deadline has passed (`main.go:100`: the background read of a connection ends at
the deadline and cancels the request's context). None for deliveries, clients,
loss of links or the connection, or restarts; and where a call may succeed or fail, nothing says which
(on a dead session only the failure is left). `FileStorage`: strong fairness of each call, since a
waiting call is only sometimes enabled: Go's `RWMutex` lets no stream of readers
starve a writer. `Search`: the same for the calls of `FileStorage`, and weak fairness of each
handler. That Neo4j answers or fails in the end is assumed: `ExecuteQuery` does not pass the
request's context on, so nothing in the code ends a query that does neither. `Processor`: none, since neither S3's
nor Redshift's call has a deadline. `Lifecycle`: weak fairness of main, server and watcher; `Shutdown`
returns by its deadline. None for requests.

## 4. Proofs

All with TLAPS, for every set of requests and messages and any number of faults, from the assumptions
`BrokerAssumption`, `AmqpAssumption`, `FileAssumption` and `LifecycleAssumption` alone (publishers, subscribers and
foreign messages are disjoint; `None` is none of the values it is told from).

* `AmqpPubSub_proofs`. None of the safety properties is inductive: they speak of what
  clients have read, and are kept by what links and frames can be in flight. `IInv` adds:
  a handler sends its detach last and only attached links have
  frames or deliveries (`LinkInv`); a message is in one place (`PlaceInv`); a transfer
  has no outcome yet and a reply agrees with the outcome (`PublishInv`); an accept in
  flight is for the delivery the link holds (`SubscribeInv`); two requests that sent an accept for one
  message include one that was cut off (`OnceInv`); what is settled has someone behind it
  (`SettledInv`); what was read is what was decided (`ReceivedInv`). One lemma shows each
  part kept by every action. From `Invariance` follow
  `TypeCorrect`, `DeliversOnce`, `ConsumesDelivered`, `SettlesForSomeone`, `AnswersAccepted`
  and `RefusesAbsent`. `EndInv` adds how a link ends: a request that has closed its link has its
  detach in flight as long as the link is there, one that awaits the outcome of a transfer has the
  transfer in flight or the outcome. It gives `ClosesLinks` and `NoWaitIsHopeless`.
* `AmqpRefinement_proofs`. `Refinement == Spec => ImplementsContract`. It adds one
  conjunct (`CutInv`: a request is not cut off before it has written its accept) and
  shows each action to be a contract step: the broker's `Store` is `Put`, `Decline` or nothing, `Accept` is `Take`,
  `LoseLink` (`DropRefines`) and `LoseConnection` are `Doubt`, `Respond` is `Give`, `Tell` or nothing; all others change nothing.
* `FileStorage_proofs`. `FInv` adds to the types: a call in its critical section holds the
  mutex (`CallInv`); only a damaged file has a tail (`TailInv`); an acknowledged message is in
  its own shard or in the file it was moved to (`KeptInv`); and while a migration copies, each
  message of the old file is moved or still to be copied (`CopyInv`). From it `FileTypes` and `MigrationsLoseNothing`,
  with migrations of any depths. From `FileAssumption` alone; its clause that 2^`OldDepth`
  is a natural number is there because no installed prover can derive it.
  `FileSteps` says what any step does to the files: append a line to one of its message's own two
  files, cut such a line short, remove an old file whose messages have all been moved, or nothing.
  From it `Homes` (a message is in no other file), `ReadableMessagesStay` (`StaysReadable`,
  for messages that were never acknowledged too) and, with what `Retrieve` takes from a file,
  `SearchReach`, `TakenFromShard` and `NeverFound`: the two gaps are there in every instance, not
  in the runs' alone.
  `LockIsReleased`, `CallsMakeProgress` and `NoDeadlock` are the safety part of termination: the
  mutex belongs to calls on their way to the unlock; every step but `MaxFaults` failures brings a
  call forward (phase, then shard, then line: `Advances`) and sets none back; and as long as a call
  has not ended the guard of a step of some call holds. What is left to `CallReturns` is the
  fairness: that a call which can go on does, and that a waiting one gets its turn.
* `FileRefinement_proofs`. Under `Searchable`: a message is in no shard but its own, a search holding the lock
  has found what the shards it has read hold (`ReadInv`), and what a finished search found stays in
  the log (`FoundInv`). `FindsAcked`, `SearchesInOrder` and `LogRefinement`: the append is `Put`,
  a short write `Disturb`, giving up the lock `Answer` or `Tell`; all else changes nothing. `UuidsAreSearchable` shows
  that `Searchable` is no empty hypothesis: `SHARD_DEPTH` 2, IDs that begin as UUIDs do, nothing moved.
  `FaultsAreBounded` counts what short writes cost: `LossInv` charges each fault with at most one file
  that ends in half a line or one acknowledged message that cannot be read, never both, since the
  append that runs into the half line ends it.
* `Search_proofs`, `Processor_proofs`. Each proves that its steps are steps of `FileStorage`
  (`UsesFileStorage`), so that `FInv` and `FindsAcked` carry over, and adds an invariant of its own:
  for the search, that stores acknowledged before it came were so before its `Retrieve`, and that
  an answer includes what `Retrieve` found; for the processor, what each stage has behind it.
  `SearchTypes`, `AnswersComplete`; `ProcessTypes`, `StoresThenPublishes`, `KeepsContent`,
  `FindsPublished`. `SearchesOfALog` and `KeepsPublished` carry `LogRefinement` and
  `MigrationsLoseNothing` over. `CountersAgreeAlways` needs `CountInv`, which keeps each counter
  equal to the number of requests past the statement that increments it, of this process
  (`Answered`), at every moment and not only when all have ended.
* `Lifecycle_proofs`. `LifecycleTypes`, `ExitsClean`, `AbortsAfterDeadline` and `ServesConfigured`, from
  an invariant that ties the exit code to the state of both goroutines and the started
  services to `step`.

Only model-checked: liveness (`RequestTerminates`, `NotStranded`, `CallReturns`, `Stops`,
`SearchAnswered`), since fairness and ENABLED are beyond the prover. `NoWaitIsHopeless`, `ClosesLinks`,
`CallsMakeProgress` and `NoDeadlock` prove of the first three what is not about fairness.

## 5. Limits

Exceptions the properties name are what the code does, and worth knowing:

* a link or connection lost while an accept is in flight can give a message to two clients;
* a message is consumed for a client that has left or whose deadline has passed;
* after a 500 that came with a timeout or a lost link the message may be stored;
* a publisher is told 202 for a message that the broker has settled as released or modified and does
  not keep (RabbitMQ, for one, releases what it cannot route). The log line after `Send`
  (`amqp_service.go:107-109`, "Message published successfully") is then wrong: the outcome is not looked at;
* a short write to a shard file makes the next acknowledged line of that file unreadable
  (`damaged`), and no more than that one (`OneLostPerFault`);
* a signal between the start of the server and `signal.Notify` kills running requests;
* `SHARD_DEPTH` is mandatory (`config.go:89`), though README.md:160-179 and `.env` omit it.

* a search is answered 200 without the messages of a source that failed, and the client is not told;
* content offloaded to S3 is lost if S3 refuses the upload, or if another message of the topic has
  the same timestamp;
* a publish whose body cannot be read, and any handler that panics, is in no error counter.

Not modelled: `writeBatch` and `GetFile` (never called), how a caller of `ProcessMessage` would
retry (there is none), the counters of publish and subscribe, histograms, tracing, UUIDs, XML
helpers and optional configuration values. The order and the fields of search results are left
out: `AnswerComplete` is about which messages they have.

## 6. Plan

Done, in order of importance: `Broker`, `AmqpPubSub`, its proofs, `DeliveryContract` and its
refinement with proof; `FileStorage`, `MessageLog` and the refinement, with proofs; `Search` and
`Processor` on top of `FileStorage`, with proofs; `Lifecycle` with proofs; the safety part of
termination for requests and file calls, and `CountersAgree`, with proofs; every outcome of a
transfer and links dropped by the broker; what a short write costs, with proof.

Left:

1. `OneLostPerFault` for migrations that move lines, proved: two files can then hold one message.
2. A composition of `Lifecycle` and `AmqpPubSub`: requests blocked in `Receive` during `Shutdown`.
3. The counters of the publish and subscribe handlers, as `Search` has them for its own.
