------------------------------- MODULE Search -------------------------------
(***************************************************************************)
(* GET /search: the middleware of cmd/app/main.go, SearchHandler.Handle    *)
(* and SearchByTraceID, which asks Neo4j and then FileStorage.  A search   *)
(* is a Retrieve of FileStorage once it has come that far; stores and      *)
(* migrations go on meanwhile.                                             *)
(*                                                                         *)
(* Nothing in the program writes to Neo4j, so its graph is a constant.     *)
(* S3 and Redshift, asked last, always answer nothing.                     *)
(***************************************************************************)
EXTENDS FileStorage

CONSTANTS Untraced,   \* the requests without a trace_id
          Rows,       \* for each request, the nodes of the graph with its trace ID
          Malformed   \* nodes with a property missing or of another type

VARIABLES stage,    \* where each request is
          rows,     \* the rows it has read from Neo4j
          status,   \* the status its handler or the recovery has written
          answer,   \* the results that reached the client of a 200
          counter,  \* http_requests_total{search} and {path}, http_request_errors_total
          before    \* the stores that had returned nil as it arrived (history)

searchVars == <<stage, rows, status, answer, counter, before>>
allVars == <<vars, searchVars>>

At(r, here, there) == stage[r] = here /\ stage' = [stage EXCEPT ![r] = there]
Decide(r, code) == status' = [status EXCEPT ![r] = code]
Count(label) == counter' = [counter EXCEPT ![label] = @ + 1]
NoCounts == [search |-> 0, errors |-> 0, path |-> 0]

SearchInit ==
  /\ Init
  /\ stage = [r \in Retrieves |-> "new"]
  /\ rows = [r \in Retrieves |-> {}]
  /\ status = [r \in Retrieves |-> None] /\ answer = [r \in Retrieves |-> None]
  /\ counter = NoCounts
  /\ before = [r \in Retrieves |-> {}]
-----------------------------------------------------------------------------
Arrive(r) ==
  /\ \/ r \notin Untraced /\ At(r, "new", "query") /\ UNCHANGED status
     \/ r \in Untraced /\ At(r, "new", "respond") /\ Decide(r, 400)
  /\ before' = [before EXCEPT ![r] = Acked]
  /\ UNCHANGED <<vars, rows, answer, counter>>

Query(r) ==
  /\ At(r, "query", "rows")
  /\ UNCHANGED <<vars, rows, status, answer, counter, before>>

\* Mutant of QueryFails: the error ends the search.
QueryFails_Returns(r) ==
  /\ At(r, "query", "respond") /\ Decide(r, 200)
  /\ UNCHANGED <<vars, rows, answer, counter, before>>

\* Neo4j answers an error: it is logged and the search goes on.
QueryFails(r) ==
  /\ At(r, "query", "files")
  /\ UNCHANGED <<vars, rows, status, answer, counter, before>>

\* The session is closed before its rows are read, which may lose any of them;
\* an error that ends them early is not looked at.
ReadRows(r) ==
  /\ At(r, "rows", "files")
  /\ \E read \in SUBSET (Rows[r] \ Malformed) : rows' = [rows EXCEPT ![r] = read]
  /\ UNCHANGED <<vars, status, answer, counter, before>>

\* A type assertion on a malformed row.
Panic(r) ==
  /\ Rows[r] \cap Malformed # {} /\ At(r, "rows", "panic")
  /\ UNCHANGED <<vars, rows, status, answer, counter, before>>

\* Mutant of Recover: without the middleware net/http drops the connection.
Recover_Missing(r) ==
  /\ At(r, "panic", "end")
  /\ UNCHANGED <<vars, rows, status, answer, counter, before>>

\* The panic passes the metrics by.
Recover(r) ==
  /\ At(r, "panic", "end") /\ Decide(r, 500)
  /\ UNCHANGED <<vars, rows, answer, counter, before>>

\* Mutant of FilesSearched: Retrieve runs in a goroutine nobody waits for.
FilesSearched_Unwaited(r) ==
  /\ At(r, "files", "respond") /\ Decide(r, 200)
  /\ UNCHANGED <<vars, rows, answer, counter, before>>

\* Retrieve has returned; its error is logged and the search answered all the same.
FilesSearched(r) ==
  /\ pc[r] = "done" /\ At(r, "files", "respond") /\ Decide(r, 200)
  /\ UNCHANGED <<vars, rows, answer, counter, before>>

\* Nobody looks at the error of the write: the client may be gone, or WriteTimeout over.
Respond(r) ==
  /\ At(r, "respond", "count")
  /\ \/ UNCHANGED answer
     \/ status[r] = 200 /\ answer' = [answer EXCEPT ![r] = rows[r] \cup found[r]]
  /\ UNCHANGED <<vars, rows, status, counter, before>>

\* Mutant of CountHandler: an early return without its counter.
CountHandler_NoErrors(r) ==
  /\ At(r, "count", "measure")
  /\ IF status[r] = 200 THEN Count("search") ELSE UNCHANGED counter
  /\ UNCHANGED <<vars, rows, status, answer, before>>

CountHandler(r) ==
  /\ At(r, "count", "measure")
  /\ Count(IF status[r] = 200 THEN "search" ELSE "errors")
  /\ UNCHANGED <<vars, rows, status, answer, before>>

\* metricsMiddleware, once more, under the path.
CountPath(r) ==
  /\ At(r, "measure", "end") /\ Count("path")
  /\ UNCHANGED <<vars, rows, status, answer, before>>

Handle(r) ==
  \/ Arrive(r) \/ Query(r) \/ QueryFails(r) \/ ReadRows(r) \/ Panic(r) \/ Recover(r)
  \/ FilesSearched(r) \/ Respond(r) \/ CountHandler(r) \/ CountPath(r)

SearchFiles(r) == stage[r] = "files" /\ Retrieve(r) /\ UNCHANGED searchVars

\* With the process go its requests and counters.
Die ==
  /\ Crash
  /\ stage' = [r \in Retrieves |-> IF stage[r] = "new" THEN "new" ELSE "lost"]
  /\ counter' = NoCounts
  /\ UNCHANGED <<rows, status, answer, before>>

Others ==
  /\ (\E m \in Stores : Store(m)) \/ (\E g \in Migrations : MigrateShards(g))
  /\ UNCHANGED searchVars

SearchNext == Others \/ Die \/ \E r \in Retrieves : Handle(r) \/ SearchFiles(r)

SearchSpec == SearchInit /\ [][SearchNext]_allVars

\* As for FileStorage: each goroutine runs, and gets the mutex in the end.  Of
\* Neo4j, whose query is given no context, it is assumed that it answers or fails.
SearchFairSpec ==
  /\ SearchSpec
  /\ \A m \in Stores : SF_allVars(Store(m) /\ UNCHANGED searchVars)
  /\ \A g \in Migrations : SF_allVars(MigrateShards(g) /\ UNCHANGED searchVars)
  /\ \A r \in Retrieves : WF_allVars(Handle(r)) /\ SF_allVars(SearchFiles(r))
-----------------------------------------------------------------------------
\* Types; a search is in Retrieve, and holds the lock, only between Neo4j and its
\* answer.
SearchTypeOK ==
  /\ stage \in [Retrieves -> {"new", "query", "rows", "panic", "files", "respond",
                              "count", "measure", "end", "lost"}]
  /\ status \in [Retrieves -> {None, 200, 400, 500}] /\ before \in [Retrieves -> SUBSET Stores]
  /\ counter \in [{"search", "errors", "path"} -> Nat]
  /\ \A r \in Retrieves :
       /\ rows[r] \subseteq Rows[r]
       /\ answer[r] # None => answer[r] \subseteq Rows[r] \cup Stores
       /\ stage[r] # "files" => pc[r] \in {"idle", "done"} /\ r \notin readers

\* A client with a 200 has every message of the trace that was stored when it
\* asked, whatever became of Neo4j, unless the files could not be read, which it is
\* not told, or a write to the message's shard was cut short.
AnswerComplete ==
  \A r \in Retrieves : answer[r] # None =>
    \A m \in before[r] : Trace[m] = Trace[r] =>
      m \in answer[r] \/ result[r] = "error" \/ ShardOf(m) \in damaged

\* When no request is under way, every answered one is in the path's series and in
\* exactly one of the handler's, but for panics, which are in none.
CountersAgree ==
  LET Ended == {r \in Retrieves : stage[r] = "end"} IN
  (\A r \in Retrieves : stage[r] \in {"new", "end", "lost"}) =>
    /\ counter.path = counter.search + counter.errors
    /\ counter.path = Cardinality({r \in Ended : status[r] \in {200, 400}})

\* Every search is answered unless the process dies: no source that fails, no panic
\* and no writer or migration keeps it waiting for ever.
SearchAnswered ==
  \A r \in Retrieves : stage[r] = "query" ~> stage[r] = "lost" \/ status[r] # None
=============================================================================
