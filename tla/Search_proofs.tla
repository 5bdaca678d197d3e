---------------------------- MODULE Search_proofs ---------------------------
(***************************************************************************)
(* Proofs about Search: it uses FileStorage only as FileStorage allows, so *)
(* what is proved of Retrieve carries over to the answers of GET /search.  *)
(***************************************************************************)
EXTENDS Search, FileRefinement_proofs, FiniteSetTheorems

\* A search calls Retrieve between Neo4j and its answer, and answers with what
\* Retrieve has returned; stores acknowledged before it came are known to Retrieve.
CallsInv ==
  /\ DOMAIN rows = Retrieves /\ DOMAIN answer = Retrieves
  /\ \A r \in Retrieves :
       /\ stage[r] \in {"new", "query", "rows", "panic"} => pc[r] = "idle"
       /\ pc[r] \in {"read", "return"} => stage[r] = "files"
       /\ r \in readers => pc[r] \in {"read", "return"}
       /\ pc[r] \in {"return", "done"} /\ stage[r] # "lost" => result[r] \in {"ok", "error"}
       /\ stage[r] \in {"respond", "count", "measure", "end"} /\ status[r] = 200 => pc[r] = "done"
       /\ pc[r] # "idle" => before[r] \subseteq acked[r]
       /\ answer[r] # None =>
            pc[r] = "done" /\ (result[r] = "error" \/ (result[r] = "ok" /\ found[r] \subseteq answer[r]))

BeforeInv == \A r \in Retrieves : \A m \in before[r] : m \in Acked

RInv == SearchTypeOK /\ CallsInv /\ BeforeInv
-----------------------------------------------------------------------------
\* A step of a request does with the files what FileStorage allows.
LEMMA Simulates == [SearchNext]_allVars => [Next]_vars
BY DEF SearchNext, allVars, Others, Die, Handle, SearchFiles, Arrive, Query, QueryFails, ReadRows,
       Panic, Recover, FilesSearched, Respond, CountHandler, CountPath, Next

\* The searches of the HTTP layer do with the files what FileStorage allows.
THEOREM UsesFileStorage == SearchSpec => Spec
<1>1. SearchInit => Init
  BY DEF SearchInit
<1>. QED BY <1>1, Simulates, PTL DEF SearchSpec, Spec

\* No request has come.
LEMMA InitRInv == SearchInit => RInv
<1> SUFFICES ASSUME SearchInit PROVE RInv
  OBVIOUS
<1> USE DEF SearchInit, Init, Ops
<1>1. SearchTypeOK
  BY DEF SearchTypeOK, NoCounts
<1>2. CallsInv /\ BeforeInv
  BY DEF CallsInv, BeforeInv
<1>. QED BY <1>1, <1>2 DEF RInv

\* Stores and migrations leave searches alone.
LEMMA OthersSteps ==
  ASSUME FInv, Others
  PROVE  /\ UNCHANGED <<found, acked>>
         /\ readers' \subseteq readers
         /\ \A r \in Retrieves : pc'[r] = pc[r] /\ result'[r] = result[r] /\ (r \in readers' <=> r \in readers)
<1> USE FileAssumption DEF Ops, mutex, callVars, histories, Return, Goto
<1>t. TypeOK
  BY DEF FInv
<1>1. ASSUME NEW o \in Stores \cup Migrations, Unlock(o)
      PROVE  /\ UNCHANGED <<found, acked, result>> /\ readers' = readers
             /\ pc' = [pc EXCEPT ![o] = "done"]
  <2>1. o \notin readers
    BY <1>t DEF TypeOK
  <2>2. readers' = readers
    BY <1>1, <2>1 DEF Unlock
  <2>. QED BY <1>1, <2>2 DEF Unlock
<1>2. \E o \in Stores \cup Migrations :
        /\ UNCHANGED <<found, acked>> /\ readers' = readers
        /\ \E state : pc' = pc \/ pc' = [pc EXCEPT ![o] = state]
        /\ \E res : result' = result \/ result' = [result EXCEPT ![o] = res]
  <2>1. CASE \E m \in Stores : Store(m)
    <3>1. PICK m \in Stores : Store(m)
      BY <2>1
    <3>2. CASE Unlock(m)
      BY <1>1, <3>2
    <3>3. CASE ~Unlock(m)
      BY <3>1, <3>3 DEF Store, Lock, StoreWrite, StoreOpenFails, StoreWriteFails
    <3>. QED BY <3>2, <3>3
  <2>2. CASE \E g \in Migrations : MigrateShards(g)
    <3>1. PICK g \in Migrations : MigrateShards(g)
      BY <2>2
    <3>2. CASE Unlock(g)
      BY <1>1, <3>2
    <3>3. CASE ~Unlock(g)
      BY <3>1, <3>3 DEF MigrateShards, MigrateUnneeded, MigrateLock, Lock, MigrateRead,
           MigrateReadFails, MigrateLine, MigrateLineFails, MigrateRemove, MigrateDone
    <3>. QED BY <3>2, <3>3
  <2>. QED BY <2>1, <2>2 DEF Others
<1>. QED BY <1>2, <1>t DEF TypeOK

\* Every step keeps what a request knows of the stores before it.
LEMMA NextRInv ==
  ASSUME FInv, RInv, [SearchNext]_allVars
  PROVE  RInv'
<1> USE DEF At, Decide, Count
<1>t. TypeOK /\ CallInv /\ SearchTypeOK /\ CallsInv /\ BeforeInv
  BY DEF FInv, RInv
<1>n. Acked \subseteq Acked' /\ TypeOK' /\ CallInv'
  <2>1. [Next]_vars
    BY Simulates
  <2>. QED BY <2>1, AckedStays, NextFInv DEF FInv
<1>1. ASSUME NEW r \in Retrieves, Handle(r) PROVE RInv'
  <2>v. UNCHANGED vars
    BY <1>1 DEF Handle, Arrive, Query, QueryFails, ReadRows, Panic, Recover, FilesSearched, Respond,
                CountHandler, CountPath
  <2>w. UNCHANGED <<pc, result, readers, found, acked>> /\ Acked' = Acked /\ Acked \subseteq Stores
    BY <2>v DEF vars, mutex, callVars, histories, Acked
  <2>1. CASE Arrive(r)
    <3>1. SearchTypeOK'
      BY <1>t, <2>1, <2>w DEF Arrive, SearchTypeOK, CallsInv
    <3>2. CallsInv'
      BY <1>t, <2>1, <2>w DEF Arrive, SearchTypeOK, CallsInv
    <3>3. BeforeInv'
      BY <1>t, <2>1, <2>w DEF Arrive, SearchTypeOK, BeforeInv
    <3>. QED BY <3>1, <3>2, <3>3 DEF RInv
  <2>2. CASE Query(r) \/ QueryFails(r) \/ Panic(r)
    BY <1>t, <2>2, <2>w DEF Query, QueryFails, Panic, RInv, SearchTypeOK, CallsInv, BeforeInv
  <2>3. CASE ReadRows(r)
    BY <1>t, <2>3, <2>w DEF ReadRows, RInv, SearchTypeOK, CallsInv, BeforeInv
  <2>4. CASE Recover(r)
    BY <1>t, <2>4, <2>w DEF Recover, RInv, SearchTypeOK, CallsInv, BeforeInv
  <2>5. CASE FilesSearched(r)
    BY <1>t, <2>5, <2>w DEF FilesSearched, RInv, SearchTypeOK, CallsInv, BeforeInv
  <2>6. CASE Respond(r)
    <3>1. SearchTypeOK'
      BY <1>t, <2>6, <2>w DEF Respond, SearchTypeOK, CallsInv, TypeOK
    <3>2. CallsInv'
      BY <1>t, <2>6, <2>w DEF Respond, SearchTypeOK, CallsInv
    <3>3. BeforeInv'
      BY <1>t, <2>6, <2>w DEF Respond, BeforeInv
    <3>. QED BY <3>1, <3>2, <3>3 DEF RInv
  <2>7. CASE CountHandler(r)
    BY <1>t, <2>7, <2>w DEF CountHandler, RInv, SearchTypeOK, CallsInv, BeforeInv
  <2>8. CASE CountPath(r)
    BY <1>t, <2>8, <2>w DEF CountPath, RInv, SearchTypeOK, CallsInv, BeforeInv
  <2>. QED BY <1>1, <2>1, <2>2, <2>3, <2>4, <2>5, <2>6, <2>7, <2>8 DEF Handle
<1>2. ASSUME NEW r \in Retrieves, SearchFiles(r) PROVE RInv'
  <2>1. stage[r] = "files" /\ UNCHANGED searchVars /\ Retrieve(r)
    BY <1>2 DEF SearchFiles
  <2>2. before[r] \subseteq Acked
    BY <1>t DEF BeforeInv
  <2>3. CallsInv'
    BY <1>t, <2>1, <2>2, RetrieveSteps DEF searchVars, CallsInv
  <2>4. SearchTypeOK' /\ BeforeInv'
    BY <1>t, <1>n, <2>1, RetrieveSteps DEF searchVars, SearchTypeOK, BeforeInv, CallsInv
  <2>. QED BY <2>3, <2>4 DEF RInv
<1>3. CASE Others
  <2>1. UNCHANGED searchVars
    BY <1>3 DEF Others
  <2>2. CallsInv' /\ SearchTypeOK' /\ BeforeInv'
    BY <1>3, <1>t, <1>n, <2>1, OthersSteps DEF searchVars, CallsInv, SearchTypeOK, BeforeInv
  <2>. QED BY <2>2 DEF RInv
<1>4. CASE Die
  <2>1. /\ readers' = {} /\ found' = found /\ acked' = acked /\ rows' = rows
        /\ status' = status /\ answer' = answer /\ before' = before
        /\ counter' = NoCounts
        /\ stage' = [r \in Retrieves |-> IF stage[r] = "new" THEN "new" ELSE "lost"]
        /\ pc' = [o \in Ops |-> IF pc[o] = "idle" THEN "idle" ELSE "done"]
        /\ result' = [o \in Ops |-> IF pc[o] = "done" THEN result[o] ELSE None]
    BY <1>4 DEF Die, Crash, callVars, histories
  <2>2. \A r \in Retrieves : r \in Ops
    BY DEF Ops
  <2>3. \A r \in Retrieves : /\ pc[r] = "idle" => pc'[r] = "idle"
                             /\ pc[r] # "idle" => pc'[r] = "done"
                             /\ pc[r] = "done" => result'[r] = result[r]
    BY <2>1, <2>2
  <2>4. \A r \in Retrieves : /\ stage[r] = "new" => stage'[r] = "new"
                             /\ stage[r] # "new" => stage'[r] = "lost"
    BY <2>1
  <2>5. SearchTypeOK'
    <3>1. counter' \in [{"search", "errors", "path"} -> Nat]
      BY <2>1 DEF NoCounts
    <3>2. stage' \in [Retrieves -> {"new", "query", "rows", "panic", "files", "respond",
                                    "count", "measure", "end", "lost"}]
      BY <2>1
    <3>3. ASSUME NEW r \in Retrieves
          PROVE  /\ rows'[r] \subseteq Rows[r]
                 /\ answer'[r] # None => answer'[r] \subseteq Rows[r] \cup Stores
      BY <1>t, <2>1 DEF SearchTypeOK
    <3>4. ASSUME NEW r \in Retrieves
          PROVE  pc'[r] \in {"idle", "done"} /\ r \notin readers'
      <4>1. readers' = {}
        BY <2>1
      <4>. QED BY <2>3, <4>1
    <3>5. status' \in [Retrieves -> {None, 200, 400, 500}] /\ before' \in [Retrieves -> SUBSET Stores]
      BY <1>t, <2>1 DEF SearchTypeOK
    <3>. QED BY <3>1, <3>2, <3>3, <3>4, <3>5 DEF SearchTypeOK
  <2>6. CallsInv'
    <3>1. DOMAIN rows' = Retrieves /\ DOMAIN answer' = Retrieves
      BY <1>t, <2>1 DEF CallsInv
    <3>2. ASSUME NEW r \in Retrieves
          PROVE  /\ stage'[r] \in {"new", "lost"} /\ pc'[r] \in {"idle", "done"}
                 /\ stage'[r] = "new" => pc'[r] = "idle"
      BY <1>t, <2>3, <2>4 DEF CallsInv
    <3>3. ASSUME NEW r \in Retrieves, pc'[r] # "idle" PROVE before'[r] \subseteq acked'[r]
      <4>1. pc[r] # "idle"
        BY <2>3, <3>3
      <4>. QED BY <1>t, <2>1, <4>1 DEF CallsInv
    <3>4. ASSUME NEW r \in Retrieves, answer'[r] # None
          PROVE  /\ pc'[r] = "done"
                 /\ result'[r] = "error" \/ (result'[r] = "ok" /\ found'[r] \subseteq answer'[r])
      <4>1. answer[r] # None
        BY <2>1, <3>4
      <4>2. pc[r] = "done" /\ (result[r] = "error" \/ (result[r] = "ok" /\ found[r] \subseteq answer[r]))
        BY <1>t, <4>1 DEF CallsInv
      <4>3. pc'[r] = "done" /\ result'[r] = result[r]
        BY <2>3, <4>2
      <4>. QED BY <2>1, <4>2, <4>3
    <3>5. readers' = {}
      BY <2>1
    <3>. QED BY <3>1, <3>2, <3>3, <3>4, <3>5 DEF CallsInv
  <2>7. BeforeInv'
    BY <1>t, <1>n, <2>1 DEF BeforeInv
  <2>. QED BY <2>5, <2>6, <2>7 DEF RInv
<1>5. CASE UNCHANGED allVars
  BY <1>5, <1>t, <1>n DEF allVars, vars, mutex, callVars, histories, searchVars, RInv, SearchTypeOK, CallsInv, BeforeInv, Acked
<1>. QED BY <1>1, <1>2, <1>3, <1>4, <1>5 DEF SearchNext

\* Types, and that a search holds the lock only while it is in Retrieve.
THEOREM SearchTypes == SearchSpec => []SearchTypeOK
<1>1. FInv /\ RInv /\ [SearchNext]_allVars => RInv'
  BY NextRInv
<1>2. RInv => SearchTypeOK
  BY DEF RInv
<1>. QED BY UsesFileStorage, FileInvariance, InitRInv, <1>1, <1>2, PTL DEF SearchSpec

\* A client with a 200 has every message that was stored when it asked, for any
\* graph, shards and faults: SearchByTraceID over Retrieve.
THEOREM AnswersComplete ==
  ASSUME Searchable
  PROVE  SearchSpec => []AnswerComplete
<1>1. FInv /\ RInv /\ [SearchNext]_allVars => RInv'
  BY NextRInv
<1>2. RInv /\ AckedIsFound => AnswerComplete
  BY DEF RInv, CallsInv, AckedIsFound, AnswerComplete, Finished
<1>. QED
  BY UsesFileStorage, FileInvariance, FindsAcked, InitRInv, <1>1, <1>2, PTL DEF SearchSpec

\* Through GET /search the file storage is still the log of MessageLog: a search of the files
\* takes effect at one moment, whatever becomes of the request around it.
THEOREM SearchesOfALog ==
  ASSUME Searchable
  PROVE  SearchSpec => ImplementsLog
BY UsesFileStorage, LogRefinement, PTL
-----------------------------------------------------------------------------
(* The counters *)

\* The requests answered without a panic that have come as far as the given stages.
Answered(stages) == {r \in Retrieves : stage[r] \in stages /\ status[r] \in {200, 400}}

\* The handler has counted the answers that passed it, the middleware those at their
\* end.  Only requests that have arrived are among them, so there are finitely many.
CountInv ==
  /\ \A r \in Retrieves : stage[r] \in {"respond", "count", "measure"} => status[r] \in {200, 400}
  /\ IsFiniteSet(Answered({"measure", "end"})) /\ IsFiniteSet(Answered({"end"}))
  /\ counter.search + counter.errors = Cardinality(Answered({"measure", "end"}))
  /\ counter.path = Cardinality(Answered({"end"}))

\* Nothing has been counted.
LEMMA InitCountInv == SearchInit => CountInv
<1> SUFFICES ASSUME SearchInit PROVE CountInv
  OBVIOUS
<1>1. Answered({"measure", "end"}) = {} /\ Answered({"end"}) = {}
  BY DEF SearchInit, Answered
<1>. QED BY <1>1, FS_EmptySet DEF SearchInit, CountInv, NoCounts

\* A step that counts nothing and brings no answer past a counter.
LEMMA NothingCounted ==
  ASSUME CountInv, counter' = counter,
         \A r \in Retrieves :
           /\ stage'[r] \in {"respond", "count", "measure"} => status'[r] \in {200, 400}
           /\ (stage'[r] = "measure" <=> stage[r] = "measure")
           /\ stage'[r] = "end" /\ status'[r] \in {200, 400}
                <=> stage[r] = "end" /\ status[r] \in {200, 400}
           /\ stage[r] = "measure" => status'[r] = status[r]
  PROVE  CountInv'
<1>1. Answered({"measure", "end"})' = Answered({"measure", "end"})
  BY DEF Answered
<1>2. Answered({"end"})' = Answered({"end"})
  BY DEF Answered
<1>. QED BY <1>1, <1>2 DEF CountInv

\* Every step keeps the counters in agreement with the answers given.
LEMMA NextCountInv ==
  ASSUME SearchTypeOK, CountInv, [SearchNext]_allVars
  PROVE  CountInv'
<1> USE DEF At, Decide, Count
<1>1. ASSUME NEW r \in Retrieves, Handle(r) PROVE CountInv'
  <2>1. CASE Arrive(r)
    BY <2>1, NothingCounted DEF Arrive, SearchTypeOK, CountInv
  <2>2. CASE Query(r) \/ QueryFails(r) \/ ReadRows(r) \/ Panic(r)
    BY <2>2, NothingCounted DEF Query, QueryFails, ReadRows, Panic, SearchTypeOK, CountInv
  <2>3. CASE Recover(r) \/ FilesSearched(r) \/ Respond(r)
    BY <2>3, NothingCounted DEF Recover, FilesSearched, Respond, SearchTypeOK, CountInv
  <2>4. CASE CountHandler(r)
    <3>1. /\ stage[r] = "count" /\ stage' = [stage EXCEPT ![r] = "measure"] /\ status' = status
          /\ status[r] \in {200, 400} /\ r \notin Answered({"measure", "end"})
      BY <2>4 DEF CountHandler, CountInv, Answered
    <3>2. Answered({"measure", "end"})' = Answered({"measure", "end"}) \cup {r}
      BY <3>1 DEF Answered, SearchTypeOK
    <3>3. Answered({"end"})' = Answered({"end"})
      BY <3>1 DEF Answered, SearchTypeOK
    <3>4. /\ counter'.search + counter'.errors = counter.search + counter.errors + 1
          /\ counter'.path = counter.path
      BY <2>4 DEF CountHandler, SearchTypeOK
    <3>5. /\ IsFiniteSet(Answered({"measure", "end"})')
          /\ Cardinality(Answered({"measure", "end"})') = Cardinality(Answered({"measure", "end"})) + 1
      BY <3>1, <3>2, FS_AddElement DEF CountInv
    <3>6. \A q \in Retrieves :
            stage'[q] \in {"respond", "count", "measure"} => status'[q] \in {200, 400}
      BY <3>1 DEF CountInv, SearchTypeOK
    <3>. QED BY <3>3, <3>4, <3>5, <3>6 DEF CountInv
  <2>5. CASE CountPath(r)
    <3>1. /\ stage[r] = "measure" /\ stage' = [stage EXCEPT ![r] = "end"] /\ status' = status
          /\ status[r] \in {200, 400} /\ r \notin Answered({"end"})
      BY <2>5 DEF CountPath, CountInv, Answered
    <3>2. Answered({"end"})' = Answered({"end"}) \cup {r}
      BY <3>1 DEF Answered, SearchTypeOK
    <3>3. Answered({"measure", "end"})' = Answered({"measure", "end"})
      BY <3>1 DEF Answered, SearchTypeOK
    <3>4. /\ counter'.search = counter.search /\ counter'.errors = counter.errors
          /\ counter'.path = counter.path + 1
      BY <2>5 DEF CountPath, SearchTypeOK
    <3>5. /\ IsFiniteSet(Answered({"end"})')
          /\ Cardinality(Answered({"end"})') = Cardinality(Answered({"end"})) + 1
      BY <3>1, <3>2, FS_AddElement DEF CountInv
    <3>6. \A q \in Retrieves :
            stage'[q] \in {"respond", "count", "measure"} => status'[q] \in {200, 400}
      BY <3>1 DEF CountInv, SearchTypeOK
    <3>. QED BY <3>3, <3>4, <3>5, <3>6 DEF CountInv
  <2>. QED BY <1>1, <2>1, <2>2, <2>3, <2>4, <2>5 DEF Handle
<1>2. CASE Die
  <2>1. /\ \A r \in Retrieves : stage'[r] \in {"new", "lost"}
        /\ counter' = NoCounts
    BY <1>2 DEF Die
  <2>2. Answered({"measure", "end"})' = {} /\ Answered({"end"})' = {}
    BY <2>1 DEF Answered
  <2>. QED BY <2>1, <2>2, FS_EmptySet DEF CountInv, NoCounts
<1>3. CASE UNCHANGED searchVars
  BY <1>3, NothingCounted DEF searchVars, CountInv
<1>. QED BY <1>1, <1>2, <1>3 DEF SearchNext, Others, SearchFiles, allVars

\* Every request answered is counted once under its path and once by the handler,
\* for any number of requests, in any order, with and without a restart.
THEOREM CountersAgreeAlways == SearchSpec => []CountersAgree
<1>1. CountInv => CountersAgree
  <2> SUFFICES ASSUME CountInv, \A r \in Retrieves : stage[r] \in {"new", "end", "lost"}
               PROVE  /\ counter.path = counter.search + counter.errors
                      /\ counter.path = Cardinality({r \in {q \in Retrieves : stage[q] = "end"} : status[r] \in {200, 400}})
    BY DEF CountersAgree
  <2>1. Answered({"measure", "end"}) = Answered({"end"})
    BY DEF Answered
  <2>2. {r \in {q \in Retrieves : stage[q] = "end"} : status[r] \in {200, 400}} = Answered({"end"})
    BY DEF Answered
  <2>. QED BY <2>1, <2>2 DEF CountInv
<1>2. SearchTypeOK /\ CountInv /\ [SearchNext]_allVars => CountInv'
  BY NextCountInv
<1>. QED BY SearchTypes, InitCountInv, <1>1, <1>2, PTL DEF SearchSpec
=============================================================================
