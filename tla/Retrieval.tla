----------------------------- MODULE Retrieval -----------------------------
(***************************************************************************)
(* POST /query: retrieval/service.py answer_query with the filter of       *)
(* authz/retrieval.py, the three retrievers and the fusion of their lists, *)
(* while roles and domains change (AccessControl), documents are indexed   *)
(* anew and entities are extracted.                                        *)
(*                                                                         *)
(* Queries run on worker threads of the one API process and share its      *)
(* BM25 cache.  A cached index is a mutable object: its documents are      *)
(* handed out by reference, and writing to one is seen by whoever holds    *)
(* the index.                                                              *)
(***************************************************************************)
EXTENDS AccessControl, Sequences

CONSTANTS
    Queries,   \* bound: each is asked once
    Questions, \* bound: what may be asked, as [by, wants, entities]
    Chunks,    \* the chunks of all generations
    HomeOf,    \* the domain of a chunk's document; a domain has one document here
    Indexed,   \* chunks active at first, with their entities extracted
    TopK       \* RETRIEVAL_TOP_K

ASSUME RetrievalConstants ==
    /\ HomeOf \in [Chunks -> Domains] /\ Indexed \subseteq Chunks /\ TopK \in Nat \ {0}
    /\ \A asked \in Questions : asked.wants \in Seq(Domains) /\ asked.wants # <<>>

VARIABLES
    chunkState, \* "none", "active" or "retired"
    mentioned,  \* chunks whose ids the nodes of the Neo4j graph carry
    configured, \* domains with a row in domain_retrieval_configs
    indexes,    \* BM25 indexes built: the chunks, and whose graph score each document carries
    cache,      \* the index cached for a set of domains, 0 if none
    fresh,      \* the sets of domains whose cache entry is younger than the TTL
    query,      \* where each query stands
    logs,       \* queries with a row in query_logs
    tasks,      \* queries whose evaluation has been enqueued
    during      \* observation only: what held at some moment of a query

corpusVars    == <<chunkState, mentioned>>
cacheVars     == <<indexes, cache, fresh>>
recordVars    == <<logs, tasks>>
retrievalVars == <<corpusVars, configured, cacheVars, query, recordVars, during>>

Unasked == [pc |-> "new", by |-> Null, wants |-> <<>>, checked |-> 0, missing |-> FALSE,
            entities |-> FALSE, index |-> 0, vector |-> {}, graph |-> {}, docs |-> {}]

Wanted(q) == {query[q].wants[i] : i \in 1 .. Len(query[q].wants)}

Running(q) == query[q].pc \notin {"new", "done", "failed"}

Stands(q, pc) == query[q].pc = pc

Becomes(q, changed) == query' = [query EXCEPT ![q] = changed]

\* The response is out, or the error is; what the request held is gone.
Done  == [Unasked EXCEPT !.pc = "done"]
Fails == [Unasked EXCEPT !.pc = "failed"]

\* What a ranking returns of a set: any of it, as many as fit.
Ranked(S) == {T \in SUBSET S : Cardinality(T) = IF Cardinality(S) < TopK THEN Cardinality(S) ELSE TopK}

ActiveIn(S) == {c \in Chunks : chunkState[c] = "active" /\ HomeOf[c] \in S}

(***************************************************************************)
(* build_retrieval_filter: the role in every domain, one SELECT at a time, *)
(* then the archived flag of every domain.                                 *)
(***************************************************************************)
AskQuery(q) ==
    /\ Stands(q, "new") /\ "query" \in offered.ops
    /\ \E asked \in Questions :
          /\ asked.by \in Known
          /\ Becomes(q, [Unasked EXCEPT !.pc = "roles", !.by = asked.by, !.wants = asked.wants,
                                        !.entities = asked.entities])
    /\ UNCHANGED <<configured, cacheVars, recordVars>>

PermitsAnyone(u, d) == TRUE

Permits(u, d) == HasRole(u, d, "reader")

NextWanted(q) == query[q].wants[query[q].checked + 1]

LastWanted(q) == query[q].checked + 1 = Len(query[q].wants)

\* All domains are looked at before the query is refused.
CheckRole(q) ==
    /\ Stands(q, "roles")
    /\ LET missing == query[q].missing \/ ~Permits(query[q].by, NextWanted(q)) IN
         Becomes(q, CASE ~LastWanted(q) -> [query[q] EXCEPT !.checked = @ + 1, !.missing = missing]
                      [] LastWanted(q) /\ ~missing -> [query[q] EXCEPT !.pc = "open", !.checked = 0]
                      [] OTHER -> Fails)
    /\ UNCHANGED <<configured, cacheVars, recordVars>>

\* raise_if_archived
CheckOpen(q) ==
    /\ Stands(q, "open")
    /\ Becomes(q, CASE domains[NextWanted(q)] # "active" -> Fails
                    [] LastWanted(q) /\ domains[NextWanted(q)] = "active" -> [query[q] EXCEPT !.pc = "config"]
                    [] OTHER -> [query[q] EXCEPT !.checked = @ + 1])
    /\ UNCHANGED <<configured, cacheVars, recordVars>>

(***************************************************************************)
(* get_or_create_retrieval_config of the first domain.  The unique column  *)
(* domain_id refuses the second of two first rows, and nobody catches it.  *)
(***************************************************************************)
ReadConfig(q) ==
    /\ Stands(q, "config")
    /\ Becomes(q, [query[q] EXCEPT
               !.pc = IF query[q].wants[1] \in configured THEN "lookup" ELSE "configure"])
    /\ UNCHANGED <<configured, cacheVars, recordVars>>

CreateConfig(q) ==
    LET d == query[q].wants[1] IN
    /\ Stands(q, "configure")
    /\ IF d \in configured
         THEN Becomes(q, Fails)
         ELSE Becomes(q, [query[q] EXCEPT !.pc = "lookup"])
    /\ configured' = configured \cup {d}
    /\ UNCHANGED <<cacheVars, recordVars>>

(***************************************************************************)
(* get_bm25_retriever.                                                     *)
(***************************************************************************)
CacheKey(q) == Wanted(q)

LookUpIndex(q) ==
    LET hit == cache[CacheKey(q)] # 0 /\ CacheKey(q) \in fresh IN
    /\ Stands(q, "lookup")
    /\ Becomes(q, [query[q] EXCEPT !.pc = IF hit THEN "vector" ELSE "build",
                                          !.index = IF hit THEN cache[CacheKey(q)] ELSE 0])
    /\ UNCHANGED <<configured, cacheVars, recordVars>>

\* The rows are read; an index over them is built, if there are any.
ReadRows(q) ==
    LET found == ActiveIn(Wanted(q)) IN
    /\ Stands(q, "build")
    /\ IF found = {}
         THEN /\ Becomes(q, [query[q] EXCEPT !.pc = "vector"])
              /\ UNCHANGED cacheVars
         ELSE /\ Becomes(q, [query[q] EXCEPT !.pc = "store", !.index = Len(indexes) + 1])
              /\ indexes' = Append(indexes, [chunks |-> found, scoreOf |-> [c \in found |-> Null]])
              /\ UNCHANGED <<cache, fresh>>
    /\ UNCHANGED <<configured, recordVars>>

StoreIndex(q) ==
    /\ Stands(q, "store")
    /\ Becomes(q, [query[q] EXCEPT !.pc = "vector"])
    /\ cache' = [cache EXCEPT ![CacheKey(q)] = query[q].index]
    /\ fresh' = fresh \cup {CacheKey(q)}
    /\ UNCHANGED <<configured, indexes, recordVars>>

Expire(key) ==
    /\ key \in fresh
    /\ fresh' = fresh \ {key}
    /\ UNCHANGED <<configured, indexes, cache, query, recordVars>>

(***************************************************************************)
(* The three searches.                                                     *)
(***************************************************************************)
SearchVectors(q) ==
    /\ Stands(q, "vector")
    /\ \E hits \in Ranked(ActiveIn(Wanted(q))) :
          Becomes(q, [query[q] EXCEPT !.vector = hits,
                                 !.pc = IF query[q].entities THEN "graph" ELSE "fuse"])
    /\ UNCHANGED <<configured, cacheVars, recordVars>>

\* Chunk ids of the nodes of the wanted domains that match; Postgres is asked
\* again for their domain, but not whether they are active.
SearchGraph(q) ==
    /\ Stands(q, "graph")
    /\ \E matched \in SUBSET {c \in mentioned : HomeOf[c] \in Wanted(q)} :
          \E hits \in Ranked(matched) :
             Becomes(q, [query[q] EXCEPT !.pc = "fuse", !.graph = hits])
    /\ UNCHANGED <<configured, cacheVars, recordVars>>

\* The text search touches nothing shared but the index the query holds.
TextHits(q) == IF query[q].index = 0 THEN {{}} ELSE Ranked(indexes[query[q].index].chunks)

(***************************************************************************)
(* weighted_reciprocal_rank keeps, of the documents of a chunk, that of    *)
(* the first list it is in: vector, text, graph.  setdefault then adds the *)
(* graph score, also to a document that belongs to the index.              *)
(***************************************************************************)
GraphScore(q, c, owned) ==
    IF owned /\ indexes[query[q].index].scoreOf[c] # Null THEN indexes[query[q].index].scoreOf[c]
    ELSE IF c \in query[q].graph THEN q ELSE Null

Fuse(q) ==
    /\ Stands(q, "fuse")
    /\ \E text \in TextHits(q) :
          \E kept \in Ranked(query[q].vector \cup text \cup query[q].graph) :
             LET Owned(c) == c \in text \ query[q].vector IN
             /\ Becomes(q, [query[q] EXCEPT !.pc = "generate",
                   !.docs = {[chunk |-> c, score |-> GraphScore(q, c, Owned(c))] : c \in kept}])
             /\ indexes' = [i \in DOMAIN indexes |->
                   IF i # query[q].index THEN indexes[i]
                   ELSE [indexes[i] EXCEPT !.scoreOf = [c \in DOMAIN @ |->
                           IF c \in kept /\ Owned(c) THEN GraphScore(q, c, TRUE) ELSE @[c]]]]
    /\ UNCHANGED <<configured, cache, fresh, recordVars>>

(***************************************************************************)
(* generate_answer, create_query_log and the dispatch of the judge.        *)
(***************************************************************************)
GenerationFails(q) ==
    /\ Stands(q, "generate")
    /\ Becomes(q, Fails)
    /\ UNCHANGED <<configured, cacheVars, recordVars>>

CreateQueryLog(q) ==
    /\ Stands(q, "generate")
    /\ Becomes(q, [query[q] EXCEPT !.pc = "enqueue"])
    /\ logs' = logs \cup {q}
    /\ UNCHANGED <<configured, cacheVars, tasks>>

\* The broker takes the task, or its error becomes that of the request.
EnqueueEvaluation(q) ==
    /\ Stands(q, "enqueue")
    /\ \/ Becomes(q, Done) /\ tasks' = tasks \cup {q}
       \/ Becomes(q, Fails) /\ UNCHANGED tasks
    /\ UNCHANGED <<configured, cacheVars, logs>>

QueryStep(q) ==
    \/ AskQuery(q) \/ CheckRole(q) \/ CheckOpen(q)
    \/ ReadConfig(q) \/ CreateConfig(q)
    \/ LookUpIndex(q) \/ ReadRows(q) \/ StoreIndex(q)
    \/ SearchVectors(q) \/ SearchGraph(q)
    \/ Fuse(q) \/ GenerationFails(q) \/ CreateQueryLog(q) \/ EnqueueEvaluation(q)

(***************************************************************************)
(* The rest of the system.                                                 *)
(***************************************************************************)
\* A generation becomes active and retires the one before, in one
\* transaction (see IngestionPipeline).
IndexGeneration(c) ==
    /\ "index" \in offered.ops
    /\ chunkState[c] = "none"
    /\ chunkState' = [x \in Chunks |-> CASE x = c -> "active"
                                         [] x # c /\ x \in ActiveIn({HomeOf[c]}) -> "retired"
                                         [] OTHER -> chunkState[x]]
    /\ UNCHANGED mentioned

\* The batch extraction writes the ids of active chunks into Neo4j and never
\* takes them out (see KnowledgeGraph).
ExtractChunk(c) ==
    /\ chunkState[c] = "active"
    /\ mentioned' = mentioned \cup {c}
    /\ UNCHANGED chunkState

NothingSeen == [readable |-> {}, open |-> {}]

RetrievalInit ==
    /\ chunkState = [c \in Chunks |-> IF c \in Indexed THEN "active" ELSE "none"]
    /\ mentioned = Indexed
    /\ configured = {}
    /\ indexes = <<>> /\ cache = [key \in SUBSET Domains |-> 0] /\ fresh = {}
    /\ query = [q \in Queries |-> Unasked]
    /\ logs = {} /\ tasks = {}
    /\ during = [q \in Queries |-> NothingSeen]

\* Observation, of the domains a running query asks for: those its asker
\* could read and those not archived in some state of it.
Searching(q) == query[q].pc \notin {"new", "generate", "enqueue", "done", "failed"}

WatchQueries ==
    during' = [q \in Queries |->
        IF ~Running(q)' THEN NothingSeen
        ELSE IF ~Searching(q)' THEN during[q]
        ELSE [readable |-> during[q].readable
                 \cup {d \in Wanted(q)' : \E row \in rows' : row.user = query'[q].by /\ row.domain = d},
              open     |-> during[q].open \cup {d \in Wanted(q)' : domains'[d] = "active"}]]

RetrievalStep ==
    \/ \E q \in Queries : QueryStep(q) /\ UNCHANGED <<request, corpusVars>> /\ Unchanged
    \/ \E key \in SUBSET Domains : Expire(key) /\ UNCHANGED <<request, corpusVars>> /\ Unchanged
    \/ \E c \in Chunks : /\ IndexGeneration(c) \/ ExtractChunk(c)
                         /\ UNCHANGED <<request, configured, cacheVars, query, recordVars>> /\ Unchanged

(***************************************************************************)
(* Properties.                                                             *)
(***************************************************************************)
RetrievalTypeOK ==
    /\ chunkState \in [Chunks -> {"none", "active", "retired"}]
    /\ mentioned \subseteq Chunks /\ configured \subseteq Domains
    /\ \A i \in DOMAIN indexes : /\ indexes[i].chunks \subseteq Chunks
                                 /\ indexes[i].scoreOf \in [indexes[i].chunks -> Queries \cup {Null}]
    /\ cache \in [SUBSET Domains -> 0 .. Len(indexes)] /\ fresh \subseteq SUBSET Domains
    /\ \A q \in Queries : /\ query[q].index \in 0 .. Len(indexes) \/ ~Running(q)
                          /\ Cardinality(query[q].docs) <= TopK
    /\ logs \subseteq Queries /\ tasks \subseteq Queries

Answered(q) == query[q].pc \in {"generate", "enqueue"}

\* Whoever gets an answer could, at some moment of the query, read every
\* domain that any passage of it comes from, and every domain they asked for
\* was open; whatever is revoked or archived meanwhile, and whichever query
\* had the shared index built (authz/retrieval.py, bm25_retriever.py).
AnswersKeepToPermissions ==
    \A q \in Queries : Answered(q) =>
        /\ {HomeOf[doc.chunk] : doc \in query[q].docs} \cup Wanted(q) \subseteq during[q].readable
        /\ Wanted(q) \subseteq during[q].open

\* No judge is sent for a query whose log is not committed, whatever fails
\* and whenever the process dies (retrieval/service.py answer_query).
JudgedIsLogged == tasks \subseteq logs

\* An index that is shared holds only passages of the domains it is cached
\* for, whichever of several queries that built it stored it last
\* (bm25_retriever.py get_bm25_retriever).
CacheIsByDomains ==
    \A key \in SUBSET Domains : cache[key] # 0 =>
        {HomeOf[c] : c \in indexes[cache[key]].chunks} \subseteq key

\* The graph score of a passage is that of the query it answers: router.py
\* compute_confidence says "top-k chunk similarity, blended 50/50 with graph
\* match strength where graph retrieval was activated".
GraphScoresAreOwn ==
    \A q \in Queries : Answered(q) => \A doc \in query[q].docs : doc.score \in {q, Null}
=============================================================================
