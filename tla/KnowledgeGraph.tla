--------------------------- MODULE KnowledgeGraph ---------------------------
(***************************************************************************)
(* The knowledge graph of one domain: the versions of its ontology         *)
(* (ontology/service.py), the extraction of entities and relations by the  *)
(* periodic batch (extraction/service.py), its dual write to Postgres and  *)
(* Neo4j (extraction/graph_store.py), re-extraction and backfill           *)
(* (tasks/pipeline.py).                                                    *)
(*                                                                         *)
(* API requests interleave with the one Celery worker of the deployment.   *)
(* What the worker writes to Postgres for a chunk is visible when it       *)
(* commits; what it writes to Neo4j is visible at once.                    *)
(***************************************************************************)
EXTENDS Integers, Sequences, FiniteSets

CONSTANTS
    Chunks,     \* chunks of the domain
    Docs,       \* its documents
    DocOf,      \* the document of each chunk
    Names,      \* keys of entities: a type with a normalised name
    Pairs,      \* keys of relations: the two names a predicate relates
    Output,     \* what the extractor finds, by schema version and chunk
    Admins,     \* API requests that may activate a schema
    MaxVersion, \* bound: schema versions
    MaxFaults   \* bound: crashes and raised errors of external systems

ASSUME OutputOK ==
    /\ Pairs \subseteq Names \X Names
    /\ MaxVersion \in Nat \ {0} /\ MaxFaults \in Nat
    /\ DocOf \in [Chunks -> Docs]
    /\ Output \in [1 .. MaxVersion -> [Chunks -> [entities : Seq(Names), triples : Seq(Pairs)]]]

VARIABLES
    schemas,   \* ontology_schemas: each version "none", "inactive" or "active"
    request,   \* where each create_schema_version request stands
    active,    \* chunks whose is_active is set
    extracted, \* entities_extracted_at, as the version extracted with; 0 is NULL
    graph,     \* graph_nodes, graph_edges and their links in Postgres
    neo,       \* the Neo4j graph
    queue,     \* the Celery queue
    job,       \* what the worker is doing, with its open transaction
    \* observation only, except the bounds
    inserted,  \* number of rows ever inserted for a name: the source of fresh ids
    mirrored,  \* version of a chunk's last extraction, if all its Neo4j calls returned
    lost,      \* a re-extraction was lost to a crash
    repaired,  \* how many faults there had been when a backfill last ran to its end
    faults

vars == <<schemas, request, active, extracted, graph, neo, queue, job,
          inserted, mirrored, lost, repaired, faults>>

Versions == 1 .. MaxVersion
Active   == {v \in Versions : schemas[v] = "active"}

\* A row exists when its stamp (ontology_version) is not 0.
NoGraph == [id |-> [n \in Names |-> 0], stamp |-> [n \in Names |-> 0],
            edgeStamp |-> [p \in Pairs |-> 0], mentions |-> [p \in Pairs |-> 0],
            nodeLinks |-> {}, edgeLinks |-> {}]
NoNeo   == [id |-> [n \in Names |-> 0], chunks |-> [n \in Names |-> {}],
            rel |-> [p \in Pairs |-> {}], count |-> [p \in Pairs |-> 0]]
Idle    == [pc |-> "idle", docs |-> {}, schema |-> 0, todo |-> {}, chunk |-> {},
            entities |-> <<>>, triples |-> <<>>, tx |-> NoGraph, mirrors |-> TRUE]

Init ==
    /\ schemas = [v \in Versions |-> "none"]
    /\ request = [a \in Admins |-> [pc |-> "idle", previous |-> 0]]
    /\ active = Chunks
    /\ extracted = [c \in Chunks |-> 0]
    /\ graph = NoGraph /\ neo = NoNeo
    /\ queue = <<>> /\ job = Idle
    /\ inserted = [n \in Names |-> 0]
    /\ mirrored = [c \in Chunks |-> 0]
    /\ lost = FALSE /\ repaired = 0 /\ faults = 0

Fault == faults < MaxFaults /\ faults' = faults + 1

ontologyVars == <<schemas, request>>
observers    == <<inserted, mirrored, lost, repaired>>
stores       == <<graph, neo, extracted>>

----------------------------------------------------------------------------
(* create_schema_version; its check of the document is left out.           *)

(* Bound: while there is a version to activate.                            *)
ReadActive(a) ==
    /\ request[a].pc = "idle" /\ MaxVersion \notin Active
    /\ request' = [request EXCEPT ![a] = [pc |-> "read",
          previous |-> IF Active = {} THEN 0 ELSE CHOOSE v \in Active : TRUE]]
    /\ UNCHANGED <<schemas, active, queue, job, faults, stores, observers>>

(* Mutation: without the index.                                            *)
NoIndex(previous) == TRUE

(* The partial unique index admits the new row if the one this request     *)
(* deactivates is the only active one.                                     *)
OneActiveIndex(previous) == Active \subseteq {previous}

(* The UPDATE that deactivates, the INSERT and the commit: the first locks *)
(* the row, or the index, until the last.                                  *)
ActivateNext(a) ==
    LET old == request[a].previous
    IN  /\ request[a].pc = "read"
        /\ OneActiveIndex(old)
        /\ schemas' = [v \in Versions |-> CASE v = old     -> "inactive"
                                            [] v = old + 1 -> "active"
                                            [] OTHER       -> schemas[v]]
        /\ request' = [request EXCEPT ![a].pc = "publish"]
        /\ UNCHANGED <<active, queue, job, faults, stores, observers>>

ActivationConflict(a) ==
    /\ request[a].pc = "read" /\ ~OneActiveIndex(request[a].previous)
    /\ request' = [request EXCEPT ![a].pc = "idle"]
    /\ UNCHANGED <<schemas, active, queue, job, faults, stores, observers>>

(* Mutation: nothing is published.                                         *)
EnqueueNothing(a) ==
    /\ request[a].pc = "publish"
    /\ request' = [request EXCEPT ![a].pc = "idle"]
    /\ UNCHANGED <<schemas, active, queue, job, faults, stores, observers>>

EnqueueReextraction(a) ==
    /\ request[a].pc = "publish"
    /\ request' = [request EXCEPT ![a].pc = "idle"]
    /\ queue' = Append(queue, "reextract")
    /\ UNCHANGED <<schemas, active, job, faults, stores, observers>>

(* The API process dies, or the broker refuses, after the commit.          *)
ActivationDies(a) ==
    /\ request[a].pc = "publish" /\ Fault
    /\ request' = [request EXCEPT ![a].pc = "idle"]
    /\ lost' = TRUE
    /\ UNCHANGED <<schemas, active, queue, job, inserted, mirrored, repaired, stores>>

----------------------------------------------------------------------------
(* The schedule and the worker.                                            *)

(* Celery Beat.  Bound: one waiting sweep; a second finds what it leaves.  *)
Beat ==
    /\ \A i \in DOMAIN queue : queue[i] # "batch"
    /\ queue' = Append(queue, "batch")
    /\ UNCHANGED <<ontologyVars, active, job, faults, stores, observers>>

(* An operator starts the backfill.  Bound: while the queue is empty.      *)
StartBackfill ==
    /\ queue = <<>>
    /\ queue' = <<"backfill">>
    /\ UNCHANGED <<ontologyVars, active, job, faults, stores, observers>>

Take ==
    /\ job.pc = "idle" /\ queue # <<>>
    /\ job' = [Idle EXCEPT !.pc = Head(queue)]
    /\ queue' = Tail(queue)
    /\ UNCHANGED <<ontologyVars, active, faults, stores, observers>>

(* Re-chunking, another task of this worker, retires a document's chunks.  *)
RetireChunks(d) ==
    /\ job.pc = "idle"
    /\ active' = {c \in active : DocOf[c] # d} /\ active' # active
    /\ UNCHANGED <<ontologyVars, queue, job, faults, stores, observers>>

(* reextract_domain_task.                                                  *)
ResetExtraction ==
    /\ job.pc = "reextract"
    /\ extracted' = [c \in Chunks |-> IF c \in active THEN 0 ELSE extracted[c]]
    /\ job' = Idle
    /\ UNCHANGED <<ontologyVars, active, graph, neo, queue, faults, observers>>

Pending == {c \in active : extracted[c] = 0}

(* batch_extract_entities_task.                                            *)
ListDocuments ==
    /\ job.pc = "batch"
    /\ job' = [job EXCEPT !.pc = "documents", !.docs = {DocOf[c] : c \in Pending}]
    /\ UNCHANGED <<ontologyVars, active, queue, faults, stores, observers>>

(* Mutation: the first version of the domain is cached.                    *)
CachedSchema == 1

LoadedSchema == CHOOSE v \in Active : TRUE

(* process_extract_entities_for_document.                                  *)
BeginDocument(d) ==
    LET todo == {c \in Pending : DocOf[c] = d}
    IN  /\ job.pc = "documents" /\ d \in job.docs
        /\ job' = IF Active = {} \/ todo = {}
                  THEN [job EXCEPT !.docs = @ \ {d}]
                  ELSE [job EXCEPT !.pc = "chunks", !.docs = @ \ {d},
                                   !.schema = LoadedSchema, !.todo = todo]
        /\ UNCHANGED <<ontologyVars, active, queue, faults, stores, observers>>

EndSweep ==
    /\ job.pc = "documents" /\ job.docs = {}
    /\ job' = Idle
    /\ UNCHANGED <<ontologyVars, active, queue, faults, stores, observers>>

BeginChunk(c) ==
    LET found == Output[job.schema][c]
    IN  /\ job.pc = "chunks" /\ c \in job.todo
        /\ job' = [job EXCEPT !.pc = "write", !.todo = @ \ {c}, !.chunk = {c}, !.tx = graph,
                              !.entities = found.entities, !.triples = found.triples,
                              !.mirrors = TRUE]
        /\ UNCHANGED <<ontologyVars, active, queue, faults, stores, observers>>

EndDocument ==
    /\ job.pc = "chunks" /\ job.todo = {}
    /\ job' = [job EXCEPT !.pc = "documents"]
    /\ UNCHANGED <<ontologyVars, active, queue, faults, stores, observers>>

----------------------------------------------------------------------------
(* The dual write.                                                         *)

(* _get_or_touch_node and _link_node_to_chunk on the open transaction.     *)
TouchNode(tx, n, c) ==
    [tx EXCEPT !.stamp[n] = job.schema,
               !.id[n] = IF tx.stamp[n] = 0 THEN inserted[n] + 1 ELSE @,
               !.nodeLinks = @ \cup {<<c, n>>}]

(* Mutation: the count is incremented instead of recomputed.               *)
TouchEdgeIncrement(tx, p, c) ==
    [tx EXCEPT !.edgeStamp[p] = job.schema, !.edgeLinks = @ \cup {<<c, p>>},
               !.mentions[p] = @ + 1]

(* _get_or_touch_edge and _link_edge_to_chunk_and_recompute_mentions.      *)
TouchEdge(tx, p, c) ==
    LET links == tx.edgeLinks \cup {<<c, p>>}
    IN  [tx EXCEPT !.edgeStamp[p] = job.schema, !.edgeLinks = links,
                   !.mentions[p] = Cardinality({l \in links : l[2] = p})]

(* Mutation: chunk_ids is only set when the node is created.               *)
UpsertNodeOnCreate(n, id, c) ==
    [neo EXCEPT !.id[n] = IF @ = 0 THEN id ELSE @,
                !.chunks[n] = IF neo.id[n] = 0 THEN {c} ELSE @]

(* MERGE by key: an existing node keeps its id.                            *)
UpsertNode(n, id, c) ==
    [neo EXCEPT !.id[n] = IF @ = 0 THEN id ELSE @, !.chunks[n] = @ \cup {c}]

(* Mutation: the count is set on creation only.                            *)
UpsertEdgeOnCreate(p, ids, count, c) ==
    IF \A n \in {p[1], p[2]} : neo.id[n] = ids[n]
    THEN [neo EXCEPT !.rel[p] = @ \cup {c}, !.count[p] = IF @ = 0 THEN count ELSE @]
    ELSE neo

(* MATCH of both ends by id: without them nothing happens, and no error.   *)
UpsertEdge(p, ids, count, c) ==
    IF \A n \in {p[1], p[2]} : neo.id[n] = ids[n]
    THEN [neo EXCEPT !.rel[p] = @ \cup {c}, !.count[p] = count]
    ELSE neo

(* An upsert that raises is logged, and the loop goes on.                  *)
Mirror(upserted, updatedJob) ==
    \/ neo' = upserted /\ job' = updatedJob /\ UNCHANGED faults
    \/ neo' = neo /\ job' = [updatedJob EXCEPT !.mirrors = FALSE] /\ Fault

WriteNode ==
    /\ job.pc = "write" /\ job.entities # <<>>
    /\ LET n  == Head(job.entities)
           c  == CHOOSE x \in job.chunk : TRUE
           tx == TouchNode(job.tx, n, c)
       IN  /\ Mirror(UpsertNode(n, tx.id[n], c),
                     [job EXCEPT !.tx = tx, !.entities = Tail(@)])
           /\ inserted' = [inserted EXCEPT ![n] = IF job.tx.stamp[n] = 0 THEN @ + 1 ELSE @]
    /\ UNCHANGED <<ontologyVars, active, extracted, graph, queue, mirrored, lost, repaired>>

WriteEdge ==
    /\ job.pc = "write" /\ job.entities = <<>> /\ job.triples # <<>>
    /\ LET p  == Head(job.triples)
           c  == CHOOSE x \in job.chunk : TRUE
           tx == TouchEdge(job.tx, p, c)
       IN  Mirror(UpsertEdge(p, tx.id, tx.mentions[p], c),
                  [job EXCEPT !.tx = tx, !.triples = Tail(@)])
    /\ UNCHANGED <<ontologyVars, active, extracted, graph, queue, observers>>

NextChunk == [job EXCEPT !.pc = "chunks", !.chunk = {}, !.tx = NoGraph, !.mirrors = TRUE,
                         !.entities = <<>>, !.triples = <<>>]

CommitChunk ==
    /\ job.pc = "write" /\ job.entities = <<>> /\ job.triples = <<>>
    /\ graph' = job.tx
    /\ LET c == CHOOSE x \in job.chunk : TRUE
       IN  /\ extracted' = [extracted EXCEPT ![c] = job.schema]
           /\ mirrored' = [mirrored EXCEPT ![c] = IF job.mirrors THEN job.schema ELSE 0]
    /\ job' = NextChunk
    /\ UNCHANGED <<ontologyVars, active, neo, queue, inserted, lost, repaired, faults>>

(* An exception while the chunk is processed: rollback, next chunk.        *)
ChunkFails ==
    /\ job.pc = "write" /\ Fault
    /\ job' = NextChunk
    /\ UNCHANGED <<ontologyVars, active, queue, stores, observers>>

(* Celery has acknowledged the task when it was taken: it dies with the    *)
(* worker, which is restarted.                                             *)
WorkerCrash ==
    /\ job.pc # "idle" /\ Fault
    /\ lost' = (lost \/ job.pc = "reextract")
    /\ job' = Idle
    /\ UNCHANGED <<ontologyVars, active, queue, inserted, mirrored, repaired, stores>>

(* Mutation: retired chunks are skipped.                                   *)
ReplayedActiveNodes(links) ==
    LET linked(n) == {c \in active : <<c, n>> \in links}
    IN  [neo EXCEPT
          !.id     = [n \in Names |-> IF @[n] = 0 /\ linked(n) # {} THEN graph.id[n] ELSE @[n]],
          !.chunks = [n \in Names |-> @[n] \cup linked(n)]]

(* backfill_neo4j_graph_task: all nodes, then all edges, once per link.    *)
(* An error ends it after some of them.                                    *)
ReplayedNodes(links) ==
    LET linked(n) == {c \in Chunks : <<c, n>> \in links}
    IN  [neo EXCEPT
          !.id     = [n \in Names |-> IF @[n] = 0 /\ linked(n) # {} THEN graph.id[n] ELSE @[n]],
          !.chunks = [n \in Names |-> @[n] \cup linked(n)]]

ReplayedEdges(links) ==
    LET linked(p) == {c \in Chunks : <<c, p>> \in links}
        hit == {p \in Pairs : /\ linked(p) # {}
                              /\ \A n \in {p[1], p[2]} : neo.id[n] = graph.id[n]}
    IN  [neo EXCEPT
          !.rel   = [p \in Pairs |-> IF p \in hit THEN @[p] \cup linked(p) ELSE @[p]],
          !.count = [p \in Pairs |-> IF p \in hit THEN graph.mentions[p] ELSE @[p]]]

ReplayNodes ==
    /\ job.pc = "backfill"
    /\ neo' = ReplayedNodes(graph.nodeLinks)
    /\ job' = [job EXCEPT !.pc = "edges"]
    /\ UNCHANGED <<ontologyVars, active, extracted, graph, queue, faults, observers>>

ReplayEdges ==
    /\ job.pc = "edges"
    /\ neo' = ReplayedEdges(graph.edgeLinks)
    /\ job' = Idle /\ repaired' = faults
    /\ UNCHANGED <<ontologyVars, active, extracted, graph, queue, faults, inserted, mirrored, lost>>

BackfillFails ==
    /\ \/ job.pc = "backfill" /\ \E links \in SUBSET graph.nodeLinks : neo' = ReplayedNodes(links)
       \/ job.pc = "edges" /\ \E links \in SUBSET graph.edgeLinks : neo' = ReplayedEdges(links)
    /\ Fault
    /\ job' = Idle
    /\ UNCHANGED <<ontologyVars, active, extracted, graph, queue, observers>>

----------------------------------------------------------------------------
Worker ==
    \/ Take \/ ResetExtraction \/ ListDocuments \/ EndSweep \/ EndDocument
    \/ \E d \in Docs : BeginDocument(d)
    \/ \E c \in Chunks : BeginChunk(c)
    \/ WriteNode \/ WriteEdge \/ CommitChunk
    \/ ReplayNodes \/ ReplayEdges

Activation(a) == ReadActive(a) \/ ActivateNext(a) \/ ActivationConflict(a) \/ EnqueueReextraction(a)

Next ==
    \/ \E a \in Admins : Activation(a) \/ ActivationDies(a)
    \/ Beat \/ StartBackfill
    \/ \E d \in Docs : RetireChunks(d)
    \/ Worker \/ ChunkFails \/ BackfillFails \/ WorkerCrash

Spec == Init /\ [][Next]_vars

(* Beat ticks, the worker takes tasks and finishes them, and a request     *)
(* that has committed publishes.                                           *)
Fairness ==
    /\ WF_vars(Beat) /\ WF_vars(Worker)
    /\ \A a \in Admins : WF_vars(EnqueueReextraction(a))

FairSpec == Spec /\ Fairness

----------------------------------------------------------------------------
(* Properties.                                                             *)

(* The shape of the state.                                                 *)
TypeOK ==
    /\ schemas \in [Versions -> {"none", "inactive", "active"}]
    /\ request \in [Admins -> [pc : {"idle", "read", "publish"}, previous : 0 .. MaxVersion]]
    /\ active \subseteq Chunks
    /\ extracted \in [Chunks -> 0 .. MaxVersion] /\ mirrored \in [Chunks -> 0 .. MaxVersion]
    /\ graph.nodeLinks \subseteq {l \in Chunks \X Names : graph.stamp[l[2]] # 0}
    /\ graph.edgeLinks \subseteq {l \in Chunks \X Pairs : graph.edgeStamp[l[2]] # 0}
    /\ queue \in Seq({"batch", "reextract", "backfill"})
    /\ job.pc \in {"idle", "batch", "reextract", "backfill", "documents", "chunks", "write", "edges"}
    /\ lost \in BOOLEAN /\ faults \in 0 .. MaxFaults /\ repaired \in 0 .. faults

(* Under concurrent activations one version is active, and it is the       *)
(* newest one: a version once left is never activated again.               *)
ActiveIsNewest ==
    /\ Cardinality(Active) <= 1
    /\ \A v \in Active, w \in Versions : schemas[w] # "none" => w <= v

(* No chunk keeps the result of an older ontology for good: either its     *)
(* re-extraction is still to come, from the request that activated the     *)
(* newer version or from the queue, or a crash has lost it.  A sweep that  *)
(* began under the older version must not escape this.                     *)
OutdatedIsReset ==
    \A c \in active, v \in Active :
        \/ extracted[c] \in {0, v}
        \/ \E a \in Admins : request[a].pc = "publish"
        \/ \E i \in DOMAIN queue : queue[i] = "reextract"
        \/ job.pc = "reextract"
        \/ lost

(* However often chunks are extracted again, an edge counts each chunk     *)
(* that states it once.                                                    *)
MentionsExact ==
    \A p \in Pairs : graph.mentions[p] = Cardinality({l \in graph.edgeLinks : l[2] = p})

(* Without crashes and errors the two stores hold the same graph whenever  *)
(* no chunk is being written: the same nodes with the same ids, the same   *)
(* relations with the same counts, and the same chunks behind them.        *)
(* graph_store.py, line 6: "kept in sync with the Postgres ... tables".    *)
StoresAgree ==
    faults = 0 /\ job.pc # "write" =>
        /\ neo.id = graph.id
        /\ \A n \in Names : neo.chunks[n] = {c \in Chunks : <<c, n>> \in graph.nodeLinks}
        /\ \A p \in Pairs : /\ neo.rel[p] = {c \in Chunks : <<c, p>> \in graph.edgeLinks}
                            /\ neo.count[p] = graph.mentions[p]

(* After crashes, rollbacks and failed upserts, a chunk extracted with no  *)
(* Neo4j error is found from all the entities it mentions.                 *)
NodesCatchUp ==
    \A c \in Chunks : mirrored[c] # 0 =>
        LET found == Output[mirrored[c]][c].entities
        IN  \A i \in DOMAIN found : c \in neo.chunks[found[i]]

(* The same of relations: extraction/service.py, lines 133-135, says that  *)
(* a write failure lags "until the next re-extraction re-runs this same    *)
(* upsert".                                                                *)
EdgesCatchUp ==
    \A c \in Chunks : mirrored[c] # 0 =>
        LET found == Output[mirrored[c]][c].triples
        IN  \A i \in DOMAIN found : c \in neo.rel[found[i]]

(* A backfill that runs to its end makes good what crashes, rollbacks and  *)
(* failed upserts had left out of Neo4j, of retired chunks too, and no     *)
(* later extraction loses it again until the next fault: every entity of   *)
(* Postgres has all its chunks, and every relation has its chunks and its  *)
(* count if both its ends go by one id in the two stores.  It repairs no   *)
(* end that goes by two ids (EdgesCatchUp), and removes nothing that       *)
(* Postgres has rolled back (backfill_neo4j_graph_task).                   *)
BackfillRepairs ==
    repaired = faults /\ job.pc # "write" =>
        /\ \A l \in graph.nodeLinks : l[1] \in neo.chunks[l[2]]
        /\ \A l \in graph.edgeLinks :
              (\A n \in {l[2][1], l[2][2]} : neo.id[n] = graph.id[n]) =>
                 l[1] \in neo.rel[l[2]] /\ neo.count[l[2]] = graph.mentions[l[2]]

(* The whole domain is extracted with the newest ontology in the end, as   *)
(* long as no re-extraction was lost.                                      *)
ExtractionCatchesUp ==
    \A v \in Versions :
        schemas[v] = "active" ~> \/ lost \/ schemas[v] # "active"
                                 \/ \A c \in active : extracted[c] = v
=============================================================================
