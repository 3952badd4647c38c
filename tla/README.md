# A formal model of the Multi-User Multi-Domain RAG System

TLA+ specifications of the back end under `src/src/` (FastAPI handlers and
Celery tasks over Postgres, Redis, MinIO and Neo4j), model-checked with TLC and
partly proved with TLAPS. The code is the reference: each definition that
models code names its lines in `PROJECT.json` ("map").

Run everything from this directory:

    tlc -workers 2 -config ingestion.cfg MCIngestionPipeline.tla
    tlapm IngestionLifecycle_proofs.tla

## 1. Inventory

The platform holds *domains*. A member uploads documents to a domain; a
background pipeline turns them into chunks with embeddings; a batch job builds
a knowledge graph from the chunks; a query retrieves chunks from the domains its
user may read, an LLM answers, and a judge LLM scores the answer. Handlers run
in API processes, tasks in a Celery worker. They share nothing but Postgres
(READ COMMITTED), the Redis queue, MinIO and Neo4j, and the threads of one API
process its memory; every commit, publish and external call is therefore a point
where another handler or task may step in.

| Component (under `src/src/`) | State it keeps | Operations | Interacts with | Hard behaviour | What makes it correct |
|---|---|---|---|---|---|
| Document ingestion: `ingestion/service.py`, `storage/core.py` | `documents` rows and status, raw files in MinIO | `create_document`, `process_document_text_extraction` | publishes the extraction task; archived check of domains | row, file and task are three separate writes; crash between them; domain deleted meanwhile | no document is lost between two stages; the status tells the truth |
| Text extraction: `ingestion/extraction.py` | none (pure) | reading order, header removal, splitting by tables and figures | PDF, DOCX, OCR libraries | geometry edge cases | no prose lost, in reading order, tables and charts whole |
| Chunking: `chunking/service.py`, `chunking/chunker.py` | `chunks` generations (`is_active`), `domain_ingestion_configs` | `process_chunk_and_embed`, `get_or_create_ingestion_config`, `update_ingestion_config`, `build_documents` | embeddings model; publishes the reindex task | re-chunking races edits, other runs and failures; lazy creation of the row | one generation served, never an older one; every edit arrives; overlap < group size |
| Celery tasks: `tasks/` | the Redis queue | `extract_text`, `chunk_and_embed`, `reindex_domain_chunks`, `reextract_domain`, `batch_extract_entities`, `evaluate_query_log`, regression, backfill | call the services | early acknowledgement, no retry is ever raised: a task dies with its worker | each stage hands over to the next |
| Evaluation: `evaluation/service.py`, `evaluation/judge.py` | `evaluation_results`, `query_logs`, `golden_qa_items`, `domain_evaluation_configs` | `evaluate_query_log`, `override_evaluation`, `set_evaluation_verdict`, golden regression, dashboard | judge LLM; query path | slow judge against human edits of the same row; unique-key races; stale ORM objects | a human is final; the judge's own scores stay auditable; every row settles |
| Domains: `domains/service.py` | `domains`, `user_domain_roles` | create, archive, delete, assign and revoke roles | every component's rows, MinIO, Neo4j | check of `is_archived` long before the write; a delete over fifteen tables and two foreign stores | an archived domain takes nothing new; a delete is all or nothing and leaves no row behind |
| Authorization: `authz/` | none (reads roles) | role ranks, `build_retrieval_filter` | called by every router and by retrieval | role revoked between check and use | a query reads only domains its user may read, all or none |
| Users: `users/service.py` | `users.is_platform_admin` | `set_platform_admin`, password change | authz | two administrators demote each other | nobody locks the platform alone |
| Authentication: `auth/` | `session_policies` (singleton), SSO users | login, SSO provisioning, policy update | users | first-use races on unique keys; async handlers beside threads | one policy row; a token lives as long as the policy said |
| Ontology: `ontology/service.py` | `ontology_schemas` versions | `create_schema_version` | publishes re-extraction | concurrent activation | one active version; versions only grow |
| Knowledge graph: `extraction/` | `graph_nodes`, `graph_edges`, link tables, Neo4j | extraction per chunk with a dual write, backfill | ontology, chunks, Neo4j | Neo4j is written before Postgres commits; retired chunks; schema read once per document | both stores describe the same graph; mention counts equal links |
| Retrieval: `retrieval/` | BM25 cache per process, `domain_retrieval_configs` | `retrieve`, `answer_query`, routing, confidence | chunks, Neo4j, authz, generation | cache shared by queries and older than the chunks; graph returns retired chunks | an answer draws only on permitted domains, with scores of its own |
| Generation: `generation/` | none | route by sensitive keyword, one LLM call | retrieval | none | sensitive queries stay on the local model |
| Entities, migrations, application shell, frontend | schema, wiring, client | - | - | - | - |

`PROJECT.json` lists each with its status, and under "hazards" the 40 places
where this code is hard to test, with the properties that cover them.

## 2. Modules

| Module | Models | Extended or used by |
|---|---|---|
| `DocumentLifecycle` | abstract: what a reader of a domain may see happen to a document | refined by `IngestionPipeline` |
| `IngestionPipeline` | upload, extraction, chunking, re-indexing, configuration edits, archive and delete, as interleaved steps | `MCIngestionPipeline`; proofs in `IngestionPipeline_proofs` and, building on it, `IngestionLifecycle_proofs` |
| `IngestionConfig` | the two columns of the configuration row under concurrent edits | - |
| `TextExtraction` | from a file's pages to text, table and figure elements | `DocumentChunks`; what its operators return in `TextExtraction_proofs` |
| `Chunker` | the loop of `group_paragraphs` | `DocumentChunks` |
| `DocumentChunks` | extraction, then `build_documents`: a file from its pages to its chunks | `MCDocumentChunks`; `DocumentChunks_proofs` |
| `EvaluationReview` | one evaluation row between judge tasks and administrators | `MCEvaluationReview`; `EvaluationReview_proofs` |
| `KnowledgeGraph` | ontology versions, extraction with its dual write, re-extraction, backfill | `MCKnowledgeGraph`; `KnowledgeGraph_proofs` |
| `DomainDeletion` | archive and delete of a domain, statement by statement, against its writers | `DomainDeletion_proofs` |
| `AccessControl` | roles, platform administrators, and the endpoints that change them | `Sessions`, `Retrieval` |
| `Sessions` | accounts, logins, session policy | `QueryApi` |
| `Retrieval` | a query from the filter to the judge's dispatch, with the index cache | `QueryApi` |
| `QueryApi` | the API process: the three above, and its crash | `MCQueryApi`; `QueryApi_proofs` |

A step ends at a commit, a publish or an external call, or at a single statement
where another transaction's commit may matter, so that every state another
process can observe is a state of the model. What a handler read before sits in
its record (`job`, `request`, `query`) and may be stale when it is used. Two
properties of the database layer recur: Postgres runs at READ COMMITTED, so a
statement sees what was committed when it started, and SQLAlchemy writes only
the columns that differ from what the session loaded (`Written`, `Stored`).

### IngestionPipeline

One domain, its documents, and four kinds of process.

| Variable | Code |
|---|---|
| `domain`, `purging` | `domains.is_archived`, the row's existence, and `delete_domain` between its MinIO deletes and its commit |
| `config` | the `domain_ingestion_configs` row, as the number of edits it has seen (`NoRow`: not created yet) |
| `upload`, `edit` | where a `create_document` / `update_ingestion_config` request stands between its commits |
| `objects` | files in MinIO |
| `status`, `elements`, `chunks` | the `documents` row and the `chunks` rows: a sequence of generations with the configuration that produced each and its `is_active` |
| `queue` | the Redis list; FIFO |
| `job` | for each worker: its task, its step, and what it has read so far - the configuration (`rev`), the number of generations its retiring UPDATE could see (`seen`), the documents still to fan out (`todo`) |
| `stranded`, `outdated`, `faults` | observers: which documents lost their task to a fault; the fault budget |

Some correspondences that are easy to miss:

- Celery acknowledges on delivery (no `acks_late`) and no task raises `Retry`,
  although `max_retries=2` is declared. `WorkerCrash` therefore drops the task.
- `process_chunk_and_embed` catches every exception, rolls back and returns:
  `ChunkingFails` and `InsertConfigFails` leave the status as it was.
- `get_or_create_ingestion_config` is a SELECT, then an INSERT that commits. A
  request's own creation is one step (`CreateDefaultConfig`, since a lost race
  there ends only that request); the worker's is two (`ReadConfig`,
  `InsertConfig`), since losing it ends the task.
- `RetireOld` and `SwapGeneration` are one transaction, split where READ
  COMMITTED lets another worker's commit in between: the retiring UPDATE does not
  see rows committed after it ran.
- The rows of a task whose document was deleted: `DocumentVanished` stands for
  the lookup that returns None and for an UPDATE or INSERT that fails.

Left out: the content of files, elements and chunks (a document has elements or
not), other domains (no code path of this module relates two domains), list and
read endpoints, and the authorization check in front of each handler.

`DocumentLifecycle` is the promise to a reader who sees only `documents.status`
and the active chunks: accepted documents fail or are served; what is served is
replaced as a whole and never by an older configuration's; a deleted domain goes
at once and nothing returns. The refinement mapping is `ShownPhase`, the status
with the three transient values taken together, and `ShownRevisions`, the revisions of
the active chunks.

`IngestionPipeline` counts edits; `IngestionConfig` looks at their values: two
edits that loaded the same row may each store one column.

### TextExtraction, Chunker and DocumentChunks

A text is what the code tells of its wording: a kind (prose, blank, the numbers
of a chart, a caption, a citation), whether it ends a sentence, whether it has
fifteen characters. A run of a page is such a text with its box. On these the
module has the functions of `extraction.py` as operators of the same names
(`OrderPageTextObjects`, `RunningLines`, `SplitPageByTables`, `SplitFigureBlocks`,
`ReconstructParagraphs`), and as actions the loops that call them: a page or a
DOCX block at a time (`PageWithoutTables`, `PageWithTables`, `DocxParagraph`, ...),
with `buffer` for `prose_buffer`. `FindTables` is Camelot in one flavour and then the
other; `ExtractScanned` the OCR path. `PageSplitFails` is the branch that keeps the
page's whole text when its positional split raises.

`DocumentChunks` then walks the elements as `build_documents` does: tables and figures
become chunks as they are, a text goes through `Chunker`'s loop, an iteration per step; a
group is the interval of its paragraphs. The configuration values of a document of
prose only are any pair, also one no request would accept.

Left out: joining words over a hyphen, metadata, and the PDF, DOCX, OCR and table
libraries. A PDF is read by OCR when it has fewer than `MIN_NATIVE_TEXT_CHARS` (20) characters of
text besides its running headers; the model takes any text that is not blank for enough,
so it reads a PDF with a few characters on it as native. `extract_docx` passes over every child of the body that is neither a paragraph nor a
table (a content control, `w:sdt`, say) with the text in it; a document of the model has no such
child, and `TextChunked` says nothing of it. Rounding of the two ratios the code uses is integer arithmetic that
agrees with it on these values (`Rounded`, `StraddlePercent`).

### EvaluationReview

One query log and its evaluation row. `run` holds the judge tasks (the same
task delivered once or more), `review` the administrators' requests with the
row each loaded. `Finalize` is `_finalize_evaluation`, a single UPDATE whose WHERE
tests `overridden_by` at that moment; a human commit writes only the columns that
differ from what was loaded. `judged`, `corrected`, `late` and `missed` observe: `late` are
the requests that loaded the row before the judge's scores were stored, and
`missed` says that one of them has committed. Left out:
flags and their thresholds, feedback text, the moderation queue and the dashboard
(reads), golden items, token usage. The lookup of the default evaluation
configuration can lose the same race as the ingestion one; its effect, the end of
the task, is part of `RunDies`.

### KnowledgeGraph

One domain, API requests and the one Celery worker. `schemas` is
`ontology_schemas`; `ReadActive`, `ActivateNext` and `ActivationConflict` are the two
statements of `create_schema_version` against the partial unique index on the active
row, `EnqueueReextraction` the publish after its commit. `graph` is Postgres (ids,
stamps, mention counts, links), `neo` is Neo4j (ids, chunk lists, relations, counts).

The worker takes a chunk at a time: `WriteNode` and `WriteEdge` write to the open
transaction `job.tx` and at once to Neo4j (`Mirror`, `UpsertNode`, `UpsertEdge`), `CommitChunk` makes
the transaction visible, `ChunkFails` rolls it back and leaves Neo4j as it is. An id is
fresh for every row inserted, so that a row rolled back and inserted again has
another id, and `UpsertEdge`, which matches nodes by id, finds nothing then.
`UpsertNode` merges by key and keeps the id it finds. `RetireChunks` is a re-chunking,
`ReplayNodes` and `ReplayEdges` the two phases of the backfill, `Beat` the schedule.
What the extractor finds is the constant `Output`, by version and chunk.
`mirrored`, `lost` and `repaired` observe; `repaired` is the number of faults there had been when a
backfill last ran to its end, so `repaired = faults` means that none has come since.

### DomainDeletion

A table is in `rows` when it holds committed rows of the domain. The deletion runs
through `Statements`, the DELETEs of `delete_domain` in its order; a DELETE fails while
rows it cannot see as deleted refer to it (`Referenced`). Query logs are deleted
through the ORM, whose session does not flush by itself, so theirs reaches the database
at the commit (`FlushedAtCommit`). Requests check the archived flag and write later
(`PassesArchivedCheck`, `Write`); tasks write without looking. An insert that refers to
what an open transaction has deleted waits for it (`Referable`), so it fails when the
deletion commits. Files and graph go first, outside the transaction.

### AccessControl, Sessions, Retrieval and QueryApi

`request[s]` is a handler on a worker thread: operation, caller, arguments, `pc`, and the
row it has loaded. `Begin` is the arrival, `ReadPlatform` and `ReadRole` the
dependencies in front of the endpoint, then one action per statement of the
handler: `CheckDomain`, `LoadRole`, `AssignRole`, `RevokeRole`, `ArchiveDomain`, `CheckName`,
`CreateDomain`, `LoadUser`, `SetPlatformAdmin`. `AssignRole` is `UpdateRole` or `InsertRole`
by what was loaded: the update of a row that has gone raises, the insert of a second
row is refused by the unique key.

In `Sessions` the async handlers (`register`, `login`, `sso`) are coroutines that do not await
between their statements; the event loop runs one at a time (`LoopIsFree`), beside the
threads of the policy endpoints. `ReadPolicy`, `InsertPolicy`, `RereadPolicy` are
`get_or_create_session_policy` with its lost race.

In `Retrieval` a query reads its roles one SELECT at a time (`CheckRole`), the archived
flags (`CheckOpen`), the configuration, the BM25 cache (`LookUpIndex`, `ReadRows`,
`StoreIndex`, `Expire`), the vectors, the graph, and fuses the three lists. An index is a
mutable object with its documents in it: `Fuse` writes the query's graph score into the
document that the fusion kept, which may be the cached one. What a ranking returns of
its candidates is any choice (`Ranked`). A question
asks for one domain or more (`RetrievalConstants`): an empty `domain_ids` ends at once with an IndexError
at `permitted[0]` (`retrieval/service.py:70`), before anything is read or written. `IndexGeneration` is a re-chunking as a query sees
it, `ExtractChunk` an extraction.

`QueryApi` puts the three on one process: every step also updates the observers, and
`Crash` drops requests, queries and the process's memory. To keep the instances small
`Beginnings` lists the states to start from and, with each, `offered`: the operations,
callers and targets of this behaviour. `watch`, `overtaken`, `inForce` and `during` only observe: they record what was true
at some moment of a request, which is what a property can demand of code that
checks first and acts later.

## 3. Runs

Times are for two TLC workers.

| Run | Instance | Distinct states | Result |
|---|---|---|---|
| `ingestion` | 2 documents, 1 worker, 1 administrator, 1 edit, 1 fault; fair | 79,999, 45 s | pass |
| `ingestion_continuous` | 1 document, 1 edit, no fault; fair | 1,527 | violation |
| `config_concurrent` | 2 administrators, values up to 4 | - | violation |
| `text` | 5,000 documents of up to four pages, four or five rows or nine paragraphs, all small configurations | 121,126, 30 s | pass |
| `evaluation` | 1 judge task, 2 administrators, 2 dimensions, 2 scores; fair | 421,964, 30 s | pass |
| `evaluation_terminal` | 1 judge task, 1 administrator | - | violation |
| `graph` | 2 chunks of a document, 2 entities, 1 relation, 2 versions, 2 administrators, 1 fault; fair | 903,158, 180 s | pass |
| `graph_edges` | the same with 1 administrator | - | violation |
| `domain` | 9 tables, 1 write during the deletion; fair | 805,268, 75 s | pass |
| `domain_golden` | the 4 tables around golden items | - | violation |
| `api` | 3 users, 2 domains, 2 requests at a time or 2 queries and 1 request, 3 chunks | 850,763 (symmetric), 90 s | pass |
| `api_scores` | the part of it with queries | - | violation |

What they ask:

- `ingestion`: is any document dropped between two stages (`NothingStranded`), does a
  ready document always serve exactly one generation (`OneGenerationServed`,
  `ReadyIsServed`), does any edit miss a document (`FreshOrRefreshing`), and is all of
  it an implementation of `DocumentLifecycle` (`ImplementsLifecycle`), which includes that an
  older configuration's chunks never return and that a failed re-chunking
  loses no served document? In the end, does every upload settle and every edit arrive
  (`UploadSettles`, `EditReachesChunks`), except where a fault or a lost insert race
  cut the chain (`stranded`, `outdated`)? `FreshOrRefreshing` is the subtle one:
  `reindex_domain_chunks_task` skips documents that are not ready yet, and it is only
  the FIFO queue and the single worker that make this harmless.
- `text`: is a line lost on its way to a chunk (`TextChunked`, `GroupsCover`), are
  columns read in order (`ReadingOrder`), do headers of odd or even pages go
  (`HeadersGone`), are tables and charts where they belong and whole (`TablesInPlace`,
  `ChartsTravelWhole`)? That nothing stops short is the deadlock check of this run.
- `evaluation`: after a human action no task touches the row (`HumanIsFinal`), a
  correction leaves it completed whatever the judge does around it
  (`CorrectedIsCompleted`), `original_scores` is exactly what the judge had stored, except
  that a request which loaded the row before the judge stored its scores loses them
  (`BaselineIsTheJudges`; that case contradicts a comment, see below), a completed row has every score (`CompletedIsScored`), a task that
  returns has settled the row or found a human's hand on it (`ReturnedRunSettles`),
  and every answer is evaluated (`AnswerIsEvaluated`).
- `graph`: is one version active, the newest (`ActiveIsNewest`), does a sweep that began
  under an older version leave a chunk behind for good (`OutdatedIsReset`,
  `ExtractionCatchesUp`), do mention counts survive repeated extraction (`MentionsExact`), do
  the stores agree without faults (`StoresAgree`) and recover after them (`NodesCatchUp`), and
  has Neo4j all that Postgres has from the end of a backfill to the next fault, retired
  chunks too, whatever is extracted meanwhile (`BackfillRepairs`)? It has, but for relations one of whose
  ends goes by two ids, which the backfill does not repair (`graph_edges`).
- `domain`: what can make a deletion fail (`DeleteFailsOnlyOnGoldenLogs`), what remains when
  it has succeeded (`GoneMeansGone`, `StoresAreEmptied`), what a failed one has
  destroyed (`ActiveHasItsStores`), and does the domain go in the end (`ArchivedGoes`)?
- `api`: does every change of rights come from a request that was entitled to it
  (`ChangesAreEntitled`), does an archived domain take roles (`ArchivedTakesNoRoles`: only
  from an assignment for that user and domain that was under way while it was
  active), does an assignment write what it names and nothing else, and does it
  hold when nobody crosses it (`AssignedRoleHolds`), can one
  administrator leave the platform without any (`NobodyLocksThePlatform`), does a policy update
  survive the race for the first row (`PolicyUpdateHolds`), do tokens live as long as
  the policy said (`TokenLifetimeWasInForce`), and does an answer contain anything its asker
  could not read (`AnswersKeepToPermissions`)?

Every module also states its `TypeOK`. The runs `ingestion` and `evaluation` check theirs, which
the proofs use; those of `KnowledgeGraph`, `DomainDeletion` and `DocumentChunks` are theorems, and those of
the other modules hold in the same instances.

Bounds. Two documents suffice for the fan-out of a re-index to be interrupted by
a task of another document; with two edits (369,657 states) nothing changes. One fault,
because a fault only removes a task or a request: its victims are recorded and the
properties speak of the others. The ingestion queue is not bounded: it is finite because
uploads, edits and fan-outs are. Pages of five rows in two columns give every relation of
two bands around a spanning line; four pages are the first with a header threshold that odd
pages alone can reach; nine paragraphs and values up to five cover every relation
between stride, group and rest. Two administrators give every pair of conflicting human
commits with one judge. Two chunks share an entity and exchange a relation between two
versions, so that a re-extraction adds, keeps and leaves links. In `domain` every
table without a reference of its own behaves as another in the list, so one of each kind is
there; one write is enough to come before or after each statement. In `api` two requests
are every pair of operations that touch the same rows; larger instances of
`Administration` (up to 5.4 million states) showed nothing more. Slots
and queries are symmetric; these two runs check safety only.

`CHECK_DEADLOCK FALSE` in every configuration but `text.cfg`: after the last upload,
edit, review or query the system rests.

Fairness. `ingestion`: weak fairness of each worker's next step (Celery keeps taking
tasks and a task runs to its end) and of the steps of a request that has begun.
`evaluation`: of the publish after the query log's commit and of each judge task.
`graph`: of the schedule, of the worker, and of the publish of a request that has
committed. `domain`: of the steps of a deletion, and of asking for it again: an
administrator who gives up leaves the domain archived. None for uploads, edits,
activations, reviews, faults or crashes.

### What depends on the deployment

`docker-compose.yml:111-123` sets `--concurrency=1` and gives memory as its only
reason. With two workers `OneGenerationServed` and `FreshOrRefreshing` fail (two
chunkings of one document overlap: both generations stay active, or the older one wins), and
with them `ImplementsLifecycle`; `ReadyIsServed` and `NothingStranded` still hold.
Correctness, not only memory, rests on that setting. Set `Workers = {w1, w2}` and
`Docs = {d1}` in `ingestion.cfg` to see it.

Likewise `CorrectedIsCompleted` and `BaselineIsTheJudges` need a judge task that is delivered
once: with two, the second may store "failed" between a human's load of a
completed row and its commit.

### Disagreements between code and its comments

| Run | What happens |
|---|---|
| `ingestion_continuous` | `pipeline.py:54-56` promises "one continuous async pipeline with no manual trigger needed". If a request creates the domain's default configuration between the worker's SELECT and INSERT (`chunking/service.py:21-29`), the task fails on the unique key, the error is swallowed and the document stays "indexing"; re-indexing selects ready documents only. `auth/service.py:108-113` handles the same race by reading the winner's row. |
| `config_concurrent` | `chunking/models.py:28-30` says the service guarantees overlap < group size. Two concurrent valid edits each store one column and break it; `group_paragraphs` then raises for every text of the domain. |
| `evaluation_terminal` | `pipeline.py:186-187` and `enums.py:76-78` say a row is never left pending. `set_evaluation_verdict` signs a pending row without a status, and the judge then leaves it alone. |
| `graph_edges` | `extraction/service.py:133-136` says a failed write lags "until the next re-extraction". After a rolled-back chunk Neo4j keeps a node under an id Postgres never kept; `_UPSERT_EDGE` matches nodes by id and finds nothing from then on, without an error. |
| `domain_golden` | `domains/service.py:87-89` says every table is cleared "in dependency order". The query logs of golden items are deleted through a session without autoflush, hence after the items they refer to: a domain whose golden items were run can never be deleted, after its files and its graph have gone. |
| `api_scores` | `retrieval/router.py:52-53` blends in the graph match strength of a query. `setdefault` writes it into a document of the cached text index, and later queries over the same domains are answered with it. |

One more has no run of its own. `entities/evaluation_result.py:18-19` says of `original_scores` that it
"preserves the judge's own call underneath it". `_snapshot_original_scores_once`
(`evaluation/service.py:278-291`) copies the loaded object: when the judge stores its scores between a
human's load and commit, the snapshot is empty, an override then replaces the scores, and
the judge's call is nowhere. Without its last disjunct `BaselineIsTheJudges` fails in
`evaluation.cfg`, in nine states: a request loads the pending row, the judge records its scores, the request
commits.

Seen while modelling, without a run, since the repository says nothing against it or its tests agree with it:

- Two concurrent overrides may mix their scores.
- A request that passed the archived check may write after the archive.
- An assignment that found the user without a role inserts one when it commits, also when another
  request has granted and revoked that role in between: a revocation does not hold against an assignment under
  way. One that had loaded the row fails instead, as its UPDATE finds nothing (`UpdateRole`). Of two
  assignments that cross, the later may leave the other's role, since it writes only what differs from what it loaded.
- A deletion that fails after the files were removed leaves an archived domain's documents without them, until
  it is asked for again and succeeds.
- A domain's last administrator can be revoked; two platform administrators can demote each
  other at the same moment.
- `retrieval/controller.py:35-37` says domains the user cannot read are silently dropped from a query.
  `authz/service.py:39-41` refuses the whole query (`CheckRole`), as `tests/test_authz_retrieval.py:24-36` expects:
  the comment is out of date.
- The graph retriever answers chunks that were re-chunked away (no `is_active` there); the index
  cache does so until its entry expires, which its comment accepts.
- On a page of two columns, prose level with a table of the other column is taken for the table's
  own text and dropped, and text of the right column above a table follows it.

## 4. Proofs

| Theorem | States | Module |
|---|---|---|
| `TypeCorrect` | `IngestionPipeline`: `Spec => []TypeOK`, for any set of workers | `IngestionPipeline_proofs` |
| `OneGenerationCorrect` | `Spec => []OneGenerationServed` | `IngestionPipeline_proofs` |
| `NoOlderGenerationCorrect` | `Spec => NoOlderGeneration` | `IngestionPipeline_proofs` |
| `ReadyStaysCorrect` | `Spec => ReadyStays` | `IngestionLifecycle_proofs` |
| `ReadyIsServedCorrect` | `Spec => []ReadyIsServed` | `IngestionLifecycle_proofs` |
| `NothingStrandedCorrect` | `Spec => []NothingStranded`, for any set of workers | `IngestionLifecycle_proofs` |
| `FreshOrRefreshingCorrect` | `Spec => []FreshOrRefreshing` | `IngestionLifecycle_proofs` |
| `LifecycleImplemented` | `Spec => ImplementsLifecycle` | `IngestionLifecycle_proofs` |
| `TypeCorrect`, `TextChunkedCorrect`, `HeadersGoneCorrect`, `TablesInPlaceCorrect`, `ChartsTravelWholeCorrect`, `GroupsCoverCorrect`, `ReadingOrderCorrect` | `DocumentChunks`: `Spec => []...` | `DocumentChunks_proofs` |
| `TypeCorrect` | `EvaluationReview`: `Spec => []TypeOK` | `EvaluationReview_proofs` |
| `CompletedIsScoredCorrect`, `ReturnedRunSettlesCorrect` | `Spec => []...` | `EvaluationReview_proofs` |
| `HumanIsFinalCorrect` | `Spec => HumanIsFinal` | `EvaluationReview_proofs` |
| `CorrectedIsCompletedCorrect`, `BaselineIsTheJudgesCorrect` | the same, for a task delivered once | `EvaluationReview_proofs` |
| `OneRolePerUserCorrect`, `PolicyIsSingleCorrect`, `TokenLifetimeWasInForceCorrect` | `QueryApi`: `Spec => []...` | `QueryApi_proofs` |
| `ChangesAreEntitledCorrect`, `AssignedRoleHoldsCorrect`, `ArchivedTakesNoRolesCorrect`, `NobodyLocksThePlatformCorrect`, `PolicyUpdateHoldsCorrect` | `Spec => ...` | `QueryApi_proofs` |
| `AnswersKeepToPermissionsCorrect`, `CacheIsByDomainsCorrect`, `JudgedIsLoggedCorrect` | `Spec => []...` | `QueryApi_proofs` |
| `TypeCorrect`, `ActiveIsNewestCorrect`, `OutdatedIsResetCorrect`, `MentionsExactCorrect`, `StoresAgreeCorrect`, `NodesCatchUpCorrect`, `BackfillRepairsCorrect` | `KnowledgeGraph`: `Spec => []...` | `KnowledgeGraph_proofs` |
| `TypeCorrect`, `DeleteFailsOnlyOnGoldenLogsCorrect`, `GoneMeansGoneCorrect`, `ActiveHasItsStoresCorrect`, `StoresAreEmptiedCorrect` | `DomainDeletion`: `Spec => []...` | `DomainDeletion_proofs` |

Assumptions are those on the constants, named where they are declared:

- `ConstantsOK` (`NoDoc` is no document, bounds are naturals), `NullIsNoValue`, `NullIsNoRow` (a
  placeholder is not what it stands in for), `TtlsOK`, `RetrievalConstants`;
- `BeginningsOK`: the states to start from are states of the tables; `SlotsFinite`: finitely many
  requests at a time;
- `TablesOK`: the tables of an instance are among those of the database;
- `OutputOK`: what the extractor may find;
- `DocumentsOK`, `BoundsOK`: pages have finitely many runs and tables, at integer coordinates, no two
  runs at the same place and no two tables of a page starting at the same height; a table is on a page of
  the file, its lower edge not above its upper one; a configuration holds
  a positive number of paragraphs and a natural overlap;
- `ColumnsOK`: on a page in two columns no run is at the height of a full-width line, for the code leaves
  the order of the two to the file, and none without a width stands on the middle of the page, for it
  would be read in both columns.

Two more are about the deployment: `SingleWorker`, `\E w : Workers = {w}`, for the theorems of
the ingestion pipeline but `TypeCorrect` and `NothingStrandedCorrect`, and `SingleRun` for the last two of the
evaluation. Section 3 shows that they are needed.
The theorems of `QueryApi` hold for any finite number of requests, any users, domains, chunks and
queries, and any choice of `Beginnings`, hence without the bounds that keep the instance small;
those of `KnowledgeGraph` for any output of the extractor and any number of chunks, versions and faults; those of
`DomainDeletion` for any choice of tables and any number of racing writes; those of `DocumentChunks`
for documents of any number and size.

None of these properties is inductive by itself.

**Ingestion.** These invariants.

- `GenerationInv`. `SwapGeneration` retires only the generations the worker had seen, so
  while a worker is at "swap", what it saw must still be all there is (`SwapSawAll`).
  With one worker nobody else can append; a deletion empties the sequence and no row
  comes back (`GoneIsEmpty`).
- `OrderInv`. No generation is newer than the configuration, and what the worker is
  about to publish is at least as new as everything published (`JobIsNewest`). It
  read the newest configuration when it began, and only it appends.
- `StageInv`. A document that was never served is in one place of the pipeline only:
  its request, the queue or the worker, and its status says how far it has come
  (`Fits`). This is what keeps a second extraction from taking a ready document back to
  "processing", and it needs the extraction tasks in the queue to be distinct (`Once`).
- `CarriedInv`. Each transient status has what takes it further: "pending" an extraction task, the
  request that will publish it or a worker about to begin it; "processing" the worker that downloads or parses;
  "indexing" a chunking task or a worker that is to publish one or is at it. Whoever consumes one of these
  writes the next status or publishes the next task, or a fault is recorded. It holds for any number of workers.
- `StaleInv`, `FreshInv`. Every ready document that serves an outdated configuration, and every worker
  about to publish chunks of one, has a re-indexing to come: an edit publishes it after its commit, the
  queue is first in first out, and the single worker takes it only when it is through with what it is doing,
  so that the re-indexing finds the outdated document ready.
- `ContentsInv`, `DeletionInv`. A worker at "swap" holds a document with elements;
  `purging` happens on an archived domain only; a deleted domain has no configuration.

`LifecycleImplemented` then maps each step: `InsertDocument` to `Accept`, every creation or
edit of the configuration to `Configure`, `ExtractionFails` to `Fail`, `NothingToChunk` to
`ServeEmpty` or a stutter, `SwapGeneration` to `Serve` or `Refresh`, `DeleteRows` to
`Drop`, and all other steps to stutters.

**Text.** `TextExtraction_proofs` first says what the operators return. The folds over lines, paragraphs,
tables and segments are unrolled once (`FoldRuns`): a fold goes through values from its base to its
result, each the step of the one before, and what every step keeps holds of the result. That is an
induction over the length of data; it is carried out on sets, by the least element of the set
of counterexamples (`Smallest`, from the well-foundedness of the naturals), for no prover here takes an
operator as a parameter. Sorting by `CHOOSE` of the element with k others before it is a
sequence of all elements because each has a rank of its own (`Ranked`, `Sorted`). On these rest the
statements about pages: `OrderReadsAll` (the reading order of one or two columns has every run of the page),
`ParagraphsHoldLines`, `FiguresTold` (blocks of prose and of figures, alternating), `PageSplitHolds` (a run is in a
segment or beside a table), `SegmentsRead`.

`ExtractionInv` then relates the state to the document: every line of the pages before `page` is blank, in a
running header, beside a table, in `elements` or in `buffer`; `elements` and `buffer` are made of wordings
and tables of the document, never of a header; and those of a native PDF are told apart, no two
figures next to each other, the last a table while pages are still read, since only a
table or the end of the file closes the buffer. `LoopInv`: the groups so far are those that start at multiples
of the stride, the position is that of the next, and no group but the last has reached the end.
`ChunkInv`: every line of the elements before `part` is in a chunk, and the last chunk is of the kind of the last
element, so that a figure never follows a figure. `HeadersGone` needs besides that 35% of the pages,
rounded as Python rounds, is at most every other one from four pages on (`RoundedIsLow`).

`TablesInPlace` is about order. `Up` relates a line to the tables it may precede, `Down` to those it may
follow: a line may precede a table if it occurs on an earlier page or above the table's top, and
anything may precede or follow a table of a page in columns or one that could not be split. A
sequence is `Arranged` when each of its elements `Follows` all before it in these relations and no table is in it
twice. `PageSplitArranged`: the segments of a page are, for in runs sorted by height the cut before a table
leaves the runs above its top on one side (`UpToCuts`) and the cuts move on from table to table (`TableCuts`).
`PlaceInv` then says that `elements`, the
buffer as the element it will become, and `chunks` are arranged, each table found so far in them. It is kept since what
was read on earlier pages may precede all of this one (`EarlierPagesFirst`), splitting text into figures and groups
leaves parts of it (`PartFollows`), and a page whose split fails only widens the relations
(`UpAndDownGrow`).

`ReadingOrder` is about any two lines. A line can be told only if it occurs once, so `InOrder` holds of two
wordings unless the second must stand before the first: both occur once, and on an earlier page or by
`ReadBefore` (column by column between two full-width lines, otherwise from top to bottom). `OrderInOrder`
shows that the fold of `order_page_text_objects` reads a page that way: it has read the bands of the lines
seen so far (`ReadUpTo`), a full-width line has every later line below it, and the two columns
of a band come after what is above them. `FlatConcat` (flattening two sequences joined is
joining them flattened) then takes the order through paragraphs, figures and segments, which all keep the lines
they are given in their order, so that `ReadInOrder` can say of `elements` and the buffer that their
lines stand pairwise in order; a table only leaves lines out. Chunks repeat lines where groups overlap,
so no such thing holds of them. What does is `ChunksInOrder`: the lines of the elements before `part` have been read
(`ReadTo`), and whenever a line is read, every line of the document that has to stand before it was
read before (`Closed`). A group keeps that (`ReadOn`) because it starts no later than where the last one ended,
and the first one starts with the first paragraph (`FromStart`). `PlaceOf` is the first chunk position of a
line, so two lines out of order there would make one read before the other it has to follow.

**Evaluation.** `ScoredInv`: whoever is about to write "completed" writes, or leaves in the row,
every score. `SettledInv`: a task that gets past its check finds a row that is terminal or
reviewed. `SingleRunInv`: with one delivery, what a human has loaded of the judge's columns is
what the row still says once the judge is done (`CompletionStays`), and for the scores (`BaselinesOfJudge`): a
loaded, unsigned row has the judge's scores as they are now, or its request is in `late` and has none.

**Requests.** `AccessInv` fixes the shape of requests and rows, and that an assignment writes to a
domain that exists. `SeenInv` relates each request's `pc` to what `watch` has recorded: past the
role check its caller was entitled, past the archived check the domain was open, and a request
that takes the flag of an administrator is not the target's own. `SessionInv` says the same of the
policy a request holds against the row that is stored, also after it lost the insert. `AssignInv`: no two
rows have one identifier, and an assignment that nobody has crossed still finds the row it loaded, or
still none, when it writes; a row with the identifier of a loaded one is always for the same user and domain,
since an identifier is not given out again while a request knows it (`LoadedKeyed`), which is why a crossed
assignment, too, writes for its own user and domain only; an identifier is free for a new row since there are more of them than rows
and requests, by counting.

**Queries.** `QueryInv`: the domains checked so far were all seen readable, and every passage a query
holds, through an index, a vector hit or a graph hit, is of a domain it asked for. An
index never changes its chunks, only the scores in it; a key of the cache leads to an index of those
domains; a crash that empties the cache drops everyone who holds an index. `LoggedInv`: a query
that enqueues has its log.

**Knowledge graph.** `VersionInv`: what an activation has read was active once, so a version that passes
the index is the successor of the newest. `ResetInv`: while a document is written with an older version
than the active one, a reset of its chunks is still to come. `View` is what the worker would commit, the
open transaction or else Postgres: `CountInv`, `LinkInv` and `AgreeInv` speak of it as of Postgres, and it
does not change at a commit. `AgreeInv` also needs that a row has an id exactly when it exists, for a MERGE
keeps the id that it finds. `CatchUpInv`: while no upsert of a chunk has failed, each of its entities has the chunk in
Neo4j or is still to be written; chunk lists there only grow.
`RepairInv` says of `View` what `BackfillRepairs` says of Postgres: an upsert after the
backfill writes to both, a failed one is a fault, and while the edges are replayed the nodes are all there
already. It needs `KeyInv`: a new id is above every id of that entity in either store, so that writing an entity may
part its two ids but never make two that differ agree, and no relation that was left out because of them is
promised later.

**Deletion.** `LogsInv`: past its list of the query logs, a deletion knows every log or it was answered
later; no statement touches a log, and one that comes back to a deleted table is in `late`. `StoresInv`: a
file has its row, and both stores are empty once the deletion has passed them, unless `leftover`
says why not. Both rest on `StepInv`: a deletion under way is of an archived domain.
`UndisturbedInv`: while nothing has been written, every table the deletion has passed is empty of the
domain's rows in its transaction. `ClosedInv`: a row's references lead to rows, which `TypeCorrect` states of the
database. A statement fails on rows that refer to its own, and `DependencyOrder` finds every table that may
hold such rows among those already passed, except the logs of golden items.

Every invariant and action property of the passing runs is proved. `TypeOK` of `QueryApi` documents the shape
of its state and has no theorem: what the proofs use of that shape is part of `AccessInv`, `AssignInv`,
`SessionInv` and `QueryInv`. `IngestionConfig` has no proofs, since its one property fails. Liveness (`UploadSettles`, `EditReachesChunks`, `AnswerIsEvaluated`, `ExtractionCatchesUp`,
`ArchivedGoes`) stays with TLC: the prover does not handle ENABLED and fairness. What the
CHOOSE-defined folds compute is proved only as far as their steps determine it, for induction over data
goes through sets of counterexamples.

## 5. Plan

1. `GoldenRegression`: the regression task over golden items against the deletion of items and
   the judge tasks it dispatches.

## 6. Not modelled

- Golden items and their regression run, the dashboard, the moderation queue and the flags they
  filter on; the edits of the evaluation and retrieval configurations, whose stored columns mix as
  those of `IngestionConfig` do.
- The arithmetic of fusion weights and confidence, the choice of the model by keyword, entity
  recognition in a question.
- The embedding, OCR, extraction and judge models and the PDF, DOCX, SAML and OIDC libraries
  (external, pure or opaque); hashing of passwords and encoding of tokens.
- The frontend (a client without state the server relies on), migrations (run once, before the
  program), logging, settings, error texts, the request limiter.
