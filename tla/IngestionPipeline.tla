------------------------- MODULE IngestionPipeline -------------------------
(***************************************************************************)
(* The path of an uploaded file from the HTTP request to served chunks:    *)
(* ingestion/service.py and chunking/service.py, the Celery tasks of       *)
(* tasks/pipeline.py that chain them, and the calls of domains/service.py  *)
(* that freeze or drop the domain meanwhile.  One domain; API handlers and *)
(* workers interleave at every commit, publish and external call.          *)
(*                                                                         *)
(* Postgres runs at READ COMMITTED, so a handler's reads may be stale by   *)
(* the time it commits.  Redis delivers tasks in order and a worker        *)
(* acknowledges a task when it takes it, so a task dies with its worker.   *)
(***************************************************************************)
EXTENDS Integers, Sequences

CONSTANTS
    Docs,        \* documents that may be uploaded to the domain
    Workers,     \* Celery worker processes (docker-compose runs one)
    Admins,      \* API requests that may edit the ingestion configuration
    NoDoc,       \* stands for "no document" in tasks and jobs
    MaxRevision, \* bound: configuration edits
    MaxFaults    \* bound: crashes and raised errors of external systems

ASSUME ConstantsOK ==
    /\ NoDoc \notin Docs
    /\ MaxRevision \in Nat
    /\ MaxFaults \in Nat

VARIABLES
    domain,    \* "active", "archived" or "deleted"
    purging,   \* delete_domain has emptied the object store, not yet committed
    config,    \* revision of the domain's ingestion configuration row
    upload,    \* where the create_document request of each document stands
    edit,      \* where the update_ingestion_config request of each admin stands
    objects,   \* documents whose raw file is in MinIO
    status,    \* documents.status, "absent" without a row
    elements,  \* documents.elements_extracted, as far as chunking depends on it
    chunks,    \* chunk generations of each document, oldest first
    queue,     \* the Celery queue in Redis
    job,       \* what each worker is doing, with what it has read so far
    \* observation only: no action reads these, except the bound on faults
    stranded,  \* documents whose own task chain was cut before "ready"
    outdated,  \* documents for which a re-chunking was cut
    faults     \* crashes and errors so far

requestVars == <<domain, purging, upload, edit, objects>>
rowVars     == <<config, status, elements, chunks>>
watchVars   == <<stranded, outdated, faults>>
vars == <<requestVars, rowVars, queue, job, watchVars>>

----------------------------------------------------------------------------
(* Values.                                                                 *)

NoRow     == -1                      \* the domain has no configuration row
Revisions == 0 .. MaxRevision        \* 0: the default row, n: after n edits
Statuses  == {"absent", "pending", "processing", "indexing", "ready", "failed"}
DocPhases == {"extract", "download", "parse", "chain",
              "chunk", "newconfig", "embed", "swap"}
Phases    == DocPhases \cup {"idle", "reindex", "fanout"}

Generation == [rev : Revisions, active : BOOLEAN]
Task == [kind : {"extract", "chunk"}, doc : Docs] \cup [kind : {"reindex"}, doc : {NoDoc}]
Job  == [pc : DocPhases, doc : Docs, rev : Revisions, seen : Nat, todo : SUBSET Docs]
        \cup [pc : Phases \ DocPhases, doc : {NoDoc}, rev : Revisions,
              seen : Nat, todo : SUBSET Docs]

(* Mutation: the task is published without its document.                   *)
ExtractTaskWithoutDocument(d) == [kind |-> "extract", doc |-> NoDoc]
ExtractTask(d) == [kind |-> "extract", doc |-> d]
ChunkTask(d)   == [kind |-> "chunk",   doc |-> d]
ReindexTask    == [kind |-> "reindex", doc |-> NoDoc]
Started(task)  == [pc |-> task.kind, doc |-> task.doc, rev |-> 0, seen |-> 0, todo |-> {}]
IdleJob        == [pc |-> "idle", doc |-> NoDoc, rev |-> 0, seen |-> 0, todo |-> {}]

HasRow(d) == status[d] # "absent"
(* Mutation: the reindex task selects by the wrong status.                 *)
ReadyIsIndexing == {d \in Docs : status[d] = "indexing"}
(* Mutation: the reindex task selects every document of the domain.        *)
ReadyIsEverything == {d \in Docs : status[d] # "absent"}
Ready     == {d \in Docs : status[d] = "ready"}

Init ==
    /\ domain = "active" /\ purging = FALSE
    /\ config = NoRow
    /\ upload = [d \in Docs |-> "idle"]
    /\ edit = [a \in Admins |-> "idle"]
    /\ objects = {}
    /\ status = [d \in Docs |-> "absent"]
    /\ elements = [d \in Docs |-> "none"]
    /\ chunks = [d \in Docs |-> <<>>]
    /\ queue = <<>>
    /\ job = [w \in Workers |-> IdleJob]
    /\ stranded = {} /\ outdated = {} /\ faults = 0

Publish(task) == queue' = Append(queue, task)   \* <task>.delay(...)

Fault == faults < MaxFaults /\ faults' = faults + 1

----------------------------------------------------------------------------
(* POST /domains/{id}/documents: create_document.                          *)

(* The archived check, then the raw file goes to the object store.         *)
StoreFile(d) ==
    /\ upload[d] = "idle" /\ domain = "active"
    /\ upload' = [upload EXCEPT ![d] = "stored"]
    /\ objects' = objects \cup {d}
    /\ UNCHANGED <<domain, purging, edit, rowVars, queue, job, watchVars>>

InsertDocument(d) ==
    /\ upload[d] = "stored" /\ domain # "deleted"
    /\ upload' = [upload EXCEPT ![d] = "inserted"]
    /\ status' = [status EXCEPT ![d] = "pending"]
    /\ UNCHANGED <<domain, purging, edit, objects, config, elements, chunks,
                   queue, job, watchVars>>

(* The domain row is gone: the foreign key rejects the insert, and the     *)
(* file stays in the object store.                                         *)
InsertRejected(d) ==
    /\ upload[d] = "stored" /\ domain = "deleted"
    /\ upload' = [upload EXCEPT ![d] = "done"]
    /\ UNCHANGED <<domain, purging, edit, objects, rowVars, queue, job, watchVars>>

EnqueueExtraction(d) ==
    /\ upload[d] = "inserted"
    /\ upload' = [upload EXCEPT ![d] = "done"]
    /\ Publish(ExtractTask(d))
    /\ UNCHANGED <<domain, purging, edit, objects, rowVars, job, watchVars>>

(* The API process dies, or the broker refuses the publish.                *)
UploadDies(d) ==
    /\ upload[d] \in {"stored", "inserted"}
    /\ Fault
    /\ upload' = [upload EXCEPT ![d] = "done"]
    /\ stranded' = IF HasRow(d) THEN stranded \cup {d} ELSE stranded
    /\ UNCHANGED <<domain, purging, edit, objects, rowVars, queue, job, outdated>>

----------------------------------------------------------------------------
(* GET and PUT /domains/{id}/ingestion-config.                             *)

(* get_or_create_ingestion_config called by a request: the default row is  *)
(* created on first use.  Losing a race for the insert is an error of that *)
(* request and changes nothing.                                            *)
CreateDefaultConfig ==
    /\ config = NoRow /\ domain # "deleted"
    /\ config' = 0
    /\ UNCHANGED <<requestVars, status, elements, chunks, queue, job, watchVars>>

BeginEdit(a) ==
    /\ edit[a] = "idle" /\ domain = "active"
    /\ edit' = [edit EXCEPT ![a] = "checked"]
    /\ UNCHANGED <<domain, purging, upload, objects, rowVars, queue, job, watchVars>>

CommitEdit(a) ==
    /\ edit[a] = "checked"
    /\ config # NoRow /\ config < MaxRevision
    /\ edit' = [edit EXCEPT ![a] = "committed"]
    /\ config' = config + 1
    /\ UNCHANGED <<domain, purging, upload, objects, status, elements, chunks,
                   queue, job, watchVars>>

EditRejected(a) ==
    /\ edit[a] = "checked" /\ domain = "deleted"
    /\ edit' = [edit EXCEPT ![a] = "idle"]
    /\ UNCHANGED <<domain, purging, upload, objects, rowVars, queue, job, watchVars>>

EnqueueReindex(a) ==
    /\ edit[a] = "committed"
    /\ edit' = [edit EXCEPT ![a] = "idle"]
    /\ Publish(ReindexTask)
    /\ UNCHANGED <<domain, purging, upload, objects, rowVars, job, watchVars>>

EditDies(a) ==
    /\ edit[a] = "committed"
    /\ Fault
    /\ edit' = [edit EXCEPT ![a] = "idle"]
    /\ outdated' = outdated \cup {d \in Docs : status[d] \in {"indexing", "ready"}}
    /\ UNCHANGED <<domain, purging, upload, objects, rowVars, queue, job, stranded>>

----------------------------------------------------------------------------
(* PATCH .../archive and DELETE /domains/{id}.                             *)

ArchiveDomain ==
    /\ domain = "active"
    /\ domain' = "archived"
    /\ UNCHANGED <<purging, upload, edit, objects, rowVars, queue, job, watchVars>>

(* delete_domain first removes the file of every document it lists ...     *)
PurgeObjects ==
    /\ domain = "archived" /\ ~purging
    /\ purging' = TRUE
    /\ objects' = {d \in objects : ~HasRow(d)}
    /\ UNCHANGED <<domain, upload, edit, rowVars, queue, job, watchVars>>

(* ... then every row of the domain, in one transaction ...                *)
DeleteRows ==
    /\ purging
    /\ purging' = FALSE
    /\ domain' = "deleted"
    /\ config' = NoRow
    /\ status' = [d \in Docs |-> "absent"]
    /\ elements' = [d \in Docs |-> "none"]
    /\ chunks' = [d \in Docs |-> <<>>]
    /\ UNCHANGED <<upload, edit, objects, queue, job, watchVars>>

(* ... which a foreign key or the database may reject as a whole.          *)
DeleteAborts ==
    /\ purging
    /\ purging' = FALSE
    /\ UNCHANGED <<domain, upload, edit, objects, rowVars, queue, job, watchVars>>

----------------------------------------------------------------------------
(* The Celery worker.                                                      *)

At(w, phase)      == job[w].pc = phase
Goto(w, phase)    == job' = [job EXCEPT ![w].pc = phase]
Finish(w)         == job' = [job EXCEPT ![w] = IdleJob]
Doc(w)            == job[w].doc

Take(w) ==
    /\ At(w, "idle") /\ queue # <<>>
    /\ queue' = Tail(queue)
    /\ job' = [job EXCEPT ![w] = Started(Head(queue))]
    /\ UNCHANGED <<requestVars, rowVars, watchVars>>

(* The document was deleted before or during the task: the lookup returns  *)
(* None, or the UPDATE matches no row and the task ends with an exception. *)
DocumentVanished(w) ==
    /\ job[w].pc \in {"extract", "download", "parse", "chunk", "embed", "swap"}
    /\ ~HasRow(Doc(w))
    /\ Finish(w)
    /\ UNCHANGED <<requestVars, rowVars, queue, watchVars>>

(* process_document_text_extraction, one step per commit and external call *)
MarkProcessing(w) ==
    /\ At(w, "extract") /\ HasRow(Doc(w))
    /\ status' = [status EXCEPT ![Doc(w)] = "processing"]
    /\ Goto(w, "download")
    /\ UNCHANGED <<requestVars, config, elements, chunks, queue, watchVars>>

Download(w) ==
    /\ At(w, "download") /\ HasRow(Doc(w))
    /\ Doc(w) \in objects
    /\ Goto(w, "parse")
    /\ UNCHANGED <<requestVars, rowVars, queue, watchVars>>

CommitExtraction(w) ==
    /\ At(w, "parse") /\ HasRow(Doc(w))
    /\ status' = [status EXCEPT ![Doc(w)] = "indexing"]
    /\ \E content \in {"empty", "some"} :
          elements' = [elements EXCEPT ![Doc(w)] = content]
    /\ Goto(w, "chain")
    /\ UNCHANGED <<requestVars, config, chunks, queue, watchVars>>

(* Any exception, of the object store or of the parser.                    *)
ExtractionFails(w) ==
    /\ job[w].pc \in {"download", "parse"} /\ HasRow(Doc(w))
    /\ status' = [status EXCEPT ![Doc(w)] = "failed"]
    /\ Finish(w)
    /\ UNCHANGED <<requestVars, config, elements, chunks, queue, watchVars>>

(* Mutation: the second stage is chained on "ready" instead of "indexing". *)
ChainChunkingOnReady(w) ==
    /\ At(w, "chain")
    /\ IF status[Doc(w)] = "ready" THEN Publish(ChunkTask(Doc(w))) ELSE UNCHANGED queue
    /\ Finish(w)
    /\ UNCHANGED <<requestVars, rowVars, watchVars>>

(* extract_text_task reads the status back and chains the second stage.    *)
ChainChunking(w) ==
    /\ At(w, "chain")
    /\ IF status[Doc(w)] = "indexing" THEN Publish(ChunkTask(Doc(w)))
                                      ELSE UNCHANGED queue
    /\ Finish(w)
    /\ UNCHANGED <<requestVars, rowVars, watchVars>>

(* Mutation: the worker keeps the first configuration it ever saw.         *)
ReadConfigCached(w) ==
    /\ At(w, "chunk") /\ HasRow(Doc(w))
    /\ job' = [job EXCEPT ![w].pc = "embed", ![w].rev = 0]
    /\ UNCHANGED <<requestVars, rowVars, queue, watchVars>>

(* process_chunk_and_embed reads the configuration ...                     *)
ReadConfig(w) ==
    /\ At(w, "chunk") /\ HasRow(Doc(w))
    /\ IF config = NoRow
       THEN Goto(w, "newconfig")
       ELSE job' = [job EXCEPT ![w].pc = "embed", ![w].rev = config]
    /\ UNCHANGED <<requestVars, rowVars, queue, watchVars>>

(* ... or inserts the default row it did not see ...                       *)
InsertConfig(w) ==
    /\ At(w, "newconfig") /\ config = NoRow /\ domain # "deleted"
    /\ config' = 0
    /\ job' = [job EXCEPT ![w].pc = "embed", ![w].rev = 0]
    /\ UNCHANGED <<requestVars, status, elements, chunks, queue, watchVars>>

(* What a task that ends here leaves undone, by the state of the document. *)
CutDocs(w) == IF At(w, "reindex") THEN Ready
              ELSE IF At(w, "fanout") THEN job[w].todo
              ELSE {Doc(w)}

CutShort(w) ==
    /\ stranded' = stranded \cup
          {d \in CutDocs(w) : status[d] \in {"pending", "processing", "indexing"}}
    /\ outdated' = outdated \cup {d \in CutDocs(w) : status[d] = "ready"}

(* ... unless a request inserted it in between (unique domain_id) or the   *)
(* domain went away (foreign key): process_chunk_and_embed logs the error, *)
(* rolls back and leaves the document as it was.                           *)
InsertConfigFails(w) ==
    /\ At(w, "newconfig") /\ (config # NoRow \/ domain = "deleted")
    /\ CutShort(w)
    /\ Finish(w)
    /\ UNCHANGED <<requestVars, rowVars, queue, faults>>

(* Mutation: every document is taken for an empty one.                     *)
NothingToChunkEver(w) ==
    /\ At(w, "embed") /\ HasRow(Doc(w))
    /\ status' = [status EXCEPT ![Doc(w)] = "ready"]
    /\ Finish(w)
    /\ UNCHANGED <<requestVars, config, elements, chunks, queue, watchVars>>

(* A document without any element has no chunks and is ready at once.      *)
NothingToChunk(w) ==
    /\ At(w, "embed") /\ HasRow(Doc(w))
    /\ elements[Doc(w)] # "some"
    /\ status' = [status EXCEPT ![Doc(w)] = "ready"]
    /\ Finish(w)
    /\ UNCHANGED <<requestVars, config, elements, chunks, queue, watchVars>>

(* After embedding, the UPDATE that retires the active chunks sees the     *)
(* generations committed so far; those of a later commit escape it.        *)
RetireOld(w) ==
    /\ At(w, "embed") /\ HasRow(Doc(w))
    /\ elements[Doc(w)] = "some"
    /\ job' = [job EXCEPT ![w].pc = "swap", ![w].seen = Len(chunks[Doc(w)])]
    /\ UNCHANGED <<requestVars, rowVars, queue, watchVars>>

(* Mutation: the old generation is not retired.                            *)
RetiredNever(gens, n) == gens

Retired(gens, n) ==
    [i \in DOMAIN gens |-> [rev |-> gens[i].rev, active |-> gens[i].active /\ i > n]]

(* One commit retires the old generation and publishes the new one.        *)
SwapGeneration(w) ==
    /\ At(w, "swap") /\ HasRow(Doc(w))
    /\ chunks' = [chunks EXCEPT ![Doc(w)] =
          Append(Retired(@, job[w].seen), [rev |-> job[w].rev, active |-> TRUE])]
    /\ status' = [status EXCEPT ![Doc(w)] = "ready"]
    /\ outdated' = IF job[w].rev = config THEN outdated \ {Doc(w)} ELSE outdated
    /\ Finish(w)
    /\ UNCHANGED <<requestVars, config, elements, queue, stranded, faults>>

(* The chunker, the embedder or the database raises: logged, rolled back.  *)
ChunkingFails(w) ==
    /\ job[w].pc \in {"embed", "swap"} /\ HasRow(Doc(w))
    /\ Fault
    /\ CutShort(w)
    /\ Finish(w)
    /\ UNCHANGED <<requestVars, rowVars, queue>>

(* reindex_domain_chunks_task: the ready documents, then one task for each *)
ListReady(w) ==
    /\ At(w, "reindex")
    /\ job' = [job EXCEPT ![w].pc = "fanout", ![w].todo = Ready]
    /\ UNCHANGED <<requestVars, rowVars, queue, watchVars>>

FanOut(w) ==
    /\ At(w, "fanout")
    /\ \/ \E d \in job[w].todo :
             /\ Publish(ChunkTask(d))
             /\ job' = [job EXCEPT ![w].todo = @ \ {d}]
       \/ job[w].todo = {} /\ Finish(w) /\ UNCHANGED queue
    /\ UNCHANGED <<requestVars, rowVars, watchVars>>

(* The worker process dies; its task was acknowledged when it was taken.   *)
WorkerCrash(w) ==
    /\ ~At(w, "idle")
    /\ Fault
    /\ CutShort(w)
    /\ Finish(w)
    /\ UNCHANGED <<requestVars, rowVars, queue>>

----------------------------------------------------------------------------
(* The specification.                                                      *)

Work(w) ==
    \/ Take(w) \/ DocumentVanished(w)
    \/ MarkProcessing(w) \/ Download(w) \/ CommitExtraction(w)
    \/ ExtractionFails(w) \/ ChainChunking(w)
    \/ ReadConfig(w) \/ InsertConfig(w) \/ InsertConfigFails(w)
    \/ NothingToChunk(w) \/ RetireOld(w) \/ SwapGeneration(w)
    \/ ListReady(w) \/ FanOut(w)

Uploading(d) == StoreFile(d) \/ InsertDocument(d) \/ InsertRejected(d) \/ EnqueueExtraction(d)
Editing(a)   == BeginEdit(a) \/ CommitEdit(a) \/ EditRejected(a) \/ EnqueueReindex(a)

Next ==
    \/ \E d \in Docs : Uploading(d) \/ UploadDies(d)
    \/ \E a \in Admins : Editing(a) \/ EditDies(a)
    \/ CreateDefaultConfig
    \/ ArchiveDomain \/ PurgeObjects \/ DeleteRows \/ DeleteAborts
    \/ \E w \in Workers : Work(w) \/ ChunkingFails(w) \/ WorkerCrash(w)

(* A worker keeps taking and running tasks and a request that has started  *)
(* runs on.  Nothing obliges anyone to upload, edit, archive or delete,    *)
(* and nothing obliges a fault to happen.                                  *)
Fairness ==
    /\ \A w \in Workers : WF_vars(Work(w))
    /\ \A d \in Docs : WF_vars(InsertDocument(d) \/ InsertRejected(d) \/ EnqueueExtraction(d))
    /\ \A a \in Admins : WF_vars(CommitEdit(a) \/ EditRejected(a) \/ EnqueueReindex(a))

Spec     == Init /\ [][Next]_vars
FairSpec == Spec /\ Fairness

----------------------------------------------------------------------------
(* Properties.                                                             *)

(* The shape of the state: every row, task and job holds values the code   *)
(* can write.                                                              *)
TypeOK ==
    /\ domain \in {"active", "archived", "deleted"}
    /\ purging \in BOOLEAN
    /\ config \in Revisions \cup {NoRow}
    /\ upload \in [Docs -> {"idle", "stored", "inserted", "done"}]
    /\ edit \in [Admins -> {"idle", "checked", "committed"}]
    /\ objects \subseteq Docs
    /\ status \in [Docs -> Statuses]
    /\ elements \in [Docs -> {"none", "empty", "some"}]
    /\ chunks \in [Docs -> Seq(Generation)]
    /\ queue \in Seq(Task)
    /\ job \in [Workers -> Job]
    /\ stranded \subseteq Docs /\ outdated \subseteq Docs
    /\ faults \in 0 .. MaxFaults

Active(d) == {i \in DOMAIN chunks[d] : chunks[d][i].active}
Queued(task) == \E i \in DOMAIN queue : queue[i] = task

(* A ready document with content serves exactly one generation of chunks:  *)
(* never none while a re-chunking runs, fails or is cut by a crash, and    *)
(* never two.  A document that is not ready serves none.  Retrieval and    *)
(* list_chunks (chunking/service.py:59-69) filter on is_active alone.      *)
OneGenerationServed ==
    \A d \in Docs : \A i, j \in DOMAIN chunks[d] :
        chunks[d][i].active /\ chunks[d][j].active => i = j

ReadyIsServed ==
    \A d \in Docs : status[d] = "ready" /\ elements[d] = "some" <=> Active(d) # {}

(* Something will still move document d out of a transient status.         *)
Carried(d) ==
    \/ upload[d] = "inserted"
    \/ Queued(ExtractTask(d)) \/ Queued(ChunkTask(d))
    \/ \E w \in Workers : job[w].doc = d

(* A document whose row says "pending", "processing" or "indexing" has a   *)
(* task queued or running for it, unless its chain was cut: no hand-over   *)
(* from request to task to task drops a document (pipeline.py:45-70).      *)
NothingStranded ==
    \A d \in Docs :
        status[d] \in {"pending", "processing", "indexing"} /\ d \notin stranded
            => Carried(d)

(* Something will still chunk document d with the current configuration.   *)
ReindexPending == Queued(ReindexTask) \/ \E a \in Admins : edit[a] = "committed"

Refreshing(d) ==
    \/ ReindexPending \/ Queued(ChunkTask(d))
    \/ \E w \in Workers :
          \/ At(w, "reindex") \/ (At(w, "fanout") /\ d \in job[w].todo)
          \/ Doc(w) = d /\ \/ job[w].pc \in {"chunk", "newconfig"}
                           \/ job[w].pc \in {"embed", "swap"} /\ job[w].rev = config

ServedFresh(d) == \A i \in Active(d) : chunks[d][i].rev = config

(* No configuration edit is missed by a document: a ready document serves  *)
(* chunks built with the current configuration, or a re-chunking of it is  *)
(* on its way, unless one was cut.  The edit may land while the document   *)
(* is still being extracted or chunked, when reindex_domain_chunks_task    *)
(* does not list it (pipeline.py:129-133).                                 *)
FreshOrRefreshing ==
    \A d \in Docs :
        status[d] = "ready" /\ d \notin outdated => ServedFresh(d) \/ Refreshing(d)

(* Chunks of a later configuration are never replaced by those of an       *)
(* earlier one, whatever re-chunkings are queued or running.               *)
NoOlderGeneration ==
    [][\A d \in Docs : \A i \in Active(d) : \A j \in Active(d)' :
          chunks[d][i].rev <= chunks'[d][j].rev]_vars

(* A ready document stays ready until its domain is deleted: re-chunking,  *)
(* its failure and crashes never take a served document away.              *)
ReadyStays == [][\A d \in Ready : status'[d] \in {"ready", "absent"}]_vars

(* Every accepted upload reaches "ready" or "failed", or is deleted,       *)
(* unless its chain was cut.                                               *)
UploadSettles ==
    \A d \in Docs : status[d] = "pending" ~>
        status[d] \in {"ready", "failed", "absent"} \/ d \in stranded

(* Every edit of the configuration reaches every ready document in the     *)
(* end: a document does not serve outdated chunks for ever.                *)
EditReachesChunks ==
    \A d \in Docs : status[d] = "ready" /\ ~ServedFresh(d) ~>
        ServedFresh(d) \/ d \in outdated

(* The promise of pipeline.py:54-56, "upload -> extraction -> chunking ->  *)
(* embedding is one continuous async pipeline with no manual trigger       *)
(* needed", with no exception for a cut chain.                             *)
PipelineIsContinuous ==
    \A d \in Docs : status[d] = "pending" ~> status[d] \in {"ready", "failed", "absent"}

(* What a reader of the domain sees of the state.                          *)
Phase(s) == IF s \in {"pending", "processing", "indexing"} THEN "working"
            ELSE IF s = "ready" THEN "served" ELSE s

ShownPhase     == [d \in Docs |-> Phase(status[d])]
ShownRevisions == [d \in Docs |-> {chunks[d][i].rev : i \in Active(d)}]

Lifecycle == INSTANCE DocumentLifecycle WITH
    gone <- domain = "deleted", latest <- config,
    phase <- ShownPhase, serves <- ShownRevisions

(* No interleaving of requests, workers, faults and deletion shows readers *)
(* anything but steps of DocumentLifecycle: a settled document stays so,   *)
(* and what it serves is replaced as a whole, never by something older.    *)
ImplementsLifecycle == Lifecycle!Spec
=============================================================================
