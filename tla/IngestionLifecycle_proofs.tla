---------------------- MODULE IngestionLifecycle_proofs ----------------------
(***************************************************************************)
(* With a single worker IngestionPipeline implements DocumentLifecycle.    *)
(* The proof rests on where each document is: until it is first served it  *)
(* is in one place of the pipeline only, its request, the queue or the     *)
(* worker, and its status says how far it has come.                        *)
(***************************************************************************)
EXTENDS IngestionPipeline_proofs

Extracting == {"extract", "download", "parse", "chain"}
Chunking   == {"chunk", "newconfig", "embed", "swap"}

(* A document whose request stands at up, with status st; qe and qc say    *)
(* whether its two tasks are queued, pc is the phase of the worker, whose  *)
(* task is of this document (mine) or has it still to fan out (listed).    *)
Fits(up, st, qe, qc, pc, mine, listed) ==
    /\ up \in {"idle", "stored"} => st = "absent"
    /\ up = "inserted" => st \in {"pending", "absent"}
    /\ up # "done" => ~mine /\ ~listed /\ ~qe /\ ~qc
    /\ qe => st \in {"pending", "absent"} /\ ~mine /\ ~listed /\ ~qc
    /\ qc => st \in {"indexing", "ready", "absent"}
    /\ mine /\ pc = "extract" => st \in {"pending", "absent"}
    /\ mine /\ pc \in {"download", "parse"} => st \in {"processing", "absent"}
    /\ mine /\ pc = "chain" => st \in {"indexing", "absent"}
    /\ mine /\ pc \in Extracting => ~qc
    /\ mine /\ pc \in Chunking => st \in {"indexing", "ready", "absent"}
    /\ listed => pc = "fanout" /\ st \in {"ready", "absent"}

Holds(q, task) == \E k \in DOMAIN q : q[k] = task
Once(q) == \A k, l \in DOMAIN q : q[k] = q[l] /\ q[k].kind = "extract" => k = l

Place(d, w) == Fits(upload[d], status[d],
                    Holds(queue, ExtractTask(d)), Holds(queue, ChunkTask(d)),
                    job[w].pc, job[w].doc = d, d \in job[w].todo)

StageInv == Once(queue) /\ \A d \in Docs : \A w \in Workers : Place(d, w)

(* The queue: what publishing and taking a task does to its contents.      *)
LEMMA HoldsAppend ==
    ASSUME NEW q \in Seq(Task), NEW task \in Task
    PROVE  /\ \A u : Holds(Append(q, task), u) <=> Holds(q, u) \/ u = task
           /\ Once(q) /\ (task.kind = "extract" => ~Holds(q, task)) => Once(Append(q, task))
<1> DEFINE r == Append(q, task)
<1>1. /\ Len(q) \in Nat /\ DOMAIN q = 1 .. Len(q) /\ DOMAIN r = 1 .. Len(q) + 1
      /\ \A k \in 1 .. Len(q) : r[k] = q[k]
      /\ r[Len(q) + 1] = task
  OBVIOUS
<1> HIDE DEF r
<1>2. \A u : Holds(r, u) <=> Holds(q, u) \/ u = task
  BY <1>1 DEF Holds
<1>3. ASSUME Once(q), task.kind = "extract" => ~Holds(q, task) PROVE Once(r)
  <2> SUFFICES ASSUME NEW k \in 1 .. Len(q) + 1, NEW l \in 1 .. Len(q) + 1,
                      r[k] = r[l], r[k].kind = "extract"
               PROVE  k = l
    BY <1>1 DEF Once
  <2>1. CASE k \in 1 .. Len(q) /\ l \in 1 .. Len(q)
    BY <1>1, <1>3, <2>1 DEF Once
  <2>2. CASE k = Len(q) + 1 /\ l \in 1 .. Len(q)
    BY <1>1, <1>3, <2>2 DEF Holds
  <2>3. CASE l = Len(q) + 1 /\ k \in 1 .. Len(q)
    BY <1>1, <1>3, <2>3 DEF Holds
  <2> QED
    BY <1>1, <2>1, <2>2, <2>3
<1> QED
  BY <1>2, <1>3 DEF r

LEMMA HoldsTail ==
    ASSUME NEW q \in Seq(Task), q # <<>>
    PROVE  /\ Holds(q, Head(q))
           /\ \A u : Holds(Tail(q), u) => Holds(q, u)
           /\ Once(q) => Once(Tail(q))
           /\ Once(q) /\ Head(q).kind = "extract" => ~Holds(Tail(q), Head(q))
<1>1. /\ Len(q) \in Nat \ {0} /\ DOMAIN q = 1 .. Len(q) /\ Head(q) = q[1]
      /\ DOMAIN Tail(q) = 1 .. Len(q) - 1
      /\ \A k \in 1 .. Len(q) - 1 : Tail(q)[k] = q[k + 1]
  OBVIOUS
<1>2. \A k \in 1 .. Len(q) - 1 : k + 1 \in DOMAIN q
  BY <1>1
<1>3. Holds(q, Head(q))
  BY <1>1 DEF Holds
<1>4. \A u : Holds(Tail(q), u) => Holds(q, u)
  BY <1>1, <1>2 DEF Holds
<1>5. ASSUME Once(q) PROVE Once(Tail(q))
  <2> SUFFICES ASSUME NEW k \in 1 .. Len(q) - 1, NEW l \in 1 .. Len(q) - 1,
                      q[k + 1] = q[l + 1], q[k + 1].kind = "extract"
               PROVE  k = l
    BY <1>1 DEF Once
  <2>1. k + 1 = l + 1
    BY <1>2, <1>5 DEF Once
  <2> QED
    BY <1>1, <2>1
<1>6. ASSUME Once(q), Head(q).kind = "extract", Holds(Tail(q), Head(q)) PROVE FALSE
  <2>1. PICK k \in 1 .. Len(q) - 1 : q[k + 1] = q[1]
    BY <1>1, <1>6 DEF Holds
  <2>2. k + 1 = 1
    BY <1>1, <1>2, <1>6, <2>1 DEF Once
  <2> QED
    BY <1>1, <2>1, <2>2
<1> QED
  BY <1>3, <1>4, <1>5, <1>6

LEMMA TaskFacts ==
    /\ ReindexTask \in Task /\ ReindexTask.kind # "extract"
    /\ \A d \in Docs :
          /\ ExtractTask(d) \in Task /\ ExtractTask(d).kind = "extract"
          /\ ChunkTask(d) \in Task /\ ChunkTask(d).kind # "extract"
          /\ ExtractTask(d) # ReindexTask /\ ChunkTask(d) # ReindexTask
    /\ \A d, e \in Docs :
          /\ ExtractTask(d) # ChunkTask(e)
          /\ d # e => ExtractTask(d) # ExtractTask(e) /\ ChunkTask(d) # ChunkTask(e)
BY DEF ReindexTask, ExtractTask, ChunkTask, Task

LEMMA PublishAdds ==
    ASSUME TypeOK, Once(queue), NEW task \in Task, Publish(task),
           task.kind = "extract" => ~Holds(queue, task)
    PROVE  /\ Once(queue')
           /\ \A u : Holds(queue', u) <=> Holds(queue, u) \/ u = task
<1>1. queue \in Seq(Task) /\ queue' = Append(queue, task)
  BY DEF TypeOK, Publish
<1> QED
  BY <1>1, HoldsAppend

(* What a step of a request does to one document.                          *)
LEMMA StageRequest ==
    ASSUME SingleWorker, TypeOK, StageInv,
           \/ \E d \in Docs : Uploading(d) \/ UploadDies(d)
           \/ \E a \in Admins : Editing(a) \/ EditDies(a)
           \/ CreateDefaultConfig
           \/ ArchiveDomain \/ PurgeObjects \/ DeleteRows \/ DeleteAborts
    PROVE  StageInv'
<1>1. Once(queue) /\ \A e \in Docs : \A w \in Workers : Place(e, w)
  BY DEF StageInv
<1>2. upload \in [Docs -> {"idle", "stored", "inserted", "done"}] /\ status \in [Docs -> Statuses]
  BY DEF TypeOK
<1>3. ASSUME queue' = queue, job' = job, status' = status, upload' = upload PROVE StageInv'
  BY <1>1, <1>3 DEF StageInv, Place
<1>4. ASSUME NEW d \in Docs, queue' = queue, job' = job,
             upload' = [upload EXCEPT ![d] = upload'[d]], status' = [status EXCEPT ![d] = status'[d]],
             \/ upload[d] = "idle" /\ upload'[d] = "stored" /\ status'[d] = status[d]
             \/ upload[d] = "stored" /\ upload'[d] = "inserted" /\ status'[d] = "pending"
             \/ upload'[d] = "done" /\ status'[d] = status[d]
      PROVE  StageInv'
  <2> SUFFICES ASSUME NEW e \in Docs, NEW w \in Workers PROVE Place(e, w)'
    BY <1>1, <1>4 DEF StageInv
  <2>1. Place(e, w)
    BY <1>1
  <2>2. CASE e = d
    BY <1>4, <2>1, <2>2 DEF Place, Fits
  <2>3. CASE e # d
    <3>1. upload'[e] = upload[e] /\ status'[e] = status[e]
      BY <1>2, <1>4, <2>3
    <3> QED
      BY <1>4, <2>1, <3>1 DEF Place
  <2> QED
    BY <2>2, <2>3
<1>5. ASSUME NEW d \in Docs, StoreFile(d) PROVE StageInv'
  BY <1>2, <1>4, <1>5 DEF StoreFile, rowVars
<1>6. ASSUME NEW d \in Docs, InsertDocument(d) PROVE StageInv'
  BY <1>2, <1>4, <1>6 DEF InsertDocument
<1>7. ASSUME NEW d \in Docs, InsertRejected(d) \/ UploadDies(d) PROVE StageInv'
  BY <1>2, <1>4, <1>7 DEF InsertRejected, UploadDies, rowVars
<1>8. ASSUME NEW d \in Docs, EnqueueExtraction(d) PROVE StageInv'
  <2>1. /\ upload[d] = "inserted" /\ upload' = [upload EXCEPT ![d] = "done"]
        /\ Publish(ExtractTask(d)) /\ status' = status /\ job' = job
    BY <1>8 DEF EnqueueExtraction, rowVars
  <2>2. /\ Once(queue')
        /\ \A u : Holds(queue', u) <=> Holds(queue, u) \/ u = ExtractTask(d)
    <3>1. PICK w \in Workers : TRUE
      BY DEF SingleWorker
    <3>2. ~Holds(queue, ExtractTask(d))
      BY <1>1, <2>1, <3>1 DEF Place, Fits
    <3> QED
      BY <1>1, <2>1, <3>2, PublishAdds, TaskFacts
  <2> SUFFICES ASSUME NEW e \in Docs, NEW w \in Workers PROVE Place(e, w)'
    BY <2>2 DEF StageInv
  <2>3. Place(e, w)
    BY <1>1
  <2>4. CASE e = d
    <3>1. Holds(queue', ChunkTask(d)) <=> Holds(queue, ChunkTask(d))
      BY <2>2, TaskFacts
    <3> QED
      BY <1>2, <2>1, <2>3, <2>4, <3>1 DEF Place, Fits
  <2>5. CASE e # d
    <3>1. upload'[e] = upload[e] /\ status'[e] = status[e]
      BY <1>2, <2>1, <2>5
    <3>2. /\ Holds(queue', ChunkTask(e)) <=> Holds(queue, ChunkTask(e))
          /\ Holds(queue', ExtractTask(e)) <=> Holds(queue, ExtractTask(e))
      BY <2>2, <2>5, TaskFacts
    <3> QED
      BY <2>1, <2>3, <3>1, <3>2 DEF Place, Fits
  <2> QED
    BY <2>4, <2>5
<1>9. ASSUME NEW a \in Admins, EnqueueReindex(a) PROVE StageInv'
  <2>1. Publish(ReindexTask) /\ status' = status /\ job' = job /\ upload' = upload
    BY <1>9 DEF EnqueueReindex, rowVars
  <2>2. /\ Once(queue')
        /\ \A u : Holds(queue', u) <=> Holds(queue, u) \/ u = ReindexTask
    BY <1>1, <2>1, PublishAdds, TaskFacts
  <2>3. \A e \in Docs : /\ Holds(queue', ChunkTask(e)) <=> Holds(queue, ChunkTask(e))
                        /\ Holds(queue', ExtractTask(e)) <=> Holds(queue, ExtractTask(e))
    BY <2>2, TaskFacts
  <2> QED
    BY <1>1, <2>1, <2>2, <2>3 DEF StageInv, Place, Fits
<1>10. ASSUME NEW a \in Admins, BeginEdit(a) \/ CommitEdit(a) \/ EditRejected(a) \/ EditDies(a)
       PROVE  StageInv'
  BY <1>3, <1>10 DEF BeginEdit, CommitEdit, EditRejected, EditDies, rowVars
<1>11. CASE CreateDefaultConfig \/ ArchiveDomain \/ PurgeObjects \/ DeleteAborts
  BY <1>3, <1>11 DEF CreateDefaultConfig, ArchiveDomain, PurgeObjects, DeleteAborts,
                     requestVars, rowVars
<1>12. CASE DeleteRows
  <2>1. queue' = queue /\ job' = job /\ upload' = upload /\ \A e \in Docs : status'[e] = "absent"
    BY <1>12 DEF DeleteRows
  <2> SUFFICES ASSUME NEW e \in Docs, NEW w \in Workers PROVE Place(e, w)'
    BY <1>1, <2>1 DEF StageInv
  <2>2. Place(e, w)
    BY <1>1
  <2> QED
    BY <2>1, <2>2 DEF Place, Fits
<1> QED
  BY <1>5, <1>6, <1>7, <1>8, <1>9, <1>10, <1>11, <1>12 DEF Uploading, Editing

(* A step of the worker that leaves the queue alone: its task ends, or     *)
(* goes from one phase to the next, and only its own document is written.  *)
LEMMA StageQuiet ==
    ASSUME SingleWorker, StageInv, NEW w \in Workers, NoDoc \notin Docs,
           queue' = queue, upload' = upload,
           \A d \in Docs : d # job[w].doc => status'[d] = status[d],
           \/ /\ job'[w] = IdleJob
              /\ \A d \in Docs :
                    \/ status'[d] = status[d]
                    \/ status'[d] = "failed" /\ job[w].pc \in {"download", "parse"}
                    \/ status'[d] = "ready" /\ job[w].pc \in Chunking
           \/ /\ job'[w].doc = job[w].doc /\ job'[w].todo = job[w].todo
              /\ job[w].pc \in Extracting \cup Chunking
              /\ \A d \in Docs : d = job[w].doc =>
                    \/ job[w].pc = "extract" /\ job'[w].pc = "download" /\ status'[d] = "processing"
                    \/ job[w].pc = "download" /\ job'[w].pc = "parse" /\ status'[d] = status[d]
                    \/ job[w].pc = "parse" /\ job'[w].pc = "chain" /\ status'[d] = "indexing"
                    \/ job[w].pc \in Chunking /\ job'[w].pc \in Chunking /\ status'[d] = status[d]
    PROVE  StageInv'
<1>1. Workers = {w} /\ Once(queue')
  BY DEF SingleWorker, StageInv
<1> SUFFICES ASSUME NEW d \in Docs PROVE Place(d, w)'
  BY <1>1 DEF StageInv
<1>2. Place(d, w)
  BY DEF StageInv
<1>3. CASE d = job[w].doc
  <2>1. CASE job'[w] = IdleJob
    BY <1>2, <1>3, <2>1 DEF Place, Fits, IdleJob, Extracting, Chunking
  <2>2. CASE job'[w] # IdleJob
    BY <1>2, <1>3, <2>2 DEF Place, Fits, Extracting, Chunking
  <2> QED
    BY <2>1, <2>2
<1>4. CASE d # job[w].doc
  <2>1. CASE job'[w] = IdleJob
    BY <1>2, <1>4, <2>1 DEF Place, Fits, IdleJob
  <2>2. CASE job'[w] # IdleJob
    BY <1>2, <1>4, <2>2 DEF Place, Fits, Extracting, Chunking
  <2> QED
    BY <2>1, <2>2
<1> QED
  BY <1>3, <1>4

LEMMA StageTake ==
    ASSUME SingleWorker, TypeOK, StageInv, NEW w \in Workers, Take(w)
    PROVE  StageInv'
<1>1. Workers = {w} /\ NoDoc \notin Docs
  BY ConstantsOK DEF SingleWorker
<1>2. queue \in Seq(Task) /\ queue # <<>> /\ job \in [Workers -> Job]
  BY DEF TypeOK, Take
<1>3. /\ queue' = Tail(queue) /\ upload' = upload /\ status' = status
      /\ job' = [job EXCEPT ![w] = Started(Head(queue))] /\ job[w].pc = "idle"
  BY DEF Take, At, requestVars, rowVars
<1> DEFINE task == Head(queue)
<1>4. /\ task \in Task /\ Holds(queue, task) /\ Once(queue')
      /\ \A u : Holds(queue', u) => Holds(queue, u)
      /\ task.kind = "extract" => ~Holds(queue', task)
  <2>1. task \in Task
    BY <1>2
  <2> QED
    BY <1>2, <1>3, <2>1, HoldsTail DEF StageInv
<1>5. job'[w].pc = task.kind /\ job'[w].doc = task.doc /\ job'[w].todo = {}
  BY <1>2, <1>3 DEF Started
<1>6. \/ \E d \in Docs : task = ExtractTask(d) /\ task.kind = "extract" /\ task.doc = d
      \/ \E d \in Docs : task = ChunkTask(d) /\ task.kind = "chunk" /\ task.doc = d
      \/ task.kind = "reindex" /\ task.doc = NoDoc
  BY <1>4 DEF Task, ExtractTask, ChunkTask
<1> HIDE DEF task
<1> SUFFICES ASSUME NEW d \in Docs PROVE Place(d, w)'
  BY <1>1, <1>4 DEF StageInv
<1>7. Place(d, w)
  BY DEF StageInv
<1>8. CASE d = task.doc
  <2>1. CASE task = ExtractTask(d) /\ task.kind = "extract"
    BY <1>3, <1>4, <1>5, <1>7, <1>8, <2>1 DEF Place, Fits, Extracting, Chunking
  <2>2. CASE task = ChunkTask(d) /\ task.kind = "chunk"
    BY <1>3, <1>4, <1>5, <1>7, <1>8, <2>2 DEF Place, Fits, Extracting, Chunking
  <2> QED
    BY <1>1, <1>6, <1>8, <2>1, <2>2
<1>9. CASE d # task.doc
  BY <1>3, <1>4, <1>5, <1>7, <1>9 DEF Place, Fits
<1> QED
  BY <1>8, <1>9

LEMMA StageChain ==
    ASSUME SingleWorker, TypeOK, StageInv, NEW w \in Workers, ChainChunking(w)
    PROVE  StageInv'
<1>1. Workers = {w} /\ NoDoc \notin Docs
  BY ConstantsOK DEF SingleWorker
<1>2. job \in [Workers -> Job] /\ job[w] \in Job /\ job[w].pc = "chain"
  BY DEF TypeOK, ChainChunking, At
<1>3. PICK c \in Docs : c = job[w].doc
  BY <1>2 DEF Job, DocPhases, Phases
<1>4. upload' = upload /\ status' = status /\ job'[w] = IdleJob
  BY <1>2 DEF ChainChunking, Finish, requestVars, rowVars
<1>5. CASE status[c] # "indexing"
  <2>1. queue' = queue
    BY <1>3, <1>5 DEF ChainChunking, Doc
  <2> QED
    BY <1>1, <1>4, <2>1, StageQuiet
<1>6. CASE status[c] = "indexing"
  <2>1. Publish(ChunkTask(c))
    BY <1>3, <1>6 DEF ChainChunking, Doc
  <2>2. /\ Once(queue')
        /\ \A u : Holds(queue', u) <=> Holds(queue, u) \/ u = ChunkTask(c)
    BY <2>1, PublishAdds, TaskFacts DEF StageInv
  <2> SUFFICES ASSUME NEW d \in Docs PROVE Place(d, w)'
    BY <1>1, <2>2 DEF StageInv
  <2>3. Place(d, w)
    BY DEF StageInv
  <2>4. /\ Holds(queue', ExtractTask(d)) <=> Holds(queue, ExtractTask(d))
        /\ Holds(queue', ChunkTask(d)) <=> Holds(queue, ChunkTask(d)) \/ d = c
    BY <2>2, TaskFacts
  <2> QED
    BY <1>1, <1>2, <1>3, <1>4, <1>6, <2>3, <2>4 DEF Place, Fits, IdleJob
<1> QED
  BY <1>5, <1>6

LEMMA StageReindex ==
    ASSUME SingleWorker, TypeOK, StageInv, NEW w \in Workers, ListReady(w) \/ FanOut(w)
    PROVE  StageInv'
<1>1. Workers = {w} /\ NoDoc \notin Docs
  BY ConstantsOK DEF SingleWorker
<1>2. /\ job \in [Workers -> Job] /\ job[w] \in Job
      /\ job[w].pc \in {"reindex", "fanout"} /\ job[w].doc = NoDoc
  BY DEF TypeOK, ListReady, FanOut, At, Job, DocPhases, Phases
<1>3. upload' = upload /\ status' = status
  BY DEF ListReady, FanOut, requestVars, rowVars
<1>4. CASE ListReady(w)
  <2>1. queue' = queue /\ job' = [job EXCEPT ![w].pc = "fanout", ![w].todo = Ready]
    BY <1>4 DEF ListReady
  <2>2. job'[w].pc = "fanout" /\ job'[w].doc = NoDoc /\ job'[w].todo = Ready
    BY <1>2, <2>1 DEF Job
  <2> SUFFICES ASSUME NEW d \in Docs PROVE Place(d, w)'
    BY <1>1, <2>1 DEF StageInv
  <2>3. Place(d, w) /\ upload[d] \in {"idle", "stored", "inserted", "done"}
    BY DEF StageInv, TypeOK
  <2> QED
    BY <1>1, <1>3, <2>1, <2>2, <2>3 DEF Place, Fits, Ready, Extracting, Chunking
<1>5. ASSUME NEW c \in job[w].todo, Publish(ChunkTask(c)), job' = [job EXCEPT ![w].todo = @ \ {c}],
             job[w].pc = "fanout"
      PROVE  StageInv'
  <2>1. c \in Docs
    BY <1>2 DEF Job
  <2>2. /\ Once(queue')
        /\ \A u : Holds(queue', u) <=> Holds(queue, u) \/ u = ChunkTask(c)
    BY <1>5, <2>1, PublishAdds, TaskFacts DEF StageInv
  <2>3. job'[w].pc = "fanout" /\ job'[w].doc = NoDoc /\ job'[w].todo = job[w].todo \ {c}
    BY <1>2, <1>5 DEF Job
  <2> SUFFICES ASSUME NEW d \in Docs PROVE Place(d, w)'
    BY <1>1, <2>2 DEF StageInv
  <2>4. Place(d, w)
    BY DEF StageInv
  <2>5. /\ Holds(queue', ExtractTask(d)) <=> Holds(queue, ExtractTask(d))
        /\ Holds(queue', ChunkTask(d)) <=> Holds(queue, ChunkTask(d)) \/ d = c
    BY <2>1, <2>2, TaskFacts
  <2> QED
    BY <1>1, <1>2, <1>3, <1>5, <2>3, <2>4, <2>5 DEF Place, Fits, Extracting, Chunking
<1>6. CASE queue' = queue /\ Finish(w)
  <2>1. job'[w] = IdleJob
    BY <1>2, <1>6 DEF Finish
  <2> QED
    BY <1>1, <1>3, <1>6, <2>1, StageQuiet
<1> QED
  BY <1>4, <1>5, <1>6 DEF FanOut, At

LEMMA StageWorker ==
    ASSUME SingleWorker, TypeOK, StageInv, NEW w \in Workers,
           Work(w) \/ ChunkingFails(w) \/ WorkerCrash(w)
    PROVE  StageInv'
<1> USE DEF Extracting, Chunking
<1>1. NoDoc \notin Docs /\ job \in [Workers -> Job] /\ job[w] \in Job
      /\ status \in [Docs -> Statuses]
  BY ConstantsOK DEF TypeOK
<1>2. ASSUME job' = [job EXCEPT ![w] = IdleJob], queue' = queue, upload' = upload, status' = status
      PROVE  StageInv'
  <2>1. job'[w] = IdleJob
    BY <1>1, <1>2
  <2> QED
    BY <1>1, <1>2, <2>1, StageQuiet
<1>3. CASE Take(w)
  BY <1>3, StageTake
<1>4. CASE DocumentVanished(w) \/ InsertConfigFails(w) \/ ChunkingFails(w) \/ WorkerCrash(w)
  BY <1>2, <1>4 DEF DocumentVanished, InsertConfigFails, ChunkingFails, WorkerCrash, Finish,
                    requestVars, rowVars
<1>5. CASE ChainChunking(w)
  BY <1>5, StageChain
<1>6. CASE ListReady(w) \/ FanOut(w)
  BY <1>6, StageReindex
<1>7. CASE ExtractionFails(w)
  <2>1. /\ job[w].pc \in {"download", "parse"} /\ queue' = queue /\ upload' = upload
        /\ status' = [status EXCEPT ![job[w].doc] = "failed"] /\ job'[w] = IdleJob
    BY <1>1, <1>7 DEF ExtractionFails, Finish, Doc, requestVars
  <2>2. \A d \in Docs : /\ d # job[w].doc => status'[d] = status[d]
                        /\ status'[d] \in {status[d], "failed"}
    BY <1>1, <2>1
  <2> QED
    BY <1>1, <2>1, <2>2, StageQuiet
<1>8. CASE NothingToChunk(w) \/ SwapGeneration(w)
  <2>1. /\ job[w].pc \in {"embed", "swap"} /\ queue' = queue /\ upload' = upload
        /\ status' = [status EXCEPT ![job[w].doc] = "ready"] /\ job'[w] = IdleJob
    BY <1>1, <1>8 DEF NothingToChunk, SwapGeneration, At, Finish, Doc, requestVars
  <2>2. \A d \in Docs : /\ d # job[w].doc => status'[d] = status[d]
                        /\ status'[d] \in {status[d], "ready"}
    BY <1>1, <2>1
  <2> QED
    BY <1>1, <2>1, <2>2, StageQuiet
<1>9. CASE MarkProcessing(w)
  <2>1. /\ job[w].pc = "extract" /\ queue' = queue /\ upload' = upload
        /\ status' = [status EXCEPT ![job[w].doc] = "processing"]
        /\ job'[w].pc = "download" /\ job'[w].doc = job[w].doc /\ job'[w].todo = job[w].todo
    BY <1>1, <1>9 DEF MarkProcessing, At, Goto, Doc, Job, requestVars
  <2>2. \A d \in Docs : /\ d # job[w].doc => status'[d] = status[d]
                        /\ d = job[w].doc => status'[d] = "processing"
    BY <1>1, <2>1
  <2> QED
    BY <1>1, <2>1, <2>2, StageQuiet
<1>10. CASE Download(w)
  <2>1. /\ job[w].pc = "download" /\ queue' = queue /\ upload' = upload /\ status' = status
        /\ job'[w].pc = "parse" /\ job'[w].doc = job[w].doc /\ job'[w].todo = job[w].todo
    BY <1>1, <1>10 DEF Download, At, Goto, Job, requestVars, rowVars
  <2> QED
    BY <1>1, <2>1, StageQuiet
<1>11. CASE CommitExtraction(w)
  <2>1. /\ job[w].pc = "parse" /\ queue' = queue /\ upload' = upload
        /\ status' = [status EXCEPT ![job[w].doc] = "indexing"]
        /\ job'[w].pc = "chain" /\ job'[w].doc = job[w].doc /\ job'[w].todo = job[w].todo
    BY <1>1, <1>11 DEF CommitExtraction, At, Goto, Doc, Job, requestVars
  <2>2. \A d \in Docs : /\ d # job[w].doc => status'[d] = status[d]
                        /\ d = job[w].doc => status'[d] = "indexing"
    BY <1>1, <2>1
  <2> QED
    BY <1>1, <2>1, <2>2, StageQuiet
<1>12. CASE ReadConfig(w) \/ InsertConfig(w) \/ RetireOld(w)
  <2>1. job[w].pc \in Chunking /\ queue' = queue /\ upload' = upload /\ status' = status
    BY <1>12 DEF ReadConfig, InsertConfig, RetireOld, At, requestVars, rowVars
  <2>2. job'[w].pc \in Chunking /\ job'[w].doc = job[w].doc /\ job'[w].todo = job[w].todo
    <3>1. CASE ReadConfig(w)
      <4>1. CASE config = NoRow
        BY <1>1, <3>1, <4>1 DEF ReadConfig, Goto, Job
      <4>2. CASE config # NoRow
        BY <1>1, <3>1, <4>2 DEF ReadConfig, Job
      <4> QED
        BY <4>1, <4>2
    <3>2. CASE InsertConfig(w)
      BY <1>1, <3>2 DEF InsertConfig, Job
    <3>3. CASE RetireOld(w)
      BY <1>1, <3>3 DEF RetireOld, Job
    <3> QED
      BY <1>12, <3>1, <3>2, <3>3
  <2> QED
    BY <1>1, <2>1, <2>2, StageQuiet
<1> QED
  BY <1>3, <1>4, <1>5, <1>6, <1>7, <1>8, <1>9, <1>10, <1>11, <1>12 DEF Work

(* StageInv is an invariant.                                               *)
LEMMA StageAlways ==
    ASSUME SingleWorker PROVE Spec => []StageInv
<1>1. Init => StageInv
  <2> SUFFICES ASSUME Init PROVE StageInv
    OBVIOUS
  <2>1. NoDoc \notin Docs /\ DOMAIN queue = {}
    BY ConstantsOK DEF Init
  <2>2. Once(queue) /\ \A u : ~Holds(queue, u)
    BY <2>1 DEF Once, Holds
  <2> QED
    BY <2>1, <2>2 DEF Init, StageInv, Place, Fits, IdleJob
<1>2. TypeOK /\ StageInv /\ [Next]_vars => StageInv'
  <2> SUFFICES ASSUME TypeOK, StageInv, [Next]_vars PROVE StageInv'
    OBVIOUS
  <2>1. CASE UNCHANGED vars
    BY <2>1 DEF vars, requestVars, rowVars, StageInv, Place
  <2>2. CASE Next
    BY <2>2, StageRequest, StageWorker DEF Next
  <2> QED
    BY <2>1, <2>2
<1> QED
  BY <1>1, <1>2, TypeCorrect, PTL DEF Spec

(* A ready document stays ready until its domain is deleted, whatever      *)
(* re-chunkings fail, crash or overlap with edits meanwhile.               *)
THEOREM ReadyStaysCorrect ==
    ASSUME SingleWorker PROVE Spec => ReadyStays
<1>1. ASSUME TypeOK, StageInv, [Next]_vars
      PROVE  \A d \in Ready : status'[d] \in {"ready", "absent"}
  <2> SUFFICES ASSUME NEW d \in Docs, status[d] = "ready"
               PROVE  status'[d] \in {"ready", "absent"}
    BY DEF Ready
  <2>1. status \in [Docs -> Statuses] /\ \A w \in Workers : Place(d, w)
    BY <1>1 DEF TypeOK, StageInv
  <2>2. CASE status' = status
    BY <2>2
  <2>3. CASE DeleteRows
    BY <2>3 DEF DeleteRows
  <2>4. ASSUME NEW e \in Docs, InsertDocument(e) PROVE status'[d] = "ready"
    <3>1. e # d
      <4>1. PICK w \in Workers : TRUE
        BY DEF SingleWorker
      <4> QED
        BY <2>1, <2>4, <4>1 DEF InsertDocument, Place, Fits
    <3> QED
      BY <2>1, <2>4, <3>1 DEF InsertDocument
  <2>5. ASSUME NEW w \in Workers, MarkProcessing(w) \/ CommitExtraction(w) \/ ExtractionFails(w)
        PROVE  status'[d] = "ready"
    <3>1. d # job[w].doc
      BY <2>1, <2>5 DEF MarkProcessing, CommitExtraction, ExtractionFails, At, Place, Fits
    <3> QED
      BY <2>1, <2>5, <3>1 DEF MarkProcessing, CommitExtraction, ExtractionFails, Doc
  <2>6. ASSUME NEW w \in Workers, NothingToChunk(w) \/ SwapGeneration(w)
        PROVE  status'[d] = "ready"
    BY <2>1, <2>6 DEF NothingToChunk, SwapGeneration
  <2>7. \/ status' = status \/ DeleteRows
        \/ \E e \in Docs : InsertDocument(e)
        \/ \E w \in Workers : \/ MarkProcessing(w) \/ CommitExtraction(w) \/ ExtractionFails(w)
                              \/ NothingToChunk(w) \/ SwapGeneration(w)
    BY <1>1 DEF Next, vars, requestVars, rowVars, Uploading, Editing, Work,
                StoreFile, InsertRejected, EnqueueExtraction, UploadDies,
                BeginEdit, CommitEdit, EditRejected, EnqueueReindex, EditDies,
                CreateDefaultConfig, ArchiveDomain, PurgeObjects, DeleteAborts,
                Take, DocumentVanished, Download, ChainChunking, ReadConfig, InsertConfig,
                InsertConfigFails, RetireOld, ListReady, FanOut, ChunkingFails, WorkerCrash
  <2> QED
    BY <2>2, <2>3, <2>4, <2>5, <2>6, <2>7
<1> QED
  BY <1>1, TypeCorrect, StageAlways, PTL DEF Spec, ReadyStays

----------------------------------------------------------------------------
(* What is ready has chunks and nothing else has, and a domain goes once.  *)

DeletionInv ==
    /\ purging => domain = "archived"
    /\ domain = "deleted" => config = NoRow

ContentsInv ==
    /\ \A w \in Workers : \A d \in Docs :
          job[w].pc = "swap" /\ job[w].doc = d => elements[d] = "some" \/ status[d] = "absent"
    /\ ReadyIsServed

LEMMA DeletionNext ==
    ASSUME DeletionInv, [Next]_vars PROVE DeletionInv'
<1> USE DEF DeletionInv, NoRow
<1>1. CASE UNCHANGED <<domain, purging, config>>
  BY <1>1
<1>2. CASE ArchiveDomain \/ PurgeObjects \/ DeleteRows \/ DeleteAborts
  BY <1>2 DEF ArchiveDomain, PurgeObjects, DeleteRows, DeleteAborts, rowVars
<1>3. CASE CreateDefaultConfig
  BY <1>3 DEF CreateDefaultConfig, requestVars
<1>4. ASSUME NEW a \in Admins, CommitEdit(a) PROVE DeletionInv'
  BY <1>4 DEF CommitEdit
<1>5. ASSUME NEW w \in Workers, InsertConfig(w) PROVE DeletionInv'
  BY <1>5 DEF InsertConfig, requestVars
<1>6. \/ UNCHANGED <<domain, purging, config>>
      \/ ArchiveDomain \/ PurgeObjects \/ DeleteRows \/ DeleteAborts \/ CreateDefaultConfig
      \/ \E a \in Admins : CommitEdit(a)
      \/ \E w \in Workers : InsertConfig(w)
  BY DEF Next, vars, requestVars, rowVars, Uploading, Editing, Work,
         StoreFile, InsertDocument, InsertRejected, EnqueueExtraction, UploadDies,
         BeginEdit, EditRejected, EnqueueReindex, EditDies,
         Take, DocumentVanished, MarkProcessing, Download, CommitExtraction, ExtractionFails,
         ChainChunking, ReadConfig, InsertConfigFails, NothingToChunk, RetireOld,
         SwapGeneration, ListReady, FanOut, ChunkingFails, WorkerCrash
<1> QED
  BY <1>1, <1>2, <1>3, <1>4, <1>5, <1>6

LEMMA ContentsRequest ==
    ASSUME SingleWorker, TypeOK, StageInv, ContentsInv,
           \/ \E d \in Docs : Uploading(d) \/ UploadDies(d)
           \/ \E a \in Admins : Editing(a) \/ EditDies(a)
           \/ CreateDefaultConfig
           \/ ArchiveDomain \/ PurgeObjects \/ DeleteRows \/ DeleteAborts
    PROVE  ContentsInv'
<1>1. CASE UNCHANGED <<status, elements, chunks, job>>
  BY <1>1 DEF ContentsInv, ReadyIsServed, Active
<1>2. ASSUME NEW d \in Docs, InsertDocument(d) PROVE ContentsInv'
  <2>1. /\ upload[d] = "stored" /\ status' = [status EXCEPT ![d] = "pending"]
        /\ elements' = elements /\ chunks' = chunks /\ job' = job
    BY <1>2 DEF InsertDocument
  <2>2. status[d] = "absent" /\ \A w \in Workers : job[w].doc # d
    <3>1. PICK w \in Workers : TRUE
      BY DEF SingleWorker
    <3> QED
      BY <2>1, <3>1 DEF StageInv, Place, Fits
  <2>3. \A e \in Docs : status'[e] = status[e] \/ (e = d /\ status'[e] = "pending")
    BY <2>1 DEF TypeOK
  <2> QED
    BY <2>1, <2>2, <2>3 DEF ContentsInv, ReadyIsServed, Active
<1>3. CASE DeleteRows
  <2>1. \A d \in Docs : status'[d] = "absent" /\ chunks'[d] = <<>>
    BY <1>3 DEF DeleteRows
  <2> QED
    BY <2>1 DEF ContentsInv, ReadyIsServed, Active
<1>4. \/ UNCHANGED <<status, elements, chunks, job>>
      \/ DeleteRows \/ \E d \in Docs : InsertDocument(d)
  BY DEF Uploading, Editing, StoreFile, InsertRejected, EnqueueExtraction, UploadDies,
         BeginEdit, CommitEdit, EditRejected, EnqueueReindex, EditDies,
         CreateDefaultConfig, ArchiveDomain, PurgeObjects, DeleteAborts, requestVars, rowVars
<1> QED
  BY <1>1, <1>2, <1>3, <1>4

LEMMA ContentsWorker ==
    ASSUME SingleWorker, OrderInv, GenerationInv', StageInv, ContentsInv, NEW w \in Workers,
           Work(w) \/ ChunkingFails(w) \/ WorkerCrash(w)
    PROVE  ContentsInv'
<1>1. /\ Workers = {w} /\ TypeOK /\ job \in [Workers -> Job] /\ job[w] \in Job
      /\ status \in [Docs -> Statuses] /\ elements \in [Docs -> {"none", "empty", "some"}]
      /\ chunks \in [Docs -> Seq(Generation)]
  BY DEF SingleWorker, OrderInv, GenerationInv, TypeOK
<1>2. ASSUME UNCHANGED <<status, elements, chunks>>, job'[w].pc # "swap" PROVE ContentsInv'
  BY <1>1, <1>2 DEF ContentsInv, ReadyIsServed, Active
<1>3. CASE Take(w)
  <2>1. Head(queue) \in Task
    BY <1>1, <1>3 DEF Take, TypeOK
  <2>2. job'[w].pc # "swap"
    BY <1>1, <1>3, <2>1 DEF Take, Started, Task
  <2> QED
    BY <1>2, <1>3, <2>2 DEF Take, rowVars
<1>4. CASE DocumentVanished(w) \/ ChainChunking(w) \/ InsertConfigFails(w)
           \/ ChunkingFails(w) \/ WorkerCrash(w)
  <2>1. job'[w].pc # "swap"
    BY <1>1, <1>4 DEF DocumentVanished, ChainChunking, InsertConfigFails, ChunkingFails,
                      WorkerCrash, Finish, IdleJob
  <2> QED
    BY <1>2, <1>4, <2>1 DEF DocumentVanished, ChainChunking, InsertConfigFails, ChunkingFails,
                            WorkerCrash, rowVars
<1>5. CASE Download(w) \/ ReadConfig(w) \/ InsertConfig(w) \/ ListReady(w)
  <2>1. job'[w].pc # "swap"
    <3>1. CASE Download(w) \/ ListReady(w)
      BY <1>1, <3>1 DEF Download, Goto, ListReady, Job
    <3>2. CASE ReadConfig(w) /\ config = NoRow
      BY <1>1, <3>2 DEF ReadConfig, Goto, Job
    <3>3. CASE ReadConfig(w) /\ config # NoRow
      BY <1>1, <3>3 DEF ReadConfig, Job
    <3>4. CASE InsertConfig(w)
      BY <1>1, <3>4 DEF InsertConfig, Job
    <3> QED
      BY <1>5, <3>1, <3>2, <3>3, <3>4
  <2> QED
    BY <1>2, <1>5, <2>1 DEF Download, ReadConfig, InsertConfig, ListReady, rowVars
<1>6. CASE FanOut(w)
  <2>1. \/ \E d \in job[w].todo : job' = [job EXCEPT ![w].todo = @ \ {d}]
        \/ job' = [job EXCEPT ![w] = IdleJob]
    BY <1>6 DEF FanOut, Finish
  <2>2. job[w].pc = "fanout"
    BY <1>6 DEF FanOut, At
  <2>3. job'[w].pc # "swap"
    BY <1>1, <2>1, <2>2 DEF Job, IdleJob
  <2> QED
    BY <1>2, <1>6, <2>3 DEF FanOut, rowVars
<1>7. CASE MarkProcessing(w) \/ ExtractionFails(w) \/ CommitExtraction(w) \/ NothingToChunk(w)
  <2>1. job'[w].pc # "swap"
    BY <1>1, <1>7 DEF MarkProcessing, ExtractionFails, CommitExtraction, NothingToChunk,
                      Goto, Finish, IdleJob, Job
  <2>2. chunks' = chunks
    BY <1>7 DEF MarkProcessing, ExtractionFails, CommitExtraction, NothingToChunk
  <2>3. PICK c \in Docs : c = job[w].doc
    BY <1>1, <1>7 DEF MarkProcessing, CommitExtraction, ExtractionFails, NothingToChunk, At,
                      Job, DocPhases, Phases
  <2>4. Place(c, w)
    BY DEF StageInv
  <2>5. \A d \in Docs : d # c => status'[d] = status[d] /\ elements'[d] = elements[d]
    BY <1>1, <1>7, <2>3 DEF MarkProcessing, CommitExtraction, ExtractionFails, NothingToChunk, Doc
  <2>6. /\ ~(status[c] = "ready" /\ elements[c] = "some")
        /\ ~(status'[c] = "ready" /\ elements'[c] = "some")
    <3>1. CASE MarkProcessing(w) \/ ExtractionFails(w) \/ CommitExtraction(w)
      <4>1. status[c] # "ready"
        BY <2>3, <2>4, <3>1 DEF MarkProcessing, ExtractionFails, CommitExtraction, At, Place, Fits
      <4>2. status'[c] # "ready"
        BY <1>1, <2>3, <3>1 DEF MarkProcessing, ExtractionFails, CommitExtraction, Doc
      <4> QED
        BY <4>1, <4>2
    <3>2. CASE NothingToChunk(w)
      BY <1>1, <2>3, <3>2 DEF NothingToChunk, Doc
    <3> QED
      BY <1>7, <3>1, <3>2
  <2> QED
    BY <1>1, <2>1, <2>2, <2>5, <2>6 DEF ContentsInv, ReadyIsServed, Active
<1>8. CASE RetireOld(w)
  <2>1. /\ elements[job[w].doc] = "some" /\ job'[w].doc = job[w].doc
        /\ status' = status /\ elements' = elements /\ chunks' = chunks
    BY <1>1, <1>8 DEF RetireOld, Doc, Job, rowVars
  <2> QED
    BY <1>1, <2>1 DEF ContentsInv, ReadyIsServed, Active
<1>9. CASE SwapGeneration(w)
  <2>1. PICK c \in Docs : c = Doc(w)
    BY <1>1, <1>9 DEF SwapGeneration, At, Doc, Job, DocPhases, Phases
  <2>2. /\ job'[w].pc # "swap" /\ elements' = elements /\ status'[c] = "ready"
        /\ \A d \in Docs : d # c => status'[d] = status[d] /\ chunks'[d] = chunks[d]
    BY <1>1, <1>9, <2>1 DEF SwapGeneration, Finish, IdleJob
  <2>3. \E i \in DOMAIN chunks'[c] : chunks'[c][i].active
    BY <1>9, <2>1, OrderSwap
  <2>4. elements[c] = "some"
    BY <1>9, <2>1 DEF SwapGeneration, At, HasRow, Doc, ContentsInv
  <2> QED
    BY <1>1, <2>2, <2>3, <2>4 DEF ContentsInv, ReadyIsServed, Active
<1> QED
  BY <1>3, <1>4, <1>5, <1>6, <1>7, <1>8, <1>9 DEF Work

----------------------------------------------------------------------------
(* The refinement.                                                         *)

LifecycleInv == OrderInv /\ StageInv /\ ContentsInv /\ DeletionInv

LEMMA LifecycleAlways ==
    ASSUME SingleWorker PROVE Spec => []LifecycleInv
<1>1. Init => ContentsInv /\ DeletionInv
  BY DEF Init, ContentsInv, ReadyIsServed, Active, DeletionInv, IdleJob
<1>2. ASSUME OrderInv, GenerationInv', StageInv, ContentsInv, [Next]_vars PROVE ContentsInv'
  <2>1. TypeOK
    BY <1>2 DEF OrderInv, GenerationInv
  <2>2. CASE UNCHANGED vars
    BY <1>2, <2>2 DEF vars, rowVars, ContentsInv, ReadyIsServed, Active
  <2>3. CASE Next
    BY <1>2, <2>1, <2>3, ContentsRequest, ContentsWorker DEF Next
  <2> QED
    BY <1>2, <2>2, <2>3
<1> QED
  BY <1>1, <1>2, DeletionNext, OrderAlways, GenerationAlways, StageAlways,
     PTL DEF Spec, LifecycleInv

(* With the single worker of the deployment, exactly the ready documents   *)
(* with content serve chunks: a re-chunking that runs, fails or is cut     *)
(* never leaves one without, and nothing half-done is ever served.         *)
THEOREM ReadyIsServedCorrect ==
    ASSUME SingleWorker PROVE Spec => []ReadyIsServed
<1>1. LifecycleInv => ReadyIsServed
  BY DEF LifecycleInv, ContentsInv
<1> QED
  BY <1>1, LifecycleAlways, PTL

(* The concrete step seen through the mapping: nothing readers see changes *)
LEMMA Unseen ==
    ASSUME domain' = domain, config' = config, chunks' = chunks,
           \A d \in Docs : Phase(status[d])' = Phase(status[d])
    PROVE  UNCHANGED Lifecycle!vars
<1>1. ShownPhase' = ShownPhase /\ ShownRevisions' = ShownRevisions
  BY DEF ShownPhase, ShownRevisions, Active
<1> QED
  BY <1>1 DEF Lifecycle!vars

(* ... or the status of one document.                                      *)
LEMMA SeenPhase ==
    ASSUME TypeOK, NEW c \in Docs, NEW s, status' = [status EXCEPT ![c] = s]
    PROVE  ShownPhase' = [ShownPhase EXCEPT ![c] = Phase(s)] /\ ShownPhase[c] = Phase(status[c])
BY DEF TypeOK, ShownPhase

LEMMA LifecycleRequest ==
    ASSUME SingleWorker, LifecycleInv,
           \/ \E d \in Docs : Uploading(d) \/ UploadDies(d)
           \/ \E a \in Admins : Editing(a) \/ EditDies(a)
           \/ CreateDefaultConfig
           \/ ArchiveDomain \/ PurgeObjects \/ DeleteRows \/ DeleteAborts
    PROVE  [Lifecycle!Next]_(Lifecycle!vars)
<1>1. TypeOK /\ config \in Int /\ MaxRevision \in Nat
  BY RevisionsAreInts, ConstantsOK DEF LifecycleInv, OrderInv, GenerationInv
<1>2. CASE UNCHANGED <<domain, config, status, chunks>>
  BY <1>2, Unseen
<1>3. ASSUME NEW d \in Docs, InsertDocument(d) PROVE Lifecycle!Next
  <2>1. /\ domain # "deleted" /\ domain' = domain /\ config' = config /\ chunks' = chunks
        /\ upload[d] = "stored" /\ status' = [status EXCEPT ![d] = "pending"]
    BY <1>3 DEF InsertDocument
  <2>2. status[d] = "absent"
    <3>1. PICK w \in Workers : TRUE
      BY DEF SingleWorker
    <3> QED
      BY <2>1, <3>1 DEF LifecycleInv, StageInv, Place, Fits
  <2>3. ShownPhase' = [ShownPhase EXCEPT ![d] = "working"] /\ ShownPhase[d] = "absent"
    BY <1>1, <2>1, <2>2, SeenPhase DEF Phase
  <2>4. ShownRevisions' = ShownRevisions
    BY <2>1 DEF ShownRevisions, Active
  <2>5. Lifecycle!Accept(d)
    BY <2>1, <2>3, <2>4 DEF Lifecycle!Accept
  <2> QED
    BY <2>5 DEF Lifecycle!Next
<1>4. CASE CreateDefaultConfig \/ \E a \in Admins : CommitEdit(a)
  <2>1. /\ domain # "deleted" /\ config < MaxRevision /\ config' = config + 1
        /\ domain' = domain /\ status' = status /\ chunks' = chunks
    BY <1>1, <1>4 DEF CreateDefaultConfig, CommitEdit, requestVars, LifecycleInv, DeletionInv, NoRow
  <2>2. ShownPhase' = ShownPhase /\ ShownRevisions' = ShownRevisions
    BY <2>1 DEF ShownPhase, ShownRevisions, Active
  <2>3. Lifecycle!Configure
    BY <2>1, <2>2 DEF Lifecycle!Configure
  <2> QED
    BY <2>3 DEF Lifecycle!Next
<1>5. CASE ArchiveDomain
  <2>1. domain # "deleted" /\ domain' # "deleted" /\ UNCHANGED <<config, status, chunks>>
    BY <1>5 DEF ArchiveDomain, rowVars
  <2>2. ShownPhase' = ShownPhase /\ ShownRevisions' = ShownRevisions
    BY <2>1 DEF ShownPhase, ShownRevisions, Active
  <2> QED
    BY <2>1, <2>2 DEF Lifecycle!vars
<1>6. CASE DeleteRows
  <2>1. domain # "deleted" /\ domain' = "deleted" /\ config' = -1
    BY <1>6 DEF DeleteRows, LifecycleInv, DeletionInv, NoRow
  <2>2. /\ ShownPhase' = [d \in Docs |-> "absent"]
        /\ ShownRevisions' = [d \in Docs |-> {}]
    BY <1>6 DEF DeleteRows, ShownPhase, ShownRevisions, Active, Phase
  <2>3. Lifecycle!Drop
    BY <2>1, <2>2 DEF Lifecycle!Drop
  <2> QED
    BY <2>3 DEF Lifecycle!Next
<1>7. \/ UNCHANGED <<domain, config, status, chunks>>
      \/ ArchiveDomain \/ DeleteRows \/ \E d \in Docs : InsertDocument(d)
      \/ CreateDefaultConfig \/ \E a \in Admins : CommitEdit(a)
  BY DEF Uploading, Editing, StoreFile, InsertRejected, EnqueueExtraction, UploadDies,
         BeginEdit, EditRejected, EnqueueReindex, EditDies,
         PurgeObjects, DeleteAborts, rowVars
<1> QED
  BY <1>2, <1>3, <1>4, <1>5, <1>6, <1>7

(* The swap is the one step that changes what is served.                   *)
LEMMA LifecycleSwap ==
    ASSUME SingleWorker, LifecycleInv, GenerationInv', NEW w \in Workers, SwapGeneration(w)
    PROVE  Lifecycle!Next
<1>1. TypeOK /\ OneGenerationServed /\ OrderInv
  BY DEF LifecycleInv, OrderInv, GenerationInv
<1>2. PICK c \in Docs : c = Doc(w)
  BY <1>1, OrderSwap
<1>3. job[w].pc = "swap" /\ job[w].doc = c /\ status[c] # "absent" /\ status[c] \in Statuses
  BY <1>1, <1>2 DEF SwapGeneration, At, HasRow, Doc, TypeOK
<1>4. status[c] \in {"indexing", "ready"}
  BY <1>3 DEF LifecycleInv, StageInv, Place, Fits, Chunking
<1>5. /\ status' = [status EXCEPT ![c] = "ready"] /\ domain' = domain /\ config' = config
      /\ \A d \in Docs : d # c => chunks'[d] = chunks[d]
  BY <1>1, <1>2 DEF SwapGeneration, requestVars, TypeOK
<1> DEFINE r == job[w].rev
<1>6. /\ r \in 0 .. config
      /\ \A i \in DOMAIN chunks[c] : chunks[c][i].rev <= r
      /\ \A i \in DOMAIN chunks'[c] : chunks'[c][i].active => chunks'[c][i].rev = r
      /\ \E i \in DOMAIN chunks'[c] : chunks'[c][i].active
  BY <1>1, <1>2, OrderSwap
<1>7. ShownPhase' = [ShownPhase EXCEPT ![c] = "served"] /\ ShownPhase[c] = Phase(status[c])
  BY <1>1, <1>5, SeenPhase DEF Phase
<1> HIDE DEF r
<1>8. ShownRevisions' = [ShownRevisions EXCEPT ![c] = {r}]
  <2> DEFINE shown(gens) == {gens[i].rev : i \in {j \in DOMAIN gens : gens[j].active}}
  <2>1. /\ ShownRevisions = [d \in Docs |-> shown(chunks[d])]
        /\ ShownRevisions' = [d \in Docs |-> shown(chunks'[d])]
    BY DEF ShownRevisions, Active
  <2>2. shown(chunks'[c]) = {r}
    BY <1>6
  <2> HIDE DEF shown
  <2> QED
    BY <1>5, <2>1, <2>2
<1>9. CASE status[c] = "indexing"
  <2>1. Lifecycle!Serve(c)
    BY <1>5, <1>6, <1>7, <1>8, <1>9 DEF Lifecycle!Serve, Phase
  <2> QED
    BY <2>1 DEF Lifecycle!Next
<1>10. CASE status[c] = "ready"
  <2>1. elements[c] = "some"
    BY <1>3 DEF LifecycleInv, ContentsInv
  <2>2. PICK i \in DOMAIN chunks[c] : chunks[c][i].active
    BY <1>10, <2>1 DEF LifecycleInv, ContentsInv, ReadyIsServed, Active
  <2> DEFINE old == chunks[c][i].rev
  <2>3. ShownRevisions[c] = {old}
    BY <1>1, <2>2 DEF ShownRevisions, Active, OneGenerationServed
  <2>4. old \in 0 .. config /\ old <= r
    <3>1. chunks[c] \in Seq(Generation) /\ config \in Int
      BY <1>1, RevisionsAreInts DEF TypeOK
    <3>2. chunks[c][i] \in Generation
      BY <3>1
    <3>3. old \in Nat /\ old <= r
      BY <1>6, <3>2, ConstantsOK DEF Generation, Revisions
    <3> QED
      BY <1>6, <3>1, <3>3
  <2>5. ShownPhase' = ShownPhase /\ ShownPhase[c] = "served"
    BY <1>7, <1>10 DEF Phase, ShownPhase
  <2> HIDE DEF old
  <2>6. Lifecycle!Refresh(c)
    BY <1>5, <1>6, <1>8, <2>3, <2>4, <2>5 DEF Lifecycle!Refresh
  <2> QED
    BY <2>6 DEF Lifecycle!Next
<1> QED
  BY <1>4, <1>9, <1>10

LEMMA LifecycleWorker ==
    ASSUME SingleWorker, LifecycleInv, GenerationInv', NEW w \in Workers,
           Work(w) \/ ChunkingFails(w) \/ WorkerCrash(w)
    PROVE  [Lifecycle!Next]_(Lifecycle!vars)
<1>1. TypeOK /\ job[w] \in Job /\ status \in [Docs -> Statuses]
  BY DEF LifecycleInv, OrderInv, GenerationInv, TypeOK
<1>2. CASE UNCHANGED <<domain, config, status, chunks>>
  BY <1>2, Unseen
<1>3. ASSUME MarkProcessing(w) \/ CommitExtraction(w) \/ ExtractionFails(w) \/ NothingToChunk(w)
      PROVE  [Lifecycle!Next]_(Lifecycle!vars)
  <2>1. PICK c \in Docs : c = job[w].doc
    BY <1>1, <1>3 DEF MarkProcessing, CommitExtraction, ExtractionFails, NothingToChunk, At,
                      Job, DocPhases, Phases
  <2>2. /\ domain' = domain /\ config' = config /\ chunks' = chunks /\ status[c] # "absent"
        /\ status[c] \in Statuses
    BY <1>1, <1>3, <2>1 DEF MarkProcessing, CommitExtraction, ExtractionFails, NothingToChunk,
                            requestVars, HasRow, Doc
  <2>3. Place(c, w)
    BY DEF LifecycleInv, StageInv
  <2>4. ShownRevisions' = ShownRevisions
    BY <2>2 DEF ShownRevisions, Active
  <2>5. CASE MarkProcessing(w) \/ CommitExtraction(w)
    <3>1. /\ status[c] \in {"pending", "processing"}
          /\ \A d \in Docs : status'[d] = status[d]
                             \/ (d = c /\ status'[d] \in {"processing", "indexing"})
      BY <1>1, <2>1, <2>2, <2>3, <2>5 DEF MarkProcessing, CommitExtraction, At, Doc, Place, Fits
    <3> QED
      BY <2>2, <3>1, Unseen DEF Phase
  <2>6. CASE ExtractionFails(w)
    <3>1. status[c] = "processing" /\ status' = [status EXCEPT ![c] = "failed"]
      BY <2>1, <2>2, <2>3, <2>6 DEF ExtractionFails, Doc, Place, Fits
    <3>2. ShownPhase' = [ShownPhase EXCEPT ![c] = "failed"] /\ ShownPhase[c] = "working"
      BY <1>1, <3>1, SeenPhase DEF Phase
    <3>3. Lifecycle!Fail(c)
      BY <2>2, <2>4, <3>2 DEF Lifecycle!Fail
    <3> QED
      BY <3>3 DEF Lifecycle!Next
  <2>7. CASE NothingToChunk(w)
    <3>1. status[c] \in {"indexing", "ready"} /\ status' = [status EXCEPT ![c] = "ready"]
      BY <2>1, <2>2, <2>3, <2>7 DEF NothingToChunk, At, Doc, Place, Fits, Chunking
    <3>2. CASE status[c] = "ready"
      <4>1. \A d \in Docs : status'[d] = status[d]
        BY <1>1, <3>1, <3>2
      <4> QED
        BY <2>2, <4>1, Unseen
    <3>3. CASE status[c] = "indexing"
      <4>1. ShownPhase' = [ShownPhase EXCEPT ![c] = "served"] /\ ShownPhase[c] = "working"
        BY <1>1, <3>1, <3>3, SeenPhase DEF Phase
      <4>2. Lifecycle!ServeEmpty(c)
        BY <2>2, <2>4, <4>1 DEF Lifecycle!ServeEmpty
      <4> QED
        BY <4>2 DEF Lifecycle!Next
    <3> QED
      BY <3>1, <3>2, <3>3
  <2> QED
    BY <1>3, <2>5, <2>6, <2>7
<1>4. CASE InsertConfig(w)
  <2>1. /\ domain # "deleted" /\ domain' = domain /\ config = -1 /\ config' = 0
        /\ status' = status /\ chunks' = chunks
    BY <1>4 DEF InsertConfig, requestVars, NoRow
  <2>2. ShownPhase' = ShownPhase /\ ShownRevisions' = ShownRevisions
    BY <2>1 DEF ShownPhase, ShownRevisions, Active
  <2>3. Lifecycle!Configure
    BY <2>1, <2>2, ConstantsOK DEF Lifecycle!Configure
  <2> QED
    BY <2>3 DEF Lifecycle!Next
<1>5. CASE SwapGeneration(w)
  BY <1>5, LifecycleSwap
<1>6. \/ UNCHANGED <<domain, config, status, chunks>>
      \/ MarkProcessing(w) \/ CommitExtraction(w) \/ ExtractionFails(w) \/ NothingToChunk(w)
      \/ InsertConfig(w) \/ SwapGeneration(w)
  BY DEF Work, requestVars, rowVars, Take, DocumentVanished, Download, ChainChunking, ReadConfig,
         InsertConfigFails, RetireOld, ListReady, FanOut, ChunkingFails, WorkerCrash
<1> QED
  BY <1>2, <1>3, <1>4, <1>5, <1>6

(* With the single worker of the deployment, readers of a domain never see *)
(* anything but DocumentLifecycle, for any numbers of documents, admins,   *)
(* edits and faults.                                                       *)
THEOREM LifecycleImplemented ==
    ASSUME SingleWorker PROVE Spec => ImplementsLifecycle
<1>1. Init => Lifecycle!Init
  <2> SUFFICES ASSUME Init PROVE Lifecycle!Init
    OBVIOUS
  <2>1. /\ ShownPhase = [d \in Docs |-> "absent"]
        /\ ShownRevisions = [d \in Docs |-> {}]
    BY DEF Init, ShownPhase, ShownRevisions, Active, Phase
  <2> QED
    BY <2>1 DEF Init, Lifecycle!Init, NoRow
<1>2. LifecycleInv /\ GenerationInv' /\ [Next]_vars => [Lifecycle!Next]_(Lifecycle!vars)
  <2> SUFFICES ASSUME LifecycleInv, GenerationInv', [Next]_vars
               PROVE  [Lifecycle!Next]_(Lifecycle!vars)
    OBVIOUS
  <2>1. CASE UNCHANGED vars
    BY <2>1, Unseen DEF vars, requestVars, rowVars
  <2>2. CASE Next
    BY <2>2, LifecycleRequest, LifecycleWorker DEF Next
  <2> QED
    BY <2>1, <2>2
<1> QED
  BY <1>1, <1>2, LifecycleAlways, GenerationAlways, PTL
     DEF Spec, ImplementsLifecycle, Lifecycle!Spec

----------------------------------------------------------------------------
(* Nothing is stranded, with any number of workers.                        *)

(* Some worker has a task of document d and is in one of the phases.       *)
Taken(d, phases) == \E w \in Workers : job[w].doc = d /\ job[w].pc \in phases

(* Which task, queued or running, stands for each transient status.        *)
CarriedBy(d) ==
    /\ status[d] = "pending" =>
          upload[d] = "inserted" \/ Queued(ExtractTask(d)) \/ Taken(d, {"extract"})
    /\ status[d] = "processing" => Taken(d, {"download", "parse"})
    /\ status[d] = "indexing" => Queued(ChunkTask(d)) \/ Taken(d, {"chain"} \cup Chunking)

CarriedInv == \A d \in Docs : d \notin stranded => CarriedBy(d)

(* A worker in phase pc stands for a document with status st.              *)
Stands(pc, st) ==
    \/ st = "pending" /\ pc = "extract"
    \/ st = "processing" /\ pc \in {"download", "parse"}
    \/ st = "indexing" /\ pc \in {"chain"} \cup Chunking

LEMMA QueueGrows ==
    ASSUME TypeOK, NEW task \in Task, Publish(task)
    PROVE  \A u : Queued(u)' <=> (Queued(u) \/ u = task)
<1>1. queue \in Seq(Task) /\ queue' = Append(queue, task)
  BY DEF TypeOK, Publish
<1>2. \A u : (Queued(u) <=> Holds(queue, u)) /\ (Queued(u)' <=> Holds(queue', u))
  BY DEF Queued, Holds
<1> QED
  BY <1>1, <1>2, HoldsAppend

LEMMA QueueShrinks ==
    ASSUME queue \in Seq(Task), queue # <<>>, queue' = Tail(queue)
    PROVE  \A u : Queued(u) => Queued(u)' \/ u = Head(queue)
<1>1. /\ Len(queue) \in Nat \ {0} /\ DOMAIN queue = 1 .. Len(queue) /\ Head(queue) = queue[1]
      /\ DOMAIN queue' = 1 .. Len(queue) - 1
      /\ \A k \in 1 .. Len(queue) - 1 : queue'[k] = queue[k + 1]
  OBVIOUS
<1>2. ASSUME NEW k \in 2 .. Len(queue) PROVE k - 1 \in DOMAIN queue' /\ queue'[k - 1] = queue[k]
  BY <1>1
<1>3. DOMAIN queue = {1} \cup 2 .. Len(queue)
  BY <1>1
<1> QED
  BY <1>1, <1>2, <1>3 DEF Queued

(* A step of worker w that keeps every queued task carries every document, *)
(* if it does not drop the one it stands for.                              *)
LEMMA CarriedStep ==
    ASSUME CarriedInv, NEW w \in Workers,
           \A v \in Workers : v # w => job'[v] = job[v],
           upload' = upload, stranded \subseteq stranded',
           \A u : Queued(u) => Queued(u)',
           \A d \in Docs : d # job[w].doc => status'[d] = status[d],
           \A d \in Docs : d = job[w].doc /\ d \notin stranded' =>
              \/ status'[d] \notin {"pending", "processing", "indexing"}
              \/ Stands(job'[w].pc, status'[d]) /\ job'[w].doc = d
              \/ status'[d] = "indexing" /\ Queued(ChunkTask(d))'
              \/ status'[d] = status[d] /\ ~Stands(job[w].pc, status[d])
    PROVE  CarriedInv'
<1> SUFFICES ASSUME NEW d \in Docs, d \notin stranded' PROVE CarriedBy(d)'
  BY DEF CarriedInv
<1>1. CarriedBy(d)
  BY DEF CarriedInv
<1>2. (Queued(ExtractTask(d)) => Queued(ExtractTask(d))') /\ (Queued(ChunkTask(d)) => Queued(ChunkTask(d))')
  OBVIOUS
<1>3. ASSUME status'[d] = status[d], d = job[w].doc => ~Stands(job[w].pc, status[d])
      PROVE  CarriedBy(d)'
  <2>1. ASSUME NEW phases, Taken(d, phases), \A pc \in phases : Stands(pc, status[d])
        PROVE  Taken(d, phases)'
    <3>1. PICK v \in Workers : job[v].doc = d /\ job[v].pc \in phases
      BY <2>1 DEF Taken
    <3>2. v # w
      BY <1>3, <2>1, <3>1
    <3> QED
      BY <3>1, <3>2 DEF Taken
  <2>2. CASE status[d] = "pending"
    BY <1>1, <1>2, <1>3, <2>1, <2>2 DEF CarriedBy, Stands
  <2>3. CASE status[d] = "processing"
    BY <1>1, <1>2, <1>3, <2>1, <2>3 DEF CarriedBy, Stands
  <2>4. CASE status[d] = "indexing"
    BY <1>1, <1>2, <1>3, <2>1, <2>4 DEF CarriedBy, Stands
  <2>5. CASE status[d] \notin {"pending", "processing", "indexing"}
    BY <1>3, <2>5 DEF CarriedBy
  <2> QED
    BY <2>2, <2>3, <2>4, <2>5
<1>4. ASSUME Stands(job'[w].pc, status'[d]), job'[w].doc = d PROVE CarriedBy(d)'
  BY <1>4 DEF Stands, CarriedBy, Taken
<1> QED
  BY <1>3, <1>4 DEF CarriedBy

LEMMA CarriedRequest ==
    ASSUME TypeOK, CarriedInv,
           \/ \E d \in Docs : Uploading(d) \/ UploadDies(d)
           \/ \E a \in Admins : Editing(a) \/ EditDies(a)
           \/ CreateDefaultConfig
           \/ ArchiveDomain \/ PurgeObjects \/ DeleteRows \/ DeleteAborts
    PROVE  CarriedInv'
<1>1. ASSUME job' = job, stranded \subseteq stranded', \A u : Queued(u) => Queued(u)',
             \A d \in Docs :
                \/ status'[d] = "absent"
                \/ status'[d] = "pending" /\ upload'[d] = "inserted"
                \/ /\ status'[d] = status[d]
                   /\ \/ upload'[d] = upload[d] \/ upload[d] # "inserted"
                      \/ Queued(ExtractTask(d))'
                      \/ status[d] = "absent" \/ d \in stranded'
      PROVE  CarriedInv'
  <2> SUFFICES ASSUME NEW d \in Docs, d \notin stranded' PROVE CarriedBy(d)'
    BY DEF CarriedInv
  <2>1. CarriedBy(d)
    BY <1>1 DEF CarriedInv
  <2>2. \A phases : Taken(d, phases)' <=> Taken(d, phases)
    BY <1>1 DEF Taken
  <2>3. (Queued(ExtractTask(d)) => Queued(ExtractTask(d))') /\ (Queued(ChunkTask(d)) => Queued(ChunkTask(d))')
    BY <1>1
  <2> QED
    BY <1>1, <2>1, <2>2, <2>3 DEF CarriedBy
<1>2. queue' = queue => \A u : Queued(u) => Queued(u)'
  BY DEF Queued
<1>3. upload \in [Docs -> {"idle", "stored", "inserted", "done"}] /\ status \in [Docs -> Statuses]
  BY DEF TypeOK
<1>4. ASSUME NEW d \in Docs, StoreFile(d) \/ InsertDocument(d) \/ InsertRejected(d) \/ UploadDies(d)
      PROVE  CarriedInv'
  BY <1>1, <1>2, <1>3, <1>4 DEF StoreFile, InsertDocument, InsertRejected, UploadDies, HasRow,
                                rowVars, watchVars
<1>5. ASSUME NEW d \in Docs, EnqueueExtraction(d) PROVE CarriedInv'
  <2>1. \A u : Queued(u)' <=> (Queued(u) \/ u = ExtractTask(d))
    BY <1>5, QueueGrows, TaskFacts DEF EnqueueExtraction
  <2> QED
    BY <1>1, <1>3, <1>5, <2>1 DEF EnqueueExtraction, rowVars, watchVars
<1>6. ASSUME NEW a \in Admins, EnqueueReindex(a) PROVE CarriedInv'
  <2>1. \A u : Queued(u)' <=> (Queued(u) \/ u = ReindexTask)
    BY <1>6, QueueGrows, TaskFacts DEF EnqueueReindex
  <2> QED
    BY <1>1, <1>6, <2>1 DEF EnqueueReindex, rowVars, watchVars
<1>7. ASSUME NEW a \in Admins, BeginEdit(a) \/ CommitEdit(a) \/ EditRejected(a) \/ EditDies(a)
      PROVE  CarriedInv'
  BY <1>1, <1>2, <1>7 DEF BeginEdit, CommitEdit, EditRejected, EditDies, rowVars, watchVars
<1>8. CASE CreateDefaultConfig \/ ArchiveDomain \/ PurgeObjects \/ DeleteAborts
  BY <1>1, <1>2, <1>8 DEF CreateDefaultConfig, ArchiveDomain, PurgeObjects, DeleteAborts,
                          requestVars, rowVars, watchVars
<1>9. CASE DeleteRows
  <2>1. \A d \in Docs : status'[d] = "absent"
    BY <1>9 DEF DeleteRows
  <2> QED
    BY <1>1, <1>2, <1>9, <2>1 DEF DeleteRows, watchVars
<1> QED
  BY <1>4, <1>5, <1>6, <1>7, <1>8, <1>9 DEF Uploading, Editing

(* What a task that is cut leaves, and what the other steps of a worker do *)
(* to the document of its task.                                            *)
LEMMA CarriedWorker ==
    ASSUME TypeOK, CarriedInv, NEW w \in Workers,
           Work(w) \/ ChunkingFails(w) \/ WorkerCrash(w)
    PROVE  CarriedInv'
<1>1. job \in [Workers -> Job] /\ job[w] \in Job /\ status \in [Docs -> Statuses] /\ NoDoc \notin Docs
  BY ConstantsOK DEF TypeOK
<1>2. queue' = queue => \A u : Queued(u) => Queued(u)'
  BY DEF Queued
<1>3. CASE Take(w)
  <2>1. /\ queue \in Seq(Task) /\ queue # <<>> /\ queue' = Tail(queue)
        /\ job' = [job EXCEPT ![w] = Started(Head(queue))] /\ job[w].pc = "idle"
        /\ upload' = upload /\ status' = status /\ stranded' = stranded
    BY <1>3 DEF Take, At, TypeOK, requestVars, rowVars, watchVars
  <2>2. \A u : Queued(u) => Queued(u)' \/ u = Head(queue)
    BY <2>1, QueueShrinks
  <2>3. job'[w].pc = Head(queue).kind /\ job'[w].doc = Head(queue).doc
    BY <1>1, <2>1 DEF Started
  <2> SUFFICES ASSUME NEW d \in Docs, d \notin stranded PROVE CarriedBy(d)'
    BY <2>1 DEF CarriedInv
  <2>4. CarriedBy(d)
    BY DEF CarriedInv
  <2>5. \A phases : Taken(d, phases) /\ "idle" \notin phases => Taken(d, phases)'
    BY <2>1 DEF Taken
  <2>6. ASSUME Queued(ExtractTask(d)) PROVE Queued(ExtractTask(d))' \/ Taken(d, {"extract"})'
    BY <2>2, <2>3, <2>6 DEF ExtractTask, Taken
  <2>7. ASSUME Queued(ChunkTask(d)) PROVE Queued(ChunkTask(d))' \/ Taken(d, {"chain"} \cup Chunking)'
    BY <2>2, <2>3, <2>7 DEF ChunkTask, Taken, Chunking
  <2>8. "idle" \notin {"chain"} \cup Chunking
    BY DEF Chunking
  <2> QED
    BY <2>1, <2>4, <2>5, <2>6, <2>7, <2>8 DEF CarriedBy
(* The other steps change no job but that of w.                            *)
<1>4. ASSUME NEW j, job' = [job EXCEPT ![w] = j]
      PROVE  job'[w] = j /\ \A v \in Workers : v # w => job'[v] = job[v]
  BY <1>1, <1>4
<1>5. job[w].pc \notin DocPhases => \A d \in Docs : d # job[w].doc
  BY <1>1 DEF Job
<1>6. CASE DocumentVanished(w)
  BY <1>2, <1>4, <1>6, CarriedStep DEF DocumentVanished, Finish, HasRow, Doc, requestVars, rowVars, watchVars
<1>7. CASE MarkProcessing(w)
  <2>1. job'[w].pc = "download" /\ job'[w].doc = job[w].doc
    BY <1>1, <1>7 DEF MarkProcessing, Goto, Job
  <2> QED
    BY <1>1, <1>2, <1>4, <1>7, <2>1, CarriedStep DEF MarkProcessing, Goto, Doc, Stands, requestVars, watchVars
<1>8. CASE Download(w)
  <2>1. job[w].pc = "download" /\ job'[w].pc = "parse" /\ job'[w].doc = job[w].doc
    BY <1>1, <1>8 DEF Download, At, Goto, Job
  <2>2. \A d \in Docs : Stands("download", status[d]) => Stands("parse", status[d])
    BY DEF Stands, Chunking
  <2> QED
    BY <1>1, <1>2, <1>4, <1>8, <2>1, <2>2, CarriedStep
       DEF Download, Goto, requestVars, rowVars, watchVars
<1>9. CASE CommitExtraction(w)
  <2>1. job'[w].pc = "chain" /\ job'[w].doc = job[w].doc
    BY <1>1, <1>9 DEF CommitExtraction, Goto, Job
  <2> QED
    BY <1>1, <1>2, <1>4, <1>9, <2>1, CarriedStep DEF CommitExtraction, Goto, Doc, Stands, requestVars, watchVars
<1>10. CASE ExtractionFails(w) \/ NothingToChunk(w)
  BY <1>1, <1>2, <1>4, <1>10, CarriedStep DEF ExtractionFails, NothingToChunk, Finish, Doc, requestVars, watchVars
<1>11. CASE SwapGeneration(w)
  BY <1>1, <1>2, <1>4, <1>11, CarriedStep DEF SwapGeneration, Finish, Doc, requestVars
<1>12. CASE ChainChunking(w)
  <2>1. PICK c \in Docs : c = job[w].doc
    BY <1>1, <1>12 DEF ChainChunking, At, Job, DocPhases
  <2>2. /\ \A u : Queued(u) => Queued(u)'
        /\ status[c] = "indexing" => Queued(ChunkTask(c))'
    <3>1. CASE status[c] = "indexing"
      BY <1>12, <2>1, <3>1, QueueGrows, TaskFacts DEF ChainChunking, Doc
    <3>2. CASE status[c] # "indexing"
      BY <1>2, <1>12, <2>1, <3>2 DEF ChainChunking, Doc
    <3> QED
      BY <3>1, <3>2
  <2>3. status[c] # "indexing" => ~Stands("chain", status[c])
    BY DEF Stands, Chunking
  <2> QED
    BY <1>4, <1>12, <2>1, <2>2, <2>3, CarriedStep
       DEF ChainChunking, At, Finish, requestVars, rowVars, watchVars
<1>13. ASSUME NEW pc, job[w].pc \in Chunking, pc \in Chunking, job'[w].pc = pc,
              job'[w].doc = job[w].doc, queue' = queue, status' = status, upload' = upload,
              stranded' = stranded, \A v \in Workers : v # w => job'[v] = job[v]
       PROVE  CarriedInv'
  <2>1. \A d \in Docs : Stands(job[w].pc, status[d]) => Stands(pc, status[d])
    BY <1>13 DEF Stands, Chunking
  <2> QED
    BY <1>2, <1>13, <2>1, CarriedStep
<1>14. CASE ReadConfig(w)
  <2>1. \/ job' = [job EXCEPT ![w].pc = "newconfig"]
        \/ job' = [job EXCEPT ![w].pc = "embed", ![w].rev = config]
    BY <1>14 DEF ReadConfig, Goto
  <2>2. \E pc \in Chunking : job'[w].pc = pc /\ job'[w].doc = job[w].doc
    BY <1>1, <2>1 DEF Job, Chunking
  <2>3. \A v \in Workers : v # w => job'[v] = job[v]
    BY <1>1, <2>1
  <2> QED
    BY <1>13, <1>14, <2>2, <2>3 DEF ReadConfig, At, Chunking, requestVars, rowVars, watchVars
<1>15. CASE InsertConfig(w)
  <2>1. job'[w].pc = "embed" /\ job'[w].doc = job[w].doc
    BY <1>1, <1>15 DEF InsertConfig, Job
  <2>2. \A v \in Workers : v # w => job'[v] = job[v]
    BY <1>1, <1>15 DEF InsertConfig
  <2> QED
    BY <1>13, <1>15, <2>1, <2>2 DEF InsertConfig, At, Chunking, requestVars, watchVars
<1>16. CASE RetireOld(w)
  <2>1. job'[w].pc = "swap" /\ job'[w].doc = job[w].doc
    BY <1>1, <1>16 DEF RetireOld, Job
  <2>2. \A v \in Workers : v # w => job'[v] = job[v]
    BY <1>1, <1>16 DEF RetireOld
  <2> QED
    BY <1>13, <1>16, <2>1, <2>2 DEF RetireOld, At, Chunking, requestVars, rowVars, watchVars
<1>17. CASE InsertConfigFails(w) \/ ChunkingFails(w) \/ WorkerCrash(w)
  <2>1. /\ queue' = queue /\ status' = status /\ upload' = upload
        /\ job' = [job EXCEPT ![w] = IdleJob] /\ CutShort(w)
    BY <1>17 DEF InsertConfigFails, ChunkingFails, WorkerCrash, Finish, requestVars, rowVars
  <2>2. CASE job[w].pc \in DocPhases
    <3>1. stranded' = stranded \cup
             {d \in {job[w].doc} : status[d] \in {"pending", "processing", "indexing"}}
      BY <2>1, <2>2 DEF CutShort, CutDocs, At, Doc, DocPhases
    <3> QED
      BY <1>2, <1>4, <2>1, <3>1, CarriedStep
  <2>3. CASE job[w].pc \notin DocPhases
    <3>1. stranded \subseteq stranded'
      BY <2>1 DEF CutShort
    <3> QED
      BY <1>2, <1>4, <1>5, <2>1, <2>3, <3>1, CarriedStep
  <2> QED
    BY <2>2, <2>3
<1>18. CASE ListReady(w)
  <2>1. \A v \in Workers : v # w => job'[v] = job[v]
    BY <1>1, <1>18 DEF ListReady
  <2> QED
    BY <1>2, <1>5, <1>18, <2>1, CarriedStep
       DEF ListReady, At, DocPhases, requestVars, rowVars, watchVars
<1>19. CASE FanOut(w)
  <2>1. \A v \in Workers : v # w => job'[v] = job[v]
    BY <1>1, <1>19 DEF FanOut, Finish
  <2>2. \A u : Queued(u) => Queued(u)'
    <3>1. ASSUME NEW d \in job[w].todo, Publish(ChunkTask(d)) PROVE \A u : Queued(u) => Queued(u)'
      <4>1. d \in Docs
        BY <1>1 DEF Job
      <4> QED
        BY <3>1, <4>1, QueueGrows, TaskFacts
    <3> QED
      BY <1>2, <1>19, <3>1 DEF FanOut
  <2> QED
    BY <1>5, <1>19, <2>1, <2>2, CarriedStep
       DEF FanOut, At, DocPhases, requestVars, rowVars, watchVars
<1> QED
  BY <1>3, <1>6, <1>7, <1>8, <1>9, <1>10, <1>11, <1>12, <1>14, <1>15, <1>16, <1>17, <1>18, <1>19
     DEF Work

(* No hand-over from request to task to task drops a document, with any    *)
(* number of workers and in whatever order they take tasks: a row says     *)
(* "pending", "processing" or "indexing" only while a task is queued or    *)
(* running for it, unless its chain was cut.                               *)
THEOREM NothingStrandedCorrect == Spec => []NothingStranded
<1>1. Init => CarriedInv
  BY DEF Init, CarriedInv, CarriedBy
<1>2. TypeOK /\ CarriedInv /\ [Next]_vars => CarriedInv'
  <2> SUFFICES ASSUME TypeOK, CarriedInv, [Next]_vars PROVE CarriedInv'
    OBVIOUS
  <2>1. CASE UNCHANGED vars
    BY <2>1 DEF vars, requestVars, rowVars, watchVars, CarriedInv, CarriedBy, Taken, Queued
  <2>2. CASE Next
    BY <2>2, CarriedRequest, CarriedWorker DEF Next
  <2> QED
    BY <2>1, <2>2
<1>3. CarriedInv => NothingStranded
  BY DEF CarriedInv, CarriedBy, Taken, NothingStranded, Carried
<1> QED
  BY <1>1, <1>2, <1>3, TypeCorrect, PTL DEF Spec

----------------------------------------------------------------------------
(* No edit is missed, with a single worker.                                *)

(* Who is about to publish chunks of an outdated configuration has a       *)
(* re-indexing queued behind it, unless one was cut.                       *)
StaleInv ==
    \A w \in Workers : \A d \in Docs :
        Doc(w) = d /\ job[w].pc \in {"embed", "swap"} /\ HasRow(d) /\ d \notin outdated
            => job[w].rev = config \/ ReindexPending

FreshInv == FreshOrRefreshing /\ StaleInv

(* Before there is a configuration there are no chunks and no worker is    *)
(* about to publish any.                                                   *)
LEMMA NoConfigNoChunks ==
    ASSUME OrderInv, config = NoRow, domain # "deleted"
    PROVE  /\ \A d \in Docs : Active(d) = {}
           /\ \A w \in Workers : job[w].pc \notin {"embed", "swap"}
<1>1. config = -1 /\ TypeOK
  BY DEF NoRow, OrderInv, GenerationInv
<1>2. ASSUME NEW d \in Docs, NEW i \in DOMAIN chunks[d] PROVE FALSE
  <2>1. chunks[d] \in Seq(Generation)
    BY <1>1 DEF TypeOK
  <2>2. chunks[d][i] \in Generation
    BY <1>2, <2>1
  <2>3. chunks[d][i].rev \in Nat /\ chunks[d][i].rev <= -1
    BY <1>1, <2>2, ConstantsOK DEF Generation, Revisions, OrderInv, ConfigIsNewest
  <2> QED
    BY <2>3
<1>3. ASSUME NEW w \in Workers, job[w].pc \in {"embed", "swap"} PROVE FALSE
  <2>1. job[w].rev \in Nat /\ job[w].rev <= -1
    BY <1>1, <1>3, ConstantsOK DEF TypeOK, Job, Revisions, OrderInv, JobIsNewest
  <2> QED
    BY <2>1
<1> QED
  BY <1>2, <1>3 DEF Active

(* A step of a request that changes neither chunks nor configuration.      *)
LEMMA FreshFrame ==
    ASSUME FreshInv, job' = job, chunks' = chunks, config' = config, outdated' = outdated,
           \A u : Queued(u) => Queued(u)',
           ReindexPending => ReindexPending',
           \A d \in Docs :
              \/ status'[d] = status[d]
              \/ status'[d] = "pending" /\ \A w \in Workers : job[w].doc # d
    PROVE  FreshInv'
<1>1. StaleInv'
  BY DEF FreshInv, StaleInv, HasRow, Doc
<1>2. ASSUME NEW d \in Docs, Refreshing(d) PROVE Refreshing(d)'
  BY <1>2 DEF Refreshing, At, Doc
<1>3. \A d \in Docs : ServedFresh(d) => ServedFresh(d)'
  BY DEF ServedFresh, Active
<1>4. FreshOrRefreshing'
  BY <1>2, <1>3 DEF FreshInv, FreshOrRefreshing
<1> QED
  BY <1>1, <1>4 DEF FreshInv

LEMMA FreshRequest ==
    ASSUME SingleWorker, LifecycleInv, FreshInv,
           \/ \E d \in Docs : Uploading(d) \/ UploadDies(d)
           \/ \E a \in Admins : Editing(a) \/ EditDies(a)
           \/ CreateDefaultConfig
           \/ ArchiveDomain \/ PurgeObjects \/ DeleteRows \/ DeleteAborts
    PROVE  FreshInv'
<1>1. TypeOK /\ OrderInv /\ StageInv
  BY DEF LifecycleInv, OrderInv, GenerationInv
<1>2. /\ upload \in [Docs -> {"idle", "stored", "inserted", "done"}] /\ status \in [Docs -> Statuses]
      /\ edit \in [Admins -> {"idle", "checked", "committed"}] /\ queue \in Seq(Task)
  BY <1>1 DEF TypeOK
<1>3. queue' = queue => \A u : Queued(u) => Queued(u)'
  BY DEF Queued
<1>4. ASSUME \A u : Queued(u) => Queued(u)', edit' = edit PROVE ReindexPending => ReindexPending'
  BY <1>4 DEF ReindexPending
<1>5. ASSUME ReindexPending', job' = job PROVE FreshInv'
  <2>1. StaleInv'
    BY <1>5 DEF StaleInv
  <2>2. \A d \in Docs : Refreshing(d)'
    BY <1>5 DEF Refreshing
  <2> QED
    BY <2>1, <2>2 DEF FreshInv, FreshOrRefreshing
<1>6. ASSUME NEW d \in Docs, StoreFile(d) \/ InsertRejected(d) \/ UploadDies(d) PROVE FreshInv'
  BY <1>3, <1>4, <1>6, FreshFrame DEF StoreFile, InsertRejected, UploadDies, rowVars, watchVars
<1>7. ASSUME NEW d \in Docs, InsertDocument(d) PROVE FreshInv'
  <2>1. upload[d] = "stored" /\ status' = [status EXCEPT ![d] = "pending"]
    BY <1>7 DEF InsertDocument
  <2>2. \A w \in Workers : job[w].doc # d
    BY <1>1, <2>1 DEF StageInv, Place, Fits
  <2> QED
    BY <1>2, <1>3, <1>4, <1>7, <2>1, <2>2, FreshFrame DEF InsertDocument, watchVars
<1>8. ASSUME NEW d \in Docs, EnqueueExtraction(d) PROVE FreshInv'
  <2>1. \A u : Queued(u) => Queued(u)'
    BY <1>1, <1>8, QueueGrows, TaskFacts DEF EnqueueExtraction
  <2> QED
    BY <1>4, <1>8, <2>1, FreshFrame DEF EnqueueExtraction, rowVars, watchVars
<1>9. ASSUME NEW a \in Admins, EnqueueReindex(a) PROVE FreshInv'
  <2>1. Queued(ReindexTask)' /\ job' = job
    BY <1>1, <1>9, QueueGrows, TaskFacts DEF EnqueueReindex
  <2> QED
    BY <1>5, <2>1 DEF ReindexPending
<1>10. ASSUME NEW a \in Admins, BeginEdit(a) \/ EditRejected(a) PROVE FreshInv'
  <2>1. \A b \in Admins : edit[b] = "committed" => edit'[b] = "committed"
    BY <1>2, <1>10 DEF BeginEdit, EditRejected
  <2>2. queue' = queue
    BY <1>10 DEF BeginEdit, EditRejected
  <2>3. ReindexPending => ReindexPending'
    BY <1>3, <2>1, <2>2 DEF ReindexPending
  <2> QED
    BY <1>3, <1>10, <2>3, FreshFrame DEF BeginEdit, EditRejected, rowVars, watchVars
<1>11. ASSUME NEW a \in Admins, CommitEdit(a) PROVE FreshInv'
  <2>1. edit'[a] = "committed" /\ job' = job
    BY <1>2, <1>11 DEF CommitEdit
  <2> QED
    BY <1>5, <2>1 DEF ReindexPending
(* The documents an edit that dies leaves behind are those that may have   *)
(* read the configuration before.                                          *)
<1>12. ASSUME NEW a \in Admins, EditDies(a) PROVE FreshInv'
  <2>1. /\ outdated' = outdated \cup {d \in Docs : status[d] \in {"indexing", "ready"}}
        /\ status' = status /\ job' = job /\ config' = config
    BY <1>12 DEF EditDies, rowVars
  <2>2. FreshOrRefreshing'
    BY <2>1 DEF FreshOrRefreshing
  <2>3. ASSUME NEW w \in Workers, NEW d \in Docs, job[w].doc = d, job[w].pc \in {"embed", "swap"},
               HasRow(d)
        PROVE  status[d] \in {"indexing", "ready"}
    <3>1. Place(d, w)
      BY <1>1 DEF StageInv
    <3>2. status[d] \in {"indexing", "ready", "absent"}
      BY <2>3, <3>1 DEF Place, Fits, Chunking
    <3> QED
      BY <2>3, <3>2 DEF HasRow
  <2>4. StaleInv'
    BY <2>1, <2>3 DEF StaleInv, Doc, HasRow
  <2> QED
    BY <2>2, <2>4 DEF FreshInv
<1>13. CASE CreateDefaultConfig
  <2>1. /\ config = NoRow /\ domain # "deleted" /\ status' = status /\ job' = job
        /\ chunks' = chunks
    BY <1>13 DEF CreateDefaultConfig
  <2>2. \A d \in Docs : Active(d)' = {}
    BY <1>1, <2>1, NoConfigNoChunks DEF Active
  <2>3. \A w \in Workers : job'[w].pc \notin {"embed", "swap"}
    BY <1>1, <2>1, NoConfigNoChunks
  <2>4. StaleInv'
    BY <2>3 DEF StaleInv
  <2>5. \A d \in Docs : ServedFresh(d)'
    BY <2>2 DEF ServedFresh
  <2> QED
    BY <2>4, <2>5 DEF FreshInv, FreshOrRefreshing
<1>14. CASE ArchiveDomain \/ PurgeObjects \/ DeleteAborts
  BY <1>3, <1>4, <1>14, FreshFrame DEF ArchiveDomain, PurgeObjects, DeleteAborts, rowVars, watchVars
<1>15. CASE DeleteRows
  <2>1. \A d \in Docs : status'[d] = "absent"
    BY <1>15 DEF DeleteRows
  <2>2. StaleInv'
    BY <2>1 DEF StaleInv, HasRow
  <2>3. FreshOrRefreshing'
    BY <2>1 DEF FreshOrRefreshing
  <2> QED
    BY <2>2, <2>3 DEF FreshInv
<1> QED
  BY <1>6, <1>7, <1>8, <1>9, <1>10, <1>11, <1>12, <1>13, <1>14, <1>15 DEF Uploading, Editing

(* A step of the worker on its own document c: what is on its way for the  *)
(* others does not depend on it.                                           *)
LEMMA FreshOwn ==
    ASSUME FreshInv, NEW w \in Workers, Workers = {w}, job[w] \in Job, job[w].pc \in DocPhases,
           NoDoc \notin Docs, edit' = edit, config' = config,
           \A u : Queued(u) => Queued(u)',
           \A d \in Docs : d # job[w].doc =>
              /\ status'[d] = status[d] /\ chunks'[d] = chunks[d]
              /\ d \in outdated => d \in outdated',
           \A d \in Docs : d = job[w].doc /\ status'[d] = "ready" /\ d \notin outdated' =>
              ServedFresh(d)' \/ Refreshing(d)',
           StaleInv'
    PROVE  FreshInv'
<1> SUFFICES ASSUME NEW d \in Docs, status'[d] = "ready", d \notin outdated'
             PROVE  ServedFresh(d)' \/ Refreshing(d)'
  BY DEF FreshInv, FreshOrRefreshing
<1>1. CASE d = job[w].doc
  BY <1>1
<1>2. CASE d # job[w].doc
  <2>1. ServedFresh(d) \/ Refreshing(d)
    BY <1>2 DEF FreshInv, FreshOrRefreshing
  <2>2. ServedFresh(d) => ServedFresh(d)'
    BY <1>2 DEF ServedFresh, Active
  <2>3. job[w].pc \notin {"reindex", "fanout"}
    BY DEF DocPhases
  <2>4. Refreshing(d) => ReindexPending \/ Queued(ChunkTask(d))
    BY <1>2, <2>3 DEF Refreshing, At, Doc
  <2>5. ReindexPending => ReindexPending'
    BY DEF ReindexPending
  <2> QED
    BY <2>1, <2>2, <2>4, <2>5 DEF Refreshing
<1> QED
  BY <1>1, <1>2

LEMMA FreshTake ==
    ASSUME SingleWorker, LifecycleInv, FreshInv, NEW w \in Workers, Take(w)
    PROVE  FreshInv'
<1>1. Workers = {w} /\ NoDoc \notin Docs /\ TypeOK
  BY ConstantsOK DEF SingleWorker, LifecycleInv, OrderInv, GenerationInv
<1>2. /\ queue \in Seq(Task) /\ queue # <<>> /\ queue' = Tail(queue) /\ Head(queue) \in Task
      /\ job \in [Workers -> Job] /\ job' = [job EXCEPT ![w] = Started(Head(queue))]
      /\ job[w] \in Job /\ job[w].pc = "idle"
      /\ edit' = edit /\ config' = config /\ status' = status /\ chunks' = chunks /\ outdated' = outdated
  BY <1>1 DEF Take, At, TypeOK, requestVars, rowVars, watchVars
<1>3. job'[w].pc = Head(queue).kind /\ job'[w].doc = Head(queue).doc
  BY <1>2 DEF Started
<1>4. Head(queue).kind \in {"extract", "chunk", "reindex"}
  BY <1>2 DEF Task
<1>5. StaleInv'
  BY <1>1, <1>3, <1>4 DEF StaleInv
<1>6. \A u : Queued(u) => Queued(u)' \/ u = Head(queue)
  BY <1>2, QueueShrinks
<1> SUFFICES ASSUME NEW d \in Docs, status[d] = "ready", d \notin outdated
             PROVE  ServedFresh(d)' \/ Refreshing(d)'
  BY <1>2, <1>5 DEF FreshInv, FreshOrRefreshing
<1>7. ServedFresh(d) \/ Refreshing(d)
  BY DEF FreshInv, FreshOrRefreshing
<1>8. ServedFresh(d) => ServedFresh(d)'
  BY <1>2 DEF ServedFresh, Active
<1>9. job[w].doc # d
  BY <1>1, <1>2 DEF Job, DocPhases
<1>10. Refreshing(d) => ReindexPending \/ Queued(ChunkTask(d))
  BY <1>1, <1>2, <1>9 DEF Refreshing, At, Doc
<1>11. CASE Head(queue) = ReindexTask
  <2>1. job'[w].pc = "reindex"
    BY <1>3, <1>11 DEF ReindexTask
  <2> QED
    BY <2>1 DEF Refreshing, At
<1>12. CASE Head(queue) # ReindexTask
  <2>1. ReindexPending => ReindexPending'
    BY <1>2, <1>6, <1>12 DEF ReindexPending
  <2>2. Queued(ChunkTask(d)) => Refreshing(d)'
    <3>1. CASE Head(queue) = ChunkTask(d)
      <4>1. job'[w].pc = "chunk" /\ job'[w].doc = d
        BY <1>3, <3>1 DEF ChunkTask
      <4> QED
        BY <4>1 DEF Refreshing, Doc
    <3>2. CASE Head(queue) # ChunkTask(d)
      BY <1>6, <3>2 DEF Refreshing
    <3> QED
      BY <3>1, <3>2
  <2> QED
    BY <1>7, <1>8, <1>10, <2>1, <2>2 DEF Refreshing
<1> QED
  BY <1>11, <1>12

(* Listing the ready documents and handing them out keeps each of them in  *)
(* view; a crash on the way is recorded for those still to be handed out.  *)
LEMMA FreshReindex ==
    ASSUME SingleWorker, LifecycleInv, FreshInv, NEW w \in Workers,
           ListReady(w) \/ FanOut(w) \/ (WorkerCrash(w) /\ job[w].pc \notin DocPhases)
    PROVE  FreshInv'
<1>1. Workers = {w} /\ NoDoc \notin Docs /\ TypeOK
  BY ConstantsOK DEF SingleWorker, LifecycleInv, OrderInv, GenerationInv
<1>2. /\ job \in [Workers -> Job] /\ job[w] \in Job /\ job[w].pc \in {"reindex", "fanout"}
      /\ job[w].doc = NoDoc
      /\ edit' = edit /\ config' = config /\ status' = status /\ chunks' = chunks
  <2>1. job[w] \in Job
    BY <1>1 DEF TypeOK
  <2> QED
    BY <1>1, <2>1 DEF ListReady, FanOut, WorkerCrash, At, TypeOK, Job, Phases, DocPhases,
                      requestVars, rowVars
<1>3. StaleInv'
  <2>1. job'[w].pc \notin {"embed", "swap"}
    <3>1. CASE ListReady(w)
      BY <1>2, <3>1 DEF ListReady, Job
    <3>2. CASE FanOut(w)
      BY <1>2, <3>2 DEF FanOut, Finish, IdleJob, Job
    <3>3. CASE WorkerCrash(w)
      BY <1>2, <3>3 DEF WorkerCrash, Finish, IdleJob
    <3> QED
      BY <3>1, <3>2, <3>3
  <2> QED
    BY <1>1, <2>1 DEF StaleInv
<1>4. \A u : Queued(u) => Queued(u)'
  <2>1. queue' = queue => \A u : Queued(u) => Queued(u)'
    BY DEF Queued
  <2>2. ASSUME NEW d \in job[w].todo, Publish(ChunkTask(d)) PROVE \A u : Queued(u) => Queued(u)'
    <3>1. d \in Docs
      BY <1>2 DEF Job
    <3> QED
      BY <1>1, <2>2, <3>1, QueueGrows, TaskFacts
  <2> QED
    BY <2>1, <2>2 DEF ListReady, FanOut, WorkerCrash
<1>5. ReindexPending => ReindexPending'
  BY <1>2, <1>4 DEF ReindexPending
<1> SUFFICES ASSUME NEW d \in Docs, status[d] = "ready", d \notin outdated'
             PROVE  ServedFresh(d)' \/ Refreshing(d)'
  BY <1>2, <1>3 DEF FreshInv, FreshOrRefreshing
<1>6. ServedFresh(d) => ServedFresh(d)'
  BY <1>2 DEF ServedFresh, Active
<1>7. CASE ListReady(w)
  <2>1. job'[w].pc = "fanout" /\ job'[w].todo = Ready
    BY <1>2, <1>7 DEF ListReady, Job
  <2>2. d \in Ready
    BY DEF Ready
  <2> QED
    BY <2>1, <2>2 DEF Refreshing, At
<1>8. CASE FanOut(w)
  <2>1. ServedFresh(d) \/ Refreshing(d)
    BY <1>8 DEF FreshInv, FreshOrRefreshing, FanOut, watchVars
  <2>2. Refreshing(d) => ReindexPending \/ Queued(ChunkTask(d)) \/ d \in job[w].todo
    BY <1>1, <1>2, <1>8 DEF Refreshing, At, Doc, FanOut
  <2>3. d \in job[w].todo => Refreshing(d)'
    <3> SUFFICES ASSUME d \in job[w].todo PROVE Refreshing(d)'
      OBVIOUS
    <3>1. PICK e \in job[w].todo : Publish(ChunkTask(e)) /\ job' = [job EXCEPT ![w].todo = @ \ {e}]
      BY <1>8 DEF FanOut
    <3>2. CASE e = d
      <4>1. Queued(ChunkTask(d))'
        BY <1>1, <3>1, <3>2, QueueGrows, TaskFacts
      <4> QED
        BY <4>1 DEF Refreshing
    <3>3. CASE e # d
      <4>1. job'[w].pc = "fanout" /\ d \in job'[w].todo
        BY <1>2, <1>8, <3>1, <3>3 DEF FanOut, At, Job
      <4> QED
        BY <4>1 DEF Refreshing, At
    <3> QED
      BY <3>2, <3>3
  <2> QED
    BY <1>4, <1>5, <1>6, <2>1, <2>2, <2>3 DEF Refreshing
<1>9. CASE WorkerCrash(w)
  <2>1. outdated' = outdated \cup {e \in CutDocs(w) : status[e] = "ready"}
    BY <1>9 DEF WorkerCrash, CutShort
  <2>2. d \notin CutDocs(w) /\ d \notin outdated
    BY <2>1
  <2>3. job[w].pc # "reindex"
    BY <2>2 DEF CutDocs, At, Ready
  <2>4. d \notin job[w].todo
    BY <1>2, <2>2, <2>3 DEF CutDocs, At
  <2>5. ServedFresh(d) \/ Refreshing(d)
    BY <2>2 DEF FreshInv, FreshOrRefreshing
  <2>6. Refreshing(d) => ReindexPending \/ Queued(ChunkTask(d))
    BY <1>1, <1>2, <2>3, <2>4 DEF Refreshing, At, Doc
  <2> QED
    BY <1>4, <1>5, <1>6, <2>5, <2>6 DEF Refreshing
<1> QED
  BY <1>7, <1>8, <1>9

(* The end of a task, by completion, failure or crash.                     *)
LEMMA FreshFinish ==
    ASSUME SingleWorker, LifecycleInv, LifecycleInv', FreshInv, NEW w \in Workers,
           \/ DocumentVanished(w) \/ ExtractionFails(w) \/ ChainChunking(w) \/ InsertConfigFails(w)
           \/ NothingToChunk(w) \/ SwapGeneration(w) \/ ChunkingFails(w)
           \/ WorkerCrash(w) /\ job[w].pc \in DocPhases
    PROVE  FreshInv'
<1>1. Workers = {w} /\ NoDoc \notin Docs /\ TypeOK /\ ReadyIsServed' /\ OrderInv /\ GenerationInv'
  BY ConstantsOK DEF SingleWorker, LifecycleInv, OrderInv, GenerationInv, ContentsInv
<1>2. /\ job[w] \in Job /\ job[w].pc \in DocPhases /\ job' = [job EXCEPT ![w] = IdleJob]
      /\ job \in [Workers -> Job] /\ edit' = edit /\ config' = config /\ status \in [Docs -> Statuses]
  <2>1. job \in [Workers -> Job] /\ status \in [Docs -> Statuses]
    BY <1>1 DEF TypeOK
  <2>2. job[w].pc \in DocPhases
    BY DEF DocumentVanished, ExtractionFails, ChainChunking, InsertConfigFails, NothingToChunk,
           SwapGeneration, ChunkingFails, At, DocPhases
  <2> QED
    BY <2>1, <2>2 DEF DocumentVanished, ExtractionFails, ChainChunking, InsertConfigFails,
           NothingToChunk, SwapGeneration, ChunkingFails, WorkerCrash, Finish, requestVars, rowVars
<1>3. PICK c \in Docs : c = job[w].doc
  BY <1>2 DEF Job, DocPhases, Phases
<1>4. StaleInv'
  <2>1. job'[w].pc = "idle"
    BY <1>2 DEF IdleJob
  <2> QED
    BY <1>1, <2>1 DEF StaleInv
<1>5. \A u : Queued(u) => Queued(u)'
  <2>1. queue' = queue => \A u : Queued(u) => Queued(u)'
    BY DEF Queued
  <2>2. CASE ChainChunking(w)
    <3>1. Publish(ChunkTask(c)) \/ queue' = queue
      BY <1>3, <2>2 DEF ChainChunking, Doc
    <3> QED
      BY <1>1, <2>1, <3>1, QueueGrows, TaskFacts
  <2> QED
    BY <2>1, <2>2 DEF DocumentVanished, ExtractionFails, InsertConfigFails, NothingToChunk,
           SwapGeneration, ChunkingFails, WorkerCrash
<1>6. Place(c, w)
  BY DEF LifecycleInv, StageInv
<1>7. ASSUME NEW d \in Docs, d # c
      PROVE  /\ status'[d] = status[d] /\ chunks'[d] = chunks[d]
             /\ d \in outdated => d \in outdated'
  <2>1. CASE DocumentVanished(w) \/ ChainChunking(w)
    BY <2>1 DEF DocumentVanished, ChainChunking, rowVars, watchVars
  <2>2. CASE ExtractionFails(w) \/ NothingToChunk(w)
    BY <1>2, <1>3, <1>7, <2>2 DEF ExtractionFails, NothingToChunk, Doc, watchVars
  <2>3. CASE SwapGeneration(w)
    BY <1>2, <1>3, <1>7, <2>3 DEF SwapGeneration, Doc
  <2>4. CASE InsertConfigFails(w) \/ ChunkingFails(w) \/ WorkerCrash(w)
    BY <2>4 DEF InsertConfigFails, ChunkingFails, WorkerCrash, CutShort, rowVars
  <2> QED
    BY <2>1, <2>2, <2>3, <2>4
<1>8. ASSUME status'[c] = "ready", c \notin outdated' PROVE ServedFresh(c)' \/ Refreshing(c)'
  <2>1. CASE DocumentVanished(w)
    BY <1>3, <1>8, <2>1 DEF DocumentVanished, HasRow, Doc, rowVars
  <2>2. CASE ExtractionFails(w)
    BY <1>2, <1>3, <1>8, <2>2 DEF ExtractionFails, Doc
  <2>3. CASE ChainChunking(w)
    BY <1>3, <1>6, <1>8, <2>3 DEF ChainChunking, At, Place, Fits, rowVars
  <2>4. CASE InsertConfigFails(w) \/ ChunkingFails(w) \/ WorkerCrash(w)
    <3>1. CutShort(w) /\ status' = status
      BY <2>4 DEF InsertConfigFails, ChunkingFails, WorkerCrash, rowVars
    <3>2. c \in CutDocs(w)
      BY <1>2, <1>3 DEF CutDocs, At, Doc, DocPhases
    <3> QED
      BY <1>8, <3>1, <3>2 DEF CutShort
  <2>5. CASE NothingToChunk(w)
    <3>1. elements'[c] # "some"
      BY <1>3, <2>5 DEF NothingToChunk, Doc
    <3>2. Active(c)' = {}
      BY <1>1, <3>1 DEF ReadyIsServed
    <3> QED
      BY <3>2 DEF ServedFresh
  <2>6. CASE SwapGeneration(w)
    <3>1. \A i \in DOMAIN chunks'[c] : chunks'[c][i].active => chunks'[c][i].rev = job[w].rev
      BY <1>1, <1>3, <2>6, OrderSwap DEF Doc
    <3>2. CASE job[w].rev = config
      BY <1>2, <3>1, <3>2 DEF ServedFresh, Active
    <3>3. CASE job[w].rev # config
      <4>1. c \notin outdated /\ HasRow(c) /\ job[w].pc = "swap"
        BY <1>3, <1>8, <2>6, <3>3 DEF SwapGeneration, Doc, At
      <4>2. ReindexPending
        BY <1>3, <3>3, <4>1 DEF FreshInv, StaleInv, Doc
      <4> QED
        BY <1>2, <1>5, <4>2 DEF ReindexPending, Refreshing
    <3> QED
      BY <3>2, <3>3
  <2> QED
    BY <2>1, <2>2, <2>3, <2>4, <2>5, <2>6
<1> QED
  BY <1>1, <1>2, <1>3, <1>4, <1>5, <1>7, <1>8, FreshOwn

LEMMA FreshMove ==
    ASSUME SingleWorker, LifecycleInv, FreshInv, NEW w \in Workers,
           \/ MarkProcessing(w) \/ Download(w) \/ CommitExtraction(w)
           \/ ReadConfig(w) \/ RetireOld(w)
    PROVE  FreshInv'
<1>1. Workers = {w} /\ NoDoc \notin Docs /\ TypeOK
  BY ConstantsOK DEF SingleWorker, LifecycleInv, OrderInv, GenerationInv
<1>2. /\ job[w] \in Job /\ job[w].pc \in DocPhases /\ job \in [Workers -> Job]
      /\ edit' = edit /\ config' = config /\ chunks' = chunks /\ outdated' = outdated
      /\ queue' = queue /\ status \in [Docs -> Statuses]
  BY <1>1 DEF MarkProcessing, Download, CommitExtraction, ReadConfig, RetireOld, At, DocPhases,
              TypeOK, requestVars, rowVars, watchVars
<1>3. PICK c \in Docs : c = job[w].doc
  BY <1>2 DEF Job, DocPhases, Phases
<1>4. Place(c, w)
  BY DEF LifecycleInv, StageInv
<1>5. \A u : Queued(u) <=> Queued(u)'
  BY <1>2 DEF Queued
<1>6. \A d \in Docs : d # c => status'[d] = status[d]
  BY <1>2, <1>3 DEF MarkProcessing, Download, CommitExtraction, ReadConfig, RetireOld, Doc, rowVars
<1>7. ReindexPending => ReindexPending'
  BY <1>2, <1>5 DEF ReindexPending
<1>8. CASE MarkProcessing(w) \/ Download(w) \/ CommitExtraction(w)
  <2>1. job'[w].pc \in {"download", "parse", "chain"}
    BY <1>2, <1>8 DEF MarkProcessing, Download, CommitExtraction, Goto, Job
  <2>2. StaleInv'
    BY <1>1, <2>1 DEF StaleInv
  <2>3. status'[c] # "ready"
    BY <1>2, <1>3, <1>4, <1>8 DEF MarkProcessing, Download, CommitExtraction, At, Doc, Place, Fits, rowVars
  <2> QED
    BY <1>1, <1>2, <1>3, <1>5, <1>6, <2>2, <2>3, FreshOwn
<1>9. CASE ReadConfig(w)
  <2>1. \/ job'[w].pc = "newconfig" /\ job'[w].doc = c
        \/ job'[w].pc = "embed" /\ job'[w].doc = c /\ job'[w].rev = config
    <3>1. CASE config = NoRow
      BY <1>2, <1>3, <1>9, <3>1 DEF ReadConfig, Goto, Job
    <3>2. CASE config # NoRow
      BY <1>2, <1>3, <1>9, <3>2 DEF ReadConfig, Job
    <3> QED
      BY <3>1, <3>2
  <2>2. StaleInv'
    BY <1>1, <1>2, <2>1 DEF StaleInv, Doc
  <2>3. Refreshing(c)'
    BY <1>2, <2>1 DEF Refreshing, Doc
  <2> QED
    BY <1>1, <1>2, <1>3, <1>5, <1>6, <2>2, <2>3, FreshOwn
<1>10. CASE RetireOld(w)
  <2>1. job'[w].pc = "swap" /\ job'[w].doc = c /\ job'[w].rev = job[w].rev /\ job[w].pc = "embed"
    BY <1>2, <1>3, <1>10 DEF RetireOld, At, Job
  <2>2. status' = status
    BY <1>10 DEF RetireOld, rowVars
  <2>3. job[w].rev = config \/ ReindexPending \/ ~HasRow(c) \/ c \in outdated
    BY <1>3, <2>1 DEF FreshInv, StaleInv, Doc
  <2>4. StaleInv'
    BY <1>1, <1>2, <1>7, <2>1, <2>2, <2>3 DEF StaleInv, Doc, HasRow
  <2>5. HasRow(c) /\ c \notin outdated => Refreshing(c)'
    BY <1>2, <1>7, <2>1, <2>3 DEF Refreshing, Doc
  <2>6. status'[c] = "ready" => HasRow(c)
    BY <2>2 DEF HasRow
  <2> QED
    BY <1>1, <1>2, <1>3, <1>5, <1>6, <2>4, <2>5, <2>6, FreshOwn
<1> QED
  BY <1>8, <1>9, <1>10

LEMMA FreshInsertConfig ==
    ASSUME SingleWorker, LifecycleInv, NEW w \in Workers, InsertConfig(w)
    PROVE  FreshInv'
<1>1. Workers = {w} /\ TypeOK /\ OrderInv
  BY DEF SingleWorker, LifecycleInv, OrderInv, GenerationInv
<1>2. /\ job \in [Workers -> Job] /\ config = NoRow /\ domain # "deleted" /\ config' = 0
      /\ chunks' = chunks /\ job' = [job EXCEPT ![w].pc = "embed", ![w].rev = 0]
  BY <1>1 DEF InsertConfig, TypeOK
<1>3. job'[w].rev = config'
  BY <1>2 DEF Job
<1>4. StaleInv'
  BY <1>1, <1>3 DEF StaleInv
<1>5. \A d \in Docs : Active(d)' = {}
  BY <1>1, <1>2, NoConfigNoChunks DEF Active
<1>6. \A d \in Docs : ServedFresh(d)'
  BY <1>5 DEF ServedFresh
<1> QED
  BY <1>4, <1>6 DEF FreshInv, FreshOrRefreshing

(* With the single worker of the deployment, no edit of the configuration  *)
(* is missed by a document, also one that was being extracted or chunked   *)
(* when the re-indexing listed the ready ones: what is served was built    *)
(* with the current configuration, or will be, unless a re-chunking was    *)
(* cut.                                                                    *)
THEOREM FreshOrRefreshingCorrect ==
    ASSUME SingleWorker PROVE Spec => []FreshOrRefreshing
<1>1. Init => FreshInv
  BY DEF Init, FreshInv, FreshOrRefreshing, StaleInv, HasRow
<1>2. LifecycleInv /\ LifecycleInv' /\ FreshInv /\ [Next]_vars => FreshInv'
  <2> SUFFICES ASSUME LifecycleInv, LifecycleInv', FreshInv, [Next]_vars PROVE FreshInv'
    OBVIOUS
  <2>1. CASE UNCHANGED vars
    <3>1. \A u : Queued(u) => Queued(u)'
      BY <2>1 DEF vars, Queued
    <3>2. ReindexPending => ReindexPending'
      BY <2>1, <3>1 DEF vars, requestVars, ReindexPending
    <3> QED
      BY <2>1, <3>1, <3>2, FreshFrame DEF vars, rowVars, watchVars
  <2>2. ASSUME NEW w \in Workers, Work(w) \/ ChunkingFails(w) \/ WorkerCrash(w) PROVE FreshInv'
    BY <2>2, FreshTake, FreshReindex, FreshFinish, FreshMove, FreshInsertConfig DEF Work
  <2>3. CASE Next
    BY <2>2, <2>3, FreshRequest DEF Next
  <2> QED
    BY <2>1, <2>3
<1>3. FreshInv => FreshOrRefreshing
  BY DEF FreshInv
<1> QED
  BY <1>1, <1>2, <1>3, LifecycleAlways, PTL DEF Spec

=============================================================================
