--------------------- MODULE IngestionPipeline_proofs ---------------------
(* Theorems about IngestionPipeline for any number of documents, admins,   *)
(* edits and faults.                                                       *)
EXTENDS IngestionPipeline, TLAPS

(* Retiring keeps the number of generations and their types.               *)
LEMMA RetiredType ==
    ASSUME NEW gens \in Seq(Generation), NEW n \in Nat
    PROVE  /\ Retired(gens, n) \in Seq(Generation)
           /\ Len(Retired(gens, n)) = Len(gens)
           /\ DOMAIN Retired(gens, n) = 1 .. Len(gens)
<1> DEFINE kept == [i \in 1 .. Len(gens) |->
                      [rev |-> gens[i].rev, active |-> gens[i].active /\ i > n]]
<1>1. DOMAIN gens = 1 .. Len(gens) /\ Len(gens) \in Nat
  OBVIOUS
<1>2. Retired(gens, n) = kept
  BY <1>1 DEF Retired
<1>3. \A i \in 1 .. Len(gens) : kept[i] \in Generation
  <2> SUFFICES ASSUME NEW i \in 1 .. Len(gens) PROVE kept[i] \in Generation
    OBVIOUS
  <2>1. gens[i] \in Generation
    BY <1>1
  <2>2. gens[i].rev \in Revisions /\ (gens[i].active /\ i > n) \in BOOLEAN
    BY <2>1 DEF Generation
  <2> QED
    BY <2>2 DEF Generation
<1>4. kept \in Seq(Generation) /\ Len(kept) = Len(gens)
  BY <1>1, <1>3
<1> QED
  BY <1>1, <1>2, <1>4

(* The initial state is well-typed.                                        *)
LEMMA TypeInit == Init => TypeOK
<1> SUFFICES ASSUME Init PROVE TypeOK
  OBVIOUS
<1>1. IdleJob \in Job
  BY ConstantsOK DEF IdleJob, Job, Phases, DocPhases, Revisions
<1>2. job \in [Workers -> Job]
  BY <1>1 DEF Init
<1>3. queue \in Seq(Task) /\ chunks \in [Docs -> Seq(Generation)]
  BY DEF Init
<1>4. /\ upload \in [Docs -> {"idle", "stored", "inserted", "done"}]
      /\ edit \in [Admins -> {"idle", "checked", "committed"}]
      /\ status \in [Docs -> Statuses]
      /\ elements \in [Docs -> {"none", "empty", "some"}]
  BY DEF Init, Statuses
<1>5. /\ purging \in BOOLEAN /\ config \in Revisions \cup {NoRow}
      /\ domain \in {"active", "archived", "deleted"}
  BY DEF Init
<1>6. objects \subseteq Docs /\ stranded \subseteq Docs /\ outdated \subseteq Docs
  BY DEF Init
<1>7. faults \in 0 .. MaxFaults
  BY ConstantsOK DEF Init
<1> QED
  BY <1>2, <1>3, <1>4, <1>5, <1>6, <1>7 DEF TypeOK

(* Each step of a request, of the administrators or of the faults of a     *)
(* request keeps the state well-typed.                                     *)
LEMMA TypeRequest ==
    ASSUME TypeOK,
           \/ \E d \in Docs : Uploading(d) \/ UploadDies(d)
           \/ \E a \in Admins : Editing(a) \/ EditDies(a)
           \/ CreateDefaultConfig
           \/ ArchiveDomain \/ PurgeObjects \/ DeleteRows \/ DeleteAborts
    PROVE  TypeOK'
<1> USE ConstantsOK DEF TypeOK, requestVars, rowVars, watchVars, Publish, Fault, HasRow,
                        Task, ExtractTask, ReindexTask, Statuses
<1>1. ASSUME NEW d \in Docs, StoreFile(d) PROVE TypeOK'
  BY <1>1 DEF StoreFile
<1>2. ASSUME NEW d \in Docs, InsertDocument(d) PROVE TypeOK'
  BY <1>2 DEF InsertDocument
<1>3. ASSUME NEW d \in Docs, InsertRejected(d) PROVE TypeOK'
  BY <1>3 DEF InsertRejected
<1>4. ASSUME NEW d \in Docs, EnqueueExtraction(d) PROVE TypeOK'
  BY <1>4 DEF EnqueueExtraction
<1>5. ASSUME NEW d \in Docs, UploadDies(d) PROVE TypeOK'
  BY <1>5 DEF UploadDies
<1>6. ASSUME NEW a \in Admins, Editing(a) PROVE TypeOK'
  <2>1. CASE BeginEdit(a)
    BY <2>1 DEF BeginEdit
  <2>2. CASE CommitEdit(a)
    BY <2>2 DEF CommitEdit, Revisions, NoRow
  <2>3. CASE EditRejected(a)
    BY <2>3 DEF EditRejected
  <2>4. CASE EnqueueReindex(a)
    BY <2>4 DEF EnqueueReindex
  <2> QED
    BY <1>6, <2>1, <2>2, <2>3, <2>4 DEF Editing
<1>7. ASSUME NEW a \in Admins, EditDies(a) PROVE TypeOK'
  BY <1>7 DEF EditDies
<1>8. CASE CreateDefaultConfig
  BY <1>8 DEF CreateDefaultConfig, Revisions
<1>9. CASE ArchiveDomain \/ PurgeObjects \/ DeleteAborts
  BY <1>9 DEF ArchiveDomain, PurgeObjects, DeleteAborts
<1>10. CASE DeleteRows
  <2>1. /\ status' \in [Docs -> Statuses]
        /\ elements' \in [Docs -> {"none", "empty", "some"}]
        /\ chunks' \in [Docs -> Seq(Generation)]
    BY <1>10 DEF DeleteRows
  <2>2. purging' \in BOOLEAN /\ config' \in Revisions \cup {NoRow}
    BY <1>10 DEF DeleteRows
  <2> QED
    BY <1>10, <2>1, <2>2 DEF DeleteRows
<1> QED
  BY <1>1, <1>2, <1>3, <1>4, <1>5, <1>6, <1>7, <1>8, <1>9, <1>10 DEF Uploading

(* Each step of a worker keeps the state well-typed.                       *)
LEMMA TypeWorker ==
    ASSUME TypeOK, NEW w \in Workers,
           Work(w) \/ ChunkingFails(w) \/ WorkerCrash(w)
    PROVE  TypeOK'
<1> USE ConstantsOK DEF TypeOK, requestVars, rowVars, watchVars, At, Goto, Finish, Doc,
                        HasRow, DocPhases, Phases
<1>1. IdleJob \in Job
  BY DEF IdleJob, Job, Revisions
<1>2. Ready \subseteq Docs
  BY DEF Ready
<1>3. job[w] \in Job
  OBVIOUS
<1>4. CASE Take(w)
  <2>1. Head(queue) \in Task /\ Tail(queue) \in Seq(Task)
    BY <1>4 DEF Take
  <2>2. Started(Head(queue)) \in Job
    BY <2>1 DEF Started, Job, Task, Revisions
  <2> QED
    BY <1>4, <2>1, <2>2 DEF Take
<1>5. CASE DocumentVanished(w)
  BY <1>1, <1>5 DEF DocumentVanished
<1>6. CASE MarkProcessing(w)
  BY <1>3, <1>6 DEF MarkProcessing, Job, Statuses
<1>7. CASE Download(w)
  BY <1>3, <1>7 DEF Download, Job
<1>8. CASE CommitExtraction(w)
  <2>1. job' \in [Workers -> Job]
    BY <1>3, <1>8 DEF CommitExtraction, Job
  <2>2. status' \in [Docs -> Statuses] /\ elements' \in [Docs -> {"none", "empty", "some"}]
    BY <1>8 DEF CommitExtraction, Statuses
  <2> QED
    BY <1>8, <2>1, <2>2 DEF CommitExtraction
<1>9. CASE ExtractionFails(w)
  BY <1>1, <1>9 DEF ExtractionFails, Statuses
<1>10. CASE ChainChunking(w)
  <2>1. Doc(w) \in Docs
    BY <1>3, <1>10 DEF ChainChunking, Job
  <2>2. PICK task \in Task : queue' = Append(queue, task) \/ queue' = queue
    <3>1. [kind |-> "chunk", doc |-> Doc(w)] \in Task
      BY <2>1 DEF Task
    <3>2. CASE status[Doc(w)] = "indexing"
      BY <1>10, <3>1, <3>2 DEF ChainChunking, Publish, ChunkTask
    <3>3. CASE status[Doc(w)] # "indexing"
      BY <1>10, <3>1, <3>3 DEF ChainChunking
    <3> QED
      BY <3>2, <3>3
  <2>3. queue' \in Seq(Task)
    <3>1. CASE queue' = Append(queue, task)
      BY <3>1
    <3>2. CASE queue' = queue
      BY <3>2
    <3> QED
      BY <2>2, <3>1, <3>2
  <2>4. job' \in [Workers -> Job]
    BY <1>1, <1>10 DEF ChainChunking
  <2> QED
    BY <1>10, <2>3, <2>4 DEF ChainChunking
<1>11. CASE ReadConfig(w)
  <2>1. job' \in [Workers -> Job]
    <3>1. \/ job' = [job EXCEPT ![w].pc = "newconfig"]
          \/ config \in Revisions /\ job' = [job EXCEPT ![w].pc = "embed", ![w].rev = config]
      BY <1>11 DEF ReadConfig
    <3>2. job[w].pc \in DocPhases
      BY <1>11 DEF ReadConfig
    <3>3. CASE job' = [job EXCEPT ![w].pc = "newconfig"]
      BY <1>3, <3>2, <3>3 DEF Job
    <3>4. CASE config \in Revisions /\ job' = [job EXCEPT ![w].pc = "embed", ![w].rev = config]
      BY <1>3, <3>2, <3>4 DEF Job
    <3> QED
      BY <3>1, <3>3, <3>4
  <2> QED
    BY <1>11, <2>1 DEF ReadConfig
<1>12. CASE InsertConfig(w)
  <2>1. 0 \in Revisions
    BY DEF Revisions
  <2>2. job' \in [Workers -> Job]
    BY <1>3, <1>12, <2>1 DEF InsertConfig, Job
  <2> QED
    BY <1>12, <2>1, <2>2 DEF InsertConfig
<1>13. ASSUME CutShort(w), job[w].pc # "idle" PROVE stranded' \subseteq Docs /\ outdated' \subseteq Docs
  <2>1. CutDocs(w) \subseteq Docs
    BY <1>2, <1>3, <1>13 DEF CutDocs, Job
  <2> QED
    BY <1>13, <2>1 DEF CutShort
<1>14. CASE InsertConfigFails(w)
  BY <1>1, <1>13, <1>14 DEF InsertConfigFails
<1>15. CASE NothingToChunk(w)
  BY <1>1, <1>15 DEF NothingToChunk, Statuses
<1>16. CASE RetireOld(w)
  <2>1. Len(chunks[Doc(w)]) \in Nat
    BY <1>3, <1>16 DEF RetireOld, Job
  <2> QED
    BY <1>3, <1>16, <2>1 DEF RetireOld, Job
<1>17. CASE SwapGeneration(w)
  <2> DEFINE new == [rev |-> job[w].rev, active |-> TRUE]
  <2>1. Doc(w) \in Docs /\ job[w].seen \in Nat /\ job[w].rev \in Revisions
    BY <1>3, <1>17 DEF SwapGeneration, Job
  <2>2. new \in Generation
    BY <2>1 DEF Generation
  <2>3. Append(Retired(chunks[Doc(w)], job[w].seen), new) \in Seq(Generation)
    BY <2>1, <2>2, RetiredType
  <2>4. chunks' \in [Docs -> Seq(Generation)]
    BY <1>17, <2>3 DEF SwapGeneration
  <2> QED
    BY <1>1, <1>17, <2>4 DEF SwapGeneration, Statuses
<1>18. CASE ChunkingFails(w)
  BY <1>1, <1>13, <1>18 DEF ChunkingFails, Fault
<1>19. CASE ListReady(w)
  BY <1>2, <1>3, <1>19 DEF ListReady, Job
<1>20. CASE FanOut(w)
  <2>1. ASSUME NEW d \in job[w].todo, Publish(ChunkTask(d)),
               job' = [job EXCEPT ![w].todo = @ \ {d}]
        PROVE  queue' \in Seq(Task) /\ job' \in [Workers -> Job]
    <3>1. d \in Docs
      BY <1>3 DEF Job
    <3>2. queue' \in Seq(Task)
      BY <2>1, <3>1 DEF Publish, ChunkTask, Task
    <3> QED
      BY <1>3, <2>1, <3>2 DEF Job
  <2> QED
    BY <1>1, <1>20, <2>1 DEF FanOut
<1>21. CASE WorkerCrash(w)
  BY <1>1, <1>13, <1>21 DEF WorkerCrash, Fault
<1> QED
  BY <1>4, <1>5, <1>6, <1>7, <1>8, <1>9, <1>10, <1>11, <1>12, <1>14, <1>15, <1>16,
     <1>17, <1>18, <1>19, <1>20, <1>21 DEF Work

(* The state keeps its type, for any numbers of documents, workers, admins *)
(* and faults.                                                             *)
THEOREM TypeCorrect == Spec => []TypeOK
<1>1. TypeOK /\ [Next]_vars => TypeOK'
  <2> SUFFICES ASSUME TypeOK, [Next]_vars PROVE TypeOK'
    OBVIOUS
  <2>1. CASE UNCHANGED vars
    BY <2>1 DEF TypeOK, vars, requestVars, rowVars, watchVars
  <2>2. CASE Next
    BY <2>2, TypeRequest, TypeWorker DEF Next
  <2> QED
    BY <2>1, <2>2
<1> QED
  BY <1>1, TypeInit, PTL DEF Spec

----------------------------------------------------------------------------
(* One generation served.  It takes a single worker: the generations a     *)
(* worker retires are those it saw, so no other commit may come between.   *)

SingleWorker == \E w : Workers = {w}

GoneIsEmpty == domain = "deleted" => \A d \in Docs : ~HasRow(d) /\ chunks[d] = <<>>

SwapSawAll ==
    \A w \in Workers :
        At(w, "swap") /\ domain # "deleted" => job[w].seen = Len(chunks[Doc(w)])

GenerationInv == TypeOK /\ GoneIsEmpty /\ SwapSawAll /\ OneGenerationServed

(* A step that touches no chunk and takes no worker to "swap" keeps the    *)
(* invariant, as long as a deleted domain gets no rows.                    *)
LEMMA GenerationFrame ==
    ASSUME GenerationInv, TypeOK', chunks' = chunks, domain' = domain,
           domain = "deleted" => status' = status,
           \A w \in Workers : job'[w] = job[w] \/ job'[w].pc # "swap"
    PROVE  GenerationInv'
<1>1. GoneIsEmpty'
  BY DEF GenerationInv, GoneIsEmpty, HasRow
<1>2. SwapSawAll'
  BY DEF GenerationInv, SwapSawAll, At, Doc
<1>3. OneGenerationServed'
  BY DEF GenerationInv, OneGenerationServed
<1> QED
  BY <1>1, <1>2, <1>3 DEF GenerationInv

LEMMA GenerationRequest ==
    ASSUME GenerationInv, TypeOK',
           \/ \E d \in Docs : Uploading(d) \/ UploadDies(d)
           \/ \E a \in Admins : Editing(a) \/ EditDies(a)
           \/ CreateDefaultConfig
           \/ ArchiveDomain \/ PurgeObjects \/ DeleteRows \/ DeleteAborts
    PROVE  GenerationInv'
<1>1. ASSUME NEW d \in Docs, Uploading(d) \/ UploadDies(d) PROVE GenerationInv'
  BY <1>1, GenerationFrame DEF Uploading, StoreFile, InsertDocument, InsertRejected,
                               EnqueueExtraction, UploadDies, rowVars
<1>2. ASSUME NEW a \in Admins, Editing(a) \/ EditDies(a) PROVE GenerationInv'
  BY <1>2, GenerationFrame DEF Editing, BeginEdit, CommitEdit, EditRejected,
                               EnqueueReindex, EditDies, rowVars
<1>3. CASE CreateDefaultConfig \/ PurgeObjects \/ DeleteAborts
  BY <1>3, GenerationFrame DEF CreateDefaultConfig, PurgeObjects, DeleteAborts,
                               requestVars, rowVars
<1>4. CASE ArchiveDomain
  BY <1>4 DEF ArchiveDomain, rowVars, GenerationInv, GoneIsEmpty, SwapSawAll,
              OneGenerationServed, At, Doc, HasRow
<1>5. CASE DeleteRows
  <2>1. domain' = "deleted" /\ \A d \in Docs : status'[d] = "absent" /\ chunks'[d] = <<>>
    BY <1>5 DEF DeleteRows
  <2>2. GoneIsEmpty' /\ SwapSawAll'
    BY <2>1 DEF GoneIsEmpty, SwapSawAll, HasRow
  <2>3. OneGenerationServed'
    BY <2>1 DEF OneGenerationServed
  <2> QED
    BY <2>2, <2>3 DEF GenerationInv
<1> QED
  BY <1>1, <1>2, <1>3, <1>4, <1>5

LEMMA GenerationWorker ==
    ASSUME SingleWorker, GenerationInv, TypeOK', NEW w \in Workers,
           Work(w) \/ ChunkingFails(w) \/ WorkerCrash(w)
    PROVE  GenerationInv'
<1>1. TypeOK /\ Workers = {w}
  BY DEF SingleWorker, GenerationInv
<1>2. IdleJob.pc # "swap"
  BY DEF IdleJob
<1>3. job \in [Workers -> Job] /\ job[w] \in Job
  BY <1>1 DEF TypeOK
<1>4. ASSUME job' = [job EXCEPT ![w] = IdleJob] PROVE job'[w].pc # "swap"
  BY <1>2, <1>3, <1>4
<1>5. CASE Take(w)
  <2>1. Head(queue) \in Task
    BY <1>1, <1>5 DEF Take, TypeOK
  <2>2. job'[w].pc # "swap"
    BY <1>3, <1>5, <2>1 DEF Take, Started, Task
  <2> QED
    BY <1>1, <1>5, <2>2, GenerationFrame DEF Take, requestVars, rowVars
<1>6. ASSUME status' = status, chunks' = chunks, domain' = domain, job'[w].pc # "swap"
      PROVE  GenerationInv'
  BY <1>1, <1>6, GenerationFrame
<1>7. job[w].pc \in DocPhases => Doc(w) \in Docs
  BY <1>3 DEF Job, Doc
<1>20. ASSUME HasRow(Doc(w)), Doc(w) \in Docs, chunks' = chunks, domain' = domain,
              job'[w].pc # "swap"
       PROVE  GenerationInv'
  <2>1. domain # "deleted"
    BY <1>20 DEF GenerationInv, GoneIsEmpty
  <2> QED
    BY <1>1, <1>20, <2>1, GenerationFrame
<1>8. CASE DocumentVanished(w)
  BY <1>4, <1>6, <1>8 DEF DocumentVanished, Finish, requestVars, rowVars
<1>9. CASE MarkProcessing(w) \/ Download(w) \/ CommitExtraction(w)
  <2>1. job'[w].pc # "swap"
    BY <1>3, <1>9 DEF MarkProcessing, Download, CommitExtraction, Goto, Job
  <2> QED
    BY <1>7, <1>20, <1>9, <2>1 DEF MarkProcessing, Download, CommitExtraction, At, DocPhases,
                                  requestVars, rowVars
<1>10. CASE ExtractionFails(w) \/ NothingToChunk(w)
  BY <1>4, <1>7, <1>20, <1>10 DEF ExtractionFails, NothingToChunk, Finish, At, DocPhases, requestVars
<1>11. CASE ChainChunking(w) \/ InsertConfigFails(w) \/ ChunkingFails(w) \/ WorkerCrash(w)
  BY <1>4, <1>6, <1>11 DEF ChainChunking, InsertConfigFails, ChunkingFails, WorkerCrash, Finish,
                           requestVars, rowVars
<1>12. CASE ReadConfig(w)
  <2>1. \/ job' = [job EXCEPT ![w].pc = "newconfig"]
        \/ job' = [job EXCEPT ![w].pc = "embed", ![w].rev = config]
    BY <1>12 DEF ReadConfig, Goto
  <2>2. job'[w].pc # "swap"
    BY <1>3, <2>1 DEF Job
  <2> QED
    BY <1>6, <1>12, <2>2 DEF ReadConfig, requestVars, rowVars
<1>13. CASE InsertConfig(w)
  <2>1. job'[w].pc # "swap"
    BY <1>3, <1>13 DEF InsertConfig, Job
  <2> QED
    BY <1>6, <1>13, <2>1 DEF InsertConfig, requestVars
<1>14. CASE ListReady(w)
  <2>1. job'[w].pc # "swap"
    BY <1>3, <1>14 DEF ListReady, Job
  <2> QED
    BY <1>6, <1>14, <2>1 DEF ListReady, requestVars, rowVars
<1>15. CASE FanOut(w)
  <2>1. \/ \E d \in job[w].todo : job' = [job EXCEPT ![w].todo = @ \ {d}]
        \/ job' = [job EXCEPT ![w] = IdleJob]
    BY <1>15 DEF FanOut, Finish
  <2>2. job'[w].pc # "swap"
    BY <1>3, <1>4, <1>15, <2>1 DEF FanOut, At, Job
  <2> QED
    BY <1>6, <1>15, <2>2 DEF FanOut, requestVars, rowVars
<1>16. CASE RetireOld(w)
  <2>1. job'[w].seen = Len(chunks[Doc(w)]) /\ job'[w].doc = Doc(w)
    BY <1>3, <1>16 DEF RetireOld, Job, Doc
  <2>2. SwapSawAll'
    BY <1>1, <1>16, <2>1 DEF SwapSawAll, RetireOld, Doc, rowVars
  <2> QED
    BY <1>16, <2>2 DEF GenerationInv, GoneIsEmpty, OneGenerationServed, RetireOld, HasRow,
                       requestVars, rowVars
<1>17. CASE SwapGeneration(w)
  <2> DEFINE d   == Doc(w)
             old == chunks[d]
             new == [rev |-> job[w].rev, active |-> TRUE]
  <2>1. d \in Docs /\ job[w].seen \in Nat /\ job[w].rev \in Revisions /\ old \in Seq(Generation)
    BY <1>1, <1>3, <1>7, <1>17 DEF SwapGeneration, At, DocPhases, TypeOK, Job
  <2>2. domain # "deleted" /\ domain' = domain /\ job'[w].pc # "swap"
    BY <1>4, <1>17, <2>1 DEF SwapGeneration, GenerationInv, GoneIsEmpty, Finish, requestVars
  <2>3. job[w].seen = Len(old)
    BY <1>17, <2>2 DEF SwapGeneration, GenerationInv, SwapSawAll
  <2>4. /\ Retired(old, Len(old)) \in Seq(Generation)
        /\ Len(Retired(old, Len(old))) = Len(old)
        /\ \A i \in 1 .. Len(old) : ~Retired(old, Len(old))[i].active
    <3>1. Len(old) \in Nat /\ DOMAIN old = 1 .. Len(old)
      BY <2>1
    <3>2. ASSUME NEW i \in 1 .. Len(old) PROVE ~Retired(old, Len(old))[i].active
      <4>1. Retired(old, Len(old))[i] = [rev |-> old[i].rev, active |-> old[i].active /\ i > Len(old)]
        BY <3>1 DEF Retired
      <4>2. ~(i > Len(old))
        BY <3>1
      <4>3. Retired(old, Len(old))[i].active = (old[i].active /\ i > Len(old))
        BY ONLY <4>1
      <4> QED
        BY <4>2, <4>3
    <3> QED
      BY <2>1, <3>1, <3>2, RetiredType
  <2>5. new \in Generation
    BY <2>1 DEF Generation
  <2>6. /\ chunks' = [chunks EXCEPT ![d] = Append(Retired(old, Len(old)), new)]
        /\ chunks \in [Docs -> Seq(Generation)]
    BY <1>1, <1>17, <2>3 DEF SwapGeneration, TypeOK
  <2>7. \A i \in DOMAIN chunks'[d] : chunks'[d][i].active => i = Len(old) + 1
    BY <2>1, <2>4, <2>5, <2>6
  <2>8. OneGenerationServed'
    <3> SUFFICES ASSUME NEW e \in Docs, NEW i \in DOMAIN chunks'[e], NEW j \in DOMAIN chunks'[e],
                        chunks'[e][i].active, chunks'[e][j].active
                 PROVE  i = j
      BY DEF OneGenerationServed
    <3>1. CASE e = d
      BY <2>7, <3>1
    <3>2. CASE e # d
      BY <2>6, <3>2 DEF GenerationInv, OneGenerationServed
    <3> QED
      BY <3>1, <3>2
  <2> QED
    BY <1>1, <2>2, <2>8 DEF GenerationInv, GoneIsEmpty, SwapSawAll, At
<1> QED
  BY <1>5, <1>8, <1>9, <1>10, <1>11, <1>12, <1>13, <1>14, <1>15, <1>16, <1>17 DEF Work

(* GenerationInv is an invariant.                                          *)
LEMMA GenerationAlways ==
    ASSUME SingleWorker PROVE Spec => []GenerationInv
<1>1. Init /\ TypeOK => GenerationInv
  BY DEF Init, GenerationInv, GoneIsEmpty, SwapSawAll, OneGenerationServed, At, IdleJob
<1>2. GenerationInv /\ TypeOK' /\ [Next]_vars => GenerationInv'
  <2> SUFFICES ASSUME GenerationInv, TypeOK', [Next]_vars PROVE GenerationInv'
    OBVIOUS
  <2>1. CASE UNCHANGED vars
    BY <2>1, GenerationFrame DEF vars, requestVars, rowVars
  <2>2. CASE Next
    BY <2>2, GenerationRequest, GenerationWorker DEF Next
  <2> QED
    BY <2>1, <2>2
<1> QED
  BY <1>1, <1>2, TypeCorrect, PTL DEF Spec

(* With the single worker of the deployment, no document ever serves two   *)
(* generations of chunks, however re-chunkings, crashes, edits and the     *)
(* deletion of the domain interleave.                                      *)
THEOREM OneGenerationCorrect ==
    ASSUME SingleWorker PROVE Spec => []OneGenerationServed
<1>1. GenerationInv => OneGenerationServed
  BY DEF GenerationInv
<1> QED
  BY <1>1, GenerationAlways, PTL

----------------------------------------------------------------------------
(* The order of revisions with a single worker: what a worker is about to  *)
(* publish is at least as new as what is published, so chunks are never    *)
(* replaced by older ones.                                                 *)

(* No generation is newer than the configuration.                          *)
ConfigIsNewest ==
    domain # "deleted" =>
        \A d \in Docs : \A i \in DOMAIN chunks[d] : chunks[d][i].rev <= config

(* What a worker is about to publish is not older than what is there.      *)
JobIsNewest ==
    \A w \in Workers :
        domain # "deleted" /\ job[w].pc \in {"embed", "swap"} =>
            /\ job[w].rev <= config
            /\ \A i \in DOMAIN chunks[Doc(w)] : chunks[Doc(w)][i].rev <= job[w].rev

OrderInv == GenerationInv /\ ConfigIsNewest /\ JobIsNewest

(* Revisions are integers, wherever they are kept.                         *)
LEMMA RevisionsAreInts ==
    ASSUME TypeOK
    PROVE  /\ config \in Int
           /\ \A w \in Workers : job[w].rev \in Int
           /\ \A d \in Docs : \A i \in DOMAIN chunks[d] : chunks[d][i].rev \in Int
<1>1. Revisions \subseteq Int
  BY ConstantsOK DEF Revisions
<1>2. config \in Int
  BY <1>1 DEF TypeOK, NoRow
<1>3. \A w \in Workers : job[w].rev \in Int
  BY <1>1 DEF TypeOK, Job
<1>4. ASSUME NEW d \in Docs, NEW i \in DOMAIN chunks[d] PROVE chunks[d][i].rev \in Int
  <2>1. chunks[d] \in Seq(Generation)
    BY DEF TypeOK
  <2>2. chunks[d][i] \in Generation
    BY <2>1
  <2> QED
    BY <1>1, <2>2 DEF Generation
<1> QED
  BY <1>2, <1>3, <1>4

LEMMA OrderFrame ==
    ASSUME OrderInv, GenerationInv', chunks' = chunks,
           domain' # "deleted" => domain # "deleted" /\ config <= config',
           \A w \in Workers : job'[w] = job[w] \/ job'[w].pc \notin {"embed", "swap"}
    PROVE  OrderInv'
<1>1. /\ config \in Int /\ config' \in Int
      /\ \A w \in Workers : job[w].rev \in Int
      /\ \A d \in Docs : \A i \in DOMAIN chunks[d] : chunks[d][i].rev \in Int
  <2>1. TypeOK /\ TypeOK'
    BY DEF OrderInv, GenerationInv
  <2>2. config' \in Int
    BY <2>1, ConstantsOK DEF TypeOK, Revisions, NoRow
  <2> QED
    BY <2>1, <2>2, RevisionsAreInts
<1>2. ConfigIsNewest'
  BY <1>1 DEF OrderInv, ConfigIsNewest
<1>3. JobIsNewest'
  <2> SUFFICES ASSUME NEW w \in Workers, domain' # "deleted", job'[w].pc \in {"embed", "swap"}
               PROVE  /\ job'[w].rev <= config'
                      /\ \A i \in DOMAIN chunks[job'[w].doc] :
                            chunks[job'[w].doc][i].rev <= job'[w].rev
    BY DEF JobIsNewest, Doc
  <2>1. job'[w] = job[w]
    OBVIOUS
  <2>2. /\ job[w].rev <= config
        /\ \A i \in DOMAIN chunks[job[w].doc] : chunks[job[w].doc][i].rev <= job[w].rev
    BY <2>1 DEF OrderInv, JobIsNewest, Doc
  <2> QED
    BY <1>1, <2>1, <2>2
<1> QED
  BY <1>2, <1>3 DEF OrderInv

LEMMA OrderRequest ==
    ASSUME OrderInv, GenerationInv',
           \/ \E d \in Docs : Uploading(d) \/ UploadDies(d)
           \/ \E a \in Admins : Editing(a) \/ EditDies(a)
           \/ CreateDefaultConfig
           \/ ArchiveDomain \/ PurgeObjects \/ DeleteRows \/ DeleteAborts
    PROVE  OrderInv'
<1>1. config \in Int /\ config <= config
  BY RevisionsAreInts DEF OrderInv, GenerationInv
<1>2. ASSUME NEW d \in Docs, Uploading(d) \/ UploadDies(d) PROVE OrderInv'
  BY <1>1, <1>2, OrderFrame DEF Uploading, StoreFile, InsertDocument, InsertRejected,
                                EnqueueExtraction, UploadDies, rowVars
<1>3. ASSUME NEW a \in Admins, Editing(a) \/ EditDies(a) PROVE OrderInv'
  <2>1. CASE CommitEdit(a)
    <3>1. config <= config'
      BY <1>1, <2>1 DEF CommitEdit
    <3> QED
      BY <2>1, <3>1, OrderFrame DEF CommitEdit
  <2>2. CASE BeginEdit(a) \/ EditRejected(a) \/ EnqueueReindex(a) \/ EditDies(a)
    BY <1>1, <2>2, OrderFrame DEF BeginEdit, EditRejected, EnqueueReindex, EditDies, rowVars
  <2> QED
    BY <1>3, <2>1, <2>2 DEF Editing
<1>4. CASE CreateDefaultConfig
  <2>1. config <= config'
    BY <1>4 DEF CreateDefaultConfig, NoRow
  <2> QED
    BY <1>4, <2>1, OrderFrame DEF CreateDefaultConfig, requestVars
<1>5. CASE PurgeObjects \/ DeleteAborts \/ ArchiveDomain
  BY <1>1, <1>5, OrderFrame DEF ArchiveDomain, PurgeObjects, DeleteAborts, rowVars
<1>6. CASE DeleteRows
  <2>1. domain' = "deleted"
    BY <1>6 DEF DeleteRows
  <2> QED
    BY <2>1 DEF OrderInv, ConfigIsNewest, JobIsNewest
<1> QED
  BY <1>2, <1>3, <1>4, <1>5, <1>6

(* Publishing keeps the order: the generation appended has the worker's    *)
(* revision, and retiring leaves the revisions of the others alone.        *)
LEMMA OrderSwap ==
    ASSUME SingleWorker, OrderInv, GenerationInv', NEW w \in Workers, SwapGeneration(w)
    PROVE  /\ OrderInv'
           /\ Doc(w) \in Docs /\ domain # "deleted"
           /\ job[w].rev \in 0 .. config
           /\ \A i \in DOMAIN chunks[Doc(w)] : chunks[Doc(w)][i].rev <= job[w].rev
           /\ \A i \in DOMAIN chunks'[Doc(w)] :
                 chunks'[Doc(w)][i].active => chunks'[Doc(w)][i].rev = job[w].rev
           /\ \E i \in DOMAIN chunks'[Doc(w)] : chunks'[Doc(w)][i].active
<1> DEFINE d    == Doc(w)
           old  == chunks[d]
           kept == Retired(old, job[w].seen)
           new  == [rev |-> job[w].rev, active |-> TRUE]
<1>1. Workers = {w}
  BY DEF SingleWorker
<1>2. TypeOK
  BY DEF OrderInv, GenerationInv
<1>3. job[w] \in Job /\ job[w].pc = "swap"
  BY <1>2 DEF SwapGeneration, At, TypeOK
<1>4. d \in Docs /\ job[w].rev \in Revisions /\ job[w].seen \in Nat
  BY <1>3 DEF Job, DocPhases, Phases, Doc
<1>5. domain # "deleted" /\ domain' = domain /\ config' = config
  BY <1>4 DEF SwapGeneration, OrderInv, GenerationInv, GoneIsEmpty, requestVars
<1>6. /\ job[w].rev <= config
      /\ \A i \in DOMAIN old : old[i].rev <= job[w].rev
  BY <1>3, <1>5 DEF OrderInv, JobIsNewest
<1>7. job[w].seen = Len(old)
  BY <1>3, <1>5 DEF OrderInv, GenerationInv, SwapSawAll, At
<1>8. old \in Seq(Generation) /\ Len(old) \in Nat /\ DOMAIN old = 1 .. Len(old)
  BY <1>2, <1>4 DEF TypeOK
<1>9. /\ kept \in Seq(Generation) /\ Len(kept) = Len(old) /\ DOMAIN kept = 1 .. Len(old)
      /\ \A i \in 1 .. Len(old) : kept[i].rev = old[i].rev /\ ~kept[i].active
  <2>1. ASSUME NEW i \in 1 .. Len(old) PROVE kept[i].rev = old[i].rev /\ ~kept[i].active
    <3>1. kept[i] = [rev |-> old[i].rev, active |-> old[i].active /\ i > job[w].seen]
      BY <1>8 DEF Retired
    <3>2. ~(i > job[w].seen)
      BY <1>7, <1>8
    <3>3. kept[i].rev = old[i].rev /\ kept[i].active = (old[i].active /\ i > job[w].seen)
      BY ONLY <3>1
    <3> QED
      BY <3>2, <3>3
  <2> HIDE DEF old
  <2>2. kept \in Seq(Generation) /\ Len(kept) = Len(old)
    BY <1>4, <1>8, RetiredType
  <2> QED
    BY <1>8, <2>1, <2>2
<1>10. new \in Generation
  BY <1>4 DEF Generation
<1>11. /\ chunks' = [chunks EXCEPT ![d] = Append(kept, new)]
       /\ chunks'[d] = Append(kept, new)
  BY <1>2, <1>4 DEF SwapGeneration, TypeOK
<1>12. \A i \in DOMAIN chunks'[d] :
          \/ i \in 1 .. Len(old) /\ chunks'[d][i] = kept[i]
          \/ i = Len(old) + 1 /\ chunks'[d][i] = new
  <2> HIDE DEF kept, new, old
  <2> QED
    BY <1>8, <1>9, <1>10, <1>11
<1>13. Len(old) + 1 \in DOMAIN chunks'[d] /\ chunks'[d][Len(old) + 1] = new
  <2> HIDE DEF kept, new, old
  <2> QED
    BY <1>8, <1>9, <1>10, <1>11
<1>14. config \in Int /\ \A i \in DOMAIN old : old[i].rev \in Int
  BY <1>2, <1>4, RevisionsAreInts
<1>15. job[w].rev \in 0 .. config
  BY <1>4, <1>6, <1>14, ConstantsOK DEF Revisions
<1>16. ASSUME NEW i \in DOMAIN chunks'[d]
       PROVE  chunks'[d][i].rev \in Int /\ chunks'[d][i].rev <= job[w].rev
  <2>1. CASE i \in 1 .. Len(old) /\ chunks'[d][i] = kept[i]
    BY <1>6, <1>8, <1>9, <1>14, <2>1
  <2>2. CASE i = Len(old) + 1 /\ chunks'[d][i] = new
    BY <1>15, <2>2
  <2> QED
    BY <1>12, <2>1, <2>2
<1>17. ConfigIsNewest'
  <2> SUFFICES ASSUME NEW e \in Docs, NEW i \in DOMAIN chunks'[e] PROVE chunks'[e][i].rev <= config
    BY <1>5 DEF ConfigIsNewest
  <2>1. CASE e = d
    <3>1. chunks'[d][i].rev \in Int /\ chunks'[d][i].rev <= job[w].rev
      BY <1>16, <2>1
    <3> QED
      BY <1>14, <1>15, <2>1, <3>1
  <2>2. CASE e # d
    BY <1>5, <1>11, <2>2 DEF OrderInv, ConfigIsNewest
  <2> QED
    BY <2>1, <2>2
<1>18. JobIsNewest'
  <2>1. job'[w].pc = "idle"
    BY <1>2 DEF SwapGeneration, Finish, IdleJob, TypeOK
  <2> QED
    BY <1>1, <2>1 DEF JobIsNewest
<1>19. \A i \in DOMAIN chunks'[d] : chunks'[d][i].active => chunks'[d][i].rev = job[w].rev
  BY <1>9, <1>12
<1>20. \E i \in DOMAIN chunks'[d] : chunks'[d][i].active
  BY <1>13
<1> QED
  BY <1>4, <1>5, <1>6, <1>15, <1>17, <1>18, <1>19, <1>20 DEF OrderInv

LEMMA OrderWorker ==
    ASSUME SingleWorker, OrderInv, GenerationInv', NEW w \in Workers,
           Work(w) \/ ChunkingFails(w) \/ WorkerCrash(w)
    PROVE  OrderInv'
<1>1. Workers = {w} /\ TypeOK
  BY DEF SingleWorker, OrderInv, GenerationInv
<1>2. config \in Int /\ config <= config
  BY <1>1, RevisionsAreInts
<1>3. job \in [Workers -> Job] /\ job[w] \in Job
  BY <1>1 DEF TypeOK
<1>4. ASSUME job' = [job EXCEPT ![w] = IdleJob] PROVE job'[w].pc \notin {"embed", "swap"}
  BY <1>3, <1>4 DEF IdleJob
<1>5. ASSUME chunks' = chunks, domain' = domain, config' = config,
             job'[w].pc \notin {"embed", "swap"}
      PROVE  OrderInv'
  BY <1>1, <1>2, <1>5, OrderFrame
<1>6. CASE Take(w)
  <2>1. Head(queue) \in Task
    BY <1>1, <1>6 DEF Take, TypeOK
  <2>2. job'[w].pc \notin {"embed", "swap"}
    BY <1>3, <1>6, <2>1 DEF Take, Started, Task
  <2> QED
    BY <1>5, <1>6, <2>2 DEF Take, requestVars, rowVars
<1>7. CASE DocumentVanished(w) \/ ChainChunking(w) \/ InsertConfigFails(w)
           \/ ChunkingFails(w) \/ WorkerCrash(w)
  BY <1>4, <1>5, <1>7 DEF DocumentVanished, ChainChunking, InsertConfigFails, ChunkingFails,
                          WorkerCrash, Finish, requestVars, rowVars
<1>8. CASE ExtractionFails(w) \/ NothingToChunk(w)
  BY <1>4, <1>5, <1>8 DEF ExtractionFails, NothingToChunk, Finish, requestVars
<1>9. CASE MarkProcessing(w) \/ Download(w) \/ CommitExtraction(w)
  <2>1. job'[w].pc \notin {"embed", "swap"}
    BY <1>3, <1>9 DEF MarkProcessing, Download, CommitExtraction, Goto, Job
  <2> QED
    BY <1>5, <1>9, <2>1 DEF MarkProcessing, Download, CommitExtraction, requestVars, rowVars
<1>10. CASE ListReady(w)
  <2>1. job'[w].pc \notin {"embed", "swap"}
    BY <1>3, <1>10 DEF ListReady, Job
  <2> QED
    BY <1>5, <1>10, <2>1 DEF ListReady, requestVars, rowVars
<1>11. CASE FanOut(w)
  <2>1. \/ \E d \in job[w].todo : job' = [job EXCEPT ![w].todo = @ \ {d}]
        \/ job' = [job EXCEPT ![w] = IdleJob]
    BY <1>11 DEF FanOut, Finish
  <2>2. job'[w].pc \notin {"embed", "swap"}
    BY <1>3, <1>4, <1>11, <2>1 DEF FanOut, At, Job
  <2> QED
    BY <1>5, <1>11, <2>2 DEF FanOut, requestVars, rowVars
<1>12. CASE ReadConfig(w)
  <2>1. CASE config = NoRow
    <3>1. job'[w].pc \notin {"embed", "swap"}
      BY <1>3, <1>12, <2>1 DEF ReadConfig, Goto, Job
    <3> QED
      BY <1>5, <1>12, <3>1 DEF ReadConfig, requestVars, rowVars
  <2>2. CASE config # NoRow
    <3>1. Doc(w) \in Docs
      BY <1>3, <1>12 DEF ReadConfig, At, Job, DocPhases, Phases, Doc
    <3>2. job'[w].rev = config /\ job'[w].doc = Doc(w)
      BY <1>3, <1>12, <2>2 DEF ReadConfig, Job, Doc
    <3>3. domain # "deleted" /\ chunks' = chunks /\ config' = config /\ domain' = domain
      BY <1>12, <3>1 DEF ReadConfig, OrderInv, GenerationInv, GoneIsEmpty, requestVars, rowVars
    <3>4. JobIsNewest'
      BY <1>1, <1>2, <3>1, <3>2, <3>3 DEF JobIsNewest, OrderInv, ConfigIsNewest, Doc
    <3> QED
      BY <3>3, <3>4 DEF OrderInv, ConfigIsNewest
  <2> QED
    BY <2>1, <2>2
<1>13. CASE InsertConfig(w)
  <2>1. Doc(w) \in Docs
    BY <1>3, <1>13 DEF InsertConfig, At, Job, DocPhases, Phases, Doc
  <2>2. job'[w].rev = 0 /\ job'[w].doc = Doc(w) /\ config' = 0 /\ config = -1
    <3>1. job' = [job EXCEPT ![w].pc = "embed", ![w].rev = 0] /\ config' = 0 /\ config = NoRow
      BY <1>13 DEF InsertConfig
    <3>2. job'[w] = [job[w] EXCEPT !.pc = "embed", !.rev = 0]
      BY <1>3, <3>1
    <3> QED
      BY <1>3, <3>1, <3>2 DEF Job, Doc, NoRow
  <2>3. domain # "deleted" /\ chunks' = chunks /\ domain' = domain
    BY <1>13 DEF InsertConfig, requestVars
  <2>4. \A d \in Docs : \A i \in DOMAIN chunks[d] : chunks[d][i].rev <= 0
    BY <1>1, <2>2, <2>3, RevisionsAreInts DEF OrderInv, ConfigIsNewest
  <2>5. ConfigIsNewest' /\ JobIsNewest'
    BY <1>1, <2>1, <2>2, <2>3, <2>4 DEF JobIsNewest, ConfigIsNewest, Doc
  <2> QED
    BY <2>5 DEF OrderInv
<1>14. CASE RetireOld(w)
  <2>1. /\ job[w].pc = "embed"
        /\ job'[w].rev = job[w].rev /\ job'[w].doc = job[w].doc
    BY <1>3, <1>14 DEF RetireOld, At, Job
  <2>2. chunks' = chunks /\ config' = config /\ domain' = domain
    BY <1>14 DEF RetireOld, requestVars, rowVars
  <2>3. JobIsNewest'
    BY <1>1, <2>1, <2>2 DEF OrderInv, JobIsNewest, Doc
  <2> QED
    BY <2>2, <2>3 DEF OrderInv, ConfigIsNewest
<1>15. CASE SwapGeneration(w)
  BY <1>15, OrderSwap
<1> QED
  BY <1>6, <1>7, <1>8, <1>9, <1>10, <1>11, <1>12, <1>13, <1>14, <1>15 DEF Work

LEMMA OrderInitNext ==
    ASSUME SingleWorker
    PROVE  /\ Init /\ GenerationInv => OrderInv
           /\ OrderInv /\ GenerationInv' /\ [Next]_vars => OrderInv'
<1>1. ASSUME Init, GenerationInv PROVE OrderInv
  BY <1>1 DEF Init, OrderInv, ConfigIsNewest, JobIsNewest, IdleJob
<1>2. ASSUME OrderInv, GenerationInv', [Next]_vars PROVE OrderInv'
  <2>1. CASE UNCHANGED vars
    <3>1. config <= config
      BY <1>2, RevisionsAreInts DEF OrderInv, GenerationInv
    <3> QED
      BY <1>2, <2>1, <3>1, OrderFrame DEF vars, requestVars, rowVars
  <2>2. CASE Next
    BY <1>2, <2>2, OrderRequest, OrderWorker DEF Next
  <2> QED
    BY <1>2, <2>1, <2>2
<1> QED
  BY <1>1, <1>2

LEMMA OrderAlways ==
    ASSUME SingleWorker PROVE Spec => []OrderInv
BY OrderInitNext, GenerationAlways, PTL DEF Spec

(* With the single worker of the deployment, no re-chunking ever replaces  *)
(* the chunks of a later configuration by those of an earlier one, in      *)
(* whatever order edits, queued re-chunkings and faults come.              *)
THEOREM NoOlderGenerationCorrect ==
    ASSUME SingleWorker PROVE Spec => NoOlderGeneration
<1> DEFINE Kept == \A d \in Docs : \A i \in Active(d) : \A j \in Active(d)' :
                      chunks[d][i].rev <= chunks'[d][j].rev
<1>1. ASSUME OrderInv, GenerationInv', [Next]_vars PROVE Kept
  <2>1. TypeOK /\ OneGenerationServed
    BY <1>1 DEF OrderInv, GenerationInv
  <2>2. \A d \in Docs : \A i \in DOMAIN chunks[d] : chunks[d][i].rev \in Int
    BY <2>1, RevisionsAreInts
  <2>3. ASSUME NEW d \in Docs, chunks'[d] = chunks[d], NEW i \in Active(d), NEW j \in Active(d)'
        PROVE  chunks[d][i].rev <= chunks'[d][j].rev
    <3>1. i = j
      BY <2>1, <2>3 DEF Active, OneGenerationServed
    <3> QED
      BY <2>2, <2>3, <3>1 DEF Active
  <2>4. CASE chunks' = chunks
    BY <2>3, <2>4
  <2>5. CASE DeleteRows
    BY <2>5 DEF DeleteRows, Active
  <2>6. ASSUME NEW w \in Workers, SwapGeneration(w) PROVE Kept
    <3> SUFFICES ASSUME NEW d \in Docs, NEW i \in Active(d), NEW j \in Active(d)'
                 PROVE  chunks[d][i].rev <= chunks'[d][j].rev
      OBVIOUS
    <3>1. CASE d = Doc(w)
      <4>1. chunks[d][i].rev <= job[w].rev
        BY <1>1, <2>6, <3>1, OrderSwap DEF Active
      <4>2. chunks'[d][j].rev = job[w].rev
        BY <1>1, <2>6, <3>1, OrderSwap DEF Active
      <4> QED
        BY <4>1, <4>2
    <3>2. CASE d # Doc(w)
      <4>1. chunks'[d] = chunks[d]
        BY <2>1, <2>6, <3>2 DEF SwapGeneration, TypeOK
      <4> QED
        BY <2>3, <4>1
    <3> QED
      BY <3>1, <3>2
  <2>7. \/ chunks' = chunks \/ DeleteRows
        \/ \E w \in Workers : SwapGeneration(w)
    BY <1>1 DEF Next, vars, requestVars, rowVars, Uploading, Editing, Work,
                StoreFile, InsertDocument, InsertRejected, EnqueueExtraction, UploadDies,
                BeginEdit, CommitEdit, EditRejected, EnqueueReindex, EditDies,
                CreateDefaultConfig, ArchiveDomain, PurgeObjects, DeleteAborts,
                Take, DocumentVanished, MarkProcessing, Download, CommitExtraction,
                ExtractionFails, ChainChunking, ReadConfig, InsertConfig, InsertConfigFails,
                NothingToChunk, RetireOld, ListReady, FanOut, ChunkingFails, WorkerCrash
  <2> QED
    BY <2>4, <2>5, <2>6, <2>7
<1> QED
  BY <1>1, OrderAlways, GenerationAlways, PTL DEF Spec, NoOlderGeneration
=============================================================================
