----------------------- MODULE KnowledgeGraph_proofs -----------------------
(***************************************************************************)
(* Theorems about KnowledgeGraph, for any chunks, entities, relations and  *)
(* administrators, any number of versions and of faults.                   *)
(*                                                                         *)
(* TypeInv types the state.  The invariants on it follow: VersionInv for   *)
(* the ontology, ResetInv for what a sweep may leave behind, CountInv and  *)
(* LinkInv for Postgres, AgreeInv and CatchUpInv for the two stores,       *)
(* KeyInv and RepairInv for what a backfill makes good.                    *)
(***************************************************************************)
EXTENDS KnowledgeGraph, FiniteSetTheorems, TLAPS

----------------------------------------------------------------------------
(* Types.                                                                  *)

Counts == {Cardinality(S) : S \in SUBSET (Chunks \X Pairs)}

GraphRecord ==
    [id : [Names -> Nat], stamp : [Names -> 0 .. MaxVersion],
     edgeStamp : [Pairs -> 0 .. MaxVersion], mentions : [Pairs -> Counts],
     nodeLinks : SUBSET (Chunks \X Names), edgeLinks : SUBSET (Chunks \X Pairs)]

NeoRecord ==
    [id : [Names -> Nat], chunks : [Names -> SUBSET Chunks],
     rel : [Pairs -> SUBSET Chunks], count : [Pairs -> Counts]]

Tasks == {"batch", "reextract", "backfill"}

JobRecord ==
    [pc : {"idle", "batch", "reextract", "backfill", "documents", "chunks", "write", "edges"},
     docs : SUBSET Docs, schema : 0 .. MaxVersion, todo : SUBSET Chunks, chunk : SUBSET Chunks,
     entities : Seq(Names), triples : Seq(Pairs), tx : GraphRecord, mirrors : BOOLEAN]

RowsTyped ==
    /\ schemas \in [Versions -> {"none", "inactive", "active"}]
    /\ request \in [Admins -> [pc : {"idle", "read", "publish"}, previous : 0 .. MaxVersion]]
    /\ active \subseteq Chunks
    /\ extracted \in [Chunks -> 0 .. MaxVersion]
    /\ mirrored \in [Chunks -> 0 .. MaxVersion]
    /\ inserted \in [Names -> Nat]
    /\ queue \in Seq(Tasks) /\ lost \in BOOLEAN /\ faults \in Nat
    /\ repaired \in Nat /\ repaired <= faults

StoresTyped == graph \in GraphRecord /\ neo \in NeoRecord

JobTyped ==
    /\ job \in JobRecord
    /\ job.pc \in {"chunks", "write"} => job.schema \in Versions
    /\ job.pc = "write" => \E c \in Chunks : job.chunk = {c}

TypeInv == RowsTyped /\ StoresTyped /\ JobTyped

LEMMA TheOnly == ASSUME NEW c PROVE (CHOOSE x \in {c} : TRUE) = c
OBVIOUS

LEMMA NoneCounted == 0 \in Counts /\ Cardinality({}) = 0
<1>1. Cardinality({}) = 0
      BY FS_EmptySet
<1> QED BY <1>1 DEF Counts

LEMMA EmptyGraph == NoGraph \in GraphRecord /\ NoNeo \in NeoRecord
BY OutputOK, NoneCounted DEF NoGraph, NoNeo, GraphRecord, NeoRecord

LEMMA IdleTyped == Idle \in JobRecord /\ Idle.pc = "idle"
<1>1. <<>> \in Seq(Names) /\ <<>> \in Seq(Pairs) /\ 0 \in 0 .. MaxVersion
      BY OutputOK
<1> QED BY <1>1, EmptyGraph DEF Idle, JobRecord

LEMMA InitTyped == Init => TypeInv
<1> SUFFICES ASSUME Init PROVE TypeInv
    OBVIOUS
<1>0. 0 \in 0 .. MaxVersion /\ <<>> \in Seq(Tasks) /\ 0 \in Nat /\ 0 <= 0
      BY OutputOK
<1>1. RowsTyped
      BY <1>0 DEF Init, RowsTyped
<1>2. StoresTyped
      BY EmptyGraph DEF Init, StoresTyped
<1>3. JobTyped
      BY IdleTyped DEF Init, JobTyped, Idle
<1> QED BY <1>1, <1>2, <1>3 DEF TypeInv

----------------------------------------------------------------------------
(* Every step keeps the types.                                             *)

(* The requests of administrators.                                         *)
LEMMA ActivationTyped ==
    ASSUME TypeInv, NEW a \in Admins, Activation(a) \/ ActivationDies(a)
    PROVE  /\ schemas' \in [Versions -> {"none", "inactive", "active"}]
           /\ request' \in [Admins -> [pc : {"idle", "read", "publish"}, previous : 0 .. MaxVersion]]
           /\ queue' \in Seq(Tasks) /\ lost' \in BOOLEAN
           /\ faults' = faults \/ faults' = faults + 1
           /\ UNCHANGED <<active, job, inserted, mirrored, repaired, graph, neo, extracted>>
<1>1. request[a] \in [pc : {"idle", "read", "publish"}, previous : 0 .. MaxVersion]
      BY DEF TypeInv, RowsTyped
<1>2. CASE ReadActive(a)
  <2>1. Active # {} => (CHOOSE v \in Active : TRUE) \in Active
        OBVIOUS
  <2>2. Active \subseteq 0 .. MaxVersion /\ 0 \in 0 .. MaxVersion
        BY OutputOK DEF Active, Versions
  <2>3. PICK p : /\ request' = [request EXCEPT ![a] = [pc |-> "read", previous |-> p]]
                 /\ p = IF Active = {} THEN 0 ELSE CHOOSE v \in Active : TRUE
        BY <1>2 DEF ReadActive
  <2>4. p \in 0 .. MaxVersion
        BY <2>1, <2>2, <2>3
  <2> QED BY <1>2, <2>3, <2>4 DEF ReadActive, TypeInv, RowsTyped, stores, observers
<1>3. CASE ActivateNext(a)
      BY <1>1, <1>3 DEF ActivateNext, TypeInv, RowsTyped, stores, observers
<1>4. CASE ActivationConflict(a)
      BY <1>1, <1>4 DEF ActivationConflict, TypeInv, RowsTyped, stores, observers
<1>5. CASE EnqueueReextraction(a)
  <2>1. queue' \in Seq(Tasks)
        BY <1>5 DEF EnqueueReextraction, TypeInv, RowsTyped, Tasks
  <2> QED BY <1>1, <1>5, <2>1 DEF EnqueueReextraction, TypeInv, RowsTyped, stores, observers
<1>6. CASE ActivationDies(a)
  <2>1. /\ request' = [request EXCEPT ![a].pc = "idle"] /\ faults' = faults + 1 /\ lost' = TRUE
        /\ UNCHANGED <<schemas, active, queue, job, inserted, mirrored, repaired, graph, neo, extracted>>
        BY <1>6 DEF ActivationDies, Fault, stores
  <2>2. request' \in [Admins -> [pc : {"idle", "read", "publish"}, previous : 0 .. MaxVersion]]
        BY <1>1, <2>1 DEF TypeInv, RowsTyped
  <2>3. schemas' \in [Versions -> {"none", "inactive", "active"}] /\ queue' \in Seq(Tasks)
        BY <2>1 DEF TypeInv, RowsTyped
  <2> QED BY <2>1, <2>2, <2>3
<1> QED BY <1>2, <1>3, <1>4, <1>5, <1>6 DEF Activation

(* What a write does to the transaction and to Neo4j, field by field.      *)
LEMMA TouchNodeFields ==
    ASSUME NEW tx \in GraphRecord, NEW n \in Names, NEW c \in Chunks,
           job.schema \in Versions, inserted \in [Names -> Nat]
    PROVE  LET new == TouchNode(tx, n, c) IN
             /\ new \in GraphRecord
             /\ new.stamp = [tx.stamp EXCEPT ![n] = job.schema]
             /\ new.id = [tx.id EXCEPT ![n] = IF tx.stamp[n] = 0 THEN inserted[n] + 1 ELSE tx.id[n]]
             /\ new.nodeLinks = tx.nodeLinks \cup {<<c, n>>}
             /\ new.edgeStamp = tx.edgeStamp /\ new.mentions = tx.mentions /\ new.edgeLinks = tx.edgeLinks
<1> DEFINE new == TouchNode(tx, n, c)
           id == IF tx.stamp[n] = 0 THEN inserted[n] + 1 ELSE tx.id[n]
<1>0. id \in Nat
      BY DEF GraphRecord
<1>1. new = [tx EXCEPT !.stamp[n] = job.schema, !.id[n] = id, !.nodeLinks = tx.nodeLinks \cup {<<c, n>>}]
      BY DEF TouchNode
<1> HIDE DEF new, id
<1>2. /\ new.stamp = [tx.stamp EXCEPT ![n] = job.schema]
      /\ new.id = [tx.id EXCEPT ![n] = id]
      /\ new.nodeLinks = tx.nodeLinks \cup {<<c, n>>}
      /\ new.edgeStamp = tx.edgeStamp /\ new.mentions = tx.mentions /\ new.edgeLinks = tx.edgeLinks
      BY <1>1 DEF GraphRecord
<1>3. new = [id |-> new.id, stamp |-> new.stamp, edgeStamp |-> new.edgeStamp, mentions |-> new.mentions,
             nodeLinks |-> new.nodeLinks, edgeLinks |-> new.edgeLinks]
      BY <1>1 DEF GraphRecord
<1>4. new.stamp \in [Names -> 0 .. MaxVersion]
      BY <1>2, OutputOK DEF GraphRecord, Versions
<1>5. new.id \in [Names -> Nat] /\ new.nodeLinks \in SUBSET (Chunks \X Names)
      BY <1>0, <1>2 DEF GraphRecord
<1>6. /\ new.edgeStamp \in [Pairs -> 0 .. MaxVersion] /\ new.mentions \in [Pairs -> Counts]
      /\ new.edgeLinks \in SUBSET (Chunks \X Pairs)
      BY <1>2 DEF GraphRecord
<1>7. new \in GraphRecord
      BY <1>3, <1>4, <1>5, <1>6 DEF GraphRecord
<1> QED BY <1>2, <1>7 DEF new, id

(* The same but for the id, whatever is stored and inserted.               *)
LEMMA TouchNodeAside ==
    ASSUME NEW tx \in GraphRecord, NEW n \in Names, NEW c \in Chunks
    PROVE  /\ TouchNode(tx, n, c).stamp = [tx.stamp EXCEPT ![n] = job.schema]
           /\ TouchNode(tx, n, c).nodeLinks = tx.nodeLinks \cup {<<c, n>>}
           /\ TouchNode(tx, n, c).edgeStamp = tx.edgeStamp
           /\ TouchNode(tx, n, c).mentions = tx.mentions
           /\ TouchNode(tx, n, c).edgeLinks = tx.edgeLinks
<1> DEFINE id == IF tx.stamp[n] = 0 THEN inserted[n] + 1 ELSE tx.id[n]
<1>1. TouchNode(tx, n, c) =
        [tx EXCEPT !.stamp[n] = job.schema, !.id[n] = id, !.nodeLinks = tx.nodeLinks \cup {<<c, n>>}]
      BY DEF TouchNode
<1> HIDE DEF id
<1> QED BY <1>1 DEF GraphRecord

LEMMA TouchEdgeFields ==
    ASSUME NEW tx \in GraphRecord, NEW p \in Pairs, NEW c \in Chunks, job.schema \in Versions
    PROVE  LET new == TouchEdge(tx, p, c)
               links == tx.edgeLinks \cup {<<c, p>>}
           IN  /\ new \in GraphRecord
               /\ new.edgeStamp = [tx.edgeStamp EXCEPT ![p] = job.schema]
               /\ new.mentions = [tx.mentions EXCEPT ![p] = Cardinality({l \in links : l[2] = p})]
               /\ new.edgeLinks = links
               /\ new.id = tx.id /\ new.stamp = tx.stamp /\ new.nodeLinks = tx.nodeLinks
<1> DEFINE new == TouchEdge(tx, p, c)
           links == tx.edgeLinks \cup {<<c, p>>}
           count == Cardinality({l \in links : l[2] = p})
<1>0. links \subseteq Chunks \X Pairs /\ {l \in links : l[2] = p} \subseteq links
      BY DEF GraphRecord
<1>1. count \in Counts
      BY <1>0 DEF Counts
<1> HIDE DEF count
<1>2. new = [tx EXCEPT !.edgeStamp[p] = job.schema, !.edgeLinks = links, !.mentions[p] = count]
      BY DEF TouchEdge, count
<1> HIDE DEF new
<1>3. /\ new.edgeStamp = [tx.edgeStamp EXCEPT ![p] = job.schema]
      /\ new.mentions = [tx.mentions EXCEPT ![p] = count]
      /\ new.edgeLinks = links
      /\ new.id = tx.id /\ new.stamp = tx.stamp /\ new.nodeLinks = tx.nodeLinks
      BY <1>2 DEF GraphRecord
<1>4. new = [id |-> new.id, stamp |-> new.stamp, edgeStamp |-> new.edgeStamp, mentions |-> new.mentions,
             nodeLinks |-> new.nodeLinks, edgeLinks |-> new.edgeLinks]
      BY <1>2 DEF GraphRecord
<1>5. /\ new.edgeStamp \in [Pairs -> 0 .. MaxVersion] /\ new.mentions \in [Pairs -> Counts]
      /\ new.edgeLinks \in SUBSET (Chunks \X Pairs)
      BY <1>0, <1>1, <1>3, OutputOK DEF GraphRecord, Versions
<1>6. /\ new.stamp \in [Names -> 0 .. MaxVersion] /\ new.id \in [Names -> Nat]
      /\ new.nodeLinks \in SUBSET (Chunks \X Names)
      BY <1>3 DEF GraphRecord
<1>7. new \in GraphRecord
      BY <1>4, <1>5, <1>6 DEF GraphRecord
<1> QED BY <1>3, <1>7 DEF new, count

LEMMA UpsertNodeFields ==
    ASSUME neo \in NeoRecord, NEW n \in Names, NEW id \in Nat, NEW c \in Chunks
    PROVE  LET new == UpsertNode(n, id, c) IN
             /\ new \in NeoRecord
             /\ new.id = [neo.id EXCEPT ![n] = IF neo.id[n] = 0 THEN id ELSE neo.id[n]]
             /\ new.chunks = [neo.chunks EXCEPT ![n] = neo.chunks[n] \cup {c}]
             /\ new.rel = neo.rel /\ new.count = neo.count
<1> DEFINE new == UpsertNode(n, id, c)
           kept == IF neo.id[n] = 0 THEN id ELSE neo.id[n]
<1>0. kept \in Nat
      BY DEF NeoRecord
<1>1. new = [neo EXCEPT !.id[n] = kept, !.chunks[n] = neo.chunks[n] \cup {c}]
      BY DEF UpsertNode, NeoRecord
<1> HIDE DEF new, kept
<1>2. /\ new.id = [neo.id EXCEPT ![n] = kept]
      /\ new.chunks = [neo.chunks EXCEPT ![n] = neo.chunks[n] \cup {c}]
      /\ new.rel = neo.rel /\ new.count = neo.count
      BY <1>1 DEF NeoRecord
<1>3. new = [id |-> new.id, chunks |-> new.chunks, rel |-> new.rel, count |-> new.count]
      BY <1>1 DEF NeoRecord
<1>4. new.id \in [Names -> Nat] /\ new.chunks \in [Names -> SUBSET Chunks]
      BY <1>0, <1>2 DEF NeoRecord
<1>5. new.rel \in [Pairs -> SUBSET Chunks] /\ new.count \in [Pairs -> Counts]
      BY <1>2 DEF NeoRecord
<1>6. new \in NeoRecord
      BY <1>3, <1>4, <1>5 DEF NeoRecord
<1> QED BY <1>2, <1>6 DEF new, kept

LEMMA UpsertEdgeFields ==
    ASSUME neo \in NeoRecord, NEW p \in Pairs, NEW ids, NEW count \in Counts, NEW c \in Chunks
    PROVE  LET new == UpsertEdge(p, ids, count, c)
               matched == \A n \in {p[1], p[2]} : neo.id[n] = ids[n]
           IN  /\ new \in NeoRecord
               /\ new.id = neo.id /\ new.chunks = neo.chunks
               /\ ~matched => new = neo
               /\ matched => /\ new.rel = [neo.rel EXCEPT ![p] = neo.rel[p] \cup {c}]
                             /\ new.count = [neo.count EXCEPT ![p] = count]
<1> DEFINE new == UpsertEdge(p, ids, count, c)
           matched == \A n \in {p[1], p[2]} : neo.id[n] = ids[n]
<1>1. CASE ~matched
  <2>1. new = neo
        BY <1>1 DEF UpsertEdge
  <2> QED BY <1>1, <2>1
<1>2. CASE matched
  <2>1. new = [neo EXCEPT !.rel[p] = neo.rel[p] \cup {c}, !.count[p] = count]
        BY <1>2 DEF UpsertEdge, NeoRecord
  <2> HIDE DEF new, matched
  <2>2. /\ new.rel = [neo.rel EXCEPT ![p] = neo.rel[p] \cup {c}]
        /\ new.count = [neo.count EXCEPT ![p] = count]
        /\ new.id = neo.id /\ new.chunks = neo.chunks
        BY <2>1 DEF NeoRecord
  <2>3. new = [id |-> new.id, chunks |-> new.chunks, rel |-> new.rel, count |-> new.count]
        BY <2>1 DEF NeoRecord
  <2>4. new.rel \in [Pairs -> SUBSET Chunks] /\ new.count \in [Pairs -> Counts]
        BY <2>2 DEF NeoRecord
  <2>5. new.id \in [Names -> Nat] /\ new.chunks \in [Names -> SUBSET Chunks]
        BY <2>2 DEF NeoRecord
  <2>6. new \in NeoRecord
        BY <2>3, <2>4, <2>5 DEF NeoRecord
  <2> QED BY <1>2, <2>2, <2>6 DEF new, matched
<1> QED BY <1>1, <1>2

LEMMA ReplayedNodesFields ==
    ASSUME neo \in NeoRecord, graph \in GraphRecord, NEW links
    PROVE  LET new == ReplayedNodes(links) IN
             /\ new \in NeoRecord
             /\ new.id = [n \in Names |-> IF neo.id[n] = 0 /\ {c \in Chunks : <<c, n>> \in links} # {}
                                          THEN graph.id[n] ELSE neo.id[n]]
             /\ new.chunks = [n \in Names |-> neo.chunks[n] \cup {c \in Chunks : <<c, n>> \in links}]
             /\ new.rel = neo.rel /\ new.count = neo.count
<1> DEFINE new == ReplayedNodes(links)
           id  == [n \in Names |-> IF neo.id[n] = 0 /\ {c \in Chunks : <<c, n>> \in links} # {}
                                   THEN graph.id[n] ELSE neo.id[n]]
           chunks == [n \in Names |-> neo.chunks[n] \cup {c \in Chunks : <<c, n>> \in links}]
<1>1. id \in [Names -> Nat] /\ chunks \in [Names -> SUBSET Chunks]
      BY DEF NeoRecord, GraphRecord
<1>2. new = [neo EXCEPT !.id = id, !.chunks = chunks]
      BY DEF ReplayedNodes
<1> HIDE DEF new, id, chunks
<1>3. new.id = id /\ new.chunks = chunks /\ new.rel = neo.rel /\ new.count = neo.count
      BY <1>2 DEF NeoRecord
<1>4. new = [id |-> new.id, chunks |-> new.chunks, rel |-> new.rel, count |-> new.count]
      BY <1>2 DEF NeoRecord
<1>5. neo.rel \in [Pairs -> SUBSET Chunks] /\ neo.count \in [Pairs -> Counts]
      BY DEF NeoRecord
<1>6. new \in NeoRecord
      BY <1>1, <1>3, <1>4, <1>5 DEF NeoRecord
<1> QED BY <1>3, <1>6 DEF new, id, chunks

LEMMA ReplayedEdgesFields ==
    ASSUME neo \in NeoRecord, graph \in GraphRecord, NEW links
    PROVE  LET new == ReplayedEdges(links)
               linked(p) == {c \in Chunks : <<c, p>> \in links}
               hit(p) == linked(p) # {} /\ \A n \in {p[1], p[2]} : neo.id[n] = graph.id[n]
           IN  /\ new \in NeoRecord
               /\ new.id = neo.id /\ new.chunks = neo.chunks
               /\ new.rel = [p \in Pairs |-> IF hit(p) THEN neo.rel[p] \cup linked(p) ELSE neo.rel[p]]
               /\ new.count = [p \in Pairs |-> IF hit(p) THEN graph.mentions[p] ELSE neo.count[p]]
<1> DEFINE new == ReplayedEdges(links)
           linked(p) == {c \in Chunks : <<c, p>> \in links}
           hit(p) == linked(p) # {} /\ \A n \in {p[1], p[2]} : neo.id[n] = graph.id[n]
           rel == [p \in Pairs |-> IF hit(p) THEN neo.rel[p] \cup linked(p) ELSE neo.rel[p]]
           count == [p \in Pairs |-> IF hit(p) THEN graph.mentions[p] ELSE neo.count[p]]
<1>1. \A p \in Pairs : linked(p) \in SUBSET Chunks
      OBVIOUS
<1> HIDE DEF linked
<1>2. rel \in [Pairs -> SUBSET Chunks] /\ count \in [Pairs -> Counts]
      BY <1>1 DEF NeoRecord, GraphRecord
<1>3. new = [neo EXCEPT !.rel = rel, !.count = count]
  <2> DEFINE hits == {p \in Pairs : hit(p)}
  <2>1. /\ rel = [p \in Pairs |-> IF p \in hits THEN neo.rel[p] \cup linked(p) ELSE neo.rel[p]]
        /\ count = [p \in Pairs |-> IF p \in hits THEN graph.mentions[p] ELSE neo.count[p]]
        OBVIOUS
  <2> QED BY <2>1 DEF ReplayedEdges, linked
<1> HIDE DEF new, rel, count
<1>4. new.rel = rel /\ new.count = count /\ new.id = neo.id /\ new.chunks = neo.chunks
      BY <1>3 DEF NeoRecord
<1>5. new = [id |-> new.id, chunks |-> new.chunks, rel |-> new.rel, count |-> new.count]
      BY <1>3 DEF NeoRecord
<1>6. neo.id \in [Names -> Nat] /\ neo.chunks \in [Names -> SUBSET Chunks]
      BY DEF NeoRecord
<1>7. new \in NeoRecord
      BY <1>2, <1>4, <1>5, <1>6 DEF NeoRecord
<1> QED BY <1>4, <1>7 DEF new, rel, count, linked

(* The steps of the worker that leave both stores alone.                   *)
LEMMA PlainTyped ==
    ASSUME TypeInv,
           \/ Beat \/ StartBackfill \/ Take \/ ListDocuments \/ EndSweep \/ EndDocument
           \/ ResetExtraction \/ ChunkFails \/ WorkerCrash
           \/ \E d \in Docs : BeginDocument(d) \/ RetireChunks(d)
           \/ \E c \in Chunks : BeginChunk(c)
    PROVE  TypeInv'
<1> USE DEF TypeInv, RowsTyped
<1>0. job \in JobRecord /\ Idle \in JobRecord /\ Idle.pc = "idle" /\ NoGraph \in GraphRecord
      BY IdleTyped, EmptyGraph DEF JobTyped
<1>1. CASE Beat
  <2>1. queue' \in Seq(Tasks)
        BY <1>1 DEF Beat, Tasks
  <2> QED BY <1>1, <2>1 DEF Beat, StoresTyped, JobTyped, ontologyVars, stores, observers
<1>2. CASE StartBackfill
  <2>1. queue' \in Seq(Tasks)
        BY <1>2 DEF StartBackfill, Tasks
  <2> QED BY <1>2, <2>1 DEF StartBackfill, StoresTyped, JobTyped, ontologyVars, stores, observers
<1>3. CASE Take
  <2>1. Head(queue) \in Tasks /\ queue' \in Seq(Tasks)
        BY <1>3 DEF Take
  <2>2. job' \in JobRecord /\ job'.pc = Head(queue)
        BY <1>3, <1>0, <2>1 DEF Take, JobRecord, Tasks
  <2> QED BY <1>3, <2>1, <2>2 DEF Take, Tasks, StoresTyped, JobTyped, ontologyVars, stores, observers
<1>4. CASE ListDocuments
  <2>1. {DocOf[c] : c \in Pending} \subseteq Docs
        BY OutputOK DEF Pending
  <2>2. job' \in JobRecord /\ job'.pc = "documents"
        BY <1>4, <1>0, <2>1 DEF ListDocuments, JobRecord
  <2> QED BY <1>4, <2>2 DEF ListDocuments, StoresTyped, JobTyped, ontologyVars, stores, observers
<1>5. CASE EndSweep
      BY <1>0, <1>5 DEF EndSweep, StoresTyped, JobTyped, ontologyVars, stores, observers
<1>6. CASE EndDocument
  <2>1. job' \in JobRecord /\ job'.pc = "documents"
        BY <1>6, <1>0 DEF EndDocument, JobRecord
  <2> QED BY <1>6, <2>1 DEF EndDocument, StoresTyped, JobTyped, ontologyVars, stores, observers
<1>7. CASE ResetExtraction
  <2>1. extracted' \in [Chunks -> 0 .. MaxVersion]
        BY <1>7, OutputOK DEF ResetExtraction
  <2> QED BY <1>0, <1>7, <2>1 DEF ResetExtraction, StoresTyped, JobTyped, ontologyVars, observers
<1>8. CASE ChunkFails
  <2>1. <<>> \in Seq(Names) /\ <<>> \in Seq(Pairs)
        OBVIOUS
  <2>2. job' \in JobRecord /\ job'.pc = "chunks" /\ job'.schema = job.schema
        BY <1>8, <1>0, <2>1 DEF ChunkFails, NextChunk, JobRecord
  <2> QED BY <1>8, <2>2 DEF ChunkFails, Fault, StoresTyped, JobTyped, ontologyVars, stores, observers
<1>9. CASE WorkerCrash
  <2>1. /\ lost' \in BOOLEAN /\ faults' \in Nat /\ job' = Idle
        /\ repaired' \in Nat /\ repaired' <= faults'
        BY <1>9 DEF WorkerCrash, Fault
  <2> QED BY <1>0, <1>9, <2>1 DEF WorkerCrash, StoresTyped, JobTyped, ontologyVars, stores
<1>10. ASSUME NEW d \in Docs, BeginDocument(d) PROVE TypeInv'
  <2> DEFINE todo == {c \in Pending : DocOf[c] = d}
  <2>1. CASE Active = {} \/ todo = {}
    <3>1. job' = [job EXCEPT !.docs = @ \ {d}] /\ job.pc = "documents"
          BY <1>10, <2>1 DEF BeginDocument
    <3>2. job' \in JobRecord /\ job'.pc = "documents"
          BY <1>0, <3>1 DEF JobRecord
    <3> QED BY <1>10, <3>2 DEF BeginDocument, StoresTyped, JobTyped, ontologyVars, stores, observers
  <2>2. CASE ~(Active = {} \/ todo = {})
    <3>1. /\ job' = [job EXCEPT !.pc = "chunks", !.docs = @ \ {d},
                                !.schema = LoadedSchema, !.todo = todo]
          /\ job.pc = "documents"
          BY <1>10, <2>2 DEF BeginDocument
    <3>2. LoadedSchema \in Versions /\ Versions \subseteq 0 .. MaxVersion
          BY <2>2 DEF LoadedSchema, Active, Versions
    <3>3. todo \subseteq Chunks
          BY DEF Pending
    <3> HIDE DEF todo
    <3>4. job' \in JobRecord /\ job'.pc = "chunks" /\ job'.schema = LoadedSchema
          BY <1>0, <3>1, <3>2, <3>3 DEF JobRecord
    <3> QED BY <1>10, <3>2, <3>4 DEF BeginDocument, StoresTyped, JobTyped, ontologyVars, stores, observers
  <2> QED BY <2>1, <2>2
<1>11. ASSUME NEW d \in Docs, RetireChunks(d) PROVE TypeInv'
       BY <1>11 DEF RetireChunks, StoresTyped, JobTyped, ontologyVars, stores, observers
<1>12. ASSUME NEW c \in Chunks, BeginChunk(c) PROVE TypeInv'
  <2> DEFINE found == Output[job.schema][c]
  <2>1. found.entities \in Seq(Names) /\ found.triples \in Seq(Pairs) /\ job.schema \in Versions
    <3>1. job.schema \in 1 .. MaxVersion
          BY <1>12 DEF BeginChunk, JobTyped, Versions
    <3>2. found \in [entities : Seq(Names), triples : Seq(Pairs)]
          BY <3>1, OutputOK
    <3> QED BY <3>1, <3>2 DEF Versions
  <2>2. /\ job' = [job EXCEPT !.pc = "write", !.todo = @ \ {c}, !.chunk = {c}, !.tx = graph,
                              !.entities = found.entities, !.triples = found.triples, !.mirrors = TRUE]
        /\ graph \in GraphRecord
        BY <1>12 DEF BeginChunk, StoresTyped
  <2> HIDE DEF found
  <2>3. job' \in JobRecord /\ job'.pc = "write" /\ job'.schema = job.schema /\ job'.chunk = {c}
        BY <1>0, <2>1, <2>2 DEF JobRecord
  <2> QED BY <1>12, <2>1, <2>3 DEF BeginChunk, StoresTyped, JobTyped, ontologyVars, stores, observers
<1> QED BY <1>1, <1>2, <1>3, <1>4, <1>5, <1>6, <1>7, <1>8, <1>9, <1>10, <1>11, <1>12

(* What one step of the dual write does, outside Neo4j.                    *)
LEMMA WriteNodeStep ==
    ASSUME TypeInv, WriteNode
    PROVE  \E c \in Chunks, n \in Names :
             LET tx == TouchNode(job.tx, n, c)
                 upserted == UpsertNode(n, tx.id[n], c)
             IN  /\ job.pc = "write" /\ job.chunk = {c} /\ n = Head(job.entities)
                 /\ tx \in GraphRecord /\ tx.id[n] \in Nat /\ job.schema \in Versions
                 /\ job' \in JobRecord /\ job'.pc = "write" /\ job'.chunk = job.chunk
                 /\ job'.schema = job.schema /\ job'.tx = tx /\ job'.docs = job.docs
                 /\ job.entities # <<>> /\ job'.entities = Tail(job.entities)
                 /\ job'.triples = job.triples
                 /\ \/ neo' = upserted /\ job'.mirrors = job.mirrors /\ faults' = faults
                    \/ neo' = neo /\ job'.mirrors = FALSE /\ faults' = faults + 1
                 /\ inserted' = [inserted EXCEPT ![n] = IF job.tx.stamp[n] = 0 THEN @ + 1 ELSE @]
                 /\ UNCHANGED <<schemas, request, active, extracted, graph, queue, mirrored, lost, repaired>>
<1>0. job \in JobRecord /\ job.pc = "write" /\ job.entities # <<>> /\ job.schema \in Versions
      BY DEF TypeInv, JobTyped, WriteNode
<1>1. PICK c \in Chunks : job.chunk = {c}
      BY <1>0 DEF TypeInv, JobTyped
<1>2. (CHOOSE x \in job.chunk : TRUE) = c
      BY <1>1
<1> DEFINE n  == Head(job.entities)
           tx == TouchNode(job.tx, n, c)
           upserted == UpsertNode(n, tx.id[n], c)
           next == [job EXCEPT !.tx = tx, !.entities = Tail(job.entities)]
<1>3. n \in Names /\ Tail(job.entities) \in Seq(Names) /\ job.tx \in GraphRecord
      BY <1>0 DEF JobRecord
<1>4. tx \in GraphRecord /\ tx.id[n] \in Nat
  <2>1. inserted \in [Names -> Nat]
        BY DEF TypeInv, RowsTyped
  <2>2. tx \in GraphRecord
        BY <1>0, <1>3, <2>1, TouchNodeFields
  <2> HIDE DEF tx, n
  <2> QED BY <1>3, <2>2 DEF GraphRecord
<1>5. Mirror(upserted, next)
      BY <1>0, <1>2 DEF WriteNode
<1>6. /\ inserted' = [inserted EXCEPT ![n] = IF job.tx.stamp[n] = 0 THEN @ + 1 ELSE @]
      /\ UNCHANGED <<schemas, request, active, extracted, graph, queue, mirrored, lost, repaired>>
      BY DEF WriteNode, ontologyVars
<1> HIDE DEF n, tx, upserted
<1>7. /\ next \in JobRecord /\ next.pc = "write" /\ next.chunk = job.chunk
      /\ next.schema = job.schema /\ next.tx = tx /\ next.docs = job.docs
      /\ next.entities = Tail(job.entities) /\ next.triples = job.triples /\ next.mirrors = job.mirrors
      BY <1>0, <1>3, <1>4 DEF JobRecord
<1> HIDE DEF next
<1>8. \/ neo' = upserted /\ job' = next /\ faults' = faults
      \/ neo' = neo /\ job' = [next EXCEPT !.mirrors = FALSE] /\ faults' = faults + 1
      BY <1>5 DEF Mirror, Fault
<1> DEFINE failed == [next EXCEPT !.mirrors = FALSE]
<1>9. /\ failed \in JobRecord /\ failed.pc = "write" /\ failed.chunk = job.chunk
      /\ failed.schema = job.schema /\ failed.tx = tx /\ failed.docs = job.docs
      /\ failed.entities = Tail(job.entities) /\ failed.triples = job.triples /\ failed.mirrors = FALSE
      BY <1>7 DEF JobRecord
<1> HIDE DEF failed
<1>10. \/ neo' = upserted /\ job' = next /\ faults' = faults
       \/ neo' = neo /\ job' = failed /\ faults' = faults + 1
       BY <1>8 DEF failed
<1>11. /\ job' \in JobRecord /\ job'.pc = "write" /\ job'.chunk = job.chunk
       /\ job'.schema = job.schema /\ job'.tx = tx /\ job'.docs = job.docs
       /\ job'.entities = Tail(job.entities) /\ job'.triples = job.triples
       /\ \/ neo' = upserted /\ job'.mirrors = job.mirrors /\ faults' = faults
          \/ neo' = neo /\ job'.mirrors = FALSE /\ faults' = faults + 1
       BY <1>7, <1>9, <1>10
<1> QED BY <1>0, <1>1, <1>3, <1>4, <1>6, <1>11 DEF n, tx, upserted

LEMMA WriteEdgeStep ==
    ASSUME TypeInv, WriteEdge
    PROVE  \E c \in Chunks, p \in Pairs :
             LET tx == TouchEdge(job.tx, p, c)
                 upserted == UpsertEdge(p, tx.id, tx.mentions[p], c)
             IN  /\ job.pc = "write" /\ job.chunk = {c} /\ p = Head(job.triples)
                 /\ tx \in GraphRecord /\ job.schema \in Versions
                 /\ tx.mentions[p] \in Counts
                 /\ job' \in JobRecord /\ job'.pc = "write" /\ job'.chunk = job.chunk
                 /\ job'.schema = job.schema /\ job'.tx = tx /\ job'.docs = job.docs
                 /\ job.entities = <<>> /\ job'.entities = <<>>
                 /\ job.triples # <<>> /\ job'.triples = Tail(job.triples)
                 /\ \/ neo' = upserted /\ job'.mirrors = job.mirrors /\ faults' = faults
                    \/ neo' = neo /\ job'.mirrors = FALSE /\ faults' = faults + 1
                 /\ UNCHANGED <<schemas, request, active, extracted, graph, queue, mirrored, lost, inserted, repaired>>
<1>0. job \in JobRecord /\ job.pc = "write" /\ job.triples # <<>> /\ job.schema \in Versions /\ job.entities = <<>>
      BY DEF TypeInv, JobTyped, WriteEdge
<1>1. PICK c \in Chunks : job.chunk = {c}
      BY <1>0 DEF TypeInv, JobTyped
<1>2. (CHOOSE x \in job.chunk : TRUE) = c
      BY <1>1
<1> DEFINE p  == Head(job.triples)
           tx == TouchEdge(job.tx, p, c)
           upserted == UpsertEdge(p, tx.id, tx.mentions[p], c)
           next == [job EXCEPT !.tx = tx, !.triples = Tail(job.triples)]
<1>3. p \in Pairs /\ Tail(job.triples) \in Seq(Pairs) /\ job.tx \in GraphRecord
      BY <1>0 DEF JobRecord
<1>4. tx \in GraphRecord /\ tx.mentions[p] \in Counts
  <2>2. tx \in GraphRecord
        BY <1>0, <1>3, TouchEdgeFields
  <2> HIDE DEF tx, p
  <2> QED BY <1>3, <2>2 DEF GraphRecord
<1>5. Mirror(upserted, next)
      BY <1>0, <1>2 DEF WriteEdge
<1>6. UNCHANGED <<schemas, request, active, extracted, graph, queue, mirrored, lost, inserted, repaired>>
      BY DEF WriteEdge, ontologyVars, observers
<1> HIDE DEF p, tx, upserted
<1>7. /\ next \in JobRecord /\ next.pc = "write" /\ next.chunk = job.chunk
      /\ next.schema = job.schema /\ next.tx = tx /\ next.docs = job.docs
      /\ next.entities = <<>> /\ next.triples = Tail(job.triples) /\ next.mirrors = job.mirrors
      BY <1>0, <1>3, <1>4 DEF JobRecord
<1> HIDE DEF next
<1>8. \/ neo' = upserted /\ job' = next /\ faults' = faults
      \/ neo' = neo /\ job' = [next EXCEPT !.mirrors = FALSE] /\ faults' = faults + 1
      BY <1>5 DEF Mirror, Fault
<1> DEFINE failed == [next EXCEPT !.mirrors = FALSE]
<1>9. /\ failed \in JobRecord /\ failed.pc = "write" /\ failed.chunk = job.chunk
      /\ failed.schema = job.schema /\ failed.tx = tx /\ failed.docs = job.docs
      /\ failed.entities = <<>> /\ failed.triples = Tail(job.triples) /\ failed.mirrors = FALSE
      BY <1>7 DEF JobRecord
<1> HIDE DEF failed
<1>10. \/ neo' = upserted /\ job' = next /\ faults' = faults
       \/ neo' = neo /\ job' = failed /\ faults' = faults + 1
       BY <1>8 DEF failed
<1>11. /\ job' \in JobRecord /\ job'.pc = "write" /\ job'.chunk = job.chunk
       /\ job'.schema = job.schema /\ job'.tx = tx /\ job'.docs = job.docs
       /\ job'.entities = <<>> /\ job'.triples = Tail(job.triples)
       /\ \/ neo' = upserted /\ job'.mirrors = job.mirrors /\ faults' = faults
          \/ neo' = neo /\ job'.mirrors = FALSE /\ faults' = faults + 1
       BY <1>7, <1>9, <1>10
<1> QED BY <1>0, <1>1, <1>3, <1>4, <1>6, <1>11 DEF p, tx, upserted

LEMMA CommitStep ==
    ASSUME TypeInv, CommitChunk
    PROVE  \E c \in Chunks :
             /\ job.pc = "write" /\ job.chunk = {c} /\ job.schema \in Versions
             /\ job.entities = <<>> /\ job.triples = <<>>
             /\ graph' = job.tx /\ job.tx \in GraphRecord
             /\ extracted' = [extracted EXCEPT ![c] = job.schema]
             /\ mirrored' = [mirrored EXCEPT ![c] = IF job.mirrors THEN job.schema ELSE 0]
             /\ job' \in JobRecord /\ job'.pc = "chunks" /\ job'.schema = job.schema
             /\ UNCHANGED <<schemas, request, active, neo, queue, inserted, lost, repaired, faults>>
<1>0. job \in JobRecord /\ job.pc = "write" /\ job.schema \in Versions /\ NoGraph \in GraphRecord
      BY EmptyGraph DEF TypeInv, JobTyped, CommitChunk
<1>1. PICK c \in Chunks : job.chunk = {c}
      BY <1>0 DEF TypeInv, JobTyped
<1>2. (CHOOSE x \in job.chunk : TRUE) = c
      BY <1>1
<1>3. <<>> \in Seq(Names) /\ <<>> \in Seq(Pairs)
      OBVIOUS
<1>4. job' \in JobRecord /\ job'.pc = "chunks" /\ job'.schema = job.schema
      BY <1>0, <1>3 DEF CommitChunk, NextChunk, JobRecord
<1>5. job.tx \in GraphRecord
      BY <1>0 DEF JobRecord
<1> QED BY <1>0, <1>1, <1>2, <1>4, <1>5 DEF CommitChunk, ontologyVars

LEMMA WriteTyped ==
    ASSUME TypeInv, WriteNode \/ WriteEdge \/ CommitChunk
    PROVE  TypeInv'
<1>0. neo \in NeoRecord /\ graph \in GraphRecord
      BY DEF TypeInv, StoresTyped
<1>1. CASE WriteNode
  <2>1. PICK c \in Chunks, n \in Names :
             LET tx == TouchNode(job.tx, n, c)
                 upserted == UpsertNode(n, tx.id[n], c)
             IN  /\ job.chunk = {c} /\ tx.id[n] \in Nat /\ job.schema \in Versions
                 /\ job' \in JobRecord /\ job'.pc = "write" /\ job'.chunk = job.chunk
                 /\ job'.schema = job.schema
                 /\ \/ neo' = upserted /\ faults' = faults
                    \/ neo' = neo /\ faults' = faults + 1
                 /\ inserted' = [inserted EXCEPT ![n] = IF job.tx.stamp[n] = 0 THEN @ + 1 ELSE @]
                 /\ UNCHANGED <<schemas, request, active, extracted, graph, queue, mirrored, lost, repaired>>
        BY <1>1, WriteNodeStep
  <2>2. neo' \in NeoRecord
    <3>1. \A id \in Nat : UpsertNode(n, id, c) \in NeoRecord
          BY <1>0, UpsertNodeFields
    <3> QED BY <1>0, <2>1, <3>1
  <2>3. inserted' \in [Names -> Nat] /\ faults' \in Nat
        BY <2>1 DEF TypeInv, RowsTyped
  <2>4. JobTyped'
        BY <2>1 DEF JobTyped
  <2>5. RowsTyped'
        BY <2>1, <2>3 DEF TypeInv, RowsTyped
  <2>6. StoresTyped'
        BY <1>0, <2>1, <2>2 DEF StoresTyped
  <2> QED BY <2>4, <2>5, <2>6 DEF TypeInv
<1>2. CASE WriteEdge
  <2>1. PICK c \in Chunks, p \in Pairs :
             LET tx == TouchEdge(job.tx, p, c)
                 upserted == UpsertEdge(p, tx.id, tx.mentions[p], c)
             IN  /\ job.chunk = {c} /\ tx.mentions[p] \in Counts /\ job.schema \in Versions
                 /\ job' \in JobRecord /\ job'.pc = "write" /\ job'.chunk = job.chunk
                 /\ job'.schema = job.schema
                 /\ \/ neo' = upserted /\ faults' = faults
                    \/ neo' = neo /\ faults' = faults + 1
                 /\ UNCHANGED <<schemas, request, active, extracted, graph, queue, mirrored, lost, inserted, repaired>>
        BY <1>2, WriteEdgeStep
  <2>2. neo' \in NeoRecord
    <3>1. \A ids, count : count \in Counts => UpsertEdge(p, ids, count, c) \in NeoRecord
          BY <1>0, UpsertEdgeFields
    <3> QED BY <1>0, <2>1, <3>1
  <2>3. faults' \in Nat
        BY <2>1 DEF TypeInv, RowsTyped
  <2>4. JobTyped'
        BY <2>1 DEF JobTyped
  <2>5. RowsTyped'
        BY <2>1, <2>3 DEF TypeInv, RowsTyped
  <2>6. StoresTyped'
        BY <1>0, <2>1, <2>2 DEF StoresTyped
  <2> QED BY <2>4, <2>5, <2>6 DEF TypeInv
<1>3. CASE CommitChunk
  <2>1. PICK c \in Chunks :
             /\ job.schema \in Versions
             /\ graph' = job.tx /\ job.tx \in GraphRecord
             /\ extracted' = [extracted EXCEPT ![c] = job.schema]
             /\ mirrored' = [mirrored EXCEPT ![c] = IF job.mirrors THEN job.schema ELSE 0]
             /\ job' \in JobRecord /\ job'.pc = "chunks" /\ job'.schema = job.schema
             /\ UNCHANGED <<schemas, request, active, neo, queue, inserted, lost, repaired, faults>>
        BY <1>3, CommitStep
  <2>2. extracted' \in [Chunks -> 0 .. MaxVersion] /\ mirrored' \in [Chunks -> 0 .. MaxVersion]
        BY <2>1, OutputOK DEF TypeInv, RowsTyped, Versions
  <2>3. RowsTyped'
        BY <2>1, <2>2 DEF TypeInv, RowsTyped
  <2>4. StoresTyped' /\ JobTyped'
        BY <1>0, <2>1 DEF StoresTyped, JobTyped
  <2> QED BY <2>3, <2>4 DEF TypeInv
<1> QED BY <1>1, <1>2, <1>3

LEMMA ReplayTyped ==
    ASSUME TypeInv, ReplayNodes \/ ReplayEdges \/ BackfillFails
    PROVE  TypeInv'
<1>0. neo \in NeoRecord /\ graph \in GraphRecord /\ job \in JobRecord /\ Idle \in JobRecord /\ Idle.pc = "idle"
      BY IdleTyped DEF TypeInv, StoresTyped, JobTyped
<1>1. \A links : ReplayedNodes(links) \in NeoRecord /\ ReplayedEdges(links) \in NeoRecord
      BY <1>0, ReplayedNodesFields, ReplayedEdgesFields
<1>2. /\ neo' \in NeoRecord /\ faults' \in Nat
      /\ repaired' \in Nat /\ repaired' <= faults'
      BY <1>1 DEF observers, ReplayNodes, ReplayEdges, BackfillFails, Fault, TypeInv, RowsTyped
<1>3. job' \in JobRecord /\ job'.pc \in {"edges", "idle"}
  <2>1. CASE ReplayNodes
        BY <1>0, <2>1 DEF ReplayNodes, JobRecord
  <2>2. CASE ReplayEdges \/ BackfillFails
        BY <1>0, <2>2 DEF ReplayEdges, BackfillFails
  <2> QED BY <2>1, <2>2
<1>4. UNCHANGED <<schemas, request, active, extracted, graph, queue, inserted, mirrored, lost>>
      BY DEF ReplayNodes, ReplayEdges, BackfillFails, ontologyVars, observers
<1>5. RowsTyped'
      BY <1>2, <1>4 DEF TypeInv, RowsTyped
<1>6. StoresTyped' /\ JobTyped'
      BY <1>0, <1>2, <1>3, <1>4 DEF StoresTyped, JobTyped
<1> QED BY <1>5, <1>6 DEF TypeInv

(* The steps by what they may touch; every step is one of these.           *)
PlainStep ==
    \/ Beat \/ StartBackfill \/ Take \/ ListDocuments \/ EndSweep \/ EndDocument
    \/ ResetExtraction \/ ChunkFails \/ WorkerCrash
    \/ \E d \in Docs : BeginDocument(d) \/ RetireChunks(d)
    \/ \E c \in Chunks : BeginChunk(c)

LEMMA StepKinds ==
    ASSUME Next
    PROVE  \/ \E a \in Admins : Activation(a) \/ ActivationDies(a)
           \/ PlainStep
           \/ WriteNode \/ WriteEdge \/ CommitChunk
           \/ ReplayNodes \/ ReplayEdges \/ BackfillFails
BY DEF Next, Worker, PlainStep

LEMMA NextTyped == TypeInv /\ [Next]_vars => TypeInv'
<1> SUFFICES ASSUME TypeInv, [Next]_vars PROVE TypeInv'
    OBVIOUS
<1>1. CASE UNCHANGED vars
      BY <1>1 DEF vars, TypeInv, RowsTyped, StoresTyped, JobTyped
<1>2. ASSUME NEW a \in Admins, Activation(a) \/ ActivationDies(a) PROVE TypeInv'
  <2>0. (faults' = faults \/ faults' = faults + 1) /\ repaired' = repaired
        BY <1>2, ActivationTyped
  <2>1. faults' \in Nat /\ repaired' \in Nat /\ repaired' <= faults'
        BY <2>0 DEF TypeInv, RowsTyped
  <2> QED BY <1>2, <2>1, ActivationTyped DEF TypeInv, RowsTyped, StoresTyped, JobTyped
<1>3. CASE PlainStep
      BY <1>3, PlainTyped DEF PlainStep
<1>4. CASE WriteNode \/ WriteEdge \/ CommitChunk
      BY <1>4, WriteTyped
<1>5. CASE ReplayNodes \/ ReplayEdges \/ BackfillFails
      BY <1>5, ReplayTyped
<1> QED BY <1>1, <1>2, <1>3, <1>4, <1>5, StepKinds

LEMMA TypeInvariant == Spec => []TypeInv
<1> QED BY InitTyped, NextTyped, PTL DEF Spec

----------------------------------------------------------------------------
(* The ontology.                                                           *)

SomeVersion == \E w \in Versions : schemas[w] # "none"

(* One version is active once there is one, and it is the newest; what a   *)
(* request has read was active once, and is not the last of the bound.     *)
VersionInv ==
    /\ \A v, w \in Active : v = w
    /\ \A v \in Active, w \in Versions : schemas[w] # "none" => w <= v
    /\ SomeVersion => Active # {}
    /\ \A a \in Admins : request[a].pc = "read" =>
          /\ request[a].previous < MaxVersion
          /\ request[a].previous # 0 => schemas[request[a].previous] # "none"

LEMMA VersionInit == Init => VersionInv
BY DEF Init, VersionInv, SomeVersion, Active

LEMMA VersionFrame ==
    ASSUME VersionInv, UNCHANGED <<schemas, request>>
    PROVE  VersionInv'
BY DEF VersionInv, SomeVersion, Active

LEMMA ActivationRecords ==
    ASSUME TypeInv, NEW a \in Admins, Activation(a) \/ ActivationDies(a)
    PROVE  /\ request[a] \in [pc : {"idle", "read", "publish"}, previous : 0 .. MaxVersion]
           /\ \A b \in Admins : b # a => request'[b] = request[b]
<1>1. request \in [Admins -> [pc : {"idle", "read", "publish"}, previous : 0 .. MaxVersion]]
      BY DEF TypeInv, RowsTyped
<1> QED BY <1>1 DEF Activation, ActivationDies, ReadActive, ActivateNext, ActivationConflict,
                    EnqueueReextraction

LEMMA VersionActivated ==
    ASSUME TypeInv, VersionInv, NEW a \in Admins, ActivateNext(a)
    PROVE  VersionInv'
<1> DEFINE old == request[a].previous
<1>0. /\ old \in Nat /\ old < MaxVersion /\ old + 1 \in Versions
      /\ old # 0 => schemas[old] # "none" /\ old \in Versions
  <2>1. request[a].pc = "read"
        BY DEF ActivateNext
  <2>2. old \in 0 .. MaxVersion
        BY ActivationRecords DEF Activation
  <2>3. old < MaxVersion /\ (old # 0 => schemas[old] # "none")
        BY <2>1 DEF VersionInv
  <2> QED BY <2>2, <2>3, OutputOK DEF Versions
<1>1. Active \subseteq {old}
      BY DEF ActivateNext, OneActiveIndex
<1> HIDE DEF old
<1>2. \A w \in Versions : schemas[w] # "none" => w <= old
  <2>1. CASE old = 0
    <3>1. Active = {}
          BY <1>1, <2>1 DEF Active, Versions
    <3> QED BY <3>1 DEF VersionInv, SomeVersion
  <2>2. CASE old # 0
    <3>1. old \in Active
          BY <1>0, <1>1, <2>2 DEF VersionInv, SomeVersion
    <3> QED BY <3>1 DEF VersionInv
  <2> QED BY <2>1, <2>2
<1>3. /\ schemas' = [v \in Versions |-> CASE v = old     -> "inactive"
                                          [] v = old + 1 -> "active"
                                          [] OTHER       -> schemas[v]]
      /\ request' = [request EXCEPT ![a].pc = "publish"]
      BY DEF ActivateNext, old
<1>4. Active' = {old + 1}
  <2>1. \A v \in Versions : schemas'[v] = "active" <=> v = old + 1
    <3> SUFFICES ASSUME NEW v \in Versions PROVE schemas'[v] = "active" <=> v = old + 1
        OBVIOUS
    <3>1. CASE v = old
          BY <1>0, <1>3, <3>1
    <3>2. CASE v = old + 1
          BY <1>0, <1>3, <3>2
    <3>3. CASE v # old /\ v # old + 1
      <4>1. schemas'[v] = schemas[v]
            BY <1>3, <3>3
      <4> QED BY <4>1, <1>1, <3>3 DEF Active
    <3> QED BY <3>1, <3>2, <3>3
  <2> QED BY <1>0, <2>1 DEF Active
<1>5. \A w \in Versions : schemas'[w] # "none" => w <= old + 1
  <2> SUFFICES ASSUME NEW w \in Versions, schemas'[w] # "none" PROVE w <= old + 1
      OBVIOUS
  <2>1. CASE w = old \/ w = old + 1
        BY <1>0, <2>1
  <2>2. CASE w # old /\ w # old + 1
    <3>1. schemas'[w] = schemas[w]
          BY <1>3, <2>2
    <3> QED BY <1>0, <1>2, <3>1 DEF Versions
  <2> QED BY <2>1, <2>2
<1>6. ASSUME NEW b \in Admins, request'[b].pc = "read"
      PROVE  /\ request'[b].previous < MaxVersion
             /\ request'[b].previous # 0 => schemas'[request'[b].previous] # "none"
  <2>1. b # a /\ request'[b] = request[b]
    <3>1. request'[a].pc = "publish"
          BY <1>3, ActivationRecords DEF Activation, TypeInv, RowsTyped
    <3> QED BY <3>1, <1>6, ActivationRecords DEF Activation
  <2> DEFINE q == request[b].previous
  <2>2. q < MaxVersion /\ (q # 0 => schemas[q] # "none")
        BY <2>1, <1>6 DEF VersionInv
  <2>3. q \in 0 .. MaxVersion
        BY DEF TypeInv, RowsTyped
  <2>4. q # 0 => q \in Versions
        BY <2>3, OutputOK DEF Versions
  <2> HIDE DEF q
  <2>5. ASSUME q # 0 PROVE schemas'[q] # "none"
    <3>1. CASE q = old
          BY <1>3, <2>4, <2>5, <3>1
    <3>2. CASE q # old /\ q = old + 1
          BY <1>3, <2>4, <2>5, <3>2
    <3>3. CASE q # old /\ q # old + 1
          BY <1>3, <2>2, <2>4, <2>5, <3>3
    <3> QED BY <3>1, <3>2, <3>3
  <2> QED BY <2>1, <2>2, <2>5 DEF q
<1> QED BY <1>4, <1>5, <1>6 DEF VersionInv

LEMMA VersionRequest ==
    ASSUME TypeInv, VersionInv, NEW a \in Admins, Activation(a) \/ ActivationDies(a), ~ActivateNext(a)
    PROVE  VersionInv'
<1>1. UNCHANGED schemas
      BY DEF Activation, ActivationDies, ReadActive, ActivationConflict, EnqueueReextraction, stores
<1>2. ASSUME NEW b \in Admins, request'[b].pc = "read"
      PROVE  /\ request'[b].previous < MaxVersion
             /\ request'[b].previous # 0 => schemas[request'[b].previous] # "none"
  <2>1. CASE b # a
        BY <2>1, <1>2, ActivationRecords DEF VersionInv
  <2>2. CASE b = a
    <3>1. ReadActive(a)
      <4>1. CASE ActivationConflict(a) \/ EnqueueReextraction(a) \/ ActivationDies(a)
        <5>1. request'[a].pc = "idle"
              BY <4>1, ActivationRecords DEF ActivationConflict, EnqueueReextraction, ActivationDies,
                 TypeInv, RowsTyped
        <5> QED BY <5>1, <2>2, <1>2
      <4> QED BY <4>1 DEF Activation
    <3>2. PICK q : /\ request' = [request EXCEPT ![a] = [pc |-> "read", previous |-> q]]
                   /\ q = IF Active = {} THEN 0 ELSE CHOOSE v \in Active : TRUE
          BY <3>1 DEF ReadActive
    <3>3. request'[a].previous = q
          BY <3>2 DEF TypeInv, RowsTyped
    <3>4. CASE Active = {}
      <4>1. q = 0
            BY <3>2, <3>4
      <4> QED BY <2>2, <3>3, <4>1, OutputOK
    <3>5. CASE Active # {}
      <4>1. q \in Active /\ q # MaxVersion
            BY <3>1, <3>2, <3>5 DEF ReadActive
      <4>2. q \in 1 .. MaxVersion /\ schemas[q] = "active"
            BY <4>1 DEF Active, Versions
      <4> QED BY <2>2, <3>3, <4>1, <4>2, OutputOK
    <3> QED BY <3>4, <3>5
  <2> QED BY <2>1, <2>2
<1> QED BY <1>1, <1>2 DEF VersionInv, SomeVersion, Active

(* The worker and the schedule leave the ontology alone.                   *)
LEMMA WorkerLeavesOntology ==
    ASSUME Next
    PROVE  \/ \E a \in Admins : Activation(a) \/ ActivationDies(a)
           \/ UNCHANGED <<schemas, request>>
BY DEF Next, Worker, Beat, StartBackfill, RetireChunks, ChunkFails, BackfillFails, WorkerCrash,
       Take, ResetExtraction, ListDocuments, EndSweep, EndDocument, BeginDocument, BeginChunk,
       WriteNode, WriteEdge, CommitChunk, ReplayNodes, ReplayEdges, ontologyVars

LEMMA VersionNext == TypeInv /\ VersionInv /\ [Next]_vars => VersionInv'
<1> SUFFICES ASSUME TypeInv, VersionInv, [Next]_vars PROVE VersionInv'
    OBVIOUS
<1>1. CASE UNCHANGED <<schemas, request>>
      BY <1>1, VersionFrame
<1>2. ASSUME NEW a \in Admins, Activation(a) \/ ActivationDies(a) PROVE VersionInv'
      BY <1>2, VersionActivated, VersionRequest
<1> QED BY <1>1, <1>2, WorkerLeavesOntology DEF vars

LEMMA VersionInvariant == Spec => []VersionInv
<1> QED BY VersionInit, VersionNext, TypeInvariant, PTL DEF Spec

(* Under concurrent activations at most one version is active, and it is   *)
(* the newest (create_schema_version and its partial unique index).        *)
THEOREM ActiveIsNewestCorrect == Spec => []ActiveIsNewest
<1>1. VersionInv => ActiveIsNewest
  <2> SUFFICES ASSUME VersionInv PROVE Cardinality(Active) <= 1
      BY DEF VersionInv, ActiveIsNewest
  <2>1. CASE Active = {}
        BY <2>1, FS_EmptySet
  <2>2. ASSUME NEW v \in Active PROVE Cardinality(Active) <= 1
    <3>1. Active = {v}
          BY DEF VersionInv
    <3>2. Cardinality({v}) = 1
          BY FS_Singleton
    <3> QED BY <3>1, <3>2
  <2> QED BY <2>1, <2>2
<1> QED BY <1>1, VersionInvariant, PTL

----------------------------------------------------------------------------
(* Re-extraction.                                                          *)

(* What still resets the chunks of an older version, apart from the task   *)
(* that the worker has taken.                                              *)
ResetComing ==
    \/ \E a \in Admins : request[a].pc = "publish"
    \/ \E i \in DOMAIN queue : queue[i] = "reextract"
    \/ lost

(* A document whose extraction began with another version than the active  *)
(* one is only being written while a reset is still to come.               *)
ResetInv ==
    /\ OutdatedIsReset
    /\ job.pc \in {"chunks", "write"} => \A v \in Active : job.schema = v \/ ResetComing

LEMMA ResetInit == Init => ResetInv
BY DEF Init, ResetInv, OutdatedIsReset, Idle

LEMMA ResetActivation ==
    ASSUME TypeInv, ResetInv, NEW a \in Admins, Activation(a) \/ ActivationDies(a)
    PROVE  ResetInv'
<1>0. /\ UNCHANGED <<active, extracted, job>> /\ queue \in Seq(Tasks)
      /\ request \in [Admins -> [pc : {"idle", "read", "publish"}, previous : 0 .. MaxVersion]]
      BY ActivationTyped DEF TypeInv, RowsTyped
<1>1. CASE ActivateNext(a)
  <2>1. request'[a].pc = "publish"
        BY <1>0, <1>1 DEF ActivateNext
  <2> QED BY <1>0, <2>1 DEF ResetInv, ResetComing, OutdatedIsReset
<1>2. CASE ReadActive(a) \/ ActivationConflict(a)
  <2>1. UNCHANGED <<schemas, queue, lost>> /\ request[a].pc # "publish"
        BY <1>2 DEF ReadActive, ActivationConflict, observers
  <2>2. ResetComing => ResetComing'
        BY <1>2, <2>1, ActivationRecords DEF ResetComing, Activation
  <2> QED BY <1>0, <2>1, <2>2 DEF ResetInv, ResetComing, OutdatedIsReset, Active
<1>3. CASE EnqueueReextraction(a)
  <2>1. queue' = Append(queue, "reextract") /\ UNCHANGED schemas
        BY <1>3 DEF EnqueueReextraction
  <2>2. queue'[Len(queue) + 1] = "reextract" /\ Len(queue) + 1 \in DOMAIN queue'
        BY <1>0, <2>1
  <2> QED BY <1>0, <2>1, <2>2 DEF ResetInv, ResetComing, OutdatedIsReset, Active
<1>4. CASE ActivationDies(a)
  <2>1. lost' /\ UNCHANGED schemas
        BY <1>4 DEF ActivationDies
  <2> QED BY <1>0, <2>1 DEF ResetInv, ResetComing, OutdatedIsReset, Active
<1> QED BY <1>1, <1>2, <1>3, <1>4 DEF Activation

(* A step that neither forgets a reset nor makes a chunk outdated.         *)
LEMMA ResetKept ==
    ASSUME ResetInv, UNCHANGED schemas, active' \subseteq active,
           ResetComing \/ job.pc = "reextract" => ResetComing' \/ job'.pc = "reextract",
           job.pc \in {"chunks", "write"} /\ ResetComing => ResetComing',
           job'.pc \in {"chunks", "write"} =>
              \/ job.pc \in {"chunks", "write"} /\ job'.schema = job.schema
              \/ \A v \in Active : job'.schema = v,
           \A c \in active' : extracted'[c] = extracted[c] \/ extracted'[c] = 0
    PROVE  ResetInv'
<1>1. Active' = Active
      BY DEF Active
<1>2. OutdatedIsReset'
      BY <1>1 DEF ResetInv, OutdatedIsReset, ResetComing
<1>3. job'.pc \in {"chunks", "write"} => \A v \in Active' : job'.schema = v \/ ResetComing'
      BY <1>1 DEF ResetInv
<1> QED BY <1>2, <1>3 DEF ResetInv

LEMMA ResetPlain ==
    ASSUME TypeInv, VersionInv, ResetInv, PlainStep
    PROVE  ResetInv'
<1>0. queue \in Seq(Tasks) /\ job \in JobRecord /\ Idle.pc = "idle"
      BY IdleTyped DEF TypeInv, RowsTyped, JobTyped
<1>1. UNCHANGED <<schemas, request>>
      BY DEF PlainStep, Beat, StartBackfill, RetireChunks, ChunkFails, WorkerCrash, Take, ResetExtraction,
         ListDocuments, EndSweep, EndDocument, BeginDocument, BeginChunk, ontologyVars
<1>2. CASE Beat
  <2>1. \A i \in DOMAIN queue : i \in DOMAIN queue' /\ queue'[i] = queue[i]
        BY <1>0, <1>2 DEF Beat
  <2>2. UNCHANGED <<active, extracted, job, lost>>
        BY <1>2 DEF Beat, stores, observers
  <2> QED BY <1>1, <2>1, <2>2, ResetKept DEF ResetComing
<1>3. CASE StartBackfill
  <2>1. DOMAIN queue = {} /\ UNCHANGED <<active, extracted, job, lost>>
        BY <1>3 DEF StartBackfill, stores, observers
  <2> QED BY <1>1, <2>1, ResetKept DEF ResetComing
<1>4. CASE Take
  <2>1. /\ job' = [Idle EXCEPT !.pc = Head(queue)] /\ queue' = Tail(queue) /\ queue # <<>> /\ job.pc = "idle"
        /\ UNCHANGED <<active, extracted, lost>>
        BY <1>4 DEF Take, stores, observers
  <2>2. job'.pc = Head(queue) /\ Head(queue) \in Tasks
        BY <1>0, <2>1, IdleTyped DEF JobRecord
  <2>3. ASSUME NEW i \in DOMAIN queue, queue[i] = "reextract"
        PROVE  job'.pc = "reextract" \/ \E j \in DOMAIN queue' : queue'[j] = "reextract"
    <3>1. CASE i = 1
          BY <1>0, <2>2, <2>3, <3>1
    <3>2. CASE i # 1
      <4>1. i - 1 \in DOMAIN queue' /\ queue'[i - 1] = queue[i]
            BY <1>0, <2>1, <3>2
      <4> QED BY <4>1, <2>3
    <3> QED BY <3>1, <3>2
  <2> QED BY <1>1, <2>1, <2>2, <2>3, ResetKept DEF ResetComing, Tasks
<1>5. CASE ListDocuments \/ EndSweep \/ EndDocument
  <2>1. /\ job.pc \in {"batch", "documents", "chunks"} /\ job'.pc \in {"documents", "idle"}
        /\ UNCHANGED <<active, extracted, lost, queue>>
        BY <1>0, <1>5 DEF ListDocuments, EndSweep, EndDocument, JobRecord, stores, observers
  <2> QED BY <1>1, <2>1, ResetKept DEF ResetComing
<1>6. CASE ResetExtraction
  <2>1. /\ job'.pc = "idle" /\ UNCHANGED <<active, queue, lost>>
        /\ extracted' = [c \in Chunks |-> IF c \in active THEN 0 ELSE extracted[c]]
        BY <1>0, <1>6 DEF ResetExtraction, observers
  <2>2. \A c \in active' : extracted'[c] = 0
        BY <2>1 DEF TypeInv, RowsTyped
  <2> QED BY <2>1, <2>2 DEF ResetInv, OutdatedIsReset
<1>7. CASE ChunkFails
  <2>1. /\ job.pc = "write" /\ job'.pc = "chunks" /\ job'.schema = job.schema
        /\ UNCHANGED <<active, extracted, lost, queue>>
        BY <1>0, <1>7 DEF ChunkFails, NextChunk, JobRecord, stores, observers
  <2> QED BY <1>1, <2>1, ResetKept DEF ResetComing
<1>8. CASE WorkerCrash
  <2>1. /\ job'.pc = "idle" /\ lost' = (lost \/ job.pc = "reextract")
        /\ UNCHANGED <<active, extracted, queue>>
        BY <1>0, <1>8 DEF WorkerCrash, stores
  <2> QED BY <1>1, <2>1, ResetKept DEF ResetComing
<1>9. ASSUME NEW d \in Docs, BeginDocument(d) PROVE ResetInv'
  <2>1. job.pc = "documents" /\ UNCHANGED <<active, extracted, lost, queue>>
        BY <1>9 DEF BeginDocument, stores, observers
  <2>2. job'.pc = "documents" \/ \A v \in Active : job'.schema = v
    <3> DEFINE todo == {c \in Pending : DocOf[c] = d}
    <3>1. CASE Active = {} \/ todo = {}
      <4>1. job' = [job EXCEPT !.docs = @ \ {d}]
            BY <1>9, <3>1 DEF BeginDocument
      <4> QED BY <1>0, <2>1, <4>1 DEF JobRecord
    <3>2. CASE ~(Active = {} \/ todo = {})
      <4>1. job' = [job EXCEPT !.pc = "chunks", !.docs = @ \ {d}, !.schema = LoadedSchema, !.todo = todo]
            BY <1>9, <3>2 DEF BeginDocument
      <4> HIDE DEF todo
      <4>2. job'.schema = LoadedSchema
            BY <1>0, <4>1 DEF JobRecord
      <4>3. LoadedSchema \in Active
            BY <3>2 DEF LoadedSchema
      <4> QED BY <4>2, <4>3 DEF VersionInv
    <3> QED BY <3>1, <3>2
  <2> QED BY <1>1, <2>1, <2>2, ResetKept DEF ResetComing
<1>10. ASSUME NEW d \in Docs, RetireChunks(d) PROVE ResetInv'
  <2>1. active' \subseteq active /\ UNCHANGED <<job, extracted, lost, queue>>
        BY <1>10 DEF RetireChunks, stores, observers
  <2> QED BY <1>1, <2>1, ResetKept DEF ResetComing
<1>11. ASSUME NEW c \in Chunks, BeginChunk(c) PROVE ResetInv'
  <2>1. /\ job.pc = "chunks" /\ job'.pc = "write" /\ job'.schema = job.schema
        /\ UNCHANGED <<active, extracted, lost, queue>>
        BY <1>0, <1>11 DEF BeginChunk, JobRecord, stores, observers
  <2> QED BY <1>1, <2>1, ResetKept DEF ResetComing
<1> QED BY <1>2, <1>3, <1>4, <1>5, <1>6, <1>7, <1>8, <1>9, <1>10, <1>11 DEF PlainStep

LEMMA ResetCommit ==
    ASSUME TypeInv, ResetInv, CommitChunk
    PROVE  ResetInv'
<1>1. PICK c \in Chunks :
         /\ job.pc = "write"
         /\ extracted' = [extracted EXCEPT ![c] = job.schema]
         /\ job'.pc = "chunks" /\ job'.schema = job.schema
         /\ UNCHANGED <<schemas, request, active, queue, lost>>
      BY CommitStep
<1>2. Active' = Active /\ ResetComing' = ResetComing
      BY <1>1 DEF Active, ResetComing
<1>3. OutdatedIsReset'
  <2> SUFFICES ASSUME NEW x \in active, NEW v \in Active
               PROVE  extracted'[x] \in {0, v} \/ ResetComing
      BY <1>1, <1>2 DEF OutdatedIsReset, ResetComing
  <2>1. CASE x = c
        BY <1>1, <2>1 DEF ResetInv, TypeInv, RowsTyped
  <2>2. CASE x # c
    <3>1. extracted'[x] = extracted[x]
          BY <1>1, <2>2 DEF TypeInv, RowsTyped
    <3> QED BY <1>1, <3>1 DEF ResetInv, OutdatedIsReset, ResetComing
  <2> QED BY <2>1, <2>2
<1> QED BY <1>1, <1>2, <1>3 DEF ResetInv

LEMMA ResetNext == TypeInv /\ VersionInv /\ ResetInv /\ [Next]_vars => ResetInv'
<1> SUFFICES ASSUME TypeInv, VersionInv, ResetInv, [Next]_vars PROVE ResetInv'
    OBVIOUS
<1>0. Idle.pc = "idle" /\ job \in JobRecord
      BY IdleTyped DEF TypeInv, JobTyped
<1>1. CASE UNCHANGED vars
      BY <1>1, ResetKept DEF vars, ResetComing
<1>2. ASSUME NEW a \in Admins, Activation(a) \/ ActivationDies(a) PROVE ResetInv'
      BY <1>2, ResetActivation
<1>3. CASE PlainStep
      BY <1>3, ResetPlain
<1>4. CASE WriteNode
  <2>1. /\ job.pc = "write" /\ job'.pc = "write" /\ job'.schema = job.schema
        /\ UNCHANGED <<schemas, request, active, extracted, queue, lost>>
        BY <1>4, WriteNodeStep
  <2> QED BY <2>1, ResetKept DEF ResetComing
<1>5. CASE WriteEdge
  <2>1. /\ job.pc = "write" /\ job'.pc = "write" /\ job'.schema = job.schema
        /\ UNCHANGED <<schemas, request, active, extracted, queue, lost>>
        BY <1>5, WriteEdgeStep
  <2> QED BY <2>1, ResetKept DEF ResetComing
<1>6. CASE CommitChunk
      BY <1>6, ResetCommit
<1>7. CASE ReplayNodes \/ ReplayEdges \/ BackfillFails
  <2>1. /\ job.pc \in {"backfill", "edges"} /\ job'.pc \in {"edges", "idle"}
        /\ UNCHANGED <<schemas, request, active, extracted, queue, lost>>
        BY <1>0, <1>7 DEF ReplayNodes, ReplayEdges, BackfillFails, JobRecord, ontologyVars, observers
  <2> QED BY <2>1, ResetKept DEF ResetComing
<1> QED BY <1>1, <1>2, <1>3, <1>4, <1>5, <1>6, <1>7, StepKinds

(* No chunk keeps the result of an older ontology for good: a reset is     *)
(* still to come, or a crash has lost it (reextract_domain_task; the       *)
(* schema of a document is loaded once, extraction/service.py).            *)
THEOREM OutdatedIsResetCorrect == Spec => []OutdatedIsReset
<1>1. Spec => []ResetInv
      BY ResetInit, ResetNext, TypeInvariant, VersionInvariant, PTL DEF Spec
<1>2. ResetInv => OutdatedIsReset
      BY DEF ResetInv
<1> QED BY <1>1, <1>2, PTL

----------------------------------------------------------------------------
(* The stores.                                                             *)

(* What a plain step does to the worker's transaction: it leaves it alone, *)
(* begins one on the committed graph, or ends it with a fault.             *)
LEMMA PlainFrame ==
    ASSUME TypeInv, PlainStep
    PROVE  /\ UNCHANGED <<graph, neo, mirrored, inserted, repaired>>
           /\ \/ job'.pc # "write" /\ job.pc # "write" /\ faults' = faults
              \/ UNCHANGED <<job, faults>>
              \/ job'.pc # "write" /\ faults' = faults + 1
              \/ /\ job'.pc = "write" /\ job.pc # "write" /\ faults' = faults /\ job'.tx = graph
                 /\ \E c \in Chunks :
                      /\ job'.chunk = {c} /\ job'.schema \in Versions
                      /\ job'.entities = Output[job'.schema][c].entities
<1>0. /\ job \in JobRecord /\ Idle.pc = "idle" /\ Idle \in JobRecord /\ queue \in Seq(Tasks)
      /\ job.pc = "chunks" => job.schema \in Versions
      BY IdleTyped DEF TypeInv, JobTyped, RowsTyped
<1>1. UNCHANGED <<graph, neo, mirrored, inserted, repaired>>
      BY DEF PlainStep, Beat, StartBackfill, RetireChunks, ChunkFails, WorkerCrash, Take, ResetExtraction,
         ListDocuments, EndSweep, EndDocument, BeginDocument, BeginChunk, stores, observers
<1>2. CASE Beat \/ StartBackfill \/ \E d \in Docs : RetireChunks(d)
  <2>1. UNCHANGED <<job, faults>>
        BY <1>2 DEF Beat, StartBackfill, RetireChunks
  <2> QED BY <1>1, <2>1
<1>3. CASE Take
  <2>1. job' = [Idle EXCEPT !.pc = Head(queue)] /\ queue # <<>> /\ job.pc = "idle" /\ faults' = faults
        BY <1>3 DEF Take
  <2>2. Head(queue) \in Tasks
        BY <1>0, <2>1
  <2>3. job'.pc = Head(queue)
        BY <1>0, <2>1 DEF JobRecord
  <2> QED BY <1>1, <2>1, <2>2, <2>3 DEF Tasks
<1>4. CASE ListDocuments \/ EndSweep \/ EndDocument \/ ResetExtraction
  <2>1. job.pc # "write" /\ job'.pc # "write" /\ faults' = faults
        BY <1>0, <1>4 DEF ListDocuments, EndSweep, EndDocument, ResetExtraction, JobRecord
  <2> QED BY <1>1, <2>1
<1>5. CASE ChunkFails \/ WorkerCrash
  <2>1. job'.pc # "write" /\ faults' = faults + 1
        BY <1>0, <1>5 DEF ChunkFails, WorkerCrash, NextChunk, Fault, JobRecord
  <2> QED BY <1>1, <2>1
<1>6. ASSUME NEW d \in Docs, BeginDocument(d)
      PROVE  job.pc # "write" /\ job'.pc # "write" /\ faults' = faults
  <2> DEFINE todo == {c \in Pending : DocOf[c] = d}
  <2>1. CASE Active = {} \/ todo = {}
    <3>1. job' = [job EXCEPT !.docs = @ \ {d}] /\ job.pc = "documents" /\ faults' = faults
          BY <1>6, <2>1 DEF BeginDocument
    <3> QED BY <1>0, <3>1 DEF JobRecord
  <2>2. CASE ~(Active = {} \/ todo = {})
    <3>1. /\ job' = [job EXCEPT !.pc = "chunks", !.docs = @ \ {d}, !.schema = LoadedSchema, !.todo = todo]
          /\ job.pc = "documents" /\ faults' = faults
          BY <1>6, <2>2 DEF BeginDocument
    <3> HIDE DEF todo
    <3> QED BY <1>0, <3>1 DEF JobRecord
  <2> QED BY <2>1, <2>2
<1>7. ASSUME NEW c \in Chunks, BeginChunk(c)
      PROVE  /\ job'.pc = "write" /\ job.pc # "write" /\ faults' = faults /\ job'.tx = graph
             /\ job'.chunk = {c} /\ job'.schema \in Versions
             /\ job'.entities = Output[job'.schema][c].entities
  <2> DEFINE found == Output[job.schema][c]
  <2>1. /\ job' = [job EXCEPT !.pc = "write", !.todo = @ \ {c}, !.chunk = {c}, !.tx = graph,
                              !.entities = found.entities, !.triples = found.triples, !.mirrors = TRUE]
        /\ job.pc = "chunks" /\ faults' = faults
        BY <1>7 DEF BeginChunk
  <2> HIDE DEF found
  <2>2. /\ job'.pc = "write" /\ job'.tx = graph /\ job'.chunk = {c} /\ job'.schema = job.schema
        /\ job'.entities = found.entities
        BY <1>0, <2>1 DEF JobRecord
  <2> QED BY <1>0, <2>1, <2>2 DEF found
<1> QED BY <1>1, <1>2, <1>3, <1>4, <1>5, <1>6, <1>7 DEF PlainStep

(* What the worker would commit now, or has committed.                     *)
View == IF job.pc = "write" THEN job.tx ELSE graph

(* A graph whose edges count the chunks linked to them.                    *)
Counted(g) == \A p \in Pairs : g.mentions[p] = Cardinality({l \in g.edgeLinks : l[2] = p})

(* Mentions are exact in the committed graph and in the open transaction.  *)
CountInv == Counted(graph) /\ Counted(View)

LEMMA CountInit == Init => CountInv
BY NoneCounted DEF Init, CountInv, Counted, View, Idle, NoGraph

LEMMA TouchEdgeCounts ==
    ASSUME NEW tx \in GraphRecord, NEW p \in Pairs, NEW c \in Chunks, job.schema \in Versions, Counted(tx)
    PROVE  Counted(TouchEdge(tx, p, c))
<1> DEFINE new == TouchEdge(tx, p, c)
           links == tx.edgeLinks \cup {<<c, p>>}
<1>1. /\ new.mentions = [tx.mentions EXCEPT ![p] = Cardinality({l \in links : l[2] = p})]
      /\ new.edgeLinks = links
      BY TouchEdgeFields
<1>0. tx.mentions \in [Pairs -> Counts]
      BY DEF GraphRecord
<1> HIDE DEF new
<1> SUFFICES ASSUME NEW q \in Pairs
             PROVE  new.mentions[q] = Cardinality({l \in new.edgeLinks : l[2] = q})
    BY DEF Counted, new
<1>2. CASE q = p
      BY <1>0, <1>1, <1>2
<1>3. CASE q # p
  <2>1. {l \in links : l[2] = q} = {l \in tx.edgeLinks : l[2] = q}
        BY <1>3
  <2> QED BY <1>0, <1>1, <1>3, <2>1 DEF Counted
<1> QED BY <1>2, <1>3

LEMMA TouchNodeCounts ==
    ASSUME NEW tx \in GraphRecord, NEW n \in Names, NEW c \in Chunks, Counted(tx)
    PROVE  Counted(TouchNode(tx, n, c))
BY TouchNodeAside DEF Counted

LEMMA CountNext == TypeInv /\ CountInv /\ [Next]_vars => CountInv'
<1> SUFFICES ASSUME TypeInv, CountInv, [Next]_vars PROVE CountInv'
    OBVIOUS
<1>0. job \in JobRecord /\ Idle.pc = "idle" /\ inserted \in [Names -> Nat]
      BY IdleTyped DEF TypeInv, JobTyped, RowsTyped
<1>1. CASE UNCHANGED vars
      BY <1>1 DEF vars, CountInv, Counted, View
<1>2. ASSUME NEW a \in Admins, Activation(a) \/ ActivationDies(a) PROVE CountInv'
      BY <1>2, ActivationTyped DEF CountInv, Counted, View
<1>3. CASE PlainStep
  <2>1. graph' = graph /\ (View' = graph \/ View' = View)
        BY <1>3, PlainFrame DEF View
  <2> QED BY <2>1 DEF CountInv, Counted
<1>4. CASE WriteNode
  <2>1. PICK c \in Chunks, n \in Names :
             /\ job.pc = "write" /\ job.schema \in Versions
             /\ job'.pc = "write" /\ job'.tx = TouchNode(job.tx, n, c) /\ graph' = graph
        BY <1>4, WriteNodeStep
  <2>2. Counted(job.tx) /\ job.tx \in GraphRecord
        BY <1>0, <2>1 DEF CountInv, View, JobRecord
  <2>3. Counted(TouchNode(job.tx, n, c))
        BY <1>0, <2>1, <2>2, TouchNodeCounts
  <2>4. Counted(View')
        BY <2>1, <2>3 DEF View
  <2> QED BY <2>1, <2>4 DEF CountInv, Counted
<1>5. CASE WriteEdge
  <2>1. PICK c \in Chunks, p \in Pairs :
             /\ job.pc = "write" /\ job.schema \in Versions
             /\ job'.pc = "write" /\ job'.tx = TouchEdge(job.tx, p, c) /\ graph' = graph
        BY <1>5, WriteEdgeStep
  <2>2. Counted(job.tx) /\ job.tx \in GraphRecord
        BY <1>0, <2>1 DEF CountInv, View, JobRecord
  <2>3. Counted(TouchEdge(job.tx, p, c))
        BY <2>1, <2>2, TouchEdgeCounts
  <2>4. Counted(View')
        BY <2>1, <2>3 DEF View
  <2> QED BY <2>1, <2>4 DEF CountInv, Counted
<1>6. CASE CommitChunk
  <2>1. job.pc = "write" /\ job'.pc = "chunks" /\ graph' = job.tx
        BY <1>6, CommitStep
  <2> QED BY <2>1 DEF CountInv, Counted, View
<1>7. CASE ReplayNodes \/ ReplayEdges \/ BackfillFails
  <2>1. job'.pc # "write" /\ graph' = graph
        BY <1>0, <1>7 DEF ReplayNodes, ReplayEdges, BackfillFails, JobRecord
  <2> QED BY <2>1 DEF CountInv, Counted, View
<1> QED BY <1>1, <1>2, <1>3, <1>4, <1>5, <1>6, <1>7, StepKinds

(* Links end at rows that exist, and the bound on faults is kept.          *)
Linked(g) ==
    /\ \A l \in g.nodeLinks : g.stamp[l[2]] # 0
    /\ \A l \in g.edgeLinks : g.edgeStamp[l[2]] # 0

LinkInv == Linked(graph) /\ Linked(View) /\ faults <= MaxFaults

LEMMA LinkInit == Init => LinkInv
BY OutputOK DEF Init, LinkInv, Linked, View, Idle, NoGraph

LEMMA TouchNodeLinks ==
    ASSUME NEW tx \in GraphRecord, NEW n \in Names, NEW c \in Chunks, job.schema \in Versions,
           Linked(tx)
    PROVE  Linked(TouchNode(tx, n, c))
<1> DEFINE new == TouchNode(tx, n, c)
<1>1. /\ new.stamp = [tx.stamp EXCEPT ![n] = job.schema] /\ new.nodeLinks = tx.nodeLinks \cup {<<c, n>>}
      /\ new.edgeStamp = tx.edgeStamp /\ new.edgeLinks = tx.edgeLinks
      BY TouchNodeAside
<1>2. tx.stamp \in [Names -> 0 .. MaxVersion] /\ tx.nodeLinks \subseteq Chunks \X Names /\ job.schema # 0
      BY DEF GraphRecord, Versions
<1> HIDE DEF new
<1>3. \A l \in new.nodeLinks : new.stamp[l[2]] # 0
      BY <1>1, <1>2 DEF Linked
<1> QED BY <1>1, <1>3 DEF Linked, new

LEMMA TouchEdgeLinks ==
    ASSUME NEW tx \in GraphRecord, NEW p \in Pairs, NEW c \in Chunks, job.schema \in Versions, Linked(tx)
    PROVE  Linked(TouchEdge(tx, p, c))
<1> DEFINE new == TouchEdge(tx, p, c)
<1>1. /\ new.edgeStamp = [tx.edgeStamp EXCEPT ![p] = job.schema] /\ new.edgeLinks = tx.edgeLinks \cup {<<c, p>>}
      /\ new.stamp = tx.stamp /\ new.nodeLinks = tx.nodeLinks
      BY TouchEdgeFields
<1>2. tx.edgeStamp \in [Pairs -> 0 .. MaxVersion] /\ tx.edgeLinks \subseteq Chunks \X Pairs /\ job.schema # 0
      BY DEF GraphRecord, Versions
<1> HIDE DEF new
<1>3. \A l \in new.edgeLinks : new.edgeStamp[l[2]] # 0
      BY <1>1, <1>2 DEF Linked
<1> QED BY <1>1, <1>3 DEF Linked, new

LEMMA FaultsBounded ==
    ASSUME Next, TypeInv, faults <= MaxFaults
    PROVE  faults' <= MaxFaults
<1>1. faults \in Nat /\ MaxFaults \in Nat
      BY OutputOK DEF TypeInv, RowsTyped
<1>2. UNCHANGED faults \/ Fault
      BY DEF Next, Worker, Activation, ReadActive, ActivateNext, ActivationConflict, EnqueueReextraction,
         ActivationDies, Beat, StartBackfill, RetireChunks, ChunkFails, BackfillFails, WorkerCrash,
         Take, ResetExtraction, ListDocuments, EndSweep, EndDocument, BeginDocument, BeginChunk,
         WriteNode, WriteEdge, Mirror, CommitChunk, ReplayNodes, ReplayEdges
<1> QED BY <1>1, <1>2 DEF Fault

LEMMA LinkNext == TypeInv /\ LinkInv /\ [Next]_vars => LinkInv'
<1> SUFFICES ASSUME TypeInv, LinkInv, [Next]_vars PROVE LinkInv'
    OBVIOUS
<1>0. job \in JobRecord /\ Idle.pc = "idle" /\ inserted \in [Names -> Nat]
      BY IdleTyped DEF TypeInv, JobTyped, RowsTyped
<1>1. CASE UNCHANGED vars
      BY <1>1 DEF vars, LinkInv, Linked, View
<1> SUFFICES ASSUME Next PROVE Linked(graph') /\ Linked(View')
  <2>1. ASSUME Next, Linked(graph'), Linked(View') PROVE LinkInv'
    <3>1. faults' <= MaxFaults
          BY <2>1, FaultsBounded DEF LinkInv
    <3> QED BY <2>1, <3>1 DEF LinkInv, Linked
  <2> QED BY <1>1, <2>1
<1>2. ASSUME NEW a \in Admins, Activation(a) \/ ActivationDies(a) PROVE Linked(graph') /\ Linked(View')
  <2>1. graph' = graph /\ View' = View
        BY <1>2, ActivationTyped DEF View
  <2> QED BY <2>1 DEF LinkInv
<1>3. CASE PlainStep
  <2>1. graph' = graph /\ (View' = graph \/ View' = View)
        BY <1>3, PlainFrame DEF View
  <2> QED BY <2>1 DEF LinkInv
<1>4. CASE WriteNode
  <2>1. PICK c \in Chunks, n \in Names :
             /\ job.pc = "write" /\ job.schema \in Versions
             /\ job'.pc = "write" /\ job'.tx = TouchNode(job.tx, n, c) /\ graph' = graph
        BY <1>4, WriteNodeStep
  <2>2. Linked(job.tx) /\ job.tx \in GraphRecord
        BY <1>0, <2>1 DEF LinkInv, View, JobRecord
  <2>3. Linked(TouchNode(job.tx, n, c))
        BY <1>0, <2>1, <2>2, TouchNodeLinks
  <2> QED BY <2>1, <2>3 DEF LinkInv, View
<1>5. CASE WriteEdge
  <2>1. PICK c \in Chunks, p \in Pairs :
             /\ job.pc = "write" /\ job.schema \in Versions
             /\ job'.pc = "write" /\ job'.tx = TouchEdge(job.tx, p, c) /\ graph' = graph
        BY <1>5, WriteEdgeStep
  <2>2. Linked(job.tx) /\ job.tx \in GraphRecord
        BY <1>0, <2>1 DEF LinkInv, View, JobRecord
  <2>3. Linked(TouchEdge(job.tx, p, c))
        BY <2>1, <2>2, TouchEdgeLinks
  <2> QED BY <2>1, <2>3 DEF LinkInv, View
<1>6. CASE CommitChunk
  <2>1. graph' = View /\ View' = View
        BY <1>6, CommitStep DEF View
  <2> QED BY <2>1 DEF LinkInv
<1>7. CASE ReplayNodes \/ ReplayEdges \/ BackfillFails
  <2>1. job'.pc # "write" /\ graph' = graph
        BY <1>0, <1>7 DEF ReplayNodes, ReplayEdges, BackfillFails, JobRecord
  <2> QED BY <2>1 DEF LinkInv, View
<1> QED BY <1>2, <1>3, <1>4, <1>5, <1>6, <1>7, StepKinds

(* The state keeps its type, links lead from chunks to rows that exist     *)
(* (the link tables of extraction/graph_store.py), and faults stay within  *)
(* their bound.                                                            *)
THEOREM TypeCorrect == Spec => []TypeOK
<1>1. Spec => []LinkInv
      BY LinkInit, LinkNext, TypeInvariant, PTL DEF Spec
<1>2. TypeInv /\ LinkInv => TypeOK
  <2> SUFFICES ASSUME TypeInv, LinkInv PROVE TypeOK
      OBVIOUS
  <2>1. graph.nodeLinks \subseteq Chunks \X Names /\ graph.edgeLinks \subseteq Chunks \X Pairs
        BY DEF TypeInv, StoresTyped, GraphRecord
  <2>2. /\ graph.nodeLinks \subseteq {l \in Chunks \X Names : graph.stamp[l[2]] # 0}
        /\ graph.edgeLinks \subseteq {l \in Chunks \X Pairs : graph.edgeStamp[l[2]] # 0}
        BY <2>1 DEF LinkInv, Linked
  <2>3. faults \in 0 .. MaxFaults /\ repaired \in 0 .. faults
        BY OutputOK DEF TypeInv, RowsTyped, LinkInv
  <2>4. job.pc \in {"idle", "batch", "reextract", "backfill", "documents", "chunks", "write", "edges"}
        BY DEF TypeInv, JobTyped, JobRecord
  <2> QED BY <2>2, <2>3, <2>4 DEF TypeInv, RowsTyped, TypeOK, Tasks
<1> QED BY <1>1, <1>2, TypeInvariant, PTL

(* However often a chunk is extracted again, its mention of an edge counts *)
(* once (_link_edge_to_chunk_and_recompute_mentions).                      *)
THEOREM MentionsExactCorrect == Spec => []MentionsExact
<1>1. Spec => []CountInv
      BY CountInit, CountNext, TypeInvariant, PTL DEF Spec
<1>2. CountInv => MentionsExact
      BY DEF CountInv, Counted, MentionsExact
<1> QED BY <1>1, <1>2, PTL

(* Neo4j holds graph g.                                                    *)
Holds(store, g) ==
    /\ store.id = g.id
    /\ \A n \in Names : store.chunks[n] = {c \in Chunks : <<c, n>> \in g.nodeLinks}
    /\ \A p \in Pairs : /\ store.rel[p] = {c \in Chunks : <<c, p>> \in g.edgeLinks}
                        /\ store.count[p] = g.mentions[p]

(* A row that exists has an id.                                            *)
Identified(g) == \A n \in Names : g.stamp[n] = 0 <=> g.id[n] = 0

(* Until the first fault, Neo4j holds what Postgres does, the open         *)
(* transaction included.                                                   *)
AgreeInv == Identified(graph) /\ Identified(View) /\ (faults = 0 => Holds(neo, View))

LEMMA AgreeInit == Init => AgreeInv
BY NoneCounted DEF Init, AgreeInv, Holds, Identified, View, Idle, NoGraph, NoNeo

LEMMA TouchNodeAgrees ==
    ASSUME NEW tx \in GraphRecord, NEW n \in Names, NEW c \in Chunks, job.schema \in Versions,
           inserted \in [Names -> Nat], neo \in NeoRecord, Identified(tx)
    PROVE  LET new == TouchNode(tx, n, c)
           IN  /\ Identified(new)
               /\ Holds(neo, tx) => Holds(UpsertNode(n, new.id[n], c), new)
<1> DEFINE new == TouchNode(tx, n, c)
           up  == UpsertNode(n, new.id[n], c)
           id  == IF tx.stamp[n] = 0 THEN inserted[n] + 1 ELSE tx.id[n]
<1>0. /\ tx.stamp \in [Names -> 0 .. MaxVersion] /\ tx.id \in [Names -> Nat]
      /\ neo.chunks \in [Names -> SUBSET Chunks] /\ neo.id \in [Names -> Nat]
      /\ tx.nodeLinks \subseteq Chunks \X Names
      BY DEF GraphRecord, NeoRecord
<1>1. /\ new.stamp = [tx.stamp EXCEPT ![n] = job.schema] /\ new.id = [tx.id EXCEPT ![n] = id]
      /\ new.nodeLinks = tx.nodeLinks \cup {<<c, n>>}
      /\ new.mentions = tx.mentions /\ new.edgeLinks = tx.edgeLinks
      BY TouchNodeFields
<1>2. id \in Nat /\ id # 0 /\ job.schema # 0
      BY <1>0 DEF Identified, Versions
<1> HIDE DEF id, new
<1>3. new.id[n] = id /\ new.stamp[n] = job.schema
      BY <1>0, <1>1
<1>4. Identified(new)
  <2> SUFFICES ASSUME NEW m \in Names PROVE new.stamp[m] = 0 <=> new.id[m] = 0
      BY DEF Identified
  <2>1. CASE m = n
        BY <1>2, <1>3, <2>1
  <2>2. CASE m # n
        BY <1>0, <1>1, <2>2 DEF Identified
  <2> QED BY <2>1, <2>2
<1>5. ASSUME Holds(neo, tx) PROVE Holds(up, new)
  <2>1. /\ up.id = [neo.id EXCEPT ![n] = IF neo.id[n] = 0 THEN id ELSE neo.id[n]]
        /\ up.chunks = [neo.chunks EXCEPT ![n] = neo.chunks[n] \cup {c}]
        /\ up.rel = neo.rel /\ up.count = neo.count
        BY <1>2, <1>3, UpsertNodeFields
  <2> HIDE DEF up
  <2>2. neo.id = tx.id
        BY <1>5 DEF Holds
  <2>3. up.id = new.id
    <3>1. (IF neo.id[n] = 0 THEN id ELSE neo.id[n]) = id
      <4>1. CASE tx.stamp[n] = 0
            BY <2>2, <4>1 DEF Identified
      <4>2. CASE tx.stamp[n] # 0
            BY <2>2, <4>2 DEF Identified, id
      <4> QED BY <4>1, <4>2
    <3> QED BY <1>1, <2>1, <2>2, <3>1
  <2>4. ASSUME NEW m \in Names PROVE up.chunks[m] = {x \in Chunks : <<x, m>> \in new.nodeLinks}
    <3>1. neo.chunks[m] = {x \in Chunks : <<x, m>> \in tx.nodeLinks}
          BY <1>5 DEF Holds
    <3>2. CASE m = n
      <4>1. up.chunks[m] = neo.chunks[m] \cup {c}
            BY <1>0, <2>1, <3>2
      <4>2. \A x \in Chunks : <<x, m>> \in new.nodeLinks <=> x = c \/ <<x, m>> \in tx.nodeLinks
            BY <1>1, <3>2
      <4> QED BY <3>1, <4>1, <4>2
    <3>3. CASE m # n
      <4>1. up.chunks[m] = neo.chunks[m]
            BY <1>0, <2>1, <3>3
      <4>2. \A x \in Chunks : <<x, m>> \in new.nodeLinks <=> <<x, m>> \in tx.nodeLinks
            BY <1>1, <3>3
      <4> QED BY <3>1, <4>1, <4>2
    <3> QED BY <3>2, <3>3
  <2> QED BY <1>1, <1>5, <2>1, <2>3, <2>4 DEF Holds
<1> QED BY <1>4, <1>5 DEF new, up

LEMMA TouchEdgeAgrees ==
    ASSUME NEW tx \in GraphRecord, NEW p \in Pairs, NEW c \in Chunks, job.schema \in Versions,
           neo \in NeoRecord, Identified(tx)
    PROVE  LET new == TouchEdge(tx, p, c)
           IN  /\ Identified(new)
               /\ Holds(neo, tx) => Holds(UpsertEdge(p, new.id, new.mentions[p], c), new)
<1> DEFINE new == TouchEdge(tx, p, c)
           up  == UpsertEdge(p, new.id, new.mentions[p], c)
           links == tx.edgeLinks \cup {<<c, p>>}
           count == Cardinality({l \in links : l[2] = p})
<1>0. /\ tx.mentions \in [Pairs -> Counts] /\ tx.edgeLinks \subseteq Chunks \X Pairs
      /\ neo.rel \in [Pairs -> SUBSET Chunks] /\ neo.count \in [Pairs -> Counts]
      BY DEF GraphRecord, NeoRecord
<1>1. /\ new \in GraphRecord /\ new.mentions = [tx.mentions EXCEPT ![p] = count] /\ new.edgeLinks = links
      /\ new.id = tx.id /\ new.stamp = tx.stamp /\ new.nodeLinks = tx.nodeLinks
  <2> HIDE DEF up
  <2>1. new \in GraphRecord
        BY TouchEdgeFields
  <2>2. new.mentions = [tx.mentions EXCEPT ![p] = count]
        BY TouchEdgeFields
  <2>3. new.edgeLinks = links /\ new.id = tx.id /\ new.stamp = tx.stamp /\ new.nodeLinks = tx.nodeLinks
        BY TouchEdgeFields
  <2> QED BY <2>1, <2>2, <2>3
<1> HIDE DEF new, count
<1>2. new.mentions[p] = count /\ count \in Counts
      BY <1>0, <1>1 DEF GraphRecord
<1>3. Identified(new)
      BY <1>1 DEF Identified
<1>4. ASSUME Holds(neo, tx) PROVE Holds(up, new)
  <2>1. neo.id = new.id
        BY <1>1, <1>4 DEF Holds
  <2>2. /\ up.id = neo.id /\ up.chunks = neo.chunks
        /\ up.rel = [neo.rel EXCEPT ![p] = neo.rel[p] \cup {c}]
        /\ up.count = [neo.count EXCEPT ![p] = count]
        BY <1>2, <2>1, UpsertEdgeFields
  <2> HIDE DEF up
  <2>3. ASSUME NEW q \in Pairs
        PROVE  /\ up.rel[q] = {x \in Chunks : <<x, q>> \in new.edgeLinks}
               /\ up.count[q] = new.mentions[q]
    <3>1. neo.rel[q] = {x \in Chunks : <<x, q>> \in tx.edgeLinks} /\ neo.count[q] = tx.mentions[q]
          BY <1>4 DEF Holds
    <3>2. CASE q = p
      <4>1. up.rel[q] = neo.rel[q] \cup {c} /\ up.count[q] = count /\ new.mentions[q] = count
            BY <1>0, <1>1, <2>2, <3>2
      <4>2. \A x \in Chunks : <<x, q>> \in new.edgeLinks <=> x = c \/ <<x, q>> \in tx.edgeLinks
            BY <1>1, <3>2
      <4> QED BY <3>1, <4>1, <4>2
    <3>3. CASE q # p
      <4>1. up.rel[q] = neo.rel[q] /\ up.count[q] = neo.count[q] /\ new.mentions[q] = tx.mentions[q]
            BY <1>0, <1>1, <2>2, <3>3
      <4>2. \A x \in Chunks : <<x, q>> \in new.edgeLinks <=> <<x, q>> \in tx.edgeLinks
            BY <1>1, <3>3
      <4> QED BY <3>1, <4>1, <4>2
    <3> QED BY <3>2, <3>3
  <2> QED BY <1>1, <1>4, <2>1, <2>2, <2>3 DEF Holds
<1> QED BY <1>3, <1>4 DEF new, up

LEMMA ReplayAgrees ==
    ASSUME TypeInv, Holds(neo, graph), ReplayNodes \/ ReplayEdges
    PROVE  Holds(neo', graph)
<1>0. neo \in NeoRecord /\ graph \in GraphRecord
      BY DEF TypeInv, StoresTyped
<1>1. CASE ReplayNodes
  <2>1. neo' = ReplayedNodes(graph.nodeLinks)
        BY <1>1 DEF ReplayNodes
  <2>2. /\ neo'.id = [n \in Names |-> IF neo.id[n] = 0 /\ {c \in Chunks : <<c, n>> \in graph.nodeLinks} # {}
                                      THEN graph.id[n] ELSE neo.id[n]]
        /\ neo'.chunks = [n \in Names |-> neo.chunks[n] \cup {c \in Chunks : <<c, n>> \in graph.nodeLinks}]
        /\ neo'.rel = neo.rel /\ neo'.count = neo.count
        BY <1>0, <2>1, ReplayedNodesFields
  <2>3. neo'.id = graph.id
        BY <1>0, <2>2 DEF Holds, GraphRecord
  <2>4. \A n \in Names : neo'.chunks[n] = {c \in Chunks : <<c, n>> \in graph.nodeLinks}
        BY <2>2 DEF Holds
  <2> QED BY <2>2, <2>3, <2>4 DEF Holds
<1>2. CASE ReplayEdges
  <2> DEFINE linked(p) == {c \in Chunks : <<c, p>> \in graph.edgeLinks}
             hit(p) == linked(p) # {} /\ \A n \in {p[1], p[2]} : neo.id[n] = graph.id[n]
  <2>1. neo' = ReplayedEdges(graph.edgeLinks)
        BY <1>2 DEF ReplayEdges
  <2>2. /\ neo'.id = neo.id /\ neo'.chunks = neo.chunks
        /\ neo'.rel = [p \in Pairs |-> IF hit(p) THEN neo.rel[p] \cup linked(p) ELSE neo.rel[p]]
        /\ neo'.count = [p \in Pairs |-> IF hit(p) THEN graph.mentions[p] ELSE neo.count[p]]
        BY <1>0, <2>1, ReplayedEdgesFields
  <2>3. \A p \in Pairs : neo.rel[p] = linked(p) /\ neo.count[p] = graph.mentions[p]
        BY DEF Holds
  <2> HIDE DEF linked, hit
  <2>4. \A p \in Pairs : neo'.rel[p] = linked(p) /\ neo'.count[p] = graph.mentions[p]
        BY <2>2, <2>3
  <2> QED BY <2>2, <2>4 DEF Holds, linked
<1> QED BY <1>1, <1>2

LEMMA AgreeNext == TypeInv /\ AgreeInv /\ [Next]_vars => AgreeInv'
<1> SUFFICES ASSUME TypeInv, AgreeInv, [Next]_vars PROVE AgreeInv'
    OBVIOUS
<1>0. /\ job \in JobRecord /\ Idle.pc = "idle" /\ inserted \in [Names -> Nat] /\ faults \in Nat
      /\ neo \in NeoRecord
      BY IdleTyped DEF TypeInv, JobTyped, RowsTyped, StoresTyped
<1>1. CASE UNCHANGED vars
  <2>1. UNCHANGED <<graph, neo, faults>> /\ View' = View
        BY <1>1 DEF vars, View
  <2> QED BY <2>1 DEF AgreeInv, Holds, Identified
<1>2. ASSUME NEW a \in Admins, Activation(a) \/ ActivationDies(a) PROVE AgreeInv'
  <2>1. UNCHANGED <<graph, neo>> /\ View' = View
        BY <1>2, ActivationTyped DEF View
  <2>2. faults' = faults \/ faults' = faults + 1
        BY <1>2 DEF Activation, ReadActive, ActivateNext, ActivationConflict, EnqueueReextraction,
           ActivationDies, Fault
  <2> QED BY <1>0, <2>1, <2>2 DEF AgreeInv, Holds, Identified
<1>3. CASE PlainStep
  <2>1. UNCHANGED <<graph, neo>> /\ View' \in {View, graph}
        BY <1>3, PlainFrame DEF View
  <2>2. \/ View' = View /\ faults' = faults
        \/ faults' = faults + 1
        BY <1>3, PlainFrame DEF View
  <2> QED BY <1>0, <2>1, <2>2 DEF AgreeInv, Holds, Identified
<1>4. CASE WriteNode
  <2>1. PICK c \in Chunks, n \in Names :
             LET tx == TouchNode(job.tx, n, c)
             IN  /\ job.pc = "write" /\ job.schema \in Versions
                 /\ job'.pc = "write" /\ job'.tx = tx /\ graph' = graph
                 /\ \/ neo' = UpsertNode(n, tx.id[n], c) /\ faults' = faults
                    \/ faults' = faults + 1
        BY <1>4, WriteNodeStep
  <2>2. View = job.tx /\ View' = TouchNode(job.tx, n, c) /\ job.tx \in GraphRecord /\ Identified(job.tx)
        BY <1>0, <2>1 DEF View, JobRecord, AgreeInv
  <2>3. /\ Identified(TouchNode(job.tx, n, c))
        /\ Holds(neo, job.tx) => Holds(UpsertNode(n, TouchNode(job.tx, n, c).id[n], c), TouchNode(job.tx, n, c))
        BY <1>0, <2>1, <2>2, TouchNodeAgrees
  <2>4. faults' = 0 => Holds(neo', View')
        BY <1>0, <2>1, <2>2, <2>3 DEF AgreeInv
  <2>5. Identified(View')
        BY <2>2, <2>3
  <2> QED BY <2>1, <2>4, <2>5 DEF AgreeInv, Holds, Identified
<1>5. CASE WriteEdge
  <2>1. PICK c \in Chunks, p \in Pairs :
             LET tx == TouchEdge(job.tx, p, c)
             IN  /\ job.pc = "write" /\ job.schema \in Versions
                 /\ job'.pc = "write" /\ job'.tx = tx /\ graph' = graph
                 /\ \/ neo' = UpsertEdge(p, tx.id, tx.mentions[p], c) /\ faults' = faults
                    \/ faults' = faults + 1
        BY <1>5, WriteEdgeStep
  <2> DEFINE tx == TouchEdge(job.tx, p, c)
  <2>2. View = job.tx /\ View' = tx /\ job.tx \in GraphRecord /\ Identified(job.tx)
        BY <1>0, <2>1 DEF View, JobRecord, AgreeInv
  <2>3. /\ Identified(tx)
        /\ Holds(neo, job.tx) => Holds(UpsertEdge(p, tx.id, tx.mentions[p], c), tx)
        BY <1>0, <2>1, <2>2, TouchEdgeAgrees
  <2>4. faults' = 0 => Holds(neo', View')
        BY <1>0, <2>1, <2>2, <2>3 DEF AgreeInv
  <2>5. Identified(View')
        BY <2>2, <2>3
  <2> QED BY <2>1, <2>4, <2>5 DEF AgreeInv, Holds, Identified
<1>6. CASE CommitChunk
  <2>1. graph' = View /\ View' = View /\ UNCHANGED <<neo, faults>>
        BY <1>6, CommitStep DEF View
  <2> QED BY <2>1 DEF AgreeInv, Holds, Identified
<1>7. CASE ReplayNodes \/ ReplayEdges
  <2>1. graph' = graph /\ View = graph /\ View' = graph /\ faults' = faults
        BY <1>0, <1>7 DEF ReplayNodes, ReplayEdges, JobRecord, View
  <2>2. Holds(neo, graph) => Holds(neo', graph)
        BY <1>7, ReplayAgrees
  <2> QED BY <2>1, <2>2 DEF AgreeInv, Holds, Identified
<1>8. CASE BackfillFails
  <2>1. graph' = graph /\ View' = graph /\ faults' = faults + 1
        BY <1>0, <1>8 DEF BackfillFails, Fault, View
  <2> QED BY <1>0, <2>1 DEF AgreeInv, Identified
<1> QED BY <1>1, <1>2, <1>3, <1>4, <1>5, <1>6, <1>7, <1>8, StepKinds

(* Without faults the two stores hold the same graph whenever no chunk is  *)
(* being written (the dual write of extraction/service.py).                *)
THEOREM StoresAgreeCorrect == Spec => []StoresAgree
<1>1. Spec => []AgreeInv
      BY AgreeInit, AgreeNext, TypeInvariant, PTL DEF Spec
<1>2. AgreeInv => StoresAgree
      BY DEF AgreeInv, Holds, View, StoresAgree
<1> QED BY <1>1, <1>2, PTL

----------------------------------------------------------------------------
(* After faults.                                                           *)

(* Every entity that extracting chunk c with version v finds has c in      *)
(* Neo4j, or is still to be written.                                       *)
Found(store, v, c, todo) ==
    \A i \in DOMAIN Output[v][c].entities :
       LET n == Output[v][c].entities[i]
       IN  c \in store.chunks[n] \/ \E j \in DOMAIN todo : todo[j] = n

CatchUpInv ==
    /\ \A c \in Chunks : mirrored[c] # 0 => Found(neo, mirrored[c], c, <<>>)
    /\ job.pc = "write" /\ job.mirrors =>
          \A c \in job.chunk : Found(neo, job.schema, c, job.entities)

LEMMA CatchUpInit == Init => CatchUpInv
BY DEF Init, CatchUpInv, Idle

LEMMA UpsertNodeChunks ==
    ASSUME neo \in NeoRecord, NEW n \in Names, NEW id \in Nat, NEW c \in Chunks
    PROVE  UpsertNode(n, id, c).chunks = [neo.chunks EXCEPT ![n] = neo.chunks[n] \cup {c}]
<1> DEFINE kept == IF neo.id[n] = 0 THEN id ELSE neo.id[n]
<1>1. UpsertNode(n, id, c) = [neo EXCEPT !.id[n] = kept, !.chunks[n] = neo.chunks[n] \cup {c}]
      BY DEF UpsertNode, NeoRecord
<1> HIDE DEF kept
<1> QED BY <1>1 DEF NeoRecord

LEMMA UpsertEdgeChunks ==
    ASSUME neo \in NeoRecord, NEW p \in Pairs, NEW ids, NEW count, NEW c \in Chunks
    PROVE  UpsertEdge(p, ids, count, c).chunks = neo.chunks
<1>1. UpsertEdge(p, ids, count, c) \in
         {neo, [neo EXCEPT !.rel[p] = neo.rel[p] \cup {c}, !.count[p] = count]}
      BY DEF UpsertEdge, NeoRecord
<1> QED BY <1>1 DEF NeoRecord

(* The chunks of an entity in Neo4j only grow.                             *)
LEMMA ChunksGrow ==
    ASSUME TypeInv, Next
    PROVE  \A n \in Names : neo.chunks[n] \subseteq neo'.chunks[n]
<1>0. /\ neo \in NeoRecord /\ graph \in GraphRecord
      /\ neo.chunks \in [Names -> SUBSET Chunks]
      BY DEF TypeInv, StoresTyped, NeoRecord
<1>1. ASSUME NEW a \in Admins, Activation(a) \/ ActivationDies(a) PROVE neo' = neo
      BY <1>1, ActivationTyped
<1>2. CASE PlainStep \/ CommitChunk
      BY <1>2, PlainFrame, CommitStep
<1>3. CASE WriteNode
  <2>1. PICK c \in Chunks, n \in Names :
             LET tx == TouchNode(job.tx, n, c)
             IN  tx.id[n] \in Nat /\ (neo' = neo \/ neo' = UpsertNode(n, tx.id[n], c))
        BY <1>3, WriteNodeStep
  <2>2. ASSUME NEW id \in Nat
        PROVE  UpsertNode(n, id, c).chunks = [neo.chunks EXCEPT ![n] = neo.chunks[n] \cup {c}]
        BY <1>0, UpsertNodeChunks
  <2>3. neo' = neo \/ neo'.chunks = [neo.chunks EXCEPT ![n] = neo.chunks[n] \cup {c}]
        BY <2>1, <2>2
  <2> QED BY <1>0, <2>3
<1>4. CASE WriteEdge
  <2>1. PICK c \in Chunks, p \in Pairs :
             LET tx == TouchEdge(job.tx, p, c)
             IN  /\ tx.mentions[p] \in Counts
                 /\ neo' = neo \/ neo' = UpsertEdge(p, tx.id, tx.mentions[p], c)
        BY <1>4, WriteEdgeStep
  <2>2. ASSUME NEW ids, NEW count \in Counts PROVE UpsertEdge(p, ids, count, c).chunks = neo.chunks
        BY <1>0, UpsertEdgeChunks
  <2> QED BY <2>1, <2>2
<1>5. CASE ReplayNodes \/ ReplayEdges \/ BackfillFails
  <2>1. ASSUME NEW links PROVE ReplayedEdges(links).chunks = neo.chunks
        BY <1>0, ReplayedEdgesFields
  <2>2. ASSUME NEW links, NEW n \in Names PROVE neo.chunks[n] \subseteq ReplayedNodes(links).chunks[n]
    <3>1. ReplayedNodes(links).chunks = [m \in Names |-> neo.chunks[m] \cup {c \in Chunks : <<c, m>> \in links}]
          BY <1>0, ReplayedNodesFields
    <3> QED BY <3>1
  <2>3. \E links : neo' = ReplayedNodes(links) \/ neo' = ReplayedEdges(links)
        BY <1>5 DEF ReplayNodes, ReplayEdges, BackfillFails
  <2> QED BY <2>1, <2>2, <2>3
<1> QED BY <1>1, <1>2, <1>3, <1>4, <1>5, StepKinds

LEMMA OutputTyped ==
    ASSUME NEW v \in Versions, NEW c \in Chunks
    PROVE  Output[v][c].entities \in Seq(Names)
<1>1. Output[v] \in [Chunks -> [entities : Seq(Names), triples : Seq(Pairs)]]
      BY OutputOK DEF Versions
<1> QED BY <1>1

(* What was found stays found.                                             *)
LEMMA FoundKept ==
    ASSUME TypeInv, Next, NEW v \in Versions, NEW c \in Chunks, NEW todo, Found(neo, v, c, todo)
    PROVE  Found(neo', v, c, todo)
<1>1. \A i \in DOMAIN Output[v][c].entities : Output[v][c].entities[i] \in Names
      BY OutputTyped
<1> QED BY <1>1, ChunksGrow DEF Found

LEMMA MirroredKept ==
    ASSUME TypeInv, Next, CatchUpInv, NEW c \in Chunks, mirrored'[c] = mirrored[c], mirrored'[c] # 0
    PROVE  Found(neo', mirrored'[c], c, <<>>)
<1>1. mirrored[c] \in Versions
      BY OutputOK DEF TypeInv, RowsTyped, Versions
<1>2. Found(neo, mirrored[c], c, <<>>)
      BY DEF CatchUpInv
<1>3. Found(neo', mirrored[c], c, <<>>)
      BY <1>1, <1>2, FoundKept
<1> QED BY <1>3

(* The head of the list is written, or its rest.                           *)
LEMMA HeadOrTail ==
    ASSUME NEW todo \in Seq(Names), todo # <<>>, NEW j \in DOMAIN todo, todo[j] # Head(todo)
    PROVE  \E k \in DOMAIN Tail(todo) : Tail(todo)[k] = todo[j]
<1>1. j # 1
      OBVIOUS
<1>2. j - 1 \in DOMAIN Tail(todo) /\ Tail(todo)[j - 1] = todo[j]
      BY <1>1
<1> QED BY <1>2

LEMMA CatchUpWriteNode ==
    ASSUME TypeInv, CatchUpInv, Next, WriteNode
    PROVE  job'.mirrors => \A c \in job'.chunk : Found(neo', job'.schema, c, job'.entities)
<1>0. neo \in NeoRecord /\ job \in JobRecord
      BY DEF TypeInv, StoresTyped, JobTyped
<1>1. PICK c \in Chunks, n \in Names :
         LET tx == TouchNode(job.tx, n, c)
         IN  /\ job.pc = "write" /\ job.chunk = {c} /\ n = Head(job.entities) /\ tx.id[n] \in Nat
             /\ job.schema \in Versions /\ job'.chunk = job.chunk /\ job'.schema = job.schema
             /\ job.entities # <<>> /\ job'.entities = Tail(job.entities)
             /\ \/ neo' = UpsertNode(n, tx.id[n], c) /\ job'.mirrors = job.mirrors
                \/ job'.mirrors = FALSE
      BY WriteNodeStep
<1> DEFINE v == job.schema
           todo == job.entities
           rest == Tail(todo)
<1>2. todo \in Seq(Names) /\ v \in Versions
      BY <1>0, <1>1 DEF JobRecord
<1> SUFFICES ASSUME job'.mirrors PROVE Found(neo', v, c, rest)
    BY <1>1
<1>3. Found(neo, v, c, todo)
      BY <1>1 DEF CatchUpInv
<1>4. c \in neo'.chunks[n]
  <2>1. ASSUME NEW id \in Nat PROVE c \in UpsertNode(n, id, c).chunks[n]
    <3>1. UpsertNode(n, id, c).chunks = [neo.chunks EXCEPT ![n] = neo.chunks[n] \cup {c}]
          BY <1>0, UpsertNodeChunks
    <3> QED BY <1>0, <3>1 DEF NeoRecord
  <2> QED BY <1>1, <2>1
<1>5. Found(neo', v, c, todo)
      BY <1>2, <1>3, FoundKept
<1> HIDE DEF v
<1>6. ASSUME NEW i \in DOMAIN Output[v][c].entities
      PROVE  LET m == Output[v][c].entities[i]
             IN  c \in neo'.chunks[m] \/ \E k \in DOMAIN rest : rest[k] = m
  <2> DEFINE m == Output[v][c].entities[i]
  <2>1. c \in neo'.chunks[m] \/ \E j \in DOMAIN todo : todo[j] = m
        BY <1>5 DEF Found
  <2> HIDE DEF m
  <2>2. CASE m = n
        BY <1>4, <2>2 DEF m
  <2>3. ASSUME m # n, NEW j \in DOMAIN todo, todo[j] = m
        PROVE  \E k \in DOMAIN rest : rest[k] = m
    <3>1. todo[j] # Head(todo) /\ todo # <<>>
          BY <1>1, <2>3
    <3>2. \E k \in DOMAIN Tail(todo) : Tail(todo)[k] = todo[j]
          BY <1>2, <3>1, HeadOrTail
    <3> QED BY <2>3, <3>2
  <2> QED BY <2>1, <2>2, <2>3 DEF m
<1> QED BY <1>6 DEF Found

LEMMA CatchUpNext == TypeInv /\ CatchUpInv /\ [Next]_vars => CatchUpInv'
<1> SUFFICES ASSUME TypeInv, CatchUpInv, [Next]_vars PROVE CatchUpInv'
    OBVIOUS
<1>1. CASE UNCHANGED vars
      BY <1>1 DEF vars, CatchUpInv, Found
<1> SUFFICES ASSUME Next PROVE CatchUpInv'
    BY <1>1
<1> DEFINE Writing == job'.pc = "write" /\ job'.mirrors =>
                        \A c \in job'.chunk : Found(neo', job'.schema, c, job'.entities)
<1>2. ASSUME mirrored' = mirrored, Writing PROVE CatchUpInv'
      BY <1>2, MirroredKept DEF CatchUpInv
<1>3. CASE UNCHANGED <<job, mirrored>>
  <2>1. job.pc = "write" => job.schema \in Versions /\ job.chunk \subseteq Chunks
        BY DEF TypeInv, JobTyped
  <2>2. Writing
        BY <1>3, <2>1, FoundKept DEF CatchUpInv
  <2> QED BY <1>2, <1>3, <2>2
<1>4. ASSUME NEW a \in Admins, Activation(a) \/ ActivationDies(a) PROVE CatchUpInv'
      BY <1>3, <1>4, ActivationTyped
<1>5. CASE PlainStep
  <2>1. mirrored' = mirrored
        BY <1>5, PlainFrame
  <2>2. CASE job'.pc # "write"
        BY <1>2, <2>1, <2>2
  <2>3. CASE UNCHANGED job
        BY <1>3, <2>1, <2>3
  <2>4. ASSUME NEW c \in Chunks, job'.chunk = {c}, job'.schema \in Versions,
               job'.entities = Output[job'.schema][c].entities
        PROVE  Writing
        BY <2>4 DEF Found
  <2> QED BY <1>2, <1>5, <2>1, <2>2, <2>3, <2>4, PlainFrame
<1>6. CASE WriteNode
  <2>1. mirrored' = mirrored
        BY <1>6, WriteNodeStep
  <2>2. Writing
        BY <1>6, CatchUpWriteNode
  <2> QED BY <1>2, <2>1, <2>2
<1>7. CASE WriteEdge
  <2>1. PICK c \in Chunks :
          /\ job.pc = "write" /\ job.chunk = {c} /\ job.schema \in Versions
          /\ job'.chunk = job.chunk /\ job'.schema = job.schema
          /\ job.entities = <<>> /\ job'.entities = <<>> /\ mirrored' = mirrored
          /\ job'.mirrors = job.mirrors \/ job'.mirrors = FALSE
        BY <1>7, WriteEdgeStep
  <2>2. job'.mirrors => Found(neo, job.schema, c, job.entities)
        BY <2>1 DEF CatchUpInv
  <2>3. job'.mirrors => Found(neo', job.schema, c, job.entities)
        BY <2>1, <2>2, FoundKept
  <2> QED BY <1>2, <2>1, <2>3
<1>8. CASE CommitChunk
  <2>1. PICK c \in Chunks :
          /\ job.pc = "write" /\ job.chunk = {c} /\ job.schema \in Versions /\ job.entities = <<>>
          /\ mirrored' = [mirrored EXCEPT ![c] = IF job.mirrors THEN job.schema ELSE 0]
          /\ job'.pc = "chunks"
        BY <1>8, CommitStep
  <2> SUFFICES ASSUME NEW x \in Chunks, mirrored'[x] # 0 PROVE Found(neo', mirrored'[x], x, <<>>)
      BY <2>1 DEF CatchUpInv
  <2>2. mirrored \in [Chunks -> 0 .. MaxVersion]
        BY DEF TypeInv, RowsTyped
  <2>3. CASE x = c
    <3>1. job.mirrors /\ mirrored'[x] = job.schema
          BY <2>1, <2>2, <2>3
    <3>2. Found(neo, job.schema, x, <<>>)
          BY <2>1, <2>3, <3>1 DEF CatchUpInv
    <3>3. Found(neo', job.schema, x, <<>>)
          BY <2>1, <3>2, FoundKept
    <3> QED BY <3>1, <3>3
  <2>4. CASE x # c
    <3>1. mirrored'[x] = mirrored[x]
          BY <2>1, <2>2, <2>4
    <3> QED BY <3>1, MirroredKept
  <2> QED BY <2>3, <2>4
<1>9. CASE ReplayNodes \/ ReplayEdges \/ BackfillFails
  <2>1. job'.pc # "write" /\ mirrored' = mirrored
        BY <1>9, IdleTyped DEF ReplayNodes, ReplayEdges, BackfillFails, TypeInv, JobTyped, JobRecord, observers
  <2> QED BY <1>2, <2>1
<1> QED BY <1>4, <1>5, <1>6, <1>7, <1>8, <1>9, StepKinds

(* After crashes, rollbacks and failed upserts, a chunk extracted with no  *)
(* Neo4j error is found from all its entities (the upsert of               *)
(* graph_store.py is a MERGE that only adds to chunk_ids).                 *)
THEOREM NodesCatchUpCorrect == Spec => []NodesCatchUp
<1>1. Spec => []CatchUpInv
      BY CatchUpInit, CatchUpNext, TypeInvariant, PTL DEF Spec
<1>2. CatchUpInv => NodesCatchUp
      BY DEF CatchUpInv, Found, NodesCatchUp
<1> QED BY <1>1, <1>2, PTL
----------------------------------------------------------------------------
(* After a backfill.                                                       *)

(* A row's id has been issued, and a row that exists came with a link: a   *)
(* backfill gives it an id in Neo4j.                                       *)
Keyed(g, issued) ==
    \A n \in Names : /\ g.id[n] <= issued[n]
                     /\ g.id[n] # 0 => \E c \in Chunks : <<c, n>> \in g.nodeLinks

KeyInv ==
    /\ Keyed(graph, inserted) /\ Keyed(View, inserted)
    /\ \A n \in Names : neo.id[n] <= inserted[n]

(* Neo4j holds the entities of g with their chunks, under whatever id.     *)
NodesHeld(store, g) ==
    /\ \A l \in g.nodeLinks : l[1] \in store.chunks[l[2]]
    /\ \A n \in Names : store.id[n] = 0 => g.id[n] = 0

Matched(store, g, p) == \A n \in {p[1], p[2]} : store.id[n] = g.id[n]

(* It holds those relations of g whose two ends have one id in both.       *)
EdgesHeld(store, g) ==
    \A l \in g.edgeLinks :
       Matched(store, g, l[2]) => l[1] \in store.rel[l[2]] /\ store.count[l[2]] = g.mentions[l[2]]

(* From the end of a backfill to the next fault, Neo4j holds what Postgres *)
(* does, the open transaction included.                                    *)
RepairInv ==
    /\ job.pc = "edges" => NodesHeld(neo, graph)
    /\ repaired = faults => NodesHeld(neo, View) /\ EdgesHeld(neo, View)

LEMMA KeyInit == Init => KeyInv
BY DEF Init, KeyInv, Keyed, View, Idle, NoGraph, NoNeo

LEMMA RepairInit == Init => RepairInv
BY DEF Init, RepairInv, NodesHeld, EdgesHeld, View, Idle, NoGraph, NoNeo

LEMMA TouchNodeIds ==
    ASSUME NEW tx \in GraphRecord, NEW n \in Names, NEW c \in Chunks
    PROVE  TouchNode(tx, n, c).id =
              [tx.id EXCEPT ![n] = IF tx.stamp[n] = 0 THEN inserted[n] + 1 ELSE tx.id[n]]
<1> DEFINE id == IF tx.stamp[n] = 0 THEN inserted[n] + 1 ELSE tx.id[n]
<1>1. TouchNode(tx, n, c) =
        [tx EXCEPT !.stamp[n] = job.schema, !.id[n] = id, !.nodeLinks = tx.nodeLinks \cup {<<c, n>>}]
      BY DEF TouchNode
<1> HIDE DEF id
<1>2. TouchNode(tx, n, c).id = [tx.id EXCEPT ![n] = id]
      BY <1>1 DEF GraphRecord
<1> QED BY <1>2 DEF id

LEMMA TouchEdgeAside ==
    ASSUME NEW tx \in GraphRecord, NEW p \in Pairs, NEW c \in Chunks
    PROVE  /\ TouchEdge(tx, p, c).id = tx.id /\ TouchEdge(tx, p, c).nodeLinks = tx.nodeLinks
           /\ TouchEdge(tx, p, c).edgeLinks = tx.edgeLinks \cup {<<c, p>>}
           /\ \A q \in Pairs : q # p => TouchEdge(tx, p, c).mentions[q] = tx.mentions[q]
<1> DEFINE links == tx.edgeLinks \cup {<<c, p>>}
           count == Cardinality({l \in links : l[2] = p})
<1>1. TouchEdge(tx, p, c) =
        [tx EXCEPT !.edgeStamp[p] = job.schema, !.edgeLinks = links, !.mentions[p] = count]
      BY DEF TouchEdge
<1> HIDE DEF count, links
<1>2. /\ TouchEdge(tx, p, c).id = tx.id /\ TouchEdge(tx, p, c).nodeLinks = tx.nodeLinks
      /\ TouchEdge(tx, p, c).edgeLinks = links
      /\ TouchEdge(tx, p, c).mentions = [tx.mentions EXCEPT ![p] = count]
      BY <1>1 DEF GraphRecord
<1>3. \A q \in Pairs : q # p => [tx.mentions EXCEPT ![p] = count][q] = tx.mentions[q]
      BY DEF GraphRecord
<1> QED BY <1>2, <1>3 DEF links

LEMMA UpsertNodeIds ==
    ASSUME neo \in NeoRecord, NEW n \in Names, NEW id \in Nat, NEW c \in Chunks
    PROVE  /\ UpsertNode(n, id, c).id = [neo.id EXCEPT ![n] = IF neo.id[n] = 0 THEN id ELSE neo.id[n]]
           /\ UpsertNode(n, id, c).rel = neo.rel /\ UpsertNode(n, id, c).count = neo.count
<1> DEFINE kept == IF neo.id[n] = 0 THEN id ELSE neo.id[n]
<1>1. UpsertNode(n, id, c) = [neo EXCEPT !.id[n] = kept, !.chunks[n] = neo.chunks[n] \cup {c}]
      BY DEF UpsertNode, NeoRecord
<1> HIDE DEF kept
<1>2. UpsertNode(n, id, c).id = [neo.id EXCEPT ![n] = kept]
      BY <1>1 DEF NeoRecord
<1>3. UpsertNode(n, id, c).rel = neo.rel /\ UpsertNode(n, id, c).count = neo.count
      BY <1>1 DEF NeoRecord
<1> QED BY <1>2, <1>3 DEF kept

LEMMA UpsertEdgeIds ==
    ASSUME neo \in NeoRecord, NEW p \in Pairs, NEW ids, NEW count, NEW c \in Chunks
    PROVE  UpsertEdge(p, ids, count, c).id = neo.id
<1>1. UpsertEdge(p, ids, count, c) \in
         {neo, [neo EXCEPT !.rel[p] = neo.rel[p] \cup {c}, !.count[p] = count]}
      BY DEF UpsertEdge, NeoRecord
<1> QED BY <1>1 DEF NeoRecord

LEMMA TouchNodeKeyed ==
    ASSUME NEW tx \in GraphRecord, NEW n \in Names, NEW c \in Chunks, job.schema \in Versions,
           inserted \in [Names -> Nat], Keyed(tx, inserted)
    PROVE  Keyed(TouchNode(tx, n, c), [inserted EXCEPT ![n] = IF tx.stamp[n] = 0 THEN @ + 1 ELSE @])
<1> DEFINE new == TouchNode(tx, n, c)
           issued == [inserted EXCEPT ![n] = IF tx.stamp[n] = 0 THEN @ + 1 ELSE @]
           id  == IF tx.stamp[n] = 0 THEN inserted[n] + 1 ELSE tx.id[n]
<1>0. tx.stamp \in [Names -> 0 .. MaxVersion] /\ tx.id \in [Names -> Nat]
      BY DEF GraphRecord
<1>1. new.id = [tx.id EXCEPT ![n] = id]
      BY TouchNodeIds, Zenon
<1>b. new.nodeLinks = tx.nodeLinks \cup {<<c, n>>}
      BY TouchNodeAside, Zenon
<1> HIDE DEF new
<1> SUFFICES ASSUME NEW m \in Names
             PROVE  /\ new.id[m] <= issued[m]
                    /\ new.id[m] # 0 => \E x \in Chunks : <<x, m>> \in new.nodeLinks
    BY DEF Keyed, new
<1>2. tx.id[m] <= inserted[m] /\ (tx.id[m] # 0 => \E x \in Chunks : <<x, m>> \in tx.nodeLinks)
      BY DEF Keyed
<1>3. CASE m = n
  <2>1. <<c, m>> \in new.nodeLinks
        BY <1>b, <1>3
  <2>2. new.id[m] = id
        BY <1>0, <1>1, <1>3
  <2>3. id <= issued[m]
        BY <1>0, <1>2, <1>3
  <2> QED BY <2>1, <2>2, <2>3
<1>4. CASE m # n
  <2>1. new.id[m] = tx.id[m] /\ issued[m] = inserted[m]
        BY <1>0, <1>1, <1>4
  <2> QED BY <1>b, <1>2, <2>1
<1> QED BY <1>3, <1>4

(* A replay takes ids from Postgres only.                                  *)
LEMMA ReplayIds ==
    ASSUME TypeInv, ReplayNodes \/ ReplayEdges \/ BackfillFails
    PROVE  \A n \in Names : neo'.id[n] \in {neo.id[n], graph.id[n]}
<1>0. neo \in NeoRecord /\ graph \in GraphRecord
      BY DEF TypeInv, StoresTyped
<1>1. ASSUME NEW links, NEW n \in Names PROVE ReplayedNodes(links).id[n] \in {neo.id[n], graph.id[n]}
  <2>1. ReplayedNodes(links).id =
          [m \in Names |-> IF neo.id[m] = 0 /\ {c \in Chunks : <<c, m>> \in links} # {}
                           THEN graph.id[m] ELSE neo.id[m]]
        BY <1>0, ReplayedNodesFields
  <2> QED BY <2>1
<1>2. ASSUME NEW links PROVE ReplayedEdges(links).id = neo.id
      BY <1>0, ReplayedEdgesFields
<1>3. \E links : neo' = ReplayedNodes(links) \/ neo' = ReplayedEdges(links)
      BY DEF ReplayNodes, ReplayEdges, BackfillFails
<1> QED BY <1>1, <1>2, <1>3

(* What a replay does outside Neo4j.                                       *)
LEMMA ReplayFrame ==
    ASSUME TypeInv, ReplayNodes \/ ReplayEdges \/ BackfillFails
    PROVE  /\ UNCHANGED <<graph, inserted>> /\ View = graph /\ View' = graph
           /\ job.pc # "write" /\ job'.pc # "write"
<1>0. job \in JobRecord /\ Idle.pc = "idle"
      BY IdleTyped DEF TypeInv, JobTyped
<1>1. UNCHANGED <<graph, inserted>> /\ job.pc # "write" /\ job'.pc # "write"
      BY <1>0 DEF ReplayNodes, ReplayEdges, BackfillFails, JobRecord, observers
<1> QED BY <1>1 DEF View

LEMMA KeyNext == TypeInv /\ KeyInv /\ [Next]_vars => KeyInv'
<1> SUFFICES ASSUME TypeInv, KeyInv, [Next]_vars PROVE KeyInv'
    OBVIOUS
<1>0. /\ job \in JobRecord /\ inserted \in [Names -> Nat] /\ neo \in NeoRecord /\ graph \in GraphRecord
      /\ neo.id \in [Names -> Nat]
      BY DEF TypeInv, JobTyped, RowsTyped, StoresTyped, NeoRecord
<1>a. ASSUME UNCHANGED <<graph, neo, inserted>>, View' \in {View, graph} PROVE KeyInv'
      BY <1>a DEF KeyInv, Keyed
<1>1. CASE UNCHANGED vars
  <2>1. UNCHANGED <<graph, neo, inserted>> /\ View' = View
        BY <1>1 DEF vars, View
  <2> QED BY <1>a, <2>1
<1>2. ASSUME NEW a \in Admins, Activation(a) \/ ActivationDies(a) PROVE KeyInv'
  <2>1. UNCHANGED <<graph, neo, inserted>> /\ View' = View
        BY <1>2, ActivationTyped DEF View
  <2> QED BY <1>a, <2>1
<1>3. CASE PlainStep
  <2>1. UNCHANGED <<graph, neo, inserted>> /\ View' \in {View, graph}
        BY <1>3, PlainFrame DEF View
  <2> QED BY <1>a, <2>1
<1>4. CASE WriteNode
  <2>1. PICK c \in Chunks, n \in Names :
             LET tx == TouchNode(job.tx, n, c)
             IN  /\ job.pc = "write" /\ job.schema \in Versions
                 /\ tx \in GraphRecord
                 /\ job'.pc = "write" /\ job'.tx = tx /\ graph' = graph
                 /\ neo' = UpsertNode(n, tx.id[n], c) \/ neo' = neo
                 /\ inserted' = [inserted EXCEPT ![n] = IF job.tx.stamp[n] = 0 THEN @ + 1 ELSE @]
        BY <1>4, WriteNodeStep
  <2> DEFINE tx == TouchNode(job.tx, n, c)
  <2>2. View = job.tx /\ View' = tx /\ job.tx \in GraphRecord
        BY <1>0, <2>1 DEF View, JobRecord
  <2>3. Keyed(tx, inserted')
        BY <1>0, <2>1, <2>2, TouchNodeKeyed DEF KeyInv
  <2>4. tx.id \in [Names -> Nat]
        BY <2>1 DEF GraphRecord
  <2>5. ASSUME neo' = UpsertNode(n, tx.id[n], c)
        PROVE  neo'.id = [neo.id EXCEPT ![n] = IF neo.id[n] = 0 THEN tx.id[n] ELSE neo.id[n]]
    <3>1. tx.id[n] \in Nat
          BY <2>4
    <3> HIDE DEF tx
    <3> QED BY <1>0, <2>5, <3>1, UpsertNodeIds
  <2> HIDE DEF tx
  <2>6. \A m \in Names : inserted[m] <= inserted'[m] /\ inserted[m] \in Nat /\ inserted'[m] \in Nat
        BY <1>0, <2>1
  <2>7. \A m \in Names : neo'.id[m] = neo.id[m] \/ neo'.id[m] = tx.id[m]
        BY <1>0, <2>1, <2>5 DEF tx
  <2>8. \A m \in Names : neo.id[m] <= inserted[m] /\ graph.id[m] <= inserted[m] /\ tx.id[m] <= inserted'[m]
        BY <2>3 DEF KeyInv, Keyed
  <2>9. graph.id \in [Names -> Nat]
        BY <1>0 DEF GraphRecord
  <2>10. ASSUME NEW m \in Names PROVE neo'.id[m] <= inserted'[m] /\ graph.id[m] <= inserted'[m]
    <3>1. /\ neo.id[m] \in Nat /\ graph.id[m] \in Nat
          /\ inserted[m] \in Nat /\ inserted'[m] \in Nat /\ inserted[m] <= inserted'[m]
          BY <1>0, <2>6, <2>9
    <3>2. neo.id[m] <= inserted[m] /\ graph.id[m] <= inserted[m] /\ tx.id[m] <= inserted'[m]
          BY <2>8
    <3>3. neo'.id[m] = neo.id[m] \/ neo'.id[m] = tx.id[m]
          BY <2>7
    <3> QED BY <3>1, <3>2, <3>3
  <2>11. Keyed(graph', inserted')
         BY <2>1, <2>10 DEF KeyInv, Keyed
  <2> QED BY <2>2, <2>3, <2>10, <2>11 DEF KeyInv
<1>5. CASE WriteEdge
  <2>1. PICK c \in Chunks, p \in Pairs :
             LET tx == TouchEdge(job.tx, p, c)
             IN  /\ job.pc = "write" /\ job.schema \in Versions /\ tx.mentions[p] \in Counts
                 /\ job'.pc = "write" /\ job'.tx = tx /\ graph' = graph /\ inserted' = inserted
                 /\ neo' = UpsertEdge(p, tx.id, tx.mentions[p], c) \/ neo' = neo
        BY <1>5, WriteEdgeStep
  <2>2. View = job.tx /\ View' = TouchEdge(job.tx, p, c) /\ job.tx \in GraphRecord
        BY <1>0, <2>1 DEF View, JobRecord
  <2>3. View'.id = View.id /\ View'.nodeLinks = View.nodeLinks
        BY <2>2, TouchEdgeAside
  <2>4. ASSUME NEW ids, NEW count PROVE UpsertEdge(p, ids, count, c).id = neo.id
        BY <1>0, UpsertEdgeIds
  <2>5. neo'.id = neo.id
        BY <2>1, <2>4
  <2> QED BY <2>1, <2>3, <2>5 DEF KeyInv, Keyed
<1>6. CASE CommitChunk
  <2>1. graph' = View /\ View' = View /\ UNCHANGED <<neo, inserted>>
        BY <1>6, CommitStep DEF View
  <2>2. Keyed(View, inserted) /\ \A n \in Names : neo.id[n] <= inserted[n]
        BY DEF KeyInv
  <2> QED BY <2>1, <2>2 DEF KeyInv
<1>7. CASE ReplayNodes \/ ReplayEdges \/ BackfillFails
  <2>1. UNCHANGED <<graph, inserted>> /\ View = graph /\ View' = graph
        BY <1>7, ReplayFrame
  <2>2. \A n \in Names : neo'.id[n] \in {neo.id[n], graph.id[n]}
        BY <1>7, ReplayIds
  <2> QED BY <2>1, <2>2 DEF KeyInv, Keyed
<1> QED BY <1>1, <1>2, <1>3, <1>4, <1>5, <1>6, <1>7, StepKinds

LEMMA KeyInvariant == Spec => []KeyInv
<1> QED BY KeyInit, KeyNext, TypeInvariant, PTL DEF Spec

LEMMA EndsAreNames ==
    ASSUME NEW p \in Pairs, NEW m \in {p[1], p[2]}
    PROVE  m \in Names
BY OutputOK

(* A new row's id is above every id in Neo4j: writing an entity makes no   *)
(* end match that did not match before.                                    *)
LEMMA TouchNodeHeld ==
    ASSUME NEW tx \in GraphRecord, NEW n \in Names, NEW c \in Chunks, job.schema \in Versions,
           inserted \in [Names -> Nat], neo \in NeoRecord, Identified(tx),
           neo.id[n] <= inserted[n], NodesHeld(neo, tx), EdgesHeld(neo, tx)
    PROVE  LET new == TouchNode(tx, n, c)
               up  == UpsertNode(n, new.id[n], c)
           IN  NodesHeld(up, new) /\ EdgesHeld(up, new)
<1> DEFINE new == TouchNode(tx, n, c)
           up  == UpsertNode(n, new.id[n], c)
           id  == IF tx.stamp[n] = 0 THEN inserted[n] + 1 ELSE tx.id[n]
<1>0. /\ tx.id \in [Names -> Nat] /\ neo.id \in [Names -> Nat] /\ inserted[n] \in Nat
      /\ neo.chunks \in [Names -> SUBSET Chunks]
      /\ tx.nodeLinks \subseteq Chunks \X Names /\ tx.edgeLinks \subseteq Chunks \X Pairs
      BY DEF GraphRecord, NeoRecord
<1>1. new.id = [tx.id EXCEPT ![n] = id]
      BY TouchNodeIds, Zenon
<1>2. /\ new.nodeLinks = tx.nodeLinks \cup {<<c, n>>}
      /\ new.mentions = tx.mentions /\ new.edgeLinks = tx.edgeLinks
      BY TouchNodeAside, Zenon
<1>3. id \in Nat /\ id # 0
      BY <1>0 DEF Identified
<1> HIDE DEF id, new
<1>4. new.id[n] = id /\ new.id[n] \in Nat
      BY <1>0, <1>1, <1>3
<1>5. /\ up.id = [neo.id EXCEPT ![n] = IF neo.id[n] = 0 THEN id ELSE neo.id[n]]
      /\ up.rel = neo.rel /\ up.count = neo.count
      BY <1>4, UpsertNodeIds
<1>6. up.chunks = [neo.chunks EXCEPT ![n] = neo.chunks[n] \cup {c}]
      BY <1>4, UpsertNodeChunks
<1> HIDE DEF up
<1>7. \A l \in new.nodeLinks : l[1] \in up.chunks[l[2]]
  <2> SUFFICES ASSUME NEW l \in new.nodeLinks PROVE l[1] \in up.chunks[l[2]]
      OBVIOUS
  <2>1. CASE l \in tx.nodeLinks
    <3>1. l[1] \in neo.chunks[l[2]] /\ l[2] \in Names
          BY <1>0, <2>1 DEF NodesHeld
    <3> QED BY <1>0, <1>6, <3>1
  <2>2. CASE l = <<c, n>>
        BY <1>0, <1>6, <2>2
  <2> QED BY <1>2, <2>1, <2>2
<1>8. \A m \in Names : m # n => new.id[m] = tx.id[m] /\ up.id[m] = neo.id[m]
      BY <1>0, <1>1, <1>5
<1>9. up.id[n] = IF neo.id[n] = 0 THEN id ELSE neo.id[n]
      BY <1>0, <1>5
<1>10. \A m \in Names : up.id[m] = 0 => new.id[m] = 0
  <2> SUFFICES ASSUME NEW m \in Names, up.id[m] = 0 PROVE new.id[m] = 0
      OBVIOUS
  <2>1. m # n
        BY <1>3, <1>9
  <2> QED BY <1>8, <2>1 DEF NodesHeld
<1>11. ASSUME NEW m \in Names, up.id[m] = new.id[m] PROVE neo.id[m] = tx.id[m]
  <2>1. CASE m # n
        BY <1>8, <1>11, <2>1
  <2>2. CASE m = n /\ neo.id[n] = 0
        BY <2>2 DEF NodesHeld
  <2>3. CASE m = n /\ neo.id[n] # 0
    <3>1. neo.id[n] = id
          BY <1>4, <1>9, <1>11, <2>3
    <3>2. tx.stamp[n] # 0
          BY <1>0, <3>1 DEF id
    <3> QED BY <2>3, <3>1, <3>2 DEF id
  <2> QED BY <2>1, <2>2, <2>3
<1>12. EdgesHeld(up, new)
  <2> SUFFICES ASSUME NEW l \in tx.edgeLinks, Matched(up, new, l[2])
               PROVE  l[1] \in neo.rel[l[2]] /\ neo.count[l[2]] = tx.mentions[l[2]]
      BY <1>2, <1>5 DEF EdgesHeld
  <2>1. l[2] \in Pairs
        BY <1>0
  <2>2. Matched(neo, tx, l[2])
        BY <1>11, <2>1, EndsAreNames DEF Matched
  <2> QED BY <2>2 DEF EdgesHeld
<1> QED BY <1>7, <1>10, <1>12 DEF NodesHeld, new, up

LEMMA TouchEdgeHeld ==
    ASSUME NEW tx \in GraphRecord, NEW p \in Pairs, NEW c \in Chunks, job.schema \in Versions,
           neo \in NeoRecord, NodesHeld(neo, tx), EdgesHeld(neo, tx)
    PROVE  LET new == TouchEdge(tx, p, c)
               up  == UpsertEdge(p, new.id, new.mentions[p], c)
           IN  NodesHeld(up, new) /\ EdgesHeld(up, new)
<1> DEFINE new == TouchEdge(tx, p, c)
           up  == UpsertEdge(p, new.id, new.mentions[p], c)
<1>0. /\ tx.edgeLinks \subseteq Chunks \X Pairs
      /\ neo.rel \in [Pairs -> SUBSET Chunks] /\ neo.count \in [Pairs -> Counts]
      BY DEF GraphRecord, NeoRecord
<1>1. /\ new.id = tx.id /\ new.nodeLinks = tx.nodeLinks /\ new.edgeLinks = tx.edgeLinks \cup {<<c, p>>}
      /\ \A q \in Pairs : q # p => new.mentions[q] = tx.mentions[q]
      BY TouchEdgeAside, Zenon
<1> HIDE DEF new
<1>2. up.id = neo.id /\ up.chunks = neo.chunks
      BY UpsertEdgeIds, UpsertEdgeChunks
<1>3. NodesHeld(up, new)
      BY <1>1, <1>2 DEF NodesHeld
<1>4. CASE Matched(neo, new, p)
  <2>1. up = [neo EXCEPT !.rel[p] = neo.rel[p] \cup {c}, !.count[p] = new.mentions[p]]
        BY <1>4 DEF UpsertEdge, NeoRecord, Matched
  <2> HIDE DEF up
  <2>2. /\ up.rel = [neo.rel EXCEPT ![p] = neo.rel[p] \cup {c}]
        /\ up.count = [neo.count EXCEPT ![p] = new.mentions[p]]
        BY <2>1 DEF NeoRecord
  <2> SUFFICES ASSUME NEW l \in new.edgeLinks, Matched(up, new, l[2])
               PROVE  l[1] \in up.rel[l[2]] /\ up.count[l[2]] = new.mentions[l[2]]
      BY <1>3 DEF EdgesHeld, up, new
  <2>3. Matched(neo, tx, l[2])
        BY <1>1, <1>2 DEF Matched
  <2>4. CASE l = <<c, p>>
        BY <1>0, <2>2, <2>4
  <2>5. CASE l \in tx.edgeLinks
    <3>1. l[2] \in Pairs /\ l[1] \in neo.rel[l[2]] /\ neo.count[l[2]] = tx.mentions[l[2]]
          BY <1>0, <2>3, <2>5 DEF EdgesHeld
    <3>2. CASE l[2] = p
          BY <1>0, <2>2, <3>1, <3>2
    <3>3. CASE l[2] # p
          BY <1>0, <1>1, <2>2, <3>1, <3>3
    <3> QED BY <3>2, <3>3
  <2> QED BY <1>1, <2>4, <2>5
<1>5. CASE ~Matched(neo, new, p)
  <2>1. up = neo
        BY <1>5 DEF UpsertEdge, Matched
  <2> SUFFICES ASSUME NEW l \in new.edgeLinks, Matched(neo, new, l[2])
               PROVE  l[1] \in neo.rel[l[2]] /\ neo.count[l[2]] = new.mentions[l[2]]
      BY <1>3, <2>1 DEF EdgesHeld, new
  <2>2. l[2] # p /\ l \in tx.edgeLinks
        BY <1>1, <1>5
  <2>3. Matched(neo, tx, l[2]) /\ l[2] \in Pairs
        BY <1>0, <1>1, <2>2 DEF Matched
  <2> QED BY <1>1, <2>2, <2>3 DEF EdgesHeld
<1> QED BY <1>4, <1>5

LEMMA ReplayNodesHeld ==
    ASSUME TypeInv, KeyInv, ReplayNodes
    PROVE  /\ NodesHeld(neo', graph)
           /\ NodesHeld(neo, graph) /\ EdgesHeld(neo, graph) => EdgesHeld(neo', graph)
<1>0. /\ neo \in NeoRecord /\ graph \in GraphRecord
      /\ graph.nodeLinks \subseteq Chunks \X Names /\ graph.edgeLinks \subseteq Chunks \X Pairs
      BY DEF TypeInv, StoresTyped, GraphRecord
<1> DEFINE linked(n) == {c \in Chunks : <<c, n>> \in graph.nodeLinks}
<1>1. neo' = ReplayedNodes(graph.nodeLinks)
      BY DEF ReplayNodes
<1>2. /\ neo'.id = [n \in Names |-> IF neo.id[n] = 0 /\ linked(n) # {} THEN graph.id[n] ELSE neo.id[n]]
      /\ neo'.chunks = [n \in Names |-> neo.chunks[n] \cup linked(n)]
      /\ neo'.rel = neo.rel /\ neo'.count = neo.count
      BY <1>0, <1>1, ReplayedNodesFields
<1>3. \A l \in graph.nodeLinks : l[1] \in neo'.chunks[l[2]]
      BY <1>0, <1>2
<1>4. ASSUME NEW n \in Names, neo'.id[n] = 0 PROVE graph.id[n] = 0
  <2>1. graph.id[n] # 0 => linked(n) # {}
        BY DEF KeyInv, Keyed
  <2> HIDE DEF linked
  <2> QED BY <1>2, <1>4, <2>1
<1>5. ASSUME NodesHeld(neo, graph), EdgesHeld(neo, graph) PROVE EdgesHeld(neo', graph)
  <2> HIDE DEF linked
  <2>1. \A n \in Names : neo'.id[n] = neo.id[n]
        BY <1>2, <1>5 DEF NodesHeld
  <2> SUFFICES ASSUME NEW l \in graph.edgeLinks, Matched(neo', graph, l[2])
               PROVE  l[1] \in neo.rel[l[2]] /\ neo.count[l[2]] = graph.mentions[l[2]]
      BY <1>2 DEF EdgesHeld
  <2>2. l[2] \in Pairs
        BY <1>0
  <2>3. Matched(neo, graph, l[2])
        BY <2>1, <2>2, EndsAreNames DEF Matched
  <2> QED BY <1>5, <2>3 DEF EdgesHeld
<1> QED BY <1>3, <1>4, <1>5 DEF NodesHeld

LEMMA ReplayEdgesHeld ==
    ASSUME TypeInv, NodesHeld(neo, graph), ReplayEdges
    PROVE  NodesHeld(neo', graph) /\ EdgesHeld(neo', graph)
<1>0. neo \in NeoRecord /\ graph \in GraphRecord /\ graph.edgeLinks \subseteq Chunks \X Pairs
      BY DEF TypeInv, StoresTyped, GraphRecord
<1> DEFINE linked(p) == {c \in Chunks : <<c, p>> \in graph.edgeLinks}
           hit(p) == linked(p) # {} /\ \A n \in {p[1], p[2]} : neo.id[n] = graph.id[n]
<1>1. neo' = ReplayedEdges(graph.edgeLinks)
      BY DEF ReplayEdges
<1>2. /\ neo'.id = neo.id /\ neo'.chunks = neo.chunks
      /\ neo'.rel = [p \in Pairs |-> IF hit(p) THEN neo.rel[p] \cup linked(p) ELSE neo.rel[p]]
      /\ neo'.count = [p \in Pairs |-> IF hit(p) THEN graph.mentions[p] ELSE neo.count[p]]
      BY <1>0, <1>1, ReplayedEdgesFields
<1>3. NodesHeld(neo', graph)
      BY <1>2 DEF NodesHeld
<1>4. EdgesHeld(neo', graph)
  <2> SUFFICES ASSUME NEW l \in graph.edgeLinks, Matched(neo', graph, l[2])
               PROVE  l[1] \in neo'.rel[l[2]] /\ neo'.count[l[2]] = graph.mentions[l[2]]
      BY DEF EdgesHeld
  <2>1. l[2] \in Pairs /\ l[1] \in linked(l[2])
        BY <1>0
  <2>2. hit(l[2])
        BY <1>2, <2>1 DEF Matched
  <2> HIDE DEF hit, linked
  <2> QED BY <1>2, <2>1, <2>2
<1> QED BY <1>3, <1>4

LEMMA RepairNext == TypeInv /\ AgreeInv /\ KeyInv /\ RepairInv /\ [Next]_vars => RepairInv'
<1> SUFFICES ASSUME TypeInv, AgreeInv, KeyInv, RepairInv, [Next]_vars PROVE RepairInv'
    OBVIOUS
<1>0. /\ job \in JobRecord /\ Idle.pc = "idle" /\ inserted \in [Names -> Nat]
      /\ neo \in NeoRecord /\ graph \in GraphRecord
      /\ faults \in Nat /\ repaired \in Nat /\ repaired <= faults
      BY IdleTyped DEF TypeInv, JobTyped, RowsTyped, StoresTyped
<1>a. ASSUME UNCHANGED <<graph, neo, faults, repaired>>, View' = View, job'.pc = "edges" => job.pc = "edges"
      PROVE  RepairInv'
      BY <1>a DEF RepairInv
<1>b. ASSUME faults' = faults + 1, repaired' = repaired,
             job'.pc = "edges" => job.pc = "edges" /\ UNCHANGED <<graph, neo>>
      PROVE  RepairInv'
  <2>1. repaired' # faults'
        BY <1>0, <1>b
  <2> QED BY <1>b, <2>1 DEF RepairInv
<1>1. CASE UNCHANGED vars
  <2>1. UNCHANGED <<graph, neo, faults, repaired, job>> /\ View' = View
        BY <1>1 DEF vars, View
  <2> QED BY <1>a, <2>1
<1>2. ASSUME NEW a \in Admins, Activation(a) \/ ActivationDies(a) PROVE RepairInv'
  <2>1. UNCHANGED <<graph, neo, repaired, job>> /\ View' = View /\ (faults' = faults \/ faults' = faults + 1)
        BY <1>2, ActivationTyped DEF View
  <2> QED BY <1>a, <1>b, <2>1
<1>3. CASE PlainStep
  <2>1. UNCHANGED <<graph, neo, repaired>> /\ (job'.pc = "edges" => job' = job)
    <3>1. CASE Beat \/ StartBackfill \/ \E d \in Docs : RetireChunks(d)
          BY <3>1, <1>3, PlainFrame DEF Beat, StartBackfill, RetireChunks
    <3>2. CASE Take
      <4>1. job' = [Idle EXCEPT !.pc = Head(queue)] /\ Head(queue) \in Tasks /\ Idle \in JobRecord
            BY <3>2, IdleTyped DEF Take, TypeInv, RowsTyped
      <4>2. job'.pc # "edges"
            BY <4>1 DEF JobRecord, Tasks
      <4> QED BY <4>2, <1>3, PlainFrame
    <3>3. CASE ListDocuments \/ EndSweep \/ EndDocument \/ ResetExtraction \/ ChunkFails \/ WorkerCrash
      <4>1. job'.pc # "edges"
            BY <1>0, <3>3 DEF ListDocuments, EndSweep, EndDocument, ResetExtraction, ChunkFails, WorkerCrash,
               NextChunk, JobRecord
      <4> QED BY <4>1, <1>3, PlainFrame
    <3>4. CASE \E d \in Docs : BeginDocument(d)
      <4>1. job.pc = "documents" /\ job'.pc \in {"documents", "chunks"}
            BY <1>0, <3>4 DEF BeginDocument, JobRecord
      <4> QED BY <4>1, <1>3, PlainFrame
    <3>5. CASE \E c \in Chunks : BeginChunk(c)
      <4>1. job'.pc = "write"
            BY <1>0, <3>5 DEF BeginChunk, JobRecord
      <4> QED BY <4>1, <1>3, PlainFrame
    <3> QED BY <1>3, <3>1, <3>2, <3>3, <3>4, <3>5 DEF PlainStep
  <2>2. faults' = faults + 1 \/ (faults' = faults /\ View' = View)
        BY <1>3, PlainFrame DEF View
  <2> QED BY <1>a, <1>b, <2>1, <2>2
<1>4. CASE WriteNode
  <2>1. PICK c \in Chunks, n \in Names :
             LET tx == TouchNode(job.tx, n, c)
             IN  /\ job.pc = "write" /\ job.schema \in Versions
                 /\ job'.pc = "write" /\ job'.tx = tx /\ repaired' = repaired
                 /\ \/ neo' = UpsertNode(n, tx.id[n], c) /\ faults' = faults
                    \/ faults' = faults + 1
        BY <1>4, WriteNodeStep
  <2>2. View = job.tx /\ View' = TouchNode(job.tx, n, c) /\ job.tx \in GraphRecord /\ Identified(job.tx)
        BY <1>0, <2>1 DEF View, JobRecord, AgreeInv
  <2>3. neo.id[n] <= inserted[n]
        BY DEF KeyInv
  <2>4. ASSUME repaired = faults, neo' = UpsertNode(n, TouchNode(job.tx, n, c).id[n], c)
        PROVE  NodesHeld(neo', View') /\ EdgesHeld(neo', View')
    <3>1. NodesHeld(neo, job.tx) /\ EdgesHeld(neo, job.tx)
          BY <2>2, <2>4 DEF RepairInv
    <3> QED BY <1>0, <2>1, <2>2, <2>3, <2>4, <3>1, TouchNodeHeld
  <2>5. CASE faults' = faults + 1
        BY <1>b, <2>1, <2>5
  <2>6. CASE faults' = faults
    <3>1. faults' # faults + 1
          BY <1>0, <2>6
    <3> QED BY <2>1, <2>4, <2>6, <3>1 DEF RepairInv
  <2> QED BY <2>1, <2>5, <2>6
<1>5. CASE WriteEdge
  <2>1. PICK c \in Chunks, p \in Pairs :
             LET tx == TouchEdge(job.tx, p, c)
             IN  /\ job.pc = "write" /\ job.schema \in Versions
                 /\ job'.pc = "write" /\ job'.tx = tx /\ repaired' = repaired
                 /\ \/ neo' = UpsertEdge(p, tx.id, tx.mentions[p], c) /\ faults' = faults
                    \/ faults' = faults + 1
        BY <1>5, WriteEdgeStep
  <2> DEFINE tx == TouchEdge(job.tx, p, c)
  <2>2. View = job.tx /\ View' = tx /\ job.tx \in GraphRecord
        BY <1>0, <2>1 DEF View, JobRecord
  <2>4. ASSUME repaired = faults, neo' = UpsertEdge(p, tx.id, tx.mentions[p], c)
        PROVE  NodesHeld(neo', View') /\ EdgesHeld(neo', View')
    <3>1. NodesHeld(neo, job.tx) /\ EdgesHeld(neo, job.tx)
          BY <2>2, <2>4 DEF RepairInv
    <3> QED BY <1>0, <2>1, <2>2, <2>4, <3>1, TouchEdgeHeld
  <2>5. CASE faults' = faults + 1
        BY <1>b, <2>1, <2>5
  <2>6. CASE faults' = faults
    <3>1. faults' # faults + 1
          BY <1>0, <2>6
    <3> QED BY <2>1, <2>4, <2>6, <3>1 DEF RepairInv
  <2> QED BY <2>1, <2>5, <2>6
<1>6. CASE CommitChunk
  <2>1. graph' = View /\ View' = View /\ UNCHANGED <<neo, faults, repaired>> /\ job'.pc = "chunks"
        BY <1>6, CommitStep DEF View
  <2> QED BY <2>1 DEF RepairInv
<1>7. CASE ReplayNodes
  <2>1. graph' = graph /\ View = graph /\ View' = graph /\ UNCHANGED <<faults, repaired>>
        BY <1>7, ReplayFrame DEF ReplayNodes, observers
  <2> QED BY <1>7, <2>1, ReplayNodesHeld DEF RepairInv
<1>8. CASE ReplayEdges
  <2>1. graph' = graph /\ View' = graph /\ job'.pc = "idle" /\ NodesHeld(neo, graph)
        BY <1>0, <1>8, ReplayFrame DEF ReplayEdges, RepairInv
  <2>2. NodesHeld(neo', graph) /\ EdgesHeld(neo', graph)
        BY <1>8, <2>1, ReplayEdgesHeld
  <2> QED BY <2>1, <2>2 DEF RepairInv
<1>9. CASE BackfillFails
  <2>1. job'.pc = "idle" /\ faults' = faults + 1 /\ repaired' = repaired
        BY <1>0, <1>9 DEF BackfillFails, Fault, observers
  <2> QED BY <1>b, <2>1
<1> QED BY <1>1, <1>2, <1>3, <1>4, <1>5, <1>6, <1>7, <1>8, <1>9, StepKinds

(* A backfill that runs to its end makes good what earlier faults had left *)
(* out of Neo4j, and it stays good until the next fault                    *)
(* (backfill_neo4j_graph_task and the dual write after it).                *)
THEOREM BackfillRepairsCorrect == Spec => []BackfillRepairs
<1>1. Spec => []AgreeInv
      BY AgreeInit, AgreeNext, TypeInvariant, PTL DEF Spec
<1>2. Spec => []RepairInv
      BY <1>1, RepairInit, RepairNext, KeyInvariant, TypeInvariant, PTL DEF Spec
<1>3. RepairInv => BackfillRepairs
      BY DEF RepairInv, NodesHeld, EdgesHeld, Matched, View, BackfillRepairs
<1> QED BY <1>2, <1>3, PTL
=============================================================================
