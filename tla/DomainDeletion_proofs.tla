----------------------- MODULE DomainDeletion_proofs -----------------------
(***************************************************************************)
(* Theorems about DomainDeletion, for any set of tables and any number of  *)
(* writes: what is left of a domain, in Postgres and in the two stores     *)
(* that take no part in its transaction.                                   *)
(***************************************************************************)
EXTENDS DomainDeletion, TLAPS

(* A deletion under way is of an archived domain.                          *)
StepInv == step \in Nat /\ (step # 0 => domain = "archived")

LEMMA StepInit == Init => StepInv
BY DEF Init, StepInv

LEMMA CommitIsThirteen == Commit = 13 /\ Commit - 1 = 12
BY DEF Commit, Statements

LEMMA StepNext == StepInv /\ [Next]_vars => StepInv'
<1> SUFFICES ASSUME StepInv, [Next]_vars PROVE StepInv'
    OBVIOUS
<1> USE DEF StepInv
<1>1. CASE UNCHANGED vars
      BY <1>1 DEF vars
<1>2. ASSUME NEW t \in Tables, PassesArchivedCheck(t) \/ Write(t) \/ WriteFails(t) PROVE StepInv'
      BY <1>2 DEF PassesArchivedCheck, Write, WriteFails, deletion
<1>3. CASE Archive \/ BeginDelete
      BY <1>3 DEF Archive, BeginDelete, Archived, deletion
<1>4. CASE DeleteGraph \/ ReadIds \/ DeleteDies
      BY <1>4 DEF DeleteGraph, ReadIds, DeleteDies
<1>5. CASE DeleteRows
  <2>1. domain' = domain /\ step' \in {0, step + 1} /\ step # 0
        BY <1>5, CommitIsThirteen DEF DeleteRows, Rollback
  <2> QED BY <2>1
<1>6. CASE CommitDelete
      BY <1>6 DEF CommitDelete, Rollback
<1> QED BY <1>1, <1>2, <1>3, <1>4, <1>5, <1>6 DEF Next

----------------------------------------------------------------------------
(* The stores outside Postgres.                                            *)

OwnTables ==
    /\ "documents" \in Tables => "documents" \in OfDomain
    /\ "nodes" \in Tables => "nodes" \in OfDomain

LEMMA StoresAreOfDomain == OwnTables
BY DEF OwnTables, OfDomain, Logs, Evaluations

(* Until a deletion begins, rows have their stores.  Whatever error was    *)
(* not logged, and whatever write did not race: a file has its document,   *)
(* files have gone once a deletion has begun, and the graph once it has    *)
(* deleted it.                                                             *)
StoresInv ==
    /\ ActiveHasItsStores
    /\ ~leftover => /\ files => "documents" \in rows /\ step = 0 /\ domain # "deleted"
                    /\ entities => step < 2 /\ domain # "deleted"

LEMMA StoresInit == Init => StoresInv
BY DEF Init, StoresInv, ActiveHasItsStores

LEMMA StoresNext == StepInv /\ StoresInv /\ [Next]_vars => StoresInv'
<1> SUFFICES ASSUME StepInv, StoresInv, [Next]_vars PROVE StoresInv'
    OBVIOUS
<1> USE DEF StoresInv, ActiveHasItsStores
<1>1. CASE UNCHANGED vars
      BY <1>1 DEF vars
<1>2. ASSUME NEW t \in Tables, PassesArchivedCheck(t) PROVE StoresInv'
      BY <1>2 DEF PassesArchivedCheck, external, observed, deletion
<1>3. ASSUME NEW t \in Tables, Write(t) PROVE StoresInv'
  <2>1. /\ rows' = rows \cup {t} /\ UNCHANGED <<domain, step>>
        /\ (files' <=> files \/ t = "documents") /\ (entities' <=> entities \/ t = "nodes")
        /\ (leftover' <=> leftover \/ (step # 0 /\ t \in {"documents", "nodes"}))
        /\ t \in OfDomain => domain # "deleted"
        BY <1>3 DEF Write, deletion, Exists
  <2>2. t \in {"documents", "nodes"} => domain # "deleted"
        BY <2>1, StoresAreOfDomain DEF OwnTables
  <2> QED BY <2>1, <2>2
<1>4. ASSUME NEW t \in Tables, WriteFails(t) PROVE StoresInv'
      BY <1>4 DEF WriteFails, deletion
<1>5. CASE Archive
      BY <1>5 DEF Archive, external, deletion, observed
<1>6. CASE BeginDelete
  <2>1. /\ domain = "archived" /\ UNCHANGED <<domain, rows, entities>> /\ step' = 1
        /\ \/ (files' <=> files /\ "documents" \notin rows) /\ (leftover' <=> leftover)
           \/ (files' <=> files) /\ (leftover' <=> leftover \/ files)
    <3>1. /\ domain = "archived" /\ UNCHANGED <<domain, rows, entities>> /\ step' = 1
          BY <1>6 DEF BeginDelete, Archived
    <3>2. CASE files' = (files /\ "documents" \notin rows) /\ leftover' = leftover
          BY <3>1, <3>2
    <3>3. CASE files' = files /\ leftover' = (leftover \/ files)
      <4>1. leftover' <=> leftover \/ files
            BY <3>3
      <4>2. files' <=> files
            BY <3>3
      <4> QED BY <3>1, <4>1, <4>2
    <3> QED BY <1>6, <3>2, <3>3 DEF BeginDelete
  <2> QED BY <2>1
<1>7. CASE DeleteGraph
  <2>1. /\ step = 1 /\ step' = 2 /\ UNCHANGED <<domain, rows, files>>
        /\ \/ ~entities' /\ (leftover' <=> leftover)
           \/ (entities' <=> entities) /\ (leftover' <=> leftover \/ entities)
    <3>1. step = 1 /\ step' = 2 /\ UNCHANGED <<domain, rows, files>>
          BY <1>7 DEF DeleteGraph
    <3>2. CASE entities' = FALSE /\ leftover' = leftover
          BY <3>1, <3>2
    <3>3. CASE entities' = entities /\ leftover' = (leftover \/ entities)
      <4>1. leftover' <=> leftover \/ entities
            BY <3>3
      <4>2. entities' <=> entities
            BY <3>3
      <4> QED BY <3>1, <4>1, <4>2
    <3> QED BY <1>7, <3>2, <3>3 DEF DeleteGraph
  <2> QED BY <2>1 DEF StepInv
<1>8. CASE ReadIds
      BY <1>8 DEF ReadIds, external, observed, StepInv
<1>9. CASE DeleteRows
  <2>1. /\ step \in 3 .. 12 /\ step' \in {0, step + 1}
        /\ UNCHANGED <<domain, rows, files, entities, leftover>>
        BY <1>9, CommitIsThirteen DEF DeleteRows, Rollback, external, observed
  <2> QED BY <2>1 DEF StepInv
<1>10. CASE CommitDelete
  <2>1. /\ step = 13 /\ step' = 0 /\ UNCHANGED <<files, entities, leftover>>
        /\ UNCHANGED <<domain, rows>> \/ domain' = "deleted"
        BY <1>10, CommitIsThirteen DEF CommitDelete, Rollback, external, observed
  <2> QED BY <2>1 DEF StepInv
<1>11. CASE DeleteDies
  <2>1. step > 0 /\ step' = 0 /\ UNCHANGED <<domain, rows, files, entities, leftover>>
        BY <1>11 DEF DeleteDies, external, observed
  <2> QED BY <2>1 DEF StepInv
<1> QED BY <1>1, <1>2, <1>3, <1>4, <1>5, <1>6, <1>7, <1>8, <1>9, <1>10, <1>11 DEF Next

LEMMA StepInvariant == Spec => []StepInv
BY StepInit, StepNext, PTL DEF Spec

LEMMA StoresInvariant == Spec => []StoresInv
BY StoresInit, StoresNext, StepInvariant, PTL DEF Spec

(* A user of an active domain never sees a document whose file has gone,   *)
(* or entities without their graph: only an archived domain loses them to  *)
(* a deletion that fails later (the safety rail of delete_domain).         *)
THEOREM ActiveHasItsStoresCorrect == Spec => []ActiveHasItsStores
<1>1. StoresInv => ActiveHasItsStores
      BY DEF StoresInv
<1> QED BY <1>1, StoresInvariant, PTL

(* A deleted domain has left neither files nor graph, unless an error was  *)
(* logged or a write raced the deletion (delete_domain).                   *)
THEOREM StoresAreEmptiedCorrect == Spec => []StoresAreEmptied
<1>1. StoresInv => StoresAreEmptied
      BY DEF StoresInv, StoresAreEmptied
<1> QED BY <1>1, StoresInvariant, PTL

----------------------------------------------------------------------------
(* The rows.                                                               *)

(* The deletion has listed every query log that was there when it read     *)
(* them; those it has not were answered later.  No statement of it deletes *)
(* a log before the commit.                                                *)
LogsInv ==
    /\ removed \cap Logs = {}
    /\ step <= LogsListed => seen \cap Logs = {}
    /\ step > LogsListed => rows \cap Logs \subseteq seen \cup lateLogs
    /\ late \subseteq rows
    /\ late \cap Logs \subseteq lateLogs
    /\ GoneMeansGone

LEMMA LogsInit == Init => LogsInv
BY DEF Init, LogsInv, GoneMeansGone, Logs, LogsListed

LEMMA StatementsLeaveLogs ==
    ASSUME NEW i \in 1 .. 10
    PROVE  /\ Statements[i] \cap Logs = {}
           /\ Statements[i] = Evaluations <=> i = 5
<1>1. i = 1 \/ i = 2 \/ i = 3 \/ i = 4 \/ i = 5 \/ i = 6 \/ i = 7 \/ i = 8 \/ i = 9 \/ i = 10
      OBVIOUS
<1>2. /\ Statements[1] = {"nodeLinks", "edgeLinks"} /\ Statements[2] = {"edges"}
      /\ Statements[3] = {"nodes"} /\ Statements[4] = {"chunks"} /\ Statements[5] = Evaluations
      /\ Statements[6] = {"goldenItems"} /\ Statements[7] = {"ontology"} /\ Statements[8] = {"configs"}
      /\ Statements[9] = {"documents"} /\ Statements[10] = {"roles"}
      BY DEF Statements
<1>3. "evaluations" \in Evaluations
      BY DEF Evaluations
<1>4. /\ "evaluations" \notin {"nodeLinks", "edgeLinks"} /\ "evaluations" \notin {"edges"}
      /\ "evaluations" \notin {"nodes"} /\ "evaluations" \notin {"chunks"}
      /\ "evaluations" \notin {"goldenItems"} /\ "evaluations" \notin {"ontology"}
      /\ "evaluations" \notin {"configs"} /\ "evaluations" \notin {"documents"} /\ "evaluations" \notin {"roles"}
      OBVIOUS
<1>5. /\ {"nodeLinks", "edgeLinks"} \cap Logs = {} /\ {"edges"} \cap Logs = {} /\ {"nodes"} \cap Logs = {}
      /\ {"chunks"} \cap Logs = {} /\ Evaluations \cap Logs = {} /\ {"goldenItems"} \cap Logs = {}
      /\ {"ontology"} \cap Logs = {} /\ {"configs"} \cap Logs = {} /\ {"documents"} \cap Logs = {}
      /\ {"roles"} \cap Logs = {}
      BY DEF Logs, Evaluations
<1>6. Statements[i] \cap Logs = {}
      BY <1>1, <1>2, <1>5
<1>7. i # 5 => "evaluations" \notin Statements[i]
      BY <1>1, <1>2, <1>4
<1> QED BY <1>2, <1>3, <1>6, <1>7

LEMMA LogsDeleteRows ==
    ASSUME StepInv, LogsInv, DeleteRows
    PROVE  LogsInv'
<1> DEFINE i == step - 2
           chosen == Selected(i)
           gone == removed \cup chosen
<1>0. step \in 3 .. 12 /\ i \in 1 .. 10 /\ LogsListed = 7
      BY CommitIsThirteen DEF DeleteRows, LogsListed
<1>1. chosen \subseteq Statements[i] /\ chosen \subseteq rows
      BY DEF Selected
<1>2. Statements[i] \cap Logs = {} /\ (Statements[i] = Evaluations <=> step = 7)
      BY <1>0, StatementsLeaveLogs
<1> HIDE DEF chosen
<1>3. CASE Referenced(chosen, gone)
  <2>1. Rollback
        BY <1>3 DEF DeleteRows, chosen
  <2> QED BY <1>0, <2>1 DEF Rollback, LogsInv, GoneMeansGone, OfDomain, Logs
<1>4. CASE ~Referenced(chosen, gone)
  <2>1. /\ removed' = removed \cup chosen /\ step' = step + 1 /\ late' = late \ chosen
        /\ seen' = IF Statements[i] = Evaluations THEN seen \cup (rows \cap Logs) ELSE seen
        /\ UNCHANGED <<domain, rows, lateLogs>>
        BY <1>4 DEF DeleteRows, observed, chosen
  <2>2. removed' \cap Logs = {}
        BY <1>1, <1>2, <2>1 DEF LogsInv
  <2>3. late' \subseteq rows' /\ late' \cap Logs \subseteq lateLogs'
        BY <2>1 DEF LogsInv
  <2>4. step' <= 7 => seen' \cap Logs = {}
    <3>1. step' <= 7 => step # 7 /\ step <= 7
          BY <1>0, <2>1
    <3> QED BY <1>0, <1>2, <2>1, <3>1 DEF LogsInv
  <2>5. step' > 7 => rows' \cap Logs \subseteq seen' \cup lateLogs'
    <3>1. CASE step = 7
          BY <1>2, <2>1, <3>1
    <3>2. CASE step # 7
      <4>1. step' > 7 => step > 7
            BY <1>0, <2>1, <3>2
      <4> QED BY <1>0, <1>2, <2>1, <3>2, <4>1 DEF LogsInv
    <3> QED BY <3>1, <3>2
  <2>6. GoneMeansGone'
        BY <2>1 DEF LogsInv, GoneMeansGone
  <2> QED BY <1>0, <2>2, <2>3, <2>4, <2>5, <2>6 DEF LogsInv, LogsListed
<1> QED BY <1>3, <1>4

LEMMA LogsCommit ==
    ASSUME StepInv, LogsInv, CommitDelete
    PROVE  LogsInv'
<1> DEFINE gone == removed \cup (seen \cap FlushedAtCommit)
           blocked == Referenced(seen \cap FlushedAtCommit, gone) \/ \E t \in OfDomain : Visible(t, gone)
<1>0. step > 7 /\ LogsListed = 7
      BY CommitIsThirteen DEF CommitDelete, LogsListed
<1>1. CASE blocked
  <2>1. Rollback
        BY <1>1 DEF CommitDelete
  <2> QED BY <1>0, <2>1 DEF Rollback, LogsInv, GoneMeansGone, OfDomain, Logs
<1>2. CASE ~blocked
  <2>1. /\ rows' = (rows \ gone) \cup late /\ domain' = "deleted"
        /\ step' = 0 /\ removed' = {} /\ seen' = {} /\ late' = {} /\ lateLogs' = lateLogs
        BY <1>2 DEF CommitDelete, observed
  <2>2. \A t \in OfDomain : ~Visible(t, gone)
        BY <1>2
  <2>3. rows' \cap OfDomain = {}
    <3> SUFFICES ASSUME NEW t \in OfDomain, t \in rows' PROVE FALSE
        OBVIOUS
    <3>1. t \in rows /\ (t \in gone => t \in late)
          BY <2>1 DEF LogsInv
    <3> QED BY <2>2, <3>1 DEF Visible
  <2>4. rows' \cap Logs \subseteq lateLogs'
    <3> SUFFICES ASSUME NEW t \in rows', t \in Logs PROVE t \in lateLogs
        BY <2>1
    <3>1. CASE t \in late
          BY <3>1 DEF LogsInv
    <3>2. CASE t \in rows \ gone
          BY <1>0, <3>2 DEF LogsInv, FlushedAtCommit
    <3> QED BY <2>1, <3>1, <3>2
  <2> QED BY <1>0, <2>1, <2>3, <2>4 DEF LogsInv, GoneMeansGone
<1> QED BY <1>1, <1>2

LEMMA LogsWrite ==
    ASSUME StepInv, LogsInv, NEW t \in Tables, Write(t)
    PROVE  LogsInv'
<1>1. /\ rows' = rows \cup {t} /\ UNCHANGED <<domain, step, seen, removed>>
      /\ late' = late \cup ({t} \cap Doomed)
      /\ lateLogs' = IF t \in Logs /\ (domain = "deleted" \/ step > LogsListed) THEN lateLogs \cup {t} ELSE lateLogs
      /\ t \in OfDomain => domain # "deleted"
      BY DEF Write, deletion, Exists
<1>2. t \in Logs /\ t \in Doomed => step > LogsListed
      BY DEF Doomed, LogsInv, LogsListed, StepInv
<1>3. late' \subseteq rows' /\ late' \cap Logs \subseteq lateLogs'
      BY <1>1, <1>2 DEF LogsInv
<1>4. step' > LogsListed => rows' \cap Logs \subseteq seen' \cup lateLogs'
      BY <1>1 DEF LogsInv, LogsListed
<1>5. GoneMeansGone'
      BY <1>1 DEF LogsInv, GoneMeansGone, OfDomain
<1> QED BY <1>1, <1>3, <1>4, <1>5 DEF LogsInv, LogsListed

LEMMA LogsNext == StepInv /\ LogsInv /\ [Next]_vars => LogsInv'
<1> SUFFICES ASSUME StepInv, LogsInv, [Next]_vars PROVE LogsInv'
    OBVIOUS
<1>0. LogsListed = 7
      BY DEF LogsListed
<1>1. CASE UNCHANGED vars
      BY <1>1 DEF vars, LogsInv, GoneMeansGone, LogsListed
<1>2. ASSUME NEW t \in Tables, PassesArchivedCheck(t) \/ WriteFails(t) PROVE LogsInv'
  <2>1. UNCHANGED <<domain, rows, step, seen, removed, late, lateLogs>>
        BY <1>2 DEF PassesArchivedCheck, WriteFails, deletion, observed
  <2> QED BY <2>1 DEF LogsInv, GoneMeansGone, LogsListed
<1>3. CASE Archive
  <2>1. domain' = "archived" /\ UNCHANGED <<rows, step, seen, removed, late, lateLogs>>
        BY <1>3 DEF Archive, deletion, observed
  <2> QED BY <2>1 DEF LogsInv, GoneMeansGone, LogsListed
<1>4. CASE BeginDelete
  <2>1. /\ domain' = "archived" /\ step' = 1 /\ removed' = {} /\ seen' = {} /\ late' = {}
        BY <1>4 DEF BeginDelete, Archived
  <2> QED BY <1>0, <2>1 DEF LogsInv, GoneMeansGone, LogsListed
<1>5. CASE DeleteGraph
  <2>1. step = 1 /\ step' = 2 /\ UNCHANGED <<domain, rows, seen, removed, late, lateLogs>>
        BY <1>5 DEF DeleteGraph
  <2> QED BY <1>0, <2>1 DEF LogsInv, GoneMeansGone, LogsListed
<1>6. CASE ReadIds
  <2>1. /\ step = 2 /\ step' = 3 /\ seen' = rows \cap {"chunks", "nodes", "edges"}
        /\ UNCHANGED <<domain, rows, removed, late, lateLogs>>
        BY <1>6 DEF ReadIds, observed
  <2>2. seen' \cap Logs = {}
        BY <2>1 DEF Logs
  <2> QED BY <1>0, <2>1, <2>2 DEF LogsInv, GoneMeansGone, LogsListed
<1>7. CASE DeleteDies
  <2>1. /\ step' = 0 /\ removed' = {} /\ seen' = {} /\ late' = {}
        /\ UNCHANGED <<domain, rows, lateLogs>>
        BY <1>7 DEF DeleteDies, observed
  <2> QED BY <1>0, <2>1 DEF LogsInv, GoneMeansGone, LogsListed
<1>8. ASSUME NEW t \in Tables, Write(t) PROVE LogsInv'
      BY <1>8, LogsWrite
<1> QED BY <1>1, <1>2, <1>3, <1>4, <1>5, <1>6, <1>7, <1>8, LogsDeleteRows, LogsCommit DEF Next

LEMMA LogsInvariant == Spec => []LogsInv
BY LogsInit, LogsNext, StepInvariant, PTL DEF Spec

(* After a deletion no row refers to the domain, and of its query logs     *)
(* only those remain that were answered after it had listed them           *)
(* (delete_domain, whose logs are deleted at the commit).                  *)
THEOREM GoneMeansGoneCorrect == Spec => []GoneMeansGone
<1>1. LogsInv => GoneMeansGone
      BY DEF LogsInv
<1> QED BY <1>1, LogsInvariant, PTL
----------------------------------------------------------------------------
(* The references.                                                         *)

(* Rows as the open transaction sees them: those it has not deleted, and   *)
(* those written since to tables it has been through.                      *)
View == {t \in rows : t \in removed => t \in late}

ClosedInv ==
    /\ rows \subseteq Tables /\ removed \subseteq Tables /\ late \subseteq rows
    /\ step = 0 => removed = {}
    /\ \A t \in rows : RefersTo(t) \subseteq rows
    /\ \A t \in View : RefersTo(t) \subseteq View

LEMMA ClosedInit == Init => ClosedInv
<1> SUFFICES ASSUME Init PROVE ClosedInv
    OBVIOUS
<1>1. rows \subseteq {"roles"} /\ rows \subseteq Tables /\ removed = {} /\ late = {}
      BY DEF Init
<1>2. RefersTo("roles") = {}
      BY DEF RefersTo
<1> QED BY <1>1, <1>2 DEF ClosedInv, View

(* A new row refers to rows that stay, and a rollback gives back what the  *)
(* transaction had deleted.                                                *)
LEMMA ClosedWrite ==
    ASSUME ClosedInv, NEW t \in Tables, Write(t)
    PROVE  ClosedInv'
<1>1. /\ rows' = rows \cup {t} /\ late' = late \cup ({t} \cap Doomed) /\ UNCHANGED <<step, removed>>
      /\ \A u \in RefersTo(t) : u \in View
      BY DEF Write, deletion, Referable, View
<1>2. View' = View \cup {t}
      BY <1>1 DEF View, Doomed
<1> QED BY <1>1, <1>2 DEF ClosedInv, View, Doomed

LEMMA ClosedRollback ==
    ASSUME ClosedInv, rows' = rows, removed' = {}, late' = {}
    PROVE  ClosedInv'
<1>1. View' = rows
      BY DEF View
<1> QED BY <1>1 DEF ClosedInv

(* A statement that no foreign key stops leaves no dangling reference.     *)
LEMMA ClosedDelete ==
    ASSUME ClosedInv, NEW ts, ts \subseteq rows,
           ~Referenced(ts, removed \cup ts),
           rows' = rows, removed' = removed \cup ts, late' = late \ ts, step' # 0
    PROVE  ClosedInv'
<1>1. View' = View \ ts
      BY DEF View
<1>2. ASSUME NEW t \in View \ ts PROVE RefersTo(t) \subseteq View \ ts
  <2>1. t \in Tables /\ Visible(t, removed \cup ts)
        BY DEF ClosedInv, View, Visible
  <2>2. RefersTo(t) \cap ts = {}
        BY <2>1 DEF Referenced
  <2> QED BY <2>2 DEF ClosedInv
<1> QED BY <1>1, <1>2 DEF ClosedInv

LEMMA ClosedCommit ==
    ASSUME ClosedInv, LogsInv, CommitDelete
    PROVE  ClosedInv'
<1> DEFINE logs == seen \cap FlushedAtCommit
           gone == removed \cup logs
           blocked == Referenced(logs, gone) \/ \E t \in OfDomain : Visible(t, gone)
<1>1. CASE blocked
  <2>1. Rollback
        BY <1>1 DEF CommitDelete
  <2> QED BY <2>1, ClosedRollback DEF Rollback
<1>2. CASE ~blocked
  <2>1. rows' = (rows \ gone) \cup late /\ removed' = {} /\ late' = {} /\ step' = 0
        BY <1>2 DEF CommitDelete
  <2>2. View' = rows' /\ rows' = {t \in rows : Visible(t, gone)}
        BY <2>1 DEF View, Visible, ClosedInv
  <2>3. ASSUME NEW t \in rows' PROVE RefersTo(t) \subseteq rows'
    <3>1. t \in View /\ t \in Tables /\ Visible(t, gone)
          BY <2>2 DEF View, Visible, ClosedInv
    <3>2. RefersTo(t) \cap logs = {}
          BY <1>2, <3>1 DEF Referenced
    <3>3. RefersTo(t) \subseteq View
          BY <3>1 DEF ClosedInv
    <3> QED BY <2>2, <3>2, <3>3 DEF View, Visible
  <2> QED BY <2>1, <2>2, <2>3 DEF ClosedInv
<1> QED BY <1>1, <1>2

LEMMA ClosedNext == StepInv /\ LogsInv /\ ClosedInv /\ [Next]_vars => ClosedInv'
<1> SUFFICES ASSUME StepInv, LogsInv, ClosedInv, [Next]_vars PROVE ClosedInv'
    OBVIOUS
<1>1. CASE UNCHANGED <<rows, removed, late>> /\ (step' = 0 => step = 0)
  <2>1. View' = View
        BY <1>1 DEF View
  <2> QED BY <1>1, <2>1 DEF ClosedInv
<1>2. CASE UNCHANGED vars
      BY <1>1, <1>2 DEF vars, deletion
<1>3. ASSUME NEW t \in Tables, PassesArchivedCheck(t) \/ WriteFails(t) PROVE ClosedInv'
      BY <1>1, <1>3 DEF PassesArchivedCheck, WriteFails, deletion
<1>4. ASSUME NEW t \in Tables, Write(t) PROVE ClosedInv'
      BY <1>4, ClosedWrite
<1>5. CASE Archive \/ DeleteGraph \/ ReadIds
      BY <1>1, <1>5 DEF Archive, DeleteGraph, ReadIds, deletion
<1>6. CASE BeginDelete \/ DeleteDies
      BY <1>6, ClosedRollback DEF BeginDelete, DeleteDies
<1>7. CASE DeleteRows
  <2> DEFINE ts == Selected(step - 2)
  <2>1. ts \subseteq rows /\ (step' # 0 \/ Rollback)
        BY <1>7, CommitIsThirteen DEF DeleteRows, Selected
  <2>2. CASE Rollback
        BY <2>2, ClosedRollback DEF Rollback
  <2>3. CASE ~Rollback
    <3>1. /\ ~Referenced(ts, removed \cup ts) /\ rows' = rows
          /\ removed' = removed \cup ts /\ late' = late \ ts
          BY <1>7, <2>3 DEF DeleteRows
    <3> QED BY <2>1, <2>3, <3>1, ClosedDelete
  <2> QED BY <2>2, <2>3
<1> QED BY <1>2, <1>3, <1>4, <1>5, <1>6, <1>7, ClosedCommit DEF Next
LEMMA ClosedInvariant == Spec => []ClosedInv
BY ClosedInit, ClosedNext, StepInvariant, LogsInvariant, PTL DEF Spec

(* Postgres never holds a row of the domain that refers to one that is not *)
(* there, whatever commits while the deletion deletes its tables; and the  *)
(* state keeps its type.                                                   *)
THEOREM TypeCorrect == Spec => []TypeOK
<1> DEFINE CountsOK ==
             /\ domain \in {"active", "archived", "deleted"} /\ checked \subseteq Guarded
             /\ step \in 0 .. Commit /\ writes \in 0 .. MaxWrites
<1>1. Init => CountsOK
      BY TablesOK, CommitIsThirteen DEF Init
<1>2. CountsOK /\ [Next]_vars => CountsOK'
  <2> SUFFICES ASSUME CountsOK, [Next]_vars PROVE CountsOK'
      OBVIOUS
  <2> USE TablesOK, CommitIsThirteen
  <2>1. CASE UNCHANGED vars
        BY <2>1 DEF vars, deletion
  <2>2. ASSUME NEW t \in Tables, PassesArchivedCheck(t) \/ WriteFails(t) PROVE CountsOK'
        BY <2>2 DEF PassesArchivedCheck, WriteFails, deletion
  <2>3. ASSUME NEW t \in Tables, Write(t) PROVE CountsOK'
    <3>1. checked' = checked \ {t} /\ UNCHANGED <<domain, step>> /\ CountWrite
          BY <2>3 DEF Write, deletion
    <3> QED BY <3>1 DEF CountWrite
  <2>4. CASE Archive \/ BeginDelete \/ DeleteGraph \/ ReadIds
        BY <2>4 DEF Archive, BeginDelete, DeleteGraph, ReadIds, deletion
  <2>5. CASE DeleteRows
    <3>1. /\ step \in 3 .. 12 /\ step' \in {0, step + 1} /\ UNCHANGED <<domain, checked, writes>>
          BY <2>5 DEF DeleteRows, Rollback
    <3> QED BY <3>1
  <2>6. CASE CommitDelete \/ DeleteDies
        BY <2>6 DEF CommitDelete, Rollback, DeleteDies
  <2> QED BY <2>1, <2>2, <2>3, <2>4, <2>5, <2>6 DEF Next
<1>3. ClosedInv /\ CountsOK => TypeOK
      BY DEF ClosedInv, TypeOK
<1> QED BY <1>1, <1>2, <1>3, ClosedInvariant, PTL DEF Spec

----------------------------------------------------------------------------
(* The failures.                                                           *)

(* A deletion nothing has disturbed has deleted every row of the tables it *)
(* is through with.                                                        *)
UndisturbedInv ==
    step # 0 /\ ~disturbed =>
        /\ late = {}
        /\ step > 2 => rows \cap {"chunks", "nodes", "edges"} \subseteq seen
        /\ \A i \in 1 .. 10 : i + 2 < step => Statements[i] \cap rows \subseteq removed

FailInv == DeleteFailsOnlyOnGoldenLogs /\ UndisturbedInv

LEMMA StatementsAre ==
    /\ Statements[1] = {"nodeLinks", "edgeLinks"} /\ Statements[2] = {"edges"}
    /\ Statements[3] = {"nodes"} /\ Statements[4] = {"chunks"} /\ Statements[5] = Evaluations
    /\ Statements[6] = {"goldenItems"} /\ Statements[7] = {"ontology"} /\ Statements[8] = {"configs"}
    /\ Statements[9] = {"documents"} /\ Statements[10] = {"roles"}
BY DEF Statements

(* The statements are in dependency order: whoever refers to a table that  *)
(* one of them deletes has been deleted before, or is a golden log.        *)
LEMMA DependencyOrder ==
    ASSUME NEW i \in 1 .. 10, NEW t \in Statements[i], NEW u \in Tables, t \in RefersTo(u)
    PROVE  u = "goldenLogs" \/ \E j \in 1 .. 10 : j < i /\ u \in Statements[j]
<1>1. /\ RefersTo("documents") = {} /\ RefersTo("ontology") = {} /\ RefersTo("configs") = {}
      /\ RefersTo("roles") = {} /\ RefersTo("goldenItems") = {} /\ RefersTo("liveLogs") = {}
      /\ RefersTo("chunks") = {"documents"} /\ RefersTo("nodes") = {} /\ RefersTo("edges") = {"nodes"}
      /\ RefersTo("nodeLinks") = {"chunks", "nodes"} /\ RefersTo("edgeLinks") = {"chunks", "edges"}
      /\ RefersTo("evaluations") = {"liveLogs"} /\ RefersTo("goldenEvaluations") = {"goldenLogs"}
      BY DEF RefersTo
<1>2. u \in {"documents", "chunks", "nodes", "edges", "nodeLinks", "edgeLinks", "ontology", "configs",
             "roles", "goldenItems", "liveLogs", "goldenLogs", "evaluations", "goldenEvaluations"}
      BY TablesOK DEF DomainTables, Logs, Evaluations
<1>3. CASE u = "nodeLinks"
      BY <1>1, <1>3, StatementsAre DEF Evaluations
<1>4. CASE u = "edgeLinks"
      BY <1>1, <1>4, StatementsAre DEF Evaluations
<1>5. CASE u = "edges"
      BY <1>1, <1>5, StatementsAre DEF Evaluations
<1>6. CASE u = "chunks"
      BY <1>1, <1>6, StatementsAre DEF Evaluations
<1>7. t \notin Logs
      BY StatementsLeaveLogs
<1>8. CASE u \in {"evaluations", "goldenEvaluations"}
      BY <1>1, <1>7, <1>8 DEF Logs
<1> QED BY <1>1, <1>2, <1>3, <1>4, <1>5, <1>6, <1>8
LEMMA FailDeleteRows ==
    ASSUME StepInv, LogsInv, ClosedInv, FailInv, DeleteRows
    PROVE  FailInv'
<1> DEFINE i == step - 2
           ts == Selected(i)
<1>1. step \in 3 .. 12 /\ i \in 1 .. 10
      BY CommitIsThirteen DEF DeleteRows
<1>2. ASSUME ~disturbed PROVE ts = Statements[i] \cap rows
  <2> SUFFICES ASSUME NEW t \in Statements[i] \cap rows, t \in {"nodeLinks", "edgeLinks"}
               PROVE  RefersTo(t) \cap seen # {}
      BY DEF Selected
  <2>1. "chunks" \in RefersTo(t)
        BY DEF RefersTo
  <2>2. "chunks" \in rows
        BY <2>1 DEF ClosedInv
  <2> QED BY <1>1, <1>2, <2>1, <2>2 DEF FailInv, UndisturbedInv
<1>3. ASSUME ~disturbed, Referenced(ts, removed \cup ts) PROVE "goldenLogs" \in rows
  <2>1. PICK t \in ts, u \in Tables : t \in RefersTo(u) /\ Visible(u, removed \cup ts)
        BY <1>3 DEF Referenced
  <2>2. u \in rows /\ u \notin removed
        BY <1>1, <1>3, <2>1 DEF Visible, FailInv, UndisturbedInv
  <2>3. t \in Statements[i]
        BY DEF Selected
  <2>4. u = "goldenLogs" \/ \E j \in 1 .. 10 : j < i /\ u \in Statements[j]
        BY <1>1, <2>1, <2>3, DependencyOrder
  <2>5. ASSUME NEW j \in 1 .. 10, j < i, u \in Statements[j] PROVE FALSE
        BY <1>1, <1>3, <2>2, <2>5 DEF FailInv, UndisturbedInv
  <2> QED BY <2>2, <2>4, <2>5
<1> HIDE DEF ts, i
<1>4. CASE Referenced(ts, removed \cup ts)
  <2>1. Rollback
        BY <1>4 DEF DeleteRows, ts, i
  <2>2. step' = 0 /\ rows' = rows /\ (failed' <=> failed \/ ~disturbed)
        BY <2>1 DEF Rollback
  <2> QED BY <1>3, <1>4, <2>2 DEF FailInv, UndisturbedInv, DeleteFailsOnlyOnGoldenLogs
<1>5. CASE ~Referenced(ts, removed \cup ts)
  <2>1. /\ removed' = removed \cup ts /\ step' = step + 1 /\ late' = late \ ts
        /\ seen \subseteq seen' /\ UNCHANGED <<rows, disturbed, failed>>
    <3>1. /\ removed' = removed \cup ts /\ step' = step + 1 /\ late' = late \ ts
          /\ seen' = IF Statements[i] = Evaluations THEN seen \cup (rows \cap Logs) ELSE seen
          /\ UNCHANGED <<rows, disturbed, failed>>
          BY <1>5 DEF DeleteRows, observed, ts, i
    <3> QED BY <3>1
  <2>2. ASSUME ~disturbed, NEW j \in 1 .. 10, j + 2 < step + 1
        PROVE  Statements[j] \cap rows \subseteq removed'
    <3>1. CASE j = i
          BY <1>2, <2>1, <2>2, <3>1
    <3>2. CASE j # i
      <4>1. j + 2 < step
            BY <1>1, <2>2, <3>2 DEF i
      <4> QED BY <1>1, <2>1, <2>2, <4>1 DEF FailInv, UndisturbedInv
    <3> QED BY <3>1, <3>2
  <2> QED BY <1>1, <2>1, <2>2 DEF FailInv, UndisturbedInv, DeleteFailsOnlyOnGoldenLogs
<1> QED BY <1>4, <1>5

(* The commit fails on what the statements left, and never succeeds while  *)
(* there is a golden log: its golden item is still there.                  *)
LEMMA FailCommit ==
    ASSUME StepInv, LogsInv, ClosedInv, FailInv, CommitDelete
    PROVE  FailInv'
<1> DEFINE logs == seen \cap FlushedAtCommit
           gone == removed \cup logs
           blocked == Referenced(logs, gone) \/ \E t \in OfDomain : Visible(t, gone)
<1>1. step = 13
      BY CommitIsThirteen DEF CommitDelete
<1>2. ASSUME ~disturbed, NEW u \in rows, u \notin removed PROVE u \in Logs
  <2>1. \A j \in 1 .. 10 : u \notin Statements[j]
        BY <1>1, <1>2 DEF FailInv, UndisturbedInv
  <2>2. u \in DomainTables
        BY <1>2, TablesOK DEF ClosedInv
  <2> QED BY <2>1, <2>2, StatementsAre DEF DomainTables
<1>3. ASSUME blocked, ~disturbed PROVE "goldenLogs" \in rows
  <2>1. ASSUME NEW u \in Tables, Visible(u, gone) PROVE u \in rows /\ u \notin removed
        BY <1>1, <1>3, <2>1 DEF Visible, FailInv, UndisturbedInv
  <2>2. \A t \in OfDomain : ~Visible(t, gone)
        BY <1>2, <1>3, <2>1 DEF OfDomain
  <2>3. PICK t \in logs, u \in Tables : t \in RefersTo(u) /\ Visible(u, gone)
        BY <1>3, <2>2 DEF Referenced
  <2>4. u \in rows /\ u \in Logs
        BY <1>2, <1>3, <2>1, <2>3
  <2>5. RefersTo("liveLogs") = {}
        BY DEF RefersTo
  <2> QED BY <2>3, <2>4, <2>5 DEF Logs
<1>4. ASSUME "goldenLogs" \in rows PROVE blocked
  <2>1. "goldenLogs" \in View
        BY <1>4 DEF View, LogsInv, Logs
  <2>2. "goldenItems" \in View
        BY <2>1 DEF ClosedInv, RefersTo
  <2>3. "goldenItems" \in Tables /\ "goldenItems" \notin Logs \cup Evaluations
        BY <2>2 DEF View, ClosedInv, Logs, Evaluations
  <2>4. Visible("goldenItems", gone)
        BY <2>2, <2>3 DEF View, Visible, FlushedAtCommit
  <2> QED BY <2>3, <2>4 DEF OfDomain
<1>5. CASE blocked
  <2>1. Rollback
        BY <1>5 DEF CommitDelete
  <2>2. step' = 0 /\ rows' = rows /\ (failed' <=> failed \/ ~disturbed)
        BY <2>1 DEF Rollback
  <2> HIDE DEF blocked
  <2> QED BY <1>3, <1>5, <2>2 DEF FailInv, UndisturbedInv, DeleteFailsOnlyOnGoldenLogs
<1>6. CASE ~blocked
  <2>1. step' = 0 /\ failed' = failed
        BY <1>6 DEF CommitDelete, observed
  <2> HIDE DEF blocked
  <2> QED BY <1>4, <1>6, <2>1 DEF FailInv, UndisturbedInv, DeleteFailsOnlyOnGoldenLogs
<1> QED BY <1>5, <1>6

LEMMA FailNext == StepInv /\ LogsInv /\ ClosedInv /\ FailInv /\ [Next]_vars => FailInv'
<1> SUFFICES ASSUME StepInv, LogsInv, ClosedInv, FailInv, [Next]_vars PROVE FailInv'
    OBVIOUS
<1> USE DEF FailInv, UndisturbedInv, DeleteFailsOnlyOnGoldenLogs
<1>1. CASE UNCHANGED vars
      BY <1>1 DEF vars, deletion, observed
<1>2. ASSUME NEW t \in Tables, PassesArchivedCheck(t) \/ WriteFails(t) PROVE FailInv'
      BY <1>2 DEF PassesArchivedCheck, WriteFails, deletion, observed
<1>3. ASSUME NEW t \in Tables, Write(t) PROVE FailInv'
  <2>1. rows \subseteq rows' /\ failed' = failed /\ step' = step /\ (step # 0 => disturbed')
        BY <1>3 DEF Write, CountWrite, deletion
  <2> QED BY <2>1
<1>4. CASE Archive
      BY <1>4 DEF Archive, deletion, observed
<1>5. CASE BeginDelete
  <2>1. step' = 1 /\ late' = {} /\ UNCHANGED <<rows, failed>>
        BY <1>5 DEF BeginDelete
  <2> QED BY <2>1
<1>6. CASE DeleteGraph
  <2>1. step = 1 /\ step' = 2 /\ UNCHANGED <<rows, failed, late, disturbed>>
        BY <1>6 DEF DeleteGraph
  <2> QED BY <2>1
<1>7. CASE ReadIds
  <2>1. /\ step = 2 /\ step' = 3 /\ UNCHANGED <<rows, failed, late, disturbed>>
        /\ seen' = rows \cap {"chunks", "nodes", "edges"}
        BY <1>7 DEF ReadIds, observed
  <2> QED BY <2>1
<1>8. CASE DeleteDies
      BY <1>8 DEF DeleteDies, observed
<1> QED BY <1>1, <1>2, <1>3, <1>4, <1>5, <1>6, <1>7, <1>8, FailDeleteRows, FailCommit DEF Next

(* A deletion during which nothing is written for the domain fails on a    *)
(* foreign key for one reason only, the query logs of golden items: the    *)
(* statements of delete_domain are in dependency order for every other     *)
(* table, and between them reach all of the domain's rows.                 *)
THEOREM DeleteFailsOnlyOnGoldenLogsCorrect == Spec => []DeleteFailsOnlyOnGoldenLogs
<1>1. Init => FailInv
      BY DEF Init, FailInv, UndisturbedInv, DeleteFailsOnlyOnGoldenLogs
<1>2. FailInv => DeleteFailsOnlyOnGoldenLogs
      BY DEF FailInv
<1> QED BY <1>1, <1>2, FailNext, StepInvariant, LogsInvariant, ClosedInvariant, PTL DEF Spec
=============================================================================
