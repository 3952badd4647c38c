--------------------------- MODULE DomainDeletion ---------------------------
(***************************************************************************)
(* The end of a domain: archive_domain and delete_domain of                *)
(* domains/service.py against everything that writes rows for the domain.  *)
(*                                                                         *)
(* A table is in `rows` when it holds committed rows of the domain.  One   *)
(* transaction deletes table after table; other transactions go on, at     *)
(* READ COMMITTED.  A foreign key makes the deletion of a table fail while *)
(* rows refer to it, and makes an insert wait for a transaction that has   *)
(* deleted what the new row would refer to.                                *)
(***************************************************************************)
EXTENDS Naturals, Sequences, FiniteSets

CONSTANTS
    Tables,    \* the tables of the instance
    MaxWrites  \* bound: rows written once the deletion has begun

(* Foreign keys between domain-scoped tables (all but the logs and what    *)
(* hangs on them also refer to the domain itself).                         *)
RefersTo(t) ==
    CASE t = "chunks"            -> {"documents"}
      [] t = "edges"             -> {"nodes"}
      [] t = "nodeLinks"         -> {"chunks", "nodes"}
      [] t = "edgeLinks"         -> {"chunks", "edges"}
      [] t = "evaluations"       -> {"liveLogs"}
      [] t = "goldenEvaluations" -> {"goldenLogs"}
      [] t = "goldenLogs"        -> {"goldenItems"}
      [] OTHER                   -> {}

Logs         == {"liveLogs", "goldenLogs"}
Evaluations  == {"evaluations", "goldenEvaluations"}
OfDomain     == Tables \ (Logs \cup Evaluations)

(* Requests that write these check raise_if_archived, then commit later;   *)
(* the Celery tasks that write the others never look at the flag.          *)
Guarded == Tables \cap {"documents", "goldenItems", "ontology", "configs", "roles",
                        "liveLogs", "goldenLogs"}

(* The tables with rows of a domain; the three configurations are one, and *)
(* the query logs are two: those of users and those of golden runs.        *)
DomainTables == {"documents", "chunks", "nodes", "edges", "nodeLinks", "edgeLinks", "ontology",
                 "configs", "roles", "goldenItems"} \cup Logs \cup Evaluations

ASSUME TablesOK ==
    /\ Tables \subseteq DomainTables
    /\ \A t \in Tables : RefersTo(t) \subseteq Tables
    /\ MaxWrites \in Nat

VARIABLES
    domain,    \* "active", "archived" or "deleted"
    rows,      \* tables with committed rows of the domain
    checked,   \* guarded tables a request is about to write to
    files,     \* files of the domain's documents are in MinIO
    entities,  \* nodes of the domain are in Neo4j
    step,      \* 0, or where the deletion stands
    seen,      \* tables of which the deletion has read the ids
    removed,   \* tables it has deleted, not yet committed
    late,      \* tables that got rows after it had deleted them
    \* observation only, except the bound
    disturbed, \* rows were written since the deletion began
    failed,    \* a deletion ended in an error that nothing disturbed
    lateLogs,  \* logs written after the deletion listed them
    leftover,  \* a store was left as it was: a logged error, or a racing write
    writes

vars == <<domain, rows, checked, files, entities, step, seen, removed, late,
          disturbed, failed, lateLogs, leftover, writes>>

external == <<files, entities>>
deletion == <<step, seen, removed>>
observed == <<failed, lateLogs, leftover>>

(* create_domain: the row, with the creator's role.                        *)
Init ==
    /\ domain = "active" /\ rows = {"roles"} \cap Tables /\ checked = {}
    /\ files = FALSE /\ entities = FALSE
    /\ step = 0 /\ seen = {} /\ removed = {} /\ late = {}
    /\ disturbed = FALSE /\ failed = FALSE /\ lateLogs = {} /\ leftover = FALSE /\ writes = 0

----------------------------------------------------------------------------
(* Writers.                                                                *)

Exists == domain # "deleted"

(* raise_if_archived of a write path.                                      *)
PassesArchivedCheck(t) ==
    /\ domain = "active" /\ t \in Guarded \ checked
    /\ checked' = checked \cup {t}
    /\ UNCHANGED <<domain, rows, external, deletion, late, disturbed, observed, writes>>

(* What the open transaction has deleted or will, whatever is added now.   *)
Doomed == removed \cup (seen \cap Logs)

(* The step at which it lists the query logs.                              *)
LogsListed == 7

(* What the rows of a new row's foreign keys must be: committed, and not   *)
(* deleted by the open transaction (else the insert waits for its end).    *)
Referable(t) == t \in rows /\ (t \in removed => t \in late)

CountWrite ==
    IF step = 0 THEN UNCHANGED <<disturbed, writes>>
    ELSE writes < MaxWrites /\ writes' = writes + 1 /\ disturbed' = TRUE

(* A commit that adds rows to a table.  An upload puts its file first.     *)
Write(t) ==
    /\ t \in Guarded => t \in checked
    /\ \A u \in RefersTo(t) : Referable(u)
    /\ t \in OfDomain => Exists
    /\ \/ t \notin rows
       \/ t \in Doomed \ late
    /\ rows' = rows \cup {t}
    /\ late' = late \cup ({t} \cap Doomed)
    /\ lateLogs' = IF t \in Logs /\ (~Exists \/ step > LogsListed) THEN lateLogs \cup {t} ELSE lateLogs
    /\ checked' = checked \ {t}
    /\ files' = (files \/ t = "documents")
    /\ entities' = (entities \/ t = "nodes")
    /\ leftover' = (leftover \/ (step # 0 /\ t \in {"documents", "nodes"}))
    /\ CountWrite
    /\ UNCHANGED <<domain, deletion, failed>>

(* A request that was checked and fails, for one because the domain went;  *)
(* an upload may have stored its file by then, and nothing removes it.     *)
WriteFails(t) ==
    /\ t \in checked
    /\ checked' = checked \ {t}
    /\ \/ UNCHANGED <<files, leftover>>
       \/ t = "documents" /\ files' = TRUE /\ leftover' = TRUE
    /\ UNCHANGED <<domain, rows, entities, deletion, late, disturbed, failed, lateLogs, writes>>

----------------------------------------------------------------------------
(* archive_domain and delete_domain.                                       *)

Archive ==
    /\ domain = "active"
    /\ domain' = "archived"
    /\ UNCHANGED <<rows, checked, external, deletion, late, disturbed, observed, writes>>

Archived == domain = "archived"

(* Mutation: the safety rail is not tested.                                *)
BeginDeleteAnyway ==
    /\ step = 0 /\ Exists
    /\ step' = 1 /\ removed' = {} /\ seen' = {} /\ late' = {} /\ disturbed' = FALSE
    /\ \/ files' = FALSE /\ UNCHANGED leftover
       \/ files' = files /\ leftover' = (leftover \/ files)
    /\ UNCHANGED <<domain, rows, checked, entities, failed, lateLogs, writes>>

(* The stored files of the documents go first; an error is only logged,    *)
(* and a file without a row is not found.                                  *)
BeginDelete ==
    /\ step = 0 /\ Archived
    /\ step' = 1 /\ removed' = {} /\ seen' = {} /\ late' = {} /\ disturbed' = FALSE
    /\ \/ files' = (files /\ "documents" \notin rows) /\ UNCHANGED leftover
       \/ files' = files /\ leftover' = (leftover \/ files)
    /\ UNCHANGED <<domain, rows, checked, entities, failed, lateLogs, writes>>

(* Mutation: the graph is forgotten.                                       *)
ForgetGraph ==
    /\ step = 1
    /\ step' = 2
    /\ UNCHANGED <<domain, rows, checked, external, seen, removed, late, disturbed, observed, writes>>

DeleteGraph ==
    /\ step = 1
    /\ step' = 2
    /\ \/ entities' = FALSE /\ UNCHANGED leftover
       \/ entities' = entities /\ leftover' = (leftover \/ entities)
    /\ UNCHANGED <<domain, rows, checked, files, seen, removed, late, disturbed, failed, lateLogs, writes>>

ReadIds ==
    /\ step = 2
    /\ step' = 3 /\ seen' = rows \cap {"chunks", "nodes", "edges"}
    /\ UNCHANGED <<domain, rows, checked, external, removed, late, disturbed, observed, writes>>

(* Mutation: documents before the chunks that refer to them.               *)
DocumentsFirst ==
    <<{"nodeLinks", "edgeLinks"}, {"edges"}, {"nodes"}, {"documents"}, {"chunks"}, Evaluations,
      {"goldenItems"}, {"ontology"}, {"configs"}, {"roles"}>>

(* Mutation: the evaluations are not deleted.                              *)
KeepEvaluations ==
    <<{"nodeLinks", "edgeLinks"}, {"edges"}, {"nodes"}, {"chunks"}, {},
      {"goldenItems"}, {"ontology"}, {"configs"}, {"documents"}, {"roles"}>>

(* The bulk DELETEs in their order; each runs at once.                     *)
Statements ==
    <<{"nodeLinks", "edgeLinks"}, {"edges"}, {"nodes"}, {"chunks"}, Evaluations,
      {"goldenItems"}, {"ontology"}, {"configs"}, {"documents"}, {"roles"}>>

(* db.delete of the query logs and of the domain: with autoflush=False     *)
(* they reach the database at the commit, after every bulk DELETE.         *)
FlushedAtCommit == Logs

Commit == 3 + Len(Statements)  \* the step after the last of them

(* Links are deleted by the ids read before, evaluations of the logs read  *)
(* just before.                                                            *)
Selected(i) ==
    {t \in Statements[i] \cap rows :
        t \in {"nodeLinks", "edgeLinks"} => RefersTo(t) \cap seen # {}}

(* Rows of t in the transaction's view while it has deleted `gone`.        *)
Visible(t, gone) == t \in rows /\ (t \in gone => t \in late)

Referenced(ts, gone) ==
    \E t \in ts : \E u \in Tables : t \in RefersTo(u) /\ Visible(u, gone)

Rollback ==
    /\ step' = 0 /\ removed' = {} /\ seen' = {} /\ late' = {}
    /\ failed' = (failed \/ ~disturbed)
    /\ disturbed' = FALSE
    /\ UNCHANGED <<domain, rows, checked, external, lateLogs, leftover, writes>>

DeleteRows ==
    /\ step \in 3 .. Commit - 1
    /\ LET gone == removed \cup Selected(step - 2)
       IN  IF Referenced(Selected(step - 2), gone)
           THEN Rollback
           ELSE /\ removed' = gone /\ step' = step + 1
                /\ late' = late \ Selected(step - 2)
                \* the logs to delete are read with their evaluations
                /\ seen' = IF Statements[step - 2] = Evaluations
                           THEN seen \cup (rows \cap Logs) ELSE seen
                /\ UNCHANGED <<domain, rows, checked, external, disturbed, observed, writes>>

(* The flush: query logs, then the domain row; rows that still refer to    *)
(* either make it fail.                                                    *)
CommitDelete ==
    /\ step = Commit
    /\ LET gone == removed \cup (seen \cap FlushedAtCommit)
       IN  IF Referenced(seen \cap FlushedAtCommit, gone) \/ \E t \in OfDomain : Visible(t, gone)
           THEN Rollback
           ELSE /\ rows' = (rows \ gone) \cup late
                /\ domain' = "deleted"
                /\ step' = 0 /\ removed' = {} /\ seen' = {} /\ late' = {}
                /\ UNCHANGED <<checked, external, disturbed, observed, writes>>

(* The process dies before the commit.                                     *)
DeleteDies ==
    /\ step > 0 /\ writes < MaxWrites /\ writes' = writes + 1
    /\ step' = 0 /\ removed' = {} /\ seen' = {} /\ late' = {} /\ disturbed' = FALSE
    /\ UNCHANGED <<domain, rows, checked, external, observed>>

----------------------------------------------------------------------------
Next ==
    \/ \E t \in Tables : PassesArchivedCheck(t) \/ Write(t) \/ WriteFails(t)
    \/ Archive \/ BeginDelete \/ DeleteGraph \/ ReadIds \/ DeleteRows \/ CommitDelete
    \/ DeleteDies

Spec == Init /\ [][Next]_vars

(* A deletion that has begun runs to its end, and one that failed is       *)
(* asked for again; requests in flight come to theirs.                     *)
Fairness ==
    /\ WF_vars(BeginDelete) /\ WF_vars(DeleteGraph) /\ WF_vars(ReadIds)
    /\ WF_vars(DeleteRows) /\ WF_vars(CommitDelete)

FairSpec == Spec /\ Fairness

----------------------------------------------------------------------------
(* Properties.                                                             *)

(* The shape of the state, and every committed row's references.           *)
TypeOK ==
    /\ domain \in {"active", "archived", "deleted"}
    /\ rows \subseteq Tables /\ checked \subseteq Guarded
    /\ step \in 0 .. Commit /\ removed \subseteq Tables /\ late \subseteq rows
    /\ \A t \in rows : RefersTo(t) \subseteq rows
    /\ writes \in 0 .. MaxWrites

(* delete_domain's comment: every table is cleared "in dependency order".  *)
(* So a deletion during which nothing is written for the domain does not   *)
(* fail on a foreign key ...                                               *)
UndisturbedDeleteSucceeds == ~failed

(* ... and it does not unless the golden items have been run: their query  *)
(* logs are the exception.                                                 *)
DeleteFailsOnlyOnGoldenLogs == failed => "goldenLogs" \in rows

(* After the deletion no row refers to the domain, and of its query logs   *)
(* only those remain that were answered after the deletion listed them.    *)
GoneMeansGone ==
    domain = "deleted" =>
        /\ rows \cap OfDomain = {}
        /\ rows \cap Logs \subseteq lateLogs

(* Only an archived domain loses its files or its graph to a deletion that *)
(* fails later: users of an active one never see a document whose file has *)
(* gone, or entities without their graph.                                  *)
ActiveHasItsStores ==
    domain = "active" => ("documents" \in rows => files) /\ ("nodes" \in rows => entities)

(* When the domain has gone, so have its files and its graph, unless an    *)
(* error was logged or something was written while it was deleted.         *)
StoresAreEmptied == domain = "deleted" /\ ~leftover => ~files /\ ~entities

(* An archived domain goes in the end when its deletion is asked for until *)
(* it succeeds, unless golden items have been run.                         *)
ArchivedGoes == domain = "archived" ~> (domain = "deleted" \/ "goldenLogs" \in rows)
=============================================================================
