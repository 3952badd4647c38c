------------------------- MODULE DocumentLifecycle -------------------------
(***************************************************************************)
(* What the ingestion of a domain promises to those who read it: the list  *)
(* of documents with their status (documents.status, entities/enums.py)    *)
(* and the chunks the retrievers may return.  No queue, no worker, no      *)
(* request: IngestionPipeline is shown to implement this.                  *)
(***************************************************************************)
EXTENDS Integers

CONSTANTS
    Docs,        \* documents that may be uploaded to the domain
    MaxRevision  \* bound: configuration edits

VARIABLES
    gone,    \* the domain is deleted
    latest,  \* revision of the configuration, -1 before there is one
    phase,   \* what a client sees of each document
    serves   \* revisions whose chunks of each document are retrievable

vars == <<gone, latest, phase, serves>>

Init ==
    /\ gone = FALSE /\ latest = -1
    /\ phase = [d \in Docs |-> "absent"]
    /\ serves = [d \in Docs |-> {}]

Accept(d) ==
    /\ ~gone /\ phase[d] = "absent"
    /\ phase' = [phase EXCEPT ![d] = "working"]
    /\ UNCHANGED <<gone, latest, serves>>

Fail(d) ==
    /\ phase[d] = "working"
    /\ phase' = [phase EXCEPT ![d] = "failed"]
    /\ UNCHANGED <<gone, latest, serves>>

(* A document without content has nothing to serve.                        *)
ServeEmpty(d) ==
    /\ phase[d] = "working"
    /\ phase' = [phase EXCEPT ![d] = "served"]
    /\ UNCHANGED <<gone, latest, serves>>

Serve(d) ==
    /\ phase[d] = "working"
    /\ phase' = [phase EXCEPT ![d] = "served"]
    /\ \E r \in 0 .. latest : serves' = [serves EXCEPT ![d] = {r}]
    /\ UNCHANGED <<gone, latest>>

(* Re-chunking replaces what is served as a whole, and never by something  *)
(* older.                                                                  *)
Refresh(d) ==
    /\ phase[d] = "served"
    /\ \E old, new \in 0 .. latest :
          /\ serves[d] = {old} /\ old <= new
          /\ serves' = [serves EXCEPT ![d] = {new}]
    /\ UNCHANGED <<gone, latest, phase>>

Configure ==
    /\ ~gone /\ latest < MaxRevision
    /\ latest' = latest + 1
    /\ UNCHANGED <<gone, phase, serves>>

(* The domain goes with all its documents at once, and none comes back.    *)
Drop ==
    /\ ~gone
    /\ gone' = TRUE /\ latest' = -1
    /\ phase' = [d \in Docs |-> "absent"]
    /\ serves' = [d \in Docs |-> {}]

Next ==
    \/ \E d \in Docs : Accept(d) \/ Fail(d) \/ ServeEmpty(d) \/ Serve(d) \/ Refresh(d)
    \/ Configure \/ Drop

Spec == Init /\ [][Next]_vars
=============================================================================
