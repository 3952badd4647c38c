-------------------------- MODULE IngestionConfig --------------------------
(***************************************************************************)
(* A domain's chunking configuration row under concurrent edits:           *)
(* update_ingestion_config of chunking/service.py.  The request validates  *)
(* the pair of values it was given; the ORM then updates, of the row it    *)
(* loaded, only the columns whose value changed.  The re-indexing it       *)
(* triggers is the subject of IngestionPipeline.                           *)
(***************************************************************************)
EXTENDS Naturals

CONSTANTS
    Admins,   \* concurrent PUT requests
    MaxValue, \* bound: both configuration values
    Null

VARIABLES
    row,      \* the configuration row, or Null
    request,  \* each request: its step, the values asked for, the row it loaded
    archived  \* the domain is archived

vars == <<row, request, archived>>

Config  == [perChunk : 1 .. MaxValue, overlap : 0 .. MaxValue]
Default == [perChunk |-> 2, overlap |-> 1]

Init ==
    /\ row = Null
    /\ request = [a \in Admins |-> [pc |-> "idle", new |-> Default, loaded |-> Default]]
    /\ archived = FALSE

Accepts(new) == ~(new.overlap >= new.perChunk)

(* raise_if_archived, then the check of the two values against each other. *)
Validate(a) ==
    /\ request[a].pc = "idle" /\ ~archived
    /\ \E new \in Config :
          /\ Accepts(new)
          /\ request' = [request EXCEPT ![a].pc = "load", ![a].new = new]
    /\ UNCHANGED <<row, archived>>

(* get_or_create_ingestion_config.                                         *)
Load(a) ==
    /\ request[a].pc = "load"
    /\ request' = [request EXCEPT ![a] =
          IF row = Null THEN [@ EXCEPT !.pc = "create"]
                        ELSE [@ EXCEPT !.pc = "loaded", !.loaded = row]]
    /\ UNCHANGED <<row, archived>>

Create(a) ==
    /\ request[a].pc = "create" /\ row = Null
    /\ row' = Default
    /\ request' = [request EXCEPT ![a].pc = "loaded", ![a].loaded = Default]
    /\ UNCHANGED archived

(* The unique constraint on domain_id rejects the second insert.           *)
CreateConflict(a) ==
    /\ request[a].pc = "create" /\ row # Null
    /\ request' = [request EXCEPT ![a].pc = "idle"]
    /\ UNCHANGED <<row, archived>>

(* What the ORM's UPDATE leaves in a column.                               *)
Written(new, loaded, stored) == IF new # loaded THEN new ELSE stored

Commit(a) ==
    LET new == request[a].new  old == request[a].loaded
    IN  /\ request[a].pc = "loaded"
        /\ row' = [perChunk |-> Written(new.perChunk, old.perChunk, row.perChunk),
                   overlap  |-> Written(new.overlap, old.overlap, row.overlap)]
        /\ request' = [request EXCEPT ![a].pc = "idle"]
        /\ UNCHANGED archived

ArchiveDomain ==
    /\ ~archived
    /\ archived' = TRUE
    /\ UNCHANGED <<row, request>>

Next ==
    \/ \E a \in Admins : Validate(a) \/ Load(a) \/ Create(a) \/ CreateConflict(a) \/ Commit(a)
    \/ ArchiveDomain

Spec == Init /\ [][Next]_vars

----------------------------------------------------------------------------
(* Properties.                                                             *)

(* The stored overlap is below the stored group size.  chunking/models.py, *)
(* lines 28-30: "overlap must be < paragraphs_per_chunk ... that rule      *)
(* spans both fields together".  group_paragraphs raises on a row that     *)
(* breaks it, so no text of the domain can be chunked any more.            *)
OverlapBelowGroup == row # Null => row.overlap < row.perChunk
=============================================================================
