-------------------------- MODULE EvaluationReview --------------------------
(***************************************************************************)
(* The evaluation of one answered query: the judge task of                 *)
(* tasks/pipeline.py and evaluation/service.py against the administrators  *)
(* who override its scores or give a verdict on the answer.  Both sides    *)
(* read the EvaluationResult row, work on what they read, and write back.  *)
(*                                                                         *)
(* The judge writes with one conditional UPDATE.  An administrator's       *)
(* request writes through the ORM: its UPDATE sets the columns whose new   *)
(* value differs from the one the request loaded, and no other.            *)
(***************************************************************************)
EXTENDS Naturals

CONSTANTS
    Runs,     \* executions of evaluate_query_log_task (delivered or redelivered)
    Admins,   \* administrators' requests
    Dims,     \* score dimensions
    Scores,   \* score values
    Null      \* SQL NULL

ASSUME ConstantsOK == Null \notin Scores /\ Null \notin Admins

VARIABLES
    log,        \* "none", "committed", or "sent": also published to the judge
    row,        \* the EvaluationResult row, or Null
    run,        \* what each judge task is doing, with the scores it holds
    review,     \* what each administrator's request is doing, with what it loaded
    archived,   \* the domain is archived
    configured, \* the judge provider is enabled and has its key
    \* observation only: no action reads these
    judged,     \* the scores of the last judge result that was stored
    corrected,  \* some override_evaluation has committed
    late,       \* requests that hold a row loaded before the judge's scores were stored
    missed      \* one of them has committed

vars == <<log, row, run, review, archived, configured, judged, corrected, late, missed>>

----------------------------------------------------------------------------
(* Values.                                                                 *)

ScoreSet == [Dims -> Scores \cup {Null}]
Unscored == [d \in Dims |-> Null]
Terminal == {"completed", "failed", "skipped"}

Row == [status : {"pending"} \cup Terminal, scores : ScoreSet,
        overridden_by : Admins \cup {Null}, original : ScoreSet \cup {Null},
        verdict : BOOLEAN]

ASSUME NullIsNoValue == Null \notin Row /\ Null \notin ScoreSet

(* Mutation: the status column has no default.                             *)
NewRowWithoutStatus == [status |-> Null, scores |-> Unscored, overridden_by |-> Null,
                        original |-> Null, verdict |-> FALSE]
NewRow == [status |-> "pending", scores |-> Unscored, overridden_by |-> Null,
           original |-> Null, verdict |-> FALSE]

Reviewed == row # Null /\ row.overridden_by # Null

Init ==
    /\ log = "none" /\ row = Null
    /\ run = [r \in Runs |-> [pc |-> "idle", scores |-> Unscored]]
    /\ review = [a \in Admins |-> [pc |-> "idle", loaded |-> NewRow]]
    /\ archived = FALSE
    /\ configured \in BOOLEAN
    /\ judged = Null /\ corrected = FALSE
    /\ late = {} /\ missed = FALSE

watchVars == <<judged, corrected, late, missed>>

----------------------------------------------------------------------------
(* answer_query commits the QueryLog row, then publishes the judge task.   *)

CreateQueryLog ==
    /\ log = "none"
    /\ log' = "committed"
    /\ UNCHANGED <<row, run, review, archived, configured, watchVars>>

EnqueueEvaluation ==
    /\ log = "committed"
    /\ log' = "sent"
    /\ UNCHANGED <<row, run, review, archived, configured, watchVars>>

----------------------------------------------------------------------------
(* The judge task.                                                         *)

AtRun(r, phase) == run[r].pc = phase
GoRun(r, phase) == run' = [run EXCEPT ![r].pc = phase]
Judging         == IF configured THEN "judge" ELSE "skip"

(* evaluate_query_log_task looks for the row.  When it finds one,          *)
(* evaluate_query_log reads overridden_by off the same loaded object.      *)
StartRun(r) ==
    /\ log = "sent" /\ AtRun(r, "idle")
    /\ GoRun(r, IF row = Null THEN "insert"
                ELSE IF Reviewed THEN "done" ELSE Judging)
    /\ UNCHANGED <<log, row, review, archived, configured, watchVars>>

InsertRow(r) ==
    /\ AtRun(r, "insert") /\ row = Null
    /\ row' = NewRow
    /\ GoRun(r, "recheck")
    /\ UNCHANGED <<log, review, archived, configured, watchVars>>

(* Someone else inserted the row first: unique query_log_id, the task dies *)
InsertConflict(r) ==
    /\ AtRun(r, "insert") /\ row # Null
    /\ GoRun(r, "died")
    /\ UNCHANGED <<log, row, review, archived, configured, watchVars>>

Recheck(r) ==
    /\ AtRun(r, "recheck")
    /\ GoRun(r, IF Reviewed THEN "done" ELSE Judging)
    /\ UNCHANGED <<log, row, review, archived, configured, watchVars>>

Holding == {a \in Admins : review[a].pc = "loaded"}

(* What the observation keeps of a result that is stored.                  *)
Observe(scores) ==
    IF scores = Null THEN UNCHANGED <<judged, late>> ELSE judged' = scores /\ late' = Holding

(* Mutation: the result is stored without looking at overridden_by.        *)
FinalizeAnyway(r, status, scores) ==
    /\ row' = [row EXCEPT !.status = status, !.scores = IF scores = Null THEN @ ELSE scores]
    /\ Observe(scores)
    /\ GoRun(r, "done")
    /\ UNCHANGED <<log, review, archived, configured, corrected, missed>>

(* _finalize_evaluation: the result is stored only where overridden_by is  *)
(* still NULL when the UPDATE runs.                                        *)
Finalize(r, status, scores) ==
    /\ IF Reviewed
       THEN UNCHANGED <<row, judged, late>>
       ELSE /\ row' = [row EXCEPT !.status = status,
                                  !.scores = IF scores = Null THEN @ ELSE scores]
            /\ Observe(scores)
    /\ GoRun(r, "done")
    /\ UNCHANGED <<log, review, archived, configured, corrected, missed>>

(* Mutation: a disabled or unavailable judge returns without marking.      *)
SkipSilently(r) ==
    /\ AtRun(r, "skip") /\ GoRun(r, "done")
    /\ UNCHANGED <<log, row, review, archived, configured, watchVars>>
FailSilently(r) ==
    /\ AtRun(r, "judge") /\ GoRun(r, "done")
    /\ UNCHANGED <<log, row, review, archived, configured, watchVars>>

MarkSkipped(r) == AtRun(r, "skip") /\ Finalize(r, "skipped", Null)

(* The judge's call returns scores, or raises JudgeUnavailableError.       *)
JudgeAnswers(r) ==
    /\ AtRun(r, "judge")
    /\ \E scores \in [Dims -> Scores] :
          run' = [run EXCEPT ![r] = [pc |-> "record", scores |-> scores]]
    /\ UNCHANGED <<log, row, review, archived, configured, watchVars>>

MarkFailed(r)   == AtRun(r, "judge") /\ Finalize(r, "failed", Null)
RecordScores(r) == AtRun(r, "record") /\ Finalize(r, "completed", run[r].scores)

(* Any other exception, or the death of the worker, ends the task there:   *)
(* a model that cannot be built (judge.py:170-171), the race for the       *)
(* default evaluation configuration, a crash.                              *)
RunDies(r) ==
    /\ run[r].pc \in {"insert", "recheck", "skip", "judge", "record"}
    /\ GoRun(r, "died")
    /\ UNCHANGED <<log, row, review, archived, configured, watchVars>>

Judge(r) ==
    \/ StartRun(r) \/ InsertRow(r) \/ InsertConflict(r) \/ Recheck(r)
    \/ MarkSkipped(r) \/ JudgeAnswers(r) \/ MarkFailed(r) \/ RecordScores(r)

----------------------------------------------------------------------------
(* An administrator's request.                                             *)

(* _authorize_and_load_evaluation_for_review: the row is loaded ...        *)
LoadRow(a) ==
    /\ log # "none" /\ ~archived /\ review[a].pc = "idle"
    /\ review' = [review EXCEPT ![a] =
          IF row = Null THEN [@ EXCEPT !.pc = "insert"]
                        ELSE [pc |-> "loaded", loaded |-> row]]
    /\ UNCHANGED <<log, row, run, archived, configured, watchVars>>

(* ... or created when there is none, and read back after the commit.      *)
CreateRow(a) ==
    /\ review[a].pc = "insert" /\ row = Null
    /\ row' = NewRow
    /\ review' = [review EXCEPT ![a] = [pc |-> "loaded", loaded |-> NewRow]]
    /\ UNCHANGED <<log, run, archived, configured, watchVars>>

(* The insert loses to another one, or the request dies before its commit. *)
RequestFails(a) ==
    /\ \/ review[a].pc = "insert" /\ row # Null
       \/ review[a].pc = "loaded"
    /\ review' = [review EXCEPT ![a].pc = "idle"] /\ late' = late \ {a}
    /\ UNCHANGED <<log, row, run, archived, configured, judged, corrected, missed>>

(* What the ORM's UPDATE leaves in a column.                               *)
Written(new, loaded, stored) == IF new # loaded THEN new ELSE stored

(* Mutation: every human action takes a new snapshot.                      *)
SnapshotAlways(a) == review[a].loaded.scores

(* _snapshot_original_scores_once, on the loaded object.                   *)
Snapshot(a) ==
    IF review[a].loaded.overridden_by = Null THEN review[a].loaded.scores
                                             ELSE review[a].loaded.original

(* The columns both human actions write.                                   *)
Signed(a) ==
    LET seen == review[a].loaded
    IN  [row EXCEPT !.original      = Written(Snapshot(a), seen.original, @),
                    !.overridden_by = Written(a, seen.overridden_by, @)]

HumanCommit(a) ==
    /\ review[a].pc = "loaded"
    /\ review' = [review EXCEPT ![a].pc = "idle"]
    /\ late' = late \ {a} /\ missed' = (missed \/ a \in late)
    /\ UNCHANGED <<log, run, archived, configured, judged>>

Override(a, scores) ==
    /\ HumanCommit(a)
    /\ row' = [Signed(a) EXCEPT
                 !.scores = [d \in Dims |->
                     Written(scores[d], review[a].loaded.scores[d], row.scores[d])],
                 !.status = Written("completed", review[a].loaded.status, @)]
    /\ corrected' = TRUE

(* Mutation: a verdict also completes the evaluation.                      *)
SetVerdictCompletes(a) ==
    /\ HumanCommit(a)
    /\ row' = [Signed(a) EXCEPT !.verdict = TRUE, !.status = "completed"]
    /\ UNCHANGED corrected

SetVerdict(a) ==
    /\ HumanCommit(a)
    /\ row' = [Signed(a) EXCEPT !.verdict = TRUE]
    /\ UNCHANGED corrected

ArchiveDomain ==
    /\ ~archived
    /\ archived' = TRUE
    /\ UNCHANGED <<log, row, run, review, configured, watchVars>>

Admin(a) ==
    \/ LoadRow(a) \/ CreateRow(a) \/ RequestFails(a) \/ SetVerdict(a)
    \/ \E scores \in [Dims -> Scores] : Override(a, scores)

----------------------------------------------------------------------------
(* The specification.                                                      *)

Next ==
    \/ CreateQueryLog \/ EnqueueEvaluation \/ ArchiveDomain
    \/ \E r \in Runs : Judge(r) \/ RunDies(r)
    \/ \E a \in Admins : Admin(a)

(* The worker runs a published task to its end; administrators may act or  *)
(* not.                                                                    *)
Fairness == WF_vars(EnqueueEvaluation) /\ \A r \in Runs : WF_vars(Judge(r))

Spec     == Init /\ [][Next]_vars
FairSpec == Spec /\ Fairness

----------------------------------------------------------------------------
(* Properties.                                                             *)

(* The shape of the state.                                                 *)
TypeOK ==
    /\ log \in {"none", "committed", "sent"}
    /\ row \in Row \cup {Null}
    /\ run \in [Runs -> [pc : {"idle", "insert", "recheck", "skip", "judge",
                               "record", "done", "died"},
                         scores : ScoreSet]]
    /\ review \in [Admins -> [pc : {"idle", "insert", "loaded"}, loaded : Row]]
    /\ archived \in BOOLEAN /\ configured \in BOOLEAN /\ corrected \in BOOLEAN
    /\ judged \in ScoreSet \cup {Null} /\ late \subseteq Admins /\ missed \in BOOLEAN

(* Once a human has acted no judge task changes the row any more, however  *)
(* long before that the task made its own check of overridden_by           *)
(* (evaluation/service.py:170-179).                                        *)
HumanIsFinal ==
    [][\A r \in Runs : Reviewed /\ run'[r] # run[r] => row' = row]_vars

(* A row says "completed" only with a score in every dimension, although   *)
(* an override writes just the columns that differ from what it loaded.    *)
CompletedIsScored ==
    row # Null /\ row.status = "completed" => \A d \in Dims : row.scores[d] # Null

(* A corrected row is "completed" and stays so, whatever the judge does    *)
(* before, between or after the load and the commit of the correction.     *)
CorrectedIsCompleted == corrected => row.status = "completed"

(* Once a human has acted, original_scores holds what the judge had stored *)
(* by then, empty before it stored any, through any number of later        *)
(* overrides and verdicts (evaluation/service.py:278-284) - unless one of  *)
(* the requests held a row loaded before the judge stored its scores: its  *)
(* commit leaves an empty snapshot, or replaces the right one by it, and   *)
(* the judge's scores may be lost.  evaluation_result.py:18-19, "preserves *)
(* the judge's own call underneath it", does not hold of that request.     *)
BaselineIsTheJudges ==
    row # Null /\ row.original # Null =>
        \/ row.original = IF judged = Null THEN Unscored ELSE judged
        \/ missed /\ row.original = Unscored

(* A judge task that returns leaves a terminal row, except behind a        *)
(* human's back: then the human has already touched the row.               *)
ReturnedRunSettles ==
    \A r \in Runs : AtRun(r, "done") =>
        row # Null /\ (row.status \in Terminal \/ Reviewed)

(* Every answered query gets its evaluation row, and the row a terminal    *)
(* status, unless a human acts on it or the task dies.                     *)
AnswerIsEvaluated ==
    log = "committed" ~> \/ row # Null /\ row.status \in Terminal
                         \/ Reviewed
                         \/ \E r \in Runs : AtRun(r, "died")

(* pipeline.py:186-187: "hands off to evaluate_query_log, which does the   *)
(* actual judge call and always leaves the row at a terminal status".      *)
AlwaysTerminal == \A r \in Runs : AtRun(r, "done") => row.status \in Terminal
=============================================================================
