----------------------- MODULE EvaluationReview_proofs -----------------------
(***************************************************************************)
(* The judge and the administrators, for all sets of tasks, requests,      *)
(* dimensions and scores.                                                  *)
(***************************************************************************)
EXTENDS EvaluationReview, TLAPS

(* A task past its first statement, and a request past its load, have a    *)
(* row.                                                                    *)
RowExists ==
    /\ \A r \in Runs : run[r].pc \in {"recheck", "skip", "judge", "record", "done"} => row # Null
    /\ \A a \in Admins : review[a].pc = "loaded" => row # Null

(* What a task is about to record has every score.                         *)
RecordsScores == \A r \in Runs : run[r].pc = "record" => run[r].scores \in [Dims -> Scores]

(* A score that was loaded has not been taken away since.                  *)
ScoresStay ==
    \A a \in Admins : review[a].pc = "loaded" =>
        \A d \in Dims : review[a].loaded.scores[d] # Null => row.scores[d] # Null

(* What an administrator loaded is past what was stored then.              *)
LoadedScored ==
    \A a \in Admins : review[a].pc = "loaded" /\ review[a].loaded.status = "completed" =>
        \A d \in Dims : review[a].loaded.scores[d] # Null

ScoredInv ==
    TypeOK /\ RowExists /\ RecordsScores /\ ScoresStay /\ LoadedScored /\ CompletedIsScored

----------------------------------------------------------------------------
(* Type correctness.                                                       *)

LEMMA NewRowIsRow == NewRow \in Row /\ NewRow # Null
<1>1. Unscored \in ScoreSet
      BY DEF Unscored, ScoreSet
<1>2. NewRow \in Row
      BY <1>1 DEF NewRow, Row
<1> QED BY <1>2, NullIsNoValue

LEMMA FinalizeKeepsRow ==
    ASSUME TypeOK, NEW r \in Runs, NEW status \in Terminal, NEW scores \in ScoreSet \cup {Null},
           row # Null, Finalize(r, status, scores)
    PROVE  row' \in Row /\ judged' \in ScoreSet \cup {Null} /\ late' \subseteq Admins
<1>1. row \in Row
      BY DEF TypeOK
<1>2. ASSUME ~Reviewed
      PROVE  row' = [row EXCEPT !.status = status, !.scores = IF scores = Null THEN row.scores ELSE scores]
      BY <1>2, <1>1 DEF Finalize, Row
<1>3. (IF scores = Null THEN row.scores ELSE scores) \in ScoreSet
      BY <1>1 DEF Row
<1>4. ASSUME ~Reviewed PROVE row' \in Row
      BY <1>1, <1>2, <1>3, <1>4 DEF Row
<1>5. ASSUME Reviewed PROVE row' = row /\ judged' = judged
      BY <1>5 DEF Finalize
<1>6. judged' \in ScoreSet \cup {Null} /\ late' \subseteq Admins
      BY DEF Finalize, Observe, Holding, TypeOK
<1> QED BY <1>1, <1>4, <1>5, <1>6

LEMMA SignedIsRow ==
    ASSUME TypeOK, NEW a \in Admins, row # Null
    PROVE  Signed(a) \in Row /\ Signed(a).status = row.status /\ Signed(a).scores = row.scores
BY DEF TypeOK, Signed, Snapshot, Written, Row

LEMMA OverrideKeepsRow ==
    ASSUME TypeOK, NEW a \in Admins, NEW scores \in [Dims -> Scores], row # Null, Override(a, scores)
    PROVE  row' \in Row
<1>1. Signed(a) \in Row
      BY SignedIsRow
<1>2. [d \in Dims |-> Written(scores[d], review[a].loaded.scores[d], row.scores[d])] \in ScoreSet
      BY DEF TypeOK, Written, Row, ScoreSet
<1>3. Written("completed", review[a].loaded.status, Signed(a).status) \in {"pending"} \cup Terminal
      BY <1>1 DEF Written, Row, Terminal
<1> QED BY <1>1, <1>2, <1>3 DEF Override, Row

----------------------------------------------------------------------------
(* What moves a task or a request and leaves the row alone.                *)

Phases == {"idle", "insert", "recheck", "skip", "judge", "record", "done", "died"}

LEMMA TaskMoves ==
    ASSUME ScoredInv, NEW r \in Runs, NEW phase \in Phases \ {"record"}, GoRun(r, phase),
           row # Null \/ phase \in {"idle", "insert", "died"},
           UNCHANGED <<log, row, review, archived, configured, watchVars>>
    PROVE  ScoredInv'
<1> USE DEF ScoredInv
<1>1. run' = [run EXCEPT ![r].pc = phase] /\ run \in [Runs -> [pc : Phases, scores : ScoreSet]]
      BY DEF GoRun, TypeOK, Phases
<1>2. /\ \A t \in Runs : t # r => run'[t] = run[t]
      /\ run'[r].pc = phase
      /\ run' \in [Runs -> [pc : Phases, scores : ScoreSet]]
      BY <1>1
<1>3. TypeOK'
      BY <1>2 DEF TypeOK, watchVars, Phases
<1>4. RowExists' /\ RecordsScores'
      BY <1>2 DEF RowExists, RecordsScores
<1>5. ScoresStay' /\ LoadedScored' /\ CompletedIsScored'
      BY DEF ScoresStay, LoadedScored, CompletedIsScored
<1> QED BY <1>3, <1>4, <1>5

LEMMA RequestMoves ==
    ASSUME ScoredInv, NEW a \in Admins, NEW seen,
           review' = [review EXCEPT ![a] = seen],
           seen \in [pc : {"idle", "insert"}, loaded : Row] \/ (row # Null /\ seen = [pc |-> "loaded", loaded |-> row]),
           late' \subseteq late,
           UNCHANGED <<log, row, run, archived, configured, judged, corrected, missed>>
    PROVE  ScoredInv'
<1> USE DEF ScoredInv
<1>1. review \in [Admins -> [pc : {"idle", "insert", "loaded"}, loaded : Row]]
      BY DEF TypeOK
<1>2. seen \in [pc : {"idle", "insert", "loaded"}, loaded : Row]
      BY DEF TypeOK
<1>3. /\ \A t \in Admins : t # a => review'[t] = review[t]
      /\ review'[a] = seen
      /\ review' \in [Admins -> [pc : {"idle", "insert", "loaded"}, loaded : Row]]
      BY <1>1, <1>2
<1>4. TypeOK'
      BY <1>3 DEF TypeOK, watchVars
<1>5. RowExists' /\ RecordsScores'
      BY <1>3 DEF RowExists, RecordsScores
<1>6. ScoresStay' /\ LoadedScored' /\ CompletedIsScored'
      BY <1>3 DEF ScoresStay, LoadedScored, CompletedIsScored
<1> QED BY <1>4, <1>5, <1>6

----------------------------------------------------------------------------
(* The three ways of storing a result.                                     *)

LEMMA FinalizeKeepsInv ==
    ASSUME ScoredInv, NEW r \in Runs, NEW status \in Terminal, NEW scores \in [Dims -> Scores] \cup {Null},
           row # Null, Finalize(r, status, scores),
           status = "completed" => scores \in [Dims -> Scores]
    PROVE  ScoredInv'
<1> USE DEF ScoredInv
<1>0. scores \in ScoreSet \cup {Null} /\ (scores # Null => scores \in [Dims -> Scores])
      BY DEF ScoreSet
<1>1. row' \in Row /\ judged' \in ScoreSet \cup {Null} /\ late' \subseteq Admins
      BY <1>0, FinalizeKeepsRow
<1>2. row' # Null
      BY <1>1, NullIsNoValue
<1>3. run' = [run EXCEPT ![r].pc = "done"] /\ UNCHANGED <<log, review, archived, configured, corrected, missed>>
      BY DEF Finalize, GoRun
<1>4. TypeOK'
      BY <1>1, <1>3 DEF TypeOK
<1>5. RowExists' /\ RecordsScores'
      BY <1>2, <1>3 DEF RowExists, RecordsScores, TypeOK
<1>6. CASE Reviewed
  <2>1. row' = row
        BY <1>6 DEF Finalize
  <2> QED BY <1>3, <1>4, <1>5, <2>1 DEF ScoresStay, LoadedScored, CompletedIsScored
<1>7. CASE ~Reviewed
  <2>1. row \in Row
        BY DEF TypeOK
  <2>2. row'.status = status /\ row'.scores = IF scores = Null THEN row.scores ELSE scores
        BY <1>7, <2>1 DEF Finalize, Row
  <2>3. scores # Null => row'.scores = scores /\ \A d \in Dims : scores[d] # Null
        BY <1>0, <2>2, ConstantsOK
  <2>4. status = "completed" => scores # Null
        BY NullIsNoValue DEF ScoreSet
  <2>5. CompletedIsScored'
        BY <2>2, <2>3, <2>4 DEF CompletedIsScored
  <2>6. \A d \in Dims : row.scores[d] # Null => row'.scores[d] # Null
        BY <2>2, <2>3
  <2>7. ScoresStay' /\ LoadedScored'
        BY <1>3, <2>6 DEF ScoresStay, LoadedScored
  <2> QED BY <1>4, <1>5, <2>5, <2>7
<1> QED BY <1>6, <1>7

LEMMA OverrideKeepsInv ==
    ASSUME ScoredInv, NEW a \in Admins, NEW scores \in [Dims -> Scores], Override(a, scores)
    PROVE  ScoredInv'
<1> USE DEF ScoredInv
<1>1. /\ review[a].pc = "loaded" /\ row # Null
      /\ review' = [review EXCEPT ![a].pc = "idle"]
      /\ UNCHANGED <<log, run, archived, configured, judged>> /\ corrected' = TRUE
      /\ late' \subseteq Admins /\ missed' \in BOOLEAN
      BY DEF Override, HumanCommit, RowExists, TypeOK
<1>2. row \in Row /\ review[a].loaded \in Row
      BY <1>1 DEF TypeOK
<1>3. row' \in Row /\ row' # Null
      BY <1>1, OverrideKeepsRow, NullIsNoValue
<1>4. \A t \in Admins : t # a => review'[t] = review[t]
      BY <1>1
<1>5. review'[a].pc = "idle" /\ review' \in [Admins -> [pc : {"idle", "insert", "loaded"}, loaded : Row]]
      BY <1>1 DEF TypeOK
<1>6. TypeOK'
      BY <1>1, <1>3, <1>5 DEF TypeOK
<1>7. RowExists' /\ RecordsScores'
      BY <1>1, <1>3 DEF RowExists, RecordsScores
<1>8. Signed(a) \in Row /\ Signed(a).scores = row.scores
      BY <1>1, SignedIsRow
<1>9. row'.scores = [d \in Dims |-> Written(scores[d], review[a].loaded.scores[d], row.scores[d])]
      BY <1>8 DEF Override, Row
<1>10. \A d \in Dims : row'.scores[d] # Null
  <2> SUFFICES ASSUME NEW d \in Dims PROVE row'.scores[d] # Null
      OBVIOUS
  <2>1. row'.scores[d] = Written(scores[d], review[a].loaded.scores[d], row.scores[d])
        BY <1>9
  <2>2. scores[d] # Null
        BY ConstantsOK
  <2>3. CASE scores[d] = review[a].loaded.scores[d]
        BY <1>1, <2>1, <2>2, <2>3 DEF Written, ScoresStay
  <2>4. CASE scores[d] # review[a].loaded.scores[d]
        BY <2>1, <2>2, <2>4 DEF Written
  <2> QED BY <2>3, <2>4
<1>11. ScoresStay' /\ LoadedScored' /\ CompletedIsScored'
       BY <1>4, <1>5, <1>10 DEF ScoresStay, LoadedScored, CompletedIsScored
<1> QED BY <1>6, <1>7, <1>11

LEMMA SetVerdictKeepsInv ==
    ASSUME ScoredInv, NEW a \in Admins, SetVerdict(a)
    PROVE  ScoredInv'
<1> USE DEF ScoredInv
<1>1. /\ review[a].pc = "loaded" /\ row # Null
      /\ review' = [review EXCEPT ![a].pc = "idle"]
      /\ UNCHANGED <<log, run, archived, configured, judged, corrected>>
      /\ late' \subseteq Admins /\ missed' \in BOOLEAN
      BY DEF SetVerdict, HumanCommit, RowExists, TypeOK
<1>2. Signed(a) \in Row /\ Signed(a).scores = row.scores /\ Signed(a).status = row.status
      BY <1>1, SignedIsRow
<1>3. row' \in Row /\ row'.scores = row.scores /\ row'.status = row.status
      BY <1>2 DEF SetVerdict, Row
<1>4. row' # Null
      BY <1>3, NullIsNoValue
<1>5. \A t \in Admins : t # a => review'[t] = review[t]
      BY <1>1
<1>6. review'[a].pc = "idle" /\ review' \in [Admins -> [pc : {"idle", "insert", "loaded"}, loaded : Row]]
      BY <1>1 DEF TypeOK
<1>7. TypeOK'
      BY <1>1, <1>3, <1>6 DEF TypeOK
<1>8. RowExists' /\ RecordsScores'
      BY <1>1, <1>4 DEF RowExists, RecordsScores
<1>9. ScoresStay' /\ LoadedScored' /\ CompletedIsScored'
      BY <1>1, <1>3, <1>5, <1>6 DEF ScoresStay, LoadedScored, CompletedIsScored
<1> QED BY <1>7, <1>8, <1>9

(* The first row, whoever inserts it: nobody has loaded anything yet.      *)
LEMMA FirstRowKeepsInv ==
    ASSUME ScoredInv,
           (\E r \in Runs : InsertRow(r)) \/ (\E a \in Admins : CreateRow(a))
    PROVE  ScoredInv'
<1> USE DEF ScoredInv
<1>1. row = Null /\ row' = NewRow /\ row' \in Row /\ row' # Null
      BY NewRowIsRow DEF InsertRow, CreateRow
<1>2. NewRow.status = "pending" /\ NewRow.scores = Unscored
      BY DEF NewRow
<1>3. \A a \in Admins : review[a].pc # "loaded"
      BY <1>1 DEF RowExists
<1>4. CASE \E r \in Runs : InsertRow(r)
  <2>1. PICK r \in Runs : InsertRow(r)
        BY <1>4
  <2>2. /\ run' = [run EXCEPT ![r].pc = "recheck"]
        /\ UNCHANGED <<log, review, archived, configured, judged, corrected, late, missed>>
        BY <2>1 DEF InsertRow, GoRun, watchVars
  <2>3. TypeOK'
        BY <1>1, <2>2 DEF TypeOK
  <2>4. RowExists' /\ RecordsScores'
        BY <1>1, <2>2 DEF RowExists, RecordsScores, TypeOK
  <2> QED BY <1>1, <1>2, <1>3, <2>2, <2>3, <2>4 DEF ScoresStay, LoadedScored, CompletedIsScored
<1>5. CASE \E a \in Admins : CreateRow(a)
  <2>1. PICK a \in Admins : CreateRow(a)
        BY <1>5
  <2>2. /\ review' = [review EXCEPT ![a] = [pc |-> "loaded", loaded |-> NewRow]]
        /\ UNCHANGED <<log, run, archived, configured, judged, corrected, late, missed>>
        BY <2>1 DEF CreateRow, watchVars
  <2>3. review' \in [Admins -> [pc : {"idle", "insert", "loaded"}, loaded : Row]]
        BY <2>2, NewRowIsRow DEF TypeOK
  <2>4. TypeOK'
        BY <1>1, <2>2, <2>3 DEF TypeOK
  <2>5. \A t \in Admins : review'[t].pc = "loaded" => review'[t].loaded = NewRow
        BY <1>3, <2>2 DEF TypeOK
  <2>6. RowExists' /\ RecordsScores'
        BY <1>1, <2>2 DEF RowExists, RecordsScores
  <2>7. ScoresStay' /\ LoadedScored' /\ CompletedIsScored'
        BY <1>1, <1>2, <2>5 DEF ScoresStay, LoadedScored, CompletedIsScored
  <2> QED BY <2>4, <2>6, <2>7
<1> QED BY <1>4, <1>5

LEMMA JudgeAnswersKeepsInv ==
    ASSUME ScoredInv, NEW r \in Runs, JudgeAnswers(r)
    PROVE  ScoredInv'
<1> USE DEF ScoredInv
<1>1. PICK scores \in [Dims -> Scores] : run' = [run EXCEPT ![r] = [pc |-> "record", scores |-> scores]]
      BY DEF JudgeAnswers
<1>2. /\ run[r].pc = "judge"
      /\ UNCHANGED <<log, row, review, archived, configured, judged, corrected, late, missed>>
      BY DEF JudgeAnswers, AtRun, watchVars
<1>3. scores \in ScoreSet
      BY DEF ScoreSet
<1>4. TypeOK'
      BY <1>1, <1>2, <1>3 DEF TypeOK
<1>5. RowExists' /\ RecordsScores'
      BY <1>1, <1>2 DEF RowExists, RecordsScores, TypeOK
<1>6. ScoresStay' /\ LoadedScored' /\ CompletedIsScored'
      BY <1>2 DEF ScoresStay, LoadedScored, CompletedIsScored
<1> QED BY <1>4, <1>5, <1>6

----------------------------------------------------------------------------
(* The specification.                                                      *)

LEMMA InitScored == Init => ScoredInv
<1> SUFFICES ASSUME Init PROVE ScoredInv
    OBVIOUS
<1>1. Unscored \in ScoreSet
      BY DEF Unscored, ScoreSet
<1>2. NewRow \in Row
      BY NewRowIsRow
<1>3. TypeOK
      BY <1>1, <1>2 DEF Init, TypeOK
<1> QED BY <1>3 DEF Init, ScoredInv, RowExists, RecordsScores, ScoresStay, LoadedScored, CompletedIsScored

LEMMA JudgeKeepsScored ==
    ASSUME ScoredInv, NEW r \in Runs, Judge(r) \/ RunDies(r)
    PROVE  ScoredInv'
<1>1. CASE StartRun(r)
  <2> DEFINE phase == IF row = Null THEN "insert" ELSE IF Reviewed THEN "done" ELSE Judging
  <2>1. phase \in Phases \ {"record"} /\ (row # Null \/ phase = "insert")
        BY DEF Phases, Judging
  <2> QED BY <1>1, <2>1, TaskMoves DEF StartRun
<1>2. CASE InsertRow(r)
      BY <1>2, FirstRowKeepsInv
<1>3. CASE InsertConflict(r)
      BY <1>3, TaskMoves DEF InsertConflict, Phases
<1>4. CASE Recheck(r)
  <2> DEFINE phase == IF Reviewed THEN "done" ELSE Judging
  <2>1. phase \in Phases \ {"record"}
        BY DEF Phases, Judging
  <2>2. row # Null
        BY <1>4 DEF ScoredInv, RowExists, Recheck, AtRun
  <2> QED BY <1>4, <2>1, <2>2, TaskMoves DEF Recheck
<1>5. CASE MarkSkipped(r) \/ MarkFailed(r)
  <2>1. row # Null
        BY <1>5 DEF ScoredInv, RowExists, MarkSkipped, MarkFailed, AtRun
  <2>2. PICK status \in {"skipped", "failed"} : Finalize(r, status, Null)
        BY <1>5 DEF MarkSkipped, MarkFailed
  <2> QED BY <2>1, <2>2, FinalizeKeepsInv DEF Terminal
<1>6. CASE JudgeAnswers(r)
      BY <1>6, JudgeAnswersKeepsInv
<1>7. CASE RecordScores(r)
  <2>1. row # Null /\ run[r].scores \in [Dims -> Scores]
        BY <1>7 DEF ScoredInv, RowExists, RecordsScores, RecordScores, AtRun
  <2> QED BY <1>7, <2>1, FinalizeKeepsInv DEF RecordScores, Terminal
<1>8. CASE RunDies(r)
      BY <1>8, TaskMoves DEF RunDies, Phases
<1> QED BY <1>1, <1>2, <1>3, <1>4, <1>5, <1>6, <1>7, <1>8 DEF Judge

LEMMA AdminKeepsScored ==
    ASSUME ScoredInv, NEW a \in Admins, Admin(a)
    PROVE  ScoredInv'
<1>0. review[a] \in [pc : {"idle", "insert", "loaded"}, loaded : Row] /\ (row # Null => row \in Row)
      BY DEF ScoredInv, TypeOK
<1>1. CASE LoadRow(a)
  <2> DEFINE seen == IF row = Null THEN [review[a] EXCEPT !.pc = "insert"] ELSE [pc |-> "loaded", loaded |-> row]
  <2>1. seen \in [pc : {"idle", "insert"}, loaded : Row] \/ (row # Null /\ seen = [pc |-> "loaded", loaded |-> row])
        BY <1>0
  <2>2. review' = [review EXCEPT ![a] = seen]
        BY <1>1 DEF LoadRow
  <2> QED BY <1>1, <2>1, <2>2, RequestMoves DEF LoadRow, watchVars
<1>2. CASE CreateRow(a)
      BY <1>2, FirstRowKeepsInv
<1>3. CASE RequestFails(a)
  <2> DEFINE seen == [review[a] EXCEPT !.pc = "idle"]
  <2>1. seen \in [pc : {"idle", "insert"}, loaded : Row]
        BY <1>0
  <2>2. review' = [review EXCEPT ![a] = seen]
        BY <1>3 DEF RequestFails
  <2> QED BY <1>3, <2>1, <2>2, RequestMoves DEF RequestFails
<1>4. CASE SetVerdict(a)
      BY <1>4, SetVerdictKeepsInv
<1>5. CASE \E scores \in [Dims -> Scores] : Override(a, scores)
      BY <1>5, OverrideKeepsInv
<1> QED BY <1>1, <1>2, <1>3, <1>4, <1>5, <1>0 DEF Admin

LEMMA StepKeepsScored == ScoredInv /\ [Next]_vars => ScoredInv'
<1> SUFFICES ASSUME ScoredInv, [Next]_vars PROVE ScoredInv'
    OBVIOUS
<1>1. CASE CreateQueryLog \/ EnqueueEvaluation \/ ArchiveDomain \/ UNCHANGED vars
  <2>1. /\ UNCHANGED <<row, run, review, configured, judged, corrected, late, missed>>
        /\ log' \in {"none", "committed", "sent"} /\ archived' \in BOOLEAN
        BY <1>1 DEF CreateQueryLog, EnqueueEvaluation, ArchiveDomain, vars, watchVars, ScoredInv, TypeOK
  <2> QED BY <2>1 DEF ScoredInv, TypeOK, RowExists, RecordsScores, ScoresStay, LoadedScored, CompletedIsScored
<1>2. CASE \E r \in Runs : Judge(r) \/ RunDies(r)
      BY <1>2, JudgeKeepsScored
<1>3. CASE \E a \in Admins : Admin(a)
      BY <1>3, AdminKeepsScored
<1> QED BY <1>1, <1>2, <1>3 DEF Next

(* The rows, tasks and requests keep their shape.                          *)
THEOREM TypeCorrect == Spec => []TypeOK
<1>1. ScoredInv => TypeOK
      BY DEF ScoredInv
<1> QED BY <1>1, InitScored, StepKeepsScored, PTL DEF Spec

(* A completed row has every score, whatever tasks and administrators do   *)
(* in between (evaluation/service.py:294-316).                             *)
THEOREM CompletedIsScoredCorrect == Spec => []CompletedIsScored
<1>1. ScoredInv => CompletedIsScored
      BY DEF ScoredInv
<1> QED BY <1>1, InitScored, StepKeepsScored, PTL DEF Spec

(* No task changes a row after a human has (evaluation/service.py:170-190).*)
THEOREM HumanIsFinalCorrect == Spec => HumanIsFinal
<1> DEFINE Final == \A r \in Runs : Reviewed /\ run'[r] # run[r] => row' = row
<1>1. [Next]_vars => [Final]_vars
  <2> SUFFICES ASSUME Next PROVE Final
      OBVIOUS
  <2> SUFFICES ASSUME NEW t \in Runs, Reviewed, run'[t] # run[t] PROVE row' = row
      OBVIOUS
  <2>1. PICK r \in Runs : Judge(r) \/ RunDies(r)
        BY DEF Next, CreateQueryLog, EnqueueEvaluation, ArchiveDomain, Admin, LoadRow, CreateRow,
               RequestFails, SetVerdict, Override, HumanCommit
  <2>2. ~InsertRow(r)
        BY DEF InsertRow, Reviewed
  <2>3. CASE MarkSkipped(r) \/ MarkFailed(r) \/ RecordScores(r)
        BY <2>3 DEF MarkSkipped, MarkFailed, RecordScores, Finalize
  <2> QED BY <2>1, <2>2, <2>3 DEF Judge, RunDies, StartRun, InsertConflict, Recheck, JudgeAnswers
<1> QED BY <1>1, PTL DEF Spec, HumanIsFinal

----------------------------------------------------------------------------
(* What a human action rests on.                                           *)

(* A row that a request has seen reviewed is reviewed.                     *)
ReviewStays ==
    \A a \in Admins : review[a].pc = "loaded" /\ review[a].loaded.overridden_by # Null => Reviewed

SettledInv == ScoredInv /\ ReviewStays /\ ReturnedRunSettles

LEMMA SignedIsReviewed ==
    ASSUME ScoredInv, ReviewStays, NEW a \in Admins, review[a].pc = "loaded"
    PROVE  Signed(a).overridden_by # Null
<1>1. row # Null /\ row \in Row
      BY DEF ScoredInv, RowExists, TypeOK
<1>2. Signed(a).overridden_by = Written(a, review[a].loaded.overridden_by, row.overridden_by)
      BY <1>1 DEF Signed, Row
<1>3. a # Null
      BY ConstantsOK
<1> QED BY <1>2, <1>3 DEF Written, ReviewStays, Reviewed

LEMMA HumanSigns ==
    ASSUME ScoredInv, ReviewStays, NEW a \in Admins,
           SetVerdict(a) \/ \E scores \in [Dims -> Scores] : Override(a, scores)
    PROVE  /\ review[a].pc = "loaded" /\ row # Null /\ row' # Null /\ Reviewed'
           /\ review' = [review EXCEPT ![a].pc = "idle"] /\ UNCHANGED <<run, judged>>
           /\ late' = late \ {a} /\ missed' = (missed \/ a \in late)
           /\ row'.original = Signed(a).original
           /\ \/ SetVerdict(a) /\ row'.status = row.status /\ UNCHANGED corrected
              \/ row'.status = Written("completed", review[a].loaded.status, row.status) /\ corrected'
<1>1. /\ review[a].pc = "loaded" /\ row # Null
      /\ review' = [review EXCEPT ![a].pc = "idle"] /\ UNCHANGED <<run, judged>>
      /\ late' = late \ {a} /\ missed' = (missed \/ a \in late)
      BY DEF SetVerdict, Override, HumanCommit, ScoredInv, RowExists
<1>2. Signed(a) \in Row /\ Signed(a).status = row.status /\ Signed(a).overridden_by # Null
      BY <1>1, SignedIsRow, SignedIsReviewed DEF ScoredInv
<1>3. ScoredInv'
      BY OverrideKeepsInv, SetVerdictKeepsInv
<1>4. row' # Null
      BY <1>1, <1>3, <1>2, NullIsNoValue, OverrideKeepsRow DEF SetVerdict, Row, ScoredInv
<1>5. row'.overridden_by = Signed(a).overridden_by /\ row'.original = Signed(a).original
      BY <1>2 DEF SetVerdict, Override, Row
<1>6. \/ SetVerdict(a) /\ row'.status = row.status /\ UNCHANGED corrected
      \/ row'.status = Written("completed", review[a].loaded.status, row.status) /\ corrected'
      BY <1>2 DEF SetVerdict, Override, Row
<1> QED BY <1>1, <1>2, <1>4, <1>5, <1>6 DEF Reviewed

(* What a task may do to the row.                                          *)
LEMMA JudgeSteps ==
    ASSUME ScoredInv, NEW r \in Runs, Judge(r) \/ RunDies(r)
    PROVE  /\ UNCHANGED <<review, corrected, missed>>
           /\ run[r].pc # "done" /\ \A t \in Runs : t # r => run'[t] = run[t]
           /\ \/ UNCHANGED <<row, judged, late>> /\ (run'[r].pc = "done" => Reviewed)
              \/ row = Null /\ row' = NewRow /\ UNCHANGED <<judged, late>> /\ run'[r].pc # "done"
              \/ /\ row # Null /\ row' # Null /\ ~Reviewed /\ ~Reviewed' /\ run'[r].pc = "done"
                 /\ row'.status \in Terminal /\ row'.original = row.original
                 /\ \/ row'.scores = row.scores /\ UNCHANGED <<judged, late>>
                    \/ row'.scores = judged' /\ judged' # Null /\ late' = Holding
<1> DEFINE Stored(s) ==
      \/ UNCHANGED <<row, judged, late>> /\ Reviewed
      \/ /\ row # Null /\ row' # Null /\ ~Reviewed /\ ~Reviewed'
         /\ row'.status \in Terminal /\ row'.original = row.original
         /\ \/ row'.scores = row.scores /\ UNCHANGED <<judged, late>>
            \/ row'.scores = judged' /\ judged' # Null /\ late' = Holding
<1>1. ASSUME NEW status \in Terminal, NEW scores \in [Dims -> Scores] \cup {Null}, row # Null, Finalize(r, status, scores)
      PROVE  Stored(scores)
  <2>1. CASE Reviewed
        BY <1>1, <2>1 DEF Finalize
  <2>2. CASE ~Reviewed
    <3>1. row \in Row
          BY <1>1 DEF ScoredInv, TypeOK
    <3>2. row' = [row EXCEPT !.status = status, !.scores = IF scores = Null THEN row.scores ELSE scores]
          BY <1>1, <2>2, <3>1 DEF Finalize, Row
    <3>3. /\ row'.status = status /\ row'.scores = (IF scores = Null THEN row.scores ELSE scores)
          /\ row'.original = row.original /\ row'.overridden_by = row.overridden_by
          BY <3>1, <3>2 DEF Row
    <3>4. row' # Null
      <4>1. scores \in ScoreSet \cup {Null}
            BY DEF ScoreSet
      <4> QED BY <1>1, <4>1, FinalizeKeepsRow, NullIsNoValue DEF ScoredInv
    <3>5. Observe(scores)
          BY <1>1, <2>2 DEF Finalize
    <3>6. CASE scores = Null
          BY <1>1, <2>2, <3>3, <3>4, <3>5, <3>6 DEF Reviewed, Observe
    <3>7. CASE scores # Null
          BY <1>1, <2>2, <3>3, <3>4, <3>5, <3>7 DEF Reviewed, Observe
    <3> QED BY <3>6, <3>7
  <2> QED BY <2>1, <2>2
<1>2. /\ UNCHANGED <<review, corrected, missed>>
      /\ run[r].pc # "done"
      BY DEF Judge, StartRun, InsertRow, InsertConflict, Recheck, MarkSkipped, JudgeAnswers, MarkFailed,
             RecordScores, RunDies, Finalize, AtRun, watchVars
<1>3. \A t \in Runs : t # r => run'[t] = run[t]
      BY DEF Judge, StartRun, InsertRow, InsertConflict, Recheck, MarkSkipped, JudgeAnswers, MarkFailed,
             RecordScores, RunDies, Finalize, GoRun, ScoredInv, TypeOK
<1>4. CASE MarkSkipped(r) \/ MarkFailed(r) \/ RecordScores(r)
  <2>1. row # Null /\ (RecordScores(r) => run[r].scores \in [Dims -> Scores])
        BY <1>4 DEF ScoredInv, RowExists, RecordsScores, MarkSkipped, MarkFailed, RecordScores, AtRun
  <2>2. run'[r].pc = "done"
        BY <1>4 DEF MarkSkipped, MarkFailed, RecordScores, Finalize, GoRun, ScoredInv, TypeOK
  <2>3. \E scores \in [Dims -> Scores] \cup {Null} : Stored(scores)
        BY <1>1, <1>4, <2>1 DEF MarkSkipped, MarkFailed, RecordScores, Terminal
  <2> QED BY <1>2, <1>3, <2>2, <2>3
<1>5. CASE InsertRow(r)
  <2>1. run'[r].pc # "done"
        BY <1>5 DEF InsertRow, GoRun, ScoredInv, TypeOK
  <2> QED BY <1>2, <1>3, <1>5, <2>1 DEF InsertRow, watchVars
<1>6. CASE StartRun(r) \/ InsertConflict(r) \/ Recheck(r) \/ JudgeAnswers(r) \/ RunDies(r)
  <2>1. UNCHANGED <<row, judged, late>>
        BY <1>6 DEF StartRun, InsertConflict, Recheck, JudgeAnswers, RunDies, watchVars
  <2>2. run'[r].pc = "done" => Reviewed
        BY <1>6 DEF StartRun, InsertConflict, Recheck, JudgeAnswers, RunDies, GoRun, Judging, ScoredInv, TypeOK
  <2> QED BY <1>2, <1>3, <2>1, <2>2
<1> QED BY <1>4, <1>5, <1>6 DEF Judge

(* What the steps that are no task's and no human's decision change.       *)
LEMMA OtherSteps ==
    ASSUME ScoredInv,
           \/ CreateQueryLog \/ EnqueueEvaluation \/ ArchiveDomain \/ UNCHANGED vars
           \/ \E a \in Admins : LoadRow(a) \/ CreateRow(a) \/ RequestFails(a)
    PROVE  /\ UNCHANGED <<run, judged, corrected, missed>>
           /\ row' = row \/ (row = Null /\ row' = NewRow)
           /\ \A a \in Admins : review'[a].pc = "loaded" =>
                 \/ review'[a] = review[a] /\ (a \in late => a \in late')
                 \/ row' # Null /\ review'[a].loaded = row'
<1>1. CASE CreateQueryLog \/ EnqueueEvaluation \/ ArchiveDomain \/ UNCHANGED vars
      BY <1>1 DEF CreateQueryLog, EnqueueEvaluation, ArchiveDomain, vars, watchVars
<1>2. CASE \E a \in Admins : LoadRow(a) \/ CreateRow(a) \/ RequestFails(a)
  <2>1. PICK a \in Admins : LoadRow(a) \/ CreateRow(a) \/ RequestFails(a)
        BY <1>2
  <2>2. review \in [Admins -> [pc : {"idle", "insert", "loaded"}, loaded : Row]]
        BY DEF ScoredInv, TypeOK
  <2>3. UNCHANGED <<run, judged, corrected, missed>> /\ (row' = row \/ (row = Null /\ row' = NewRow))
        BY <2>1 DEF LoadRow, CreateRow, RequestFails, watchVars
  <2>4. \A t \in Admins : t # a => review'[t] = review[t] /\ (t \in late => t \in late')
        BY <2>1, <2>2 DEF LoadRow, CreateRow, RequestFails, watchVars
  <2>5. review'[a].pc = "loaded" => row' # Null /\ review'[a].loaded = row'
        BY <2>1, <2>2, NewRowIsRow DEF LoadRow, CreateRow, RequestFails
  <2> QED BY <2>3, <2>4, <2>5
<1> QED BY <1>1, <1>2

LEMMA StepCases ==
    ASSUME [Next]_vars
    PROVE  \/ \E r \in Runs : Judge(r) \/ RunDies(r)
           \/ \E a \in Admins : SetVerdict(a) \/ \E scores \in [Dims -> Scores] : Override(a, scores)
           \/ CreateQueryLog \/ EnqueueEvaluation \/ ArchiveDomain \/ UNCHANGED vars
           \/ \E a \in Admins : LoadRow(a) \/ CreateRow(a) \/ RequestFails(a)
BY DEF Next, Admin

LEMMA StepKeepsSettled == SettledInv /\ [Next]_vars => SettledInv'
<1> SUFFICES ASSUME SettledInv, [Next]_vars PROVE SettledInv'
    OBVIOUS
<1> USE DEF SettledInv
<1>1. ScoredInv'
      BY StepKeepsScored
<1>2. CASE \E r \in Runs : Judge(r) \/ RunDies(r)
  <2>1. PICK r \in Runs : Judge(r) \/ RunDies(r)
        BY <1>2
  <2>2. \/ UNCHANGED row
        \/ row = Null
        \/ ~Reviewed /\ row' # Null /\ row'.status \in Terminal
        BY <2>1, JudgeSteps
  <2>3. ReviewStays'
        BY <2>1, <2>2, JudgeSteps DEF ReviewStays, ScoredInv, RowExists, Reviewed
  <2>4. \A t \in Runs : run'[t].pc = "done" => row' # Null
        BY <1>1 DEF ScoredInv, RowExists
  <2>5. ASSUME NEW t \in Runs, run'[t].pc = "done" PROVE row'.status \in Terminal \/ Reviewed'
        BY <2>1, <2>5, JudgeSteps DEF ReturnedRunSettles, AtRun, Reviewed
  <2> QED BY <1>1, <2>3, <2>4, <2>5 DEF ReturnedRunSettles, AtRun
<1>3. CASE \E a \in Admins : SetVerdict(a) \/ \E scores \in [Dims -> Scores] : Override(a, scores)
  <2>1. Reviewed' /\ row' # Null
        BY <1>3, HumanSigns
  <2> QED BY <1>1, <2>1 DEF ReviewStays, ReturnedRunSettles
<1>4. CASE \/ CreateQueryLog \/ EnqueueEvaluation \/ ArchiveDomain \/ UNCHANGED vars
           \/ \E a \in Admins : LoadRow(a) \/ CreateRow(a) \/ RequestFails(a)
  <2>1. /\ UNCHANGED run
        /\ row' = row \/ row = Null
        /\ \A a \in Admins : review'[a].pc = "loaded" =>
              review'[a] = review[a] \/ (row' # Null /\ review'[a].loaded = row')
        BY <1>4, OtherSteps
  <2>2. ReviewStays'
        BY <2>1 DEF ReviewStays, ScoredInv, RowExists, Reviewed
  <2>3. ReturnedRunSettles'
        BY <2>1 DEF ReturnedRunSettles, AtRun, Reviewed
  <2> QED BY <1>1, <2>2, <2>3
<1> QED BY <1>2, <1>3, <1>4, StepCases

LEMMA InitSettled == Init => SettledInv
BY InitScored DEF Init, SettledInv, ReviewStays, ReturnedRunSettles, AtRun

(* A task that returns leaves a terminal row, or one that a human has      *)
(* reviewed (tasks/pipeline.py:177-203).                                   *)
THEOREM ReturnedRunSettlesCorrect == Spec => []ReturnedRunSettles
<1>1. SettledInv => ReturnedRunSettles
      BY DEF SettledInv
<1> QED BY <1>1, InitSettled, StepKeepsSettled, PTL DEF Spec

----------------------------------------------------------------------------
(* One delivery of the task.                                               *)

SingleRun == \E r \in Runs : Runs = {r}

(* The task is through once a row is judged and no human has touched it.   *)
JudgedOnce ==
    /\ row # Null /\ ~Reviewed /\ row.status # "pending" => \A r \in Runs : run[r].pc = "done"
    /\ judged # Null => \A r \in Runs : run[r].pc = "done"

(* A completed row that was loaded is still completed.                     *)
CompletionStays ==
    \A a \in Admins : review[a].pc = "loaded" /\ review[a].loaded.status = "completed" => row.status = "completed"

(* What the judge has stored, empty before it has stored anything.         *)
Baseline == IF judged = Null THEN Unscored ELSE judged

(* A snapshot is the judge's, or was missed.                               *)
OfJudge(original) == original = Baseline \/ (missed /\ original = Unscored)

BaselinesOfJudge ==
    /\ row # Null /\ ~Reviewed => row.scores = Baseline /\ row.original = Null
    /\ row # Null /\ row.original # Null => OfJudge(row.original)
    /\ \A a \in Admins : review[a].pc = "loaded" =>
          /\ review[a].loaded.overridden_by = Null =>
                /\ review[a].loaded.original = Null
                /\ \/ review[a].loaded.scores = Baseline
                   \/ a \in late /\ review[a].loaded.scores = Unscored
          /\ review[a].loaded.original # Null => OfJudge(review[a].loaded.original)

CorrectedInv == corrected => row # Null /\ Reviewed /\ row.status = "completed"

SingleRunInv == SettledInv /\ JudgedOnce /\ CompletionStays /\ BaselinesOfJudge /\ CorrectedInv

LEMMA JudgeKeepsSingle ==
    ASSUME SingleRun, SingleRunInv, NEW r \in Runs, Judge(r) \/ RunDies(r)
    PROVE  (JudgedOnce /\ CompletionStays /\ BaselinesOfJudge /\ CorrectedInv)'
<1> USE DEF SingleRunInv, SettledInv
<1>1. Runs = {r}
      BY DEF SingleRun
<1>2. /\ UNCHANGED <<review, corrected, missed>>
      /\ run[r].pc # "done"
      BY JudgeSteps
<1>3. judged = Null /\ (row # Null /\ ~Reviewed => row.status = "pending")
      BY <1>2 DEF JudgedOnce
<1>4. CASE UNCHANGED <<row, judged, late>> /\ (run'[r].pc = "done" => Reviewed)
      BY <1>1, <1>2, <1>3, <1>4 DEF JudgedOnce, CompletionStays, BaselinesOfJudge, CorrectedInv, OfJudge, Baseline, Reviewed
<1>5. CASE row = Null /\ row' = NewRow /\ UNCHANGED <<judged, late>>
  <2>1. \A a \in Admins : review[a].pc # "loaded"
        BY <1>5 DEF ScoredInv, RowExists
  <2>2. ~corrected
        BY <1>5 DEF CorrectedInv
  <2>3. NewRow.status = "pending" /\ NewRow.scores = Unscored /\ NewRow.original = Null
        BY DEF NewRow
  <2> QED BY <1>2, <1>3, <1>5, <2>1, <2>2, <2>3
          DEF JudgedOnce, CompletionStays, BaselinesOfJudge, CorrectedInv, OfJudge, Baseline
<1>6. CASE /\ row # Null /\ row' # Null /\ ~Reviewed /\ ~Reviewed' /\ run'[r].pc = "done"
           /\ row'.status \in Terminal /\ row'.original = row.original
           /\ \/ row'.scores = row.scores /\ UNCHANGED <<judged, late>>
              \/ row'.scores = judged' /\ judged' # Null /\ late' = Holding
  <2>1. /\ \A a \in Admins : review[a].pc = "loaded" => review[a].loaded.status # "completed"
        /\ ~corrected
        BY <1>3, <1>6 DEF CompletionStays, CorrectedInv
  <2>2. (JudgedOnce /\ CompletionStays /\ CorrectedInv)'
        BY <1>1, <1>2, <1>6, <2>1 DEF JudgedOnce, CompletionStays, CorrectedInv, Terminal
  <2>3. Baseline = Unscored /\ row.scores = Unscored /\ row.original = Null
        BY <1>3, <1>6 DEF BaselinesOfJudge, Baseline
  <2>4. row'.scores = Baseline'
        BY <1>3, <1>6, <2>3 DEF Baseline
  <2>5. ASSUME NEW a \in Admins, review[a].pc = "loaded"
        PROVE  /\ review[a].loaded.overridden_by = Null /\ review[a].loaded.original = Null
               /\ \/ review[a].loaded.scores = Baseline'
                  \/ a \in late' /\ review[a].loaded.scores = Unscored
    <3>1. review[a].loaded.overridden_by = Null
          BY <1>6, <2>5 DEF ReviewStays
    <3>2. review[a].loaded.original = Null /\ review[a].loaded.scores = Unscored
          BY <2>3, <2>5, <3>1 DEF BaselinesOfJudge
    <3>3. a \in Holding
          BY <2>5 DEF Holding
    <3> QED BY <1>3, <1>6, <3>1, <3>2, <3>3 DEF Baseline
  <2>6. BaselinesOfJudge'
        BY <1>2, <1>6, <2>3, <2>4, <2>5 DEF BaselinesOfJudge
  <2> QED BY <2>2, <2>6
<1> QED BY <1>4, <1>5, <1>6, JudgeSteps

LEMMA HumanKeepsSingle ==
    ASSUME SingleRunInv, NEW a \in Admins,
           SetVerdict(a) \/ \E scores \in [Dims -> Scores] : Override(a, scores)
    PROVE  (JudgedOnce /\ CompletionStays /\ BaselinesOfJudge /\ CorrectedInv)'
<1> USE DEF SingleRunInv, SettledInv
<1>1. /\ review[a].pc = "loaded" /\ row # Null /\ row' # Null /\ Reviewed'
      /\ review' = [review EXCEPT ![a].pc = "idle"] /\ UNCHANGED <<run, judged>>
      /\ late' = late \ {a} /\ missed' = (missed \/ a \in late)
      /\ row'.original = Signed(a).original
      BY HumanSigns
<1>2. \/ row'.status = row.status /\ UNCHANGED corrected
      \/ row'.status = Written("completed", review[a].loaded.status, row.status) /\ corrected'
      BY HumanSigns
<1>3. \A t \in Admins : t # a => review'[t] = review[t]
      BY <1>1
<1>4. review'[a].pc = "idle" /\ row \in Row
      BY <1>1 DEF ScoredInv, TypeOK
<1>5. JudgedOnce'
      BY <1>1 DEF JudgedOnce
<1>6. row'.status = row.status \/ row'.status = "completed"
      BY <1>2 DEF Written
<1>7. CompletionStays'
      BY <1>1, <1>3, <1>4, <1>6 DEF CompletionStays
<1>8. CorrectedInv'
  <2>1. review[a].loaded.status = "completed" => row.status = "completed"
        BY <1>1 DEF CompletionStays
  <2> QED BY <1>1, <1>2, <1>6, <2>1 DEF CorrectedInv, Written
<1>9. row'.original # Null => \/ OfJudge(row.original) /\ row'.original = row.original
                              \/ row'.original = Baseline
                              \/ missed' /\ row'.original = Unscored
  <2>1. row'.original = Written(Snapshot(a), review[a].loaded.original, row.original)
        BY <1>1, <1>4 DEF Signed, Row
  <2>2. CASE review[a].loaded.overridden_by = Null
    <3>1. Snapshot(a) = review[a].loaded.scores
          BY <2>2 DEF Snapshot
    <3>2. \/ review[a].loaded.scores = Baseline
          \/ a \in late /\ review[a].loaded.scores = Unscored
          BY <1>1, <2>2 DEF BaselinesOfJudge
    <3>3. row'.original = Snapshot(a) \/ row'.original = row.original
          BY <2>1 DEF Written
    <3> QED BY <1>1, <3>1, <3>2, <3>3 DEF BaselinesOfJudge
  <2>3. CASE review[a].loaded.overridden_by # Null
    <3>1. Snapshot(a) = review[a].loaded.original
          BY <2>3 DEF Snapshot
    <3>2. row'.original = row.original
          BY <2>1, <3>1 DEF Written
    <3> QED BY <1>1, <3>2 DEF BaselinesOfJudge
  <2> QED BY <2>2, <2>3
<1>10. Baseline' = Baseline /\ (missed => missed')
       BY <1>1 DEF Baseline
<1>11. row'.original # Null => \/ OfJudge(row.original) /\ row'.original = row.original
                               \/ row'.original = Baseline'
                               \/ missed' /\ row'.original = Unscored
       BY <1>9, <1>10
<1>12. row'.original # Null => row'.original = Baseline' \/ (missed' /\ row'.original = Unscored)
       BY <1>10, <1>11 DEF OfJudge
<1>13. ASSUME NEW t \in Admins, review'[t].pc = "loaded"
       PROVE  /\ review'[t].loaded.overridden_by = Null =>
                    /\ review'[t].loaded.original = Null
                    /\ \/ review'[t].loaded.scores = Baseline'
                       \/ t \in late' /\ review'[t].loaded.scores = Unscored
              /\ review'[t].loaded.original # Null =>
                    \/ review'[t].loaded.original = Baseline'
                    \/ missed' /\ review'[t].loaded.original = Unscored
  <2>1. t # a /\ review'[t] = review[t] /\ review[t].pc = "loaded" /\ (t \in late => t \in late')
        BY <1>1, <1>3, <1>4, <1>13
  <2> QED BY <1>10, <1>13, <2>1 DEF BaselinesOfJudge, OfJudge
<1>14. BaselinesOfJudge'
       BY <1>1, <1>12, <1>13 DEF BaselinesOfJudge, OfJudge
<1> QED BY <1>5, <1>7, <1>8, <1>14

LEMMA OthersKeepSingle ==
    ASSUME SingleRun, SingleRunInv,
           \/ CreateQueryLog \/ EnqueueEvaluation \/ ArchiveDomain \/ UNCHANGED vars
           \/ \E a \in Admins : LoadRow(a) \/ CreateRow(a) \/ RequestFails(a)
    PROVE  (JudgedOnce /\ CompletionStays /\ BaselinesOfJudge /\ CorrectedInv)'
<1> USE DEF SingleRunInv, SettledInv
<1>1. /\ UNCHANGED <<run, judged, corrected, missed>>
      /\ row' = row \/ (row = Null /\ row' = NewRow)
      /\ \A a \in Admins : review'[a].pc = "loaded" =>
            \/ review'[a] = review[a] /\ (a \in late => a \in late')
            \/ row' # Null /\ review'[a].loaded = row'
      BY OtherSteps
<1>2. NewRow.status = "pending" /\ NewRow.scores = Unscored /\ NewRow.original = Null
      BY DEF NewRow
<1>3. row = Null => ~corrected /\ judged = Null /\ \A a \in Admins : review[a].pc # "loaded"
      BY DEF SingleRun, ScoredInv, RowExists, CorrectedInv, JudgedOnce, ReturnedRunSettles, AtRun
<1>4. JudgedOnce'
      BY <1>1, <1>2 DEF JudgedOnce, Reviewed
<1>5. CompletionStays'
      BY <1>1, <1>2, <1>3 DEF CompletionStays
<1>6. CorrectedInv'
      BY <1>1, <1>3 DEF CorrectedInv, Reviewed
<1>7. Baseline' = Baseline /\ \A s : OfJudge(s) <=> s = Baseline \/ (missed' /\ s = Unscored)
      BY <1>1 DEF OfJudge, Baseline
<1>8. row' # Null => /\ ~Reviewed' => row'.scores = Baseline /\ row'.original = Null
                     /\ row'.original # Null => row'.original = Baseline \/ (missed /\ row'.original = Unscored)
  <2>1. CASE row' = row
        BY <2>1 DEF BaselinesOfJudge, OfJudge, Reviewed
  <2>2. CASE row = Null /\ row' = NewRow
        BY <1>2, <1>3, <2>2 DEF Baseline
  <2> QED BY <1>1, <2>1, <2>2
<1>9. BaselinesOfJudge'
      BY <1>1, <1>7, <1>8 DEF BaselinesOfJudge, OfJudge, Reviewed
<1> QED BY <1>4, <1>5, <1>6, <1>9

LEMMA StepKeepsSingle == SingleRun /\ SingleRunInv /\ [Next]_vars => SingleRunInv'
<1> SUFFICES ASSUME SingleRun, SingleRunInv, [Next]_vars PROVE SingleRunInv'
    OBVIOUS
<1>1. SettledInv'
      BY StepKeepsSettled DEF SingleRunInv
<1>2. (JudgedOnce /\ CompletionStays /\ BaselinesOfJudge /\ CorrectedInv)'
      BY StepCases, JudgeKeepsSingle, HumanKeepsSingle, OthersKeepSingle
<1> QED BY <1>1, <1>2 DEF SingleRunInv

LEMMA InitSingle == Init => SingleRunInv
BY InitSettled DEF Init, SingleRunInv, JudgedOnce, CompletionStays, BaselinesOfJudge, CorrectedInv

(* With one delivery of the task a corrected row is completed and stays so *)
(* (evaluation/service.py:294-316).                                        *)
THEOREM CorrectedIsCompletedCorrect ==
    ASSUME SingleRun
    PROVE  Spec => []CorrectedIsCompleted
<1>1. SingleRunInv => CorrectedIsCompleted
      BY DEF SingleRunInv, CorrectedInv, CorrectedIsCompleted
<1>2. SingleRunInv /\ [Next]_vars => SingleRunInv'
      BY StepKeepsSingle
<1> QED BY <1>1, <1>2, InitSingle, PTL DEF Spec

(* With one delivery of the task original_scores is what the judge stored, *)
(* empty if it has stored nothing, or if a request signed the row from a   *)
(* load older than the judge's scores (evaluation/service.py:278-291).     *)
THEOREM BaselineIsTheJudgesCorrect ==
    ASSUME SingleRun
    PROVE  Spec => []BaselineIsTheJudges
<1>1. SingleRunInv => BaselineIsTheJudges
      BY DEF SingleRunInv, BaselinesOfJudge, OfJudge, Baseline, BaselineIsTheJudges
<1>2. SingleRunInv /\ [Next]_vars => SingleRunInv'
      BY StepKeepsSingle
<1> QED BY <1>1, <1>2, InitSingle, PTL DEF Spec
=============================================================================
