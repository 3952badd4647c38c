SPECIFICATION FairSpec
CONSTANTS
    Runs = {r1}
    Admins = {a1, a2}
    Dims = {faith, relev}
    Scores = {low, high}
    Null = Null
CHECK_DEADLOCK FALSE
INVARIANTS
    TypeOK
    CorrectedIsCompleted
    BaselineIsTheJudges
    CompletedIsScored
    ReturnedRunSettles
PROPERTIES
    HumanIsFinal
    AnswerIsEvaluated
