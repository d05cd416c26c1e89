CONSTANTS
  Tree = {t1, t2}
  Commit = {c1}
  Outside = {t2}
  Hidden = {t2}
  MaxSteps = 2
SPECIFICATION FairSpec
INVARIANT AnswerIsTrue
PROPERTIES WorkSurvives CommitsSurvive LiveCwdSurvives OutsideLeftAlone Ends
CHECK_DEADLOCK FALSE
