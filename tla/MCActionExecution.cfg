CONSTANTS
  Workers <- Launches
  Outcomes = {"like", "repost"}
  ExecuteAnswers = {"uncertain", "unavailable", "not_applied"}
  ReconcileAnswers = {"uncertain", "not_applied"}
  MaxActionAttempts = 2
  MaxFailures = 2
  Nobody = Nobody
SPECIFICATION FairSpec
INVARIANTS
  TypeOK
  AtMostOneTap
  CompletionExplained
PROPERTIES
  JudgedOnce
  Ends
CHECK_DEADLOCK FALSE
