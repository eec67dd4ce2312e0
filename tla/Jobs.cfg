\* Two jobs, each cancelled any number of times at any moment.
CONSTANT JobIds = {j1, j2}
SPECIFICATION FairSpec
INVARIANTS
  TypeOK
  SettledOrAbandoned
  AnswerFitsStatus
PROPERTIES
  OutcomeIsFinal
  JobsEnd
\* When all threads are through and nobody cancels, nothing is left to do.
CHECK_DEADLOCK FALSE
