SPECIFICATION FairSpec
CONSTANTS
  Key <- TwoKeys
  Programs <- Pipelines
  Linearizable = TRUE
CHECK_DEADLOCK FALSE
INVARIANTS TypeOK  AnsweredOnce OrderWithinKind
PROPERTIES ServedIsAnswered 
