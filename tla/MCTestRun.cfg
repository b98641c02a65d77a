SPECIFICATION FairSpec
CONSTANTS
  Order = 2
  MaxStarts = 3
INVARIANTS TypeOK NoFalsePass ShownPassIsRecorded OrderBalance TallyAddsUp OneAnswerPerQuestion
PROPERTIES KeepsVerdict StartEnds RunEnds
CHECK_DEADLOCK FALSE
