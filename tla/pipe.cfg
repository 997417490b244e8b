SPECIFICATION FairSpec
CONSTANTS
  BUFF_SIZE = 3
  MaxBytes = 5
  MAX_ARGS = 4
  MaxLines = 2
  Lines <- MCLines
INVARIANTS TypeOK NobodyInFreed LineAlone PromptMeansDone
PROPERTIES BoundedFifo EndArrives
CHECK_DEADLOCK FALSE
