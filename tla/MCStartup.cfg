SPECIFICATION Spec
CONSTANTS
  Depth = 2
  Block <- MCBlock
  Atoi <- MCAtoi
  Requests <- MCRequests
  Files <- MCFiles
INVARIANTS FirstPort TableRule  Answers
