SPECIFICATION Spec
CONSTANTS
  w1 = w1
  w2 = w2
  Worker <- MCWorker
  Configs <- MCConfigs
  MaxFiles = 2
  MaxLines = 2
  MaxRestarts = 1
INVARIANTS TypeOK TotalBetween 
