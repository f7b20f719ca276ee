SPECIFICATION Spec
CONSTANTS
  e1 = e1  e2 = e2  e3 = e3  e4 = e4
  smith = smith  jane = jane  john = john  j = j
  uni = uni  washington = washington  command = command
  None = None
  Scan <- MCScans
  MinEntities = 2
  MaxCluster = 3
  MaxClusters = 2
CHECK_DEADLOCK FALSE
INVARIANTS GivenNamesKeptApart
