CONSTANTS
  ClientJob = {j1}
  MaxFaults = 1
SPECIFICATION FairQueueSpec
PROPERTY RerunCompletes
