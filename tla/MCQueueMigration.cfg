CONSTANTS
  ClientJob = {j1, j2}
  MaxFaults = 3
SPECIFICATION FairQueueSpec
INVARIANT MigratesSafely
PROPERTY ProvisioningServes
