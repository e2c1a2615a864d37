\* One run of every pipeline of MCPipelines, two Cancels at a time, one fault.
SPECIFICATION FairSpec
CONSTANTS
  Runs = {r1}
  Cancellers = {c1, c2}
  Pipelines <- MCPipelines
  MaxFaults = 1
INVARIANTS TypeOK RowsExplainRun NoOrphanRuns RolloutCoversFleet
PROPERTIES SettledRunsStay CancelledRunsEnd
