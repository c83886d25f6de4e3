SPECIFICATION LaneSpec
CONSTANTS
  Run = {r1, r2, r3}
  NoRun = NoRun
  TTL = 2
INVARIANTS
  LaneTypeOK
  ReleasedRunsWereUndisturbed
PROPERTIES
  LaneIsNeverStuck
  ImplementsSerialRuns
