SPECIFICATION Spec
CONSTANTS
  file = file
  hidden = hidden
  rm = rm
  shell = shell
  post = post
  echo = echo
  Tool = {file, hidden, rm, shell, post, echo}
  Executor = {echo}
  FileTool = file
  Unregistered = missing
  Visible = {file, rm, shell, post}
  Refused = {rm}
  ApprovalTools = {shell, post}
  Risky = {post}
  NeedEvidence = TRUE
  MaxRounds = 4
  Paused <- MCPaused
  Bare = bare
  None = None
CHECK_DEADLOCK FALSE
INVARIANTS
  TypeOK
  CancelStopsActions
  RunningCallsWereAllowed
  PausedRunNamesItsAction
  CompletedMeansFinished
PROPERTIES
  OnlySilentPeersHoldTheLoop
  ImplementsLoopOutcomes
