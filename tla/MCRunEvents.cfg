\* A run of at most six events: two answers with a tool call each and the end.
\* Polls of two rows, three reconnects a start, one Retry.
SPECIFICATION Spec
CONSTANTS
  Limit = 2
  MaxAttempts = 3
  MaxLog = 6
  MaxRetries = 1
INVARIANT TypeOK
PROPERTIES
  ImplementsEventFollower
  ViewSettles
\* A view waits for ever on a run that logs nothing more.
CHECK_DEADLOCK FALSE
