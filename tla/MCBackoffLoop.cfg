\* Every combination of the three options.
CONSTANTS
  NoHeader = NoHeader
  Options <- MCOptions
SPECIFICATION Spec
INVARIANTS
  TypeOK
  RetryPossible
PROPERTIES
  SleepInBounds
\* The loop gives up after max_retries failures.
CHECK_DEADLOCK FALSE
