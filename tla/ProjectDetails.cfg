SPECIFICATION Spec
CONSTANTS
  N = 3
  Limit = 2
  SnippetPage = 1
  MaxSnippets = 2
INVARIANTS TypeOK SameAsSerial NothingLeftRunning
PROPERTIES Ends
CHECK_DEADLOCK FALSE
