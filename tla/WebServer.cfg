SPECIFICATION Spec
CONSTANTS
  Entries = {c1}
  max_second = 3
  MaxLines = 5
  PlainLines = {2, 4, 6, 7}
  TimedLines = {2, 4}
INVARIANTS RepliesAsAsked KeptAsPromised
PROPERTIES ShutWhenIdle IdleIsShut InputAnswered
CHECK_DEADLOCK FALSE
