SPECIFICATION Spec
CONSTANTS
  MaxCalls = 6
  Callers = {"hasty", "polite", "patient"}
INVARIANTS
  DevicesUsedOpen
  AnswerIsTrue
  AnsweredOnce
PROPERTIES
  EveryCallAnswered
CHECK_DEADLOCK FALSE
