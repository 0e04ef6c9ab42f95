SPECIFICATION Spec
CONSTANTS
  Types = {"flow"}
  MaxVersion = 2
  MaxPushes = 1
  MaxFailures = 1
INVARIANTS RecordedWasApplied
PROPERTIES RulesStay NewestInForce
CHECK_DEADLOCK FALSE
