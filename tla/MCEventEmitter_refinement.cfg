\* Observers that never raise and callers that never remove an absent observer:
\* the emitter then behaves as the atomic one.
CONSTANTS
  o1 = o1
  o2 = o2
  e1 = e1
  e2 = e2
  Observer <- MCObserver
  EventType <- MCEventType
  MaxDepth = 1
  MaxCalls = 5
  MaxObs = 2
  Raising = FALSE
  StrictCallers = TRUE

SPECIFICATION FairSpec

PROPERTY ImplementsAtomic
PROPERTY QueuedApplied
CHECK_DEADLOCK FALSE
