\* Reentrant emissions: an observer may emit again on the same emitter, as
\* a StackLayout does when a keyboard handler focuses a child.
CONSTANTS
  o1 = o1
  o2 = o2
  e1 = e1
  e2 = e2
  Observer <- MCObserver
  EventType <- MCEventType
  MaxDepth = 2
  MaxCalls = 5
  MaxObs = 2
  Raising = TRUE
  StrictCallers = FALSE

SPECIFICATION Spec
SYMMETRY ObserverSymmetry
INVARIANT DeliversRegistered
CHECK_DEADLOCK FALSE
