\* Non-reentrant emissions: observers may add, remove and raise, but never
\* emit again on the same emitter while it is emitting.
CONSTANTS
  o1 = o1
  o2 = o2
  e1 = e1
  e2 = e2
  Observer <- MCObserver
  EventType <- MCEventType
  MaxDepth = 1
  MaxCalls = 5
  MaxObs = 2
  Raising = TRUE
  StrictCallers = FALSE

SPECIFICATION Spec
SYMMETRY ObserverSymmetry
INVARIANT TypeOK
INVARIANT DeliversRegistered
CHECK_DEADLOCK FALSE
