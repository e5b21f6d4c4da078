\* Callers pass indices from 0 to len(children), or None.
CONSTANTS
  a = a
  b = b
  c = c
  d = d
  m1 = m1
  None = None
  Ids <- MCIds
  Models <- MCModels
  Answers <- MCFound
  LoadIds <- MCLoadIds
  MaxLen = 4
  IndexSlack = 0

SPECIFICATION Spec
INVARIANT TypeOK
INVARIANT LookupAgrees
