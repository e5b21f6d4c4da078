\* Up to three children of length 0..2 or fill, shown or hidden, on a
\* screen of 2..4 rows: enough for clipped, hidden, zero-length and several
\* fill children with a remainder.
CONSTANTS
  MaxKids = 3
  Lengths <- MCLengths
  Heights <- MCHeights

SPECIFICATION Spec
INVARIANT TypeOK
INVARIANT ExactlyOnePainter
INVARIANT RemainderAtLastFill
INVARIANT OffsetReset
