\* A ByLine root with up to three children of 1..2 rows or fill, on 2..3
\* rows; application code may call blur() on any element.
CONSTANTS
  MaxKids = 3
  Lengths <- MCLengths
  Heights <- MCHeights
  Policy = "LINE"
  AnyBlur = TRUE

SPECIFICATION Spec
INVARIANT KeyboardRouting
