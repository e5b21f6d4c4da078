\* A ByLine root with up to three children of 1..2 rows or fill, on 2..3
\* rows; blur() is called only on the focus holder.
CONSTANTS
  MaxKids = 3
  Lengths <- MCLengths
  Heights <- MCHeights
  Policy = "LINE"
  AnyBlur = FALSE

SPECIFICATION Spec
INVARIANT KeyboardRouting
INVARIANT FocusWithin
