\* Texts whose style may give them a fixed height of 1 or 2 rows.
CONSTANTS
  Root = "R"
  Nested = {"N"}
  Texts = {"a", "b"}
  Flexes = {"c"}
  MaxLength = 2
  Width = 2
  Parent <- MCParent
  Spares = {}
  MaxEdits = 2
  SizeChoices <- MCSizes
  MaxLines = 2

SPECIFICATION Spec
INVARIANT AllocationFresh
