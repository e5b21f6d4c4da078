\* Texts whose height follows their content, in a tree that add_child,
\* add_children, remove_child and set_children change.
CONSTANTS
  Root = "R"
  Nested = {"N"}
  Texts = {"d"}
  Flexes = {"c"}
  MaxLength = 2
  Width = 2
  Parent <- MCParentTree
  Spares = {"d"}
  MaxEdits = 2
  SizeChoices <- MCAutoOnly
  MaxLines = 2

SPECIFICATION Spec
INVARIANT DrawsInTree
