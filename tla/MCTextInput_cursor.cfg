CONSTANTS
  Chars <- MCChars
  Values <- MCValues
  Width = 4
  MaxHeights = {1, 2, 3}
  MaxLen = 6
  DirLens = {0}
  TaskPrefixLens = {0, 2}
  MaxTasks = 2
  NoDir = NoDir

SPECIFICATION Spec
INVARIANT CursorShown
