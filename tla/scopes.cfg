\* Sections, modules and sequences in twos, nested ones, and any five symbols.
CONSTANTS
  a = a
  b = b
  m = m
  n = n
  NoName = NoName
  Names <- MCNames
  Programs <- LexicalOrNot
  Structure <- LexicalStructure
  Text <- LexicalText
  DISPLAYMAX = 2
  InFront = {1}
SPECIFICATION Spec
INVARIANTS TypeOK BindsLexically DisplayClosed
PROPERTIES EntriesStay FoundInSecondRead
CHECK_DEADLOCK FALSE
