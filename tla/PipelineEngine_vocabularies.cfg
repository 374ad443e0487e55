SPECIFICATION Spec
CONSTANTS
  a = a
  b = b
  c = c
  ghost = ghost
  Ids = {a, b}
  Ghost = ghost
  Vocabularies = {"to", "target"}
  Types = {"plain"}
  MaxNodes = 2
  MaxEdges = 1
CHECK_DEADLOCK FALSE
INVARIANT BothVocabularies
