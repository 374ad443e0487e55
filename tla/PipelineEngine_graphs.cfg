SPECIFICATION Spec
CONSTANTS
  a = a
  b = b
  c = c
  ghost = ghost
  Ids = {a, b, c}
  Ghost = ghost
  Vocabularies = {"to", "target"}
  Types = {"plain", "needy", "unknown"}
  MaxNodes = 3
  MaxEdges = 3
CHECK_DEADLOCK FALSE
INVARIANTS TypeOK VerdictIsRight UpstreamFirst EveryNodeExecuted
PROPERTY Terminates
