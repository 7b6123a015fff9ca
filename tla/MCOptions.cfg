SPECIFICATION Spec
CONSTANTS
  host = host
  port = port
  flag = flag
  help = help
  Option = {host, port, flag, help}
  HELP = help
  HasArg = {host, port}
  Default <- MCDefault
  Filter <- MCFilter
  Uses <- MCUses
  Text = {"localhost", "1883", "0099", "70000"}
  NULL = NULL
  strtol <- MCstrtol
  strtod <- MCstrtod
  IntSpan = 262144
  Cell = {c1, c2, c3, c4}
  FREE = FREE
  LITERAL = LITERAL
  MaxSets = 2
SYMMETRY MCSymmetry
INVARIANTS
  TypeOK
  MemorySafe
  GivenPasses
PROPERTIES
  OnlySetLeaks
  KeepsSettings
CHECK_DEADLOCK FALSE
