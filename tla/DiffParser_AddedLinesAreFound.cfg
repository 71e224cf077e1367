SPECIFICATION DiffSpec
CONSTANTS
  a = a
  b = b
  Path = {a, b}
  Headers = {"plain"}
  Texts = {"plain", "plusplus"}
  MaxLine = 3
  MaxFiles = 2
INVARIANTS
  AddedLinesAreFound
CHECK_DEADLOCK FALSE
