SPECIFICATION DiffSpec
CONSTANTS
  a = a
  b = b
  Path = {a, b}
  Headers = {"plain", "devnull"}
  Texts = {"plain"}
  MaxLine = 6
  MaxFiles = 2
INVARIANTS
  ParserTypeOK
  ExactLines
CHECK_DEADLOCK FALSE
