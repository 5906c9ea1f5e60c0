CONSTANTS
  quote = quote  a = a  b = b
  Q = quote
  Words <- MCWords
  Lines <- MCLines
  ClosedLiterals = TRUE
  PendingLiteral = TRUE
SPECIFICATION Spec
INVARIANTS TypeOK ScanMatchesSpec
