CONSTANTS
  quote = quote  a = a  b = b
  Q = quote
  Words <- MCWords
  Lines <- MCLines
  ClosedLiterals = TRUE
  PendingLiteral = FALSE
SPECIFICATION Spec
INVARIANTS CitationsMatchSpec
