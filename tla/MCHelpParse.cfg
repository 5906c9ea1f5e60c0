CONSTANTS
  p1 = p1  p2 = p2  b1 = b1  b2 = b2  n1 = n1  n2 = n2  x = x  hash = hash  k = k  f = f  t = t
  Paths <- MCPaths
  Basenames <- MCBasenames
  Names <- MCNames
  Texts <- MCTexts
  Symbols <- MCSymbols
  Hash = hash
  Includes <- MCIncludes
  NoSection = none
  base <- MCBase
  MaxLines = 3
SPECIFICATION Spec
INVARIANTS TypeOK ParsedAsDeclared CitedAsDeclared
