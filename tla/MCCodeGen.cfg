CONSTANTS
  q = q  bs = bs  semi = semi  nl = nl  n = n  z = z  t1 = t1
  Quote = q
  Backslash = bs
  Semi = semi
  NL = nl
  N = n
  Contents <- MCCleanContents
  Topics <- MCTopics
  MaxFiles = 2
  MaxSections = 2
  MaxLines = 1
SPECIFICATION Spec
INVARIANTS TableDecodes
