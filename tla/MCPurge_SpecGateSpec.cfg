CONSTANTS
  p1 = p1  p2 = p2  b1 = b1  b2 = b2
  t1 = t1  t2 = t2  help = help  c1 = c1  c2 = c2
  Paths <- MCPaths
  Basenames <- MCBasenames
  Topics <- MCTopics
  SpecialTopics <- MCSpecial
  Contents <- MCContents
  MaxSections = 2
SYMMETRY MCSymmetry
SPECIFICATION Spec
PROPERTIES SpecGateSpec
