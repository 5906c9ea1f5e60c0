CONSTANTS
  sp = sp  tab = tab  q = q  h = h  e = e  a = a  b = b
  Sp = sp
  Tab = tab
  Q = q
  Define <- MCDefine
  Letters <- MCLetters
  Lines <- MCLines
  MaxLines = 3
  root = root  dgit = dgit  dtools = dtools  dschizo = dschizo  dprte = dprte  dutil = dutil
  sl = sl  T = T  S = S  P = P  O = O  g = g  u = u  r = r  x = x  y = y  z = z
  Dirs <- MCDirs
  Root = root
  Parent <- MCParent
  DirName <- MCDirName
  Files <- MCFiles
  RootPath <- MCRootPath
  Sep = sl
  Markers <- MCMarkers
  SkipDirs <- MCSkipDirs
SPECIFICATION Spec
INVARIANTS TypeOK OptionsAsDeclared FoundAllListed ExitStatusTruthful
