CONSTANTS
  bar = bar  sp = sp  dash = dash  quote = quote  a = a  b = b  x = x
  b1 = b1
  Bar = bar  Sp = sp  Dash = dash  Q = quote
  Letters <- MCLetters
  Words <- MCWords
  Usage <- MCUsage
  Skipped <- MCSkipped
  Rows <- MCBareRows
  Basenames <- MCBasenames
SPECIFICATION Spec
INVARIANTS TypeOK OptionsAsIntended
