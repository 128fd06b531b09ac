CONSTANTS
  CONSOLE_WIDTH = 2
  CONSOLE_HEIGHT = 3
  MAX_SCROLL = 2
  Screen <- Screens
  Text <- Chars
  Value = {0}
  BLANK = BLANK
  NL = NL
  BS = BS
  NUL = NUL
  X = X
  a = a
  JUNK = JUNK
SPECIFICATION Spec
INVARIANT CursorShown
PROPERTIES ImplementsPaper
