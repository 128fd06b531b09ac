CONSTANTS
  CONSOLE_WIDTH = 3
  CONSOLE_HEIGHT = 3
  MAX_SCROLL = 2
  INPUT_MAX_LENGTH = 4
  Screen <- Screens
  Text = {}
  Value = {}
  Key <- Keys
  Prompt <- PromptText
  NotFound <- NotFoundText
  Pid <- PidText
  Message <- NotFoundText
  Done <- PidText
  Program <- Programs
  Self <- SelfName
  BLANK = BLANK
  NL = NL
  BS = BS
  NUL = NUL
  X = X
  a = a
  b = b
  JUNK = JUNK
  DOLLAR = DOLLAR
  QUESTION = QUESTION
  PID = PID
SPECIFICATION ShellSpec
INVARIANT LineShown
PROPERTY CommandIsLine
