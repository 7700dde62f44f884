SPECIFICATION Spec
CONSTANTS
  Size = 4
  Printable = {a, b}
  Enter = {CR, LF}
  CR = CR
  Erase = {BS, DEL}
  Control = {TAB}
  NUL = NUL
  MaxTyped = 5
INVARIANTS CommandIsOnScreen ScreenIsWhatWasTyped LineOfGetline
CHECK_DEADLOCK FALSE
