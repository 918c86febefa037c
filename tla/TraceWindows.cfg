SPECIFICATION WindowsSpec
CONSTANTS
  Pc = {a, b}
  MaxLen = 6
  Traces <- MCTraces
  Logs <- MCLogs
  Least = 4
  Before = 1
  After = 3
  Word = 32
INVARIANTS
  KeepsLongest
  NothingKept
  WindowShowsMiddle
