CONSTANTS
  Sessions = {p1, p2}
  Amounts = {1, 2}
  MaxCommands = 2
  MaxSessionKills = 1
SPECIFICATION CommandsSpec
SYMMETRY ProcessSymmetry
INVARIANTS
    OnlyLeftBehindMismatch
    EndedMeansDone
    LeftoverHasACause
CHECK_DEADLOCK FALSE
