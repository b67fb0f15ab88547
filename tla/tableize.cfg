SPECIFICATION Spec
CONSTANTS
  Procs = {p1, p2}
  First = {a, b}
  Second = {x, y}
  TableKey <- MCOwnKey
  Setups <- MCSetups
SYMMETRY Symmetry
CHECK_DEADLOCK FALSE
INVARIANTS AnswerIsPure RotationForgetsAll
