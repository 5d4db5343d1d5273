CONSTANTS
  Blocks = {b1, b2, b3, b4}
  Files = {f1, f2}
  TbfSize = 3
  MaxGrow = 2
  Nobody = Nobody
  Allow = {}
SPECIFICATION Spec
INVARIANTS BlocksAccounted CountsExact CommittedIntact ClosedSurvives
CHECK_DEADLOCK FALSE
SYMMETRY Symmetry
