CONSTANTS
  m1 = m1
  m2 = m2
  m3 = m3
  m4 = m4
  Msg <- FourMessages
  User = {}
SYMMETRY MessageSymmetry
SPECIFICATION Spec
INVARIANTS ArraysAgree OthersKeepTheirPlace NothingIsRefused
CHECK_DEADLOCK FALSE
