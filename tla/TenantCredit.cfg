SPECIFICATION Spec
CONSTANTS
  k1 = k1
  k2 = k2
  w1 = w1
  w2 = w2
  Last = 2
  Amount <- MCAmount
  Charges = {k1, k2}
  NoCharge = NoCharge
  Procs = {w1, w2}
  Price = 3
  Floor = 1
  MaxStarts = 4
SYMMETRY Symmetry
CHECK_DEADLOCK FALSE
INVARIANTS
  TypeOK
  Conserved
  CanceledStaysEmpty
  CreditFollows
  DiscountBacked
PROPERTY
  Implements
