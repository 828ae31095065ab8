SPECIFICATION Spec
CONSTANTS
  p1 = p1  p2 = p2  g1 = g1  g2 = g2
  NoCharge = NoCharge  Free = Free  Dead = Dead  Cash = Cash
  Procs = {p1, p2}
  Charges = {g1, g2}
  Gestures = {"settle"}
  Answers = {"ok", "error"}
  MaxTries = 2
  MaxStalls = 0
  MaxCrashes = 0
SYMMETRY Symmetry
PROPERTY PaidKeepsItsCharge
