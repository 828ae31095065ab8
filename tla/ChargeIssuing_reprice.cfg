SPECIFICATION Spec
CONSTANTS
  p1 = p1  p2 = p2  g1 = g1  g2 = g2
  NoCharge = NoCharge  Free = Free  Dead = Dead  Cash = Cash
  Procs = {p1, p2}
  Charges = {g1, g2}
  Gestures = {"click", "reprice"}
  Answers = {"ok", "lost", "refused", "rejected", "safe", "error"}
  MaxTries = 1
  MaxStalls = 0
  MaxCrashes = 1
SYMMETRY Symmetry
INVARIANTS TypeOK ClaimExclusive ExclusionInv
PROPERTY NeverForgets
