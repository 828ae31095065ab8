SPECIFICATION FairSpec
CONSTANTS
  p1 = p1  p2 = p2  g1 = g1  g2 = g2
  NoCharge = NoCharge  Free = Free  Dead = Dead  Cash = Cash
  Procs = {p1, p2}
  Charges = {g1}
  Gestures = {"exempt"}
  Answers = {"ok", "lost", "error"}
  MaxTries = 2
  MaxStalls = 0
  MaxCrashes = 1

PROPERTIES Recovers ClaimReleased
