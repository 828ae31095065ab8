SPECIFICATION Spec
CONSTANTS
  p1 = p1  p2 = p2  h1 = h1  t1 = t1  t2 = t2
  Messages = {1, 2}
  Reply <- MCReply
  Texts = {t1, t2}
  Bulk = {2}
  Passes = {p1, p2}
  Hooks = {h1}
  MaxAttempts = 2
  MaxRare = 1
  MaxSends = 2
SYMMETRY Symmetry
INVARIANT AnsweredOnce
CHECK_DEADLOCK FALSE
