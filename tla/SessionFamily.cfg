\* sessions: renewals of one cookie, signing out, and changes of the person's version.
CONSTANTS
  t1 = t1
  t2 = t2
  Tabs = {t1, t2}
  MaxHops = 2
  MaxTokens = 3
  MaxVersion = 1
SPECIFICATION Spec
SYMMETRY Symmetry
INVARIANTS TypeOK EndedStaysEnded AllOut KeptSignedIn
CHECK_DEADLOCK FALSE
