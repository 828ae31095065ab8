SPECIFICATION FairSpec
CONSTANTS
  a1 = a1  a2 = a2  a3 = a3  a4 = a4  b1 = b1  b2 = b2  ta = ta  tb = tb
  Calls = {a1, a2, a3, a4, b1, b2}
  Tenants = {ta, tb}
  Provider <- MCProvider
  Gates = {1, 2, 3}
  NoGate = 0
  TenantLimit = 2
  GlobalLimit = 2
INVARIANTS TypeOK TenantBound NoSlotIdle
PROPERTIES FirstComeFirstServed Served Implements
