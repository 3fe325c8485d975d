CONSTANTS
  Thread = {t1, t2, t3}
  Shape = {s1, s2, bad}
  Unsupported = {bad}
  MaxCalls = 2
  None = None
  Nobody = Nobody
SPECIFICATION FairSpec
CHECK_DEADLOCK FALSE
INVARIANT IInv
PROPERTIES SettledOnce CallsReturn
