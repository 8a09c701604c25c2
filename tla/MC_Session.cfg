SPECIFICATION FairSpec
CONSTANTS
  t1 = t1
  t2 = t2
  t3 = t3
  x = x
  Child = {t1, t2, t3, x}
  Order <- MCOrder
  Blocker <- MCBlocker
  NoTask = NoTask
  Limit = 4
  MaxFaults = 3
INVARIANTS OneTaskAtATime StartsOnMerge ShipsWholeTasks EpicClosedOnGreen
PROPERTIES FinalChain 
CHECK_DEADLOCK FALSE
