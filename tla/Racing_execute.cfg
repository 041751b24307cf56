SPECIFICATION FairSpec
CONSTANTS
  t1 = t1
  t2 = t2
  t3 = t3
  Targets = {t1, t2, t3}
  Combos <- AllStrategies
  Usages <- SomeUsages
INVARIANTS
  OutcomeRight
  LosersCancelled
PROPERTIES
  ExecuteReturns
  NoneLeaks
