SPECIFICATION AdapterSpec
CONSTANTS
  sp = sp
  sk = sk
  p1 = p1
  k1 = k1
  w1 = w1
  w2 = w2
  main = main
  f1 = f1
  s1 = s1
  None = None
  Sessions = {sp, sk}
  Parent <- MCParent
  Prompts = {p1, k1}
  Main = main
  Worktrees = {w1}
  MaxRelocations = 1
  MaxRuns = 3
INVARIANTS ToldWhole
PROPERTIES NoStaleReminder PendingEnds NoWayBackByLease PromptEnds
CHECK_DEADLOCK FALSE
