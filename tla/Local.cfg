SPECIFICATION LocalSpec
CONSTANTS
  StartRows <- MCStartRows
  Procs = {q1}
  Callers = {"operator", "executor", "managed"}
  Issues = {n1}
  Repos = {r1, r2}
  Sessions = {s1, s2}
  Environments = {None, s2}
  Tasks = {k1}
  Limit = 1
  MaxPages = 5
  MaxRows = 3
  MaxCommands = 2
  MaxChanges = 1
  p1 = p1
  p2 = p2
  l1 = l1
  l2 = l2
  l3 = l3
  r1 = r1
  r2 = r2
  d1 = d1
  d2 = d2
  k1 = k1
  k2 = k2
  n1 = n1
  s1 = s1
  s2 = s2
  sA = sA
  sB = sB
  pl = pl
  Malformed = Malformed
  None = None
SYMMETRY Symmetry
INVARIANTS SelectedIsUsable ReadersAgree PagesAreWhole ForeignKept
PROPERTIES LeasesChangeForCause LinksLast
CHECK_DEADLOCK FALSE
