SPECIFICATION AsSpec
CONSTANTS
  o1 = o1
  s1 = s1
  s2 = s2
  Obligations = {o1}
  AmountDue <- MCDue
  Amounts = {1}
  Balances = {1}
  Days = {1}
  MaxTx = 3
  MaxObs = 2
  Slow = {}
  MaxSteps = 1
  None = None
  Proposals = {q1, q2}
  Sessions = {s1, s2}
  q1 = q1
  q2 = q2
PROPERTY ImplementsOneShot
CHECK_DEADLOCK FALSE
SYMMETRY AsSymmetry
