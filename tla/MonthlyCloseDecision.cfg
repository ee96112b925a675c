SPECIFICATION Spec
CONSTANTS
  Requests = {r1, r2}
  NoRequest = NoRequest
  MaxWrites = 3
PROPERTY DecisionStands
SYMMETRY RequestSymmetry
