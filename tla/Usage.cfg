SPECIFICATION Spec
CONSTANTS
  c1 = c1
  c2 = c2
  p1 = p1
  m1 = m1
  m2 = m2
  e1 = e1
  e2 = e2
  Clients = {c1, c2}
  Prompts = {p1}
  Models = {m1, m2}
  Primary <- MCPrimary
  Executions = {e1, e2}
  MaxPast = 1
  MaxMonth = 2
  MaxStarts = 3
SYMMETRY Symmetric
CHECK_DEADLOCK FALSE
INVARIANTS
  TypeOK
  NeverOvercounted
  MarkedIsComplete
