\* One request at a time, three levels as in types.go: is the depth enforced?
SPECIFICATION Spec
CONSTANTS
  Projects = {p1, p2, p3, p4}
  Top = Top
  MaxDepth = 3
  Requests = {r1}
INVARIANTS DepthEnforced
CHECK_DEADLOCK FALSE
