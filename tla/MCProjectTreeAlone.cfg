\* One request at a time and a project more than there are levels.
SPECIFICATION Spec
CONSTANTS
  Projects = {p1, p2, p3, p4}
  Top = Top
  MaxDepth = 3
  Requests = {r1}
INVARIANTS HierarchyHolds
PROPERTIES AtomicSpec
CHECK_DEADLOCK FALSE
