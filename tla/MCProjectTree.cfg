\* Three projects and two requests at a time: cycles, orphans and moves of
\* whole subtrees all fit in, and MaxDepth alone keeps no cycle away.
SPECIFICATION FairSpec
CONSTANTS
  Projects = {p1, p2, p3}
  Top = Top
  MaxDepth = 3
  Requests = {r1, r2}
INVARIANTS TypeOK HierarchyHolds
PROPERTIES OnlyOvertakenWritesDiffer RequestsEnd
CHECK_DEADLOCK FALSE
