--------------------------- MODULE ProjectHierarchy ---------------------------
(***************************************************************************)
(* What internal/project promises about its hierarchy (BusinessLine,       *)
(* System, Project): creating, moving and deleting a project each check    *)
(* the tree and write one row in ONE step.  Module ProjectTree, in which   *)
(* the checks are separate database statements, is compared with it.       *)
(***************************************************************************)
EXTENDS Integers, FiniteSets

CONSTANTS
  Projects,   \* ids of projects rows (UUIDs, never reused)
  Top,        \* the parent of a BusinessLine: parent_id is NULL
  MaxDepth    \* types.go: 3

ASSUME HierarchyAssumption ==
  /\ Top \notin Projects
  /\ IsFiniteSet(Projects)
  /\ MaxDepth \in Nat \ {0}

Rows == [live : {"absent", "live", "deleted"}, parent : Projects \cup {Top}]

VARIABLE rows

Live(n)     == rows[n].live = "live"
Children(S) == {c \in Projects : Live(c) /\ rows[c].parent \in S}

(***************************************************************************)
(* The way up from n, as the parent_id columns lead: Line(n) holds n and   *)
(* its ancestors, the first deleted one included (it is in every set that  *)
(* has n and the parents of its live members); n is Rooted unless the way  *)
(* runs into a cycle.                                                      *)
(***************************************************************************)
UpClosed(S) == \A m \in S : Live(m) => rows[m].parent \in S \cup {Top}

Line(n)     == {m \in Projects : \A S \in SUBSET Projects : n \in S /\ UpClosed(S) => m \in S}
Last(m)     == ~Live(m) \/ rows[m].parent = Top
Rooted(n)   == \E m \in Line(n) : Last(m)
Traced(n)   == Rooted(n) /\ \A m \in Line(n) : Live(m)   \* GetAncestors returns
Depth(n)    == Cardinality(Line(n))
Below(n)    == {m \in Projects : Live(m) /\ n \in Line(m)}

MayHold(q)  == Live(q) /\ Traced(q) /\ Depth(q) + 1 <= MaxDepth

Init == rows = [n \in Projects |-> [live |-> "absent", parent |-> Top]]

AtomicCreate(n, q) ==
  /\ rows[n].live = "absent"
  /\ q = Top \/ MayHold(q)
  /\ rows' = [rows EXCEPT ![n] = [live |-> "live", parent |-> q]]

\* A project is moved under another one, never back to the top.
AtomicMove(n, q) ==
  /\ Live(n) /\ Traced(n)
  /\ q \notin Below(n)
  /\ MayHold(q)
  /\ rows' = [rows EXCEPT ![n].parent = q]

AtomicDelete(n) ==
  /\ Live(n) /\ Children({n}) = {}
  /\ rows' = [rows EXCEPT ![n].live = "deleted"]

AtomicNext ==
  \E n \in Projects :
    \/ \E q \in Projects \cup {Top} : AtomicCreate(n, q)
    \/ \E q \in Projects : AtomicMove(n, q)
    \/ AtomicDelete(n)

AtomicSpec == Init /\ [][AtomicNext]_rows
=============================================================================
