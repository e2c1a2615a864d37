----------------------------- MODULE ProjectTree -----------------------------
(***************************************************************************)
(* internal/project: requests that create, move and delete projects while  *)
(* others do the same.  Every check reads the database one statement at a  *)
(* time (GetAncestors one row, GetTree one level), no transaction joins    *)
(* the checks to the write, and the write itself compares nothing.         *)
(***************************************************************************)
EXTENDS ProjectHierarchy

CONSTANT Requests   \* HTTP request goroutines in flight at a time

VARIABLES
  req,     \* each request: where it is, and what it still has to check
  fresh,   \* ghost: busy requests during which nobody else wrote the tree
  clean,   \* ghost: every write so far was made by a fresh request
  grafted  \* ghost: a project that had children has been moved

vars == <<rows, req, fresh, clean, grafted>>

IdleReq == [pc |-> "idle"]
Jobs ==      \* node is created, moved or deleted; to is its (new) parent
  [pc : {"up"}, node : Projects, to : Projects, at : Projects, depth : 0..MaxDepth]
  \cup [pc : {"down"}, node : Projects, to : Projects, frontier : SUBSET Projects, found : BOOLEAN]
  \cup [pc : {"under", "own"}, node : Projects, to : Projects, at : Projects, depth : 0..MaxDepth]
  \cup [pc : {"insert", "commit"}, node : Projects, to : Projects \cup {Top}]
  \cup [pc : {"drop"}, node : Projects]

Idle(r)     == req[r].pc = "idle"
At(r, l)    == req[r].pc = l
Known(q)    == q # Top => rows[q].live # "absent"      \* an id that a client has seen

Start(r, job) ==
  /\ req' = [req EXCEPT ![r] = job]
  /\ fresh' = fresh \cup {r}
  /\ UNCHANGED <<rows, clean, grafted>>

Become(r, job) ==
  /\ req' = [req EXCEPT ![r] = job]
  /\ fresh' = IF job = IdleReq THEN fresh \ {r} ELSE fresh
  /\ UNCHANGED <<rows, clean, grafted>>

Write(r, row) ==
  /\ rows' = [rows EXCEPT ![req[r].node] = row]
  /\ req' = [req EXCEPT ![r] = IdleReq]
  /\ fresh' = {}
  /\ clean' = (clean /\ r \in fresh)

TreeInit ==
  /\ Init
  /\ req = [r \in Requests |-> IdleReq]
  /\ fresh = {} /\ clean = TRUE /\ grafted = FALSE

-----------------------------------------------------------------------------
(* GetAncestors, a row at a time: at is the row to read next, depth the    *)
(* number read; it ends without a result at a row that is not there.       *)

\* The checks tell depths apart up to MaxDepth only.
Deeper(d) == IF d < MaxDepth THEN d + 1 ELSE d

\* One row of the walk of request r, d its depth then; after the last row, next.
Ascend(r, d, next) ==
  LET j == req[r] IN
  IF ~Live(j.at) THEN Become(r, IdleReq)
  ELSE IF rows[j.at].parent = Top THEN Become(r, next)
  ELSE Become(r, [j EXCEPT !.at = rows[j.at].parent, !.depth = d])

-----------------------------------------------------------------------------
(* CreateProject.                                                          *)

StartCreate(r, n, q) ==
  /\ Idle(r) /\ rows[n].live = "absent" /\ Known(q)
  /\ \A s \in Requests : ~Idle(s) => req[s].node # n     \* a new id
  /\ Start(r, IF q = Top THEN [pc |-> "insert", node |-> n, to |-> Top]
              ELSE [pc |-> "up", node |-> n, to |-> q, at |-> q, depth |-> 0])

CreateDepth(r) ==
  LET j == req[r]
      d == Deeper(j.depth)
  IN  /\ At(r, "up")
      /\ Ascend(r, d, IF d + 1 > MaxDepth THEN IdleReq
                      ELSE [pc |-> "insert", node |-> j.node, to |-> j.to])

Insert(r) ==
  /\ At(r, "insert")
  /\ Write(r, [live |-> "live", parent |-> req[r].to])
  /\ UNCHANGED grafted

-----------------------------------------------------------------------------
(* UpdateProject with a parent_id: Get, GetTree, the depth of the new      *)
(* parent, that of the project itself (whose value nothing uses), the      *)
(* UPDATE.                                                                 *)

StartMove(r, n, q) ==
  /\ Idle(r) /\ Live(n) /\ Known(q) /\ q # n
  /\ Start(r, [pc |-> "down", node |-> n, to |-> q, frontier |-> {n}, found |-> FALSE])

\* Mutant: GetTree keeps the nodes it has read in the frontier.
MoveTreeKeepsFrontier(r) ==
  LET j  == req[r]
      cs == Children(j.frontier)
  IN  /\ At(r, "down")
      /\ IF cs # {}
         THEN Become(r, [j EXCEPT !.frontier = @ \cup cs, !.found = @ \/ j.to \in cs])
         ELSE IF j.found THEN Become(r, IdleReq)
         ELSE Become(r, [pc |-> "under", node |-> j.node, to |-> j.to,
                         at |-> j.to, depth |-> 0])

\* Mutant: only the children of the project are compared with its new parent.
MoveTreeOneLevel(r) ==
  LET j  == req[r]
      cs == Children(j.frontier)
  IN  /\ At(r, "down")
      /\ IF cs # {}
         THEN Become(r, [j EXCEPT !.frontier = cs, !.found = j.to \in cs])
         ELSE IF j.found THEN Become(r, IdleReq)
         ELSE Become(r, [pc |-> "under", node |-> j.node, to |-> j.to,
                         at |-> j.to, depth |-> 0])

MoveTree(r) ==
  LET j  == req[r]
      cs == Children(j.frontier)
  IN  /\ At(r, "down")
      /\ IF cs # {}
         THEN Become(r, [j EXCEPT !.frontier = cs, !.found = @ \/ j.to \in cs])
         ELSE IF j.found THEN Become(r, IdleReq)
         ELSE Become(r, [pc |-> "under", node |-> j.node, to |-> j.to,
                         at |-> j.to, depth |-> 0])

MoveDepth(r) ==
  LET j == req[r]
      d == Deeper(j.depth)
  IN  /\ At(r, "under")
      /\ Ascend(r, d, [pc |-> "own", node |-> j.node, to |-> j.to, at |-> j.node, depth |-> d])

\* Mutant: the depth of the new parent is compared without the project itself.
MoveOwnDeeper(r) ==
  LET j == req[r] IN
  /\ At(r, "own")
  /\ Ascend(r, j.depth, IF j.depth > MaxDepth THEN IdleReq
                        ELSE [pc |-> "commit", node |-> j.node, to |-> j.to])

MoveOwn(r) ==
  LET j == req[r] IN
  /\ At(r, "own")
  /\ Ascend(r, j.depth, IF j.depth + 1 > MaxDepth THEN IdleReq
                        ELSE [pc |-> "commit", node |-> j.node, to |-> j.to])

\* The UPDATE finds no row when the project has been deleted since.
Commit(r) ==
  LET n == req[r].node IN
  /\ At(r, "commit")
  /\ IF Live(n)
     THEN /\ Write(r, [rows[n] EXCEPT !.parent = req[r].to])
          /\ grafted' = (grafted \/ Children({n}) # {})
     ELSE Become(r, IdleReq)

-----------------------------------------------------------------------------
(* DeleteProject: CountChildren, then the soft delete.                     *)

StartDelete(r, n) ==
  /\ Idle(r) /\ Live(n) /\ Children({n}) = {}
  /\ Start(r, [pc |-> "drop", node |-> n])

\* Mutant: the DELETE of a project that is not there any more is taken for done.
DropAgain(r) ==
  LET n == req[r].node IN
  /\ At(r, "drop")
  /\ Write(r, [rows[n] EXCEPT !.live = IF @ = "live" THEN "deleted" ELSE "gone"])
  /\ UNCHANGED grafted

Drop(r) ==
  LET n == req[r].node IN
  /\ At(r, "drop")
  /\ IF Live(n) THEN Write(r, [rows[n] EXCEPT !.live = "deleted"]) /\ UNCHANGED grafted
                ELSE Become(r, IdleReq)

Continue(r) ==
  \/ CreateDepth(r) \/ Insert(r)
  \/ MoveTree(r) \/ MoveDepth(r) \/ MoveOwn(r) \/ Commit(r)
  \/ Drop(r)

Request(r) ==
  \E n \in Projects :
    \/ \E q \in Projects \cup {Top} : StartCreate(r, n, q)
    \/ \E q \in Projects : StartMove(r, n, q)
    \/ StartDelete(r, n)

Next == \E r \in Requests : Request(r) \/ Continue(r)

Spec == TreeInit /\ [][Next]_vars

(* A request that has started goes on.                                     *)
FairSpec == Spec /\ \A r \in Requests : WF_vars(Continue(r))

-----------------------------------------------------------------------------
(* Every variable holds what the code can put in it.                       *)
TypeOK ==
  /\ rows \in [Projects -> Rows]
  /\ req \in [Requests -> {IdleReq} \cup Jobs]
  /\ fresh \subseteq {r \in Requests : ~Idle(r)}
  /\ clean \in BOOLEAN /\ grafted \in BOOLEAN

(***************************************************************************)
(* service.go:25-28: the service "ensures the hierarchy invariants (depth, *)
(* cycle, ...) hold".  It does while no request writes on the strength of  *)
(* a check that another request's write has overtaken: no cycle, no live   *)
(* project under a deleted one, and, as long as only projects without      *)
(* children are moved, no project below MaxDepth.                          *)
(***************************************************************************)
HierarchyHolds ==
  clean => \A n \in Projects : Live(n) => Traced(n) /\ (~grafted => Depth(n) <= MaxDepth)

(***************************************************************************)
(* A write that is not one atomic operation of ProjectHierarchy is made by *)
(* an overtaken request: there is no other way to break the hierarchy.     *)
(***************************************************************************)
OvertakenWrite == \E r \in Requests \ fresh : Insert(r) \/ Commit(r) \/ Drop(r)
OnlyOvertakenWritesDiffer == [][AtomicNext \/ UNCHANGED rows \/ OvertakenWrite]_vars

(***************************************************************************)
(* GetTree and GetAncestors loop until they run out of rows: once no       *)
(* request comes in any more, all that have started end, unless the tree   *)
(* has a cycle.                                                            *)
(***************************************************************************)
Continues      == \E r \in Requests : Continue(r)
NoMoreRequests == <>[][Continues]_vars
AllDone        == \A r \in Requests : Idle(r)
Cyclic         == \E n \in Projects : ~Rooted(n)
RequestsEnd    == NoMoreRequests => <>[](AllDone \/ Cyclic)

(***************************************************************************)
(* models.go:41-43: "The depth invariant is enforced by the service layer; *)
(* the schema does not need a CHECK constraint to be safe."                *)
(***************************************************************************)
DepthEnforced == \A n \in Projects : Live(n) /\ Rooted(n) => Depth(n) <= MaxDepth
=============================================================================
