---------------------------- MODULE ProjectAccess ----------------------------
(***************************************************************************)
(* Who may do what in which project: internal/auth (caller, rbac), the     *)
(* members of internal/project and the host links of internal/hostproject. *)
(* A request passes the gate of its route, then the checks of the service, *)
(* then writes, and members, links, projects and the device change in      *)
(* between.  Both tables are soft-deleted under a unique index that counts *)
(* deleted rows.                                                           *)
(***************************************************************************)
EXTENDS Integers, Sequences, SequencesExt, FiniteSets, Permissions

CONSTANTS
  Users,      \* callers that are no SuperAdmin
  Projects,
  MaxList,    \* bound: projects named in a bulk link
  MaxTouched  \* bound: rows other requests write

ASSUME AccessAssumption == MaxList \in Nat

Admin == "admin"   \* a SuperAdmin

VARIABLES
  dialect,   \* "sqlite" or "postgres"
  getter,    \* SetDeviceGetter was called: the tests do, main.go does not
  members,   \* project_members: no row, a member's row, or a revoked one
  links,     \* host_project_links of the device, in the same way
  there,     \* projects that are not deleted, and the device
  op         \* the request that is followed; others are seen by what they write

accessVars == <<dialect, getter, members, links, there, op>>

Device == "device"
NoOp == [pc |-> "idle"]
Kinds == {"assign", "revoke", "link", "bulk", "unlink", "host"}
RolesOf(u) == IF u = Admin THEN {"SuperAdmin"} ELSE {"Operator", "Developer"}
ProjectsOf(u) == {p \in Projects : members[p][u] = "live"}
Linked == {p \in Projects : links[p] = "live"}

AccessInit ==
  /\ dialect \in {"sqlite", "postgres"} /\ getter \in BOOLEAN
  /\ members = [p \in Projects |-> [u \in Users |-> "none"]]
  /\ links = [p \in Projects |-> "none"]
  /\ there = Projects \cup {Device}
  /\ op = NoOp

\* Ghosts of the request: projects its caller was a member of, projects that existed,
\* and links that were live, each at some moment since it began.
Seen(o) == [o EXCEPT !.member = @ \cup (IF o.caller = Admin THEN Projects ELSE
                                        {p \in Projects : members'[p][o.caller] = "live"}),
                     !.existed = @ \cup (there' \cap Projects),
                     !.linked = @ \cup {p \in Projects : links'[p] = "live"}]
SeenBy(o) == op' = IF o = NoOp THEN NoOp ELSE Seen(o)

OpGoes(pc) == SeenBy([op EXCEPT !.pc = pc])
Answers(outcome) == SeenBy([op EXCEPT !.pc = "done", !.outcome = outcome])

Begin(u, role, kind, list, target) ==
  /\ op = NoOp /\ role \in RolesOf(u)
  /\ kind # "bulk" => Len(list) = 1
  /\ UNCHANGED <<dialect, getter, members, links, there>>
  /\ SeenBy(
       [pc |-> IF kind = "host" THEN "links" ELSE "gate", kind |-> kind, caller |-> u, role |-> role,
        list |-> list, target |-> target, mine |-> {}, todo |-> list, unique |-> <<>>,
        ids |-> {}, made |-> {}, outcome |-> "none", member |-> {}, existed |-> {}, linked |-> {}])

-----------------------------------------------------------------------------
(* The gates.  RequirePermission looks at the global role, then            *)
(* RequireProjectAccess at the first project named; the caller's projects  *)
(* are read once in a request.  RequireAnyProjectAccess reads the links of *)
(* the host first.  The permission in a project is the global role's too:  *)
(* nothing fills User.ProjectRole.                                         *)

Needs(kind) == CASE kind \in {"assign", "revoke"} -> "projects.write"
                 [] kind = "host" -> "physicalhost.view"
                 [] OTHER -> "hostproject.write"

PermittedIn(o) == o.caller = Admin \/ HasPermissionInProject(o.role, "none", Needs(o.kind))
Permitted(o) == RoleHasPermission(o.role, Needs(o.kind)) /\ PermittedIn(o)
IsMemberOf(u, mine, p) == u = Admin \/ p \in mine

AfterGate(o) == CASE o.kind \in {"link", "bulk"} -> "device"
                  [] o.kind = "assign" -> "project"
                  [] OTHER -> "write"

\* Memberships that cannot be read, and a body that has been read already, refuse too.
Gate ==
  /\ op.pc = "gate"
  /\ UNCHANGED <<dialect, getter, members, links, there>>
  /\ IF ~Permitted(op) THEN Answers("refused")
     ELSE IF op.caller = Admin THEN OpGoes(AfterGate(op))
     ELSE LET mine == ProjectsOf(op.caller) IN
          \/ /\ op.list # <<>> /\ IsMemberOf(op.caller, mine, Head(op.list))
             /\ SeenBy([op EXCEPT !.mine = mine, !.pc = AfterGate(op)])
          \/ Answers("refused")

GateLinks ==
  /\ op.pc = "links"
  /\ UNCHANGED <<dialect, getter, members, links, there>>
  /\ CASE ~Permitted(op) -> Answers("refused")
       [] op.caller = Admin -> Answers("ok")
       [] Linked = {} -> Answers("refused")
       [] OTHER -> SeenBy([op EXCEPT !.pc = "any", !.ids = Linked])

GateAny ==
  /\ op.pc = "any"
  /\ UNCHANGED <<dialect, getter, members, links, there>>
  /\ LET mine == ProjectsOf(op.caller) IN
     Answers(IF \E p \in op.ids : IsMemberOf(op.caller, mine, p) THEN "ok" ELSE "refused")

-----------------------------------------------------------------------------
(* The checks of the services.                                             *)

CheckDevice ==
  /\ op.pc = "device"
  /\ UNCHANGED <<dialect, getter, members, links, there>>
  /\ IF getter /\ Device \in there
     THEN OpGoes(IF op.list = <<>> THEN "write" ELSE "project") ELSE Answers("refused")

\* Mutant: the projects after the first are only looked up.
AllowedFirst(o, p) == o.caller = Admin \/ p \in o.mine \/ p # Head(o.list)

\* requireMembership, by what the gate has read.
Allowed(o, p) == IsMemberOf(o.caller, o.mine, p)

\* GetProject of each project named, an ID met again skipped; the writes are of each once.
CheckProject ==
  /\ op.pc = "project"
  /\ UNCHANGED <<dialect, getter, members, links, there>>
  /\ LET p == Head(op.todo)
         again == p \in ToSet(op.unique)
         unique == IF again THEN op.unique ELSE Append(op.unique, p)
     IN IF ~again /\ ~(Allowed(op, p) /\ p \in there) THEN Answers("refused")
        ELSE IF Len(op.todo) > 1 THEN SeenBy([op EXCEPT !.todo = Tail(@), !.unique = unique])
        ELSE SeenBy([op EXCEPT !.todo = unique, !.unique = unique, !.pc = "write"])

-----------------------------------------------------------------------------
(* The writes, one statement each.  A row of the pair, live or not, makes  *)
(* an insert fail: isUniqueViolation knows the message of SQLite only.     *)

\* AddMember; a conflict updates the live row.  With Postgres's message the test itself
\* panics.
WriteAssign(p) ==
  /\ op.kind = "assign"
  /\ members' = IF members[p][op.target] = "none"
                THEN [members EXCEPT ![p][op.target] = "live"] ELSE members
  /\ UNCHANGED links
  /\ Answers(IF members[p][op.target] = "none" \/ dialect = "sqlite" THEN "ok" ELSE "failed")

WriteRevoke(p) ==
  /\ op.kind = "revoke"
  /\ members' = IF members[p][op.target] = "live"
                THEN [members EXCEPT ![p][op.target] = "deleted"] ELSE members
  /\ UNCHANGED links
  /\ Answers(IF members[p][op.target] = "live" THEN "ok" ELSE "failed")

WriteUnlink(p) ==
  /\ op.kind = "unlink"
  /\ links' = IF links[p] = "live" THEN [links EXCEPT ![p] = "deleted"] ELSE links
  /\ UNCHANGED members
  /\ Answers(IF links[p] = "live" THEN "ok" ELSE "failed")

\* BulkLink goes on after a conflict and stops at any other error, the links before it
\* kept; Link answers 409 or 500.
WriteLink(p) ==
  /\ op.kind \in {"link", "bulk"}
  /\ links' = IF links[p] = "none" THEN [links EXCEPT ![p] = "live"] ELSE links
  /\ UNCHANGED members
  /\ LET made == IF links[p] = "none" THEN op.made \cup {p} ELSE op.made
         stop == links[p] # "none" /\ (op.kind = "link" \/ dialect = "postgres")
     IN SeenBy([op EXCEPT !.made = made, !.todo = Tail(@),
                !.pc = IF stop \/ Len(op.todo) = 1 THEN "done" ELSE "write",
                !.outcome = IF stop THEN "failed"
                               ELSE IF Len(op.todo) = 1 THEN "ok" ELSE "none"])

WriteProject ==
  /\ op.pc = "write" /\ op.todo # <<>>
  /\ UNCHANGED <<dialect, getter, there>>
  /\ LET p == Head(op.todo) IN
     WriteAssign(p) \/ WriteRevoke(p) \/ WriteUnlink(p) \/ WriteLink(p)

\* A database error; and a bulk link of nothing.
WriteStops ==
  /\ op.pc = "write"
  /\ UNCHANGED <<dialect, getter, members, links, there>>
  /\ Answers(IF op.todo = <<>> THEN "ok" ELSE "failed")

ReturnOp ==
  /\ op.pc = "done"
  /\ UNCHANGED <<dialect, getter, members, links, there>>
  /\ SeenBy(NoOp)

\* What other requests write: a member added or revoked, a link made or undone, a project
\* or the device deleted (nobody calls OrphanByDevice, and members and links stay).
Later(row) == IF row = "none" THEN "live" ELSE "deleted"

Touched ==
  Cardinality({x \in Projects \X Users : members[x[1]][x[2]] # "none"})
  + Cardinality({p \in Projects : links[p] # "none"})
  + Cardinality((Projects \cup {Device}) \ there)

OtherMember(p, u) ==
  /\ Touched < MaxTouched /\ members[p][u] # "deleted"
  /\ members' = [members EXCEPT ![p][u] = Later(@)]
  /\ UNCHANGED <<dialect, getter, links, there>>
  /\ SeenBy(op)

OtherLink(p) ==
  /\ Touched < MaxTouched /\ links[p] # "deleted" /\ getter
  /\ links' = [links EXCEPT ![p] = Later(@)]
  /\ UNCHANGED <<dialect, getter, members, there>>
  /\ SeenBy(op)

Vanish(x) ==
  /\ Touched < MaxTouched /\ x \in there
  /\ there' = there \ {x}
  /\ UNCHANGED <<dialect, getter, members, links>>
  /\ SeenBy(op)

Checks == Gate \/ GateLinks \/ GateAny \/ CheckDevice \/ CheckProject

AccessNext ==
  \/ \E u \in Users \cup {Admin}, k \in Kinds, l \in SeqOf(Projects, MaxList), t \in Users :
       \E r \in RolesOf(u) : Begin(u, r, k, l, t)
  \/ Checks \/ WriteProject \/ WriteStops \/ ReturnOp
  \/ \E p \in Projects, u \in Users : OtherMember(p, u)
  \/ \E p \in Projects : OtherLink(p)
  \/ \E x \in Projects \cup {Device} : Vanish(x)

AccessSpec == AccessInit /\ [][AccessNext]_accessVars

-----------------------------------------------------------------------------
(* Every variable holds what the code can put in it.                       *)
AccessTypeOK ==
  /\ dialect \in {"sqlite", "postgres"} /\ getter \in BOOLEAN
  /\ members \in [Projects -> [Users -> {"none", "live", "deleted"}]]
  /\ links \in [Projects -> {"none", "live", "deleted"}]
  /\ there \subseteq Projects \cup {Device}
  /\ op = NoOp \/ op \in
       [pc : {"gate", "links", "any", "device", "project", "write", "done"}, kind : Kinds,
        caller : Users \cup {Admin}, role : AllRoles, list : Seq(Projects), target : Users,
        mine : SUBSET Projects, todo : Seq(Projects), unique : Seq(Projects),
        ids : SUBSET Projects, made : SUBSET Projects,
        outcome : {"none", "ok", "refused", "failed"},
        member : SUBSET Projects, existed : SUBSET Projects, linked : SUBSET Projects]

(***************************************************************************)
(* What a request does to its project it was entitled to, at a moment of   *)
(* its own: a Developer only looks; a link it made is of a project that    *)
(* existed and its caller was a member of, also when the gate has seen     *)
(* only the first of a list; a host was shown for a project that linked it *)
(* and had the caller as a member.  And an answer of success is kept to as *)
(* far as the unique indexes let it: the row of every pair named is in the *)
(* table, live or deleted (a pair once deleted is never live again:        *)
(* AssignMember and BulkLink then report a success that had no effect).    *)
(***************************************************************************)
MembershipTold ==
  op # NoOp =>
    /\ op.made \subseteq op.member \cap op.existed
    /\ op.role = "Developer" /\ op.outcome = "ok" => op.kind = "host" /\ op.made = {}
    /\ op.outcome = "ok" =>
         /\ op.kind \in {"link", "bulk"} => \A p \in ToSet(op.list) : links[p] # "none"
         /\ op.kind = "assign" => members[op.list[1]][op.target] # "none"
         /\ op.kind = "host" /\ op.caller # Admin => op.member \cap op.linked # {}
=============================================================================
