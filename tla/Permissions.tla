------------------------------ MODULE Permissions ------------------------------
(***************************************************************************)
(* auth/rbac: which role holds which permission (matrix.go, service.go),   *)
(* and how roles rank (pkg/contracts/user.go).  All of it is constant.     *)
(***************************************************************************)
EXTENDS Integers

DeveloperPermissions ==
  {"devices.view", "projects.view", "discovery.view", "k8s.resources.view", "k8s.logs.view",
   "pipelines.view", "services.view", "physicalhost.view", "logs.view", "metrics.view",
   "alerts.view"}

allPermissions == DeveloperPermissions \cup
  {"devices.config.modify", "devices.execute", "devices.restart", "devices.write",
   "device_groups.write", "templates.write", "projects.write", "hostproject.write",
   "discovery.run", "k8s.clusters.write", "k8s.pods.exec", "pipelines.write",
   "services.write", "physicalhost.write", "physicalhost.probe",
   "physicalhost.maintenance", "audit.view", "logs.write", "metrics.write", "alerts.write"}

\* The permission of the scoped auditors is declared and not in allPermissions.
Permissions == allPermissions \cup {"audit.view.project"}

RolePermissions ==
  [SuperAdmin |-> allPermissions,
   Operator |-> allPermissions \ {"devices.restart"},
   Developer |-> DeveloperPermissions,
   Auditor |-> DeveloperPermissions \cup {"audit.view"},
   ScopedAuditor |-> DeveloperPermissions \cup {"audit.view", "audit.view.project"}]

\* A ProjectAdmin holds nothing by the matrix.
AllRoles == DOMAIN RolePermissions \cup {"ProjectAdmin"}

RoleHasPermission(r, p) == r \in DOMAIN RolePermissions /\ p \in RolePermissions[r]

\* A role of the project decides alone; without one the global role does.
HasPermissionInProject(r, projectRole, p) ==
  CASE projectRole = "admin" -> TRUE
    [] projectRole = "editor" -> p \in {"devices.view", "devices.config.modify", "devices.execute"}
    [] projectRole = "viewer" -> p = "devices.view"
    [] OTHER -> RoleHasPermission(r, p)

roleRank ==
  [SuperAdmin |-> 4, Operator |-> 3, Developer |-> 2, Auditor |-> 1, ProjectAdmin |-> 0,
   ScopedAuditor |-> -1]

\* ldap's mapRole: the highest of the roles the groups stand for.
mapRole(roles) ==
  LET known == {r \in roles : roleRank[r] >= 0} \cup {"ProjectAdmin"} IN
  CHOOSE r \in known : \A s \in known : roleRank[r] >= roleRank[s]

(***************************************************************************)
(* "A higher role implicitly has all permissions of a lower role"          *)
(* (contracts/user.go), but for the audit log: one more group never takes  *)
(* anything else from a user.                                              *)
(***************************************************************************)
RanksKeepPermissions ==
  \A roles \in SUBSET AllRoles, r \in AllRoles, p \in Permissions :
    RoleHasPermission(mapRole(roles), p) =>
      RoleHasPermission(mapRole(roles \cup {r}), p) \/ p = "audit.view"
=============================================================================
