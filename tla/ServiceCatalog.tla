--------------------------- MODULE ServiceCatalog ---------------------------
(***************************************************************************)
(* servicecatalog: the services, their on-call shifts and runbooks         *)
(* (service.go, repository.go, handler.go), the health rollup (health.go,  *)
(* multicluster_k8s.go) and the gauge it leaves behind (metrics.go).  Each *)
(* database statement is a step of its own.  A name stands for the labels  *)
(* of a service; times are small numbers.  Requests whose input does not   *)
(* validate, and the reads, change nothing and are left out.               *)
(***************************************************************************)
EXTENDS Integers, FiniteSets, Functions, Tables

CONSTANTS
  ServiceIds, ServiceNames, ShiftIds, NoteIds,
  Visitors,        \* requests under way at once
  MaxUses       \* bound: requests in a behaviour

ASSUME CatalogAssumption == MaxUses \in Nat

VARIABLES
  services,     \* the rows, soft-deleted ones too
  shifts,       \* on-call rows; checked is a ghost: the shifts there at its check
  notes,        \* runbook entries
  gauge,        \* the series of health_status; late is a ghost
  user,         \* each request
  uses          \* requests begun, for MaxUses

catalogVars == <<services, shifts, notes, gauge, user, uses>>

Global == ""     \* the scope of a shift without a service
Spans == {<<1, 2>>, <<2, 3>>, <<1, 3>>}
NotAsking == [pc |-> "idle"]
UserGoes(u, step) == user' = [user EXCEPT ![u] = step]
UserEnds(u) == UserGoes(u, NotAsking)
Found == {s \in DOMAIN services : ~services[s].gone}
NameTaken(s, name) == \E t \in DOMAIN services \ {s} : services[t].name = name

CatalogInit ==
  /\ services = <<>> /\ shifts = <<>> /\ notes = <<>> /\ gauge = <<>>
  /\ user = [u \in Visitors |-> NotAsking] /\ uses = 0

UserBegins(u) == user[u] = NotAsking /\ uses < MaxUses /\ uses' = uses + 1

-----------------------------------------------------------------------------
(* Services.  The unique index on the name holds deleted rows as well;     *)
(* Updates writes what the request changed or read into a row still there. *)

CreateService(u, s, name) ==
  /\ UserBegins(u) /\ s \notin DOMAIN services /\ ~NameTaken(s, name)
  /\ services' = Put(services, s, [name |-> name, gone |-> FALSE])
  /\ UNCHANGED <<shifts, notes, gauge, user>>

\* Every other write, and the health check, first loads its service.
Load(u, s, step) ==
  /\ UserBegins(u) /\ s \in Found
  /\ UserGoes(u, step)
  /\ UNCHANGED <<services, shifts, notes, gauge>>

AskRename(u, s, name) == Load(u, s, [pc |-> "update", service |-> s, name |-> name])

UpdateService(u) ==
  /\ user[u].pc = "update" /\ UserEnds(u)
  /\ LET s == user[u].service IN
     services' = IF s \in Found /\ ~NameTaken(s, user[u].name)
                 THEN [services EXCEPT ![s].name = user[u].name] ELSE services
  /\ UNCHANGED <<shifts, notes, gauge, uses>>

\* Mutant: the gauge is left alone.
SoftDeleteOnly(u, s) ==
  /\ UserBegins(u) /\ s \in Found
  /\ services' = [services EXCEPT ![s].gone = TRUE]
  /\ UNCHANGED <<shifts, notes, gauge, user>>

SoftDelete(u, s) ==
  /\ UserBegins(u) /\ s \in Found
  /\ services' = [services EXCEPT ![s].gone = TRUE]
  /\ UserGoes(u, [pc |-> "reset", service |-> s])
  /\ UNCHANGED <<shifts, notes, gauge>>

\* Then the handler drops every series of the service.
Reset(u) ==
  /\ user[u].pc = "reset" /\ UserEnds(u)
  /\ gauge' = Restrict(gauge, {l \in DOMAIN gauge : l.service # user[u].service})
  /\ UNCHANGED <<services, shifts, notes, uses>>

-----------------------------------------------------------------------------
(* On-call shifts: load the service, look for an overlap in the scope,     *)
(* insert.  A global shift has no service.  A shift is deleted by its own  *)
(* id, whatever service the request names.                                 *)

AskShift(u, s, scope, span) ==
  Load(u, s, [pc |-> "overlap", scope |-> IF scope = "global" THEN Global ELSE s, span |-> span])

Overlap(a, b) == a.scope = b.scope /\ a.span[1] < b.span[2] /\ a.span[2] > b.span[1]

\* Mutant: a shift within another one is not seen as an overlap.
HasOverlapAtStart(u) ==
  \E i \in DOMAIN shifts : /\ shifts[i].scope = user[u].scope
                           /\ shifts[i].span[1] = user[u].span[1]

HasOverlappingOnCall(u) == \E i \in DOMAIN shifts : Overlap(shifts[i], user[u])

CheckOverlap(u) ==
  /\ user[u].pc = "overlap"
  /\ IF HasOverlappingOnCall(u) THEN UserEnds(u)
     ELSE UserGoes(u, [pc |-> "insert", scope |-> user[u].scope, span |-> user[u].span,
                     checked |-> DOMAIN shifts])
  /\ UNCHANGED <<services, shifts, notes, gauge, uses>>

CreateOnCall(u) ==
  /\ user[u].pc = "insert" /\ UserEnds(u)
  /\ \E i \in ShiftIds \ DOMAIN shifts :
       shifts' = Put(shifts, i, [scope |-> user[u].scope, span |-> user[u].span,
                                 checked |-> user[u].checked])
  /\ UNCHANGED <<services, notes, gauge, uses>>

AskDropShift(u, s, i) == i \in DOMAIN shifts /\ Load(u, s, [pc |-> "drop shift", id |-> i])

\* An ID of a row that is gone names another row when it comes again: the ghosts forget it.
Forgets(x, id) == [x EXCEPT !.checked = @ \ {id}]

DeleteOnCall(u) ==
  /\ user[u].pc = "drop shift"
  /\ LET id == user[u].id IN
     /\ shifts' = [i \in DOMAIN shifts \ {id} |-> Forgets(shifts[i], id)]
     /\ user' = [v \in Visitors |-> IF v = u THEN NotAsking
                                   ELSE IF user[v].pc = "insert" THEN Forgets(user[v], id)
                                   ELSE user[v]]
  /\ UNCHANGED <<services, notes, gauge, uses>>

-----------------------------------------------------------------------------
(* Runbook entries: the same, with nothing to check.                       *)

AskNote(u, s) == Load(u, s, [pc |-> "note", service |-> s])

CreateRunbook(u) ==
  /\ user[u].pc = "note" /\ UserEnds(u)
  /\ \E i \in NoteIds \ DOMAIN notes : notes' = Put(notes, i, user[u].service)
  /\ UNCHANGED <<services, shifts, gauge, uses>>

AskDropNote(u, s, i) == i \in DOMAIN notes /\ Load(u, s, [pc |-> "drop note", id |-> i])

DeleteRunbook(u) ==
  /\ user[u].pc = "drop note" /\ UserEnds(u)
  /\ notes' = Restrict(notes, DOMAIN notes \ {user[u].id})
  /\ UNCHANGED <<services, shifts, gauge, uses>>

-----------------------------------------------------------------------------
(* GET /services/:id/health: load the service, roll up, record.  The walk  *)
(* over the clusters skips one without a client, and fails when one fails; *)
(* it matches deployments named like the service's ID, which is what the   *)
(* rollup hands it.  The latest run decides when nothing matches.          *)

ClusterAnswers == {"no match", "ready", "short", "zero", "failed"}
LatestRuns == {"none", "succeeded", "recent", "failed", "stuck"}

Rollup(answers, run) ==
  IF "failed" \in answers THEN [from |-> "k8s", status |-> "unknown"]
  ELSE IF answers \subseteq {"no match"}
  THEN [from |-> "run",
        status |-> CASE run = "none" -> "unknown"
                     [] run \in {"succeeded", "recent"} -> "healthy"
                     [] OTHER -> "degraded"]
  ELSE [from |-> "k8s", status |-> IF answers \subseteq {"no match", "ready"}
                                   THEN "healthy" ELSE "degraded"]

Healths == {Rollup(answers, run) : answers \in SUBSET ClusterAnswers, run \in LatestRuns}

AskHealth(u, s) ==
  s \in Found /\ Load(u, s, [pc |-> "health", service |-> s, name |-> services[s].name])

Record(u, h) ==
  /\ user[u].pc = "health" /\ UserEnds(u)
  /\ LET s == user[u].service IN
     gauge' = Put(gauge, [service |-> s, name |-> user[u].name, from |-> h.from],
                  [status |-> h.status, late |-> s \notin Found])
  /\ UNCHANGED <<services, shifts, notes, uses>>

\* The process ends and starts again: rows stay, series and requests do not.
CatalogRestart ==
  /\ gauge' = <<>> /\ user' = [u \in Visitors |-> NotAsking]
  /\ UNCHANGED <<services, shifts, notes, uses>>

CatalogNext ==
  \/ \E u \in Visitors, s \in ServiceIds, n \in ServiceNames :
       CreateService(u, s, n) \/ AskRename(u, s, n)
  \/ \E u \in Visitors, s \in ServiceIds : SoftDelete(u, s) \/ AskNote(u, s) \/ AskHealth(u, s)
  \/ \E u \in Visitors, s \in ServiceIds, g \in {"service", "global"}, p \in Spans : AskShift(u, s, g, p)
  \/ \E u \in Visitors, s \in ServiceIds, i \in ShiftIds : AskDropShift(u, s, i)
  \/ \E u \in Visitors, s \in ServiceIds, i \in NoteIds : AskDropNote(u, s, i)
  \/ \E u \in Visitors : \/ UpdateService(u) \/ Reset(u) \/ CheckOverlap(u) \/ CreateOnCall(u)
                      \/ DeleteOnCall(u) \/ CreateRunbook(u) \/ DeleteRunbook(u)
  \/ \E u \in Visitors, h \in Healths : Record(u, h)
  \/ CatalogRestart

CatalogSpec == CatalogInit /\ [][CatalogNext]_catalogVars

-----------------------------------------------------------------------------
(* Every variable holds what the code can put in it.                       *)
CatalogTypeOK ==
  /\ DOMAIN services \subseteq ServiceIds
  /\ \A s \in DOMAIN services : services[s] \in [name : ServiceNames, gone : BOOLEAN]
  /\ DOMAIN shifts \subseteq ShiftIds /\ DOMAIN notes \subseteq NoteIds
  /\ \A i \in DOMAIN shifts : shifts[i].scope \in ServiceIds \cup {Global} /\ shifts[i].span \in Spans
  /\ DOMAIN user = Visitors /\ uses \in 0..MaxUses

(***************************************************************************)
(* Two shifts of one scope overlap only if neither was there when the      *)
(* other was checked; and a deleted service keeps a series only while its  *)
(* delete is about to drop it, or if a health check that had loaded the    *)
(* service recorded after the delete.                                      *)
(***************************************************************************)
ShiftsTold ==
  /\ \A i, j \in DOMAIN shifts :
       i # j /\ Overlap(shifts[i], shifts[j]) => i \notin shifts[j].checked
  /\ \A l \in DOMAIN gauge :
       l.service \in Found \/ gauge[l].late
         \/ \E u \in Visitors : user[u].pc = "reset" /\ user[u].service = l.service
=============================================================================
