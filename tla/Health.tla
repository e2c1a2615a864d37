-------------------------------- MODULE Health --------------------------------
(***************************************************************************)
(* health/health.go: one /ready request.  Checker.Run starts a goroutine   *)
(* per dependency; each has the same time to answer, writes its row under  *)
(* a mutex, and Run reports when all have.  main.go answers /health with a *)
(* constant: the Checker is built by the package's tests alone.            *)
(***************************************************************************)
EXTENDS Integers, FiniteSets

CONSTANTS
  Reachable,   \* the ids of the clusters registered
  CheckCap     \* ticks a check may take (2 s)

VARIABLES
  configured,  \* the dependencies this deployment has
  probe,       \* what each check does
  row,         \* the rows of the report
  spent,      \* ticks since Run began, at most one past the CheckCap
  left,        \* the client has gone, and cancelled the request: "no", "early", or "late"
  report,      \* "none", "wait", or the status answered
  fine, broken \* ghosts: who answered well, and who did not

healthVars == <<configured, probe, row, spent, left, report, fine, broken>>

Dependencies == {"db", "ldap", "k8s", "k8s_api"}

ASSUME HealthAssumption ==
  CheckCap \in Nat /\ IsFiniteSet(Reachable) /\ Reachable \cap Dependencies = {}

Asked == [pc |-> "ask"]
Ready == [pc |-> "ready"]

HealthInit ==
  /\ configured \in SUBSET Dependencies
  /\ probe = [d \in Dependencies |-> Ready] /\ row = [d \in Dependencies |-> "none"]
  /\ spent = 0 /\ left = "no" /\ report = "none" /\ fine = {} /\ broken = {}

Run ==
  /\ report = "none" /\ report' = "wait"
  /\ probe' = [d \in Dependencies |-> IF d = "k8s" THEN [pc |-> "list"] ELSE Asked]
  /\ UNCHANGED <<configured, row, spent, left, fine, broken>>

\* A check's own context is done by its deadline, or because the client has gone.
Over == spent >= CheckCap
Done == Over \/ left # "no"

\* The row a check writes when it ends.
Writes(d, status) ==
  /\ row' = [row EXCEPT ![d] = status]
  /\ probe' = [probe EXCEPT ![d] = Ready]
  /\ UNCHANGED <<configured, spent, left, report>>

\* What ended the check's context first, its deadline or the client, is its error.
classifyErr == IF Over /\ left # "early" THEN "timeout" ELSE "down"

Skip(d) ==
  /\ probe[d].pc \in {"ask", "list"} /\ d \notin configured
  /\ Writes(d, "skipped") /\ UNCHANGED <<fine, broken>>

\* The database, the directory or the URL answers.
Answer(d) ==
  /\ probe[d] = Asked /\ d \in configured
  /\ \/ Writes(d, "ok") /\ fine' = fine \cup {d} /\ UNCHANGED broken
     \/ Writes(d, classifyErr) /\ broken' = broken \cup {d} /\ UNCHANGED fine

\* Or its context is done first.
GivesUp(d) ==
  /\ probe[d] = Asked /\ d \in configured /\ Done
  /\ Writes(d, classifyErr) /\ UNCHANGED <<fine, broken>>

\* checkK8s reads the clusters' ids; the query does not look at the context.
ListClusters ==
  /\ probe["k8s"].pc = "list" /\ "k8s" \in configured
  /\ \/ Writes("k8s", classifyErr) /\ broken' = broken \cup {"k8s"} /\ UNCHANGED fine
     \/ \E ids \in SUBSET Reachable :
          IF ids = {} THEN Writes("k8s", "ok") /\ UNCHANGED <<fine, broken>>
          ELSE /\ probe' = [probe EXCEPT !["k8s"] = [pc |-> "ping", ids |-> ids, todo |-> ids, healthy |-> 0]]
               /\ UNCHANGED <<configured, row, spent, left, report, fine, broken>>

\* Then pings each cluster, one after the other, in what is left of the same time.
Ping(id) ==
  LET p == probe["k8s"] IN
  /\ p.pc = "ping" /\ id \in p.todo
  /\ \E well \in BOOLEAN :
       /\ well => ~Done
       /\ probe' = [probe EXCEPT !["k8s"].todo = @ \ {id}, !["k8s"].healthy = IF well THEN @ + 1 ELSE @]
       /\ fine' = IF well THEN fine \cup {id} ELSE fine
       /\ broken' = IF well \/ Done THEN broken ELSE broken \cup {id}
  /\ UNCHANGED <<configured, row, spent, left, report>>

RollUp ==
  LET p == probe["k8s"] IN
  /\ p.pc = "ping" /\ p.todo = {}
  /\ Writes("k8s", IF p.healthy = Cardinality(p.ids) THEN "ok" ELSE "down")
  /\ UNCHANGED <<fine, broken>>

\* Mutant: the report does not wait for the cluster rollup.
ReportEarly ==
  /\ report = "wait" /\ \A d \in Dependencies \ {"k8s"} : row[d] # "none"
  /\ report' = IF \E d \in Dependencies : row[d] \in {"down", "timeout"} THEN "down" ELSE "ok"
  /\ UNCHANGED <<configured, probe, row, spent, left, fine, broken>>

\* aggregateStatus, after Wait: what is skipped does not count.
Report ==
  /\ report = "wait" /\ \A d \in Dependencies : row[d] # "none"
  /\ report' = IF \E d \in Dependencies : row[d] \in {"down", "timeout"} THEN "down" ELSE "ok"
  /\ UNCHANGED <<configured, probe, row, spent, left, fine, broken>>

\* Time passes the deadline only when every check that looks at it has ended.
HealthTick ==
  /\ report = "wait" /\ spent <= CheckCap
  /\ spent = CheckCap => \A d \in configured : probe[d].pc \in {"ready", "list"}
  /\ spent' = spent + 1
  /\ UNCHANGED <<configured, probe, row, left, report, fine, broken>>

Leaves ==
  /\ report = "wait" /\ left = "no" /\ left' = IF Over THEN "late" ELSE "early"
  /\ UNCHANGED <<configured, probe, row, spent, report, fine, broken>>

HealthNext ==
  \/ Run \/ ListClusters \/ RollUp \/ Report \/ HealthTick \/ Leaves
  \/ \E d \in Dependencies : Skip(d) \/ Answer(d) \/ GivesUp(d)
  \/ \E id \in Reachable : Ping(id)

HealthSpec == HealthInit /\ [][HealthNext]_healthVars

-----------------------------------------------------------------------------
(* Every variable holds what the code can put in it.                       *)
HealthTypeOK ==
  /\ configured \subseteq Dependencies /\ spent \in 0..(CheckCap + 1) /\ left \in {"no", "early", "late"}
  /\ row \in [Dependencies -> {"none", "ok", "down", "timeout", "skipped"}]
  /\ report \in {"none", "wait", "ok", "down"}
  /\ \A d \in Dependencies : probe[d].pc \in {"ready", "ask", "list", "ping"}

(***************************************************************************)
(* What /ready says of this deployment was seen by this request: "ok" when *)
(* every dependency it has answered well (of the clusters, all that were   *)
(* listed), and something else, while the client waits, only because one   *)
(* answered badly or CheckCap passed.  A timeout is told only of time that *)
(* was up before the client left; clusters that ran out of it are "down"   *)
(* (health.go, Run: "reported as timeout, never down").                    *)
(***************************************************************************)
ReportTold ==
  /\ report = "ok" =>
       /\ configured \ {"k8s"} \subseteq fine
       /\ "k8s" \in configured => row["k8s"] = "ok" /\ broken \cap Reachable = {}
  /\ report = "down" => left # "no" \/ broken # {} \/ Over
  /\ \A d \in Dependencies : row[d] = "timeout" => Over /\ left # "early"
=============================================================================
