---------------------------- MODULE HostLifecycle ----------------------------
(***************************************************************************)
(* What the physical-host service promises about one row of                *)
(* physical_hosts: every operation reads the row, decides and writes it in *)
(* ONE step.  The module holds the vocabulary of rows (states, the failure *)
(* counter, the maintenance flag), the pure decisions of the code          *)
(* (monitor.go, maintenance.go, handler.go) as functions from row to row,  *)
(* and the atomic specification the detailed module PhysicalHost is        *)
(* compared with.                                                          *)
(***************************************************************************)
EXTENDS Integers

CONSTANTS
  Hosts,           \* identifiers of physical_hosts rows (UUIDs, never reused)
  Addrs,           \* management addresses a row can point at
  Threshold,       \* consecutive failures that make a host offline (main.go: 3)
  MaxFails,        \* bound: the failure counter saturates here
  StateOverrides   \* the states API clients put in a POST or PUT body

States == {"online", "monitoring_issue", "offline", "maintenance"}

ASSUME LifecycleAssumption ==
  /\ Threshold \in Nat \ {0}
  /\ MaxFails \in Nat
  /\ MaxFails >= Threshold
  /\ StateOverrides \subseteq States

(***************************************************************************)
(* A row.  "absent" rows have not been created; "deleted" rows carry a     *)
(* deleted_at and are hidden from Get, List and Update's First.  "named"   *)
(* is no column but a ghost: the state is as a client's body named it, and *)
(* the service has not decided one since.                                  *)
(***************************************************************************)
Rows == [live  : {"absent", "live", "deleted"},
         state : States,
         fails : 0..MaxFails,
         maint : BOOLEAN,
         addr  : Addrs,
         named : BOOLEAN]

NewRow(s, a, n) ==
  [live |-> "live", state |-> s, fails |-> 0, maint |-> FALSE, addr |-> a, named |-> n]

OneMoreFailure(n) == IF n < MaxFails THEN n + 1 ELSE MaxFails

\* monitor.go, Check: the state an unreachable host is given, with n failures.
StateDown(s, n) ==
  CASE s = "online" -> "monitoring_issue"
    [] s = "monitoring_issue" /\ n >= Threshold -> "offline"
    [] OTHER -> s

\* Mutants of the decisions below, named for what they get wrong.
ProbedUpFromIssueOnly(r) ==
  [r EXCEPT !.state = IF @ = "offline" THEN @ ELSE "online", !.fails = 0]
ProbedDownAtOnce(r) ==
  [r EXCEPT !.fails = OneMoreFailure(@), !.named = FALSE,
            !.state = IF @ = "maintenance" THEN @ ELSE "offline"]
ProbedDownCountsFirst(r) ==
  [r EXCEPT !.fails = IF r.state = "online" THEN 1 ELSE @,
            !.state = StateDown(@, r.fails)]
ExitedStateless(r) == [r EXCEPT !.state = "", !.maint = FALSE]

\* monitor.go, Check: the branch of a reachable host.
ProbedUp(r) == [r EXCEPT !.state = "online", !.fails = 0, !.named = FALSE]

\* monitor.go, Check: the branch of an unreachable host.
ProbedDown(r) ==
  LET n == OneMoreFailure(r.fails)
  IN  [r EXCEPT !.state = StateDown(@, n),
                !.fails = n,
                !.named = @ /\ StateDown(r.state, n) = r.state]

\* maintenance.go: what EnterMaintenance and ExitMaintenance write.
Entered(r) == [r EXCEPT !.state = "maintenance", !.maint = TRUE, !.named = FALSE]
Exited(r)  == [r EXCEPT !.state = "online", !.maint = FALSE, !.named = FALSE]

\* handler.go, Create: a host is online unless the body names another state.
Created(a) == {NewRow("online", a, FALSE)} \cup {NewRow(s, a, TRUE) : s \in StateOverrides}

\* handler.go, Replace: the address and, when the body names one, the state.
Moved(r, a)       == [r EXCEPT !.addr = a]
EditedTo(r, a, s) == [Moved(r, a) EXCEPT !.state = s, !.named = TRUE]
Edited(r) == {Moved(r, a) : a \in Addrs} \cup
             {EditedTo(r, a, s) : a \in Addrs, s \in StateOverrides}

(***************************************************************************)
(* The rows operation op may write when it acts on row r; none when the    *)
(* operation refuses.  A host in maintenance is written back as it was.    *)
(***************************************************************************)
Outcomes(op, r) ==
  CASE op = "check" -> IF r.maint THEN {r} ELSE {ProbedUp(r), ProbedDown(r)}
    [] op = "enter" -> IF r.maint THEN {} ELSE {Entered(r)}
    [] op = "exit"  -> IF r.maint THEN {Exited(r)} ELSE {}
    [] op = "edit"  -> Edited(r)

Ops == {"check", "enter", "exit", "edit"}

-----------------------------------------------------------------------------
VARIABLE rows

AtomicInit ==
  rows \in [Hosts -> {[NewRow("online", a, FALSE) EXCEPT !.live = "absent"] : a \in Addrs}]

AtomicCreate(h) ==
  /\ rows[h].live = "absent"
  /\ \E a \in Addrs : \E row \in Created(a) : rows' = [rows EXCEPT ![h] = row]

AtomicDelete(h) ==
  /\ rows[h].live = "live"
  /\ rows' = [rows EXCEPT ![h].live = "deleted"]

AtomicOp(h) ==
  /\ rows[h].live = "live"
  /\ \E op \in Ops : \E r \in Outcomes(op, rows[h]) : rows' = [rows EXCEPT ![h] = r]

AtomicNext == \E h \in Hosts : AtomicCreate(h) \/ AtomicDelete(h) \/ AtomicOp(h)

AtomicSpec == AtomicInit /\ [][AtomicNext]_rows
=============================================================================
