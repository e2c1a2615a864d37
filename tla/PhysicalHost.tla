---------------------------- MODULE PhysicalHost ----------------------------
(***************************************************************************)
(* internal/physicalhost: the monitor loop and the HTTP handlers share the *)
(* rows of physical_hosts.  Every operation loads the whole row, computes  *)
(* (a check also pings the host, for up to five seconds), and writes the   *)
(* whole row back; nothing locks the row or compares versions, so another  *)
(* process may write it in between.  One process is one goroutine; a step  *)
(* is one database statement, one ping or one announcement.                *)
(***************************************************************************)
EXTENDS HostLifecycle

CONSTANTS
  Loops,     \* the monitor-loop goroutine (main.go starts one)
  Requests,  \* HTTP request goroutines in flight at a time
  MaxFaults  \* bound: database errors and crashes in a behaviour

ASSUME ProcsAssumption == Loops \cap Requests = {} /\ MaxFaults \in Nat

Procs == Loops \cup Requests

VARIABLES
  up,       \* the addresses that answer a ping now
  proc,     \* what each process is doing
  todo,     \* each loop: the host ids of the current tick not yet checked
  fresh,    \* ghost: busy processes whose host nobody wrote since they loaded it
  audited,  \* whether the last maintenance audit row of each host is an enter
  faults    \* database errors and crashes so far

vars == <<rows, up, proc, todo, fresh, audited, faults>>

(***************************************************************************)
(* A busy process carries the row it loaded (pc = "probe"), or the row it  *)
(* will write (pc = "find", "save") or wrote (pc = "announce").            *)
(***************************************************************************)
IdleProc == [pc |-> "idle"]
Jobs == [pc   : {"probe", "find", "save", "announce"},
         op   : Ops,
         host : Hosts,
         row  : Rows]

Live(h)       == rows[h].live = "live"
Idle(p)       == proc[p].pc = "idle"
Busy(p, pc)   == proc[p].pc = pc
StaleOn(h)    == {q \in fresh : proc[q].host = h}   \* overtaken by a write of h

Init ==
  /\ AtomicInit
  /\ up \in SUBSET Addrs
  /\ proc = [p \in Procs |-> IdleProc]
  /\ todo = [l \in Loops |-> {}]
  /\ fresh = {}
  /\ audited = [h \in Hosts |-> FALSE]
  /\ faults = 0

-----------------------------------------------------------------------------
(* Get: a process loads the row and decides; a refusal leaves no job.      *)

Start(p, h, op, pc, row) ==
  /\ proc' = [proc EXCEPT ![p] = [pc |-> pc, op |-> op, host |-> h, row |-> row]]
  /\ fresh' = fresh \cup {p}
  /\ UNCHANGED <<rows, up, audited, faults>>

LoadForCheck(p, h) ==
  Start(p, h, "check", IF rows[h].maint THEN "find" ELSE "probe", rows[h])

RequestCheck(p, h) ==
  /\ p \in Requests /\ Idle(p) /\ Live(h)
  /\ LoadForCheck(p, h)
  /\ UNCHANGED todo

RequestEnter(p, h) ==
  /\ p \in Requests /\ Idle(p) /\ Live(h)
  /\ ~rows[h].maint
  /\ Start(p, h, "enter", "find", Entered(rows[h]))
  /\ UNCHANGED todo

\* Mutant: ExitMaintenance does not look whether the host is in maintenance.
RequestExitAnyway(p, h) ==
  /\ p \in Requests /\ Idle(p) /\ Live(h)
  /\ Start(p, h, "exit", "find", Exited(rows[h]))
  /\ UNCHANGED todo

RequestExit(p, h) ==
  /\ p \in Requests /\ Idle(p) /\ Live(h)
  /\ rows[h].maint
  /\ Start(p, h, "exit", "find", Exited(rows[h]))
  /\ UNCHANGED todo

RequestEdit(p, h) ==
  /\ p \in Requests /\ Idle(p) /\ Live(h)
  /\ \E r \in Edited(rows[h]) : Start(p, h, "edit", "find", r)
  /\ UNCHANGED todo

\* MonitorLoop.tick lists the live rows, then checks them one after the other.
Tick(l) ==
  /\ Idle(l) /\ todo[l] = {}
  /\ \E h \in Hosts : Live(h)
  /\ todo' = [todo EXCEPT ![l] = {h \in Hosts : Live(h)}]
  /\ UNCHANGED <<rows, up, proc, fresh, audited, faults>>

LoopCheck(l, h) ==
  /\ Idle(l) /\ h \in todo[l]
  /\ todo' = [todo EXCEPT ![l] = @ \ {h}]
  /\ IF Live(h) THEN LoadForCheck(l, h)
                ELSE UNCHANGED <<rows, up, proc, fresh, audited, faults>>

-----------------------------------------------------------------------------
(* The rest of an operation.                                               *)

\* Check: the ping of the address the process loaded, and what it decides.
Probe(p) ==
  /\ Busy(p, "probe")
  /\ proc' = [proc EXCEPT ![p].pc = "find",
                          ![p].row = IF @.addr \in up THEN ProbedUp(@) ELSE ProbedDown(@)]
  /\ UNCHANGED <<rows, up, todo, fresh, audited, faults>>

Finish(p) ==
  /\ proc' = [proc EXCEPT ![p] = IdleProc]
  /\ fresh' = fresh \ {p}

\* Repository.Update: First, which must see the row ...
UpdateFind(p) ==
  /\ Busy(p, "find")
  /\ IF Live(proc[p].host)
     THEN proc' = [proc EXCEPT ![p].pc = "save"] /\ UNCHANGED fresh
     ELSE Finish(p)
  /\ UNCHANGED <<rows, up, todo, audited, faults>>

\* ... then Save, which writes every column whether or not the row is there.
SaveRow(p, row) ==
  /\ rows' = [rows EXCEPT ![proc[p].host] = row]
  /\ proc' = [proc EXCEPT ![p] = IF @.op \in {"enter", "exit"}
                                 THEN [@ EXCEPT !.pc = "announce"]
                                 ELSE IdleProc]
  /\ fresh' = fresh \ StaleOn(proc[p].host)
  /\ UNCHANGED <<up, todo, audited, faults>>

\* Mutant: Updates in place of Save, which skips columns holding a zero value.
UpdateSaveNonZero(p) ==
  /\ Busy(p, "save")
  /\ LET old == rows[proc[p].host] IN
     SaveRow(p, [proc[p].row EXCEPT !.fails = IF @ = 0 THEN old.fails ELSE @,
                                    !.maint = @ \/ old.maint])

UpdateSave(p) == Busy(p, "save") /\ SaveRow(p, proc[p].row)

\* EnterMaintenance and ExitMaintenance emit their audit event after the write.
\* (Check publishes a device_event and a metrics snapshot, which no row depends on.)
Announce(p) ==
  /\ Busy(p, "announce")
  /\ audited' = [audited EXCEPT ![proc[p].host] = (proc[p].op = "enter")]
  /\ Finish(p)
  /\ UNCHANGED <<rows, up, todo, faults>>

Continue(p) == Probe(p) \/ UpdateFind(p) \/ UpdateSave(p) \/ Announce(p)

-----------------------------------------------------------------------------
(* Create and Delete are one statement each.                               *)

Create(p, h) ==
  /\ p \in Requests /\ Idle(p)
  /\ AtomicCreate(h)
  /\ UNCHANGED <<up, proc, todo, fresh, audited, faults>>

Delete(p, h) ==
  /\ p \in Requests /\ Idle(p)
  /\ AtomicDelete(h)
  /\ fresh' = fresh \ StaleOn(h)
  /\ UNCHANGED <<up, proc, todo, audited, faults>>

\* The network: an address starts or stops answering.
Flip(a) ==
  /\ up' = IF a \in up THEN up \ {a} ELSE up \cup {a}
  /\ UNCHANGED <<rows, proc, todo, fresh, audited, faults>>

-----------------------------------------------------------------------------
(* Faults: a database error ends an operation before its write; a crash of *)
(* the process ends every operation and the tick, and keeps the rows.      *)

Fault ==
  /\ faults < MaxFaults
  /\ faults' = faults + 1

DbError(p) ==
  /\ Fault
  /\ Busy(p, "find") \/ Busy(p, "save")
  /\ Finish(p)
  /\ UNCHANGED <<rows, up, todo, audited>>

Crash ==
  /\ Fault
  /\ \E p \in Procs : ~Idle(p)
  /\ proc' = [p \in Procs |-> IdleProc]
  /\ todo' = [l \in Loops |-> {}]
  /\ fresh' = {}
  /\ UNCHANGED <<rows, up, audited>>

Request(p, h) ==
  \/ RequestCheck(p, h)
  \/ RequestEnter(p, h)
  \/ RequestExit(p, h)
  \/ RequestEdit(p, h)
  \/ Create(p, h)
  \/ Delete(p, h)

LoopStep(l) ==
  \/ Tick(l)
  \/ \E h \in Hosts : LoopCheck(l, h)
  \/ Continue(l)

Next ==
  \/ \E p \in Requests, h \in Hosts : Request(p, h)
  \/ \E p \in Requests : Continue(p)
  \/ \E l \in Loops : LoopStep(l)
  \/ \E a \in Addrs : Flip(a)
  \/ \E p \in Procs : DbError(p)
  \/ Crash

Spec == Init /\ [][Next]_vars

(***************************************************************************)
(* Started goroutines run to their end (a ping and a write are bounded by  *)
(* a context of five seconds), and the loop's ticker keeps firing.         *)
(***************************************************************************)
Fairness ==
  /\ \A l \in Loops : WF_vars(LoopStep(l))
  /\ \A p \in Requests : WF_vars(Continue(p))

FairSpec == Spec /\ Fairness

-----------------------------------------------------------------------------
(* Every variable holds what the code can put in it.                       *)
TypeOK ==
  /\ rows \in [Hosts -> Rows]
  /\ up \in SUBSET Addrs
  /\ proc \in [Procs -> {IdleProc} \cup Jobs]
  /\ todo \in [Loops -> SUBSET Hosts]
  /\ fresh \in SUBSET {p \in Procs : ~Idle(p)}
  /\ audited \in [Hosts -> BOOLEAN]
  /\ faults \in 0..MaxFaults

(***************************************************************************)
(* models.go:36-41 and monitor.go:112-120: unless a client has named the   *)
(* state and the service not decided one since, the state column and the   *)
(* maintenance flag agree, a host in monitoring_issue has failed a probe,  *)
(* and an offline host has failed Threshold of them.  Every write is a     *)
(* whole row, so no interleaving of stale writers can mix two rows.        *)
(***************************************************************************)
Consistent(r) ==
  ~r.named => /\ r.maint <=> r.state = "maintenance"
              /\ r.state = "monitoring_issue" => r.fails >= 1
              /\ r.state = "offline" => r.fails >= Threshold

RowsConsistent == \A h \in Hosts : Consistent(rows[h])

(***************************************************************************)
(* Repository.Update compares nothing, so a write can undo what others     *)
(* wrote since the writer's Get.  That is the only way a row can change as *)
(* the service does not promise: every write that is not one atomic        *)
(* operation of HostLifecycle is the Save of an overtaken process.         *)
(***************************************************************************)
OvertakenSave == \E p \in Procs \ fresh : Busy(p, "save") /\ UpdateSave(p)
OnlyOvertakenSavesDiffer == [][AtomicNext \/ UNCHANGED rows \/ OvertakenSave]_vars

(***************************************************************************)
(* What the loop owes the operator.  Once requests leave a live host that  *)
(* is not in maintenance alone, and its address has stopped (started)      *)
(* answering for good, the loop takes it to offline (online) and keeps it  *)
(* there, whatever state and counter stale writers, crashes and the states *)
(* clients named left it with.  With one exception: a host a client named  *)
(* "maintenance", without entering it, is not taken offline for good, for  *)
(* Check has no branch for that state (monitor.go:170-180).                *)
(***************************************************************************)
LeftAlone(h) == Live(h) /\ ~rows[h].maint /\ \A p \in Requests : Idle(p) \/ proc[p].host # h
Answers(h)   == rows[h].addr \in up
Stranded(h)  == rows[h].state = "maintenance" /\ rows[h].named /\ ~rows[h].maint

DownHostsGoOffline ==
  \A h \in Hosts :
    <>[](LeftAlone(h) /\ ~Answers(h)) => <>[](rows[h].state = "offline") \/ <>[]Stranded(h)
UpHostsComeOnline ==
  \A h \in Hosts : <>[](LeftAlone(h) /\ Answers(h)) => <>[](rows[h].state = "online")

(***************************************************************************)
(* maintenance.go:45-47: "a host can only enter / exit maintenance via     *)
(* this service, so the audit row is guaranteed to be emitted".  As a      *)
(* state: unless an audit call is on its way, the last audit row tells     *)
(* whether a live host is in maintenance.                                  *)
(***************************************************************************)
AuditPending(h) == \E p \in Procs : Busy(p, "announce") /\ proc[p].host = h
AuditTellsMaintenance ==
  \A h \in Hosts : Live(h) => AuditPending(h) \/ audited[h] = rows[h].maint
=============================================================================
