-------------------------- MODULE PhysicalHostProofs --------------------------
(***************************************************************************)
(* What TLAPS proves of PhysicalHost, for any number of hosts, addresses,  *)
(* loops and requests, any threshold and any number of faults.             *)
(***************************************************************************)
EXTENDS PhysicalHost, TLAPS

\* Writing a state and a counter of the right kind leaves a row.
LEMMA RowUpdate ==
  ASSUME NEW r \in Rows, NEW s \in States, NEW n \in 0..MaxFails, NEW b \in BOOLEAN
  PROVE  [r EXCEPT !.state = s, !.fails = n, !.named = b] \in Rows
BY LifecycleAssumption DEF Rows

LEMMA NewRowType ==
  ASSUME NEW s \in States, NEW a \in Addrs, NEW n \in BOOLEAN
  PROVE  NewRow(s, a, n) \in Rows
BY LifecycleAssumption DEF NewRow, Rows

LEMMA CreatedTypes ==
  ASSUME NEW a \in Addrs
  PROVE  Created(a) \subseteq Rows
<1>1. "online" \in States /\ StateOverrides \subseteq States
  BY LifecycleAssumption DEF States
<1> QED BY <1>1, NewRowType DEF Created

\* Soft-deleting a row, or not having created it yet, leaves a row.
LEMMA LiveUpdate ==
  ASSUME NEW r \in Rows, NEW l \in {"absent", "live", "deleted"}
  PROVE  [r EXCEPT !.live = l] \in Rows
BY DEF Rows

\* What Replace writes: the address, and the state if the body names one.
LEMMA EditedRows ==
  ASSUME NEW r \in Rows, NEW e \in Edited(r)
  PROVE  /\ e \in Rows
         /\ e.live = r.live /\ e.maint = r.maint /\ e.fails = r.fails
         /\ e.named = TRUE \/ (e.named = r.named /\ e.state = r.state)
<1>1. \/ \E a \in Addrs : e = Moved(r, a)
      \/ \E a \in Addrs, s \in StateOverrides : e = EditedTo(r, a, s)
  BY DEF Edited
<1>2. CASE \E a \in Addrs : e = Moved(r, a)
  BY <1>2 DEF Moved, Rows
<1>3. CASE \E a \in Addrs, s \in StateOverrides : e = EditedTo(r, a, s)
  <2>1. PICK a \in Addrs, s \in StateOverrides : e = EditedTo(r, a, s)
    BY <1>3
  <2>2. s \in States
    BY LifecycleAssumption
  <2> QED BY <2>1, <2>2 DEF EditedTo, Moved, Rows
<1> QED BY <1>1, <1>2, <1>3

(***************************************************************************)
(* The decisions of Check, MaintenanceService and Replace map rows to      *)
(* rows.                                                                   *)
(***************************************************************************)
LEMMA DecisionTypes ==
  ASSUME NEW r \in Rows
  PROVE  /\ ProbedUp(r) \in Rows
         /\ ProbedDown(r) \in Rows
         /\ Entered(r) \in Rows
         /\ Exited(r) \in Rows
         /\ Edited(r) \subseteq Rows
<1>1. ProbedUp(r) \in Rows
  <2>1. 0 \in 0..MaxFails /\ "online" \in States /\ FALSE \in BOOLEAN
    BY LifecycleAssumption DEF States
  <2> QED BY <2>1, RowUpdate DEF ProbedUp
<1>2. ProbedDown(r) \in Rows
  <2>1. PICK n \in 0..MaxFails : n = OneMoreFailure(r.fails)
    BY LifecycleAssumption DEF OneMoreFailure, Rows
  <2>2. PICK s \in States : s = StateDown(r.state, n)
    BY DEF StateDown, Rows, States
  <2>3. PICK b \in BOOLEAN : b = (r.named /\ s = r.state)
    BY DEF Rows
  <2>4. ProbedDown(r) = [r EXCEPT !.state = s, !.fails = n, !.named = b]
    BY <2>1, <2>2, <2>3 DEF ProbedDown
  <2>5. [r EXCEPT !.state = s, !.fails = n, !.named = b] \in Rows
    BY RowUpdate
  <2> QED BY <2>4, <2>5
<1>3. Entered(r) \in Rows
  BY DEF Entered, Rows, States
<1>4. Exited(r) \in Rows
  BY DEF Exited, Rows, States
<1>5. Edited(r) \subseteq Rows
  BY EditedRows
<1> QED BY <1>1, <1>2, <1>3, <1>4, <1>5

-----------------------------------------------------------------------------
(***************************************************************************)
(* Types.                                                                  *)
(***************************************************************************)
LEMMA JobTypes ==
  ASSUME TypeOK, NEW p \in Procs, proc[p].pc # "idle"
  PROVE  /\ proc[p] \in Jobs
         /\ proc[p].host \in Hosts
         /\ proc[p].row \in Rows
         /\ proc[p].op \in Ops
<1>1. proc[p] \in {IdleProc} \cup Jobs
  BY DEF TypeOK
<1>2. proc[p] # IdleProc
  BY DEF IdleProc
<1> QED BY <1>1, <1>2 DEF Jobs

\* Taking up a job, moving it on and finishing it keep the processes well typed.
LEMMA StartTypes ==
  ASSUME TypeOK, NEW p \in Procs, NEW h \in Hosts, NEW op \in Ops,
         NEW pc \in {"probe", "find"}, NEW row \in Rows,
         Start(p, h, op, pc, row), todo' \in [Loops -> SUBSET Hosts]
  PROVE  TypeOK'
<1> DEFINE j == [pc |-> pc, op |-> op, host |-> h, row |-> row]
<1>1. j \in Jobs /\ j.pc # "idle"
  BY DEF Jobs
<1>2. proc' = [proc EXCEPT ![p] = j] /\ fresh' = fresh \cup {p}
  BY DEF Start
<1> HIDE DEF j
<1>3. proc' \in [Procs -> {IdleProc} \cup Jobs]
  BY <1>1, <1>2 DEF TypeOK
<1>4. fresh' \in SUBSET {q \in Procs : proc'[q].pc # "idle"}
  BY <1>1, <1>2 DEF TypeOK, Idle
<1> QED BY <1>3, <1>4 DEF TypeOK, Start, Idle

LEMMA MoveOnTypes ==
  ASSUME TypeOK, NEW p \in Procs, NEW j \in Jobs, proc' = [proc EXCEPT ![p] = j]
  PROVE  /\ proc' \in [Procs -> {IdleProc} \cup Jobs]
         /\ {q \in Procs : ~Idle(q)} \subseteq {q \in Procs : ~Idle(q)}'
<1>1. j.pc # "idle"
  BY DEF Jobs
<1> QED BY <1>1 DEF TypeOK, Idle

LEMMA FinishTypes ==
  ASSUME TypeOK, NEW p \in Procs, Finish(p)
  PROVE  /\ proc' \in [Procs -> {IdleProc} \cup Jobs]
         /\ fresh' \in SUBSET {q \in Procs : ~Idle(q)}'
BY DEF TypeOK, Finish, Idle

LEMMA TypeInit == Init => TypeOK
<1> SUFFICES ASSUME Init PROVE TypeOK
  OBVIOUS
<1>1. \A a \in Addrs : [NewRow("online", a, FALSE) EXCEPT !.live = "absent"] \in Rows
  BY NewRowType, LiveUpdate DEF States
<1>2. rows \in [Hosts -> Rows]
  <2> DEFINE R == {[NewRow("online", a, FALSE) EXCEPT !.live = "absent"] : a \in Addrs}
  <2>1. rows \in [Hosts -> R] /\ R \subseteq Rows
    BY <1>1 DEF Init, AtomicInit
  <2> HIDE DEF R
  <2> QED BY <2>1
<1>3. proc \in [Procs -> {IdleProc} \cup Jobs] /\ fresh \in SUBSET {p \in Procs : ~Idle(p)}
  BY DEF Init
<1>4. faults \in 0..MaxFaults
  BY ProcsAssumption DEF Init
<1> QED BY <1>2, <1>3, <1>4 DEF Init, TypeOK

LEMMA TypeStep == TypeOK /\ [Next]_vars => TypeOK'
<1> SUFFICES ASSUME TypeOK, [Next]_vars PROVE TypeOK'
  OBVIOUS
<1> USE DEF Procs
<1>1. ASSUME NEW p \in Procs, NEW h \in Hosts, LoadForCheck(p, h),
             todo' \in [Loops -> SUBSET Hosts]
      PROVE  TypeOK'
  <2>1. rows[h] \in Rows
    BY DEF TypeOK
  <2>2. (IF rows[h].maint THEN "find" ELSE "probe") \in {"probe", "find"}
    OBVIOUS
  <2> QED BY <1>1, <2>1, <2>2, StartTypes DEF LoadForCheck, Ops
<1>2. ASSUME NEW p \in Requests, NEW h \in Hosts, Request(p, h)
      PROVE  TypeOK'
  <2>0. todo \in [Loops -> SUBSET Hosts] /\ rows[h] \in Rows
    BY DEF TypeOK
  <2>1. CASE RequestCheck(p, h)
    BY <2>0, <2>1, <1>1 DEF RequestCheck
  <2>2. CASE RequestEnter(p, h)
    BY <2>0, <2>2, StartTypes, DecisionTypes DEF RequestEnter, Ops
  <2>3. CASE RequestExit(p, h)
    BY <2>0, <2>3, StartTypes, DecisionTypes DEF RequestExit, Ops
  <2>4. CASE RequestEdit(p, h)
    BY <2>0, <2>4, StartTypes, DecisionTypes DEF RequestEdit, Ops
  <2>5. CASE Create(p, h)
    <3>1. PICK a \in Addrs : \E row \in Created(a) : rows' = [rows EXCEPT ![h] = row]
      BY <2>5 DEF Create, AtomicCreate
    <3>2. Created(a) \subseteq Rows
      BY CreatedTypes
    <3> QED BY <3>1, <3>2, <2>5 DEF Create, TypeOK, Idle
  <2>6. CASE Delete(p, h)
    <3>1. [rows[h] EXCEPT !.live = "deleted"] \in Rows
      BY <2>0, LiveUpdate
    <3> QED BY <3>1, <2>6 DEF Delete, AtomicDelete, TypeOK, Idle
  <2> QED BY <1>2, <2>1, <2>2, <2>3, <2>4, <2>5, <2>6 DEF Request
<1>3. ASSUME NEW p \in Procs, Continue(p)
      PROVE  TypeOK'
  <2>0. proc[p] \in Jobs /\ proc[p].host \in Hosts /\ proc[p].row \in Rows
    <3>1. proc[p].pc # "idle"
      BY <1>3 DEF Continue, Probe, UpdateFind, UpdateSave, Announce, Busy
    <3> QED BY <3>1, JobTypes
  <2>1. CASE Probe(p)
    <3> DEFINE r == IF proc[p].row.addr \in up THEN ProbedUp(proc[p].row)
                                               ELSE ProbedDown(proc[p].row)
               j == [proc[p] EXCEPT !.pc = "find", !.row = r]
    <3>1. r \in Rows
      BY <2>0, DecisionTypes
    <3>2. proc' = [proc EXCEPT ![p] = j]
      BY <2>1 DEF Probe, TypeOK
    <3>3. j \in Jobs
      <4> HIDE DEF r
      <4> QED BY <2>0, <3>1 DEF Jobs
    <3> HIDE DEF j
    <3> QED BY <2>1, <3>2, <3>3, MoveOnTypes DEF Probe, TypeOK
  <2>2. CASE UpdateFind(p)
    <3>1. CASE Live(proc[p].host)
      <4> DEFINE j == [proc[p] EXCEPT !.pc = "save"]
      <4>1. j \in Jobs /\ proc' = [proc EXCEPT ![p] = j]
        BY <2>0, <2>2, <3>1 DEF UpdateFind, Jobs, TypeOK
      <4> HIDE DEF j
      <4> QED BY <2>2, <3>1, <4>1, MoveOnTypes DEF UpdateFind, TypeOK
    <3>2. CASE ~Live(proc[p].host)
      BY <2>2, <3>2, FinishTypes DEF UpdateFind, TypeOK
    <3> QED BY <3>1, <3>2
  <2>3. CASE UpdateSave(p)
    <3>1. rows' \in [Hosts -> Rows]
      BY <2>0, <2>3 DEF UpdateSave, SaveRow, TypeOK
    <3>2. CASE proc[p].op \in {"enter", "exit"}
      <4> DEFINE j == [proc[p] EXCEPT !.pc = "announce"]
      <4>1. j \in Jobs /\ proc' = [proc EXCEPT ![p] = j]
        BY <2>0, <2>3, <3>2 DEF UpdateSave, SaveRow, Jobs, TypeOK
      <4> HIDE DEF j
      <4> QED BY <2>3, <3>1, <4>1, MoveOnTypes DEF UpdateSave, SaveRow, TypeOK
    <3>3. CASE proc[p].op \notin {"enter", "exit"}
      <4>1. proc' = [proc EXCEPT ![p] = IdleProc] /\ fresh' = fresh \ StaleOn(proc[p].host)
        BY <2>3, <3>3 DEF UpdateSave, SaveRow, TypeOK
      <4>2. p \in fresh => p \in StaleOn(proc[p].host)
        BY DEF StaleOn
      <4>3. fresh' \in SUBSET {q \in Procs : ~Idle(q)}'
        BY <4>1, <4>2 DEF TypeOK, Idle
      <4> QED BY <2>3, <3>1, <4>1, <4>3 DEF UpdateSave, SaveRow, TypeOK
    <3> QED BY <3>2, <3>3
  <2>4. CASE Announce(p)
    BY <2>0, <2>4, FinishTypes DEF Announce, TypeOK
  <2> QED BY <1>3, <2>1, <2>2, <2>3, <2>4 DEF Continue
<1>4. ASSUME NEW l \in Loops, LoopStep(l)
      PROVE  TypeOK'
  <2>1. CASE Tick(l)
    BY <2>1 DEF Tick, TypeOK, Idle
  <2>2. ASSUME NEW h \in Hosts, LoopCheck(l, h) PROVE TypeOK'
    <3>1. todo' \in [Loops -> SUBSET Hosts]
      BY <2>2 DEF LoopCheck, TypeOK
    <3>2. CASE Live(h)
      BY <2>2, <3>1, <3>2, <1>1 DEF LoopCheck
    <3>3. CASE ~Live(h)
      BY <2>2, <3>1, <3>3 DEF LoopCheck, TypeOK, Idle
    <3> QED BY <3>2, <3>3
  <2>3. CASE Continue(l)
    BY <2>3, <1>3
  <2> QED BY <1>4, <2>1, <2>2, <2>3 DEF LoopStep
<1>5. ASSUME NEW a \in Addrs, Flip(a)
      PROVE  TypeOK'
  BY <1>5 DEF Flip, TypeOK, Idle
<1>6. faults < MaxFaults /\ faults' = faults + 1 => faults' \in 0..MaxFaults
  BY ProcsAssumption DEF TypeOK
<1>7. ASSUME NEW p \in Procs, DbError(p)
      PROVE  TypeOK'
  BY <1>6, <1>7, FinishTypes DEF DbError, Fault, TypeOK
<1>8. CASE Crash
  BY <1>6, <1>8 DEF Crash, Fault, TypeOK, Idle
<1>9. CASE UNCHANGED vars
  BY <1>9 DEF vars, TypeOK, Idle
<1> QED BY <1>2, <1>3, <1>4, <1>5, <1>7, <1>8, <1>9 DEF Next

\* Every variable holds what the code can put in it, for any constants.
THEOREM Typing == Spec => []TypeOK
BY TypeInit, TypeStep, PTL DEF Spec

-----------------------------------------------------------------------------
(***************************************************************************)
(* Rows whose state no client has named stay consistent: so is every row a *)
(* process carries, and a process that will ping holds a row that is not   *)
(* in maintenance.  The processes have to be part of the invariant, for an *)
(* overtaken one may write its row long after it loaded it.                *)
(***************************************************************************)
CarriedConsistent ==
  \A p \in Procs : ~Idle(p) => /\ Consistent(proc[p].row)
                               /\ proc[p].pc = "probe" => ~proc[p].row.maint
ConsistentInv == TypeOK /\ RowsConsistent /\ CarriedConsistent

LEMMA DecisionsConsistent ==
  ASSUME NEW r \in Rows, Consistent(r)
  PROVE  /\ ~r.maint => Consistent(ProbedUp(r)) /\ Consistent(ProbedDown(r))
         /\ Consistent(Entered(r))
         /\ Consistent(Exited(r))
         /\ \A e \in Edited(r) : Consistent(e)
<1>1. ~r.maint => Consistent(ProbedUp(r))
  BY DEF ProbedUp, Consistent, Rows
<1>2. ~r.maint => Consistent(ProbedDown(r))
  <2> SUFFICES ASSUME ~r.maint PROVE Consistent(ProbedDown(r))
    OBVIOUS
  <2>1. PICK n \in Nat : n = OneMoreFailure(r.fails) /\ n >= r.fails /\ n >= 1
    BY LifecycleAssumption DEF OneMoreFailure, Rows
  <2>2. PICK d \in Rows : d = ProbedDown(r)
    BY DecisionTypes
  <2>a. /\ d.fails = n /\ d.maint = FALSE
        /\ d.state = StateDown(r.state, n)
        /\ d.named = (r.named /\ StateDown(r.state, n) = r.state)
    BY <2>1, <2>2 DEF ProbedDown, Rows
  <2> SUFFICES Consistent(d)
    BY <2>2
  <2>3. CASE d.state # r.state
    <3>1. \/ d.state = "monitoring_issue"
          \/ d.state = "offline" /\ n >= Threshold
      BY <2>a, <2>3 DEF StateDown
    <3> QED BY <2>1, <2>a, <3>1 DEF Consistent
  <2>4. CASE d.state = r.state /\ r.named
    BY <2>a, <2>4 DEF Consistent
  <2>5. CASE d.state = r.state /\ ~r.named
    <3>1. /\ r.state # "maintenance"
          /\ r.state = "offline" => r.fails >= Threshold
      BY <2>5 DEF Consistent
    <3>2. d.state = "offline" => n >= Threshold
      BY <2>1, <2>5, <3>1, LifecycleAssumption DEF Rows
    <3> QED BY <2>1, <2>a, <2>5, <3>1, <3>2 DEF Consistent
  <2> QED BY <2>3, <2>4, <2>5
<1>3. Consistent(Entered(r))
  BY DEF Entered, Consistent, Rows
<1>4. Consistent(Exited(r))
  BY DEF Exited, Consistent, Rows
<1>5. ASSUME NEW e \in Edited(r) PROVE Consistent(e)
  <2>1. \/ e.named = TRUE
        \/ e.state = r.state /\ e.maint = r.maint /\ e.fails = r.fails /\ e.named = r.named
    BY <1>5, EditedRows
  <2> QED BY <2>1 DEF Consistent
<1> QED BY <1>1, <1>2, <1>3, <1>4, <1>5

LEMMA ConsistentStep ==
  ASSUME ConsistentInv, [Next]_vars
  PROVE  RowsConsistent' /\ CarriedConsistent'
<1> USE DEF Procs
<1>0. TypeOK /\ TypeOK'
  BY TypeStep DEF ConsistentInv
<1>1. \A h \in Hosts : rows[h] \in Rows /\ Consistent(rows[h])
  BY DEF ConsistentInv, RowsConsistent, TypeOK
<1>2. ASSUME NEW p \in Procs, NEW h \in Hosts, NEW op \in Ops, NEW pc, NEW row \in Rows,
             Start(p, h, op, pc, row), Consistent(row), pc = "probe" => ~row.maint
      PROVE  RowsConsistent' /\ CarriedConsistent'
  <2> DEFINE j == [pc |-> pc, op |-> op, host |-> h, row |-> row]
  <2>1. proc' = [proc EXCEPT ![p] = j] /\ rows' = rows
    BY <1>2 DEF Start
  <2>2. j.pc = pc /\ j.row = row
    OBVIOUS
  <2> HIDE DEF j
  <2> QED BY <1>0, <1>2, <2>1, <2>2
          DEF ConsistentInv, RowsConsistent, CarriedConsistent, TypeOK, Idle
<1>3. ASSUME NEW p \in Procs, NEW h \in Hosts, LoadForCheck(p, h)
      PROVE  RowsConsistent' /\ CarriedConsistent'
  BY <1>1, <1>2, <1>3 DEF LoadForCheck, Ops
<1>4. ASSUME rows' = rows, \A p \in Procs : proc'[p] \in {proc[p], IdleProc}
      PROVE  RowsConsistent' /\ CarriedConsistent'
  BY <1>4 DEF ConsistentInv, RowsConsistent, CarriedConsistent, Idle, IdleProc
<1>5. ASSUME NEW p \in Requests, NEW h \in Hosts, Request(p, h)
      PROVE  RowsConsistent' /\ CarriedConsistent'
  <2>1. CASE RequestCheck(p, h)
    BY <2>1, <1>3 DEF RequestCheck
  <2>2. CASE RequestEnter(p, h)
    BY <2>2, <1>1, <1>2, DecisionTypes, DecisionsConsistent DEF RequestEnter, Ops
  <2>3. CASE RequestExit(p, h)
    BY <2>3, <1>1, <1>2, DecisionTypes, DecisionsConsistent DEF RequestExit, Ops
  <2>4. CASE RequestEdit(p, h)
    BY <2>4, <1>1, <1>2, DecisionTypes, DecisionsConsistent DEF RequestEdit, Ops
  <2>5. CASE Create(p, h)
    <3>1. PICK a \in Addrs : \E row \in Created(a) : rows' = [rows EXCEPT ![h] = row]
      BY <2>5 DEF Create, AtomicCreate
    <3>2. \A row \in Created(a) : Consistent(row)
      BY DEF Created, NewRow, Consistent
    <3> QED BY <1>0, <2>5, <3>1, <3>2
            DEF Create, ConsistentInv, RowsConsistent, CarriedConsistent, TypeOK, Idle
  <2>6. CASE Delete(p, h)
    <3>1. Consistent([rows[h] EXCEPT !.live = "deleted"])
      BY <1>1 DEF Consistent, Rows
    <3> QED BY <1>0, <2>6, <3>1 DEF Delete, AtomicDelete,
                  ConsistentInv, RowsConsistent, CarriedConsistent, TypeOK, Idle
  <2> QED BY <1>5, <2>1, <2>2, <2>3, <2>4, <2>5, <2>6 DEF Request
<1>6. ASSUME NEW p \in Procs, Continue(p)
      PROVE  RowsConsistent' /\ CarriedConsistent'
  <2>0. /\ proc[p] \in Jobs /\ proc[p].host \in Hosts /\ proc[p].row \in Rows
        /\ Consistent(proc[p].row)
        /\ proc[p].pc = "probe" => ~proc[p].row.maint
    <3>1. proc[p].pc # "idle"
      BY <1>6 DEF Continue, Probe, UpdateFind, UpdateSave, Announce, Busy
    <3> QED BY <1>0, <3>1, JobTypes DEF ConsistentInv, CarriedConsistent, Idle
  <2>1. CASE Probe(p)
    <3> DEFINE r == IF proc[p].row.addr \in up THEN ProbedUp(proc[p].row)
                                               ELSE ProbedDown(proc[p].row)
               j == [proc[p] EXCEPT !.pc = "find", !.row = r]
    <3>1. Consistent(r)
      BY <2>0, <2>1, DecisionsConsistent DEF Probe, Busy
    <3>2. proc' = [proc EXCEPT ![p] = j] /\ rows' = rows
      BY <1>0, <2>1 DEF Probe, TypeOK
    <3>3. j.row = r /\ j.pc = "find"
      BY <2>0 DEF Jobs
    <3> HIDE DEF r, j
    <3> QED BY <1>0, <3>1, <3>2, <3>3
            DEF ConsistentInv, RowsConsistent, CarriedConsistent, TypeOK, Idle
  <2>2. CASE UpdateFind(p)
    <3>1. CASE Live(proc[p].host)
      <4> DEFINE j == [proc[p] EXCEPT !.pc = "save"]
      <4>1. proc' = [proc EXCEPT ![p] = j] /\ rows' = rows /\ j.row = proc[p].row /\ j.pc = "save"
        BY <1>0, <2>0, <2>2, <3>1 DEF UpdateFind, TypeOK, Jobs
      <4> HIDE DEF j
      <4> QED BY <1>0, <2>0, <4>1
              DEF ConsistentInv, RowsConsistent, CarriedConsistent, TypeOK, Idle
    <3>2. CASE ~Live(proc[p].host)
      BY <1>0, <1>4, <2>2, <3>2 DEF UpdateFind, Finish, TypeOK
    <3> QED BY <3>1, <3>2
  <2>3. CASE UpdateSave(p)
    <3>1. RowsConsistent'
      BY <1>0, <1>1, <2>0, <2>3 DEF UpdateSave, SaveRow, RowsConsistent, TypeOK
    <3>2. CASE proc[p].op \in {"enter", "exit"}
      <4> DEFINE j == [proc[p] EXCEPT !.pc = "announce"]
      <4>1. proc' = [proc EXCEPT ![p] = j] /\ j.row = proc[p].row /\ j.pc = "announce"
        BY <1>0, <2>0, <2>3, <3>2 DEF UpdateSave, SaveRow, TypeOK, Jobs
      <4> HIDE DEF j
      <4> QED BY <1>0, <2>0, <3>1, <4>1 DEF ConsistentInv, CarriedConsistent, TypeOK, Idle
    <3>3. CASE proc[p].op \notin {"enter", "exit"}
      <4>1. proc' = [proc EXCEPT ![p] = IdleProc]
        BY <2>3, <3>3 DEF UpdateSave, SaveRow
      <4> QED BY <1>0, <3>1, <4>1
              DEF ConsistentInv, CarriedConsistent, TypeOK, Idle, IdleProc
    <3> QED BY <3>2, <3>3
  <2>4. CASE Announce(p)
    BY <1>0, <1>4, <2>4 DEF Announce, Finish, TypeOK
  <2> QED BY <1>6, <2>1, <2>2, <2>3, <2>4 DEF Continue
<1>7. ASSUME NEW l \in Loops, LoopStep(l)
      PROVE  RowsConsistent' /\ CarriedConsistent'
  <2>1. CASE Tick(l)
    BY <2>1, <1>4 DEF Tick
  <2>2. ASSUME NEW h \in Hosts, LoopCheck(l, h)
        PROVE  RowsConsistent' /\ CarriedConsistent'
    BY <2>2, <1>3, <1>4 DEF LoopCheck
  <2>3. CASE Continue(l)
    BY <2>3, <1>6
  <2> QED BY <1>7, <2>1, <2>2, <2>3 DEF LoopStep
<1>8. CASE \E a \in Addrs : Flip(a)
  BY <1>8, <1>4 DEF Flip
<1>9. CASE \E p \in Procs : DbError(p)
  BY <1>0, <1>9, <1>4 DEF DbError, Finish, TypeOK
<1>10. CASE Crash
  BY <1>10, <1>4 DEF Crash
<1>11. CASE UNCHANGED vars
  BY <1>11, <1>4 DEF vars
<1> QED BY <1>5, <1>6, <1>7, <1>8, <1>9, <1>10, <1>11 DEF Next

(***************************************************************************)
(* models.go:36-41, monitor.go:112-120: no interleaving of checks,         *)
(* maintenance requests, edits, deletions, database errors and crashes     *)
(* takes the state, the failure counter and the maintenance flag of a row  *)
(* apart, whatever states clients name, but for a row whose state a client *)
(* did name in a POST or PUT and the service has not decided since.        *)
(***************************************************************************)
THEOREM Consistency == Spec => []RowsConsistent
<1>1. Init => ConsistentInv
  <2> SUFFICES ASSUME Init PROVE RowsConsistent /\ CarriedConsistent
    BY TypeInit DEF ConsistentInv
  <2>1. \A a \in Addrs : Consistent([NewRow("online", a, FALSE) EXCEPT !.live = "absent"])
    BY DEF NewRow, Consistent
  <2>2. \A h \in Hosts : \E a \in Addrs : rows[h] = [NewRow("online", a, FALSE) EXCEPT !.live = "absent"]
    BY DEF Init, AtomicInit
  <2> QED BY <2>1, <2>2 DEF Init, RowsConsistent, CarriedConsistent, Idle, IdleProc
<1>2. ConsistentInv /\ [Next]_vars => ConsistentInv'
  BY ConsistentStep, TypeStep DEF ConsistentInv
<1>3. ConsistentInv => RowsConsistent
  BY DEF ConsistentInv
<1> QED BY <1>1, <1>2, <1>3, PTL DEF Spec

-----------------------------------------------------------------------------
(***************************************************************************)
(* A process nobody has overtaken holds what an atomic operation on the    *)
(* row as it is NOW would hold: it pings the row that is there, and what   *)
(* it is about to write is an outcome of its operation on that row.        *)
(***************************************************************************)
Current(j) ==
  /\ Live(j.host)
  /\ j.pc \in {"probe", "find", "save"}
  /\ j.pc = "probe" => j.op = "check" /\ j.row = rows[j.host] /\ ~j.row.maint
  /\ j.pc # "probe" => j.row \in Outcomes(j.op, rows[j.host])

FreshCurrent == \A p \in fresh : Current(proc[p])
FreshInv == TypeOK /\ FreshCurrent

LEMMA FreshStep == FreshInv /\ [Next]_vars => FreshCurrent'
<1> SUFFICES ASSUME FreshInv, [Next]_vars PROVE FreshCurrent'
  OBVIOUS
<1> USE DEF Procs
<1>0. TypeOK /\ TypeOK'
  BY TypeStep DEF FreshInv
<1>f. \A p \in fresh : p \in Procs /\ proc[p].pc # "idle" /\ Current(proc[p])
  BY DEF FreshInv, FreshCurrent, TypeOK, Idle
\* A step that writes no row and leaves every process still fresh alone.
<1>1. ASSUME rows' = rows, fresh' \subseteq fresh,
             \A p \in fresh' : proc'[p] = proc[p]
      PROVE  FreshCurrent'
  BY <1>1, <1>f DEF FreshCurrent, Current, Live
\* A step that writes row h and overtakes every fresh process on h.
<1>2. ASSUME NEW h \in Hosts, NEW r, rows' = [rows EXCEPT ![h] = r],
             fresh' = fresh \ StaleOn(h), \A p \in fresh' : proc'[p] = proc[p]
      PROVE  FreshCurrent'
  <2> SUFFICES ASSUME NEW p \in fresh' PROVE Current(proc[p])'
    BY DEF FreshCurrent
  <2>1. proc'[p] = proc[p] /\ p \in fresh /\ proc[p].host # h
    BY <1>2 DEF StaleOn
  <2>2. proc[p].host \in Hosts
    BY <1>0, <1>f, <2>1, JobTypes
  <2>3. rows'[proc[p].host] = rows[proc[p].host]
    BY <1>0, <1>2, <2>1, <2>2 DEF TypeOK
  <2> QED BY <1>f, <2>1, <2>3 DEF Current, Live
\* Taking up a job with the row as it is.
<1>3. ASSUME NEW p \in Procs, NEW h \in Hosts, NEW op \in Ops, NEW pc, NEW row \in Rows,
             Idle(p), Start(p, h, op, pc, row),
             Current([pc |-> pc, op |-> op, host |-> h, row |-> row])
      PROVE  FreshCurrent'
  <2> DEFINE j == [pc |-> pc, op |-> op, host |-> h, row |-> row]
  <2>1. proc' = [proc EXCEPT ![p] = j] /\ rows' = rows /\ fresh' = fresh \cup {p}
    BY <1>3 DEF Start
  <2>2. Current(j)
    BY <1>3
  <2> HIDE DEF j
  <2>3. \A q \in fresh' : Current(proc'[q])
    BY <1>0, <1>f, <2>1, <2>2 DEF TypeOK
  <2> QED BY <2>1, <2>3 DEF FreshCurrent, Current, Live
<1>4. ASSUME NEW p \in Procs, NEW h \in Hosts, Idle(p), Live(h), LoadForCheck(p, h)
      PROVE  FreshCurrent'
  <2> DEFINE pc == IF rows[h].maint THEN "find" ELSE "probe"
             j == [pc |-> pc, op |-> "check", host |-> h, row |-> rows[h]]
  <2>1. /\ j.pc = pc /\ j.op = "check" /\ j.host = h /\ j.row = rows[h]
        /\ rows[h] \in Rows /\ "check" \in Ops
    BY <1>0 DEF TypeOK, Ops
  <2>2. rows[h].maint => rows[h] \in Outcomes("check", rows[h])
    BY DEF Outcomes
  <2>3. Current(j)
    <3> HIDE DEF j
    <3> QED BY <1>4, <2>1, <2>2 DEF Current
  <2> QED BY <1>3, <1>4, <2>1, <2>3 DEF LoadForCheck
\* Taking up a job whose outcome is already decided.
<1>5. ASSUME NEW p \in Procs, NEW h \in Hosts, NEW op \in Ops, NEW row \in Rows,
             Idle(p), Live(h), row \in Outcomes(op, rows[h]), Start(p, h, op, "find", row)
      PROVE  FreshCurrent'
  <2>1. Current([pc |-> "find", op |-> op, host |-> h, row |-> row])
    BY <1>5 DEF Current
  <2> QED BY <1>3, <1>5, <2>1
<1>6. ASSUME NEW p \in Requests, NEW h \in Hosts, Request(p, h)
      PROVE  FreshCurrent'
  <2>0. rows[h] \in Rows
    BY <1>0 DEF TypeOK
  <2>1. CASE RequestCheck(p, h)
    BY <2>1, <1>4 DEF RequestCheck
  <2>2. CASE RequestEnter(p, h)
    <3>1. Entered(rows[h]) \in Outcomes("enter", rows[h])
      BY <2>2 DEF RequestEnter, Outcomes
    <3> QED BY <2>0, <2>2, <3>1, <1>5, DecisionTypes DEF RequestEnter, Ops
  <2>3. CASE RequestExit(p, h)
    <3>1. Exited(rows[h]) \in Outcomes("exit", rows[h])
      BY <2>3 DEF RequestExit, Outcomes
    <3> QED BY <2>0, <2>3, <3>1, <1>5, DecisionTypes DEF RequestExit, Ops
  <2>4. CASE RequestEdit(p, h)
    <3>1. Edited(rows[h]) = Outcomes("edit", rows[h])
      BY DEF Outcomes
    <3> QED BY <2>0, <2>4, <3>1, <1>5, DecisionTypes DEF RequestEdit, Ops
  <2>5. CASE Create(p, h)
    <3>1. PICK row : rows' = [rows EXCEPT ![h] = row]
      BY <2>5 DEF Create, AtomicCreate
    <3>2. StaleOn(h) = {}
      BY <1>f, <2>5 DEF Create, AtomicCreate, StaleOn, Current, Live
    <3> QED BY <2>5, <3>1, <3>2, <1>2 DEF Create
  <2>6. CASE Delete(p, h)
    BY <2>6, <1>2 DEF Delete, AtomicDelete
  <2> QED BY <1>6, <2>1, <2>2, <2>3, <2>4, <2>5, <2>6 DEF Request
<1>7. ASSUME NEW p \in Procs, Continue(p)
      PROVE  FreshCurrent'
  <2>0. proc[p] \in Jobs /\ proc[p].host \in Hosts /\ proc[p].row \in Rows
    <3>1. proc[p].pc # "idle"
      BY <1>7 DEF Continue, Probe, UpdateFind, UpdateSave, Announce, Busy
    <3> QED BY <1>0, <3>1, JobTypes
  \* p moves on with job j, which is current if p is fresh.
  <2>1. ASSUME NEW j, proc' = [proc EXCEPT ![p] = j], rows' = rows, fresh' = fresh,
               p \in fresh => Current(j)
        PROVE  FreshCurrent'
    <3>1. \A q \in fresh : Current(proc'[q])
      BY <1>0, <1>f, <2>1 DEF TypeOK
    <3> QED BY <2>1, <3>1 DEF FreshCurrent, Current, Live
  <2>2. CASE Probe(p)
    <3> DEFINE r == IF proc[p].row.addr \in up THEN ProbedUp(proc[p].row)
                                               ELSE ProbedDown(proc[p].row)
               j == [proc[p] EXCEPT !.pc = "find", !.row = r]
    <3>1. proc' = [proc EXCEPT ![p] = j] /\ rows' = rows /\ fresh' = fresh
      BY <1>0, <2>2 DEF Probe, TypeOK
    <3>2. j.pc = "find" /\ j.row = r /\ j.op = proc[p].op /\ j.host = proc[p].host
      BY <2>0 DEF Jobs
    <3>3. ASSUME p \in fresh PROVE Current(j)
      <4>1. /\ Live(proc[p].host) /\ proc[p].op = "check"
            /\ proc[p].row = rows[proc[p].host] /\ ~proc[p].row.maint
        BY <1>f, <2>2, <3>3 DEF Current, Probe, Busy
      <4>2. r \in Outcomes("check", rows[proc[p].host])
        BY <4>1 DEF Outcomes
      <4> HIDE DEF r, j
      <4> QED BY <3>2, <4>1, <4>2 DEF Current
    <3> HIDE DEF j
    <3> QED BY <3>1, <3>3, <2>1
  <2>3. CASE UpdateFind(p)
    <3>1. CASE Live(proc[p].host)
      <4> DEFINE j == [proc[p] EXCEPT !.pc = "save"]
      <4>1. /\ proc' = [proc EXCEPT ![p] = j] /\ rows' = rows /\ fresh' = fresh
            /\ j.pc = "save" /\ j.row = proc[p].row
            /\ j.op = proc[p].op /\ j.host = proc[p].host
        BY <1>0, <2>0, <2>3, <3>1 DEF UpdateFind, TypeOK, Jobs
      <4> HIDE DEF j
      <4>2. p \in fresh => Current(j)
        BY <1>f, <2>3, <4>1 DEF Current, UpdateFind, Busy
      <4> QED BY <4>1, <4>2, <2>1
    <3>2. CASE ~Live(proc[p].host)
      BY <1>0, <1>1, <1>f, <2>3, <3>2 DEF UpdateFind, Finish, TypeOK
    <3> QED BY <3>1, <3>2
  <2>4. CASE UpdateSave(p)
    <3>1. /\ rows' = [rows EXCEPT ![proc[p].host] = proc[p].row]
          /\ fresh' = fresh \ StaleOn(proc[p].host)
          /\ \A q \in Procs : q # p => proc'[q] = proc[q]
      BY <1>0, <2>4 DEF UpdateSave, SaveRow, TypeOK
    <3>2. p \notin fresh'
      BY <3>1 DEF StaleOn
    <3> QED BY <1>f, <2>0, <3>1, <3>2, <1>2
  <2>5. CASE Announce(p)
    BY <1>0, <1>1, <1>f, <2>5 DEF Announce, Finish, TypeOK
  <2> QED BY <1>7, <2>2, <2>3, <2>4, <2>5 DEF Continue
<1>8. ASSUME NEW l \in Loops, LoopStep(l)
      PROVE  FreshCurrent'
  <2>1. CASE Tick(l)
    BY <2>1, <1>1 DEF Tick
  <2>2. ASSUME NEW h \in Hosts, LoopCheck(l, h) PROVE FreshCurrent'
    BY <2>2, <1>1, <1>4 DEF LoopCheck
  <2>3. CASE Continue(l)
    BY <2>3, <1>7
  <2> QED BY <1>8, <2>1, <2>2, <2>3 DEF LoopStep
<1>9. CASE \E a \in Addrs : Flip(a)
  BY <1>9, <1>1 DEF Flip
<1>10. CASE \E p \in Procs : DbError(p)
  BY <1>0, <1>10, <1>1, <1>f DEF DbError, Finish, TypeOK
<1>11. CASE Crash
  BY <1>11, <1>1 DEF Crash
<1>12. CASE UNCHANGED vars
  BY <1>12, <1>1 DEF vars
<1> QED BY <1>6, <1>7, <1>8, <1>9, <1>10, <1>11, <1>12 DEF Next

\* The steps that write a row: a creation, a deletion, or one process's Save.
LEMMA Writers ==
  ASSUME FreshInv, [Next]_vars
  PROVE  AtomicNext \/ UNCHANGED rows \/ \E p \in Procs : UpdateSave(p)
<1> USE DEF Procs
<1>1. ASSUME NEW p \in Requests, NEW h \in Hosts, Request(p, h)
      PROVE  AtomicNext \/ UNCHANGED rows
  BY <1>1 DEF Request, RequestCheck, LoadForCheck, RequestEnter, RequestExit, RequestEdit,
              Start, Create, Delete, AtomicNext
<1>2. ASSUME NEW p \in Procs, Continue(p)
      PROVE  UNCHANGED rows \/ UpdateSave(p)
  BY <1>2 DEF Continue, Probe, UpdateFind, Announce
<1>3. ASSUME NEW l \in Loops, LoopStep(l)
      PROVE  UNCHANGED rows \/ UpdateSave(l)
  BY <1>2, <1>3 DEF LoopStep, Tick, LoopCheck, LoadForCheck, Start
<1>4. ASSUME (\E a \in Addrs : Flip(a)) \/ (\E p \in Procs : DbError(p)) \/ Crash \/ UNCHANGED vars
      PROVE  UNCHANGED rows
  BY <1>4 DEF Flip, DbError, Crash, vars
<1> QED BY <1>1, <1>2, <1>3, <1>4 DEF Next

\* The Save of a process nobody overtook is one atomic operation.
LEMMA FreshSaveAtomic ==
  ASSUME FreshInv, NEW p \in fresh, UpdateSave(p)
  PROVE  AtomicNext
<1>1. p \in Procs /\ Busy(p, "save") /\ Current(proc[p])
  BY DEF FreshInv, FreshCurrent, TypeOK, UpdateSave
<1>2. proc[p].host \in Hosts /\ proc[p].op \in Ops
  BY <1>1, JobTypes DEF FreshInv, Busy
<1>3. Live(proc[p].host) /\ proc[p].row \in Outcomes(proc[p].op, rows[proc[p].host])
  BY <1>1 DEF Current, Busy
<1>4. rows' = [rows EXCEPT ![proc[p].host] = proc[p].row]
  BY DEF UpdateSave, SaveRow
<1>5. AtomicOp(proc[p].host)
  BY <1>2, <1>3, <1>4 DEF AtomicOp, Live
<1> QED BY <1>2, <1>5 DEF AtomicNext

(***************************************************************************)
(* Repository.Update (repository.go:153) compares no version.  Whatever    *)
(* the interleaving, the only writes that are not one of the atomic        *)
(* operations of HostLifecycle are those of a process that was overtaken   *)
(* between its Get and its Save.                                           *)
(***************************************************************************)
THEOREM OvertakenOnly == Spec => OnlyOvertakenSavesDiffer
<1>1. Init => FreshInv
  BY TypeInit DEF Init, FreshInv, FreshCurrent
<1>2. FreshInv /\ [Next]_vars => FreshInv'
  BY FreshStep, TypeStep DEF FreshInv
<1>3. FreshInv /\ [Next]_vars => [AtomicNext \/ UNCHANGED rows \/ OvertakenSave]_vars
  <2> SUFFICES ASSUME FreshInv, [Next]_vars
               PROVE  AtomicNext \/ UNCHANGED rows \/ OvertakenSave
    OBVIOUS
  <2>1. ASSUME NEW p \in Procs, UpdateSave(p), p \notin fresh PROVE OvertakenSave
    BY <2>1 DEF OvertakenSave, UpdateSave
  <2> QED BY <2>1, Writers, FreshSaveAtomic
<1> QED BY <1>1, <1>2, <1>3, PTL DEF Spec, OnlyOvertakenSavesDiffer

(***************************************************************************)
(* With a single goroutine nobody is ever overtaken between Get and Save,  *)
(* so the service IS the atomic one, faults included.                      *)
(***************************************************************************)
NotOvertaken == \A p \in Procs : proc[p].pc \in {"probe", "find", "save"} => p \in fresh
AloneInv == FreshInv /\ NotOvertaken

LEMMA AloneStep ==
  ASSUME NEW r, Requests = {r}, Loops = {}, AloneInv, [Next]_vars
  PROVE  NotOvertaken'
<1>0. Procs = {r} /\ TypeOK /\ TypeOK'
  BY TypeStep DEF Procs, AloneInv, FreshInv
<1>1. proc = [p \in {r} |-> proc[r]] /\ proc' = [p \in {r} |-> proc'[r]]
  BY <1>0 DEF TypeOK
<1>2. ASSUME fresh' = fresh, proc'[r] = proc[r] PROVE NotOvertaken'
  BY <1>0, <1>2 DEF AloneInv, NotOvertaken
<1>3. ASSUME proc'[r].pc \in {"idle", "announce"} \/ r \in fresh' PROVE NotOvertaken'
  BY <1>0, <1>3 DEF NotOvertaken
<1>4. ASSUME NEW h \in Hosts, Request(r, h) PROVE NotOvertaken'
  <2>1. CASE RequestCheck(r, h) \/ RequestEnter(r, h) \/ RequestExit(r, h) \/ RequestEdit(r, h)
    <3>1. r \in fresh'
      BY <2>1 DEF RequestCheck, LoadForCheck, RequestEnter, RequestExit, RequestEdit, Start
    <3> QED BY <3>1, <1>3
  <2>2. CASE Create(r, h) \/ Delete(r, h)
    <3>1. proc'[r].pc = "idle"
      BY <2>2 DEF Create, Delete, Idle
    <3> QED BY <3>1, <1>3
  <2> QED BY <1>4, <2>1, <2>2 DEF Request
<1>5. ASSUME Continue(r) PROVE NotOvertaken'
  <2>0. proc[r] \in Jobs
    <3>1. proc[r].pc # "idle"
      BY <1>5 DEF Continue, Probe, UpdateFind, UpdateSave, Announce, Busy
    <3> QED BY <1>0, <3>1, JobTypes
  <2>1. CASE Probe(r)
    BY <1>0, <1>3, <2>1 DEF Probe, AloneInv, NotOvertaken, Busy
  <2>2. CASE UpdateFind(r)
    <3>1. Finish(r) => proc'[r].pc = "idle"
      BY <1>0 DEF Finish, IdleProc, TypeOK
    <3>2. r \in fresh
      BY <1>0, <2>2 DEF UpdateFind, AloneInv, NotOvertaken, Busy
    <3> QED BY <1>3, <2>2, <3>1, <3>2 DEF UpdateFind
  <2>3. CASE UpdateSave(r)
    <3>1. proc'[r] = IF proc[r].op \in {"enter", "exit"}
                     THEN [proc[r] EXCEPT !.pc = "announce"] ELSE IdleProc
      BY <1>0, <2>3 DEF UpdateSave, SaveRow, TypeOK
    <3>2. [proc[r] EXCEPT !.pc = "announce"].pc = "announce" /\ IdleProc.pc = "idle"
      BY <2>0 DEF Jobs, IdleProc
    <3> QED BY <1>3, <3>1, <3>2
  <2>4. CASE Announce(r)
    BY <1>0, <1>3, <2>4 DEF Announce, Finish, IdleProc, TypeOK
  <2> QED BY <1>5, <2>1, <2>2, <2>3, <2>4 DEF Continue
<1>6. CASE \E a \in Addrs : Flip(a)
  BY <1>6, <1>2 DEF Flip
<1>7. CASE DbError(r)
  BY <1>0, <1>3, <1>7 DEF DbError, Finish, IdleProc, TypeOK
<1>8. CASE Crash
  BY <1>0, <1>3, <1>8 DEF Crash, IdleProc
<1>9. CASE UNCHANGED vars
  BY <1>9, <1>2 DEF vars
<1> QED BY <1>0, <1>4, <1>5, <1>6, <1>7, <1>8, <1>9 DEF Next

THEOREM AloneIsAtomic ==
  ASSUME NEW r, Requests = {r}, Loops = {}
  PROVE  Spec => AtomicSpec
<1>1. Init => AloneInv /\ AtomicInit
  BY TypeInit DEF Init, AloneInv, NotOvertaken, FreshInv, FreshCurrent, IdleProc
<1>2. AloneInv /\ [Next]_vars => AloneInv'
  BY AloneStep, FreshStep, TypeStep DEF AloneInv, FreshInv
<1>3. AloneInv /\ [Next]_vars => [AtomicNext]_rows
  <2> SUFFICES ASSUME AloneInv, [Next]_vars PROVE AtomicNext \/ UNCHANGED rows
    OBVIOUS
  <2>1. ASSUME NEW p \in Procs, UpdateSave(p) PROVE p \in fresh
    BY <2>1 DEF AloneInv, NotOvertaken, UpdateSave, Busy
  <2> QED BY <2>1, Writers, FreshSaveAtomic DEF AloneInv
<1> QED BY <1>1, <1>2, <1>3, PTL DEF Spec, AtomicSpec

-----------------------------------------------------------------------------
(***************************************************************************)
(* The audit trail.  With one goroutine and no fault every save that sets  *)
(* or clears the maintenance flag is announced before the next operation.  *)
(***************************************************************************)
TrailTold ==
  /\ \A p \in Procs : Busy(p, "announce") => Live(proc[p].host)
  /\ \A h \in Hosts : Live(h) => AuditPending(h) \/ audited[h] = rows[h].maint
  /\ \A h \in Hosts : rows[h].live = "absent" => audited[h] = FALSE
  /\ \A p \in Procs : Busy(p, "announce") =>
       /\ proc[p].op = "enter" => rows[proc[p].host].maint = TRUE
       /\ proc[p].op # "enter" => rows[proc[p].host].maint = FALSE

TrailInv == AloneInv /\ TrailTold

LEMMA OutcomeFlags ==
  ASSUME NEW op \in Ops, NEW r \in Rows, NEW e \in Outcomes(op, r)
  PROVE  /\ e.live = r.live
         /\ op = "enter" => e.maint = TRUE
         /\ op = "exit" => e.maint = FALSE
         /\ op \notin {"enter", "exit"} => e.maint = r.maint
<1>1. CASE op = "check"
  BY <1>1 DEF Outcomes, ProbedUp, ProbedDown, Rows
<1>2. CASE op = "enter"
  BY <1>2 DEF Outcomes, Entered, Rows
<1>3. CASE op = "exit"
  BY <1>3 DEF Outcomes, Exited, Rows
<1>4. CASE op = "edit"
  <2>1. e \in Edited(r)
    BY <1>4 DEF Outcomes
  <2>2. e.live = r.live /\ e.maint = r.maint
    BY <2>1, EditedRows
  <2> QED BY <1>4, <2>2
<1> QED BY <1>1, <1>2, <1>3, <1>4 DEF Ops

LEMMA TrailStep ==
  ASSUME NEW r, Requests = {r}, Loops = {}, MaxFaults = 0, TrailInv, [Next]_vars
  PROVE  TrailTold'
<1>0. Procs = {r} /\ TypeOK /\ TypeOK'
  BY TypeStep DEF Procs, TrailInv, AloneInv, FreshInv
<1>1. /\ rows \in [Hosts -> Rows] /\ audited \in [Hosts -> BOOLEAN]
      /\ proc \in [{r} -> {IdleProc} \cup Jobs]
  BY <1>0 DEF TypeOK
\* What the steps that write no row and announce nothing have in common.
<1>2. ASSUME rows' = rows, audited' = audited,
             proc[r].pc # "announce", proc'[r].pc # "announce"
      PROVE  TrailTold'
  BY <1>0, <1>2 DEF TrailInv, TrailTold, Live, AuditPending, Busy
<1>3. ASSUME rows' = rows, audited' = audited, proc' = proc PROVE TrailTold'
  BY <1>3 DEF TrailInv, TrailTold, Live, AuditPending, Busy
<1>4. ASSUME NEW h \in Hosts, Request(r, h) PROVE TrailTold'
  <2>1. CASE RequestCheck(r, h) \/ RequestEnter(r, h) \/ RequestExit(r, h) \/ RequestEdit(r, h)
    <3>1. rows' = rows /\ audited' = audited /\ proc[r].pc = "idle"
      BY <2>1 DEF RequestCheck, LoadForCheck, RequestEnter, RequestExit, RequestEdit, Start, Idle
    <3>2. proc'[r].pc \in {"probe", "find"}
      BY <1>1, <2>1 DEF RequestCheck, LoadForCheck, RequestEnter, RequestExit, RequestEdit, Start
    <3> QED BY <1>2, <3>1, <3>2
  <2>2. CASE Create(r, h)
    <3>1. PICK a \in Addrs : \E e \in Created(a) : rows' = [rows EXCEPT ![h] = e]
      BY <2>2 DEF Create, AtomicCreate
    <3>2. \A e \in Created(a) : e.live = "live" /\ e.maint = FALSE
      BY DEF Created, NewRow
    <3>3. rows[h].live = "absent" /\ audited' = audited /\ proc' = proc /\ proc[r].pc = "idle"
      BY <2>2 DEF Create, AtomicCreate, Idle
    <3> QED BY <1>0, <1>1, <3>1, <3>2, <3>3 DEF TrailInv, TrailTold, Live, AuditPending, Busy
  <2>3. CASE Delete(r, h)
    <3>1. /\ rows' = [rows EXCEPT ![h] = [rows[h] EXCEPT !.live = "deleted"]]
          /\ audited' = audited /\ proc' = proc /\ proc[r].pc = "idle"
      BY <2>3 DEF Delete, AtomicDelete, Idle
    <3>2. rows'[h].live = "deleted"
      BY <1>1, <3>1 DEF Rows
    <3> QED BY <1>0, <1>1, <3>1, <3>2 DEF TrailInv, TrailTold, Live, AuditPending, Busy
  <2> QED BY <1>4, <2>1, <2>2, <2>3 DEF Request
<1>5. ASSUME Continue(r) PROVE TrailTold'
  <2>0. proc[r] \in Jobs /\ proc[r].host \in Hosts /\ proc[r].op \in Ops
    <3>1. proc[r].pc # "idle"
      BY <1>5 DEF Continue, Probe, UpdateFind, UpdateSave, Announce, Busy
    <3> QED BY <1>0, <3>1, JobTypes
  <2>1. CASE Probe(r)
    <3>1. proc[r].pc = "probe" /\ rows' = rows /\ audited' = audited /\ proc'[r].pc = "find"
      BY <1>0, <1>1, <2>0, <2>1 DEF Probe, Busy, Jobs
    <3> QED BY <1>2, <3>1
  <2>2. CASE UpdateFind(r)
    <3>1. proc[r].pc = "find" /\ rows' = rows /\ audited' = audited
      BY <2>2 DEF UpdateFind, Busy
    <3>2. proc'[r].pc \in {"save", "idle"}
      BY <1>0, <1>1, <2>0, <2>2 DEF UpdateFind, Finish, IdleProc, Jobs
    <3> QED BY <1>2, <3>1, <3>2
  <2>3. CASE UpdateSave(r)
    <3>0a. PICK e : e = proc[r].row
      OBVIOUS
    <3>0. PICK h \in Hosts, op \in Ops : h = proc[r].host /\ op = proc[r].op /\ e = proc[r].row
      BY <2>0, <3>0a
    <3>1. /\ rows' = [rows EXCEPT ![h] = e] /\ audited' = audited
          /\ proc'[r] = IF op \in {"enter", "exit"} THEN [proc[r] EXCEPT !.pc = "announce"]
                                                    ELSE IdleProc
      BY <1>0, <1>1, <2>3, <3>0 DEF UpdateSave, SaveRow
    <3>2. proc[r].pc = "save" /\ r \in fresh
      BY <1>0, <2>3 DEF UpdateSave, Busy, TrailInv, AloneInv, NotOvertaken
    <3>3. Live(h) /\ e \in Outcomes(op, rows[h])
      BY <3>0, <3>2 DEF TrailInv, AloneInv, FreshInv, FreshCurrent, Current
    <3>4. /\ e.live = "live"
          /\ op = "enter" => e.maint = TRUE
          /\ op = "exit" => e.maint = FALSE
          /\ op \notin {"enter", "exit"} => e.maint = rows[h].maint
      <4>1. rows[h] \in Rows /\ rows[h].live = "live"
        BY <1>1, <3>3 DEF Live
      <4>2. PICK w \in Rows : w = rows[h]
        BY <4>1
      <4>3. e \in Outcomes(op, w)
        BY <3>3, <4>2
      <4>4. /\ e.live = w.live
            /\ op = "enter" => e.maint = TRUE
            /\ op = "exit" => e.maint = FALSE
            /\ op \notin {"enter", "exit"} => e.maint = w.maint
        BY <4>3, OutcomeFlags
      <4> QED BY <4>1, <4>2, <4>4
    <3>5. \A g \in Hosts : rows'[g] = IF g = h THEN e ELSE rows[g]
      BY <1>1, <3>1
    <3>6. ~Busy(r, "announce")
      BY <3>2 DEF Busy
    <3>7. CASE op \in {"enter", "exit"}
      <4>1. proc'[r].pc = "announce" /\ proc'[r].host = h /\ proc'[r].op = op
        BY <2>0, <3>0, <3>1, <3>7 DEF Jobs
      <4>2. \A g \in Hosts \ {h} : /\ Live(g) => audited[g] = rows[g].maint
                                   /\ rows[g].live = "absent" => audited[g] = FALSE
        BY <1>0, <3>2, <3>6 DEF TrailInv, TrailTold, AuditPending, Busy
      <4>3. \A g \in Hosts \ {h} : /\ Live(g)' => audited'[g] = rows'[g].maint
                                   /\ rows'[g].live = "absent" => audited'[g] = FALSE
        BY <3>1, <3>5, <4>2 DEF Live
      <4>4. Live(h)' /\ AuditPending(h)'
        BY <1>0, <3>4, <3>5, <4>1 DEF Live, AuditPending, Busy
      <4>5. /\ op = "enter" => rows'[h].maint = TRUE
            /\ op # "enter" => rows'[h].maint = FALSE
        BY <3>4, <3>5, <3>7 DEF Ops
      <4>6. rows'[h].live = "live"
        BY <4>4 DEF Live
      <4> QED BY <1>0, <4>1, <4>3, <4>4, <4>5, <4>6 DEF TrailTold
    <3>8. CASE op \notin {"enter", "exit"}
      <4>1. proc'[r].pc = "idle"
        BY <3>1, <3>8 DEF IdleProc
      <4>2. audited[h] = rows[h].maint
        BY <1>0, <3>3, <3>6 DEF TrailInv, TrailTold, AuditPending
      <4> QED BY <1>0, <3>1, <3>3, <3>4, <3>5, <3>6, <3>8, <4>1, <4>2
              DEF TrailInv, TrailTold, Live, AuditPending, Busy
    <3> QED BY <3>7, <3>8
  <2>4. CASE Announce(r)
    <3>1. /\ proc[r].pc = "announce" /\ rows' = rows /\ proc'[r].pc = "idle"
      BY <1>1, <2>4 DEF Announce, Busy, Finish, IdleProc
    <3>2. audited' = [audited EXCEPT ![proc[r].host] = (proc[r].op = "enter")]
      BY <2>4 DEF Announce
    <3>3. /\ \A g \in Hosts \ {proc[r].host} : audited'[g] = audited[g]
          /\ proc[r].op = "enter" => audited'[proc[r].host] = TRUE
          /\ proc[r].op # "enter" => audited'[proc[r].host] = FALSE
      BY <1>1, <2>0, <3>2
    <3>4. Live(proc[r].host)
      BY <1>0, <3>1 DEF TrailInv, TrailTold, Busy
    <3> QED BY <1>0, <1>1, <2>0, <3>1, <3>3, <3>4 DEF TrailInv, TrailTold, Live, AuditPending, Busy
  <2> QED BY <1>5, <2>1, <2>2, <2>3, <2>4 DEF Continue
<1>6. CASE \E a \in Addrs : Flip(a)
  BY <1>6, <1>3 DEF Flip
<1>7. ~Fault
  BY <1>0 DEF Fault, TypeOK
<1>8. ~Crash /\ \A p \in Procs : ~DbError(p)
  BY <1>7 DEF Crash, DbError
<1>9. CASE UNCHANGED vars
  BY <1>9, <1>3 DEF vars
<1> QED BY <1>0, <1>4, <1>5, <1>6, <1>8, <1>9 DEF Next

(***************************************************************************)
(* maintenance.go:45-47: unless an audit call is on its way, the last      *)
(* audit row tells whether a live host is in maintenance, while operations *)
(* come one at a time and no fault strikes (host_audit shows that another  *)
(* process is enough to break it).                                         *)
(***************************************************************************)
THEOREM AuditTrail ==
  ASSUME NEW r, Requests = {r}, Loops = {}, MaxFaults = 0
  PROVE  Spec => []AuditTellsMaintenance
<1>1. Init => TrailInv
  <2> SUFFICES ASSUME Init PROVE TrailInv
    OBVIOUS
  <2>1. AloneInv
    BY TypeInit DEF Init, AloneInv, NotOvertaken, FreshInv, FreshCurrent, IdleProc
  <2>2. \A h \in Hosts : rows[h].live = "absent" /\ audited[h] = FALSE
    <3>1. \A a \in Addrs : [NewRow("online", a, FALSE) EXCEPT !.live = "absent"].live = "absent"
      BY DEF NewRow
    <3>2. \A h \in Hosts : \E a \in Addrs : rows[h] = [NewRow("online", a, FALSE) EXCEPT !.live = "absent"]
      BY DEF Init, AtomicInit
    <3> QED BY <3>1, <3>2 DEF Init
  <2>3. \A p \in Procs : ~Busy(p, "announce")
    BY DEF Init, Busy, IdleProc
  <2> QED BY <2>1, <2>2, <2>3 DEF TrailInv, TrailTold, Live
<1>2. TrailInv /\ [Next]_vars => TrailInv'
  BY TrailStep, AloneStep, FreshStep, TypeStep DEF TrailInv, AloneInv, FreshInv
<1>3. TrailInv => AuditTellsMaintenance
  BY DEF TrailInv, TrailTold, AuditTellsMaintenance
<1> QED BY <1>1, <1>2, <1>3, PTL DEF Spec
=============================================================================
