----------------------------- MODULE PipelineRun -----------------------------
(***************************************************************************)
(* internal/pipeline: the life of the runs of one pipeline.  Trigger       *)
(* inserts a run and starts a goroutine (executeRun) that walks the steps  *)
(* and writes the run and step rows; Cancel, in a request goroutine,       *)
(* signals the goroutine and writes the run row too.  One step of the      *)
(* module is one database statement, one look at the context, or the end   *)
(* of one shell command.                                                   *)
(***************************************************************************)
EXTENDS DeploymentStrategy

CONSTANTS
  Runs,        \* run ids
  Cancellers,  \* request goroutines that may be inside Cancel at a time
  Pipelines,   \* the pipeline rows considered: strategy, config, steps
  MaxFaults    \* bound: database errors and crashes in a behaviour

ASSUME PipelineAssumption == MaxFaults \in Nat
\* Every pipeline's steps, planned phases included, form a finite list.
ASSUME PlanAssumption ==
  \A p \in Pipelines : /\ Len(ResolveSteps(p)) \in Nat
                       /\ DOMAIN ResolveSteps(p) = 1..Len(ResolveSteps(p))
\* RollingConfig: two integers, whatever their sign.
ASSUME RollingAssumption ==
  \A p \in Pipelines : p.strategy = "rolling" => p.config.total \in Int /\ p.config.surge \in Int

Terminal      == {"succeeded", "failed", "cancelled"}          \* RunStatus.Terminal
RunStatuses   == {"none", "pending", "running"} \cup Terminal
Events        == {"running", "succeeded", "failed", "cancelled", "skipped"}
StepStatuses  == {"none", "pending"} \cup Events
Pcs           == {"none", "insert", "register", "kickoff", "mark", "select", "shell",
                  "finish", "cleanup", "done"}

VARIABLES
  pipe,       \* the pipeline row; no operation changes its strategy or steps
  enabled,    \* whether GetPipeline finds its row, with enabled set
  status,     \* run rows: the status column ("none": no row)
  rows,       \* step-run rows, by run and step name (ensureStepRun's cache key)
  pc, at,     \* each run's goroutine: where it is, and at which step
  event,      \* the step event it is recording before it goes on there
  outcome,    \* what it will write at the end
  running,    \* Service.running: runs whose cancel function is registered
  stopped,    \* runs whose context has been cancelled
  cancel,     \* each canceller: where it is in Cancel, and its run
  hit,        \* ghost: runs a database error or a crash has struck
  faults

run  == <<pc, at, event, outcome>>
vars == <<pipe, enabled, status, rows, run, running, stopped, cancel, hit, faults>>

Steps       == ResolveSteps(pipe)
AllNames    == UNION {StepNames(p) : p \in Pipelines}
NotCalled   == [pc |-> "idle"]
NoRows      == [n \in AllNames |-> "none"]
NoEvent     == [step |-> 0, status |-> "none"]
Active(r)   == pc[r] \notin {"none", "done"}
Is(r, l)    == pc[r] = l /\ event[r] = NoEvent

Init ==
  /\ pipe \in Pipelines
  /\ enabled \in BOOLEAN
  /\ status = [r \in Runs |-> "none"]
  /\ rows = [r \in Runs |-> NoRows]
  /\ pc = [r \in Runs |-> "none"]
  /\ at = [r \in Runs |-> 1]
  /\ event = [r \in Runs |-> NoEvent]
  /\ outcome = [r \in Runs |-> "none"]
  /\ running = {}
  /\ stopped = {}
  /\ cancel = [c \in Cancellers |-> NotCalled]
  /\ hit = {}
  /\ faults = 0

-----------------------------------------------------------------------------
(* Database writes that may fail.                                          *)

Hit(rs)   == faults < MaxFaults /\ faults' = faults + 1 /\ hit' = hit \cup rs
NoFault   == UNCHANGED <<faults, hit>>
GoTo(r, l) == pc' = [pc EXCEPT ![r] = l]

End(r, o)  == outcome' = [outcome EXCEPT ![r] = o] /\ GoTo(r, "finish")
Emit(r, i, s) == event' = [event EXCEPT ![r] = [step |-> i, status |-> s]]

(***************************************************************************)
(* recordStepEvent: CreateStepRun inserts the row of a step as pending the *)
(* first time, a second statement writes the event's status into it.  The  *)
(* executor ignores an error and goes on, but for the event that starts a  *)
(* step, whose error ends the run as failed.  A failed step has the later  *)
(* ones skipped, one event each.                                           *)
(***************************************************************************)
RowOf(r) == Steps[event[r].step].name

AfterAlone(e) == NoEvent   \* mutant: the executor does not skip the later steps
After(e) ==
  IF e.status \in {"failed", "skipped"} /\ e.step < Len(Steps)
  THEN [step |-> e.step + 1, status |-> "skipped"] ELSE NoEvent

Recorded(r) == event' = [event EXCEPT ![r] = After(@)] /\ UNCHANGED <<pc, outcome>>

Unrecorded(r) ==
  /\ Hit({r})
  /\ \/ event[r].status = "running"
        /\ event' = [event EXCEPT ![r] = NoEvent]
        /\ End(r, "failed")
     \/ event[r].status # "running" /\ Recorded(r)

WriteRow(r, s) == rows' = [rows EXCEPT ![r][RowOf(r)] = s] /\ NoFault

CreateStepRun(r) ==
  /\ event[r] # NoEvent /\ rows[r][RowOf(r)] = "none"
  /\ \/ WriteRow(r, "pending") /\ UNCHANGED <<pc, event, outcome>>
     \/ Unrecorded(r) /\ UNCHANGED rows
  /\ UNCHANGED <<pipe, enabled, status, at, running, stopped, cancel>>

UpdateStepRun(r) ==
  /\ event[r] # NoEvent /\ rows[r][RowOf(r)] # "none"
  /\ \/ WriteRow(r, event[r].status) /\ Recorded(r)
     \/ Unrecorded(r) /\ UNCHANGED rows
  /\ UNCHANGED <<pipe, enabled, status, at, running, stopped, cancel>>

-----------------------------------------------------------------------------
(* Trigger, in a request goroutine, then executeRun.                       *)

\* Service.Update of the enabled flag, and Delete; an Update that overlaps a
\* Delete brings the row back, as Save does in any repository of the program.
Toggle ==
  /\ enabled' = ~enabled
  /\ UNCHANGED <<pipe, status, rows, run, running, stopped, cancel, hit, faults>>

Trigger(r) ==
  /\ pc[r] = "none" /\ enabled
  /\ GoTo(r, "insert")
  /\ UNCHANGED <<pipe, enabled, status, rows, at, event, outcome, running, stopped, cancel, hit, faults>>

Insert(r) ==
  /\ pc[r] = "insert"
  /\ \/ status' = [status EXCEPT ![r] = "pending"] /\ GoTo(r, "register") /\ NoFault
     \/ Hit({r}) /\ GoTo(r, "done") /\ UNCHANGED status
  /\ UNCHANGED <<pipe, enabled, rows, at, event, outcome, running, stopped, cancel>>

Register(r) ==
  /\ pc[r] = "register"
  /\ running' = running \cup {r}
  /\ GoTo(r, "kickoff")
  /\ UNCHANGED <<pipe, enabled, status, rows, at, event, outcome, stopped, cancel, hit, faults>>

\* UpdateRunStartedAt, then UpdateRunStatus; both set "running", and an error
\* of either ends the goroutine.
SetRunning(r, here, next) ==
  /\ pc[r] = here
  /\ \/ status' = [status EXCEPT ![r] = "running"] /\ GoTo(r, next) /\ NoFault
     \/ Hit({r}) /\ GoTo(r, "cleanup") /\ UNCHANGED status
  /\ UNCHANGED <<pipe, enabled, rows, at, event, outcome, running, stopped, cancel>>

Kickoff(r) == SetRunning(r, "kickoff", "mark")
Mark(r)    == SetRunning(r, "mark", "select")

(* Local.Execute: the look at the context before each step ...             *)
Select(r) ==
  /\ Is(r, "select")
  /\ \/ /\ at[r] > Len(Steps)
        /\ End(r, "succeeded")
        /\ UNCHANGED event
     \/ /\ at[r] <= Len(Steps) /\ r \in stopped
        /\ Emit(r, at[r], "cancelled")
        /\ End(r, "cancelled")
     \/ /\ at[r] <= Len(Steps) /\ r \notin stopped
        /\ Emit(r, at[r], "running")
        /\ GoTo(r, "shell")
        /\ UNCHANGED outcome
  /\ UNCHANGED <<pipe, enabled, status, rows, at, running, stopped, cancel, hit, faults>>

(* ... and the end of the step: a command exits with 0, or exits otherwise *)
(* (a command killed by the context does: os/exec reports its exit status, *)
(* not the context's error), or never starts because the context is done.  *)
(* A type other than shell fails.                                          *)
StepSucceeds(r) ==
  /\ Emit(r, at[r], "succeeded")
  /\ at' = [at EXCEPT ![r] = @ + 1]
  /\ GoTo(r, "select")
  /\ UNCHANGED outcome

StepEnds(r, s) == Emit(r, at[r], s) /\ End(r, s) /\ UNCHANGED at

Shell(r) ==
  /\ Is(r, "shell")
  /\ \/ Steps[at[r]].type = "shell" /\ StepSucceeds(r)
     \/ StepEnds(r, "failed")
     \/ Steps[at[r]].type = "shell" /\ r \in stopped /\ StepEnds(r, "cancelled")
  /\ UNCHANGED <<pipe, enabled, status, rows, running, stopped, cancel, hit, faults>>

\* Mutant: a cancelled run's row is left to Cancel.
FinishUnlessStopped(r) ==
  /\ Is(r, "finish")
  /\ status' = IF r \in stopped THEN status ELSE [status EXCEPT ![r] = outcome[r]]
  /\ GoTo(r, "cleanup")
  /\ UNCHANGED <<pipe, enabled, rows, at, event, outcome, running, stopped, cancel, hit, faults>>

\* UpdateRunFinished, whatever the row says by now; its error is ignored.
Finish(r) ==
  /\ Is(r, "finish")
  /\ \/ status' = [status EXCEPT ![r] = outcome[r]] /\ NoFault
     \/ Hit({r}) /\ UNCHANGED status
  /\ GoTo(r, "cleanup")
  /\ UNCHANGED <<pipe, enabled, rows, at, event, outcome, running, stopped, cancel>>

Cleanup(r) ==
  /\ pc[r] = "cleanup"
  /\ running' = running \ {r}
  /\ GoTo(r, "done")
  /\ UNCHANGED <<pipe, enabled, status, rows, at, event, outcome, stopped, cancel, hit, faults>>

Walk(r) ==
  \/ Insert(r) \/ Register(r) \/ Kickoff(r) \/ Mark(r)
  \/ Select(r) \/ CreateStepRun(r) \/ UpdateStepRun(r) \/ Finish(r) \/ Cleanup(r)

-----------------------------------------------------------------------------
(* Cancel: GetRun, the cancel function, UpdateRunFinished.                 *)

\* Mutant: Cancel does not look at the status it loaded.
CancelLoadAny(c, r) ==
  /\ cancel[c].pc = "idle"
  /\ status[r] # "none"
  /\ cancel' = [cancel EXCEPT ![c] = [pc |-> "signal", run |-> r]]
  /\ UNCHANGED <<pipe, enabled, status, rows, run, running, stopped, hit, faults>>

CancelLoad(c, r) ==
  /\ cancel[c].pc = "idle"
  /\ status[r] \notin {"none"} \cup Terminal
  /\ cancel' = [cancel EXCEPT ![c] = [pc |-> "signal", run |-> r]]
  /\ UNCHANGED <<pipe, enabled, status, rows, run, running, stopped, hit, faults>>

CancelSignal(c) ==
  /\ cancel[c].pc = "signal"
  /\ stopped' = stopped \cup ({cancel[c].run} \cap running)
  /\ cancel' = [cancel EXCEPT ![c].pc = "write"]
  /\ UNCHANGED <<pipe, enabled, status, rows, run, running, hit, faults>>

\* Mutant: another spelling of the status.
CancelWriteMisspelt(c) ==
  /\ cancel[c].pc = "write"
  /\ status' = [status EXCEPT ![cancel[c].run] = "canceled"]
  /\ cancel' = [cancel EXCEPT ![c] = NotCalled]
  /\ UNCHANGED <<pipe, enabled, rows, run, running, stopped, hit, faults>>

CancelWrite(c) ==
  /\ cancel[c].pc = "write"
  /\ \/ status' = [status EXCEPT ![cancel[c].run] = "cancelled"] /\ NoFault
     \/ Hit({}) /\ UNCHANGED status
  /\ cancel' = [cancel EXCEPT ![c] = NotCalled]
  /\ UNCHANGED <<pipe, enabled, rows, run, running, stopped>>

\* The process dies: the goroutines and the running map go, the rows stay.
Crash ==
  /\ \E r \in Runs : Active(r)
  /\ Hit({r \in Runs : Active(r)})
  /\ pc' = [r \in Runs |-> IF Active(r) THEN "done" ELSE pc[r]]
  /\ event' = [r \in Runs |-> NoEvent]
  /\ running' = {}
  /\ cancel' = [c \in Cancellers |-> NotCalled]
  /\ UNCHANGED <<pipe, enabled, status, rows, at, outcome, stopped>>

Next ==
  \/ Toggle
  \/ \E r \in Runs : Trigger(r) \/ Walk(r) \/ Shell(r)
  \/ \E c \in Cancellers, r \in Runs : CancelLoad(c, r)
  \/ \E c \in Cancellers : CancelSignal(c) \/ CancelWrite(c)
  \/ Crash

Spec == Init /\ [][Next]_vars

(***************************************************************************)
(* Started goroutines go on.  Nothing is assumed of a shell command: it    *)
(* has no time limit, and the kill of a cancelled context reaches the      *)
(* shell itself only (executor.go:269-273), while cmd.Run waits for every  *)
(* process that holds the shell's output pipe.                             *)
(***************************************************************************)
Fairness == \A r \in Runs : WF_vars(Walk(r))
FairSpec == Spec /\ Fairness

-----------------------------------------------------------------------------
(* Every variable holds what the code can put in it.                       *)
TypeOK ==
  /\ pipe \in Pipelines /\ enabled \in BOOLEAN
  /\ status \in [Runs -> RunStatuses]
  /\ rows \in [Runs -> [AllNames -> StepStatuses]]
  /\ pc \in [Runs -> Pcs]
  /\ at \in [Runs -> 1..(Len(Steps) + 1)]
  /\ event \in [Runs -> {NoEvent} \cup [step : 1..Len(Steps), status : Events]]
  /\ outcome \in [Runs -> Terminal \cup {"none"}]
  /\ running \subseteq Runs /\ stopped \subseteq Runs /\ hit \subseteq Runs
  /\ cancel \in [Cancellers -> {NotCalled} \cup [pc : {"signal", "write"}, run : Runs]]
  /\ faults \in 0..MaxFaults

(***************************************************************************)
(* executor.go:210-259, service.go:498-527 and 601-669.  What the step     *)
(* rows tell of a run and its row, where step names are distinct (two      *)
(* steps of one name share a row).  No step starts before the ones before  *)
(* it have succeeded; a run that says none or pending has no step rows;    *)
(* one that says succeeded has only steps that did; one that says failed   *)
(* has a step that failed and exactly the later ones skipped.  Cancel may  *)
(* have written its cancelled over either, but whatever the row of a run   *)
(* says whose goroutine is gone, its steps tell one of the three ends, and *)
(* the third only if the context was cancelled.  In a run a database error *)
(* or a crash has struck, a row may have been left at none, pending or     *)
(* running; it is never wrong otherwise.                                   *)
(***************************************************************************)
DistinctNames == \A i, j \in 1..Len(Steps) : Steps[i].name = Steps[j].name => i = j
RowAt(r, i)   == rows[r][Steps[i].name]
Open          == {"none", "pending", "running"}
Tells(r, i, s) == RowAt(r, i) = s \/ (r \in hit /\ RowAt(r, i) \in Open)
StoppedAt(r, k, s, later) ==
  /\ \A j \in 1..(k - 1) : Tells(r, j, "succeeded")
  /\ Tells(r, k, s)
  /\ \A j \in (k + 1)..Len(Steps) : Tells(r, j, later)

Ended(r, o) ==
  \/ o = "succeeded" /\ \A j \in 1..Len(Steps) : Tells(r, j, "succeeded")
  \/ o = "failed" /\ \E k \in 1..Len(Steps) : StoppedAt(r, k, "failed", "skipped")
  \/ o = "cancelled" /\ r \in stopped \cup hit
       /\ \E k \in 1..Len(Steps) : StoppedAt(r, k, "cancelled", "none")

Explained(r) ==
  /\ \A j \in 1..Len(Steps) : RowAt(r, j) \in {"running", "succeeded", "failed"} =>
       \A i \in 1..(j - 1) : Tells(r, i, "succeeded")
  /\ status[r] \in {"none", "pending"} => \A j \in 1..Len(Steps) : RowAt(r, j) = "none"
  /\ status[r] \in {"succeeded", "failed"} => Ended(r, status[r])
  /\ pc[r] = "done" => \E o \in Terminal : Ended(r, o)

RowsExplainRun == DistinctNames => \A r \in Runs : Explained(r)

(***************************************************************************)
(* A run row shows pending or running only while a goroutine is there to   *)
(* finish it, unless a database error or a crash struck that run: nothing  *)
(* looks for runs left behind by an earlier process.                       *)
(***************************************************************************)
NoOrphanRuns ==
  \A r \in Runs : status[r] \in {"pending", "running"} => Active(r) \/ r \in hit

(***************************************************************************)
(* service.go:671-674: once a run's goroutine is gone, its row is terminal *)
(* and no Cancel is under way, later Cancels are noops: the run stays that *)
(* way, and so does its status.                                            *)
(***************************************************************************)
Settled(r) ==
  /\ pc[r] = "done" /\ status[r] \in Terminal
  /\ \A c \in Cancellers : cancel[c] = NotCalled \/ cancel[c].run # r
SettledRunsStay ==
  [][\A r \in Runs : Settled(r) => Settled(r)' /\ status'[r] = status[r]]_vars

(***************************************************************************)
(* A run whose context is cancelled comes to an end: its goroutine         *)
(* finishes and its row is terminal (unless struck by a fault), or the     *)
(* command of one of its steps never returns.                              *)
(***************************************************************************)
CancelledRunsEnd ==
  \A r \in Runs :
    \/ r \in stopped ~> pc[r] = "done" /\ (status[r] \in Terminal \/ r \in hit)
    \/ <>[]Is(r, "shell")

(* Every rolling update of the pipelines considered covers its fleet.      *)
RolloutCoversFleet == pipe.strategy = "rolling" => RollingCovers(pipe.config)

(***************************************************************************)
(* models.go:372-374, Terminal: "the run is in a final state - no further  *)
(* transitions are allowed".                                               *)
(***************************************************************************)
TerminalIsFinal ==
  [][\A r \in Runs : status[r] \in Terminal => status'[r] = status[r]]_vars
=============================================================================
