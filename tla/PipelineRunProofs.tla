-------------------------- MODULE PipelineRunProofs --------------------------
(***************************************************************************)
(* Proofs about PipelineRun, for any runs, cancellers and pipelines whose  *)
(* steps form finite lists (PlanAssumption).                               *)
(***************************************************************************)
EXTENDS PipelineRun, SequenceTheorems, WellFoundedInduction, TLAPS

LEMMA StepsAreListed ==
  ASSUME pipe \in Pipelines
  PROVE  /\ Len(Steps) \in Nat /\ DOMAIN Steps = 1..Len(Steps)
         /\ \A i \in 1..Len(Steps) : Steps[i].name \in AllNames
<1>1. Len(Steps) \in Nat /\ DOMAIN Steps = 1..Len(Steps)
  BY PlanAssumption DEF Steps
<1>2. StepNames(pipe) \subseteq AllNames
  BY DEF AllNames
<1> QED
  BY <1>1, <1>2 DEF Steps, StepNames

-----------------------------------------------------------------------------
(* Types.  A goroutine that runs a step is at a step.                      *)
OnStep == \A r \in Runs : pc[r] = "shell" => at[r] <= Len(Steps)

TypeInv == TypeOK /\ OnStep

\* The events a goroutine can have to record, in the state and in the next.
StepEvents == {NoEvent} \cup [step : 1..Len(Steps), status : Events]

LEMMA InitType == Init => TypeInv
<1> SUFFICES ASSUME Init PROVE TypeInv
  OBVIOUS
<1>1. pipe \in Pipelines /\ Len(Steps) \in Nat
  BY StepsAreListed DEF Init
<1>2. /\ rows \in [Runs -> [AllNames -> StepStatuses]]
      /\ at \in [Runs -> 1..(Len(Steps) + 1)]
      /\ event \in [Runs -> StepEvents]
  BY <1>1 DEF Init, NoRows, StepStatuses, StepEvents
<1>3. /\ status \in [Runs -> RunStatuses] /\ pc \in [Runs -> Pcs]
      /\ outcome \in [Runs -> Terminal \cup {"none"}]
      /\ faults \in 0..MaxFaults
      /\ cancel \in [Cancellers -> {NotCalled} \cup [pc : {"signal", "write"}, run : Runs]]
  BY PipelineAssumption DEF Init, RunStatuses, Pcs
<1> QED
  BY <1>1, <1>2, <1>3 DEF Init, TypeInv, TypeOK, OnStep, StepEvents

LEMMA HitType ==
  ASSUME TypeOK, NEW rs \in SUBSET Runs, Hit(rs) \/ NoFault
  PROVE  hit' \subseteq Runs /\ faults' \in 0..MaxFaults
  BY PipelineAssumption DEF TypeOK, Hit, NoFault

\* Steps that leave the goroutine at no command.
LEMMA MoveType ==
  ASSUME TypeInv, NEW r \in Runs,
         NEW l \in Pcs \ {"shell"}, GoTo(r, l), UNCHANGED <<pipe, at>>
  PROVE  pc' \in [Runs -> Pcs] /\ at' \in [Runs -> 1..(Len(Steps') + 1)] /\ OnStep'
  BY DEF TypeInv, TypeOK, OnStep, GoTo, Steps

LEMMA EndType ==
  ASSUME TypeInv, NEW r \in Runs, NEW o \in Terminal, End(r, o), UNCHANGED <<pipe, at>>
  PROVE  /\ pc' \in [Runs -> Pcs] /\ at' \in [Runs -> 1..(Len(Steps') + 1)]
         /\ outcome' \in [Runs -> Terminal \cup {"none"}]
         /\ OnStep'
<1>1. pc' \in [Runs -> Pcs] /\ at' \in [Runs -> 1..(Len(Steps') + 1)] /\ OnStep'
  BY MoveType DEF End, Pcs
<1> QED
  BY <1>1 DEF End, TypeInv, TypeOK

LEMMA EventTyped ==
  ASSUME TypeInv, NEW r \in Runs
  PROVE  /\ Len(Steps) \in Nat /\ at[r] \in 1..(Len(Steps) + 1)
         /\ event[r] \in StepEvents
         /\ event[r] # NoEvent =>
              /\ event[r].step \in 1..Len(Steps) /\ event[r].status \in Events
              /\ RowOf(r) \in AllNames
<1>1. /\ Len(Steps) \in Nat /\ at[r] \in 1..(Len(Steps) + 1) /\ event[r] \in StepEvents
      /\ \A i \in 1..Len(Steps) : Steps[i].name \in AllNames
  BY StepsAreListed DEF TypeInv, TypeOK, StepEvents
<1>2. ASSUME event[r] # NoEvent
      PROVE  event[r].step \in 1..Len(Steps) /\ event[r].status \in Events
  BY <1>1, <1>2 DEF StepEvents
<1> QED
  BY <1>1, <1>2 DEF RowOf

LEMMA EmitType ==
  ASSUME TypeInv, NEW r \in Runs, NEW i \in 1..Len(Steps), NEW s \in Events,
         Emit(r, i, s), UNCHANGED pipe
  PROVE  event' \in [Runs -> StepEvents']
<1>1. Steps' = Steps /\ event \in [Runs -> StepEvents]
  BY DEF Steps, TypeInv, TypeOK, StepEvents
<1>2. [step |-> i, status |-> s] \in StepEvents
  BY DEF StepEvents
<1>3. StepEvents' = StepEvents
  BY <1>1 DEF StepEvents
<1> QED
  BY <1>1, <1>2, <1>3 DEF Emit

LEMMA AfterType ==
  ASSUME TypeInv, NEW r \in Runs, event[r] # NoEvent
  PROVE  After(event[r]) \in StepEvents
<1>1. Len(Steps) \in Nat /\ event[r].step \in 1..Len(Steps)
  BY EventTyped
<1>2. CASE event[r].status \in {"failed", "skipped"} /\ event[r].step < Len(Steps)
  <2>1. event[r].step + 1 \in 1..Len(Steps) /\ "skipped" \in Events
    BY <1>1, <1>2 DEF Events
  <2> QED
    BY <1>2, <2>1 DEF After, StepEvents
<1>3. CASE ~(event[r].status \in {"failed", "skipped"} /\ event[r].step < Len(Steps))
  BY <1>3 DEF After, StepEvents
<1> QED
  BY <1>2, <1>3

LEMMA RecordedType ==
  ASSUME TypeInv, NEW r \in Runs, event[r] # NoEvent, Recorded(r), UNCHANGED <<pipe, at>>
  PROVE  /\ event' \in [Runs -> StepEvents']
         /\ pc' \in [Runs -> Pcs] /\ at' \in [Runs -> 1..(Len(Steps') + 1)]
         /\ outcome' \in [Runs -> Terminal \cup {"none"}]
         /\ OnStep'
<1>1. Steps' = Steps /\ event \in [Runs -> StepEvents]
  BY DEF Steps, TypeInv, TypeOK, StepEvents
<1>2. StepEvents' = StepEvents
  BY <1>1 DEF StepEvents
<1>3. event' \in [Runs -> StepEvents']
  BY <1>1, <1>2, AfterType DEF Recorded
<1> QED
  BY <1>1, <1>3 DEF Recorded, TypeInv, TypeOK, OnStep

LEMMA UnrecordedType ==
  ASSUME TypeInv, NEW r \in Runs, event[r] # NoEvent, Unrecorded(r), UNCHANGED <<pipe, at>>
  PROVE  /\ event' \in [Runs -> StepEvents']
         /\ pc' \in [Runs -> Pcs] /\ at' \in [Runs -> 1..(Len(Steps') + 1)]
         /\ outcome' \in [Runs -> Terminal \cup {"none"}]
         /\ OnStep'
<1>1. CASE Recorded(r)
  BY <1>1, RecordedType
<1>2. CASE event' = [event EXCEPT ![r] = NoEvent] /\ End(r, "failed")
  <2>1. Steps' = Steps /\ event \in [Runs -> StepEvents]
    BY DEF Steps, TypeInv, TypeOK, StepEvents
  <2>2. StepEvents' = StepEvents /\ NoEvent \in StepEvents
    BY <2>1 DEF StepEvents
  <2>3. event' \in [Runs -> StepEvents']
    BY <1>2, <2>1, <2>2
  <2> QED
    BY <1>2, <2>3, EndType DEF Terminal
<1> QED
  BY <1>1, <1>2 DEF Unrecorded

LEMMA StepRunType ==
  ASSUME TypeInv, NEW r \in Runs, CreateStepRun(r) \/ UpdateStepRun(r)
  PROVE  TypeInv'
<1> USE DEF TypeInv
<1>1. event[r] # NoEvent /\ RowOf(r) \in AllNames /\ event[r].status \in StepStatuses
  BY EventTyped DEF CreateStepRun, UpdateStepRun, StepStatuses
<1>2. UNCHANGED <<pipe, enabled, status, at, running, stopped, cancel>>
  BY DEF CreateStepRun, UpdateStepRun
<1>3. hit' \subseteq Runs /\ faults' \in 0..MaxFaults
  BY HitType DEF CreateStepRun, UpdateStepRun, WriteRow, Unrecorded
<1>4. rows' \in [Runs -> [AllNames -> StepStatuses]]
  <2>1. ASSUME NEW s \in StepStatuses, WriteRow(r, s)
        PROVE  rows' \in [Runs -> [AllNames -> StepStatuses]]
    BY <1>1, <2>1 DEF WriteRow, TypeOK
  <2>2. "pending" \in StepStatuses
    BY DEF StepStatuses
  <2>3. CASE UNCHANGED rows
    BY <2>3 DEF TypeOK
  <2>4. WriteRow(r, "pending") \/ WriteRow(r, event[r].status) \/ UNCHANGED rows
    BY DEF CreateStepRun, UpdateStepRun
  <2> QED
    BY <1>1, <2>1, <2>2, <2>3, <2>4
<1>5. /\ event' \in [Runs -> StepEvents']
      /\ pc' \in [Runs -> Pcs] /\ at' \in [Runs -> 1..(Len(Steps') + 1)]
      /\ outcome' \in [Runs -> Terminal \cup {"none"}]
      /\ OnStep'
  <2>1. CASE Recorded(r)
    BY <1>1, <1>2, <2>1, RecordedType
  <2>2. CASE Unrecorded(r)
    BY <1>1, <1>2, <2>2, UnrecordedType
  <2>3. CASE UNCHANGED <<pc, event, outcome>>
    BY <1>2, <2>3 DEF TypeOK, OnStep, Steps, StepEvents
  <2> QED
    BY <2>1, <2>2, <2>3 DEF CreateStepRun, UpdateStepRun
<1> QED
  BY <1>2, <1>3, <1>4, <1>5 DEF TypeOK, StepEvents

LEMMA ShellType ==
  ASSUME TypeInv, NEW r \in Runs, Shell(r)
  PROVE  TypeInv'
<1> USE DEF TypeInv
<1>1. Len(Steps) \in Nat /\ at[r] \in 1..Len(Steps)
  BY EventTyped DEF Shell, Is, OnStep
<1>2. UNCHANGED <<pipe, enabled, status, rows, running, stopped, cancel, hit, faults>>
  BY DEF Shell
<1>3. ASSUME NEW s \in {"failed", "cancelled"}, StepEnds(r, s) PROVE TypeInv'
  <2>1. event' \in [Runs -> StepEvents']
    BY <1>1, <1>2, <1>3, EmitType DEF StepEnds, Events
  <2>2. /\ pc' \in [Runs -> Pcs] /\ at' \in [Runs -> 1..(Len(Steps') + 1)]
        /\ outcome' \in [Runs -> Terminal \cup {"none"}]
        /\ OnStep'
    BY <1>2, <1>3, EndType DEF StepEnds, Terminal
  <2> QED
    BY <1>2, <2>1, <2>2 DEF TypeOK, StepEvents
<1>4. CASE StepSucceeds(r)
  <2>1. event' \in [Runs -> StepEvents']
    BY <1>1, <1>2, <1>4, EmitType DEF StepSucceeds, Events
  <2>2. at[r] + 1 \in 1..(Len(Steps) + 1)
    BY <1>1
  <2>3. at' \in [Runs -> 1..(Len(Steps') + 1)]
    BY <1>2, <1>4, <2>2 DEF StepSucceeds, TypeOK, Steps
  <2>4. pc' \in [Runs -> Pcs] /\ OnStep'
    BY <1>2, <1>4 DEF StepSucceeds, GoTo, OnStep, TypeOK, Pcs, Steps
  <2> QED
    BY <1>2, <1>4, <2>1, <2>3, <2>4 DEF StepSucceeds, TypeOK, StepEvents
<1> QED
  BY <1>3, <1>4 DEF Shell

LEMMA SelectType ==
  ASSUME TypeInv, NEW r \in Runs, Select(r)
  PROVE  TypeInv'
<1> USE DEF TypeInv
<1>1. Len(Steps) \in Nat /\ at[r] \in 1..(Len(Steps) + 1) /\ event \in [Runs -> StepEvents]
  BY EventTyped DEF TypeOK, StepEvents
<1>2. UNCHANGED <<pipe, enabled, status, rows, at, running, stopped, cancel, hit, faults>>
  BY DEF Select
<1>3. CASE End(r, "succeeded") /\ UNCHANGED event
  <2>1. event' \in [Runs -> StepEvents']
    BY <1>1, <1>2, <1>3 DEF StepEvents, Steps
  <2> QED
    BY <1>2, <1>3, <2>1, EndType DEF TypeOK, Terminal, StepEvents
<1>4. CASE at[r] <= Len(Steps) /\ Emit(r, at[r], "cancelled") /\ End(r, "cancelled")
  <2>1. event' \in [Runs -> StepEvents']
    BY <1>1, <1>2, <1>4, EmitType DEF Events
  <2> QED
    BY <1>2, <1>4, <2>1, EndType DEF TypeOK, Terminal, StepEvents
<1>5. CASE at[r] <= Len(Steps) /\ Emit(r, at[r], "running") /\ GoTo(r, "shell")
           /\ UNCHANGED outcome
  <2>1. event' \in [Runs -> StepEvents']
    BY <1>1, <1>2, <1>5, EmitType DEF Events
  <2>2. pc' \in [Runs -> Pcs] /\ OnStep'
    BY <1>2, <1>5 DEF GoTo, OnStep, TypeOK, Pcs, Steps
  <2> QED
    BY <1>2, <1>5, <2>1, <2>2 DEF TypeOK, StepEvents, Steps
<1> QED
  BY <1>3, <1>4, <1>5 DEF Select

\* The two writes of "running", the final write and the clean-up.
LEMMA WriteType ==
  ASSUME TypeInv, NEW r \in Runs,
         Trigger(r) \/ Insert(r) \/ Register(r) \/ Kickoff(r) \/ Mark(r) \/ Finish(r) \/ Cleanup(r)
  PROVE  TypeInv'
<1> USE DEF TypeInv
<1>1. CASE Register(r) \/ Trigger(r) \/ Cleanup(r)
  <2>1. pc' \in [Runs -> Pcs] /\ at' \in [Runs -> 1..(Len(Steps') + 1)] /\ OnStep'
    BY <1>1, MoveType DEF Register, Trigger, Cleanup, Pcs
  <2> QED
    BY <1>1, <2>1 DEF Register, Trigger, Cleanup, TypeOK, RunStatuses, Steps
<1>2. ASSUME NEW l \in {"mark", "select"}, NEW h \in {"kickoff", "mark"}, SetRunning(r, h, l)
      PROVE  TypeInv'
  <2>1. pc' \in [Runs -> Pcs] /\ at' \in [Runs -> 1..(Len(Steps') + 1)] /\ OnStep'
    BY <1>2, MoveType DEF SetRunning, Pcs
  <2>2. hit' \subseteq Runs /\ faults' \in 0..MaxFaults
    BY <1>2, HitType DEF SetRunning
  <2>3. status' \in [Runs -> RunStatuses]
    BY <1>2 DEF SetRunning, TypeOK, RunStatuses
  <2> QED
    BY <1>2, <2>1, <2>2, <2>3 DEF SetRunning, TypeOK, Steps
<1>3. CASE Finish(r)
  <2>1. pc' \in [Runs -> Pcs] /\ at' \in [Runs -> 1..(Len(Steps') + 1)] /\ OnStep'
    BY <1>3, MoveType DEF Finish, Pcs
  <2>2. hit' \subseteq Runs /\ faults' \in 0..MaxFaults
    BY <1>3, HitType DEF Finish
  <2>3. status' \in [Runs -> RunStatuses]
    BY <1>3 DEF Finish, TypeOK, RunStatuses
  <2> QED
    BY <1>3, <2>1, <2>2, <2>3 DEF Finish, TypeOK, Steps
<1>4. CASE Insert(r)
  <2>1. pc' \in [Runs -> Pcs] /\ at' \in [Runs -> 1..(Len(Steps') + 1)] /\ OnStep'
    BY <1>4, MoveType DEF Insert, Pcs
  <2>2. hit' \subseteq Runs /\ faults' \in 0..MaxFaults
    BY <1>4, HitType DEF Insert
  <2>3. status' \in [Runs -> RunStatuses]
    BY <1>4 DEF Insert, TypeOK, RunStatuses
  <2> QED
    BY <1>4, <2>1, <2>2, <2>3 DEF Insert, TypeOK, Steps
<1> QED
  BY <1>1, <1>2, <1>3, <1>4 DEF Kickoff, Mark

LEMMA CancelType ==
  ASSUME TypeInv, NEW c \in Cancellers,
         CancelSignal(c) \/ CancelWrite(c) \/ \E r \in Runs : CancelLoad(c, r)
  PROVE  TypeInv'
<1> USE DEF TypeInv
<1>1. ASSUME NEW r \in Runs, CancelLoad(c, r) PROVE TypeInv'
  <2>1. cancel' \in [Cancellers -> {NotCalled} \cup [pc : {"signal", "write"}, run : Runs]]
    BY <1>1 DEF CancelLoad, TypeOK
  <2> QED
    BY <1>1, <2>1 DEF CancelLoad, TypeOK, OnStep, run, Steps
<1>2. CASE CancelSignal(c)
  <2>1. cancel[c] \in [pc : {"signal", "write"}, run : Runs]
    BY <1>2 DEF CancelSignal, TypeOK, NotCalled
  <2>2. cancel' \in [Cancellers -> {NotCalled} \cup [pc : {"signal", "write"}, run : Runs]]
    BY <1>2, <2>1 DEF CancelSignal, TypeOK
  <2> QED
    BY <1>2, <2>1, <2>2 DEF CancelSignal, TypeOK, OnStep, run, Steps
<1>3. CASE CancelWrite(c)
  <2>1. cancel[c] \in [pc : {"signal", "write"}, run : Runs]
    BY <1>3 DEF CancelWrite, TypeOK, NotCalled
  <2>2. status' \in [Runs -> RunStatuses]
    BY <1>3, <2>1 DEF CancelWrite, TypeOK, RunStatuses, Terminal
  <2>3. hit' \subseteq Runs /\ faults' \in 0..MaxFaults
    BY <1>3, HitType DEF CancelWrite
  <2>4. cancel' \in [Cancellers -> {NotCalled} \cup [pc : {"signal", "write"}, run : Runs]]
    BY <1>3 DEF CancelWrite, TypeOK
  <2> QED
    BY <1>3, <2>2, <2>3, <2>4 DEF CancelWrite, TypeOK, OnStep, run, Steps
<1> QED
  BY <1>1, <1>2, <1>3

LEMMA CrashType ==
  ASSUME TypeInv, Crash
  PROVE  TypeInv'
<1> USE DEF TypeInv
<1>1. hit' \subseteq Runs /\ faults' \in 0..MaxFaults
  BY HitType DEF Crash
<1>2. pc' \in [Runs -> Pcs] /\ OnStep'
  BY DEF Crash, TypeOK, OnStep, Pcs, Steps
<1>3. event' \in [Runs -> StepEvents']
  BY DEF Crash, StepEvents
<1> QED
  BY <1>1, <1>2, <1>3 DEF Crash, TypeOK, Steps, StepEvents

LEMMA NextType == TypeInv /\ [Next]_vars => TypeInv'
<1> SUFFICES ASSUME TypeInv, [Next]_vars PROVE TypeInv'
  OBVIOUS
<1>1. CASE UNCHANGED vars
  BY <1>1 DEF vars, run, TypeInv, TypeOK, OnStep, Steps
<1>2. CASE Toggle
  <2>1. enabled' \in BOOLEAN
    BY <1>2, Zenon DEF Toggle
  <2> QED
    BY <1>2, <2>1 DEF Toggle, run, TypeInv, TypeOK, OnStep, Steps
<1>3. ASSUME NEW r \in Runs, Trigger(r) \/ Walk(r) \/ Shell(r) PROVE TypeInv'
  BY <1>3, WriteType, SelectType, StepRunType, ShellType DEF Walk
<1>4. ASSUME NEW c \in Cancellers,
             CancelSignal(c) \/ CancelWrite(c) \/ \E r \in Runs : CancelLoad(c, r)
      PROVE  TypeInv'
  BY <1>4, CancelType
<1>5. CASE Crash
  BY <1>5, CrashType
<1> QED
  BY <1>1, <1>2, <1>3, <1>4, <1>5 DEF Next

(* Every variable keeps its type, however faults and Cancels interleave.   *)
THEOREM Typing == Spec => []TypeOK
<1>1. TypeInv => TypeOK
  BY DEF TypeInv
<1> QED
  BY InitType, NextType, <1>1, PTL DEF Spec

-----------------------------------------------------------------------------
(***************************************************************************)
(* Runs left behind.  A goroutine about to write has a terminal outcome,   *)
(* and one that has written leaves a row that is not pending or running.   *)
(***************************************************************************)
Unfinished(r) == status[r] \in {"pending", "running"}
Ends(r) ==
  /\ pc[r] = "finish" => outcome[r] \in Terminal
  /\ pc[r] \in {"none", "insert", "cleanup", "done"} => ~Unfinished(r) \/ r \in hit

OrphanInv == TypeInv /\ \A r \in Runs : Ends(r)

LEMMA EndsFrame ==
  ASSUME NEW r, Ends(r), hit \subseteq hit', pc'[r] = pc[r], outcome'[r] = outcome[r],
         status'[r] = status[r] \/ status'[r] \in Terminal
  PROVE  Ends(r)'
  BY DEF Ends, Unfinished, Terminal

LEMMA GrowingHit ==
  ASSUME NEW rs, Hit(rs) \/ NoFault
  PROVE  hit \subseteq hit'
  BY DEF Hit, NoFault

\* A step of one run's goroutine leaves the other runs' goroutines alone.
LEMMA OthersStay ==
  ASSUME TypeInv, NEW r \in Runs, NEW q \in Runs \ {r}, Trigger(q) \/ Walk(q) \/ Shell(q)
  PROVE  /\ pc'[r] = pc[r] /\ at'[r] = at[r] /\ event'[r] = event[r]
         /\ outcome'[r] = outcome[r] /\ status'[r] = status[r] /\ rows'[r] = rows[r]
<1> USE DEF TypeInv, TypeOK
<1>1. CASE Trigger(q) \/ Insert(q) \/ Register(q) \/ Kickoff(q) \/ Mark(q) \/ Finish(q) \/ Cleanup(q)
  BY <1>1 DEF Trigger, Insert, Register, Kickoff, Mark, SetRunning, Finish, Cleanup, GoTo
<1>2. CASE Select(q)
  BY <1>2 DEF Select, End, Emit, GoTo
<1>3. CASE CreateStepRun(q) \/ UpdateStepRun(q)
  BY <1>3 DEF CreateStepRun, UpdateStepRun, WriteRow, Recorded, Unrecorded, End, GoTo
<1>4. CASE Shell(q)
  BY <1>4 DEF Shell, StepSucceeds, StepEnds, End, Emit, GoTo
<1> QED
  BY <1>1, <1>2, <1>3, <1>4 DEF Walk

LEMMA NextEnds == OrphanInv /\ [Next]_vars => \A r \in Runs : Ends(r)'
<1> SUFFICES ASSUME TypeInv, \A s \in Runs : Ends(s), [Next]_vars, NEW r \in Runs
             PROVE  Ends(r)'
  BY DEF OrphanInv
<1> USE DEF TypeInv
<1>1. CASE UNCHANGED vars
  BY <1>1, EndsFrame DEF vars, run
<1>2. CASE Toggle
  BY <1>2, EndsFrame DEF Toggle, run
<1>3. ASSUME NEW q \in Runs, Trigger(q) \/ Register(q) \/ Cleanup(q) PROVE Ends(r)'
  <2>1. CASE q = r
    BY <1>3, <2>1 DEF Trigger, Register, Cleanup, GoTo, Ends, Unfinished, TypeOK
  <2>2. CASE q # r
    BY <1>3, <2>2, EndsFrame DEF Trigger, Register, Cleanup, GoTo, TypeOK
  <2> QED
    BY <2>1, <2>2
<1>4. ASSUME NEW q \in Runs, NEW h, NEW l \in {"mark", "select"}, SetRunning(q, h, l)
      PROVE  Ends(r)'
  <2>1. hit \subseteq hit'
    BY <1>4, GrowingHit DEF SetRunning
  <2>2. CASE q = r
    BY <1>4, <2>2 DEF SetRunning, GoTo, Hit, Ends, Unfinished, TypeOK
  <2>3. CASE q # r
    BY <1>4, <2>1, <2>3, EndsFrame DEF SetRunning, GoTo, TypeOK
  <2> QED
    BY <2>2, <2>3
<1>5. ASSUME NEW q \in Runs,
             Select(q) \/ CreateStepRun(q) \/ UpdateStepRun(q) \/ Shell(q)
      PROVE  Ends(r)'
  <2>1. hit \subseteq hit' /\ status' = status
    BY <1>5, GrowingHit DEF Select, CreateStepRun, UpdateStepRun, Shell, WriteRow, Unrecorded
  <2>2. CASE q # r
    <3>1. pc'[r] = pc[r] /\ outcome'[r] = outcome[r]
      BY <1>5, <2>2, OthersStay DEF Walk
    <3> QED
      BY <2>1, <3>1, EndsFrame
  <2>3. CASE q = r
    <3>1. \/ pc'[r] \in {"shell", "select"}
          \/ pc'[r] = "finish" /\ outcome'[r] \in Terminal
          \/ pc'[r] = pc[r] /\ outcome'[r] = outcome[r]
      BY <1>5, <2>3 DEF Select, CreateStepRun, UpdateStepRun, Shell, StepSucceeds, StepEnds,
                        Recorded, Unrecorded, End, GoTo, TypeOK, Terminal
    <3> QED
      BY <2>1, <3>1 DEF Ends, Unfinished
  <2> QED
    BY <2>2, <2>3
<1>6. ASSUME NEW q \in Runs, Finish(q) PROVE Ends(r)'
  <2>1. hit \subseteq hit'
    BY <1>6, GrowingHit DEF Finish
  <2>2. CASE q = r
    BY <1>6, <2>2 DEF Finish, GoTo, Hit, Ends, Unfinished, TypeOK, Terminal
  <2>3. CASE q # r
    BY <1>6, <2>1, <2>3, EndsFrame DEF Finish, GoTo, TypeOK
  <2> QED
    BY <2>2, <2>3
<1>7. ASSUME NEW c \in Cancellers,
             CancelSignal(c) \/ CancelWrite(c) \/ \E q \in Runs : CancelLoad(c, q)
      PROVE  Ends(r)'
  <2>1. CASE CancelWrite(c)
    <3>1. hit \subseteq hit'
      BY <2>1, GrowingHit DEF CancelWrite
    <3>2. status'[r] = status[r] \/ status'[r] \in Terminal
      BY <2>1 DEF CancelWrite, TypeOK, Terminal
    <3> QED
      BY <2>1, <3>1, <3>2, EndsFrame DEF CancelWrite, run
  <2> QED
    BY <1>7, <2>1, EndsFrame DEF CancelSignal, CancelLoad, run
<1>8. CASE Crash
  <2>1. hit' = hit \cup {q \in Runs : Active(q)}
    BY <1>8 DEF Crash, Hit
  <2>2. CASE Active(r)
    BY <1>8, <2>1, <2>2 DEF Crash, Ends, Unfinished, TypeOK
  <2>3. CASE ~Active(r)
    BY <1>8, <2>1, <2>3, EndsFrame DEF Crash, TypeOK
  <2> QED
    BY <2>2, <2>3
<1>9. ASSUME NEW q \in Runs, Insert(q) PROVE Ends(r)'
  <2>1. hit \subseteq hit'
    BY <1>9, GrowingHit DEF Insert
  <2>2. CASE q = r
    BY <1>9, <2>2 DEF Insert, GoTo, Hit, Ends, Unfinished, TypeOK
  <2>3. CASE q # r
    <3>1. status'[r] = status[r] /\ pc'[r] = pc[r] /\ outcome'[r] = outcome[r]
      BY <1>9, <2>3 DEF Insert, GoTo, TypeOK
    <3> QED
      BY <2>1, <3>1, EndsFrame
  <2> QED
    BY <2>2, <2>3
<1> QED
  BY <1>1, <1>2, <1>3, <1>4, <1>5, <1>6, <1>7, <1>8, <1>9 DEF Next, Walk, Kickoff, Mark

(***************************************************************************)
(* No run row is left pending or running without a goroutine, unless a     *)
(* database error or a crash struck it.                                    *)
(***************************************************************************)
THEOREM NoOrphans == Spec => []NoOrphanRuns
<1>1. Init => OrphanInv
  BY InitType DEF Init, OrphanInv, Ends, Unfinished
<1>2. OrphanInv /\ [Next]_vars => OrphanInv'
  BY NextType, NextEnds DEF OrphanInv
<1>3. OrphanInv => NoOrphanRuns
  BY DEF OrphanInv, NoOrphanRuns, Ends, Unfinished, Active
<1> QED
  BY <1>1, <1>2, <1>3, PTL DEF Spec

-----------------------------------------------------------------------------
(* Only a goroutine among its steps, or about to finish, has an event.     *)
Quiet(r) == pc[r] \notin {"select", "shell", "finish"} => event[r] = NoEvent

LEMMA NextQuiet ==
  TypeInv /\ (\A r \in Runs : Quiet(r)) /\ [Next]_vars => \A r \in Runs : Quiet(r)'
<1> SUFFICES ASSUME TypeInv, NEW r \in Runs, Quiet(r), [Next]_vars PROVE Quiet(r)'
  OBVIOUS
<1>1. ASSUME NEW q \in Runs, Trigger(q) \/ Walk(q) \/ Shell(q) PROVE Quiet(r)'
  <2>1. CASE q # r
    BY <1>1, <2>1, OthersStay DEF Quiet
  <2> SUFFICES ASSUME q = r PROVE Quiet(r)'
    BY <2>1
  <2> USE DEF TypeInv, TypeOK, Quiet
  <2>2. CASE Trigger(r) \/ Insert(r) \/ Register(r) \/ Kickoff(r) \/ Mark(r) \/ Cleanup(r)
    BY <2>2 DEF Trigger, Insert, Register, Kickoff, Mark, SetRunning, Cleanup, GoTo
  <2>3. CASE Finish(r)
    BY <2>3 DEF Finish, Is, GoTo
  <2>4. CASE Select(r)
    BY <2>4 DEF Select, Is, End, GoTo
  <2>5. CASE Shell(r)
    BY <2>5 DEF Shell, StepSucceeds, StepEnds, End, GoTo
  <2>6. CASE CreateStepRun(r) \/ UpdateStepRun(r)
    BY <2>6 DEF CreateStepRun, UpdateStepRun, Recorded, Unrecorded, End, GoTo
  <2> QED
    BY <1>1, <2>2, <2>3, <2>4, <2>5, <2>6 DEF Walk
<1>2. CASE Crash
  BY <1>2 DEF Crash, Quiet
<1>3. CASE UNCHANGED <<pc, event>>
  BY <1>3 DEF Quiet
<1> QED
  BY <1>1, <1>2, <1>3 DEF Next, Toggle, CancelLoad, CancelSignal, CancelWrite, vars, run

LEMMA NextSettled ==
  TypeInv /\ (\A r \in Runs : Quiet(r)) /\ [Next]_vars =>
    \A r \in Runs : Settled(r) => Settled(r)' /\ status'[r] = status[r]
<1> SUFFICES ASSUME TypeInv, [Next]_vars, NEW r \in Runs, Quiet(r), Settled(r)
             PROVE  Settled(r)' /\ status'[r] = status[r]
  OBVIOUS
<1> DEFINE Elsewhere(j) == j = NotCalled \/ j.run # r
<1>1. pc[r] = "done" /\ status[r] \in Terminal /\ \A c \in Cancellers : Elsewhere(cancel[c])
  BY DEF Settled
<1>2. SUFFICES /\ pc'[r] = "done" /\ status'[r] = status[r]
               /\ \A c \in Cancellers : Elsewhere(cancel'[c])
  BY <1>1 DEF Settled
<1>3. CASE \E q \in Runs : Trigger(q) \/ Walk(q) \/ Shell(q)
  <2>1. PICK q \in Runs : Trigger(q) \/ Walk(q) \/ Shell(q)
    BY <1>3
  <2>2. cancel' = cancel
    BY <2>1 DEF Trigger, Walk, Insert, Register, Kickoff, Mark, SetRunning, Select,
                CreateStepRun, UpdateStepRun, Shell, Finish, Cleanup
  <2>3. pc'[r] = pc[r] /\ status'[r] = status[r]
    <3>1. CASE q # r
      BY <2>1, <3>1, OthersStay
    <3>2. CASE q = r
      <4>1. CreateStepRun(r) \/ UpdateStepRun(r)
        BY <1>1, <2>1, <3>2 DEF Trigger, Walk, Insert, Register, Kickoff, Mark, SetRunning,
                                Select, Is, Shell, Finish, Cleanup
      <4> QED
        BY <1>1, <4>1 DEF CreateStepRun, UpdateStepRun, Quiet
    <3> QED
      BY <3>1, <3>2
  <2> QED
    BY <1>1, <2>2, <2>3
<1>4. CASE \E c \in Cancellers, q \in Runs : CancelLoad(c, q)
  <2>1. PICK c \in Cancellers, q \in Runs : CancelLoad(c, q)
    BY <1>4
  <2>2. q # r
    BY <1>1, <2>1 DEF CancelLoad
  <2>3. cancel' = [cancel EXCEPT ![c] = [pc |-> "signal", run |-> q]]
    BY <2>1 DEF CancelLoad
  <2>4. \A d \in Cancellers : cancel'[d] = cancel[d] \/ cancel'[d] = [pc |-> "signal", run |-> q]
    BY <2>3 DEF TypeInv, TypeOK
  <2>5. UNCHANGED <<pc, status>>
    BY <2>1 DEF CancelLoad, run
  <2> QED
    BY <1>1, <2>2, <2>4, <2>5
<1>5. CASE \E c \in Cancellers : CancelSignal(c)
  <2>1. PICK c \in Cancellers : CancelSignal(c)
    BY <1>5
  <2>2. /\ cancel'[c] = [cancel[c] EXCEPT !.pc = "write"]
        /\ \A d \in Cancellers \ {c} : cancel'[d] = cancel[d]
    BY <2>1 DEF CancelSignal, TypeInv, TypeOK
  <2>3. cancel[c] # NotCalled /\ cancel[c] \in [pc : {"signal", "write"}, run : Runs]
    BY <2>1 DEF CancelSignal, NotCalled, TypeInv, TypeOK
  <2>4. [cancel[c] EXCEPT !.pc = "write"].run = cancel[c].run
    BY <2>3
  <2>5. UNCHANGED <<pc, status>>
    BY <2>1 DEF CancelSignal, run
  <2> QED
    BY <1>1, <2>2, <2>3, <2>4, <2>5
<1>6. CASE \E c \in Cancellers : CancelWrite(c)
  <2>1. PICK c \in Cancellers : CancelWrite(c)
    BY <1>6
  <2>2. cancel[c] # NotCalled
    BY <2>1 DEF CancelWrite, NotCalled
  <2>3. status'[r] = status[r] /\ UNCHANGED pc
    BY <1>1, <2>1, <2>2 DEF CancelWrite, run, TypeInv, TypeOK
  <2>4. \A d \in Cancellers : cancel'[d] = cancel[d] \/ cancel'[d] = NotCalled
    BY <2>1 DEF CancelWrite, TypeInv, TypeOK
  <2> QED
    BY <1>1, <2>3, <2>4
<1>7. CASE Crash
  BY <1>1, <1>7 DEF Crash, Active
<1>8. CASE Toggle \/ UNCHANGED vars
  BY <1>1, <1>8 DEF Toggle, vars, run
<1> QED
  BY <1>3, <1>4, <1>5, <1>6, <1>7, <1>8 DEF Next

(***************************************************************************)
(* Once a run's goroutine is gone, its row is terminal and no Cancel of it *)
(* is under way, no later Cancel starts and its status never changes.      *)
(***************************************************************************)
THEOREM SettledStay == Spec => SettledRunsStay
<1> DEFINE Settling == TypeInv /\ \A r \in Runs : Quiet(r)
<1>1. Init => Settling
  BY InitType DEF Init, Quiet
<1>2. Settling /\ [Next]_vars => Settling'
  BY NextType, NextQuiet
<1>3. Settling /\ [Next]_vars =>
        [\A r \in Runs : Settled(r) => Settled(r)' /\ status'[r] = status[r]]_vars
  BY NextSettled
<1> QED
  BY <1>1, <1>2, <1>3, PTL DEF Spec, SettledRunsStay

-----------------------------------------------------------------------------
(***************************************************************************)
(* The step rows.  A goroutine that has an event to record has not told    *)
(* that step's end yet, and no row of a later step is there; one that has  *)
(* none is where its rows say it is.                                       *)
(***************************************************************************)
Before(r, k) == \A j \in 1..(k - 1) : Tells(r, j, "succeeded")
Clear(r, k)  == \A j \in k..Len(Steps) : RowAt(r, j) = "none"

InOrder(r) ==
  \A j \in 1..Len(Steps) : RowAt(r, j) \in {"running", "succeeded", "failed"} => Before(r, j)

Skipping(r, k, m) ==
  /\ Before(r, k) /\ Tells(r, k, "failed")
  /\ \A j \in (k + 1)..(m - 1) : Tells(r, j, "skipped")

Recording(r, m, s) ==
  /\ RowAt(r, m) \in Open /\ Clear(r, m + 1)
  /\ \/ s = "succeeded" /\ pc[r] = "select" /\ at[r] = m + 1 /\ Before(r, m)
     \/ s = "running" /\ pc[r] = "shell" /\ at[r] = m /\ Before(r, m)
     \/ s = "failed" /\ pc[r] = "finish" /\ outcome[r] = "failed" /\ Before(r, m)
     \/ s = "cancelled" /\ pc[r] = "finish" /\ outcome[r] = "cancelled" /\ Before(r, m)
          /\ r \in stopped \cup hit
     \/ s = "skipped" /\ pc[r] = "finish" /\ outcome[r] = "failed"
          /\ \E k \in 1..(m - 1) : Skipping(r, k, m)

Early == {"none", "insert", "register", "kickoff", "mark"}
Told(r) ==
  \/ pc[r] \in Early /\ at[r] = 1 /\ Clear(r, 1)
  \/ pc[r] = "select" /\ Before(r, at[r]) /\ Clear(r, at[r])
  \/ pc[r] = "shell" /\ Before(r, at[r]) /\ RowAt(r, at[r]) = "running" /\ Clear(r, at[r] + 1)
  \/ pc[r] = "finish" /\ outcome[r] \in Terminal /\ Ended(r, outcome[r])
  \/ pc[r] \in {"cleanup", "done"} /\ \E o \in Terminal : Ended(r, o)

Walked(r) ==
  IF event[r] = NoEvent THEN Told(r) ELSE Recording(r, event[r].step, event[r].status)

StatusTold(r) ==
  /\ status[r] \in {"none", "pending"} => Clear(r, 1) /\ pc[r] \notin {"select", "shell", "finish"}
  /\ status[r] \in {"succeeded", "failed"} => Ended(r, status[r]) /\ pc[r] \in {"cleanup", "done"}

RowsInv ==
  TypeInv /\ (DistinctNames => \A r \in Runs : InOrder(r) /\ Walked(r) /\ StatusTold(r))

LEMMA InitRows == Init => RowsInv
<1> SUFFICES ASSUME Init, NEW r \in Runs PROVE InOrder(r) /\ Walked(r) /\ StatusTold(r)
  BY InitType DEF RowsInv
<1>1. \A i \in 1..Len(Steps) : Steps[i].name \in AllNames
  BY StepsAreListed DEF Init
<1>2. \A i \in 1..Len(Steps) : RowAt(r, i) = "none"
  BY <1>1 DEF Init, NoRows, RowAt
<1>3. pc[r] = "none" /\ at[r] = 1 /\ event[r] = NoEvent /\ status[r] = "none"
  BY DEF Init
<1> QED
  BY <1>2, <1>3 DEF Walked, Told, Early, Clear, InOrder, StatusTold

\* A run's pipeline never changes, and what a row's reader may excuse it by
\* (a fault, a cancelled context) is never taken back.
LEMMA NextGrows ==
  ASSUME [Next]_vars
  PROVE  UNCHANGED pipe /\ hit \subseteq hit' /\ stopped \subseteq stopped'
<1>1. ASSUME NEW q, Trigger(q) \/ Walk(q) \/ Shell(q)
      PROVE  UNCHANGED <<pipe, stopped>> /\ hit \subseteq hit'
  <2>1. CASE Trigger(q) \/ Shell(q) \/ Register(q) \/ Select(q) \/ Cleanup(q)
    BY <2>1 DEF Trigger, Shell, Register, Select, Cleanup
  <2>2. CASE Insert(q) \/ Kickoff(q) \/ Mark(q) \/ Finish(q)
    BY <2>2 DEF Insert, Kickoff, Mark, SetRunning, Finish, Hit, NoFault
  <2>3. CASE CreateStepRun(q) \/ UpdateStepRun(q)
    BY <2>3 DEF CreateStepRun, UpdateStepRun, WriteRow, Unrecorded, Hit, NoFault
  <2> QED
    BY <1>1, <2>1, <2>2, <2>3 DEF Walk
<1>2. CASE Crash
  BY <1>2 DEF Crash, Hit
<1>3. ASSUME NEW c, CancelSignal(c) \/ CancelWrite(c)
      PROVE  UNCHANGED pipe /\ hit \subseteq hit' /\ stopped \subseteq stopped'
  BY <1>3 DEF CancelSignal, CancelWrite, Hit, NoFault
<1> QED
  BY <1>1, <1>2, <1>3 DEF Next, Toggle, CancelLoad, vars

LEMMA TellsOn ==
  ASSUME NEW r, NEW i, NEW s, RowAt(r, i)' = RowAt(r, i), hit \subseteq hit', Tells(r, i, s)
  PROVE  Tells(r, i, s)'
BY DEF Tells

\* What the rows told they tell on, as long as they are not written.
LEMMA RowsOn ==
  ASSUME NEW r, UNCHANGED pipe, rows'[r] = rows[r],
         hit \subseteq hit', stopped \subseteq stopped'
  PROVE  /\ Steps' = Steps /\ \A i : RowAt(r, i)' = RowAt(r, i)
         /\ \A k : (Before(r, k) => Before(r, k)') /\ (Clear(r, k) => Clear(r, k)')
         /\ \A k, m : Skipping(r, k, m) => Skipping(r, k, m)'
         /\ \A o : Ended(r, o) => Ended(r, o)'
         /\ InOrder(r) => InOrder(r)'
<1>1. Steps' = Steps /\ \A i : RowAt(r, i)' = RowAt(r, i)
  BY DEF Steps, RowAt
<1>2. \A i, s : Tells(r, i, s) => Tells(r, i, s)'
  BY <1>1, TellsOn
<1>3. \A k : (Before(r, k) => Before(r, k)') /\ (Clear(r, k) => Clear(r, k)')
  BY <1>1, <1>2 DEF Before, Clear
<1>4. \A k, m : Skipping(r, k, m) => Skipping(r, k, m)'
  BY <1>2, <1>3 DEF Skipping
<1>5. \A k, s, l : StoppedAt(r, k, s, l) => StoppedAt(r, k, s, l)'
  BY <1>1, <1>2 DEF StoppedAt
<1>6. \A o : Ended(r, o) => Ended(r, o)'
  BY <1>1, <1>2, <1>5 DEF Ended
<1>7. InOrder(r) => InOrder(r)'
  BY <1>1, <1>3 DEF InOrder
<1> QED
  BY <1>1, <1>3, <1>4, <1>6, <1>7

\* A run whose goroutine and rows stay where they are; Cancel may write its row.
LEMMA RunFrame ==
  ASSUME NEW r, InOrder(r), Walked(r), StatusTold(r), UNCHANGED pipe,
         hit \subseteq hit', stopped \subseteq stopped', rows'[r] = rows[r],
         pc'[r] = pc[r], at'[r] = at[r], event'[r] = event[r], outcome'[r] = outcome[r],
         status'[r] = status[r] \/ status'[r] = "cancelled"
  PROVE  InOrder(r)' /\ Walked(r)' /\ StatusTold(r)'
<1>1. /\ Steps' = Steps /\ \A i : RowAt(r, i)' = RowAt(r, i)
      /\ \A k : (Before(r, k) => Before(r, k)') /\ (Clear(r, k) => Clear(r, k)')
      /\ \A k, m : Skipping(r, k, m) => Skipping(r, k, m)'
      /\ \A o : Ended(r, o) => Ended(r, o)'
      /\ InOrder(r)'
  BY RowsOn
<1>2. Told(r) => Told(r)'
  BY <1>1 DEF Told
<1>3. ASSUME NEW m, NEW s, Recording(r, m, s) PROVE Recording(r, m, s)'
  <2>1. RowAt(r, m)' \in Open /\ Clear(r, m + 1)'
    BY <1>1, <1>3 DEF Recording
  <2>2. (r \in stopped \cup hit) => (r \in stopped \cup hit)'
    OBVIOUS
  <2> QED
    BY <1>1, <1>3, <2>1, <2>2 DEF Recording
<1>4. Walked(r)'
  <2>1. CASE event[r] = NoEvent
    BY <1>2, <2>1 DEF Walked
  <2>2. CASE event[r] # NoEvent
    <3>1. PICK m, s : m = event[r].step /\ s = event[r].status
      OBVIOUS
    <3>2. Recording(r, m, s)
      BY <2>2, <3>1 DEF Walked
    <3>3. Recording(r, m, s)' /\ event'[r].step = m /\ event'[r].status = s
      BY <1>3, <3>1, <3>2
    <3> QED
      BY <2>2, <3>3 DEF Walked
  <2> QED
    BY <2>1, <2>2
<1>5. StatusTold(r)'
  BY <1>1 DEF StatusTold
<1> QED
  BY <1>1, <1>4, <1>5

\* Before the first step nothing is written.
LEMMA EarlyRows ==
  ASSUME TypeInv, NEW r \in Runs, InOrder(r), Walked(r), StatusTold(r), Quiet(r), [Next]_vars,
         Trigger(r) \/ Insert(r) \/ Register(r) \/ Kickoff(r) \/ Mark(r)
  PROVE  InOrder(r)' /\ Walked(r)' /\ StatusTold(r)'
<1>1. /\ UNCHANGED <<at, rows, pipe, event>> /\ pc[r] \in Early /\ event[r] = NoEvent
  BY DEF Trigger, Insert, Register, Kickoff, Mark, SetRunning, Early, Quiet
<1>2. /\ Steps' = Steps /\ (Clear(r, 1) => Clear(r, 1)') /\ InOrder(r)'
  BY <1>1, NextGrows, RowsOn
<1>3. at[r] = 1 /\ Clear(r, 1)
  BY <1>1 DEF Walked, Told, Early
<1>4. \/ pc'[r] \in Early /\ status'[r] \in {status[r], "pending", "running"}
      \/ pc'[r] = "select" /\ status'[r] = "running"
      \/ pc'[r] \in {"cleanup", "done"} /\ r \in hit' /\ status'[r] = status[r]
  BY DEF Trigger, Insert, Register, Kickoff, Mark, SetRunning, GoTo, Hit, TypeInv, TypeOK, Early
<1>5. status[r] \notin {"succeeded", "failed"}
  BY <1>1 DEF StatusTold, Early
<1>6. Walked(r)'
  <2>1. CASE pc'[r] \in Early
    BY <1>1, <1>2, <1>3, <2>1 DEF Walked, Told
  <2>2. CASE pc'[r] = "select"
    BY <1>1, <1>2, <1>3, <2>2 DEF Walked, Told, Before
  <2>3. CASE pc'[r] \in {"cleanup", "done"} /\ r \in hit'
    <3>1. \A j \in 1..Len(Steps') : Tells(r, j, "succeeded")'
      BY <1>2, <1>3, <2>3 DEF Clear, Tells, Open
    <3>2. Ended(r, "succeeded")'
      BY <3>1 DEF Ended
    <3> QED
      BY <1>1, <2>3, <3>2 DEF Walked, Told, Terminal
  <2> QED
    BY <1>4, <2>1, <2>2, <2>3
<1>7. StatusTold(r)'
  BY <1>2, <1>3, <1>4, <1>5 DEF StatusTold, Early
<1> QED
  BY <1>2, <1>6, <1>7

\* The status of a run among its steps.
LEMMA WalkingStatus ==
  ASSUME NEW r, StatusTold(r), pc[r] \in {"select", "shell", "finish"},
         pc'[r] \in {"select", "shell", "finish"}, status'[r] = status[r]
  PROVE  StatusTold(r)'
BY DEF StatusTold

\* A goroutine that now has an event to record.
LEMMA RecordingNow ==
  ASSUME NEW r, NEW m \in Nat \ {0}, NEW s, event'[r] = [step |-> m, status |-> s],
         Recording(r, m, s)'
  PROVE  Walked(r)'
<1>1. event'[r].step = m /\ event'[r].status = s /\ NoEvent.step = 0
  BY DEF NoEvent
<1>2. event'[r] # NoEvent
  BY <1>1
<1> QED
  BY <1>1, <1>2 DEF Walked, NoEvent

LEMMA SelectRows ==
  ASSUME TypeInv, NEW r \in Runs, InOrder(r), Walked(r), StatusTold(r), [Next]_vars, Select(r)
  PROVE  InOrder(r)' /\ Walked(r)' /\ StatusTold(r)'
<1>1. /\ UNCHANGED <<pipe, rows, status, at, hit, stopped>>
      /\ pc[r] = "select" /\ event[r] = NoEvent
      /\ Len(Steps) \in Nat /\ at[r] \in 1..(Len(Steps) + 1)
  BY EventTyped DEF Select, Is
<1>2. /\ Steps' = Steps /\ \A i : RowAt(r, i)' = RowAt(r, i)
      /\ \A k : (Before(r, k) => Before(r, k)') /\ (Clear(r, k) => Clear(r, k)')
      /\ InOrder(r)'
  BY <1>1, NextGrows, RowsOn
<1>3. Before(r, at[r])' /\ Clear(r, at[r])'
  BY <1>1, <1>2 DEF Walked, Told, Early
<1>4. /\ pc'[r] \in {"shell", "finish"}
  BY DEF Select, End, GoTo, TypeInv, TypeOK
<1>5. StatusTold(r)'
  BY <1>1, <1>4, WalkingStatus
<1>6. CASE at[r] > Len(Steps)
  <2>1. pc'[r] = "finish" /\ outcome'[r] = "succeeded" /\ event'[r] = NoEvent
    BY <1>1, <1>6 DEF Select, End, GoTo, TypeInv, TypeOK
  <2>2. \A j \in 1..Len(Steps) : Tells(r, j, "succeeded")'
    BY <1>1, <1>3, <1>6 DEF Before
  <2>3. Ended(r, "succeeded")'
    BY <1>2, <2>2 DEF Ended
  <2> QED
    BY <1>2, <1>5, <2>1, <2>3 DEF Walked, Told, Terminal
<1>7. CASE at[r] <= Len(Steps)
  <2>1. PICK m : m = at[r]
    OBVIOUS
  <2>2. /\ m \in 1..Len(Steps) /\ Before(r, m)' /\ Clear(r, m)'
    BY <1>1, <1>3, <1>7, <2>1
  <2>3. RowAt(r, m)' \in Open /\ Clear(r, m + 1)'
    BY <1>1, <1>2, <2>2 DEF Clear, Open
  <2>4. \/ /\ r \in stopped' /\ event'[r] = [step |-> m, status |-> "cancelled"]
           /\ pc'[r] = "finish" /\ outcome'[r] = "cancelled"
        \/ /\ event'[r] = [step |-> m, status |-> "running"] /\ pc'[r] = "shell" /\ at'[r] = m
    BY <1>1, <1>7, <2>1 DEF Select, End, Emit, GoTo, TypeInv, TypeOK
  <2>5. CASE event'[r] = [step |-> m, status |-> "cancelled"]
    <3>1. pc'[r] = "finish" /\ outcome'[r] = "cancelled" /\ r \in stopped'
      BY <2>4, <2>5
    <3>2. Recording(r, m, "cancelled")'
      BY <2>2, <2>3, <3>1 DEF Recording
    <3> QED
      BY <1>2, <1>5, <2>2, <2>5, <3>2, RecordingNow
  <2>6. CASE event'[r] = [step |-> m, status |-> "running"]
    <3>1. pc'[r] = "shell" /\ at'[r] = m
      BY <2>4, <2>6
    <3>2. Recording(r, m, "running")'
      BY <2>2, <2>3, <3>1 DEF Recording
    <3> QED
      BY <1>2, <1>5, <2>2, <2>6, <3>2, RecordingNow
  <2> QED
    BY <2>4, <2>5, <2>6
<1> QED
  BY <1>1, <1>6, <1>7

LEMMA ShellRows ==
  ASSUME TypeInv, NEW r \in Runs, InOrder(r), Walked(r), StatusTold(r), [Next]_vars, Shell(r)
  PROVE  InOrder(r)' /\ Walked(r)' /\ StatusTold(r)'
<1>1. /\ UNCHANGED <<pipe, rows, status, hit, stopped>>
      /\ pc[r] = "shell" /\ event[r] = NoEvent
  BY DEF Shell, Is
<1>2. /\ Steps' = Steps /\ \A i : RowAt(r, i)' = RowAt(r, i)
      /\ \A k : (Before(r, k) => Before(r, k)') /\ (Clear(r, k) => Clear(r, k)')
      /\ InOrder(r)'
  BY <1>1, NextGrows, RowsOn
<1>3. PICK m : m = at[r]
  OBVIOUS
<1>4. Before(r, m)' /\ RowAt(r, m)' \in Open /\ Clear(r, m + 1)' /\ m \in 1..Len(Steps)
  BY <1>1, <1>2, <1>3, EventTyped DEF Walked, Told, Early, Open, TypeInv, OnStep
<1>5. \/ /\ event'[r] = [step |-> m, status |-> "succeeded"]
         /\ pc'[r] = "select" /\ at'[r] = m + 1
      \/ /\ event'[r] = [step |-> m, status |-> "failed"]
         /\ pc'[r] = "finish" /\ outcome'[r] = "failed"
      \/ /\ event'[r] = [step |-> m, status |-> "cancelled"] /\ r \in stopped
         /\ pc'[r] = "finish" /\ outcome'[r] = "cancelled"
  BY <1>3 DEF Shell, StepSucceeds, StepEnds, End, Emit, GoTo, TypeInv, TypeOK
<1>6. ASSUME NEW s \in {"succeeded", "failed", "cancelled"},
             event'[r] = [step |-> m, status |-> s]
      PROVE  Walked(r)'
  <2>1. \/ s = "succeeded" /\ pc'[r] = "select" /\ at'[r] = m + 1
        \/ s = "failed" /\ pc'[r] = "finish" /\ outcome'[r] = "failed"
        \/ s = "cancelled" /\ pc'[r] = "finish" /\ outcome'[r] = "cancelled" /\ r \in stopped
    BY <1>5, <1>6
  <2>2. Recording(r, m, s)'
    BY <1>1, <1>4, <2>1 DEF Recording
  <2> QED
    BY <1>4, <1>6, <2>2, RecordingNow
<1>7. Walked(r)'
  BY <1>5, <1>6
<1>8. StatusTold(r)'
  BY <1>1, <1>5, WalkingStatus
<1> QED
  BY <1>2, <1>7, <1>8

LEMMA FinishRows ==
  ASSUME TypeInv, NEW r \in Runs, InOrder(r), Walked(r), StatusTold(r), Quiet(r), [Next]_vars,
         Finish(r) \/ Cleanup(r)
  PROVE  InOrder(r)' /\ Walked(r)' /\ StatusTold(r)'
<1>1. UNCHANGED <<pipe, rows, event, outcome>> /\ event[r] = NoEvent
  BY DEF Finish, Cleanup, Is, Quiet
<1>2. /\ \A k : Clear(r, k) => Clear(r, k)'
      /\ \A o : Ended(r, o) => Ended(r, o)'
      /\ InOrder(r)'
  BY <1>1, NextGrows, RowsOn
<1>3. /\ pc'[r] \in {"cleanup", "done"}
      /\ status'[r] = status[r] \/ (pc[r] = "finish" /\ status'[r] = outcome[r])
  <2>1. pc \in [Runs -> Pcs] /\ status \in [Runs -> RunStatuses]
    BY DEF TypeInv, TypeOK
  <2>2. CASE Finish(r)
    <3>1. pc'[r] = "cleanup"
      BY <2>1, <2>2 DEF Finish, GoTo
    <3>2. status'[r] = status[r] \/ status'[r] = outcome[r]
      BY <2>1, <2>2 DEF Finish
    <3>3. pc[r] = "finish"
      BY <2>2 DEF Finish, Is
    <3> QED
      BY <3>1, <3>2, <3>3
  <2>3. CASE Cleanup(r)
    BY <2>1, <2>3 DEF Cleanup, GoTo
  <2> QED
    BY <2>2, <2>3
<1>4. PICK o \in Terminal : Ended(r, o) /\ (pc[r] = "finish" => o = outcome[r])
  <2>1. CASE pc[r] = "finish"
    BY <1>1, <2>1 DEF Walked, Told, Early
  <2>2. CASE pc[r] = "cleanup"
    BY <1>1, <2>2 DEF Walked, Told, Early
  <2> QED
    BY <2>1, <2>2 DEF Finish, Cleanup, Is
<1>5. Walked(r)'
  BY <1>1, <1>2, <1>3, <1>4 DEF Walked, Told
<1>6. StatusTold(r)'
  <2>1. CASE status'[r] = status[r]
    BY <1>2, <1>3, <2>1 DEF StatusTold
  <2>2. CASE pc[r] = "finish" /\ status'[r] = outcome[r]
    <3>1. o \in Terminal /\ Ended(r, o)' /\ status'[r] = o
      BY <1>2, <1>4, <2>2
    <3> QED
      BY <1>3, <3>1 DEF StatusTold, Terminal
  <2> QED
    BY <1>3, <2>1, <2>2
<1> QED
  BY <1>2, <1>5, <1>6

\* What a goroutine with an event to record has told so far.
LEMMA RecordingEvent ==
  ASSUME TypeInv, NEW r \in Runs, Walked(r), event[r] # NoEvent
  PROVE  \E m \in 1..Len(Steps), s \in Events :
           /\ event[r].step = m /\ event[r].status = s /\ Recording(r, m, s)
           /\ Len(Steps) \in Nat
<1>1. /\ event[r].step \in 1..Len(Steps) /\ event[r].status \in Events /\ Len(Steps) \in Nat
  BY EventTyped
<1>2. Recording(r, event[r].step, event[r].status)
  BY DEF Walked
<1> QED
  BY <1>1, <1>2

\* Writing the row of one step leaves the other rows alone.
LEMMA WrittenRow ==
  ASSUME TypeInv, DistinctNames, NEW r \in Runs, NEW m \in 1..Len(Steps), event[r].step = m,
         NEW s, WriteRow(r, s), UNCHANGED pipe
  PROVE  /\ RowAt(r, m)' = s /\ Steps' = Steps
         /\ \A j \in 1..Len(Steps) : j # m => RowAt(r, j)' = RowAt(r, j)
<1>2. Steps' = Steps /\ \A i : RowAt(r, i)' = rows'[r][Steps[i].name]
  BY DEF Steps, RowAt
<1>3. \A i \in 1..Len(Steps) : Steps[i].name \in AllNames
  BY StepsAreListed DEF TypeInv, TypeOK
<1>4. rows'[r] = [rows[r] EXCEPT ![Steps[m].name] = s] /\ rows[r] \in [AllNames -> StepStatuses]
  BY DEF WriteRow, RowOf, TypeInv, TypeOK
<1>5. \A j \in 1..Len(Steps) : j # m => Steps[j].name # Steps[m].name
  BY DEF DistinctNames
<1>6. rows'[r][Steps[m].name] = s
  BY <1>3, <1>4
<1>7. ASSUME NEW j \in 1..Len(Steps), j # m PROVE rows'[r][Steps[j].name] = rows[r][Steps[j].name]
  BY <1>3, <1>4, <1>5, <1>7
<1> QED
  BY <1>2, <1>6, <1>7 DEF RowAt

\* The rows before the one that is written, and those after it.
LEMMA OtherRowsOn ==
  ASSUME NEW r, Len(Steps) \in Nat, Steps' = Steps, hit \subseteq hit',
         NEW m \in 1..Len(Steps),
         \A j \in 1..Len(Steps) : j # m => RowAt(r, j)' = RowAt(r, j)
  PROVE  /\ \A k \in 1..m : Before(r, k) => Before(r, k)'
         /\ Clear(r, m + 1) => Clear(r, m + 1)'
         /\ \A k \in 1..(m - 1) : Skipping(r, k, m) => Skipping(r, k, m)'
<1>1. \A j \in 1..Len(Steps) : j # m => \A s : Tells(r, j, s) => Tells(r, j, s)'
  BY TellsOn
<1>2. \A k \in 1..m : Before(r, k) => Before(r, k)'
  BY <1>1 DEF Before
<1>3. Clear(r, m + 1) => Clear(r, m + 1)'
  BY DEF Clear
<1>4. ASSUME NEW k \in 1..(m - 1), Skipping(r, k, m) PROVE Skipping(r, k, m)'
  <2>1. Before(r, k)'
    BY <1>2, <1>4 DEF Skipping
  <2>2. Tells(r, k, "failed")'
    BY <1>1, <1>4 DEF Skipping
  <2>3. \A j \in (k + 1)..(m - 1) : Tells(r, j, "skipped")'
    BY <1>1, <1>4 DEF Skipping
  <2> QED
    BY <2>1, <2>2, <2>3 DEF Skipping
<1> QED
  BY <1>2, <1>3, <1>4

\* An event recorded, or lost: the step it is about tells it either way.
LEMMA RecordedWalks ==
  ASSUME NEW r, Len(Steps) \in Nat, Steps' = Steps,
         hit \subseteq hit', stopped \subseteq stopped',
         NEW m \in 1..Len(Steps), NEW s \in Events, Recording(r, m, s),
         event[r].step = m, event[r].status = s,
         event'[r] = After(event[r]),
         pc'[r] = pc[r], at'[r] = at[r], outcome'[r] = outcome[r],
         \A j \in 1..Len(Steps) : j # m => RowAt(r, j)' = RowAt(r, j),
         Tells(r, m, s)', s = "running" => RowAt(r, m)' = "running"
  PROVE  Walked(r)'
<1>1. /\ \A k \in 1..m : Before(r, k) => Before(r, k)'
      /\ Clear(r, m + 1) => Clear(r, m + 1)'
      /\ \A k \in 1..(m - 1) : Skipping(r, k, m) => Skipping(r, k, m)'
  BY OtherRowsOn
<1>2. Clear(r, m + 1)'
  BY <1>1 DEF Recording
<1>3. CASE s = "succeeded"
  <2>1. pc'[r] = "select" /\ at'[r] = m + 1 /\ Before(r, m)'
    BY <1>1, <1>3 DEF Recording
  <2>2. Before(r, m + 1)'
    BY <1>3, <2>1 DEF Before
  <2>3. event'[r] = NoEvent
    BY <1>3 DEF After
  <2> QED
    BY <1>2, <2>1, <2>2, <2>3 DEF Walked, Told, NoEvent
<1>4. CASE s = "running"
  <2>1. pc'[r] = "shell" /\ at'[r] = m /\ Before(r, m)'
    BY <1>1, <1>4 DEF Recording
  <2>2. event'[r] = NoEvent
    BY <1>4 DEF After
  <2> QED
    BY <1>2, <1>4, <2>1, <2>2 DEF Walked, Told, NoEvent
<1>5. CASE s = "cancelled"
  <2>1. pc'[r] = "finish" /\ outcome'[r] = "cancelled" /\ Before(r, m)' /\ r \in (stopped \cup hit)'
    BY <1>1, <1>5 DEF Recording
  <2>2. StoppedAt(r, m, "cancelled", "none")'
    BY <1>2, <1>5, <2>1 DEF StoppedAt, Before, Clear, Tells
  <2>3. Ended(r, "cancelled")'
    BY <2>1, <2>2 DEF Ended
  <2>4. event'[r] = NoEvent
    BY <1>5 DEF After
  <2> QED
    BY <2>1, <2>3, <2>4 DEF Walked, Told, NoEvent, Terminal
<1>6. CASE s \in {"failed", "skipped"}
  <2>1. pc'[r] = "finish" /\ outcome'[r] = "failed"
    BY <1>6 DEF Recording
  <2>2. PICK k \in 1..m : Skipping(r, k, m + 1)'
    <3>1. CASE s = "failed"
      <4>1. Before(r, m)'
        BY <1>1, <3>1 DEF Recording
      <4>2. Skipping(r, m, m + 1)'
        BY <3>1, <4>1 DEF Skipping
      <4> QED
        BY <4>2
    <3>2. CASE s = "skipped"
      <4>1. PICK k \in 1..(m - 1) : Skipping(r, k, m)'
        BY <1>1, <3>2 DEF Recording
      <4>2. Skipping(r, k, m + 1)'
        BY <3>2, <4>1 DEF Skipping
      <4> QED
        BY <4>2
    <3> QED
      BY <1>6, <3>1, <3>2
  <2>3. CASE m = Len(Steps)
    <3>1. event'[r] = NoEvent
      BY <2>3 DEF After
    <3>2. StoppedAt(r, k, "failed", "skipped")'
      BY <2>2, <2>3 DEF StoppedAt, Skipping, Before
    <3>3. Ended(r, "failed")'
      BY <3>2 DEF Ended
    <3> QED
      BY <2>1, <3>1, <3>3 DEF Walked, Told, NoEvent, Terminal
  <2>4. CASE m < Len(Steps)
    <3>1. event'[r] = [step |-> m + 1, status |-> "skipped"]
      BY <1>6, <2>4 DEF After
    <3>2. RowAt(r, m + 1)' \in Open /\ Clear(r, (m + 1) + 1)'
      BY <1>2, <2>4 DEF Clear, Open
    <3>3. PICK n \in Nat \ {0} : n = m + 1
      OBVIOUS
    <3>4. Recording(r, n, "skipped")'
      <4>1. k \in 1..(n - 1) /\ Skipping(r, k, n)'
        BY <2>2, <3>3
      <4> QED
        BY <2>1, <3>2, <3>3, <4>1 DEF Recording
    <3> QED
      BY <3>1, <3>3, <3>4, RecordingNow
  <2> QED
    BY <2>3, <2>4
<1> QED
  BY <1>3, <1>4, <1>5, <1>6 DEF Events

\* No step is told to have begun before the ones before it succeeded.
LEMMA WrittenInOrder ==
  ASSUME NEW r, Len(Steps) \in Nat, Steps' = Steps, hit \subseteq hit', InOrder(r),
         NEW m \in 1..Len(Steps), NEW s \in Events, Recording(r, m, s),
         RowAt(r, m)' \in {"pending", s},
         \A j \in 1..Len(Steps) : j # m => RowAt(r, j)' = RowAt(r, j)
  PROVE  InOrder(r)'
<1>1. \A k \in 1..m : Before(r, k) => Before(r, k)'
  BY OtherRowsOn
<1>2. SUFFICES ASSUME NEW j \in 1..Len(Steps), RowAt(r, j)' \in {"running", "succeeded", "failed"}
               PROVE  Before(r, j)'
  BY DEF InOrder
<1>3. CASE j = m
  <2>1. Before(r, m)
    BY <1>2, <1>3 DEF Recording
  <2> QED
    BY <1>1, <1>3, <2>1
<1>4. CASE j < m
  <2>1. Before(r, j)
    BY <1>2, <1>4 DEF InOrder
  <2> QED
    BY <1>1, <1>4, <2>1
<1>5. CASE j > m
  <2>1. RowAt(r, j) = "none"
    BY <1>5 DEF Recording, Clear
  <2> QED
    BY <1>2, <1>5, <2>1
<1> QED
  BY <1>3, <1>4, <1>5

LEMMA StepRunRows ==
  ASSUME TypeInv, DistinctNames, NEW r \in Runs, InOrder(r), Walked(r), StatusTold(r),
         [Next]_vars, CreateStepRun(r) \/ UpdateStepRun(r)
  PROVE  InOrder(r)' /\ Walked(r)' /\ StatusTold(r)'
<1>1. /\ event[r] # NoEvent /\ UNCHANGED <<pipe, status, at, stopped>> /\ hit \subseteq hit'
      /\ pc \in [Runs -> Pcs] /\ outcome \in [Runs -> Terminal \cup {"none"}]
      /\ event \in [Runs -> StepEvents]
  BY NextGrows DEF CreateStepRun, UpdateStepRun, TypeInv, TypeOK, StepEvents
<1>2. PICK m \in 1..Len(Steps), s \in Events :
        /\ event[r].step = m /\ event[r].status = s /\ Recording(r, m, s) /\ Len(Steps) \in Nat
  BY <1>1, RecordingEvent
<1>3. pc[r] \in {"select", "shell", "finish"} /\ RowAt(r, m) \in Open
  BY <1>2 DEF Recording
<1>4. Steps' = Steps
  BY <1>1 DEF Steps
\* The row of the step is created, pending.
<1>5. CASE CreateStepRun(r) /\ WriteRow(r, "pending")
  <2>1. /\ RowAt(r, m)' = "pending"
        /\ \A j \in 1..Len(Steps) : j # m => RowAt(r, j)' = RowAt(r, j)
    BY <1>1, <1>2, <1>5, WrittenRow
  <2>2. UNCHANGED <<pc, event, outcome>>
    <3>1. rows[r][RowOf(r)] = "none" /\ RowOf(r) \in AllNames
      BY <1>1, <1>5, EventTyped DEF CreateStepRun
    <3>2. rows'[r][RowOf(r)] = "pending"
      BY <1>5, <3>1 DEF WriteRow, TypeInv, TypeOK
    <3> QED
      BY <1>5, <3>1, <3>2 DEF CreateStepRun
  <2>3. InOrder(r)'
    BY <1>1, <1>2, <1>4, <2>1, WrittenInOrder
  <2>4. Recording(r, m, s)'
    <3>1. /\ \A k \in 1..m : Before(r, k) => Before(r, k)'
          /\ Clear(r, m + 1) => Clear(r, m + 1)'
          /\ \A k \in 1..(m - 1) : Skipping(r, k, m) => Skipping(r, k, m)'
      BY <1>1, <1>2, <1>4, <2>1, OtherRowsOn
    <3>2. RowAt(r, m)' \in Open /\ Clear(r, m + 1)' /\ (Before(r, m) => Before(r, m)')
      BY <1>2, <2>1, <3>1 DEF Open, Recording
    <3>3. (\E k \in 1..(m - 1) : Skipping(r, k, m)) => \E k \in 1..(m - 1) : Skipping(r, k, m)'
      BY <3>1
    <3> QED
      BY <1>1, <1>2, <2>2, <3>2, <3>3 DEF Recording
  <2>5. Walked(r)'
    BY <1>1, <1>2, <2>2, <2>4 DEF Walked
  <2>6. StatusTold(r)'
    BY <1>1, <1>3, <2>2, WalkingStatus
  <2> QED
    BY <2>3, <2>5, <2>6
\* The status of the event is written into it.
<1>6. CASE UpdateStepRun(r) /\ WriteRow(r, event[r].status) /\ Recorded(r)
  <2>1. /\ RowAt(r, m)' = s
        /\ \A j \in 1..Len(Steps) : j # m => RowAt(r, j)' = RowAt(r, j)
    BY <1>1, <1>2, <1>6, WrittenRow
  <2>2. UNCHANGED <<pc, outcome>> /\ event'[r] = After(event[r])
    BY <1>1, <1>6 DEF Recorded
  <2>3. InOrder(r)'
    BY <1>1, <1>2, <1>4, <2>1, WrittenInOrder
  <2>4. Tells(r, m, s)'
    BY <2>1 DEF Tells
  <2>5. Walked(r)'
    BY <1>1, <1>2, <1>4, <2>1, <2>2, <2>4, RecordedWalks
  <2>6. StatusTold(r)'
    BY <1>1, <1>3, <2>2, WalkingStatus
  <2> QED
    BY <2>3, <2>5, <2>6
\* A database error: the event is lost.
<1>7. CASE Unrecorded(r) /\ UNCHANGED rows
  <2>1. r \in hit'
    BY <1>7 DEF Unrecorded, Hit
  <2>2. /\ \A i : RowAt(r, i)' = RowAt(r, i) /\ InOrder(r)'
        /\ \A k : (Before(r, k) => Before(r, k)') /\ (Clear(r, k) => Clear(r, k)')
    <3>1. UNCHANGED pipe /\ rows'[r] = rows[r] /\ stopped \subseteq stopped'
      BY <1>1, <1>7
    <3> QED
      BY <1>1, <3>1, RowsOn
  <2>3. \A q : Tells(r, m, q)'
    BY <1>3, <2>1, <2>2 DEF Tells, Open
  <2>4. CASE s # "running" /\ Recorded(r)
    <3>1. UNCHANGED <<pc, outcome>> /\ event'[r] = After(event[r])
      BY <1>1, <2>4 DEF Recorded
    <3>2. Walked(r)'
      BY <1>1, <1>2, <1>4, <2>2, <2>3, <2>4, <3>1, RecordedWalks
    <3>3. StatusTold(r)'
      BY <1>1, <1>3, <3>1, WalkingStatus
    <3> QED
      BY <2>2, <3>2, <3>3
  <2>5. CASE s = "running" /\ event' = [event EXCEPT ![r] = NoEvent] /\ End(r, "failed")
    <3>1. pc'[r] = "finish" /\ outcome'[r] = "failed" /\ event'[r] = NoEvent
      BY <1>1, <2>5 DEF End, GoTo
    <3>2. Before(r, m)' /\ Clear(r, m + 1)'
      BY <1>2, <2>2, <2>5 DEF Recording
    <3>3. StoppedAt(r, m, "failed", "skipped")'
      <4>1. \A j \in 1..(m - 1) : Tells(r, j, "succeeded")'
        BY <3>2 DEF Before
      <4>2. \A j \in (m + 1)..Len(Steps) : Tells(r, j, "skipped")'
        BY <1>4, <2>1, <3>2 DEF Clear, Tells, Open
      <4> QED
        BY <1>4, <2>3, <4>1, <4>2 DEF StoppedAt
    <3>4. Ended(r, "failed")'
      BY <1>4, <3>3 DEF Ended
    <3>5. Walked(r)'
      BY <3>1, <3>4 DEF Walked, Told, Terminal, NoEvent
    <3>6. StatusTold(r)'
      BY <1>1, <1>3, <3>1, WalkingStatus
    <3> QED
      BY <2>2, <3>5, <3>6
  <2> QED
    BY <1>2, <1>7, <2>4, <2>5 DEF Unrecorded
<1> QED
  BY <1>5, <1>6, <1>7 DEF CreateStepRun, UpdateStepRun

\* A crash takes the goroutine, wherever it was among its steps.
LEMMA CrashRows ==
  ASSUME TypeInv, NEW r \in Runs, InOrder(r), Walked(r), StatusTold(r), Quiet(r),
         [Next]_vars, Crash
  PROVE  InOrder(r)' /\ Walked(r)' /\ StatusTold(r)'
<1>1. /\ UNCHANGED <<pipe, rows, status, at, outcome, stopped>> /\ hit \subseteq hit'
      /\ event'[r] = NoEvent
  BY NextGrows DEF Crash
<1>2. /\ Steps' = Steps /\ \A i : RowAt(r, i)' = RowAt(r, i)
      /\ \A k : (Before(r, k) => Before(r, k)') /\ (Clear(r, k) => Clear(r, k)')
      /\ \A k, m : Skipping(r, k, m) => Skipping(r, k, m)'
      /\ \A o : Ended(r, o) => Ended(r, o)'
      /\ InOrder(r)'
  BY <1>1, RowsOn
<1>3. CASE ~Active(r)
  <2>1. pc'[r] = pc[r] /\ event'[r] = event[r]
    BY <1>1, <1>3 DEF Crash, Active, Quiet, TypeInv, TypeOK
  <2> QED
    BY <1>1, <2>1, RunFrame
<1>4. CASE Active(r)
  <2>1. pc'[r] = "done" /\ r \in hit'
    BY <1>4 DEF Crash, Hit
  <2>2. Len(Steps) \in Nat /\ at[r] \in 1..(Len(Steps) + 1)
    BY EventTyped
  \* The rows up to some step told their ends; the ones from there are open.
  <2>3. ASSUME NEW k \in 1..Len(Steps), Before(r, k)', RowAt(r, k)' \in Open, Clear(r, k + 1)'
        PROVE  Ended(r, "failed")'
    <3>1. /\ \A j \in 1..(k - 1) : Tells(r, j, "succeeded")'
          /\ Tells(r, k, "failed")'
          /\ \A j \in (k + 1)..Len(Steps) : Tells(r, j, "skipped")'
      BY <1>2, <2>1, <2>3 DEF Before, Clear, Tells, Open
    <3>2. StoppedAt(r, k, "failed", "skipped")'
      BY <1>2, <3>1 DEF StoppedAt
    <3> QED
      BY <1>2, <3>2 DEF Ended
  <2>4. ASSUME NEW k \in 1..(Len(Steps) + 1), Before(r, k)', Clear(r, k)'
        PROVE  \E o \in Terminal : Ended(r, o)'
    <3>1. CASE k = Len(Steps) + 1
      <4>1. \A j \in 1..Len(Steps) : Tells(r, j, "succeeded")'
        BY <2>2, <2>4, <3>1 DEF Before
      <4>2. Ended(r, "succeeded")'
        BY <1>2, <4>1 DEF Ended
      <4> QED
        BY <4>2 DEF Terminal
    <3>2. CASE k \in 1..Len(Steps)
      <4>1. RowAt(r, k)' \in Open /\ Clear(r, k + 1)'
        BY <1>2, <2>2, <2>4, <3>2 DEF Clear, Open
      <4> QED
        BY <2>3, <2>4, <3>2, <4>1 DEF Terminal
    <3> QED
      BY <2>2, <3>1, <3>2
  <2>5. \E o \in Terminal : Ended(r, o)'
    <3>1. CASE event[r] = NoEvent
      <4>1. Told(r)
        BY <3>1 DEF Walked
      <4>2. CASE pc[r] \in Early /\ at[r] = 1 /\ Clear(r, 1)
        <5>1. Before(r, 1)' /\ Clear(r, 1)' /\ 1 \in 1..(Len(Steps) + 1)
          BY <1>2, <2>2, <4>2 DEF Before
        <5> QED
          BY <2>4, <5>1
      <4>3. CASE pc[r] = "select" /\ Before(r, at[r]) /\ Clear(r, at[r])
        <5>1. PICK k \in 1..(Len(Steps) + 1) : k = at[r]
          BY <2>2
        <5> QED
          BY <1>2, <2>4, <4>3, <5>1
      <4>4. CASE pc[r] = "shell" /\ Before(r, at[r]) /\ RowAt(r, at[r]) = "running"
                 /\ Clear(r, at[r] + 1)
        <5>1. PICK k \in 1..Len(Steps) : k = at[r]
          BY <2>2, <4>4 DEF TypeInv, OnStep
        <5> QED
          BY <1>2, <2>3, <4>4, <5>1 DEF Open, Terminal
      <4>5. CASE pc[r] = "finish" /\ outcome[r] \in Terminal /\ Ended(r, outcome[r])
        <5>1. PICK o \in Terminal : Ended(r, o)
          BY <4>5
        <5> QED
          BY <1>2, <5>1
      <4>6. CASE pc[r] \in {"cleanup", "done"} /\ \E o \in Terminal : Ended(r, o)
        BY <1>2, <4>6
      <4> QED
        BY <4>1, <4>2, <4>3, <4>4, <4>5, <4>6 DEF Told
    <3>2. CASE event[r] # NoEvent
      <4>1. PICK m \in 1..Len(Steps), s \in Events : Recording(r, m, s)
        BY <3>2, RecordingEvent
      <4>2. RowAt(r, m)' \in Open /\ Clear(r, m + 1)'
        BY <1>2, <4>1 DEF Recording
      <4>3. CASE Before(r, m)
        BY <1>2, <2>3, <4>2, <4>3 DEF Terminal
      <4>4. CASE \E k \in 1..(m - 1) : Skipping(r, k, m)
        <5>1. PICK k \in 1..(m - 1) : Skipping(r, k, m)'
          BY <1>2, <4>4
        <5>2. Tells(r, m, "skipped")' /\ \A j \in (m + 1)..Len(Steps) : Tells(r, j, "skipped")'
          BY <1>2, <2>1, <2>2, <4>2 DEF Clear, Tells, Open
        <5>3. \A j \in (k + 1)..Len(Steps) : Tells(r, j, "skipped")'
          BY <2>2, <5>1, <5>2 DEF Skipping
        <5>4. StoppedAt(r, k, "failed", "skipped")'
          BY <1>2, <5>1, <5>3 DEF Skipping, Before, StoppedAt
        <5>5. Ended(r, "failed")'
          BY <1>2, <2>2, <5>4 DEF Ended
        <5> QED
          BY <5>5 DEF Terminal
      <4> QED
        BY <4>1, <4>3, <4>4 DEF Recording
    <3> QED
      BY <3>1, <3>2
  <2>6. Walked(r)'
    BY <1>1, <2>1, <2>5 DEF Walked, Told
  <2>7. StatusTold(r)'
    BY <1>1, <1>2, <2>1 DEF StatusTold
  <2> QED
    BY <1>2, <2>6, <2>7
<1> QED
  BY <1>3, <1>4

LEMMA NextRows ==
  ASSUME RowsInv, \A q \in Runs : Quiet(q), [Next]_vars, DistinctNames', NEW r \in Runs
  PROVE  InOrder(r)' /\ Walked(r)' /\ StatusTold(r)'
<1>1. UNCHANGED pipe /\ hit \subseteq hit' /\ stopped \subseteq stopped'
  BY NextGrows
<1>2. TypeInv /\ DistinctNames /\ InOrder(r) /\ Walked(r) /\ StatusTold(r) /\ Quiet(r)
  BY <1>1 DEF RowsInv, DistinctNames, Steps
<1>3. ASSUME UNCHANGED <<rows, run>>, status'[r] = status[r] \/ status'[r] = "cancelled"
      PROVE  InOrder(r)' /\ Walked(r)' /\ StatusTold(r)'
  BY <1>1, <1>2, <1>3, RunFrame DEF run
<1>4. ASSUME NEW q \in Runs, Trigger(q) \/ Walk(q) \/ Shell(q)
      PROVE  InOrder(r)' /\ Walked(r)' /\ StatusTold(r)'
  <2>1. CASE q = r
    BY <1>2, <1>4, <2>1, EarlyRows, SelectRows, ShellRows, FinishRows, StepRunRows DEF Walk
  <2>2. CASE q # r
    BY <1>1, <1>2, <1>4, <2>2, OthersStay, RunFrame
  <2> QED
    BY <2>1, <2>2
<1>5. CASE Crash
  BY <1>2, <1>5, CrashRows
<1>6. ASSUME NEW c \in Cancellers, CancelWrite(c)
      PROVE  InOrder(r)' /\ Walked(r)' /\ StatusTold(r)'
  <2>1. status'[r] = status[r] \/ status'[r] = "cancelled"
    BY <1>2, <1>6 DEF CancelWrite, TypeInv, TypeOK
  <2> QED
    BY <1>3, <1>6, <2>1 DEF CancelWrite
<1>7. CASE UNCHANGED <<rows, run, status>>
  BY <1>3, <1>7
<1> QED
  BY <1>4, <1>5, <1>6, <1>7 DEF Next, Toggle, CancelLoad, CancelSignal, vars

(***************************************************************************)
(* Where step names are distinct, the step rows of every run explain what  *)
(* its row and its goroutine say, and after a fault leave open only what   *)
(* the fault kept from being written.                                      *)
(***************************************************************************)
THEOREM RowsTold == Spec => []RowsExplainRun
<1> DEFINE Walking == RowsInv /\ \A r \in Runs : Quiet(r)
<1>1. Init => Walking
  BY InitRows DEF Init, Quiet
<1>2. Walking /\ [Next]_vars => Walking'
  <2> SUFFICES ASSUME RowsInv, \A r \in Runs : Quiet(r), [Next]_vars PROVE Walking'
    OBVIOUS
  <2>1. TypeInv' /\ \A r \in Runs : Quiet(r)'
    BY NextType, NextQuiet DEF RowsInv
  <2>2. DistinctNames' => \A r \in Runs : InOrder(r)' /\ Walked(r)' /\ StatusTold(r)'
    BY NextRows
  <2> QED
    BY <2>1, <2>2 DEF RowsInv
<1>3. Walking => RowsExplainRun
  <2> SUFFICES ASSUME RowsInv, \A r \in Runs : Quiet(r), DistinctNames, NEW r \in Runs
               PROVE  Explained(r)
    BY DEF RowsExplainRun
  <2>1. InOrder(r) /\ Walked(r) /\ StatusTold(r) /\ Quiet(r)
    BY DEF RowsInv
  <2>2. pc[r] = "done" => \E o \in Terminal : Ended(r, o)
    BY <2>1 DEF Walked, Told, Quiet, Early
  <2>3. status[r] \in {"none", "pending"} => \A j \in 1..Len(Steps) : RowAt(r, j) = "none"
    BY <2>1 DEF StatusTold, Clear
  <2>4. status[r] \in {"succeeded", "failed"} => Ended(r, status[r])
    BY <2>1 DEF StatusTold
  <2> QED
    BY <2>1, <2>2, <2>3, <2>4 DEF Explained, InOrder, Before
<1> QED
  BY <1>1, <1>2, <1>3, PTL DEF Spec

-----------------------------------------------------------------------------
(***************************************************************************)
(* Rolling updates.  That the loop over the fleet covers it, for any size  *)
(* of fleet and any surge, is an induction on the number of instances that *)
(* are left, by the least one that would be wrong.                         *)
(***************************************************************************)
LEMMA Least ==
  ASSUME NEW T \in SUBSET Nat, T # {}
  PROVE  \E x \in T : \A y \in T : x <= y
<1> DEFINE R == OpToRel(<, Nat)
<1>1. IsWellFoundedOn(R, Nat)
  BY NatLessThanWellFounded
<1>2. ASSUME NEW x \in Nat, NEW y \in Nat, y < x PROVE <<y, x>> \in R
  BY <1>2 DEF OpToRel
<1> HIDE DEF R
<1>3. PICK x \in T : \A y \in T : ~ (<<y, x>> \in R)
  BY <1>1, WFMin
<1>4. ASSUME NEW y \in T PROVE x <= y
  <2>1. x \in Nat /\ y \in Nat
    OBVIOUS
  <2>2. ~(y < x)
    BY <1>2, <1>3, <2>1
  <2> QED BY <2>1, <2>2
<1> QED BY <1>4

Span  == [first : Int, last : Int]
Lists == Seq(Span)

\* One turn of the loop, after the first done instances.
Turn(f, n, b, done) ==
  IF done = n THEN <<>>
  ELSE <<[first |-> done + 1, last |-> EndOf(n, b, done)]>> \o f[EndOf(n, b, done)]

LEMMA EndOfBounds ==
  ASSUME NEW n \in Nat, NEW b \in Nat \ {0}, NEW d \in 0..n, d # n
  PROVE  /\ EndOf(n, b, d) \in (d + 1)..n
         /\ EndOf(n, b, d) - d <= b
         /\ EndOf(n, b, d) # n => EndOf(n, b, d) - d = b
BY DEF EndOf

\* There is a function that each turn of the loop extends.
LEMMA TurnsExist ==
  ASSUME NEW n \in Nat, NEW b \in Nat \ {0}
  PROVE  \E g : g = [d \in 0..n |-> Turn(g, n, b, d)]
<1> DEFINE P(k) == \E g : g = [d \in (n - k)..n |-> Turn(g, n, b, d)]
           T    == {k \in 0..n : ~P(k)}
<1>1. P(0)
  <2> DEFINE g == [d \in (n - 0)..n |-> <<>>]
  <2>1. g = [d \in (n - 0)..n |-> Turn(g, n, b, d)]
    BY DEF Turn
  <2> HIDE DEF g
  <2> QED BY <2>1
<1>2. ASSUME NEW k \in 1..n, P(k - 1) PROVE P(k)
  <2>1. PICK g : g = [d \in (n - (k - 1))..n |-> Turn(g, n, b, d)]
    BY <1>2
  <2> DEFINE h == [d \in (n - k)..n |-> IF d = n - k THEN Turn(g, n, b, d) ELSE g[d]]
  <2>2. ASSUME NEW d \in (n - k)..n PROVE h[d] = Turn(h, n, b, d)
    <3>1. d \in 0..n
      OBVIOUS
    <3>2. d # n => EndOf(n, b, d) \in (n - (k - 1))..n
      BY <3>1, EndOfBounds
    <3>3. d # n => h[EndOf(n, b, d)] = g[EndOf(n, b, d)]
      BY <3>2
    <3>4. Turn(h, n, b, d) = Turn(g, n, b, d)
      <4> HIDE DEF h
      <4> QED BY <3>3 DEF Turn
    <3>5. CASE d = n - k
      BY <3>4, <3>5
    <3>6. CASE d # n - k
      <4>1. d \in (n - (k - 1))..n
        BY <3>6
      <4>2. g[d] = Turn(g, n, b, d)
        BY <2>1, <4>1
      <4>3. h[d] = g[d]
        BY <3>6
      <4> QED BY <3>4, <4>2, <4>3
    <3> QED BY <3>5, <3>6
  <2>3. h = [d \in (n - k)..n |-> Turn(h, n, b, d)]
    <3>1. h = [d \in (n - k)..n |-> h[d]]
      OBVIOUS
    <3> HIDE DEF h
    <3> QED BY <2>2, <3>1
  <2> HIDE DEF h
  <2> QED BY <2>3
<1>3. T = {}
  <2> SUFFICES ASSUME T # {} PROVE FALSE
    OBVIOUS
  <2>1. PICK k \in T : \A j \in T : k <= j
    <3> HIDE DEF P
    <3>1. T \in SUBSET Nat
      OBVIOUS
    <3> QED BY <3>1, Least
  <2> HIDE DEF P
  <2>2. k \in 0..n /\ ~P(k) /\ k # 0
    BY <1>1
  <2>3. k - 1 \in 0..n /\ k - 1 \notin T /\ k \in 1..n
    BY <2>1, <2>2
  <2>4. P(k - 1)
    BY <2>3
  <2> QED BY <1>2, <2>2, <2>3, <2>4
<1>4. P(n)
  <2> HIDE DEF P
  <2> QED BY <1>3
<1>5. n - n = 0
  OBVIOUS
<1> QED BY <1>4, <1>5

LEMMA Ranges ==
  ASSUME NEW n \in Nat, NEW b \in Nat \ {0}, NEW d \in 0..n
  PROVE  RangesFrom(n, b)[d] = Turn(RangesFrom(n, b), n, b, d)
<1> DEFINE P(g) == g = [done \in 0..n |-> Turn(g, n, b, done)]
<1>1. RangesFrom(n, b) = CHOOSE g : P(g)
  BY DEF RangesFrom, Turn
<1>2. \E g : P(g)
  BY TurnsExist
<1> HIDE DEF P
<1>3. P(CHOOSE g : P(g))
  BY <1>2
<1>4. RangesFrom(n, b) = [done \in 0..n |-> Turn(RangesFrom(n, b), n, b, done)]
  BY <1>1, <1>3 DEF P
<1> QED BY <1>4

LEMMA Prepended ==
  ASSUME NEW x \in Span, NEW t \in Lists
  PROVE  LET s == <<x>> \o t IN
         /\ s \in Lists /\ Len(s) = Len(t) + 1 /\ Len(t) \in Nat
         /\ s[1] = x
         /\ \A i \in 1..Len(t) : s[i + 1] = t[i]
<1>1. <<x>> \in Lists /\ Len(<<x>>) = 1 /\ <<x>>[1] = x
  BY DEF Lists
<1>2. Len(t) \in Nat
  BY LenProperties DEF Lists
<1>3. /\ <<x>> \o t \in Seq(Span)
      /\ Len(<<x>> \o t) = Len(<<x>>) + Len(t)
      /\ \A i \in 1 .. Len(<<x>>) + Len(t) : (<<x>> \o t)[i] =
            IF i <= Len(<<x>>) THEN <<x>>[i] ELSE t[i - Len(<<x>>)]
  BY <1>1, ConcatProperties DEF Lists
<1>4. (<<x>> \o t)[1] = x
  BY <1>1, <1>2, <1>3
<1>5. ASSUME NEW i \in 1..Len(t) PROVE (<<x>> \o t)[i + 1] = t[i]
  <2>1. i + 1 \in 1 .. Len(<<x>>) + Len(t) /\ ~(i + 1 <= Len(<<x>>)) /\ (i + 1) - Len(<<x>>) = i
    BY <1>1, <1>2
  <2> QED BY <1>3, <2>1
<1> QED BY <1>1, <1>2, <1>3, <1>4, <1>5 DEF Lists

\* What the turns after the first d instances plan.
Covers(n, b, d, s) ==
  /\ s \in Lists
  /\ Len(s) = 0 <=> d = n
  /\ d # n => s[1].first = d + 1 /\ s[Len(s)].last = n
  /\ \A k \in 2..Len(s) : s[k].first = s[k - 1].last + 1
  /\ \A k \in 1..Len(s) : LET size == s[k].last - s[k].first + 1
                          IN  size \in 1..b /\ (k < Len(s) => size = b)

LEMMA TurnCovers ==
  ASSUME NEW n \in Nat, NEW b \in Nat \ {0}, NEW d \in 0..n, d # n,
         NEW t, Covers(n, b, EndOf(n, b, d), t)
  PROVE  Covers(n, b, d, <<[first |-> d + 1, last |-> EndOf(n, b, d)]>> \o t)
<1> DEFINE e == EndOf(n, b, d)
           x == [first |-> d + 1, last |-> e]
           s == <<x>> \o t
<1>1. e \in (d + 1)..n /\ e - d <= b /\ (e # n => e - d = b)
  BY EndOfBounds
<1>2. x \in Span /\ x.first = d + 1 /\ x.last = e
  BY <1>1 DEF Span
<1>3. t \in Lists
  BY DEF Covers
<1> HIDE DEF x, e
<1>4. /\ s \in Lists /\ Len(s) = Len(t) + 1 /\ Len(t) \in Nat
      /\ s[1] = x
      /\ \A i \in 1..Len(t) : s[i + 1] = t[i]
  BY <1>2, <1>3, Prepended
<1>5. Covers(n, b, e, t)
  BY DEF e
<1>6. \A i \in 1..Len(t) : t[i].first \in Int /\ t[i].last \in Int
  <2> TAKE i \in 1..Len(t)
  <2>1. t[i] \in Span
    BY <1>3, ElementOfSeq DEF Lists
  <2> QED BY <2>1 DEF Span
<1> HIDE DEF s
<1>7. \A k \in 2..Len(s) : k - 1 \in 1..Len(t) /\ s[k] = t[k - 1]
  <2> TAKE k \in 2..Len(s)
  <2>1. k - 1 \in 1..Len(t) /\ (k - 1) + 1 = k
    BY <1>4
  <2> QED BY <1>4, <2>1
<1>8. s[1].first = d + 1 /\ s[Len(s)].last = n
  <2>1. CASE Len(t) = 0
    BY <1>1, <1>2, <1>4, <1>5, <2>1 DEF Covers
  <2>2. CASE Len(t) # 0
    <3>1. Len(s) \in 2..Len(s) /\ Len(s) - 1 = Len(t)
      BY <1>4, <2>2
    <3>2. s[Len(s)] = t[Len(t)]
      BY <1>7, <3>1
    <3>3. t[Len(t)].last = n
      BY <1>5, <2>2 DEF Covers
    <3> QED BY <1>2, <1>4, <3>2, <3>3
  <2> QED BY <2>1, <2>2
<1>9. ASSUME NEW k \in 2..Len(s) PROVE s[k].first = s[k - 1].last + 1
  <2>1. CASE k = 2
    <3>1. s[k] = t[1] /\ Len(t) # 0
      BY <1>4, <1>7, <2>1
    <3>2. t[1].first = e + 1
      BY <1>5, <3>1 DEF Covers
    <3> QED BY <1>2, <1>4, <2>1, <3>1, <3>2
  <2>2. CASE k # 2
    <3>1. k - 1 \in 2..Len(s) /\ k - 1 \in 2..Len(t)
      BY <1>4, <2>2
    <3>2. s[k] = t[k - 1] /\ s[k - 1] = t[(k - 1) - 1]
      BY <1>7, <3>1
    <3>3. t[k - 1].first = t[(k - 1) - 1].last + 1
      BY <1>5, <3>1 DEF Covers
    <3> QED BY <3>2, <3>3
  <2> QED BY <2>1, <2>2
<1>10. ASSUME NEW k \in 1..Len(s)
       PROVE  LET size == s[k].last - s[k].first + 1
              IN  size \in 1..b /\ (k < Len(s) => size = b)
  <2>1. CASE k = 1
    <3>1. s[k].last - s[k].first + 1 = e - d
      BY <1>1, <1>2, <1>4, <2>1
    <3>2. k < Len(s) => Len(t) # 0
      BY <1>4, <2>1
    <3>3. Len(t) # 0 => e # n
      BY <1>5 DEF Covers
    <3> QED BY <1>1, <3>1, <3>2, <3>3
  <2>2. CASE k # 1
    <3>1. k \in 2..Len(s)
      BY <1>4, <2>2
    <3>2. s[k] = t[k - 1] /\ k - 1 \in 1..Len(t) /\ (k < Len(s) => k - 1 < Len(t))
      BY <1>4, <1>7, <3>1
    <3>3. LET size == t[k - 1].last - t[k - 1].first + 1
          IN  size \in 1..b /\ (k - 1 < Len(t) => size = b)
      BY <1>5, <3>2 DEF Covers
    <3> QED BY <3>2, <3>3
  <2> QED BY <2>1, <2>2
<1>11. Covers(n, b, d, s)
  BY <1>4, <1>8, <1>9, <1>10 DEF Covers
<1> QED BY <1>11 DEF s, x, e

LEMMA RangesCover ==
  ASSUME NEW n \in Nat, NEW b \in Nat \ {0}
  PROVE  Covers(n, b, 0, RangesFrom(n, b)[0])
<1> DEFINE P(k) == Covers(n, b, n - k, RangesFrom(n, b)[n - k])
           T    == {k \in 0..n : ~P(k)}
<1>1. Covers(n, b, n, RangesFrom(n, b)[n])
  <2>1. RangesFrom(n, b)[n] = <<>>
    <3>1. n \in 0..n
      OBVIOUS
    <3>2. RangesFrom(n, b)[n] = Turn(RangesFrom(n, b), n, b, n)
      BY <3>1, Ranges
    <3> QED BY <3>2 DEF Turn
  <2>2. <<>> \in Lists /\ Len(<<>>) = 0
    BY DEF Lists
  <2> QED BY <2>1, <2>2 DEF Covers
<1>2. ASSUME NEW k \in 1..n, \A j \in 0..(k - 1) : P(j) PROVE P(k)
  <2> DEFINE d == n - k
             e == EndOf(n, b, d)
  <2>1. d \in 0..n /\ d # n
    OBVIOUS
  <2>2. e \in (d + 1)..n
    BY <2>1, EndOfBounds
  <2>3. RangesFrom(n, b)[d] = <<[first |-> d + 1, last |-> e]>> \o RangesFrom(n, b)[e]
    <3> HIDE DEF d
    <3> QED BY <2>1, Ranges DEF Turn
  <2>4. n - e \in 0..(k - 1) /\ n - (n - e) = e
    <3> HIDE DEF e
    <3> QED BY <2>2
  <2>5. Covers(n, b, e, RangesFrom(n, b)[e])
    <3>1. P(n - e)
      <4> HIDE DEF P
      <4> QED BY <1>2, <2>4
    <3> HIDE DEF e, d
    <3> QED BY <2>4, <3>1
  <2>6. Covers(n, b, d, RangesFrom(n, b)[d])
    <3> HIDE DEF d
    <3> QED BY <2>1, <2>3, <2>5, TurnCovers
  <2> QED BY <2>6
<1>3. T = {}
  <2> SUFFICES ASSUME T # {} PROVE FALSE
    OBVIOUS
  <2>1. PICK k \in T : \A j \in T : k <= j
    <3> HIDE DEF P
    <3>1. T \in SUBSET Nat
      OBVIOUS
    <3> QED BY <3>1, Least
  <2>2. P(0)
    BY <1>1
  <2> HIDE DEF P
  <2>3. k \in 1..n /\ ~P(k)
    BY <2>2
  <2>4. \A j \in 0..(k - 1) : P(j)
    BY <2>1, <2>3
  <2> QED BY <1>2, <2>3, <2>4
<1>4. P(n)
  <2> HIDE DEF P
  <2> QED BY <1>3
<1>5. n - n = 0
  OBVIOUS
<1> QED BY <1>4, <1>5

LEMMA CeilDivBounds ==
  ASSUME NEW t \in Nat \ {0}
  PROVE  CeilDiv(t, 100) \in Nat \ {0} /\ (CeilDiv(t, 100) - 1) * 100 < t
         /\ t <= CeilDiv(t, 100) * 100
BY SMTT(30) DEF CeilDiv

LEMMA RollingBatches ==
  ASSUME NEW c, c.total \in Int, c.surge \in Int
  PROVE  RollingCovers(c)
<1> DEFINE t == c.total * Surge(c)
           b == BatchSize(c)
           ranges == IF c.total <= 0 THEN <<>> ELSE RangesFrom(c.total, b)[0]
           plan == RollingPlan(c)
<1>1. plan = [k \in 1..Len(ranges) |-> Batch(k, ranges[k].first, ranges[k].last)]
  BY DEF RollingPlan
<1>2. ASSUME Len(ranges) \in Nat
      PROVE  /\ Len(plan) = Len(ranges)
             /\ \A k \in 1..Len(plan) : plan[k].batch = <<ranges[k].first, ranges[k].last>>
  <2> HIDE DEF ranges, plan
  <2>1. Len(plan) = Len(ranges)
    BY <1>1, <1>2
  <2>2. ASSUME NEW k \in 1..Len(ranges)
        PROVE  plan[k].batch = <<ranges[k].first, ranges[k].last>>
    <3>1. plan[k] = Batch(k, ranges[k].first, ranges[k].last)
      BY <1>1
    <3> QED BY <3>1 DEF Batch, Phase
  <2> QED BY <2>1, <2>2
<1>3. CASE c.total <= 0
  <2>1. Len(ranges) = 0
    BY <1>3
  <2>2. Len(plan) = 0
    BY <1>2, <2>1
  <2> QED BY <1>3, <2>2 DEF RollingCovers
<1>4. CASE c.total > 0
  <2>1. Surge(c) \in Nat \ {0}
    BY DEF Surge
  <2>2. t \in Nat \ {0}
    <3>1. c.total \in Nat \ {0}
      BY <1>4
    <3> HIDE DEF t
    <3>2. \A x \in Nat \ {0}, y \in Nat \ {0} : x * y \in Nat \ {0}
      BY SMTT(20)
    <3> QED BY <2>1, <3>1, <3>2 DEF t
  <2>3. b \in Nat \ {0} /\ (b - 1) * 100 < t /\ t <= b * 100
    <3> HIDE DEF t
    <3>1. CeilDiv(t, 100) \in Nat \ {0} /\ (CeilDiv(t, 100) - 1) * 100 < t
          /\ t <= CeilDiv(t, 100) * 100
      BY <2>2, CeilDivBounds
    <3>2. b = IF CeilDiv(t, 100) <= 0 THEN 1 ELSE CeilDiv(t, 100)
      BY DEF BatchSize, t
    <3> HIDE DEF b
    <3> QED BY <3>1, <3>2
  <2>4. Covers(c.total, b, 0, ranges)
    <3> HIDE DEF b
    <3> QED BY <1>4, <2>3, RangesCover
  <2>5. ranges \in Lists
    BY <2>4 DEF Covers
  <2> HIDE DEF ranges, b, t
  <2>6. Len(ranges) \in Nat /\ \A k \in 1..Len(ranges) : ranges[k].first \in Int /\ ranges[k].last \in Int
    <3>1. Len(ranges) \in Nat
      BY <2>5, LenProperties DEF Lists
    <3>2. \A k \in 1..Len(ranges) : ranges[k] \in Span
      BY <2>5, ElementOfSeq DEF Lists
    <3> QED BY <3>1, <3>2 DEF Span
  <2> HIDE DEF plan
  <2>7. /\ Len(plan) = Len(ranges)
        /\ \A k \in 1..Len(plan) : plan[k].batch = <<ranges[k].first, ranges[k].last>>
    BY <1>2, <2>6
  <2>8. \A k \in 1..Len(plan) : plan[k].batch[1] = ranges[k].first /\ plan[k].batch[2] = ranges[k].last
    BY <2>7
  <2>9. Len(plan) \in Nat \ {0}
    BY <1>4, <2>4, <2>6, <2>7 DEF Covers
  <2>10. plan[1].batch[1] = 1 /\ plan[Len(plan)].batch[2] = c.total
    <3>1. ranges[1].first = 0 + 1 /\ ranges[Len(ranges)].last = c.total
      BY <1>4, <2>4 DEF Covers
    <3>2. 1 \in 1..Len(plan) /\ Len(plan) \in 1..Len(plan)
      BY <2>9
    <3> QED BY <2>7, <2>8, <3>1, <3>2
  <2>11. ASSUME NEW k \in 2..Len(plan) PROVE plan[k].batch[1] = plan[k - 1].batch[2] + 1
    <3>1. k \in 1..Len(plan) /\ k - 1 \in 1..Len(plan)
      BY <2>9
    <3>2. ranges[k].first = ranges[k - 1].last + 1
      BY <2>4, <2>7 DEF Covers
    <3> QED BY <2>8, <3>1, <3>2
  <2>12. ASSUME NEW k \in 1..Len(plan)
         PROVE  LET size == plan[k].batch[2] - plan[k].batch[1] + 1
                IN  size >= 1 /\ (size - 1) * 100 < t /\ (k < Len(plan) => size * 100 >= t)
    <3> DEFINE size == plan[k].batch[2] - plan[k].batch[1] + 1
    <3>1. size = ranges[k].last - ranges[k].first + 1
      BY <2>8
    <3>2. size \in 1..b /\ (k < Len(plan) => size = b)
      BY <2>4, <2>7, <3>1 DEF Covers
    <3> HIDE DEF size
    <3>3. size >= 1 /\ (size - 1) * 100 < t /\ (k < Len(plan) => size * 100 >= t)
      BY <2>2, <2>3, <3>2
    <3> QED BY <3>3 DEF size
  <2> QED BY <1>4, <2>9, <2>10, <2>11, <2>12 DEF RollingCovers, t, plan
<1> QED BY <1>3, <1>4

(***************************************************************************)
(* Every rolling update covers its fleet, whatever its size and whatever   *)
(* the surge of its pipeline (RollingStrategy.Plan).                       *)
(***************************************************************************)
THEOREM RolloutsCover == Spec => []RolloutCoversFleet
<1>1. TypeInv => RolloutCoversFleet
  <2> SUFFICES ASSUME pipe \in Pipelines, pipe.strategy = "rolling" PROVE RollingCovers(pipe.config)
    BY DEF RolloutCoversFleet, TypeInv, TypeOK
  <2> QED BY RollingAssumption, RollingBatches
<1>2. TypeInv /\ [Next]_vars => TypeInv'
  BY NextType
<1> QED
  BY InitType, <1>1, <1>2, PTL DEF Spec
=============================================================================
