----------------------------- MODULE BoundedSink -----------------------------
(***************************************************************************)
(* The two buffered sinks: audit/emitter.go's BufferedEmitter (behind      *)
(* audit/service.go's RecordAction) and physicalhost/async_writer.go's     *)
(* AsyncInfluxWriter (behind the monitor's Check).  Callers send on a Go   *)
(* channel without waiting, workers take from it and write, and Close      *)
(* tells the workers to finish.  Entries are numbered as their call is     *)
(* decided; whether a write succeeds is not kept: both sinks discard the   *)
(* error.  main.go calls neither Close: the process just ends.             *)
(***************************************************************************)
EXTENDS Integers, Sequences, SequencesExt, FiniteSets

CONSTANTS
  Callers,     \* goroutines that emit
  Workers,     \* goroutines that write (main.go: 1 for audit, 2 for influx)
  Closers,     \* goroutines that call Close
  Cap,         \* capacity of the Go channel (main.go: 1024)
  MaxEntries   \* bound: entries in a behaviour

ASSUME SinkAssumption ==
  /\ Cap \in Nat \ {0} /\ MaxEntries \in Nat
  /\ IsFiniteSet(Workers) /\ Workers # {}

VARIABLES
  kind,     \* "audit" or "influx"
  ch,       \* the Go channel of entries
  shut,     \* the Go channel is closed (audit only)
  told,     \* done (audit) or stop (influx) is closed
  stopped,  \* influx's flag
  caller,   \* idle, or past the check of the flag
  worker,   \* each worker: where it is, and the entry in its hands
  closer,   \* each closer
  next,     \* number of the next entry
  refused,  \* entries turned away: dropped, after the stop, or a panic
  late,     \* ghost: entries accepted once Close had begun
  alive     \* the process runs

sinkVars == <<kind, ch, shut, told, stopped, caller, worker, closer, next, refused, late, alive>>

Entries == 1..MaxEntries
At(pc) == [pc |-> pc, entry |-> 0]

SinkInit ==
  /\ kind \in {"audit", "influx"}
  /\ ch = <<>> /\ shut = FALSE /\ told = FALSE /\ stopped = FALSE
  /\ caller = [c \in Callers |-> "idle"]
  /\ worker = [w \in Workers |-> At("wait")]
  /\ closer = [c \in Closers |-> "idle"]
  /\ next = 1 /\ refused = {} /\ late = {} /\ alive = TRUE

-----------------------------------------------------------------------------
(* Emit and Enqueue.  Enqueue looks at the flag first, and returns if it   *)
(* is set; Emit has no such check, and a send on the closed channel panics *)
(* in its caller.                                                          *)

Call(c) ==
  /\ caller[c] = "idle" /\ next <= MaxEntries
  /\ \/ /\ ~stopped
        /\ caller' = [caller EXCEPT ![c] = "send"]
        /\ UNCHANGED <<next, refused>>
     \/ /\ stopped
        /\ refused' = refused \cup {next} /\ next' = next + 1
        /\ UNCHANGED caller
  /\ UNCHANGED <<kind, ch, shut, told, stopped, worker, closer, late, alive>>

Decided(c) == caller' = [caller EXCEPT ![c] = "idle"] /\ next' = next + 1

\* Mutant: a full channel makes room by dropping its oldest entry.
SendDropsOldest(c) ==
  /\ caller[c] = "send" /\ next <= MaxEntries /\ Decided(c)
  /\ ch' = Append(IF Len(ch) < Cap THEN ch ELSE Tail(ch), next)
  /\ late' = IF told \/ stopped THEN late \cup {next} ELSE late
  /\ UNCHANGED <<kind, shut, told, stopped, worker, closer, refused, alive>>

\* The select with a default: room in an open channel, or the entry is dropped.
Send(c) ==
  /\ caller[c] = "send" /\ next <= MaxEntries /\ Decided(c)
  /\ \/ /\ ~shut /\ Len(ch) < Cap
        /\ ch' = Append(ch, next)
        /\ late' = IF told \/ stopped THEN late \cup {next} ELSE late
        /\ UNCHANGED refused
     \/ /\ shut \/ Len(ch) >= Cap
        /\ refused' = refused \cup {next}
        /\ UNCHANGED <<ch, late>>
  /\ UNCHANGED <<kind, shut, told, stopped, worker, closer, alive>>

-----------------------------------------------------------------------------
(* The workers.  An idle worker takes an entry, in its main loop or while  *)
(* it drains; then it writes it.                                           *)

Becomes(w, pc) ==
  /\ worker' = [worker EXCEPT ![w] = At(pc)]
  /\ UNCHANGED <<kind, ch, shut, told, stopped, caller, closer, next, refused, late, alive>>

Take(w) ==
  /\ worker[w].pc \in {"wait", "drain"} /\ ch # <<>>
  /\ ch' = Tail(ch)
  /\ worker' = [worker EXCEPT ![w] =
                  [pc |-> IF @.pc = "wait" THEN "write" ELSE "drainwrite", entry |-> Head(ch)]]
  /\ UNCHANGED <<kind, shut, told, stopped, caller, closer, next, refused, late, alive>>

\* After a write in the main loop audit's worker looks at done before it goes on.
WriteEntry(w) ==
  \/ worker[w].pc = "drainwrite" /\ Becomes(w, "drain")
  \/ worker[w].pc = "write" /\ kind = "influx" /\ Becomes(w, "wait")
  \/ worker[w].pc = "write" /\ kind = "audit" /\ Becomes(w, "look")

LookIfTold(w) ==
  worker[w].pc = "look" /\ Becomes(w, IF told THEN "drain" ELSE "wait")

\* Mutant: a worker that is told to stop leaves the rest behind.
StopAtOnce(w) ==
  /\ worker[w].pc = "wait" /\ kind = "influx" /\ told
  /\ Becomes(w, "gone")

\* influx: the select may choose stop although entries wait.
Stop(w) ==
  /\ worker[w].pc = "wait" /\ kind = "influx" /\ told
  /\ Becomes(w, "drain")

\* Mutant: the drain ends on a closed channel only.
LeaveOnClosed(w) ==
  /\ ch = <<>> /\ shut /\ worker[w].pc \in {"wait", "drain"}
  /\ Becomes(w, "gone")

\* The range over a closed and empty channel ends; so does a drain of an empty one.
LeaveWorker(w) ==
  /\ ch = <<>>
  /\ worker[w].pc = "drain" \/ (worker[w].pc = "wait" /\ kind = "audit" /\ shut)
  /\ Becomes(w, "gone")

-----------------------------------------------------------------------------
(* Close.  audit: one caller closes done, then the channel, the others     *)
(* wait for it; all wait for the workers.  influx: one caller sets the     *)
(* flag, closes stop and waits; the others return at once.                 *)

Close(c, pc) == closer' = [closer EXCEPT ![c] = pc]

BeginClose(c) ==
  /\ closer[c] = "idle"
  /\ IF kind = "influx"
     THEN /\ stopped' = TRUE /\ UNCHANGED told
          /\ Close(c, IF stopped THEN "returned" ELSE "closing")
     ELSE /\ told' = TRUE /\ UNCHANGED stopped
          /\ ~\E d \in Closers : closer[d] = "closing"
          /\ Close(c, IF told THEN "joining" ELSE "closing")
  /\ UNCHANGED <<kind, ch, shut, caller, worker, next, refused, late, alive>>

FinishClose(c) ==
  /\ closer[c] = "closing"
  /\ IF kind = "influx" THEN told' = TRUE /\ UNCHANGED shut
                        ELSE shut' = TRUE /\ UNCHANGED told
  /\ Close(c, "joining")
  /\ UNCHANGED <<kind, ch, stopped, caller, worker, next, refused, late, alive>>

Gone == \A w \in Workers : worker[w].pc = "gone"

Join(c) ==
  /\ closer[c] = "joining" /\ Gone
  /\ Close(c, "joined")
  /\ UNCHANGED <<kind, ch, shut, told, stopped, caller, worker, next, refused, late, alive>>

\* The process ends; what the sink held is gone with it.
Exit ==
  /\ alive
  /\ alive' = FALSE
  /\ UNCHANGED <<kind, ch, shut, told, stopped, caller, worker, closer, next, refused, late>>

Work(w) == alive /\ (Take(w) \/ WriteEntry(w) \/ LookIfTold(w) \/ Stop(w) \/ LeaveWorker(w))
Closing(c) == alive /\ (FinishClose(c) \/ Join(c))

SinkNext ==
  \/ \E c \in Callers : alive /\ (Call(c) \/ Send(c))
  \/ \E w \in Workers : Work(w)
  \/ \E c \in Closers : alive /\ BeginClose(c)
  \/ \E c \in Closers : Closing(c)
  \/ Exit

SinkSpec == SinkInit /\ [][SinkNext]_sinkVars

\* Goroutines of a running process go on.
SinkFairness ==
  /\ \A w \in Workers : WF_sinkVars(Work(w))
  /\ \A c \in Closers : WF_sinkVars(Closing(c))

-----------------------------------------------------------------------------
Held == {worker[w].entry : w \in Workers} \ {0}

(* Every variable holds what the code can put in it.                       *)
SinkTypeOK ==
  /\ kind \in {"audit", "influx"}
  /\ ch \in Seq(Entries) /\ Len(ch) <= Cap
  /\ {shut, told, stopped, alive} \subseteq BOOLEAN
  /\ caller \in [Callers -> {"idle", "send"}]
  /\ worker \in [Workers -> [pc : {"wait", "look", "drain", "gone"}, entry : {0}]
                           \cup [pc : {"write", "drainwrite"}, entry : Entries]]
  /\ closer \in [Closers -> {"idle", "closing", "joining", "joined", "returned"}]
  /\ next \in 1..(MaxEntries + 1)
  /\ refused \subseteq Entries /\ late \subseteq Entries

(***************************************************************************)
(* The refinement mapping: what the workers hold is older than what is in  *)
(* the channel.                                                            *)
(***************************************************************************)
InOrder(S) == [i \in 1..Cardinality(S) |-> CHOOSE e \in S : Cardinality({x \in S : x <= e}) = i]
HeldInOrder == InOrder(Held)
Fate(e) == CASE e >= next -> "new"
             [] e \in refused -> "turned away"
             [] e \in Held \cup ToSet(ch) -> "waiting"
             [] OTHER -> "left"

Promised == INSTANCE SinkPromise WITH
  Entries <- Entries, Slots <- Cap + Cardinality(Workers), Hands <- Cardinality(Workers),
  waiting <- HeldInOrder \o ch, fate <- [e \in Entries |-> Fate(e)]

(***************************************************************************)
(* Both sinks do what SinkPromise says: entries are accepted in order, to  *)
(* a bound, leave once, and one is overtaken by fewer later ones than      *)
(* there are workers.                                                      *)
(***************************************************************************)
SinkKeepsPromise == Promised!Promise

(***************************************************************************)
(* Close "drains the channel and waits for the workers": when a caller of  *)
(* Close has joined them, an entry still in the channel was accepted after *)
(* Close had begun (Enqueue past its check, Emit between the two close     *)
(* statements), never before.                                              *)
(***************************************************************************)
OnlyLateEntriesStay ==
  (\E c \in Closers : closer[c] = "joined") => ToSet(ch) \subseteq late

(***************************************************************************)
(* Nothing is owed: every accepted entry is written, unless it came too    *)
(* late or the process ended first, and nobody waits in Close.  Entries    *)
(* are finitely many, so that holding again and again is holding in the    *)
(* end.                                                                    *)
(***************************************************************************)
SinkSettled ==
  alive => /\ \A e \in Entries : Fate(e) = "waiting" => e \in late
           /\ \A c \in Closers : closer[c] \notin {"closing", "joining"}
SinkSettles == []<>SinkSettled
=============================================================================
