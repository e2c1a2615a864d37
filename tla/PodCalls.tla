------------------------------- MODULE PodCalls -------------------------------
(***************************************************************************)
(* k8s: a command executed in a pod, and the logs of the pods a selector   *)
(* matches (handler.go, service.go, client.go over client-go).  A request  *)
(* is checked, finds its cluster's client, and then waits for the          *)
(* apiserver: the pods, the command and the client that asked go on in the *)
(* meantime.                                                               *)
(***************************************************************************)
EXTENDS Integers, Sequences, SequencesExt, FiniteSets, FiniteSetsExt

CONSTANTS
  Pods,
  MaxPods,        \* pods of a query (defaultLogMaxPods: 10)
  DefaultTimeout, \* ticks of an exec that names no timeout (30 s)
  LongTimeout     \* ticks of one that does (10 minutes at most)

ASSUME PodAssumption ==
  IsFiniteSet(Pods) /\ {MaxPods, DefaultTimeout, LongTimeout} \subseteq Nat

VARIABLES
  running,    \* pods that match the selector
  ask,        \* the request, until it is answered
  command,    \* the command in the pod: "none", "runs", or how it exited
  gone,       \* the client that asked has gone: the request's context is cancelled
  emitted,    \* exits handed to the audit's emitter
  recorded    \* exits the audit trail has

podVars == <<running, ask, command, gone, emitted, recorded>>

Codes == {"zero", "nonzero"}
NoAsk == [pc |-> "none"]

PodsInit ==
  /\ running \in SUBSET Pods
  /\ ask = NoAsk /\ command = "none" /\ gone = FALSE /\ emitted = {} /\ recorded = {}

Answered(result) == ask' = [ask EXCEPT !.pc = "answered", !.result = result]

-----------------------------------------------------------------------------
(* Exec.  The handler refuses a negative timeout and one over the maximum, *)
(* so that the client's clamp of it never acts.                            *)

Timeouts == {"negative", "unset", "set", "over"}

AskExec(timeout) ==
  /\ ask = NoAsk
  /\ ask' = IF timeout \in {"negative", "over"}
            THEN [pc |-> "answered", what |-> "exec", result |-> "invalid", left |-> 0]
            ELSE [pc |-> "resolve", what |-> "exec", result |-> "none",
                  left |-> IF timeout = "unset" THEN DefaultTimeout ELSE LongTimeout]
  /\ UNCHANGED <<running, command, gone, emitted, recorded>>

\* Registry.ClientFor, the subject of Clusters.
Resolve ==
  /\ ask.pc = "resolve"
  /\ \/ Answered("not_found") \/ Answered("unreachable")
     \/ ask' = [ask EXCEPT !.pc = IF ask.what = "exec" THEN "open" ELSE "list"]
  /\ UNCHANGED <<running, command, gone, emitted, recorded>>

\* The context of the stream is done.
DeadlineOrGone == ask.left = 0 \/ gone

\* The apiserver takes the stream and starts the command, or does not.
OpenStream ==
  /\ ask.pc = "open"
  /\ \/ /\ running # {} /\ ~DeadlineOrGone
        /\ command' = "runs" /\ ask' = [ask EXCEPT !.pc = "stream"]
     \/ Answered(IF DeadlineOrGone THEN "timeout" ELSE "unreachable") /\ UNCHANGED command
  /\ UNCHANGED <<running, gone, emitted, recorded>>

CommandEnds(code) ==
  /\ command = "runs" /\ command' = code
  /\ UNCHANGED <<running, ask, gone, emitted, recorded>>

\* Mutant: a command that failed is not handed on.
StreamEndsZero ==
  /\ ask.pc = "stream" /\ command \in Codes
  /\ Answered(command) /\ emitted' = emitted \cup ({command} \cap {"zero"})
  /\ UNCHANGED <<running, command, gone, recorded>>

\* The stream ends with the command: also a command that failed is an answer, and is
\* handed to the audit.
StreamEnds ==
  /\ ask.pc = "stream" /\ command \in Codes
  /\ Answered(command) /\ emitted' = emitted \cup {command}
  /\ UNCHANGED <<running, command, gone, recorded>>

\* At any time after that, or never: a full buffer and a failed insert drop the event
\* (BoundedSink has the buffer).
AuditWrites ==
  /\ recorded # emitted /\ recorded' = emitted
  /\ UNCHANGED <<running, ask, command, gone, emitted>>

\* It breaks, or the context is done: the command may have run, or run on.
StreamBreaks ==
  /\ ask.pc = "stream"
  /\ Answered(IF DeadlineOrGone THEN "timeout" ELSE "unreachable")
  /\ UNCHANGED <<running, command, gone, emitted, recorded>>

ExecTick ==
  /\ ask.pc \in {"open", "stream"} /\ ask.left > 0
  /\ ask' = [ask EXCEPT !.left = @ - 1]
  /\ UNCHANGED <<running, command, gone, emitted, recorded>>

-----------------------------------------------------------------------------
(* GetLogs.  A tail outside 1..1000 and a since beyond 30 days are refused.*)

AskLogs(tail, since) ==
  /\ ask = NoAsk
  /\ ask' = [pc |-> IF tail = "outside" \/ since = "beyond" THEN "answered" ELSE "resolve",
             what |-> "logs", left |-> 0, todo |-> <<>>, rows |-> <<>>, matched |-> {},
             result |-> IF tail = "outside" \/ since = "beyond" THEN "invalid" ELSE "none"]
  /\ UNCHANGED <<running, command, gone, emitted, recorded>>

\* The pods are listed once, and the first of them kept.
ListPods ==
  /\ ask.pc = "list"
  /\ \/ Answered("failed")
     \/ /\ ~gone
        /\ \E list \in SetToSeqs(running) :
             ask' = [ask EXCEPT !.pc = "fetch", !.matched = running,
                                !.todo = SubSeq(list, 1, Min({MaxPods, Len(list)}))]
  /\ UNCHANGED <<running, command, gone, emitted, recorded>>

\* logsForPod.  A pod whose logs cannot be fetched is a row that says so.
FetchPod ==
  /\ ask.pc = "fetch" /\ ask.todo # <<>>
  /\ \E got \in {"lines", "error"} :
       /\ got = "lines" => Head(ask.todo) \in running /\ ~gone
       /\ ask' = [ask EXCEPT !.todo = Tail(@), !.rows = Append(@, <<Head(ask.todo), got>>)]
  /\ UNCHANGED <<running, command, gone, emitted, recorded>>

AnswerLogs ==
  /\ ask.pc = "fetch" /\ ask.todo = <<>>
  /\ Answered("ok")
  /\ UNCHANGED <<running, command, gone, emitted, recorded>>

-----------------------------------------------------------------------------
PodChanges(p) ==
  /\ running' = IF p \in running THEN running \ {p} ELSE running \cup {p}
  /\ UNCHANGED <<ask, command, gone, emitted, recorded>>

ClientGoes ==
  /\ ask # NoAsk /\ ~gone /\ gone' = TRUE
  /\ UNCHANGED <<running, ask, command, emitted, recorded>>

PodsNext ==
  \/ \E t \in Timeouts : AskExec(t)
  \/ \E t \in {"unset", "within", "outside"}, s \in {"unset", "within", "beyond"} : AskLogs(t, s)
  \/ Resolve \/ OpenStream \/ StreamEnds \/ AuditWrites \/ StreamBreaks \/ ExecTick
  \/ \E c \in Codes : CommandEnds(c)
  \/ ListPods \/ FetchPod \/ AnswerLogs
  \/ \E p \in Pods : PodChanges(p)
  \/ ClientGoes

PodsSpec == PodsInit /\ [][PodsNext]_podVars

-----------------------------------------------------------------------------
(* Every variable holds what the code can put in it.                       *)
PodsTypeOK ==
  /\ running \subseteq Pods /\ gone \in BOOLEAN
  /\ emitted \subseteq Codes /\ recorded \subseteq Codes
  /\ command \in {"none", "runs"} \/ command \in Codes
  /\ ask.pc \in {"none", "resolve", "open", "stream", "list", "fetch", "answered"}

(***************************************************************************)
(* An exec that is answered with a code, and no other, is handed to the    *)
(* audit, which records nothing else, and at times not that: the code is   *)
(* the command's own; what was refused has not run; and a timeout is told  *)
(* only of a stream whose time was up or whose client had left, though the *)
(* command may have run and no trail has it.  The rows of a log query are  *)
(* the listed pods, each once, all of them or MaxPods, also when some, or  *)
(* all, could not be fetched.                                              *)
(***************************************************************************)
PodsTold ==
  /\ recorded \subseteq emitted
  /\ ask.pc = "answered" =>
       /\ ask.what = "exec" =>
            /\ ask.result \in Codes => ask.result = command
            /\ emitted = {ask.result} \cap Codes
            /\ ask.result \in {"invalid", "not_found"} => command = "none"
            /\ ask.result = "timeout" => DeadlineOrGone
       /\ ask.result = "ok" =>
            /\ {r[1] : r \in ToSet(ask.rows)} \subseteq ask.matched
            /\ Cardinality({r[1] : r \in ToSet(ask.rows)}) = Len(ask.rows)
            /\ Len(ask.rows) = Min({MaxPods, Cardinality(ask.matched)})
=============================================================================
