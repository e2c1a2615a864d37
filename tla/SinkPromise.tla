----------------------------- MODULE SinkPromise -----------------------------
(***************************************************************************)
(* What a buffered sink of the toolkit promises its callers: an entry is   *)
(* accepted or turned away on the spot, an accepted one waits in the order *)
(* of acceptance, leaves once, and is overtaken only by as many later ones *)
(* as there are workers beside its own (audit/emitter.go: "non-blocking",  *)
(* "so we never silently lose events"; async_writer.go: "dropped").        *)
(* How the sink does it, with a Go channel, workers and a Close, is        *)
(* BoundedSink.                                                            *)
(***************************************************************************)
EXTENDS Sequences, SequencesExt, Integers

CONSTANTS
  Entries,  \* audit events or metric samples
  Slots,    \* entries a sink holds at most: its buffer, one in the hands of each worker
  Hands     \* workers

VARIABLES
  waiting,  \* accepted, not yet written, oldest first
  fate      \* what has become of each entry

Fates == {"new", "waiting", "left", "turned away"}

PromiseInit == waiting = <<>> /\ fate = [e \in Entries |-> "new"]

Accept(e) ==
  /\ fate[e] = "new" /\ Len(waiting) < Slots
  /\ waiting' = Append(waiting, e)
  /\ fate' = [fate EXCEPT ![e] = "waiting"]

TurnAway(e) ==
  /\ fate[e] = "new"
  /\ fate' = [fate EXCEPT ![e] = "turned away"]
  /\ UNCHANGED waiting

Leave(i) ==
  /\ i <= Hands
  /\ waiting' = RemoveAt(waiting, i)
  /\ fate' = [fate EXCEPT ![waiting[i]] = "left"]

PromiseNext ==
  \/ \E e \in Entries : Accept(e) \/ TurnAway(e)
  \/ \E i \in DOMAIN waiting : Leave(i)

Promise == PromiseInit /\ [][PromiseNext]_<<waiting, fate>>
=============================================================================
