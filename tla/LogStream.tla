------------------------------ MODULE LogStream ------------------------------
(***************************************************************************)
(* internal/k8s/logstream: one pod's log on its way to one client.  Three  *)
(* goroutines hand each line on over unbuffered Go channels: the streamer  *)
(* takes it from the apiserver, the fan-out publishes and stores it, and   *)
(* the handler of the WebSocket or the SSE endpoint writes it.  They share *)
(* one context; each closes its channel when it returns.  Lines are        *)
(* numbered as the source sends them.                                      *)
(***************************************************************************)
EXTENDS Integers

CONSTANTS
  MaxLines,      \* bound: lines the source sends
  Backpressure   \* streamer.go, BackpressureSink.MaxLines: 1000

ASSUME StreamAssumption == MaxLines \in Nat /\ Backpressure \in Nat

VARIABLES
  endpoint,       \* the handler: "ws" or "sse"
  source,     \* the apiserver's stream: "open" or "ended"
  sent,       \* lines the streamer has taken from it
  up,         \* which of the goroutines run
  hand,       \* the line each goroutine holds, 0 for none
  fanStep,    \* what the fan-out does next with its line
  offered,    \* lines offered to the log store
  written,    \* the last line written to the client
  pushed,     \* lines in the handler's BackpressureSink
  dropped,    \* its counter, sent with every frame
  cancelled,  \* the context is done
  client      \* "here" or "gone"

logVars == <<endpoint, source, sent, up, hand, fanStep, offered, written, pushed, dropped, cancelled, client>>

Stages == {"streamer", "fan", "handler"}

StreamInit ==
  /\ endpoint \in {"ws", "sse"}
  /\ source = "open" /\ client = "here" /\ cancelled = FALSE
  /\ sent = 0 /\ offered = 0 /\ written = 0 /\ pushed = 0 /\ dropped = 0
  /\ up = {} /\ hand = [s \in Stages |-> 0]
  /\ fanStep = "publish"

\* Stream: a since beyond the 30 days, or an apiserver that cannot be reached, is an
\* error frame and the end; otherwise the goroutines start.
Open ==
  /\ up = {} /\ ~cancelled
  /\ \/ up' = Stages /\ UNCHANGED cancelled
     \/ cancelled' = TRUE /\ UNCHANGED up
  /\ UNCHANGED <<endpoint, source, sent, hand, fanStep, offered, written, pushed, dropped, client>>

-----------------------------------------------------------------------------
Hands(a, b) == hand' = [hand EXCEPT ![a] = 0, ![b] = hand[a]]

\* A goroutine that returns drops the line in its hands.
Returns(s) == up' = up \ {s} /\ hand' = [hand EXCEPT ![s] = 0]

TakeLine ==
  /\ "streamer" \in up /\ hand["streamer"] = 0
  /\ source = "open" /\ sent < MaxLines
  /\ sent' = sent + 1
  /\ hand' = [hand EXCEPT !["streamer"] = sent + 1]
  /\ UNCHANGED <<endpoint, source, up, fanStep, offered, written, pushed, dropped, cancelled, client>>

SourceEnds ==
  /\ source = "open" /\ up # {}
  /\ source' = "ended"
  /\ UNCHANGED <<endpoint, sent, up, hand, fanStep, offered, written, pushed, dropped, cancelled, client>>

ToFan ==
  /\ hand["streamer"] # 0 /\ "fan" \in up /\ hand["fan"] = 0
  /\ Hands("streamer", "fan")
  /\ fanStep' = "publish"
  /\ UNCHANGED <<endpoint, source, sent, up, offered, written, pushed, dropped, cancelled, client>>

StreamerReturns ==
  /\ "streamer" \in up
  /\ cancelled \/ (source = "ended" /\ hand["streamer"] = 0)
  /\ Returns("streamer")
  /\ UNCHANGED <<endpoint, source, sent, fanStep, offered, written, pushed, dropped, cancelled, client>>

-----------------------------------------------------------------------------
FanPublish ==
  /\ hand["fan"] # 0 /\ fanStep = "publish"
  /\ fanStep' = "persist"
  /\ UNCHANGED <<endpoint, source, sent, up, hand, offered, written, pushed, dropped, cancelled, client>>

\* persistLine: within 5 s the store takes the line or not; an error is dropped.
FanPersist ==
  /\ hand["fan"] # 0 /\ fanStep = "persist"
  /\ fanStep' = "forward"
  /\ offered' = offered + 1
  /\ UNCHANGED <<endpoint, source, sent, up, hand, written, pushed, dropped, cancelled, client>>

\* Mutant: the line is forwarded before it is stored.
ToHandlerEarly ==
  /\ hand["fan"] # 0 /\ fanStep \in {"persist", "forward"}
  /\ "handler" \in up /\ hand["handler"] = 0
  /\ Hands("fan", "handler")
  /\ UNCHANGED <<endpoint, source, sent, up, fanStep, offered, written, pushed, dropped, cancelled, client>>

ToHandler ==
  /\ hand["fan"] # 0 /\ fanStep = "forward"
  /\ "handler" \in up /\ hand["handler"] = 0
  /\ Hands("fan", "handler")
  /\ UNCHANGED <<endpoint, source, sent, up, fanStep, offered, written, pushed, dropped, cancelled, client>>

\* Mutant: the fan-out waits for its reader without looking at the context.
FanReturnsIdle ==
  /\ "fan" \in up /\ hand["fan"] = 0
  /\ cancelled \/ "streamer" \notin up
  /\ Returns("fan")
  /\ UNCHANGED <<endpoint, source, sent, fanStep, offered, written, pushed, dropped, cancelled, client>>

\* The fan-out returns on the context while it waits for a line or for its reader,
\* and when the streamer's channel is closed.
FanReturns ==
  /\ "fan" \in up
  /\ \/ hand["fan"] = 0 /\ (cancelled \/ "streamer" \notin up)
     \/ hand["fan"] # 0 /\ fanStep = "forward" /\ cancelled
  /\ Returns("fan")
  /\ UNCHANGED <<endpoint, source, sent, fanStep, offered, written, pushed, dropped, cancelled, client>>

-----------------------------------------------------------------------------
(* The handler pushes every line into its BackpressureSink, from which it  *)
(* never pops, and writes it.  A write to a client that has gone, or that  *)
(* is too slow, may fail: the WebSocket loop then returns, the SSE loop    *)
(* does not look.                                                          *)

Push ==
  /\ pushed' = IF pushed < Backpressure THEN pushed + 1 ELSE pushed
  /\ dropped' = IF pushed < Backpressure THEN dropped ELSE dropped + 1

HandlerWrites ==
  /\ hand["handler"] # 0 /\ Push
  /\ written' = hand["handler"]
  /\ hand' = [hand EXCEPT !["handler"] = 0]
  /\ UNCHANGED <<endpoint, source, sent, up, fanStep, offered, cancelled, client>>

\* The deferred cancel of the handler reaches the other two.
HandlerReturn ==
  /\ Returns("handler") /\ cancelled' = TRUE

HandlerWriteFails ==
  /\ hand["handler"] # 0 /\ endpoint = "ws" /\ Push
  /\ HandlerReturn
  /\ UNCHANGED <<endpoint, source, sent, fanStep, offered, written, client>>

\* Mutant: the end of the stream does not reach the client's handler.
HandlerReturnsCancelled ==
  /\ "handler" \in up /\ hand["handler"] = 0 /\ cancelled
  /\ HandlerReturn
  /\ UNCHANGED <<endpoint, source, sent, fanStep, offered, written, pushed, dropped, client>>

HandlerReturns ==
  /\ "handler" \in up /\ hand["handler"] = 0
  /\ cancelled \/ "fan" \notin up
  /\ HandlerReturn
  /\ UNCHANGED <<endpoint, source, sent, fanStep, offered, written, pushed, dropped, client>>

ClientLeaves ==
  /\ client = "here" /\ up # {}
  /\ client' = "gone"
  /\ UNCHANGED <<endpoint, source, sent, up, hand, fanStep, offered, written, pushed, dropped, cancelled>>

\* net/http cancels the request of an SSE client that leaves; a WebSocket's
\* connection has been taken over, and nobody cancels.
RequestDone ==
  /\ endpoint = "sse" /\ client = "gone" /\ ~cancelled
  /\ cancelled' = TRUE
  /\ UNCHANGED <<endpoint, source, sent, up, hand, fanStep, offered, written, pushed, dropped, client>>

Streamer == ToFan \/ StreamerReturns
Fan == FanPublish \/ FanPersist \/ ToHandler \/ FanReturns
Handler == HandlerWrites \/ HandlerReturns

StreamNext ==
  \/ Open \/ TakeLine \/ SourceEnds \/ Streamer \/ Fan \/ Handler
  \/ HandlerWriteFails \/ ClientLeaves \/ RequestDone

StreamSpec == StreamInit /\ [][StreamNext]_logVars

\* The goroutines go on, and net/http notices an SSE client that leaves.
StreamFairness ==
  WF_logVars(Streamer) /\ WF_logVars(Fan) /\ WF_logVars(Handler) /\ WF_logVars(RequestDone)

-----------------------------------------------------------------------------
(* Every variable holds what the code can put in it.                       *)
StreamTypeOK ==
  /\ endpoint \in {"ws", "sse"} /\ source \in {"open", "ended"} /\ client \in {"here", "gone"}
  /\ up \subseteq Stages /\ cancelled \in BOOLEAN
  /\ hand \in [Stages -> 0..MaxLines]
  /\ fanStep \in {"publish", "persist", "forward"}
  /\ {sent, offered, written, dropped} \subseteq 0..MaxLines
  /\ pushed \in 0..Backpressure

(***************************************************************************)
(* The client gets the source's lines in order and without a gap, the      *)
(* store is offered each line before the client and is at most two ahead,  *)
(* and a line is lost only when the context is done ("each line ...        *)
(* persists each line through the LogSink, and forwards the raw line",     *)
(* service.go, fanOut).                                                    *)
(***************************************************************************)
LinesReachClient ==
  /\ hand["handler"] # 0 => hand["handler"] = written + 1
  /\ ~cancelled =>
       LET held == {s \in Stages : hand[s] # 0} IN
       /\ \A n \in (written + 1)..sent : \E s \in held : hand[s] = n
       /\ offered >= written /\ offered - written <= 2

(***************************************************************************)
(* A stream ends: when its source ends, or an SSE client leaves, or the    *)
(* handler has returned, no goroutine of it stays behind.  A WebSocket     *)
(* client that leaves is not in the list: while its pod logs nothing,      *)
(* StreamWS waits for a context that nobody cancels.                       *)
(***************************************************************************)
StreamSettled ==
  source = "ended" \/ cancelled \/ (endpoint = "sse" /\ client = "gone") => up = {}
StreamsEnd == []<>StreamSettled
=============================================================================
