----------------------------- MODULE HubDispatch -----------------------------
(***************************************************************************)
(* internal/ws/hub/hub.go: the dispatch path of the WebSocket hub.  Publish*)
(* hands a payload and the name of its channel to Run over TWO buffered Go *)
(* channels, in two non-blocking sends; Run takes a payload and then, with *)
(* no wait, a name, and delivers the one on the other.  The module keeps  *)
(* the pairing, the order and the bounds; payloads are numbered in the     *)
(* order they were accepted.                                               *)
(***************************************************************************)
EXTENDS Integers, Sequences

CONSTANTS
  Publishers,   \* goroutines calling Publish
  Channels,     \* channel names
  Cap,          \* capacity of either Go channel (hub.go: 256)
  MaxAccepted   \* bound: payloads accepted in a behaviour

ASSUME HubAssumption == Cap \in Nat \ {0} /\ MaxAccepted \in Nat

VARIABLES
  broadcast,      \* Go channel of payloads
  broadcastChan,  \* Go channel of channel names
  pub,            \* each publisher: idle, or between its two sends
  hub,            \* Run: waiting, holding a payload, draining, or returned
  ctxDone,        \* the context of Run is cancelled
  accepted,       \* payloads accepted so far
  delivered,      \* ghost: the last delivery, as <<payload, channel name>>
  dropped,        \* ghost: payloads Run dropped for want of a name
  unnamed,        \* ghost: names Publish dropped because their channel was full
  clean           \* ghost: no drop so far, and no two Publish calls overlapped

vars == <<broadcast, broadcastChan, pub, hub, ctxDone, accepted, delivered, dropped, unnamed, clean>>

Payloads   == [seq : 1..MaxAccepted, chan : Channels]
IdlePub    == [pc |-> "idle"]
Sending    == [pc : {"name"}, chan : Channels]
Waiting    == [pc |-> "wait"]
Draining   == [pc |-> "drain"]
Returned   == [pc |-> "returned"]
Holding    == [pc : {"hold", "drainhold"}, payload : Payloads]
Nothing    == [none |-> TRUE]

Between    == {p \in Publishers : pub[p].pc = "name"}   \* inside Publish
Held       == IF hub.pc \in {"hold", "drainhold"} THEN 1 ELSE 0

Init ==
  /\ broadcast = <<>> /\ broadcastChan = <<>>
  /\ pub = [p \in Publishers |-> IdlePub]
  /\ hub = Waiting
  /\ ctxDone = FALSE
  /\ accepted = 0
  /\ delivered = Nothing
  /\ dropped = 0 /\ unnamed = 0
  /\ clean = TRUE

-----------------------------------------------------------------------------
(* Publish.  A full payload channel refuses the call and changes nothing.  *)

PublishPayload(p, ch) ==
  /\ pub[p] = IdlePub
  /\ Len(broadcast) < Cap
  /\ accepted < MaxAccepted
  /\ accepted' = accepted + 1
  /\ broadcast' = Append(broadcast, [seq |-> accepted + 1, chan |-> ch])
  /\ pub' = [pub EXCEPT ![p] = [pc |-> "name", chan |-> ch]]
  /\ clean' = (clean /\ Between = {})
  /\ UNCHANGED <<broadcastChan, hub, ctxDone, delivered, dropped, unnamed>>

\* Mutant: the name of a refused send is put in the full Go channel.
PublishNameAlways(p) ==
  /\ pub[p] # IdlePub
  /\ broadcastChan' = Append(broadcastChan, pub[p].chan)
  /\ pub' = [pub EXCEPT ![p] = IdlePub]
  /\ UNCHANGED <<broadcast, hub, ctxDone, accepted, delivered, dropped, unnamed, clean>>

\* Publish returns true here whether or not the name found room.
PublishName(p) ==
  /\ pub[p] # IdlePub
  /\ \/ /\ Len(broadcastChan) < Cap
        /\ broadcastChan' = Append(broadcastChan, pub[p].chan)
        /\ UNCHANGED <<unnamed, clean>>
     \/ /\ Len(broadcastChan) >= Cap
        /\ unnamed' = unnamed + 1 /\ clean' = FALSE
        /\ UNCHANGED broadcastChan
  /\ pub' = [pub EXCEPT ![p] = IdlePub]
  /\ UNCHANGED <<broadcast, hub, ctxDone, accepted, delivered, dropped>>

-----------------------------------------------------------------------------
(* Run.                                                                    *)

Take(from, to) ==
  /\ hub = from /\ broadcast # <<>>
  /\ broadcast' = Tail(broadcast)
  /\ hub' = [pc |-> to, payload |-> Head(broadcast)]
  /\ UNCHANGED <<broadcastChan, pub, ctxDone, accepted, delivered, dropped, unnamed, clean>>

\* Mutant: the name is looked at and left in its channel.
DeliverPeek(from, to) ==
  /\ hub.pc = from /\ broadcastChan # <<>>
  /\ delivered' = [payload |-> hub.payload, chan |-> Head(broadcastChan)]
  /\ hub' = to
  /\ UNCHANGED <<broadcast, broadcastChan, pub, ctxDone, accepted, dropped, unnamed, clean>>

Deliver(from, to) ==
  /\ hub.pc = from /\ broadcastChan # <<>>
  /\ broadcastChan' = Tail(broadcastChan)
  /\ delivered' = [payload |-> hub.payload, chan |-> Head(broadcastChan)]
  /\ hub' = to
  /\ UNCHANGED <<broadcast, pub, ctxDone, accepted, dropped, unnamed, clean>>

RunTake    == Take(Waiting, "hold")
RunDeliver == Deliver("hold", Waiting)

\* Mutant: the payload is put back to wait for its name.
RunRequeue ==
  /\ hub.pc = "hold" /\ broadcastChan = <<>>
  /\ hub' = Waiting
  /\ broadcast' = Append(broadcast, hub.payload)
  /\ UNCHANGED <<broadcastChan, pub, ctxDone, accepted, delivered, dropped, unnamed, clean>>

\* The select's default: no name yet, the payload is dropped.
RunDrop ==
  /\ hub.pc = "hold" /\ broadcastChan = <<>>
  /\ hub' = Waiting
  /\ dropped' = dropped + 1 /\ clean' = FALSE
  /\ UNCHANGED <<broadcast, broadcastChan, pub, ctxDone, accepted, delivered, unnamed>>

\* ctx.Done: deliver what is queued, waiting for each name, then return.
DrainStart ==
  /\ hub = Waiting /\ ctxDone
  /\ hub' = Draining
  /\ UNCHANGED <<broadcast, broadcastChan, pub, ctxDone, accepted, delivered, dropped, unnamed, clean>>

DrainTake    == Take(Draining, "drainhold")
DrainDeliver == Deliver("drainhold", Draining)

\* Mutant: the loop ends without looking for more.
DrainReturnEarly ==
  /\ hub = Draining
  /\ hub' = Returned
  /\ UNCHANGED <<broadcast, broadcastChan, pub, ctxDone, accepted, delivered, dropped, unnamed, clean>>

\* Mutant: Run waits for both Go channels to be empty.
DrainReturnBothEmpty ==
  /\ hub = Draining /\ broadcast = <<>> /\ broadcastChan = <<>>
  /\ hub' = Returned
  /\ UNCHANGED <<broadcast, broadcastChan, pub, ctxDone, accepted, delivered, dropped, unnamed, clean>>

DrainReturn ==
  /\ hub = Draining /\ broadcast = <<>>
  /\ hub' = Returned
  /\ UNCHANGED <<broadcast, broadcastChan, pub, ctxDone, accepted, delivered, dropped, unnamed, clean>>

Run == RunTake \/ RunDeliver \/ RunDrop \/ DrainStart \/ DrainTake \/ DrainDeliver \/ DrainReturn

CancelCtx ==
  /\ ~ctxDone
  /\ ctxDone' = TRUE
  /\ UNCHANGED <<broadcast, broadcastChan, pub, hub, accepted, delivered, dropped, unnamed, clean>>

Next ==
  \/ \E p \in Publishers, ch \in Channels : PublishPayload(p, ch)
  \/ \E p \in Publishers : PublishName(p)
  \/ Run
  \/ CancelCtx

Spec == Init /\ [][Next]_vars

(* Run's goroutine and a Publish call under way both go on.                *)
Fairness == WF_vars(Run) /\ \A p \in Publishers : WF_vars(PublishName(p))
FairSpec == Spec /\ Fairness

-----------------------------------------------------------------------------
(* Every variable holds what the code can put in it.                       *)
TypeOK ==
  /\ broadcast \in Seq(Payloads) /\ Len(broadcast) <= Cap
  /\ broadcastChan \in Seq(Channels) /\ Len(broadcastChan) <= Cap
  /\ pub \in [Publishers -> {IdlePub} \cup Sending]
  /\ hub \in {Waiting, Draining, Returned} \cup Holding
  /\ ctxDone \in BOOLEAN
  /\ accepted \in 0..MaxAccepted
  /\ delivered \in {Nothing} \cup [payload : Payloads, chan : Channels]
  /\ dropped \in Nat /\ unnamed \in Nat
  /\ clean \in BOOLEAN

(***************************************************************************)
(* hub.go:96-98: "Out-of-order: drop. (Cannot happen because we publish    *)
(* under h.broadcast then h.broadcastChan in Publish; the Run loop reads   *)
(* in the same order.)"                                                    *)
(***************************************************************************)
OutOfOrderCannotHappen == dropped = 0

(***************************************************************************)
(* What the pairing really guarantees: a payload is delivered on its own   *)
(* channel as long as nothing has been dropped and no two Publish calls    *)
(* have overlapped.                                                        *)
(***************************************************************************)
OwnChannelWhileClean ==
  clean /\ delivered # Nothing => delivered.payload.chan = delivered.chan

(***************************************************************************)
(* Payloads are delivered in the order they were accepted, each at most    *)
(* once (hub.go: "runs serially with respect to other Publishes").         *)
(***************************************************************************)
DeliveredInOrder ==
  [][delivered' # delivered =>
       delivered = Nothing \/ delivered'.payload.seq > delivered.payload.seq]_vars

(***************************************************************************)
(* Nothing accepted before Run returned stays behind, and a cancelled Run  *)
(* returns ("Drain broadcast queue before returning", hub.go:80-81), but    *)
(* for one state: Run drains, holds a payload whose name Publish dropped,  *)
(* and waits for a name nobody will send.                                  *)
(***************************************************************************)
Stuck == hub.pc = "drainhold" /\ broadcastChan = <<>> /\ unnamed > dropped

Queued(n) == \E i \in DOMAIN broadcast : broadcast[i].seq = n
AcceptedLeave ==
  \A n \in 1..MaxAccepted : Queued(n) /\ hub # Returned ~> ~Queued(n) \/ Stuck
DrainReturns == ctxDone ~> hub = Returned \/ Stuck
=============================================================================
