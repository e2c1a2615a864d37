-------------------------- MODULE HubDispatchProofs --------------------------
(***************************************************************************)
(* Proofs about HubDispatch, for any publishers, channels and capacity.    *)
(* What Run has not delivered yet is the payload it holds followed by the  *)
(* ones queued; Pending(i) is the i-th of these.                           *)
(***************************************************************************)
EXTENDS HubDispatch, TLAPS

Pending(i) == IF Held = 1 THEN IF i = 1 THEN hub.payload ELSE broadcast[i - 1]
              ELSE broadcast[i]

-----------------------------------------------------------------------------
LEMMA InitType == Init => TypeOK
<1> SUFFICES ASSUME Init PROVE TypeOK
  OBVIOUS
<1>1. /\ broadcast \in Seq(Payloads) /\ Len(broadcast) <= Cap
      /\ broadcastChan \in Seq(Channels) /\ Len(broadcastChan) <= Cap
      /\ accepted \in 0..MaxAccepted /\ dropped \in Nat /\ unnamed \in Nat
  BY HubAssumption DEF Init
<1>2. pub \in [Publishers -> {IdlePub} \cup Sending]
  BY DEF Init
<1> QED
  BY <1>1, <1>2 DEF Init, TypeOK

LEMMA TakeType ==
  ASSUME TypeOK, NEW from, NEW to \in {"hold", "drainhold"}, Take(from, to)
  PROVE  TypeOK'
<1>1. /\ broadcast' = Tail(broadcast) /\ Head(broadcast) \in Payloads
      /\ Tail(broadcast) \in Seq(Payloads) /\ Len(Tail(broadcast)) = Len(broadcast) - 1
  BY DEF TypeOK, Take
<1>2. hub' \in Holding
  BY <1>1 DEF Take, Holding
<1> QED
  BY <1>1, <1>2, HubAssumption DEF TypeOK, Take

LEMMA DeliverType ==
  ASSUME TypeOK, NEW from \in {"hold", "drainhold"}, NEW to \in {Waiting, Draining},
         Deliver(from, to)
  PROVE  TypeOK'
<1>1. hub \in Holding
  BY DEF TypeOK, Deliver, Waiting, Draining, Returned
<1>2. /\ Head(broadcastChan) \in Channels
      /\ Tail(broadcastChan) \in Seq(Channels)
      /\ Len(Tail(broadcastChan)) = Len(broadcastChan) - 1
  BY DEF TypeOK, Deliver
<1>3. delivered' \in [payload : Payloads, chan : Channels]
  BY <1>1, <1>2 DEF Deliver, Holding
<1> QED
  BY <1>2, <1>3, HubAssumption DEF TypeOK, Deliver

LEMMA NextType == TypeOK /\ [Next]_vars => TypeOK'
<1> SUFFICES ASSUME TypeOK, [Next]_vars PROVE TypeOK'
  OBVIOUS
<1>1. CASE UNCHANGED vars
  BY <1>1 DEF TypeOK, vars
<1>2. ASSUME NEW p \in Publishers, NEW ch \in Channels, PublishPayload(p, ch) PROVE TypeOK'
  <2> DEFINE m == [seq |-> accepted + 1, chan |-> ch]
  <2>1. m \in Payloads
    BY <1>2, HubAssumption DEF TypeOK, PublishPayload, Payloads
  <2>2. broadcast' \in Seq(Payloads) /\ Len(broadcast') <= Cap
    BY <1>2, <2>1, HubAssumption DEF TypeOK, PublishPayload
  <2>3. pub' \in [Publishers -> {IdlePub} \cup Sending]
    BY <1>2 DEF TypeOK, PublishPayload, Sending
  <2>4. accepted' \in 0..MaxAccepted
    BY <1>2, HubAssumption DEF TypeOK, PublishPayload
  <2> QED
    BY <1>2, <2>2, <2>3, <2>4 DEF TypeOK, PublishPayload
<1>3. ASSUME NEW p \in Publishers, PublishName(p) PROVE TypeOK'
  <2>1. pub[p] \in Sending /\ pub[p].chan \in Channels
    BY <1>3 DEF TypeOK, PublishName, Sending
  <2>2. broadcastChan' \in Seq(Channels) /\ Len(broadcastChan') <= Cap
    BY <1>3, <2>1, HubAssumption DEF TypeOK, PublishName
  <2>3. pub' \in [Publishers -> {IdlePub} \cup Sending]
    BY <1>3 DEF TypeOK, PublishName
  <2>4. unnamed' \in Nat
    BY <1>3 DEF TypeOK, PublishName
  <2>5. clean' \in BOOLEAN
    BY <1>3, Zenon DEF TypeOK, PublishName
  <2> QED
    BY <1>3, <2>2, <2>3, <2>4, <2>5, Zenon DEF TypeOK, PublishName
<1>4. CASE RunTake
  BY <1>4, TakeType DEF RunTake
<1>5. CASE DrainTake
  BY <1>5, TakeType DEF DrainTake
<1>6. CASE RunDeliver
  BY <1>6, DeliverType DEF RunDeliver
<1>7. CASE DrainDeliver
  BY <1>7, DeliverType DEF DrainDeliver
<1>8. CASE RunDrop
  <2>1. dropped' \in Nat
    BY <1>8 DEF TypeOK, RunDrop
  <2> QED
    BY <1>8, <2>1, Zenon DEF TypeOK, RunDrop
<1>9. CASE DrainStart \/ DrainReturn \/ CancelCtx
  BY <1>9 DEF TypeOK, DrainStart, DrainReturn, CancelCtx
<1> QED
  BY <1>1, <1>2, <1>3, <1>4, <1>5, <1>6, <1>7, <1>8, <1>9 DEF Next, Run

(* Every variable keeps its type; either Go channel keeps its capacity.    *)
THEOREM Typing == Spec => []TypeOK
  BY InitType, NextType, PTL DEF Spec

-----------------------------------------------------------------------------
(***************************************************************************)
(* The pairing.  While nothing was dropped and no two calls overlapped, at *)
(* most one publisher is between its sends, the names queued and its own   *)
(* are as many as the payloads pending, and each pending payload meets the *)
(* name of its own channel.                                                *)
(***************************************************************************)
Paired ==
  clean =>
    /\ \A p, q \in Between : p = q
    /\ Between = {} => Held + Len(broadcast) = Len(broadcastChan)
    /\ Between # {} => Held + Len(broadcast) = Len(broadcastChan) + 1
    /\ \A i \in 1..Len(broadcastChan) : Pending(i).chan = broadcastChan[i]
    /\ \A p \in Between : Pending(Len(broadcastChan) + 1).chan = pub[p].chan

OwnChannelInv == TypeOK /\ Paired /\ OwnChannelWhileClean

LEMMA PairedInit == Init => Paired /\ OwnChannelWhileClean
<1> SUFFICES ASSUME Init PROVE Paired /\ OwnChannelWhileClean
  OBVIOUS
<1>1. Between = {} /\ Held = 0
  BY DEF Init, Between, IdlePub, Held, Waiting
<1> QED
  BY <1>1 DEF Init, Paired, OwnChannelWhileClean

\* A step that leaves the queues, Run's payload and the publishers alone.
LEMMA PairedFrame ==
  ASSUME Paired, OwnChannelWhileClean,
         UNCHANGED <<broadcast, broadcastChan, pub, delivered, clean>>,
         Held' = Held, Held = 1 => hub' = hub
  PROVE  Paired' /\ OwnChannelWhileClean'
<1>1. Between' = Between /\ \A i : Pending(i)' = Pending(i)
  BY DEF Between, Pending
<1> QED
  BY <1>1 DEF Paired, OwnChannelWhileClean

LEMMA TakePaired ==
  ASSUME TypeOK, Paired, OwnChannelWhileClean,
         NEW from \in {Waiting, Draining}, NEW to \in {"hold", "drainhold"}, Take(from, to)
  PROVE  Paired' /\ OwnChannelWhileClean'
<1>1. Held = 0 /\ Held' = 1
  BY DEF Take, Held, Waiting, Draining
<1>2. Between' = Between
  BY DEF Take, Between
<1>3. Len(broadcast) \in Nat /\ Len(broadcast') = Len(broadcast) - 1 /\ Len(broadcast) >= 1
  BY DEF TypeOK, Take
<1>4. \A i \in 1..Len(broadcast) : Pending(i)' = Pending(i)
  <2> TAKE i \in 1..Len(broadcast)
  <2>1. Pending(i) = broadcast[i]
    BY <1>1 DEF Pending
  <2>2. CASE i = 1
    BY <2>1, <2>2, <1>1 DEF Pending, Take, TypeOK
  <2>3. CASE i # 1
    <3>1. Tail(broadcast)[i - 1] = broadcast[i]
      BY <2>3, <1>3 DEF TypeOK
    <3> QED
      BY <3>1, <2>1, <2>3, <1>1 DEF Pending, Take
  <2> QED
    BY <2>2, <2>3
<1>5. Len(broadcastChan) \in Nat
  BY DEF TypeOK
<1>6. ASSUME clean PROVE Paired'
  <2>1. Len(broadcastChan) <= Len(broadcast)
        /\ (Between # {} => Len(broadcastChan) + 1 = Len(broadcast))
    BY <1>1, <1>3, <1>5, <1>6 DEF Paired
  <2>2. UNCHANGED <<broadcastChan, pub, clean>>
    BY DEF Take
  <2>3. \A i \in 1..Len(broadcastChan) : Pending(i)' = Pending(i)
    BY <1>4, <2>1, <1>3, <1>5
  <2>4. Between # {} => Pending(Len(broadcastChan) + 1)' = Pending(Len(broadcastChan) + 1)
    BY <1>4, <2>1, <1>3, <1>5, <2>2
  <2>5. /\ Between = {} => Held' + Len(broadcast') = Len(broadcastChan)
        /\ Between # {} => Held' + Len(broadcast') = Len(broadcastChan) + 1
    BY <1>1, <1>3, <1>5, <1>6 DEF Paired
  <2>6. \A i \in 1..Len(broadcastChan') : Pending(i)'.chan = broadcastChan'[i]
    BY <2>2, <2>3, <1>6 DEF Paired
  <2>7. \A p \in Between' : Pending(Len(broadcastChan) + 1)'.chan = pub'[p].chan
    BY <2>2, <2>4, <1>2, <1>6 DEF Paired
  <2> QED
    BY <1>2, <1>6, <2>2, <2>5, <2>6, <2>7 DEF Paired
<1>7. ~clean => Paired'
  BY DEF Paired, Take
<1> QED
  BY <1>6, <1>7 DEF Take, OwnChannelWhileClean

LEMMA DeliverPaired ==
  ASSUME TypeOK, Paired, OwnChannelWhileClean,
         NEW from \in {"hold", "drainhold"}, NEW to \in {Waiting, Draining}, Deliver(from, to)
  PROVE  Paired' /\ OwnChannelWhileClean'
<1>1. Held = 1 /\ Held' = 0
  BY DEF Deliver, Held, Waiting, Draining
<1>2. Between' = Between /\ UNCHANGED <<pub, broadcast, clean>>
  BY DEF Deliver, Between
<1>3. /\ Len(broadcastChan) \in Nat /\ Len(broadcast) \in Nat
      /\ Len(broadcastChan') = Len(broadcastChan) - 1 /\ Len(broadcastChan) >= 1
      /\ Head(broadcastChan) = broadcastChan[1]
      /\ \A i \in 1..(Len(broadcastChan) - 1) : broadcastChan'[i] = broadcastChan[i + 1]
  BY DEF TypeOK, Deliver
<1>4. \A i \in Nat \ {0} : Pending(i)' = Pending(i + 1)
  BY <1>1, <1>2 DEF Pending
<1>5. CASE clean
  <2>1. \A i \in 1..Len(broadcastChan) : Pending(i).chan = broadcastChan[i]
    BY <1>5 DEF Paired
  <2>2. delivered'.payload.chan = delivered'.chan
    <3>1. Pending(1) = hub.payload
      BY <1>1 DEF Pending
    <3> QED
      BY <3>1, <2>1, <1>3 DEF Deliver
  <2>3. \A i \in 1..Len(broadcastChan') : Pending(i)'.chan = broadcastChan'[i]
    <3> TAKE i \in 1..Len(broadcastChan')
    <3>1. i \in Nat \ {0} /\ i + 1 \in 1..Len(broadcastChan) /\ i \in 1..(Len(broadcastChan) - 1)
      BY <1>3
    <3> QED
      BY <3>1, <2>1, <1>3, <1>4
  <2>4. /\ Between = {} => Held' + Len(broadcast') = Len(broadcastChan')
        /\ Between # {} => Held' + Len(broadcast') = Len(broadcastChan') + 1
    BY <1>1, <1>2, <1>3, <1>5 DEF Paired
  <2>5. \A p \in Between' : (Pending(Len(broadcastChan) + 1).chan = pub[p].chan)'
    <3>1. PICK n \in Nat \ {0} : n = Len(broadcastChan)
      BY <1>3
    <3>2. Pending(n)' = Pending(Len(broadcastChan) + 1)
      BY <3>1, <1>4
    <3>3. (Pending(Len(broadcastChan) + 1))' = Pending(n)'
      BY <3>1, <1>3 DEF Pending
    <3> QED
      BY <3>2, <3>3, <1>2, <1>5 DEF Paired
  <2>6. Paired'
    BY <1>2, <1>5, <2>3, <2>4, <2>5 DEF Paired
  <2> QED
    BY <2>2, <2>6 DEF OwnChannelWhileClean
<1>6. CASE ~clean
  BY <1>2, <1>6 DEF Paired, OwnChannelWhileClean
<1> QED
  BY <1>5, <1>6 DEF TypeOK

LEMMA PayloadPaired ==
  ASSUME TypeOK, Paired, OwnChannelWhileClean,
         NEW p \in Publishers, NEW ch \in Channels, PublishPayload(p, ch)
  PROVE  Paired' /\ OwnChannelWhileClean'
<1> DEFINE m == [seq |-> accepted + 1, chan |-> ch]
<1>1. Held' = Held /\ Held \in {0, 1} /\ UNCHANGED <<broadcastChan, delivered>>
  BY DEF PublishPayload, Held
<1>2. /\ Between' = Between \cup {p} /\ p \notin Between
      /\ pub'[p].chan = ch
  BY DEF TypeOK, PublishPayload, Between, IdlePub
<1>3. /\ Len(broadcast) \in Nat /\ Len(broadcastChan) \in Nat
      /\ Len(broadcast') = Len(broadcast) + 1
      /\ broadcast'[Len(broadcast) + 1] = m
      /\ \A i \in 1..Len(broadcast) : broadcast'[i] = broadcast[i]
  BY DEF TypeOK, PublishPayload
<1>4. CASE clean /\ Between = {}
  <2>1. Held + Len(broadcast) = Len(broadcastChan)
    BY <1>4 DEF Paired
  <2>2. \A i \in 1..Len(broadcastChan) : Pending(i)' = Pending(i)
    BY <1>1, <1>3, <2>1 DEF Pending, PublishPayload
  <2>3. (Pending(Len(broadcastChan) + 1))' = m
    BY <1>1, <1>3, <2>1 DEF Pending
  <2>4. \A i \in 1..Len(broadcastChan) : Pending(i)'.chan = broadcastChan[i]
    BY <2>2, <1>4 DEF Paired
  <2>5. (Pending(Len(broadcastChan) + 1))'.chan = ch
    BY <2>3
  <2>6. Between' = {p} /\ Held' + Len(broadcast') = Len(broadcastChan') + 1
    BY <1>1, <1>2, <1>3, <1>4, <2>1
  <2>7. Paired'
    BY <2>4, <2>5, <2>6, <1>1, <1>2 DEF Paired
  <2> QED
    BY <2>7, <1>1, <1>4 DEF OwnChannelWhileClean, PublishPayload
<1>5. CASE ~(clean /\ Between = {})
  BY <1>5 DEF PublishPayload, Paired, OwnChannelWhileClean
<1> QED
  BY <1>4, <1>5

LEMMA NamePaired ==
  ASSUME TypeOK, Paired, OwnChannelWhileClean, NEW p \in Publishers, PublishName(p)
  PROVE  Paired' /\ OwnChannelWhileClean'
<1>1. /\ Held' = Held /\ Held \in {0, 1} /\ UNCHANGED <<broadcast, delivered>>
      /\ \A i : Pending(i)' = Pending(i)
  BY DEF PublishName, Held, Pending
<1>2. p \in Between /\ Between' = Between \ {p} /\ pub[p].chan \in Channels
  BY DEF TypeOK, PublishName, Between, IdlePub, Sending
<1>3. Len(broadcast) \in Nat /\ Len(broadcastChan) \in Nat
  BY DEF TypeOK
<1>4. CASE clean /\ Len(broadcastChan) < Cap
  <2>1. Between = {p} /\ Between' = {}
    BY <1>2, <1>4 DEF Paired
  <2>0. ~(Len(broadcastChan) >= Cap)
    BY <1>3, <1>4, HubAssumption
  <2>2. clean' = clean /\ broadcastChan' = Append(broadcastChan, pub[p].chan)
    BY <2>0, Zenon DEF PublishName
  <2>3. /\ Len(broadcastChan') = Len(broadcastChan) + 1
        /\ broadcastChan'[Len(broadcastChan) + 1] = pub[p].chan
        /\ \A i \in 1..Len(broadcastChan) : broadcastChan'[i] = broadcastChan[i]
    BY <2>2, <1>2 DEF TypeOK
  <2>4. Pending(Len(broadcastChan) + 1).chan = pub[p].chan
    BY <1>2, <1>4 DEF Paired
  <2>5. \A i \in 1..Len(broadcastChan') : Pending(i)'.chan = broadcastChan'[i]
    <3> TAKE i \in 1..Len(broadcastChan')
    <3>1. CASE i \in 1..Len(broadcastChan)
      BY <3>1, <1>1, <1>4, <2>3 DEF Paired
    <3>2. CASE i = Len(broadcastChan) + 1
      BY <3>2, <1>1, <2>3, <2>4
    <3> QED
      BY <3>1, <3>2, <2>3, <1>3
  <2>6. Held' + Len(broadcast') = Len(broadcastChan')
    BY <1>1, <1>3, <1>4, <2>1, <2>3 DEF Paired
  <2>7. Paired'
    BY <2>1, <2>5, <2>6 DEF Paired
  <2> QED
    BY <2>2, <2>7, <1>1 DEF OwnChannelWhileClean
<1>5. CASE ~clean \/ ~(Len(broadcastChan) < Cap)
  <2>1. ~clean'
    BY <1>3, <1>5, HubAssumption DEF PublishName
  <2> QED
    BY <2>1 DEF Paired, OwnChannelWhileClean
<1> QED
  BY <1>4, <1>5

LEMMA NextPaired == OwnChannelInv /\ [Next]_vars => Paired' /\ OwnChannelWhileClean'
<1> SUFFICES ASSUME TypeOK, Paired, OwnChannelWhileClean, [Next]_vars
             PROVE  Paired' /\ OwnChannelWhileClean'
  BY DEF OwnChannelInv
<1>1. CASE UNCHANGED vars
  BY <1>1, PairedFrame DEF vars, Held
<1>2. CASE \E p \in Publishers, ch \in Channels : PublishPayload(p, ch)
  BY <1>2, PayloadPaired
<1>3. CASE \E p \in Publishers : PublishName(p)
  BY <1>3, NamePaired
<1>4. CASE RunTake \/ DrainTake
  BY <1>4, TakePaired DEF RunTake, DrainTake
<1>5. CASE RunDeliver \/ DrainDeliver
  BY <1>5, DeliverPaired DEF RunDeliver, DrainDeliver
<1>6. CASE RunDrop
  BY <1>6 DEF RunDrop, Paired, OwnChannelWhileClean
<1>7. CASE DrainStart
  BY <1>7, PairedFrame DEF DrainStart, Held, Waiting, Draining
<1>8. CASE DrainReturn
  BY <1>8, PairedFrame DEF DrainReturn, Held, Draining, Returned
<1>9. CASE CancelCtx
  BY <1>9, PairedFrame DEF CancelCtx, Held
<1> QED
  BY <1>1, <1>2, <1>3, <1>4, <1>5, <1>6, <1>7, <1>8, <1>9 DEF Next, Run

(***************************************************************************)
(* A payload is delivered on its own channel as long as nothing was        *)
(* dropped and no two Publish calls overlapped.                            *)
(***************************************************************************)
THEOREM OwnChannel == Spec => []OwnChannelWhileClean
<1>1. Init => OwnChannelInv
  BY InitType, PairedInit DEF OwnChannelInv
<1>2. OwnChannelInv /\ [Next]_vars => OwnChannelInv'
  BY NextType, NextPaired DEF OwnChannelInv
<1>3. OwnChannelInv => OwnChannelWhileClean
  BY DEF OwnChannelInv
<1> QED
  BY <1>1, <1>2, <1>3, PTL DEF Spec

-----------------------------------------------------------------------------
(***************************************************************************)
(* The order.  Payloads are queued in the order of their numbers, behind   *)
(* the one Run holds, behind the last one delivered.                       *)
(***************************************************************************)
Behind(n) == /\ n <= accepted
             /\ \A i \in 1..Len(broadcast) : n < broadcast[i].seq

Ordered ==
  /\ \A i \in 1..Len(broadcast) : broadcast[i].seq <= accepted
  /\ \A i, j \in 1..Len(broadcast) : i < j => broadcast[i].seq < broadcast[j].seq
  /\ Held = 1 => Behind(hub.payload.seq)
  /\ delivered # Nothing => Behind(delivered.payload.seq)
  /\ delivered # Nothing /\ Held = 1 => delivered.payload.seq < hub.payload.seq

OrderInv == TypeOK /\ Ordered

\* A step that leaves the payloads alone.
LEMMA OrderedFrame ==
  ASSUME Ordered, UNCHANGED <<broadcast, accepted, delivered>>,
         Held' = 0 \/ (Held' = Held /\ hub' = hub)
  PROVE  Ordered'
  BY DEF Ordered, Behind

LEMMA PayloadOrdered ==
  ASSUME TypeOK, Ordered, NEW p \in Publishers, NEW ch \in Channels, PublishPayload(p, ch)
  PROVE  Ordered'
<1> DEFINE m == [seq |-> accepted + 1, chan |-> ch]
<1>1. /\ Len(broadcast) \in Nat /\ accepted \in Nat /\ accepted' = accepted + 1
      /\ Len(broadcast') = Len(broadcast) + 1
      /\ broadcast'[Len(broadcast) + 1] = m
      /\ \A i \in 1..Len(broadcast) : broadcast'[i] = broadcast[i]
  BY HubAssumption DEF TypeOK, PublishPayload
<1>2. /\ \A i \in 1..Len(broadcast) : broadcast[i].seq \in Nat
      /\ delivered # Nothing => delivered.payload.seq \in Nat
      /\ Held = 1 => hub.payload.seq \in Nat
  <2>1. \A m1 \in Payloads : m1.seq \in Nat
    BY HubAssumption DEF Payloads
  <2>2. \A i \in 1..Len(broadcast) : broadcast[i] \in Payloads
    BY DEF TypeOK
  <2>3. delivered # Nothing => delivered.payload \in Payloads
    BY DEF TypeOK
  <2>4. Held = 1 => hub.payload \in Payloads
    BY DEF TypeOK, Held, Holding, Waiting, Draining, Returned
  <2> QED
    BY <2>1, <2>2, <2>3, <2>4
<1>3. Held' = Held /\ hub' = hub /\ delivered' = delivered
  BY DEF PublishPayload, Held
<1>4. \A n \in Nat : Behind(n) => Behind(n)'
  BY <1>1, <1>2 DEF Behind
<1>5. \A i \in 1..Len(broadcast') : broadcast'[i].seq <= accepted'
  BY <1>1, <1>2 DEF Ordered
<1>6. \A i, j \in 1..Len(broadcast') : i < j => broadcast'[i].seq < broadcast'[j].seq
  <2> SUFFICES ASSUME NEW i \in 1..Len(broadcast'), NEW j \in 1..Len(broadcast'), i < j
               PROVE  broadcast'[i].seq < broadcast'[j].seq
    OBVIOUS
  <2>1. i \in 1..Len(broadcast)
    BY <1>1
  <2>2. CASE j \in 1..Len(broadcast)
    BY <2>1, <2>2, <1>1 DEF Ordered
  <2>3. CASE j = Len(broadcast) + 1
    BY <2>1, <2>3, <1>1, <1>2 DEF Ordered
  <2> QED
    BY <2>2, <2>3, <1>1
<1> QED
  BY <1>2, <1>3, <1>4, <1>5, <1>6 DEF Ordered

LEMMA TakeOrdered ==
  ASSUME TypeOK, Ordered, NEW from, NEW to \in {"hold", "drainhold"}, Take(from, to)
  PROVE  Ordered'
<1>1. /\ Len(broadcast) \in Nat /\ Len(broadcast) >= 1
      /\ Len(broadcast') = Len(broadcast) - 1
      /\ \A i \in 1..(Len(broadcast) - 1) : broadcast'[i] = broadcast[i + 1]
      /\ hub'.payload = broadcast[1] /\ Held' = 1
      /\ UNCHANGED <<accepted, delivered>>
  BY DEF TypeOK, Take, Held
<1>2. \A i \in 1..Len(broadcast') : i + 1 \in 1..Len(broadcast) /\ broadcast'[i] = broadcast[i + 1]
  BY <1>1
<1>3. 1 \in 1..Len(broadcast)
  BY <1>1
<1>4. delivered # Nothing => Behind(delivered.payload.seq)' /\ delivered.payload.seq < hub'.payload.seq
  BY <1>1, <1>2, <1>3 DEF Ordered, Behind
<1>5. Behind(hub.payload.seq)'
  BY <1>1, <1>2, <1>3 DEF Ordered, Behind
<1>6. /\ \A i \in 1..Len(broadcast') : broadcast'[i].seq <= accepted'
      /\ \A i, j \in 1..Len(broadcast') : i < j => broadcast'[i].seq < broadcast'[j].seq
  <2>1. /\ \A i \in 1..Len(broadcast) : broadcast[i].seq <= accepted
        /\ \A i, j \in 1..Len(broadcast) : i < j => broadcast[i].seq < broadcast[j].seq
    BY DEF Ordered
  <2>2. \A i \in 1..Len(broadcast') : broadcast'[i].seq <= accepted'
    BY <1>1, <1>2, <2>1
  <2>3. ASSUME NEW i \in 1..Len(broadcast'), NEW j \in 1..Len(broadcast'), i < j
        PROVE  broadcast'[i].seq < broadcast'[j].seq
    <3>1. /\ i + 1 \in 1..Len(broadcast) /\ broadcast'[i] = broadcast[i + 1]
          /\ j + 1 \in 1..Len(broadcast) /\ broadcast'[j] = broadcast[j + 1]
      BY <1>2
    <3>2. i + 1 < j + 1
      BY <1>1, <2>3
    <3> QED BY <2>1, <3>1, <3>2
  <2> QED BY <2>2, <2>3
<1> QED
  BY <1>1, <1>4, <1>5, <1>6 DEF Ordered

LEMMA DeliverOrdered ==
  ASSUME TypeOK, Ordered,
         NEW from \in {"hold", "drainhold"}, NEW to \in {Waiting, Draining}, Deliver(from, to)
  PROVE  Ordered' /\ (delivered # Nothing => delivered'.payload.seq > delivered.payload.seq)
<1>1. Held = 1 /\ Held' = 0 /\ delivered'.payload = hub.payload
      /\ UNCHANGED <<broadcast, accepted>>
  BY DEF Deliver, Held, Waiting, Draining
<1>2. hub.payload.seq \in Nat /\ (delivered # Nothing => delivered.payload.seq \in Nat)
  BY HubAssumption DEF TypeOK, Payloads, Deliver, Holding, Waiting, Draining, Returned
<1>3. Behind(delivered.payload.seq)'
  BY <1>1 DEF Ordered, Behind
<1>4. Ordered'
  BY <1>1, <1>3 DEF Ordered
<1> QED
  BY <1>1, <1>2, <1>4 DEF Ordered

InOrder == delivered' # delivered =>
             delivered = Nothing \/ delivered'.payload.seq > delivered.payload.seq

LEMMA NextOrdered == OrderInv /\ [Next]_vars => Ordered' /\ InOrder
<1> SUFFICES ASSUME TypeOK, Ordered, [Next]_vars PROVE Ordered' /\ InOrder
  BY DEF OrderInv
<1>1. CASE UNCHANGED vars
  BY <1>1, OrderedFrame DEF vars, Held, InOrder
<1>2. CASE \E p \in Publishers, ch \in Channels : PublishPayload(p, ch)
  BY <1>2, PayloadOrdered DEF PublishPayload, InOrder
<1>3. CASE \E p \in Publishers : PublishName(p)
  BY <1>3, OrderedFrame DEF PublishName, Held, InOrder
<1>4. CASE RunTake \/ DrainTake
  <2>1. Ordered'
    BY <1>4, TakeOrdered DEF RunTake, DrainTake
  <2> QED
    BY <1>4, <2>1 DEF RunTake, DrainTake, Take, InOrder
<1>5. CASE RunDeliver \/ DrainDeliver
  BY <1>5, DeliverOrdered DEF RunDeliver, DrainDeliver, InOrder
<1>6. CASE RunDrop
  BY <1>6, OrderedFrame DEF RunDrop, Held, Waiting, InOrder
<1>7. CASE DrainStart
  BY <1>7, OrderedFrame DEF DrainStart, Held, Waiting, Draining, InOrder
<1>8. CASE DrainReturn
  BY <1>8, OrderedFrame DEF DrainReturn, Held, Draining, Returned, InOrder
<1>9. CASE CancelCtx
  BY <1>9, OrderedFrame DEF CancelCtx, Held, InOrder
<1> QED
  BY <1>1, <1>2, <1>3, <1>4, <1>5, <1>6, <1>7, <1>8, <1>9 DEF Next, Run

LEMMA InitOrdered == Init => OrderInv
<1> SUFFICES ASSUME Init PROVE Ordered
  BY InitType DEF OrderInv
<1>1. Held = 0 /\ delivered = Nothing /\ Len(broadcast) = 0
  BY DEF Init, Held, Waiting
<1> QED
  BY <1>1 DEF Ordered

(***************************************************************************)
(* Payloads are delivered in the order they were accepted, each at most    *)
(* once, whatever is dropped and however calls overlap.                    *)
(***************************************************************************)
THEOREM Order == Spec => DeliveredInOrder
<1>1. OrderInv /\ [Next]_vars => OrderInv'
  BY NextType, NextOrdered DEF OrderInv
<1>2. OrderInv /\ [Next]_vars
        => [delivered' # delivered =>
              delivered = Nothing \/ delivered'.payload.seq > delivered.payload.seq]_vars
  BY NextOrdered DEF InOrder
<1> QED
  BY InitOrdered, <1>1, <1>2, PTL DEF Spec, DeliveredInOrder
=============================================================================
